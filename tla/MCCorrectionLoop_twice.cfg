SPECIFICATION LoopSpec
CONSTANTS
    MaxCorrections = 2
    MaxOperations = 1
    OtherPenalties <- SomePenalties
INVARIANTS
    RunsOnce
CHECK_DEADLOCK FALSE
