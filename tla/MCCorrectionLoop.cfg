SPECIFICATION FairSpec
CONSTANTS
    MaxCorrections = 3
    MaxOperations = 1
    OtherPenalties <- SomePenalties
INVARIANTS
    CorrectionIsSafe
    CompletedAsDecided
PROPERTIES
    Terminates
CHECK_DEADLOCK FALSE
