SPECIFICATION Spec
CONSTANTS
    Writers = {1, 2, 3}
    Legacy = {0}
    NoHash = NoHash
    MaxTime = 4
    Days <- SmallWindows
    Records <- SomeRecords
    Settings <- WrittenAndAltered
INVARIANTS
    TrailIsSound
    AlterationsAreReported
PROPERTIES
    SweepIsHarmless
CHECK_DEADLOCK FALSE
