SPECIFICATION FairSpec
CONSTANTS
    c1 = c1
    c2 = c2
    d1 = d1
    a1 = a1
    Callers = {c1, c2}
    Dispatchers = {d1}
    Admins = {a1}
    MaxAttempts = 3
    Settings <- RoughAndQuiet
INVARIANTS
    OnRecordMeansDone
    EffectOnce
PROPERTIES
    CompletedIsFinal
    OutboxDrains
CHECK_DEADLOCK FALSE
