SPECIFICATION FairSpec
CONSTANTS
    w1 = w1
    w2 = w2
    a1 = a1
    Jobs = {1, 2}
    Workers = {w1, w2}
    Admins = {a1}
    max_attempts <- TwiceThenOnce
    RedisEnabled = TRUE
    MaxCrashes = 1
INVARIANTS
    JobsKeepAttempts
    OneWorkerPerJob
PROPERTIES
    CompletedIsFinal
    EveryJobEnds
