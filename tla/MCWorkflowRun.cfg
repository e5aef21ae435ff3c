CONSTANTS
    r1 = r1
    r2 = r2
    v1 = v1
    v2 = v2
    Runs = {r1, r2}
    Reviewers = {v1, v2}
    NoRun = NoRun
    MaxAttempts = 2
    ApprovalThreshold = 1500
    GuardMail = TRUE
    Settings <- AllSettings

SPECIFICATION Spec

INVARIANTS
    ActsWithinAuthority
    EffectsOnce
    CompletedMeansDone
    RecordTellsTheStory
PROPERTIES
    RunsEndAsDecided

CHECK_DEADLOCK FALSE
