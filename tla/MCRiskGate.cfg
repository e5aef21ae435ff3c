SPECIFICATION MCSpec
CONSTANTS
    Environments <- AnyEnvironments
    Criticalities <- AnyCriticalities
    Services <- AnyServices
    Resources <- AnyResources
    Products <- AnyProducts
    CriticalCodes <- AnyServices
    MaxRetries = 1
    Runs <- ManyRuns
    Suggestions <- AnySuggestions
INVARIANTS
    GateIsSafe
    TasksInOrder
    ActsOnOwnEvidence
    CheckpointsCount
    ModelOnlyEscalates
    ReadingRemovesNoHuman
PROPERTIES
    NeverTalkedDown
    GraphEnds
CHECK_DEADLOCK FALSE
