SPECIFICATION FairSpec
CONSTANTS
    r1 = r1
    r2 = r2
    d1 = d1
    d2 = d2
    o1 = o1
    Requests = {r1, r2}
    Deciders = {d1, d2}
    Operators = {o1}
    NoRun = NoRun
    Settings <- HastyAndPatient
INVARIANTS
    DecisionsAreObeyed
    PatienceSuffices
PROPERTIES
    DecisionIsFinal
    ImplementsPromise
    DecisionSettlesRun
CHECK_DEADLOCK FALSE
