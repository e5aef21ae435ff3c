SPECIFICATION Spec
CONSTANTS
    r1 = r1
    r2 = r2
    d1 = d1
    d2 = d2
    o1 = o1
    Requests = {r1, r2}
    Deciders = {d1, d2}
    Operators = {o1}
    NoRun = NoRun
    Settings <- TwoDeciders
INVARIANTS
    RunsOnce
CHECK_DEADLOCK FALSE
