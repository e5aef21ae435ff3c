SPECIFICATION FairSpec
CONSTANTS
    u1 = u1
    u2 = u2
    u3 = u3
    d1 = d1
    a1 = a1
    Updates = {u1, u2, u3}
    Dispatchers = {d1}
    Admins = {a1}
    NoUpdate = NoUpdate
    MaxAttempts = 2
    Settings <- OverlappingAndNot
INVARIANTS
    AnswersAreTrue
PROPERTIES
    LegalMoves
    EventSettles
CHECK_DEADLOCK FALSE
