SPECIFICATION Spec
CONSTANTS
    u1 = u1  t1 = t1  t2 = t2  t3 = t3  t4 = t4  t5 = t5
    q1 = q1  q2 = q2  k1 = k1  k2 = k2
    l1 = l1  l2 = l2  c1 = c1  c2 = c2
    Users = {u1}
    Tries = {t1, t2, t3, t4, t5}
    Requests = {q1, q2}
    Calls = {k1, k2}
    Logins = {l1, l2}
    Callbacks = {c1, c2}
    NoLogin = NoLogin
    Claims <- GroupClaims
    DefaultRole = "employee"
    GivenRoles = {"employee", "manager"}
    MaxTime = 3
    SessionTime = 2
    Window = 2
    Lockout = 2
    MaxFailures = 2
    StateTime = 2
    CodeTime = 1
    IdTokenTime = 2
    Settings <- PasswordsSessionsSignIns
SYMMETRY SameTries
INVARIANTS
    LockoutHolds
    HonestTryGetsIn
    StandingAsAsked
    ServedAreWelcome
    SignInsMakeSessions
CHECK_DEADLOCK FALSE
