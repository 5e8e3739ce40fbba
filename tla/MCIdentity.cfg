SPECIFICATION MCSpec
CONSTANTS
    Names = {n1}
    Requests = {r1, r2}
    NoName = NoName
    Limits <- MCLimits
    Attempts = {t1, t2}
    MaxAttempts = 3
    Window = 2
    Lockout = 3
    LimitRetention = 2
    NoRow = NoRow
    MaxTime = 6
    Orgs = {o1, o2}
    Accounts = {a1, a2}
    NoAccount = NoAccount
    MaxPlants = 2
    Sites = {z1}
    MaxTries = 2
    MaxConnections = 2
    MaxAgain = 1
    Editors = {e1, e2}
    Estimated = {"tilt"}
    Days = {"today"}
    MaxOvertaken = 1
    MaxLost = 0
    Plants = {p1, p2}
    Credentials = {c1}
    Calls = {q1}
    Nobody = Nobody
    NoPlant = NoPlant
    MaxFanout = 1
SYMMETRY Symmetry
INVARIANTS
    TypeOK
    SessionsEnd
    LinksSpent
    AccountsAreSingle
    OutcomesKept
    ScopeIsExact
PROPERTIES
    LoginBounded
    RefusedLeftAlone
    OwnersPrevail
CHECK_DEADLOCK FALSE
