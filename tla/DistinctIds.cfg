\* The same topology with clients that never share or reuse an id, and a
\* generator that outgrows the venues' id field.
CONSTANTS
    s1 = s1
    s2 = s2
    d1 = d1
    d2 = d2
    a = a
    b = b
    e = e
    None = None
    Sources = {s1, s2}
    Destinations = {d1, d2}
    ClOrdIds = {a, b, e}
    Router <- MCRouter
    Targets <- MCTargets
    MaxUid = 6
    IdSpace = 3
    IdScope = "global"
    Notionals = {TRUE, FALSE}
SPECIFICATION Spec
SYMMETRY ClientIds
INVARIANTS
    ReferencesStayInChain
    RoundRobinBalanced
    IdsRepeatOnlyAfterRound
    ReportsGoToFirstUser
CHECK_DEADLOCK FALSE
