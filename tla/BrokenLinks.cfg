\* Destinations whose socket is closed.
CONSTANTS
    s1 = s1
    s2 = s2
    d1 = d1
    d2 = d2
    a = a
    b = b
    e = e
    None = None
    Sources = {s1, s2}
    Destinations = {d1, d2}
    ClOrdIds = {a, b}
    Router <- MCRouter
    Targets <- MCTargets
    MaxUid = 4
    IdSpace = 8
    IdScope = "global"
    Notionals = {FALSE}
SPECIFICATION Spec
SYMMETRY ClientIds
INVARIANT
    DisconnectedDestinationsGetNothing
CHECK_DEADLOCK FALSE
