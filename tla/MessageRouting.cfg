\* config.xml's topology, clients free to use any id, links that break:
\* the tables, and the router against its abstract promise.
CONSTANTS
    s1 = s1
    s2 = s2
    d1 = d1
    d2 = d2
    a = a
    b = b
    None = None
    Sources = {s1, s2}
    Destinations = {d1, d2}
    ClOrdIds = {a, b}
    Router <- MCRouter
    Targets <- MCTargets
    MaxUid = 5
    IdSpace = 6
    IdScope = "any"
    Notionals = {FALSE}
SPECIFICATION Spec
SYMMETRY ClientIds
INVARIANTS
    TypeOK
    ReportsReturnToOrigin
    ChainStaysAtOneDestination
    OrdersStayAddressable
PROPERTY
    ImplementsOrderChains
CHECK_DEADLOCK FALSE
