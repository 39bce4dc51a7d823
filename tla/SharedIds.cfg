\* Clients whose ids are distinct per client but not across clients.
CONSTANTS
    s1 = s1
    s2 = s2
    d1 = d1
    d2 = d2
    a = a
    b = b
    e = e
    None = None
    Sources = {s1, s2}
    Destinations = {d1, d2}
    ClOrdIds = {a, b}
    Router <- OneToOneRouter
    Targets <- OneToOneTargets
    MaxUid = 5
    IdSpace = 8
    IdScope = "session"
    Notionals = {FALSE}
SPECIFICATION Spec
SYMMETRY ClientIds
INVARIANT
    ReferencesStayInChain
CHECK_DEADLOCK FALSE
