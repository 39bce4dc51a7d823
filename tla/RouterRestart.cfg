\* One restart of the router between any two handlers.
CONSTANTS
    s1 = s1
    s2 = s2
    d1 = d1
    a = a
    b = b
    None = None
    Sources = {s1, s2}
    Destinations = {d1}
    ClOrdIds = {a, b}
    Router <- MCRouter
    Targets <- MCTargets
    MaxUid = 3
    IdSpace = 8
    IdScope = "any"
    MaxRestarts = 1
    Notionals = {FALSE}
SPECIFICATION RSpec
SYMMETRY ClientIds
INVARIANT
    LateReportsAreDropped
PROPERTY
    ImplementsForgetfulChains
CHECK_DEADLOCK FALSE
