CONSTANTS
    c1 = c1  c2 = c2
    s1 = s1  s2 = s2
    Clients = {c1, c2}
    Servers = {s1, s2}
    Stray = Stray
    NoRequest = NoRequest
    MaxCalls = 2
    MaxMakes = 3
    MaxStrays = 1
SPECIFICATION Spec
SYMMETRY Symmetric
INVARIANT OwnAnswer
PROPERTY OnlyPurgeLoses
CHECK_DEADLOCK FALSE
