SPECIFICATION Spec
CONSTANTS
    c1 = c1
    c2 = c2
    c3 = c3
    Clients = {c1, c2, c3}
    PerClient = 2
    GlobalLimit = 4
    Window = 3
    TicksPerSecond = 2
    MaxClients = 2
    MaxTime = 7
    None = None
SYMMETRY Symmetric
INVARIANTS
    TypeOK
    TableInOrder
    BurstsBounded
PROPERTIES
    RetryAfterSuffices
    ImplementsQuota
