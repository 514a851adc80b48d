SPECIFICATION Spec
CONSTANTS
    p1 = p1
    p2 = p2
    Payloads = {p1, p2}
    Advances <- Forward
    MaxRows = 4
    MaxTampers = 1
    Start = 0
    MaxTime = 6
CHECK_DEADLOCK FALSE
INVARIANTS
    TypeOK
    HonestVerifies
    DamageShows
