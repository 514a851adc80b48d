SPECIFICATION Spec
CONSTANTS
    p1 = p1
    p2 = p2
    Payloads = {p1, p2}
    Advances <- BackAndForth
    MaxRows = 3
    MaxTampers = 0
    Start = 1
    MaxTime = 6
CHECK_DEADLOCK FALSE
INVARIANT FalseMeansTampering
