SPECIFICATION Spec
CONSTANTS
    a1 = a1
    a2 = a2
    w1 = w1
    w2 = w2
    cheap = cheap
    dear = dear
    refused = refused
    Auths = {a1}
    ChosenIds = {}
    Nonces = {n1, n2}
    Carts = {cheap}
    Workers = {w1, w2}
    Sweeper = sweeper
    PaymentIds = {p1, p2}
    MaxOrders = 2
    BatchSize = 2
    MaxRequests = 5
    MaxFaults = 1
    None = none
    Total <- MCTotal
    CartVerdict <- MCCartVerdict
    MaxTx <- TwoTx
    Amounts <- MCAmounts
SYMMETRY Symmetric
INVARIANTS
    SettledByEvents
    EvidenceMatchesState
PROPERTIES
    SettledForGood
    ImplementsMandate
