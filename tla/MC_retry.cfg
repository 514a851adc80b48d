SPECIFICATION Spec
CONSTANTS
    a1 = a1
    a2 = a2
    w1 = w1
    w2 = w2
    cheap = cheap
    dear = dear
    refused = refused
    Auths = {a1}
    ChosenIds = {}
    Nonces = {n1, n2}
    Carts = {cheap}
    Workers = {w1, w2}
    Sweeper = sweeper
    PaymentIds = {}
    MaxOrders = 2
    BatchSize = 1
    MaxRequests = 4
    MaxFaults = 0
    None = none
    Total <- MCTotal
    CartVerdict <- MCCartVerdict
    MaxTx <- OneTx
    Amounts <- MCAmounts
SYMMETRY Symmetric
INVARIANTS
    RetryReturnsExistingOrder
