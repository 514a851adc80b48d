SPECIFICATION Spec
CONSTANTS
    a1 = a1
    a2 = a2
    w1 = w1
    w2 = w2
    cheap = cheap
    dear = dear
    refused = refused
    Auths = {a1}
    ChosenIds = {}
    Nonces = {n1, n2}
    Carts = {cheap, dear, refused}
    Workers = {w1, w2}
    Sweeper = sweeper
    PaymentIds = {}
    MaxOrders = 3
    BatchSize = 1
    MaxRequests = 6
    MaxFaults = 1
    None = none
    Total <- MCTotal
    CartVerdict <- MCCartVerdict
    MaxTx <- TwoTx
    Amounts <- MCAmounts
SYMMETRY Symmetric
INVARIANTS
    TypeOK
    LockDiscipline
    ReadsStillTrue
    WithinBudget
    OrdersMatchApprovals
    ProviderWithinBudget
    LogInOrder
    ChainLinked
    EvidenceMatchesState
PROPERTIES
    NoOrderAfterRevocation
    ImplementsMandate
