SPECIFICATION FairSpec
CONSTANTS
    Auths = {a1, a2}
    Nonces = {n1, n2}
    Timers = {t1}
    MaxCalls = 4
    None = none
INVARIANTS
    TypeOK
    KeyIsEnrolled
    OneMandateShown
    PaymentOfShownDecision
    ExecuteNamesItsMandate
PROPERTIES
    ButtonsReturn
    EvidenceCatchesUp
