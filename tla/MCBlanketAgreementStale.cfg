SPECIFICATION Spec
CONSTANTS
    Client = {c1, c2}
    Line = {l1}
    Rates = {r1}
    NoRate = NoRate
    Order = {o1}
    Blanket <- MCBlanket
    Requests <- MCRequests
INVARIANT
    NoPriceOutlivesAgreement
CHECK_DEADLOCK FALSE
