SPECIFICATION Spec
CONSTANTS
    Client = {c1, c2}
    Line = {l1, l2}
    Rates = {r1, r2}
    NoRate = NoRate
    Order = {o1, o2}
    Blanket <- MCBlanket
    Requests <- MCRequests
SYMMETRY Symmetry
INVARIANTS
    TypeOK
    DrawsCounted
    WithinBlanket
    NoCallOffStranded
    OneLivePricePerLine
    PriceIsTheRate
CHECK_DEADLOCK FALSE
