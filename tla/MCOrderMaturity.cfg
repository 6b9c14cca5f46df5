SPECIFICATION Spec
SYMMETRY Symmetry
CONSTANTS
    a = a
    b = b
    Client = {c1, c2}
    StartStatus = "draft"
    Moves <- MCMoves
    MayBreak = TRUE
    Line <- MCLine
    Item <- MCItem
    item <- MCItemOf
    quantity <- MCQuantity
    recvMethod <- MCRecvMethod
    billMethod <- MCBillMethod
INVARIANTS
    TypeOK
    LedgerMatches
    StatusesTrusted
PROPERTIES
    FreshRecomputeRepairs
