SPECIFICATION Spec
CONSTANTS
    a = a
    b = b
    Client = {c1, c2}
    StartStatus = "purchase"
    Moves <- NoMoves
    MayBreak = FALSE
    Line <- MCLine
    Item <- MCItem
    item <- MCItemOf
    quantity <- MCQuantity
    recvMethod <- MCRecvMethod
    billMethod <- MCBillMethod
INVARIANTS
    StatusesSettle
