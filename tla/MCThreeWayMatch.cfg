SPECIFICATION Spec
CONSTANTS
    a = a
    b = b
    Client = {c1, c2}
    Line <- MCLine
    Item <- MCItem
    item <- MCItemOf
    quantity <- MCQuantity
    recvMethod <- MCRecvMethod
    billMethod <- MCBillMethod
    Requests <- MCRequests
SYMMETRY Symmetry
INVARIANTS
    TypeOK
    ThreeWayMatchHolds
    AppliedInFull
PROPERTIES
    ImplementsLedger
