SPECIFICATION FairSpec
CONSTANTS
    a = a
    b = b
    Client = {c1, c2}
    Line <- MCLine
    Item <- MCItem
    item <- MCItemOf
    quantity <- MCQuantity
    recvMethod <- MCRecvMethod
    billMethod <- MCBillMethod
    Requests <- MCRequests
PROPERTIES
    EveryTransactionEnds
