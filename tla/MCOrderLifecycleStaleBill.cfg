SPECIFICATION Spec
CONSTANTS
    Client = {c1, c2, c3}
    Total = 2
    Rate = 3
    Amounts <- MCAmounts
    MaxEntries = 2
PROPERTIES
    BilledNeverCancelled
