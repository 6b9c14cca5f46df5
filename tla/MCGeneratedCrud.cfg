SPECIFICATION Spec
CONSTANTS
    Client = {c1, c2}
    Absent = Absent
    Entities <- MCEntities
    MaxWrites = 3
SYMMETRY Symmetry
INVARIANTS
    TypeOK
    RowsObeyRules
    StatesNeverReturn
CHECK_DEADLOCK FALSE
