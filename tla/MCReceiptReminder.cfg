SPECIFICATION Spec
CONSTANTS
    Runner = {r1, r2}
    Admin = {a1, a2}
    Order = {"o1", "o2"}
    Supplier = {"s"}
    SupplierOf <- MCSupplierOf
    Schedule <- MCSchedule
    Leads = {0}
    VerbsOn <- MCVerbsOn
    Cap = 3
    LastDay = 2
    MaxUpserts = 2
SYMMETRY Symmetry
INVARIANTS
    TypeOK
    EventsBehindStamps
    RemindedOncePerDay
    SettingsBounded
PROPERTIES
    OnlyOpenOrdersStamped
CHECK_DEADLOCK FALSE
