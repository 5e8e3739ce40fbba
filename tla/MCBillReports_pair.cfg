SPECIFICATION Spec
CONSTANTS
    LastBill = 2
    Legacy = {1}
    Requests = {r1, r2}
    NoReport = NoReport
    MaxRevisions = 2
    MaxChanges = 1
SYMMETRY Symmetry
INVARIANTS
    TypeOK
    ReviewedHasReport
    FreshRevisionImproves
    NoMutualWait
PROPERTIES
    SecondRequestStoresNothing
CHECK_DEADLOCK FALSE
