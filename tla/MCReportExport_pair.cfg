SPECIFICATION Spec
CONSTANTS
    Drains = {d1, d2}
    MaxTasks = 3
    BatchSize = 2
    NoRow = NoRow
    MaxCrashes = 2
INVARIANTS
    TypeOK
    ResultMatchesStatus
PROPERTIES
    SettledNeverReopens
    PendingIsTaken
CHECK_DEADLOCK FALSE
