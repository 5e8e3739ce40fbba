SPECIFICATION FairSpec
CONSTANTS
    Plants = {p1}
    Days = {d1, d2}
    Workers = {w1}
    Collectors = {c1}
    NoTask = NoTask
    NoRow = NoRow
    MaxAttempts = 2
    BaseDelay = 1
    MaxBackoff = 2
    SlowRetry = 2
    BatchLimit = 1
    Retention = 1
    MaxCrashes = 1
    MaxRows = 2
INVARIANT
    TypeOK
PROPERTIES
    ImplementsLifecycle
    RefusedTaskWaits
    PendingTasksSettle
