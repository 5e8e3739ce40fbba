SPECIFICATION Spec
CONSTANTS
    Plants = {p1}
    Days = {d1}
    Workers = {w1, w2}
    Collectors = {c1}
    NoTask = NoTask
    NoRow = NoRow
    MaxAttempts = 3
    BaseDelay = 1
    MaxBackoff = 2
    SlowRetry = 2
    BatchLimit = 1
    Retention = 1
    MaxCrashes = 1
    MaxRows = 2
INVARIANTS
    HandlerOwnsDueTask
    GivenUpOnlyAfterMaxAttempts
    DeferredDaysAccountedFor
