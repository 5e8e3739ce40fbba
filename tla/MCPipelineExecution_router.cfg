SPECIFICATION Spec
CONSTANTS
    Runs = {r1}
    LastDay = 1
    NoRow = NoRow
    Never = Never
    StaleAfter = 1
    StuckAfter = 0
    DelayedAfter = 1
    Retention = 2
    MaxAttempts = 2
    MaxRows = 2
    MaxCrashes = 0
PROPERTIES
    EndedRunIsOnRecord
