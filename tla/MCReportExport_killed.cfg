SPECIFICATION Spec
CONSTANTS
    Drains = {d1}
    MaxTasks = 1
    BatchSize = 1
    NoRow = NoRow
    MaxCrashes = 1
PROPERTY ProcessingSettles
CHECK_DEADLOCK FALSE
