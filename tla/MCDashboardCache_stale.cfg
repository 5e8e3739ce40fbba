SPECIFICATION Spec
CONSTANTS
    Requests = {r1}
    Writers = {w1}
    Days = {1, 2, 3}
    Bills <- MCBills
    DayValues <- MCDayValues
    Suns = {2}
    Tariffs = {3}
    Expectations = {0}
    MaxEntries = 2
    MaxWrites = 4
    Window = 1
    MinReference = 1
    Absent = Absent
PROPERTY
    NeverStale
CHECK_DEADLOCK FALSE
