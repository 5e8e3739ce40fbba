SPECIFICATION MCSpec
CONSTANTS
    NoRow = NoRow
    MaxCrashes = 1
    MaxRows = 2
    StaleAfter = 1
    Alerts = {a1}
    Destinations = {x}
    Dispatchers = {p1, p2}
    Tampered = {}
    Invalid = {}
    NoEvent = NoEvent
    NotSent = NotSent
    BaseDelay = 1
    MaxBackoff = 2
    BatchLimit = 1
    EventRetention = 1
    LedgerRetention = 1
    MaxSends = 2
    MaxMoves = 0
    MaxDeliveries = 1
    Runs = {p1, p2}
    LastDay = 1
    Never = Never
    StuckAfter = 0
    DelayedAfter = 1
    RunRetention = 2
    MaxAcquisitions = 2
    Writers = {p1, p2}
    EnergyDays <- MCDays
    Kwh = {1, 2}
    Totals = {0, 1, 2}
    NoDay = NoDay
    MaxRuns = 3
    Pipelines = {d1}
    SolarDays <- MCSolarDays
    Month <- MCMonth
    Sites <- MCSites
    Readings <- MCReadings
    Irradiations = {0, 2}
    Pasts <- MCPasts
    ReferenceDays = 3
    MinReference = 2
    MinComparison = 1
    MaxChanges = 1
    MaxStarts = 2
    Requests = {p1, p2}
    Bills <- MCBills
    DayValues <- MCDayValues
    Suns = {2}
    Tariffs = {3}
    Expectations = {0}
    MaxEntries = 2
    MaxWrites = 3
    Window = 1
    Senders = {p1, p2}
    Inverters = {i1, i2}
    LastAlertDay = 2
    Outputs = {4}
    Skies <- MCSkies
    DailyExpectations = {8}
    Lookback = 2
    MinSample = 1
    MaxStreak = 3
    MaxAlertRuns = 2
    MaxRevisions = 1
    Productions <- MCProductions
    Irradiance = {1, 4}
    Expected = 4
    Diagnoses <- MCDiagnoses
    AnomalyDays = 2
    Files <- MCFiles
    Seed <- MCSeed
    Reference = "EQUATORIAL_GO"
    Fewest = 1
    Since = 1
    Plausible = {1, 2}
    LastTariffDay = 3
    MaxImports = 3
    Workers = {w1, w2}
    Indexes <- MCIndexes
    LastMonth = 2
    Rates = {1, 2}
    PlausibleRates = {1, 2}
    Allowed = TRUE
    LastInterval = 2
    MaxRequests = 3
    Owners = {z2}
    Clients = {z3}
    Named = z2
    Unset = {"telegram"}
    LateAfter = 1
    LastTick = 2
    MaxCycles = 2
    MaxOthers = 1
    Kinds <- MCKinds
    BillingMonths = 3
    MaxReissues = 1
    Cycles = 2
    MinHistory = 1
    Drop = 20
SYMMETRY Symmetry
INVARIANTS
    TypeOK
    DuplicateNeedsExcuse
    ConfirmedWasSent
    OutcomeIsHonest
    NoValueForgotten
    LossesExplainPerformance
    ReferenceIsHonest
    AlertsAddUp
    FiguresStand
PROPERTIES
    DaysClose
    HitIsCurrent
    CyclesKeepTariff
CHECK_DEADLOCK FALSE
