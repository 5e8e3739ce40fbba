SPECIFICATION FairSpec
CONSTANTS
    Alerts = {a1, a2}
    Destinations = {x, y}
    Dispatchers = {d1}
    Tampered = {a2}
    Invalid = {a2}
    NoEvent = NoEvent
    NoRow = NoRow
    NotSent = NotSent
    MaxAttempts = 2
    BaseDelay = 1
    MaxBackoff = 2
    StaleAfter = 1
    BatchLimit = 1
    EventRetention = 1
    LedgerRetention = 2
    MaxCrashes = 1
    MaxRows = 2
    MaxSends = 2
    MaxMoves = 1
INVARIANTS
    TypeOK
PROPERTIES
    ImplementsDelivery
    QueuedAlertsSettle
