SPECIFICATION Spec
CONSTANTS
    Alerts = {a1}
    Destinations = {x}
    Dispatchers = {d1, d2, d3}
    Tampered = {}
    Invalid = {}
    NoEvent = NoEvent
    NoRow = NoRow
    NotSent = NotSent
    MaxAttempts = 3
    BaseDelay = 1
    MaxBackoff = 1
    StaleAfter = 2
    BatchLimit = 1
    EventRetention = 2
    LedgerRetention = 2
    MaxCrashes = 0
    MaxRows = 1
    MaxSends = 1
    MaxMoves = 0
INVARIANT ClaimHasLease
SYMMETRY Symmetry
