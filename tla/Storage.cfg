SPECIFICATION MCSpec
CONSTANTS
    Limits <- MCStorageLimits
    TokenMinutes = 1
    Handlers = {h1}
    MaxEntries = 2
    MaxBytes = 4
    ReadLimit = 2
    Operations = {"backup"}
    EventLimits <- MCEventLimits
INVARIANTS
    OperationsAreAsked
    EventsAreKept
PROPERTIES
    ImplementsIntentQueue
    StackComesBack
    EventsArePublished
CHECK_DEADLOCK FALSE
