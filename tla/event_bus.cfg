\* Three events; a store of idempotency keys that two fill, a ring of two.
CONSTANTS
    Workers = {w1, w2}
    EventKeys = {a, b}
    Types = {routine, noisy}
    FilterMode = "exclude"
    FilterTypes = {noisy}
    TTL = 2
    MaxEntries = 2
    MaxLogged = 1
    Capacity = 2
    BusTime = 2
    MaxEvents = 3
    MaxCrashes = 1
SPECIFICATION FairBusSpec
INVARIANTS DeliveredOnce DuplicatesCaught
PROPERTY ReportedEventually
CHECK_DEADLOCK FALSE
