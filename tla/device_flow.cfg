\* One device code, two requests in flight, two users who may both decide, two
\* clients, and time for several slow_down answers and the sweep.
CONSTANTS
    Clients = {tv, phone}
    Users = {alice, bob}
    None = None
    Requests = {r1, r2}
    ExpiresIn = 3
    Interval = 2
    Step = 1
    EntryTTL = 4
    MaxTime = 8
    MaxDevices = 1
    MaxSlowDowns = 3
SPECIFICATION Spec
INVARIANTS DeviceRedeemedOnce IssuedToApprover
PROPERTY PollsBackOff
SYMMETRY RequestSymmetry
CHECK_DEADLOCK FALSE
