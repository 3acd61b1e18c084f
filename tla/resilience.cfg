\* Up to five requests race on a breaker that admits two probes.
CONSTANTS
    Requests = {r1, r2, r3, r4, r5}
    FailureThreshold = 2
    SuccessThreshold = 2
    OpenSecs = 2
    MaxProbes = 2
    MaxConcurrent = 4
    MaxFaults = 6
SPECIFICATION FairSpec
INVARIANTS SlotsReturned ProbesBounded
PROPERTY Recovers
CHECK_DEADLOCK FALSE
