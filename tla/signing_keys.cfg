CONSTANTS
    Graces <- AnyGrace
    KeysTime = 5
    MaxRotations = 3
    MaxTokens = 2
    MaxReseeds = 1
SPECIFICATION KeysSpec
INVARIANTS
    InFlightVerifies
    RetiredStayRetired
    OneSigner
CHECK_DEADLOCK FALSE
