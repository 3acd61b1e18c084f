CONSTANTS
    Users = {u1}
    Clients = {c1}
    None = None
    Peer = Peer
    Requests = {r1, r2, r3}
    UserBodies <- Toggle
    ClientBodies <- Rekey
    Forms <- SomeForms
    MaxTokens = 2
    MaxOps = 3
SYMMETRY RequestSymmetry
SPECIFICATION Spec
INVARIANTS
    DisableRevokes
PROPERTIES
    EditsKeepUsable
    IssuedWhileAllowed
    AnswersLive
CHECK_DEADLOCK FALSE
