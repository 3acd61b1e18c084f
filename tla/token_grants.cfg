\* One request at a time, every grant, two clients.
CONSTANTS
    Clients = {web, app}
    Users = {alice}
    Scopes = {openid, email}
    Resources = {}
    Keys = {}
    Certs = {}
    OpaqueTokens = FALSE
    None = None
    Requests = {r1}
    PublicClients = {}
    ClientScope <- AllScopes
    GrantsOf <- FrontAndBack
    AccessTTL = 1
    RefreshTTL = 2
    CodeTTL = 1
    MaxAct = 2
    MaxTime = 0
    MaxCodes = 1
    MaxTokens = 3
SPECIFICATION Spec
INVARIANTS OneLivePerFamily BurnedFamilyStaysDead ExchangeNeverAmplifies
SYMMETRY ScopeSymmetry
CHECK_DEADLOCK FALSE
