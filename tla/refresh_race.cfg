\* Two refreshes with the same refresh token.
CONSTANTS
    Clients = {web}
    Users = {alice}
    Scopes = {openid}
    Resources = {}
    Keys = {}
    Certs = {}
    OpaqueTokens = FALSE
    None = None
    Requests = {r1, r2}
    PublicClients = {web}
    ClientScope <- AllScopes
    GrantsOf <- FamilyGrants
    AccessTTL = 1
    RefreshTTL = 2
    CodeTTL = 1
    MaxAct = 2
    MaxTime = 0
    MaxCodes = 1
    MaxTokens = 3
SPECIFICATION Spec
INVARIANT ReuseRevokesFamily
CHECK_DEADLOCK FALSE
