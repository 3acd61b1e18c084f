\* Two overlapping requests on one authorization code and its family.
CONSTANTS
    Clients = {web}
    Users = {alice}
    Scopes = {openid, email}
    Resources = {api}
    Keys = {k1}
    Certs = {}
    OpaqueTokens = FALSE
    None = None
    Requests = {r1, r2}
    PublicClients = {web}
    ClientScope <- AllScopes
    GrantsOf <- FamilyGrants
    AccessTTL = 1
    RefreshTTL = 1
    CodeTTL = 0
    MaxAct = 2
    MaxTime = 1
    MaxCodes = 1
    MaxTokens = 3
SPECIFICATION FairSpec
INVARIANTS CodeRedeemedOnce FamilyConfinedToConsent RotatedOutIsRevoked
PROPERTIES NothingRevived AnsweredEventually
CHECK_DEADLOCK FALSE
