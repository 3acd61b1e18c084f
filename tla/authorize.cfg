\* Two tabs share the cookie: requests for a new or a recent login, and a pushed
\* request presented by either client, against logins, logouts, requests left
\* lying at the login page, and the expiry of what is pending and pushed; or
\* requests for a new login, answered by a password or through two providers
\* whose accounts have a local user's address.
CONSTANTS
    Clients = {web, app}
    Users = {alice, u1, u2}
    Locals = {alice}
    None = None
    Tabs = {t1, t2}
    Visits <- Mixed
    ReturnToMaxAge = 0
    ParTTL = 1
    MaxTime = 2
    MaxPushes = 1
    Providers = {"google", "microsoft"}
    Pkce = {"google"}
    Verifying = {"google"}
    Accounts <- TwoAccounts
    Emails = {"e1"}
    LinkByEmail = TRUE
    FailureThreshold = 1
    Cooldown = 1
SPECIFICATION MCSpec
INVARIANTS ReauthHonoured OneProbePerCooldown
PROPERTIES NoLoginLoop PushedOnce OwnAccount
SYMMETRY TabSymmetry
CHECK_DEADLOCK FALSE
