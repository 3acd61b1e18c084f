\* Requests: two keys, two requests in three seconds: a token takes a second and
\* a half, so retry times are rounded; there is time for a bucket to be emptied,
\* to lie idle for twice the window, to be swept by the other key's checks and
\* used again.
\* Logins: two addresses try two usernames, two attempts in two seconds: enough
\* attempts to exceed the burst across a window's end.
CONSTANTS
    Keys = {k1, k2}
    None = None
    MaxRequests = 2
    WindowSecs = 3
    Grain = 1
    MaxTime = 8
    Addresses = {a1, a2}
    Usernames = {u1, u2}
    MaxAttempts = 2
    LoginWindow = 2
    LoginTime = 2
    MaxLogins = 4
SPECIFICATION LimitsSpec
INVARIANTS RateBounded RetryHonest LoginsBounded BlockEarned
PROPERTY NeverForgets
SYMMETRY Symmetry
CHECK_DEADLOCK FALSE
