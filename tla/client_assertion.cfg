\* Client assertions and jwt-bearer assertions share a full guard and a cache of
\* the keys of their issuer, which publishes and withdraws one; two fetches may
\* overlap, and the process may restart.
SPECIFICATION AuthSpec
CONSTANTS
    Jtis = {j1}
    MaxTTL = 2
    MaxEntries = 1
    MaxTime = 4
    MaxExp = 4
    MaxAccepted = 2
    MaxRestarts = 1
    Kids = {k1}
    Fetchers = {f1, f2}
    MinCacheTTL = 1
    MaxCacheTTL = 2
    FetchTime = 1
    MaxAge = 3
SYMMETRY Symmetry
INVARIANTS BearerUsedOnce ClientUsesSpaced WithdrawnKeysDie SettledKeysFound
CHECK_DEADLOCK FALSE
