\* Two requests of the same window of a millisecond, one of which reaches Redis
\* late.  The other services are as in MCRequestServices.cfg.
CONSTANTS
    Requests = {r1, r2}
    Limit = 1
    Window = 2
    Millisecond = 2
    MaxDelay = 1
    MaxResends = 0
    MaxTime = 3
    None = None
    LimitedTenants = {t1}
    Limits = {1, 2}
    Burst = 2
    MaxLocalTime = 2
    Goroutines = {r1, r2}
    Nil = None
    Tenants = {t1}
    LabelledTenants = {t1, t2}
    CacheTTL = 2
    MaxFetchDelay = 1
    MaxCacheTime = 4
    MaxChanges = 2
    Durations = {2, 3}
    MaxUpdates = 2
    MaxRecords = 2
SPECIFICATION OneServiceSpec
SYMMETRY Symmetry
CHECK_DEADLOCK FALSE
INVARIANTS AtMostLimitPerWindow
