\* RedisRateLimiter: three requests with a quota of one per window of a
\* millisecond and a half, whose commands may be late and one of which is sent
\* twice; the clock passes the end of every key of the first window.
\* TenantRateLimiter: three goroutines meet one tenant, whose plan changes.
\* MemoryMetrics: the same goroutines update and take snapshots.
\* CachedStore: three goroutines share and miss flights while the source changes
\* twice; the clock runs past the end of an entry's life.
CONSTANTS
    Requests = {r1, r2, r3}
    Limit = 1
    Window = 3
    Millisecond = 2
    MaxDelay = 1
    MaxResends = 1
    MaxTime = 7
    None = None
    LimitedTenants = {t1}
    Limits = {1, 2}
    Burst = 2
    MaxLocalTime = 2
    Goroutines = {r1, r2, r3}
    Nil = None
    Tenants = {t1}
    LabelledTenants = {t1, t2}
    CacheTTL = 2
    MaxFetchDelay = 1
    MaxCacheTime = 3
    MaxChanges = 2
    Durations = {2, 3}
    MaxUpdates = 2
    MaxRecords = 2
SPECIFICATION OneServiceSpec
SYMMETRY Symmetry
CHECK_DEADLOCK FALSE
INVARIANTS WindowBudget KeysExpire BucketBudget NothingUncounted AverageNotTooLow SeriesMatchMode
INVARIANTS NoTimeTravel BoundedStaleness SourceSpared
PROPERTIES DeniedOnlyWhenSpent OneLimiter
