------------------------- MODULE MCRequestServices -------------------------
(***************************************************************************)
(* Model checking of the services that serve every request: the rate       *)
(* limiters, CachedStore and the metrics.  They share no state, so each    *)
(* behaviour is about one of them, kind, and leaves the others as they     *)
(* were created.  The goroutines are interchangeable.                      *)
(***************************************************************************)
EXTENDS RateLimiters, CachedStore, MemoryMetrics, PrometheusMetrics, TLC

VARIABLE kind

OneServiceInit ==
    /\ kind \in {"RedisRateLimiter", "TenantRateLimiter", "CachedStore", "MemoryMetrics",
                "PrometheusMetrics"}
    /\ LimitersInit /\ CachedInit /\ MemoryInit /\ PrometheusInit
    /\ kind # "RedisRateLimiter" => policy = "FailOpen"
    /\ kind # "TenantRateLimiter" => \A id \in LimitedTenants : plan[id] = CHOOSE l \in Limits : TRUE
    /\ kind # "PrometheusMetrics" => ~withTenantID

OneServiceNext ==
    /\ UNCHANGED kind
    /\ \/ /\ kind = "RedisRateLimiter"
          /\ Next
          /\ UNCHANGED <<localVars, cachedVars, memoryVars, prometheusVars>>
       \/ /\ kind = "TenantRateLimiter"
          /\ Local!Next
          /\ UNCHANGED <<vars, cachedVars, memoryVars, prometheusVars>>
       \/ /\ kind = "CachedStore"
          /\ CachedNext
          /\ UNCHANGED <<vars, localVars, memoryVars, prometheusVars>>
       \/ /\ kind = "MemoryMetrics"
          /\ MemoryNext
          /\ UNCHANGED <<vars, localVars, cachedVars, prometheusVars>>
       \/ /\ kind = "PrometheusMetrics"
          /\ PrometheusNext
          /\ UNCHANGED <<vars, localVars, cachedVars, memoryVars>>

OneServiceSpec ==
    OneServiceInit /\ [][OneServiceNext]_<<kind, vars, localVars, cachedVars, memoryVars, prometheusVars>>

Symmetry == Permutations(Requests)

=============================================================================
