---------------------------- MODULE RateLimiters ----------------------------
(***************************************************************************)
(* The two implementations of ratelimit.RateLimiter side by side: the      *)
(* quota that instances share in Redis, and the buckets in the memory of   *)
(* one process.  They share no state.                                      *)
(***************************************************************************)
EXTENDS RedisRateLimiter

CONSTANTS LimitedTenants, Limits, Burst, MaxLocalTime

\* A negative burst does what 0 does.  A limitFunc that answers a negative rate
\* is left out.
ASSUME LocalAssumption ==
    /\ Limits \subseteq Nat /\ Burst \in Nat /\ MaxLocalTime \in Nat
    /\ None \notin Requests

VARIABLES localNow, plan, limiters, bucket, localCall, allowed, since

Local == INSTANCE TenantRateLimiter
            WITH Tenants <- LimitedTenants, Callers <- Requests, MaxTime <- MaxLocalTime,
                 now <- localNow, call <- localCall

localVars == <<localNow, plan, limiters, bucket, localCall, allowed, since>>

LimitersInit == Init /\ Local!Init

LimitersNext ==
    \/ Next /\ UNCHANGED localVars
    \/ Local!Next /\ UNCHANGED vars

LimitersSpec == LimitersInit /\ [][LimitersNext]_<<vars, localVars>>

-----------------------------------------------------------------------------
\* Both limiters keep their variables in their types.
LimitersTypeOK == TypeOK /\ Local!TypeOK

\* See TenantRateLimiter: racing creations and changes of plan give a tenant no
\* more than one limiter's worth of requests.
BucketBudget == Local!BucketBudget

\* See TenantRateLimiter: a tenant keeps the limiter that was stored first.
OneLimiter == Local!OneLimiter

=============================================================================
