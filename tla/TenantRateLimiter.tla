------------------------- MODULE TenantRateLimiter -------------------------
(***************************************************************************)
(* ratelimit.TenantRateLimiter: one token bucket per tenant in the memory  *)
(* of the process, built by the first goroutines that meet the tenant.     *)
(*                                                                         *)
(* rate.Limiter is external: a bucket that starts full, gains limit tokens *)
(* per unit of time up to burst, and gives one to each request it allows.  *)
(***************************************************************************)
EXTENDS Integers

CONSTANTS
    Tenants,
    Callers,   \* goroutines that call Allow
    None,
    Limits,    \* what limitFunc may answer, in tokens per unit of time
    Burst,     \* rl.burst
    MaxTime    \* bound of the model: the clock

VARIABLES
    now,
    plan,      \* what limitFunc answers for each tenant at the moment
    limiters,  \* rl.limiters: the caller that built the tenant's limiter
    bucket,    \* the limiters, named after the tenant and the caller that built them
    call,      \* per caller: the Allow in progress
    allowed,   \* history: per tenant, how many calls returned true
    since      \* history: per tenant, when its limiter was stored

vars == <<now, plan, limiters, bucket, call, allowed, since>>

Buckets == [limit : Limits, tokens : 0..Burst, last : 0..MaxTime]
Calls == [pc : {"build", "store", "take"}, id : Tenants, of : Callers]

TypeOK ==
    /\ now \in 0..MaxTime
    /\ plan \in [Tenants -> Limits]
    /\ limiters \in [Tenants -> Callers \cup {None}]
    /\ bucket \in [Tenants -> [Callers -> Buckets \cup {None}]]
    /\ call \in [Callers -> Calls \cup {None}]
    /\ allowed \in [Tenants -> Int]
    /\ since \in [Tenants -> 0..MaxTime]

\* NewTenantRateLimiter.
Init ==
    /\ now = 0
    /\ plan \in [Tenants -> Limits]
    /\ limiters = [id \in Tenants |-> None]
    /\ bucket = [id \in Tenants |-> [c \in Callers |-> None]]
    /\ call = [c \in Callers |-> None]
    /\ allowed = [id \in Tenants |-> 0]
    /\ since = [id \in Tenants |-> 0]

At(c, pc) == call[c] # None /\ call[c].pc = pc

\* The call of caller c goes on at pc, with the limiter that caller of built.
Goto(c, pc, of) == call' = [call EXCEPT ![c] = [pc |-> pc, id |-> call[c].id, of |-> of]]

Tick ==
    /\ now < MaxTime
    /\ now' = now + 1
    /\ UNCHANGED <<plan, limiters, bucket, call, allowed, since>>

\* The tenant moves to another plan: limitFunc answers differently from now on.
ChangePlan(id) ==
    /\ \E limit \in Limits \ {plan[id]} : plan' = [plan EXCEPT ![id] = limit]
    /\ UNCHANGED <<now, limiters, bucket, call, allowed, since>>

\* getLimiter: limiters.Load.
Load(c, id) ==
    /\ call[c] = None
    /\ call' = [call EXCEPT ![c] =
                  IF limiters[id] = None THEN [pc |-> "build", id |-> id, of |-> c]
                  ELSE [pc |-> "take", id |-> id, of |-> limiters[id]]]
    /\ UNCHANGED <<now, plan, limiters, bucket, allowed, since>>

\* getLimiter: limitFunc and rate.NewLimiter, a candidate of the caller's own.
Build(c) ==
    /\ At(c, "build")
    /\ bucket' = [bucket EXCEPT ![call[c].id][c] =
                    [limit |-> plan[call[c].id], tokens |-> Burst, last |-> now]]
    /\ Goto(c, "store", c)
    /\ UNCHANGED <<now, plan, limiters, allowed, since>>

LoadOrStore_Store(c) ==
    /\ At(c, "store")
    /\ limiters' = [limiters EXCEPT ![call[c].id] = c]
    /\ since' = [since EXCEPT ![call[c].id] = now]
    /\ Goto(c, "take", c)
    /\ UNCHANGED <<now, plan, bucket, allowed>>

LoadOrStore_OwnCandidate(c) ==
    LET id == call[c].id
    IN  /\ At(c, "store")
        /\ limiters' = [limiters EXCEPT ![id] = IF @ = None THEN c ELSE @]
        /\ since' = [since EXCEPT ![id] = IF limiters[id] = None THEN now ELSE @]
        /\ Goto(c, "take", c)
        /\ UNCHANGED <<now, plan, bucket, allowed>>

\* getLimiter: limiters.LoadOrStore; the first candidate stays, and every
\* caller goes on with the one that is stored.
LoadOrStore(c) ==
    LET id == call[c].id
    IN  /\ At(c, "store")
        /\ limiters' = [limiters EXCEPT ![id] = IF @ = None THEN c ELSE @]
        /\ since' = [since EXCEPT ![id] = IF limiters[id] = None THEN now ELSE @]
        /\ Goto(c, "take", limiters'[id])
        /\ UNCHANGED <<now, plan, bucket, allowed>>

\* rate.Limiter: the tokens of a bucket at this moment.
Available(b) ==
    LET tokens == b.tokens + b.limit * (now - b.last)
    IN  IF tokens > Burst THEN Burst ELSE tokens

\* Allow: limiter.Allow, which takes a token if there is one.
Take(c) ==
    LET id == call[c].id
        b == bucket[id][call[c].of]
        ok == Available(b) >= 1
    IN  /\ At(c, "take")
        /\ bucket' = [bucket EXCEPT ![id][call[c].of] =
                        [limit |-> b.limit, last |-> now,
                         tokens |-> Available(b) - (IF ok THEN 1 ELSE 0)]]
        /\ allowed' = [allowed EXCEPT ![id] = @ + (IF ok THEN 1 ELSE 0)]
        /\ call' = [call EXCEPT ![c] = None]
        /\ UNCHANGED <<now, plan, limiters, since>>

Next ==
    \/ Tick
    \/ \E id \in Tenants : ChangePlan(id) \/ \E c \in Callers : Load(c, id)
    \/ \E c \in Callers : Build(c) \/ LoadOrStore(c) \/ Take(c)

Spec == Init /\ [][Next]_vars

-----------------------------------------------------------------------------
\* However many goroutines meet a new tenant at the same time, and whatever
\* becomes of its plan, all the requests together get no more than the burst
\* and what one limiter gives out from the moment it was stored, at the limit
\* of the plan it was built for; the candidates that lost give out nothing.
BucketBudget ==
    \A id \in Tenants :
       IF limiters[id] = None THEN allowed[id] = 0
       ELSE allowed[id] <= Burst + bucket[id][limiters[id]].limit
                                     * (now - since[id])

\* Once a tenant has a limiter, it keeps it: neither a goroutine that was still
\* building one nor a change of plan replaces it or changes its limit.
OneLimiter ==
    [][\A id \in Tenants :
          limiters[id] # None =>
             /\ limiters'[id] = limiters[id]
             /\ bucket'[id][limiters[id]].limit = bucket[id][limiters[id]].limit]_vars

=============================================================================
