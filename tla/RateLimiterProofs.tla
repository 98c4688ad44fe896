------------------------- MODULE RateLimiterProofs -------------------------
(***************************************************************************)
(* Proofs about RateLimiters, for any number of requests, tenants and      *)
(* plans and for every quota, window, burst and delay.                     *)
(***************************************************************************)
EXTENDS RateLimiters, TLAPS

\* A leaf is tried with Zenon first; SMT marks those that need arithmetic or the
\* theory of functions, records and sequences.
USE Zenon, SMTT(30)

-----------------------------------------------------------------------------
(***************************************************************************)
(* TenantRateLimiter                                                       *)
(***************************************************************************)
\* A caller that is still building has not stored its candidate; a caller that
\* takes a token takes it from the limiter that is stored.
CandidateOK(c) ==
    LET id == localCall[c].id
    IN  /\ Local!At(c, "build") \/ Local!At(c, "store") => limiters[id] # c
        /\ Local!At(c, "store") => bucket[id][c] \in Local!Buckets /\ bucket[id][c].last <= localNow
        /\ Local!At(c, "take") => limiters[id] # None /\ localCall[c].of = limiters[id]

\* What the stored limiter has given out and what it still holds: a bucket that
\* nobody has used since it was stored has given out nothing.
BucketOK(id) ==
    LET b == bucket[id][limiters[id]]
    IN  IF limiters[id] = None THEN allowed[id] = 0
        ELSE /\ b \in Local!Buckets
             /\ since[id] <= localNow /\ b.last <= localNow
             /\ b.last < since[id] => allowed[id] = 0
             /\ b.last >= since[id] => allowed[id] + b.tokens <= Burst + b.limit * (b.last - since[id])

CandidateInv == \A c \in Requests : CandidateOK(c)
BucketInv == \A id \in LimitedTenants : BucketOK(id)

\* The inductive invariant of TenantRateLimiter.
LocalInv == Local!TypeOK /\ CandidateInv /\ BucketInv

\* NewTenantRateLimiter.
LEMMA LocalInitInv == Local!Init => LocalInv
<1> SUFFICES ASSUME Local!Init PROVE LocalInv
  OBVIOUS
<1>1. Local!TypeOK
  BY LocalAssumption, SMT DEF Local!Init, Local!TypeOK
<1>2. CandidateInv
  BY DEF Local!Init, CandidateInv, CandidateOK, Local!At
<1>3. BucketInv
  BY DEF Local!Init, BucketInv, BucketOK
<1> QED
  BY <1>1, <1>2, <1>3 DEF LocalInv
\* The tokens a bucket gained while nobody used it are no more than its limit
\* gives in that time.
LEMMA Refill ==
    ASSUME NEW limit \in Nat, NEW a \in Int, NEW b \in Int, NEW c \in Int, a <= b, b <= c
    PROVE  /\ limit * (b - a) \in Nat /\ limit * (c - b) \in Nat
           /\ limit * (b - a) + limit * (c - b) = limit * (c - a)
           /\ limit * (b - a) <= limit * (c - a)
  BY SMT

\* The fields of a bucket.
LEMMA BucketFields ==
    ASSUME NEW b \in Local!Buckets
    PROVE  b.limit \in Nat /\ b.tokens \in Nat /\ b.tokens <= Burst /\ b.last \in Nat
<1>1. b.limit \in Nat /\ b.tokens \in 0..Burst /\ b.last \in 0..MaxLocalTime
  BY LocalAssumption DEF Local!Buckets
<1> QED
  BY <1>1, LocalAssumption, SMT

\* The times and counts of TenantRateLimiter are numbers.
LEMMA LocalNumbers ==
    ASSUME Local!TypeOK
    PROVE  /\ localNow \in Nat
           /\ \A id \in LimitedTenants : since[id] \in Nat /\ allowed[id] \in Int
  BY LocalAssumption, SMT DEF Local!TypeOK

\* Taking a token from n, if there is one.
LEMMA OneToken ==
    ASSUME NEW n \in 0..Burst
    PROVE  LET one == IF n >= 1 THEN 1 ELSE 0
           IN  one \in {0, 1} /\ n - one \in 0..Burst /\ (n - one) + one = n
  BY LocalAssumption, SMT

\* Available is a number of tokens.
LEMMA AvailableType ==
    ASSUME NEW b \in Local!Buckets, b.last <= localNow, localNow \in 0..MaxLocalTime
    PROVE  /\ Local!Available(b) \in 0..Burst
           /\ Local!Available(b) <= b.tokens + b.limit * (localNow - b.last)
<1>1. b.limit \in Nat /\ b.tokens \in Nat /\ b.tokens <= Burst /\ b.last \in Nat /\ localNow \in Nat
  BY BucketFields, LocalAssumption, SMT
<1>2. b.limit * (localNow - b.last) \in Nat
  BY <1>1, Refill, SMT
<1> QED
  BY <1>1, <1>2, LocalAssumption, SMT DEF Local!Available

\* Load, Build and LoadOrStore keep the variables in their types.
LEMMA LocalTypeInv ==
    ASSUME LocalInv, [Local!Next]_localVars
    PROVE  Local!TypeOK'
<1> USE LocalAssumption
<1>0. Local!TypeOK
  BY DEF LocalInv
<1>1. CASE Local!Tick
  BY <1>0, <1>1, SMT DEF Local!Tick, Local!TypeOK
<1>2. ASSUME NEW id \in LimitedTenants, Local!ChangePlan(id) PROVE Local!TypeOK'
  BY <1>0, <1>2, SMT DEF Local!ChangePlan, Local!TypeOK
<1>3. ASSUME NEW id \in LimitedTenants, NEW c \in Requests, Local!Load(c, id) PROVE Local!TypeOK'
  BY <1>0, <1>3 DEF Local!Load, Local!TypeOK, Local!Calls
<1>4. ASSUME NEW c \in Requests, Local!Build(c) PROVE Local!TypeOK'
  BY <1>0, <1>4, SMT DEF Local!Build, Local!Goto, Local!At, Local!TypeOK, Local!Calls, Local!Buckets
<1>5. ASSUME NEW c \in Requests, Local!LoadOrStore(c) PROVE Local!TypeOK'
  BY <1>0, <1>5, SMTT(30) DEF Local!LoadOrStore, Local!Goto, Local!At, Local!TypeOK, Local!Calls
<1>6. ASSUME NEW c \in Requests, Local!Take(c) PROVE Local!TypeOK'
  <2> DEFINE id == localCall[c].id
             b == bucket[id][localCall[c].of]
  <2>1. /\ id \in LimitedTenants /\ localCall[c].of \in Requests /\ b \in Local!Buckets /\ b.last <= localNow
        /\ localNow \in 0..MaxLocalTime
    BY <1>0, <1>6, SMT DEF Local!Take, Local!At, Local!TypeOK, Local!Calls, LocalInv, CandidateInv, BucketInv, CandidateOK, BucketOK
  <2>2. Local!Available(b) \in 0..Burst
    BY <2>1, AvailableType
  <2> DEFINE one == IF Local!Available(b) >= 1 THEN 1 ELSE 0
  <2>3. one \in {0, 1} /\ Local!Available(b) - one \in 0..Burst
    BY <2>2, SMT
  <2> HIDE DEF one
  <2>4. [limit |-> b.limit, last |-> localNow, tokens |-> Local!Available(b) - one] \in Local!Buckets
    BY <2>1, <2>3 DEF Local!Buckets
  <2>5. /\ bucket' = [bucket EXCEPT ![id][localCall[c].of] =
                        [limit |-> b.limit, last |-> localNow, tokens |-> Local!Available(b) - one]]
        /\ allowed' = [allowed EXCEPT ![id] = @ + one]
        /\ localCall' = [localCall EXCEPT ![c] = None]
        /\ UNCHANGED <<localNow, plan, limiters, since>>
    BY <1>6 DEF Local!Take, one
  <2> QED
    BY <1>0, <2>1, <2>3, <2>4, <2>5, SMTT(30) DEF Local!TypeOK
<1>7. CASE UNCHANGED localVars
  BY <1>0, <1>7 DEF Local!TypeOK, localVars
<1> QED
  BY <1>1, <1>2, <1>3, <1>4, <1>5, <1>6, <1>7 DEF Local!Next
\* What a call of Take does: it takes one token or none from what the stored
\* limiter has available.
LEMMA TakeStep ==
    ASSUME LocalInv, NEW c \in Requests, Local!Take(c)
    PROVE  \E id \in LimitedTenants, one \in {0, 1}, v \in Local!Buckets :
             /\ limiters[id] \in Requests
             /\ LET b == bucket[id][limiters[id]]
                IN  /\ b \in Local!Buckets /\ b.last <= localNow
                    /\ v.limit = b.limit /\ v.last = localNow
                    /\ v.tokens + one <= Burst
                    /\ v.tokens + one <= b.tokens + b.limit * (localNow - b.last)
             /\ bucket' = [bucket EXCEPT ![id][limiters[id]] = v]
             /\ allowed' = [allowed EXCEPT ![id] = @ + one]
             /\ localCall' = [localCall EXCEPT ![c] = None]
             /\ UNCHANGED <<localNow, plan, limiters, since>>
<1> DEFINE id == localCall[c].id
           b == bucket[id][limiters[id]]
           one == IF Local!Available(b) >= 1 THEN 1 ELSE 0
           v == [limit |-> b.limit, last |-> localNow, tokens |-> Local!Available(b) - one]
<1>1. /\ id \in LimitedTenants /\ limiters[id] \in Requests /\ localCall[c].of = limiters[id]
      /\ b \in Local!Buckets /\ b.last <= localNow /\ localNow \in 0..MaxLocalTime
  BY SMTT(30) DEF Local!Take, Local!At, Local!TypeOK, Local!Calls, LocalInv, CandidateInv, BucketInv, CandidateOK, BucketOK
<1>2. /\ Local!Available(b) \in 0..Burst
      /\ Local!Available(b) <= b.tokens + b.limit * (localNow - b.last)
  BY <1>1, AvailableType
<1>3. /\ one \in {0, 1} /\ Local!Available(b) - one \in 0..Burst
      /\ (Local!Available(b) - one) + one = Local!Available(b)
  BY <1>2, OneToken, ZenonT(30)
<1>4. /\ bucket' = [bucket EXCEPT ![id][limiters[id]] = v]
      /\ allowed' = [allowed EXCEPT ![id] = @ + one]
      /\ localCall' = [localCall EXCEPT ![c] = None]
      /\ UNCHANGED <<localNow, plan, limiters, since>>
  BY <1>1 DEF Local!Take
<1> HIDE DEF one, id
<1>5. /\ v \in Local!Buckets /\ v.limit = b.limit /\ v.last = localNow
      /\ v.tokens = Local!Available(b) - one
  BY <1>1, <1>3 DEF Local!Buckets
<1> HIDE DEF v
<1>6. v.tokens + one = Local!Available(b)
  BY <1>3, <1>5
<1>7. /\ v.tokens + one <= Burst
      /\ v.tokens + one <= b.tokens + b.limit * (localNow - b.last)
  BY <1>2, <1>6, SMT
<1> QED
  BY <1>1, <1>3, <1>4, <1>5, <1>7

\* No step confuses the callers' candidates with the limiter that is stored.
LEMMA LocalCandidateInv ==
    ASSUME LocalInv, [Local!Next]_localVars, NEW d \in Requests
    PROVE  CandidateOK(d)'
<1> USE LocalAssumption
<1>0. Local!TypeOK /\ CandidateOK(d) /\ BucketInv
  BY DEF LocalInv, CandidateInv
<1>1. CASE Local!Tick
  BY <1>0, <1>1, SMT DEF Local!Tick, CandidateOK, Local!At, Local!TypeOK, Local!Calls, Local!Buckets
<1>2. ASSUME NEW id \in LimitedTenants, Local!ChangePlan(id) PROVE CandidateOK(d)'
  BY <1>0, <1>2 DEF Local!ChangePlan, CandidateOK, Local!At
<1>3. ASSUME NEW id \in LimitedTenants, NEW c \in Requests, Local!Load(c, id) PROVE CandidateOK(d)'
  BY <1>0, <1>3, SMTT(30) DEF Local!Load, CandidateOK, Local!At, Local!TypeOK
<1>4. ASSUME NEW c \in Requests, Local!Build(c) PROVE CandidateOK(d)'
  BY <1>0, <1>4, SMTT(30) DEF Local!Build, Local!Goto, CandidateOK, Local!At, Local!TypeOK, Local!Calls, Local!Buckets
<1>5. ASSUME NEW c \in Requests, Local!LoadOrStore(c) PROVE CandidateOK(d)'
  BY <1>0, <1>5 DEF Local!LoadOrStore, Local!Goto, CandidateOK, Local!At, Local!TypeOK, Local!Calls
<1>6. ASSUME NEW c \in Requests, Local!Take(c) PROVE CandidateOK(d)'
  <2>1. PICK id \in LimitedTenants, one \in {0, 1}, v \in Local!Buckets :
             /\ limiters[id] \in Requests
             /\ bucket' = [bucket EXCEPT ![id][limiters[id]] = v]
             /\ localCall' = [localCall EXCEPT ![c] = None]
             /\ UNCHANGED <<localNow, limiters>>
    BY <1>6, TakeStep
  <2>2. CASE c = d
    BY <1>0, <2>1, <2>2 DEF CandidateOK, Local!At, Local!TypeOK
  <2>3. CASE c # d
    <3>1. localCall'[d] = localCall[d]
      BY <1>0, <2>1, <2>3 DEF Local!TypeOK
    <3>2. CASE Local!At(d, "store")
      <4>1. localCall[d].id \in LimitedTenants /\ limiters[localCall[d].id] # d
        BY <1>0, <3>2 DEF CandidateOK, Local!At, Local!TypeOK, Local!Calls
      <4>2. bucket'[localCall[d].id][d] = bucket[localCall[d].id][d]
        BY <1>0, <2>1, <4>1 DEF Local!TypeOK
      <4> QED
        BY <1>0, <2>1, <3>1, <4>2 DEF CandidateOK, Local!At
    <3>3. CASE ~Local!At(d, "store")
      BY <1>0, <2>1, <3>1, <3>3 DEF CandidateOK, Local!At
    <3> QED
      BY <3>2, <3>3
  <2> QED
    BY <2>2, <2>3
<1>7. CASE UNCHANGED localVars
  BY <1>0, <1>7 DEF CandidateOK, Local!At, localVars
<1> QED
  BY <1>1, <1>2, <1>3, <1>4, <1>5, <1>6, <1>7 DEF Local!Next

\* No step lets a stored limiter give out more than it gained.
LEMMA LocalBucketInv ==
    ASSUME LocalInv, [Local!Next]_localVars, NEW t \in LimitedTenants
    PROVE  BucketOK(t)'
<1> USE LocalAssumption
<1>0. Local!TypeOK /\ CandidateInv /\ BucketOK(t)
  BY DEF LocalInv, BucketInv
<1>1. CASE Local!Tick
  BY <1>0, <1>1, SMT DEF Local!Tick, BucketOK, Local!TypeOK, Local!Buckets
<1>2. ASSUME NEW id \in LimitedTenants, Local!ChangePlan(id) PROVE BucketOK(t)'
  BY <1>0, <1>2 DEF Local!ChangePlan, BucketOK
<1>3. ASSUME NEW id \in LimitedTenants, NEW c \in Requests, Local!Load(c, id) PROVE BucketOK(t)'
  BY <1>0, <1>3, SMTT(30) DEF Local!Load, BucketOK
<1>4. ASSUME NEW c \in Requests, Local!Build(c) PROVE BucketOK(t)'
  BY <1>0, <1>4, SMT DEF Local!Build, BucketOK, CandidateInv, CandidateOK, Local!At, Local!TypeOK, Local!Calls
<1>5. ASSUME NEW c \in Requests, Local!LoadOrStore(c) PROVE BucketOK(t)'
  <2>1. CASE t # localCall[c].id \/ limiters[t] # None
    BY <1>0, <1>5, <2>1 DEF Local!LoadOrStore, BucketOK, Local!TypeOK
  <2>2. CASE t = localCall[c].id /\ limiters[t] = None
    <3> DEFINE b == bucket[t][c]
    <3>1. /\ limiters'[t] = c /\ since'[t] = localNow /\ allowed[t] = 0
          /\ UNCHANGED <<bucket, allowed, localNow>>
      BY <1>0, <1>5, <2>2 DEF Local!LoadOrStore, BucketOK, Local!TypeOK
    <3>2. b \in Local!Buckets /\ b.last <= localNow
      BY <1>0, <1>5, <2>2 DEF Local!LoadOrStore, CandidateInv, CandidateOK
    <3>3. b.tokens \in Nat /\ b.tokens <= Burst /\ b.limit \in Nat /\ b.last \in Nat /\ localNow \in Nat
      BY <1>0, <3>2, BucketFields, LocalNumbers
    <3> HIDE DEF b
    <3>4. b.last >= localNow => 0 + b.tokens <= Burst + b.limit * (b.last - localNow)
      BY <3>2, <3>3, SMT
    <3>5. bucket'[t][limiters'[t]] = b /\ limiters'[t] # None /\ allowed'[t] = 0
      BY <3>1 DEF b
    <3> QED
      BY <3>1, <3>2, <3>3, <3>4, <3>5, SMT DEF BucketOK
  <2> QED
    BY <2>1, <2>2
<1>6. ASSUME NEW c \in Requests, Local!Take(c) PROVE BucketOK(t)'
  <2>1. PICK id \in LimitedTenants, one \in {0, 1}, v \in Local!Buckets :
             /\ limiters[id] \in Requests
             /\ LET b == bucket[id][limiters[id]]
                IN  /\ b \in Local!Buckets /\ b.last <= localNow
                    /\ v.limit = b.limit /\ v.last = localNow
                    /\ v.tokens + one <= Burst
                    /\ v.tokens + one <= b.tokens + b.limit * (localNow - b.last)
             /\ bucket' = [bucket EXCEPT ![id][limiters[id]] = v]
             /\ allowed' = [allowed EXCEPT ![id] = @ + one]
             /\ localCall' = [localCall EXCEPT ![c] = None]
             /\ UNCHANGED <<localNow, plan, limiters, since>>
    BY <1>6, TakeStep
  <2>2. CASE t # id
    BY <1>0, <2>1, <2>2 DEF BucketOK, Local!TypeOK
  <2>3. CASE t = id
    <3> DEFINE b == bucket[id][limiters[id]]
    <3>1. /\ bucket'[t][limiters[t]] = v /\ allowed'[t] = allowed[t] + one /\ limiters[t] # None
          /\ UNCHANGED <<localNow, limiters, since>>
      BY <1>0, <2>1, <2>3 DEF Local!TypeOK
    <3>2. /\ b.limit \in Nat /\ b.tokens \in Nat /\ b.last \in Nat /\ localNow \in Nat
          /\ since[t] \in Nat /\ v.tokens \in Nat /\ allowed[t] \in Int
      BY <1>0, <2>1, BucketFields, LocalNumbers
    <3>3. /\ since[t] <= localNow /\ b.last <= localNow
          /\ b.last < since[t] => allowed[t] = 0
          /\ b.last >= since[t] => allowed[t] + b.tokens <= Burst + b.limit * (b.last - since[t])
      BY <1>0, <2>3, <3>1 DEF BucketOK
    <3>4. /\ v.tokens + one <= Burst
          /\ v.tokens + one <= b.tokens + b.limit * (localNow - b.last)
      BY <2>1
    <3> HIDE DEF b
    <3>5. (allowed[t] + one) + v.tokens <= Burst + b.limit * (localNow - since[t])
      <4>1. CASE b.last < since[t]
        <5>1. b.limit * (localNow - since[t]) \in Nat
          BY <3>2, <3>3, Refill, SMT
        <5> QED
          BY <3>2, <3>3, <3>4, <4>1, <5>1, SMT
      <4>2. CASE b.last >= since[t]
        <5>1. /\ b.limit * (b.last - since[t]) + b.limit * (localNow - b.last) = b.limit * (localNow - since[t])
              /\ b.limit * (b.last - since[t]) \in Nat /\ b.limit * (localNow - b.last) \in Nat
          BY <3>2, <3>3, <4>2, Refill, SMT
        <5> QED
          BY <3>2, <3>3, <3>4, <4>2, <5>1, SMT
      <4> QED
        BY <3>2, <4>1, <4>2, SMT
    <3>6. /\ bucket'[t][limiters'[t]] = v /\ limiters'[t] # None
          /\ v.last = localNow' /\ v.limit = b.limit /\ v.last = localNow
      BY <2>1, <3>1 DEF b
    <3> QED
      BY <2>1, <3>1, <3>2, <3>3, <3>5, <3>6, SMT DEF BucketOK
  <2> QED
    BY <2>2, <2>3
<1>7. CASE UNCHANGED localVars
  BY <1>0, <1>7 DEF BucketOK, localVars
<1> QED
  BY <1>1, <1>2, <1>3, <1>4, <1>5, <1>6, <1>7 DEF Local!Next
\* The inductive invariant of TenantRateLimiter holds in every reachable state.
LEMMA LocalInvariance == LimitersSpec => []LocalInv
<1>1. LimitersInit => LocalInv
  BY LocalInitInv DEF LimitersInit
<1>2. LocalInv /\ [LimitersNext]_<<vars, localVars>> => LocalInv'
  <2> SUFFICES ASSUME LocalInv, [LimitersNext]_<<vars, localVars>>
               PROVE  LocalInv'
    OBVIOUS
  <2>1. [Local!Next]_localVars
    BY DEF LimitersNext
  <2>2. Local!TypeOK'
    BY <2>1, LocalTypeInv
  <2>3. (\A c \in Requests : CandidateOK(c))'
    BY <2>1, LocalCandidateInv
  <2>4. (\A id \in LimitedTenants : BucketOK(id))'
    BY <2>1, LocalBucketInv
  <2> QED
    BY <2>2, <2>3, <2>4 DEF LocalInv, CandidateInv, BucketInv
<1> QED
  BY <1>1, <1>2, PTL DEF LimitersSpec

\* However many goroutines meet a new tenant at the same time, and whatever
\* becomes of its plan, its requests get no more than one limiter gives out.
THEOREM OneBucketPerTenant == LimitersSpec => []BucketBudget
<1>1. LocalInv => BucketBudget
  <2> SUFFICES ASSUME LocalInv, NEW id \in LimitedTenants, limiters[id] # None
               PROVE  allowed[id] <= Burst + bucket[id][limiters[id]].limit * (localNow - since[id])
    BY DEF BucketBudget, Local!BucketBudget, LocalInv, BucketInv, BucketOK
  <2> DEFINE b == bucket[id][limiters[id]]
  <2>1. /\ b \in Local!Buckets
        /\ since[id] <= localNow /\ b.last <= localNow
        /\ b.last < since[id] => allowed[id] = 0
        /\ b.last >= since[id] => allowed[id] + b.tokens <= Burst + b.limit * (b.last - since[id])
    BY DEF LocalInv, BucketInv, BucketOK
  <2>2. /\ b.limit \in Nat /\ b.tokens \in Nat /\ b.last \in Nat
        /\ localNow \in Nat /\ since[id] \in Nat /\ allowed[id] \in Int
    BY <2>1, BucketFields, LocalNumbers DEF LocalInv
  <2> HIDE DEF b
  <2>3. CASE b.last < since[id]
    <3>1. b.limit * (localNow - since[id]) \in Nat
      BY <2>1, <2>2, Refill, SMT
    <3> QED
      BY <2>1, <2>3, <3>1, LocalAssumption, SMT DEF b
  <2>4. CASE b.last >= since[id]
    <3>1. /\ b.limit * (b.last - since[id]) <= b.limit * (localNow - since[id])
          /\ b.limit * (b.last - since[id]) \in Nat /\ b.limit * (localNow - since[id]) \in Int
      BY <2>1, <2>2, <2>4, Refill, SMT
    <3>2. allowed[id] <= Burst + b.limit * (localNow - since[id])
      BY <2>1, <2>2, <2>4, <3>1, LocalAssumption, SMT
    <3> QED
      BY <3>2 DEF b
  <2> QED
    BY <2>2, <2>3, <2>4, SMT
<1> QED
  BY <1>1, LocalInvariance, PTL

\* A limiter, once stored for a tenant, is never replaced, and its limit never
\* changes.
THEOREM LimiterKept == LimitersSpec => OneLimiter
<1> DEFINE Kept == \A id \in LimitedTenants :
                      limiters[id] # None =>
                         /\ limiters'[id] = limiters[id]
                         /\ bucket'[id][limiters[id]].limit = bucket[id][limiters[id]].limit
<1>1. LocalInv /\ [LimitersNext]_<<vars, localVars>> => [Kept]_localVars
  <2> SUFFICES ASSUME LocalInv, Local!Next, NEW id \in LimitedTenants, limiters[id] # None
               PROVE  /\ limiters'[id] = limiters[id]
                      /\ bucket'[id][limiters[id]].limit = bucket[id][limiters[id]].limit
    BY DEF LimitersNext
  <2>0. Local!TypeOK /\ CandidateInv /\ limiters[id] \in Requests
    BY DEF LocalInv, Local!TypeOK
  <2>1. CASE UNCHANGED <<limiters, bucket>>
    BY <2>1
  <2>2. ASSUME NEW c \in Requests, Local!Build(c) PROVE UNCHANGED limiters /\ bucket'[id][limiters[id]] = bucket[id][limiters[id]]
    BY <2>0, <2>2 DEF Local!Build, CandidateInv, CandidateOK, Local!At, Local!TypeOK, Local!Calls
  <2>3. ASSUME NEW c \in Requests, Local!LoadOrStore(c) PROVE limiters'[id] = limiters[id] /\ UNCHANGED bucket
    BY <2>0, <2>3 DEF Local!LoadOrStore, Local!TypeOK
  <2>4. ASSUME NEW c \in Requests, Local!Take(c)
        PROVE  /\ UNCHANGED limiters
               /\ bucket'[id][limiters[id]].limit = bucket[id][limiters[id]].limit
    <3>1. PICK t \in LimitedTenants, one \in {0, 1}, v \in Local!Buckets :
               /\ limiters[t] \in Requests
               /\ v.limit = bucket[t][limiters[t]].limit
               /\ bucket' = [bucket EXCEPT ![t][limiters[t]] = v]
               /\ UNCHANGED limiters
      BY <2>4, TakeStep
    <3> QED
      BY <2>0, <3>1 DEF Local!TypeOK
  <2>5. \/ UNCHANGED <<limiters, bucket>>
        \/ \E c \in Requests : Local!Build(c) \/ Local!LoadOrStore(c) \/ Local!Take(c)
    BY DEF Local!Next, Local!Tick, Local!ChangePlan, Local!Load
  <2> QED
    BY <2>1, <2>2, <2>3, <2>4, <2>5
<1>2. [Kept]_localVars <=> [Kept]_(Local!vars)
  BY DEF localVars, Local!vars
<1> QED
  BY <1>1, <1>2, LocalInvariance, PTL DEF LimitersSpec, OneLimiter, Local!OneLimiter, Local!vars, localVars
-----------------------------------------------------------------------------
(***************************************************************************)
(* RedisRateLimiter                                                        *)
(***************************************************************************)
\* Arithmetic of windows and of times to live.
LEMMA DivBounds ==
    ASSUME NEW a \in Nat, NEW d \in Nat \ {0}
    PROVE  /\ a \div d \in Nat
           /\ (a \div d) * d <= a
           /\ a < ((a \div d) + 1) * d
  BY SMT

\* Division by a constant keeps the order.
LEMMA DivMonotonic ==
    ASSUME NEW a \in Nat, NEW b \in Nat, NEW d \in Nat \ {0}, a <= b
    PROVE  a \div d <= b \div d
  BY SMT

\* A multiple of d that is at most a is at most a \div d times d.
LEMMA DivLargest ==
    ASSUME NEW a \in Nat, NEW k \in Nat, NEW d \in Nat \ {0}, k * d <= a
    PROVE  k <= a \div d
  BY SMT

\* A product grows by n with each further factor.
LEMMA Product ==
    ASSUME NEW k \in Nat, NEW n \in Nat
    PROVE  k * n \in Nat /\ (k + 1) * n = k * n + n
  BY SMT

\* Multiplication by a constant keeps the order.
LEMMA ProductMonotonic ==
    ASSUME NEW j \in Nat, NEW k \in Nat, NEW n \in Nat, j <= k
    PROVE  j * n <= k * n
  BY SMT
\* A command reaches Redis in the window it was computed for or at most
\* MaxDelay after its end.
DelayOK(r) ==
    call[r] # None =>
       /\ call[r].window * Window <= now
       /\ call[r].waiting \/ call[r].left > 0 =>
             now + call[r].left < (call[r].window + 1) * Window + MaxDelay

\* A key that exists has not expired, and was given its time to live by such a
\* command; its counter counts scripts that have run.
KeyOK(w) ==
    /\ count[w] > 0 => now < expires[w] /\ expires[w] < (w + 1) * Window + MaxDelay + TTL
    /\ count[w] <= runs[w]

\* k keys of window w have come and gone by time t, each after a full TTL; each
\* let through at most Limit requests, and the key that exists, which expires at
\* e, no more than the n it has counted.
Budget(k, w, a, n, e, t) ==
    /\ k > 0 => (k - 1) * TTL < Window + MaxDelay
    /\ IF n = 0
       THEN /\ a <= k * Limit
            /\ k > 0 => w * Window + k * TTL <= t
       ELSE /\ a <= k * Limit + n /\ a <= (k + 1) * Limit
            /\ w * Window + k * TTL <= e - TTL

\* With FailClosed, that bounds what a window has let through.
BudgetOK(w) ==
    policy = "FailClosed" /\ TTL > 0 =>
       \E k \in Nat : Budget(k, w, Cardinality(Allowed(w)), count[w], expires[w], now)

DelayInv == \A r \in Requests : DelayOK(r)
KeyInv == \A w \in Windows : KeyOK(w)
BudgetInv == \A w \in Windows : BudgetOK(w)

\* The inductive invariant of RedisRateLimiter.
RedisInv == TypeOK /\ DelayInv /\ KeyInv /\ BudgetInv
\* A key lives for at most a window.
LEMMA TTLBounds == TTL \in Nat /\ TTL <= Window
<1> DEFINE q == Window \div Millisecond
<1>1. q \in Nat /\ q * Millisecond <= Window
  BY DivBounds, LimiterAssumption
<1> HIDE DEF q
<1>2. q * Millisecond \in Nat
  BY <1>1, Product, LimiterAssumption
<1> QED
  BY <1>1, <1>2 DEF TTL, q

\* The bounds of the model are numbers.
LEMMA RedisNumbers ==
    /\ Limit \in Nat /\ Window \in Nat /\ MaxDelay \in Nat /\ TTL \in Nat /\ TTL <= Window
    /\ \A w \in Windows : w \in Nat
<1>1. MaxTime \div Window \in Nat
  BY DivBounds, LimiterAssumption
<1> QED
  BY <1>1, TTLBounds, LimiterAssumption, SMT DEF Windows

\* Where a call can be.
Outcomes == {"sent", "allowed", "denied", "refused"}

\* The fields of a call that was sent.
LEMMA CallFields ==
    ASSUME TypeOK, NEW r \in Requests, call[r] # None
    PROVE  /\ call[r] \in Calls
           /\ call[r].pc \in Outcomes
           /\ call[r].window \in Windows /\ call[r].waiting \in BOOLEAN
           /\ call[r].left \in 0..MaxDelay /\ call[r].left \in Nat
<1>1. call[r] \in Calls
  BY DEF TypeOK
<1>2. /\ call[r].pc \in Outcomes
      /\ call[r].window \in Windows /\ call[r].waiting \in BOOLEAN
      /\ call[r].left \in 0..MaxDelay
  BY <1>1 DEF Calls, Outcomes
<1> QED
  BY <1>1, <1>2, LimiterAssumption, SMT

\* What happens to a call after it was sent: its window stays what it was, it
\* waits only while there is time left, and it is allowed or denied by what the
\* script counted, or by the policy.
LEMMA AnswerStep ==
    ASSUME TypeOK, NEW r \in Requests,
           allowScript(r) \/ LoseCommand(r) \/ Resend(r) \/ Failed(r)
    PROVE  \E c \in Calls :
              /\ call[r] # None /\ call' = [call EXCEPT ![r] = c]
              /\ c.window = call[r].window /\ c.left = call[r].left
              /\ c.waiting => call[r].waiting \/ call[r].left > 0
              /\ c.pc = "allowed" =>
                    \/ call[r].pc = "allowed" \/ policy = "FailOpen"
                    \/ allowScript(r) /\ ~Exceeds(count[call[r].window] + 1)
              /\ c.pc = "denied" =>
                    \/ call[r].pc = "denied"
                    \/ allowScript(r) /\ Exceeds(count[call[r].window] + 1)
<1> DEFINE w == call[r].window
           Step(c) ==
              /\ call[r] # None /\ call' = [call EXCEPT ![r] = c]
              /\ c.window = call[r].window /\ c.left = call[r].left
              /\ c.waiting => call[r].waiting \/ call[r].left > 0
              /\ c.pc = "allowed" =>
                    \/ call[r].pc = "allowed" \/ policy = "FailOpen"
                    \/ allowScript(r) /\ ~Exceeds(count[call[r].window] + 1)
              /\ c.pc = "denied" =>
                    \/ call[r].pc = "denied"
                    \/ allowScript(r) /\ Exceeds(count[call[r].window] + 1)
<1> SUFFICES \E c \in Calls : Step(c)
  OBVIOUS
<1>0. call[r] # None
  BY DEF allowScript, LoseCommand, Resend, Failed, Waiting, Sent
<1>1. ASSUME NEW pc \in Outcomes, NEW waiting \in BOOLEAN,
             call' = [call EXCEPT ![r] = Updated(r, pc, waiting, call[r].left)],
             waiting => call[r].waiting \/ call[r].left > 0,
             pc = "allowed" =>
                \/ call[r].pc = "allowed" \/ policy = "FailOpen"
                \/ allowScript(r) /\ ~Exceeds(count[call[r].window] + 1),
             pc = "denied" =>
                \/ call[r].pc = "denied"
                \/ allowScript(r) /\ Exceeds(count[call[r].window] + 1)
      PROVE  \E c \in Calls : Step(c)
  <2> DEFINE c == Updated(r, pc, waiting, call[r].left)
  <2>1. /\ c \in Calls
        /\ c.pc = pc /\ c.window = call[r].window /\ c.waiting = waiting /\ c.left = call[r].left
    <3>1. call[r].left \in 0..MaxDelay /\ call[r].window \in Windows
      BY <1>0, CallFields
    <3> QED
      BY <3>1 DEF Updated, Calls, Outcomes
  <2> HIDE DEF c
  <2>2. call' = [call EXCEPT ![r] = c]
    BY <1>1 DEF c
  <2>3. Step(c)
    BY <1>0, <1>1, <2>1, <2>2
  <2> QED
    BY <2>1, <2>3
<1> HIDE DEF Step
<1>2. CASE allowScript(r)
  <2>1. call[r].pc \in Outcomes
    BY <1>0, CallFields
  <2>2. CASE call' = [call EXCEPT ![r] = Updated(r, call[r].pc, FALSE, call[r].left)]
    BY <1>1, <2>1, <2>2
  <2> DEFINE pc == IF Exceeds(count[call[r].window] + 1) THEN "denied" ELSE "allowed"
  <2>4. /\ pc \in Outcomes
        /\ pc = "allowed" => ~Exceeds(count[call[r].window] + 1)
        /\ pc = "denied" => Exceeds(count[call[r].window] + 1)
    BY DEF Outcomes
  <2>3. CASE call' = [call EXCEPT ![r] = Updated(r, pc, FALSE, call[r].left)]
    <3> HIDE DEF pc
    <3> QED
      BY <1>1, <1>2, <2>3, <2>4
  <2> QED
    BY <1>2, <2>2, <2>3 DEF allowScript
<1>3. CASE LoseCommand(r)
  BY <1>0, <1>1, <1>3, CallFields DEF LoseCommand
<1>4. CASE Resend(r)
  <2>1. "sent" \in Outcomes
    BY DEF Outcomes
  <2> QED
    BY <1>1, <1>4, <2>1 DEF Resend
<1>5. CASE Failed(r)
  <2> DEFINE pc == IF policy = "FailOpen" THEN "allowed" ELSE "refused"
  <2>1. call' = [call EXCEPT ![r] = Updated(r, pc, call[r].waiting, call[r].left)]
    BY <1>5 DEF Failed
  <2>2. pc \in Outcomes /\ pc # "denied" /\ (pc = "allowed" => policy = "FailOpen")
    BY DEF Outcomes
  <2> HIDE DEF pc
  <2> QED
    BY <1>0, <1>1, <2>1, <2>2, CallFields
<1> QED
  BY <1>2, <1>3, <1>4, <1>5
\* What Updated changes and what it keeps.
LEMMA UpdatedFields ==
    ASSUME NEW r \in Requests, call[r].window \in Windows,
           NEW pc \in Outcomes, NEW waiting \in BOOLEAN, NEW left \in 0..MaxDelay
    PROVE  /\ Updated(r, pc, waiting, left) \in Calls
           /\ Updated(r, pc, waiting, left).pc = pc
           /\ Updated(r, pc, waiting, left).window = call[r].window
           /\ Updated(r, pc, waiting, left).waiting = waiting
           /\ Updated(r, pc, waiting, left).left = left
  BY DEF Updated, Calls, Outcomes

\* What a tick does to a call: there is less time left, and that is all.
LEMMA TickCall ==
    ASSUME TypeOK, Tick, NEW r \in Requests
    PROVE  IF call[r] = None THEN call'[r] = None
           ELSE /\ call'[r] \in Calls
                /\ call'[r].pc = call[r].pc /\ call'[r].window = call[r].window
                /\ call'[r].waiting = call[r].waiting
                /\ call'[r].left = IF call[r].left > 0 THEN call[r].left - 1 ELSE 0
<1>1. call'[r] = IF call[r] # None /\ call[r].left > 0
                 THEN Updated(r, call[r].pc, call[r].waiting, call[r].left - 1)
                 ELSE call[r]
  BY DEF Tick
<1>2. CASE call[r] = None
  BY <1>1, <1>2
<1>3. CASE call[r] # None /\ call[r].left > 0
  <2>1. /\ call[r].pc \in Outcomes /\ call[r].window \in Windows /\ call[r].waiting \in BOOLEAN
        /\ call[r].left \in 0..MaxDelay
    BY <1>3, CallFields
  <2>2. call[r].left - 1 \in 0..MaxDelay
    BY <1>3, <2>1, LimiterAssumption, SMT
  <2>3. call'[r] = Updated(r, call[r].pc, call[r].waiting, call[r].left - 1)
    BY <1>1, <1>3
  <2>4. /\ call'[r] \in Calls
        /\ call'[r].pc = call[r].pc /\ call'[r].window = call[r].window
        /\ call'[r].waiting = call[r].waiting /\ call'[r].left = call[r].left - 1
    BY <2>1, <2>2, <2>3, UpdatedFields, SMT
  <2> QED
    BY <1>3, <2>4
<1>4. CASE call[r] # None /\ ~(call[r].left > 0)
  <2>1. call'[r] = call[r]
    BY <1>1, <1>4
  <2>2. call[r] \in Calls /\ call[r].left = 0
    BY <1>4, CallFields, SMT
  <2> QED
    BY <1>4, <2>1, <2>2
<1> QED
  BY <1>2, <1>3, <1>4

\* Truncate is a window of the model.
LEMMA TruncateWindow ==
    ASSUME TypeOK
    PROVE  /\ Truncate(now) \in Windows
           /\ Truncate(now) * Window <= now /\ now < (Truncate(now) + 1) * Window
<1>1. now \in Nat /\ now <= MaxTime /\ MaxTime \in Nat /\ Window \in Nat \ {0}
  BY LimiterAssumption, SMT DEF TypeOK, Times
<1>2. /\ now \div Window \in Nat /\ MaxTime \div Window \in Nat
      /\ (now \div Window) * Window <= now /\ now < ((now \div Window) + 1) * Window
  BY <1>1, DivBounds
<1>3. now \div Window <= MaxTime \div Window
  BY <1>1, DivMonotonic
<1> QED
  BY <1>2, <1>3, SMT DEF Truncate, Windows

\* Allow records the window of the clock and starts the delay.
LEMMA AllowStep ==
    ASSUME TypeOK, NEW r \in Requests, Allow(r)
    PROVE  \E c \in Calls :
              /\ call[r] = None /\ call' = [call EXCEPT ![r] = c]
              /\ c.pc = "sent" /\ c.window = Truncate(now) /\ c.left = MaxDelay
<1> DEFINE c == [pc |-> "sent", window |-> Truncate(now), waiting |-> TRUE, left |-> MaxDelay]
<1>1. MaxDelay \in 0..MaxDelay
  BY LimiterAssumption, SMT
<1>2. c \in Calls /\ c.pc = "sent" /\ c.window = Truncate(now) /\ c.left = MaxDelay
  BY <1>1, TruncateWindow DEF Calls
<1>3. call[r] = None /\ call' = [call EXCEPT ![r] = c]
  BY DEF Allow
<1> QED
  BY <1>2, <1>3

\* The script, Tick and the other steps keep the variables in their types.
LEMMA RedisTypeInv == TypeOK /\ [Next]_vars => TypeOK'
<1> SUFFICES ASSUME TypeOK, [Next]_vars PROVE TypeOK'
  OBVIOUS
<1> USE LimiterAssumption
<1>1. CASE Tick
  <2>1. call' \in [Requests -> Calls \cup {None}]
    <3>1. \A r \in Requests : call'[r] \in Calls \cup {None}
      BY <1>1, TickCall
    <3>2. call' = [r \in Requests |-> call'[r]]
      BY <1>1 DEF Tick
    <3> QED
      BY <3>1, <3>2
  <2>2. /\ now' \in Times /\ count' \in [Windows -> Nat]
        /\ expires' \in [Windows -> 0..(MaxTime + Window)]
    BY <1>1, SMT DEF Tick, TypeOK, Times
  <2> QED
    BY <1>1, <2>1, <2>2 DEF Tick, TypeOK
<1>2. ASSUME NEW r \in Requests, Allow(r) PROVE TypeOK'
  <2>1. call' \in [Requests -> Calls \cup {None}]
    BY <1>2, AllowStep, SMT DEF TypeOK
  <2> QED
    BY <1>2, <2>1 DEF Allow, TypeOK
<1>3. ASSUME NEW r \in Requests, allowScript(r) \/ LoseCommand(r) \/ Resend(r) \/ Failed(r)
      PROVE  TypeOK'
  <2>1. call' \in [Requests -> Calls \cup {None}]
    BY <1>3, AnswerStep, SMT DEF TypeOK
  <2>2. CASE allowScript(r)
    <3>1. call[r].window \in Windows
      BY <2>2, CallFields DEF allowScript, Waiting
    <3>2. count' \in [Windows -> Nat] /\ runs' \in [Windows -> Nat]
      BY <2>2, <3>1, SMT DEF allowScript, Incr, TypeOK
    <3>3. now + TTL \in 0..(MaxTime + Window)
      BY TTLBounds, SMT DEF TypeOK, Times
    <3>4. expires' \in [Windows -> 0..(MaxTime + Window)]
      BY <2>2, <3>1, <3>3 DEF allowScript, PExpire, TypeOK
    <3> QED
      BY <2>1, <2>2, <3>2, <3>4 DEF allowScript, TypeOK
  <2>3. CASE Resend(r)
    <3>1. resends' \in 0..MaxResends
      BY <2>3, SMT DEF Resend, TypeOK
    <3> QED
      BY <2>1, <2>3, <3>1 DEF Resend, TypeOK
  <2>4. CASE LoseCommand(r) \/ Failed(r)
    BY <2>1, <2>4 DEF LoseCommand, Failed, TypeOK
  <2> QED
    BY <1>3, <2>2, <2>3, <2>4
<1>4. CASE UNCHANGED vars
  BY <1>4 DEF vars, TypeOK
<1> QED
  BY <1>1, <1>2, <1>3, <1>4 DEF Next
\* No step brings a command to Redis later than it may.
LEMMA RedisDelayInv ==
    ASSUME TypeOK, DelayInv, [Next]_vars, NEW r \in Requests
    PROVE  DelayOK(r)'
<1>0. /\ DelayOK(r) /\ now \in Nat /\ Window \in Nat /\ MaxDelay \in Nat
      /\ \A w \in Windows : w \in Nat
  BY RedisNumbers, LimiterAssumption, SMT DEF DelayInv, TypeOK, Times
<1>1. CASE Tick
  <2>1. CASE call[r] = None
    BY <1>1, <2>1, TickCall DEF DelayOK
  <2>2. CASE call[r] # None
    <3>1. /\ call'[r].window = call[r].window /\ call'[r].waiting = call[r].waiting
          /\ call'[r].left = IF call[r].left > 0 THEN call[r].left - 1 ELSE 0
          /\ now' = now + 1 /\ (call[r].waiting => call[r].left > 0)
      BY <1>1, <2>2, TickCall DEF Tick, Waiting
    <3>2. call[r].left \in Nat /\ call[r].window \in Nat
      BY <1>0, <2>2, CallFields
    <3> DEFINE a == call[r].window * Window
               b == (call[r].window + 1) * Window
    <3>3. a \in Int /\ b \in Int
      BY <1>0, <3>2, SMT
    <3>4. a <= now /\ (call[r].left > 0 => now + call[r].left < b + MaxDelay)
      BY <1>0, <2>2 DEF DelayOK
    <3>5. a = call'[r].window * Window /\ b = (call'[r].window + 1) * Window
      BY <3>1
    <3> HIDE DEF a, b
    <3>6. a <= now' /\ (call'[r].waiting \/ call'[r].left > 0 => now' + call'[r].left < b + MaxDelay)
      BY <1>0, <3>1, <3>2, <3>3, <3>4, SMT
    <3> QED
      BY <3>5, <3>6 DEF DelayOK
  <2> QED
    BY <2>1, <2>2
<1>2. ASSUME NEW q \in Requests, Allow(q) PROVE DelayOK(r)'
  <2>1. PICK c \in Calls :
              /\ call[q] = None /\ call' = [call EXCEPT ![q] = c]
              /\ c.pc = "sent" /\ c.window = Truncate(now) /\ c.left = MaxDelay
    BY <1>2, AllowStep
  <2>2. UNCHANGED now
    BY <1>2 DEF Allow
  <2>3. CASE q = r
    <3>1. call'[r].window = Truncate(now) /\ call'[r].left = MaxDelay
      BY <2>1, <2>3 DEF TypeOK
    <3>2. /\ Truncate(now) * Window <= now /\ now < (Truncate(now) + 1) * Window
          /\ Truncate(now) \in Nat
      BY <1>0, TruncateWindow
    <3> QED
      BY <1>0, <2>2, <3>1, <3>2, SMT DEF DelayOK
  <2>4. CASE q # r
    BY <1>0, <2>1, <2>2, <2>4 DEF DelayOK, TypeOK
  <2> QED
    BY <2>3, <2>4
<1>3. ASSUME NEW q \in Requests, allowScript(q) \/ LoseCommand(q) \/ Resend(q) \/ Failed(q)
      PROVE  DelayOK(r)'
  <2>1. PICK c \in Calls :
              /\ call[q] # None /\ call' = [call EXCEPT ![q] = c]
              /\ c.window = call[q].window /\ c.left = call[q].left
              /\ c.waiting => call[q].waiting \/ call[q].left > 0
    BY <1>3, AnswerStep
  <2>2. UNCHANGED now
    BY <1>3 DEF allowScript, LoseCommand, Resend, Failed
  <2> QED
    BY <1>0, <2>1, <2>2 DEF DelayOK, TypeOK
<1>4. CASE UNCHANGED vars
  BY <1>0, <1>4 DEF vars, DelayOK
<1> QED
  BY <1>1, <1>2, <1>3, <1>4 DEF Next

\* What the script does to the keys, if it runs within its delay.
LEMMA ScriptStep ==
    ASSUME TypeOK, DelayInv, NEW r \in Requests, allowScript(r)
    PROVE  \E w \in Windows :
              /\ w = call[r].window
              /\ w * Window <= now /\ now < (w + 1) * Window + MaxDelay
              /\ count' = [count EXCEPT ![w] = IF TTL = 0 THEN 0 ELSE @ + 1]
              /\ expires' = [expires EXCEPT ![w] = IF count[w] = 0 THEN now + TTL ELSE @]
              /\ runs' = [runs EXCEPT ![w] = @ + 1]
              /\ UNCHANGED <<now, policy>>
<1> DEFINE w == call[r].window
<1>1. call[r] # None /\ call[r].waiting
  BY DEF allowScript, Waiting
<1>2. w \in Windows /\ call[r].left \in Nat
  BY <1>1, CallFields
<1>3. w * Window <= now /\ now + call[r].left < (w + 1) * Window + MaxDelay
  BY <1>1 DEF DelayInv, DelayOK
<1>4. now \in Nat /\ w \in Nat /\ Window \in Nat /\ MaxDelay \in Nat
  BY <1>2, RedisNumbers, LimiterAssumption, SMT DEF TypeOK, Times
<1>5. now < (w + 1) * Window + MaxDelay
  BY <1>2, <1>3, <1>4, SMT
<1>6. /\ count' = [count EXCEPT ![w] = IF TTL = 0 THEN 0 ELSE @ + 1]
      /\ expires' = [expires EXCEPT ![w] = IF count[w] = 0 THEN now + TTL ELSE @]
      /\ runs' = [runs EXCEPT ![w] = @ + 1]
      /\ UNCHANGED <<now, policy>>
  BY DEF allowScript, Incr, PExpire
<1> QED
  BY <1>2, <1>3, <1>5, <1>6

\* The steps that neither pass the time nor run the script leave the keys alone.
LEMMA OtherStep ==
    ASSUME [Next]_vars, ~Tick, \A r \in Requests : ~allowScript(r)
    PROVE  UNCHANGED <<policy, now, count, expires, runs>>
  BY DEF Next, Allow, LoseCommand, Resend, Failed, vars

\* No step leaves a key behind its time, or with a count that no script made.
LEMMA RedisKeyInv ==
    ASSUME TypeOK, DelayInv, KeyInv, [Next]_vars, NEW w \in Windows
    PROVE  KeyOK(w)'
<1>0. /\ KeyOK(w) /\ now \in Nat /\ Window \in Nat /\ MaxDelay \in Nat /\ TTL \in Nat /\ w \in Nat
      /\ count[w] \in Nat /\ expires[w] \in Nat /\ runs[w] \in Nat
  BY RedisNumbers, LimiterAssumption, SMT DEF KeyInv, TypeOK, Times
<1>1. CASE Tick
  <2>1. /\ now' = now + 1 /\ runs' = runs
        /\ count'[w] = IF expires[w] <= now + 1 THEN 0 ELSE count[w]
        /\ expires'[w] = IF expires[w] <= now + 1 THEN 0 ELSE expires[w]
    BY <1>1 DEF Tick
  <2> QED
    BY <1>0, <2>1, SMT DEF KeyOK
<1>2. ASSUME NEW r \in Requests, allowScript(r) PROVE KeyOK(w)'
  <2>1. PICK v \in Windows :
              /\ v * Window <= now /\ now < (v + 1) * Window + MaxDelay
              /\ count' = [count EXCEPT ![v] = IF TTL = 0 THEN 0 ELSE @ + 1]
              /\ expires' = [expires EXCEPT ![v] = IF count[v] = 0 THEN now + TTL ELSE @]
              /\ runs' = [runs EXCEPT ![v] = @ + 1]
              /\ UNCHANGED now
    BY <1>2, ScriptStep
  <2>2. CASE v # w
    <3>1. count'[w] = count[w] /\ expires'[w] = expires[w] /\ runs'[w] = runs[w]
      BY <2>1, <2>2 DEF TypeOK
    <3> QED
      BY <1>0, <2>1, <3>1 DEF KeyOK
  <2>3. CASE v = w
    <3>1. /\ count'[w] = IF TTL = 0 THEN 0 ELSE count[w] + 1
          /\ expires'[w] = IF count[w] = 0 THEN now + TTL ELSE expires[w]
          /\ runs'[w] = runs[w] + 1
      BY <2>1, <2>3 DEF TypeOK
    <3> DEFINE b == (w + 1) * Window
    <3>2. b \in Int /\ now < b + MaxDelay
      BY <1>0, <2>1, <2>3, SMT
    <3>3. count[w] > 0 => now < expires[w] /\ expires[w] < b + MaxDelay + TTL
      BY <1>0 DEF KeyOK
    <3>4. count[w] <= runs[w]
      BY <1>0 DEF KeyOK
    <3> HIDE DEF b
    <3>5. /\ count'[w] > 0 => now < expires'[w] /\ expires'[w] < b + MaxDelay + TTL
          /\ count'[w] <= runs'[w]
      BY <1>0, <3>1, <3>2, <3>3, <3>4, SMT
    <3> QED
      BY <2>1, <3>5 DEF KeyOK, b
  <2> QED
    BY <2>2, <2>3
<1>3. CASE UNCHANGED <<policy, now, count, expires, runs>>
  BY <1>0, <1>3 DEF KeyOK
<1> QED
  BY <1>1, <1>2, <1>3, OtherStep

-----------------------------------------------------------------------------
\* How many requests a window lets through.
INSTANCE FiniteSetTheorems

\* The requests a window has let through are finitely many.
LEMMA AllowedFinite ==
    ASSUME NEW w
    PROVE  IsFiniteSet(Allowed(w)) /\ Cardinality(Allowed(w)) \in Nat
<1>1. Allowed(w) \in SUBSET Requests
  BY DEF Allowed
<1>2. IsFiniteSet(Allowed(w))
  BY <1>1, FS_Subset, LimiterAssumption
<1> QED
  BY <1>2, FS_CardinalityType

\* With FailClosed, only a script that has counted no more than Limit lets a
\* request of its window through.
LEMMA AllowedStep ==
    ASSUME TypeOK, policy = "FailClosed", [Next]_vars, NEW w \in Windows
    PROVE  \/ Allowed(w)' \subseteq Allowed(w)
           \/ \E r \in Requests :
                 /\ allowScript(r) /\ w = call[r].window /\ ~Exceeds(count[w] + 1)
                 /\ Allowed(w)' \subseteq Allowed(w) \cup {r}
<1>1. CASE Tick
  BY <1>1, TickCall DEF Allowed
<1>2. ASSUME NEW r \in Requests, Allow(r) PROVE Allowed(w)' \subseteq Allowed(w)
  <2>1. PICK c \in Calls : call[r] = None /\ call' = [call EXCEPT ![r] = c] /\ c.pc = "sent"
    BY <1>2, AllowStep
  <2> QED
    BY <2>1 DEF Allowed, TypeOK
<1>3. ASSUME NEW r \in Requests, allowScript(r) \/ LoseCommand(r) \/ Resend(r) \/ Failed(r)
      PROVE  \/ Allowed(w)' \subseteq Allowed(w)
             \/ /\ allowScript(r) /\ w = call[r].window /\ ~Exceeds(count[w] + 1)
                /\ Allowed(w)' \subseteq Allowed(w) \cup {r}
  <2>1. PICK c \in Calls :
              /\ call[r] # None /\ call' = [call EXCEPT ![r] = c]
              /\ c.window = call[r].window
              /\ c.pc = "allowed" =>
                    \/ call[r].pc = "allowed" \/ policy = "FailOpen"
                    \/ allowScript(r) /\ ~Exceeds(count[call[r].window] + 1)
    BY <1>3, AnswerStep
  <2>2. Allowed(w)' \subseteq Allowed(w) \cup {r}
    BY <2>1 DEF Allowed, TypeOK
  <2>3. r \in Allowed(w)' /\ r \notin Allowed(w) =>
           allowScript(r) /\ w = call[r].window /\ ~Exceeds(count[w] + 1)
    <3>1. call'[r] = c
      BY <2>1 DEF TypeOK
    <3> QED
      BY <2>1, <3>1 DEF Allowed
  <2> QED
    BY <2>2, <2>3
<1>4. CASE UNCHANGED vars
  BY <1>4 DEF vars, Allowed
<1> QED
  BY <1>1, <1>2, <1>3, <1>4 DEF Next

\* The same, in numbers.
LEMMA AllowedCount ==
    ASSUME TypeOK, policy = "FailClosed", [Next]_vars, NEW w \in Windows
    PROVE  /\ Cardinality(Allowed(w)') \in Nat
           /\ \/ Cardinality(Allowed(w)') <= Cardinality(Allowed(w))
              \/ \E r \in Requests :
                    /\ allowScript(r) /\ w = call[r].window /\ count[w] + 1 <= Limit
                    /\ Cardinality(Allowed(w)') <= Cardinality(Allowed(w)) + 1
<1>1. /\ IsFiniteSet(Allowed(w)) /\ Cardinality(Allowed(w)) \in Nat
      /\ count[w] \in Nat /\ Limit \in Nat
  BY AllowedFinite, LimiterAssumption DEF TypeOK
<1>2. CASE Allowed(w)' \subseteq Allowed(w)
  <2>1. IsFiniteSet(Allowed(w)') /\ Cardinality(Allowed(w)') <= Cardinality(Allowed(w))
    BY <1>1, <1>2, FS_Subset
  <2> QED
    BY <2>1, FS_CardinalityType
<1>3. ASSUME NEW r \in Requests,
             allowScript(r) /\ w = call[r].window /\ ~Exceeds(count[w] + 1),
             Allowed(w)' \subseteq Allowed(w) \cup {r}
      PROVE  /\ Cardinality(Allowed(w)') \in Nat
             /\ count[w] + 1 <= Limit
             /\ Cardinality(Allowed(w)') <= Cardinality(Allowed(w)) + 1
  <2> DEFINE S == Allowed(w) \cup {r}
  <2>1. IsFiniteSet(S) /\ (Cardinality(S) = Cardinality(Allowed(w)) \/ Cardinality(S) = Cardinality(Allowed(w)) + 1)
    BY <1>1, FS_AddElement
  <2>2. IsFiniteSet(Allowed(w)') /\ Cardinality(Allowed(w)') <= Cardinality(S)
    BY <1>3, <2>1, FS_Subset
  <2>3. Cardinality(Allowed(w)') \in Nat
    BY <2>2, FS_CardinalityType
  <2>4. count[w] + 1 <= Limit
    BY <1>1, <1>3, SMT DEF Exceeds
  <2> HIDE DEF S
  <2> QED
    BY <1>1, <2>1, <2>2, <2>3, <2>4, SMT
<1> QED
  BY <1>2, <1>3, AllowedStep
\* Less let through, and time that passes, keep within the budget.
LEMMA BudgetKept ==
    ASSUME NEW k \in Nat, NEW w \in Windows, NEW a \in Nat, NEW n \in Nat, NEW e \in Nat,
           NEW t \in Nat, NEW b \in Nat, NEW u \in Nat, NEW f \in Nat,
           Budget(k, w, a, n, e, t), b <= a, t <= u, n = 0 \/ e = f
    PROVE  Budget(k, w, b, n, f, u)
<1>1. /\ w \in Nat /\ Window \in Nat /\ TTL \in Nat /\ Limit \in Nat /\ MaxDelay \in Nat
  BY RedisNumbers
<1>2. w * Window \in Nat /\ k * TTL \in Nat /\ k * Limit \in Nat /\ (k + 1) * Limit \in Nat
  BY <1>1, Product, SMT
<1> QED
  BY <1>1, <1>2, SMT DEF Budget

\* A script that runs in its time keeps within the budget.
LEMMA BudgetScript ==
    ASSUME NEW k \in Nat, NEW w \in Windows, NEW a \in Nat, NEW n \in Nat, NEW e \in Nat,
           NEW t \in Nat, NEW b \in Nat, TTL > 0,
           Budget(k, w, a, n, e, t), w * Window <= t,
           b <= a \/ (b <= a + 1 /\ n + 1 <= Limit)
    PROVE  Budget(k, w, b, n + 1, IF n = 0 THEN t + TTL ELSE e, t)
<1>1. /\ w \in Nat /\ Window \in Nat /\ TTL \in Nat /\ Limit \in Nat /\ MaxDelay \in Nat
  BY RedisNumbers
<1>2. /\ w * Window \in Nat /\ k * TTL \in Nat /\ k * Limit \in Nat
      /\ (k + 1) * Limit = k * Limit + Limit /\ (k = 0 => k * TTL = 0)
  BY <1>1, Product, SMT
<1>3. CASE n = 0
  BY <1>1, <1>2, <1>3, SMTT(30) DEF Budget
<1>4. CASE n # 0
  BY <1>1, <1>2, <1>4, SMT DEF Budget
<1> QED
  BY <1>3, <1>4

\* A key that expires has used up a part of the budget, and a TTL.
LEMMA BudgetExpire ==
    ASSUME NEW k \in Nat, NEW w \in Windows, NEW a \in Nat, NEW n \in Nat \ {0}, NEW e \in Nat,
           NEW t \in Nat,
           Budget(k, w, a, n, e, t), e <= t + 1, e < (w + 1) * Window + MaxDelay + TTL
    PROVE  Budget(k + 1, w, a, 0, 0, t + 1)
<1>1. /\ w \in Nat /\ Window \in Nat /\ TTL \in Nat /\ Limit \in Nat /\ MaxDelay \in Nat
  BY RedisNumbers
<1>2. /\ w * Window \in Nat /\ k * TTL \in Nat /\ k * Limit \in Nat /\ k + 1 \in Nat
      /\ (k + 1) * Limit \in Nat /\ (k + 1) * TTL = k * TTL + TTL
      /\ (w + 1) * Window = w * Window + Window
  BY <1>1, Product, SMT
<1>3. a <= (k + 1) * Limit /\ w * Window + k * TTL <= e - TTL
  BY DEF Budget
<1>4. k * TTL < Window + MaxDelay
  BY <1>1, <1>2, <1>3, SMT
<1>5. w * Window + (k + 1) * TTL <= t + 1
  BY <1>1, <1>2, <1>3, SMT
<1>6. (k + 1) - 1 = k
  BY SMT
<1> QED
  BY <1>3, <1>4, <1>5, <1>6 DEF Budget

\* The budget is at most Limit for each key a window can have.
LEMMA BudgetLives ==
    ASSUME NEW k \in Nat, NEW w \in Windows, NEW a \in Nat, NEW n \in Nat, NEW e \in Nat,
           NEW t \in Nat, TTL > 0,
           Budget(k, w, a, n, e, t), n > 0 => e < (w + 1) * Window + MaxDelay + TTL
    PROVE  a <= Lives * Limit
<1>1. /\ w \in Nat /\ Window \in Nat \ {0} /\ TTL \in Nat \ {0} /\ Limit \in Nat /\ MaxDelay \in Nat
  BY RedisNumbers, LimiterAssumption, SMT
<1> DEFINE E == Window + MaxDelay - 1
<1>2. E \in Nat
  BY <1>1, SMT
<1>3. \A j \in Nat : j * TTL < Window + MaxDelay => j <= E \div TTL
  <2> TAKE j \in Nat
  <2> HAVE j * TTL < Window + MaxDelay
  <2>1. j * TTL \in Nat
    BY <1>1, Product
  <2>2. j * TTL <= E
    BY <1>1, <2>1, SMT
  <2> HIDE DEF E
  <2> QED
    BY <1>1, <1>2, <2>2, DivLargest
<1>4. E \div TTL \in Nat /\ Lives = (E \div TTL) + 1
  BY <1>1, <1>2, DivBounds DEF Lives
<1> HIDE DEF E
<1>5. \A j \in Nat : j <= Lives => j * Limit <= Lives * Limit
  BY <1>1, <1>4, ProductMonotonic, SMTT(30)
<1>6. CASE n = 0
  <2>1. a <= k * Limit /\ (k > 0 => (k - 1) * TTL < Window + MaxDelay)
    BY <1>6 DEF Budget
  <2>2. k <= Lives
    BY <1>3, <1>4, <2>1, SMTT(30)
  <2>3. k * Limit <= Lives * Limit /\ k * Limit \in Nat /\ Lives * Limit \in Nat
    BY <1>1, <1>4, <1>5, <2>2, Product, SMTT(30)
  <2> QED
    BY <2>1, <2>3, SMTT(30)
<1>7. CASE n # 0
  <2>1. a <= (k + 1) * Limit /\ w * Window + k * TTL <= e - TTL /\ e < (w + 1) * Window + MaxDelay + TTL
    BY <1>7, SMT DEF Budget
  <2>2. /\ w * Window \in Nat /\ k * TTL \in Nat /\ (w + 1) * Window = w * Window + Window
    BY <1>1, Product
  <2>3. k * TTL < Window + MaxDelay
    BY <1>1, <2>1, <2>2, SMTT(30)
  <2>4. k + 1 <= Lives /\ k + 1 \in Nat
    BY <1>3, <1>4, <2>3, SMTT(30)
  <2>5. (k + 1) * Limit <= Lives * Limit /\ (k + 1) * Limit \in Nat /\ Lives * Limit \in Nat
    BY <1>1, <1>4, <1>5, <2>4, Product, SMTT(30)
  <2> QED
    BY <2>1, <2>5, SMTT(30)
<1> QED
  BY <1>6, <1>7
\* No step exceeds the budget of a window.
LEMMA RedisBudgetInv ==
    ASSUME RedisInv, [Next]_vars, NEW w \in Windows
    PROVE  BudgetOK(w)'
<1> DEFINE A == Cardinality(Allowed(w))
           B == Cardinality(Allowed(w)')
<1>0. TypeOK /\ DelayInv /\ KeyOK(w) /\ BudgetOK(w) /\ TypeOK'
  BY RedisTypeInv DEF RedisInv, KeyInv, BudgetInv
<1>1. /\ now \in Nat /\ now' \in Nat /\ count[w] \in Nat /\ expires[w] \in Nat /\ expires'[w] \in Nat
  BY <1>0, LimiterAssumption, SMT DEF TypeOK, Times
<1>2. policy' = policy
  <2>1. \A r \in Requests : allowScript(r) => policy' = policy
    BY DEF allowScript
  <2> QED
    BY <2>1, OtherStep DEF Tick
<1> SUFFICES ASSUME policy = "FailClosed", TTL > 0
             PROVE  \E k \in Nat : Budget(k, w, B, count'[w], expires'[w], now')
  BY <1>2 DEF BudgetOK
<1>3. PICK k \in Nat : Budget(k, w, A, count[w], expires[w], now)
  BY <1>0 DEF BudgetOK
<1>4. /\ A \in Nat /\ B \in Nat
      /\ \/ B <= A
         \/ \E r \in Requests :
               allowScript(r) /\ w = call[r].window /\ count[w] + 1 <= Limit /\ B <= A + 1
  BY <1>0, AllowedCount, AllowedFinite
<1> HIDE DEF A, B
<1>5. CASE Tick
  <2>1. /\ now' = now + 1
        /\ count'[w] = IF expires[w] <= now + 1 THEN 0 ELSE count[w]
        /\ expires'[w] = IF expires[w] <= now + 1 THEN 0 ELSE expires[w]
    BY <1>5 DEF Tick
  <2>2. B <= A
    <3>1. \A r \in Requests : allowScript(r) => now' = now
      BY DEF allowScript
    <3> QED
      BY <1>1, <1>4, <2>1, <3>1, SMTT(30)
  <2>3. CASE expires[w] <= now + 1 /\ count[w] # 0
    <3>1. count[w] \in Nat \ {0} /\ expires[w] < (w + 1) * Window + MaxDelay + TTL
      BY <1>0, <1>1, <2>3, SMT DEF KeyOK
    <3>2. Budget(k + 1, w, A, 0, 0, now + 1)
      BY <1>1, <1>3, <1>4, <2>3, <3>1, BudgetExpire
    <3>4. k + 1 \in Nat /\ 0 \in Nat /\ now + 1 \in Nat /\ now + 1 <= now + 1
      BY <1>1, SMT
    <3>3. Budget(k + 1, w, B, 0, 0, now + 1)
      BY <1>4, <2>2, <3>2, <3>4, BudgetKept
    <3> QED
      BY <2>1, <2>3, <3>3, SMTT(30)
  <2>4. CASE ~(expires[w] <= now + 1 /\ count[w] # 0)
    <3>1. /\ count'[w] = count[w] /\ (count[w] = 0 \/ expires'[w] = expires[w])
          /\ now <= now'
      BY <1>1, <2>1, <2>4, SMTT(30)
    <3>2. Budget(k, w, B, count[w], expires'[w], now')
      BY <1>1, <1>3, <1>4, <2>2, <3>1, BudgetKept
    <3> QED
      BY <3>1, <3>2
  <2> QED
    BY <2>3, <2>4
<1>6. ASSUME NEW r \in Requests, allowScript(r)
      PROVE  \E j \in Nat : Budget(j, w, B, count'[w], expires'[w], now')
  <2>1. PICK v \in Windows :
              /\ v = call[r].window
              /\ v * Window <= now
              /\ count' = [count EXCEPT ![v] = IF TTL = 0 THEN 0 ELSE @ + 1]
              /\ expires' = [expires EXCEPT ![v] = IF count[v] = 0 THEN now + TTL ELSE @]
              /\ UNCHANGED now
    BY <1>0, <1>6, ScriptStep
  <2>2. CASE v = w
    <3>1. /\ count'[w] = count[w] + 1
          /\ expires'[w] = IF count[w] = 0 THEN now + TTL ELSE expires[w]
      BY <1>0, <2>1, <2>2, SMTT(30) DEF TypeOK
    <3>2. B <= A \/ (B <= A + 1 /\ count[w] + 1 <= Limit)
      BY <1>4
    <3>3. Budget(k, w, B, count[w] + 1, IF count[w] = 0 THEN now + TTL ELSE expires[w], now)
      BY <1>1, <1>3, <1>4, <2>1, <2>2, <3>2, BudgetScript, ZenonT(30)
    <3> QED
      BY <2>1, <3>1, <3>3
  <2>3. CASE v # w
    <3>1. count'[w] = count[w] /\ expires'[w] = expires[w]
      BY <1>0, <2>1, <2>3 DEF TypeOK
    <3>2. B <= A
      <4>1. \A q \in Requests : allowScript(q) /\ w = call[q].window => count'[w] = IF TTL = 0 THEN 0 ELSE count[w] + 1
        BY <1>0, SMTT(30) DEF allowScript, Incr, TypeOK
      <4> QED
        BY <1>1, <1>4, <3>1, <4>1, SMTT(30)
    <3>3. now <= now
      BY <1>1, SMT
    <3>4. Budget(k, w, B, count[w], expires[w], now)
      BY <1>1, <1>3, <1>4, <3>2, <3>3, BudgetKept, ZenonT(30)
    <3> QED
      BY <2>1, <3>1, <3>4
  <2> QED
    BY <2>2, <2>3
<1>7. CASE ~Tick /\ \A r \in Requests : ~allowScript(r)
  <2>1. UNCHANGED <<now, count, expires>>
    BY <1>7, OtherStep
  <2>2. B <= A
    BY <1>4, <1>7
  <2>4. now <= now
    BY <1>1, SMT
  <2>3. Budget(k, w, B, count[w], expires[w], now)
    BY <1>1, <1>3, <1>4, <2>2, <2>4, BudgetKept
  <2> QED
    BY <2>1, <2>3
<1> QED
  BY <1>5, <1>6, <1>7

\* The inductive invariant of RedisRateLimiter holds in every reachable state.
LEMMA RedisInvariance == LimitersSpec => []RedisInv
<1>1. LimitersInit => RedisInv
  <2> SUFFICES ASSUME Init PROVE RedisInv
    BY DEF LimitersInit
  <2>1. TypeOK
    BY LimiterAssumption, SMT DEF Init, TypeOK, Times
  <2>2. DelayInv
    BY DEF Init, DelayInv, DelayOK
  <2>3. KeyInv
    BY SMT DEF Init, KeyInv, KeyOK
  <2>4. ASSUME NEW w \in Windows PROVE BudgetOK(w)
    <3>1. Allowed(w) = {}
      BY DEF Init, Allowed
    <3>2. Cardinality(Allowed(w)) = 0
      BY <3>1, FS_EmptySet
    <3>3. 0 * Limit = 0 /\ 0 \in Nat
      BY LimiterAssumption, SMT
    <3>4. count[w] = 0
      BY DEF Init
    <3>5. Budget(0, w, 0, 0, expires[w], now)
      BY <3>3, SMT DEF Budget
    <3> QED
      BY <3>2, <3>3, <3>4, <3>5 DEF BudgetOK
  <2> QED
    BY <2>1, <2>2, <2>3, <2>4 DEF RedisInv, BudgetInv
<1>2. RedisInv /\ [LimitersNext]_<<vars, localVars>> => RedisInv'
  <2> SUFFICES ASSUME RedisInv, [LimitersNext]_<<vars, localVars>>
               PROVE  RedisInv'
    OBVIOUS
  <2>1. [Next]_vars /\ TypeOK /\ DelayInv /\ KeyInv
    BY DEF LimitersNext, RedisInv
  <2>2. TypeOK'
    BY <2>1, RedisTypeInv
  <2>3. (\A r \in Requests : DelayOK(r))'
    BY <2>1, RedisDelayInv
  <2>4. (\A w \in Windows : KeyOK(w))'
    BY <2>1, RedisKeyInv DEF Windows
  <2>5. (\A w \in Windows : BudgetOK(w))'
    BY <2>1, RedisBudgetInv DEF Windows
  <2> QED
    BY <2>2, <2>3, <2>4, <2>5 DEF RedisInv, DelayInv, KeyInv, BudgetInv
<1> QED
  BY <1>1, <1>2, PTL DEF LimitersSpec

\* The variables of both limiters have their types.
THEOREM LimitersTypeCorrect == LimitersSpec => []LimitersTypeOK
<1>1. RedisInv /\ LocalInv => LimitersTypeOK
  BY DEF RedisInv, LocalInv, LimitersTypeOK
<1> QED
  BY <1>1, RedisInvariance, LocalInvariance, PTL

\* With FailClosed, a window lets through at most Limit requests for each key it
\* can have, whatever is late, lost, sent again or carried out after its timeout.
THEOREM WindowWithinBudget == LimitersSpec => []WindowBudget
<1>1. RedisInv => WindowBudget
  <2> SUFFICES ASSUME RedisInv, policy = "FailClosed", TTL > 0, NEW w \in Windows
               PROVE  Cardinality(Allowed(w)) <= Lives * Limit
    BY DEF WindowBudget
  <2>1. PICK k \in Nat : Budget(k, w, Cardinality(Allowed(w)), count[w], expires[w], now)
    BY DEF RedisInv, BudgetInv, BudgetOK
  <2>2. /\ Cardinality(Allowed(w)) \in Nat /\ count[w] \in Nat /\ expires[w] \in Nat /\ now \in Nat
    BY AllowedFinite, LimiterAssumption, SMT DEF RedisInv, TypeOK, Times
  <2>3. count[w] > 0 => expires[w] < (w + 1) * Window + MaxDelay + TTL
    BY DEF RedisInv, KeyInv, KeyOK
  <2> QED
    BY <2>1, <2>2, <2>3, BudgetLives
<1> QED
  BY <1>1, RedisInvariance, PTL

\* Redis does not accumulate the keys of past windows.
THEOREM NoKeyOutlivesItsWindow == LimitersSpec => []KeysExpire
<1>1. RedisInv => KeysExpire
  <2> SUFFICES ASSUME RedisInv, NEW w \in Windows, count[w] > 0
               PROVE  now < (w + 2) * Window + MaxDelay
    BY DEF KeysExpire
  <2>1. now < expires[w] /\ expires[w] < (w + 1) * Window + MaxDelay + TTL
    BY DEF RedisInv, KeyInv, KeyOK
  <2>2. /\ w \in Nat /\ Window \in Nat /\ MaxDelay \in Nat /\ TTL \in Nat /\ TTL <= Window
        /\ now \in Nat /\ expires[w] \in Nat
    BY RedisNumbers, LimiterAssumption, SMT DEF RedisInv, TypeOK, Times
  <2>3. (w + 2) * Window = (w + 1) * Window + Window /\ (w + 1) * Window \in Nat
    BY <2>2, SMT
  <2> QED
    BY <2>1, <2>2, <2>3, SMT
<1> QED
  BY <1>1, RedisInvariance, PTL

\* Redis denies a request only after Limit scripts have run for its window.
THEOREM NoEarlyDenial == LimitersSpec => DeniedOnlyWhenSpent
<1> DEFINE Spent == \A r \in Requests :
                      Sent(r) /\ call'[r].pc = "denied" => runs[call[r].window] >= Limit
<1>1. RedisInv /\ [LimitersNext]_<<vars, localVars>> => [Spent]_vars
  <2> SUFFICES ASSUME RedisInv, Next, NEW r \in Requests, Sent(r), call'[r].pc = "denied"
               PROVE  runs[call[r].window] >= Limit
    BY DEF LimitersNext
  <2>0. TypeOK /\ KeyInv /\ call[r] # None /\ call[r].pc = "sent" /\ call[r].window \in Windows
    BY CallFields DEF RedisInv, Sent
  <2>1. ~Tick
    BY <2>0, TickCall
  <2>2. ASSUME NEW q \in Requests, Allow(q) PROVE FALSE
    <3>1. PICK c \in Calls : call[q] = None /\ call' = [call EXCEPT ![q] = c]
      BY <2>0, <2>2, AllowStep
    <3> QED
      BY <2>0, <3>1 DEF TypeOK
  <2>3. ASSUME NEW q \in Requests, allowScript(q) \/ LoseCommand(q) \/ Resend(q) \/ Failed(q)
        PROVE  Exceeds(count[call[r].window] + 1)
    <3>1. PICK c \in Calls :
                /\ call' = [call EXCEPT ![q] = c]
                /\ c.pc = "denied" =>
                      \/ call[q].pc = "denied"
                      \/ allowScript(q) /\ Exceeds(count[call[q].window] + 1)
      BY <2>0, <2>3, AnswerStep
    <3>2. CASE q = r
      <4>1. call'[r] = c
        BY <2>0, <3>1, <3>2 DEF TypeOK
      <4> QED
        BY <2>0, <3>1, <3>2, <4>1
    <3>3. CASE q # r
      BY <2>0, <3>1, <3>3 DEF TypeOK
    <3> QED
      BY <3>2, <3>3
  <2>4. Exceeds(count[call[r].window] + 1)
    BY <2>1, <2>2, <2>3 DEF Next
  <2>5. /\ count[call[r].window] \in Nat /\ runs[call[r].window] \in Nat
        /\ count[call[r].window] <= runs[call[r].window] /\ Limit \in Nat
    BY <2>0, LimiterAssumption DEF TypeOK, KeyInv, KeyOK
  <2> QED
    BY <2>4, <2>5, SMT DEF Exceeds
<1> QED
  BY <1>1, RedisInvariance, PTL DEF LimitersSpec, DeniedOnlyWhenSpent
=============================================================================
