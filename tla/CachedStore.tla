---------------------------- MODULE CachedStore ----------------------------
(***************************************************************************)
(* store.CachedStore: a cache with a time to live in front of any          *)
(* tenant.Store, filled through a singleflight.Group.                      *)
(*                                                                         *)
(* A tenant is represented by its version, the number of times the source  *)
(* has changed it.  Time passes only as far as the clock's bound, and the  *)
(* source's answer reaches the cache and the callers within MaxDelay.      *)
(***************************************************************************)
EXTENDS Callers, Naturals

CONSTANTS
    CacheTTL,       \* cs.ttl
    MaxFetchDelay,  \* from source.Get's answer to the return of the flight
    MaxCacheTime,   \* bound of the model: the clock
    MaxChanges      \* bound of the model: changes of each tenant in the source

Versions == 0..MaxChanges
CacheTimes == 0..MaxCacheTime
Expiries == 0..(MaxCacheTime + CacheTTL)
Entries == [ver : Versions, expiresAt : Expiries]

VARIABLES
    source,      \* what the source holds
    replacedAt,  \* history: when the source replaced each version
    cacheNow,    \* the clock
    cache,       \* cs.cache
    flight,      \* cs.group: the leader of the flight of each key
    get,         \* per client: the Get in progress
    returned,    \* history: the newest version a Get has returned
    sparedUntil, \* history: until when the entries last for which a Get has returned
    answer       \* history: per client, the last answer

cachedVars == <<source, replacedAt, cacheNow, cache, flight, get, returned, sparedUntil, answer>>

Answers == [ver : Versions, age : CacheTimes, floor : Versions]
Gets == [pc : {"looked", "fetch", "fill", "finish", "wait"}, id : Tenants,
         entry : Entries \cup {Nil}, ver : Versions, fetchedAt : CacheTimes, floor : Versions,
         spared : Expiries]

\* A negative ttl does what 0 does.
ASSUME CachedAssumption ==
    /\ CacheTTL \in Nat /\ MaxFetchDelay \in Nat /\ MaxCacheTime \in Nat /\ MaxChanges \in Nat
    /\ Nil \notin Gets \cup Entries

CachedTypeOK ==
    /\ source \in [Tenants -> Versions]
    /\ replacedAt \in [Tenants -> [Versions -> CacheTimes]]
    /\ cacheNow \in CacheTimes
    /\ cache \in [Tenants -> Entries \cup {Nil}]
    /\ flight \in [Tenants -> Goroutines \cup {Nil}]
    /\ get \in [Goroutines -> Gets \cup {Nil}]
    /\ returned \in [Tenants -> Versions]
    /\ sparedUntil \in [Tenants -> Expiries]
    /\ answer \in [Goroutines -> Answers \cup {Nil}]

CachedInit ==
    /\ source = [id \in Tenants |-> 0]
    /\ replacedAt = [id \in Tenants |-> [v \in Versions |-> 0]]
    /\ cacheNow = 0
    /\ cache = [id \in Tenants |-> Nil]
    /\ flight = [id \in Tenants |-> Nil]
    /\ get = [c \in Goroutines |-> Nil]
    /\ returned = [id \in Tenants |-> 0]
    /\ sparedUntil = [id \in Tenants |-> 0]
    /\ answer = [c \in Goroutines |-> Nil]

At(c, pc) == c # Nil /\ get[c] # Nil /\ get[c].pc = pc

\* Client c goes on to pc, knowing that the source held ver at fetchedAt.
Proceed(c, pc, ver, fetchedAt) ==
    get' = [get EXCEPT ![c] = [pc |-> pc, id |-> get[c].id, entry |-> get[c].entry,
                               ver |-> ver, fetchedAt |-> fetchedAt, floor |-> get[c].floor,
                               spared |-> get[c].spared]]

-----------------------------------------------------------------------------
\* Somebody changes the tenant in the source.
Change(id) ==
    /\ source[id] < MaxChanges
    /\ source' = [source EXCEPT ![id] = @ + 1]
    /\ replacedAt' = [replacedAt EXCEPT ![id][source[id]] = cacheNow]
    /\ UNCHANGED <<cacheNow, cache, flight, get, returned, sparedUntil, answer>>

CacheTick ==
    /\ cacheNow < MaxCacheTime
    /\ \A c \in Goroutines : At(c, "fill") \/ At(c, "finish") => cacheNow < get[c].fetchedAt + MaxFetchDelay
    /\ cacheNow' = cacheNow + 1
    /\ UNCHANGED <<source, replacedAt, cache, flight, get, returned, sparedUntil, answer>>

-----------------------------------------------------------------------------
\* Get: the lookup under the read lock.
Lookup(c, id) ==
    /\ get[c] = Nil
    /\ get' = [get EXCEPT ![c] = [pc |-> "looked", id |-> id, entry |-> cache[id],
                                  ver |-> 0, fetchedAt |-> 0, floor |-> returned[id],
                                  spared |-> sparedUntil[id]]]
    /\ answer' = [answer EXCEPT ![c] = Nil]
    /\ UNCHANGED <<source, replacedAt, cacheNow, cache, flight, returned, sparedUntil>>

Fresh_Forever(e) == e # Nil
\* found && time.Now().Before(entry.expiresAt).
Fresh(e) == e # Nil /\ cacheNow < e.expiresAt

\* For how long version v of a tenant has no longer been the source's.
Age(id, v) == IF v = source[id] THEN 0 ELSE cacheNow - replacedAt[id][v]

\* The Get calls of the clients in S return version v of the tenant, whose entry
\* is good until the time given.
Return(S, id, v, until) ==
    /\ answer' = [c \in Goroutines |->
                     IF c \in S THEN [ver |-> v, age |-> Age(id, v), floor |-> get[c].floor]
                     ELSE answer[c]]
    /\ returned' = [returned EXCEPT ![id] = IF v > @ THEN v ELSE @]
    /\ sparedUntil' = [sparedUntil EXCEPT ![id] = IF until > @ THEN until ELSE @]
    /\ get' = [c \in Goroutines |-> IF c \in S THEN Nil ELSE get[c]]

\* Get: a hit returns the entry that was looked up.
Hit(c) ==
    /\ At(c, "looked")
    /\ Fresh(get[c].entry)
    /\ Return({c}, get[c].id, get[c].entry.ver, get[c].entry.expiresAt)
    /\ UNCHANGED <<source, replacedAt, cacheNow, cache, flight>>

Miss_NotShared(c) ==
    /\ At(c, "looked")
    /\ ~Fresh(get[c].entry)
    /\ flight' = [flight EXCEPT ![get[c].id] = c]
    /\ Proceed(c, "fetch", 0, 0)
    /\ UNCHANGED <<source, replacedAt, cacheNow, cache, returned, sparedUntil, answer>>

\* Get: cs.group.Do starts a flight for the key, or joins the one in progress.
Miss(c) ==
    /\ At(c, "looked")
    /\ ~Fresh(get[c].entry)
    /\ \/ /\ flight[get[c].id] = Nil
          /\ flight' = [flight EXCEPT ![get[c].id] = c]
          /\ Proceed(c, "fetch", 0, 0)
       \/ /\ flight[get[c].id] # Nil
          /\ Proceed(c, "wait", 0, 0)
          /\ UNCHANGED flight
    /\ UNCHANGED <<source, replacedAt, cacheNow, cache, returned, sparedUntil, answer>>

\* Do, of singleflight.Group: the result of c's flight, an answer or an error,
\* goes to its leader and to all who joined.
Passengers(c) == {c} \cup {d \in Goroutines : At(d, "wait") /\ get[d].id = get[c].id}

\* The function given to Do: source.Get answers.
Fetch(c) ==
    /\ At(c, "fetch")
    /\ Proceed(c, "fill", source[get[c].id], cacheNow)
    /\ UNCHANGED <<source, replacedAt, cacheNow, cache, flight, returned, sparedUntil, answer>>

\* The function given to Do: source.Get fails (unknown tenant, the source's own
\* error, or the leader's context is done): nothing is cached, and Get returns
\* the error that Do gives it.
FetchFails(c) ==
    /\ At(c, "fetch")
    /\ flight' = [flight EXCEPT ![get[c].id] = Nil]
    /\ get' = [d \in Goroutines |-> IF d \in Passengers(c) THEN Nil ELSE get[d]]
    /\ UNCHANGED <<source, replacedAt, cacheNow, cache, returned, sparedUntil, answer>>

Fill_KeepsExpiry(c) ==
    /\ At(c, "fill")
    /\ cache' = [cache EXCEPT ![get[c].id] =
                    [ver |-> get[c].ver, expiresAt |-> IF @ = Nil THEN cacheNow + CacheTTL ELSE @.expiresAt]]
    /\ Proceed(c, "finish", get[c].ver, get[c].fetchedAt)
    /\ UNCHANGED <<source, replacedAt, cacheNow, flight, returned, sparedUntil, answer>>

\* The function given to Do: store the entry; its life starts here, not when
\* the source was read.
Fill(c) ==
    /\ At(c, "fill")
    /\ cache' = [cache EXCEPT ![get[c].id] = [ver |-> get[c].ver, expiresAt |-> cacheNow + CacheTTL]]
    /\ Proceed(c, "finish", get[c].ver, get[c].fetchedAt)
    /\ UNCHANGED <<source, replacedAt, cacheNow, flight, returned, sparedUntil, answer>>

\* Do returns to the leader and to those who joined.
Finish(c) ==
    /\ At(c, "finish")
    /\ flight' = [flight EXCEPT ![get[c].id] = Nil]
    /\ Return(Passengers(c), get[c].id, get[c].ver, get[c].fetchedAt + CacheTTL)
    /\ UNCHANGED <<source, replacedAt, cacheNow, cache>>

ClientStep(c) == Hit(c) \/ Miss(c) \/ Fetch(c) \/ FetchFails(c) \/ Fill(c) \/ Finish(c)

CachedNext ==
    \/ CacheTick
    \/ \E id \in Tenants : Change(id) \/ \E c \in Goroutines : Lookup(c, id)
    \/ \E c \in Goroutines : ClientStep(c)

CachedSpec == CachedInit /\ [][CachedNext]_cachedVars

-----------------------------------------------------------------------------
\* A Get never returns something older than what a Get that had returned before
\* it began returned, on whichever goroutine: the lookup outside Do, the entry
\* that expires meanwhile and the sharing of flights never turn time back.
NoTimeTravel == \A c \in Goroutines : answer[c] # Nil => answer[c].ver >= answer[c].floor

\* What Get returns was current within the time the source's answer takes to
\* arrive, or it comes from the cache and was current less than ttl before that.
BoundedStaleness ==
    \A c \in Goroutines : answer[c] # Nil =>
       answer[c].age <= MaxFetchDelay \/ answer[c].age < CacheTTL + MaxFetchDelay

\* The cache spares the source, although the lookup is outside Do and entries
\* expire while a Get looks at them: of two Gets one after the other, the second
\* asks the source only when ttl has passed since the first one's answer was
\* fetched, or the entry that it hit has expired.  Only Gets that overlap can
\* ask more often.
SourceSpared == \A c \in Goroutines : At(c, "fetch") => get[c].spared <= cacheNow

=============================================================================
