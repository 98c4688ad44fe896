------------------------- MODULE CachedStoreProofs -------------------------
(***************************************************************************)
(* Proofs about CachedStore, for any number of goroutines and tenants and  *)
(* every time to live and delay.                                           *)
(***************************************************************************)
EXTENDS CachedStore, TLAPS

\* A leaf is tried with Zenon first; SMT marks those that need arithmetic or the
\* theory of functions, records and sequences.
USE Zenon, SMTT(30)

\* Client c runs the flight of the tenant's key.
Leads(c, id) ==
    /\ At(c, "fetch") \/ At(c, "fill") \/ At(c, "finish")
    /\ get[c].id = id

\* A leader is the one singleflight knows of, and whoever waits has a flight.
LeaderOK(c) ==
    /\ \A id \in Tenants : Leads(c, id) => flight[id] = c
    /\ At(c, "wait") => flight[get[c].id] # Nil

\* A flight that singleflight knows of has a leader.
FlightOK(id) == flight[id] # Nil => Leads(flight[id], id)

\* An entry that was in the cache at some time: the cache holds the same or a
\* newer version by now, and its version was current MaxFetchDelay before its
\* life of CacheTTL began or later.
EntryOK(id, e) ==
    /\ e \in Entries
    /\ cache[id] \in Entries /\ e.ver <= cache[id].ver
    /\ e.expiresAt <= cacheNow + CacheTTL
    /\ e.ver = source[id] \/ e.expiresAt <= replacedAt[id][e.ver] + CacheTTL + MaxFetchDelay

\* What has been returned is not newer than what the cache holds.
CacheOK(id) ==
    /\ cache[id] # Nil => EntryOK(id, cache[id]) /\ cache[id].ver <= source[id]
    /\ returned[id] # 0 => cache[id] \in Entries /\ returned[id] <= cache[id].ver
    /\ \A v \in Versions : replacedAt[id][v] <= cacheNow

\* What the leader has fetched was current when it was fetched, and nobody else
\* changes the entry before the leader does.
FetchedOK(c) ==
    LET id == get[c].id
    IN  /\ At(c, "fill") \/ At(c, "finish") =>
             /\ get[c].fetchedAt <= cacheNow /\ cacheNow <= get[c].fetchedAt + MaxFetchDelay
             /\ get[c].ver <= source[id]
             /\ get[c].ver = source[id] \/ get[c].fetchedAt <= replacedAt[id][get[c].ver]
        /\ At(c, "fill") => cache[id] = Nil \/ cache[id].ver <= get[c].ver
        /\ At(c, "finish") => cache[id] \in Entries /\ cache[id].ver = get[c].ver

\* What a Get knows from its lookup.
LookupOK(c) ==
    get[c] # Nil =>
       /\ get[c].floor <= returned[get[c].id]
       /\ get[c].entry # Nil => EntryOK(get[c].id, get[c].entry) /\ get[c].floor <= get[c].entry.ver

AnswerOK(c) ==
    answer[c] # Nil =>
       /\ answer[c].ver >= answer[c].floor
       /\ answer[c].age <= MaxFetchDelay \/ answer[c].age < CacheTTL + MaxFetchDelay

FlightInv == (\A c \in Goroutines : LeaderOK(c)) /\ (\A id \in Tenants : FlightOK(id))
CacheInv == \A id \in Tenants : CacheOK(id)
FetchedInv == \A c \in Goroutines : FetchedOK(c)
LookupInv == \A c \in Goroutines : LookupOK(c)
AnswerInv == \A c \in Goroutines : AnswerOK(c)

\* The inductive invariant of CachedStore.
CachedInv == CachedTypeOK /\ FlightInv /\ CacheInv /\ FetchedInv /\ LookupInv /\ AnswerInv

\* NewCachedStore.
LEMMA CachedInitInv == CachedInit => CachedInv
<1> SUFFICES ASSUME CachedInit PROVE CachedInv
  OBVIOUS
<1>1. CachedTypeOK
  BY CachedAssumption, SMT DEF CachedInit, CachedTypeOK, Versions, CacheTimes, Expiries
<1>2. FlightInv
  BY DEF CachedInit, FlightInv, LeaderOK, FlightOK, Leads, At
<1>3. CacheInv
  BY CachedAssumption, SMT DEF CachedInit, CacheInv, CacheOK, Versions
<1>4. FetchedInv /\ LookupInv
  BY DEF CachedInit, FetchedInv, FetchedOK, LookupInv, LookupOK, At
<1>5. AnswerInv
  BY DEF CachedInit, AnswerInv, AnswerOK
<1> QED
  BY <1>1, <1>2, <1>3, <1>4, <1>5 DEF CachedInv

\* The fields of a Get in progress.
LEMMA GetFields ==
    ASSUME CachedTypeOK, NEW c \in Goroutines, get[c] # Nil
    PROVE  /\ get[c] \in Gets
           /\ get[c].id \in Tenants /\ get[c].entry \in Entries \cup {Nil}
           /\ get[c].ver \in Versions /\ get[c].fetchedAt \in CacheTimes
           /\ get[c].floor \in Versions /\ get[c].spared \in Expiries
  BY DEF CachedTypeOK, Gets

\* The fields of an entry.
LEMMA EntryFields ==
    ASSUME NEW e \in Entries
    PROVE  e.ver \in Nat /\ e.ver \in Versions /\ e.expiresAt \in Nat /\ e.expiresAt \in Expiries
  BY CachedAssumption, SMT DEF Entries, Versions, Expiries

\* Proceed changes pc and what was fetched, of one Get.
LEMMA ProceedStep ==
    ASSUME CachedTypeOK, NEW c \in Goroutines, get[c] # Nil,
           NEW pc \in {"looked", "fetch", "fill", "finish", "wait"},
           NEW ver \in Versions, NEW fetchedAt \in CacheTimes,
           Proceed(c, pc, ver, fetchedAt)
    PROVE  \E r \in Gets :
              /\ get' = [get EXCEPT ![c] = r] /\ r # Nil
              /\ get' \in [Goroutines -> Gets \cup {Nil}]
              /\ r.pc = pc /\ r.id = get[c].id /\ r.entry = get[c].entry /\ r.ver = ver
              /\ r.fetchedAt = fetchedAt /\ r.floor = get[c].floor /\ r.spared = get[c].spared
<1> DEFINE r == [pc |-> pc, id |-> get[c].id, entry |-> get[c].entry,
                 ver |-> ver, fetchedAt |-> fetchedAt, floor |-> get[c].floor, spared |-> get[c].spared]
<1>1. r \in Gets
  BY GetFields DEF Gets
<1>2. get' = [get EXCEPT ![c] = r]
  BY DEF Proceed
<1>3. r.pc = pc /\ r.id = get[c].id /\ r.entry = get[c].entry /\ r.ver = ver
      /\ r.fetchedAt = fetchedAt /\ r.floor = get[c].floor /\ r.spared = get[c].spared
  OBVIOUS
<1> HIDE DEF r
<1>4. r # Nil
  BY <1>1, CachedAssumption
<1>5. get' \in [Goroutines -> Gets \cup {Nil}]
  BY <1>1, <1>2 DEF CachedTypeOK
<1> QED
  BY <1>1, <1>2, <1>3, <1>4, <1>5

\* Lookup starts one Get.
LEMMA LookupStep ==
    ASSUME CachedTypeOK, NEW c \in Goroutines, NEW id \in Tenants, Lookup(c, id)
    PROVE  \E r \in Gets :
              /\ get' = [get EXCEPT ![c] = r] /\ r # Nil
              /\ get' \in [Goroutines -> Gets \cup {Nil}]
              /\ r.pc = "looked" /\ r.id = id /\ r.entry = cache[id] /\ r.floor = returned[id]
              /\ r.spared = sparedUntil[id]
<1> DEFINE r == [pc |-> "looked", id |-> id, entry |-> cache[id],
                 ver |-> 0, fetchedAt |-> 0, floor |-> returned[id], spared |-> sparedUntil[id]]
<1>0. 0 \in Versions /\ 0 \in CacheTimes
  BY CachedAssumption, SMT DEF Versions, CacheTimes
<1>1. r \in Gets
  BY <1>0 DEF Gets, CachedTypeOK
<1>2. get' = [get EXCEPT ![c] = r]
  BY DEF Lookup
<1>3. /\ r.pc = "looked" /\ r.id = id /\ r.entry = cache[id] /\ r.floor = returned[id]
      /\ r.spared = sparedUntil[id]
  OBVIOUS
<1> HIDE DEF r
<1>4. r # Nil
  BY <1>1, CachedAssumption
<1>5. get' \in [Goroutines -> Gets \cup {Nil}]
  BY <1>1, <1>2 DEF CachedTypeOK
<1> QED
  BY <1>1, <1>2, <1>3, <1>4, <1>5

\* The versions and times that the actions write.
LEMMA Zeros == 0 \in Versions /\ 0 \in CacheTimes /\ Versions \subseteq Nat /\ CacheTimes \subseteq Nat
  BY CachedAssumption, SMT DEF Versions, CacheTimes

\* When an entry expires that is stored at some time.
LEMMA ExpiryOK == Expiries \subseteq Nat /\ \A t \in CacheTimes : t + CacheTTL \in Expiries
  BY CachedAssumption, SMT DEF CacheTimes, Expiries

\* The age of a version.
LEMMA AgeOK ==
    ASSUME CachedInv, NEW id \in Tenants, NEW v \in Versions
    PROVE  /\ Age(id, v) \in CacheTimes
           /\ v = source[id] => Age(id, v) = 0
           /\ v # source[id] => Age(id, v) = cacheNow - replacedAt[id][v]
<1>1. replacedAt[id][v] <= cacheNow
  BY DEF CachedInv, CacheInv, CacheOK
<1>2. cacheNow \in CacheTimes /\ replacedAt[id][v] \in CacheTimes
  BY DEF CachedInv, CachedTypeOK
<1> QED
  BY <1>1, <1>2, CachedAssumption, SMT DEF Age, CacheTimes

\* Return ends the Gets in S, and each answers version v.
LEMMA ReturnStep ==
    ASSUME CachedInv, NEW S \in SUBSET Goroutines, NEW id \in Tenants, NEW v \in Versions,
           NEW until \in Expiries, \A c \in S : get[c] # Nil, Return(S, id, v, until)
    PROVE  /\ get' = [c \in Goroutines |-> IF c \in S THEN Nil ELSE get[c]]
           /\ get' \in [Goroutines -> Gets \cup {Nil}]
           /\ returned' = [returned EXCEPT ![id] = IF v > returned[id] THEN v ELSE returned[id]]
           /\ returned' \in [Tenants -> Versions]
           /\ sparedUntil' = [sparedUntil EXCEPT ![id] = IF until > sparedUntil[id] THEN until ELSE sparedUntil[id]]
           /\ sparedUntil' \in [Tenants -> Expiries]
           /\ answer' \in [Goroutines -> Answers \cup {Nil}]
           /\ \A c \in Goroutines \ S : answer'[c] = answer[c]
           /\ \A c \in S : /\ answer'[c].ver = v /\ answer'[c].age = Age(id, v)
                           /\ answer'[c].floor = get[c].floor
<1> DEFINE a(c) == [ver |-> v, age |-> Age(id, v), floor |-> get[c].floor]
<1>0. CachedTypeOK
  BY DEF CachedInv
<1>1. ASSUME NEW c \in S PROVE a(c) \in Answers
  <2>1. get[c].floor \in Versions
    BY <1>0, GetFields
  <2> QED
    BY <2>1, AgeOK DEF Answers
<1>2. ASSUME NEW c \in S PROVE a(c).ver = v /\ a(c).age = Age(id, v) /\ a(c).floor = get[c].floor
  OBVIOUS
<1>3. answer' = [c \in Goroutines |-> IF c \in S THEN a(c) ELSE answer[c]]
  BY DEF Return
<1>4. get' = [c \in Goroutines |-> IF c \in S THEN Nil ELSE get[c]]
  BY DEF Return
<1>5. returned' = [returned EXCEPT ![id] = IF v > returned[id] THEN v ELSE returned[id]]
  BY DEF Return
<1> HIDE DEF a
<1>6. answer' \in [Goroutines -> Answers \cup {Nil}]
  BY <1>0, <1>1, <1>3 DEF CachedTypeOK
<1>7. \A c \in Goroutines \ S : answer'[c] = answer[c]
  BY <1>3
<1>8. ASSUME NEW c \in S
      PROVE  answer'[c].ver = v /\ answer'[c].age = Age(id, v) /\ answer'[c].floor = get[c].floor
  <2>1. answer'[c] = a(c)
    BY <1>3
  <2> QED
    BY <2>1, <1>2
<1>9. get' \in [Goroutines -> Gets \cup {Nil}]
  BY <1>0, <1>4 DEF CachedTypeOK
<1>10. returned' \in [Tenants -> Versions]
  BY <1>0, <1>5 DEF CachedTypeOK
<1>11. sparedUntil' = [sparedUntil EXCEPT ![id] = IF until > sparedUntil[id] THEN until ELSE sparedUntil[id]]
  BY DEF Return
<1>12. sparedUntil' \in [Tenants -> Expiries]
  BY <1>0, <1>11 DEF CachedTypeOK
<1> QED
  BY <1>4, <1>5, <1>6, <1>7, <1>8, <1>9, <1>10, <1>11, <1>12

\* What a hit does.
LEMMA HitStep ==
    ASSUME CachedInv, NEW c \in Goroutines, Hit(c)
    PROVE  LET e == get[c].entry IN
           /\ get[c] # Nil /\ e # Nil /\ e \in Entries /\ get[c].id \in Tenants
           /\ cacheNow < e.expiresAt
           /\ get' = [d \in Goroutines |-> IF d = c THEN Nil ELSE get[d]]
           /\ get' \in [Goroutines -> Gets \cup {Nil}]
           /\ returned' = [returned EXCEPT ![get[c].id] = IF e.ver > returned[get[c].id] THEN e.ver ELSE returned[get[c].id]]
           /\ returned' \in [Tenants -> Versions]
           /\ sparedUntil' = [sparedUntil EXCEPT ![get[c].id] =
                               IF e.expiresAt > sparedUntil[get[c].id] THEN e.expiresAt ELSE sparedUntil[get[c].id]]
           /\ sparedUntil' \in [Tenants -> Expiries]
           /\ answer' \in [Goroutines -> Answers \cup {Nil}]
           /\ \A d \in Goroutines : d # c => answer'[d] = answer[d]
           /\ answer'[c].ver = e.ver /\ answer'[c].age = Age(get[c].id, e.ver)
           /\ answer'[c].floor = get[c].floor
<1> DEFINE e == get[c].entry
<1>1. get[c] # Nil /\ e # Nil /\ cacheNow < e.expiresAt /\ Return({c}, get[c].id, e.ver, e.expiresAt)
  BY DEF Hit, At, Fresh
<1>2. e \in Entries /\ get[c].id \in Tenants
  BY <1>1, GetFields DEF CachedInv
<1>3. e.ver \in Versions /\ e.expiresAt \in Expiries
  BY <1>2, EntryFields
<1>4. {c} \in SUBSET Goroutines /\ \A d \in {c} : get[d] # Nil
  BY <1>1
<1> HIDE DEF e
<1>5. /\ get' = [d \in Goroutines |-> IF d \in {c} THEN Nil ELSE get[d]]
      /\ get' \in [Goroutines -> Gets \cup {Nil}]
      /\ returned' = [returned EXCEPT ![get[c].id] = IF e.ver > returned[get[c].id] THEN e.ver ELSE returned[get[c].id]]
      /\ returned' \in [Tenants -> Versions]
      /\ sparedUntil' = [sparedUntil EXCEPT ![get[c].id] =
                          IF e.expiresAt > sparedUntil[get[c].id] THEN e.expiresAt ELSE sparedUntil[get[c].id]]
      /\ sparedUntil' \in [Tenants -> Expiries]
      /\ answer' \in [Goroutines -> Answers \cup {Nil}]
      /\ \A d \in Goroutines \ {c} : answer'[d] = answer[d]
      /\ \A d \in {c} : /\ answer'[d].ver = e.ver /\ answer'[d].age = Age(get[c].id, e.ver)
                        /\ answer'[d].floor = get[d].floor
  BY <1>1, <1>2, <1>3, <1>4, ReturnStep
<1> QED
  BY <1>1, <1>2, <1>5 DEF e

\* Who gets the result of a flight: its leader, and whoever waits for the key.
LEMMA PassengersOK ==
    ASSUME CachedTypeOK, NEW c \in Goroutines, get[c] # Nil
    PROVE  /\ Passengers(c) \in SUBSET Goroutines /\ c \in Passengers(c)
           /\ \A d \in Passengers(c) : get[d] # Nil /\ get[d].id = get[c].id
           /\ \A d \in Passengers(c) : d = c \/ At(d, "wait")
           /\ \A d \in Goroutines : At(d, "wait") /\ get[d].id = get[c].id => d \in Passengers(c)
  BY DEF Passengers, At

\* The steps of CachedStore.
CachedStep(c) ==
    Hit(c) \/ Miss(c) \/ Fetch(c) \/ FetchFails(c) \/ Fill(c)
    \/ Finish(c) \/ \E id \in Tenants : Lookup(c, id)

\* A step is a tick, a change of a tenant, or a step of one goroutine.
LEMMA CachedCases ==
    CachedNext => \/ CacheTick
                  \/ \E id \in Tenants : Change(id)
                  \/ \E c \in Goroutines : CachedStep(c)
  BY DEF CachedNext, ClientStep, CachedStep

\* Every step keeps the types.
LEMMA CachedTypeInv == CachedInv /\ CachedNext => CachedTypeOK'
<1> SUFFICES ASSUME CachedInv, CachedNext PROVE CachedTypeOK'
  OBVIOUS
<1>0. CachedTypeOK
  BY DEF CachedInv
<1>1. ASSUME CacheTick PROVE CachedTypeOK'
  BY <1>0, <1>1, CachedAssumption, SMT DEF CacheTick, CachedTypeOK, CacheTimes
<1>2. ASSUME NEW id \in Tenants, Change(id) PROVE CachedTypeOK'
  <2>1. source' \in [Tenants -> Versions]
    BY <1>0, <1>2, CachedAssumption, SMT DEF Change, CachedTypeOK, Versions
  <2>2. replacedAt' \in [Tenants -> [Versions -> CacheTimes]]
    BY <1>0, <1>2 DEF Change, CachedTypeOK
  <2> QED
    BY <1>0, <1>2, <2>1, <2>2 DEF Change, CachedTypeOK
<1>3. ASSUME NEW c \in Goroutines, CachedStep(c) PROVE CachedTypeOK'
  <2>1. ASSUME NEW id \in Tenants, Lookup(c, id) PROVE CachedTypeOK'
    <3>1. get' \in [Goroutines -> Gets \cup {Nil}]
      BY <1>0, <2>1, LookupStep
    <3> QED
      BY <1>0, <2>1, <3>1 DEF Lookup, CachedTypeOK
  <2>2. ASSUME Hit(c) PROVE CachedTypeOK'
    <3>4. /\ get' \in [Goroutines -> Gets \cup {Nil}]
          /\ returned' \in [Tenants -> Versions] /\ sparedUntil' \in [Tenants -> Expiries]
          /\ answer' \in [Goroutines -> Answers \cup {Nil}]
      BY <2>2, HitStep
    <3> QED
      BY <1>0, <2>2, <3>4 DEF Hit, CachedTypeOK
  <2>3. ASSUME Miss(c) PROVE CachedTypeOK'
    <3>1. get[c] # Nil /\ (Proceed(c, "fetch", 0, 0) \/ Proceed(c, "wait", 0, 0))
      BY <2>3 DEF Miss, At
    <3>2. get' \in [Goroutines -> Gets \cup {Nil}]
      BY <1>0, <3>1, ProceedStep, Zeros
    <3>3. flight' \in [Tenants -> Goroutines \cup {Nil}]
      BY <1>0, <2>3 DEF Miss, CachedTypeOK
    <3> QED
      BY <1>0, <2>3, <3>2, <3>3 DEF Miss, CachedTypeOK
  <2>4. ASSUME Fetch(c) PROVE CachedTypeOK'
    <3>1. get[c] # Nil /\ Proceed(c, "fill", source[get[c].id], cacheNow)
      BY <2>4 DEF Fetch, At
    <3>2. source[get[c].id] \in Versions /\ cacheNow \in CacheTimes
      BY <1>0, <3>1, GetFields DEF CachedTypeOK
    <3>3. get' \in [Goroutines -> Gets \cup {Nil}]
      BY <1>0, <3>1, <3>2, ProceedStep
    <3> QED
      BY <1>0, <2>4, <3>3 DEF Fetch, CachedTypeOK
  <2>5. ASSUME FetchFails(c) PROVE CachedTypeOK'
    BY <1>0, <2>5 DEF FetchFails, CachedTypeOK
  <2>6. ASSUME Fill(c) PROVE CachedTypeOK'
    <3>1. get[c] # Nil /\ Proceed(c, "finish", get[c].ver, get[c].fetchedAt)
      BY <2>6 DEF Fill, At
    <3>2. get' \in [Goroutines -> Gets \cup {Nil}]
      BY <1>0, <3>1, GetFields, ProceedStep
    <3>3. [ver |-> get[c].ver, expiresAt |-> cacheNow + CacheTTL] \in Entries
      BY <1>0, <3>1, GetFields, CachedAssumption, SMT DEF Entries, Expiries, CachedTypeOK, CacheTimes
    <3>4. cache' \in [Tenants -> Entries \cup {Nil}]
      BY <1>0, <2>6, <3>3 DEF Fill, CachedTypeOK
    <3> QED
      BY <1>0, <2>6, <3>2, <3>4 DEF Fill, CachedTypeOK
  <2>7. ASSUME Finish(c) PROVE CachedTypeOK'
    <3>1. get[c] # Nil /\ Return(Passengers(c), get[c].id, get[c].ver, get[c].fetchedAt + CacheTTL)
      BY <2>7 DEF Finish, At
    <3>2. /\ get[c].id \in Tenants /\ get[c].ver \in Versions
          /\ get[c].fetchedAt + CacheTTL \in Expiries
      BY <1>0, <3>1, GetFields, ExpiryOK
    <3>3. /\ get' \in [Goroutines -> Gets \cup {Nil}]
          /\ returned' \in [Tenants -> Versions] /\ sparedUntil' \in [Tenants -> Expiries]
          /\ answer' \in [Goroutines -> Answers \cup {Nil}]
      BY <1>0, <3>1, <3>2, PassengersOK, ReturnStep
    <3>4. flight' \in [Tenants -> Goroutines \cup {Nil}]
      BY <1>0, <2>7 DEF Finish, CachedTypeOK
    <3> QED
      BY <1>0, <2>7, <3>3, <3>4 DEF Finish, CachedTypeOK
  <2> QED
    BY <1>3, <2>1, <2>2, <2>3, <2>4, <2>5, <2>6, <2>7 DEF CachedStep
<1> QED
  BY <1>1, <1>2, <1>3, CachedCases

\* A step that leaves the leaders and the flights alone.
LEMMA FlightSame ==
    ASSUME CachedTypeOK, CachedTypeOK', FlightInv, NEW c \in Goroutines,
           flight' = flight,
           \A d \in Goroutines : d # c => get'[d] = get[d],
           get[c] = Nil \/ At(c, "looked"),
           get'[c] = Nil \/ get'[c].pc = "looked" \/ (get'[c].pc = "wait" /\ flight[get'[c].id] # Nil)
    PROVE  FlightInv'
<1>1. ASSUME NEW d \in Goroutines PROVE LeaderOK(d)'
  BY <1>1, SMT DEF FlightInv, LeaderOK, Leads, At
<1>2. ASSUME NEW id \in Tenants PROVE FlightOK(id)'
  <2>1. flight[id] # Nil => flight[id] # c /\ flight[id] \in Goroutines
    BY SMT DEF FlightInv, FlightOK, Leads, At, CachedTypeOK
  <2> QED
    BY <2>1, SMT DEF FlightInv, FlightOK, Leads, At
<1> QED
  BY <1>1, <1>2 DEF FlightInv

\* A leader goes on.
LEMMA FlightGoesOn ==
    ASSUME CachedTypeOK, FlightInv, NEW c \in Goroutines, NEW r \in Gets, r # Nil,
           get' = [get EXCEPT ![c] = r], flight' = flight,
           Leads(c, get[c].id), r.id = get[c].id, r.pc \in {"fetch", "fill", "finish"}
    PROVE  FlightInv'
<1>1. ASSUME NEW d \in Goroutines PROVE LeaderOK(d)'
  BY <1>1, SMT DEF FlightInv, LeaderOK, Leads, At, CachedTypeOK
<1>2. ASSUME NEW id \in Tenants PROVE FlightOK(id)'
  BY SMT DEF FlightInv, FlightOK, Leads, At, CachedTypeOK
<1> QED
  BY <1>1, <1>2 DEF FlightInv

\* A flight ends, and with it the Gets of all who wait for it.
LEMMA FlightEnds ==
    ASSUME CachedTypeOK, FlightInv, NEW c \in Goroutines, get[c] # Nil,
           get' = [d \in Goroutines |-> IF d \in Passengers(c) THEN Nil ELSE get[d]],
           flight' = [flight EXCEPT ![get[c].id] = Nil],
           Leads(c, get[c].id)
    PROVE  FlightInv'
<1>0. get[c].id \in Tenants
  BY GetFields
<1>1. ASSUME NEW d \in Goroutines PROVE LeaderOK(d)'
  <2>1. CASE d \in Passengers(c)
    BY <2>1 DEF LeaderOK, Leads, At
  <2>2. CASE d \notin Passengers(c)
    <3>1. get'[d] = get[d] /\ d # c /\ (At(d, "wait") => get[d].id # get[c].id)
      BY <2>2, PassengersOK
    <3>2. LeaderOK(d) /\ LeaderOK(c)
      BY DEF FlightInv
    <3>3. ASSUME get[d] # Nil PROVE get[d].id \in Tenants
      BY <3>3, GetFields
    <3> QED
      BY <1>0, <3>1, <3>2, <3>3, SMT DEF LeaderOK, Leads, At, CachedTypeOK
  <2> QED
    BY <2>1, <2>2
<1>2. ASSUME NEW id \in Tenants, id # get[c].id PROVE FlightOK(id)'
  <2>1. FlightOK(id) /\ flight'[id] = flight[id] /\ flight[id] \in Goroutines \cup {Nil}
    BY <1>2 DEF FlightInv, CachedTypeOK
  <2>2. ASSUME flight[id] # Nil PROVE flight[id] \notin Passengers(c)
    BY <1>2, <2>1, <2>2, PassengersOK DEF FlightOK, Leads, At
  <2> QED
    BY <2>1, <2>2 DEF FlightOK, Leads, At
<1>3. ASSUME NEW id \in Tenants, id = get[c].id PROVE FlightOK(id)'
  BY <1>3 DEF FlightOK, CachedTypeOK
<1> QED
  BY <1>1, <1>2, <1>3 DEF FlightInv

\* No step leaves a waiter without a leader or a key with two flights.
LEMMA CachedFlightInv == CachedInv /\ CachedNext => FlightInv'
<1> SUFFICES ASSUME CachedInv, CachedNext PROVE FlightInv'
  OBVIOUS
<1>0. CachedTypeOK /\ CachedTypeOK' /\ FlightInv
  BY CachedTypeInv DEF CachedInv
<1>1. ASSUME get' = get, flight' = flight PROVE FlightInv'
  <2>1. ASSUME NEW d \in Goroutines PROVE LeaderOK(d)'
    BY <1>0, <1>1 DEF FlightInv, LeaderOK, Leads, At
  <2>2. ASSUME NEW id \in Tenants PROVE FlightOK(id)'
    BY <1>0, <1>1 DEF FlightInv, FlightOK, Leads, At
  <2> QED
    BY <2>1, <2>2 DEF FlightInv
<1>2. ASSUME NEW c \in Goroutines, CachedStep(c) PROVE FlightInv'
  <2>1. ASSUME NEW id \in Tenants, Lookup(c, id) PROVE FlightInv'
    <3>1. get[c] = Nil /\ flight' = flight
      BY <2>1 DEF Lookup
    <3>2. PICK r \in Gets : get' = [get EXCEPT ![c] = r] /\ r.pc = "looked"
      BY <1>0, <2>1, LookupStep, SMT
    <3>3. get'[c].pc = "looked" /\ \A d \in Goroutines : d # c => get'[d] = get[d]
      BY <1>0, <3>2 DEF CachedTypeOK
    <3> QED
      BY <1>0, <3>1, <3>3, FlightSame
  <2>2. ASSUME Hit(c) PROVE FlightInv'
    <3>1. At(c, "looked") /\ flight' = flight
      BY <2>2 DEF Hit
    <3>2. get'[c] = Nil /\ \A d \in Goroutines : d # c => get'[d] = get[d]
      BY <2>2, HitStep, SMT
    <3> QED
      BY <1>0, <3>1, <3>2, FlightSame
  <2>3. ASSUME Miss(c) PROVE FlightInv'
    <3>1. At(c, "looked") /\ get[c] # Nil
      BY <2>3 DEF Miss, At
    <3>2. get[c].id \in Tenants
      BY <1>0, <3>1, GetFields
    <3>3. CASE flight[get[c].id] # Nil
      <4>1. Proceed(c, "wait", 0, 0) /\ flight' = flight
        BY <2>3, <3>3 DEF Miss
      <4>2. PICK r \in Gets : get' = [get EXCEPT ![c] = r] /\ r.pc = "wait" /\ r.id = get[c].id
        BY <1>0, <3>1, <4>1, ProceedStep, Zeros, SMT
      <4>3. get'[c] = r /\ \A d \in Goroutines : d # c => get'[d] = get[d]
        BY <1>0, <4>2 DEF CachedTypeOK
      <4> QED
        BY <1>0, <3>1, <3>3, <4>1, <4>2, <4>3, FlightSame, SMT
    <3>4. CASE flight[get[c].id] = Nil
      <4>1. Proceed(c, "fetch", 0, 0) /\ flight' = [flight EXCEPT ![get[c].id] = c]
        BY <2>3, <3>4 DEF Miss
      <4>2. PICK r \in Gets : /\ get' = [get EXCEPT ![c] = r] /\ r # Nil
                              /\ r.pc = "fetch" /\ r.id = get[c].id
        BY <1>0, <3>1, <4>1, ProceedStep, Zeros, SMT
      <4>3. ASSUME NEW d \in Goroutines PROVE LeaderOK(d)'
        <5>1. CASE d = c
          BY <1>0, <3>2, <4>1, <4>2, <5>1 DEF LeaderOK, Leads, At, CachedTypeOK
        <5>2. CASE d # c
          <6>1. LeaderOK(d) /\ get'[d] = get[d]
            BY <1>0, <4>2, <5>2, SMT DEF FlightInv
          <6> QED
            BY <1>0, <3>2, <3>4, <4>1, <5>2, <6>1, CallersAssumption, SMT
            DEF LeaderOK, Leads, At, CachedTypeOK
        <5> QED
          BY <5>1, <5>2
      <4>4. ASSUME NEW id \in Tenants PROVE FlightOK(id)'
        <5>1. FlightOK(id)
          BY <1>0 DEF FlightInv
        <5> QED
          BY <1>0, <3>1, <3>2, <3>4, <4>1, <4>2, <5>1, CallersAssumption
          DEF FlightOK, Leads, At, CachedTypeOK
      <4> QED
        BY <4>3, <4>4 DEF FlightInv
    <3> QED
      BY <3>3, <3>4
  <2>4. ASSUME Fetch(c) PROVE FlightInv'
    <3>1. /\ get[c] # Nil /\ Leads(c, get[c].id) /\ flight' = flight
          /\ Proceed(c, "fill", source[get[c].id], cacheNow)
      BY <2>4 DEF Fetch, At, Leads
    <3>2. source[get[c].id] \in Versions /\ cacheNow \in CacheTimes
      BY <1>0, <3>1, GetFields DEF CachedTypeOK
    <3>3. PICK r \in Gets : /\ get' = [get EXCEPT ![c] = r] /\ r # Nil
                            /\ r.pc = "fill" /\ r.id = get[c].id
      BY <1>0, <3>1, <3>2, ProceedStep, SMT
    <3> QED
      BY <1>0, <3>1, <3>3, FlightGoesOn
  <2>5. ASSUME FetchFails(c) PROVE FlightInv'
    <3>1. Leads(c, get[c].id) /\ get[c] # Nil
      BY <2>5 DEF FetchFails, At, Leads
    <3>2. /\ get' = [d \in Goroutines |-> IF d \in Passengers(c) THEN Nil ELSE get[d]]
          /\ flight' = [flight EXCEPT ![get[c].id] = Nil]
      BY <2>5 DEF FetchFails
    <3> QED
      BY <1>0, <3>1, <3>2, FlightEnds
  <2>6. ASSUME Fill(c) PROVE FlightInv'
    <3>1. /\ get[c] # Nil /\ Leads(c, get[c].id) /\ flight' = flight
          /\ Proceed(c, "finish", get[c].ver, get[c].fetchedAt)
      BY <2>6 DEF Fill, At, Leads
    <3>2. get[c].ver \in Versions /\ get[c].fetchedAt \in CacheTimes
      BY <1>0, <3>1, GetFields
    <3>3. PICK r \in Gets : /\ get' = [get EXCEPT ![c] = r] /\ r # Nil
                            /\ r.pc = "finish" /\ r.id = get[c].id
      BY <1>0, <3>1, <3>2, ProceedStep, SMT
    <3> QED
      BY <1>0, <3>1, <3>3, FlightGoesOn
  <2>7. ASSUME Finish(c) PROVE FlightInv'
    <3>1. Leads(c, get[c].id) /\ get[c] # Nil
      BY <2>7 DEF Finish, At, Leads
    <3>2. /\ get' = [d \in Goroutines |-> IF d \in Passengers(c) THEN Nil ELSE get[d]]
          /\ flight' = [flight EXCEPT ![get[c].id] = Nil]
      BY <2>7 DEF Finish, Return
    <3> QED
      BY <1>0, <3>1, <3>2, FlightEnds
  <2> QED
    BY <1>2, <2>1, <2>2, <2>3, <2>4, <2>5, <2>6, <2>7 DEF CachedStep
<1>3. ASSUME NEW id \in Tenants, Change(id) PROVE FlightInv'
  BY <1>1, <1>3 DEF Change
<1>4. ASSUME CacheTick PROVE FlightInv'
  BY <1>1, <1>4 DEF CacheTick
<1> QED
  BY <1>2, <1>3, <1>4, CachedCases

\* Only Change touches the source, and only Tick the clock.
LEMMA SourceSame ==
    ASSUME CachedNext, NEW d \in Goroutines, CachedStep(d)
    PROVE  source' = source /\ replacedAt' = replacedAt /\ cacheNow' = cacheNow
  BY DEF CachedStep, Lookup, Hit, Miss, Fetch, FetchFails,
         Fill, Finish

\* A version that is current stays so or is replaced now.
LEMMA VersionsKept ==
    ASSUME CachedInv, CachedNext, NEW id \in Tenants, NEW v \in Versions
    PROVE  /\ cacheNow \in Nat /\ cacheNow' \in Nat /\ cacheNow <= cacheNow'
           /\ replacedAt[id][v] \in Nat /\ replacedAt'[id][v] \in Nat
           /\ source[id] \in Nat /\ source'[id] \in Nat /\ source[id] <= source'[id]
           /\ v = source[id] => v = source'[id] \/ replacedAt'[id][v] = cacheNow
           /\ replacedAt'[id][v] = replacedAt[id][v] \/ (v = source[id] /\ replacedAt'[id][v] = cacheNow)
<1>0. CachedTypeOK /\ CachedTypeOK'
  BY CachedTypeInv DEF CachedInv
<1>1. /\ cacheNow \in Nat /\ cacheNow' \in Nat
      /\ replacedAt[id][v] \in Nat /\ replacedAt'[id][v] \in Nat
      /\ source[id] \in Nat /\ source'[id] \in Nat
  BY <1>0, Zeros, ZenonT(30) DEF CachedTypeOK
<1>2. ASSUME CacheTick PROVE source' = source /\ replacedAt' = replacedAt /\ cacheNow' = cacheNow + 1
  BY <1>2 DEF CacheTick
<1>3. ASSUME NEW i \in Tenants, Change(i)
      PROVE  /\ cacheNow' = cacheNow /\ source[id] <= source'[id]
             /\ v = source[id] => v = source'[id] \/ replacedAt'[id][v] = cacheNow
             /\ replacedAt'[id][v] = replacedAt[id][v] \/ (v = source[id] /\ replacedAt'[id][v] = cacheNow)
  BY <1>0, <1>1, <1>3, SMT DEF Change, CachedTypeOK
<1> QED
  BY <1>1, <1>2, <1>3, SourceSame, CachedCases, SMT

\* Only Fill changes an entry, and only to the same or a newer version.
LEMMA EntriesKept ==
    ASSUME CachedInv, CachedNext, NEW id \in Tenants
    PROVE  \/ cache'[id] = cache[id]
           \/ cache'[id] \in Entries /\ (cache[id] \in Entries => cache[id].ver <= cache'[id].ver)
<1>0. CachedTypeOK /\ CachedTypeOK'
  BY CachedTypeInv DEF CachedInv
<1>1. CASE cache' = cache
  BY <1>1
<1>2. ASSUME NEW c \in Goroutines, Fill(c)
      PROVE  \/ cache'[id] = cache[id]
             \/ /\ cache'[id] \in Entries
                /\ cache[id] \in Entries => cache[id].ver <= cache'[id].ver
  <2>1. /\ At(c, "fill") /\ get[c] # Nil
        /\ cache' = [cache EXCEPT ![get[c].id] = [ver |-> get[c].ver, expiresAt |-> cacheNow + CacheTTL]]
    BY <1>2 DEF Fill, At
  <2>2. get[c].id \in Tenants /\ get[c].ver \in Versions
    BY <1>0, <2>1, GetFields
  <2>3. FetchedOK(c)
    BY DEF CachedInv, FetchedInv
  <2>4. CASE id # get[c].id
    BY <1>0, <2>1, <2>4 DEF CachedTypeOK
  <2>5. CASE id = get[c].id
    <3>1. cache'[id] = [ver |-> get[c].ver, expiresAt |-> cacheNow + CacheTTL]
      BY <1>0, <2>1, <2>2, <2>5 DEF CachedTypeOK
    <3>2. cache'[id] \in Entries
      BY <1>0, <2>2, <3>1, CachedAssumption, SMT DEF Entries, Expiries, CachedTypeOK, CacheTimes
    <3>3. cache'[id].ver = get[c].ver
      BY <3>1, SMT
    <3>4. cache[id] = Nil \/ cache[id].ver <= get[c].ver
      BY <2>1, <2>3, <2>5 DEF FetchedOK
    <3>5. CASE cache[id] = Nil
      BY <3>2, <3>3, <3>4, <3>5, <2>2, Zeros, CachedAssumption
    <3> QED
      BY <3>2, <3>3, <3>4, <3>5
  <2> QED
    BY <2>4, <2>5
<1>3. ASSUME NEW c \in Goroutines, CachedStep(c) PROVE Fill(c) \/ cache' = cache
  BY <1>3 DEF CachedStep, Lookup, Hit, Miss, Fetch, FetchFails, Finish
<1>4. CacheTick \/ (\E i \in Tenants : Change(i)) => cache' = cache
  BY DEF CacheTick, Change
<1> QED
  BY <1>1, <1>2, <1>3, <1>4, CachedCases

\* What was said of an entry remains true.
LEMMA EntryKept ==
    ASSUME CachedInv, CachedNext, NEW id \in Tenants, NEW e, EntryOK(id, e)
    PROVE  EntryOK(id, e)'
<1>1. e \in Entries /\ e.ver \in Versions /\ e.ver \in Nat /\ e.expiresAt \in Nat
  BY EntryFields DEF EntryOK
<1>2. cache'[id] \in Entries /\ e.ver <= cache'[id].ver
  <2>1. cache[id] \in Entries /\ e.ver <= cache[id].ver
    BY DEF EntryOK
  <2>2. cache'[id] \in Entries /\ cache[id].ver <= cache'[id].ver
    BY <2>1, EntriesKept, EntryFields, SMT
  <2> QED
    BY <1>1, <2>1, <2>2, EntryFields, SMT
<1>3. e.expiresAt <= cacheNow' + CacheTTL
  BY <1>1, VersionsKept, CachedAssumption, SMT DEF EntryOK
<1>4. e.ver = source'[id] \/ e.expiresAt <= replacedAt'[id][e.ver] + CacheTTL + MaxFetchDelay
  BY <1>1, VersionsKept, CachedAssumption, SMT DEF EntryOK
<1> QED
  BY <1>1, <1>2, <1>3, <1>4 DEF EntryOK

\* What the end of a flight does.
LEMMA FinishStep ==
    ASSUME CachedInv, NEW c \in Goroutines, Finish(c)
    PROVE  LET id == get[c].id
               v == get[c].ver
           IN
           /\ At(c, "finish") /\ get[c] # Nil /\ id \in Tenants /\ v \in Versions
           /\ returned' = [returned EXCEPT ![id] = IF v > returned[id] THEN v ELSE returned[id]]
           /\ sparedUntil' = [sparedUntil EXCEPT ![id] = IF get[c].fetchedAt + CacheTTL > sparedUntil[id]
                                                        THEN get[c].fetchedAt + CacheTTL ELSE sparedUntil[id]]
           /\ \A d \in Goroutines : d \notin Passengers(c) => answer'[d] = answer[d] /\ get'[d] = get[d]
           /\ \A d \in Passengers(c) :
                 /\ get'[d] = Nil
                 /\ answer'[d].ver = v /\ answer'[d].age = Age(id, v)
                 /\ answer'[d].floor = get[d].floor
<1>0. CachedTypeOK
  BY DEF CachedInv
<1>1. /\ At(c, "finish") /\ get[c] # Nil
      /\ Return(Passengers(c), get[c].id, get[c].ver, get[c].fetchedAt + CacheTTL)
  BY DEF Finish, At
<1>2. get[c].id \in Tenants /\ get[c].ver \in Versions
  BY <1>0, <1>1, GetFields
<1>3. Passengers(c) \in SUBSET Goroutines /\ \A d \in Passengers(c) : get[d] # Nil
  BY <1>0, <1>1, PassengersOK
<1>4. /\ get' = [d \in Goroutines |-> IF d \in Passengers(c) THEN Nil ELSE get[d]]
      /\ returned' = [returned EXCEPT ![get[c].id] = IF get[c].ver > returned[get[c].id]
                                                    THEN get[c].ver ELSE returned[get[c].id]]
      /\ sparedUntil' = [sparedUntil EXCEPT ![get[c].id] =
                          IF get[c].fetchedAt + CacheTTL > sparedUntil[get[c].id]
                          THEN get[c].fetchedAt + CacheTTL ELSE sparedUntil[get[c].id]]
      /\ \A d \in Goroutines : d \notin Passengers(c) => answer'[d] = answer[d]
  BY <1>1 DEF Return
<1>5. ASSUME NEW d \in Passengers(c)
      PROVE  /\ answer'[d].ver = get[c].ver /\ answer'[d].age = Age(get[c].id, get[c].ver)
             /\ answer'[d].floor = get[d].floor
  <2>1. answer'[d] = [ver |-> get[c].ver, age |-> Age(get[c].id, get[c].ver), floor |-> get[d].floor]
    BY <1>1, <1>3 DEF Return
  <2> QED
    BY <2>1, SMT
<1> QED
  BY <1>1, <1>2, <1>3, <1>4, <1>5

\* What the leader's Fill does.
LEMMA FillStep ==
    ASSUME CachedInv, NEW c \in Goroutines, Fill(c)
    PROVE  LET id == get[c].id IN
           /\ At(c, "fill") /\ get[c] # Nil /\ id \in Tenants /\ get[c].ver \in Versions
           /\ get[c].fetchedAt \in CacheTimes
           /\ \A i \in Tenants : i # id => cache'[i] = cache[i]
           /\ cache'[id] \in Entries /\ cache'[id].ver = get[c].ver
           /\ cache'[id].expiresAt = cacheNow + CacheTTL
           /\ \A d \in Goroutines : d # c => get'[d] = get[d]
           /\ get'[c] # Nil /\ get'[c].pc = "finish" /\ get'[c].id = id /\ get'[c].entry = get[c].entry
           /\ get'[c].ver = get[c].ver /\ get'[c].fetchedAt = get[c].fetchedAt
           /\ get'[c].floor = get[c].floor /\ get'[c].spared = get[c].spared
           /\ returned' = returned /\ sparedUntil' = sparedUntil /\ answer' = answer
<1>0. CachedTypeOK
  BY DEF CachedInv
<1>1. /\ At(c, "fill") /\ get[c] # Nil
      /\ cache' = [cache EXCEPT ![get[c].id] = [ver |-> get[c].ver, expiresAt |-> cacheNow + CacheTTL]]
      /\ Proceed(c, "finish", get[c].ver, get[c].fetchedAt)
      /\ returned' = returned /\ sparedUntil' = sparedUntil /\ answer' = answer
  BY DEF Fill, At
<1>2. get[c].id \in Tenants /\ get[c].ver \in Versions /\ get[c].fetchedAt \in CacheTimes
  BY <1>0, <1>1, GetFields
<1>3. cache'[get[c].id] = [ver |-> get[c].ver, expiresAt |-> cacheNow + CacheTTL]
  BY <1>0, <1>1, <1>2 DEF CachedTypeOK
<1>4. cache'[get[c].id] \in Entries
  BY <1>0, <1>2, <1>3, CachedAssumption, SMT DEF Entries, Expiries, CachedTypeOK, CacheTimes
<1>5. cache'[get[c].id].ver = get[c].ver /\ cache'[get[c].id].expiresAt = cacheNow + CacheTTL
  BY <1>3, SMT
<1>6. \A i \in Tenants : i # get[c].id => cache'[i] = cache[i]
  BY <1>0, <1>1 DEF CachedTypeOK
<1>7. PICK r \in Gets :
              /\ get' = [get EXCEPT ![c] = r] /\ r # Nil
              /\ r.pc = "finish" /\ r.id = get[c].id /\ r.entry = get[c].entry /\ r.ver = get[c].ver
              /\ r.fetchedAt = get[c].fetchedAt /\ r.floor = get[c].floor /\ r.spared = get[c].spared
  BY <1>0, <1>1, <1>2, ProceedStep, SMT
<1>8. get'[c] = r /\ \A d \in Goroutines : d # c => get'[d] = get[d]
  BY <1>0, <1>7 DEF CachedTypeOK
<1> QED
  BY <1>1, <1>2, <1>4, <1>5, <1>6, <1>7, <1>8

\* The entry that a leader fills in is as good as every other.
LEMMA FilledEntryOK ==
    ASSUME CachedInv, CachedNext, NEW c \in Goroutines, Fill(c), NEW id \in Tenants, id = get[c].id
    PROVE  (EntryOK(id, cache[id]) /\ cache[id].ver <= source[id])'
<1>1. /\ At(c, "fill") /\ get[c].ver \in Versions /\ get[c].fetchedAt \in Nat
      /\ cache'[id] \in Entries /\ cache'[id].ver = get[c].ver
      /\ cache'[id].expiresAt = cacheNow + CacheTTL
  BY FillStep, Zeros
<1>2. source' = source /\ replacedAt' = replacedAt /\ cacheNow' = cacheNow
  BY DEF Fill
<1>3. /\ get[c].fetchedAt <= cacheNow /\ cacheNow <= get[c].fetchedAt + MaxFetchDelay
      /\ get[c].ver <= source[id]
      /\ get[c].ver = source[id] \/ get[c].fetchedAt <= replacedAt[id][get[c].ver]
  BY <1>1 DEF CachedInv, FetchedInv, FetchedOK
<1>4. cacheNow \in Nat /\ replacedAt[id][get[c].ver] \in Nat /\ get[c].ver \in Nat
  BY <1>1, VersionsKept, Zeros
<1> QED
  BY <1>1, <1>2, <1>3, <1>4, CachedAssumption, SMT DEF EntryOK

\* Nothing is returned before it is in the cache.
LEMMA CachedCacheInv == CachedInv /\ CachedNext => CacheInv'
<1> SUFFICES ASSUME CachedInv, CachedNext PROVE CacheInv'
  OBVIOUS
<1>0. CachedTypeOK /\ CachedTypeOK'
  BY CachedTypeInv DEF CachedInv
<1>1. ASSUME NEW id \in Tenants PROVE CacheOK(id)'
  <2>0. CacheOK(id)
    BY DEF CachedInv, CacheInv
  <2>1. ASSUME NEW v \in Versions PROVE replacedAt'[id][v] <= cacheNow'
    BY <2>0, VersionsKept, SMT DEF CacheOK
  <2>2. (cache[id] # Nil => EntryOK(id, cache[id]) /\ cache[id].ver <= source[id])'
    <3>1. CASE cache'[id] = cache[id]
      <4>1. ASSUME cache[id] # Nil PROVE EntryOK(id, cache[id])' /\ cache[id].ver <= source'[id]
        <5>1. EntryOK(id, cache[id]) /\ cache[id].ver <= source[id] /\ cache[id] \in Entries
          BY <2>0, <4>1 DEF CacheOK, EntryOK
        <5>2. PICK e : e = cache[id]
          OBVIOUS
        <5>3. EntryOK(id, e)'
          BY <5>1, <5>2, EntryKept
        <5>4. EntryOK(id, cache[id])'
          BY <5>2, <5>3, <3>1 DEF EntryOK
        <5>5. cache[id].ver \in Versions /\ cache[id].ver \in Nat
          BY <5>1, EntryFields
        <5> QED
          BY <5>1, <5>4, <5>5, VersionsKept, SMT
      <4> QED
        BY <3>1, <4>1
    <3>2. CASE cache'[id] # cache[id]
      <4>1. ASSUME NEW c \in Goroutines, CachedStep(c) PROVE Fill(c) \/ cache' = cache
        BY <4>1 DEF CachedStep, Lookup, Hit, Miss, Fetch, FetchFails,
                    Finish
      <4>2. CacheTick \/ (\E i \in Tenants : Change(i)) => cache' = cache
        BY DEF CacheTick, Change
      <4>3. PICK c \in Goroutines : Fill(c)
        BY <3>2, <4>1, <4>2, CachedCases
      <4>4. id = get[c].id
        BY <3>2, <4>3, FillStep
      <4> QED
        BY <4>3, <4>4, FilledEntryOK
    <3> QED
      BY <3>1, <3>2
  <2>3. (returned[id] # 0 => cache[id] \in Entries /\ returned[id] <= cache[id].ver)'
    <3>0. returned[id] \in Nat /\ returned'[id] \in Nat
      BY <1>0, Zeros DEF CachedTypeOK
    <3>1. CASE returned' = returned
      <4>1. ASSUME returned[id] # 0 PROVE cache'[id] \in Entries /\ returned[id] <= cache'[id].ver
        <5>1. cache[id] \in Entries /\ returned[id] <= cache[id].ver
          BY <2>0, <4>1 DEF CacheOK
        <5>2. cache'[id] \in Entries /\ cache[id].ver <= cache'[id].ver
          BY <5>1, EntriesKept, EntryFields, SMT
        <5> QED
          BY <3>0, <5>1, <5>2, EntryFields, SMT
      <4> QED
        BY <3>1, <4>1
    <3>2. ASSUME NEW c \in Goroutines, Hit(c)
          PROVE  (returned[id] # 0 => cache[id] \in Entries /\ returned[id] <= cache[id].ver)'
      <4> DEFINE e == get[c].entry
      <4>1. /\ get[c] # Nil /\ e # Nil /\ e \in Entries /\ get[c].id \in Tenants
            /\ returned' = [returned EXCEPT ![get[c].id] = IF e.ver > returned[get[c].id] THEN e.ver ELSE returned[get[c].id]]
        BY <3>2, HitStep
      <4>2. EntryOK(get[c].id, e)
        BY <4>1 DEF CachedInv, LookupInv, LookupOK
      <4>3. cache' = cache
        BY <3>2 DEF Hit
      <4>4. id = get[c].id => cache[id] \in Entries /\ e.ver <= cache[id].ver
        BY <4>2 DEF EntryOK
      <4>5. returned'[id] = returned[id] \/ (id = get[c].id /\ returned'[id] = e.ver)
        BY <1>0, <4>1 DEF CachedTypeOK
      <4> QED
        BY <2>0, <4>3, <4>4, <4>5 DEF CacheOK
    <3>3. ASSUME NEW c \in Goroutines, Finish(c)
          PROVE  (returned[id] # 0 => cache[id] \in Entries /\ returned[id] <= cache[id].ver)'
      <4>1. /\ At(c, "finish") /\ get[c] # Nil /\ get[c].id \in Tenants /\ get[c].ver \in Versions
            /\ returned' = [returned EXCEPT ![get[c].id] = IF get[c].ver > returned[get[c].id]
                                                          THEN get[c].ver ELSE returned[get[c].id]]
        BY <3>3, FinishStep
      <4>2. cache[get[c].id] \in Entries /\ cache[get[c].id].ver = get[c].ver
        BY <4>1 DEF CachedInv, FetchedInv, FetchedOK
      <4>3. cache' = cache
        BY <3>3 DEF Finish
      <4>5. returned'[id] = returned[id] \/ (id = get[c].id /\ returned'[id] = get[c].ver)
        BY <1>0, <4>1 DEF CachedTypeOK
      <4>6. get[c].ver \in Nat
        BY <4>1, Zeros
      <4> QED
        BY <2>0, <4>2, <4>3, <4>5, <4>6, SMT DEF CacheOK
    <3>4. ASSUME NEW c \in Goroutines, CachedStep(c)
          PROVE  Hit(c) \/ Finish(c) \/ returned' = returned
      BY <3>4 DEF CachedStep, Lookup, Miss, Fetch, FetchFails, Fill
    <3>5. CacheTick \/ (\E i \in Tenants : Change(i)) => returned' = returned
      BY DEF CacheTick, Change
    <3> QED
      BY <3>1, <3>2, <3>3, <3>4, <3>5, CachedCases
  <2> QED
    BY <2>1, <2>2, <2>3 DEF CacheOK
<1> QED
  BY <1>1 DEF CacheInv

\* What a leader has fetched stays as good as it was; only the leader itself
\* changes the entry of its key.
LEMMA CachedFetchedInv == CachedInv /\ CachedNext => FetchedInv'
<1> SUFFICES ASSUME CachedInv, CachedNext, NEW d \in Goroutines PROVE FetchedOK(d)'
  BY DEF FetchedInv
<1>0. CachedTypeOK /\ CachedTypeOK' /\ FetchedOK(d)
  BY CachedTypeInv, SMTT(30) DEF CachedInv, FetchedInv
<1>1. ASSUME get'[d] = get[d], get[d] # Nil, cache'[get[d].id] = cache[get[d].id],
             At(d, "fill") \/ At(d, "finish") => cacheNow' <= get[d].fetchedAt + MaxFetchDelay
      PROVE  FetchedOK(d)'
  <2>1. /\ get[d].id \in Tenants /\ get[d].ver \in Versions /\ get[d].ver \in Nat
        /\ get[d].fetchedAt \in Nat
    BY <1>0, <1>1, GetFields, Zeros
  <2>2. PICK id \in Tenants, v \in Versions : id = get[d].id /\ v = get[d].ver
    BY <2>1
  <2>3. /\ cacheNow \in Nat /\ cacheNow' \in Nat /\ cacheNow <= cacheNow'
        /\ replacedAt[id][v] \in Nat /\ replacedAt'[id][v] \in Nat
        /\ source[id] \in Nat /\ source'[id] \in Nat /\ source[id] <= source'[id]
        /\ v = source[id] => v = source'[id] \/ replacedAt'[id][v] = cacheNow
        /\ replacedAt'[id][v] = replacedAt[id][v] \/ (v = source[id] /\ replacedAt'[id][v] = cacheNow)
    BY VersionsKept
  <2>4. ASSUME At(d, "fill") \/ At(d, "finish")
        PROVE  /\ get[d].fetchedAt <= cacheNow' /\ cacheNow' <= get[d].fetchedAt + MaxFetchDelay
               /\ v <= source'[id]
               /\ v = source'[id] \/ get[d].fetchedAt <= replacedAt'[id][v]
    <3>1. /\ get[d].fetchedAt <= cacheNow /\ v <= source[id]
          /\ v = source[id] \/ get[d].fetchedAt <= replacedAt[id][v]
      BY <1>0, <2>2, <2>4 DEF FetchedOK
    <3> QED
      BY <1>1, <2>1, <2>2, <2>3, <2>4, <3>1, SMT
  <2> QED
    BY <1>0, <1>1, <2>2, <2>4 DEF FetchedOK, At
<1>2. ASSUME get'[d] = Nil \/ get'[d].pc \in {"looked", "fetch", "wait"} PROVE FetchedOK(d)'
  BY <1>2 DEF FetchedOK, At
<1>3. ASSUME CacheTick PROVE FetchedOK(d)'
  <2>1. get' = get /\ cache' = cache /\ cacheNow' = cacheNow + 1
    BY <1>3 DEF CacheTick
  <2>2. ASSUME At(d, "fill") \/ At(d, "finish") PROVE cacheNow' <= get[d].fetchedAt + MaxFetchDelay
    <3>1. cacheNow < get[d].fetchedAt + MaxFetchDelay
      BY <1>3, <2>2 DEF CacheTick
    <3>2. get[d] # Nil
      BY <2>2 DEF At
    <3>3. get[d].fetchedAt \in Nat /\ cacheNow \in Nat
      BY <1>0, <3>2, GetFields, Zeros DEF CachedTypeOK
    <3> QED
      BY <2>1, <3>1, <3>3, CachedAssumption, SMT
  <2> QED
    BY <1>1, <1>2, <2>1, <2>2
<1>4. ASSUME NEW i \in Tenants, Change(i) PROVE FetchedOK(d)'
  <2>1. get' = get /\ cache' = cache /\ cacheNow' = cacheNow
    BY <1>4 DEF Change
  <2>2. At(d, "fill") \/ At(d, "finish") => cacheNow <= get[d].fetchedAt + MaxFetchDelay
    BY <1>0 DEF FetchedOK
  <2> QED
    BY <1>1, <1>2, <2>1, <2>2
<1>5. ASSUME NEW c \in Goroutines, CachedStep(c) PROVE FetchedOK(d)'
  <2>0. At(d, "fill") \/ At(d, "finish") => cacheNow' <= get[d].fetchedAt + MaxFetchDelay
    BY <1>0, <1>5, SourceSame DEF FetchedOK
  <2>1. CASE Fill(c)
    <3>1. CASE d = c
      <4>1. /\ At(c, "fill") /\ get[c].id \in Tenants
            /\ cache'[get[c].id] \in Entries /\ cache'[get[c].id].ver = get[c].ver
            /\ get'[c] # Nil /\ get'[c].pc = "finish" /\ get'[c].id = get[c].id
            /\ get'[c].ver = get[c].ver /\ get'[c].fetchedAt = get[c].fetchedAt
        BY <2>1, FillStep
      <4>2. source' = source /\ replacedAt' = replacedAt /\ cacheNow' = cacheNow
        BY <1>5, SourceSame
      <4> QED
        BY <1>0, <3>1, <4>1, <4>2 DEF FetchedOK, At
    <3>2. CASE d # c
      <4>1. /\ At(c, "fill") /\ get'[d] = get[d] /\ get[c].id \in Tenants
            /\ \A i \in Tenants : i # get[c].id => cache'[i] = cache[i]
        BY <2>1, <3>2, FillStep
      <4>2. CASE get[d] # Nil /\ get[d].id # get[c].id
        BY <1>0, <1>1, <2>0, <4>1, <4>2, GetFields
      <4>3. CASE get[d] # Nil /\ get[d].id = get[c].id
        <5>1. flight[get[c].id] = c
          BY <4>1 DEF CachedInv, FlightInv, LeaderOK, Leads
        <5>2. ~At(d, "fill") /\ ~At(d, "finish")
          BY <3>2, <4>1, <4>3, <5>1 DEF CachedInv, FlightInv, LeaderOK, Leads
        <5> QED
          BY <4>1, <5>2 DEF FetchedOK, At
      <4>4. CASE get[d] = Nil
        BY <1>2, <4>1, <4>4
      <4> QED
        BY <4>2, <4>3, <4>4
    <3> QED
      BY <3>1, <3>2
  <2>2. CASE Fetch(c)
    <3>1. /\ get[c] # Nil /\ Proceed(c, "fill", source[get[c].id], cacheNow)
          /\ cache' = cache /\ source' = source /\ cacheNow' = cacheNow
      BY <2>2 DEF Fetch, At
    <3>2. source[get[c].id] \in Versions /\ cacheNow \in CacheTimes /\ get[c].id \in Tenants
      BY <1>0, <3>1, GetFields DEF CachedTypeOK
    <3>3. PICK r \in Gets : /\ get' = [get EXCEPT ![c] = r] /\ r.pc = "fill" /\ r.id = get[c].id
                            /\ r.ver = source[get[c].id] /\ r.fetchedAt = cacheNow
      BY <1>0, <3>1, <3>2, ProceedStep, SMT
    <3>4. get'[c] = r /\ \A e \in Goroutines : e # c => get'[e] = get[e]
      BY <1>0, <3>3 DEF CachedTypeOK
    <3>5. CASE d = c
      <4>1. cache[get[c].id] = Nil \/ cache[get[c].id].ver <= source[get[c].id]
        BY <3>2 DEF CachedInv, CacheInv, CacheOK
      <4>2. cacheNow \in Nat /\ source[get[c].id] \in Nat
        BY <3>2, Zeros
      <4>3. cacheNow <= cacheNow /\ cacheNow <= cacheNow + MaxFetchDelay /\ source[get[c].id] <= source[get[c].id]
        BY <4>2, CachedAssumption, SMT
      <4> QED
        BY <3>1, <3>3, <3>4, <3>5, <4>1, <4>3 DEF FetchedOK, At
    <3>6. CASE d # c
      BY <1>1, <1>2, <2>0, <3>1, <3>4, <3>6
    <3> QED
      BY <3>5, <3>6
  <2>3. CASE ~Fill(c) /\ ~Fetch(c)
    <3>1. cache' = cache
      BY <1>5, <2>3 DEF CachedStep, Lookup, Hit, Miss, FetchFails, Finish
    <3>2. get'[d] = get[d] \/ get'[d] = Nil \/ get'[d].pc \in {"looked", "fetch", "wait"}
      <4>1. ASSUME NEW i \in Tenants, Lookup(c, i) PROVE get'[d] = get[d] \/ get'[d].pc = "looked"
        <5>1. PICK r \in Gets : get' = [get EXCEPT ![c] = r] /\ r.pc = "looked"
          BY <1>0, <4>1, LookupStep, SMT
        <5> QED
          BY <1>0, <5>1 DEF CachedTypeOK
      <4>2. ASSUME Miss(c) PROVE get'[d] = get[d] \/ get'[d].pc \in {"fetch", "wait"}
        <5>1. get[c] # Nil /\ (Proceed(c, "fetch", 0, 0) \/ Proceed(c, "wait", 0, 0))
          BY <4>2 DEF Miss, At
        <5>2. PICK r \in Gets : get' = [get EXCEPT ![c] = r] /\ r.pc \in {"fetch", "wait"}
          BY <1>0, <5>1, ProceedStep, Zeros, SMT
        <5> QED
          BY <1>0, <5>2 DEF CachedTypeOK
      <4>3. Hit(c) \/ FetchFails(c) \/ Finish(c) => get'[d] = get[d] \/ get'[d] = Nil
        BY DEF Hit, FetchFails, Finish, Return
      <4> QED
        BY <1>5, <2>3, <4>1, <4>2, <4>3 DEF CachedStep
    <3> QED
      BY <1>1, <1>2, <2>0, <3>1, <3>2
  <2> QED
    BY <2>1, <2>2, <2>3
<1> QED
  BY <1>3, <1>4, <1>5, CachedCases

\* What has been returned only grows.
LEMMA ReturnedGrows ==
    ASSUME CachedInv, CachedNext, NEW id \in Tenants
    PROVE  returned[id] \in Nat /\ returned'[id] \in Nat /\ returned[id] <= returned'[id]
<1>0. CachedTypeOK /\ CachedTypeOK'
  BY CachedTypeInv DEF CachedInv
<1>1. returned[id] \in Nat /\ returned'[id] \in Nat
  BY <1>0, Zeros DEF CachedTypeOK
<1>2. ASSUME NEW c \in Goroutines, Hit(c) \/ Finish(c) PROVE returned[id] <= returned'[id]
  <2>1. PICK i, v : returned' = [returned EXCEPT ![i] = IF v > returned[i] THEN v ELSE returned[i]]
    BY <1>2 DEF Hit, Finish, Return
  <2> QED
    BY <1>0, <1>1, <2>1, SMTT(30) DEF CachedTypeOK
<1>3. ASSUME NEW c \in Goroutines, CachedStep(c)
      PROVE  Hit(c) \/ Finish(c) \/ returned' = returned
  BY <1>3 DEF CachedStep, Lookup, Miss, Fetch, FetchFails, Fill
<1>4. CacheTick \/ (\E i \in Tenants : Change(i)) => returned' = returned
  BY DEF CacheTick, Change
<1> QED
  BY <1>1, <1>2, <1>3, <1>4, CachedCases, SMT

\* A step either leaves the lookup of a Get alone or begins or ends the Get.
LEMMA LookupKept ==
    ASSUME CachedInv, CachedNext, NEW d \in Goroutines
    PROVE  \/ get'[d] = Nil
           \/ /\ get[d] # Nil /\ get'[d].id = get[d].id /\ get'[d].entry = get[d].entry
              /\ get'[d].floor = get[d].floor /\ get'[d].spared = get[d].spared
           \/ \E id \in Tenants : Lookup(d, id)
<1>0. CachedTypeOK
  BY DEF CachedInv
<1>1. CacheTick \/ (\E i \in Tenants : Change(i)) => get' = get
  BY SMTT(30) DEF CacheTick, Change
<1>2. ASSUME NEW c \in Goroutines, CachedStep(c)
      PROVE  \/ get'[d] = Nil \/ get'[d] = get[d]
             \/ /\ get[d] # Nil /\ get'[d].id = get[d].id /\ get'[d].entry = get[d].entry
                /\ get'[d].floor = get[d].floor /\ get'[d].spared = get[d].spared
             \/ \E id \in Tenants : Lookup(d, id)
  <2>1. ASSUME NEW i \in Tenants, Lookup(c, i) PROVE d = c \/ get'[d] = get[d]
    BY <1>0, <2>1 DEF Lookup, CachedTypeOK
  <2>2. Hit(c) \/ FetchFails(c) \/ Finish(c) => get'[d] = get[d] \/ get'[d] = Nil
    BY DEF Hit, FetchFails, Finish, Return
  <2>3. ASSUME NEW pc, NEW v, NEW t, Proceed(c, pc, v, t), get[c] # Nil
        PROVE  \/ get'[d] = get[d]
               \/ /\ get[d] # Nil /\ get'[d].id = get[d].id /\ get'[d].entry = get[d].entry
                  /\ get'[d].floor = get[d].floor /\ get'[d].spared = get[d].spared
    <3>1. CASE d # c
      BY <1>0, <2>3, <3>1 DEF Proceed, CachedTypeOK
    <3>2. CASE d = c
      <4>1. get'[d] = [pc |-> pc, id |-> get[c].id, entry |-> get[c].entry,
                       ver |-> v, fetchedAt |-> t, floor |-> get[c].floor, spared |-> get[c].spared]
        BY <1>0, <2>3, <3>2 DEF Proceed, CachedTypeOK
      <4> QED
        BY <2>3, <3>2, <4>1, SMT
    <3> QED
      BY <3>1, <3>2
  <2>4. Miss(c) \/ Fetch(c) \/ Fill(c)
           => get[c] # Nil /\ \E pc, v, t : Proceed(c, pc, v, t)
    BY DEF Miss, Fetch, Fill, At
  <2> QED
    BY <1>2, <2>1, <2>2, <2>3, <2>4 DEF CachedStep
<1> QED
  BY <1>1, <1>2, CachedCases

\* A Get looks up what is not older than what was returned before it began.
LEMMA CachedLookupInv == CachedInv /\ CachedNext => LookupInv'
<1> SUFFICES ASSUME CachedInv, CachedNext, NEW d \in Goroutines PROVE LookupOK(d)'
  BY DEF LookupInv
<1>0. CachedTypeOK /\ CachedTypeOK' /\ LookupOK(d)
  BY CachedTypeInv DEF CachedInv, LookupInv
<1>1. CASE get'[d] = Nil
  BY <1>1 DEF LookupOK
<1>2. CASE /\ get[d] # Nil /\ get'[d].id = get[d].id /\ get'[d].entry = get[d].entry
           /\ get'[d].floor = get[d].floor
  <2>1. get[d].id \in Tenants /\ get[d].floor \in Nat
    BY <1>0, <1>2, GetFields, Zeros
  <2>2. get[d].floor <= returned'[get[d].id]
    BY <1>0, <1>2, <2>1, ReturnedGrows, SMT DEF LookupOK
  <2>3. PICK id \in Tenants, e \in Entries \cup {Nil} : id = get[d].id /\ e = get[d].entry
    BY <1>0, <1>2, GetFields
  <2>4. ASSUME e # Nil PROVE EntryOK(id, e)' /\ get[d].floor <= e.ver
    BY <1>0, <1>2, <2>3, <2>4, EntryKept DEF LookupOK
  <2>5. e # Nil => EntryOK(get[d].id, get[d].entry)'
    BY <1>2, <2>3, <2>4 DEF EntryOK
  <2> QED
    BY <1>2, <2>2, <2>3, <2>4, <2>5 DEF LookupOK
<1>3. ASSUME NEW id \in Tenants, Lookup(d, id) PROVE LookupOK(d)'
  <2>1. PICK r \in Gets : /\ get' = [get EXCEPT ![d] = r] /\ r.id = id
                          /\ r.entry = cache[id] /\ r.floor = returned[id]
    BY <1>0, <1>3, LookupStep, SMT
  <2>2. get'[d] = r
    BY <1>0, <2>1 DEF CachedTypeOK
  <2>3. /\ source' = source /\ replacedAt' = replacedAt /\ cacheNow' = cacheNow /\ cache' = cache
        /\ returned' = returned
    BY <1>3 DEF Lookup
  <2>4. CacheOK(id) /\ returned[id] \in Nat /\ returned[id] <= returned[id]
    BY ReturnedGrows, SMT DEF CachedInv, CacheInv
  <2>5. ASSUME cache[id] # Nil PROVE EntryOK(id, cache[id]) /\ returned[id] <= cache[id].ver
    <3>1. EntryOK(id, cache[id]) /\ cache[id].ver \in Nat
      BY <2>4, <2>5, EntryFields DEF CacheOK, EntryOK
    <3> QED
      BY <2>4, <3>1, SMT DEF CacheOK
  <2>6. ASSUME cache[id] # Nil PROVE EntryOK(get[d].id, get[d].entry)'
    BY <2>1, <2>2, <2>3, <2>5, <2>6 DEF EntryOK
  <2> QED
    BY <2>1, <2>2, <2>3, <2>4, <2>5, <2>6 DEF LookupOK
<1> QED
  BY <1>1, <1>2, <1>3, LookupKept

\* No answer is older than one given before its Get began, or too old.
LEMMA CachedAnswerInv == CachedInv /\ CachedNext => AnswerInv'
<1> SUFFICES ASSUME CachedInv, CachedNext, NEW d \in Goroutines PROVE AnswerOK(d)'
  BY DEF AnswerInv
<1>0. CachedTypeOK /\ AnswerOK(d)
  BY DEF CachedInv, AnswerInv
<1>1. CASE answer'[d] = answer[d] \/ answer'[d] = Nil
  BY <1>0, <1>1 DEF AnswerOK
<1>2. ASSUME Hit(d) PROVE AnswerOK(d)'
  <2>1. PICK id \in Tenants, e \in Entries :
          /\ get[d] # Nil /\ e # Nil /\ e = get[d].entry /\ id = get[d].id
          /\ cacheNow < e.expiresAt
          /\ answer'[d].ver = e.ver /\ answer'[d].age = Age(id, e.ver)
          /\ answer'[d].floor = get[d].floor
    BY <1>2, HitStep, SMT
  <2>2. EntryOK(id, e) /\ get[d].floor <= e.ver
    BY <2>1 DEF CachedInv, LookupInv, LookupOK
  <2>3. /\ e.ver \in Versions /\ e.ver \in Nat /\ e.expiresAt \in Nat /\ cacheNow \in Nat
        /\ get[d].floor \in Nat /\ replacedAt[id][e.ver] \in Nat
    BY <1>0, <2>1, EntryFields, GetFields, Zeros, VersionsKept
  <2>4. /\ e.ver = source[id] => Age(id, e.ver) = 0
        /\ e.ver # source[id] => Age(id, e.ver) = cacheNow - replacedAt[id][e.ver]
    BY <2>3, AgeOK
  <2>5. e.ver = source[id] \/ e.expiresAt <= replacedAt[id][e.ver] + CacheTTL + MaxFetchDelay
    BY <2>2 DEF EntryOK
  <2>6. Age(id, e.ver) <= MaxFetchDelay \/ Age(id, e.ver) < CacheTTL + MaxFetchDelay
    BY <2>1, <2>3, <2>4, <2>5, CachedAssumption, SMT
  <2> QED
    BY <2>1, <2>2, <2>3, <2>6 DEF AnswerOK
<1>3. ASSUME NEW c \in Goroutines, Finish(c), d \in Passengers(c) PROVE AnswerOK(d)'
  <2>1. PICK id \in Tenants, v \in Versions :
          /\ At(c, "finish") /\ get[c] # Nil /\ id = get[c].id /\ v = get[c].ver
          /\ answer'[d].ver = v /\ answer'[d].age = Age(id, v)
          /\ answer'[d].floor = get[d].floor
    BY <1>3, FinishStep, SMT
  <2>2. get[d] # Nil /\ get[d].id = id
    BY <1>0, <1>3, <2>1, PassengersOK
  <2>3. /\ get[d].floor <= returned[id]
        /\ returned[id] # 0 => cache[id] \in Entries /\ returned[id] <= cache[id].ver
    BY <2>2 DEF CachedInv, LookupInv, LookupOK, CacheInv, CacheOK
  <2>4. /\ cache[id] \in Entries /\ cache[id].ver = v
        /\ cacheNow <= get[c].fetchedAt + MaxFetchDelay
        /\ v = source[id] \/ get[c].fetchedAt <= replacedAt[id][v]
    BY <2>1 DEF CachedInv, FetchedInv, FetchedOK
  <2>5. /\ v \in Nat /\ cacheNow \in Nat /\ get[d].floor \in Nat /\ get[c].fetchedAt \in Nat
        /\ replacedAt[id][v] \in Nat /\ returned[id] \in Nat
    BY <1>0, <2>1, <2>2, GetFields, Zeros, VersionsKept, ReturnedGrows
  <2>6. /\ v = source[id] => Age(id, v) = 0
        /\ v # source[id] => Age(id, v) = cacheNow - replacedAt[id][v]
    BY AgeOK
  <2>7. Age(id, v) <= MaxFetchDelay
    BY <2>4, <2>5, <2>6, CachedAssumption, SMT
  <2>8. get[d].floor <= v
    BY <2>3, <2>4, <2>5, SMT
  <2> QED
    BY <2>1, <2>5, <2>7, <2>8 DEF AnswerOK
<1>4. ASSUME NEW c \in Goroutines, CachedStep(c) PROVE AnswerOK(d)'
  <2>1. ASSUME NEW i \in Tenants, Lookup(c, i) PROVE answer'[d] = answer[d] \/ answer'[d] = Nil
    BY <1>0, <2>1, SMTT(30) DEF Lookup, CachedTypeOK
  <2>2. Miss(c) \/ Fetch(c) \/ FetchFails(c) \/ Fill(c) => answer' = answer
    BY DEF Miss, Fetch, FetchFails, Fill
  <2>3. Hit(c) => d = c \/ answer'[d] = answer[d]
    BY HitStep, SMTT(30)
  <2>4. Finish(c) => d \in Passengers(c) \/ answer'[d] = answer[d]
    BY FinishStep
  <2> QED
    BY <1>1, <1>2, <1>3, <1>4, <2>1, <2>2, <2>3, <2>4 DEF CachedStep
<1>5. CacheTick \/ (\E i \in Tenants : Change(i)) => answer' = answer
  BY DEF CacheTick, Change
<1> QED
  BY <1>1, <1>4, <1>5, CachedCases

\* CachedInv holds in every reachable state.
LEMMA CachedInvariance == CachedSpec => []CachedInv
<1>1. CachedInit => CachedInv
  BY CachedInitInv
<1>2. CachedInv /\ UNCHANGED cachedVars => CachedInv'
  <2> SUFFICES ASSUME CachedInv, UNCHANGED cachedVars PROVE CachedInv'
    OBVIOUS
  <2>1. CachedTypeOK'
    BY DEF CachedInv, CachedTypeOK, cachedVars
  <2>2. FlightInv'
    BY SMTT(30) DEF CachedInv, FlightInv, LeaderOK, FlightOK, Leads, At, cachedVars
  <2>3. CacheInv'
    BY DEF CachedInv, CacheInv, CacheOK, EntryOK, cachedVars
  <2>4. FetchedInv'
    BY DEF CachedInv, FetchedInv, FetchedOK, At, cachedVars
  <2>5. LookupInv'
    BY DEF CachedInv, LookupInv, LookupOK, EntryOK, cachedVars
  <2>6. AnswerInv'
    BY DEF CachedInv, AnswerInv, AnswerOK, cachedVars
  <2> QED
    BY <2>1, <2>2, <2>3, <2>4, <2>5, <2>6 DEF CachedInv
<1>3. CachedInv /\ CachedNext => CachedInv'
  BY CachedTypeInv, CachedFlightInv, CachedCacheInv, CachedFetchedInv, CachedLookupInv, CachedAnswerInv
  DEF CachedInv
<1>4. CachedInv /\ [CachedNext]_cachedVars => CachedInv'
  BY <1>2, <1>3
<1> QED
  BY <1>1, <1>4, PTL DEF CachedSpec

\* A Get never answers with something older than what an earlier Get returned
\* before it began, whoever called it and whether it hit, led a flight or
\* joined one.
THEOREM GetNeverGoesBack == CachedSpec => []NoTimeTravel
<1>1. CachedInv => NoTimeTravel
  BY DEF CachedInv, AnswerInv, AnswerOK, NoTimeTravel
<1> QED
  BY <1>1, CachedInvariance, PTL

\* What Get answers was current no longer ago than the delay of the source plus,
\* for a hit, the time to live.
THEOREM StalenessBounded == CachedSpec => []BoundedStaleness
<1>1. CachedInv => BoundedStaleness
  BY DEF CachedInv, AnswerInv, AnswerOK, BoundedStaleness
<1> QED
  BY <1>1, CachedInvariance, PTL

-----------------------------------------------------------------------------
\* The entry of the cache lasts as long as everything that was returned.
SparedUntilOK(id) ==
    sparedUntil[id] # 0 => cache[id] # Nil /\ sparedUntil[id] <= cache[id].expiresAt

\* What a Get has looked up lasts as long as everything that was returned before
\* it began, and no longer than what the cache holds by now.  A leader asks
\* after that time, and what it has stored lasts ttl from the fetch on.
SparedOK(c) ==
    get[c] # Nil =>
       /\ get[c].spared # 0 => get[c].entry # Nil /\ get[c].spared <= get[c].entry.expiresAt
       /\ get[c].entry # Nil => cache[get[c].id] # Nil /\ get[c].entry.expiresAt <= cache[get[c].id].expiresAt
       /\ get[c].pc = "fetch" => get[c].spared <= cacheNow
       /\ get[c].pc = "finish" => get[c].fetchedAt + CacheTTL <= cache[get[c].id].expiresAt

\* What keeps SourceSpared, together with CachedInv.
SparedInv == (\A id \in Tenants : SparedUntilOK(id)) /\ (\A c \in Goroutines : SparedOK(c))

\* NewCachedStore.
LEMMA SparedInit == CachedInit => SparedInv
  BY DEF CachedInit, SparedInv, SparedUntilOK, SparedOK

\* Numbers that are compared.
LEMMA SparedNumbers ==
    ASSUME CachedTypeOK
    PROVE  /\ cacheNow \in Nat /\ CacheTTL \in Nat
           /\ \A id \in Tenants : sparedUntil[id] \in Nat
           /\ \A id \in Tenants : cache[id] # Nil => cache[id] \in Entries /\ cache[id].expiresAt \in Nat
           /\ \A c \in Goroutines : get[c] # Nil =>
                 /\ get[c].id \in Tenants /\ get[c].spared \in Nat /\ get[c].fetchedAt \in Nat
                 /\ get[c].entry # Nil => get[c].entry \in Entries /\ get[c].entry.expiresAt \in Nat
<1>1. Expiries \subseteq Nat
  BY ExpiryOK
<1>2. cacheNow \in Nat /\ CacheTTL \in Nat /\ \A id \in Tenants : sparedUntil[id] \in Nat
  BY <1>1, CachedAssumption, Zeros DEF CachedTypeOK
<1>3. \A id \in Tenants : cache[id] # Nil => cache[id] \in Entries /\ cache[id].expiresAt \in Nat
  BY EntryFields DEF CachedTypeOK
<1>4. ASSUME NEW c \in Goroutines, get[c] # Nil
      PROVE  /\ get[c].id \in Tenants /\ get[c].spared \in Nat /\ get[c].fetchedAt \in Nat
             /\ get[c].entry # Nil => get[c].entry \in Entries /\ get[c].entry.expiresAt \in Nat
  BY <1>1, <1>4, GetFields, EntryFields, Zeros
<1> QED
  BY <1>2, <1>3, <1>4

\* No entry is replaced by one that expires earlier: whoever fills the cache
\* does it after whoever filled it before.
LEMMA ExpiryGrows ==
    ASSUME CachedInv, CachedNext, NEW id \in Tenants, cache[id] # Nil
    PROVE  /\ cache'[id] # Nil /\ cache[id].expiresAt \in Nat /\ cache'[id].expiresAt \in Nat
           /\ cache[id].expiresAt <= cache'[id].expiresAt
<1>0. CachedTypeOK /\ CachedTypeOK' /\ CacheOK(id)
  BY CachedTypeInv DEF CachedInv, CacheInv
<1>1. cache[id].expiresAt \in Nat /\ cacheNow \in Nat /\ cache[id] \in Entries
  BY <1>0, SparedNumbers
<1>2. CASE cache'[id] = cache[id]
  BY <1>1, <1>2, SMT
<1>3. ASSUME NEW c \in Goroutines, Fill(c), id = get[c].id PROVE cache'[id] # Nil /\ cache'[id].expiresAt = cacheNow + CacheTTL
  BY <1>3, FillStep, CachedAssumption
<1>4. ASSUME NEW c \in Goroutines, Fill(c), id # get[c].id PROVE cache'[id] = cache[id]
  BY <1>4, FillStep
<1>5. ASSUME NEW c \in Goroutines, CachedStep(c) PROVE Fill(c) \/ cache' = cache
  BY <1>5 DEF CachedStep, Lookup, Hit, Miss, Fetch, FetchFails, Finish
<1>6. CacheTick \/ (\E i \in Tenants : Change(i)) => cache' = cache
  BY DEF CacheTick, Change
<1>7. cache[id].expiresAt <= cacheNow + CacheTTL
  BY <1>0 DEF CacheOK, EntryOK
<1>8. CASE cache'[id] # Nil /\ cache'[id].expiresAt = cacheNow + CacheTTL
  BY <1>1, <1>7, <1>8, CachedAssumption, SMT
<1> QED
  BY <1>2, <1>3, <1>4, <1>5, <1>6, <1>8, CachedCases

\* The cache outlasts what has been returned after every step: a hit returns an
\* entry that the cache has or has replaced, a flight what it has stored.
LEMMA SparedUntilKept ==
    ASSUME CachedInv, CachedNext, SparedInv, NEW id \in Tenants
    PROVE  SparedUntilOK(id)'
<1>0. CachedTypeOK /\ CachedTypeOK' /\ SparedUntilOK(id)
  BY CachedTypeInv DEF CachedInv, SparedInv
<1>1. sparedUntil[id] \in Nat /\ sparedUntil'[id] \in Nat
  BY <1>0, ExpiryOK DEF CachedTypeOK
<1>2. CASE sparedUntil'[id] = sparedUntil[id]
  <2>1. ASSUME sparedUntil[id] # 0 PROVE cache'[id] # Nil /\ sparedUntil[id] <= cache'[id].expiresAt
    <3>1. cache[id] # Nil /\ sparedUntil[id] <= cache[id].expiresAt
      BY <1>0, <2>1 DEF SparedUntilOK
    <3> QED
      BY <1>1, <3>1, ExpiryGrows, SMT
  <2> QED
    BY <1>2, <2>1 DEF SparedUntilOK
<1>3. ASSUME cache[id] # Nil, cache' = cache, sparedUntil'[id] <= cache[id].expiresAt PROVE SparedUntilOK(id)'
  BY <1>3 DEF SparedUntilOK
<1>4. ASSUME NEW c \in Goroutines, Hit(c) PROVE SparedUntilOK(id)'
  <2>1. PICK e \in Entries :
          /\ get[c] # Nil /\ e # Nil /\ e = get[c].entry /\ get[c].id \in Tenants
          /\ sparedUntil' = [sparedUntil EXCEPT ![get[c].id] =
                               IF e.expiresAt > sparedUntil[get[c].id] THEN e.expiresAt ELSE sparedUntil[get[c].id]]
    BY <1>4, HitStep, SMT
  <2>2. cache' = cache
    BY <1>4 DEF Hit
  <2>3. sparedUntil'[id] = sparedUntil[id] \/ (id = get[c].id /\ sparedUntil'[id] = e.expiresAt)
    BY <1>0, <2>1 DEF CachedTypeOK
  <2>4. id = get[c].id => cache[id] # Nil /\ e.expiresAt <= cache[id].expiresAt
    BY <2>1 DEF SparedInv, SparedOK
  <2> QED
    BY <1>2, <1>3, <2>2, <2>3, <2>4
<1>5. ASSUME NEW c \in Goroutines, Finish(c) PROVE SparedUntilOK(id)'
  <2>1. /\ At(c, "finish") /\ get[c] # Nil /\ get[c].id \in Tenants
        /\ sparedUntil' = [sparedUntil EXCEPT ![get[c].id] = IF get[c].fetchedAt + CacheTTL > sparedUntil[get[c].id]
                                                          THEN get[c].fetchedAt + CacheTTL ELSE sparedUntil[get[c].id]]
    BY <1>5, FinishStep
  <2>2. cache' = cache
    BY <1>5 DEF Finish
  <2>3. sparedUntil'[id] = sparedUntil[id] \/ (id = get[c].id /\ sparedUntil'[id] = get[c].fetchedAt + CacheTTL)
    BY <1>0, <2>1 DEF CachedTypeOK
  <2>4. cache[get[c].id] # Nil
    BY <2>1, CachedAssumption DEF CachedInv, FetchedInv, FetchedOK
  <2>5. get[c].fetchedAt + CacheTTL <= cache[get[c].id].expiresAt
    BY <2>1 DEF SparedInv, SparedOK, At
  <2> QED
    BY <1>2, <1>3, <2>2, <2>3, <2>4, <2>5
<1>6. ASSUME NEW c \in Goroutines, CachedStep(c) PROVE Hit(c) \/ Finish(c) \/ sparedUntil' = sparedUntil
  BY <1>6 DEF CachedStep, Lookup, Miss, Fetch, FetchFails, Fill
<1>7. CacheTick \/ (\E i \in Tenants : Change(i)) => sparedUntil' = sparedUntil
  BY DEF CacheTick, Change
<1> QED
  BY <1>2, <1>4, <1>5, <1>6, <1>7, CachedCases

\* The step of a goroutine changes pc and what was fetched as Proceed does.
LEMMA PcChanges ==
    ASSUME CachedInv, CachedNext, NEW d \in Goroutines, get[d] # Nil, get'[d] # Nil
    PROVE  \/ get'[d] = get[d]
           \/ Miss(d) /\ get'[d].pc \in {"fetch", "wait"}
           \/ Fetch(d) /\ get'[d].pc = "fill"
           \/ Fill(d) /\ get'[d].pc = "finish"
<1>0. CachedTypeOK
  BY DEF CachedInv
<1>1. CacheTick \/ (\E i \in Tenants : Change(i)) => get' = get
  BY SMTT(30) DEF CacheTick, Change
<1>2. ASSUME NEW c \in Goroutines, CachedStep(c)
      PROVE  \/ get'[d] = get[d]
             \/ Miss(d) /\ get'[d].pc \in {"fetch", "wait"}
             \/ Fetch(d) /\ get'[d].pc = "fill"
             \/ Fill(d) /\ get'[d].pc = "finish"
  <2>1. ASSUME NEW i \in Tenants, Lookup(c, i) PROVE get'[d] = get[d]
    BY <1>0, <2>1 DEF Lookup, CachedTypeOK
  <2>2. Hit(c) \/ FetchFails(c) \/ Finish(c) => get'[d] = get[d] \/ get'[d] = Nil
    BY DEF Hit, FetchFails, Finish, Return
  <2>3. ASSUME NEW pc, NEW v, NEW t, Proceed(c, pc, v, t)
        PROVE  get'[d] = get[d] \/ (d = c /\ get'[d].pc = pc)
    <3>1. CASE d # c
      BY <1>0, <2>3, <3>1 DEF Proceed, CachedTypeOK
    <3>2. CASE d = c
      <4>1. get'[d] = [pc |-> pc, id |-> get[c].id, entry |-> get[c].entry,
                       ver |-> v, fetchedAt |-> t, floor |-> get[c].floor, spared |-> get[c].spared]
        BY <1>0, <2>3, <3>2 DEF Proceed, CachedTypeOK
      <4> QED
        BY <3>2, <4>1, SMT
    <3> QED
      BY <3>1, <3>2
  <2>4. Miss(c) => Proceed(c, "fetch", 0, 0) \/ Proceed(c, "wait", 0, 0)
    BY DEF Miss
  <2>5. Fetch(c) => Proceed(c, "fill", source[get[c].id], cacheNow)
    BY DEF Fetch
  <2>6. Fill(c) => Proceed(c, "finish", get[c].ver, get[c].fetchedAt)
    BY DEF Fill
  <2>7. Miss(c) => get'[d] = get[d] \/ (d = c /\ get'[d].pc \in {"fetch", "wait"})
    BY <2>3, <2>4
  <2>8. /\ Fetch(c) => get'[d] = get[d] \/ (d = c /\ get'[d].pc = "fill")
        /\ Fill(c) => get'[d] = get[d] \/ (d = c /\ get'[d].pc = "finish")
    BY <2>3, <2>5, <2>6
  <2> QED
    BY <1>2, <2>1, <2>2, <2>7, <2>8 DEF CachedStep
<1> QED
  BY <1>1, <1>2, CachedCases

\* What a Get knows stays true: its entry is outlasted by the cache, its flight
\* begins when that entry has expired.
LEMMA SparedGetKept ==
    ASSUME CachedInv, CachedNext, SparedInv, NEW d \in Goroutines
    PROVE  SparedOK(d)'
<1>0. CachedTypeOK /\ CachedTypeOK' /\ SparedOK(d)
  BY CachedTypeInv DEF CachedInv, SparedInv
<1>1. CASE get'[d] = Nil
  BY <1>1 DEF SparedOK
<1>2. ASSUME NEW id \in Tenants, Lookup(d, id) PROVE SparedOK(d)'
  <2>1. PICK r \in Gets : /\ get' = [get EXCEPT ![d] = r] /\ r.id = id /\ r.pc = "looked"
                          /\ r.entry = cache[id] /\ r.spared = sparedUntil[id]
    BY <1>0, <1>2, LookupStep, SMT
  <2>2. get'[d] = r /\ cache' = cache
    BY <1>0, <1>2, <2>1 DEF CachedTypeOK, Lookup
  <2>3. SparedUntilOK(id)
    BY DEF SparedInv
  <2>4. cache[id] # Nil => cache[id].expiresAt <= cache[id].expiresAt
    BY <1>0, SparedNumbers, SMT
  <2> QED
    BY <2>1, <2>2, <2>3, <2>4 DEF SparedOK, SparedUntilOK
<1>3. ASSUME get[d] # Nil, get'[d] # Nil, get'[d].id = get[d].id, get'[d].entry = get[d].entry,
             get'[d].spared = get[d].spared
      PROVE  SparedOK(d)'
  <2>1. get[d].spared # 0 => get[d].entry # Nil /\ get[d].spared <= get[d].entry.expiresAt
    BY <1>0, <1>3 DEF SparedOK
  <2>2. PICK id \in Tenants : id = get[d].id
    BY <1>0, <1>3, GetFields
  <2>3. ASSUME get[d].entry # Nil PROVE cache'[id] # Nil /\ get[d].entry.expiresAt <= cache'[id].expiresAt
    <3>1. cache[id] # Nil /\ get[d].entry.expiresAt <= cache[id].expiresAt
      BY <1>0, <1>3, <2>2, <2>3 DEF SparedOK
    <3>2. get[d].entry.expiresAt \in Nat
      BY <1>0, <1>3, <2>3, SparedNumbers
    <3> QED
      BY <3>1, <3>2, ExpiryGrows, SMT
  <2>4. ASSUME get'[d].pc = "fetch" PROVE get[d].spared <= cacheNow'
    <3>0. cacheNow \in Nat /\ cacheNow' \in Nat /\ get[d].spared \in Nat
      BY <1>0, <1>3, SparedNumbers, Zeros DEF CachedTypeOK
    <3>1. CASE get[d].pc = "fetch"
      <4>1. get[d].spared <= cacheNow
        BY <1>0, <1>3, <3>1 DEF SparedOK
      <4>2. cacheNow <= cacheNow'
        BY <2>2, VersionsKept, Zeros
      <4> QED
        BY <3>0, <4>1, <4>2, SMT
    <3>2. CASE get[d].pc # "fetch"
      <4>1. Miss(d)
        BY <1>3, <2>4, <3>2, PcChanges
      <4>2. ~Fresh(get[d].entry) /\ cacheNow' = cacheNow
        BY <4>1 DEF Miss
      <4>3. CASE get[d].spared = 0
        BY <3>0, <4>3, SMT
      <4>4. CASE get[d].spared # 0
        <5>1. get[d].entry # Nil /\ get[d].spared <= get[d].entry.expiresAt
          BY <2>1, <4>4
        <5>2. ~(cacheNow < get[d].entry.expiresAt) /\ get[d].entry.expiresAt \in Nat
          BY <1>0, <1>3, <4>2, <5>1, SparedNumbers DEF Fresh
        <5> QED
          BY <3>0, <4>2, <5>1, <5>2, SMT
      <4> QED
        BY <4>3, <4>4
    <3> QED
      BY <3>1, <3>2
  <2>5. ASSUME get'[d].pc = "finish" PROVE get'[d].fetchedAt + CacheTTL <= cache'[id].expiresAt
    <3>0. cacheNow \in Nat /\ get[d].fetchedAt \in Nat /\ CacheTTL \in Nat
      BY <1>0, <1>3, SparedNumbers
    <3>1. CASE get[d].pc = "finish"
      <4>1. get[d].fetchedAt + CacheTTL <= cache[id].expiresAt
        BY <1>0, <1>3, <2>2, <3>1 DEF SparedOK
      <4>2. cache[id] # Nil
        BY <1>3, <2>2, <3>1, CallersAssumption, CachedAssumption DEF CachedInv, FetchedInv, FetchedOK, At
      <4>3. get'[d].fetchedAt = get[d].fetchedAt
        <5>1. ~Fill(d)
          BY <3>1 DEF Fill, At
        <5> QED
          BY <1>3, <2>5, <5>1, PcChanges
      <4> QED
        BY <3>0, <4>1, <4>2, <4>3, ExpiryGrows, SMT
    <3>2. CASE get[d].pc # "finish"
      <4>1. Fill(d)
        BY <1>3, <2>5, <3>2, PcChanges
      <4>2. At(d, "fill") /\ cache'[id].expiresAt = cacheNow + CacheTTL /\ get'[d].fetchedAt = get[d].fetchedAt
        BY <2>2, <4>1, FillStep
      <4>3. get[d].fetchedAt <= cacheNow
        BY <4>2 DEF CachedInv, FetchedInv, FetchedOK
      <4> QED
        BY <3>0, <4>2, <4>3, SMT
    <3> QED
      BY <3>1, <3>2
  <2> QED
    BY <1>3, <2>1, <2>2, <2>3, <2>4, <2>5 DEF SparedOK
<1> QED
  BY <1>1, <1>2, <1>3, LookupKept

\* Every step keeps what was said of returned entries.
LEMMA SparedNext == CachedInv /\ SparedInv /\ [CachedNext]_cachedVars => SparedInv'
<1>1. CachedInv /\ SparedInv /\ CachedNext => SparedInv'
  BY SparedUntilKept, SparedGetKept DEF SparedInv
<1>2. SparedInv /\ UNCHANGED cachedVars => SparedInv'
  BY DEF SparedInv, SparedUntilOK, SparedOK, cachedVars
<1> QED
  BY <1>1, <1>2

\* A Get asks the source only when everything has expired that Gets returned
\* before it began, for any number of goroutines and any ttl and delay.
THEOREM SourceIsSpared == CachedSpec => []SourceSpared
<1>1. SparedInv => SourceSpared
  BY DEF SparedInv, SparedOK, SourceSpared, At
<1> QED
  BY <1>1, SparedInit, SparedNext, CachedInvariance, PTL DEF CachedSpec

=============================================================================
