------------------------ MODULE BanPropagationProofs ------------------------
(***************************************************************************)
(* Proofs about BanChecker, for any set of tenants, any number of event    *)
(* handlers and any time stamps, and then about BanPropagation, for any    *)
(* number of callers and any queue size as well: the composition is a      *)
(* BanChecker, and once nothing is under way the checker says what the     *)
(* store says (Agreement).                                                 *)
(***************************************************************************)
EXTENDS BanPropagation, TLAPS

\* A leaf is tried with Zenon first; SMT marks those that need arithmetic or the
\* theory of functions, records and sequences.
USE Zenon, SMTT(30)

\* The inductive invariant of the table and its loader.
CheckerIInv == CheckerTypeOK /\ CheckerInv /\ NewestWins

\* An empty table, no goroutine and no load: CheckerIInv holds at the start (New).
LEMMA CheckerInitInv == CheckerInit => CheckerIInv
<1> SUFFICES ASSUME CheckerInit PROVE CheckerIInv
  OBVIOUS
<1>1. CheckerTypeOK
  BY CheckerAssumption, SMT DEF CheckerInit, CheckerTypeOK, Times
<1>2. CheckerInv
  BY DEF CheckerInit, CheckerInv, LoaderInv, SerialInv, KnownInv, Goroutines
<1>3. NewestWins
  BY DEF CheckerInit, NewestWins
<1> QED
  BY <1>1, <1>2, <1>3 DEF CheckerIInv

\* The Load of apply, by a handler or by the loader, keeps the types and what
\* SerialInv, KnownInv and NewestWins say of the table.
LEMMA LoadTable ==
    ASSUME CheckerIInv, NEW g \in Goroutines, NEW r \in Reports, Load(g, r)
    PROVE  /\ entry' \in [Tenants -> Entries \cup {Absent}]
           /\ task' \in [Goroutines -> Reports \cup {None}]
           /\ applied' \in [Tenants -> SUBSET Times]
           /\ overlapped' \in SUBSET Tenants
           /\ SerialInv' /\ KnownInv' /\ NewestWins'
           /\ \A id \in Tenants : applied[id] \subseteq applied'[id]
           /\ \A h \in Goroutines : h # g => task'[h] = task[h]
           /\ task'[g] = r \/ (task'[g] = None /\ r.at \in applied'[r.id])
<1>0. /\ CheckerTypeOK /\ SerialInv /\ KnownInv /\ NewestWins
      /\ r.id \in Tenants /\ r.at \in Times /\ r # None
  BY CheckerAssumption DEF CheckerIInv, CheckerInv, Reports
<1>1. ASSUME Newer(r), Finished(r), UNCHANGED <<entry, task>>,
             overlapped' = overlapped \/ overlapped' = overlapped \cup {r.id}
      PROVE  /\ applied' \in [Tenants -> SUBSET Times]
             /\ SerialInv' /\ KnownInv' /\ NewestWins'
             /\ \A id \in Tenants : applied[id] \subseteq applied'[id]
             /\ r.at \in applied'[r.id]
  <2>1. /\ applied' \in [Tenants -> SUBSET Times]
        /\ \A id \in Tenants : id # r.id => applied'[id] = applied[id]
        /\ applied'[r.id] = applied[r.id] \cup {r.at}
    BY <1>0, <1>1 DEF CheckerTypeOK, Finished
  <2>2. SerialInv'
    BY <1>0, <1>1 DEF SerialInv
  <2>3. entry[r.id].updatedAt >= r.at /\ entry[r.id] # Absent
    BY <1>0, <1>1, CheckerAssumption, SMT DEF Newer, CheckerTypeOK, Entries, Absent, Times
  <2>4. KnownInv'
    BY <1>0, <1>1, <2>1, <2>3 DEF KnownInv
  <2>5. NewestWins'
    BY <1>0, <1>1, <2>1, <2>3 DEF NewestWins
  <2> QED
    BY <2>1, <2>2, <2>4, <2>5
<1>2. ASSUME ~Newer(r), task' = [task EXCEPT ![g] = r], UNCHANGED <<entry, applied>>,
             overlapped' = IF Busy(r.id) THEN overlapped \cup {r.id} ELSE overlapped
      PROVE  /\ SerialInv' /\ KnownInv' /\ NewestWins'
             /\ task' \in [Goroutines -> Reports \cup {None}]
             /\ task'[g] = r
             /\ \A h \in Goroutines : h # g => task'[h] = task[h]
  <2>1. /\ task' \in [Goroutines -> Reports \cup {None}]
        /\ task'[g] = r
        /\ \A h \in Goroutines : h # g => task'[h] = task[h]
    BY <1>0, <1>2 DEF CheckerTypeOK
  <2>2. r.at >= entry[r.id].updatedAt
    BY <1>0, <1>2, CheckerAssumption, SMT DEF Newer, CheckerTypeOK, Entries, Absent, Times
  <2>3. SerialInv'
    <3> SUFFICES ASSUME NEW f \in Goroutines, task'[f] # None, task'[f].id \notin overlapped'
                 PROVE  /\ task'[f].at >= entry'[task'[f].id].updatedAt
                        /\ \A h \in Goroutines :
                              task'[h] # None /\ task'[h].id = task'[f].id => h = f
      BY DEF SerialInv
    <3>1. CASE f = g
      <4>1. ~Busy(r.id)
        BY <1>2, <2>1, <3>1
      <4> QED
        BY <1>2, <2>1, <2>2, <3>1, <4>1 DEF Busy
    <3>2. CASE f # g
      <4>1. task'[f] = task[f] /\ task[f].id \notin overlapped
        BY <1>2, <2>1, <3>2
      <4>2. task[f].id # r.id
        BY <1>2, <3>2, <4>1, <2>1 DEF Busy
      <4> QED
        BY <1>0, <1>2, <2>1, <4>1, <4>2 DEF SerialInv
    <3> QED
      BY <3>1, <3>2
  <2>4. KnownInv' /\ NewestWins'
    BY <1>0, <1>2 DEF KnownInv, NewestWins
  <2> QED
    BY <2>1, <2>3, <2>4
<1> QED
  BY <1>0, <1>1, <1>2 DEF Load, CheckerTypeOK, Goroutines

\* The Store of apply: a goroutine that was alone with its tenant writes
\* nothing older than what the table holds.
LEMMA StoreKeeps ==
    ASSUME CheckerIInv, NEW g \in Goroutines, Store(g)
    PROVE  CheckerIInv'
<1>0. /\ CheckerTypeOK /\ LoaderInv /\ SerialInv /\ KnownInv /\ NewestWins
      /\ task[g] \in Reports
  BY DEF CheckerIInv, CheckerInv, CheckerTypeOK, Store
<1> DEFINE r == task[g]
<1>1. r.id \in Tenants /\ r.at \in Times /\ r.banned \in BOOLEAN
  BY <1>0 DEF Reports
<1> DEFINE new == [banned |-> r.banned, updatedAt |-> r.at]
<1>2. new \in Entries /\ new # Absent /\ new.updatedAt = r.at
  BY <1>1, CheckerAssumption, SMT DEF Entries, Absent, Times
<1>3. /\ entry' = [entry EXCEPT ![r.id] = new]
      /\ applied' = [applied EXCEPT ![r.id] = @ \cup {r.at}]
      /\ task' = [task EXCEPT ![g] = None]
      /\ UNCHANGED <<overlapped, lpc, snapshotTime, listed, rest, fetched>>
  BY DEF Store, Finished, loaderVars
<1> HIDE DEF r, new
<1>4. CheckerTypeOK'
  BY <1>0, <1>1, <1>2, <1>3 DEF CheckerTypeOK
<1>5. /\ entry'[r.id] = new /\ applied'[r.id] = applied[r.id] \cup {r.at}
      /\ \A id \in Tenants : id # r.id =>
            entry'[id] = entry[id] /\ applied'[id] = applied[id]
      /\ task'[g] = None
      /\ \A h \in Goroutines : h # g => task'[h] = task[h]
  BY <1>0, <1>1, <1>3 DEF CheckerTypeOK
<1>6. LoaderInv'
  <2>1. Loader \in Goroutines
    BY DEF Goroutines
  <2>2. task'[Loader] # None => task'[Loader] = task[Loader]
    BY <1>5, <2>1
  <2>3. task[Loader] # None =>
            task'[Loader] = task[Loader] \/ snapshotTime \in applied'[task[Loader].id]
    BY <1>0, <1>5, <2>1, SMT DEF LoaderInv, r
  <2>4. \A id \in Tenants : applied[id] \subseteq applied'[id]
    BY <1>5
  <2>5. listed \subseteq Tenants
    BY <1>0 DEF CheckerTypeOK
  <2> QED
    BY <1>0, <1>3, <2>2, <2>3, <2>4, <2>5, SMT DEF LoaderInv
<1>7. SerialInv'
  <2> SUFFICES ASSUME NEW f \in Goroutines, task'[f] # None, task'[f].id \notin overlapped'
               PROVE  /\ task'[f].at >= entry'[task'[f].id].updatedAt
                      /\ \A h \in Goroutines :
                            task'[h] # None /\ task'[h].id = task'[f].id => h = f
    BY DEF SerialInv
  <2>1. f # g /\ task'[f] = task[f] /\ task[f] # None /\ task[f].id \notin overlapped
    BY <1>3, <1>5, SMT
  <2>2. task[g] # None
    BY DEF Store
  <2>3. task[f].id # r.id
    BY <1>0, <2>1, <2>2 DEF SerialInv, r
  <2>4. task[f].id \in Tenants
    BY <1>0, <2>1 DEF CheckerTypeOK, Reports
  <2> QED
    BY <1>0, <1>5, <2>1, <2>3, <2>4, SMT DEF SerialInv
<1>8. KnownInv'
  BY <1>0, <1>2, <1>5 DEF KnownInv
<1>9. NewestWins'
  <2> SUFFICES ASSUME NEW id \in Tenants, id \notin overlapped, NEW at \in applied'[id]
               PROVE  entry'[id].updatedAt >= at
    BY <1>3 DEF NewestWins
  <2>1. CASE id # r.id
    BY <1>0, <1>5, <2>1 DEF NewestWins
  <2>2. CASE id = r.id
    <3>1. task[g] # None
      BY DEF Store
    <3>2. r.at >= entry[r.id].updatedAt
      BY <1>0, <2>2, <3>1 DEF SerialInv, r
    <3>3. at = r.at \/ entry[r.id].updatedAt >= at
      BY <1>0, <1>5, <2>2 DEF NewestWins
    <3>4. r.at \in Int /\ at \in Int /\ entry[r.id].updatedAt \in Int
      BY <1>0, <1>1, <1>5, <2>2, CheckerAssumption, SMT DEF CheckerTypeOK, Entries, Absent, Times
    <3> QED
      BY <1>2, <1>5, <2>2, <3>2, <3>3, <3>4, SMT
  <2> QED
    BY <2>1, <2>2
<1> QED
  BY <1>4, <1>6, <1>7, <1>8, <1>9 DEF CheckerIInv, CheckerInv

\* An event handler that enters apply.
LEMMA HandleKeeps ==
    ASSUME CheckerIInv, NEW g \in Handlers, NEW id \in Tenants, NEW state, NEW at \in Times,
           HandleEvent(g, id, state, at)
    PROVE  CheckerIInv'
<1> DEFINE r == [id |-> id, banned |-> state = "Banned", at |-> at]
<1>1. r \in Reports
  BY DEF Reports
<1>2. /\ g \in Goroutines /\ g # Loader /\ Load(g, r)
      /\ UNCHANGED <<lpc, snapshotTime, listed, rest, fetched>>
  BY CheckerAssumption DEF Goroutines, HandleEvent, loaderVars
<1> HIDE DEF r
<1>3. /\ CheckerTypeOK' /\ SerialInv' /\ KnownInv' /\ NewestWins'
      /\ \A t \in Tenants : applied[t] \subseteq applied'[t]
      /\ task'[Loader] = task[Loader]
  BY <1>1, <1>2, LoadTable DEF CheckerIInv, CheckerTypeOK, Goroutines
<1>4. LoaderInv'
  BY <1>2, <1>3 DEF CheckerIInv, CheckerInv, LoaderInv, CheckerTypeOK
<1> QED
  BY <1>3, <1>4 DEF CheckerIInv, CheckerInv

\* The loader enters apply with what it fetched.
LEMMA LoadApplyKeeps ==
    ASSUME CheckerIInv, LoadApply
    PROVE  CheckerIInv'
<1>1. /\ fetched \in Reports /\ fetched # None /\ Loader \in Goroutines
      /\ Load(Loader, fetched)
      /\ fetched' = None /\ UNCHANGED <<lpc, snapshotTime, listed, rest>>
  BY DEF LoadApply, CheckerIInv, CheckerTypeOK, Goroutines
<1>2. /\ CheckerTypeOK' /\ SerialInv' /\ KnownInv' /\ NewestWins'
      /\ \A t \in Tenants : applied[t] \subseteq applied'[t]
      /\ task'[Loader] = fetched \/ (task'[Loader] = None /\ fetched.at \in applied'[fetched.id])
      /\ task[Loader] = None
  BY <1>1, LoadTable DEF CheckerIInv, CheckerTypeOK, Load
<1>3. LoaderInv'
  BY <1>1, <1>2 DEF CheckerIInv, CheckerInv, LoaderInv, CheckerTypeOK
<1> QED
  BY <1>2, <1>3 DEF CheckerIInv, CheckerInv

\* The other steps of LoadInitialBannedList leave the table alone.
LEMMA LoaderKeeps ==
    ASSUME CheckerIInv,
           \/ \E ids \in SUBSET Tenants, at \in Times : LoadBegin(ids, at)
           \/ \E id \in Tenants : LoadError(id) \/ \E banned \in BOOLEAN : LoadFetch(id, banned)
           \/ LoadEnd
           \/ UNCHANGED checkerVars
    PROVE  CheckerIInv'
<1>1. UNCHANGED <<entry, task, applied, overlapped>>
  BY DEF LoadBegin, LoadError, LoadFetch, LoadEnd, tableVars, checkerVars
<1>2. SerialInv' /\ KnownInv' /\ NewestWins'
  BY <1>1 DEF CheckerIInv, CheckerInv, SerialInv, KnownInv, NewestWins
<1>3. CASE \E ids \in SUBSET Tenants, at \in Times : LoadBegin(ids, at)
  BY <1>1, <1>2, <1>3 DEF CheckerIInv, CheckerInv, CheckerTypeOK, LoadBegin, LoaderInv
<1>4. CASE \E id \in Tenants : LoadError(id)
  BY <1>1, <1>2, <1>4 DEF CheckerIInv, CheckerInv, CheckerTypeOK, LoadError, LoaderInv, AtLoopHead
<1>5. CASE \E id \in Tenants, banned \in BOOLEAN : LoadFetch(id, banned)
  <2>1. PICK id \in Tenants, banned \in BOOLEAN : LoadFetch(id, banned)
    BY <1>5
  <2>2. fetched' \in Reports
    BY <2>1 DEF LoadFetch, Reports, CheckerIInv, CheckerTypeOK
  <2>3. fetched'.id = id /\ fetched'.at = snapshotTime
    BY <2>1 DEF LoadFetch
  <2>4. /\ rest' = rest \ {id} /\ UNCHANGED <<lpc, snapshotTime, listed>>
        /\ AtLoopHead
    BY <2>1 DEF LoadFetch
  <2>5. CheckerTypeOK'
    BY <1>1, <2>2, <2>4 DEF CheckerIInv, CheckerTypeOK
  <2>6. fetched' # None
    BY <2>2, CheckerAssumption
  <2>7. id \in listed
    BY <2>1 DEF CheckerIInv, CheckerInv, LoaderInv, LoadFetch
  <2>8. LoaderInv'
    BY <1>1, <2>3, <2>4, <2>6, <2>7 DEF CheckerIInv, CheckerInv, LoaderInv, AtLoopHead
  <2> QED
    BY <1>2, <2>5, <2>8 DEF CheckerIInv, CheckerInv
<1>6. CASE LoadEnd
  BY <1>1, <1>2, <1>6 DEF CheckerIInv, CheckerInv, CheckerTypeOK, LoadEnd, LoaderInv, AtLoopHead
<1>7. CASE UNCHANGED checkerVars
  BY <1>2, <1>7 DEF CheckerIInv, CheckerInv, CheckerTypeOK, LoaderInv, checkerVars, tableVars, loaderVars
<1> QED
  BY <1>3, <1>4, <1>5, <1>6, <1>7

\* Every step keeps the inductive invariant.
LEMMA CheckerNextInv == CheckerIInv /\ [CheckerNext]_checkerVars => CheckerIInv'
  BY HandleKeeps, StoreKeeps, LoadApplyKeeps, LoaderKeeps DEF CheckerNext

\* The inductive invariant holds in every reachable state.
THEOREM CheckerInvariance == CheckerSpec => []CheckerIInv
  BY CheckerInitInv, CheckerNextInv, PTL DEF CheckerSpec

\* The variables have their types.
THEOREM CheckerTypeCorrect == CheckerSpec => []CheckerTypeOK
  BY CheckerInvariance, PTL DEF CheckerIInv

\* apply never regresses while the calls for a tenant do not overlap.
THEOREM AlwaysNewest == CheckerSpec => []NewestWins
  BY CheckerInvariance, PTL DEF CheckerIInv

\* What LoadInitialBannedList has established when it returns nil.
THEOREM LoadEstablishes == CheckerSpec => []LoadCovers
<1>1. CheckerIInv => LoadCovers
  <2> SUFFICES ASSUME CheckerIInv, lpc = "loaded", NEW id \in listed
               PROVE  /\ entry[id] # Absent
                      /\ id \notin overlapped => entry[id].updatedAt >= snapshotTime
    BY DEF LoadCovers
  <2>1. snapshotTime \in applied[id] /\ id \in Tenants
    BY DEF CheckerIInv, CheckerInv, LoaderInv, CheckerTypeOK
  <2> QED
    BY <2>1 DEF CheckerIInv, CheckerInv, KnownInv, NewestWins
<1> QED
  BY <1>1, CheckerInvariance, PTL

-----------------------------------------------------------------------------
(***************************************************************************)
(* The propagation of a change: Agreement.                                 *)
(***************************************************************************)
\* What an event, or a state of the store, says about the ban.
Verdict(state) == state = "Banned"
Truth(id) == Verdict(tenants[id])
Says(e, id, b, t) == e.id = id /\ b = Verdict(e.state) /\ t = e.at

\* The places where there is a report about a tenant that is in the table of
\* the BanChecker or may still get there: the table, apply between its Load and
\* its Store, the answer the loader holds, the bus, the callers of transition
\* and the retry queue, which may deliver an event it has already dropped.
InTable(id, b, t) == entry[id] # Absent /\ b = entry[id].banned /\ t = entry[id].updatedAt
ReportSays(r, id, b, t) == r # None /\ r.id = id /\ b = r.banned /\ t = r.at
InApply(id, b, t) == \E g \in Goroutines : ReportSays(task[g], id, b, t)
InLoader(id, b, t) == ReportSays(fetched, id, b, t)
InNet(id, b, t)   == \E e \in net : Says(e, id, b, t)
Stamped(c) == call[c] # None /\ call[c].step # "stamp"
InCall(id, b, t)  == \E c \in Callers : Stamped(c) /\ Says(call[c], id, b, t)
InQueue(id, b, t) == \E e \in (1..submitted) \ delivered : Says(payload[e], id, b, t)

Reported(id, b, t) ==
    \/ InTable(id, b, t) \/ InApply(id, b, t) \/ InLoader(id, b, t)
    \/ InNet(id, b, t) \/ InCall(id, b, t) \/ InQueue(id, b, t)

\* A tenant the loader has not reached yet will be reported as the store has it
\* by then, with the time of the snapshot.
Expected(id, b, t) == lpc = "loading" /\ id \in rest /\ b = Truth(id) /\ t = snapshotTime

Known(id, b, t) == Reported(id, b, t) \/ Expected(id, b, t)

\* A report says what the store says, and so does every report that is not
\* older: whatever order they arrive in, the table ends up right.
Right(id) ==
    \E t \in Times :
        /\ Known(id, Truth(id), t)
        /\ \A b \in BOOLEAN, u \in Times : Known(id, b, u) /\ u >= t => b = Truth(id)

\* The tenants for which the startup of the instance is under way or completed,
\* and for which nothing happened that Agreement leaves out.
Followed(id) ==
    /\ subscription = "active" /\ lpc \in {"loading", "loaded"} /\ id \in listed
    /\ id \notin overlapped /\ id \notin raced /\ id \notin missed

\* Between SetState and time.Now, the reports lag behind the store.
RightInv == \A id \in Tenants : Followed(id) => Stamping(id) # {} \/ Right(id)

\* Without a race, one transition at a time is between SetState and time.Now,
\* and it holds what it wrote.
StampInv ==
    \A id \in Tenants : id \notin raced =>
        /\ \A c, d \in Stamping(id) : c = d
        /\ id \notin missed => \A c \in Stamping(id) : call[c].state = tenants[id]

\* No report is from the future.
ClockInv ==
    /\ snapshotTime <= now
    /\ \A id \in Tenants, b \in BOOLEAN, t \in Times : Reported(id, b, t) => t <= now

\* There are no reports about a tenant that does not exist.
MissingInv ==
    \A id \in Tenants : tenants[id] = Missing =>
        /\ Stamping(id) = {}
        /\ \A b \in BOOLEAN, t \in Times : ~Reported(id, b, t)

\* The retry queue has delivered, dropped or still holds what it was given, and
\* it is only used where there is one; the load follows the subscription (New).
Accounted == 1..submitted \subseteq delivered \cup lost \cup Range(waiting)
QueueInv ==
    /\ Accounted
    /\ \A c \in Callers : call[c] # None /\ call[c].step = "enqueue" => QueueSize > 0
    /\ lpc # "unstarted" => subscription # "none"

PropagationInv ==
    /\ PropagationTypeOK /\ CheckerIInv /\ QueueInv
    /\ StampInv /\ ClockInv /\ MissingInv /\ RightInv

\* Steps that move reports around: none is new, and a report that is gone has
\* been superseded by one that is not older.
NothingNew ==
    \A id \in Tenants, b \in BOOLEAN, t \in Times : Reported(id, b, t)' => Reported(id, b, t)
NothingForgotten ==
    \A id \in Tenants, b \in BOOLEAN, t \in Times :
        Reported(id, b, t) /\ subscription = "active" /\ id \notin missed' /\ id \notin overlapped'
            => \E a \in BOOLEAN, u \in Times : u >= t /\ Reported(id, a, u)'
SameStamping == \A id \in Tenants :
    Stamping(id)' = Stamping(id) /\ \A c \in Stamping(id) : call'[c] = call[c]
MovesReports ==
    /\ UNCHANGED <<tenants, now, subscription, raced, lpc, snapshotTime, listed, rest>>
    /\ missed \subseteq missed' /\ overlapped \subseteq overlapped'
    /\ SameStamping /\ NothingNew /\ NothingForgotten

\* Such steps keep the table on its way to the truth.
LEMMA MovesKeep ==
    ASSUME PropagationInv, MovesReports
    PROVE  StampInv' /\ ClockInv' /\ MissingInv' /\ RightInv'
<1>1. StampInv'
  BY SMT DEF PropagationInv, MovesReports, SameStamping, StampInv
<1>2. ClockInv'
  BY DEF PropagationInv, MovesReports, NothingNew, ClockInv
<1>3. MissingInv'
  BY DEF PropagationInv, MovesReports, SameStamping, NothingNew, MissingInv
<1>4. ASSUME NEW id \in Tenants, Followed(id)' PROVE Stamping(id)' # {} \/ Right(id)'
  <2>1. Followed(id) /\ id \notin missed' /\ id \notin overlapped' /\ subscription = "active"
    BY <1>4 DEF Followed, MovesReports
  <2>2. CASE Stamping(id) # {}
    BY <2>2 DEF MovesReports, SameStamping
  <2>3. CASE Right(id)
    <3>1. PICK t \in Times :
             /\ Known(id, Truth(id), t)
             /\ \A b \in BOOLEAN, u \in Times : Known(id, b, u) /\ u >= t => b = Truth(id)
      BY <2>3 DEF Right
    <3>2. Truth(id)' = Truth(id) /\ Truth(id) \in BOOLEAN
      BY DEF Truth, Verdict, MovesReports
    <3>3. \A b, u : Expected(id, b, u)' <=> Expected(id, b, u)
      BY <3>2 DEF Expected, MovesReports
    <3>4. \A b \in BOOLEAN, u \in Times : Known(id, b, u)' => Known(id, b, u)
      BY <3>3 DEF Known, MovesReports, NothingNew
    <3>5. PICK a \in BOOLEAN, u \in Times : u >= t /\ Known(id, a, u)'
      <4>1. CASE Expected(id, Truth(id), t)
        BY <3>2, <3>3, <4>1, SMT DEF Known, Times
      <4>2. CASE Reported(id, Truth(id), t)
        BY <2>1, <3>2, <4>2 DEF Known, MovesReports, NothingForgotten
      <4> QED
        BY <3>1, <4>1, <4>2 DEF Known
    <3>6. a = Truth(id)
      BY <3>1, <3>4, <3>5
    <3>7. \A b \in BOOLEAN, v \in Times : Known(id, b, v)' /\ v >= u => b = Truth(id)
      BY <3>1, <3>4, <3>5, SMT DEF Times
    <3> QED
      BY <3>2, <3>5, <3>6, <3>7 DEF Right
  <2> QED
    BY <2>1, <2>2, <2>3 DEF PropagationInv, RightInv
<1> QED
  BY <1>1, <1>2, <1>3, <1>4 DEF RightInv

-----------------------------------------------------------------------------
\* Reports stay where they are as long as the variables that hold them do.
LEMMA SameTable ==
    ASSUME UNCHANGED <<entry, task, fetched>>
    PROVE  \A id, b, t : /\ InTable(id, b, t)' <=> InTable(id, b, t)
                         /\ InApply(id, b, t)' <=> InApply(id, b, t)
                         /\ InLoader(id, b, t)' <=> InLoader(id, b, t)
BY DEF InTable, InApply, InLoader

\* ... on the bus, ...
LEMMA SameNet == ASSUME net' = net PROVE \A id, b, t : InNet(id, b, t)' <=> InNet(id, b, t)
BY DEF InNet

\* ... in the hands of the callers of transition ...
LEMMA SameCall == ASSUME call' = call PROVE SameStamping /\ \A id, b, t : InCall(id, b, t)' <=> InCall(id, b, t)
BY DEF SameStamping, Stamping, InCall, Stamped

\* ... and in the retry queue.
LEMMA SameQueue ==
    ASSUME UNCHANGED <<submitted, delivered, payload>>
    PROVE  \A id, b, t : InQueue(id, b, t)' <=> InQueue(id, b, t)
BY DEF InQueue

\* A report that some step leaves in place is not forgotten.
LEMMA KeptForgetsNothing ==
    ASSUME \A id \in Tenants, b \in BOOLEAN, t \in Times :
              Reported(id, b, t) /\ subscription = "active" /\ id \notin missed' /\ id \notin overlapped'
                  => Reported(id, b, t)'
    PROVE  NothingForgotten
BY SMT DEF NothingForgotten, Times

\* Dispatch hands the event to the bus, if the checker is subscribed.
LEMMA DispatchStep ==
    ASSUME NEW e, Dispatch(e) \/ UNCHANGED net
    PROVE  /\ \A id, b, t : InNet(id, b, t)' => InNet(id, b, t) \/ Says(e, id, b, t)
           /\ \A id, b, t : InNet(id, b, t) => InNet(id, b, t)'
           /\ Dispatch(e) /\ subscription = "active" =>
                 \A id, b, t : Says(e, id, b, t) => InNet(id, b, t)'
BY DEF Dispatch, InNet, Says

\* A caller that is past its time stamp takes a step.
LEMMA CallerStep ==
    ASSUME PropagationTypeOK, NEW c \in Callers, call[c] # None, call[c].step # "stamp",
           NEW x, x = None \/ x.step # "stamp", call' = [call EXCEPT ![c] = x]
    PROVE  /\ SameStamping
           /\ \A id, b, t : InCall(id, b, t)' =>
                 InCall(id, b, t) \/ (x # None /\ Says(x, id, b, t))
           /\ \A id, b, t : InCall(id, b, t) => InCall(id, b, t)' \/ Says(call[c], id, b, t)
           /\ Says(call[c], call[c].id, Verdict(call[c].state), call[c].at)
           /\ \A id, b, t : Says(call[c], id, b, t) => InCall(id, b, t)
           /\ \A id, b, t : x # None /\ Says(x, id, b, t) => InCall(id, b, t)'
<1>1. \A d \in Callers : call'[d] = IF d = c THEN x ELSE call[d]
  BY DEF PropagationTypeOK
<1>2. SameStamping
  BY <1>1 DEF SameStamping, Stamping
<1>3. \A d \in Callers : Stamped(d)' <=> IF d = c THEN x # None ELSE Stamped(d)
  BY <1>1 DEF Stamped
<1>4. Stamped(c)
  BY DEF Stamped
<1> HIDE DEF Says, Stamped
<1>5. \A id, b, t : InCall(id, b, t)' => InCall(id, b, t) \/ (x # None /\ Says(x, id, b, t))
  BY <1>1, <1>3 DEF InCall
<1>6. \A id, b, t : InCall(id, b, t) => InCall(id, b, t)' \/ Says(call[c], id, b, t)
  BY <1>1, <1>3 DEF InCall
<1>7. \A id, b, t : x # None /\ Says(x, id, b, t) => InCall(id, b, t)'
  BY <1>1, <1>3 DEF InCall
<1>8. \A id, b, t : Says(call[c], id, b, t) => InCall(id, b, t)
  BY <1>4 DEF InCall
<1> QED
  BY <1>2, <1>5, <1>6, <1>7, <1>8 DEF Says

\* The event of a caller says what the caller's record says.
LEMMA EventSays ==
    ASSUME NEW c \in Callers
    PROVE  \A id, b, t : Says(EventOf(c), id, b, t) <=> Says(call[c], id, b, t)
BY DEF EventOf, Says

\* A Publish that succeeds moves the report from its caller to the bus.
LEMMA PublishOKMoves ==
    ASSUME PropagationInv, NEW c \in Callers, PublishOK(c)
    PROVE  MovesReports
<1>1. /\ call[c] # None /\ call[c].step = "publish" /\ Dispatch(EventOf(c))
      /\ call' = [call EXCEPT ![c] = None]
      /\ UNCHANGED <<tenants, raced, now, subscription, missed, submitted, delivered, payload>>
      /\ UNCHANGED <<entry, task, fetched, overlapped, lpc, snapshotTime, listed, rest>>
  BY DEF PublishOK, queueVars, checkerVars, tableVars, loaderVars
<1>2. PropagationTypeOK /\ call[c].step # "stamp"
  BY <1>1 DEF PropagationInv
<1>3. /\ SameStamping
      /\ \A id, b, t : InCall(id, b, t)' => InCall(id, b, t)
      /\ \A id, b, t : InCall(id, b, t) => InCall(id, b, t)' \/ Says(call[c], id, b, t)
      /\ \A id, b, t : Says(call[c], id, b, t) => InCall(id, b, t)
  BY <1>1, <1>2, CallerStep
<1>4. /\ \A id, b, t : InNet(id, b, t)' => InNet(id, b, t) \/ Says(call[c], id, b, t)
      /\ \A id, b, t : InNet(id, b, t) => InNet(id, b, t)'
      /\ subscription = "active" => \A id, b, t : Says(call[c], id, b, t) => InNet(id, b, t)'
  BY <1>1, DispatchStep, EventSays
<1>5. NothingNew
  BY <1>1, <1>3, <1>4, SameTable, SameQueue, SMT DEF NothingNew, Reported
<1>6. NothingForgotten
  <2> SUFFICES ASSUME NEW id \in Tenants, NEW b \in BOOLEAN, NEW t \in Times,
                      Reported(id, b, t), subscription = "active"
               PROVE  Reported(id, b, t)'
    BY KeptForgetsNothing
  <2> QED
    BY <1>1, <1>3, <1>4, SameTable, SameQueue DEF Reported
<1> QED
  BY <1>1, <1>3, <1>5, <1>6 DEF MovesReports

\* A Publish that fails leaves the report with its caller, who enqueues it, or,
\* where there is no retry queue, gives it up: the tenant counts as missed.
LEMMA PublishFailsMoves ==
    ASSUME PropagationInv, NEW c \in Callers, PublishFails(c)
    PROVE  MovesReports
<1> DEFINE y == [call[c] EXCEPT !.step = "enqueue"]
<1>1. /\ call[c] # None /\ call[c].step = "publish"
      /\ Dispatch(EventOf(c)) \/ UNCHANGED net
      /\ \/ call' = [call EXCEPT ![c] = y] /\ missed' = missed
         \/ call' = [call EXCEPT ![c] = None] /\ missed' = missed \cup {call[c].id}
      /\ UNCHANGED <<tenants, raced, now, subscription, submitted, delivered, payload>>
      /\ UNCHANGED <<entry, task, fetched, overlapped, lpc, snapshotTime, listed, rest>>
  BY DEF PublishFails, queueVars, checkerVars, tableVars, loaderVars
<1>2. PropagationTypeOK /\ call[c].step # "stamp" /\ call[c] \in Calls
  BY <1>1 DEF PropagationInv, PropagationTypeOK
<1>3. y \in Calls /\ y.step = "enqueue" /\ y.id = call[c].id /\ y.state = call[c].state /\ y.at = call[c].at
  BY <1>2 DEF Calls
<1> HIDE DEF y
<1>4. PICK x : /\ x = None \/ (x = y /\ x.step # "stamp")
               /\ call' = [call EXCEPT ![c] = x]
               /\ x = y \/ missed' = missed \cup {call[c].id}
  BY <1>1, <1>3
<1>5. /\ x = None \/ x.step # "stamp"
      /\ \A id, b, t : x # None /\ Says(x, id, b, t) => Says(call[c], id, b, t)
      /\ \A id, b, t : x = y /\ Says(call[c], id, b, t) => x # None /\ Says(x, id, b, t)
  BY <1>2, <1>3, <1>4, PropagationAssumption DEF Says
<1>6. /\ SameStamping
      /\ \A id, b, t : InCall(id, b, t)' => InCall(id, b, t) \/ (x # None /\ Says(x, id, b, t))
      /\ \A id, b, t : InCall(id, b, t) => InCall(id, b, t)' \/ Says(call[c], id, b, t)
      /\ \A id, b, t : Says(call[c], id, b, t) => InCall(id, b, t)
      /\ \A id, b, t : x # None /\ Says(x, id, b, t) => InCall(id, b, t)'
  BY <1>1, <1>2, <1>4, <1>5, CallerStep
<1>7. /\ \A id, b, t : InNet(id, b, t)' => InNet(id, b, t) \/ Says(call[c], id, b, t)
      /\ \A id, b, t : InNet(id, b, t) => InNet(id, b, t)'
  BY <1>1, DispatchStep, EventSays
<1>8. NothingNew
  BY <1>1, <1>5, <1>6, <1>7, SameTable, SameQueue, SMT DEF NothingNew, Reported
<1>9. NothingForgotten
  <2> SUFFICES ASSUME NEW id \in Tenants, NEW b \in BOOLEAN, NEW t \in Times,
                      Reported(id, b, t), id \notin missed'
               PROVE  Reported(id, b, t)'
    BY KeptForgetsNothing
  <2>1. Says(call[c], id, b, t) => InCall(id, b, t)'
    BY <1>4, <1>5, <1>6 DEF Says
  <2> QED
    BY <1>1, <1>6, <1>7, <2>1, SameTable, SameQueue DEF Reported
<1> QED
  BY <1>1, <1>6, <1>8, <1>9 DEF MovesReports

\* Enqueue moves the report from its caller to the retry queue, which keeps it
\* until it is delivered, even if it drops the event to make room.
LEMMA EnqueueMoves ==
    ASSUME PropagationInv, NEW c \in Callers, EnqueueEvent(c)
    PROVE  MovesReports
<1>1. /\ call[c] # None /\ call[c].step = "enqueue"
      /\ call' = [call EXCEPT ![c] = None]
      /\ submitted' = submitted + 1 /\ delivered' = delivered
      /\ payload' = Append(payload, EventOf(c))
      /\ UNCHANGED <<tenants, raced, now, subscription, missed, net>>
      /\ UNCHANGED <<entry, task, fetched, overlapped, lpc, snapshotTime, listed, rest>>
  BY DEF EnqueueEvent, Q!Submit, busVars, checkerVars, tableVars, loaderVars
<1>2. PropagationTypeOK /\ call[c].step # "stamp"
  BY <1>1 DEF PropagationInv
<1>3. /\ SameStamping
      /\ \A id, b, t : InCall(id, b, t)' => InCall(id, b, t)
      /\ \A id, b, t : InCall(id, b, t) => InCall(id, b, t)' \/ Says(call[c], id, b, t)
      /\ \A id, b, t : Says(call[c], id, b, t) => InCall(id, b, t)
  BY <1>1, <1>2, CallerStep
<1>4. /\ submitted \in Nat /\ submitted + 1 \notin delivered
      /\ payload'[submitted + 1] = EventOf(c)
      /\ \A e \in 1..submitted : payload'[e] = payload[e]
      /\ \A e \in 1..submitted' : e \in 1..submitted \/ e = submitted + 1
      /\ 1..submitted \subseteq 1..submitted' /\ submitted + 1 \in 1..submitted'
  BY <1>1, <1>2, SMT DEF PropagationTypeOK
<1>5. /\ \A id, b, t : InQueue(id, b, t)' => InQueue(id, b, t) \/ Says(EventOf(c), id, b, t)
      /\ \A id, b, t : InQueue(id, b, t) => InQueue(id, b, t)'
      /\ \A id, b, t : Says(EventOf(c), id, b, t) => InQueue(id, b, t)'
  BY <1>1, <1>4 DEF InQueue
<1>6. NothingNew
  BY <1>1, <1>3, <1>5, EventSays, SameTable, SameNet, SMT DEF NothingNew, Reported
<1>7. NothingForgotten
  <2> SUFFICES ASSUME NEW id \in Tenants, NEW b \in BOOLEAN, NEW t \in Times, Reported(id, b, t)
               PROVE  Reported(id, b, t)'
    BY KeptForgetsNothing
  <2> QED
    BY <1>1, <1>3, <1>5, EventSays, SameTable, SameNet DEF Reported
<1> QED
  BY <1>1, <1>3, <1>6, <1>7 DEF MovesReports

\* A retry moves the report from the queue to the bus.
LEMMA QueueMoves ==
    ASSUME PropagationInv, NEW e, QueueDelivers(e) \/ QueueFails(e)
    PROVE  MovesReports
<1>1. /\ e \in (1..submitted) \ delivered /\ Dispatch(payload[e])
      /\ delivered' = delivered \/ delivered' = delivered \cup {e}
      /\ UNCHANGED <<submitted, payload, call, tenants, raced, now, subscription, missed>>
      /\ UNCHANGED <<entry, task, fetched, overlapped, lpc, snapshotTime, listed, rest>>
  BY DEF QueueDelivers, QueueFails, Q!Deliver, queueVars, adminVars, checkerVars, tableVars, loaderVars
<1>2. /\ \A id, b, t : InNet(id, b, t)' => InNet(id, b, t) \/ Says(payload[e], id, b, t)
      /\ \A id, b, t : InNet(id, b, t) => InNet(id, b, t)'
      /\ subscription = "active" => \A id, b, t : Says(payload[e], id, b, t) => InNet(id, b, t)'
  BY <1>1, DispatchStep
<1>3. /\ \A id, b, t : InQueue(id, b, t)' => InQueue(id, b, t)
      /\ \A id, b, t : InQueue(id, b, t) => InQueue(id, b, t)' \/ Says(payload[e], id, b, t)
      /\ \A id, b, t : Says(payload[e], id, b, t) => InQueue(id, b, t)
  BY <1>1 DEF InQueue
<1>4. NothingNew
  BY <1>1, <1>2, <1>3, SameTable, SameCall, SMT DEF NothingNew, Reported
<1>5. NothingForgotten
  <2> SUFFICES ASSUME NEW id \in Tenants, NEW b \in BOOLEAN, NEW t \in Times,
                      Reported(id, b, t), subscription = "active"
               PROVE  Reported(id, b, t)'
    BY KeptForgetsNothing
  <2> QED
    BY <1>1, <1>2, <1>3, SameTable, SameCall DEF Reported
<1> QED
  BY <1>1, <1>4, <1>5, SameCall DEF MovesReports

\* The queue lets go of an event it has delivered or given up.
LEMMA ReleaseMoves ==
    ASSUME PropagationInv, NEW i, QueueReleases(i)
    PROVE  MovesReports
<1>1. /\ UNCHANGED <<submitted, delivered, payload, net, call, tenants, raced, now, subscription, missed>>
      /\ UNCHANGED <<entry, task, fetched, overlapped, lpc, snapshotTime, listed, rest>>
  BY DEF QueueReleases, Q!Release, busVars, adminVars, checkerVars, tableVars, loaderVars
<1>2. \A id, b, t : Reported(id, b, t)' <=> Reported(id, b, t)
  BY <1>1, SameTable, SameNet, SameCall, SameQueue, SMT DEF Reported
<1> QED
  BY <1>1, <1>2, SameCall, KeptForgetsNothing DEF MovesReports, NothingNew

\* The bus may lose a message: the tenant counts as missed from then on.
LEMMA LoseMoves ==
    ASSUME PropagationInv, NEW e, LoseEvent(e)
    PROVE  MovesReports
<1>1. /\ e \in net /\ net' = net \ {e} /\ missed' = missed \cup {e.id}
      /\ UNCHANGED <<submitted, delivered, payload, call, tenants, raced, now, subscription>>
      /\ UNCHANGED <<entry, task, fetched, overlapped, lpc, snapshotTime, listed, rest>>
  BY DEF LoseEvent, queueVars, adminVars, checkerVars, tableVars, loaderVars
<1>2. /\ \A id, b, t : InNet(id, b, t)' => InNet(id, b, t)
      /\ \A id, b, t : InNet(id, b, t) => InNet(id, b, t)' \/ id = e.id
  BY <1>1 DEF InNet, Says
<1>3. ASSUME NEW id \in Tenants, NEW b \in BOOLEAN, NEW t \in Times, Reported(id, b, t)'
      PROVE  Reported(id, b, t)
  BY <1>1, <1>2, <1>3, SameTable, SameCall, SameQueue DEF Reported
<1>4. NothingForgotten
  <2> SUFFICES ASSUME NEW id \in Tenants, NEW b \in BOOLEAN, NEW t \in Times,
                      Reported(id, b, t), id \notin missed'
               PROVE  Reported(id, b, t)'
    BY KeptForgetsNothing
  <2> QED
    BY <1>1, <1>2, SameTable, SameCall, SameQueue DEF Reported
<1> QED
  BY <1>1, <1>3, <1>4, SameCall DEF MovesReports, NothingNew

\* The Load of apply: the report is on its way to the table, or the table holds
\* a newer one.
LEMMA LoadMoves ==
    ASSUME CheckerIInv, NEW g \in Goroutines, NEW r \in Reports, Load(g, r)
    PROVE  /\ overlapped \subseteq overlapped'
           /\ \A id, b, t : InTable(id, b, t)' <=> InTable(id, b, t)
           /\ \A id, b, t : InApply(id, b, t)' => InApply(id, b, t) \/ ReportSays(r, id, b, t)
           /\ \A id, b, t : InApply(id, b, t) => InApply(id, b, t)'
           /\ \A id, b, t : ReportSays(r, id, b, t) =>
                 \/ InApply(id, b, t)'
                 \/ \E a \in BOOLEAN, u \in Times : u >= t /\ InTable(id, a, u)
<1>1. /\ task[g] = None /\ entry' = entry /\ overlapped \subseteq overlapped'
      /\ \/ Newer(r) /\ task' = task
         \/ task' = [task EXCEPT ![g] = r]
      /\ task \in [Goroutines -> Reports \cup {None}]
      /\ entry \in [Tenants -> Entries \cup {Absent}]
  BY DEF Load, CheckerIInv, CheckerTypeOK
<1>2. \A id, b, t : InTable(id, b, t)' <=> InTable(id, b, t)
  BY <1>1 DEF InTable
<1>3. r.id \in Tenants /\ r.at \in Times /\ \A id, b, t : ReportSays(r, id, b, t) => id = r.id /\ t = r.at
  BY DEF Reports, ReportSays
<1>4. CASE Newer(r) /\ task' = task
  <2>1. \A id, b, t : InApply(id, b, t)' <=> InApply(id, b, t)
    BY <1>4 DEF InApply
  <2>2. /\ entry[r.id] # Absent /\ entry[r.id] \in Entries /\ entry[r.id].updatedAt >= r.at
    BY <1>1, <1>3, <1>4, CheckerAssumption, SMT DEF Newer, Absent, Entries, Times
  <2>3. entry[r.id].banned \in BOOLEAN /\ entry[r.id].updatedAt \in Times
    BY <2>2 DEF Entries
  <2>4. \E a \in BOOLEAN, u \in Times : u >= r.at /\ InTable(r.id, a, u)
    BY <2>2, <2>3 DEF InTable
  <2> QED
    BY <1>1, <1>2, <1>3, <2>1, <2>4, SMT
<1>5. CASE task' = [task EXCEPT ![g] = r]
  <2>1. \A h \in Goroutines : task'[h] = IF h = g THEN r ELSE task[h]
    BY <1>1, <1>5
  <2>2. \A id, b, t : ~ReportSays(None, id, b, t)
    BY DEF ReportSays
  <2>3. /\ \A id, b, t : InApply(id, b, t)' => InApply(id, b, t) \/ ReportSays(r, id, b, t)
        /\ \A id, b, t : InApply(id, b, t) => InApply(id, b, t)'
        /\ \A id, b, t : ReportSays(r, id, b, t) => InApply(id, b, t)'
    BY <1>1, <2>1, <2>2 DEF InApply
  <2> QED
    BY <1>1, <1>2, <2>3
<1> QED
  BY <1>1, <1>4, <1>5

\* The handler of the BanChecker takes an event off the bus and into apply, which
\* drops it only if the table has a report that is not older.
LEMMA ReceiveMoves ==
    ASSUME PropagationInv, NEW g \in Handlers, NEW e \in net, Receive(g, e)
    PROVE  MovesReports
<1> DEFINE r == [id |-> e.id, banned |-> e.state = "Banned", at |-> e.at]
<1>1. /\ g \in Goroutines /\ Load(g, r) /\ net' = net \ {e}
      /\ UNCHANGED <<submitted, delivered, payload, call, tenants, raced, now, subscription, missed>>
      /\ UNCHANGED <<fetched, lpc, snapshotTime, listed, rest>>
  BY DEF Receive, HandleEvent, queueVars, adminVars, loaderVars, Goroutines
<1>2. e.id \in Tenants /\ e.at \in Times
  BY DEF PropagationInv, PropagationTypeOK, Events, Times
<1>3. r \in Reports
  BY <1>2 DEF Reports
<1>4. r # None /\ r.id = e.id /\ r.at = e.at /\ r.banned = Verdict(e.state)
  BY <1>3, CheckerAssumption DEF Verdict
<1> HIDE DEF r
<1>5. \A id, b, t : ReportSays(r, id, b, t) <=> Says(e, id, b, t)
  BY <1>4 DEF ReportSays, Says
<1>6. /\ \A id, b, t : InNet(id, b, t)' => InNet(id, b, t)
      /\ \A id, b, t : InNet(id, b, t) => InNet(id, b, t)' \/ Says(e, id, b, t)
      /\ \A id, b, t : Says(e, id, b, t) => InNet(id, b, t)
  BY <1>1 DEF InNet
<1>7. /\ overlapped \subseteq overlapped'
      /\ \A id, b, t : InTable(id, b, t)' <=> InTable(id, b, t)
      /\ \A id, b, t : InApply(id, b, t)' => InApply(id, b, t) \/ ReportSays(r, id, b, t)
      /\ \A id, b, t : InApply(id, b, t) => InApply(id, b, t)'
      /\ \A id, b, t : ReportSays(r, id, b, t) =>
            \/ InApply(id, b, t)'
            \/ \E a \in BOOLEAN, u \in Times : u >= t /\ InTable(id, a, u)
  BY <1>1, <1>3, LoadMoves DEF PropagationInv
<1>8. \A id, b, t : InLoader(id, b, t)' <=> InLoader(id, b, t)
  BY <1>1 DEF InLoader
<1>9. NothingNew
  BY <1>1, <1>5, <1>6, <1>7, <1>8, SameCall, SameQueue DEF NothingNew, Reported
<1>10. NothingForgotten
  <2> SUFFICES ASSUME NEW id \in Tenants, NEW b \in BOOLEAN, NEW t \in Times, Reported(id, b, t)
               PROVE  \E a \in BOOLEAN, u \in Times : u >= t /\ Reported(id, a, u)'
    BY DEF NothingForgotten
  <2>1. CASE Reported(id, b, t)'
    BY <2>1, SMT DEF Times
  <2>2. CASE ~Reported(id, b, t)'
    <3>1. Says(e, id, b, t)
      BY <1>1, <1>6, <1>7, <1>8, <2>2, SameCall, SameQueue DEF Reported
    <3>2. PICK a \in BOOLEAN, u \in Times : u >= t /\ InTable(id, a, u)
      BY <1>5, <1>7, <2>2, <3>1 DEF Reported
    <3> QED
      BY <1>7, <3>2 DEF Reported
  <2> QED
    BY <2>1, <2>2
<1> QED
  BY <1>1, <1>7, <1>9, <1>10, SameCall DEF MovesReports

\* The loader takes its answer into apply, in the same way.
LEMMA LoadApplyMoves ==
    ASSUME PropagationInv, LoadApply, UNCHANGED <<adminVars, now, busVars, queueVars>>
    PROVE  MovesReports
<1>0. CheckerIInv
  BY DEF PropagationInv
<1>1. /\ Loader \in Goroutines /\ fetched \in Reports /\ Load(Loader, fetched) /\ fetched' = None
      /\ UNCHANGED <<submitted, delivered, payload, call, tenants, raced, now, subscription, missed, net>>
      /\ UNCHANGED <<lpc, snapshotTime, listed, rest>>
  BY <1>0 DEF LoadApply, queueVars, adminVars, busVars, Goroutines, CheckerIInv, CheckerTypeOK
<1>2. /\ overlapped \subseteq overlapped'
      /\ \A id, b, t : InTable(id, b, t)' <=> InTable(id, b, t)
      /\ \A id, b, t : InApply(id, b, t)' => InApply(id, b, t) \/ InLoader(id, b, t)
      /\ \A id, b, t : InApply(id, b, t) => InApply(id, b, t)'
      /\ \A id, b, t : InLoader(id, b, t) =>
            \/ InApply(id, b, t)'
            \/ \E a \in BOOLEAN, u \in Times : u >= t /\ InTable(id, a, u)
  BY <1>1, <1>0, LoadMoves DEF InLoader
<1>3. \A id, b, t : ~InLoader(id, b, t)'
  BY <1>1 DEF InLoader, ReportSays
<1>4. NothingNew
  BY <1>1, <1>2, <1>3, SameNet, SameCall, SameQueue DEF NothingNew, Reported
<1>5. NothingForgotten
  <2> SUFFICES ASSUME NEW id \in Tenants, NEW b \in BOOLEAN, NEW t \in Times, Reported(id, b, t)
               PROVE  \E a \in BOOLEAN, u \in Times : u >= t /\ Reported(id, a, u)'
    BY DEF NothingForgotten
  <2>1. CASE Reported(id, b, t)'
    BY <2>1, SMT DEF Times
  <2>2. CASE ~Reported(id, b, t)'
    <3>1. PICK a \in BOOLEAN, u \in Times : u >= t /\ InTable(id, a, u)
      BY <1>1, <1>2, <2>2, SameNet, SameCall, SameQueue DEF Reported
    <3> QED
      BY <1>2, <3>1 DEF Reported
  <2> QED
    BY <2>1, <2>2
<1> QED
  BY <1>1, <1>2, <1>4, <1>5, SameCall DEF MovesReports

\* The Store of apply: without an overlap, it replaces nothing newer.
LEMMA StoreMoves ==
    ASSUME PropagationInv, NEW g \in Goroutines, StoreReport(g)
    PROVE  MovesReports
<1> DEFINE r == task[g]
<1>0. /\ task \in [Goroutines -> Reports \cup {None}] /\ entry \in [Tenants -> Entries \cup {Absent}]
      /\ SerialInv
  BY DEF PropagationInv, CheckerIInv, CheckerInv, CheckerTypeOK
<1>1. /\ task[g] # None
      /\ entry' = [entry EXCEPT ![task[g].id] = [banned |-> task[g].banned, updatedAt |-> task[g].at]]
      /\ task' = [task EXCEPT ![g] = None]
      /\ UNCHANGED <<submitted, delivered, payload, call, tenants, raced, now, subscription, missed, net>>
      /\ UNCHANGED <<fetched, overlapped, lpc, snapshotTime, listed, rest>>
  BY DEF StoreReport, Store, queueVars, adminVars, busVars, loaderVars
<1>2. r \in Reports /\ r.id \in Tenants /\ r.at \in Times /\ r.banned \in BOOLEAN
  BY <1>0, <1>1 DEF Reports
<1>3. /\ entry'[r.id].banned = r.banned /\ entry'[r.id].updatedAt = r.at /\ entry'[r.id] # Absent
      /\ \A id \in Tenants : id # r.id => entry'[id] = entry[id]
  BY <1>0, <1>1, <1>2, SMT DEF Absent, Times
<1>4. \A h \in Goroutines : task'[h] = IF h = g THEN None ELSE task[h]
  BY <1>0, <1>1
<1>5. r.id \notin overlapped => r.at >= entry[r.id].updatedAt
  BY <1>0, <1>1 DEF SerialInv
<1>6. \A id, b, t : ReportSays(r, id, b, t) <=> id = r.id /\ b = r.banned /\ t = r.at
  BY <1>1 DEF ReportSays
<1> HIDE DEF r
<1>7. /\ \A id \in Tenants, b \in BOOLEAN, t \in Times :
            InTable(id, b, t)' => InTable(id, b, t) \/ ReportSays(r, id, b, t)
      /\ \A id \in Tenants, b \in BOOLEAN, t \in Times : ReportSays(r, id, b, t) => InTable(id, b, t)'
      /\ \A id \in Tenants, b \in BOOLEAN, t \in Times : InTable(id, b, t) =>
            InTable(id, b, t)' \/ (id = r.id /\ t = entry[r.id].updatedAt)
  BY <1>2, <1>3, <1>6, SMT DEF InTable
<1>8. \A id, b, t : ~ReportSays(None, id, b, t)
  BY DEF ReportSays
<1>9. /\ \A id, b, t : InApply(id, b, t)' => InApply(id, b, t)
      /\ \A id, b, t : InApply(id, b, t) => InApply(id, b, t)' \/ ReportSays(r, id, b, t)
      /\ \A id, b, t : ReportSays(r, id, b, t) => InApply(id, b, t)
  BY <1>4, <1>8 DEF InApply, r
<1>10. \A id, b, t : InLoader(id, b, t)' <=> InLoader(id, b, t)
  BY <1>1 DEF InLoader
<1>11. NothingNew
  BY <1>1, <1>7, <1>9, <1>10, SameNet, SameCall, SameQueue DEF NothingNew, Reported
<1>12. NothingForgotten
  <2> SUFFICES ASSUME NEW id \in Tenants, NEW b \in BOOLEAN, NEW t \in Times,
                      Reported(id, b, t), id \notin overlapped
               PROVE  \E a \in BOOLEAN, u \in Times : u >= t /\ Reported(id, a, u)'
    BY <1>1 DEF NothingForgotten
  <2>1. CASE Reported(id, b, t)'
    BY <2>1, SMT DEF Times
  <2>2. CASE ~Reported(id, b, t)'
    <3>1. id = r.id /\ t = entry[r.id].updatedAt
      BY <1>1, <1>7, <1>9, <1>10, <2>2, SameNet, SameCall, SameQueue DEF Reported
    <3>2. PICK a \in BOOLEAN, u \in Times : a = r.banned /\ u = r.at
      BY <1>2
    <3>3. ReportSays(r, id, a, u) /\ u >= t
      BY <1>5, <1>6, <3>1, <3>2
    <3>4. InTable(id, a, u)'
      BY <1>7, <3>3
    <3> QED
      BY <3>3, <3>4 DEF Reported
  <2> QED
    BY <2>1, <2>2
<1> QED
  BY <1>1, <1>11, <1>12, SameCall DEF MovesReports

-----------------------------------------------------------------------------
\* The other steps keep every report where it is and add at most one.
\* SetState opens a transition of the tenant: a second one is a race.
LEMMA SetStateKeeps ==
    ASSUME PropagationInv, NEW c \in Callers, NEW i \in Tenants, NEW state \in States,
           SetState(c, i, state)
    PROVE  StampInv' /\ ClockInv' /\ MissingInv' /\ RightInv'
<1> DEFINE x == [step |-> "stamp", id |-> i, state |-> state, at |-> 0]
<1>0. /\ call \in [Callers -> Calls \cup {None}] /\ tenants \in [Tenants -> States \cup {Missing}]
      /\ StampInv /\ ClockInv /\ MissingInv /\ RightInv
  BY DEF PropagationInv, PropagationTypeOK, M!TypeOK
<1>1. /\ call[c] = None /\ call' = [call EXCEPT ![c] = x]
      /\ tenants[i] # Missing /\ tenants' = [tenants EXCEPT ![i] = state]
      /\ raced' = IF Stamping(i) = {} THEN raced ELSE raced \cup {i}
      /\ UNCHANGED <<submitted, delivered, payload, now, subscription, missed, net>>
      /\ UNCHANGED <<entry, task, fetched, overlapped, lpc, snapshotTime, listed, rest>>
  BY DEF SetState, M!SetState, M!Found, queueVars, busVars, checkerVars, tableVars, loaderVars
<1>2. x \in Calls /\ x # None
  BY PropagationAssumption, CheckerAssumption, SMT DEF Calls, Times
<1>3. x.step = "stamp" /\ x.id = i /\ x.state = state
  OBVIOUS
<1> HIDE DEF x
<1>4. /\ \A d \in Callers : call'[d] = IF d = c THEN x ELSE call[d]
      /\ \A id \in Tenants : tenants'[id] = IF id = i THEN state ELSE tenants[id]
  BY <1>0, <1>1
<1>5. /\ \A id \in Tenants : id # i => Stamping(id)' = Stamping(id)
      /\ Stamping(i)' = Stamping(i) \cup {c}
      /\ \A id \in Tenants : c \notin Stamping(id)
  BY <1>1, <1>2, <1>3, <1>4, SMT DEF Stamping
<1>6. \A id, b, t : InCall(id, b, t)' <=> InCall(id, b, t)
  <2>1. \A d \in Callers : Stamped(d)' <=> Stamped(d)
    BY <1>1, <1>3, <1>4 DEF Stamped
  <2>2. ~Stamped(c)
    BY <1>1 DEF Stamped
  <2> QED
    BY <1>4, <2>1, <2>2 DEF InCall
<1>7. \A id, b, t : Reported(id, b, t)' <=> Reported(id, b, t)
  BY <1>1, <1>6, SameTable, SameNet, SameQueue, SMT DEF Reported
<1>8. StampInv'
  <2> SUFFICES ASSUME NEW id \in Tenants, id \notin raced'
               PROVE  /\ \A d, e \in Stamping(id)' : d = e
                      /\ id \notin missed => \A d \in Stamping(id)' : call'[d].state = tenants'[id]
    BY <1>1 DEF StampInv
  <2>1. CASE id = i
    <3>1. Stamping(i) = {} /\ Stamping(i)' = {c}
      BY <1>1, <1>5, <2>1
    <3> QED
      BY <1>3, <1>4, <2>1, <3>1
  <2>2. CASE id # i
    <3>1. Stamping(id)' = Stamping(id) /\ tenants'[id] = tenants[id] /\ id \notin raced
      BY <1>1, <1>4, <1>5, <2>2
    <3>2. \A d \in Stamping(id) : call'[d] = call[d]
      BY <1>4, <1>5 DEF Stamping
    <3> QED
      BY <1>0, <3>1, <3>2, SMT DEF StampInv
  <2> QED
    BY <2>1, <2>2
<1>9. ClockInv' /\ MissingInv'
  <2>1. \A id \in Tenants : tenants'[id] = Missing => id # i /\ tenants[id] = Missing
    BY <1>4, PropagationAssumption
  <2> QED
    BY <1>0, <1>1, <1>5, <1>7, <2>1 DEF ClockInv, MissingInv
<1>10. RightInv'
  <2> SUFFICES ASSUME NEW id \in Tenants, Followed(id)', id # i PROVE Stamping(id)' # {} \/ Right(id)'
    BY <1>5 DEF RightInv
  <2>1. Followed(id) /\ Stamping(id)' = Stamping(id)
    BY <1>1, <1>5 DEF Followed
  <2>2. Truth(id)' = Truth(id)
    BY <1>4 DEF Truth
  <2>3. \A b, t : Known(id, b, t)' <=> Known(id, b, t)
    BY <1>1, <1>7, <2>2 DEF Known, Expected
  <2> QED
    BY <1>0, <2>1, <2>2, <2>3 DEF RightInv, Right
<1> QED
  BY <1>8, <1>9, <1>10

\* Timestamp: the transition gets the newest time stamp, so that its event
\* outdoes all other reports, and it says what the store says.
LEMMA StampKeeps ==
    ASSUME PropagationInv, NEW c \in Callers, Stamp(c)
    PROVE  StampInv' /\ ClockInv' /\ MissingInv' /\ RightInv'
<1> DEFINE x == [step |-> "publish", id |-> call[c].id, state |-> call[c].state, at |-> now + 1]
<1>0. /\ call \in [Callers -> Calls \cup {None}]
      /\ StampInv /\ ClockInv /\ MissingInv /\ RightInv
  BY DEF PropagationInv, PropagationTypeOK
<1>1. /\ call[c] # None /\ call[c].step = "stamp" /\ call' = [call EXCEPT ![c] = x]
      /\ now \in Nat /\ now < MaxTime /\ now' = now + 1
      /\ UNCHANGED <<submitted, delivered, payload, tenants, raced, subscription, missed, net>>
      /\ UNCHANGED <<entry, task, fetched, overlapped, lpc, snapshotTime, listed, rest>>
  BY SMT DEF Stamp, queueVars, busVars, checkerVars, tableVars, loaderVars, PropagationInv, PropagationTypeOK, Times
<1>2. call[c] \in Calls
  BY <1>0, <1>1
<1>3. /\ x \in Calls /\ x # None /\ x.step = "publish" /\ x.id = call[c].id
      /\ x.state = call[c].state /\ x.at = now + 1 /\ call[c].id \in Tenants /\ now + 1 \in Times
  BY <1>1, <1>2, PropagationAssumption, CheckerAssumption, SMT DEF Calls, Times
<1> HIDE DEF x
<1>4. PICK i \in Tenants : i = call[c].id
  BY <1>3
<1>5. \A d \in Callers : call'[d] = IF d = c THEN x ELSE call[d]
  BY <1>0, <1>1
<1>6. /\ \A id \in Tenants : Stamping(id)' = Stamping(id) \ {c}
      /\ \A id \in Tenants : c \in Stamping(id) <=> id = i
  BY <1>1, <1>3, <1>4, <1>5 DEF Stamping
<1>7. /\ \A id, b, t : InCall(id, b, t)' => InCall(id, b, t) \/ Says(x, id, b, t)
      /\ \A id, b, t : InCall(id, b, t) => InCall(id, b, t)'
      /\ \A id, b, t : Says(x, id, b, t) => InCall(id, b, t)'
  <2>1. \A d \in Callers : Stamped(d)' <=> d = c \/ Stamped(d)
    BY <1>1, <1>3, <1>5 DEF Stamped
  <2>2. ~Stamped(c)
    BY <1>1 DEF Stamped
  <2> QED
    BY <1>5, <2>1, <2>2 DEF InCall
<1>8. /\ \A id, b, t : Reported(id, b, t)' => Reported(id, b, t) \/ Says(x, id, b, t)
      /\ \A id, b, t : Reported(id, b, t) => Reported(id, b, t)'
      /\ \A id, b, t : Says(x, id, b, t) => Reported(id, b, t)'
  BY <1>1, <1>7, SameTable, SameNet, SameQueue, SMT DEF Reported
<1>9. \A id, b, t : Says(x, id, b, t) <=> id = i /\ b = Verdict(call[c].state) /\ t = now + 1
  BY <1>3, <1>4 DEF Says
<1>10. StampInv'
  <2>1. \A id \in Tenants : \A d \in Stamping(id)' : d \in Stamping(id) /\ call'[d] = call[d]
    BY <1>5, <1>6, SMT DEF Stamping
  <2> QED
    BY <1>0, <1>1, <2>1, SMT DEF StampInv
<1>11. ClockInv'
  BY <1>0, <1>1, <1>8, <1>9, SMTT(30) DEF ClockInv, CheckerTypeOK, PropagationInv, CheckerIInv, Times
<1>12. MissingInv'
  <2>1. tenants[i] # Missing
    BY <1>0, <1>6 DEF MissingInv
  <2> QED
    BY <1>0, <1>1, <1>6, <1>8, <1>9, <2>1, SMT DEF MissingInv
<1>13. RightInv'
  <2> SUFFICES ASSUME NEW id \in Tenants, Followed(id)' PROVE Stamping(id)' # {} \/ Right(id)'
    BY DEF RightInv
  <2>1. Followed(id)
    BY <1>1 DEF Followed
  <2>2. Truth(id)' = Truth(id) /\ Truth(id) \in BOOLEAN
    BY <1>1 DEF Truth, Verdict
  <2>3. \A b, t : Expected(id, b, t)' <=> Expected(id, b, t)
    BY <1>1, <2>2 DEF Expected
  <2>4. CASE id = i
    <3>1. Verdict(call[c].state) = Truth(id)
      BY <1>0, <1>6, <2>1, <2>4 DEF StampInv, Followed, Truth
    <3>2. PICK t \in Times : t = now + 1
      BY <1>3
    <3>3. Known(id, Truth(id), t)'
      <4>1. Says(x, id, Truth(id), t)
        BY <1>9, <2>4, <3>1, <3>2
      <4>2. PICK b : b = Truth(id)
        OBVIOUS
      <4>3. Reported(id, b, t)'
        BY <1>8, <4>1, <4>2
      <4> QED
        BY <2>2, <4>2, <4>3 DEF Known
    <3>4. ASSUME NEW b \in BOOLEAN, NEW u \in Times, Known(id, b, u)', u >= t PROVE b = Truth(id)
      <4>1. CASE Reported(id, b, u)
        BY <1>0, <1>1, <3>2, <3>4, <4>1, SMT DEF ClockInv, Times
      <4>2. CASE Says(x, id, b, u)
        BY <1>9, <3>1, <4>2
      <4>3. CASE Expected(id, b, u)
        BY <4>3 DEF Expected
      <4> QED
        BY <1>8, <2>3, <3>4, <4>1, <4>2, <4>3 DEF Known
    <3> QED
      BY <2>2, <3>3, <3>4 DEF Right
  <2>5. CASE id # i
    <3>1. \A b, t : Known(id, b, t)' <=> Known(id, b, t)
      BY <1>8, <1>9, <2>3, <2>5, SMT DEF Known
    <3>2. Stamping(id)' = Stamping(id)
      BY <1>6, <2>5
    <3> QED
      BY <1>0, <2>1, <2>2, <3>1, <3>2 DEF RightInv, Right
  <2> QED
    BY <2>4, <2>5
<1> QED
  BY <1>10, <1>11, <1>12, <1>13

\* Steps that touch nothing that holds a report.
LEMMA StillReports ==
    ASSUME UNCHANGED <<entry, task, fetched, net, call, submitted, delivered, payload>>
    PROVE  SameStamping /\ \A id, b, t : Reported(id, b, t)' <=> Reported(id, b, t)
BY SameTable, SameNet, SameCall, SameQueue, SMT DEF Reported

\* Create and Update, through AdminStore: a tenant that is created has no report
\* yet, but is expected; one that is updated is not followed any more.
LEMMA WriteKeeps ==
    ASSUME PropagationInv, NEW i \in Tenants, NEW state \in States,
           Create(i, state) \/ Update(i, state)
    PROVE  StampInv' /\ ClockInv' /\ MissingInv' /\ RightInv'
<1>0. /\ tenants \in [Tenants -> States \cup {Missing}]
      /\ StampInv /\ ClockInv /\ MissingInv /\ RightInv
  BY DEF PropagationInv, PropagationTypeOK, M!TypeOK
<1>1. /\ \/ tenants[i] = Missing /\ missed' = missed
         \/ missed' = missed \cup {i}
      /\ tenants' = [tenants EXCEPT ![i] = state]
      /\ UNCHANGED <<submitted, delivered, payload, now, subscription, net, call, raced>>
      /\ UNCHANGED <<entry, task, fetched, overlapped, lpc, snapshotTime, listed, rest>>
  BY DEF Create, Update, M!Create, M!Update, M!Found, queueVars, busVars, checkerVars, tableVars, loaderVars
<1>2. \A id \in Tenants : tenants'[id] = IF id = i THEN state ELSE tenants[id]
  BY <1>0, <1>1
<1>3. SameStamping /\ \A id, b, t : Reported(id, b, t)' <=> Reported(id, b, t)
  BY <1>1, StillReports
<1>4. StampInv'
  BY <1>0, <1>1, <1>2, <1>3, SMT DEF StampInv, SameStamping, MissingInv
<1>5. ClockInv' /\ MissingInv'
  <2>1. \A id \in Tenants : tenants'[id] = Missing => tenants[id] = Missing
    BY <1>2, PropagationAssumption
  <2> QED
    BY <1>0, <1>1, <1>3, <2>1, SMT DEF ClockInv, MissingInv, SameStamping
<1>6. RightInv'
  <2> SUFFICES ASSUME NEW id \in Tenants, Followed(id)' PROVE Stamping(id)' # {} \/ Right(id)'
    BY DEF RightInv
  <2>1. Followed(id) /\ Stamping(id)' = Stamping(id)
    BY <1>1, <1>3 DEF Followed, SameStamping
  <2>2. CASE id # i
    <3>1. Truth(id)' = Truth(id)
      BY <1>2, <2>2 DEF Truth
    <3>2. \A b, t : Known(id, b, t)' <=> Known(id, b, t)
      BY <1>1, <1>3, <3>1 DEF Known, Expected
    <3> QED
      BY <1>0, <2>1, <3>1, <3>2 DEF RightInv, Right
  <2>3. CASE id = i
    <3>1. Stamping(id) = {} /\ \A b \in BOOLEAN, t \in Times : ~Reported(id, b, t)
      BY <1>0, <1>1, <2>1, <2>3 DEF MissingInv, Followed
    <3>2. PICK t \in Times : Known(id, Truth(id), t)
      BY <1>0, <2>1, <3>1 DEF RightInv, Right
    <3>0. Truth(id) \in BOOLEAN
      BY DEF Truth, Verdict
    <3>3. Expected(id, Truth(id), t)
      BY <3>0, <3>1, <3>2 DEF Known
    <3>4. Expected(id, Truth(id), t)'
      BY <1>1, <3>3 DEF Expected
    <3>5. \A b \in BOOLEAN, u \in Times : Known(id, b, u)' => b = Truth(id)'
      BY <1>3, <3>1 DEF Known, Expected
    <3> QED
      BY <3>4, <3>5 DEF Right, Known
  <2> QED
    BY <2>2, <2>3
<1> QED
  BY <1>4, <1>5, <1>6

\* LoadInitialBannedList reads its clock: from now on the listed tenants are
\* expected, with a time stamp that is newer than all reports.
LEMMA BeginLoadKeeps ==
    ASSUME PropagationInv, BeginLoad
    PROVE  StampInv' /\ ClockInv' /\ MissingInv' /\ RightInv'
<1>0. StampInv /\ ClockInv /\ MissingInv
  BY DEF PropagationInv
<1>1. /\ now \in Nat /\ now < MaxTime /\ now' = now + 1 /\ lpc' = "loading"
      /\ snapshotTime' = now + 1 /\ listed' \subseteq rest'
      /\ UNCHANGED <<submitted, delivered, payload, net, call, raced, tenants, missed>>
      /\ UNCHANGED <<entry, task, fetched>>
  BY CheckerAssumption, SMT DEF BeginLoad, LoadBegin, queueVars, busVars, adminVars, tableVars,
        PropagationInv, PropagationTypeOK, Times
<1>2. SameStamping /\ \A id, b, t : Reported(id, b, t)' <=> Reported(id, b, t)
  BY <1>1, StillReports
<1>3. StampInv' /\ MissingInv'
  BY <1>0, <1>1, <1>2, SMT DEF StampInv, MissingInv, SameStamping
<1>4. ClockInv'
  BY <1>0, <1>1, <1>2, SMT DEF ClockInv, Times
<1>5. PICK t \in Times : t = now + 1
  BY <1>1, CheckerAssumption, SMT DEF Times
<1>6. ASSUME NEW id \in Tenants, Followed(id)' PROVE Right(id)'
  <2>1. Expected(id, Truth(id), t)'
    BY <1>1, <1>5, <1>6 DEF Expected, Followed
  <2>2. \A b \in BOOLEAN, u \in Times : Reported(id, b, u)' => ~(u >= t)
    BY <1>0, <1>1, <1>2, <1>5, SMT DEF ClockInv, Times
  <2>3. \A b, u : Expected(id, b, u)' => b = Truth(id)'
    BY DEF Expected
  <2> QED
    BY <2>1, <2>2, <2>3 DEF Right, Known
<1> QED
  BY <1>3, <1>4, <1>6 DEF RightInv

\* The loader gets the answer that was expected.
LEMMA FetchKeeps ==
    ASSUME PropagationInv, NEW i \in Tenants, FetchState(i)
    PROVE  StampInv' /\ ClockInv' /\ MissingInv' /\ RightInv'
<1> DEFINE r == [id |-> i, banned |-> M!IsBanned(i), at |-> snapshotTime]
<1>0. /\ StampInv /\ ClockInv /\ MissingInv /\ RightInv /\ snapshotTime \in Times
  BY DEF PropagationInv, CheckerIInv, CheckerTypeOK
<1>1. /\ tenants[i] # Missing /\ lpc = "loading" /\ i \in rest
      /\ fetched = None /\ fetched' = r /\ rest' = rest \ {i}
      /\ UNCHANGED <<submitted, delivered, payload, net, call, raced, tenants, missed, now, subscription>>
      /\ UNCHANGED <<entry, task, overlapped, lpc, snapshotTime, listed>>
  BY DEF FetchState, LoadFetch, AtLoopHead, M!Found, queueVars, busVars, adminVars, tableVars
<1>2. r \in Reports
  BY <1>0 DEF Reports, M!IsBanned
<1>3. r # None /\ r.id = i /\ r.at = snapshotTime /\ r.banned = Truth(i)
  BY <1>2, CheckerAssumption DEF M!IsBanned, Truth, Verdict
<1> HIDE DEF r
<1>4. /\ \A id, b, t : InLoader(id, b, t)' <=> id = i /\ b = Truth(i) /\ t = snapshotTime
      /\ \A id, b, t : ~InLoader(id, b, t)
  BY <1>1, <1>3 DEF InLoader, ReportSays
<1>5. /\ \A id, b, t : InTable(id, b, t)' <=> InTable(id, b, t)
      /\ \A id, b, t : InApply(id, b, t)' <=> InApply(id, b, t)
  BY <1>1 DEF InTable, InApply
<1>6. \A id, b, t : Reported(id, b, t)' <=>
         Reported(id, b, t) \/ (id = i /\ b = Truth(i) /\ t = snapshotTime)
  BY <1>1, <1>4, <1>5, SameNet, SameCall, SameQueue, SMT DEF Reported
<1>7. SameStamping
  BY <1>1, SameCall
<1>8. StampInv' /\ ClockInv' /\ MissingInv'
  BY <1>0, <1>1, <1>6, <1>7, SMT DEF StampInv, ClockInv, MissingInv, SameStamping
<1>9. RightInv'
  <2> SUFFICES ASSUME NEW id \in Tenants, Followed(id)' PROVE Stamping(id)' # {} \/ Right(id)'
    BY DEF RightInv
  <2>1. Followed(id) /\ Stamping(id)' = Stamping(id)
    BY <1>1, <1>7 DEF Followed, SameStamping
  <2>2. Truth(id)' = Truth(id)
    BY <1>1 DEF Truth
  <2>3. \A b, t : Known(id, b, t)' <=> Known(id, b, t)
    BY <1>1, <1>6, <2>2 DEF Known, Expected
  <2> QED
    BY <1>0, <2>1, <2>2, <2>3 DEF RightInv, Right
<1> QED
  BY <1>8, <1>9

\* The load ends, or fails; the checker subscribes; nothing happens.
LEMMA OthersKeep ==
    ASSUME PropagationInv,
           \/ SubscribeChecker
           \/ (LoadEnd \/ \E id \in Tenants : LoadError(id)) /\ UNCHANGED <<adminVars, now, busVars, queueVars>>
           \/ UNCHANGED propagationVars
    PROVE  StampInv' /\ ClockInv' /\ MissingInv' /\ RightInv'
<1>0. /\ StampInv /\ ClockInv /\ MissingInv /\ RightInv
      /\ lpc # "unstarted" => subscription # "none"
  BY DEF PropagationInv, QueueInv
<1>1. /\ UNCHANGED <<submitted, delivered, payload, net, call, raced, tenants, missed, now>>
      /\ UNCHANGED <<entry, task, fetched, overlapped, snapshotTime, listed, rest>>
      /\ \/ lpc' = lpc /\ subscription' = subscription
         \/ lpc' = lpc /\ subscription = "none"
         \/ lpc' = "failed"
         \/ lpc = "loading" /\ rest = {} /\ subscription' = subscription
  BY DEF SubscribeChecker, LoadEnd, LoadError, AtLoopHead, propagationVars, checkerVars, queueVars, busVars,
         adminVars, tableVars, loaderVars
<1>2. SameStamping /\ \A id, b, t : Reported(id, b, t)' <=> Reported(id, b, t)
  BY <1>1, StillReports
<1>3. StampInv' /\ ClockInv' /\ MissingInv'
  BY <1>0, <1>1, <1>2, SMT DEF StampInv, ClockInv, MissingInv, SameStamping
<1>4. RightInv'
  <2> SUFFICES ASSUME NEW id \in Tenants, Followed(id)' PROVE Stamping(id)' # {} \/ Right(id)'
    BY DEF RightInv
  <2>1. Followed(id) /\ Stamping(id)' = Stamping(id) /\ (lpc' = lpc \/ rest = {})
    BY <1>0, <1>1, <1>2 DEF Followed, SameStamping
  <2>2. Truth(id)' = Truth(id)
    BY <1>1 DEF Truth
  <2>3. \A b, t : Known(id, b, t)' <=> Known(id, b, t)
    BY <1>1, <1>2, <2>1, <2>2 DEF Known, Expected
  <2> QED
    BY <1>0, <2>1, <2>2, <2>3 DEF RightInv, Right
<1> QED
  BY <1>3, <1>4

-----------------------------------------------------------------------------
\* The steps, by who takes them.
AdminStep ==
    \/ \E c \in Callers, id \in Tenants, state \in States : SetState(c, id, state)
    \/ \E id \in Tenants, state \in States : Create(id, state) \/ Update(id, state)
    \/ \E c \in Callers : Stamp(c) \/ PublishOK(c) \/ PublishFails(c) \/ EnqueueEvent(c)
QueueStep ==
    \/ \E e \in 1..MaxCalls : QueueDelivers(e) \/ QueueFails(e)
    \/ \E i \in 1..QueueSize : QueueReleases(i)
CheckerStep ==
    \/ \E e \in net, g \in Handlers : Receive(g, e)
    \/ BeginLoad
    \/ \E id \in Tenants : FetchState(id)
    \/ LoadStep
    \/ \E g \in Goroutines : StoreReport(g)

\* Every step is one of these, loses an event or subscribes.
LEMMA NextCases ==
    ASSUME PropagationNext
    PROVE  AdminStep \/ QueueStep \/ (\E e \in net : LoseEvent(e)) \/ CheckerStep \/ SubscribeChecker
<1>1. ASSUME NEW c \in Callers, NEW id \in Tenants, Ban(c, id) \/ Disable(c, id) \/ Activate(c, id)
      PROVE  \E state \in States : SetState(c, id, state)
  BY <1>1, PropagationAssumption DEF Ban, Disable, Activate
<1> QED
  BY <1>1 DEF PropagationNext, AdminStep, QueueStep, CheckerStep

\* What the steps do to the BanChecker are steps of the BanChecker: Receive
\* picks the event that arrives, FetchState the answer of the source.
LEMMA PropagationChecks ==
    ASSUME PropagationInv, [PropagationNext]_propagationVars
    PROVE  [CheckerNext]_checkerVars
<1>1. CASE UNCHANGED checkerVars
  BY <1>1
<1>2. ASSUME NEW e \in net, NEW g \in Handlers, Receive(g, e) PROVE CheckerNext
  <2>1. e.id \in Tenants /\ e.state \in States /\ e.at \in Times
    BY <1>2 DEF PropagationInv, PropagationTypeOK, Events
  <2> QED
    BY <1>2, <2>1 DEF Receive, CheckerNext
<1>3. CASE BeginLoad
  <2>1. now + 1 \in Times
    BY <1>3, CheckerAssumption, SMT DEF BeginLoad, PropagationInv, PropagationTypeOK, Times
  <2> QED
    BY <1>3, <2>1 DEF BeginLoad, CheckerNext
<1>4. ASSUME NEW id \in Tenants, FetchState(id) PROVE CheckerNext
  <2>1. M!IsBanned(id) \in BOOLEAN
    BY DEF M!IsBanned
  <2> QED
    BY <1>4, <2>1 DEF FetchState, CheckerNext
<1>5. CASE LoadStep
  BY <1>5 DEF LoadStep, CheckerNext
<1>6. ASSUME NEW g \in Goroutines, StoreReport(g) PROVE CheckerNext
  BY <1>6 DEF StoreReport, CheckerNext
<1>7. CASE UNCHANGED propagationVars
  BY <1>1, <1>7 DEF propagationVars
<1>8. CASE AdminStep
  <2>1. UNCHANGED checkerVars
    BY <1>8 DEF AdminStep, SetState, Create, Update, Stamp, PublishOK, PublishFails, EnqueueEvent
  <2> QED
    BY <1>1, <2>1
<1>9. CASE QueueStep \/ (\E e \in net : LoseEvent(e)) \/ SubscribeChecker
  <2>1. UNCHANGED checkerVars
    BY <1>9 DEF QueueStep, QueueDelivers, QueueFails, QueueReleases, LoseEvent, SubscribeChecker
  <2> QED
    BY <1>1, <2>1
<1>10. CASE CheckerStep
  BY <1>2, <1>3, <1>4, <1>5, <1>6, <1>10 DEF CheckerStep
<1> QED
  BY <1>7, <1>8, <1>9, <1>10, NextCases

\* The part of the state that is not the BanChecker's: its types.
AdminTypes ==
    /\ tenants \in [Tenants -> States \cup {Missing}] /\ now \in Times
    /\ calls \in 0..MaxCalls /\ call \in [Callers -> Calls \cup {None}] /\ raced \in SUBSET Tenants
BusTypes ==
    subscription \in {"none", "active", "refused"} /\ net \in SUBSET Events /\ missed \in SUBSET Tenants
QueueTypes ==
    /\ submitted \in 0..MaxCalls /\ waiting \in Seq(1..submitted)
    /\ delivered \in SUBSET (1..submitted) /\ lost \in SUBSET (1..submitted)
    /\ payload \in Seq(Events) /\ Len(payload) = submitted

\* The steps of admin.Service and of other users of the store keep its types.
LEMMA AdminTypesKept ==
    ASSUME PropagationTypeOK, AdminStep
    PROVE  AdminTypes'
<1>0. AdminTypes
  BY DEF PropagationTypeOK, AdminTypes, M!TypeOK
<1>1. ASSUME NEW c \in Callers, NEW id \in Tenants, NEW state \in States, SetState(c, id, state)
      PROVE  AdminTypes'
  <2>1. [step |-> "stamp", id |-> id, state |-> state, at |-> 0] \in Calls
    BY CheckerAssumption, SMT DEF Calls, Times
  <2>2. raced' \in SUBSET Tenants
    BY <1>0, <1>1 DEF AdminTypes, SetState
  <2>3. calls' \in 0..MaxCalls
    BY <1>0, <1>1, PropagationAssumption, SMT DEF AdminTypes, SetState
  <2> QED
    BY <1>0, <1>1, <2>1, <2>2, <2>3 DEF AdminTypes, SetState, M!SetState
<1>2. ASSUME NEW id \in Tenants, NEW state \in States, Create(id, state) \/ Update(id, state)
      PROVE  AdminTypes'
  <2>1. calls' \in 0..MaxCalls
    BY <1>0, <1>2, PropagationAssumption, SMT DEF AdminTypes, Create, Update
  <2> QED
    BY <1>0, <1>2, <2>1 DEF AdminTypes, Create, Update, M!Create, M!Update
<1>3. ASSUME NEW c \in Callers, Stamp(c) PROVE AdminTypes'
  <2>1. call[c] \in Calls
    BY <1>0, <1>3 DEF AdminTypes, Stamp
  <2>2. now + 1 \in Times
    BY <1>0, <1>3, CheckerAssumption, SMT DEF AdminTypes, Stamp, Times
  <2>3. [step |-> "publish", id |-> call[c].id, state |-> call[c].state, at |-> now + 1] \in Calls
    BY <2>1, <2>2 DEF Calls
  <2> QED
    BY <1>0, <1>3, <2>2, <2>3 DEF AdminTypes, Stamp
<1>4. ASSUME NEW c \in Callers, PublishOK(c) \/ EnqueueEvent(c) PROVE AdminTypes'
  BY <1>0, <1>4 DEF AdminTypes, PublishOK, EnqueueEvent
<1>5. ASSUME NEW c \in Callers, PublishFails(c) PROVE AdminTypes'
  <2>1. call[c] \in Calls
    BY <1>0, <1>5 DEF AdminTypes, PublishFails
  <2>2. [call[c] EXCEPT !.step = "enqueue"] \in Calls
    BY <2>1 DEF Calls
  <2>3. call' = [call EXCEPT ![c] = [call[c] EXCEPT !.step = "enqueue"]] \/ call' = [call EXCEPT ![c] = None]
    BY <1>5 DEF PublishFails
  <2> QED
    BY <1>0, <1>5, <2>2, <2>3 DEF AdminTypes, PublishFails
<1> QED
  BY <1>1, <1>2, <1>3, <1>4, <1>5 DEF AdminStep

\* What the callers, the bus and the queue hold are events.
LEMMA EventsAreEvents ==
    ASSUME PropagationTypeOK
    PROVE  /\ \A c \in Callers : call[c] # None => EventOf(c) \in Events /\ call[c].id \in Tenants
           /\ \A e \in 1..submitted : payload[e] \in Events
           /\ \A e \in net : e.id \in Tenants
<1>1. ASSUME NEW c \in Callers, call[c] # None PROVE EventOf(c) \in Events /\ call[c].id \in Tenants
  <2>1. call[c] \in Calls
    BY <1>1 DEF PropagationTypeOK
  <2> QED
    BY <2>1 DEF Calls, EventOf, Events
<1>2. \A e \in 1..submitted : payload[e] \in Events
  BY SMT DEF PropagationTypeOK
<1>3. \A e \in net : e.id \in Tenants
  BY DEF PropagationTypeOK, Events
<1> QED
  BY <1>1, <1>2, <1>3

\* The bus carries events.
LEMMA BusTypesKept ==
    ASSUME PropagationTypeOK, [PropagationNext]_propagationVars
    PROVE  BusTypes'
<1>0. BusTypes /\ submitted \in Nat
  BY SMT DEF PropagationTypeOK, BusTypes
<1>1. ASSUME NEW c \in Callers, PublishOK(c) \/ PublishFails(c) PROVE BusTypes'
  <2>1. EventOf(c) \in Events /\ call[c].id \in Tenants
    BY <1>1, EventsAreEvents DEF PublishOK, PublishFails
  <2> QED
    BY <1>0, <1>1, <2>1 DEF PublishOK, PublishFails, Dispatch, BusTypes
<1>2. ASSUME NEW e \in 1..MaxCalls, QueueDelivers(e) \/ QueueFails(e) PROVE BusTypes'
  <2>1. payload[e] \in Events
    BY <1>2, EventsAreEvents DEF QueueDelivers, QueueFails, Q!Deliver
  <2> QED
    BY <1>0, <1>2, <2>1 DEF QueueDelivers, QueueFails, Dispatch, BusTypes, queueVars
<1>3. ASSUME NEW e \in net, LoseEvent(e) PROVE BusTypes'
  BY <1>0, <1>3, EventsAreEvents DEF LoseEvent, BusTypes
<1>4. ASSUME NEW id \in Tenants, NEW state \in States, Create(id, state) \/ Update(id, state)
      PROVE  BusTypes'
  BY <1>0, <1>4 DEF Create, Update, BusTypes, busVars
<1>5. CASE SubscribeChecker
  BY <1>0, <1>5 DEF SubscribeChecker, BusTypes
<1>6. ASSUME NEW e \in net, NEW g \in Handlers, Receive(g, e) PROVE BusTypes'
  BY <1>0, <1>6 DEF Receive, BusTypes
<1>7. CASE UNCHANGED busVars
  BY <1>0, <1>7 DEF BusTypes, busVars
<1>8. CASE AdminStep
  <2>1. ASSUME NEW c \in Callers, NEW id \in Tenants, NEW state \in States, SetState(c, id, state)
        PROVE  BusTypes'
    BY <1>7, <2>1 DEF SetState
  <2>2. ASSUME NEW c \in Callers, Stamp(c) \/ EnqueueEvent(c) PROVE BusTypes'
    BY <1>7, <2>2 DEF Stamp, EnqueueEvent
  <2> QED
    BY <1>1, <1>4, <1>8, <2>1, <2>2 DEF AdminStep
<1>9. CASE QueueStep
  <2>1. ASSUME NEW i \in 1..QueueSize, QueueReleases(i) PROVE BusTypes'
    BY <1>7, <2>1 DEF QueueReleases
  <2> QED
    BY <1>2, <1>9, <2>1 DEF QueueStep
<1>10. CASE CheckerStep
  <2>1. CASE BeginLoad \/ LoadStep
    BY <1>7, <2>1 DEF BeginLoad, LoadStep
  <2>2. CASE (\E id \in Tenants : FetchState(id)) \/ (\E g \in Goroutines : StoreReport(g))
    BY <1>7, <2>2 DEF FetchState, StoreReport
  <2> QED
    BY <1>6, <1>10, <2>1, <2>2 DEF CheckerStep
<1>11. CASE UNCHANGED propagationVars
  BY <1>7, <1>11 DEF propagationVars
<1> QED
  BY <1>3, <1>5, <1>8, <1>9, <1>10, <1>11, NextCases

\* A sequence without its position i.
Without(s, i) == SubSeq(s, 1, i - 1) \o SubSeq(s, i + 1, Len(s))

\* The length of a concatenation.
LEMMA ConcatLength ==
    ASSUME NEW S, NEW a \in Seq(S), NEW b \in Seq(S)
    PROVE  Len(a \o b) = Len(a) + Len(b)
BY SMTT(20)

\* Removing a position of a sequence removes at most that element.
LEMMA RemovedAt ==
    ASSUME NEW S, NEW s \in Seq(S), NEW i \in 1..Len(s)
    PROVE  Without(s, i) \in Seq(S) /\ Range(s) \subseteq Range(Without(s, i)) \cup {s[i]}
<1>0. PICK n \in Nat : n = Len(s) /\ i \in 1..n
  BY SMT
<1>1. PICK a : a = SubSeq(s, 1, i - 1)
  OBVIOUS
<1>2. PICK b : b = SubSeq(s, i + 1, Len(s))
  OBVIOUS
<1>3. PICK t : t = a \o b
  OBVIOUS
<1>4. a \in Seq(S) /\ Len(a) = i - 1 /\ \A j \in 1..(i - 1) : a[j] = s[j]
  BY <1>1, SMT
<1>5. b \in Seq(S) /\ Len(b) = n - i /\ \A j \in 1..(n - i) : b[j] = s[i + j]
  <2>1. b \in Seq(S) /\ Len(b) = n - i
    BY <1>0, <1>2, SMTT(30)
  <2>2. ASSUME NEW j \in 1..(n - i) PROVE b[j] = s[i + j]
    BY <1>0, <1>2, SMTT(30)
  <2> QED
    BY <2>1, <2>2
<1>6. t \in Seq(S) /\ Len(t) = n - 1
  <2>1. a \in Seq(S) /\ b \in Seq(S) /\ Len(a) = i - 1 /\ Len(b) = n - i
    BY <1>4, <1>5
  <2>2. t \in Seq(S)
    BY <1>3, <2>1, SMT
  <2>3. Len(t) = Len(a) + Len(b)
    BY <1>3, <2>1, ConcatLength
  <2> QED
    BY <1>0, <2>1, <2>2, <2>3, SMT
<1>7. \A j \in 1..(i - 1) : t[j] = s[j]
  BY <1>0, <1>3, <1>4, <1>5, SMT
<1>8. ASSUME NEW j \in 1..(n - i) PROVE t[(i - 1) + j] = s[i + j]
  <2>1. t[Len(a) + j] = b[j]
    BY <1>3, <1>4, <1>5, SMTT(30)
  <2> QED
    BY <1>4, <1>5, <2>1
<1>9. ASSUME NEW j \in 1..n, j # i PROVE \E k \in 1..(n - 1) : t[k] = s[j]
  <2>1. CASE j < i
    BY <1>0, <1>7, <2>1, SMT
  <2>2. CASE j > i
    <3>1. PICK k \in 1..(n - i) : i + k = j /\ (i - 1) + k \in 1..(n - 1)
      <4>1. j - i \in 1..(n - i) /\ i + (j - i) = j /\ (i - 1) + (j - i) \in 1..(n - 1)
        BY <1>0, <2>2, SMT
      <4> QED
        BY <4>1
    <3> QED
      BY <1>8, <3>1
  <2> QED
    BY <1>9, <2>1, <2>2, <1>0, SMT
<1>10. DOMAIN s = 1..n /\ DOMAIN t = 1..(n - 1)
  BY <1>0, <1>6, SMT
<1>11. ASSUME NEW v \in Range(s) PROVE v = s[i] \/ v \in Range(t)
  <2>1. PICK j \in 1..n : v = s[j]
    BY <1>10 DEF Range
  <2> QED
    BY <1>9, <1>10, <2>1 DEF Range
<1>12. t = Without(s, i)
  BY <1>1, <1>2, <1>3 DEF Without
<1> QED
  BY <1>6, <1>11, <1>12

\* Dropping the head of a sequence and appending to it.
LEMMA TailAndAppend ==
    ASSUME NEW S, NEW s \in Seq(S), NEW v \in S
    PROVE  /\ Append(s, v) \in Seq(S) /\ Range(s) \cup {v} \subseteq Range(Append(s, v))
           /\ s # <<>> => /\ Tail(s) \in Seq(S) /\ Head(s) \in S
                          /\ Range(s) \subseteq Range(Tail(s)) \cup {Head(s)}
<1>1. ASSUME NEW r \in Seq(S)
      PROVE  Append(r, v) \in Seq(S) /\ Range(r) \cup {v} \subseteq Range(Append(r, v))
  <2>1. PICK n \in Nat : n = Len(r) /\ DOMAIN r = 1..n
    BY SMT
  <2>2. /\ Append(r, v) \in Seq(S) /\ DOMAIN Append(r, v) = 1..(n + 1)
        /\ \A j \in 1..n : Append(r, v)[j] = r[j]
        /\ Append(r, v)[n + 1] = v
    BY <2>1, SMT
  <2>3. \A w \in Range(r) : w \in Range(Append(r, v))
    BY <2>1, <2>2, SMT DEF Range
  <2>4. v \in Range(Append(r, v))
    BY <2>1, <2>2, SMT DEF Range
  <2> QED
    BY <2>2, <2>3, <2>4
<1>2. ASSUME s # <<>>
      PROVE  /\ Tail(s) \in Seq(S) /\ Head(s) \in S
             /\ Range(s) \subseteq Range(Tail(s)) \cup {Head(s)}
  <2>1. PICK n \in Nat \ {0} : n = Len(s) /\ DOMAIN s = 1..n
    BY <1>2, SMT
  <2>2. Tail(s) \in Seq(S) /\ Head(s) \in S /\ Head(s) = s[1] /\ DOMAIN Tail(s) = 1..(n - 1)
    BY <1>2, <2>1, SMT
  <2>3. \A j \in 1..(n - 1) : Tail(s)[j] = s[j + 1]
    BY <1>2, <2>1, SMT
  <2>4. ASSUME NEW w \in Range(s) PROVE w \in Range(Tail(s)) \cup {Head(s)}
    <3>1. PICK j \in 1..n : w = s[j]
      BY <2>1 DEF Range
    <3>2. CASE j = 1
      BY <2>2, <3>1, <3>2
    <3>3. CASE j # 1
      <4>1. PICK k \in 1..(n - 1) : k + 1 = j
        <5>1. j - 1 \in 1..(n - 1) /\ (j - 1) + 1 = j
          BY <3>3, SMT
        <5> QED
          BY <5>1
      <4> QED
        BY <2>2, <2>3, <3>1, <4>1 DEF Range
    <3> QED
      BY <3>2, <3>3
  <2> QED
    BY <2>2, <2>4
<1> QED
  BY <1>1, <1>2

\* PublishRetryQueue keeps its types, and what it was given stays accounted for.
LEMMA QueueKept ==
    ASSUME PropagationInv, [PropagationNext]_propagationVars
    PROVE  QueueTypes' /\ Accounted'
<1>0. QueueTypes /\ Accounted
  BY DEF PropagationInv, PropagationTypeOK, QueueTypes, QueueInv
<1>1. ASSUME NEW c \in Callers, EnqueueEvent(c) PROVE QueueTypes' /\ Accounted'
  <2>1. PICK n \in 1..MaxCalls : n = submitted + 1 /\ submitted' = n /\ 1..n = (1..submitted) \cup {n}
    <3>1. /\ submitted \in Nat /\ submitted < MaxCalls /\ submitted' = submitted + 1
          /\ MaxCalls \in Nat
      BY <1>0, <1>1, PropagationAssumption, SMT DEF EnqueueEvent, Q!Submit, QueueTypes
    <3> QED
      BY <3>1, SMT
  <2>2. EventOf(c) \in Events
    BY <1>1, EventsAreEvents DEF EnqueueEvent, PropagationInv
  <2>3. payload' \in Seq(Events) /\ Len(payload') = n
    BY <1>0, <1>1, <2>1, <2>2, SMTT(30) DEF EnqueueEvent, QueueTypes
  <2>4. waiting \in Seq(1..n) /\ delivered \in SUBSET (1..n) /\ lost \in SUBSET (1..n) /\ delivered' = delivered
    BY <1>0, <1>1, <2>1, SMT DEF QueueTypes, EnqueueEvent, Q!Submit
  <2>5. CASE waiting' = Append(waiting, n) /\ lost' = lost
    <3>1. waiting' \in Seq(1..n) /\ Range(waiting) \cup {n} \subseteq Range(waiting')
      BY <2>1, <2>4, <2>5, TailAndAppend
    <3> QED
      BY <1>0, <2>1, <2>3, <2>4, <2>5, <3>1, SMT DEF QueueTypes, Accounted
  <2>6. CASE /\ waiting # <<>> /\ waiting' = Append(Tail(waiting), n)
             /\ lost' = lost \cup {Head(waiting)}
    <3>0. PICK r : r = Tail(waiting)
      OBVIOUS
    <3>1. PICK h \in 1..n : /\ r \in Seq(1..n) /\ waiting' = Append(r, n)
                           /\ lost' = lost \cup {h} /\ Range(waiting) \subseteq Range(r) \cup {h}
      BY <2>4, <2>6, <3>0, TailAndAppend, SMT
    <3>2. waiting' \in Seq(1..n) /\ Range(r) \cup {n} \subseteq Range(waiting')
      BY <2>1, <3>1, TailAndAppend
    <3>3. lost' \in SUBSET (1..n) /\ lost' = lost \cup {h} /\ Range(waiting) \subseteq Range(r) \cup {h}
      BY <2>4, <3>1
    <3>4. QueueTypes'
      BY <2>1, <2>3, <2>4, <3>2, <3>3, SMT DEF QueueTypes
    <3>5. ASSUME NEW e \in 1..n PROVE e \in delivered' \cup lost' \cup Range(waiting')
      BY <1>0, <2>1, <2>4, <3>2, <3>3, SMTT(20) DEF Accounted
    <3> QED
      BY <2>1, <3>4, <3>5 DEF Accounted
  <2>7. Len(waiting) = QueueSize => waiting # <<>>
    BY <1>1, SMT DEF EnqueueEvent, PropagationInv, QueueInv
  <2> QED
    BY <1>1, <2>1, <2>5, <2>6, <2>7 DEF EnqueueEvent, Q!Submit
<1>2. ASSUME NEW i \in 1..QueueSize, QueueReleases(i) PROVE QueueTypes' /\ Accounted'
  <2>1. /\ i \in 1..Len(waiting) /\ waiting' = Without(waiting, i)
        /\ lost' = IF waiting[i] \in delivered THEN lost ELSE lost \cup {waiting[i]}
        /\ UNCHANGED <<submitted, delivered, payload>>
    BY <1>2 DEF QueueReleases, Q!Release, Without
  <2>2. waiting' \in Seq(1..submitted) /\ Range(waiting) \subseteq Range(waiting') \cup {waiting[i]}
    BY <1>0, <2>1, RemovedAt DEF QueueTypes
  <2>3. PICK w \in 1..submitted : w = waiting[i]
    BY <1>0, <2>1, SMT DEF QueueTypes
  <2>4. /\ lost' = IF w \in delivered THEN lost ELSE lost \cup {w}
        /\ Range(waiting) \subseteq Range(waiting') \cup {w}
        /\ UNCHANGED <<submitted, delivered, payload>>
    BY <2>1, <2>2, <2>3
  <2>5. QueueTypes'
    BY <1>0, <2>2, <2>4 DEF QueueTypes
  <2>6. Accounted'
    BY <1>0, <2>4, SMTT(20) DEF Accounted
  <2> QED
    BY <2>5, <2>6
<1>3. ASSUME NEW e \in 1..MaxCalls, QueueDelivers(e) PROVE QueueTypes' /\ Accounted'
  BY <1>0, <1>3 DEF QueueDelivers, Q!Deliver, QueueTypes, Accounted
<1>4. CASE UNCHANGED queueVars
  BY <1>0, <1>4 DEF QueueTypes, queueVars, Accounted
<1>5. CASE AdminStep
  <2>1. ASSUME NEW c \in Callers, NEW id \in Tenants, NEW state \in States, SetState(c, id, state)
        PROVE  QueueTypes' /\ Accounted'
    BY <1>4, <2>1 DEF SetState
  <2>2. ASSUME NEW id \in Tenants, NEW state \in States, Create(id, state) \/ Update(id, state)
        PROVE  QueueTypes' /\ Accounted'
    BY <1>4, <2>2 DEF Create, Update
  <2>3. ASSUME NEW c \in Callers, Stamp(c) \/ PublishOK(c) \/ PublishFails(c)
        PROVE  QueueTypes' /\ Accounted'
    BY <1>4, <2>3 DEF Stamp, PublishOK, PublishFails
  <2> QED
    BY <1>1, <1>5, <2>1, <2>2, <2>3 DEF AdminStep
<1>6. CASE QueueStep
  BY <1>2, <1>3, <1>4, <1>6 DEF QueueStep, QueueFails
<1>7. CASE CheckerStep
  BY <1>4, <1>7 DEF CheckerStep, Receive, BeginLoad, FetchState, LoadStep, StoreReport
<1>8. CASE (\E e \in net : LoseEvent(e)) \/ SubscribeChecker \/ UNCHANGED propagationVars
  BY <1>4, <1>8 DEF LoseEvent, SubscribeChecker, propagationVars
<1> QED
  BY <1>5, <1>6, <1>7, <1>8, NextCases

\* Every step keeps the types.
LEMMA PropagationTypes ==
    ASSUME PropagationInv, [PropagationNext]_propagationVars
    PROVE  PropagationTypeOK' /\ CheckerIInv'
<1>1. CheckerIInv'
  BY PropagationChecks, CheckerNextInv DEF PropagationInv
<1>2. AdminTypes'
  <2>0. AdminTypes
    BY DEF PropagationInv, PropagationTypeOK, AdminTypes, M!TypeOK
  <2>1. CASE UNCHANGED <<adminVars, now>>
    BY <2>0, <2>1 DEF AdminTypes, adminVars
  <2>2. CASE AdminStep
    BY <2>2, AdminTypesKept DEF PropagationInv
  <2>3. CASE BeginLoad
    <3>1. now' \in Times
      BY <2>0, <2>3, CheckerAssumption, SMT DEF BeginLoad, AdminTypes, Times
    <3> QED
      BY <2>0, <2>3, <3>1 DEF BeginLoad, AdminTypes, adminVars
  <2>4. CASE QueueStep \/ (\E e \in net : LoseEvent(e)) \/ SubscribeChecker \/ UNCHANGED propagationVars
    BY <2>1, <2>4 DEF QueueStep, QueueDelivers, QueueFails, QueueReleases, LoseEvent, SubscribeChecker,
        propagationVars
  <2>5. CASE CheckerStep /\ ~BeginLoad
    BY <2>1, <2>5 DEF CheckerStep, Receive, FetchState, LoadStep, StoreReport
  <2> QED
    BY <2>2, <2>3, <2>4, <2>5, NextCases
<1>3. BusTypes' /\ QueueTypes'
  BY BusTypesKept, QueueKept DEF PropagationInv
<1> QED
  BY <1>1, <1>2, <1>3 DEF PropagationTypeOK, AdminTypes, BusTypes, QueueTypes, CheckerIInv, M!TypeOK

\* The queue is only used where there is one, and the load follows New.
LEMMA QueueInvKept ==
    ASSUME PropagationInv, [PropagationNext]_propagationVars
    PROVE  QueueInv'
<1> DEFINE Fed == \A c \in Callers : call[c] # None /\ call[c].step = "enqueue" => QueueSize > 0
           After == lpc # "unstarted" => subscription # "none"
<1>0. /\ Fed /\ After
      /\ call \in [Callers -> Calls \cup {None}]
  BY DEF PropagationInv, PropagationTypeOK, QueueInv
<1>1. \A c \in Callers : call'[c] # None /\ call'[c].step = "enqueue" => QueueSize > 0
  <2>1. CASE call' = call
    BY <1>0, <2>1
  <2>2. ASSUME NEW d \in Callers, NEW x, call' = [call EXCEPT ![d] = x],
               x = None \/ x.step # "enqueue" \/ QueueSize > 0
        PROVE  \A c \in Callers : call'[c] # None /\ call'[c].step = "enqueue" => QueueSize > 0
    BY <1>0, <2>2
  <2>3. CASE AdminStep
    <3>1. ASSUME NEW c \in Callers, NEW id \in Tenants, NEW state \in States, SetState(c, id, state)
          PROVE  \A d \in Callers : call'[d] # None /\ call'[d].step = "enqueue" => QueueSize > 0
      <4>1. [step |-> "stamp", id |-> id, state |-> state, at |-> 0].step # "enqueue"
        OBVIOUS
      <4> QED
        BY <2>2, <3>1, <4>1 DEF SetState
    <3>2. ASSUME NEW c \in Callers, Stamp(c)
          PROVE  \A d \in Callers : call'[d] # None /\ call'[d].step = "enqueue" => QueueSize > 0
      <4>1. PICK x : x = [step |-> "publish", id |-> call[c].id, state |-> call[c].state, at |-> now + 1]
        OBVIOUS
      <4>2. x.step # "enqueue" /\ call' = [call EXCEPT ![c] = x]
        BY <3>2, <4>1 DEF Stamp
      <4> QED
        BY <2>2, <4>2
    <3>3. ASSUME NEW c \in Callers, PublishOK(c) \/ EnqueueEvent(c)
          PROVE  \A d \in Callers : call'[d] # None /\ call'[d].step = "enqueue" => QueueSize > 0
      BY <2>2, <3>3 DEF PublishOK, EnqueueEvent
    <3>4. ASSUME NEW c \in Callers, PublishFails(c)
          PROVE  \A d \in Callers : call'[d] # None /\ call'[d].step = "enqueue" => QueueSize > 0
      <4>1. QueueSize > 0 \/ call' = [call EXCEPT ![c] = None]
        BY <3>4 DEF PublishFails
      <4> QED
        BY <2>2, <4>1
    <3>5. ASSUME NEW id \in Tenants, NEW state \in States, Create(id, state) \/ Update(id, state)
          PROVE  call' = call
      BY <3>5 DEF Create, Update
    <3> QED
      BY <2>1, <2>3, <3>1, <3>2, <3>3, <3>4, <3>5 DEF AdminStep
  <2>4. CASE QueueStep \/ (\E e \in net : LoseEvent(e)) \/ SubscribeChecker \/ UNCHANGED propagationVars
    BY <2>1, <2>4 DEF QueueStep, QueueDelivers, QueueFails, QueueReleases, LoseEvent, SubscribeChecker,
        propagationVars, adminVars
  <2>5. CASE CheckerStep
    BY <2>1, <2>5 DEF CheckerStep, Receive, BeginLoad, FetchState, LoadStep, StoreReport, adminVars
  <2> QED
    BY <2>3, <2>4, <2>5, NextCases
<1>2. lpc' # "unstarted" => subscription' # "none"
  <2>1. CASE lpc' = lpc /\ subscription' = subscription
    BY <1>0, <2>1
  <2>2. CASE AdminStep
    BY <2>1, <2>2 DEF AdminStep, SetState, Create, Update, Stamp, PublishOK, PublishFails, EnqueueEvent,
        busVars, checkerVars, loaderVars
  <2>3. CASE QueueStep \/ (\E e \in net : LoseEvent(e)) \/ UNCHANGED propagationVars
    BY <2>1, <2>3 DEF QueueStep, QueueDelivers, QueueFails, QueueReleases, LoseEvent,
        propagationVars, busVars, checkerVars, loaderVars
  <2>4. CASE SubscribeChecker
    BY <2>4 DEF SubscribeChecker
  <2>5. CASE CheckerStep
    <3>1. CASE BeginLoad
      BY <3>1 DEF BeginLoad, busVars
    <3>2. CASE \E e \in net, g \in Handlers : Receive(g, e)
      BY <2>1, <3>2 DEF Receive, HandleEvent, loaderVars
    <3>3. CASE (\E id \in Tenants : FetchState(id)) \/ (\E g \in Goroutines : StoreReport(g))
      <4>1. ASSUME NEW id \in Tenants, FetchState(id) PROVE UNCHANGED <<lpc, subscription>>
        BY <4>1 DEF FetchState, LoadFetch, busVars
      <4>2. ASSUME NEW g \in Goroutines, StoreReport(g) PROVE UNCHANGED <<lpc, subscription>>
        BY <4>2 DEF StoreReport, Store, busVars, loaderVars
      <4> QED
        BY <2>1, <3>3, <4>1, <4>2
    <3>4. CASE LoadStep
      BY <1>0, <3>4 DEF LoadStep, LoadError, LoadApply, LoadEnd, AtLoopHead, busVars
    <3> QED
      BY <2>5, <3>1, <3>2, <3>3, <3>4 DEF CheckerStep
  <2> QED
    BY <2>2, <2>3, <2>4, <2>5, NextCases
<1> QED
  BY <1>1, <1>2, QueueKept DEF QueueInv

\* At the start nothing is reported and nobody is followed.
LEMMA PropagationInitInv == PropagationInit => PropagationInv
<1> SUFFICES ASSUME PropagationInit PROVE PropagationInv
  OBVIOUS
<1>0. /\ CheckerInit /\ tenants \in [Tenants -> States \cup {Missing}] /\ now = 0
      /\ \A c \in Callers : call[c] = None
      /\ net = {} /\ submitted = 0 /\ delivered = {} /\ subscription = "none"
  BY DEF PropagationInit, Q!Init
<1>1. CheckerIInv
  BY <1>0, CheckerInitInv
<1>2. PropagationTypeOK
  <2>1. call \in [Callers -> Calls \cup {None}]
    BY DEF PropagationInit
  <2>2. QueueTypes
    BY PropagationAssumption, SMT DEF PropagationInit, Q!Init, QueueTypes
  <2>3. /\ now \in Times /\ calls \in 0..MaxCalls /\ raced \in SUBSET Tenants /\ missed \in SUBSET Tenants
        /\ subscription \in {"none", "active", "refused"} /\ net \in SUBSET Events
    BY CheckerAssumption, PropagationAssumption, SMT DEF PropagationInit, Times
  <2> QED
    BY <1>0, <1>1, <2>1, <2>2, <2>3 DEF PropagationTypeOK, QueueTypes, CheckerIInv, M!TypeOK
<1>3. QueueInv
  <2>1. Accounted
    BY <1>0, SMT DEF Accounted
  <2> QED
    BY <1>0, <2>1 DEF QueueInv, CheckerInit
<1>4. \A id \in Tenants : Stamping(id) = {}
  BY <1>0 DEF Stamping
<1>5. ASSUME NEW id \in Tenants, NEW b, NEW t PROVE ~Reported(id, b, t)
  <2>1. ~InTable(id, b, t) /\ ~InApply(id, b, t) /\ ~InLoader(id, b, t)
    BY <1>0 DEF CheckerInit, InTable, InApply, InLoader, ReportSays, Goroutines
  <2>2. ~InNet(id, b, t) /\ ~InCall(id, b, t) /\ ~InQueue(id, b, t)
    BY <1>0, SMT DEF InNet, InCall, InQueue, Stamped
  <2> QED
    BY <2>1, <2>2 DEF Reported
<1>6. StampInv /\ MissingInv
  BY <1>4, <1>5 DEF StampInv, MissingInv
<1>7. ClockInv
  BY <1>0, <1>5, SMT DEF ClockInv, CheckerInit
<1>8. RightInv
  BY <1>0 DEF RightInv, Followed
<1> QED
  BY <1>1, <1>2, <1>3, <1>6, <1>7, <1>8 DEF PropagationInv

Tracks == StampInv /\ ClockInv /\ MissingInv /\ RightInv

\* Every step keeps the table on its way to the truth.
LEMMA PropagationNextInv == PropagationInv /\ [PropagationNext]_propagationVars => PropagationInv'
<1> SUFFICES ASSUME PropagationInv, [PropagationNext]_propagationVars PROVE Tracks'
  BY PropagationTypes, QueueInvKept DEF PropagationInv, Tracks
<1>1. ASSUME MovesReports PROVE Tracks'
  BY <1>1, MovesKeep DEF Tracks
<1>2. CASE AdminStep
  <2>1. ASSUME NEW c \in Callers, NEW id \in Tenants, NEW state \in States, SetState(c, id, state)
        PROVE  Tracks'
    BY <2>1, SetStateKeeps DEF Tracks
  <2>2. ASSUME NEW id \in Tenants, NEW state \in States, Create(id, state) \/ Update(id, state)
        PROVE  Tracks'
    BY <2>2, WriteKeeps DEF Tracks
  <2>3. ASSUME NEW c \in Callers, Stamp(c) PROVE Tracks'
    BY <2>3, StampKeeps DEF Tracks
  <2>4. ASSUME NEW c \in Callers, PublishOK(c) \/ PublishFails(c) \/ EnqueueEvent(c) PROVE MovesReports
    BY <2>4, PublishOKMoves, PublishFailsMoves, EnqueueMoves
  <2> QED
    BY <1>1, <1>2, <2>1, <2>2, <2>3, <2>4 DEF AdminStep
<1>3. CASE QueueStep \/ \E e \in net : LoseEvent(e)
  BY <1>1, <1>3, QueueMoves, ReleaseMoves, LoseMoves DEF QueueStep
<1>4. CASE SubscribeChecker \/ UNCHANGED propagationVars
  BY <1>4, OthersKeep DEF Tracks
<1>5. CASE CheckerStep
  <2>1. ASSUME NEW e \in net, NEW g \in Handlers, Receive(g, e) PROVE MovesReports
    BY <2>1, ReceiveMoves
  <2>2. CASE BeginLoad
    BY <2>2, BeginLoadKeeps DEF Tracks
  <2>3. ASSUME NEW id \in Tenants, FetchState(id) PROVE Tracks'
    BY <2>3, FetchKeeps DEF Tracks
  <2>4. CASE LoadStep
    BY <1>1, <2>4, OthersKeep, LoadApplyMoves DEF LoadStep, Tracks
  <2>5. ASSUME NEW g \in Goroutines, StoreReport(g) PROVE MovesReports
    BY <2>5, StoreMoves
  <2> QED
    BY <1>1, <1>5, <2>1, <2>2, <2>3, <2>4, <2>5 DEF CheckerStep
<1> QED
  BY <1>2, <1>3, <1>4, <1>5, NextCases

\* The inductive invariant holds in every reachable state.
THEOREM PropagationInvariance == PropagationSpec => []PropagationInv
  BY PropagationInitInv, PropagationNextInv, PTL DEF PropagationSpec

\* The BanChecker, among the callers of admin.Service, the bus and the queue,
\* does what the module BanChecker says of it in any surroundings: what is
\* shown there (NewestWins, LoadCovers) holds here.
THEOREM PropagationRefinesChecker == PropagationSpec => CheckerSpec
<1>1. PropagationInit => CheckerInit
  BY DEF PropagationInit
<1>2. PropagationInv /\ [PropagationNext]_propagationVars => [CheckerNext]_checkerVars
  BY PropagationChecks
<1> QED
  BY <1>1, <1>2, PropagationInvariance, PTL DEF PropagationSpec, CheckerSpec

\* Once everything about a tenant has settled, IsBanned says what the store
\* says, for any number of tenants, callers, event handlers and calls, any size
\* of the retry queue and any order of events, retries and the snapshot.
THEOREM AgreementHolds == PropagationSpec => []Agreement
<1>1. PropagationInv => Agreement
  <2> SUFFICES ASSUME PropagationInv, NEW id \in Tenants,
                      Started(id), Settled(id), ~Missed(id), id \notin overlapped \cup raced
               PROVE  IsBanned(id) = M!IsBanned(id)
    BY DEF Agreement
  <2>1. Stamping(id) = {}
    BY DEF Settled, Stamping
  <2>2. Followed(id) /\ lpc = "loaded"
    BY DEF Followed, Started, Missed
  <2>3. PICK t \in Times : Known(id, Truth(id), t)
    BY <2>1, <2>2 DEF PropagationInv, RightInv, Right
  <2>4. ~Expected(id, Truth(id), t) /\ ~InLoader(id, Truth(id), t)
    BY <2>2 DEF Expected, InLoader, ReportSays, PropagationInv, CheckerIInv, CheckerInv, LoaderInv
  <2>5. ~InApply(id, Truth(id), t) /\ ~InNet(id, Truth(id), t) /\ ~InCall(id, Truth(id), t)
    BY DEF Settled, Busy, InApply, InNet, InCall, ReportSays, Says, Stamped
  <2>6. ~InQueue(id, Truth(id), t)
    BY DEF InQueue, Says, Settled, Missed, PropagationInv, QueueInv, Accounted
  <2>7. InTable(id, Truth(id), t)
    BY <2>3, <2>4, <2>5, <2>6 DEF Known, Reported
  <2> QED
    BY <2>7 DEF InTable, IsBanned, M!IsBanned, Truth, Verdict
<1> QED
  BY <1>1, PropagationInvariance, PTL

=============================================================================
