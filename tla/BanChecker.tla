----------------------------- MODULE BanChecker -----------------------------
(***************************************************************************)
(* banchecker.BanChecker: the in-memory table of what is known about the   *)
(* ban of each tenant, written by the event handlers of the bus (one       *)
(* goroutine per event and subscriber) and by LoadInitialBannedList.       *)
(*                                                                         *)
(* apply is a Load and a later Store on a sync.Map: two steps, between     *)
(* which other goroutines run.  A goroutine exists here from its Load on;  *)
(* before it, its event is still on its way.                               *)
(*                                                                         *)
(* X_Variant, next to a definition X, is X with a plausible slip.  Nothing *)
(* uses it: it serves to show that a property notices the slip.            *)
(***************************************************************************)
EXTENDS Integers

CONSTANTS
    Tenants,
    States,    \* tenant.State: "Active", "Disabled", "Banned"
    Handlers,  \* goroutines that may run handleEvent at the same time
    Loader,    \* the goroutine that runs LoadInitialBannedList
    None,      \* no task
    MaxTime    \* bound of the model: time stamps are in 0..MaxTime

Goroutines == Handlers \cup {Loader}
Times == 0..MaxTime

\* The arguments of apply.
Reports == [id : Tenants, banned : BOOLEAN, at : Times]

ASSUME CheckerAssumption ==
    /\ MaxTime \in Nat
    /\ None \notin Reports
    /\ Loader \notin Handlers

\* A key that is not in the map: IsBanned answers FALSE, and no time stamp is
\* older than it.
Absent == [banned |-> FALSE, updatedAt |-> -1]

Entries == [banned : BOOLEAN, updatedAt : Times]

VARIABLES
    entry,         \* bc.banned
    task,          \* per goroutine: the report between its Load and its Store
    lpc,           \* LoadInitialBannedList: where it is
    snapshotTime,
    listed,        \* its argument ids
    rest,          \* the ids the loop has not reached
    fetched,       \* the answer of source.IsBanned, before apply is called
    applied,       \* history: the time stamps of the finished apply calls
    overlapped     \* history: tenants for which two apply calls overlapped

tableVars  == <<entry, task, applied, overlapped>>
loaderVars == <<lpc, snapshotTime, listed, rest, fetched>>
checkerVars == <<tableVars, loaderVars>>

CheckerTypeOK ==
    /\ entry \in [Tenants -> Entries \cup {Absent}]
    /\ task \in [Goroutines -> Reports \cup {None}]
    /\ lpc \in {"unstarted", "loading", "loaded", "failed"}
    /\ snapshotTime \in Times
    /\ listed \in SUBSET Tenants
    /\ rest \in SUBSET Tenants
    /\ fetched \in Reports \cup {None}
    /\ applied \in [Tenants -> SUBSET Times]
    /\ overlapped \in SUBSET Tenants

CheckerInit ==
    /\ entry = [id \in Tenants |-> Absent]
    /\ task = [g \in Goroutines |-> None]
    /\ lpc = "unstarted"
    /\ snapshotTime = 0
    /\ listed = {}
    /\ rest = {}
    /\ fetched = None
    /\ applied = [id \in Tenants |-> {}]
    /\ overlapped = {}

-----------------------------------------------------------------------------
Busy(id) == \E g \in Goroutines : task[g] # None /\ task[g].id = id

Finished(r) == applied' = [applied EXCEPT ![r.id] = @ \cup {r.at}]

Newer_Reversed(r) == entry[r.id].updatedAt < r.at
\* apply: e.updatedAt.After(at).
Newer(r) == entry[r.id].updatedAt > r.at

\* apply, up to the Load and its test.
Load(g, r) ==
    /\ task[g] = None
    /\ overlapped' = IF Busy(r.id) THEN overlapped \cup {r.id} ELSE overlapped
    /\ \/ Newer(r) /\ Finished(r) /\ UNCHANGED task
       \/ ~Newer(r) /\ task' = [task EXCEPT ![g] = r] /\ UNCHANGED applied
    /\ UNCHANGED entry

\* apply: the Store.
Store(g) ==
    /\ task[g] # None
    /\ entry' = [entry EXCEPT ![task[g].id] =
                    [banned |-> task[g].banned, updatedAt |-> task[g].at]]
    /\ Finished(task[g])
    /\ task' = [task EXCEPT ![g] = None]
    /\ UNCHANGED <<overlapped, loaderVars>>

HandleEvent_StampedOnArrival(g, id, state, at) ==
    /\ Load(g, [id |-> id, banned |-> state = "Banned", at |-> at + 1])
    /\ UNCHANGED loaderVars

\* handleEvent.
HandleEvent(g, id, state, at) ==
    /\ Load(g, [id |-> id, banned |-> state = "Banned", at |-> at])
    /\ UNCHANGED loaderVars

IsBanned(id) == entry[id].banned

-----------------------------------------------------------------------------
\* LoadInitialBannedList: called once, reads the clock once.
LoadBegin(ids, now) ==
    /\ lpc = "unstarted"
    /\ lpc' = "loading"
    /\ snapshotTime' = now
    /\ listed' = ids
    /\ rest' = ids
    /\ UNCHANGED <<tableVars, fetched>>

\* The loop is between two tenants.
AtLoopHead == lpc = "loading" /\ fetched = None /\ task[Loader] = None

\* source.IsBanned answered for the next tenant of the list.
LoadFetch(id, banned) ==
    /\ AtLoopHead
    /\ id \in rest
    /\ rest' = rest \ {id}
    /\ fetched' = [id |-> id, banned |-> banned, at |-> snapshotTime]
    /\ UNCHANGED <<tableVars, lpc, snapshotTime, listed>>

LoadError_Skipped(id) ==
    /\ AtLoopHead
    /\ id \in rest
    /\ rest' = rest \ {id}
    /\ UNCHANGED <<tableVars, lpc, snapshotTime, listed, fetched>>

\* source.IsBanned returned an error: so does LoadInitialBannedList, and the
\* rest of the list stays unread.
LoadError(id) ==
    /\ AtLoopHead
    /\ id \in rest
    /\ lpc' = "failed"
    /\ UNCHANGED <<tableVars, snapshotTime, listed, rest, fetched>>

LoadApply ==
    /\ fetched # None
    /\ Load(Loader, fetched)
    /\ fetched' = None
    /\ UNCHANGED <<lpc, snapshotTime, listed, rest>>

LoadEnd ==
    /\ AtLoopHead
    /\ rest = {}
    /\ lpc' = "loaded"
    /\ UNCHANGED <<tableVars, snapshotTime, listed, rest, fetched>>

\* Any event may arrive at any time and carry any time stamp: events travel
\* through goroutines, networks and the retry queue.
CheckerNext ==
    \/ \E g \in Handlers, id \in Tenants, state \in States, at \in Times :
          HandleEvent(g, id, state, at)
    \/ \E g \in Goroutines : Store(g)
    \/ \E ids \in SUBSET Tenants, now \in Times : LoadBegin(ids, now)
    \/ \E id \in Tenants : LoadError(id) \/ \E banned \in BOOLEAN : LoadFetch(id, banned)
    \/ LoadApply
    \/ LoadEnd

CheckerSpec == CheckerInit /\ [][CheckerNext]_checkerVars

-----------------------------------------------------------------------------
\* As long as the apply calls for a tenant do not overlap, the table holds the
\* newest information that was ever applied for it, in whatever order events
\* and the snapshot came in (apply, "never regress").
NewestWins ==
    \A id \in Tenants \ overlapped : \A at \in applied[id] : entry[id].updatedAt >= at

\* When LoadInitialBannedList returns nil, the table knows every tenant of the
\* list, and from information not older than the snapshot, unless apply calls
\* for that tenant overlapped.
LoadCovers ==
    lpc = "loaded" =>
        \A id \in listed :
            /\ entry[id] # Absent
            /\ id \notin overlapped => entry[id].updatedAt >= snapshotTime

\* What the comment of apply says: a stale snapshot can never overwrite a more
\* recent event, regardless of the execution order of goroutines.
StaleSnapshotNeverOverwrites ==
    [][\A id \in Tenants :
          task[Loader] # None /\ task'[Loader] = None =>
              entry'[id].updatedAt >= entry[id].updatedAt]_checkerVars

\* The loader's answers carry the time of its snapshot, and a tenant it is done
\* with has been applied.
LoaderInv ==
    /\ fetched # None => lpc = "loading" /\ fetched.at = snapshotTime /\ fetched.id \in listed
    /\ task[Loader] # None =>
          /\ lpc = "loading" /\ fetched = None
          /\ task[Loader].at = snapshotTime /\ task[Loader].id \in listed
    /\ lpc \in {"loading", "loaded"} =>
          \A id \in listed :
              \/ id \in rest
              \/ fetched # None /\ fetched.id = id
              \/ task[Loader] # None /\ task[Loader].id = id
              \/ snapshotTime \in applied[id]
    /\ rest \subseteq listed
    /\ lpc = "loaded" => rest = {}

\* A goroutine that is alone with its tenant between Load and Store is about to
\* write something not older than the table.
SerialInv ==
    \A g \in Goroutines : task[g] # None /\ task[g].id \notin overlapped =>
        /\ task[g].at >= entry[task[g].id].updatedAt
        /\ \A h \in Goroutines : task[h] # None /\ task[h].id = task[g].id => h = g

\* An apply call leaves the tenant known, also when it ignores its report.
KnownInv == \A id \in Tenants : applied[id] # {} => entry[id] # Absent

\* What makes NewestWins and LoadCovers inductive: a goroutine that is alone
\* with its tenant between Load and Store of apply holds the newest report, and
\* the loader has fetched, is applying or has applied every id it is past.
CheckerInv == LoaderInv /\ SerialInv /\ KnownInv

=============================================================================
