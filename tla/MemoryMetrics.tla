--------------------------- MODULE MemoryMetrics ---------------------------
(***************************************************************************)
(* metrics.MemoryMetrics: the counters of a tenant are atomic variables    *)
(* that goroutines add to while Snapshot reads them, one by one.  A method *)
(* is the sequence of its atomic operations; todo is what is left of it.   *)
(***************************************************************************)
EXTENDS Callers, Integers, Sequences

CONSTANTS
    Durations,  \* what ObserveLatency is called with
    MaxUpdates  \* bound of the model: updates of each tenant

VARIABLES
    tenants,    \* m.tenants: the caller that allocated the tenant's counters
    counters,   \* the tenantMetrics, named after the tenant and the caller
    doing,      \* per caller: the method in progress
    total,      \* history: what the updates that were begun add up to
    snapshot    \* history: per caller, what its last Snapshot has read

memoryVars == <<tenants, counters, doing, total, snapshot>>

Counters == {"requests", "errors", "latencySum", "latencyCount"}
Zero == [f \in Counters |-> 0]

Plus(field, n) == [field |-> field, n |-> n]

\* The Adds of the updating methods, in the order of the code.
IncRequests == <<Plus("requests", 1)>>
IncErrors == <<Plus("errors", 1)>>
ObserveLatency_CountFirst(d) == <<Plus("latencyCount", 1), Plus("latencySum", d)>>
ObserveLatency(d) == <<Plus("latencySum", d), Plus("latencyCount", 1)>>

Updates == {IncRequests, IncErrors} \cup {ObserveLatency(d) : d \in Durations}

Snapshot_SumFirst == <<"latencySum", "latencyCount", "requests", "errors">>
\* The Loads of Snapshot.  It skips the sum when the count is 0; here the sum is
\* read and AverageLatency ignores it.
Snapshot == <<"latencyCount", "latencySum", "requests", "errors">>

\* What an update or a Snapshot in progress may have left to do.
UpdatesLeft == Updates \cup {<<Plus("latencyCount", 1)>>}
LoadsLeft == {Snapshot, <<"latencySum", "requests", "errors">>, <<"requests", "errors">>, <<"errors">>}

Values == [Counters -> Nat]
UpdateCalls == [op : {"update"}, id : Tenants, of : Goroutines \cup {Nil}, todo : UpdatesLeft, read : {Zero}]
SnapshotCalls == [op : {"snapshot"}, id : Tenants, of : Goroutines \cup {Nil}, todo : LoadsLeft, read : Values]

ASSUME MemoryAssumption ==
    /\ Durations \subseteq Nat /\ MaxUpdates \in Nat
    /\ Nil \notin UpdateCalls \cup SnapshotCalls

MemoryTypeOK ==
    /\ tenants \in [Tenants -> Goroutines \cup {Nil}]
    /\ counters \in [Tenants -> [Goroutines -> Values]]
    /\ doing \in [Goroutines -> UpdateCalls \cup SnapshotCalls \cup {Nil}]
    /\ total \in [Tenants -> Values]
    /\ snapshot \in [Goroutines -> Values \cup {Nil}]

\* New.
MemoryInit ==
    /\ tenants = [id \in Tenants |-> Nil]
    /\ counters = [id \in Tenants |-> [c \in Goroutines |-> Zero]]
    /\ doing = [c \in Goroutines |-> Nil]
    /\ total = [id \in Tenants |-> Zero]
    /\ snapshot = [c \in Goroutines |-> Nil]

-----------------------------------------------------------------------------
AverageLatency(s) == IF s["latencyCount"] > 0 THEN s["latencySum"] \div s["latencyCount"] ELSE 0

\* What an update adds to a counter, in the two Adds it has at most.
Due(add, field) == IF add.field = field THEN add.n ELSE 0
Amount(todo, field) ==
      (IF Len(todo) > 0 THEN Due(todo[1], field) ELSE 0)
    + (IF Len(todo) > 1 THEN Due(todo[2], field) ELSE 0)

\* Caller c goes on, with the counters of a tenant, todo left and what it has read.
GoOn(c, of, todo, read) ==
    doing' = [doing EXCEPT ![c] = IF todo = <<>> THEN Nil
                                  ELSE [op |-> doing[c].op, id |-> doing[c].id, of |-> of,
                                        todo |-> todo, read |-> read]]

Begin(c, op, id, todo) ==
    /\ doing[c] = Nil
    /\ doing' = [doing EXCEPT ![c] = [op |-> op, id |-> id, of |-> Nil, todo |-> todo, read |-> Zero]]
    /\ UNCHANGED <<tenants, counters>>

BeginUpdate(c, id) ==
    /\ total[id]["requests"] + total[id]["errors"] + total[id]["latencyCount"] < MaxUpdates
    /\ \E todo \in Updates :
          /\ Begin(c, "update", id, todo)
          /\ total' = [total EXCEPT ![id] = [f \in Counters |-> @[f] + Amount(todo, f)]]
    /\ UNCHANGED snapshot

BeginSnapshot(c, id) ==
    /\ Begin(c, "snapshot", id, Snapshot)
    /\ snapshot' = [snapshot EXCEPT ![c] = Nil]
    /\ UNCHANGED total

GetOrCreate_Stale(c) ==
    /\ doing[c] # Nil /\ doing[c].of = Nil
    /\ \E found \in {tenants[doing[c].id], Nil} :
          tenants' = [tenants EXCEPT ![doing[c].id] = IF found = Nil THEN c ELSE @]
    /\ GoOn(c, tenants'[doing[c].id], doing[c].todo, doing[c].read)
    /\ UNCHANGED <<counters, total, snapshot>>

\* getOrCreate: LoadOrStore of counters that are zero.
GetOrCreate(c) ==
    /\ doing[c] # Nil /\ doing[c].of = Nil
    /\ tenants' = [tenants EXCEPT ![doing[c].id] = IF @ = Nil THEN c ELSE @]
    /\ GoOn(c, tenants'[doing[c].id], doing[c].todo, doing[c].read)
    /\ UNCHANGED <<counters, total, snapshot>>

Running(c, op) == doing[c] # Nil /\ doing[c].op = op /\ doing[c].of # Nil

\* The next Add of an update.
Add(c) ==
    LET add == Head(doing[c].todo)
        rest == Tail(doing[c].todo)
    IN  /\ Running(c, "update")
        /\ counters' = [counters EXCEPT ![doing[c].id][doing[c].of][add.field] = @ + add.n]
        /\ GoOn(c, doing[c].of, rest, doing[c].read)
        /\ UNCHANGED <<tenants, total, snapshot>>

\* The next Load of a Snapshot, which returns after the last one.
Load(c) ==
    LET field == Head(doing[c].todo)
        rest == Tail(doing[c].todo)
        read == [doing[c].read EXCEPT ![field] = counters[doing[c].id][doing[c].of][field]]
    IN  /\ Running(c, "snapshot")
        /\ GoOn(c, doing[c].of, rest, read)
        /\ snapshot' = [snapshot EXCEPT ![c] = IF rest = <<>> THEN read ELSE @]
        /\ UNCHANGED <<tenants, counters, total>>

MemoryNext ==
    \E c \in Goroutines :
       \/ \E id \in Tenants : BeginUpdate(c, id) \/ BeginSnapshot(c, id)
       \/ GetOrCreate(c) \/ Add(c) \/ Load(c)

MemorySpec == MemoryInit /\ [][MemoryNext]_memoryVars

-----------------------------------------------------------------------------
\* No update is lost, however many goroutines meet a new tenant at the same
\* time: once the updates of a tenant have returned, the counters that Snapshot
\* reads are exactly what they add up to.
NothingUncounted ==
    \A id \in Tenants :
       \/ \E c \in Goroutines : doing[c] # Nil /\ doing[c].id = id /\ doing[c].op = "update"
       \/ total[id] = IF tenants[id] = Nil THEN Zero ELSE counters[id][tenants[id]]

\* Snapshot reads counters that change under its feet, so its average may count
\* a duration without its observation and be too high; but it is never below
\* the shortest duration, since the sum is added before the count and read
\* after it.
AverageNotTooLow ==
    \A c \in Goroutines :
       LET s == snapshot[c]
       IN  s # Nil /\ s["latencyCount"] > 0 =>
              \E d \in Durations : d <= AverageLatency(s)

=============================================================================
