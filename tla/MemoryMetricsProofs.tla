------------------------ MODULE MemoryMetricsProofs ------------------------
(***************************************************************************)
(* The invariant of MemoryMetrics, and what its steps do, for any number   *)
(* of goroutines and tenants and every set of durations.  MetricsProofs    *)
(* counts with it.                                                         *)
(***************************************************************************)
EXTENDS MemoryMetrics, TLAPS

\* A leaf is tried with Zenon first; SMT marks those that need arithmetic or the
\* theory of functions, records and sequences.
USE Zenon, SMTT(30)

\* The next operation of a method, and what is left after it.
First(todo) == Head(todo)
Left(todo) == Tail(todo)
Over(todo) == todo = <<>>

\* Where the method of caller c is.
At(c, id, of, todo) == doing[c].id = id /\ doing[c].of = of /\ doing[c].todo = todo

\* What a method in progress still has to add to a counter of the tenant.
StillToAdd(method, id, f) ==
    IF method # Nil /\ method.op = "update" /\ method.id = id THEN Amount(method.todo, f) ELSE 0

\* The same for all callers, as a function, and its sum, as the size of a set:
\* a block of a[c] pairs for each caller c.
Owed(id, f) == [c \in Goroutines |-> StillToAdd(doing[c], id, f)]
Blocks(a) == {p \in Goroutines \X Nat : p[2] >= 1 /\ p[2] <= a[p[1]]}

\* A method that has added a duration of the tenant, and not yet counted it, and
\* the callers of such methods.
CountLeft(method, id) ==
    method # Nil /\ method.op = "update" /\ method.id = id /\ First(method.todo).field = "latencyCount"
Summed(id) == {c \in Goroutines : CountLeft(doing[c], id)}

\* They can be counted: SummedIsFinite in MetricsProofs.
SummedFinite == \A id \in Tenants : Cardinality(Summed(id)) \in Nat

\* The average of these counters is not below every duration.
NotTooLow(s) == s["latencyCount"] = 0 \/ \E d \in Durations : d * s["latencyCount"] <= s["latencySum"]

\* The counter of a tenant that Snapshot reads.
Stored(id, f) == IF tenants[id] = Nil THEN 0 ELSE counters[id][tenants[id]][f]

\* Every Add that was begun is in the counters that are stored, or is still to
\* come; other counters have never been used.
CountedOK(id) ==
    /\ \A f \in Counters :
          /\ IsFiniteSet(Blocks(Owed(id, f)))
          /\ total[id][f] = Cardinality(Blocks(Owed(id, f))) + Stored(id, f)
    /\ \A c \in Goroutines : tenants[id] # c => counters[id][c] = Zero

\* The durations that are in the sum suffice for everything that is counted or
\* about to be.
LatencyOK(id) ==
    LET n == Stored(id, "latencyCount") + Cardinality(Summed(id))
    IN  n = 0 \/ \E d \in Durations : d * n <= Stored(id, "latencySum")

\* Callers use the counters that are stored, before their first Add.
OwnerOK(c) ==
    doing[c] # Nil =>
       /\ doing[c].of # Nil => doing[c].of = tenants[doing[c].id]
       /\ doing[c].op = "update" /\ First(doing[c].todo).field = "latencyCount" => doing[c].of # Nil

\* What a Snapshot has read.
ReadOK(c) ==
    doing[c] # Nil /\ doing[c].op = "snapshot" =>
       /\ First(doing[c].todo) # "latencyCount" => doing[c].of # Nil
       /\ First(doing[c].todo) = "latencySum"
             => doing[c].read["latencyCount"] <= counters[doing[c].id][doing[c].of]["latencyCount"]
       /\ First(doing[c].todo) \in {"requests", "errors"} => NotTooLow(doing[c].read)

SnapshotOK(c) == snapshot[c] # Nil => NotTooLow(snapshot[c])

CountedInv == \A id \in Tenants : CountedOK(id)
LatencyInv == \A id \in Tenants : LatencyOK(id)
OwnerInv == \A c \in Goroutines : OwnerOK(c)
ReadInv == \A c \in Goroutines : ReadOK(c)
SnapshotInv == \A c \in Goroutines : SnapshotOK(c)

\* The inductive invariant of MemoryMetrics.
MemoryInv == MemoryTypeOK /\ OwnerInv /\ CountedInv /\ LatencyInv /\ ReadInv /\ SnapshotInv

-----------------------------------------------------------------------------
\* The fields of an Add, and what adding up an update's one or two Adds gives.
LEMMA PlusFields == ASSUME NEW f, NEW n PROVE Plus(f, n).field = f /\ Plus(f, n).n = n
  BY DEF Plus

\* What an Add adds to a counter.
LEMMA DueOfPlus ==
    ASSUME NEW g, NEW n, NEW f PROVE Due(Plus(g, n), f) = IF g = f THEN n ELSE 0
  BY PlusFields DEF Due

\* What two Adds add to a counter.
LEMMA AmountOfTwo ==
    ASSUME NEW a, NEW b, NEW f PROVE Amount(<<a, b>>, f) = Due(a, f) + Due(b, f)
  BY SMT DEF Amount

\* What one Add adds to a counter.
LEMMA AmountOfOne == ASSUME NEW a, NEW f PROVE Amount(<<a>>, f) = Due(a, f) + 0
  BY SMT DEF Amount

\* Nothing is left to add.
LEMMA AmountOfNone == ASSUME NEW f PROVE Amount(<<>>, f) = 0
  BY SMT DEF Amount

\* Updates and Loads have a first element, and what is left after it.
LEMMA Tails ==
    ASSUME NEW a, NEW b, NEW c, NEW d
    PROVE  /\ Head(<<a>>) = a /\ Tail(<<a>>) = <<>> /\ <<a>> # <<>>
           /\ Head(<<a, b>>) = a /\ Tail(<<a, b>>) = <<b>> /\ <<a, b>> # <<>>
           /\ Head(<<a, b, c>>) = a /\ Tail(<<a, b, c>>) = <<b, c>> /\ <<a, b, c>> # <<>>
           /\ Head(<<a, b, c, d>>) = a /\ Tail(<<a, b, c, d>>) = <<b, c, d>> /\ <<a, b, c, d>> # <<>>
  BY SMT

\* The first Add of an update and what is left after it.
LEMMA UpdateStep ==
    ASSUME NEW todo \in UpdatesLeft
    PROVE  LET add == Head(todo)
               left == Tail(todo)
           IN
           /\ todo # <<>> /\ add.field \in Counters /\ add.n \in Nat
           /\ left = <<>> \/ (left \in UpdatesLeft /\ left # <<>> /\ Head(left).field = "latencyCount"
                              /\ add.field = "latencySum")
           /\ \A f \in Counters : Amount(todo, f) \in Nat /\ Amount(left, f) \in Nat
           /\ Amount(left, add.field) = 0 /\ Amount(todo, add.field) = add.n
           /\ \A f \in Counters : f # add.field => Amount(left, f) = Amount(todo, f)
           /\ add.field = "latencySum" => add.n \in Durations /\ left # <<>>
           /\ add.field = "latencyCount" => add.n = 1
           /\ todo \in Updates => add.field # "latencyCount"
<1>1. ASSUME NEW f \in Counters, f # "latencySum", f # "latencyCount" \/ todo \notin Updates,
             todo = <<Plus(f, 1)>>
      PROVE  /\ Head(todo) = Plus(f, 1) /\ Head(todo).field = f /\ Head(todo).n = 1
             /\ Tail(todo) = <<>> /\ todo # <<>>
             /\ \A g : Amount(todo, g) = IF f = g THEN 1 ELSE 0
             /\ \A g : Amount(Tail(todo), g) = 0
  <2>1. Head(todo) = Plus(f, 1) /\ Tail(todo) = <<>> /\ todo # <<>>
    BY <1>1, Tails
  <2>2. Head(todo).field = f /\ Head(todo).n = 1
    BY <2>1, PlusFields, SMT
  <2>3. ASSUME NEW g PROVE Amount(todo, g) = IF f = g THEN 1 ELSE 0
    <3>1. Due(Plus(f, 1), g) = IF f = g THEN 1 ELSE 0
      BY DueOfPlus, SMT
    <3>2. Amount(todo, g) = Due(Plus(f, 1), g) + 0
      BY <1>1, AmountOfOne
    <3> QED
      BY <3>1, <3>2, SMT
  <2>4. ASSUME NEW g PROVE Amount(Tail(todo), g) = 0
    BY <2>1, AmountOfNone
  <2> QED
    BY <2>1, <2>2, <2>3, <2>4
<1>2. ASSUME NEW d \in Durations, todo = ObserveLatency(d)
      PROVE  /\ Head(todo).field = "latencySum" /\ Head(todo).n = d /\ d \in Nat
             /\ Tail(todo) = <<Plus("latencyCount", 1)>> /\ todo # <<>>
             /\ \A g : Amount(todo, g) = IF g = "latencySum" THEN d ELSE IF g = "latencyCount" THEN 1 ELSE 0
             /\ \A g : Amount(Tail(todo), g) = IF g = "latencyCount" THEN 1 ELSE 0
  <2>0. todo = <<Plus("latencySum", d), Plus("latencyCount", 1)>> /\ d \in Nat
    BY <1>2, MemoryAssumption DEF ObserveLatency
  <2>1. Head(todo) = Plus("latencySum", d) /\ Tail(todo) = <<Plus("latencyCount", 1)>> /\ todo # <<>>
    BY <2>0, Tails, SMT
  <2>2. Head(todo).field = "latencySum" /\ Head(todo).n = d
    BY <2>1, PlusFields, SMT
  <2>3. ASSUME NEW g
        PROVE  /\ Amount(todo, g) = IF g = "latencySum" THEN d ELSE IF g = "latencyCount" THEN 1 ELSE 0
               /\ Amount(Tail(todo), g) = IF g = "latencyCount" THEN 1 ELSE 0
    <3>1. /\ Due(Plus("latencySum", d), g) = IF "latencySum" = g THEN d ELSE 0
          /\ Due(Plus("latencyCount", 1), g) = IF "latencyCount" = g THEN 1 ELSE 0
      BY DueOfPlus, SMT
    <3>2. /\ Amount(todo, g) = Due(Plus("latencySum", d), g)
                                      + Due(Plus("latencyCount", 1), g)
          /\ Amount(Tail(todo), g) = Due(Plus("latencyCount", 1), g) + 0
      BY <2>0, <2>1, AmountOfOne, AmountOfTwo, ZenonT(30)
    <3> QED
      BY <2>0, <3>1, <3>2, SMT
  <2> QED
    BY <2>0, <2>1, <2>2, <2>3
<1>3. CASE todo \in {IncRequests, IncErrors}
  <2>1. PICK f \in {"requests", "errors"} : todo = <<Plus(f, 1)>>
    BY <1>3 DEF IncRequests, IncErrors
  <2>2. f \in Counters /\ f # "latencySum" /\ f # "latencyCount"
    BY DEF Counters
  <2>3. /\ Head(todo).field = f /\ Head(todo).n = 1 /\ Tail(todo) = <<>> /\ todo # <<>>
        /\ \A g : Amount(todo, g) = IF f = g THEN 1 ELSE 0
        /\ \A g : Amount(Tail(todo), g) = 0
    BY <1>1, <2>1, <2>2
  <2>4. ASSUME NEW g \in Counters
        PROVE  /\ Amount(todo, g) \in Nat /\ Amount(Tail(todo), g) \in Nat
               /\ g = f => Amount(Tail(todo), g) = 0 /\ Amount(todo, g) = 1
               /\ g # f => Amount(Tail(todo), g) = Amount(todo, g)
    BY <2>3, SMT
  <2> QED
    BY <2>2, <2>3, <2>4, SMT
<1>4. CASE \E d \in Durations : todo = ObserveLatency(d)
  <2>1. PICK d \in Durations : todo = ObserveLatency(d)
    BY <1>4
  <2>2. <<Plus("latencyCount", 1)>> \in UpdatesLeft
    BY DEF UpdatesLeft
  <2>3. <<Plus("latencyCount", 1)>> # <<>> /\ Head(<<Plus("latencyCount", 1)>>).field = "latencyCount"
    BY Tails, PlusFields, SMT
  <2>4. /\ Head(todo).field = "latencySum" /\ Head(todo).n = d /\ d \in Nat
        /\ Tail(todo) = <<Plus("latencyCount", 1)>> /\ todo # <<>>
        /\ \A g : Amount(todo, g) = IF g = "latencySum" THEN d ELSE IF g = "latencyCount" THEN 1 ELSE 0
        /\ \A g : Amount(Tail(todo), g) = IF g = "latencyCount" THEN 1 ELSE 0
    BY <1>2, <2>1
  <2>5. ASSUME NEW g \in Counters
        PROVE  /\ Amount(todo, g) \in Nat /\ Amount(Tail(todo), g) \in Nat
               /\ g = "latencySum" => Amount(Tail(todo), g) = 0 /\ Amount(todo, g) = d
               /\ g # "latencySum" => Amount(Tail(todo), g) = Amount(todo, g)
    BY <2>4, SMT
  <2>6. "latencySum" \in Counters
    BY DEF Counters
  <2>7. /\ Tail(todo) \in UpdatesLeft /\ Tail(todo) # <<>> /\ Head(Tail(todo)).field = "latencyCount"
        /\ todo # <<>> /\ Head(todo).field = "latencySum" /\ Head(todo).n = d /\ d \in Nat
    BY <2>2, <2>3, <2>4
  <2> QED
    BY <2>5, <2>6, <2>7
<1>5. CASE todo = <<Plus("latencyCount", 1)>>
  <2>1. /\ "latencyCount" \in Counters /\ "latencyCount" # "latencySum"
    BY DEF Counters
  <2>2. todo \notin Updates
    <3>1. Head(todo).field = "latencyCount"
      BY <1>5, Tails, PlusFields, SMT
    <3>2. ASSUME NEW d \in Durations, todo = ObserveLatency(d) PROVE FALSE
      BY <1>2, <3>1, <3>2
    <3>3. todo # IncRequests /\ todo # IncErrors
      <4>1. ASSUME NEW f \in {"requests", "errors"}, todo = <<Plus(f, 1)>> PROVE FALSE
        <5>1. Head(todo).field = f
          BY <4>1, Tails, PlusFields, SMT
        <5> QED
          BY <3>1, <5>1
      <4> QED
        BY <4>1 DEF IncRequests, IncErrors
    <3> QED
      BY <3>2, <3>3 DEF Updates
  <2>3. /\ Head(todo).field = "latencyCount" /\ Head(todo).n = 1 /\ Tail(todo) = <<>> /\ todo # <<>>
        /\ \A g : Amount(todo, g) = IF "latencyCount" = g THEN 1 ELSE 0
        /\ \A g : Amount(Tail(todo), g) = 0
    BY <1>1, <1>5, <2>1, <2>2
  <2>4. ASSUME NEW g \in Counters
        PROVE  /\ Amount(todo, g) \in Nat /\ Amount(Tail(todo), g) \in Nat
               /\ g = "latencyCount" => Amount(Tail(todo), g) = 0 /\ Amount(todo, g) = 1
               /\ g # "latencyCount" => Amount(Tail(todo), g) = Amount(todo, g)
    BY <2>3, SMT
  <2> QED
    BY <2>1, <2>2, <2>3, <2>4
<1> QED
  BY <1>3, <1>4, <1>5 DEF UpdatesLeft, Updates

\* The first Load of a Snapshot and what is left after it.
LEMMA LoadStep ==
    ASSUME NEW todo \in LoadsLeft
    PROVE  LET field == Head(todo)
               left == Tail(todo)
           IN
           /\ todo # <<>> /\ field \in Counters
           /\ left = <<>> \/ (left \in LoadsLeft /\ left # <<>>)
           /\ field = "latencyCount" => left # <<>> /\ Head(left) = "latencySum"
           /\ field = "latencySum" => left # <<>> /\ Head(left) = "requests"
           /\ field = "requests" => left # <<>> /\ Head(left) = "errors"
           /\ field = "errors" => left = <<>>
<1>1. CASE todo = Snapshot
  <2>1. todo = <<"latencyCount", "latencySum", "requests", "errors">>
    BY <1>1 DEF Snapshot
  <2>2. /\ todo # <<>> /\ Head(todo) = "latencyCount"
        /\ Tail(todo) = <<"latencySum", "requests", "errors">> /\ Tail(todo) # <<>>
        /\ Head(Tail(todo)) = "latencySum"
    BY <2>1, Tails, SMT
  <2> QED
    BY <2>2 DEF LoadsLeft, Counters
<1>2. CASE todo = <<"latencySum", "requests", "errors">>
  <2>2. /\ todo # <<>> /\ Head(todo) = "latencySum"
        /\ Tail(todo) = <<"requests", "errors">> /\ Tail(todo) # <<>>
        /\ Head(Tail(todo)) = "requests"
    BY <1>2, Tails, SMT
  <2> QED
    BY <2>2 DEF LoadsLeft, Counters
<1>3. CASE todo = <<"requests", "errors">>
  <2>2. /\ todo # <<>> /\ Head(todo) = "requests"
        /\ Tail(todo) = <<"errors">> /\ Tail(todo) # <<>>
        /\ Head(Tail(todo)) = "errors"
    BY <1>3, Tails, SMT
  <2> QED
    BY <2>2 DEF LoadsLeft, Counters
<1>4. CASE todo = <<"errors">>
  <2>2. todo # <<>> /\ Head(todo) = "errors" /\ Tail(todo) = <<>>
    BY <1>4, Tails
  <2> QED
    BY <2>2 DEF Counters
<1> QED
  BY <1>1, <1>2, <1>3, <1>4, SMTT(30) DEF LoadsLeft

\* The same, with the names that hide Head and Tail.
LEMMA UpdateFirst ==
    ASSUME NEW todo \in UpdatesLeft
    PROVE  LET add == First(todo)
               left == Left(todo)
           IN
           /\ ~ Over(todo) /\ add.field \in Counters /\ add.n \in Nat
           /\ Over(left) \/ (left \in UpdatesLeft /\ ~ Over(left) /\ First(left).field = "latencyCount"
                              /\ add.field = "latencySum")
           /\ \A f \in Counters : Amount(todo, f) \in Nat /\ Amount(left, f) \in Nat
           /\ Amount(left, add.field) = 0 /\ Amount(todo, add.field) = add.n
           /\ \A f \in Counters : f # add.field => Amount(left, f) = Amount(todo, f)
           /\ add.field = "latencySum" => add.n \in Durations /\ ~ Over(left)
           /\ add.field = "latencyCount" => add.n = 1
           /\ todo \in Updates => add.field # "latencyCount"
  BY UpdateStep DEF First, Left, Over

\* The first Load, likewise.
LEMMA LoadFirst ==
    ASSUME NEW todo \in LoadsLeft
    PROVE  LET field == First(todo)
               left == Left(todo)
           IN
           /\ ~ Over(todo) /\ field \in Counters
           /\ Over(left) \/ (left \in LoadsLeft /\ ~ Over(left))
           /\ field = "latencyCount" => ~ Over(left) /\ First(left) = "latencySum"
           /\ field = "latencySum" => ~ Over(left) /\ First(left) = "requests"
           /\ field = "requests" => ~ Over(left) /\ First(left) = "errors"
           /\ field = "errors" => Over(left)
  BY LoadStep DEF First, Left, Over

\* Counters that are all zero.
LEMMA ZeroFields == Zero \in Values /\ \A f \in Counters : Zero[f] = 0
  BY DEF Zero, Values

\* The fields of a method in progress.
LEMMA CallFields ==
    ASSUME MemoryTypeOK, NEW c \in Goroutines, doing[c] # Nil
    PROVE  /\ doing[c].op \in {"update", "snapshot"}
           /\ doing[c].id \in Tenants /\ doing[c].of \in Goroutines \cup {Nil}
           /\ doing[c].op = "update" => doing[c].todo \in UpdatesLeft /\ doing[c].read = Zero
           /\ doing[c].op = "snapshot" => doing[c].todo \in LoadsLeft
           /\ doing[c].read \in Values
<1>1. CASE doing[c] \in UpdateCalls
  BY <1>1, ZeroFields DEF UpdateCalls
<1>2. CASE doing[c] \in SnapshotCalls
  BY <1>2 DEF SnapshotCalls
<1> QED
  BY <1>1, <1>2 DEF MemoryTypeOK

\* Goto changes the method of one caller, or ends it.
LEMMA GoOnStep ==
    ASSUME MemoryTypeOK, NEW c \in Goroutines, doing[c] # Nil,
           NEW of \in Goroutines \cup {Nil}, NEW todo, NEW read \in Values,
           GoOn(c, of, todo, read),
           \/ Over(todo)
           \/ doing[c].op = "update" /\ todo \in UpdatesLeft /\ read = Zero
           \/ doing[c].op = "snapshot" /\ todo \in LoadsLeft
    PROVE  /\ doing' \in [Goroutines -> UpdateCalls \cup SnapshotCalls \cup {Nil}]
           /\ \A d \in Goroutines : d # c => doing'[d] = doing[d]
           /\ Over(todo) => doing'[c] = Nil
           /\ ~ Over(todo) => /\ doing'[c] # Nil /\ doing'[c].op = doing[c].op
                              /\ doing'[c].id = doing[c].id /\ doing'[c].of = of
                              /\ doing'[c].todo = todo /\ doing'[c].read = read
<1>0. doing[c].id \in Tenants /\ doing \in [Goroutines -> UpdateCalls \cup SnapshotCalls \cup {Nil}]
  BY CallFields DEF MemoryTypeOK
<1>1. CASE Over(todo)
  <2>1. doing' = [doing EXCEPT ![c] = Nil]
    BY <1>1 DEF GoOn, Over
  <2> QED
    BY <1>0, <1>1, <2>1
<1>2. CASE ~ Over(todo)
  <2> DEFINE r == [op |-> doing[c].op, id |-> doing[c].id, of |-> of, todo |-> todo, read |-> read]
  <2>0. r \in UpdateCalls \cup SnapshotCalls
    BY <1>0, <1>2 DEF UpdateCalls, SnapshotCalls
  <2>1. r.op = doing[c].op /\ r.id = doing[c].id /\ r.of = of /\ r.todo = todo /\ r.read = read
    OBVIOUS
  <2>2. doing' = [doing EXCEPT ![c] = r]
    BY <1>2 DEF GoOn, Over
  <2> HIDE DEF r
  <2>5. r # Nil
    BY <2>0, MemoryAssumption
  <2>3. doing'[c] = r /\ \A d \in Goroutines : d # c => doing'[d] = doing[d]
    BY <1>0, <2>2
  <2>4. doing' \in [Goroutines -> UpdateCalls \cup SnapshotCalls \cup {Nil}]
    BY <1>0, <2>0, <2>2
  <2> QED
    BY <1>2, <2>1, <2>3, <2>4, <2>5
<1> QED
  BY <1>1, <1>2

\* Begin starts the method of one caller.
LEMMA BeginStep ==
    ASSUME MemoryTypeOK, NEW c \in Goroutines, NEW op, NEW id \in Tenants, NEW todo,
           Begin(c, op, id, todo),
           \/ op = "update" /\ todo \in UpdatesLeft
           \/ op = "snapshot" /\ todo \in LoadsLeft
    PROVE  /\ doing[c] = Nil
           /\ doing' \in [Goroutines -> UpdateCalls \cup SnapshotCalls \cup {Nil}]
           /\ \A d \in Goroutines : d # c => doing'[d] = doing[d]
           /\ doing'[c] # Nil /\ doing'[c].op = op /\ doing'[c].id = id /\ doing'[c].of = Nil
           /\ doing'[c].todo = todo /\ doing'[c].read = Zero
           /\ tenants' = tenants /\ counters' = counters
<1>0. doing \in [Goroutines -> UpdateCalls \cup SnapshotCalls \cup {Nil}] /\ Nil \in Goroutines \cup {Nil}
  BY DEF MemoryTypeOK
<1> DEFINE r == [op |-> op, id |-> id, of |-> Nil, todo |-> todo, read |-> Zero]
<1>a. r \in UpdateCalls \cup SnapshotCalls
  BY ZeroFields DEF UpdateCalls, SnapshotCalls
<1>1. r.op = op /\ r.id = id /\ r.of = Nil /\ r.todo = todo /\ r.read = Zero
  OBVIOUS
<1>2. /\ doing' = [doing EXCEPT ![c] = r] /\ doing[c] = Nil
      /\ tenants' = tenants /\ counters' = counters
  BY DEF Begin
<1> HIDE DEF r
<1>b. r # Nil
  BY <1>a, MemoryAssumption
<1>3. doing'[c] = r /\ \A d \in Goroutines : d # c => doing'[d] = doing[d]
  BY <1>0, <1>2
<1>4. doing' \in [Goroutines -> UpdateCalls \cup SnapshotCalls \cup {Nil}]
  BY <1>0, <1>a, <1>2
<1> QED
  BY <1>1, <1>2, <1>3, <1>4, <1>b

\* A method in progress has something left to do.
LEMMA SomethingLeft ==
    ASSUME MemoryTypeOK, NEW c \in Goroutines, doing[c] # Nil
    PROVE  ~ Over(doing[c].todo)
  BY CallFields, UpdateFirst, LoadFirst

\* The effects of the actions, one lemma each: BeginUpdate starts an update.
LEMMA BeginUpdateStep ==
    ASSUME MemoryTypeOK, NEW c \in Goroutines, NEW id \in Tenants, BeginUpdate(c, id)
    PROVE  \E todo \in Updates :
              /\ todo \in UpdatesLeft
              /\ doing[c] = Nil
              /\ \A d \in Goroutines : d # c => doing'[d] = doing[d]
              /\ doing'[c] # Nil /\ doing'[c].op = "update" /\ doing'[c].id = id /\ doing'[c].of = Nil
              /\ doing'[c].todo = todo
              /\ \A t \in Tenants : t # id => total'[t] = total[t]
              /\ \A f \in Counters : total'[id][f] = total[id][f] + Amount(todo, f)
              /\ tenants' = tenants /\ counters' = counters /\ snapshot' = snapshot
              /\ MemoryTypeOK'
<1>1. PICK todo \in Updates :
         /\ Begin(c, "update", id, todo)
         /\ total' = [total EXCEPT ![id] = [f \in Counters |-> total[id][f] + Amount(todo, f)]]
         /\ snapshot' = snapshot
  BY DEF BeginUpdate
<1>a. Begin(c, "update", id, todo)
  BY <1>1
<1>2. todo \in UpdatesLeft
  BY DEF UpdatesLeft
<1>3. /\ doing[c] = Nil
      /\ doing' \in [Goroutines -> UpdateCalls \cup SnapshotCalls \cup {Nil}]
      /\ \A d \in Goroutines : d # c => doing'[d] = doing[d]
      /\ doing'[c] # Nil /\ doing'[c].op = "update" /\ doing'[c].id = id /\ doing'[c].of = Nil
      /\ doing'[c].todo = todo
      /\ tenants' = tenants /\ counters' = counters
  BY <1>a, <1>2, BeginStep
<1>4. \A f \in Counters : Amount(todo, f) \in Nat
  BY <1>2, UpdateFirst
<1>5. total \in [Tenants -> [Counters -> Nat]]
  BY DEF MemoryTypeOK, Values
<1>6. /\ \A t \in Tenants : t # id => total'[t] = total[t]
      /\ \A f \in Counters : total'[id][f] = total[id][f] + Amount(todo, f)
      /\ total' \in [Tenants -> [Counters -> Nat]]
  BY <1>1, <1>4, <1>5, SMT
<1>7. MemoryTypeOK'
  BY <1>1, <1>3, <1>6 DEF MemoryTypeOK, Values
<1> QED
  BY <1>1, <1>2, <1>3, <1>6, <1>7

\* BeginSnapshot starts a Snapshot that has read nothing.
LEMMA BeginSnapshotStep ==
    ASSUME MemoryTypeOK, NEW c \in Goroutines, NEW id \in Tenants, BeginSnapshot(c, id)
    PROVE  /\ doing[c] = Nil
           /\ \A d \in Goroutines : d # c => doing'[d] = doing[d]
           /\ doing'[c] # Nil /\ doing'[c].op = "snapshot" /\ doing'[c].id = id /\ doing'[c].of = Nil
           /\ First(doing'[c].todo) = "latencyCount"
           /\ \A d \in Goroutines : d # c => snapshot'[d] = snapshot[d]
           /\ snapshot'[c] = Nil
           /\ tenants' = tenants /\ counters' = counters /\ total' = total
           /\ MemoryTypeOK'
<1>1. Snapshot \in LoadsLeft /\ First(Snapshot) = "latencyCount"
  <2>1. First(Snapshot) = "latencyCount"
    BY Tails, SMT DEF Snapshot, First
  <2> QED
    BY <2>1 DEF LoadsLeft
<1>2. /\ Begin(c, "snapshot", id, Snapshot)
      /\ snapshot' = [snapshot EXCEPT ![c] = Nil] /\ total' = total
  BY DEF BeginSnapshot
<1>3. /\ doing[c] = Nil
      /\ doing' \in [Goroutines -> UpdateCalls \cup SnapshotCalls \cup {Nil}]
      /\ \A d \in Goroutines : d # c => doing'[d] = doing[d]
      /\ doing'[c] # Nil /\ doing'[c].op = "snapshot" /\ doing'[c].id = id /\ doing'[c].of = Nil
      /\ doing'[c].todo = Snapshot
      /\ tenants' = tenants /\ counters' = counters
  BY <1>1, <1>2, BeginStep
<1>4. snapshot \in [Goroutines -> Values \cup {Nil}]
  BY DEF MemoryTypeOK
<1>5. /\ \A d \in Goroutines : d # c => snapshot'[d] = snapshot[d]
      /\ snapshot'[c] = Nil /\ snapshot' \in [Goroutines -> Values \cup {Nil}]
  BY <1>2, <1>4
<1>6. MemoryTypeOK'
  BY <1>2, <1>3, <1>5 DEF MemoryTypeOK
<1> QED
  BY <1>1, <1>2, <1>3, <1>5, <1>6

\* GetOrCreate finds the counters of a tenant or stores new ones.
LEMMA GetOrCreateStep ==
    ASSUME MemoryTypeOK, NEW c \in Goroutines, GetOrCreate(c), NEW id, id = doing[c].id
    PROVE  /\ doing[c] # Nil /\ id \in Tenants /\ doing[c].of = Nil
           /\ \A d \in Goroutines : d # c => doing'[d] = doing[d]
           /\ doing'[c] # Nil /\ doing'[c].op = doing[c].op /\ doing'[c].id = id
           /\ doing'[c].todo = doing[c].todo /\ doing'[c].read = doing[c].read
           /\ doing'[c].of = tenants'[id] /\ tenants'[id] \in Goroutines
           /\ \A t \in Tenants : t # id => tenants'[t] = tenants[t]
           /\ tenants[id] # Nil => tenants'[id] = tenants[id]
           /\ counters' = counters /\ total' = total /\ snapshot' = snapshot
           /\ MemoryTypeOK'
<1>0. /\ doing[c] # Nil /\ doing[c].of = Nil
      /\ tenants' = [tenants EXCEPT ![id] = IF tenants[id] = Nil THEN c ELSE tenants[id]]
      /\ GoOn(c, tenants'[id], doing[c].todo, doing[c].read)
      /\ counters' = counters /\ total' = total /\ snapshot' = snapshot
  BY DEF GetOrCreate, MemoryTypeOK
<1>1. /\ doing[c].op \in {"update", "snapshot"}
      /\ id \in Tenants
      /\ doing[c].op = "update" => doing[c].todo \in UpdatesLeft /\ doing[c].read = Zero
      /\ doing[c].op = "snapshot" => doing[c].todo \in LoadsLeft
      /\ doing[c].read \in Values /\ ~ Over(doing[c].todo)
  BY <1>0, CallFields, SomethingLeft
<1>2. tenants \in [Tenants -> Goroutines \cup {Nil}] /\ Nil \notin Goroutines
  BY CallersAssumption DEF MemoryTypeOK
<1>3. /\ tenants' \in [Tenants -> Goroutines \cup {Nil}] /\ tenants'[id] \in Goroutines
      /\ \A t \in Tenants : t # id => tenants'[t] = tenants[t]
      /\ tenants[id] # Nil => tenants'[id] = tenants[id]
  BY <1>0, <1>1, <1>2
<1>4. /\ doing' \in [Goroutines -> UpdateCalls \cup SnapshotCalls \cup {Nil}]
      /\ \A d \in Goroutines : d # c => doing'[d] = doing[d]
      /\ doing'[c] # Nil /\ doing'[c].op = doing[c].op
      /\ doing'[c].id = doing[c].id /\ doing'[c].of = tenants'[id]
      /\ doing'[c].todo = doing[c].todo /\ doing'[c].read = doing[c].read
  BY <1>0, <1>1, <1>3, GoOnStep, SMT
<1>5. MemoryTypeOK'
  BY <1>0, <1>3, <1>4 DEF MemoryTypeOK
<1> QED
  BY <1>0, <1>1, <1>3, <1>4, <1>5

\* Add changes one counter of the tenant.
LEMMA AddStep ==
    ASSUME MemoryTypeOK, NEW c \in Goroutines, Add(c), NEW id, NEW of, NEW todo,
           At(c, id, of, todo)
    PROVE  /\ doing[c] # Nil /\ doing[c].op = "update"
           /\ id \in Tenants /\ of \in Goroutines /\ todo \in UpdatesLeft
           /\ \A d \in Goroutines : d # c => doing'[d] = doing[d]
           /\ Over(Left(todo)) => doing'[c] = Nil
           /\ ~ Over(Left(todo)) =>
                 /\ doing'[c] # Nil /\ doing'[c].op = "update" /\ doing'[c].id = id /\ doing'[c].of = of
                 /\ doing'[c].todo = Left(todo)
           /\ \A t \in Tenants, d \in Goroutines : ~ (t = id /\ d = of) => counters'[t][d] = counters[t][d]
           /\ \A f \in Counters : f # First(todo).field => counters'[id][of][f] = counters[id][of][f]
           /\ counters'[id][of][First(todo).field] = counters[id][of][First(todo).field] + First(todo).n
           /\ tenants' = tenants /\ total' = total /\ snapshot' = snapshot
           /\ MemoryTypeOK'
<1>0. /\ doing[c] # Nil /\ doing[c].op = "update" /\ of # Nil
      /\ GoOn(c, of, Left(todo), doing[c].read)
      /\ tenants' = tenants /\ total' = total /\ snapshot' = snapshot
  BY DEF Add, Running, First, Left, At
<1>c. counters' = [counters EXCEPT ![id][of][First(todo).field] = @ + First(todo).n]
  BY DEF Add, First, Left, At
<1>1. /\ id \in Tenants /\ of \in Goroutines /\ todo \in UpdatesLeft
      /\ doing[c].read = Zero /\ Zero \in Values
  BY <1>0, CallFields, ZeroFields DEF At
<1>2. /\ ~ Over(todo) /\ First(todo).field \in Counters /\ First(todo).n \in Nat
      /\ Over(Left(todo)) \/ Left(todo) \in UpdatesLeft
  BY <1>1, UpdateFirst
<1>3. /\ doing' \in [Goroutines -> UpdateCalls \cup SnapshotCalls \cup {Nil}]
      /\ \A d \in Goroutines : d # c => doing'[d] = doing[d]
      /\ Over(Left(todo)) => doing'[c] = Nil
      /\ ~ Over(Left(todo)) => /\ doing'[c] # Nil /\ doing'[c].op = doing[c].op
                               /\ doing'[c].id = id /\ doing'[c].of = of
                               /\ doing'[c].todo = Left(todo) /\ doing'[c].read = doing[c].read
  <2>1. GoOn(c, of, Left(todo), doing[c].read)
    BY <1>0
  <2>2. \/ Over(Left(todo))
        \/ doing[c].op = "update" /\ Left(todo) \in UpdatesLeft /\ doing[c].read = Zero
        \/ doing[c].op = "snapshot" /\ Left(todo) \in LoadsLeft
    BY <1>0, <1>1, <1>2
  <2>3. of \in Goroutines \cup {Nil} /\ doing[c].read \in Values /\ doing[c] # Nil
    BY <1>0, <1>1
  <2> QED
    BY <2>1, <2>2, <2>3, GoOnStep, SMT DEF At
<1>4. counters \in [Tenants -> [Goroutines -> [Counters -> Nat]]]
  BY SMTT(30) DEF MemoryTypeOK, Values
<1>5. /\ counters' \in [Tenants -> [Goroutines -> [Counters -> Nat]]]
      /\ \A t \in Tenants, d \in Goroutines : ~ (t = id /\ d = of) => counters'[t][d] = counters[t][d]
      /\ \A f \in Counters : f # First(todo).field => counters'[id][of][f] = counters[id][of][f]
      /\ counters'[id][of][First(todo).field] = counters[id][of][First(todo).field] + First(todo).n
  <2>1. PICK f \in Counters, n \in Nat : f = First(todo).field /\ n = First(todo).n
    BY <1>2
  <2>2. counters' = [counters EXCEPT ![id][of][f] = @ + n]
    BY <1>c, <2>1
  <2>3. id \in Tenants /\ of \in Goroutines
    BY <1>1
  <2>4. /\ counters' \in [Tenants -> [Goroutines -> [Counters -> Nat]]]
        /\ \A t \in Tenants, d \in Goroutines : ~ (t = id /\ d = of) => counters'[t][d] = counters[t][d]
        /\ \A h \in Counters : h # f => counters'[id][of][h] = counters[id][of][h]
        /\ counters'[id][of][f] = counters[id][of][f] + n
    BY <1>4, <2>2, <2>3, SMTT(30)
  <2> QED
    BY <2>1, <2>4
<1>6. MemoryTypeOK'
  BY <1>0, <1>3, <1>5 DEF MemoryTypeOK, Values
<1> QED
  BY <1>0, <1>1, <1>3, <1>5, <1>6

\* Load reads one counter of the tenant.
LEMMA LoadCallStep ==
    ASSUME MemoryTypeOK, NEW c \in Goroutines, Load(c), NEW id, NEW of, NEW todo,
           At(c, id, of, todo)
    PROVE  /\ doing[c] # Nil /\ doing[c].op = "snapshot"
           /\ id \in Tenants /\ of \in Goroutines /\ todo \in LoadsLeft
           /\ \A d \in Goroutines : d # c => doing'[d] = doing[d] /\ snapshot'[d] = snapshot[d]
           /\ \E read \in Values :
                 /\ \A f \in Counters : f # First(todo) => read[f] = doing[c].read[f]
                 /\ read[First(todo)] = counters[id][of][First(todo)]
                 /\ Over(Left(todo)) => doing'[c] = Nil /\ snapshot'[c] = read
                 /\ ~ Over(Left(todo)) =>
                       /\ doing'[c] # Nil /\ doing'[c].op = "snapshot" /\ doing'[c].id = id
                       /\ doing'[c].of = of /\ doing'[c].todo = Left(todo) /\ doing'[c].read = read
                       /\ snapshot'[c] = snapshot[c]
           /\ tenants' = tenants /\ counters' = counters /\ total' = total
           /\ MemoryTypeOK'
<1> DEFINE read == [doing[c].read EXCEPT ![First(todo)] = counters[id][of][First(todo)]]
<1>0. /\ doing[c] # Nil /\ doing[c].op = "snapshot" /\ of # Nil
      /\ GoOn(c, of, Left(todo), read)
      /\ snapshot' = [snapshot EXCEPT ![c] = IF Over(Left(todo)) THEN read ELSE @]
      /\ tenants' = tenants /\ counters' = counters /\ total' = total
  BY DEF Load, Running, First, Left, Over, At
<1>1. /\ id \in Tenants /\ of \in Goroutines /\ todo \in LoadsLeft /\ doing[c].read \in Values
  BY <1>0, CallFields DEF At
<1>2. /\ ~ Over(todo) /\ First(todo) \in Counters
      /\ Over(Left(todo)) \/ Left(todo) \in LoadsLeft
  BY <1>1, LoadFirst
<1>4. counters[id][of] \in [Counters -> Nat] /\ snapshot \in [Goroutines -> Values \cup {Nil}]
  BY <1>1 DEF MemoryTypeOK, Values
<1>5. /\ read \in Values
      /\ \A f \in Counters : f # First(todo) => read[f] = doing[c].read[f]
      /\ read[First(todo)] = counters[id][of][First(todo)]
  <2>1. ASSUME NEW f \in Counters, NEW r \in [Counters -> Nat], NEW n \in Nat
        PROVE  /\ [r EXCEPT ![f] = n] \in [Counters -> Nat]
               /\ \A g \in Counters : g # f => [r EXCEPT ![f] = n][g] = r[g]
               /\ [r EXCEPT ![f] = n][f] = n
    OBVIOUS
  <2>2. doing[c].read \in [Counters -> Nat] /\ counters[id][of][First(todo)] \in Nat
    BY <1>1, <1>2, <1>4 DEF Values
  <2> QED
    BY <1>2, <2>1, <2>2 DEF Values
<1> HIDE DEF read
<1>3. /\ doing' \in [Goroutines -> UpdateCalls \cup SnapshotCalls \cup {Nil}]
      /\ \A d \in Goroutines : d # c => doing'[d] = doing[d]
      /\ Over(Left(todo)) => doing'[c] = Nil
      /\ ~ Over(Left(todo)) => /\ doing'[c] # Nil /\ doing'[c].op = doing[c].op
                               /\ doing'[c].id = id /\ doing'[c].of = of
                               /\ doing'[c].todo = Left(todo) /\ doing'[c].read = read
  <2>1. GoOn(c, of, Left(todo), read)
    BY <1>0
  <2>2. \/ Over(Left(todo))
        \/ doing[c].op = "update" /\ Left(todo) \in UpdatesLeft /\ read = Zero
        \/ doing[c].op = "snapshot" /\ Left(todo) \in LoadsLeft
    BY <1>0, <1>1, <1>2
  <2>3. of \in Goroutines \cup {Nil} /\ read \in Values /\ doing[c] # Nil
    BY <1>0, <1>1, <1>5
  <2> QED
    BY <2>1, <2>2, <2>3, GoOnStep, SMT DEF At
<1>6. /\ snapshot' \in [Goroutines -> Values \cup {Nil}]
      /\ \A d \in Goroutines : d # c => snapshot'[d] = snapshot[d]
      /\ Over(Left(todo)) => snapshot'[c] = read
      /\ ~ Over(Left(todo)) => snapshot'[c] = snapshot[c]
  BY <1>0, <1>4, <1>5
<1>7. MemoryTypeOK'
  BY <1>0, <1>3, <1>6 DEF MemoryTypeOK
<1> QED
  BY <1>0, <1>1, <1>3, <1>5, <1>6, <1>7

\* The steps of MemoryMetrics keep its types.
LEMMA MemoryTypeInv ==
    ASSUME MemoryTypeOK, [MemoryNext]_memoryVars
    PROVE  MemoryTypeOK'
<1>1. CASE UNCHANGED memoryVars
  BY <1>1 DEF memoryVars, MemoryTypeOK
<1>2. ASSUME NEW c \in Goroutines, NEW id \in Tenants, BeginUpdate(c, id) PROVE MemoryTypeOK'
  BY <1>2, BeginUpdateStep
<1>3. ASSUME NEW c \in Goroutines, NEW id \in Tenants, BeginSnapshot(c, id) PROVE MemoryTypeOK'
  BY <1>3, BeginSnapshotStep
<1>4. ASSUME NEW c \in Goroutines, GetOrCreate(c) PROVE MemoryTypeOK'
  BY <1>4, GetOrCreateStep
<1>5. ASSUME NEW c \in Goroutines, Add(c) PROVE MemoryTypeOK'
  <2>1. At(c, doing[c].id, doing[c].of, doing[c].todo)
    BY DEF At
  <2> QED
    BY <1>5, <2>1, AddStep
<1>6. ASSUME NEW c \in Goroutines, Load(c) PROVE MemoryTypeOK'
  <2>1. At(c, doing[c].id, doing[c].of, doing[c].todo)
    BY DEF At
  <2> QED
    BY <1>6, <2>1, LoadCallStep
<1> QED
  BY <1>1, <1>2, <1>3, <1>4, <1>5, <1>6 DEF MemoryNext

\* A caller that has counters keeps using those that are stored.
LEMMA OwnerKept ==
    ASSUME MemoryTypeOK, OwnerInv, [MemoryNext]_memoryVars
    PROVE  OwnerInv'
<1> SUFFICES ASSUME NEW d \in Goroutines PROVE OwnerOK(d)'
  BY DEF OwnerInv
<1>0. OwnerOK(d)
  BY DEF OwnerInv
<1>a. ASSUME tenants' = tenants, doing'[d] = doing[d] PROVE OwnerOK(d)'
  BY <1>0, <1>a DEF OwnerOK
<1>1. CASE UNCHANGED memoryVars
  BY <1>1, <1>a DEF memoryVars
<1>2. ASSUME NEW c \in Goroutines, NEW id \in Tenants, BeginUpdate(c, id) PROVE OwnerOK(d)'
  <2>1. PICK todo \in Updates :
              /\ todo \in UpdatesLeft
              /\ \A e \in Goroutines : e # c => doing'[e] = doing[e]
              /\ doing'[c] # Nil /\ doing'[c].of = Nil /\ doing'[c].todo = todo
              /\ tenants' = tenants
    BY <1>2, BeginUpdateStep
  <2>2. First(todo).field # "latencyCount"
    BY <2>1, UpdateFirst
  <2>3. CASE d = c
    BY <2>1, <2>2, <2>3 DEF OwnerOK
  <2> QED
    BY <1>a, <2>1, <2>3
<1>3. ASSUME NEW c \in Goroutines, NEW id \in Tenants, BeginSnapshot(c, id) PROVE OwnerOK(d)'
  <2>1. /\ \A e \in Goroutines : e # c => doing'[e] = doing[e]
        /\ doing'[c] # Nil /\ doing'[c].op = "snapshot" /\ doing'[c].of = Nil
        /\ tenants' = tenants
    BY <1>3, BeginSnapshotStep
  <2>3. CASE d = c
    BY <2>1, <2>3 DEF OwnerOK
  <2> QED
    BY <1>a, <2>1, <2>3
<1>4. ASSUME NEW c \in Goroutines, GetOrCreate(c) PROVE OwnerOK(d)'
  <2>0. PICK id : id = doing[c].id
    OBVIOUS
  <2>1. /\ \A e \in Goroutines : e # c => doing'[e] = doing[e]
        /\ doing'[c].id = id /\ doing'[c].of = tenants'[id] /\ tenants'[id] \in Goroutines
        /\ \A t \in Tenants : t # id => tenants'[t] = tenants[t]
        /\ tenants[id] # Nil => tenants'[id] = tenants[id]
    BY <1>4, <2>0, GetOrCreateStep, SMT
  <2>2. Nil \notin Goroutines
    BY CallersAssumption
  <2>3. CASE d = c
    BY <2>1, <2>2, <2>3 DEF OwnerOK
  <2>4. CASE d # c /\ doing[d] # Nil
    <3>1. doing'[d] = doing[d] /\ doing[d].id \in Tenants
      BY <2>1, <2>4, CallFields
    <3>2. doing[d].of # Nil => tenants'[doing[d].id] = tenants[doing[d].id]
      BY <1>0, <2>1, <2>4, <3>1 DEF OwnerOK
    <3> QED
      BY <1>0, <3>1, <3>2, <2>4 DEF OwnerOK
  <2>5. CASE d # c /\ doing[d] = Nil
    BY <2>1, <2>5 DEF OwnerOK
  <2> QED
    BY <2>3, <2>4, <2>5
<1>5. ASSUME NEW c \in Goroutines, Add(c) PROVE OwnerOK(d)'
  <2>0. PICK id, of, todo : At(c, id, of, todo)
    BY DEF At
  <2>1. /\ doing[c] # Nil /\ of \in Goroutines
        /\ \A e \in Goroutines : e # c => doing'[e] = doing[e]
        /\ Over(Left(todo)) => doing'[c] = Nil
        /\ ~ Over(Left(todo)) => doing'[c].id = id /\ doing'[c].of = of
        /\ tenants' = tenants
    BY <1>5, <2>0, AddStep, SMT
  <2>2. Nil \notin Goroutines
    BY CallersAssumption
  <2>3. CASE d = c
    <3>1. of = tenants[id]
      BY <1>0, <2>0, <2>1, <2>2, <2>3 DEF OwnerOK, At
    <3> QED
      BY <2>1, <2>2, <2>3, <3>1 DEF OwnerOK
  <2> QED
    BY <1>a, <2>1, <2>3
<1>6. ASSUME NEW c \in Goroutines, Load(c) PROVE OwnerOK(d)'
  <2>0. PICK id, of, todo : At(c, id, of, todo)
    BY DEF At
  <2>1. /\ doing[c] # Nil /\ of \in Goroutines
        /\ \A e \in Goroutines : e # c => doing'[e] = doing[e]
        /\ Over(Left(todo)) => doing'[c] = Nil
        /\ ~ Over(Left(todo)) => doing'[c].id = id /\ doing'[c].of = of
        /\ tenants' = tenants
    BY <1>6, <2>0, LoadCallStep, SMT
  <2>2. Nil \notin Goroutines
    BY CallersAssumption
  <2>3. CASE d = c
    <3>1. of = tenants[id]
      BY <1>0, <2>0, <2>1, <2>2, <2>3 DEF OwnerOK, At
    <3> QED
      BY <2>1, <2>2, <2>3, <3>1 DEF OwnerOK
  <2> QED
    BY <1>a, <2>1, <2>3
<1> QED
  BY <1>1, <1>2, <1>3, <1>4, <1>5, <1>6 DEF MemoryNext

\* What a method still has to add is a number, and nothing once it is over.
LEMMA StillToAddType ==
    ASSUME NEW method \in UpdateCalls \cup SnapshotCalls \cup {Nil}, NEW id, NEW f \in Counters
    PROVE  StillToAdd(method, id, f) \in Nat
<1>1. CASE method \in UpdateCalls
  <2>1. method.todo \in UpdatesLeft
    BY <1>1 DEF UpdateCalls
  <2>2. Amount(method.todo, f) \in Nat
    BY <2>1, UpdateFirst
  <2> QED
    BY <2>2 DEF StillToAdd
<1>2. CASE method \in SnapshotCalls
  <2>1. method.op # "update"
    BY <1>2 DEF SnapshotCalls
  <2> QED
    BY <2>1 DEF StillToAdd
<1>3. CASE method = Nil
  BY <1>3 DEF StillToAdd
<1> QED
  BY <1>1, <1>2, <1>3

\* Nothing is owed by a method that is over.
LEMMA OverAmount == ASSUME NEW todo, Over(todo), NEW f PROVE Amount(todo, f) = 0
  BY AmountOfNone DEF Over

\* The arithmetic of an average: adding a duration that is not below m to a sum of
\* n durations whose average is not below it.
LEMMA Averages ==
    ASSUME NEW d \in Nat, NEW e \in Nat, NEW n \in Nat, NEW s \in Nat, d * n <= s
    PROVE  /\ d <= e => d * (n + 1) <= s + e
           /\ e <= d => e * (n + 1) <= s + e
<1>1. \A m \in Nat : m * n \in Nat /\ m * (n + 1) = m * n + m
  BY SMT
<1>2. e <= d => e * n <= d * n
  BY SMT
<1> QED
  BY <1>1, <1>2, SMT

\* A duration more keeps the average above some duration.
LEMMA AddDuration ==
    ASSUME NEW n \in Nat, NEW s \in Nat, NEW e \in Durations, n = 0 \/ \E d \in Durations : d * n <= s
    PROVE  \E d \in Durations : d * (n + 1) <= s + e
<1>0. Durations \subseteq Nat
  BY MemoryAssumption
<1>1. CASE n = 0
  <2>1. e * (n + 1) <= s + e
    BY <1>0, <1>1, SMT
  <2> QED
    BY <2>1
<1>2. CASE n # 0
  <2>1. PICK d \in Durations : d * n <= s
    BY <1>2
  <2>2. d \in Nat /\ e \in Nat
    BY <1>0
  <2>3. CASE d <= e
    BY <2>1, <2>2, <2>3, Averages
  <2>4. CASE e <= d
    BY <2>1, <2>2, <2>4, Averages
  <2> QED
    BY <2>2, <2>3, <2>4, SMT
<1> QED
  BY <1>1, <1>2

\* What Add does to the counters that Snapshot reads.
LEMMA StoredByAdd ==
    ASSUME MemoryTypeOK, OwnerInv, NEW c \in Goroutines, Add(c), NEW id, NEW of, NEW todo,
           At(c, id, of, todo), NEW t \in Tenants, NEW f \in Counters
    PROVE  /\ ~ (t = id /\ f = First(todo).field) => Stored(t, f)' = Stored(t, f)
           /\ t = id /\ f = First(todo).field => Stored(t, f)' = Stored(t, f) + First(todo).n
<1>1. /\ doing[c] # Nil /\ id \in Tenants /\ of \in Goroutines
      /\ \A u \in Tenants, d \in Goroutines : ~ (u = id /\ d = of) => counters'[u][d] = counters[u][d]
      /\ \A g \in Counters : g # First(todo).field => counters'[id][of][g] = counters[id][of][g]
      /\ counters'[id][of][First(todo).field] = counters[id][of][First(todo).field] + First(todo).n
      /\ tenants' = tenants
  BY AddStep, SMT
<1>2. of = tenants[id] /\ of # Nil /\ tenants \in [Tenants -> Goroutines \cup {Nil}]
  BY <1>1, CallersAssumption DEF OwnerInv, OwnerOK, At, MemoryTypeOK
<1> QED
  BY <1>1, <1>2, SMT DEF Stored

\* Storing new counters changes nothing that Snapshot reads.
LEMMA StoredByGet ==
    ASSUME MemoryTypeOK, CountedInv, NEW c \in Goroutines, GetOrCreate(c),
           NEW t \in Tenants, NEW f \in Counters
    PROVE  Stored(t, f)' = Stored(t, f)
<1>0. PICK id : id = doing[c].id
  OBVIOUS
<1>1. /\ id \in Tenants /\ tenants'[id] \in Goroutines
      /\ \A u \in Tenants : u # id => tenants'[u] = tenants[u]
      /\ tenants[id] # Nil => tenants'[id] = tenants[id]
      /\ counters' = counters
  BY <1>0, GetOrCreateStep, SMT
<1>2. Nil \notin Goroutines
  BY CallersAssumption
<1>3. CASE t = id /\ tenants[id] = Nil
  <2>1. counters[t][tenants'[t]] = Zero
    BY <1>1, <1>2, <1>3 DEF CountedInv, CountedOK
  <2> QED
    BY <1>1, <1>2, <1>3, <2>1, ZeroFields DEF Stored
<1>4. CASE ~ (t = id /\ tenants[id] = Nil)
  BY <1>1, <1>4 DEF Stored
<1> QED
  BY <1>3, <1>4

\* Counters never shrink.
LEMMA CountersGrow ==
    ASSUME MemoryTypeOK, [MemoryNext]_memoryVars, NEW t \in Tenants, NEW g \in Goroutines, NEW f \in Counters
    PROVE  counters[t][g][f] \in Nat /\ counters'[t][g][f] \in Nat /\ counters[t][g][f] <= counters'[t][g][f]
<1>0. counters[t][g][f] \in Nat
  BY SMT DEF MemoryTypeOK, Values
<1>1. ASSUME NEW c \in Goroutines, Add(c)
      PROVE  counters'[t][g][f] \in Nat /\ counters[t][g][f] <= counters'[t][g][f]
  <2>0. PICK id, of, todo : At(c, id, of, todo)
    BY DEF At
  <2>1. /\ todo \in UpdatesLeft
        /\ \A u \in Tenants, d \in Goroutines : ~ (u = id /\ d = of) => counters'[u][d] = counters[u][d]
        /\ \A h \in Counters : h # First(todo).field => counters'[id][of][h] = counters[id][of][h]
        /\ counters'[id][of][First(todo).field] = counters[id][of][First(todo).field] + First(todo).n
    BY <1>1, <2>0, AddStep, SMT
  <2>2. First(todo).n \in Nat
    BY <2>1, UpdateFirst
  <2>3. CASE t = id /\ g = of /\ f = First(todo).field
    BY <1>0, <2>1, <2>2, <2>3, SMTT(30)
  <2>4. CASE ~ (t = id /\ g = of /\ f = First(todo).field)
    BY <1>0, <2>1, <2>4, SMTT(30)
  <2> QED
    BY <2>3, <2>4
<1>2. CASE counters' = counters
  BY <1>0, <1>2, SMT
<1>3. \/ counters' = counters
      \/ \E c \in Goroutines : Add(c)
  BY DEF MemoryNext, memoryVars, BeginUpdate, BeginSnapshot, Begin, GetOrCreate, Load
<1> QED
  BY <1>0, <1>1, <1>2, <1>3

\* The sum that Snapshot reads suffices for the count that it has read before.
LEMMA SumSuffices ==
    ASSUME NEW n \in Nat, NEW k \in Nat, NEW s \in Nat, k <= n, n = 0 \/ \E d \in Durations : d * n <= s
    PROVE  k = 0 \/ \E d \in Durations : d * k <= s
<1>1. CASE n = 0
  BY <1>1, SMT
<1>2. CASE n # 0
  <2>1. PICK d \in Durations : d * n <= s
    BY <1>2
  <2>2. d \in Nat
    BY MemoryAssumption
  <2>3. d * k \in Nat /\ d * n \in Nat /\ d * k <= d * n
    BY <2>2, SMT
  <2> QED
    BY <2>1, <2>3, SMT
<1> QED
  BY <1>1, <1>2

\* What a Load reads.
LEMMA LoadOK ==
    ASSUME MemoryTypeOK, OwnerInv, LatencyInv, SummedFinite, ReadInv, NEW c \in Goroutines, Load(c)
    PROVE  ReadOK(c)' /\ (SnapshotOK(c)' \/ snapshot'[c] = snapshot[c])
<1>0. PICK id, of, todo : At(c, id, of, todo)
  BY DEF At
<1>1. /\ doing[c] # Nil /\ doing[c].op = "snapshot"
      /\ id \in Tenants /\ of \in Goroutines /\ todo \in LoadsLeft /\ counters' = counters
  BY <1>0, LoadCallStep
<1>2. PICK read \in Values :
         /\ \A f \in Counters : f # First(todo) => read[f] = doing[c].read[f]
         /\ read[First(todo)] = counters[id][of][First(todo)]
         /\ Over(Left(todo)) => doing'[c] = Nil /\ snapshot'[c] = read
         /\ ~ Over(Left(todo)) =>
               /\ doing'[c] # Nil /\ doing'[c].op = "snapshot" /\ doing'[c].id = id
               /\ doing'[c].of = of /\ doing'[c].todo = Left(todo) /\ doing'[c].read = read
               /\ snapshot'[c] = snapshot[c]
  BY <1>0, LoadCallStep
<1>3. doing[c].read \in Values /\ \A f \in Counters : read[f] \in Nat /\ doing[c].read[f] \in Nat
  BY <1>1, CallFields DEF Values
<1>4. /\ First(todo) = "latencySum" => doing[c].read["latencyCount"] <= counters[id][of]["latencyCount"]
      /\ First(todo) \in {"requests", "errors"} => NotTooLow(doing[c].read)
  BY <1>0, <1>1 DEF ReadInv, ReadOK, At
<1>5. /\ First(todo) \in Counters
      /\ First(todo) = "latencyCount" => ~ Over(Left(todo)) /\ First(Left(todo)) = "latencySum"
      /\ First(todo) = "latencySum" => ~ Over(Left(todo)) /\ First(Left(todo)) = "requests"
      /\ First(todo) = "requests" => ~ Over(Left(todo)) /\ First(Left(todo)) = "errors"
      /\ First(todo) = "errors" => Over(Left(todo))
  BY <1>1, LoadFirst
<1>6. /\ of # Nil /\ of = tenants[id]
      /\ "latencyCount" \in Counters /\ "latencySum" \in Counters
  BY <1>0, <1>1, CallersAssumption DEF OwnerInv, OwnerOK, At, Counters
<1>7. CASE First(todo) = "latencyCount"
  <2>1. read["latencyCount"] <= counters'[id][of]["latencyCount"]
    BY <1>1, <1>2, <1>3, <1>6, <1>7, SMTT(30)
  <2> QED
    BY <1>2, <1>5, <1>6, <1>7, <2>1 DEF ReadOK
<1>8. CASE First(todo) = "latencySum"
  <2>1. /\ read["latencyCount"] = doing[c].read["latencyCount"]
        /\ read["latencySum"] = Stored(id, "latencySum")
        /\ counters[id][of]["latencyCount"] = Stored(id, "latencyCount")
    BY <1>2, <1>6, <1>8 DEF Stored
  <2>2. Stored(id, "latencyCount") \in Nat /\ Stored(id, "latencySum") \in Nat
    BY <1>1, <1>6, SMT DEF Stored, MemoryTypeOK, Values
  <2>3. Cardinality(Summed(id)) \in Nat
    BY <1>1 DEF SummedFinite
  <2>4. PICK n \in Nat : n = Stored(id, "latencyCount") + Cardinality(Summed(id))
    BY <2>2, <2>3, SMT
  <2>5. n = 0 \/ \E d \in Durations : d * n <= Stored(id, "latencySum")
    BY <1>1, <2>4 DEF LatencyInv, LatencyOK
  <2>6. read["latencyCount"] \in Nat /\ read["latencyCount"] <= n
    BY <1>3, <1>4, <1>6, <1>8, <2>1, <2>2, <2>3, <2>4, SMT
  <2>7. NotTooLow(read)
    <3>1. read["latencyCount"] = 0 \/ \E d \in Durations : d * read["latencyCount"] <= Stored(id, "latencySum")
      BY <2>2, <2>5, <2>6, SumSuffices
    <3> QED
      BY <2>1, <3>1 DEF NotTooLow
  <2>8. NotTooLow(doing'[c].read)
    BY <1>2, <1>5, <1>8, <2>7
  <2> QED
    BY <1>2, <1>5, <1>6, <1>8, <2>8 DEF ReadOK, NotTooLow
<1>9. CASE First(todo) \in {"requests", "errors"}
  <2>1. read["latencyCount"] = doing[c].read["latencyCount"] /\ read["latencySum"] = doing[c].read["latencySum"]
    BY <1>2, <1>6, <1>9
  <2>2. NotTooLow(read)
    BY <1>4, <1>9, <2>1 DEF NotTooLow
  <2>3. CASE First(todo) = "requests"
    <3>1. NotTooLow(doing'[c].read)
      BY <1>2, <1>5, <2>2, <2>3
    <3> QED
      BY <1>2, <1>5, <1>6, <2>3, <3>1 DEF ReadOK, NotTooLow
  <2>4. CASE First(todo) = "errors"
    <3>1. doing'[c] = Nil /\ NotTooLow(snapshot'[c])
      BY <1>2, <1>5, <2>2, <2>4
    <3> QED
      BY <3>1 DEF ReadOK, SnapshotOK, NotTooLow
  <2> QED
    BY <1>9, <2>3, <2>4
<1> QED
  BY <1>5, <1>7, <1>8, <1>9 DEF Counters

\* Every step keeps what Snapshots have read.
LEMMA ReadKept ==
    ASSUME MemoryTypeOK, OwnerInv, LatencyInv, SummedFinite, ReadInv, [MemoryNext]_memoryVars
    PROVE  ReadInv'
<1> SUFFICES ASSUME NEW d \in Goroutines PROVE ReadOK(d)'
  BY DEF ReadInv
<1>0. ReadOK(d)
  BY DEF ReadInv
<1>a. ASSUME doing'[d] = doing[d] PROVE ReadOK(d)'
  <2>1. CASE doing[d] # Nil /\ doing[d].op = "snapshot" /\ First(doing[d].todo) = "latencySum"
    <3>1. /\ doing[d].id \in Tenants /\ doing[d].of \in Goroutines
          /\ doing[d].read["latencyCount"] \in Nat /\ "latencyCount" \in Counters
      BY <1>0, <2>1, CallFields DEF ReadOK, Values, Counters
    <3>2. PICK n \in Nat, n2 \in Nat :
             /\ n = counters[doing[d].id][doing[d].of]["latencyCount"]
             /\ n2 = counters'[doing[d].id][doing[d].of]["latencyCount"]
             /\ n <= n2
      BY <3>1, CountersGrow, ZenonT(30)
    <3>3. doing[d].read["latencyCount"] <= n2
      BY <1>0, <2>1, <3>1, <3>2, SMTT(30) DEF ReadOK
    <3> QED
      BY <1>0, <1>a, <2>1, <3>2, <3>3 DEF ReadOK
  <2>2. CASE ~ (doing[d] # Nil /\ doing[d].op = "snapshot" /\ First(doing[d].todo) = "latencySum")
    BY <1>0, <1>a, <2>2 DEF ReadOK, NotTooLow
  <2> QED
    BY <2>1, <2>2
<1>b. ASSUME doing'[d] = Nil \/ doing'[d].op # "snapshot" \/ First(doing'[d].todo) = "latencyCount" PROVE ReadOK(d)'
  BY <1>b DEF ReadOK
<1>1. CASE UNCHANGED memoryVars
  BY <1>1, <1>a DEF memoryVars
<1>2. ASSUME NEW c \in Goroutines, NEW id \in Tenants, BeginUpdate(c, id) PROVE ReadOK(d)'
  <2>1. doing'[c].op = "update" /\ \A e \in Goroutines : e # c => doing'[e] = doing[e]
    BY <1>2, BeginUpdateStep
  <2> QED
    BY <1>a, <1>b, <2>1
<1>3. ASSUME NEW c \in Goroutines, NEW id \in Tenants, BeginSnapshot(c, id) PROVE ReadOK(d)'
  <2>1. First(doing'[c].todo) = "latencyCount" /\ \A e \in Goroutines : e # c => doing'[e] = doing[e]
    BY <1>3, BeginSnapshotStep
  <2> QED
    BY <1>a, <1>b, <2>1
<1>4. ASSUME NEW c \in Goroutines, GetOrCreate(c) PROVE ReadOK(d)'
  <2>1. /\ doing[c] # Nil /\ doing[c].of = Nil
        /\ doing'[c].op = doing[c].op /\ doing'[c].todo = doing[c].todo
        /\ \A e \in Goroutines : e # c => doing'[e] = doing[e]
    BY <1>4, GetOrCreateStep
  <2>2. d = c => doing'[c].op # "snapshot" \/ First(doing'[c].todo) = "latencyCount"
    BY <1>0, <2>1 DEF ReadOK
  <2> QED
    BY <1>a, <1>b, <2>1, <2>2
<1>5. ASSUME NEW c \in Goroutines, Add(c) PROVE ReadOK(d)'
  <2>0. PICK id, of, todo : At(c, id, of, todo)
    BY DEF At
  <2>1. /\ doing'[c] = Nil \/ doing'[c].op = "update"
        /\ \A e \in Goroutines : e # c => doing'[e] = doing[e]
    BY <1>5, <2>0, AddStep
  <2> QED
    BY <1>a, <1>b, <2>1
<1>6. ASSUME NEW c \in Goroutines, Load(c) PROVE ReadOK(d)'
  <2>0. PICK id, of, todo : At(c, id, of, todo)
    BY DEF At
  <2>1. \A e \in Goroutines : e # c => doing'[e] = doing[e]
    BY <1>6, <2>0, LoadCallStep
  <2>2. CASE d = c
    BY <1>6, <2>2, LoadOK
  <2> QED
    BY <1>a, <2>1, <2>2
<1> QED
  BY <1>1, <1>2, <1>3, <1>4, <1>5, <1>6 DEF MemoryNext

\* Every step keeps what Snapshots have answered.
LEMMA SnapshotKept ==
    ASSUME MemoryTypeOK, OwnerInv, LatencyInv, SummedFinite, ReadInv, SnapshotInv, [MemoryNext]_memoryVars
    PROVE  SnapshotInv'
<1> SUFFICES ASSUME NEW d \in Goroutines PROVE SnapshotOK(d)'
  BY DEF SnapshotInv
<1>a. ASSUME snapshot'[d] = snapshot[d] PROVE SnapshotOK(d)'
  BY <1>a DEF SnapshotInv, SnapshotOK, NotTooLow
<1>1. CASE snapshot' = snapshot
  BY <1>1, <1>a
<1>2. ASSUME NEW c \in Goroutines, NEW id \in Tenants, BeginSnapshot(c, id) PROVE SnapshotOK(d)'
  <2>1. snapshot'[c] = Nil /\ \A e \in Goroutines : e # c => snapshot'[e] = snapshot[e]
    BY <1>2, BeginSnapshotStep
  <2>2. CASE d = c
    BY <2>1, <2>2 DEF SnapshotOK
  <2> QED
    BY <1>a, <2>1, <2>2
<1>3. ASSUME NEW c \in Goroutines, Load(c) PROVE SnapshotOK(d)'
  <2>0. PICK id, of, todo : At(c, id, of, todo)
    BY DEF At
  <2>1. \A e \in Goroutines : e # c => snapshot'[e] = snapshot[e]
    BY <1>3, <2>0, LoadCallStep
  <2>2. CASE d = c
    BY <1>3, <1>a, <2>2, LoadOK
  <2> QED
    BY <1>a, <2>1, <2>2
<1>4. \/ snapshot' = snapshot
      \/ \E c \in Goroutines : Load(c) \/ \E id \in Tenants : BeginSnapshot(c, id)
  BY DEF MemoryNext, memoryVars, BeginUpdate, GetOrCreate, Add
<1> QED
  BY <1>1, <1>2, <1>3, <1>4

=============================================================================
