--------------------------- MODULE MetricsProofs ---------------------------
(***************************************************************************)
(* Proofs about the two MetricsCollectors, MemoryMetrics and               *)
(* PrometheusMetrics, for any number of goroutines, tenants and calls and  *)
(* every set of durations.                                                 *)
(***************************************************************************)
EXTENDS MemoryMetricsProofs, PrometheusMetrics, FiniteSetTheorems, TLAPS

\* A leaf is tried with Zenon first; SMT marks those that need arithmetic or the
\* theory of functions, records and sequences.
USE Zenon, SMTT(30)

-----------------------------------------------------------------------------
(***************************************************************************)
(* MemoryMetrics                                                           *)
(***************************************************************************)
\* A block more: the callers' amounts add up.
LEMMA BlocksGrow ==
    ASSUME NEW a \in [Goroutines -> Nat], NEW b \in [Goroutines -> Nat], NEW c \in Goroutines,
           a[c] = 0, \A d \in Goroutines : d # c => b[d] = a[d], IsFiniteSet(Blocks(a))
    PROVE  IsFiniteSet(Blocks(b)) /\ Cardinality(Blocks(b)) = Cardinality(Blocks(a)) + b[c]
<1> DEFINE B == {c} \X (1..b[c])
<1>1. IsFiniteSet({c}) /\ Cardinality({c}) = 1
  BY FS_Singleton
<1>2. IsFiniteSet(1..b[c]) /\ Cardinality(1..b[c]) = b[c]
  BY FS_Interval, SMT
<1>3. IsFiniteSet(B) /\ Cardinality(B) = 1 * b[c]
  <2>1. IsFiniteSet(B) /\ Cardinality(B) = Cardinality({c}) * Cardinality(1..b[c])
    BY <1>1, <1>2, FS_Product
  <2> QED
    BY <1>1, <1>2, <2>1
<1>4. Blocks(b) = Blocks(a) \cup B
  <2>1. ASSUME NEW p \in Goroutines \X Nat PROVE p \in Blocks(b) <=> p \in Blocks(a) \cup B
    <3>1. PICK d \in Goroutines, n \in Nat : p = <<d, n>>
      BY SMT
    <3>2. p \in Blocks(b) <=> n >= 1 /\ n <= b[d]
      BY <3>1 DEF Blocks
    <3>3. p \in Blocks(a) <=> n >= 1 /\ n <= a[d]
      BY <3>1 DEF Blocks
    <3>4. p \in B <=> d = c /\ n >= 1 /\ n <= b[c]
      BY <3>1, SMT
    <3> QED
      BY <3>2, <3>3, <3>4, SMTT(30)
  <2>2. B \subseteq Goroutines \X Nat
    BY SMT
  <2>3. Blocks(a) \subseteq Goroutines \X Nat /\ Blocks(b) \subseteq Goroutines \X Nat
    BY DEF Blocks
  <2> QED
    BY <2>1, <2>2, <2>3
<1>5. Blocks(a) \cap B = {}
  BY SMT DEF Blocks
<1> HIDE DEF B
<1>6. Cardinality(Blocks(a)) \in Nat /\ Cardinality({}) = 0
  BY FS_CardinalityType, FS_EmptySet
<1>7. IsFiniteSet(Blocks(b)) /\ Cardinality(Blocks(b)) = Cardinality(Blocks(a)) + Cardinality(B) - Cardinality(Blocks(a) \cap B)
  BY <1>3, <1>4, FS_Union
<1>8. Cardinality(Blocks(a) \cap B) = 0
  BY <1>5, <1>6
<1>9. b[c] \in Nat /\ Cardinality(B) = b[c]
  BY <1>3, SMT
<1> QED
  BY <1>6, <1>7, <1>8, <1>9, SMTT(30)

\* A block less.
LEMMA BlocksShrink ==
    ASSUME NEW a \in [Goroutines -> Nat], NEW b \in [Goroutines -> Nat], NEW c \in Goroutines,
           b[c] = 0, \A d \in Goroutines : d # c => b[d] = a[d], IsFiniteSet(Blocks(a))
    PROVE  IsFiniteSet(Blocks(b)) /\ Cardinality(Blocks(a)) = Cardinality(Blocks(b)) + a[c]
<1>1. Blocks(b) \subseteq Blocks(a)
  <2> SUFFICES ASSUME NEW p \in Blocks(b) PROVE p \in Blocks(a)
    OBVIOUS
  <2>1. PICK d \in Goroutines, n \in Nat : p = <<d, n>>
    BY SMT DEF Blocks
  <2>2. n >= 1 /\ n <= b[d]
    BY <2>1 DEF Blocks
  <2>3. n <= a[d]
    BY <2>2, SMT
  <2> QED
    BY <2>1, <2>2, <2>3 DEF Blocks
<1>2. IsFiniteSet(Blocks(b))
  BY <1>1, FS_Subset
<1>3. \A d \in Goroutines : d # c => a[d] = b[d]
  OBVIOUS
<1> QED
  BY <1>2, <1>3, BlocksGrow

\* What the callers owe changes by what the one that moves owes.
LEMMA OwedStep ==
    ASSUME MemoryTypeOK, MemoryTypeOK', NEW t \in Tenants, NEW f \in Counters, NEW c \in Goroutines,
           \A d \in Goroutines : d # c => doing'[d] = doing[d],
           NEW before, before = StillToAdd(doing[c], t, f), NEW after, after = StillToAdd(doing'[c], t, f),
           before = 0 \/ after = 0 \/ before = after,
           IsFiniteSet(Blocks(Owed(t, f)))
    PROVE  /\ IsFiniteSet(Blocks(Owed(t, f)))' /\ before \in Nat /\ after \in Nat
           /\ Cardinality(Blocks(Owed(t, f))) \in Nat /\ Cardinality(Blocks(Owed(t, f)))' \in Nat
           /\ Cardinality(Blocks(Owed(t, f)))' + before = Cardinality(Blocks(Owed(t, f))) + after
<1>0. \A d \in Goroutines : StillToAdd(doing[d], t, f) \in Nat /\ StillToAdd(doing'[d], t, f) \in Nat
  BY StillToAddType DEF MemoryTypeOK
<1> DEFINE a == [d \in Goroutines |-> StillToAdd(doing[d], t, f)]
           b == [d \in Goroutines |-> StillToAdd(doing'[d], t, f)]
<1>1. a \in [Goroutines -> Nat] /\ b \in [Goroutines -> Nat]
  BY <1>0
<1>2. a[c] = before /\ b[c] = after /\ \A d \in Goroutines : d # c => b[d] = a[d]
  OBVIOUS
<1>3. Owed(t, f) = a /\ Owed(t, f)' = b
  BY DEF Owed
<1>4. Blocks(Owed(t, f)) = Blocks(a) /\ Blocks(Owed(t, f))' = Blocks(b)
  BY <1>3 DEF Blocks
<1>5. before = after => a = b
  BY <1>1, <1>2
<1> HIDE DEF a, b
<1>6. IsFiniteSet(Blocks(a))
  BY <1>4
<1>7. IsFiniteSet(Blocks(b)) /\ Cardinality(Blocks(b)) + before = Cardinality(Blocks(a)) + after
  <2>1. Cardinality(Blocks(a)) \in Nat /\ before \in Nat /\ after \in Nat
    BY <1>1, <1>2, <1>6, FS_CardinalityType
  <2>2. CASE before = 0
    BY <1>1, <1>2, <1>6, <2>1, <2>2, BlocksGrow, SMTT(30)
  <2>3. CASE after = 0
    BY <1>1, <1>2, <1>6, <2>1, <2>3, BlocksShrink, SMTT(30)
  <2>4. CASE before = after
    BY <1>5, <1>6, <2>1, <2>4
  <2> QED
    BY <2>2, <2>3, <2>4
<1>8. Cardinality(Blocks(a)) \in Nat /\ Cardinality(Blocks(b)) \in Nat
  BY <1>6, <1>7, FS_CardinalityType
<1>9. before \in Nat /\ after \in Nat
  BY <1>1, <1>2
<1>10. Cardinality(Blocks(Owed(t, f))) = Cardinality(Blocks(a)) /\ Cardinality(Blocks(Owed(t, f)))' = Cardinality(Blocks(b))
  BY <1>4 DEF Cardinality
<1>11. IsFiniteSet(Blocks(Owed(t, f)))' <=> IsFiniteSet(Blocks(b))
  BY <1>4, ZenonT(30) DEF IsFiniteSet
<1> QED
  BY <1>7, <1>8, <1>9, <1>10, <1>11

\* When what is owed and what is stored change together with the total, no Add is
\* lost.
LEMMA CountedStep ==
    ASSUME MemoryTypeOK, MemoryTypeOK', NEW t \in Tenants, CountedOK(t), NEW c \in Goroutines,
           \A d \in Goroutines : d # c => doing'[d] = doing[d],
           \A d \in Goroutines : tenants'[t] # d => counters'[t][d] = Zero,
           \A f \in Counters :
              LET before == StillToAdd(doing[c], t, f)
                  after == StillToAdd(doing'[c], t, f)
              IN  /\ before = 0 \/ after = 0 \/ before = after
                  /\ total'[t][f] + Stored(t, f) + before = total[t][f] + Stored(t, f)' + after
    PROVE  CountedOK(t)'
<1>1. ASSUME NEW f \in Counters
      PROVE  /\ IsFiniteSet(Blocks(Owed(t, f)))'
             /\ (total[t][f] = Cardinality(Blocks(Owed(t, f))) + Stored(t, f))'
  <2>1. PICK before, after : before = StillToAdd(doing[c], t, f) /\ after = StillToAdd(doing'[c], t, f)
    OBVIOUS
  <2>2. /\ before = 0 \/ after = 0 \/ before = after
        /\ total'[t][f] + Stored(t, f) + before = total[t][f] + Stored(t, f)' + after
    BY <2>1
  <2>3. IsFiniteSet(Blocks(Owed(t, f))) /\ total[t][f] = Cardinality(Blocks(Owed(t, f))) + Stored(t, f)
    BY DEF CountedOK
  <2>4. /\ IsFiniteSet(Blocks(Owed(t, f)))' /\ before \in Nat /\ after \in Nat
        /\ Cardinality(Blocks(Owed(t, f))) \in Nat /\ Cardinality(Blocks(Owed(t, f)))' \in Nat
        /\ Cardinality(Blocks(Owed(t, f)))' + before = Cardinality(Blocks(Owed(t, f))) + after
    BY <2>1, <2>2, <2>3, OwedStep, SMTT(30)
  <2>5. Stored(t, f) \in Nat /\ Stored(t, f)' \in Nat /\ total[t][f] \in Nat /\ total'[t][f] \in Nat
    BY SMT DEF Stored, MemoryTypeOK, Values
  <2>7. total'[t][f] = Cardinality(Blocks(Owed(t, f)))' + Stored(t, f)'
    <3>1. PICK p \in Nat, p2 \in Nat, x \in Nat, x2 \in Nat, s \in Nat, s2 \in Nat :
             /\ p = Cardinality(Blocks(Owed(t, f))) /\ p2 = Cardinality(Blocks(Owed(t, f)))'
             /\ x = total[t][f] /\ x2 = total'[t][f] /\ s = Stored(t, f) /\ s2 = Stored(t, f)'
      BY <2>4, <2>5
    <3>2. x2 + s + before = x + s2 + after /\ x = p + s /\ p2 + before = p + after
      BY <2>2, <2>3, <2>4, <3>1
    <3>3. x2 = p2 + s2
      BY <2>4, <3>2, SMT
    <3> QED
      BY <3>1, <3>3
  <2> QED
    BY <2>4, <2>7
<1> QED
  BY <1>1 DEF CountedOK

\* Every step keeps the account of the Adds.
LEMMA CountedKept ==
    ASSUME MemoryTypeOK, MemoryTypeOK', OwnerInv, CountedInv, [MemoryNext]_memoryVars
    PROVE  CountedInv'
<1> SUFFICES ASSUME NEW t \in Tenants PROVE CountedOK(t)'
  BY DEF CountedInv
<1>0. CountedOK(t)
  BY DEF CountedInv
<1>z. /\ \A d \in Goroutines : tenants[t] # d => counters[t][d] = Zero
      /\ \A f \in Counters : /\ Stored(t, f) \in Nat /\ total[t][f] \in Nat
                             /\ Stored(t, f)' \in Nat /\ total'[t][f] \in Nat
  BY <1>0, SMT DEF CountedOK, MemoryTypeOK, Values, Stored
<1>s. ASSUME tenants'[t] = tenants[t], counters'[t] = counters[t] PROVE \A f \in Counters : Stored(t, f)' = Stored(t, f)
  BY <1>s DEF Stored
<1>1. CASE UNCHANGED memoryVars
  <2>1. ASSUME NEW f \in Counters PROVE Blocks(Owed(t, f))' = Blocks(Owed(t, f)) /\ Stored(t, f)' = Stored(t, f)
    BY <1>1 DEF memoryVars, Blocks, Owed, Stored
  <2> QED
    BY <1>0, <1>1, <2>1 DEF memoryVars, CountedOK
<1>2. ASSUME NEW c \in Goroutines, NEW id \in Tenants, BeginUpdate(c, id) PROVE CountedOK(t)'
  <2>1. PICK todo \in Updates :
              /\ todo \in UpdatesLeft
              /\ doing[c] = Nil
              /\ \A d \in Goroutines : d # c => doing'[d] = doing[d]
              /\ doing'[c] # Nil /\ doing'[c].op = "update" /\ doing'[c].id = id
              /\ doing'[c].todo = todo
              /\ \A u \in Tenants : u # id => total'[u] = total[u]
              /\ \A f \in Counters : total'[id][f] = total[id][f] + Amount(todo, f)
              /\ tenants' = tenants /\ counters' = counters
    BY <1>2, BeginUpdateStep, SMT
  <2>2. ASSUME NEW f \in Counters
        PROVE  LET before == StillToAdd(doing[c], t, f)
                   after == StillToAdd(doing'[c], t, f)
               IN  /\ before = 0 \/ after = 0 \/ before = after
                   /\ total'[t][f] + Stored(t, f) + before = total[t][f] + Stored(t, f)' + after
    <3>1. StillToAdd(doing[c], t, f) = 0
      BY <2>1 DEF StillToAdd
    <3>2. StillToAdd(doing'[c], t, f) = IF t = id THEN Amount(todo, f) ELSE 0
      BY <2>1 DEF StillToAdd
    <3>3. Stored(t, f)' = Stored(t, f) /\ Amount(todo, f) \in Nat
      BY <1>s, <2>1, UpdateFirst
    <3>4. total'[t][f] = total[t][f] + IF t = id THEN Amount(todo, f) ELSE 0
      BY <1>z, <2>1, SMTT(30)
    <3> QED
      BY <1>z, <3>1, <3>2, <3>3, <3>4, SMTT(30)
  <2> QED
    BY <1>0, <1>z, <2>1, <2>2, CountedStep
<1>3. ASSUME NEW c \in Goroutines, NEW id \in Tenants, BeginSnapshot(c, id) PROVE CountedOK(t)'
  <2>1. /\ doing[c] = Nil
        /\ \A d \in Goroutines : d # c => doing'[d] = doing[d]
        /\ doing'[c].op = "snapshot"
        /\ tenants' = tenants /\ counters' = counters /\ total' = total
    BY <1>3, BeginSnapshotStep
  <2>2. ASSUME NEW f \in Counters
        PROVE  StillToAdd(doing[c], t, f) = 0 /\ StillToAdd(doing'[c], t, f) = 0 /\ Stored(t, f)' = Stored(t, f)
    BY <1>s, <2>1 DEF StillToAdd
  <2> QED
    BY <1>0, <1>z, <2>1, <2>2, CountedStep
<1>4. ASSUME NEW c \in Goroutines, GetOrCreate(c) PROVE CountedOK(t)'
  <2>0. PICK id : id = doing[c].id
    OBVIOUS
  <2>1. /\ doing[c] # Nil /\ id \in Tenants
        /\ \A d \in Goroutines : d # c => doing'[d] = doing[d]
        /\ doing'[c] # Nil /\ doing'[c].op = doing[c].op /\ doing'[c].id = id
        /\ doing'[c].todo = doing[c].todo
        /\ tenants'[id] \in Goroutines
        /\ \A u \in Tenants : u # id => tenants'[u] = tenants[u]
        /\ tenants[id] # Nil => tenants'[id] = tenants[id]
        /\ counters' = counters /\ total' = total
    BY <1>4, <2>0, GetOrCreateStep, SMTT(30)
  <2>2. ASSUME NEW f \in Counters PROVE StillToAdd(doing[c], t, f) = StillToAdd(doing'[c], t, f)
    BY <2>0, <2>1 DEF StillToAdd
  <2>3. Nil \notin Goroutines
    BY CallersAssumption
  <2>4. \A d \in Goroutines : tenants'[t] # d => counters'[t][d] = Zero
    BY <1>z, <2>1, <2>3, SMTT(30)
  <2>5. ASSUME NEW f \in Counters PROVE Stored(t, f)' = Stored(t, f)
    <3>1. CASE t = id /\ tenants[id] = Nil
      <4>1. counters[t][tenants'[t]] = Zero
        BY <1>z, <2>1, <2>3, <3>1
      <4> QED
        BY <2>1, <2>3, <3>1, <4>1, ZeroFields DEF Stored
    <3>2. CASE ~ (t = id /\ tenants[id] = Nil)
      BY <1>s, <2>1, <3>2
    <3> QED
      BY <3>1, <3>2
  <2>6. ASSUME NEW f \in Counters PROVE StillToAdd(doing[c], t, f) \in Nat
    BY StillToAddType, ZenonT(30) DEF MemoryTypeOK
  <2> QED
    BY <1>0, <1>z, <2>1, <2>2, <2>4, <2>5, <2>6, CountedStep
<1>5. ASSUME NEW c \in Goroutines, Add(c) PROVE CountedOK(t)'
  <2>0. PICK id, of, todo : At(c, id, of, todo)
    BY DEF At
  <2>1. /\ doing[c] # Nil /\ doing[c].op = "update" /\ doing[c].id = id /\ doing[c].todo = todo
        /\ id \in Tenants /\ of \in Goroutines /\ todo \in UpdatesLeft
        /\ \A d \in Goroutines : d # c => doing'[d] = doing[d]
        /\ Over(Left(todo)) => doing'[c] = Nil
        /\ ~ Over(Left(todo)) =>
              /\ doing'[c] # Nil /\ doing'[c].op = "update" /\ doing'[c].id = id
              /\ doing'[c].todo = Left(todo)
        /\ \A u \in Tenants, d \in Goroutines : ~ (u = id /\ d = of) => counters'[u][d] = counters[u][d]
        /\ \A f \in Counters : f # First(todo).field => counters'[id][of][f] = counters[id][of][f]
        /\ counters'[id][of][First(todo).field] = counters[id][of][First(todo).field] + First(todo).n
        /\ tenants' = tenants /\ total' = total
    BY <1>5, <2>0, AddStep, SMTT(30) DEF At
  <2>2. of = tenants[id] /\ of # Nil
    BY <2>0, <2>1, CallersAssumption DEF OwnerInv, OwnerOK, At
  <2>3. \A d \in Goroutines : tenants'[t] # d => counters'[t][d] = Zero
    BY <1>z, <2>1, <2>2, SMTT(30)
  <2>4. ASSUME NEW f \in Counters
        PROVE  LET before == StillToAdd(doing[c], t, f)
                   after == StillToAdd(doing'[c], t, f)
               IN  /\ before = 0 \/ after = 0 \/ before = after
                   /\ total'[t][f] + Stored(t, f) + before = total[t][f] + Stored(t, f)' + after
    <3>1. CASE t # id
      <4>1. StillToAdd(doing[c], t, f) = 0 /\ StillToAdd(doing'[c], t, f) = 0
        BY <2>1, <3>1 DEF StillToAdd
      <4>2. Stored(t, f)' = Stored(t, f)
        BY <2>1, <3>1, SMT DEF Stored, MemoryTypeOK
      <4> QED
        BY <1>z, <2>1, <4>1, <4>2, SMTT(30)
    <3>2. CASE t = id
      <4>1. /\ Amount(todo, f) \in Nat
            /\ f = First(todo).field => Amount(todo, f) = First(todo).n /\ Amount(Left(todo), f) = 0
            /\ f # First(todo).field => Amount(Left(todo), f) = Amount(todo, f)
        BY <2>1, UpdateFirst, SMTT(30)
      <4>2. StillToAdd(doing[c], t, f) = Amount(todo, f)
        BY <2>1, <3>2 DEF StillToAdd
      <4>3. StillToAdd(doing'[c], t, f) = Amount(Left(todo), f)
        <5>1. CASE Over(Left(todo))
          BY <2>1, <5>1, OverAmount DEF StillToAdd
        <5>2. CASE ~ Over(Left(todo))
          BY <2>1, <3>2, <5>2 DEF StillToAdd
        <5> QED
          BY <5>1, <5>2
      <4>4. Stored(t, f) = counters[id][of][f] /\ Stored(t, f)' = counters'[id][of][f]
        BY <2>1, <2>2, <3>2, SMTT(30) DEF Stored
      <4>5. CASE f = First(todo).field
        BY <1>z, <2>1, <4>1, <4>2, <4>3, <4>4, <4>5, SMTT(30)
      <4>6. CASE f # First(todo).field
        BY <1>z, <2>1, <4>1, <4>2, <4>3, <4>4, <4>6
      <4> QED
        BY <4>5, <4>6
    <3> QED
      BY <3>1, <3>2
  <2> QED
    BY <1>0, <2>1, <2>3, <2>4, CountedStep
<1>6. ASSUME NEW c \in Goroutines, Load(c) PROVE CountedOK(t)'
  <2>0. PICK id, of, todo : At(c, id, of, todo)
    BY DEF At
  <2>1. /\ doing[c].op = "snapshot"
        /\ \A d \in Goroutines : d # c => doing'[d] = doing[d]
        /\ doing'[c] = Nil \/ doing'[c].op = "snapshot"
        /\ tenants' = tenants /\ counters' = counters /\ total' = total
    BY <1>6, <2>0, LoadCallStep
  <2>2. ASSUME NEW f \in Counters
        PROVE  StillToAdd(doing[c], t, f) = 0 /\ StillToAdd(doing'[c], t, f) = 0 /\ Stored(t, f)' = Stored(t, f)
    BY <1>s, <2>1 DEF StillToAdd
  <2> QED
    BY <1>0, <1>z, <2>1, <2>2, CountedStep
<1> QED
  BY <1>1, <1>2, <1>3, <1>4, <1>5, <1>6 DEF MemoryNext

\* The callers that have a duration to count are finitely many, and one enters
\* or leaves them at a time.
LEMMA SummedStep ==
    ASSUME MemoryTypeOK, NEW t \in Tenants, NEW c \in Goroutines,
           \A d \in Goroutines : d # c => doing'[d] = doing[d]
    PROVE  LET n == Cardinality(Summed(t))
           IN
           /\ n \in Nat
           /\ (CountLeft(doing[c], t) <=> CountLeft(doing'[c], t)) => Cardinality(Summed(t))' = n
           /\ ~ CountLeft(doing[c], t) /\ CountLeft(doing'[c], t) => Cardinality(Summed(t))' = n + 1
           /\ CountLeft(doing[c], t) /\ ~ CountLeft(doing'[c], t) => n = Cardinality(Summed(t))' + 1 /\ Cardinality(Summed(t))' \in Nat
<1> DEFINE A == {d \in Goroutines : CountLeft(doing[d], t)}
           B == {d \in Goroutines : CountLeft(doing'[d], t)}
<1>1. Summed(t) = A /\ Summed(t)' = B
  BY DEF Summed
<1>2. Cardinality(Summed(t)) = Cardinality(A) /\ Cardinality(Summed(t))' = Cardinality(B)
  BY <1>1 DEF Cardinality
<1>3. /\ (CountLeft(doing[c], t) <=> CountLeft(doing'[c], t)) => B = A
      /\ ~ CountLeft(doing[c], t) /\ CountLeft(doing'[c], t) => B = A \cup {c} /\ c \notin A
      /\ CountLeft(doing[c], t) /\ ~ CountLeft(doing'[c], t) => A = B \cup {c} /\ c \notin B
  OBVIOUS
<1>4. A \subseteq Goroutines /\ B \subseteq Goroutines
  OBVIOUS
<1> HIDE DEF A, B
<1>5. IsFiniteSet(A) /\ IsFiniteSet(B)
  BY <1>4, CallersAssumption, FS_Subset
<1>6. Cardinality(A) \in Nat /\ Cardinality(B) \in Nat
  BY <1>5, FS_CardinalityType
<1>7. /\ c \notin A => Cardinality(A \cup {c}) = Cardinality(A) + 1
      /\ c \notin B => Cardinality(B \cup {c}) = Cardinality(B) + 1
  BY <1>5, FS_AddElement
<1> QED
  BY <1>2, <1>3, <1>6, <1>7

\* Every step keeps the sum large enough.
LEMMA LatencyKept ==
    ASSUME MemoryTypeOK, OwnerInv, CountedInv, LatencyInv, [MemoryNext]_memoryVars
    PROVE  LatencyInv'
<1> SUFFICES ASSUME NEW t \in Tenants PROVE LatencyOK(t)'
  BY DEF LatencyInv
<1>0. LatencyOK(t)
  BY DEF LatencyInv
<1>c. "latencyCount" \in Counters /\ "latencySum" \in Counters
  BY DEF Counters
<1>z. Stored(t, "latencyCount") \in Nat /\ Stored(t, "latencySum") \in Nat
  BY <1>c, SMT DEF Stored, MemoryTypeOK, Values
<1>a. ASSUME NEW c \in Goroutines, \A d \in Goroutines : d # c => doing'[d] = doing[d],
             CountLeft(doing[c], t) <=> CountLeft(doing'[c], t),
             Stored(t, "latencyCount")' = Stored(t, "latencyCount"),
             Stored(t, "latencySum")' = Stored(t, "latencySum")
      PROVE  LatencyOK(t)'
  <2>1. Cardinality(Summed(t))' = Cardinality(Summed(t))
    BY <1>a, SummedStep
  <2> QED
    BY <1>0, <1>a, <2>1 DEF LatencyOK
<1>s. ASSUME tenants'[t] = tenants[t], counters'[t] = counters[t] PROVE \A f \in Counters : Stored(t, f)' = Stored(t, f)
  BY <1>s DEF Stored
<1>1. CASE UNCHANGED memoryVars
  <2>1. /\ Stored(t, "latencyCount")' = Stored(t, "latencyCount") /\ Stored(t, "latencySum")' = Stored(t, "latencySum")
        /\ Summed(t)' = Summed(t)
    BY <1>1, <1>c, <1>s DEF memoryVars, Summed
  <2> QED
    BY <1>0, <2>1 DEF LatencyOK
<1>2. ASSUME NEW c \in Goroutines, NEW id \in Tenants, BeginUpdate(c, id) PROVE LatencyOK(t)'
  <2>1. PICK todo \in Updates :
              /\ todo \in UpdatesLeft
              /\ doing[c] = Nil
              /\ \A d \in Goroutines : d # c => doing'[d] = doing[d]
              /\ doing'[c].todo = todo
              /\ tenants' = tenants /\ counters' = counters
    BY <1>2, BeginUpdateStep
  <2>2. ~ CountLeft(doing[c], t) /\ ~ CountLeft(doing'[c], t)
    BY <2>1, UpdateFirst DEF CountLeft
  <2> QED
    BY <1>a, <1>c, <1>s, <2>1, <2>2, SMTT(30)
<1>3. ASSUME NEW c \in Goroutines, NEW id \in Tenants, BeginSnapshot(c, id) PROVE LatencyOK(t)'
  <2>1. /\ doing[c] = Nil /\ doing'[c].op = "snapshot"
        /\ \A d \in Goroutines : d # c => doing'[d] = doing[d]
        /\ tenants' = tenants /\ counters' = counters
    BY <1>3, BeginSnapshotStep
  <2>2. ~ CountLeft(doing[c], t) /\ ~ CountLeft(doing'[c], t)
    BY <2>1 DEF CountLeft
  <2> QED
    BY <1>a, <1>c, <1>s, <2>1, <2>2
<1>4. ASSUME NEW c \in Goroutines, GetOrCreate(c) PROVE LatencyOK(t)'
  <2>1. /\ doing[c] # Nil /\ doing'[c] # Nil /\ doing'[c].op = doing[c].op /\ doing'[c].id = doing[c].id
        /\ doing'[c].todo = doing[c].todo
        /\ \A d \in Goroutines : d # c => doing'[d] = doing[d]
    BY <1>4, GetOrCreateStep, SMT
  <2>2. CountLeft(doing[c], t) <=> CountLeft(doing'[c], t)
    BY <2>1 DEF CountLeft
  <2>3. /\ Stored(t, "latencyCount")' = Stored(t, "latencyCount") /\ Stored(t, "latencySum")' = Stored(t, "latencySum")
    BY <1>4, <1>c, StoredByGet
  <2> QED
    BY <1>a, <2>1, <2>2, <2>3
<1>5. ASSUME NEW c \in Goroutines, Add(c) PROVE LatencyOK(t)'
  <2>0. PICK id, of, todo : At(c, id, of, todo)
    BY DEF At
  <2>1. /\ doing[c] # Nil /\ doing[c].op = "update" /\ doing[c].id = id /\ doing[c].todo = todo
        /\ todo \in UpdatesLeft
        /\ \A d \in Goroutines : d # c => doing'[d] = doing[d]
        /\ Over(Left(todo)) => doing'[c] = Nil
        /\ ~ Over(Left(todo)) =>
              /\ doing'[c] # Nil /\ doing'[c].op = "update" /\ doing'[c].id = id
              /\ doing'[c].todo = Left(todo)
    BY <1>5, <2>0, AddStep, SMTT(30) DEF At
  <2>2. \A f \in Counters :
           /\ ~ (t = id /\ f = First(todo).field) => Stored(t, f)' = Stored(t, f)
           /\ t = id /\ f = First(todo).field => Stored(t, f)' = Stored(t, f) + First(todo).n
    BY <1>5, <2>0, StoredByAdd, SMTT(30)
  <2>3. /\ Over(Left(todo)) \/ (First(Left(todo)).field = "latencyCount" /\ First(todo).field = "latencySum")
        /\ First(todo).field = "latencySum" => First(todo).n \in Durations /\ ~ Over(Left(todo))
        /\ First(todo).field = "latencyCount" => First(todo).n = 1
    BY <2>1, UpdateFirst
  <2>4. /\ CountLeft(doing[c], t) <=> t = id /\ First(todo).field = "latencyCount"
        /\ CountLeft(doing'[c], t) <=> t = id /\ First(todo).field = "latencySum"
    BY <2>1, <2>3 DEF CountLeft
  <2>5. CASE t # id \/ First(todo).field \notin {"latencyCount", "latencySum"}
    BY <1>a, <1>c, <2>1, <2>2, <2>4, <2>5
  <2>6. CASE t = id /\ First(todo).field = "latencySum"
    <3>1. Cardinality(Summed(t)) \in Nat /\ Cardinality(Summed(t))' = Cardinality(Summed(t)) + 1
      BY <2>1, <2>4, <2>6, SummedStep, SMTT(30)
    <3>2. /\ Stored(t, "latencyCount")' = Stored(t, "latencyCount")
          /\ Stored(t, "latencySum")' = Stored(t, "latencySum") + First(todo).n
      BY <1>c, <2>2, <2>6
    <3>3. PICK n \in Nat : n = Stored(t, "latencyCount") + Cardinality(Summed(t))
      BY <1>z, <3>1, SMTT(30)
    <3>4. n = 0 \/ \E d \in Durations : d * n <= Stored(t, "latencySum")
      BY <1>0, <3>3 DEF LatencyOK
    <3>5. \E d \in Durations : d * (n + 1) <= Stored(t, "latencySum") + First(todo).n
      BY <1>z, <2>3, <2>6, <3>4, AddDuration
    <3>6. Stored(t, "latencyCount")' + Cardinality(Summed(t))' = n + 1
      BY <1>z, <3>1, <3>2, <3>3, SMTT(30)
    <3> QED
      BY <3>2, <3>5, <3>6 DEF LatencyOK
  <2>7. CASE t = id /\ First(todo).field = "latencyCount"
    <3>1. /\ Cardinality(Summed(t)) = Cardinality(Summed(t))' + 1 /\ Cardinality(Summed(t))' \in Nat
      BY <2>1, <2>4, <2>7, SummedStep
    <3>2. /\ Stored(t, "latencyCount")' = Stored(t, "latencyCount") + 1
          /\ Stored(t, "latencySum")' = Stored(t, "latencySum")
      BY <1>c, <2>2, <2>3, <2>7, SMTT(30)
    <3>3. Stored(t, "latencyCount")' + Cardinality(Summed(t))' = Stored(t, "latencyCount") + Cardinality(Summed(t))
      BY <1>z, <3>1, <3>2, SMTT(30)
    <3> QED
      BY <1>0, <3>2, <3>3, SMTT(30) DEF LatencyOK
  <2> QED
    BY <2>5, <2>6, <2>7
<1>6. ASSUME NEW c \in Goroutines, Load(c) PROVE LatencyOK(t)'
  <2>0. PICK id, of, todo : At(c, id, of, todo)
    BY DEF At
  <2>1. /\ doing[c].op = "snapshot"
        /\ \A d \in Goroutines : d # c => doing'[d] = doing[d]
        /\ doing'[c] = Nil \/ doing'[c].op = "snapshot"
        /\ tenants' = tenants /\ counters' = counters
    BY <1>6, <2>0, LoadCallStep
  <2>2. ~ CountLeft(doing[c], t) /\ ~ CountLeft(doing'[c], t)
    BY <2>1 DEF CountLeft
  <2> QED
    BY <1>a, <1>c, <1>s, <2>1, <2>2, SMTT(30)
<1> QED
  BY <1>1, <1>2, <1>3, <1>4, <1>5, <1>6 DEF MemoryNext

\* There are finitely many callers.
LEMMA SummedIsFinite == SummedFinite
<1> SUFFICES ASSUME NEW id \in Tenants PROVE Cardinality(Summed(id)) \in Nat
  BY DEF SummedFinite
<1>1. Summed(id) \subseteq Goroutines
  BY DEF Summed
<1> QED
  BY <1>1, CallersAssumption, FS_Subset, FS_CardinalityType

\* The initial state.
LEMMA MemoryInitInv == MemoryInit => MemoryInv
<1> SUFFICES ASSUME MemoryInit PROVE MemoryInv
  OBVIOUS
<1>1. /\ tenants = [id \in Tenants |-> Nil] /\ counters = [id \in Tenants |-> [c \in Goroutines |-> Zero]]
      /\ doing = [c \in Goroutines |-> Nil] /\ total = [id \in Tenants |-> Zero]
      /\ snapshot = [c \in Goroutines |-> Nil]
  BY DEF MemoryInit
<1>2. MemoryTypeOK
  BY <1>1, ZeroFields DEF MemoryTypeOK
<1>3. OwnerInv /\ ReadInv /\ SnapshotInv
  BY <1>1 DEF OwnerInv, OwnerOK, ReadInv, ReadOK, SnapshotInv, SnapshotOK
<1>4. IsFiniteSet({}) /\ Cardinality({}) = 0
  BY FS_EmptySet
<1>5. ASSUME NEW id \in Tenants, NEW f \in Counters
      PROVE  Stored(id, f) = 0 /\ total[id][f] = 0 /\ Blocks(Owed(id, f)) = {} /\ Summed(id) = {}
  <2>1. Stored(id, f) = 0 /\ total[id][f] = 0
    BY <1>1, ZeroFields DEF Stored
  <2>2. \A c \in Goroutines : doing[c] = Nil
    BY <1>1
  <2>3. Owed(id, f) = [c \in Goroutines |-> 0]
    BY <2>2 DEF Owed, StillToAdd
  <2>4. Blocks(Owed(id, f)) = {}
    BY <2>3, SMT DEF Blocks
  <2>5. Summed(id) = {}
    BY <2>2 DEF Summed, CountLeft
  <2> QED
    BY <2>1, <2>4, <2>5
<1>6. CountedInv
  <2> SUFFICES ASSUME NEW id \in Tenants PROVE CountedOK(id)
    BY DEF CountedInv
  <2>1. \A c \in Goroutines : counters[id][c] = Zero
    BY <1>1
  <2>2. ASSUME NEW f \in Counters
        PROVE  /\ IsFiniteSet(Blocks(Owed(id, f)))
               /\ total[id][f] = Cardinality(Blocks(Owed(id, f))) + Stored(id, f)
    <3>1. Cardinality(Blocks(Owed(id, f))) = 0 /\ IsFiniteSet(Blocks(Owed(id, f)))
      BY <1>4, <1>5
    <3> QED
      BY <1>5, <3>1, SMTT(30)
  <2> QED
    BY <2>1, <2>2 DEF CountedOK
<1>7. LatencyInv
  <2> SUFFICES ASSUME NEW id \in Tenants PROVE LatencyOK(id)
    BY DEF LatencyInv
  <2>0. "latencyCount" \in Counters
    BY DEF Counters
  <2>1. Cardinality(Summed(id)) = 0 /\ Stored(id, "latencyCount") = 0
    BY <1>4, <1>5, <2>0
  <2> QED
    BY <2>1, SMT DEF LatencyOK
<1> QED
  BY <1>2, <1>3, <1>6, <1>7 DEF MemoryInv

\* MemoryInv is inductive.
LEMMA MemoryInvariance == MemorySpec => []MemoryInv
<1>1. MemoryInit => MemoryInv
  BY MemoryInitInv
<1>2. MemoryInv /\ [MemoryNext]_memoryVars => MemoryInv'
  <2> SUFFICES ASSUME MemoryInv, [MemoryNext]_memoryVars PROVE MemoryInv'
    OBVIOUS
  <2>2. MemoryTypeOK /\ OwnerInv /\ CountedInv /\ LatencyInv /\ ReadInv /\ SnapshotInv
    BY DEF MemoryInv
  <2>3. MemoryTypeOK'
    BY <2>2, MemoryTypeInv
  <2>4. OwnerInv' /\ CountedInv'
    BY <2>2, <2>3, OwnerKept, CountedKept
  <2>5. LatencyInv' /\ ReadInv' /\ SnapshotInv'
    BY <2>2, SummedIsFinite, LatencyKept, ReadKept, SnapshotKept, SMTT(30)
  <2> QED
    BY <2>3, <2>4, <2>5 DEF MemoryInv
<1> QED
  BY <1>1, <1>2, PTL DEF MemorySpec

\* No update is lost (NothingUncounted), for any number of goroutines, tenants
\* and updates: when no update of a tenant is in progress, nothing is owed.
THEOREM NoUpdateLost == MemorySpec => []NothingUncounted
<1>1. MemoryInv => NothingUncounted
  <2> SUFFICES ASSUME MemoryInv, NEW id \in Tenants,
                      \A c \in Goroutines : ~ (doing[c] # Nil /\ doing[c].id = id /\ doing[c].op = "update")
               PROVE  total[id] = IF tenants[id] = Nil THEN Zero ELSE counters[id][tenants[id]]
    BY DEF NothingUncounted
  <2>1. ASSUME NEW f \in Counters PROVE total[id][f] = Stored(id, f)
    <3>1. Owed(id, f) = [c \in Goroutines |-> 0]
      BY DEF Owed, StillToAdd
    <3>2. Blocks(Owed(id, f)) = {}
      BY <3>1, SMT DEF Blocks
    <3>3. Cardinality(Blocks(Owed(id, f))) = 0
      BY <3>2, FS_EmptySet
    <3>4. total[id][f] = Cardinality(Blocks(Owed(id, f))) + Stored(id, f) /\ Stored(id, f) \in Nat
      BY SMT DEF MemoryInv, CountedInv, CountedOK, Stored, MemoryTypeOK, Values
    <3> QED
      BY <3>3, <3>4, SMTT(30)
  <2>2. /\ total[id] \in [Counters -> Nat]
        /\ tenants[id] # Nil => counters[id][tenants[id]] \in [Counters -> Nat]
        /\ Zero \in [Counters -> Nat]
    BY ZeroFields DEF MemoryInv, MemoryTypeOK, Values
  <2> QED
    BY <2>1, <2>2, ZeroFields, SMTT(30) DEF Stored
<1> QED
  BY <1>1, MemoryInvariance, PTL

\* The average that Snapshot answers is never below all the durations there are
\* (AverageNotTooLow), whatever updates run between its Loads.
THEOREM AverageAtLeastShortest == MemorySpec => []AverageNotTooLow
<1>0. ASSUME NEW d \in Nat, NEW n \in Nat, NEW s \in Nat, n > 0, d * n <= s PROVE d <= s \div n
  BY <1>0, SMT
<1>1. MemoryInv => AverageNotTooLow
  <2> SUFFICES ASSUME MemoryInv, NEW c \in Goroutines, snapshot[c] # Nil, snapshot[c]["latencyCount"] > 0
               PROVE  \E d \in Durations : d <= AverageLatency(snapshot[c])
    BY DEF AverageNotTooLow
  <2>1. snapshot[c]["latencyCount"] \in Nat /\ snapshot[c]["latencySum"] \in Nat
    BY DEF MemoryInv, MemoryTypeOK, Values, Counters
  <2>2. PICK d \in Durations : d * snapshot[c]["latencyCount"] <= snapshot[c]["latencySum"]
    BY <2>1, SMT DEF MemoryInv, SnapshotInv, SnapshotOK, NotTooLow
  <2>3. d \in Nat
    BY MemoryAssumption
  <2>4. d <= snapshot[c]["latencySum"] \div snapshot[c]["latencyCount"]
    BY <1>0, <2>1, <2>2, <2>3
  <2> QED
    BY <2>4 DEF AverageLatency
<1> QED
  BY <1>1, MemoryInvariance, PTL

-----------------------------------------------------------------------------
(***************************************************************************)
(* PrometheusMetrics                                                       *)
(***************************************************************************)
\* The inductive invariant of PrometheusMetrics.
PrometheusInv ==
    /\ withTenantID \in BOOLEAN
    /\ made \in [Metrics -> [LabelledTenants -> 0..MaxRecords]]
    /\ DOMAIN vector = Metrics
    /\ \A m \in Metrics : vector[m] = SeriesOf(m)

\* The calls about a metric are finitely many.
LEMMA CallsFinite ==
    ASSUME PrometheusInv, NEW m \in Metrics
    PROVE  IsFiniteSet(CallsMade(m))
<1>1. IsFiniteSet(1..MaxRecords)
  BY FS_Interval, PrometheusAssumption, SMT
<1>2. IsFiniteSet(LabelledTenants \X (1..MaxRecords))
  BY <1>1, FS_Product, PrometheusAssumption
<1>3. CallsMade(m) \subseteq LabelledTenants \X (1..MaxRecords)
  BY DEF CallsMade
<1> QED
  BY <1>2, <1>3, FS_Subset

\* A call is one more, about its metric and no other.
LEMMA OneMoreCall ==
    ASSUME PrometheusInv, NEW m \in Metrics, NEW id \in LabelledTenants, Record(m, id)
    PROVE  /\ Cardinality(CallsMade(m)') = Cardinality(CallsMade(m)) + 1
           /\ \A k \in Metrics : k # m => CallsMade(k)' = CallsMade(k)
<1>1. /\ made[m][id] < MaxRecords
      /\ made' = [made EXCEPT ![m][id] = made[m][id] + 1]
  BY DEF Record
<1>2. made[m][id] + 1 \in 1..MaxRecords
  BY <1>1, PrometheusAssumption, SMT DEF PrometheusInv
<1>3. \A i \in LabelledTenants : made[m][i] \in Nat /\ made'[m][i] = IF i = id THEN made[m][i] + 1 ELSE made[m][i]
  BY <1>1, PrometheusAssumption, SMT DEF PrometheusInv
<1>4. CallsMade(m)' = CallsMade(m) \cup {<<id, made[m][id] + 1>>}
  <2>1. ASSUME NEW c \in LabelledTenants \X (1..MaxRecords)
        PROVE  c \in CallsMade(m)' <=> c \in CallsMade(m) \/ c = <<id, made[m][id] + 1>>
    <3>1. PICK i \in LabelledTenants, n \in 1..MaxRecords : c = <<i, n>>
      BY SMT
    <3>2. c \in CallsMade(m)' <=> n <= made'[m][i]
      BY <3>1 DEF CallsMade
    <3>3. c \in CallsMade(m) <=> n <= made[m][i]
      BY <3>1 DEF CallsMade
    <3>4. c = <<id, made[m][id] + 1>> <=> i = id /\ n = made[m][id] + 1
      BY <3>1
    <3>5. n \in Nat /\ made[m][i] \in Nat /\ made'[m][i] = IF i = id THEN made[m][i] + 1 ELSE made[m][i]
      BY <1>3, PrometheusAssumption, SMT
    <3> QED
      BY <3>2, <3>3, <3>4, <3>5, SMTT(30)
  <2>2. <<id, made[m][id] + 1>> \in LabelledTenants \X (1..MaxRecords)
    BY <1>2
  <2>3. /\ CallsMade(m)' \subseteq LabelledTenants \X (1..MaxRecords)
        /\ CallsMade(m) \subseteq LabelledTenants \X (1..MaxRecords)
    BY DEF CallsMade
  <2> QED
    BY <2>1, <2>2, <2>3
<1>5. <<id, made[m][id] + 1>> \notin CallsMade(m)
  BY <1>2, <1>3, SMT DEF CallsMade
<1>6. Cardinality(CallsMade(m)') = Cardinality(CallsMade(m)) + 1
  BY <1>4, <1>5, CallsFinite, FS_AddElement
<1>7. ASSUME NEW k \in Metrics, k # m PROVE CallsMade(k)' = CallsMade(k)
  <2>1. made'[k] = made[k]
    BY <1>1, <1>7 DEF PrometheusInv
  <2> QED
    BY <2>1 DEF CallsMade
<1> QED
  BY <1>6, <1>7

\* New.
LEMMA PrometheusInitInv == PrometheusInit => PrometheusInv
<1> SUFFICES ASSUME PrometheusInit PROVE PrometheusInv
  OBVIOUS
<1>1. /\ withTenantID \in BOOLEAN /\ DOMAIN vector = Metrics
      /\ made \in [Metrics -> [LabelledTenants -> 0..MaxRecords]]
  BY PrometheusAssumption, SMTT(30) DEF PrometheusInit
<1>2. ASSUME NEW m \in Metrics PROVE vector[m] = SeriesOf(m)
  <2>1. vector[m] = [l \in {} |-> 0] /\ \A id \in LabelledTenants : made[m][id] = 0
    BY <1>2 DEF PrometheusInit
  <2>2. CallsMade(m) = {}
    BY <2>1, SMT DEF CallsMade
  <2>3. Cardinality(CallsMade(m)) = 0
    BY <2>2, FS_EmptySet
  <2>4. {<<id>> : id \in {i \in LabelledTenants : made[m][i] > 0}} = {}
    BY <2>1, SMT
  <2>5. SeriesPerTenant(m) = [l \in {} |-> 0]
    BY <2>1, <2>4 DEF SeriesPerTenant
  <2>6. OneSeries(Cardinality(CallsMade(m))) = [l \in {} |-> 0]
    BY <2>3 DEF OneSeries
  <2> QED
    BY <2>1, <2>5, <2>6 DEF SeriesOf
<1> QED
  BY <1>1, <1>2 DEF PrometheusInv

\* Every call moves exactly one series, the one of its mode.
LEMMA PrometheusNextInv == PrometheusInv /\ PrometheusNext => PrometheusInv'
<1> SUFFICES ASSUME PrometheusInv, NEW m \in Metrics, NEW id \in LabelledTenants,
                    Record(m, id)
             PROVE  PrometheusInv'
  BY DEF PrometheusNext
<1> DEFINE series == vector[m]
           l == labelValues(id)
           series2 == [k \in DOMAIN series \cup {l} |->
                         (IF k \in DOMAIN series THEN series[k] ELSE 0) + (IF k = l THEN 1 ELSE 0)]
<1>1. /\ made[m][id] < MaxRecords /\ withTenantID' = withTenantID
      /\ made' = [made EXCEPT ![m][id] = made[m][id] + 1]
      /\ vector' = [vector EXCEPT ![m] = series2]
  BY DEF Record
<1>2. /\ withTenantID' \in BOOLEAN /\ DOMAIN vector' = Metrics
      /\ made' \in [Metrics -> [LabelledTenants -> 0..MaxRecords]]
  <2>1. made[m][id] + 1 \in 0..MaxRecords
    BY <1>1, PrometheusAssumption, SMT DEF PrometheusInv
  <2>2. made' \in [Metrics -> [LabelledTenants -> 0..MaxRecords]]
    BY <1>1, <2>1 DEF PrometheusInv
  <2> QED
    BY <1>1, <2>2 DEF PrometheusInv
<1>3. ASSUME NEW k \in Metrics, k # m PROVE vector'[k] = SeriesOf(k)'
  <2>1. made'[k] = made[k] /\ vector'[k] = vector[k] /\ vector[k] = SeriesOf(k)
    BY <1>1, <1>3 DEF PrometheusInv
  <2>2. CallsMade(k)' = CallsMade(k)
    BY <1>3, OneMoreCall
  <2>3. SeriesPerTenant(k)' = SeriesPerTenant(k)
    BY <2>1 DEF SeriesPerTenant
  <2> QED
    BY <1>1, <2>1, <2>2, <2>3 DEF SeriesOf
<1>4. vector'[m] = series2 /\ series = SeriesOf(m)
  BY <1>1 DEF PrometheusInv
<1>5. CASE ~withTenantID
  <2> DEFINE all == Cardinality(CallsMade(m))
  <2>1. all \in Nat
    BY CallsFinite, FS_CardinalityType
  <2>2. Cardinality(CallsMade(m)') = all + 1
    BY OneMoreCall
  <2>3. SeriesOf(m)' = [k \in {<<>>} |-> all + 1]
    <3> HIDE DEF all
    <3>1. SeriesOf(m)' = OneSeries(Cardinality(CallsMade(m)))'
      BY <1>1, <1>5 DEF SeriesOf
    <3>2. OneSeries(Cardinality(CallsMade(m)))' = [k \in {<<>>} |-> all + 1]
      BY <2>1, <2>2, SMT DEF OneSeries
    <3> QED
      BY <3>1, <3>2
  <2>4. l = <<>>
    BY <1>5 DEF labelValues
  <2>5. series = [k \in IF all = 0 THEN {} ELSE {<<>>} |-> all]
    <3>1. series = OneSeries(all)
      BY <1>4, <1>5 DEF SeriesOf
    <3> QED
      BY <3>1 DEF OneSeries
  <2> HIDE DEF all, l, series
  <2>6. DOMAIN series = IF all = 0 THEN {} ELSE {<<>>}
    BY <2>5
  <2>7. series2 = [k \in {<<>>} |-> all + 1]
    <3>1. CASE all = 0
      <4>1. DOMAIN series \cup {l} = {<<>>} /\ <<>> \notin DOMAIN series
        BY <2>4, <2>6, <3>1
      <4> QED
        BY <2>4, <3>1, <4>1
    <3>2. CASE all # 0
      <4>1. DOMAIN series \cup {l} = {<<>>} /\ <<>> \in DOMAIN series /\ series[<<>>] = all
        BY <2>4, <2>5, <2>6, <3>2, SMTT(30)
      <4> QED
        BY <2>4, <4>1
    <3> QED
      BY <3>1, <3>2
  <2>8. vector'[m] = SeriesOf(m)'
    BY <1>4, <2>3, <2>7, SMTT(30)
  <2> QED
    BY <1>2, <1>3, <2>8 DEF PrometheusInv
<1>6. CASE withTenantID
  <2> DEFINE Seen == {i \in LabelledTenants : made[m][i] > 0}
             Seen2 == {i \in LabelledTenants : made'[m][i] > 0}
  <2>1. series = [k \in {<<i>> : i \in Seen} |-> made[m][k[1]]]
    BY <1>4, <1>6 DEF SeriesOf, SeriesPerTenant
  <2>2. SeriesOf(m)' = [k \in {<<i>> : i \in Seen2} |-> made'[m][k[1]]]
    BY <1>1, <1>6 DEF SeriesOf, SeriesPerTenant
  <2>3. l = <<id>>
    BY <1>6 DEF labelValues
  <2>4. \A i \in LabelledTenants : made[m][i] \in Nat /\ made'[m][i] = IF i = id THEN made[m][i] + 1 ELSE made[m][i]
    BY <1>1, PrometheusAssumption, SMT DEF PrometheusInv
  <2>5. Seen2 = Seen \cup {id} /\ Seen \subseteq LabelledTenants
    BY <2>4, SMT
  <2>6. \A i \in LabelledTenants : i \notin Seen => made[m][i] = 0
    BY <2>4, SMT
  <2> HIDE DEF Seen, Seen2, series, l
  <2>7. DOMAIN series = {<<i>> : i \in Seen}
    BY <2>1
  <2>8. DOMAIN series \cup {l} = {<<i>> : i \in Seen2}
    BY <2>3, <2>5, <2>7
  <2>9. ASSUME NEW k \in {<<i>> : i \in Seen2}
        PROVE  (IF k \in DOMAIN series THEN series[k] ELSE 0) + (IF k = l THEN 1 ELSE 0) = made'[m][k[1]]
    <3>1. PICK i \in Seen2 : k = <<i>>
      OBVIOUS
    <3>2. k[1] = i /\ i \in LabelledTenants
      BY <2>5, <3>1
    <3>3. k \in DOMAIN series <=> i \in Seen
      BY <2>7, <3>1
    <3>4. i \in Seen => series[k] = made[m][i]
      BY <2>1, <3>1
    <3>5. k = l <=> i = id
      BY <2>3, <3>1
    <3>6. (IF k \in DOMAIN series THEN series[k] ELSE 0) = made[m][i]
      BY <2>6, <3>2, <3>3, <3>4
    <3> QED
      BY <2>4, <3>2, <3>5, <3>6, SMTT(30)
  <2>10. series2 = [k \in {<<i>> : i \in Seen2} |-> made'[m][k[1]]]
    BY <2>8, <2>9
  <2>11. vector'[m] = SeriesOf(m)'
    BY <1>4, <2>2, <2>10, SMTT(30)
  <2> QED
    BY <1>2, <1>3, <2>11 DEF PrometheusInv
<1> QED
  BY <1>5, <1>6

\* PrometheusInv holds in every reachable state.
LEMMA PrometheusInvariance == PrometheusSpec => []PrometheusInv
<1>1. PrometheusInit => PrometheusInv
  BY PrometheusInitInv
<1>2. PrometheusInv /\ UNCHANGED prometheusVars => PrometheusInv'
  <2> SUFFICES ASSUME PrometheusInv, UNCHANGED prometheusVars PROVE PrometheusInv'
    OBVIOUS
  <2>1. ASSUME NEW m \in Metrics PROVE vector'[m] = SeriesOf(m)'
    <3>1. CallsMade(m)' = CallsMade(m)
      BY DEF CallsMade, prometheusVars
    <3>2. SeriesPerTenant(m)' = SeriesPerTenant(m)
      BY DEF SeriesPerTenant, prometheusVars
    <3>3. SeriesOf(m)' = SeriesOf(m)
      BY <3>1, <3>2 DEF SeriesOf, prometheusVars
    <3> QED
      BY <3>3 DEF PrometheusInv, prometheusVars
  <2> QED
    BY <2>1 DEF PrometheusInv, prometheusVars
<1>3. PrometheusInv /\ [PrometheusNext]_prometheusVars => PrometheusInv'
  BY <1>2, PrometheusNextInv
<1> QED
  BY <1>1, <1>3, PTL DEF PrometheusSpec

\* Every call is counted in exactly one series: the one of its metric, or the
\* one of its metric and tenant.
THEOREM EveryCallInItsSeries == PrometheusSpec => []SeriesMatchMode
<1>1. PrometheusInv => SeriesMatchMode
  BY DEF PrometheusInv, SeriesMatchMode
<1> QED
  BY <1>1, PrometheusInvariance, PTL

=============================================================================
