-------------------------- MODULE RetryQueueProofs --------------------------
(***************************************************************************)
(* Proofs about RetryQueue, for every queue size, retry limit and number   *)
(* of Enqueue calls: the safety properties, and that the queue implements  *)
(* BestEffortQueue.                                                        *)
(***************************************************************************)
EXTENDS RetryQueue, Functions, SequenceTheorems, TLAPS

\* A leaf is tried with Zenon first; SMT marks those that need arithmetic or the
\* theory of functions, records and sequences.
USE Zenon, SMTT(30)

-----------------------------------------------------------------------------
(***************************************************************************)
(* Finite sequences of numbers in increasing order, the shape of pending:  *)
(* what appending, dropping the head and removing a position do to the     *)
(* order and to the set of elements.                                       *)
(***************************************************************************)
\* The sequence s without its position i: append(s[:i], s[i+1:]...).
Without(s, i) == SubSeq(s, 1, i - 1) \o SubSeq(s, i + 1, Len(s))

\* A sequence in increasing order, without repetition.
Ordered(s) == \A i, j \in 1..Len(s) : i < j => s[i] < s[j]

\* Removing position i, the way removeAt does, shifts what follows by one.
LEMMA RemoveAtSeq ==
  ASSUME NEW S, NEW s \in Seq(S), NEW i \in 1..Len(s)
  PROVE  /\ Without(s, i) \in Seq(S)
         /\ Len(Without(s, i)) = Len(s) - 1
         /\ \A j \in 1..(Len(s) - 1) :
               Without(s, i)[j] = IF j < i THEN s[j] ELSE s[j + 1]
<1> DEFINE t == Without(s, i)
           a == SubSeq(s, 1, i - 1)
           b == SubSeq(s, i + 1, Len(s))
<1>0. Len(s) \in Nat /\ \A j \in 1..Len(s) : s[j] \in S
  BY LenProperties, ElementOfSeq
<1>1. /\ a \in Seq(S)
      /\ Len(a) = i - 1
      /\ \A j \in 1..(i - 1) : a[j] = s[j]
  <2>1. \A j \in 1..(i - 1) : s[j] \in S
    BY <1>0, SMT
  <2>2. /\ a \in Seq(S)
        /\ Len(a) = IF 1 <= i - 1 THEN (i - 1) - 1 + 1 ELSE 0
        /\ \A j \in 1..((i - 1) - 1 + 1) : a[j] = s[1 + j - 1]
    BY <2>1, <1>0, SubSeqProperties, SMT
  <2> HIDE DEF a
  <2> QED BY <2>2, <1>0, SMT
<1>2. /\ b \in Seq(S)
      /\ Len(b) = Len(s) - i
      /\ \A j \in 1..(Len(s) - i) : b[j] = s[i + j]
  <2>1. \A j \in (i + 1)..Len(s) : s[j] \in S
    BY <1>0, SMT
  <2>2. /\ b \in Seq(S)
        /\ Len(b) = IF i + 1 <= Len(s) THEN Len(s) - (i + 1) + 1 ELSE 0
        /\ \A j \in 1..(Len(s) - (i + 1) + 1) : b[j] = s[i + 1 + j - 1]
    BY <2>1, <1>0, SubSeqProperties, SMT
  <2> HIDE DEF b
  <2>3. Len(b) = Len(s) - i
    BY <2>2, <1>0, SMTT(30)
  <2>4. ASSUME NEW j \in 1..(Len(s) - i) PROVE b[j] = s[i + j]
    <3>1. i + 1 + j - 1 = i + j
      BY <1>0, SMT
    <3>2. Len(s) - (i + 1) + 1 = Len(s) - i
      BY <1>0, SMT
    <3> QED BY <2>2, <3>1, <3>2
  <2> QED BY <2>2, <2>3, <2>4
<1> HIDE DEF a, b
<1>3. /\ a \o b \in Seq(S)
      /\ Len(a \o b) = Len(a) + Len(b)
      /\ \A j \in 1..(Len(a) + Len(b)) :
            (a \o b)[j] = IF j <= Len(a) THEN a[j] ELSE b[j - Len(a)]
  BY <1>1, <1>2, ConcatProperties
<1>4. t = a \o b
  BY DEF a, b, Without
<1> HIDE DEF t
<1>5. Len(a) = i - 1 /\ Len(a) + Len(b) = Len(s) - 1
  BY <1>0, <1>1, <1>2, SMT
<1>6. /\ t \in Seq(S)
      /\ Len(t) = Len(s) - 1
      /\ \A j \in 1..(Len(s) - 1) : t[j] = IF j <= i - 1 THEN a[j] ELSE b[j - (i - 1)]
  BY <1>3, <1>4, <1>5
<1>7. ASSUME NEW j \in 1..(Len(s) - 1) PROVE t[j] = IF j < i THEN s[j] ELSE s[j + 1]
  <2>1. CASE j < i
    <3>1. j <= i - 1 /\ j \in 1..(i - 1)
      BY <2>1, <1>0, SMT
    <3> QED BY <2>1, <3>1, <1>1, <1>6
  <2>2. CASE ~(j < i)
    <3>1. /\ ~(j <= i - 1)
          /\ j - (i - 1) \in 1..(Len(s) - i)
          /\ i + (j - (i - 1)) = j + 1
      BY <2>2, <1>0, SMT
    <3> QED BY <2>2, <3>1, <1>2, <1>6
  <2> QED BY <2>1, <2>2
<1> QED BY <1>6, <1>7 DEF t

\* What a sequence is, as a function and as a set.
LEMMA SeqView ==
  ASSUME NEW S, NEW s \in Seq(S)
  PROVE  /\ Len(s) \in Nat
         /\ DOMAIN s = 1..Len(s)
         /\ Range(s) = {s[i] : i \in 1..Len(s)}
         /\ \A i \in 1..Len(s) : s[i] \in S /\ s[i] \in Range(s)
<1>1. Len(s) \in Nat /\ DOMAIN s = 1..Len(s)
  BY LenProperties
<1>2. \A i \in 1..Len(s) : s[i] \in S
  BY ElementOfSeq
<1> QED BY <1>1, <1>2 DEF Range

\* Removing a position from an ordered sequence removes that one element and
\* leaves the sequence ordered.
LEMMA OrderedRemoveAt ==
  ASSUME NEW s \in Seq(Nat), Ordered(s), NEW i \in 1..Len(s)
  PROVE  /\ Ordered(Without(s, i))
         /\ Range(Without(s, i)) = Range(s) \ {s[i]}
<1> DEFINE t == Without(s, i)
           n == Len(s)
<1>1. /\ n \in Nat
      /\ Range(s) = {s[j] : j \in 1..n}
      /\ \A j \in 1..n : s[j] \in Nat
  BY SeqView
<1>2. /\ t \in Seq(Nat)
      /\ Len(t) = n - 1
      /\ \A j \in 1..(n - 1) : t[j] = IF j < i THEN s[j] ELSE s[j + 1]
  BY RemoveAtSeq
<1>3. Range(t) = {t[j] : j \in 1..Len(t)}
  BY <1>2, SeqView
<1>4. i \in 1..n /\ \A j, k \in 1..n : j < k => s[j] < s[k]
  BY DEF Ordered
<1> HIDE DEF t, n
<1>5. ASSUME NEW j \in 1..(n - 1)
      PROVE  /\ j \in 1..n /\ j + 1 \in 1..n
             /\ j < i => t[j] = s[j]
             /\ ~(j < i) => t[j] = s[j + 1]
  <2>1. j \in 1..n /\ j + 1 \in 1..n
    BY <1>1, SMT
  <2> QED BY <2>1, <1>2
<1>6. ASSUME NEW j \in 1..(n - 1), NEW k \in 1..(n - 1), j < k
      PROVE  t[j] < t[k]
  <2>1. CASE k < i
    <3>1. j < i BY <2>1, <1>6, <1>1, <1>4, SMT
    <3> QED BY <2>1, <3>1, <1>4, <1>5, <1>6
  <2>2. CASE j < i /\ ~(k < i)
    <3>1. j < k + 1 BY <1>6, <1>1, SMT
    <3> QED BY <2>2, <3>1, <1>4, <1>5
  <2>3. CASE ~(j < i)
    <3>1. ~(k < i) /\ j + 1 < k + 1 BY <2>3, <1>6, <1>1, <1>4, SMT
    <3> QED BY <2>3, <3>1, <1>4, <1>5
  <2> QED BY <2>1, <2>2, <2>3
<1>7. Ordered(t)
  BY <1>2, <1>6 DEF Ordered
<1>8. ASSUME NEW j \in 1..(n - 1)
      PROVE  t[j] \in Range(s) \ {s[i]}
  <2>1. CASE j < i
    <3>1. s[j] < s[i] /\ s[j] \in Nat /\ s[i] \in Nat
      BY <2>1, <1>1, <1>4, <1>5
    <3>2. s[j] # s[i] BY <3>1, SMT
    <3> QED BY <2>1, <3>2, <1>1, <1>5
  <2>2. CASE ~(j < i)
    <3>0. i < j + 1 BY <2>2, <1>1, <1>4, SMT
    <3>1. s[i] < s[j + 1] /\ s[j + 1] \in Nat /\ s[i] \in Nat
      BY <3>0, <1>1, <1>4, <1>5
    <3>2. s[j + 1] # s[i] BY <3>1, SMT
    <3> QED BY <2>2, <3>2, <1>1, <1>5
  <2> QED BY <2>1, <2>2
<1>9. ASSUME NEW j \in 1..n, s[j] # s[i]
      PROVE  \E k \in 1..(n - 1) : t[k] = s[j]
  <2>1. CASE j < i
    <3>1. j \in 1..(n - 1) BY <2>1, <1>1, <1>4, SMT
    <3> QED BY <2>1, <3>1, <1>5
  <2>2. CASE i < j
    <3>1. /\ j - 1 \in 1..(n - 1)
          /\ ~(j - 1 < i)
          /\ (j - 1) + 1 = j
      BY <2>2, <1>1, <1>4, SMT
    <3>2. t[j - 1] = s[(j - 1) + 1] BY <3>1, <1>5
    <3> QED BY <3>1, <3>2
  <2>3. j # i BY <1>9
  <2> QED BY <2>1, <2>2, <2>3, <1>1, <1>4, SMT
<1>10. Range(t) = {t[j] : j \in 1..(n - 1)}
  BY <1>2, <1>3
<1>11. Range(t) \subseteq Range(s) \ {s[i]}
  BY <1>8, <1>10
<1>12. ASSUME NEW x \in Range(s) \ {s[i]} PROVE x \in Range(t)
  <2>1. PICK j \in 1..n : x = s[j]
    BY <1>1, <1>12
  <2>2. s[j] # s[i]
    BY <1>12, <2>1
  <2> QED BY <2>1, <2>2, <1>9, <1>10
<1>13. Range(t) = Range(s) \ {s[i]}
  BY <1>11, <1>12
<1> QED BY <1>7, <1>13 DEF t

\* Appending a larger element to an ordered sequence.
LEMMA OrderedAppend ==
  ASSUME NEW s \in Seq(Nat), Ordered(s), NEW e \in Nat,
         \A i \in 1..Len(s) : s[i] < e
  PROVE  /\ Append(s, e) \in Seq(Nat)
         /\ Len(Append(s, e)) = Len(s) + 1
         /\ Ordered(Append(s, e))
         /\ Range(Append(s, e)) = Range(s) \cup {e}
<1> DEFINE t == Append(s, e)
           n == Len(s)
<1>1. /\ n \in Nat
      /\ Range(s) = {s[j] : j \in 1..n}
      /\ \A j \in 1..n : s[j] \in Nat
  BY SeqView
<1>2. /\ t \in Seq(Nat)
      /\ Len(t) = n + 1
      /\ \A j \in 1..n : t[j] = s[j]
      /\ t[n + 1] = e
  BY AppendProperties, SMT
<1>3. Range(t) = {t[j] : j \in 1..(n + 1)}
  BY <1>2, SeqView
<1>4. /\ \A j, k \in 1..n : j < k => s[j] < s[k]
      /\ \A j \in 1..n : s[j] < e
  BY DEF Ordered
<1> HIDE DEF t, n
<1>5. \A j \in 1..(n + 1) : j \in 1..n \/ j = n + 1
  BY <1>1, SMT
<1>6. n + 1 \in 1..(n + 1) /\ \A j \in 1..n : j \in 1..(n + 1)
  BY <1>1, SMT
<1>7. ASSUME NEW j \in 1..(n + 1), NEW k \in 1..(n + 1), j < k
      PROVE  t[j] < t[k]
  <2>1. j \in 1..n BY <1>7, <1>1, SMT
  <2>2. CASE k \in 1..n
    BY <2>1, <2>2, <1>2, <1>4, <1>7
  <2>3. CASE k = n + 1
    BY <2>1, <2>3, <1>2, <1>4
  <2> QED BY <2>2, <2>3, <1>5
<1>8. Ordered(t)
  BY <1>2, <1>7 DEF Ordered
<1>9. Range(t) = Range(s) \cup {e}
  BY <1>1, <1>2, <1>3, <1>5, <1>6
<1> QED BY <1>2, <1>8, <1>9 DEF t, n

\* The tail of an ordered sequence: the first element goes.
LEMMA OrderedTail ==
  ASSUME NEW s \in Seq(Nat), Ordered(s), Len(s) >= 1
  PROVE  /\ Tail(s) \in Seq(Nat)
         /\ Len(Tail(s)) = Len(s) - 1
         /\ Ordered(Tail(s))
         /\ Head(s) = s[1] /\ 1 \in 1..Len(s)
         /\ Range(Tail(s)) = Range(s) \ {Head(s)}
         /\ Head(s) \in Range(s)
<1>1. /\ Len(s) \in Nat
      /\ Range(s) = {s[j] : j \in 1..Len(s)}
  BY SeqView
<1>2. s # <<>> /\ 1 \in 1..Len(s)
  BY <1>1, EmptySeq, SMT
<1>3. Tail(s) = SubSeq(s, 2, Len(s))
  BY <1>2, TailIsSubSeq
<1>4. Tail(s) = Without(s, 1)
  <2>1. SubSeq(s, 2, Len(s)) \in Seq(Nat)
    BY <1>2, <1>3, HeadTailProperties
  <2>2. SubSeq(s, 1, 0) = <<>>
    BY SubSeqEmpty, SMT
  <2>3. Without(s, 1) = SubSeq(s, 1, 0) \o SubSeq(s, 2, Len(s))
    BY SMT DEF Without
  <2> QED BY <1>3, <2>1, <2>2, <2>3, ConcatEmptySeq
<1>5. Head(s) = s[1]
  BY SMT
<1>6. /\ Tail(s) \in Seq(Nat)
      /\ Len(Tail(s)) = Len(s) - 1
  BY <1>2, HeadTailProperties
<1>7. /\ Ordered(Tail(s))
      /\ Range(Tail(s)) = Range(s) \ {s[1]}
  BY <1>2, <1>4, OrderedRemoveAt
<1> QED BY <1>1, <1>2, <1>5, <1>6, <1>7

-----------------------------------------------------------------------------
(***************************************************************************)
(* What the operations do to pending                                       *)
(***************************************************************************)
\* pending as a sequence of numbers in increasing order.
LEMMA PendingView ==
  ASSUME TypeOK, OldestFirst
  PROVE  /\ pending \in Seq(Events) /\ pending \in Seq(Nat)
         /\ Ordered(pending)
         /\ Len(pending) \in Nat
         /\ \A i \in 1..Len(pending) : pending[i] \in Range(pending)
<1>1. pending \in Seq(Events)
  BY DEF TypeOK
<1>2. Events \subseteq Nat
  BY QueueAssumption, SMT DEF Events
<1>3. pending \in Seq(Nat)
  BY <1>1, <1>2, SeqMonotonic
<1>4. Ordered(pending)
  BY DEF OldestFirst, Ordered
<1>5. Len(pending) \in Nat /\ Range(pending) = {pending[i] : i \in 1..Len(pending)}
  BY <1>1, SeqView
<1> QED BY <1>1, <1>3, <1>4, <1>5

\* removeAt, given the position indexOf found, removes exactly that event and
\* keeps the others in order.
LEMMA RemoveEffect ==
  ASSUME TypeOK, OldestFirst, NEW e \in Events, NEW i \in indexOf(e), removeAt(i)
  PROVE  /\ pending' \in Seq(Events)
         /\ Len(pending') = Len(pending) - 1
         /\ OldestFirst'
         /\ Range(pending') = Range(pending) \ {e}
         /\ i \in 1..Len(pending) /\ pending[i] = e
<1>1. i \in 1..Len(pending) /\ pending[i] = e
  BY DEF indexOf
<1>2. pending' = Without(pending, i)
  BY DEF removeAt, Without
<1>3. /\ pending \in Seq(Events) /\ pending \in Seq(Nat)
      /\ Ordered(pending)
  BY PendingView
<1>4. /\ pending' \in Seq(Events)
      /\ Len(pending') = Len(pending) - 1
  BY <1>1, <1>2, <1>3, RemoveAtSeq
<1>5. Ordered(pending') /\ Range(pending') = Range(pending) \ {e}
  BY <1>1, <1>2, <1>3, OrderedRemoveAt
<1>6. OldestFirst'
  BY <1>5 DEF OldestFirst, Ordered
<1> QED BY <1>1, <1>4, <1>5, <1>6

\* Enqueue appends the newest event; when it makes room, it drops the oldest
\* one and reports it.
LEMMA EnqueueEffect ==
  ASSUME TypeOK, Bounded, OldestFirst, Range(pending) \subseteq 1..enqueued, Enqueue
  PROVE  /\ enqueued + 1 \in Events
         /\ pending' \in Seq(Events)
         /\ Bounded'
         /\ OldestFirst'
         /\ \/ /\ ~Full
               /\ lost' = lost
               /\ Range(pending') = Range(pending) \cup {enqueued + 1}
            \/ /\ Full /\ Len(pending) = MaxSize
               /\ Head(pending) \in Range(pending)
               /\ lost' = lost \cup {Head(pending)}
               /\ Range(pending') = (Range(pending) \ {Head(pending)}) \cup {enqueued + 1}
<1> DEFINE q == IF Full THEN Tail(pending) ELSE pending
           e == enqueued + 1
<1>1. /\ pending \in Seq(Events) /\ pending \in Seq(Nat)
      /\ Ordered(pending)
      /\ Len(pending) \in Nat
  BY PendingView
<1>2. e \in Events /\ e \in Nat /\ \A x \in 1..enqueued : x < e
  BY QueueAssumption, SMT DEF TypeOK, Events, Enqueue
<1>3. pending' = Append(q, e)
  BY DEF Enqueue
<1>4. CASE Full
  <2>1. Len(pending) >= 1 /\ Len(pending) = MaxSize
    BY <1>1, <1>4, QueueAssumption, SMT DEF Full, Bounded
  <2>2. /\ Tail(pending) \in Seq(Nat)
        /\ Len(Tail(pending)) = Len(pending) - 1
        /\ Ordered(Tail(pending))
        /\ Range(Tail(pending)) = Range(pending) \ {Head(pending)}
        /\ Head(pending) \in Range(pending)
    BY <1>1, <2>1, OrderedTail
  <2>3. Tail(pending) \in Seq(Events)
    <3>1. pending # <<>>
      BY <1>1, <2>1, SMT
    <3> QED BY <1>1, <3>1, HeadTailProperties
  <2>4. pending' = Append(Tail(pending), e) /\ lost' = lost \cup {Head(pending)}
    BY <1>4 DEF Enqueue
  <2>5. \A j \in 1..Len(Tail(pending)) : Tail(pending)[j] < e
    <3>1. \A j \in 1..Len(Tail(pending)) : Tail(pending)[j] \in Range(Tail(pending))
      BY <2>2, SeqView
    <3> QED BY <3>1, <2>2, <1>2
  <2>6. /\ Len(pending') = Len(Tail(pending)) + 1
        /\ Ordered(pending')
        /\ Range(pending') = Range(Tail(pending)) \cup {e}
    BY <1>2, <2>2, <2>4, <2>5, OrderedAppend
  <2>7. pending' \in Seq(Events)
    BY <1>2, <2>3, <2>4, AppendProperties
  <2>8. Bounded'
    BY <1>1, <2>1, <2>2, <2>6, SMT DEF Bounded
  <2>9. OldestFirst'
    BY <2>6 DEF OldestFirst, Ordered
  <2> QED BY <1>2, <1>4, <2>1, <2>2, <2>4, <2>6, <2>7, <2>8, <2>9
<1>5. CASE ~Full
  <2>1. pending' = Append(pending, e) /\ lost' = lost
    BY <1>5 DEF Enqueue
  <2>2. \A j \in 1..Len(pending) : pending[j] < e
    <3>1. \A j \in 1..Len(pending) : pending[j] \in Range(pending)
      BY PendingView
    <3> QED BY <3>1, <1>2
  <2>3. /\ Len(pending') = Len(pending) + 1
        /\ Ordered(pending')
        /\ Range(pending') = Range(pending) \cup {e}
    BY <1>1, <1>2, <2>1, <2>2, OrderedAppend
  <2>4. pending' \in Seq(Events)
    BY <1>1, <1>2, <2>1, AppendProperties
  <2>5. Bounded'
    BY <1>1, <1>5, <2>3, QueueAssumption, SMT DEF Bounded, Full
  <2>6. OldestFirst'
    BY <2>3 DEF OldestFirst, Ordered
  <2> QED BY <1>2, <1>5, <2>1, <2>3, <2>4, <2>5, <2>6
<1> QED BY <1>4, <1>5

-----------------------------------------------------------------------------
(***************************************************************************)
(* The inductive invariant                                                 *)
(***************************************************************************)
\* The properties together with RoundInv are inductive.
IInv == TypeOK /\ Bounded /\ OldestFirst /\ NothingVanishes /\ RetryBudget /\ RoundInv

\* An empty queue whose worker has not been started.
LEMMA InitIInv == Init => IInv
<1> SUFFICES ASSUME Init PROVE IInv
  OBVIOUS
<1>1. pending \in Seq(Events) /\ Len(pending) = 0 /\ Range(pending) = {}
  <2>1. pending = <<>>
    BY DEF Init
  <2>2. pending \in Seq(Events) /\ Len(pending) = 0
    BY <2>1, EmptySeq
  <2>3. Range(pending) = {pending[i] : i \in 1..0}
    BY <2>2, SeqView
  <2>4. 1..0 = {}
    BY SMT
  <2> QED BY <2>2, <2>3, <2>4
<1>2. TypeOK
  <2>1. /\ attempts \in [Events -> 0..MaxRetries]
        /\ wait \in [Events -> Nat]
        /\ tries \in [Events -> Nat]
        /\ enqueued \in 0..MaxEnqueues
    BY QueueAssumption, SMT DEF Init
  <2> QED BY <1>1, <2>1 DEF Init, TypeOK
<1>3. Bounded /\ OldestFirst
  BY <1>1, QueueAssumption, SMT DEF Bounded, OldestFirst
<1>4. NothingVanishes /\ RetryBudget
  BY QueueAssumption, SMT DEF Init, NothingVanishes, RetryBudget
<1>5. RoundInv
  BY <1>1 DEF Init, RoundInv, InFlight
<1> QED BY <1>2, <1>3, <1>4, <1>5 DEF IInv

\* Enqueue: the new event is pending, none of its counters has moved.
LEMMA EnqueueIInv == IInv /\ Enqueue => IInv'
<1> SUFFICES ASSUME IInv, Enqueue PROVE IInv'
  OBVIOUS
<1> USE DEF IInv
<1>0. Range(pending) \subseteq 1..enqueued /\ enqueued \in Nat
  BY QueueAssumption, SMT DEF RoundInv, TypeOK
<1>1. /\ enqueued + 1 \in Events
      /\ pending' \in Seq(Events)
      /\ Bounded'
      /\ OldestFirst'
      /\ \/ /\ ~Full
            /\ lost' = lost
            /\ Range(pending') = Range(pending) \cup {enqueued + 1}
         \/ /\ Full /\ Len(pending) = MaxSize
            /\ Head(pending) \in Range(pending)
            /\ lost' = lost \cup {Head(pending)}
            /\ Range(pending') = (Range(pending) \ {Head(pending)}) \cup {enqueued + 1}
  BY <1>0, EnqueueEffect
<1>2. enqueued' = enqueued + 1 /\ 1..enqueued' = (1..enqueued) \cup {enqueued + 1}
  BY <1>0, SMT DEF Enqueue
<1>3. Range(pending') \subseteq Range(pending) \cup {enqueued + 1}
  BY <1>1
<1>4. TypeOK'
  <2>1. enqueued' \in 0..MaxEnqueues
    BY <1>2, QueueAssumption, SMT DEF Enqueue, TypeOK
  <2>2. lost' \in SUBSET Events
    <3>1. Range(pending) \subseteq Events /\ lost \subseteq Events
      BY <1>0, QueueAssumption, SMT DEF TypeOK, Events
    <3>2. lost' \subseteq lost \cup Range(pending)
      BY <1>1, SMT
    <3> QED BY <3>1, <3>2
  <2> QED BY <1>1, <2>1, <2>2 DEF TypeOK, Enqueue, roundVars, controlVars
<1>5. NothingVanishes'
  BY <1>1, <1>2 DEF NothingVanishes, Enqueue
<1>6. RetryBudget'
  BY DEF RetryBudget, Enqueue
<1>7. RoundInv'
  <2>1. (Range(pending) \cup todo \cup ok \cup failed \cup sent \subseteq 1..enqueued)'
    BY <1>2, <1>3 DEF RoundInv, Enqueue, roundVars
  <2>2. (Range(pending) \cap sent \subseteq ok)'
    <3>1. enqueued + 1 \notin sent
      BY <1>0, SMT DEF RoundInv
    <3> QED BY <3>1, <1>3 DEF RoundInv, Enqueue, roundVars
  <2>3. (\A e \in Events : e > enqueued => attempts[e] = 0 /\ tries[e] = 0)'
    BY <1>0, <1>2, SMT DEF RoundInv, Enqueue, Events
  <2>4. (\A e \in Range(pending) \cup InFlight :
            tries[e] = attempts[e] + (IF e \in ok \cup failed THEN 1 ELSE 0))'
    <3>1. InFlight' = InFlight /\ UNCHANGED <<tries, attempts, ok, failed>>
      BY DEF InFlight, Enqueue, roundVars
    <3>2. \A e \in Range(pending) \cup InFlight :
            tries[e] = attempts[e] + (IF e \in ok \cup failed THEN 1 ELSE 0)
      BY DEF RoundInv
    <3>3. LET e == enqueued + 1 IN
            /\ tries[e] = 0 /\ attempts[e] = 0 /\ e \notin ok \cup failed
      BY <1>0, <1>1, SMT DEF RoundInv
    <3>4. \A e \in Range(pending') \cup InFlight :
            tries[e] = attempts[e] + (IF e \in ok \cup failed THEN 1 ELSE 0)
      BY <1>3, <3>2, <3>3, SMT
    <3> QED BY <3>1, <3>4
  <2> QED BY <2>1, <2>2, <2>3, <2>4 DEF RoundInv, Enqueue, roundVars, controlVars
<1> QED BY <1>1, <1>4, <1>5, <1>6, <1>7

\* The steps that leave pending alone: the clock, the select of the worker,
\* the collection of the due events, Stop and the context.
LEMMA ControlIInv ==
  IInv /\ (Tick \/ Start \/ Exit \/ TickerFires \/ Collect \/ Stop \/ StopReturns \/ Cancel)
    => IInv'
<1> SUFFICES ASSUME IInv, Tick \/ Start \/ Exit \/ TickerFires \/ Collect
                          \/ Stop \/ StopReturns \/ Cancel
             PROVE  IInv'
  OBVIOUS
<1>0. /\ TypeOK /\ Bounded /\ OldestFirst /\ NothingVanishes /\ RetryBudget /\ RoundInv
  BY DEF IInv
<1>1. UNCHANGED <<pending, attempts, enqueued, ok, failed, historyVars>>
  BY DEF Tick, Start, Exit, TickerFires, Collect, Stop, StopReturns, Cancel,
         queueVars, roundVars, historyVars
<1>2. Bounded' /\ OldestFirst' /\ NothingVanishes' /\ RetryBudget'
  BY <1>0, <1>1 DEF Bounded, OldestFirst, NothingVanishes, RetryBudget, historyVars
<1>3. todo' \subseteq 1..enqueued
  BY <1>0, <1>1 DEF RoundInv, Tick, Start, Exit, TickerFires, Collect, Stop, StopReturns,
                    Cancel, roundVars
<1>4. TypeOK'
  <2>1. 1..enqueued \subseteq Events
    BY <1>0, QueueAssumption, SMT DEF TypeOK, Events
  <2>2. wait' \in [Events -> Nat]
    <3>1. CASE Tick
      <4>1. \A e \in Events : (IF wait[e] > 0 THEN wait[e] - 1 ELSE 0) \in Nat
        BY <1>0, SMT DEF TypeOK
      <4> QED BY <3>1, <4>1 DEF Tick
    <3>2. CASE ~Tick
      <4>1. wait' = wait
        BY <3>2 DEF Start, Exit, TickerFires, Collect, Stop, StopReturns, Cancel, queueVars
      <4> QED BY <1>0, <4>1 DEF TypeOK
    <3> QED BY <3>1, <3>2
  <2>3. /\ wpc' \in {"unstarted", "select", "sampled", "publishing", "settling", "exited"}
        /\ stopper' \in {"idle", "waiting", "returned"}
    BY <1>0 DEF TypeOK, Tick, Start, Exit, TickerFires, Collect, Stop, StopReturns, Cancel,
                controlVars
  <2>4. stopCh' \in BOOLEAN /\ ctxDone' \in BOOLEAN
    BY <1>0 DEF TypeOK, Tick, Start, Exit, TickerFires, Collect, Stop, StopReturns,
                       Cancel, controlVars
  <2> QED BY <1>0, <1>1, <1>3, <2>1, <2>2, <2>3, <2>4 DEF TypeOK, historyVars
<1>5. RoundInv'
  <2>1. \A e \in Range(pending) \cup InFlight :
           tries[e] = attempts[e] + (IF e \in ok \cup failed THEN 1 ELSE 0)
    BY <1>0 DEF RoundInv
  <2>2. InFlight' \subseteq Range(pending) \cup InFlight
    BY <1>0, <1>1 DEF InFlight, RoundInv, Tick, Start, Exit, TickerFires, Collect, Stop,
                      StopReturns, Cancel, roundVars
  <2>3. (\A e \in Range(pending) \cup InFlight :
            tries[e] = attempts[e] + (IF e \in ok \cup failed THEN 1 ELSE 0))'
    BY <1>1, <2>1, <2>2 DEF historyVars
  <2>4. /\ (wpc \notin {"sampled", "publishing"} => todo = {})'
        /\ (wpc \notin {"publishing", "settling"} => ok = {} /\ failed = {})'
    BY <1>0, <1>1 DEF RoundInv, Tick, Start, Exit, TickerFires, Collect, Stop, StopReturns,
                      Cancel, roundVars
  <2>5. (stopper = "returned" => wpc = "exited")'
    BY <1>0 DEF RoundInv, Tick, Start, Exit, TickerFires, Collect, Stop, StopReturns,
                Cancel, controlVars, doneCh
  <2>6. (wpc = "publishing" => todo \cap (ok \cup failed \cup sent) = {})'
    BY <1>0, <1>1 DEF RoundInv, Tick, Start, Exit, TickerFires, Collect, Stop, StopReturns,
                      Cancel, roundVars, historyVars
  <2>7. (wpc \in {"sampled", "publishing"} => \A e \in todo : wait[e] = 0)'
    <3>1. CASE Tick
      <4>1. \A e \in Events : wait[e] = 0 => wait'[e] = 0
        BY <3>1, SMT DEF Tick
      <4>2. todo \subseteq Events /\ UNCHANGED <<wpc, todo>>
        BY <1>0, <3>1 DEF TypeOK, Tick, roundVars
      <4> QED BY <1>0, <4>1, <4>2 DEF RoundInv
    <3>2. CASE TickerFires
      BY <3>2 DEF TickerFires, Due, queueVars
    <3>3. CASE Collect
      BY <1>0, <3>3 DEF Collect, RoundInv, queueVars
    <3>4. CASE Start \/ Exit \/ Stop \/ StopReturns \/ Cancel
      BY <1>0, <3>4 DEF Start, Exit, Stop, StopReturns, Cancel, RoundInv, queueVars, roundVars
    <3> QED BY <3>1, <3>2, <3>3, <3>4
  <2> QED BY <1>0, <1>1, <1>3, <2>3, <2>4, <2>5, <2>6, <2>7 DEF RoundInv, historyVars
<1> QED BY <1>2, <1>4, <1>5 DEF IInv

\* Publish: tries runs ahead of attempts for the event, which was not yet sent.
LEMMA PublishIInv ==
  ASSUME IInv, NEW e \in Events, Publish(e)
  PROVE  IInv'
<1>0. /\ TypeOK /\ Bounded /\ OldestFirst /\ NothingVanishes /\ RetryBudget /\ RoundInv
  BY DEF IInv
<1>1. /\ wpc = "publishing" /\ e \in todo /\ todo' = todo \ {e}
      /\ UNCHANGED <<pending, attempts, wait, enqueued, stopCh, ctxDone, stopper, lost>>
      /\ tries' = [tries EXCEPT ![e] = @ + 1]
      /\ \/ ok' = ok \cup {e} /\ sent' = sent \cup {e} /\ failed' = failed
         \/ failed' = failed \cup {e} /\ ok' = ok /\ sent' = sent
      /\ wpc' = IF todo' = {} THEN "settling" ELSE "publishing"
  BY DEF Publish, Oldest, queueVars, controlVars
<1>2. Bounded' /\ OldestFirst' /\ NothingVanishes'
  BY <1>0, <1>1 DEF Bounded, OldestFirst, NothingVanishes
<1>3. /\ tries[e] = attempts[e]
      /\ attempts[e] \in 0..MaxRetries
      /\ tries \in [Events -> Nat]
  BY <1>0, <1>1, SMT DEF RoundInv, InFlight, TypeOK
<1>4. tries' \in [Events -> Nat] /\ RetryBudget'
  BY <1>0, <1>1, <1>3, QueueAssumption, SMT DEF RetryBudget
<1>5. TypeOK'
  BY <1>0, <1>1, <1>4 DEF TypeOK
<1>6. RoundInv'
  <2>1. \A f \in Range(pending) \cup InFlight :
           tries[f] = attempts[f] + (IF f \in ok \cup failed THEN 1 ELSE 0)
    BY <1>0 DEF RoundInv
  <2>2. /\ InFlight' \subseteq InFlight
        /\ ok' \cup failed' = ok \cup failed \cup {e}
        /\ Range(pending) \subseteq Events /\ InFlight \subseteq Events
        /\ e \notin ok \cup failed
    <3>1. 1..enqueued \subseteq Events
      BY <1>0, QueueAssumption, SMT DEF TypeOK, Events
    <3> QED BY <1>0, <1>1, <3>1 DEF InFlight, RoundInv
  <2>3. \A f \in Range(pending') \cup InFlight' :
            tries'[f] = attempts'[f] + (IF f \in ok' \cup failed' THEN 1 ELSE 0)
    <3> SUFFICES ASSUME NEW f \in Range(pending) \cup InFlight
                 PROVE  tries'[f] = attempts[f] + (IF f \in ok \cup failed \cup {e} THEN 1 ELSE 0)
      BY <1>1, <2>2
    <3>1. f \in Events
      BY <2>2
    <3>2. CASE f = e
      BY <1>1, <1>3, <2>2, <3>2
    <3>3. CASE f # e
      BY <1>1, <1>3, <2>1, <3>1, <3>3
    <3> QED BY <3>2, <3>3
  <2>4. \A f \in Events : f > enqueued => tries'[f] = 0 /\ attempts[f] = 0
    <3>1. ~(e > enqueued)
      BY <1>0, <1>1, SMT DEF RoundInv, TypeOK
    <3> QED BY <1>0, <1>1, <3>1 DEF RoundInv, TypeOK
  <2>5. /\ Range(pending) \cup todo' \cup ok' \cup failed' \cup sent' \subseteq 1..enqueued
        /\ wpc' \notin {"sampled", "publishing"} => todo' = {}
        /\ wpc' \in {"publishing", "settling"}
        /\ \A f \in todo' : wait[f] = 0
        /\ todo' \cap (ok' \cup failed' \cup sent') = {}
        /\ ok' \subseteq sent'
        /\ failed' \cap sent' = {}
        /\ Range(pending) \cap sent' \subseteq ok'
    BY <1>0, <1>1 DEF RoundInv
  <2>6. stopper # "returned"
    BY <1>0, <1>1 DEF RoundInv
  <2> QED BY <1>1, <2>3, <2>4, <2>5, <2>6 DEF RoundInv
<1> QED BY <1>2, <1>4, <1>5, <1>6 DEF IInv

\* An event that leaves the queue through removeAt leaves it alone.
LEMMA RemovalIInv ==
  ASSUME IInv, NEW e \in Events, \E i \in indexOf(e) : removeAt(i)
  PROVE  /\ pending' \in Seq(Events) /\ Bounded' /\ OldestFirst'
         /\ Range(pending') = Range(pending) \ {e}
<1>0. TypeOK /\ Bounded /\ OldestFirst
  BY DEF IInv
<1>1. PICK i \in indexOf(e) : removeAt(i)
  OBVIOUS
<1>2. /\ pending' \in Seq(Events)
      /\ Len(pending') = Len(pending) - 1
      /\ OldestFirst'
      /\ Range(pending') = Range(pending) \ {e}
  BY <1>0, <1>1, RemoveEffect
<1>3. Len(pending) \in Nat
  BY <1>0, PendingView
<1>4. Bounded'
  BY <1>0, <1>2, <1>3, QueueAssumption, SMT DEF Bounded
<1> QED BY <1>2, <1>4

\* What one iteration of the settling loop does to the queue: the event has
\* left it, delivered or lost, or its failure is counted.
LEMMA SettleEffect ==
  ASSUME IInv, NEW e \in Events, Settle(e)
  PROVE  /\ pending' \in Seq(Events) /\ Bounded' /\ OldestFirst'
         /\ Range(pending') \subseteq Range(pending)
         /\ Range(pending) \subseteq Range(pending') \cup sent \cup lost'
         /\ lost \subseteq lost' /\ lost' \subseteq Events
         /\ wait' \in [Events -> Nat]
         /\ attempts' \in [Events -> 0..MaxRetries]
         /\ \A f \in Events : f # e => attempts'[f] = attempts[f]
         /\ \/ e \notin Range(pending') /\ attempts' = attempts
            \/ e \in failed /\ e \in Range(pending) /\ attempts'[e] = attempts[e] + 1
<1>0. /\ TypeOK /\ Bounded /\ OldestFirst /\ RoundInv
  BY DEF IInv
<1>1. Range(pending) = {pending[i] : i \in 1..Len(pending)} /\ Len(pending) \in Nat
  BY <1>0, SeqView DEF TypeOK
<1>2. CASE Skip(e)
  <2>1. UNCHANGED <<pending, attempts, wait, lost>>
    BY <1>2 DEF Skip, queueVars
  <2>2. e \notin Range(pending)
    BY <1>1, <1>2 DEF Skip, indexOf
  <2> QED BY <1>0, <2>1, <2>2 DEF TypeOK, Bounded, OldestFirst
<1>3. CASE Delivered(e)
  <2>1. /\ pending' \in Seq(Events) /\ Bounded' /\ OldestFirst'
        /\ Range(pending') = Range(pending) \ {e}
    BY <1>3, RemovalIInv DEF Delivered
  <2>2. UNCHANGED <<attempts, wait, lost>> /\ e \in sent
    BY <1>0, <1>3 DEF Delivered, RoundInv
  <2> QED BY <1>0, <2>1, <2>2 DEF TypeOK
<1>4. CASE Reschedule(e)
  <2>1. /\ UNCHANGED <<pending, lost>>
        /\ e \in failed
        /\ indexOf(e) # {}
        /\ attempts[e] < MaxRetries
        /\ attempts' = [attempts EXCEPT ![e] = @ + 1]
        /\ wait' = [wait EXCEPT ![e] = backoff(attempts[e] + 1)]
    BY <1>4 DEF Reschedule, MayRetry
  <2>2. e \in Range(pending)
    BY <1>1, <2>1 DEF indexOf
  <2>3. attempts[e] \in Nat /\ attempts[e] + 1 \in 1..MaxRetries
    BY <1>0, <2>1, QueueAssumption, SMT DEF TypeOK
  <2>4. backoff(attempts[e] + 1) \in Nat
    BY <2>3, QueueAssumption
  <2>5. wait' \in [Events -> Nat]
    BY <1>0, <2>1, <2>4 DEF TypeOK
  <2>6. /\ attempts' \in [Events -> 0..MaxRetries]
        /\ attempts'[e] = attempts[e] + 1
        /\ \A f \in Events : f # e => attempts'[f] = attempts[f]
    BY <1>0, <2>1, <2>3, QueueAssumption, SMT DEF TypeOK
  <2> QED BY <1>0, <2>1, <2>2, <2>5, <2>6 DEF TypeOK, Bounded, OldestFirst
<1>5. CASE GiveUp(e)
  <2>1. /\ pending' \in Seq(Events) /\ Bounded' /\ OldestFirst'
        /\ Range(pending') = Range(pending) \ {e}
    BY <1>5, RemovalIInv DEF GiveUp
  <2>2. UNCHANGED <<attempts, wait>> /\ lost' = lost \cup {e}
    BY <1>5 DEF GiveUp
  <2> QED BY <1>0, <2>1, <2>2 DEF TypeOK
<1> QED BY <1>2, <1>3, <1>4, <1>5 DEF Settle

\* Settle: the counters agree again for the event that was settled.
LEMMA SettleIInv ==
  ASSUME IInv, NEW e \in Events, Settle(e)
  PROVE  IInv'
<1>0. /\ TypeOK /\ Bounded /\ OldestFirst /\ NothingVanishes /\ RetryBudget /\ RoundInv
  BY DEF IInv
<1>1. /\ wpc = "settling" /\ e \in ok \cup failed
      /\ ok' = ok \ {e} /\ failed' = failed \ {e}
      /\ UNCHANGED <<todo, stopCh, ctxDone, stopper, sent, tries>>
      /\ wpc' = IF ok' \cup failed' = {} THEN "select" ELSE "settling"
      /\ enqueued' = enqueued
  BY DEF Settle, Oldest, controlVars, Skip, Delivered, Reschedule, GiveUp, queueVars
<1>2. /\ pending' \in Seq(Events) /\ Bounded' /\ OldestFirst'
      /\ Range(pending') \subseteq Range(pending)
      /\ Range(pending) \subseteq Range(pending') \cup sent \cup lost'
      /\ lost \subseteq lost' /\ lost' \subseteq Events
      /\ wait' \in [Events -> Nat]
      /\ attempts' \in [Events -> 0..MaxRetries]
      /\ \A f \in Events : f # e => attempts'[f] = attempts[f]
      /\ \/ e \notin Range(pending') /\ attempts' = attempts
         \/ e \in failed /\ e \in Range(pending) /\ attempts'[e] = attempts[e] + 1
  BY SettleEffect
<1>3. TypeOK'
  BY <1>0, <1>1, <1>2, SMTT(30) DEF TypeOK
<1>4. NothingVanishes' /\ RetryBudget'
  BY <1>0, <1>1, <1>2 DEF NothingVanishes, RetryBudget
<1>5. RoundInv'
  <2>1. /\ Range(pending') \cup todo \cup ok' \cup failed' \cup sent \subseteq 1..enqueued
        /\ todo = {}
        /\ wpc' \in {"select", "settling"}
        /\ wpc' \notin {"publishing", "settling"} => ok' = {} /\ failed' = {}
        /\ ok' \subseteq sent
        /\ failed' \cap sent = {}
        /\ stopper # "returned"
    BY <1>0, <1>1, <1>2 DEF RoundInv
  <2>2. Range(pending') \cap sent \subseteq ok'
    BY <1>0, <1>1, <1>2 DEF RoundInv
  <2>3. \A f \in Events : f > enqueued => attempts'[f] = 0 /\ tries[f] = 0
    <3>1. ~(e > enqueued) /\ enqueued \in Nat
      BY <1>0, <1>1, QueueAssumption, SMT DEF RoundInv, TypeOK
    <3> QED BY <1>0, <1>2, <3>1 DEF RoundInv
  <2>4. InFlight' = ok' \cup failed'
    BY <2>1 DEF InFlight
  <2>5. \A f \in Range(pending') \cup ok' \cup failed' :
           tries[f] = attempts'[f] + (IF f \in ok' \cup failed' THEN 1 ELSE 0)
    <3> SUFFICES ASSUME NEW f \in Range(pending') \cup ok' \cup failed'
                 PROVE  tries[f] = attempts'[f] + (IF f \in ok' \cup failed' THEN 1 ELSE 0)
      OBVIOUS
    <3>1. f \in Range(pending) \cup ok \cup failed /\ f \in Events
      <4>1. 1..enqueued \subseteq Events
        BY <1>0, QueueAssumption, SMT DEF TypeOK, Events
      <4> QED BY <1>0, <1>1, <1>2, <4>1 DEF RoundInv
    <3>2. tries[f] = attempts[f] + (IF f \in ok \cup failed THEN 1 ELSE 0)
      BY <1>0, <1>1, <3>1 DEF RoundInv, InFlight
    <3>3. CASE f # e
      BY <1>1, <1>2, <3>1, <3>2, <3>3
    <3>4. CASE f = e
      <4>1. attempts[e] \in Nat
        BY <1>0, QueueAssumption, SMT DEF TypeOK
      <4> QED BY <1>1, <1>2, <3>2, <3>4, <4>1, SMT
    <3> QED BY <3>3, <3>4
  <2> QED BY <1>1, <2>1, <2>2, <2>3, <2>4, <2>5 DEF RoundInv
<1> QED BY <1>2, <1>3, <1>4, <1>5 DEF IInv

\* The invariant speaks of the variables only.
LEMMA StutterIInv == IInv /\ UNCHANGED vars => IInv'
BY ZenonT(30) DEF IInv, TypeOK, Bounded, OldestFirst, NothingVanishes, RetryBudget, RoundInv, InFlight,
       vars, queueVars, roundVars, controlVars, historyVars

\* Every step keeps the inductive invariant.
LEMMA NextIInv == IInv /\ [Next]_vars => IInv'
<1> SUFFICES ASSUME IInv, [Next]_vars PROVE IInv'
  OBVIOUS
<1>1. CASE Enqueue
  BY <1>1, EnqueueIInv
<1>2. CASE Tick \/ Start \/ Exit \/ TickerFires \/ Collect \/ Stop \/ StopReturns \/ Cancel
  BY <1>2, ControlIInv
<1>3. ASSUME NEW e \in Events, Publish(e) PROVE IInv'
  BY <1>3, PublishIInv
<1>4. ASSUME NEW e \in Events, Settle(e) PROVE IInv'
  BY <1>4, SettleIInv
<1>5. CASE UNCHANGED vars
  BY <1>5, StutterIInv
<1> QED BY <1>1, <1>2, <1>3, <1>4, <1>5 DEF Next

\* The invariant holds in every reachable state.
THEOREM Invariance == Spec => []IInv
BY InitIInv, NextIInv, PTL DEF Spec

-----------------------------------------------------------------------------
(***************************************************************************)
(* The properties                                                          *)
(***************************************************************************)
\* Every variable keeps its type; in particular no event is rescheduled more
\* than maxRetries times.
THEOREM TypeCorrect == Spec => []TypeOK
<1>1. IInv => TypeOK
  BY DEF IInv
<1> QED BY <1>1, Invariance, PTL

\* Enqueue never lets the queue grow beyond maxSize.
THEOREM AlwaysBounded == Spec => []Bounded
<1>1. IInv => Bounded
  BY DEF IInv
<1> QED BY <1>1, Invariance, PTL

\* pending[0], which Enqueue drops when the queue is full, is the oldest event.
THEOREM AlwaysOldestFirst == Spec => []OldestFirst
<1>1. IInv => OldestFirst
  BY DEF IInv
<1> QED BY <1>1, Invariance, PTL

\* An enqueued event is pending, accepted by the bus or reported as lost.
THEOREM NothingEverVanishes == Spec => []NothingVanishes
<1>1. IInv => NothingVanishes
  BY DEF IInv
<1> QED BY <1>1, Invariance, PTL

\* No event is published more than maxRetries + 1 times by the worker.
THEOREM BudgetKept == Spec => []RetryBudget
<1>1. IInv => RetryBudget
  BY DEF IInv
<1> QED BY <1>1, Invariance, PTL

\* Which Publish calls a step makes: only of an event that is due and that the
\* bus has not accepted yet.
LEMMA TriesStep ==
  ASSUME IInv, [Next]_vars
  PROVE  /\ \A e \in Events : tries'[e] # tries[e] => wait[e] = 0 /\ e \notin sent
         /\ tries' # tries => wpc = "publishing"
<1>1. ASSUME NEW e \in Events, Publish(e)
      PROVE  /\ \A f \in Events : tries'[f] # tries[f] => wait[f] = 0 /\ f \notin sent
             /\ wpc = "publishing"
  BY <1>1, SMT DEF IInv, TypeOK, RoundInv, Publish, Oldest
<1>2. CASE UNCHANGED tries
  BY <1>2
<1> QED BY <1>1, <1>2 DEF Next, vars, Enqueue, Tick, Start, Exit, TickerFires, Collect, Settle,
                          Stop, StopReturns, Cancel, historyVars

\* The queue never publishes an event again once the bus has accepted it.
THEOREM NeverDuplicates == Spec => NoDuplicate
<1>1. IInv /\ [Next]_vars => [\A e \in sent : tries'[e] = tries[e]]_vars
  <2> SUFFICES ASSUME IInv, [Next]_vars, NEW e \in sent PROVE tries'[e] = tries[e]
    OBVIOUS
  <2>1. e \in Events
    BY DEF IInv, TypeOK
  <2> QED BY <2>1, TriesStep
<1> QED BY <1>1, Invariance, PTL DEF Spec, NoDuplicate

\* The queue never publishes an event before its backoff has elapsed.
THEOREM BackoffKept == Spec => BackoffRespected
<1>1. IInv /\ [Next]_vars => [\A e \in Events : tries'[e] # tries[e] => wait[e] = 0]_vars
  BY TriesStep
<1> QED BY <1>1, Invariance, PTL DEF Spec, BackoffRespected

\* Once Stop has returned only Enqueue changes the queue: the worker has exited.
THEOREM StopIsQuiet == Spec => QuietAfterStop
<1>1. IInv /\ [Next]_vars =>
        [stopper = "returned" /\ enqueued' = enqueued
            => UNCHANGED <<pending, attempts, historyVars>>]_vars
  <2> SUFFICES ASSUME IInv, [Next]_vars, stopper = "returned", enqueued' = enqueued
               PROVE  UNCHANGED <<pending, attempts, historyVars>>
    OBVIOUS
  <2>1. wpc = "exited" /\ enqueued \in Nat
    BY QueueAssumption, SMT DEF IInv, RoundInv, TypeOK
  <2>2. ~Enqueue
    BY <2>1, SMT DEF Enqueue
  <2>3. \A e \in Events : ~Publish(e) /\ ~Settle(e)
    BY <2>1 DEF Publish, Settle
  <2> QED BY <2>2, <2>3 DEF Next, vars, Tick, Start, Exit, TickerFires, Collect, Stop,
                            StopReturns, Cancel, queueVars, historyVars
<1> QED BY <1>1, Invariance, PTL DEF Spec, QuietAfterStop

-----------------------------------------------------------------------------
(***************************************************************************)
(* Refinement                                                              *)
(***************************************************************************)
\* An empty queue is an empty buffer.
LEMMA InitPromise == Init => Promise!Init
BY DEF Init, Promise!Init

\* Enqueue hands an event over.
LEMMA EnqueueSubmits == IInv /\ Enqueue => Promise!Submit
<1> SUFFICES ASSUME IInv, Enqueue PROVE Promise!Submit
  OBVIOUS
<1>1. Len(pending) \in Nat /\ Len(pending) <= MaxSize
  BY PendingView DEF IInv, Bounded
<1>2. CASE Full
  <2>1. Len(pending) = MaxSize
    BY <1>1, <1>2, QueueAssumption, SMT DEF Full
  <2> QED BY <1>2, <2>1 DEF Enqueue, Promise!Submit
<1>3. CASE ~Full
  <2>1. Len(pending) < MaxSize
    BY <1>1, <1>3, QueueAssumption, SMT DEF Full
  <2> QED BY <1>3, <2>1 DEF Enqueue, Promise!Submit
<1> QED BY <1>2, <1>3

\* A removal releases the event, as lost unless the bus has it.
LEMMA RemovalReleases ==
  ASSUME IInv, NEW e \in Events, \E i \in indexOf(e) : removeAt(i),
         lost' = IF e \in sent THEN lost ELSE lost \cup {e},
         UNCHANGED <<enqueued, sent>>
  PROVE  Promise!Next
<1>1. PICK i \in indexOf(e) : removeAt(i)
  OBVIOUS
<1>2. i \in 1..Len(pending) /\ pending[i] = e
  BY DEF indexOf
<1>3. Len(pending) \in Nat /\ Len(pending) <= MaxSize
  BY PendingView DEF IInv, Bounded
<1>4. i \in 1..MaxSize
  BY <1>2, <1>3, QueueAssumption, SMT
<1>5. Promise!Release(i)
  BY <1>1, <1>2 DEF Promise!Release, removeAt
<1> QED BY <1>4, <1>5 DEF Promise!Next

\* Every step of the queue is a step of the buffer or leaves it alone.
LEMMA NextPromise == IInv /\ [Next]_vars => [Promise!Next]_Promise!vars
<1> SUFFICES ASSUME IInv, [Next]_vars PROVE [Promise!Next]_Promise!vars
  OBVIOUS
<1>1. CASE Enqueue
  BY <1>1, EnqueueSubmits DEF Promise!Next
<1>2. CASE Tick \/ Start \/ Exit \/ TickerFires \/ Collect \/ Stop \/ StopReturns \/ Cancel
  BY <1>2 DEF Tick, Start, Exit, TickerFires, Collect, Stop, StopReturns, Cancel,
              queueVars, historyVars, Promise!vars
<1>3. ASSUME NEW e \in Events, Publish(e) PROVE [Promise!Next]_Promise!vars
  <2>1. e \in 1..enqueued /\ e \notin sent /\ e \in 1..MaxEnqueues
    BY <1>3 DEF IInv, RoundInv, Publish, Oldest, Events
  <2>2. CASE sent' = sent \cup {e}
    <3>1. Promise!Deliver(e)
      BY <1>3, <2>1, <2>2 DEF Publish, queueVars, Promise!Deliver
    <3> QED BY <2>1, <3>1 DEF Promise!Next
  <2>3. CASE sent' = sent
    BY <1>3, <2>3 DEF Publish, queueVars, Promise!vars
  <2> QED BY <1>3, <2>2, <2>3 DEF Publish
<1>4. ASSUME NEW e \in Events, Settle(e) PROVE [Promise!Next]_Promise!vars
  <2>1. CASE Skip(e) \/ Reschedule(e)
    BY <1>4, <2>1 DEF Settle, Skip, Reschedule, queueVars, Promise!vars
  <2>2. CASE Delivered(e)
    <3>1. e \in sent
      BY <2>2 DEF Delivered, IInv, RoundInv
    <3> QED BY <1>4, <2>2, <3>1, RemovalReleases DEF Settle, Delivered
  <2>3. CASE GiveUp(e)
    <3>1. e \notin sent
      BY <2>3 DEF GiveUp, IInv, RoundInv
    <3> QED BY <1>4, <2>3, <3>1, RemovalReleases DEF Settle, GiveUp
  <2> QED BY <1>4, <2>1, <2>2, <2>3 DEF Settle
<1>5. CASE UNCHANGED vars
  BY <1>5 DEF vars, queueVars, historyVars, Promise!vars
<1> QED BY <1>1, <1>2, <1>3, <1>4, <1>5 DEF Next

\* The queue with its worker, its rounds and its delays implements the bounded
\* best-effort buffer its clients rely on.
THEOREM QueueImplementsPromise == Spec => ImplementsPromise
BY InitPromise, Invariance, NextPromise, PTL DEF Spec, ImplementsPromise, Promise!Spec

=============================================================================
