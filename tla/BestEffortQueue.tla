-------------------------- MODULE BestEffortQueue --------------------------
(***************************************************************************)
(* What admin.PublishRetryQueue promises to those who enqueue an event,    *)
(* without its worker, its rounds and its delays: a bounded buffer that    *)
(* gives up its oldest event when a new one finds it full, lets an event   *)
(* go only once it is delivered or reported lost, and delivers an event    *)
(* at most once.                                                           *)
(***************************************************************************)
EXTENDS Naturals, Sequences

CONSTANTS Capacity, Bound

VARIABLES
    submitted,  \* number of events handed over so far
    waiting,    \* events in the buffer, in the order they were handed over
    delivered,  \* events the bus accepted
    lost        \* events reported as lost

vars == <<submitted, waiting, delivered, lost>>

Init ==
    /\ submitted = 0
    /\ waiting = <<>>
    /\ delivered = {}
    /\ lost = {}

\* Enqueue.
Submit ==
    /\ submitted < Bound
    /\ submitted' = submitted + 1
    /\ \/ /\ Len(waiting) < Capacity
          /\ waiting' = Append(waiting, submitted + 1)
          /\ UNCHANGED lost
       \/ /\ Len(waiting) = Capacity
          /\ waiting' = Append(Tail(waiting), submitted + 1)
          /\ lost' = lost \cup {Head(waiting)}
    /\ UNCHANGED delivered

\* A publication succeeds; the buffer may have dropped the event meanwhile.
Deliver(e) ==
    /\ e \in 1..submitted
    /\ e \notin delivered
    /\ delivered' = delivered \cup {e}
    /\ UNCHANGED <<submitted, waiting, lost>>

\* An event leaves the buffer, delivered or else lost.
Release(i) ==
    /\ i \in 1..Len(waiting)
    /\ waiting' = SubSeq(waiting, 1, i - 1) \o SubSeq(waiting, i + 1, Len(waiting))
    /\ lost' = IF waiting[i] \in delivered THEN lost ELSE lost \cup {waiting[i]}
    /\ UNCHANGED <<submitted, delivered>>

Next ==
    \/ Submit
    \/ \E e \in 1..Bound : Deliver(e)
    \/ \E i \in 1..Capacity : Release(i)

Spec == Init /\ [][Next]_vars

=============================================================================
