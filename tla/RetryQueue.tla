----------------------------- MODULE RetryQueue -----------------------------
(***************************************************************************)
(* admin.PublishRetryQueue: the bounded in-memory buffer of events whose   *)
(* publication failed, and the single goroutine that publishes them again. *)
(*                                                                         *)
(* A pendingEvent is a pointer to a fresh allocation, so it is named by    *)
(* its rank in the order of the Enqueue calls: event 1 is the first one    *)
(* ever enqueued.  What the event says plays no part here.                 *)
(*                                                                         *)
(* Time: wait[e] is nextAttemptAt minus the present, cut off at 0, so      *)
(* "nextAttemptAt is not after now" is wait[e] = 0 and no clock has to be  *)
(* bounded.  Two readings of the clock are taken to differ.                *)
(*                                                                         *)
(* X_Variant, next to a definition X, is X with a plausible slip.  Nothing *)
(* uses it: it serves to show that a property notices the slip.            *)
(***************************************************************************)
EXTENDS Naturals, Sequences, Functions

CONSTANTS
    MaxSize,      \* q.maxSize
    MaxRetries,   \* q.maxRetries
    BaseBackoff,  \* q.baseBackoff, in units of the model's clock
    MaxEnqueues   \* bound of the model: number of Enqueue calls

\* q.backoff: baseBackoff * 2^(attempts-1).
backoff(n) == BaseBackoff * 2^(n - 1)

\* The queue has room for one event (pending[0] exists when it is full), and
\* the delay before every retry is a duration that does not overflow.
ASSUME QueueAssumption ==
    /\ MaxSize \in Nat \ {0}
    /\ MaxRetries \in Nat
    /\ MaxEnqueues \in Nat
    /\ \A n \in 1..MaxRetries : backoff(n) \in Nat

Events == 1..MaxEnqueues

VARIABLES
    pending,   \* q.pending, oldest first
    attempts,  \* pe.attempts
    wait,      \* pe.nextAttemptAt - now, cut off at 0
    enqueued,  \* number of Enqueue calls so far
    wpc,       \* where the worker goroutine is
    todo,      \* events of the round still to be published
    ok,        \* events of the round with errs[i] = nil, not yet settled
    failed,    \* events of the round with errs[i] # nil, not yet settled
    stopCh,    \* q.stopCh is closed
    ctxDone,   \* the context given to Start is cancelled
    stopper,   \* the caller of Stop
    sent,      \* history: events with a successful Publish
    lost,      \* history: events reported by a CRITICAL log line
    tries      \* history: number of Publish calls per event

queueVars   == <<pending, attempts, wait, enqueued>>
roundVars   == <<todo, ok, failed>>
controlVars == <<stopCh, ctxDone, stopper>>
historyVars == <<sent, lost, tries>>
vars == <<queueVars, wpc, roundVars, controlVars, historyVars>>

TypeOK ==
    /\ pending \in Seq(Events)
    /\ attempts \in [Events -> 0..MaxRetries]
    /\ wait \in [Events -> Nat]
    /\ enqueued \in 0..MaxEnqueues
    /\ wpc \in {"unstarted", "select", "sampled", "publishing", "settling", "exited"}
    /\ todo \in SUBSET Events
    /\ ok \in SUBSET Events
    /\ failed \in SUBSET Events
    /\ stopCh \in BOOLEAN
    /\ ctxDone \in BOOLEAN
    /\ stopper \in {"idle", "waiting", "returned"}
    /\ sent \in SUBSET Events
    /\ lost \in SUBSET Events
    /\ tries \in [Events -> Nat]

Init ==
    /\ pending = <<>>
    /\ attempts = [e \in Events |-> 0]
    /\ wait = [e \in Events |-> 0]
    /\ enqueued = 0
    /\ wpc = "unstarted"
    /\ todo = {} /\ ok = {} /\ failed = {}
    /\ stopCh = FALSE /\ ctxDone = FALSE /\ stopper = "idle"
    /\ sent = {} /\ lost = {}
    /\ tries = [e \in Events |-> 0]

-----------------------------------------------------------------------------
\* q.mu is held across several steps only while the worker applies the
\* results of a round; its other critical sections are single steps.
LockHeld_WhilePublishing == wpc \in {"publishing", "settling"}
LockHeld == wpc = "settling"

Full_OffByOne == Len(pending) > MaxSize
Full == Len(pending) >= MaxSize

\* Enqueue: drop the oldest pending event if the queue is full, append.
Enqueue ==
    /\ ~LockHeld
    /\ enqueued < MaxEnqueues
    /\ enqueued' = enqueued + 1
    /\ pending' = Append(IF Full THEN Tail(pending) ELSE pending, enqueued + 1)
    /\ lost' = IF Full THEN lost \cup {Head(pending)} ELSE lost
    /\ UNCHANGED <<attempts, wait, wpc, roundVars, controlVars, sent, tries>>

\* The present moves on.
Tick ==
    /\ \E e \in Events : wait[e] > 0
    /\ wait' = [e \in Events |-> IF wait[e] > 0 THEN wait[e] - 1 ELSE 0]
    /\ UNCHANGED <<pending, attempts, enqueued, wpc, roundVars, controlVars, historyVars>>

Start ==
    /\ wpc = "unstarted"
    /\ wpc' = "select"
    /\ UNCHANGED <<queueVars, roundVars, controlVars, historyVars>>

-----------------------------------------------------------------------------
Exit_ContextOnly ==
    /\ wpc = "select"
    /\ ctxDone
    /\ wpc' = "exited"
    /\ UNCHANGED <<queueVars, roundVars, controlVars, historyVars>>

\* run: the cases ctx.Done() and stopCh of the select; doneCh is closed.
Exit ==
    /\ wpc = "select"
    /\ ctxDone \/ stopCh
    /\ wpc' = "exited"
    /\ UNCHANGED <<queueVars, roundVars, controlVars, historyVars>>

Due_Always(e) == TRUE
Due_Negated(e) == wait[e] > 0
Due(e) == wait[e] = 0

\* run: the case ticker.C; retryDue reads the clock before it takes the lock,
\* so an event enqueued in between is not due in this round.
TickerFires ==
    /\ wpc = "select"
    /\ wpc' = "sampled"
    /\ todo' = {e \in 1..enqueued : Due(e)}
    /\ UNCHANGED <<queueVars, ok, failed, controlVars, historyVars>>

\* retryDue: collect, under the lock, the pending events that are due.
Collect ==
    /\ wpc = "sampled"
    /\ todo' = todo \cap Range(pending)
    /\ wpc' = IF todo' = {} THEN "select" ELSE "publishing"
    /\ UNCHANGED <<queueVars, ok, failed, controlVars, historyVars>>

Oldest(e, S) == e \in S /\ \A f \in S : e <= f

\* retryDue: one bus.Publish outside the lock, oldest event first (pending is
\* ordered by age, see OldestFirst); the bus accepts the event or it fails.
Publish(e) ==
    /\ wpc = "publishing"
    /\ Oldest(e, todo)
    /\ todo' = todo \ {e}
    /\ tries' = [tries EXCEPT ![e] = @ + 1]
    /\ \/ ok' = ok \cup {e} /\ sent' = sent \cup {e} /\ UNCHANGED failed
       \/ failed' = failed \cup {e} /\ UNCHANGED <<ok, sent>>
    /\ wpc' = IF todo' = {} THEN "settling" ELSE "publishing"
    /\ UNCHANGED <<queueVars, controlVars, lost>>

-----------------------------------------------------------------------------
indexOf_Stale(e) == IF pending = <<>> THEN {} ELSE {1}
indexOf(e) == {i \in 1..Len(pending) : pending[i] = e}

removeAt_Swap(i) ==
    pending' = [j \in 1..(Len(pending) - 1) |->
                   IF j = i THEN pending[Len(pending)] ELSE pending[j]]
removeAt(i) == pending' = SubSeq(pending, 1, i - 1) \o SubSeq(pending, i + 1, Len(pending))

MayRetry_OffByOne(e) == attempts[e] <= MaxRetries
MayRetry(e) == attempts[e] < MaxRetries

\* indexOf returned -1: Enqueue dropped the event in the meantime.
Skip(e) ==
    /\ indexOf(e) = {}
    /\ UNCHANGED <<queueVars, lost>>

Delivered_Kept(e) ==
    /\ e \in ok
    /\ indexOf(e) # {}
    /\ UNCHANGED <<queueVars, lost>>

Delivered(e) ==
    /\ e \in ok
    /\ \E i \in indexOf(e) : removeAt(i)
    /\ UNCHANGED <<attempts, wait, enqueued, lost>>

Reschedule(e) ==
    /\ e \in failed
    /\ indexOf(e) # {}
    /\ MayRetry(e)
    /\ attempts' = [attempts EXCEPT ![e] = @ + 1]
    /\ wait' = [wait EXCEPT ![e] = backoff(attempts[e] + 1)]
    /\ UNCHANGED <<pending, enqueued, lost>>

GiveUp(e) ==
    /\ e \in failed
    /\ ~MayRetry(e)
    /\ \E i \in indexOf(e) : removeAt(i)
    /\ lost' = lost \cup {e}
    /\ UNCHANGED <<attempts, wait, enqueued>>

\* retryDue: one iteration of the loop that applies the results of the round,
\* the lock being held from the first iteration to the last.
Settle(e) ==
    /\ wpc = "settling"
    /\ Oldest(e, ok \cup failed)
    /\ Skip(e) \/ Delivered(e) \/ Reschedule(e) \/ GiveUp(e)
    /\ ok' = ok \ {e}
    /\ failed' = failed \ {e}
    /\ wpc' = IF ok' \cup failed' = {} THEN "select" ELSE "settling"
    /\ UNCHANGED <<todo, controlVars, sent, tries>>

-----------------------------------------------------------------------------
\* Stop, called once and after Start as its comment demands: close(q.stopCh).
Stop ==
    /\ wpc # "unstarted"
    /\ stopper = "idle"
    /\ stopCh' = TRUE
    /\ stopper' = "waiting"
    /\ UNCHANGED <<queueVars, wpc, roundVars, ctxDone, historyVars>>

doneCh_NotAwaited == TRUE
doneCh == wpc = "exited"

\* Stop: <-q.doneCh.
StopReturns ==
    /\ stopper = "waiting"
    /\ doneCh
    /\ stopper' = "returned"
    /\ UNCHANGED <<queueVars, wpc, roundVars, stopCh, ctxDone, historyVars>>

\* The owner of the context cancels it.
Cancel ==
    /\ ~ctxDone
    /\ ctxDone' = TRUE
    /\ UNCHANGED <<queueVars, wpc, roundVars, stopCh, stopper, historyVars>>

Next ==
    \/ Enqueue \/ Tick \/ Start \/ Exit \/ TickerFires \/ Collect
    \/ \E e \in Events : Publish(e) \/ Settle(e)
    \/ Stop \/ StopReturns \/ Cancel

Spec == Init /\ [][Next]_vars

-----------------------------------------------------------------------------
PublishStep == \E e \in Events : Publish(e)
SettleStep  == \E e \in Events : Settle(e)

\* What holds whatever the event bus does: time passes, the worker goroutine
\* is scheduled, and a select that meets a closed channel again and again does
\* not pick the ticker for ever (Go chooses among the ready cases at random).
WorkerFairness ==
    /\ WF_vars(Tick) /\ WF_vars(TickerFires) /\ WF_vars(Collect)
    /\ WF_vars(SettleStep) /\ SF_vars(Exit) /\ WF_vars(StopReturns)

\* A Publish call of the worker may never return.
FairSpec == Spec /\ WorkerFairness

\* Every Publish call of the worker returns, with or without an error.
BusAnswers == WF_vars(PublishStep)

-----------------------------------------------------------------------------
(***************************************************************************)
(* Safety                                                                  *)
(***************************************************************************)
\* The queue never holds more than maxSize events, whatever the interleaving
\* of Enqueue with a round of the worker (Enqueue, "a bounded, best-effort
\* buffer").
Bounded == Len(pending) <= MaxSize

\* pending[0] is the oldest event the queue holds: Enqueue relies on it when
\* it decides what to drop, and removeAt has to preserve it.
OldestFirst ==
    \A i, j \in 1..Len(pending) : i < j => pending[i] < pending[j]

\* No event disappears without a trace: one that was enqueued is still
\* pending, was accepted by the bus, or was reported by a CRITICAL log line.
NothingVanishes == 1..enqueued \subseteq Range(pending) \cup sent \cup lost

\* The worker publishes an event at most maxRetries + 1 times, also when the
\* event is dropped by Enqueue while a round is publishing it.
RetryBudget == \A e \in Events : tries[e] <= MaxRetries + 1

\* An event the bus accepted is never published again by the queue, although
\* it stays in pending until the round is settled.
NoDuplicate == [][\A e \in sent : tries'[e] = tries[e]]_vars

\* An event is published only when its backoff has elapsed, although the
\* round reads the clock, takes the lock and publishes at different times.
BackoffRespected ==
    [][\A e \in Events : tries'[e] # tries[e] => wait[e] = 0]_vars

\* Once Stop has returned, the worker neither publishes nor touches the queue:
\* only Enqueue still changes it.
QuietAfterStop ==
    [][stopper = "returned" /\ enqueued' = enqueued =>
          UNCHANGED <<pending, attempts, historyVars>>]_vars

\* The queue implements the promise made to its clients.
Promise == INSTANCE BestEffortQueue WITH
    Capacity <- MaxSize, Bound <- MaxEnqueues, submitted <- enqueued,
    waiting <- pending, delivered <- sent

ImplementsPromise == Promise!Spec

\* The inductive invariant behind the properties above.  Between Publish and
\* Settle an event may be in pending although the bus has it (then it is in
\* ok), and Enqueue may have dropped it although its result is still to be
\* applied; tries runs ahead of attempts by one for exactly these events.
InFlight == ok \cup failed \cup (IF wpc = "publishing" THEN todo ELSE {})

RoundInv ==
    /\ Range(pending) \cup todo \cup ok \cup failed \cup sent \subseteq 1..enqueued
    /\ wpc \notin {"sampled", "publishing"} => todo = {}
    /\ wpc \notin {"publishing", "settling"} => ok = {} /\ failed = {}
    /\ wpc \in {"sampled", "publishing"} => \A e \in todo : wait[e] = 0
    /\ wpc = "publishing" => todo \cap (ok \cup failed \cup sent) = {}
    /\ ok \subseteq sent
    /\ failed \cap sent = {}
    /\ Range(pending) \cap sent \subseteq ok
    /\ stopper = "returned" => wpc = "exited"
    /\ \A e \in Events : e > enqueued => attempts[e] = 0 /\ tries[e] = 0
    /\ \A e \in Range(pending) \cup InFlight :
          tries[e] = attempts[e] + (IF e \in ok \cup failed THEN 1 ELSE 0)

(***************************************************************************)
(* Liveness                                                                *)
(***************************************************************************)
\* A slow or stuck EventBus never blocks Enqueue (comment of retryDue): the
\* lock is released again and again even if no Publish call ever returns.
EnqueueNotBlocked == []<>~LockHeld

\* If the bus answers, Stop returns, also when it is called in the middle of a
\* round.
StopEventuallyReturns ==
    BusAnswers => (stopper = "waiting" ~> stopper = "returned")

\* If the bus answers, an enqueued event does not stay pending for ever while
\* the worker runs: it is delivered or dropped, since every failure uses up one
\* of its retries.
EventuallySettled ==
    BusAnswers =>
        \A e \in Events :
            e \in Range(pending) ~> (e \notin Range(pending) \/ wpc \in {"exited", "unstarted"})

=============================================================================
