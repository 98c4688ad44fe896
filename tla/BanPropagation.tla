--------------------------- MODULE BanPropagation ---------------------------
(***************************************************************************)
(* How a change of a tenant's state reaches a BanChecker: admin.Service    *)
(* over a MemoryStore, an EventBus, the retry queue and one instance's     *)
(* BanChecker with its startup snapshot.                                   *)
(*                                                                         *)
(* The retry queue appears as BestEffortQueue, the promise RetryQueue is   *)
(* proved to implement.  The bus may fail a Publish, may have delivered an *)
(* event whose Publish failed, starts one goroutine per event (so events   *)
(* overtake each other) and may lose an event that is on its way, as Redis *)
(* and NATS do.  All clocks agree, and no two readings are equal.          *)
(***************************************************************************)
EXTENDS BanChecker, Sequences, Functions

CONSTANTS
    Missing,               \* the id is not a key of the store
    Callers,               \* goroutines that call Ban, Disable or Activate
    QueueSize,             \* capacity of the retry queue; 0: none is configured
    MaxCalls               \* bound of the model: number of changes of the store

VARIABLES
    tenants,      \* MemoryStore
    now,          \* the last reading of the clock
    calls,        \* number of changes of the store
    call,         \* per caller: the transition in progress
    subscription, \* what bus.Subscribe answered to banchecker.New
    net,          \* events on their way to the handler of the BanChecker
    submitted, waiting, delivered, lost,  \* BestEffortQueue
    payload,      \* the event behind each rank of the queue
    raced,        \* history: tenants with two transitions between SetState and time.Now
    missed        \* history: tenants with a change that no event will bring

M  == INSTANCE MemoryStore
Q  == INSTANCE BestEffortQueue WITH Capacity <- QueueSize, Bound <- MaxCalls

adminVars == <<tenants, calls, call, raced>>
queueVars == <<submitted, waiting, delivered, lost, payload>>
busVars   == <<subscription, net, missed>>
propagationVars == <<adminVars, now, busVars, queueVars, checkerVars>>

Events == [id : Tenants, state : States, at : Times]

Calls == [step : {"stamp", "publish", "enqueue"}, id : Tenants, state : States, at : Times]

ASSUME PropagationAssumption ==
    /\ {"Active", "Banned"} \subseteq States
    /\ Missing \notin States
    /\ None \notin Calls
    /\ QueueSize \in Nat /\ MaxCalls \in Nat

PropagationTypeOK ==
    /\ M!TypeOK
    /\ CheckerTypeOK
    /\ now \in Times
    /\ calls \in 0..MaxCalls
    /\ call \in [Callers -> Calls \cup {None}]
    /\ subscription \in {"none", "active", "refused"}
    /\ net \in SUBSET Events
    /\ submitted \in 0..MaxCalls
    /\ waiting \in Seq(1..submitted)
    /\ delivered \in SUBSET (1..submitted)
    /\ lost \in SUBSET (1..submitted)
    /\ payload \in Seq(Events) /\ Len(payload) = submitted
    /\ raced \in SUBSET Tenants
    /\ missed \in SUBSET Tenants

\* The store holds tenants from earlier runs; everything else starts now.
PropagationInit ==
    /\ tenants \in [Tenants -> States \cup {Missing}]
    /\ now = 0
    /\ calls = 0
    /\ call = [c \in Callers |-> None]
    /\ subscription = "none"
    /\ net = {}
    /\ Q!Init
    /\ payload = <<>>
    /\ CheckerInit
    /\ raced = {}
    /\ missed = {}

-----------------------------------------------------------------------------
(***************************************************************************)
(* admin.Service                                                           *)
(***************************************************************************)
EventOf(c) == [id |-> call[c].id, state |-> call[c].state, at |-> call[c].at]

Stamping(id) == {c \in Callers : call[c] # None /\ call[c].step = "stamp" /\ call[c].id = id}

\* transition: SetState succeeds.  When it fails, transition returns the error
\* and nothing has changed.
SetState(c, id, state) ==
    /\ call[c] = None
    /\ calls < MaxCalls
    /\ M!SetState(id, state)
    /\ calls' = calls + 1
    /\ call' = [call EXCEPT ![c] = [step |-> "stamp", id |-> id, state |-> state, at |-> 0]]
    /\ raced' = IF Stamping(id) = {} THEN raced ELSE raced \cup {id}
    /\ UNCHANGED <<now, busVars, queueVars, checkerVars>>

Ban(c, id)      == SetState(c, id, "Banned")
Disable(c, id)  == "Disabled" \in States /\ SetState(c, id, "Disabled")
Activate(c, id) == SetState(c, id, "Active")

\* Somebody creates a tenant through AdminStore.
Create(id, state) ==
    /\ calls < MaxCalls
    /\ M!Create(id, state)
    /\ calls' = calls + 1
    /\ UNCHANGED <<call, raced, now, busVars, queueVars, checkerVars>>

\* Somebody replaces a tenant through AdminStore, its state included: no event
\* announces it.
Update(id, state) ==
    /\ calls < MaxCalls
    /\ M!Update(id, state)
    /\ calls' = calls + 1
    /\ missed' = missed \cup {id}
    /\ UNCHANGED <<call, raced, now, subscription, net, queueVars, checkerVars>>

\* transition: Timestamp: time.Now().
Stamp(c) ==
    /\ call[c] # None /\ call[c].step = "stamp"
    /\ now < MaxTime
    /\ now' = now + 1
    /\ call' = [call EXCEPT ![c] =
                   [step |-> "publish", id |-> @.id, state |-> @.state, at |-> now + 1]]
    /\ UNCHANGED <<tenants, calls, raced, busVars, queueVars, checkerVars>>

\* The bus hands an event to the handlers that are subscribed at this moment.
Dispatch(e) == net' = IF subscription = "active" THEN net \cup {e} ELSE net

\* transition: bus.Publish returns nil.
PublishOK(c) ==
    /\ call[c] # None /\ call[c].step = "publish"
    /\ Dispatch(EventOf(c))
    /\ call' = [call EXCEPT ![c] = None]
    /\ UNCHANGED <<tenants, calls, raced, now, subscription, missed, queueVars, checkerVars>>

PublishFails_Dropped(c) ==
    /\ call[c] # None /\ call[c].step = "publish"
    /\ Dispatch(EventOf(c)) \/ UNCHANGED net
    /\ call' = [call EXCEPT ![c] = None]
    /\ UNCHANGED <<tenants, calls, raced, now, subscription, missed, queueVars, checkerVars>>

\* transition: bus.Publish returns an error.  Without a retry queue the event
\* is logged and gone.
PublishFails(c) ==
    /\ call[c] # None /\ call[c].step = "publish"
    /\ Dispatch(EventOf(c)) \/ UNCHANGED net
    /\ \/ /\ QueueSize > 0
          /\ call' = [call EXCEPT ![c].step = "enqueue"]
          /\ UNCHANGED missed
       \/ /\ QueueSize = 0
          /\ call' = [call EXCEPT ![c] = None]
          /\ missed' = missed \cup {call[c].id}
    /\ UNCHANGED <<tenants, calls, raced, now, subscription, queueVars, checkerVars>>

\* transition: s.retryQueue.Enqueue(event), and the error is returned.
EnqueueEvent(c) ==
    /\ call[c] # None /\ call[c].step = "enqueue"
    /\ Q!Submit
    /\ payload' = Append(payload, EventOf(c))
    /\ call' = [call EXCEPT ![c] = None]
    /\ UNCHANGED <<tenants, calls, raced, now, busVars, checkerVars>>

-----------------------------------------------------------------------------
(***************************************************************************)
(* The retry queue and the bus                                             *)
(***************************************************************************)
QueueDelivers(e) ==
    /\ Q!Deliver(e)
    /\ Dispatch(payload[e])
    /\ UNCHANGED <<adminVars, now, subscription, missed, payload, checkerVars>>

\* A retry fails although the bus has passed the event on.  As in Deliver of
\* BestEffortQueue, the queue may have dropped the event meanwhile.
QueueFails(e) ==
    /\ e \in (1..submitted) \ delivered
    /\ Dispatch(payload[e])
    /\ UNCHANGED <<adminVars, now, subscription, missed, queueVars, checkerVars>>

QueueReleases(i) ==
    /\ Q!Release(i)
    /\ UNCHANGED <<adminVars, now, busVars, payload, checkerVars>>

\* The goroutine of an event enters the handler, BanChecker.handleEvent.
Receive(g, e) ==
    /\ e \in net
    /\ HandleEvent(g, e.id, e.state, e.at)
    /\ net' = net \ {e}
    /\ UNCHANGED <<adminVars, now, subscription, missed, queueVars>>

\* The broker, the connection or the decoder of the subscription loses it.
LoseEvent(e) ==
    /\ e \in net
    /\ net' = net \ {e}
    /\ missed' = missed \cup {e.id}
    /\ UNCHANGED <<adminVars, now, subscription, queueVars, checkerVars>>

-----------------------------------------------------------------------------
(***************************************************************************)
(* BanChecker                                                              *)
(***************************************************************************)
\* banchecker.New: the error of Subscribe is ignored.
SubscribeChecker ==
    /\ subscription = "none"
    /\ subscription' \in {"active", "refused"}
    /\ UNCHANGED <<adminVars, now, net, missed, queueVars, checkerVars>>

BeginLoad_BeforeSubscribe ==
    /\ now < MaxTime
    /\ now' = now + 1
    /\ \E ids \in SUBSET Tenants : LoadBegin(ids, now + 1)
    /\ UNCHANGED <<adminVars, busVars, queueVars>>

BeginLoad ==
    /\ subscription # "none"
    /\ now < MaxTime
    /\ now' = now + 1
    /\ \E ids \in SUBSET Tenants : LoadBegin(ids, now + 1)
    /\ UNCHANGED <<adminVars, busVars, queueVars>>

\* The loop of LoadInitialBannedList asks the MemoryStore; an unknown tenant
\* and a source that fails end it.
FetchState(id) ==
    /\ M!Found(id)
    /\ LoadFetch(id, M!IsBanned(id))
    /\ UNCHANGED <<adminVars, now, busVars, queueVars>>

LoadStep ==
    /\ \/ \E id \in Tenants : LoadError(id)
       \/ LoadApply
       \/ LoadEnd
    /\ UNCHANGED <<adminVars, now, busVars, queueVars>>

StoreReport(g) ==
    /\ Store(g)
    /\ UNCHANGED <<adminVars, now, busVars, queueVars>>

PropagationNext ==
    \/ \E c \in Callers :
          \/ \E id \in Tenants : Ban(c, id) \/ Disable(c, id) \/ Activate(c, id)
          \/ Stamp(c) \/ PublishOK(c) \/ PublishFails(c) \/ EnqueueEvent(c)
    \/ \E id \in Tenants, state \in States : Create(id, state) \/ Update(id, state)
    \/ \E e \in 1..MaxCalls : QueueDelivers(e) \/ QueueFails(e)
    \/ \E i \in 1..QueueSize : QueueReleases(i)
    \/ \E e \in net : LoseEvent(e) \/ \E g \in Handlers : Receive(g, e)
    \/ SubscribeChecker \/ BeginLoad
    \/ \E id \in Tenants : FetchState(id)
    \/ LoadStep
    \/ \E g \in Goroutines : StoreReport(g)

PropagationSpec == PropagationInit /\ [][PropagationNext]_propagationVars

-----------------------------------------------------------------------------
\* Nothing about this tenant is on its way to the table of the BanChecker.
Settled(id) ==
    /\ \A c \in Callers : call[c] # None => call[c].id # id
    /\ \A e \in net : e.id # id
    /\ \A e \in Range(waiting) : payload[e].id # id \/ e \in delivered
    /\ ~Busy(id)

\* A change of this tenant did not get an event, or the event was lost: after
\* an Update, a Publish that failed without a retry queue, an event the queue
\* gave up or the broker lost.
Missed(id) == id \in missed \/ \E e \in lost \ delivered : payload[e].id = id

\* The instance has completed its startup for this tenant.
Started(id) == subscription = "active" /\ lpc = "loaded" /\ id \in listed

\* Once everything about a tenant has settled, IsBanned says what the store
\* says: whatever the order of events, retries and the startup snapshot, and
\* although events published before Subscribe never arrive.  It takes that no
\* event was missed, that apply calls did not overlap (see BanChecker) and that
\* transitions of the tenant did not overlap (see AgreementDespiteRaces).
Agreement ==
    \A id \in Tenants :
        Started(id) /\ Settled(id) /\ ~Missed(id) /\ id \notin overlapped \cup raced
            => IsBanned(id) = M!IsBanned(id)

\* The same for transitions that overlap: what Ban ("immediately propagates
\* the change to all instances") and IsBanned ("whether a tenant is currently
\* banned") say without that restriction.
AgreementDespiteRaces ==
    \A id \in Tenants :
        Started(id) /\ Settled(id) /\ ~Missed(id) /\ id \notin overlapped
            => IsBanned(id) = M!IsBanned(id)

\* Every goroutine that can move does, and the worker of the queue delivers or
\* releases every event it holds (EventuallySettled of RetryQueue).
FairPropagationSpec ==
    /\ PropagationSpec
    /\ \A c \in Callers :
          /\ WF_propagationVars(Stamp(c))
          /\ WF_propagationVars(PublishOK(c) \/ PublishFails(c))
          /\ WF_propagationVars(EnqueueEvent(c))
    /\ \A i \in 1..QueueSize : WF_propagationVars(QueueReleases(i))
    /\ WF_propagationVars(\E e \in net : LoseEvent(e) \/ \E g \in Handlers : Receive(g, e))
    /\ \A g \in Goroutines : WF_propagationVars(StoreReport(g))

\* A ban takes effect on an instance that has started, unless it is lifted
\* first or its event is missed or loses a race.
BanTakesEffect ==
    \A id \in Tenants :
        M!IsBanned(id) /\ Started(id)
            ~> IsBanned(id) \/ ~M!IsBanned(id) \/ Missed(id) \/ id \in overlapped \cup raced

=============================================================================
