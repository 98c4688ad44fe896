--------------------------- MODULE ShutdownProofs ---------------------------
(***************************************************************************)
(* Proofs about what comes to an end: the event buses, for any number of   *)
(* Subscribe calls, Stop calls and messages and whichever backend is       *)
(* configured, and the reference server, for any set of requests.  For the *)
(* buses, first the subscription protocol that RedisEventBus and           *)
(* NATSEventBus share, then what they do with messages.                    *)
(***************************************************************************)
EXTENDS EventBuses, ReferenceServer, TLAPS

\* A leaf is tried with Zenon first; SMT marks those that need arithmetic or the
\* theory of functions, records and sequences.
USE Zenon, SMTT(30)

\* The inductive invariant of the protocol.
SInv == SubscriptionsOK /\ RegisteredInv

\* A bus that was just created (New).
LEMMA SubscriptionsInitInv == SubscriptionsInit => SInv
<1> SUFFICES ASSUME SubscriptionsInit PROVE SInv
  OBVIOUS
<1>1. SubscriptionsOK
  BY DEF SubscriptionsInit, SubscriptionsOK
<1>2. RegisteredInv
  BY DEF SubscriptionsInit, RegisteredInv, LockHeld, StopReturned
<1> QED
  BY <1>1, <1>2 DEF SInv

\* A step of Subscribe keeps the invariant; in particular, a subscription that
\* is confirmed after a Stop returned is not registered (the check of stopped).
LEMMA SubscribeInv ==
    ASSUME SInv, NEW s \in Subscribers, SubscribeStep(s)
    PROVE  SInv'
<1>0. SubscriptionsOK /\ RegisteredInv
  BY DEF SInv
<1>1. CASE Subscribe(s)
  BY <1>0, <1>1 DEF SInv, SubscriptionsOK, RegisteredInv, Subscribe, LockHeld, StopReturned
<1>2. CASE Confirmed(s)
  BY <1>0, <1>2 DEF SInv, SubscriptionsOK, RegisteredInv, Confirmed, LockHeld, StopReturned
<1>3. CASE Refused(s)
  BY <1>0, <1>3 DEF SInv, SubscriptionsOK, RegisteredInv, Refused, LockHeld, StopReturned
<1>4. CASE Register(s)
  BY <1>0, <1>4, SMT DEF SInv, SubscriptionsOK, RegisteredInv, Register, LockHeld, StopReturned
<1>5. CASE Abort(s)
  BY <1>0, <1>5 DEF SInv, SubscriptionsOK, RegisteredInv, Abort, LockHeld, StopReturned
<1> QED
  BY <1>1, <1>2, <1>3, <1>4, <1>5 DEF SubscribeStep

\* A step of Stop keeps the invariant: it closes what is registered before it
\* forgets it.
LEMMA StopInv ==
    ASSUME SInv, NEW k \in Stoppers, Stop(k) \/ StopStep(k)
    PROVE  SInv'
<1>0. SubscriptionsOK /\ RegisteredInv
  BY DEF SInv
<1>1. CASE Stop(k)
  BY <1>0, <1>1 DEF SInv, SubscriptionsOK, RegisteredInv, Stop, LockHeld, StopReturned
<1>2. CASE StopBegin(k)
  BY <1>0, <1>2 DEF SInv, SubscriptionsOK, RegisteredInv, StopBegin, LockHeld, StopReturned
<1>3. ASSUME NEW s \in Subscribers, StopClose(k, s) PROVE SInv'
  BY <1>0, <1>3 DEF SInv, SubscriptionsOK, RegisteredInv, StopClose, LockHeld, StopReturned
<1>4. CASE StopEnd(k)
  BY <1>0, <1>4 DEF SInv, SubscriptionsOK, RegisteredInv, StopEnd, LockHeld, StopReturned
<1> QED
  BY <1>1, <1>2, <1>3, <1>4 DEF StopStep

\* Other steps leave the protocol alone.
LEMMA StutterInv == SInv /\ UNCHANGED subscriptionVars => SInv'
  BY SMT DEF SInv, SubscriptionsOK, RegisteredInv, LockHeld, StopReturned, subscriptionVars

\* The invariant says that nothing leaks and that a stopped bus stays stopped.
LEMMA SInvImplies == SInv => NoLeak /\ NotReusable
  BY DEF SInv, RegisteredInv, NoLeak, NotReusable

\* A Stop that has returned has returned for good.
LEMMA StopReturnedStable ==
    ASSUME SInv, StopReturned,
           \/ UNCHANGED subscriptionVars
           \/ \E s \in Subscribers : SubscribeStep(s)
           \/ \E k \in Stoppers : Stop(k) \/ StopStep(k)
    PROVE  StopReturned'
  BY DEF SInv, SubscriptionsOK, StopReturned, subscriptionVars, SubscribeStep, Subscribe,
         Confirmed, Refused, Register, Abort, Stop, StopStep, StopBegin, StopClose, StopEnd

\* After a Stop has returned, no Subscribe call returns nil any more.
LEMMA NoLateSuccess ==
    ASSUME SInv, StopReturned,
           \/ \E s \in Subscribers : SubscribeStep(s)
           \/ \E k \in Stoppers : Stop(k) \/ StopStep(k)
           \/ UNCHANGED subscriptionVars,
           NEW t \in Subscribers, spc'[t] = "ok"
    PROVE  spc[t] = "ok"
  BY SMT DEF SInv, SubscriptionsOK, RegisteredInv, StopReturned, subscriptionVars, SubscribeStep,
         Subscribe, Confirmed, Refused, Register, Abort, Stop, StopStep, StopBegin, StopClose,
         StopEnd

-----------------------------------------------------------------------------
\* Each message that is held or was taken was published, and what was published
\* after a Stop returned is in no hand but that of a Subscribe call that will
\* not return nil.  With Redis, a background goroutine belongs to a Subscribe
\* call that returned nil, and so does whatever was taken.
DeliveryInv ==
    /\ \A s \in Subscribers : loop[s] # "none" => spc[s] = "ok"
    /\ backend = "redis" => \A s \in Subscribers, m \in Messages : <<s, m>> \in handled => spc[s] = "ok"
    /\ \A s \in Subscribers, m \in Messages :
          m \in inbox[s] \/ <<s, m>> \in handled => m \in published
    /\ afterStop # {} => StopReturned
    /\ \A s \in Subscribers, m \in afterStop :
          spc[s] = "ok" => m \notin inbox[s] /\ <<s, m>> \notin handled

\* The inductive invariant of the buses.
IInv == backend \in {"redis", "nats"} /\ TypeOK /\ RegisteredInv /\ DeliveryInv

\* A bus that was just created.
LEMMA InitIInv == BusInit => IInv
<1> SUFFICES ASSUME BusInit PROVE IInv
  OBVIOUS
<1>1. SInv
  BY SubscriptionsInitInv DEF BusInit, Init
<1>2. TypeOK
  BY <1>1 DEF BusInit, Init, TypeOK, SInv
<1>3. DeliveryInv
  BY DEF BusInit, Init, DeliveryInv, SubscriptionsInit
<1> QED
  BY <1>1, <1>2, <1>3 DEF BusInit, IInv, SInv

\* Steps of Subscribe and Stop: they may drop messages that are held, and start
\* the background goroutine of a Subscribe call that returns nil.
LEMMA ProtocolIInv ==
    ASSUME IInv,
           \/ \E s \in Subscribers : SubscribeStep(s)
           \/ \E k \in Stoppers : Stop(k) \/ StopStep(k),
           inbox' \in [Subscribers -> SUBSET Messages],
           \A s \in Subscribers : inbox'[s] \subseteq inbox[s],
           loop' \in [Subscribers -> {"none", "running", "ended"}],
           \A s \in Subscribers : loop'[s] # "none" => loop[s] # "none" \/ spc'[s] = "ok",
           UNCHANGED <<published, handled, afterStop, backend>>
    PROVE  IInv'
<1>0. SInv /\ TypeOK /\ DeliveryInv
  BY DEF IInv, SInv, TypeOK
<1>1. SInv'
  BY <1>0, SubscribeInv, StopInv
<1>2. TypeOK'
  BY <1>0, <1>1 DEF TypeOK, SInv
<1>3. \A t \in Subscribers : spc[t] = "ok" => spc'[t] = "ok"
  BY <1>0, SMT DEF SInv, SubscriptionsOK, SubscribeStep, Subscribe, Confirmed, Refused, Register, Abort,
              Stop, StopStep, StopBegin, StopClose, StopEnd
<1>4. afterStop' # {} => StopReturned'
  BY <1>0, StopReturnedStable DEF DeliveryInv
<1>5. ASSUME NEW t \in Subscribers, NEW m \in afterStop, spc'[t] = "ok"
      PROVE  m \notin inbox'[t] /\ <<t, m>> \notin handled
  <2>1. StopReturned
    BY <1>0, <1>5 DEF DeliveryInv
  <2>2. spc[t] = "ok"
    BY <1>0, <1>5, <2>1, NoLateSuccess
  <2> QED
    BY <1>0, <1>5, <2>2 DEF DeliveryInv
<1>6. DeliveryInv'
  BY <1>0, <1>3, <1>4, <1>5 DEF DeliveryInv
<1> QED
  BY <1>1, <1>2, <1>6 DEF IInv, SInv

\* Publish reaches open subscriptions only, of which a Stop leaves none that is
\* registered.
LEMMA PublishIInv ==
    ASSUME IInv, NEW m \in Messages, Publish(m), UNCHANGED backend
    PROVE  IInv'
<1>0. SInv /\ TypeOK /\ DeliveryInv /\ NoLeak /\ UNCHANGED subscriptionVars
  BY SInvImplies DEF IInv, SInv, TypeOK, Publish
<1>1. SInv'
  BY <1>0, StutterInv
<1>2. StopReturned' = StopReturned /\ spc' = spc
  BY <1>0 DEF StopReturned, subscriptionVars
<1>3. TypeOK'
  BY <1>0, <1>1, SMT DEF TypeOK, SInv, Publish
<1>4. /\ m \notin published /\ published' = published \cup {m}
      /\ UNCHANGED <<loop, handled>>
      /\ afterStop' = IF StopReturned THEN afterStop \cup {m} ELSE afterStop
  BY DEF Publish
<1>5. \A t \in Subscribers, n \in Messages :
          n \in inbox'[t] => n \in inbox[t] \/ (n = m /\ conn[t] = "open")
  BY <1>0 DEF Publish, TypeOK
<1>6. ASSUME NEW t \in Subscribers, NEW n \in afterStop', spc[t] = "ok"
      PROVE  n \notin inbox'[t] /\ <<t, n>> \notin handled
  <2>1. n \in Messages /\ StopReturned
    BY <1>0, <1>4 DEF TypeOK, DeliveryInv
  <2>2. conn[t] # "open"
    BY <1>0, <1>6, <2>1 DEF NoLeak
  <2>3. n \notin inbox[t] /\ <<t, n>> \notin handled
    BY <1>0, <1>4, <1>6, <2>1 DEF DeliveryInv
  <2> QED
    BY <1>5, <2>1, <2>2, <2>3
<1>7. \A t \in Subscribers, n \in Messages :
          n \in inbox'[t] \/ <<t, n>> \in handled' => n \in published'
  BY <1>0, <1>4, <1>5 DEF DeliveryInv
<1>8. DeliveryInv'
  BY <1>0, <1>2, <1>4, <1>6, <1>7 DEF DeliveryInv
<1> QED
  BY <1>1, <1>3, <1>8 DEF IInv, SInv

\* A message is taken, by the background goroutine or the callback.
LEMMA TakeIInv ==
    ASSUME IInv, NEW s \in Subscribers, NEW m \in inbox[s],
           inbox' = [inbox EXCEPT ![s] = @ \ {m}],
           handled' = handled \cup {<<s, m>>} \/ UNCHANGED handled,
           backend = "redis" => loop[s] = "running",
           UNCHANGED <<subscriptionVars, published, loop, afterStop, backend>>
    PROVE  IInv'
<1>0. SInv /\ TypeOK /\ DeliveryInv
  BY DEF IInv, SInv, TypeOK
<1>1. SInv'
  BY <1>0, StutterInv
<1>2. StopReturned' = StopReturned /\ spc' = spc
  BY <1>0 DEF StopReturned, subscriptionVars
<1>3. m \in Messages /\ m \in published
  BY <1>0 DEF TypeOK, DeliveryInv
<1>4. TypeOK'
  BY <1>0, <1>1, <1>3, SMT DEF TypeOK, SInv
<1>5. /\ \A t \in Subscribers : inbox'[t] \subseteq inbox[t]
      /\ \A t \in Subscribers, n \in Messages :
            <<t, n>> \in handled' => <<t, n>> \in handled \/ (t = s /\ n = m)
  BY <1>0 DEF TypeOK
<1>6. /\ m \in afterStop => spc[s] # "ok"
      /\ backend = "redis" => spc[s] = "ok"
  BY <1>0 DEF DeliveryInv
<1>7. ASSUME NEW t \in Subscribers, NEW n \in afterStop, spc[t] = "ok"
      PROVE  n \notin inbox'[t] /\ <<t, n>> \notin handled'
  <2>1. n \in Messages
    BY <1>0 DEF TypeOK
  <2> QED
    BY <1>0, <1>5, <1>6, <1>7, <2>1 DEF DeliveryInv
<1>8. DeliveryInv'
  BY <1>0, <1>2, <1>3, <1>5, <1>6, <1>7 DEF DeliveryInv
<1> QED
  BY <1>1, <1>4, <1>8 DEF IInv, SInv

\* Every step of the Redis bus keeps the inductive invariant.
LEMMA RedisIInv ==
    ASSUME IInv, backend = "redis", UNCHANGED backend, Next
    PROVE  IInv'
<1>0. TypeOK /\ DeliveryInv
  BY DEF IInv
<1>1. ASSUME NEW s \in Subscribers, SubscribeCall(s) PROVE IInv'
  <2>1. /\ loop' \in [Subscribers -> {"none", "running", "ended"}]
        /\ \A t \in Subscribers : loop'[t] # "none" => loop[t] # "none" \/ spc'[t] = "ok"
    BY <1>0, <1>1 DEF TypeOK, SubscribeCall, StartLoop
  <2>2. SubscribeStep(s) /\ UNCHANGED <<published, inbox, handled, afterStop>>
    BY <1>1 DEF SubscribeCall
  <2> QED
    BY <1>0, <2>1, <2>2, ProtocolIInv DEF TypeOK
<1>2. ASSUME NEW k \in Stoppers, StopCall(k) \/ StopRuns(k) PROVE IInv'
  <2>1. (Stop(k) \/ StopStep(k)) /\ UNCHANGED <<published, inbox, loop, handled, afterStop>>
    BY <1>2 DEF StopCall, StopRuns, deliveryVars
  <2> QED
    BY <1>0, <2>1, ProtocolIInv DEF TypeOK
<1>3. ASSUME NEW s \in Subscribers, NEW m \in Messages, Receive(s, m) PROVE IInv'
  BY <1>3, TakeIInv DEF Receive
<1>4. ASSUME NEW s \in Subscribers, LoopEnd(s) PROVE IInv'
  <2>1. UNCHANGED <<subscriptionVars, published, inbox, handled, afterStop>>
    BY <1>4 DEF LoopEnd
  <2>2. SInv' /\ StopReturned' = StopReturned /\ spc' = spc
    BY <2>1, StutterInv DEF IInv, SInv, TypeOK, StopReturned, subscriptionVars
  <2>3. /\ loop' \in [Subscribers -> {"none", "running", "ended"}]
        /\ \A t \in Subscribers : loop'[t] # "none" => loop[t] # "none"
    BY <1>0, <1>4 DEF TypeOK, LoopEnd
  <2>4. TypeOK'
    BY <1>0, <2>1, <2>2, <2>3 DEF TypeOK, SInv
  <2> QED
    BY <1>0, <2>1, <2>2, <2>3, <2>4 DEF IInv, SInv, DeliveryInv
<1> QED
  BY <1>1, <1>2, <1>3, <1>4, PublishIInv DEF Next, ReceiveStep

\* Every step of the NATS bus keeps the inductive invariant.
LEMMA NATSIInv ==
    ASSUME IInv, backend = "nats", UNCHANGED <<backend, loop>>, NATS!Next
    PROVE  IInv'
<1>0. TypeOK
  BY DEF IInv
<1>1. ASSUME \/ \E s \in Subscribers : NATS!SubscribeCall(s)
             \/ \E k \in Stoppers : NATS!StopCall(k) \/ NATS!StopRuns(k)
      PROVE  IInv'
  <2>1. \/ \E s \in Subscribers : NATS!SubscribeStep(s)
        \/ \E k \in Stoppers : NATS!Stop(k) \/ NATS!StopStep(k)
    BY <1>1 DEF NATS!SubscribeCall, NATS!StopCall, NATS!StopRuns
  <2>2. \/ \E s \in Subscribers : SubscribeStep(s)
        \/ \E k \in Stoppers : Stop(k) \/ StopStep(k)
    BY <2>1 DEF NATS!SubscribeStep, NATS!Subscribe, NATS!Confirmed, NATS!Refused, NATS!Register, NATS!Abort,
         NATS!Stop, NATS!StopStep, NATS!StopBegin, NATS!StopClose, NATS!StopEnd, NATS!LockHeld, NATS!StopReturned,
         SubscribeStep, Subscribe, Confirmed, Refused, Register, Abort,
         Stop, StopStep, StopBegin, StopClose, StopEnd, LockHeld, StopReturned
  <2>3. (NATS!Unsubscribe \/ UNCHANGED inbox) /\ UNCHANGED <<published, handled, afterStop>>
    BY <1>1 DEF NATS!SubscribeCall, NATS!StopCall, NATS!StopRuns, NATS!deliveryVars
  <2>4. inbox' \in [Subscribers -> SUBSET Messages] /\ \A s \in Subscribers : inbox'[s] \subseteq inbox[s]
    BY <1>0, <2>3 DEF NATS!Unsubscribe, TypeOK
  <2> QED
    BY <1>0, <2>2, <2>3, <2>4, ProtocolIInv DEF TypeOK
<1>2. ASSUME NEW s \in Subscribers, NEW m \in Messages, NATS!Callback(s, m) PROVE IInv'
  <2>1. /\ m \in inbox[s] /\ inbox' = [inbox EXCEPT ![s] = inbox[s] \ {m}]
        /\ handled' = handled \cup {<<s, m>>} \/ UNCHANGED handled
        /\ UNCHANGED <<subscriptionVars, published, afterStop>>
    BY <1>2 DEF NATS!Callback, NATS!subscriptionVars, subscriptionVars
  <2> QED
    BY <2>1, TakeIInv
<1>3. ASSUME NEW m \in Messages, NATS!Publish(m) PROVE IInv'
  <2>1. Publish(m)
    BY <1>3 DEF NATS!Publish, NATS!StopReturned, NATS!subscriptionVars, Publish, StopReturned, subscriptionVars
  <2> QED
    BY <2>1, PublishIInv
<1> QED
  BY <1>1, <1>2, <1>3 DEF NATS!Next

\* The inductive invariant holds in every reachable state.
LEMMA Invariance == BusSpec => []IInv
<1>1. IInv /\ UNCHANGED busVars => IInv'
  <2> SUFFICES ASSUME IInv, UNCHANGED busVars PROVE IInv'
    OBVIOUS
  <2>1. SInv'
    BY StutterInv DEF IInv, SInv, TypeOK, busVars, vars
  <2>2. UNCHANGED <<backend, spc, published, inbox, loop, handled, afterStop>> /\ StopReturned' = StopReturned
    BY DEF busVars, vars, subscriptionVars, deliveryVars, StopReturned
  <2> QED
    BY <2>1, <2>2 DEF IInv, SInv, TypeOK, DeliveryInv
<1>2. IInv /\ [BusNext]_busVars => IInv'
  BY <1>1, RedisIInv, NATSIInv DEF BusNext
<1> QED
  BY InitIInv, <1>2, PTL DEF BusSpec

\* The variables have their types, on both buses.
THEOREM TypeCorrect == BusSpec => []TypeOK
  BY Invariance, PTL DEF IInv

\* Once Stop has returned, no subscription is left open, whatever Subscribe
\* calls it raced.
THEOREM NothingLeaks == BusSpec => []NoLeak
<1>1. IInv => NoLeak
  BY SInvImplies DEF IInv, TypeOK, SInv
<1> QED
  BY <1>1, Invariance, PTL

\* A stopped bus accepts no subscription.
THEOREM NeverReusable == BusSpec => []NotReusable
<1>1. IInv => NotReusable
  BY SInvImplies DEF IInv, TypeOK, SInv
<1> QED
  BY <1>1, Invariance, PTL

\* Nothing published after a Stop returned reaches a subscriber, although Redis
\* still hands over what was buffered and NATS calls back before Subscribe has
\* registered the subscription.
THEOREM StoppedForGood == BusSpec => []NothingNewAfterStop
<1>1. IInv => NothingNewAfterStop
  BY DEF IInv, DeliveryInv, NothingNewAfterStop
<1> QED
  BY <1>1, Invariance, PTL

\* With Redis, handlers of failed Subscribe calls are never called.  (The NATS
\* client calls back as soon as the subscription exists.)
THEOREM HandlersAreRegistered == BusSpec => [](backend = "redis" => OnlyRegisteredHandled)
<1>1. IInv => (backend = "redis" => OnlyRegisteredHandled)
  BY DEF IInv, DeliveryInv, OnlyRegisteredHandled
<1> QED
  BY <1>1, Invariance, PTL

-----------------------------------------------------------------------------
(***************************************************************************)
(* ReferenceServer                                                         *)
(***************************************************************************)
\* The inductive invariant of ReferenceServer.
ServerIInv == ServerTypeOK /\ ServerInv /\ CleanMeansAnswered /\ FailureIsReal

\* What the end of the process does to the requests: those in progress are cut
\* off, the others stay as they are.
LEMMA ExitRequests ==
    ASSUME ServerTypeOK, NEW how, Exit(how), NEW r \in Requests
    PROVE  /\ req' \in [Requests -> RequestStates \cup {None}]
           /\ req'[r] # None <=> req[r] # None
           /\ req[r] # None => /\ req'[r].late = req[r].late
                               /\ req'[r].route = req[r].route
                               /\ req'[r].status = req[r].status
                               /\ req'[r].pc = IF InProgress(r) THEN "cut" ELSE req[r].pc
<1>1. ASSUME NEW q \in Requests, InProgress(q)
      PROVE  [req[q] EXCEPT !.pc = "cut"] \in RequestStates
  BY <1>1, SMT DEF ServerTypeOK, RequestStates, InProgress
<1>2. req' \in [Requests -> RequestStates \cup {None}]
  BY <1>1 DEF ServerTypeOK, Exit
<1>3. CASE InProgress(r)
  <2>1. req[r] \in RequestStates /\ req'[r] = [req[r] EXCEPT !.pc = "cut"]
    BY <1>3 DEF ServerTypeOK, Exit, InProgress
  <2>2. req'[r] \in RequestStates
    BY <1>1, <1>3, <2>1
  <2>3. req[r] # None /\ req'[r] # None
    BY <1>3, <2>2, NoneAssumption DEF InProgress
  <2> QED
    BY <1>2, <1>3, <2>1, <2>3, SMT DEF RequestStates
<1>4. CASE ~InProgress(r)
  BY <1>2, <1>4 DEF Exit
<1> QED
  BY <1>3, <1>4

\* What ServerInv says of one request in progress or answered.
RequestOK(new) ==
    /\ new.pc # "cut"
    /\ new.late => /\ main \in {"notReady", "stopping", "draining", "ended"}
                   /\ new.route = "readyz" /\ new.pc \in {"loaded", "answered"}
                          => new.status = 503

\* A request moves on while the process lives: one that has been answered has
\* the status it read, and none is cut off.
LEMMA RequestStep ==
    ASSUME ServerIInv, Alive, UNCHANGED lifeVars, NEW r \in Requests, NEW new \in RequestStates,
           req' = [req EXCEPT ![r] = new], RequestOK(new)
    PROVE  ServerIInv'
<1>1. ServerTypeOK'
  BY SMT DEF ServerIInv, ServerTypeOK, lifeVars
<1>2. ServerInv'
  BY SMT DEF ServerIInv, ServerTypeOK, ServerInv, Alive, lifeVars, RequestOK
<1>3. CleanMeansAnswered' /\ FailureIsReal'
  BY NoneAssumption DEF ServerIInv, ServerTypeOK, Alive, CleanMeansAnswered, FailureIsReal, lifeVars
<1> QED
  BY <1>1, <1>2, <1>3 DEF ServerIInv

\* A server that has not started yet.
LEMMA ServerInitInv == ServerInit => ServerIInv
BY NoneAssumption, ZenonT(30) DEF ServerInit, ServerIInv, ServerTypeOK, ServerInv, CleanMeansAnswered, FailureIsReal, Alive

\* Steps of main and its goroutine that do not end the process.
LEMMA LifeStep ==
    ASSUME ServerIInv, \/ Start \/ Listen \/ ServeReturns \/ MarkReady \/ MarkNotReady
                 \/ StopSignals \/ BeginShutdown
    PROVE  ServerIInv'
<1>1. CASE Start
  BY <1>1, NoneAssumption, SMT DEF Start, Alive, ServerIInv, ServerTypeOK, ServerInv, CleanMeansAnswered, FailureIsReal
<1>2. CASE Listen
  BY <1>2, NoneAssumption, SMT DEF Listen, Alive, ServerIInv, ServerTypeOK, ServerInv, CleanMeansAnswered, FailureIsReal
<1>3. CASE ServeReturns
  BY <1>3, NoneAssumption, SMT DEF ServeReturns, Alive, ServerIInv, ServerTypeOK, ServerInv, CleanMeansAnswered, FailureIsReal
<1>4. CASE MarkReady
  BY <1>4, NoneAssumption, SMT DEF MarkReady, Alive, ServerIInv, ServerTypeOK, ServerInv, CleanMeansAnswered, FailureIsReal
<1>5. CASE MarkNotReady
  BY <1>5, NoneAssumption, ZenonT(30) DEF MarkNotReady, Alive, ServerIInv, ServerTypeOK, ServerInv, CleanMeansAnswered, FailureIsReal
<1>6. CASE StopSignals
  BY <1>6, NoneAssumption, SMT DEF StopSignals, Alive, ServerIInv, ServerTypeOK, ServerInv, CleanMeansAnswered, FailureIsReal
<1>7. CASE BeginShutdown
  <2>1. closeFailed' \in BOOLEAN
    BY <1>7 DEF BeginShutdown
  <2> QED
    BY <1>7, <2>1, NoneAssumption, SMT DEF BeginShutdown, Alive, ServerIInv, ServerTypeOK, ServerInv, CleanMeansAnswered, FailureIsReal
<1> QED
  BY <1>1, <1>2, <1>3, <1>4, <1>5, <1>6, <1>7

\* The ends of the process.
LEMMA ExitStep ==
    ASSUME ServerIInv, Alive, NEW how \in {"clean", "timeout", "error", "killed"}, Exit(how),
           UNCHANGED <<serving, ready, signalled, shutdown, closeFailed>>,
           listenFailed' \in BOOLEAN,
           main' = main \/ (main = "draining" /\ main' = "ended"),
           how = "clean" => NoneInProgress,
           how = "error" => listenFailed' \/ closeFailed
    PROVE  ServerIInv'
<1>0. ServerTypeOK /\ ServerInv
  BY DEF ServerIInv
<1>1. exit' = how /\ exit' # None
  BY NoneAssumption DEF Exit
<1>2. req' \in [Requests -> RequestStates \cup {None}]
  <2>1. CASE Requests = {}
    BY <2>1 DEF Exit
  <2>2. CASE Requests # {}
    BY <1>0, <2>2, ExitRequests
  <2> QED
    BY <2>1, <2>2
<1>3. ServerTypeOK'
  BY <1>0, <1>1, <1>2 DEF ServerTypeOK
<1>4. ServerInv'
  <2>1. ASSUME NEW r \in Requests, req'[r] # None, req'[r].late
        PROVE  /\ main' \in {"notReady", "stopping", "draining", "ended"}
               /\ req'[r].route = "readyz" /\ req'[r].pc \in {"loaded", "answered"}
                      => req'[r].status = 503
    BY <1>0, <2>1, ExitRequests, SMT DEF ServerInv, InProgress
  <2>2. ready' => main' = "running"
    BY <1>0 DEF ServerInv
  <2> QED
    BY <1>1, <2>1, <2>2, SMT DEF ServerInv, Alive
<1>5. CleanMeansAnswered'
  <2>1. ASSUME how = "clean", NEW r \in Requests, req'[r] # None
        PROVE  req'[r].pc = "answered"
    BY <1>0, <2>1, ExitRequests, SMT DEF NoneInProgress, InProgress, ServerInv
  <2> QED
    BY <1>1, <2>1 DEF CleanMeansAnswered
<1>6. FailureIsReal'
  BY <1>1 DEF FailureIsReal
<1> QED
  BY <1>3, <1>4, <1>5, <1>6 DEF ServerIInv

\* Every step keeps the invariant.
LEMMA ServerNextInv == ServerIInv /\ [ServerNext]_serverVars => ServerIInv'
<1> SUFFICES ASSUME ServerIInv, [ServerNext]_serverVars PROVE ServerIInv'
  OBVIOUS
<1>0. ServerTypeOK /\ ServerInv
  BY DEF ServerIInv
<1>1. CASE Start \/ Listen \/ ServeReturns \/ MarkReady \/ MarkNotReady \/ StopSignals
           \/ BeginShutdown
  BY <1>1, LifeStep
<1>2. CASE ListenFails
  BY <1>2, ExitStep DEF ListenFails
<1>3. CASE Drained
  <2>1. CASE closeFailed
    BY <1>0, <1>3, <2>1, ExitStep DEF Drained, ServerTypeOK
  <2>2. CASE ~closeFailed
    BY <1>0, <1>3, <2>2, ExitStep DEF Drained, ServerTypeOK
  <2> QED
    BY <2>1, <2>2
<1>4. CASE DeadlineExceeded
  BY <1>0, <1>4, ExitStep DEF DeadlineExceeded, ServerTypeOK
<1>5. CASE Signal
  <2>1. CASE signalled' = TRUE /\ UNCHANGED <<exit, req>>
    BY <1>5, <2>1, NoneAssumption, SMT
    DEF Signal, Alive, ServerIInv, ServerTypeOK, ServerInv, CleanMeansAnswered, FailureIsReal
  <2>2. CASE Exit("killed") /\ UNCHANGED signalled
    BY <1>0, <1>5, <2>2, ExitStep DEF Signal, ServerTypeOK
  <2> QED
    BY <1>5, <2>1, <2>2 DEF Signal
<1>6. ASSUME NEW r \in Requests,
             \/ \E route \in {"healthz", "readyz", "tenant"} : Accept(r, route)
             \/ healthzHandler(r) \/ readyzHandler(r) \/ Wrap(r) \/ Route(r)
      PROVE  ServerIInv'
  <2>0. req \in [Requests -> RequestStates \cup {None}]
    BY <1>0 DEF ServerTypeOK
  <2>1. ASSUME NEW route \in {"healthz", "readyz", "tenant"}, Accept(r, route) PROVE ServerIInv'
    <3> DEFINE new == [pc |-> "accepted", route |-> route, status |-> 0,
                       late |-> main \in {"notReady", "stopping"}]
    <3>1. new \in RequestStates
      BY SMT DEF RequestStates
    <3>2. Alive /\ UNCHANGED lifeVars /\ req' = [req EXCEPT ![r] = new]
      BY <2>1 DEF Accept
    <3>3. new.pc = "accepted" /\ new.late = (main \in {"notReady", "stopping"})
      OBVIOUS
    <3> HIDE DEF new
    <3>4. RequestOK(new)
      BY <3>3 DEF RequestOK
    <3> QED
      BY <3>1, <3>2, <3>4, RequestStep
  \* A step of a handler, given what it knows of a late probe.
  <2>2. ASSUME NEW from, NEW route, At(r, from, route),
               NEW pc \in {"loaded", "inHandler", "answered"},
               NEW status \in {0, 200, 403, 404, 503}, MoveOn(r, pc, status),
               route = "readyz" /\ req[r].late => status = 503
        PROVE  ServerIInv'
    <3> DEFINE new == [pc |-> pc, status |-> status, route |-> req[r].route, late |-> req[r].late]
    <3>1. req[r] \in RequestStates /\ req[r].route = route /\ Alive
      BY <2>0, <2>2, SMT DEF At
    <3>2. new \in RequestStates
      BY <3>1, SMT DEF RequestStates
    <3>3. new.pc = pc /\ new.status = status /\ new.late = req[r].late /\ new.route = route
      BY <3>1
    <3>4. UNCHANGED lifeVars /\ req' = [req EXCEPT ![r] = new]
      BY <2>2 DEF MoveOn
    <3>5. req[r].late => main \in {"notReady", "stopping", "draining", "ended"}
      BY <1>0, <2>2, SMT DEF At, ServerInv
    <3> HIDE DEF new
    <3>6. RequestOK(new)
      BY <2>2, <3>3, <3>5, SMT DEF RequestOK
    <3> QED
      BY <3>1, <3>2, <3>4, <3>6, RequestStep
  <2>3. CASE healthzHandler(r)
    BY <2>2, <2>3, SMT DEF healthzHandler, Answer
  <2>4. CASE readyzHandler(r)
    <3>1. CASE At(r, "accepted", "readyz") /\ MoveOn(r, "loaded", IF ready THEN 200 ELSE 503)
      <4>1. req[r].late => ~ready
        BY <1>0, <3>1 DEF ServerInv, At
      <4>2. CASE ready
        BY <2>2, <3>1, <4>1, <4>2, SMT
      <4>3. CASE ~ready
        BY <2>2, <3>1, <4>3, SMT
      <4> QED
        BY <4>2, <4>3
    <3>2. CASE At(r, "loaded", "readyz") /\ Answer(r, req[r].status)
      <4>1. req[r].late => req[r].status = 503
        BY <1>0, <3>2, SMT DEF ServerInv, At
      <4>2. req[r].status \in {0, 200, 403, 404, 503}
        BY <2>0, <3>2, SMT DEF RequestStates, At
      <4> QED
        BY <2>2, <3>2, <4>1, <4>2, SMT DEF Answer
    <3> QED
      BY <2>4, <3>1, <3>2 DEF readyzHandler
  <2>5. CASE Wrap(r)
    BY <2>2, <2>5, SMT DEF Wrap, Answer
  <2>6. CASE Route(r)
    BY <2>2, <2>6, SMT DEF Route, Answer
  <2> QED
    BY <1>6, <2>1, <2>3, <2>4, <2>5, <2>6
<1>7. CASE UNCHANGED serverVars
  BY <1>7, SMT DEF serverVars, lifeVars, Alive, ServerIInv, ServerTypeOK, ServerInv, CleanMeansAnswered, FailureIsReal
<1> QED
  BY <1>1, <1>2, <1>3, <1>4, <1>5, <1>6, <1>7 DEF ServerNext

\* The invariant holds of every behaviour of the server.
THEOREM ServerInvariance == ServerSpec => []ServerIInv
BY ServerInitInv, ServerNextInv, PTL DEF ServerSpec

\* A clean shutdown has answered every request that was accepted
\* (server.Shutdown waits, and main reports only what it returned).
THEOREM ServerClean == ServerSpec => []CleanMeansAnswered
<1>1. ServerIInv => CleanMeansAnswered
  BY DEF ServerIInv
<1> QED
  BY <1>1, ServerInvariance, PTL

\* No probe accepted after ready.Store(false) is answered "ready".
THEOREM ServerNotReady == ServerSpec => []DrainingIsNotReady
<1>1. ServerIInv => DrainingIsNotReady
  BY SMT DEF ServerIInv, ServerInv, DrainingIsNotReady
<1> QED
  BY <1>1, ServerInvariance, PTL

\* Exit code 1 means that the listener failed.
THEOREM ServerFailure == ServerSpec => []FailureIsReal
<1>1. ServerIInv => FailureIsReal
  BY DEF ServerIInv
<1> QED
  BY <1>1, ServerInvariance, PTL

=============================================================================
