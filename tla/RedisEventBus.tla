--------------------------- MODULE RedisEventBus ---------------------------
(***************************************************************************)
(* eventbus/redis.RedisEventBus: each registered subscription has a        *)
(* background goroutine that takes the messages of its PubSub and starts a *)
(* goroutine with the handler for each.  Redis Pub/Sub delivers at most    *)
(* once; what go-redis has buffered can still be read after Close.         *)
(***************************************************************************)
EXTENDS Subscriptions

CONSTANT Messages

VARIABLES
    published,  \* messages handed to client.Publish
    inbox,      \* per subscription: what pubsub.Channel() holds
    loop,       \* per subscription: its background goroutine
    handled,    \* history: the messages taken, <<subscription, message>>
    afterStop   \* history: messages published after a Stop returned

deliveryVars == <<published, inbox, loop, handled, afterStop>>
vars == <<subscriptionVars, deliveryVars>>

TypeOK ==
    /\ SubscriptionsOK
    /\ published \in SUBSET Messages
    /\ inbox \in [Subscribers -> SUBSET Messages]
    /\ loop \in [Subscribers -> {"none", "running", "ended"}]
    /\ handled \in SUBSET (Subscribers \X Messages)
    /\ afterStop \in SUBSET Messages

Init ==
    /\ SubscriptionsInit
    /\ published = {}
    /\ inbox = [s \in Subscribers |-> {}]
    /\ loop = [s \in Subscribers |-> "none"]
    /\ handled = {}
    /\ afterStop = {}

\* Publish: the broker passes the message on to open subscriptions; the ones
\* whose connection is down at this moment miss it.
Publish(m) ==
    /\ m \notin published
    /\ published' = published \cup {m}
    /\ afterStop' = IF StopReturned THEN afterStop \cup {m} ELSE afterStop
    /\ \E S \in SUBSET {s \in Subscribers : conn[s] = "open"} :
          inbox' = [s \in Subscribers |-> IF s \in S THEN inbox[s] \cup {m} ELSE inbox[s]]
    /\ UNCHANGED <<subscriptionVars, loop, handled>>

\* Subscribe: the go statement after the registration.
StartLoop(s) ==
    loop' = IF spc'[s] = "ok" THEN [loop EXCEPT ![s] = "running"] ELSE loop

SubscribeCall(s) ==
    /\ SubscribeStep(s)
    /\ StartLoop(s)
    /\ UNCHANGED <<published, inbox, handled, afterStop>>

StopCall(k) ==
    /\ Stop(k)
    /\ UNCHANGED deliveryVars

StopRuns(k) ==
    /\ StopStep(k)
    /\ UNCHANGED deliveryVars

\* The background goroutine takes a message; one that cannot be decoded is
\* logged and skipped, any other one starts a goroutine with the handler.
Receive(s, m) ==
    /\ loop[s] = "running"
    /\ m \in inbox[s]
    /\ inbox' = [inbox EXCEPT ![s] = @ \ {m}]
    /\ handled' = handled \cup {<<s, m>>} \/ UNCHANGED handled
    /\ UNCHANGED <<subscriptionVars, published, loop, afterStop>>

\* The background goroutine ends when the channel is closed and drained.
LoopEnd(s) ==
    /\ loop[s] = "running"
    /\ conn[s] = "closed"
    /\ inbox[s] = {}
    /\ loop' = [loop EXCEPT ![s] = "ended"]
    /\ UNCHANGED <<subscriptionVars, published, inbox, handled, afterStop>>

ReceiveStep(s) == \E m \in Messages : Receive(s, m)

Next ==
    \/ \E s \in Subscribers : SubscribeCall(s) \/ ReceiveStep(s) \/ LoopEnd(s)
    \/ \E k \in Stoppers : StopCall(k) \/ StopRuns(k)
    \/ \E m \in Messages : Publish(m)

Spec == Init /\ [][Next]_vars

\* Goroutines are scheduled.  Subscribe may stay in Receive for ever: Redis
\* need not answer, so nothing is assumed of it.
FairSpec ==
    /\ Spec
    /\ \A k \in Stoppers : WF_vars(StopRuns(k))
    /\ \A s \in Subscribers : WF_vars(ReceiveStep(s) \/ LoopEnd(s))

-----------------------------------------------------------------------------
\* A handler is called only for a Subscribe call that returned nil: one that
\* returned an error or ErrStopped leaves nothing behind that calls it.
OnlyRegisteredHandled == \A s \in Subscribers, m \in Messages : <<s, m>> \in handled => spc[s] = "ok"

\* A handler whose Subscribe call returned nil never gets a message that was
\* published after a Stop had returned.
NothingNewAfterStop ==
    \A s \in Subscribers, m \in afterStop : spc[s] = "ok" => <<s, m>> \notin handled

\* Stop does not wait for a Subscribe call that is stuck in Receive.
StopReturns == \A k \in Stoppers : kpc[k] = "lock" ~> kpc[k] = "returned"

\* Stop ends the background goroutine of every subscription.
LoopsEnd == \A s \in Subscribers : stopped /\ loop[s] = "running" ~> loop[s] = "ended"

=============================================================================
