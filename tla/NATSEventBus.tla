---------------------------- MODULE NATSEventBus ----------------------------
(***************************************************************************)
(* eventbus/nats.NATSEventBus: the client library calls back for each      *)
(* message as soon as a subscription exists, hence also before Subscribe   *)
(* has registered it, and drops what is left when it is unsubscribed.      *)
(***************************************************************************)
EXTENDS Subscriptions

CONSTANT Messages

VARIABLES
    published,  \* messages handed to conn.Publish
    inbox,      \* per subscription: messages the client library holds
    handled,    \* history: the messages taken, <<subscription, message>>
    afterStop   \* history: messages published after a Stop returned

deliveryVars == <<published, inbox, handled, afterStop>>
vars == <<subscriptionVars, deliveryVars>>

TypeOK ==
    /\ SubscriptionsOK
    /\ published \in SUBSET Messages
    /\ inbox \in [Subscribers -> SUBSET Messages]
    /\ handled \in SUBSET (Subscribers \X Messages)
    /\ afterStop \in SUBSET Messages

Init ==
    /\ SubscriptionsInit
    /\ published = {}
    /\ inbox = [s \in Subscribers |-> {}]
    /\ handled = {}
    /\ afterStop = {}

\* Publish: as in RedisEventBus.
Publish(m) ==
    /\ m \notin published
    /\ published' = published \cup {m}
    /\ afterStop' = IF StopReturned THEN afterStop \cup {m} ELSE afterStop
    /\ \E S \in SUBSET {s \in Subscribers : conn[s] = "open"} :
          inbox' = [s \in Subscribers |-> IF s \in S THEN inbox[s] \cup {m} ELSE inbox[s]]
    /\ UNCHANGED <<subscriptionVars, handled>>

\* Unsubscribe drops the messages that were not yet given to the callback.
Unsubscribe == inbox' = [s \in Subscribers |-> IF conn'[s] = "closed" THEN {} ELSE inbox[s]]

SubscribeCall(s) ==
    /\ SubscribeStep(s)
    /\ Unsubscribe
    /\ UNCHANGED <<published, handled, afterStop>>

StopCall(k) ==
    /\ Stop(k)
    /\ UNCHANGED deliveryVars

StopRuns(k) ==
    /\ StopStep(k)
    /\ Unsubscribe
    /\ UNCHANGED <<published, handled, afterStop>>

\* The callback given to conn.Subscribe: a message that cannot be decoded is
\* logged and skipped, any other one starts a goroutine with the handler.
Callback(s, m) ==
    /\ conn[s] = "open"
    /\ m \in inbox[s]
    /\ inbox' = [inbox EXCEPT ![s] = @ \ {m}]
    /\ handled' = handled \cup {<<s, m>>} \/ UNCHANGED handled
    /\ UNCHANGED <<subscriptionVars, published, afterStop>>

Next ==
    \/ \E s \in Subscribers : SubscribeCall(s) \/ \E m \in Messages : Callback(s, m)
    \/ \E k \in Stoppers : StopCall(k) \/ StopRuns(k)
    \/ \E m \in Messages : Publish(m)

Spec == Init /\ [][Next]_vars

-----------------------------------------------------------------------------
\* A handler whose Subscribe call returned nil never gets a message that was
\* published after a Stop had returned.
NothingNewAfterStop ==
    \A s \in Subscribers, m \in afterStop : spc[s] = "ok" => <<s, m>> \notin handled

=============================================================================
