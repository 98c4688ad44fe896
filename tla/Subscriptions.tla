--------------------------- MODULE Subscriptions ---------------------------
(***************************************************************************)
(* The protocol by which RedisEventBus and NATSEventBus open, register and *)
(* close subscriptions: Subscribe confirms a subscription with the broker  *)
(* without holding b.mu, then registers it under b.mu; Stop closes what is *)
(* registered while it holds b.mu.  The two types share it line by line;   *)
(* what they do with messages is in the modules RedisEventBus and          *)
(* NATSEventBus.                                                           *)
(*                                                                         *)
(* X_Variant, next to a definition X, is X with a plausible slip.  Nothing *)
(* uses it: it serves to show that a property notices the slip.            *)
(***************************************************************************)
CONSTANTS
    Subscribers,  \* calls of Subscribe
    Stoppers      \* calls of Stop

VARIABLES
    spc,      \* per call of Subscribe: where it is, or what it returned
    conn,     \* per call of Subscribe: its subscription at the broker
    subs,     \* b.pubsubs, b.subs
    stopped,  \* b.stopped
    kpc,      \* per call of Stop: where it is
    late      \* history: calls of Subscribe that began after a Stop returned

subscriptionVars == <<spc, conn, subs, stopped, kpc, late>>

SubscriptionsOK ==
    /\ spc \in [Subscribers ->
          {"idle", "confirm", "register", "abort", "ok", "ErrStopped", "failed"}]
    /\ conn \in [Subscribers -> {"none", "open", "closed"}]
    /\ subs \in SUBSET Subscribers
    /\ stopped \in BOOLEAN
    /\ kpc \in [Stoppers -> {"idle", "lock", "closing", "returned"}]
    /\ late \in SUBSET Subscribers

SubscriptionsInit ==
    /\ spc = [s \in Subscribers |-> "idle"]
    /\ conn = [s \in Subscribers |-> "none"]
    /\ subs = {}
    /\ stopped = FALSE
    /\ kpc = [k \in Stoppers |-> "idle"]
    /\ late = {}

LockHeld_DuringConfirm ==
    \/ \E k \in Stoppers : kpc[k] = "closing"
    \/ \E s \in Subscribers : spc[s] = "confirm"

\* b.mu is held across several steps only by Stop.
LockHeld == \E k \in Stoppers : kpc[k] = "closing"

StopReturned == \E k \in Stoppers : kpc[k] = "returned"

-----------------------------------------------------------------------------
Subscribe(s) ==
    /\ spc[s] = "idle"
    /\ spc' = [spc EXCEPT ![s] = "confirm"]
    /\ late' = IF StopReturned THEN late \cup {s} ELSE late
    /\ UNCHANGED <<conn, subs, stopped, kpc>>

\* Subscribe: the broker confirms the subscription.
Confirmed(s) ==
    /\ spc[s] = "confirm"
    /\ spc' = [spc EXCEPT ![s] = "register"]
    /\ conn' = [conn EXCEPT ![s] = "open"]
    /\ UNCHANGED <<subs, stopped, kpc, late>>

\* Subscribe: the broker cannot be reached; nothing stays open.
Refused(s) ==
    /\ spc[s] = "confirm"
    /\ spc' = [spc EXCEPT ![s] = "failed"]
    /\ conn' = [conn EXCEPT ![s] = "closed"]
    /\ UNCHANGED <<subs, stopped, kpc, late>>

Register_Unchecked(s) ==
    /\ spc[s] = "register"
    /\ ~LockHeld
    /\ subs' = subs \cup {s}
    /\ spc' = [spc EXCEPT ![s] = "ok"]
    /\ UNCHANGED <<conn, stopped, kpc, late>>

\* Subscribe: register under the lock, unless the bus is stopped.
Register(s) ==
    /\ spc[s] = "register"
    /\ ~LockHeld
    /\ \/ /\ stopped
          /\ spc' = [spc EXCEPT ![s] = "abort"]
          /\ UNCHANGED subs
       \/ /\ ~stopped
          /\ subs' = subs \cup {s}
          /\ spc' = [spc EXCEPT ![s] = "ok"]
    /\ UNCHANGED <<conn, stopped, kpc, late>>

\* Subscribe: close the subscription that came too late; return ErrStopped.
Abort(s) ==
    /\ spc[s] = "abort"
    /\ spc' = [spc EXCEPT ![s] = "ErrStopped"]
    /\ conn' = [conn EXCEPT ![s] = "closed"]
    /\ UNCHANGED <<subs, stopped, kpc, late>>

-----------------------------------------------------------------------------
Stop(k) ==
    /\ kpc[k] = "idle"
    /\ kpc' = [kpc EXCEPT ![k] = "lock"]
    /\ UNCHANGED <<spc, conn, subs, stopped, late>>

\* Stop: take the lock, mark the bus as stopped.
StopBegin(k) ==
    /\ kpc[k] = "lock"
    /\ ~LockHeld
    /\ kpc' = [kpc EXCEPT ![k] = "closing"]
    /\ stopped' = TRUE
    /\ UNCHANGED <<spc, conn, subs, late>>

\* Stop: one iteration of the loop.
StopClose(k, s) ==
    /\ kpc[k] = "closing"
    /\ s \in subs
    /\ conn[s] = "open"
    /\ conn' = [conn EXCEPT ![s] = "closed"]
    /\ UNCHANGED <<spc, subs, stopped, kpc, late>>

StopEnd_NotClosed(k) ==
    /\ kpc[k] = "closing"
    /\ subs' = {}
    /\ kpc' = [kpc EXCEPT ![k] = "returned"]
    /\ UNCHANGED <<spc, conn, stopped, late>>

\* Stop: forget the subscriptions, release the lock.
StopEnd(k) ==
    /\ kpc[k] = "closing"
    /\ \A s \in subs : conn[s] = "closed"
    /\ subs' = {}
    /\ kpc' = [kpc EXCEPT ![k] = "returned"]
    /\ UNCHANGED <<spc, conn, stopped, late>>

SubscribeStep(s) == Subscribe(s) \/ Confirmed(s) \/ Refused(s) \/ Register(s) \/ Abort(s)
StopStep(k) == StopBegin(k) \/ StopEnd(k) \/ \E s \in Subscribers : StopClose(k, s)

-----------------------------------------------------------------------------
\* The race Subscribe guards against: once a Stop has returned, no subscription
\* stays open at the broker except those a Subscribe call still has in hand.
NoLeak ==
    StopReturned =>
        \A s \in Subscribers : conn[s] = "open" => spc[s] \in {"register", "abort"}

\* "Once stopped, the bus cannot be reused": Subscribe does not return nil when
\* it was called after a Stop had returned.
NotReusable == \A s \in late : spc[s] # "ok"

\* What NoLeak rests on: an open subscription is either in the hands of its
\* Subscribe call or registered, and after a Stop nothing is registered.
RegisteredInv ==
    /\ \A s \in Subscribers :
          /\ conn[s] = "open" => spc[s] \in {"register", "abort"} \/ s \in subs
          /\ spc[s] \in {"register", "abort"} => conn[s] = "open"
    /\ \A s \in subs : spc[s] = "ok" /\ conn[s] # "none"
    /\ LockHeld \/ StopReturned => stopped
    /\ StopReturned => subs = {}
    /\ \A s \in late : StopReturned /\ spc[s] # "ok"

=============================================================================
