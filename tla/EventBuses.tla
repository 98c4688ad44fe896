----------------------------- MODULE EventBuses -----------------------------
(***************************************************************************)
(* The two buses an application may be configured with.  They share the    *)
(* variables of Subscriptions; backend says which one it is.               *)
(***************************************************************************)
EXTENDS RedisEventBus

VARIABLE backend

NATS == INSTANCE NATSEventBus

busVars == <<backend, vars>>

BusInit ==
    /\ backend \in {"redis", "nats"}
    /\ Init

\* The background goroutines are Redis's alone.
BusNext ==
    /\ UNCHANGED backend
    /\ \/ backend = "redis" /\ Next
       \/ backend = "nats" /\ NATS!Next /\ UNCHANGED loop

BusSpec == BusInit /\ [][BusNext]_busVars

\* The fairness of RedisEventBus.
FairBusSpec ==
    /\ BusSpec
    /\ \A k \in Stoppers :
          WF_vars(\/ backend = "redis" /\ StopRuns(k)
                  \/ backend = "nats" /\ NATS!StopRuns(k) /\ UNCHANGED loop)
    /\ \A s \in Subscribers : WF_vars(backend = "redis" /\ (ReceiveStep(s) \/ LoopEnd(s)))

=============================================================================
