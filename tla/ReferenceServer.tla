--------------------------- MODULE ReferenceServer ---------------------------
(***************************************************************************)
(* cmd/server: the life of the reference server from its start to its      *)
(* exit, while clients send requests to the health and readiness probes    *)
(* and to the tenant-aware routes.                                         *)
(*                                                                         *)
(* http.Server is external: Shutdown closes the listener, then waits for   *)
(* the requests in progress or for its context.  Each request comes on a   *)
(* connection of its own.  What a tenant's request is answered depends on  *)
(* the Manager and on RBAC and is a free choice here; a request may also   *)
(* take for ever, if only because its client does not read the answer.     *)
(***************************************************************************)
CONSTANTS Requests, None

VARIABLES
    main,        \* where the goroutine of main is
    serving,     \* the goroutine that runs ListenAndServe
    ready,       \* ready, the atomic.Bool
    signalled,   \* ctx of signal.NotifyContext is done
    shutdown,    \* http.Server: Shutdown was called
    closeFailed, \* http.Server: closing the listener failed
    exit,        \* how the process ended
    req,         \* per request: where it is and what it was answered
    listenFailed \* history: ListenAndServe returned an error of its own

lifeVars == <<main, serving, ready, signalled, shutdown, closeFailed, exit, listenFailed>>
serverVars == <<lifeVars, req>>

\* late: accepted after main had taken notice of the signal.
RequestStates ==
    [pc : {"accepted", "loaded", "inHandler", "answered", "cut"},
     route : {"healthz", "readyz", "tenant"}, late : BOOLEAN, status : {0, 200, 403, 404, 503}]

ASSUME NoneAssumption == None \notin RequestStates \cup {"clean", "timeout", "error", "killed"}

\* The states of the server; no tenant route answers 500, the answer of a
\* handler that finds no tenant in its context.
ServerTypeOK ==
    /\ main \in {"init", "started", "running", "notReady", "stopping", "draining", "ended"}
    /\ serving \in {"none", "launched", "listening", "closed"}
    /\ ready \in BOOLEAN /\ signalled \in BOOLEAN
    /\ shutdown \in BOOLEAN /\ closeFailed \in BOOLEAN /\ listenFailed \in BOOLEAN
    /\ exit \in {None, "clean", "timeout", "error", "killed"}
    /\ req \in [Requests -> RequestStates \cup {None}]

\* main, up to the top-level router: nothing can be seen of it from outside.
ServerInit ==
    /\ main = "init"
    /\ serving = "none"
    /\ ready = FALSE /\ signalled = FALSE
    /\ shutdown = FALSE /\ closeFailed = FALSE /\ listenFailed = FALSE
    /\ exit = None
    /\ req = [r \in Requests |-> None]

Alive == exit = None

InProgress(r) == req[r] # None /\ req[r].pc \notin {"answered", "cut"}

\* The process ends; requests in progress are cut off.
Exit(how) ==
    /\ exit' = how
    /\ req' = [r \in Requests |-> IF InProgress(r) THEN [req[r] EXCEPT !.pc = "cut"] ELSE req[r]]

-----------------------------------------------------------------------------
(***************************************************************************)
(* main and its goroutine                                                  *)
(***************************************************************************)
\* signal.NotifyContext, the http.Server, and the go statement.
Start ==
    /\ Alive /\ main = "init"
    /\ main' = "started"
    /\ serving' = "launched"
    /\ UNCHANGED <<ready, signalled, shutdown, closeFailed, exit, listenFailed, req>>

\* ListenAndServe opens the listener, or returns ErrServerClosed at once when
\* Shutdown came first.
Listen ==
    /\ Alive /\ serving = "launched"
    /\ serving' = IF shutdown THEN "closed" ELSE "listening"
    /\ UNCHANGED <<main, ready, signalled, shutdown, closeFailed, exit, listenFailed, req>>

\* ListenAndServe cannot listen or accept: os.Exit(1).
ListenFails ==
    /\ Alive /\ serving \in {"launched", "listening"}
    /\ ~shutdown
    /\ listenFailed' = TRUE
    /\ Exit("error")
    /\ UNCHANGED <<main, serving, ready, signalled, shutdown, closeFailed>>

ServeReturns_AnyError ==
    /\ Alive /\ serving = "listening"
    /\ shutdown
    /\ serving' = "closed"
    /\ Exit("error")
    /\ UNCHANGED <<main, ready, signalled, shutdown, closeFailed, listenFailed>>

\* ListenAndServe returns ErrServerClosed after Shutdown: not an error.
ServeReturns ==
    /\ Alive /\ serving = "listening"
    /\ shutdown
    /\ serving' = "closed"
    /\ UNCHANGED <<main, ready, signalled, shutdown, closeFailed, exit, listenFailed, req>>

MarkReady ==
    /\ Alive /\ main = "started"
    /\ main' = "running"
    /\ ready' = TRUE
    /\ UNCHANGED <<serving, signalled, shutdown, closeFailed, exit, listenFailed, req>>

MarkNotReady_Forgotten ==
    /\ Alive /\ main = "running"
    /\ signalled
    /\ main' = "notReady"
    /\ UNCHANGED <<serving, ready, signalled, shutdown, closeFailed, exit, listenFailed, req>>

\* <-ctx.Done(), then the first step of the shutdown.
MarkNotReady ==
    /\ Alive /\ main = "running"
    /\ signalled
    /\ main' = "notReady"
    /\ ready' = FALSE
    /\ UNCHANGED <<serving, signalled, shutdown, closeFailed, exit, listenFailed, req>>

\* stop(): from now on a signal has its default effect.
StopSignals ==
    /\ Alive /\ main = "notReady"
    /\ main' = "stopping"
    /\ UNCHANGED <<serving, ready, signalled, shutdown, closeFailed, exit, listenFailed, req>>

\* server.Shutdown closes the listener.
BeginShutdown ==
    /\ Alive /\ main = "stopping"
    /\ main' = "draining"
    /\ shutdown' = TRUE
    /\ closeFailed' \in IF serving = "listening" THEN BOOLEAN ELSE {FALSE}
    /\ UNCHANGED <<serving, ready, signalled, exit, listenFailed, req>>

\* http.Server.Shutdown: every connection is idle.
NoneInProgress == \A r \in Requests : ~InProgress(r)

Drained_NotAwaited ==
    /\ Alive /\ main = "draining"
    /\ main' = "ended"
    /\ Exit(IF closeFailed THEN "error" ELSE "clean")
    /\ UNCHANGED <<serving, ready, signalled, shutdown, closeFailed, listenFailed>>

\* server.Shutdown returns nil, or the error of closing the listener.
Drained ==
    /\ Alive /\ main = "draining"
    /\ NoneInProgress
    /\ main' = "ended"
    /\ Exit(IF closeFailed THEN "error" ELSE "clean")
    /\ UNCHANGED <<serving, ready, signalled, shutdown, closeFailed, listenFailed>>

DeadlineExceeded_Never == FALSE /\ UNCHANGED serverVars

\* shutdownCtx expires first: a warning, and main returns.
DeadlineExceeded ==
    /\ Alive /\ main = "draining"
    /\ main' = "ended"
    /\ Exit("timeout")
    /\ UNCHANGED <<serving, ready, signalled, shutdown, closeFailed, listenFailed>>

-----------------------------------------------------------------------------
(***************************************************************************)
(* The outside: signals and requests                                       *)
(***************************************************************************)
\* SIGINT or SIGTERM; without the handler of NotifyContext it kills.
Signal ==
    /\ Alive
    /\ \/ /\ main \notin {"init", "stopping", "draining"}
          /\ signalled' = TRUE
          /\ UNCHANGED <<exit, req>>
       \/ /\ main \in {"init", "stopping", "draining"}
          /\ Exit("killed")
          /\ UNCHANGED signalled
    /\ UNCHANGED <<main, serving, ready, shutdown, closeFailed, listenFailed>>

\* A request is accepted and routed: the probes do not pass through nethttp.Wrap.
Accept(r, route) ==
    /\ Alive /\ serving = "listening" /\ ~shutdown
    /\ req[r] = None
    /\ req' = [req EXCEPT ![r] = [pc |-> "accepted", route |-> route, status |-> 0,
                                  late |-> main \in {"notReady", "stopping"}]]
    /\ UNCHANGED lifeVars

At(r, pc, route) == Alive /\ req[r] # None /\ req[r].pc = pc /\ req[r].route = route

MoveOn(r, pc, status) ==
    /\ req' = [req EXCEPT ![r] = [pc |-> pc, status |-> status,
                                  route |-> req[r].route, late |-> req[r].late]]
    /\ UNCHANGED lifeVars

Answer(r, status) == MoveOn(r, "answered", status)

healthzHandler(r) == At(r, "accepted", "healthz") /\ Answer(r, 200)

\* readyzHandler: ready.Load(), then the answer.
readyzHandler(r) ==
    \/ At(r, "accepted", "readyz") /\ MoveOn(r, "loaded", IF ready THEN 200 ELSE 503)
    \/ At(r, "loaded", "readyz") /\ Answer(r, req[r].status)

\* nethttp.Wrap: 404 when the Manager cannot resolve the tenant.
Wrap(r) ==
    /\ At(r, "accepted", "tenant")
    /\ \/ Answer(r, 404)
       \/ MoveOn(r, "inHandler", 0)

\* The application routes: Wrap has put the tenant into the context, so their
\* answer 500 is out of reach; RBAC may refuse, the mux may know no such route.
Route(r) == At(r, "inHandler", "tenant") /\ \E status \in {200, 403, 404} : Answer(r, status)

ServerNext ==
    \/ Start \/ Listen \/ ListenFails \/ ServeReturns
    \/ MarkReady \/ MarkNotReady \/ StopSignals \/ BeginShutdown \/ Drained \/ DeadlineExceeded
    \/ Signal
    \/ \E r \in Requests :
          \/ \E route \in {"healthz", "readyz", "tenant"} : Accept(r, route)
          \/ healthzHandler(r) \/ readyzHandler(r) \/ Wrap(r) \/ Route(r)

ServerSpec == ServerInit /\ [][ServerNext]_serverVars

\* The goroutine of main is scheduled and the timer of shutdownCtx fires.
\* Nothing is assumed of the handlers.
FairServerSpec ==
    /\ ServerSpec
    /\ WF_serverVars(MarkReady) /\ WF_serverVars(MarkNotReady) /\ WF_serverVars(StopSignals)
    /\ WF_serverVars(BeginShutdown) /\ WF_serverVars(Drained) /\ WF_serverVars(DeadlineExceeded)

-----------------------------------------------------------------------------
\* "server shut down cleanly" is true: every request the server had accepted,
\* at whatever stage of the shutdown, was answered.
CleanMeansAnswered ==
    exit = "clean" => \A r \in Requests : req[r] # None => req[r].pc = "answered"

\* A load balancer that probes a server which is shutting down is told so: no
\* probe accepted after main noticed the signal is answered "ready".
DrainingIsNotReady ==
    \A r \in Requests :
        req[r] # None /\ req[r].late /\ req[r].pc = "answered" /\ req[r].route = "readyz"
            => req[r].status = 503

\* What keeps the two above: nothing is cut off while the process lives; ready
\* is set only between its two stores; a request is late only after the second
\* one, so that the probe it makes has read FALSE.
ServerInv ==
    /\ Alive => \A r \in Requests : req[r] # None => req[r].pc # "cut"
    /\ ready => main = "running"
    /\ \A r \in Requests :
          req[r] # None /\ req[r].late =>
              /\ main \in {"notReady", "stopping", "draining", "ended"}
              /\ req[r].route = "readyz" /\ req[r].pc \in {"loaded", "answered"}
                     => req[r].status = 503

\* The process reports failure only when the listener failed: a shutdown ends
\* with exit code 0, whether or not the server had begun to listen.
FailureIsReal == exit = "error" => listenFailed \/ closeFailed

\* After a signal the process ends, also when a request never does.
SignalEndsProcess == signalled ~> exit # None

=============================================================================
