--------------------------- MODULE ServerLifecycle ---------------------------
(***************************************************************************)
(* The server from its configuration to its exit (src/main.rs), around the *)
(* handlers of RulesetEndpoint: AppConfig::load and its defaults, the      *)
(* listener, a connection per request, the signal that ends axum's accept  *)
(* loop, the drain of what was accepted, and the end of the runtime, which *)
(* waits for encoders that run and drops those that do not yet.            *)
(*                                                                         *)
(* Connections are those of axum and hyper: an idle one is closed by the   *)
(* drain, one whose request is half read or being answered is not, and the *)
(* timeout of the router covers the handler only.                          *)
(***************************************************************************)
EXTENDS Integers, FiniteSets, Sequences

CONSTANTS
    Requests,
    DefaultHeavyTasks,  \* heavy_task_concurrency of AdvancedConfig::default
    MaxSources,
    Configs             \* what a configuration file, and the environment, may say

ASSUME LifecycleAssumption ==
    /\ IsFiniteSet(Requests)
    /\ DefaultHeavyTasks \in Nat \ {0}
    /\ MaxSources \in Nat \ {0}
    /\ \A c \in Configs : c.heavyTasks \in Nat

VARIABLES
    phase,    \* "loading", "binding", "serving", "draining", "stopping", or an end
    config,   \* the configuration
    conn,     \* conn[r]: the connection of r
    pc, worker, status, permits, queue  \* the handlers

server == <<phase, config>>
handlers == <<pc, worker, status, permits, queue>>
vars == <<server, conn, handlers>>

Endpoint == INSTANCE RulesetEndpoint WITH HeavyTasks <- DefaultHeavyTasks

Init ==
    /\ phase = "loading"
    /\ config \in Configs
    /\ conn = [r \in Requests |-> "none"]
    /\ Endpoint!Init

Move(r, place) == conn' = [conn EXCEPT ![r] = place]

-----------------------------------------------------------------------------
(* Start *)

\* normalize: a limit of zero is replaced by the default.
OrDefault(value, default) == IF value = 0 THEN default ELSE value

\* listen_port: the variable of the environment if it is a port.
ListenPort == IF config.envPort \in {"unset", "invalid"} THEN config.defaultPort ELSE config.envPort

\* Private subscriptions are read on start, when they are switched on and named.
Loads ==
    /\ config.file = "valid"
    /\ config.enablePrivate /\ config.privateFile # "" => config.privateFile = "valid"

\* AppConfig::load and AppState::new.
Load ==
    /\ phase = "loading"
    /\ IF Loads
       THEN /\ phase' = "binding"
            /\ permits' = OrDefault(config.heavyTasks, DefaultHeavyTasks)
       ELSE phase' = "failed" /\ UNCHANGED permits
    /\ UNCHANGED <<config, conn, pc, worker, status, queue>>

Bind ==
    /\ phase = "binding"
    /\ phase' = IF ListenPort = "taken" THEN "failed" ELSE "serving"
    /\ UNCHANGED <<config, conn, handlers>>

\* A signal before the handlers for signals are there ends the process.
KilledEarly ==
    /\ phase \in {"loading", "binding"}
    /\ phase' = "killed"
    /\ UNCHANGED <<config, conn, handlers>>

-----------------------------------------------------------------------------
(* Connections *)

Connect(r) ==
    /\ phase = "serving"
    /\ conn[r] = "none"
    /\ Move(r, "backlog")
    /\ UNCHANGED <<server, handlers>>

Accept(r) ==
    /\ phase = "serving"
    /\ conn[r] = "backlog"
    /\ Move(r, "fresh")
    /\ UNCHANGED <<server, handlers>>

SendPart(r) ==
    /\ conn[r] = "fresh"
    /\ Move(r, "partial")
    /\ UNCHANGED <<server, handlers>>

\* The head of a request is complete and its handler starts.
Request(r) ==
    /\ conn[r] \in {"fresh", "partial"}
    /\ Endpoint!Arrive(r)
    /\ Move(r, IF pc'[r] = "answered" THEN "writing" ELSE "handling")
    /\ UNCHANGED server

\* After a step of the handler: if it was the last, the response is written.
Handled(r) ==
    /\ conn' = IF pc'[r] = "answered" /\ pc[r] # "answered" THEN [conn EXCEPT ![r] = "writing"]
               ELSE conn
    /\ UNCHANGED server

\* Mutation: the timeout does not cover the downloads.
TimeOutAfterFetch(r) ==
    /\ pc[r] # "fetching"
    /\ Endpoint!Abandon(r)
    /\ status'[r] = 408
    /\ Move(r, "writing")
    /\ UNCHANGED server

\* TimeoutLayer answers 408 in place of the handler.
TimeOut(r) ==
    /\ Endpoint!Abandon(r)
    /\ status'[r] = 408
    /\ Move(r, "writing")
    /\ UNCHANGED server

\* The client goes away while its request is handled, or before or after.
LeaveHandler(r) ==
    /\ Endpoint!Abandon(r)
    /\ status'[r] = 0
    /\ Move(r, "left")
    /\ UNCHANGED server

Leave(r) ==
    /\ conn[r] \in {"backlog", "fresh", "partial", "writing", "idle"}
    /\ Move(r, "left")
    /\ UNCHANGED <<server, handlers>>

\* The response is read to its end; the connection is kept while nobody drains.
Deliver(r) ==
    /\ conn[r] = "writing"
    /\ Move(r, IF phase = "draining" THEN "delivered" ELSE "idle")
    /\ UNCHANGED <<server, handlers>>

-----------------------------------------------------------------------------
(* Stop *)

\* shutdown_signal returns; the listener is dropped with what it has not accepted.
Signal ==
    /\ phase = "serving"
    /\ phase' = "draining"
    /\ conn' = [r \in Requests |-> IF conn[r] = "backlog" THEN "reset" ELSE conn[r]]
    /\ UNCHANGED <<config, handlers>>

\* Mutation: the drain closes everything that is not being handled.
CloseUnhandled(r) ==
    /\ phase = "draining"
    /\ conn[r] \in {"fresh", "partial", "writing", "idle"}
    /\ Move(r, "closed")
    /\ UNCHANGED <<server, handlers>>

\* Each connection is told to end: it does so at once if it waits for a request.
CloseIdle(r) ==
    /\ phase = "draining"
    /\ conn[r] \in {"fresh", "idle"}
    /\ Move(r, IF conn[r] = "idle" THEN "delivered" ELSE "closed")
    /\ UNCHANGED <<server, handlers>>

Ended == {"none", "reset", "closed", "left", "delivered"}

\* Every connection has ended: serve returns, and main with it.
Drained ==
    /\ phase = "draining"
    /\ \A r \in Requests : conn[r] \in Ended
    /\ phase' = "stopping"
    /\ UNCHANGED <<config, conn, handlers>>

\* The runtime drops an encoder that has not started, with its permit.
DropWorker(r) ==
    /\ phase = "stopping"
    /\ worker[r] = "spawned"
    /\ worker' = [worker EXCEPT ![r] = "none"]
    /\ Endpoint!Release(pc)
    /\ UNCHANGED <<server, conn, status>>

Exit ==
    /\ phase = "stopping"
    /\ \A r \in Requests : ~Endpoint!Live(r)
    /\ phase' = "exited"
    /\ UNCHANGED <<config, conn, handlers>>

\* What the handlers do while there is a runtime that polls them.
HandlerStep(r) ==
    /\ phase \in {"serving", "draining"}
    /\ \/ Endpoint!FetchFails(r) \/ Endpoint!Acquire(r) \/ Endpoint!Granted(r)
       \/ Endpoint!Respond(r) \/ Endpoint!StartWorker(r)
    /\ Handled(r)

EndWorker(r) == phase # "exited" /\ Endpoint!EndWorker(r) /\ Handled(r)

Stopped == phase \in {"failed", "killed", "exited"} /\ UNCHANGED vars

Next ==
    \/ Load \/ Bind \/ KilledEarly \/ Signal \/ Drained \/ Exit \/ Stopped
    \/ \E r \in Requests :
        \/ Connect(r) \/ Accept(r) \/ SendPart(r) \/ Request(r) \/ HandlerStep(r) \/ EndWorker(r)
        \/ TimeOut(r) \/ LeaveHandler(r) \/ Leave(r) \/ Deliver(r) \/ CloseIdle(r) \/ DropWorker(r)

\* Timeouts fire, encoders end, and a client ends what it has begun or leaves.
\* Nothing is assumed of downloads, of the wait for a permit or of signals.
Fairness ==
    /\ WF_vars(Drained) /\ WF_vars(Exit)
    /\ \A r \in Requests :
        /\ WF_vars(TimeOut(r))
        /\ WF_vars(EndWorker(r))
        /\ WF_vars(CloseIdle(r))
        /\ WF_vars(DropWorker(r))
        /\ WF_vars(Request(r) \/ Leave(r))
        /\ WF_vars(Deliver(r) \/ Leave(r))

Spec == Init /\ [][Next]_vars

FairSpec == Spec /\ Fairness

-----------------------------------------------------------------------------
(* Properties *)

\* Whoever sent a request before the server stopped has the answer or went away
\* first: no response is cut off by the shutdown, and the process ends with no
\* encoder running and every permit back (main in main.rs).
NoAnswerCutShort ==
    phase \in {"stopping", "exited"} =>
        /\ \A r \in Requests :
              /\ pc[r] \in {"idle", "answered"}
              /\ pc[r] = "answered" => conn[r] \in {"delivered", "left"}
              /\ status[r] # 0 => conn[r] \in {"delivered", "left"}
        /\ phase = "exited" => permits = OrDefault(config.heavyTasks, DefaultHeavyTasks)

\* A server that was told to stop does, although nothing makes a download end:
\* timeouts, encoders and clients do.
ShutdownCompletes == phase = "draining" ~> phase = "exited"

=============================================================================
