----------------------- MODULE ServerLifecycleProofs -----------------------
(***************************************************************************)
(* A theorem about ServerLifecycle, for every finite set of requests and   *)
(* whatever the configuration says.  What RulesetEndpointProofs shows of   *)
(* the handlers is used as it is: its lemmas about the steps hold for any  *)
(* number of permits.                                                      *)
(***************************************************************************)
EXTENDS ServerLifecycle, FiniteSetTheorems, TLAPS

Handlers == INSTANCE RulesetEndpointProofs WITH HeavyTasks <- DefaultHeavyTasks

Total == OrDefault(config.heavyTasks, DefaultHeavyTasks)

Connection == {"none", "backlog", "fresh", "partial", "handling", "writing", "idle"}
                  \cup {"reset", "closed", "left", "delivered"}

Unfinished == {"fetching", "queued", "granted", "encoding"}

Running == {"serving", "draining", "stopping", "exited"}

\* Nothing has happened to a request yet.
Untouched ==
    /\ pc = [r \in Requests |-> "idle"]
    /\ worker = [r \in Requests |-> "none"]
    /\ status = [r \in Requests |-> 0]
    /\ queue = <<>>
    /\ conn = [r \in Requests |-> "none"]

\* A connection is being handled exactly while its handler is at work, and has
\* a response to write or to have written only when the handler answered.
ConnectionFollows(r) ==
    /\ pc[r] = "idle" => conn[r] \in {"none", "backlog", "fresh", "partial", "reset", "closed", "left"}
    /\ pc[r] \in Unfinished => conn[r] = "handling"
    /\ pc[r] = "answered" => conn[r] \in {"writing", "idle", "delivered", "left"}
    /\ status[r] # 0 => pc[r] = "answered"

IInv ==
    /\ config \in Configs
    /\ conn \in [Requests -> Connection]
    /\ phase \in {"loading", "binding", "failed", "killed"} \cup Running
    /\ phase \notin Running => Untouched
    /\ phase \in Running \cup {"binding"} => Handlers!Sound(Total)
    /\ \A r \in Requests : ConnectionFollows(r)
    /\ phase \in {"stopping", "exited"} => \A r \in Requests : conn[r] \in Ended
    /\ phase = "exited" => \A r \in Requests : ~Endpoint!Live(r)

\* The assumption of RulesetEndpoint holds of its instance here.
LEMMA HandlersAssumption == Handlers!EndpointAssumption
  BY LifecycleAssumption DEF Handlers!EndpointAssumption, IsFiniteSet, Handlers!IsFiniteSet

\* A limit of zero is replaced: there is always a permit to give out.
LEMMA TotalType == config \in Configs => Total \in Nat
  BY LifecycleAssumption DEF Total, OrDefault

\* The number of permits is that of the configuration, which does not change.
LEMMA TotalStays ==
  ASSUME NEW total \in Nat, total = Total, Handlers!Sound(total)', UNCHANGED config
  PROVE  Handlers!Sound(Total)'
  BY DEF Handlers!Sound, Handlers!Conserved, Total

\* Permits that nobody has asked for are all free.
LEMMA UntouchedIsSound == Untouched /\ permits \in Nat => Handlers!Sound(permits)
<1> SUFFICES ASSUME Untouched, permits \in Nat PROVE Handlers!Sound(permits)
  OBVIOUS
<1>1. Handlers!Holders = {}
  BY DEF Untouched, Handlers!Holders, Handlers!Live
<1>2. Cardinality({}) = 0 /\ Handlers!Cardinality({}) = 0
  BY FS_EmptySet, HandlersAssumption, Handlers!FS_EmptySet DEF Handlers!Cardinality, Cardinality
<1>3. Handlers!Conserved(permits)
  BY <1>1, <1>2 DEF Handlers!Conserved
<1> QED
  BY <1>3 DEF Untouched, Handlers!Sound, Handlers!TypeOK, Handlers!Place, Handlers!Outcome,
       Handlers!Code, Handlers!NoIdlePermit, Handlers!QueueIsExact, Handlers!NoWorkerBeforePermit

\* The handlers here are those of the module the lemmas are about.
LEMMA SameHandlers ==
  ASSUME NEW r \in Requests
  PROVE  /\ Endpoint!Arrive(r) => Handlers!Arrive(r)
         /\ Endpoint!FetchFails(r) => Handlers!FetchFails(r)
         /\ Endpoint!Acquire(r) => Handlers!Acquire(r)
         /\ Endpoint!Granted(r) => Handlers!Granted(r)
         /\ Endpoint!StartWorker(r) => Handlers!StartWorker(r)
         /\ Endpoint!EndWorker(r) => Handlers!EndWorker(r)
         /\ Endpoint!Respond(r) => Handlers!Respond(r)
         /\ Endpoint!Abandon(r) => Handlers!Abandon(r)
<1>1. Endpoint!Arrive(r) => Handlers!Arrive(r)
  BY DEF Endpoint!Arrive, Handlers!Arrive, Endpoint!Query, Handlers!Query, Endpoint!Refusal,
       Handlers!Refusal, Endpoint!Answer, Handlers!Answer
<1>2. Endpoint!FetchFails(r) => Handlers!FetchFails(r)
  BY DEF Endpoint!FetchFails, Handlers!FetchFails, Endpoint!Answer, Handlers!Answer
<1>3. Endpoint!Acquire(r) => Handlers!Acquire(r)
  BY DEF Endpoint!Acquire, Handlers!Acquire, Endpoint!Spawn, Handlers!Spawn
<1>4. Endpoint!Granted(r) => Handlers!Granted(r)
  BY DEF Endpoint!Granted, Handlers!Granted, Endpoint!Spawn, Handlers!Spawn
<1>5. Endpoint!StartWorker(r) => Handlers!StartWorker(r)
  BY DEF Endpoint!StartWorker, Handlers!StartWorker
<1>6. Endpoint!EndWorker(r) => Handlers!EndWorker(r)
  BY DEF Endpoint!EndWorker, Handlers!EndWorker, Endpoint!Release, Handlers!Release,
       Endpoint!Outcome, Handlers!Outcome
<1>7. Endpoint!Respond(r) => Handlers!Respond(r)
  BY DEF Endpoint!Respond, Handlers!Respond, Endpoint!Answer, Handlers!Answer,
       Endpoint!Outcome, Handlers!Outcome, Endpoint!StatusOf, Handlers!StatusOf
<1>8. Endpoint!Abandon(r) => Handlers!Abandon(r)
  BY DEF Endpoint!Abandon, Handlers!Abandon, Endpoint!Release, Handlers!Release,
       Endpoint!Answer, Handlers!Answer, Endpoint!RemoveAt, Handlers!RemoveAt
<1> QED
  BY <1>1, <1>2, <1>3, <1>4, <1>5, <1>6, <1>7, <1>8

\* The invariant holds before anything is read.
LEMMA InitIInv == Init => IInv
<1> SUFFICES ASSUME Init PROVE IInv
  OBVIOUS
<1>1. Untouched /\ phase = "loading" /\ config \in Configs
  BY DEF Init, Untouched, Endpoint!Init
<1>2. \A r \in Requests : ConnectionFollows(r)
  BY <1>1 DEF Untouched, ConnectionFollows, Unfinished
<1>3. conn \in [Requests -> Connection]
  BY <1>1 DEF Untouched, Connection
<1> QED
  BY <1>1, <1>2, <1>3 DEF IInv, Running

\* A step of one handler that leaves its connection as it should be.
LEMMA HandlerMoves ==
  ASSUME IInv, phase \in Running, NEW r \in Requests,
         NEW place \in Connection,
         NEW total \in Nat, total = Total, Handlers!Sound(total)',
         Handlers!OthersStay(r),
         \A x \in Requests \ {r} : status'[x] = status[x],
         conn' = [conn EXCEPT ![r] = place],
         ConnectionFollows(r)',
         phase \in {"stopping", "exited"} => place \in Ended,
         phase = "exited" => \A x \in Requests : ~Endpoint!Live(x)',
         UNCHANGED server
  PROVE  IInv'
<1>1. config' = config /\ phase' = phase
  BY DEF server
<1>2. Handlers!Sound(Total)'
  BY <1>1, TotalStays
<1>3. conn' \in [Requests -> Connection] /\ \A x \in Requests \ {r} : conn'[x] = conn[x]
  BY DEF IInv
<1>4. ASSUME NEW x \in Requests
      PROVE  ConnectionFollows(x)'
  <2>1. CASE x = r
    BY <2>1
  <2>2. CASE x # r
    <3>1. /\ conn'[x] = conn[x] /\ status'[x] = status[x]
          /\ pc'[x] = pc[x] \/ (pc[x] = "queued" /\ pc'[x] = "granted")
      BY <2>2, <1>3 DEF Handlers!OthersStay
    <3>2. ConnectionFollows(x)
      BY DEF IInv
    <3>3. CASE pc'[x] = pc[x]
      BY <3>1, <3>2, <3>3 DEF ConnectionFollows
    <3>4. CASE pc[x] = "queued" /\ pc'[x] = "granted"
      BY <3>1, <3>2, <3>4 DEF ConnectionFollows, Unfinished
    <3> QED
      BY <3>1, <3>3, <3>4
  <2> QED
    BY <2>1, <2>2
<1>5. phase' \in {"stopping", "exited"} => \A x \in Requests : conn'[x] \in Ended
  <2> SUFFICES ASSUME phase \in {"stopping", "exited"}, NEW x \in Requests
               PROVE  conn'[x] \in Ended
    BY <1>1
  <2>1. conn[x] \in Ended
    BY DEF IInv
  <2>2. CASE x = r
    BY <2>2 DEF IInv
  <2>3. CASE x # r
    BY <2>1, <2>3, <1>3
  <2> QED
    BY <2>2, <2>3
<1> QED
  BY <1>1, <1>2, <1>3, <1>4, <1>5 DEF IInv, Running

\* A connection that moves while its handler does not.
LEMMA ConnectionMoves ==
  ASSUME IInv, phase \in Running, NEW r \in Requests, NEW place \in Connection,
         conn' = [conn EXCEPT ![r] = place],
         pc[r] = "idle" => place \in {"none", "backlog", "fresh", "partial", "reset", "closed", "left"},
         pc[r] \notin Unfinished,
         pc[r] = "answered" => place \in {"writing", "idle", "delivered", "left"},
         phase \in {"stopping", "exited"} => place \in Ended,
         UNCHANGED <<server, handlers>>
  PROVE  IInv'
<1>1. /\ pc' = pc /\ worker' = worker /\ status' = status /\ permits' = permits
      /\ queue' = queue /\ UNCHANGED server
  BY DEF handlers
<1>2. PICK total \in Nat : total = Total
  BY TotalType DEF IInv
<1>3. Handlers!Sound(total)
  BY <1>2 DEF IInv, Handlers!Sound, Handlers!Conserved
<1>4. Handlers!Sound(total)'
  BY <1>1, <1>3, Handlers!StutterStep, HandlersAssumption DEF Handlers!vars
<1>5. conn'[r] = place
  BY DEF IInv
<1>6. ConnectionFollows(r)'
  BY <1>1, <1>5 DEF IInv, ConnectionFollows
<1>7. Handlers!OthersStay(r) /\ \A x \in Requests \ {r} : status'[x] = status[x]
  BY <1>1 DEF Handlers!OthersStay
<1>8. phase = "exited" => \A x \in Requests : ~Endpoint!Live(x)'
  BY <1>1 DEF IInv, Endpoint!Live
<1> QED
  BY <1>1, <1>2, <1>4, <1>6, <1>7, <1>8, HandlerMoves

\* What one client and its connection do.
LEMMA ConnectionStep ==
  ASSUME IInv, NEW r \in Requests,
         Connect(r) \/ Accept(r) \/ SendPart(r) \/ Leave(r) \/ Deliver(r) \/ CloseIdle(r)
  PROVE  IInv'
<1> ConnectionFollows(r) /\ conn[r] \in Connection
  BY DEF IInv
<1>1. phase \in Running
  <2>1. phase = "serving" \/ conn[r] # "none"
    BY DEF Connect, Accept, SendPart, Leave, Deliver, CloseIdle
  <2> QED
    BY <2>1 DEF IInv, Untouched, Running
<1>2. pc[r] \in {"idle", "answered"} \cup Unfinished
  BY <1>1 DEF IInv, Handlers!Sound, Handlers!TypeOK, Handlers!Place, Unfinished
<1>3. conn[r] # "handling" /\ UNCHANGED <<server, handlers>>
  BY DEF Connect, Accept, SendPart, Leave, Deliver, CloseIdle
<1>4. pc[r] \notin Unfinished
  BY <1>3 DEF ConnectionFollows
<1>5. phase \in {"stopping", "exited"} => conn[r] \in Ended
  BY DEF IInv
<1> USE <1>1, <1>2, <1>3, <1>4, <1>5, ConnectionMoves
<1>6. CASE Connect(r)
  <2>1. conn[r] = "none" /\ phase = "serving" /\ conn' = [conn EXCEPT ![r] = "backlog"]
    BY <1>6 DEF Connect, Move
  <2> QED
    BY <2>1 DEF ConnectionFollows, Connection
<1>7. CASE Accept(r)
  <2>1. conn[r] = "backlog" /\ phase = "serving" /\ conn' = [conn EXCEPT ![r] = "fresh"]
    BY <1>7 DEF Accept, Move
  <2> QED
    BY <2>1 DEF ConnectionFollows, Connection
<1>8. CASE SendPart(r)
  <2>1. conn[r] = "fresh" /\ conn' = [conn EXCEPT ![r] = "partial"]
    BY <1>8 DEF SendPart, Move
  <2> QED
    BY <2>1 DEF ConnectionFollows, Connection, Ended
<1>9. CASE Leave(r)
  <2>1. conn' = [conn EXCEPT ![r] = "left"]
    BY <1>9 DEF Leave, Move
  <2> QED
    BY <2>1 DEF Connection, Ended
<1>10. CASE Deliver(r)
  <2> DEFINE place == IF phase = "draining" THEN "delivered" ELSE "idle"
  <2>1. conn[r] = "writing" /\ conn' = [conn EXCEPT ![r] = place]
    BY <1>10 DEF Deliver, Move
  <2>2. phase \notin {"stopping", "exited"} /\ pc[r] # "idle"
    BY <2>1 DEF Ended, ConnectionFollows
  <2>3. place \in Connection /\ place \in {"writing", "idle", "delivered", "left"}
    BY DEF Connection
  <2> HIDE DEF place
  <2> QED
    BY <2>1, <2>2, <2>3
<1>11. CASE CloseIdle(r)
  <2> DEFINE place == IF conn[r] = "idle" THEN "delivered" ELSE "closed"
  <2>1. conn[r] \in {"fresh", "idle"} /\ phase = "draining" /\ conn' = [conn EXCEPT ![r] = place]
    BY <1>11 DEF CloseIdle, Move
  <2>2. /\ place \in Connection
        /\ pc[r] = "idle" => place = "closed"
        /\ pc[r] = "answered" => place = "delivered"
    BY <2>1 DEF Connection, ConnectionFollows
  <2> HIDE DEF place
  <2> QED
    BY <2>1, <2>2
<1> QED
  BY <1>6, <1>7, <1>8, <1>9, <1>10, <1>11

\* The start: the permits are those the configuration asks for.
LEMMA StartStep == ASSUME IInv, Load \/ Bind \/ KilledEarly PROVE IInv'
<1>1. Untouched /\ config' = config /\ UNCHANGED <<pc, worker, status, queue, conn>>
  BY DEF IInv, Running, Load, Bind, KilledEarly, handlers
<1>2. Untouched' /\ \A r \in Requests : ConnectionFollows(r)'
  BY <1>1 DEF IInv, Untouched, ConnectionFollows
<1>3. conn' \in [Requests -> Connection] /\ config' \in Configs
  BY <1>1 DEF IInv
<1>4. phase' \in {"binding", "failed", "serving", "killed"}
  BY DEF Load, Bind, KilledEarly
<1>5. phase' \in {"binding", "serving"} => Handlers!Sound(Total)'
  <2>1. CASE Load /\ phase' = "binding"
    <3>1. permits' = Total
      BY <2>1 DEF Load, Total
    <3>2. Total \in Nat /\ Total' = Total
      BY <1>1, TotalType DEF IInv, Total
    <3>3. (Untouched /\ permits \in Nat => Handlers!Sound(permits))'
      BY UntouchedIsSound, PTL
    <3> QED
      BY <1>2, <3>1, <3>2, <3>3 DEF Handlers!Sound, Handlers!Conserved
  <2>2. CASE Bind
    <3>1. Handlers!Sound(Total)
      BY <2>2 DEF Bind, IInv, Running
    <3>2. PICK total \in Nat : total = Total
      BY TotalType DEF IInv
    <3>3. Handlers!Sound(total)
      BY <3>1, <3>2 DEF Handlers!Sound, Handlers!Conserved
    <3>4. Handlers!Sound(total)'
      BY <2>2, <3>3, Handlers!StutterStep, HandlersAssumption DEF Bind, handlers, Handlers!vars
    <3> QED
      BY <1>1, <3>2, <3>4, TotalStays
  <2> QED
    BY <2>1, <2>2 DEF Load, KilledEarly
<1> QED
  BY <1>1, <1>2, <1>3, <1>4, <1>5 DEF IInv, Running

\* The signal ends what is accepted by nobody; the rest is waited for.
LEMMA StopStep == ASSUME IInv, Signal \/ Drained \/ Exit PROVE IInv'
<1>1. /\ phase \in Running /\ phase' \in Running /\ phase' # "serving"
      /\ config' = config /\ UNCHANGED <<pc, worker, status, permits, queue>>
  BY DEF Running, Signal, Drained, Exit, handlers
<1>2. Handlers!Sound(Total)'
  <2>1. PICK total \in Nat : total = Total
    BY TotalType DEF IInv
  <2>2. Handlers!Sound(total)
    BY <1>1, <2>1 DEF IInv, Handlers!Sound, Handlers!Conserved
  <2>3. Handlers!Sound(total)'
    BY <1>1, <2>2, Handlers!StutterStep, HandlersAssumption DEF Handlers!vars
  <2> QED
    BY <1>1, <2>1, <2>3, TotalStays
<1>3. ASSUME NEW r \in Requests
      PROVE  ConnectionFollows(r)' /\ conn'[r] \in Connection
  <2>1. conn[r] \in Connection /\ ConnectionFollows(r)
    BY DEF IInv
  <2>2. conn'[r] = IF Signal /\ conn[r] = "backlog" THEN "reset" ELSE conn[r]
    BY DEF Signal, Drained, Exit
  <2> QED
    BY <1>1, <2>1, <2>2 DEF ConnectionFollows, Connection, Unfinished
<1>4. DOMAIN conn' = Requests /\ conn' = [r \in Requests |-> conn'[r]]
  BY DEF Signal, Drained, Exit, IInv
<1>5. phase' \in {"stopping", "exited"} => \A r \in Requests : conn'[r] \in Ended
  BY DEF IInv, Signal, Drained, Exit
<1>6. phase' = "exited" => \A r \in Requests : ~Endpoint!Live(r)'
  BY <1>1 DEF Signal, Drained, Exit, Endpoint!Live
<1> QED
  BY <1>1, <1>2, <1>3, <1>4, <1>5, <1>6 DEF IInv, Running

\* What a handler, its encoder or its timeout does, on a server that runs.
LEMMA HandlerStepStep ==
  ASSUME IInv, NEW r \in Requests,
         Request(r) \/ HandlerStep(r) \/ EndWorker(r) \/ TimeOut(r) \/ LeaveHandler(r) \/ DropWorker(r)
  PROVE  IInv'
<1> DEFINE old == conn[r]
<1>1. ConnectionFollows(r) /\ conn[r] \in Connection /\ UNCHANGED server
  BY DEF IInv, Request, HandlerStep, EndWorker, TimeOut, LeaveHandler, DropWorker, Handled
<1>2. phase \in Running
  <2> SUFFICES ASSUME Untouched PROVE phase \in Running
    BY DEF IInv
  <2>1. pc[r] = "idle" /\ worker[r] = "none" /\ conn[r] = "none"
    BY DEF Untouched
  <2>2. ~Request(r) /\ ~EndWorker(r) /\ ~TimeOut(r) /\ ~LeaveHandler(r)
    BY <2>1 DEF Request, EndWorker, TimeOut, LeaveHandler, Endpoint!Abandon, Endpoint!EndWorker
  <2> QED
    BY <2>2 DEF HandlerStep, DropWorker, Running
<1>3. PICK total \in Nat : total = Total
  BY TotalType DEF IInv
<1>4. Handlers!Sound(total)
  BY <1>2, <1>3 DEF IInv, Handlers!Sound, Handlers!Conserved
<1>5. /\ pc \in [Requests -> Handlers!Place] /\ status \in [Requests -> Handlers!Code]
      /\ worker \in [Requests -> {"none", "spawned", "running"} \cup Handlers!Outcome]
  BY <1>4 DEF Handlers!Sound, Handlers!TypeOK
<1>6. conn[r] = "handling" => phase \notin {"stopping", "exited"}
  BY DEF IInv, Ended
<1>7. conn \in [Requests -> Connection] /\ conn = [conn EXCEPT ![r] = conn[r]]
  BY DEF IInv
<1> USE SameHandlers, HandlersAssumption
<1>8. CASE Request(r)
  <2> DEFINE place == IF pc'[r] = "answered" THEN "writing" ELSE "handling"
  <2>1. /\ Handlers!Arrive(r) /\ conn' = [conn EXCEPT ![r] = place]
        /\ conn[r] \in {"fresh", "partial"} /\ place \in Connection
    BY <1>8 DEF Request, Move, Connection
  <2>2. Handlers!Sound(total)'
    BY <1>4, <2>1, Handlers!ArriveStep
  <2>3. /\ pc'[r] \in {"answered", "fetching"} /\ worker' = worker
        /\ \A x \in Requests \ {r} : pc'[x] = pc[x] /\ status'[x] = status[x]
        /\ pc'[r] = "fetching" => status'[r] = status[r] /\ pc[r] = "idle"
    BY <2>1, <1>5 DEF Handlers!Arrive, Handlers!Answer
  <2>4. conn'[r] = place
    BY <2>1, <1>7
  <2>5. ConnectionFollows(r)'
    BY <2>3, <2>4, <1>1 DEF ConnectionFollows, Unfinished
  <2>6. phase \notin {"stopping", "exited"}
    BY <2>1 DEF IInv, Ended
  <2> HIDE DEF place
  <2> QED
    BY <1>1, <1>2, <1>3, <2>1, <2>2, <2>3, <2>5, <2>6, HandlerMoves DEF Handlers!OthersStay
<1>9. CASE TimeOut(r) \/ LeaveHandler(r)
  <2> DEFINE place == IF TimeOut(r) THEN "writing" ELSE "left"
  <2>1. Handlers!Abandon(r) /\ conn' = [conn EXCEPT ![r] = place] /\ place \in Connection
    BY <1>9 DEF TimeOut, LeaveHandler, Move, Connection
  <2>2. Handlers!Sound(total)' /\ Handlers!OthersStay(r) /\ pc'[r] = "answered"
    BY <1>4, <2>1, Handlers!AbandonStep
  <2>3. /\ pc[r] \in Unfinished
        /\ \A x \in Requests \ {r} : status'[x] = status[x]
    BY <2>1, <1>5 DEF Handlers!Abandon, Handlers!Answer, Unfinished
  <2>4. phase \notin {"stopping", "exited"}
    BY <2>3, <1>1, <1>6 DEF ConnectionFollows
  <2>5. conn'[r] = place
    BY <2>1, <1>7
  <2>6. ConnectionFollows(r)'
    BY <2>2, <2>5 DEF ConnectionFollows, Unfinished
  <2> HIDE DEF place
  <2> QED
    BY <1>1, <1>2, <1>3, <2>1, <2>2, <2>3, <2>4, <2>6, HandlerMoves
<1>10. CASE DropWorker(r)
  <2>1. /\ phase = "stopping" /\ worker[r] = "spawned" /\ status' = status /\ conn' = conn
        /\ worker' = [worker EXCEPT ![r] = "none"] /\ Handlers!Release(pc)
    BY <1>10 DEF DropWorker, Endpoint!Release, Handlers!Release
  <2>2. Handlers!Sound(total)' /\ Handlers!OthersStay(r) /\ pc'[r] = pc[r]
    BY <1>4, <2>1, Handlers!WorkerGone DEF Handlers!Live
  <2>3. ConnectionFollows(r)' /\ conn[r] \in Ended
    BY <2>1, <2>2, <1>1 DEF ConnectionFollows, IInv
  <2> QED
    BY <1>1, <1>2, <1>3, <1>7, <2>1, <2>2, <2>3, HandlerMoves
<1>11. CASE EndWorker(r)
  <2>1. Handlers!EndWorker(r) /\ phase # "exited" /\ Handled(r)
    BY <1>11 DEF EndWorker
  <2>2. Handlers!Sound(total)' /\ Handlers!OthersStay(r) /\ pc'[r] = pc[r]
    BY <1>4, <2>1, Handlers!EndWorkerStep
  <2>3. status' = status /\ conn' = conn
    BY <2>1, <2>2 DEF Handlers!EndWorker, Handled
  <2>4. ConnectionFollows(r)'
    BY <2>2, <2>3, <1>1 DEF ConnectionFollows
  <2>5. phase \in {"stopping", "exited"} => conn[r] \in Ended
    BY DEF IInv
  <2> QED
    BY <1>1, <1>2, <1>3, <1>7, <2>1, <2>2, <2>3, <2>4, <2>5, HandlerMoves
<1>12. CASE HandlerStep(r)
  <2>1. phase \in {"serving", "draining"} /\ Handled(r)
    BY <1>12 DEF HandlerStep
  <2>2. \/ Handlers!FetchFails(r) \/ Handlers!Acquire(r) \/ Handlers!Granted(r)
        \/ Handlers!Respond(r) \/ Handlers!StartWorker(r)
    BY <1>12 DEF HandlerStep
  <2>3. Handlers!Sound(total)'
    BY <1>4, <2>2, Handlers!FetchFailsStep, Handlers!AcquireStep, Handlers!GrantedStep,
       Handlers!RespondStep, Handlers!StartWorkerStep
  <2>4. \A x \in Requests \ {r} : pc'[x] = pc[x] /\ status'[x] = status[x]
    BY <2>2, <1>5 DEF Handlers!FetchFails, Handlers!Acquire, Handlers!Granted, Handlers!Respond,
       Handlers!StartWorker, Handlers!Spawn, Handlers!Answer
  <2>5. \/ pc[r] \in Unfinished /\ pc'[r] = "answered"
        \/ pc[r] \in Unfinished /\ pc'[r] \in Unfinished /\ status' = status
        \/ pc'[r] = pc[r] /\ status' = status
    BY <2>2, <1>5 DEF Handlers!FetchFails, Handlers!Acquire, Handlers!Granted, Handlers!Respond,
       Handlers!StartWorker, Handlers!Spawn, Unfinished
  <2> DEFINE place == IF pc'[r] = "answered" /\ pc[r] # "answered" THEN "writing" ELSE conn[r]
  <2>6. conn' = [conn EXCEPT ![r] = place] /\ place \in Connection /\ conn'[r] = place
    BY <2>1, <1>1, <1>7 DEF Handled, Connection
  <2>7. ConnectionFollows(r)'
    BY <2>5, <2>6, <1>1 DEF ConnectionFollows, Unfinished
  <2> HIDE DEF place
  <2> QED
    BY <1>1, <1>2, <1>3, <2>1, <2>3, <2>4, <2>6, <2>7, HandlerMoves DEF Handlers!OthersStay
<1> QED
  BY <1>8, <1>9, <1>10, <1>11, <1>12

\* Every step keeps the invariant.
LEMMA NextIInv == IInv /\ [Next]_vars => IInv'
<1> SUFFICES ASSUME IInv, [Next]_vars PROVE IInv'
  OBVIOUS
<1>1. CASE UNCHANGED vars
  <2>1. /\ pc' = pc /\ worker' = worker /\ status' = status /\ permits' = permits /\ queue' = queue
        /\ phase' = phase /\ config' = config /\ conn' = conn
    BY <1>1 DEF vars, server, handlers
  <2>2. Untouched' = Untouched /\ \A r \in Requests : ConnectionFollows(r)'
    BY <2>1 DEF IInv, Untouched, ConnectionFollows
  <2>3. phase \in Running \cup {"binding"} => Handlers!Sound(Total)'
    <3>1. PICK total \in Nat : total = Total
      BY TotalType DEF IInv
    <3>2. Handlers!Sound(Total) => Handlers!Sound(total)
      BY <3>1 DEF Handlers!Sound, Handlers!Conserved
    <3>3. Handlers!Sound(total) => Handlers!Sound(total)'
      BY <2>1, Handlers!StutterStep, HandlersAssumption DEF Handlers!vars
    <3> QED
      BY <2>1, <3>1, <3>2, <3>3, TotalStays DEF IInv
  <2> QED
    BY <2>1, <2>2, <2>3 DEF IInv, Endpoint!Live
<1>2. CASE Next
  BY <1>1, <1>2, StartStep, StopStep, ConnectionStep, HandlerStepStep DEF Next, Stopped
<1> QED
  BY <1>1, <1>2

-----------------------------------------------------------------------------
\* A server that stops has sent every answer it had, or lost the client first,
\* and one that has exited has every permit back.
THEOREM NoAnswerIsCutShort == Spec => []NoAnswerCutShort
<1>1. ASSUME IInv PROVE NoAnswerCutShort
  <2> SUFFICES ASSUME phase \in {"stopping", "exited"} PROVE NoAnswerCutShort
    BY DEF NoAnswerCutShort
  <2>1. ASSUME NEW r \in Requests
        PROVE  /\ pc[r] \in {"idle", "answered"}
               /\ pc[r] = "answered" => conn[r] \in {"delivered", "left"}
               /\ status[r] # 0 => conn[r] \in {"delivered", "left"}
    <3>1. conn[r] \in Ended /\ ConnectionFollows(r)
      BY <1>1 DEF IInv
    <3>2. pc[r] \in {"idle", "answered"} \cup Unfinished
      BY <1>1 DEF IInv, Running, Handlers!Sound, Handlers!TypeOK, Handlers!Place, Unfinished
    <3> QED
      BY <3>1, <3>2 DEF ConnectionFollows, Ended
  <2>2. phase = "exited" => permits = Total
    <3> SUFFICES ASSUME phase = "exited" PROVE permits = Total
      OBVIOUS
    <3>1. Handlers!Holders = {}
      BY <1>1, <2>1 DEF IInv, Handlers!Holders, Handlers!Live, Endpoint!Live
    <3>2. Handlers!Cardinality({}) = 0
      BY Handlers!FS_EmptySet, HandlersAssumption
    <3>3. permits \in Nat /\ permits + Handlers!Cardinality(Handlers!Holders) = Total
      BY <1>1 DEF IInv, Running, Handlers!Sound, Handlers!TypeOK, Handlers!Conserved
    <3> QED
      BY <3>1, <3>2, <3>3
  <2> QED
    BY <2>1, <2>2 DEF NoAnswerCutShort, Total
<1> QED
  BY <1>1, InitIInv, NextIInv, PTL DEF Spec

=============================================================================
