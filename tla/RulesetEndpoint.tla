-------------------------- MODULE RulesetEndpoint --------------------------
(***************************************************************************)
(* GET /ruleset of src/api.rs: validation, the wait for a permit of the    *)
(* heavy_tasks semaphore, the MRS encoder on tokio's blocking pool and the *)
(* TimeoutLayer around the handler.                                        *)
(*                                                                         *)
(* A handler is a future and can be dropped at any await: it answers 408   *)
(* when the timeout fires first, and nothing when the client goes away.  A *)
(* closure given to spawn_blocking cannot be dropped: it owns the permit   *)
(* and runs to its end whether or not anybody still waits for it.          *)
(***************************************************************************)
EXTENDS Integers, FiniteSets, SequencesExt

CONSTANTS
    Requests,    \* requests to /ruleset
    HeavyTasks,  \* advance.heavy_task_concurrency
    MaxSources   \* advance.max_allowed_rulesets

ASSUME EndpointAssumption ==
    /\ IsFiniteSet(Requests)
    /\ HeavyTasks \in Nat \ {0}     \* AppConfig::normalize replaces 0
    /\ MaxSources \in Nat \ {0}

VARIABLES
    pc,       \* pc[r]: where the handler of r is
    worker,   \* worker[r]: the closure r gave to spawn_blocking, or its outcome
    status,   \* status[r]: the HTTP status of r, 0 without an answer
    permits,  \* free permits of heavy_tasks
    queue     \* handlers waiting for a permit, first come first

vars == <<pc, worker, status, permits, queue>>

\* Where a handler can be.
Place == {"idle", "fetching", "queued", "granted", "encoding", "answered"}

Outcome == {"encoded", "notUtf8", "conversion", "panicked"}

\* What the handler answers when it joins the worker.
StatusOf(outcome) ==
    CASE outcome = "encoded" -> 200
      [] outcome = "notUtf8" -> 400
      [] outcome \in {"conversion", "panicked"} -> 500

\* What a query asks for, as far as the handler looks before it fetches.
Query == {q \in [clash : BOOLEAN, behavior : BOOLEAN, sensitive : BOOLEAN,
                 authorized : BOOLEAN, sources : 0 .. MaxSources + 1] :
            q.sources = 0 => ~q.sensitive}

\* The status of the first check that refuses the query, 0 if all pass.
Refusal(q) ==
    IF ~q.clash \/ ~q.behavior THEN 400
    ELSE IF q.sensitive /\ ~q.authorized THEN 401
    ELSE IF q.sources = 0 THEN 400
    ELSE IF q.sources > MaxSources THEN 413 ELSE 0

-----------------------------------------------------------------------------
Init ==
    /\ pc = [r \in Requests |-> "idle"]
    /\ worker = [r \in Requests |-> "none"]
    /\ status = [r \in Requests |-> 0]
    /\ permits = HeavyTasks
    /\ queue = <<>>

Answer(r, code) == status' = [status EXCEPT ![r] = code]

\* A handler that owns a permit moves it into the closure it spawns.
Spawn(r) ==
    /\ pc' = [pc EXCEPT ![r] = "encoding"]
    /\ worker' = [worker EXCEPT ![r] = "spawned"]

\* tokio's semaphore hands a released permit to the head of its queue; pcs is
\* where the handlers are otherwise.
Release(pcs) ==
    IF queue = <<>>
    THEN permits' = permits + 1 /\ pc' = pcs /\ UNCHANGED queue
    ELSE /\ pc' = [pcs EXCEPT ![Head(queue)] = "granted"]
         /\ queue' = Tail(queue)
         /\ UNCHANGED permits

Arrive(r) ==
    /\ pc[r] = "idle"
    /\ \E q \in Query :
        IF Refusal(q) # 0
        THEN pc' = [pc EXCEPT ![r] = "answered"] /\ Answer(r, Refusal(q))
        ELSE pc' = [pc EXCEPT ![r] = "fetching"] /\ UNCHANGED status
    /\ UNCHANGED <<worker, permits, queue>>

\* One source fails, and with it the whole request.
FetchFails(r) ==
    /\ pc[r] = "fetching"
    /\ pc' = [pc EXCEPT ![r] = "answered"]
    /\ \E code \in {400, 413, 502} : Answer(r, code)
    /\ UNCHANGED <<worker, permits, queue>>

\* Mutation: the last permit is never taken.
AcquireSparesOne(r) ==
    /\ pc[r] = "fetching"
    /\ IF permits > 1
       THEN Spawn(r) /\ permits' = permits - 1 /\ UNCHANGED queue
       ELSE /\ pc' = [pc EXCEPT ![r] = "queued"]
            /\ queue' = Append(queue, r)
            /\ UNCHANGED <<worker, permits>>
    /\ UNCHANGED status

\* Every source is there: acquire_owned() takes a free permit or queues up.
Acquire(r) ==
    /\ pc[r] = "fetching"
    /\ IF permits > 0
       THEN Spawn(r) /\ permits' = permits - 1 /\ UNCHANGED queue
       ELSE /\ pc' = [pc EXCEPT ![r] = "queued"]
            /\ queue' = Append(queue, r)
            /\ UNCHANGED <<worker, permits>>
    /\ UNCHANGED status

\* The handler is polled with the permit the semaphore kept for it.
Granted(r) ==
    /\ pc[r] = "granted"
    /\ Spawn(r)
    /\ UNCHANGED <<status, permits, queue>>

StartWorker(r) ==
    /\ worker[r] = "spawned"
    /\ worker' = [worker EXCEPT ![r] = "running"]
    /\ UNCHANGED <<pc, status, permits, queue>>

\* Mutation: an early return of the closure forgets its permit.
EndWorkerLeaks(r) ==
    /\ worker[r] = "running"
    /\ \E outcome \in Outcome :
        /\ worker' = [worker EXCEPT ![r] = outcome]
        /\ IF outcome = "encoded" THEN Release(pc) ELSE UNCHANGED <<pc, permits, queue>>
    /\ UNCHANGED status

\* The closure ends, by a panic too, and drops _permit.
EndWorker(r) ==
    /\ worker[r] = "running"
    /\ \E outcome \in Outcome : worker' = [worker EXCEPT ![r] = outcome]
    /\ Release(pc)
    /\ UNCHANGED status

Respond(r) ==
    /\ pc[r] = "encoding"
    /\ worker[r] \in Outcome
    /\ pc' = [pc EXCEPT ![r] = "answered"]
    /\ Answer(r, StatusOf(worker[r]))
    /\ UNCHANGED <<worker, permits, queue>>

\* The timeout fires (408) or the client goes away (no answer): the handler's
\* future is dropped, with its place in the queue or the permit kept for it.
Abandon(r) ==
    /\ pc[r] \in {"fetching", "queued", "granted", "encoding"}
    /\ \E code \in {0, 408} : Answer(r, code)
    /\ LET left == [pc EXCEPT ![r] = "answered"] IN
       CASE pc[r] \in {"fetching", "encoding"} -> pc' = left /\ UNCHANGED <<permits, queue>>
         [] pc[r] = "queued" -> /\ pc' = left
                                /\ \E i \in DOMAIN queue : queue[i] = r /\ queue' = RemoveAt(queue, i)
                                /\ UNCHANGED permits
         [] pc[r] = "granted" -> Release(left)
    /\ UNCHANGED worker

Live(r) == worker[r] \in {"spawned", "running"}

Quiescent ==
    /\ \A r \in Requests : pc[r] = "answered" /\ ~Live(r)
    /\ UNCHANGED vars

Next ==
    \/ \E r \in Requests :
        \/ Arrive(r) \/ FetchFails(r) \/ Acquire(r) \/ Granted(r)
        \/ StartWorker(r) \/ EndWorker(r) \/ Respond(r) \/ Abandon(r)
    \/ Quiescent

\* Downloads end (they have a timeout), the runtime polls what is ready and an
\* encoder ends; no request has to arrive or to be given up.
Fairness ==
    \A r \in Requests :
        /\ WF_vars(FetchFails(r) \/ Acquire(r))
        /\ WF_vars(Granted(r))
        /\ WF_vars(StartWorker(r))
        /\ WF_vars(EndWorker(r))
        /\ WF_vars(Respond(r))

Spec == Init /\ [][Next]_vars

FairSpec == Spec /\ Fairness

-----------------------------------------------------------------------------
(* Properties *)

Code == {0, 200, 400, 401, 408, 413, 500, 502}

\* Every variable has its type.
TypeOK ==
    /\ pc \in [Requests -> Place]
    /\ worker \in [Requests -> {"none", "spawned", "running"} \cup Outcome]
    /\ status \in [Requests -> Code]
    /\ permits \in Nat
    /\ queue \in Seq(Requests)

Holders == {r \in Requests : pc[r] = "granted" \/ Live(r)}

\* No permit is lost or made up, whatever is abandoned: each one is free, kept
\* for a handler the semaphore chose, or owned by an encoder that has not ended.
PermitsConserved == permits + Cardinality(Holders) = HeavyTasks

\* At most heavy_task_concurrency encoders exist at a time, counting those whose
\* request was answered 408 or whose client is gone.
WorkersBounded == Cardinality({r \in Requests : Live(r)}) <= HeavyTasks

\* A handler waits only while every permit is in use.
NoIdlePermit == queue # <<>> => permits = 0

\* The queue holds the waiting handlers, each once: an abandoned handler leaves
\* no entry that a permit could be handed to.
QueueIsExact ==
    /\ \A r \in Requests : pc[r] = "queued" <=> \E i \in DOMAIN queue : queue[i] = r
    /\ \A i, j \in DOMAIN queue : queue[i] = queue[j] => i = j

\* Every request that arrived is answered or given up even if the timeout never
\* fires: nobody waits for a permit for good.
EveryRequestEnds == \A r \in Requests : pc[r] # "idle" ~> pc[r] = "answered"

=============================================================================
