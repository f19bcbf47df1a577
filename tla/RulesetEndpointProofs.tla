----------------------- MODULE RulesetEndpointProofs -----------------------
(***************************************************************************)
(* Theorems about RulesetEndpoint, for every finite set of requests and    *)
(* every heavy_task_concurrency.                                           *)
(***************************************************************************)
EXTENDS RulesetEndpoint, FiniteSetTheorems, SequenceTheorems, TLAPS

\* A handler has no worker before it owns a permit.
NoWorkerBeforePermit ==
    \A r \in Requests :
        pc[r] \in {"idle", "fetching", "queued", "granted"} => worker[r] = "none"

\* No permit is lost or made up when there are that many in all: the code that
\* gives them out is the same whatever the configuration says.
Conserved(total) == permits + Cardinality(Holders) = total

Sound(total) ==
    /\ TypeOK
    /\ Conserved(total)
    /\ NoIdlePermit
    /\ QueueIsExact
    /\ NoWorkerBeforePermit

IInv == Sound(HeavyTasks)

\* All that a step of one handler does to the others: a permit it gives up may
\* go to the one that waits longest.
OthersStay(r) ==
    \A x \in Requests \ {r} : pc'[x] = pc[x] \/ (pc[x] = "queued" /\ pc'[x] = "granted")

\* Taking one element out of a queue closes the gap and keeps the order.
LEMMA RemoveAtElements ==
  ASSUME NEW S, NEW q \in Seq(S), NEW i \in 1 .. Len(q)
  PROVE  /\ RemoveAt(q, i) \in Seq(S)
         /\ Len(RemoveAt(q, i)) = Len(q) - 1
         /\ \A k \in 1 .. Len(q) - 1 : RemoveAt(q, i)[k] = IF k < i THEN q[k] ELSE q[k + 1]
<1> DEFINE a == SubSeq(q, 1, i - 1)
           b == SubSeq(q, i + 1, Len(q))
<1>1. a \in Seq(S) /\ Len(a) = i - 1 /\ \A k \in 1 .. i - 1 : a[k] = q[k]
  OBVIOUS
<1>2. b \in Seq(S) /\ Len(b) = Len(q) - i /\ \A k \in 1 .. Len(q) - i : b[k] = q[k + i]
  OBVIOUS
<1>3. RemoveAt(q, i) = a \o b
  BY DEF RemoveAt
<1> HIDE DEF a, b
<1>4. /\ a \o b \in Seq(S) /\ Len(a \o b) = Len(a) + Len(b)
      /\ \A k \in 1 .. Len(a) + Len(b) :
            (a \o b)[k] = IF k <= Len(a) THEN a[k] ELSE b[k - Len(a)]
  BY <1>1, <1>2, ConcatProperties
<1>5. Len(q) \in Nat /\ i \in 1 .. Len(q)
  OBVIOUS
<1>6. ASSUME NEW k \in 1 .. Len(q) - 1
      PROVE  (a \o b)[k] = IF k < i THEN q[k] ELSE q[k + 1]
  <2>1. (a \o b)[k] = IF k <= i - 1 THEN a[k] ELSE b[k - (i - 1)]
    <3>1. Len(a) = i - 1 /\ Len(b) = Len(q) - i /\ k \in 1 .. Len(a) + Len(b)
      BY <1>1, <1>2, <1>5
    <3> QED
      BY <1>4, <3>1
  <2>2. CASE k < i
    BY <2>1, <2>2, <1>1, <1>5
  <2>3. CASE ~(k < i)
    <3>1. k - (i - 1) \in 1 .. Len(q) - i /\ (k - (i - 1)) + i = k + 1
      BY <2>3, <1>5
    <3>2. b[k - (i - 1)] = q[k + 1]
      BY <3>1, <1>2
    <3> QED
      BY <2>1, <2>3, <3>2, <1>5
  <2> QED
    BY <2>2, <2>3
<1> QED
  BY <1>1, <1>2, <1>3, <1>4, <1>5, <1>6

\* The holders of permits can be counted.
LEMMA HoldersFinite == IsFiniteSet(Holders) /\ Cardinality(Holders) \in Nat
  BY EndpointAssumption, FS_Subset, FS_CardinalityType DEF Holders

\* A released permit goes to the head of the queue, or back to the pool.
LEMMA ReleaseStep ==
  ASSUME NEW total \in Nat, Sound(total), NEW r \in Holders, NEW pcs \in [Requests -> Place],
         pcs[r] \notin {"queued", "granted"},
         \A x \in Requests \ {r} : pcs[x] = pc[x],
         \A x \in Requests \ {r} : worker'[x] = worker[x],
         ~Live(r)',
         Release(pcs)
  PROVE  /\ permits' \in Nat /\ queue' \in Seq(Requests)
         /\ pc' \in [Requests -> Place]
         /\ Conserved(total)' /\ NoIdlePermit' /\ QueueIsExact'
         /\ \A x \in Requests : x # r => pc'[x] = pc[x] \/ (pc[x] = "queued" /\ pc'[x] = "granted")
         /\ pc'[r] = pcs[r]
<1> USE EndpointAssumption
<1>1. /\ IsFiniteSet(Holders) /\ Cardinality(Holders) \in Nat
      /\ permits \in Nat /\ queue \in Seq(Requests)
  BY HoldersFinite DEF Sound, TypeOK
<1>2. r \in Requests /\ pc[r] # "queued"
  BY DEF Holders, Live, Sound, NoWorkerBeforePermit
<1>3. /\ IsFiniteSet(Holders \ {r})
      /\ Cardinality(Holders \ {r}) = Cardinality(Holders) - 1
  BY <1>1, FS_RemoveElement
<1>4. CASE queue = <<>>
  <2>1. permits' = permits + 1 /\ pc' = pcs /\ queue' = queue
    BY <1>4 DEF Release
  <2>2. Holders' = Holders \ {r}
    BY <2>1, <1>2 DEF Holders, Live
  <2>3. Conserved(total)'
    BY <2>1, <2>2, <1>1, <1>3 DEF Conserved, Sound
  <2>4. QueueIsExact'
    BY <2>1, <1>2, <1>4 DEF QueueIsExact, Sound
  <2>5. NoIdlePermit'
    BY <2>1, <1>4 DEF NoIdlePermit
  <2>6. permits' \in Nat /\ queue' \in Seq(Requests)
    BY <2>1, <1>1
  <2>7. /\ pc' \in [Requests -> Place] /\ pc'[r] = pcs[r]
        /\ \A x \in Requests : x # r => pc'[x] = pc[x]
    BY <2>1
  <2> QED
    BY <2>3, <2>4, <2>5, <2>6, <2>7
<1>5. CASE queue # <<>>
  <2> DEFINE h == Head(queue)
  <2>1. /\ pc' = [pcs EXCEPT ![h] = "granted"] /\ queue' = Tail(queue) /\ permits' = permits
    BY <1>5 DEF Release
  <2>2. h \in Requests /\ h = queue[1] /\ 1 \in DOMAIN queue
    BY <1>1, <1>5
  <2>3. pc[h] = "queued" /\ worker[h] = "none"
    BY <2>2 DEF Sound, QueueIsExact, NoWorkerBeforePermit
  <2>4. h # r /\ h \notin Holders
    BY <2>3, <1>2 DEF Holders, Live
  <2>5. Holders' = (Holders \ {r}) \cup {h}
    BY <2>1, <2>2, <2>3, <2>4, <1>2 DEF Holders, Live
  <2>6. Cardinality(Holders') = Cardinality(Holders)
    <3>1. Cardinality((Holders \ {r}) \cup {h}) = Cardinality(Holders \ {r}) + 1
      BY <2>4, <1>3, FS_AddElement
    <3> QED
      BY <2>5, <3>1, <1>1, <1>3
  <2>7. Conserved(total)'
    BY <2>1, <2>6 DEF Conserved, Sound
  <2>8. /\ Tail(queue) \in Seq(Requests) /\ Len(Tail(queue)) = Len(queue) - 1
        /\ \A i \in 1 .. Len(queue) - 1 : Tail(queue)[i] = queue[i + 1]
    BY <1>1, <1>5
  <2>9. QueueIsExact'
    <3>1. \A i, j \in DOMAIN queue' : queue'[i] = queue'[j] => i = j
      BY <2>1, <2>8, <1>1 DEF QueueIsExact, Sound
    <3>2. ASSUME NEW x \in Requests
          PROVE  (pc[x] = "queued" <=> \E i \in DOMAIN queue : queue[i] = x)'
      <4>1. CASE x = h
        BY <4>1, <2>1, <2>2, <2>8, <1>1 DEF QueueIsExact, Sound
      <4>2. CASE x = r
        BY <4>2, <2>1, <2>2, <2>4, <2>8, <1>1, <1>2 DEF QueueIsExact, Sound
      <4>3. CASE x # h /\ x # r
        <5>1. pc'[x] = pc[x]
          BY <4>3, <2>1
        <5>2. (\E i \in DOMAIN queue : queue[i] = x) <=> \E i \in DOMAIN queue' : queue'[i] = x
          <6>1. ASSUME NEW i \in DOMAIN queue, queue[i] = x
                PROVE  i - 1 \in DOMAIN queue' /\ queue'[i - 1] = x
            BY <6>1, <4>3, <2>1, <2>2, <2>8, <1>1
          <6>2. ASSUME NEW i \in DOMAIN queue', queue'[i] = x
                PROVE  i + 1 \in DOMAIN queue /\ queue[i + 1] = x
            BY <6>2, <2>1, <2>8, <1>1
          <6> QED
            BY <6>1, <6>2
        <5> QED
          BY <5>1, <5>2 DEF QueueIsExact, Sound
      <4> QED
        BY <4>1, <4>2, <4>3
    <3> QED
      BY <3>1, <3>2 DEF QueueIsExact
  <2>10. NoIdlePermit'
    BY <2>1, <1>5 DEF NoIdlePermit, Sound
  <2>11. /\ pc' \in [Requests -> Place]
         /\ \A x \in Requests : x # r => pc'[x] = pc[x] \/ (pc[x] = "queued" /\ pc'[x] = "granted")
         /\ pc'[r] = pcs[r]
    <3>1. \A x \in Requests : pc'[x] = IF x = h THEN "granted" ELSE pcs[x]
      BY <2>1, <2>2
    <3>2. \A x \in Requests : x # r => pcs[x] = pc[x]
      OBVIOUS
    <3>3. pc' \in [Requests -> Place]
      BY <2>1, <2>2 DEF Place
    <3>4. ASSUME NEW x \in Requests, x # r
          PROVE  pc'[x] = pc[x] \/ (pc[x] = "queued" /\ pc'[x] = "granted")
      <4>1. CASE x = h
        BY <4>1, <3>1, <2>3
      <4>2. CASE x # h
        BY <4>2, <3>1, <3>2, <3>4
      <4> QED
        BY <4>1, <4>2
    <3>5. pc'[r] = pcs[r]
      BY <3>1, <2>4, <1>2
    <3> QED
      BY <3>3, <3>4, <3>5
  <2> QED
    BY <2>1, <2>7, <2>8, <2>9, <2>10, <2>11, <1>1
<1> QED
  BY <1>4, <1>5

\* Steps that neither move a permit nor touch the queue.
LEMMA Undisturbed ==
  ASSUME NEW total \in Nat, Sound(total), permits' = permits, queue' = queue, Holders' = Holders,
         \A x \in Requests : pc'[x] = "queued" <=> pc[x] = "queued"
  PROVE  Conserved(total)' /\ NoIdlePermit' /\ QueueIsExact'
<1>1. Conserved(total)'
  BY DEF Sound, Conserved
<1>2. NoIdlePermit'
  BY DEF Sound, NoIdlePermit
<1>3. QueueIsExact'
  BY DEF Sound, QueueIsExact
<1> QED
  BY <1>1, <1>2, <1>3

\* The invariant holds of a service that has just started.
LEMMA InitIInv == Init => IInv
<1> SUFFICES ASSUME Init PROVE IInv
  OBVIOUS
<1>1. TypeOK
  BY EndpointAssumption DEF Init, TypeOK, Place, Code
<1>2. Holders = {}
  BY DEF Init, Holders, Live
<1>3. Conserved(HeavyTasks)
  BY <1>2, FS_EmptySet, EndpointAssumption DEF Init, Conserved
<1>4. NoIdlePermit /\ QueueIsExact /\ NoWorkerBeforePermit
  BY DEF Init, NoIdlePermit, QueueIsExact, NoWorkerBeforePermit
<1> QED
  BY <1>1, <1>3, <1>4 DEF IInv, Sound

\* A request that arrives holds nothing yet.
LEMMA ArriveStep ==
  ASSUME NEW total \in Nat, Sound(total), NEW r \in Requests, Arrive(r)
  PROVE  Sound(total)'
<1>1. /\ pc' \in [Requests -> Place] /\ status' \in [Requests -> Code]
      /\ pc[r] = "idle" /\ pc'[r] \in {"answered", "fetching"}
      /\ \A x \in Requests \ {r} : pc'[x] = pc[x]
      /\ worker' = worker /\ permits' = permits /\ queue' = queue
  <2>1. PICK q \in Query :
           IF Refusal(q) # 0
           THEN pc' = [pc EXCEPT ![r] = "answered"] /\ Answer(r, Refusal(q))
           ELSE pc' = [pc EXCEPT ![r] = "fetching"] /\ UNCHANGED status
    BY DEF Arrive
  <2>2. Refusal(q) \in Code
    BY DEF Refusal, Code
  <2> QED
    BY <2>1, <2>2 DEF Arrive, Answer, Sound, TypeOK, Place
<1>2. TypeOK'
  BY <1>1 DEF Sound, TypeOK
<1>3. NoWorkerBeforePermit'
  BY <1>1 DEF Sound, NoWorkerBeforePermit
<1>4. Holders' = Holders
  BY <1>1 DEF Holders, Live
<1> QED
  BY <1>1, <1>2, <1>3, <1>4, Undisturbed DEF Sound

\* A failed fetch ends a request that held nothing.
LEMMA FetchFailsStep ==
  ASSUME NEW total \in Nat, Sound(total), NEW r \in Requests, FetchFails(r)
  PROVE  Sound(total)'
<1>1. TypeOK'
  BY DEF FetchFails, Answer, Sound, TypeOK, Place, Code
<1>2. /\ pc[r] = "fetching" /\ pc'[r] = "answered"
      /\ \A x \in Requests \ {r} : pc'[x] = pc[x]
      /\ worker' = worker /\ permits' = permits /\ queue' = queue
  BY DEF FetchFails, Sound, TypeOK
<1>3. NoWorkerBeforePermit' /\ Holders' = Holders
  BY <1>2 DEF Sound, NoWorkerBeforePermit, Holders, Live
<1> QED
  BY <1>1, <1>2, <1>3, Undisturbed DEF Sound

\* Asking for a permit takes a free one or a place at the end of the queue.
LEMMA AcquireStep ==
  ASSUME NEW total \in Nat, Sound(total), NEW r \in Requests, Acquire(r)
  PROVE  Sound(total)'
<1> USE EndpointAssumption
<1>1. /\ permits \in Nat /\ queue \in Seq(Requests)
      /\ IsFiniteSet(Holders) /\ Cardinality(Holders) \in Nat
  BY HoldersFinite DEF Sound, TypeOK
<1>2. pc[r] = "fetching" /\ worker[r] = "none" /\ r \notin Holders /\ status' = status
  BY DEF Acquire, Sound, NoWorkerBeforePermit, Holders, Live
<1>3. CASE permits > 0
  <2>1. /\ pc' = [pc EXCEPT ![r] = "encoding"] /\ worker' = [worker EXCEPT ![r] = "spawned"]
        /\ permits' = permits - 1 /\ queue' = queue
    BY <1>3 DEF Acquire, Spawn
  <2>2. TypeOK'
    BY <2>1, <1>1, <1>2, <1>3 DEF Sound, TypeOK, Place
  <2>3. NoWorkerBeforePermit'
    BY <2>1 DEF Sound, TypeOK, NoWorkerBeforePermit
  <2>4. Holders' = Holders \cup {r}
    BY <2>1, <1>2 DEF Holders, Live, Sound, TypeOK
  <2>5. Cardinality(Holders \cup {r}) = Cardinality(Holders) + 1
    BY <1>1, <1>2, FS_AddElement
  <2>6. Conserved(total)'
    BY <2>1, <2>4, <2>5, <1>1 DEF Sound, Conserved
  <2>7. NoIdlePermit'
    BY <2>1, <1>1, <1>3 DEF Sound, NoIdlePermit
  <2>8. QueueIsExact'
    BY <2>1, <1>2 DEF Sound, TypeOK, QueueIsExact
  <2> QED
    BY <2>2, <2>3, <2>6, <2>7, <2>8 DEF Sound
<1>4. CASE ~(permits > 0)
  <2>1. /\ pc' = [pc EXCEPT ![r] = "queued"] /\ queue' = Append(queue, r)
        /\ worker' = worker /\ permits' = permits
    BY <1>4 DEF Acquire
  <2>2. TypeOK'
    BY <2>1, <1>1, <1>2 DEF Sound, TypeOK, Place
  <2>3. NoWorkerBeforePermit'
    BY <2>1, <1>2 DEF Sound, TypeOK, NoWorkerBeforePermit
  <2>4. Holders' = Holders
    BY <2>1, <1>2 DEF Holders, Live, Sound, TypeOK
  <2>5. Conserved(total)'
    BY <2>1, <2>4 DEF Sound, Conserved
  <2>6. NoIdlePermit'
    BY <2>1, <1>1, <1>4 DEF NoIdlePermit
  <2>7. /\ DOMAIN queue' = 1 .. Len(queue) + 1 /\ DOMAIN queue = 1 .. Len(queue)
        /\ Len(queue) \in Nat
        /\ \A k \in 1 .. Len(queue) + 1 :
              queue'[k] = IF k = Len(queue) + 1 THEN r ELSE queue[k]
    BY <2>1, <1>1
  <2>8. \A k \in DOMAIN queue : queue[k] # r
    BY <1>2 DEF Sound, QueueIsExact
  <2>9. ASSUME NEW x \in Requests
        PROVE  (pc[x] = "queued" <=> \E k \in DOMAIN queue : queue[k] = x)'
    <3>1. CASE x = r
      <4>1. pc'[x] = "queued" /\ Len(queue) + 1 \in DOMAIN queue' /\ queue'[Len(queue) + 1] = x
        BY <3>1, <2>1, <2>7 DEF Sound, TypeOK
      <4> QED
        BY <4>1
    <3>2. CASE x # r
      <4>1. pc'[x] = pc[x]
        BY <3>2, <2>1
      <4>2. (\E k \in DOMAIN queue' : queue'[k] = x) <=> (\E k \in DOMAIN queue : queue[k] = x)
        BY <3>2, <2>7
      <4> QED
        BY <4>1, <4>2 DEF Sound, QueueIsExact
    <3> QED
      BY <3>1, <3>2
  <2>10. \A i, j \in DOMAIN queue' : queue'[i] = queue'[j] => i = j
    BY <2>7, <2>8 DEF Sound, QueueIsExact
  <2>11. QueueIsExact'
    BY <2>9, <2>10 DEF QueueIsExact
  <2> QED
    BY <2>2, <2>3, <2>5, <2>6, <2>11 DEF Sound
<1> QED
  BY <1>3, <1>4

\* A granted permit turns into an encoder that owns it.
LEMMA GrantedStep ==
  ASSUME NEW total \in Nat, Sound(total), NEW r \in Requests, Granted(r)
  PROVE  Sound(total)'
<1>1. /\ pc[r] = "granted" /\ pc' = [pc EXCEPT ![r] = "encoding"]
      /\ worker' = [worker EXCEPT ![r] = "spawned"]
      /\ UNCHANGED <<status, permits, queue>>
  BY DEF Granted, Spawn
<1>2. TypeOK' /\ NoWorkerBeforePermit'
  BY <1>1 DEF Sound, TypeOK, NoWorkerBeforePermit, Place
<1>3. Holders' = Holders
  BY <1>1 DEF Sound, TypeOK, Holders, Live
<1>4. \A x \in Requests : pc'[x] = "queued" <=> pc[x] = "queued"
  BY <1>1 DEF Sound, TypeOK
<1> QED
  BY <1>1, <1>2, <1>3, <1>4, Undisturbed DEF Sound

\* An encoder that starts running keeps its permit.
LEMMA StartWorkerStep ==
  ASSUME NEW total \in Nat, Sound(total), NEW r \in Requests, StartWorker(r)
  PROVE  Sound(total)'
<1>1. /\ worker[r] = "spawned" /\ worker' = [worker EXCEPT ![r] = "running"]
      /\ UNCHANGED <<pc, status, permits, queue>>
  BY DEF StartWorker
<1>2. TypeOK' /\ NoWorkerBeforePermit'
  BY <1>1 DEF Sound, TypeOK, NoWorkerBeforePermit
<1>3. Holders' = Holders
  BY <1>1 DEF Sound, TypeOK, Holders, Live
<1> QED
  BY <1>1, <1>2, <1>3, Undisturbed DEF Sound

\* A closure that ends, or is dropped before it starts, gives its permit to the
\* first in line, or back.
LEMMA WorkerGone ==
  ASSUME NEW total \in Nat, Sound(total), NEW r \in Requests, Live(r),
         NEW outcome \in Outcome \cup {"none"},
         worker' = [worker EXCEPT ![r] = outcome],
         Release(pc), status' = status
  PROVE  Sound(total)' /\ OthersStay(r) /\ pc'[r] = pc[r]
<1>1. r \in Holders /\ pc[r] \notin {"queued", "granted"} /\ pc \in [Requests -> Place]
  BY DEF Sound, TypeOK, NoWorkerBeforePermit, Holders, Live
<1>2. /\ ~Live(r)' /\ \A x \in Requests \ {r} : worker'[x] = worker[x]
      /\ worker'[r] = outcome
  BY DEF Sound, TypeOK, Live, Outcome
<1>3. /\ permits' \in Nat /\ queue' \in Seq(Requests)
      /\ pc' \in [Requests -> Place]
      /\ Conserved(total)' /\ NoIdlePermit' /\ QueueIsExact'
      /\ \A x \in Requests : x # r => pc'[x] = pc[x] \/ (pc[x] = "queued" /\ pc'[x] = "granted")
      /\ pc'[r] = pc[r]
  BY <1>1, <1>2, ReleaseStep
<1>4. TypeOK'
  BY <1>3 DEF Sound, TypeOK
<1>5. ASSUME NEW x \in Requests, pc'[x] \in {"idle", "fetching", "queued", "granted"}
      PROVE  worker'[x] = "none"
  <2>1. CASE x = r
    BY <2>1, <1>5, <1>3 DEF Sound, NoWorkerBeforePermit, Live
  <2>2. CASE x # r
    BY <2>2, <1>5, <1>2, <1>3 DEF Sound, NoWorkerBeforePermit
  <2> QED
    BY <2>1, <2>2
<1> QED
  BY <1>3, <1>4, <1>5 DEF Sound, NoWorkerBeforePermit, OthersStay

\* An encoder that ends, however it does.
LEMMA EndWorkerStep ==
  ASSUME NEW total \in Nat, Sound(total), NEW r \in Requests, EndWorker(r)
  PROVE  Sound(total)' /\ OthersStay(r) /\ pc'[r] = pc[r]
<1>1. PICK outcome \in Outcome : worker' = [worker EXCEPT ![r] = outcome]
  BY DEF EndWorker
<1> QED
  BY <1>1, WorkerGone DEF EndWorker, Live

\* Answering a request changes neither permits nor queue.
LEMMA RespondStep ==
  ASSUME NEW total \in Nat, Sound(total), NEW r \in Requests, Respond(r)
  PROVE  Sound(total)'
<1>1. /\ pc[r] = "encoding" /\ worker[r] \in Outcome
      /\ pc' = [pc EXCEPT ![r] = "answered"]
      /\ status' = [status EXCEPT ![r] = StatusOf(worker[r])]
      /\ UNCHANGED <<worker, permits, queue>>
  BY DEF Respond, Answer
<1>2. StatusOf(worker[r]) \in Code
  BY <1>1 DEF StatusOf, Outcome, Code
<1>3. TypeOK' /\ NoWorkerBeforePermit'
  BY <1>1, <1>2 DEF Sound, TypeOK, NoWorkerBeforePermit, Place
<1>4. Holders' = Holders
  BY <1>1 DEF Sound, TypeOK, Holders, Live
<1>5. \A x \in Requests : pc'[x] = "queued" <=> pc[x] = "queued"
  BY <1>1 DEF Sound, TypeOK
<1> QED
  BY <1>1, <1>3, <1>4, <1>5, Undisturbed DEF Sound

\* An abandoned handler leaves the queue, or passes on the permit it was granted.
LEMMA AbandonStep ==
  ASSUME NEW total \in Nat, Sound(total), NEW r \in Requests, Abandon(r)
  PROVE  Sound(total)' /\ OthersStay(r) /\ pc'[r] = "answered"
<1> DEFINE left == [pc EXCEPT ![r] = "answered"]
<1>1. worker' = worker /\ status' \in [Requests -> Code]
  BY DEF Abandon, Answer, Sound, TypeOK, Code
<1>2. /\ left \in [Requests -> Place] /\ left[r] = "answered"
      /\ \A x \in Requests \ {r} : left[x] = pc[x]
  BY DEF Sound, TypeOK, Place
<1>3. pc[r] \in {"fetching", "queued", "granted", "encoding"}
  BY DEF Abandon
<1>4. CASE pc[r] \in {"fetching", "encoding"}
  <2>1. pc' = left /\ permits' = permits /\ queue' = queue
    BY <1>4 DEF Abandon
  <2> HIDE DEF left
  <2>2. TypeOK'
    BY <2>1, <1>1, <1>2 DEF Sound, TypeOK
  <2>3. NoWorkerBeforePermit' /\ Holders' = Holders
    BY <2>1, <1>1, <1>2, <1>4 DEF Sound, NoWorkerBeforePermit, Holders, Live
  <2>4. \A x \in Requests : pc'[x] = "queued" <=> pc[x] = "queued"
    BY <2>1, <1>2, <1>4
  <2> QED
    BY <2>1, <2>2, <2>3, <2>4, <1>2, Undisturbed DEF Sound, OthersStay
<1>5. CASE pc[r] = "queued"
  <2>1. PICK i \in DOMAIN queue : queue[i] = r /\ queue' = RemoveAt(queue, i)
    BY <1>5 DEF Abandon
  <2>2. pc' = left /\ permits' = permits
    BY <1>5 DEF Abandon
  <2> HIDE DEF left
  <2>3. queue \in Seq(Requests) /\ DOMAIN queue = 1 .. Len(queue) /\ Len(queue) \in Nat
    BY DEF Sound, TypeOK
  <2>4. /\ queue' \in Seq(Requests) /\ DOMAIN queue' = 1 .. Len(queue) - 1
        /\ \A k \in 1 .. Len(queue) - 1 : queue'[k] = IF k < i THEN queue[k] ELSE queue[k + 1]
    <3>1. i \in 1 .. Len(queue)
      BY <2>1, <2>3
    <3> DEFINE rest == RemoveAt(queue, i)
    <3>2. /\ rest \in Seq(Requests) /\ Len(rest) = Len(queue) - 1
          /\ \A k \in 1 .. Len(queue) - 1 : rest[k] = IF k < i THEN queue[k] ELSE queue[k + 1]
      BY <2>3, <3>1, RemoveAtElements
    <3>3. queue' = rest
      BY <2>1
    <3> HIDE DEF rest
    <3>4. DOMAIN rest = 1 .. Len(rest)
      BY <3>2
    <3> QED
      BY <3>2, <3>3, <3>4
  <2>5. TypeOK'
    BY <2>2, <2>4, <1>1, <1>2 DEF Sound, TypeOK
  <2>6. NoWorkerBeforePermit' /\ Holders' = Holders
    BY <2>2, <1>1, <1>2, <1>5 DEF Sound, NoWorkerBeforePermit, Holders, Live
  <2>7. Conserved(total)'
    BY <2>2, <2>6 DEF Sound, Conserved
  <2>8. NoIdlePermit'
    BY <2>1, <2>2, <2>3 DEF Sound, NoIdlePermit
  <2> QueueIsExact
    BY DEF Sound
  <2>9. \A j, k \in DOMAIN queue' : queue'[j] = queue'[k] => j = k
    <3>1. ASSUME NEW j \in 1 .. Len(queue) - 1, NEW k \in 1 .. Len(queue) - 1,
                 queue'[j] = queue'[k]
          PROVE  j = k
      <4> DEFINE from(n) == IF n < i THEN n ELSE n + 1
      <4>1. /\ from(j) \in DOMAIN queue /\ from(k) \in DOMAIN queue
            /\ queue[from(j)] = queue'[j] /\ queue[from(k)] = queue'[k]
        BY <2>3, <2>4
      <4>2. from(j) = from(k)
        BY <3>1, <4>1 DEF QueueIsExact
      <4> QED
        BY <4>2, <2>1, <2>3
    <3> QED
      BY <3>1, <2>4
  <2>10. ASSUME NEW x \in Requests
         PROVE  (pc[x] = "queued" <=> \E k \in DOMAIN queue : queue[k] = x)'
    <3>1. CASE x = r
      <4>1. pc'[x] # "queued"
        BY <3>1, <2>2, <1>2
      <4>2. ASSUME NEW k \in 1 .. Len(queue) - 1
            PROVE  queue'[k] # x
        <5> DEFINE from == IF k < i THEN k ELSE k + 1
        <5>1. from \in DOMAIN queue /\ queue[from] = queue'[k] /\ from # i
          BY <2>1, <2>3, <2>4
        <5> QED
          BY <5>1, <3>1, <2>1 DEF QueueIsExact
      <4> QED
        BY <4>1, <4>2, <2>4
    <3>2. CASE x # r
      <4>1. pc'[x] = pc[x]
        BY <3>2, <2>2, <1>2
      <4>2. ASSUME NEW k \in DOMAIN queue, queue[k] = x
            PROVE  \E m \in DOMAIN queue' : queue'[m] = x
        <5>1. CASE k < i
          <6>1. k \in DOMAIN queue' /\ queue'[k] = x
            BY <5>1, <4>2, <2>1, <2>3, <2>4
          <6> QED
            BY <6>1
        <5>2. CASE k > i
          <6>1. k - 1 \in DOMAIN queue' /\ queue'[k - 1] = x
            BY <5>2, <4>2, <2>1, <2>3, <2>4
          <6> QED
            BY <6>1
        <5> QED
          BY <5>1, <5>2, <4>2, <3>2, <2>1, <2>3
      <4>3. ASSUME NEW k \in DOMAIN queue', queue'[k] = x
            PROVE  \E m \in DOMAIN queue : queue[m] = x
        BY <4>3, <2>3, <2>4
      <4> QED
        BY <4>1, <4>2, <4>3 DEF QueueIsExact
    <3> QED
      BY <3>1, <3>2
  <2>11. QueueIsExact'
    BY <2>9, <2>10 DEF QueueIsExact
  <2> QED
    BY <2>2, <2>5, <2>6, <2>7, <2>8, <2>11, <1>2 DEF Sound, OthersStay
<1>6. CASE pc[r] = "granted"
  <2>1. Release(left)
    BY <1>6 DEF Abandon
  <2> HIDE DEF left
  <2>2. worker[r] = "none" /\ r \in Holders /\ ~Live(r)'
    BY <1>1, <1>6 DEF Sound, NoWorkerBeforePermit, Holders, Live
  <2>3. /\ permits' \in Nat /\ queue' \in Seq(Requests)
        /\ pc' \in [Requests -> Place]
        /\ Conserved(total)' /\ NoIdlePermit' /\ QueueIsExact'
        /\ \A x \in Requests : x # r => pc'[x] = pc[x] \/ (pc[x] = "queued" /\ pc'[x] = "granted")
        /\ pc'[r] = left[r]
    BY <2>1, <2>2, <1>1, <1>2, ReleaseStep
  <2>4. TypeOK'
    BY <2>3, <1>1 DEF Sound, TypeOK
  <2>5. ASSUME NEW x \in Requests, pc'[x] \in {"idle", "fetching", "queued", "granted"}
        PROVE  worker'[x] = "none"
    <3>1. CASE x = r
      BY <3>1, <2>2, <1>1
    <3>2. CASE x # r
      BY <3>2, <2>5, <2>3, <1>1 DEF Sound, NoWorkerBeforePermit
    <3> QED
      BY <3>1, <3>2
  <2> QED
    BY <2>3, <2>4, <2>5, <1>2 DEF Sound, NoWorkerBeforePermit, OthersStay
<1> QED
  BY <1>3, <1>4, <1>5, <1>6

\* The invariant is about the variables alone.
LEMMA StutterStep ==
  ASSUME NEW total \in Nat, Sound(total), UNCHANGED vars
  PROVE  Sound(total)'
<1>1. TypeOK' /\ NoWorkerBeforePermit' /\ Holders' = Holders
  BY DEF vars, Sound, TypeOK, NoWorkerBeforePermit, Holders, Live
<1> QED
  BY <1>1, Undisturbed DEF vars, Sound

\* Every step keeps the invariant.
LEMMA NextIInv == IInv /\ [Next]_vars => IInv'
<1> SUFFICES ASSUME IInv, [Next]_vars PROVE IInv'
  OBVIOUS
<1>1. Sound(HeavyTasks) /\ HeavyTasks \in Nat
  BY EndpointAssumption DEF IInv
<1> QED
  BY <1>1, ArriveStep, FetchFailsStep, AcquireStep, GrantedStep, StartWorkerStep,
     EndWorkerStep, RespondStep, AbandonStep, StutterStep DEF Next, Quiescent, IInv

\* The invariant always holds.
LEMMA InductiveInvariant == Spec => []IInv
  BY InitIInv, NextIInv, PTL DEF Spec

-----------------------------------------------------------------------------
\* The handlers, encoders, permits and queue keep their types.
THEOREM TypeCorrect == Spec => []TypeOK
<1>1. IInv => TypeOK
  BY DEF IInv, Sound
<1> QED
  BY <1>1, InductiveInvariant, PTL

\* No permit is lost or made up, whatever is abandoned and however an encoder
\* ends.
THEOREM PermitsAreConserved == Spec => []PermitsConserved
<1>1. IInv => PermitsConserved
  BY DEF IInv, Sound, Conserved, PermitsConserved
<1> QED
  BY <1>1, InductiveInvariant, PTL

\* Never more than heavy_task_concurrency encoders, answered or not: they are
\* among the holders of the permits.
THEOREM WorkersAreBounded == Spec => []WorkersBounded
<1>1. ASSUME IInv PROVE WorkersBounded
  <2> DEFINE Encoders == {r \in Requests : Live(r)}
  <2>1. Encoders \subseteq Holders
    BY DEF Holders
  <2>2. IsFiniteSet(Holders) /\ Cardinality(Holders) \in Nat
    BY HoldersFinite
  <2>3. Cardinality(Encoders) \in Nat /\ Cardinality(Encoders) <= Cardinality(Holders)
    BY <2>1, <2>2, FS_Subset, FS_CardinalityType
  <2>4. permits \in Nat /\ permits + Cardinality(Holders) = HeavyTasks
    BY <1>1 DEF IInv, Sound, TypeOK, Conserved
  <2> QED
    BY <2>2, <2>3, <2>4, EndpointAssumption DEF WorkersBounded
<1> QED
  BY <1>1, InductiveInvariant, PTL

\* A handler waits only while every permit is in use, and only a handler that
\* still waits has a place in the queue.
THEOREM QueueIsServed == Spec => [](NoIdlePermit /\ QueueIsExact)
<1>1. IInv => NoIdlePermit /\ QueueIsExact
  BY DEF IInv, Sound
<1> QED
  BY <1>1, InductiveInvariant, PTL

=============================================================================
