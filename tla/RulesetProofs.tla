---------------------------- MODULE RulesetProofs ----------------------------
(***************************************************************************)
(* How a ruleset is loaded, collected and encoded.  Theorems about         *)
(* SourceLoader, for every list of sources and every number of fetches at  *)
(* a time: its bounds, and that it implements OrderedLoad.                 *)
(* The argument: sources start in list order, and when the stream is       *)
(* drained every source has finished exactly once, so sorting what was     *)
(* collected gives back the list.  Not sorted, it is a permutation of the  *)
(* list, from which follows what RulesetCollect makes of it, for every     *)
(* limit and all contents.  Then the invariants of MrsPayload: what is     *)
(* merged covers the networks read so far, and the part of a node is where *)
(* the path of labels that leads to it says.                               *)
(***************************************************************************)
EXTENDS RulesetCollect, SequenceFacts, FiniteSetTheorems

CONSTANTS DomainLists, NetworkLists, Order, Lower, WordBits, V4Bits, V6Bits, MappedPrefix

VARIABLES behavior, rules, read, keys, queue, leaves, labelBitmap, labels, labelIndex,
          nodeIndex, v4, v6, merged, payload

Mrs == INSTANCE MrsPayload

\* While a load runs: the sources started are the first ones of the list, none
\* both runs and has finished, exactly the finished ones have an outcome, none
\* finished twice, and a drained stream has started them all.
Progress ==
    /\ Started = 1 .. Cardinality(Started)
    /\ running \cap Range(collected) = {}
    /\ \A i \in Sources : outcome[i] = Pending <=> i \notin Range(collected)
    /\ Cardinality(Range(collected)) = Len(collected)
    /\ drained => Started = Sources

LoadInv == TypeOK /\ (result = Unfinished => Progress)

\* Appending an index adds it to the range.
LEMMA RangeOfAppend ==
  ASSUME NEW S, NEW s \in Seq(S), NEW i \in S
  PROVE  Range(Append(s, i)) = Range(s) \cup {i}
<1>1. /\ Append(s, i) \in Seq(S)
      /\ Len(Append(s, i)) = Len(s) + 1
      /\ \A k \in 1 .. Len(s) : Append(s, i)[k] = s[k]
      /\ Append(s, i)[Len(s) + 1] = i
  BY AppendProperties
<1>2. DOMAIN Append(s, i) = 1 .. Len(s) + 1 /\ DOMAIN s = 1 .. Len(s) /\ Len(s) \in Nat
  BY <1>1
<1> QED
  BY <1>1, <1>2 DEF Range

\* Sorting what collects each of 1 .. n once gives 1 .. n.
LEMMA SortedIsList ==
  ASSUME NEW n \in Nat, NEW s \in Seq(1 .. n), Range(s) = 1 .. n, Len(s) = n
  PROVE  SortByIndex(s) = [k \in 1 .. n |-> k]
<1>1. \A i \in 1 .. n : Cardinality({j \in 1 .. n : j <= i}) = i
  <2> TAKE i \in 1 .. n
  <2>1. {j \in 1 .. n : j <= i} = 1 .. i
    OBVIOUS
  <2>2. i \in Int /\ 1 \in Int /\ ~(1 > i) /\ i - 1 + 1 = i
    OBVIOUS
  <2>3. Cardinality(1 .. i) = i
    BY <2>2, FS_Interval
  <2> QED
    BY <2>1, <2>3
<1>2. \A k \in 1 .. n : KthSmallest(1 .. n, k) = k
  BY <1>1 DEF KthSmallest
<1>3. DOMAIN s = 1 .. n
  OBVIOUS
<1> QED
  BY <1>2, <1>3 DEF SortByIndex

\* There is always room for one fetch, and never for more than the setting or one.
LEMMA ConcurrencyRange ==
  ASSUME NEW n \in Nat, Cardinality(Sources) = n
  PROVE  Concurrency \in Nat /\ Concurrency >= 1 /\ Concurrency <= Larger(FetchConcurrency, 1)
  BY LoaderAssumption DEF Concurrency, Smaller, Larger

\* Nothing is started at first.
LEMMA LoadInit == Init => LoadInv
<1> SUFFICES ASSUME Init PROVE LoadInv
  OBVIOUS
<1>1. PICK n \in MinSources .. MaxSources : outcome = [i \in 1 .. n |-> Pending]
  BY DEF Init
<1>2. skip \in BOOLEAN /\ running = {} /\ collected = <<>> /\ drained = FALSE
      /\ result = Unfinished
  BY LoaderAssumption DEF Init
<1>3. result.kind = "none" /\ result.value = <<>>
  BY <1>2 DEF Unfinished
<1>4. TypeOK
  <2>1. outcome \in [1 .. n -> Contents \cup {Failed, Pending}]
    BY <1>1
  <2>2. collected \in Seq(1 .. n) /\ running \in SUBSET (1 .. n)
    BY <1>2
  <2>3. result.value \in Seq(Contents \cup {Failed})
    BY <1>3
  <2>4. \E m \in MinSources .. MaxSources :
          /\ outcome \in [1 .. m -> Contents \cup {Failed, Pending}]
          /\ running \in SUBSET (1 .. m)
          /\ collected \in Seq(1 .. m)
    BY <1>1, <2>1, <2>2
  <2> QED
    BY <1>2, <1>3, <2>3, <2>4 DEF TypeOK
<1>5. Range(collected) = {} /\ Started = {} /\ Len(collected) = 0
  BY <1>2 DEF Range, Started
<1>6. Cardinality({}) = 0 /\ 1 .. 0 = {}
  BY FS_EmptySet
<1> QED
  BY <1>1, <1>2, <1>4, <1>5, <1>6 DEF LoadInv, Progress, Sources

\* Pulling the next source starts the one after those that have started.
LEMMA LoadPoll ==
  ASSUME LoadInv, Poll
  PROVE  LoadInv'
<1>1. result = Unfinished /\ Progress /\ TypeOK /\ ~drained
      /\ UNCHANGED <<skip, outcome, collected, result>>
  BY DEF Poll, LoadInv
<1>2. PICK n \in MinSources .. MaxSources :
        /\ outcome \in [1 .. n -> Contents \cup {Failed, Pending}]
        /\ running \in SUBSET (1 .. n)
        /\ collected \in Seq(1 .. n)
  BY <1>1 DEF TypeOK
<1>3. n \in Nat /\ Sources = 1 .. n /\ Sources' = Sources
  BY <1>1, <1>2, LoaderAssumption DEF Sources
<1>4. CASE Sources = Started
  <2>1. drained' = TRUE /\ running' = running
    BY <1>4 DEF Poll
  <2> QED
    BY <1>1, <1>2, <1>3, <1>4, <2>1 DEF LoadInv, TypeOK, Progress, Started
<1>5. CASE Sources # Started
  <2> DEFINE c == Cardinality(Started)
  <2>1. running' = running \cup {c + 1} /\ drained' = drained
    BY <1>5 DEF Poll
  <2>2. Range(collected) \subseteq 1 .. n
    BY <1>2, RangeOfSeq
  <2>3. Started = 1 .. c /\ Started \subseteq 1 .. n
    BY <1>1, <1>2, <2>2 DEF Progress, Started
  <2>4. c \in Nat /\ c <= n
    <3>1. IsFiniteSet(1 .. n) /\ Cardinality(1 .. n) = n
      <4>1. n \in Int /\ 1 \in Int /\ (IF 1 > n THEN 0 ELSE n - 1 + 1) = n
        BY <1>3
      <4> QED
        BY <4>1, FS_Interval
    <3>2. IsFiniteSet(Started) /\ Cardinality(Started) <= n
      BY <2>3, <3>1, FS_Subset
    <3> QED
      BY <3>2, FS_CardinalityType
  <2>5. c < n
    BY <1>3, <1>5, <2>3, <2>4
  <2>6. Started' = 1 .. c + 1
    <3>1. Started' = Started \cup {c + 1}
      BY <1>1, <2>1 DEF Started
    <3> QED
      BY <2>3, <2>4, <3>1
  <2>7. Cardinality(1 .. c + 1) = c + 1
    BY <2>4, FS_Interval
  <2>8. running' \in SUBSET (1 .. n) /\ c + 1 \notin Range(collected)
    <3>1. c + 1 \notin Started
      BY <2>3, <2>4
    <3>2. c + 1 \in 1 .. n
      BY <1>3, <2>4, <2>5
    <3> QED
      BY <1>2, <2>1, <3>1, <3>2 DEF Started
  <2>9. TypeOK'
    BY <1>1, <1>2, <2>1, <2>8 DEF TypeOK
  <2>10. Progress'
    BY <1>1, <1>3, <2>1, <2>6, <2>7, <2>8 DEF Progress
  <2> QED
    BY <2>9, <2>10 DEF LoadInv
<1> QED
  BY <1>4, <1>5

\* A source that finishes moves from the running ones to the collected ones.
LEMMA LoadFinish ==
  ASSUME LoadInv, NEW i \in Sources, Finish(i)
  PROVE  LoadInv'
<1>1. result = Unfinished /\ Progress /\ TypeOK /\ i \in running
      /\ collected' = Append(collected, i) /\ UNCHANGED <<skip, drained>>
  BY DEF Finish, LoadInv
<1>2. PICK n \in MinSources .. MaxSources :
        /\ outcome \in [1 .. n -> Contents \cup {Failed, Pending}]
        /\ running \in SUBSET (1 .. n)
        /\ collected \in Seq(1 .. n)
  BY <1>1 DEF TypeOK
<1>3. PICK o \in Contents \cup {Failed} :
        /\ outcome' = [outcome EXCEPT ![i] = o]
        /\ IF o = Failed /\ ~skip
           THEN result' = Error /\ running' = {}
           ELSE result' = result /\ running' = running \ {i}
  BY DEF Finish
<1>4. n \in Nat /\ Sources = 1 .. n /\ Sources' = Sources /\ o # Pending
  BY <1>2, <1>3, LoaderAssumption DEF Sources
<1>5. collected' \in Seq(1 .. n) /\ Len(collected') = Len(collected) + 1
      /\ Range(collected') = Range(collected) \cup {i}
  BY <1>1, <1>2, RangeOfAppend, AppendProperties
<1>6. TypeOK'
  <2>1. running' \in SUBSET (1 .. n)
    BY <1>2, <1>3
  <2>2. outcome' \in [1 .. n -> Contents \cup {Failed, Pending}]
    BY <1>2, <1>3
  <2>3. result'.kind \in {"none", "error", "ok"} /\ result'.value \in Seq(Contents \cup {Failed})
    <3>1. Error.kind = "error" /\ Error.value = <<>>
      BY DEF Error
    <3>2. <<>> \in Seq(Contents \cup {Failed})
      OBVIOUS
    <3> QED
      BY <1>1, <1>3, <3>1, <3>2 DEF TypeOK
  <2> QED
    BY <1>1, <1>2, <1>5, <2>1, <2>2, <2>3 DEF TypeOK
<1>7. ASSUME result' = Unfinished
      PROVE  Progress'
  <2>1. result' = result /\ running' = running \ {i}
    BY <1>3, <1>7 DEF Unfinished, Error
  <2>2. i \notin Range(collected)
    BY <1>1 DEF Progress
  <2>3. Started' = Started
    BY <1>1, <1>5, <2>1 DEF Started
  <2>4. Cardinality(Range(collected')) = Len(collected')
    <3>1. IsFiniteSet(Range(collected))
      BY <1>2, <1>4, RangeOfSeq, FS_Subset, FS_Interval
    <3>2. /\ Range(collected') = Range(collected) \cup {i}
          /\ Len(collected') = Len(collected) + 1
          /\ Cardinality(Range(collected)) = Len(collected)
      BY <1>1, <1>5 DEF Progress
    <3> QED
      BY <2>2, <3>1, <3>2, FS_AddElement
  <2>5. \A j \in Sources : outcome'[j] = Pending <=> j \notin Range(collected')
    BY <1>1, <1>2, <1>3, <1>4, <1>5 DEF Progress
  <2> QED
    BY <1>1, <1>4, <1>5, <2>1, <2>2, <2>3, <2>4, <2>5 DEF Progress
<1> QED
  BY <1>6, <1>7 DEF LoadInv

\* When a load delivers, every source has finished exactly once.
LEMMA AllFinished ==
  ASSUME LoadInv, Deliver
  PROVE  \E n \in MinSources .. MaxSources :
           /\ outcome \in [1 .. n -> Contents \cup {Failed}]
           /\ collected \in Seq(1 .. n)
           /\ Range(collected) = 1 .. n
           /\ Len(collected) = n
<1>1. Progress /\ TypeOK /\ drained /\ running = {}
  BY DEF Deliver, LoadInv
<1>2. PICK n \in MinSources .. MaxSources :
        /\ outcome \in [1 .. n -> Contents \cup {Failed, Pending}]
        /\ collected \in Seq(1 .. n)
  BY <1>1 DEF TypeOK
<1>3. n \in Nat /\ Sources = 1 .. n
  BY <1>2, LoaderAssumption DEF Sources
<1>4. Range(collected) = 1 .. n
  BY <1>1, <1>3 DEF Progress, Started
<1>5. Len(collected) = n
  BY <1>1, <1>3, <1>4, FS_Interval DEF Progress
<1>6. \A i \in 1 .. n : outcome[i] # Pending
  BY <1>1, <1>3, <1>4 DEF Progress
<1> QED
  BY <1>2, <1>4, <1>5, <1>6

\* What is delivered has its type.
LEMMA LoadDeliver ==
  ASSUME LoadInv, Deliver
  PROVE  LoadInv'
<1>1. PICK n \in MinSources .. MaxSources :
        /\ outcome \in [1 .. n -> Contents \cup {Failed}]
        /\ collected \in Seq(1 .. n)
        /\ Range(collected) = 1 .. n
        /\ Len(collected) = n
  BY AllFinished
<1> DEFINE order == IF Sorts THEN SortByIndex(collected) ELSE collected
           value == [k \in DOMAIN order |-> outcome[order[k]]]
<1>2. result' = Loaded(value) /\ UNCHANGED <<skip, outcome, running, drained, collected>>
  BY DEF Deliver
<1>3. n \in Nat
  BY LoaderAssumption
<1>4. DOMAIN order = 1 .. n /\ \A k \in 1 .. n : order[k] \in 1 .. n
  <2>1. CASE Sorts
    BY <1>1, <1>3, <2>1, SortedIsList
  <2>2. CASE ~Sorts
    BY <1>1, <1>3, <2>2, ElementOfSeq
  <2> QED
    BY <2>1, <2>2
<1>5. value \in Seq(Contents \cup {Failed})
  <2> HIDE DEF order
  <2>1. value \in [1 .. n -> Contents \cup {Failed}]
    BY <1>1, <1>4
  <2> HIDE DEF value
  <2> QED
    BY <1>3, <2>1
<1> HIDE DEF value
<1>6. result'.kind = "ok" /\ result'.value = value /\ result' # Unfinished
  BY <1>2 DEF Loaded, Unfinished
<1>7. TypeOK'
  BY <1>2, <1>5, <1>6 DEF LoadInv, TypeOK
<1> QED
  BY <1>6, <1>7 DEF LoadInv

\* Every step keeps the invariant.
LEMMA LoadStep == LoadInv /\ [Next]_vars => LoadInv'
<1> SUFFICES ASSUME LoadInv, [Next]_vars PROVE LoadInv'
  OBVIOUS
<1>1. CASE UNCHANGED vars
  BY <1>1 DEF vars, LoadInv, TypeOK, Progress, Started, Sources
<1> QED
  BY <1>1, LoadPoll, LoadFinish, LoadDeliver DEF Next, Returned

\* The invariant holds in every state.
LEMMA LoadInvariant == Spec => []LoadInv
  BY LoadInit, LoadStep, PTL DEF Spec

\* The variables of a load keep their types.
THEOREM TypeCorrect == Spec => []TypeOK
<1>1. LoadInv => TypeOK
  BY DEF LoadInv
<1> QED
  BY <1>1, LoadInvariant, PTL

\* No load ever fetches more sources at a time than fetch_concurrency, or one.
THEOREM ConcurrencyIsBounded == Spec => []ConcurrencyBounded
<1> DEFINE Inv == LoadInv /\ IsFiniteSet(running) /\ ConcurrencyBounded
<1>1. Init => Inv
  BY LoadInit, FS_EmptySet, LoaderAssumption DEF Init, ConcurrencyBounded, Larger
<1>2. Inv /\ [Next]_vars => Inv'
  <2> SUFFICES ASSUME Inv, [Next]_vars PROVE Inv'
    OBVIOUS
  <2>1. LoadInv'
    BY LoadStep
  <2>2. CASE Poll
    <3>1. PICK n \in Nat : Cardinality(Sources) = n
      BY LoaderAssumption, FS_Interval DEF LoadInv, TypeOK, Sources
    <3>2. Cardinality(running) < Larger(FetchConcurrency, 1) /\ Cardinality(running) \in Nat
      BY <2>2, <3>1, ConcurrencyRange, FS_CardinalityType, LoaderAssumption DEF Poll, Larger
    <3>3. running' = running \/ \E i : running' = running \cup {i}
      BY <2>2 DEF Poll
    <3>4. IsFiniteSet(running') /\ Cardinality(running') <= Cardinality(running) + 1
      BY <3>2, <3>3, FS_AddElement
    <3>5. Cardinality(running') \in Nat /\ Larger(FetchConcurrency, 1) \in Nat
      BY <3>4, FS_CardinalityType, LoaderAssumption DEF Larger
    <3> QED
      BY <2>1, <3>2, <3>4, <3>5 DEF ConcurrencyBounded
  <2>3. CASE \E i \in Sources : Finish(i)
    <3>1. running' \subseteq running
      BY <2>3 DEF Finish
    <3>2. IsFiniteSet(running') /\ Cardinality(running') <= Cardinality(running)
      BY <3>1, FS_Subset
    <3>3. Cardinality(running') \in Nat /\ Cardinality(running) \in Nat
          /\ Larger(FetchConcurrency, 1) \in Nat
      BY <3>2, FS_CardinalityType, LoaderAssumption DEF Larger
    <3> QED
      BY <2>1, <3>2, <3>3 DEF ConcurrencyBounded
  <2>4. CASE Deliver \/ Returned \/ UNCHANGED vars
    BY <2>1, <2>4 DEF Deliver, Returned, vars, ConcurrencyBounded
  <2> QED
    BY <2>2, <2>3, <2>4 DEF Next
<1>3. Inv => ConcurrencyBounded
  OBVIOUS
<1> QED
  BY <1>1, <1>2, <1>3, PTL DEF Spec

\* A load that has returned has no fetch of its own left.
THEOREM NothingIsLeftRunning == Spec => []NothingRunsAfterwards
<1>1. Init => NothingRunsAfterwards
  BY DEF Init, NothingRunsAfterwards
<1>2. NothingRunsAfterwards /\ [Next]_vars => NothingRunsAfterwards'
  BY DEF NothingRunsAfterwards, Next, vars, Poll, Finish, Deliver, Returned
<1> QED
  BY <1>1, <1>2, PTL DEF Spec

\* A load that sorts implements the list-ordered load: whatever order sources
\* finish in, the contents come back in list order.
THEOREM LoadsInOrder == Sorts => (Spec => ImplementsOrderedLoad)
<1> SUFFICES ASSUME Sorts PROVE Spec => ImplementsOrderedLoad
  OBVIOUS
<1>1. Init => Ordered!Init
  BY LoaderAssumption DEF Init, Ordered!Init, Unfinished, Ordered!Unfinished
<1>2. LoadInv /\ [Next]_vars => [Ordered!Next]_(Ordered!vars)
  <2> SUFFICES ASSUME LoadInv, [Next]_vars PROVE [Ordered!Next]_(Ordered!vars)
    OBVIOUS
  <2>1. CASE Poll \/ Returned \/ UNCHANGED vars
    BY <2>1 DEF Poll, Returned, vars, Ordered!vars
  <2>2. ASSUME NEW i \in Sources, Finish(i) PROVE Ordered!Finish(i)
    <3>1. outcome[i] = Pending
      BY <2>2 DEF LoadInv, Progress, Finish
    <3> QED
      BY <2>2, <3>1 DEF Finish, Ordered!Finish, Unfinished, Ordered!Unfinished, Error, Ordered!Error
  <2>3. CASE Deliver
    <3>1. PICK n \in MinSources .. MaxSources :
            /\ outcome \in [1 .. n -> Contents \cup {Failed}]
            /\ collected \in Seq(1 .. n)
            /\ Range(collected) = 1 .. n
            /\ Len(collected) = n
      BY <2>3, AllFinished
    <3>2. n \in Nat
      BY LoaderAssumption
    <3>3. SortByIndex(collected) = [k \in 1 .. n |-> k]
      BY <3>1, <3>2, SortedIsList
    <3>4. [k \in 1 .. n |-> outcome[k]] = outcome
      BY <3>1
    <3>5. result' = Loaded(outcome)
      BY <2>3, <3>3, <3>4 DEF Deliver
    <3>6. \A i \in DOMAIN outcome : outcome[i] # Pending
      BY <3>1, LoaderAssumption
    <3> QED
      BY <2>3, <3>5, <3>6 DEF Deliver, Ordered!Next, Ordered!Deliver, Loaded, Ordered!Loaded,
         Unfinished, Ordered!Unfinished
  <2> QED
    BY <2>1, <2>2, <2>3 DEF Next, Sources, Ordered!Next
<1> QED
  BY <1>1, <1>2, LoadInvariant, PTL DEF Spec, ImplementsOrderedLoad, Ordered!Spec

-----------------------------------------------------------------------------
(* What the rules of several contents add up to *)

\* h counts the rules of the contents step by step.
CountSteps(h, contents) ==
    /\ RulesIn(contents) = h[Len(contents)]
    /\ h[0] = 0
    /\ h \in [0 .. Len(contents) -> Nat]
    /\ \A n \in 1 .. Len(contents) : h[n] = h[n - 1] + Len(RulesOf[contents[n]])

\* The number of rules is computed by the recursion that defines it.
LEMMA CountRecursion ==
  ASSUME CollectAssumption, NEW contents \in Seq(Contents)
  PROVE  \E h : CountSteps(h, contents)
<1> DEFINE N == Len(contents)
           size(n) == Len(RulesOf[contents[n]])
           step == [p \in (1 .. N) \X Nat |-> p[2] + size(p[1])]
<1>1. N \in Nat /\ \A n \in 1 .. N : size(n) \in Nat
  BY DEF CollectAssumption
<1>2. PICK f : f \in Recursions(N, Nat, 0, step)
  <2>1. step \in Stepping(N, Nat)
    <3> HIDE DEF size
    <3> QED
      BY <1>1 DEF Stepping
  <2> HIDE DEF step, N
  <2> QED
    BY <1>1, <2>1, RecursionExists
<1>3. f \in [0 .. N -> Nat] /\ f[0] = 0 /\ \A n \in 1 .. N : f[n] = step[<<n, f[n - 1]>>]
  BY <1>2 DEF Recursions
<1>4. \A n \in 1 .. N : f[n] = f[n - 1] + size(n)
  <2> SUFFICES ASSUME NEW n \in 1 .. N PROVE f[n] = f[n - 1] + size(n)
    OBVIOUS
  <2> HIDE DEF N, size
  <2>1. n - 1 \in 0 .. N
    BY <1>1
  <2>2. <<n, f[n - 1]>> \in (1 .. N) \X Nat
    BY <1>3, <2>1
  <2> QED
    BY <1>3, <2>2
<1> DEFINE isMeant(h) == h = [n \in 0 .. N |-> IF n = 0 THEN 0 ELSE h[n - 1] + size(n)]
           g == CHOOSE h : isMeant(h)
<1>5. isMeant(f)
  <2> HIDE DEF N, size
  <2> QED
    BY <1>1, <1>3, <1>4
<1>6. isMeant(g)
  <2> HIDE DEF isMeant
  <2> QED
    BY <1>5
<1>7. RulesIn(contents) = g[N]
  BY DEF RulesIn
<1> HIDE DEF g
<1>8. g[0] = 0 /\ \A n \in 1 .. N : g[n] = g[n - 1] + size(n)
  <2> HIDE DEF N, size
  <2> QED
    BY <1>1, <1>6
<1>9. g \in [0 .. N -> Nat]
  <2> DEFINE T == {n \in 0 .. N : g[n] \in Nat}
  <2>1. 0 \in T
    BY <1>1, <1>8
  <2>2. ASSUME NEW n \in 0 .. N - 1, n \in T PROVE n + 1 \in T
    <3> HIDE DEF N, size
    <3>1. n + 1 \in 1 .. N /\ (n + 1) - 1 = n
      BY <1>1
    <3>2. g[n + 1] = g[n] + size(n + 1)
      BY <1>8, <3>1
    <3> QED
      BY <1>1, <2>2, <3>1, <3>2
  <2>3. \A n \in 0 .. N : n \in T
    <3> HIDE DEF T, N
    <3> QED
      BY <1>1, <2>1, <2>2, BoundedInduction
  <2>4. \A n \in 0 .. N : g[n] \in Nat
    BY <2>3
  <2> HIDE DEF N, size
  <2> QED
    BY <1>6, <2>4
<1>10. CountSteps(g, contents)
  BY <1>7, <1>8, <1>9 DEF CountSteps
<1> QED
  BY <1>10

\* The rules of the contents, each with the place it has in its content.
Places(contents, n) ==
    {p \in (1 .. n) \X Nat : p[2] \in 1 .. Len(RulesOf[contents[p[1]]])}

\* There are as many places as rules.
LEMMA CountPlaces ==
  ASSUME CollectAssumption, NEW contents \in Seq(Contents)
  PROVE  /\ IsFiniteSet(Places(contents, Len(contents)))
         /\ Cardinality(Places(contents, Len(contents))) = RulesIn(contents)
<1>1. PICK h : CountSteps(h, contents)
  BY CountRecursion
<1> DEFINE N == Len(contents)
           size(n) == Len(RulesOf[contents[n]])
           Counted(n) == IsFiniteSet(Places(contents, n)) /\ Cardinality(Places(contents, n)) = h[n]
           T == {n \in 0 .. N : Counted(n)}
<1>2. N \in Nat /\ \A n \in 1 .. N : size(n) \in Nat
  BY DEF CollectAssumption
<1>3. /\ RulesIn(contents) = h[N] /\ h[0] = 0 /\ h \in [0 .. N -> Nat]
      /\ \A n \in 1 .. N : h[n] = h[n - 1] + size(n)
  BY <1>1 DEF CountSteps
<1>4. 0 \in T
  <2>1. Places(contents, 0) = {}
    <3>1. 1 .. 0 = {}
      OBVIOUS
    <3>2. \A p : p \notin Places(contents, 0)
      BY <3>1, Zenon DEF Places
    <3> QED
      BY <3>2
  <2>2. Counted(0)
    BY <1>3, <2>1, FS_EmptySet
  <2> HIDE DEF Counted
  <2> QED
    BY <1>2, <2>2
<1>5. ASSUME NEW n \in 0 .. N - 1, n \in T
      PROVE  n + 1 \in T
  <2> DEFINE old == Places(contents, n)
             new == {n + 1} \X (1 .. size(n + 1))
  <2>1. n + 1 \in 1 .. N /\ (n + 1) - 1 = n /\ n + 1 \in 0 .. N /\ n \in Nat /\ h[n] \in Nat
    BY <1>2, <1>3
  <2>2. size(n + 1) \in Nat /\ h[n + 1] = h[n] + size(n + 1)
    BY <1>2, <1>3, <2>1
  <2>3. IsFiniteSet(old) /\ Cardinality(old) = h[n]
    BY <1>5
  <2>4. IsFiniteSet(new) /\ Cardinality(new) = size(n + 1)
    <3> HIDE DEF size
    <3>1. IsFiniteSet({n + 1}) /\ Cardinality({n + 1}) = 1
      BY FS_Singleton
    <3>2. IsFiniteSet(1 .. size(n + 1)) /\ Cardinality(1 .. size(n + 1)) = size(n + 1)
      BY <2>2, FS_Interval
    <3>3. IsFiniteSet(new) /\ Cardinality(new) = Cardinality({n + 1}) * Cardinality(1 .. size(n + 1))
      BY <3>1, <3>2, FS_Product
    <3> HIDE DEF new
    <3>4. Cardinality(new) = 1 * size(n + 1)
      BY <3>1, <3>2, <3>3
    <3> QED
      BY <2>2, <3>3, <3>4
  <2>5. Places(contents, n + 1) = old \cup new
    <3>1. 1 .. n + 1 = (1 .. n) \cup {n + 1}
      BY <2>1
    <3>2. \A p : p \in Places(contents, n + 1) <=>
                   /\ p \in (1 .. n + 1) \X Nat
                   /\ p[2] \in 1 .. size(p[1])
      BY DEF Places
    <3>3. \A p : p \in old <=> p \in (1 .. n) \X Nat /\ p[2] \in 1 .. size(p[1])
      BY DEF Places
    <3> HIDE DEF size, old
    <3>4. \A p : p \in new <=> p \in {n + 1} \X Nat /\ p[2] \in 1 .. size(p[1])
      BY <2>2
    <3> HIDE DEF new
    <3> QED
      BY <3>1, <3>2, <3>3, <3>4
  <2>6. old \cap new = {}
    <3>1. \A p \in old : p[1] \in 1 .. n
      BY DEF Places
    <3>2. \A p \in new : p[1] = n + 1
      OBVIOUS
    <3> HIDE DEF old, new
    <3> QED
      BY <2>1, <3>1, <3>2
  <2>7. Counted(n + 1)
    <3> HIDE DEF old, new, size
    <3>1. Cardinality(old \cup new) = Cardinality(old) + Cardinality(new) - Cardinality(old \cap new)
          /\ IsFiniteSet(old \cup new)
      BY <2>3, <2>4, FS_Union
    <3>2. Cardinality(old \cap new) = 0
      BY <2>6, FS_EmptySet
    <3>3. Cardinality(old \cup new) = h[n] + size(n + 1) - 0
      BY <2>3, <2>4, <3>1, <3>2
    <3>4. Cardinality(old \cup new) = h[n + 1]
      BY <2>1, <2>2, <3>3
    <3> QED
      BY <2>5, <3>1, <3>4
  <2> QED
    BY <2>1, <2>7
<1>6. \A n \in 0 .. N : n \in T
  <2> HIDE DEF T, N
  <2> QED
    BY <1>2, <1>4, <1>5, BoundedInduction
<1>7. N \in 0 .. N
  BY <1>2
<1> QED
  BY <1>3, <1>6, <1>7

\* The order of the contents does not change how many rules they have.
LEMMA CountOfPermutation ==
  ASSUME CollectAssumption, NEW n \in Nat, NEW given \in [1 .. n -> Contents],
         NEW p \in Bijection(1 .. n, 1 .. n)
  PROVE  RulesIn([k \in 1 .. n |-> given[p[k]]]) = RulesIn(given)
<1> DEFINE moved == [k \in 1 .. n |-> given[p[k]]]
           size(k) == Len(RulesOf[given[k]])
           A == Places(moved, n)
           B == Places(given, n)
           f == [x \in A |-> <<p[x[1]], x[2]>>]
<1>1. /\ \A k \in 1 .. n : p[k] \in 1 .. n
      /\ \A j, k \in 1 .. n : p[j] = p[k] => j = k
      /\ \A j \in 1 .. n : \E k \in 1 .. n : p[k] = j
  <2>1. /\ p \in [1 .. n -> 1 .. n]
        /\ \A a, b \in 1 .. n : p[a] = p[b] => a = b
        /\ \A t \in 1 .. n : \E s \in 1 .. n : p[s] = t
    BY DEF Bijection, Injection, Surjection, IsInjective
  <2> QED
    BY <2>1
<1>2. moved \in Seq(Contents) /\ Len(moved) = n /\ given \in Seq(Contents) /\ Len(given) = n
  <2>1. moved \in [1 .. n -> Contents]
    BY <1>1
  <2> HIDE DEF moved
  <2> QED
    BY <2>1
<1>3. \A x : x \in A <=> x \in (1 .. n) \X Nat /\ x[2] \in 1 .. size(p[x[1]])
  BY DEF Places
<1>4. \A x : x \in B <=> x \in (1 .. n) \X Nat /\ x[2] \in 1 .. size(x[1])
  BY DEF Places
<1>5. f \in Bijection(A, B)
  <2> HIDE DEF A, B, size
  <2>1. f \in [A -> B]
    <3> SUFFICES ASSUME NEW x \in A PROVE <<p[x[1]], x[2]>> \in B
      OBVIOUS
    <3>1. x \in (1 .. n) \X Nat /\ x[2] \in 1 .. size(p[x[1]])
      BY <1>3
    <3>2. p[x[1]] \in 1 .. n /\ x[2] \in Nat
      BY <1>1, <3>1
    <3> QED
      BY <1>4, <3>1, <3>2
  <2>2. \A x, y \in A : f[x] = f[y] => x = y
    <3> SUFFICES ASSUME NEW x \in A, NEW y \in A, f[x] = f[y] PROVE x = y
      OBVIOUS
    <3>1. p[x[1]] = p[y[1]] /\ x[2] = y[2]
      <4>1. <<p[x[1]], x[2]>> = <<p[y[1]], y[2]>>
        OBVIOUS
      <4> HIDE DEF f
      <4> QED
        BY <4>1
    <3>2. x \in (1 .. n) \X Nat /\ y \in (1 .. n) \X Nat
      BY <1>3
    <3>3. x[1] = y[1]
      <4>1. x[1] \in 1 .. n /\ y[1] \in 1 .. n
        BY <3>2
      <4> QED
        BY <1>1, <3>1, <4>1
    <3> QED
      BY <3>1, <3>2, <3>3
  <2>3. \A z \in B : \E x \in A : f[x] = z
    <3> SUFFICES ASSUME NEW z \in B PROVE \E x \in A : f[x] = z
      OBVIOUS
    <3>1. z \in (1 .. n) \X Nat /\ z[2] \in 1 .. size(z[1])
      BY <1>4
    <3>2. PICK k \in 1 .. n : p[k] = z[1]
      BY <1>1, <3>1
    <3>3. <<k, z[2]>> \in A
      BY <1>3, <3>1, <3>2
    <3> QED
      BY <3>1, <3>2, <3>3
  <2> HIDE DEF f
  <2> QED
    BY <2>1, <2>2, <2>3 DEF Bijection, Injection, Surjection, IsInjective
<1> HIDE DEF A, B, f, moved
<1>6. IsFiniteSet(A) /\ Cardinality(A) = RulesIn(moved) /\ Cardinality(B) = RulesIn(given)
  BY <1>2, CountPlaces DEF A, B
<1>7. Cardinality(B) = Cardinality(A)
  BY <1>5, <1>6, FS_Bijection DEF ExistsBijection
<1> QED
  BY <1>6, <1>7 DEF moved

-----------------------------------------------------------------------------
(* What the loop over the contents takes *)

\* What the loop has at hand: never more rules than the limit.
Taken ==
    {acc \in [rules : Seq(STRING), status : {0, 200, 400}] :
        MaxRules = 0 \/ Len(acc.rules) <= MaxRules}

\* Taking rules stops exactly at the limit.
LEMMA TakeCuts ==
  ASSUME CollectAssumption, NEW listed \in Seq(STRING), NEW acc \in Seq(STRING),
         MaxRules = 0 \/ Len(acc) <= MaxRules
  PROVE  /\ Take(listed, acc) \in Seq(STRING)
         /\ Len(Take(listed, acc)) =
              IF MaxRules = 0 THEN Len(acc) + Len(listed)
              ELSE Smaller(Len(acc) + Len(listed), MaxRules)
         /\ MaxRules = 0 \/ Len(acc) + Len(listed) <= MaxRules => Take(listed, acc) = acc \o listed
<1>1. MaxRules \in Nat /\ Len(listed) \in Nat /\ Len(acc) \in Nat
  BY DEF CollectAssumption
<1>2. CASE MaxRules = 0
  <2>1. Take(listed, acc) = acc \o listed
    BY <1>2 DEF Take
  <2> QED
    BY <1>1, <1>2, <2>1, ConcatProperties
<1>3. CASE MaxRules # 0
  <2> DEFINE m == Smaller(MaxRules - Len(acc), Len(listed))
             some == SubSeq(listed, 1, m)
  <2>1. m \in 0 .. Len(listed) /\ Len(acc) + m = Smaller(Len(acc) + Len(listed), MaxRules)
        /\ (Len(acc) + Len(listed) <= MaxRules => m = Len(listed))
    BY <1>1, <1>3 DEF Smaller
  <2>2. Take(listed, acc) = acc \o some
    BY <1>3 DEF Take
  <2> HIDE DEF m
  <2>3. some \in Seq(STRING) /\ Len(some) = m /\ (m = Len(listed) => some = listed)
    <3>1. \A i \in 1 .. m : listed[i] \in STRING
      BY <1>1, <2>1
    <3>2. some \in Seq(STRING) /\ Len(some) = IF 1 <= m THEN m - 1 + 1 ELSE 0
      BY <2>1, <3>1, SubSeqProperties
    <3>3. SubSeq(listed, 1, Len(listed)) = listed
      BY SubSeqFull
    <3> HIDE DEF some
    <3>4. Len(some) = m
      BY <1>1, <2>1, <3>2
    <3>5. m = Len(listed) => some = listed
      BY <3>3 DEF some
    <3> QED
      BY <3>2, <3>4, <3>5
  <2> HIDE DEF some
  <2>4. acc \o some \in Seq(STRING) /\ Len(acc \o some) = Len(acc) + m
    BY <2>3, ConcatProperties
  <2> QED
    BY <1>3, <2>1, <2>2, <2>3, <2>4
<1> QED
  BY <1>2, <1>3

\* The loop keeps within the limit.
LEMMA AddContentType ==
  ASSUME CollectAssumption, NEW acc \in Taken, NEW c \in Contents
  PROVE  AddContent(acc, c) \in Taken
<1>1. /\ acc.rules \in Seq(STRING) /\ acc.status \in {0, 200, 400}
      /\ MaxRules = 0 \/ Len(acc.rules) <= MaxRules
      /\ RulesOf[c] \in Seq(STRING) /\ MaxRules \in Nat
      /\ acc \in [rules : Seq(STRING), status : {0, 200, 400}]
  BY DEF Taken, CollectAssumption
<1>2. \A s \in {200, 400} : [acc EXCEPT !.status = s] \in Taken
  BY <1>1 DEF Taken
<1> DEFINE more == Take(RulesOf[c], acc.rules)
<1>3. more \in Seq(STRING) /\ (MaxRules = 0 \/ Len(more) <= MaxRules)
  <2> DEFINE old == acc.rules
             new == RulesOf[c]
  <2>0. old \in Seq(STRING) /\ new \in Seq(STRING) /\ (MaxRules = 0 \/ Len(old) <= MaxRules)
    BY <1>1
  <2> HIDE DEF old, new
  <2>1. Take(new, old) \in Seq(STRING)
    BY <2>0, TakeCuts, Zenon
  <2>2. Len(Take(new, old)) = IF MaxRules = 0 THEN Len(old) + Len(new)
                    ELSE Smaller(Len(old) + Len(new), MaxRules)
    BY <2>0, TakeCuts, Zenon
  <2>3. MaxRules = 0 \/ Len(Take(new, old)) <= MaxRules
    <3>1. Len(old) \in Nat /\ Len(new) \in Nat
      BY <2>0
    <3> QED
      BY <1>1, <2>2, <3>1 DEF Smaller
  <2>4. more = Take(new, old)
    BY DEF new, old
  <2> QED
    BY <2>1, <2>3, <2>4
<1> HIDE DEF more
<1>4. [acc EXCEPT !.rules = more] \in Taken
  BY <1>1, <1>3 DEF Taken
<1> QED
  BY <1>2, <1>4 DEF AddContent, more

\* g is what AddAll computes step by step.
AddSteps(g, contents) ==
    /\ AddAll(contents) = g[Len(contents)]
    /\ g[0] = Nothing
    /\ \A n \in 0 .. Len(contents) : g[n] \in Taken
    /\ \A n \in 1 .. Len(contents) : g[n] = AddContent(g[n - 1], contents[n])

\* The loop is computed by the recursion that defines it.
LEMMA AddRecursion ==
  ASSUME CollectAssumption, NEW contents \in Seq(Contents)
  PROVE  \E g : AddSteps(g, contents)
<1> DEFINE N == Len(contents)
           next(n, before) == AddContent(before, contents[n])
           step == [p \in (1 .. N) \X Taken |-> next(p[1], p[2])]
<1>1. N \in Nat /\ \A n \in 1 .. N : contents[n] \in Contents
  OBVIOUS
<1>2. Nothing \in Taken
  <2>1. Nothing \in [rules : Seq(STRING), status : {0, 200, 400}] /\ Len(Nothing.rules) = 0
    BY DEF Nothing
  <2> QED
    BY <2>1 DEF Taken, CollectAssumption
<1>3. \A n \in 1 .. N, before \in Taken : next(n, before) \in Taken
  BY <1>1, AddContentType
<1>4. PICK f : f \in Recursions(N, Taken, Nothing, step)
  <2>1. step \in Stepping(N, Taken)
    <3> HIDE DEF next
    <3> QED
      BY <1>3 DEF Stepping
  <2> HIDE DEF step, N
  <2> QED
    BY <1>1, <1>2, <2>1, RecursionExists
<1>5. f \in [0 .. N -> Taken] /\ f[0] = Nothing /\ \A n \in 1 .. N : f[n] = step[<<n, f[n - 1]>>]
  BY <1>4 DEF Recursions
<1>6. \A n \in 1 .. N : f[n] = next(n, f[n - 1])
  <2> SUFFICES ASSUME NEW n \in 1 .. N PROVE f[n] = next(n, f[n - 1])
    OBVIOUS
  <2> HIDE DEF N, next
  <2>1. n - 1 \in 0 .. N
    BY <1>1
  <2>2. <<n, f[n - 1]>> \in (1 .. N) \X Taken
    BY <1>5, <2>1
  <2> QED
    BY <1>5, <2>2
<1> DEFINE isMeant(h) == h = [n \in 0 .. N |-> IF n = 0 THEN Nothing ELSE next(n, h[n - 1])]
           g == CHOOSE h : isMeant(h)
<1>7. isMeant(f)
  <2> HIDE DEF N, next
  <2> QED
    BY <1>1, <1>5, <1>6
<1>8. isMeant(g)
  <2> HIDE DEF isMeant
  <2> QED
    BY <1>7
<1>9. AddAll(contents) = g[N]
  BY DEF AddAll
<1> HIDE DEF g
<1>10. g[0] = Nothing /\ \A n \in 1 .. N : g[n] = next(n, g[n - 1])
  <2> HIDE DEF N, next
  <2> QED
    BY <1>1, <1>8
<1>11. \A n \in 0 .. N : g[n] \in Taken
  <2> DEFINE T == {n \in 0 .. N : g[n] \in Taken}
  <2>1. 0 \in T
    BY <1>1, <1>2, <1>10
  <2>2. ASSUME NEW n \in 0 .. N - 1, n \in T PROVE n + 1 \in T
    <3> HIDE DEF N, next
    <3>1. n + 1 \in 1 .. N /\ n + 1 \in 0 .. N /\ (n + 1) - 1 = n
      BY <1>1
    <3>2. g[n + 1] = next(n + 1, g[n])
      BY <1>10, <3>1
    <3> QED
      BY <1>3, <2>2, <3>1, <3>2
  <2> HIDE DEF T, N
  <2>3. \A n \in 0 .. N : n \in T
    BY <1>1, <2>1, <2>2, BoundedInduction
  <2> QED
    BY <2>3 DEF T
<1>12. AddSteps(g, contents)
  BY <1>9, <1>10, <1>11 DEF AddSteps
<1> QED
  BY <1>12

\* Of contents that are all text the loop takes as many rules as there are, and
\* as the limit allows.
LEMMA LimitOfContents ==
  ASSUME CollectAssumption, NEW contents \in Seq(Contents),
         MaxRules > 0, Range(contents) \cap NotText = {}
  PROVE  Len(AddAll(contents).rules) = Smaller(RulesIn(contents), MaxRules)
<1>1. PICK g : AddSteps(g, contents)
  BY AddRecursion
<1>2. PICK h : CountSteps(h, contents)
  BY CountRecursion
<1> DEFINE N == Len(contents)
           Exact(n) ==
              \/ g[n].status = 0 /\ Len(g[n].rules) = Smaller(h[n], MaxRules)
              \/ g[n].status = 200 /\ Len(g[n].rules) = MaxRules /\ h[n] >= MaxRules
           T == {n \in 0 .. N : Exact(n)}
<1>3. /\ N \in Nat /\ MaxRules \in Nat
      /\ \A n \in 1 .. N : contents[n] \in Contents /\ contents[n] \notin NotText
      /\ \A n \in 1 .. N : RulesOf[contents[n]] \in Seq(STRING) /\ Len(RulesOf[contents[n]]) \in Nat
  BY DEF CollectAssumption, Range
<1>4. /\ AddAll(contents) = g[N] /\ g[0] = Nothing
      /\ \A n \in 0 .. N : g[n] \in Taken
      /\ \A n \in 1 .. N : g[n] = AddContent(g[n - 1], contents[n])
  BY <1>1 DEF AddSteps
<1>5. /\ RulesIn(contents) = h[N] /\ h[0] = 0 /\ h \in [0 .. N -> Nat]
      /\ \A n \in 1 .. N : h[n] = h[n - 1] + Len(RulesOf[contents[n]])
  BY <1>2 DEF CountSteps
<1>6. 0 \in T
  BY <1>3, <1>4, <1>5 DEF Nothing, Smaller
<1>7. ASSUME NEW n \in 0 .. N - 1, n \in T
      PROVE  n + 1 \in T
  <2> HIDE DEF N
  <2> DEFINE acc == g[n]
             more == RulesOf[contents[n + 1]]
  <2>1. n + 1 \in 1 .. N /\ (n + 1) - 1 = n /\ n \in 0 .. N /\ n + 1 \in 0 .. N /\ h[n] \in Nat
    <3>1. N \in Nat /\ h \in [0 .. N -> Nat]
      BY <1>3, <1>5
    <3>2. n \in 0 .. N /\ n + 1 \in 1 .. N /\ n + 1 \in 0 .. N /\ (n + 1) - 1 = n
      BY <3>1
    <3> QED
      BY <3>1, <3>2
  <2>2. /\ g[n + 1] = AddContent(acc, contents[n + 1])
        /\ h[n + 1] = h[n] + Len(more)
        /\ more \in Seq(STRING) /\ Len(more) \in Nat /\ contents[n + 1] \notin NotText
    BY <1>3, <1>4, <1>5, <2>1
  <2>3. /\ acc \in Taken /\ acc.rules \in Seq(STRING) /\ Len(acc.rules) \in Nat
        /\ Len(acc.rules) <= MaxRules /\ acc \in [rules : Seq(STRING), status : {0, 200, 400}]
    <3>1. acc \in Taken
      BY <1>4, <2>1
    <3> HIDE DEF acc
    <3> QED
      BY <1>3, <3>1 DEF Taken
  <2>4. Exact(n)
    BY <1>7
  <2>5. CASE acc.status = 200
    <3>1. g[n + 1] = acc
      BY <2>2, <2>5 DEF AddContent
    <3>2. Exact(n + 1)
      BY <1>3, <2>1, <2>2, <2>4, <2>5, <3>1
    <3> QED
      BY <2>1, <3>2
  <2>6. CASE acc.status = 0 /\ Len(acc.rules) = MaxRules
    <3>1. g[n + 1] = [acc EXCEPT !.status = 200]
      BY <2>2, <2>6 DEF AddContent
    <3>2. g[n + 1].status = 200 /\ g[n + 1].rules = acc.rules
      BY <2>3, <3>1
    <3>3. h[n] >= MaxRules
      BY <1>3, <2>1, <2>4, <2>6 DEF Smaller
    <3>4. Exact(n + 1)
      BY <1>3, <2>1, <2>2, <2>6, <3>2, <3>3
    <3> QED
      BY <2>1, <3>4
  <2>7. CASE acc.status = 0 /\ Len(acc.rules) # MaxRules
    <3>1. g[n + 1] = [acc EXCEPT !.rules = Take(more, acc.rules)]
      BY <2>2, <2>7 DEF AddContent
    <3>2. g[n + 1].status = 0 /\ g[n + 1].rules = Take(more, acc.rules)
      BY <2>3, <2>7, <3>1
    <3>3. Len(acc.rules) = h[n]
      BY <1>3, <2>1, <2>4, <2>7 DEF Smaller
    <3>4. Len(g[n + 1].rules) = Smaller(Len(acc.rules) + Len(more), MaxRules)
      <4>1. Len(Take(more, acc.rules)) = IF MaxRules = 0 THEN Len(acc.rules) + Len(more)
                                         ELSE Smaller(Len(acc.rules) + Len(more), MaxRules)
        BY <2>2, <2>3, TakeCuts, Zenon
      <4>2. MaxRules # 0
        BY <1>3
      <4> QED
        BY <3>2, <4>1, <4>2
    <3>5. Exact(n + 1)
      BY <2>2, <3>2, <3>3, <3>4
    <3> QED
      BY <2>1, <3>5
  <2> QED
    BY <2>4, <2>5, <2>6, <2>7
<1>8. \A n \in 0 .. N : n \in T
  <2> HIDE DEF T, N
  <2> QED
    BY <1>3, <1>6, <1>7, BoundedInduction
<1>9. Exact(N)
  <2>1. N \in 0 .. N
    BY <1>3
  <2> QED
    BY <1>8, <2>1
<1> HIDE DEF N
<1> QED
  BY <1>3, <1>4, <1>5, <1>9 DEF Smaller

\* What the loop makes of contents below the limit depends on which contents
\* there are, and on nothing else.
RulesOfAll(kinds) == UNION {Range(RulesOf[c]) : c \in kinds}
EncodeSet(kinds) ==
    IF kinds \cap NotText # {} THEN [status |-> 400, rules |-> {}]
    ELSE IF RulesOfAll(kinds) = {} THEN [status |-> 500, rules |-> {}]
    ELSE [status |-> 200, rules |-> RulesOfAll(kinds)]

\* Below the limit the answer depends on the set of the contents alone.
LEMMA EncodeBelowLimit ==
  ASSUME CollectAssumption, NEW contents \in Seq(Contents),
         MaxRules = 0 \/ RulesIn(contents) < MaxRules
  PROVE  Encode(contents) = EncodeSet(Range(contents))
<1>1. PICK g : AddSteps(g, contents)
  BY AddRecursion
<1>2. PICK h : CountSteps(h, contents)
  BY CountRecursion
<1> DEFINE N == Len(contents)
           HasBinary(n) == \E i \in 1 .. n : contents[i] \in NotText
           Gathers(n) ==
              IF HasBinary(n) THEN g[n].status = 400
              ELSE /\ g[n].status = 0
                   /\ Len(g[n].rules) = h[n]
                   /\ \A x : x \in Range(g[n].rules) <=>
                               \E i \in 1 .. n : x \in Range(RulesOf[contents[i]])
           Below(n) == MaxRules = 0 \/ h[n] < MaxRules
           T == {n \in 0 .. N : Below(n) => Gathers(n)}
<1>3. /\ N \in Nat /\ MaxRules \in Nat /\ DOMAIN contents = 1 .. N
      /\ \A n \in 1 .. N : contents[n] \in Contents
      /\ \A n \in 1 .. N : RulesOf[contents[n]] \in Seq(STRING) /\ Len(RulesOf[contents[n]]) \in Nat
  BY DEF CollectAssumption
<1>4. /\ AddAll(contents) = g[N] /\ g[0] = Nothing
      /\ \A n \in 0 .. N : g[n] \in Taken
      /\ \A n \in 1 .. N : g[n] = AddContent(g[n - 1], contents[n])
  BY <1>1 DEF AddSteps
<1>5. /\ RulesIn(contents) = h[N] /\ h[0] = 0 /\ h \in [0 .. N -> Nat]
      /\ \A n \in 1 .. N : h[n] = h[n - 1] + Len(RulesOf[contents[n]])
  BY <1>2 DEF CountSteps
<1>6. 0 \in T
  <2>1. ~HasBinary(0) /\ g[0].status = 0 /\ g[0].rules = <<>> /\ Len(g[0].rules) = 0
        /\ Range(g[0].rules) = {}
    BY <1>4 DEF Nothing, Range
  <2>2. \A x : ~ \E i \in 1 .. 0 : x \in Range(RulesOf[contents[i]])
    OBVIOUS
  <2>3. Gathers(0)
    BY <1>5, <2>1, <2>2
  <2> HIDE DEF Gathers
  <2> QED
    BY <1>3, <2>3
<1>7. ASSUME NEW n \in 0 .. N - 1, n \in T
      PROVE  n + 1 \in T
  <2> HIDE DEF N
  <2> DEFINE acc == g[n]
             c == contents[n + 1]
             more == RulesOf[c]
  <2>1. n + 1 \in 1 .. N /\ (n + 1) - 1 = n /\ n \in 0 .. N /\ n + 1 \in 0 .. N /\ h[n] \in Nat
        /\ n \in Nat
    <3>1. N \in Nat /\ h \in [0 .. N -> Nat]
      BY <1>3, <1>5
    <3>2. /\ n \in 0 .. N /\ n + 1 \in 1 .. N /\ n + 1 \in 0 .. N /\ (n + 1) - 1 = n
          /\ n \in Nat
      BY <3>1
    <3> QED
      BY <3>1, <3>2
  <2>0. 1 .. n + 1 = (1 .. n) \cup {n + 1}
    BY <2>1
  <2>2. /\ g[n + 1] = AddContent(acc, c)
        /\ h[n + 1] = h[n] + Len(more)
        /\ more \in Seq(STRING) /\ Len(more) \in Nat
    BY <1>3, <1>4, <1>5, <2>1
  <2>3. /\ acc \in Taken /\ acc.rules \in Seq(STRING) /\ Len(acc.rules) \in Nat
        /\ MaxRules = 0 \/ Len(acc.rules) <= MaxRules
        /\ acc \in [rules : Seq(STRING), status : {0, 200, 400}]
    <3>1. acc \in Taken
      BY <1>4, <2>1
    <3> HIDE DEF acc
    <3> QED
      BY <3>1 DEF Taken
  <2> SUFFICES ASSUME Below(n + 1) PROVE Gathers(n + 1)
    BY <2>1
  <2>4. Below(n) /\ Gathers(n)
    <3>1. Below(n)
      BY <1>3, <2>1, <2>2
    <3> HIDE DEF Below, Gathers
    <3> QED
      BY <1>7, <3>1
  <2>5. HasBinary(n + 1) <=> HasBinary(n) \/ c \in NotText
    BY <2>0
  <2>6. CASE HasBinary(n)
    <3>1. acc.status = 400
      BY <2>4, <2>6
    <3>2. g[n + 1] = acc
      BY <2>2, <3>1 DEF AddContent
    <3> HIDE DEF HasBinary
    <3> QED
      BY <2>5, <2>6, <3>1, <3>2
  <2>7. CASE ~HasBinary(n) /\ c \in NotText
    <3>1. acc.status = 0
      BY <2>4, <2>7
    <3>2. g[n + 1] = [acc EXCEPT !.status = 400]
      BY <2>2, <2>7, <3>1 DEF AddContent
    <3>3. g[n + 1].status = 400
      BY <2>3, <3>2
    <3> HIDE DEF HasBinary
    <3> QED
      BY <2>5, <2>7, <3>3
  <2>8. CASE ~HasBinary(n) /\ c \notin NotText
    <3>1. /\ acc.status = 0 /\ Len(acc.rules) = h[n]
          /\ \A x : x \in Range(acc.rules) <=>
                      \E i \in 1 .. n : x \in Range(RulesOf[contents[i]])
      BY <2>4, <2>8
    <3>2. ~(MaxRules > 0 /\ Len(acc.rules) = MaxRules)
      BY <1>3, <2>1, <2>4, <3>1
    <3>3. g[n + 1] = [acc EXCEPT !.rules = Take(more, acc.rules)]
      BY <2>2, <2>8, <3>1, <3>2 DEF AddContent
    <3>4. Take(more, acc.rules) = acc.rules \o more
      <4> DEFINE old == acc.rules
                 new == more
      <4>1. /\ old \in Seq(STRING) /\ new \in Seq(STRING)
            /\ MaxRules = 0 \/ Len(old) <= MaxRules
            /\ MaxRules = 0 \/ Len(old) + Len(new) <= MaxRules
        BY <1>3, <2>1, <2>2, <2>3, <3>1
      <4> HIDE DEF old, new
      <4>2. Take(new, old) = old \o new
        BY <4>1, TakeCuts, Zenon
      <4> QED
        BY <4>2 DEF old, new
    <3>5. g[n + 1].status = 0 /\ g[n + 1].rules = acc.rules \o more
      <4>1. g[n + 1].status = acc.status /\ g[n + 1].rules = Take(more, acc.rules)
        BY <2>3, <3>3
      <4> QED
        BY <3>1, <3>4, <4>1
    <3>6. Len(g[n + 1].rules) = h[n + 1]
      <4>1. Len(acc.rules \o more) = Len(acc.rules) + Len(more)
        BY <2>2, <2>3, ConcatProperties
      <4> QED
        BY <2>2, <3>1, <3>5, <4>1
    <3>7. \A x : x \in Range(g[n + 1].rules) <=> x \in Range(acc.rules) \/ x \in Range(more)
      <4>1. Range(acc.rules \o more) = Range(acc.rules) \cup Range(more)
        BY <2>2, <2>3, RangeConcatenation
      <4> QED
        BY <3>5, <4>1
    <3>8. \A x : x \in Range(g[n + 1].rules) <=>
                  \E i \in 1 .. n + 1 : x \in Range(RulesOf[contents[i]])
      BY <2>0, <3>1, <3>7
    <3>9. ~HasBinary(n + 1)
      <4> HIDE DEF HasBinary
      <4> QED
        BY <2>5, <2>8
    <3> HIDE DEF HasBinary
    <3> QED
      BY <3>5, <3>6, <3>8, <3>9
  <2> HIDE DEF HasBinary
  <2> QED
    BY <2>6, <2>7, <2>8
<1>8. \A n \in 0 .. N : n \in T
  <2> HIDE DEF T, N
  <2> QED
    BY <1>3, <1>6, <1>7, BoundedInduction
<1>9. Gathers(N)
  <2>1. N \in 0 .. N
    BY <1>3
  <2> HIDE DEF Gathers
  <2> QED
    BY <1>5, <1>8, <2>1
<1>10. HasBinary(N) <=> Range(contents) \cap NotText # {}
  BY <1>3 DEF Range
<1>11. CASE HasBinary(N)
  <2>1. AddAll(contents).status = 400
    BY <1>4, <1>9, <1>11
  <2> QED
    BY <1>10, <1>11, <2>1 DEF Encode, EncodeSet
<1>12. CASE ~HasBinary(N)
  <2> DEFINE listed == AddAll(contents).rules
  <2>1. /\ AddAll(contents).status = 0
        /\ \A x : x \in Range(listed) <=> \E i \in 1 .. N : x \in Range(RulesOf[contents[i]])
    BY <1>4, <1>9, <1>12
  <2>2. listed \in Seq(STRING)
    BY <1>3, <1>4 DEF Taken
  <2>3. Range(listed) = RulesOfAll(Range(contents))
    <3>1. \A x : x \in RulesOfAll(Range(contents)) <=>
                  \E i \in 1 .. N : x \in Range(RulesOf[contents[i]])
      <4>1. \A c : c \in Range(contents) <=> \E i \in 1 .. N : contents[i] = c
        BY <1>3 DEF Range
      <4> HIDE DEF N
      <4>2. \A x : x \in RulesOfAll(Range(contents)) <=>
                    \E c \in Range(contents) : x \in Range(RulesOf[c])
        BY DEF RulesOfAll
      <4> QED
        BY <4>1, <4>2
    <3> HIDE DEF listed
    <3> QED
      BY <2>1, <3>1
  <2> HIDE DEF listed
  <2>4. listed = <<>> <=> Range(listed) = {}
    <3>1. DOMAIN listed = 1 .. Len(listed) /\ Len(listed) \in Nat
      BY <2>2
    <3>2. Range(listed) = {} <=> Len(listed) = 0
      <4>1. CASE Len(listed) = 0
        BY <3>1, <4>1 DEF Range
      <4>2. CASE Len(listed) # 0
        <5>1. 1 \in DOMAIN listed
          BY <3>1, <4>2
        <5> QED
          BY <4>2, <5>1 DEF Range
      <4> QED
        BY <4>1, <4>2
    <3> QED
      BY <2>2, <3>2, EmptySeq
  <2> HIDE DEF HasBinary
  <2> QED
    BY <1>10, <1>12, <2>1, <2>3, <2>4 DEF Encode, EncodeSet, listed
<1> QED
  BY <1>11, <1>12

-----------------------------------------------------------------------------
(* What GET /ruleset answers *)

\* No source fails without ending the request, and what is loaded is what the
\* sources yielded, in some order.
CollectInv ==
    /\ LoadInv
    /\ skip = FALSE
    /\ result.kind # "error" => \A i \in Sources : outcome[i] # Failed
    /\ Answered =>
          \E n \in Nat :
             /\ outcome \in [1 .. n -> Contents]
             /\ \E p \in Bijection(1 .. n, 1 .. n) :
                   result.value = [k \in 1 .. n |-> outcome[p[k]]]

\* A request starts with nothing loaded.
LEMMA CollectInit ==
  ASSUME CollectAssumption, Init
  PROVE  CollectInv
<1>1. LoadInv /\ skip = FALSE /\ result.kind = "none"
  BY LoadInit DEF Init, Unfinished, CollectAssumption
<1>2. \A i \in Sources : outcome[i] # Failed
  BY LoaderAssumption DEF Init, Sources
<1> QED
  BY <1>1, <1>2 DEF CollectInv, Answered

\* What is delivered is the sources' contents in the order they finished.
LEMMA CollectDeliver ==
  ASSUME CollectAssumption, CollectInv, Deliver
  PROVE  CollectInv'
<1>1. LoadInv' /\ skip' = FALSE /\ result = Unfinished /\ UNCHANGED <<skip, outcome>>
  BY LoadDeliver DEF CollectInv, Deliver
<1>2. \A i \in Sources : outcome[i] # Failed
  BY <1>1 DEF CollectInv, Unfinished
<1>3. PICK n \in MinSources .. MaxSources :
        /\ outcome \in [1 .. n -> Contents \cup {Failed}]
        /\ collected \in Seq(1 .. n)
        /\ Range(collected) = 1 .. n
        /\ Len(collected) = n
  BY AllFinished DEF CollectInv
<1>4. n \in Nat
  BY LoaderAssumption
<1> DEFINE order == IF Sorts THEN SortByIndex(collected) ELSE collected
<1>5. order \in Bijection(1 .. n, 1 .. n) /\ DOMAIN order = 1 .. n
  <2>1. CASE Sorts
    <3>1. order = [k \in 1 .. n |-> k]
      BY <1>3, <1>4, <2>1, SortedIsList
    <3> HIDE DEF order
    <3> QED
      BY <3>1 DEF Bijection, Injection, Surjection, IsInjective
  <2>2. CASE ~Sorts
    <3>1. collected \in [1 .. n -> 1 .. n]
      BY <1>3, <1>4
    <3>2. collected \in Surjection(1 .. n, 1 .. n)
      BY <1>3, <3>1 DEF Surjection, Range
    <3>3. IsFiniteSet(1 .. n)
      BY <1>4, FS_Interval
    <3>4. collected \in Injection(1 .. n, 1 .. n)
      BY <3>2, <3>3, FS_Surjection
    <3> QED
      BY <2>2, <3>1, <3>2, <3>4 DEF Bijection
  <2> QED
    BY <2>1, <2>2
<1>6. result' = Loaded([k \in DOMAIN order |-> outcome[order[k]]])
  BY DEF Deliver
<1>7. outcome \in [1 .. n -> Contents]
  BY <1>2, <1>3 DEF Sources
<1> HIDE DEF order
<1>8. result'.value = [k \in 1 .. n |-> outcome[order[k]]]
  BY <1>5, <1>6 DEF Loaded
<1>9. \E p \in Bijection(1 .. n, 1 .. n) : result'.value = [k \in 1 .. n |-> outcome'[p[k]]]
  BY <1>1, <1>5, <1>8
<1>10. outcome' \in [1 .. n -> Contents]
  BY <1>1, <1>7
<1>11. \A i \in Sources' : outcome'[i] # Failed
  BY <1>1, <1>2 DEF Sources
<1> QED
  BY <1>1, <1>4, <1>9, <1>10, <1>11 DEF CollectInv

\* Every step keeps the invariant.
LEMMA CollectStep ==
  ASSUME CollectAssumption, CollectInv, [Next]_vars
  PROVE  CollectInv'
<1>1. LoadInv' /\ skip' = FALSE
  <2>1. LoadInv'
    BY LoadStep DEF CollectInv
  <2>2. skip' = skip
    BY DEF Next, Poll, Finish, Deliver, Returned, vars
  <2> QED
    BY <2>1, <2>2 DEF CollectInv
<1>2. CASE Poll
  BY <1>1, <1>2 DEF CollectInv, Poll, Sources, Answered
<1>3. ASSUME NEW i \in Sources, Finish(i) PROVE CollectInv'
  <2>1. result = Unfinished /\ i \in Sources
    BY <1>3 DEF Finish
  <2>2. PICK o \in Contents \cup {Failed} :
          /\ outcome' = [outcome EXCEPT ![i] = o]
          /\ IF o = Failed /\ ~skip
             THEN result' = Error /\ running' = {}
             ELSE result' = result /\ running' = running \ {i}
    BY <1>3 DEF Finish
  <2>3. result.kind # "ok" /\ result.kind # "error" /\ Error.kind = "error"
    BY <2>1 DEF Unfinished, Error
  <2>4. ~Answered'
    BY <2>2, <2>3 DEF Answered
  <2>5. result'.kind # "error" => o # Failed
    BY <2>2, <2>3 DEF CollectInv
  <2>6. \A j \in Sources : outcome[j] # Failed
    BY <2>3 DEF CollectInv
  <2>7. result'.kind # "error" => \A j \in Sources' : outcome'[j] # Failed
    BY <2>2, <2>5, <2>6 DEF Sources
  <2> QED
    BY <1>1, <2>4, <2>7 DEF CollectInv
<1>4. CASE Deliver
  BY <1>4, CollectDeliver
<1>5. CASE Returned \/ UNCHANGED vars
  <2>1. outcome' = outcome /\ result' = result
    BY <1>5 DEF Returned, vars
  <2>2. ASSUME Answered'
        PROVE  \E n \in Nat :
                  /\ outcome' \in [1 .. n -> Contents]
                  /\ \E p \in Bijection(1 .. n, 1 .. n) :
                        result'.value = [k \in 1 .. n |-> outcome'[p[k]]]
    BY <2>1, <2>2 DEF CollectInv, Answered
  <2>3. result'.kind # "error" => \A i \in Sources' : outcome'[i] # Failed
    BY <2>1 DEF CollectInv, Sources
  <2> QED
    BY <1>1, <2>2, <2>3 DEF CollectInv
<1> QED
  BY <1>2, <1>3, <1>4, <1>5 DEF Next

\* The answer to a request that succeeded, whatever order the sources finish in.
LEMMA CollectAnswer ==
  ASSUME CollectAssumption, CollectInv, Answered
  PROVE  /\ result.value \in Seq(Contents) /\ outcome \in Seq(Contents)
         /\ Range(result.value) = Range(outcome)
         /\ RulesIn(result.value) = RulesIn(outcome)
<1>1. PICK n \in Nat :
        /\ outcome \in [1 .. n -> Contents]
        /\ \E p \in Bijection(1 .. n, 1 .. n) :
              result.value = [k \in 1 .. n |-> outcome[p[k]]]
  BY DEF CollectInv
<1>2. PICK p \in Bijection(1 .. n, 1 .. n) : result.value = [k \in 1 .. n |-> outcome[p[k]]]
  BY <1>1
<1>3. RulesIn(result.value) = RulesIn(outcome)
  BY <1>1, <1>2, CountOfPermutation
<1>4. p \in [1 .. n -> 1 .. n] /\ \A j \in 1 .. n : \E k \in 1 .. n : p[k] = j
  BY DEF Bijection, Surjection
<1>5. result.value \in [1 .. n -> Contents]
  BY <1>1, <1>2, <1>4
<1>6. \A x : x \in Range(result.value) <=> x \in Range(outcome)
  <2>1. DOMAIN result.value = 1 .. n /\ DOMAIN outcome = 1 .. n
        /\ \A k \in 1 .. n : result.value[k] = outcome[p[k]]
    BY <1>1, <1>2
  <2>2. \A x : x \in Range(result.value) <=> \E k \in 1 .. n : outcome[p[k]] = x
    BY <2>1 DEF Range
  <2>3. \A x : x \in Range(outcome) <=> \E j \in 1 .. n : outcome[j] = x
    BY <2>1 DEF Range
  <2>4. \A k \in 1 .. n : p[k] \in 1 .. n
    BY <1>4
  <2>5. ASSUME NEW x PROVE (\E k \in 1 .. n : outcome[p[k]] = x)
                              <=> \E j \in 1 .. n : outcome[j] = x
    <3>1. ASSUME NEW k \in 1 .. n, outcome[p[k]] = x PROVE \E j \in 1 .. n : outcome[j] = x
      BY <2>4, <3>1
    <3>2. ASSUME NEW j \in 1 .. n, outcome[j] = x PROVE \E k \in 1 .. n : outcome[p[k]] = x
      BY <1>4, <3>2
    <3> QED
      BY <3>1, <3>2
  <2> QED
    BY <2>2, <2>3, <2>5, Zenon
<1>7. Range(result.value) = Range(outcome)
  BY <1>6
<1> QED
  BY <1>1, <1>3, <1>5, <1>7

\* The limit is met exactly.
LEMMA CollectIsExact ==
  ASSUME CollectAssumption, CollectInv
  PROVE  LimitIsExact
  BY CollectAnswer, LimitOfContents DEF LimitIsExact, TotalRules

\* Below the limit the answer is that to the sources in list order.
LEMMA CollectKeepsOrder ==
  ASSUME CollectAssumption, CollectInv
  PROVE  OrderIrrelevantBelowLimit
<1> SUFFICES ASSUME Answered, MaxRules = 0 \/ TotalRules < MaxRules
             PROVE  Encode(result.value) = Encode(outcome)
  BY DEF OrderIrrelevantBelowLimit
<1>1. /\ result.value \in Seq(Contents) /\ outcome \in Seq(Contents)
      /\ Range(result.value) = Range(outcome)
      /\ RulesIn(result.value) = RulesIn(outcome)
  BY CollectAnswer
<1>2. MaxRules = 0 \/ RulesIn(outcome) < MaxRules
  BY <1>1 DEF TotalRules
<1>3. Encode(result.value) = EncodeSet(Range(result.value))
  BY <1>1, EncodeBelowLimit DEF TotalRules
<1>4. Encode(outcome) = EncodeSet(Range(outcome))
  BY <1>1, <1>2, EncodeBelowLimit
<1> QED
  BY <1>1, <1>3, <1>4

-----------------------------------------------------------------------------
(* MrsPayload: powers of two and the blocks of addresses they cut.           *)

\* What is computed by shifting.
LEMMA ShiftedIs ==
  ASSUME Mrs!MrsAssumption
  PROVE  /\ Mrs!Shifted \in [0 .. V6Bits -> Nat \ {0}]
         /\ Mrs!Shifted[0] = 1
         /\ \A n \in 1 .. V6Bits : Mrs!Shifted[n] = 2 * Mrs!Shifted[n - 1]
<1> DEFINE N == V6Bits
           S == Nat \ {0}
           step == [p \in (1 .. N) \X S |-> 2 * p[2]]
           isMeant(h) == h = [n \in 0 .. N |-> IF n = 0 THEN 1 ELSE 2 * h[n - 1]]
           g == CHOOSE h : isMeant(h)
<1>1. N \in Nat
  BY DEF Mrs!MrsAssumption
<1>2. PICK f : f \in Recursions(N, S, 1, step)
  <2>1. step \in Stepping(N, S)
    BY DEF Stepping
  <2> HIDE DEF step, N
  <2> QED
    BY <1>1, <2>1, RecursionExists
<1>3. f \in [0 .. N -> S] /\ f[0] = 1 /\ \A n \in 1 .. N : f[n] = 2 * f[n - 1]
  <2>1. /\ f \in [0 .. N -> S] /\ f[0] = 1
        /\ \A n \in 1 .. N : f[n] = step[<<n, f[n - 1]>>]
    BY <1>2 DEF Recursions
  <2>2. \A n \in 1 .. N : <<n, f[n - 1]>> \in (1 .. N) \X S
    BY <1>1, <2>1
  <2>3. \A n \in 1 .. N : step[<<n, f[n - 1]>>] = 2 * f[n - 1]
    BY <2>2
  <2> QED
    BY <2>1, <2>3
<1>4. isMeant(f)
  <2> HIDE DEF N
  <2> QED
    BY <1>1, <1>3
<1>5. isMeant(g)
  <2> HIDE DEF isMeant
  <2> QED
    BY <1>4
<1>6. Mrs!Shifted = g
  BY DEF Mrs!Shifted
<1> HIDE DEF g
<1>7. DOMAIN g = 0 .. N /\ g[0] = 1 /\ \A n \in 1 .. N : g[n] = 2 * g[n - 1]
  <2> HIDE DEF N
  <2> QED
    BY <1>1, <1>5
<1>8. \A n \in 0 .. N : g[n] \in S
  <2> DEFINE T == {n \in 0 .. N : g[n] \in S}
  <2>1. 0 \in T
    BY <1>1, <1>7
  <2>2. \A n \in 0 .. N - 1 : n \in T => n + 1 \in T
    <3> SUFFICES ASSUME NEW n \in 0 .. N - 1, n \in T PROVE n + 1 \in T
      OBVIOUS
    <3>1. n + 1 \in 1 .. N /\ (n + 1) - 1 = n
      BY <1>1
    <3>2. g[n + 1] = 2 * g[n] /\ g[n] \in S
      BY <1>7, <3>1
    <3> HIDE DEF N
    <3> QED
      BY <3>1, <3>2
  <2> HIDE DEF T, N
  <2>3. \A n \in 0 .. N : n \in T
    BY <1>1, <2>1, <2>2, BoundedInduction
  <2> QED
    BY <2>3 DEF T
<1>9. g = [n \in DOMAIN g |-> g[n]]
  BY <1>5
<1> QED
  BY <1>6, <1>7, <1>8, <1>9

\* To shift by a sum is to multiply the shifts.
LEMMA ShiftedSum ==
  ASSUME Mrs!MrsAssumption, NEW m \in 0 .. V6Bits
  PROVE  \A n \in 0 .. V6Bits - m : Mrs!Shifted[m + n] = Mrs!Shifted[m] * Mrs!Shifted[n]
<1> DEFINE p == Mrs!Shifted
           N == V6Bits - m
           T == {n \in 0 .. N : p[m + n] = p[m] * p[n]}
<1>1. N \in Nat /\ V6Bits \in Nat
  BY DEF Mrs!MrsAssumption
<1>2. /\ p \in [0 .. V6Bits -> Nat \ {0}] /\ p[0] = 1
      /\ \A n \in 1 .. V6Bits : p[n] = 2 * p[n - 1]
  BY ShiftedIs
<1> HIDE DEF p
<1>3. 0 \in T
  BY <1>1, <1>2
<1>4. ASSUME NEW n \in 0 .. N - 1, n \in T PROVE n + 1 \in T
  <2>1. /\ n + 1 \in 1 .. V6Bits /\ m + (n + 1) \in 1 .. V6Bits /\ (n + 1) - 1 = n
        /\ (m + (n + 1)) - 1 = m + n /\ n + 1 \in 0 .. N
        /\ n \in 0 .. V6Bits /\ m + n \in 0 .. V6Bits
    BY <1>1
  <2>2. p[n + 1] = 2 * p[n] /\ p[m + (n + 1)] = 2 * p[m + n]
    BY <1>2, <2>1
  <2>3. p[m + n] = p[m] * p[n]
    BY <1>4
  <2>4. p[m] \in Nat /\ p[n] \in Nat
    BY <1>2, <2>1
  <2>5. \A a, b \in Nat : 2 * (a * b) = a * (2 * b)
    OBVIOUS
  <2>6. p[m + (n + 1)] = p[m] * p[n + 1]
    BY <2>2, <2>3, <2>4, <2>5
  <2> QED
    BY <2>1, <2>6
<1>5. \A n \in 0 .. N : n \in T
  <2> HIDE DEF T, N
  <2> QED
    BY <1>1, <1>3, <1>4, BoundedInduction
<1> QED
  BY <1>5 DEF p

\* Division with a rest.
LEMMA Euclid ==
  ASSUME NEW a \in Int, NEW p \in Int, p > 0
  PROVE  a = p * (a \div p) + (a % p)
  BY Z3

\* Quotient and rest, of naturals.
LEMMA Division ==
  ASSUME NEW a \in Nat, NEW p \in Nat \ {0}
  PROVE  /\ a \div p \in Nat /\ a % p \in 0 .. p - 1
         /\ a = p * (a \div p) + (a % p)
<1>1. a \in Int /\ p \in Int /\ p > 0
  OBVIOUS
<1>2. a = p * (a \div p) + (a % p)
  BY <1>1, Euclid
<1>3. a \div p \in Nat /\ a % p \in 0 .. p - 1
  OBVIOUS
<1> QED
  BY <1>2, <1>3

\* Different multiples of a block are a block apart.
LEMMA NextBlock ==
  ASSUME NEW p \in Nat, NEW i \in Nat, NEW j \in Nat, i < j
  PROVE  p * i + p <= p * j
<1> DEFINE d == j - i - 1
<1>1. d \in Nat /\ j = i + 1 + d
  OBVIOUS
<1> HIDE DEF d
<1>2. p * (i + 1 + d) = p * i + p + p * d
  BY <1>1, Z3
<1>3. p * d \in Nat /\ p * i \in Nat
  BY <1>1
<1> QED
  BY <1>1, <1>2, <1>3

\* The block of p numbers that a is in.
LEMMA BlockOf ==
  ASSUME NEW a \in Nat, NEW b \in Nat, NEW p \in Nat \ {0}
  PROVE  /\ a % p \in 0 .. p - 1 /\ a \div p \in Nat /\ a - (a % p) \in Nat
         /\ a - (a % p) = p * (a \div p)
         /\ b \div p = a \div p <=> a - (a % p) <= b /\ b <= a - (a % p) + (p - 1)
<1> DEFINE x == a \div p
           y == b \div p
           r == a % p
           s == b % p
<1>1. x \in Nat /\ y \in Nat /\ r \in 0 .. p - 1 /\ s \in 0 .. p - 1
  BY Division
<1>2. a = p * x + r /\ b = p * y + s
  BY Division
<1> HIDE DEF x, y, r, s
<1>3. p * x \in Nat /\ p * y \in Nat
  BY <1>1
<1>4. a - r = p * x
  BY <1>1, <1>2, <1>3
<1>5. y = x <=> p * x <= b /\ b <= p * x + (p - 1)
  <2>1. CASE y < x
    <3>1. p * y + p <= p * x
      BY <1>1, <2>1, NextBlock
    <3>2. b < p * x
      BY <1>1, <1>2, <1>3, <3>1
    <3> QED
      BY <1>1, <1>3, <2>1, <3>2
  <2>2. CASE y > x
    <3>1. p * x + p <= p * y
      BY <1>1, <2>2, NextBlock
    <3>2. b > p * x + (p - 1)
      BY <1>1, <1>2, <1>3, <3>1
    <3> QED
      BY <1>1, <1>3, <2>2, <3>2
  <2>3. CASE y = x
    BY <1>1, <1>2, <1>3, <2>3
  <2> QED
    BY <1>1, <2>1, <2>2, <2>3
<1>6. /\ r \in 0 .. p - 1 /\ x \in Nat /\ a - r \in Nat /\ a - r = p * x
      /\ y = x <=> a - r <= b /\ b <= a - r + (p - 1)
  BY <1>1, <1>3, <1>4, <1>5
<1> QED
  BY <1>6 DEF x, y, r

-----------------------------------------------------------------------------
(* MrsPayload: lists of ranges.                                              *)

Spans(range, a) == range[1] <= a /\ a <= range[2]

IsRange(range, bits) ==
    /\ range \in Nat \X Nat
    /\ range[1] <= range[2] /\ range[2] <= Mrs!MaxOf(bits)

AreRanges(list, bits) ==
    /\ list \in Seq(Nat \X Nat)
    /\ \A k \in 1 .. Len(list) : IsRange(list[k], bits)

Spaced(list) == \A k \in 1 .. Len(list) - 1 : list[k][2] + 1 < list[k + 1][1]

Climbs(list) == \A j, k \in 1 .. Len(list) : j < k => list[j][1] <= list[k][1]

\* The addresses of a network: those with the same bits earlier the host's.
Within(network, bits, a) ==
    a \div Mrs!Shifted[bits - network.length]
      = network.address \div Mrs!Shifted[bits - network.length]

Placed(network, bits) ==
    network.address \in 0 .. Mrs!MaxOf(bits) /\ network.length \in 0 .. bits

\* The last address comes one before the shift by all bits.
LEMMA MaxOfIs ==
  ASSUME Mrs!MrsAssumption, NEW bits \in 0 .. V6Bits
  PROVE  Mrs!MaxOf(bits) \in Nat /\ Mrs!Shifted[bits] = Mrs!MaxOf(bits) + 1
<1>1. Mrs!Shifted[bits] \in Nat \ {0}
  BY ShiftedIs
<1> QED
  BY <1>1 DEF Mrs!MaxOf

\* The range of a network is its addresses.
LEMMA NetworkIsRange ==
  ASSUME Mrs!MrsAssumption, NEW bits \in 0 .. V6Bits, NEW network, Placed(network, bits)
  PROVE  /\ IsRange(Mrs!RangeOf(network, bits), bits)
         /\ \A a \in Nat : Spans(Mrs!RangeOf(network, bits), a) <=> Within(network, bits, a)
<1> DEFINE h == bits - network.length
           L == Mrs!Shifted[network.length]
           H == Mrs!Shifted[h]
           x == network.address
           start == x - (x % H)
<1>1. /\ network.length \in 0 .. bits /\ x \in Nat /\ x <= Mrs!MaxOf(bits) /\ bits \in Nat
      /\ h \in 0 .. V6Bits - network.length /\ h \in 0 .. V6Bits
      /\ network.length \in 0 .. V6Bits /\ network.length + h = bits
  <2>1. V6Bits \in Nat
    BY DEF Mrs!MrsAssumption
  <2>2. network.length \in 0 .. bits /\ x \in 0 .. Mrs!MaxOf(bits)
    BY DEF Placed
  <2>3. Mrs!MaxOf(bits) \in Nat
    BY MaxOfIs
  <2> HIDE DEF x
  <2> QED
    BY <2>1, <2>2, <2>3
<1>2. L \in Nat \ {0} /\ H \in Nat \ {0} /\ Mrs!Shifted[bits] = L * H
  BY <1>1, ShiftedIs, ShiftedSum
<1>3. Mrs!RangeOf(network, bits) = <<start, start + (H - 1)>>
  BY DEF Mrs!RangeOf, Mrs!MaxOf
<1>4. \A a \in Nat : Within(network, bits, a) <=> a \div H = x \div H
  BY DEF Within
<1> HIDE DEF h, H, L, x
<1>5. /\ x % H \in 0 .. H - 1 /\ x \div H \in Nat /\ start \in Nat /\ start = H * (x \div H)
      /\ \A b \in Nat : b \div H = x \div H <=> start <= b /\ b <= start + (H - 1)
  BY <1>1, <1>2, BlockOf
<1>6. start + (H - 1) <= Mrs!MaxOf(bits)
  <2> DEFINE q == x \div H
  <2>1. q \in Nat /\ start = H * q
    BY <1>5
  <2>2. start <= x
    BY <1>1, <1>2, <1>5
  <2> HIDE DEF q
  <2>3. L * H = H * L /\ H * L = Mrs!MaxOf(bits) + 1 /\ Mrs!MaxOf(bits) \in Nat
    BY <1>2, MaxOfIs
  <2>4. q < L
    <3>1. CASE q = L
      BY <1>1, <2>1, <2>2, <2>3, <3>1
    <3>2. CASE L < q
      <4>1. H * L + H <= H * q
        BY <1>2, <2>1, <3>2, NextBlock
      <4>2. start \in Nat /\ x \in Nat /\ H \in Nat /\ x <= Mrs!MaxOf(bits)
        BY <1>1, <1>2, <1>5
      <4> HIDE DEF start
      <4> QED
        BY <2>1, <2>2, <2>3, <4>1, <4>2
    <3> QED
      BY <1>2, <2>1, <3>1, <3>2
  <2>5. H * q + H <= H * L
    BY <1>2, <2>1, <2>4, NextBlock
  <2>6. start \in Nat /\ H \in Nat
    BY <1>2, <1>5
  <2> HIDE DEF start
  <2> QED
    BY <2>1, <2>3, <2>5, <2>6
<1>7. IsRange(<<start, start + (H - 1)>>, bits)
  BY <1>2, <1>5, <1>6 DEF IsRange
<1> QED
  BY <1>3, <1>4, <1>5, <1>7 DEF Spans

\* The ranges of a list in ascending order are the same ranges.
LEMMA SortedRanges ==
  ASSUME NEW bits, NEW list, AreRanges(list, bits)
  PROVE  /\ AreRanges(Mrs!Sorted(list), bits) /\ Climbs(Mrs!Sorted(list))
         /\ \A a : Mrs!Covers(Mrs!Sorted(list), a) <=> Mrs!Covers(list, a)
<1> DEFINE N == Len(list)
           R == {p \in (Nat \X Nat) \X (Nat \X Nat) : ~Mrs!RangeBefore(p[2], p[1])}
           taken(place) == [k \in DOMAIN list |-> list[place[k]]]
<1>1. /\ list \in Seq(Nat \X Nat) /\ N \in Nat /\ DOMAIN list = 1 .. N
      /\ \A k \in 1 .. N : list[k] \in Nat \X Nat
  BY DEF AreRanges
<1>2. OrdersAll(R, Nat \X Nat)
  BY DEF OrdersAll, Mrs!RangeBefore
<1>3. PICK place \in Bijection(1 .. N, 1 .. N) :
         \A j, k \in 1 .. N : j < k => <<list[place[j]], list[place[k]]>> \in R
  <2> DEFINE S == Nat \X Nat
             InOrder(place) ==
                \A j, k \in 1 .. Len(list) : j < k => <<list[place[j]], list[place[k]]>> \in R
  <2>1. list \in Seq(S) /\ OrdersAll(R, S)
    BY <1>1, <1>2
  <2> HIDE DEF R, S
  <2>2. \E place \in Bijection(1 .. Len(list), 1 .. Len(list)) : InOrder(place)
    BY <2>1, OrderedArrangement
  <2> QED
    BY <2>2, Zenon
<1>4. taken(place) \in Mrs!Arrangements(list)
  <2>1. place \in Mrs!Bijection(1 .. N, 1 .. N)
    BY Zenon DEF Mrs!Bijection, Mrs!Injection, Mrs!Surjection, Mrs!IsInjective,
       Bijection, Injection, Surjection, IsInjective
  <2> QED
    BY <1>1, <2>1, Zenon DEF Mrs!Arrangements
<1>5. Mrs!Ascending(taken(place))
  <2>1. \A j, k \in 1 .. N :
           j < k => ~Mrs!RangeBefore(list[place[k]], list[place[j]])
    BY <1>3
  <2> QED
    BY <1>1, <2>1 DEF Mrs!Ascending
<1> DEFINE s == Mrs!Sorted(list)
<1>6. s \in Mrs!Arrangements(list) /\ Mrs!Ascending(s)
  BY <1>4, <1>5 DEF Mrs!Sorted
<1>7. PICK to \in [1 .. N -> 1 .. N] :
         /\ \A k \in 1 .. N : \E j \in 1 .. N : to[j] = k
         /\ s = [k \in 1 .. N |-> list[to[k]]]
  <2> HIDE DEF s
  <2>1. PICK to \in Mrs!Bijection(DOMAIN list, DOMAIN list) : s = taken(to)
    BY <1>6, Zenon DEF Mrs!Arrangements
  <2>2. /\ to \in [1 .. N -> 1 .. N]
        /\ \A k \in 1 .. N : \E j \in 1 .. N : to[j] = k
    BY <1>1, <2>1, Zenon DEF Mrs!Bijection, Mrs!Surjection
  <2> QED
    BY <1>1, <2>1, <2>2, Zenon
<1> HIDE DEF s
<1>8. /\ s \in Seq(Nat \X Nat) /\ Len(s) = N
      /\ \A k \in 1 .. N : s[k] = list[to[k]] /\ to[k] \in 1 .. N
  <2>1. \A k \in 1 .. N : list[to[k]] \in Nat \X Nat /\ to[k] \in 1 .. N
    BY <1>1, <1>7
  <2>2. [k \in 1 .. N |-> list[to[k]]] \in [1 .. N -> Nat \X Nat]
    BY <2>1
  <2>3. s \in [1 .. N -> Nat \X Nat] /\ \A k \in 1 .. N : s[k] = list[to[k]]
    BY <1>7, <2>2, Zenon
  <2> HIDE DEF N
  <2>4. s \in Seq(Nat \X Nat) /\ Len(s) = N
    BY <1>1, <2>3
  <2> QED
    BY <2>1, <2>3, <2>4
<1>9. AreRanges(s, bits)
  <2>1. \A k \in 1 .. N : IsRange(list[k], bits)
    BY DEF AreRanges
  <2> QED
    BY <1>8, <2>1 DEF AreRanges
<1>10. Climbs(s)
  <2>1. \A j, k \in 1 .. N : j < k => ~Mrs!RangeBefore(s[k], s[j])
    <3>1. DOMAIN s = 1 .. N
      BY <1>8
    <3> QED
      BY <1>6, <3>1, Zenon DEF Mrs!Ascending
  <2>2. \A k \in 1 .. N : s[k][1] \in Nat
    BY <1>1, <1>8
  <2> QED
    <3> SUFFICES ASSUME NEW j \in 1 .. N, NEW k \in 1 .. N, j < k
                 PROVE  s[j][1] <= s[k][1]
      BY <1>8 DEF Climbs
    <3>1. ~(s[k][1] < s[j][1])
      BY <2>1 DEF Mrs!RangeBefore
    <3> QED
      BY <2>2, <3>1
<1>11. \A a : Mrs!Covers(s, a) <=> Mrs!Covers(list, a)
  BY <1>1, <1>7, <1>8 DEF Mrs!Covers
<1> QED
  BY <1>9, <1>10, <1>11 DEF s

\* A range that starts no earlier than the last one of a list joins it.
LEMMA MergedRanges ==
  ASSUME NEW bits, Mrs!MaxOf(bits) \in Nat,
         NEW list, AreRanges(list, bits), Spaced(list),
         NEW range, IsRange(range, bits),
         list # <<>> => list[Len(list)][1] <= range[1]
  PROVE  LET longer == Mrs!Merge(list, range, bits)
         IN /\ AreRanges(longer, bits) /\ Spaced(longer)
            /\ longer # <<>> /\ longer[Len(longer)][1] <= range[1]
            /\ \A a \in Nat : Mrs!Covers(longer, a) <=> Mrs!Covers(list, a) \/ Spans(range, a)
<1> DEFINE n == Len(list)
           end == list[n]
           longer == Mrs!Merge(list, range, bits)
           adjacent == end[2] < Mrs!MaxOf(bits) /\ range[1] <= end[2] + 1
           joins == list # <<>> /\ (range[1] <= end[2] \/ adjacent)
           most == Mrs!Max({end[2], range[2]})
           joined == <<end[1], most>>
<1>1. /\ list \in Seq(Nat \X Nat) /\ n \in Nat /\ DOMAIN list = 1 .. n
      /\ \A k \in 1 .. n : /\ list[k] \in Nat \X Nat /\ list[k][1] \in Nat /\ list[k][2] \in Nat
                           /\ list[k][1] <= list[k][2] /\ list[k][2] <= Mrs!MaxOf(bits)
  BY DEF AreRanges, IsRange
<1>2. /\ range \in Nat \X Nat /\ range[1] \in Nat /\ range[2] \in Nat
      /\ range[1] <= range[2] /\ range[2] <= Mrs!MaxOf(bits)
  BY DEF IsRange
<1>3. CASE joins
  <2>1. n >= 1 /\ n \in 1 .. n /\ end[1] <= range[1] /\ range[1] <= end[2] + 1
    BY <1>1, <1>2, <1>3
  <2>2. longer = SubSeq(list, 1, n - 1) \o <<joined>>
    BY <1>3 DEF Mrs!Merge, Mrs!Last, Mrs!Front
  <2>3. most \in {end[2], range[2]} /\ most >= end[2] /\ most >= range[2]
    <3>1. \E x \in {end[2], range[2]} : \A y \in {end[2], range[2]} : x >= y
      BY <1>1, <1>2, <2>1
    <3> QED
      BY <3>1 DEF Mrs!Max
  <2>4. /\ longer \in Seq(Nat \X Nat) /\ Len(longer) = n
        /\ \A k \in 1 .. n - 1 : longer[k] = list[k]
        /\ longer[n] = joined
    <3>1. joined \in Nat \X Nat
      BY <1>1, <1>2, <2>1, <2>3
    <3>2. /\ SubSeq(list, 1, n - 1) \in Seq(Nat \X Nat) /\ Len(SubSeq(list, 1, n - 1)) = n - 1
          /\ \A k \in 1 .. n - 1 : SubSeq(list, 1, n - 1)[k] = list[k]
      BY <1>1, <2>1
    <3> DEFINE front == SubSeq(list, 1, n - 1)
    <3> HIDE DEF front, joined, longer, n
    <3> QED
      BY <1>1, <2>1, <2>2, <3>1, <3>2 DEF front
  <2>5. joined[1] = end[1] /\ joined[2] = most
    OBVIOUS
  <2> HIDE DEF joined, longer, most, adjacent, joins
  <2>6. \A k \in 1 .. n : k \in 1 .. n - 1 \/ k = n
    <3>1. n \in Nat
      BY <1>1
    <3> HIDE DEF n
    <3> QED
      BY <3>1
  <2>7. /\ \A k \in 1 .. n : longer[k][1] = list[k][1]
        /\ \A k \in 1 .. n - 1 : longer[k][2] = list[k][2]
        /\ longer[n][2] = most
    BY <2>4, <2>5, <2>6
  <2>8. most \in Nat /\ end[1] <= most /\ most <= Mrs!MaxOf(bits)
    BY <1>1, <1>2, <2>1, <2>3
  <2>9. AreRanges(longer, bits)
    <3> SUFFICES ASSUME NEW k \in 1 .. n PROVE IsRange(longer[k], bits)
      BY <2>4 DEF AreRanges
    <3>1. CASE k \in 1 .. n - 1
      BY <1>1, <2>4, <3>1 DEF IsRange
    <3>2. CASE k = n
      BY <1>1, <2>4, <2>5, <2>8, <2>1, <3>2 DEF IsRange
    <3> QED
      BY <2>6, <3>1, <3>2
  <2>10. Spaced(longer)
    <3> SUFFICES ASSUME NEW k \in 1 .. n - 1 PROVE longer[k][2] + 1 < longer[k + 1][1]
      BY <2>4 DEF Spaced
    <3>1. k + 1 \in 1 .. n
      BY <1>1
    <3>2. list[k][2] + 1 < list[k + 1][1]
      BY DEF Spaced
    <3> QED
      BY <2>7, <3>1, <3>2
  <2>11. ASSUME NEW a \in Nat
         PROVE  Mrs!Covers(longer, a) <=> Mrs!Covers(list, a) \/ Spans(range, a)
    <3> DEFINE earlier == \E k \in 1 .. n - 1 : Spans(list[k], a)
    <3>0. \A k \in 1 .. n - 1 : k \in 1 .. n
      BY <1>1
    <3>1. Mrs!Covers(list, a) <=> earlier \/ Spans(end, a)
      <4>1. Mrs!Covers(list, a) <=> \E k \in 1 .. n : Spans(list[k], a)
        BY <1>1, Zenon DEF Mrs!Covers, Spans
      <4> QED
        BY <2>1, <2>6, <3>0, <4>1, Zenon
    <3>2. Mrs!Covers(longer, a) <=> earlier \/ Spans(joined, a)
      <4>1. DOMAIN longer = 1 .. n
        BY <2>4
      <4>2. Mrs!Covers(longer, a) <=> \E k \in 1 .. n : Spans(longer[k], a)
        BY <4>1, Zenon DEF Mrs!Covers, Spans
      <4> QED
        BY <2>1, <2>4, <2>6, <3>0, <4>2, Zenon
    <3>3. Spans(joined, a) <=> Spans(end, a) \/ Spans(range, a)
      BY <1>1, <1>2, <2>1, <2>3, <2>5 DEF Spans
    <3> QED
      BY <3>1, <3>2, <3>3
  <2>12. longer # <<>> /\ longer[Len(longer)][1] <= range[1]
    BY <2>1, <2>4, <2>7
  <2> QED
    BY <2>9, <2>10, <2>11, <2>12 DEF longer
<1>4. CASE ~joins
  <2>1. longer = Append(list, range)
    BY <1>4 DEF Mrs!Merge, Mrs!Last
  <2>2. /\ longer \in Seq(Nat \X Nat) /\ Len(longer) = n + 1
        /\ \A k \in 1 .. n : longer[k] = list[k]
        /\ longer[n + 1] = range
    BY <1>1, <1>2, <2>1
  <2>3. n >= 1 => end[2] + 1 < range[1]
    <3>1. ASSUME n >= 1 PROVE end[2] + 1 < range[1]
      <4>1. list # <<>> /\ n \in 1 .. n
        BY <1>1, <3>1
      <4>2. ~(range[1] <= end[2]) /\ ~(end[2] < Mrs!MaxOf(bits) /\ range[1] <= end[2] + 1)
        BY <1>4, <4>1
      <4> QED
        BY <1>1, <1>2, <4>1, <4>2
    <3> QED
      BY <3>1
  <2> HIDE DEF longer, joins
  <2>4. \A k \in 1 .. n + 1 : k \in 1 .. n \/ k = n + 1
    BY <1>1
  <2>5. AreRanges(longer, bits)
    <3>1. \A k \in 1 .. n : IsRange(list[k], bits)
      BY DEF AreRanges
    <3> QED
      BY <2>2, <2>4, <3>1 DEF AreRanges
  <2>6. Spaced(longer)
    <3>0. n \in Nat /\ Len(longer) - 1 = n
      BY <1>1, <2>2
    <3> SUFFICES ASSUME NEW k \in 1 .. n PROVE longer[k][2] + 1 < longer[k + 1][1]
      BY <3>0 DEF Spaced
    <3>1. CASE k = n
      <4>1. longer[k] = end /\ longer[k + 1] = range /\ n >= 1
        BY <2>2, <3>0, <3>1
      <4> QED
        BY <2>3, <4>1
    <3>2. CASE k # n
      <4>1. k \in 1 .. n - 1 /\ k + 1 \in 1 .. n
        <5> HIDE DEF n
        <5> QED
          BY <3>0, <3>2
      <4>2. list[k][2] + 1 < list[k + 1][1]
        BY <4>1 DEF Spaced
      <4> QED
        BY <2>2, <4>1, <4>2
    <3> QED
      BY <3>1, <3>2
  <2>7. ASSUME NEW a \in Nat
        PROVE  Mrs!Covers(longer, a) <=> Mrs!Covers(list, a) \/ Spans(range, a)
    <3>1. DOMAIN longer = 1 .. n + 1 /\ \A k \in 1 .. n : k \in 1 .. n + 1
      BY <1>1, <2>2
    <3>2. n + 1 \in 1 .. n + 1
      BY <1>1
    <3>3. Mrs!Covers(list, a) <=> \E k \in 1 .. n : Spans(list[k], a)
      BY <1>1, Zenon DEF Mrs!Covers, Spans
    <3>4. Mrs!Covers(longer, a) <=> \E k \in 1 .. n + 1 : Spans(longer[k], a)
      BY <3>1, Zenon DEF Mrs!Covers, Spans
    <3> QED
      BY <2>2, <2>4, <3>1, <3>2, <3>3, <3>4, Zenon
  <2>8. longer # <<>> /\ longer[Len(longer)][1] <= range[1]
    BY <1>1, <1>2, <2>2
  <2> QED
    BY <2>5, <2>6, <2>7, <2>8 DEF longer
<1> QED
  BY <1>3, <1>4

-----------------------------------------------------------------------------
(* MrsPayload: the networks read so far are those of the ranges.             *)

BitsOf(four) == IF four THEN V4Bits ELSE V6Bits

\* An address of a network of one family among the first n rules.
InFamily(four, n, a) ==
    \E k \in 1 .. n : rules[k].v4 = four /\ Within(rules[k], BitsOf(four), a)

AllValid(n) == n \in 0 .. Len(rules) /\ \A k \in 1 .. n : rules[k].valid

RulesGood ==
    /\ rules \in Seq(Mrs!ToSet(rules))
    /\ \A k \in 1 .. Len(rules) :
          rules[k].valid => rules[k].v4 \in BOOLEAN /\ Placed(rules[k], BitsOf(rules[k].v4))

\* The ranges of a family.
Gathers(list, four, n) ==
    /\ AreRanges(list, BitsOf(four))
    /\ \A a \in Nat : Mrs!Covers(list, a) <=> InFamily(four, n, a)

\* The ranges of a family, some of them merged and the rest after them.
Merging(done, rest, four) ==
    /\ AreRanges(done, BitsOf(four)) /\ Spaced(done)
    /\ AreRanges(rest, BitsOf(four)) /\ Climbs(rest)
    /\ done # <<>> /\ rest # <<>> => done[Len(done)][1] <= rest[1][1]
    /\ \A a \in Nat :
          Mrs!Covers(done, a) \/ Mrs!Covers(rest, a) <=> InFamily(four, Len(rules), a)

\* An IPv4 address as it is written.
InMapped(a) ==
    /\ a \div Mrs!Shifted[V4Bits] = MappedPrefix
    /\ InFamily(TRUE, Len(rules), a % Mrs!Shifted[V4Bits])

WrittenV4(list) ==
    /\ list \in Seq(Nat \X Nat) /\ Spaced(list)
    /\ \A a \in Nat : Mrs!Covers(list, a) <=> InMapped(a)

Reading == AllValid(read) /\ Gathers(v4, TRUE, read) /\ Gathers(v6, FALSE, read) /\ merged = <<>>
MergingV4 ==
    /\ AllValid(Len(rules)) /\ Merging(merged, v4, TRUE)
    /\ Gathers(v6, FALSE, Len(rules)) /\ Climbs(v6)
MergingV6 == AllValid(Len(rules)) /\ Merging(merged, v6, FALSE) /\ WrittenV4(payload)
AllWritten ==
    /\ AllValid(Len(rules)) /\ Gathers(merged, FALSE, Len(rules)) /\ Spaced(merged)
    /\ \E list : WrittenV4(list) /\ payload = list \o merged

MrsInv ==
    behavior = "ipcidr" =>
        /\ RulesGood
        /\ outcome \in {"error", "reading", "merging v4", "merging v6", "done"}
        /\ outcome = "reading" => Reading
        /\ outcome = "merging v4" => MergingV4
        /\ outcome = "merging v6" => MergingV6
        /\ outcome = "done" => AllWritten

\* Nothing is read yet.
LEMMA NoRanges ==
  ASSUME NEW four
  PROVE  Gathers(<<>>, four, 0) /\ Spaced(<<>>) /\ Len(<<>>) = 0
<1>1. \A k : k \notin 1 .. 0
  OBVIOUS
<1>2. <<>> \in Seq(Nat \X Nat) /\ Len(<<>>) = 0 /\ DOMAIN <<>> = {}
  OBVIOUS
<1> QED
  BY <1>1, <1>2 DEF Gathers, AreRanges, Spaced, Mrs!Covers, InFamily

\* No network is read yet.
LEMMA MrsStarts ==
  ASSUME Mrs!MrsAssumption, Mrs!Init
  PROVE  MrsInv
<1> SUFFICES ASSUME behavior = "ipcidr"
             PROVE  /\ RulesGood /\ outcome \in {"error", "reading"}
                    /\ outcome = "reading" => Reading
  BY DEF MrsInv
<1>1. rules \in NetworkLists /\ outcome \in {"error", "reading"}
  BY DEF Mrs!Init
<1>2. RulesGood
  <2>1. rules \in Seq(Mrs!ToSet(rules)) /\ DOMAIN rules = 1 .. Len(rules)
    BY <1>1 DEF Mrs!MrsAssumption
  <2> QED
    BY <1>1, <2>1 DEF Mrs!MrsAssumption, RulesGood, Placed, BitsOf
<1>3. Len(rules) \in Nat
  BY <1>2 DEF RulesGood
<1>4. AllValid(0)
  BY <1>3 DEF AllValid
<1>5. read = 0 /\ v4 = <<>> /\ v6 = <<>> /\ merged = <<>>
  BY DEF Mrs!Init
<1> QED
  BY <1>1, <1>2, <1>4, <1>5, NoRanges DEF Reading

\* One more rule in a family.
LEMMA FamilyGrows ==
  ASSUME NEW four \in BOOLEAN, NEW n \in Nat, NEW a
  PROVE  InFamily(four, n + 1, a)
            <=> \/ InFamily(four, n, a)
                \/ rules[n + 1].v4 = four /\ Within(rules[n + 1], BitsOf(four), a)
<1>1. \A k : k \in 1 .. n + 1 <=> k \in 1 .. n \/ k = n + 1
  OBVIOUS
<1> QED
  BY <1>1, Zenon DEF InFamily

\* A range more covers its addresses in addition.
LEMMA RangeAppended ==
  ASSUME NEW bits, NEW list, AreRanges(list, bits), NEW range, IsRange(range, bits)
  PROVE  /\ AreRanges(Append(list, range), bits)
         /\ \A a : Mrs!Covers(Append(list, range), a) <=> Mrs!Covers(list, a) \/ Spans(range, a)
<1> DEFINE longer == Append(list, range)
           n == Len(list)
<1>1. /\ list \in Seq(Nat \X Nat) /\ n \in Nat /\ DOMAIN list = 1 .. n
      /\ range \in Nat \X Nat /\ \A k \in 1 .. n : IsRange(list[k], bits)
  BY DEF AreRanges, IsRange
<1>2. /\ longer \in Seq(Nat \X Nat) /\ Len(longer) = n + 1 /\ DOMAIN longer = 1 .. n + 1
      /\ \A k \in 1 .. n : longer[k] = list[k]
      /\ longer[n + 1] = range
  BY <1>1
<1> HIDE DEF longer, n
<1>3. \A k : k \in 1 .. n + 1 <=> k \in 1 .. n \/ k = n + 1
  BY <1>1
<1>4. AreRanges(longer, bits)
  BY <1>1, <1>2, <1>3 DEF AreRanges
<1>5. \A a : Mrs!Covers(longer, a) <=> Mrs!Covers(list, a) \/ Spans(range, a)
  BY <1>1, <1>2, <1>3, Zenon DEF Mrs!Covers, Spans
<1> QED
  BY <1>4, <1>5 DEF longer

\* A network is read.
LEMMA NetworkRead ==
  ASSUME Mrs!MrsAssumption, RulesGood, Reading, read < Len(rules), rules[read + 1].valid,
         rules[read + 1].v4 \in BOOLEAN
  PROVE  LET network == rules[read + 1]
             four == network.v4
             longer(list) == Append(list, Mrs!RangeOf(network, BitsOf(four)))
         IN /\ AllValid(read + 1)
            /\ four => Gathers(longer(v4), TRUE, read + 1) /\ Gathers(v6, FALSE, read + 1)
            /\ ~four => Gathers(v4, TRUE, read + 1) /\ Gathers(longer(v6), FALSE, read + 1)
<1> DEFINE network == rules[read + 1]
           four == network.v4
           range == Mrs!RangeOf(network, BitsOf(four))
<1>1. read \in Nat /\ Len(rules) \in Nat /\ read + 1 \in 1 .. Len(rules)
  BY DEF Reading, AllValid, RulesGood
<1>2. BitsOf(TRUE) = V4Bits /\ BitsOf(FALSE) = V6Bits /\ BitsOf(four) \in 0 .. V6Bits
  BY DEF BitsOf, Mrs!MrsAssumption
<1>3. Placed(network, BitsOf(four))
  BY <1>1 DEF RulesGood
<1>4. /\ IsRange(range, BitsOf(four))
      /\ \A a \in Nat : Spans(range, a) <=> Within(network, BitsOf(four), a)
  BY <1>2, <1>3, NetworkIsRange
<1>5. AllValid(read + 1)
  BY <1>1 DEF Reading, AllValid
<1> HIDE DEF range, network
<1>6. ASSUME NEW f \in BOOLEAN, NEW list, Gathers(list, f, read)
      PROVE  /\ f = network.v4 => Gathers(Append(list, range), f, read + 1)
             /\ f # network.v4 => Gathers(list, f, read + 1)
  <2>1. \A a : InFamily(f, read + 1, a)
                  <=> \/ InFamily(f, read, a)
                      \/ network.v4 = f /\ Within(network, BitsOf(f), a)
    BY <1>1, FamilyGrows, Zenon DEF network
  <2>2. CASE f = network.v4
    <3>1. /\ AreRanges(Append(list, range), BitsOf(f))
          /\ \A a : Mrs!Covers(Append(list, range), a) <=> Mrs!Covers(list, a) \/ Spans(range, a)
      <4>1. AreRanges(list, BitsOf(f)) /\ IsRange(range, BitsOf(f))
        BY <1>4, <1>6, <2>2, Zenon DEF Gathers
      <4> QED
        BY <4>1, RangeAppended, Zenon
    <3>2. \A a \in Nat : Mrs!Covers(list, a) <=> InFamily(f, read, a)
      BY <1>6, Zenon DEF Gathers
    <3>3. \A a \in Nat : Spans(range, a) <=> network.v4 = f /\ Within(network, BitsOf(f), a)
      BY <1>4, <2>2, Zenon
    <3>4. \A a \in Nat : Mrs!Covers(Append(list, range), a) <=> InFamily(f, read + 1, a)
      BY <2>1, <3>1, <3>2, <3>3, Zenon
    <3> QED
      BY <2>2, <3>1, <3>4, Zenon DEF Gathers
  <2>3. CASE f # network.v4
    BY <1>6, <2>1, <2>3, Zenon DEF Gathers
  <2> QED
    BY <2>2, <2>3
<1>7. Gathers(v4, TRUE, read) /\ Gathers(v6, FALSE, read)
  BY DEF Reading
<1>8. network.v4 => /\ Gathers(Append(v4, range), TRUE, read + 1)
                    /\ Gathers(v6, FALSE, read + 1)
  BY <1>6, <1>7
<1>9. ~network.v4 /\ network.v4 \in BOOLEAN => /\ Gathers(v4, TRUE, read + 1)
                                               /\ Gathers(Append(v6, range), FALSE, read + 1)
  BY <1>6, <1>7
<1> QED
  BY <1>5, <1>8, <1>9 DEF range, network

\* The head of the rest joins what is merged.
LEMMA OneMerged ==
  ASSUME Mrs!MrsAssumption, NEW four \in BOOLEAN, NEW done, NEW rest,
         Merging(done, rest, four), rest # <<>>
  PROVE  Merging(Mrs!Merge(done, Head(rest), BitsOf(four)), Tail(rest), four)
<1> DEFINE bits == BitsOf(four)
           range == Head(rest)
           longer == Mrs!Merge(done, range, bits)
           others == Tail(rest)
           n == Len(others)
<1>1. /\ AreRanges(done, bits) /\ Spaced(done) /\ AreRanges(rest, bits) /\ Climbs(rest)
      /\ done # <<>> => done[Len(done)][1] <= rest[1][1]
      /\ \A a \in Nat :
            Mrs!Covers(done, a) \/ Mrs!Covers(rest, a) <=> InFamily(four, Len(rules), a)
  BY DEF Merging
<1>2. /\ rest \in Seq(Nat \X Nat) /\ others \in Seq(Nat \X Nat) /\ n \in Nat
      /\ Len(rest) = n + 1 /\ range = rest[1] /\ DOMAIN rest = 1 .. n + 1 /\ DOMAIN others = 1 .. n
      /\ \A k \in 1 .. n : others[k] = rest[k + 1]
  <2>1. rest \in Seq(Nat \X Nat)
    BY <1>1 DEF AreRanges
  <2> QED
    BY <2>1
<1>3. Mrs!MaxOf(bits) \in Nat
  <2>1. bits \in 0 .. V6Bits
    BY DEF BitsOf, Mrs!MrsAssumption
  <2> QED
    BY <2>1, MaxOfIs
<1> HIDE DEF n, others, range, bits
<1>4. \A k \in 1 .. n : k + 1 \in 1 .. n + 1
  BY <1>2
<1>5. IsRange(range, bits) /\ AreRanges(others, bits)
  <2>1. \A k \in 1 .. n + 1 : IsRange(rest[k], bits)
    BY <1>1, <1>2 DEF AreRanges
  <2>2. IsRange(rest[1], bits)
    BY <1>2, <2>1
  <2>3. \A k \in 1 .. n : IsRange(others[k], bits)
    BY <1>2, <1>4, <2>1
  <2> QED
    BY <1>2, <2>2, <2>3 DEF AreRanges, n
<1>6. done # <<>> => done[Len(done)][1] <= range[1]
  BY <1>1, <1>2
<1>7. /\ AreRanges(longer, bits) /\ Spaced(longer)
      /\ longer # <<>> /\ longer[Len(longer)][1] <= range[1]
      /\ \A a \in Nat : Mrs!Covers(longer, a) <=> Mrs!Covers(done, a) \/ Spans(range, a)
  BY <1>1, <1>3, <1>5, <1>6, MergedRanges
<1>8. Climbs(others)
  <2>1. \A j, k \in 1 .. n + 1 : j < k => rest[j][1] <= rest[k][1]
    BY <1>1, <1>2 DEF Climbs
  <2>2. \A j, k \in 1 .. n : j < k => others[j][1] <= others[k][1]
    <3> SUFFICES ASSUME NEW j \in 1 .. n, NEW k \in 1 .. n, j < k
                 PROVE  others[j][1] <= others[k][1]
      OBVIOUS
    <3>1. j + 1 \in 1 .. n + 1 /\ k + 1 \in 1 .. n + 1 /\ j + 1 < k + 1
      BY <1>2
    <3> QED
      BY <1>2, <2>1, <3>1
  <2> QED
    BY <1>2, <2>2 DEF Climbs, n
<1>9. others # <<>> => longer[Len(longer)][1] <= others[1][1]
  <2> SUFFICES ASSUME others # <<>> PROVE longer[Len(longer)][1] <= others[1][1]
    OBVIOUS
  <2>1. n >= 1
    BY <1>2 DEF n
  <2>2. 1 \in 1 .. n + 1 /\ 2 \in 1 .. n + 1 /\ others[1] = rest[2]
    BY <1>2, <2>1
  <2>3. rest[1][1] <= rest[2][1]
    <3>1. \A j, k \in 1 .. n + 1 : j < k => rest[j][1] <= rest[k][1]
      BY <1>1, <1>2 DEF Climbs
    <3> QED
      BY <2>2, <3>1
  <2>4. rest[1][1] \in Nat /\ rest[2][1] \in Nat
    BY <1>2, <2>2
  <2>5. Len(longer) \in 1 .. Len(longer) /\ longer \in Seq(Nat \X Nat)
    BY <1>7 DEF AreRanges
  <2> HIDE DEF longer
  <2>6. longer[Len(longer)][1] \in Nat
    BY <2>5
  <2>7. longer[Len(longer)][1] <= rest[1][1]
    <3>1. range = rest[1]
      BY <1>2
    <3> QED
      BY <1>7, <3>1
  <2>8. others[1][1] = rest[2][1]
    BY <2>2
  <2>9. \A l, r, s \in Nat : l <= r /\ r <= s => l <= s
    OBVIOUS
  <2>10. longer[Len(longer)][1] <= rest[2][1]
    BY <2>3, <2>4, <2>6, <2>7, <2>9, Zenon
  <2> QED
    BY <2>8, <2>10, Zenon
<1>10. \A a : Mrs!Covers(rest, a) <=> Spans(range, a) \/ Mrs!Covers(others, a)
  <2>1. \A k \in 1 .. n + 1 : k = 1 \/ (k - 1 \in 1 .. n /\ (k - 1) + 1 = k)
    BY <1>2
  <2>2. \A k \in 1 .. n + 1 : k = 1 \/ \E j \in 1 .. n : rest[k] = others[j]
    BY <1>2, <2>1
  <2>3. 1 \in 1 .. n + 1
    BY <1>2
  <2> QED
    BY <1>2, <1>4, <2>2, <2>3, Zenon DEF Mrs!Covers, Spans
<1>11. \A a \in Nat :
          Mrs!Covers(longer, a) \/ Mrs!Covers(others, a) <=> InFamily(four, Len(rules), a)
  BY <1>1, <1>7, <1>10, Zenon
<1> QED
  BY <1>7, <1>5, <1>8, <1>9, <1>11 DEF Merging, others, range, bits

\* Sorting a family starts its merging.
LEMMA SortedMerging ==
  ASSUME NEW four, NEW list, Gathers(list, four, Len(rules))
  PROVE  /\ Merging(<<>>, Mrs!Sorted(list), four)
         /\ Gathers(Mrs!Sorted(list), four, Len(rules)) /\ Climbs(Mrs!Sorted(list))
<1>1. /\ AreRanges(Mrs!Sorted(list), BitsOf(four)) /\ Climbs(Mrs!Sorted(list))
      /\ \A a : Mrs!Covers(Mrs!Sorted(list), a) <=> Mrs!Covers(list, a)
  BY SortedRanges DEF Gathers
<1>2. \A a \in Nat : Mrs!Covers(list, a) <=> InFamily(four, Len(rules), a)
  BY DEF Gathers
<1>3. /\ AreRanges(<<>>, BitsOf(four)) /\ Spaced(<<>>)
      /\ \A a : ~Mrs!Covers(<<>>, a)
  BY NoRanges DEF Gathers, Mrs!Covers
<1> QED
  BY <1>1, <1>2, <1>3, Zenon DEF Merging, Gathers

\* All of a family is merged.
LEMMA MergingEnds ==
  ASSUME NEW four, NEW done, Merging(done, <<>>, four)
  PROVE  Gathers(done, four, Len(rules)) /\ Spaced(done)
<1>1. \A a : ~Mrs!Covers(<<>>, a)
  BY DEF Mrs!Covers
<1> QED
  BY <1>1, Zenon DEF Merging, Gathers

\* An IPv4 range becomes an IPv6 one.
LEMMA MappedRange ==
  ASSUME Mrs!MrsAssumption, NEW range, IsRange(range, V4Bits)
  PROVE  /\ Mrs!Mapped(range[1]) \in Nat /\ Mrs!Mapped(range[2]) \in Nat
         /\ \A a \in Nat :
               Mrs!Mapped(range[1]) <= a /\ a <= Mrs!Mapped(range[2])
                 <=> /\ a \div Mrs!Shifted[V4Bits] = MappedPrefix
                     /\ Spans(range, a % Mrs!Shifted[V4Bits])
<1> DEFINE p == Mrs!Shifted[V4Bits]
           m == MappedPrefix
<1>1. /\ p \in Nat \ {0} /\ m \in Nat /\ range[1] \in Nat /\ range[2] \in Nat
      /\ range[1] <= range[2] /\ range[2] < p
  <2>1. V4Bits \in 0 .. V6Bits /\ m \in Nat
    BY DEF Mrs!MrsAssumption
  <2>2. p \in Nat \ {0} /\ p = Mrs!MaxOf(V4Bits) + 1 /\ Mrs!MaxOf(V4Bits) \in Nat
    BY <2>1, ShiftedIs, MaxOfIs
  <2> HIDE DEF p
  <2> QED
    BY <2>1, <2>2 DEF IsRange
<1>2. Mrs!Mapped(range[1]) = m * p + range[1] /\ Mrs!Mapped(range[2]) = m * p + range[2]
  BY DEF Mrs!Mapped
<1> HIDE DEF p, m
<1>3. m * p \in Nat /\ m * p = p * m
  BY <1>1
<1>4. ASSUME NEW a \in Nat
      PROVE  m * p + range[1] <= a /\ a <= m * p + range[2]
               <=> a \div p = m /\ Spans(range, a % p)
  <2> DEFINE x == a \div p
             r == a % p
  <2>1. x \in Nat /\ r \in 0 .. p - 1 /\ a = p * x + r
    BY <1>1, Division
  <2> HIDE DEF x, r
  <2>2. p * x \in Nat
    BY <1>1, <2>1
  <2>3. CASE x < m
    <3>1. p * x + p <= p * m
      BY <1>1, <2>1, <2>3, NextBlock
    <3> QED
      BY <1>1, <1>3, <2>1, <2>2, <2>3, <3>1 DEF x
  <2>4. CASE x > m
    <3>1. p * m + p <= p * x
      BY <1>1, <2>1, <2>4, NextBlock
    <3> QED
      BY <1>1, <1>3, <2>1, <2>2, <2>4, <3>1 DEF x
  <2>5. CASE x = m
    <3>1. m * p + range[1] <= a /\ a <= m * p + range[2] <=> Spans(range, r)
      BY <1>1, <1>3, <2>1, <2>2, <2>5 DEF Spans
    <3> QED
      BY <2>5, <3>1 DEF x, r
  <2> QED
    BY <1>1, <2>1, <2>3, <2>4, <2>5
<1> QED
  BY <1>1, <1>2, <1>3, <1>4 DEF p, m

\* The merged IPv4 ranges are written.
LEMMA MappedList ==
  ASSUME Mrs!MrsAssumption, NEW list, Gathers(list, TRUE, Len(rules)), Spaced(list)
  PROVE  WrittenV4([k \in DOMAIN list |->
                      <<Mrs!Mapped(list[k][1]), Mrs!Mapped(list[k][2])>>])
<1> DEFINE n == Len(list)
           p == Mrs!Shifted[V4Bits]
           mapped == [k \in DOMAIN list |->
                        <<Mrs!Mapped(list[k][1]), Mrs!Mapped(list[k][2])>>]
<1>1. /\ list \in Seq(Nat \X Nat) /\ n \in Nat /\ DOMAIN list = 1 .. n
      /\ \A k \in 1 .. n : IsRange(list[k], V4Bits)
  BY DEF Gathers, AreRanges, BitsOf
<1>2. \A k \in 1 .. n :
         /\ Mrs!Mapped(list[k][1]) \in Nat /\ Mrs!Mapped(list[k][2]) \in Nat
         /\ \A a \in Nat : Mrs!Mapped(list[k][1]) <= a /\ a <= Mrs!Mapped(list[k][2])
                              <=> a \div p = MappedPrefix /\ Spans(list[k], a % p)
  BY <1>1, MappedRange
<1>3. /\ DOMAIN mapped = 1 .. n
      /\ \A k \in 1 .. n : /\ mapped[k][1] = Mrs!Mapped(list[k][1])
                           /\ mapped[k][2] = Mrs!Mapped(list[k][2])
  BY <1>1
<1>4. mapped \in Seq(Nat \X Nat) /\ Len(mapped) = n
  <2>1. mapped \in [1 .. n -> Nat \X Nat]
    BY <1>1, <1>2
  <2> HIDE DEF mapped, n
  <2> QED
    BY <1>1, <2>1
<1>5. p \in Nat \ {0}
  <2>1. V4Bits \in 0 .. V6Bits
    BY DEF Mrs!MrsAssumption
  <2> QED
    BY <2>1, ShiftedIs
<1> HIDE DEF mapped, p
<1>6. Spaced(mapped)
  <2> SUFFICES ASSUME NEW k \in 1 .. n - 1 PROVE mapped[k][2] + 1 < mapped[k + 1][1]
    BY <1>4 DEF Spaced
  <2>1. k \in 1 .. n /\ k + 1 \in 1 .. n
    BY <1>1
  <2>2. list[k][2] + 1 < list[k + 1][1]
    BY DEF Spaced
  <2>3. list[k][2] \in Nat /\ list[k + 1][1] \in Nat /\ MappedPrefix * p \in Nat
    <3>1. list[k][2] \in Nat /\ list[k + 1][1] \in Nat
      BY <1>1, <2>1 DEF IsRange
    <3>2. MappedPrefix \in Nat
      BY DEF Mrs!MrsAssumption
    <3> QED
      BY <1>5, <3>1, <3>2
  <2>4. /\ mapped[k][2] = MappedPrefix * p + list[k][2]
        /\ mapped[k + 1][1] = MappedPrefix * p + list[k + 1][1]
    BY <1>3, <2>1 DEF Mrs!Mapped, p
  <2> QED
    BY <2>2, <2>3, <2>4
<1>7. ASSUME NEW a \in Nat PROVE Mrs!Covers(mapped, a) <=> InMapped(a)
  <2>1. Mrs!Covers(mapped, a)
          <=> \E k \in 1 .. n : a \div p = MappedPrefix /\ Spans(list[k], a % p)
    BY <1>2, <1>3, Zenon DEF Mrs!Covers
  <2>2. Mrs!Covers(list, a % p) <=> \E k \in 1 .. n : Spans(list[k], a % p)
    BY <1>1, Zenon DEF Mrs!Covers, Spans
  <2>3. a % p \in Nat
    BY <1>5, Division
  <2>4. Mrs!Covers(list, a % p) <=> InFamily(TRUE, Len(rules), a % p)
    BY <2>3, Zenon DEF Gathers
  <2> QED
    BY <2>1, <2>2, <2>4, Zenon DEF InMapped, p
<1> QED
  BY <1>4, <1>6, <1>7 DEF WrittenV4, mapped

\* What is written is what the rules say.
LEMMA WrittenCovers ==
  ASSUME Mrs!MrsAssumption, RulesGood, AllWritten
  PROVE  /\ \A a \in 0 .. Mrs!MaxOf(V6Bits) :
               Mrs!Covers(payload, a) <=> \E k \in DOMAIN rules : Mrs!InNetwork(rules[k], a)
         /\ \A k \in 1 .. Len(merged) - 1 : merged[k][2] + 1 < merged[k + 1][1]
         /\ \A k \in 1 .. Len(payload) - Len(merged) - 1 : payload[k][2] + 1 < payload[k + 1][1]
<1>1. PICK list : WrittenV4(list) /\ payload = list \o merged
  BY DEF AllWritten
<1> DEFINE n == Len(list)
           m == Len(merged)
           N == Len(rules)
<1>2. /\ list \in Seq(Nat \X Nat) /\ merged \in Seq(Nat \X Nat)
      /\ n \in Nat /\ m \in Nat /\ DOMAIN list = 1 .. n /\ DOMAIN merged = 1 .. m
  BY <1>1 DEF WrittenV4, AllWritten, Gathers, AreRanges
<1>3. /\ Len(payload) = n + m /\ DOMAIN payload = 1 .. n + m
      /\ \A k \in 1 .. n : payload[k] = list[k]
      /\ \A k \in 1 .. m : payload[n + k] = merged[k]
  BY <1>1, <1>2
<1>4. /\ \A k \in 1 .. m - 1 : merged[k][2] + 1 < merged[k + 1][1]
      /\ \A k \in 1 .. n - 1 : list[k][2] + 1 < list[k + 1][1]
  BY <1>1 DEF AllWritten, WrittenV4, Spaced
<1>5. /\ \A a \in Nat : Mrs!Covers(list, a) <=> InMapped(a)
      /\ \A a \in Nat : Mrs!Covers(merged, a) <=> InFamily(FALSE, N, a)
  BY <1>1, Zenon DEF WrittenV4, AllWritten, Gathers
<1>6. /\ N \in Nat /\ DOMAIN rules = 1 .. N
      /\ \A k \in 1 .. N : rules[k].v4 \in BOOLEAN
  BY DEF RulesGood, AllWritten, AllValid
<1> HIDE DEF n, m, N
<1>7. \A a : Mrs!Covers(payload, a) <=> Mrs!Covers(list, a) \/ Mrs!Covers(merged, a)
  <2>1. \A k \in 1 .. n + m : k \in 1 .. n \/ (k - n \in 1 .. m /\ n + (k - n) = k)
    BY <1>2
  <2>2. \A k \in 1 .. n + m : \/ \E j \in 1 .. n : payload[k] = list[j]
                              \/ \E j \in 1 .. m : payload[k] = merged[j]
    BY <1>3, <2>1
  <2>3. \A k \in 1 .. n : k \in 1 .. n + m
    BY <1>2
  <2>4. \A k \in 1 .. m : n + k \in 1 .. n + m
    BY <1>2
  <2> QED
    BY <1>2, <1>3, <2>2, <2>3, <2>4, Zenon DEF Mrs!Covers
<1>8. ASSUME NEW a \in Nat
      PROVE  InMapped(a) \/ InFamily(FALSE, N, a)
                <=> \E k \in 1 .. N : Mrs!InNetwork(rules[k], a)
  <2>1. ASSUME NEW k \in 1 .. N
        PROVE  Mrs!InNetwork(rules[k], a)
                 <=> \/ /\ rules[k].v4 = TRUE /\ a \div Mrs!Shifted[V4Bits] = MappedPrefix
                        /\ Within(rules[k], BitsOf(TRUE), a % Mrs!Shifted[V4Bits])
                     \/ rules[k].v4 = FALSE /\ Within(rules[k], BitsOf(FALSE), a)
    <3>1. CASE rules[k].v4 = TRUE
      BY <3>1 DEF Mrs!InNetwork, Within, BitsOf
    <3>2. CASE rules[k].v4 = FALSE
      BY <3>2 DEF Mrs!InNetwork, Within, BitsOf
    <3> QED
      BY <1>6, <3>1, <3>2
  <2> QED
    BY <2>1, Zenon DEF InMapped, InFamily, N
<1>9. \A a \in 0 .. Mrs!MaxOf(V6Bits) :
         Mrs!Covers(payload, a) <=> \E k \in DOMAIN rules : Mrs!InNetwork(rules[k], a)
  <2>1. Mrs!MaxOf(V6Bits) \in Nat
    <3>1. V6Bits \in 0 .. V6Bits
      BY DEF Mrs!MrsAssumption
    <3> QED
      BY <3>1, MaxOfIs
  <2>2. \A a \in 0 .. Mrs!MaxOf(V6Bits) : a \in Nat
    BY <2>1
  <2> QED
    BY <1>5, <1>6, <1>7, <1>8, <2>2, Zenon
<1>10. \A k \in 1 .. Len(payload) - Len(merged) - 1 : payload[k][2] + 1 < payload[k + 1][1]
  <2>1. Len(payload) - Len(merged) - 1 = n - 1
    BY <1>2, <1>3 DEF m
  <2>2. \A k \in 1 .. n - 1 : k \in 1 .. n /\ k + 1 \in 1 .. n
    BY <1>2
  <2> QED
    BY <1>3, <1>4, <2>1, <2>2
<1> QED
  BY <1>4, <1>9, <1>10 DEF m

-----------------------------------------------------------------------------
\* Every step of the encoder keeps the ranges right.
LEMMA MrsKept ==
  ASSUME Mrs!MrsAssumption, MrsInv, [Mrs!Next]_(Mrs!vars)
  PROVE  MrsInv'
<1> SUFFICES ASSUME behavior' = "ipcidr" PROVE MrsInv'
  BY DEF MrsInv
<1>1. CASE UNCHANGED Mrs!vars
  BY <1>1 DEF Mrs!vars, Mrs!trie, Mrs!ranges, MrsInv, RulesGood, Reading, MergingV4, MergingV6,
     AllWritten, AllValid, Gathers, Merging, WrittenV4, InMapped, InFamily
<1> SUFFICES ASSUME Mrs!Next PROVE MrsInv'
  BY <1>1
<1>2. /\ RulesGood /\ outcome \in {"error", "reading", "merging v4", "merging v6", "done"}
      /\ outcome = "reading" => Reading
      /\ outcome = "merging v4" => MergingV4
      /\ outcome = "merging v6" => MergingV6
      /\ behavior = "ipcidr" /\ behavior' = behavior /\ rules' = rules
  <2>1. behavior' = behavior /\ rules' = rules
    BY DEF Mrs!Next, Mrs!ReadDomain, Mrs!StartBuilding, Mrs!Visit, Mrs!Built, Mrs!ReadNetwork,
       Mrs!StartMerging, Mrs!MergeV4, Mrs!WriteV4, Mrs!MergeV6, Mrs!WriteV6
  <2> QED
    BY <2>1 DEF MrsInv
<1>3. /\ RulesGood' /\ \A n : AllValid(n)' <=> AllValid(n)
      /\ \A four, n, a : InFamily(four, n, a)' <=> InFamily(four, n, a)
  BY <1>2 DEF RulesGood, AllValid, InFamily
<1>4. /\ \A list, four, n : Gathers(list, four, n)' <=> Gathers(list, four, n)
      /\ \A done, rest, four : Merging(done, rest, four)' <=> Merging(done, rest, four)
      /\ \A list : WrittenV4(list)' <=> WrittenV4(list)
  <2>1. \A list, four, n : Gathers(list, four, n)' <=> Gathers(list, four, n)
    BY <1>3 DEF Gathers
  <2>2. \A done, rest, four : Merging(done, rest, four)' <=> Merging(done, rest, four)
    <3> SUFFICES ASSUME NEW done, NEW rest, NEW four
                 PROVE  Merging(done, rest, four)' <=> Merging(done, rest, four)
      OBVIOUS
    <3>1. \A a : InFamily(four, Len(rules), a)' <=> InFamily(four, Len(rules), a)
      BY <1>2, <1>3
    <3> QED
      BY <3>1, Zenon DEF Merging
  <2>3. \A list : WrittenV4(list)' <=> WrittenV4(list)
    BY <1>2, <1>3, Zenon DEF WrittenV4, InMapped
  <2> QED
    BY <2>1, <2>2, <2>3
<1>5. CASE Mrs!ReadDomain \/ Mrs!StartBuilding
  BY <1>2, <1>5 DEF Mrs!ReadDomain, Mrs!StartBuilding
<1>6. CASE Mrs!Visit \/ Mrs!Built
  BY <1>2, <1>6 DEF Mrs!Visit, Mrs!Built
<1>7. CASE Mrs!ReadNetwork
  <2> DEFINE network == rules[read + 1]
  <2>1. /\ outcome = "reading" /\ read < Len(rules) /\ merged' = merged
        /\ ~network.valid => outcome' = "error"
        /\ network.valid =>
              /\ v4' = IF network.v4 THEN Append(v4, Mrs!RangeOf(network, V4Bits)) ELSE v4
              /\ v6' = IF network.v4 THEN v6 ELSE Append(v6, Mrs!RangeOf(network, V6Bits))
              /\ read' = read + 1 /\ outcome' = outcome
    BY <1>7 DEF Mrs!ReadNetwork
  <2>2. CASE ~network.valid
    BY <1>3, <2>1, <2>2 DEF MrsInv
  <2>3. CASE network.valid
    <3>1. network.v4 \in BOOLEAN /\ read + 1 \in 1 .. Len(rules)
      BY <1>2, <2>1, <2>3 DEF RulesGood, Reading, AllValid
    <3> HIDE DEF network
    <3>2. /\ AllValid(read + 1)
          /\ network.v4 =>
                /\ Gathers(Append(v4, Mrs!RangeOf(network, BitsOf(network.v4))), TRUE, read + 1)
                /\ Gathers(v6, FALSE, read + 1)
          /\ ~network.v4 =>
                /\ Gathers(v4, TRUE, read + 1)
                /\ Gathers(Append(v6, Mrs!RangeOf(network, BitsOf(network.v4))), FALSE, read + 1)
      BY <1>2, <2>1, <2>3, <3>1, NetworkRead DEF network
    <3>3. Gathers(v4', TRUE, read') /\ Gathers(v6', FALSE, read') /\ AllValid(read')
      <4>1. CASE network.v4
        <5>1. BitsOf(network.v4) = V4Bits
          BY <4>1 DEF BitsOf
        <5>2. /\ v4' = Append(v4, Mrs!RangeOf(network, V4Bits)) /\ v6' = v6 /\ read' = read + 1
          BY <2>1, <2>3, <4>1
        <5> QED
          BY <3>2, <4>1, <5>1, <5>2
      <4>2. CASE ~network.v4
        <5>1. BitsOf(network.v4) = V6Bits
          BY <4>2 DEF BitsOf
        <5>2. /\ v6' = Append(v6, Mrs!RangeOf(network, V6Bits)) /\ v4' = v4 /\ read' = read + 1
          BY <2>1, <2>3, <4>2
        <5> QED
          BY <3>2, <4>2, <5>1, <5>2
      <4> QED
        BY <4>1, <4>2
    <3>4. Reading'
      BY <1>2, <1>3, <1>4, <2>1, <3>3 DEF Reading
    <3> QED
      BY <1>3, <2>1, <2>3, <3>4 DEF MrsInv
  <2> QED
    BY <2>2, <2>3
<1>8. CASE Mrs!StartMerging
  <2>1. /\ outcome = "reading" /\ read = Len(rules) /\ outcome' = "merging v4"
        /\ v4' = Mrs!Sorted(v4) /\ v6' = Mrs!Sorted(v6) /\ merged' = merged
    BY <1>8 DEF Mrs!StartMerging
  <2>2. /\ AllValid(Len(rules)) /\ merged = <<>>
        /\ Gathers(v4, TRUE, Len(rules)) /\ Gathers(v6, FALSE, Len(rules))
    BY <1>2, <2>1 DEF Reading
  <2>3. Merging(<<>>, v4', TRUE) /\ Gathers(v6', FALSE, Len(rules)) /\ Climbs(v6')
    BY <2>1, <2>2, SortedMerging
  <2>4. MergingV4'
    BY <1>2, <1>3, <1>4, <2>1, <2>2, <2>3 DEF MergingV4, Climbs
  <2> QED
    BY <1>3, <2>1, <2>4 DEF MrsInv
<1>9. CASE Mrs!MergeV4
  <2>1. /\ outcome = "merging v4" /\ v4 # <<>> /\ v4' = Tail(v4)
        /\ merged' = Mrs!Merge(merged, Head(v4), V4Bits) /\ v6' = v6 /\ outcome' = outcome
    BY <1>9 DEF Mrs!MergeV4
  <2>2. MergingV4 /\ BitsOf(TRUE) = V4Bits
    BY <1>2, <2>1 DEF BitsOf
  <2>3. Merging(Mrs!Merge(merged, Head(v4), BitsOf(TRUE)), Tail(v4), TRUE)
    BY <2>1, <2>2, OneMerged DEF MergingV4
  <2>4. MergingV4'
    BY <1>2, <1>3, <1>4, <2>1, <2>2, <2>3 DEF MergingV4, Climbs
  <2> QED
    BY <1>3, <2>1, <2>4 DEF MrsInv
<1>10. CASE Mrs!WriteV4
  <2>1. /\ outcome = "merging v4" /\ v4 = <<>> /\ merged' = <<>> /\ outcome' = "merging v6"
        /\ payload' = [k \in DOMAIN merged |->
                         <<Mrs!Mapped(merged[k][1]), Mrs!Mapped(merged[k][2])>>]
        /\ v6' = v6
    BY <1>10 DEF Mrs!WriteV4
  <2>2. MergingV4
    BY <1>2, <2>1
  <2>3. WrittenV4(payload')
    <3>1. Gathers(merged, TRUE, Len(rules)) /\ Spaced(merged)
      BY <2>1, <2>2, MergingEnds DEF MergingV4
    <3> QED
      BY <2>1, <3>1, MappedList
  <2>4. Merging(<<>>, v6', FALSE)
    <3>1. AreRanges(<<>>, BitsOf(FALSE)) /\ Spaced(<<>>) /\ \A a : ~Mrs!Covers(<<>>, a)
      <4>1. Gathers(<<>>, FALSE, 0) /\ Spaced(<<>>)
        BY NoRanges
      <4>2. \A a : ~Mrs!Covers(<<>>, a)
        BY DEF Mrs!Covers
      <4> QED
        BY <4>1, <4>2, Zenon DEF Gathers
    <3>2. Gathers(v6, FALSE, Len(rules)) /\ Climbs(v6)
      BY <2>2 DEF MergingV4
    <3> QED
      BY <2>1, <3>1, <3>2, Zenon DEF Merging, Gathers
  <2>5. MergingV6'
    BY <1>2, <1>3, <1>4, <2>1, <2>2, <2>3, <2>4 DEF MergingV4, MergingV6
  <2> QED
    BY <1>3, <2>1, <2>5 DEF MrsInv
<1>11. CASE Mrs!MergeV6
  <2>1. /\ outcome = "merging v6" /\ v6 # <<>> /\ v6' = Tail(v6) /\ payload' = payload
        /\ merged' = Mrs!Merge(merged, Head(v6), V6Bits) /\ outcome' = outcome
    BY <1>11 DEF Mrs!MergeV6
  <2>2. MergingV6 /\ BitsOf(FALSE) = V6Bits
    BY <1>2, <2>1 DEF BitsOf
  <2>3. Merging(Mrs!Merge(merged, Head(v6), BitsOf(FALSE)), Tail(v6), FALSE)
    BY <2>1, <2>2, OneMerged DEF MergingV6
  <2>4. MergingV6'
    BY <1>2, <1>3, <1>4, <2>1, <2>2, <2>3 DEF MergingV6
  <2> QED
    BY <1>3, <2>1, <2>4 DEF MrsInv
<1>12. CASE Mrs!WriteV6
  <2>1. /\ outcome = "merging v6" /\ v6 = <<>> /\ payload' = payload \o merged
        /\ merged' = merged /\ outcome' = "done"
    BY <1>12 DEF Mrs!WriteV6
  <2>2. MergingV6
    BY <1>2, <2>1
  <2>3. Gathers(merged, FALSE, Len(rules)) /\ Spaced(merged)
    BY <2>1, <2>2, MergingEnds DEF MergingV6
  <2>4. AllWritten'
    BY <1>2, <1>3, <1>4, <2>1, <2>2, <2>3 DEF MergingV6, AllWritten, Spaced
  <2> QED
    BY <1>3, <2>1, <2>4 DEF MrsInv
<1> QED
  BY <1>5, <1>6, <1>7, <1>8, <1>9, <1>10, <1>11, <1>12 DEF Mrs!Next

\* At the end the ranges written cover the networks of the rules.
LEMMA MrsSays ==
  ASSUME Mrs!MrsAssumption, MrsInv
  PROVE  Mrs!RangesCoverNetworks
<1> SUFFICES ASSUME behavior = "ipcidr", outcome = "done"
             PROVE  /\ \A a \in 0 .. Mrs!MaxOf(V6Bits) :
                          Mrs!Covers(payload, a)
                             <=> \E k \in DOMAIN rules : Mrs!InNetwork(rules[k], a)
                    /\ \A k \in 1 .. Len(merged) - 1 : merged[k][2] + 1 < merged[k + 1][1]
                    /\ \A k \in 1 .. Len(payload) - Len(merged) - 1 :
                          payload[k][2] + 1 < payload[k + 1][1]
  BY DEF Mrs!RangesCoverNetworks
<1>1. RulesGood /\ AllWritten
  BY DEF MrsInv
<1> QED
  BY <1>1, WrittenCovers

-----------------------------------------------------------------------------
(* MrsPayload: the keys of a trie.  Each is inserted behind the last smaller *)
(* one, so that no key is a beginning of an earlier one.                     *)

Bytes == DOMAIN Order

\* No key is at or before its predecessors.
Rising(list) ==
    \A j, k \in DOMAIN list : j < k => ~Mrs!Before(list[k], list[j]) /\ list[k] # list[j]

Elements(list) == {list[k] : k \in DOMAIN list}

\* The order of keys is transitive, ...
LEMMA BeforeTransitive ==
  ASSUME Mrs!MrsAssumption,
         NEW a \in Seq(Bytes), NEW b \in Seq(Bytes), NEW c \in Seq(Bytes),
         Mrs!Before(a, b), Mrs!Before(b, c)
  PROVE  Mrs!Before(a, c)
<1>1. /\ \A k \in DOMAIN a : Order[a[k]] \in Nat
      /\ \A k \in DOMAIN b : Order[b[k]] \in Nat
      /\ \A k \in DOMAIN c : Order[c[k]] \in Nat
  BY DEF Bytes, Mrs!MrsAssumption
<1>2. /\ Len(a) \in Nat /\ DOMAIN a = 1 .. Len(a) /\ Len(b) \in Nat /\ DOMAIN b = 1 .. Len(b)
      /\ Len(c) \in Nat /\ DOMAIN c = 1 .. Len(c)
  OBVIOUS
<1> DEFINE Differ(s, t, k) ==
              /\ k \in DOMAIN s \cap DOMAIN t /\ Mrs!Agree(s, t, k - 1) /\ Order[s[k]] < Order[t[k]]
<1>3. CASE Len(a) < Len(b) /\ Mrs!Agree(a, b, Len(a))
  <2>1. CASE Len(b) < Len(c) /\ Mrs!Agree(b, c, Len(b))
    BY <1>2, <1>3, <2>1 DEF Mrs!Agree, Mrs!Before
  <2>2. CASE \E k : Differ(b, c, k)
    <3>1. PICK k : Differ(b, c, k)
      BY <2>2
    <3>2. CASE k <= Len(a)
      <4>1. k \in DOMAIN a \cap DOMAIN c /\ a[k] = b[k] /\ Mrs!Agree(a, c, k - 1)
        BY <1>2, <1>3, <3>1, <3>2 DEF Mrs!Agree
      <4> QED
        BY <3>1, <4>1 DEF Mrs!Before
    <3>3. CASE k > Len(a)
      BY <1>2, <1>3, <3>1, <3>3 DEF Mrs!Agree, Mrs!Before
    <3> QED
      BY <1>2, <3>1, <3>2, <3>3
  <2> QED
    BY <2>1, <2>2 DEF Mrs!Before
<1>4. CASE \E j : Differ(a, b, j)
  <2>1. PICK j : Differ(a, b, j)
    BY <1>4
  <2>2. CASE Len(b) < Len(c) /\ Mrs!Agree(b, c, Len(b))
    <3>1. j \in DOMAIN a \cap DOMAIN c /\ b[j] = c[j] /\ Mrs!Agree(a, c, j - 1)
      BY <1>2, <2>1, <2>2 DEF Mrs!Agree
    <3> QED
      BY <2>1, <3>1 DEF Mrs!Before
  <2>3. CASE \E k : Differ(b, c, k)
    <3>1. PICK k : Differ(b, c, k)
      BY <2>3
    <3>2. CASE j < k
      <4>1. j \in DOMAIN a \cap DOMAIN c /\ b[j] = c[j] /\ Mrs!Agree(a, c, j - 1)
        BY <1>2, <2>1, <3>1, <3>2 DEF Mrs!Agree
      <4> QED
        BY <2>1, <4>1 DEF Mrs!Before
    <3>3. CASE j = k
      <4>1. j \in DOMAIN a \cap DOMAIN c /\ Mrs!Agree(a, c, j - 1)
        BY <1>2, <2>1, <3>1, <3>3 DEF Mrs!Agree
      <4>2. Order[a[j]] < Order[c[j]]
        BY <1>1, <2>1, <3>1, <3>3
      <4> QED
        BY <4>1, <4>2 DEF Mrs!Before
    <3>4. CASE k < j
      <4>1. k \in DOMAIN a \cap DOMAIN c /\ a[k] = b[k] /\ Mrs!Agree(a, c, k - 1)
        BY <1>2, <2>1, <3>1, <3>4 DEF Mrs!Agree
      <4> QED
        BY <3>1, <4>1 DEF Mrs!Before
    <3> QED
      BY <1>2, <2>1, <3>1, <3>2, <3>3, <3>4
  <2> QED
    BY <2>2, <2>3 DEF Mrs!Before
<1> QED
  BY <1>3, <1>4 DEF Mrs!Before

\* ... and no key is before itself.
LEMMA BeforeIrreflexive ==
  ASSUME Mrs!MrsAssumption, NEW a \in Seq(Bytes)
  PROVE  ~Mrs!Before(a, a)
<1>1. \A k \in DOMAIN a : Order[a[k]] \in Nat
  BY DEF Bytes, Mrs!MrsAssumption
<1> QED
  BY <1>1 DEF Mrs!Before

\* BTreeSet::insert keeps the keys in order and adds the one key.
LEMMA InsertedKeeps ==
  ASSUME Mrs!MrsAssumption, NEW list \in Seq(Seq(Bytes)), Rising(list), NEW key \in Seq(Bytes)
  PROVE  /\ Mrs!Inserted(list, key) \in Seq(Seq(Bytes))
         /\ Rising(Mrs!Inserted(list, key))
         /\ Elements(Mrs!Inserted(list, key)) = Elements(list) \cup {key}
<1> DEFINE N == Len(list)
           places == {n \in 0 .. N : \A k \in n + 1 .. N : ~Mrs!Before(list[k], key)}
           place == CHOOSE x \in places : \A y \in places : x =< y
           longer == [k \in 1 .. N + 1 |->
                         IF k <= place THEN list[k] ELSE IF k = place + 1 THEN key ELSE list[k - 1]]
<1>1. Mrs!Inserted(list, key) = IF \E k \in DOMAIN list : list[k] = key THEN list ELSE longer
  BY DEF Mrs!Inserted, Mrs!Min
<1>2. CASE \E k \in DOMAIN list : list[k] = key
  BY <1>1, <1>2 DEF Elements
<1>3. CASE \A k \in DOMAIN list : list[k] # key
  <2>1. N \in Nat /\ DOMAIN list = 1 .. N /\ \A k \in 1 .. N : list[k] \in Seq(Bytes)
    OBVIOUS
  <2>2. place \in places /\ \A y \in places : place <= y
    <3>1. places \subseteq Nat /\ N \in places
      BY <2>1
    <3>2. \E x \in places : \A y \in places : x <= y
      BY <3>1, LeastElement
    <3> HIDE DEF places
    <3> QED
      BY <3>2
  <2> HIDE DEF place
  <2>3. place \in 0 .. N /\ \A k \in place + 1 .. N : ~Mrs!Before(list[k], key)
    BY <2>2
  <2>4. place # 0 => Mrs!Before(list[place], key)
    <3> SUFFICES ASSUME place # 0, ~Mrs!Before(list[place], key) PROVE FALSE
      OBVIOUS
    <3>1. place - 1 \in 0 .. N /\ \A k \in (place - 1) + 1 .. N : k = place \/ k \in place + 1 .. N
      BY <2>1, <2>3
    <3>2. place - 1 \in places
      BY <2>3, <3>1
    <3> QED
      BY <2>2, <2>3, <3>2
  <2> HIDE DEF places, N
  <2>5. \A k \in 1 .. N : k <= place => ~Mrs!Before(key, list[k])
    <3> SUFFICES ASSUME NEW k \in 1 .. N, k <= place, Mrs!Before(key, list[k]) PROVE FALSE
      OBVIOUS
    <3>1. place \in 1 .. N /\ place # 0
      BY <2>1, <2>3
    <3>2. Mrs!Before(list[place], list[k])
      BY <2>1, <2>4, <3>1, BeforeTransitive
    <3>3. CASE k = place
      BY <2>1, <3>2, <3>3, BeforeIrreflexive
    <3>4. CASE k < place
      BY <2>1, <3>1, <3>2, <3>4 DEF Rising
    <3> QED
      BY <2>1, <3>1, <3>3, <3>4
  <2>6. \A k \in 1 .. N + 1 :
          \/ k <= place /\ k \in 1 .. N /\ longer[k] = list[k]
          \/ k = place + 1 /\ longer[k] = key
          \/ k > place + 1 /\ k - 1 \in 1 .. N /\ k - 1 \in place + 1 .. N /\ longer[k] = list[k - 1]
    BY <2>1, <2>3
  <2>7. DOMAIN longer = 1 .. N + 1
    OBVIOUS
  <2>8. longer \in Seq(Seq(Bytes))
    <3>1. \A k \in 1 .. N + 1 : longer[k] \in Seq(Bytes)
      BY <2>1, <2>6
    <3>2. longer \in [1 .. N + 1 -> Seq(Bytes)]
      BY <3>1
    <3> HIDE DEF longer
    <3>3. N + 1 \in Nat
      BY <2>1
    <3> QED
      BY <3>2, <3>3
  <2> HIDE DEF longer
  <2>9. Rising(longer)
    <3> SUFFICES ASSUME NEW j \in 1 .. N + 1, NEW k \in 1 .. N + 1, j < k
                 PROVE  ~Mrs!Before(longer[k], longer[j]) /\ longer[k] # longer[j]
      BY <2>7 DEF Rising
    <3>1. \A i, l \in 1 .. N : i < l => ~Mrs!Before(list[l], list[i]) /\ list[l] # list[i]
      BY <2>1 DEF Rising
    <3>2. CASE k <= place
      <4>1. j <= place /\ j \in 1 .. N /\ k \in 1 .. N /\ longer[j] = list[j] /\ longer[k] = list[k]
        BY <2>1, <2>3, <2>6, <3>2
      <4> QED
        BY <3>1, <4>1
    <3>3. CASE k = place + 1
      <4>1. j <= place /\ j \in 1 .. N /\ longer[j] = list[j] /\ longer[k] = key
        BY <2>1, <2>3, <2>6, <3>3
      <4> QED
        BY <1>3, <2>1, <2>5, <4>1
    <3>4. CASE k > place + 1
      <4>1. k - 1 \in place + 1 .. N /\ k - 1 \in 1 .. N /\ longer[k] = list[k - 1]
        BY <2>1, <2>3, <2>6, <3>4
      <4>2. CASE j <= place
        <5>1. j \in 1 .. N /\ longer[j] = list[j] /\ j < k - 1
          BY <2>1, <2>3, <2>6, <3>4, <4>2
        <5> QED
          BY <3>1, <4>1, <5>1
      <4>3. CASE j = place + 1
        <5>1. longer[j] = key
          BY <2>3, <2>6, <4>3
        <5> QED
          BY <1>3, <2>1, <2>3, <4>1, <5>1
      <4>4. CASE j > place + 1
        <5>1. j - 1 \in 1 .. N /\ longer[j] = list[j - 1] /\ j - 1 < k - 1
          BY <2>1, <2>3, <2>6, <4>4
        <5> QED
          BY <3>1, <4>1, <5>1
      <4> QED
        BY <2>3, <4>2, <4>3, <4>4
    <3> QED
      BY <2>3, <3>2, <3>3, <3>4
  <2>10. Elements(longer) = Elements(list) \cup {key}
    <3>1. \A k \in 1 .. N + 1 : longer[k] = key \/ \E j \in 1 .. N : longer[k] = list[j]
      BY <2>6
    <3>2. place + 1 \in 1 .. N + 1 /\ longer[place + 1] = key
      BY <2>1, <2>3, <2>6
    <3>3. \A j \in 1 .. N : \E k \in 1 .. N + 1 : longer[k] = list[j]
      <4> SUFFICES ASSUME NEW j \in 1 .. N PROVE \E k \in 1 .. N + 1 : longer[k] = list[j]
        OBVIOUS
      <4>1. CASE j <= place
        <5>1. j \in 1 .. N + 1 /\ longer[j] = list[j]
          BY <2>1, <2>3, <2>6, <4>1
        <5> QED
          BY <5>1
      <4>2. CASE j > place
        <5>1. j + 1 \in 1 .. N + 1 /\ longer[j + 1] = list[(j + 1) - 1] /\ (j + 1) - 1 = j
          BY <2>1, <2>3, <2>6, <4>2
        <5> QED
          BY <5>1
      <4> QED
        BY <2>1, <2>3, <4>1, <4>2
    <3>4. Elements(longer) = {longer[k] : k \in 1 .. N + 1} /\ Elements(list) = {list[k] : k \in 1 .. N}
      BY <2>1, <2>7 DEF Elements
    <3> QED
      BY <3>1, <3>2, <3>3, <3>4, Zenon
  <2> QED
    BY <1>1, <1>3, <2>8, <2>9, <2>10
<1> QED
  BY <1>2, <1>3

\* A text reversed twice is the text.
LEMMA ReverseTwice ==
  ASSUME NEW S, NEW s \in Seq(S)
  PROVE  Mrs!Reverse(s) \in Seq(S) /\ Mrs!Reverse(Mrs!Reverse(s)) = s
<1> DEFINE N == Len(s)
           back == [i \in 1 .. N |-> s[(N - i) + 1]]
<1>1. N \in Nat /\ \A i \in 1 .. N : s[i] \in S
  OBVIOUS
<1>2. s = [i \in 1 .. N |-> s[i]]
  OBVIOUS
<1>3. Mrs!Reverse(s) = back
  BY DEF Mrs!Reverse
<1>4. \A i \in 1 .. N : (N - i) + 1 \in 1 .. N /\ (N - ((N - i) + 1)) + 1 = i
  BY <1>1
<1> HIDE DEF N
<1>5. back \in [1 .. N -> S]
  BY <1>1, <1>4
<1>6. back \in Seq(S) /\ Len(back) = N
  <2> HIDE DEF back
  <2> QED
    BY <1>1, <1>5
<1>7. Mrs!Reverse(back) = [i \in 1 .. N |-> back[(N - i) + 1]]
  <2> HIDE DEF back
  <2> QED
    BY <1>6 DEF Mrs!Reverse
<1>8. \A i \in 1 .. N : back[(N - i) + 1] = s[i]
  BY <1>4
<1>9. Mrs!Reverse(back) = [i \in 1 .. N |-> s[i]]
  BY <1>7, <1>8
<1> QED
  BY <1>2, <1>3, <1>6, <1>9

Reversed(texts) == {Mrs!Reverse(t) : t \in texts}

\* What is left of a text between its first and its last character that is no
\* blank is a text.
LEMMA TrimmedType ==
  ASSUME NEW S, NEW s \in Seq(S)
  PROVE  Mrs!Trimmed(s) \in Seq(S)
<1> DEFINE shown == {k \in DOMAIN s : s[k] # Mrs!Blank}
           below == {Len(s) - k : k \in shown}
<1>1. Len(s) \in Nat /\ shown \subseteq 1 .. Len(s) /\ \A k \in 1 .. Len(s) : s[k] \in S
  OBVIOUS
<1>2. Mrs!Trimmed(s) = IF shown = {} THEN <<>> ELSE SubSeq(s, Mrs!Min(shown), Mrs!Max(shown))
  BY DEF Mrs!Trimmed
<1> HIDE DEF shown
<1>3. CASE shown = {}
  BY <1>2, <1>3
<1>4. CASE shown # {}
  <2>1. \E n \in shown : \A m \in shown : n <= m
    <3>1. shown \subseteq Nat
      BY <1>1
    <3> QED
      BY <1>4, <3>1, LeastElement
  <2>2. \E n \in shown : \A m \in shown : n >= m
    <3>1. below \subseteq Nat /\ below # {}
      <4>1. \A k \in shown : Len(s) - k \in Nat
        BY <1>1
      <4> QED
        BY <1>4, <4>1
    <3>2. PICK low \in below : \A m \in below : low <= m
      BY <3>1, LeastElement
    <3>3. PICK n \in shown : low = Len(s) - n
      BY <3>2
    <3>4. ASSUME NEW m \in shown PROVE n >= m
      <4>1. Len(s) - n <= Len(s) - m
        BY <3>2, <3>3
      <4>2. m \in Nat /\ n \in Nat
        BY <1>1
      <4> QED
        BY <1>1, <4>1, <4>2
    <3> QED
      BY <3>4
  <2>3. Mrs!Min(shown) \in shown
    BY <2>1 DEF Mrs!Min
  <2>4. Mrs!Max(shown) \in shown
    BY <2>2 DEF Mrs!Max
  <2>5. Mrs!Min(shown) \in 1 .. Len(s) /\ Mrs!Max(shown) \in 1 .. Len(s)
    BY <1>1, <2>3, <2>4
  <2>6. SubSeq(s, Mrs!Min(shown), Mrs!Max(shown)) \in Seq(S)
    <3>1. \A m, n \in 1 .. Len(s) : \A k \in m .. n : s[k] \in S
      BY <1>1
    <3> QED
      BY <2>5, <3>1, SubSeqProperties
  <2> QED
    BY <1>2, <1>4, <2>6
<1> QED
  BY <1>3, <1>4

\* A domain adds what it says, reversed.
LEMMA DomainAdded ==
  ASSUME Mrs!MrsAssumption, NEW list \in Seq(Seq(Bytes)), Rising(list),
         NEW domain \in Seq(DOMAIN Lower)
  PROVE  LET longer == Mrs!WithDomain(list, Mrs!Normalized(domain))
         IN /\ longer \in Seq(Seq(Bytes)) /\ Rising(longer)
            /\ Elements(longer) = Elements(list) \cup Reversed(Mrs!Says(domain))
            /\ Mrs!Says(domain) \in SUBSET Seq(Bytes)
<1> DEFINE bare == Mrs!Trimmed(domain)
           text == Mrs!Normalized(domain)
           apex == SubSeq(text, 3, Len(text))
<1>1. text \in Seq(Bytes)
  <2>1. bare \in Seq(DOMAIN Lower)
    BY TrimmedType
  <2> HIDE DEF bare
  <2>2. Len(bare) \in Nat /\ DOMAIN bare = 1 .. Len(bare)
    BY <2>1
  <2>3. \A k \in 1 .. Len(bare) : Lower[bare[k]] \in Bytes
    BY <2>1, <2>2 DEF Mrs!MrsAssumption, Bytes
  <2>4. text \in [1 .. Len(bare) -> Bytes]
    BY <2>2, <2>3 DEF Mrs!Normalized, Mrs!Lowered, bare
  <2>5. \A n \in Nat : [1 .. n -> Bytes] \subseteq Seq(Bytes)
    <3> TAKE n \in Nat
    <3>1. [1 .. n -> Bytes] \subseteq UNION {[1 .. m -> Bytes] : m \in Nat}
      <4> DEFINE Of(m) == [1 .. m -> Bytes]
      <4>1. Of(n) \in {Of(m) : m \in Nat}
        OBVIOUS
      <4> HIDE DEF Of
      <4>2. Of(n) \subseteq UNION {Of(m) : m \in Nat}
        BY <4>1, Zenon
      <4> QED
        BY <4>2 DEF Of
    <3> QED
      BY <3>1, SeqDef, Zenon
  <2> HIDE DEF text
  <2> QED
    BY <2>2, <2>4, <2>5
<1>2. Mrs!Says(domain) = IF Mrs!IsSuffixRule(text)
                         THEN IF apex = <<>> THEN {} ELSE {text, apex}
                         ELSE {text} \ {<<>>}
  BY DEF Mrs!Says, Mrs!Normalized, Mrs!IsSuffixRule
<1> HIDE DEF text, bare
<1>3. CASE Mrs!IsSuffixRule(text)
  <2>1. Len(text) \in Nat /\ Len(text) >= 2
    BY <1>1, <1>3 DEF Mrs!IsSuffixRule
  <2>2. apex \in Seq(Bytes) /\ (apex = <<>> <=> Len(text) = 2)
    <3>1. 3 \in Int /\ Len(text) \in Int /\ \A k \in 3 .. Len(text) : text[k] \in Bytes
      BY <1>1, <2>1
    <3>2. apex \in Seq(Bytes) /\ Len(apex) = IF 3 <= Len(text) THEN Len(text) - 3 + 1 ELSE 0
      BY <3>1, SubSeqProperties
    <3> HIDE DEF apex
    <3>3. Len(<<>>) = 0 /\ (apex # <<>> => Len(apex) # 0)
      BY <3>2, EmptySeq
    <3>4. Len(apex) = Len(text) - 2
      <4>1. \A l, t \in Nat : t >= 2 /\ l = (IF 3 <= t THEN t - 3 + 1 ELSE 0) => l = t - 2
        OBVIOUS
      <4>2. Len(apex) \in Nat
        BY <3>2, LenProperties
      <4> QED
        BY <2>1, <3>2, <4>1, <4>2, Zenon
    <3>5. apex = <<>> <=> Len(apex) = 0
      BY <3>3, Zenon
    <3> QED
      BY <2>1, <3>2, <3>4, <3>5
  <2> HIDE DEF apex
  <2>3. CASE Len(text) = 2
    <3>1. Mrs!Says(domain) = {} /\ Mrs!WithDomain(list, text) = list
      BY <1>2, <1>3, <2>2, <2>3 DEF Mrs!WithDomain
    <3> QED
      BY <3>1 DEF Reversed, text
  <2>4. CASE Len(text) # 2
    <3> DEFINE one == Mrs!Inserted(list, Mrs!Reverse(apex))
               two == Mrs!Inserted(one, Mrs!Reverse(text))
    <3>1. Mrs!Says(domain) = {text, apex} /\ Mrs!WithDomain(list, text) = two
      BY <1>2, <1>3, <2>2, <2>4 DEF Mrs!WithDomain, apex
    <3>2. Mrs!Reverse(apex) \in Seq(Bytes) /\ Mrs!Reverse(text) \in Seq(Bytes)
      BY <1>1, <2>2, ReverseTwice
    <3>3. /\ one \in Seq(Seq(Bytes)) /\ Rising(one)
          /\ Elements(one) = Elements(list) \cup {Mrs!Reverse(apex)}
      BY <3>2, InsertedKeeps
    <3> HIDE DEF one
    <3>4. /\ two \in Seq(Seq(Bytes)) /\ Rising(two)
          /\ Elements(two) = Elements(one) \cup {Mrs!Reverse(text)}
      BY <3>2, <3>3, InsertedKeeps
    <3> HIDE DEF two
    <3>5. Elements(two) = Elements(list) \cup Reversed({text, apex})
      BY <3>3, <3>4 DEF Reversed
    <3> QED
      BY <1>1, <2>2, <3>1, <3>4, <3>5 DEF text
  <2> QED
    BY <2>3, <2>4
<1>4. CASE ~Mrs!IsSuffixRule(text) /\ text = <<>>
  <2>1. Mrs!Says(domain) = {} /\ Mrs!WithDomain(list, text) = list
    BY <1>2, <1>4 DEF Mrs!WithDomain
  <2> QED
    BY <2>1 DEF Reversed, text
<1>5. CASE ~Mrs!IsSuffixRule(text) /\ text # <<>>
  <2>1. Mrs!Says(domain) = {text} /\ Mrs!WithDomain(list, text) = Mrs!Inserted(list, Mrs!Reverse(text))
    BY <1>2, <1>5 DEF Mrs!WithDomain
  <2>2. Mrs!Reverse(text) \in Seq(Bytes)
    BY <1>1, ReverseTwice
  <2>3. /\ Mrs!Inserted(list, Mrs!Reverse(text)) \in Seq(Seq(Bytes))
        /\ Rising(Mrs!Inserted(list, Mrs!Reverse(text)))
        /\ Elements(Mrs!Inserted(list, Mrs!Reverse(text))) = Elements(list) \cup {Mrs!Reverse(text)}
    BY <2>2, InsertedKeeps
  <2>4. Reversed({text}) = {Mrs!Reverse(text)}
    BY DEF Reversed
  <2> QED
    BY <1>1, <2>1, <2>3, <2>4 DEF text
<1> QED
  BY <1>3, <1>4, <1>5

-----------------------------------------------------------------------------
(* MrsPayload: bitmaps, and the ones below an index. *)

Bitmap(map) == map \in Seq(SUBSET Nat)

\* set_bit sets its bit and no other, in whichever word it is.
LEMMA SetBitSets ==
  ASSUME Mrs!MrsAssumption, NEW map, Bitmap(map), NEW at \in Nat
  PROVE  /\ Bitmap(Mrs!SetBit(map, at))
         /\ \A j \in Nat : Mrs!IsSet(Mrs!SetBit(map, at), j) <=> Mrs!IsSet(map, j) \/ j = at
<1> DEFINE W == WordBits
           word == at \div W + 1
           N == IF word > Len(map) THEN word ELSE Len(map)
           more == [w \in 1 .. N |-> (IF w \in DOMAIN map THEN map[w] ELSE {})
                                     \cup (IF w = word THEN {at % W} ELSE {})]
<1>1. W \in Nat \ {0}
  BY DEF Mrs!MrsAssumption
<1>2. /\ at \div W \in Nat /\ at % W \in 0 .. W - 1
      /\ at = W * (at \div W) + (at % W)
  BY <1>1, Division
<1>3. /\ word \in Nat \ {0} /\ Len(map) \in Nat /\ DOMAIN map = 1 .. Len(map)
      /\ \A w \in 1 .. Len(map) : map[w] \in SUBSET Nat
  BY <1>2 DEF Bitmap
<1>4. Mrs!SetBit(map, at) = more
  BY DEF Mrs!SetBit
<1> HIDE DEF word
<1>5. N \in Nat /\ word \in 1 .. N /\ DOMAIN map \subseteq 1 .. N
  BY <1>3
<1> HIDE DEF N
<1>6. \A w \in 1 .. N : more[w] \in SUBSET Nat
  BY <1>1, <1>2, <1>3
<1>7. more \in Seq(SUBSET Nat) /\ DOMAIN more = 1 .. N
  BY <1>5, <1>6
<1>8. ASSUME NEW j \in Nat
      PROVE  Mrs!IsSet(more, j) <=> Mrs!IsSet(map, j) \/ j = at
  <2> DEFINE v == j \div W + 1
             bit == j % W
  <2>1. j \div W \in Nat /\ bit \in 0 .. W - 1 /\ j = W * (j \div W) + bit
    BY <1>1, Division
  <2>2. v \in Nat \ {0}
    BY <2>1
  <2>3. j = at <=> v = word /\ bit = at % W
    BY <1>2, <2>1 DEF word
  <2>4. Mrs!IsSet(map, j) <=> v \in DOMAIN map /\ bit \in map[v]
    BY DEF Mrs!IsSet
  <2>5. Mrs!IsSet(more, j) <=> v \in DOMAIN more /\ bit \in more[v]
    BY DEF Mrs!IsSet
  <2> HIDE DEF v, bit
  <2>6. v \in 1 .. N => (bit \in more[v] <=> (v \in DOMAIN map /\ bit \in map[v])
                                             \/ (v = word /\ bit = at % W))
    OBVIOUS
  <2> HIDE DEF more
  <2> QED
    BY <1>5, <1>7, <2>3, <2>4, <2>5, <2>6
<1> QED
  BY <1>4, <1>7, <1>8 DEF Bitmap

\* In no words no bit is set.
LEMMA NothingSet == Bitmap(<<>>) /\ \A j \in Nat : ~Mrs!IsSet(<<>>, j)
  BY DEF Bitmap, Mrs!IsSet

\* Counting ones is a cardinality, ...
LEMMA OnesAre ==
  ASSUME NEW map, NEW i \in Nat
  PROVE  Mrs!OnesBelow(map, i) = Cardinality({j \in 0 .. i - 1 : Mrs!IsSet(map, j)})
  BY DEF Mrs!OnesBelow, Mrs!Cardinality, Cardinality

\* ... hence a number.
LEMMA OnesType ==
  ASSUME NEW map, NEW i \in Nat
  PROVE  Mrs!OnesBelow(map, i) \in Nat
<1> DEFINE ones == {j \in 0 .. i - 1 : Mrs!IsSet(map, j)}
<1>1. IsFiniteSet(0 .. i - 1)
  BY FS_Interval
<1>2. IsFiniteSet(ones)
  BY <1>1, FS_Subset
<1> QED
  BY <1>2, FS_CardinalityType, OnesAre

\* The zeros below an index become more with every zero.
LEMMA ZerosRise ==
  ASSUME NEW map, NEW i \in Nat, NEW j \in Nat, i < j, ~Mrs!IsSet(map, i)
  PROVE  i - Mrs!OnesBelow(map, i) < j - Mrs!OnesBelow(map, j)
<1> DEFINE ones(n) == {k \in 0 .. n - 1 : Mrs!IsSet(map, k)}
           between == i + 1 .. j - 1
<1>1. ones(j) \subseteq ones(i) \cup between
  OBVIOUS
<1>2. IsFiniteSet(ones(i)) /\ IsFiniteSet(between)
  <2>1. IsFiniteSet(0 .. i - 1) /\ IsFiniteSet(i + 1 .. j - 1)
    BY FS_Interval
  <2> QED
    BY <2>1, FS_Subset
<1>3. Cardinality(between) = j - 1 - i
  BY FS_Interval
<1>4. /\ IsFiniteSet(ones(i) \cup between)
      /\ Cardinality(ones(i) \cup between) =
            Cardinality(ones(i)) + Cardinality(between) - Cardinality(ones(i) \cap between)
  BY <1>2, FS_Union
<1>5. Cardinality(ones(j)) <= Cardinality(ones(i) \cup between)
  BY <1>1, <1>4, FS_Subset
<1>6. ones(i) \cap between = {} /\ Cardinality({}) = 0
  BY FS_EmptySet
<1>7. Cardinality(ones(i)) = Mrs!OnesBelow(map, i) /\ Cardinality(ones(j)) = Mrs!OnesBelow(map, j)
  BY OnesAre
<1>8. Mrs!OnesBelow(map, i) \in Nat /\ Mrs!OnesBelow(map, j) \in Nat
  BY OnesType
<1>9. Cardinality(ones(i) \cap between) = 0
  BY <1>6
<1> HIDE DEF ones, between
<1>10. Mrs!OnesBelow(map, j) <= Mrs!OnesBelow(map, i) + (j - 1 - i)
  BY <1>3, <1>4, <1>5, <1>7, <1>8, <1>9
<1> QED
  BY <1>8, <1>10

\* Bits from i on are not counted below it.
LEMMA OnesUnchanged ==
  ASSUME NEW map, NEW more, NEW i \in Nat,
         \A j \in 0 .. i - 1 : Mrs!IsSet(more, j) <=> Mrs!IsSet(map, j)
  PROVE  Mrs!OnesBelow(more, i) = Mrs!OnesBelow(map, i)
<1>1. {j \in 0 .. i - 1 : Mrs!IsSet(more, j)} = {j \in 0 .. i - 1 : Mrs!IsSet(map, j)}
  OBVIOUS
<1> QED
  BY <1>1, OnesAre

\* Zeros between two indices add nothing, and a one adds itself.
LEMMA OnesGrow ==
  ASSUME NEW map, NEW i \in Nat, NEW j \in Nat, i <= j,
         \A k \in i .. j - 1 : ~Mrs!IsSet(map, k)
  PROVE  /\ Mrs!OnesBelow(map, j) = Mrs!OnesBelow(map, i)
         /\ Mrs!IsSet(map, j) => Mrs!OnesBelow(map, j + 1) = Mrs!OnesBelow(map, j) + 1
<1> DEFINE ones(n) == {k \in 0 .. n - 1 : Mrs!IsSet(map, k)}
<1>1. ones(j) = ones(i)
  OBVIOUS
<1>2. Mrs!IsSet(map, j) => ones(j + 1) = ones(j) \cup {j}
  OBVIOUS
<1>3. IsFiniteSet(ones(j)) /\ j \notin ones(j)
  <2>1. IsFiniteSet(0 .. j - 1)
    BY FS_Interval
  <2> QED
    BY <2>1, FS_Subset
<1>4. Cardinality(ones(j) \cup {j}) = Cardinality(ones(j)) + 1
  BY <1>3, FS_AddElement
<1>5. \A n \in Nat : Mrs!OnesBelow(map, n) = Cardinality(ones(n))
  BY OnesAre
<1> HIDE DEF ones
<1>6. j + 1 \in Nat
  OBVIOUS
<1> QED
  BY <1>1, <1>2, <1>4, <1>5, <1>6

-----------------------------------------------------------------------------
(* MrsPayload: the walk.  A part is a range of keys that share as many      *)
(* characters as its column says.                                           *)

\* What the queue holds: indices of the first and last key, and the column.
Parts == [first : Nat, last : Nat, column : Nat]

IsPart(part, list) ==
    /\ part \in Parts
    /\ 1 <= part.first /\ part.first <= part.last /\ part.last <= Len(list)
    /\ \A k \in part.first .. part.last :
          part.column <= Len(list[k]) /\ Mrs!Agree(list[part.first], list[k], part.column)

\* The groups of a part are parts, a character longer, with every key that goes on.
LEMMA GroupsCut ==
  ASSUME keys \in Seq(Seq(Bytes)), NEW part, IsPart(part, keys),
         NEW start \in {part.first, part.first + 1},
         \A k \in start .. part.last : part.column < Len(keys[k])
  PROVE  LET groups == Mrs!Groups(part, start)
         IN /\ groups \in Seq(Parts)
            /\ \A g \in DOMAIN groups :
                  /\ IsPart(groups[g], keys) /\ groups[g].column = part.column + 1
                  /\ groups[g].first \in start .. part.last
            /\ \A k \in start .. part.last :
                  \E g \in DOMAIN groups : groups[g].first <= k /\ k <= groups[g].last
<1> DEFINE N == part.last
           c == part.column + 1
           cuts == {k \in start .. N : k = start \/ keys[k][c] # keys[k - 1][c]}
           upTo == [k \in 1 .. N |-> k]
           starts == Filter(upTo, cuts)
           G == Len(starts)
           end(g) == IF g = G THEN N ELSE starts[g + 1] - 1
           groups == [g \in 1 .. G |-> [first |-> starts[g], last |-> end(g), column |-> c]]
<1>1. /\ N \in Nat /\ c \in Nat /\ start \in Nat /\ 1 <= start
      /\ part.first \in Nat /\ part.column \in Nat /\ part.first <= start /\ N <= Len(keys)
      /\ \A k \in start .. N : k \in part.first .. N /\ k \in 1 .. Len(keys)
  <2>1. part \in Parts /\ 1 <= part.first /\ part.first <= part.last /\ part.last <= Len(keys)
    BY DEF IsPart
  <2>2. part.first \in Nat /\ part.last \in Nat /\ part.column \in Nat
    BY <2>1 DEF Parts
  <2> QED
    BY <2>1, <2>2
<1>15. N \in Nat /\ start \in Nat
  BY <1>1
<1>2. upTo \in Seq(Nat) /\ DOMAIN upTo = 1 .. N /\ \A k \in 1 .. N : upTo[k] = k
  BY <1>1
<1> HIDE DEF upTo
<1>3. starts \in Seq(Nat) /\ {starts[g] : g \in DOMAIN starts} = cuts
  <2>1. starts \in Seq(Nat \cap cuts) /\ Range(starts) = Range(upTo) \cap cuts
    BY <1>2, FilterElements
  <2>2. cuts \subseteq 1 .. N
    BY <1>1
  <2>3. Range(upTo) = 1 .. N
    BY <1>2 DEF Range
  <2> HIDE DEF starts, cuts
  <2>4. starts \in Seq(Nat)
    BY <2>1, SeqMonotonic
  <2>5. Range(starts) = cuts
    BY <2>1, <2>2, <2>3
  <2> QED
    BY <2>4, <2>5, Zenon DEF Range
<1>4. \A i, j \in DOMAIN starts : i < j => starts[i] < starts[j]
  <2>1. \A i, j \in DOMAIN upTo : i < j => upTo[i] < upTo[j]
    BY <1>2
  <2> QED
    BY <1>2, <2>1, FilterOrder
<1>5. Mrs!Groups(part, start) = groups
  <2>1. Filter(upTo, cuts) = Mrs!Filter(upTo, cuts)
    BY Zenon DEF Mrs!Filter, Filter, Mrs!Among, Among
  <2>2. DOMAIN starts = 1 .. G
    BY <1>3
  <2> HIDE DEF groups
  <2>3. Mrs!Groups(part, start) =
           [g \in DOMAIN starts |-> [first |-> starts[g], last |-> end(g), column |-> c]]
    BY <2>1, Zenon DEF Mrs!Groups, upTo
  <2> QED
    BY <2>2, <2>3 DEF groups
<1> HIDE DEF starts
<1>6. /\ G \in Nat /\ DOMAIN starts = 1 .. G /\ \A g \in 1 .. G : starts[g] \in cuts
      /\ \A k \in cuts : \E g \in 1 .. G : starts[g] = k
  <2>1. G \in Nat /\ DOMAIN starts = 1 .. G
    BY <1>3
  <2> QED
    BY <1>3, <2>1, Zenon
<1>7. /\ \A g \in 1 .. G : starts[g] \in Nat /\ start <= starts[g] /\ starts[g] <= N
      /\ \A i, j \in 1 .. G : i < j => starts[i] < starts[j]
      /\ start <= N => start \in cuts
  <2>1. \A k \in cuts : k \in Nat /\ start <= k /\ k <= N
    BY <1>1
  <2>2. start <= N => start \in cuts
    BY <1>1
  <2> HIDE DEF G, cuts
  <2>3. \A g \in 1 .. G : starts[g] \in Nat /\ start <= starts[g] /\ starts[g] <= N
    BY <1>6, <2>1
  <2>4. \A i, j \in 1 .. G : i < j => starts[i] < starts[j]
    BY <1>4, <1>6
  <2> QED
    BY <2>2, <2>3, <2>4
<1> HIDE DEF G, cuts
<1>12. ASSUME NEW g \in 1 .. G
       PROVE  /\ starts[g] \in start .. N /\ end(g) \in starts[g] .. N
              /\ \A k \in starts[g] + 1 .. end(g) : k \notin cuts
  <2>1. \A h \in 1 .. G : starts[h] > starts[g] => h > g
    <3> SUFFICES ASSUME NEW h \in 1 .. G, starts[h] > starts[g], h <= g PROVE FALSE
      BY <1>6
    <3>1. h = g \/ starts[h] < starts[g]
      BY <1>6, <1>7
    <3>2. starts[h] \in Nat /\ starts[g] \in Nat
      BY <1>7
    <3> QED
      BY <3>1, <3>2
  <2>2. CASE g = G
    <3>1. end(g) = N
      BY <2>2
    <3>2. \A h \in 1 .. G : ~(starts[h] > starts[g])
      BY <1>6, <2>1, <2>2
    <3>3. \A k \in starts[g] + 1 .. N : k \notin cuts
      <4> SUFFICES ASSUME NEW k \in starts[g] + 1 .. N, k \in cuts PROVE FALSE
        OBVIOUS
      <4>1. PICK h \in 1 .. G : starts[h] = k
        BY <1>6
      <4>2. k > starts[g]
        BY <1>1, <1>7
      <4> QED
        BY <3>2, <4>1, <4>2
    <3>4. starts[g] \in start .. N /\ N \in starts[g] .. N
      BY <1>1, <1>7
    <3> QED
      BY <3>1, <3>3, <3>4
  <2>3. CASE g # G
    <3>1. g + 1 \in 1 .. G /\ end(g) = starts[g + 1] - 1
      BY <1>6, <2>3
    <3>2. /\ starts[g] < starts[g + 1] /\ starts[g] \in Nat /\ starts[g + 1] \in Nat
          /\ start <= starts[g] /\ starts[g + 1] <= N
      BY <1>6, <1>7, <3>1
    <3>3. \A k \in starts[g] + 1 .. starts[g + 1] - 1 : k \notin cuts
      <4> SUFFICES ASSUME NEW k \in starts[g] + 1 .. starts[g + 1] - 1, k \in cuts PROVE FALSE
        OBVIOUS
      <4>1. PICK h \in 1 .. G : starts[h] = k
        BY <1>6
      <4>2. starts[h] > starts[g] /\ starts[h] < starts[g + 1]
        BY <3>2, <4>1
      <4>3. h > g /\ (h = g + 1 \/ h > g + 1)
        BY <1>6, <2>1, <4>2
      <4>4. h > g + 1 => starts[g + 1] < starts[h]
        BY <1>7, <3>1
      <4>5. starts[h] \in Nat
        BY <1>7
      <4>6. CASE h = g + 1
        <5>1. starts[h] = starts[g + 1]
          BY <4>6
        <5> QED
          BY <3>2, <4>2, <4>5, <5>1
      <4>7. CASE h > g + 1
        BY <3>2, <4>2, <4>4, <4>5, <4>7
      <4> QED
        BY <4>3, <4>6, <4>7
    <3>4. starts[g] \in start .. N /\ starts[g + 1] - 1 \in starts[g] .. N
      BY <1>15, <3>2
    <3> QED
      BY <3>1, <3>3, <3>4
  <2> QED
    BY <2>2, <2>3
<1>14. \A g \in 1 .. G : /\ starts[g] \in Nat /\ end(g) \in Nat
                         /\ start <= starts[g] /\ starts[g] <= end(g) /\ end(g) <= N
  <2> SUFFICES ASSUME NEW g \in 1 .. G
               PROVE  /\ starts[g] \in Nat /\ end(g) \in Nat
                      /\ start <= starts[g] /\ starts[g] <= end(g) /\ end(g) <= N
    OBVIOUS
  <2>1. starts[g] \in start .. N /\ end(g) \in starts[g] .. N
    BY <1>12
  <2> QED
    BY <1>1, <1>7, <2>1
<1> HIDE DEF end
<1>8. \A g \in 1 .. G : /\ groups[g] \in Parts /\ groups[g].column = c
                        /\ groups[g].first = starts[g] /\ groups[g].last = end(g)
  <2> SUFFICES ASSUME NEW g \in 1 .. G
               PROVE  /\ groups[g] \in Parts /\ groups[g].column = c
                      /\ groups[g].first = starts[g] /\ groups[g].last = end(g)
    OBVIOUS
  <2>1. starts[g] \in Nat /\ end(g) \in Nat
    BY <1>14
  <2> QED
    BY <1>1, <2>1 DEF Parts
<1>9. groups \in Seq(Parts) /\ DOMAIN groups = 1 .. G
  BY <1>6, <1>8
<1> HIDE DEF groups
<1>10. ASSUME NEW g \in 1 .. G PROVE IsPart(groups[g], keys)
  <2> DEFINE low == starts[g]
             high == end(g)
             T == {k \in 0 .. high - low : keys[low + k][c] = keys[low][c]}
  <2>1. /\ low \in start .. N /\ high \in low .. N /\ low \in Nat /\ high \in Nat
        /\ \A k \in low + 1 .. high : k \notin cuts
    BY <1>1, <1>12, <1>14
  <2> HIDE DEF low, high
  <2>2. high - low \in Nat /\ 0 \in T
    BY <2>1
  <2>3. ASSUME NEW k \in 0 .. (high - low) - 1, k \in T PROVE k + 1 \in T
    <3>1. /\ low + (k + 1) \in low + 1 .. high /\ low + (k + 1) \in start .. N
          /\ (low + (k + 1)) - 1 = low + k /\ low + (k + 1) # start /\ k + 1 \in 0 .. high - low
      BY <1>1, <2>1
    <3>2. keys[low + (k + 1)][c] = keys[low + k][c]
      BY <2>1, <3>1 DEF cuts
    <3> QED
      BY <2>3, <3>1, <3>2
  <2>4. \A k \in 0 .. high - low : k \in T
    <3> HIDE DEF T
    <3> QED
      BY <2>2, <2>3, BoundedInduction
  <2>5. ASSUME NEW k \in low .. high
        PROVE  c <= Len(keys[k]) /\ Mrs!Agree(keys[low], keys[k], c)
    <3>1. /\ k - low \in 0 .. high - low /\ low + (k - low) = k /\ k \in start .. N
          /\ k \in part.first .. N /\ low \in part.first .. N /\ k \in 1 .. Len(keys)
      <4>1. low \in Nat /\ high \in Nat /\ low \in start .. N /\ high <= N
        BY <1>15, <2>1
      <4>2. /\ k - low \in 0 .. high - low /\ low + (k - low) = k /\ k \in start .. N
        BY <1>15, <4>1
      <4> QED
        BY <1>1, <4>1, <4>2
    <3>2. keys[k][c] = keys[low][c]
      BY <2>4, <3>1
    <3>3. part.column < Len(keys[k]) /\ Len(keys[k]) \in Nat
      BY <3>1
    <3>4. Mrs!Agree(keys[part.first], keys[k], part.column) /\ Mrs!Agree(keys[part.first], keys[low], part.column)
      BY <3>1 DEF IsPart
    <3>5. c \in Nat /\ \A i \in 1 .. c : i \in 1 .. part.column \/ i = c
      BY <1>1
    <3>6. Mrs!Agree(keys[low], keys[k], c)
      BY <3>2, <3>4, <3>5 DEF Mrs!Agree
    <3> QED
      BY <1>1, <3>3, <3>6
  <2>6. 1 <= low /\ low <= high /\ high <= Len(keys)
    BY <1>1, <2>1
  <2> QED
    BY <1>8, <2>5, <2>6 DEF IsPart, low, high
<1>11. ASSUME NEW k \in start .. N
       PROVE  \E g \in 1 .. G : starts[g] <= k /\ k <= end(g)
  <2> DEFINE InGroup(m) == \E g \in 1 .. G : starts[g] <= m /\ m <= end(g)
             T == {m \in 0 .. N - start : InGroup(start + m)}
  <2>1. N - start \in Nat /\ start + 0 = start /\ start <= N
    BY <1>1
  <2>2. InGroup(start)
    <3>1. PICK g \in 1 .. G : starts[g] = start
      BY <1>6, <1>7, <2>1
    <3>2. starts[g] <= start /\ start <= end(g)
      BY <1>1, <1>14, <3>1
    <3> QED
      BY <3>2
  <2>3. ASSUME NEW m \in start .. N - 1, InGroup(m) PROVE InGroup(m + 1)
    <3>1. PICK g \in 1 .. G : starts[g] <= m /\ m <= end(g)
      BY <2>3
    <3>2. m \in Nat /\ m < N /\ starts[g] \in Nat /\ end(g) \in Nat /\ end(g) <= N
      BY <1>1, <1>14
    <3>3. CASE m < end(g)
      <4>1. starts[g] <= m + 1 /\ m + 1 <= end(g)
        BY <3>1, <3>2, <3>3
      <4> QED
        BY <4>1
    <3>4. CASE m = end(g)
      <4>1. g # G
        BY <1>1, <3>2, <3>4 DEF end
      <4>2. g + 1 \in 1 .. G /\ end(g) = starts[g + 1] - 1
        BY <1>6, <4>1 DEF end
      <4>3. /\ starts[g + 1] \in Nat /\ end(g + 1) \in Nat
            /\ starts[g + 1] <= end(g + 1)
        BY <1>14, <4>2
      <4>4. starts[g + 1] <= m + 1 /\ m + 1 <= end(g + 1)
        BY <3>2, <3>4, <4>2, <4>3
      <4> QED
        BY <4>2, <4>4
    <3> QED
      BY <3>1, <3>2, <3>3, <3>4
  <2> HIDE DEF InGroup
  <2>4. 0 \in T
    BY <2>1, <2>2
  <2>5. ASSUME NEW m \in 0 .. (N - start) - 1, m \in T PROVE m + 1 \in T
    <3>1. start + m \in start .. N - 1 /\ start + (m + 1) = (start + m) + 1 /\ m + 1 \in 0 .. N - start
      BY <1>15, <2>1
    <3> QED
      BY <2>3, <2>5, <3>1
  <2>6. \A m \in 0 .. N - start : m \in T
    <3> HIDE DEF T
    <3> QED
      BY <2>1, <2>4, <2>5, BoundedInduction
  <2>7. k - start \in 0 .. N - start /\ start + (k - start) = k
    BY <1>1
  <2>8. InGroup(k)
    BY <2>6, <2>7
  <2> QED
    BY <2>8 DEF InGroup
<1>13. \A g \in 1 .. G : groups[g].first \in start .. N
  BY <1>8, <1>14, <1>15
<1> QED
  BY <1>5, <1>8, <1>9, <1>10, <1>11, <1>13

-----------------------------------------------------------------------------
(* MrsPayload: what holds between two visits.  The parts are those of all   *)
(* nodes in the order in which they were queued, the first n visited.       *)

\* The first part is that of the root, and each is one.
PartsFrom(parts, list) ==
    /\ parts \in Seq(Parts) /\ parts # <<>> /\ parts[1].column = 0
    /\ \A m \in DOMAIN parts : IsPart(parts[m], list)

\* What waits are the parts of the nodes after the first n.
Queued(parts, waiting, n) ==
    /\ n \in Nat /\ waiting \in Seq(Parts) /\ Len(parts) = n + Len(waiting)
    /\ \A k \in 1 .. Len(waiting) : waiting[k] = parts[n + k]

\* One bit is set for each visited node, before the end.
Marked(map, end, n) ==
    /\ Bitmap(map) /\ end \in Nat
    /\ \A j \in Nat : Mrs!IsSet(map, j) => j < end
    /\ Mrs!OnesBelow(map, end) = n

\* A part of a child, under the label that leads to it.
Child(above, below, label, list) ==
    /\ below.column = above.column + 1
    /\ above.first <= below.first /\ below.first <= above.last
    /\ label = list[below.first][below.column]

\* The label of node m is the m-th zero, behind as many ones as its parent's number.
LabelledAt(m, p, i, parts, list, map, label) ==
    /\ ~Mrs!IsSet(map, i) /\ Mrs!OnesBelow(map, i) = p /\ i - p = m - 1
    /\ Child(parts[p + 1], parts[m + 1], label, list)

\* Every node but the root has its label, which its parent has written.
Labelled(parts, list, map, end, chars, n) ==
    /\ chars \in Seq(Bytes) /\ Len(chars) = Len(parts) - 1 /\ end = (n + Len(parts)) - 1
    /\ \A m \in 1 .. Len(parts) - 1 :
          \E p \in 0 .. n - 1, i \in 0 .. end - 1 :
             p < m /\ LabelledAt(m, p, i, parts, list, map, chars[m])

\* The first key of a part ends at its node.
IsLeaf(part, list) == Len(list[part.first]) = part.column

\* The leaves are the visited nodes at which a key ends.
Ended(parts, list, map, n) ==
    /\ Bitmap(map)
    /\ \A m \in Nat : Mrs!IsSet(map, m) <=> m < n /\ IsLeaf(parts[m + 1], list)

\* Every key has ended at a visited node or is in the part of one that waits.
Reached(parts, list, n) ==
    \A k \in DOMAIN list :
       \/ \E m \in 0 .. n - 1 : parts[m + 1].first = k /\ IsLeaf(parts[m + 1], list)
       \/ \E m \in n .. Len(parts) - 1 : parts[m + 1].first <= k /\ k <= parts[m + 1].last

\* Groups that divide what is left of a part.
Cut(groups, part, start, list) ==
    /\ groups \in Seq(Parts)
    /\ \A g \in DOMAIN groups :
          /\ IsPart(groups[g], list) /\ groups[g].column = part.column + 1
          /\ groups[g].first \in start .. part.last
    /\ \A k \in start .. part.last :
          \E g \in DOMAIN groups : groups[g].first <= k /\ k <= groups[g].last

\* The first key that goes on.
StartOf(part, list) == IF IsLeaf(part, list) THEN part.first + 1 ELSE part.first

\* In a part only the first key can end, as no key is preceded by a longer one.
LEMMA PartsAreCut ==
  ASSUME Mrs!MrsAssumption, keys \in Seq(Seq(Bytes)), Rising(keys), NEW part, IsPart(part, keys)
  PROVE  Cut(Mrs!Groups(part, StartOf(part, keys)), part, StartOf(part, keys), keys)
<1> DEFINE c == part.column
           start == StartOf(part, keys)
<1>1. /\ part.first \in Nat /\ part.last \in Nat /\ c \in Nat
      /\ part.first \in 1 .. Len(keys) /\ part.last <= Len(keys)
      /\ c <= Len(keys[part.first])
  <2>1. part \in Parts /\ 1 <= part.first /\ part.first <= part.last /\ part.last <= Len(keys)
    BY DEF IsPart
  <2>2. part.first \in Nat /\ part.last \in Nat /\ c \in Nat
    BY <2>1 DEF Parts
  <2>3. part.first \in part.first .. part.last
    BY <2>1, <2>2
  <2>4. c <= Len(keys[part.first])
    BY <2>3 DEF IsPart
  <2> QED
    BY <2>1, <2>2, <2>4
<1>2. start \in {part.first, part.first + 1}
  BY DEF StartOf
<1>3. ASSUME NEW k \in start .. part.last PROVE c < Len(keys[k])
  <2>1. k \in Nat /\ part.first <= k /\ k \in 1 .. Len(keys) /\ k \in part.first .. part.last
    BY <1>1, <1>2
  <2>2. keys[k] \in Seq(Bytes) /\ keys[part.first] \in Seq(Bytes)
    BY <1>1, <2>1
  <2>3. Len(keys[k]) \in Nat /\ Len(keys[part.first]) \in Nat
    BY <2>2
  <2>4. c <= Len(keys[k]) /\ Mrs!Agree(keys[part.first], keys[k], c)
    BY <2>1 DEF IsPart
  <2>5. CASE k = part.first
    <3>1. ~(Len(keys[part.first]) = c)
      BY <1>1, <2>1, <2>5 DEF StartOf, IsLeaf
    <3> QED
      BY <1>1, <2>3, <2>5, <3>1
  <2>6. CASE part.first < k
    <3>1. ~Mrs!Before(keys[k], keys[part.first]) /\ keys[k] # keys[part.first]
      BY <1>1, <2>1, <2>6 DEF Rising
    <3>2. SUFFICES ASSUME Len(keys[k]) = c PROVE FALSE
      BY <1>1, <2>3, <2>4
    <3>3. Mrs!Agree(keys[k], keys[part.first], c)
      BY <2>4 DEF Mrs!Agree
    <3>4. Len(keys[part.first]) = c
      <4>1. ~(Len(keys[k]) < Len(keys[part.first]))
        BY <3>1, <3>2, <3>3 DEF Mrs!Before
      <4> QED
        BY <1>1, <2>3, <3>2, <4>1
    <3>5. \A i \in 1 .. c : keys[k][i] = keys[part.first][i]
      BY <3>3 DEF Mrs!Agree
    <3>6. keys[k] = keys[part.first]
      <4>1. /\ keys[k] = [i \in 1 .. Len(keys[k]) |-> keys[k][i]]
            /\ keys[part.first] = [i \in 1 .. Len(keys[part.first]) |-> keys[part.first][i]]
        BY <2>2
      <4> QED
        BY <3>2, <3>4, <3>5, <4>1
    <3> QED
      BY <3>1, <3>6
  <2> QED
    BY <1>1, <2>1, <2>5, <2>6
<1> HIDE DEF start
<1>4. LET groups == Mrs!Groups(part, start)
      IN /\ groups \in Seq(Parts)
         /\ \A g \in DOMAIN groups :
               /\ IsPart(groups[g], keys) /\ groups[g].column = part.column + 1
               /\ groups[g].first \in start .. part.last
         /\ \A k \in start .. part.last :
               \E g \in DOMAIN groups : groups[g].first <= k /\ k <= groups[g].last
  BY <1>2, <1>3, GroupsCut
<1>5. Cut(Mrs!Groups(part, start), part, start, keys)
  BY <1>4, Zenon DEF Cut
<1> QED
  BY <1>5 DEF start

\* The number of a group among the parts, and of its label.
LEMMA PartsGrow ==
  ASSUME NEW list, NEW parts, PartsFrom(parts, list), NEW groups \in Seq(Parts),
         \A g \in DOMAIN groups : IsPart(groups[g], list)
  PROVE  LET more == parts \o groups
         IN /\ PartsFrom(more, list) /\ Len(more) = Len(parts) + Len(groups)
            /\ \A m \in 1 .. Len(parts) : more[m] = parts[m]
            /\ \A g \in 1 .. Len(groups) : more[Len(parts) + g] = groups[g]
<1> DEFINE more == parts \o groups
<1>1. /\ parts \in Seq(Parts) /\ Len(parts) \in Nat /\ DOMAIN parts = 1 .. Len(parts)
      /\ Len(groups) \in Nat /\ DOMAIN groups = 1 .. Len(groups)
  BY DEF PartsFrom
<1>2. /\ more \in Seq(Parts) /\ Len(more) = Len(parts) + Len(groups)
      /\ DOMAIN more = 1 .. Len(parts) + Len(groups)
  BY <1>1
<1>3. \A m \in 1 .. Len(parts) : more[m] = parts[m]
  BY <1>1
<1>4. \A g \in 1 .. Len(groups) : more[Len(parts) + g] = groups[g]
  BY <1>1
<1> HIDE DEF more
<1>5. parts # <<>> /\ 1 \in 1 .. Len(parts)
  BY <1>1 DEF PartsFrom
<1>6. more # <<>> /\ more[1].column = 0
  BY <1>1, <1>2, <1>3, <1>5 DEF PartsFrom
<1>7. ASSUME NEW m \in DOMAIN more PROVE IsPart(more[m], list)
  <2>1. CASE m \in 1 .. Len(parts)
    BY <1>1, <1>3, <2>1 DEF PartsFrom
  <2>2. CASE m \notin 1 .. Len(parts)
    <3>1. m - Len(parts) \in 1 .. Len(groups) /\ Len(parts) + (m - Len(parts)) = m
      BY <1>1, <1>2, <2>2
    <3>2. more[m] = groups[m - Len(parts)]
      BY <1>4, <3>1
    <3> QED
      BY <1>1, <3>1, <3>2
  <2> QED
    BY <2>1, <2>2
<1>8. PartsFrom(more, list)
  BY <1>2, <1>6, <1>7 DEF PartsFrom
<1> QED
  BY <1>2, <1>3, <1>4, <1>8 DEF more

\* A node leaves the front of the queue, and its children join the end.
LEMMA QueueGoesOn ==
  ASSUME NEW parts \in Seq(Parts), NEW waiting, NEW n, Queued(parts, waiting, n), waiting # <<>>,
         NEW groups \in Seq(Parts)
  PROVE  /\ Queued(parts \o groups, Tail(waiting) \o groups, n + 1)
         /\ n < Len(parts) /\ Head(waiting) = parts[n + 1] /\ n + 1 \in 1 .. Len(parts)
<1> DEFINE W == Len(waiting)
           P == Len(parts)
           G == Len(groups)
           rest == Tail(waiting) \o groups
           more == parts \o groups
<1>1. /\ n \in Nat /\ W \in Nat \ {0} /\ P = n + W /\ G \in Nat
      /\ \A k \in 1 .. W : waiting[k] = parts[n + k]
  BY DEF Queued
<1>2. waiting \in Seq(Parts) /\ Head(waiting) = waiting[1]
  BY DEF Queued
<1>3. /\ Tail(waiting) \in Seq(Parts) /\ Len(Tail(waiting)) = W - 1
      /\ \A k \in 1 .. W - 1 : Tail(waiting)[k] = waiting[k + 1]
  BY <1>1, <1>2
<1> HIDE DEF W
<1>4. /\ rest \in Seq(Parts) /\ Len(rest) = (W - 1) + G
      /\ \A k \in 1 .. W - 1 : rest[k] = Tail(waiting)[k]
      /\ \A g \in 1 .. G : rest[(W - 1) + g] = groups[g]
  <2> DEFINE tail == Tail(waiting)
  <2>1. tail \in Seq(Parts) /\ Len(tail) = W - 1
    BY <1>3
  <2> HIDE DEF tail
  <2>2. /\ tail \o groups \in Seq(Parts) /\ Len(tail \o groups) = Len(tail) + G
        /\ \A k \in 1 .. Len(tail) : (tail \o groups)[k] = tail[k]
        /\ \A g \in 1 .. G : (tail \o groups)[Len(tail) + g] = groups[g]
    BY <2>1
  <2> QED
    BY <2>1, <2>2 DEF tail
<1>5. /\ Len(more) = P + G /\ \A m \in 1 .. P : more[m] = parts[m]
      /\ \A g \in 1 .. G : more[P + g] = groups[g]
  BY <1>1
<1> HIDE DEF P, G, rest, more
<1>6. ASSUME NEW k \in 1 .. (W - 1) + G PROVE rest[k] = more[(n + 1) + k]
  <2>1. CASE k \in 1 .. W - 1
    <3>1. k + 1 \in 1 .. W /\ n + (k + 1) = (n + 1) + k /\ (n + 1) + k \in 1 .. P
      BY <1>1, <2>1
    <3>2. rest[k] = waiting[k + 1]
      BY <1>3, <1>4, <2>1
    <3>3. waiting[k + 1] = parts[(n + 1) + k]
      BY <1>1, <3>1
    <3>4. more[(n + 1) + k] = parts[(n + 1) + k]
      BY <1>5, <3>1
    <3> QED
      BY <3>2, <3>3, <3>4
  <2>2. CASE k \notin 1 .. W - 1
    <3> DEFINE g == k - (W - 1)
    <3>1. g \in 1 .. G /\ (W - 1) + g = k /\ P + g = (n + 1) + k
      BY <1>1, <2>2
    <3> HIDE DEF g
    <3> QED
      BY <1>4, <1>5, <3>1
  <2> QED
    BY <2>1, <2>2
<1>7. Len(more) = (n + 1) + Len(rest) /\ n + 1 \in Nat
  BY <1>1, <1>4, <1>5
<1>8. Queued(more, rest, n + 1)
  BY <1>4, <1>6, <1>7 DEF Queued
<1>9. n < P /\ n + 1 \in 1 .. P /\ 1 \in 1 .. W
  BY <1>1
<1>10. Head(waiting) = parts[n + 1]
  BY <1>1, <1>2, <1>9
<1> QED
  BY <1>8, <1>9, <1>10 DEF more, rest, P

\* A node's bit closes its labels.
LEMMA MarksGrow ==
  ASSUME Mrs!MrsAssumption, NEW map, NEW end, NEW n \in Nat, Marked(map, end, n), NEW G \in Nat
  PROVE  LET more == Mrs!SetBit(map, end + G)
         IN /\ Marked(more, (end + G) + 1, n + 1)
            /\ \A i \in 0 .. end - 1 :
                  /\ Mrs!IsSet(more, i) <=> Mrs!IsSet(map, i)
                  /\ Mrs!OnesBelow(more, i) = Mrs!OnesBelow(map, i)
            /\ \A i \in end .. (end + G) - 1 :
                  ~Mrs!IsSet(more, i) /\ Mrs!OnesBelow(more, i) = n
<1> DEFINE at == end + G
           more == Mrs!SetBit(map, at)
<1>1. /\ Bitmap(map) /\ end \in Nat /\ at \in Nat /\ end <= at
      /\ \A j \in Nat : Mrs!IsSet(map, j) => j < end
      /\ Mrs!OnesBelow(map, end) = n
  BY DEF Marked
<1>2. /\ Bitmap(more)
      /\ \A j \in Nat : Mrs!IsSet(more, j) <=> Mrs!IsSet(map, j) \/ j = at
  BY <1>1, SetBitSets
<1> HIDE DEF more
<1>3. \A i \in 0 .. end - 1 : Mrs!IsSet(more, i) <=> Mrs!IsSet(map, i)
  BY <1>1, <1>2
<1>4. ASSUME NEW i \in 0 .. end PROVE Mrs!OnesBelow(more, i) = Mrs!OnesBelow(map, i)
  <2>1. i \in Nat /\ \A j \in 0 .. i - 1 : Mrs!IsSet(more, j) <=> Mrs!IsSet(map, j)
    BY <1>1, <1>3
  <2> QED
    BY <2>1, OnesUnchanged
<1>5. \A i \in end .. at - 1 : ~Mrs!IsSet(more, i)
  BY <1>1, <1>2
<1>6. ASSUME NEW i \in end .. at
      PROVE  /\ Mrs!OnesBelow(more, i) = n
             /\ Mrs!IsSet(more, i) => Mrs!OnesBelow(more, i + 1) = n + 1
  <2>1. i \in Nat /\ end <= i /\ \A k \in end .. i - 1 : ~Mrs!IsSet(more, k)
    BY <1>1, <1>5
  <2>2. /\ Mrs!OnesBelow(more, i) = Mrs!OnesBelow(more, end)
        /\ Mrs!IsSet(more, i) => Mrs!OnesBelow(more, i + 1) = Mrs!OnesBelow(more, i) + 1
    BY <1>1, <2>1, OnesGrow
  <2>3. Mrs!OnesBelow(more, end) = n
    BY <1>1, <1>4
  <2> QED
    BY <2>2, <2>3
<1>7. Mrs!IsSet(more, at) /\ at \in end .. at
  BY <1>1, <1>2
<1>8. Mrs!OnesBelow(more, at + 1) = n + 1
  BY <1>6, <1>7
<1>9. \A j \in Nat : Mrs!IsSet(more, j) => j < at + 1
  BY <1>1, <1>2
<1>10. Marked(more, at + 1, n + 1)
  BY <1>1, <1>2, <1>8, <1>9 DEF Marked
<1>11. \A i \in end .. at - 1 : ~Mrs!IsSet(more, i) /\ Mrs!OnesBelow(more, i) = n
  BY <1>1, <1>5, <1>6
<1>12. \A i \in 0 .. end - 1 :
          /\ Mrs!IsSet(more, i) <=> Mrs!IsSet(map, i)
          /\ Mrs!OnesBelow(more, i) = Mrs!OnesBelow(map, i)
  BY <1>1, <1>3, <1>4
<1> QED
  BY <1>10, <1>11, <1>12 DEF more

\* A part of the list, and the key it begins with.
LEMMA PartIs ==
  ASSUME NEW list \in Seq(Seq(Bytes)), NEW part, IsPart(part, list)
  PROVE  /\ part.first \in 1 .. Len(list) /\ part.last \in Nat /\ part.column \in Nat
         /\ part.first <= part.last /\ part.last <= Len(list)
         /\ list[part.first] \in Seq(Bytes) /\ part.column <= Len(list[part.first])
         /\ \A i \in 1 .. part.column : list[part.first][i] \in Bytes
<1>1. part \in Parts /\ 1 <= part.first /\ part.first <= part.last /\ part.last <= Len(list)
  BY DEF IsPart
<1>2. part.first \in Nat /\ part.last \in Nat /\ part.column \in Nat
  BY <1>1 DEF Parts
<1>3. part.first \in part.first .. part.last /\ part.first \in 1 .. Len(list)
  BY <1>1, <1>2
<1>4. list[part.first] \in Seq(Bytes) /\ part.column <= Len(list[part.first])
  BY <1>3 DEF IsPart
<1>5. ASSUME NEW i \in 1 .. part.column PROVE list[part.first][i] \in Bytes
  <2>1. i \in 1 .. Len(list[part.first])
    BY <1>2, <1>4
  <2> QED
    BY <1>4, <2>1
<1> QED
  BY <1>1, <1>2, <1>3, <1>4, <1>5

\* The labels of a node's children are written between its bit and the one before.
LEMMA LabelsGoOn ==
  ASSUME Mrs!MrsAssumption, NEW list \in Seq(Seq(Bytes)),
         NEW parts, PartsFrom(parts, list), NEW n \in Nat, n < Len(parts),
         NEW map, NEW end, Marked(map, end, n), NEW chars, Labelled(parts, list, map, end, chars, n),
         NEW part, part = parts[n + 1], NEW start \in {part.first, part.first + 1},
         NEW groups, Cut(groups, part, start, list)
  PROVE  Labelled(parts \o groups, list, Mrs!SetBit(map, end + Len(groups)),
                  (end + Len(groups)) + 1,
                  chars \o [g \in DOMAIN groups |-> list[groups[g].first][part.column + 1]], n + 1)
<1> DEFINE P == Len(parts)
           G == Len(groups)
           more == parts \o groups
           bits == Mrs!SetBit(map, end + G)
           added == [g \in DOMAIN groups |-> list[groups[g].first][part.column + 1]]
           longer == chars \o added
           last == (end + G) + 1
<1>1. /\ groups \in Seq(Parts) /\ G \in Nat /\ DOMAIN groups = 1 .. G
      /\ \A g \in 1 .. G : /\ IsPart(groups[g], list) /\ groups[g].column = part.column + 1
                           /\ groups[g].first \in start .. part.last
  BY DEF Cut
<1>2. P \in Nat /\ part \in Parts /\ IsPart(part, list)
  <2>1. parts \in Seq(Parts) /\ n + 1 \in DOMAIN parts
    BY DEF PartsFrom
  <2> QED
    BY <2>1 DEF PartsFrom
<1>3. part.first \in Nat /\ part.last \in Nat /\ part.column \in Nat
  BY <1>2, PartIs
<1>4. /\ Len(more) = P + G /\ \A m \in 1 .. P : more[m] = parts[m]
      /\ \A g \in 1 .. G : more[P + g] = groups[g]
  BY <1>1, PartsGrow
<1>5. added \in Seq(Bytes) /\ Len(added) = G
  <2>1. \A g \in 1 .. G : list[groups[g].first][part.column + 1] \in Bytes
    <3> SUFFICES ASSUME NEW g \in 1 .. G PROVE list[groups[g].first][part.column + 1] \in Bytes
      OBVIOUS
    <3>1. groups[g].column = part.column + 1 /\ groups[g].column \in 1 .. groups[g].column
      BY <1>1, <1>3
    <3> QED
      BY <1>1, <3>1, PartIs
  <2>2. added \in [1 .. G -> Bytes]
    BY <1>1, <2>1
  <2> HIDE DEF added
  <2> QED
    BY <1>1, <2>2
<1>6. /\ chars \in Seq(Bytes) /\ Len(chars) = P - 1 /\ end = (n + P) - 1
      /\ \A m \in 1 .. P - 1 :
            \E p \in 0 .. n - 1, i \in 0 .. end - 1 :
               p < m /\ LabelledAt(m, p, i, parts, list, map, chars[m])
  BY DEF Labelled
<1>7. \A g \in 1 .. G : added[g] = list[groups[g].first][part.column + 1]
  BY <1>1
<1> HIDE DEF added
<1>8. /\ longer \in Seq(Bytes) /\ Len(longer) = (P - 1) + G
      /\ \A m \in 1 .. P - 1 : longer[m] = chars[m]
      /\ \A g \in 1 .. G : longer[(P - 1) + g] = added[g]
  <2>1. P - 1 \in Nat
    BY <1>2
  <2>2. /\ longer \in Seq(Bytes) /\ Len(longer) = Len(chars) + Len(added)
        /\ \A m \in 1 .. Len(chars) : longer[m] = chars[m]
        /\ \A g \in 1 .. Len(added) : longer[Len(chars) + g] = added[g]
    <3>1. chars \in Seq(Bytes) /\ added \in Seq(Bytes)
      BY <1>5, <1>6
    <3> QED
      BY <3>1
  <2> HIDE DEF longer
  <2> QED
    BY <1>5, <1>6, <2>1, <2>2
<1>9. end \in Nat /\ last = ((n + 1) + Len(more)) - 1
  BY <1>1, <1>2, <1>4, <1>6
<1>10. /\ \A i \in 0 .. end - 1 :
             /\ Mrs!IsSet(bits, i) <=> Mrs!IsSet(map, i)
             /\ Mrs!OnesBelow(bits, i) = Mrs!OnesBelow(map, i)
       /\ \A i \in end .. (end + G) - 1 : ~Mrs!IsSet(bits, i) /\ Mrs!OnesBelow(bits, i) = n
  BY <1>1, MarksGrow
<1> HIDE DEF more, bits, longer, P, G
<1>11. ASSUME NEW m \in 1 .. Len(more) - 1
       PROVE  \E p \in 0 .. (n + 1) - 1, i \in 0 .. last - 1 :
                 p < m /\ LabelledAt(m, p, i, more, list, bits, longer[m])
  <2>1. CASE m \in 1 .. P - 1
    <3>1. PICK p \in 0 .. n - 1, i \in 0 .. end - 1 :
             p < m /\ LabelledAt(m, p, i, parts, list, map, chars[m])
      BY <1>6, <2>1
    <3>2. p + 1 \in 1 .. P /\ m + 1 \in 1 .. P
      BY <1>2, <2>1 DEF P
    <3>3. more[p + 1] = parts[p + 1] /\ more[m + 1] = parts[m + 1] /\ longer[m] = chars[m]
      BY <1>4, <1>8, <2>1, <3>2
    <3>4. LabelledAt(m, p, i, more, list, bits, longer[m])
      BY <1>10, <3>1, <3>3 DEF LabelledAt
    <3>5. p \in 0 .. (n + 1) - 1 /\ i \in 0 .. last - 1
      <4>1. end \in Nat /\ G \in Nat
        BY <1>1, <1>9
      <4> QED
        BY <4>1
    <3> QED
      BY <3>1, <3>4, <3>5
  <2>2. CASE m \notin 1 .. P - 1
    <3> DEFINE g == m - (P - 1)
               i == (end + g) - 1
    <3>1. /\ g \in 1 .. G /\ (P - 1) + g = m /\ P + g = m + 1
          /\ i \in end .. (end + G) - 1 /\ i \in 0 .. last - 1 /\ i - n = m - 1
      BY <1>1, <1>2, <1>4, <1>6, <1>9, <2>2
    <3> HIDE DEF g, i
    <3>2. more[m + 1] = groups[g] /\ longer[m] = list[groups[g].first][part.column + 1]
      BY <1>4, <1>7, <1>8, <3>1
    <3>3. more[n + 1] = part
      <4>1. n + 1 \in 1 .. P
        BY <1>2 DEF P
      <4> QED
        BY <1>4, <4>1
    <3>4. /\ groups[g].column = part.column + 1
          /\ part.first <= groups[g].first /\ groups[g].first <= part.last
      BY <1>1, <1>3, <3>1
    <3>5. Child(part, groups[g], longer[m], list)
      BY <3>2, <3>4 DEF Child
    <3>6. LabelledAt(m, n, i, more, list, bits, longer[m])
      BY <1>10, <3>1, <3>2, <3>3, <3>5 DEF LabelledAt
    <3>7. n \in 0 .. (n + 1) - 1 /\ n < m
      BY <1>2, <1>4, <2>2 DEF P
    <3> QED
      BY <3>1, <3>6, <3>7
  <2> QED
    BY <2>1, <2>2
<1>12. Len(longer) = Len(more) - 1
  BY <1>1, <1>2, <1>4, <1>8
<1>13. Labelled(more, list, bits, last, longer, n + 1)
  BY <1>8, <1>9, <1>11, <1>12 DEF Labelled
<1> QED
  BY <1>13 DEF more, bits, longer, added, G

\* A node is marked as a leaf if its first key ends there.
LEMMA LeavesGoOn ==
  ASSUME Mrs!MrsAssumption, NEW list, NEW parts \in Seq(Parts), NEW n \in Nat, n < Len(parts),
         NEW map, Ended(parts, list, map, n), NEW groups \in Seq(Parts)
  PROVE  Ended(parts \o groups, list,
               IF IsLeaf(parts[n + 1], list) THEN Mrs!SetBit(map, n) ELSE map, n + 1)
<1> DEFINE more == parts \o groups
           bits == IF IsLeaf(parts[n + 1], list) THEN Mrs!SetBit(map, n) ELSE map
<1>1. \A m \in 1 .. Len(parts) : more[m] = parts[m]
  OBVIOUS
<1>2. Bitmap(map) /\ \A m \in Nat : Mrs!IsSet(map, m) <=> m < n /\ IsLeaf(parts[m + 1], list)
  BY DEF Ended
<1>3. /\ Bitmap(bits)
      /\ \A m \in Nat : Mrs!IsSet(bits, m)
                        <=> Mrs!IsSet(map, m) \/ (m = n /\ IsLeaf(parts[n + 1], list))
  BY <1>2, SetBitSets
<1> HIDE DEF more, bits
<1>4. ASSUME NEW m \in Nat
      PROVE  Mrs!IsSet(bits, m) <=> m < n + 1 /\ IsLeaf(more[m + 1], list)
  <2>1. CASE m < n + 1
    <3>1. more[m + 1] = parts[m + 1]
      BY <1>1, <2>1
    <3>2. m < n \/ m = n
      BY <2>1
    <3> QED
      BY <1>2, <1>3, <2>1, <3>1, <3>2
  <2>2. CASE ~(m < n + 1)
    <3>1. ~(m < n) /\ m # n
      BY <2>2
    <3> QED
      BY <1>2, <1>3, <2>2, <3>1
  <2> QED
    BY <2>1, <2>2
<1>5. Ended(more, list, bits, n + 1)
  BY <1>3, <1>4 DEF Ended
<1> QED
  BY <1>5 DEF more, bits

\* A visit loses no key: it ends at the node or goes on in a group.
LEMMA KeysStayReached ==
  ASSUME NEW list \in Seq(Seq(Bytes)), NEW parts, PartsFrom(parts, list), NEW n \in Nat,
         n < Len(parts), Reached(parts, list, n),
         NEW groups, Cut(groups, parts[n + 1], StartOf(parts[n + 1], list), list)
  PROVE  Reached(parts \o groups, list, n + 1)
<1> DEFINE P == Len(parts)
           G == Len(groups)
           part == parts[n + 1]
           more == parts \o groups
<1>1. /\ groups \in Seq(Parts) /\ G \in Nat /\ DOMAIN groups = 1 .. G
      /\ \A k \in StartOf(part, list) .. part.last :
            \E g \in 1 .. G : groups[g].first <= k /\ k <= groups[g].last
  <2>1. groups \in Seq(Parts)
    BY DEF Cut
  <2>2. G \in Nat /\ DOMAIN groups = 1 .. G
    BY <2>1
  <2> HIDE DEF G, part
  <2>3. \A k \in StartOf(part, list) .. part.last :
           \E g \in DOMAIN groups : groups[g].first <= k /\ k <= groups[g].last
    BY Zenon DEF Cut, part
  <2> QED
    BY <2>1, <2>2, <2>3, Zenon
<1>2. P \in Nat /\ \A g \in DOMAIN groups : IsPart(groups[g], list)
  BY DEF Cut, PartsFrom
<1>3. /\ Len(more) = P + G /\ \A m \in 1 .. P : more[m] = parts[m]
      /\ \A g \in 1 .. G : more[P + g] = groups[g]
  BY <1>1, <1>2, PartsGrow
<1>4. n + 1 \in 1 .. P /\ IsPart(part, list)
  BY DEF PartsFrom
<1>5. part.first \in Nat /\ part.last \in Nat
  BY <1>4, PartIs
<1> HIDE DEF P, G, more
<1>6. ASSUME NEW k \in DOMAIN list
      PROVE  \/ \E m \in 0 .. n : more[m + 1].first = k /\ IsLeaf(more[m + 1], list)
             \/ \E m \in n + 1 .. Len(more) - 1 : more[m + 1].first <= k /\ k <= more[m + 1].last
  <2>1. CASE \E m \in 0 .. n - 1 : parts[m + 1].first = k /\ IsLeaf(parts[m + 1], list)
    <3>1. PICK m \in 0 .. n - 1 : parts[m + 1].first = k /\ IsLeaf(parts[m + 1], list)
      BY <2>1
    <3>2. m + 1 \in 1 .. P /\ m \in 0 .. n
      BY <1>2, <1>4
    <3>3. more[m + 1] = parts[m + 1]
      BY <1>3, <3>2
    <3> QED
      BY <3>1, <3>2, <3>3
  <2>2. CASE \E m \in n .. P - 1 : parts[m + 1].first <= k /\ k <= parts[m + 1].last
    <3>1. PICK m \in n .. P - 1 : parts[m + 1].first <= k /\ k <= parts[m + 1].last
      BY <2>2
    <3>2. m + 1 \in 1 .. P /\ more[m + 1] = parts[m + 1] /\ k \in Nat
      BY <1>2, <1>3
    <3>3. CASE m # n
      <4>1. m \in n + 1 .. Len(more) - 1
        BY <1>1, <1>2, <1>3, <3>3
      <4> QED
        BY <3>1, <3>2, <4>1
    <3>4. CASE m = n /\ IsLeaf(part, list) /\ k = part.first
      <4>1. n \in 0 .. n /\ more[n + 1] = part
        BY <3>2, <3>4
      <4> QED
        BY <3>4, <4>1
    <3>5. CASE m = n /\ ~(IsLeaf(part, list) /\ k = part.first)
      <4>1. k \in StartOf(part, list) .. part.last
        BY <1>5, <3>1, <3>2, <3>5 DEF StartOf
      <4>2. PICK g \in 1 .. G : groups[g].first <= k /\ k <= groups[g].last
        BY <1>1, <4>1
      <4> DEFINE j == (P + g) - 1
      <4>3. j \in n + 1 .. Len(more) - 1 /\ j + 1 = P + g
        BY <1>1, <1>2, <1>3, <1>4
      <4>4. more[j + 1] = groups[g]
        BY <1>3, <4>3
      <4> QED
        BY <4>2, <4>3, <4>4
    <3> QED
      BY <3>3, <3>4, <3>5
  <2> QED
    BY <2>1, <2>2 DEF Reached, P
<1>7. n = (n + 1) - 1
  OBVIOUS
<1>8. Reached(more, list, n + 1)
  BY <1>6, <1>7 DEF Reached
<1> QED
  BY <1>8 DEF more

-----------------------------------------------------------------------------
(* MrsPayload: the domains, from the rules to the trie.                     *)

\* What holds of the bitmaps between two visits, for the parts of all nodes.
Walks(parts, list, waiting, ends, map, chars, end, n) ==
    /\ PartsFrom(parts, list) /\ Queued(parts, waiting, n) /\ Marked(map, end, n)
    /\ Labelled(parts, list, map, end, chars, n) /\ Ended(parts, list, ends, n)
    /\ Reached(parts, list, n)

Walked == \E parts : Walks(parts, keys, queue, leaves, labelBitmap, labels, labelIndex, nodeIndex)

\* What the rules read so far say.
SaidUpTo(list, n) == UNION {Mrs!Says(list[k]) : k \in 1 .. n}

NoTrie ==
    /\ queue = <<>> /\ leaves = <<>> /\ labelBitmap = <<>> /\ labels = <<>>
    /\ labelIndex = 0 /\ nodeIndex = 0

\* The keys are what the rules read so far say, reversed and in order.
KeysRead ==
    /\ rules \in DomainLists /\ read \in 0 .. Len(rules)
    /\ keys \in Seq(Seq(Bytes)) /\ Rising(keys)
    /\ Elements(keys) = Reversed(SaidUpTo(rules, read))

\* Keys while rules are read, the walk over all of them afterwards.
TrieInv ==
    behavior = "domain" =>
        /\ KeysRead /\ outcome \in {"error", "reading", "building", "done"}
        /\ outcome = "reading" => NoTrie
        /\ outcome \in {"building", "done"} => read = Len(rules) /\ Walked
        /\ outcome = "done" => queue = <<>>

\* Before the first visit the root is all there is.
LEMMA NothingWalked ==
  ASSUME NEW list \in Seq(Seq(Bytes)), list # <<>>
  PROVE  LET root == [first |-> 1, last |-> Len(list), column |-> 0]
         IN Walks(<<root>>, list, <<root>>, <<>>, <<>>, <<>>, 0, 0)
<1> DEFINE root == [first |-> 1, last |-> Len(list), column |-> 0]
           parts == <<root>>
<1>1. Len(list) \in Nat /\ Len(list) >= 1 /\ DOMAIN list = 1 .. Len(list)
  OBVIOUS
<1>2. root \in Parts /\ root.first = 1 /\ root.last = Len(list) /\ root.column = 0
  BY <1>1 DEF Parts
<1>3. IsPart(root, list)
  <2>1. \A k \in 1 .. Len(list) : 0 <= Len(list[k]) /\ Mrs!Agree(list[1], list[k], 0)
    <3>1. \A k \in 1 .. Len(list) : list[k] \in Seq(Bytes)
      BY <1>1
    <3> QED
      BY <3>1 DEF Mrs!Agree
  <2> HIDE DEF root
  <2> QED
    BY <1>1, <1>2, <2>1 DEF IsPart
<1> HIDE DEF root
<1>4. /\ parts \in Seq(Parts) /\ Len(parts) = 1 /\ DOMAIN parts = 1 .. 1 /\ parts[1] = root
      /\ parts # <<>>
  BY <1>2
<1>5. <<>> \in Seq(Bytes) /\ Len(<<>>) = 0
  OBVIOUS
<1> HIDE DEF parts
<1>6. PartsFrom(parts, list)
  <2>1. \A m \in 1 .. 1 : m = 1
    OBVIOUS
  <2> QED
    BY <1>2, <1>3, <1>4, <2>1 DEF PartsFrom
<1>7. Queued(parts, parts, 0)
  <2>1. Len(parts) = 0 + Len(parts) /\ \A k \in 1 .. Len(parts) : parts[k] = parts[0 + k]
    BY <1>4
  <2> QED
    BY <1>4, <2>1 DEF Queued
<1>8. Marked(<<>>, 0, 0)
  <2>1. Mrs!OnesBelow(<<>>, 0) = 0
    <3>1. {j \in 0 .. 0 - 1 : Mrs!IsSet(<<>>, j)} = {}
      OBVIOUS
    <3> QED
      BY <3>1, OnesAre, FS_EmptySet
  <2> QED
    BY <2>1, NothingSet DEF Marked
<1>9. Labelled(parts, list, <<>>, 0, <<>>, 0)
  BY <1>4, <1>5 DEF Labelled
<1>10. Ended(parts, list, <<>>, 0)
  BY NothingSet DEF Ended
<1>11. Reached(parts, list, 0)
  <2>1. 0 \in 0 .. Len(parts) - 1 /\ parts[0 + 1] = root
    BY <1>4
  <2>2. \A k \in DOMAIN list : root.first <= k /\ k <= root.last
    BY <1>1, <1>2
  <2> QED
    BY <2>1, <2>2 DEF Reached
<1>12. Walks(parts, list, parts, <<>>, <<>>, <<>>, 0, 0)
  BY <1>6, <1>7, <1>8, <1>9, <1>10, <1>11 DEF Walks
<1> QED
  BY <1>12 DEF parts, root

\* A visit keeps everything that holds of the walk.
LEMMA VisitWalks ==
  ASSUME Mrs!MrsAssumption, keys \in Seq(Seq(Bytes)), Rising(keys), Walked, Mrs!Visit
  PROVE  Walked'
<1>1. PICK parts :
         Walks(parts, keys, queue, leaves, labelBitmap, labels, labelIndex, nodeIndex)
  BY DEF Walked
<1> DEFINE part == Head(queue)
           start == StartOf(part, keys)
           groups == Mrs!Groups(part, start)
           G == Len(groups)
           more == parts \o groups
<1>2. /\ queue # <<>> /\ keys' = keys
      /\ leaves' = IF IsLeaf(part, keys) THEN Mrs!SetBit(leaves, nodeIndex) ELSE leaves
      /\ queue' = Tail(queue) \o groups
      /\ labels' = labels \o [g \in DOMAIN groups |-> keys[groups[g].first][part.column + 1]]
      /\ labelBitmap' = Mrs!SetBit(labelBitmap, labelIndex + G)
      /\ labelIndex' = (labelIndex + G) + 1 /\ nodeIndex' = nodeIndex + 1
  BY Zenon DEF Mrs!Visit, StartOf, IsLeaf
<1>3. /\ PartsFrom(parts, keys) /\ parts \in Seq(Parts) /\ Queued(parts, queue, nodeIndex)
      /\ Marked(labelBitmap, labelIndex, nodeIndex) /\ nodeIndex \in Nat
      /\ Labelled(parts, keys, labelBitmap, labelIndex, labels, nodeIndex)
      /\ Ended(parts, keys, leaves, nodeIndex) /\ Reached(parts, keys, nodeIndex)
  BY <1>1 DEF Walks, Queued, PartsFrom
<1>4. /\ nodeIndex < Len(parts) /\ part = parts[nodeIndex + 1] /\ nodeIndex + 1 \in 1 .. Len(parts)
  <2>1. <<>> \in Seq(Parts)
    OBVIOUS
  <2> QED
    BY <1>2, <1>3, <2>1, QueueGoesOn
<1>5. IsPart(part, keys)
  BY <1>3, <1>4 DEF PartsFrom
<1> HIDE DEF part
<1>6. Cut(groups, part, start, keys)
  BY <1>5, PartsAreCut
<1>7. groups \in Seq(Parts) /\ \A g \in DOMAIN groups : IsPart(groups[g], keys)
  BY <1>6 DEF Cut
<1>8. start \in {part.first, part.first + 1}
  BY DEF StartOf
<1>9. PartsFrom(more, keys)
  BY <1>3, <1>7, PartsGrow
<1>10. Queued(more, queue', nodeIndex')
  BY <1>2, <1>3, <1>7, QueueGoesOn
<1>11. Marked(labelBitmap', labelIndex', nodeIndex')
  <2>1. G \in Nat
    BY <1>7
  <2> HIDE DEF G
  <2> QED
    BY <1>2, <1>3, <2>1, MarksGrow
<1>12. Labelled(more, keys, labelBitmap', labelIndex', labels', nodeIndex')
  <2> HIDE DEF groups, start
  <2> QED
    BY <1>2, <1>3, <1>4, <1>6, <1>8, LabelsGoOn
<1>13. Ended(more, keys, leaves', nodeIndex')
  BY <1>2, <1>3, <1>4, <1>7, LeavesGoOn
<1>14. Reached(more, keys, nodeIndex')
  <2> HIDE DEF groups
  <2> QED
    BY <1>2, <1>3, <1>4, <1>6, KeysStayReached
<1> HIDE DEF more
<1>15. Walks(more, keys', queue', leaves', labelBitmap', labels', labelIndex', nodeIndex')
  BY <1>2, <1>9, <1>10, <1>11, <1>12, <1>13, <1>14 DEF Walks
<1> QED
  BY <1>15 DEF Walked

\* The m-th zero is found, as no other is.
LEMMA PositionFound ==
  ASSUME NEW m, NEW p \in Nat, NEW i \in 0 .. labelIndex, labelIndex \in Nat,
         ~Mrs!IsSet(labelBitmap, i), Mrs!OnesBelow(labelBitmap, i) = p, i - p = m - 1
  PROVE  Mrs!OnesBelow(labelBitmap, Mrs!PositionOf(m)) = p
<1> DEFINE Is(j) == ~Mrs!IsSet(labelBitmap, j) /\ j - Mrs!OnesBelow(labelBitmap, j) = m - 1
           c == CHOOSE j \in 0 .. labelIndex : Is(j)
<1>1. Mrs!PositionOf(m) = c
  BY DEF Mrs!PositionOf
<1>2. Is(i)
  OBVIOUS
<1> HIDE DEF Is
<1>3. c \in 0 .. labelIndex /\ Is(c)
  BY <1>2
<1> HIDE DEF c
<1>4. c \in Nat /\ i \in Nat
  BY <1>3
<1>5. ~(c < i)
  <2> SUFFICES ASSUME c < i PROVE FALSE
    OBVIOUS
  <2>1. c - Mrs!OnesBelow(labelBitmap, c) < i - Mrs!OnesBelow(labelBitmap, i)
    BY <1>3, <1>4, ZerosRise DEF Is
  <2> QED
    BY <1>2, <1>3, <1>4, <2>1, OnesType DEF Is
<1>6. ~(i < c)
  <2> SUFFICES ASSUME i < c PROVE FALSE
    OBVIOUS
  <2>1. i - Mrs!OnesBelow(labelBitmap, i) < c - Mrs!OnesBelow(labelBitmap, c)
    BY <1>2, <1>4, ZerosRise DEF Is
  <2> QED
    BY <1>2, <1>3, <1>4, <2>1, OnesType DEF Is
<1>7. c = i
  BY <1>4, <1>5, <1>6
<1> QED
  BY <1>1, <1>7

\* What a reader finds at a node: the characters that the keys of its part share.
TextOf(part, list) == SubSeq(list[part.first], 1, part.column)

\* A label continues its parent's text.
LEMMA TextGrows ==
  ASSUME NEW list \in Seq(Seq(Bytes)), NEW above, IsPart(above, list),
         NEW below, IsPart(below, list), NEW label, Child(above, below, label, list)
  PROVE  TextOf(below, list) = Append(TextOf(above, list), label)
<1> DEFINE one == list[above.first]
           other == list[below.first]
           c == above.column
<1>1. /\ below.column = c + 1 /\ label = other[c + 1]
      /\ below.first \in above.first .. above.last
  <2>1. above.first \in Nat /\ above.last \in Nat /\ below.first \in Nat
    BY PartIs
  <2> QED
    BY <2>1 DEF Child
<1>2. /\ one \in Seq(Bytes) /\ other \in Seq(Bytes) /\ c \in Nat
      /\ c <= Len(one) /\ c + 1 <= Len(other)
  BY <1>1, PartIs
<1>3. \A i \in 1 .. c : one[i] = other[i]
  BY <1>1 DEF IsPart, Mrs!Agree
<1> HIDE DEF one, other, c
<1>4. SubSeq(one, 1, c) = [i \in 1 .. c |-> one[i]] /\ SubSeq(one, 1, c) \in Seq(Bytes)
  BY <1>2
<1>5. SubSeq(other, 1, c + 1) = [i \in 1 .. c + 1 |-> other[i]]
  BY <1>2
<1>6. Append(SubSeq(one, 1, c), label) =
         [i \in 1 .. c + 1 |-> IF i = c + 1 THEN label ELSE one[i]]
  <2>1. Len(SubSeq(one, 1, c)) = c
    BY <1>2
  <2>2. ASSUME NEW s \in Seq(Bytes), Len(s) = c
        PROVE  Append(s, label) = [i \in 1 .. c + 1 |-> IF i = c + 1 THEN label ELSE s[i]]
    <3>1. label \in Bytes
      BY <1>1, <1>2
    <3>2. /\ Append(s, label) \in Seq(Bytes) /\ Len(Append(s, label)) = c + 1
          /\ \A i \in 1 .. c : Append(s, label)[i] = s[i]
          /\ Append(s, label)[c + 1] = label
      BY <1>2, <2>2, <3>1
    <3> DEFINE t == Append(s, label)
    <3> HIDE DEF t
    <3>3. t = [i \in 1 .. c + 1 |-> t[i]]
      <4>1. t \in Seq(Bytes) /\ Len(t) = c + 1
        BY <3>2 DEF t
      <4> QED
        BY <4>1
    <3>4. \A i \in 1 .. c + 1 : t[i] = IF i = c + 1 THEN label ELSE s[i]
      BY <1>2, <3>2 DEF t
    <3>5. t = [i \in 1 .. c + 1 |-> IF i = c + 1 THEN label ELSE s[i]]
      BY <3>3, <3>4
    <3> QED
      BY <3>5 DEF t
  <2>3. Append(SubSeq(one, 1, c), label) =
           [i \in 1 .. c + 1 |-> IF i = c + 1 THEN label ELSE SubSeq(one, 1, c)[i]]
    BY <1>4, <2>1, <2>2
  <2>4. \A i \in 1 .. c + 1 : i # c + 1 => SubSeq(one, 1, c)[i] = one[i]
    BY <1>2, <1>4
  <2>5. \A i \in 1 .. c + 1 : (IF i = c + 1 THEN label ELSE SubSeq(one, 1, c)[i])
                                 = IF i = c + 1 THEN label ELSE one[i]
    BY <2>4
  <2> QED
    BY <2>3, <2>5
<1>7. \A i \in 1 .. c + 1 : other[i] = IF i = c + 1 THEN label ELSE one[i]
  <2>1. \A i \in 1 .. c + 1 : i = c + 1 \/ i \in 1 .. c
    BY <1>2
  <2>2. other[c + 1] = label
    BY <1>1
  <2> QED
    BY <1>3, <2>1, <2>2
<1>8. SubSeq(other, 1, c + 1) = Append(SubSeq(one, 1, c), label)
  BY <1>5, <1>6, <1>7
<1> QED
  BY <1>1, <1>8 DEF one, other, c, TextOf

\* Reading upwards from a node gives what the keys of its part share.
LEMMA TextsFound ==
  ASSUME keys \in Seq(Seq(Bytes)), queue = <<>>, NEW parts,
         Walks(parts, keys, queue, leaves, labelBitmap, labels, labelIndex, nodeIndex)
  PROVE  \A m \in 0 .. nodeIndex - 1 : Mrs!TextOf[m] = TextOf(parts[m + 1], keys)
<1> DEFINE n == nodeIndex
           up(m) == Mrs!OnesBelow(labelBitmap, Mrs!PositionOf(m))
           isMeant(f) == f = [m \in 0 .. n - 1 |->
                                IF m = 0 THEN <<>> ELSE Append(f[up(m)], labels[m])]
           g == CHOOSE f : isMeant(f)
           h == [m \in 0 .. n - 1 |-> TextOf(parts[m + 1], keys)]
<1>1. /\ PartsFrom(parts, keys) /\ n \in Nat /\ Len(parts) = n /\ labelIndex \in Nat
      /\ DOMAIN parts = 1 .. n
      /\ \A m \in 1 .. n - 1 :
            \E p \in 0 .. n - 1, i \in 0 .. labelIndex - 1 :
               p < m /\ LabelledAt(m, p, i, parts, keys, labelBitmap, labels[m])
  BY DEF Walks, Queued, Labelled, Marked, PartsFrom
<1>2. \A m \in 0 .. n - 1 : m + 1 \in 1 .. n /\ IsPart(parts[m + 1], keys)
  BY <1>1 DEF PartsFrom
<1>3. ASSUME NEW m \in 1 .. n - 1
      PROVE  /\ up(m) \in 0 .. n - 1 /\ up(m) < m
             /\ TextOf(parts[m + 1], keys) = Append(TextOf(parts[up(m) + 1], keys), labels[m])
  <2>1. PICK p \in 0 .. n - 1, i \in 0 .. labelIndex - 1 :
           p < m /\ LabelledAt(m, p, i, parts, keys, labelBitmap, labels[m])
    BY <1>1
  <2>2. /\ ~Mrs!IsSet(labelBitmap, i) /\ Mrs!OnesBelow(labelBitmap, i) = p /\ i - p = m - 1
        /\ Child(parts[p + 1], parts[m + 1], labels[m], keys)
    BY <2>1 DEF LabelledAt
  <2>3. i \in 0 .. labelIndex /\ p \in Nat /\ m \in 0 .. n - 1
    BY <1>1
  <2>4. up(m) = p
    BY <1>1, <2>2, <2>3, PositionFound
  <2>5. IsPart(parts[p + 1], keys) /\ IsPart(parts[m + 1], keys)
    BY <1>2, <2>3
  <2>6. TextOf(parts[m + 1], keys) = Append(TextOf(parts[p + 1], keys), labels[m])
    BY <2>2, <2>5, TextGrows
  <2> QED
    BY <2>1, <2>4, <2>6
<1>4. n > 0 => TextOf(parts[0 + 1], keys) = <<>>
  <2> SUFFICES ASSUME n > 0 PROVE TextOf(parts[0 + 1], keys) = <<>>
    OBVIOUS
  <2>1. 0 \in 0 .. n - 1 /\ parts[0 + 1].column = 0
    BY <1>1 DEF PartsFrom
  <2>2. keys[parts[0 + 1].first] \in Seq(Bytes)
    BY <1>2, <2>1, PartIs
  <2> QED
    BY <2>1, <2>2 DEF TextOf
<1> HIDE DEF up, n
<1>5. isMeant(h)
  <2>1. ASSUME NEW m \in 0 .. n - 1
        PROVE  TextOf(parts[m + 1], keys) = IF m = 0 THEN <<>> ELSE Append(h[up(m)], labels[m])
    <3>1. CASE m = 0
      BY <1>1, <1>4, <3>1
    <3>2. CASE m # 0
      <4>1. m \in 1 .. n - 1
        BY <1>1, <3>2
      <4>2. h[up(m)] = TextOf(parts[up(m) + 1], keys)
        BY <1>3, <4>1
      <4> HIDE DEF h
      <4> QED
        BY <1>3, <3>2, <4>1, <4>2
    <3> QED
      BY <3>1, <3>2
  <2> QED
    BY <2>1
<1>6. isMeant(g)
  <2> HIDE DEF isMeant, h
  <2> QED
    BY <1>5
<1>7. Mrs!TextOf = g
  BY Zenon DEF Mrs!TextOf, n, up
<1> HIDE DEF g, h
<1>8. \A m \in 0 .. n - 1 : g[m] = IF m = 0 THEN <<>> ELSE Append(g[up(m)], labels[m])
  BY <1>6
<1>9. ASSUME NEW m \in 0 .. n - 1, g[m] # TextOf(parts[m + 1], keys) PROVE FALSE
  <2> DEFINE T == {j \in 0 .. n - 1 : g[j] # TextOf(parts[j + 1], keys)}
  <2>1. m \in T /\ T \subseteq Nat
    BY <1>1, <1>9
  <2>2. PICK j \in T : \A k \in T : j <= k
    <3> HIDE DEF T
    <3> QED
      BY <2>1, LeastElement
  <2>3. CASE j = 0
    <3>1. 0 \in 0 .. n - 1 /\ g[0] # TextOf(parts[0 + 1], keys)
      BY <2>2, <2>3
    <3>2. n > 0
      BY <1>1, <3>1
    <3> QED
      BY <1>4, <1>8, <3>1, <3>2
  <2>4. CASE j # 0
    <3>1. j \in 1 .. n - 1
      BY <1>1, <2>4
    <3>2. up(j) \in 0 .. n - 1 /\ up(j) < j
      BY <1>3, <3>1
    <3>3. up(j) \notin T
      BY <1>1, <2>2, <3>1, <3>2
    <3>4. g[up(j)] = TextOf(parts[up(j) + 1], keys)
      BY <3>2, <3>3
    <3>5. g[j] = Append(g[up(j)], labels[j])
      BY <1>8, <2>4
    <3> QED
      BY <1>3, <3>1, <3>4, <3>5
  <2> QED
    BY <2>3, <2>4
<1> QED
  BY <1>7, <1>9 DEF n

\* Reading the trie back gives the keys.
LEMMA KeysReadBack ==
  ASSUME keys \in Seq(Seq(Bytes)), queue = <<>>, Walked
  PROVE  Mrs!ReadBack = Elements(keys)
<1>1. PICK parts :
         Walks(parts, keys, queue, leaves, labelBitmap, labels, labelIndex, nodeIndex)
  BY DEF Walked
<1>2. /\ PartsFrom(parts, keys) /\ nodeIndex \in Nat /\ Len(parts) = nodeIndex
      /\ DOMAIN parts = 1 .. nodeIndex
      /\ Ended(parts, keys, leaves, nodeIndex) /\ Reached(parts, keys, nodeIndex)
  BY <1>1 DEF Walks, Queued, PartsFrom
<1>3. \A m \in 0 .. nodeIndex - 1 : Mrs!TextOf[m] = TextOf(parts[m + 1], keys)
  BY <1>1, TextsFound
<1>4. ASSUME NEW m \in 0 .. nodeIndex - 1, IsLeaf(parts[m + 1], keys)
      PROVE  /\ parts[m + 1].first \in DOMAIN keys
             /\ TextOf(parts[m + 1], keys) = keys[parts[m + 1].first]
  <2>1. IsPart(parts[m + 1], keys)
    BY <1>2 DEF PartsFrom
  <2>2. /\ parts[m + 1].first \in 1 .. Len(keys) /\ keys[parts[m + 1].first] \in Seq(Bytes)
    BY <2>1, PartIs
  <2> DEFINE key == keys[parts[m + 1].first]
  <2>3. SubSeq(key, 1, Len(key)) = key
    BY <2>2
  <2> QED
    BY <1>4, <2>2, <2>3 DEF TextOf, IsLeaf
<1>5. \A m \in 0 .. nodeIndex - 1 : Mrs!IsSet(leaves, m) <=> IsLeaf(parts[m + 1], keys)
  BY <1>2 DEF Ended
<1>6. ASSUME NEW text \in Mrs!ReadBack PROVE text \in Elements(keys)
  <2>1. PICK m \in 0 .. nodeIndex - 1 : Mrs!IsSet(leaves, m) /\ text = Mrs!TextOf[m]
    BY DEF Mrs!ReadBack
  <2> QED
    BY <1>3, <1>4, <1>5, <2>1 DEF Elements
<1>7. ASSUME NEW k \in DOMAIN keys PROVE keys[k] \in Mrs!ReadBack
  <2>1. PICK m \in 0 .. nodeIndex - 1 : parts[m + 1].first = k /\ IsLeaf(parts[m + 1], keys)
    <3>1. nodeIndex .. Len(parts) - 1 = {}
      BY <1>2
    <3> QED
      BY <1>2, <3>1 DEF Reached
  <2>2. Mrs!TextOf[m] = keys[k] /\ Mrs!IsSet(leaves, m)
    BY <1>3, <1>4, <1>5, <2>1
  <2> QED
    BY <2>2 DEF Mrs!ReadBack
<1> QED
  BY <1>6, <1>7 DEF Elements

\* No rule is read yet.
LEMMA TrieStarts ==
  ASSUME Mrs!MrsAssumption, Mrs!Init
  PROVE  TrieInv
<1> SUFFICES ASSUME behavior = "domain" PROVE TrieInv
  BY DEF TrieInv
<1>1. /\ rules \in DomainLists /\ read = 0 /\ keys = <<>> /\ outcome \in {"error", "reading"}
      /\ NoTrie
  BY DEF Mrs!Init, NoTrie
<1>2. rules \in Seq(Seq(DOMAIN Lower))
  BY <1>1 DEF Mrs!MrsAssumption
<1>3. keys \in Seq(Seq(Bytes)) /\ Rising(keys) /\ Elements(keys) = {}
  BY <1>1 DEF Rising, Elements
<1>4. Reversed(SaidUpTo(rules, read)) = {}
  BY <1>1 DEF Reversed, SaidUpTo
<1>5. read \in 0 .. Len(rules)
  BY <1>1, <1>2
<1> QED
  BY <1>1, <1>3, <1>4, <1>5 DEF TrieInv, KeysRead

\* Every step of the encoder keeps the trie right.
LEMMA TrieKept ==
  ASSUME Mrs!MrsAssumption, TrieInv, [Mrs!Next]_(Mrs!vars)
  PROVE  TrieInv'
<1> SUFFICES ASSUME behavior' = "domain" PROVE TrieInv'
  BY DEF TrieInv
<1>1. CASE UNCHANGED Mrs!vars
  BY <1>1 DEF Mrs!vars, Mrs!trie, Mrs!ranges, TrieInv, KeysRead, NoTrie, Walked
<1> SUFFICES ASSUME Mrs!Next PROVE TrieInv'
  BY <1>1
<1>2. behavior = "domain" /\ behavior' = behavior /\ rules' = rules
  BY DEF Mrs!Next, Mrs!ReadDomain, Mrs!StartBuilding, Mrs!Visit, Mrs!Built, Mrs!ReadNetwork,
     Mrs!StartMerging, Mrs!MergeV4, Mrs!WriteV4, Mrs!MergeV6, Mrs!WriteV6
<1>3. /\ KeysRead /\ outcome \in {"error", "reading", "building", "done"}
      /\ outcome = "reading" => NoTrie
      /\ outcome \in {"building", "done"} => read = Len(rules) /\ Walked
      /\ rules \in Seq(Seq(DOMAIN Lower)) /\ Len(rules) \in Nat
  BY <1>2 DEF TrieInv, KeysRead, Mrs!MrsAssumption
<1>4. CASE Mrs!ReadDomain
  <2>1. /\ outcome = "reading" /\ read < Len(rules) /\ outcome' = outcome
        /\ keys' = Mrs!WithDomain(keys, Mrs!Normalized(rules[read + 1])) /\ read' = read + 1
        /\ UNCHANGED <<queue, leaves, labelBitmap, labels, labelIndex, nodeIndex>>
    BY <1>4 DEF Mrs!ReadDomain
  <2>2. read \in Nat /\ read + 1 \in 0 .. Len(rules) /\ rules[read + 1] \in Seq(DOMAIN Lower)
    <3>1. read \in Nat /\ read + 1 \in 1 .. Len(rules)
      BY <1>3, <2>1 DEF KeysRead
    <3> QED
      BY <1>3, <3>1
  <2>3. /\ keys' \in Seq(Seq(Bytes)) /\ Rising(keys')
        /\ Elements(keys') = Elements(keys) \cup Reversed(Mrs!Says(rules[read + 1]))
    BY <1>3, <2>1, <2>2, DomainAdded DEF KeysRead
  <2>4. SaidUpTo(rules, read + 1) = SaidUpTo(rules, read) \cup Mrs!Says(rules[read + 1])
    <3>1. \A k : k \in 1 .. read + 1 <=> k \in 1 .. read \/ k = read + 1
      BY <2>2
    <3> QED
      BY <3>1, Zenon DEF SaidUpTo
  <2>5. Elements(keys') = Reversed(SaidUpTo(rules, read + 1))
    BY <1>3, <2>3, <2>4 DEF KeysRead, Reversed
  <2>6. KeysRead'
    BY <1>2, <1>3, <2>1, <2>2, <2>3, <2>5 DEF KeysRead
  <2>7. NoTrie'
    BY <1>3, <2>1 DEF NoTrie
  <2> QED
    BY <1>2, <2>1, <2>6, <2>7 DEF TrieInv
<1>5. CASE Mrs!StartBuilding
  <2>1. /\ outcome = "reading" /\ read = Len(rules) /\ read' = read /\ keys' = keys
        /\ keys = <<>> => outcome' = "error"
        /\ keys # <<>> => /\ outcome' = "building"
                          /\ queue' = <<[first |-> 1, last |-> Len(keys), column |-> 0]>>
        /\ UNCHANGED <<leaves, labelBitmap, labels, labelIndex, nodeIndex>>
    BY <1>5 DEF Mrs!StartBuilding
  <2>2. KeysRead'
    BY <1>2, <1>3, <2>1 DEF KeysRead
  <2>3. CASE keys = <<>>
    BY <2>1, <2>2, <2>3 DEF TrieInv
  <2>4. CASE keys # <<>>
    <3>1. Walks(queue', keys', queue', leaves', labelBitmap', labels', labelIndex', nodeIndex')
      BY <1>3, <2>1, <2>4, NothingWalked DEF KeysRead, NoTrie
    <3>2. Walked'
      BY <3>1 DEF Walked
    <3> QED
      BY <1>2, <2>1, <2>2, <2>4, <3>2 DEF TrieInv
  <2> QED
    BY <2>3, <2>4
<1>6. CASE Mrs!Visit
  <2>1. outcome = "building" /\ UNCHANGED <<behavior, rules, read, outcome, keys>>
    BY <1>6 DEF Mrs!Visit
  <2>2. KeysRead'
    BY <1>3, <2>1 DEF KeysRead
  <2>3. Walked'
    BY <1>3, <1>6, <2>1, VisitWalks DEF KeysRead
  <2> QED
    BY <1>3, <2>1, <2>2, <2>3 DEF TrieInv
<1>7. CASE Mrs!Built
  <2>1. /\ outcome = "building" /\ queue = <<>> /\ outcome' = "done"
        /\ UNCHANGED <<behavior, rules, read, keys, queue, leaves, labelBitmap, labels,
                       labelIndex, nodeIndex>>
    BY <1>7 DEF Mrs!Built, Mrs!trie
  <2>2. KeysRead' /\ Walked'
    BY <1>3, <2>1 DEF KeysRead, Walked
  <2> QED
    BY <1>3, <2>1, <2>2 DEF TrieInv
<1>8. CASE \/ Mrs!ReadNetwork \/ Mrs!StartMerging \/ Mrs!MergeV4 \/ Mrs!WriteV4
           \/ Mrs!MergeV6 \/ Mrs!WriteV6
  BY <1>2, <1>3, <1>8 DEF Mrs!ReadNetwork, Mrs!StartMerging, Mrs!MergeV4, Mrs!WriteV4,
     Mrs!MergeV6, Mrs!WriteV6
<1> QED
  BY <1>4, <1>5, <1>6, <1>7, <1>8 DEF Mrs!Next

\* At the end the reader finds the domains of the rules.
LEMMA TrieSays ==
  ASSUME Mrs!MrsAssumption, TrieInv
  PROVE  Mrs!TrieReadsBack
<1> SUFFICES ASSUME behavior = "domain", outcome = "done"
             PROVE  {Mrs!Reverse(text) : text \in Mrs!ReadBack}
                       = UNION {Mrs!Says(rules[k]) : k \in DOMAIN rules}
  BY DEF Mrs!TrieReadsBack
<1>1. KeysRead /\ Walked /\ queue = <<>> /\ read = Len(rules)
  BY DEF TrieInv
<1>2. rules \in Seq(Seq(DOMAIN Lower)) /\ DOMAIN rules = 1 .. Len(rules)
  BY <1>1 DEF KeysRead, Mrs!MrsAssumption
<1>3. Mrs!ReadBack = Reversed(SaidUpTo(rules, Len(rules)))
  BY <1>1, KeysReadBack DEF KeysRead
<1>4. SaidUpTo(rules, Len(rules)) \subseteq Seq(Bytes)
  <2>1. ASSUME NEW k \in 1 .. Len(rules) PROVE Mrs!Says(rules[k]) \subseteq Seq(Bytes)
    <3>1. <<>> \in Seq(Seq(Bytes)) /\ Rising(<<>>)
      BY DEF Rising
    <3>2. rules[k] \in Seq(DOMAIN Lower)
      BY <1>2
    <3> QED
      BY <3>1, <3>2, DomainAdded
  <2> QED
    BY <2>1 DEF SaidUpTo
<1>5. {Mrs!Reverse(text) : text \in Mrs!ReadBack} = SaidUpTo(rules, Len(rules))
  <2>1. \A text \in SaidUpTo(rules, Len(rules)) : Mrs!Reverse(Mrs!Reverse(text)) = text
    BY <1>4, ReverseTwice
  <2> QED
    BY <1>3, <2>1 DEF Reversed
<1> QED
  BY <1>2, <1>5 DEF SaidUpTo

=============================================================================
