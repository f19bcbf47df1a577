---------------------------- MODULE SourceLoader ----------------------------
(***************************************************************************)
(* The loop that fetches a list of sources, written three times in the     *)
(* code: for subscriptions (SubscriptionService::convert), for rulesets    *)
(* (load_rulesets) and for GET /ruleset (api.rs).  Each is                 *)
(*     stream::iter(..).map(..).buffer_unordered(n).try_collect()          *)
(* and the first two sort what they collected by source index.             *)
(***************************************************************************)
EXTENDS Integers, FiniteSets, SequencesExt

CONSTANTS
    Contents,          \* what a source may yield
    Failed,            \* the outcome of a source that yields an error
    Pending,           \* the outcome of a source that has not finished
    MinSources,        \* 1 where an empty list is refused before, else 0
    MaxSources,        \* bound on the number of sources
    FetchConcurrency,  \* advance.fetch_concurrency
    SkipFailed,        \* values of advance.skip_failed_links; GET /ruleset never skips
    Sorts              \* whether the collected list is sorted by index

ASSUME LoaderAssumption ==
    /\ Failed \notin Contents
    /\ Pending \notin Contents \cup {Failed}
    /\ MinSources \in {0, 1}
    /\ MaxSources \in Nat \ {0}
    /\ FetchConcurrency \in Nat
    /\ SkipFailed \subseteq BOOLEAN
    /\ Sorts \in BOOLEAN

VARIABLES
    skip,       \* whether a failed source is skipped
    outcome,    \* outcome[i]: what source i yielded
    running,    \* sources being fetched
    drained,    \* the stream of sources has returned None
    collected,  \* indices of the finished sources in the order they finished
    result      \* what the load returned

vars == <<skip, outcome, running, drained, collected, result>>

Unfinished == [kind |-> "none", value |-> <<>>]
Error == [kind |-> "error", value |-> <<>>]
Loaded(value) == [kind |-> "ok", value |-> value]

Sources == DOMAIN outcome
Started == running \cup Range(collected)

Smaller(a, b) == IF a < b THEN a ELSE b
Larger(a, b) == IF a < b THEN b ELSE a

\* Mutation: the lower bound of 1 is missing.
ConcurrencyMayBeZero == Smaller(FetchConcurrency, Cardinality(Sources))

\* fetch_concurrency.min(len).max(1)
Concurrency == Larger(Smaller(FetchConcurrency, Cardinality(Sources)), 1)

-----------------------------------------------------------------------------
Init ==
    /\ skip \in SkipFailed
    /\ \E n \in MinSources .. MaxSources : outcome = [i \in 1 .. n |-> Pending]
    /\ running = {}
    /\ drained = FALSE
    /\ collected = <<>>
    /\ result = Unfinished

\* Mutation: the buffer is filled before its length is looked at.
PollLate ==
    /\ result = Unfinished
    /\ ~drained
    /\ Cardinality(running) <= Concurrency
    /\ IF Sources = Started
       THEN drained' = TRUE /\ UNCHANGED running
       ELSE /\ running' = running \cup {Cardinality(Started) + 1}
            /\ UNCHANGED drained
    /\ UNCHANGED <<skip, outcome, collected, result>>

\* buffer_unordered pulls the next source while it has room for it.
Poll ==
    /\ result = Unfinished
    /\ ~drained
    /\ Cardinality(running) < Concurrency
    /\ IF Sources = Started
       THEN drained' = TRUE /\ UNCHANGED running
       ELSE /\ running' = running \cup {Cardinality(Started) + 1}
            /\ UNCHANGED drained
    /\ UNCHANGED <<skip, outcome, collected, result>>

\* Mutation: sources run as tasks of their own, which an error does not stop.
FinishDetached(i) ==
    /\ i \in running
    /\ \E o \in Contents \cup {Failed} :
        /\ outcome' = [outcome EXCEPT ![i] = o]
        /\ result' = IF o = Failed /\ ~skip THEN Error ELSE result
    /\ running' = running \ {i}
    /\ collected' = Append(collected, i)
    /\ UNCHANGED <<skip, drained>>

\* A source finishes.  An error that is not skipped ends try_collect, which
\* drops the stream and with it every fetch that still runs.
Finish(i) ==
    /\ result = Unfinished
    /\ i \in running
    /\ \E o \in Contents \cup {Failed} :
        /\ outcome' = [outcome EXCEPT ![i] = o]
        /\ IF o = Failed /\ ~skip
           THEN result' = Error /\ running' = {}
           ELSE result' = result /\ running' = running \ {i}
    /\ collected' = Append(collected, i)
    /\ UNCHANGED <<skip, drained>>

\* Mutation: what was collected is used as it is.
UseUnsorted(s) == s

\* The element of S with k elements up to it.
KthSmallest(S, k) == CHOOSE i \in S : Cardinality({j \in S : j <= i}) = k

\* sort_by_key(|(index, ..)| *index)
SortByIndex(s) == [k \in DOMAIN s |-> KthSmallest(Range(s), k)]

\* Every fetch is done and the stream is exhausted.
Deliver ==
    LET order == IF Sorts THEN SortByIndex(collected) ELSE collected IN
    /\ result = Unfinished
    /\ drained
    /\ running = {}
    /\ result' = Loaded([k \in DOMAIN order |-> outcome[order[k]]])
    /\ UNCHANGED <<skip, outcome, running, drained, collected>>

Returned == result # Unfinished /\ UNCHANGED vars

Next ==
    \/ Poll
    \/ \E i \in Sources : Finish(i)
    \/ Deliver
    \/ Returned

\* The task is polled, and every fetch ends: a download has a timeout.
Fairness ==
    /\ WF_vars(Poll)
    /\ WF_vars(\E i \in Sources : Finish(i))
    /\ WF_vars(Deliver)

Spec == Init /\ [][Next]_vars

FairSpec == Spec /\ Fairness

-----------------------------------------------------------------------------
(* Properties *)

\* Every variable has its type.
TypeOK ==
    /\ skip \in BOOLEAN
    /\ \E n \in MinSources .. MaxSources :
        /\ outcome \in [1 .. n -> Contents \cup {Failed, Pending}]
        /\ running \in SUBSET (1 .. n)
        /\ collected \in Seq(1 .. n)
    /\ drained \in BOOLEAN
    /\ result.kind \in {"none", "error", "ok"}
    /\ result.value \in Seq(Contents \cup {Failed})

\* A request fetches at most fetch_concurrency sources at a time, one if the
\* setting is 0.
ConcurrencyBounded == Cardinality(running) <= Larger(FetchConcurrency, 1)

\* Once the load has returned nothing is fetched on its behalf any more.
NothingRunsAfterwards == result # Unfinished => running = {}

\* Loading returns what the list-ordered load of OrderedLoad returns: the order
\* in which sources finish never shows in nodes, metadata or rules.
Ordered == INSTANCE OrderedLoad WITH skip <- skip, outcome <- outcome, result <- result
ImplementsOrderedLoad == Ordered!Spec

\* Every load returns, also that of an empty list.
EveryLoadReturns == <>(result # Unfinished)

=============================================================================
