---------------------------- MODULE OrderedLoad ----------------------------
(***************************************************************************)
(* What loading a list of sources promises, whatever order they arrive in: *)
(* the contents come back in the order of the list, a source that failed   *)
(* holds its place, and if failures are not skipped the first one observed *)
(* ends the load.  How many sources are fetched at a time, and in which    *)
(* order they finish, is not visible.                                      *)
(***************************************************************************)
EXTENDS Naturals, Sequences

CONSTANTS
    Contents,   \* what a source may yield
    Failed,     \* the outcome of a source that yields an error
    Pending,    \* the outcome of a source that has not finished
    MinSources, \* the least number of sources
    MaxSources  \* bound on the number of sources

VARIABLES
    skip,     \* advance.skip_failed_links
    outcome,  \* outcome[i]: what source i yielded
    result    \* what the load returned

vars == <<skip, outcome, result>>

Unfinished == [kind |-> "none", value |-> <<>>]
Error == [kind |-> "error", value |-> <<>>]
Loaded(value) == [kind |-> "ok", value |-> value]

Init ==
    /\ skip \in BOOLEAN
    /\ \E n \in MinSources .. MaxSources : outcome = [i \in 1 .. n |-> Pending]
    /\ result = Unfinished

Finish(i) ==
    /\ result = Unfinished
    /\ outcome[i] = Pending
    /\ \E o \in Contents \cup {Failed} :
        /\ outcome' = [outcome EXCEPT ![i] = o]
        /\ result' = IF o = Failed /\ ~skip THEN Error ELSE result
    /\ UNCHANGED skip

Deliver ==
    /\ result = Unfinished
    /\ \A i \in DOMAIN outcome : outcome[i] # Pending
    /\ result' = Loaded(outcome)
    /\ UNCHANGED <<skip, outcome>>

Next == Deliver \/ \E i \in DOMAIN outcome : Finish(i)

Spec == Init /\ [][Next]_vars

=============================================================================
