----------------------------- MODULE RuleStream -----------------------------
(***************************************************************************)
(* What exporting rulesets promises, whatever a target writes: the rules   *)
(* of each ruleset are routed to its group, rulesets in their order, and   *)
(* no more rules than the limit.  The rules of a ruleset are a set: how    *)
(* they are written, in which order, twice, merged into objects or moved   *)
(* into providers, is not visible.                                         *)
(***************************************************************************)
EXTENDS Integers, Sequences

VARIABLES
    queue,   \* the rulesets to come: their group and their rules
    left,    \* how many rules may still be routed, -1 for no limit
    routed   \* per ruleset so far, the set of its rules with their group

vars == <<queue, left, routed>>

Rule == [kind : STRING, value : Seq(STRING)]

Init ==
    /\ queue \in Seq([group : STRING, rules : Seq(Rule)])
    /\ left \in Nat \cup {-1}
    /\ routed = <<>>

Within(rules) == IF left = -1 \/ Len(rules) <= left THEN rules ELSE SubSeq(rules, 1, left)

Route ==
    /\ queue # <<>>
    /\ left # 0
    /\ \E first \in {Head(queue)} : \E rules \in {Within(first.rules)} :
       /\ queue' = Tail(queue)
       /\ left' = IF left = -1 THEN -1 ELSE left - Len(rules)
       /\ routed' = Append(routed, {<<first.group, rules[k]>> : k \in DOMAIN rules})

Next == Route

Spec == Init /\ [][Next]_vars

=============================================================================
