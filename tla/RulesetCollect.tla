--------------------------- MODULE RulesetCollect ---------------------------
(***************************************************************************)
(* What GET /ruleset makes of the contents it loaded (the closure given to *)
(* spawn_blocking in src/api.rs): it normalizes one content after another  *)
(* until max_allowed_rules is reached and encodes the rules, as a set.     *)
(* The contents come in the order they finished loading: this instance of  *)
(* SourceLoader neither sorts nor skips.                                   *)
(***************************************************************************)
EXTENDS SourceLoader

CONSTANTS
    MaxRules,    \* advance.max_allowed_rules, 0 for no limit
    RulesOf,     \* RulesOf[c]: the rules normalization finds in content c
    NotText      \* the contents that are not UTF-8

\* GET /ruleset skips no source.
CollectAssumption ==
    /\ MaxRules \in Nat
    /\ SkipFailed = {FALSE}
    /\ RulesOf \in [Contents -> Seq(STRING)]

-----------------------------------------------------------------------------
Nothing == [rules |-> <<>>, status |-> 0]

\* Mutation: every content may add as many rules as the whole request.
TakeUpToLimit(rules, acc) ==
    acc \o IF MaxRules = 0 THEN rules
           ELSE SubSeq(rules, 1, Smaller(MaxRules, Len(rules)))

\* normalize_rules_allow_empty(text, behavior, remaining)
Take(rules, acc) ==
    acc \o IF MaxRules = 0 THEN rules
           ELSE SubSeq(rules, 1, Smaller(MaxRules - Len(acc), Len(rules)))

\* Mutation: a content that is not text ends the loop instead of the request.
AddContentUntilBinary(acc, c) ==
    IF acc.status # 0 THEN acc
    ELSE IF c \in NotText THEN [acc EXCEPT !.status = 200]
    ELSE IF MaxRules > 0 /\ Len(acc.rules) = MaxRules THEN [acc EXCEPT !.status = 200]
    ELSE [acc EXCEPT !.rules = Take(RulesOf[c], acc.rules)]

\* One turn of the loop: a content that is not text is an error, a full list
\* ends the loop, in this order.
AddContent(acc, c) ==
    IF acc.status # 0 THEN acc
    ELSE IF c \in NotText THEN [acc EXCEPT !.status = 400]
    ELSE IF MaxRules > 0 /\ Len(acc.rules) = MaxRules THEN [acc EXCEPT !.status = 200]
    ELSE [acc EXCEPT !.rules = Take(RulesOf[c], acc.rules)]

\* The loop over the contents.
AddAll(contents) ==
    LET after[n \in 0 .. Len(contents)] ==
            IF n = 0 THEN Nothing ELSE AddContent(after[n - 1], contents[n])
    IN after[Len(contents)]

\* The answer: the status, and the set of rules in the payload.
Encode(contents) ==
    LET end == AddAll(contents) IN
    IF end.status = 400 THEN [status |-> 400, rules |-> {}]
    ELSE IF end.rules = <<>> THEN [status |-> 500, rules |-> {}]
    ELSE [status |-> 200, rules |-> Range(end.rules)]

-----------------------------------------------------------------------------
(* Properties *)

Answered == result.kind = "ok"

RulesIn(contents) ==
    LET total[n \in 0 .. Len(contents)] ==
            IF n = 0 THEN 0 ELSE total[n - 1] + Len(RulesOf[contents[n]])
    IN total[Len(contents)]
TotalRules == RulesIn(result.value)

\* The rules of all contents together never exceed max_allowed_rules, and fill
\* it when there are enough of them.
LimitIsExact ==
    Answered /\ MaxRules > 0 /\ Range(result.value) \cap NotText = {} =>
        Len(AddAll(result.value).rules) = Smaller(TotalRules, MaxRules)

\* Below the limit the answer does not depend on the order in which the
\* sources finished.
OrderIrrelevantBelowLimit ==
    Answered /\ (MaxRules = 0 \/ TotalRules < MaxRules) =>
        Encode(result.value) = Encode(outcome)

=============================================================================
