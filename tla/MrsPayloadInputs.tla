-------------------------- MODULE MrsPayloadInputs --------------------------
(* Up to four domains over four characters, white space and two cases, and up *)
(* to three networks with every length in both families.                      *)
EXTENDS Integers, TLC

SomeOrder == (" " :> 32) @@ ("+" :> 43) @@ ("." :> 46) @@ ("a" :> 97) @@ ("b" :> 98)
SomeLower == [c \in {" ", "+", ".", "a", "A", "b"} |-> IF c = "A" THEN "a" ELSE c]

Domains == {
    <<>>, <<"a">>, <<"A", ".", "b">>, <<"b">>, <<"a", "b">>, <<"+", ".">>, <<"+", ".", "b">>,
    <<"+", ".", "a", ".", "b">>, <<"b", "b">>, <<" ", "+", ".", "a", " ">>, <<" ">>}

SomeDomainLists ==
    {<<>>} \cup UNION {[1 .. n -> Domains] : n \in 1 .. 3}
    \cup {<<a, <<"b", "a", "b">>, b, <<"+", ".", "a", "a">>>> : a \in Domains, b \in Domains}

Networks ==
    [valid : {TRUE}, v4 : {TRUE}, address : {0, 1, 3}, length : 0 .. 2]
    \cup [valid : {TRUE}, v4 : {FALSE}, address : {0, 6, 8, 15}, length : {0, 1, 3, 4}]
    \cup {[valid |-> FALSE]}

SomeNetworkLists == UNION {[1 .. n -> Networks] : n \in 1 .. 3}

=============================================================================
