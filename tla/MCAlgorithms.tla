---------------------------- MODULE MCAlgorithms ----------------------------
(* Small instances of Algorithms for TLC.  In the names of proxies, word 10  *)
(* is `a=` and word 11 is `a-`.                                              *)
EXTENDS Algorithms

MCLabel == [k \in Kinds |-> IF k = "vmess" THEN 20 ELSE 21]
MCWords == {2, 3, 10, 11, 20, 21}
MCDash == [w \in MCWords |-> IF w = 10 THEN 11 ELSE w]

\* `a=`, `a-`, `a- 2` and `a- 2 2`
MCNames == {<<10>>, <<11>>, <<11, 2>>, <<11, 2, 2>>}

\* A name, and the name with a number.
FewNames == {<<11>>, <<11, 2>>}

ChainInputs == INSTANCE ProxyChainInputs
MCNumerals == ChainInputs!SomeNumerals
MCTexts == ChainInputs!SomeTexts
MCPreferences == ChainInputs!SomePreferences

GroupInputs == INSTANCE ExternalGroupsInputs
MCGroupFiles == GroupInputs!SomeFiles
MCNodeLists == GroupInputs!SomeNodeLists

\* Up to three variables, with defaults among them and paths in conflict.
Paths == {<<"url">>, <<"clash">>, <<"clash", "dns">>, <<"clash", "dns", "x">>, <<"clash", "x">>,
          <<"a", "b">>, <<"a", "c">>}
MCRequests == UNION {[paths -> {"v"}] : paths \in {ps \in SUBSET Paths : Cardinality(ps) <= 3}}
MCGlobalLists ==
    {<<>>, <<[path |-> <<"a", "b">>, value |-> "1"], [path |-> <<"a", "b">>, value |-> "2"]>>}
MCTagSets == {{}, {"geosite"}, {"other"}}

RewriteInputs == INSTANCE PrivateRewriteInputs
MCPrivateFiles == RewriteInputs!SomeFiles
MCEnvironment == RewriteInputs!SomeEnvironment

MCRulesOf == [none |-> <<>>, one |-> <<"a">>, two |-> <<"a", "b">>, binary |-> <<>>]

MrsInputs == INSTANCE MrsPayloadInputs
MCDomainLists == MrsInputs!SomeDomainLists
MCNetworkLists == MrsInputs!SomeNetworkLists
MCOrder == MrsInputs!SomeOrder
MCLower == MrsInputs!SomeLower

=============================================================================
