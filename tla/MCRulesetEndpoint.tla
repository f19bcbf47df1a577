------------------------- MODULE MCRulesetEndpoint -------------------------
(* A small instance of RulesetEndpoint for TLC.  Requests are not taken as   *)
(* interchangeable, since the run checks that each of them ends.             *)
EXTENDS RulesetEndpoint
=============================================================================
