---------------------------- MODULE MCFetchCache ----------------------------
(* Small instances of FetchCache for TLC. *)
EXTENDS FetchCache, TLC

Interchangeable == Permutations(Calls)
=============================================================================
