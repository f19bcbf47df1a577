-------------------------- MODULE MCSourceLoader --------------------------
(* Small instances of SourceLoader for TLC. *)
EXTENDS SourceLoader
=============================================================================
