------------------------------- MODULE Filters -------------------------------
(***************************************************************************)
(* The elements of a sequence that are in a set, in their order: what the  *)
(* crates write as filter, filter_map or retain.  It is SelectSeq with the *)
(* test given as a set, which the proofs can reason about.  The CHOOSE has *)
(* no choice; it makes TLC evaluate s once.                                *)
(***************************************************************************)
EXTENDS Integers, Sequences

\* What there is of kept among the first n elements of s.
Among(s, kept) ==
    LET among[n \in 0 .. Len(s)] ==
            IF n = 0 THEN <<>>
            ELSE IF s[n] \in kept THEN Append(among[n - 1], s[n])
            ELSE among[n - 1]
    IN among[Len(s)]

Filter(s, kept) == CHOOSE f \in {Among(t, kept) : t \in {s}} : TRUE

=============================================================================
