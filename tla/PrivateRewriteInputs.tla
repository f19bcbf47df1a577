------------------------ MODULE PrivateRewriteInputs ------------------------
(* Files of three variables, with nested, forward, repeated and unknown      *)
(* names.                                                                    *)
EXTENDS TLC

Word(w) == [is |-> "word", of |-> w]
Ref(v) == [is |-> "ref", of |-> v]

SomeEnvironment == "HOME" :> <<Word("h"), Ref("a")>>

Values == {
    <<Word("x")>>, <<Ref("a")>>, <<Ref("b")>>, <<Word("y"), Ref("a"), Ref("b")>>,
    <<[is |-> "env", of |-> "HOME"]>>, <<[is |-> "env", of |-> "NONE"]>>}

Var(key, value) == [key |-> key, value |-> value]

SomeFiles ==
    {[vars |-> <<Var("a", v), Var(key, w), Var("c", u)>>,
      rewrite |-> <<Word("q"), Ref("c"), Ref("b"), Ref("none")>>] :
        v \in Values, w \in Values, u \in Values, key \in {"a", "b"}}

=============================================================================
