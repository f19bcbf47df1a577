--------------------------- MODULE PrivateRewrite ---------------------------
(***************************************************************************)
(* Expanding the variables of private subscriptions (prepare and expand in *)
(* crates/easysub-core/src/private.rs).  A text is a sequence of tokens,   *)
(* words and references; form encoding encodes every word, and what is     *)
(* encoded is no reference any more.  `expand` replaces one variable after *)
(* the other, in the order of a HashMap.  A reference is one token, so one *)
(* that forms when two values meet, as `{a` and `}` do, cannot be said.    *)
(***************************************************************************)
EXTENDS Integers, Sequences

CONSTANTS
    Files,        \* what a file may hold: vars, pairs of a name and a text, and a rewrite
    Environment   \* the values of environment variables, as texts

VARIABLES
    file,       \* the file that is loaded
    index,      \* variables handled so far
    variables,  \* what they stand for
    current,    \* the text that is being expanded
    todo,       \* the variables still to be replaced in it
    phase,      \* "variable", "expanding", "rewrite", "routing", "ready"
    route       \* what the rewrite became

vars == <<file, index, variables, current, todo, phase, route>>

Encoded(token) == [is |-> "encoded", of |-> token]

FormEncode(text) == [k \in DOMAIN text |-> Encoded(text[k])]

IsRefTo(token, name) == token.is = "ref" /\ token.of = name

\* A text in which every reference to a name that is bound is what it is bound to.
Substitute(text, bound) ==
    LET upTo[n \in 0 .. Len(text)] ==
            IF n = 0 THEN <<>>
            ELSE upTo[n - 1] \o
                 IF text[n].is = "ref" /\ text[n].of \in DOMAIN bound THEN bound[text[n].of]
                 ELSE <<text[n]>>
    IN upTo[Len(text)]

\* One turn of the fold of expand: output.replace(&format!("{{{key}}}"), value).
Replace(text, name, value) == Substitute(text, [n \in {name} |-> value])

\* resolve_environment: a text that names a variable of the environment, if it is set.
ResolveEnvironment(text) ==
    IF Len(text) = 1 /\ text[1].is = "env" /\ text[1].of \in DOMAIN Environment
    THEN Environment[text[1].of] ELSE text

Init ==
    /\ file \in Files
    /\ index = 0
    /\ variables = <<>>
    /\ current = <<>>
    /\ todo = {}
    /\ phase = "variable"
    /\ route = <<>>

StartVariable ==
    /\ phase = "variable"
    /\ index < Len(file.vars)
    /\ current' = ResolveEnvironment(file.vars[index + 1].value)
    /\ todo' = DOMAIN variables
    /\ phase' = "expanding"
    /\ UNCHANGED <<file, index, variables, route>>

\* One step of the fold of expand.
ReplaceOne ==
    /\ phase \in {"expanding", "routing"}
    /\ \E name \in todo :
          /\ current' = Replace(current, name, variables[name])
          /\ todo' = todo \ {name}
    /\ UNCHANGED <<file, index, variables, phase, route>>

\* Mutation: the first value of a name stays.
KeepFirst(named, name, value) ==
    [n \in DOMAIN named \cup {name} |-> IF n \in DOMAIN named THEN named[n] ELSE value]

\* A name that comes twice has its last value.
Bind(named, name, value) ==
    [n \in DOMAIN named \cup {name} |-> IF n = name THEN value ELSE named[n]]

Define ==
    /\ phase = "expanding"
    /\ todo = {}
    /\ variables' = Bind(variables, file.vars[index + 1].key, current)
    /\ index' = index + 1
    /\ phase' = "variable"
    /\ UNCHANGED <<file, current, todo, route>>

Encode(named) == [name \in DOMAIN named |-> FormEncode(named[name])]

StartRewrite ==
    /\ phase = "variable"
    /\ index = Len(file.vars)
    /\ variables' = Encode(variables)
    /\ todo' = DOMAIN variables
    /\ current' = file.rewrite
    /\ phase' = "routing"
    /\ UNCHANGED <<file, index, route>>

Route ==
    /\ phase = "routing"
    /\ todo = {}
    /\ route' = current
    /\ phase' = "ready"
    /\ UNCHANGED <<file, index, variables, current, todo>>

Next == StartVariable \/ ReplaceOne \/ Define \/ StartRewrite \/ Route

Spec == Init /\ [][Next]_vars

-----------------------------------------------------------------------------
(* The inputs *)

IsText(text) == text \in Seq({text[k] : k \in DOMAIN text})

RewriteAssumption ==
    /\ \A name \in DOMAIN Environment : IsText(Environment[name])
    /\ \A f \in Files :
          /\ f.vars \in Seq({f.vars[k] : k \in DOMAIN f.vars})
          /\ \A k \in DOMAIN f.vars : IsText(f.vars[k].value)
          /\ IsText(f.rewrite)

-----------------------------------------------------------------------------
(* Properties *)

Value(variable) == ResolveEnvironment(variable.value)

\* The names among the first n variables, and where each of them is given last.
NamesWithin(list, n) == {list[k].key : k \in 1 .. n}
LastWithin(list, name, n) ==
    CHOOSE k \in 1 .. n :
        list[k].key = name /\ \A later \in k + 1 .. n : list[later].key # name

\* Variables as their author reads them: a reference stands for the last
\* variable of that name above it.
Meanings(list) ==
    LET meaning[k \in DOMAIN list] ==
            Substitute(Value(list[k]),
                [name \in NamesWithin(list, k - 1) |-> meaning[LastWithin(list, name, k - 1)]])
    IN meaning

\* ... and a rewrite.
Intended(list, rewrite) ==
    LET n == Len(list)
    IN Substitute(rewrite,
           [name \in NamesWithin(list, n) |->
               FormEncode(Meanings(list)[LastWithin(list, name, n)])])

\* Every variable a text refers to is defined above it, or nowhere.
Ordered(list) ==
    \A k, later \in DOMAIN list :
        LET text == Value(list[k])
        IN (\E j \in DOMAIN text : IsRefTo(text[j], list[later].key)) =>
              list[later].key \in NamesWithin(list, k - 1)

\* A file whose variables only refer to earlier ones gives its routes one
\* meaning, whatever order the HashMap has (prepare in private.rs).
RouteIsIntended ==
    phase = "ready" /\ Ordered(file.vars) => route = Intended(file.vars, file.rewrite)

=============================================================================
