-------------------------- MODULE TemplateVariables --------------------------
(***************************************************************************)
(* The variables of a Liquid template (render, expand_ruleset_tags and     *)
(* insert_dotted in crates/easysub-core/src/template.rs).  A variable is a *)
(* path of words; the variables of a request come in the order of a        *)
(* HashMap, the global ones in the order of the configuration.  An object  *)
(* is a function from paths to values, in which `Nested` is an object.     *)
(***************************************************************************)
EXTENDS Naturals, Sequences, SequencesExt, FiniteSets, TLC

CONSTANTS
    Requests,    \* the variables a request may have: functions from paths to values
    GlobalLists, \* template.globals: sequences of records with a path and a value
    TagSets,     \* the kinds of {% ruleset %} tags of a template
    Transforms,  \* the kinds with a sing-box transform
    Targets      \* subset of {"clash", "singbox"}

\* A variable has a path of words, at least one; a key without words inserts
\* nothing, and of the keys that split into the same words a request has one.
TemplateAssumption == \A r \in Requests : DOMAIN r \subseteq Seq(STRING) \ {<<>>}

VARIABLES
    target,    \* whether the template is for sing-box
    tags,      \* the ruleset tags of the template
    request,   \* the variables of the request
    pending,   \* those of them not inserted yet
    globals,   \* the global variables not inserted yet
    requestObject, globalObject,
    outcome    \* "expand", "insert", "globals", "rendered", "config error", "panic"

vars == <<target, tags, request, pending, globals, requestObject, globalObject, outcome>>

Nested == "{}"

\* What a request has before its own variables.
Defaults ==
    (<<"clash">> :> Nested) @@ (<<"clash", "dns">> :> "false")
    @@ (<<"singbox">> :> Nested) @@ (<<"singbox", "ipv6">> :> "false")
    @@ (<<"singbox", "enable_tun">> :> "false")

Above(path) == {SubSeq(path, 1, k) : k \in 1 .. Len(path) - 1}

IsBelow(path, other) == Len(path) > Len(other) /\ SubSeq(path, 1, Len(other)) = other

\* A value stands where an object is needed.
Blocked(object, path) == \E up \in Above(path) : up \in DOMAIN object /\ object[up] # Nested

\* Mutation: what is there already is kept.
InsertIfNew(object, path, value) ==
    object @@ (path :> value) @@ [up \in Above(path) |-> Nested]

\* insert_dotted: objects on the way are made, and whatever was there is replaced.
InsertDotted(object, path, value) ==
    LET kept == {p \in DOMAIN object : ~IsBelow(p, path)} IN
    [p \in kept \cup Above(path) \cup {path} |->
        IF p = path THEN value ELSE IF p \in kept THEN object[p] ELSE Nested]

Init ==
    /\ target \in Targets
    /\ tags \in TagSets
    /\ request \in Requests
    /\ pending = DOMAIN request
    /\ globals \in GlobalLists
    /\ requestObject = Defaults
    /\ globalObject = <<>>
    /\ outcome = "expand"

\* expand_ruleset_tags, for sing-box only: a tag without a transform is an error.
Expand ==
    /\ outcome = "expand"
    /\ outcome' = IF target = "singbox" /\ tags \ Transforms # {} THEN "config error" ELSE "insert"
    /\ UNCHANGED <<target, tags, request, pending, globals, requestObject, globalObject>>

InsertRequest ==
    /\ outcome = "insert"
    /\ \E path \in pending :
          /\ pending' = pending \ {path}
          /\ IF Blocked(requestObject, path)
             THEN outcome' = "panic" /\ UNCHANGED requestObject
             ELSE /\ requestObject' = InsertDotted(requestObject, path, request[path])
                  /\ UNCHANGED outcome
    /\ UNCHANGED <<target, tags, request, globals, globalObject>>

RequestDone ==
    /\ outcome = "insert"
    /\ pending = {}
    /\ outcome' = "globals"
    /\ UNCHANGED <<target, tags, request, pending, globals, requestObject, globalObject>>

InsertGlobal ==
    /\ outcome = "globals"
    /\ globals # <<>>
    /\ globals' = Tail(globals)
    /\ IF Blocked(globalObject, Head(globals).path)
       THEN outcome' = "panic" /\ UNCHANGED globalObject
       ELSE /\ globalObject' = InsertDotted(globalObject, Head(globals).path, Head(globals).value)
            /\ UNCHANGED outcome
    /\ UNCHANGED <<target, tags, request, pending, requestObject>>

Render ==
    /\ outcome = "globals"
    /\ globals = <<>>
    /\ outcome' = "rendered"
    /\ UNCHANGED <<target, tags, request, pending, globals, requestObject, globalObject>>

Next == Expand \/ InsertRequest \/ RequestDone \/ InsertGlobal \/ Render

Spec == Init /\ [][Next]_vars

-----------------------------------------------------------------------------
(* Properties *)

\* No variable of the request has a value where another one, or a default, has
\* an object, nor is one below a default that is no object.
Compatible ==
    \A path \in DOMAIN request :
        /\ \A other \in DOMAIN request \cup DOMAIN Defaults : ~IsBelow(other, path)
        /\ \A other \in DOMAIN Defaults : Defaults[other] # Nested => ~IsBelow(path, other)

\* When no variable stands in the way of another, every order of the HashMap
\* renders the same: each variable has the value of the request, each other
\* default its own, and there is nothing else (render in template.rs).
OrderDoesNotMatter ==
    Compatible /\ outcome \in {"globals", "rendered", "panic"} =>
        /\ pending = {}
        /\ \A path \in DOMAIN request : requestObject[path] = request[path]
        /\ \A path \in DOMAIN Defaults \ DOMAIN request : requestObject[path] = Defaults[path]
        /\ \A path \in DOMAIN requestObject \ (DOMAIN Defaults \cup DOMAIN request) :
              requestObject[path] = Nested

\* The assertion of insert_dotted: "dotted variable path must remain an object".
PathsRemainObjects == outcome # "panic"

=============================================================================
