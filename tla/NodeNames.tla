----------------------------- MODULE NodeNames -----------------------------
(***************************************************************************)
(* prepare_nodes (crates/easysub-core/src/export/mod.rs): the names under  *)
(* which proxies are exported.  A name is a sequence of words, a word a    *)
(* number, so that `base counter` is Append(base, counter), and a name that *)
(* ends in a number can also come from the subscription.                   *)
(***************************************************************************)
EXTENDS Integers, SequencesExt

CONSTANTS
    Kinds,     \* the kinds of proxies
    Label,     \* Label[k]: the word `[label]` of kind k
    Dropped,   \* the kinds the target has no form for (Snell in sing-box)
    Words,     \* the words names are made of
    Dash,      \* Dash[w]: w with every `=` replaced by `-`
    Names,     \* the names subscriptions use
    MaxNodes   \* bound on the number of proxies

ASSUME NamesAssumption ==
    /\ Words \subseteq Nat
    /\ Label \in [Kinds -> Words]
    /\ Dash \in [Words -> Words]
    /\ Names \subseteq Seq(Words)
    /\ Dropped \subseteq Kinds
    /\ MaxNodes \in Nat

VARIABLES
    nodes,    \* the proxies: kind and name, in subscription order
    prefix,   \* append_type
    sort,     \* sort
    names,    \* the names given so far
    used,     \* names that are taken
    next,     \* the counter of every name that was wanted twice
    exported  \* the positions of the exported proxies, in output order

vars == <<nodes, prefix, sort, names, used, next, exported>>

Unfinished == <<0>>
Naming == exported = Unfinished
Current == Len(names) + 1
Positions == 1 .. Len(nodes)

\* `[label] name`, with `=` replaced
Wanted(i) ==
    LET name == IF prefix THEN <<Label[nodes[i].kind]>> \o nodes[i].name ELSE nodes[i].name IN
    [k \in DOMAIN name |-> Dash[name[k]]]

Counter(name) == IF name \in DOMAIN next THEN next[name] ELSE 2

Candidate(name) == Append(name, Counter(name))

Counted(name, n) == [m \in DOMAIN next \cup {name} |-> IF m = name THEN n ELSE next[m]]

-----------------------------------------------------------------------------
Init ==
    /\ \E n \in 0 .. MaxNodes : nodes \in [1 .. n -> [kind : Kinds, name : Names]]
    /\ prefix \in BOOLEAN
    /\ sort \in BOOLEAN
    /\ names = <<>>
    /\ used = {}
    /\ next = <<>>
    /\ exported = Unfinished

Name(name) ==
    /\ names' = Append(names, name)
    /\ used' = used \cup {name}
    /\ UNCHANGED <<nodes, prefix, sort, exported>>

\* used.insert(name) succeeds
Keep ==
    /\ Naming
    /\ Current \in Positions
    /\ Wanted(Current) \notin used
    /\ Name(Wanted(Current))
    /\ UNCHANGED next

\* Mutation: the candidate is not looked up among the names in use.
SuffixUnchecked ==
    /\ Naming
    /\ Current \in Positions
    /\ Wanted(Current) \in used
    /\ Name(Candidate(Wanted(Current)))
    /\ next' = Counted(Wanted(Current), Counter(Wanted(Current)) + 1)

\* Mutation: the counter is the position of the proxy.
SuffixByPosition ==
    /\ Naming
    /\ Current \in Positions
    /\ Wanted(Current) \in used
    /\ Append(Wanted(Current), Current + 1) \notin used
    /\ Name(Append(Wanted(Current), Current + 1))
    /\ next' = Counted(Wanted(Current), Current + 2)

\* One turn of the loop with a candidate that is free ...
Suffix ==
    /\ Naming
    /\ Current \in Positions
    /\ Wanted(Current) \in used
    /\ Candidate(Wanted(Current)) \notin used
    /\ Name(Candidate(Wanted(Current)))
    /\ next' = Counted(Wanted(Current), Counter(Wanted(Current)) + 1)

\* Mutation: the loop tries the same candidate again.
CountNothing ==
    /\ Naming
    /\ Current \in Positions
    /\ Wanted(Current) \in used
    /\ Candidate(Wanted(Current)) \in used
    /\ next' = Counted(Wanted(Current), Counter(Wanted(Current)))
    /\ UNCHANGED <<nodes, prefix, sort, names, used, exported>>

\* ... and with one that is not.
Count ==
    /\ Naming
    /\ Current \in Positions
    /\ Wanted(Current) \in used
    /\ Candidate(Wanted(Current)) \in used
    /\ next' = Counted(Wanted(Current), Counter(Wanted(Current)) + 1)
    /\ UNCHANGED <<nodes, prefix, sort, names, used, exported>>

\* Names compare word by word, a prefix first.
Before(a, b) ==
    \/ IsStrictPrefix(a, b)
    \/ \E k \in DOMAIN a \cap DOMAIN b :
        /\ SubSeq(a, 1, k - 1) = SubSeq(b, 1, k - 1)
        /\ a[k] < b[k]

\* The optional sort by name, and retain in the sing-box exporter.
Export ==
    LET order == IF sort THEN SetToSortSeq(Positions, LAMBDA i, j : Before(names[i], names[j]))
                 ELSE [i \in Positions |-> i]
    IN
    /\ Naming
    /\ Current \notin Positions
    /\ exported' = SelectSeq(order, LAMBDA i : nodes[i].kind \notin Dropped)
    /\ UNCHANGED <<nodes, prefix, sort, names, used, next>>

Exported == ~Naming /\ UNCHANGED vars

Next == Keep \/ Suffix \/ Count \/ Export \/ Exported

Spec == Init /\ [][Next]_vars

FairSpec == Spec /\ WF_vars(Next)

-----------------------------------------------------------------------------
(* Properties *)

\* Every variable has its type.
TypeOK ==
    /\ nodes \in Seq([kind : Kinds, name : Names])
    /\ prefix \in BOOLEAN
    /\ sort \in BOOLEAN
    /\ names \in Seq(Seq(Nat))
    /\ used \subseteq Seq(Nat)
    /\ DOMAIN next \subseteq Seq(Nat)
    /\ \A name \in DOMAIN next : next[name] \in Nat
    /\ exported \in Seq(Nat)

\* No two proxies get the same name, also when the name made for one of them is
\* the name another one came with.
NamesDistinct == \A i, j \in DOMAIN names : i # j => names[i] # names[j]

Earlier(i) == {names[j] : j \in 1 .. i - 1}

\* A proxy keeps its name unless an earlier one has it, and then gets the first
\* number that is free: names depend only on the proxies before, and numbers
\* have no gaps.
NumbersHaveNoGaps ==
    \A i \in DOMAIN names :
        \/ names[i] = Wanted(i)
        \/ /\ Wanted(i) \in Earlier(i)
           /\ names[i] = Append(Wanted(i), Last(names[i]))
           /\ Last(names[i]) >= 2
           /\ \A m \in 2 .. Last(names[i]) - 1 : Append(Wanted(i), m) \in Earlier(i)

\* Naming ends: a free number is found for every proxy.
NamingEnds == <>~Naming

\* legacy/docs/RUST_MIGRATION.md:61 and the test of
\* legacy/export/singbox/ruleset_http_client_test.go:32: proxies that are
\* skipped do not reserve names.
SkippedReserveNothing ==
    ~Naming =>
        \A i \in Range(exported) :
            \/ names[i] = Wanted(i)
            \/ \E j \in Range(exported) : j < i /\ names[j] = Wanted(i)

=============================================================================
