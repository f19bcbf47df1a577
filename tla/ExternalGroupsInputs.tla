------------------------ MODULE ExternalGroupsInputs ------------------------
(* Files of a line that is not a group, a group of up to three selectors and *)
(* a second group, with three nodes of two sources.                          *)
EXTENDS Integers, Sequences

Node(name, group, type, server, port, id) ==
    [name |-> name, group |-> group, type |-> type, server |-> server, port |-> port, id |-> id]

SomeNodeLists == {
    <<Node("a", "hk", "TROJAN", "s", 1, 0), Node("b", "", "VMESS", "t", 3, 1),
      Node("c", "hk", "VMESS", "t", 5, 2)>>,
    <<>>}

Regex(texts) == [compiles |-> TRUE, finds |-> texts]
Broken == [compiles |-> FALSE, finds |-> {}]

Name(regex) == [is |-> "name", regex |-> regex]
Field(field, regex, tail) == [is |-> field, regex |-> regex, tail |-> tail]
Span(field, items, tail) == [is |-> field, items |-> items, tail |-> tail]
Item(negated, low, high) == [negated |-> negated, low |-> low, high |-> high]
Literal(name) == [is |-> "literal", name |-> name]

\* Items with a negative number are those of INSERT that can be spelled.  The
\* item without a bound is the empty text: the expression !3, ends with one.
Empty == Item(FALSE, {}, {})
Items == {
    {Item(FALSE, {1}, {3}), Item(TRUE, {3}, {3})}, {Item(TRUE, {3}, {3})},
    {Item(TRUE, {2}, {}), Item(FALSE, {}, {5})},
    {Item(TRUE, {3}, {3}), Empty}}
Inserts == {{Item(FALSE, {-1}, {-1}), Item(FALSE, {0}, {})}, {Item(TRUE, {-1}, {})},
    {Item(FALSE, {-2}, {-2}), Item(TRUE, {0}, {4})}}

Selectors ==
    {Name(Regex({"a", "b", "c"})), Name(Broken), Literal("DIRECT"), Literal("b"),
     Field("GROUP", Regex({"hk"}), <<Regex({"c"})>>), Field("TYPE", Regex({"VMESS"}), <<>>),
     Field("SERVER", Regex({"s"}), <<Broken>>),
     [is |-> "provider", names |-> <<"p", "q">>]}
    \cup {Span("PORT", items, <<>>) : items \in Items}
    \cup {Span("INSERT", items, <<>>) : items \in Inserts}
    \cup {Span("GROUPID", items, <<Regex({"b"})>>) : items \in {{Item(FALSE, {1}, {})}, {Empty}}}

Times == [is |-> "times", interval |-> 300, tolerance |-> 50]
Url == [is |-> "url"]

GroupLine(name, kind, parts) == [is |-> "group", name |-> name, kind |-> kind, parts |-> parts]
Ruleset(group, prefix, source, inline) ==
    [is |-> "ruleset", group |-> group, prefix |-> prefix, source |-> source, interval |-> 60,
     inline |-> inline]
Section(name) == [is |-> "section", custom |-> name]

Before ==
    {<<>>, <<Section(FALSE), Ruleset("g", "", "x", TRUE)>>,
     <<Section(TRUE), Ruleset("g", "quanx:", "u", FALSE), Ruleset("", "", "x", TRUE),
       [is |-> "setting", key |-> "enable_rule_generator", value |-> "maybe"],
       [is |-> "base", target |-> "clash", source |-> "b"], [is |-> "other"]>>}

SomeFiles ==
    {before \o <<Section(TRUE), GroupLine("g", "select", <<one, two, three>>)>> :
        before \in Before, one \in Selectors, two \in Selectors, three \in Selectors}
    \cup {before \o <<GroupLine("g", kind, <<one>> \o rest),
                      GroupLine("h", "url-test", <<two, Url, Times>>)>> :
            before \in Before, one \in Selectors, two \in Selectors,
            kind \in {"load-balance", "relay", "unknown"}, rest \in {<<>>, <<Url, Times>>}}

=============================================================================
