--------------------------- MODULE ExternalGroups ---------------------------
(***************************************************************************)
(* Proxy groups from the line of an external configuration to the members  *)
(* that are exported: parse in crates/easysub-core/src/external.rs reads a *)
(* line per step, members in group.rs takes a selector per step.  A        *)
(* regular expression is the set of texts it finds something in, or does   *)
(* not compile; the items of a range are read from their tokens.           *)
(***************************************************************************)
EXTENDS Filters, SequencesExt, TLC

CONSTANTS
    Files,     \* external configurations: sequences of lines
    NodeLists  \* prepared nodes: records with name, group, type, server, port, id

VARIABLES
    lines,     \* the lines not read yet
    custom,    \* in_custom
    config,    \* what parse has found
    nodes,     \* the nodes of the conversion
    members,   \* the members of the groups before
    selected,  \* the members of the current group
    selector,  \* selectors of the current group handled so far
    outcome    \* "reading", "selecting", "done", "bad request"

vars == <<lines, custom, config, nodes, members, selected, selector, outcome>>

-----------------------------------------------------------------------------
(* external.rs *)

Timed == {"url-test", "fallback", "load-balance"}
GroupKinds == Timed \cup {"select", "relay", "ssid"}

\* A group line has its name, its kind and the parts after them.
SelectorEnd(line) == IF line.kind \in Timed THEN Len(line.parts) - 2 ELSE Len(line.parts)

IsGroup(line) == line.kind \in GroupKinds /\ SelectorEnd(line) >= 1

IsProvider(part) == part.is = "provider"
IsSelector(part) == ~IsProvider(part)

Timing(line, field) ==
    IF line.kind \in Timed /\ Last(line.parts).is = "times" THEN Last(line.parts)[field] ELSE 0

\* parse_group
ParseGroup(line) ==
    LET parts == SubSeq(line.parts, 1, SelectorEnd(line))
        named == Filter(parts, {part \in ToSet(parts) : IsProvider(part)})
    IN [name |-> line.name,
        kind |-> line.kind,
        selectors |-> Filter(parts, {part \in ToSet(parts) : IsSelector(part)}),
        providers |-> FlattenSeq([k \in DOMAIN named |-> named[k].names]),
        url |-> line.kind \in Timed,
        interval |-> Timing(line, "interval"),
        tolerance |-> Timing(line, "tolerance")]

FormatOf == [prefix \in {"clash-domain:", "clash-ipcidr:", "clash:", "quanx:", "surge:", ""} |->
    CASE prefix = "clash-domain:" -> "ClashDomain"
      [] prefix = "clash-ipcidr:" -> "ClashIpCidr"
      [] prefix = "clash:" -> "ClashClassical"
      [] prefix = "quanx:" -> "QuanX"
      [] OTHER -> "Surge"]

IsRuleset(line) == line.group # "" /\ (line.inline \/ line.prefix \o line.source # "")

\* parse_ruleset: what follows the last comma is the interval when it is a number.
ParseRuleset(line) ==
    [group |-> line.group,
     source |-> line.source,
     interval |-> IF line.inline THEN 0 ELSE line.interval,
     format |-> IF line.inline THEN "Surge" ELSE FormatOf[line.prefix],
     inline |-> line.inline]

\* A setting that does not parse has its default.
SettingDefault == [overwrite_original_rules |-> FALSE, enable_rule_generator |-> TRUE]

Init ==
    /\ lines \in Files
    /\ custom = FALSE
    /\ config = [groups |-> <<>>, rulesets |-> <<>>, bases |-> <<>>, settings |-> SettingDefault]
    /\ nodes \in NodeLists
    /\ members = <<>>
    /\ selected = <<>>
    /\ selector = 0
    /\ outcome = "reading"

Read(kind) ==
    /\ outcome = "reading"
    /\ lines # <<>>
    /\ Head(lines).is = kind
    /\ lines' = Tail(lines)
    /\ UNCHANGED <<nodes, members, selected, selector, outcome>>

ReadSection ==
    /\ Read("section")
    /\ custom' = Head(lines).custom
    /\ UNCHANGED config

ReadGroup ==
    /\ Read("group")
    /\ config' = IF custom /\ IsGroup(Head(lines))
                 THEN [config EXCEPT !.groups = Append(@, ParseGroup(Head(lines)))] ELSE config
    /\ UNCHANGED custom

ReadRuleset ==
    /\ Read("ruleset")
    /\ config' = IF custom /\ IsRuleset(Head(lines))
                 THEN [config EXCEPT !.rulesets = Append(@, ParseRuleset(Head(lines)))] ELSE config
    /\ UNCHANGED custom

\* clash_rule_base, singbox_rule_base: the last line counts.
ReadBase ==
    /\ Read("base")
    /\ config' = IF custom
                 THEN [config EXCEPT !.bases = (Head(lines).target :> Head(lines).source) @@ @]
                 ELSE config
    /\ UNCHANGED custom

ReadSetting ==
    /\ Read("setting")
    /\ LET key == Head(lines).key IN
       config' = IF custom
                 THEN [config EXCEPT !.settings[key] =
                          IF Head(lines).value \in {"true", "false"} THEN Head(lines).value = "true"
                          ELSE SettingDefault[key]]
                 ELSE config
    /\ UNCHANGED custom

\* Comments, unknown keys, lines without a key.
ReadOther == Read("other") /\ UNCHANGED <<custom, config>>

Parsed ==
    /\ outcome = "reading"
    /\ lines = <<>>
    /\ outcome' = IF config.groups = <<>> /\ config.rulesets = <<>> THEN "bad request"
                  ELSE "selecting"
    /\ UNCHANGED <<lines, custom, config, nodes, members, selected, selector>>

-----------------------------------------------------------------------------
(* group.rs *)

\* The tokens of an item: a numeral, as its value, or a sign.
Plus == -1
Hyphen == -2

\* parse::<i64>: a numeral that may have a sign, as the set of its value or empty.
Number(tokens) ==
    CASE Len(tokens) = 1 /\ tokens[1] \in Nat -> {tokens[1]}
      [] Len(tokens) = 2 /\ tokens[1] = Plus /\ tokens[2] \in Nat -> {tokens[2]}
      [] Len(tokens) = 2 /\ tokens[1] = Hyphen /\ tokens[2] \in Nat -> {-tokens[2]}
      [] OTHER -> {}

EndsWith(tokens, token) == tokens # <<>> /\ Last(tokens) = token

\* The first hyphen, if there is something on either side of it.
SplitsAt(tokens) ==
    {k \in 2 .. Len(tokens) - 1 : tokens[k] = Hyphen /\ \A j \in 1 .. k - 1 : tokens[j] # Hyphen}

\* match_range_item
MatchRangeItem(tokens, target) ==
    CASE EndsWith(tokens, Plus) -> \E minimum \in Number(Front(tokens)) : target >= minimum
      [] EndsWith(tokens, Hyphen) /\ Head(tokens) # Hyphen ->
            \E maximum \in Number(Front(tokens)) : target <= maximum
      [] OTHER ->
            IF SplitsAt(tokens) = {} THEN target \in Number(tokens)
            ELSE \E k \in SplitsAt(tokens) :
                    \E begin \in Number(SubSeq(tokens, 1, k - 1)),
                       end \in Number(SubSeq(tokens, k + 1, Len(tokens))) :
                          begin <= target /\ target <= end

\* How an item is written: a lower bound, an upper bound, both or one number;
\* nothing stands between two commas, or in an empty expression.
Signed(n) == IF n < 0 THEN <<Hyphen, -n>> ELSE <<n>>
Spelling(item) ==
    CASE item.low = {} /\ item.high = {} -> {<<>>}
      [] item.high = {} /\ item.low # {} -> UNION {{Signed(n) \o <<Plus>>} : n \in item.low}
      [] item.low = {} /\ item.high # {} -> UNION {{Signed(n) \o <<Hyphen>>} : n \in item.high}
      [] item.low = item.high /\ item.low # {} -> {Signed(n) : n \in item.low}
      [] OTHER -> UNION {{Signed(m) \o <<Hyphen>> \o Signed(n) : m \in item.low} : n \in item.high}

ItemMatches(item, target) == \E tokens \in Spelling(item) : MatchRangeItem(tokens, target)

\* Mutation: an expression that only excludes selects nothing.
MatchRangePositive(items, target) ==
    /\ \A item \in items : item.negated => ~ItemMatches(item, target)
    /\ \E item \in items : ~item.negated /\ ItemMatches(item, target)

\* match_range, of the items between commas
MatchRange(items, target) ==
    /\ \A item \in items : item.negated => ~ItemMatches(item, target)
    /\ \/ \A item \in items : item.negated
       \/ \E item \in items : ~item.negated /\ ItemMatches(item, target)

IsMatch(regex, text) == regex.compiles /\ text \in regex.finds

\* RegexField and RangeField
FieldOf(node, field) ==
    CASE field = "GROUP" -> node.group
      [] field = "TYPE" -> node.type
      [] field = "SERVER" -> node.server
      [] field = "PORT" -> node.port
      [] field = "GROUPID" -> node.id
      [] field = "INSERT" -> -node.id

\* SelectorMatcher::matches, with a tail that looks at the name; a URL or a
\* timing that stands where a selector is expected is an expression for no name.
Matches(part, node) ==
    CASE part.is = "name" -> IsMatch(part.regex, node.name)
      [] part.is \in {"GROUP", "TYPE", "SERVER"} ->
            /\ IsMatch(part.regex, FieldOf(node, part.is))
            /\ \A k \in DOMAIN part.tail : IsMatch(part.tail[k], node.name)
      [] part.is \in {"PORT", "GROUPID", "INSERT"} ->
            /\ MatchRange(part.items, FieldOf(node, part.is))
            /\ \A k \in DOMAIN part.tail : IsMatch(part.tail[k], node.name)
      [] OTHER -> FALSE

Offer(list, name) == IF Contains(list, name) THEN list ELSE Append(list, name)

\* A list with what a selector adds to it: a literal, or the nodes it matches,
\* in their order.
WithSelected(list, part) ==
    LET after[n \in 0 .. Len(nodes)] ==
            IF n = 0 THEN list
            ELSE IF Matches(part, nodes[n]) THEN Offer(after[n - 1], nodes[n].name)
            ELSE after[n - 1]
    IN IF part.is = "literal" THEN Offer(list, part.name) ELSE after[Len(nodes)]

Group == config.groups[Len(members) + 1]

Select ==
    /\ outcome = "selecting"
    /\ Len(members) < Len(config.groups)
    /\ selector < Len(Group.selectors)
    /\ selected' = WithSelected(selected, Group.selectors[selector + 1])
    /\ selector' = selector + 1
    /\ UNCHANGED <<lines, custom, config, nodes, members, outcome>>

\* A group without a member has DIRECT.
FinishGroup ==
    /\ outcome = "selecting"
    /\ Len(members) < Len(config.groups)
    /\ selector = Len(Group.selectors)
    /\ members' = Append(members, IF selected = <<>> THEN <<"DIRECT">> ELSE selected)
    /\ selected' = <<>>
    /\ selector' = 0
    /\ UNCHANGED <<lines, custom, config, nodes, outcome>>

Finish ==
    /\ outcome = "selecting"
    /\ Len(members) = Len(config.groups)
    /\ outcome' = "done"
    /\ UNCHANGED <<lines, custom, config, nodes, members, selected, selector>>

Next ==
    \/ ReadSection \/ ReadGroup \/ ReadRuleset \/ ReadBase \/ ReadSetting \/ ReadOther
    \/ Parsed \/ Select \/ FinishGroup \/ Finish

Spec == Init /\ [][Next]_vars

-----------------------------------------------------------------------------
(* The groups that are written *)

\* clash.rs: a group that only names providers lists no proxies.
ClashGroup(group, list) ==
    [type |-> group.kind,
     proxies |-> IF group.selectors # <<>> \/ group.providers = <<>> THEN list ELSE <<>>,
     use |-> group.providers,
     url |-> group.url,
     interval |-> group.interval,
     tolerance |-> group.tolerance]

\* singbox.rs: providers are unknown there, and so are relay and ssid.
SingboxGroup(group, list) ==
    [type |-> IF group.kind \in Timed THEN "urltest" ELSE "selector",
     outbounds |-> list,
     interval |-> IF group.kind \in Timed /\ group.interval = 0 THEN 300 ELSE group.interval]

-----------------------------------------------------------------------------
(* The inputs *)

\* An item has at most one bound on either side, or is empty.  A hyphen after a
\* negative number does not split, so that neither -2- nor -2-5 says anything.
Writable(item) ==
    /\ item.low \subseteq Int /\ \A m, n \in item.low : m = n
    /\ item.high \subseteq Int /\ \A m, n \in item.high : m = n
    /\ item.low = {} => item.high \subseteq Nat
    /\ item.high # {} /\ item.high # item.low => item.low \subseteq Nat

IsPart(part) ==
    /\ IsProvider(part) => part.names \in Seq(STRING)
    /\ part.is \in {"PORT", "GROUPID", "INSERT"} =>
          part.items # {} /\ \A item \in part.items : Writable(item)

\* Prepared nodes have names of their own.
GroupsAssumption ==
    /\ \A file \in Files :
          /\ file \in Seq(ToSet(file))
          /\ \A line \in ToSet(file) : line.is = "group" =>
                /\ line.parts \in Seq(ToSet(line.parts))
                /\ \A part \in ToSet(line.parts) : IsPart(part)
    /\ \A list \in NodeLists :
          /\ list \in Seq(ToSet(list))
          /\ \A node \in ToSet(list) : node.port \in Nat /\ node.id \in Nat
          /\ \A j, k \in DOMAIN list : list[j].name = list[k].name => j = k

-----------------------------------------------------------------------------
(* Properties *)

\* What an expression says: the numbers it includes, without those it excludes;
\* an empty item includes none.
Includes(item, n) ==
    /\ item.low \cup item.high # {}
    /\ \A low \in item.low : n >= low
    /\ \A high \in item.high : n <= high
Says(items, n) ==
    /\ ~\E item \in items : item.negated /\ Includes(item, n)
    /\ (\E item \in items : ~item.negated) =>
          \E item \in items : ~item.negated /\ Includes(item, n)

\* A name is asked for by a selector of a list of nodes.
Asks(list, part, name) ==
    IF part.is = "literal" THEN part.name = name
    ELSE \E k \in DOMAIN list :
            /\ list[k].name = name
            /\ IF part.is \in {"PORT", "GROUPID", "INSERT"}
               THEN Says(part.items, FieldOf(list[k], part.is))
                    /\ \A j \in DOMAIN part.tail : IsMatch(part.tail[j], name)
               ELSE Matches(part, list[k])

FirstAsked(list, group, name) ==
    CHOOSE k \in DOMAIN group.selectors :
        /\ Asks(list, group.selectors[k], name)
        /\ \A j \in 1 .. k - 1 : ~Asks(list, group.selectors[j], name)

\* Where a name stands among the nodes, or 0.
PlaceOf(list, name) ==
    IF \E k \in DOMAIN list : list[k].name = name
    THEN CHOOSE k \in DOMAIN list : list[k].name = name ELSE 0

\* What the members of a group may be, and are.
Candidates(list, group) ==
    {list[k].name : k \in DOMAIN list}
        \cup {group.selectors[k].name :
                 k \in {j \in DOMAIN group.selectors : group.selectors[j].is = "literal"}}
Wanted(list, group) ==
    {name \in Candidates(list, group) :
        \E k \in DOMAIN group.selectors : Asks(list, group.selectors[k], name)}

\* The members of a group are everything its selectors ask for, once, ordered by
\* selector and then by node; those of a group nobody is in are DIRECT; and in
\* either format there is something to choose from.
Follows(list, group, names) ==
    LET wanted == Wanted(list, group)
    IN /\ IsInjective(names)
       /\ ToSet(names) = IF wanted = {} THEN {"DIRECT"} ELSE wanted
       /\ wanted # {} => \A i, j \in DOMAIN names : i < j =>
             \/ FirstAsked(list, group, names[i]) < FirstAsked(list, group, names[j])
             \/ /\ FirstAsked(list, group, names[i]) = FirstAsked(list, group, names[j])
                /\ PlaceOf(list, names[i]) < PlaceOf(list, names[j])
       /\ ClashGroup(group, names).proxies \o ClashGroup(group, names).use # <<>>
       /\ SingboxGroup(group, names).outbounds # <<>>

\* Every group gets the members its selectors ask for (members in group.rs,
\* groups in clash.rs and singbox.rs).
MembersFollowSelectors ==
    \A g \in DOMAIN members : Follows(nodes, config.groups[g], members[g])

=============================================================================
