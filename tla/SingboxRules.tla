---------------------------- MODULE SingboxRules ----------------------------
(***************************************************************************)
(* The route, rule sets and references of a sing-box configuration         *)
(* (to_singbox_full_with_options in crates/easysub-core/src/export/        *)
(* singbox.rs): one step for the outbounds, one per merged ruleset, one to *)
(* finish.  As in ClashRules, `output` keeps the rule objects of a ruleset *)
(* together.  A rule object refers to a rule set, or has fields: the set   *)
(* of rules, as kind and value, that it is written for.                    *)
(***************************************************************************)
EXTENDS RuleLines, Functions, TLC

CONSTANTS
    Lists,       \* the lists of rulesets a conversion may load
    Limits,      \* values of max_allowed_rules
    Settings,    \* overwrite, generate (generate_rules) and modes (add_clash_modes)
    Transforms,  \* the kinds that become rule sets
    Ports,       \* the values that parse as a port
    PortRanges,  \* the values that are a range of ports
    UserIds,     \* the values that parse as a user id
    Bases,       \* rules, rule sets, http_clients and DNS detours of the base
    NodeLists,   \* the proxies: name and kind
    GroupLists   \* the groups: name and kind

VARIABLES
    rulesets,   \* the rulesets after merging
    limit,      \* max_rules
    options,    \* options
    base,       \* what the base configuration holds
    nodes,      \* the proxies
    groups,     \* the groups
    index,      \* rulesets handled so far
    outbounds,  \* type and tag of outbounds and endpoints
    detours,    \* the detour of every DNS server
    output,     \* rule objects, in pieces
    ruleSets,   \* tag and http_client of the rule sets
    clients,    \* tags of http_clients
    generated,  \* rules counted against the limit
    final,      \* the group of the last FINAL, or ""
    outcome     \* how the export ended

input == <<rulesets, limit, options, base, nodes, groups>>
vars == <<input, index, outbounds, detours, output, ruleSets, clients, generated, final, outcome>>

Placeholder == "__DNS_PROXY_DETOUR__"
RulesetHttpClient == "easysub-ruleset-direct"

Current == rulesets[index + 1]
Exhausted == limit > 0 /\ generated >= limit
Remaining == IF limit = 0 THEN 0 ELSE limit - generated

\* An http_client that is no more than a detour to DIRECT.
Obsolete == "detour DIRECT"

-----------------------------------------------------------------------------
(* Rules *)

PlainKinds == {
    "DOMAIN", "DOMAIN-SUFFIX", "DOMAIN-KEYWORD", "DOMAIN-REGEX", "IP-CIDR", "SRC-IP-CIDR",
    "PROCESS-NAME", "PROCESS-PATH", "PROCESS-PATH-REGEX", "PACKAGE-NAME", "PACKAGE-NAME-REGEX",
    "NETWORK", "PROTOCOL", "INBOUND", "USER", "GEOIP", "SRC-GEOIP", "GEOSITE"}

IsFinal(rule) == rule.kind \in {"FINAL", "MATCH"}

\* singbox_rule_value: the rules that have a field, numbers only if they parse.
HasField(rule) ==
    LET value == rule.value[1] IN
    \/ rule.kind \in PlainKinds
    \/ rule.kind \in {"SRC-PORT", "DST-PORT", "PORT"} /\ value \in Ports
    \/ rule.kind \in {"SRC-PORT-RANGE", "PORT-RANGE"} /\ value \in PortRanges
    \/ rule.kind = "IP-VERSION" /\ value \in {"4", "6"}
    \/ rule.kind = "USER-ID" /\ value \in UserIds

\* is_singbox_rule
SingboxRule == {rule \in Rule :
    \/ IsFinal(rule)
    \/ rule.value # None /\ (rule.kind \in Transforms \/ HasField(rule))}

\* The rules that route somewhere and count against the limit.
Routable == {rule \in SingboxRule : ~IsFinal(rule)}

CurrentRules ==
    Limited(Current.content, Remaining,
            Filter(ParseCommonRules(Current.content, Current.format), SingboxRule))

\* PORT is another name of DST-PORT.
Said(rule) == [kind |-> IF rule.kind = "PORT" THEN "DST-PORT" ELSE rule.kind, value |-> rule.value]

\* A rule object.
Object == [set : Seq(STRING), fields : SUBSET [kind : STRING, value : Seq(STRING)], group : STRING]

Tag(rule) == <<rule.kind>> \o rule.value
SetObject(tag, group) == [set |-> tag, fields |-> {}, group |-> group]

IsPlain(object) == object.set = <<>>

\* Mutation: the rule goes into the first object, also if that is a rule set.
PushIntoFirst(objects, rule, group) ==
    IF objects = <<>> THEN <<[set |-> <<>>, fields |-> {Said(rule)}, group |-> group]>>
    ELSE [objects EXCEPT ![1].fields = @ \cup {Said(rule)}]

\* push_singbox_rule: into the object that refers to no rule set, if there is
\* one.  IP-VERSION has one value, and the last one stays.
PushSingboxRule(objects, rule, group) ==
    IF \A k \in DOMAIN objects : ~IsPlain(objects[k])
    THEN Append(objects, [set |-> <<>>, fields |-> {Said(rule)}, group |-> group])
    ELSE LET plain == CHOOSE k \in DOMAIN objects : IsPlain(objects[k]) IN
         [objects EXCEPT ![plain].fields =
            {f \in @ : rule.kind = "IP-VERSION" => f.kind # "IP-VERSION"} \cup {Said(rule)}]

AddRule(objects, rule) ==
    IF IsFinal(rule) THEN objects
    ELSE IF rule.kind \in Transforms THEN Append(objects, SetObject(Tag(rule), Current.group))
    ELSE PushSingboxRule(objects, rule, Current.group)

\* The objects of a list of rules.
ObjectsOf(rules) ==
    LET objects[n \in 0 .. Len(rules)] ==
            IF n = 0 THEN <<>> ELSE AddRule(objects[n - 1], rules[n])
    IN objects[Len(rules)]

\* A rule set of the configuration.
RuleSet == [tag : Seq(STRING), client : STRING]

TagsOf(sets) == {sets[k].tag : k \in DOMAIN sets}

\* Mutation: a rule set is added for every rule that refers to it.
AddRuleSetAlways(sets, rule) ==
    IF ~IsFinal(rule) /\ rule.kind \in Transforms
    THEN Append(sets, [tag |-> Tag(rule), client |-> RulesetHttpClient])
    ELSE sets

\* A rule set is added unless the configuration has one with its tag.
AddRuleSet(sets, rule) ==
    IF ~IsFinal(rule) /\ rule.kind \in Transforms /\ Tag(rule) \notin TagsOf(sets)
    THEN Append(sets, [tag |-> Tag(rule), client |-> RulesetHttpClient])
    ELSE sets

\* The rule sets after a list of rules.
RuleSetsWith(sets, rules) ==
    LET added[n \in 0 .. Len(rules)] ==
            IF n = 0 THEN sets ELSE AddRuleSet(added[n - 1], rules[n])
    IN added[Len(rules)]

-----------------------------------------------------------------------------
(* Outbounds *)

Outbound(type, tag) == [type |-> type, tag |-> tag]

IsSelector(group) == group.kind \in {"select", "relay", "ssid"}

\* The Clash modes need an outbound GLOBAL.
LacksGlobal(all) == options.modes /\ \A k \in DOMAIN all : all[k].tag # "GLOBAL"

Outbounds ==
    LET exported == Filter(nodes, {node \in Range(nodes) : node.kind # "snell"})
        ofGroups ==
            IF groups = <<>> THEN <<Outbound("selector", "GLOBAL")>>
            ELSE [k \in DOMAIN groups |->
                    Outbound(IF IsSelector(groups[k]) THEN "selector" ELSE "urltest", groups[k].name)]
        all == <<Outbound("direct", "DIRECT"), Outbound("block", "REJECT")>>
               \o [k \in DOMAIN exported |-> Outbound(exported[k].kind, exported[k].name)]
               \o ofGroups
    IN IF LacksGlobal(all) THEN Append(all, Outbound("selector", "GLOBAL")) ELSE all

\* apply_dns_proxy_detour: the first selector takes the place of the placeholder.
DetoursTo(all) ==
    LET selectors == Filter(all, {outbound \in Range(all) : outbound.type = "selector"}) IN
    [k \in DOMAIN base.detours |->
        IF base.detours[k] = Placeholder /\ selectors # <<>> THEN selectors[1].tag
        ELSE base.detours[k]]

\* A base whose names are all its own, and which leads nowhere but to outbounds
\* that any configuration has.
Consistent(b) ==
    /\ b.rules \in Seq(Seq(Object))
    /\ \A k \in DOMAIN b.rules : \A object \in Range(b.rules[k]) :
        ~IsPlain(object) => object.set[1] # "mode"
    /\ b.ruleSets \in Seq(RuleSet)
    /\ \A r, s \in DOMAIN b.ruleSets : b.ruleSets[r].tag = b.ruleSets[s].tag => r = s
    /\ b.clients \in Seq(STRING) /\ IsInjective(b.clients)
    /\ \A r \in DOMAIN b.ruleSets :
        b.ruleSets[r].client \in {"", RulesetHttpClient, Obsolete} \cup Range(b.clients)
    /\ b.detours \in Seq({Placeholder, "DIRECT", "REJECT"})

-----------------------------------------------------------------------------
Init ==
    /\ \E list \in Lists : rulesets = MergeAdjacentRulesets(list)
    /\ limit \in Limits
    /\ options \in Settings
    /\ base \in Bases
    /\ nodes \in NodeLists
    /\ groups \in GroupLists
    /\ index = 0
    /\ outbounds = <<>>
    /\ detours = base.detours
    /\ output = base.rules
    /\ ruleSets = base.ruleSets
    /\ clients = base.clients
    /\ generated = 0
    /\ final = ""
    /\ outcome = "outbounds"

\* The rules of the Clash modes; sniff and hijack-dns have no outbound.
Prelude ==
    IF ~options.modes THEN <<>>
    ELSE <<SetObject(<<"mode", "Global">>, "GLOBAL"), SetObject(<<"mode", "Direct">>, "DIRECT")>>

\* The outbounds, and what comes before the generated rules.
AddOutbounds ==
    /\ outcome = "outbounds"
    /\ outbounds' = Outbounds
    /\ detours' = DetoursTo(Outbounds)
    /\ output' = IF ~options.generate THEN output
                 ELSE (IF options.overwrite THEN <<>> ELSE output) \o <<Prelude>>
    /\ outcome' = IF options.generate THEN "rules" ELSE "client"
    /\ UNCHANGED <<input, index, ruleSets, clients, generated, final>>

\* One ruleset: its rules are written, FINAL is remembered, and the rules
\* other than FINAL are counted.
AddRules ==
    LET rules == CurrentRules IN
    /\ outcome = "rules"
    /\ index < Len(rulesets)
    /\ ~Exhausted
    /\ output' = Append(output, ObjectsOf(rules))
    /\ ruleSets' = RuleSetsWith(ruleSets, rules)
    /\ final' = IF \E k \in DOMAIN rules : IsFinal(rules[k]) THEN Current.group ELSE final
    /\ generated' = generated + Len(Filter(rules, Routable))
    /\ index' = index + 1
    /\ UNCHANGED <<input, outbounds, detours, clients, outcome>>

\* What matches nothing goes to the group of FINAL, or else to the first group.
Finish ==
    /\ outcome = "rules"
    /\ index = Len(rulesets) \/ Exhausted
    /\ final' = IF final # "" THEN final ELSE IF groups = <<>> THEN "GLOBAL" ELSE groups[1].name
    /\ outcome' = "client"
    /\ UNCHANGED <<input, index, outbounds, detours, output, ruleSets, clients, generated>>

UsesClient(set) == set.client \in {RulesetHttpClient, Obsolete}

\* ensure_ruleset_http_client: obsolete clients are replaced, and the client is
\* defined if a rule set uses it.
EnsureRulesetHttpClient ==
    LET used == \E k \in DOMAIN ruleSets : UsesClient(ruleSets[k]) IN
    /\ outcome = "client"
    /\ ruleSets' = [k \in DOMAIN ruleSets |->
            IF UsesClient(ruleSets[k]) THEN [ruleSets[k] EXCEPT !.client = RulesetHttpClient]
            ELSE ruleSets[k]]
    /\ outcome' = IF used /\ ~base.clientsValid THEN "error" ELSE "ok"
    /\ clients' = IF used /\ base.clientsValid /\ RulesetHttpClient \notin Range(clients)
                  THEN Append(clients, RulesetHttpClient) ELSE clients
    /\ UNCHANGED <<input, index, outbounds, detours, output, generated, final>>

Exported == outcome \in {"ok", "error"} /\ UNCHANGED vars

Next == AddOutbounds \/ AddRules \/ Finish \/ EnsureRulesetHttpClient \/ Exported

Spec == Init /\ [][Next]_vars

-----------------------------------------------------------------------------
(* What the rules mean *)

Started == outcome # "outbounds" /\ options.generate
BaseLength == (IF options.overwrite THEN 0 ELSE Len(base.rules)) + 1
Written == IF Started THEN SubSeq(output, BaseLength + 1, Len(output)) ELSE <<>>

\* The rules behind an object.
Behind(object) ==
    {<<object.group, said>> : said \in
        IF IsPlain(object) THEN object.fields
        ELSE {Said([kind |-> Head(object.set), value |-> Tail(object.set)])}}

\* The rules of a ruleset, FINAL left out.
Listed(ruleset) ==
    Filter(Filter(ParseCommonRules(ruleset.content, ruleset.format), SingboxRule), Routable)

Tags == {outbounds[k].tag : k \in DOMAIN outbounds}

\* The export as RuleStream sees it.
Queue ==
    LET say[rules \in Seq(Rule)] == [r \in DOMAIN rules |-> Said(rules[r])] IN
    [k \in 1 .. Len(rulesets) - index |->
        [group |-> rulesets[index + k].group, rules |-> say[Listed(rulesets[index + k])]]]

Routed == [k \in DOMAIN Written |-> UNION {Behind(object) : object \in Range(Written[k])}]

-----------------------------------------------------------------------------
(* Properties *)

RuleSetsResolve ==
    /\ \A k \in DOMAIN Written : \A object \in Range(Written[k]) :
        ~IsPlain(object) => \E s \in DOMAIN ruleSets : ruleSets[s].tag = object.set
    /\ \A r, s \in DOMAIN ruleSets : ruleSets[r].tag = ruleSets[s].tag => r = s
    /\ \A k \in DOMAIN base.ruleSets : ruleSets[k].tag = base.ruleSets[k].tag

ClientsResolve ==
    outcome = "ok" =>
        /\ \A k \in DOMAIN ruleSets :
            ruleSets[k].client # Obsolete /\ (ruleSets[k].client = "" \/ ruleSets[k].client \in Range(clients))
        /\ IsInjective(clients)

OutboundsResolve ==
    outcome = "ok" =>
        /\ \A k \in DOMAIN output : \A object \in Range(output[k]) :
            object.set # <<>> /\ object.set[1] = "mode" => object.group \in Tags
        /\ final = "" \/ final \in Tags \cup {rulesets[k].group : k \in DOMAIN rulesets}
        /\ \A k \in DOMAIN detours :
            \/ detours[k] \in Tags
            \/ \A o \in DOMAIN outbounds : outbounds[o].type # "selector"

\* Whatever is named is there.  Every rule set that a rule names is defined
\* once, and one of the base keeps its definition; no rule set uses the old
\* client, and the one they use is defined once; Clash modes, the final route
\* and, where there is a selector, DNS detours name an outbound.
ReferencesResolve == RuleSetsResolve /\ ClientsResolve /\ OutboundsResolve

=============================================================================
