----------------------------- MODULE ClashRules -----------------------------
(***************************************************************************)
(* The rules and rule providers of a Clash configuration                   *)
(* (to_clash_full_with_options in crates/easysub-core/src/export/clash.rs):*)
(* one step per merged ruleset.  The rules written for a ruleset are kept  *)
(* together with its group, so `output` is the list of rules cut into the  *)
(* pieces that one pass of the loop appends.  A provider's name is the     *)
(* sequence of its words between underscores.                              *)
(***************************************************************************)
EXTENDS RuleLines, Functions, TLC

CONSTANTS
    Lists,         \* the lists of rulesets a conversion may load
    Limits,        \* values of max_allowed_rules
    Settings,      \* ruleset options: optimize, http, geo, baseUrl, overwrite
    Transforms,    \* the kinds with a geo transform
    Stem,          \* Stem[s]: the words of the file name in source s
    Bases,         \* rules and rule-providers of the base configuration
    OptimizeMin    \* OPTIMIZE_MIN_COUNT

VARIABLES
    rulesets,   \* the rulesets after merging
    limit,      \* max_rules
    options,    \* ruleset_options
    base,       \* what the base configuration holds
    index,      \* rulesets handled so far
    output,     \* the rules, in pieces
    providers,  \* the rule providers
    generated,  \* rules counted against the limit
    outcome     \* how the export ended

vars == <<rulesets, limit, options, base, index, output, providers, generated, outcome>>

ClashKinds == {
    "DOMAIN", "DOMAIN-SUFFIX", "DOMAIN-KEYWORD", "IP-CIDR", "IP-CIDR6", "SRC-IP-CIDR", "GEOIP",
    "SRC-GEOIP", "GEOSITE", "MATCH", "FINAL", "PROCESS-NAME", "SRC-PORT", "DST-PORT", "NETWORK",
    "PROTOCOL"}

\* is_clash_rule
ClashRule == [kind : ClashKinds, value : Seq(STRING), noResolve : BOOLEAN]

\* What the rules say, once as a rule of its own and once by way of a provider.
RuleEntry(rule, group) == [set |-> <<>>, rule |-> rule, group |-> group]
SetEntry(name, noResolve, group) ==
    [set |-> name, rule |-> RuleLine("RULE-SET", None, noResolve), group |-> group]

Current == rulesets[index + 1]
Exhausted == limit > 0 /\ generated >= limit
Remaining == IF limit = 0 THEN 0 ELSE limit - generated

CurrentRules ==
    Limited(Current.content, Remaining,
            Filter(ParseCommonRules(Current.content, Current.format), ClashRule))

-----------------------------------------------------------------------------
(* Names of providers *)

\* Decimal numerals are told from other words.
Word(word) == <<"word", word>>
Numeral(n) == <<"numeral", n>>
ProviderWord == ({"word"} \X STRING) \cup ({"numeral"} \X Nat)

Taken(name, named) == name \in DOMAIN named

Put(name, provider, named) ==
    [n \in DOMAIN named \cup {name} |-> IF n = name THEN provider ELSE named[n]]

\* Mutation: a name is used without looking who has it.
NameUnchecked(name, named) == name

\* unique_provider_name
UniqueProviderName(name, named) ==
    IF ~Taken(name, named) THEN name
    ELSE LET n == CHOOSE n \in 1 .. Cardinality(DOMAIN named) :
                    /\ ~Taken(Append(name, Numeral(n)), named)
                    /\ \A m \in 1 .. n - 1 : Taken(Append(name, Numeral(m)), named)
         IN Append(name, Numeral(n))

\* ruleset_source_name: the stems that are left, or the number of the ruleset.
RulesetSourceName(sources, number) ==
    LET stems == FlattenSeq([k \in DOMAIN sources |-> Stem[sources[k]]]) IN
    IF stems = <<>> THEN <<Word("ruleset"), Numeral(number)>> ELSE stems

-----------------------------------------------------------------------------
(* Providers *)

\* A rule, or in place of the rules of a provider its name.
Entry == [set : Seq(ProviderWord), rule : [kind : STRING, value : Seq(STRING), noResolve : BOOLEAN],
          group : STRING]

\* Mutation: every IP rule may go into the provider.
OptimizableIgnoringResolve(behavior) ==
    IF behavior = "domain"
    THEN [kind : {"DOMAIN", "DOMAIN-SUFFIX"}, value : Seq(STRING) \ {None}, noResolve : BOOLEAN]
    ELSE [kind : {"IP-CIDR", "IP-CIDR6"}, value : Seq(STRING) \ {None}, noResolve : BOOLEAN]

\* The rules a provider can hold.
Optimizable(behavior) ==
    IF behavior = "domain"
    THEN [kind : {"DOMAIN", "DOMAIN-SUFFIX"}, value : Seq(STRING) \ {None}, noResolve : BOOLEAN]
    ELSE [kind : {"IP-CIDR", "IP-CIDR6"}, value : Seq(STRING) \ {None}, noResolve : {TRUE}]

Payload(rules, behavior) == Filter(rules, Optimizable(behavior))

Optimizes(rules, behavior) ==
    options.optimize /\ Len(Payload(rules, behavior)) >= OptimizeMin

\* insert_optimized_provider: over HTTP the provider names its sources, and the
\* payload it stands for is kept in the model only.
OptimizedProvider(rules, behavior) ==
    [type |-> IF options.http THEN "http" ELSE "inline",
     behavior |-> behavior,
     sources |-> Current.sources,
     payload |-> Payload(rules, behavior)]

\* The provider of a geo rule has its lowered kind and value for a name, and
\* the behavior of its kind where the transform sets none.
GeoProvider(rule) ==
    [type |-> "geo",
     behavior |-> IF rule.kind = "GEOIP" THEN "ipcidr" ELSE "domain",
     sources |-> <<>>,
     payload |-> <<rule>>]

\* A provider into which networks were taken from the rules of a list.
HoldsNetworks(provider) == provider.type # "geo" /\ provider.behavior = "ipcidr"

\* An HTTP provider cannot be written without a base URL.
NeedsBaseUrl(rules) ==
    options.http /\ ~options.baseUrl /\ \E behavior \in Behaviors : Optimizes(rules, behavior)

BehaviorName(behavior) ==
    <<Word(behavior)>> \o RulesetSourceName(Current.sources, index + 1)

\* The provider is inserted under a name of its own, if it is wanted.
Insert(rules, behavior, named) ==
    IF ~Optimizes(rules, behavior) THEN named
    ELSE Put(UniqueProviderName(BehaviorName(behavior), named), OptimizedProvider(rules, behavior),
             named)

Referral(rules, behavior, named) ==
    IF ~Optimizes(rules, behavior) THEN <<>>
    ELSE <<SetEntry(UniqueProviderName(BehaviorName(behavior), named), behavior = "ipcidr",
                    Current.group)>>

-----------------------------------------------------------------------------
Init ==
    /\ \E list \in Lists : rulesets = MergeAdjacentRulesets(list)
    /\ limit \in Limits
    /\ options \in Settings
    /\ base \in Bases
    /\ index = 0
    /\ output = IF rulesets = <<>> THEN base.rules ELSE IF options.overwrite THEN <<>> ELSE base.rules
    /\ providers = base.providers
    /\ generated = 0
    /\ outcome = "running"

Loop ==
    /\ outcome = "running"
    /\ index < Len(rulesets)
    /\ ~Exhausted

\* An inline rule whose kind has a transform ...
ConvertsGeo(rules) ==
    /\ options.geo
    /\ IsInline(Current.content)
    /\ Len(rules) = 1
    /\ rules[1].kind \in Transforms \cap {"GEOIP", "GEOSITE"}
    /\ rules[1].value # None

\* ... becomes a remote provider and a rule that refers to it.
AppendGeoProvider ==
    LET rules == CurrentRules
        name == UniqueProviderName(<<Word(rules[1].kind), Word(rules[1].value[1])>>, providers)
    IN
    /\ Loop
    /\ ConvertsGeo(rules)
    /\ providers' = Put(name, GeoProvider(rules[1]), providers)
    /\ output' = Append(output, <<SetEntry(name, FALSE, Current.group)>>)
    /\ generated' = generated + 1
    /\ index' = index + 1
    /\ UNCHANGED <<rulesets, limit, options, base, outcome>>

\* The rules that are written as they are.
Rest(rules) ==
    Filter(rules, {rule \in Range(rules) :
        \A behavior \in Behaviors : Optimizes(rules, behavior) => rule \notin Optimizable(behavior)})

\* append_ruleset: providers first, then the rules that are in none of them.
AppendRuleset ==
    LET rules == CurrentRules
        withDomains == Insert(rules, "domain", providers)
        rest == Rest(rules)
    IN
    /\ Loop
    /\ ~ConvertsGeo(rules)
    /\ ~NeedsBaseUrl(rules)
    /\ providers' = Insert(rules, "ipcidr", withDomains)
    /\ output' = Append(output,
                    Referral(rules, "domain", providers) \o Referral(rules, "ipcidr", withDomains)
                    \o [k \in DOMAIN rest |-> RuleEntry(rest[k], Current.group)])
    /\ generated' = generated + Len(rules)
    /\ index' = index + 1
    /\ UNCHANGED <<rulesets, limit, options, base, outcome>>

\* An HTTP provider needs a base URL.
AppendFails ==
    LET rules == CurrentRules IN
    /\ Loop
    /\ ~ConvertsGeo(rules)
    /\ NeedsBaseUrl(rules)
    /\ outcome' = "error"
    /\ UNCHANGED <<rulesets, limit, options, base, index, output, providers, generated>>

\* The rules are done; a configuration without rulesets and rules gets a MATCH.
Finish ==
    /\ outcome = "running"
    /\ index = Len(rulesets) \/ Exhausted
    /\ outcome' = "ok"
    /\ output' = IF rulesets = <<>> /\ output = <<>>
                 THEN <<<<RuleEntry(RuleLine("MATCH", None, FALSE), "GLOBAL")>>>>
                 ELSE output
    /\ UNCHANGED <<rulesets, limit, options, base, index, providers, generated>>

Exported == outcome # "running" /\ UNCHANGED vars

Next == AppendGeoProvider \/ AppendRuleset \/ AppendFails \/ Finish \/ Exported

Spec == Init /\ [][Next]_vars

-----------------------------------------------------------------------------
(* What the rules mean *)

\* The text a source has, for the exporter and for GET /ruleset alike.
Download(source) ==
    LET ruleset == CHOOSE ruleset \in Range(rulesets) : source \in Range(ruleset.sources)
    IN ruleset.content[CHOOSE d \in DOMAIN ruleset.sources : ruleset.sources[d] = source]

\* What one source contributes, before the limit.
ServedBy(source, behavior) == NormalizeRules(<<Download(source)>>, behavior, 0)

\* What GET /ruleset answers to the request of an HTTP provider: it collects
\* the sources in the order in which their downloads end, and cuts that list.
Served(provider, order) ==
    Range(UpTo(limit, FlattenSeq([k \in DOMAIN provider.sources |->
        ServedBy(provider.sources[order[k]], provider.behavior)])))

\* GET /ruleset is told a behavior and no format, and reads the words of each
\* format on its own.  These lines it reads as the exporter does: domains that
\* are bare or behind `+.`, networks that are bare, and rules that name their
\* kind and have a domain or a network where one belongs.  A line without a
\* comma is a domain for GET /ruleset and counts against the limit.
IsReadAlike(line, format) ==
    CASE format = "clash-domain" ->
            line.mark \in {"", "+."} /\ Len(line.parts) = 1 /\ line.parts[1] \notin Networks
      [] format = "clash-ipcidr" -> Len(line.parts) = 1
      [] format \in {"surge", "clash-classical"} ->
            IF Len(line.parts) = 1 THEN limit = 0
            ELSE /\ line.parts[1] \in {"DOMAIN", "DOMAIN-SUFFIX"} => line.parts[2] \notin Networks
                 /\ line.parts[1] \in {"IP-CIDR", "IP-CIDR6"} => line.parts[2] \in Networks
      [] OTHER -> FALSE

\* The lists that have nothing but such lines, that are read as YAML together
\* if they are each, and that do not lose by the limit what came last.
AreReadAlike(ruleset, behavior) ==
    /\ \A document \in Range(ruleset.content) : \A line \in Range(document.lines) :
            Ignored(line) \/ IsReadAlike(line, ruleset.format)
    /\ \/ IsYaml(ruleset.content)
       \/ \A document \in Range(ruleset.content) : document.shape = "text"
    /\ \/ limit = 0
       \/ Len(ruleset.sources) = 1
       \/ Len(FlattenSeq([d \in DOMAIN ruleset.sources |->
                ServedBy(ruleset.sources[d], behavior)])) <= limit

\* A rule as a provider serves it.
AsServed(rule) == [mark |-> IF rule.kind = "DOMAIN-SUFFIX" THEN "+." ELSE "", value |-> rule.value]

Said(rule) == [kind |-> rule.kind, value |-> rule.value]

\* The rules behind an entry.
Behind(entry) ==
    IF entry.set = <<>> THEN {<<entry.group, Said(entry.rule)>>}
    ELSE {<<entry.group, Said(rule)>> : rule \in Range(providers[entry.set].payload)}

\* The pieces of the base configuration, and those written since.
BaseLength == IF options.overwrite THEN 0 ELSE Len(base.rules)
Written == IF rulesets = <<>> THEN <<>> ELSE SubSeq(output, BaseLength + 1, Len(output))

\* The places of written entries that refer to a provider.
Referring ==
    {place \in UNION {{k} \X DOMAIN Written[k] : k \in DOMAIN Written} :
        Written[place[1]][place[2]].set # <<>>}

ProviderAt(place) == Written[place[1]][place[2]].set

\* The export as RuleStream sees it.
Queue ==
    LET say[rules \in Seq(ClashRule)] == [r \in DOMAIN rules |-> Said(rules[r])] IN
    [k \in 1 .. Len(rulesets) - index |->
        LET ruleset == rulesets[index + k]
        IN [group |-> ruleset.group,
            rules |-> say[Filter(ParseCommonRules(ruleset.content, ruleset.format), ClashRule)]]]

Routed == [k \in DOMAIN Written |-> UNION {Behind(entry) : entry \in Range(Written[k])}]

-----------------------------------------------------------------------------
(* Properties *)

\* Providers of the base configuration keep their content, and no two written
\* rules refer to one provider.
ProvidersKeepTheirNames ==
    /\ \A name \in DOMAIN base.providers :
        name \in DOMAIN providers /\ providers[name] = base.providers[name]
    /\ \A place \in Referring : ProviderAt(place) \in DOMAIN providers \ DOMAIN base.providers
    /\ \A p, q \in Referring : p # q => ProviderAt(p) # ProviderAt(q)

\* An IP rule that has names resolved does not end up in a provider that is
\* matched without resolving, nor the other way round.  (A geo provider is
\* always referred to as one that resolves, whatever its rule said.)
ResolutionKept ==
    \A place \in Referring :
        LET entry == Written[place[1]][place[2]] IN
        HoldsNetworks(providers[entry.set]) =>
            \A rule \in Range(providers[entry.set].payload) : rule.noResolve = entry.rule.noResolve

\* In whatever order its sources arrive, GET /ruleset serves every rule that an
\* HTTP provider stands for, if the lists of the provider are read alike: the
\* provider names all of its sources, and each is normalized and cut on its own
\* (insert_optimized_provider against ruleset in api.rs).
HttpProvidersServe ==
    \A name \in DOMAIN providers :
        LET provider == providers[name]
            readAlike == \A ruleset \in Range(rulesets) :
                            ruleset.sources = provider.sources =>
                                AreReadAlike(ruleset, provider.behavior)
        IN (provider.type = "http" /\ readAlike) =>
              \A order \in Permutations(DOMAIN provider.sources) :
                  \A rule \in Range(provider.payload) : AsServed(rule) \in Served(provider, order)

=============================================================================
