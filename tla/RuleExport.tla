----------------------------- MODULE RuleExport -----------------------------
(***************************************************************************)
(* The loaded rulesets of a conversion go to the exporter of its target    *)
(* (convert in crates/easysub-core/src/subscription.rs).  Both exporters   *)
(* implement RuleStream.  A variable that the exporter does not have is    *)
(* Unused.                                                                 *)
(***************************************************************************)
EXTENDS RuleLines

CONSTANTS
    Targets,                                 \* subset of {"clash", "singbox"}
    Limits,                                  \* values of max_allowed_rules
    Lists, Settings, Transforms, Bases,      \* per target, see ClashRules and SingboxRules
    Stem, OptimizeMin,                       \* of Clash
    Ports, PortRanges, UserIds, NodeLists, GroupLists  \* of sing-box

VARIABLES
    target,
    rulesets, limit, options, base, index, output, generated, outcome,
    providers,
    nodes, groups, outbounds, detours, ruleSets, clients, final

ofClash == <<providers>>
ofSingbox == <<nodes, groups, outbounds, detours, ruleSets, clients, final>>
vars == <<target, rulesets, limit, options, base, index, output, generated, outcome,
          ofClash, ofSingbox>>

Unused == <<>>

Clash == INSTANCE ClashRules WITH
    Lists <- Lists["clash"], Settings <- Settings["clash"],
    Transforms <- Transforms["clash"], Bases <- Bases["clash"]

Singbox == INSTANCE SingboxRules WITH
    Lists <- Lists["singbox"], Settings <- Settings["singbox"],
    Transforms <- Transforms["singbox"], Bases <- Bases["singbox"]

Ruleset == [group : STRING, sources : Seq(DOMAIN Stem), content : Seq(Document) \ {<<>>},
            format : Formats]

\* An inline rule is one line.
ASSUME ExportAssumption ==
    /\ Targets \subseteq {"clash", "singbox"}
    /\ Limits \subseteq Nat
    /\ OptimizeMin \in Nat \ {0}
    /\ \A to \in Targets : \A list \in Lists[to] :
        /\ list \in Seq(Ruleset)
        /\ \A k \in DOMAIN list : IsInline(list[k].content) => Len(list[k].content[1].lines) = 1

ASSUME ClashAssumption ==
    /\ Stem \in [DOMAIN Stem -> Seq(Clash!ProviderWord)]
    /\ "clash" \in Targets => \A b \in Bases["clash"] :
        /\ b.rules \in Seq(Seq(Clash!Entry))
        /\ IsFiniteSet(DOMAIN b.providers)

ASSUME SingboxAssumption ==
    /\ {Singbox!RulesetHttpClient, "mode", "Global", "Direct", "GLOBAL", "DIRECT"} \subseteq STRING
    /\ "singbox" \in Targets =>
        /\ \A b \in Bases["singbox"] : Singbox!Consistent(b)
        /\ NodeLists \cup GroupLists \subseteq Seq([name : STRING, kind : STRING])

Init ==
    /\ target \in Targets
    /\ \/ /\ target = "clash"
          /\ Clash!Init
          /\ nodes = Unused /\ groups = Unused /\ outbounds = Unused /\ detours = Unused
          /\ ruleSets = Unused /\ clients = Unused /\ final = Unused
       \/ /\ target = "singbox"
          /\ Singbox!Init
          /\ providers = Unused

ToClash == target = "clash" /\ Clash!Next /\ UNCHANGED <<target, ofSingbox>>

ToSingbox == target = "singbox" /\ Singbox!Next /\ UNCHANGED <<target, ofClash>>

Next == ToClash \/ ToSingbox

Spec == Init /\ [][Next]_vars

-----------------------------------------------------------------------------
(* Properties *)

Stream == INSTANCE RuleStream WITH
    queue <- IF target = "clash" THEN Clash!Queue ELSE Singbox!Queue,
    left <- IF limit = 0 THEN -1 ELSE limit - generated,
    routed <- IF target = "clash" THEN Clash!Routed ELSE Singbox!Routed

\* Whatever a target makes of them, providers inline, over HTTP or geo, shared
\* objects or rule sets, the rules say what the rulesets say: the set of rules of
\* each ruleset for its group, in the order of the rulesets, up to the limit.
ImplementsRuleStream == Stream!Spec

\* Providers of the base configuration keep their content, and no two written
\* rules refer to one provider.
ProvidersKeepTheirNames == target = "clash" => Clash!ProvidersKeepTheirNames

\* An IP rule that has names resolved does not end up in a provider of networks
\* that is matched without resolving, nor the other way round; geo providers are
\* not asked.
ResolutionKept == target = "clash" => Clash!ResolutionKept

\* GET /ruleset serves every rule that an HTTP provider stands for.
HttpProvidersServe == target = "clash" => Clash!HttpProvidersServe

\* Whatever a sing-box configuration names is there.
ReferencesResolve == target = "singbox" => Singbox!ReferencesResolve

=============================================================================
