----------------------------- MODULE Algorithms -----------------------------
(***************************************************************************)
(* The sequential algorithms side by side: `subject` says which of them a  *)
(* behaviour is about, and the variables of the others are idle.  NodeNames *)
(* is extended, the others are instances.                                  *)
(***************************************************************************)
EXTENDS NodeNames, FiniteSets

CONSTANTS
    Subjects,  \* subset of {"names", "chain", "groups", "template", "private", "collect", "mrs"}
    Numerals, Addresses, Texts0, Preferences, MaxHops,           \* of ProxyChain
    GroupFiles, NodeLists,                                       \* of ExternalGroups
    Requests, GlobalLists, TagSets, Transforms, Targets,         \* of TemplateVariables
    PrivateFiles, Environment,                                   \* of PrivateRewrite
    Contents, Failed, Pending, MinSources, MaxSources, FetchConcurrency, SkipFailed, Sorts,
    MaxRules, RulesOf, NotText,                                  \* of RulesetCollect
    DomainLists, NetworkLists, Order, Lower, WordBits, V4Bits, V6Bits, MappedPrefix
                                                                 \* of MrsPayload

VARIABLES
    subject,
    text, prefer, before, first, via, hops, streak, phase,
    lines, custom, config, members, selected, selector, outcome,
    target, tags, request, pending, globals, requestObject, globalObject,
    file, index, variables, current, todo, route,
    skip, running, drained, collected, result,
    behavior, rules, read, keys, queue, leaves, labelBitmap, labels, labelIndex, nodeIndex,
    v4, v6, merged, payload

-----------------------------------------------------------------------------
Chain == INSTANCE ProxyChain
Groups == INSTANCE ExternalGroups WITH Files <- GroupFiles
Template == INSTANCE TemplateVariables
Private == INSTANCE PrivateRewrite WITH Files <- PrivateFiles
Collect == INSTANCE RulesetCollect
Mrs == INSTANCE MrsPayload

\* What the instances assume of their constants.
ASSUME AlgorithmsAssumption ==
    /\ Groups!GroupsAssumption
    /\ Template!TemplateAssumption
    /\ Private!RewriteAssumption
    /\ Collect!LoaderAssumption
    /\ Collect!CollectAssumption
    /\ Mrs!MrsAssumption

-----------------------------------------------------------------------------
(* The variables one algorithm has for itself; `nodes`, `phase` and `outcome` *)
(* belong to several.                                                         *)

ofNames == <<prefix, sort, names, used, next, exported>>
ofChain == <<text, prefer, before, first, via, hops, streak>>
ofGroups == <<lines, custom, config, members, selected, selector>>
ofTemplate == <<target, tags, request, pending, globals, requestObject, globalObject>>
ofPrivate == <<file, index, variables, current, todo, route>>
ofCollect == <<skip, running, drained, collected, result>>
ofMrs == <<behavior, rules, read, keys, queue, leaves, labelBitmap, labels, labelIndex,
           nodeIndex, v4, v6, merged, payload>>

all == <<subject, nodes, phase, outcome, ofNames, ofChain, ofGroups, ofTemplate, ofPrivate,
         ofCollect, ofMrs>>

NamesIdle ==
    /\ prefix = 0 /\ sort = 0 /\ names = <<>> /\ used = {} /\ next = <<>> /\ exported = <<>>
ChainIdle ==
    /\ text = 0 /\ prefer = 0 /\ before = <<>> /\ first = <<>> /\ via = "" /\ hops = 0
    /\ streak = 0
GroupsIdle ==
    /\ lines = <<>> /\ custom = 0 /\ config = 0 /\ members = <<>> /\ selected = <<>>
    /\ selector = 0
TemplateIdle ==
    /\ target = "" /\ tags = {} /\ request = <<>> /\ pending = {} /\ globals = <<>>
    /\ requestObject = <<>> /\ globalObject = <<>>
PrivateIdle ==
    /\ file = 0 /\ index = 0 /\ variables = <<>> /\ current = <<>> /\ todo = {} /\ route = <<>>
CollectIdle ==
    /\ skip = 0 /\ running = {} /\ drained = 0 /\ collected = <<>> /\ result = 0
MrsIdle ==
    /\ behavior = "" /\ rules = <<>> /\ read = 0 /\ keys = <<>> /\ queue = <<>> /\ leaves = <<>>
    /\ labelBitmap = <<>> /\ labels = <<>> /\ labelIndex = 0 /\ nodeIndex = 0
    /\ v4 = <<>> /\ v6 = <<>> /\ merged = <<>> /\ payload = <<>>

AnyInit ==
    /\ subject \in Subjects
    /\ IF subject = "names" THEN Init ELSE NamesIdle
    /\ IF subject = "chain" THEN Chain!Init ELSE ChainIdle
    /\ IF subject = "groups" THEN Groups!Init ELSE GroupsIdle
    /\ IF subject = "template" THEN Template!Init ELSE TemplateIdle
    /\ IF subject = "private" THEN Private!Init ELSE PrivateIdle
    /\ IF subject = "collect" THEN Collect!Init ELSE CollectIdle
    /\ IF subject = "mrs" THEN Mrs!Init ELSE MrsIdle
    /\ subject \notin {"names", "chain", "groups"} => nodes = <<>>
    /\ subject \notin {"chain", "private"} => phase = ""
    /\ subject \notin {"groups", "template", "collect", "mrs"} => outcome = <<>>

NamesStep ==
    /\ subject = "names"
    /\ Next
    /\ UNCHANGED <<subject, phase, outcome, ofChain, ofGroups, ofTemplate, ofPrivate, ofCollect,
                   ofMrs>>
ChainStep ==
    /\ subject = "chain"
    /\ Chain!Next
    /\ UNCHANGED <<subject, outcome, ofNames, ofGroups, ofTemplate, ofPrivate, ofCollect, ofMrs>>
GroupsStep ==
    /\ subject = "groups"
    /\ Groups!Next
    /\ UNCHANGED <<subject, phase, ofNames, ofChain, ofTemplate, ofPrivate, ofCollect, ofMrs>>
TemplateStep ==
    /\ subject = "template"
    /\ Template!Next
    /\ UNCHANGED <<subject, nodes, phase, ofNames, ofChain, ofGroups, ofPrivate, ofCollect, ofMrs>>
PrivateStep ==
    /\ subject = "private"
    /\ Private!Next
    /\ UNCHANGED <<subject, nodes, outcome, ofNames, ofChain, ofGroups, ofTemplate, ofCollect,
                   ofMrs>>
CollectStep ==
    /\ subject = "collect"
    /\ Collect!Next
    /\ UNCHANGED <<subject, nodes, phase, ofNames, ofChain, ofGroups, ofTemplate, ofPrivate, ofMrs>>
MrsStep ==
    /\ subject = "mrs"
    /\ Mrs!Next
    /\ UNCHANGED <<subject, nodes, phase, ofNames, ofChain, ofGroups, ofTemplate, ofPrivate,
                   ofCollect>>

AnyStep ==
    \/ NamesStep \/ ChainStep \/ GroupsStep \/ TemplateStep \/ PrivateStep \/ CollectStep
    \/ MrsStep

AnySpec == AnyInit /\ [][AnyStep]_all /\ WF_all(NamesStep)

-----------------------------------------------------------------------------
(* The properties of the algorithms that are instances *)

\* ProxyChain: what either exporter writes is read back with the same endpoints,
\* credentials, transports and TLS.
ExportsReadBack == subject = "chain" => Chain!ExportsReadBack

\* ProxyChain: a proxy that was secured by TLS stays secured in every export.
TlsIsNeverLost == subject = "chain" => Chain!TlsIsNeverLost

\* ProxyChain: from its second writing on, a target is given the same text.
ChainSettles == [][subject = "chain" /\ Chain!Rewrites => text' = text]_all

\* ExternalGroups: members in the order of the selectors, once, never none.
MembersFollowSelectors == subject = "groups" => Groups!MembersFollowSelectors

\* TemplateVariables: the order of the HashMap does not change what is rendered.
OrderDoesNotMatter == subject = "template" => Template!OrderDoesNotMatter

\* TemplateVariables: the assertion of insert_dotted in template.rs, "dotted
\* variable path must remain an object".
PathsRemainObjects == subject = "template" => Template!PathsRemainObjects

\* PrivateRewrite: variables that name earlier ones give a route one meaning.
RouteIsIntended == subject = "private" => Private!RouteIsIntended

\* RulesetCollect: max_allowed_rules is met exactly by all sources together.
LimitIsExact == subject = "collect" => Collect!LimitIsExact

\* RulesetCollect: below the limit the order of the sources does not matter.
OrderIrrelevantBelowLimit == subject = "collect" => Collect!OrderIrrelevantBelowLimit

\* MrsPayload: a reader of the trie finds exactly the domains of the rules.
TrieReadsBack == subject = "mrs" => Mrs!TrieReadsBack

\* MrsPayload: the ranges are the addresses of the networks, those of either
\* family apart and in order.
RangesCoverNetworks == subject = "mrs" => Mrs!RangesCoverNetworks

=============================================================================
