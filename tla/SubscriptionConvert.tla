------------------------ MODULE SubscriptionConvert ------------------------
(***************************************************************************)
(* One conversion: /sub and /p of src/api.rs down to                       *)
(* SubscriptionService::convert of crates/easysub-core/src/subscription.rs.*)
(* The steps are the stretches of code between two awaits.                 *)
(*                                                                         *)
(* Sources come from the request, from the configuration and, in the       *)
(* middle of the conversion, from an external config that was itself       *)
(* fetched.  Each is decided on where it appears: may it be local, are     *)
(* there too many, may it fail.  How a list of sources is fetched is       *)
(* SourceLoader's matter; here a list is loaded in one step.               *)
(***************************************************************************)
EXTENDS Filters, FiniteSets, SequencesExt

CONSTANTS
    Configs,     \* configurations of the service
    Requests,    \* requests to it
    Externals,   \* contents an external config may have
    MaxSources   \* advance.max_allowed_rulesets

\* What a source can be: an http URL, file:// or env:, a path, a proxy link, a
\* subscription given inline (by library callers only).  A URL of any other
\* scheme is a "node" that does not parse.
Place == {"remote", "shared", "path"}
Kind == Place \cup {"node", "content"}

\* "filter" is what the request or else the configuration says.
Config == [apiMode : BOOLEAN, defaults : Seq(Kind), inserts : Seq(Kind),
           enableInsert : BOOLEAN, prepend : BOOLEAN, skip : BOOLEAN,
           filter : BOOLEAN, toHttp : BOOLEAN,
           external : Place \cup {"empty"}, base : Place \cup {"empty"}]

Request == [door : {"/sub", "/p", "library"}, target : {"clash", "singbox"},
            sources : Seq(Kind), external : Place \cup {"absent", "empty"},
            token : BOOLEAN, trusted : BOOLEAN, insert : {"unset", "on", "off"},
            toHttp : {"unset", "on", "off"}, baseUrl : BOOLEAN]

\* "base" is what the external config says of the requested target's rule base.
External == [groups : BOOLEAN, generate : BOOLEAN, base : Place \cup {"absent", "empty"},
             rulesets : Seq(Place \cup {"inline"})]

\* "trusted" is a field only library callers can set; api.rs sets it by the route.
ASSUME ConvertAssumption ==
    /\ Configs \subseteq Config
    /\ Requests \subseteq Request
    /\ \A q \in Requests : q.door # "library" => q.trusted = (q.door = "/p")
    /\ Externals \subseteq External
    /\ MaxSources \in Nat \ {0}

VARIABLES
    conf,      \* the configuration
    req,       \* the request
    pc,        \* the next step
    sources,   \* the sources to convert, with where they come from
    loaded,    \* loaded[i]: what came of source i
    external,  \* the external config, NoExternal without one
    rulesets,  \* rulesets[i]: what came of ruleset i of the external config
    reads,     \* history: everything asked of the fetcher
    result     \* how the conversion ended, and at which step

vars == <<conf, req, pc, sources, loaded, external, rulesets, reads, result>>

NoExternal == [groups |-> FALSE, generate |-> TRUE, base |-> "absent", rulesets |-> <<>>]

Unfinished == [outcome |-> "none", at |-> "none"]

Errors == {"BadRequest", "NoBaseUrl", "NotFound", "Unauthorized", "Limit",
           "Upstream", "Conversion"}

\* IntoResponse for ApiError; NoBaseUrl is a BadRequest with a name of its own.
StatusOf(outcome) ==
    CASE outcome = "ok" -> 200
      [] outcome \in {"BadRequest", "NoBaseUrl"} -> 400
      [] outcome = "Unauthorized" -> 401
      [] outcome = "NotFound" -> 404
      [] outcome = "Limit" -> 413
      [] outcome = "Upstream" -> 502
      [] outcome = "Conversion" -> 500

End(outcome) ==
    /\ pc' = "done"
    /\ result' = [outcome |-> outcome, at |-> pc]

-----------------------------------------------------------------------------
(* Sources *)

\* Mutation: a private rewrite is treated like any other request.
TokenOnly == ~conf.apiMode \/ req.token

Authorized == req.trusted \/ ~conf.apiMode \/ req.token

\* Neither a scheme other than file:// nor a proxy link; the empty string too.
Sensitive(kind) == kind \in {"shared", "path", "empty"}

Refused(kinds) == ~Authorized /\ \E i \in DOMAIN kinds : Sensitive(kinds[i])

\* The fetcher reads these; a bare path only where the caller allows it.
Fetched(kind, allowLocal) == kind \in {"remote", "shared"} \/ (kind = "path" /\ allowLocal)

\* How loading a source can fail: the origin, the file, or what is in it.  An
\* env: source may turn out to be a URL.  A remote one ends with Limit only
\* where its TTL is 0.
Failures(kind, allowLocal) ==
    CASE kind \in {"remote", "shared"} -> {"Upstream", "Limit", "BadRequest"}
      [] kind = "path" /\ allowLocal -> {"BadRequest", "Limit"}
      [] kind \in {"node", "content"} \/ (kind = "path" /\ ~allowLocal) -> {"BadRequest"}
      [] kind = "inline" -> {}

\* What can come of a subscription source: nodes the deprecation filter keeps,
\* or only such as it removes.
NodesOrFailure(kind) ==
    Failures(kind, FALSE) \cup IF kind = "path" THEN {} ELSE {"nodes", "deprecated"}

RulesOrFailure(kind) ==
    Failures(kind, FALSE) \cup IF kind = "path" THEN {} ELSE {"rules"}

From(kinds, origin) == [i \in DOMAIN kinds |-> [kind |-> kinds[i], from |-> origin]]

Read(kind, from, use, index) ==
    [kind |-> kind, from |-> from, use |-> use, index |-> index]

On(flag, default) == IF flag = "unset" THEN default ELSE flag = "on"

OptimizeToHttp == On(req.toHttp, conf.toHttp)

\* The sources of the request, or the default ones.
Main == IF req.sources # <<>> THEN From(req.sources, "request")
        ELSE From(conf.defaults, "default")

\* Mutation: inserted sources are put in front whatever the setting.
AlwaysPrepend(inserts, main) == inserts \o main

Combine(inserts, main) == IF conf.prepend THEN inserts \o main ELSE main \o inserts

WithInserts ==
    IF On(req.insert, conf.enableInsert) /\ conf.inserts # <<>>
    THEN Combine(From(conf.inserts, "insert"), Main) ELSE Main

-----------------------------------------------------------------------------
Init ==
    /\ conf \in Configs
    /\ req \in Requests
    /\ pc = IF req.door = "library" THEN "convert" ELSE "query"
    /\ sources = <<>>
    /\ loaded = <<>>
    /\ external = NoExternal
    /\ rulesets = <<>>
    /\ reads = {}
    /\ result = Unfinished

\* Mutation: the handler looks at the flag of the query alone.
QueryFlagOnly ==
    /\ pc = "query"
    /\ \/ End("BadRequest")
       \/ req.door = "/p" /\ End("NotFound")
       \/ IF req.target = "clash" /\ req.toHttp = "on" /\ ~req.baseUrl
          THEN End("NoBaseUrl")
          ELSE pc' = "convert" /\ UNCHANGED result
    /\ UNCHANGED <<conf, req, sources, loaded, external, rulesets, reads>>

\* The handlers of /sub and /p: unknown path or target, and a public base URL
\* if the conversion will need one.
Query ==
    /\ pc = "query"
    /\ \/ End("BadRequest")
       \/ req.door = "/p" /\ End("NotFound")
       \/ IF req.target = "clash" /\ OptimizeToHttp /\ ~req.baseUrl
          THEN End("NoBaseUrl")
          ELSE pc' = "convert" /\ UNCHANGED result
    /\ UNCHANGED <<conf, req, sources, loaded, external, rulesets, reads>>

\* Mutation: the limit is looked at before the configured sources are inserted.
ConvertLimitBeforeInsert ==
    /\ pc = "convert"
    /\ IF conf.apiMode /\ req.sources = <<>> /\ ~Authorized
       THEN End("Unauthorized") /\ UNCHANGED sources
       ELSE IF Main = <<>> THEN End("BadRequest") /\ UNCHANGED sources
       ELSE IF Refused([i \in DOMAIN Main |-> Main[i].kind])
       THEN End("Unauthorized") /\ UNCHANGED sources
       ELSE IF Len(Main) > MaxSources THEN End("Limit") /\ UNCHANGED sources
       ELSE /\ sources' = WithInserts
            /\ pc' = "load"
            /\ UNCHANGED result
    /\ UNCHANGED <<conf, req, loaded, external, rulesets, reads>>

\* The checks convert makes before its first await, in their order.
Convert ==
    /\ pc = "convert"
    /\ IF conf.apiMode /\ req.sources = <<>> /\ ~Authorized
       THEN End("Unauthorized") /\ UNCHANGED sources
       ELSE IF Main = <<>> THEN End("BadRequest") /\ UNCHANGED sources
       ELSE IF Refused([i \in DOMAIN Main |-> Main[i].kind])
       THEN End("Unauthorized") /\ UNCHANGED sources
       ELSE IF Len(WithInserts) > MaxSources THEN End("Limit") /\ UNCHANGED sources
       ELSE /\ sources' = WithInserts
            /\ pc' = "load"
            /\ UNCHANGED result
    /\ UNCHANGED <<conf, req, loaded, external, rulesets, reads>>

-----------------------------------------------------------------------------
(* Subscriptions *)

Failed(outcomes) == {i \in DOMAIN outcomes : outcomes[i] \in Errors}

\* The nodes that are left are those of the sources Kept names, in this order.
KeptAmong(outcomes, filter) ==
    Filter([i \in DOMAIN outcomes |-> i],
        {i \in DOMAIN outcomes :
            outcomes[i] = "nodes" \/ (outcomes[i] = "deprecated" /\ ~filter)})

Kept == KeptAmong(loaded, conf.filter)

\* load_subscription_input for every source.  Without skip_failed_links any of
\* the errors may be the first one.
LoadSources ==
    /\ pc = "load"
    /\ UNCHANGED <<conf, req, sources, external, rulesets>>
    /\ loaded' \in [DOMAIN sources -> Errors \cup {"nodes", "deprecated"}]
    /\ \A i \in DOMAIN sources : loaded'[i] \in NodesOrFailure(sources[i].kind)
    /\ reads' = reads \cup {Read(sources[i].kind, sources[i].from, "subscription", i) :
                   i \in {j \in DOMAIN sources : Fetched(sources[j].kind, FALSE)}}
    /\ \/ /\ ~conf.skip
          /\ \E i \in Failed(loaded') : End(loaded'[i])
       \/ /\ conf.skip \/ Failed(loaded') = {}
          /\ IF Kept' = <<>> THEN End("BadRequest")
             ELSE pc' = "external" /\ UNCHANGED result

-----------------------------------------------------------------------------
(* The external config and its rulesets *)

\* An empty config= asks for the default one, as leaving it out does.
ExternalSource ==
    IF req.external \notin {"absent", "empty"} THEN [kind |-> req.external, from |-> "request"]
    ELSE [kind |-> conf.external, from |-> "config"]

\* external::parse refuses a config without groups and rulesets.
Parses(e) == e.groups \/ e.rulesets # <<>>

\* Where the conversion goes with external config e.
Continue(e) == pc' = IF e # NoExternal /\ e.generate THEN "rulesets" ELSE "base"

\* load_external_config
LoadExternal ==
    LET source == ExternalSource IN
    /\ pc = "external"
    /\ IF source.kind = "empty"
       THEN Continue(NoExternal) /\ UNCHANGED <<external, reads, result>>
       ELSE IF req.external # "absent" /\ Sensitive(source.kind) /\ ~Authorized
       THEN End("Unauthorized") /\ UNCHANGED <<external, reads>>
       ELSE /\ reads' = reads \cup {Read(source.kind, source.from, "external", 1)}
            /\ \/ /\ \E error \in Failures(source.kind, TRUE) \cup {"Conversion"} : End(error)
                  /\ UNCHANGED external
               \/ \E e \in Externals :
                    IF Parses(e) THEN external' = e /\ Continue(e) /\ UNCHANGED result
                    ELSE End("BadRequest") /\ UNCHANGED external
    /\ UNCHANGED <<conf, req, sources, loaded, rulesets>>

\* Mutation: a ruleset that fails is skipped whatever the setting.
LoadRulesetsLeniently ==
    /\ pc = "rulesets"
    /\ IF Len(external.rulesets) > MaxSources
       THEN End("Limit") /\ UNCHANGED <<rulesets, reads>>
       ELSE IF Refused(external.rulesets)
       THEN End("Unauthorized") /\ UNCHANGED <<rulesets, reads>>
       ELSE /\ rulesets' \in [DOMAIN external.rulesets -> Errors \cup {"rules"}]
            /\ \A i \in DOMAIN rulesets' : rulesets'[i] \in RulesOrFailure(external.rulesets[i])
            /\ reads' = reads \cup {Read(external.rulesets[i], "external", "ruleset", i) :
                   i \in {j \in DOMAIN external.rulesets : Fetched(external.rulesets[j], FALSE)}}
            /\ pc' = "base"
            /\ UNCHANGED result
    /\ UNCHANGED <<conf, req, sources, loaded, external>>

\* load_rulesets
LoadRulesets ==
    /\ pc = "rulesets"
    /\ IF Len(external.rulesets) > MaxSources
       THEN End("Limit") /\ UNCHANGED <<rulesets, reads>>
       ELSE IF Refused(external.rulesets)
       THEN End("Unauthorized") /\ UNCHANGED <<rulesets, reads>>
       ELSE /\ rulesets' \in [DOMAIN external.rulesets -> Errors \cup {"rules"}]
            /\ \A i \in DOMAIN rulesets' : rulesets'[i] \in RulesOrFailure(external.rulesets[i])
            /\ reads' = reads \cup {Read(external.rulesets[i], "external", "ruleset", i) :
                   i \in {j \in DOMAIN external.rulesets : Fetched(external.rulesets[j], FALSE)}}
            /\ \/ ~conf.skip /\ \E i \in Failed(rulesets') : End(rulesets'[i])
               \/ /\ conf.skip \/ Failed(rulesets') = {}
                  /\ pc' = "base"
                  /\ UNCHANGED result
    /\ UNCHANGED <<conf, req, sources, loaded, external>>

-----------------------------------------------------------------------------
(* The rule base and the export *)

BaseSource ==
    IF external.base # "absent" THEN [kind |-> external.base, from |-> "external"]
    ELSE [kind |-> conf.base, from |-> "config"]

\* Mutation: the base is trusted once its external config has been accepted.
LoadBaseUnchecked ==
    LET source == BaseSource IN
    /\ pc = "base"
    /\ IF req.target = "clash" /\ OptimizeToHttp /\ ~req.baseUrl
       THEN End("NoBaseUrl") /\ UNCHANGED reads
       ELSE IF source.kind = "empty" THEN pc' = "export" /\ UNCHANGED <<reads, result>>
       ELSE /\ reads' = reads \cup {Read(source.kind, source.from, "base", 1)}
            /\ \/ \E error \in Failures(source.kind, TRUE) \cup {"Conversion"} : End(error)
               \/ pc' = "export" /\ UNCHANGED result
    /\ UNCHANGED <<conf, req, sources, loaded, external, rulesets>>

\* convert_clash and convert_singbox up to the exporter.
LoadBase ==
    LET source == BaseSource IN
    /\ pc = "base"
    /\ IF req.target = "clash" /\ OptimizeToHttp /\ ~req.baseUrl
       THEN End("NoBaseUrl") /\ UNCHANGED reads
       ELSE IF source.from = "external" /\ Sensitive(source.kind) /\ ~Authorized
       THEN End("Unauthorized") /\ UNCHANGED reads
       ELSE IF source.kind = "empty" THEN pc' = "export" /\ UNCHANGED <<reads, result>>
       ELSE /\ reads' = reads \cup {Read(source.kind, source.from, "base", 1)}
            /\ \/ \E error \in Failures(source.kind, TRUE) \cup {"Conversion"} : End(error)
               \/ pc' = "export" /\ UNCHANGED result
    /\ UNCHANGED <<conf, req, sources, loaded, external, rulesets>>

\* The exporter succeeds or finds the base unusable.
Export ==
    /\ pc = "export"
    /\ End("ok") \/ End("Conversion")
    /\ UNCHANGED <<conf, req, sources, loaded, external, rulesets, reads>>

Finished == pc = "done" /\ UNCHANGED vars

Next ==
    \/ Query \/ Convert \/ LoadSources
    \/ LoadExternal \/ LoadRulesets
    \/ LoadBase \/ Export
    \/ Finished

Spec == Init /\ [][Next]_vars

-----------------------------------------------------------------------------
(* Properties *)

\* Every variable has its type.
TypeOK ==
    /\ conf \in Configs
    /\ req \in Requests
    /\ pc \in {"query", "convert", "load", "external", "rulesets", "base", "export", "done"}
    /\ sources \in Seq([kind : Kind, from : {"request", "default", "insert"}])
    /\ loaded \in Seq(Errors \cup {"nodes", "deprecated"})
    /\ external \in Externals \cup {NoExternal}
    /\ rulesets \in Seq(Errors \cup {"rules"})
    /\ reads \subseteq [kind : Place,
                        from : {"request", "default", "insert", "config", "external"},
                        use : {"subscription", "external", "ruleset", "base"}, index : Nat]
    /\ result \in [outcome : Errors \cup {"none", "ok"},
                   at : {"none", "query", "convert", "load", "external",
                         "rulesets", "base", "export"}]

\* Nothing local, and none of the default subscriptions, is read for a request
\* that is not authorized unless the configuration itself names it: at whatever
\* step of the conversion the name turned up, in the request or in an external
\* config that was just fetched.
LocalReadsAuthorized ==
    \A r \in reads :
        \/ req.trusted \/ ~conf.apiMode \/ req.token
        \/ r.from \in {"insert", "config"}
        \/ r.kind = "remote" /\ r.from \in {"request", "external"}

\* Only a request without the token is refused, and never a private rewrite.
RefusalIsDeserved ==
    result.outcome = "Unauthorized" => conf.apiMode /\ ~req.token /\ ~req.trusted

\* A conversion never fetches more than max_allowed_rulesets subscriptions,
\* those the configuration inserts included, nor more rulesets than that.
FetchesLimited ==
    \A use \in {"subscription", "ruleset"} :
        Cardinality({r \in reads : r.use = use}) <= MaxSources

\* The nodes of the configured sources come before those of the request exactly
\* if prepend_insert_url says so, whichever sources were skipped or filtered.
InsertsKeepTheirPlace ==
    result.outcome = "ok" =>
        \A i, j \in DOMAIN Kept :
            sources[Kept[i]].from = "insert" /\ sources[Kept[j]].from # "insert" =>
                (i < j <=> conf.prepend)

\* Without skip_failed_links a conversion that succeeds has lost no source and
\* no ruleset; with it, it has at least one node.
SuccessIsComplete ==
    result.outcome = "ok" =>
        /\ Kept # <<>>
        /\ conf.skip \/ Failed(loaded) \cup Failed(rulesets) = {}
        /\ external.generate => DOMAIN rulesets = DOMAIN external.rulesets

\* Over HTTP a missing base URL is found before anything is fetched: the check
\* in convert_clash, after all downloads, is there for library callers.
BaseUrlCheckedEarly ==
    result.outcome = "NoBaseUrl" /\ req.door # "library" => reads = {}

\* docs/rust-operations.md:102-104 has an upstream failure answered 502: a
\* conversion that ends because every source failed upstream is.
UpstreamFailureIs502 ==
    result.at = "load" /\ Range(loaded) = {"Upstream"} => StatusOf(result.outcome) = 502

=============================================================================
