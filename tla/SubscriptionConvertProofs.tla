--------------------- MODULE SubscriptionConvertProofs ---------------------
(***************************************************************************)
(* Theorems about SubscriptionConvert, for all configurations, requests    *)
(* and contents of external configs, and lists of any length.              *)
(***************************************************************************)
EXTENDS SubscriptionConvert, SequenceFacts, FiniteSetTheorems

\* Sources that the configuration did not insert were looked at by Convert.
SourcesVetted ==
    \A i \in DOMAIN sources :
        \/ Authorized
        \/ sources[i].from = "insert"
        \/ sources[i].from = "request" /\ ~Sensitive(sources[i].kind)

\* A list is loaded only in its own step.
NotReadYet ==
    /\ pc \in {"query", "convert"} => reads = {}
    /\ pc \in {"query", "convert", "load", "external"} =>
          \A r \in reads : r.use # "ruleset"

\* What was read of a list is an element of it, and the list is short enough.
ReadFromLists ==
    /\ Len(sources) <= MaxSources
    /\ \A r \in reads :
        /\ r.use = "subscription" =>
              /\ r.index \in DOMAIN sources
              /\ r = Read(sources[r.index].kind, sources[r.index].from, "subscription", r.index)
        /\ r.use = "ruleset" =>
              /\ Len(external.rulesets) <= MaxSources
              /\ r.index \in DOMAIN external.rulesets
              /\ r = Read(external.rulesets[r.index], "external", "ruleset", r.index)

IInv ==
    /\ TypeOK
    /\ SourcesVetted
    /\ NotReadYet
    /\ ReadFromLists
    /\ LocalReadsAuthorized
    /\ RefusalIsDeserved

Source == [kind : Kind, from : {"request", "default", "insert"}]

\* Tagging a list with its origin keeps its length and order.
LEMMA FromIsSeq ==
  ASSUME NEW kinds \in Seq(Kind), NEW origin \in {"request", "default", "insert"}
  PROVE  /\ From(kinds, origin) \in Seq(Source)
         /\ DOMAIN From(kinds, origin) = DOMAIN kinds
         /\ \A i \in DOMAIN From(kinds, origin) :
               From(kinds, origin)[i].kind = kinds[i] /\ From(kinds, origin)[i].from = origin
<1> DEFINE f == [i \in 1 .. Len(kinds) |-> [kind |-> kinds[i], from |-> origin]]
<1>1. DOMAIN kinds = 1 .. Len(kinds) /\ Len(kinds) \in Nat
  OBVIOUS
<1>2. From(kinds, origin) = f
  BY <1>1 DEF From
<1>3. \A i \in 1 .. Len(kinds) : [kind |-> kinds[i], from |-> origin] \in Source
  BY DEF Source
<1>4. f \in Seq(Source)
  BY <1>1, <1>3
<1>5. DOMAIN f = 1 .. Len(kinds) /\ Len(f) = Len(kinds)
  BY <1>1, <1>4
<1> QED
  BY <1>1, <1>2, <1>4, <1>5

\* A combined list holds nothing but elements of the two.
LEMMA CombineElements ==
  ASSUME NEW s \in Seq(Source), NEW t \in Seq(Source)
  PROVE  /\ Combine(s, t) \in Seq(Source)
         /\ \A i \in DOMAIN Combine(s, t) :
               \/ \E k \in DOMAIN s : Combine(s, t)[i] = s[k]
               \/ \E k \in DOMAIN t : Combine(s, t)[i] = t[k]
<1>1. ASSUME NEW a \in Seq(Source), NEW b \in Seq(Source)
      PROVE  /\ a \o b \in Seq(Source)
             /\ \A i \in DOMAIN (a \o b) :
                   \/ \E k \in DOMAIN a : (a \o b)[i] = a[k]
                   \/ \E k \in DOMAIN b : (a \o b)[i] = b[k]
  <2>1. a \o b \in Seq(Source) /\ Len(a \o b) = Len(a) + Len(b)
    OBVIOUS
  <2>2. ASSUME NEW i \in DOMAIN (a \o b)
        PROVE  \/ \E k \in DOMAIN a : (a \o b)[i] = a[k]
               \/ \E k \in DOMAIN b : (a \o b)[i] = b[k]
    <3>1. CASE i <= Len(a)
      <4>1. i \in DOMAIN a /\ (a \o b)[i] = a[i]
        BY <2>1, <3>1
      <4> QED
        BY <4>1
    <3>2. CASE ~(i <= Len(a))
      <4>1. i - Len(a) \in DOMAIN b /\ (a \o b)[i] = b[i - Len(a)]
        BY <2>1, <3>2
      <4> QED
        BY <4>1
    <3> QED
      BY <3>1, <3>2
  <2> QED
    BY <2>1, <2>2
<1> QED
  BY <1>1 DEF Combine

\* What Convert is about to load: each element is one of Main or an insert.
LEMMA WithInsertsElements ==
  ASSUME conf \in Configs, req \in Requests
  PROVE  /\ Main \in Seq(Source)
         /\ \A i \in DOMAIN Main :
               \/ Main[i].from = "request" /\ req.sources # <<>>
               \/ Main[i].from = "default" /\ req.sources = <<>>
         /\ WithInserts \in Seq(Source)
         /\ \A i \in DOMAIN WithInserts :
               \/ WithInserts[i].from = "insert"
               \/ \E k \in DOMAIN Main : WithInserts[i] = Main[k]
<1>1. conf.defaults \in Seq(Kind) /\ conf.inserts \in Seq(Kind) /\ req.sources \in Seq(Kind)
  BY ConvertAssumption DEF Config, Request
<1>2. /\ Main \in Seq(Source)
      /\ \A i \in DOMAIN Main :
            \/ Main[i].from = "request" /\ req.sources # <<>>
            \/ Main[i].from = "default" /\ req.sources = <<>>
  <2>1. CASE req.sources # <<>>
    <3>1. Main = From(req.sources, "request")
      BY <2>1 DEF Main
    <3> QED
      BY <1>1, <2>1, <3>1, FromIsSeq, Zenon
  <2>2. CASE req.sources = <<>>
    <3>1. Main = From(conf.defaults, "default")
      BY <2>2 DEF Main
    <3> QED
      BY <1>1, <2>2, <3>1, FromIsSeq, ZenonT(60)
  <2> QED
    BY <2>1, <2>2
<1>3. /\ From(conf.inserts, "insert") \in Seq(Source)
      /\ \A i \in DOMAIN From(conf.inserts, "insert") :
            From(conf.inserts, "insert")[i].from = "insert"
  BY <1>1, FromIsSeq, Zenon
<1>4. /\ Combine(From(conf.inserts, "insert"), Main) \in Seq(Source)
      /\ \A i \in DOMAIN Combine(From(conf.inserts, "insert"), Main) :
            \/ Combine(From(conf.inserts, "insert"), Main)[i].from = "insert"
            \/ \E k \in DOMAIN Main : Combine(From(conf.inserts, "insert"), Main)[i] = Main[k]
  BY <1>2, <1>3, CombineElements
<1> QED
  BY <1>2, <1>4 DEF WithInserts

\* The invariant holds before a conversion starts.
LEMMA InitHolds == Init => IInv
<1> SUFFICES ASSUME Init PROVE IInv
  OBVIOUS
<1>1. TypeOK
  BY DEF Init, TypeOK, Unfinished, NoExternal
<1>2. SourcesVetted /\ NotReadYet /\ ReadFromLists
  BY ConvertAssumption DEF Init, SourcesVetted, NotReadYet, ReadFromLists
<1>3. LocalReadsAuthorized /\ RefusalIsDeserved
  BY DEF Init, LocalReadsAuthorized, RefusalIsDeserved, Unfinished
<1> QED
  BY <1>1, <1>2, <1>3 DEF IInv

-----------------------------------------------------------------------------
(* The steps of a conversion *)

Steps == {"query", "convert", "load", "external", "rulesets", "base", "export"}

Results == [outcome : Errors \cup {"none", "ok"}, at : {"none"} \cup Steps]

\* A step that ends the conversion records an outcome of the right type.
LEMMA EndType ==
  ASSUME NEW outcome \in Errors \cup {"ok"}, pc \in Steps, End(outcome)
  PROVE  pc' = "done" /\ result' \in Results /\ result'.outcome = outcome
  BY DEF End, Results

\* No source, whatever its kind, fails with Unauthorized: only a guard does.
LEMMA FailuresAreErrors ==
  ASSUME NEW kind \in Kind \cup {"inline"}, NEW allowLocal \in BOOLEAN
  PROVE  /\ Failures(kind, allowLocal) \subseteq Errors \ {"Unauthorized"}
         /\ NodesOrFailure(kind) \subseteq (Errors \ {"Unauthorized"}) \cup {"nodes", "deprecated"}
         /\ RulesOrFailure(kind) \subseteq (Errors \ {"Unauthorized"}) \cup {"rules"}
<1>1. ASSUME NEW local \in BOOLEAN
      PROVE  Failures(kind, local) \subseteq Errors \ {"Unauthorized"}
  BY DEF Failures, Errors, Kind, Place
<1> QED
  BY <1>1 DEF NodesOrFailure, RulesOrFailure

\* A step that leaves the lists, the reads and the result alone.
LEMMA OnwardHolds ==
  ASSUME IInv, UNCHANGED <<conf, req, sources, loaded, external, rulesets, reads>>,
         pc' \in Steps \cup {"done"},
         pc' \in {"query", "convert"} => pc \in {"query", "convert"},
         pc' \in {"query", "convert", "load", "external"} =>
            pc \in {"query", "convert", "load", "external"},
         result' \in Results,
         result'.outcome = "Unauthorized" => ~Authorized
  PROVE  IInv'
<1>1. TypeOK'
  BY DEF IInv, TypeOK, Steps, Results
<1>2. SourcesVetted' /\ ReadFromLists'
  BY DEF IInv, SourcesVetted, ReadFromLists, Authorized
<1>3. NotReadYet'
  BY DEF IInv, NotReadYet
<1>4. LocalReadsAuthorized' /\ RefusalIsDeserved'
  BY DEF IInv, LocalReadsAuthorized, RefusalIsDeserved, Authorized
<1> QED
  BY <1>1, <1>2, <1>3, <1>4 DEF IInv

\* What is known of the result before the conversion has ended.
LEMMA ResultSoFar ==
  ASSUME IInv
  PROVE  /\ result \in Results
         /\ result.outcome = "Unauthorized" => ~Authorized
  BY DEF IInv, TypeOK, RefusalIsDeserved, Results, Steps, Authorized

\* The handlers of /sub and /p keep the invariant.
LEMMA QueryHolds == IInv /\ Query => IInv'
<1> SUFFICES ASSUME IInv, Query PROVE IInv'
  OBVIOUS
<1>1. pc = "query" /\ UNCHANGED <<conf, req, sources, loaded, external, rulesets, reads>>
  BY DEF Query
<1>2. ASSUME NEW outcome \in {"BadRequest", "NotFound", "NoBaseUrl"}, End(outcome)
      PROVE  IInv'
  BY <1>1, <1>2, EndType, OnwardHolds DEF Errors, Steps
<1>3. CASE pc' = "convert" /\ UNCHANGED result
  BY <1>1, <1>3, ResultSoFar, OnwardHolds DEF Steps
<1> QED
  BY <1>2, <1>3 DEF Query

\* The exporter keeps the invariant.
LEMMA ExportHolds == IInv /\ Export => IInv'
<1> SUFFICES ASSUME IInv, Export PROVE IInv'
  OBVIOUS
<1>1. pc = "export" /\ UNCHANGED <<conf, req, sources, loaded, external, rulesets, reads>>
  BY DEF Export
<1>2. ASSUME NEW outcome \in {"ok", "Conversion"}, End(outcome)
      PROVE  IInv'
  BY <1>1, <1>2, EndType, OnwardHolds DEF Errors, Steps
<1> QED
  BY <1>2 DEF Export

\* What Convert lets through has been vetted and is short enough.
LEMMA ConvertHolds == IInv /\ Convert => IInv'
<1> SUFFICES ASSUME IInv, Convert PROVE IInv'
  OBVIOUS
<1>1. pc = "convert" /\ UNCHANGED <<conf, req, loaded, external, rulesets, reads>>
  BY DEF Convert
<1>2. ASSUME NEW outcome \in {"Unauthorized", "BadRequest", "Limit"}, End(outcome),
             UNCHANGED sources, outcome = "Unauthorized" => ~Authorized
      PROVE  IInv'
  BY <1>1, <1>2, EndType, OnwardHolds DEF Errors, Steps
<1>3. ASSUME ~(conf.apiMode /\ req.sources = <<>> /\ ~Authorized),
             ~Refused([i \in DOMAIN Main |-> Main[i].kind]),
             Len(WithInserts) <= MaxSources,
             sources' = WithInserts, pc' = "load", UNCHANGED result
      PROVE  IInv'
  <2>1. conf \in Configs /\ req \in Requests
    BY DEF IInv, TypeOK
  <2>2. reads = {} /\ reads' = {}
    BY <1>1 DEF IInv, NotReadYet
  <2>3. TypeOK'
    BY <1>1, <1>3, <2>1, WithInsertsElements DEF IInv, TypeOK, Source
  <2>4. ASSUME NEW k \in DOMAIN Main
        PROVE  Authorized \/ (Main[k].from = "request" /\ ~Sensitive(Main[k].kind))
    <3>1. Authorized \/ ~Sensitive(Main[k].kind)
      BY <1>3 DEF Refused
    <3>2. Authorized \/ req.sources # <<>>
      BY <1>3 DEF Authorized
    <3> QED
      BY <2>1, <3>1, <3>2, WithInsertsElements
  <2>5. SourcesVetted'
    <3>1. ASSUME NEW i \in DOMAIN WithInserts
          PROVE  \/ Authorized
                 \/ WithInserts[i].from = "insert"
                 \/ WithInserts[i].from = "request" /\ ~Sensitive(WithInserts[i].kind)
      BY <2>1, <2>4, WithInsertsElements
    <3>2. Authorized' = Authorized
      BY <1>1 DEF Authorized
    <3> QED
      BY <1>3, <3>1, <3>2 DEF SourcesVetted
  <2>6. NotReadYet' /\ ReadFromLists' /\ LocalReadsAuthorized'
    BY <1>3, <2>2 DEF NotReadYet, ReadFromLists, LocalReadsAuthorized
  <2>7. RefusalIsDeserved'
    BY <1>1, <1>3 DEF IInv, RefusalIsDeserved
  <2> QED
    BY <2>3, <2>5, <2>6, <2>7 DEF IInv
<1>4. Len(WithInserts) \in Nat /\ MaxSources \in Nat
  BY WithInsertsElements, ConvertAssumption DEF IInv, TypeOK
<1> QED
  BY <1>1, <1>2, <1>3, <1>4 DEF Convert, Refused

\* A remote source, or a local one that may be named by whoever named it.
Permitted(r) ==
    \/ Authorized
    \/ r.from \in {"insert", "config"}
    \/ r.kind = "remote" /\ r.from \in {"request", "external"}

ReadType ==
    [kind : Place, from : {"request", "default", "insert", "config", "external"},
     use : {"subscription", "external", "ruleset", "base"}, index : Nat]

\* Loading reads vetted sources only, each once.
LEMMA LoadSourcesHolds == IInv /\ LoadSources => IInv'
<1> SUFFICES ASSUME IInv, LoadSources PROVE IInv'
  OBVIOUS
<1> DEFINE new == {Read(sources[i].kind, sources[i].from, "subscription", i) :
                      i \in {j \in DOMAIN sources : Fetched(sources[j].kind, FALSE)}}
<1>1. /\ pc = "load" /\ UNCHANGED <<conf, req, sources, external, rulesets>>
      /\ reads' = reads \cup new
      /\ loaded' \in [DOMAIN sources -> Errors \cup {"nodes", "deprecated"}]
      /\ \A i \in DOMAIN sources : loaded'[i] \in NodesOrFailure(sources[i].kind)
  BY DEF LoadSources
<1>2. /\ sources \in Seq(Source) /\ Len(sources) \in Nat
      /\ DOMAIN sources = 1 .. Len(sources)
      /\ \A i \in DOMAIN sources : sources[i] \in Source /\ i \in Nat
  <2>1. sources \in Seq(Source)
    BY DEF IInv, TypeOK, Source
  <2> QED
    BY <2>1
<1>3. loaded' \in Seq(Errors \cup {"nodes", "deprecated"})
  BY <1>1, <1>2
<1>4. \A i \in Failed(loaded') : loaded'[i] \in Errors \ {"Unauthorized"}
  <2>1. ASSUME NEW i \in DOMAIN sources
        PROVE  loaded'[i] \in (Errors \ {"Unauthorized"}) \cup {"nodes", "deprecated"}
    BY <1>1, <1>2, FailuresAreErrors DEF Source
  <2>2. DOMAIN loaded' = DOMAIN sources
    BY <1>1
  <2> QED
    BY <2>1, <2>2 DEF Failed, Errors
<1>5. /\ pc' \in {"external", "done"}
      /\ result' \in Results
      /\ result'.outcome = "Unauthorized" => result.outcome = "Unauthorized"
  <2>1. ASSUME NEW outcome \in Errors \ {"Unauthorized"}, End(outcome)
        PROVE  /\ pc' = "done" /\ result' \in Results
               /\ result'.outcome # "Unauthorized"
    BY <1>1, <2>1, EndType DEF Steps
  <2>2. CASE \E i \in Failed(loaded') : End(loaded'[i])
    BY <1>4, <2>1, <2>2
  <2>3. CASE End("BadRequest")
    BY <2>1, <2>3 DEF Errors
  <2>4. CASE pc' = "external" /\ UNCHANGED result
    BY <2>4, ResultSoFar
  <2> QED
    BY <2>2, <2>3, <2>4 DEF LoadSources
<1>6. \A r \in new :
          /\ r \in ReadType
          /\ r.use = "subscription" /\ r.index \in DOMAIN sources
          /\ r = Read(sources[r.index].kind, sources[r.index].from, "subscription", r.index)
          /\ Permitted(r)
  <2>1. ASSUME NEW i \in DOMAIN sources, Fetched(sources[i].kind, FALSE),
               NEW r, r = Read(sources[i].kind, sources[i].from, "subscription", i)
        PROVE  /\ r \in ReadType
               /\ r.use = "subscription" /\ r.index = i
               /\ Permitted(r)
    <3>1. sources[i].kind \in {"remote", "shared"}
      BY <2>1 DEF Fetched
    <3>2. r \in ReadType /\ r.use = "subscription" /\ r.index = i
      BY <1>2, <2>1, <3>1 DEF Read, ReadType, Source, Place
    <3>3. Permitted(r)
      BY <2>1, <3>1 DEF IInv, SourcesVetted, Permitted, Read, Sensitive
    <3> QED
      BY <3>2, <3>3
  <2> SUFFICES ASSUME NEW r \in new
               PROVE  /\ r \in ReadType
                      /\ r.use = "subscription" /\ r.index \in DOMAIN sources
                      /\ r = Read(sources[r.index].kind, sources[r.index].from,
                                  "subscription", r.index)
                      /\ Permitted(r)
    BY Zenon
  <2>2. PICK i \in DOMAIN sources :
            /\ Fetched(sources[i].kind, FALSE)
            /\ r = Read(sources[i].kind, sources[i].from, "subscription", i)
    BY Zenon
  <2>3. r \in ReadType /\ r.use = "subscription" /\ r.index = i /\ Permitted(r)
    BY <2>1, <2>2, Zenon
  <2> QED
    BY <2>2, <2>3, Zenon
<1> HIDE DEF new
<1>7. TypeOK'
  BY <1>1, <1>3, <1>5, <1>6 DEF IInv, TypeOK, ReadType, Results, Steps
<1>8. SourcesVetted'
  BY <1>1 DEF IInv, SourcesVetted, Authorized
<1>9. NotReadYet'
  BY <1>1, <1>5, <1>6 DEF IInv, NotReadYet
<1>10. ReadFromLists'
  BY <1>1, <1>6 DEF IInv, ReadFromLists
<1>11. LocalReadsAuthorized'
  BY <1>1, <1>6 DEF IInv, LocalReadsAuthorized, Permitted, Authorized
<1>12. RefusalIsDeserved'
  BY <1>1, <1>5 DEF IInv, RefusalIsDeserved
<1> QED
  BY <1>7, <1>8, <1>9, <1>10, <1>11, <1>12 DEF IInv

\* A step that reads one thing more, and no list.
LEMMA ReadMoreHolds ==
  ASSUME IInv, UNCHANGED <<conf, req, sources, loaded, rulesets>>,
         pc \in {"external", "rulesets", "base"},
         pc' \in {"rulesets", "base", "export", "done"},
         external' = external \/ (pc = "external" /\ external' \in Externals),
         NEW r \in ReadType, r.use \notin {"subscription", "ruleset"}, Permitted(r),
         reads' = reads \cup {r},
         result' \in Results,
         result'.outcome = "Unauthorized" => ~Authorized
  PROVE  IInv'
<1>1. TypeOK'
  BY DEF IInv, TypeOK, Steps, Results, ReadType
<1>2. SourcesVetted'
  BY DEF IInv, SourcesVetted, Authorized
<1>3. NotReadYet'
  BY DEF IInv, NotReadYet
<1>4. ReadFromLists'
  BY DEF IInv, ReadFromLists, NotReadYet
<1>5. LocalReadsAuthorized' /\ RefusalIsDeserved'
  BY DEF IInv, LocalReadsAuthorized, RefusalIsDeserved, Authorized, Permitted
<1> QED
  BY <1>1, <1>2, <1>3, <1>4, <1>5 DEF IInv

\* A base is read only where it may be.
LEMMA LoadBaseHolds == IInv /\ LoadBase => IInv'
<1> SUFFICES ASSUME IInv, LoadBase PROVE IInv'
  OBVIOUS
<1> DEFINE source == BaseSource
           r == Read(source.kind, source.from, "base", 1)
<1>1. pc = "base" /\ UNCHANGED <<conf, req, sources, loaded, external, rulesets>>
  BY DEF LoadBase
<1>2. /\ source.kind \in Place \cup {"empty"}
      /\ source.from \in {"external", "config"}
  <2>1. external.base \in Place \cup {"absent", "empty"} /\ conf.base \in Place \cup {"empty"}
    BY ConvertAssumption DEF IInv, TypeOK, External, Config, NoExternal
  <2> QED
    BY <2>1 DEF BaseSource
<1> HIDE DEF source
<1>3. ASSUME NEW outcome \in {"NoBaseUrl", "Unauthorized"}, End(outcome), UNCHANGED reads,
             outcome = "Unauthorized" => ~Authorized
      PROVE  IInv'
  BY <1>1, <1>3, EndType, OnwardHolds DEF Errors, Steps
<1>4. CASE pc' = "export" /\ UNCHANGED <<reads, result>>
  BY <1>1, <1>4, ResultSoFar, OnwardHolds DEF Steps
<1>5. ASSUME source.kind # "empty",
             ~(source.from = "external" /\ Sensitive(source.kind) /\ ~Authorized),
             reads' = reads \cup {r},
             \/ \E error \in Failures(source.kind, TRUE) \cup {"Conversion"} : End(error)
             \/ pc' = "export" /\ UNCHANGED result
      PROVE  IInv'
  <2>1. r \in ReadType /\ r.use = "base" /\ Permitted(r)
    BY <1>2, <1>5 DEF Read, ReadType, Place, Permitted, Sensitive
  <2>2. CASE pc' = "export" /\ UNCHANGED result
    BY <1>1, <1>5, <2>1, <2>2, ResultSoFar, ReadMoreHolds
  <2>3. ASSUME NEW error \in Failures(source.kind, TRUE) \cup {"Conversion"}, End(error)
        PROVE  IInv'
    <3>1. error \in Errors \ {"Unauthorized"}
      BY <1>2, <1>5, FailuresAreErrors DEF Errors, Kind
    <3>2. pc' = "done" /\ result' \in Results /\ result'.outcome = error
      BY <1>1, <2>3, <3>1, EndType DEF Steps
    <3> QED
      BY <1>1, <1>5, <2>1, <3>1, <3>2, ReadMoreHolds
  <2> QED
    BY <1>5, <2>2, <2>3
<1> QED
  BY <1>3, <1>4, <1>5 DEF LoadBase, source

\* An external config is read only where it may be.
LEMMA LoadExternalHolds == IInv /\ LoadExternal => IInv'
<1> SUFFICES ASSUME IInv, LoadExternal PROVE IInv'
  OBVIOUS
<1> DEFINE source == ExternalSource
           r == Read(source.kind, source.from, "external", 1)
<1>1. pc = "external" /\ UNCHANGED <<conf, req, sources, loaded, rulesets>>
  BY DEF LoadExternal
<1>2. /\ source.kind \in Place \cup {"empty"}
      /\ source.from \in {"request", "config"}
      /\ source.from = "request" => req.external # "absent"
  <2>1. req.external \in Place \cup {"absent", "empty"} /\ conf.external \in Place \cup {"empty"}
    BY ConvertAssumption DEF IInv, TypeOK, Request, Config
  <2> QED
    BY <2>1 DEF ExternalSource
<1> HIDE DEF source
<1>3. ASSUME Continue(NoExternal), UNCHANGED <<external, reads, result>>
      PROVE  IInv'
  BY <1>1, <1>3, ResultSoFar, OnwardHolds DEF Continue, Steps
<1>4. ASSUME ~Authorized, End("Unauthorized"), UNCHANGED <<external, reads>>
      PROVE  IInv'
  BY <1>1, <1>4, EndType, OnwardHolds DEF Errors, Steps
<1>5. ASSUME source.kind # "empty",
             ~(req.external # "absent" /\ Sensitive(source.kind) /\ ~Authorized),
             reads' = reads \cup {r}
      PROVE  IInv'
  <2>1. r \in ReadType /\ r.use = "external" /\ Permitted(r)
    BY <1>2, <1>5 DEF Read, ReadType, Place, Permitted, Sensitive
  <2>2. ASSUME NEW error \in Errors \ {"Unauthorized"}, End(error), UNCHANGED external
        PROVE  IInv'
    <3>1. pc' = "done" /\ result' \in Results /\ result'.outcome = error
      BY <1>1, <2>2, EndType DEF Steps
    <3> QED
      BY <1>1, <1>5, <2>1, <2>2, <3>1, ReadMoreHolds
  <2>3. ASSUME NEW e \in Externals, external' = e, Continue(e), UNCHANGED result
        PROVE  IInv'
    <3>1. pc' \in {"rulesets", "base"}
      BY <2>3 DEF Continue
    <3> QED
      BY <1>1, <1>5, <2>1, <2>3, <3>1, ResultSoFar, ReadMoreHolds
  <2>4. Failures(source.kind, TRUE) \cup {"Conversion", "BadRequest"} \subseteq Errors \ {"Unauthorized"}
    BY <1>2, <1>5, FailuresAreErrors DEF Errors, Kind
  <2> QED
    BY <1>5, <2>2, <2>3, <2>4, <1>3, <1>4 DEF LoadExternal, source
<1> QED
  BY <1>3, <1>4, <1>5 DEF LoadExternal, source

\* The rulesets of an external config are a list.
LEMMA RulesetsAreSeq ==
  ASSUME IInv
  PROVE  external.rulesets \in Seq(Place \cup {"inline"})
<1>1. CASE external \in Externals
  <2>1. external \in External
    BY <1>1, ConvertAssumption
  <2> QED
    BY <2>1 DEF External
<1>2. CASE external = NoExternal
  <2>1. external.rulesets = <<>>
    BY <1>2 DEF NoExternal
  <2> QED
    BY <2>1
<1> QED
  BY <1>1, <1>2 DEF IInv, TypeOK

\* Rulesets are read only where they may be, and no more than the limit.
LEMMA LoadRulesetsHolds == IInv /\ LoadRulesets => IInv'
<1> SUFFICES ASSUME IInv, LoadRulesets PROVE IInv'
  OBVIOUS
<1> DEFINE specs == external.rulesets
           new == {Read(specs[i], "external", "ruleset", i) :
                      i \in {j \in DOMAIN specs : Fetched(specs[j], FALSE)}}
<1>1. pc = "rulesets" /\ UNCHANGED <<conf, req, sources, loaded, external>>
  BY DEF LoadRulesets
<1>2. /\ specs \in Seq(Place \cup {"inline"}) /\ Len(specs) \in Nat /\ MaxSources \in Nat
      /\ DOMAIN specs = 1 .. Len(specs)
      /\ \A i \in DOMAIN specs : specs[i] \in Place \cup {"inline"} /\ i \in Nat
  <2>1. specs \in Seq(Place \cup {"inline"})
    BY RulesetsAreSeq
  <2> QED
    BY <2>1, ConvertAssumption
<1>3. ASSUME NEW outcome \in {"Limit", "Unauthorized"}, End(outcome),
             UNCHANGED <<rulesets, reads>>, outcome = "Unauthorized" => ~Authorized
      PROVE  IInv'
  BY <1>1, <1>3, EndType, OnwardHolds DEF Errors, Steps
<1>4. ASSUME Len(specs) <= MaxSources, ~Refused(specs),
             rulesets' \in [DOMAIN specs -> Errors \cup {"rules"}],
             \A i \in DOMAIN rulesets' : rulesets'[i] \in RulesOrFailure(specs[i]),
             reads' = reads \cup new,
             \/ \E i \in Failed(rulesets') : End(rulesets'[i])
             \/ pc' = "base" /\ UNCHANGED result
      PROVE  IInv'
  <2>1. rulesets' \in Seq(Errors \cup {"rules"})
    BY <1>2, <1>4
  <2>2. \A i \in Failed(rulesets') : rulesets'[i] \in Errors \ {"Unauthorized"}
    <3>1. ASSUME NEW i \in DOMAIN specs
          PROVE  rulesets'[i] \in (Errors \ {"Unauthorized"}) \cup {"rules"}
      BY <1>2, <1>4, FailuresAreErrors DEF Kind
    <3>2. DOMAIN rulesets' = DOMAIN specs
      BY <1>4
    <3> QED
      BY <3>1, <3>2 DEF Failed, Errors
  <2>3. /\ pc' \in {"base", "done"}
        /\ result' \in Results
        /\ result'.outcome = "Unauthorized" => result.outcome = "Unauthorized"
    <3>1. ASSUME NEW outcome \in Errors \ {"Unauthorized"}, End(outcome)
          PROVE  pc' = "done" /\ result' \in Results /\ result'.outcome # "Unauthorized"
      BY <1>1, <3>1, EndType DEF Steps
    <3>2. CASE \E i \in Failed(rulesets') : End(rulesets'[i])
      BY <2>2, <3>1, <3>2
    <3>3. CASE pc' = "base" /\ UNCHANGED result
      BY <3>3, ResultSoFar
    <3> QED
      BY <1>4, <3>2, <3>3
  <2>4. \A r \in new :
            /\ r \in ReadType
            /\ r.use = "ruleset" /\ r.index \in DOMAIN specs
            /\ r = Read(specs[r.index], "external", "ruleset", r.index)
            /\ Permitted(r)
    <3>1. ASSUME NEW i \in DOMAIN specs, Fetched(specs[i], FALSE),
                 NEW r, r = Read(specs[i], "external", "ruleset", i)
          PROVE  r \in ReadType /\ r.use = "ruleset" /\ r.index = i /\ Permitted(r)
      <4>1. specs[i] \in {"remote", "shared"}
        BY <3>1 DEF Fetched
      <4>2. r \in ReadType /\ r.use = "ruleset" /\ r.index = i
        BY <1>2, <3>1, <4>1 DEF Read, ReadType, Place
      <4>3. Permitted(r)
        BY <1>4, <3>1, <4>1 DEF Refused, Permitted, Read, Sensitive
      <4> QED
        BY <4>2, <4>3
    <3> SUFFICES ASSUME NEW r \in new
                 PROVE  /\ r \in ReadType
                        /\ r.use = "ruleset" /\ r.index \in DOMAIN specs
                        /\ r = Read(specs[r.index], "external", "ruleset", r.index)
                        /\ Permitted(r)
      BY Zenon
    <3>2. PICK i \in DOMAIN specs :
              Fetched(specs[i], FALSE) /\ r = Read(specs[i], "external", "ruleset", i)
      BY Zenon
    <3>3. r \in ReadType /\ r.use = "ruleset" /\ r.index = i /\ Permitted(r)
      BY <3>1, <3>2, Zenon
    <3> QED
      BY <3>2, <3>3, Zenon
  <2> HIDE DEF new
  <2>5. TypeOK'
    BY <1>1, <1>4, <2>1, <2>3, <2>4 DEF IInv, TypeOK, ReadType, Results, Steps
  <2>6. SourcesVetted'
    BY <1>1 DEF IInv, SourcesVetted, Authorized
  <2>7. NotReadYet'
    BY <2>3 DEF NotReadYet
  <2>8. ReadFromLists'
    BY <1>1, <1>4, <2>4 DEF IInv, ReadFromLists
  <2>9. LocalReadsAuthorized'
    BY <1>1, <1>4, <2>4 DEF IInv, LocalReadsAuthorized, Permitted, Authorized
  <2>10. RefusalIsDeserved'
    BY <1>1, <2>3 DEF IInv, RefusalIsDeserved
  <2> QED
    BY <2>5, <2>6, <2>7, <2>8, <2>9, <2>10 DEF IInv
<1>5. CASE Len(specs) > MaxSources
  BY <1>3, <1>5 DEF LoadRulesets
<1>6. CASE ~(Len(specs) > MaxSources) /\ Refused(specs)
  BY <1>3, <1>6 DEF LoadRulesets, Refused
<1>7. CASE ~(Len(specs) > MaxSources) /\ ~Refused(specs)
  <2>1. /\ rulesets' \in [DOMAIN specs -> Errors \cup {"rules"}]
        /\ \A i \in DOMAIN rulesets' : rulesets'[i] \in RulesOrFailure(specs[i])
        /\ reads' = reads \cup new
        /\ \/ \E i \in Failed(rulesets') : End(rulesets'[i])
           \/ pc' = "base" /\ UNCHANGED result
    BY <1>7, Zenon DEF LoadRulesets
  <2>2. Len(specs) <= MaxSources
    BY <1>2, <1>7
  <2> QED
    BY <1>4, <1>7, <2>1, <2>2, Zenon
<1> QED
  BY <1>5, <1>6, <1>7

\* The invariant is about the variables alone.
LEMMA StutterHolds == IInv /\ UNCHANGED vars => IInv'
<1> SUFFICES ASSUME IInv, UNCHANGED vars PROVE IInv'
  OBVIOUS
<1>1. TypeOK' /\ NotReadYet'
  BY DEF IInv, vars, TypeOK, NotReadYet
<1>2. SourcesVetted' /\ ReadFromLists'
  BY DEF IInv, vars, SourcesVetted, ReadFromLists, Authorized
<1>3. LocalReadsAuthorized' /\ RefusalIsDeserved'
  BY DEF IInv, vars, LocalReadsAuthorized, RefusalIsDeserved
<1> QED
  BY <1>1, <1>2, <1>3 DEF IInv

\* The invariant always holds.
LEMMA InductiveInvariant == Spec => []IInv
<1>1. Init => IInv
  BY InitHolds
<1>2. IInv /\ [Next]_vars => IInv'
  BY QueryHolds, ConvertHolds, LoadSourcesHolds, LoadExternalHolds, LoadRulesetsHolds,
     LoadBaseHolds, ExportHolds, StutterHolds DEF Next, Finished
<1> QED
  BY <1>1, <1>2, PTL DEF Spec

-----------------------------------------------------------------------------
(* Theorems *)

\* The variables of a conversion keep their types.
THEOREM TypeCorrect == Spec => []TypeOK
<1>1. IInv => TypeOK
  BY DEF IInv
<1> QED
  BY <1>1, InductiveInvariant, PTL

\* A request that is not authorized makes the service read nothing local, and
\* none of the default subscriptions, beyond what the configuration names.
THEOREM LocalReadsAreAuthorized == Spec => []LocalReadsAuthorized
<1>1. IInv => LocalReadsAuthorized
  BY DEF IInv
<1> QED
  BY <1>1, InductiveInvariant, PTL

\* Only requests without the token are refused, and no private rewrite is.
THEOREM RefusalsAreDeserved == Spec => []RefusalIsDeserved
<1>1. IInv => RefusalIsDeserved
  BY DEF IInv
<1> QED
  BY <1>1, InductiveInvariant, PTL

\* However long the lists of the request, the configuration and the external
\* config are, no more than max_allowed_rulesets of each kind are fetched: what
\* was read of a list is told apart by its index in it.
THEOREM FetchesAreLimited == Spec => []FetchesLimited
<1>1. ASSUME IInv PROVE FetchesLimited
  <2>1. ASSUME NEW use \in {"subscription", "ruleset"}
        PROVE  Cardinality({r \in reads : r.use = use}) <= MaxSources
    <3> DEFINE read == {r \in reads : r.use = use}
               f == [r \in read |-> r.index]
    <3>1. /\ Len(sources) \in Nat /\ DOMAIN sources = 1 .. Len(sources)
          /\ Len(external.rulesets) \in Nat
          /\ DOMAIN external.rulesets = 1 .. Len(external.rulesets)
      <4>1. external.rulesets \in Seq(Place \cup {"inline"})
        BY <1>1, RulesetsAreSeq
      <4>2. sources \in Seq(Source)
        BY <1>1 DEF IInv, TypeOK, Source
      <4> QED
        BY <4>1, <4>2
    <3>2. MaxSources \in Nat
      BY ConvertAssumption
    <3>3. \A r \in read : r.index \in 1 .. MaxSources
      BY <1>1, <3>1, <3>2 DEF IInv, ReadFromLists
    <3>4. \A r, s \in read : r.index = s.index => r = s
      BY <1>1 DEF IInv, ReadFromLists
    <3>5. f \in Injection(read, 1 .. MaxSources)
      BY <3>3, <3>4 DEF Injection, IsInjective
    <3>6. IsFiniteSet(1 .. MaxSources) /\ Cardinality(1 .. MaxSources) = MaxSources
      BY <3>2, FS_Interval
    <3>7. Cardinality(read) <= Cardinality(1 .. MaxSources)
      BY <3>5, <3>6, FS_Injection
    <3> QED
      BY <3>6, <3>7
  <2> QED
    BY <2>1 DEF FetchesLimited
<1> QED
  BY <1>1, InductiveInvariant, PTL

-----------------------------------------------------------------------------
(* Successes and base URLs *)

\* No result before the end; what the steps passed so far have let through; and
\* behind the handlers of /sub and /p, a base URL where one will be needed.
Progress ==
    /\ pc # "done" => result = Unfinished
    /\ pc \in {"query", "convert", "load", "external", "rulesets"} => rulesets = <<>>
    /\ pc \in {"external", "rulesets", "base", "export"} =>
          Kept # <<>> /\ (conf.skip \/ Failed(loaded) = {})
    /\ pc \in {"base", "export"} =>
          /\ conf.skip \/ Failed(rulesets) = {}
          /\ external.generate => DOMAIN rulesets = DOMAIN external.rulesets
    /\ pc \in {"query", "convert", "load", "external"} => external = NoExternal

NeedsBaseUrl == req.target = "clash" /\ OptimizeToHttp /\ ~req.baseUrl

BaseUrlKnown ==
    /\ req.door = "library" => pc # "query"
    /\ pc \notin {"query", "done"} /\ req.door # "library" => ~NeedsBaseUrl

Earned == Progress /\ BaseUrlKnown /\ SuccessIsComplete /\ BaseUrlCheckedEarly

\* A conversion begins with nothing to answer for.
LEMMA EarnedInit == Init => Earned
  BY DEF Init, Earned, Progress, BaseUrlKnown, SuccessIsComplete, BaseUrlCheckedEarly,
     Unfinished

\* A conversion that ends with an error other than a missing base URL has
\* nothing to answer for either.
LEMMA ErrorIsEarned ==
  ASSUME Earned, UNCHANGED <<conf, req>>, NEW outcome,
         End(outcome), outcome \notin {"ok", "NoBaseUrl"}
  PROVE  Earned'
  BY DEF Earned, Progress, BaseUrlKnown, SuccessIsComplete, BaseUrlCheckedEarly, End

\* A step onwards keeps what holds of the result.
LEMMA OnwardIsEarned ==
  ASSUME Earned, pc # "done", UNCHANGED <<req, result>>,
         Progress', BaseUrlKnown'
  PROVE  Earned'
  BY DEF Earned, Progress, SuccessIsComplete, BaseUrlCheckedEarly, Unfinished

\* No source fails for want of a base URL.
LEMMA FailuresNeedNoBaseUrl ==
  ASSUME NEW kind \in Kind \cup {"inline"}, NEW allowLocal \in BOOLEAN
  PROVE  /\ "ok" \notin Failures(kind, allowLocal)
         /\ "NoBaseUrl" \notin Failures(kind, allowLocal)
         /\ NodesOrFailure(kind) \cap {"ok", "NoBaseUrl"} = {}
         /\ RulesOrFailure(kind) \cap {"ok", "NoBaseUrl"} = {}
<1>1. ASSUME NEW local \in BOOLEAN
      PROVE  Failures(kind, local) \cap {"ok", "NoBaseUrl"} = {}
  BY DEF Failures, Kind, Place
<1> QED
  BY <1>1 DEF NodesOrFailure, RulesOrFailure

\* Steps that do not touch the lists keep what they let through.
LEMMA SameLists ==
  ASSUME UNCHANGED <<conf, loaded, rulesets>>
  PROVE  Kept' = Kept /\ Failed(loaded)' = Failed(loaded) /\ Failed(rulesets)' = Failed(rulesets)
  BY DEF Kept, Failed

\* The handlers find a missing base URL before anything is read.
LEMMA QueryEarns == IInv /\ Earned /\ Query => Earned'
<1> SUFFICES ASSUME IInv, Earned, Query PROVE Earned'
  OBVIOUS
<1>1. pc = "query" /\ UNCHANGED <<conf, req, sources, loaded, external, rulesets, reads>>
  BY DEF Query
<1>2. ASSUME NEW outcome \in {"BadRequest", "NotFound"}, End(outcome)
      PROVE  Earned'
  BY <1>1, <1>2, ErrorIsEarned
<1>3. CASE End("NoBaseUrl")
  BY <1>1, <1>3 DEF IInv, NotReadYet, End, Earned, Progress, BaseUrlKnown,
     SuccessIsComplete, BaseUrlCheckedEarly
<1>4. CASE ~NeedsBaseUrl /\ pc' = "convert" /\ UNCHANGED result
  <2>1. Progress'
    BY <1>1, <1>4 DEF Earned, Progress
  <2>2. BaseUrlKnown'
    BY <1>1, <1>4 DEF BaseUrlKnown, NeedsBaseUrl, OptimizeToHttp, On
  <2> QED
    BY <1>1, <1>4, <2>1, <2>2, OnwardIsEarned
<1> QED
  BY <1>2, <1>3, <1>4 DEF Query, NeedsBaseUrl

\* What is known of the base URL depends on the request and the configuration.
LEMMA BaseUrlStaysKnown ==
  ASSUME BaseUrlKnown, UNCHANGED <<conf, req>>, pc \notin {"query", "done"}, pc' # "query"
  PROVE  BaseUrlKnown'
  BY DEF BaseUrlKnown, NeedsBaseUrl, OptimizeToHttp, On

\* The checks before the first await.
LEMMA ConvertEarns == Earned /\ Convert => Earned'
<1> SUFFICES ASSUME Earned, Convert PROVE Earned'
  OBVIOUS
<1>1. pc = "convert" /\ UNCHANGED <<conf, req, loaded, external, rulesets, reads>>
  BY DEF Convert
<1>2. ASSUME NEW outcome \in {"Unauthorized", "BadRequest", "Limit"}, End(outcome)
      PROVE  Earned'
  BY <1>1, <1>2, ErrorIsEarned
<1>3. CASE pc' = "load" /\ UNCHANGED result
  <2>1. Progress'
    BY <1>1, <1>3 DEF Earned, Progress
  <2> QED
    BY <1>1, <1>3, <2>1, BaseUrlStaysKnown, OnwardIsEarned DEF Earned
<1> QED
  BY <1>2, <1>3 DEF Convert

\* Loading goes on with nodes only, and without skip_failed_links with all of them.
LEMMA LoadSourcesEarns == IInv /\ Earned /\ LoadSources => Earned'
<1> SUFFICES ASSUME IInv, Earned, LoadSources PROVE Earned'
  OBVIOUS
<1>1. pc = "load" /\ UNCHANGED <<conf, req, sources, external, rulesets>>
  BY DEF LoadSources
<1>2. \A i \in Failed(loaded') : loaded'[i] \notin {"ok", "NoBaseUrl"}
  <2>1. \A i \in DOMAIN sources : sources[i].kind \in Kind
    <3>1. sources \in Seq(Source)
      BY DEF IInv, TypeOK, Source
    <3>2. \A i \in DOMAIN sources : sources[i] \in Source
      BY <3>1
    <3> QED
      BY <3>2 DEF Source
  <2>2. DOMAIN loaded' = DOMAIN sources
    BY DEF LoadSources
  <2>3. \A i \in DOMAIN sources : loaded'[i] \in NodesOrFailure(sources[i].kind)
    BY DEF LoadSources
  <2> QED
    BY <2>1, <2>2, <2>3, FailuresNeedNoBaseUrl DEF Failed
<1>3. CASE \E i \in Failed(loaded') : End(loaded'[i])
  BY <1>1, <1>2, <1>3, ErrorIsEarned
<1>4. CASE End("BadRequest")
  BY <1>1, <1>4, ErrorIsEarned
<1>5. CASE /\ conf.skip \/ Failed(loaded') = {}
           /\ Kept' # <<>>
           /\ pc' = "external" /\ UNCHANGED result
  <2>1. Progress'
    BY <1>1, <1>5 DEF Earned, Progress
  <2> QED
    BY <1>1, <1>5, <2>1, BaseUrlStaysKnown, OnwardIsEarned DEF Earned
<1> QED
  BY <1>3, <1>4, <1>5 DEF LoadSources

\* Rulesets are asked for unless there are none or the config wants none.
LEMMA LoadExternalEarns == IInv /\ Earned /\ LoadExternal => Earned'
<1> SUFFICES ASSUME IInv, Earned, LoadExternal PROVE Earned'
  OBVIOUS
<1>1. pc = "external" /\ UNCHANGED <<conf, req, sources, loaded, rulesets>>
  BY DEF LoadExternal
<1>2. rulesets = <<>> /\ external = NoExternal /\ Kept # <<>>
      /\ (conf.skip \/ Failed(loaded) = {}) /\ result = Unfinished
  BY <1>1 DEF Earned, Progress
<1>3. ASSUME NEW e, external' = e, Continue(e), UNCHANGED result
      PROVE  Earned'
  <2>1. pc' \in {"rulesets", "base"}
    BY <1>3 DEF Continue
  <2>2. pc' = "base" /\ external'.generate => external' = NoExternal
    BY <1>3 DEF Continue
  <2>3. Failed(rulesets') = {} /\ DOMAIN rulesets' = DOMAIN NoExternal.rulesets
    BY <1>1, <1>2 DEF Failed, NoExternal
  <2>4. Progress'
    BY <1>1, <1>2, <1>3, <2>1, <2>2, <2>3, SameLists DEF Progress
  <2> QED
    BY <1>1, <1>3, <2>1, <2>4, BaseUrlStaysKnown, OnwardIsEarned DEF Earned
<1>4. ASSUME NEW outcome, outcome \notin {"ok", "NoBaseUrl"}, End(outcome)
      PROVE  Earned'
  BY <1>1, <1>4, ErrorIsEarned
<1>5. ExternalSource.kind # "empty" =>
          Failures(ExternalSource.kind, TRUE) \cap {"ok", "NoBaseUrl"} = {}
  <2>1. req.external \in Place \cup {"absent", "empty"} /\ conf.external \in Place \cup {"empty"}
    BY ConvertAssumption DEF IInv, TypeOK, Request, Config
  <2>2. ExternalSource.kind \in Place \cup {"empty"}
    BY <2>1 DEF ExternalSource
  <2> QED
    BY <2>2, FailuresNeedNoBaseUrl DEF Kind
<1>6. CASE ExternalSource.kind = "empty"
  BY <1>2, <1>3, <1>6 DEF LoadExternal
<1>7. CASE ExternalSource.kind # "empty"
  BY <1>3, <1>4, <1>5, <1>7 DEF LoadExternal
<1> QED
  BY <1>6, <1>7

\* Rulesets are loaded for all of the list.
LEMMA LoadRulesetsEarns == IInv /\ Earned /\ LoadRulesets => Earned'
<1> SUFFICES ASSUME IInv, Earned, LoadRulesets PROVE Earned'
  OBVIOUS
<1> DEFINE specs == external.rulesets
<1>1. pc = "rulesets" /\ UNCHANGED <<conf, req, sources, loaded, external>>
  BY DEF LoadRulesets
<1>2. ASSUME NEW outcome, outcome \notin {"ok", "NoBaseUrl"}, End(outcome)
      PROVE  Earned'
  BY <1>1, <1>2, ErrorIsEarned
<1>3. ASSUME rulesets' \in [DOMAIN specs -> Errors \cup {"rules"}],
             \A i \in DOMAIN rulesets' : rulesets'[i] \in RulesOrFailure(specs[i])
      PROVE  \A i \in Failed(rulesets') : rulesets'[i] \notin {"ok", "NoBaseUrl"}
  <2>1. specs \in Seq(Place \cup {"inline"})
    BY RulesetsAreSeq
  <2>2. \A i \in DOMAIN specs : specs[i] \in Kind \cup {"inline"}
    BY <2>1 DEF Kind
  <2>3. DOMAIN rulesets' = DOMAIN specs
    BY <1>3
  <2> QED
    BY <1>3, <2>2, <2>3, FailuresNeedNoBaseUrl DEF Failed
<1>4. ASSUME rulesets' \in [DOMAIN specs -> Errors \cup {"rules"}],
             conf.skip \/ Failed(rulesets') = {}, pc' = "base", UNCHANGED result
      PROVE  Earned'
  <2>1. DOMAIN rulesets' = DOMAIN external'.rulesets
    BY <1>1, <1>4
  <2>2. Kept' = Kept /\ Failed(loaded)' = Failed(loaded)
    BY <1>1 DEF Kept, Failed
  <2>3. Progress'
    BY <1>1, <1>4, <2>1, <2>2 DEF Earned, Progress
  <2> QED
    BY <1>1, <1>4, <2>3, BaseUrlStaysKnown, OnwardIsEarned DEF Earned
<1>5. CASE End("Limit") \/ End("Unauthorized")
  BY <1>2, <1>5
<1>6. CASE /\ rulesets' \in [DOMAIN specs -> Errors \cup {"rules"}]
           /\ \A i \in DOMAIN rulesets' : rulesets'[i] \in RulesOrFailure(specs[i])
           /\ \/ \E i \in Failed(rulesets') : End(rulesets'[i])
              \/ /\ conf.skip \/ Failed(rulesets') = {}
                 /\ pc' = "base" /\ UNCHANGED result
  BY <1>2, <1>3, <1>4, <1>6
<1> QED
  BY <1>5, <1>6, Zenon DEF LoadRulesets

\* Behind the handlers the base URL cannot be missing here.
LEMMA LoadBaseEarns == IInv /\ Earned /\ LoadBase => Earned'
<1> SUFFICES ASSUME IInv, Earned, LoadBase PROVE Earned'
  OBVIOUS
<1>1. pc = "base" /\ UNCHANGED <<conf, req, sources, loaded, external, rulesets>>
  BY DEF LoadBase
<1>2. ASSUME NEW outcome, outcome \notin {"ok", "NoBaseUrl"}, End(outcome)
      PROVE  Earned'
  BY <1>1, <1>2, ErrorIsEarned
<1>3. CASE NeedsBaseUrl /\ End("NoBaseUrl")
  <2>1. req.door = "library" /\ req'.door = "library"
    BY <1>1, <1>3 DEF Earned, BaseUrlKnown
  <2> QED
    BY <2>1, <1>1, <1>3 DEF End, Earned, Progress, BaseUrlKnown, SuccessIsComplete,
       BaseUrlCheckedEarly
<1>4. CASE pc' = "export" /\ UNCHANGED result
  <2>1. Progress'
    BY <1>1, <1>4, SameLists DEF Earned, Progress
  <2> QED
    BY <1>1, <1>4, <2>1, BaseUrlStaysKnown, OnwardIsEarned DEF Earned
<1>5. BaseSource.kind # "empty" =>
          Failures(BaseSource.kind, TRUE) \cap {"ok", "NoBaseUrl"} = {}
  <2>1. external.base \in Place \cup {"absent", "empty"} /\ conf.base \in Place \cup {"empty"}
    BY ConvertAssumption DEF IInv, TypeOK, External, Config, NoExternal
  <2>2. BaseSource.kind \in Place \cup {"empty"}
    BY <2>1 DEF BaseSource
  <2> QED
    BY <2>2, FailuresNeedNoBaseUrl DEF Kind
<1> QED
  BY <1>2, <1>3, <1>4, <1>5 DEF LoadBase, NeedsBaseUrl

\* The exporter answers with what has been let through.
LEMMA ExportEarns == Earned /\ Export => Earned'
<1> SUFFICES ASSUME Earned, Export PROVE Earned'
  OBVIOUS
<1>1. pc = "export" /\ UNCHANGED <<conf, req, sources, loaded, external, rulesets, reads>>
  BY DEF Export
<1>2. CASE End("Conversion")
  BY <1>1, <1>2, ErrorIsEarned
<1>3. CASE End("ok")
  BY <1>1, <1>3, SameLists DEF End, Earned, Progress, BaseUrlKnown, SuccessIsComplete,
     BaseUrlCheckedEarly
<1> QED
  BY <1>2, <1>3 DEF Export

\* What is earned depends on the variables alone.
LEMMA StutterEarns == Earned /\ UNCHANGED vars => Earned'
<1> SUFFICES ASSUME Earned, UNCHANGED vars PROVE Earned'
  OBVIOUS
<1>1. UNCHANGED <<conf, req, pc, loaded, external, rulesets, reads, result>>
  BY DEF vars
<1> QED
  BY <1>1, SameLists DEF Earned, Progress, BaseUrlKnown, NeedsBaseUrl, OptimizeToHttp, On,
     SuccessIsComplete, BaseUrlCheckedEarly

\* What is earned holds always.
LEMMA EarnedHolds == Spec => []Earned
<1>1. IInv /\ Earned /\ [Next]_vars => Earned'
  BY QueryEarns, ConvertEarns, LoadSourcesEarns, LoadExternalEarns, LoadRulesetsEarns,
     LoadBaseEarns, ExportEarns, StutterEarns DEF Next, Finished
<1> QED
  BY <1>1, EarnedInit, InductiveInvariant, PTL DEF Spec

\* A conversion that succeeds has lost nothing it may not lose: every check that
\* guards it still holds at the end, since nothing behind it changes.
THEOREM SuccessesAreComplete == Spec => []SuccessIsComplete
<1>1. Earned => SuccessIsComplete
  BY DEF Earned
<1> QED
  BY <1>1, EarnedHolds, PTL

\* Over HTTP a missing base URL is answered before anything is fetched.
THEOREM BaseUrlsAreCheckedEarly == Spec => []BaseUrlCheckedEarly
<1>1. Earned => BaseUrlCheckedEarly
  BY DEF Earned
<1> QED
  BY <1>1, EarnedHolds, PTL

-----------------------------------------------------------------------------
(* The order of the nodes *)

\* The sources of the configuration are all on one side of the others, ...
InsertsOnOneSide ==
    \A i, j \in DOMAIN sources :
        sources[i].from = "insert" /\ sources[j].from # "insert" => (i < j <=> conf.prepend)

\* ... and what is loaded is loaded for sources that will not change any more.
Placed ==
    /\ InsertsOnOneSide
    /\ pc \in {"query", "convert"} => loaded = <<>>
    /\ DOMAIN loaded \subseteq DOMAIN sources

\* In a combined list the elements of the first come before those of the second.
LEMMA ConcatOrder ==
  ASSUME NEW S, NEW s \in Seq(S), NEW t \in Seq(S), NEW T,
         \A k \in DOMAIN s : s[k] \in T,
         \A k \in DOMAIN t : t[k] \notin T
  PROVE  \A i, j \in DOMAIN (s \o t) : (s \o t)[i] \in T /\ (s \o t)[j] \notin T => i < j
<1>1. /\ Len(s) \in Nat /\ Len(t) \in Nat
      /\ DOMAIN s = 1 .. Len(s) /\ DOMAIN t = 1 .. Len(t)
      /\ DOMAIN (s \o t) = 1 .. Len(s) + Len(t)
  OBVIOUS
<1>2. ASSUME NEW i \in DOMAIN (s \o t)
      PROVE  (s \o t)[i] \in T <=> i <= Len(s)
  <2>1. CASE i <= Len(s)
    <3>1. i \in DOMAIN s /\ (s \o t)[i] = s[i]
      BY <1>1, <2>1
    <3> QED
      BY <2>1, <3>1
  <2>2. CASE ~(i <= Len(s))
    <3>1. i - Len(s) \in DOMAIN t /\ (s \o t)[i] = t[i - Len(s)]
      BY <1>1, <2>2
    <3> QED
      BY <2>2, <3>1
  <2> QED
    BY <2>1, <2>2
<1>3. ASSUME NEW i \in DOMAIN (s \o t), NEW j \in DOMAIN (s \o t),
             (s \o t)[i] \in T, (s \o t)[j] \notin T
      PROVE  i < j
  <2>1. i <= Len(s) /\ ~(j <= Len(s)) /\ i \in Nat /\ j \in Nat
    BY <1>1, <1>2, <1>3
  <2> QED
    BY <1>1, <2>1
<1> QED
  BY <1>3

\* Convert puts the sources of the configuration where it should.
LEMMA WithInsertsOrder ==
  ASSUME conf \in Configs, req \in Requests
  PROVE  \A i, j \in DOMAIN WithInserts :
            WithInserts[i].from = "insert" /\ WithInserts[j].from # "insert" =>
                (i < j <=> conf.prepend)
<1> DEFINE inserts == From(conf.inserts, "insert")
           T == {x \in Source : x.from = "insert"}
           U == {x \in Source : x.from # "insert"}
<1>1. conf.inserts \in Seq(Kind) /\ conf.prepend \in BOOLEAN
  BY ConvertAssumption DEF Config
<1>2. inserts \in Seq(Source) /\ \A k \in DOMAIN inserts : inserts[k].from = "insert"
  BY <1>1, FromIsSeq, Zenon
<1>3. Main \in Seq(Source) /\ \A k \in DOMAIN Main : Main[k].from # "insert"
  BY WithInsertsElements
<1> HIDE DEF inserts
<1>4. \A k \in DOMAIN inserts : inserts[k] \in T /\ inserts[k] \notin U
  BY <1>2
<1>5. \A k \in DOMAIN Main : Main[k] \notin T /\ Main[k] \in U
  BY <1>3
<1>6. WithInserts \in Seq(Source) /\ \A i \in DOMAIN WithInserts : WithInserts[i] \in Source
  <2>1. WithInserts \in Seq(Source)
    BY WithInsertsElements
  <2> QED
    BY <2>1
<1> SUFFICES ASSUME NEW i \in DOMAIN WithInserts, NEW j \in DOMAIN WithInserts,
                    WithInserts[i].from = "insert", WithInserts[j].from # "insert"
             PROVE  i < j <=> conf.prepend
  OBVIOUS
<1>7. /\ WithInserts[i] \in T /\ WithInserts[i] \notin U
      /\ WithInserts[j] \notin T /\ WithInserts[j] \in U
  BY <1>6
<1>8. i \in Nat /\ j \in Nat
  BY <1>6
<1> HIDE DEF T, U
<1>9. CASE WithInserts = inserts \o Main /\ conf.prepend
  <2>1. i < j
    BY <1>2, <1>3, <1>4, <1>5, <1>7, <1>9, ConcatOrder
  <2> QED
    BY <1>9, <2>1
<1>10. CASE WithInserts = Main \o inserts /\ ~conf.prepend
  <2>1. j < i
    BY <1>2, <1>3, <1>4, <1>5, <1>7, <1>10, ConcatOrder
  <2> QED
    BY <1>8, <1>10, <2>1
<1>11. CASE WithInserts = Main
  BY <1>3, <1>11
<1> QED
  BY <1>9, <1>10, <1>11 DEF WithInserts, Combine, inserts

\* The order is settled before anything is loaded.
LEMMA PlacedHolds == Spec => []Placed
<1>1. Init => Placed
  BY DEF Init, Placed, InsertsOnOneSide
<1>2. ASSUME IInv, Placed, [Next]_vars PROVE Placed'
  <2>1. CASE Convert
    <3>1. UNCHANGED <<conf, loaded>> /\ loaded = <<>> /\ DOMAIN loaded = {}
      BY <1>2, <2>1 DEF Convert, Placed
    <3>2. CASE UNCHANGED sources
      BY <1>2, <3>1, <3>2 DEF Placed, InsertsOnOneSide
    <3>3. CASE sources' = WithInserts
      <4>1. conf \in Configs /\ req \in Requests
        BY <1>2 DEF IInv, TypeOK
      <4> QED
        BY <3>1, <3>3, <4>1, WithInsertsOrder DEF Placed, InsertsOnOneSide
    <3> QED
      BY <2>1, <3>2, <3>3 DEF Convert
  <2>2. CASE LoadSources
    <3>1. UNCHANGED <<conf, sources>> /\ DOMAIN loaded' = DOMAIN sources
      BY <2>2 DEF LoadSources
    <3>2. pc' \notin {"query", "convert"}
      BY <2>2 DEF LoadSources, End
    <3> QED
      BY <1>2, <3>1, <3>2 DEF Placed, InsertsOnOneSide
  <2>3. CASE /\ UNCHANGED <<conf, sources, loaded>>
             /\ pc' \in {"query", "convert"} => pc \in {"query", "convert"}
    BY <1>2, <2>3 DEF Placed, InsertsOnOneSide
  <2>4. CASE Query \/ Export \/ Finished \/ UNCHANGED vars
    BY <2>3, <2>4 DEF Query, Export, End, Finished, vars
  <2>5. CASE LoadExternal \/ LoadRulesets \/ LoadBase
    BY <2>3, <2>5 DEF LoadExternal, LoadRulesets, LoadBase, End, Continue
  <2> QED
    BY <1>2, <2>1, <2>2, <2>4, <2>5 DEF Next
<1> QED
  BY <1>1, <1>2, InductiveInvariant, PTL DEF Spec

\* The nodes of the configured sources come before those of the request exactly
\* if prepend_insert_url says so: skipping failed sources and filtering
\* deprecated nodes leave the order of the others alone.
THEOREM InsertsAlwaysKeepTheirPlace == Spec => []InsertsKeepTheirPlace
<1>1. ASSUME IInv, Placed PROVE InsertsKeepTheirPlace
  <2> DEFINE indices == [i \in DOMAIN loaded |-> i]
             kept == {i \in DOMAIN loaded :
                        loaded[i] = "nodes" \/ (loaded[i] = "deprecated" /\ ~conf.filter)}
  <2>1. Kept = Filter(indices, kept)
    BY DEF Kept, KeptAmong
  <2>2. loaded \in Seq(Errors \cup {"nodes", "deprecated"})
    BY <1>1 DEF IInv, TypeOK
  <2>3. Len(loaded) \in Nat /\ DOMAIN loaded = 1 .. Len(loaded)
    BY <2>2
  <2>4. /\ indices \in Seq(Nat) /\ DOMAIN indices = DOMAIN loaded
        /\ \A i, j \in DOMAIN indices : i < j => indices[i] < indices[j]
    BY <2>3
  <2>5. kept \subseteq DOMAIN loaded
    OBVIOUS
  <2> HIDE DEF indices, kept
  <2>6. \A i, j \in DOMAIN Kept : i < j => Kept[i] < Kept[j]
    BY <2>1, <2>4, FilterOrder
  <2>7. Kept \in Seq(Nat \cap kept)
    BY <2>1, <2>4, FilterElements
  <2>8. \A i \in DOMAIN Kept : i \in Nat /\ Kept[i] \in Nat /\ Kept[i] \in DOMAIN sources
    BY <1>1, <2>5, <2>7 DEF Placed
  <2>9. ASSUME NEW i \in DOMAIN Kept, NEW j \in DOMAIN Kept,
               sources[Kept[i]].from = "insert", sources[Kept[j]].from # "insert"
        PROVE  i < j <=> conf.prepend
    <3>1. Kept[i] < Kept[j] <=> conf.prepend
      BY <1>1, <2>8, <2>9 DEF Placed, InsertsOnOneSide
    <3>2. i < j <=> Kept[i] < Kept[j]
      <4>1. i < j \/ j < i
        BY <2>8, <2>9
      <4> QED
        BY <2>6, <2>8, <4>1
    <3> QED
      BY <3>1, <3>2
  <2> QED
    BY <2>9 DEF InsertsKeepTheirPlace
<1> QED
  BY <1>1, InductiveInvariant, PlacedHolds, PTL

=============================================================================
