-------------------------- MODULE RuleExportProofs --------------------------
(***************************************************************************)
(* Theorems about the export of rulesets, for lists of any length and any  *)
(* content.                                                                *)
(***************************************************************************)
EXTENDS RuleExport, SequenceFacts, FiniteSetTheorems

\* The exporter for Clash filters as others do.
LEMMA ClashFilter ==
  ASSUME NEW S, NEW s \in Seq(S), NEW kept
  PROVE  /\ Clash!Filter(s, kept) \in Seq(S \cap kept)
         /\ Len(Clash!Filter(s, kept)) <= Len(s)
         /\ Clash!Range(Clash!Filter(s, kept)) = Clash!Range(s) \cap kept
<1>1. Clash!Filter(s, kept) = Filter(s, kept)
  BY DEF Clash!Filter, Filter, Clash!Among, Among
<1>2. /\ Filter(s, kept) \in Seq(S \cap kept)
      /\ Len(Filter(s, kept)) <= Len(s)
      /\ Range(Filter(s, kept)) = Range(s) \cap kept
  BY FilterElements
<1>3. \A t : Clash!Range(t) = Range(t)
  BY DEF Clash!Range, Range
<1> QED
  BY <1>1, <1>2, <1>3

\* A filtered sequence has elements of the set.
LEMMA ClashFilterType ==
  ASSUME NEW S, NEW s \in Seq(S), NEW kept
  PROVE  Clash!Filter(s, kept) \in Seq(kept) /\ Len(Clash!Filter(s, kept)) <= Len(s)
<1>1. Clash!Filter(s, kept) \in Seq(S \cap kept) /\ Len(Clash!Filter(s, kept)) <= Len(s)
  BY ClashFilter
<1> QED
  BY <1>1

-----------------------------------------------------------------------------
(* Lines and rules *)

\* One element makes a sequence.
LEMMA OneElement ==
  ASSUME NEW S, NEW x \in S
  PROVE  <<x>> \in Seq(S)
  OBVIOUS

\* The items under a key are lines again.
LEMMA ItemsType ==
  ASSUME NEW lines \in Seq(Line)
  PROVE  [k \in DOMAIN lines |-> [mark |-> "-", parts |-> <<lines[k].mark>> \o lines[k].parts]]
            \in Seq(Line)
<1>1. Len(lines) \in Nat /\ DOMAIN lines = 1 .. Len(lines)
  OBVIOUS
<1>2. "-" \in STRING
  BY StringAssumption
<1>3. ASSUME NEW k \in DOMAIN lines
      PROVE  [mark |-> "-", parts |-> <<lines[k].mark>> \o lines[k].parts] \in Line
  <2>1. lines[k] \in Line
    OBVIOUS
  <2>2. <<lines[k].mark>> \o lines[k].parts \in Seq(STRING)
    <3>1. lines[k].mark \in STRING /\ lines[k].parts \in Seq(STRING)
      BY <2>1 DEF Line
    <3>2. <<lines[k].mark>> \in Seq(STRING)
      BY <3>1, OneElement, Zenon
    <3> QED
      BY <3>1, <3>2
  <2> QED
    BY <1>2, <2>2 DEF Line
<1> DEFINE item(k) == [mark |-> "-", parts |-> <<lines[k].mark>> \o lines[k].parts]
<1>4. [k \in DOMAIN lines |-> item(k)] \in Seq(Line)
  <2>1. \A k \in DOMAIN lines : item(k) \in Line
    BY <1>3
  <2> HIDE DEF item
  <2> QED
    BY <1>1, <2>1
<1> QED
  BY <1>4

\* What a document holds, read line by line, are lines.
LEMMA RawLinesType ==
  ASSUME NEW document \in Document
  PROVE  Clash!RawLines(document) \in Seq(Line)
<1> DEFINE items == [k \in DOMAIN document.lines |->
               [mark |-> "-", parts |-> <<document.lines[k].mark>> \o document.lines[k].parts]]
           key == [mark |-> "", parts |-> <<document.shape>>]
<1>1. /\ document.lines \in Seq(Line) /\ document.shape \in STRING
      /\ "" \in STRING
  BY StringAssumption DEF Document
<1>2. items \in Seq(Line)
  BY <1>1, ItemsType
<1>3. key \in Line
  <2>1. <<document.shape>> \in Seq(STRING)
    BY <1>1, OneElement, Zenon
  <2> QED
    BY <1>1, <2>1 DEF Line
<1>4. Clash!RawLines(document) = document.lines \/ Clash!RawLines(document) = <<key>> \o items
  BY DEF Clash!RawLines
<1> HIDE DEF items, key
<1>5. <<key>> \in Seq(Line)
  BY <1>3, OneElement, Zenon
<1>6. <<key>> \o items \in Seq(Line)
  BY <1>2, <1>5
<1> QED
  BY <1>1, <1>4, <1>6

\* The lines of a content are lines, whichever way it is read.
LEMMA LinesOfType ==
  ASSUME NEW content \in Seq(Document)
  PROVE  Clash!LinesOf(content) \in Seq(Line)
<1>1. ASSUME NEW key PROVE Clash!LinesUnder(key, content) \in Seq(Line)
  <2>1. \A i \in DOMAIN content : content[i].lines \in Seq(Line)
    <3>1. \A i \in DOMAIN content : content[i] \in Document
      OBVIOUS
    <3> QED
      BY <3>1 DEF Document
  <2>2. <<>> \in Seq(Line)
    OBVIOUS
  <2> QED
    BY <2>1, <2>2 DEF Clash!LinesUnder
<1> DEFINE raw == [i \in DOMAIN content |-> Clash!RawLines(content[i])]
<1>2. raw \in Seq(Seq(Line))
  <2>1. Len(content) \in Nat /\ DOMAIN content = 1 .. Len(content)
    OBVIOUS
  <2>2. \A i \in DOMAIN content : Clash!RawLines(content[i]) \in Seq(Line)
    BY RawLinesType
  <2> QED
    BY <2>1, <2>2
<1>3. Clash!FlattenSeq(raw) \in Seq(Line)
  <2>1. Clash!FlattenSeq(raw) = FlattenSeq(raw)
    BY DEF Clash!FlattenSeq, FlattenSeq
  <2> HIDE DEF raw
  <2> QED
    BY <1>2, <2>1, FlattenSeqType
<1>4. Clash!LinesUnder("payload", content) \o Clash!LinesUnder("rules", content) \in Seq(Line)
  BY <1>1
<1> QED
  BY <1>3, <1>4 DEF Clash!LinesOf

\* Parsing a content yields rules, at most one for an inline rule.
LEMMA ParseType ==
  ASSUME NEW content \in Seq(Document) \ {<<>>}, NEW format
  PROVE  /\ Clash!ParseCommonRules(content, format) \in Seq(Clash!Rule)
         /\ Clash!IsInline(content) /\ Len(content[1].lines) = 1 =>
                Len(Clash!ParseCommonRules(content, format)) <= 1
<1> DEFINE lines == IF Clash!IsInline(content) THEN content[1].lines ELSE Clash!LinesOf(content)
           grammar == IF Clash!IsInline(content) THEN "surge" ELSE format
           reads(l) == [k \in DOMAIN l |-> Clash!ParseCommonLine(l[k], grammar)]
<1>1. /\ lines \in Seq(Line)
      /\ Clash!IsInline(content) => lines = content[1].lines
  <2>1. content[1].lines \in Seq(Line)
    <3>1. content[1] \in Document
      OBVIOUS
    <3> QED
      BY <3>1 DEF Document
  <2> QED
    BY <2>1, LinesOfType
<1> HIDE DEF lines, grammar
<1>2. Line = Clash!Line
  BY DEF Line, Clash!Line
<1>3. /\ reads(lines) \in Seq({Clash!ParseCommonLine(lines[k], grammar) : k \in DOMAIN lines})
      /\ Len(reads(lines)) = Len(lines)
  <2>1. Len(lines) \in Nat /\ DOMAIN lines = 1 .. Len(lines)
    BY <1>1
  <2> QED
    BY <2>1
<1>4. Clash!ParseCommonRules(content, format) = Clash!Filter(reads(lines), Clash!Rule)
  BY <1>1, <1>2 DEF Clash!ParseCommonRules, lines, grammar
<1>5. /\ Clash!Filter(reads(lines), Clash!Rule) \in Seq(Clash!Rule)
      /\ Len(Clash!Filter(reads(lines), Clash!Rule)) <= Len(reads(lines))
  <2> HIDE DEF reads
  <2> QED
    BY <1>3, ClashFilterType
<1> QED
  BY <1>1, <1>3, <1>4, <1>5

-----------------------------------------------------------------------------
(* Merging *)

\* The rulesets a conversion may have, merged or not.
Loadable == {ruleset \in Ruleset :
    IsInline(ruleset.content) => Len(ruleset.content[1].lines) = 1}

\* Two rulesets merge into one.
LEMMA MergeIntoType ==
  ASSUME NEW merged \in Seq(Loadable), NEW ruleset \in Loadable
  PROVE  Clash!MergeInto(merged, ruleset) \in Seq(Loadable)
<1>1. Append(merged, ruleset) \in Seq(Loadable)
  OBVIOUS
<1>2. CASE merged # <<>> /\ Clash!Mergeable(Clash!Last(merged), ruleset)
  <2> DEFINE last == Clash!Last(merged)
             joined == [last EXCEPT !.sources = @ \o ruleset.sources,
                                    !.content = @ \o ruleset.content]
  <2>1. last \in Loadable
    BY <1>2 DEF Clash!Last
  <2>2. Clash!Front(merged) \in Seq(Loadable)
    BY <1>2 DEF Clash!Front
  <2> HIDE DEF last
  <2>3. /\ last \in Ruleset /\ ruleset \in Ruleset
        /\ IsInline(last.content) => Len(last.content[1].lines) = 1
    BY <2>1 DEF Loadable
  <2>4. /\ last.sources \in Seq(DOMAIN Stem) /\ ruleset.sources \in Seq(DOMAIN Stem)
        /\ last.content \in Seq(Document) /\ last.content # <<>>
        /\ ruleset.content \in Seq(Document)
    BY <2>3 DEF Ruleset
  <2>5. /\ last.sources \o ruleset.sources \in Seq(DOMAIN Stem)
        /\ last.content \o ruleset.content \in Seq(Document)
        /\ last.content \o ruleset.content # <<>>
        /\ (last.content \o ruleset.content)[1] = last.content[1]
    <3>1. /\ last.sources \o ruleset.sources \in Seq(DOMAIN Stem)
          /\ last.content \o ruleset.content \in Seq(Document)
      BY <2>4
    <3>2. \A s, t \in Seq(Document) : s # <<>> => s \o t # <<>> /\ (s \o t)[1] = s[1]
      OBVIOUS
    <3> QED
      BY <2>4, <3>1, <3>2, Zenon
  <2>6. joined \in Ruleset /\ joined.content = last.content \o ruleset.content
    BY <2>3, <2>5 DEF Ruleset
  <2> HIDE DEF joined
  <2>7. joined \in Loadable
    BY <2>3, <2>5, <2>6 DEF Loadable, IsInline
  <2>8. Append(Clash!Front(merged), joined) \in Seq(Loadable)
    BY <2>2, <2>7
  <2> QED
    BY <1>2, <2>8 DEF Clash!MergeInto, joined, last
<1> QED
  BY <1>1, <1>2 DEF Clash!MergeInto

\* Merging adjacent rulesets yields rulesets that may be loaded.
LEMMA MergeType ==
  ASSUME NEW list \in Seq(Loadable)
  PROVE  Clash!MergeAdjacentRulesets(list) \in Seq(Loadable)
<1> DEFINE N == Len(list)
           next(n, before) == Clash!MergeInto(before, list[n])
           step == [p \in (1 .. N) \X Seq(Loadable) |-> next(p[1], p[2])]
<1>1. N \in Nat /\ \A n \in 1 .. N : list[n] \in Loadable
  OBVIOUS
<1>2. step \in [(1 .. N) \X Seq(Loadable) -> Seq(Loadable)]
  BY <1>1, MergeIntoType
<1>3. PICK f : f \in Recursions(N, Seq(Loadable), <<>>, step)
  <2>1. <<>> \in Seq(Loadable) /\ step \in Stepping(N, Seq(Loadable))
    BY <1>2 DEF Stepping
  <2> HIDE DEF step, N
  <2> QED
    BY <1>1, <2>1, RecursionExists
<1>4. /\ f \in [0 .. N -> Seq(Loadable)]
      /\ f[0] = <<>>
      /\ \A n \in 1 .. N : f[n] = step[<<n, f[n - 1]>>]
  BY <1>3 DEF Recursions
<1>5. \A n \in 1 .. N : f[n] = next(n, f[n - 1])
  <2> SUFFICES ASSUME NEW n \in 1 .. N PROVE f[n] = next(n, f[n - 1])
    OBVIOUS
  <2> HIDE DEF N, next
  <2>1. n - 1 \in 0 .. N
    BY <1>1
  <2>2. <<n, f[n - 1]>> \in (1 .. N) \X Seq(Loadable)
    BY <1>4, <2>1
  <2> QED
    BY <1>4, <2>2
<1> DEFINE isMeant(h) == h = [n \in 0 .. N |-> IF n = 0 THEN <<>> ELSE next(n, h[n - 1])]
           g == CHOOSE h : isMeant(h)
           T == {n \in 0 .. N : g[n] \in Seq(Loadable)}
<1>6. isMeant(f)
  <2> HIDE DEF N, next
  <2> QED
    BY <1>1, <1>4, <1>5
<1>7. isMeant(g)
  <2> HIDE DEF isMeant
  <2> QED
    BY <1>6
<1>8. Clash!MergeAdjacentRulesets(list) = g[N]
  BY DEF Clash!MergeAdjacentRulesets
<1> HIDE DEF g
<1>9. 0 \in T
  <2>1. g[0] = <<>> /\ <<>> \in Seq(Loadable)
    BY <1>1, <1>7
  <2>2. 0 \in 0 .. N
    BY <1>1
  <2> HIDE DEF N
  <2> QED
    BY <2>1, <2>2
<1>10. ASSUME NEW n \in 0 .. N - 1, n \in T
       PROVE  n + 1 \in T
  <2>1. n + 1 \in 1 .. N /\ (n + 1) - 1 = n /\ n + 1 # 0 /\ list[n + 1] \in Loadable
    BY <1>1
  <2>2. g[n + 1] = next(n + 1, g[n])
    <3>1. g[n + 1] = next(n + 1, g[(n + 1) - 1])
      <4>1. n + 1 \in 0 .. N
        BY <1>1, <2>1
      <4> HIDE DEF next, N
      <4> QED
        BY <1>7, <2>1, <4>1
    <3> HIDE DEF next, N
    <3> QED
      BY <2>1, <3>1
  <2>3. g[n + 1] \in Seq(Loadable)
    BY <1>10, <2>1, <2>2, MergeIntoType
  <2> QED
    BY <2>1, <2>3
<1>11. \A n \in 0 .. N : n \in T
  <2> HIDE DEF T, N
  <2> QED
    BY <1>1, <1>9, <1>10, BoundedInduction
<1>12. N \in 0 .. N
  BY <1>1
<1> QED
  BY <1>8, <1>11, <1>12

-----------------------------------------------------------------------------
(* Names *)

ProviderName == Seq(Clash!ProviderWord) \ {<<>>}

\* A name made unique is nobody else's: there are more numerals than providers.
LEMMA NameIsFresh ==
  ASSUME NEW name \in ProviderName, NEW named, IsFiniteSet(DOMAIN named)
  PROVE  /\ Clash!UniqueProviderName(name, named) \in ProviderName
         /\ Clash!UniqueProviderName(name, named) \notin DOMAIN named
<1> DEFINE N == Cardinality(DOMAIN named)
           numbered(n) == Append(name, Clash!Numeral(n))
           free == {n \in 1 .. N : numbered(n) \notin DOMAIN named}
<1>1. N \in Nat
  BY FS_CardinalityType
<1>2. Clash!Cardinality(DOMAIN named) = N
  BY DEF Clash!Cardinality, Cardinality
<1>3. \A n \in Nat :
          /\ numbered(n) \in Seq(Clash!ProviderWord)
          /\ Len(numbered(n)) = Len(name) + 1
          /\ numbered(n)[Len(name) + 1] = Clash!Numeral(n)
  <2>1. \A n \in Nat : Clash!Numeral(n) \in Clash!ProviderWord
    BY DEF Clash!Numeral, Clash!ProviderWord
  <2>2. name \in Seq(Clash!ProviderWord)
    BY DEF ProviderName
  <2> QED
    BY <2>1, <2>2
<1>4. \A m, n \in Nat : numbered(m) = numbered(n) => m = n
  <2>1. \A m, n \in Nat : Clash!Numeral(m) = Clash!Numeral(n) => m = n
    BY DEF Clash!Numeral
  <2> HIDE DEF numbered
  <2> QED
    BY <1>3, <2>1
<1>5. \A n \in Nat : numbered(n) # name /\ numbered(n) \in ProviderName
  <2>1. name \in Seq(Clash!ProviderWord) /\ Len(name) \in Nat
    BY DEF ProviderName
  <2>2. Len(<<>>) = 0
    OBVIOUS
  <2> HIDE DEF numbered
  <2>3. ASSUME NEW n \in Nat PROVE numbered(n) # name /\ numbered(n) # <<>>
    <3>1. Len(numbered(n)) = Len(name) + 1
      BY <1>3
    <3>2. Len(numbered(n)) # Len(name) /\ Len(numbered(n)) # 0
      BY <2>1, <3>1
    <3> QED
      BY <2>2, <3>2
  <2> QED
    BY <1>3, <2>3 DEF ProviderName
<1>6. CASE name \in DOMAIN named
  <2>1. free # {}
    <3> SUFFICES ASSUME free = {} PROVE FALSE
      OBVIOUS
    <3> DEFINE f == [n \in 0 .. N |-> IF n = 0 THEN name ELSE numbered(n)]
    <3> HIDE DEF numbered
    <3>1. \A n \in 0 .. N : n = 0 \/ n \in 1 .. N
      BY <1>1
    <3>2. \A n \in 1 .. N : numbered(n) \in DOMAIN named /\ n \in Nat
      BY <1>1
    <3>3. \A n \in 0 .. N : f[n] \in DOMAIN named
      BY <1>6, <3>1, <3>2
    <3>4. \A m, n \in 0 .. N : f[m] = f[n] => m = n
      BY <1>4, <1>5, <3>1, <3>2
    <3>5. f \in Injection(0 .. N, DOMAIN named)
      <4> HIDE DEF N
      <4>1. f \in [0 .. N -> DOMAIN named]
        BY <3>3
      <4> HIDE DEF f
      <4> QED
        BY <3>4, <4>1 DEF Injection, IsInjective
    <3> HIDE DEF f
    <3>6. IsFiniteSet(0 .. N) /\ Cardinality(0 .. N) = N + 1
      BY <1>1, FS_Interval
    <3>7. Cardinality(0 .. N) <= Cardinality(DOMAIN named)
      BY <3>5, FS_Injection
    <3> QED
      BY <1>1, <3>6, <3>7
  <2>2. PICK n \in free : \A m \in free : n <= m
    <3>1. free \subseteq Nat
      BY <1>1
    <3> HIDE DEF free
    <3> QED
      BY <2>1, <3>1, LeastElement
  <2> DEFINE least(i) == /\ ~Clash!Taken(Append(name, Clash!Numeral(i)), named)
                         /\ \A m \in 1 .. i - 1 : Clash!Taken(Append(name, Clash!Numeral(m)), named)
             i == CHOOSE i \in 1 .. Clash!Cardinality(DOMAIN named) : least(i)
  <2>3. n \in 1 .. N /\ least(n)
    <3>1. n \in 1 .. N /\ numbered(n) \notin DOMAIN named
      OBVIOUS
    <3>2. ASSUME NEW m \in 1 .. n - 1 PROVE numbered(m) \in DOMAIN named
      <4>1. m \in 1 .. N /\ ~(n <= m)
        BY <1>1, <3>1
      <4> HIDE DEF numbered
      <4> QED
        BY <2>2, <4>1
    <3> QED
      BY <3>1, <3>2 DEF Clash!Taken
  <2>4. i \in 1 .. N /\ least(i)
    <3> HIDE DEF least, N
    <3> QED
      BY <1>2, <2>3
  <2>5. Clash!UniqueProviderName(name, named) = numbered(i)
    BY <1>6 DEF Clash!UniqueProviderName, Clash!Taken
  <2>6. i \in Nat /\ numbered(i) \notin DOMAIN named
    <3> HIDE DEF i
    <3> QED
      BY <1>1, <2>4 DEF Clash!Taken
  <2> HIDE DEF i, numbered
  <2> QED
    BY <1>5, <2>5, <2>6
<1>7. CASE name \notin DOMAIN named
  BY <1>7 DEF Clash!UniqueProviderName, Clash!Taken
<1> QED
  BY <1>6, <1>7

-----------------------------------------------------------------------------
(* The exporter for Clash *)

\* What holds of the exporter's state while the target is Clash.
ClashTyped ==
    /\ rulesets \in Seq(Loadable)
    /\ limit \in Nat
    /\ generated \in Nat
    /\ limit = 0 \/ generated <= limit
    /\ base.rules \in Seq(Seq(Clash!Entry))
    /\ index \in 0 .. Len(rulesets)
    /\ rulesets # <<>> => output \in Seq(Seq(Clash!Entry)) /\ Clash!BaseLength <= Len(output)
    /\ IsFiniteSet(DOMAIN providers)

\* The rules of a ruleset, before the limit.
RulesOf(ruleset) ==
    Clash!Filter(Clash!ParseCommonRules(ruleset.content, ruleset.format), Clash!ClashRule)

\* They are rules of Clash, at most one for an inline rule.
LEMMA RulesOfType ==
  ASSUME NEW ruleset \in Loadable
  PROVE  /\ RulesOf(ruleset) \in Seq(Clash!ClashRule)
         /\ Clash!IsInline(ruleset.content) => Len(RulesOf(ruleset)) <= 1
<1> DEFINE parsed == Clash!ParseCommonRules(ruleset.content, ruleset.format)
<1>1. /\ ruleset.content \in Seq(Document) \ {<<>>}
      /\ Clash!IsInline(ruleset.content) => Len(ruleset.content[1].lines) = 1
  BY DEF Loadable, Ruleset, IsInline, Clash!IsInline
<1>2. /\ parsed \in Seq(Clash!Rule)
      /\ Clash!IsInline(ruleset.content) => Len(parsed) <= 1
  BY <1>1, ParseType
<1> HIDE DEF parsed
<1>3. /\ Clash!Filter(parsed, Clash!ClashRule) \in Seq(Clash!ClashRule)
      /\ Len(Clash!Filter(parsed, Clash!ClashRule)) <= Len(parsed)
  BY <1>2, ClashFilterType
<1> QED
  <2> DEFINE f == Clash!Filter(parsed, Clash!ClashRule)
  <2>1. Len(f) \in Nat /\ Len(parsed) \in Nat
    BY <1>2, <1>3
  <2>2. RulesOf(ruleset) = f
    BY DEF RulesOf, parsed
  <2> HIDE DEF f
  <2> QED
    BY <1>2, <1>3, <2>1, <2>2 DEF f

\* What may still be written, -1 for no limit, as RuleStream counts it.
Left == IF limit = 0 THEN -1 ELSE limit - generated

\* The rules of the current ruleset, cut off where RuleStream cuts them off:
\* the exporter never cuts an inline rule, and need not.
LEMMA CurrentRulesFacts ==
  ASSUME ClashTyped, Clash!Loop
  PROVE  /\ Clash!Current \in Loadable
         /\ Left # 0
         /\ Clash!CurrentRules \in Seq(Clash!ClashRule)
         /\ Clash!CurrentRules =
              IF Left = -1 \/ Len(RulesOf(Clash!Current)) <= Left THEN RulesOf(Clash!Current)
              ELSE SubSeq(RulesOf(Clash!Current), 1, Left)
         /\ limit = 0 \/ generated + Len(Clash!CurrentRules) <= limit
<1> DEFINE rules == RulesOf(Clash!Current)
<1>1. Clash!Current \in Loadable
  BY DEF ClashTyped, Clash!Loop, Clash!Current
<1>2. /\ rules \in Seq(Clash!ClashRule)
      /\ Clash!IsInline(Clash!Current.content) => Len(rules) <= 1
  BY <1>1, RulesOfType
<1>3. Len(rules) \in Nat
  BY <1>2
<1>4. /\ limit \in Nat /\ generated \in Nat
      /\ limit # 0 => generated < limit
  BY DEF ClashTyped, Clash!Loop, Clash!Exhausted
<1>5. Clash!CurrentRules =
        IF Clash!IsInline(Clash!Current.content) THEN rules
        ELSE IF Clash!Remaining = 0 \/ Len(rules) <= Clash!Remaining THEN rules
        ELSE SubSeq(rules, 1, Clash!Remaining)
  BY DEF Clash!CurrentRules, Clash!Limited, Clash!UpTo, RulesOf
<1> HIDE DEF rules
<1>6. Clash!CurrentRules =
        IF Left = -1 \/ Len(rules) <= Left THEN rules ELSE SubSeq(rules, 1, Left)
  BY <1>2, <1>3, <1>4, <1>5 DEF Left, Clash!Remaining
<1>7. Left \in Int /\ (Left = -1 \/ Left > 0)
  BY <1>4 DEF Left
<1>8. /\ Clash!CurrentRules \in Seq(Clash!ClashRule)
      /\ Left = -1 \/ Len(Clash!CurrentRules) <= Left
  BY <1>2, <1>3, <1>6, <1>7
<1> QED
  BY <1>1, <1>4, <1>6, <1>7, <1>8 DEF Left, rules

-----------------------------------------------------------------------------
(* Entries *)

\* What Clash calls an entry of kind RULE-SET or of a rule's own kind is one.
LEMMA EntryTypes ==
  /\ \A name \in Seq(Clash!ProviderWord), noResolve \in BOOLEAN, group \in STRING :
        Clash!SetEntry(name, noResolve, group) \in Clash!Entry
  /\ \A rule \in Clash!ClashRule, group \in STRING : Clash!RuleEntry(rule, group) \in Clash!Entry
<1>1. "RULE-SET" \in STRING /\ \A kind \in Clash!ClashKinds : kind \in STRING
  BY StringAssumption DEF Clash!ClashKinds, SupportedKinds
<1>2. <<>> \in Seq(STRING) /\ <<>> \in Seq(Clash!ProviderWord)
  OBVIOUS
<1>3. ASSUME NEW name \in Seq(Clash!ProviderWord), NEW noResolve \in BOOLEAN, NEW group \in STRING
      PROVE  Clash!SetEntry(name, noResolve, group) \in Clash!Entry
  BY <1>1, <1>2 DEF Clash!SetEntry, Clash!RuleLine, Clash!None, Clash!Entry
<1>4. ASSUME NEW rule \in Clash!ClashRule, NEW group \in STRING
      PROVE  Clash!RuleEntry(rule, group) \in Clash!Entry
  BY <1>1, <1>2 DEF Clash!RuleEntry, Clash!ClashRule, Clash!Entry
<1> QED
  BY <1>3, <1>4

\* Putting a provider under a fresh name leaves the others alone.
Puts(put, name, provider, named) ==
    /\ IsFiniteSet(DOMAIN put)
    /\ DOMAIN put = DOMAIN named \cup {name}
    /\ put[name] = provider
    /\ \A n \in DOMAIN named : put[n] = named[n]

\* A provider under a fresh name replaces none.
LEMMA PutFacts ==
  ASSUME NEW name, NEW provider, NEW named, IsFiniteSet(DOMAIN named), name \notin DOMAIN named
  PROVE  Puts(Clash!Put(name, provider, named), name, provider, named)
<1>1. IsFiniteSet(DOMAIN named \cup {name})
  BY FS_AddElement
<1> QED
  BY <1>1 DEF Clash!Put, Puts

\* Providers of a ruleset have a name to begin with.
LEMMA BehaviorNameType ==
  ASSUME Clash!Current \in Loadable, ClashTyped, NEW behavior \in Clash!Behaviors
  PROVE  Clash!BehaviorName(behavior) \in ProviderName
<1> DEFINE stems == [k \in DOMAIN Clash!Current.sources |-> Stem[Clash!Current.sources[k]]]
<1>1. Clash!Current.sources \in Seq(DOMAIN Stem)
  BY DEF Loadable, Ruleset
<1>2. Clash!FlattenSeq(stems) \in Seq(Clash!ProviderWord)
  <2>1. stems \in Seq(Seq(Clash!ProviderWord))
    <3>1. \A source \in DOMAIN Stem : Stem[source] \in Seq(Clash!ProviderWord)
      BY ClashAssumption
    <3>2. /\ Len(Clash!Current.sources) \in Nat
          /\ DOMAIN Clash!Current.sources = 1 .. Len(Clash!Current.sources)
          /\ \A k \in DOMAIN Clash!Current.sources : Clash!Current.sources[k] \in DOMAIN Stem
      BY <1>1
    <3>3. \A k \in DOMAIN Clash!Current.sources :
            Stem[Clash!Current.sources[k]] \in Seq(Clash!ProviderWord)
      BY <3>1, <3>2
    <3> QED
      BY <3>2, <3>3
  <2>2. Clash!FlattenSeq(stems) = FlattenSeq(stems)
    BY DEF Clash!FlattenSeq, FlattenSeq
  <2> HIDE DEF stems
  <2> QED
    BY <2>1, <2>2, FlattenSeqType
<1>3. /\ Clash!Word("ruleset") \in Clash!ProviderWord
      /\ Clash!Numeral(index + 1) \in Clash!ProviderWord
      /\ Clash!Word(behavior) \in Clash!ProviderWord
  <2>1. "ruleset" \in STRING /\ behavior \in STRING
    BY StringAssumption DEF Clash!Behaviors
  <2>2. index + 1 \in Nat
    BY DEF ClashTyped
  <2> QED
    BY <2>1, <2>2 DEF Clash!Word, Clash!Numeral, Clash!ProviderWord
<1>4. \A a, b \in Clash!ProviderWord : <<a, b>> \in Seq(Clash!ProviderWord)
  OBVIOUS
<1>5. Clash!RulesetSourceName(Clash!Current.sources, index + 1) \in Seq(Clash!ProviderWord)
  <2> HIDE DEF stems
  <2> QED
    BY <1>2, <1>3, <1>4, Zenon DEF Clash!RulesetSourceName, stems
<1>6. \A a \in Clash!ProviderWord, s \in Seq(Clash!ProviderWord) :
        <<a>> \o s \in Seq(Clash!ProviderWord) /\ <<a>> \o s # <<>>
  OBVIOUS
<1> QED
  BY <1>3, <1>5, <1>6, Zenon DEF Clash!BehaviorName, ProviderName

\* What inserting a provider for the rules of a behavior does to the providers
\* `before`, giving `after`, and the entries `refer` it writes: nothing, or a
\* new provider and one entry that refers to it.
Inserted(rules, behavior, before, after, refer) ==
    \/ after = before /\ refer = <<>> /\ ~Clash!Optimizes(rules, behavior)
    \/ /\ Clash!Optimizes(rules, behavior)
       /\ \E name \in ProviderName \ DOMAIN before :
            /\ after = Clash!Put(name, Clash!OptimizedProvider(rules, behavior), before)
            /\ refer = <<Clash!SetEntry(name, behavior = "ipcidr", Clash!Current.group)>>

\* insert_provider adds at most one provider and refers to it.
LEMMA InsertFacts ==
  ASSUME Clash!Current \in Loadable, ClashTyped, NEW rules, NEW behavior \in Clash!Behaviors,
         NEW named, IsFiniteSet(DOMAIN named)
  PROVE  /\ IsFiniteSet(DOMAIN Clash!Insert(rules, behavior, named))
         /\ Clash!Referral(rules, behavior, named) \in Seq(Clash!Entry)
         /\ Inserted(rules, behavior, named, Clash!Insert(rules, behavior, named),
                     Clash!Referral(rules, behavior, named))
<1>1. CASE ~Clash!Optimizes(rules, behavior)
  <2>1. <<>> \in Seq(Clash!Entry)
    OBVIOUS
  <2> QED
    BY <1>1, <2>1 DEF Clash!Insert, Clash!Referral, Inserted
<1>2. CASE Clash!Optimizes(rules, behavior)
  <2> DEFINE name == Clash!UniqueProviderName(Clash!BehaviorName(behavior), named)
             entry == Clash!SetEntry(name, behavior = "ipcidr", Clash!Current.group)
  <2>1. name \in ProviderName /\ name \notin DOMAIN named
    BY BehaviorNameType, NameIsFresh
  <2>2. /\ Clash!Insert(rules, behavior, named)
             = Clash!Put(name, Clash!OptimizedProvider(rules, behavior), named)
        /\ Clash!Referral(rules, behavior, named) = <<entry>>
    BY <1>2 DEF Clash!Insert, Clash!Referral
  <2> HIDE DEF name
  <2>3. IsFiniteSet(DOMAIN Clash!Insert(rules, behavior, named))
    <3> DEFINE provider == Clash!OptimizedProvider(rules, behavior)
    <3>1. Clash!Insert(rules, behavior, named) = Clash!Put(name, provider, named)
      BY <2>2
    <3> HIDE DEF provider
    <3>2. Puts(Clash!Insert(rules, behavior, named), name, provider, named)
      BY <2>1, <3>1, PutFacts
    <3> QED
      BY <3>2 DEF Puts
  <2>4. entry \in Clash!Entry
    <3>1. Clash!Current.group \in STRING
      BY DEF Loadable, Ruleset
    <3>2. name \in Seq(Clash!ProviderWord) /\ (behavior = "ipcidr") \in BOOLEAN
      BY <2>1 DEF ProviderName
    <3> QED
      BY <3>1, <3>2, EntryTypes
  <2> HIDE DEF entry
  <2>5. <<entry>> \in Seq(Clash!Entry)
    BY <2>4, OneElement, Zenon
  <2>6. Inserted(rules, behavior, named, Clash!Insert(rules, behavior, named),
                 Clash!Referral(rules, behavior, named))
    BY <1>2, <2>1, <2>2, Zenon DEF Inserted, entry
  <2> QED
    BY <2>2, <2>3, <2>5, <2>6
<1> QED
  BY <1>1, <1>2

\* The payload of a provider is the rules that it can hold; those of an IP
\* provider do not have names resolved.
LEMMA PayloadFacts ==
  ASSUME NEW rules \in Seq(Clash!ClashRule), NEW behavior
  PROVE  /\ Clash!Range(Clash!Payload(rules, behavior))
              = Clash!Range(rules) \cap Clash!Optimizable(behavior)
         /\ behavior = "ipcidr" =>
              \A rule \in Clash!Range(Clash!Payload(rules, behavior)) : rule.noResolve = TRUE
<1>1. Clash!Range(Clash!Payload(rules, behavior))
        = Clash!Range(rules) \cap Clash!Optimizable(behavior)
  BY ClashFilter DEF Clash!Payload
<1>2. behavior = "ipcidr" => \A rule \in Clash!Optimizable(behavior) : rule.noResolve = TRUE
  BY DEF Clash!Optimizable
<1> QED
  BY <1>1, <1>2

\* What a concatenation holds, and where.
LEMMA ConcatFacts ==
  ASSUME NEW S, NEW s \in Seq(S), NEW t \in Seq(S)
  PROVE  /\ s \o t \in Seq(S)
         /\ Len(s \o t) = Len(s) + Len(t)
         /\ \A k \in DOMAIN (s \o t) :
              \/ k \in DOMAIN s /\ (s \o t)[k] = s[k]
              \/ k - Len(s) \in DOMAIN t /\ (s \o t)[k] = t[k - Len(s)]
         /\ Clash!Range(s \o t) = Clash!Range(s) \cup Clash!Range(t)
<1> DEFINE st == s \o t
<1>1. /\ Len(s) \in Nat /\ DOMAIN s = 1 .. Len(s)
      /\ Len(t) \in Nat /\ DOMAIN t = 1 .. Len(t)
      /\ st \in Seq(S) /\ Len(st) = Len(s) + Len(t) /\ DOMAIN st = 1 .. Len(st)
      /\ \A k \in 1 .. Len(s) : st[k] = s[k]
      /\ \A k \in 1 .. Len(t) : st[Len(s) + k] = t[k]
  OBVIOUS
<1> HIDE DEF st
<1>2. ASSUME NEW k \in DOMAIN st
      PROVE  \/ k \in DOMAIN s /\ st[k] = s[k]
             \/ k - Len(s) \in DOMAIN t /\ st[k] = t[k - Len(s)]
  <2>1. k \in 1 .. Len(s) \/ k - Len(s) \in 1 .. Len(t)
    BY <1>1
  <2>2. k = Len(s) + (k - Len(s))
    BY <1>1
  <2> QED
    BY <1>1, <2>1, <2>2
<1>3. /\ \A k \in DOMAIN s : k \in DOMAIN st /\ st[k] = s[k]
      /\ \A k \in DOMAIN t : Len(s) + k \in DOMAIN st /\ st[Len(s) + k] = t[k]
  BY <1>1
<1>4. \A r : \A x : x \in Clash!Range(r) <=> \E k \in DOMAIN r : r[k] = x
  BY DEF Clash!Range
<1>5. ASSUME NEW x
      PROVE  x \in Clash!Range(st) <=> x \in Clash!Range(s) \/ x \in Clash!Range(t)
  <2>1. x \in Clash!Range(st) => x \in Clash!Range(s) \/ x \in Clash!Range(t)
    BY <1>2, <1>4
  <2>2. x \in Clash!Range(s) => x \in Clash!Range(st)
    BY <1>3, <1>4
  <2>3. x \in Clash!Range(t) => x \in Clash!Range(st)
    BY <1>3, <1>4
  <2> QED
    BY <2>1, <2>2, <2>3
<1>6. Clash!Range(st) = Clash!Range(s) \cup Clash!Range(t)
  BY <1>5
<1> QED
  BY <1>1, <1>2, <1>6 DEF st

\* The entries of a piece: the two that may refer to a provider, then the rules.
LEMMA PieceFacts ==
  ASSUME NEW a \in Seq(Clash!Entry), NEW b \in Seq(Clash!Entry), NEW c \in Seq(Clash!Entry)
  PROVE  /\ a \o b \o c \in Seq(Clash!Entry)
         /\ Clash!Range(a \o b \o c) = Clash!Range(a) \cup Clash!Range(b) \cup Clash!Range(c)
         /\ \A k \in DOMAIN (a \o b \o c) :
              \/ k \in DOMAIN a /\ (a \o b \o c)[k] = a[k]
              \/ k - Len(a) \in DOMAIN b /\ (a \o b \o c)[k] = b[k - Len(a)]
              \/ \E j \in DOMAIN c : (a \o b \o c)[k] = c[j]
<1> DEFINE ab == a \o b
           abc == ab \o c
<1>1. /\ ab \in Seq(Clash!Entry)
      /\ Clash!Range(ab) = Clash!Range(a) \cup Clash!Range(b)
      /\ \A k \in DOMAIN ab :
           \/ k \in DOMAIN a /\ ab[k] = a[k]
           \/ k - Len(a) \in DOMAIN b /\ ab[k] = b[k - Len(a)]
  BY ConcatFacts, ZenonT(60)
<1> HIDE DEF ab
<1>2. ab \in Seq(Clash!Entry)
  BY <1>1
<1>3. /\ abc \in Seq(Clash!Entry)
      /\ Clash!Range(abc) = Clash!Range(ab) \cup Clash!Range(c)
      /\ \A k \in DOMAIN abc :
           \/ k \in DOMAIN ab /\ abc[k] = ab[k]
           \/ k - Len(ab) \in DOMAIN c /\ abc[k] = c[k - Len(ab)]
  BY <1>2, ConcatFacts, ZenonT(60)
<1> HIDE DEF abc
<1>4. \A k \in DOMAIN abc :
        \/ k \in DOMAIN a /\ abc[k] = a[k]
        \/ k - Len(a) \in DOMAIN b /\ abc[k] = b[k - Len(a)]
        \/ \E j \in DOMAIN c : abc[k] = c[j]
  BY <1>1, <1>3
<1>5. Clash!Range(abc) = Clash!Range(a) \cup Clash!Range(b) \cup Clash!Range(c)
  BY <1>1, <1>3
<1> QED
  BY <1>3, <1>4, <1>5 DEF abc, ab

-----------------------------------------------------------------------------
(* What a pass of the loop appends *)

\* The places of entries that refer to a provider, in any rules.
References(written) ==
    {place \in UNION {{k} \X DOMAIN written[k] : k \in DOMAIN written} :
        written[place[1]][place[2]].set # <<>>}

\* The places of references, spelled out.
LEMMA Places ==
  ASSUME NEW written, NEW place
  PROVE  place \in References(written)
            <=> \E k \in DOMAIN written : \E j \in DOMAIN written[k] :
                  place = <<k, j>> /\ written[k][j].set # <<>>
<1> DEFINE at(k) == {k} \X DOMAIN written[k]
           all == {at(k) : k \in DOMAIN written}
<1>1. \A x : x \in UNION all <=> \E k \in DOMAIN written : x \in at(k)
  <2> HIDE DEF at
  <2> QED
    OBVIOUS
<1>2. \A k, x : x \in at(k) <=> \E j \in DOMAIN written[k] : x = <<k, j>>
  OBVIOUS
<1>3. \A k, j : place = <<k, j>> => place[1] = k /\ place[2] = j
  OBVIOUS
<1>4. place \in References(written)
        <=> place \in UNION all /\ written[place[1]][place[2]].set # <<>>
  BY DEF References
<1> HIDE DEF at, all
<1> QED
  BY <1>1, <1>2, <1>3, <1>4

\* The names that the references have are those of providers written along
\* with them, each its own.
OwnNames(written, named, old) ==
    /\ \A k \in DOMAIN written : \A j \in DOMAIN written[k] :
        written[k][j].set # <<>> => written[k][j].set \in DOMAIN named \ DOMAIN old
    /\ \A k, m \in DOMAIN written : \A j \in DOMAIN written[k], n \in DOMAIN written[m] :
        written[k][j].set # <<>> /\ written[k][j].set = written[m][n].set => k = m /\ j = n

\* Own names, by the places of references.
LEMMA OwnNamesOfPlaces ==
  ASSUME NEW written, NEW named, NEW old
  PROVE  OwnNames(written, named, old)
            <=> /\ \A place \in References(written) :
                     written[place[1]][place[2]].set \in DOMAIN named \ DOMAIN old
                /\ \A p, q \in References(written) :
                     p # q => written[p[1]][p[2]].set # written[q[1]][q[2]].set
<1> DEFINE name(p) == written[p[1]][p[2]].set
           byPlace == /\ \A place \in References(written) : name(place) \in DOMAIN named \ DOMAIN old
                      /\ \A p, q \in References(written) : p # q => name(p) # name(q)
<1>1. \A k \in DOMAIN written : \A j \in DOMAIN written[k] :
        written[k][j].set # <<>> => <<k, j>> \in References(written) /\ name(<<k, j>>) = written[k][j].set
  <2>1. \A k \in DOMAIN written : \A j \in DOMAIN written[k] :
          written[k][j].set # <<>> => <<k, j>> \in References(written)
    BY Places
  <2> QED
    BY <2>1
<1>2. \A place \in References(written) :
        \E k \in DOMAIN written : \E j \in DOMAIN written[k] :
          place = <<k, j>> /\ written[k][j].set # <<>> /\ name(place) = written[k][j].set
  BY Places
<1> HIDE DEF name
<1>3. OwnNames(written, named, old) => byPlace
  <2>1. ASSUME OwnNames(written, named, old), NEW p \in References(written)
        PROVE  name(p) \in DOMAIN named \ DOMAIN old
    BY <1>2, <2>1 DEF OwnNames
  <2>2. ASSUME OwnNames(written, named, old), NEW p \in References(written),
               NEW q \in References(written), name(p) = name(q)
        PROVE  p = q
    <3>1. PICK k \in DOMAIN written : \E j \in DOMAIN written[k] :
            p = <<k, j>> /\ written[k][j].set # <<>> /\ name(p) = written[k][j].set
      BY <1>2
    <3>2. PICK j \in DOMAIN written[k] :
            p = <<k, j>> /\ written[k][j].set # <<>> /\ name(p) = written[k][j].set
      BY <3>1
    <3>3. PICK m \in DOMAIN written : \E n \in DOMAIN written[m] :
            q = <<m, n>> /\ written[m][n].set # <<>> /\ name(q) = written[m][n].set
      BY <1>2
    <3>4. PICK n \in DOMAIN written[m] :
            q = <<m, n>> /\ written[m][n].set # <<>> /\ name(q) = written[m][n].set
      BY <3>3
    <3>5. k = m /\ j = n
      BY <2>2, <3>2, <3>4 DEF OwnNames
    <3> QED
      BY <3>2, <3>4, <3>5
  <2> QED
    BY <2>1, <2>2
<1>4. byPlace => OwnNames(written, named, old)
  <2> SUFFICES ASSUME byPlace PROVE OwnNames(written, named, old)
    OBVIOUS
  <2>1. \A k \in DOMAIN written : \A j \in DOMAIN written[k] :
          written[k][j].set # <<>> => written[k][j].set \in DOMAIN named \ DOMAIN old
    BY <1>1
  <2>2. ASSUME NEW k \in DOMAIN written, NEW j \in DOMAIN written[k],
               NEW m \in DOMAIN written, NEW n \in DOMAIN written[m],
               written[k][j].set # <<>>, written[k][j].set = written[m][n].set
        PROVE  k = m /\ j = n
    <3>1. /\ <<k, j>> \in References(written) /\ name(<<k, j>>) = written[k][j].set
          /\ <<m, n>> \in References(written) /\ name(<<m, n>>) = written[m][n].set
      BY <1>1, <2>2
    <3>2. <<k, j>> = <<m, n>>
      BY <2>2, <3>1
    <3> QED
      BY <3>2
  <2> QED
    BY <2>1, <2>2 DEF OwnNames
<1> QED
  BY <1>3, <1>4 DEF name

\* A provider of IP rules resolves names where its reference does.
RightlyResolved(written, named) ==
    \A k \in DOMAIN written : \A j \in DOMAIN written[k] :
        written[k][j].set # <<>> /\ Clash!HoldsNetworks(named[written[k][j].set]) =>
            \A rule \in Clash!Range(named[written[k][j].set].payload) :
                rule.noResolve = written[k][j].rule.noResolve

\* Resolution, by the places of references.
LEMMA ResolvedAtPlaces ==
  ASSUME NEW written, NEW named
  PROVE  RightlyResolved(written, named)
            <=> \A place \in References(written) :
                  LET entry == written[place[1]][place[2]] IN
                  Clash!HoldsNetworks(named[entry.set]) =>
                      \A rule \in Clash!Range(named[entry.set].payload) :
                          rule.noResolve = entry.rule.noResolve
<1> DEFINE right(entry) == Clash!HoldsNetworks(named[entry.set]) =>
                             \A rule \in Clash!Range(named[entry.set].payload) :
                                 rule.noResolve = entry.rule.noResolve
           at(p) == written[p[1]][p[2]]
<1>1. \A k \in DOMAIN written : \A j \in DOMAIN written[k] :
        written[k][j].set # <<>> => <<k, j>> \in References(written)
  BY Places
<1>2. \A place \in References(written) :
        \E k \in DOMAIN written : \E j \in DOMAIN written[k] :
          place = <<k, j>> /\ written[k][j].set # <<>>
  BY Places
<1>3. \A k, j : at(<<k, j>>) = written[k][j]
  OBVIOUS
<1>4. RightlyResolved(written, named)
        <=> \A k \in DOMAIN written : \A j \in DOMAIN written[k] :
              written[k][j].set # <<>> => right(written[k][j])
  BY Zenon DEF RightlyResolved
<1>5. (\A k \in DOMAIN written : \A j \in DOMAIN written[k] :
         written[k][j].set # <<>> => right(written[k][j]))
      <=> \A place \in References(written) : right(at(place))
  <2> HIDE DEF right, at
  <2>1. ASSUME \A k \in DOMAIN written : \A j \in DOMAIN written[k] :
                  written[k][j].set # <<>> => right(written[k][j]),
               NEW place \in References(written)
        PROVE  right(at(place))
    <3>1. PICK k \in DOMAIN written : \E j \in DOMAIN written[k] :
            place = <<k, j>> /\ written[k][j].set # <<>>
      BY <1>2
    <3>2. PICK j \in DOMAIN written[k] : place = <<k, j>> /\ written[k][j].set # <<>>
      BY <3>1
    <3>3. right(written[k][j]) /\ at(place) = written[k][j]
      BY <1>3, <2>1, <3>2
    <3> QED
      BY <3>3
  <2>2. ASSUME \A place \in References(written) : right(at(place)),
               NEW k \in DOMAIN written, NEW j \in DOMAIN written[k], written[k][j].set # <<>>
        PROVE  right(written[k][j])
    <3>1. <<k, j>> \in References(written) /\ at(<<k, j>>) = written[k][j]
      BY <1>1, <1>3, <2>2
    <3>2. right(at(<<k, j>>))
      BY <2>2, <3>1
    <3> QED
      BY <3>1, <3>2
  <2> QED
    BY <2>1, <2>2
<1> QED
  BY <1>4, <1>5, Zenon

\* A pass of the loop appends a piece and puts providers under new names, which
\* the references of the piece have, each its own.
Appended(piece) ==
    /\ rulesets # <<>>
    /\ UNCHANGED <<rulesets, options, base>>
    /\ piece \in Seq(Clash!Entry)
    /\ output' = Append(output, piece)
    /\ \A name \in DOMAIN providers : name \in DOMAIN providers' /\ providers'[name] = providers[name]
    /\ \A j \in DOMAIN piece :
        piece[j].set # <<>> => piece[j].set \in DOMAIN providers' \ DOMAIN providers
    /\ \A j, n \in DOMAIN piece : piece[j].set # <<>> /\ piece[j].set = piece[n].set => j = n

\* The end of a sequence that grows by one element grows by that element.
LEMMA SubSeqOfAppend ==
  ASSUME NEW S, NEW s \in Seq(S), NEW x \in S, NEW from \in Nat, from <= Len(s)
  PROVE  /\ SubSeq(s, from + 1, Len(s)) \in Seq(S)
         /\ SubSeq(Append(s, x), from + 1, Len(Append(s, x)))
               = Append(SubSeq(s, from + 1, Len(s)), x)
<1> DEFINE end == SubSeq(s, from + 1, Len(s))
           longer == Append(s, x)
           cut == SubSeq(longer, from + 1, Len(longer))
           grown == Append(end, x)
<1>1. /\ longer \in Seq(S) /\ Len(longer) = Len(s) + 1 /\ Len(s) \in Nat
      /\ \A k \in 1 .. Len(s) : longer[k] = s[k]
      /\ longer[Len(s) + 1] = x
  OBVIOUS
<1>2. /\ end \in Seq(S) /\ Len(end) = Len(s) - from
      /\ \A k \in 1 .. Len(s) - from : end[k] = s[from + k]
  OBVIOUS
<1> HIDE DEF longer
<1>3. /\ cut \in Seq(S) /\ Len(cut) = Len(s) + 1 - from
      /\ \A k \in 1 .. Len(s) + 1 - from : cut[k] = longer[from + k]
  BY <1>1
<1> HIDE DEF end, cut
<1>4. /\ grown \in Seq(S) /\ Len(grown) = Len(s) - from + 1
      /\ \A k \in 1 .. Len(s) - from : grown[k] = end[k]
      /\ grown[Len(s) - from + 1] = x
  BY <1>1, <1>2
<1> HIDE DEF grown
<1>5. ASSUME NEW k \in 1 .. Len(s) + 1 - from PROVE cut[k] = grown[k]
  <2>1. CASE k \in 1 .. Len(s) - from
    BY <1>1, <1>2, <1>3, <1>4, <2>1
  <2>2. CASE k = Len(s) - from + 1
    <3>1. from + k = Len(s) + 1
      BY <1>1, <2>2
    <3> QED
      BY <1>1, <1>3, <1>4, <2>2, <3>1
  <2> QED
    BY <1>1, <2>1, <2>2
<1>6. cut = grown
  BY <1>1, <1>3, <1>4, <1>5
<1> QED
  BY <1>2, <1>6 DEF cut, grown, end, longer

\* The piece is written behind the others.
LEMMA WrittenGrows ==
  ASSUME ClashTyped, NEW piece, Appended(piece)
  PROVE  /\ Clash!Written \in Seq(Seq(Clash!Entry))
         /\ Clash!Written' = Append(Clash!Written, piece)
<1> DEFINE B == Clash!BaseLength
           S == Seq(Clash!Entry)
<1>1. /\ B \in Nat /\ B <= Len(output) /\ output \in Seq(S) /\ piece \in S
      /\ output' = Append(output, piece)
  <2>1. B \in Nat
    BY DEF ClashTyped, Clash!BaseLength
  <2> QED
    BY <2>1 DEF ClashTyped, Appended
<1>2. /\ Clash!Written = SubSeq(output, B + 1, Len(output))
      /\ Clash!Written' = SubSeq(output', B + 1, Len(output'))
  BY DEF Appended, Clash!Written, Clash!BaseLength
<1> HIDE DEF B, S
<1>3. /\ SubSeq(output, B + 1, Len(output)) \in Seq(S)
      /\ SubSeq(output', B + 1, Len(output')) = Append(SubSeq(output, B + 1, Len(output)), piece)
  <2>1. SubSeq(output, B + 1, Len(output)) \in Seq(S)
    BY <1>1, SubSeqOfAppend, Zenon
  <2>2. SubSeq(Append(output, piece), B + 1, Len(Append(output, piece)))
          = Append(SubSeq(output, B + 1, Len(output)), piece)
    BY <1>1, SubSeqOfAppend, ZenonT(60)
  <2> QED
    BY <1>1, <2>1, <2>2, Zenon
<1> QED
  BY <1>2, <1>3 DEF S

\* What is behind the places of a sequence with one more element.
LEMMA AppendedPlaces ==
  ASSUME NEW S, NEW s \in Seq(S), NEW x \in S
  PROVE  /\ DOMAIN Append(s, x) = DOMAIN s \cup {Len(s) + 1}
         /\ Len(s) + 1 \notin DOMAIN s
         /\ \A k \in DOMAIN s : Append(s, x)[k] = s[k]
         /\ Append(s, x)[Len(s) + 1] = x
  OBVIOUS

\* What was written keeps its names and its resolution, and the piece has its
\* own.
LEMMA AppendKeeps ==
  ASSUME ClashTyped, NEW piece, Appended(piece), Clash!ProvidersKeepTheirNames
  PROVE  /\ Clash!ProvidersKeepTheirNames'
         /\ Clash!ResolutionKept /\ RightlyResolved(<<piece>>, providers') => Clash!ResolutionKept'
<1> DEFINE W == Clash!Written
<1>1. /\ W \in Seq(Seq(Clash!Entry)) /\ piece \in Seq(Clash!Entry)
      /\ Clash!Written' = Append(W, piece)
  BY WrittenGrows DEF Appended
<1> DEFINE WW == Append(W, piece)
           L == Len(W) + 1
<1> HIDE DEF W
<1>2. /\ DOMAIN WW = DOMAIN W \cup {L} /\ L \notin DOMAIN W
      /\ \A k \in DOMAIN W : WW[k] = W[k]
      /\ WW[L] = piece
  BY <1>1, AppendedPlaces
<1>3. OwnNames(W, providers, base.providers)
  BY OwnNamesOfPlaces
    DEF W, Clash!ProvidersKeepTheirNames, Clash!Referring, Clash!ProviderAt, References
<1>4. (\A name \in DOMAIN base.providers :
         name \in DOMAIN providers /\ providers[name] = base.providers[name])
  BY DEF Clash!ProvidersKeepTheirNames
<1>5. Clash!ResolutionKept => RightlyResolved(W, providers)
  BY ResolvedAtPlaces DEF W, Clash!ResolutionKept, Clash!Referring, References
<1> HIDE DEF WW, L
<1>6. /\ base' = base
      /\ \A name \in DOMAIN providers :
           name \in DOMAIN providers' /\ providers'[name] = providers[name]
      /\ \A j \in DOMAIN piece :
           piece[j].set # <<>> => piece[j].set \in DOMAIN providers' \ DOMAIN providers
      /\ \A j, n \in DOMAIN piece : piece[j].set # <<>> /\ piece[j].set = piece[n].set => j = n
  BY DEF Appended
<1>7. OwnNames(WW, providers', base.providers)
  <2>1. ASSUME NEW k \in DOMAIN WW, NEW j \in DOMAIN WW[k], WW[k][j].set # <<>>
        PROVE  /\ WW[k][j].set \in DOMAIN providers' \ DOMAIN base.providers
               /\ k \in DOMAIN W <=> WW[k][j].set \in DOMAIN providers
    <3>1. CASE k \in DOMAIN W
      BY <1>2, <1>3, <1>6, <2>1, <3>1 DEF OwnNames
    <3>2. CASE k = L
      BY <1>2, <1>4, <1>6, <2>1, <3>2
    <3> QED
      BY <1>2, <3>1, <3>2
  <2>2. ASSUME NEW k \in DOMAIN WW, NEW m \in DOMAIN WW,
               NEW j \in DOMAIN WW[k], NEW n \in DOMAIN WW[m],
               WW[k][j].set # <<>>, WW[k][j].set = WW[m][n].set
        PROVE  k = m /\ j = n
    <3>1. k \in DOMAIN W <=> m \in DOMAIN W
      BY <2>1, <2>2
    <3>2. CASE k \in DOMAIN W
      BY <1>2, <1>3, <2>2, <3>1, <3>2 DEF OwnNames
    <3>3. CASE k \notin DOMAIN W
      BY <1>2, <1>6, <2>2, <3>1, <3>3
    <3> QED
      BY <3>2, <3>3
  <2> QED
    BY <2>1, <2>2 DEF OwnNames
<1>8. Clash!ProvidersKeepTheirNames'
  <2>1. \A name \in DOMAIN base.providers :
          name \in DOMAIN providers' /\ providers'[name] = base.providers[name]
    BY <1>4, <1>6
  <2>2. /\ \A place \in References(WW) :
             WW[place[1]][place[2]].set \in DOMAIN providers' \ DOMAIN base.providers
        /\ \A p, q \in References(WW) : p # q => WW[p[1]][p[2]].set # WW[q[1]][q[2]].set
    BY <1>7, OwnNamesOfPlaces
  <2>3. Clash!Written' = WW /\ base' = base
    BY <1>1, <1>6 DEF WW
  <2> QED
    BY <2>1, <2>2, <2>3
    DEF Clash!ProvidersKeepTheirNames, Clash!Referring, Clash!ProviderAt, References
<1>9. ASSUME RightlyResolved(W, providers), RightlyResolved(<<piece>>, providers')
      PROVE  Clash!ResolutionKept'
  <2>1. RightlyResolved(WW, providers')
    <3> SUFFICES ASSUME NEW k \in DOMAIN WW, NEW j \in DOMAIN WW[k], WW[k][j].set # <<>>,
                        Clash!HoldsNetworks(providers'[WW[k][j].set]),
                        NEW rule \in Clash!Range(providers'[WW[k][j].set].payload)
                 PROVE  rule.noResolve = WW[k][j].rule.noResolve
      BY DEF RightlyResolved
    <3>1. CASE k \in DOMAIN W
      <4>1. WW[k] = W[k] /\ providers'[WW[k][j].set] = providers[W[k][j].set]
        BY <1>2, <1>3, <1>6, <3>1 DEF OwnNames
      <4> QED
        BY <1>9, <3>1, <4>1 DEF RightlyResolved
    <3>2. CASE k = L
      <4>1. 1 \in DOMAIN <<piece>> /\ <<piece>>[1] = piece /\ WW[k] = piece
        BY <1>2, <3>2
      <4> QED
        BY <1>9, <4>1 DEF RightlyResolved
    <3> QED
      BY <1>2, <3>1, <3>2
  <2>2. Clash!Written' = WW
    BY <1>1 DEF WW
  <2> QED
    BY <2>1, <2>2, ResolvedAtPlaces DEF Clash!ResolutionKept, Clash!Referring, References
<1> QED
  BY <1>5, <1>8, <1>9

-----------------------------------------------------------------------------
(* The actions of the exporter *)

\* What a provider inserted for a behavior, and the reference to it, are.
Refers(rules, behavior, before, after, refer) ==
    /\ \A name \in DOMAIN before : name \in DOMAIN after /\ after[name] = before[name]
    /\ \A k \in DOMAIN refer :
         /\ k = 1
         /\ refer[k].set # <<>>
         /\ refer[k].set \in DOMAIN after \ DOMAIN before
         /\ after[refer[k].set] = Clash!OptimizedProvider(rules, behavior)
         /\ refer[k].rule.noResolve = (behavior = "ipcidr")
         /\ refer[k].group = Clash!Current.group
    /\ Clash!Optimizes(rules, behavior) <=> 1 \in DOMAIN refer

\* What was inserted is what is referred to.
LEMMA InsertedFacts ==
  ASSUME NEW rules, NEW behavior, NEW before, IsFiniteSet(DOMAIN before), NEW after, NEW refer,
         Inserted(rules, behavior, before, after, refer)
  PROVE  Refers(rules, behavior, before, after, refer)
<1>1. CASE after = before /\ refer = <<>> /\ ~Clash!Optimizes(rules, behavior)
  <2>1. DOMAIN <<>> = {}
    OBVIOUS
  <2> QED
    BY <1>1, <2>1 DEF Refers
<1>2. ASSUME Clash!Optimizes(rules, behavior),
             NEW name \in ProviderName \ DOMAIN before,
             after = Clash!Put(name, Clash!OptimizedProvider(rules, behavior), before),
             refer = <<Clash!SetEntry(name, behavior = "ipcidr", Clash!Current.group)>>
      PROVE  Refers(rules, behavior, before, after, refer)
  <2> DEFINE provider == Clash!OptimizedProvider(rules, behavior)
             resolves == behavior = "ipcidr"
             entry == Clash!SetEntry(name, resolves, Clash!Current.group)
  <2>1. entry.set = name /\ entry.rule.noResolve = resolves /\ entry.group = Clash!Current.group
    BY DEF Clash!SetEntry, Clash!RuleLine
  <2>2. refer = <<entry>> /\ after = Clash!Put(name, provider, before)
    BY <1>2, Zenon
  <2> HIDE DEF provider, resolves, entry
  <2>3. DOMAIN refer = {1} /\ refer[1] = entry
    BY <2>2
  <2>4. /\ DOMAIN after = DOMAIN before \cup {name} /\ after[name] = provider
        /\ \A n \in DOMAIN before : after[n] = before[n]
    <3>1. Puts(after, name, provider, before)
      BY <2>2, PutFacts
    <3> QED
      BY <3>1 DEF Puts
  <2>5. name # <<>> /\ name \notin DOMAIN before
    BY DEF ProviderName
  <2> QED
    BY <1>2, <2>1, <2>3, <2>4, <2>5 DEF provider, resolves, Refers
<1>3. \/ after = before /\ refer = <<>> /\ ~Clash!Optimizes(rules, behavior)
      \/ /\ Clash!Optimizes(rules, behavior)
         /\ \E name \in ProviderName \ DOMAIN before :
              /\ after = Clash!Put(name, Clash!OptimizedProvider(rules, behavior), before)
              /\ refer = <<Clash!SetEntry(name, behavior = "ipcidr", Clash!Current.group)>>
  BY Zenon DEF Inserted
<1> QED
  BY <1>1, <1>2, <1>3, Zenon

\* The rules behind an entry, when `named` are the providers.
Meaning(entry, named) ==
    IF entry.set = <<>> THEN {<<entry.group, Clash!Said(entry.rule)>>}
    ELSE {<<entry.group, Clash!Said(rule)>> : rule \in Clash!Range(named[entry.set].payload)}

\* One pass of the loop: a piece is appended that says the rules of the current
\* ruleset for its group.
Pass(piece) ==
    /\ Appended(piece)
    /\ RightlyResolved(<<piece>>, providers')
    /\ UNION {Meaning(entry, providers') : entry \in Clash!Range(piece)}
         = {<<Clash!Current.group, Clash!Said(rule)>> : rule \in Clash!Range(Clash!CurrentRules)}
    /\ UNCHANGED limit
    /\ index' = index + 1
    /\ generated' = generated + Len(Clash!CurrentRules)
    /\ outcome = "running"
    /\ IsFiniteSet(DOMAIN providers')

\* Resolution of one piece.
LEMMA OnePiece ==
  ASSUME NEW piece, NEW named,
         \A j \in DOMAIN piece :
            piece[j].set # <<>> /\ Clash!HoldsNetworks(named[piece[j].set]) =>
                \A rule \in Clash!Range(named[piece[j].set].payload) :
                    rule.noResolve = piece[j].rule.noResolve
  PROVE  RightlyResolved(<<piece>>, named)
<1>1. DOMAIN <<piece>> = {1} /\ <<piece>>[1] = piece
  OBVIOUS
<1> QED
  BY <1>1 DEF RightlyResolved

\* The geo provider of an inline rule.
LEMMA GeoPass ==
  ASSUME ClashTyped, Clash!AppendGeoProvider
  PROVE  \E piece : Pass(piece)
<1> DEFINE rules == Clash!CurrentRules
           wanted == <<Clash!Word(rules[1].kind), Clash!Word(rules[1].value[1])>>
           name == Clash!UniqueProviderName(wanted, providers)
           provider == Clash!GeoProvider(rules[1])
           entry == Clash!SetEntry(name, FALSE, Clash!Current.group)
           piece == <<entry>>
<1>1. /\ Clash!Loop /\ Clash!ConvertsGeo(rules)
      /\ providers' = Clash!Put(name, provider, providers)
      /\ output' = Append(output, piece)
      /\ generated' = generated + 1
      /\ index' = index + 1
      /\ UNCHANGED <<rulesets, limit, options, base, outcome>>
  BY Zenon DEF Clash!AppendGeoProvider
<1>2. Clash!Current \in Loadable /\ rules \in Seq(Clash!ClashRule)
  BY <1>1, CurrentRulesFacts
<1>3. /\ Len(rules) = 1 /\ rules[1].kind \in {"GEOIP", "GEOSITE"} /\ rules[1].value # <<>>
  BY <1>1 DEF Clash!ConvertsGeo, Clash!None
<1>4. rules[1] \in Clash!ClashRule /\ Clash!Range(rules) = {rules[1]} /\ Clash!Range(<<rules[1]>>) = {rules[1]}
  <2>1. DOMAIN rules = {1} /\ rules[1] \in Clash!ClashRule
    BY <1>2, <1>3
  <2>2. DOMAIN <<rules[1]>> = {1} /\ <<rules[1]>>[1] = rules[1]
    OBVIOUS
  <2> HIDE DEF rules
  <2> QED
    BY <2>1, <2>2 DEF Clash!Range
<1>5. rulesets # <<>> /\ outcome = "running" /\ IsFiniteSet(DOMAIN providers)
  BY <1>1 DEF Clash!Loop, ClashTyped
<1> HIDE DEF rules
<1>6. wanted \in ProviderName
  <2>1. /\ rules[1].kind \in STRING /\ rules[1].value \in Seq(STRING)
    BY <1>4, StringAssumption DEF Clash!ClashRule, Clash!ClashKinds, SupportedKinds
  <2>2. rules[1].value[1] \in STRING
    BY <1>3, <2>1
  <2>3. /\ Clash!Word(rules[1].kind) \in Clash!ProviderWord
        /\ Clash!Word(rules[1].value[1]) \in Clash!ProviderWord
    BY <2>1, <2>2 DEF Clash!Word, Clash!ProviderWord
  <2>4. \A a, b \in Clash!ProviderWord : <<a, b>> \in Seq(Clash!ProviderWord) /\ <<a, b>> # <<>>
    OBVIOUS
  <2> QED
    BY <2>3, <2>4, Zenon DEF ProviderName
<1> HIDE DEF wanted
<1>7. name \in ProviderName /\ name \notin DOMAIN providers
  BY <1>5, <1>6, NameIsFresh
<1> HIDE DEF name
<1>8. /\ entry.set = name /\ entry.group = Clash!Current.group
      /\ name # <<>>
      /\ ~Clash!HoldsNetworks(provider) /\ provider.payload = <<rules[1]>>
  BY <1>3, <1>7 DEF Clash!SetEntry, Clash!GeoProvider, Clash!HoldsNetworks, ProviderName
<1>9. entry \in Clash!Entry
  <2>1. Clash!Current.group \in STRING /\ name \in Seq(Clash!ProviderWord) /\ FALSE \in BOOLEAN
    BY <1>2, <1>7 DEF Loadable, Ruleset, ProviderName
  <2> QED
    BY <2>1, EntryTypes
<1> HIDE DEF entry, provider
<1>10. piece \in Seq(Clash!Entry) /\ DOMAIN piece = {1} /\ piece[1] = entry /\ Clash!Range(piece) = {entry}
  <2>1. piece \in Seq(Clash!Entry)
    BY <1>9, OneElement, Zenon
  <2>2. DOMAIN piece = {1} /\ piece[1] = entry
    OBVIOUS
  <2> QED
    BY <2>1, <2>2 DEF Clash!Range
<1> HIDE DEF piece
<1>11. /\ IsFiniteSet(DOMAIN providers')
       /\ DOMAIN providers' = DOMAIN providers \cup {name}
       /\ providers'[name] = provider
       /\ \A n \in DOMAIN providers : providers'[n] = providers[n]
  <2>1. Puts(providers', name, provider, providers)
    BY <1>1, <1>5, <1>7, PutFacts
  <2> QED
    BY <2>1 DEF Puts
<1>12. Appended(piece)
  BY <1>1, <1>5, <1>7, <1>8, <1>10, <1>11 DEF Appended
<1>13. RightlyResolved(<<piece>>, providers')
  BY <1>8, <1>10, <1>11, OnePiece
<1>14. UNION {Meaning(e, providers') : e \in Clash!Range(piece)}
         = {<<Clash!Current.group, Clash!Said(rule)>> : rule \in Clash!Range(rules)}
  <2>1. Meaning(entry, providers') = {<<Clash!Current.group, Clash!Said(rules[1])>>}
    BY <1>4, <1>8, <1>11 DEF Meaning
  <2>2. UNION {Meaning(e, providers') : e \in Clash!Range(piece)} = Meaning(entry, providers')
    BY <1>10
  <2> QED
    BY <1>4, <2>1, <2>2
<1>15. Pass(piece)
  BY <1>1, <1>3, <1>5, <1>11, <1>12, <1>13, <1>14 DEF Pass, rules
<1> QED
  BY <1>15

\* The rules that are in no provider are among the rules.
LEMMA RestFacts ==
  ASSUME NEW rules \in Seq(Clash!ClashRule)
  PROVE  /\ Clash!Rest(rules) \in Seq(Clash!ClashRule)
         /\ \A rule : rule \in Clash!Range(Clash!Rest(rules))
              <=> /\ rule \in Clash!Range(rules)
                  /\ \A behavior \in Clash!Behaviors :
                       Clash!Optimizes(rules, behavior) => rule \notin Clash!Optimizable(behavior)
<1> DEFINE kept == {rule \in Clash!Range(rules) :
                      \A behavior \in Clash!Behaviors :
                        Clash!Optimizes(rules, behavior) => rule \notin Clash!Optimizable(behavior)}
<1>1. Clash!Rest(rules) = Clash!Filter(rules, kept)
  BY DEF Clash!Rest
<1>2. \A rule : rule \in kept
        <=> /\ rule \in Clash!Range(rules)
            /\ \A behavior \in Clash!Behaviors :
                 Clash!Optimizes(rules, behavior) => rule \notin Clash!Optimizable(behavior)
  OBVIOUS
<1> HIDE DEF kept
<1>3. /\ Clash!Filter(rules, kept) \in Seq(Clash!ClashRule \cap kept)
      /\ Clash!Range(Clash!Filter(rules, kept)) = Clash!Range(rules) \cap kept
  BY ClashFilter
<1>4. Clash!Rest(rules) \in Seq(Clash!ClashRule)
  BY <1>1, <1>3
<1>5. \A rule : rule \in Clash!Range(Clash!Rest(rules)) <=> rule \in kept
  BY <1>1, <1>2, <1>3
<1> QED
  BY <1>2, <1>4, <1>5

\* The providers of a ruleset and the rest of its rules.
LEMMA RulesetPass ==
  ASSUME ClashTyped, Clash!AppendRuleset
  PROVE  \E piece : Pass(piece)
<1> DEFINE rules == Clash!CurrentRules
           group == Clash!Current.group
           withDomains == Clash!Insert(rules, "domain", providers)
           a == Clash!Referral(rules, "domain", providers)
           b == Clash!Referral(rules, "ipcidr", withDomains)
           rest == Clash!Rest(rules)
           c == [k \in DOMAIN rest |-> Clash!RuleEntry(rest[k], group)]
           piece == a \o b \o c
<1>1. /\ Clash!Loop
      /\ providers' = Clash!Insert(rules, "ipcidr", withDomains)
      /\ output' = Append(output, piece)
      /\ generated' = generated + Len(rules)
      /\ index' = index + 1
      /\ UNCHANGED <<rulesets, limit, options, base, outcome>>
  BY Zenon DEF Clash!AppendRuleset
<1>2. Clash!Current \in Loadable /\ rules \in Seq(Clash!ClashRule)
  BY <1>1, CurrentRulesFacts
<1>3. rulesets # <<>> /\ outcome = "running" /\ IsFiniteSet(DOMAIN providers) /\ group \in STRING
  BY <1>1, <1>2 DEF Clash!Loop, ClashTyped, Loadable, Ruleset
<1>4. "domain" \in Clash!Behaviors /\ "ipcidr" \in Clash!Behaviors
  BY DEF Clash!Behaviors
<1> HIDE DEF rules
<1>5. /\ IsFiniteSet(DOMAIN withDomains) /\ a \in Seq(Clash!Entry)
      /\ Inserted(rules, "domain", providers, withDomains, a)
  BY <1>2, <1>3, <1>4, InsertFacts
<1> HIDE DEF withDomains, a
<1>6. /\ IsFiniteSet(DOMAIN providers') /\ b \in Seq(Clash!Entry)
      /\ Inserted(rules, "ipcidr", withDomains, providers', b)
  BY <1>1, <1>2, <1>4, <1>5, InsertFacts
<1> HIDE DEF b
<1>7. /\ \A name \in DOMAIN providers :
           name \in DOMAIN withDomains /\ withDomains[name] = providers[name]
      /\ \A k \in DOMAIN a :
           /\ k = 1
           /\ a[k].set # <<>>
           /\ a[k].set \in DOMAIN withDomains \ DOMAIN providers
           /\ withDomains[a[k].set] = Clash!OptimizedProvider(rules, "domain")
           /\ a[k].group = group
      /\ Clash!Optimizes(rules, "domain") => 1 \in DOMAIN a
  <2>1. Refers(rules, "domain", providers, withDomains, a)
    BY <1>3, <1>5, InsertedFacts
  <2> QED
    BY <2>1 DEF Refers, group
<1>8. /\ \A name \in DOMAIN withDomains :
           name \in DOMAIN providers' /\ providers'[name] = withDomains[name]
      /\ \A k \in DOMAIN b :
           /\ k = 1
           /\ b[k].set # <<>>
           /\ b[k].set \in DOMAIN providers' \ DOMAIN withDomains
           /\ providers'[b[k].set] = Clash!OptimizedProvider(rules, "ipcidr")
           /\ b[k].rule.noResolve = TRUE
           /\ b[k].group = group
      /\ Clash!Optimizes(rules, "ipcidr") => 1 \in DOMAIN b
  <2>1. Refers(rules, "ipcidr", withDomains, providers', b)
    BY <1>5, <1>6, InsertedFacts
  <2> QED
    BY <2>1 DEF Refers, group
<1>9. /\ rest \in Seq(Clash!ClashRule)
      /\ \A rule : rule \in Clash!Range(rest)
           <=> /\ rule \in Clash!Range(rules)
               /\ \A behavior \in Clash!Behaviors :
                    Clash!Optimizes(rules, behavior) => rule \notin Clash!Optimizable(behavior)
  BY <1>2, RestFacts
<1> HIDE DEF rest
<1>10. /\ c \in Seq(Clash!Entry) /\ DOMAIN c = DOMAIN rest
       /\ \A k \in DOMAIN c : c[k] = Clash!RuleEntry(rest[k], group)
  <2>1. Len(rest) \in Nat /\ DOMAIN rest = 1 .. Len(rest)
    BY <1>9
  <2>2. \A k \in DOMAIN rest : Clash!RuleEntry(rest[k], group) \in Clash!Entry
    <3>1. \A k \in DOMAIN rest : rest[k] \in Clash!ClashRule
      BY <1>9
    <3> HIDE DEF group
    <3> QED
      BY <1>3, <3>1, EntryTypes
  <2> QED
    BY <2>1, <2>2
<1> HIDE DEF c
<1>11. \A k \in DOMAIN c : c[k].set = <<>> /\ c[k].group = group /\ c[k].rule = rest[k]
  BY <1>10 DEF Clash!RuleEntry
<1>12. /\ piece \in Seq(Clash!Entry)
       /\ Clash!Range(piece) = Clash!Range(a) \cup Clash!Range(b) \cup Clash!Range(c)
       /\ \A k \in DOMAIN piece :
            \/ k \in DOMAIN a /\ piece[k] = a[k]
            \/ k - Len(a) \in DOMAIN b /\ piece[k] = b[k - Len(a)]
            \/ \E j \in DOMAIN c : piece[k] = c[j]
  BY <1>5, <1>6, <1>10, PieceFacts
<1> HIDE DEF piece, group
<1>13. ASSUME NEW k \in DOMAIN piece, piece[k].set # <<>>
       PROVE  \/ k \in DOMAIN a /\ piece[k] = a[k]
              \/ k - Len(a) \in DOMAIN b /\ piece[k] = b[k - Len(a)]
  BY <1>11, <1>12, <1>13
<1>14. Appended(piece)
  <2>1. \A name \in DOMAIN providers :
          name \in DOMAIN providers' /\ providers'[name] = providers[name]
    BY <1>7, <1>8
  <2>2. \A k \in DOMAIN piece :
          piece[k].set # <<>> => piece[k].set \in DOMAIN providers' \ DOMAIN providers
    BY <1>7, <1>8, <1>13
  <2>3. ASSUME NEW j \in DOMAIN piece, NEW n \in DOMAIN piece,
               piece[j].set # <<>>, piece[j].set = piece[n].set
        PROVE  j = n
    <3>1. /\ piece[j].set \in DOMAIN withDomains => j = 1
          /\ piece[j].set \notin DOMAIN withDomains => j - Len(a) = 1
      BY <1>7, <1>8, <1>13, <2>3
    <3>2. /\ piece[n].set \in DOMAIN withDomains => n = 1
          /\ piece[n].set \notin DOMAIN withDomains => n - Len(a) = 1
      BY <1>7, <1>8, <1>13, <2>3
    <3>3. j \in Nat /\ n \in Nat /\ Len(a) \in Nat
      BY <1>5, <1>12
    <3> QED
      BY <2>3, <3>1, <3>2, <3>3
  <2> QED
    BY <1>1, <1>3, <1>12, <2>1, <2>2, <2>3 DEF Appended
<1>15. RightlyResolved(<<piece>>, providers')
  <2>1. ASSUME NEW k \in DOMAIN piece, piece[k].set # <<>>,
               Clash!HoldsNetworks(providers'[piece[k].set]),
               NEW rule \in Clash!Range(providers'[piece[k].set].payload)
        PROVE  rule.noResolve = piece[k].rule.noResolve
    <3>1. CASE k \in DOMAIN a /\ piece[k] = a[k]
      <4>1. providers'[piece[k].set].behavior = "domain"
        BY <1>7, <1>8, <3>1 DEF Clash!OptimizedProvider
      <4> QED
        BY <2>1, <4>1 DEF Clash!HoldsNetworks
    <3>2. CASE k - Len(a) \in DOMAIN b /\ piece[k] = b[k - Len(a)]
      <4>1. /\ providers'[piece[k].set].payload = Clash!Payload(rules, "ipcidr")
            /\ piece[k].rule.noResolve = TRUE
        BY <1>8, <3>2 DEF Clash!OptimizedProvider
      <4> QED
        BY <1>2, <2>1, <4>1, PayloadFacts
    <3> QED
      BY <1>13, <2>1, <3>1, <3>2
  <2> QED
    BY <2>1, OnePiece
<1>16. UNION {Meaning(entry, providers') : entry \in Clash!Range(piece)}
         = {<<group, Clash!Said(rule)>> : rule \in Clash!Range(rules)}
  <2> DEFINE said(rule) == <<group, Clash!Said(rule)>>
  <2>1. \A s : \A x : x \in Clash!Range(s) <=> \E k \in DOMAIN s : s[k] = x
    BY DEF Clash!Range
  <2>2. \A entry \in Clash!Range(a) :
          Meaning(entry, providers') =
            {said(rule) : rule \in Clash!Range(rules) \cap Clash!Optimizable("domain")}
    <3>1. \A k \in DOMAIN a :
            /\ a[k].set # <<>> /\ a[k].group = group
            /\ providers'[a[k].set].payload = Clash!Payload(rules, "domain")
      BY <1>7, <1>8 DEF Clash!OptimizedProvider
    <3>2. Clash!Range(Clash!Payload(rules, "domain"))
            = Clash!Range(rules) \cap Clash!Optimizable("domain")
      BY <1>2, PayloadFacts
    <3> QED
      BY <2>1, <3>1, <3>2 DEF Meaning
  <2>3. \A entry \in Clash!Range(b) :
          Meaning(entry, providers') =
            {said(rule) : rule \in Clash!Range(rules) \cap Clash!Optimizable("ipcidr")}
    <3>1. \A k \in DOMAIN b :
            /\ b[k].set # <<>> /\ b[k].group = group
            /\ providers'[b[k].set].payload = Clash!Payload(rules, "ipcidr")
      BY <1>8 DEF Clash!OptimizedProvider
    <3>2. Clash!Range(Clash!Payload(rules, "ipcidr"))
            = Clash!Range(rules) \cap Clash!Optimizable("ipcidr")
      BY <1>2, PayloadFacts
    <3> QED
      BY <2>1, <3>1, <3>2 DEF Meaning
  <2>4. \A k \in DOMAIN c : Meaning(c[k], providers') = {said(rest[k])}
    BY <1>11 DEF Meaning
  <2>5. ASSUME NEW entry \in Clash!Range(piece), NEW x \in Meaning(entry, providers')
        PROVE  \E rule \in Clash!Range(rules) : x = said(rule)
    <3>1. CASE entry \in Clash!Range(a)
      BY <2>2, <2>5, <3>1
    <3>2. CASE entry \in Clash!Range(b)
      BY <2>3, <2>5, <3>2
    <3>3. CASE entry \in Clash!Range(c)
      <4>1. PICK k \in DOMAIN c : entry = c[k]
        BY <2>1, <3>3
      <4>2. x = said(rest[k])
        BY <2>4, <2>5, <4>1
      <4>3. rest[k] \in Clash!Range(rules)
        BY <1>9, <1>10, <2>1, <4>1
      <4> QED
        BY <4>2, <4>3
    <3> QED
      BY <1>12, <3>1, <3>2, <3>3
  <2>6. ASSUME NEW rule \in Clash!Range(rules)
        PROVE  \E entry \in Clash!Range(piece) : said(rule) \in Meaning(entry, providers')
    <3>1. CASE rule \in Clash!Range(rest)
      <4>1. PICK k \in DOMAIN rest : rest[k] = rule
        BY <2>1, <3>1
      <4>2. c[k] \in Clash!Range(piece) /\ said(rule) \in Meaning(c[k], providers')
        BY <1>10, <1>12, <2>1, <2>4, <4>1
      <4> QED
        BY <4>2
    <3>2. CASE rule \notin Clash!Range(rest)
      <4>1. PICK behavior \in Clash!Behaviors :
              Clash!Optimizes(rules, behavior) /\ rule \in Clash!Optimizable(behavior)
        BY <1>9, <2>6, <3>2
      <4>2. behavior = "domain" \/ behavior = "ipcidr"
        BY DEF Clash!Behaviors
      <4>3. CASE behavior = "domain"
        <5>1. 1 \in DOMAIN a
          BY <1>7, <4>1, <4>3
        <5>2. a[1] \in Clash!Range(a) /\ a[1] \in Clash!Range(piece)
          BY <1>12, <2>1, <5>1
        <5>3. said(rule) \in Meaning(a[1], providers')
          BY <2>2, <2>6, <4>1, <4>3, <5>2
        <5> QED
          BY <5>2, <5>3
      <4>4. CASE behavior = "ipcidr"
        <5>1. 1 \in DOMAIN b
          BY <1>8, <4>1, <4>4
        <5>2. b[1] \in Clash!Range(b) /\ b[1] \in Clash!Range(piece)
          BY <1>12, <2>1, <5>1
        <5>3. said(rule) \in Meaning(b[1], providers')
          BY <2>3, <2>6, <4>1, <4>4, <5>2
        <5> QED
          BY <5>2, <5>3
      <4> QED
        BY <4>2, <4>3, <4>4
    <3> QED
      BY <3>1, <3>2
  <2> HIDE DEF said
  <2>7. UNION {Meaning(entry, providers') : entry \in Clash!Range(piece)}
          = {said(rule) : rule \in Clash!Range(rules)}
    BY <2>5, <2>6
  <2> QED
    BY <2>7 DEF said
<1>17. Pass(piece)
  BY <1>1, <1>3, <1>6, <1>14, <1>15, <1>16 DEF Pass, rules, group
<1> QED
  BY <1>17

-----------------------------------------------------------------------------
(* Names and resolution *)

\* A pass keeps the state typed.
LEMMA PassKeepsTypes ==
  ASSUME ClashTyped, Clash!Loop, NEW piece, Pass(piece)
  PROVE  ClashTyped'
<1>1. /\ UNCHANGED <<rulesets, limit, options, base>>
      /\ piece \in Seq(Clash!Entry) /\ output' = Append(output, piece)
      /\ index' = index + 1
      /\ generated' = generated + Len(Clash!CurrentRules)
      /\ IsFiniteSet(DOMAIN providers')
      /\ rulesets # <<>>
  BY DEF Pass, Appended
<1>2. Len(Clash!CurrentRules) \in Nat /\ (limit = 0 \/ generated' <= limit)
  BY <1>1, CurrentRulesFacts
<1>3. index < Len(rulesets)
  BY DEF Clash!Loop
<1>4. index' \in 0 .. Len(rulesets) /\ generated' \in Nat
  BY <1>1, <1>2, <1>3 DEF ClashTyped
<1>5. output' \in Seq(Seq(Clash!Entry)) /\ Clash!BaseLength' <= Len(output')
  <2>1. Clash!BaseLength' = Clash!BaseLength
    BY <1>1 DEF Clash!BaseLength
  <2>2. Clash!BaseLength \in Nat /\ output \in Seq(Seq(Clash!Entry)) /\ Clash!BaseLength <= Len(output)
    BY <1>1 DEF ClashTyped, Clash!BaseLength
  <2> DEFINE S == Seq(Clash!Entry)
  <2> HIDE DEF S
  <2>3. output \in Seq(S) /\ piece \in S
    BY <1>1, <2>2 DEF S
  <2>4. output' \in Seq(S) /\ Len(output') = Len(output) + 1 /\ Len(output) \in Nat
    BY <1>1, <2>3
  <2>5. output' \in Seq(Seq(Clash!Entry))
    BY <2>4 DEF S
  <2> QED
    BY <2>1, <2>2, <2>4, <2>5
<1> QED
  BY <1>1, <1>2, <1>4, <1>5 DEF ClashTyped

\* What the invariants of the exporter for Clash say together.
ClashInv ==
    target = "clash" => ClashTyped /\ Clash!ProvidersKeepTheirNames /\ Clash!ResolutionKept

\* At first nothing is written.
LEMMA NothingWritten ==
  ASSUME target = "clash", Init
  PROVE  ClashTyped /\ Clash!Written = <<>> /\ providers = base.providers
<1>1. "clash" \in Targets /\ Clash!Init
  BY DEF Init
<1>2. PICK list \in Lists["clash"] : rulesets = Clash!MergeAdjacentRulesets(list)
  BY <1>1 DEF Clash!Init
<1>3. list \in Seq(Loadable)
  <2>1. /\ list \in Seq(Ruleset)
        /\ \A k \in DOMAIN list : IsInline(list[k].content) => Len(list[k].content[1].lines) = 1
    BY <1>1, ExportAssumption
  <2>2. \A k \in DOMAIN list : list[k] \in Loadable
    BY <2>1 DEF Loadable
  <2> QED
    BY <2>1, <2>2
<1>4. rulesets \in Seq(Loadable)
  BY <1>2, <1>3, MergeType
<1>5. /\ base.rules \in Seq(Seq(Clash!Entry)) /\ IsFiniteSet(DOMAIN base.providers)
      /\ providers = base.providers /\ index = 0 /\ generated = 0 /\ limit \in Nat
      /\ rulesets # <<>> => output = IF options.overwrite THEN <<>> ELSE base.rules
  BY <1>1, ClashAssumption, ExportAssumption DEF Clash!Init
<1>6. index \in 0 .. Len(rulesets)
  BY <1>4, <1>5
<1>7. rulesets # <<>> =>
        output \in Seq(Seq(Clash!Entry)) /\ Clash!BaseLength = Len(output) /\ Len(output) \in Nat
  <2> DEFINE S == Seq(Clash!Entry)
  <2> HIDE DEF S
  <2>1. base.rules \in Seq(S)
    BY <1>5 DEF S
  <2>2. <<>> \in Seq(S) /\ Len(<<>>) = 0 /\ Len(base.rules) \in Nat
    BY <2>1
  <2>3. rulesets # <<>> => Clash!BaseLength = Len(output)
    <3>1. CASE options.overwrite
      BY <1>5, <2>2, <3>1 DEF Clash!BaseLength
    <3>2. CASE ~options.overwrite
      <4>1. rulesets # <<>> => output = base.rules
        BY <1>5, <3>2
      <4>2. Clash!BaseLength = Len(base.rules)
        BY <3>2 DEF Clash!BaseLength
      <4> QED
        BY <4>1, <4>2, Zenon
    <3> QED
      BY <3>1, <3>2
  <2>4. rulesets # <<>> => output \in Seq(S) /\ Len(output) \in Nat
    <3>1. rulesets # <<>> => output = <<>> \/ output = base.rules
      BY <1>5
    <3>2. rulesets # <<>> => output \in Seq(S)
      BY <2>1, <2>2, <3>1, Zenon
    <3> QED
      BY <3>2
  <2> QED
    BY <2>3, <2>4 DEF S
<1>8. ClashTyped
  BY <1>4, <1>5, <1>6, <1>7 DEF ClashTyped
<1>9. Clash!Written = <<>>
  <2>1. \A S : \A s \in Seq(S) : SubSeq(s, Len(s) + 1, Len(s)) = <<>>
    OBVIOUS
  <2> QED
    BY <1>7, <2>1 DEF Clash!Written
<1> QED
  BY <1>5, <1>8, <1>9

\* Without references there is nothing to check.
LEMMA NoReferences ==
  ASSUME Clash!Written = <<>>
  PROVE  Clash!Referring = {}
<1>1. \A place : place \notin References(<<>>)
  BY Places
<1>2. Clash!Referring = References(<<>>)
  BY DEF Clash!Referring, References
<1> QED
  BY <1>1, <1>2

\* Nothing is written yet.
LEMMA ClashInvInit == Init => ClashInv
<1> SUFFICES ASSUME Init, target = "clash"
             PROVE  ClashTyped /\ Clash!ProvidersKeepTheirNames /\ Clash!ResolutionKept
  BY DEF ClashInv
<1>1. ClashTyped /\ Clash!Written = <<>> /\ providers = base.providers
  BY NothingWritten
<1>2. Clash!Referring = {}
  BY <1>1, NoReferences
<1> QED
  BY <1>1, <1>2 DEF Clash!ProvidersKeepTheirNames, Clash!ResolutionKept

\* What a step leaves alone when it appends nothing.
Still ==
    /\ UNCHANGED <<rulesets, limit, options, base, index, generated, providers>>
    /\ rulesets # <<>> => UNCHANGED output

\* A step of the exporter is a pass, or changes neither rules nor providers.
LEMMA ClashSteps ==
  ASSUME ClashTyped, Clash!Next
  PROVE  (Clash!Loop /\ \E piece : Pass(piece)) \/ Still
<1>1. CASE Clash!AppendGeoProvider
  <2>1. Clash!Loop
    BY <1>1 DEF Clash!AppendGeoProvider
  <2> QED
    BY <1>1, <2>1, GeoPass
<1>2. CASE Clash!AppendRuleset
  <2>1. Clash!Loop
    BY <1>2 DEF Clash!AppendRuleset
  <2> QED
    BY <1>2, <2>1, RulesetPass
<1>3. CASE Clash!AppendFails
  BY <1>3 DEF Clash!AppendFails, Still
<1>4. CASE Clash!Finish
  BY <1>4 DEF Clash!Finish, Still
<1>5. CASE Clash!Exported
  BY <1>5 DEF Clash!Exported, Clash!vars, Still
<1> QED
  BY <1>1, <1>2, <1>3, <1>4, <1>5 DEF Clash!Next

\* A step that writes nothing keeps the invariant.
LEMMA StillKeeps ==
  ASSUME ClashTyped, Clash!ProvidersKeepTheirNames, Clash!ResolutionKept, Still
  PROVE  /\ ClashTyped' /\ Clash!ProvidersKeepTheirNames' /\ Clash!ResolutionKept'
         /\ Clash!Written' = Clash!Written
<1>1. ClashTyped'
  BY DEF ClashTyped, Still, Clash!BaseLength
<1>2. Clash!Written' = Clash!Written
  BY DEF Still, Clash!Written, Clash!BaseLength
<1>3. providers' = providers /\ base' = base
  BY DEF Still
<1>4. Clash!Referring' = Clash!Referring
  BY <1>2 DEF Clash!Referring
<1>5. Clash!ProvidersKeepTheirNames'
  BY <1>2, <1>3, <1>4 DEF Clash!ProvidersKeepTheirNames, Clash!ProviderAt
<1>6. Clash!ResolutionKept'
  BY <1>2, <1>3, <1>4 DEF Clash!ResolutionKept
<1> QED
  BY <1>1, <1>2, <1>5, <1>6

\* Every step keeps the invariant of the Clash exporter.
LEMMA ClashInvStep == ClashInv /\ [Next]_vars => ClashInv'
<1> SUFFICES ASSUME ClashInv, [Next]_vars, target' = "clash"
             PROVE  ClashTyped' /\ Clash!ProvidersKeepTheirNames' /\ Clash!ResolutionKept'
  BY DEF ClashInv
<1>1. target = "clash" /\ (Clash!Next \/ UNCHANGED vars)
  BY DEF Next, ToClash, ToSingbox, vars
<1>2. ClashTyped /\ Clash!ProvidersKeepTheirNames /\ Clash!ResolutionKept
  BY <1>1 DEF ClashInv
<1>3. ASSUME Clash!Loop, NEW piece, Pass(piece)
      PROVE  ClashTyped' /\ Clash!ProvidersKeepTheirNames' /\ Clash!ResolutionKept'
  <2>1. Appended(piece) /\ RightlyResolved(<<piece>>, providers')
    BY <1>3 DEF Pass
  <2> QED
    BY <1>2, <1>3, <2>1, PassKeepsTypes, AppendKeeps
<1>4. CASE Still
  BY <1>2, <1>4, StillKeeps
<1>5. CASE UNCHANGED vars
  <2>1. Still
    BY <1>5 DEF vars, ofClash, Still
  <2> QED
    BY <1>4, <2>1
<1>6. CASE Clash!Next
  BY <1>2, <1>3, <1>4, <1>6, ClashSteps
<1> QED
  BY <1>1, <1>5, <1>6

\* The invariant of the Clash exporter holds in every state.
LEMMA ClashAlways == Spec => []ClashInv
  BY ClashInvInit, ClashInvStep, PTL DEF Spec

\* Providers of the base configuration keep their content, and no two written
\* rules refer to one provider: whatever names the sources and the base have,
\* a name made unique is free, and a provider once inserted is never replaced.
THEOREM ProvidersAlwaysKeepTheirNames == Spec => []ProvidersKeepTheirNames
<1>1. ClashInv => ProvidersKeepTheirNames
  BY DEF ClashInv, ProvidersKeepTheirNames
<1> QED
  BY <1>1, ClashAlways, PTL

\* An IP rule that has names resolved is never moved into a provider matched
\* without resolving, nor the other way round.
THEOREM ResolutionIsAlwaysKept == Spec => []ResolutionKept
<1>1. ClashInv => ResolutionKept
  BY DEF ClashInv, ResolutionKept
<1> QED
  BY <1>1, ClashAlways, PTL

-----------------------------------------------------------------------------
(* The exporter for Clash implements RuleStream *)

\* What rules say, one by one.
SaidAll(rules) == [r \in DOMAIN rules |-> Clash!Said(rules[r])]

\* A ruleset in the queue, and the queue from a ruleset on.
Item(ruleset) == [group |-> ruleset.group, rules |-> SaidAll(RulesOf(ruleset))]
QueueAfter(n) == [k \in 1 .. Len(rulesets) - n |-> Item(rulesets[n + k])]

\* A list of Clash rules says one rule each.
LEMMA SaidAllFacts ==
  ASSUME NEW rules \in Seq(Clash!ClashRule)
  PROVE  /\ SaidAll(rules) \in Seq(Stream!Rule)
         /\ Len(SaidAll(rules)) = Len(rules)
         /\ \A L \in Nat : L <= Len(rules) =>
              SubSeq(SaidAll(rules), 1, L) = SaidAll(SubSeq(rules, 1, L))
<1>1. \A rule \in Clash!ClashRule : Clash!Said(rule) \in Stream!Rule
  BY StringAssumption DEF Clash!ClashRule, Clash!ClashKinds, SupportedKinds, Clash!Said, Stream!Rule
<1>2. Len(rules) \in Nat /\ DOMAIN rules = 1 .. Len(rules)
      /\ \A r \in DOMAIN rules : rules[r] \in Clash!ClashRule
  OBVIOUS
<1>3. SaidAll(rules) \in Seq(Stream!Rule) /\ Len(SaidAll(rules)) = Len(rules)
  <2> DEFINE S == Stream!Rule
             said(r) == Clash!Said(rules[r])
  <2>1. \A r \in 1 .. Len(rules) : said(r) \in S
    BY <1>1, <1>2
  <2>2. SaidAll(rules) = [r \in 1 .. Len(rules) |-> said(r)]
    BY <1>2 DEF SaidAll
  <2> HIDE DEF S, said
  <2>3. SaidAll(rules) \in Seq(S) /\ Len(SaidAll(rules)) = Len(rules)
    BY <1>2, <2>1, <2>2
  <2> QED
    BY <2>3 DEF S
<1>4. ASSUME NEW L \in Nat, L <= Len(rules)
      PROVE  SubSeq(SaidAll(rules), 1, L) = SaidAll(SubSeq(rules, 1, L))
  <2> DEFINE all == SaidAll(rules)
             cut == SubSeq(rules, 1, L)
  <2>1. DOMAIN cut = 1 .. L /\ \A r \in 1 .. L : cut[r] = rules[r]
    BY <1>2, <1>4
  <2>2. \A r \in 1 .. L : all[r] = Clash!Said(rules[r])
    BY <1>2, <1>4 DEF SaidAll
  <2>3. SubSeq(all, 1, L) = [r \in 1 .. L |-> all[r]]
    BY <1>3, <1>4
  <2>4. SaidAll(cut) = [r \in 1 .. L |-> Clash!Said(cut[r])]
    BY <2>1 DEF SaidAll
  <2> HIDE DEF all, cut
  <2>5. [r \in 1 .. L |-> all[r]] = [r \in 1 .. L |-> Clash!Said(cut[r])]
    BY <2>1, <2>2
  <2> QED
    BY <2>3, <2>4, <2>5 DEF all, cut
<1> QED
  BY <1>3, <1>4

\* The queue is what the rulesets to come say.
LEMMA QueueIs ==
  ASSUME ClashTyped
  PROVE  /\ Clash!Queue = QueueAfter(index)
         /\ UNCHANGED rulesets /\ index' \in 0 .. Len(rulesets) => Clash!Queue' = QueueAfter(index')
<1> DEFINE S == Seq(Clash!ClashRule)
           say == [rules \in S |-> SaidAll(rules)]
           item(n) == [group |-> rulesets[n].group, rules |-> say[RulesOf(rulesets[n])]]
<1>1. \A n \in 1 .. Len(rulesets) : item(n) = Item(rulesets[n])
  <2>1. ASSUME NEW n \in 1 .. Len(rulesets) PROVE RulesOf(rulesets[n]) \in S
    <3>1. rulesets[n] \in Loadable
      BY DEF ClashTyped
    <3> QED
      BY <3>1, RulesOfType
  <2> HIDE DEF S
  <2> QED
    BY <2>1 DEF Item
<1>2. Clash!Queue = [k \in 1 .. Len(rulesets) - index |-> item(index + k)]
  BY DEF Clash!Queue, SaidAll, RulesOf
<1>3. UNCHANGED rulesets =>
        Clash!Queue' = [k \in 1 .. Len(rulesets) - index' |-> item(index' + k)]
  BY DEF Clash!Queue, SaidAll, RulesOf
<1>4. ASSUME NEW n \in 0 .. Len(rulesets)
      PROVE  [k \in 1 .. Len(rulesets) - n |-> item(n + k)] = QueueAfter(n)
  <2>1. Len(rulesets) \in Nat
    BY DEF ClashTyped
  <2>2. \A k \in 1 .. Len(rulesets) - n : n + k \in 1 .. Len(rulesets)
    BY <2>1
  <2> HIDE DEF item
  <2> QED
    BY <1>1, <2>2 DEF QueueAfter
<1>5. index \in 0 .. Len(rulesets)
  BY DEF ClashTyped
<1> QED
  BY <1>2, <1>3, <1>4, <1>5

\* What a piece says.
SaidBy(piece, named) == UNION {Meaning(entry, named) : entry \in Clash!Range(piece)}

\* What was routed stays, and the piece adds what it says.
LEMMA RoutedGrows ==
  ASSUME ClashTyped, Clash!ProvidersKeepTheirNames, NEW piece, Appended(piece)
  PROVE  Clash!Routed' = Append(Clash!Routed, SaidBy(piece, providers'))
<1> DEFINE W == Clash!Written
           WW == Append(W, piece)
           L == Len(W)
<1>1. /\ W \in Seq(Seq(Clash!Entry)) /\ piece \in Seq(Clash!Entry)
      /\ Clash!Written' = WW
  BY WrittenGrows DEF Appended
<1>2. OwnNames(W, providers, base.providers)
  BY OwnNamesOfPlaces
    DEF W, Clash!ProvidersKeepTheirNames, Clash!Referring, Clash!ProviderAt, References
<1> HIDE DEF W
<1>3. /\ L \in Nat /\ DOMAIN W = 1 .. L /\ DOMAIN WW = 1 .. L + 1
      /\ \A k \in 1 .. L : WW[k] = W[k]
      /\ WW[L + 1] = piece
  <2> DEFINE S == Seq(Clash!Entry)
  <2>1. W \in Seq(S) /\ piece \in S
    BY <1>1
  <2> HIDE DEF S
  <2> QED
    BY <2>1
<1>4. Clash!Routed = [k \in 1 .. L |-> SaidBy(W[k], providers)]
  <2>1. \A entry : Clash!Behind(entry) = Meaning(entry, providers)
    BY DEF Clash!Behind, Meaning
  <2>2. \A k \in DOMAIN W : UNION {Clash!Behind(entry) : entry \in Clash!Range(W[k])}
                              = SaidBy(W[k], providers)
    BY <2>1 DEF SaidBy
  <2>3. Clash!Routed = [k \in DOMAIN W |-> UNION {Clash!Behind(entry) : entry \in Clash!Range(W[k])}]
    BY DEF Clash!Routed, W
  <2> QED
    BY <1>3, <2>2, <2>3
<1>5. Clash!Routed' = [k \in 1 .. L + 1 |-> SaidBy(WW[k], providers')]
  <2> DEFINE behind(k) == UNION {Meaning(entry, providers') : entry \in Clash!Range(WW[k])}
  <2>1. Clash!Routed' = [k \in DOMAIN WW |-> behind(k)]
    BY <1>1 DEF Clash!Routed, Clash!Behind, Meaning
  <2>2. \A k : behind(k) = SaidBy(WW[k], providers')
    BY DEF SaidBy
  <2> HIDE DEF behind, WW
  <2> QED
    BY <1>3, <2>1, <2>2
<1>6. \A k \in 1 .. L : SaidBy(WW[k], providers') = SaidBy(W[k], providers)
  <2> SUFFICES ASSUME NEW k \in 1 .. L
               PROVE  SaidBy(WW[k], providers') = SaidBy(W[k], providers)
    OBVIOUS
  <2>1. WW[k] = W[k]
    BY <1>3
  <2>2. ASSUME NEW entry \in Clash!Range(W[k])
        PROVE  Meaning(entry, providers') = Meaning(entry, providers)
    <3>1. PICK j \in DOMAIN W[k] : entry = W[k][j]
      BY <2>2 DEF Clash!Range
    <3>2. entry.set # <<>> => entry.set \in DOMAIN providers
      BY <1>2, <1>3, <3>1 DEF OwnNames
    <3>3. entry.set # <<>> => providers'[entry.set] = providers[entry.set]
      BY <3>2 DEF Appended
    <3> QED
      BY <3>3 DEF Meaning
  <2> HIDE DEF WW
  <2> QED
    BY <2>1, <2>2 DEF SaidBy
<1> HIDE DEF WW, L
<1>7. SaidBy(WW[L + 1], providers') = SaidBy(piece, providers')
  BY <1>3
<1> QED
  <2> DEFINE r(k) == SaidBy(W[k], providers)
             rr(k) == SaidBy(WW[k], providers')
             x == SaidBy(piece, providers')
  <2>1. /\ Clash!Routed = [k \in 1 .. L |-> r(k)] /\ Clash!Routed' = [k \in 1 .. L + 1 |-> rr(k)]
        /\ \A k \in 1 .. L : rr(k) = r(k)
        /\ rr(L + 1) = x
    BY <1>4, <1>5, <1>6, <1>7
  <2> HIDE DEF r, rr, x
  <2>2. Append([k \in 1 .. L |-> r(k)], x) = [k \in 1 .. L + 1 |-> rr(k)]
    <3>1. L \in Nat
      BY <1>3
    <3>2. [k \in 1 .. L |-> r(k)] \in Seq({r(k) : k \in 1 .. L} \cup {x})
      BY <3>1
    <3>3. Len([k \in 1 .. L |-> r(k)]) = L
      BY <3>1
    <3> QED
      BY <2>1, <3>1, <3>2, <3>3
  <2> QED
    BY <2>1, <2>2 DEF x

\* The rules that RuleStream routes for the current ruleset are the current
\* rules, and they say as much in either form.
LEMMA RoutesCurrentRules ==
  ASSUME target = "clash", ClashTyped, Clash!Loop
  PROVE  /\ Stream!Within(Item(Clash!Current).rules) = SaidAll(Clash!CurrentRules)
         /\ Len(SaidAll(Clash!CurrentRules)) = Len(Clash!CurrentRules)
         /\ {<<Clash!Current.group, Clash!Said(rule)>> : rule \in Clash!Range(Clash!CurrentRules)}
              = {<<Item(Clash!Current).group, SaidAll(Clash!CurrentRules)[k]>> :
                    k \in DOMAIN SaidAll(Clash!CurrentRules)}
<1> DEFINE rules == RulesOf(Clash!Current)
           current == Clash!CurrentRules
<1>1. /\ Clash!Current \in Loadable
      /\ current \in Seq(Clash!ClashRule)
      /\ current = IF Left = -1 \/ Len(rules) <= Left THEN rules ELSE SubSeq(rules, 1, Left)
  BY CurrentRulesFacts
<1>2. rules \in Seq(Clash!ClashRule)
  BY <1>1, RulesOfType
<1>3. Item(Clash!Current).rules = SaidAll(rules) /\ Item(Clash!Current).group = Clash!Current.group
  BY DEF Item
<1>4. Left = -1 \/ Left \in Nat
  BY DEF Left, ClashTyped
<1> HIDE DEF rules, current
<1>5. Len(rules) \in Nat /\ Len(SaidAll(rules)) = Len(rules)
  BY <1>2, SaidAllFacts
<1>6. Stream!Within(SaidAll(rules)) =
        IF Left = -1 \/ Len(SaidAll(rules)) <= Left THEN SaidAll(rules)
        ELSE SubSeq(SaidAll(rules), 1, Left)
  BY DEF Stream!Within, Left
<1>7. Stream!Within(SaidAll(rules)) = SaidAll(current)
  <2>1. CASE Left = -1 \/ Len(rules) <= Left
    BY <1>1, <1>5, <1>6, <2>1
  <2>2. CASE ~(Left = -1 \/ Len(rules) <= Left)
    <3>1. Left \in Nat /\ Left <= Len(rules)
      BY <1>4, <1>5, <2>2
    <3>2. SubSeq(SaidAll(rules), 1, Left) = SaidAll(SubSeq(rules, 1, Left))
      BY <1>2, <3>1, SaidAllFacts
    <3> QED
      BY <1>1, <1>5, <1>6, <2>2, <3>2
  <2> QED
    BY <2>1, <2>2
<1>8. {<<Clash!Current.group, Clash!Said(rule)>> : rule \in Clash!Range(current)}
        = {<<Clash!Current.group, SaidAll(current)[k]>> : k \in DOMAIN SaidAll(current)}
  <2>1. Clash!Range(current) = {current[k] : k \in DOMAIN current}
    BY DEF Clash!Range
  <2>2. DOMAIN SaidAll(current) = DOMAIN current
        /\ \A k \in DOMAIN current : SaidAll(current)[k] = Clash!Said(current[k])
    BY DEF SaidAll
  <2> QED
    BY <2>1, <2>2
<1>9. Len(SaidAll(current)) = Len(current)
  BY <1>1, SaidAllFacts
<1> QED
  BY <1>3, <1>7, <1>8, <1>9 DEF rules, current

\* A pass is a step of RuleStream.
LEMMA PassRoutes ==
  ASSUME target = "clash", target' = "clash", ClashTyped, Clash!ProvidersKeepTheirNames,
         Clash!Loop, NEW piece, Pass(piece)
  PROVE  Stream!Next
<1> DEFINE queue == QueueAfter(index)
           first == Item(Clash!Current)
           rules == SaidAll(Clash!CurrentRules)
<1>1. /\ Appended(piece) /\ UNCHANGED <<rulesets, limit>>
      /\ index' = index + 1
      /\ generated' = generated + Len(Clash!CurrentRules)
      /\ SaidBy(piece, providers')
           = {<<Clash!Current.group, Clash!Said(rule)>> : rule \in Clash!Range(Clash!CurrentRules)}
  BY DEF Pass, Appended, SaidBy
<1>2. /\ Len(rulesets) \in Nat /\ index \in 0 .. Len(rulesets) /\ index < Len(rulesets)
      /\ index' \in 0 .. Len(rulesets)
  BY <1>1 DEF ClashTyped, Clash!Loop
<1>3. Clash!Queue = queue /\ Clash!Queue' = QueueAfter(index')
  BY <1>1, <1>2, QueueIs
<1>4. queue # <<>> /\ Head(queue) = first /\ Tail(queue) = QueueAfter(index')
  <2> DEFINE f == [n \in 1 .. Len(rulesets) |-> Item(rulesets[n])]
             S == {f[n] : n \in 1 .. Len(rulesets)}
  <2>1. f \in [1 .. Len(rulesets) -> S] /\ \A n \in 1 .. Len(rulesets) : f[n] = Item(rulesets[n])
    OBVIOUS
  <2>2. f[index + 1] = first
    <3>1. index + 1 \in 1 .. Len(rulesets)
      BY <1>2
    <3> QED
      BY <3>1 DEF Clash!Current
  <2>3. ASSUME NEW n \in 0 .. Len(rulesets)
        PROVE  QueueAfter(n) = RestOf(f, Len(rulesets), n)
    <3>1. \A k \in 1 .. Len(rulesets) - n : n + k \in 1 .. Len(rulesets)
      BY <1>2
    <3> HIDE DEF f
    <3> QED
      BY <2>1, <3>1 DEF QueueAfter, RestOf
  <2> HIDE DEF f, S, first
  <2>4. queue = RestOf(f, Len(rulesets), index) /\ QueueAfter(index') = RestOf(f, Len(rulesets), index + 1)
    BY <1>1, <1>2, <2>3
  <2>5. /\ RestOf(f, Len(rulesets), index) # <<>>
        /\ Head(RestOf(f, Len(rulesets), index)) = f[index + 1]
        /\ Tail(RestOf(f, Len(rulesets), index)) = RestOf(f, Len(rulesets), index + 1)
    BY <1>2, <2>1, RestOfList, Zenon
  <2> HIDE DEF queue
  <2> QED
    BY <2>2, <2>4, <2>5, Zenon
<1>5. /\ Stream!Within(first.rules) = rules
      /\ Len(rules) = Len(Clash!CurrentRules)
      /\ SaidBy(piece, providers') = {<<first.group, rules[k]>> : k \in DOMAIN rules}
  BY <1>1, RoutesCurrentRules
<1>6. Clash!Routed' = Append(Clash!Routed, SaidBy(piece, providers'))
  BY <1>1, RoutedGrows
<1>7. /\ Left # 0
      /\ Left' = IF Left = -1 THEN -1 ELSE Left - Len(rules)
  <2>1. Len(Clash!CurrentRules) \in Nat /\ Left # 0
    BY CurrentRulesFacts
  <2>2. limit \in Nat /\ generated \in Nat /\ (limit = 0 \/ generated <= limit)
    BY DEF ClashTyped
  <2>3. limit' = limit /\ generated' = generated + Len(Clash!CurrentRules)
    BY <1>1
  <2> QED
    BY <1>5, <2>1, <2>2, <2>3 DEF Left
<1> HIDE DEF queue, first, rules
<1>8. \E f \in {Head(queue)} : \E r \in {Stream!Within(f.rules)} :
        /\ QueueAfter(index') = Tail(queue)
        /\ Left' = IF Left = -1 THEN -1 ELSE Left - Len(r)
        /\ Clash!Routed' = Append(Clash!Routed, {<<f.group, r[k]>> : k \in DOMAIN r})
  BY <1>4, <1>5, <1>6, <1>7
<1>9. Stream!Route
  BY <1>3, <1>4, <1>7, <1>8, Zenon DEF Stream!Route, Left
<1> QED
  BY <1>9 DEF Stream!Next

\* Every other step changes nothing that RuleStream sees.
LEMMA StillRoutesNothing ==
  ASSUME target = "clash", target' = "clash", ClashTyped, Clash!ProvidersKeepTheirNames,
         Clash!ResolutionKept, Still
  PROVE  UNCHANGED Stream!vars
<1>1. UNCHANGED <<rulesets, limit, index, generated, providers>>
  BY DEF Still
<1>2. Clash!Written' = Clash!Written
  BY StillKeeps
<1>3. Clash!Queue' = Clash!Queue
  BY <1>1 DEF Clash!Queue
<1>4. Clash!Routed' = Clash!Routed
  BY <1>1, <1>2 DEF Clash!Routed, Clash!Behind
<1> QED
  BY <1>1, <1>3, <1>4 DEF Stream!vars

\* Where the exporter starts, RuleStream starts.
LEMMA StreamStarts ==
  ASSUME target = "clash", Init
  PROVE  Stream!Init
<1>1. ClashTyped /\ Clash!Written = <<>> /\ index = 0 /\ generated = 0
  BY NothingWritten DEF Init, Clash!Init
<1>2. Clash!Routed = <<>>
  <2>1. DOMAIN <<>> = {}
    OBVIOUS
  <2> QED
    BY <1>1, <2>1 DEF Clash!Routed
<1>3. Clash!Queue \in Seq([group : STRING, rules : Seq(Stream!Rule)])
  <2> DEFINE S == [group : STRING, rules : Seq(Stream!Rule)]
  <2>1. \A ruleset \in Loadable : Item(ruleset) \in S
    <3> SUFFICES ASSUME NEW ruleset \in Loadable PROVE Item(ruleset) \in S
      OBVIOUS
    <3>1. ruleset.group \in STRING
      BY DEF Loadable, Ruleset
    <3>2. SaidAll(RulesOf(ruleset)) \in Seq(Stream!Rule)
      BY RulesOfType, SaidAllFacts
    <3> QED
      BY <3>1, <3>2 DEF Item
  <2>2. Len(rulesets) \in Nat /\ \A k \in 1 .. Len(rulesets) : rulesets[k] \in Loadable
    BY <1>1 DEF ClashTyped
  <2>3. Clash!Queue = [k \in 1 .. Len(rulesets) |-> Item(rulesets[k])]
    BY <1>1, <2>2, QueueIs DEF QueueAfter
  <2> HIDE DEF S
  <2>4. \A k \in 1 .. Len(rulesets) : Item(rulesets[k]) \in S
    BY <2>1, <2>2
  <2>5. Clash!Queue \in Seq(S)
    BY <2>2, <2>3, <2>4
  <2> QED
    BY <2>5 DEF S
<1>4. Left \in Nat \cup {-1}
  BY <1>1 DEF Left, ClashTyped
<1> QED
  BY <1>2, <1>3, <1>4 DEF Stream!Init, Left

\* For Clash, whatever providers the options make, under whatever names and
\* with or without a limit, the rules say what the rulesets say: the rules of
\* each ruleset for its group, each once, up to the limit.
THEOREM ClashImplementsRuleStream == Spec /\ target = "clash" => ImplementsRuleStream
<1> DEFINE forClash == target = "clash"
<1>1. Init /\ forClash => Stream!Init
  BY StreamStarts
<1>2. forClash /\ [Next]_vars => forClash'
  BY DEF Next, ToClash, ToSingbox, vars
<1>3. ClashInv /\ forClash /\ [Next]_vars => [Stream!Next]_Stream!vars
  <2> SUFFICES ASSUME ClashInv, forClash, [Next]_vars
               PROVE  Stream!Next \/ UNCHANGED Stream!vars
    OBVIOUS
  <2>1. target' = "clash" /\ ClashTyped /\ Clash!ProvidersKeepTheirNames /\ Clash!ResolutionKept
    BY <1>2 DEF ClashInv
  <2>2. CASE Still
    BY <2>1, <2>2, StillRoutesNothing
  <2>3. CASE UNCHANGED vars
    <3>1. Still
      BY <2>3 DEF vars, ofClash, Still
    <3> QED
      BY <2>2, <3>1
  <2>4. CASE Clash!Next
    BY <2>1, <2>2, <2>4, ClashSteps, PassRoutes
  <2> QED
    BY <2>3, <2>4 DEF Next, ToClash, ToSingbox
<1>4. Spec /\ forClash => Stream!Spec
  <2> HIDE DEF forClash
  <2> QED
    BY <1>1, <1>2, <1>3, ClashAlways, PTL DEF Spec, Stream!Spec
<1> QED
  BY <1>4 DEF ImplementsRuleStream
-----------------------------------------------------------------------------
(* sing-box: rules and rulesets, as for Clash *)

\* Both exporters read the same rules.
LEMMA SameReaders ==
  /\ Singbox!Rule = Clash!Rule
  /\ \A list : Singbox!MergeAdjacentRulesets(list) = Clash!MergeAdjacentRulesets(list)
  /\ \A content, format :
        Singbox!ParseCommonRules(content, format) = Clash!ParseCommonRules(content, format)
<1>1. Singbox!Rule = Clash!Rule
  BY DEF Singbox!Rule, Clash!Rule, Singbox!SupportedKinds, Clash!SupportedKinds
<1>2. \A list : Singbox!MergeAdjacentRulesets(list) = Clash!MergeAdjacentRulesets(list)
  BY DEF Singbox!MergeAdjacentRulesets, Clash!MergeAdjacentRulesets, Singbox!MergeInto,
         Clash!MergeInto, Singbox!Mergeable, Clash!Mergeable, Singbox!Last, Clash!Last,
         Singbox!Front, Clash!Front
<1>3. ASSUME NEW content, NEW format
      PROVE  Singbox!ParseCommonRules(content, format) = Clash!ParseCommonRules(content, format)
  BY DEF Singbox!ParseCommonRules, Clash!ParseCommonRules, Singbox!IsInline, Clash!IsInline,
         Singbox!Line, Clash!Line, Singbox!Rule, Clash!Rule, Singbox!SupportedKinds,
         Clash!SupportedKinds, Singbox!Filter, Clash!Filter, Singbox!Among, Clash!Among,
         Singbox!ParseCommonLine, Clash!ParseCommonLine, Singbox!Ignored, Clash!Ignored,
         Singbox!NoRule, Clash!NoRule, Singbox!RuleLine, Clash!RuleLine, Singbox!DomainLine,
         Clash!DomainLine, Singbox!NetworkLine, Clash!NetworkLine, Singbox!IsNetwork,
         Clash!IsNetwork, Singbox!ClassicalLine, Clash!ClassicalLine, Singbox!KindOf,
         Clash!KindOf, Singbox!None, Clash!None, Singbox!LinesOf, Clash!LinesOf,
         Singbox!IsYaml, Clash!IsYaml, Singbox!LinesUnder, Clash!LinesUnder,
         Singbox!FlattenSeq, Clash!FlattenSeq, Singbox!RawLines, Clash!RawLines
<1> QED
  BY <1>1, <1>2, <1>3

\* Filters of the exporter for sing-box.
LEMMA SingboxFilter ==
  ASSUME NEW S, NEW s \in Seq(S), NEW kept
  PROVE  /\ Singbox!Filter(s, kept) = Filter(s, kept)
         /\ Singbox!Filter(s, kept) \in Seq(S \cap kept)
         /\ Singbox!Filter(s, kept) \in Seq(kept)
         /\ Len(Singbox!Filter(s, kept)) <= Len(s)
         /\ Singbox!Range(Singbox!Filter(s, kept)) = Singbox!Range(s) \cap kept
<1>1. Singbox!Filter(s, kept) = Filter(s, kept)
  BY DEF Singbox!Filter, Filter, Singbox!Among, Among
<1>2. /\ Filter(s, kept) \in Seq(S \cap kept)
      /\ Len(Filter(s, kept)) <= Len(s)
      /\ Range(Filter(s, kept)) = Range(s) \cap kept
  BY FilterElements
<1>3. \A t : Singbox!Range(t) = Range(t)
  BY DEF Singbox!Range, Range
<1>4. \A t \in Seq(S \cap kept) : t \in Seq(kept)
  OBVIOUS
<1> QED
  BY <1>1, <1>2, <1>3, <1>4

\* A rule for sing-box is a rule.
LEMMA SingboxRuleType ==
  ASSUME NEW rule \in Singbox!SingboxRule
  PROVE  /\ rule \in Singbox!Rule
         /\ rule.kind \in STRING /\ rule.value \in Seq(STRING)
         /\ rule.kind \in Singbox!SupportedKinds
<1>1. rule \in Singbox!Rule
  BY DEF Singbox!SingboxRule
<1>2. Singbox!SupportedKinds = SupportedKinds
  BY DEF Singbox!SupportedKinds, SupportedKinds
<1> QED
  BY <1>1, <1>2, StringAssumption DEF Singbox!Rule

\* What is said, and the tag of a rule set, are typed; a tag starts with a kind.
LEMMA SaidType ==
  ASSUME NEW rule \in Singbox!SingboxRule
  PROVE  /\ Singbox!Said(rule) \in [kind : STRING, value : Seq(STRING)]
         /\ Singbox!Tag(rule) \in Seq(STRING)
         /\ Singbox!Tag(rule) # <<>>
         /\ Head(Singbox!Tag(rule)) = rule.kind /\ Singbox!Tag(rule)[1] = rule.kind
         /\ Tail(Singbox!Tag(rule)) = rule.value
<1>1. rule.kind \in STRING /\ rule.value \in Seq(STRING)
  BY SingboxRuleType
<1>2. "DST-PORT" \in STRING
  BY StringAssumption DEF SupportedKinds
<1>3. Singbox!Said(rule) \in [kind : STRING, value : Seq(STRING)]
  BY <1>1, <1>2 DEF Singbox!Said
<1> DEFINE tag == <<rule.kind>> \o rule.value
<1>4. /\ tag \in Seq(STRING) /\ tag # <<>> /\ Len(tag) = Len(rule.value) + 1
      /\ tag[1] = rule.kind
      /\ \A k \in 1 .. Len(rule.value) : tag[k + 1] = rule.value[k]
  BY <1>1
<1> HIDE DEF tag
<1>5. Head(tag) = rule.kind
  BY <1>4
<1>6. Tail(tag) = rule.value
  <2>1. /\ Tail(tag) \in Seq(STRING) /\ Len(Tail(tag)) = Len(rule.value)
        /\ \A k \in 1 .. Len(rule.value) : Tail(tag)[k] = tag[k + 1]
    BY <1>1, <1>4
  <2> QED
    BY <1>1, <1>4, <2>1
<1> QED
  BY <1>3, <1>4, <1>5, <1>6 DEF Singbox!Tag, tag

-----------------------------------------------------------------------------
(* sing-box: rule objects *)

\* An object that stands for one rule outside rule sets.
PlainObject(said, group) == [set |-> <<>>, fields |-> {said}, group |-> group]

\* How an object changes when a rule is pushed into it.
Pushed(objects, k, rule) ==
    [objects EXCEPT ![k].fields =
        {f \in @ : rule.kind = "IP-VERSION" => f.kind # "IP-VERSION"} \cup {Singbox!Said(rule)}]

\* How AddRule changes objects: not, by one at the end, or in one plain one.
LEMMA AddRuleCases ==
  ASSUME NEW objects \in Seq(Singbox!Object), NEW rule \in Singbox!SingboxRule
  PROVE  \/ Singbox!IsFinal(rule) /\ Singbox!AddRule(objects, rule) = objects
         \/ /\ ~Singbox!IsFinal(rule)
            /\ rule.kind \in Transforms["singbox"]
            /\ Singbox!AddRule(objects, rule)
                 = Append(objects, Singbox!SetObject(Singbox!Tag(rule), Singbox!Current.group))
         \/ /\ ~Singbox!IsFinal(rule)
            /\ Singbox!AddRule(objects, rule)
                 = Append(objects, PlainObject(Singbox!Said(rule), Singbox!Current.group))
         \/ /\ ~Singbox!IsFinal(rule)
            /\ \E k \in DOMAIN objects :
                 /\ objects[k].set = <<>>
                 /\ Singbox!AddRule(objects, rule) = Pushed(objects, k, rule)
<1>1. CASE Singbox!IsFinal(rule)
  BY <1>1 DEF Singbox!AddRule
<1>2. CASE ~Singbox!IsFinal(rule) /\ rule.kind \in Transforms["singbox"]
  BY <1>2 DEF Singbox!AddRule
<1>3. CASE ~Singbox!IsFinal(rule) /\ rule.kind \notin Transforms["singbox"]
  <2>1. Singbox!AddRule(objects, rule)
          = Singbox!PushSingboxRule(objects, rule, Singbox!Current.group)
    BY <1>3 DEF Singbox!AddRule
  <2>2. CASE \A k \in DOMAIN objects : ~Singbox!IsPlain(objects[k])
    BY <1>3, <2>1, <2>2 DEF Singbox!PushSingboxRule, PlainObject
  <2>3. CASE \E k \in DOMAIN objects : Singbox!IsPlain(objects[k])
    <3> DEFINE plain == CHOOSE k \in DOMAIN objects : Singbox!IsPlain(objects[k])
    <3>1. plain \in DOMAIN objects /\ objects[plain].set = <<>>
      BY <2>3 DEF Singbox!IsPlain
    <3>2. Singbox!PushSingboxRule(objects, rule, Singbox!Current.group)
            = Pushed(objects, plain, rule)
      BY <2>3 DEF Singbox!PushSingboxRule, Pushed
    <3> HIDE DEF plain
    <3> QED
      BY <1>3, <2>1, <3>1, <3>2
  <2> QED
    BY <2>2, <2>3
<1> QED
  BY <1>1, <1>2, <1>3

\* The other objects, the sets and the groups stay.
LEMMA PushedFacts ==
  ASSUME NEW objects \in Seq(Singbox!Object), NEW k \in DOMAIN objects,
         NEW rule \in Singbox!SingboxRule
  PROVE  /\ Pushed(objects, k, rule) \in Seq(Singbox!Object)
         /\ DOMAIN Pushed(objects, k, rule) = DOMAIN objects
         /\ \A j \in DOMAIN objects :
              /\ Pushed(objects, k, rule)[j].set = objects[j].set
              /\ Pushed(objects, k, rule)[j].group = objects[j].group
              /\ Pushed(objects, k, rule)[j].fields =
                   IF j = k
                   THEN {f \in objects[j].fields : rule.kind = "IP-VERSION" => f.kind # "IP-VERSION"}
                          \cup {Singbox!Said(rule)}
                   ELSE objects[j].fields
<1> DEFINE kept == {f \in objects[k].fields : rule.kind = "IP-VERSION" => f.kind # "IP-VERSION"}
                     \cup {Singbox!Said(rule)}
           changed == [objects[k] EXCEPT !.fields = kept]
<1>1. Pushed(objects, k, rule) = [objects EXCEPT ![k] = changed]
  BY DEF Pushed
<1>2. objects[k] \in Singbox!Object
  OBVIOUS
<1>3. kept \subseteq [kind : STRING, value : Seq(STRING)]
  BY <1>2, SaidType DEF Singbox!Object
<1> HIDE DEF kept
<1>4. /\ changed \in Singbox!Object
      /\ changed.set = objects[k].set /\ changed.group = objects[k].group
      /\ changed.fields = kept
  BY <1>2, <1>3 DEF Singbox!Object
<1> HIDE DEF changed
<1>5. /\ [objects EXCEPT ![k] = changed] \in Seq(Singbox!Object)
      /\ DOMAIN [objects EXCEPT ![k] = changed] = DOMAIN objects
      /\ \A j \in DOMAIN objects :
           [objects EXCEPT ![k] = changed][j] = IF j = k THEN changed ELSE objects[j]
  BY <1>4
<1> QED
  BY <1>1, <1>4, <1>5 DEF kept

\* Objects stay objects.
LEMMA AddRuleType ==
  ASSUME NEW objects \in Seq(Singbox!Object), NEW rule \in Singbox!SingboxRule,
         Singbox!Current.group \in STRING
  PROVE  Singbox!AddRule(objects, rule) \in Seq(Singbox!Object)
<1> DEFINE group == Singbox!Current.group
<1>1. /\ Singbox!SetObject(Singbox!Tag(rule), group) \in Singbox!Object
      /\ PlainObject(Singbox!Said(rule), group) \in Singbox!Object
  <2>1. <<>> \in Seq(STRING)
    OBVIOUS
  <2> QED
    BY <2>1, SaidType DEF Singbox!SetObject, PlainObject, Singbox!Object
<1>2. \A x \in Singbox!Object : Append(objects, x) \in Seq(Singbox!Object)
  OBVIOUS
<1>3. \A k \in DOMAIN objects : Pushed(objects, k, rule) \in Seq(Singbox!Object)
  BY PushedFacts
<1> QED
  BY <1>1, <1>2, <1>3, AddRuleCases

-----------------------------------------------------------------------------
(* sing-box: recursions over the rules of a list *)

\* A rule set is added at the end, if at all.
LEMMA AddRuleSetType ==
  ASSUME NEW sets \in Seq(Singbox!RuleSet), NEW rule \in Singbox!SingboxRule
  PROVE  Singbox!AddRuleSet(sets, rule) \in Seq(Singbox!RuleSet)
<1>1. Singbox!RulesetHttpClient \in STRING
  BY SingboxAssumption
<1>2. [tag |-> Singbox!Tag(rule), client |-> Singbox!RulesetHttpClient] \in Singbox!RuleSet
  BY <1>1, SaidType DEF Singbox!RuleSet
<1>3. \A x \in Singbox!RuleSet : Append(sets, x) \in Seq(Singbox!RuleSet)
  OBVIOUS
<1> QED
  BY <1>2, <1>3 DEF Singbox!AddRuleSet

\* g is what ObjectsOf computes step by step.
ObjectSteps(g, rules) ==
    /\ Singbox!ObjectsOf(rules) = g[Len(rules)]
    /\ g[0] = <<>>
    /\ \A n \in 1 .. Len(rules) : g[n] = Singbox!AddRule(g[n - 1], rules[n])

\* Objects are computed by the recursion that defines them.
LEMMA ObjectRecursion ==
  ASSUME Singbox!Current.group \in STRING, NEW rules \in Seq(Singbox!SingboxRule)
  PROVE  \E g : ObjectSteps(g, rules)
<1> DEFINE N == Len(rules)
           S == Seq(Singbox!Object)
           next(n, before) == Singbox!AddRule(before, rules[n])
           step == [p \in (1 .. N) \X S |-> next(p[1], p[2])]
<1>1. N \in Nat /\ \A n \in 1 .. N : rules[n] \in Singbox!SingboxRule
  OBVIOUS
<1>2. step \in [(1 .. N) \X S -> S]
  BY <1>1, AddRuleType
<1>3. PICK f : f \in Recursions(N, S, <<>>, step)
  <2>1. <<>> \in S /\ step \in Stepping(N, S)
    BY <1>2 DEF Stepping
  <2> HIDE DEF step, N, S
  <2> QED
    BY <1>1, <2>1, RecursionExists
<1>4. /\ f \in [0 .. N -> S]
      /\ f[0] = <<>>
      /\ \A n \in 1 .. N : f[n] = step[<<n, f[n - 1]>>]
  BY <1>3 DEF Recursions
<1>5. \A n \in 1 .. N : f[n] = next(n, f[n - 1])
  <2> SUFFICES ASSUME NEW n \in 1 .. N PROVE f[n] = next(n, f[n - 1])
    OBVIOUS
  <2> HIDE DEF N, S, next
  <2>1. n - 1 \in 0 .. N
    BY <1>1
  <2>2. <<n, f[n - 1]>> \in (1 .. N) \X S
    BY <1>4, <2>1
  <2> QED
    BY <1>4, <2>2
<1> DEFINE isMeant(h) == h = [n \in 0 .. N |-> IF n = 0 THEN <<>> ELSE next(n, h[n - 1])]
           c == CHOOSE h : isMeant(h)
<1>6. isMeant(f)
  <2> HIDE DEF N, S, next
  <2> QED
    BY <1>1, <1>4, <1>5
<1>7. isMeant(c)
  <2> HIDE DEF isMeant
  <2> QED
    BY <1>6
<1>8. Singbox!ObjectsOf(rules) = c[N]
  BY DEF Singbox!ObjectsOf
<1> HIDE DEF c
<1>9. c[0] = <<>>
  <2> HIDE DEF N, next
  <2> QED
    BY <1>1, <1>7
<1>10. \A n \in 1 .. N : c[n] = next(n, c[n - 1])
  <2> HIDE DEF N, next
  <2>1. \A n \in 1 .. N : n \in 0 .. N /\ n # 0
    BY <1>1
  <2> QED
    BY <1>7, <2>1
<1> QED
  BY <1>8, <1>9, <1>10 DEF ObjectSteps

\* g is what RuleSetsWith computes step by step.
SetSteps(g, sets, rules) ==
    /\ Singbox!RuleSetsWith(sets, rules) = g[Len(rules)]
    /\ g[0] = sets
    /\ \A n \in 1 .. Len(rules) : g[n] = Singbox!AddRuleSet(g[n - 1], rules[n])

\* So are rule sets.
LEMMA SetRecursion ==
  ASSUME NEW sets \in Seq(Singbox!RuleSet), NEW rules \in Seq(Singbox!SingboxRule)
  PROVE  \E g : SetSteps(g, sets, rules)
<1> DEFINE N == Len(rules)
           S == Seq(Singbox!RuleSet)
           next(n, before) == Singbox!AddRuleSet(before, rules[n])
           step == [p \in (1 .. N) \X S |-> next(p[1], p[2])]
<1>1. N \in Nat /\ \A n \in 1 .. N : rules[n] \in Singbox!SingboxRule
  OBVIOUS
<1>2. step \in [(1 .. N) \X S -> S]
  BY <1>1, AddRuleSetType
<1>3. PICK f : f \in Recursions(N, S, sets, step)
  <2>1. sets \in S /\ step \in Stepping(N, S)
    BY <1>2 DEF Stepping
  <2> HIDE DEF step, N, S
  <2> QED
    BY <1>1, <2>1, RecursionExists
<1>4. /\ f \in [0 .. N -> S]
      /\ f[0] = sets
      /\ \A n \in 1 .. N : f[n] = step[<<n, f[n - 1]>>]
  BY <1>3 DEF Recursions
<1>5. \A n \in 1 .. N : f[n] = next(n, f[n - 1])
  <2> SUFFICES ASSUME NEW n \in 1 .. N PROVE f[n] = next(n, f[n - 1])
    OBVIOUS
  <2> HIDE DEF N, S, next
  <2>1. n - 1 \in 0 .. N
    BY <1>1
  <2>2. <<n, f[n - 1]>> \in (1 .. N) \X S
    BY <1>4, <2>1
  <2> QED
    BY <1>4, <2>2
<1> DEFINE isMeant(h) == h = [n \in 0 .. N |-> IF n = 0 THEN sets ELSE next(n, h[n - 1])]
           c == CHOOSE h : isMeant(h)
<1>6. isMeant(f)
  <2> HIDE DEF N, S, next
  <2> QED
    BY <1>1, <1>4, <1>5
<1>7. isMeant(c)
  <2> HIDE DEF isMeant
  <2> QED
    BY <1>6
<1>8. Singbox!RuleSetsWith(sets, rules) = c[N]
  BY DEF Singbox!RuleSetsWith
<1> HIDE DEF c
<1>9. c[0] = sets
  <2> HIDE DEF N, next
  <2> QED
    BY <1>1, <1>7
<1>10. \A n \in 1 .. N : c[n] = next(n, c[n - 1])
  <2> HIDE DEF N, next
  <2>1. \A n \in 1 .. N : n \in 0 .. N /\ n # 0
    BY <1>1
  <2> QED
    BY <1>7, <2>1
<1> QED
  BY <1>8, <1>9, <1>10 DEF SetSteps

-----------------------------------------------------------------------------
(* sing-box: every rule set that is named is there *)

Distinct(sets) == \A r, s \in DOMAIN sets : sets[r].tag = sets[s].tag => r = s

\* Rule sets have been added at the end, under tags of their own.
Grown(after, before) ==
    /\ Len(before) <= Len(after)
    /\ \A k \in DOMAIN before : after[k] = before[k]
    /\ \A k \in DOMAIN after :
          k \in DOMAIN before \/ after[k].client = Singbox!RulesetHttpClient
    /\ Distinct(before) => Distinct(after)

\* The rule sets that objects name are there, and none is one of the modes.
Covered(objects, sets) ==
    \A k \in DOMAIN objects :
        objects[k].set # <<>> =>
            objects[k].set \in Singbox!TagsOf(sets) /\ objects[k].set[1] # "mode"

\* Rule sets that grow twice have grown.
LEMMA GrownAfterGrown ==
  ASSUME NEW a \in Seq(Singbox!RuleSet), NEW b \in Seq(Singbox!RuleSet),
         NEW c \in Seq(Singbox!RuleSet), Grown(b, a), Grown(c, b)
  PROVE  Grown(c, a)
<1>1. /\ DOMAIN a = 1 .. Len(a) /\ DOMAIN b = 1 .. Len(b) /\ DOMAIN c = 1 .. Len(c)
      /\ Len(a) \in Nat /\ Len(b) \in Nat /\ Len(c) \in Nat
  OBVIOUS
<1>2. Len(a) <= Len(b) /\ Len(b) <= Len(c)
  BY DEF Grown
<1>3. \A k \in DOMAIN a : k \in DOMAIN b
  BY <1>1, <1>2
<1>4. \A k \in DOMAIN a : c[k] = a[k]
  BY <1>3 DEF Grown
<1>5. \A k \in DOMAIN c : k \in DOMAIN a \/ c[k].client = Singbox!RulesetHttpClient
  BY DEF Grown
<1>6. Len(a) <= Len(c)
  BY <1>1, <1>2
<1>7. Distinct(a) => Distinct(c)
  BY DEF Grown
<1> QED
  BY <1>4, <1>5, <1>6, <1>7 DEF Grown

\* Rule sets that grow keep their tags.
LEMMA GrownKeepsTags ==
  ASSUME NEW a \in Seq(Singbox!RuleSet), NEW b \in Seq(Singbox!RuleSet), Grown(b, a)
  PROVE  Singbox!TagsOf(a) \subseteq Singbox!TagsOf(b)
<1>1. \A k \in DOMAIN a : k \in DOMAIN b /\ b[k] = a[k]
  <2>1. DOMAIN a = 1 .. Len(a) /\ DOMAIN b = 1 .. Len(b) /\ Len(a) \in Nat /\ Len(b) \in Nat
    OBVIOUS
  <2> QED
    BY <2>1 DEF Grown
<1> QED
  BY <1>1 DEF Singbox!TagsOf

\* A rule set is added under a tag of its own, and its tag is there.
LEMMA AddRuleSetGrows ==
  ASSUME NEW sets \in Seq(Singbox!RuleSet), NEW rule \in Singbox!SingboxRule
  PROVE  /\ Grown(Singbox!AddRuleSet(sets, rule), sets)
         /\ ~Singbox!IsFinal(rule) /\ rule.kind \in Transforms["singbox"] =>
                Singbox!Tag(rule) \in Singbox!TagsOf(Singbox!AddRuleSet(sets, rule))
<1>1. CASE Singbox!AddRuleSet(sets, rule) = sets
  <2>1. Grown(sets, sets)
    BY DEF Grown
  <2>2. ~Singbox!IsFinal(rule) /\ rule.kind \in Transforms["singbox"] =>
          Singbox!Tag(rule) \in Singbox!TagsOf(sets)
    <3> SUFFICES ASSUME ~Singbox!IsFinal(rule), rule.kind \in Transforms["singbox"],
                        Singbox!Tag(rule) \notin Singbox!TagsOf(sets)
                 PROVE  FALSE
      OBVIOUS
    <3> DEFINE added == [tag |-> Singbox!Tag(rule), client |-> Singbox!RulesetHttpClient]
    <3>1. Append(sets, added) = sets
      BY <1>1 DEF Singbox!AddRuleSet
    <3>2. Len(Append(sets, added)) = Len(sets) + 1 /\ Len(sets) \in Nat
      OBVIOUS
    <3> QED
      BY <3>1, <3>2
  <2> QED
    BY <1>1, <2>1, <2>2
<1>2. CASE Singbox!AddRuleSet(sets, rule) # sets
  <2> DEFINE new == [tag |-> Singbox!Tag(rule), client |-> Singbox!RulesetHttpClient]
             after == Append(sets, new)
  <2>1. /\ Singbox!AddRuleSet(sets, rule) = after
        /\ Singbox!Tag(rule) \notin Singbox!TagsOf(sets)
    BY <1>2 DEF Singbox!AddRuleSet
  <2>2. new.tag = Singbox!Tag(rule) /\ new.client = Singbox!RulesetHttpClient
    OBVIOUS
  <2> HIDE DEF new
  <2>3. /\ Len(after) = Len(sets) + 1 /\ Len(sets) \in Nat
        /\ DOMAIN sets = 1 .. Len(sets) /\ DOMAIN after = 1 .. Len(sets) + 1
        /\ \A k \in DOMAIN sets : after[k] = sets[k]
        /\ after[Len(sets) + 1] = new
    OBVIOUS
  <2> HIDE DEF after
  <2>4. \A k \in DOMAIN after : k \in DOMAIN sets \/ k = Len(sets) + 1
    BY <2>3
  <2>5. \A k \in DOMAIN sets : sets[k].tag # Singbox!Tag(rule)
    BY <2>1 DEF Singbox!TagsOf
  <2>6. Distinct(sets) => Distinct(after)
    BY <2>2, <2>3, <2>4, <2>5 DEF Distinct
  <2>7. Grown(after, sets)
    BY <2>2, <2>3, <2>4, <2>6 DEF Grown
  <2>8. Singbox!Tag(rule) \in Singbox!TagsOf(after)
    <3>1. Len(sets) + 1 \in DOMAIN after
      BY <2>3
    <3> QED
      BY <2>2, <2>3, <3>1 DEF Singbox!TagsOf
  <2> QED
    BY <2>1, <2>7, <2>8
<1> QED
  BY <1>1, <1>2

\* A rule and the rule set it may need go together.
LEMMA CoveredStep ==
  ASSUME NEW objects \in Seq(Singbox!Object), NEW sets \in Seq(Singbox!RuleSet),
         NEW rule \in Singbox!SingboxRule, Covered(objects, sets)
  PROVE  Covered(Singbox!AddRule(objects, rule), Singbox!AddRuleSet(sets, rule))
<1> DEFINE after == Singbox!AddRuleSet(sets, rule)
           tag == Singbox!Tag(rule)
<1>1. Singbox!TagsOf(sets) \subseteq Singbox!TagsOf(after)
  BY AddRuleSetType, AddRuleSetGrows, GrownKeepsTags
<1>2. /\ ~Singbox!IsFinal(rule) /\ rule.kind \in Transforms["singbox"] => tag \in Singbox!TagsOf(after)
      /\ tag[1] # "mode"
  <2>1. tag[1] # "mode"
    <3>1. tag[1] = rule.kind /\ rule.kind \in Singbox!SupportedKinds
      BY SaidType, SingboxRuleType
    <3> QED
      BY <3>1 DEF Singbox!SupportedKinds
  <2> QED
    BY <2>1, AddRuleSetGrows
<1> HIDE DEF after, tag
<1>3. Covered(objects, after)
  BY <1>1 DEF Covered
<1>4. ASSUME NEW x, x.set # <<>> => x.set \in Singbox!TagsOf(after) /\ x.set[1] # "mode"
      PROVE  Covered(Append(objects, x), after)
  <2>1. /\ DOMAIN objects = 1 .. Len(objects) /\ Len(objects) \in Nat
        /\ DOMAIN Append(objects, x) = 1 .. Len(objects) + 1
        /\ \A k \in 1 .. Len(objects) : Append(objects, x)[k] = objects[k]
        /\ Append(objects, x)[Len(objects) + 1] = x
    OBVIOUS
  <2> QED
    BY <1>3, <1>4, <2>1 DEF Covered
<1>5. CASE Singbox!AddRule(objects, rule) = objects
  BY <1>3, <1>5 DEF after
<1>6. CASE /\ ~Singbox!IsFinal(rule)
           /\ rule.kind \in Transforms["singbox"]
           /\ Singbox!AddRule(objects, rule)
                = Append(objects, Singbox!SetObject(Singbox!Tag(rule), Singbox!Current.group))
  <2>1. Singbox!SetObject(Singbox!Tag(rule), Singbox!Current.group).set = tag
    BY DEF Singbox!SetObject, tag
  <2> QED
    BY <1>2, <1>4, <1>6, <2>1 DEF after
<1>7. CASE Singbox!AddRule(objects, rule)
             = Append(objects, PlainObject(Singbox!Said(rule), Singbox!Current.group))
  <2>1. PlainObject(Singbox!Said(rule), Singbox!Current.group).set = <<>>
    BY DEF PlainObject
  <2> QED
    BY <1>4, <1>7, <2>1 DEF after
<1>8. ASSUME NEW k \in DOMAIN objects, Singbox!AddRule(objects, rule) = Pushed(objects, k, rule)
      PROVE  Covered(Singbox!AddRule(objects, rule), Singbox!AddRuleSet(sets, rule))
  <2>1. /\ DOMAIN Pushed(objects, k, rule) = DOMAIN objects
        /\ \A j \in DOMAIN objects : Pushed(objects, k, rule)[j].set = objects[j].set
    BY PushedFacts, ZenonT(60)
  <2> QED
    BY <1>3, <1>8, <2>1 DEF Covered, after
<1> QED
  BY <1>5, <1>6, <1>7, <1>8, AddRuleCases

\* So it is for all rules of a list.
LEMMA ListIsCovered ==
  ASSUME NEW rules \in Seq(Singbox!SingboxRule), NEW sets \in Seq(Singbox!RuleSet),
         Singbox!Current.group \in STRING
  PROVE  /\ Singbox!ObjectsOf(rules) \in Seq(Singbox!Object)
         /\ Singbox!RuleSetsWith(sets, rules) \in Seq(Singbox!RuleSet)
         /\ Covered(Singbox!ObjectsOf(rules), Singbox!RuleSetsWith(sets, rules))
         /\ Grown(Singbox!RuleSetsWith(sets, rules), sets)
<1>1. PICK g : ObjectSteps(g, rules)
  BY ObjectRecursion
<1>2. PICK h : SetSteps(h, sets, rules)
  BY SetRecursion
<1> DEFINE N == Len(rules)
           good(objects, after) ==
               /\ objects \in Seq(Singbox!Object) /\ after \in Seq(Singbox!RuleSet)
               /\ Covered(objects, after) /\ Grown(after, sets)
           T == {n \in 0 .. N : good(g[n], h[n])}
<1>3. N \in Nat /\ \A n \in 1 .. N : rules[n] \in Singbox!SingboxRule
  OBVIOUS
<1>4. /\ Singbox!ObjectsOf(rules) = g[N] /\ g[0] = <<>>
      /\ \A n \in 1 .. N : g[n] = Singbox!AddRule(g[n - 1], rules[n])
      /\ Singbox!RuleSetsWith(sets, rules) = h[N] /\ h[0] = sets
      /\ \A n \in 1 .. N : h[n] = Singbox!AddRuleSet(h[n - 1], rules[n])
  BY <1>1, <1>2 DEF ObjectSteps, SetSteps
<1>5. 0 \in T
  <2>1. <<>> \in Seq(Singbox!Object) /\ DOMAIN <<>> = {}
    OBVIOUS
  <2>2. Covered(<<>>, sets) /\ Grown(sets, sets)
    BY <2>1 DEF Covered, Grown
  <2>3. good(g[0], h[0])
    BY <1>4, <2>1, <2>2
  <2> HIDE DEF good
  <2> QED
    BY <1>3, <2>3
<1>6. ASSUME NEW n \in 0 .. N - 1, n \in T
      PROVE  n + 1 \in T
  <2>1. n + 1 \in 1 .. N /\ (n + 1) - 1 = n /\ n + 1 \in 0 .. N
    BY <1>3
  <2>2. rules[n + 1] \in Singbox!SingboxRule
    BY <1>3, <2>1
  <2> HIDE DEF N
  <2>3. g[n + 1] = Singbox!AddRule(g[n], rules[n + 1])
    <3>1. g[n + 1] = Singbox!AddRule(g[(n + 1) - 1], rules[n + 1])
      BY <1>4, <2>1
    <3> QED
      BY <2>1, <3>1
  <2>4. h[n + 1] = Singbox!AddRuleSet(h[n], rules[n + 1])
    <3>1. h[n + 1] = Singbox!AddRuleSet(h[(n + 1) - 1], rules[n + 1])
      BY <1>4, <2>1
    <3> QED
      BY <2>1, <3>1
  <2>5. good(g[n], h[n])
    BY <1>6
  <2>6. g[n + 1] \in Seq(Singbox!Object) /\ h[n + 1] \in Seq(Singbox!RuleSet)
    BY <2>2, <2>3, <2>4, <2>5, AddRuleType, AddRuleSetType
  <2>7. Covered(g[n + 1], h[n + 1])
    BY <2>2, <2>3, <2>4, <2>5, CoveredStep
  <2>8. Grown(h[n + 1], sets)
    <3>1. Grown(h[n + 1], h[n])
      BY <2>2, <2>4, <2>5, AddRuleSetGrows
    <3> QED
      BY <2>5, <2>6, <3>1, GrownAfterGrown
  <2>9. good(g[n + 1], h[n + 1])
    BY <2>6, <2>7, <2>8
  <2> HIDE DEF good
  <2> QED
    BY <2>1, <2>9
<1>7. \A n \in 0 .. N : n \in T
  <2> HIDE DEF T, N
  <2> QED
    BY <1>3, <1>5, <1>6, BoundedInduction
<1>8. N \in 0 .. N
  BY <1>3
<1>9. good(g[N], h[N])
  BY <1>7, <1>8
<1> QED
  BY <1>4, <1>9

-----------------------------------------------------------------------------
(* sing-box: the state *)

\* Lengths and types of the state of an export for sing-box.
SingboxTyped ==
    /\ "singbox" \in Targets /\ base \in Bases["singbox"]
    /\ nodes \in NodeLists /\ groups \in GroupLists
    /\ limit \in Nat /\ generated \in Nat /\ (limit # 0 => generated <= limit)
    /\ rulesets \in Seq(Loadable)
    /\ index \in 0 .. Len(rulesets)
    /\ output \in Seq(Seq(Singbox!Object))
    /\ ruleSets \in Seq(Singbox!RuleSet)
    /\ outcome = "outbounds" => output = base.rules
    /\ outcome = "rules" => options.generate
    /\ Singbox!Started => Singbox!BaseLength <= Len(output)

\* The rules of a ruleset, before the limit.
SingboxRulesOf(ruleset) ==
    Singbox!Filter(Singbox!ParseCommonRules(ruleset.content, ruleset.format), Singbox!SingboxRule)

\* What is read from a ruleset are sing-box rules, from an inline one at most one.
LEMMA SingboxRulesOfType ==
  ASSUME NEW ruleset \in Loadable
  PROVE  /\ SingboxRulesOf(ruleset) \in Seq(Singbox!SingboxRule)
         /\ Singbox!IsInline(ruleset.content) => Len(SingboxRulesOf(ruleset)) <= 1
<1> DEFINE parsed == Singbox!ParseCommonRules(ruleset.content, ruleset.format)
           f == Singbox!Filter(parsed, Singbox!SingboxRule)
<1>1. /\ ruleset.content \in Seq(Document) \ {<<>>}
      /\ Singbox!IsInline(ruleset.content) =>
           Clash!IsInline(ruleset.content) /\ Len(ruleset.content[1].lines) = 1
  BY DEF Loadable, Ruleset, IsInline, Singbox!IsInline, Clash!IsInline
<1>2. /\ parsed \in Seq(Singbox!Rule)
      /\ Singbox!IsInline(ruleset.content) => Len(parsed) <= 1
  <2>1. parsed = Clash!ParseCommonRules(ruleset.content, ruleset.format)
    BY SameReaders
  <2> HIDE DEF parsed
  <2> QED
    BY <1>1, <2>1, ParseType, SameReaders
<1> HIDE DEF parsed
<1>3. f \in Seq(Singbox!SingboxRule) /\ Len(f) <= Len(parsed)
  BY <1>2, SingboxFilter
<1>4. SingboxRulesOf(ruleset) = f
  BY DEF SingboxRulesOf, parsed
<1> HIDE DEF f
<1>5. Len(f) \in Nat /\ Len(parsed) \in Nat
  BY <1>2, <1>3
<1> QED
  BY <1>2, <1>3, <1>4, <1>5

\* The rules of the current ruleset, cut off at what is left unless inline.
LEMMA SingboxRulesFacts ==
  ASSUME SingboxTyped, index < Len(rulesets), ~Singbox!Exhausted
  PROVE  /\ Singbox!Current \in Loadable
         /\ Singbox!Current.group \in STRING
         /\ Left # 0 /\ Left \in Int /\ (Left = -1 \/ Left > 0)
         /\ Singbox!CurrentRules \in Seq(Singbox!SingboxRule)
         /\ Singbox!CurrentRules =
              IF Left = -1 \/ Len(SingboxRulesOf(Singbox!Current)) <= Left
              THEN SingboxRulesOf(Singbox!Current)
              ELSE SubSeq(SingboxRulesOf(Singbox!Current), 1, Left)
         /\ limit = 0 \/ generated + Len(Singbox!CurrentRules) <= limit
<1> DEFINE rules == SingboxRulesOf(Singbox!Current)
<1>1. Singbox!Current \in Loadable
  BY DEF SingboxTyped, Singbox!Current
<1>2. /\ rules \in Seq(Singbox!SingboxRule)
      /\ Singbox!IsInline(Singbox!Current.content) => Len(rules) <= 1
  BY <1>1, SingboxRulesOfType
<1>3. Len(rules) \in Nat
  BY <1>2
<1>4. /\ limit \in Nat /\ generated \in Nat
      /\ limit # 0 => generated < limit
  BY DEF SingboxTyped, Singbox!Exhausted
<1>5. Singbox!CurrentRules =
        IF Singbox!IsInline(Singbox!Current.content) THEN rules
        ELSE IF Singbox!Remaining = 0 \/ Len(rules) <= Singbox!Remaining THEN rules
        ELSE SubSeq(rules, 1, Singbox!Remaining)
  BY DEF Singbox!CurrentRules, Singbox!Limited, Singbox!UpTo, SingboxRulesOf
<1> HIDE DEF rules
<1>6. Singbox!CurrentRules =
        IF Left = -1 \/ Len(rules) <= Left THEN rules ELSE SubSeq(rules, 1, Left)
  BY <1>2, <1>3, <1>4, <1>5 DEF Left, Singbox!Remaining
<1>7. Left \in Int /\ Left # 0 /\ (Left = -1 \/ Left > 0)
  BY <1>4 DEF Left
<1>8. /\ Singbox!CurrentRules \in Seq(Singbox!SingboxRule)
      /\ Left = -1 \/ Len(Singbox!CurrentRules) <= Left
  BY <1>2, <1>3, <1>6, <1>7
<1>9. Singbox!Current.group \in STRING
  BY <1>1 DEF Loadable, Ruleset
<1> QED
  BY <1>1, <1>4, <1>6, <1>7, <1>8, <1>9 DEF Left, rules

-----------------------------------------------------------------------------
(* sing-box: outbounds *)

OutboundType == [type : STRING \cup {"direct", "block", "selector", "urltest"},
                 tag : STRING \cup {"DIRECT", "REJECT", "GLOBAL"}]

TagsIn(all) == {outbound.tag : outbound \in Clash!Range(all)}

\* The outbounds that others refer to are among those of any configuration.
LEMMA OutboundsFacts ==
  ASSUME SingboxTyped
  PROVE  /\ Singbox!Outbounds \in Seq(OutboundType)
         /\ "DIRECT" \in TagsIn(Singbox!Outbounds) /\ "REJECT" \in TagsIn(Singbox!Outbounds)
         /\ groups = <<>> => "GLOBAL" \in TagsIn(Singbox!Outbounds)
         /\ groups # <<>> => groups[1].name \in TagsIn(Singbox!Outbounds)
         /\ options.modes => "GLOBAL" \in TagsIn(Singbox!Outbounds)
<1> DEFINE NamedItem == [name : STRING, kind : STRING]
           fixed == <<Singbox!Outbound("direct", "DIRECT"), Singbox!Outbound("block", "REJECT")>>
           wanted == {node \in Singbox!Range(nodes) : node.kind # "snell"}
           exported == Singbox!Filter(nodes, wanted)
           proxies == [k \in DOMAIN exported |-> Singbox!Outbound(exported[k].kind, exported[k].name)]
           ofGroups ==
             IF groups = <<>> THEN <<Singbox!Outbound("selector", "GLOBAL")>>
             ELSE [k \in DOMAIN groups |->
                     Singbox!Outbound(IF Singbox!IsSelector(groups[k]) THEN "selector" ELSE "urltest",
                                      groups[k].name)]
           ab == fixed \o proxies
           all == ab \o ofGroups
           global == Singbox!Outbound("selector", "GLOBAL")
<1>1. nodes \in Seq(NamedItem) /\ groups \in Seq(NamedItem)
  BY SingboxAssumption DEF SingboxTyped
<1>2. global \in OutboundType /\ global.tag = "GLOBAL"
  BY DEF Singbox!Outbound, OutboundType
<1>3. /\ fixed \in Seq(OutboundType)
      /\ \E outbound \in Clash!Range(fixed) : outbound.tag = "DIRECT"
      /\ \E outbound \in Clash!Range(fixed) : outbound.tag = "REJECT"
  <2>1. /\ Singbox!Outbound("direct", "DIRECT") \in OutboundType
        /\ Singbox!Outbound("block", "REJECT") \in OutboundType
        /\ Singbox!Outbound("direct", "DIRECT").tag = "DIRECT"
        /\ Singbox!Outbound("block", "REJECT").tag = "REJECT"
    BY DEF Singbox!Outbound, OutboundType
  <2>2. /\ fixed \in Seq(OutboundType) /\ DOMAIN fixed = {1, 2}
        /\ fixed[1] = Singbox!Outbound("direct", "DIRECT")
        /\ fixed[2] = Singbox!Outbound("block", "REJECT")
    BY <2>1
  <2> HIDE DEF fixed
  <2> QED
    BY <2>1, <2>2 DEF Clash!Range
<1>4. proxies \in Seq(OutboundType)
  <2>1. exported \in Seq(NamedItem)
    <3>1. exported \in Seq(NamedItem \cap wanted)
      BY <1>1, SingboxFilter, Zenon
    <3> HIDE DEF exported, wanted, NamedItem
    <3> QED
      BY <3>1
  <2> HIDE DEF exported
  <2>2. \A node \in NamedItem : Singbox!Outbound(node.kind, node.name) \in OutboundType
    BY DEF Singbox!Outbound, OutboundType
  <2> HIDE DEF NamedItem
  <2>3. /\ DOMAIN exported = 1 .. Len(exported) /\ Len(exported) \in Nat
        /\ \A k \in DOMAIN exported : exported[k] \in NamedItem
    BY <2>1
  <2> QED
    BY <2>2, <2>3
<1>5. /\ ofGroups \in Seq(OutboundType)
      /\ groups = <<>> => \E outbound \in Clash!Range(ofGroups) : outbound.tag = "GLOBAL"
      /\ groups # <<>> => \E outbound \in Clash!Range(ofGroups) : outbound.tag = groups[1].name
  <2>1. CASE groups = <<>>
    <3>1. ofGroups = <<global>>
      BY <2>1
    <3>2. <<global>> \in Seq(OutboundType) /\ 1 \in DOMAIN <<global>> /\ <<global>>[1] = global
      BY <1>2
    <3> HIDE DEF ofGroups, global
    <3> QED
      BY <1>2, <2>1, <3>1, <3>2 DEF Clash!Range
  <2>2. CASE groups # <<>>
    <3> DEFINE of(k) == Singbox!Outbound(IF Singbox!IsSelector(groups[k]) THEN "selector" ELSE "urltest",
                                         groups[k].name)
    <3>1. ofGroups = [k \in DOMAIN groups |-> of(k)]
      BY <2>2
    <3>2. \A k \in DOMAIN groups : of(k) \in OutboundType /\ of(k).tag = groups[k].name
      <4>1. ASSUME NEW k \in DOMAIN groups
            PROVE  of(k) \in OutboundType /\ of(k).tag = groups[k].name
        <5>1. groups[k] \in NamedItem
          <6> HIDE DEF NamedItem
          <6> QED
            BY <1>1
        <5>2. groups[k].name \in STRING
          BY <5>1
        <5> QED
          BY <5>2 DEF Singbox!Outbound, OutboundType
      <4> QED
        BY <4>1
    <3>3. DOMAIN groups = 1 .. Len(groups) /\ Len(groups) \in Nat /\ 1 \in DOMAIN groups
      BY <1>1, <2>2
    <3> HIDE DEF ofGroups, of
    <3>4. ofGroups \in Seq(OutboundType)
      BY <3>1, <3>2, <3>3
    <3>5. 1 \in DOMAIN ofGroups /\ ofGroups[1] = of(1)
      BY <3>1, <3>3
    <3> QED
      BY <2>2, <3>2, <3>3, <3>4, <3>5 DEF Clash!Range
  <2> QED
    BY <2>1, <2>2
<1> HIDE DEF fixed, exported, proxies, ofGroups, global
<1>6. ab \in Seq(OutboundType) /\ Clash!Range(ab) = Clash!Range(fixed) \cup Clash!Range(proxies)
  BY <1>3, <1>4, ConcatFacts
<1> HIDE DEF ab
<1>7. all \in Seq(OutboundType) /\ Clash!Range(all) = Clash!Range(ab) \cup Clash!Range(ofGroups)
  BY <1>5, <1>6, ConcatFacts
<1>8. Singbox!Outbounds = IF Singbox!LacksGlobal(all) THEN Append(all, global) ELSE all
  BY DEF Singbox!Outbounds, all, ab, fixed, proxies, exported, wanted, ofGroups, global
<1> HIDE DEF all
<1>9. /\ Append(all, global) \in Seq(OutboundType)
      /\ Clash!Range(Append(all, global)) = Clash!Range(all) \cup {global}
  <2>1. /\ Append(all, global) \in Seq(OutboundType)
        /\ DOMAIN all = 1 .. Len(all) /\ Len(all) \in Nat
        /\ DOMAIN Append(all, global) = 1 .. Len(all) + 1
        /\ \A k \in 1 .. Len(all) : Append(all, global)[k] = all[k]
        /\ Append(all, global)[Len(all) + 1] = global
    BY <1>2, <1>7
  <2>2. DOMAIN Append(all, global) = DOMAIN all \cup {Len(all) + 1}
    BY <2>1
  <2> QED
    BY <2>1, <2>2 DEF Clash!Range
<1>10. Singbox!Outbounds \in Seq(OutboundType) /\ Clash!Range(all) \subseteq Clash!Range(Singbox!Outbounds)
  BY <1>7, <1>8, <1>9
<1>11. options.modes => \E outbound \in Clash!Range(Singbox!Outbounds) : outbound.tag = "GLOBAL"
  <2>1. CASE Singbox!LacksGlobal(all)
    BY <1>2, <1>8, <1>9, <2>1
  <2>2. CASE options.modes /\ ~Singbox!LacksGlobal(all)
    <3>1. \E k \in DOMAIN all : all[k].tag = "GLOBAL"
      BY <2>2 DEF Singbox!LacksGlobal
    <3> QED
      BY <1>10, <3>1 DEF Clash!Range
  <2> QED
    BY <2>1, <2>2
<1>12. /\ \E outbound \in Clash!Range(Singbox!Outbounds) : outbound.tag = "DIRECT"
       /\ \E outbound \in Clash!Range(Singbox!Outbounds) : outbound.tag = "REJECT"
       /\ groups = <<>> => \E outbound \in Clash!Range(Singbox!Outbounds) : outbound.tag = "GLOBAL"
       /\ groups # <<>> => \E outbound \in Clash!Range(Singbox!Outbounds) : outbound.tag = groups[1].name
  BY <1>3, <1>5, <1>6, <1>7, <1>10
<1> QED
  BY <1>10, <1>11, <1>12 DEF TagsIn

-----------------------------------------------------------------------------
(* sing-box: what is named is there *)

RuleSetsHold ==
    /\ \A k \in DOMAIN Singbox!Written : Covered(Singbox!Written[k], ruleSets)
    /\ Distinct(ruleSets)
    /\ Len(base.ruleSets) <= Len(ruleSets)
    /\ \A k \in DOMAIN base.ruleSets : ruleSets[k].tag = base.ruleSets[k].tag

\* Rules of the Clash modes are written for two outbounds.
ModeIn(object) ==
    object.set # <<>> /\ object.set[1] = "mode" =>
        options.modes /\ object.group \in {"GLOBAL", "DIRECT"}

ModesHold == \A k \in DOMAIN output : \A j \in DOMAIN output[k] : ModeIn(output[k][j])

OutboundsHold ==
    outcome # "outbounds" =>
        outbounds = Singbox!Outbounds /\ detours = Singbox!DetoursTo(Singbox!Outbounds)

FinalHolds ==
    \/ final = ""
    \/ final \in {rulesets[k].group : k \in DOMAIN rulesets}
    \/ groups = <<>> /\ final = "GLOBAL"
    \/ groups # <<>> /\ final = groups[1].name

Ended == outcome \in {"ok", "error"}

ClientsHold ==
    /\ ~Ended =>
        /\ clients = base.clients
        /\ \A k \in DOMAIN ruleSets :
             ruleSets[k].client \in
                {"", Singbox!RulesetHttpClient, Singbox!Obsolete} \cup Clash!Range(clients)
    /\ Singbox!ClientsResolve

SingboxState ==
    SingboxTyped /\ RuleSetsHold /\ ModesHold /\ OutboundsHold /\ FinalHolds /\ ClientsHold

SingboxInv == target = "singbox" => SingboxState

\* What is known of a base.
LEMMA BaseFacts ==
  ASSUME "singbox" \in Targets, base \in Bases["singbox"]
  PROVE  /\ base.rules \in Seq(Seq(Singbox!Object))
         /\ \A k \in DOMAIN base.rules : \A j \in DOMAIN base.rules[k] : ModeIn(base.rules[k][j])
         /\ base.ruleSets \in Seq(Singbox!RuleSet)
         /\ Distinct(base.ruleSets)
         /\ base.clients \in Seq(STRING) /\ Singbox!IsInjective(base.clients)
         /\ \A k \in DOMAIN base.ruleSets :
              base.ruleSets[k].client \in
                {"", Singbox!RulesetHttpClient, Singbox!Obsolete} \cup Clash!Range(base.clients)
         /\ base.detours \in Seq({Singbox!Placeholder, "DIRECT", "REJECT"})
<1>1. Singbox!Consistent(base)
  BY SingboxAssumption
<1>2. \A s : Singbox!Range(s) = Clash!Range(s)
  BY DEF Singbox!Range, Clash!Range
<1>3. \A k \in DOMAIN base.rules : \A j \in DOMAIN base.rules[k] : ModeIn(base.rules[k][j])
  BY <1>1, <1>2 DEF Singbox!Consistent, Singbox!IsPlain, Clash!Range, ModeIn
<1> QED
  BY <1>1, <1>2, <1>3 DEF Singbox!Consistent, Distinct

\* In the beginning there is the base.
LEMMA SingboxInvInit ==
  ASSUME Init
  PROVE  SingboxInv
<1> SUFFICES ASSUME target = "singbox" PROVE SingboxState
  BY DEF SingboxInv
<1>1. "singbox" \in Targets /\ Singbox!Init
  BY DEF Init
<1>2. PICK list \in Lists["singbox"] : rulesets = Singbox!MergeAdjacentRulesets(list)
  BY <1>1 DEF Singbox!Init
<1>3. rulesets \in Seq(Loadable)
  <2>1. list \in Seq(Loadable)
    <3>1. /\ list \in Seq(Ruleset)
          /\ \A k \in DOMAIN list : IsInline(list[k].content) => Len(list[k].content[1].lines) = 1
      BY <1>1, ExportAssumption
    <3>2. \A k \in DOMAIN list : list[k] \in Loadable
      BY <3>1 DEF Loadable
    <3> QED
      BY <3>1, <3>2
  <2>2. rulesets = Clash!MergeAdjacentRulesets(list)
    BY <1>2, SameReaders
  <2> QED
    BY <2>1, <2>2, MergeType
<1>4. /\ base \in Bases["singbox"] /\ nodes \in NodeLists /\ groups \in GroupLists
      /\ limit \in Nat /\ generated = 0 /\ index = 0
      /\ output = base.rules /\ ruleSets = base.ruleSets /\ clients = base.clients
      /\ final = "" /\ outcome = "outbounds"
  BY <1>1, ExportAssumption DEF Singbox!Init
<1>5. /\ base.rules \in Seq(Seq(Singbox!Object))
      /\ base.ruleSets \in Seq(Singbox!RuleSet) /\ Distinct(base.ruleSets)
  BY <1>1, <1>4, BaseFacts, Zenon
<1>6. SingboxTyped
  <2>1. 0 \in 0 .. Len(rulesets)
    BY <1>3
  <2>2. ~Singbox!Started
    BY <1>4 DEF Singbox!Started
  <2>3. generated \in Nat /\ (limit # 0 => generated <= limit)
    <3>1. limit \in Nat /\ generated = 0
      BY <1>4
    <3> QED
      BY <3>1
  <2>4. index \in 0 .. Len(rulesets)
    BY <1>4, <2>1, Zenon
  <2>5. output \in Seq(Seq(Singbox!Object)) /\ ruleSets \in Seq(Singbox!RuleSet)
    BY <1>4, <1>5, Zenon
  <2>6. outcome # "rules"
    BY <1>4
  <2> QED
    BY <1>1, <1>3, <1>4, <2>2, <2>3, <2>4, <2>5, <2>6, Zenon DEF SingboxTyped
<1>7. RuleSetsHold
  <2>1. Singbox!Written = <<>>
    BY <1>4 DEF Singbox!Written, Singbox!Started
  <2>2. DOMAIN Singbox!Written = {}
    BY <2>1
  <2>3. Len(base.ruleSets) <= Len(base.ruleSets)
    <3>1. Len(base.ruleSets) \in Nat
      BY <1>5
    <3> QED
      BY <3>1
  <2>4. Len(base.ruleSets) <= Len(ruleSets) /\ Distinct(ruleSets)
    BY <1>4, <1>5, <2>3, Zenon
  <2> QED
    BY <1>4, <2>2, <2>4 DEF RuleSetsHold
<1>8. ModesHold
  BY <1>1, <1>4, BaseFacts DEF ModesHold
<1>9. OutboundsHold /\ FinalHolds
  BY <1>4 DEF OutboundsHold, FinalHolds
<1>10. ClientsHold
  BY <1>1, <1>4, BaseFacts DEF ClientsHold, Singbox!ClientsResolve, Ended
<1> QED
  BY <1>6, <1>7, <1>8, <1>9, <1>10 DEF SingboxState

\* A step of an export for sing-box is one of its module, or none.
LEMMA SingboxSteps ==
  ASSUME target = "singbox", [Next]_vars
  PROVE  /\ target' = target
         /\ \/ Singbox!AddOutbounds
            \/ Singbox!AddRules
            \/ Singbox!Finish
            \/ Singbox!EnsureRulesetHttpClient
            \/ UNCHANGED vars
<1>1. CASE ToSingbox
  <2>1. CASE Singbox!Exported
    BY <1>1, <2>1 DEF ToSingbox, Singbox!Exported, Singbox!vars, Singbox!input, vars, ofClash,
                      ofSingbox
  <2> QED
    BY <1>1, <2>1 DEF ToSingbox, Singbox!Next
<1>2. CASE ToClash
  BY <1>2 DEF ToClash
<1>3. CASE UNCHANGED vars
  BY <1>3 DEF vars
<1> QED
  BY <1>1, <1>2, <1>3 DEF Next

\* What depends on the input alone stays.
LEMMA InputStays ==
  ASSUME UNCHANGED Singbox!input
  PROVE  /\ UNCHANGED <<rulesets, limit, options, base, nodes, groups>>
         /\ Singbox!Outbounds' = Singbox!Outbounds
         /\ Singbox!DetoursTo(Singbox!Outbounds)' = Singbox!DetoursTo(Singbox!Outbounds)
         /\ Singbox!BaseLength' = Singbox!BaseLength
<1>1. UNCHANGED <<rulesets, limit, options, base, nodes, groups>>
  BY DEF Singbox!input
<1>2. Singbox!Outbounds' = Singbox!Outbounds
  BY <1>1 DEF Singbox!Outbounds, Singbox!LacksGlobal
<1>3. Singbox!DetoursTo(Singbox!Outbounds)' = Singbox!DetoursTo(Singbox!Outbounds)
  BY <1>1, <1>2 DEF Singbox!DetoursTo
<1>4. Singbox!BaseLength' = Singbox!BaseLength
  BY <1>1 DEF Singbox!BaseLength
<1> QED
  BY <1>1, <1>2, <1>3, <1>4

-----------------------------------------------------------------------------
(* sing-box: the steps *)

\* The length of what comes before the generated rules.
LEMMA BaseLengthType ==
  ASSUME SingboxTyped
  PROVE  /\ Singbox!BaseLength \in Nat
         /\ Singbox!BaseLength = (IF options.overwrite THEN 0 ELSE Len(base.rules)) + 1
         /\ base.rules \in Seq(Seq(Singbox!Object))
<1>1. base.rules \in Seq(Seq(Singbox!Object))
  BY BaseFacts DEF SingboxTyped
<1>2. Len(base.rules) \in Nat
  BY <1>1
<1>3. Singbox!BaseLength = (IF options.overwrite THEN 0 ELSE Len(base.rules)) + 1
  BY DEF Singbox!BaseLength
<1> QED
  BY <1>1, <1>2, <1>3

\* The rules of the Clash modes.
LEMMA PreludeFacts ==
  /\ Singbox!Prelude \in Seq(Singbox!Object)
  /\ \A j \in DOMAIN Singbox!Prelude : ModeIn(Singbox!Prelude[j])
<1> DEFINE a == Singbox!SetObject(<<"mode", "Global">>, "GLOBAL")
           b == Singbox!SetObject(<<"mode", "Direct">>, "DIRECT")
<1>1. /\ a \in Singbox!Object /\ b \in Singbox!Object
      /\ a.group = "GLOBAL" /\ b.group = "DIRECT"
  BY SingboxAssumption DEF Singbox!SetObject, Singbox!Object
<1>2. Singbox!Prelude = IF ~options.modes THEN <<>> ELSE <<a, b>>
  BY DEF Singbox!Prelude
<1> HIDE DEF a, b
<1>3. CASE ~options.modes
  BY <1>2, <1>3
<1>4. CASE options.modes
  <2>1. <<a, b>> \in Seq(Singbox!Object) /\ DOMAIN <<a, b>> = {1, 2}
    BY <1>1
  <2>2. ModeIn(<<a, b>>[1]) /\ ModeIn(<<a, b>>[2])
    BY <1>1, <1>4 DEF ModeIn
  <2> QED
    BY <1>2, <1>4, <2>1, <2>2
<1> QED
  BY <1>3, <1>4

\* With the outbounds there is the base, if it is kept, and what comes before
\* the generated rules.
LEMMA NothingIsGenerated ==
  ASSUME SingboxTyped, Singbox!AddOutbounds
  PROVE  /\ output' \in Seq(Seq(Singbox!Object))
         /\ options.generate => Len(output') = Singbox!BaseLength
         /\ \A k \in DOMAIN output' :
              output'[k] = Singbox!Prelude \/ \E j \in DOMAIN output : output'[k] = output[j]
         /\ Singbox!Written = <<>> /\ Singbox!Written' = <<>>
<1> DEFINE kept == IF options.overwrite THEN <<>> ELSE output
           S == Seq(Singbox!Object)
           long == kept \o <<Singbox!Prelude>>
<1>1. /\ outcome = "outbounds" /\ output = base.rules
      /\ UNCHANGED Singbox!input
      /\ UNCHANGED <<rulesets, limit, options, base, nodes, groups>>
      /\ outcome' = IF options.generate THEN "rules" ELSE "client"
      /\ output' = IF ~options.generate THEN output ELSE long
  BY InputStays DEF Singbox!AddOutbounds, SingboxTyped
<1>2. output \in Seq(S) /\ kept \in Seq(S) /\ Singbox!Prelude \in S
  BY PreludeFacts DEF SingboxTyped
<1>3. /\ <<Singbox!Prelude>> \in Seq(S) /\ DOMAIN <<Singbox!Prelude>> = {1}
      /\ Len(<<Singbox!Prelude>>) = 1 /\ <<Singbox!Prelude>>[1] = Singbox!Prelude
  BY <1>2
<1>4. /\ long \in Seq(S) /\ Len(long) = Len(kept) + 1
      /\ \A k \in DOMAIN long : (k \in DOMAIN kept /\ long[k] = kept[k]) \/ long[k] = Singbox!Prelude
  <2> HIDE DEF kept, S
  <2> QED
    BY <1>2, <1>3, ConcatFacts
<1>5. Singbox!BaseLength \in Nat /\ Singbox!BaseLength = Len(kept) + 1
  <2>1. Len(<<>>) = 0
    OBVIOUS
  <2> QED
    BY <1>1, <2>1, BaseLengthType
<1>6. Singbox!BaseLength' = Singbox!BaseLength
  BY <1>1, InputStays
<1>7. \A k \in DOMAIN kept : \E j \in DOMAIN output : kept[k] = output[j]
  OBVIOUS
<1> HIDE DEF kept, long
<1>8. output' \in Seq(S) /\ (options.generate => Len(output') = Singbox!BaseLength)
  BY <1>1, <1>2, <1>4, <1>5
<1>9. \A k \in DOMAIN output' :
        output'[k] = Singbox!Prelude \/ \E j \in DOMAIN output : output'[k] = output[j]
  <2>1. CASE ~options.generate
    BY <1>1, <2>1
  <2>2. CASE options.generate
    BY <1>1, <1>4, <1>7, <2>2
  <2> QED
    BY <2>1, <2>2
<1>10. Singbox!Written' = <<>>
  <2>1. CASE Singbox!Started'
    <3>1. Singbox!Written' = SubSeq(output', Singbox!BaseLength + 1, Singbox!BaseLength)
      BY <1>1, <1>6, <1>8, <2>1 DEF Singbox!Written, Singbox!Started
    <3>2. \A n \in Nat : SubSeq(output', n + 1, n) = <<>>
      BY <1>8
    <3> QED
      BY <1>5, <3>1, <3>2
  <2>2. CASE ~Singbox!Started'
    BY <2>2 DEF Singbox!Written
  <2> QED
    BY <2>1, <2>2
<1>11. Singbox!Written = <<>>
  BY <1>1 DEF Singbox!Written, Singbox!Started
<1> QED
  BY <1>8, <1>9, <1>10, <1>11 DEF S

\* The outbounds are there, and nothing is generated yet.
LEMMA AddOutboundsKeeps ==
  ASSUME SingboxState, Singbox!AddOutbounds
  PROVE  SingboxState'
<1>1. SingboxTyped /\ RuleSetsHold /\ ModesHold /\ FinalHolds /\ ClientsHold
  BY DEF SingboxState
<1>2. /\ outcome = "outbounds"
      /\ UNCHANGED Singbox!input
      /\ UNCHANGED <<rulesets, limit, options, base, nodes, groups>>
      /\ UNCHANGED <<index, ruleSets, clients, generated, final>>
      /\ outcome' = IF options.generate THEN "rules" ELSE "client"
  BY InputStays DEF Singbox!AddOutbounds
<1>3. /\ output' \in Seq(Seq(Singbox!Object))
      /\ options.generate => Len(output') = Singbox!BaseLength
      /\ DOMAIN Singbox!Written' = {}
  <2>1. DOMAIN <<>> = {}
    OBVIOUS
  <2> QED
    BY <1>1, <2>1, NothingIsGenerated
<1>4. SingboxTyped'
  <2>1. (Singbox!Started => Singbox!BaseLength <= Len(output))'
    <3>1. Singbox!BaseLength' = Singbox!BaseLength /\ Singbox!BaseLength \in Nat
      BY <1>1, <1>2, InputStays, BaseLengthType
    <3>2. Singbox!Started' => options.generate
      BY <1>2 DEF Singbox!Started
    <3> QED
      BY <1>3, <3>1, <3>2
  <2>2. outcome' # "outbounds" /\ (outcome' = "rules" => options.generate)
    BY <1>2
  <2> QED
    BY <1>1, <1>2, <1>3, <2>1, <2>2, Zenon DEF SingboxTyped
<1>5. RuleSetsHold'
  BY <1>1, <1>2, <1>3 DEF RuleSetsHold, Distinct
<1>6. ModesHold'
  <2>1. \A x : ModeIn(x)' <=> ModeIn(x)
    BY <1>2 DEF ModeIn
  <2>2. \A k \in DOMAIN output : \A j \in DOMAIN output[k] : ModeIn(output[k][j])
    BY <1>1 DEF ModesHold
  <2>3. \A k \in DOMAIN output' :
          output'[k] = Singbox!Prelude \/ \E j \in DOMAIN output : output'[k] = output[j]
    BY <1>1, NothingIsGenerated
  <2>4. \A k \in DOMAIN output' : \A j \in DOMAIN output'[k] : ModeIn(output'[k][j])
    BY <2>2, <2>3, PreludeFacts
  <2> QED
    BY <2>1, <2>4 DEF ModesHold
<1>7. OutboundsHold'
  <2>1. outbounds' = Singbox!Outbounds /\ detours' = Singbox!DetoursTo(Singbox!Outbounds)
    BY DEF Singbox!AddOutbounds
  <2> QED
    BY <1>2, <2>1, InputStays DEF OutboundsHold
<1>8. FinalHolds'
  BY <1>1, <1>2 DEF FinalHolds
<1>9. ClientsHold'
  BY <1>1, <1>2 DEF ClientsHold, Ended, Singbox!ClientsResolve
<1> QED
  BY <1>4, <1>5, <1>6, <1>7, <1>8, <1>9 DEF SingboxState

\* What follows from a piece written behind the others.
LEMMA PieceIsWritten ==
  ASSUME SingboxTyped, Singbox!Started, NEW piece \in Seq(Singbox!Object),
         output' = Append(output, piece), Singbox!Started', UNCHANGED Singbox!input
  PROVE  /\ Singbox!Written \in Seq(Seq(Singbox!Object))
         /\ Singbox!Written' = Append(Singbox!Written, piece)
<1> DEFINE B == Singbox!BaseLength
           S == Seq(Singbox!Object)
<1>1. B \in Nat /\ B <= Len(output) /\ output \in Seq(S) /\ piece \in S
  BY BaseLengthType DEF SingboxTyped
<1>2. /\ Singbox!Written = SubSeq(output, B + 1, Len(output))
      /\ Singbox!Written' = SubSeq(output', B + 1, Len(output'))
  BY InputStays DEF Singbox!Written
<1> HIDE DEF B, S
<1>3. SubSeq(output, B + 1, Len(output)) \in Seq(S)
  BY <1>1, SubSeqOfAppend, Zenon
<1>4. SubSeq(Append(output, piece), B + 1, Len(Append(output, piece)))
        = Append(SubSeq(output, B + 1, Len(output)), piece)
  BY <1>1, SubSeqOfAppend, ZenonT(60)
<1> QED
  BY <1>2, <1>3, <1>4 DEF S

\* The rule sets that a list of rules needs are added with its objects.
LEMMA AddRulesKeeps ==
  ASSUME SingboxState, Singbox!AddRules
  PROVE  SingboxState'
<1> DEFINE rules == Singbox!CurrentRules
           objects == Singbox!ObjectsOf(rules)
           after == Singbox!RuleSetsWith(ruleSets, rules)
           counted == Singbox!Filter(rules, Singbox!Routable)
           S == Seq(Singbox!Object)
<1>1. SingboxTyped /\ RuleSetsHold /\ ModesHold /\ OutboundsHold /\ FinalHolds /\ ClientsHold
  BY DEF SingboxState
<1>2. /\ outcome = "rules" /\ outcome' = outcome
      /\ index < Len(rulesets) /\ ~Singbox!Exhausted
      /\ UNCHANGED Singbox!input
      /\ UNCHANGED <<rulesets, limit, options, base, nodes, groups>>
      /\ UNCHANGED <<outbounds, detours, clients>>
      /\ output' = Append(output, objects)
      /\ ruleSets' = after
      /\ final' = final \/ final' = Singbox!Current.group
      /\ generated' = generated + Len(counted)
      /\ index' = index + 1
  BY InputStays DEF Singbox!AddRules
<1>3. /\ Singbox!Current.group \in STRING
      /\ rules \in Seq(Singbox!SingboxRule)
      /\ limit = 0 \/ generated + Len(rules) <= limit
  BY <1>1, <1>2, SingboxRulesFacts
<1>4. ruleSets \in Seq(Singbox!RuleSet) /\ output \in Seq(S)
  BY <1>1 DEF SingboxTyped
<1>5. Len(counted) \in Nat /\ Len(counted) <= Len(rules) /\ Len(rules) \in Nat
  <2> HIDE DEF rules
  <2>1. Len(counted) <= Len(rules) /\ counted \in Seq(Singbox!Routable)
    BY <1>3, SingboxFilter
  <2> HIDE DEF counted
  <2> QED
    BY <1>3, <2>1
<1> HIDE DEF rules
<1>6. /\ objects \in S /\ after \in Seq(Singbox!RuleSet)
      /\ Covered(objects, after) /\ Grown(after, ruleSets)
  BY <1>3, <1>4, ListIsCovered
<1> HIDE DEF objects, after, counted
<1>7. Singbox!Started /\ Singbox!Started'
  BY <1>1, <1>2 DEF SingboxTyped, Singbox!Started
<1>8. Singbox!Written \in Seq(S) /\ Singbox!Written' = Append(Singbox!Written, objects)
  BY <1>1, <1>2, <1>6, <1>7, PieceIsWritten
<1>9. SingboxTyped'
  <2>1. generated' \in Nat /\ (limit # 0 => generated' <= limit)
    <3>1. limit \in Nat /\ generated \in Nat
      BY <1>1 DEF SingboxTyped
    <3> QED
      BY <1>2, <1>3, <1>5, <3>1
  <2>2. index' \in 0 .. Len(rulesets)
    <3>1. index \in 0 .. Len(rulesets) /\ Len(rulesets) \in Nat
      BY <1>1 DEF SingboxTyped
    <3> QED
      BY <1>2, <3>1
  <2>3. output' \in Seq(S) /\ Singbox!BaseLength <= Len(output')
    <3>1. Singbox!BaseLength \in Nat /\ Singbox!BaseLength <= Len(output)
      BY <1>1, <1>7, BaseLengthType DEF SingboxTyped
    <3>2. /\ Append(output, objects) \in Seq(S) /\ Len(output) \in Nat
          /\ Len(Append(output, objects)) = Len(output) + 1
      BY <1>4, <1>6
    <3> QED
      BY <1>2, <3>1, <3>2
  <2>4. outcome' = "rules" /\ options.generate
    BY <1>1, <1>2 DEF SingboxTyped
  <2>5. Singbox!BaseLength' = Singbox!BaseLength /\ outcome' # "outbounds"
    BY <1>2, InputStays
  <2> QED
    BY <1>1, <1>2, <1>6, <2>1, <2>2, <2>3, <2>4, <2>5, Zenon DEF SingboxTyped
<1>10. RuleSetsHold'
  <2>1. /\ \A k \in DOMAIN Singbox!Written : Covered(Singbox!Written[k], ruleSets)
        /\ Distinct(ruleSets) /\ Len(base.ruleSets) <= Len(ruleSets)
        /\ \A k \in DOMAIN base.ruleSets : ruleSets[k].tag = base.ruleSets[k].tag
    BY <1>1 DEF RuleSetsHold
  <2>2. Singbox!TagsOf(ruleSets) \subseteq Singbox!TagsOf(after)
    BY <1>4, <1>6, GrownKeepsTags
  <2>3. \A k \in DOMAIN Singbox!Written : Covered(Singbox!Written[k], after)
    BY <2>1, <2>2 DEF Covered
  <2>4. \A k \in DOMAIN Append(Singbox!Written, objects) :
          Covered(Append(Singbox!Written, objects)[k], after)
    <3>1. /\ DOMAIN Append(Singbox!Written, objects)
               = DOMAIN Singbox!Written \cup {Len(Singbox!Written) + 1}
          /\ \A k \in DOMAIN Singbox!Written :
               Append(Singbox!Written, objects)[k] = Singbox!Written[k]
          /\ Append(Singbox!Written, objects)[Len(Singbox!Written) + 1] = objects
      BY <1>6, <1>8, AppendedPlaces
    <3> QED
      BY <1>6, <2>3, <3>1
  <2>5. /\ Len(base.ruleSets) \in Nat /\ DOMAIN base.ruleSets = 1 .. Len(base.ruleSets)
        /\ Len(ruleSets) \in Nat /\ DOMAIN ruleSets = 1 .. Len(ruleSets)
        /\ Len(after) \in Nat
    <3>1. base.ruleSets \in Seq(Singbox!RuleSet)
      BY <1>1, BaseFacts DEF SingboxTyped
    <3> QED
      BY <1>4, <1>6, <3>1
  <2>6. Len(base.ruleSets) <= Len(after) /\ \A k \in DOMAIN base.ruleSets : k \in DOMAIN ruleSets
    BY <1>6, <2>1, <2>5 DEF Grown
  <2>7. \A k \in DOMAIN base.ruleSets : after[k].tag = base.ruleSets[k].tag
    BY <1>6, <2>1, <2>6 DEF Grown
  <2>8. Distinct(after)
    BY <1>6, <2>1 DEF Grown
  <2>9. \A k \in DOMAIN Singbox!Written' : Covered(Singbox!Written'[k], after)
    BY <1>8, <2>4
  <2> QED
    BY <1>2, <2>6, <2>7, <2>8, <2>9 DEF RuleSetsHold, Distinct, Covered, Singbox!TagsOf
<1>11. ModesHold'
  <2>1. \A x : ModeIn(x)' <=> ModeIn(x)
    BY <1>2 DEF ModeIn
  <2>2. \A k \in DOMAIN output : \A j \in DOMAIN output[k] : ModeIn(output[k][j])
    BY <1>1 DEF ModesHold
  <2>3. \A j \in DOMAIN objects : ModeIn(objects[j])
    BY <1>6 DEF Covered, ModeIn
  <2>4. /\ DOMAIN output' = DOMAIN output \cup {Len(output) + 1}
        /\ \A k \in DOMAIN output : output'[k] = output[k]
        /\ output'[Len(output) + 1] = objects
    BY <1>2, <1>4, <1>6, AppendedPlaces
  <2>5. \A k \in DOMAIN output' : \A j \in DOMAIN output'[k] : ModeIn(output'[k][j])
    BY <2>2, <2>3, <2>4
  <2> QED
    BY <2>1, <2>5 DEF ModesHold
<1>12. OutboundsHold'
  BY <1>1, <1>2, InputStays DEF OutboundsHold
<1>13. FinalHolds'
  <2>1. index + 1 \in DOMAIN rulesets
    <3>1. index \in Nat /\ Len(rulesets) \in Nat /\ DOMAIN rulesets = 1 .. Len(rulesets)
      BY <1>1 DEF SingboxTyped
    <3> QED
      BY <1>2, <3>1
  <2>2. Singbox!Current.group \in {rulesets[k].group : k \in DOMAIN rulesets}
    BY <2>1 DEF Singbox!Current
  <2> QED
    BY <1>1, <1>2, <2>2 DEF FinalHolds
<1>14. ClientsHold'
  <2> DEFINE Named == {"", Singbox!RulesetHttpClient, Singbox!Obsolete} \cup Clash!Range(clients)
  <2>1. clients = base.clients /\ \A k \in DOMAIN ruleSets : ruleSets[k].client \in Named
    BY <1>1, <1>2 DEF ClientsHold, Ended
  <2>2. Singbox!RulesetHttpClient \in Named
    OBVIOUS
  <2>3. \A k \in DOMAIN after : after[k].client \in Named
    <3> HIDE DEF Named
    <3> QED
      BY <1>6, <2>1, <2>2 DEF Grown
  <2>4. ~Ended' /\ Singbox!ClientsResolve'
    BY <1>2 DEF Ended, Singbox!ClientsResolve
  <2> QED
    BY <1>2, <2>1, <2>3, <2>4 DEF ClientsHold
<1> QED
  BY <1>9, <1>10, <1>11, <1>12, <1>13, <1>14 DEF SingboxState

\* What matches nothing goes to a group that is there.
LEMMA FinishKeeps ==
  ASSUME SingboxState, Singbox!Finish
  PROVE  SingboxState'
<1>1. SingboxTyped /\ RuleSetsHold /\ ModesHold /\ OutboundsHold /\ FinalHolds /\ ClientsHold
  BY DEF SingboxState
<1>2. /\ outcome = "rules" /\ outcome' = "client"
      /\ UNCHANGED Singbox!input
      /\ UNCHANGED <<rulesets, limit, options, base, nodes, groups>>
      /\ UNCHANGED <<index, outbounds, detours, output, ruleSets, clients, generated>>
      /\ final' = IF final # "" THEN final
                  ELSE IF groups = <<>> THEN "GLOBAL" ELSE groups[1].name
  BY InputStays DEF Singbox!Finish
<1>3. /\ Singbox!BaseLength' = Singbox!BaseLength
      /\ Singbox!Started' <=> Singbox!Started
      /\ Singbox!Written' = Singbox!Written
  BY <1>2, InputStays DEF Singbox!Started, Singbox!Written
<1>4. SingboxTyped'
  BY <1>1, <1>2, <1>3, Zenon DEF SingboxTyped
<1>5. RuleSetsHold'
  BY <1>1, <1>2, <1>3, ZenonT(60) DEF RuleSetsHold, Distinct, Covered, Singbox!TagsOf
<1>6. ModesHold'
  BY <1>1, <1>2, Zenon DEF ModesHold, ModeIn
<1>7. OutboundsHold'
  BY <1>1, <1>2, InputStays DEF OutboundsHold
<1>8. FinalHolds'
  BY <1>1, <1>2 DEF FinalHolds
<1>9. ClientsHold'
  BY <1>1, <1>2 DEF ClientsHold, Ended, Singbox!ClientsResolve
<1> QED
  BY <1>4, <1>5, <1>6, <1>7, <1>8, <1>9 DEF SingboxState

\* The client of a rule set in the end.
EndClient(set) == IF Singbox!UsesClient(set) THEN Singbox!RulesetHttpClient ELSE set.client

\* What is appended once leaves a sequence without repetitions.
LEMMA AppendedOnce ==
  ASSUME NEW S, NEW s \in Seq(S), NEW x \in S,
         Singbox!IsInjective(s), x \notin Clash!Range(s)
  PROVE  /\ Singbox!IsInjective(Append(s, x))
         /\ Clash!Range(s) \subseteq Clash!Range(Append(s, x))
         /\ x \in Clash!Range(Append(s, x))
<1>1. /\ DOMAIN Append(s, x) = DOMAIN s \cup {Len(s) + 1}
      /\ \A k \in DOMAIN s : Append(s, x)[k] = s[k]
      /\ Append(s, x)[Len(s) + 1] = x
  BY AppendedPlaces
<1>2. \A k \in DOMAIN s : s[k] # x
  BY DEF Clash!Range
<1> QED
  BY <1>1, <1>2 DEF Clash!Range, Singbox!IsInjective

\* Rule sets keep their tags, and the client that they use is defined.
LEMMA EnsureKeeps ==
  ASSUME SingboxState, Singbox!EnsureRulesetHttpClient
  PROVE  SingboxState'
<1> DEFINE used == \E k \in DOMAIN ruleSets : Singbox!UsesClient(ruleSets[k])
           http == Singbox!RulesetHttpClient
<1>1. SingboxTyped /\ RuleSetsHold /\ ModesHold /\ OutboundsHold /\ FinalHolds /\ ClientsHold
  BY DEF SingboxState
<1>2. /\ outcome = "client" /\ outcome' = IF used /\ ~base.clientsValid THEN "error" ELSE "ok"
      /\ UNCHANGED Singbox!input
      /\ UNCHANGED <<rulesets, limit, options, base, nodes, groups>>
      /\ UNCHANGED <<index, outbounds, detours, output, generated, final>>
      /\ ruleSets' = [k \in DOMAIN ruleSets |->
            IF Singbox!UsesClient(ruleSets[k]) THEN [ruleSets[k] EXCEPT !.client = http]
            ELSE ruleSets[k]]
      /\ clients' = IF used /\ base.clientsValid /\ http \notin Clash!Range(clients)
                    THEN Append(clients, http) ELSE clients
  BY InputStays DEF Singbox!EnsureRulesetHttpClient, Singbox!Range, Clash!Range
<1>3. ruleSets \in Seq(Singbox!RuleSet) /\ http \in STRING
  BY <1>1, SingboxAssumption DEF SingboxTyped
<1>4. /\ ruleSets' \in Seq(Singbox!RuleSet)
      /\ DOMAIN ruleSets' = DOMAIN ruleSets /\ Len(ruleSets') = Len(ruleSets)
      /\ \A k \in DOMAIN ruleSets :
           ruleSets'[k].tag = ruleSets[k].tag /\ ruleSets'[k].client = EndClient(ruleSets[k])
  <2> DEFINE ended(set) == IF Singbox!UsesClient(set) THEN [set EXCEPT !.client = http] ELSE set
  <2>1. \A set \in Singbox!RuleSet :
          /\ ended(set) \in Singbox!RuleSet
          /\ ended(set).tag = set.tag /\ ended(set).client = EndClient(set)
    BY <1>3 DEF Singbox!RuleSet, EndClient
  <2>2. ruleSets' = [k \in DOMAIN ruleSets |-> ended(ruleSets[k])]
    BY <1>2
  <2> HIDE DEF ended, http
  <2>3. /\ DOMAIN ruleSets = 1 .. Len(ruleSets) /\ Len(ruleSets) \in Nat
        /\ \A k \in DOMAIN ruleSets : ruleSets[k] \in Singbox!RuleSet
    BY <1>3
  <2>4. \A k \in DOMAIN ruleSets :
          ended(ruleSets[k]) \in Singbox!RuleSet /\ ruleSets'[k] = ended(ruleSets[k])
    BY <2>1, <2>2, <2>3
  <2>5. ruleSets' \in Seq(Singbox!RuleSet) /\ Len(ruleSets') = Len(ruleSets)
    BY <2>2, <2>3, <2>4
  <2> QED
    BY <2>1, <2>2, <2>3, <2>4, <2>5
<1>5. /\ Singbox!BaseLength' = Singbox!BaseLength
      /\ Singbox!Started' <=> Singbox!Started
      /\ Singbox!Written' = Singbox!Written
  BY <1>2, InputStays DEF Singbox!Started, Singbox!Written
<1>6. SingboxTyped'
  <2>1. outcome' # "outbounds" /\ outcome' # "rules"
    BY <1>2
  <2> QED
    BY <1>1, <1>2, <1>4, <1>5, <2>1, Zenon DEF SingboxTyped
<1>7. RuleSetsHold'
  <2>1. Singbox!TagsOf(ruleSets') = Singbox!TagsOf(ruleSets)
    BY <1>4 DEF Singbox!TagsOf
  <2>2. \A k \in DOMAIN Singbox!Written : Covered(Singbox!Written[k], ruleSets')
    BY <1>1, <2>1 DEF RuleSetsHold, Covered
  <2>3. Distinct(ruleSets')
    BY <1>1, <1>4 DEF RuleSetsHold, Distinct
  <2>4. Len(base.ruleSets) <= Len(ruleSets')
    BY <1>1, <1>4, Zenon DEF RuleSetsHold
  <2>5. \A k \in DOMAIN base.ruleSets : ruleSets'[k].tag = base.ruleSets[k].tag
    <3>1. /\ base.ruleSets \in Seq(Singbox!RuleSet)
          /\ Len(base.ruleSets) <= Len(ruleSets)
          /\ \A k \in DOMAIN base.ruleSets : ruleSets[k].tag = base.ruleSets[k].tag
      BY <1>1, BaseFacts DEF SingboxTyped, RuleSetsHold
    <3>2. \A k \in DOMAIN base.ruleSets : k \in DOMAIN ruleSets
      BY <1>3, <3>1
    <3> QED
      BY <1>4, <3>1, <3>2
  <2> QED
    BY <1>2, <1>5, <2>2, <2>3, <2>4, <2>5, Zenon DEF RuleSetsHold, Distinct, Covered, Singbox!TagsOf
<1>8. ModesHold'
  BY <1>1, <1>2, Zenon DEF ModesHold, ModeIn
<1>9. OutboundsHold'
  BY <1>1, <1>2, InputStays DEF OutboundsHold
<1>10. FinalHolds'
  BY <1>1, <1>2 DEF FinalHolds
<1>11. /\ clients \in Seq(STRING) /\ Singbox!IsInjective(clients)
       /\ \A k \in DOMAIN ruleSets :
            ruleSets[k].client \in {"", http, Singbox!Obsolete} \cup Clash!Range(clients)
  <2>1. clients = base.clients
    BY <1>1, <1>2 DEF ClientsHold, Ended
  <2> QED
    BY <1>1, <1>2, <2>1, BaseFacts DEF ClientsHold, Ended, SingboxTyped
<1>12. /\ Clash!Range(clients) \subseteq Clash!Range(clients')
       /\ Singbox!IsInjective(clients')
       /\ outcome' = "ok" /\ used => http \in Clash!Range(clients')
  <2> DEFINE defines == used /\ base.clientsValid /\ http \notin Clash!Range(clients)
  <2>1. CASE ~defines
    <3>1. clients' = clients
      BY <1>2, <2>1
    <3>2. outcome' = "ok" /\ used => http \in Clash!Range(clients)
      BY <1>2, <2>1
    <3> QED
      BY <1>11, <3>1, <3>2, Zenon
  <2>2. CASE defines
    <3>1. http \notin Clash!Range(clients) /\ clients' = Append(clients, http)
      BY <1>2, <2>2
    <3>2. clients \in Seq(STRING) /\ http \in STRING /\ Singbox!IsInjective(clients)
      BY <1>3, <1>11
    <3> HIDE DEF http
    <3> QED
      BY <3>1, <3>2, AppendedOnce, Zenon
  <2> QED
    BY <2>1, <2>2
<1>13. Singbox!ClientsResolve'
  <2> SUFFICES ASSUME outcome' = "ok"
               PROVE  /\ \A k \in DOMAIN ruleSets' :
                           /\ ruleSets'[k].client # Singbox!Obsolete
                           /\ ruleSets'[k].client = "" \/ ruleSets'[k].client \in Clash!Range(clients')
                      /\ Singbox!IsInjective(clients')
    BY DEF Singbox!ClientsResolve, Singbox!IsInjective, Singbox!Range, Clash!Range
  <2>1. ASSUME NEW k \in DOMAIN ruleSets
        PROVE  /\ EndClient(ruleSets[k]) # Singbox!Obsolete
               /\ EndClient(ruleSets[k]) = "" \/ EndClient(ruleSets[k]) \in Clash!Range(clients')
    <3>1. CASE Singbox!UsesClient(ruleSets[k])
      <4>1. used /\ EndClient(ruleSets[k]) = http /\ http # Singbox!Obsolete
        BY <3>1 DEF EndClient, Singbox!RulesetHttpClient, Singbox!Obsolete
      <4> QED
        BY <1>12, <4>1
    <3>2. CASE ~Singbox!UsesClient(ruleSets[k])
      <4>1. EndClient(ruleSets[k]) = ruleSets[k].client /\ ruleSets[k].client \notin {http, Singbox!Obsolete}
        BY <3>2 DEF EndClient, Singbox!UsesClient
      <4>2. ruleSets[k].client = "" \/ ruleSets[k].client \in Clash!Range(clients)
        BY <1>11, <4>1
      <4> QED
        BY <1>12, <4>1, <4>2
    <3> QED
      BY <3>1, <3>2
  <2> QED
    BY <1>4, <1>12, <2>1
<1>14. ClientsHold'
  BY <1>2, <1>13 DEF ClientsHold, Ended
<1> QED
  BY <1>6, <1>7, <1>8, <1>9, <1>10, <1>14 DEF SingboxState

\* Every step keeps the invariant of the sing-box exporter.
LEMMA SingboxInvStep == SingboxInv /\ [Next]_vars => SingboxInv'
<1> SUFFICES ASSUME SingboxInv, [Next]_vars, target' = "singbox" PROVE SingboxState'
  BY DEF SingboxInv
<1>1. target = "singbox"
  BY DEF Next, ToClash, ToSingbox, vars
<1>2. SingboxState
  BY <1>1 DEF SingboxInv
<1>3. CASE UNCHANGED vars
  <2>1. /\ UNCHANGED <<rulesets, limit, options, base, nodes, groups>>
        /\ UNCHANGED <<index, output, generated, outcome>>
        /\ UNCHANGED <<outbounds, detours, ruleSets, clients, final>>
    BY <1>3 DEF vars, ofSingbox
  <2>2. SingboxTyped'
    <3>1. Singbox!BaseLength' = Singbox!BaseLength /\ (Singbox!Started' <=> Singbox!Started)
      BY <2>1 DEF Singbox!Started, Singbox!BaseLength
    <3>2. SingboxTyped
      BY <1>2 DEF SingboxState
    <3> QED
      BY <2>1, <3>1, <3>2, Zenon DEF SingboxTyped
  <2>3. RuleSetsHold'
    <3>1. Singbox!Written' = Singbox!Written
      BY <2>1 DEF Singbox!Written, Singbox!Started, Singbox!BaseLength
    <3>2. RuleSetsHold
      BY <1>2 DEF SingboxState
    <3> QED
      BY <2>1, <3>1, <3>2, ZenonT(60) DEF RuleSetsHold, Covered, Distinct, Singbox!TagsOf
  <2>4. ModesHold' /\ FinalHolds'
    BY <1>2, <2>1 DEF SingboxState, ModesHold, ModeIn, FinalHolds
  <2>5. OutboundsHold'
    <3>1. UNCHANGED Singbox!input
      BY <2>1 DEF Singbox!input
    <3> QED
      BY <1>2, <2>1, <3>1, InputStays DEF SingboxState, OutboundsHold
  <2>6. ClientsHold'
    BY <1>2, <2>1 DEF SingboxState, ClientsHold, Ended, Singbox!ClientsResolve
  <2> QED
    BY <2>2, <2>3, <2>4, <2>5, <2>6 DEF SingboxState
<1> QED
  BY <1>1, <1>2, <1>3, SingboxSteps, AddOutboundsKeeps, AddRulesKeeps, FinishKeeps, EnsureKeeps

\* The invariant of the sing-box exporter holds in every state.
LEMMA SingboxAlways == Spec => []SingboxInv
<1>1. Init => SingboxInv
  BY SingboxInvInit
<1> QED
  BY <1>1, SingboxInvStep, PTL DEF Spec

\* Detours of DNS servers lead to outbounds, if there is a selector.
LEMMA DetoursResolve ==
  ASSUME SingboxTyped, NEW k \in DOMAIN Singbox!DetoursTo(Singbox!Outbounds)
  PROVE  \/ Singbox!DetoursTo(Singbox!Outbounds)[k] \in TagsIn(Singbox!Outbounds)
         \/ \A o \in DOMAIN Singbox!Outbounds : Singbox!Outbounds[o].type # "selector"
<1> DEFINE all == Singbox!Outbounds
           wanted == {outbound \in Singbox!Range(all) : outbound.type = "selector"}
           selectors == Singbox!Filter(all, wanted)
<1>1. /\ all \in Seq(OutboundType)
      /\ "DIRECT" \in TagsIn(all) /\ "REJECT" \in TagsIn(all)
  BY OutboundsFacts
<1>2. base.detours \in Seq({Singbox!Placeholder, "DIRECT", "REJECT"})
  BY BaseFacts DEF SingboxTyped
<1>3. /\ DOMAIN Singbox!DetoursTo(all) = DOMAIN base.detours
      /\ Singbox!DetoursTo(all)[k] =
           IF base.detours[k] = Singbox!Placeholder /\ selectors # <<>> THEN selectors[1].tag
           ELSE base.detours[k]
  BY DEF Singbox!DetoursTo
<1>4. base.detours[k] \in {Singbox!Placeholder, "DIRECT", "REJECT"}
  BY <1>2, <1>3
<1> HIDE DEF all
<1>5. /\ selectors \in Seq(wanted)
      /\ Singbox!Range(selectors) = Singbox!Range(all) \cap wanted
  BY <1>1, SingboxFilter, Zenon
<1> HIDE DEF selectors
<1>6. CASE base.detours[k] # Singbox!Placeholder
  BY <1>1, <1>3, <1>4, <1>6 DEF all
<1>7. CASE base.detours[k] = Singbox!Placeholder /\ selectors # <<>>
  <2>1. selectors[1] \in wanted
    <3> HIDE DEF wanted
    <3> QED
      BY <1>5, <1>7
  <2>2. selectors[1] \in Singbox!Range(all)
    BY <2>1
  <2>3. selectors[1].tag \in TagsIn(all)
    BY <2>2 DEF TagsIn, Singbox!Range, Clash!Range
  <2> QED
    BY <1>3, <1>7, <2>3 DEF all
<1>8. CASE selectors = <<>>
  <2>1. Singbox!Range(selectors) = {}
    BY <1>8 DEF Singbox!Range
  <2>2. \A o \in DOMAIN all : all[o].type # "selector"
    BY <1>5, <2>1 DEF Singbox!Range
  <2> QED
    BY <2>2 DEF all
<1> QED
  BY <1>6, <1>7, <1>8

\* Whatever a configuration for sing-box names is there, from any consistent
\* base: what a rule set of the rules, a download client, a mode, the final
\* route or a DNS detour refers to.
THEOREM ReferencesAlwaysResolve == Spec => []ReferencesResolve
<1>1. SingboxInv => ReferencesResolve
  <2> SUFFICES ASSUME SingboxState, target = "singbox" PROVE Singbox!ReferencesResolve
    BY DEF SingboxInv, ReferencesResolve
  <2>1. SingboxTyped /\ RuleSetsHold /\ ModesHold /\ OutboundsHold /\ FinalHolds /\ ClientsHold
    BY DEF SingboxState
  <2>2. Singbox!RuleSetsResolve
    <3>1. ASSUME NEW k \in DOMAIN Singbox!Written,
                 NEW object \in Singbox!Range(Singbox!Written[k]), ~Singbox!IsPlain(object)
          PROVE  \E s \in DOMAIN ruleSets : ruleSets[s].tag = object.set
      <4>1. object.set \in Singbox!TagsOf(ruleSets)
        BY <2>1, <3>1 DEF RuleSetsHold, Covered, Singbox!IsPlain, Singbox!Range
      <4> QED
        BY <4>1 DEF Singbox!TagsOf
    <3> QED
      BY <2>1, <3>1 DEF RuleSetsHold, Distinct, Singbox!RuleSetsResolve
  <2>3. Singbox!ClientsResolve
    BY <2>1 DEF ClientsHold
  <2>4. Singbox!OutboundsResolve
    <3>1. SUFFICES ASSUME outcome = "ok"
                   PROVE  /\ \A k \in DOMAIN output : \A object \in Singbox!Range(output[k]) :
                              object.set # <<>> /\ object.set[1] = "mode" => object.group \in Singbox!Tags
                          /\ \/ final = ""
                             \/ final \in Singbox!Tags \cup {rulesets[k].group : k \in DOMAIN rulesets}
                          /\ \A k \in DOMAIN detours :
                              \/ detours[k] \in Singbox!Tags
                              \/ \A o \in DOMAIN outbounds : outbounds[o].type # "selector"
      BY DEF Singbox!OutboundsResolve
    <3>2. /\ outbounds = Singbox!Outbounds /\ detours = Singbox!DetoursTo(Singbox!Outbounds)
          /\ Singbox!Tags = TagsIn(Singbox!Outbounds)
      <4>1. outbounds = Singbox!Outbounds /\ detours = Singbox!DetoursTo(Singbox!Outbounds)
        BY <2>1, <3>1 DEF OutboundsHold
      <4>2. Singbox!Tags = TagsIn(outbounds)
        BY DEF Singbox!Tags, TagsIn, Clash!Range
      <4> QED
        BY <4>1, <4>2
    <3>3. /\ "DIRECT" \in Singbox!Tags
          /\ groups = <<>> => "GLOBAL" \in Singbox!Tags
          /\ groups # <<>> => groups[1].name \in Singbox!Tags
          /\ options.modes => "GLOBAL" \in Singbox!Tags
      BY <2>1, <3>2, OutboundsFacts
    <3>4. \A k \in DOMAIN output : \A object \in Singbox!Range(output[k]) :
            object.set # <<>> /\ object.set[1] = "mode" => object.group \in Singbox!Tags
      BY <2>1, <3>3 DEF ModesHold, ModeIn, Singbox!Range
    <3>5. final = "" \/ final \in Singbox!Tags \cup {rulesets[k].group : k \in DOMAIN rulesets}
      BY <2>1, <3>3 DEF FinalHolds
    <3>6. \A k \in DOMAIN detours :
            detours[k] \in Singbox!Tags \/ \A o \in DOMAIN outbounds : outbounds[o].type # "selector"
      BY <2>1, <3>2, DetoursResolve
    <3> QED
      BY <3>4, <3>5, <3>6
  <2> QED
    BY <2>2, <2>3, <2>4 DEF Singbox!ReferencesResolve
<1> QED
  BY <1>1, SingboxAlways, PTL

-----------------------------------------------------------------------------
(* The exporter for sing-box implements RuleStream *)

\* Two versions of IP in one list would overwrite each other, and a FINAL
\* before the end of a list that is cut off would count there.
OneVersion(rules) ==
    \A j, k \in DOMAIN rules :
        rules[j].kind = "IP-VERSION" /\ rules[k].kind = "IP-VERSION" => rules[j].value = rules[k].value

FinalIsLast(rules) == \A k \in DOMAIN rules : Singbox!IsFinal(rules[k]) => k = Len(rules)

Orderly ==
    \A k \in DOMAIN rulesets :
        /\ OneVersion(SingboxRulesOf(rulesets[k]))
        /\ limit = 0 \/ FinalIsLast(SingboxRulesOf(rulesets[k]))

\* What objects say.
SaidIn(objects) == UNION {Singbox!Behind(object) : object \in Singbox!Range(objects)}

\* What an object says.
LEMMA BehindFacts ==
  ASSUME NEW group
  PROVE  /\ \A rule \in Singbox!SingboxRule :
              /\ Singbox!Behind(Singbox!SetObject(Singbox!Tag(rule), group))
                   = {<<group, Singbox!Said(rule)>>}
              /\ Singbox!Behind(PlainObject(Singbox!Said(rule), group))
                   = {<<group, Singbox!Said(rule)>>}
         /\ \A object : object.set = <<>> =>
              Singbox!Behind(object) = {<<object.group, said>> : said \in object.fields}
<1>1. ASSUME NEW rule \in Singbox!SingboxRule
      PROVE  Singbox!Behind(Singbox!SetObject(Singbox!Tag(rule), group)) = {<<group, Singbox!Said(rule)>>}
  <2> DEFINE tag == Singbox!Tag(rule)
             object == Singbox!SetObject(tag, group)
  <2>1. tag # <<>> /\ Head(tag) = rule.kind /\ Tail(tag) = rule.value
    BY SaidType
  <2> HIDE DEF tag
  <2>2. object.set = tag /\ object.group = group
    BY DEF Singbox!SetObject
  <2>3. Singbox!Said([kind |-> Head(tag), value |-> Tail(tag)]) = Singbox!Said(rule)
    BY <2>1 DEF Singbox!Said
  <2> HIDE DEF object
  <2>4. Singbox!Behind(object) =
          {<<group, said>> : said \in {Singbox!Said([kind |-> Head(tag), value |-> Tail(tag)])}}
    BY <2>1, <2>2 DEF Singbox!Behind, Singbox!IsPlain
  <2> QED
    BY <2>3, <2>4 DEF object, tag
<1>2. \A object : object.set = <<>> =>
        Singbox!Behind(object) = {<<object.group, said>> : said \in object.fields}
  BY DEF Singbox!Behind, Singbox!IsPlain
<1>3. ASSUME NEW rule \in Singbox!SingboxRule
      PROVE  Singbox!Behind(PlainObject(Singbox!Said(rule), group)) = {<<group, Singbox!Said(rule)>>}
  <2> DEFINE object == PlainObject(Singbox!Said(rule), group)
  <2>1. object.set = <<>> /\ object.group = group /\ object.fields = {Singbox!Said(rule)}
    BY DEF PlainObject
  <2> HIDE DEF object
  <2> QED
    BY <1>2, <2>1 DEF object
<1> QED
  BY <1>1, <1>2, <1>3

\* One more object says one more thing.
LEMMA SaidInAppended ==
  ASSUME NEW objects \in Seq(Singbox!Object), NEW x
  PROVE  SaidIn(Append(objects, x)) = SaidIn(objects) \cup Singbox!Behind(x)
<1>1. /\ DOMAIN Append(objects, x) = DOMAIN objects \cup {Len(objects) + 1}
      /\ \A k \in DOMAIN objects : Append(objects, x)[k] = objects[k]
      /\ Append(objects, x)[Len(objects) + 1] = x
  <2>1. /\ DOMAIN objects = 1 .. Len(objects) /\ Len(objects) \in Nat
        /\ DOMAIN Append(objects, x) = 1 .. Len(objects) + 1
        /\ \A k \in 1 .. Len(objects) : Append(objects, x)[k] = objects[k]
        /\ Append(objects, x)[Len(objects) + 1] = x
    OBVIOUS
  <2> QED
    BY <2>1
<1>2. Singbox!Range(Append(objects, x)) = Singbox!Range(objects) \cup {x}
  BY <1>1 DEF Singbox!Range
<1> QED
  BY <1>2 DEF SaidIn

\* Versions of IP that objects say are those of a rule.
SameVersion(objects, rule) ==
    rule.kind = "IP-VERSION" =>
        \A p \in SaidIn(objects) : p[2].kind = "IP-VERSION" => p[2] = Singbox!Said(rule)

\* A rule pushed into an object is said, and nothing is lost.
LEMMA PushedSays ==
  ASSUME NEW objects \in Seq(Singbox!Object), NEW rule \in Singbox!SingboxRule,
         NEW k \in DOMAIN objects, objects[k].set = <<>>, SameVersion(objects, rule)
  PROVE  SaidIn(Pushed(objects, k, rule))
           = SaidIn(objects) \cup {<<objects[k].group, Singbox!Said(rule)>>}
<1> DEFINE group == objects[k].group
           said == Singbox!Said(rule)
           pushed == Pushed(objects, k, rule)
           old == objects[k].fields
           kept == {f \in old : rule.kind = "IP-VERSION" => f.kind # "IP-VERSION"}
<1>1. /\ pushed \in Seq(Singbox!Object)
      /\ DOMAIN pushed = DOMAIN objects
      /\ pushed[k].set = <<>> /\ pushed[k].group = group
      /\ pushed[k].fields = kept \cup {said}
  BY PushedFacts, ZenonT(60)
<1>2. \A j \in DOMAIN objects : j # k => pushed[j] = objects[j]
  BY DEF Pushed
<1> HIDE DEF pushed
<1>3. Singbox!Behind(objects[k]) = {<<group, f>> : f \in old}
  BY BehindFacts
<1>4. Singbox!Behind(pushed[k]) = {<<group, f>> : f \in kept \cup {said}}
  <2>1. Singbox!Behind(pushed[k]) = {<<pushed[k].group, f>> : f \in pushed[k].fields}
    BY <1>1, BehindFacts
  <2> QED
    BY <1>1, <2>1
<1>5. \A f \in old : f \notin kept => f = said
  <2> SUFFICES ASSUME NEW f \in old, f \notin kept PROVE f = said
    OBVIOUS
  <2>1. rule.kind = "IP-VERSION" /\ f.kind = "IP-VERSION"
    OBVIOUS
  <2>2. <<group, f>> \in Singbox!Behind(objects[k])
    BY <1>3
  <2>3. <<group, f>> \in SaidIn(objects)
    BY <2>2 DEF SaidIn, Singbox!Range
  <2> DEFINE p == <<group, f>>
  <2>4. p \in SaidIn(objects) /\ p[2] = f
    BY <2>3
  <2> HIDE DEF p
  <2> QED
    BY <2>1, <2>4 DEF SameVersion
<1>6. kept \cup {said} = old \cup {said}
  <2> HIDE DEF said
  <2> QED
    BY <1>5
<1>7. Singbox!Behind(pushed[k]) = Singbox!Behind(objects[k]) \cup {<<group, said>>}
  <2> HIDE DEF kept, said, group, old
  <2> QED
    BY <1>3, <1>4, <1>6
<1> HIDE DEF group, said, kept, old
<1>8. SaidIn(pushed) = SaidIn(objects) \cup {<<group, said>>}
  <2>1. \A p : p \in SaidIn(pushed) <=> \E j \in DOMAIN objects : p \in Singbox!Behind(pushed[j])
    BY <1>1 DEF SaidIn, Singbox!Range
  <2>2. \A p : p \in SaidIn(objects) <=> \E j \in DOMAIN objects : p \in Singbox!Behind(objects[j])
    BY DEF SaidIn, Singbox!Range
  <2>3. ASSUME NEW p
        PROVE  p \in SaidIn(pushed) <=> p \in SaidIn(objects) \/ p = <<group, said>>
    <3>1. ASSUME NEW j \in DOMAIN objects, p \in Singbox!Behind(pushed[j])
          PROVE  p \in SaidIn(objects) \/ p = <<group, said>>
      BY <1>2, <1>7, <2>2, <3>1
    <3>2. ASSUME NEW j \in DOMAIN objects, p \in Singbox!Behind(objects[j])
          PROVE  p \in SaidIn(pushed)
      BY <1>2, <1>7, <2>1, <3>2
    <3>3. <<group, said>> \in SaidIn(pushed)
      BY <1>7, <2>1
    <3> QED
      BY <2>1, <2>2, <3>1, <3>2, <3>3
  <2> QED
    BY <2>3
<1> QED
  BY <1>8 DEF pushed, group, said

\* The group of all objects.
OfGroup(objects, group) == \A k \in DOMAIN objects : objects[k].group = group

\* A rule that routes is said for the current group; a FINAL is not said.
LEMMA AddRuleSays ==
  ASSUME NEW objects \in Seq(Singbox!Object), NEW rule \in Singbox!SingboxRule,
         OfGroup(objects, Singbox!Current.group), SameVersion(objects, rule)
  PROVE  /\ OfGroup(Singbox!AddRule(objects, rule), Singbox!Current.group)
         /\ SaidIn(Singbox!AddRule(objects, rule)) =
              IF Singbox!IsFinal(rule) THEN SaidIn(objects)
              ELSE SaidIn(objects) \cup {<<Singbox!Current.group, Singbox!Said(rule)>>}
<1> DEFINE group == Singbox!Current.group
           after == Singbox!AddRule(objects, rule)
           pair == <<group, Singbox!Said(rule)>>
<1>1. ASSUME NEW x, x.group = group, Singbox!Behind(x) = {pair}
      PROVE  /\ OfGroup(Append(objects, x), group)
             /\ SaidIn(Append(objects, x)) = SaidIn(objects) \cup {pair}
  <2>1. /\ DOMAIN objects = 1 .. Len(objects) /\ Len(objects) \in Nat
        /\ DOMAIN Append(objects, x) = 1 .. Len(objects) + 1
        /\ \A k \in 1 .. Len(objects) : Append(objects, x)[k] = objects[k]
        /\ Append(objects, x)[Len(objects) + 1] = x
    OBVIOUS
  <2>2. OfGroup(Append(objects, x), group)
    BY <1>1, <2>1 DEF OfGroup
  <2>3. SaidIn(Append(objects, x)) = SaidIn(objects) \cup Singbox!Behind(x)
    BY SaidInAppended
  <2> HIDE DEF group, pair
  <2> QED
    BY <1>1, <2>2, <2>3
<1>2. /\ Singbox!SetObject(Singbox!Tag(rule), group).group = group
      /\ PlainObject(Singbox!Said(rule), group).group = group
  BY DEF Singbox!SetObject, PlainObject
<1>3. /\ Singbox!Behind(Singbox!SetObject(Singbox!Tag(rule), group)) = {pair}
      /\ Singbox!Behind(PlainObject(Singbox!Said(rule), group)) = {pair}
  BY BehindFacts
<1>4. ASSUME NEW k \in DOMAIN objects, objects[k].set = <<>>
      PROVE  /\ OfGroup(Pushed(objects, k, rule), group)
             /\ SaidIn(Pushed(objects, k, rule)) = SaidIn(objects) \cup {pair}
  <2>1. objects[k].group = group
    BY DEF OfGroup
  <2>2. OfGroup(Pushed(objects, k, rule), group)
    <3>1. /\ DOMAIN Pushed(objects, k, rule) = DOMAIN objects
          /\ \A j \in DOMAIN objects : Pushed(objects, k, rule)[j].group = objects[j].group
      BY PushedFacts, ZenonT(60)
    <3>2. OfGroup(objects, group)
      OBVIOUS
    <3> HIDE DEF group
    <3> QED
      BY <3>1, <3>2 DEF OfGroup
  <2> QED
    BY <1>4, <2>1, <2>2, PushedSays
<1> HIDE DEF group, pair
<1>5. CASE Singbox!IsFinal(rule) /\ after = objects
  BY <1>5 DEF group
<1>6. CASE ~Singbox!IsFinal(rule) /\ after = Append(objects, Singbox!SetObject(Singbox!Tag(rule), group))
  BY <1>1, <1>2, <1>3, <1>6 DEF group, pair
<1>7. CASE ~Singbox!IsFinal(rule) /\ after = Append(objects, PlainObject(Singbox!Said(rule), group))
  BY <1>1, <1>2, <1>3, <1>7 DEF group, pair
<1>8. ASSUME NEW k \in DOMAIN objects, objects[k].set = <<>>, ~Singbox!IsFinal(rule),
             after = Pushed(objects, k, rule)
      PROVE  OfGroup(after, group) /\ SaidIn(after) = SaidIn(objects) \cup {pair}
  BY <1>4, <1>8
<1> QED
  BY <1>5, <1>6, <1>7, <1>8, AddRuleCases DEF group, pair

\* The objects of a list of rules say the rules that route, for the group.
LEMMA ObjectsSay ==
  ASSUME NEW rules \in Seq(Singbox!SingboxRule), OneVersion(rules),
         Singbox!Current.group \in STRING
  PROVE  SaidIn(Singbox!ObjectsOf(rules))
           = {<<Singbox!Current.group, Singbox!Said(rule)>> :
                rule \in Singbox!Range(rules) \cap Singbox!Routable}
<1>1. PICK g : ObjectSteps(g, rules)
  BY ObjectRecursion
<1> DEFINE N == Len(rules)
           group == Singbox!Current.group
           Heard(n) == {<<group, Singbox!Said(rules[k])>> : k \in {i \in 1 .. n : ~Singbox!IsFinal(rules[i])}}
           Good(n) == /\ g[n] \in Seq(Singbox!Object)
                      /\ OfGroup(g[n], group)
                      /\ SaidIn(g[n]) = Heard(n)
           T == {n \in 0 .. N : Good(n)}
<1>2. /\ N \in Nat /\ DOMAIN rules = 1 .. N
      /\ \A n \in 1 .. N : rules[n] \in Singbox!SingboxRule
  OBVIOUS
<1>3. /\ Singbox!ObjectsOf(rules) = g[N] /\ g[0] = <<>>
      /\ \A n \in 1 .. N : g[n] = Singbox!AddRule(g[n - 1], rules[n])
  BY <1>1 DEF ObjectSteps
<1>4. 0 \in T
  <2>1. <<>> \in Seq(Singbox!Object) /\ DOMAIN <<>> = {} /\ 1 .. 0 = {} /\ 0 \in 0 .. N
    BY <1>2
  <2>2. SaidIn(<<>>) = {} /\ Heard(0) = {} /\ OfGroup(<<>>, group)
    BY <2>1 DEF SaidIn, Singbox!Range, OfGroup
  <2>3. Good(0)
    BY <1>3, <2>1, <2>2
  <2> HIDE DEF Good
  <2> QED
    BY <2>1, <2>3
<1>5. ASSUME NEW n \in 0 .. N - 1, n \in T
      PROVE  n + 1 \in T
  <2>1. n + 1 \in 1 .. N /\ (n + 1) - 1 = n /\ n + 1 \in 0 .. N
    BY <1>2
  <2> DEFINE rule == rules[n + 1]
  <2>2. rule \in Singbox!SingboxRule
    BY <1>2, <2>1
  <2>3. g[n + 1] = Singbox!AddRule(g[n], rule)
    <3>1. g[n + 1] = Singbox!AddRule(g[(n + 1) - 1], rules[n + 1])
      BY <1>3, <2>1
    <3> QED
      BY <2>1, <3>1
  <2>4. Good(n)
    BY <1>5
  <2>5. SameVersion(g[n], rule)
    <3> SUFFICES ASSUME rule.kind = "IP-VERSION", NEW p \in SaidIn(g[n]), p[2].kind = "IP-VERSION"
                 PROVE  p[2] = Singbox!Said(rule)
      BY DEF SameVersion
    <3>1. PICK k \in 1 .. n : p = <<group, Singbox!Said(rules[k])>>
      BY <2>4
    <3>2. p[2] = Singbox!Said(rules[k])
      BY <3>1
    <3>3. rules[k].kind = "IP-VERSION"
      BY <3>2 DEF Singbox!Said
    <3>4. k \in DOMAIN rules /\ n + 1 \in DOMAIN rules
      BY <1>2, <2>1
    <3>5. rules[k].value = rule.value
      BY <3>3, <3>4 DEF OneVersion
    <3> QED
      BY <3>2, <3>3, <3>5 DEF Singbox!Said
  <2>6. /\ OfGroup(g[n + 1], group)
        /\ SaidIn(g[n + 1]) = IF Singbox!IsFinal(rule) THEN SaidIn(g[n])
                              ELSE SaidIn(g[n]) \cup {<<group, Singbox!Said(rule)>>}
    BY <2>2, <2>3, <2>4, <2>5, AddRuleSays
  <2>7. g[n + 1] \in Seq(Singbox!Object)
    BY <2>2, <2>3, <2>4, AddRuleType
  <2>8. Heard(n + 1) = IF Singbox!IsFinal(rule) THEN Heard(n)
                       ELSE Heard(n) \cup {<<group, Singbox!Said(rule)>>}
    <3> DEFINE routes(m) == {i \in 1 .. m : ~Singbox!IsFinal(rules[i])}
    <3>1. 1 .. n + 1 = (1 .. n) \cup {n + 1}
      BY <2>1
    <3>2. routes(n + 1) = IF Singbox!IsFinal(rule) THEN routes(n) ELSE routes(n) \cup {n + 1}
      BY <3>1
    <3>3. \A m : Heard(m) = {<<group, Singbox!Said(rules[k])>> : k \in routes(m)}
      OBVIOUS
    <3> HIDE DEF routes, Heard, group
    <3> QED
      BY <3>2, <3>3
  <2>9. Good(n + 1)
    <3> HIDE DEF Heard, rule
    <3> QED
      BY <2>4, <2>6, <2>7, <2>8
  <2> HIDE DEF Good
  <2> QED
    BY <2>1, <2>9
<1>6. \A n \in 0 .. N : n \in T
  <2> HIDE DEF T, N
  <2> QED
    BY <1>2, <1>4, <1>5, BoundedInduction
<1>7. SaidIn(g[N]) = Heard(N)
  <2>1. N \in 0 .. N
    BY <1>2
  <2> QED
    BY <1>6, <2>1
<1>8. Heard(N) = {<<group, Singbox!Said(rule)>> : rule \in Singbox!Range(rules) \cap Singbox!Routable}
  <2>1. \A k \in 1 .. N : rules[k] \in Singbox!Routable <=> ~Singbox!IsFinal(rules[k])
    BY <1>2 DEF Singbox!Routable
  <2>2. \A rule : rule \in Singbox!Range(rules) <=> \E k \in 1 .. N : rules[k] = rule
    BY <1>2 DEF Singbox!Range
  <2> HIDE DEF N, group
  <2> QED
    BY <2>1, <2>2
<1> QED
  BY <1>3, <1>7, <1>8

\* The rules of a ruleset that route.
RoutesOf(ruleset) == Singbox!Filter(SingboxRulesOf(ruleset), Singbox!Routable)

\* What rules say, one by one.
SaidEach(rules) == [r \in DOMAIN rules |-> Singbox!Said(rules[r])]

\* A ruleset in the queue, and the queue from a ruleset on.
Entry(ruleset) == [group |-> ruleset.group, rules |-> SaidEach(RoutesOf(ruleset))]
QueueFrom(n) == [k \in 1 .. Len(rulesets) - n |-> Entry(rulesets[n + k])]

\* A list of sing-box rules says one rule each.
LEMMA SaidEachFacts ==
  ASSUME NEW rules \in Seq(Singbox!SingboxRule)
  PROVE  /\ SaidEach(rules) \in Seq(Stream!Rule)
         /\ Len(SaidEach(rules)) = Len(rules) /\ DOMAIN SaidEach(rules) = DOMAIN rules
         /\ \A L \in Nat : L <= Len(rules) =>
              SubSeq(SaidEach(rules), 1, L) = SaidEach(SubSeq(rules, 1, L))
<1>1. \A rule \in Singbox!SingboxRule : Singbox!Said(rule) \in Stream!Rule
  BY SaidType DEF Stream!Rule
<1>2. Len(rules) \in Nat /\ DOMAIN rules = 1 .. Len(rules)
      /\ \A r \in DOMAIN rules : rules[r] \in Singbox!SingboxRule
  OBVIOUS
<1>3. SaidEach(rules) \in Seq(Stream!Rule) /\ Len(SaidEach(rules)) = Len(rules)
  <2> DEFINE S == Stream!Rule
             said(r) == Singbox!Said(rules[r])
  <2>1. \A r \in 1 .. Len(rules) : said(r) \in S
    BY <1>1, <1>2
  <2>2. SaidEach(rules) = [r \in 1 .. Len(rules) |-> said(r)]
    BY <1>2 DEF SaidEach
  <2> HIDE DEF S, said
  <2>3. SaidEach(rules) \in Seq(S) /\ Len(SaidEach(rules)) = Len(rules)
    BY <1>2, <2>1, <2>2
  <2> QED
    BY <2>3 DEF S
<1>4. ASSUME NEW L \in Nat, L <= Len(rules)
      PROVE  SubSeq(SaidEach(rules), 1, L) = SaidEach(SubSeq(rules, 1, L))
  <2> DEFINE all == SaidEach(rules)
             cut == SubSeq(rules, 1, L)
  <2>1. DOMAIN cut = 1 .. L /\ \A r \in 1 .. L : cut[r] = rules[r]
    BY <1>2, <1>4
  <2>2. \A r \in 1 .. L : all[r] = Singbox!Said(rules[r])
    BY <1>2, <1>4 DEF SaidEach
  <2>3. SubSeq(all, 1, L) = [r \in 1 .. L |-> all[r]]
    BY <1>3, <1>4
  <2>4. SaidEach(cut) = [r \in 1 .. L |-> Singbox!Said(cut[r])]
    BY <2>1 DEF SaidEach
  <2> HIDE DEF all, cut
  <2>5. [r \in 1 .. L |-> all[r]] = [r \in 1 .. L |-> Singbox!Said(cut[r])]
    BY <2>1, <2>2
  <2> QED
    BY <2>3, <2>4, <2>5 DEF all, cut
<1>5. DOMAIN SaidEach(rules) = DOMAIN rules
  BY DEF SaidEach
<1> QED
  BY <1>3, <1>4, <1>5

\* The rules that route are among the rules.
LEMMA RoutesOfType ==
  ASSUME NEW rules \in Seq(Singbox!SingboxRule)
  PROVE  /\ Singbox!Filter(rules, Singbox!Routable) \in Seq(Singbox!SingboxRule)
         /\ Len(Singbox!Filter(rules, Singbox!Routable)) \in Nat
         /\ Len(Singbox!Filter(rules, Singbox!Routable)) <= Len(rules)
         /\ Singbox!Range(Singbox!Filter(rules, Singbox!Routable))
              = Singbox!Range(rules) \cap Singbox!Routable
<1> DEFINE f == Singbox!Filter(rules, Singbox!Routable)
<1>1. /\ f \in Seq(Singbox!SingboxRule \cap Singbox!Routable) /\ Len(f) <= Len(rules)
      /\ Singbox!Range(f) = Singbox!Range(rules) \cap Singbox!Routable
  BY SingboxFilter, Zenon
<1> HIDE DEF f
<1>2. f \in Seq(Singbox!SingboxRule) /\ Len(f) \in Nat
  BY <1>1
<1> QED
  BY <1>1, <1>2 DEF f

\* The queue is what the rulesets to come say.
LEMMA SingboxQueueIs ==
  ASSUME rulesets \in Seq(Loadable), index \in 0 .. Len(rulesets)
  PROVE  /\ Singbox!Queue = QueueFrom(index)
         /\ UNCHANGED rulesets /\ index' \in 0 .. Len(rulesets) =>
              Singbox!Queue' = QueueFrom(index')
<1> DEFINE S == Seq(Singbox!Rule)
           say == [rules \in S |-> SaidEach(rules)]
           item(n) == [group |-> rulesets[n].group, rules |-> say[RoutesOf(rulesets[n])]]
<1>1. \A n \in 1 .. Len(rulesets) : item(n) = Entry(rulesets[n])
  <2>1. ASSUME NEW n \in 1 .. Len(rulesets) PROVE RoutesOf(rulesets[n]) \in S
    <3> DEFINE f == Singbox!Filter(SingboxRulesOf(rulesets[n]), Singbox!Routable)
    <3>1. SingboxRulesOf(rulesets[n]) \in Seq(Singbox!SingboxRule)
      BY SingboxRulesOfType
    <3>2. f \in Seq(Singbox!SingboxRule)
      BY <3>1, RoutesOfType
    <3> HIDE DEF f
    <3>3. f \in S
      BY <3>2, SingboxRuleType
    <3> QED
      BY <3>3 DEF RoutesOf, f
  <2> HIDE DEF S
  <2> QED
    BY <2>1 DEF Entry
<1>2. Singbox!Queue = [k \in 1 .. Len(rulesets) - index |-> item(index + k)]
  BY DEF Singbox!Queue, Singbox!Listed, SaidEach, RoutesOf, SingboxRulesOf
<1>3. UNCHANGED rulesets =>
        Singbox!Queue' = [k \in 1 .. Len(rulesets) - index' |-> item(index' + k)]
  BY DEF Singbox!Queue, Singbox!Listed, SaidEach, RoutesOf, SingboxRulesOf
<1>4. ASSUME NEW n \in 0 .. Len(rulesets)
      PROVE  [k \in 1 .. Len(rulesets) - n |-> item(n + k)] = QueueFrom(n)
  <2>1. Len(rulesets) \in Nat
    OBVIOUS
  <2>2. \A k \in 1 .. Len(rulesets) - n : n + k \in 1 .. Len(rulesets)
    BY <2>1
  <2> HIDE DEF item
  <2> QED
    BY <1>1, <2>2 DEF QueueFrom
<1> QED
  BY <1>2, <1>3, <1>4

\* What is routed of a ruleset is what RuleStream routes: its first rules, and
\* they count as many as are routed.
LEMMA RoutesWithin ==
  ASSUME target = "singbox", SingboxTyped, index < Len(rulesets), ~Singbox!Exhausted, Orderly
  PROVE  /\ Stream!Within(Entry(Singbox!Current).rules)
              = SaidEach(Singbox!Filter(Singbox!CurrentRules, Singbox!Routable))
         /\ OneVersion(Singbox!CurrentRules)
<1> DEFINE all == SingboxRulesOf(Singbox!Current)
           current == Singbox!CurrentRules
           N == Len(all)
           listed == Singbox!Filter(all, Singbox!Routable)
           routed == Singbox!Filter(current, Singbox!Routable)
<1>1. /\ Singbox!Current \in Loadable
      /\ Left \in Int /\ (Left = -1 \/ Left > 0)
      /\ current = IF Left = -1 \/ N <= Left THEN all ELSE SubSeq(all, 1, Left)
  BY SingboxRulesFacts
<1>2. all \in Seq(Singbox!SingboxRule)
  BY <1>1, SingboxRulesOfType
<1>3. index + 1 \in DOMAIN rulesets
  <2>1. index \in Nat /\ Len(rulesets) \in Nat /\ DOMAIN rulesets = 1 .. Len(rulesets)
    BY DEF SingboxTyped
  <2> QED
    BY <2>1
<1>4. OneVersion(all) /\ (limit = 0 \/ FinalIsLast(all))
  BY <1>3 DEF Orderly, Singbox!Current
<1>5. Left = -1 \/ FinalIsLast(all)
  BY <1>4 DEF Left
<1>6. Entry(Singbox!Current).rules = SaidEach(listed)
  BY DEF Entry, RoutesOf
<1> HIDE DEF all, current
<1>7. N \in Nat /\ DOMAIN all = 1 .. N /\ \A k \in 1 .. N : all[k] \in Singbox!SingboxRule
  BY <1>2
<1>8. listed \in Seq(Singbox!SingboxRule) /\ Len(listed) \in Nat /\ Len(listed) <= N
  BY <1>2, RoutesOfType
<1>9. Stream!Within(SaidEach(listed)) =
        IF Left = -1 \/ Len(listed) <= Left THEN SaidEach(listed)
        ELSE SubSeq(SaidEach(listed), 1, Left)
  BY <1>8, SaidEachFacts DEF Stream!Within, Left
<1>10. CASE Left = -1 \/ N <= Left
  <2>1. current = all /\ routed = listed
    BY <1>1, <1>10
  <2> HIDE DEF listed, routed, N
  <2>2. Left = -1 \/ Len(listed) <= Left
    BY <1>1, <1>7, <1>8, <1>10
  <2> QED
    BY <1>4, <1>6, <1>9, <2>1, <2>2 DEF all, current, listed, routed
<1>11. CASE ~(Left = -1 \/ N <= Left)
  <2>1. Left \in 1 .. N /\ Left < N /\ Left \in 0 .. N
    BY <1>1, <1>7, <1>11
  <2>2. current = SubSeq(all, 1, Left)
    BY <1>1, <1>11
  <2>3. /\ Len(current) = Left /\ DOMAIN current = 1 .. Left
        /\ \A k \in 1 .. Left : current[k] = all[k] /\ k \in DOMAIN all
        /\ current \in Seq(Singbox!SingboxRule)
    BY <1>2, <1>7, <2>1, <2>2
  <2>4. OneVersion(current)
    BY <1>4, <2>3 DEF OneVersion
  <2>5. \A k \in 1 .. Left : all[k] \in Singbox!Routable
    <3> SUFFICES ASSUME NEW k \in 1 .. Left PROVE all[k] \in Singbox!Routable
      OBVIOUS
    <3>1. k \in DOMAIN all /\ all[k] \in Singbox!SingboxRule
      BY <1>7, <2>3
    <3>2. k # N
      <4> HIDE DEF N
      <4> QED
        BY <1>7, <2>1
    <3>3. ~Singbox!IsFinal(all[k])
      BY <1>5, <1>11, <3>1, <3>2 DEF FinalIsLast
    <3> QED
      BY <3>1, <3>3 DEF Singbox!Routable
  <2>6. routed = current
    <3>1. \A k \in DOMAIN current : current[k] \in Singbox!Routable
      BY <2>3, <2>5
    <3>2. Filter(current, Singbox!Routable) = current
      BY <2>3, <3>1, FilterOfKept, Zenon
    <3>3. routed = Filter(current, Singbox!Routable)
      BY <2>3, SingboxFilter, Zenon
    <3> QED
      BY <3>2, <3>3
  <2>7. StartsWith(listed, all, Left)
    <3>1. StartsWith(Filter(all, Singbox!Routable), all, Left)
      BY <1>2, <2>1, <2>5, FilterBegins DEF N
    <3>2. listed = Filter(all, Singbox!Routable)
      BY <1>2, SingboxFilter, Zenon
    <3> QED
      BY <3>1, <3>2
  <2> HIDE DEF listed, routed, N
  <2>8. Left <= Len(listed) /\ SubSeq(listed, 1, Left) = current
    <3>1. Left <= Len(listed) /\ \A k \in 1 .. Left : listed[k] = current[k]
      BY <2>3, <2>7 DEF StartsWith
    <3>2. Left \in Nat
      BY <2>1
    <3>3. SubSeq(listed, 1, Left) = [k \in 1 .. Left |-> listed[k]]
      BY <1>8, <3>1, <3>2
    <3>4. current = [k \in 1 .. Left |-> current[k]]
      BY <2>3
    <3> QED
      BY <3>1, <3>3, <3>4
  <2>9. SubSeq(SaidEach(listed), 1, Left) = SaidEach(current)
    <3>1. Left \in Nat
      BY <2>1
    <3> QED
      BY <1>8, <2>8, <3>1, SaidEachFacts
  <2>10. Stream!Within(SaidEach(listed)) = SaidEach(current)
    <3>1. CASE Len(listed) <= Left
      <4>1. Left = Len(listed)
        BY <1>8, <2>1, <2>8, <3>1
      <4>2. SubSeq(listed, 1, Left) = listed
        BY <1>8, <4>1
      <4> QED
        BY <1>9, <2>8, <3>1, <4>2
    <3>2. CASE ~(Len(listed) <= Left)
      BY <1>9, <1>11, <2>9, <3>2
    <3> QED
      BY <3>1, <3>2
  <2> QED
    BY <1>6, <2>4, <2>6, <2>10 DEF all, current, listed, routed
<1> QED
  BY <1>10, <1>11

\* What was routed stays, and a piece adds what it says.
LEMMA SingboxRoutedGrows ==
  ASSUME Singbox!Written \in Seq(Seq(Singbox!Object)), NEW piece \in Seq(Singbox!Object),
         Singbox!Written' = Append(Singbox!Written, piece)
  PROVE  Singbox!Routed' = Append(Singbox!Routed, SaidIn(piece))
<1> DEFINE W == Singbox!Written
           WW == Append(W, piece)
           S == Seq(Singbox!Object)
           said(k) == SaidIn(W[k])
           longer(k) == SaidIn(WW[k])
           x == SaidIn(piece)
           L == Len(W)
<1>1. W \in Seq(S) /\ piece \in S /\ Singbox!Written' = WW
  OBVIOUS
<1>2. Singbox!Routed = [k \in DOMAIN W |-> SaidIn(W[k])]
  BY DEF Singbox!Routed, SaidIn
<1>3. Singbox!Routed' = [k \in DOMAIN WW |-> SaidIn(WW[k])]
  BY <1>1 DEF Singbox!Routed, SaidIn
<1> HIDE DEF W, S
<1>4. /\ L \in Nat /\ DOMAIN W = 1 .. L /\ DOMAIN WW = 1 .. L + 1
      /\ \A k \in 1 .. L : WW[k] = W[k]
      /\ WW[L + 1] = piece
  BY <1>1
<1> HIDE DEF WW, L
<1>5. Singbox!Routed = [k \in 1 .. L |-> said(k)]
  BY <1>2, <1>4
<1>6. /\ Singbox!Routed' = [k \in 1 .. L + 1 |-> longer(k)]
      /\ \A k \in 1 .. L : longer(k) = said(k)
      /\ longer(L + 1) = x
  BY <1>3, <1>4
<1> HIDE DEF said, longer, x
<1>7. Append([k \in 1 .. L |-> said(k)], x) = [k \in 1 .. L + 1 |-> longer(k)]
  <2>1. L \in Nat
    BY <1>4
  <2>2. [k \in 1 .. L |-> said(k)] \in Seq({said(k) : k \in 1 .. L} \cup {x})
    BY <2>1
  <2>3. Len([k \in 1 .. L |-> said(k)]) = L
    BY <2>1
  <2> QED
    BY <1>6, <2>1, <2>2, <2>3
<1> QED
  BY <1>5, <1>6, <1>7 DEF x

\* A ruleset is a step of RuleStream.
LEMMA AddRulesRoutes ==
  ASSUME target = "singbox", target' = "singbox", SingboxState, Orderly, Singbox!AddRules
  PROVE  Stream!Next
<1> DEFINE current == Singbox!CurrentRules
           piece == Singbox!ObjectsOf(current)
           routed == Singbox!Filter(current, Singbox!Routable)
           first == Entry(Singbox!Current)
           rules == SaidEach(routed)
           N == Len(rulesets)
<1>1. SingboxTyped
  BY DEF SingboxState
<1>2. /\ outcome = "rules" /\ outcome' = outcome
      /\ index < N /\ ~Singbox!Exhausted
      /\ UNCHANGED Singbox!input
      /\ UNCHANGED <<rulesets, limit, options, base, nodes, groups>>
      /\ output' = Append(output, piece)
      /\ generated' = generated + Len(routed)
      /\ index' = index + 1
  BY InputStays DEF Singbox!AddRules
<1>3. /\ Singbox!Current.group \in STRING
      /\ Left # 0 /\ Left \in Int
      /\ current \in Seq(Singbox!SingboxRule)
      /\ limit = 0 \/ generated + Len(current) <= limit
  BY <1>1, <1>2, SingboxRulesFacts
<1>4. /\ rulesets \in Seq(Loadable) /\ ruleSets \in Seq(Singbox!RuleSet)
      /\ index \in 0 .. N /\ limit \in Nat /\ generated \in Nat
  BY <1>1 DEF SingboxTyped
<1>5. Stream!Within(first.rules) = rules /\ OneVersion(current)
  BY <1>1, <1>2, RoutesWithin
<1> HIDE DEF current
<1>6. piece \in Seq(Singbox!Object)
  BY <1>3, <1>4, ListIsCovered
<1>7. /\ routed \in Seq(Singbox!SingboxRule) /\ Len(routed) \in Nat
      /\ Len(routed) <= Len(current)
      /\ Singbox!Range(routed) = Singbox!Range(current) \cap Singbox!Routable
  BY <1>3, RoutesOfType
<1>8. SaidIn(piece) = {<<Singbox!Current.group, Singbox!Said(rule)>> :
                         rule \in Singbox!Range(current) \cap Singbox!Routable}
  BY <1>3, <1>5, ObjectsSay
<1> HIDE DEF piece, routed
<1>9. Singbox!Routed' = Append(Singbox!Routed, SaidIn(piece))
  <2>1. Singbox!Started /\ Singbox!Started'
    BY <1>1, <1>2 DEF SingboxTyped, Singbox!Started
  <2>2. /\ Singbox!Written \in Seq(Seq(Singbox!Object))
        /\ Singbox!Written' = Append(Singbox!Written, piece)
    BY <1>1, <1>2, <1>6, <2>1, PieceIsWritten
  <2> QED
    BY <1>6, <2>2, SingboxRoutedGrows
<1>10. SaidIn(piece) = {<<first.group, rules[k]>> : k \in DOMAIN rules}
  <2>1. first.group = Singbox!Current.group
    BY DEF Entry
  <2>2. DOMAIN rules = DOMAIN routed /\ \A k \in DOMAIN routed : rules[k] = Singbox!Said(routed[k])
    BY DEF SaidEach
  <2>3. Singbox!Range(routed) = {routed[k] : k \in DOMAIN routed}
    BY DEF Singbox!Range
  <2> HIDE DEF first, rules
  <2>4. {<<Singbox!Current.group, Singbox!Said(rule)>> : rule \in Singbox!Range(routed)}
          = {<<Singbox!Current.group, rules[k]>> : k \in DOMAIN rules}
    BY <2>2, <2>3
  <2> QED
    BY <1>7, <1>8, <2>1, <2>4
<1>11. N \in Nat /\ index' \in 0 .. N
  BY <1>2, <1>4
<1>12. Singbox!Queue = QueueFrom(index) /\ Singbox!Queue' = QueueFrom(index + 1)
  BY <1>2, <1>4, <1>11, SingboxQueueIs
<1>13. QueueFrom(index) # <<>> /\ Head(QueueFrom(index)) = first
       /\ Tail(QueueFrom(index)) = QueueFrom(index + 1)
  <2> DEFINE f == [n \in 1 .. N |-> Entry(rulesets[n])]
             S == {f[n] : n \in 1 .. N}
  <2>1. f \in [1 .. N -> S] /\ \A n \in 1 .. N : f[n] = Entry(rulesets[n])
    OBVIOUS
  <2>2. f[index + 1] = first
    <3>1. index + 1 \in 1 .. N
      BY <1>2, <1>4, <1>11
    <3> QED
      BY <3>1 DEF Singbox!Current
  <2>3. ASSUME NEW n \in 0 .. N
        PROVE  QueueFrom(n) = RestOf(f, N, n)
    <3>1. \A k \in 1 .. N - n : n + k \in 1 .. N
      BY <1>11
    <3> HIDE DEF f
    <3> QED
      BY <2>1, <3>1 DEF QueueFrom, RestOf
  <2> HIDE DEF f, S, N, first
  <2>4. N \in Nat /\ index \in 0 .. N /\ index < N /\ index + 1 \in 0 .. N
    BY <1>2, <1>4, <1>11
  <2>5. QueueFrom(index) = RestOf(f, N, index) /\ QueueFrom(index + 1) = RestOf(f, N, index + 1)
    BY <2>3, <2>4
  <2>6. /\ RestOf(f, N, index) # <<>> /\ Head(RestOf(f, N, index)) = f[index + 1]
        /\ Tail(RestOf(f, N, index)) = RestOf(f, N, index + 1)
    BY <2>1, <2>4, RestOfList, Zenon
  <2> QED
    BY <2>2, <2>5, <2>6, Zenon
<1>14. Left' = IF Left = -1 THEN -1 ELSE Left - Len(rules)
  <2>1. Len(rules) = Len(routed)
    BY <1>7, SaidEachFacts
  <2>2. limit' = limit
    BY <1>2
  <2>3. limit = 0 \/ generated + Len(routed) <= limit
    <3>1. Len(current) \in Nat
      BY <1>3
    <3> QED
      BY <1>3, <1>4, <1>7, <3>1
  <2> HIDE DEF rules
  <2> QED
    BY <1>2, <1>4, <1>7, <2>1, <2>2, <2>3 DEF Left
<1> HIDE DEF first, rules
<1>15. \E f \in {Head(QueueFrom(index))} : \E r \in {Stream!Within(f.rules)} :
         /\ QueueFrom(index + 1) = Tail(QueueFrom(index))
         /\ Left' = IF Left = -1 THEN -1 ELSE Left - Len(r)
         /\ Singbox!Routed' = Append(Singbox!Routed, {<<f.group, r[k]>> : k \in DOMAIN r})
  BY <1>5, <1>9, <1>10, <1>13, <1>14
<1>16. target # "clash" /\ target' # "clash"
  OBVIOUS
<1>17. Stream!Route
  BY <1>3, <1>12, <1>13, <1>15, <1>16, ZenonT(30) DEF Stream!Route, Left
<1> QED
  BY <1>17 DEF Stream!Next

\* Every other step changes nothing that RuleStream sees.
LEMMA OtherStepsRouteNothing ==
  ASSUME target = "singbox", target' = "singbox", SingboxState,
         \/ Singbox!AddOutbounds
         \/ Singbox!Finish
         \/ Singbox!EnsureRulesetHttpClient
         \/ UNCHANGED vars
  PROVE  UNCHANGED Stream!vars
<1>1. UNCHANGED <<rulesets, limit, index, generated>>
  BY DEF Singbox!AddOutbounds, Singbox!Finish, Singbox!EnsureRulesetHttpClient, Singbox!input, vars
<1>2. Singbox!Written' = Singbox!Written
  <2>1. CASE Singbox!AddOutbounds
    BY <2>1, NothingIsGenerated DEF SingboxState
  <2>2. CASE Singbox!Finish \/ Singbox!EnsureRulesetHttpClient
    BY <2>2 DEF Singbox!Finish, Singbox!EnsureRulesetHttpClient, Singbox!input, Singbox!Written,
                Singbox!Started, Singbox!BaseLength
  <2>3. CASE UNCHANGED vars
    BY <2>3 DEF vars, Singbox!Written, Singbox!Started, Singbox!BaseLength
  <2> QED
    BY <2>1, <2>2, <2>3
<1>3. Singbox!Queue' = Singbox!Queue
  BY <1>1 DEF Singbox!Queue
<1>4. Singbox!Routed' = Singbox!Routed
  BY <1>2 DEF Singbox!Routed
<1> QED
  BY <1>1, <1>3, <1>4 DEF Stream!vars

\* Where the exporter starts, RuleStream starts.
LEMMA SingboxStreamStarts ==
  ASSUME target = "singbox", Init
  PROVE  Stream!Init
<1>1. SingboxTyped /\ index = 0 /\ generated = 0 /\ outcome = "outbounds"
  BY SingboxInvInit DEF SingboxInv, SingboxState, Init, Singbox!Init
<1>2. Singbox!Routed = <<>>
  <2>1. Singbox!Written = <<>> /\ DOMAIN <<>> = {}
    BY <1>1 DEF Singbox!Written, Singbox!Started
  <2> QED
    BY <2>1 DEF Singbox!Routed
<1>3. Singbox!Queue \in Seq([group : STRING, rules : Seq(Stream!Rule)])
  <2> DEFINE S == [group : STRING, rules : Seq(Stream!Rule)]
             N == Len(rulesets)
  <2>1. \A ruleset \in Loadable : Entry(ruleset) \in S
    <3> SUFFICES ASSUME NEW ruleset \in Loadable PROVE Entry(ruleset) \in S
      OBVIOUS
    <3>1. ruleset.group \in STRING
      BY DEF Loadable, Ruleset
    <3>2. SaidEach(RoutesOf(ruleset)) \in Seq(Stream!Rule)
      BY SingboxRulesOfType, RoutesOfType, SaidEachFacts DEF RoutesOf
    <3> QED
      BY <3>1, <3>2 DEF Entry
  <2>2. rulesets \in Seq(Loadable) /\ index \in 0 .. Len(rulesets)
    BY <1>1 DEF SingboxTyped
  <2>3. N \in Nat /\ \A k \in 1 .. N : rulesets[k] \in Loadable
    BY <2>2
  <2>4. Singbox!Queue = QueueFrom(0)
    BY <1>1, <2>2, SingboxQueueIs
  <2> HIDE DEF S
  <2>5. QueueFrom(0) = [k \in 1 .. N |-> Entry(rulesets[k])]
    <3>1. N - 0 = N /\ \A k \in 1 .. N : 0 + k = k
      BY <2>3
    <3> QED
      BY <3>1 DEF QueueFrom
  <2>6. \A k \in 1 .. N : Entry(rulesets[k]) \in S
    BY <2>1, <2>3
  <2> HIDE DEF N
  <2>7. QueueFrom(0) \in Seq(S)
    BY <2>3, <2>5, <2>6
  <2> QED
    BY <2>4, <2>7 DEF S
<1>4. Left \in Nat \cup {-1}
  BY <1>1 DEF Left, SingboxTyped
<1> QED
  BY <1>2, <1>3, <1>4 DEF Stream!Init, Left

\* For sing-box as well the rules say what the rulesets say, whether they are
\* fields of a shared object or rule sets: those of each ruleset for its group,
\* each once, up to the limit.  For this no list may hold two versions of IP,
\* nor, where there is a limit, a FINAL before its end.
THEOREM SingboxImplementsRuleStream ==
  Spec /\ target = "singbox" /\ Orderly => ImplementsRuleStream
<1> DEFINE forSingbox == target = "singbox" /\ Orderly
<1>1. Init /\ forSingbox => Stream!Init
  BY SingboxStreamStarts
<1>2. SingboxInv /\ forSingbox /\ [Next]_vars => forSingbox' /\ [Stream!Next]_Stream!vars
  <2> SUFFICES ASSUME SingboxInv, forSingbox, [Next]_vars
               PROVE  forSingbox' /\ (Stream!Next \/ UNCHANGED Stream!vars)
    OBVIOUS
  <2>1. target' = "singbox" /\ SingboxState
    BY SingboxSteps DEF SingboxInv
  <2>2. Orderly'
    <3>1. UNCHANGED <<rulesets, limit>>
      BY SingboxSteps DEF Singbox!AddOutbounds, Singbox!AddRules, Singbox!Finish,
                          Singbox!EnsureRulesetHttpClient, Singbox!input, vars
    <3> QED
      BY <3>1 DEF Orderly
  <2>3. Stream!Next \/ UNCHANGED Stream!vars
    BY <2>1, SingboxSteps, AddRulesRoutes, OtherStepsRouteNothing
  <2> QED
    BY <2>1, <2>2, <2>3
<1>3. Spec /\ forSingbox => Stream!Spec
  <2> HIDE DEF forSingbox
  <2> QED
    BY <1>1, <1>2, SingboxAlways, PTL DEF Spec, Stream!Spec
<1> QED
  BY <1>3 DEF ImplementsRuleStream

=============================================================================
