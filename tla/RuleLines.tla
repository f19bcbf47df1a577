----------------------------- MODULE RuleLines -----------------------------
(***************************************************************************)
(* How the text of rulesets becomes rules (rules.rs, and the merging of    *)
(* adjacent rulesets in both exporters).  A line is what stands before its *)
(* first word, and its parts between commas.  A document is the content of *)
(* one source: an inline rule, a plain list, or YAML with one list under   *)
(* `payload` or `rules`.  A content is a sequence of documents, as merging *)
(* joins them.                                                             *)
(***************************************************************************)
EXTENDS Filters, SequencesExt

CONSTANTS
    Networks,  \* the values that parse as an IP network
    Networks6  \* those of them that are IPv6

ASSUME LinesAssumption == Networks6 \subseteq Networks

Behaviors == {"domain", "ipcidr"}
Formats == {"surge", "quanx", "clash-domain", "clash-ipcidr", "clash-classical"}

\* A value that is missing or empty.
None == <<>>

SupportedKinds == {
    "DOMAIN", "DOMAIN-SUFFIX", "DOMAIN-KEYWORD", "IP-CIDR", "IP-CIDR6", "SRC-IP-CIDR", "GEOIP",
    "SRC-GEOIP", "GEOSITE", "MATCH", "FINAL", "PROCESS-NAME", "SRC-PORT", "DST-PORT", "NETWORK",
    "PROTOCOL", "IP-VERSION", "INBOUND", "DOMAIN-REGEX", "PROCESS-PATH", "PROCESS-PATH-REGEX",
    "PACKAGE-NAME", "PACKAGE-NAME-REGEX", "PORT", "PORT-RANGE", "SRC-PORT-RANGE", "USER", "USER-ID"}

\* Literals are strings, which the provers have to be told.
ASSUME StringAssumption ==
    {"", "-", "inline", "text", "payload", "rules", "domain", "ipcidr", "ruleset", "RULE-SET"}
        \cup SupportedKinds \subseteq STRING

KindOf(word, format) ==
    IF format = "quanx" /\ word = "HOST" THEN "DOMAIN"
    ELSE IF format = "quanx" /\ word = "HOST-SUFFIX" THEN "DOMAIN-SUFFIX"
    ELSE IF format = "quanx" /\ word = "HOST-KEYWORD" THEN "DOMAIN-KEYWORD"
    ELSE IF format = "quanx" /\ word = "IP6-CIDR" THEN "IP-CIDR6"
    ELSE IF word = "DEST-PORT" THEN "DST-PORT"
    ELSE word

Line == [mark : STRING, parts : Seq(STRING)]

RuleLine(kind, value, noResolve) == [kind |-> kind, value |-> value, noResolve |-> noResolve]

\* A line without a rule.
NoRule == RuleLine("", None, FALSE)

IsNetwork(line) == line.mark = "" /\ Len(line.parts) = 1 /\ line.parts[1] \in Networks

DomainLine(line) ==
    IF line.mark \in {"+.", "."} THEN RuleLine("DOMAIN-SUFFIX", line.parts, FALSE)
    ELSE IF line.mark = "" THEN RuleLine("DOMAIN", line.parts, FALSE)
    ELSE RuleLine("DOMAIN", <<line.mark>> \o line.parts, FALSE)

NetworkLine(line) ==
    IF ~IsNetwork(line) THEN NoRule
    ELSE RuleLine(IF line.parts[1] \in Networks6 THEN "IP-CIDR6" ELSE "IP-CIDR", line.parts, TRUE)

ClassicalLine(line, format) ==
    LET kind == KindOf(line.parts[1], format)
        value == IF Len(line.parts) > 1 THEN <<line.parts[2]>> ELSE None
    IN
    IF line.mark # "" \/ kind \notin SupportedKinds THEN NoRule
    ELSE RuleLine(kind, value, \E k \in 3 .. Len(line.parts) : line.parts[k] = "no-resolve")

\* Blank lines and comments.
Ignored(line) == line.mark \in {"#", ";", "//"} \/ line.parts = <<>>

\* parse_common_line
ParseCommonLine(line, format) ==
    IF Ignored(line) THEN NoRule
    ELSE IF format = "clash-domain" THEN DomainLine(line)
    ELSE IF format = "clash-ipcidr" THEN NetworkLine(line)
    ELSE ClassicalLine(line, format)

\* A YAML document read line by line: the key, and items behind a dash.
RawLines(document) ==
    IF document.shape \in {"text", "inline"} THEN document.lines
    ELSE <<[mark |-> "", parts |-> <<document.shape>>]>>
         \o [k \in DOMAIN document.lines |->
               [mark |-> "-", parts |-> <<document.lines[k].mark>> \o document.lines[k].parts]]

\* serde_yaml reads a content that is YAML throughout and has no key twice.
IsYaml(content) ==
    /\ \A i \in DOMAIN content : content[i].shape \in {"payload", "rules"}
    /\ \A i, j \in DOMAIN content : content[i].shape = content[j].shape => i = j
    /\ \E i \in DOMAIN content : content[i].lines # <<>>

LinesUnder(key, content) ==
    IF \E i \in DOMAIN content : content[i].shape = key
    THEN content[CHOOSE i \in DOMAIN content : content[i].shape = key].lines
    ELSE <<>>

LinesOf(content) ==
    IF IsYaml(content) THEN LinesUnder("payload", content) \o LinesUnder("rules", content)
    ELSE FlattenSeq([i \in DOMAIN content |-> RawLines(content[i])])

IsInline(content) == content[1].shape = "inline"

Document == [shape : {"inline", "text", "payload", "rules"}, lines : Seq(Line)]

UpTo(limit, s) == IF limit = 0 \/ Len(s) <= limit THEN s ELSE SubSeq(s, 1, limit)

Rule == [kind : SupportedKinds, value : Seq(STRING), noResolve : BOOLEAN]

\* parse_common_rules_filtered, before the filter of the exporter.
ParseCommonRules(content, format) ==
    LET grammar == IF IsInline(content) THEN "surge" ELSE format
        parse[lines \in Seq(Line)] ==
            Filter([k \in DOMAIN lines |-> ParseCommonLine(lines[k], grammar)], Rule)
    IN parse[IF IsInline(content) THEN content[1].lines ELSE LinesOf(content)]

\* What the filter left is cut off at the limit, unless it came inline.
Limited(content, limit, filtered) ==
    IF IsInline(content) THEN filtered ELSE UpTo(limit, filtered)

Serves(mark, value) == [mark |-> mark, value |-> value]
Unserved == Serves("", None)
ServedLine == [mark : STRING, value : Seq(STRING) \ {None}]

\* normalize_rule, for one line of a list served by GET /ruleset: the value it
\* serves, after `+.` for a suffix.
NormalizeLine(line, behavior) ==
    LET kind == line.parts[1]
        bare == Len(line.parts) = 1
        value == IF bare THEN None ELSE <<line.parts[2]>>
        named == line.mark = "" /\ ~bare
        domain == named /\ line.parts[2] \notin Networks
    IN
    IF Ignored(line) THEN Unserved
    ELSE IF behavior = "ipcidr" THEN
        IF named /\ kind \in {"IP-CIDR", "IP-CIDR6"} /\ line.parts[2] \in Networks THEN Serves("", value)
        ELSE IF IsNetwork(line) THEN Serves("", line.parts)
        ELSE Unserved
    ELSE IF domain /\ kind = "DOMAIN" THEN Serves("", value)
    ELSE IF domain /\ kind = "DOMAIN-SUFFIX" THEN Serves("+.", value)
    ELSE IF bare /\ kind \notin Networks THEN Serves(line.mark, line.parts)
    ELSE Unserved

\* normalize_rules_allow_empty
NormalizeRules(content, behavior, limit) ==
    LET normalize[lines \in Seq(Line)] ==
            Filter([k \in DOMAIN lines |-> NormalizeLine(lines[k], behavior)], ServedLine)
    IN UpTo(limit, normalize[LinesOf(content)])

\* merge_adjacent_rulesets: a ruleset has the group, the sources and their
\* content, and its format; an inline rule has no source.
Mergeable(previous, ruleset) ==
    /\ previous.sources # <<>>
    /\ ruleset.sources # <<>>
    /\ previous.group = ruleset.group
    /\ previous.format = ruleset.format

\* Mutation: the content is joined and the source forgotten.
MergeIntoForgettingSource(merged, ruleset) ==
    IF merged # <<>> /\ Mergeable(Last(merged), ruleset)
    THEN Append(Front(merged), [Last(merged) EXCEPT !.content = @ \o ruleset.content])
    ELSE Append(merged, ruleset)

MergeInto(merged, ruleset) ==
    IF merged # <<>> /\ Mergeable(Last(merged), ruleset)
    THEN Append(Front(merged),
                [Last(merged) EXCEPT !.sources = @ \o ruleset.sources,
                                     !.content = @ \o ruleset.content])
    ELSE Append(merged, ruleset)

MergeAdjacentRulesets(rulesets) ==
    LET merged[n \in 0 .. Len(rulesets)] ==
            IF n = 0 THEN <<>> ELSE MergeInto(merged[n - 1], rulesets[n])
    IN merged[Len(rulesets)]

=============================================================================
