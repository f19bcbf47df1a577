---------------------------- MODULE MCRuleExport ----------------------------
(***************************************************************************)
(* Small instances of RuleExport for TLC, with two rules enough for a      *)
(* provider.  The file names of `a` and `b` have one stem, that of `a1` is *)
(* what a second provider of that stem is called, and `e` has none.  No    *)
(* list for sing-box has two IP versions: an object has one, and the       *)
(* second replaces the first.                                              *)
(***************************************************************************)
EXTENDS RuleExport, Functions, TLC

Plain(parts) == [mark |-> "", parts |-> parts]
Marked(mark, parts) == [mark |-> mark, parts |-> parts]
Text(lines) == [shape |-> "text", lines |-> lines]
List(source, group, format, document) ==
    [group |-> group, sources |-> <<source>>, content |-> <<document>>, format |-> format]
Inline(group, parts) ==
    [group |-> group, sources |-> <<>>, format |-> "surge",
     content |-> <<[shape |-> "inline", lines |-> <<Plain(parts)>>]>>]

MCNetworks == {"n4", "m4", "n6"}
MCNetworks6 == {"n6"}

MCStem == [s \in {"a", "b", "a1", "d", "e", "p", "c", "o1", "o2", "o3", "o4", "o5"} |->
    CASE s \in {"a", "b"} -> <<<<"word", "a">>>>
      [] s = "a1" -> <<<<"word", "a">>, <<"numeral", 1>>>>
      [] s = "e" -> <<>>
      [] OTHER -> <<<<"word", s>>>>]

MixedList == Text(<<Plain(<<"DOMAIN", "x">>), Plain(<<"IP-CIDR", "m4">>),
    Plain(<<"IP-CIDR", "n4", "no-resolve">>), Marked("#", <<"DOMAIN", "w">>),
    Plain(<<"DOMAIN-SUFFIX", "y">>), Plain(<<"URL-REGEX", "u">>),
    Plain(<<"IP-CIDR6", "n6", "no-resolve">>)>>)
ManyKinds == Text(<<Plain(<<"DOMAIN", "z">>), Plain(<<"GEOIP", "cn">>), Plain(<<"DOMAIN", "x">>),
    Plain(<<"DOMAIN-REGEX", "r">>), Plain(<<"FINAL">>)>>)
ShortList == Text(<<Plain(<<"DOMAIN-SUFFIX", "y">>), Plain(<<"DOMAIN", "v">>)>>)
YamlDomains(values) == [shape |-> "payload",
    lines |-> [k \in DOMAIN values |-> Marked(IF k % 2 = 1 THEN "+." ELSE "", <<values[k]>>)]]
ManyDomains == Text([k \in 1 .. 3 |-> Plain(<<"DOMAIN", <<"u", "t", "z">>[k]>>)])
NetworkList == Text(<<Plain(<<"n4">>), Plain(<<"x">>), Plain(<<"n6">>)>>)

\* What GET /ruleset does not read as the exporter does: words of QuanX, a
\* domain behind a dot, lines without a comma, a domain that is a network and
\* networks that are none.
QuanWords == Text(<<Plain(<<"HOST", "v">>), Plain(<<"HOST-SUFFIX", "z">>)>>)
DottedDomains == [shape |-> "payload", lines |-> <<Marked(".", <<"v">>), Marked("+.", <<"x">>)>>]
BareLines == Text([k \in 1 .. 3 |-> Plain(<<<<"u", "v", "MATCH">>[k]>>)]
                  \o <<Plain(<<"DOMAIN", "x">>), Plain(<<"DOMAIN-SUFFIX", "y">>)>>)
SlashedDomain == Text(<<Plain(<<"DOMAIN", "n4">>), Plain(<<"DOMAIN", "x">>)>>)
NoNetworks == Text([k \in 1 .. 2 |-> Plain(<<"IP-CIDR", <<"n4", "x">>[k], "no-resolve">>)])

Some == {
    List("a", "P", "surge", MixedList), List("b", "P", "surge", ManyKinds),
    List("b", "D", "surge", ManyKinds), List("a1", "D", "surge", ShortList),
    List("a1", "P", "surge", ShortList), List("p", "P", "surge", ManyDomains),
    List("d", "P", "clash-domain", YamlDomains(<<"y", "z">>)),
    List("c", "P", "clash-domain", YamlDomains(<<"v", "x">>)),
    List("e", "D", "clash-ipcidr", NetworkList),
    Inline("D", <<"GEOIP", "cn", "no-resolve">>), Inline("P", <<"GEOIP", "cn">>)}

Odd == {
    List("o1", "P", "quanx", QuanWords), List("o2", "P", "clash-domain", DottedDomains),
    List("o3", "P", "surge", BareLines), List("o4", "P", "surge", SlashedDomain),
    List("o5", "P", "surge", NoNetworks)}

\* Lists of up to n rulesets, none of them twice.
ListsOf(S, n) == {list \in UNION {[1 .. k -> S] : k \in 0 .. n} : IsInjective(list)}
ClashLists == ListsOf(Some, 3) \cup ListsOf(Some \cup Odd, 2)

ClashSetting(optimize, http, geo, baseUrl, overwrite) ==
    [optimize |-> optimize, http |-> http, geo |-> geo, baseUrl |-> baseUrl, overwrite |-> overwrite]

ClashSettings == {
    ClashSetting(TRUE, FALSE, TRUE, FALSE, TRUE), ClashSetting(TRUE, FALSE, FALSE, FALSE, FALSE),
    ClashSetting(TRUE, TRUE, TRUE, TRUE, FALSE), ClashSetting(TRUE, TRUE, FALSE, FALSE, TRUE),
    ClashSetting(FALSE, FALSE, TRUE, FALSE, TRUE)}

Named(kind, value) == <<<<"word", kind>>, <<"word", value>>>>
BaseProvider == [type |-> "base", behavior |-> "domain", sources |-> <<>>, payload |-> <<>>]
ClashBases == {
    [rules |-> <<>>, providers |-> <<>>],
    [rules |-> <<<<[set |-> Named("domain", "a"), rule |-> RuleLine("RULE-SET", None, FALSE),
                 group |-> "D"]>>>>,
     providers |-> Named("domain", "a") :> BaseProvider @@ Named("GEOIP", "cn") :> BaseProvider]}

-----------------------------------------------------------------------------
(* sing-box *)

GeoList == Text(<<Plain(<<"GEOSITE", "g">>), Plain(<<"DOMAIN", "x">>), Plain(<<"URL-REGEX", "u">>),
    Plain(<<"DEST-PORT", "80">>), Plain(<<"SRC-PORT", "x">>), Plain(<<"GEOIP", "cn">>)>>)
SecondList == Text(<<Plain(<<"IP-CIDR6", "n6">>), Plain(<<"IP-VERSION", "6">>), Plain(<<"PORT", "80">>),
    Plain(<<"IP-CIDR", "n4", "no-resolve">>), Plain(<<"GEOSITE", "g">>)>>)
DomainFile == [shape |-> "payload",
    lines |-> <<[mark |-> "+.", parts |-> <<"y">>], [mark |-> "", parts |-> <<"x">>]>>]
SingboxLists == ListsOf({
    List("a", "P", "surge", GeoList), List("b", "P", "surge", SecondList),
    List("d", "D", "clash-domain", DomainFile),
    Inline("D", <<"GEOIP", "cn">>), Inline("P", <<"FINAL">>)}, 3)

SingboxSetting(overwrite, generate, modes) ==
    [overwrite |-> overwrite, generate |-> generate, modes |-> modes]
SingboxSettings == {
    SingboxSetting(TRUE, TRUE, FALSE), SingboxSetting(FALSE, TRUE, TRUE),
    SingboxSetting(TRUE, FALSE, FALSE)}

SingboxBase(rules, sets, http, valid, servers) ==
    [rules |-> rules, ruleSets |-> sets, clients |-> http, clientsValid |-> valid,
     detours |-> servers]
NoBase == SingboxBase(<<>>, <<>>, <<>>, TRUE, <<>>)
OldBase == SingboxBase(<<<<[set |-> <<"GEOIP", "us">>, fields |-> {}, group |-> "P"]>>>>,
    <<[tag |-> <<"GEOIP", "us">>, client |-> "detour DIRECT"], [tag |-> <<"GEOSITE", "g">>, client |-> ""]>>,
    <<"mine">>, TRUE, <<"__DNS_PROXY_DETOUR__", "DIRECT">>)
BrokenBase == SingboxBase(<<>>, <<>>, <<>>, FALSE, <<"__DNS_PROXY_DETOUR__">>)
SingboxBases == {NoBase, OldBase, BrokenBase}

Item(name, kind) == [name |-> name, kind |-> kind]
MCNodes == {<<Item("n1", "vmess"), Item("n2", "snell"), Item("n3", "wireguard")>>}
MCGroups == {<<>>, <<Item("D", "url-test"), Item("P", "relay")>>}

-----------------------------------------------------------------------------
PerTarget(clash, singbox) == [clash |-> clash, singbox |-> singbox]

MCLists == PerTarget(ClashLists, SingboxLists)
MCSettings == PerTarget(ClashSettings, SingboxSettings)
MCTransforms == PerTarget({"GEOIP"}, {"GEOSITE", "GEOIP"})
MCBases == PerTarget(ClashBases, SingboxBases)
=============================================================================
