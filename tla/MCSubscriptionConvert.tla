----------------------- MODULE MCSubscriptionConvert -----------------------
(* Small instances of SubscriptionConvert for TLC: what is local or remote, *)
(* where it is named, and who asks.                                         *)
EXTENDS SubscriptionConvert

\* Configurations that tell who may read what ...
AccessConfigs ==
    [apiMode : BOOLEAN, defaults : {<<>>, <<"shared">>}, inserts : {<<>>},
     enableInsert : {TRUE}, prepend : {TRUE}, skip : {FALSE}, filter : {TRUE},
     toHttp : {FALSE}, external : {"empty", "path"}, base : {"empty", "path"}]

\* ... and configurations that insert a source of their own, or skip failures.
InsertConfigs ==
    [apiMode : {TRUE}, defaults : {<<>>}, inserts : {<<"shared">>},
     enableInsert : {TRUE}, prepend : BOOLEAN, skip : BOOLEAN, filter : {TRUE},
     toHttp : {FALSE}, external : {"path"}, base : {"empty"}]

\* ... and configurations that tell who needs a base URL for providers.
UrlConfigs ==
    [apiMode : {FALSE}, defaults : {<<>>}, inserts : {<<>>}, enableInsert : {TRUE},
     prepend : {TRUE}, skip : BOOLEAN, filter : BOOLEAN, toHttp : BOOLEAN,
     external : {"empty", "path"}, base : {"empty", "path"}]

MCConfigs == AccessConfigs \cup InsertConfigs \cup UrlConfigs

Caller(door, trusted, token, baseUrl, toHttp) ==
    [door |-> door, trusted |-> trusted, token |-> token,
     baseUrl |-> baseUrl, toHttp |-> toHttp]

Callers ==
    {Caller("/sub", FALSE, token, TRUE, "unset") : token \in BOOLEAN} \cup
    {Caller("/p", TRUE, FALSE, TRUE, "unset"),
     Caller("library", TRUE, FALSE, FALSE, "unset")}

Asking(c, target, from, config, insert) ==
    [door |-> c.door, trusted |-> c.trusted, token |-> c.token, baseUrl |-> c.baseUrl,
     toHttp |-> c.toHttp, target |-> target, sources |-> from,
     external |-> config, insert |-> insert]

\* Who may read what, for every place a source can be named.
AccessRequests ==
    {Asking(c, "singbox", from, config, insert) :
        c \in Callers,
        from \in {<<>>, <<"shared">>, <<"node">>, <<"remote", "remote">>},
        config \in {"absent", "empty", "remote", "shared"},
        insert \in {"unset", "off"}}

\* Every way to ask for providers and to give their base URL.
UrlRequests ==
    {Asking(Caller(door, door = "/p", FALSE, baseUrl, toHttp), target, from, "absent", "unset") :
        door \in {"/sub", "/p", "library"}, baseUrl \in BOOLEAN,
        toHttp \in {"unset", "on", "off"}, target \in {"clash", "singbox"},
        from \in {<<"remote">>, <<"node", "remote">>}}

MCRequests == AccessRequests \cup UrlRequests

\* Rulesets that are inline, and remote ones, behind every kind of base.
MCExternals ==
    [groups : {TRUE}, generate : BOOLEAN, base : {"absent", "empty", "path"},
     rulesets : {<<"inline">>, <<"remote", "shared">>}]
    \cup [groups : {TRUE}, generate : {TRUE}, base : {"absent"}, rulesets : {<<"remote">>}]
    \cup [groups : {FALSE}, generate : {TRUE}, base : {"absent"}, rulesets : {<<>>}]

=============================================================================
