----------------------------- MODULE ProxyChain -----------------------------
(***************************************************************************)
(* A subscription is read into proxies and written for a client; what was  *)
(* written can be the subscription of another deployment, and so on.  A    *)
(* text is a list of lines, a Surge configuration or a structured one; its *)
(* `links` are the lines that are links wherever they stand.               *)
(***************************************************************************)
EXTENDS NodeObjects, NodeWriters

CONSTANTS
    Texts0,       \* the subscriptions a chain may start with
    Preferences,  \* values of node_pref: udp, tcp_fast_open, skip_cert_verify
    MaxHops       \* how often a chain converts

VARIABLES
    text,      \* the subscription to be read next
    prefer,    \* node_pref, the same in every deployment
    nodes,     \* the proxies of the last subscription
    before,    \* the proxies `text` was written from
    first,     \* the proxies of the first subscription
    via,       \* the target `text` was written for
    phase,     \* "read": text is to be read; "write"; "failed"
    hops,      \* conversions so far
    streak     \* how many of the last ones were for the same target

vars == <<text, prefer, nodes, before, first, via, phase, hops, streak>>

\* parse_node: the scheme decides.
ParseNode(link) ==
    CASE link.scheme = "ss" -> ParseShadowsocks(link)
      [] link.scheme \in VmessForms -> ParseVmess(link)
      [] link.scheme \in DOMAIN TelegramKind -> ParseTelegram(link, TelegramKind[link.scheme])
      [] link.scheme = "Netch" -> ParseNetch(link.query)
      [] link.scheme \in DOMAIN LinkKind -> ParseUrlProxy(link, LinkKind[link.scheme])
      [] OTHER -> NoProxy

Proxies(list) == SelectSeq(list, LAMBDA proxy : proxy # NoProxy)

InGroup(list, group) == [k \in DOMAIN list |-> [list[k] EXCEPT !.group_id = group]]

ReadLines(list) == Proxies([k \in DOMAIN list |-> ParseNode(list[k])])

\* The lists of a structured configuration, in the order of the parser's keys.
ReadObjects(document) ==
    LET all == document.proxies \o document.outbounds \o document.endpoints
    IN Proxies([k \in DOMAIN all |-> ParseProxy(all[k])])

ReadSurge(list) == Proxies([k \in DOMAIN list |-> ParseSurge(list[k])])

\* Only a text of one line is taken for base64, and only one that is no link.
ReadPlain(document) ==
    IF document.form = "lines" /\ document.encoded = "wrapped" THEN <<>>
    ELSE ReadLines(document.links)

ReadStructured(document) ==
    CASE document.form = "lines" -> <<>>
      [] document.form = "surge" -> ReadSurge(document.lines)
      [] document.form = "objects" -> ReadObjects(document)

\* A configuration without a proxy is read for links like any other text.
ParseSubscription(document) == Or(ReadStructured(document), ReadPlain(document))

\* apply_node_options
ApplyNodeOptions(proxy) ==
    [proxy EXCEPT
        !.udp = OrElse(prefer.udp, @),
        !.tcp_fast_open = OrElse(prefer.tcp_fast_open, @),
        !.skip_cert_verify = OrElse(prefer.skip_cert_verify, @)]

-----------------------------------------------------------------------------
Init ==
    /\ text \in Texts0
    /\ prefer \in Preferences
    /\ nodes = <<>>
    /\ before = <<>>
    /\ first = <<>>
    /\ via = "source"
    /\ phase = "read"
    /\ hops = 0
    /\ streak = 0

\* parse_subscription: a text without a proxy is refused.
Refuse ==
    /\ phase = "read"
    /\ ParseSubscription(text) = <<>>
    /\ phase' = "failed"
    /\ UNCHANGED <<text, prefer, nodes, before, first, via, hops, streak>>

Read ==
    /\ phase = "read"
    /\ LET read == InGroup(ParseSubscription(text), hops)
           list == [k \in DOMAIN read |-> ApplyNodeOptions(read[k])]
       IN /\ list # <<>>
          /\ nodes' = list
          /\ first' = IF hops = 0 THEN list ELSE first
    /\ phase' = "write"
    /\ UNCHANGED <<text, prefer, before, via, hops, streak>>

Written(target, document) ==
    /\ phase = "write"
    /\ hops < MaxHops
    /\ text' = document
    /\ before' = nodes
    /\ via' = target
    /\ phase' = "read"
    /\ hops' = hops + 1
    /\ streak' = IF via = target THEN streak + 1 ELSE 1
    /\ UNCHANGED <<prefer, nodes, first>>

WriteClash ==
    Written("clash",
            [form |-> "objects", links |-> <<>>,
             proxies |-> [k \in DOMAIN nodes |-> ClashValue(nodes[k])],
             outbounds |-> <<>>, endpoints |-> <<>>])

OfKind(list, kinds) == SelectSeq(list, LAMBDA proxy : proxy.kind \in kinds)

Values(list, value(_)) == [k \in DOMAIN list |-> value(list[k])]

\* Wireguard has a list of its own, Snell is left out.
Outbounds(list) == Values(OfKind(list, ProxyKinds \ {"Wireguard", "Snell"}), SingboxValue)
Endpoints(list) == Values(OfKind(list, {"Wireguard"}), WireguardValue)

DirectOutbound == [type |-> "direct", tag |-> "DIRECT"]

WriteSingbox ==
    Written("singbox",
            [form |-> "objects", links |-> <<>>, proxies |-> <<>>,
             outbounds |-> Append(Outbounds(nodes), DirectOutbound),
             endpoints |-> Endpoints(nodes)])

Next == Refuse \/ Read \/ WriteClash \/ WriteSingbox

Spec == Init /\ [][Next]_vars

-----------------------------------------------------------------------------
(* What a proxy connects to and how *)

Secured(proxy) == proxy.tls \/ proxy.kind = "Https"

Carried(proxy) ==
    IF proxy.kind \notin {"Vmess", "Vless", "Trojan"} THEN <<>>
    ELSE [network |-> NonEmpty(proxy.network, "tcp")]
         @@ When(proxy.network \in {"ws", "h2"}, [path |-> proxy.path, host |-> proxy.host])
         @@ When(proxy.network = "grpc", [path |-> proxy.path])

\* The credentials that are the protocol's own.
Credential == [
    Shadowsocks |-> {"method", "password", "plugin", "plugin_opts"}, Vmess |-> {"uuid", "alter_id"},
    Vless |-> {"uuid", "flow"}, Trojan |-> {"password"}, Tuic |-> {"uuid", "password"},
    Anytls |-> {"password"}, Hysteria2 |-> {"password"}, Http |-> {"username", "password"},
    Https |-> {"username", "password"}, Socks5 |-> {"username", "password"},
    Snell |-> {"password"}, Wireguard |-> {"private_key", "public_key", "pre_shared_key"}]

Credentials(proxy) == [field \in Credential[proxy.kind] |-> proxy[field]]

Endpoint(proxy) == [field \in {"kind", "name", "server", "port"} |-> proxy[field]]

Verified(proxy) ==
    IF ~Secured(proxy) \/ proxy.kind = "Https" THEN <<>>
    ELSE [server_name |-> proxy.server_name,
          skip_cert_verify |-> OrElse(proxy.skip_cert_verify, "false"),
          reality |-> IF proxy.kind \in {"Vmess", "Vless"} THEN proxy.public_key ELSE ""]

Connection(proxy) ==
    [endpoint |-> Endpoint(proxy), credentials |-> Credentials(proxy), carried |-> Carried(proxy),
     secured |-> Secured(proxy), verified |-> Verified(proxy)]

-----------------------------------------------------------------------------
(* Properties *)

\* Links may have the port 0 and payloads no server, which no configuration may.
Expressible(list) == SelectSeq(list, LAMBDA proxy : proxy.port # "0" /\ proxy.server # "")

\* Clash knows no Trojan, TUIC, AnyTLS or Hysteria2 without TLS; how to verify
\* is not written for a Trojan that had TLS turned off.
AsClash(proxy) ==
    [proxy EXCEPT
        !.tls = @ \/ proxy.kind \in TlsByDefault,
        !.skip_cert_verify = IF proxy.kind = "Trojan" /\ ~proxy.tls THEN Absent ELSE @]

ClashConnection(proxy) == Connection(AsClash(proxy))

ClashReadsBack ==
    via = "clash" /\ phase = "write" /\ prefer.skip_cert_verify = Absent =>
        Values(nodes, ClashConnection) = Values(Expressible(before), ClashConnection)

\* What sing-box calls http is h2 or http, a WebSocket has a path, and an http
\* transport has a place for both.
AsSingbox(proxy) ==
    [proxy EXCEPT
        !.network = IF @ = "h2" THEN "http" ELSE @,
        !.path = IF proxy.network = "ws" THEN NonEmpty(@, "/") ELSE @]

Singboxed(list) ==
    OfKind(list, ProxyKinds \ {"Wireguard", "Snell"}) \o OfKind(list, {"Wireguard"})

\* The transports sing-box has; any other network is not written.
Transported(proxy) ==
    IF proxy.network \in {"ws", "grpc", "http"} THEN proxy ELSE [proxy EXCEPT !.network = "tcp"]

SingboxConnection(proxy) == Connection(Transported(AsSingbox(proxy)))

\* TUIC, AnyTLS and Hysteria2 without TLS are written without, and read with.
NeedsTls(proxy) == proxy.kind \in TlsByDefault => proxy.tls

SingboxReadsBack ==
    via = "singbox" /\ phase = "write" /\ (\A k \in DOMAIN before : NeedsTls(before[k])) =>
        Values(nodes, SingboxConnection)
            = Values(Singboxed(Expressible(before)), SingboxConnection)

\* A Clash configuration read again has every proxy at its place, with its
\* endpoint, credentials, transport and TLS, and Reality for VMess and VLESS; a
\* sing-box configuration has every proxy sing-box knows, endpoints last
\* (proxy_value in clash.rs and singbox.rs against parse_proxy in
\* structured.rs).  Not compared are alpn, fingerprints, and the path and host of
\* an http transport.
ExportsReadBack == ClashReadsBack /\ SingboxReadsBack

SaysTls(object) ==
    \/ TlsEnabled(object) = "true"
    \/ via = "clash" /\ object.type \in {"trojan", "tuic", "anytls", "hysteria2"}

TlsKinds == TlsByDefault \cup {"Vmess", "Vless", "Https"}

Listed == text.proxies \o text.outbounds

\* A proxy that was secured by TLS in the first subscription is secured in every
\* configuration written along the chain, whatever the targets on the way.
TlsIsNeverLost ==
    via # "source" =>
        \A k \in DOMAIN first : \A j \in DOMAIN Listed :
            /\ first[k].kind \in TlsKinds /\ Secured(first[k])
            /\ Text(Listed[j], <<"name", "tag">>) = first[k].name
            => SaysTls(Listed[j])

Rewrites == phase = "write" /\ phase' = "read" /\ via' = via /\ streak >= 2

\* What a target has no place for is lost once: from its second writing on, the
\* same target is given the same configuration again and again.
ChainSettles == [][Rewrites => text' = text]_vars

=============================================================================
