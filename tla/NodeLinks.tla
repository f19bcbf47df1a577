------------------------------ MODULE NodeLinks ------------------------------
(***************************************************************************)
(* Reading proxy links (crates/easysub-core/src/parser.rs).  A link is     *)
(* taken apart into its scheme, user, secret, host, port, path, fragment   *)
(* and query, after the percent and base64 decoding of its shape; the      *)
(* decoded fields of a VMess payload and of a Telegram link are its query. *)
(* What cannot be read is NoProxy.                                         *)
(***************************************************************************)
EXTENDS ProxyModel

NoProxy == [kind |-> "none"]

\* The protocol of every scheme the parser knows.
LinkKind ==
    [vless |-> "Vless", vless1 |-> "Vless", trojan |-> "Trojan", tuic |-> "Tuic",
     anytls |-> "Anytls", hysteria2 |-> "Hysteria2", hy2 |-> "Hysteria2", socks |-> "Socks5",
     socks5 |-> "Socks5", snell |-> "Snell", http |-> "Http", https |-> "Https"]

VmessForms == {"vmess json", "vmess url", "vmess standard", "vmess rocket", "vmess quan"}

TelegramKind == ("tg socks" :> "Socks5") @@ ("tg http" :> "Http") @@ ("tg https" :> "Https")

Schemes == DOMAIN LinkKind \cup VmessForms \cup DOMAIN TelegramKind \cup {"ss", "Netch"}

Value(link, keys) == Text(link.query, keys)

\* The first key there is decides, although its value may not be readable.
Flag(link, keys) == AsBoolean(Value(link, keys))
Amount(link, keys) == AsNumber(Value(link, keys))

Rooted(path) == IF path = "" \/ SubSeq(path, 1, 1) = "/" THEN path ELSE "/" \o path

\* port_or_known_default: only the web schemes have one.
KnownPort(link) ==
    IF link.port # "" THEN link.port
    ELSE IF link.scheme = "http" THEN "80" ELSE IF link.scheme = "https" THEN "443" ELSE ""

Named(proxy, name) ==
    [proxy EXCEPT !.name = NonEmpty(name, EndpointName(proxy.server, proxy.port))]

-----------------------------------------------------------------------------
(* parse_url_proxy *)

\* The fields every scheme takes from the query.
QueryText == [
    server_name |-> <<"sni", "peer", "servername">>,
    fingerprint |-> <<"fp", "fingerprint", "pinSHA256", "hpkp">>,
    public_key |-> <<"pbk", "public_key">>,
    short_id |-> <<"sid", "short_id">>,
    obfs |-> <<"obfs">>,
    obfs_password |-> <<"obfs-password", "obfs_password">>,
    group |-> <<"group">>]

QueryFlags == [
    skip_cert_verify |-> <<"insecure", "allowInsecure">>,
    tcp_fast_open |-> <<"tfo", "fast_open">>]

QueryAmounts == [
    up_mbps |-> <<"upmbps", "up">>,
    down_mbps |-> <<"downmbps", "down">>,
    idle_session_check_interval |-> <<"idle_session_check_interval">>,
    idle_session_timeout |-> <<"idle_session_timeout">>,
    min_idle_session |-> <<"min_idle_session">>]

TuicText == [
    congestion_control |-> <<"congestion_control">>,
    udp_relay_mode |-> <<"udp_relay_mode">>,
    heartbeat_interval |-> <<"heartbeat_interval", "heartbeat">>]

TuicFlags == [f \in {"disable_sni", "reduce_rtt", "fast_open"} |-> <<f>>]
TuicAmounts == [f \in {"request_timeout", "max_udp_relay_packet_size", "max_open_streams"} |-> <<f>>]

Texts(link, table) == [f \in DOMAIN table |-> Value(link, table[f])]
Flags(link, table) == [f \in DOMAIN table |-> Flag(link, table[f])]
Amounts(link, table) == [f \in DOMAIN table |-> Amount(link, table[f])]

\* The query of an input has its alpn split at the commas.
Common(link) ==
    Texts(link, QueryText) @@ Flags(link, QueryFlags) @@ Amounts(link, QueryAmounts)
    @@ [alpn |-> List(link.query, <<"alpn">>)]

Network(link) == Value(link, <<"type", "network">>)

\* The secret of a scheme that has one may stand in the place of the user.
SecretOr(link, keys) ==
    IF link.secret # "" THEN link.secret
    ELSE IF link.user # "" THEN link.user ELSE Value(link, keys)

\* The user is what is left of it.
UserBeside(link) == IF link.secret # "" THEN link.user ELSE ""

TrojanNetwork(link) ==
    IF Flag(link, <<"ws">>) = "true" THEN "ws" ELSE NonEmpty(Network(link), "tcp")

\* What a kind adds to or puts before the common fields.
Special(link, kind) ==
    CASE kind = "Vless" ->
            [uuid |-> link.user, username |-> "", flow |-> Value(link, <<"flow">>),
             network |-> NonEmpty(Network(link), "tcp"),
             tls |-> Value(link, <<"security">>) \in {"tls", "reality", "xtls"}]
      [] kind = "Trojan" ->
            [password |-> SecretOr(link, <<"password", "auth">>), username |-> UserBeside(link),
             tls |-> TRUE, network |-> TrojanNetwork(link)]
      [] kind \in {"Hysteria2", "Anytls"} ->
            [password |-> SecretOr(link, <<"password", "auth">>), username |-> UserBeside(link),
             tls |-> TRUE]
      [] kind = "Tuic" ->
            [uuid |-> NonEmpty(link.user, Value(link, <<"uuid">>)), username |-> "",
             password |-> NonEmpty(link.secret, Value(link, <<"password">>)), tls |-> TRUE]
            @@ Texts(link, TuicText) @@ Flags(link, TuicFlags) @@ Amounts(link, TuicAmounts)
      [] kind = "Snell" ->
            [password |-> SecretOr(link, <<"psk", "password">>), username |-> UserBeside(link),
             snell_version |-> Amount(link, <<"version">>),
             host |-> Value(link, <<"obfs-host", "obfs_host", "host">>)]
      [] OTHER -> [username |-> link.user]

Hysteria2Fields(link, port) ==
    [ports |-> NonEmpty(Value(link, <<"ports", "mport">>), port),
     ca |-> Value(link, <<"ca">>), ca_str |-> Value(link, <<"ca_str">>),
     cwnd |-> Amount(link, <<"cwnd">>), hop_interval |-> Amount(link, <<"hop_interval">>)]

\* The host and path of the query win over those of the kind.
Located(link, proxy) ==
    LET host == NonEmpty(Value(link, <<"host">>), proxy.host)
        network == NonEmpty(proxy.network, Network(link))
    IN [proxy EXCEPT
            !.network = network,
            !.path = NonEmpty(Value(link, <<"path", "wspath", "serviceName", "key">>), proxy.path),
            !.host = IF proxy.kind = "Trojan" /\ network = "ws"
                     THEN NonEmpty(host, proxy.server_name) ELSE host]

ParseUrlProxy(link, kind) ==
    LET port == KnownPort(link) IN
    IF link.host = "" \/ port = "" THEN NoProxy
    ELSE LET fields ==
                (IF kind = "Hysteria2" THEN Hysteria2Fields(link, port) ELSE <<>>)
                @@ Common(link)
                @@ Special(link, kind)
                @@ [username |-> link.user, password |-> link.secret]
                @@ NewProxy(kind, link.host, port)
         IN Located(link, Named(fields, link.fragment))

-----------------------------------------------------------------------------
(* The other shapes *)

\* parse_telegram_proxy
ParseTelegram(link, kind) ==
    LET server == Value(link, <<"server">>)
        port == Amount(link, <<"port">>)
    IN IF server = "" \/ port = "" THEN NoProxy
       ELSE Named([username |-> Value(link, <<"user", "username">>),
                   password |-> Value(link, <<"pass", "password">>),
                   group |-> Value(link, <<"group">>), tls |-> kind = "Https"]
                  @@ NewProxy(kind, server, port),
                  Value(link, <<"remarks">>))

\* parse_shadowsocks: the user and the secret are the method and the password.
ParseShadowsocks(link) ==
    IF link.host = "" \/ link.port = "" \/ link.user = "" THEN NoProxy
    ELSE Named([method |-> link.user, password |-> link.secret,
                plugin |-> Value(link, <<"plugin">>),
                plugin_opts |-> Value(link, <<"plugin-opts">>)]
               @@ NewProxy("Shadowsocks", link.host, link.port),
               link.fragment)

\* apply_vmess_defaults
VmessDefaults(proxy) ==
    [proxy EXCEPT
        !.network = NonEmpty(@, "tcp"),
        !.path = NonEmpty(@, "/"),
        !.host = IF @ = "" /\ proxy.server \notin Addresses THEN proxy.server ELSE @]

Alter(number) == NonEmpty(number, "0")

\* An old payload puts the path into the host: "host;" is what follows the semicolon.
JsonHost(link) ==
    LET host == Value(link, <<"host">>)
        behind == Value(link, <<"host;">>)
    IN IF behind = "" THEN [host |-> host, path |-> Value(link, <<"path">>)]
       ELSE IF Value(link, <<"v">>) \in {"", "1"} THEN [host |-> host, path |-> behind]
       ELSE [host |-> host \o ";" \o behind, path |-> Value(link, <<"path">>)]

\* parse_vmess_json
JsonFields(link) ==
    JsonHost(link) @@
    [uuid |-> Value(link, <<"id">>), alter_id |-> Alter(Amount(link, <<"aid">>)),
     network |-> Value(link, <<"net">>), server_name |-> Value(link, <<"sni">>),
     tls |-> Value(link, <<"tls">>) \notin {"", "none"},
     method |-> NonEmpty(Value(link, <<"scy">>), "auto"), name |-> Value(link, <<"ps">>)]

\* parse_vmess_url: a standard URL has its transport and security before the credential.
UrlFields(link) ==
    (IF link.scheme = "vmess standard"
     THEN [network |-> Value(link, <<"+transport">>), tls |-> Value(link, <<"+security">>) = "tls"]
     ELSE [network |-> NonEmpty(Value(link, <<"network">>), "tcp"),
           tls |-> Flag(link, <<"tls">>) = "true"])
    @@ [uuid |-> link.user, alter_id |-> Alter(link.secret),
        method |-> NonEmpty(Value(link, <<"security", "cipher">>), "auto"),
        host |-> Value(link, <<"host", "ws.host">>),
        path |-> Rooted(NonEmpty(Value(link, <<"path", "key">>), link.path)),
        server_name |-> Value(link, <<"sni", "peer">>), name |-> link.fragment]

\* parse_vmess_shadowrocket
RocketFields(link) ==
    [uuid |-> link.secret, alter_id |-> Alter(Amount(link, <<"aid">>)),
     method |-> NonEmpty(link.user, "auto"),
     network |-> IF Value(link, <<"obfs">>) = "websocket" THEN "ws"
                 ELSE NonEmpty(Value(link, <<"network">>), "tcp"),
     host |-> Value(link, <<"obfsParam", "wsHost">>), path |-> Value(link, <<"path", "wspath">>),
     tls |-> Flag(link, <<"tls">>) = "true", name |-> Value(link, <<"remarks">>)]

\* parse_vmess_quan
QuanFields(link) ==
    [uuid |-> link.secret, method |-> link.user, group |-> Value(link, <<"group">>),
     tls |-> Value(link, <<"over-tls">>) = "true",
     server_name |-> Value(link, <<"tls-host">>), path |-> Value(link, <<"obfs-path">>),
     network |-> IF Value(link, <<"obfs">>) = "ws" THEN "ws" ELSE "tcp",
     host |-> Value(link, <<"obfs-header">>), name |-> link.fragment]

VmessFields(link) ==
    CASE link.scheme = "vmess json" -> JsonFields(link)
      [] link.scheme \in {"vmess url", "vmess standard"} -> UrlFields(link)
      [] link.scheme = "vmess rocket" -> RocketFields(link)
      [] link.scheme = "vmess quan" -> QuanFields(link)

\* parse_vmess: the texts inside a payload need no server, and only URLs need a UUID.
ParseVmess(link) ==
    LET fields == VmessFields(link)
        proxy == fields @@ NewProxy("Vmess", link.host, link.port)
    IN IF \/ link.port = ""
          \/ link.host = "" /\ link.scheme \notin {"vmess json", "vmess quan"}
          \/ link.user = "" /\ link.scheme \in {"vmess url", "vmess standard"}
       THEN NoProxy
       ELSE VmessDefaults(IF link.scheme = "vmess quan" THEN proxy ELSE Named(proxy, fields.name))

=============================================================================
