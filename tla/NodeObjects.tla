----------------------------- MODULE NodeObjects -----------------------------
(***************************************************************************)
(* Reading proxies from the objects of Clash, sing-box and Netch and from  *)
(* the lines of Surge (crates/easysub-core/src/structured.rs).             *)
(***************************************************************************)
EXTENDS NodeLinks

ObjectKind ==
    [shadowsocks |-> "Shadowsocks", ss |-> "Shadowsocks", vmess |-> "Vmess", vless |-> "Vless",
     trojan |-> "Trojan", tuic |-> "Tuic", anytls |-> "Anytls", hysteria2 |-> "Hysteria2",
     hy2 |-> "Hysteria2", http |-> "Http", https |-> "Https", socks |-> "Socks5",
     socks5 |-> "Socks5", snell |-> "Snell", wireguard |-> "Wireguard"]

\* The keys of every field, Clash and sing-box spelling.
ObjectText == [
    group |-> <<"group">>, username |-> <<"username">>, password |-> <<"password", "psk">>,
    uuid |-> <<"uuid">>, method |-> <<"cipher", "method", "security">>, flow |-> <<"flow">>,
    network |-> <<"network">>, host |-> <<"host">>, path |-> <<"path">>,
    plugin |-> <<"plugin">>,
    congestion_control |-> <<"congestion-controller", "congestion_control">>,
    udp_relay_mode |-> <<"udp-relay-mode", "udp_relay_mode">>,
    heartbeat_interval |-> <<"heartbeat-interval", "heartbeat">>,
    obfs |-> <<"obfs">>, obfs_password |-> <<"obfs-password", "obfs_password">>,
    ports |-> <<"ports">>, ca |-> <<"ca">>, ca_str |-> <<"ca-str", "ca_str">>]

ObjectFlags == [udp |-> <<"udp">>, tcp_fast_open |-> <<"tfo", "tcp_fast_open">>]

ObjectNumbers == [
    up_mbps |-> <<"up", "up_mbps">>, down_mbps |-> <<"down", "down_mbps">>, cwnd |-> <<"cwnd">>,
    min_idle_session |-> <<"min-idle-session", "min_idle_session">>,
    snell_version |-> <<"version">>]

ObjectDurations == [
    hop_interval |-> <<"hop-interval", "hop_interval">>,
    idle_session_check_interval |->
        <<"idle-session-check-interval", "idle_session_check_interval">>,
    idle_session_timeout |-> <<"idle-session-timeout", "idle_session_timeout">>]

Fields(object, read(_, _), table) == [f \in DOMAIN table |-> read(object, table[f])]

\* The protocols that are TLS unless they say otherwise.
TlsByDefault == {"Trojan", "Tuic", "Anytls", "Hysteria2"}

\* Mutation: TLS is looked for in one place only.
TlsEnabledByFlag(object) == Boolean(object, <<"tls">>)

TlsEnabled(object) ==
    OrElse(Boolean(object, <<"tls">>), Boolean(object, <<"tls/enabled">>))

\* Mutation: the type alone decides.
KindAsNamed(object) == ObjectKind[Text(object, <<"type">>)]

\* An http proxy with TLS is an https proxy.
KindOf(object) ==
    LET kind == ObjectKind[Text(object, <<"type">>)] IN
    IF kind = "Http" /\ TlsEnabled(object) = "true" THEN "Https" ELSE kind

-----------------------------------------------------------------------------
(* parse_transport: a later form of transport wins over an earlier one *)

HeaderHost(object, path) == Text(object, <<path \o "/headers/Host", path \o "/headers/host">>)

Transport(object) ==
    IF "h2-opts" \in DOMAIN object
    THEN [network |-> "h2", path |-> Text(object, <<"h2-opts/path">>),
          host |-> First(object, <<"h2-opts/host">>)]
    ELSE IF "grpc-opts" \in DOMAIN object
    THEN [network |-> "grpc",
          path |-> Text(object, <<"grpc-opts/grpc-service-name", "grpc-opts/service_name">>)]
    ELSE <<>>

WebSocket(object) ==
    IF "ws-opts" \notin DOMAIN object THEN <<>>
    ELSE [network |-> "ws", path |-> Text(object, <<"ws-opts/path">>),
          host |-> HeaderHost(object, "ws-opts")]

SingboxTransport(object) ==
    IF "transport" \notin DOMAIN object THEN <<>>
    ELSE [network |-> Text(object, <<"transport/type">>),
          path |-> Text(object, <<"transport/path", "transport/service_name">>),
          host |-> NonEmpty(First(object, <<"transport/host">>), HeaderHost(object, "transport"))]

-----------------------------------------------------------------------------
(* parse_tls_details *)

Reality(object) ==
    LET path == IF "reality-opts" \in DOMAIN object THEN "reality-opts" ELSE "tls/reality" IN
    IF path \notin DOMAIN object THEN <<>>
    ELSE [public_key |-> Text(object, <<path \o "/public-key", path \o "/public_key">>),
          short_id |-> Text(object, <<path \o "/short-id", path \o "/short_id">>),
          tls |-> TRUE]

Or(list, other) == IF list = <<>> THEN other ELSE list

TlsDetails(object) ==
    Reality(object) @@
    [alpn |-> Or(List(object, <<"alpn">>), List(object, <<"tls/alpn">>)),
     fingerprint |-> NonEmpty(Text(object, <<"client-fingerprint", "fingerprint">>),
                              Text(object, <<"tls/utls/fingerprint">>))]

\* What an object says of TLS beside its details.
Tls(object, kind) ==
    [server_name |-> NonEmpty(Text(object, <<"servername", "server_name", "sni">>),
                              Text(object, <<"tls/server_name">>)),
     tls |-> IF TlsEnabled(object) = Absent THEN kind \in TlsByDefault
             ELSE TlsEnabled(object) = "true",
     skip_cert_verify |-> OrElse(Boolean(object, <<"skip-cert-verify", "skip_cert_verify">>),
                                 Boolean(object, <<"tls/insecure">>))]

-----------------------------------------------------------------------------
(* parse_wireguard: the values of the first peer, which stand under "peers" *)

Single(text) == IF text = "" THEN <<>> ELSE <<text>>

OfPeer(object, clash, singbox) == IF "peers" \in DOMAIN object THEN singbox ELSE clash

Wireguard(object) ==
    [wireguard_address |-> List(object, <<"address">>)
                           \o Single(Text(object, <<"ip">>)) \o Single(Text(object, <<"ipv6">>)),
     private_key |-> Text(object, <<"private-key", "private_key">>),
     public_key |-> NonEmpty(Text(object, <<"public-key", "public_key">>),
                             Text(object, <<"peers/public_key">>)),
     pre_shared_key |-> NonEmpty(Text(object, <<"pre-shared-key", "pre_shared_key">>),
                                 Text(object, <<"peers/pre_shared_key">>)),
     allowed_ips |-> Or(List(object, OfPeer(object, <<"allowed-ips", "allowed_ips">>,
                                                    <<"peers/allowed_ips">>)), AnyAddress),
     dns_servers |-> List(object, <<"dns">>),
     mtu |-> Number(object, <<"mtu">>),
     persistent_keepalive |->
        OrElse(Number(object, <<"peers/persistent_keepalive">>),
               Number(object, <<"persistent-keepalive", "persistent_keepalive">>)),
     reserved |-> List(object, OfPeer(object, <<"reserved">>, <<"peers/reserved">>))]

-----------------------------------------------------------------------------
Server(object) ==
    NonEmpty(Text(object, <<"server">>),
             IF Text(object, <<"type">>) = "wireguard" THEN Text(object, <<"peers/address">>) ELSE "")

Port(object) ==
    OrElse(Number(object, <<"port", "server_port">>),
           IF Text(object, <<"type">>) = "wireguard" THEN Number(object, <<"peers/port">>) ELSE "")

\* Snell carries its obfuscation in an object.
SnellObfs(object) ==
    IF "obfs-opts" \notin DOMAIN object THEN <<>>
    ELSE [obfs |-> Text(object, <<"obfs-opts/mode">>), host |-> Text(object, <<"obfs-opts/host">>)]

ParseProxy(object) ==
    IF \/ Text(object, <<"type">>) \notin DOMAIN ObjectKind
       \/ Server(object) = ""
       \/ Port(object) \in {"", "0"}
    THEN NoProxy
    ELSE LET kind == KindOf(object) IN
         Named((IF kind = "Wireguard" THEN Wireguard(object) ELSE <<>>)
               @@ TlsDetails(object) @@ Tls(object, kind)
               @@ Transport(object) @@ WebSocket(object) @@ SingboxTransport(object)
               @@ SnellObfs(object)
               @@ Fields(object, Text, ObjectText) @@ Fields(object, Boolean, ObjectFlags)
               @@ Fields(object, Number, ObjectNumbers) @@ Fields(object, Seconds, ObjectDurations)
               @@ [alter_id |-> NonEmpty(Number(object, <<"alterId", "alter_id">>), "0"),
                   plugin_opts |-> ValueText(object, <<"plugin-opts", "plugin_opts">>)]
               @@ NewProxy(kind, Server(object), Port(object)),
               Text(object, <<"name", "tag">>))

-----------------------------------------------------------------------------
(* parse_netch *)

NetchText == [
    group |-> <<"Group">>, username |-> <<"Username">>, password |-> <<"Password">>,
    method |-> <<"EncryptMethod">>, plugin |-> <<"Plugin">>,
    network |-> <<"TransferProtocol">>, host |-> <<"Host">>, path |-> <<"Path">>,
    server_name |-> <<"ServerName">>, flow |-> <<"Flow">>, obfs |-> <<"OBFS">>,
    obfs_password |-> <<"OBFSParam">>, private_key |-> <<"PrivateKey">>,
    public_key |-> <<"PublicKey">>, pre_shared_key |-> <<"PreSharedKey">>]

NetchFlags == [
    udp |-> <<"EnableUDP">>, tcp_fast_open |-> <<"EnableTFO">>,
    skip_cert_verify |-> <<"AllowInsecure">>]

NetchNumbers == [
    snell_version |-> <<"SnellVersion">>, mtu |-> <<"Mtu">>,
    persistent_keepalive |-> <<"KeepAlive">>]

NetchKinds == {
    "ss", "vmess", "vless", "trojan", "socks5", "http", "https", "snell", "wireguard"}

ParseNetch(object) ==
    LET type == Text(object, <<"Type">>)
        server == Text(object, <<"Hostname">>)
        port == Number(object, <<"Port">>)
        secure == Boolean(object, <<"TLSSecure">>)
    IN IF type \notin NetchKinds \/ server = "" \/ port \in {"", "0"} THEN NoProxy
       ELSE Named([uuid |-> NonEmpty(Text(object, <<"UUID">>), Text(object, <<"UserID">>)),
                   alter_id |-> NonEmpty(Number(object, <<"AlterID">>), "0"),
                   plugin_opts |-> ValueText(object, <<"PluginOption">>),
                   tls |-> IF secure = Absent THEN type = "https" ELSE secure = "true",
                   wireguard_address |-> Single(Text(object, <<"SelfIP">>))
                                         \o Single(Text(object, <<"SelfIPv6">>)),
                   allowed_ips |-> Or(List(object, <<"AllowedIPs">>), AnyAddress),
                   dns_servers |-> List(object, <<"DnsServers">>),
                   reserved |-> List(object, <<"ClientId">>)]
                  @@ Fields(object, Text, NetchText) @@ Fields(object, Boolean, NetchFlags)
                  @@ Fields(object, Number, NetchNumbers)
                  @@ NewProxy(ObjectKind[type], server, port),
                  Text(object, <<"Remark">>))

-----------------------------------------------------------------------------
(* parse_surge_proxy: a line is a name, a type, a server, a port and options. *)

SurgeKinds == {
    "ss", "shadowsocks", "vmess", "vless", "trojan", "http", "https", "socks", "socks5", "snell",
    "tuic", "hysteria2"}

SurgeText == [
    password |-> <<"password", "psk">>,
    method |-> <<"encrypt-method", "method", "cipher">>, flow |-> <<"flow">>,
    server_name |-> <<"sni", "servername", "tls-host">>, plugin |-> <<"plugin">>,
    plugin_opts |-> <<"plugin-opts", "plugin-opts-mode">>, obfs |-> <<"obfs">>]

SurgeFlags == [
    skip_cert_verify |-> <<"skip-cert-verify", "insecure">>, udp |-> <<"udp", "udp-relay">>,
    tcp_fast_open |-> <<"tfo">>]

\* An option that is there and is no boolean counts as none.
SurgeFlag(options, keys) == AsBoolean(Text(options, keys))

SurgeTransport(options, kind) ==
    LET network == Text(options, <<"network">>)
        host == Text(options, <<"obfs-host", "host">>)
    IN IF SurgeFlag(options, <<"ws">>) = "true" \/ network = "ws"
       THEN [network |-> "ws", path |-> Text(options, <<"ws-path", "path">>),
             host |-> NonEmpty(Text(options, <<"ws-headers">>), host)]
       ELSE [network |-> IF kind \in {"Vmess", "Vless", "Trojan"} THEN NonEmpty(network, "tcp")
                         ELSE network,
             host |-> host]

ParseSurge(line) ==
    IF line.type \notin SurgeKinds \/ line.server = "" \/ line.port \in {"", "0"} THEN NoProxy
    ELSE LET options == line.options
             kind == ObjectKind[line.type]
             tls == SurgeFlag(options, <<"tls">>)
             uuid == Text(options, <<"uuid", "username">>)
             user == Text(options, <<"username", "user">>)
             moved == kind = "Vless" /\ uuid = ""
         IN [name |-> line.name,
             uuid |-> IF moved THEN user ELSE uuid,
             username |-> IF moved THEN "" ELSE user,
             alter_id |-> NonEmpty(AsNumber(Text(options, <<"alter-id", "alterid">>)), "0"),
             tls |-> IF tls = Absent THEN kind = "Trojan" ELSE tls = "true",
             snell_version |-> AsNumber(Text(options, <<"version">>))]
            @@ SurgeTransport(options, kind)
            @@ Fields(options, Text, SurgeText) @@ Fields(options, SurgeFlag, SurgeFlags)
            @@ NewProxy(kind, line.server, line.port)

=============================================================================
