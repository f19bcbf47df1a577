----------------------------- MODULE NodeWriters -----------------------------
(***************************************************************************)
(* Writing a proxy into a Clash configuration and into a sing-box one      *)
(* (proxy_value and what it calls, crates/easysub-core/src/export/clash.rs *)
(* and singbox.rs).  A key that is written whatever its value is in a      *)
(* table of its own; every other key is left out when it has no value.     *)
(***************************************************************************)
EXTENDS ProxyModel

\* insert, insert_nonempty, insert_option, and the lists.
Always(proxy, table) == [key \in DOMAIN table |-> proxy[table[key]]]

IfAny(proxy, table) ==
    [key \in {k \in DOMAIN table : proxy[table[k]] # ""} |-> proxy[table[key]]]

IfSome(proxy, table) ==
    [key \in {k \in DOMAIN table : proxy[table[k]] # <<>>} |-> proxy[table[key]]]

\* insert_duration
Timed(proxy, table) ==
    [key \in {k \in DOMAIN table : proxy[table[k]] # ""} |-> proxy[table[key]] \o "s"]

When(condition, object) == IF condition THEN object ELSE <<>>

\* The first address of a version.
AddressOf(proxy, versionSix) ==
    SelectSeq(proxy.wireguard_address, LAMBDA address :
        versionSix <=> \E k \in 1 .. Len(address) : SubSeq(address, k, k) = ":")

-----------------------------------------------------------------------------
(* Clash *)

ClashType == [
    Shadowsocks |-> "ss", Vmess |-> "vmess", Vless |-> "vless", Trojan |-> "trojan",
    Http |-> "http", Https |-> "http", Socks5 |-> "socks5", Snell |-> "snell",
    Wireguard |-> "wireguard", Tuic |-> "tuic", Anytls |-> "anytls", Hysteria2 |-> "hysteria2"]

ClashAlways == [
    Shadowsocks |-> [cipher |-> "method", password |-> "password"],
    Vmess |-> [uuid |-> "uuid", alterId |-> "alter_id"],
    Vless |-> [uuid |-> "uuid"],
    Trojan |-> [password |-> "password"],
    Tuic |-> [uuid |-> "uuid", password |-> "password"],
    Anytls |-> [password |-> "password"],
    Hysteria2 |-> [password |-> "password"],
    Snell |-> [psk |-> "password"],
    Http |-> <<>>, Https |-> <<>>, Socks5 |-> <<>>, Wireguard |-> <<>>]

Login == [username |-> "username", password |-> "password"]

ClashOptional == [
    Shadowsocks |-> ("plugin" :> "plugin") @@ ("plugin-opts" :> "plugin_opts"),
    Vmess |-> <<>>,
    Vless |-> [flow |-> "flow"],
    Trojan |-> <<>>,
    Tuic |-> ("heartbeat-interval" :> "heartbeat_interval") @@ ("disable-sni" :> "disable_sni")
             @@ ("reduce-rtt" :> "reduce_rtt") @@ ("request-timeout" :> "request_timeout")
             @@ ("congestion-controller" :> "congestion_control")
             @@ ("udp-relay-mode" :> "udp_relay_mode")
             @@ ("max-udp-relay-packet-size" :> "max_udp_relay_packet_size")
             @@ ("max-open-streams" :> "max_open_streams") @@ ("fast-open" :> "fast_open"),
    Anytls |-> ("idle-session-check-interval" :> "idle_session_check_interval")
               @@ ("idle-session-timeout" :> "idle_session_timeout")
               @@ ("min-idle-session" :> "min_idle_session"),
    Hysteria2 |-> [obfs |-> "obfs", ports |-> "ports", up |-> "up_mbps", down |-> "down_mbps",
                   ca |-> "ca", cwnd |-> "cwnd"]
                  @@ ("obfs-password" :> "obfs_password") @@ ("ca-str" :> "ca_str")
                  @@ ("hop-interval" :> "hop_interval"),
    Snell |-> [version |-> "snell_version"],
    Http |-> Login, Https |-> Login, Socks5 |-> Login,
    Wireguard |-> ("private-key" :> "private_key") @@ ("public-key" :> "public_key")
                  @@ ("pre-shared-key" :> "pre_shared_key") @@ ("mtu" :> "mtu")
                  @@ ("persistent-keepalive" :> "persistent_keepalive")]

\* add_transport of the Clash exporter
ClashOptions(proxy) ==
    CASE proxy.network = "ws" ->
            ("ws-opts" :> Nested) @@ ("ws-opts/path" :> proxy.path)
            @@ When(proxy.host # "", ("ws-opts/headers" :> Nested)
                                     @@ ("ws-opts/headers/Host" :> proxy.host))
      [] proxy.network = "http" ->
            ("http-opts" :> Nested) @@ ("http-opts/method" :> "GET")
            @@ ("http-opts/path" :> <<proxy.path>>) @@ ("http-opts/headers" :> Nested)
            @@ When(proxy.host # "", "http-opts/headers/Host" :> <<proxy.host>>)
      [] proxy.network = "grpc" ->
            ("grpc-opts" :> Nested) @@ ("grpc-opts/grpc-service-name" :> proxy.path)
      [] proxy.network = "h2" ->
            ("h2-opts" :> Nested) @@ ("h2-opts/host" :> <<proxy.host>>)
            @@ ("h2-opts/path" :> proxy.path)
      [] OTHER -> <<>>

\* add_tls of the Clash exporter
ClashTls(proxy) ==
    IfAny(proxy, ("servername" :> "server_name") @@ ("client-fingerprint" :> "fingerprint")
                 @@ ("skip-cert-verify" :> "skip_cert_verify"))
    @@ When(proxy.public_key # "",
            ("reality-opts" :> Nested) @@ ("reality-opts/public-key" :> proxy.public_key)
            @@ ("reality-opts/short-id" :> proxy.short_id))
    @@ IfSome(proxy, [alpn |-> "alpn"])

\* add_native_tls
NativeTls(proxy) ==
    IfAny(proxy, [sni |-> "server_name", fingerprint |-> "fingerprint"]
                 @@ ("skip-cert-verify" :> "skip_cert_verify"))
    @@ IfSome(proxy, [alpn |-> "alpn"])

ClashTransport(proxy) ==
    IfAny(proxy, [network |-> "network"]) @@ ClashOptions(proxy)
    @@ When(proxy.tls, ("tls" :> "true") @@ ClashTls(proxy))

Without(object, keys) == [key \in DOMAIN object \ keys |-> object[key]]

\* Trojan always is TLS, and has a key of its own for the server name.
TrojanTransport(proxy) ==
    Without(ClashTransport(proxy),
            {"tls", "servername"} \cup (IF proxy.network = "tcp" THEN {"network"} ELSE {}))
    @@ IfAny(proxy, [sni |-> "server_name"])

ClashKeys(proxy) ==
    CASE proxy.kind = "Vmess" -> [cipher |-> NonEmpty(proxy.method, "auto")] @@ ClashTransport(proxy)
      [] proxy.kind = "Vless" -> ClashTransport(proxy)
      [] proxy.kind = "Trojan" -> TrojanTransport(proxy)
      [] proxy.kind = "Tuic" -> [version |-> "5"] @@ NativeTls(proxy)
      [] proxy.kind \in {"Anytls", "Hysteria2"} -> NativeTls(proxy)
      [] proxy.kind = "Https" -> [tls |-> "true"]
      [] proxy.kind = "Snell" ->
            When(proxy.obfs # "" \/ proxy.host # "",
                 ("obfs-opts" :> Nested) @@ ("obfs-opts/mode" :> proxy.obfs)
                 @@ ("obfs-opts/host" :> proxy.host))
      [] proxy.kind = "Wireguard" ->
            LET four == AddressOf(proxy, FALSE)
                six == AddressOf(proxy, TRUE)
            IN When(four # <<>>, [ip |-> four[1]]) @@ When(six # <<>>, [ipv6 |-> six[1]])
               @@ IfSome(proxy, ("allowed-ips" :> "allowed_ips") @@ ("dns" :> "dns_servers")
                                @@ ("reserved" :> "reserved"))
      [] OTHER -> <<>>

\* proxy_value of the Clash exporter
ClashValue(proxy) ==
    [type |-> ClashType[proxy.kind]]
    @@ Always(proxy, [name |-> "name", server |-> "server", port |-> "port"])
    @@ Always(proxy, ClashAlways[proxy.kind]) @@ IfAny(proxy, ClashOptional[proxy.kind])
    @@ ClashKeys(proxy) @@ IfAny(proxy, [udp |-> "udp", tfo |-> "tcp_fast_open"])

-----------------------------------------------------------------------------
(* sing-box *)

SingboxType == [ClashType EXCEPT !.Shadowsocks = "shadowsocks", !.Socks5 = "socks"]

SingboxAlways == [
    Shadowsocks |-> [method |-> "method", password |-> "password"],
    Vmess |-> [uuid |-> "uuid", alter_id |-> "alter_id"],
    Vless |-> [uuid |-> "uuid"],
    Trojan |-> [password |-> "password"],
    Tuic |-> [uuid |-> "uuid", password |-> "password"],
    Anytls |-> [password |-> "password"],
    Hysteria2 |-> [password |-> "password"],
    Http |-> <<>>, Https |-> <<>>, Socks5 |-> <<>>]

SingboxOptional == [
    Shadowsocks |-> [plugin |-> "plugin", plugin_opts |-> "plugin_opts"],
    Vless |-> [flow |-> "flow"],
    Tuic |-> [congestion_control |-> "congestion_control", udp_relay_mode |-> "udp_relay_mode",
              heartbeat |-> "heartbeat_interval"],
    Anytls |-> [min_idle_session |-> "min_idle_session"],
    Hysteria2 |-> [up_mbps |-> "up_mbps", down_mbps |-> "down_mbps"],
    Vmess |-> <<>>, Trojan |-> <<>>,
    Http |-> Login, Https |-> Login, Socks5 |-> Login]

SingboxDurations == [
    Anytls |-> [idle_session_check_interval |-> "idle_session_check_interval",
                idle_session_timeout |-> "idle_session_timeout"],
    Hysteria2 |-> [hop_interval |-> "hop_interval"]]

\* add_transport of the sing-box exporter
SingboxTransportOf(proxy) ==
    LET host == When(proxy.host # "", "transport/headers/Host" :> proxy.host) IN
    CASE proxy.network = "ws" ->
            ("transport" :> Nested) @@ ("transport/type" :> "ws")
            @@ ("transport/path" :> NonEmpty(proxy.path, "/"))
            @@ ("transport/headers" :> Nested) @@ host
      [] proxy.network = "grpc" ->
            ("transport" :> Nested) @@ ("transport/type" :> "grpc")
            @@ ("transport/service_name" :> proxy.path)
      [] proxy.network \in {"http", "h2"} ->
            ("transport" :> Nested) @@ ("transport/type" :> "http")
            @@ ("transport/host" :> <<proxy.host>>) @@ ("transport/path" :> proxy.path)
            @@ ("transport/headers" :> Nested) @@ host
      [] OTHER -> <<>>

\* add_tls of the sing-box exporter
SingboxTls(proxy) ==
    When(proxy.tls,
         ("tls" :> Nested) @@ ("tls/enabled" :> "true")
         @@ IfAny(proxy, "tls/server_name" :> "server_name")
         @@ ("tls/insecure" :> OrElse(proxy.skip_cert_verify, "false"))
         @@ (IF proxy.alpn # <<>> THEN "tls/alpn" :> proxy.alpn
             ELSE When(proxy.kind = "Trojan", "tls/alpn" :> <<"h2", "http/1.1">>))
         @@ When(proxy.public_key # "",
                 ("tls/reality" :> Nested) @@ ("tls/reality/enabled" :> "true")
                 @@ ("tls/reality/public_key" :> proxy.public_key)
                 @@ ("tls/reality/short_id" :> proxy.short_id)))

SingboxKeys(proxy) ==
    CASE proxy.kind = "Vmess" ->
            [security |-> NonEmpty(proxy.method, "auto")]
            @@ SingboxTransportOf(proxy) @@ SingboxTls(proxy)
      [] proxy.kind \in {"Vless", "Trojan"} -> SingboxTransportOf(proxy) @@ SingboxTls(proxy)
      [] proxy.kind = "Tuic" -> SingboxTls(proxy)
      [] proxy.kind = "Anytls" -> SingboxTls(proxy) @@ Timed(proxy, SingboxDurations.Anytls)
      [] proxy.kind = "Hysteria2" ->
            SingboxTls(proxy) @@ Timed(proxy, SingboxDurations.Hysteria2)
            @@ When(proxy.obfs # "", ("obfs" :> Nested) @@ ("obfs/type" :> proxy.obfs)
                                     @@ ("obfs/password" :> proxy.obfs_password))
      [] proxy.kind = "Https" -> ("tls" :> Nested) @@ ("tls/enabled" :> "true")
      [] proxy.kind = "Socks5" -> [version |-> "5"]
      [] OTHER -> <<>>

\* proxy_value of the sing-box exporter
SingboxValue(proxy) ==
    When(proxy.udp = "false", [network |-> "tcp"])
    @@ [type |-> SingboxType[proxy.kind]]
    @@ Always(proxy, [tag |-> "name", server |-> "server", server_port |-> "port"])
    @@ Always(proxy, SingboxAlways[proxy.kind]) @@ IfAny(proxy, SingboxOptional[proxy.kind])
    @@ SingboxKeys(proxy) @@ IfAny(proxy, [tcp_fast_open |-> "tcp_fast_open"])

\* wireguard_value: an endpoint with one peer
WireguardValue(proxy) ==
    ("type" :> "wireguard") @@ ("tag" :> proxy.name) @@ ("peers" :> Nested)
    @@ ("address" :> proxy.wireguard_address)
    @@ IfAny(proxy, ("private_key" :> "private_key") @@ ("mtu" :> "mtu")
                    @@ ("peers/public_key" :> "public_key")
                    @@ ("peers/pre_shared_key" :> "pre_shared_key"))
    @@ Always(proxy, ("peers/address" :> "server") @@ ("peers/port" :> "port"))
    @@ IfSome(proxy, ("peers/allowed_ips" :> "allowed_ips") @@ ("peers/reserved" :> "reserved"))
    @@ Timed(proxy, "peers/persistent_keepalive" :> "persistent_keepalive")

=============================================================================
