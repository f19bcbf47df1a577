-------------------------- MODULE ProxyChainInputs --------------------------
(* Subscriptions of every form: links of every scheme, structured           *)
(* configurations, Surge lines and Netch.                                    *)
EXTENDS Integers, Sequences, TLC

Nested == "{}"

SomeNumerals == {"0", "1", "3", "5", "25", "30", "80", "443", "1420"}

Link(scheme, user, secret, query) ==
    [scheme |-> scheme, user |-> user, secret |-> secret, host |-> "a.example", port |-> "443",
     path |-> "", fragment |-> "node", query |-> query]

At(link, host, port) == [link EXCEPT !.host = host, !.port = port]

TlsQueries == {
    [security |-> "tls", sni |-> "s", insecure |-> "1"],
    [security |-> "reality", pbk |-> "key", sid |-> "01", fp |-> "chrome"],
    [security |-> "none", insecure |-> "yes", allowInsecure |-> "1"]}

NetworkQueries == {
    <<>>,
    [type |-> "ws", host |-> "h", path |-> "/w"],
    [type |-> "ws"],
    [type |-> "grpc", serviceName |-> "g"],
    [type |-> "h2", host |-> "h", path |-> "/w"],
    [type |-> "http", host |-> "h", path |-> "/w"]}

Links ==
    {Link("vless", "id", "", n @@ t) : n \in NetworkQueries, t \in TlsQueries}
    \cup {Link("trojan", user, secret, n @@ q) :
            user \in {"", "u"}, secret \in {"", "p"}, n \in NetworkQueries,
            q \in {[password |-> "q", peer |-> "s"], [alpn |-> <<"h2">>]}}
    \cup {Link("hy2", "p", "", q) :
            q \in {[obfs |-> "salamander", mport |-> "30", up |-> "30", hop_interval |-> "30"],
                   [sni |-> "s", ca |-> "c", cwnd |-> "3"]}}
    \cup {Link("anytls", "p", "", [idle_session_timeout |-> "30", min_idle_session |-> "3"]),
          Link("tuic", "id", "p", [congestion_control |-> "bbr", disable_sni |-> "1", sni |-> "s"]),
          Link("tuic", "", "", [uuid |-> "id", password |-> "p", heartbeat |-> "30"]),
          Link("snell", "p", "", [obfs |-> "http", host |-> "h", version |-> "3"]),
          Link("socks", "u", "p", <<>>), Link("ss", "m", "p", [plugin |-> "obfs"]),
          At(Link("https", "u", "p", <<>>), "a.example", ""),
          At(Link("ss", "m", "p", <<>>), "a.example", ""),
          At(Link("vless", "id", "", [security |-> "tls"]), "b.example", "0")}
    \cup {Link("vmess json", "", "", [id |-> "id", net |-> n, host |-> "h", tls |-> t, v |-> v]
                                     @@ ("host;" :> "/o") @@ [path |-> "/w"]) :
            n \in {"", "ws", "h2"}, t \in {"", "tls"}, v \in {"1", "2"}}
    \cup {At(Link("vmess url", "id", "1", [network |-> "ws", tls |-> t, key |-> "w"]), s, "443") :
            t \in {"true", "no"}, s \in {"1.2.3.4", "a.example"}}
    \cup {Link("vmess standard", "id", "", ("+transport" :> "ws") @@ ("+security" :> "tls")),
          Link("vmess rocket", "auto", "id", [obfs |-> "websocket", tls |-> "1", remarks |-> "r"]),
          Link("vmess quan", "auto", "id", ("over-tls" :> "true") @@ ("tls-host" :> "s")),
          Link("tg https", "", "", [server |-> "t.example", port |-> "443", user |-> "u"]),
          Link("tg socks", "", "", [server |-> "t.example", port |-> "none"]),
          Link("Netch", "", "", [Type |-> "vmess", Hostname |-> "n.example", Port |-> "443",
                                 UserID |-> "id", TransferProtocol |-> "ws", Path |-> "/w",
                                 TLSSecure |-> "true"]),
          Link("Netch", "", "", [Type |-> "wireguard", Hostname |-> "n.example", Port |-> "443",
                                 PublicKey |-> "key", SelfIP |-> "10.0.0.2", KeepAlive |-> "25"]),
          Link("unknown", "", "", <<>>)}

Lines(links) == [form |-> "lines", encoded |-> "no", links |-> links]

Objects(proxies, outbounds) ==
    [form |-> "objects", links |-> <<>>, proxies |-> proxies, outbounds |-> outbounds,
     endpoints |-> <<>>]

Node(type, keys) ==
    keys @@ [type |-> type, name |-> "node", server |-> "a.example", port |-> "443"]

ObjectNodes == {
    Node("http", [tls |-> "true", username |-> "u", password |-> "p"]),
    Node("ss", [cipher |-> "m", password |-> "p", udp |-> "false", plugin |-> "obfs"]
               @@ ("plugin-opts" :> Nested)),
    Node("tuic", [uuid |-> "id", password |-> "p", tls |-> "false"]),
    Node("trojan", [password |-> "p", tls |-> "false", sni |-> "s"] @@ ("skip-cert-verify" :> "true")),
    Node("vmess", [uuid |-> "id", tls |-> "1", host |-> "x"]
                  @@ ("ws-opts" :> Nested) @@ ("ws-opts/headers/Host" :> "h")),
    Node("vless", [uuid |-> "id", flow |-> "f"] @@ ("grpc-opts" :> Nested)
                  @@ ("grpc-opts/grpc-service-name" :> "g") @@ ("reality-opts" :> Nested)
                  @@ ("reality-opts/public-key" :> "key")),
    Node("anytls", [password |-> "p", alpn |-> <<"h2">>] @@ ("idle-session-timeout" :> "30s")),
    Node("hysteria2", [password |-> "p"] @@ ("hop-interval" :> "30")),
    Node("snell", [psk |-> "p"] @@ ("obfs-opts" :> Nested) @@ ("obfs-opts/mode" :> "http")),
    Node("wireguard", [ip |-> "10.0.0.2/32", ipv6 |-> "fd00::2/128", mtu |-> "1420",
                       reserved |-> <<"1", "3">>]
                      @@ ("public-key" :> "key") @@ ("persistent-keepalive" :> "25")),
    Node("wireguard", [address |-> <<"fd00::2/128">>] @@ ("peers" :> Nested)
                      @@ ("peers/public_key" :> "key") @@ ("peers/allowed_ips" :> <<"10.0.0.0/8">>)),
    Node("vmess", ("tls" :> Nested) @@ ("tls/enabled" :> "true") @@ ("transport" :> Nested)
                  @@ ("transport/type" :> "http") @@ ("transport/headers/Host" :> "h")),
    Node("selector", <<>>),
    [Node("ss", [cipher |-> "m"]) EXCEPT !.port = "0"]}

Surge(type, options) ==
    [name |-> "node", type |-> type, server |-> "s.example", port |-> "443", options |-> options]

SurgeLines == {
    Surge("ss", [password |-> "p", udp |-> "1"] @@ ("encrypt-method" :> "m")),
    Surge("vmess", [username |-> "id", tls |-> "true", sni |-> "s", ws |-> "1"]
                   @@ ("ws-headers" :> "h") @@ ("ws-path" :> "/w")),
    Surge("vless", [user |-> "id", tls |-> "true"]),
    Surge("trojan", [password |-> "p", network |-> "ws", path |-> "/w", insecure |-> "1"]),
    Surge("snell", [psk |-> "p", version |-> "3", obfs |-> "http"] @@ ("obfs-host" :> "h")),
    Surge("hysteria2", [password |-> "p"]),
    Surge("unknown", <<>>)}

SurgeTexts ==
    {[form |-> "surge", links |-> links, lines |-> <<line>>] :
        line \in SurgeLines, links \in {<<>>, <<Link("ss", "m", "p", <<>>)>>}}

SomeTexts ==
    {Lines(<<link>>) : link \in Links}
    \cup {Objects(<<object>>, <<>>) : object \in ObjectNodes}
    \cup SurgeTexts
    \cup {Lines(<<Link("unknown", "", "", <<>>), Link("ss", "m", "p", <<>>),
                  [Link("Netch", "", "", [Type |-> "wireguard", Hostname |-> "w.example",
                                         Port |-> "443", PublicKey |-> "key", Remark |-> "wg"])
                   EXCEPT !.fragment = "wg"],
                  [Link("snell", "p", "", <<>>) EXCEPT !.fragment = "snell"],
                  [Link("trojan", "p", "", <<>>) EXCEPT !.fragment = "trojan"]>>),
          [Lines(<<Link("ss", "m", "p", <<>>)>>) EXCEPT !.encoded = "wrapped"],
          [Objects(<<Node("selector", <<>>)>>, <<>>) EXCEPT
              !.links = <<Link("socks", "u", "p", <<>>)>>]}

SomePreferences == {
    [udp |-> "", tcp_fast_open |-> "", skip_cert_verify |-> ""],
    [udp |-> "false", tcp_fast_open |-> "true", skip_cert_verify |-> "true"]}

=============================================================================
