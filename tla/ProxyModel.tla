----------------------------- MODULE ProxyModel -----------------------------
(***************************************************************************)
(* The protocol-neutral proxy of crates/easysub-core/src/model.rs, and the *)
(* objects proxies are read from and written to.  An object is a function  *)
(* from paths ("tls/enabled") to values; a nested object has an entry of   *)
(* its own, `Nested`.  Numbers and booleans are kept as the text they are  *)
(* written with, and "" is both the empty text and the absent option.      *)
(***************************************************************************)
EXTENDS Naturals, Sequences, SequencesExt

CONSTANTS Numerals,   \* the texts that are numbers
          Addresses   \* the servers that are IP addresses

Nested == "{}"
Absent == ""

ProxyKinds == {
    "Shadowsocks", "Vmess", "Vless", "Trojan", "Http", "Https", "Socks5", "Snell", "Wireguard",
    "Tuic", "Anytls", "Hysteria2"}

TextFields == {
    "group", "username", "password", "method", "uuid", "network", "host", "path", "server_name",
    "flow", "fingerprint", "public_key", "short_id", "plugin", "plugin_opts",
    "congestion_control", "udp_relay_mode", "heartbeat_interval", "ports", "ca", "ca_str",
    "obfs", "obfs_password", "private_key", "pre_shared_key"}

OptionFields == {
    "udp", "tcp_fast_open", "skip_cert_verify", "disable_sni", "reduce_rtt", "request_timeout",
    "max_udp_relay_packet_size", "max_open_streams", "fast_open", "up_mbps", "down_mbps", "cwnd",
    "hop_interval", "idle_session_check_interval", "idle_session_timeout", "min_idle_session",
    "snell_version", "mtu", "persistent_keepalive"}

ListFields == {"alpn", "wireguard_address", "allowed_ips", "dns_servers", "reserved"}

AnyAddress == <<"0.0.0.0/0", "::/0">>

EndpointName(server, port) == server \o ":" \o port

\* Proxy::new
NewProxy(kind, server, port) ==
    [kind |-> kind, server |-> server, port |-> port, name |-> EndpointName(server, port),
     alter_id |-> "0", tls |-> FALSE, group_id |-> 0]
    @@ [f \in TextFields \cup OptionFields |-> ""]
    @@ [f \in ListFields |-> IF f = "allowed_ips" THEN AnyAddress ELSE <<>>]

NonEmpty(text, fallback) == IF text = "" THEN fallback ELSE text

Present(object, keys) == SelectSeq(keys, LAMBDA key : key \in DOMAIN object)

\* The value of the first key there is; a nested object has no text.
Text(object, keys) ==
    LET found == Present(object, keys) IN
    IF found = <<>> \/ object[found[1]] = Nested THEN "" ELSE object[found[1]]

List(object, keys) ==
    LET found == Present(object, keys) IN IF found = <<>> THEN <<>> ELSE object[found[1]]

First(object, keys) ==
    LET found == List(object, keys) IN IF found = <<>> THEN "" ELSE found[1]

\* What serde_json makes of a nested object.
NestedText == "{\"mode\":\"http\"}"

\* value_text: like Text, and a nested object has the text of its JSON.
ValueText(object, keys) ==
    LET found == Present(object, keys) IN
    IF found # <<>> /\ object[found[1]] = Nested THEN NestedText ELSE Text(object, keys)

\* The first key whose value can be read as one of `values`.
Readable(object, keys, values) ==
    LET found == SelectSeq(Present(object, keys), LAMBDA key : object[key] \in values)
    IN IF found = <<>> THEN Absent ELSE object[found[1]]

\* What parse_bool and the readers of configurations take for a boolean.
Truth == [text \in {"1", "true", "0", "false"} |->
            IF text \in {"1", "true"} THEN "true" ELSE "false"]

AsBoolean(text) == IF text \in DOMAIN Truth THEN Truth[text] ELSE Absent

AsNumber(text) == IF text \in Numerals THEN text ELSE Absent

Boolean(object, keys) == AsBoolean(Readable(object, keys, DOMAIN Truth))

Number(object, keys) == Readable(object, keys, Numerals)

\* Mutation: the unit is kept.
SecondsVerbatim(object, keys) == Text(object, keys)

\* Seconds may carry their unit.
Seconds(object, keys) ==
    LET value == Text(object, keys)
        bare == IF value = "" THEN "" ELSE SubSeq(value, 1, Len(value) - 1)
    IN IF value \in Numerals THEN value
       ELSE IF value = bare \o "s" /\ bare \in Numerals THEN bare
       ELSE Absent

OrElse(option, other) == IF option = Absent THEN other ELSE option

=============================================================================
