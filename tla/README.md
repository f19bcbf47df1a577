# A TLA+ model of easysub

easysub is an HTTP service that fetches proxy subscriptions, converts them to a
Clash or sing-box configuration (`GET /sub`, `GET /p/...`), and turns rule lists
into binary MRS files (`GET /ruleset`).  This directory holds TLA+ modules that
are translated from its Rust source, the TLC configurations that check them on
small instances, and proofs of their main properties for every instance.

Paths are relative to the repository: `api.rs` and `main.rs` are in `src/`, all
other Rust files in `crates/easysub-core/src/`.  `legacy/` is the archived Go
service and is not modelled.

    tlc -config MCFetchCache.cfg MCFetchCache.tla      # one run
    tlapm FetchCacheProofs.tla                         # one module of proofs

## 1. The system

| Part | State | Operations | Talks to |
|---|---|---|---|
| Server (`main.rs`), config (`config.rs`) | listener, shutdown signal, `AppConfig` | load, normalize, bind, serve, graceful shutdown | API |
| API (`api.rs`) | `AppState`: config, fetcher, semaphore `heavy_tasks` | `/sub`, `/p`, `/ruleset`, `/healthz`; timeout, catch-panic and request-id layers; errors to statuses | convert, fetcher, MRS |
| Private subscriptions (`private.rs`) | routes, read once at start | `load`, `prepare`, `expand`, `route` | `/p`, environment |
| Fetcher (`fetch.rs`) | one moka cache shared by all requests, one HTTP client | `get`, `get_with_metadata`, `get_http`, `download`, cache maintenance | origins, files, environment |
| `SubscriptionService` (`subscription.rs`) | none between requests | `convert`, `load_rulesets`, `load_external_config`, `rendered_base` | fetcher, parsers, exporters |
| External config (`external.rs`), groups (`group.rs`) | none | `parse`; `members` | convert, exporters |
| Templates (`template.rs`) | none | `expand_ruleset_tags`, `insert_dotted`, `render` | convert |
| Parsers (`parser.rs`, `structured.rs`, `model.rs`) | none | `parse_subscription`, `parse_node` and one function per protocol | convert |
| Rules (`rules.rs`) | none | `normalize_rules` and the readers of each format | exporters, `/ruleset` |
| Names (`export/mod.rs`) | none | `prepare_nodes` | exporters |
| Exporters (`export/clash.rs`, `export/singbox.rs`) | none | `to_clash_full`, `to_singbox_full` | groups, rules, names |
| MRS (`mrs.rs`) | none | `encode` | `/ruleset` |

Requests run concurrently as tasks on the tokio runtime.  They share exactly two
mutable things: the fetch cache and the semaphore.  A handler is a future: it can
be dropped at any `await`, by the timeout layer (408), by the client hanging up,
or, for a download, because a sibling source failed under `try_collect`.  A
closure on the blocking pool cannot be dropped once it runs.  A conversion reads
its sources through the fetcher into proxies and rulesets, reads the external
config and the template, and hands everything to one of the two exporters; what
it writes may refer back to `/ruleset` and may be fetched as a subscription by
another deployment.

What is hard here, and what makes each part correct:

- **Fetcher.**  Calls for one URL share one download through moka's
  `try_get_with`.  The one that leads may fail, time out or be dropped while
  others wait.  Correct: one download at a time and per TTL; nobody waits for a
  leader that is gone; a read never goes back in time, and is never staler than
  its TTL plus a request timeout; no body exceeds the limit.
- **`/ruleset`.**  A permit is acquired by the handler, owned by the closure.
  Correct: no permit is lost to a panic, an early return or a dropped handler,
  nor is one idle while a handler waits.
- **Server.**  The drain waits for handlers, which wait for downloads, permits
  and encoders.  Correct: whoever sent a request is answered, and the process
  ends.
- **Source loading.**  `fetch_concurrency` sources at a time, in any order of
  completion, failures skipped or not.  Correct: the result is that of a load in
  list order; an error cancels the rest; a load of nothing ends too.
- **convert.**  A source may come from the request, the configuration or an
  external config that was itself fetched; whether it may be local is decided at
  each step.  Limits are enforced on lists that grow in between.
- **Exporters and rules.**  Rulesets are merged, normalized, cut off at a limit,
  and written as rules, providers, rule sets and objects that name one another.
  Correct: every rule ends up in its ruleset's place, under whatever form; every name resolves and no two things share one.
- **Parsers and proxies.**  Five syntaxes for one proxy, two writers.  Correct:
  what is written reads back with its endpoint, credentials, transport and TLS.
- **Templates and private rewrites.**  Substitution in the order of a HashMap.
  Correct: the order does not show.
- **Names, groups, MRS.**  Unique names without gaps, order of members,
  bitmaps and ranges at the end of their index or address space.

PROJECT.json lists the hazards one by one, each at its line.

## 2. The modules

| Module | Models | Checked by | Proved in |
|---|---|---|---|
| `FetchCache` | `get_http`, `download`, expiry, moka's coalescing | `MCFetchCache` | `FetchCacheProofs` |
| `RulesetEndpoint` | `/ruleset` up to its status, the semaphore, the blocking pool, the timeout layer | `MCRulesetEndpoint` | `RulesetEndpointProofs` |
| `ServerLifecycle` | `main.rs` around the handlers of `RulesetEndpoint` (`INSTANCE`) | `MCServerLifecycle` | `ServerLifecycleProofs` |
| `OrderedLoad` | abstract: what loading a list of sources promises | through `SourceLoader` | |
| `SourceLoader` | `buffer_unordered`/`try_collect`/sort of `convert`, `load_rulesets`, `/ruleset` | `MCSourceLoader` | `RulesetProofs` |
| `RulesetCollect` | `SourceLoader` without sorting, and what `/ruleset` makes of the contents | `Algorithms` | `RulesetProofs`, `AlgorithmProofs` |
| `SubscriptionConvert` | `/sub`, `/p`, and `convert` with all it calls, step by step | `MCSubscriptionConvert` | `SubscriptionConvertProofs` |
| `NodeNames` | `prepare_nodes`, and what sing-box drops after it | `Algorithms` | `AlgorithmProofs` |
| `RuleLines` | text of rulesets to rules, merging of adjacent rulesets | `RuleExport` | `RuleExportProofs` |
| `RuleStream` | abstract: what exporting rulesets promises | `RuleExport` | `RuleExportProofs` |
| `ClashRules` | rules and rule providers of a Clash configuration | `RuleExport` | `RuleExportProofs` |
| `SingboxRules` | outbounds, route, rule sets, clients and detours of a sing-box one | `RuleExport` | `RuleExportProofs` |
| `RuleExport` | the loaded rulesets of a conversion and the exporter of its target (`INSTANCE` of both) | `MCRuleExport` | `RuleExportProofs` |
| `ProxyModel` | `Proxy`, its defaults, and objects as functions from paths | `ProxyChain` | |
| `NodeLinks` | proxy links | `ProxyChain` | |
| `NodeObjects` | Clash, sing-box, Netch and Surge proxies | `ProxyChain` | |
| `NodeWriters` | a proxy as a Clash, sing-box or WireGuard object | `ProxyChain` | |
| `ProxyChain` | subscription, node options, export, and the next subscription | `Algorithms` | |
| `TemplateVariables` | ruleset tags, defaults, request and global variables | `Algorithms` | `AlgorithmProofs` |
| `PrivateRewrite` | the variables and rewrites of private subscriptions | `Algorithms` | `AlgorithmProofs` |
| `ExternalGroups` | external config line by line, and the members of its groups | `Algorithms` | `AlgorithmProofs` |
| `MrsPayload` | both payloads of an MRS file | `Algorithms` | `RulesetProofs`, `AlgorithmProofs` |
| `Algorithms` | the seven above that share nothing with one another, side by side | `MCAlgorithms` | `AlgorithmProofs` |
| `Filters` | the elements of a sequence that pass a test, as `filter`, `filter_map` and `retain` keep them | all that filter | `SequenceFacts` |

`ServerLifecycle` composes the endpoint with the process around it,
`RulesetCollect` the loader with the normalizer, `ProxyChain` the parsers with
the writers, and `RuleExport` the rulesets with either exporter, both of which
share `RuleLines` and implement `RuleStream`.  The modules of proofs
extend the module they are about (`RulesetProofs` extends `RulesetCollect` and takes
`MrsPayload`, and with it its variables, as an instance); `SequenceFacts` holds the lemmas about sequences,
filters and recursive functions that several of them cite.  `Algorithms` puts the
sequential algorithms side by side (`NodeNames` extended, the others as instances): `subject`
says which of them a behaviour is about, and the variables of the others are idle, so
that one run and one module of proofs are enough for all.  `MCAlgorithms` gives it its
values; the subscriptions, files and lists they start with are in `ProxyChainInputs`, `ExternalGroupsInputs`,
`PrivateRewriteInputs` and `MrsPayloadInputs`.

A definition whose comment starts with "Mutation:" is a plausible bug in the
definition of the same shape below it; PROJECT.json says which property notices
it.  Such definitions are used by no specification.

### FetchCache

One *call* is one execution of `get_http`.  `pc[c]` is where its future stands:
`lookup` (about to enter `try_get_with`), `following` (waiting for another
call's init future), `sent` (awaiting `send()`), `body` (in the chunk loop),
`done`.  `leader[u]` is the waiter moka keeps for a key, `cache[u]` the entry
with its deadline.  `upstream[u]` numbers the versions an origin serves, which
makes "stale" and "back in time" expressible; `sampled`, `filled` and `served`
are history, read by properties only.

| Action | Code |
|---|---|
| `GetHttp` | the `ttl == 0` branch and the cache key, `fetch.rs:139-145` |
| `Hit`, `Lead`, `Follow` | the three ways through `try_get_with`, 146-158 |
| `Respond`, `ReadChunk`, `Complete` | `download`, 161-204, and the insertion by moka |
| `UpstreamFails`, `DownloadTimesOut`, `Fail` | error paths; the error of a cached call becomes `Upstream` at 157 |
| `Drop` | a dropped future: a leader takes its download with it, its followers look again |
| `Evict` | capacity, admission and `spawn_cache_maintenance` |
| `Publish`, `Tick` | the origin and the clock |

moka is a library: that waiters share a value or an error, and elect a new leader
when theirs is dropped, is modelled from its documented contract and from how the
code relies on it.  Two corners of it are left out: the cap on how often a waiter
starts over after a dropped leader (200), and a panicking init future (the code
in it does not panic).

### RulesetEndpoint

`pc[r]` is where the handler of request `r` stands, `worker[r]` the closure it
gave to `spawn_blocking`, which lives on after the handler is dropped.  `queue` and
`permits` are tokio's fair semaphore: `Release` hands a permit to the first waiter,
which is then `granted` but not yet polled.  `Arrive` has the validation in the
order of the code, `Acquire` the fast path and the queue, `Granted` the
`spawn_blocking`, `StartWorker` and `EndWorker` the closure and the drop of the
permit it owns, `Respond` the join, and `Abandon` the timeout layer (408) or a
client that hangs up, at each of the awaits.  The handler between two awaits is
one step.  The 408 may come at any time: its delay is the request timeout plus
five seconds, and nothing relates that to how long a permit or an encoder takes.

### ServerLifecycle

`phase` is the process: `loading` (`AppConfig::load`, `normalize`, and the file of
private subscriptions), `binding`, `serving`, `draining` (the signal came),
`stopping` (`serve` returned, the runtime is dropped) and the three ends.
`conn[r]` is the connection that carries request `r`: in the accept backlog,
`fresh`, `partial` (half a head), `handling`, `writing` (an answer not read to its
end), `idle`, or ended.  The handlers are `RulesetEndpoint` with the same
variables; `Handled` follows each of their steps and turns an answer into `writing`.

| Action | Code |
|---|---|
| `Load`, `Bind`, `KilledEarly` | `main.rs:11-26`, `AppConfig::load` and `normalize`, `listen_port` |
| `Signal` | `shutdown_signal`, `main.rs:46-69`; the listener goes with its backlog |
| `Connect`, `Accept`, `SendPart`, `Request`, `Deliver`, `CloseIdle`, `Leave` | axum and hyper, as `with_graceful_shutdown` uses them (external) |
| `TimeOut`, `LeaveHandler` | `Abandon` of the endpoint, by the timeout layer or by the client |
| `Drained`, `DropWorker`, `Exit` | the end of `serve` and of the runtime: closures that run are waited for, others are dropped |

A second signal has no effect: `shutdown_signal` has returned.  When a handler for
signals cannot be installed the drain starts at once, which is `Signal` at an
early moment.  A client that sends half a head or does not read its answer is
outside the router's timeout: nothing in the program ends it, and
`docs/rust-operations.md:108-110` leaves that to the service manager; the
fairness below says so.

### OrderedLoad, SourceLoader, RulesetCollect

`Poll` is `buffer_unordered` pulling the next source while it has room, `Finish`
a source with its content or its failure (which under `try_collect` drops the
stream, hence all other fetches), `Deliver` the end of the stream followed by
`sort_by_key`.  `OrderedLoad` knows no concurrency and no order; the refinement
forgets `running`, `drained` and `collected` and keeps the other variables.
`Sorts` and `SkipFailed` distinguish the three places the loop occurs in:
`/ruleset` neither sorts nor skips, and `RulesetCollect` adds what its closure
does with the contents: normalize one after the other under the remaining
allowance, then encode a set.

### SubscriptionConvert

One conversion, in the steps between two awaits: `Query` (the handler),
`Convert` (all checks before the first await), `LoadSources`, `LoadExternal`,
`LoadRulesets`, `LoadBase`, `Export`.  A source is its kind and its origin:
`remote`, `shared` (`file://` and `env:`), `path`, `node` (a proxy link),
`content` (inline, library callers only), `inline` (a ruleset written into the
external config).  `reads` records everything the fetcher was asked for, with who
named it; `result.at` records where a conversion ended.  Every step can fail in
every way the code lets it fail; remote failures are over-approximated (`Limit`
is possible only for a TTL of 0, see section 5).  A list is loaded in one
step because `SourceLoader` shows that the order inside does not matter; without
`skip_failed_links` any error of the list may be the one returned.

Observed, and modelled as it is: an empty `config=` falls back to the default
external config but counts as requested, so with a local default it needs the
token where leaving `config` out does not (`subscription.rs:531-542`); and an
external config that sets an empty rule base needs the token too, since the
empty string has no scheme (`subscription.rs:399-405`, 665).

### NodeNames

One proxy per `Keep` (its name is free) or `Suffix`, with `Count` as one turn of
the loop that looks for a number; `next` is the counter per base name that the
code keeps so as not to start at 2 again.  A name is a sequence of words, so that
a name that ends in a number may also come from a subscription.  `Export` drops
the kinds the target has no form for.

### RuleLines, RuleStream, ClashRules, SingboxRules

A line of a ruleset is what stands before its first word (`+.`, `.`, `#`, `-`) and
its parts between commas; a document is a plain list, an inline rule, or YAML with
a list under `payload` or `rules`; a content is a sequence of documents, as merging
adjacent rulesets of one group joins them.  `RuleLines` gives the rules of a
content in each of the five formats, with the limit.

`ClashRules` takes one step per merged ruleset: `AppendGeoProvider` (an inline
GEOIP or GEOSITE rule), `AppendRuleset` (the providers for the domains and networks
of a list that has enough of them, then the rest), `AppendFails` (an HTTP provider
without a base URL), and `Finish`.  A provider is named after the file of its
source; `GLOBAL` stands for the first group, since this module has none.
`SingboxRules` starts with the outbounds and the detours that DNS servers have in
the base, takes one step per ruleset, and ends with the client that rule sets
are fetched with.  A rule object is written as the set of rules it came from:
which fields sing-box then combines by "and" is its reading of the layout,
which the test at `singbox.rs:915` pins.

`output` keeps the rules of one pass of the loop together.  That is all
`RuleStream` sees: the sets of rules behind the pieces, in order, each with its
group.  Being sets, they do not show the order inside a piece, nor a rule that is in a
provider and in the rest.  The refinement of `ClashRules` replaces a `RULE-SET` rule by the payload of
its provider; that of `SingboxRules` a rule set by the rule it was made for, and
skips FINAL and MATCH, which become `route.final`.

`Served` is what `/ruleset` answers to the request of an HTTP provider: `api.rs:319-326`
collects the sources in the order in which their downloads end and cuts the list at
the limit (340-345), so it takes that order as a parameter and `HttpProvidersServe`
quantifies over all of them.  `/ruleset` knows no formats, and reads some lines
otherwise than the exporter; `AreReadAlike` says which lists it reads alike, line by
line, and is the precondition of the property.  The lists it excludes are in the
instance, and each of its conjuncts is needed for the property to hold there.

### ProxyModel, NodeLinks, NodeObjects, NodeWriters, ProxyChain

A proxy is a record of texts and options; an object is a function from paths
(`"tls/enabled"`) to texts.  The parsers and writers are tables (field to keys, in
the order they are tried) with the exceptions each protocol makes.  Percent
decoding, base64, URL, JSON and YAML syntax are done before these modules start:
a link is its scheme, user, secret, host, port, path, fragment and query, with `alpn`
split at its commas.  `Flag` and `Amount` read the first key of a query that is there,
readable or not; `Boolean` and `Number` the first key of an object that can be read.  A
nested value of `plugin-opts` becomes its JSON (`ValueText`).

`ProxyChain` converts a text and then what was written, `MaxHops` times, to
either target: `Read` is `parse_subscription` and the node options
(`apply_node_options`), `WriteClash` and `WriteSingbox` the exporters' lists of
proxies, `Refuse` a subscription without a proxy.  A Surge or structured text that has
none is read for links, line by line, before it is refused; `links` are those lines.

`ExportsReadBack` compares endpoints, credentials, the transport, TLS with the name and
the verification of its server, and Reality for VMess and VLESS.  It does not compare
alpn, fingerprints, the path and host of an `http` transport, nor Reality elsewhere.
Lost on the way, and therefore excluded as well: the headers under Clash `http-opts`; a few TUIC settings of Clash; the keepalive of a
sing-box WireGuard endpoint (`"25s"` is no number); `h2`, which sing-box writes as
`http`; the TLS flag of Netch and Surge `http`, and that of `socks5`.  UDP that is
off becomes the network `tcp`.  Links may have port 0, and a VMess payload no
server, which the reader of structures refuses.  A subscription in base64 with
line breaks is not decoded.

### TemplateVariables, PrivateRewrite

Both substitute in the order of a `HashMap`, which is an action that picks any
variable that is left (`InsertRequest`, `ReplaceOne`).  Objects are functions from
paths in which `Nested` is an object: `InsertDotted` puts an object where a path
goes through, and fails, as the code does, where a value already stands.
A path is a sequence of words: a key without any inserts nothing and is left out, and
of the keys that split into the same words a request has one.
Expanded text is a sequence of words and references; form encoding turns a
reference into an encoded word, so that a value that spells a reference is told
apart from one.  `Substitute` replaces the references to all names that are bound at
once; the code does it for one name at a time (`Replace`), and what a file means
(`Meanings`, `Intended`) is said with it for all of them.  The code substitutes text: a
reference that forms only when two values meet, `{a` and `}`, is replaced as well.  Here
a reference is one token, so such a file cannot be said, and nothing is claimed of it.

### ExternalGroups

`ReadSection`, `ReadGroup`, `ReadRuleset`, `ReadBase`, `ReadSetting`, `ReadOther`
read one line each; `Select` takes one selector of a group and appends the proxies
it names or matches, `FinishGroup` adds `DIRECT` to a group that would be empty.
A regular expression is the set of texts it finds something in, or does not
compile.  An item of a range is a sequence of numerals, as their values, and signs; it
is split at `-` as the code splits it, so that
`-3--1` is no range, and only a single number or `N+` may be negative.  An item may be
empty, as a selector without a range or behind a comma has one, and matches nothing.
Numerals stay within an `i64`.

### MrsPayload

`ReadDomain` trims a domain, makes it lowercase (`Normalized`), and inserts it reversed into the ordered set (`Inserted` is
`BTreeSet::insert`), `StartBuilding` queues the root, and `Visit` is
one turn of the breadth-first walk that writes the bitmaps of the trie, words of
`WordBits` bits growing as they are needed.  `ReadNetwork`, `StartMerging` and
`Merge` are the ranges, IPv4 first, with addresses of `V4Bits` and `V6Bits` bits, so
that the last address of either space, and an IPv4 range mapped into IPv6, are
a few steps away.  `Shifted` is the shift `1 << bits`; a sort returns the arrangement
of its list that ascends.

## 3. The runs

| Run | Instance | Shows |
|---|---|---|
| `fetch_shared` | 3 calls, 1 URL, TTLs 1 and 2, bodies of 1 and 2 chunks against a limit of 1, timeout 1, 2 versions, clock to 3 | a single flight per URL, bounded bodies, bounded staleness, monotone reads, one download per TTL |
| `fetch_live` | 3 calls, TTLs 0 and 1 | every call ends although the origin may never answer and leaders may be dropped |
| `ruleset` | 3 requests, 1 permit | permits are conserved; none is idle while somebody waits; every request ends without relying on the timeout |
| `server_lifecycle` | 2 connections, 1 or 2 permits, configurations that load and that do not | no request that was read goes unanswered, and a signalled server exits |
| `source_loader` | 0 to 4 sources, 2 at a time, skipping or not | refinement of `OrderedLoad`, bounded concurrency, nothing left running, every load returns |
| `convert` | 52 configurations, 200 requests, 14 external configs, limit 2 | who reads what; refusals; limits; order of inserts; no silent loss; a missing base URL is found before anything is fetched |
| `rule_export` | either target; lists of up to 3 of 11 rulesets for Clash and of 5 for sing-box, limits 0 and 4, 5 and 3 settings, 2 and 3 bases, 2 lists of groups; for Clash also pairs with 5 more that `/ruleset` reads otherwise | refinement of `RuleStream`; provider names; `no-resolve` survives, but for geo providers; HTTP providers serve what they replace, in every order of completion, if read alike; every reference resolves |
| `algorithms` | names: up to 4 proxies called `a=`, `a-`, `a- 2`, `a- 2 2` | names are distinct, numbers have no gaps, the search ends |
| | chain: about 130 subscriptions of one to five proxies, up to 4 conversions | exports read back, TLS is kept, a chain comes to rest |
| | groups: files of up to 5 lines, 3 selectors of 17 and a second group, 3 nodes or none | members are those of the selectors, in order, each once, never none |
| | template: up to 3 of 6 variables, globals, ruleset tags, both targets | with compatible names the order does not matter |
| | private: 3 variables with 6 values each, one name possibly twice | if nothing refers forward, the route is what the file says, encoded once |
| | collect: 1 to 3 sources with 0, 1 or 2 rules or not text, limit 3 | the limit is exact; below it the order does not show |
| | mrs: up to 4 of 13 domains, up to 3 networks; words of 3 bits, addresses of 2 and 4 bits | the trie reads back as the listed domains, the ranges cover the networks exactly |
| `fetch_oversize` | 2 calls | *violation* 1 below |
| `convert_status` | as `convert` | *violation* 2 |
| `template_panic` | template alone | *violation* 3 |
| `node_names_skipped` | names alone: up to 3 proxies called `a-`, `a- 2`, Snell dropped | *violation* 4 |

Why these bounds are enough to be worth something:

- *Three calls, one URL*: a leader, a follower and a third party that arrives in
  between, or that takes over when the leader is dropped.  URLs do not interact
  except through eviction, which may hit any entry at any time.  Two TTLs are
  the least with which an entry can outlive what a caller asked for; the clock
  reaches expiry, refill and a second expiry.  `MaxVersion` 1 is enough to see
  any step back.
- *Three requests, one permit*: the permit held, one waiter at the head of the
  queue and one behind it, each of which may be abandoned.  `server_lifecycle` has
  two permits as well, and the theorems about permits hold for any number.
- *Two connections*: with one permit an encoder can hold up the other handler,
  and each connection can be in any state when the signal comes; nothing relates
  three connections that does not relate two.
- *Four sources, two at a time*: the buffer refills twice and the list can be
  collected in an order that is neither its own nor the reverse.
- *Limit of two sources*: one inserted and one requested source are allowed, one
  inserted and two requested are not.
- *Four proxies*: a name, the same name, the name it would be given, and one that
  then collides again.
- *Three rulesets, a limit of 4*: two adjacent ones that merge and one that does
  not; two providers of one stem and a source that is already called what the
  second is renamed to; the limit falls into the second or third list, inside a
  provider or after it.  `OptimizeMin` is 2 instead of the code's threshold, so
  that a list may be just too short.
- *Four conversions*: a chain may change its target at each; after two for one
  target nothing should change any more (`streak`).
- *Three bits per word*: a bitmap of four domains needs several words, and a bit
  may be the first or the last of one.  *Two and four address bits*: three
  networks may touch, overlap, contain one another and reach the last address.
- `Quiescent`, `Returned`, `Finished`, `Exported` and `Stopped` are the states in
  which all has ended, so that deadlock stays checked in the concurrent modules
  and the exporters; the sequential algorithms `ProxyChain`, `TemplateVariables`,
  `PrivateRewrite`, `ExternalGroups` and `MrsPayload` simply stop at their end, so
  that the runs of `MCAlgorithms` do not check it.

Named bounds: `MaxVersion` and `Horizon` (`FetchCache`), `MaxSources` as the
number of sources in `SourceLoader`, `MaxNodes` (`NodeNames`), `MaxHops`
(`ProxyChain`).  The clock may pass `Horizon` while a download runs, so that its
timeout always can fire.

What the instance of `rule_export` leaves out on purpose, because there the
properties fail as section 5 tells: two IP-VERSION rules in one list, of which the second overwrites the
first; FINAL before the end of a list; proxies named like groups.

Fairness.  `FetchCache`: the clock goes on; tokio polls a call that is ready
(`Hit`, `Lead`, `Follow`); a timer that is due fires (`DownloadTimesOut`, the
`timeout` set on the client in `Fetcher::new`).  Nothing is assumed of the origin,
and no call has to be made.  `RulesetEndpoint`: fetching ends because downloads
time out; handlers and closures that can run are run; the encoder ends, being a
loop over its input.  `Arrive` and `Abandon` have no fairness: the timeout layer
is never needed for progress.  `ServerLifecycle` assumes the opposite half: the
timeout layer fires and encoders end, so that neither downloads nor the queue for
permits need fairness; a client finishes its request and reads its answer or
leaves; the steps of the drain and of the exit are taken.  `SourceLoader`: the
task is polled and each fetch ends.  `NodeNames`: the loop goes on.  All other
modules are checked for safety only.

## 4. What is proved

For all values of the constants (subject to the named assumptions each module
starts with), by TLAPS:

- `FetchCacheProofs`, from `FetchAssumption` (TTLs, sizes and limits are naturals,
  the timeout is positive; the set of calls may be infinite):
  - `TypeCorrect`.
  - `SingleFlightHolds`, `NobodyWaitsForNobody`.  The inductive invariant is
    `Flight`: `SingleFlight`, `LeaderDownloads`, `FollowersHaveLeader` and
    `OnlyCachedCallsWait`.  None of them is inductive alone: a new leader is
    alone because every cached download of its URL is the leader's, and a
    follower cannot be orphaned because a leader that ends settles exactly the
    followers of its own URL.
  - `StalenessIsBounded`, from `EntryTimes` (an entry is filled within a timeout
    of the answer and dies one TTL later) and `DownloadTimes`.
  - `ReadsAreMonotone`, from `NoEntryWhileLed` and `VersionsKeepUp`: while a URL
    has a leader it has no live entry, so a fill never races a hit, and what can
    still be handed out is at least as new as what was.
  - `BodiesStayWithinLimit`, inductive with the types, and `DownloadsAreRare`, the
    action property `OneDownloadPerTtl`, from `EntryTimes`: only `Lead` makes a
    leader, and it finds no live entry.
- `RulesetEndpointProofs`, from `EndpointAssumption` (finitely many requests, at
  least one permit, which `normalize` guarantees): `TypeCorrect`,
  `PermitsAreConserved`, `WorkersAreBounded`, `QueueIsServed`.  The inductive
  invariant is `IInv`: types, `PermitsConserved`, `NoIdlePermit`, `QueueIsExact`
  and `NoWorkerBeforePermit`.  Conservation needs the queue to be exact, since a
  released permit goes to its head: were the head gone, the permit would be too.
  That a permit is passed on or returned is one lemma, `ReleaseStep`, used for the
  end of an encoder and for an abandoned `granted` handler.
- `SubscriptionConvertProofs`, from `ConvertAssumption` (the constants are
  configurations, requests and external configs; only `/p` and library callers are
  trusted): `TypeCorrect`, `LocalReadsAreAuthorized`, `RefusalsAreDeserved`,
  `FetchesAreLimited`, for lists of any length.  The strengthening: `SourcesVetted`
  (what `Convert` let through), `NotReadYet` (a list is loaded only in its step)
  and `ReadFromLists` (what was read is an element of the list it came from, so
  that reads of one use are told apart by their index and the cardinality is
  bounded by an injection into `1 .. MaxSources`).  `SuccessesAreComplete` and
  `BaseUrlsAreCheckedEarly` have an invariant of their own, `Earned`: what each step
  let through (nodes, no failed source without `skip_failed_links`, a base URL where
  one will be needed) still holds behind it, since no later step touches it, and no
  source fails with `ok` or for want of a base URL.  `InsertsAlwaysKeepTheirPlace`:
  loading drops the sources that were skipped, so what is left of the list is a
  filter of it, and a filter keeps the order of what it keeps (`FilterOrder`).
- `ServerLifecycleProofs`, from `LifecycleAssumption` (finitely many requests,
  defaults that are positive): `NoAnswerIsCutShort`.  The invariant carries `IInv` of
  the endpoint over to the composition, for the number of permits the loaded
  configuration gives (`Total`, positive because `normalize` replaces a zero), from
  the moment the process has a configuration; before it nothing has moved.  To it
  come `ConnectionFollows` (what the connection of a request does while its handler
  is at each of its places), that a server that is stopping has no open connection,
  and that one that has exited has no handler left.  Steps of the endpoint are taken
  from `RulesetEndpointProofs`; only the steps of the process and of connections are
  proved anew.
- `RulesetProofs`, about how a ruleset is loaded, collected and encoded.  From
  `LoaderAssumption` (failed and pending are no contents,
  the fewest sources are 0 or 1, the most are positive, the concurrency is a
  natural number): `TypeCorrect`,
  `ConcurrencyIsBounded`, `NothingIsLeftRunning` and `LoadsInOrder`, the
  refinement of `OrderedLoad` for lists of every length.  The inductive invariant
  `LoadInv` is the types and `Progress`: the sources started are a prefix of the
  list, what runs is not collected, a source is pending until it is collected,
  nothing is collected twice, and a stream that is drained has started all.  At
  `Deliver` everything is collected, so that a sorted injective sequence with the
  range `1 .. n` is the list itself (`SortedIsList`), which is where `Sorts` is
  used.
- `AlgorithmProofs`, theorems of `AnySpec`, the algorithms side by side.  Every step is
  one of the algorithm a behaviour is about (`StepOfSubject`), and each has an
  invariant of its own.
  - `NamesAreDistinct` and `NumbersWithoutGaps`, for lists of every length, from
    `NamesAssumption` (words are naturals, tables map words to words).
    `NamingInv` ties `used` to the names given so far and the remembered counter of
    a base to numbers that are all used; without the latter the shortcut of not
    starting at 2 again would not be known to leave no gap.  (These two are theorems of
    `NodeNames` alone.)  The others rest on `AlgorithmsAssumption`, which says what the
    inputs of each algorithm look like, never how many or how long they are.
  - `OrderNeverMatters`, from `TemplateInv`: between two insertions the object holds the
    variables inserted so far, the objects above them, and the defaults that no variable
    replaced (`Holds`).  This names what has been inserted and not in which order, and
    compatible variables never block one another (`NotBlocked`), so that the rendered
    object is one and the same.
  - `LimitAlwaysExact` and `OrderNeverShowsBelowLimit`.  Both are proved in
    `RulesetProofs` from `LoadInv` and carried over: what was collected is a
    permutation of the contents; the loop over a list takes the sum of its rules up to
    the limit, which is an induction over the list, and below the limit what it
    takes is the union of the contents, to which their order is nothing.
  - `RoutesAreIntended`.  Substitution is a homomorphism (`SubstituteConcat`), leaves a
    text without references to the names alone (`SubstituteFree`), and doing it for one
    name and then another is doing it for both if the first value refers to neither
    (`SubstituteTwice`).  What a file means is a recursion over all that stands above a
    variable; that such a function exists is `MeaningsOf`, and that meanings refer to no
    variable of an ordered file is `MeaningsAreFree`.  The invariant `PrivateInv` says that
    each variable read so far is bound to its meaning, and that the rewrite, once the
    references left in `todo` are replaced as well, is the intended one: which of them is
    next does not matter.
  - `MembersAlwaysFollow`, from `GroupsInv`: the groups read so far are well formed,
    finished groups have the members they should, and the names selected so far are those
    asked for by the selectors taken so far, in the order of the first selector that
    asked and then of the nodes (`Chosen`).  A selector keeps this whatever it
    matches (`ChosenGrows`).  `ItemSays` and `RangeSays` are what makes ranges right: how an
    item is written and split again at its signs gives the numbers it includes.
  - `TriesAlwaysReadBack`, proved in `RulesetProofs` from `TrieInv` and carried over.  The
    trie is three flat lists, read by counting the ones before a bit, so an invariant
    about what was written has to name what the code never stores: the parts of *all*
    nodes, in the order in which they were queued (`Walks`).  The first `n` of them
    are visited and the others are the queue (`Queued`); the label bitmap has a one for
    each visited node (`Marked`), and the label of node `m` is at its `m`-th zero, behind as
    many ones as the number of its parent (`Labelled`), which is what a reader relies
    on; leaves are marked exactly for visited nodes at which a key ends (`Ended`); and
    each key ends at a visited node or is in the part of one that waits (`Reached`).  That
    only the first key of a part can end there needs the keys in order (`Rising`, which
    `InsertedKeeps` gives): after a longer key with the same beginning it would be
    lost.  With an empty queue, reading upwards from a node gives the beginning that
    the keys of its part share (`TextsFound`), by induction over the nodes, since a
    parent has a smaller number than its children.
  - `RangesAlwaysCover`, from `MrsInv`, likewise: the ranges read are those of the networks
    read (`Gathers`); those merged have a gap after each, end before or inside what is
    still to come, and together with it cover the family (`Merging`); the IPv4 part that
    was written is the mapped one (`MappedList`).  A network is a block of addresses
    (`BlockOf`, from powers of two alone: `ShiftedSum`), which is its range, and a list
    can be arranged in ascending order (`OrderedArrangement`), so that sorting means
    something.  At the last address, which has no successor, merging still joins what
    touches (`MergedRanges`).

- `SequenceFacts`: what a recursive function computes can be proved for every input,
  although no theorem about induction with an operator as its parameter can be
  used.  That `<` is well-founded on the naturals is in the library, from it follows
  that every inhabited set of naturals has a least element (`LeastElement`), and
  from that induction over *sets* of naturals (`SetInduction`, `BoundedInduction`):
  a property becomes the set of numbers that have it.  `RecursionExists` says that
  a function on `0 .. n` defined by recursion exists; `FilterRecursion` applies it
  to `Filter`, and `FilterElements`, `FilterOrder`, `FilterBegins` and `FilterOfKept`
  are what the proofs above and below need of a filter: what it holds, in
  which order, and that a filter of the beginning is a beginning of the filter.
- `RuleExportProofs`, from the assumptions of `RuleExport`, for rulesets of any number,
  length and format: `ExportAssumption` (rulesets are as the loader makes them, an
  inline ruleset has one line, the threshold of a provider is positive),
  `ClashAssumption` (stems are names of providers; a base has finitely many
  providers), `SingboxAssumption` (the names of a base are its own, it defines the
  clients its rule sets use, and its DNS detours are the placeholder or outbounds
  that are always there), and `StringAssumption` (the texts the exporters write are
  strings).
  - Clash: `ProvidersAlwaysKeepTheirNames` and `ResolutionIsAlwaysKept`, from
    `ClashInv`, the types with both properties.  Of a new provider one needs
    `NameIsFresh`: the search for a number ends on a free name because there are more
    numbers to try than there are providers, so that a `RULE-SET` rule written
    earlier still finds the provider it was written for.
  - `ClashImplementsRuleStream`: one pass of the loop, of either kind, routes
    the rules of its ruleset and no others, each once.  The domains and networks that
    are taken out for a provider and the rest are three filters of one list, whose
    union is that list; geo rules are the case of one rule.  What was
    written before keeps its meaning, because providers are never replaced.
  - sing-box: `ReferencesAlwaysResolve`, from `SingboxInv`.  Its parts are one per kind
    of name: `RuleSetsHold` (a list of rules only adds rule sets, each under a tag
    that was free, and leaves none of the tags it refers to undefined), `ModesHold`,
    `OutboundsHold`, `FinalHolds` and `ClientsHold` (until the last step clients are those
    of the base, and rule sets use one of them, the generated or the obsolete one).
    The modes resolve because `Outbounds` adds the `GLOBAL` they need.
  - `SingboxImplementsRuleStream`, for conversions that are `Orderly`: no merged
    ruleset holds two IP-VERSION rules of different value, since all plain rules of a
    ruleset share one object, which has one such value; and under a limit a FINAL
    stands at the end of its list.  Without either the refinement does not hold of
    the code (section 5).  The argument is by induction over a list of rules: the
    objects made of its first `n` rules say what those rules say (`ObjectsSay`).

Model-checked only:

- the liveness properties `EveryCallEnds`, `EveryRequestEnds`, `EveryLoadReturns`,
  `NamingEnds` and `ShutdownCompletes`, which are out of the prover's reach, as is
  everything under `ENABLED`;
- `HttpProvidersServe`, for lists that are read alike (section 5 has the others);
- the tables of `ProxyChain` (`ExportsReadBack`, `TlsIsNeverLost`, `ChainSettles`): their
  modules have no parameters to generalise over, and the properties are case analyses over
  every pair of a parser and a writer, which is what a model checker does best.

## 5. Where code and documents disagree

1. `fetch_oversize`: `docs/rust-operations.md` answers an exceeded size with 413;
   a cached fetch answers 502, because `get_http` turns every error of the shared
   download into `Upstream`.
2. `convert_status`: the guide answers upstream failures with 502; with
   `skip_failed_links` (the default) a conversion that lost every source to its
   origin answers 400.
3. `template_panic`: `insert_dotted` asserts that "dotted variable path must remain an
   object" (`template.rs:121`).  The defaults of a request have the text `"false"` under
   `clash.dns`; a request with the one variable `clash.dns.x` goes on below it and panics
   (500) in every order.  The proof of `OrderNeverMatters` is what showed this.  Two
   variables of which one is below the other, `clash` and `clash.dns`, panic in one of
   two orders of the `HashMap`; that is not what the trace shows.  `Compatible` excludes
   both.
4. `node_names_skipped`: the migration notes say that skipped proxies reserve no
   names; a Snell proxy, which sing-box cannot have, keeps its name and an
   exported one is renamed for it.

Observed while modelling, with no run of its own:

- An entry of the cache keeps the TTL of the call that stored it, and the key is
  the URL: a source of one kind may be served for the TTL of another
  (`fetch.rs:143`; `docs/rust-operations.md:66` gives each kind its own).
- At the limit the answer of `/ruleset` depends on which source was faster
  (`api.rs:324`); `OrderIrrelevantBelowLimit` says that below it it does not.
- Adjacent sources of a group are merged as text: two YAML lists become a text
  that is no YAML, and lose their rules (`clash.rs:245`).
- The URL of an HTTP provider does not name the format of its source, and
  `/ruleset` finds no rules in a QuanX list (`clash.rs:587`); an IP rule with something
  else than a network, or a domain rule with a network, is one for the exporter only.
- When a provider has several sources and a limit cuts them, `/ruleset` keeps those
  that arrived first and the exporter those that are listed first (`api.rs:324`).
- A FINAL inside a list is counted when parsing and not when counting what came
  out, so that fewer rules than allowed may be written (`singbox.rs:252`).
- A proxy named `DIRECT` or like a group makes two outbounds of one tag
  (`singbox.rs:106`).
- A TUIC or Hysteria2 proxy of a Surge section is written for sing-box without
  the TLS that sing-box requires (`structured.rs:191`).
- With a forward reference, or a value that spells one, the order of a `HashMap`
  decides what a private rewrite expands to (`private.rs:78`);
  `RouteIsIntended` says that otherwise it does not.
- A geo provider is always referred to without `no-resolve`, whether or not the
  inline rule it replaces had it: the option is lost (`clash.rs:657`).  `ResolutionKept` is about
  providers that hold networks.
- A line such as `x`, without a comma, is no rule for the exporters, but `/ruleset`
  serves it and counts it against `max_allowed_rules`: of `x`, `DOMAIN,y` and
  `DOMAIN,z` with a limit of two, the provider stands for both rules and `/ruleset`
  serves the first (`rules.rs:247`, `api.rs:340`).
- `.x` in a domain list is served over HTTP as it is, while an inline provider
  has `+.x`.

## 6. Not modelled

- The YAML layout of the Clash exporter (`serialize_clash_yaml` and below), the
  MRS file around the payload (zstd, header), the Liquid engine, regular
  expressions, percent decoding, base64, URL, JSON, YAML and TOML syntax:
  libraries and text.
- Response headers, subscription metadata, request ids, tracing, `/` and
  `/healthz`: no state, and no property here depends on them.
- `read_limited` (`fetch.rs:257-292`) beyond "can be read, is too large, fails": a
  file that grows between the check and the read is read whole, which needs
  another process to write into the configuration directory.
- The include and exclude filters beyond that they may remove every proxy.
- `legacy/` (the Go service), benches, workflows, the container image.

## 7. What could be added

A run of `ServerLifecycle` over `FetchCache`, so that the downloads a handler waits for are
the shared ones.
