----------------------------- MODULE FetchCache -----------------------------
(***************************************************************************)
(* The HTTP side of crates/easysub-core/src/fetch.rs: Fetcher::get_http,   *)
(* Fetcher::download and the shared moka cache behind them.                *)
(*                                                                         *)
(* A "call" is one execution of get_http.  Calls for the same URL with a   *)
(* non-zero TTL share one download through moka's try_get_with: the first  *)
(* one to miss leads, the others follow.  A call is a future, so its       *)
(* request can drop it at any await (request timeout, a sibling source     *)
(* failing under try_collect, a client that hangs up).                     *)
(***************************************************************************)
EXTENDS Integers, FiniteSets

CONSTANTS
    Calls,           \* executions of get_http
    NoCall,          \* "nobody leads the download of this URL"
    Urls,            \* cache keys
    Ttls,            \* cache_subscription, cache_config, cache_ruleset; may hold 0
    MaxBytes,        \* advance.max_download_bytes, in chunks
    Sizes,           \* sizes an upstream body may have, in chunks
    RequestTimeout,  \* the client's total timeout of one request
    MaxVersion,      \* bound: how often the content of a URL changes
    Horizon          \* bound: the clock stops here unless a download runs

ASSUME FetchAssumption ==
    /\ NoCall \notin Calls
    /\ Ttls \subseteq Nat
    /\ Sizes \subseteq Nat
    /\ MaxBytes \in Nat
    /\ RequestTimeout \in Nat \ {0}
    /\ MaxVersion \in Nat
    /\ Horizon \in Nat

VARIABLES
    now,       \* the clock
    upstream,  \* upstream[u]: version of the content the origin serves for u
    cache,     \* cache[u]: the entry of u, NoEntry if there is none
    leader,    \* leader[u]: the call that runs the init future of u
    pc,        \* pc[c]: where call c is
    call,      \* call[c]: the arguments of call c
    dl,        \* dl[c]: the response call c is reading
    got,       \* got[c]: what call c returned
    served     \* history: highest version of u a cached call has returned

vars == <<now, upstream, cache, leader, pc, call, dl, got, served>>

-----------------------------------------------------------------------------
(* Data *)

Version == 0 .. MaxVersion

Entry == [version : Version, sampled : Nat, filled : Nat, ttl : Nat, deadline : Nat]

\* No value ever stored has deadline 0: a cached fill has a TTL above 0.
NoEntry == [version |-> 0, sampled |-> 0, filled |-> 0, ttl |-> 0, deadline |-> 0]

Response == [started : Nat, version : Version, sampled : Nat, size : Nat, read : Nat]

Sent(t) == [started |-> t, version |-> 0, sampled |-> 0, size |-> 0, read |-> 0]

NoResponse == Sent(0)

\* "cause" is the error of the download behind an error a call returns.
Result == [kind : {"none", "ok", "Upstream", "Limit", "dropped"},
           cause : {"none", "Upstream", "Limit"},
           version : Version, sampled : Nat, ttl : Nat]

Error(kind, cause) ==
    [kind |-> kind, cause |-> cause, version |-> 0, sampled |-> 0, ttl |-> 0]

Unanswered == Error("none", "none")

Ok(version, sampled, ttl) ==
    [kind |-> "ok", cause |-> "none",
     version |-> version, sampled |-> sampled, ttl |-> ttl]

Larger(a, b) == IF a < b THEN b ELSE a

-----------------------------------------------------------------------------
(* The cache *)

\* moka returns an entry only while it has not expired.
Live(u) == now < cache[u].deadline

\* impl Expiry for CachedValueExpiry: the time to live of a value starts anew
\* when it replaces an expired entry that was not purged yet.
ExpireAfterCreate(ttl) == now + ttl
ExpireAfterUpdate(ttl, deadline) == now + ttl

\* Mutation: the update hook keeps the deadline of the value it replaces.
ExpireKeepsOldDeadline(u, r, ttl) ==
    [version |-> r.version, sampled |-> r.sampled, filled |-> now, ttl |-> ttl,
     deadline |-> IF cache[u] = NoEntry THEN now + ttl ELSE cache[u].deadline]

Insert(u, r, ttl) ==
    [version |-> r.version, sampled |-> r.sampled, filled |-> now, ttl |-> ttl,
     deadline |-> IF cache[u] = NoEntry THEN ExpireAfterCreate(ttl)
                  ELSE ExpireAfterUpdate(ttl, cache[u].deadline)]

Cached(c) == call[c].ttl # 0
Downloading(c) == pc[c] \in {"sent", "body"}
Followers(u) == {c \in Calls : pc[c] = "following" /\ call[c].url = u}

\* The calls that get the result of c's download.
Sharers(c) == {c} \cup (IF Cached(c) THEN Followers(call[c].url) ELSE {})

Settle(S, result) ==
    /\ pc' = [c \in Calls |-> IF c \in S THEN "done" ELSE pc[c]]
    /\ got' = [c \in Calls |-> IF c \in S THEN result ELSE got[c]]
    /\ dl' = [c \in Calls |-> IF c \in S THEN NoResponse ELSE dl[c]]

\* The waiter of u goes away together with the call that leads it.
StopLeading(c) ==
    leader' = [u \in Urls |-> IF leader[u] = c THEN NoCall ELSE leader[u]]

Deliver(u, version) == served' = [served EXCEPT ![u] = Larger(@, version)]

BeginDownload(c) == dl' = [dl EXCEPT ![c] = Sent(now)]

-----------------------------------------------------------------------------
Init ==
    /\ now = 0
    /\ upstream = [u \in Urls |-> 0]
    /\ cache = [u \in Urls |-> NoEntry]
    /\ leader = [u \in Urls |-> NoCall]
    /\ pc = [c \in Calls |-> "idle"]
    /\ call \in [Calls -> [url : Urls, ttl : Ttls, floor : {0}]]
    /\ dl = [c \in Calls |-> NoResponse]
    /\ got = [c \in Calls |-> Unanswered]
    /\ served = [u \in Urls |-> 0]

\* get_http is called; without a TTL it goes straight to the origin.
GetHttp(c) ==
    /\ pc[c] = "idle"
    /\ call' = [call EXCEPT ![c].floor = served[call[c].url]]
    /\ IF Cached(c)
       THEN pc' = [pc EXCEPT ![c] = "lookup"] /\ UNCHANGED dl
       ELSE pc' = [pc EXCEPT ![c] = "sent"] /\ BeginDownload(c)
    /\ UNCHANGED <<now, upstream, cache, leader, got, served>>

\* Mutation: a hit renews the entry (time to idle instead of time to live).
HitRenewsEntry(c) ==
    LET u == call[c].url IN
    /\ pc[c] = "lookup"
    /\ Live(u)
    /\ Settle({c}, Ok(cache[u].version, cache[u].sampled, cache[u].ttl))
    /\ Deliver(u, cache[u].version)
    /\ cache' = [cache EXCEPT ![u].deadline = now + cache[u].ttl]
    /\ UNCHANGED <<now, upstream, leader, call>>

\* try_get_with finds an entry that has not expired.
Hit(c) ==
    LET u == call[c].url IN
    /\ pc[c] = "lookup"
    /\ Live(u)
    /\ Settle({c}, Ok(cache[u].version, cache[u].sampled, cache[u].ttl))
    /\ Deliver(u, cache[u].version)
    /\ UNCHANGED <<now, upstream, cache, leader, call>>

\* Mutation: get, download, insert in place of try_get_with: nobody waits.
LeadUnlessLive(c) ==
    LET u == call[c].url IN
    /\ pc[c] = "lookup"
    /\ ~Live(u)
    /\ leader' = [leader EXCEPT ![u] = c]
    /\ pc' = [pc EXCEPT ![c] = "sent"]
    /\ BeginDownload(c)
    /\ UNCHANGED <<now, upstream, cache, call, got, served>>

\* try_get_with finds neither an entry nor a waiter: c runs its own init future.
Lead(c) ==
    LET u == call[c].url IN
    /\ pc[c] = "lookup"
    /\ ~Live(u)
    /\ leader[u] = NoCall
    /\ leader' = [leader EXCEPT ![u] = c]
    /\ pc' = [pc EXCEPT ![c] = "sent"]
    /\ BeginDownload(c)
    /\ UNCHANGED <<now, upstream, cache, call, got, served>>

\* try_get_with finds a waiter: c waits for the leader and drops its own future.
Follow(c) ==
    /\ pc[c] = "lookup"
    /\ ~Live(call[c].url)
    /\ leader[call[c].url] # NoCall
    /\ pc' = [pc EXCEPT ![c] = "following"]
    /\ UNCHANGED <<now, upstream, cache, leader, call, dl, got, served>>

-----------------------------------------------------------------------------
(* Fetcher::download *)

\* A cached call and its followers see an error of the download as Upstream
\* whatever it was, a direct call sees it as it is.
FetchError(c, kind) ==
    Error(IF Cached(c) THEN "Upstream" ELSE kind, kind)

\* The download of c ends with an error, for its followers too.
Fail(c, kind) ==
    /\ Settle(Sharers(c), FetchError(c, kind))
    /\ StopLeading(c)
    /\ UNCHANGED <<now, upstream, cache, call, served>>

\* send() returns a response with a success status; a declared length above
\* the limit is refused before the body is read.
Respond(c) ==
    /\ pc[c] = "sent"
    /\ \E size \in Sizes, declared \in BOOLEAN :
        IF declared /\ size > MaxBytes
        THEN Fail(c, "Limit")
        ELSE /\ pc' = [pc EXCEPT ![c] = "body"]
             /\ dl' = [dl EXCEPT ![c] =
                    [started |-> @.started, version |-> upstream[call[c].url],
                     sampled |-> now, size |-> size, read |-> 0]]
             /\ UNCHANGED <<now, upstream, cache, leader, call, got, served>>

\* Mutation: only the declared length is compared with the limit.
ReadChunkUnchecked(c) ==
    /\ pc[c] = "body"
    /\ dl[c].read < dl[c].size
    /\ dl' = [dl EXCEPT ![c].read = @ + 1]
    /\ UNCHANGED <<now, upstream, cache, leader, pc, call, got, served>>

\* One item of bytes_stream(): the limit is checked before the chunk is kept.
ReadChunk(c) ==
    /\ pc[c] = "body"
    /\ dl[c].read < dl[c].size
    /\ IF dl[c].read + 1 > MaxBytes
       THEN Fail(c, "Limit")
       ELSE /\ dl' = [dl EXCEPT ![c].read = @ + 1]
            /\ UNCHANGED <<now, upstream, cache, leader, pc, call, got, served>>

\* Connection refused, error status, broken stream.
UpstreamFails(c) == Downloading(c) /\ Fail(c, "Upstream")

\* Mutation: the timeout covers the wait for the response, not its body.
DownloadTimesOutUnanswered(c) ==
    /\ pc[c] = "sent"
    /\ now >= dl[c].started + RequestTimeout
    /\ Fail(c, "Upstream")

\* reqwest's total timeout.
DownloadTimesOut(c) ==
    /\ Downloading(c)
    /\ now >= dl[c].started + RequestTimeout
    /\ Fail(c, "Upstream")

\* The stream ends: the value is inserted and handed to every follower.
Complete(c) ==
    LET u == call[c].url
        r == dl[c]
    IN
    /\ pc[c] = "body"
    /\ r.read = r.size
    /\ Settle(Sharers(c), Ok(r.version, r.sampled, call[c].ttl))
    /\ StopLeading(c)
    /\ IF Cached(c)
       THEN /\ cache' = [cache EXCEPT ![u] = Insert(u, r, call[c].ttl)]
            /\ Deliver(u, r.version)
       ELSE UNCHANGED <<cache, served>>
    /\ UNCHANGED <<now, upstream, call>>

-----------------------------------------------------------------------------
(* The surroundings *)

\* The future of call c is dropped.  A leader takes its download with it;
\* its followers go back to the cache and elect a new leader.
Drop(c) ==
    /\ pc[c] \notin {"idle", "done"}
    /\ pc' = [x \in Calls |->
                IF x = c THEN "done"
                ELSE IF leader[call[c].url] = c /\ x \in Followers(call[c].url)
                THEN "lookup" ELSE pc[x]]
    /\ got' = [got EXCEPT ![c] = Error("dropped", "none")]
    /\ dl' = [dl EXCEPT ![c] = NoResponse]
    /\ StopLeading(c)
    /\ UNCHANGED <<now, upstream, cache, call, served>>

\* Size-based eviction, a refused admission, or the purge of an expired entry.
Evict(u) ==
    /\ cache[u] # NoEntry
    /\ cache' = [cache EXCEPT ![u] = NoEntry]
    /\ UNCHANGED <<now, upstream, leader, pc, call, dl, got, served>>

Publish(u) ==
    /\ upstream[u] < MaxVersion
    /\ upstream' = [upstream EXCEPT ![u] = @ + 1]
    /\ UNCHANGED <<now, cache, leader, pc, call, dl, got, served>>

\* Time never passes the timeout of a running download.
Tick ==
    /\ now < Horizon \/ \E c \in Calls : Downloading(c)
    /\ \A c \in Calls : Downloading(c) => now < dl[c].started + RequestTimeout
    /\ now' = now + 1
    /\ UNCHANGED <<upstream, cache, leader, pc, call, dl, got, served>>

Quiescent ==
    /\ \A c \in Calls : pc[c] = "done"
    /\ UNCHANGED vars

Next ==
    \/ \E c \in Calls :
        \/ GetHttp(c) \/ Hit(c) \/ Lead(c) \/ Follow(c)
        \/ Respond(c) \/ ReadChunk(c) \/ Complete(c)
        \/ UpstreamFails(c) \/ DownloadTimesOut(c) \/ Drop(c)
    \/ \E u \in Urls : Evict(u) \/ Publish(u)
    \/ Tick
    \/ Quiescent

\* The runtime polls a ready call and fires its timers; the origin owes nothing.
Fairness ==
    /\ WF_vars(Tick)
    /\ \A c \in Calls : WF_vars(Hit(c) \/ Lead(c) \/ Follow(c))
    /\ \A c \in Calls : WF_vars(DownloadTimesOut(c))

Spec == Init /\ [][Next]_vars

FairSpec == Spec /\ Fairness

-----------------------------------------------------------------------------
(* Properties *)

\* Every variable has its type.
TypeOK ==
    /\ now \in Nat
    /\ upstream \in [Urls -> Version]
    /\ cache \in [Urls -> Entry]
    /\ leader \in [Urls -> Calls \cup {NoCall}]
    /\ pc \in [Calls -> {"idle", "lookup", "following", "sent", "body", "done"}]
    /\ call \in [Calls -> [url : Urls, ttl : Ttls, floor : Version]]
    /\ dl \in [Calls -> Response]
    /\ got \in [Calls -> Result]
    /\ served \in [Urls -> Version]

\* However calls interleave and whichever are dropped, at most one cached call
\* per URL is talking to the origin, and the cache knows it as the leader.
SingleFlight ==
    \A c \in Calls : Downloading(c) /\ Cached(c) => leader[call[c].url] = c

\* A leader is a running cached download of that URL: a waiter that outlives
\* its leader would block the URL for good.
LeaderDownloads ==
    \A u \in Urls : leader[u] # NoCall =>
        Downloading(leader[u]) /\ Cached(leader[u]) /\ call[leader[u]].url = u

\* A call waits only for a leader that exists: when a leader fails or is
\* dropped, no follower stays behind.
FollowersHaveLeader ==
    \A c \in Calls : pc[c] = "following" => leader[call[c].url] # NoCall

\* A response is never held beyond max_download_bytes, whether the origin
\* declared its length or not.
BodyWithinLimit == \A c \in Calls : dl[c].read <= MaxBytes

Answers(c) == pc[c] # "done" /\ pc'[c] = "done" /\ got'[c].kind = "ok"

\* The version a call returns was the one the origin served at a moment no
\* longer ago than the TTL it was stored with plus the request timeout.
BoundedStaleness ==
    [][\A c \in Calls : Answers(c) =>
        now < got'[c].sampled + Larger(got'[c].ttl, 1) + RequestTimeout]_vars

\* Cached reads of a URL never go back in time: a call returns no version
\* older than one that had been returned when it was made.
ReadsMonotone ==
    [][\A c \in Calls : Answers(c) /\ Cached(c) =>
        got'[c].version >= call[c].floor]_vars

\* A URL is downloaded again only when its entry was evicted or has been
\* stored for its whole TTL, also when it replaced an expired entry.
OneDownloadPerTtl ==
    [][\A u \in Urls : leader[u] = NoCall /\ leader'[u] # NoCall =>
        cache[u] = NoEntry \/ now >= cache[u].filled + cache[u].ttl]_vars

\* Every call ends, although the origin may never answer and any leader may
\* be dropped.
EveryCallEnds == \A c \in Calls : pc[c] # "idle" ~> pc[c] = "done"

\* docs/rust-operations.md:102-103 has an oversized response answered 413: a
\* call whose download went over the limit ends with Limit.
OversizeIsLimit == \A c \in Calls : got[c].cause = "Limit" => got[c].kind = "Limit"

=============================================================================
