-------------------------- MODULE FetchCacheProofs --------------------------
(* Theorems about FetchCache, for every set of calls, URLs and TTLs. *)
EXTENDS FetchCache, TLAPS

\* An empty cache and idle calls have their types.
LEMMA TypeInit == Init => TypeOK
  BY FetchAssumption DEF Init, TypeOK, Version, Entry, NoEntry, Response, NoResponse, Sent,
     Result, Unanswered, Error

\* Settle keeps the types of what it assigns.
LEMMA SettleType ==
  ASSUME TypeOK, NEW S \in SUBSET Calls, NEW result \in Result, Settle(S, result)
  PROVE  /\ pc' \in [Calls -> {"idle", "lookup", "following", "sent", "body", "done"}]
         /\ got' \in [Calls -> Result]
         /\ dl' \in [Calls -> Response]
  BY FetchAssumption DEF TypeOK, Settle, Response, NoResponse, Sent, Version

\* Electing another leader, or none, keeps the types of calls and leaders.
LEMMA StopLeadingType ==
  ASSUME TypeOK, NEW c \in Calls, StopLeading(c)
  PROVE  leader' \in [Urls -> Calls \cup {NoCall}]
  BY DEF TypeOK, StopLeading

\* Handing an error to everybody who shares a download keeps the types.
LEMMA FailType ==
  ASSUME TypeOK, NEW c \in Calls, NEW kind \in {"Upstream", "Limit"}, Fail(c, kind)
  PROVE  TypeOK'
<1>1. Sharers(c) \in SUBSET Calls
  BY DEF Sharers, Followers
<1>2. FetchError(c, kind) \in Result
  BY FetchAssumption DEF FetchError, Error, Result, Version
<1>3. Settle(Sharers(c), FetchError(c, kind)) /\ StopLeading(c)
      /\ UNCHANGED <<now, upstream, cache, call, served>>
  BY DEF Fail
<1> QED
  BY <1>1, <1>2, <1>3, SettleType, StopLeadingType DEF TypeOK

\* Every step keeps the types.
LEMMA TypeStep == TypeOK /\ [Next]_vars => TypeOK'
<1> SUFFICES ASSUME TypeOK, [Next]_vars
             PROVE  TypeOK'
  OBVIOUS
<1> USE FetchAssumption
<1>1. ASSUME NEW c \in Calls, GetHttp(c)
      PROVE  TypeOK'
  <2>1. call' \in [Calls -> [url : Urls, ttl : Ttls, floor : Version]]
    BY <1>1 DEF GetHttp, TypeOK
  <2>2. Sent(now) \in Response
    BY DEF Sent, Response, Version, TypeOK
  <2> QED
    BY <1>1, <2>1, <2>2 DEF TypeOK, GetHttp, BeginDownload
<1>2. ASSUME NEW c \in Calls, Hit(c)
      PROVE  TypeOK'
  <2>1. call[c].url \in Urls
    BY DEF TypeOK
  <2>2. Ok(cache[call[c].url].version, cache[call[c].url].sampled, cache[call[c].url].ttl)
          \in Result
    BY <2>1 DEF TypeOK, Entry, Ok, Result
  <2>3. served' \in [Urls -> Version]
    BY <1>2, <2>1 DEF Hit, Deliver, Larger, TypeOK, Entry
  <2> QED
    BY <1>2, <2>2, <2>3, SettleType DEF Hit, TypeOK
<1>3. ASSUME NEW c \in Calls, Lead(c)
      PROVE  TypeOK'
  <2>1. Sent(now) \in Response
    BY DEF Sent, Response, Version, TypeOK
  <2> QED
    BY <1>3, <2>1 DEF TypeOK, Lead, BeginDownload
<1>4. ASSUME NEW c \in Calls, Follow(c)
      PROVE  TypeOK'
  BY <1>4 DEF TypeOK, Follow
<1>5. ASSUME NEW c \in Calls, Respond(c)
      PROVE  TypeOK'
  <2>1. CASE Fail(c, "Limit")
    BY <2>1, FailType
  <2>2. CASE ~Fail(c, "Limit")
    <3>1. PICK size \in Sizes :
            /\ dl' = [dl EXCEPT ![c] =
                  [started |-> @.started, version |-> upstream[call[c].url],
                   sampled |-> now, size |-> size, read |-> 0]]
            /\ pc' = [pc EXCEPT ![c] = "body"]
            /\ UNCHANGED <<now, upstream, cache, leader, call, got, served>>
      BY <1>5, <2>2 DEF Respond
    <3>2. [started |-> dl[c].started, version |-> upstream[call[c].url],
           sampled |-> now, size |-> size, read |-> 0] \in Response
      BY DEF TypeOK, Response
    <3> QED
      BY <3>1, <3>2 DEF TypeOK
  <2> QED
    BY <2>1, <2>2
<1>6. ASSUME NEW c \in Calls, ReadChunk(c)
      PROVE  TypeOK'
  <2>1. CASE Fail(c, "Limit")
    BY <2>1, FailType
  <2>2. CASE ~Fail(c, "Limit")
    BY <1>6, <2>2 DEF ReadChunk, TypeOK, Response
  <2> QED
    BY <2>1, <2>2
<1>7. ASSUME NEW c \in Calls, UpstreamFails(c) \/ DownloadTimesOut(c)
      PROVE  TypeOK'
  BY <1>7, FailType DEF UpstreamFails, DownloadTimesOut
<1>8. ASSUME NEW c \in Calls, Complete(c)
      PROVE  TypeOK'
  <2>1. call[c].url \in Urls /\ call[c].ttl \in Nat /\ dl[c] \in Response
    BY DEF TypeOK
  <2>2. Sharers(c) \in SUBSET Calls
    BY DEF Sharers, Followers
  <2>3. Ok(dl[c].version, dl[c].sampled, call[c].ttl) \in Result
    BY <2>1 DEF Response, Ok, Result
  <2>4. Insert(call[c].url, dl[c], call[c].ttl) \in Entry
    BY <2>1 DEF Insert, ExpireAfterCreate, ExpireAfterUpdate, Entry, Response, TypeOK
  <2>5. cache' \in [Urls -> Entry]
    BY <1>8, <2>1, <2>4 DEF Complete, TypeOK
  <2>6. served' \in [Urls -> Version]
    BY <1>8, <2>1 DEF Complete, Deliver, Larger, TypeOK, Response
  <2> QED
    BY <1>8, <2>2, <2>3, <2>5, <2>6, SettleType, StopLeadingType DEF Complete, TypeOK
<1>9. ASSUME NEW c \in Calls, Drop(c)
      PROVE  TypeOK'
  <2>1. Error("dropped", "none") \in Result
    BY DEF Error, Result, Version
  <2>2. NoResponse \in Response
    BY DEF NoResponse, Sent, Response, Version
  <2> QED
    BY <1>9, <2>1, <2>2, StopLeadingType DEF Drop, TypeOK
<1>10. ASSUME NEW u \in Urls, Evict(u) \/ Publish(u)
       PROVE  TypeOK'
  BY <1>10 DEF Evict, Publish, TypeOK, Version, Entry, NoEntry
<1>11. ASSUME Tick
       PROVE  TypeOK'
  BY <1>11 DEF Tick, TypeOK
<1>12. CASE UNCHANGED vars
  BY <1>12 DEF vars, TypeOK
<1> QED
  BY <1>1, <1>2, <1>3, <1>4, <1>5, <1>6, <1>7, <1>8, <1>9, <1>10, <1>11, <1>12
     DEF Next, Quiescent

\* Every variable of FetchCache keeps its type.
THEOREM TypeCorrect == Spec => []TypeOK
  BY TypeInit, TypeStep, PTL DEF Spec

-----------------------------------------------------------------------------
(* Single flight *)

\* None of the three parts is inductive alone: a follower keeps its leader
\* because a leader's URL is its own, and a new leader is alone because every
\* running download is the leader of its URL.  Only a cached call ever looks
\* into the cache, which is why a leader is a cached call.
OnlyCachedCallsWait == \A c \in Calls : pc[c] \in {"lookup", "following"} => Cached(c)

Flight == SingleFlight /\ LeaderDownloads /\ FollowersHaveLeader /\ OnlyCachedCallsWait

\* Ending a download together with all its sharers leaves nobody behind.
LEMMA SettleFlight ==
  ASSUME TypeOK, Flight, NEW c \in Calls, NEW result,
         Settle(Sharers(c), result), StopLeading(c), call' = call
  PROVE  Flight'
<1> USE FetchAssumption
<1>1. SingleFlight'
  BY DEF Flight, SingleFlight, Settle, StopLeading, Sharers, Downloading, Cached, TypeOK
<1>2. LeaderDownloads'
  <2> SUFFICES ASSUME NEW u \in Urls, leader'[u] # NoCall
               PROVE  (Downloading(leader[u]) /\ Cached(leader[u])
                       /\ call[leader[u]].url = u)' /\ leader'[u] = leader[u]
    BY DEF LeaderDownloads, Downloading, Cached
  <2>1. leader'[u] = leader[u] /\ leader[u] # c /\ leader[u] \in Calls
    BY DEF StopLeading, TypeOK
  <2>2. Downloading(leader[u]) /\ Cached(leader[u]) /\ call[leader[u]].url = u
    BY <2>1 DEF Flight, LeaderDownloads
  <2>3. leader[u] \notin Sharers(c)
    BY <2>1, <2>2 DEF Sharers, Followers, Downloading
  <2> QED
    BY <2>1, <2>2, <2>3 DEF Settle, Downloading, Cached
<1>3. FollowersHaveLeader'
  <2> SUFFICES ASSUME NEW d \in Calls, pc'[d] = "following"
               PROVE  leader'[call[d].url] # NoCall
    BY DEF FollowersHaveLeader
  <2>1. pc[d] = "following" /\ d \notin Sharers(c) /\ call[d].url \in Urls
    BY DEF Settle, TypeOK
  <2>2. leader[call[d].url] # NoCall
    BY <2>1 DEF Flight, FollowersHaveLeader
  <2>3. leader[call[d].url] # c
    BY <2>1, <2>2 DEF Flight, LeaderDownloads, Sharers, Followers
  <2> QED
    BY <2>1, <2>2, <2>3 DEF StopLeading
<1>4. OnlyCachedCallsWait'
  BY DEF Flight, OnlyCachedCallsWait, Settle, Cached
<1> QED
  BY <1>1, <1>2, <1>3, <1>4 DEF Flight

\* Every step keeps leaders, followers and downloads in agreement.
LEMMA FlightStep == TypeOK /\ Flight /\ [Next]_vars => Flight'
<1> SUFFICES ASSUME TypeOK, Flight, [Next]_vars
             PROVE  Flight'
  OBVIOUS
<1> USE FetchAssumption DEF Flight, SingleFlight, LeaderDownloads, FollowersHaveLeader,
                            OnlyCachedCallsWait
<1>1. ASSUME NEW c \in Calls, GetHttp(c)
      PROVE  Flight'
  <2>1. \A d \in Calls : call'[d].url = call[d].url /\ call'[d].ttl = call[d].ttl
    BY <1>1 DEF GetHttp, TypeOK
  <2> QED
    BY <1>1, <2>1 DEF GetHttp, TypeOK, Downloading, Cached
<1>2. ASSUME NEW c \in Calls, Hit(c)
      PROVE  Flight'
  <2>1. /\ pc[c] = "lookup" /\ leader' = leader /\ call' = call
        /\ \A d \in Calls : pc'[d] = IF d = c THEN "done" ELSE pc[d]
    BY <1>2 DEF Hit, Settle
  <2>2. \A u \in Urls : leader[u] # NoCall => leader[u] \in Calls \ {c}
    BY <2>1 DEF Downloading, TypeOK
  <2>3. \A d \in Calls : Cached(d)' = Cached(d) /\ (Downloading(d)' <=> Downloading(d))
    BY <2>1 DEF Cached, Downloading
  <2>4. SingleFlight'
    BY <2>1, <2>3
  <2>5. LeaderDownloads'
    BY <2>1, <2>2, <2>3
  <2>6. FollowersHaveLeader'
    BY <2>1
  <2>7. OnlyCachedCallsWait'
    BY <2>1, <2>3
  <2> QED
    BY <2>4, <2>5, <2>6, <2>7
<1>3. ASSUME NEW c \in Calls, Lead(c)
      PROVE  Flight'
  <2>1. /\ leader[call[c].url] = NoCall
        /\ leader' = [leader EXCEPT ![call[c].url] = c]
        /\ call' = call
        /\ pc' = [pc EXCEPT ![c] = "sent"]
        /\ call[c].url \in Urls /\ pc[c] = "lookup"
    BY <1>3 DEF Lead, TypeOK
  <2>2. Cached(c)
    BY <2>1
  <2>3. \A d \in Calls : Cached(d)' = Cached(d)
    BY <2>1 DEF Cached
  <2>4. SingleFlight'
    BY <2>1, <2>3 DEF Downloading, TypeOK
  <2>5. LeaderDownloads'
    BY <2>1, <2>2, <2>3 DEF Downloading, TypeOK
  <2>6. FollowersHaveLeader'
    BY <2>1 DEF TypeOK
  <2>7. OnlyCachedCallsWait'
    BY <2>1, <2>3 DEF TypeOK
  <2> QED
    BY <2>4, <2>5, <2>6, <2>7
<1>4. ASSUME NEW c \in Calls, Follow(c)
      PROVE  Flight'
  BY <1>4 DEF Follow, TypeOK, Downloading, Cached
<1>5. ASSUME NEW c \in Calls, NEW kind, Fail(c, kind)
      PROVE  Flight'
  BY <1>5, SettleFlight DEF Fail
<1>6. ASSUME NEW c \in Calls, Respond(c), ~Fail(c, "Limit")
      PROVE  Flight'
  BY <1>6 DEF Respond, TypeOK, Downloading, Cached
<1>7. ASSUME NEW c \in Calls, ReadChunk(c), ~Fail(c, "Limit")
      PROVE  Flight'
  BY <1>7 DEF ReadChunk, TypeOK, Downloading, Cached
<1>8. ASSUME NEW c \in Calls, Complete(c)
      PROVE  Flight'
  BY <1>8, SettleFlight DEF Complete
<1>9. ASSUME NEW c \in Calls, Drop(c)
      PROVE  Flight'
  BY <1>9 DEF Drop, StopLeading, Followers, TypeOK, Downloading, Cached
<1>10. ASSUME UNCHANGED <<leader, pc, call>>
       PROVE  Flight'
  BY <1>10 DEF Downloading, Cached
<1> QED
  BY <1>1, <1>2, <1>3, <1>4, <1>5, <1>6, <1>7, <1>8, <1>9, <1>10
     DEF Next, UpstreamFails, DownloadTimesOut, Evict, Publish, Tick, Quiescent, vars

\* Leaders, followers and downloads always agree.
LEMMA FlightHolds == Spec => []Flight
<1>1. Init => Flight
  BY FetchAssumption DEF Init, Flight, SingleFlight, LeaderDownloads, FollowersHaveLeader,
     OnlyCachedCallsWait, Downloading
<1> QED
  BY <1>1, FlightStep, TypeCorrect, PTL DEF Spec

\* At most one cached call per URL is downloading it, and the cache knows that
\* call as the leader, whatever is dropped and in whatever order.
THEOREM SingleFlightHolds == Spec => []SingleFlight
  BY FlightHolds, PTL DEF Flight

\* A follower always has a leader, and a leader is a running cached download.
THEOREM NobodyWaitsForNobody == Spec => [](FollowersHaveLeader /\ LeaderDownloads)
  BY FlightHolds, PTL DEF Flight

-----------------------------------------------------------------------------
(* Staleness *)

\* An entry is stored no later than the request timeout after the origin
\* answered, and expires one TTL later; a download never outlives its timeout.
EntryTimes ==
    \A u \in Urls :
        /\ cache[u].filled <= cache[u].sampled + RequestTimeout
        /\ cache[u].deadline = cache[u].filled + cache[u].ttl

DownloadTimes ==
    \A c \in Calls :
        /\ Downloading(c) => dl[c].started <= now /\ now <= dl[c].started + RequestTimeout
        /\ pc[c] = "body" => dl[c].started <= dl[c].sampled

\* Every step keeps the times of cached entries in order.
LEMMA EntryTimesStep ==
  TypeOK /\ EntryTimes /\ DownloadTimes /\ [Next]_vars => EntryTimes'
<1> SUFFICES ASSUME TypeOK, EntryTimes, DownloadTimes, [Next]_vars
             PROVE  EntryTimes'
  OBVIOUS
<1> USE FetchAssumption
<1>1. CASE UNCHANGED cache
  BY <1>1 DEF EntryTimes
<1>2. ASSUME NEW c \in Calls, Complete(c), cache' # cache
      PROVE  EntryTimes'
  <2> DEFINE r == dl[c]
  <2>1. /\ call[c].url \in Urls /\ call[c].ttl \in Nat
        /\ r.sampled \in Nat /\ r.started \in Nat /\ now \in Nat
    BY DEF TypeOK, Response
  <2>2. cache' = [cache EXCEPT ![call[c].url] = Insert(call[c].url, r, call[c].ttl)]
    BY <1>2 DEF Complete
  <2>3. now <= r.sampled + RequestTimeout
    BY <1>2, <2>1 DEF DownloadTimes, Complete, Downloading
  <2>4. LET e == Insert(call[c].url, r, call[c].ttl)
        IN  e.filled <= e.sampled + RequestTimeout /\ e.deadline = e.filled + e.ttl
    BY <2>3 DEF Insert, ExpireAfterCreate, ExpireAfterUpdate
  <2> QED
    BY <2>1, <2>2, <2>4 DEF EntryTimes, TypeOK
<1>3. ASSUME NEW u \in Urls, Evict(u)
      PROVE  EntryTimes'
  BY <1>3 DEF Evict, EntryTimes, NoEntry, TypeOK
<1> QED
  BY <1>1, <1>2, <1>3
     DEF Next, vars, GetHttp, Hit, Lead, Follow, Respond, ReadChunk, UpstreamFails,
         DownloadTimesOut, Fail, Drop, Publish, Tick, Quiescent

\* Every step keeps downloads within the request timeout.
LEMMA DownloadTimesStep == TypeOK /\ DownloadTimes /\ [Next]_vars => DownloadTimes'
<1> SUFFICES ASSUME TypeOK, DownloadTimes, [Next]_vars, NEW c \in Calls
             PROVE  (/\ Downloading(c) => dl[c].started <= now
                                           /\ now <= dl[c].started + RequestTimeout
                     /\ pc[c] = "body" => dl[c].started <= dl[c].sampled)'
  BY DEF DownloadTimes
<1> USE FetchAssumption
<1> DEFINE Begins == pc'[c] = "sent" /\ dl'[c] = Sent(now) /\ now' = now
           Keeps == pc'[c] = pc[c] /\ dl'[c] = dl[c] /\ now' = now
           Idles == pc'[c] \notin {"sent", "body"}
           Reads == /\ pc[c] \in {"sent", "body"} /\ pc'[c] = "body" /\ now' = now
                    /\ dl'[c].started = dl[c].started
                    /\ dl'[c].sampled = IF pc[c] = "sent" THEN now ELSE dl[c].sampled
           Waits == /\ pc'[c] = pc[c] /\ dl'[c] = dl[c] /\ now' = now + 1
                    /\ Downloading(c) => now < dl[c].started + RequestTimeout
<1>1. ASSUME Begins \/ Keeps \/ Idles \/ Reads \/ Waits
      PROVE  (/\ Downloading(c) => dl[c].started <= now
                                   /\ now <= dl[c].started + RequestTimeout
              /\ pc[c] = "body" => dl[c].started <= dl[c].sampled)'
  BY <1>1 DEF DownloadTimes, Downloading, Sent, TypeOK, Response
<1>2. ASSUME NEW d \in Calls, GetHttp(d) \/ Lead(d) \/ Follow(d)
      PROVE  Begins \/ Keeps \/ Idles
  BY <1>2 DEF GetHttp, Lead, Follow, BeginDownload, TypeOK
<1>3. ASSUME NEW S, NEW result, Settle(S, result), now' = now
      PROVE  Keeps \/ Idles
  BY <1>3 DEF Settle
<1>4. ASSUME NEW d \in Calls, NEW kind, Fail(d, kind)
      PROVE  Keeps \/ Idles
  BY <1>4, <1>3 DEF Fail
<1>5. ASSUME NEW d \in Calls, Hit(d) \/ Complete(d)
      PROVE  Keeps \/ Idles
  BY <1>5, <1>3 DEF Hit, Complete
<1>6. ASSUME NEW d \in Calls, Respond(d) \/ ReadChunk(d)
      PROVE  Keeps \/ Idles \/ Reads
  BY <1>6, <1>4 DEF Respond, ReadChunk, TypeOK, Response
<1>7. ASSUME NEW d \in Calls, Drop(d)
      PROVE  Keeps \/ Idles
  BY <1>7 DEF Drop, TypeOK
<1>8. ASSUME Tick
      PROVE  Waits
  BY <1>8 DEF Tick
<1> QED
  BY <1>1, <1>2, <1>4, <1>5, <1>6, <1>7, <1>8
     DEF Next, UpstreamFails, DownloadTimesOut, Evict, Publish, Quiescent, vars

\* Entries and downloads always have sensible times.
LEMMA TimesHold == Spec => [](TypeOK /\ EntryTimes /\ DownloadTimes)
<1>1. Init => EntryTimes /\ DownloadTimes
  BY FetchAssumption
     DEF Init, EntryTimes, DownloadTimes, Downloading, NoEntry
<1> QED
  BY <1>1, EntryTimesStep, DownloadTimesStep, TypeCorrect, PTL DEF Spec

\* Only a hit and a completed download answer a call.
LEMMA AnswersOnly ==
  ASSUME TypeOK, [Next]_vars, NEW c \in Calls, Answers(c)
  PROVE  \/ Hit(c)
         \/ \E d \in Calls : Complete(d) /\ c \in Sharers(d)
<1> USE FetchAssumption
<1>1. ASSUME NEW d \in Calls, NEW kind \in {"Upstream", "Limit"}, Fail(d, kind)
      PROVE  FALSE
  BY <1>1 DEF Fail, Settle, FetchError, Error, Answers
<1>2. ASSUME NEW d \in Calls, Hit(d)
      PROVE  Hit(c)
  BY <1>2 DEF Hit, Settle, Answers
<1>3. ASSUME NEW d \in Calls, Complete(d)
      PROVE  c \in Sharers(d)
  BY <1>3 DEF Complete, Settle, Answers
<1>4. ASSUME NEW d \in Calls, Drop(d)
      PROVE  FALSE
  <2>1. c = d
    BY <1>4 DEF Drop, Answers, TypeOK
  <2>2. got'[c] = Error("dropped", "none")
    BY <1>4, <2>1 DEF Drop, TypeOK
  <2> QED
    BY <2>2 DEF Answers, Error
<1>5. ASSUME NEW d \in Calls, GetHttp(d) \/ Lead(d) \/ Follow(d)
      PROVE  FALSE
  BY <1>5 DEF GetHttp, Lead, Follow, Answers, TypeOK
<1>6. ASSUME NEW d \in Calls, Respond(d) \/ ReadChunk(d)
      PROVE  FALSE
  <2>1. \/ Fail(d, "Limit")
        \/ pc' = [pc EXCEPT ![d] = "body"]
        \/ UNCHANGED pc
    BY <1>6 DEF Respond, ReadChunk
  <2> QED
    BY <2>1, <1>1 DEF Answers, TypeOK
<1> QED
  BY <1>1, <1>2, <1>3, <1>4, <1>5, <1>6
     DEF Next, UpstreamFails, DownloadTimesOut, Evict, Publish, Tick, Quiescent, vars,
         Answers

\* What a call returns was current at the origin no longer ago than the TTL it
\* was stored with plus the request timeout.
THEOREM StalenessIsBounded == Spec => BoundedStaleness
<1>1. ASSUME TypeOK, EntryTimes, DownloadTimes, [Next]_vars, NEW c \in Calls, Answers(c)
      PROVE  now < got'[c].sampled + Larger(got'[c].ttl, 1) + RequestTimeout
  <2> USE FetchAssumption
  <2>1. CASE Hit(c)
    <3> DEFINE e == cache[call[c].url]
    <3>1. /\ e.sampled \in Nat /\ e.filled \in Nat /\ e.ttl \in Nat /\ e.deadline \in Nat
          /\ now \in Nat
      BY <1>1 DEF TypeOK, Entry
    <3>2. now < e.filled + e.ttl /\ e.filled <= e.sampled + RequestTimeout
      BY <1>1, <2>1 DEF EntryTimes, TypeOK, Hit, Live
    <3>3. got'[c].sampled = e.sampled /\ got'[c].ttl = e.ttl
      BY <2>1 DEF Hit, Settle, Ok
    <3> QED
      BY <3>1, <3>2, <3>3 DEF Larger
  <2>2. ASSUME NEW d \in Calls, Complete(d), c \in Sharers(d)
        PROVE  now < got'[c].sampled + Larger(got'[c].ttl, 1) + RequestTimeout
    <3>1. /\ dl[d].sampled \in Nat /\ dl[d].started \in Nat /\ call[d].ttl \in Nat
          /\ now \in Nat
      BY <1>1, <2>2 DEF TypeOK, Response
    <3>2. now <= dl[d].sampled + RequestTimeout
      BY <1>1, <2>2, <3>1 DEF Complete, DownloadTimes, Downloading
    <3>3. got'[c].sampled = dl[d].sampled /\ got'[c].ttl = call[d].ttl
      BY <2>2 DEF Complete, Settle, Ok
    <3> QED
      BY <3>1, <3>2, <3>3 DEF Larger
  <2> QED
    BY <1>1, <2>1, <2>2, AnswersOnly
<1>2. TypeOK /\ EntryTimes /\ DownloadTimes /\ [Next]_vars =>
        [\A c \in Calls : Answers(c) =>
            now < got'[c].sampled + Larger(got'[c].ttl, 1) + RequestTimeout]_vars
  BY <1>1
<1> QED
  BY <1>2, TimesHold, PTL DEF Spec, BoundedStaleness

-----------------------------------------------------------------------------
(* Monotone reads *)

\* While a URL has a leader it has no live entry, so a fill never competes with
\* a hit; and whatever may still be handed out is as new as what was.
NoEntryWhileLed == \A u \in Urls : leader[u] # NoCall => ~Live(u)

KeepsUp(u) ==
    /\ served[u] <= upstream[u]
    /\ cache[u].version <= upstream[u]
    /\ Live(u) => served[u] <= cache[u].version

ReadsUp(c) ==
    /\ call[c].floor <= served[call[c].url]
    /\ pc[c] = "body" => dl[c].version <= upstream[call[c].url]
    /\ pc[c] = "body" /\ Cached(c) => served[call[c].url] <= dl[c].version

VersionsKeepUp == (\A u \in Urls : KeepsUp(u)) /\ (\A c \in Calls : ReadsUp(c))

\* A leader downloads only while the cache has no live entry.
LEMMA NoEntryWhileLedStep ==
  TypeOK /\ Flight /\ NoEntryWhileLed /\ [Next]_vars => NoEntryWhileLed'
<1> SUFFICES ASSUME TypeOK, Flight, NoEntryWhileLed, [Next]_vars,
                    NEW u \in Urls, leader'[u] # NoCall
             PROVE  ~Live(u)'
  BY DEF NoEntryWhileLed
<1> USE FetchAssumption
<1>1. CASE leader' = leader /\ cache' = cache /\ (now' = now \/ now' = now + 1)
  BY <1>1 DEF NoEntryWhileLed, Live, TypeOK, Entry
<1>2. ASSUME NEW c \in Calls, StopLeading(c), cache' = cache, now' = now
      PROVE  ~Live(u)'
  BY <1>2 DEF NoEntryWhileLed, Live, StopLeading
<1>3. ASSUME NEW c \in Calls, Lead(c)
      PROVE  ~Live(u)'
  BY <1>3 DEF Lead, NoEntryWhileLed, Live, TypeOK
<1>4. ASSUME NEW c \in Calls, Complete(c)
      PROVE  ~Live(u)'
  <2>1. leader[u] # c /\ leader'[u] = leader[u]
    BY <1>4 DEF Complete, StopLeading
  <2>2. Cached(c) => call[c].url # u
    BY <1>4, <2>1 DEF Flight, SingleFlight, Complete, Downloading
  <2>3. cache'[u] = cache[u] /\ now' = now
    BY <1>4, <2>2 DEF Complete, TypeOK
  <2> QED
    BY <2>1, <2>3 DEF NoEntryWhileLed, Live
<1>5. ASSUME NEW w \in Urls, Evict(w)
      PROVE  ~Live(u)'
  BY <1>5 DEF Evict, NoEntryWhileLed, Live, NoEntry, TypeOK
<1> QED
  BY <1>1, <1>2, <1>3, <1>4, <1>5
     DEF Next, vars, GetHttp, Hit, Follow, Respond, ReadChunk, UpstreamFails,
         DownloadTimesOut, Fail, Drop, Publish, Tick, Quiescent

\* A step that hands out a version: the history moves to it, and no other
\* download of that URL is under way.
LEMMA DeliverKeepsUp ==
  ASSUME TypeOK, VersionsKeepUp, NEW u \in Urls, NEW v \in Version,
         served[u] <= v, v <= upstream[u], Deliver(u, v),
         \A d \in Calls : pc'[d] = "body" => pc[d] = "body" /\ dl'[d] = dl[d],
         \A d \in Calls : pc'[d] = "body" /\ Cached(d) => call[d].url # u,
         cache'[u].version = v,
         \A w \in Urls \ {u} : cache'[w] = cache[w],
         now' = now, upstream' = upstream, call' = call
  PROVE  VersionsKeepUp'
<1> USE FetchAssumption
<1>1. served[u] \in Nat /\ v \in Nat
  BY DEF TypeOK, Version
<1>2. served' = [served EXCEPT ![u] = v]
  <2>1. Larger(served[u], v) = v
    BY <1>1 DEF Larger
  <2> QED
    BY <2>1 DEF Deliver
<1>3. \A w \in Urls : KeepsUp(w)'
  BY <1>1, <1>2 DEF VersionsKeepUp, KeepsUp, Live, TypeOK
<1>4. ASSUME NEW d \in Calls
      PROVE  ReadsUp(d)'
  <2>1. call[d].url \in Urls /\ ReadsUp(d) /\ call[d].floor \in Nat
        /\ served[call[d].url] \in Nat
    BY DEF VersionsKeepUp, TypeOK, Version
  <2>2. served[call[d].url] <= served'[call[d].url]
    BY <1>1, <1>2, <2>1 DEF TypeOK
  <2>3. call[d].floor <= served'[call[d].url]
    BY <1>1, <1>2, <2>1, <2>2 DEF ReadsUp, TypeOK, Version
  <2>4. Cached(d) /\ pc'[d] = "body" => served'[call[d].url] = served[call[d].url]
    BY <1>2, <2>1 DEF TypeOK
  <2> QED
    BY <2>1, <2>3, <2>4 DEF ReadsUp, Cached
<1> QED
  BY <1>3, <1>4 DEF VersionsKeepUp

\* What a call may still return is no older than what was already read.
LEMMA VersionsKeepUpStep ==
  TypeOK /\ Flight /\ NoEntryWhileLed /\ VersionsKeepUp /\ [Next]_vars => VersionsKeepUp'
<1> SUFFICES ASSUME TypeOK, Flight, NoEntryWhileLed, VersionsKeepUp, [Next]_vars
             PROVE  VersionsKeepUp'
  OBVIOUS
<1> USE FetchAssumption
<1>1. ASSUME /\ cache' = cache /\ upstream' = upstream /\ served' = served /\ call' = call
             /\ now' = now \/ now' = now + 1
             /\ \A d \in Calls : pc'[d] = "body" => pc[d] = "body" /\ dl'[d].version = dl[d].version
      PROVE  VersionsKeepUp'
  BY <1>1 DEF VersionsKeepUp, KeepsUp, ReadsUp, Live, Cached, TypeOK, Entry
<1>2. ASSUME NEW c \in Calls, GetHttp(c)
      PROVE  VersionsKeepUp'
  <2>1. \A u \in Urls : KeepsUp(u)'
    BY <1>2 DEF GetHttp, VersionsKeepUp, KeepsUp, Live
  <2>2. ASSUME NEW d \in Calls
        PROVE  ReadsUp(d)'
    <3>1. call'[d].url = call[d].url /\ call'[d].ttl = call[d].ttl
          /\ call'[d].floor = IF d = c THEN served[call[c].url] ELSE call[d].floor
      BY <1>2 DEF GetHttp, TypeOK
    <3>2. pc'[d] = "body" => pc[d] = "body" /\ dl'[d] = dl[d]
      BY <1>2 DEF GetHttp, BeginDownload, TypeOK
    <3>3. served' = served /\ upstream' = upstream
      BY <1>2 DEF GetHttp
    <3>4. served[call[c].url] \in Nat
      BY DEF TypeOK, Version
    <3> QED
      BY <3>1, <3>2, <3>3, <3>4 DEF ReadsUp, VersionsKeepUp, Cached
  <2> QED
    BY <2>1, <2>2 DEF VersionsKeepUp
<1>3. ASSUME NEW c \in Calls, Hit(c)
      PROVE  VersionsKeepUp'
  <2> DEFINE u == call[c].url
  <2>1. u \in Urls /\ cache[u].version \in Version
    BY DEF TypeOK, Entry
  <2>2. served[u] <= cache[u].version /\ cache[u].version <= upstream[u]
    BY <1>3, <2>1 DEF Hit, VersionsKeepUp, KeepsUp
  <2>3. \A d \in Calls : pc[d] = "body" /\ Cached(d) => call[d].url # u
    BY <1>3, <2>1 DEF Flight, SingleFlight, NoEntryWhileLed, Hit, Downloading
  <2>4. \A d \in Calls : pc'[d] = "body" => pc[d] = "body" /\ dl'[d] = dl[d]
    BY <1>3 DEF Hit, Settle
  <2> QED
    BY <1>3, <2>1, <2>2, <2>3, <2>4, DeliverKeepsUp DEF Hit
<1>4. ASSUME NEW c \in Calls, Lead(c) \/ Follow(c) \/ Drop(c)
      PROVE  VersionsKeepUp'
  BY <1>4, <1>1 DEF Lead, Follow, Drop, BeginDownload, TypeOK
<1>5. ASSUME NEW c \in Calls, NEW kind, Fail(c, kind)
      PROVE  VersionsKeepUp'
  BY <1>5, <1>1 DEF Fail, Settle
<1>6. ASSUME NEW c \in Calls, Respond(c)
      PROVE  VersionsKeepUp'
  <2>1. CASE Fail(c, "Limit")
    BY <2>1, <1>5
  <2>2. CASE ~Fail(c, "Limit")
    <3>1. /\ dl'[c].version = upstream[call[c].url]
          /\ \A d \in Calls \ {c} : pc'[d] = pc[d] /\ dl'[d] = dl[d]
          /\ UNCHANGED <<now, upstream, cache, call, served>>
      BY <1>6, <2>2 DEF Respond, TypeOK
    <3>2. \A u \in Urls : KeepsUp(u)'
      BY <3>1 DEF VersionsKeepUp, KeepsUp, Live
    <3>3. call[c].url \in Urls /\ upstream[call[c].url] \in Nat
      BY DEF TypeOK, Version
    <3>4. \A d \in Calls : ReadsUp(d)'
      BY <3>1, <3>3 DEF VersionsKeepUp, KeepsUp, ReadsUp, Cached
    <3> QED
      BY <3>2, <3>4 DEF VersionsKeepUp
  <2> QED
    BY <2>1, <2>2
<1>7. ASSUME NEW c \in Calls, ReadChunk(c)
      PROVE  VersionsKeepUp'
  <2>1. CASE Fail(c, "Limit")
    BY <2>1, <1>5
  <2>2. CASE ~Fail(c, "Limit")
    BY <1>7, <2>2, <1>1 DEF ReadChunk, TypeOK, Response
  <2> QED
    BY <2>1, <2>2
<1>8. ASSUME NEW c \in Calls, Complete(c)
      PROVE  VersionsKeepUp'
  <2>1. CASE ~Cached(c)
    BY <1>8, <2>1, <1>1 DEF Complete, Settle
  <2>2. CASE Cached(c)
    <3> DEFINE u == call[c].url
    <3>1. u \in Urls /\ dl[c].version \in Version
      BY DEF TypeOK, Response
    <3>2. served[u] <= dl[c].version /\ dl[c].version <= upstream[u]
      BY <1>8, <2>2, <3>1 DEF Complete, VersionsKeepUp, ReadsUp
    <3>3. \A d \in Calls : pc'[d] = "body" => pc[d] = "body" /\ dl'[d] = dl[d] /\ d # c
      BY <1>8 DEF Complete, Settle, Sharers
    <3>4. \A d \in Calls : pc'[d] = "body" /\ Cached(d) => call[d].url # u
      BY <1>8, <2>2, <3>1, <3>3 DEF Flight, SingleFlight, Downloading, Complete
    <3>5. cache' = [cache EXCEPT ![u] = Insert(u, dl[c], call[c].ttl)]
      BY <1>8, <2>2 DEF Complete
    <3>6. Deliver(u, dl[c].version) /\ UNCHANGED <<now, upstream, call>>
      BY <1>8, <2>2 DEF Complete
    <3>7. cache'[u].version = dl[c].version /\ \A w \in Urls \ {u} : cache'[w] = cache[w]
      BY <3>1, <3>5 DEF Insert, TypeOK
    <3> QED
      BY <3>1, <3>2, <3>3, <3>4, <3>6, <3>7, DeliverKeepsUp
  <2> QED
    BY <2>1, <2>2
<1>9. ASSUME NEW u \in Urls, Evict(u)
      PROVE  VersionsKeepUp'
  BY <1>9 DEF Evict, VersionsKeepUp, KeepsUp, ReadsUp, Live, Cached, NoEntry, TypeOK, Version
<1>10. ASSUME NEW u \in Urls, Publish(u)
       PROVE  VersionsKeepUp'
  BY <1>10 DEF Publish, VersionsKeepUp, KeepsUp, ReadsUp, Live, Cached, TypeOK, Version,
     Entry, Response
<1> QED
  BY <1>1, <1>2, <1>3, <1>4, <1>5, <1>6, <1>7, <1>8, <1>9, <1>10
     DEF Next, UpstreamFails, DownloadTimesOut, Tick, Quiescent, vars

\* Cached reads of a URL never go back in time.
THEOREM ReadsAreMonotone == Spec => ReadsMonotone
<1> USE FetchAssumption
<1>1. Init => NoEntryWhileLed /\ VersionsKeepUp
  BY DEF Init, NoEntryWhileLed, VersionsKeepUp, KeepsUp, ReadsUp, Live, NoEntry
<1>2. ASSUME TypeOK, VersionsKeepUp, [Next]_vars, NEW c \in Calls, Answers(c), Cached(c)
      PROVE  got'[c].version >= call[c].floor
  <2>1. /\ call[c].url \in Urls /\ ReadsUp(c) /\ KeepsUp(call[c].url)
        /\ call[c].floor \in Nat /\ served[call[c].url] \in Nat
        /\ cache[call[c].url].version \in Nat
    BY <1>2 DEF VersionsKeepUp, TypeOK, Entry, Version
  <2>2. CASE Hit(c)
    BY <2>1, <2>2 DEF Hit, Settle, Ok, KeepsUp, ReadsUp
  <2>3. ASSUME NEW d \in Calls, Complete(d), c \in Sharers(d)
        PROVE  got'[c].version >= call[c].floor
    <3>1. got'[c].version = dl[d].version /\ dl[d].version \in Nat
      BY <1>2, <2>3 DEF Complete, Settle, Ok, TypeOK, Response, Version
    <3>2. Cached(d) /\ call[d].url = call[c].url
      BY <1>2, <2>3 DEF Sharers, Followers
    <3>3. served[call[d].url] <= dl[d].version
      BY <1>2, <2>3, <3>2 DEF Complete, VersionsKeepUp, ReadsUp
    <3> QED
      BY <2>1, <3>1, <3>2, <3>3 DEF ReadsUp
  <2> QED
    BY <1>2, <2>2, <2>3, AnswersOnly
<1>3. TypeOK /\ VersionsKeepUp /\ [Next]_vars =>
        [\A c \in Calls : Answers(c) /\ Cached(c) => got'[c].version >= call[c].floor]_vars
  BY <1>2
<1>4. Spec => [](TypeOK /\ Flight /\ NoEntryWhileLed /\ VersionsKeepUp)
  BY <1>1, NoEntryWhileLedStep, VersionsKeepUpStep, TypeCorrect, FlightHolds, PTL DEF Spec
<1> QED
  BY <1>3, <1>4, PTL DEF Spec, ReadsMonotone

-----------------------------------------------------------------------------
(* Limits *)

\* Every step keeps what is held of a response within the limit: a chunk is
\* kept only below it, and every other step keeps, empties or drops a response.
LEMMA BodyWithinLimitStep ==
  TypeOK /\ BodyWithinLimit /\ [Next]_vars => BodyWithinLimit'
<1> SUFFICES ASSUME TypeOK, BodyWithinLimit, [Next]_vars, NEW c \in Calls
             PROVE  dl'[c].read <= MaxBytes
  BY DEF BodyWithinLimit
<1> USE FetchAssumption
<1> DEFINE Keeps == dl'[c] = dl[c]
           Empties == dl'[c].read = 0
           Reads == dl[c].read + 1 <= MaxBytes /\ dl'[c].read = dl[c].read + 1
<1>1. ASSUME Keeps \/ Empties \/ Reads
      PROVE  dl'[c].read <= MaxBytes
  BY <1>1 DEF BodyWithinLimit
<1>2. ASSUME NEW d \in Calls, GetHttp(d) \/ Lead(d) \/ Follow(d)
      PROVE  Keeps \/ Empties
  BY <1>2 DEF GetHttp, Lead, Follow, BeginDownload, Sent, TypeOK
<1>3. ASSUME NEW S, NEW result, Settle(S, result)
      PROVE  Keeps \/ Empties
  BY <1>3 DEF Settle, NoResponse, Sent
<1>4. ASSUME NEW d \in Calls, NEW kind, Fail(d, kind)
      PROVE  Keeps \/ Empties
  BY <1>4, <1>3 DEF Fail
<1>5. ASSUME NEW d \in Calls, Hit(d) \/ Complete(d)
      PROVE  Keeps \/ Empties
  BY <1>5, <1>3 DEF Hit, Complete
<1>6. ASSUME NEW d \in Calls, Respond(d)
      PROVE  Keeps \/ Empties
  BY <1>6, <1>4 DEF Respond, TypeOK
<1>7. ASSUME NEW d \in Calls, ReadChunk(d)
      PROVE  Keeps \/ Empties \/ Reads
  <2>1. CASE Fail(d, "Limit")
    BY <2>1, <1>4
  <2>2. CASE ~Fail(d, "Limit")
    <3>1. dl[d] \in Response /\ ~(dl[d].read + 1 > MaxBytes)
      BY <1>7, <2>2 DEF ReadChunk, TypeOK
    <3>2. dl' = [dl EXCEPT ![d].read = @ + 1]
      BY <1>7, <2>2 DEF ReadChunk
    <3> QED
      BY <3>1, <3>2 DEF TypeOK, Response
  <2> QED
    BY <2>1, <2>2
<1>8. ASSUME NEW d \in Calls, Drop(d)
      PROVE  Keeps \/ Empties
  BY <1>8 DEF Drop, NoResponse, Sent, TypeOK
<1> QED
  BY <1>1, <1>2, <1>4, <1>5, <1>6, <1>7, <1>8
     DEF Next, UpstreamFails, DownloadTimesOut, Evict, Publish, Tick, Quiescent, vars

\* A response is never held beyond max_download_bytes.
THEOREM BodiesStayWithinLimit == Spec => []BodyWithinLimit
<1>1. Init => BodyWithinLimit
  BY FetchAssumption DEF Init, BodyWithinLimit, NoResponse, Sent
<1> QED
  BY <1>1, BodyWithinLimitStep, TypeCorrect, PTL DEF Spec

\* A URL is downloaded again only when its entry was evicted or has been stored
\* for its whole TTL: only a call that found no live entry leads.
THEOREM DownloadsAreRare == Spec => OneDownloadPerTtl
<1>1. ASSUME TypeOK, EntryTimes, [Next]_vars, NEW u \in Urls,
             leader[u] = NoCall, leader'[u] # NoCall
      PROVE  cache[u] = NoEntry \/ now >= cache[u].filled + cache[u].ttl
  <2>1. ASSUME NEW c \in Calls, StopLeading(c)
        PROVE  FALSE
    BY <1>1, <2>1 DEF StopLeading
  <2>2. ASSUME NEW c \in Calls, Lead(c)
        PROVE  now >= cache[u].filled + cache[u].ttl
    <3>1. call[c].url = u /\ ~Live(u)
      BY <1>1, <2>2 DEF Lead, TypeOK
    <3>2. /\ now \in Nat /\ cache[u].filled \in Nat /\ cache[u].ttl \in Nat
          /\ cache[u].deadline = cache[u].filled + cache[u].ttl
      BY <1>1 DEF TypeOK, Entry, EntryTimes
    <3> QED
      BY <3>1, <3>2 DEF Live
  <2>3. \E c \in Calls : Lead(c) \/ StopLeading(c)
    <3>1. leader' # leader
      BY <1>1
    <3> QED
      BY <1>1, <3>1
         DEF Next, vars, GetHttp, Hit, Follow, Respond, ReadChunk, UpstreamFails,
             DownloadTimesOut, Fail, Complete, Drop, Evict, Publish, Tick, Quiescent
  <2> QED
    BY <2>1, <2>2, <2>3
<1>2. TypeOK /\ EntryTimes /\ [Next]_vars =>
        [\A u \in Urls : leader[u] = NoCall /\ leader'[u] # NoCall =>
            cache[u] = NoEntry \/ now >= cache[u].filled + cache[u].ttl]_vars
  BY <1>1
<1> QED
  BY <1>2, TimesHold, PTL DEF Spec, OneDownloadPerTtl

=============================================================================
