-------------------------- MODULE HeimdallKeysProofs --------------------------
(***************************************************************************)
(* Theorems about HeimdallKeys for any set of keys, tokens and requests    *)
(* and any intervals: which key a token may be accepted with, and when a   *)
(* token of the owner may be refused.                                      *)
(***************************************************************************)
EXTENDS HeimdallKeys, TLAPS

RequestTypes == [token : Token \cup {NoToken},
                 at : {"idle", "waiting", "fetching", "accepted", "denied"}]

\* A request fetches exactly while it holds the mutex.
HolderFetches ==
  /\ request \in [Requests -> RequestTypes]
  /\ \A r \in Requests : /\ request[r].at = "fetching" <=> holder = r
                         /\ request[r].at # "idle" => request[r].token \in Token

\* The clock of a fetch and that of the last attempt run together.
FetchClock == holder # NoRequest => attemptAge = fetchTime

\* What is published has not been withdrawn.
PublishedIsFresh == \A k \in published : unpublished[k] = 0

\* A key is cached for at most as long as it has been withdrawn, and the
\* keys are at most as old as the last attempt unless that one failed.
CacheAge ==
  /\ fetchedAge < MaxAge => \A k \in cached : unpublished[k] <= fetchedAge
  /\ holder = NoRequest /\ ~ lastFailed /\ attemptAge < MinRefetch => fetchedAge <= attemptAge

KeysIInv == KeysTypeOK /\ HolderFetches /\ FetchClock /\ PublishedIsFresh /\ CacheAge

-----------------------------------------------------------------------------
(* The three intervals, and what is longer than a cached set may be old.   *)
LEMMA Intervals ==
  /\ MaxAge \in Nat /\ MinRefetch \in Nat /\ FetchTimeout \in Nat /\ Horizon \in Nat
  /\ 0 < FetchTimeout /\ FetchTimeout < MinRefetch /\ MinRefetch <= MaxAge /\ MaxAge < Horizon
  /\ Presented \subseteq Token /\ NoRequest \notin Requests
  <1>1. /\ MaxAge \in Nat /\ MinRefetch \in Nat /\ FetchTimeout \in Nat
        /\ 0 < FetchTimeout /\ FetchTimeout < MinRefetch /\ MinRefetch <= MaxAge
    BY KeysAssumption
  <1>2. Presented \subseteq Token /\ NoRequest \notin Requests
    BY KeysAssumption DEF NoRequest
  <1>3. Horizon \in Nat /\ MaxAge < Horizon
    BY <1>1 DEF Horizon
  <1> QED
    BY <1>1, <1>2, <1>3

(* A verdict is one of the two ends of a request.                          *)
LEMMA VerdictType ==
  ASSUME NEW t, NEW keys
  PROVE  Verdict(t, keys) \in {"accepted", "denied"}
  BY DEF Verdict

(* No key has been fetched at the start, and none is known to be withdrawn. *)
LEMMA KeysInitHolds == KeysInit => KeysIInv
  <1> SUFFICES ASSUME KeysInit PROVE KeysIInv
    OBVIOUS
  <1>1. unpublished \in [Kids -> 0..Horizon] /\ published \subseteq Kids
    BY Intervals DEF KeysInit
  <1>2. fetchedAge \in 0..MaxAge /\ attemptAge \in 0..MinRefetch /\ fetchTime \in 0..FetchTimeout
    BY Intervals DEF KeysInit
  <1>3. KeysTypeOK
    BY <1>1, <1>2 DEF KeysTypeOK, KeysInit, NoCall
  <1>4. HolderFetches
    BY Intervals DEF HolderFetches, RequestTypes, KeysInit, NoCall
  <1>5. FetchClock /\ PublishedIsFresh /\ CacheAge
    BY <1>1, Intervals DEF FetchClock, PublishedIsFresh, CacheAge, KeysInit
  <1> QED
    BY <1>3, <1>4, <1>5 DEF KeysIInv

(* A request moves on; nothing else does.                                  *)
LEMMA RequestMoves ==
  ASSUME KeysIInv, NEW r \in Requests, NEW q \in RequestTypes,
         request' = [request EXCEPT ![r] = q],
         q.at # "fetching", q.at # "idle" => q.token \in Token,
         holder # r,
         UNCHANGED <<heimdall, state, holder, fetchTime>>
  PROVE  KeysIInv'
  <1> USE DEF KeysIInv, heimdall, state
  <1>1. KeysTypeOK'
    BY DEF KeysTypeOK, HolderFetches, RequestTypes
  <1>2. HolderFetches'
    BY DEF HolderFetches
  <1>3. FetchClock' /\ PublishedIsFresh' /\ CacheAge'
    BY DEF FetchClock, PublishedIsFresh, CacheAge
  <1> QED
    BY <1>1, <1>2, <1>3

(* A fetch ends: its request is answered and the mutex is free.            *)
LEMMA FetchEnds ==
  ASSUME KeysIInv, NEW r \in Requests, holder = r, NEW keys,
         request' = [request EXCEPT ![r].at = Verdict(request[r].token, keys)],
         holder' = NoRequest, fetchTime' = 0
  PROVE  HolderFetches' /\ FetchClock' /\ fetchTime' \in 0..FetchTimeout
         /\ \A q \in Requests : /\ request'[q].token \in Token \cup {NoToken}
                               /\ request'[q].at \in {"idle", "waiting", "fetching", "accepted", "denied"}
  <1>1. request[r] \in RequestTypes /\ request[r].token \in Token /\ request[r].at = "fetching"
    BY DEF KeysIInv, HolderFetches
  <1>2. [request[r] EXCEPT !.at = Verdict(request[r].token, keys)] \in RequestTypes
    BY <1>1, VerdictType DEF RequestTypes
  <1>3. request' \in [Requests -> RequestTypes]
    BY <1>2 DEF KeysIInv, HolderFetches
  <1>4. HolderFetches'
    BY <1>1, <1>3, VerdictType, Intervals DEF KeysIInv, HolderFetches, RequestTypes
  <1> QED
    BY <1>3, <1>4, Intervals DEF FetchClock, RequestTypes

(* One step of a request.                                                  *)
LEMMA RequestKeeps ==
  ASSUME KeysIInv, NEW r \in Requests,
         Serve(r) \/ Leave(r) \/ \E t \in Presented : Present(r, t)
  PROVE  KeysIInv'
  <1>0. request[r] \in RequestTypes /\ (request[r].at # "idle" => request[r].token \in Token)
    BY DEF KeysIInv, HolderFetches
  <1>1. ASSUME NEW t \in Presented, Present(r, t) PROVE KeysIInv'
    <2> DEFINE q == [token |-> t, at |-> IF t.alg = "ES256" THEN "waiting" ELSE Verdict(t, {})]
    <2>1. q \in RequestTypes /\ q.token \in Token /\ q.at # "fetching"
      BY VerdictType, Intervals DEF RequestTypes
    <2>2. request' = [request EXCEPT ![r] = q] /\ UNCHANGED <<heimdall, state, holder, fetchTime>>
      BY <1>1 DEF Present
    <2>3. holder # r
      BY <1>1 DEF Present, KeysIInv, HolderFetches
    <2> HIDE DEF q
    <2> QED
      BY <2>1, <2>2, <2>3, RequestMoves
  <1>2. CASE AnswerFromCache(r)
    <2> DEFINE q == [request[r] EXCEPT !.at = Verdict(request[r].token, cached)]
    <2>1. q \in RequestTypes /\ q.token \in Token /\ q.at # "fetching"
      BY <1>0, <1>2, VerdictType DEF AnswerFromCache, RequestTypes
    <2>2. holder # r /\ request' = [request EXCEPT ![r] = q]
          /\ UNCHANGED <<heimdall, state, holder, fetchTime>>
      BY <1>2 DEF AnswerFromCache, KeysIInv, HolderFetches
    <2> HIDE DEF q
    <2> QED
      BY <2>1, <2>2, RequestMoves
  <1>3. CASE Leave(r)
    <2>1. NoCall \in RequestTypes /\ NoCall.at = "idle"
      BY DEF NoCall, RequestTypes
    <2>2. holder # r
      BY <1>3 DEF Leave, KeysIInv, HolderFetches
    <2> QED
      BY <1>3, <2>1, <2>2, RequestMoves DEF Leave
  <1>4. CASE StartFetch(r)
    <2>1. [request[r] EXCEPT !.at = "fetching"] \in RequestTypes
      BY <1>0 DEF RequestTypes
    <2>2. HolderFetches'
      BY <1>0, <1>4, <2>1, Intervals DEF StartFetch, KeysIInv, HolderFetches, RequestTypes
    <2>3. KeysTypeOK'
      BY <1>4, <2>2, Intervals DEF StartFetch, KeysIInv, KeysTypeOK, HolderFetches, RequestTypes, heimdall
    <2>4. FetchClock' /\ PublishedIsFresh' /\ CacheAge'
      BY <1>4, Intervals DEF StartFetch, KeysIInv, FetchClock, PublishedIsFresh, CacheAge, heimdall
    <2> QED
      BY <2>2, <2>3, <2>4 DEF KeysIInv
  <1>5. CASE FetchSucceeds(r)
    <2>1. /\ request' = [request EXCEPT ![r].at = Verdict(request[r].token, published)]
          /\ holder = r /\ holder' = NoRequest /\ fetchTime' = 0
          /\ cached' = published /\ fetchedAge' = fetchTime /\ lastFailed' = FALSE
          /\ UNCHANGED <<published, reachable, unpublished, attemptAge>>
      BY <1>5 DEF FetchSucceeds, heimdall
    <2>2. HolderFetches' /\ FetchClock'
      BY <2>1, FetchEnds
    <2>3. fetchedAge' \in 0..MaxAge
      BY <2>1, Intervals DEF KeysIInv, KeysTypeOK
    <2>4. KeysTypeOK'
      BY <2>1, <2>3, FetchEnds DEF KeysIInv, KeysTypeOK
    <2>5. PublishedIsFresh' /\ (\A k \in cached' : unpublished'[k] <= fetchedAge')
      BY <2>1 DEF KeysIInv, KeysTypeOK, PublishedIsFresh
    <2>6. fetchedAge' <= attemptAge'
      BY <2>1, Intervals DEF KeysIInv, KeysTypeOK, FetchClock
    <2> QED
      BY <2>2, <2>4, <2>5, <2>6 DEF KeysIInv, CacheAge
  <1>6. CASE FetchFails(r)
    <2>1. HolderFetches' /\ FetchClock' /\ KeysTypeOK'
      BY <1>6, FetchEnds DEF FetchFails, KeysIInv, KeysTypeOK, heimdall
    <2>2. PublishedIsFresh' /\ CacheAge'
      BY <1>6 DEF FetchFails, KeysIInv, PublishedIsFresh, CacheAge, heimdall
    <2> QED
      BY <2>1, <2>2 DEF KeysIInv
  <1> QED
    BY <1>1, <1>2, <1>3, <1>4, <1>5, <1>6 DEF Serve

-----------------------------------------------------------------------------
(* Time passes: the ages that have not reached their limits grow together. *)
LEMMA KeysTickKeeps ==
  ASSUME KeysIInv, KeysTick
  PROVE  KeysIInv'
  <1> USE Intervals DEF KeysIInv, KeysTick
  <1>1. fetchTime' \in 0..FetchTimeout /\ fetchedAge' \in 0..MaxAge /\ attemptAge' \in 0..MinRefetch
    BY DEF KeysTypeOK, Capped
  <1>2. unpublished' \in [Kids -> 0..Horizon]
    BY DEF KeysTypeOK, Capped, Horizon
  <1>3. KeysTypeOK'
    BY <1>1, <1>2 DEF KeysTypeOK
  <1>4. HolderFetches' /\ PublishedIsFresh'
    BY DEF HolderFetches, PublishedIsFresh, KeysTypeOK
  <1>5. FetchClock'
    BY DEF FetchClock, KeysTypeOK, Capped
  <1>6. CacheAge'
    <2>1. ASSUME fetchedAge' < MaxAge, NEW k \in cached PROVE unpublished'[k] <= fetchedAge'
      <3>1. fetchedAge' = fetchedAge + 1 /\ fetchedAge < MaxAge
        BY <2>1 DEF KeysTypeOK, Capped
      <3>2. unpublished[k] <= fetchedAge /\ unpublished[k] \in Nat /\ k \in Kids /\ Horizon \in Nat
        BY <3>1 DEF CacheAge, KeysTypeOK, Horizon
      <3> QED
        BY <3>1, <3>2 DEF Capped, KeysTypeOK
    <2>2. ASSUME holder = NoRequest, ~ lastFailed, attemptAge' < MinRefetch
          PROVE  fetchedAge' <= attemptAge'
      BY <2>2 DEF CacheAge, KeysTypeOK, Capped
    <2> QED
      BY <2>1, <2>2 DEF CacheAge
  <1> QED
    BY <1>3, <1>4, <1>5, <1>6

(* Heimdall rotates its keys and comes and goes.                           *)
LEMMA HeimdallKeeps ==
  ASSUME KeysIInv, ReachabilityChanges \/ \E k \in Kids : Rotate(k) \/ Withdraw(k)
  PROVE  KeysIInv'
  <1> USE Intervals DEF KeysIInv, state
  <1>1. KeysTypeOK'
    <2>1. CASE ReachabilityChanges
      <3>1. reachable' \in BOOLEAN
        BY <2>1, Zenon DEF ReachabilityChanges
      <3> QED
        BY <2>1, <3>1 DEF ReachabilityChanges, KeysTypeOK
    <2>2. CASE \E k \in Kids : Rotate(k) \/ Withdraw(k)
      BY <2>2 DEF Rotate, Withdraw, KeysTypeOK
    <2> QED
      BY <2>1, <2>2
  <1>2. HolderFetches' /\ FetchClock'
    BY DEF ReachabilityChanges, Rotate, Withdraw, HolderFetches, FetchClock
  <1>3. PublishedIsFresh' /\ CacheAge'
    BY DEF ReachabilityChanges, Rotate, Withdraw, PublishedIsFresh, CacheAge, KeysTypeOK
  <1> QED
    BY <1>1, <1>2, <1>3

(* The inductive invariant of the keys and the requests (heimdall.rs,      *)
(* verify and refresh).                                                    *)
THEOREM KeysInvariance == KeysSpec => []KeysIInv
  <1>1. ASSUME KeysIInv, [KeysNext]_keyVars PROVE KeysIInv'
    <2>1. CASE UNCHANGED keyVars
      BY <1>1, <2>1 DEF keyVars, KeysIInv, KeysTypeOK, HolderFetches, FetchClock, PublishedIsFresh, CacheAge
    <2> QED
      BY <1>1, <2>1, RequestKeeps, KeysTickKeeps, HeimdallKeeps DEF KeysNext
  <1> QED
    BY <1>1, KeysInitHolds, PTL DEF KeysSpec

(* The types, at every step.                                               *)
THEOREM KeysTypeCorrect == KeysSpec => []KeysTypeOK
  BY KeysInvariance, PTL DEF KeysIInv

-----------------------------------------------------------------------------
(* Who decides on a request, and from which keys.                          *)
LEMMA Deciders ==
  ASSUME KeysIInv, KeysNext, NEW r \in Requests, NEW v \in {"accepted", "denied"}, Decides(r, v),
         NEW t, t = request'[r].token
  PROVE  \/ t.alg # "ES256" /\ v = Verdict(t, {})
         \/ AnswerFromCache(r) /\ t = request[r].token /\ v = Verdict(t, cached)
         \/ FetchSucceeds(r) /\ t = request[r].token /\ v = Verdict(t, published)
         \/ FetchFails(r) /\ t = request[r].token /\ v = Verdict(t, cached)
  <1> USE DEF Decides
  <1>0. request \in [Requests -> RequestTypes]
    BY DEF KeysIInv, HolderFetches
  <1>1. ASSUME NEW q \in Requests, Serve(q) \/ Leave(q) \/ \E u \in Presented : Present(q, u)
        PROVE  q = r
    BY <1>0, <1>1 DEF Serve, Leave, Present, StartFetch, AnswerFromCache, FetchSucceeds, FetchFails, state
  <1>2. request' # request
    OBVIOUS
  <1>3. ~ KeysTick /\ ~ ReachabilityChanges /\ ~ \E k \in Kids : Rotate(k) \/ Withdraw(k)
    BY <1>2 DEF KeysTick, ReachabilityChanges, Rotate, Withdraw
  <1>4. PICK q \in Requests : Serve(q) \/ Leave(q) \/ \E u \in Presented : Present(q, u)
    BY <1>3 DEF KeysNext
  <1>5. Serve(r) \/ Leave(r) \/ \E u \in Presented : Present(r, u)
    BY <1>1, <1>4
  <1>6. ~ StartFetch(r) /\ ~ Leave(r)
    BY <1>0 DEF StartFetch, Leave, NoCall, RequestTypes
  <1>7. ASSUME NEW u \in Presented, Present(r, u)
        PROVE  t = u /\ t.alg # "ES256" /\ v = Verdict(t, {})
    BY <1>0, <1>7 DEF Present
  <1>8. ASSUME NEW keys, request' = [request EXCEPT ![r].at = Verdict(request[r].token, keys)]
        PROVE  t = request[r].token /\ v = Verdict(t, keys)
    BY <1>0, <1>8 DEF RequestTypes
  <1> QED
    BY <1>5, <1>6, <1>7, <1>8 DEF Serve, AnswerFromCache, FetchSucceeds, FetchFails

(* Only a key Heimdall publishes, or has withdrawn for less than a cached   *)
(* set may be old, opens the door; unless Heimdall could not be asked      *)
(* (jwks.rs, key; heimdall.rs, authenticate).                              *)
LEMMA Acceptance ==
  ASSUME KeysIInv, KeysNext, NEW r \in Requests, Decides(r, "accepted"), NEW t, t = request'[r].token
  PROVE  \/ t.signer \in Secrets /\ t.alg = "HS256"
         \/ /\ t.signer = t.kid /\ t.alg = "ES256"
            /\ (unpublished[t.kid] < Horizon \/ lastFailed')
  <1>1. ASSUME NEW keys, "accepted" = Verdict(t, keys)
        PROVE  \/ t.signer \in Secrets /\ t.alg = "HS256"
               \/ t.signer = t.kid /\ t.alg = "ES256" /\ t.kid \in keys
    BY <1>1 DEF Verdict, Admits, Verifies
  <1>2. ASSUME AnswerFromCache(r), t = request[r].token, t.kid \in cached
        PROVE  unpublished[t.kid] < Horizon \/ lastFailed'
    <2>1. ~ WantsFetch(t) \/ ~ MayFetch
      BY <1>2 DEF AnswerFromCache
    <2>2. t.kid \in Kids /\ unpublished[t.kid] \in Nat /\ fetchedAge \in Nat /\ attemptAge \in Nat
      BY <1>2, Intervals DEF KeysIInv, KeysTypeOK
    <2>3. CASE fetchedAge < MaxAge
      BY <1>2, <2>2, <2>3, Intervals DEF KeysIInv, CacheAge
    <2>4. CASE ~ (fetchedAge < MaxAge)
      <3>1. attemptAge < MinRefetch /\ ~ (fetchedAge <= attemptAge)
        BY <2>1, <2>2, <2>4, Intervals DEF WantsFetch, MayFetch
      <3>2. lastFailed /\ lastFailed' = lastFailed
        BY <1>2, <3>1 DEF AnswerFromCache, KeysIInv, CacheAge, state
      <3> QED
        BY <3>2
    <2> QED
      BY <2>3, <2>4
  <1>3. ASSUME t.kid \in published PROVE unpublished[t.kid] < Horizon
    BY <1>3, Intervals DEF KeysIInv, PublishedIsFresh
  <1>4. FetchFails(r) => lastFailed'
    BY DEF FetchFails
  <1> QED
    BY <1>1, <1>2, <1>3, <1>4, Deciders

(* A withdrawn key is honoured for no longer than a cached set may be old,  *)
(* at every step, whatever the requests and the keys.                      *)
THEOREM AcceptanceTheorem == KeysSpec => AcceptedKeyIsCurrent
  <1>1. KeysIInv /\ [KeysNext]_keyVars =>
          [\A r \in Requests : Decides(r, "accepted") =>
             LET t == request'[r].token IN
               \/ t.signer \in Secrets /\ t.alg = "HS256"
               \/ /\ t.signer = t.kid /\ t.alg = "ES256"
                  /\ (unpublished[t.kid] < Horizon \/ lastFailed')]_keyVars
    BY Acceptance
  <1> QED
    BY <1>1, KeysInvariance, PTL DEF KeysSpec, AcceptedKeyIsCurrent

(* A token of the owner under a published key waits for one interval at the *)
(* most before that key is asked for (jwks.rs, MIN_REFETCH_INTERVAL).      *)
LEMMA Refusal ==
  ASSUME KeysIInv, KeysNext, NEW r \in Requests, Decides(r, "denied"), NEW t, t = request'[r].token
  PROVE  \/ t.claims # AllClaims \/ t.signer # t.kid \/ t.alg # "ES256"
         \/ t.kid \notin published
         \/ attemptAge' < MinRefetch
  <1>1. ASSUME NEW keys, "denied" = Verdict(t, keys)
        PROVE  t.claims # AllClaims \/ t.signer # t.kid \/ t.alg # "ES256" \/ t.kid \notin keys
    BY <1>1 DEF Verdict, Admits, Verifies
  <1>2. ASSUME AnswerFromCache(r), t = request[r].token, t.kid \notin cached
        PROVE  attemptAge' < MinRefetch
    BY <1>2, Intervals DEF AnswerFromCache, WantsFetch, MayFetch, KeysIInv, KeysTypeOK, state
  <1>3. ASSUME FetchFails(r) PROVE attemptAge' < MinRefetch
    BY <1>3, Intervals DEF FetchFails, KeysIInv, KeysTypeOK, FetchClock
  <1> QED
    BY <1>1, <1>2, <1>3, Deciders

(* The refusal of a published key is always a short one.                   *)
THEOREM RefusalTheorem == KeysSpec => PublishedKeyRefusedBriefly
  <1>1. KeysIInv /\ [KeysNext]_keyVars =>
          [\A r \in Requests : Decides(r, "denied") =>
             LET t == request'[r].token IN
               \/ t.claims # AllClaims \/ t.signer # t.kid \/ t.alg # "ES256"
               \/ t.kid \notin published
               \/ attemptAge' < MinRefetch]_keyVars
    BY Refusal
  <1> QED
    BY <1>1, KeysInvariance, PTL DEF KeysSpec, PublishedKeyRefusedBriefly
=============================================================================
