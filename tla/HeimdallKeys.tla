---------------------------- MODULE HeimdallKeys ----------------------------
(***************************************************************************)
(* External mode: bearer tokens signed by Heimdall, verified against the   *)
(* key set it publishes, which JwksCache fetches, keeps and refetches      *)
(* (alexandria-core/src/auth/jwks.rs, auth/heimdall.rs).                   *)
(*                                                                         *)
(* The cache stores instants and only ever compares now - instant with two *)
(* intervals, so the model keeps the two ages, saturated at the interval;  *)
(* an instant that was never set (is_none_or) is an age at its limit. Time *)
(* is then unbounded in a finite model. Heimdall is the environment: it    *)
(* rotates and withdraws keys and is reachable or not.                     *)
(***************************************************************************)
EXTENDS Integers, FiniteSets

CONSTANTS
  Requests,       \* concurrent requests
  Kids,           \* key identifiers Heimdall may use
  Secrets,        \* HS256 secrets still configured for the overlap
  Presented,      \* the tokens callers present
  MaxAge,         \* MAX_AGE
  MinRefetch,     \* MIN_REFETCH_INTERVAL
  FetchTimeout    \* FETCH_TIMEOUT, in the same unit

Forger == "forger"
AllClaims == {"current", "settled", "scoped", "named"}
Algorithms == {"ES256", "HS256", "none"}
Token == [alg : Algorithms, kid : Kids, signer : Kids \cup Secrets \cup {Forger},
          claims : SUBSET AllClaims]

ASSUME KeysAssumption ==
  /\ Presented \subseteq Token /\ "no request" \notin Requests
  /\ MaxAge \in Nat /\ MinRefetch \in Nat /\ FetchTimeout \in Nat
  /\ 0 < FetchTimeout /\ FetchTimeout < MinRefetch /\ MinRefetch <= MaxAge

NoRequest == "no request"
NoToken == [alg |-> "none", kid |-> Forger, signer |-> Forger, claims |-> {}]

VARIABLES
  published,      \* Heimdall's current key set
  reachable,      \* whether a fetch gets an answer
  cached,         \* State.keys, by kid
  fetchedAge,     \* now - State.fetched_at
  attemptAge,     \* now - State.attempted_at
  holder,         \* who holds the mutex, across its fetch
  fetchTime,      \* how long that fetch has run
  request,        \* each request's token and how far it got
  unpublished,    \* history: how long ago each key left the published set
  lastFailed      \* history: the last attempt brought no key set

keyVars == <<published, reachable, cached, fetchedAge, attemptAge, holder,
             fetchTime, request, unpublished, lastFailed>>
heimdall == <<published, reachable, unpublished>>
state == <<cached, fetchedAge, attemptAge, lastFailed>>

NoCall == [token |-> NoToken, at |-> "idle"]
Horizon == MaxAge + FetchTimeout

KeysTypeOK ==
  /\ published \subseteq Kids /\ cached \subseteq Kids
  /\ reachable \in BOOLEAN /\ lastFailed \in BOOLEAN
  /\ fetchedAge \in 0..MaxAge /\ attemptAge \in 0..MinRefetch
  /\ holder \in Requests \cup {NoRequest} /\ fetchTime \in 0..FetchTimeout
  /\ \A r \in Requests : /\ request[r].token \in Token \cup {NoToken}
                         /\ request[r].at \in {"idle", "waiting", "fetching",
                                               "accepted", "denied"}
  /\ unpublished \in [Kids -> 0..Horizon]

KeysInit ==
  /\ published \in {{k} : k \in Kids} /\ reachable = TRUE
  /\ cached = {} /\ fetchedAge = MaxAge /\ attemptAge = MinRefetch
  /\ holder = NoRequest /\ fetchTime = 0
  /\ request = [r \in Requests |-> NoCall]
  /\ unpublished = [k \in Kids |-> IF k \in published THEN 0 ELSE Horizon]
  /\ lastFailed = FALSE

----------------------------------------------------------------------------
(* HeimdallAuthService::authenticate, around the key set                   *)

\* decode: the signature and the registered claims, under the algorithm the
\* header names and the one key that path provides
Verifies(t, keys) ==
  CASE t.alg = "ES256" -> t.kid \in keys /\ t.signer = t.kid
    [] t.alg = "HS256" -> t.signer \in Secrets
    [] OTHER -> FALSE

\* the challenge check, the configured scope and the non-empty id, after the
\* token has been shown to be authentic and current
Admits(t, keys) == Verifies(t, keys) /\ t.claims = AllClaims

Verdict(t, keys) == IF Admits(t, keys) THEN "accepted" ELSE "denied"

\* only an ES256 token looks at the key set
Present(r, t) ==
  /\ request[r].at = "idle"
  /\ request' = [request EXCEPT ![r] =
       [token |-> t,
        at |-> IF t.alg = "ES256" THEN "waiting" ELSE Verdict(t, {})]]
  /\ UNCHANGED <<heimdall, state, holder, fetchTime>>

(* JwksCache::key, from the lock to the decision to fetch.                 *)
WantsFetchIfUnknown(t) == t.kid \notin cached

WantsFetchIfStale(t) == fetchedAge >= MaxAge

WantsFetch(t) == fetchedAge >= MaxAge \/ t.kid \notin cached

MayFetch == attemptAge >= MinRefetch

StartFetch(r) ==
  /\ request[r].at = "waiting" /\ holder = NoRequest
  /\ WantsFetch(request[r].token) /\ MayFetch
  /\ attemptAge' = 0
  /\ holder' = r /\ fetchTime' = 0
  /\ request' = [request EXCEPT ![r].at = "fetching"]
  /\ UNCHANGED <<heimdall, cached, fetchedAge, lastFailed>>

\* neither wanted nor allowed: answer from what is known
AnswerFromCache(r) ==
  /\ request[r].at = "waiting" /\ holder = NoRequest
  /\ ~ (WantsFetch(request[r].token) /\ MayFetch)
  /\ request' = [request EXCEPT ![r].at = Verdict(request[r].token, cached)]
  /\ UNCHANGED <<heimdall, state, holder, fetchTime>>

FetchKeepsOneKey(r) ==
  /\ holder = r /\ reachable /\ published # {}
  /\ cached' = {CHOOSE k \in published : TRUE}
  /\ fetchedAge' = fetchTime
  /\ lastFailed' = FALSE
  /\ holder' = NoRequest /\ fetchTime' = 0
  /\ request' = [request EXCEPT ![r].at = Verdict(request[r].token, published)]
  /\ UNCHANGED <<heimdall, attemptAge>>

\* a set with at least one ES256 key replaces the cache; it is stamped with
\* the instant read before the fetch
FetchSucceeds(r) ==
  /\ holder = r /\ reachable /\ published # {}
  /\ cached' = published
  /\ fetchedAge' = fetchTime
  /\ lastFailed' = FALSE
  /\ holder' = NoRequest /\ fetchTime' = 0
  /\ request' = [request EXCEPT ![r].at = Verdict(request[r].token, published)]
  /\ UNCHANGED <<heimdall, attemptAge>>

\* no answer, an error status or a set without an ES256 key: keep the keys
FetchFails(r) ==
  /\ holder = r /\ (~ reachable \/ published = {})
  /\ lastFailed' = TRUE
  /\ holder' = NoRequest /\ fetchTime' = 0
  /\ request' = [request EXCEPT ![r].at = Verdict(request[r].token, cached)]
  /\ UNCHANGED <<heimdall, cached, fetchedAge, attemptAge>>

Leave(r) ==
  /\ request[r].at \in {"accepted", "denied"}
  /\ request' = [request EXCEPT ![r] = NoCall]
  /\ UNCHANGED <<heimdall, state, holder, fetchTime>>

----------------------------------------------------------------------------
(* The environment.                                                        *)

Capped(n, limit) == IF n < limit THEN n + 1 ELSE limit

\* a fetch is cut off at its timeout, so time waits for it there
KeysTick ==
  /\ holder # NoRequest => fetchTime < FetchTimeout
  /\ fetchTime' = IF holder = NoRequest THEN 0 ELSE fetchTime + 1
  /\ fetchedAge' = Capped(fetchedAge, MaxAge)
  /\ attemptAge' = Capped(attemptAge, MinRefetch)
  /\ unpublished' = [k \in Kids |-> IF k \in published THEN 0
                                    ELSE Capped(unpublished[k], Horizon)]
  /\ UNCHANGED <<published, reachable, cached, holder, request, lastFailed>>

\* a rotation publishes a new key beside the old one, then drops the old one
Rotate(k) ==
  /\ k \notin published /\ unpublished[k] = Horizon
  /\ \A r \in Requests : request[r].token # NoToken => request[r].token.kid # k
  /\ Cardinality(published) = 1
  /\ published' = published \cup {k}
  /\ unpublished' = [unpublished EXCEPT ![k] = 0]
  /\ UNCHANGED <<reachable, state, holder, fetchTime, request>>

Withdraw(k) ==
  /\ k \in published /\ Cardinality(published) = 2
  /\ published' = published \ {k}
  /\ UNCHANGED <<reachable, unpublished, state, holder, fetchTime, request>>

ReachabilityChanges ==
  /\ reachable' = ~ reachable
  /\ UNCHANGED <<published, unpublished, state, holder, fetchTime, request>>

Serve(r) == StartFetch(r) \/ AnswerFromCache(r) \/ FetchSucceeds(r)
              \/ FetchFails(r)

KeysNext ==
  \/ \E r \in Requests : Serve(r) \/ Leave(r) \/ \E t \in Presented : Present(r, t)
  \/ KeysTick
  \/ ReachabilityChanges
  \/ \E k \in Kids : Rotate(k) \/ Withdraw(k)

\* A fetch ends by its timeout and a request that can take the mutex does;
\* tokio's mutex is fair, so each request gets its turn. Time passes.
KeysFairness ==
  /\ \A r \in Requests : SF_keyVars(Serve(r)) /\ WF_keyVars(Leave(r))
  /\ WF_keyVars(KeysTick)

KeysSpec == KeysInit /\ [][KeysNext]_keyVars /\ KeysFairness

----------------------------------------------------------------------------
(* Properties.                                                             *)

Decides(r, verdict) ==
  request[r].at # verdict /\ request'[r].at = verdict

\* A token is accepted only if the key its own algorithm verifies with
\* signed it, and a key Heimdall has withdrawn is honoured no longer than the
\* age a cached set may reach, unless Heimdall could not be asked (jwks.rs:
\* "so a key Heimdall has withdrawn stops verifying").
AcceptedKeyIsCurrent ==
  [][\A r \in Requests : Decides(r, "accepted") =>
       LET t == request'[r].token IN
         \/ t.signer \in Secrets /\ t.alg = "HS256"
         \/ /\ t.signer = t.kid /\ t.alg = "ES256"
            /\ unpublished[t.kid] < Horizon \/ lastFailed']_keyVars

\* A token of the owner, signed with a key Heimdall publishes, is refused
\* only for a reason the code names: the last fetch was too recent to ask
\* again. So a rotation is noticed after one interval, not one maximum age.
PublishedKeyRefusedBriefly ==
  [][\A r \in Requests : Decides(r, "denied") =>
       LET t == request'[r].token IN
         \/ t.claims # AllClaims \/ t.signer # t.kid \/ t.alg # "ES256"
         \/ t.kid \notin published
         \/ attemptAge' < MinRefetch]_keyVars

\* A key that stays published while Heimdall stays reachable, and that tokens
\* keep naming, is learnt for good.
KeysAreLearnt ==
  \A k \in Kids :
    (/\ <>[](reachable /\ k \in published)
     /\ []<>(\E r \in Requests : /\ request[r].at = "waiting"
                                 /\ request[r].token.kid = k))
      => <>[](k \in cached)
=============================================================================
