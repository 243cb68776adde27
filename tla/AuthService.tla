----------------------------- MODULE AuthService -----------------------------
(***************************************************************************)
(* A service of tonin-sdk and who it lets in: the Service builder, which   *)
(* fixes the auth layer, AuthLayer's handling of a request, and            *)
(* JwtValidator with its cache of the keys that the auth service publishes *)
(* as JWKS.                                                                *)
(*                                                                         *)
(* A token is known by the kid of its header and the key that signed it;   *)
(* expiry, issuer and audience are a choice of Verify.  The published keys *)
(* are those refresh_jwks keeps: RSA, with a kid.  A withdrawn key is      *)
(* never published again.  The development mode (TONIN_AUTH_INSECURE_DEV), *)
(* the static key of the tests and a custom TokenExtractor are left out.   *)
(***************************************************************************)
EXTENDS Naturals

CONSTANTS Request,
          SigningKey,    \* the keys; a key is its own kid
          NoKid,         \* of a token without kid
          NoToken,       \* of a request without "authorization: Bearer"
          Health,        \* of a request to /grpc.health.v1.Health/
          Never,
          KeyTTL,        \* jwks_ttl
          FetchTimeout,  \* the timeout of reqwest, 5 s in the code
          LastTime       \* bound on the clock

ASSUME AuthAssumption ==
    /\ KeyTTL \in Nat /\ FetchTimeout \in Nat /\ LastTime \in Nat
    /\ NoKid \notin SigningKey
    /\ Never \notin Nat

VARIABLES wallClock,    \* SystemTime, which is not set back here
          published,    \* the keys at the JWKS endpoint
          withdrawnAt,  \* withdrawnAt[k]: when k was taken from there
          jwks,         \* JwksCache.keys
          fetchedAt,    \* JwksCache.fetched_at
          configured,   \* Service.auth_layer
          installed,    \* the auth layer of Service.router
          serving,      \* Service::run has been called
          progress,     \* progress[r]: where request r is
          token,        \* token[r]: what it carries
          start,        \* start[r]: when it came, and asked for keys if it did
          received      \* received[r]: the keys in the answer it has received

keyVars == <<published, withdrawnAt>>
jwksVars == <<jwks, fetchedAt>>
builderVars == <<configured, installed, serving>>
requestVars == <<progress, token, start, received>>
authVars == <<wallClock, keyVars, jwksVars, builderVars, requestVars>>

Token == {t \in [kid : SigningKey \cup {NoKid}, signer : SigningKey] : t.kid \in {NoKid, t.signer}}

Carried == Token \cup {NoToken, Health}

(* The verifier is JwtValidator or AnonymousVerifier. *)
AuthLayer == [verifies : BOOLEAN, optional : BOOLEAN]

NoLayer == [verifies |-> FALSE, optional |-> FALSE]

Anonymous == [verifies |-> FALSE, optional |-> TRUE]

Ended == {"accepted", "anonymous", "rejected"}

AuthTypeOK ==
    /\ wallClock \in Nat
    /\ published \subseteq SigningKey
    /\ withdrawnAt \in [SigningKey -> Nat \cup {Never}]
    /\ jwks \subseteq SigningKey
    /\ fetchedAt \in Nat \cup {Never}
    /\ configured \in AuthLayer /\ installed \in AuthLayer /\ serving \in BOOLEAN
    /\ progress \in [Request -> {"idle", "fetching", "answered", "stored"} \cup Ended]
    /\ token \in [Request -> Carried]
    /\ start \in [Request -> Nat]
    /\ received \in [Request -> SUBSET SigningKey]

AuthInit ==
    /\ wallClock = 0
    /\ published = {} /\ withdrawnAt = [k \in SigningKey |-> Never]
    /\ jwks = {} /\ fetchedAt = Never
    /\ configured = NoLayer /\ installed = NoLayer /\ serving = FALSE
    /\ progress = [r \in Request |-> "idle"]
    /\ token = [r \in Request |-> NoToken]
    /\ start = [r \in Request |-> 0]
    /\ received = [r \in Request |-> {}]

-----------------------------------------------------------------------------
(* with_auth, with_auth_layer, without_auth. *)
Configure(layer) ==
    /\ ~serving
    /\ configured' = layer
    /\ UNCHANGED <<wallClock, keyVars, jwksVars, installed, serving, requestVars>>

(* The first handler brings the layer configured so far into the router;   *)
(* what is configured later is never installed.                            *)
AddHandler ==
    /\ ~serving
    /\ installed' = IF installed # NoLayer THEN installed
                    ELSE IF configured # NoLayer THEN configured
                    ELSE Anonymous
    /\ UNCHANGED <<wallClock, keyVars, jwksVars, configured, serving, requestVars>>

(* run: without a handler it fails, and auth_layer is dropped.             *)
RunService ==
    /\ ~serving /\ installed # NoLayer
    /\ serving' = TRUE
    /\ configured' = NoLayer
    /\ UNCHANGED <<wallClock, keyVars, jwksVars, installed, requestVars>>

-----------------------------------------------------------------------------
(* The environment: time passes, and keys are rotated.                     *)
TimePasses ==
    /\ serving /\ wallClock < LastTime
    /\ wallClock' = wallClock + 1
    /\ UNCHANGED <<keyVars, jwksVars, builderVars, requestVars>>

PublishKey(k) ==
    /\ serving
    /\ k \notin published /\ withdrawnAt[k] = Never
    /\ published' = published \cup {k}
    /\ UNCHANGED <<wallClock, withdrawnAt, jwksVars, builderVars, requestVars>>

WithdrawKey(k) ==
    /\ k \in published
    /\ published' = published \ {k}
    /\ withdrawnAt' = [withdrawnAt EXCEPT ![k] = wallClock]
    /\ UNCHANGED <<wallClock, jwksVars, builderVars, requestVars>>

-----------------------------------------------------------------------------
(* decode with key k: the signature must be k's, and the claims right.     *)
Verify(t, k, outcome) ==
    outcome \in {"rejected"} \cup IF t.signer = k THEN {"accepted"} ELSE {}

KeyKnown(kid) == kid \in jwks /\ fetchedAt # Never /\ wallClock - fetchedAt < KeyTTL

(* AuthService::call up to its first await: probes pass, a request without *)
(* a token passes an optional layer, and a token is verified at once when  *)
(* its key is in the cache.                                                *)
Admit(t, outcome) ==
    \/ t = Health /\ outcome = "anonymous"
    \/ t = NoToken /\ outcome = IF installed.optional THEN "anonymous" ELSE "rejected"
    \/ /\ t \in Token
       /\ \/ ~installed.verifies /\ outcome = "anonymous"
          \/ installed.verifies /\ KeyKnown(t.kid) /\ Verify(t, t.kid, outcome)
          \/ installed.verifies /\ ~KeyKnown(t.kid) /\ outcome = "fetching"

Arrive(r, t) ==
    /\ serving /\ progress[r] = "idle"
    /\ \E outcome \in Ended \cup {"fetching"} :
          Admit(t, outcome) /\ progress' = [progress EXCEPT ![r] = outcome]
    /\ token' = [token EXCEPT ![r] = t]
    /\ start' = [start EXCEPT ![r] = wallClock]
    /\ UNCHANGED <<wallClock, keyVars, jwksVars, builderVars, received>>

(* The auth service answers the GET of refresh_jwks. *)
AnswerRefresh(r) ==
    /\ progress[r] = "fetching"
    /\ progress' = [progress EXCEPT ![r] = "answered"]
    /\ received' = [received EXCEPT ![r] = published]
    /\ UNCHANGED <<wallClock, keyVars, jwksVars, builderVars, token, start>>

(* Mutant: the keys are added to those that are known. *)
MutantStore(r) ==
    /\ progress[r] = "answered" /\ wallClock <= start[r] + FetchTimeout
    /\ progress' = [progress EXCEPT ![r] = "stored"]
    /\ jwks' = jwks \cup received[r]
    /\ fetchedAt' = wallClock
    /\ UNCHANGED <<wallClock, keyVars, builderVars, token, start, received>>

(* Its answer has come in time and replaces the keys of the cache, which   *)
(* may be those of a later answer.                                         *)
Store(r) ==
    /\ progress[r] = "answered" /\ wallClock <= start[r] + FetchTimeout
    /\ progress' = [progress EXCEPT ![r] = "stored"]
    /\ jwks' = received[r]
    /\ fetchedAt' = wallClock
    /\ UNCHANGED <<wallClock, keyVars, builderVars, token, start, received>>

(* resolve_key reads the cache a second time; without kid any key will do. *)
ReadBack(r) ==
    /\ progress[r] = "stored"
    /\ LET t == token[r]
           found == IF t.kid = NoKid THEN jwks ELSE jwks \cap {t.kid}
       IN  \E outcome \in Ended :
              /\ IF found = {} THEN outcome = "rejected"
                 ELSE \E k \in found : Verify(t, k, outcome)
              /\ progress' = [progress EXCEPT ![r] = outcome]
    /\ UNCHANGED <<wallClock, keyVars, jwksVars, builderVars, token, start, received>>

(* The GET fails, times out or does not parse: the cache stays as it is.   *)
RefreshFails(r) ==
    /\ progress[r] \in {"fetching", "answered"}
    /\ progress' = [progress EXCEPT ![r] = "rejected"]
    /\ UNCHANGED <<wallClock, keyVars, jwksVars, builderVars, token, start, received>>

(* The handler has returned; r stands for another request now.             *)
Depart(r) ==
    /\ progress[r] \in Ended
    /\ progress' = [progress EXCEPT ![r] = "idle"]
    /\ token' = [token EXCEPT ![r] = NoToken]
    /\ start' = [start EXCEPT ![r] = 0]
    /\ received' = [received EXCEPT ![r] = {}]
    /\ UNCHANGED <<wallClock, keyVars, jwksVars, builderVars>>

AuthNext ==
    \/ \E layer \in AuthLayer \ {NoLayer} : Configure(layer)
    \/ AddHandler \/ RunService
    \/ TimePasses
    \/ \E k \in SigningKey : PublishKey(k) \/ WithdrawKey(k)
    \/ \E r \in Request :
          \/ \E t \in Carried : Arrive(r, t)
          \/ AnswerRefresh(r) \/ Store(r) \/ ReadBack(r) \/ RefreshFails(r) \/ Depart(r)

AuthSpec == AuthInit /\ [][AuthNext]_authVars

-----------------------------------------------------------------------------
(* What passes for a key: published now, or withdrawn no more than `slack` *)
(* before `when`.                                                          *)
Known(k, when, slack) ==
    \/ k \in published
    \/ withdrawnAt[k] # Never /\ when <= withdrawnAt[k] + slack

(* A withdrawn key is forgotten: a token is only accepted from a request   *)
(* that came at most one TTL and one fetch after its key was withdrawn,    *)
(* whatever refreshes overlapped and in whatever order their answers were  *)
(* stored (auth/default.rs:189-231, 233-264).                              *)
WithdrawnForgotten ==
    \A r \in Request :
        progress[r] = "accepted" => Known(token[r].signer, start[r], KeyTTL + FetchTimeout)

(* The inductive invariant: the keys of the cache were published at most a *)
(* fetch before they were stored, those of an answer since the request was *)
(* sent, and a request that has stored reads nothing older back.           *)
AuthIInv ==
    /\ AuthTypeOK
    /\ \A k \in SigningKey : k \in published => withdrawnAt[k] = Never
    /\ fetchedAt = Never => jwks = {}
    /\ fetchedAt # Never => fetchedAt <= wallClock
    /\ \A k \in jwks : Known(k, fetchedAt, FetchTimeout)
    /\ \A r \in Request :
         /\ start[r] <= wallClock
         /\ progress[r] \in {"fetching", "answered", "stored", "accepted"} => token[r] \in Token
         /\ progress[r] = "answered" => \A k \in received[r] : Known(k, start[r], 0)
         /\ progress[r] = "stored" => fetchedAt # Never /\ start[r] <= fetchedAt
    /\ WithdrawnForgotten
=============================================================================
