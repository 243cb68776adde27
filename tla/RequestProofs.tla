---------------------------- MODULE RequestProofs ----------------------------
(***************************************************************************)
(* Proofs about what concurrent requests of a process share: the keys of   *)
(* JwtValidator (AuthService), the token of HttpServiceTokenMinter         *)
(* (TokenMinter), the flights and the cache of CoalescingClient            *)
(* (ClientCall) - there each inductive invariant says how old what is      *)
(* shared can be, at every place it passes through - and the flights and   *)
(* the cache of the proxy's handle (ProxyHandle), where it says whose it   *)
(* is, and by which handle is shown to coalesce as Singleflight does.      *)
(***************************************************************************)
EXTENDS AuthService, TokenMinter, ClientCall, ProxyHandle, TLAPS

-----------------------------------------------------------------------------
(* A key that passes for one goes on to do so when it is published or      *)
(* withdrawn, by itself or another: `when` is no later than now.           *)
LEMMA KnownStays ==
    ASSUME AuthIInv, NEW k \in SigningKey, NEW when \in Nat, when <= wallClock,
           NEW slack \in Nat, Known(k, when, slack),
           \/ UNCHANGED keyVars
           \/ \E q \in SigningKey : PublishKey(q) \/ WithdrawKey(q)
    PROVE  Known(k, when, slack)'
<1>1. CASE UNCHANGED keyVars
  BY <1>1 DEF Known, keyVars
<1>2. CASE \E q \in SigningKey : PublishKey(q)
  BY <1>2 DEF Known, PublishKey
<1>3. CASE \E q \in SigningKey : WithdrawKey(q)
  <2>1. PICK q \in SigningKey : WithdrawKey(q)
    BY <1>3
  <2>2. CASE q = k
    BY <2>1, <2>2, AuthAssumption DEF Known, WithdrawKey, AuthIInv, AuthTypeOK
  <2>3. CASE q # k
    BY <2>1, <2>3 DEF Known, WithdrawKey, AuthIInv, AuthTypeOK
  <2> QED BY <2>2, <2>3
<1> QED BY <1>1, <1>2, <1>3

(* What the invariant says of one request. *)
RequestHeld(r) ==
    /\ start[r] <= wallClock
    /\ progress[r] \in {"fetching", "answered", "stored", "accepted"} => token[r] \in Token
    /\ progress[r] = "answered" => \A k \in received[r] : Known(k, start[r], 0)
    /\ progress[r] = "stored" => fetchedAt # Never /\ start[r] <= fetchedAt
    /\ progress[r] = "accepted" => Known(token[r].signer, start[r], KeyTTL + FetchTimeout)

(* The rest of it, about the cache of keys. *)
CacheHeld ==
    /\ \A k \in SigningKey : k \in published => withdrawnAt[k] = Never
    /\ fetchedAt = Never => jwks = {}
    /\ fetchedAt # Never => fetchedAt <= wallClock
    /\ \A k \in jwks : Known(k, fetchedAt, FetchTimeout)

LEMMA AuthParts ==
    AuthIInv <=> AuthTypeOK /\ CacheHeld /\ \A r \in Request : RequestHeld(r)
BY DEF AuthIInv, CacheHeld, RequestHeld, WithdrawnForgotten

LEMMA AuthPartsNext ==
    AuthTypeOK' /\ CacheHeld' /\ (\A r \in Request : RequestHeld(r)') => AuthIInv'
BY DEF AuthIInv, CacheHeld, RequestHeld, WithdrawnForgotten

LEMMA AuthInitial == AuthInit => AuthIInv
<1> SUFFICES ASSUME AuthInit PROVE AuthIInv
  OBVIOUS
<1>1. AuthTypeOK
  BY DEF AuthInit, AuthTypeOK, NoLayer, AuthLayer, Carried
<1>2. CacheHeld /\ \A r \in Request : RequestHeld(r)
  BY AuthAssumption DEF AuthInit, CacheHeld, RequestHeld
<1> QED BY <1>1, <1>2, AuthParts

(* A step that leaves the cache and the requests to themselves keeps the   *)
(* invariant if it keeps the types, if a published key stays one that has  *)
(* not been withdrawn, and if what passed for a key still does.            *)
LEMMA ElsewhereKeeps ==
    ASSUME AuthIInv, AuthTypeOK', UNCHANGED <<jwksVars, requestVars>>,
           wallClock <= wallClock',
           \/ UNCHANGED keyVars
           \/ \E q \in SigningKey : PublishKey(q) \/ WithdrawKey(q)
    PROVE  AuthIInv'
<1> USE DEF jwksVars, requestVars
<1>1. CacheHeld'
  <2>1. \A k \in SigningKey : (k \in published => withdrawnAt[k] = Never)'
    BY DEF AuthIInv, AuthTypeOK, keyVars, PublishKey, WithdrawKey
  <2>2. ASSUME NEW k \in jwks'
        PROVE  Known(k, fetchedAt, FetchTimeout)'
    BY <2>2, KnownStays, AuthAssumption DEF AuthIInv, AuthTypeOK, Known
  <2> QED BY <2>1, <2>2, AuthAssumption DEF CacheHeld, AuthIInv, AuthTypeOK
<1>2. ASSUME NEW r \in Request
      PROVE  RequestHeld(r)'
  <2>1. start[r] \in Nat /\ start[r] <= wallClock /\ start[r] <= wallClock'
    BY DEF AuthIInv, AuthTypeOK
  <2>2. ASSUME progress[r] = "answered", NEW k \in received[r]
        PROVE  Known(k, start[r], 0)'
    BY <2>1, <2>2, KnownStays DEF AuthIInv, AuthTypeOK, Known
  <2>3. ASSUME progress[r] = "accepted"
        PROVE  Known(token[r].signer, start[r], KeyTTL + FetchTimeout)'
    <3>1. token[r].signer \in SigningKey
      BY <2>3 DEF AuthIInv, Token
    <3> QED BY <2>1, <2>3, <3>1, KnownStays, AuthAssumption
               DEF AuthIInv, WithdrawnForgotten, Known
  <2> QED BY <2>1, <2>2, <2>3 DEF RequestHeld, AuthIInv
<1> QED BY <1>1, <1>2, AuthPartsNext

(* A step of one request that leaves the cache alone.                      *)
LEMMA OneRequestMoves ==
    ASSUME AuthIInv, AuthTypeOK', UNCHANGED <<wallClock, keyVars, jwksVars>>,
           NEW r \in Request, RequestHeld(r)',
           \A s \in Request \ {r} :
              /\ progress'[s] = progress[s] /\ token'[s] = token[s]
              /\ start'[s] = start[s] /\ received'[s] = received[s]
    PROVE  AuthIInv'
<1>1. CacheHeld'
  BY DEF AuthIInv, CacheHeld, Known, keyVars, jwksVars
<1>2. \A s \in Request \ {r} : RequestHeld(s)'
  BY AuthParts DEF RequestHeld, Known, keyVars, jwksVars
<1> QED BY <1>1, <1>2, AuthPartsNext

LEMMA ArriveKeeps ==
    ASSUME AuthIInv, NEW r \in Request, NEW t \in Carried, Arrive(r, t)
    PROVE  AuthIInv'
<1>1. PICK outcome \in Ended \cup {"fetching"} :
          Admit(t, outcome) /\ progress' = [progress EXCEPT ![r] = outcome]
  BY DEF Arrive
<1>2. AuthTypeOK'
  BY <1>1 DEF Arrive, AuthIInv, AuthTypeOK, keyVars, jwksVars, builderVars, Ended
<1>3. /\ progress'[r] = outcome /\ token'[r] = t /\ start'[r] = wallClock
      /\ wallClock \in Nat
  BY <1>1 DEF Arrive, AuthIInv, AuthTypeOK
<1>4. ASSUME outcome = "accepted"
      PROVE  t \in Token /\ Known(t.signer, wallClock, KeyTTL + FetchTimeout)
  <2>1. t \in Token /\ KeyKnown(t.kid) /\ Verify(t, t.kid, outcome)
    BY <1>1, <1>4 DEF Admit
  <2>2. t.signer = t.kid /\ t.kid \in jwks
    BY <2>1, <1>4 DEF Verify, KeyKnown
  <2>3. Known(t.kid, fetchedAt, FetchTimeout) /\ fetchedAt \in Nat
    BY <2>1, <2>2 DEF AuthIInv, AuthTypeOK, KeyKnown
  <2>4. wallClock < fetchedAt + KeyTTL
    BY <2>1, <2>3, <1>3, AuthAssumption DEF KeyKnown
  <2>5. withdrawnAt[t.kid] \in Nat \cup {Never}
    BY <2>2 DEF AuthIInv, AuthTypeOK
  <2> QED BY <2>1, <2>2, <2>3, <2>4, <2>5, <1>3, AuthAssumption DEF Known
<1>5. outcome = "fetching" => t \in Token
  BY <1>1 DEF Admit
<1>6. RequestHeld(r)'
  BY <1>1, <1>3, <1>4, <1>5 DEF RequestHeld, Arrive, Known, keyVars, Ended
<1> QED BY <1>1, <1>2, <1>6, OneRequestMoves DEF Arrive

LEMMA AnswerKeeps ==
    ASSUME AuthIInv, NEW r \in Request, AnswerRefresh(r)
    PROVE  AuthIInv'
<1>1. AuthTypeOK'
  BY DEF AnswerRefresh, AuthIInv, AuthTypeOK, keyVars, jwksVars, builderVars
<1>2. RequestHeld(r)'
  BY DEF AnswerRefresh, AuthIInv, AuthTypeOK, RequestHeld, Known, keyVars
<1> QED BY <1>1, <1>2, OneRequestMoves DEF AnswerRefresh

(* The answer has come in time: its keys were published when the request   *)
(* was sent, hence at most a timeout ago.                                  *)
LEMMA StoreKeeps ==
    ASSUME AuthIInv, NEW r \in Request, Store(r)
    PROVE  AuthIInv'
<1> USE DEF Store
<1>1. AuthTypeOK'
  BY DEF AuthIInv, AuthTypeOK, keyVars, builderVars
<1>2. /\ wallClock \in Nat /\ start[r] \in Nat /\ wallClock <= start[r] + FetchTimeout
      /\ UNCHANGED <<wallClock, published, withdrawnAt, token, start, received>>
      /\ fetchedAt' = wallClock /\ jwks' = received[r] /\ received[r] \subseteq SigningKey
  BY DEF AuthIInv, AuthTypeOK, keyVars
<1>3. ASSUME NEW k \in received[r]
      PROVE  Known(k, wallClock, FetchTimeout)
  BY <1>2, <1>3, AuthAssumption DEF AuthIInv, AuthTypeOK, Known
<1>4. CacheHeld'
  BY <1>2, <1>3, AuthAssumption DEF CacheHeld, AuthIInv, Known
<1>5. ASSUME NEW s \in Request
      PROVE  RequestHeld(s)'
  <2>1. start[s] <= wallClock /\ wallClock # Never
    BY <1>2, AuthAssumption DEF AuthIInv
  <2>2. CASE s = r
    BY <1>2, <2>1, <2>2 DEF RequestHeld, AuthIInv, AuthTypeOK
  <2>3. CASE s # r
    BY <1>2, <2>1, <2>3, AuthParts DEF RequestHeld, Known, AuthTypeOK
  <2> QED BY <2>2, <2>3
<1> QED BY <1>1, <1>4, <1>5, AuthPartsNext

LEMMA ReadBackKeeps ==
    ASSUME AuthIInv, NEW r \in Request, ReadBack(r)
    PROVE  AuthIInv'
<1> DEFINE t == token[r]
           found == IF t.kid = NoKid THEN jwks ELSE jwks \cap {t.kid}
<1>1. PICK outcome \in Ended :
          /\ IF found = {} THEN outcome = "rejected" ELSE \E k \in found : Verify(t, k, outcome)
          /\ progress' = [progress EXCEPT ![r] = outcome]
  BY DEF ReadBack
<1>2. AuthTypeOK'
  BY <1>1 DEF ReadBack, AuthIInv, AuthTypeOK, keyVars, jwksVars, builderVars, Ended
<1>3. /\ fetchedAt \in Nat /\ start[r] \in Nat /\ start[r] <= fetchedAt
      /\ start[r] <= wallClock /\ t \in Token
  BY DEF ReadBack, AuthIInv, AuthTypeOK
<1>4. ASSUME outcome = "accepted"
      PROVE  Known(t.signer, start[r], KeyTTL + FetchTimeout)
  <2>1. PICK k \in jwks : t.signer = k
    BY <1>1, <1>4 DEF Verify
  <2>2. Known(k, fetchedAt, FetchTimeout) /\ withdrawnAt[k] \in Nat \cup {Never}
    BY DEF AuthIInv, AuthTypeOK
  <2> QED BY <2>1, <2>2, <1>3, AuthAssumption DEF Known
<1>5. RequestHeld(r)'
  BY <1>1, <1>3, <1>4 DEF RequestHeld, ReadBack, Known, keyVars, Ended, AuthIInv, AuthTypeOK
<1> QED BY <1>1, <1>2, <1>5, OneRequestMoves DEF ReadBack

LEMMA RequestEndsKeeps ==
    ASSUME AuthIInv, NEW r \in Request, RefreshFails(r) \/ Depart(r)
    PROVE  AuthIInv'
<1>1. AuthTypeOK'
  BY DEF RefreshFails, Depart, AuthIInv, AuthTypeOK, keyVars, jwksVars, builderVars, Carried, Ended
<1>2. RequestHeld(r)'
  BY DEF RefreshFails, Depart, AuthIInv, AuthTypeOK, RequestHeld
<1>3. /\ UNCHANGED <<wallClock, keyVars, jwksVars>>
      /\ \A s \in Request \ {r} :
            /\ progress'[s] = progress[s] /\ token'[s] = token[s]
            /\ start'[s] = start[s] /\ received'[s] = received[s]
  BY DEF RefreshFails, Depart, AuthIInv, AuthTypeOK
<1> QED BY <1>1, <1>2, <1>3, OneRequestMoves

LEMMA AuthStepKeeps == AuthIInv /\ [AuthNext]_authVars => AuthIInv'
<1> SUFFICES ASSUME AuthIInv, [AuthNext]_authVars PROVE AuthIInv'
  OBVIOUS
<1>1. CASE UNCHANGED authVars
  BY <1>1 DEF authVars, keyVars, jwksVars, builderVars, requestVars, AuthIInv, AuthTypeOK,
              Known, WithdrawnForgotten
<1>2. ASSUME NEW layer \in AuthLayer \ {NoLayer}, Configure(layer)
      PROVE  AuthIInv'
  <2>1. AuthTypeOK'
    BY <1>2 DEF Configure, AuthIInv, AuthTypeOK, keyVars, jwksVars, requestVars
  <2> QED BY <1>2, <2>1, ElsewhereKeeps DEF Configure, AuthIInv, AuthTypeOK
<1>3. CASE AddHandler \/ RunService
  <2>1. NoLayer \in AuthLayer /\ Anonymous \in AuthLayer
    BY DEF NoLayer, Anonymous, AuthLayer
  <2>2. AuthTypeOK'
    BY <1>3, <2>1 DEF AddHandler, RunService, AuthIInv, AuthTypeOK, keyVars, jwksVars, requestVars
  <2> QED BY <1>3, <2>2, ElsewhereKeeps DEF AddHandler, RunService, AuthIInv, AuthTypeOK
<1>4. CASE TimePasses
  <2>1. AuthTypeOK'
    BY <1>4 DEF TimePasses, AuthIInv, AuthTypeOK, keyVars, jwksVars, requestVars, builderVars
  <2> QED BY <1>4, <2>1, ElsewhereKeeps DEF TimePasses, AuthIInv, AuthTypeOK
<1>5. ASSUME NEW k \in SigningKey, PublishKey(k) \/ WithdrawKey(k)
      PROVE  AuthIInv'
  <2>1. AuthTypeOK'
    BY <1>5 DEF PublishKey, WithdrawKey, AuthIInv, AuthTypeOK, jwksVars, requestVars, builderVars
  <2> QED BY <1>5, <2>1, ElsewhereKeeps DEF PublishKey, WithdrawKey, AuthIInv, AuthTypeOK
<1> QED BY <1>1, <1>2, <1>3, <1>4, <1>5, ArriveKeeps, AnswerKeeps, StoreKeeps, ReadBackKeeps,
           RequestEndsKeeps DEF AuthNext

(* The inductive invariant of AuthService. *)
THEOREM KeysRecent == AuthSpec => []AuthIInv
BY AuthInitial, AuthStepKeeps, PTL DEF AuthSpec

(* A withdrawn key is forgotten, with any number of requests, keys and     *)
(* overlapping refreshes (auth/default.rs:189-264).                        *)
THEOREM KeysForgotten == AuthSpec => []WithdrawnForgotten
BY KeysRecent, PTL DEF AuthIInv

-----------------------------------------------------------------------------
LEMMA MinterInitial == MinterInit => MinterIInv
BY DEF MinterInit, MinterIInv, MinterTypeOK, ReusedTokenAlive

LEMMA MintFromCacheKeeps ==
    ASSUME MinterIInv, NEW j \in MintCaller, MintFromCache(j)
    PROVE  MinterIInv'
<1> USE DEF MintFromCache
<1>1. MinterTypeOK' /\ cachedCtx \in Ctx
  BY DEF MinterIInv, MinterTypeOK, Usable
<1>2. cachedCtx.hint # Unhinted => mintClock < cachedCtx.issuedAt + cachedCtx.hint
  <2>1. /\ Margin \in Nat /\ MintTimeout \in Nat /\ MintTimeout <= Margin
        /\ Lifetime \subseteq Nat
    BY MinterAssumption
  <2>2. /\ mintClock \in Nat /\ mintClock + Margin < cachedCtx.expiresAt
        /\ Reckoned(cachedCtx)
    BY <2>1, <1>1 DEF MinterIInv, MinterTypeOK, Usable, Ctx
  <2>3. /\ cachedCtx.expiresAt \in Nat /\ cachedCtx.issuedAt \in Nat
        /\ cachedCtx.hint # Unhinted => cachedCtx.hint \in Nat
    BY <1>1, <2>1 DEF Ctx
  <2> QED BY <2>1, <2>2, <2>3 DEF Reckoned
<1>3. ReusedTokenAlive'
  BY <1>1, <1>2 DEF MinterIInv, MinterTypeOK, ReusedTokenAlive
<1> QED BY <1>1, <1>3 DEF MinterIInv, MinterTypeOK, Usable

LEMMA MintResponseKeeps ==
    ASSUME MinterIInv, NEW j \in MintCaller, MintResponse(j)
    PROVE  MinterIInv'
<1> DEFINE c == ctx[j]
           life == IF c.hint = Unhinted THEN DefaultLife ELSE c.hint
           new == [c EXCEPT !.expiresAt = mintClock + life]
<1>1. /\ ctx' = [ctx EXCEPT ![j] = new] /\ cachedCtx' = new
      /\ minting[j] = "issued" /\ mintClock <= asked[j] + MintTimeout
      /\ minting' = [minting EXCEPT ![j] = "given"]
      /\ UNCHANGED <<mintClock, asked, fromCache>>
  BY DEF MintResponse
<1>2. c \in Ctx /\ asked[j] <= c.issuedAt /\ asked[j] \in Nat /\ mintClock \in Nat
  BY <1>1 DEF MinterIInv, MinterTypeOK
<1>3. /\ new \in Ctx /\ new.hint = c.hint /\ new.issuedAt = c.issuedAt
      /\ new.expiresAt = mintClock + life /\ life \in Nat
  BY <1>2, MinterAssumption DEF Ctx
<1>4. Reckoned(new)
  BY <1>1, <1>2, <1>3, MinterAssumption DEF Reckoned, Ctx
<1>5. new # NoCtx
  BY <1>3, MinterAssumption DEF Ctx
<1>6. ~fromCache[j]
  BY <1>1 DEF MinterIInv
<1> HIDE DEF new
<1>7. MinterTypeOK'
  BY <1>1, <1>3 DEF MinterIInv, MinterTypeOK
<1>8. ReusedTokenAlive'
  BY <1>1, <1>6 DEF MinterIInv, MinterTypeOK, ReusedTokenAlive
<1>9. (cachedCtx # NoCtx => Reckoned(cachedCtx))'
  BY <1>1, <1>4 DEF Reckoned
<1> QED BY <1>1, <1>2, <1>5, <1>6, <1>7, <1>8, <1>9 DEF MinterIInv, MinterTypeOK

LEMMA MinterStepKeeps == MinterIInv /\ [MinterNext]_minterVars => MinterIInv'
<1> SUFFICES ASSUME MinterIInv, [MinterNext]_minterVars PROVE MinterIInv'
  OBVIOUS
<1>1. CASE UNCHANGED minterVars
  BY <1>1 DEF minterVars, MinterIInv, MinterTypeOK, Reckoned, ReusedTokenAlive
<1>2. CASE MintTick
  BY <1>2 DEF MintTick, MinterIInv, MinterTypeOK, Reckoned, ReusedTokenAlive
<1>3. ASSUME NEW j \in MintCaller, MintRequest(j)
      PROVE  MinterIInv'
  <2>1. MinterTypeOK'
    BY <1>3 DEF MintRequest, MinterIInv, MinterTypeOK
  <2> QED BY <1>3, <2>1 DEF MintRequest, MinterIInv, MinterTypeOK, Reckoned, ReusedTokenAlive
<1>4. ASSUME NEW j \in MintCaller, NEW hint \in Lifetime \cup {Unhinted}, IssueToken(j, hint)
      PROVE  MinterIInv'
  <2> DEFINE issued == [expiresAt |-> 0, issuedAt |-> mintClock, hint |-> hint]
  <2>1. issued \in Ctx /\ issued # NoCtx /\ issued.issuedAt = mintClock
    BY MinterAssumption DEF MinterIInv, MinterTypeOK, Ctx
  <2>2. ctx' = [ctx EXCEPT ![j] = issued]
    BY <1>4 DEF IssueToken
  <2> HIDE DEF issued
  <2>3. MinterTypeOK'
    BY <1>4, <2>1, <2>2 DEF IssueToken, MinterIInv, MinterTypeOK
  <2> QED BY <1>4, <2>1, <2>2, <2>3
          DEF IssueToken, MinterIInv, MinterTypeOK, Reckoned, ReusedTokenAlive
<1>5. ASSUME NEW j \in MintCaller, MintFailsOrEnds(j)
      PROVE  MinterIInv'
  <2>1. MinterTypeOK'
    BY <1>5 DEF MintFailsOrEnds, MinterIInv, MinterTypeOK
  <2> QED BY <1>5, <2>1 DEF MintFailsOrEnds, MinterIInv, MinterTypeOK, Reckoned, ReusedTokenAlive
<1> QED BY <1>1, <1>2, <1>3, <1>4, <1>5, MintFromCacheKeeps, MintResponseKeeps DEF MinterNext

(* The inductive invariant of TokenMinter. *)
THEOREM ExpiryReckoned == MinterSpec => []MinterIInv
BY MinterInitial, MinterStepKeeps, PTL DEF MinterSpec

(* A token handed out again is alive at the auth service, for any number   *)
(* of callers, lifetimes and margin no less than the timeout               *)
(* (auth/default.rs:476).                                                  *)
THEOREM ReusedTokensAlive == MinterSpec => []ReusedTokenAlive
BY ExpiryReckoned, PTL DEF MinterIInv

-----------------------------------------------------------------------------
LEMMA ClientInitial == ClientInit => ClientIInv
BY ClientAssumption DEF ClientInit, ClientIInv, ClientTypeOK, CallHeld, RepliesFresh, Places

(* What a record of a flight is made of. *)
LEMMA FlightParts ==
    ASSUME ClientIInv, NEW f \in ClientFlight, flight[f] # Nothing
    PROVE  /\ flight[f] \in FlightState
           /\ flight[f].left \in BOOLEAN
           /\ flight[f].result \in Made \cup {Nothing}
           /\ flight[f].resolved \in Nat \cup {Nothing}
           /\ flight[f].result # Nothing =>
                /\ flight[f].result.ok \in BOOLEAN /\ flight[f].result.left \in BOOLEAN
                /\ flight[f].result.made \in Nat
           /\ FlightHeld(f)
BY DEF ClientIInv, ClientTypeOK, FlightState, Made

(* Time goes on only when nothing is overdue. *)
LEMMA ClientTickKeeps == ASSUME ClientIInv, ClientTick PROVE ClientIInv'
<1> USE DEF ClientTick
<1>1. ticks \in Nat /\ Delay \in Nat
  BY ClientAssumption DEF ClientIInv, ClientTypeOK
<1>2. ASSUME NEW f \in ClientFlight, flight[f] # Nothing
      PROVE  FlightHeld(f)'
  <2>1. Waiting(f)' = Waiting(f)
    BY DEF Waiting
  <2>2. Waiting(f) # {} =>
          IF flight[f].resolved # Nothing THEN ~(ticks >= flight[f].resolved + Delay)
          ELSE ~(flight[f].result # Nothing /\ ~flight[f].left
                   /\ ticks >= flight[f].result.made + Delay)
    BY <1>2 DEF Urgent
  <2> QED BY <1>1, <1>2, <2>1, <2>2, FlightParts DEF FlightHeld, settings
<1>3. \A c \in Rpc : CallHeld(c)'
  BY <1>1 DEF ClientIInv, ClientTypeOK, CallHeld
<1> QED BY <1>1, <1>2, <1>3 DEF ClientIInv, ClientTypeOK, RepliesFresh, settings

LEMMA LookUpKeeps == ASSUME ClientIInv, NEW c \in Rpc, LookUp(c) PROVE ClientIInv'
<1> USE DEF LookUp
<1>1. ClientTypeOK'
  BY DEF ClientIInv, ClientTypeOK, Places, AnsweredRecently, settings
<1>2. ASSUME NEW f \in ClientFlight, flight[f] # Nothing
      PROVE  FlightHeld(f)'
  <2>1. Waiting(f)' = Waiting(f)
    BY DEF Waiting
  <2> QED BY <1>2, <2>1 DEF FlightHeld, ClientIInv, settings
<1>3. joined[c] = Nothing
  BY DEF ClientIInv, CallHeld
<1>4. \A d \in Rpc : CallHeld(d)'
  BY <1>3 DEF ClientIInv, ClientTypeOK, CallHeld
<1>5. ASSUME AnsweredRecently
      PROVE  /\ recent \in [result : Made, until : Nat] /\ ticks \in Nat
             /\ recent.result.ok
             /\ ~recent.result.left => ticks <= recent.result.made + Delay + Delay + ClientTTL
  <2>1. recent \in [result : Made, until : Nat] /\ ticks \in Nat /\ recent.until > ticks
    BY <1>5 DEF AnsweredRecently, ClientIInv, ClientTypeOK
  <2> QED BY <1>5, <2>1, ClientAssumption DEF AnsweredRecently, ClientIInv, Made
<1>6. RepliesFresh'
  BY <1>5, ClientAssumption DEF ClientIInv, ClientTypeOK, CallHeld, RepliesFresh, Made
<1> QED BY <1>1, <1>2, <1>4, <1>6 DEF ClientIInv

LEMMA JoinKeeps ==
    ASSUME ClientIInv, NEW c \in Rpc, NEW f \in ClientFlight, JoinFlight(c, f)
    PROVE  ClientIInv'
<1> DEFINE fresh == [left |-> FALSE, result |-> Nothing, resolved |-> Nothing]
<1>1. /\ place[c] = "flight" /\ joined[c] = Nothing /\ result[c] = Nothing
      /\ joined' = [joined EXCEPT ![c] = f] /\ place' = [place EXCEPT ![c] = "wait"]
      /\ UNCHANGED <<ticks, settings, recent, began, result>>
  BY DEF JoinFlight, ClientIInv, CallHeld
<1>2. fresh \in FlightState /\ fresh # Nothing
  <2>1. fresh \in FlightState
    BY DEF FlightState
  <2>2. Nothing \notin FlightState
    BY ClientAssumption DEF FlightState, Made
  <2> QED BY <2>1, <2>2
<1>3. \/ coalesce /\ inMap = f /\ f # Nothing /\ UNCHANGED <<inMap, flight>>
      \/ /\ flight[f] = Nothing /\ flight' = [flight EXCEPT ![f] = fresh]
         /\ inMap' = IF coalesce THEN f ELSE inMap
         /\ coalesce => inMap = Nothing
  BY ClientAssumption DEF JoinFlight
<1> HIDE DEF fresh
<1>4. ClientTypeOK'
  BY <1>1, <1>2, <1>3 DEF ClientIInv, ClientTypeOK, Places, settings
<1>5. /\ flight'[f] # Nothing
      /\ flight'[f] = flight[f] \/ flight'[f] = fresh
      /\ \A g \in ClientFlight \ {f} : flight'[g] = flight[g]
      /\ flight'[f] = flight[f] => inMap = f /\ coalesce
  BY <1>2, <1>3 DEF ClientIInv, ClientTypeOK
<1>6. \A g \in ClientFlight : Waiting(g)' = IF g = f THEN Waiting(g) \cup {c} ELSE Waiting(g)
  BY <1>1, ClientAssumption DEF Waiting, ClientIInv, ClientTypeOK
<1>7. ASSUME NEW g \in ClientFlight, flight'[g] # Nothing
      PROVE  FlightHeld(g)'
  <2>1. CASE g # f
    <3>1. flight'[g] = flight[g] /\ FlightHeld(g) /\ Waiting(g)' = Waiting(g)
      BY <1>5, <1>6, <1>7, <2>1 DEF ClientIInv
    <3>2. UNCHANGED <<ticks, coalesce>> /\ (inMap' = g <=> inMap = g)
      BY <1>1, <1>3, <2>1, ClientAssumption DEF settings
    <3> QED BY <3>1, <3>2 DEF FlightHeld
  <2>2. CASE g = f /\ UNCHANGED <<inMap, flight>>
    <3>1. FlightHeld(g) /\ Waiting(g)' # {}
      BY <1>6, <1>7, <2>2 DEF ClientIInv
    <3>2. UNCHANGED <<ticks, coalesce, inMap>> /\ flight'[g] = flight[g]
      BY <1>1, <2>2 DEF settings
    <3> QED BY <3>1, <3>2 DEF FlightHeld
  <2>3. CASE g = f /\ flight'[f] = fresh /\ flight[f] = Nothing
    <3>1. Waiting(g)' # {} /\ (inMap' = g => coalesce')
      BY <1>1, <1>3, <1>6, <2>3, ClientAssumption DEF settings, ClientIInv
    <3>2. fresh.result = Nothing /\ fresh.resolved = Nothing
      BY DEF fresh
    <3> QED BY <2>3, <3>1, <3>2 DEF FlightHeld
  <2> QED BY <1>3, <1>5, <2>1, <2>2, <2>3
<1>8. ASSUME NEW d \in Rpc
      PROVE  CallHeld(d)'
  <2>1. flight'[f].resolved = Nothing
    BY <1>5 DEF fresh, ClientIInv, FlightHeld
  <2> QED BY <1>1, <1>5, <2>1, ClientAssumption DEF CallHeld, ClientIInv, ClientTypeOK
<1>9. RepliesFresh'
  BY <1>1 DEF RepliesFresh, ClientIInv
<1>10. inMap' # Nothing => flight'[inMap'] # Nothing
  BY <1>3, <1>5 DEF ClientIInv, ClientTypeOK
<1> QED BY <1>1, <1>4, <1>7, <1>8, <1>9, <1>10 DEF ClientIInv

LEMMA UpstreamKeeps ==
    ASSUME ClientIInv, NEW f \in ClientFlight, NEW ok \in BOOLEAN, Upstream(f, ok)
    PROVE  ClientIInv'
<1> DEFINE arrived == [ok |-> ok, made |-> ticks, left |-> FALSE]
           s == flight[f]
<1>1. /\ s # Nothing /\ s.result = Nothing /\ s.resolved = Nothing
      /\ s \in FlightState /\ ticks \in Nat /\ Delay \in Nat
  BY FlightParts, ClientAssumption DEF Upstream, FlightHeld, ClientIInv, ClientTypeOK
<1>2. arrived \in Made /\ arrived.made = ticks
  BY <1>1 DEF Made
<1>3. /\ flight' = [flight EXCEPT ![f] = [s EXCEPT !.result = arrived, !.left = (Waiting(f) = {})]]
      /\ UNCHANGED <<ticks, settings, inMap, recent, place, began, joined, result>>
  BY DEF Upstream
<1> HIDE DEF arrived
<1>4. /\ flight'[f] \in FlightState /\ flight'[f].result = arrived
      /\ flight'[f].left = (Waiting(f) = {}) /\ flight'[f].resolved = Nothing
      /\ \A g \in ClientFlight \ {f} : flight'[g] = flight[g]
  BY <1>1, <1>2, <1>3 DEF FlightState, ClientIInv, ClientTypeOK
<1>5. flight'[f] # Nothing
  BY <1>4, ClientAssumption DEF FlightState, Made
<1>6. ClientTypeOK'
  BY <1>3, <1>4 DEF ClientIInv, ClientTypeOK, settings
<1>7. ASSUME NEW g \in ClientFlight, flight'[g] # Nothing
      PROVE  FlightHeld(g)'
  <2>1. Waiting(g)' = Waiting(g) /\ UNCHANGED <<ticks, coalesce, inMap>>
    BY <1>3 DEF Waiting, settings
  <2>2. CASE g = f
    <3>1. FlightHeld(f)
      BY <1>1, FlightParts
    <3>2. /\ flight'[f].left => Waiting(f) = {}
          /\ ~flight'[f].left => Waiting(f) # {}
      BY <1>4, Zenon
    <3>3. (inMap = f => coalesce) /\ (inMap # f => Waiting(f) # {})
      BY <3>1 DEF FlightHeld
    <3>4. ticks <= ticks + Delay
      BY <1>1
    <3> QED BY <1>2, <1>4, <2>1, <2>2, <3>2, <3>3, <3>4 DEF FlightHeld
  <2>3. CASE g # f
    BY <1>4, <1>7, <2>1, <2>3 DEF FlightHeld, ClientIInv
  <2> QED BY <2>2, <2>3
<1>8. ASSUME NEW d \in Rpc
      PROVE  CallHeld(d)'
  BY <1>1, <1>3, <1>4, <1>5 DEF CallHeld, ClientIInv, ClientTypeOK
<1> QED BY <1>3, <1>4, <1>5, <1>6, <1>7, <1>8 DEF ClientIInv, ClientTypeOK, RepliesFresh

LEMMA ResolveKeeps ==
    ASSUME ClientIInv, NEW f \in ClientFlight, ResolveFlight(f)
    PROVE  ClientIInv'
<1> DEFINE s == flight[f]
           arrived == [s.result EXCEPT !.left = s.left]
<1>1. /\ s # Nothing /\ s.result # Nothing /\ s.resolved = Nothing /\ Waiting(f) # {}
      /\ s \in FlightState /\ s.result \in Made /\ s.left \in BOOLEAN
      /\ ticks \in Nat /\ Delay \in Nat /\ FlightHeld(f)
  BY FlightParts, ClientAssumption DEF ResolveFlight, ClientIInv, ClientTypeOK
<1>2. arrived \in Made /\ arrived.made = s.result.made /\ arrived.left = s.left
  BY <1>1 DEF Made
<1>3. /\ flight' = [flight EXCEPT ![f] = [s EXCEPT !.resolved = ticks, !.result = arrived]]
      /\ inMap' = IF inMap = f THEN Nothing ELSE inMap
      /\ UNCHANGED <<ticks, settings, recent, place, began, joined, result>>
  BY DEF ResolveFlight
<1> HIDE DEF arrived
<1>4. /\ flight'[f] \in FlightState /\ flight'[f].result = arrived
      /\ flight'[f].left = s.left /\ flight'[f].resolved = ticks
      /\ \A g \in ClientFlight \ {f} : flight'[g] = flight[g]
  BY <1>1, <1>2, <1>3 DEF FlightState, ClientIInv, ClientTypeOK
<1>5. flight'[f] # Nothing /\ arrived # Nothing
  <2>1. Nothing \notin FlightState
    BY ClientAssumption DEF FlightState, Made
  <2>2. Nothing \notin Made
    BY ClientAssumption DEF Made
  <2> QED BY <1>2, <1>4, <2>1, <2>2
<1>6. ClientTypeOK'
  BY <1>3, <1>4 DEF ClientIInv, ClientTypeOK, settings
<1>7. ASSUME NEW g \in ClientFlight, flight'[g] # Nothing
      PROVE  FlightHeld(g)'
  <2>1. Waiting(g)' = Waiting(g) /\ UNCHANGED <<ticks, coalesce>>
    BY <1>3 DEF Waiting, settings
  <2>2. CASE g = f
    <3>1. inMap' # f
      BY <1>3, ClientAssumption
    <3>2. ~s.left => ticks <= s.result.made + Delay
      BY <1>1 DEF FlightHeld
    <3>3. ~s.left => ticks <= ticks + Delay /\ ticks <= arrived.made + Delay
      BY <1>1, <1>2, <3>2
    <3> QED BY <1>1, <1>2, <1>4, <1>5, <2>1, <2>2, <3>1, <3>3 DEF FlightHeld
  <2>3. CASE g # f
    <3>1. flight'[g] = flight[g] /\ FlightHeld(g)
      BY <1>4, <1>7, <2>3 DEF ClientIInv
    <3>2. inMap' # g => inMap # g
      BY <1>3, <2>3
    <3>3. inMap' = g => inMap = g
      BY <1>3, ClientAssumption
    <3> QED BY <2>1, <3>1, <3>2, <3>3 DEF FlightHeld
  <2> QED BY <2>2, <2>3
<1>8. ASSUME NEW d \in Rpc
      PROVE  CallHeld(d)'
  BY <1>1, <1>3, <1>4, <1>5 DEF CallHeld, ClientIInv, ClientTypeOK
<1>9. inMap' # Nothing => flight'[inMap'] # Nothing
  BY <1>3, <1>4, <1>5 DEF ClientIInv, ClientTypeOK
<1> QED BY <1>3, <1>6, <1>7, <1>8, <1>9 DEF ClientIInv, RepliesFresh

(* A caller leaves its flight, which ends if no map and no caller holds    *)
(* it, and is marked if only the map does.                                 *)
LEMMA LeavingKeeps ==
    ASSUME ClientIInv, NEW c \in Rpc, LeaveFlight(c), UNCHANGED <<ticks, settings, inMap>>
    PROVE  /\ flight' \in [ClientFlight -> FlightState \cup {Nothing}]
           /\ joined' = [joined EXCEPT ![c] = Nothing]
           /\ inMap' # Nothing => flight'[inMap'] # Nothing
           /\ \A g \in ClientFlight : flight'[g] # Nothing => FlightHeld(g)'
           /\ \A d \in Rpc \ {c} : joined[d] # Nothing =>
                 /\ flight'[joined[d]] # Nothing
                 /\ flight'[joined[d]].resolved = flight[joined[d]].resolved
<1>1. joined' = [joined EXCEPT ![c] = Nothing]
  BY DEF LeaveFlight
<1>2. CASE joined[c] = Nothing
  <2>1. flight' = flight
    BY <1>2 DEF LeaveFlight
  <2>2. \A g \in ClientFlight : Waiting(g)' = Waiting(g)
    BY <1>1, <1>2, ClientAssumption DEF Waiting, ClientIInv, ClientTypeOK
  <2> QED BY <1>1, <2>1, <2>2 DEF ClientIInv, ClientTypeOK, FlightHeld, CallHeld, settings
<1>3. CASE joined[c] # Nothing
  <2> PICK f \in ClientFlight : joined[c] = f
    BY <1>3 DEF ClientIInv, ClientTypeOK
  <2>1. flight[f] # Nothing /\ FlightHeld(f) /\ flight[f] \in FlightState
    BY <1>3, FlightParts DEF ClientIInv, CallHeld
  <2>2. \A g \in ClientFlight : Waiting(g)' = IF g = f THEN Waiting(g) \ {c} ELSE Waiting(g)
    BY <1>1, ClientAssumption DEF Waiting, ClientIInv, ClientTypeOK
  <2>3. UNCHANGED <<ticks, coalesce, inMap>>
    BY DEF settings
  <2>4. c \in Waiting(f)
    BY DEF Waiting
  <2>5. CASE Waiting(f) # {c}
    <3>1. flight' = flight /\ Waiting(f)' # {}
      <4>1. flight' = flight
        BY <1>3, <2>5 DEF LeaveFlight
      <4>2. Waiting(f) \ {c} # {}
        BY <2>4, <2>5
      <4> QED BY <2>1, <2>2, <4>1, <4>2
    <3>2. ASSUME NEW g \in ClientFlight, flight'[g] # Nothing
          PROVE  FlightHeld(g)'
      <4>1. FlightHeld(g) /\ flight'[g] = flight[g] /\ (Waiting(g) # {} => Waiting(g)' # {})
        BY <2>2, <3>1, <3>2 DEF ClientIInv
      <4> QED BY <2>3, <4>1 DEF FlightHeld
    <3> QED BY <1>1, <2>3, <3>1, <3>2 DEF ClientIInv, ClientTypeOK, CallHeld
  <2>6. CASE Waiting(f) = {c} /\ inMap # f
    <3>1. flight' = [flight EXCEPT ![f] = Nothing]
      BY <1>3, <2>6 DEF LeaveFlight
    <3>2. \A d \in Rpc \ {c} : joined[d] # f
      BY <2>6 DEF Waiting
    <3>3. \A g \in ClientFlight : flight'[g] # Nothing => g # f /\ flight'[g] = flight[g]
      BY <3>1 DEF ClientIInv, ClientTypeOK
    <3>4. ASSUME NEW g \in ClientFlight, flight'[g] # Nothing
          PROVE  FlightHeld(g)'
      <4>1. FlightHeld(g) /\ flight'[g] = flight[g] /\ Waiting(g)' = Waiting(g)
        BY <2>2, <3>3, <3>4 DEF ClientIInv
      <4> QED BY <2>3, <4>1 DEF FlightHeld
    <3>5. flight' \in [ClientFlight -> FlightState \cup {Nothing}]
      BY <3>1 DEF ClientIInv, ClientTypeOK
    <3>6. inMap' # Nothing => flight'[inMap'] # Nothing
      BY <2>3, <2>6, <3>1 DEF ClientIInv, ClientTypeOK
    <3>7. ASSUME NEW d \in Rpc \ {c}, joined[d] # Nothing
          PROVE  flight'[joined[d]] # Nothing /\ flight'[joined[d]] = flight[joined[d]]
      BY <3>1, <3>2, <3>7 DEF ClientIInv, ClientTypeOK, CallHeld
    <3> QED BY <1>1, <3>4, <3>5, <3>6, <3>7
  <2>7. CASE Waiting(f) = {c} /\ inMap = f
    <3>1. flight' = [flight EXCEPT ![f] = [flight[f] EXCEPT !.left = TRUE]]
      BY <1>3, <2>7 DEF LeaveFlight
    <3>2. /\ flight'[f] \in FlightState /\ flight'[f].left
          /\ flight'[f].result = flight[f].result /\ flight'[f].resolved = flight[f].resolved
          /\ flight[f].resolved = Nothing
          /\ \A g \in ClientFlight \ {f} : flight'[g] = flight[g]
      BY <2>1, <2>7, <3>1 DEF ClientIInv, ClientTypeOK, FlightState, FlightHeld
    <3>3. flight'[f] # Nothing
      BY <3>2, ClientAssumption DEF FlightState, Made
    <3>4. FlightHeld(f)'
      <4>1. coalesce' /\ inMap' = f
        BY <2>1, <2>3, <2>7 DEF FlightHeld
      <4> QED BY <3>2, <4>1 DEF FlightHeld
    <3>5. \A g \in ClientFlight \ {f} : flight'[g] # Nothing => FlightHeld(g)'
      BY <2>2, <2>3, <3>2 DEF FlightHeld, ClientIInv
    <3>6. flight' \in [ClientFlight -> FlightState \cup {Nothing}]
      BY <3>1, <3>2 DEF ClientIInv, ClientTypeOK
    <3>7. ASSUME NEW d \in Rpc \ {c}, joined[d] # Nothing
          PROVE  /\ flight'[joined[d]] # Nothing
                 /\ flight'[joined[d]].resolved = flight[joined[d]].resolved
      <4>1. joined[d] \in ClientFlight /\ flight[joined[d]] # Nothing
        BY <3>7 DEF ClientIInv, ClientTypeOK, CallHeld
      <4> QED BY <3>2, <3>3, <4>1
    <3>8. inMap' # Nothing => flight'[inMap'] # Nothing
      BY <2>3, <2>7, <3>3
    <3> QED BY <1>1, <3>4, <3>5, <3>6, <3>7, <3>8
  <2> QED BY <2>5, <2>6, <2>7
<1> QED BY <1>2, <1>3

LEMMA TakeKeeps == ASSUME ClientIInv, NEW c \in Rpc, TakeResult(c) PROVE ClientIInv'
<1> DEFINE f == joined[c]
           r == flight[f].result
<1>1. /\ place[c] = "wait" /\ flight[f].resolved # Nothing
      /\ result' = [result EXCEPT ![c] = r]
      /\ recent' = IF caching /\ r.ok THEN [result |-> r, until |-> ticks + ClientTTL] ELSE recent
      /\ place' = [place EXCEPT ![c] = "done"]
      /\ UNCHANGED <<ticks, settings, inMap, began>>
  BY DEF TakeResult
<1>2. f \in ClientFlight /\ flight[f] # Nothing /\ began[c] \in Nat /\ CallHeld(c)
  BY <1>1 DEF ClientIInv, ClientTypeOK, CallHeld
<1>3. FlightHeld(f) /\ r \in Made /\ flight[f].resolved \in Nat
  BY <1>1, <1>2, FlightParts DEF FlightHeld
<1>4. /\ r.made \in Nat /\ r.ok \in BOOLEAN /\ ticks \in Nat
      /\ Delay \in Nat /\ ClientTTL \in Nat
  BY <1>3, ClientAssumption DEF Made, ClientIInv, ClientTypeOK
<1>5. /\ ~r.left => ticks <= r.made + Delay + Delay /\ began[c] <= r.made + Delay
      /\ r # Nothing
  BY <1>1, <1>2, <1>3, <1>4 DEF FlightHeld, CallHeld
<1>6. LeaveFlight(c)
  BY DEF TakeResult
<1>7. ClientTypeOK'
  BY <1>1, <1>3, <1>4, <1>6, LeavingKeeps DEF ClientIInv, ClientTypeOK, Places, settings
<1>8. ASSUME NEW d \in Rpc
      PROVE  CallHeld(d)'
  BY <1>1, <1>6, LeavingKeeps DEF CallHeld, ClientIInv, ClientTypeOK
<1>9. recent' # Nothing =>
         /\ recent'.result.ok
         /\ ~recent'.result.left => recent'.until <= recent'.result.made + Delay + Delay + ClientTTL
  BY <1>1, <1>4, <1>5 DEF ClientIInv
<1>10. RepliesFresh'
  <2>1. began[c] <= r.made + Delay => began[c] <= r.made + Delay + IF r.ok THEN Delay + ClientTTL ELSE 0
    BY <1>2, <1>4
  <2> QED BY <1>1, <1>5, <2>1 DEF RepliesFresh, ClientIInv, ClientTypeOK
<1> QED BY <1>1, <1>6, <1>7, <1>8, <1>9, <1>10, LeavingKeeps DEF ClientIInv

LEMMA DropKeeps == ASSUME ClientIInv, NEW c \in Rpc, Drop(c) PROVE ClientIInv'
<1>1. /\ place' = [place EXCEPT ![c] = "idle"] /\ result' = [result EXCEPT ![c] = Nothing]
      /\ began' = [began EXCEPT ![c] = 0] /\ LeaveFlight(c)
      /\ UNCHANGED <<ticks, settings, inMap, recent>>
  BY DEF Drop
<1>2. ClientTypeOK'
  BY <1>1, LeavingKeeps DEF ClientIInv, ClientTypeOK, Places, settings
<1>3. ASSUME NEW d \in Rpc
      PROVE  CallHeld(d)'
  BY <1>1, LeavingKeeps DEF CallHeld, ClientIInv, ClientTypeOK
<1>4. RepliesFresh'
  BY <1>1 DEF RepliesFresh, ClientIInv, ClientTypeOK
<1> QED BY <1>1, <1>2, <1>3, <1>4, LeavingKeeps DEF ClientIInv

LEMMA ClientStepKeeps == ClientIInv /\ [ClientNext]_clientVars => ClientIInv'
<1> SUFFICES ASSUME ClientIInv, [ClientNext]_clientVars PROVE ClientIInv'
  OBVIOUS
<1>1. CASE UNCHANGED clientVars
  <2>1. \A f \in ClientFlight : Waiting(f)' = Waiting(f)
    BY <1>1 DEF Waiting, clientVars
  <2>2. \A f \in ClientFlight : FlightHeld(f) => FlightHeld(f)'
    BY <1>1, <2>1 DEF FlightHeld, clientVars, settings
  <2> QED BY <1>1, <2>2
          DEF clientVars, settings, ClientIInv, ClientTypeOK, CallHeld, RepliesFresh
<1> QED BY <1>1, ClientTickKeeps, LookUpKeeps, JoinKeeps, UpstreamKeeps, ResolveKeeps,
           TakeKeeps, DropKeeps DEF ClientNext

(* The inductive invariant of ClientCall. *)
THEOREM FlightsTimely == ClientSpec => []ClientIInv
BY ClientInitial, ClientStepKeeps, PTL DEF ClientSpec

(* How old an answer of CoalescingClient::call can be, for any number of   *)
(* calls and flights, any TTL and any delay (client.rs:7, coalesce.rs:5).  *)
THEOREM RepliesStayFresh == ClientSpec => []RepliesFresh
BY FlightsTimely, PTL DEF ClientIInv

-----------------------------------------------------------------------------
(* The proxy's request path starts with no flight and no request.          *)
LEMMA HandleInitial == Init => HandleIInv
<1> SUFFICES ASSUME Init PROVE HandleIInv
  OBVIOUS
<1>1. TypeOK
  BY ProxyAssumption DEF Init, TypeOK
<1>2. \A f \in Flight : FlightIInv(f)
  BY DEF Init, FlightIInv, Outputless
<1>3. \A t \in Task : TaskIInv(t)
  BY DEF Init, TaskIInv
<1> QED BY <1>1, <1>2, <1>3 DEF Init, HandleIInv, AnswersBelong

(* A step of one task that leaves the flights alone.                       *)
LEMMA TaskMoves ==
    ASSUME HandleIInv, TypeOK', NEW t \in Task, UNCHANGED flightVars,
           \A u \in Task \ {t} :
              /\ pc'[u] = pc[u] /\ request'[u] = request[u] /\ reply'[u] = reply[u]
              /\ handle'[u] = handle[u] /\ got'[u] = got[u],
           TaskIInv(t)',
           \A k \in Key : cache'[k] # None => cache'[k].out = k,
           reply'[t] # None => reply'[t] \in {request'[t]} \cup (1 .. 16),
           got'[t] # None => got'[t] \in Answers(request'[t])
    PROVE  HandleIInv'
<1>1. \A f \in Flight : FlightIInv(f)'
  BY DEF HandleIInv, FlightIInv, flightVars, MayRetry
<1>2. \A u \in Task : TaskIInv(u)'
  BY DEF HandleIInv, TaskIInv, flightVars
<1>3. AnswersBelong'
  BY DEF HandleIInv, AnswersBelong
<1> QED BY <1>1, <1>2, <1>3 DEF HandleIInv, flightVars

(* A step of a flight that leaves the tasks alone. *)
LEMMA FlightMoves ==
    ASSUME HandleIInv, TypeOK', NEW f \in Flight,
           UNCHANGED <<taskVars, cache, handle, got, retryMax, key>>,
           \A g \in Flight \ {f} :
              phase'[g] = phase[g] /\ answer'[g] = answer[g] /\ attempts'[g] = attempts[g],
           \/ UNCHANGED inFlight /\ phase'[f] \in Outputless
           \/ inFlight' = [inFlight EXCEPT ![key[f]] = None] /\ phase'[f] = "ready",
           phase[f] \in Outputless \ {"panicked"},
           FlightIInv(f)'
    PROVE  HandleIInv'
<1> USE DEF taskVars
<1>1. \A g \in Flight : FlightIInv(g)'
  BY DEF HandleIInv, TypeOK, FlightIInv, MayRetry
<1>2. \A t \in Task : TaskIInv(t)'
  BY DEF HandleIInv, TypeOK, TaskIInv, Outputless
<1>3. AnswersBelong'
  BY DEF HandleIInv, AnswersBelong
<1>4. \A k \in Key : (inFlight[k] # None =>
          key[inFlight[k]] = k /\ phase[inFlight[k]] \in Outputless)'
  BY DEF HandleIInv, TypeOK
<1> QED BY <1>1, <1>2, <1>3, <1>4 DEF HandleIInv

LEMMA DriveKeeps ==
    ASSUME HandleIInv, NEW t \in Task, NEW f \in Flight, Drive(t, f)
    PROVE  HandleIInv'
<1> USE DEF Drive, Goto
<1>1. TypeOK' /\ request[t] \in Key
  BY DEF HandleIInv, TypeOK, TaskIInv, Outputless
<1>2. \A g \in Flight : FlightIInv(g)'
  BY <1>1, ProxyAssumption
     DEF HandleIInv, TypeOK, FlightIInv, MayRetry, Free, Outputless, IsRetryable
<1>3. \A u \in Task : TaskIInv(u)'
  BY <1>1 DEF HandleIInv, TypeOK, TaskIInv, Free, Holders
<1>4. AnswersBelong'
  BY DEF HandleIInv, AnswersBelong
<1>5. \A k \in Key : (inFlight[k] # None =>
          key[inFlight[k]] = k /\ phase[inFlight[k]] \in Outputless)'
  BY <1>1 DEF HandleIInv, TypeOK, Free, Outputless
<1> QED BY <1>1, <1>2, <1>3, <1>4, <1>5 DEF HandleIInv

LEMMA AttemptKeeps ==
    ASSUME HandleIInv, NEW f \in Flight, Attempt(f)
    PROVE  HandleIInv'
<1> USE DEF Attempt
<1>1. TypeOK' /\ FlightIInv(f)'
  BY ProxyAssumption DEF HandleIInv, TypeOK, taskVars, FlightIInv, Outputless
<1> QED BY <1>1, FlightMoves DEF HandleIInv, TypeOK, taskVars, Outputless

(* The loop runs out before its first attempt only if it has none.         *)
LEMMA RetryPanicsKeeps ==
    ASSUME HandleIInv, NEW f \in Flight, RetryPanics(f)
    PROVE  HandleIInv' /\ phase[f] = "created" /\ retryMax = 0
<1> USE DEF RetryPanics
<1>1. phase[f] = "created" /\ attempts[f] = 0 /\ retryMax = 0
  BY DEF HandleIInv, FlightIInv, MayRetry
<1>2. PICK others \in SUBSET Holders(f) :
         /\ others # Holders(f)
         /\ pc' = [t \in Task |-> IF t \in others THEN "asleep" ELSE pc[t]]
  OBVIOUS
<1>3. \A t \in others : t \in Task /\ handle[t] = f
  BY DEF Holders
<1>4. \A t \in Task : pc'[t] = IF t \in others THEN "asleep" ELSE pc[t]
  BY <1>2
<1>5. TypeOK'
  BY <1>2 DEF HandleIInv, TypeOK, Outputless
<1>6. \A g \in Flight : FlightIInv(g)'
  BY <1>1 DEF HandleIInv, TypeOK, FlightIInv, MayRetry, Outputless
<1>7. \A t \in Task : TaskIInv(t)'
  <2> SUFFICES ASSUME NEW t \in Task PROVE TaskIInv(t)'
    OBVIOUS
  <2>1. CASE t \in others
    <3>1. handle[t] = f /\ f # None
      BY <1>3, <2>1, ProxyAssumption
    <3>2. pc[t] = "await" /\ pc'[t] = "asleep" /\ phase'[f] = "panicked"
      BY <1>1, <1>4, <2>1, <3>1 DEF HandleIInv, TypeOK, TaskIInv
    <3> QED BY <3>1, <3>2 DEF HandleIInv, TaskIInv
  <2>2. CASE t \notin others
    BY <1>1, <1>4, <2>2 DEF HandleIInv, TypeOK, TaskIInv
  <2> QED BY <2>1, <2>2
<1>8. AnswersBelong'
  BY DEF HandleIInv, AnswersBelong
<1>9. \A k \in Key : (inFlight[k] # None =>
          key[inFlight[k]] = k /\ phase[inFlight[k]] \in Outputless)'
  BY DEF HandleIInv, TypeOK, Outputless
<1> QED BY <1>1, <1>5, <1>6, <1>7, <1>8, <1>9 DEF HandleIInv

LEMMA HandleAnswerKeeps ==
    ASSUME HandleIInv, NEW f \in Flight, NEW r \in Outcome, Answer(f, r)
    PROVE  HandleIInv'
<1> USE DEF Answer
<1>1. TypeOK' /\ FlightIInv(f)'
  BY DEF HandleIInv, TypeOK, taskVars, FlightIInv, Outputless
<1> QED BY <1>1, FlightMoves DEF HandleIInv, TypeOK, taskVars, Outputless

LEMMA BackoffKeeps ==
    ASSUME HandleIInv, NEW f \in Flight, Backoff(f)
    PROVE  HandleIInv'
<1> USE DEF Backoff
<1>1. TypeOK' /\ FlightIInv(f)'
  BY DEF HandleIInv, TypeOK, taskVars, FlightIInv, Outputless, MayRetry
<1> QED BY <1>1, FlightMoves DEF HandleIInv, TypeOK, taskVars, Outputless

LEMMA LoopReturnKeeps ==
    ASSUME HandleIInv, NEW f \in Flight, Resolve(f)
    PROVE  HandleIInv'
<1> USE DEF Resolve
<1>1. key[f] \in Key /\ retryMax \in Nat
  BY ProxyAssumption DEF HandleIInv, TypeOK, FlightIInv, Outputless
<1>2. breaker' \in {"Closed", "Open", "HalfOpen"}
  BY DEF HandleIInv, TypeOK, Record
<1>3. TypeOK' /\ FlightIInv(f)'
  BY <1>1, <1>2 DEF HandleIInv, TypeOK, taskVars, FlightIInv, Outputless
<1>4. /\ UNCHANGED <<taskVars, cache, handle, got, retryMax, key>>
      /\ inFlight' = [inFlight EXCEPT ![key[f]] = None] /\ phase'[f] = "ready"
      /\ phase[f] \in Outputless \ {"panicked"}
      /\ \A g \in Flight \ {f} :
            phase'[g] = phase[g] /\ answer'[g] = answer[g] /\ attempts'[g] = attempts[g]
  BY DEF HandleIInv, TypeOK, taskVars, Outputless
<1> QED BY <1>3, <1>4, FlightMoves

(* What a flight of the request's own key was answered belongs to it.      *)
LEMMA DeliverKeeps ==
    ASSUME HandleIInv, NEW t \in Task, Deliver(t)
    PROVE  HandleIInv'
<1> USE DEF Deliver, ReplyWith, Goto
<1> DEFINE f == handle[t]
<1>1. /\ f \in Flight /\ pc[t] = "await" /\ request[t] \in Key /\ reply[t] = None
      /\ answer[f] \in Answers(request[t]) /\ answer[f] # None /\ answer[f] \in Outcome
  BY ProxyAssumption DEF HandleIInv, TypeOK, TaskIInv, FlightIInv
<1>2. answer[f] \in {request[t]} \cup (1 .. 16)
  BY <1>1, ProxyAssumption DEF Answers
<1>3. TypeOK' /\ TaskIInv(t)'
  BY <1>1 DEF HandleIInv, TypeOK, flightVars, TaskIInv
<1> QED BY <1>1, <1>2, <1>3, TaskMoves DEF HandleIInv, TypeOK, AnswersBelong

LEMMA LeaveKeeps ==
    ASSUME HandleIInv, NEW t \in Task, Leave(t)
    PROVE  HandleIInv'
<1> USE DEF Leave, Goto
<1>1. TypeOK' /\ TaskIInv(t)'
  BY DEF HandleIInv, TypeOK, flightVars, TaskIInv
<1> QED BY <1>1, TaskMoves DEF HandleIInv, TypeOK, AnswersBelong

(* Only an Ok body, hence the request's own, gets to the cache. *)
LEMMA RecordKeeps ==
    ASSUME HandleIInv, NEW t \in Task, RecordSuccess(t) \/ CheckLen(t) \/ CachePut(t)
    PROVE  HandleIInv'
<1> USE DEF RecordSuccess, CheckLen, CachePut, ReplyWith, Goto
<1>1. /\ request[t] \in Key /\ reply[t] = None /\ handle[t] = None
      /\ got[t] \in Answers(request[t]) /\ got[t] # None /\ got[t] \in Outcome
  BY DEF HandleIInv, TypeOK, TaskIInv, AnswersBelong
<1>2. /\ got[t] \in {request[t]} \cup (1 .. 16)
      /\ got[t] \in Key => got[t] = request[t]
  BY <1>1, ProxyAssumption DEF Answers
<1>3. breaker' \in {"Closed", "Open", "HalfOpen"}
  BY DEF HandleIInv, TypeOK, Record
<1>4. CASE RecordSuccess(t)
  <2>1. TypeOK' /\ TaskIInv(t)'
    BY <1>1, <1>2, <1>3, <1>4 DEF HandleIInv, TypeOK, flightVars, TaskIInv
  <2> QED BY <1>1, <1>2, <1>4, <2>1, TaskMoves DEF HandleIInv, TypeOK, AnswersBelong
<1>5. CASE CheckLen(t)
  <2>1. TypeOK' /\ TaskIInv(t)'
    BY <1>1, <1>2, <1>5 DEF HandleIInv, TypeOK, flightVars, TaskIInv
  <2> QED BY <1>1, <1>2, <1>5, <2>1, TaskMoves DEF HandleIInv, TypeOK, AnswersBelong
<1>6. CASE CachePut(t)
  <2>1. got[t] = request[t]
    BY <1>6 DEF HandleIInv, TaskIInv
  <2>2. TypeOK' /\ TaskIInv(t)'
    BY <1>1, <1>2, <1>6, <2>1 DEF HandleIInv, TypeOK, flightVars, TaskIInv
  <2> QED BY <1>1, <1>2, <1>6, <2>1, <2>2, TaskMoves DEF HandleIInv, TypeOK, AnswersBelong
<1> QED BY <1>4, <1>5, <1>6

(* Before it coalesces a request touches at most the cache entry of its    *)
(* own key, and a hit is that key's own body.                              *)
LEMMA BeforeFlightKeeps ==
    ASSUME HandleIInv, NEW t \in Task,
           \/ BodyFails(t) \/ \E k \in Key : Receive(t, k)
           \/ CacheHit(t) \/ CacheMiss(t) \/ CacheRemove(t)
           \/ BreakerRejects(t) \/ BreakerPasses(t)
    PROVE  HandleIInv'
<1> USE DEF ReplyWith, Goto
<1>1. /\ pc[t] # "idle" => request[t] \in Key
      /\ got[t] = None /\ handle[t] = None /\ reply[t] = None
  BY DEF HandleIInv, TypeOK, TaskIInv, BodyFails, Receive, CacheHit, CacheMiss, CacheRemove,
         BreakerRejects, BreakerPasses
<1>2. {UNKNOWN, UNAVAILABLE} \subseteq 1 .. 16
  BY DEF UNKNOWN, UNAVAILABLE
<1>3. CASE BodyFails(t) \/ BreakerRejects(t)
  <2>1. TypeOK' /\ TaskIInv(t)'
    BY <1>1, <1>2, <1>3, ProxyAssumption
       DEF HandleIInv, TypeOK, flightVars, TaskIInv, BodyFails, BreakerRejects, Outcome
  <2> QED BY <1>1, <1>2, <1>3, <2>1, TaskMoves
             DEF HandleIInv, TypeOK, AnswersBelong, BodyFails, BreakerRejects
<1>4. CASE \E k \in Key : Receive(t, k)
  <2>1. TypeOK' /\ TaskIInv(t)'
    BY <1>1, <1>4, ProxyAssumption DEF HandleIInv, TypeOK, flightVars, TaskIInv, Receive
  <2> QED BY <1>1, <1>4, <2>1, TaskMoves DEF HandleIInv, TypeOK, AnswersBelong, Receive
<1>5. CASE CacheHit(t)
  <2>1. request[t] \in Key /\ cache[request[t]].out = request[t]
    BY <1>1, <1>5 DEF CacheHit, HandleIInv, AnswersBelong
  <2>2. TypeOK' /\ TaskIInv(t)'
    BY <1>1, <1>5, <2>1, ProxyAssumption
       DEF HandleIInv, TypeOK, flightVars, TaskIInv, CacheHit, Outcome
  <2> QED BY <1>1, <1>5, <2>1, <2>2, TaskMoves DEF HandleIInv, TypeOK, AnswersBelong, CacheHit
<1>6. CASE CacheMiss(t) \/ CacheRemove(t) \/ BreakerPasses(t)
  <2>1. TypeOK' /\ TaskIInv(t)'
    BY <1>1, <1>6
       DEF HandleIInv, TypeOK, flightVars, TaskIInv, CacheMiss, CacheRemove, BreakerPasses
  <2> QED BY <1>1, <1>6, <2>1, TaskMoves
             DEF HandleIInv, TypeOK, AnswersBelong, CacheMiss, CacheRemove, BreakerPasses
<1> QED BY <1>3, <1>4, <1>5, <1>6

LEMMA TaskJoinKeeps ==
    ASSUME HandleIInv, NEW t \in Task, Join(t)
    PROVE  HandleIInv'
<1> USE DEF Join, Goto
<1>1. /\ request[t] \in Key /\ inFlight[request[t]] \in Flight
      /\ key[inFlight[request[t]]] = request[t] /\ phase[inFlight[request[t]]] # "idle"
  BY DEF HandleIInv, TypeOK, TaskIInv, Outputless
<1>2. TypeOK' /\ TaskIInv(t)'
  BY <1>1, ProxyAssumption DEF HandleIInv, TypeOK, flightVars, TaskIInv
<1> QED BY <1>1, <1>2, TaskMoves DEF HandleIInv, TypeOK, AnswersBelong

(* The clocks move. *)
LEMMA ClocksKeep ==
    ASSUME HandleIInv, ResetElapses \/ \E k \in Key : Expire(k)
    PROVE  HandleIInv'
<1> USE DEF ResetElapses, Expire
<1>1. TypeOK'
  <2>1. CASE ResetElapses
    BY <2>1 DEF HandleIInv, TypeOK, flightVars, taskVars
  <2>2. ASSUME NEW k \in Key, Expire(k)
        PROVE  TypeOK'
    <3>1. cache[k] \in [out : Key, fresh : BOOLEAN]
      BY <2>2 DEF HandleIInv, TypeOK
    <3>2. cache' \in [Key -> [out : Key, fresh : BOOLEAN] \cup {None}]
      BY <2>2, <3>1 DEF HandleIInv, TypeOK
    <3> QED BY <2>2, <3>2 DEF HandleIInv, TypeOK, flightVars, taskVars
  <2> QED BY <2>1, <2>2
<1>2. AnswersBelong'
  BY DEF HandleIInv, TypeOK, AnswersBelong, taskVars
<1>3. \A f \in Flight : FlightIInv(f)'
  BY DEF HandleIInv, FlightIInv, flightVars, MayRetry
<1>4. \A t \in Task : TaskIInv(t)'
  BY DEF HandleIInv, TaskIInv, flightVars, taskVars
<1> QED BY <1>1, <1>2, <1>3, <1>4 DEF HandleIInv, flightVars

LEMMA HandleStepKeeps == HandleIInv /\ [Next]_vars => HandleIInv'
<1> SUFFICES ASSUME HandleIInv, [Next]_vars PROVE HandleIInv'
  OBVIOUS
<1>1. CASE UNCHANGED vars
  BY <1>1 DEF vars, taskVars, flightVars, HandleIInv, TypeOK, AnswersBelong, FlightIInv,
              TaskIInv, MayRetry
<1>2. ASSUME NEW t \in Task, Proceed(t) \/ Cancel(t)
      PROVE  HandleIInv'
  BY <1>2, BeforeFlightKeeps, DriveKeeps, TaskJoinKeeps, DeliverKeeps, LeaveKeeps, RecordKeeps
     DEF Proceed, Advance, Reply, Crash, Cancel
<1>3. ASSUME NEW f \in Flight, Poll(f)
      PROVE  HandleIInv'
  BY <1>3, AttemptKeeps, RetryPanicsKeeps, BackoffKeeps, LoopReturnKeeps DEF Poll
<1>4. CASE Environment
  BY <1>2, <1>4, BeforeFlightKeeps, HandleAnswerKeeps, ClocksKeep DEF Environment
<1> QED BY <1>1, <1>2, <1>3, <1>4 DEF Next

(* The inductive invariant of the request path. *)
THEOREM RequestsHeld == Spec => []HandleIInv
BY HandleInitial, HandleStepKeeps, PTL DEF Spec

(* No answer crosses from one key to another and no error is cached.       *)
THEOREM AnswersStayHome == Spec => []AnswersBelong
BY RequestsHeld, PTL DEF HandleIInv

(* With at least one attempt no flight is poisoned (retry.rs:14-37).       *)
THEOREM PanicsOnlyAtZero ==
    ASSUME 0 \notin Retries
    PROVE  Spec => []NoRequestPanics
<1>1. HandleIInv => NoRequestPanics
  BY DEF HandleIInv, TypeOK, FlightIInv, NoRequestPanics
<1> QED BY <1>1, RequestsHeld, PTL

-----------------------------------------------------------------------------
(* How the callers see a flight: its loop is one call.                     *)
SeenPhase == [f \in Flight |-> IF phase[f] = "backoff" THEN "sent" ELSE phase[f]]
SeenAnswer == [f \in Flight |-> IF MayRetry(f) THEN None ELSE answer[f]]

LEMMA SeenPhaseMoves ==
    ASSUME NEW f \in Flight, NEW v,
           \A g \in Flight : SeenPhase'[g] = IF g = f THEN v ELSE SeenPhase[g]
    PROVE  SeenPhase' = [SeenPhase EXCEPT ![f] = v]
<1>1. SeenPhase' = [g \in Flight |-> SeenPhase'[g]]
  BY DEF SeenPhase
<1>2. [SeenPhase EXCEPT ![f] = v] = [g \in Flight |-> IF g = f THEN v ELSE SeenPhase[g]]
  BY DEF SeenPhase
<1> QED BY <1>1, <1>2

LEMMA SeenAnswerMoves ==
    ASSUME NEW f \in Flight, NEW v,
           \A g \in Flight : SeenAnswer'[g] = IF g = f THEN v ELSE SeenAnswer[g]
    PROVE  SeenAnswer' = [SeenAnswer EXCEPT ![f] = v]
<1>1. SeenAnswer' = [g \in Flight |-> SeenAnswer'[g]]
  BY DEF SeenAnswer
<1>2. [SeenAnswer EXCEPT ![f] = v] = [g \in Flight |-> IF g = f THEN v ELSE SeenAnswer[g]]
  BY DEF SeenAnswer
<1> QED BY <1>1, <1>2

LEMMA SleepersStay ==
    ASSUME \A t \in Task : pc'[t] = "asleep" <=> pc[t] = "asleep"
    PROVE  UNCHANGED Sleepers
BY DEF Sleepers

LEMMA SeenSame ==
    ASSUME \A g \in Flight : SeenPhase'[g] = SeenPhase[g] /\ SeenAnswer'[g] = SeenAnswer[g],
           UNCHANGED <<inFlight, key, handle, got, Sleepers>>
    PROVE  UNCHANGED Coalescing!vars
BY DEF Coalescing!vars, SeenPhase, SeenAnswer

LEMMA HandleInitRefines == Init => Coalescing!Init
BY ProxyAssumption
   DEF Init, Coalescing!Init, Sleepers, MayRetry, IsRetryable, UNAVAILABLE, DEADLINE_EXCEEDED

LEMMA NoneNotRetryable == ~IsRetryable(None)
BY ProxyAssumption DEF IsRetryable, UNAVAILABLE, DEADLINE_EXCEEDED

(* Registering a flight, or joining the one registered.                    *)
LEMMA CallRefines ==
    ASSUME HandleIInv, NEW t \in Task, Join(t) \/ \E f \in Flight : Drive(t, f)
    PROVE  \E k \in Key : Coalescing!Join(t, k) \/ \E f \in Flight : Coalescing!Drive(t, k, f)
<1>1. /\ request[t] \in Key /\ handle[t] = None /\ got[t] = None
  BY DEF HandleIInv, TypeOK, TaskIInv, Join, Drive
<1>2. CASE Join(t)
  <2>1. \A g \in Flight : SeenPhase'[g] = SeenPhase[g] /\ SeenAnswer'[g] = SeenAnswer[g]
    BY <1>2 DEF Join, flightVars, SeenPhase, SeenAnswer, MayRetry
  <2>2. UNCHANGED <<SeenPhase, SeenAnswer>>
    BY <2>1 DEF SeenPhase, SeenAnswer
  <2>3. UNCHANGED Sleepers
    BY <1>2, SleepersStay DEF Join, Goto, HandleIInv, TypeOK
  <2>4. Coalescing!Join(t, request[t])
    BY <1>1, <1>2, <2>2, <2>3 DEF Join, flightVars, Coalescing!Join, Coalescing!CanCall, SeenPhase, SeenAnswer
  <2> QED BY <1>1, <2>4
<1>3. ASSUME NEW f \in Flight, Drive(t, f)
      PROVE  Coalescing!Drive(t, request[t], f)
  <2>1. \A g \in Flight :
           /\ SeenPhase'[g] = IF g = f THEN "created" ELSE SeenPhase[g]
           /\ SeenAnswer'[g] = IF g = f THEN None ELSE SeenAnswer[g]
    BY <1>3, NoneNotRetryable DEF Drive, SeenPhase, SeenAnswer, MayRetry, HandleIInv, TypeOK
  <2>2. /\ SeenPhase' = [SeenPhase EXCEPT ![f] = "created"]
        /\ SeenAnswer' = [SeenAnswer EXCEPT ![f] = None]
    BY <2>1, SeenPhaseMoves, SeenAnswerMoves
  <2>3. UNCHANGED Sleepers
    BY <1>3, SleepersStay DEF Drive, Goto, HandleIInv, TypeOK
  <2> QED BY <1>1, <1>3, <2>2, <2>3
          DEF Drive, Free, Holders, Coalescing!Drive, Coalescing!CanCall, Coalescing!Free,
              Coalescing!Holders, Coalescing!Registered, SeenPhase, SeenAnswer
<1> QED BY <1>1, <1>2, <1>3

(* The first attempt starts the call; a later one is inside it.            *)
LEMMA AttemptRefines ==
    ASSUME HandleIInv, NEW f \in Flight, Attempt(f)
    PROVE  Coalescing!Start(f) \/ UNCHANGED Coalescing!vars
<1> USE DEF Attempt
<1>1. \A g \in Flight :
         /\ SeenPhase'[g] = IF g = f THEN "sent" ELSE SeenPhase[g]
         /\ SeenAnswer'[g] = IF g = f THEN None ELSE SeenAnswer[g]
  BY NoneNotRetryable DEF SeenPhase, SeenAnswer, MayRetry, HandleIInv, TypeOK
<1>2. SeenAnswer[f] = None
  BY DEF SeenAnswer, HandleIInv, FlightIInv
<1>3. UNCHANGED SeenAnswer
  BY <1>1, <1>2 DEF SeenAnswer
<1>4. CASE phase[f] = "created"
  <2>1. SeenPhase' = [SeenPhase EXCEPT ![f] = "sent"] /\ SeenPhase[f] = "created"
    BY <1>1, <1>4, SeenPhaseMoves DEF SeenPhase
  <2>2. Coalescing!Start(f)
    BY <1>3, <2>1 DEF Coalescing!Start, Coalescing!Holders, taskVars, Sleepers, Holders, SeenPhase, SeenAnswer
  <2> QED BY <2>2
<1>5. CASE phase[f] = "backoff"
  BY <1>1, <1>2, <1>5, SeenSame DEF SeenPhase, taskVars, Sleepers
<1> QED BY <1>4, <1>5

LEMMA RetryPanicsRefines ==
    ASSUME HandleIInv, NEW f \in Flight, RetryPanics(f)
    PROVE  Coalescing!Panic(f)
<1> USE DEF RetryPanics
<1>1. phase[f] = "created" /\ 0 \in Retries /\ answer[f] = None
  BY RetryPanicsKeeps DEF HandleIInv, TypeOK, FlightIInv
<1>2. \A g \in Flight :
         /\ SeenPhase'[g] = IF g = f THEN "panicked" ELSE SeenPhase[g]
         /\ SeenAnswer'[g] = SeenAnswer[g]
  BY <1>1 DEF SeenPhase, SeenAnswer, MayRetry, HandleIInv, TypeOK
<1>3. /\ SeenPhase' = [SeenPhase EXCEPT ![f] = "panicked"] /\ SeenPhase[f] = "created"
      /\ UNCHANGED SeenAnswer
  BY <1>1, <1>2, SeenPhaseMoves DEF SeenPhase, SeenAnswer
<1>4. PICK others \in SUBSET Holders(f) :
         /\ others # Holders(f)
         /\ pc' = [t \in Task |-> IF t \in others THEN "asleep" ELSE pc[t]]
  OBVIOUS
<1>5. Sleepers' = Sleepers \cup others
  BY <1>4 DEF Sleepers, Holders
<1>6. others \in SUBSET Coalescing!Holders(f) /\ others # Coalescing!Holders(f)
  BY <1>4 DEF Holders, Coalescing!Holders
<1> QED BY <1>1, <1>3, <1>5, <1>6
        DEF Coalescing!Panic, Coalescing!Unresolved, SeenPhase, SeenAnswer

(* The answer the loop goes on from is not seen; the one it returns is.    *)
LEMMA AnswerRefines ==
    ASSUME HandleIInv, NEW f \in Flight, NEW r \in Outcome, Answer(f, r)
    PROVE  Coalescing!Answer(f, r) \/ UNCHANGED Coalescing!vars
<1> USE DEF Answer
<1>1. \A g \in Flight : SeenPhase'[g] = SeenPhase[g]
  BY DEF SeenPhase
<1>2. \A g \in Flight : SeenAnswer'[g] = IF g = f THEN IF MayRetry(f)' THEN None ELSE r
                                         ELSE SeenAnswer[g]
  BY DEF SeenAnswer, MayRetry, HandleIInv, TypeOK
<1>3. SeenAnswer[f] = None /\ SeenPhase[f] = "sent"
  BY DEF SeenAnswer, SeenPhase
<1>4. CASE MayRetry(f)'
  BY <1>1, <1>2, <1>3, <1>4, SeenSame DEF taskVars, Sleepers
<1>5. CASE ~MayRetry(f)'
  <2>1. SeenAnswer' = [SeenAnswer EXCEPT ![f] = r]
    BY <1>2, <1>5, SeenAnswerMoves
  <2>2. UNCHANGED SeenPhase
    BY <1>1 DEF SeenPhase
  <2> QED BY <1>3, <2>1, <2>2 DEF Coalescing!Answer, taskVars, Sleepers, SeenAnswer, SeenPhase
<1> QED BY <1>4, <1>5

LEMMA BackoffRefines ==
    ASSUME HandleIInv, NEW f \in Flight, Backoff(f)
    PROVE  UNCHANGED Coalescing!vars
<1> USE DEF Backoff
<1>1. \A g \in Flight : SeenPhase'[g] = SeenPhase[g] /\ SeenAnswer'[g] = SeenAnswer[g]
  BY DEF SeenPhase, SeenAnswer, MayRetry, HandleIInv, TypeOK
<1> QED BY <1>1, SeenSame DEF taskVars, Sleepers

LEMMA ResolveRefines ==
    ASSUME HandleIInv, NEW f \in Flight, Resolve(f)
    PROVE  Coalescing!Resolve(f)
<1> USE DEF Resolve
<1>1. \A g \in Flight :
         /\ SeenPhase'[g] = IF g = f THEN "ready" ELSE SeenPhase[g]
         /\ SeenAnswer'[g] = SeenAnswer[g]
  BY DEF SeenPhase, SeenAnswer, MayRetry, HandleIInv, TypeOK
<1>2. SeenAnswer[f] # None /\ SeenPhase[f] = "sent"
  BY DEF SeenAnswer, SeenPhase
<1>3. SeenPhase' = [SeenPhase EXCEPT ![f] = "ready"] /\ UNCHANGED SeenAnswer
  BY <1>1, SeenPhaseMoves DEF SeenAnswer
<1> QED BY <1>2, <1>3 DEF Coalescing!Resolve, Coalescing!Holders, Holders, taskVars, Sleepers,
                          SeenAnswer, SeenPhase

(* A task takes the answer, uses it up, or goes away.                      *)
LEMMA CallerRefines ==
    ASSUME HandleIInv, NEW t \in Task,
           Deliver(t) \/ Reply(t) \/ Cancel(t) \/ Crash(t)
    PROVE  \/ Coalescing!Deliver(t) \/ Coalescing!Cancel(t) \/ Coalescing!Finish(t)
           \/ UNCHANGED Coalescing!vars
<1>1. \A g \in Flight : SeenPhase'[g] = SeenPhase[g] /\ SeenAnswer'[g] = SeenAnswer[g]
  BY DEF Deliver, Reply, Cancel, Crash, Leave, flightVars, SeenPhase, SeenAnswer, MayRetry
<1>2. UNCHANGED <<SeenPhase, SeenAnswer>>
  BY <1>1 DEF SeenPhase, SeenAnswer
<1>3. CASE Deliver(t)
  <2>1. handle[t] \in Flight /\ SeenPhase[handle[t]] = "ready"
        /\ SeenAnswer[handle[t]] = answer[handle[t]]
    BY <1>3 DEF Deliver, HandleIInv, TypeOK, SeenPhase, SeenAnswer, MayRetry
  <2>2. UNCHANGED Sleepers
    <3>1. pc[t] = "await"
      BY <1>3 DEF Deliver, HandleIInv, TypeOK, TaskIInv
    <3> QED BY <1>3, <3>1, SleepersStay DEF Deliver, Goto, ReplyWith, HandleIInv, TypeOK
  <2>3. Coalescing!Deliver(t)
    BY <1>2, <1>3, <2>1, <2>2 DEF Deliver, flightVars, Coalescing!Deliver, SeenPhase, SeenAnswer
  <2> QED BY <2>3
<1>4. CASE Cancel(t) \/ Crash(t)
  <2>1. handle[t] # None /\ got[t] = None
    BY <1>4 DEF Cancel, Crash, HandleIInv, TaskIInv
  <2>2. UNCHANGED got
    BY <1>4, <2>1 DEF Cancel, Crash, Leave, HandleIInv, TypeOK
  <2>3. Sleepers' = Sleepers \ {t}
    BY <1>4 DEF Cancel, Crash, Leave, Goto, Sleepers, HandleIInv, TypeOK
  <2>4. Coalescing!Cancel(t)
    BY <1>2, <1>4, <2>1, <2>2, <2>3 DEF Cancel, Crash, Leave, flightVars, Coalescing!Cancel,
       Coalescing!ReleaseHandle, SeenPhase, SeenAnswer
  <2> QED BY <2>4
<1>5. CASE Reply(t)
  <2>1. handle[t] = None
    BY <1>5 DEF Reply, HandleIInv, TaskIInv
  <2>2. UNCHANGED handle
    BY <1>5, <2>1 DEF Reply, Leave, HandleIInv, TypeOK
  <2>3. UNCHANGED Sleepers
    BY <1>5, SleepersStay DEF Reply, Leave, Goto, HandleIInv, TypeOK
  <2>4. CASE got[t] # None
    <3>1. Coalescing!Finish(t)
      BY <1>2, <1>5, <2>2, <2>3, <2>4
         DEF Reply, Leave, flightVars, Coalescing!Finish, SeenPhase, SeenAnswer
    <3> QED BY <3>1
  <2>5. CASE got[t] = None
    <3>1. UNCHANGED got
      BY <1>5, <2>5 DEF Reply, Leave, HandleIInv, TypeOK
    <3> QED BY <1>1, <1>5, <2>2, <2>3, <3>1, SeenSame DEF Reply, Leave, flightVars
  <2> QED BY <2>4, <2>5
<1> QED BY <1>3, <1>4, <1>5

(* The cache, the breaker and the clocks are the proxy's own.              *)
LEMMA ElsewhereStutters ==
    ASSUME UNCHANGED <<flightVars, handle, got, Sleepers>>
    PROVE  UNCHANGED Coalescing!vars
<1>1. \A g \in Flight : SeenPhase'[g] = SeenPhase[g] /\ SeenAnswer'[g] = SeenAnswer[g]
  BY DEF flightVars, SeenPhase, SeenAnswer, MayRetry
<1> QED BY <1>1, SeenSame DEF flightVars

LEMMA HandleStepRefines == HandleIInv /\ [Next]_vars => [Coalescing!Next]_(Coalescing!vars)
<1> SUFFICES ASSUME HandleIInv, [Next]_vars PROVE [Coalescing!Next]_(Coalescing!vars)
  OBVIOUS
<1>1. CASE UNCHANGED vars
  BY <1>1, ElsewhereStutters DEF vars, taskVars, Sleepers
<1>2. ASSUME NEW t \in Task, Join(t) \/ \E f \in Flight : Drive(t, f)
      PROVE  Coalescing!Next
  BY <1>2, CallRefines DEF Coalescing!Next, Coalescing!Run
<1>3. ASSUME NEW t \in Task, Deliver(t) \/ Reply(t) \/ Cancel(t) \/ Crash(t)
      PROVE  [Coalescing!Next]_(Coalescing!vars)
  BY <1>3, CallerRefines DEF Coalescing!Next
<1>4. ASSUME NEW t \in Task,
             \/ BodyFails(t) \/ \E k \in Key : Receive(t, k)
             \/ CacheHit(t) \/ CacheMiss(t) \/ CacheRemove(t)
             \/ BreakerRejects(t) \/ BreakerPasses(t)
             \/ RecordSuccess(t) \/ CheckLen(t) \/ CachePut(t)
      PROVE  UNCHANGED Coalescing!vars
  <2>1. UNCHANGED <<flightVars, handle, got>>
    BY <1>4 DEF BodyFails, Receive, CacheHit, CacheMiss, CacheRemove, BreakerRejects,
                BreakerPasses, RecordSuccess, CheckLen, CachePut
  <2>2. pc[t] # "asleep" /\ pc'[t] # "asleep" /\ \A u \in Task \ {t} : pc'[u] = pc[u]
    BY <1>4 DEF BodyFails, Receive, CacheHit, CacheMiss, CacheRemove, BreakerRejects,
                BreakerPasses, RecordSuccess, CheckLen, CachePut, Goto, ReplyWith,
                HandleIInv, TypeOK
  <2>3. UNCHANGED Sleepers
    BY <2>2, SleepersStay
  <2> QED BY <2>1, <2>3, ElsewhereStutters
<1>5. ASSUME NEW f \in Flight, Poll(f)
      PROVE  [Coalescing!Next]_(Coalescing!vars)
  BY <1>5, AttemptRefines, RetryPanicsRefines, BackoffRefines, ResolveRefines
     DEF Poll, Coalescing!Next, Coalescing!Poll
<1>6. ASSUME NEW f \in Flight, NEW r \in Outcome, Answer(f, r)
      PROVE  [Coalescing!Next]_(Coalescing!vars)
  BY <1>6, AnswerRefines DEF Coalescing!Next
<1>7. CASE ResetElapses \/ \E k \in Key : Expire(k)
  BY <1>7, ElsewhereStutters DEF ResetElapses, Expire, taskVars, Sleepers
<1> QED BY <1>1, <1>2, <1>3, <1>4, <1>5, <1>6, <1>7 DEF Next, Proceed, Advance, Environment

(* The flights of the proxy are those of Singleflight, for any number of   *)
(* tasks, keys and retries.                                                *)
THEOREM HandleImplements == Spec => ImplementsSingleflight
BY HandleInitRefines, HandleStepRefines, RequestsHeld, PTL
   DEF Spec, ImplementsSingleflight, Coalescing!Spec
=============================================================================
