----------------------------- MODULE TokenMinter -----------------------------
(***************************************************************************)
(* HttpServiceTokenMinter of tonin-sdk: one cached service token shared by *)
(* the jobs that call mint().  A token whose cached expiry is more than    *)
(* the margin away is handed out again; otherwise the caller has a new one *)
(* minted and puts it in the cache.  Callers do not wait for each other,   *)
(* so several may mint at once and the last answer stays.                  *)
(***************************************************************************)
EXTENDS Naturals

CONSTANTS MintCaller,          \* callers of mint()
          Lifetime,     \* what expires_in of an answer may be
          Unhinted,     \* an answer without expires_in
          DefaultLife,  \* taken for it then, 3600 s in the code
          Margin,       \* 60 s in the code
          MintTimeout,  \* the timeout of reqwest, 5 s in the code
          NoCtx,
          LastMint      \* bound on the clock

ASSUME MinterAssumption ==
    /\ Lifetime \subseteq Nat /\ Unhinted \notin Nat
    /\ {DefaultLife, Margin, MintTimeout, LastMint} \subseteq Nat
    /\ MintTimeout <= Margin
    /\ NoCtx \notin [expiresAt : Nat, issuedAt : Nat, hint : Lifetime \cup {Unhinted}]

VARIABLES mintClock,  \* SystemTime, which is not set back here
          cachedCtx,  \* cached
          minting,    \* minting[j]: where job j is
          asked,      \* asked[j]: when it called mint
          ctx,        \* ctx[j]: the token it is given
          fromCache   \* fromCache[j]: it is the cached one

minterVars == <<mintClock, cachedCtx, minting, asked, ctx, fromCache>>

(* An AuthCtx with the auth service's side of it: when it issued the token *)
(* and what it said of the token's life.                                   *)
Ctx == [expiresAt : Nat, issuedAt : Nat, hint : Lifetime \cup {Unhinted}]

MinterTypeOK ==
    /\ mintClock \in Nat
    /\ cachedCtx \in Ctx \cup {NoCtx}
    /\ minting \in [MintCaller -> {"idle", "sent", "issued", "given"}]
    /\ asked \in [MintCaller -> Nat]
    /\ ctx \in [MintCaller -> Ctx \cup {NoCtx}]
    /\ fromCache \in [MintCaller -> BOOLEAN]

MinterInit ==
    /\ mintClock = 0
    /\ cachedCtx = NoCtx
    /\ minting = [j \in MintCaller |-> "idle"]
    /\ asked = [j \in MintCaller |-> 0]
    /\ ctx = [j \in MintCaller |-> NoCtx]
    /\ fromCache = [j \in MintCaller |-> FALSE]

MintTick ==
    /\ mintClock < LastMint
    /\ mintClock' = mintClock + 1
    /\ UNCHANGED <<cachedCtx, minting, asked, ctx, fromCache>>

-----------------------------------------------------------------------------
(* Mutant: a token is handed out as long as its cached expiry lies ahead.  *)
MutantUsable == cachedCtx # NoCtx /\ cachedCtx.expiresAt > mintClock

Usable == cachedCtx # NoCtx /\ cachedCtx.expiresAt > mintClock + Margin

(* The cached token is good enough. *)
MintFromCache(j) ==
    /\ minting[j] = "idle"
    /\ Usable
    /\ minting' = [minting EXCEPT ![j] = "given"]
    /\ asked' = [asked EXCEPT ![j] = mintClock]
    /\ ctx' = [ctx EXCEPT ![j] = cachedCtx]
    /\ fromCache' = [fromCache EXCEPT ![j] = TRUE]
    /\ UNCHANGED <<mintClock, cachedCtx>>

(* It is not, and the POST is sent. *)
MintRequest(j) ==
    /\ minting[j] = "idle"
    /\ ~Usable
    /\ minting' = [minting EXCEPT ![j] = "sent"]
    /\ asked' = [asked EXCEPT ![j] = mintClock]
    /\ UNCHANGED <<mintClock, cachedCtx, ctx, fromCache>>

(* The auth service issues a token; expiresAt is not yet known.            *)
IssueToken(j, hint) ==
    /\ minting[j] = "sent"
    /\ minting' = [minting EXCEPT ![j] = "issued"]
    /\ ctx' = [ctx EXCEPT ![j] = [expiresAt |-> 0, issuedAt |-> mintClock, hint |-> hint]]
    /\ UNCHANGED <<mintClock, cachedCtx, asked, fromCache>>

(* The answer arrives in time: the expiry is reckoned from the arrival,    *)
(* and the token replaces whatever has been cached meanwhile.              *)
MintResponse(j) ==
    /\ minting[j] = "issued" /\ mintClock <= asked[j] + MintTimeout
    /\ LET c == ctx[j]
           life == IF c.hint = Unhinted THEN DefaultLife ELSE c.hint
           new == [c EXCEPT !.expiresAt = mintClock + life]
       IN  ctx' = [ctx EXCEPT ![j] = new] /\ cachedCtx' = new
    /\ minting' = [minting EXCEPT ![j] = "given"]
    /\ UNCHANGED <<mintClock, asked, fromCache>>

(* mint() returns an error, or the job is done with its token.             *)
MintFailsOrEnds(j) ==
    /\ minting[j] # "idle"
    /\ minting' = [minting EXCEPT ![j] = "idle"]
    /\ asked' = [asked EXCEPT ![j] = 0]
    /\ ctx' = [ctx EXCEPT ![j] = NoCtx]
    /\ fromCache' = [fromCache EXCEPT ![j] = FALSE]
    /\ UNCHANGED <<mintClock, cachedCtx>>

MinterNext ==
    \/ MintTick
    \/ \E j \in MintCaller :
          \/ MintFromCache(j) \/ MintRequest(j)
          \/ \E hint \in Lifetime \cup {Unhinted} : IssueToken(j, hint)
          \/ MintResponse(j) \/ MintFailsOrEnds(j)

MinterSpec == MinterInit /\ [][MinterNext]_minterVars

-----------------------------------------------------------------------------
(* "Return cached if still valid" (auth/default.rs:476): a token handed out *)
(* again has not expired at the auth service, which issued it up to a      *)
(* timeout before the minter reckoned its expiry - if the answer gave one. *)
ReusedTokenAlive ==
    \A j \in MintCaller : fromCache[j] /\ ctx[j].hint # Unhinted =>
        asked[j] < ctx[j].issuedAt + ctx[j].hint

(* The inductive invariant: an expiry is reckoned at most a timeout after  *)
(* the token was issued.                                                   *)
Reckoned(c) == c.hint # Unhinted => c.expiresAt <= c.issuedAt + c.hint + MintTimeout

MinterIInv ==
    /\ MinterTypeOK
    /\ cachedCtx # NoCtx => Reckoned(cachedCtx)
    /\ \A j \in MintCaller :
         /\ asked[j] <= mintClock
         /\ minting[j] = "issued" => ctx[j] # NoCtx /\ asked[j] <= ctx[j].issuedAt
         /\ fromCache[j] => minting[j] = "given" /\ ctx[j] # NoCtx
    /\ ReusedTokenAlive
=============================================================================
