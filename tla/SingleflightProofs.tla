------------------------- MODULE SingleflightProofs -------------------------
(***************************************************************************)
(* Singleflight's invariant, and that it implements CoalescedCall, for any *)
(* number of callers, keys, results and flights.                           *)
(***************************************************************************)
EXTENDS Singleflight, TLAPS

(* Init establishes the inductive invariant. *)
LEMMA InitInv == Init => IInv
BY SingleflightAssumption
   DEF Init, IInv, TypeOK, EntryIsOwnFlight, Phases, Outputless, Unresolved

(* Every step of run, of a poll, of the upstream keeps the invariant. *)
LEMMA StepInv == IInv /\ [Next]_vars => IInv'
<1> SUFFICES ASSUME IInv, [Next]_vars PROVE IInv'
    OBVIOUS
<1> USE SingleflightAssumption DEF IInv, TypeOK, EntryIsOwnFlight, Phases, Outputless, Unresolved
<1>1. ASSUME NEW c \in Caller, NEW k \in Key, NEW f \in Flight, Drive(c, k, f)
      PROVE  IInv'
  BY <1>1 DEF Drive, CanCall, Free, Registered, Holders
<1>2. ASSUME NEW c \in Caller, NEW k \in Key, Join(c, k)
      PROVE  IInv'
  BY <1>2 DEF Join, CanCall
<1>3. ASSUME NEW f \in Flight, Start(f)
      PROVE  IInv'
  BY <1>3 DEF Start
<1>4. ASSUME NEW f \in Flight, NEW r \in Result, Answer(f, r)
      PROVE  IInv'
  BY <1>4 DEF Answer
<1>5. ASSUME NEW f \in Flight, Resolve(f)
      PROVE  IInv'
  BY <1>5 DEF Resolve
<1>6. ASSUME NEW f \in Flight, Panic(f)
      PROVE  IInv'
  <2>1. PICK others \in SUBSET Holders(f) :
           others # Holders(f) /\ asleep' = asleep \cup others
    BY <1>6 DEF Panic
  <2>2. \A c \in others : c \in Caller /\ handle[c] = f
    BY DEF Holders
  <2>3. /\ f \in Flight /\ phase[f] \in Unresolved
        /\ phase' = [phase EXCEPT ![f] = "panicked"]
        /\ UNCHANGED <<inFlight, key, answer, handle, returned>>
    BY <1>6 DEF Panic
  <2>4. TypeOK'
    BY <2>1, <2>2, <2>3
  <2>5. EntryIsOwnFlight'
    BY <2>1, <2>2, <2>3
  <2> QED
    BY <2>4, <2>5
<1>7. ASSUME NEW c \in Caller, Deliver(c)
      PROVE  IInv'
  BY <1>7 DEF Deliver
<1>8. ASSUME NEW c \in Caller, Cancel(c) \/ Crash(c)
      PROVE  IInv'
  BY <1>8 DEF Cancel, Crash, ReleaseHandle
<1>9. ASSUME NEW c \in Caller, Finish(c)
      PROVE  IInv'
  BY <1>9 DEF Finish
<1>10. CASE UNCHANGED vars
  BY <1>10 DEF vars
<1> QED
  BY <1>1, <1>2, <1>3, <1>4, <1>5, <1>6, <1>7, <1>8, <1>9, <1>10
     DEF Next, Run, Poll

(* Every reachable state satisfies the inductive invariant. *)
THEOREM Invariance == Spec => []IInv
BY InitInv, StepInv, PTL DEF Spec

(* Every variable keeps its type. *)
THEOREM TypeCorrect == Spec => []TypeOK
BY Invariance, PTL DEF IInv

(* The entry a flight removes by key is always its own, and a registered   *)
(* flight holds no output.                                                 *)
THEOREM EntriesSafe == Spec => []EntryIsOwnFlight
BY Invariance, PTL DEF IInv

(* Concurrent calls with one key share a single upstream call. *)
THEOREM OneCallPerKey == Spec => []OneUpstreamCallPerKey
<1>1. IInv => OneUpstreamCallPerKey
  BY DEF IInv, EntryIsOwnFlight, OneUpstreamCallPerKey, Outputless, Unresolved
<1> QED
  BY <1>1, Invariance, PTL

-----------------------------------------------------------------------------
(* The abstract view, caller by caller, determines the abstract variables. *)
LEMMA PendingView ==
    ASSUME NEW c \in Caller, NEW v,
           \A d \in Caller : AbsPending'[d] = IF d = c THEN v ELSE AbsPending[d]
    PROVE  AbsPending' = [AbsPending EXCEPT ![c] = v]
<1>1. AbsPending' = [d \in Caller |-> AbsPending'[d]]
  BY DEF AbsPending
<1>2. [AbsPending EXCEPT ![c] = v]
         = [d \in Caller |-> IF d = c THEN v ELSE AbsPending[d]]
  BY DEF AbsPending
<1> QED
  BY <1>1, <1>2

LEMMA OutcomeView ==
    ASSUME NEW c \in Caller, NEW v,
           \A d \in Caller : AbsOutcome'[d] = IF d = c THEN v ELSE AbsOutcome[d]
    PROVE  AbsOutcome' = [AbsOutcome EXCEPT ![c] = v]
<1>1. AbsOutcome' = [d \in Caller |-> AbsOutcome'[d]]
  BY DEF AbsOutcome
<1>2. [AbsOutcome EXCEPT ![c] = v]
         = [d \in Caller |-> IF d = c THEN v ELSE AbsOutcome[d]]
  BY DEF AbsOutcome
<1> QED
  BY <1>1, <1>2

(* Nobody waits in the initial state. *)
LEMMA InitRefines == Init => Abstract!Init
BY DEF Init, Abstract!Init, Resolved, AbsPending, AbsOutcome

(* Driving and joining both begin an abstract call: what is registered     *)
(* under a key was created for it, and a free flight has no holder whose   *)
(* view its reuse could change.                                            *)
LEMMA RunRefines ==
    ASSUME IInv, NEW c \in Caller, NEW k \in Key,
           Join(c, k) \/ \E f \in Flight : Drive(c, k, f)
    PROVE  Abstract!Call(c, k)
<1> USE SingleflightAssumption
    DEF IInv, TypeOK, EntryIsOwnFlight, Phases, Outputless, Unresolved
<1> DEFINE Post == /\ \A d \in Caller :
                         AbsPending'[d] = IF d = c THEN k ELSE AbsPending[d]
                   /\ AbsOutcome' = AbsOutcome
                   /\ AbsPending[c] = None /\ AbsOutcome[c] = None
<1>1. CASE Join(c, k)
  <2>1. Post
    BY <1>1 DEF Join, CanCall, AbsPending, AbsOutcome, Resolved
  <2> QED
    BY <2>1, PendingView DEF Abstract!Call, Abstract!Idle
<1>2. ASSUME NEW f \in Flight, Drive(c, k, f) PROVE Abstract!Call(c, k)
  <2>1. Post
    BY <1>2 DEF Drive, CanCall, Free, Holders, AbsPending, AbsOutcome, Resolved
  <2> QED
    BY <2>1, PendingView DEF Abstract!Call, Abstract!Idle
<1> QED
  BY <1>1, <1>2

(* The step that resolves a flight completes every call pending on its     *)
(* key: they all await the one flight registered there.                    *)
LEMMA ResolveRefines ==
    ASSUME IInv, NEW f \in Flight, Resolve(f)
    PROVE  Abstract!Complete(key[f], answer[f])
<1> USE SingleflightAssumption
    DEF IInv, TypeOK, EntryIsOwnFlight, Phases, Outputless, Unresolved
<1> DEFINE sharers == {c \in Caller : AbsPending[c] = key[f]}
<1>1. sharers = Holders(f)
  BY DEF Resolve, Holders, AbsPending, Resolved
<1>2. sharers # {}
  BY <1>1 DEF Resolve
<1>3. AbsPending' = [c \in Caller |-> IF c \in sharers THEN None ELSE AbsPending[c]]
  BY <1>1 DEF Resolve, Holders, AbsPending, Resolved
<1>4. AbsOutcome' = [c \in Caller |-> IF c \in sharers THEN answer[f] ELSE AbsOutcome[c]]
  BY <1>1 DEF Resolve, Holders, AbsOutcome, Resolved
<1> QED
  BY <1>2, <1>3, <1>4 DEF Abstract!Complete

(* A step inside a flight moves nobody: an unresolved flight shows only    *)
(* its key.                                                                *)
LEMMA FlightStutters ==
    ASSUME IInv, NEW f \in Flight,
           Start(f) \/ Panic(f) \/ \E r \in Result : Answer(f, r)
    PROVE  UNCHANGED Abstract!vars
<1> USE SingleflightAssumption
    DEF IInv, TypeOK, EntryIsOwnFlight, Phases, Outputless, Unresolved
<1>1. AbsPending' = AbsPending /\ AbsOutcome' = AbsOutcome
  BY DEF Start, Panic, Answer, AbsPending, AbsOutcome, Resolved
<1> QED
  BY <1>1 DEF Abstract!vars

(* A handle that polls ready was answered when its flight resolved. *)
LEMMA DeliverStutters ==
    ASSUME IInv, NEW c \in Caller, Deliver(c)
    PROVE  UNCHANGED Abstract!vars
<1> USE SingleflightAssumption
    DEF IInv, TypeOK, EntryIsOwnFlight, Phases, Outputless, Unresolved
<1>1. AbsPending' = AbsPending /\ AbsOutcome' = AbsOutcome
  BY DEF Deliver, AbsPending, AbsOutcome, Resolved
<1> QED
  BY <1>1 DEF Abstract!vars

(* A dropped or crashed caller abandons its abstract call. *)
LEMMA ReleaseRefines ==
    ASSUME IInv, NEW c \in Caller, Cancel(c) \/ Crash(c)
    PROVE  Abstract!Abandon(c)
<1> USE SingleflightAssumption
    DEF IInv, TypeOK, EntryIsOwnFlight, Phases, Outputless, Unresolved
<1>1. AbsPending[c] # None \/ AbsOutcome[c] # None
  BY DEF Cancel, Crash, AbsPending, AbsOutcome, Resolved
<1>2. \A d \in Caller :
         /\ AbsPending'[d] = IF d = c THEN None ELSE AbsPending[d]
         /\ AbsOutcome'[d] = IF d = c THEN None ELSE AbsOutcome[d]
  BY DEF Cancel, Crash, ReleaseHandle, AbsPending, AbsOutcome, Resolved
<1> QED
  BY <1>1, <1>2, PendingView, OutcomeView DEF Abstract!Abandon, Abstract!Idle

(* A caller that is done with its result returns from its abstract call. *)
LEMMA FinishRefines ==
    ASSUME IInv, NEW c \in Caller, Finish(c)
    PROVE  Abstract!Return(c)
<1> USE SingleflightAssumption
    DEF IInv, TypeOK, EntryIsOwnFlight, Phases, Outputless, Unresolved
<1>1. AbsOutcome[c] # None
  BY DEF Finish, AbsOutcome, Resolved
<1>2. /\ AbsPending' = AbsPending
      /\ \A d \in Caller : AbsOutcome'[d] = IF d = c THEN None ELSE AbsOutcome[d]
  BY DEF Finish, AbsPending, AbsOutcome, Resolved
<1> QED
  BY <1>1, <1>2, OutcomeView DEF Abstract!Return

(* Every step of Singleflight is an abstract step or a stutter. *)
LEMMA StepRefines == IInv /\ [Next]_vars => [Abstract!Next]_(Abstract!vars)
<1> SUFFICES ASSUME IInv, [Next]_vars PROVE [Abstract!Next]_(Abstract!vars)
    OBVIOUS
<1>1. ASSUME NEW c \in Caller, Run(c)
      PROVE  \E k \in Key : Abstract!Call(c, k)
  BY <1>1, RunRefines DEF Run
<1>2. ASSUME NEW f \in Flight, Resolve(f)
      PROVE  \E k \in Key, r \in Result : Abstract!Complete(k, r)
  <2>1. key[f] \in Key /\ answer[f] \in Result
    BY <1>2 DEF Resolve, IInv, TypeOK, EntryIsOwnFlight, Outputless, Unresolved
  <2> QED
    BY <1>2, <2>1, ResolveRefines
<1>3. ASSUME NEW c \in Caller, Cancel(c) \/ Crash(c)
      PROVE  Abstract!Abandon(c)
  BY <1>3, ReleaseRefines
<1>4. ASSUME NEW c \in Caller, Finish(c)
      PROVE  Abstract!Return(c)
  BY <1>4, FinishRefines
<1>5. CASE UNCHANGED vars
  BY <1>5 DEF vars, Abstract!vars, AbsPending, AbsOutcome, Resolved
<1> QED
  BY <1>1, <1>2, <1>3, <1>4, <1>5, FlightStutters, DeliverStutters
     DEF Next, Poll, Abstract!Next

(* Singleflight implements coalescing. *)
THEOREM Implements == Spec => ImplementsCoalescedCall
BY InitRefines, StepRefines, Invariance, PTL DEF Spec, ImplementsCoalescedCall, Abstract!Spec
=============================================================================
