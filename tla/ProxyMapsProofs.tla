--------------------------- MODULE ProxyMapsProofs ---------------------------
(***************************************************************************)
(* The two shared maps of the proxy, whose operations are several atomic   *)
(* steps each.  However threads interleave, and for any capacity and any   *)
(* threshold, the cache overshoots its cap by a bounded number of entries, *)
(* the breaker misses no trip, and it loses the outcomes of fewer objects  *)
(* than there are threads.                                                 *)
(***************************************************************************)
EXTENDS ResponseCache, CircuitBreaker, FiniteSetTheorems, TLAPS

(* Init establishes the types. *)
LEMMA CacheInitType == CacheInit => CacheTypeOK
BY CacheAssumption DEF CacheInit, CacheTypeOK

(* Every step keeps the types. *)
LEMMA CacheStepType == CacheTypeOK /\ [CacheNext]_cacheVars => CacheTypeOK'
<1> SUFFICES ASSUME CacheTypeOK, [CacheNext]_cacheVars PROVE CacheTypeOK'
    OBVIOUS
<1> USE CacheAssumption DEF CacheTypeOK, Entry
<1>1. ASSUME NEW c \in Thread, NEW k \in Key, Hit(c, k) \/ Miss(c, k) \/ CheckLen(c, k)
      PROVE  CacheTypeOK'
  BY <1>1 DEF Hit, Miss, CheckLen, cacheVars
<1>2. ASSUME NEW c \in Thread, Remove(c) PROVE CacheTypeOK'
  BY <1>2 DEF Remove
<1>3. ASSUME NEW c \in Thread, NEW v \in Value, Put(c, v) PROVE CacheTypeOK'
  BY <1>3 DEF Put
<1>4. CASE ClockTick
  BY <1>4 DEF ClockTick
<1>5. CASE UNCHANGED cacheVars
  BY <1>5 DEF cacheVars
<1> QED
  BY <1>1, <1>2, <1>3, <1>4, <1>5 DEF CacheNext

(* Every variable keeps its type. *)
THEOREM CacheTypeCorrect == CacheSpec => []CacheTypeOK
BY CacheInitType, CacheStepType, PTL DEF CacheSpec

(* The sets that are counted are finite. *)
LEMMA EntriesCounted ==
    /\ IsFiniteSet(Stored) /\ Cardinality(Stored) \in Nat
    /\ IsFiniteSet(Writers) /\ Cardinality(Writers) \in Nat
    /\ Cardinality(Writers) <= Cardinality(Thread)
    /\ Cardinality(Thread) \in Nat
<1>1. Stored \subseteq Key /\ Writers \subseteq Thread
  BY DEF Stored, Writers
<1> QED
  BY <1>1, CacheAssumption, FS_Subset, FS_CardinalityType

(* An empty cache with no writer is within the bound. *)
LEMMA InitRoom == CacheInit => RoomClaimed
<1> SUFFICES ASSUME CacheInit PROVE RoomClaimed
    OBVIOUS
<1>1. Stored = {} /\ Writers = {}
  BY DEF CacheInit, Stored, Writers
<1>2. Thread = {} \/ Cardinality(Thread) >= 1
  BY CacheAssumption, FS_EmptySet, FS_CardinalityType
<1> QED
  BY <1>1, <1>2, CacheAssumption, FS_EmptySet, EntriesCounted DEF RoomClaimed

(* A write uses the room its thread claimed when it read len(); a thread   *)
(* claims room only while the cache is below its capacity.                 *)
LEMMA StepRoom == CacheTypeOK /\ RoomClaimed /\ [CacheNext]_cacheVars => RoomClaimed'
<1> SUFFICES ASSUME CacheTypeOK, RoomClaimed, [CacheNext]_cacheVars PROVE RoomClaimed'
    OBVIOUS
<1> USE DEF CacheTypeOK
<1>a. Cardinality(Stored)' \in Nat /\ Cardinality(Writers)' \in Nat
      /\ Cardinality(Writers)' <= Cardinality(Thread)
  <2>1. Stored' \subseteq Key /\ Writers' \subseteq Thread
    BY DEF Stored, Writers
  <2> QED
    BY <2>1, CacheAssumption, FS_Subset, FS_CardinalityType
<1>1. ASSUME NEW c \in Thread, NEW k \in Key, Miss(c, k) PROVE RoomClaimed'
  <2>1. Stored' = Stored /\ Writers' = Writers
    BY <1>1 DEF Miss, Stored, Writers
  <2> QED
    BY <2>1 DEF RoomClaimed
<1>2. ASSUME NEW c \in Thread, NEW k \in Key, CheckLen(c, k) PROVE RoomClaimed'
  <2>1. Stored' = Stored /\ Cardinality(Stored) < Capacity
    BY <1>2 DEF CheckLen, Stored
  <2> QED
    BY <2>1, <1>a, EntriesCounted, CacheAssumption DEF RoomClaimed
<1>3. ASSUME NEW c \in Thread, Remove(c) PROVE RoomClaimed'
  <2>1. Stored' = Stored \ {arg[c]} /\ Writers' = Writers
    BY <1>3 DEF Remove, Stored, Writers
  <2>2. Cardinality(Stored \ {arg[c]}) <= Cardinality(Stored)
    <3>1. Cardinality(Stored \ {arg[c]})
             = IF arg[c] \in Stored THEN Cardinality(Stored) - 1 ELSE Cardinality(Stored)
      BY EntriesCounted, FS_RemoveElement
    <3> QED
      BY <3>1, EntriesCounted
  <2> QED
    BY <2>1, <2>2, <1>a, EntriesCounted, CacheAssumption DEF RoomClaimed
<1>4. ASSUME NEW c \in Thread, NEW v \in Value, Put(c, v) PROVE RoomClaimed'
  <2>1. Stored' = Stored \cup {arg[c]}
    BY <1>4, CacheAssumption DEF Put, Stored, Entry
  <2>2. Writers' = Writers \ {c} /\ c \in Writers
    BY <1>4 DEF Put, Writers
  <2>3. Cardinality(Stored \cup {arg[c]}) <= Cardinality(Stored) + 1
    <3>1. Cardinality(Stored \cup {arg[c]})
             = IF arg[c] \in Stored THEN Cardinality(Stored) ELSE Cardinality(Stored) + 1
      BY EntriesCounted, FS_AddElement
    <3> QED
      BY <3>1, EntriesCounted
  <2>4. Cardinality(Writers') = Cardinality(Writers) - 1
    BY <2>2, EntriesCounted, FS_RemoveElement
  <2> QED
    BY <2>1, <2>3, <2>4, <1>a, EntriesCounted, CacheAssumption DEF RoomClaimed
<1>5. CASE ClockTick \/ UNCHANGED cacheVars
  <2>1. Stored' = Stored /\ Writers' = Writers
    BY <1>5 DEF ClockTick, cacheVars, Stored, Writers
  <2> QED
    BY <2>1 DEF RoomClaimed
<1> QED
  BY <1>1, <1>2, <1>3, <1>4, <1>5 DEF CacheNext, Hit

(* Entries and claimed room stay within the bound. *)
THEOREM Room == CacheSpec => []CacheIInv
<1>1. CacheInit => CacheIInv
  BY CacheInitType, InitRoom DEF CacheIInv
<1>2. CacheIInv /\ [CacheNext]_cacheVars => CacheIInv'
  BY CacheStepType, StepRoom DEF CacheIInv
<1> QED
  BY <1>1, <1>2, PTL DEF CacheSpec

(* The cache holds at most one entry over its capacity for each further    *)
(* thread using it.                                                        *)
THEOREM Overshoot == CacheSpec => []OvershootBounded
<1>1. CacheIInv => OvershootBounded
  BY EntriesCounted, CacheAssumption DEF CacheIInv, RoomClaimed, OvershootBounded
<1> QED
  BY <1>1, Room, PTL

-----------------------------------------------------------------------------
(* Init establishes the types. *)
LEMMA InitType == Init => TypeOK /\ HoldsObject
BY BreakerAssumption DEF Init, TypeOK, HoldsObject

(* Every step keeps the types, and an operation holds an object from its   *)
(* get_or_create on.                                                       *)
LEMMA StepType == TypeOK /\ HoldsObject /\ [Next]_vars => (TypeOK /\ HoldsObject)'
<1> SUFFICES ASSUME TypeOK, HoldsObject, [Next]_vars
             PROVE  (TypeOK /\ HoldsObject)'
    OBVIOUS
<1> USE BreakerAssumption DEF TypeOK, HoldsObject, Goto, Leave, AfterGet, counters
<1>1. ASSUME NEW c \in Caller, Check(c) \/ Absent(c) PROVE (TypeOK /\ HoldsObject)'
  BY <1>1 DEF Check, Absent
<1>2. ASSUME NEW c \in Caller, Get(c) PROVE (TypeOK /\ HoldsObject)'
  BY <1>2 DEF Get
<1>3. ASSUME NEW c \in Caller, NEW o \in Object, Create(c, o)
      PROVE  (TypeOK /\ HoldsObject)'
  <2>1. pc' \in [Caller -> {"idle", "get", "create", "state", "calling",
                            "addTotal", "addFailure", "loadTotal", "trip"}]
    <3>1. AfterGet(c) \in {"addTotal", "state"}
      OBVIOUS
    <3> QED
      BY <1>3, <3>1 DEF Create
  <2>2. TypeOK'
    BY <1>3, <2>1 DEF Create
  <2>3. HoldsObject'
    BY <1>3 DEF Create
  <2> QED
    BY <2>2, <2>3
<1>4. ASSUME NEW c \in Caller, Reject(c) \/ Pass(c) \/ Cancel(c)
      PROVE  (TypeOK /\ HoldsObject)'
  <2>1. PICK next \in {"idle", "calling"} :
           UNCHANGED <<now, entry, counters>> /\ Leave(c, next)
    BY <1>4 DEF Reject, Pass, Cancel
  <2>2. TypeOK'
    BY <2>1
  <2>3. HoldsObject'
    BY <2>1
  <2> QED
    BY <2>2, <2>3
<1>5. ASSUME NEW c \in Caller, NEW f \in BOOLEAN, Record(c, f)
      PROVE  (TypeOK /\ HoldsObject)'
  BY <1>5 DEF Record
<1>6. ASSUME NEW c \in Caller, AddTotal(c) PROVE (TypeOK /\ HoldsObject)'
  BY <1>6 DEF AddTotal
<1>7. ASSUME NEW c \in Caller, AddFailure(c) PROVE (TypeOK /\ HoldsObject)'
  BY <1>7 DEF AddFailure
<1>8. ASSUME NEW c \in Caller, LoadTotal(c) PROVE (TypeOK /\ HoldsObject)'
  BY <1>8 DEF LoadTotal
<1>9. ASSUME NEW c \in Caller, Trip(c) PROVE (TypeOK /\ HoldsObject)'
  BY <1>9 DEF Trip
<1>10. CASE Tick
  BY <1>10 DEF Tick
<1>11. CASE UNCHANGED vars
  BY <1>11 DEF vars
<1> QED
  BY <1>1, <1>2, <1>3, <1>4, <1>5, <1>6, <1>7, <1>8, <1>9, <1>10, <1>11
     DEF Next, Step

(* Every variable keeps its type. *)
THEOREM TypeCorrect == Spec => [](TypeOK /\ HoldsObject)
BY InitType, StepType, PTL DEF Spec

-----------------------------------------------------------------------------
(* A step that leaves the counters alone and moves only callers that are   *)
(* not recording keeps a pending trip pending.                             *)
LEMMA PendingKept ==
    ASSUME TypeOK, TripPending, UNCHANGED counters,
           \A c \in Caller, o \in Object : WillTrip(c, o) => WillTrip(c, o)'
    PROVE  TripPending'
BY DEF TripPending, counters

(* Whoever is about to trip a breaker keeps being so until it does. *)
LEMMA StepPending ==
    TypeOK /\ HoldsObject /\ TripPending /\ [Next]_vars => TripPending'
<1> SUFFICES ASSUME TypeOK, HoldsObject, TripPending, [Next]_vars
             PROVE  TripPending'
    OBVIOUS
<1> USE DEF TypeOK, Goto, Leave, AfterGet
<1>1. ASSUME NEW c \in Caller,
             \/ Check(c) \/ Absent(c) \/ Get(c) \/ Reject(c) \/ Pass(c) \/ Cancel(c)
             \/ \E f \in BOOLEAN : Record(c, f)
             \/ \E o \in Object : Create(c, o)
      PROVE  TripPending'
  <2>1. UNCHANGED counters
    BY <1>1 DEF Check, Absent, Get, Reject, Pass, Cancel, Record, Create
  <2>2. pc[c] \notin {"addFailure", "loadTotal", "trip"}
        /\ \A d \in Caller \ {c} : UNCHANGED <<pc[d], mine[d], seen[d]>>
    BY <1>1 DEF Check, Absent, Get, Reject, Pass, Cancel, Record, Create
  <2>3. \A d \in Caller, o \in Object : WillTrip(d, o) => WillTrip(d, o)'
    BY <2>1, <2>2 DEF WillTrip, counters
  <2> QED
    BY <2>1, <2>3, PendingKept
<1>2. ASSUME NEW c \in Caller, AddTotal(c) \/ AddFailure(c)
      PROVE  TripPending'
  <2>1. \A o \in Object \ {mine[c]} :
           UNCHANGED <<total[o], failures[o], trippedAt[o]>>
    BY <1>2 DEF AddTotal, AddFailure
  <2>2. mine[c] \in Object /\ WillTrip(c, mine[c])'
    BY <1>2 DEF AddTotal, AddFailure, WillTrip, HoldsObject
  <2>3. ASSUME NEW o \in Object \ {mine[c]}, NEW d \in Caller, WillTrip(d, o)
        PROVE  WillTrip(d, o)'
    BY <1>2, <2>1, <2>3 DEF AddTotal, AddFailure, WillTrip
  <2>4. mine' = mine
    BY <1>2 DEF AddTotal, AddFailure
  <2>5. ASSUME NEW o \in Object,
               OverThreshold(failures[o], total[o])', (trippedAt[o] = None)'
        PROVE  \E d \in Caller : WillTrip(d, o)'
    <3>1. CASE o = mine[c]
      BY <3>1, <2>2, <2>4
    <3>2. CASE o # mine[c]
      <4>1. OverThreshold(failures[o], total[o]) /\ trippedAt[o] = None
        BY <2>1, <2>5, <3>2 DEF OverThreshold
      <4>2. PICK d \in Caller : WillTrip(d, o)
        BY <4>1 DEF TripPending
      <4> QED
        BY <2>3, <3>2, <4>2
    <3> QED
      BY <3>1, <3>2
  <2> QED
    BY <2>5 DEF TripPending
<1>3. ASSUME NEW c \in Caller, LoadTotal(c) PROVE TripPending'
  <2>1. UNCHANGED counters
    BY <1>3 DEF LoadTotal
  <2>2. ASSUME NEW o \in Object,
               OverThreshold(failures[o], total[o]), trippedAt[o] = None
        PROVE  \E d \in Caller : WillTrip(d, o)'
    <3>1. PICK d \in Caller : WillTrip(d, o)
      BY <2>2 DEF TripPending
    <3>2. CASE d = c
      BY <1>3, <2>2, <3>1, <3>2 DEF LoadTotal, WillTrip, counters
    <3>3. CASE d # c
      BY <1>3, <3>1, <3>3 DEF LoadTotal, WillTrip, counters
    <3> QED
      BY <3>2, <3>3
  <2> QED
    BY <2>1, <2>2 DEF TripPending, counters
<1>4. ASSUME NEW c \in Caller, Trip(c) PROVE TripPending'
  <2>1. ASSUME NEW o \in Object,
               OverThreshold(failures[o], total[o])', (trippedAt[o] = None)'
        PROVE  \E d \in Caller : WillTrip(d, o)'
    <3>1. OverThreshold(failures[o], total[o]) /\ trippedAt[o] = None
      BY <1>4, <2>1, BreakerAssumption DEF Trip, HoldsObject
    <3>2. PICK d \in Caller : WillTrip(d, o)
      BY <3>1 DEF TripPending
    <3>3. d # c
      BY <1>4, <2>1, <3>1, <3>2, BreakerAssumption DEF Trip, WillTrip
    <3> QED
      BY <1>4, <3>2, <3>3 DEF Trip, WillTrip
  <2> QED
    BY <2>1 DEF TripPending
<1>5. CASE Tick \/ UNCHANGED vars
  BY <1>5 DEF Tick, vars, TripPending, WillTrip, counters
<1> QED
  BY <1>1, <1>2, <1>3, <1>4, <1>5 DEF Next, Step

(* No breaker starts over its threshold. *)
LEMMA InitPending == Init => TripPending
BY BreakerAssumption DEF Init, TripPending, OverThreshold

(* The inductive invariant. *)
THEOREM Invariance == Spec => []IInv
<1>1. Init => IInv
  BY InitType, InitPending DEF IInv
<1>2. IInv /\ [Next]_vars => IInv'
  BY StepType, StepPending DEF IInv
<1> QED
  BY <1>1, <1>2, PTL DEF Spec

(* Once no record on a breaker is under way, it is tripped if its counts   *)
(* reach the threshold.                                                    *)
THEOREM NoTripMissed == Spec => []NoMissedTrip
<1>1. IInv => NoMissedTrip
  BY DEF IInv, NoMissedTrip, TripPending, WillTrip, Recorder
<1> QED
  BY <1>1, Invariance, PTL

-----------------------------------------------------------------------------
(* The sets that are counted are finite. *)
LEMMA ObjectsCounted ==
    /\ IsFiniteSet(Replaced) /\ Cardinality(Replaced) \in Nat
    /\ IsFiniteSet(Creators) /\ Cardinality(Creators) \in Nat
    /\ Cardinality(Creators) <= Cardinality(Caller)
    /\ Cardinality(Caller) \in Nat
<1>1. Replaced \subseteq Object /\ Creators \subseteq Caller
  BY DEF Replaced, Creators
<1> QED
  BY <1>1, BreakerAssumption, FS_Subset, FS_CardinalityType

(* A step that inserts no entry and makes nobody a creator claims nothing  *)
(* new: it adds to objects already held.                                   *)
LEMMA ClaimKept ==
    ASSUME CreatorsClaim, entry' = entry,
           Replaced' \subseteq Replaced, Creators' \subseteq Creators
    PROVE  CreatorsClaim'
<1>1. /\ Cardinality(Replaced') <= Cardinality(Replaced)
      /\ Cardinality(Creators') <= Cardinality(Creators)
      /\ Cardinality(Replaced') \in Nat /\ Cardinality(Creators') \in Nat
  BY ObjectsCounted, FS_Subset, FS_CardinalityType
<1> QED
  BY <1>1, ObjectsCounted DEF CreatorsClaim

(* A thread that inserts found no entry, so it uses up one of the losses   *)
(* that are still possible; no thread joins them once there is an entry.   *)
LEMMA StepClaim ==
    TypeOK /\ HoldsObject /\ CreatorsClaim /\ [Next]_vars => CreatorsClaim'
<1> SUFFICES ASSUME TypeOK, HoldsObject, CreatorsClaim, [Next]_vars
             PROVE  CreatorsClaim'
    OBVIOUS
<1> USE DEF TypeOK, Goto, Leave, AfterGet
<1>1. ASSUME NEW c \in Caller, NEW o \in Object, Create(c, o)
      PROVE  CreatorsClaim'
  <2>1. Creators' = Creators \ {c} /\ c \in Creators
    BY <1>1 DEF Create, Creators
  <2>2. Cardinality(Creators') = Cardinality(Creators) - 1
    BY <2>1, ObjectsCounted, FS_RemoveElement
  <2>3. /\ entry' = o /\ o # None /\ total' = total
        /\ mine' = [mine EXCEPT ![c] = o]
    BY <1>1, BreakerAssumption DEF Create, counters
  <2>4. CASE entry = None
    <3>1. Replaced' = {}
      BY <2>3, <2>4, BreakerAssumption DEF CreatorsClaim, Replaced
    <3> QED
      BY <2>2, <2>3, <3>1, ObjectsCounted, FS_EmptySet DEF CreatorsClaim
  <2>5. CASE entry # None
    <3>1. Replaced' \subseteq Replaced \cup {entry}
      BY <2>3 DEF Replaced
    <3>2. /\ IsFiniteSet(Replaced \cup {entry})
          /\ Cardinality(Replaced \cup {entry})
                = IF entry \in Replaced THEN Cardinality(Replaced)
                                        ELSE Cardinality(Replaced) + 1
      BY ObjectsCounted, FS_AddElement
    <3>3. Cardinality(Replaced') <= Cardinality(Replaced \cup {entry})
          /\ Cardinality(Replaced') \in Nat
      BY <3>1, <3>2, FS_Subset, FS_CardinalityType
    <3> QED
      BY <2>2, <2>3, <2>5, <3>2, <3>3, ObjectsCounted DEF CreatorsClaim
  <2> QED
    BY <2>4, <2>5
<1>2. ASSUME NEW c \in Caller, Absent(c) PROVE CreatorsClaim'
  BY <1>2 DEF Absent, CreatorsClaim, Replaced, counters
<1>3. ASSUME NEW c \in Caller, AddTotal(c) PROVE CreatorsClaim'
  <2>1. entry' = entry /\ Creators' \subseteq Creators
    BY <1>3 DEF AddTotal, Creators
  <2>2. Replaced' \subseteq Replaced
    BY <1>3 DEF AddTotal, Replaced, HoldsObject
  <2> QED
    BY <2>1, <2>2, ClaimKept
<1>4. ASSUME NEW c \in Caller,
             \/ Check(c) \/ Get(c) \/ Reject(c) \/ Pass(c) \/ Cancel(c)
             \/ AddFailure(c) \/ LoadTotal(c) \/ Trip(c)
             \/ \E f \in BOOLEAN : Record(c, f)
      PROVE  CreatorsClaim'
  <2>1. entry' = entry /\ total' = total /\ Creators' \subseteq Creators
    BY <1>4 DEF Check, Get, Reject, Pass, Cancel, AddFailure, LoadTotal, Trip,
                Record, Creators, counters
  <2>2. mine' \in {mine, [mine EXCEPT ![c] = None], [mine EXCEPT ![c] = entry]}
    BY <1>4 DEF Check, Get, Reject, Pass, Cancel, AddFailure, LoadTotal, Trip,
                Record, counters
  <2>3. Replaced' \subseteq Replaced
    BY <2>1, <2>2, BreakerAssumption DEF Replaced
  <2> QED
    BY <2>1, <2>3, ClaimKept
<1>5. CASE Tick \/ UNCHANGED vars
  BY <1>5, ClaimKept DEF Tick, vars, Creators, Replaced, counters
<1> QED
  BY <1>1, <1>2, <1>3, <1>4, <1>5 DEF Next, Step

(* Fewer objects lose their outcomes than there are threads. *)
THEOREM FewOutcomesLost == Spec => []LostObjectsBounded
<1>1. Init => CreatorsClaim
  BY BreakerAssumption DEF Init, CreatorsClaim, Replaced
<1>2. CreatorsClaim => LostObjectsBounded
  <2> SUFFICES ASSUME CreatorsClaim, Lost # {}
               PROVE  Cardinality(Lost) < Cardinality(Caller)
      BY DEF LostObjectsBounded
  <2>1. Lost \subseteq Replaced
    BY DEF Lost, Replaced
  <2>2. Cardinality(Lost) <= Cardinality(Replaced) /\ Cardinality(Lost) \in Nat
    BY <2>1, ObjectsCounted, FS_Subset, FS_CardinalityType
  <2> QED
    BY <2>1, <2>2, ObjectsCounted DEF CreatorsClaim
<1> QED
  BY <1>1, <1>2, StepClaim, TypeCorrect, PTL DEF Spec

-----------------------------------------------------------------------------
(* A tripped breaker: its trip lies at least reset_after back.             *)
HalfOpen(o) == trippedAt[o] # None /\ State(o) = "HalfOpen"

(* Nobody is about to replace the breaker of the path. *)
Settled(o) == entry = o /\ Creators = {}

(* A trip is never taken back or moved: record sets tripped_at while it is *)
(* None, and reset has no caller (breaker.rs:87-91, 112-120).              *)
LEMMA TripStays ==
    ASSUME TypeOK, HoldsObject, [Next]_vars, NEW o \in Object, trippedAt[o] # None
    PROVE  trippedAt'[o] = trippedAt[o] /\ now \in Nat /\ now' \in Nat /\ now' >= now
<1> USE BreakerAssumption DEF TypeOK, HoldsObject, counters
<1>1. ASSUME NEW c \in Caller, Trip(c) PROVE trippedAt'[o] = trippedAt[o] /\ now' = now
  BY <1>1 DEF Trip
<1>2. ASSUME NEW c \in Caller, Step(c), ~Trip(c) PROVE UNCHANGED <<trippedAt, now>>
  BY <1>2 DEF Step, Check, Get, Absent, Create, Reject, Pass, Record, Cancel, AddTotal,
              AddFailure, LoadTotal
<1>3. CASE Tick \/ UNCHANGED vars
  BY <1>3 DEF Tick, vars
<1> QED
  BY <1>1, <1>2, <1>3 DEF Next

(* Who finds an entry inserts none (breaker.rs:54-61). *)
LEMMA SettledStays ==
    ASSUME TypeOK, [Next]_vars, NEW o \in Object, Settled(o)
    PROVE  Settled(o)'
<1> USE BreakerAssumption DEF TypeOK, Settled, Creators, Goto, Leave
<1>1. ASSUME NEW c \in Caller, Step(c) PROVE Settled(o)'
  <2>1. pc[c] # "create" /\ entry # None
    OBVIOUS
  <2>2. entry' = entry
    BY <1>1, <2>1 DEF Step, Check, Get, Absent, Create, Reject, Pass, Record, Cancel, AddTotal,
                      AddFailure, LoadTotal, Trip
  <2>3. \E next \in {"get", "state", "addTotal", "addFailure", "loadTotal", "trip", "idle", "calling"} :
           pc' = [pc EXCEPT ![c] = next]
    BY <1>1, <2>1 DEF Step, Check, Get, Absent, Create, Reject, Pass, Record, Cancel, AddTotal,
                      AddFailure, LoadTotal, Trip, AfterGet
  <2> QED
    BY <2>2, <2>3
<1>2. CASE Tick \/ UNCHANGED vars
  BY <1>2 DEF Tick, vars
<1> QED
  BY <1>1, <1>2 DEF Next

(* What the missing reset comes to: a breaker that is HalfOpen once is     *)
(* HalfOpen for good, whatever is recorded on it, and when no thread is    *)
(* about to insert another it stays the breaker of its path, so that no    *)
(* call that looks it up is rejected any more (breaker.rs:64-70, 87-91).   *)
THEOREM HalfOpenForGood ==
    ASSUME NEW o \in Object
    PROVE  Spec => /\ [](HalfOpen(o) => []HalfOpen(o))
                   /\ [](HalfOpen(o) /\ Settled(o) => [](HalfOpen(o) /\ Settled(o)))
<1>1. TypeOK /\ HoldsObject /\ [Next]_vars /\ HalfOpen(o) => HalfOpen(o)'
  <2> SUFFICES ASSUME TypeOK, HoldsObject, [Next]_vars, HalfOpen(o)
               PROVE  HalfOpen(o)'
      OBVIOUS
  <2>1. trippedAt[o] # None /\ trippedAt'[o] = trippedAt[o]
        /\ now \in Nat /\ now' \in Nat /\ now' >= now
    BY TripStays DEF HalfOpen
  <2>2. trippedAt[o] \in Nat /\ ResetAfter \in Nat
    BY <2>1, BreakerAssumption DEF TypeOK
  <2>3. now - trippedAt[o] > ResetAfter
    BY <2>1, <2>2 DEF HalfOpen, State
  <2>4. now' - trippedAt'[o] > ResetAfter
    BY <2>1, <2>2, <2>3
  <2> QED
    BY <2>1, <2>4 DEF HalfOpen, State
<1>2. TypeOK /\ HoldsObject /\ [Next]_vars /\ Settled(o) => Settled(o)'
  BY SettledStays
<1> QED
  BY <1>1, <1>2, TypeCorrect, PTL DEF Spec
=============================================================================
