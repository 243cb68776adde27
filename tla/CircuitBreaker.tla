--------------------------- MODULE CircuitBreaker ---------------------------
(***************************************************************************)
(* CircuitBreakerMap for one path (paths share nothing): threads check it  *)
(* before a call and record the call's outcome after it.  Its atomics are  *)
(* separate steps: get_or_create is a lookup and, on a miss, an            *)
(* unconditional insert; record adds to total, then to failures, then      *)
(* loads both and may set tripped_at.  tripped_at is set once and, since   *)
(* nothing calls reset, never cleared.  Loads see the latest values, as on *)
(* x86-64, where the atomic adds before them are full barriers.            *)
(***************************************************************************)
EXTENDS Naturals, FiniteSets

CONSTANTS Caller,
          Object,       \* identities of BreakerInner allocations
          MinRequests,  \* min_requests (10 in the code)
          Num, Den,     \* threshold is the ratio Num / Den
          ResetAfter,   \* reset_after, in clock ticks
          MaxTime,      \* bound on the clock
          MaxTotal,     \* bound on total: no outcome is recorded beyond it
          None

ASSUME BreakerAssumption ==
    /\ {Num, ResetAfter, MaxTime, MaxTotal} \subseteq Nat
    /\ MinRequests \in Nat \ {0} /\ Den \in Nat \ {0}
    /\ IsFiniteSet(Caller) /\ IsFiniteSet(Object)
    /\ None \notin Object \cup Nat

VARIABLES now,
          entry,      \* map: the path's BreakerInner, or None
          total, failures, trippedAt,  \* the atomics and the mutex of each object
          pc,         \* pc[c]: what c does next
          recording,  \* recording[c]: c's get_or_create is record's, not check's
          failed,     \* failed[c]: the outcome c records is a failure
          mine,       \* mine[c]: the Arc that get_or_create gave c
          seen        \* seen[c]: what c loaded from total

vars == <<now, entry, total, failures, trippedAt, pc, recording, failed, mine, seen>>
counters == <<total, failures, trippedAt>>

TypeOK ==
    /\ now \in 0 .. MaxTime
    /\ entry \in Object \cup {None}
    /\ total \in [Object -> Nat]
    /\ failures \in [Object -> Nat]
    /\ trippedAt \in [Object -> Nat \cup {None}]
    /\ pc \in [Caller -> {"idle", "get", "create", "state", "calling",
                          "addTotal", "addFailure", "loadTotal", "trip"}]
    /\ recording \in [Caller -> BOOLEAN]
    /\ failed \in [Caller -> BOOLEAN]
    /\ mine \in [Caller -> Object \cup {None}]
    /\ seen \in [Caller -> Nat]

Init ==
    /\ now = 0
    /\ entry = None
    /\ total = [o \in Object |-> 0]
    /\ failures = [o \in Object |-> 0]
    /\ trippedAt = [o \in Object |-> None]
    /\ pc = [c \in Caller |-> "idle"]
    /\ recording = [c \in Caller |-> FALSE]
    /\ failed = [c \in Caller |-> FALSE]
    /\ mine = [c \in Caller |-> None]
    /\ seen = [c \in Caller |-> 0]

State(o) == IF trippedAt[o] = None THEN "Closed"
            ELSE IF now - trippedAt[o] > ResetAfter THEN "HalfOpen" ELSE "Open"

(* The test record makes before it trips. *)
OverThreshold(f, t) == t >= MinRequests /\ f * Den >= Num * t

Goto(c, next) == pc' = [pc EXCEPT ![c] = next]

AfterGet(c) == IF recording[c] THEN "addTotal" ELSE "state"

(* The operation is over: its locals, the Arc among them, are dropped. *)
Leave(c, next) ==
    /\ Goto(c, next)
    /\ mine' = [mine EXCEPT ![c] = None]
    /\ seen' = [seen EXCEPT ![c] = 0]
    /\ failed' = [failed EXCEPT ![c] = FALSE]
    /\ recording' = [recording EXCEPT ![c] = FALSE]

(* handle calls check. *)
Check(c) ==
    /\ pc[c] = "idle"
    /\ Goto(c, "get")
    /\ UNCHANGED <<now, entry, counters, recording, failed, mine, seen>>

(* get_or_create: the entry exists. *)
Get(c) ==
    /\ pc[c] = "get"
    /\ entry # None
    /\ mine' = [mine EXCEPT ![c] = entry]
    /\ Goto(c, AfterGet(c))
    /\ UNCHANGED <<now, entry, counters, recording, failed, seen>>

(* Mutant: an existing entry is not looked for. *)
MutantAbsentStale(c) ==
    /\ pc[c] = "get"
    /\ Goto(c, "create")
    /\ UNCHANGED <<now, entry, counters, recording, failed, mine, seen>>

(* get_or_create: no entry yet; the new one is built outside the map. *)
Absent(c) ==
    /\ pc[c] = "get"
    /\ entry = None
    /\ Goto(c, "create")
    /\ UNCHANGED <<now, entry, counters, recording, failed, mine, seen>>

(* map.insert replaces an entry another thread has inserted meanwhile. *)
Create(c, o) ==
    /\ pc[c] = "create"
    /\ o # entry /\ total[o] = 0 /\ \A d \in Caller : mine[d] # o
    /\ entry' = o
    /\ mine' = [mine EXCEPT ![c] = o]
    /\ Goto(c, AfterGet(c))
    /\ UNCHANGED <<now, counters, recording, failed, seen>>

(* check rejects a call while its breaker is Open and lets it pass else. *)
Reject(c) ==
    /\ pc[c] = "state"
    /\ State(mine[c]) = "Open"
    /\ Leave(c, "idle")
    /\ UNCHANGED <<now, entry, counters>>

Pass(c) ==
    /\ pc[c] = "state"
    /\ State(mine[c]) # "Open"
    /\ Leave(c, "calling")
    /\ UNCHANGED <<now, entry, counters>>

(* The call ends and handle records its outcome, or is dropped without. *)
Record(c, f) ==
    /\ pc[c] = "calling"
    /\ \A o \in Object : total[o] < MaxTotal
    /\ failed' = [failed EXCEPT ![c] = f]
    /\ recording' = [recording EXCEPT ![c] = TRUE]
    /\ Goto(c, "get")
    /\ UNCHANGED <<now, entry, counters, mine, seen>>

Cancel(c) ==
    /\ pc[c] = "calling"
    /\ Leave(c, "idle")
    /\ UNCHANGED <<now, entry, counters>>

AddTotal(c) ==
    /\ pc[c] = "addTotal"
    /\ total' = [total EXCEPT ![mine[c]] = @ + 1]
    /\ Goto(c, IF failed[c] THEN "addFailure" ELSE "loadTotal")
    /\ UNCHANGED <<now, entry, failures, trippedAt, recording, failed, mine, seen>>

AddFailure(c) ==
    /\ pc[c] = "addFailure"
    /\ failures' = [failures EXCEPT ![mine[c]] = @ + 1]
    /\ Goto(c, "loadTotal")
    /\ UNCHANGED <<now, entry, total, trippedAt, recording, failed, mine, seen>>

LoadTotal(c) ==
    /\ pc[c] = "loadTotal"
    /\ seen' = [seen EXCEPT ![c] = total[mine[c]]]
    /\ Goto(c, "trip")
    /\ UNCHANGED <<now, entry, counters, recording, failed, mine>>

(* Mutant: only a failure can trip. *)
MutantTripOnFailureOnly(c) ==
    /\ pc[c] = "trip"
    /\ trippedAt' = IF failed[c] /\ OverThreshold(failures[mine[c]], seen[c])
                       /\ trippedAt[mine[c]] = None
                    THEN [trippedAt EXCEPT ![mine[c]] = now] ELSE trippedAt
    /\ Leave(c, "idle")
    /\ UNCHANGED <<now, entry, total, failures>>

(* Load failures and, over the threshold, set tripped_at if it is unset.   *)
(* Failures only grow, so a load long before the lock trips no more often. *)
Trip(c) ==
    /\ pc[c] = "trip"
    /\ trippedAt' = IF OverThreshold(failures[mine[c]], seen[c])
                       /\ trippedAt[mine[c]] = None
                    THEN [trippedAt EXCEPT ![mine[c]] = now] ELSE trippedAt
    /\ Leave(c, "idle")
    /\ UNCHANGED <<now, entry, total, failures>>

Tick ==
    /\ now < MaxTime
    /\ now' = now + 1
    /\ UNCHANGED <<entry, counters, pc, recording, failed, mine, seen>>

Step(c) ==
    \/ Check(c) \/ Get(c) \/ Absent(c) \/ Reject(c) \/ Pass(c) \/ Cancel(c)
    \/ AddTotal(c) \/ AddFailure(c) \/ LoadTotal(c) \/ Trip(c)
    \/ \E o \in Object : Create(c, o)
    \/ \E f \in BOOLEAN : Record(c, f)

Next == Tick \/ \E c \in Caller : Step(c)

Spec == Init /\ [][Next]_vars

-----------------------------------------------------------------------------
Recorder(c, o) ==
    mine[c] = o /\ pc[c] \in {"addFailure", "loadTotal", "trip"}

(* The atomics are added and loaded separately, but no trip is missed: a   *)
(* breaker over its threshold is tripped unless some record on it is still *)
(* under way.                                                              *)
NoMissedTrip ==
    \A o \in Object :
        /\ OverThreshold(failures[o], total[o])
        /\ \A c \in Caller : ~Recorder(c, o)
        => trippedAt[o] # None

(* The record under way that will trip an untripped breaker over its       *)
(* threshold: it has loads to come, or loaded the total of now.            *)
WillTrip(c, o) ==
    /\ mine[c] = o
    /\ \/ pc[c] \in {"addFailure", "loadTotal"}
       \/ pc[c] = "trip" /\ OverThreshold(failures[o], seen[c])

TripPending ==
    \A o \in Object :
        OverThreshold(failures[o], total[o]) /\ trippedAt[o] = None =>
            \E c \in Caller : WillTrip(c, o)

HoldsObject ==
    \A c \in Caller : pc[c] \in {"state", "addTotal", "addFailure", "loadTotal", "trip"}
                          => mine[c] \in Object

(* The inductive invariant: the types, the objects operations hold and the *)
(* pending trip of record (breaker.rs:74-94).                              *)
IInv == TypeOK /\ HoldsObject /\ TripPending

(* get_or_create can replace an entry that already counts outcomes, which  *)
(* are then lost; it happens less often than there are threads, since only *)
(* threads that found no entry at all ever insert one.                     *)
Lost == {o \in Object : o # entry /\ total[o] > 0}
LostObjectsBounded == Lost # {} => Cardinality(Lost) < Cardinality(Caller)

(* LostObjectsBounded with the losses threads can still cause: those that  *)
(* found no entry and have not inserted yet.                               *)
Replaced == {o \in Object : o # entry /\ (total[o] > 0 \/ \E c \in Caller : mine[c] = o)}
Creators == {c \in Caller : pc[c] = "create"}
CreatorsClaim ==
    IF entry = None THEN Replaced = {}
    ELSE Cardinality(Replaced) + Cardinality(Creators) < Cardinality(Caller)

(* "repeated upstream faults open the breaker and fail fast until the      *)
(* upstream recovers" (README.md:15): a fault recorded in HalfOpen that    *)
(* leaves the error rate over the threshold opens the breaker again.       *)
ProbeFaultReopens ==
    [][\A c \in Caller :
          (/\ Trip(c) /\ failed[c] /\ State(mine[c]) = "HalfOpen"
           /\ OverThreshold(failures[mine[c]], total[mine[c]]))
              => trippedAt'[mine[c]] = now]_vars
=============================================================================
