---------------------------- MODULE Singleflight ----------------------------
(***************************************************************************)
(* Singleflight::run (tonin-proxy and tonin-client share the design): a    *)
(* DashMap from key to a Shared future.  The first caller of a key inserts *)
(* the future and drives it; later callers clone the handle.  The future   *)
(* removes its own map entry when the wrapped call resolves.               *)
(*                                                                         *)
(* A flight is one Shared future.  Shared is lazy: the wrapped call starts *)
(* when some handle first polls it and advances only while a live handle   *)
(* polls it; a dropped driver does not stop the waiters.  The map's own    *)
(* clone is never polled, yet it keeps the flight alive: when every caller *)
(* is dropped the flight stays in the map, frozen.  A panic inside the     *)
(* wrapped call poisons the Shared, skips the removal of the entry and     *)
(* wakes nobody: a caller that polls afterwards panics as well, one whose  *)
(* waker was registered before sleeps until it is dropped.                 *)
(***************************************************************************)
CONSTANTS Caller,    \* tasks that call run, one call at a time
          Key,
          Result,    \* Ok and Err values of the wrapped call
          Flight,    \* identities of Shared futures, reused once unreferenced
          MayPanic,  \* whether the wrapped call can panic (retry_max = 0 does)
          None

ASSUME SingleflightAssumption ==
    /\ MayPanic \in BOOLEAN
    /\ None \notin Flight \cup Result \cup Key

VARIABLES inFlight,  \* in_flight: the flight registered under a key, or None
          key,       \* key[f]: the key the flight was created for
          phase,     \* phase[f]: how far the Shared future got
          answer,    \* answer[f]: what the upstream answered; f's output once ready
          handle,    \* handle[c]: the flight c awaits, or None
          asleep,    \* callers awaiting a poisoned flight that nothing will wake
          returned   \* returned[c]: what run returned to c, or None

vars == <<inFlight, key, phase, answer, handle, asleep, returned>>

Unresolved == {"created", "sent"}
Outputless == Unresolved \cup {"panicked"}
Phases == {"idle", "ready"} \cup Outputless

TypeOK ==
    /\ inFlight \in [Key -> Flight \cup {None}]
    /\ key \in [Flight -> Key \cup {None}]
    /\ phase \in [Flight -> Phases]
    /\ answer \in [Flight -> Result \cup {None}]
    /\ handle \in [Caller -> Flight \cup {None}]
    /\ asleep \in SUBSET Caller
    /\ returned \in [Caller -> Result \cup {None}]

Init ==
    /\ inFlight = [k \in Key |-> None]
    /\ key = [f \in Flight |-> None]
    /\ phase = [f \in Flight |-> "idle"]
    /\ answer = [f \in Flight |-> None]
    /\ handle = [c \in Caller |-> None]
    /\ asleep = {}
    /\ returned = [c \in Caller |-> None]

Holders(f) == {c \in Caller : handle[c] = f}
Registered(f) == \E k \in Key : inFlight[k] = f

(* Reference counting: neither the map nor a caller holds the future. *)
Free(f) == Holders(f) = {} /\ ~Registered(f)

CanCall(c) == handle[c] = None /\ returned[c] = None

(* Entry::Vacant: build the Shared future and register it, under the       *)
(* shard lock of the entry.                                                *)
Drive(c, k, f) ==
    /\ CanCall(c)
    /\ inFlight[k] = None
    /\ Free(f)
    /\ inFlight' = [inFlight EXCEPT ![k] = f]
    /\ key' = [key EXCEPT ![f] = k]
    /\ phase' = [phase EXCEPT ![f] = "created"]
    /\ answer' = [answer EXCEPT ![f] = None]
    /\ handle' = [handle EXCEPT ![c] = f]
    /\ UNCHANGED <<asleep, returned>>

(* Entry::Occupied: clone the registered handle, whatever its phase. *)
Join(c, k) ==
    /\ CanCall(c)
    /\ inFlight[k] # None
    /\ handle' = [handle EXCEPT ![c] = inFlight[k]]
    /\ UNCHANGED <<inFlight, key, phase, answer, asleep, returned>>

(* The first poll by any holder starts the wrapped call. *)
Start(f) ==
    /\ Holders(f) # {}
    /\ phase[f] = "created"
    /\ phase' = [phase EXCEPT ![f] = "sent"]
    /\ UNCHANGED <<inFlight, key, answer, handle, asleep, returned>>

(* The upstream answers; nobody needs to be polling for that. *)
Answer(f, r) ==
    /\ phase[f] = "sent"
    /\ answer[f] = None
    /\ answer' = [answer EXCEPT ![f] = r]
    /\ UNCHANGED <<inFlight, key, phase, handle, asleep, returned>>

(* Mutant: the resolved flight stays registered. *)
MutantResolveKeepsEntry(f) ==
    /\ Holders(f) # {}
    /\ phase[f] = "sent"
    /\ answer[f] # None
    /\ phase' = [phase EXCEPT ![f] = "ready"]
    /\ UNCHANGED <<inFlight, key, answer, handle, asleep, returned>>

(* A holder polls the answered call: the future removes the entry of its   *)
(* key and becomes ready in the same poll.  Whoever looks at the map after *)
(* the removal no longer sees the flight, and whoever cloned it before     *)
(* reads the output only once it is stored, so one step loses no order.    *)
Resolve(f) ==
    /\ Holders(f) # {}
    /\ phase[f] = "sent"
    /\ answer[f] # None
    /\ phase' = [phase EXCEPT ![f] = "ready"]
    /\ inFlight' = [inFlight EXCEPT ![key[f]] = None]
    /\ UNCHANGED <<key, answer, handle, asleep, returned>>

(* The wrapped call panics in the poll of one holder: the entry is not     *)
(* removed, and the holders whose waker is registered - they polled before,*)
(* or while this poll was running - are not woken.                         *)
Panic(f) ==
    /\ MayPanic
    /\ phase[f] \in Unresolved
    /\ \E others \in SUBSET Holders(f) :
          others # Holders(f) /\ asleep' = asleep \cup others
    /\ phase' = [phase EXCEPT ![f] = "panicked"]
    /\ UNCHANGED <<inFlight, key, answer, handle, returned>>

(* A handle polls ready: run returns a clone of the output and drops it. *)
Deliver(c) ==
    /\ handle[c] # None
    /\ phase[handle[c]] = "ready"
    /\ returned' = [returned EXCEPT ![c] = answer[handle[c]]]
    /\ handle' = [handle EXCEPT ![c] = None]
    /\ UNCHANGED <<inFlight, key, phase, answer, asleep>>

ReleaseHandle(c) ==
    /\ handle' = [handle EXCEPT ![c] = None]
    /\ asleep' = asleep \ {c}
    /\ UNCHANGED <<inFlight, key, phase, answer, returned>>

(* Mutant: a dropped caller takes the entry with it. *)
MutantCancelUnregisters(c) ==
    /\ handle[c] # None
    /\ handle' = [handle EXCEPT ![c] = None]
    /\ asleep' = asleep \ {c}
    /\ inFlight' = [inFlight EXCEPT ![key[handle[c]]] = None]
    /\ UNCHANGED <<key, phase, answer, returned>>

(* Mutant: the wrapped call dies with a dropped caller. *)
MutantCancelAborts(c) ==
    /\ handle[c] # None
    /\ handle' = [handle EXCEPT ![c] = None]
    /\ asleep' = asleep \ {c}
    /\ phase' = [phase EXCEPT ![handle[c]] = IF @ \in Unresolved THEN "idle" ELSE @]
    /\ UNCHANGED <<inFlight, key, answer, returned>>

(* The calling task is dropped at its await (client disconnect). *)
Cancel(c) == handle[c] # None /\ ReleaseHandle(c)

(* Polling a poisoned Shared panics in the polling task.  (A sleeper that  *)
(* is polled for another reason takes the step of Cancel: nothing owes it  *)
(* that poll.)                                                             *)
Crash(c) ==
    /\ handle[c] # None
    /\ phase[handle[c]] = "panicked"
    /\ c \notin asleep
    /\ ReleaseHandle(c)

(* The caller uses what run returned and may call again. *)
Finish(c) ==
    /\ returned[c] # None
    /\ returned' = [returned EXCEPT ![c] = None]
    /\ UNCHANGED <<inFlight, key, phase, answer, handle, asleep>>

Run(c) == \E k \in Key : Join(c, k) \/ \E f \in Flight : Drive(c, k, f)

Poll(f) == Start(f) \/ Resolve(f) \/ Panic(f)

Next ==
    \/ \E c \in Caller : Run(c) \/ Deliver(c) \/ Cancel(c) \/ Crash(c) \/ Finish(c)
    \/ \E f \in Flight : Poll(f)
    \/ \E f \in Flight, r \in Result : Answer(f, r)

Spec == Init /\ [][Next]_vars

(* The executor polls a task that was spawned or woken: every holder       *)
(* registers a waker and the wrapped call's wake-up reaches all of them, so*)
(* a flight with a holder is polled whoever else was dropped, and its      *)
(* completion wakes those who wait for it.  A panic wakes nobody: only the *)
(* holder whose poll panicked and those yet to poll are owed a Crash.  The *)
(* upstream answering is an assumption about the wrapped call.             *)
Fairness ==
    /\ \A f \in Flight : WF_vars(Start(f)) /\ WF_vars(Resolve(f))
    /\ \A f \in Flight : WF_vars(\E r \in Result : Answer(f, r))
    /\ \A c \in Caller : WF_vars(Deliver(c)) /\ WF_vars(Crash(c))

FairSpec == Spec /\ Fairness

-----------------------------------------------------------------------------
(* Concurrent calls with one key share a single upstream RPC               *)
(* (coalesce.rs:3): two started calls of one key are never both            *)
(* unresolved.                                                             *)
OneUpstreamCallPerKey ==
    \A f, g \in Flight :
        phase[f] = "sent" /\ phase[g] = "sent" /\ key[f] = key[g] => f = g

(* The entry a flight removes by key is its own: what is registered under  *)
(* a key is that key's flight and holds no output a later caller could     *)
(* pick up; a flight without an output, poisoned ones included, is still   *)
(* registered; a caller awaits a future that was built, or has what run    *)
(* returned, never both; and who sleeps for good awaits a poisoned flight. *)
EntryIsOwnFlight ==
    /\ \A k \in Key : inFlight[k] # None =>
          key[inFlight[k]] = k /\ phase[inFlight[k]] \in Outputless
    /\ \A f \in Flight :
          phase[f] \in Outputless => key[f] \in Key /\ inFlight[key[f]] = f
    /\ \A f \in Flight : phase[f] = "ready" => answer[f] # None
    /\ \A c \in Caller : handle[c] # None =>
          /\ key[handle[c]] \in Key
          /\ phase[handle[c]] # "idle"
          /\ returned[c] = None
    /\ \A c \in asleep : handle[c] # None /\ phase[handle[c]] = "panicked"

(* The inductive invariant: the types and the entries (coalesce.rs:77-84). *)
IInv == TypeOK /\ EntryIsOwnFlight

(* A dropped driver does not strand the waiters (client coalesce.rs:15-18):*)
(* every call ends, whichever of its sharers disappear.  The one exception *)
(* is a panic of the wrapped call in another caller's poll, which leaves   *)
(* the callers registered by then asleep.                                  *)
EveryCallEnds ==
    \A c \in Caller : handle[c] # None ~> handle[c] = None \/ c \in asleep

-----------------------------------------------------------------------------
(* Refinement: a caller is pending while its flight is unresolved (or      *)
(* poisoned) and answered from the moment the flight resolves.             *)
Resolved(c) == handle[c] # None /\ phase[handle[c]] = "ready"

AbsPending == [c \in Caller |-> IF handle[c] # None /\ ~Resolved(c)
                                THEN key[handle[c]] ELSE None]
AbsOutcome == [c \in Caller |-> IF Resolved(c) THEN answer[handle[c]]
                                ELSE returned[c]]

Abstract == INSTANCE CoalescedCall WITH
    NoKey <- None, NoResult <- None, pending <- AbsPending, outcome <- AbsOutcome

(* The map of Shared futures implements coalescing: calls for one key are  *)
(* answered together, by one completion, with one result.                  *)
ImplementsCoalescedCall == Abstract!Spec
=============================================================================
