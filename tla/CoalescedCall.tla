--------------------------- MODULE CoalescedCall ---------------------------
(***************************************************************************)
(* What request coalescing promises its callers, with no flights, handles  *)
(* or maps: calls for one key are pending together, one completion answers *)
(* all of them at once with the same result, and a result is only ever     *)
(* handed to calls that were pending when it was produced.  Singleflight   *)
(* implements this specification.                                          *)
(***************************************************************************)
CONSTANTS Caller,   \* tasks that may call Singleflight::run, one call at a time
          Key,      \* coalescing keys
          Result,   \* what an upstream call can resolve to, errors included
          NoKey, NoResult

VARIABLES pending,  \* pending[c]: the key c is waiting on, or NoKey
          outcome   \* outcome[c]: the result of c's call, or NoResult

vars == <<pending, outcome>>

TypeOK ==
    /\ pending \in [Caller -> Key \cup {NoKey}]
    /\ outcome \in [Caller -> Result \cup {NoResult}]

Idle(c) == pending[c] = NoKey /\ outcome[c] = NoResult

Init ==
    /\ pending = [c \in Caller |-> NoKey]
    /\ outcome = [c \in Caller |-> NoResult]

Call(c, k) ==
    /\ Idle(c)
    /\ pending' = [pending EXCEPT ![c] = k]
    /\ UNCHANGED outcome

(* One upstream call for k resolves: every call pending on k shares it. *)
Complete(k, r) ==
    LET sharers == {c \in Caller : pending[c] = k}
    IN  /\ sharers # {}
        /\ pending' = [c \in Caller |-> IF c \in sharers THEN NoKey ELSE pending[c]]
        /\ outcome' = [c \in Caller |-> IF c \in sharers THEN r ELSE outcome[c]]

(* A call ends without a result: its task was dropped, or the shared       *)
(* future panicked under it.                                               *)
Abandon(c) ==
    /\ ~Idle(c)
    /\ pending' = [pending EXCEPT ![c] = NoKey]
    /\ outcome' = [outcome EXCEPT ![c] = NoResult]

Return(c) ==
    /\ outcome[c] # NoResult
    /\ outcome' = [outcome EXCEPT ![c] = NoResult]
    /\ UNCHANGED pending

Next ==
    \/ \E c \in Caller : Abandon(c) \/ Return(c)
    \/ \E c \in Caller, k \in Key : Call(c, k)
    \/ \E k \in Key, r \in Result : Complete(k, r)

Spec == Init /\ [][Next]_vars
=============================================================================
