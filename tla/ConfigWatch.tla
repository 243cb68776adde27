---------------------------- MODULE ConfigWatch ----------------------------
(***************************************************************************)
(* What Config::watch promises its receivers whatever the backend: the     *)
(* channel shows values the backend has held, and never goes back to an    *)
(* older one.  Values are numbered by the change that wrote them, a        *)
(* deletion included; 0 is the None the channel is created with.           *)
(***************************************************************************)
EXTENDS Naturals

VARIABLES rev,   \* the change that wrote the backend's present value
          seen   \* the value in the channel

vars == <<rev, seen>>

Init == rev = 1 /\ seen = 0

Change == rev' = rev + 1 /\ UNCHANGED seen

Emit == seen' \in seen .. rev /\ UNCHANGED rev

Next == Change \/ Emit

Spec == Init /\ [][Next]_vars
=============================================================================
