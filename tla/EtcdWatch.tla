----------------------------- MODULE EtcdWatch -----------------------------
(***************************************************************************)
(* The watcher tonin-config-etcd spawns for each EtcdConfig::watch: a loop *)
(* of sessions, each a GET that seeds the channel and then a WATCH from    *)
(* the revision the key has when etcd creates it.  A session that fails is *)
(* followed by a backoff and a new one; a session that ends, ends the      *)
(* watcher.                                                                *)
(*                                                                         *)
(* Values are numbered as in ConfigWatch.  The delays of the backoff are   *)
(* left out: a step may take any time.                                     *)
(***************************************************************************)
EXTENDS Naturals

CONSTANTS MaxRev,       \* bound on the changes of the key
          MaxErrors,    \* bound on the failures of calls and streams
          StreamMayEnd  \* etcd closes a watch stream without an error

ASSUME EtcdAssumption ==
    /\ MaxRev \in Nat \ {0}
    /\ MaxErrors \in Nat
    /\ StreamMayEnd \in BOOLEAN

VARIABLES rev,     \* the change that wrote the key's present value
          seen,    \* the value in the channel
          pc,      \* where the watcher is
          got,     \* the value its GET returned
          from,    \* the last change its stream has delivered or skipped
          open,    \* some receiver of the channel is alive
          errors   \* failures so far

vars == <<rev, seen, pc, got, from, open, errors>>

TypeOK ==
    /\ rev \in 1 .. MaxRev
    /\ seen \in 0 .. MaxRev
    /\ pc \in {"top", "get", "seed", "subscribe", "stream", "backoff", "stopped"}
    /\ got \in 0 .. MaxRev
    /\ from \in 0 .. MaxRev
    /\ open \in BOOLEAN
    /\ errors \in 0 .. MaxErrors

Init ==
    /\ rev = 1
    /\ seen = 0
    /\ pc = "top"
    /\ got = 0
    /\ from = 0
    /\ open = TRUE
    /\ errors = 0

(* A step of the watcher from one place of the code to another. *)
Goto(here, there) == pc = here /\ pc' = there /\ UNCHANGED <<rev, open>>

(* A call or the stream fails with an error, and the session with it. *)
Fail(here) ==
    /\ Goto(here, "backoff")
    /\ errors < MaxErrors
    /\ errors' = errors + 1
    /\ UNCHANGED <<seen, got, from>>

(* tx.send: without a receiver it fails, and the watcher returns. *)
Send(here, there, value) ==
    /\ IF open
         THEN Goto(here, there) /\ seen' = value
         ELSE Goto(here, "stopped") /\ UNCHANGED seen
    /\ UNCHANGED errors

-----------------------------------------------------------------------------
(* The top of watch_loop. *)
Begin ==
    /\ Goto("top", IF open THEN "get" ELSE "stopped")
    /\ UNCHANGED <<seen, got, from, errors>>

(* A linearizable GET. *)
Get ==
    /\ Goto("get", "seed")
    /\ got' = rev
    /\ UNCHANGED <<seen, from, errors>>

Seed ==
    /\ Send("seed", "subscribe", got)
    /\ UNCHANGED <<got, from>>

(* Mutant: the watch starts at the first revision of the key. *)
MutantSubscribeFromStart ==
    /\ Goto("subscribe", "stream")
    /\ from' = 0
    /\ UNCHANGED <<seen, got, errors>>

(* etcd creates the watch at its present revision: a change made since the *)
(* GET is not delivered.                                                   *)
Subscribe ==
    /\ Goto("subscribe", "stream")
    /\ from' = rev
    /\ UNCHANGED <<seen, got, errors>>

(* The stream delivers the changes of the key in order. *)
Deliver ==
    /\ from < rev
    /\ Send("stream", "stream", from + 1)
    /\ from' = from + 1
    /\ UNCHANGED got

(* message() returns None: the session returns Ok, and watch_loop too. *)
StreamEnds ==
    /\ StreamMayEnd
    /\ Goto("stream", "stopped")
    /\ UNCHANGED <<seen, got, from, errors>>

GetFails == Fail("get")
SubscribeFails == Fail("subscribe")

(* Mutant: the next session subscribes again without a GET. *)
MutantResume ==
    /\ Goto("stream", "subscribe")
    /\ errors < MaxErrors
    /\ errors' = errors + 1
    /\ UNCHANGED <<seen, got, from>>

StreamFails == Fail("stream")

Retry ==
    /\ Goto("backoff", "top")
    /\ UNCHANGED <<seen, got, from, errors>>

(* Mutant: only the backoff is interrupted. *)
MutantClosedInBackoff ==
    /\ ~open
    /\ Goto("backoff", "stopped")
    /\ UNCHANGED <<seen, got, from, errors>>

(* tx.closed() wins a select. *)
Closed ==
    /\ ~open
    /\ Goto("stream", "stopped") \/ Goto("backoff", "stopped")
    /\ UNCHANGED <<seen, got, from, errors>>

Proceed == Begin \/ Get \/ Seed \/ Subscribe \/ Deliver \/ Retry \/ Closed

Break == GetFails \/ SubscribeFails \/ StreamFails \/ StreamEnds

(* A client of etcd changes the key. *)
Change ==
    /\ rev < MaxRev
    /\ rev' = rev + 1
    /\ UNCHANGED <<seen, pc, got, from, open, errors>>

(* The last receiver is dropped. *)
Unsubscribe ==
    /\ open
    /\ open' = FALSE
    /\ UNCHANGED <<rev, seen, pc, got, from, errors>>

Next == Proceed \/ Break \/ Change \/ Unsubscribe

Spec == Init /\ [][Next]_vars

(* The watcher is a spawned task, and etcd answers a call that does not    *)
(* fail; nothing makes a call fail or a stream end.                        *)
FairSpec == Spec /\ WF_vars(Proceed)

-----------------------------------------------------------------------------
(* Along a session the channel, the GET and the stream only move forward,  *)
(* so a value that is sent is never older than the one it replaces         *)
(* (lib.rs:389-416).                                                       *)
IInv ==
    /\ TypeOK
    /\ seen <= rev /\ got <= rev /\ from <= rev
    /\ pc = "seed" => seen <= got
    /\ pc = "stream" => seen <= from

Contract == INSTANCE ConfigWatch

(* The channel shows values the key has held, never an older one after a   *)
(* newer, across failures and reconnections (traits/config.rs:40-42).      *)
ImplementsConfigWatch == Contract!Spec

(* A change that etcd has still to deliver on a stream is shown, or a      *)
(* newer one is, even when the stream fails first (lib.rs:37-41).          *)
DeliversPending ==
    \A r \in 1 .. MaxRev :
        (pc = "stream" /\ from < r /\ r <= rev) ~> (seen >= r \/ pc = "stopped")

(* "Implementations shut down their watcher when the last receiver goes    *)
(* away" (traits/config.rs:53-54).                                         *)
UnsubscribeStops == ~open ~> pc = "stopped"

(* "Emits the current value ... and again on every backend-observed        *)
(* change" (traits/config.rs:40-42): once the key is left alone, a channel *)
(* with receivers comes to show its value.                                 *)
EventuallyCurrent == <>[](seen = rev \/ ~open)
=============================================================================
