--------------------------- MODULE ConnectionPool ---------------------------
(***************************************************************************)
(* ConnectionPool of tonin-proxy: a fixed array of slots, each a mutex     *)
(* around an optional HTTP/2 sender, used round-robin.  A request looks at *)
(* its slot under the lock, connects without it if the slot has no live    *)
(* connection, and looks again before it stores; the sender is a clone, so *)
(* no lock is held while the request is in flight.                         *)
(*                                                                         *)
(* A connection can be closed by the peer, or be lost silently: then       *)
(* is_closed() stays false and its requests hang until a keep-alive PING   *)
(* goes unacknowledged.                                                    *)
(***************************************************************************)
EXTENDS Naturals, FiniteSets

CONSTANTS Task,       \* send_request calls, one at a time each
          Conn,       \* identities of connections, reused once unreferenced
          Size,       \* opts.size
          KeepAlive,  \* keepalive_interval is Some
          None

ASSUME PoolAssumption ==
    /\ Size \in Nat \ {0}
    /\ KeepAlive \in BOOLEAN
    /\ None \notin Conn

Slot == 0 .. Size - 1

VARIABLES next,   \* the round-robin counter, modulo the number of slots
          slot,   \* slot[s]: the connection in slot s, or None
          link,   \* link[c]: how connection c is
          pc,     \* pc[t]: where t is in sender and send_request
          at,     \* at[t]: the slot t picked
          mine    \* mine[t]: the sender clone t holds, or None

vars == <<next, slot, link, pc, at, mine>>

TypeOK ==
    /\ next \in Slot
    /\ slot \in [Slot -> Conn \cup {None}]
    /\ link \in [Conn -> {"open", "lost", "closed"}]
    /\ pc \in [Task -> {"idle", "look", "connect", "store", "use"}]
    /\ at \in [Task -> Slot]
    /\ mine \in [Task -> Conn \cup {None}]

Init ==
    /\ next = 0
    /\ slot = [s \in Slot |-> None]
    /\ link = [c \in Conn |-> "closed"]
    /\ pc = [t \in Task |-> "idle"]
    /\ at = [t \in Task |-> 0]
    /\ mine = [t \in Task |-> None]

(* The slot holds a connection that is not known to be closed. *)
Usable(s) == slot[s] # None /\ link[slot[s]] # "closed"

Referenced(c) == (\E s \in Slot : slot[s] = c) \/ (\E t \in Task : mine[t] = c)

(* A connection ends with its last sender clone. *)
DropUnreferenced ==
    link' = [c \in Conn |-> IF Referenced(c)' THEN link[c] ELSE "closed"]

Goto(t, label) == pc' = [pc EXCEPT ![t] = label]

(* t has a sender: it sends its request. *)
SendOn(t, c) ==
    /\ mine' = [mine EXCEPT ![t] = c]
    /\ Goto(t, "use")
    /\ UNCHANGED <<next, at>>
    /\ DropUnreferenced

(* send_request is over: the sender clone is dropped. *)
Leave(t) ==
    /\ Goto(t, "idle")
    /\ at' = [at EXCEPT ![t] = 0]
    /\ mine' = [mine EXCEPT ![t] = None]
    /\ UNCHANGED <<next, slot>>
    /\ DropUnreferenced

-----------------------------------------------------------------------------
Pick(t) ==
    /\ pc[t] = "idle"
    /\ at' = [at EXCEPT ![t] = next]
    /\ next' = (next + 1) % Size
    /\ Goto(t, "look")
    /\ UNCHANGED <<slot, link, mine>>

Reuse(t) ==
    /\ pc[t] = "look"
    /\ Usable(at[t])
    /\ UNCHANGED slot
    /\ SendOn(t, slot[at[t]])

Reconnect(t) ==
    /\ pc[t] = "look"
    /\ ~Usable(at[t])
    /\ Goto(t, "connect")
    /\ UNCHANGED <<next, slot, link, at, mine>>

(* TCP connect and handshake, with no lock held, within connect_timeout.   *)
Connected(t, c) ==
    /\ pc[t] = "connect"
    /\ ~Referenced(c)
    /\ link' = [link EXCEPT ![c] = "open"]
    /\ mine' = [mine EXCEPT ![t] = c]
    /\ Goto(t, "store")
    /\ UNCHANGED <<next, slot, at>>

ConnectFails(t) == pc[t] = "connect" /\ Leave(t)

(* Mutant: the second look at the slot is left out. *)
MutantStoreBlindly(t) ==
    /\ pc[t] = "store"
    /\ slot' = [slot EXCEPT ![at[t]] = mine[t]]
    /\ SendOn(t, mine[t])

(* The lock again: fill the slot, unless another request has meanwhile. *)
Store(t) ==
    /\ pc[t] = "store"
    /\ ~Usable(at[t])
    /\ slot' = [slot EXCEPT ![at[t]] = mine[t]]
    /\ SendOn(t, mine[t])

(* Mutant: the request keeps its own connection. *)
MutantUseFresh(t) ==
    /\ pc[t] = "store"
    /\ Usable(at[t])
    /\ UNCHANGED slot
    /\ SendOn(t, mine[t])

UseExisting(t) ==
    /\ pc[t] = "store"
    /\ Usable(at[t])
    /\ UNCHANGED slot
    /\ SendOn(t, slot[at[t]])

(* The upstream answers, or the connection the request is on is closed. *)
Answered(t) == pc[t] = "use" /\ link[mine[t]] = "open" /\ Leave(t)
Fails(t) == pc[t] = "use" /\ link[mine[t]] = "closed" /\ Leave(t)

(* The task is dropped at one of its awaits. *)
Cancel(t) == pc[t] \in {"connect", "use"} /\ Leave(t)

-----------------------------------------------------------------------------
(* The peer closes the connection, or goes away without a word. *)
PeerCloses(c) ==
    /\ link[c] = "open"
    /\ link' = [link EXCEPT ![c] = "closed"]
    /\ UNCHANGED <<next, slot, pc, at, mine>>

PeerLost(c) ==
    /\ link[c] = "open"
    /\ link' = [link EXCEPT ![c] = "lost"]
    /\ UNCHANGED <<next, slot, pc, at, mine>>

(* Mutant: only connections with no request in flight are pinged. *)
MutantPingIdleOnly(c) ==
    /\ KeepAlive
    /\ link[c] = "lost"
    /\ \A t \in Task : mine[t] # c
    /\ link' = [link EXCEPT ![c] = "closed"]
    /\ UNCHANGED <<next, slot, pc, at, mine>>

(* A PING is not acknowledged within keepalive_timeout. *)
PingTimesOut(c) ==
    /\ KeepAlive
    /\ link[c] = "lost"
    /\ link' = [link EXCEPT ![c] = "closed"]
    /\ UNCHANGED <<next, slot, pc, at, mine>>

Connecting(t) == ConnectFails(t) \/ \E c \in Conn : Connected(t, c)

Proceed(t) ==
    \/ Reuse(t) \/ Reconnect(t) \/ Connecting(t) \/ Store(t) \/ UseExisting(t)
    \/ Answered(t) \/ Fails(t)

Next ==
    \/ \E t \in Task : Pick(t) \/ Proceed(t) \/ Cancel(t)
    \/ \E c \in Conn : PeerCloses(c) \/ PeerLost(c) \/ PingTimesOut(c)

Spec == Init /\ [][Next]_vars

(* Connecting ends within connect_timeout, a live upstream answers, and    *)
(* the connection task of hyper sends its PINGs.                           *)
Fairness ==
    /\ \A t \in Task : WF_vars(Proceed(t))
    /\ \A c \in Conn : WF_vars(PingTimesOut(c))

FairSpec == Spec /\ Fairness

-----------------------------------------------------------------------------
(* "The pool holds up to size persistent HTTP/2 connections" (pool.rs:3):  *)
(* however requests race to reconnect a slot, a request in flight is on    *)
(* its slot's connection or on one that has closed since.                  *)
LiveUsesPooled ==
    \A t \in Task : pc[t] = "use" =>
        slot[at[t]] = mine[t] \/ link[mine[t]] = "closed"

(* The inductive invariant: the types, the sender a request holds from the *)
(* handshake on (pool.rs:121-139), and LiveUsesPooled.                     *)
IInv ==
    /\ TypeOK
    /\ \A t \in Task : mine[t] \in Conn <=> pc[t] \in {"store", "use"}
    /\ LiveUsesPooled

(* Two requests that reconnect one slot at a time: the later never throws  *)
(* out the connection the earlier has stored while it is usable            *)
(* (pool.rs:128-138).                                                      *)
LiveNeverReplaced ==
    [][\A s \in Slot : slot'[s] # slot[s] => ~Usable(s)]_vars

(* PINGs detect dead connections "instead of hanging the next request"     *)
(* (pool.rs:10-12): every send_request ends.                               *)
EveryRequestEnds == \A t \in Task : pc[t] # "idle" ~> pc[t] = "idle"
=============================================================================
