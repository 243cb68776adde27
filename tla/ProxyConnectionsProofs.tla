----------------------- MODULE ProxyConnectionsProofs -----------------------
(***************************************************************************)
(* The connections of the proxy.  A usable upstream connection is never    *)
(* thrown out of its slot, and every request in flight is on the one its   *)
(* slot holds; the server knows of every client connection with a request  *)
(* in flight, so a drain that ends by itself loses none.                   *)
(***************************************************************************)
EXTENDS ConnectionPool, ProxyServe, TLAPS

(* What sending a request on c does: t is on the connection of its slot,   *)
(* and no connection comes back to life (pool.rs:121-139).                 *)
LEMMA SendOnKeeps ==
    ASSUME IInv,
           NEW t \in Task, NEW c \in Conn,
           pc[t] \in {"look", "store"},
           slot' \in [Slot -> Conn \cup {None}],
           slot'[at[t]] = c,
           \A s \in Slot : slot'[s] = slot[s] \/ ~Usable(s),
           SendOn(t, c)
    PROVE  IInv'
<1>1. TypeOK'
  BY PoolAssumption DEF IInv, TypeOK, SendOn, Goto, DropUnreferenced
<1>2. (\A u \in Task : mine[u] \in Conn <=> pc[u] \in {"store", "use"})'
  BY PoolAssumption DEF IInv, TypeOK, SendOn, Goto
<1>3. LiveUsesPooled'
  <2>1. SUFFICES ASSUME NEW u \in Task, pc'[u] = "use", link'[mine'[u]] # "closed"
                 PROVE  slot'[at'[u]] = mine'[u]
    BY DEF LiveUsesPooled
  <2>2. CASE u = t
    BY <2>2 DEF IInv, TypeOK, SendOn
  <2>3. CASE u # t
    <3>1. pc[u] = "use" /\ mine'[u] = mine[u] /\ at'[u] = at[u]
      BY <2>1, <2>3 DEF IInv, TypeOK, SendOn, Goto
    <3>2. mine[u] \in Conn /\ link[mine[u]] # "closed"
      BY <2>1, <3>1 DEF IInv, TypeOK, SendOn, DropUnreferenced
    <3>3. slot[at[u]] = mine[u] /\ Usable(at[u])
      BY <3>1, <3>2, PoolAssumption DEF IInv, LiveUsesPooled, Usable
    <3> QED
      BY <3>1, <3>3 DEF IInv, TypeOK
  <2> QED
    BY <2>2, <2>3
<1> QED
  BY <1>1, <1>2, <1>3 DEF IInv

(* Ending a send_request drops its sender clone and keeps IInv             *)
(* (pool.rs:145-195).                                                      *)
LEMMA LeaveKeeps ==
    ASSUME IInv,
           NEW t \in Task,
           Leave(t)
    PROVE  IInv'
<1>1. TypeOK'
  <2>1. 0 \in Slot
    BY PoolAssumption DEF Slot
  <2> QED
    BY <2>1 DEF IInv, TypeOK, Leave, Goto, DropUnreferenced
<1>2. (\A u \in Task : mine[u] \in Conn <=> pc[u] \in {"store", "use"})'
  BY PoolAssumption DEF IInv, TypeOK, Leave, Goto
<1>3. LiveUsesPooled'
  BY DEF IInv, TypeOK, LiveUsesPooled, Leave, Goto, DropUnreferenced
<1> QED
  BY <1>1, <1>2, <1>3 DEF IInv

(* The initial pool is empty (pool.rs:56-75).                              *)
LEMMA InitIInv == Init => IInv
<1> SUFFICES ASSUME Init PROVE IInv
  OBVIOUS
<1>1. 0 \in Slot
  BY PoolAssumption DEF Slot
<1> QED
  BY <1>1, PoolAssumption DEF Init, IInv, TypeOK, LiveUsesPooled

(* Every step keeps the inductive invariant (pool.rs:77-195).              *)
LEMMA NextIInv == IInv /\ [Next]_vars => IInv'
<1> SUFFICES ASSUME IInv, [Next]_vars PROVE IInv'
  OBVIOUS
<1>1. ASSUME NEW t \in Task, Pick(t) PROVE IInv'
  <2>1. (next + 1) % Size \in Slot
    BY PoolAssumption DEF IInv, TypeOK, Slot
  <2> QED
    BY <1>1, <2>1 DEF IInv, TypeOK, LiveUsesPooled, Pick, Goto
<1>2. ASSUME NEW t \in Task, Reuse(t) PROVE IInv'
  <2>1. at[t] \in Slot /\ slot[at[t]] \in Conn /\ slot' \in [Slot -> Conn \cup {None}]
    BY <1>2 DEF IInv, TypeOK, Reuse, Usable
  <2> QED
    BY <1>2, <2>1, SendOnKeeps DEF Reuse
<1>3. ASSUME NEW t \in Task, Reconnect(t) PROVE IInv'
  BY <1>3 DEF IInv, TypeOK, LiveUsesPooled, Reconnect, Goto
<1>4. ASSUME NEW t \in Task, NEW c \in Conn, Connected(t, c) PROVE IInv'
  BY <1>4 DEF IInv, TypeOK, LiveUsesPooled, Connected, Referenced, Goto
<1>5. ASSUME NEW t \in Task, Store(t) PROVE IInv'
  <2>1. at[t] \in Slot /\ mine[t] \in Conn
    BY <1>5 DEF IInv, TypeOK, Store
  <2>2. /\ slot' \in [Slot -> Conn \cup {None}]
        /\ slot'[at[t]] = mine[t]
        /\ \A s \in Slot : slot'[s] = slot[s] \/ ~Usable(s)
    BY <1>5, <2>1 DEF IInv, TypeOK, Store
  <2> QED
    BY <1>5, <2>1, <2>2, SendOnKeeps DEF Store
<1>6. ASSUME NEW t \in Task, UseExisting(t) PROVE IInv'
  <2>1. at[t] \in Slot /\ slot[at[t]] \in Conn /\ slot' \in [Slot -> Conn \cup {None}]
    BY <1>6 DEF IInv, TypeOK, UseExisting, Usable
  <2> QED
    BY <1>6, <2>1, SendOnKeeps DEF UseExisting
<1>7. ASSUME NEW t \in Task,
             ConnectFails(t) \/ Answered(t) \/ Fails(t) \/ Cancel(t)
      PROVE  IInv'
  BY <1>7, LeaveKeeps DEF ConnectFails, Answered, Fails, Cancel
<1>8. ASSUME NEW c \in Conn, PeerCloses(c) \/ PeerLost(c) \/ PingTimesOut(c)
      PROVE  IInv'
  BY <1>8 DEF IInv, TypeOK, LiveUsesPooled, PeerCloses, PeerLost, PingTimesOut
<1>9. CASE UNCHANGED vars
  BY <1>9 DEF IInv, TypeOK, LiveUsesPooled, vars
<1> QED
  BY <1>1, <1>2, <1>3, <1>4, <1>5, <1>6, <1>7, <1>8, <1>9
  DEF Next, Proceed, Connecting

(* IInv is an invariant, whatever the number of slots, connections and     *)
(* requests (pool.rs:77-195).                                              *)
THEOREM Invariance == Spec => []IInv
BY InitIInv, NextIInv, PTL DEF Spec

(* A request in flight is on the connection of its slot or on one that has *)
(* closed (pool.rs:121-139).                                               *)
THEOREM Pooled == Spec => []LiveUsesPooled
<1>1. IInv => LiveUsesPooled
  BY DEF IInv
<1> QED
  BY <1>1, Invariance, PTL

(* However requests race to reconnect a slot, a usable connection stays in *)
(* it (pool.rs:128-138).                                                   *)
THEOREM UsableStays == Spec => LiveNeverReplaced
<1>1. ASSUME IInv, [Next]_vars
      PROVE  \A s \in Slot : slot'[s] # slot[s] => ~Usable(s)
  <2>1. ASSUME NEW t \in Task, Store(t)
        PROVE  \A s \in Slot : slot'[s] # slot[s] => ~Usable(s)
    BY <1>1, <2>1 DEF IInv, TypeOK, Store
  <2>2. ASSUME ~\E t \in Task : Store(t) PROVE slot' = slot
    BY <1>1, <2>2 DEF Next, Proceed, Connecting, vars, Pick, Reuse, Reconnect,
       Connected, ConnectFails, UseExisting, Answered, Fails, Cancel, Leave,
       PeerCloses, PeerLost, PingTimesOut
  <2> QED
    BY <2>1, <2>2
<1> QED
  BY <1>1, Invariance, PTL DEF Spec, LiveNeverReplaced

-----------------------------------------------------------------------------
(* No connection is watched, and none is open (proxy.rs:132-143).          *)
LEMMA ServeInitIInv == ServeInit => ServeIInv
BY DEF ServeInit, ServeIInv, ServeTypeOK

(* The end of the process closes every connection (proxy.rs:165-172).      *)
LEMMA ExitKeeps ==
    ASSUME ServeIInv, NEW how \in {"drained", "late", "failed"}, Exit(how),
           how = "drained" => watched = {} /\ server = "draining"
    PROVE  ServeIInv'
<1> USE DEF ServeIInv, ServeTypeOK, Exit
<1>1. ServeTypeOK'
  OBVIOUS
<1>2. cut' # {} => server' \in {"late", "failed"}
  <2>1. CASE how = "drained"
    <3>1. inFlight = {} /\ cut = {}
      BY <2>1
    <3> QED
      BY <3>1
  <2>2. CASE how # "drained"
    BY <2>2
  <2> QED
    BY <2>1, <2>2
<1> QED
  BY <1>1, <1>2

(* Every step keeps the inductive invariant (proxy.rs:132-172).            *)
LEMMA ServeStepIInv == ServeIInv /\ [ServeNext]_serveVars => ServeIInv'
<1> SUFFICES ASSUME ServeIInv, [ServeNext]_serveVars PROVE ServeIInv'
    OBVIOUS
<1> USE DEF ServeIInv, ServeTypeOK
<1>1. ASSUME NEW c \in Client, Connect(c) \/ Accept(c) PROVE ServeIInv'
  BY <1>1 DEF Connect, Accept
<1>2. ASSUME NEW c \in Client, ConnEnds(c) PROVE ServeIInv'
  BY <1>2 DEF ConnEnds, On
<1>3. ASSUME NEW r \in Request, Receive(r) \/ Answer(r) PROVE ServeIInv'
  BY <1>3 DEF Receive, Answer, Request
<1>4. CASE AcceptFails \/ Drained \/ DrainTimesOut
  BY <1>4, ExitKeeps DEF AcceptFails, Drained, DrainTimesOut
<1>5. CASE Signal
  BY <1>5 DEF Signal
<1>6. CASE StopAccepting
  BY <1>6 DEF StopAccepting
<1>7. CASE UNCHANGED serveVars
  BY <1>7 DEF serveVars
<1> QED
  BY <1>1, <1>2, <1>3, <1>4, <1>5, <1>6, <1>7 DEF ServeNext

(* ServeIInv is an invariant for any number of clients and requests        *)
(* (proxy.rs:132-172).                                                     *)
THEOREM Watched == ServeSpec => []ServeIInv
BY ServeInitIInv, ServeStepIInv, PTL DEF ServeSpec

(* A drain that ends before its timer has cut no request                   *)
(* (proxy.rs:147-166).                                                     *)
THEOREM DrainComplete == ServeSpec => []DrainLosesNothing
<1>1. ServeIInv => DrainLosesNothing
  BY DEF ServeIInv, DrainLosesNothing
<1> QED
  BY <1>1, Watched, PTL
=============================================================================
