----------------------------- MODULE ProxyServe -----------------------------
(***************************************************************************)
(* The life of the tonin-proxy server: it accepts connections until a      *)
(* shutdown signal and its delay, closes the listener, tells the watched   *)
(* connections to go away, and returns when they have all ended or the     *)
(* drain timer fires.  The process ends with it: the requests still in     *)
(* flight are cut.                                                         *)
(*                                                                         *)
(* The kernel's backlog and hyper's graceful shutdown are modelled from    *)
(* how serve uses them: a connection told to go away takes no new request  *)
(* and ends after its last answer.                                         *)
(***************************************************************************)
CONSTANTS Client, \* clients, with one TCP connection each
          Stream  \* requests of one connection

VARIABLES server,    \* where serve is
          signalled, \* a shutdown signal has arrived
          conn,      \* conn[c]: the state of a connection
          watched,   \* the connections the graceful shutdown watches
          inFlight,  \* the requests received and not answered
          asked,     \* the requests received
          cut        \* the requests the end of the process cut

serveVars == <<server, signalled, conn, watched, inFlight, asked, cut>>

Request == Client \X Stream

ServeTypeOK ==
    /\ server \in {"accepting", "draining", "drained", "late", "failed"}
    /\ signalled \in BOOLEAN
    /\ conn \in [Client -> {"new", "queued", "open", "goaway", "closed"}]
    /\ watched \subseteq Client
    /\ inFlight \subseteq asked /\ asked \subseteq Request /\ cut \subseteq asked

ServeInit ==
    /\ server = "accepting"
    /\ signalled = FALSE
    /\ conn = [c \in Client |-> "new"]
    /\ watched = {}
    /\ inFlight = {} /\ asked = {} /\ cut = {}

Serving == server \in {"accepting", "draining"}

(* The requests in flight on c. *)
On(c) == {r \in inFlight : r[1] = c}

(* serve has returned, and the process ends. *)
Exit(how) ==
    /\ server' = how
    /\ conn' = [c \in Client |-> "closed"]
    /\ watched' = {}
    /\ cut' = cut \cup inFlight
    /\ inFlight' = {}
    /\ UNCHANGED <<signalled, asked>>

-----------------------------------------------------------------------------
(* The kernel completes a handshake for the listening socket. *)
Connect(c) ==
    /\ server = "accepting" /\ conn[c] = "new"
    /\ conn' = [conn EXCEPT ![c] = "queued"]
    /\ UNCHANGED <<server, signalled, watched, inFlight, asked, cut>>

(* Mutant: the connection is served without being watched. *)
MutantAccept(c) ==
    /\ server = "accepting" /\ conn[c] = "queued"
    /\ conn' = [conn EXCEPT ![c] = "open"]
    /\ UNCHANGED <<server, signalled, watched, inFlight, asked, cut>>

Accept(c) ==
    /\ server = "accepting" /\ conn[c] = "queued"
    /\ conn' = [conn EXCEPT ![c] = "open"]
    /\ watched' = watched \cup {c}
    /\ UNCHANGED <<server, signalled, inFlight, asked, cut>>

(* accept reports an error, of one connection or of the process. *)
AcceptFails == server = "accepting" /\ Exit("failed")

Receive(r) ==
    /\ conn[r[1]] = "open" /\ r \notin asked
    /\ inFlight' = inFlight \cup {r}
    /\ asked' = asked \cup {r}
    /\ UNCHANGED <<server, signalled, conn, watched, cut>>

Answer(r) ==
    /\ r \in inFlight
    /\ inFlight' = inFlight \ {r}
    /\ UNCHANGED <<server, signalled, conn, watched, asked, cut>>

(* The client closes the connection, or it goes away with nothing left.    *)
ConnEnds(c) ==
    /\ conn[c] \in {"open", "goaway"}
    /\ conn' = [conn EXCEPT ![c] = "closed"]
    /\ watched' = watched \ {c}
    /\ inFlight' = inFlight \ On(c)
    /\ UNCHANGED <<server, signalled, asked, cut>>

Signal ==
    /\ server = "accepting" /\ ~signalled
    /\ signalled' = TRUE
    /\ UNCHANGED <<server, conn, watched, inFlight, asked, cut>>

(* The delay is over: the listener is dropped with its backlog, and the    *)
(* watched connections are told to go away.                                *)
StopAccepting ==
    /\ server = "accepting" /\ signalled
    /\ server' = "draining"
    /\ conn' = [c \in Client |-> CASE conn[c] = "queued" -> "closed"
                                 [] c \in watched -> "goaway"
                                 [] OTHER -> conn[c]]
    /\ UNCHANGED <<signalled, watched, inFlight, asked, cut>>

Drained == server = "draining" /\ watched = {} /\ Exit("drained")

(* Mutant: the drain waits for the connections alone. *)
MutantNoTimeout == server = "draining" /\ watched = {} /\ Exit("late")

DrainTimesOut == server = "draining" /\ Exit("late")

ServeNext ==
    \/ \E c \in Client : Connect(c) \/ Accept(c) \/ ConnEnds(c)
    \/ \E r \in Request : Receive(r) \/ Answer(r)
    \/ AcceptFails \/ Signal \/ StopAccepting \/ Drained \/ DrainTimesOut

ServeSpec == ServeInit /\ [][ServeNext]_serveVars

(* The two timers fire; nothing makes an upstream answer or a client leave. *)
FairServeSpec == ServeSpec /\ WF_serveVars(StopAccepting) /\ WF_serveVars(DrainTimesOut)

-----------------------------------------------------------------------------
(* The inductive invariant: the watched connections are exactly those that *)
(* are open, a request is in flight only on one of them, and once the      *)
(* listener is dropped each of them has been told to go away               *)
(* (proxy.rs:143-166).                                                     *)
ServeIInv ==
    /\ ServeTypeOK
    /\ watched = {c \in Client : conn[c] \in {"open", "goaway"}}
    /\ \A r \in inFlight : r[1] \in watched
    /\ server = "draining" => \A c \in Client : conn[c] \notin {"queued", "open"}
    /\ cut # {} => server \in {"late", "failed"}

(* A drain that ends before its timer has answered every request: the      *)
(* shutdown watches each connection from its accept to its end, so none    *)
(* can be in flight on one it does not know of (proxy.rs:147-166).         *)
DrainLosesNothing == server = "drained" => cut = {}

(* After a signal the proxy exits, even when an upstream never answers a   *)
(* request in flight: nothing in handle bounds the upstream call           *)
(* (proxy.rs:165-170).                                                     *)
ShutdownEnds == signalled ~> ~Serving
=============================================================================
