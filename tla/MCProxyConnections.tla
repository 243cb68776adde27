------------------------- MODULE MCProxyConnections -------------------------
(***************************************************************************)
(* The proxy's connections checked in one run: those of its clients and    *)
(* its pool towards the upstream.  The two share no state and no step of   *)
(* one reads the other, so nothing is lost by letting each move only while *)
(* the other is as it started.                                             *)
(***************************************************************************)
EXTENDS ConnectionPool, ProxyServe

PoolStep(A) == ServeInit /\ A /\ UNCHANGED serveVars
ServeStep(A) == Init /\ A /\ UNCHANGED vars

MCNext == PoolStep(Next) \/ ServeStep(ServeNext)

MCInit == Init /\ ServeInit

MCSpec ==
    /\ MCInit
    /\ [][MCNext]_<<vars, serveVars>>
    /\ \A t \in Task : WF_vars(PoolStep(Proceed(t)))
    /\ \A c \in Conn : WF_vars(PoolStep(PingTimesOut(c)))
    /\ WF_serveVars(ServeStep(StopAccepting))
    /\ WF_serveVars(ServeStep(DrainTimesOut))
=============================================================================
