--------------------------- MODULE MCProxyHandle ---------------------------
EXTENDS ProxyHandle

(* Liveness rules symmetry out.  Futures are interchangeable, so a new one *)
(* takes the first free identity.                                          *)
DriveFirst(t, f) ==
    /\ Drive(t, f)
    /\ \A g \in Flight : g < f => ~Free(g)

MCNext ==
    \/ \E t \in Task : Advance(t) \/ \E f \in Flight : DriveFirst(t, f)
    \/ \E f \in Flight : Poll(f)
    \/ Environment

MCFairSpec == Init /\ [][MCNext]_vars /\ Fairness
=============================================================================
