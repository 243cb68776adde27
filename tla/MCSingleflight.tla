--------------------------- MODULE MCSingleflight ---------------------------
EXTENDS Singleflight, Naturals

(* Futures are interchangeable: a new one takes the first free identity.   *)
FirstFree ==
    \A f, g \in Flight :
        g < f /\ Free(g) => ~\E c \in Caller, k \in Key : Drive(c, k, f)

MCSpec == Init /\ [][Next /\ FirstFree]_vars /\ Fairness
=============================================================================
