----------------------------- MODULE MCRequests ------------------------------
(***************************************************************************)
(* What concurrent requests of one process share, checked in one run: the  *)
(* proxy's handle over two keys, the coalescing client's call, and the     *)
(* keys and the token that tonin-sdk keeps.  They share no state and no    *)
(* step of one reads another, so each moves only while the others are as   *)
(* they started: each passes through all its states, and their product is  *)
(* never built.                                                            *)
(***************************************************************************)
EXTENDS ProxyHandle, ClientCall, AuthService, TokenMinter, TLC

sdkVars == <<authVars, minterVars>>

ClientRests == ClientInit /\ ~coalesce /\ ~caching

MCInit == Init /\ ClientInit /\ AuthInit /\ MinterInit

HandleMoves ==
    /\ ClientRests /\ AuthInit /\ MinterInit
    /\ Next /\ UNCHANGED <<clientVars, sdkVars>>

ClientMoves ==
    /\ Init /\ AuthInit /\ MinterInit
    /\ ClientNext /\ UNCHANGED <<vars, sdkVars>>

AuthMoves ==
    /\ Init /\ ClientRests /\ MinterInit
    /\ AuthNext /\ UNCHANGED <<vars, clientVars, minterVars>>

MinterMoves ==
    /\ Init /\ ClientRests /\ AuthInit
    /\ MinterNext /\ UNCHANGED <<vars, clientVars, authVars>>

MCNext == HandleMoves \/ ClientMoves \/ AuthMoves \/ MinterMoves

MCSpec == MCInit /\ [][MCNext]_<<vars, clientVars, sdkVars>>

(* The same tasks make all the requests. *)
MCSymmetry == Permutations(Task) \cup Permutations(Key) \cup Permutations(Flight)
=============================================================================
