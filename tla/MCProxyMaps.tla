---------------------------- MODULE MCProxyMaps -----------------------------
(***************************************************************************)
(* The two shared maps of the proxy checked in one run.  They share no     *)
(* state and no step of one reads the other, so nothing is lost by letting *)
(* each move only while the other is as it started: either map still       *)
(* passes through all its states, and their product is never built.        *)
(***************************************************************************)
EXTENDS ResponseCache, CircuitBreaker, TLC

CONSTANT k1

MCInit == CacheInit /\ arg = [c \in Thread |-> k1] /\ Init

CacheAtRest == clock = 0 /\ Stored = {} /\ \A c \in Thread : step[c] = "idle" /\ arg[c] = k1
BreakerAtRest == now = 0 /\ entry = None /\ \A c \in Caller : pc[c] = "idle"

MCNext ==
    \/ BreakerAtRest /\ CacheNext /\ UNCHANGED vars
    \/ CacheAtRest /\ Next /\ UNCHANGED cacheVars

MCSpec == MCInit /\ [][MCNext]_<<cacheVars, vars>>

(* The same threads use both maps. *)
MCSymmetry == Permutations(Thread \cup Caller) \cup Permutations(Object)
=============================================================================
