----------------------------- MODULE WaveGroups -----------------------------
(***************************************************************************)
(* wave_groups of tonin-plugin: Kahn's algorithm over the plans of a       *)
(* workspace, which puts each plan one wave after the last of the plans it *)
(* depends on, and the plans it never reaches in wave 0.  The dependency   *)
(* graph is any graph, cyclic ones and names that no plan of the workspace *)
(* has included; plan names are distinct.                                  *)
(*                                                                         *)
(* compute_waves of `tonin affected` answers the same question round by    *)
(* round; it is AffectedWave here.                                         *)
(***************************************************************************)
EXTENDS Naturals, FiniteSets

CONSTANTS Plan,    \* the names of the workspace's plans
          Outside  \* other names a plan may depend on

ASSUME WaveAssumption == IsFiniteSet(Plan) /\ Plan \cap Outside = {}

VARIABLES deps,      \* deps[s]: the names in s's [depends_on]
          inDegree,  \* inDegree[s]: how many of them are plans not yet relaxed
          wave,      \* wave[s]: the wave assigned so far
          queue,     \* the plans of the next round
          current,   \* the plans of this round still to be relaxed
          visited,   \* the plans of this round and the earlier ones
          pc

vars == <<deps, inDegree, wave, queue, current, visited, pc>>

KnownDeps(s) == deps[s] \cap Plan

TypeOK ==
    /\ deps \in [Plan -> SUBSET (Plan \cup Outside)]
    /\ inDegree \in [Plan -> Nat]
    /\ wave \in [Plan -> Nat]
    /\ queue \subseteq Plan /\ current \subseteq Plan /\ visited \subseteq Plan
    /\ pc \in {"loop", "done"}

Init ==
    /\ deps \in [Plan -> SUBSET (Plan \cup Outside)]
    /\ inDegree = [s \in Plan |-> Cardinality(KnownDeps(s))]
    /\ wave = [s \in Plan |-> 0]
    /\ queue = {s \in Plan : inDegree[s] = 0}
    /\ current = {} /\ visited = {}
    /\ pc = "loop"

(* The whole queue becomes the next round. *)
DrainQueue ==
    /\ pc = "loop" /\ current = {} /\ queue # {}
    /\ current' = queue
    /\ visited' = visited \cup queue
    /\ queue' = {}
    /\ UNCHANGED <<deps, inDegree, wave, pc>>

Later(a, b) == IF a > b THEN a ELSE b

(* Mutant: a plan keeps the first wave it is given. *)
MutantRelaxQueued(p) ==
    /\ p \in current
    /\ current' = current \ {p}
    /\ inDegree' = [s \in Plan |-> IF p \in deps[s] THEN inDegree[s] - 1 ELSE inDegree[s]]
    /\ wave' = [s \in Plan |->
                  IF p \in deps[s] /\ wave[s] = 0 THEN wave[p] + 1 ELSE wave[s]]
    /\ queue' = queue \cup {s \in Plan : p \in deps[s] /\ inDegree'[s] = 0}
    /\ UNCHANGED <<deps, visited, pc>>

(* The plans that depend on p lose a dependency. *)
Relax(p) ==
    /\ p \in current
    /\ current' = current \ {p}
    /\ inDegree' = [s \in Plan |-> IF p \in deps[s] THEN inDegree[s] - 1 ELSE inDegree[s]]
    /\ wave' = [s \in Plan |->
                  IF p \in deps[s] THEN Later(wave[s], wave[p] + 1) ELSE wave[s]]
    /\ queue' = queue \cup {s \in Plan : p \in deps[s] /\ inDegree'[s] = 0}
    /\ UNCHANGED <<deps, visited, pc>>

(* The plans that were never queued go to wave 0. *)
Finish ==
    /\ pc = "loop" /\ current = {} /\ queue = {}
    /\ wave' = [s \in Plan |-> IF inDegree[s] > 0 THEN 0 ELSE wave[s]]
    /\ pc' = "done"
    /\ UNCHANGED <<deps, inDegree, queue, current, visited>>

Next == DrainQueue \/ (\E p \in Plan : Relax(p)) \/ Finish

Spec == Init /\ [][Next]_vars

-----------------------------------------------------------------------------
(* compute_waves: a round places the plans all of whose dependencies have  *)
(* been placed, names outside the workspace included; a round that places  *)
(* none takes all that remain.                                             *)
Placed ==
    LET placed[n \in 0 .. Cardinality(Plan)] ==
            IF n = 0 THEN {} ELSE {s \in Plan : deps[s] \subseteq placed[n - 1]}
    IN  placed

AffectedWave(s) ==
    LET N == Cardinality(Plan)
        placedBy == {n \in 0 .. N : Placed[n] = Placed[N] \/ s \in Placed[n]}
        first == CHOOSE n \in placedBy : \A m \in placedBy : n <= m
    IN  IF s \in Placed[N] THEN first - 1 ELSE first

-----------------------------------------------------------------------------
Relaxed == visited \ current

(* The inductive invariant: the in-degree counts the dependencies that are *)
(* not relaxed, is 0 for the queued and visited plans only, and a plan     *)
(* comes after the dependencies that are; a wave that is final does not    *)
(* change any more, so in the end every plan that is not stuck behind a    *)
(* cycle is in a later wave than each of its dependencies                  *)
(* (plan.rs:1391-1394).                                                    *)
DepsFirst ==
    \A s \in Plan : inDegree[s] = 0 => \A d \in KnownDeps(s) : wave[d] < wave[s]

IInv ==
    /\ TypeOK
    /\ current \subseteq visited /\ queue \cap visited = {}
    /\ \A s \in Plan : inDegree[s] = Cardinality(KnownDeps(s) \ Relaxed)
    /\ \A s \in Plan : inDegree[s] = 0 <=> s \in visited \cup queue
    /\ pc = "loop" =>
          \A s \in Plan : \A d \in KnownDeps(s) \cap Relaxed : wave[d] < wave[s]
    /\ pc = "done" => current = {} /\ queue = {} /\ DepsFirst

(* No plan waits without need: a wave is the first after some dependency,  *)
(* and what is never reached has none in the end.                          *)
Tight ==
    /\ \A s \in Plan : wave[s] # 0 => \E d \in KnownDeps(s) \cap Relaxed : wave[s] = wave[d] + 1
    /\ pc = "done" => \A s \in Plan : inDegree[s] > 0 => wave[s] = 0

(* s is on a cycle or depends on one. *)
Blocked(s) ==
    \E C \in SUBSET Plan : s \in C /\ \A c \in C : KnownDeps(c) \cap C # {}

(* "All cycle participants land in wave 0 together" (plan.rs:1399-1400):   *)
(* the plans on or behind a cycle, and no wave they were given on the way  *)
(* survives; all others `tonin deploy` and `tonin affected`                *)
(* (affected.rs:317-356) number alike if the workspace is complete.        *)
AgreesWithAffected ==
    pc = "done" => \A s \in Plan :
        IF Blocked(s) THEN wave[s] = 0
        ELSE (\A p \in Plan : deps[p] \subseteq Plan) => wave[s] = AffectedWave(s)
=============================================================================
