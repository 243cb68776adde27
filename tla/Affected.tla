------------------------------ MODULE Affected ------------------------------
(***************************************************************************)
(* compute_affected of `tonin affected` (and `tonin deploy --affected`):   *)
(* the services and packages whose [[path_rules]] match a changed file,    *)
(* and, over a work list, the callers of every service a propagating rule  *)
(* of which matched or was passed on.                                      *)
(*                                                                         *)
(* Whether its pattern matches is part of a rule here.  Layers are told    *)
(* apart as far as the code does: "server" stands for any other layer and  *)
(* for none, "proto" for test too.  The caller graph is any graph.         *)
(* Reasons, build orders and the waves that sort the output (AffectedWave) *)
(* are left out, and the work list is a set: its order decides the reasons *)
(* alone.                                                                  *)
(***************************************************************************)
EXTENDS WaveGroups

CONSTANTS Package,
          RuleSets  \* the sets of rules a service may have

Layer == {"server", "client", "proto"}

PathRule ==
    [matched : BOOLEAN, layer : Layer, propagate : BOOLEAN, packages : SUBSET Package]

ASSUME AffectedAssumption == RuleSets \subseteq SUBSET PathRule

VARIABLES callers,     \* callers[s]: the plans among the service callers of s
          rules,       \* rules[s]: the path rules of s
          worklist,    \* queue: services to propagate from, each with a layer
          propagated,  \* visited_propagation
          services,    \* affected_services
          packages,    \* affected_packages
          stage        \* where compute_affected is

affectedVars == <<callers, rules, worklist, propagated, services, packages, stage>>

Work == Plan \X Layer

AffectedTypeOK ==
    /\ callers \in [Plan -> SUBSET Plan]
    /\ rules \in [Plan -> RuleSets]
    /\ worklist \subseteq Work /\ propagated \subseteq Work
    /\ services \subseteq Plan
    /\ packages \subseteq Plan \X Package
    /\ stage \in {"match", "propagate", "done"}

AffectedInit ==
    /\ Init
    /\ callers \in [Plan -> SUBSET Plan]
    /\ rules \in [Plan -> RuleSets]
    /\ worklist = {} /\ propagated = {} /\ services = {} /\ packages = {}
    /\ stage = "match"

Matched(s) == {r \in rules[s] : r.matched}

(* The rules of a caller that make it rebuild: not its proto and its tests. *)
Rebuilt(s) == {r \in rules[s] : r.layer # "proto"}

PackagesOf(s, chosen) == {s} \X UNION {r.packages : r \in chosen}

WorkOf(s, chosen) == {<<s, r.layer>> : r \in {r \in chosen : r.propagate}}

Deployable(r) == r.layer \notin {"client", "proto"}

-----------------------------------------------------------------------------
(* Direct matches of all plans.                                            *)
MatchPaths ==
    /\ stage = "match"
    /\ services' = {s \in Plan : \E r \in Matched(s) : Deployable(r)}
    /\ packages' = UNION {PackagesOf(s, Matched(s)) : s \in Plan}
    /\ worklist' = UNION {WorkOf(s, Matched(s)) : s \in Plan}
    /\ stage' = "propagate"
    /\ UNCHANGED <<callers, rules, propagated>>

(* Mutant: a caller that is affected already is not looked at again.       *)
MutantPropagate(w) ==
    /\ stage = "propagate" /\ w \in worklist \ propagated
    /\ LET new == callers[w[1]] \ services
       IN  /\ services' = services \cup new
           /\ packages' = packages \cup UNION {PackagesOf(c, Rebuilt(c)) : c \in new}
           /\ worklist' = (worklist \ {w}) \cup UNION {WorkOf(c, Rebuilt(c)) : c \in new}
    /\ propagated' = propagated \cup {w}
    /\ UNCHANGED <<callers, rules, stage>>

(* The callers of w's service are affected, and propagate in their turn.   *)
Propagate(w) ==
    /\ stage = "propagate" /\ w \in worklist \ propagated
    /\ LET called == callers[w[1]]
       IN  /\ services' = services \cup called
           /\ packages' = packages \cup UNION {PackagesOf(c, Rebuilt(c)) : c \in called}
           /\ worklist' = (worklist \ {w}) \cup UNION {WorkOf(c, Rebuilt(c)) : c \in called}
    /\ propagated' = propagated \cup {w}
    /\ UNCHANGED <<callers, rules, stage>>

(* The service and its layer have been popped before.                      *)
SkipPropagated(w) ==
    /\ stage = "propagate" /\ w \in worklist \cap propagated
    /\ worklist' = worklist \ {w}
    /\ UNCHANGED <<callers, rules, propagated, services, packages, stage>>

ReportAffected ==
    /\ stage = "propagate" /\ worklist = {}
    /\ stage' = "done"
    /\ UNCHANGED <<callers, rules, worklist, propagated, services, packages>>

AffectedStep ==
    \/ MatchPaths
    \/ \E w \in Work : Propagate(w) \/ SkipPropagated(w)
    \/ ReportAffected

AffectedNext ==
    \/ Next /\ UNCHANGED affectedVars
    \/ AffectedStep /\ UNCHANGED vars

AffectedSpec == AffectedInit /\ [][AffectedNext]_<<vars, affectedVars>>

-----------------------------------------------------------------------------
(* The services from which a change is passed on: those with a propagating *)
(* rule that matches and, along the caller graph, those with a propagating *)
(* rule that is rebuilt.                                                   *)
Sources == {s \in Plan : WorkOf(s, Matched(s)) # {}}

Forwards(s) == WorkOf(s, Rebuilt(s)) # {}

Spreading ==
    {s \in Plan : \A S \in SUBSET Plan :
        Sources \subseteq S /\ (\A t \in S : {c \in callers[t] : Forwards(c)} \subseteq S)
            => s \in S}

CalledFrom(S) == UNION {callers[s] : s \in S}

(* Whatever cycles the caller graph has, the propagation ends with every   *)
(* caller it is to reach, and no other (affected.rs:165-211): services a   *)
(* deployable rule of which matches or that call a spreading service, and  *)
(* the packages of the matching rules, or for a caller of all its rules    *)
(* but those of protos and tests.                                          *)
CallersFollow == stage = "done" =>
    /\ services = {s \in Plan : \E r \in Matched(s) : Deployable(r)} \cup CalledFrom(Spreading)
    /\ packages =
           (UNION {PackagesOf(s, Matched(s)) : s \in Plan})
               \cup (UNION {PackagesOf(c, Rebuilt(c)) : c \in CalledFrom(Spreading)})

(* The inductive invariant: what is on the work list or popped belongs to  *)
(* spreading services, every source is there, and with what is popped the  *)
(* callers that forward.                                                   *)
Queued == {w[1] : w \in worklist \cup propagated}

Popped == {w[1] : w \in propagated}

AffectedIInv ==
    /\ AffectedTypeOK
    /\ stage = "match" => worklist = {} /\ propagated = {} /\ services = {} /\ packages = {}
    /\ stage # "match" =>
         /\ Sources \subseteq Queued /\ Queued \subseteq Spreading
         /\ {c \in CalledFrom(Popped) : Forwards(c)} \subseteq Queued
         /\ services = {s \in Plan : \E r \in Matched(s) : Deployable(r)} \cup CalledFrom(Popped)
         /\ packages =
                (UNION {PackagesOf(s, Matched(s)) : s \in Plan})
                    \cup (UNION {PackagesOf(c, Rebuilt(c)) : c \in CalledFrom(Popped)})
    /\ stage = "done" => worklist = {}
=============================================================================
