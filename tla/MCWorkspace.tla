---------------------------- MODULE MCWorkspace ----------------------------
(***************************************************************************)
(* The commands over the waves of a workspace checked in one run: `tonin   *)
(* deploy', `tonin run' and `tonin affected'.  They share the dependency   *)
(* graph alone, so each moves only while the others are as they started.   *)
(***************************************************************************)
EXTENDS Deploy, LocalRun, Affected, TLC

MCSymmetry == Permutations(Plan) \cup Permutations(Version) \cup Permutations(Proc)

---------------------------------------------------------------------------
(* The workspaces with a lock; in the others, where a plan depends on      *)
(* itself or on a name outside, only the waves are of interest.            *)
Deployed == \A s \in Plan : deps[s] \subseteq Plan \ {s}

(* s is a plan of its own that is neither locked nor released. *)
Inert(s) ==
    /\ deps[s] = {} /\ \A t \in Plan : s \notin deps[t]
    /\ {lock[s], live[s], shown[s]} = {None}

\* Every service runs the same version and none is locked: the releases and
\* runs that follow mix the versions.
AllAtOnce == \E v \in Version : live = [s \in Plan |-> v]

NothingDeployed == lock = Nothing /\ live = Nothing

(* Releases wait for the waves, on which they have no influence, and, as a *)
(* run does not read the lock again, for the end of the run; only while    *)
(* one of the plans is inert do they not, and may runs overlap or be       *)
(* killed.                                                                 *)
DeployMoves ==
    \/ ~Deployed /\ Next /\ UNCHANGED <<lock, releases, runs, alone>>
    \/ /\ Deployed /\ DeployNext
       /\ pc = "loop" => UNCHANGED lock
       /\ \/ alone' /\ ((\A p \in Proc : at[p] = "idle") \/ UNCHANGED lock)
          \/ \E s \in Plan : Inert(s) /\ Inert(s)'

---------------------------------------------------------------------------
Rule(m, l, p, k) == [matched |-> m, layer |-> l, propagate |-> p, packages |-> {k}]

\* Services that pass a change on, that do not, that list their packages
\* without being deployed, and that are only concerned as a caller.
MCRuleSets ==
    { {},
      {Rule(FALSE, "server", TRUE, "bin")},
      {Rule(TRUE, "server", FALSE, "bin"), Rule(FALSE, "client", TRUE, "sdk")},
      {Rule(TRUE, "client", TRUE, "sdk"), Rule(FALSE, "server", TRUE, "bin")},
      {Rule(TRUE, "proto", TRUE, "idl"), Rule(FALSE, "server", FALSE, "bin")} }

\* For a run, a service that depends on a name outside depends on no plan.
Runnable == \A s \in Plan : deps[s] \subseteq Plan \/ deps[s] \subseteq Outside

NoDeps == deps = [s \in Plan |-> {}]
NoCallers == callers = [s \in Plan |-> {}] /\ rules = [s \in Plan |-> {}]

---------------------------------------------------------------------------
DeployRests == NothingDeployed /\ alone /\ \A p \in Proc : at[p] = "idle"
LocalRests == phase = "idle"
AffectedRests == NoCallers /\ stage = "match"

MCInit ==
    /\ \/ NoCallers
       \/ NoDeps /\ NothingDeployed
    /\ Init /\ lock = Nothing
    /\ \/ NothingDeployed
       \/ Deployed /\ AllAtOnce
    /\ DeployInit /\ LocalInit /\ AffectedInit

MCNext ==
    \/ AffectedRests /\ LocalRests /\ DeployMoves /\ UNCHANGED <<localVars, affectedVars>>
    \/ AffectedRests /\ DeployRests /\ Runnable /\ LocalStep /\ UNCHANGED <<deployVars, affectedVars>>
    \/ LocalRests /\ DeployRests /\ NoDeps /\ visited = {} /\ AffectedStep
       /\ UNCHANGED <<deployVars, localVars>>

MCSpec == MCInit /\ [][MCNext]_<<deployVars, localVars, affectedVars>>
===========================================================================
