------------------------------- MODULE Deploy -------------------------------
(***************************************************************************)
(* `tonin deploy`: a run computes the waves of the workspace, takes a copy *)
(* of the environment lock, and upgrades the selected services one by one  *)
(* in wave order, skipping those whose release already has the image; the  *)
(* first upgrade that fails ends the run.                                  *)
(*                                                                         *)
(* helm is modelled from how the code calls it.  `helm upgrade --atomic    *)
(* --wait` records a new revision, waits until its pods run the image, and *)
(* rolls back when they do not; it refuses a release with an operation in  *)
(* progress.  `helm get values` answers from the latest revision, rolled   *)
(* out or not.                                                             *)
(***************************************************************************)
EXTENDS WaveGroups

CONSTANTS Proc,     \* runs of `tonin deploy`
          Version,  \* a version with its image
          None

ASSUME DeployAssumption == None \notin Version

VARIABLES lock,     \* lock[s]: what the environment lock wants s to run
          live,     \* live[s]: the image the pods of s run
          shown,    \* shown[s]: the image in the latest revision of s
          pending,  \* the releases with an operation in progress
          at,       \* at[p]: where the run p is
          want,     \* want[p]: p's copy of the lock, for its selected services
          left,     \* left[p]: the services p has still to bring to want
          now,      \* now[p]: the service p is upgrading
          alone     \* history: no two runs have overlapped, and none was killed

releases == <<live, shown, pending>>
runs == <<at, want, left, now>>
deployVars == <<vars, lock, releases, runs, alone>>

Locked == [Plan -> Version \cup {None}]

Nothing == [s \in Plan |-> None]

DeployTypeOK ==
    /\ lock \in Locked /\ live \in Locked /\ shown \in Locked
    /\ pending \subseteq Plan
    /\ at \in [Proc -> {"idle", "next", "helm", "upgrade"}]
    /\ want \in [Proc -> Locked]
    /\ left \in [Proc -> SUBSET Plan]
    /\ now \in [Proc -> Plan \cup {None}]
    /\ alone \in BOOLEAN

DeployInit ==
    /\ Init
    /\ lock \in Locked
    /\ live \in Locked
    /\ shown = live
    /\ pending = {}
    /\ at = [p \in Proc |-> "idle"]
    /\ want = [p \in Proc |-> Nothing]
    /\ left = [p \in Proc |-> {}]
    /\ now = [p \in Proc |-> None]
    /\ alone = TRUE

(* The run p is over, with success or an error. *)
End(p) ==
    /\ at' = [at EXCEPT ![p] = "idle"]
    /\ want' = [want EXCEPT ![p] = Nothing]
    /\ left' = [left EXCEPT ![p] = {}]
    /\ now' = [now EXCEPT ![p] = None]

-----------------------------------------------------------------------------
(* Mutant: a selected service that is not in the lock is not left out. *)
MutantBegin(p, selected) ==
    /\ pc = "done"
    /\ at[p] = "idle"
    /\ alone' = (alone /\ \A q \in Proc : at[q] = "idle")
    /\ at' = [at EXCEPT ![p] = "next"]
    /\ want' = [want EXCEPT ![p] = [s \in Plan |->
                                      IF s \in selected THEN lock[s] ELSE None]]
    /\ left' = [left EXCEPT ![p] = selected]
    /\ UNCHANGED <<lock, releases, now>>

(* The lock is read, and plan_steps keeps the selected services in it. *)
Begin(p, selected) ==
    /\ pc = "done"
    /\ at[p] = "idle"
    /\ alone' = (alone /\ \A q \in Proc : at[q] = "idle")
    /\ at' = [at EXCEPT ![p] = "next"]
    /\ want' = [want EXCEPT ![p] = [s \in Plan |->
                                      IF s \in selected THEN lock[s] ELSE None]]
    /\ left' = [left EXCEPT ![p] = {s \in selected : lock[s] # None}]
    /\ UNCHANGED <<lock, releases, now>>

(* Mutant: the waves are run together. *)
MutantFirstOf(services) == services

(* The services of the first wave that is left. *)
FirstOf(services) == {s \in services : \A t \in services : wave[s] <= wave[t]}

(* helm does not answer: the run fails. *)
LookFails(p) ==
    /\ at[p] = "next" /\ left[p] # {}
    /\ End(p)
    /\ UNCHANGED <<lock, releases, alone>>

(* running_image is the lock's: nothing to do. *)
Skip(p, s) ==
    /\ at[p] = "next" /\ s \in FirstOf(left[p])
    /\ shown[s] = want[p][s]
    /\ left' = [left EXCEPT ![p] = @ \ {s}]
    /\ UNCHANGED <<lock, releases, at, want, now, alone>>

(* running_image is another or not known, or --converge is given. *)
Pick(p, s) ==
    /\ at[p] = "next" /\ s \in FirstOf(left[p])
    /\ at' = [at EXCEPT ![p] = "helm"]
    /\ now' = [now EXCEPT ![p] = s]
    /\ UNCHANGED <<lock, releases, want, left, alone>>

(* helm records the new revision. *)
Upgrade(p) ==
    /\ at[p] = "helm" /\ now[p] \notin pending
    /\ at' = [at EXCEPT ![p] = "upgrade"]
    /\ shown' = [shown EXCEPT ![now[p]] = want[p][now[p]]]
    /\ pending' = pending \cup {now[p]}
    /\ UNCHANGED <<lock, live, want, left, now, alone>>

(* helm cannot start, or another operation is in progress: the run fails. *)
UpgradeRefused(p) ==
    /\ at[p] = "helm"
    /\ End(p)
    /\ UNCHANGED <<lock, releases, alone>>

UpgradeSucceeds(p) ==
    /\ at[p] = "upgrade"
    /\ live' = [live EXCEPT ![now[p]] = want[p][now[p]]]
    /\ pending' = pending \ {now[p]}
    /\ left' = [left EXCEPT ![p] = @ \ {now[p]}]
    /\ at' = [at EXCEPT ![p] = "next"]
    /\ now' = [now EXCEPT ![p] = None]
    /\ UNCHANGED <<lock, shown, want, alone>>

(* Mutant: a failed service is reported, and the next one upgraded. *)
MutantCarryOn(p) ==
    /\ at[p] = "upgrade"
    /\ shown' = [shown EXCEPT ![now[p]] = live[now[p]]]
    /\ pending' = pending \ {now[p]}
    /\ left' = [left EXCEPT ![p] = @ \ {now[p]}]
    /\ at' = [at EXCEPT ![p] = "next"]
    /\ now' = [now EXCEPT ![p] = None]
    /\ UNCHANGED <<lock, live, want, alone>>

(* helm rolls back, and the run fails. *)
UpgradeFails(p) ==
    /\ at[p] = "upgrade"
    /\ shown' = [shown EXCEPT ![now[p]] = live[now[p]]]
    /\ pending' = pending \ {now[p]}
    /\ End(p)
    /\ UNCHANGED <<lock, live, alone>>

(* The run and its helm are killed; the pods may or may not be rolled. *)
Dies(p) ==
    /\ at[p] = "upgrade"
    /\ alone' = FALSE
    /\ live' \in {live, [live EXCEPT ![now[p]] = want[p][now[p]]]}
    /\ End(p)
    /\ UNCHANGED <<lock, shown, pending>>

RunEnds(p) ==
    /\ at[p] = "next" /\ left[p] = {}
    /\ End(p)
    /\ UNCHANGED <<lock, releases, alone>>

(* `tonin release` changes the lock, whatever runs are in progress. *)
Release(s, v) ==
    /\ lock' = [lock EXCEPT ![s] = v]
    /\ UNCHANGED <<releases, runs, alone>>

Run(p) ==
    \/ \E selected \in SUBSET Plan : Begin(p, selected)
    \/ \E s \in Plan : Skip(p, s) \/ Pick(p, s)
    \/ LookFails(p) \/ Upgrade(p) \/ UpgradeRefused(p) \/ UpgradeSucceeds(p) \/ UpgradeFails(p)
    \/ Dies(p) \/ RunEnds(p)

DeployNext ==
    \/ Next /\ UNCHANGED <<lock, releases, runs, alone>>
    \/ (\E p \in Proc : Run(p)) /\ UNCHANGED vars
    \/ (\E s \in Plan, v \in Version : Release(s, v)) /\ UNCHANGED vars

DeploySpec == DeployInit /\ [][DeployNext]_deployVars

-----------------------------------------------------------------------------
(* The inductive invariant.  A release is upgraded by one run at a time,   *)
(* and shows an image its pods do not run only while an operation on it is *)
(* pending; a run upgrades in wave order, and only what its copy of the    *)
(* lock names.  While no two runs overlap and none is killed, no           *)
(* operation outlives its run, and what the run has left behind runs what  *)
(* it wants (deploy.rs:110-150, 182-215).                                  *)
Settled ==
    /\ \A p, q \in Proc : p # q => at[p] = "idle" \/ at[q] = "idle"
    /\ \A s \in pending : \E p \in Proc : at[p] = "upgrade" /\ now[p] = s
    /\ \A p \in Proc : \A s \in Plan \ left[p] : want[p][s] \in {None, live[s]}

Upgrading ==
    /\ \A p \in Proc : at[p] = "upgrade" =>
           now[p] \in pending /\ shown[now[p]] = want[p][now[p]]
    /\ \A p, q \in Proc : p # q /\ at[p] = "upgrade" /\ at[q] = "upgrade" =>
           now[p] # now[q]
    /\ \A s \in Plan : shown[s] # live[s] => s \in pending

InOrder ==
    /\ \A p \in Proc : IF at[p] = "idle" THEN want[p] = Nothing ELSE pc = "done"
    /\ \A p \in Proc : at[p] \in {"helm", "upgrade"} => now[p] \in FirstOf(left[p])
    /\ \A p \in Proc : \A s \in left[p] : want[p][s] # None

DeployIInv ==
    /\ IInv
    /\ DeployTypeOK
    /\ Upgrading
    /\ InOrder
    /\ alone => Settled

(* "Reconciles the cluster to that lock in dependency-wave order"          *)
(* (docs/12-kubernetes-deploy.md:688-689): when a service is upgraded, the *)
(* plans it depends on that this run deploys are already running what the  *)
(* run wants, unless the service is stuck behind a cycle, another run has  *)
(* overlapped or one was killed.                                           *)
DependenciesFirst ==
    [][\A p \in Proc : alone /\ Upgrade(p) =>
         \A d \in KnownDeps(now[p]) :
             want[p][d] # None /\ inDegree[now[p]] = 0 => live[d] = want[p][d]]_deployVars

(* A run that ends well has brought every service it was to deploy to the  *)
(* image in its copy of the lock, unless another run has overlapped or one *)
(* was killed (deploy.rs:110-150).                                         *)
FinishedMeansRunning ==
    [][\A p \in Proc : alone /\ RunEnds(p) =>
         \A s \in Plan : want[p][s] \in {None, live[s]}]_deployVars
=============================================================================
