------------------------------ MODULE LocalRun ------------------------------
(***************************************************************************)
(* `tonin run` over the waves of a workspace: the dependencies of the      *)
(* target are spawned in wave order, then the target is spawned too        *)
(* (--background) or watched until cargo ends.  After an error, and        *)
(* whenever the run is not in the background, what was started is stopped, *)
(* the last one first.                                                     *)
(*                                                                         *)
(* CargoRunBackend keeps one Child for each name: a second process of the  *)
(* same name takes the place of the first, which nothing can stop then.    *)
(* --wait-healthy only delays: a service that is not healthy after 10 s is *)
(* taken for started.                                                      *)
(***************************************************************************)
EXTENDS WaveGroups, Sequences, SequencesExt

CONSTANT NoTarget

ASSUME LocalRunAssumption == NoTarget \notin Plan

VARIABLES phase,       \* where the run is
          target,      \* the service asked for
          withDeps,    \* --with-deps
          background,  \* --background
          coming,        \* the dependencies that are still to be started
          started,     \* started_services, the names in the order of their start
          held,        \* the names in running_processes
          alive,       \* the names whose Child there has not exited
          lost,        \* the names of which a process runs that is not held
          failed       \* result.is_err()

processes == <<held, alive, lost>>
args == <<target, withDeps, background>>
localVars == <<phase, args, coming, started, processes, failed>>

Inactive == {"idle", "ended", "killed"}

LocalTypeOK ==
    /\ phase \in Inactive \cup {"start", "watch", "stop"}
    /\ target \in Plan \cup {NoTarget}
    /\ {withDeps, background, failed} \subseteq BOOLEAN
    /\ coming \subseteq Plan
    /\ started \in Seq(Plan)
    /\ held \subseteq Plan /\ alive \subseteq held /\ lost \subseteq Plan

LocalInit ==
    /\ Init
    /\ phase = "idle"
    /\ target = NoTarget /\ withDeps = FALSE /\ background = FALSE
    /\ coming = {} /\ started = <<>>
    /\ held = {} /\ alive = {} /\ lost = {}
    /\ failed = FALSE

(* collect_dependencies: the names reached from s, s itself on a cycle and *)
(* names outside the workspace included.                                   *)
Dependencies(s) ==
    {d \in Plan \cup Outside :
        \A D \in SUBSET (Plan \cup Outside) :
            deps[s] \subseteq D /\ (\A t \in D \cap Plan : deps[t] \subseteq D) => d \in D}

-----------------------------------------------------------------------------
(* The arguments are read; no name outside the workspace is in a wave.     *)
BeginRun(s) ==
    /\ pc = "done" /\ phase = "idle"
    /\ phase' = "start"
    /\ target' = s
    /\ withDeps' \in BOOLEAN /\ background' \in BOOLEAN
    /\ coming' = IF withDeps' THEN Dependencies(s) \cap Plan ELSE {}
    /\ UNCHANGED <<started, processes, failed>>

(* Mutant: the dependencies are started in no order. *)
MutantUpcoming == IF coming = {} THEN {target} ELSE coming

(* The services of the first wave that is left, and the target last.       *)
Upcoming ==
    IF coming = {} THEN {target}
    ELSE {s \in coming : \A t \in coming : wave[s] <= wave[t]}

(* The last of services_to_run is watched, unless in the background.       *)
ToWatch == coming = {} /\ ~background

(* start_service spawns cargo and keeps its Child under the name.          *)
Spawn(s) ==
    /\ phase = "start" /\ ~ToWatch /\ s \in Upcoming
    /\ lost' = IF s \in alive THEN lost \cup {s} ELSE lost
    /\ held' = held \cup {s}
    /\ alive' = alive \cup {s}
    /\ started' = Append(started, s)
    /\ coming' = coming \ {s}
    /\ phase' = IF coming = {} THEN "ended" ELSE "start"
    /\ UNCHANGED <<args, failed>>

(* cargo cannot be spawned: what was started before is torn down.          *)
SpawnFails ==
    /\ phase = "start" /\ ~ToWatch
    /\ phase' = "stop"
    /\ failed' = TRUE
    /\ UNCHANGED <<args, coming, started, processes>>

(* watch_service blocks until cargo ends.                                  *)
Watch ==
    /\ phase = "start" /\ ToWatch
    /\ phase' = "watch"
    /\ UNCHANGED <<args, coming, started, processes, failed>>

WatchEnds(ok) ==
    /\ phase = "watch"
    /\ phase' = "stop"
    /\ failed' = ~ok
    /\ UNCHANGED <<args, coming, started, processes>>

(* Mutant: a service whose cargo has exited ends the teardown.             *)
MutantStopOne ==
    /\ phase = "stop" /\ started # <<>>
    /\ started' = IF Last(started) \in alive THEN Front(started) ELSE <<>>
    /\ held' = held \ {Last(started)}
    /\ alive' = alive \ {Last(started)}
    /\ UNCHANGED <<phase, args, coming, lost, failed>>

(* stop_service takes the Child out of the map: SIGTERM, at most 5 s, then *)
(* SIGKILL.  For a name that is not held there is nothing to do.           *)
StopOne ==
    /\ phase = "stop" /\ started # <<>>
    /\ started' = Front(started)
    /\ held' = held \ {Last(started)}
    /\ alive' = alive \ {Last(started)}
    /\ UNCHANGED <<phase, args, coming, lost, failed>>

StopsDone ==
    /\ phase = "stop" /\ started = <<>>
    /\ phase' = "ended"
    /\ UNCHANGED <<args, coming, started, processes, failed>>

-----------------------------------------------------------------------------
(* A service exits of itself; nobody waits for it.                         *)
ServiceExits(s) ==
    /\ phase # "killed"
    /\ \/ s \in alive /\ alive' = alive \ {s} /\ UNCHANGED lost
       \/ s \in lost /\ lost' = lost \ {s} /\ UNCHANGED alive
    /\ UNCHANGED <<phase, args, coming, started, held, failed>>

(* Ctrl+C or a kill ends tonin itself, which catches no signal: its        *)
(* services end with it or stay behind.                                    *)
LocalRunDies ==
    /\ phase \notin Inactive
    /\ phase' = "killed"
    /\ held' = {} /\ alive' = {}
    /\ lost' \in SUBSET (alive \cup lost)
    /\ started' = <<>> /\ coming' = {}
    /\ UNCHANGED <<args, failed>>

LocalStep ==
    \/ \E s \in Plan : BeginRun(s) \/ Spawn(s)
    \/ SpawnFails \/ Watch \/ (\E ok \in BOOLEAN : WatchEnds(ok))
    \/ StopOne \/ StopsDone
    \/ \E s \in Plan : ServiceExits(s)
    \/ LocalRunDies

LocalNext ==
    \/ Next /\ UNCHANGED localVars
    \/ LocalStep /\ UNCHANGED vars

LocalSpec == LocalInit /\ [][LocalNext]_<<vars, localVars>>

-----------------------------------------------------------------------------
(* With --with-deps a service is started after the dependencies it has in  *)
(* the workspace, and so stopped before them, unless it is stuck behind a  *)
(* cycle (run.rs:117-134, 173-181).                                        *)
InDependencyOrder == withDeps =>
    /\ \A i \in 1 .. Len(started) : inDegree[started[i]] = 0 =>
           \A d \in KnownDeps(started[i]) : \E j \in 1 .. (i - 1) : started[j] = d
    /\ phase = "watch" /\ inDegree[target] = 0 => KnownDeps(target) \subseteq ToSet(started)

(* "Only tear down on error, or when not backgrounding" (run.rs:173-176):  *)
(* a run that ends otherwise leaves all its services behind, and one that  *)
(* is torn down none - but for the first process of a target that is among *)
(* its own dependencies: it is started twice and then out of reach.        *)
TornDown ==
    /\ phase = "ended" => held = IF failed \/ ~background THEN {} ELSE ToSet(started)
    /\ phase \in {"start", "watch"} => ~failed /\ held = ToSet(started)
    /\ phase = "stop" => held \subseteq ToSet(started)

OnlyTargetLost ==
    phase # "killed" => lost \subseteq {s \in Plan : s = target /\ s \in Dependencies(s)}

(* The inductive invariant: beside the order and the teardown, what is     *)
(* started or still to be started contains the target's dependencies and   *)
(* with each of its services that one's own (run.rs:190-213).              *)
Gathered == phase = "start" /\ withDeps =>
    /\ coming \cap ToSet(started) = {}
    /\ coming \cup ToSet(started) = Dependencies(target) \cap Plan

LocalRunIInv ==
    /\ IInv
    /\ LocalTypeOK
    /\ phase # "idle" => pc = "done" /\ target \in Plan
    /\ phase = "idle" => started = <<>> /\ coming = {} /\ held = {} /\ lost = {} /\ ~failed
    /\ Gathered
    /\ phase = "start" /\ ~withDeps => coming = {} /\ started = <<>>
    /\ InDependencyOrder
    /\ TornDown
    /\ OnlyTargetLost
=============================================================================
