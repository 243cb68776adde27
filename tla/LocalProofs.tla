----------------------------- MODULE LocalProofs -----------------------------
(***************************************************************************)
(* Proofs about LocalRun and Affected: a run starts, stops and loses what  *)
(* it should on any dependency graph, and the propagation to callers ends  *)
(* with the right ones on any caller graph.                                *)
(***************************************************************************)
EXTENDS DeployProofs, LocalRun, Affected, SequenceTheorems

(* Dependencies(s) holds what s depends on, and what that depends on. *)
LEMMA DependenciesClosed ==
    ASSUME TypeOK, NEW s \in Plan
    PROVE  /\ Dependencies(s) \subseteq Plan \cup Outside
           /\ deps[s] \subseteq Dependencies(s)
           /\ \A t \in Dependencies(s) \cap Plan : deps[t] \subseteq Dependencies(s)
  <1>1. \A t \in Plan : deps[t] \subseteq Plan \cup Outside
    BY DEF TypeOK
  <1>2. deps[s] \subseteq Dependencies(s)
    BY <1>1 DEF Dependencies
  <1>3. ASSUME NEW t \in Dependencies(s) \cap Plan, NEW d \in deps[t]
        PROVE  d \in Dependencies(s)
    <2> SUFFICES ASSUME NEW D \in SUBSET (Plan \cup Outside), deps[s] \subseteq D,
                        \A u \in D \cap Plan : deps[u] \subseteq D
                 PROVE  d \in D
      BY <1>1, <1>3 DEF Dependencies
    <2>1. t \in D
      BY <1>3 DEF Dependencies
    <2> QED
      BY <1>3, <2>1
  <1> QED
    BY <1>2, <1>3 DEF Dependencies

(* The elements of a sequence of which one is added or the last removed. *)
LEMMA Appended ==
    ASSUME NEW seq \in Seq(Plan), NEW s \in Plan
    PROVE  /\ Append(seq, s) \in Seq(Plan)
           /\ Len(Append(seq, s)) = Len(seq) + 1
           /\ ToSet(Append(seq, s)) = ToSet(seq) \cup {s}
           /\ \A i \in 1 .. Len(seq) : Append(seq, s)[i] = seq[i]
           /\ Append(seq, s)[Len(seq) + 1] = s
  BY DEF ToSet

LEMMA Fronted ==
    ASSUME NEW seq \in Seq(Plan), seq # <<>>
    PROVE  /\ Front(seq) \in Seq(Plan)
           /\ Len(Front(seq)) = Len(seq) - 1
           /\ \A i \in 1 .. (Len(seq) - 1) : Front(seq)[i] = seq[i]
           /\ ToSet(seq) \ {Last(seq)} \subseteq ToSet(Front(seq))
           /\ Last(seq) \in Plan
  <1>1. Len(seq) \in Nat /\ Len(seq) > 0 /\ \A i \in 1 .. Len(seq) : seq[i] \in Plan
    OBVIOUS
  <1>2. /\ Front(seq) \in Seq(Plan) /\ Len(Front(seq)) = Len(seq) - 1
        /\ \A i \in 1 .. (Len(seq) - 1) : Front(seq)[i] = seq[i]
    <2>1. \A i \in 1 .. (Len(seq) - 1) : seq[i] \in Plan
      BY <1>1
    <2> DEFINE n == Len(seq) - 1
    <2>2. n \in Int /\ 1 \in Int
      BY <1>1
    <2>3. /\ SubSeq(seq, 1, n) \in Seq(Plan)
          /\ Len(SubSeq(seq, 1, n)) = IF 1 <= n THEN n - 1 + 1 ELSE 0
          /\ \A i \in 1 .. (n - 1 + 1) : SubSeq(seq, 1, n)[i] = seq[1 + i - 1]
      <3> HIDE DEF n
      <3> QED
        BY <2>1, <2>2, SubSeqProperties DEF n
    <2>4. n \in Nat /\ n - 1 + 1 = n
      BY <1>1
    <2>5. /\ Len(SubSeq(seq, 1, n)) = n
          /\ \A i \in 1 .. n : SubSeq(seq, 1, n)[i] = seq[i]
      <3> HIDE DEF n
      <3>1. (n < 1 => n = 0) /\ \A i \in 1 .. n : 1 + i - 1 = i
        BY <2>4
      <3> QED
        BY <2>3, <2>4, <3>1
    <2> QED
      BY <2>3, <2>5 DEF Front
  <1>3. ToSet(seq) \ {Last(seq)} \subseteq ToSet(Front(seq))
    <2> SUFFICES ASSUME NEW i \in 1 .. Len(seq), seq[i] # Last(seq)
                 PROVE  seq[i] \in ToSet(Front(seq))
      BY DEF ToSet
    <2>1. i \in 1 .. (Len(seq) - 1)
      BY <1>1 DEF Last
    <2> QED
      BY <1>2, <2>1 DEF ToSet
  <1> QED
    BY <1>1, <1>2, <1>3 DEF Last

-----------------------------------------------------------------------------
LEMMA LocalStart == LocalInit => LocalRunIInv
  <1> SUFFICES ASSUME LocalInit PROVE LocalRunIInv
    OBVIOUS
  <1>1. IInv
    BY WaveInit DEF LocalInit
  <1>2. LocalTypeOK
    <2>1. {withDeps, background, failed} \subseteq BOOLEAN
      BY DEF LocalInit
    <2>2. started \in Seq(Plan) /\ phase \in Inactive /\ target \in Plan \cup {NoTarget}
      BY DEF LocalInit, Inactive
    <2> QED
      BY <2>1, <2>2 DEF LocalInit, LocalTypeOK
  <1>3. Gathered /\ TornDown /\ OnlyTargetLost
    BY DEF LocalInit, Gathered, TornDown, OnlyTargetLost
  <1>4. InDependencyOrder
    BY DEF LocalInit, InDependencyOrder
  <1> QED
    BY <1>1, <1>2, <1>3, <1>4 DEF LocalRunIInv, LocalInit

(* A step of the waves: a run waits for the last one. *)
LEMMA WavesFirst ==
    ASSUME LocalRunIInv, Next, UNCHANGED localVars
    PROVE  LocalRunIInv'
  <1>1. IInv'
    BY WaveStep DEF LocalRunIInv
  <1>2. phase = "idle"
    BY DEF LocalRunIInv, IInv, TypeOK, Next, DrainQueue, Relax, Finish
  <1>3. LocalTypeOK' /\ TornDown' /\ Gathered'
    BY <1>2 DEF LocalRunIInv, LocalTypeOK, TornDown, Gathered, localVars, processes, args
  <1>4. InDependencyOrder'
    BY <1>2 DEF LocalRunIInv, InDependencyOrder, localVars, processes, args
  <1>5. OnlyTargetLost'
    BY <1>2 DEF LocalRunIInv, OnlyTargetLost, localVars, processes, args
  <1> QED
    BY <1>1, <1>2, <1>3, <1>4, <1>5 DEF LocalRunIInv, localVars, processes, args

(* What the steps of a run leave alone. *)
LEMMA GraphStays ==
    ASSUME LocalRunIInv, UNCHANGED vars
    PROVE  /\ IInv' /\ pc' = pc /\ inDegree' = inDegree
           /\ \A s : KnownDeps(s)' = KnownDeps(s)
           /\ \A s : Dependencies(s)' = Dependencies(s)
  BY DEF LocalRunIInv, IInv, vars, TypeOK, KnownDeps, Relaxed, DepsFirst, Dependencies

LEMMA BeginRunKeeps ==
    ASSUME LocalRunIInv, UNCHANGED vars, NEW s \in Plan, BeginRun(s)
    PROVE  LocalRunIInv'
  <1>1. IInv' /\ pc' = "done" /\ \A t : Dependencies(t)' = Dependencies(t)
    BY GraphStays DEF BeginRun
  <1>2. LocalTypeOK'
    BY DEF LocalRunIInv, LocalTypeOK, BeginRun, processes
  <1>3. started' = <<>> /\ held' = {} /\ lost' = {} /\ ~failed' /\ phase' = "start"
        /\ target' = s
    BY DEF LocalRunIInv, BeginRun, processes
  <1>4. ToSet(<<>>) = {}
    BY DEF ToSet
  <1>5. coming' = IF withDeps' THEN Dependencies(target)' \cap Plan ELSE {}
    BY <1>1, <1>3 DEF BeginRun
  <1>6. Gathered'
    BY <1>3, <1>4, <1>5 DEF Gathered
  <1>7. InDependencyOrder' /\ TornDown' /\ OnlyTargetLost'
    BY <1>3, <1>4 DEF InDependencyOrder, TornDown, OnlyTargetLost
  <1> QED
    BY <1>1, <1>2, <1>3, <1>5, <1>6, <1>7 DEF LocalRunIInv

(* What is spawned next is in the workspace, has its dependencies running  *)
(* and, but for the target on a cycle, has no process yet.                 *)
LEMMA SpawnedNext ==
    ASSUME LocalRunIInv, NEW s \in Plan, Spawn(s)
    PROVE  /\ withDeps /\ inDegree[s] = 0 => KnownDeps(s) \subseteq ToSet(started)
           /\ s \in alive => s = target /\ s \in Dependencies(s)
  <1>1. phase = "start" /\ pc = "done" /\ target \in Plan /\ TypeOK
    BY DEF LocalRunIInv, IInv, Spawn
  <1>2. s \in Upcoming
    BY DEF Spawn
  <1>3. alive \subseteq ToSet(started)
    BY <1>1 DEF LocalRunIInv, LocalTypeOK, TornDown
  <1>4. CASE ~withDeps
    <2>1. coming = {} /\ started = <<>>
      BY <1>1, <1>4 DEF LocalRunIInv
    <2> QED
      BY <1>3, <1>4, <2>1 DEF ToSet
  <1>5. CASE withDeps
    <2>1. /\ coming \cap ToSet(started) = {}
          /\ coming \cup ToSet(started) = Dependencies(target) \cap Plan
      BY <1>1, <1>5 DEF LocalRunIInv, Gathered
    <2>2. CASE coming = {}
      <3>1. s = target
        BY <1>2, <2>2 DEF Upcoming
      <3> QED
        BY <1>1, <1>3, <2>1, <2>2, <3>1, DependenciesClosed DEF KnownDeps
    <2>3. CASE coming # {}
      <3>1. s \in coming /\ \A t \in coming : wave[s] <= wave[t]
        BY <1>2, <2>3 DEF Upcoming
      <3>2. s \notin alive
        BY <1>3, <2>1, <3>1
      <3>3. ASSUME inDegree[s] = 0, NEW d \in KnownDeps(s)
            PROVE  d \in ToSet(started)
        <4>1. d \in Dependencies(target) \cap Plan
          BY <1>1, <2>1, <3>1, DependenciesClosed DEF KnownDeps
        <4>2. wave[d] < wave[s] /\ wave[d] \in Nat /\ wave[s] \in Nat
          BY <1>1, <3>3, <4>1 DEF LocalRunIInv, IInv, TypeOK, DepsFirst
        <4> QED
          BY <2>1, <3>1, <4>1, <4>2
      <3> QED
        BY <3>2, <3>3
    <2> QED
      BY <2>2, <2>3
  <1> QED
    BY <1>1, <1>4, <1>5 DEF LocalRunIInv, LocalTypeOK

LEMMA SpawnKeeps ==
    ASSUME LocalRunIInv, UNCHANGED vars, NEW s \in Plan, Spawn(s)
    PROVE  LocalRunIInv'
  <1>1. /\ IInv' /\ pc' = pc /\ inDegree' = inDegree
        /\ \A t : KnownDeps(t)' = KnownDeps(t)
        /\ \A t : Dependencies(t)' = Dependencies(t)
    BY GraphStays
  <1>2. /\ phase = "start" /\ started \in Seq(Plan) /\ ~failed /\ held = ToSet(started)
        /\ target \in Plan /\ UNCHANGED <<target, withDeps, background, failed>>
        /\ phase' = IF coming = {} THEN "ended" ELSE "start"
        /\ coming = {} => background
    BY DEF LocalRunIInv, LocalTypeOK, TornDown, Spawn, ToWatch, args
  <1>3. /\ started' \in Seq(Plan) /\ Len(started') = Len(started) + 1
        /\ ToSet(started') = ToSet(started) \cup {s}
        /\ \A i \in 1 .. Len(started) : started'[i] = started[i]
        /\ started'[Len(started) + 1] = s
    BY <1>2, Appended DEF Spawn
  <1>4. LocalTypeOK'
    BY <1>2, <1>3 DEF LocalRunIInv, LocalTypeOK, Spawn, Inactive
  <1>5. held' = ToSet(started')
    BY <1>2, <1>3 DEF Spawn
  <1>6. Gathered'
    BY <1>1, <1>2, <1>3 DEF LocalRunIInv, Gathered, Spawn, Upcoming
  <1>7. TornDown'
    BY <1>2, <1>5 DEF TornDown
  <1>8. OnlyTargetLost'
    BY <1>1, <1>2, SpawnedNext DEF LocalRunIInv, OnlyTargetLost, Spawn
  <1>9. InDependencyOrder'
    <2> SUFFICES ASSUME withDeps, NEW i \in 1 .. (Len(started) + 1),
                        inDegree[started'[i]] = 0, NEW d \in KnownDeps(started'[i])
                 PROVE  \E j \in 1 .. (i - 1) : started'[j] = d
      BY <1>1, <1>2, <1>3 DEF InDependencyOrder
    <2>1. Len(started) \in Nat
      BY <1>2
    <2>2. CASE i = Len(started) + 1
      <3>1. d \in ToSet(started)
        BY <1>3, <2>2, SpawnedNext
      <3>2. PICK j \in 1 .. Len(started) : started[j] = d
        BY <1>2, <3>1 DEF ToSet
      <3> QED
        BY <1>3, <2>1, <2>2, <3>2
    <2>3. CASE i # Len(started) + 1
      <3>1. i \in 1 .. Len(started) /\ started'[i] = started[i]
        BY <1>3, <2>1, <2>3
      <3>2. PICK j \in 1 .. (i - 1) : started[j] = d
        BY <3>1 DEF LocalRunIInv, InDependencyOrder
      <3>3. j \in 1 .. Len(started)
        BY <2>1, <3>1
      <3> QED
        BY <1>3, <3>2, <3>3
    <2> QED
      BY <2>2, <2>3
  <1>10. phase' = "start" /\ ~withDeps' => coming' = {} /\ started' = <<>>
    BY <1>2 DEF LocalRunIInv
  <1> QED
    BY <1>1, <1>2, <1>4, <1>6, <1>7, <1>8, <1>9, <1>10 DEF LocalRunIInv

(* The steps that start and stop nothing. *)
LEMMA WatchKeeps ==
    ASSUME LocalRunIInv, UNCHANGED vars,
           SpawnFails \/ Watch \/ (\E ok \in BOOLEAN : WatchEnds(ok))
    PROVE  LocalRunIInv'
  <1>1. /\ IInv' /\ pc' = pc /\ inDegree' = inDegree
        /\ \A t : KnownDeps(t)' = KnownDeps(t)
        /\ \A t : Dependencies(t)' = Dependencies(t)
    BY GraphStays
  <1>2. /\ phase \in {"start", "watch"} /\ phase' \in {"watch", "stop"}
        /\ UNCHANGED <<target, withDeps, background, coming, started, held, alive, lost>>
        /\ failed' \in BOOLEAN
        /\ phase' = "watch" => phase = "start" /\ coming = {} /\ failed' = failed
    BY DEF SpawnFails, Watch, WatchEnds, args, processes, LocalRunIInv, LocalTypeOK, ToWatch
  <1>3. LocalTypeOK'
    BY <1>2 DEF LocalRunIInv, LocalTypeOK, Inactive
  <1>4. TornDown' /\ OnlyTargetLost' /\ Gathered'
    BY <1>1, <1>2 DEF LocalRunIInv, TornDown, OnlyTargetLost, Gathered
  <1>5. InDependencyOrder'
    <2>1. ASSUME withDeps, phase' = "watch"
          PROVE  KnownDeps(target) \subseteq ToSet(started)
      <3>1. ToSet(started) = Dependencies(target) \cap Plan
        BY <1>2, <2>1 DEF LocalRunIInv, Gathered
      <3> QED
        BY <1>2, <3>1, DependenciesClosed DEF LocalRunIInv, IInv, KnownDeps
    <2> QED
      BY <1>1, <1>2, <2>1 DEF LocalRunIInv, InDependencyOrder
  <1> QED
    BY <1>1, <1>2, <1>3, <1>4, <1>5 DEF LocalRunIInv

LEMMA StopKeeps ==
    ASSUME LocalRunIInv, UNCHANGED vars, StopOne \/ StopsDone
    PROVE  LocalRunIInv'
  <1>1. /\ IInv' /\ pc' = pc /\ inDegree' = inDegree
        /\ \A t : KnownDeps(t)' = KnownDeps(t)
        /\ \A t : Dependencies(t)' = Dependencies(t)
    BY GraphStays
  <1>2. CASE StopOne
    <2>1. /\ phase = "stop" /\ phase' = "stop" /\ started \in Seq(Plan) /\ started # <<>>
          /\ UNCHANGED <<target, withDeps, background, coming, lost, failed>>
          /\ held' = held \ {Last(started)} /\ alive' = alive \ {Last(started)}
          /\ started' = Front(started)
      BY <1>2 DEF StopOne, args, LocalRunIInv, LocalTypeOK
    <2>2. /\ started' \in Seq(Plan) /\ Len(started') = Len(started) - 1
          /\ \A i \in 1 .. (Len(started) - 1) : started'[i] = started[i]
          /\ ToSet(started) \ {Last(started)} \subseteq ToSet(started')
      BY <2>1, Fronted
    <2>3. LocalTypeOK'
      BY <2>1, <2>2 DEF LocalRunIInv, LocalTypeOK
    <2>4. TornDown' /\ OnlyTargetLost' /\ Gathered'
      BY <1>1, <2>1, <2>2 DEF LocalRunIInv, TornDown, OnlyTargetLost, Gathered
    <2>5. InDependencyOrder'
      <3> SUFFICES ASSUME withDeps, NEW i \in 1 .. Len(started'),
                          inDegree[started'[i]] = 0, NEW d \in KnownDeps(started'[i])
                   PROVE  \E j \in 1 .. (i - 1) : started'[j] = d
        BY <1>1, <2>1 DEF InDependencyOrder
      <3>1. Len(started) \in Nat /\ i \in 1 .. Len(started) /\ started'[i] = started[i]
        BY <2>1, <2>2
      <3>2. PICK j \in 1 .. (i - 1) : started[j] = d
        BY <3>1 DEF LocalRunIInv, InDependencyOrder
      <3> QED
        BY <2>2, <3>1, <3>2
    <2> QED
      BY <1>1, <2>1, <2>3, <2>4, <2>5 DEF LocalRunIInv
  <1>3. CASE StopsDone
    <2>1. /\ phase = "stop" /\ phase' = "ended" /\ started = <<>>
          /\ UNCHANGED <<target, withDeps, background, coming, started, held, alive, lost, failed>>
      BY <1>3 DEF StopsDone, args, processes
    <2>2. ToSet(started) = {}
      BY <2>1 DEF ToSet
    <2>3. LocalTypeOK' /\ TornDown' /\ OnlyTargetLost' /\ Gathered'
      BY <1>1, <2>1, <2>2 DEF LocalRunIInv, LocalTypeOK, TornDown, OnlyTargetLost, Gathered,
                              Inactive
    <2>4. InDependencyOrder'
      BY <1>1, <2>1 DEF LocalRunIInv, InDependencyOrder
    <2> QED
      BY <1>1, <2>1, <2>3, <2>4 DEF LocalRunIInv
  <1> QED
    BY <1>2, <1>3

(* Processes that end by themselves, and the end of tonin. *)
LEMMA ExitKeeps ==
    ASSUME LocalRunIInv, UNCHANGED vars, (\E s \in Plan : ServiceExits(s)) \/ LocalRunDies
    PROVE  LocalRunIInv'
  <1>1. /\ IInv' /\ pc' = pc /\ inDegree' = inDegree
        /\ \A t : KnownDeps(t)' = KnownDeps(t)
        /\ \A t : Dependencies(t)' = Dependencies(t)
    BY GraphStays
  <1>2. CASE \E s \in Plan : ServiceExits(s)
    <2>1. /\ UNCHANGED <<phase, target, withDeps, background, coming, started, held, failed>>
          /\ alive' \subseteq alive /\ lost' \subseteq lost
      BY <1>2 DEF ServiceExits, args
    <2>2. LocalTypeOK' /\ TornDown' /\ OnlyTargetLost' /\ Gathered'
      BY <1>1, <2>1 DEF LocalRunIInv, LocalTypeOK, TornDown, OnlyTargetLost, Gathered
    <2>3. InDependencyOrder'
      BY <1>1, <2>1 DEF LocalRunIInv, InDependencyOrder
    <2> QED
      BY <1>1, <2>1, <2>2, <2>3 DEF LocalRunIInv
  <1>3. CASE LocalRunDies
    <2>1. /\ phase # "idle" /\ phase' = "killed" /\ started' = <<>> /\ coming' = {}
          /\ held' = {} /\ alive' = {} /\ lost' \subseteq alive \cup lost
          /\ UNCHANGED <<target, withDeps, background, failed>>
      BY <1>3 DEF LocalRunDies, args, Inactive
    <2>2. LocalTypeOK'
      BY <2>1 DEF LocalRunIInv, LocalTypeOK, Inactive
    <2>3. TornDown' /\ OnlyTargetLost' /\ Gathered' /\ InDependencyOrder'
      BY <2>1 DEF TornDown, OnlyTargetLost, Gathered, InDependencyOrder
    <2> QED
      BY <1>1, <2>1, <2>2, <2>3 DEF LocalRunIInv
  <1> QED
    BY <1>2, <1>3

LEMMA LocalRunStep == LocalRunIInv /\ [LocalNext]_<<vars, localVars>> => LocalRunIInv'
  <1> SUFFICES ASSUME LocalRunIInv, [LocalNext]_<<vars, localVars>> PROVE LocalRunIInv'
    OBVIOUS
  <1>1. CASE Next /\ UNCHANGED localVars
    BY <1>1, WavesFirst
  <1>2. CASE LocalStep /\ UNCHANGED vars
    <2> USE <1>2
    <2>1. CASE \E s \in Plan : BeginRun(s) \/ Spawn(s)
      BY <2>1, BeginRunKeeps, SpawnKeeps
    <2>2. CASE SpawnFails \/ Watch \/ (\E ok \in BOOLEAN : WatchEnds(ok))
      BY <2>2, WatchKeeps
    <2>3. CASE StopOne \/ StopsDone
      BY <2>3, StopKeeps
    <2>4. CASE (\E s \in Plan : ServiceExits(s)) \/ LocalRunDies
      BY <2>4, ExitKeeps
    <2> QED
      BY <2>1, <2>2, <2>3, <2>4 DEF LocalStep
  <1>3. CASE UNCHANGED <<vars, localVars>>
    <2>1. /\ IInv' /\ pc' = pc /\ inDegree' = inDegree
          /\ \A t : KnownDeps(t)' = KnownDeps(t)
          /\ \A t : Dependencies(t)' = Dependencies(t)
      BY <1>3, GraphStays
    <2>2. LocalTypeOK' /\ TornDown' /\ OnlyTargetLost' /\ Gathered'
      BY <1>3, <2>1 DEF localVars, args, processes, LocalRunIInv, LocalTypeOK, TornDown,
                        OnlyTargetLost, Gathered
    <2>3. InDependencyOrder'
      BY <1>3, <2>1 DEF localVars, args, processes, LocalRunIInv, InDependencyOrder
    <2> QED
      BY <1>3, <2>1, <2>2, <2>3 DEF LocalRunIInv, localVars, args, processes
  <1> QED
    BY <1>1, <1>2, <1>3 DEF LocalNext

(* A run of `tonin run' on any graph of dependencies, whatever ends when:  *)
(* services start after the dependencies they have and a run that is torn  *)
(* down leaves none behind; only the target of a run on a cycle is lost    *)
(* (run.rs:117-181).                                                       *)
THEOREM LocalRunsSettle == LocalSpec => []LocalRunIInv
  BY LocalStart, LocalRunStep, PTL DEF LocalSpec

-----------------------------------------------------------------------------
LEMMA RulesTyped ==
    ASSUME AffectedTypeOK, NEW s \in Plan, NEW chosen \in SUBSET rules[s]
    PROVE  /\ PackagesOf(s, chosen) \subseteq Plan \X Package
           /\ WorkOf(s, chosen) \subseteq Work
           /\ \A w \in WorkOf(s, chosen) : w[1] = s
  <1>1. \A r \in chosen : r.layer \in Layer /\ r.packages \subseteq Package
    <2>1. rules[s] \subseteq PathRule
      BY AffectedAssumption DEF AffectedTypeOK
    <2> QED
      BY <2>1 DEF PathRule
  <1> QED
    BY <1>1 DEF PackagesOf, WorkOf, Work

(* Spreading is closed: it holds the sources and the callers that forward. *)
LEMMA SpreadingClosed ==
    ASSUME AffectedTypeOK
    PROVE  /\ Sources \subseteq Spreading /\ Spreading \subseteq Plan
           /\ \A s \in Spreading : {c \in callers[s] : Forwards(c)} \subseteq Spreading
  <1>1. Sources \subseteq Plan
    BY DEF Sources
  <1>2. ASSUME NEW s \in Spreading, NEW c \in callers[s], Forwards(c)
        PROVE  c \in Spreading
    <2>1. s \in Plan /\ c \in Plan
      BY <1>2 DEF Spreading, AffectedTypeOK
    <2> SUFFICES ASSUME NEW S \in SUBSET Plan, Sources \subseteq S,
                        \A t \in S : {b \in callers[t] : Forwards(b)} \subseteq S
                 PROVE  c \in S
      BY <2>1 DEF Spreading
    <2>2. s \in S
      BY DEF Spreading
    <2> QED
      BY <1>2, <2>2
  <1> QED
    BY <1>1, <1>2 DEF Spreading

LEMMA AffectedStart == AffectedInit => AffectedIInv
  BY DEF AffectedInit, AffectedIInv, AffectedTypeOK

LEMMA MatchKeeps ==
    ASSUME AffectedIInv, MatchPaths
    PROVE  AffectedIInv'
  <1>1. /\ stage = "match" /\ stage' = "propagate" /\ propagated' = {} /\ propagated = {}
        /\ UNCHANGED <<callers, rules>> /\ AffectedTypeOK
        /\ worklist' = UNION {WorkOf(s, Matched(s)) : s \in Plan}
        /\ services' = {s \in Plan : \E r \in Matched(s) : Deployable(r)}
        /\ packages' = UNION {PackagesOf(s, Matched(s)) : s \in Plan}
    BY DEF AffectedIInv, MatchPaths
  <1>2. \A s \in Plan : /\ PackagesOf(s, Matched(s)) \subseteq Plan \X Package
                        /\ WorkOf(s, Matched(s)) \subseteq Work
                        /\ \A w \in WorkOf(s, Matched(s)) : w[1] = s
    BY <1>1, RulesTyped DEF Matched
  <1>3. AffectedTypeOK'
    BY <1>1, <1>2 DEF AffectedTypeOK
  <1>4. /\ \A s : Matched(s)' = Matched(s) /\ Rebuilt(s)' = Rebuilt(s)
        /\ Sources' = Sources /\ Spreading' = Spreading
        /\ \A S : CalledFrom(S)' = CalledFrom(S)
    BY <1>1 DEF Matched, Rebuilt, Sources, Spreading, Forwards, CalledFrom
  <1>5. Queued' = Sources
    BY <1>1, <1>2 DEF Queued, Sources
  <1>6. Popped' = {} /\ CalledFrom({}) = {}
    BY <1>1 DEF Popped, CalledFrom
  <1>7. /\ CalledFrom(Popped)' = {} /\ \A s : Forwards(s)' = Forwards(s)
        /\ services' = {s \in Plan : \E r \in Matched(s) : Deployable(r)}
        /\ packages' = UNION {PackagesOf(s, Matched(s)) : s \in Plan}
    BY <1>1, <1>6 DEF Forwards, Rebuilt, CalledFrom
  <1> QED
    BY <1>1, <1>3, <1>4, <1>5, <1>7, SpreadingClosed DEF AffectedIInv

(* Popping a service adds its callers, and those that forward to the list. *)
LEMMA PropagateKeeps ==
    ASSUME AffectedIInv, NEW w \in Work, Propagate(w)
    PROVE  AffectedIInv'
  <1> DEFINE called == callers[w[1]]
  <1>1. /\ stage = "propagate" /\ stage' = "propagate" /\ w \in worklist
        /\ UNCHANGED <<callers, rules>> /\ AffectedTypeOK
        /\ w[1] \in Plan /\ called \subseteq Plan
        /\ worklist' = (worklist \ {w}) \cup UNION {WorkOf(c, Rebuilt(c)) : c \in called}
        /\ propagated' = propagated \cup {w}
        /\ services' = services \cup called
        /\ packages' = packages \cup UNION {PackagesOf(c, Rebuilt(c)) : c \in called}
    BY DEF AffectedIInv, AffectedTypeOK, Propagate, Work
  <1>2. \A c \in called : /\ PackagesOf(c, Rebuilt(c)) \subseteq Plan \X Package
                          /\ WorkOf(c, Rebuilt(c)) \subseteq Work
                          /\ \A v \in WorkOf(c, Rebuilt(c)) : v[1] = c
    BY <1>1, RulesTyped DEF Rebuilt
  <1>3. AffectedTypeOK'
    BY <1>1, <1>2 DEF AffectedTypeOK
  <1>4. /\ \A s : Matched(s)' = Matched(s) /\ Rebuilt(s)' = Rebuilt(s)
        /\ \A s : Forwards(s)' = Forwards(s)
        /\ Sources' = Sources /\ Spreading' = Spreading
        /\ CalledFrom(Popped)' = UNION {callers[s] : s \in Popped'}
    BY <1>1 DEF Matched, Rebuilt, Sources, Spreading, Forwards, CalledFrom
  <1>5. Popped' = Popped \cup {w[1]} /\ w[1] \in Queued
    BY <1>1 DEF Popped, Queued
  <1>6. UNION {callers[s] : s \in Popped'} = CalledFrom(Popped) \cup called
    BY <1>5 DEF CalledFrom
  <1>7. Queued' = Queued \cup {c \in called : Forwards(c)}
    <2>1. worklist' \cup propagated' =
              worklist \cup propagated \cup UNION {WorkOf(c, Rebuilt(c)) : c \in called}
      BY <1>1
    <2> QED
      BY <1>2, <2>1 DEF Queued, Forwards
  <1>8. /\ Sources \subseteq Queued /\ Queued \subseteq Spreading
        /\ {c \in CalledFrom(Popped) : Forwards(c)} \subseteq Queued
    BY <1>1 DEF AffectedIInv
  <1>9. w[1] \in Spreading /\ {c \in called : Forwards(c)} \subseteq Spreading
    BY <1>1, <1>5, <1>8, SpreadingClosed
  <1>10. /\ Sources' \subseteq Queued' /\ Queued' \subseteq Spreading'
         /\ {c \in CalledFrom(Popped) : Forwards(c)}' \subseteq Queued'
    BY <1>4, <1>6, <1>7, <1>8, <1>9
  <1>11. services' = {s \in Plan : \E r \in Matched(s)' : Deployable(r)} \cup CalledFrom(Popped)'
    BY <1>1, <1>4, <1>6 DEF AffectedIInv
  <1>12. packages' = (UNION {PackagesOf(s, Matched(s)') : s \in Plan})
                         \cup (UNION {PackagesOf(c, Rebuilt(c)') : c \in CalledFrom(Popped)'})
    <2>1. packages = (UNION {PackagesOf(s, Matched(s)) : s \in Plan})
                         \cup (UNION {PackagesOf(c, Rebuilt(c)) : c \in CalledFrom(Popped)})
      BY <1>1 DEF AffectedIInv
    <2> QED
      BY <1>1, <1>4, <1>6, <2>1
  <1> QED
    BY <1>1, <1>3, <1>10, <1>11, <1>12 DEF AffectedIInv

LEMMA SkipPropagatedKeeps ==
    ASSUME AffectedIInv,
           (\E w \in Work : SkipPropagated(w)) \/ ReportAffected \/ UNCHANGED affectedVars
    PROVE  AffectedIInv'
  <1>1. /\ UNCHANGED <<callers, rules, propagated, services, packages>>
        /\ worklist' \subseteq worklist /\ worklist' \cup propagated' = worklist \cup propagated
        /\ stage' = "match" <=> stage = "match"
        /\ stage' \in {"match", "propagate", "done"}
        /\ stage' = "done" => worklist' = {}
    BY DEF AffectedIInv, AffectedTypeOK, SkipPropagated, ReportAffected, affectedVars
  <1>2. AffectedTypeOK'
    BY <1>1 DEF AffectedIInv, AffectedTypeOK
  <1>3. /\ \A s : Matched(s)' = Matched(s) /\ Rebuilt(s)' = Rebuilt(s)
        /\ \A s : Forwards(s)' = Forwards(s)
        /\ Sources' = Sources /\ Spreading' = Spreading
        /\ Popped' = Popped /\ Queued' = Queued
        /\ CalledFrom(Popped)' = CalledFrom(Popped)
    BY <1>1 DEF Matched, Rebuilt, Sources, Spreading, Forwards, CalledFrom, Popped, Queued
  <1> QED
    BY <1>1, <1>2, <1>3 DEF AffectedIInv

LEMMA AffectedKeeps == AffectedIInv /\ [AffectedNext]_<<vars, affectedVars>> => AffectedIInv'
  BY MatchKeeps, PropagateKeeps, SkipPropagatedKeeps DEF AffectedNext, AffectedStep

(* On any caller graph and with any path rules the work list holds, at     *)
(* every step, what is still to be passed on and nothing else.             *)
THEOREM PropagationInvariant == AffectedSpec => []AffectedIInv
  BY AffectedStart, AffectedKeeps, PTL DEF AffectedSpec

(* When the propagation ends it has reached every caller it is to reach    *)
(* and no other, whatever cycles there are (affected.rs:165-211).          *)
THEOREM PropagationComplete == AffectedSpec => []CallersFollow
  <1>1. AffectedIInv => CallersFollow
    <2> SUFFICES ASSUME AffectedIInv, stage = "done" PROVE Spreading = Popped
      BY DEF AffectedIInv, CallersFollow
    <2>1. Queued = Popped
      BY DEF AffectedIInv, Queued, Popped
    <2>2. /\ Sources \subseteq Popped /\ Popped \subseteq Spreading
          /\ {c \in CalledFrom(Popped) : Forwards(c)} \subseteq Popped
      BY <2>1 DEF AffectedIInv
    <2>3. Popped \subseteq Plan
      BY DEF AffectedIInv, AffectedTypeOK, Popped, Work
    <2>4. Spreading \subseteq Popped
      BY <2>2, <2>3 DEF Spreading, CalledFrom
    <2> QED
      BY <2>2, <2>4
  <1> QED
    BY <1>1, PropagationInvariant, PTL
=============================================================================
