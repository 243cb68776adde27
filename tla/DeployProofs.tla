---------------------------- MODULE DeployProofs ----------------------------
(***************************************************************************)
(* Proofs about WaveGroups and Deploy: the waves are right whatever the    *)
(* graph, and a run that has the cluster to itself deploys dependencies    *)
(* first.                                                                  *)
(***************************************************************************)
EXTENDS Deploy, FiniteSetTheorems, WellFoundedInduction, TLAPS

(* The cardinality of the dependencies of a plan is that of a finite set.  *)
LEMMA DepsFinite ==
    ASSUME NEW S \in SUBSET Plan
    PROVE  IsFiniteSet(S) /\ Cardinality(S) \in Nat
           /\ (Cardinality(S) = 0 <=> S = {})
  BY WaveAssumption, FS_Subset, FS_CardinalityType, FS_EmptySet

(* Taking one dependency away takes one from their number. *)
LEMMA OneLess ==
    ASSUME NEW S \in SUBSET Plan, NEW p \in S
    PROVE  Cardinality(S \ {p}) = Cardinality(S) - 1
  BY DepsFinite, FS_RemoveElement

LEMMA WaveInit == Init => IInv
  <1> SUFFICES ASSUME Init PROVE IInv
    OBVIOUS
  <1>1. \A s \in Plan : KnownDeps(s) \in SUBSET Plan
    BY DEF KnownDeps
  <1>2. TypeOK
    BY <1>1, DepsFinite DEF Init, TypeOK
  <1>3. \A s \in Plan : inDegree[s] = Cardinality(KnownDeps(s) \ Relaxed)
    <2>1. Relaxed = {}
      BY DEF Init, Relaxed
    <2> QED
      BY <2>1 DEF Init
  <1> QED
    BY <1>2, <1>3 DEF Init, IInv, KnownDeps, Relaxed

(* A plan has in-degree 0 when all it depends on is relaxed. *)
LEMMA Free ==
    ASSUME IInv, NEW s \in Plan
    PROVE  inDegree[s] = 0 <=> KnownDeps(s) \subseteq Relaxed
  <1>1. KnownDeps(s) \ Relaxed \in SUBSET Plan
    BY DEF KnownDeps
  <1> QED
    BY <1>1, DepsFinite DEF IInv

LEMMA DrainKeeps ==
    ASSUME IInv, DrainQueue
    PROVE  IInv'
  <1>1. Relaxed' = Relaxed /\ \A s \in Plan : KnownDeps(s)' = KnownDeps(s)
    BY DEF IInv, DrainQueue, Relaxed, KnownDeps
  <1>2. TypeOK'
    BY DEF IInv, TypeOK, DrainQueue
  <1>3. \A s \in Plan : inDegree'[s] = Cardinality(KnownDeps(s)' \ Relaxed')
    BY <1>1 DEF IInv, DrainQueue
  <1> QED
    BY <1>1, <1>2, <1>3 DEF IInv, DrainQueue

(* Relaxing a plan takes one dependency from exactly the plans that depend *)
(* on it, none of which was queued before.                                 *)
LEMMA RelaxKeeps ==
    ASSUME IInv, NEW p \in Plan, Relax(p)
    PROVE  IInv'
  <1>1. pc = "loop" /\ p \in visited /\ p \notin Relaxed /\ inDegree[p] = 0
    BY DEF IInv, TypeOK, Relax, Relaxed
  <1>2. Relaxed' = Relaxed \cup {p}
    BY <1>1 DEF Relax, Relaxed
  <1>3. \A s \in Plan : KnownDeps(s)' = KnownDeps(s)
    BY DEF Relax, KnownDeps
  <1>4. \A s \in Plan : p \in deps[s] => p \in KnownDeps(s) \ Relaxed /\ inDegree[s] # 0
    BY <1>1, Free DEF KnownDeps
  <1>5. \A s \in Plan : /\ p \in deps[s] => inDegree'[s] = inDegree[s] - 1
                        /\ p \notin deps[s] => inDegree'[s] = inDegree[s]
    BY DEF Relax
  <1>6. \A s \in Plan : inDegree'[s] = Cardinality(KnownDeps(s)' \ Relaxed')
    <2> SUFFICES ASSUME NEW s \in Plan
                 PROVE  inDegree'[s] = Cardinality(KnownDeps(s) \ Relaxed')
      BY <1>3
    <2>1. inDegree[s] = Cardinality(KnownDeps(s) \ Relaxed)
      BY DEF IInv
    <2>2. CASE p \in deps[s]
      <3>1. KnownDeps(s) \ Relaxed' = (KnownDeps(s) \ Relaxed) \ {p}
        BY <1>2
      <3>2. KnownDeps(s) \ Relaxed \in SUBSET Plan
        BY DEF KnownDeps
      <3> QED
        BY <1>4, <1>5, <2>1, <2>2, <3>1, <3>2, OneLess
    <2>3. CASE p \notin deps[s]
      <3>1. KnownDeps(s) \ Relaxed' = KnownDeps(s) \ Relaxed
        BY <1>2, <2>3 DEF KnownDeps
      <3> QED
        BY <1>5, <2>1, <2>3, <3>1
    <2> QED
      BY <2>2, <2>3
  <1>7. TypeOK'
    <2>1. inDegree' \in [Plan -> Nat]
      <3>1. \A s \in Plan : inDegree'[s] \in Nat
        BY <1>4, <1>5 DEF IInv, TypeOK
      <3>2. inDegree' = [s \in Plan |-> inDegree'[s]]
        BY DEF Relax
      <3> QED
        BY <3>1, <3>2
    <2>2. wave' \in [Plan -> Nat]
      BY DEF IInv, TypeOK, Relax, Later
    <2> QED
      BY <2>1, <2>2 DEF IInv, TypeOK, Relax
  <1>8. current' \subseteq visited' /\ queue' \cap visited' = {}
    BY <1>4 DEF IInv, Relax
  <1>9. \A s \in Plan : inDegree'[s] = 0 <=> s \in visited' \cup queue'
    BY <1>4, <1>5 DEF IInv, Relax
  <1>10. \A s \in Plan : \A d \in KnownDeps(s)' \cap Relaxed' : wave'[d] < wave'[s]
    <2> SUFFICES ASSUME NEW s \in Plan, NEW d \in KnownDeps(s) \cap (Relaxed \cup {p})
                 PROVE  wave'[d] < wave'[s]
      BY <1>2, <1>3
    <2>1. d \in Plan /\ d \in deps[s] /\ inDegree[d] = 0
      BY <1>1 DEF IInv, KnownDeps, Relaxed
    <2>2. wave'[d] = wave[d]
      BY <1>4, <2>1 DEF Relax
    <2>3. wave[d] \in Nat /\ wave[s] \in Nat /\ wave[p] \in Nat
      BY <2>1 DEF IInv, TypeOK
    <2>4. CASE d = p
      <3>1. wave'[s] = Later(wave[s], wave[p] + 1)
        BY <2>1, <2>4 DEF Relax
      <3> QED
        BY <2>2, <2>3, <2>4, <3>1 DEF Later
    <2>5. CASE d \in Relaxed
      <3>1. wave[d] < wave[s]
        BY <1>1, <2>5 DEF IInv
      <3>2. wave'[s] = wave[s] \/ wave'[s] = Later(wave[s], wave[p] + 1)
        BY DEF Relax
      <3> QED
        BY <2>2, <2>3, <3>1, <3>2 DEF Later
    <2> QED
      BY <2>4, <2>5
  <1>11. pc' = "loop"
    BY <1>1 DEF Relax
  <1> QED
    BY <1>6, <1>7, <1>8, <1>9, <1>10, <1>11 DEF IInv

LEMMA FinishKeeps ==
    ASSUME IInv, Finish
    PROVE  IInv'
  <1>1. Relaxed' = Relaxed /\ \A s \in Plan : KnownDeps(s)' = KnownDeps(s)
    BY DEF Finish, Relaxed, KnownDeps
  <1>2. TypeOK'
    BY DEF IInv, TypeOK, Finish
  <1>3. \A s \in Plan : inDegree'[s] = Cardinality(KnownDeps(s)' \ Relaxed')
    BY <1>1 DEF IInv, Finish
  <1>4. DepsFirst'
    <2> SUFFICES ASSUME NEW s \in Plan, inDegree[s] = 0, NEW d \in KnownDeps(s)
                 PROVE  wave'[d] < wave'[s]
      BY <1>1 DEF DepsFirst, Finish
    <2>1. d \in Relaxed /\ d \in Plan
      BY Free DEF KnownDeps
    <2>2. wave[d] < wave[s]
      BY <2>1 DEF IInv, Finish
    <2>3. inDegree[d] = 0
      BY <2>1 DEF IInv, Relaxed
    <2>4. wave'[d] = wave[d] /\ wave'[s] = wave[s]
      BY <2>1, <2>3 DEF Finish, IInv, TypeOK
    <2> QED
      BY <2>2, <2>4
  <1> QED
    BY <1>1, <1>2, <1>3, <1>4 DEF IInv, Finish

LEMMA WaveStep == IInv /\ [Next]_vars => IInv'
  <1> SUFFICES ASSUME IInv, [Next]_vars PROVE IInv'
    OBVIOUS
  <1>1. CASE DrainQueue
    BY <1>1, DrainKeeps
  <1>2. CASE \E p \in Plan : Relax(p)
    BY <1>2, RelaxKeeps
  <1>3. CASE Finish
    BY <1>3, FinishKeeps
  <1>4. CASE UNCHANGED vars
    BY <1>4 DEF vars, IInv, TypeOK, Relaxed, KnownDeps, DepsFirst
  <1> QED
    BY <1>1, <1>2, <1>3, <1>4 DEF Next

(* Whatever the dependency graph, cycles and names outside the workspace   *)
(* included, when the grouping ends every plan that is not stuck behind a  *)
(* cycle is in a later wave than each plan it depends on                   *)
(* (plan.rs:1391-1462).                                                    *)
THEOREM WavesRight == Spec => []IInv
  BY WaveInit, WaveStep, PTL DEF Spec

-----------------------------------------------------------------------------
(* The waves against those of `tonin affected'.                            *)

LEMMA TightStep ==
    ASSUME IInv, Tight, [Next]_vars
    PROVE  Tight'
  <1>1. CASE DrainQueue
    <2>1. Relaxed' = Relaxed /\ \A s \in Plan : KnownDeps(s)' = KnownDeps(s)
      BY <1>1 DEF IInv, DrainQueue, Relaxed, KnownDeps
    <2> QED
      BY <1>1, <2>1 DEF Tight, DrainQueue
  <1>2. ASSUME NEW p \in Plan, Relax(p) PROVE Tight'
    <2>1. pc' = "loop" /\ p \in visited /\ p \notin Relaxed /\ inDegree[p] = 0
      BY <1>2 DEF IInv, TypeOK, Relax, Relaxed
    <2>2. Relaxed' = Relaxed \cup {p} /\ \A s \in Plan : KnownDeps(s)' = KnownDeps(s)
      BY <1>2, <2>1 DEF Relax, Relaxed, KnownDeps
    <2>3. \A s \in Plan : p \in deps[s] => inDegree[s] # 0
      BY <2>1, Free DEF KnownDeps
    <2>4. \A d \in Relaxed \cup {p} : d \in Plan /\ wave'[d] = wave[d]
      <3>1. \A d \in Relaxed \cup {p} : d \in Plan /\ inDegree[d] = 0
        BY <2>1 DEF IInv, TypeOK, Relaxed
      <3> QED
        BY <1>2, <2>3, <3>1 DEF Relax
    <2>5. ASSUME NEW s \in Plan, wave'[s] # 0
          PROVE  \E d \in KnownDeps(s) \cap (Relaxed \cup {p}) : wave'[s] = wave'[d] + 1
      <3>1. CASE p \in deps[s] /\ wave'[s] = wave[p] + 1
        BY <2>4, <3>1 DEF KnownDeps
      <3>2. CASE wave'[s] = wave[s]
        <4>1. PICK d \in KnownDeps(s) \cap Relaxed : wave[s] = wave[d] + 1
          BY <2>5, <3>2 DEF Tight
        <4> QED
          BY <2>4, <3>2, <4>1
      <3>3. (p \in deps[s] /\ wave'[s] = wave[p] + 1) \/ wave'[s] = wave[s]
        BY <1>2 DEF Relax, Later
      <3> QED
        BY <3>1, <3>2, <3>3
    <2> QED
      BY <2>1, <2>2, <2>5 DEF Tight
  <1>3. CASE Finish
    <2>1. Relaxed' = Relaxed /\ inDegree' = inDegree /\ \A s \in Plan : KnownDeps(s)' = KnownDeps(s)
      BY <1>3 DEF Finish, Relaxed, KnownDeps
    <2>2. \A s \in Plan : wave'[s] = IF inDegree[s] > 0 THEN 0 ELSE wave[s]
      BY <1>3 DEF Finish
    <2>3. \A d \in Relaxed : d \in Plan /\ wave'[d] = wave[d]
      <3>1. \A d \in Relaxed : d \in Plan /\ inDegree[d] = 0
        BY DEF IInv, TypeOK, Relaxed
      <3> QED
        BY <2>2, <3>1
    <2>4. ASSUME NEW s \in Plan, wave'[s] # 0
          PROVE  \E d \in KnownDeps(s) \cap Relaxed : wave'[s] = wave'[d] + 1
      <3>1. wave'[s] = wave[s]
        BY <2>2, <2>4
      <3>2. PICK d \in KnownDeps(s) \cap Relaxed : wave[s] = wave[d] + 1
        BY <2>4, <3>1 DEF Tight
      <3> QED
        BY <2>3, <3>1, <3>2
    <2> QED
      BY <2>1, <2>2, <2>4 DEF Tight
  <1>4. CASE UNCHANGED vars
    BY <1>4 DEF vars, Tight, Relaxed, KnownDeps
  <1> QED
    BY <1>1, <1>2, <1>3, <1>4 DEF Next

LEMMA TightStart == Init => Tight
  BY DEF Init, Tight

(* Below: the relation "less than" on the natural numbers. *)
Below == {ss \in Nat \X Nat : ss[1] < ss[2]}

(* Induction: a set that holds 0, and with every number the next, holds    *)
(* the natural numbers.                                                    *)
LEMMA SetInduction ==
    ASSUME NEW P, 0 \in P, \A n \in Nat : n \in P => n + 1 \in P
    PROVE  Nat \subseteq P
  <1> DEFINE S == Nat \ P
  <1>1. SUFFICES ASSUME S # {} PROVE FALSE
    OBVIOUS
  <1>2. IsWellFoundedOn(Below, Nat)
    BY NatLessThanWellFounded, Zenon DEF OpToRel, Below
  <1>3. PICK x \in S : \A y \in S : <<y, x>> \notin Below
    <2>1. S \subseteq Nat
      OBVIOUS
    <2> HIDE DEF S
    <2> QED
      BY <1>1, <1>2, <2>1, WFMin
  <1>4. x \in Nat /\ x # 0
    OBVIOUS
  <1>5. <<x - 1, x>> \in Below
    BY <1>4 DEF Below
  <1>6. x \in P
    BY <1>3, <1>4, <1>5
  <1> QED
    BY <1>6

(* When the grouping is over, the plans visited are those that depend on   *)
(* visited ones only, one wave after the last of them.                     *)
LEMMA AllDone ==
    ASSUME IInv, Tight, pc = "done"
    PROVE  /\ visited \subseteq Plan /\ \A s \in Plan : wave[s] \in Nat
           /\ \A s \in Plan : s \in visited <=> KnownDeps(s) \subseteq visited
           /\ \A s \in visited : \A d \in KnownDeps(s) : d \in visited /\ wave[d] < wave[s]
           /\ \A s \in Plan : wave[s] # 0 => \E d \in KnownDeps(s) \cap visited : wave[s] = wave[d] + 1
           /\ \A s \in Plan \ visited : wave[s] = 0
  <1>1. Relaxed = visited /\ queue = {} /\ visited \subseteq Plan
    BY DEF IInv, TypeOK, Relaxed
  <1>2. \A s \in Plan : wave[s] \in Nat /\ inDegree[s] \in Nat
    BY DEF IInv, TypeOK
  <1>3. \A s \in Plan : inDegree[s] = 0 <=> s \in visited
    BY <1>1 DEF IInv
  <1>4. \A s \in Plan : inDegree[s] = 0 <=> KnownDeps(s) \subseteq visited
    BY <1>1, Free
  <1>5. \A s \in visited : \A d \in KnownDeps(s) : wave[d] < wave[s]
    BY <1>1, <1>3 DEF IInv, DepsFirst
  <1>6. \A s \in Plan \ visited : wave[s] = 0
    BY <1>2, <1>3 DEF Tight
  <1> QED
    BY <1>1, <1>2, <1>3, <1>4, <1>5, <1>6 DEF Tight

(* The plans that are never visited are those on or behind a cycle. *)
LEMMA BlockedAreLeft ==
    ASSUME IInv, Tight, pc = "done", NEW s \in Plan
    PROVE  Blocked(s) <=> s \notin visited
  <1>1. ASSUME s \notin visited PROVE Blocked(s)
    <2> DEFINE C == Plan \ visited
    <2>1. \A c \in C : KnownDeps(c) \cap C # {}
      BY AllDone DEF KnownDeps
    <2>2. s \in C /\ C \in SUBSET Plan
      BY <1>1
    <2> HIDE DEF C
    <2> QED
      BY <2>1, <2>2 DEF Blocked
  <1>2. ASSUME s \in visited, Blocked(s) PROVE FALSE
    <2>1. PICK C \in SUBSET Plan : s \in C /\ \A c \in C : KnownDeps(c) \cap C # {}
      BY <1>2 DEF Blocked
    <2> DEFINE P == {k \in Nat : \A c \in C \cap visited : wave[c] >= k}
    <2>2. 0 \in P
      BY AllDone
    <2>3. ASSUME NEW k \in Nat, k \in P PROVE k + 1 \in P
      <3> SUFFICES ASSUME NEW c \in C \cap visited PROVE wave[c] >= k + 1
        OBVIOUS
      <3>1. PICK d \in KnownDeps(c) \cap C : TRUE
        BY <2>1
      <3>2. d \in C \cap visited /\ wave[d] < wave[c] /\ wave[c] \in Nat /\ wave[d] \in Nat
        BY <3>1, AllDone
      <3>3. wave[d] >= k
        BY <2>3, <3>2
      <3> QED
        BY <3>2, <3>3
    <2> HIDE DEF P
    <2>4. Nat \subseteq P
      BY <2>2, <2>3, SetInduction
    <2>5. wave[s] \in Nat /\ wave[s] + 1 \in P
      BY <2>4, AllDone
    <2>6. wave[s] >= wave[s] + 1
      BY <1>2, <2>1, <2>5 DEF P
    <2> QED
      BY <2>5, <2>6
  <1> QED
    BY <1>1, <1>2

(* There are plans of every wave up to that of a visited plan. *)
LEMMA WavesAreFew ==
    ASSUME IInv, Tight, pc = "done", NEW s \in visited
    PROVE  wave[s] + 1 <= Cardinality(Plan)
  <1> DEFINE upto(k) == {t \in Plan : wave[t] <= k}
             P == {k \in Nat : \A t \in visited : wave[t] = k => Cardinality(upto(k)) >= k + 1}
  <1>1. \A k : upto(k) \in SUBSET Plan
    OBVIOUS
  <1>2. \A t \in Plan : wave[t] \in Nat
    BY AllDone
  <1>3. visited \subseteq Plan
    BY AllDone
  <1>4. 0 \in P
    <2> SUFFICES ASSUME NEW t \in visited, wave[t] = 0 PROVE Cardinality(upto(0)) >= 1
      OBVIOUS
    <2>1. t \in upto(0)
      BY <1>3
    <2> HIDE DEF upto
    <2>2. Cardinality(upto(0)) \in Nat /\ Cardinality(upto(0)) # 0
      BY <1>1, <2>1, DepsFinite
    <2> QED
      BY <2>2
  <1>5. ASSUME NEW k \in Nat, k \in P PROVE k + 1 \in P
    <2> SUFFICES ASSUME NEW t \in visited, wave[t] = k + 1
                 PROVE  Cardinality(upto(k + 1)) >= (k + 1) + 1
      OBVIOUS
    <2>1. PICK d \in visited : wave[t] = wave[d] + 1
      <3>1. wave[t] # 0
        OBVIOUS
      <3> QED
        BY <1>3, <3>1, AllDone
    <2>2. wave[d] = k
      BY <1>2, <1>3, <2>1
    <2>3. Cardinality(upto(k)) >= k + 1
      BY <1>5, <2>2
    <2>4. t \notin upto(k) /\ upto(k) \cup {t} \subseteq upto(k + 1)
      BY <1>2, <1>3
    <2> HIDE DEF upto
    <2>5. Cardinality(upto(k) \cup {t}) = Cardinality(upto(k)) + 1
      BY <1>1, <2>4, DepsFinite, FS_AddElement
    <2>6. Cardinality(upto(k) \cup {t}) <= Cardinality(upto(k + 1))
      BY <1>1, <2>4, DepsFinite, FS_Subset
    <2>7. Cardinality(upto(k)) \in Nat /\ Cardinality(upto(k + 1)) \in Nat
      BY <1>1, DepsFinite
    <2> QED
      BY <2>3, <2>5, <2>6, <2>7
  <1> HIDE DEF P
  <1>6. wave[s] \in P
    BY <1>2, <1>3, <1>4, <1>5, SetInduction
  <1> DEFINE k == wave[s]
  <1>7. Cardinality(upto(k)) >= k + 1
    BY <1>6 DEF P
  <1>8. k \in Nat
    BY <1>2, <1>3
  <1> HIDE DEF upto, k
  <1>9. Cardinality(upto(k)) <= Cardinality(Plan) /\ Cardinality(upto(k)) \in Nat
        /\ Cardinality(Plan) \in Nat
    BY <1>1, WaveAssumption, DepsFinite, FS_Subset
  <1>10. k + 1 <= Cardinality(Plan)
    BY <1>7, <1>8, <1>9
  <1> QED
    BY <1>10 DEF k

(* After n rounds compute_waves has placed the plans of the first n waves. *)
LEMMA RoundsPlaceWaves ==
    ASSUME IInv, Tight, pc = "done", \A p \in Plan : deps[p] \subseteq Plan
    PROVE  \A n \in 0 .. Cardinality(Plan) : Placed[n] = {s \in visited : wave[s] < n}
  <1> DEFINE N == Cardinality(Plan)
             W(n) == {s \in visited : wave[s] < n}
             placed[n \in 0 .. N] ==
                 IF n = 0 THEN {} ELSE {s \in Plan : deps[s] \subseteq placed[n - 1]}
  <1>1. N \in Nat
    BY WaveAssumption, FS_CardinalityType
  <1>2. W(0) = {}
    BY AllDone
  <1>3. ASSUME NEW n \in Nat PROVE W(n + 1) = {s \in Plan : deps[s] \subseteq W(n)}
    <2>1. ASSUME NEW s \in W(n + 1) PROVE s \in Plan /\ deps[s] \subseteq W(n)
      <3>1. s \in visited /\ s \in Plan /\ wave[s] <= n /\ wave[s] \in Nat
        BY <2>1, AllDone
      <3>2. deps[s] = KnownDeps(s)
        BY <3>1 DEF KnownDeps
      <3>3. \A d \in deps[s] : d \in visited /\ wave[d] < wave[s] /\ wave[d] \in Nat
        BY <3>1, <3>2, AllDone
      <3> QED
        BY <3>1, <3>3
    <2>2. ASSUME NEW s \in Plan, deps[s] \subseteq W(n) PROVE s \in W(n + 1)
      <3>1. deps[s] = KnownDeps(s)
        BY DEF KnownDeps
      <3>2. s \in visited
        <4>1. KnownDeps(s) \subseteq visited
          BY <2>2, <3>1
        <4> QED
          BY <4>1, AllDone
      <3>3. wave[s] = 0 \/ \E d \in KnownDeps(s) : wave[s] = wave[d] + 1
        BY AllDone
      <3>4. CASE wave[s] = 0
        BY <3>2, <3>4
      <3>5. ASSUME NEW d \in KnownDeps(s), wave[s] = wave[d] + 1 PROVE s \in W(n + 1)
        <4>1. wave[d] < n /\ wave[d] \in Nat
          BY <2>2, <3>1, <3>5, AllDone
        <4>2. wave[s] < n + 1
          BY <3>5, <4>1
        <4> QED
          BY <3>2, <4>2
      <3> QED
        BY <3>3, <3>4, <3>5
    <2> QED
      BY <2>1, <2>2
  <1>4. placed = [n \in 0 .. N |->
                    IF n = 0 THEN {} ELSE {s \in Plan : deps[s] \subseteq placed[n - 1]}]
    <2> DEFINE byWave == [n \in 0 .. N |-> W(n)]
    <2>1. \A n \in 0 .. N :
              W(n) = IF n = 0 THEN {} ELSE {s \in Plan : deps[s] \subseteq byWave[n - 1]}
      <3> TAKE n \in 0 .. N
      <3>1. CASE n = 0
        BY <1>2, <3>1
      <3>2. CASE n # 0
        <4>1. n - 1 \in Nat /\ n - 1 \in 0 .. N /\ (n - 1) + 1 = n
          BY <1>1, <3>2
        <4>2. W((n - 1) + 1) = {s \in Plan : deps[s] \subseteq W(n - 1)}
          BY <1>3, <4>1
        <4> HIDE DEF W
        <4> QED
          BY <3>2, <4>1, <4>2
      <3> QED
        BY <3>1, <3>2
    <2> HIDE DEF W
    <2>2. byWave = [n \in 0 .. N |->
                      IF n = 0 THEN {} ELSE {s \in Plan : deps[s] \subseteq byWave[n - 1]}]
      BY <2>1
    <2> HIDE DEF byWave
    <2>3. \E f : f = [n \in 0 .. N |->
                        IF n = 0 THEN {} ELSE {s \in Plan : deps[s] \subseteq f[n - 1]}]
      BY <2>2
    <2> QED
      BY <2>3
  <1>5. Placed = placed
    BY DEF Placed
  <1> DEFINE P == {n \in Nat : n <= N => placed[n] = W(n)}
  <1> HIDE DEF placed, N, W
  <1>6. 0 \in P
    <2>1. placed[0] = {}
      BY <1>1, <1>4
    <2> QED
      BY <1>2, <2>1
  <1>7. ASSUME NEW n \in Nat, n \in P PROVE n + 1 \in P
    <2> SUFFICES ASSUME n + 1 <= N PROVE placed[n + 1] = W(n + 1)
      OBVIOUS
    <2>1. n + 1 \in 0 .. N /\ n + 1 # 0 /\ (n + 1) - 1 = n /\ n <= N
      BY <1>1
    <2>2. placed[n + 1] = {s \in Plan : deps[s] \subseteq placed[n]}
      BY <1>4, <2>1
    <2>3. placed[n] = W(n)
      BY <1>7, <2>1
    <2> QED
      BY <1>3, <2>2, <2>3
  <1> HIDE DEF P
  <1>8. Nat \subseteq P
    BY <1>6, <1>7, SetInduction
  <1>9. \A n \in 0 .. N : placed[n] = W(n)
    BY <1>1, <1>8 DEF P
  <1> QED
    BY <1>5, <1>9 DEF W, N

(* compute_waves gives a plan that is visited its wave. *)
LEMMA AffectedAgrees ==
    ASSUME IInv, Tight, pc = "done", \A p \in Plan : deps[p] \subseteq Plan,
           NEW s \in visited
    PROVE  AffectedWave(s) = wave[s]
  <1> DEFINE N == Cardinality(Plan)
             w == wave[s] + 1
             placedBy == {n \in 0 .. N : Placed[n] = Placed[N] \/ s \in Placed[n]}
             first == CHOOSE n \in placedBy : \A m \in placedBy : n <= m
  <1>1. N \in Nat /\ wave[s] \in Nat
    BY WaveAssumption, FS_CardinalityType, AllDone
  <1>2. w \in 0 .. N
    BY <1>1, WavesAreFew
  <1>3. \A n \in 0 .. N : s \in Placed[n] <=> wave[s] < n
    BY RoundsPlaceWaves
  <1>4. s \in Placed[N] /\ s \in Placed[w]
    BY <1>1, <1>2, <1>3
  <1>5. \A n \in placedBy : n \in 0 .. N /\ w <= n
    <2> TAKE n \in placedBy
    <2>1. n \in 0 .. N /\ s \in Placed[n]
      BY <1>4
    <2> QED
      BY <1>1, <1>3, <2>1
  <1>6. w \in placedBy
    BY <1>2, <1>4
  <1> HIDE DEF placedBy
  <1>7. first \in placedBy /\ \A m \in placedBy : first <= m
    BY <1>5, <1>6
  <1>8. first = w
    <2>1. first \in 0 .. N /\ w <= first /\ first <= w
      BY <1>5, <1>6, <1>7
    <2> QED
      BY <1>1, <2>1
  <1>9. AffectedWave(s) = first - 1
    BY <1>4 DEF AffectedWave, placedBy
  <1> HIDE DEF first
  <1> QED
    BY <1>1, <1>8, <1>9

(* wave_groups puts the plans on or behind a cycle in wave 0, and every    *)
(* other plan of a complete workspace in the wave that compute_waves of    *)
(* `tonin affected` gives it.                                              *)
THEOREM WavesAgree == Spec => []AgreesWithAffected
  <1>1. IInv /\ Tight => AgreesWithAffected
    <2> SUFFICES ASSUME IInv, Tight, pc = "done", NEW s \in Plan
                 PROVE  IF Blocked(s) THEN wave[s] = 0
                        ELSE (\A p \in Plan : deps[p] \subseteq Plan) => wave[s] = AffectedWave(s)
      BY DEF AgreesWithAffected
    <2>1. CASE s \in visited
      BY <2>1, BlockedAreLeft, AffectedAgrees
    <2>2. CASE s \notin visited
      BY <2>2, BlockedAreLeft, AllDone
    <2> QED
      BY <2>1, <2>2
  <1>2. Init => IInv /\ Tight
    BY WaveInit, TightStart
  <1>3. IInv /\ Tight /\ [Next]_vars => (IInv /\ Tight)'
    BY WaveStep, TightStep
  <1> QED
    BY <1>1, <1>2, <1>3, PTL DEF Spec

-----------------------------------------------------------------------------
LEMMA DeployStart == DeployInit => DeployIInv
  <1> SUFFICES ASSUME DeployInit PROVE DeployIInv
    OBVIOUS
  <1>1. IInv
    BY WaveInit DEF DeployInit
  <1>2. DeployTypeOK
    BY DEF DeployInit, DeployTypeOK, Nothing, Locked
  <1>3. Upgrading /\ InOrder /\ Settled
    BY DEF DeployInit, Upgrading, InOrder, Settled, Nothing
  <1> QED
    BY <1>1, <1>2, <1>3 DEF DeployIInv

(* The grouping is over before a run begins. *)
LEMMA GroupingKeeps ==
    ASSUME DeployIInv, Next, UNCHANGED <<lock, releases, runs, alone>>
    PROVE  DeployIInv'
  <1>1. IInv'
    BY WaveStep DEF DeployIInv
  <1>2. pc = "loop"
    BY DEF DeployIInv, IInv, TypeOK, Next, DrainQueue, Relax, Finish
  <1>3. \A p \in Proc : at[p] = "idle"
    BY <1>2 DEF DeployIInv, InOrder
  <1>4. DeployTypeOK' /\ Upgrading' /\ (Settled => Settled')
    BY DEF DeployIInv, DeployTypeOK, Locked, Upgrading, Settled, releases, runs
  <1>5. InOrder'
    BY <1>3 DEF DeployIInv, InOrder, releases, runs
  <1> QED
    BY <1>1, <1>4, <1>5 DEF DeployIInv

(* What no step of a run touches. *)
LEMMA WavesStay ==
    ASSUME DeployIInv, UNCHANGED vars
    PROVE  IInv' /\ pc' = pc
  BY DEF DeployIInv, IInv, vars, TypeOK, KnownDeps, Relaxed, DepsFirst

LEMMA BeginKeeps ==
    ASSUME DeployIInv, UNCHANGED vars, NEW p \in Proc,
           NEW selected \in SUBSET Plan, Begin(p, selected)
    PROVE  DeployIInv'
  <1>1. IInv' /\ pc' = pc
    BY WavesStay
  <1>2. DeployTypeOK'
    BY DEF DeployIInv, DeployTypeOK, Begin, Locked, releases
  <1>3. Upgrading'
    BY DEF DeployIInv, DeployTypeOK, Upgrading, Begin, releases
  <1>4. InOrder'
    BY DEF DeployIInv, DeployTypeOK, InOrder, Begin, releases, vars, FirstOf
  <1>5. alone' => Settled'
    BY DEF DeployIInv, DeployTypeOK, Settled, Begin, releases
  <1> QED
    BY <1>1, <1>2, <1>3, <1>4, <1>5 DEF DeployIInv

LEMMA SkipKeeps ==
    ASSUME DeployIInv, UNCHANGED vars, NEW p \in Proc, NEW s \in Plan, Skip(p, s)
    PROVE  DeployIInv'
  <1>1. IInv' /\ pc' = pc
    BY WavesStay
  <1>2. DeployTypeOK'
    BY DEF DeployIInv, DeployTypeOK, Skip, releases
  <1>3. Upgrading'
    BY DEF DeployIInv, DeployTypeOK, Upgrading, Skip, releases
  <1>4. InOrder'
    BY DEF DeployIInv, DeployTypeOK, InOrder, Skip, releases, vars, FirstOf
  <1>5. alone' => Settled'
    <2>1. alone' => live[s] = want[p][s]
      BY DEF DeployIInv, Upgrading, Settled, Skip
    <2> QED
      BY <2>1 DEF DeployIInv, DeployTypeOK, Settled, Skip, releases
  <1> QED
    BY <1>1, <1>2, <1>3, <1>4, <1>5 DEF DeployIInv

LEMMA PickKeeps ==
    ASSUME DeployIInv, UNCHANGED vars, NEW p \in Proc, NEW s \in Plan, Pick(p, s)
    PROVE  DeployIInv'
  <1>1. IInv' /\ pc' = pc
    BY WavesStay
  <1>2. DeployTypeOK'
    BY DEF DeployIInv, DeployTypeOK, Pick, releases
  <1>3. Upgrading'
    BY DEF DeployIInv, DeployTypeOK, Upgrading, Pick, releases
  <1>4. InOrder'
    BY DEF DeployIInv, DeployTypeOK, InOrder, Pick, releases, vars, FirstOf
  <1>5. alone' => Settled'
    BY DEF DeployIInv, DeployTypeOK, Settled, Pick, releases
  <1> QED
    BY <1>1, <1>2, <1>3, <1>4, <1>5 DEF DeployIInv

LEMMA UpgradeKeeps ==
    ASSUME DeployIInv, UNCHANGED vars, NEW p \in Proc, Upgrade(p)
    PROVE  DeployIInv'
  <1>1. IInv' /\ pc' = pc
    BY WavesStay
  <1>2. now[p] \in left[p] /\ now[p] \in Plan
    BY DEF DeployIInv, DeployTypeOK, InOrder, Upgrade, FirstOf
  <1>3. DeployTypeOK'
    BY <1>2 DEF DeployIInv, DeployTypeOK, Locked, Upgrade
  <1>4. Upgrading'
    BY <1>2 DEF DeployIInv, DeployTypeOK, Locked, Upgrading, Upgrade
  <1>5. InOrder'
    BY DEF DeployIInv, DeployTypeOK, InOrder, Upgrade, vars, FirstOf
  <1>6. alone' => Settled'
    BY <1>2 DEF DeployIInv, DeployTypeOK, Settled, Upgrade
  <1> QED
    BY <1>1, <1>3, <1>4, <1>5, <1>6 DEF DeployIInv

LEMMA SucceedsKeeps ==
    ASSUME DeployIInv, UNCHANGED vars, NEW p \in Proc, UpgradeSucceeds(p)
    PROVE  DeployIInv'
  <1>1. IInv' /\ pc' = pc
    BY WavesStay
  <1>2. /\ now[p] \in left[p] /\ now[p] \in Plan
        /\ want[p][now[p]] \in Version \cup {None}
        /\ shown[now[p]] = want[p][now[p]]
    BY DEF DeployIInv, DeployTypeOK, Locked, InOrder, UpgradeSucceeds, FirstOf, Upgrading
  <1>3. DeployTypeOK'
    BY <1>2 DEF DeployIInv, DeployTypeOK, Locked, UpgradeSucceeds
  <1>4. Upgrading'
    BY <1>2 DEF DeployIInv, DeployTypeOK, Locked, Upgrading, UpgradeSucceeds
  <1>5. InOrder'
    BY DEF DeployIInv, DeployTypeOK, InOrder, UpgradeSucceeds, vars, FirstOf
  <1>6. alone' => Settled'
    <2> SUFFICES ASSUME alone' PROVE Settled'
      OBVIOUS
    <2>1. Settled /\ \A q \in Proc \ {p} : at[q] = "idle" /\ want[q] = Nothing
      BY DEF DeployIInv, Settled, UpgradeSucceeds, InOrder
    <2>2. \A s \in pending' : \E q \in Proc : at'[q] = "upgrade" /\ now'[q] = s
      BY <2>1 DEF DeployIInv, DeployTypeOK, Settled, UpgradeSucceeds
    <2>3. ASSUME NEW q \in Proc, NEW s \in Plan \ left'[q]
          PROVE  want'[q][s] \in {None, live'[s]}
      <3>1. live'[s] = IF s = now[p] THEN want[p][s] ELSE live[s]
        BY <1>2 DEF DeployIInv, DeployTypeOK, Locked, UpgradeSucceeds
      <3>2. CASE q = p
        BY <1>2, <2>1, <2>3, <3>1, <3>2 DEF DeployIInv, DeployTypeOK, Settled, UpgradeSucceeds
      <3>3. CASE q # p
        BY <2>1, <3>3 DEF Nothing, UpgradeSucceeds
      <3> QED
        BY <3>2, <3>3
    <2>4. \A q, r \in Proc : q # r => at'[q] = "idle" \/ at'[r] = "idle"
      BY <2>1 DEF DeployIInv, DeployTypeOK, UpgradeSucceeds
    <2> QED
      BY <2>2, <2>3, <2>4 DEF Settled
  <1> QED
    BY <1>1, <1>3, <1>4, <1>5, <1>6 DEF DeployIInv

(* A run that ends without touching a release. *)
LEMMA EndKeeps ==
    ASSUME DeployIInv, UNCHANGED vars, NEW p \in Proc, End(p),
           at[p] # "upgrade", UNCHANGED <<lock, releases, alone>>
    PROVE  DeployIInv'
  <1>1. IInv' /\ pc' = pc
    BY WavesStay
  <1>2. DeployTypeOK'
    BY DEF DeployIInv, DeployTypeOK, End, Locked, Nothing, releases
  <1>3. Upgrading'
    BY DEF DeployIInv, DeployTypeOK, Upgrading, End, releases
  <1>4. InOrder'
    BY DEF DeployIInv, DeployTypeOK, InOrder, End, releases, vars, FirstOf
  <1>5. alone' => Settled'
    BY DEF DeployIInv, DeployTypeOK, Settled, End, Nothing, releases
  <1> QED
    BY <1>1, <1>2, <1>3, <1>4, <1>5 DEF DeployIInv

LEMMA FailsKeeps ==
    ASSUME DeployIInv, UNCHANGED vars, NEW p \in Proc, UpgradeFails(p)
    PROVE  DeployIInv'
  <1>1. IInv' /\ pc' = pc
    BY WavesStay
  <1>2. now[p] \in Plan /\ now[p] \in pending
    BY DEF DeployIInv, DeployTypeOK, Upgrading, UpgradeFails
  <1>3. DeployTypeOK'
    BY <1>2 DEF DeployIInv, DeployTypeOK, End, Locked, Nothing, UpgradeFails
  <1>4. Upgrading'
    BY <1>2 DEF DeployIInv, DeployTypeOK, Locked, Upgrading, End, UpgradeFails
  <1>5. InOrder'
    BY DEF DeployIInv, DeployTypeOK, InOrder, End, vars, FirstOf, UpgradeFails
  <1>6. alone' => Settled'
    BY DEF DeployIInv, DeployTypeOK, Settled, End, Nothing, UpgradeFails
  <1> QED
    BY <1>1, <1>3, <1>4, <1>5, <1>6 DEF DeployIInv

LEMMA DiesKeeps ==
    ASSUME DeployIInv, UNCHANGED vars, NEW p \in Proc, Dies(p)
    PROVE  DeployIInv'
  <1>1. IInv' /\ pc' = pc
    BY WavesStay
  <1>2. /\ now[p] \in Plan /\ now[p] \in pending
        /\ want[p][now[p]] \in Version \cup {None}
    BY DEF DeployIInv, DeployTypeOK, Locked, Upgrading, Dies
  <1>3. DeployTypeOK'
    BY <1>2 DEF DeployIInv, DeployTypeOK, End, Locked, Nothing, Dies
  <1>4. Upgrading'
    BY <1>2 DEF DeployIInv, DeployTypeOK, Locked, Upgrading, End, Dies
  <1>5. InOrder'
    BY DEF DeployIInv, DeployTypeOK, InOrder, End, vars, FirstOf, Dies
  <1> QED
    BY <1>1, <1>3, <1>4, <1>5 DEF DeployIInv, Dies

LEMMA ReleaseKeeps ==
    ASSUME DeployIInv, UNCHANGED vars, NEW s \in Plan, NEW v \in Version, Release(s, v)
    PROVE  DeployIInv'
  <1>1. IInv' /\ pc' = pc
    BY WavesStay
  <1>2. DeployTypeOK'
    BY DEF DeployIInv, DeployTypeOK, Locked, Release, releases, runs
  <1>3. Upgrading' /\ (Settled => Settled')
    BY DEF DeployIInv, Upgrading, Settled, Release, releases, runs
  <1>4. InOrder'
    BY DEF DeployIInv, InOrder, Release, releases, runs, vars, FirstOf
  <1>5. alone' => Settled'
    BY <1>3 DEF DeployIInv, Release
  <1> QED
    BY <1>1, <1>2, <1>3, <1>4, <1>5 DEF DeployIInv

LEMMA DeployStep == DeployIInv /\ [DeployNext]_deployVars => DeployIInv'
  <1> SUFFICES ASSUME DeployIInv, [DeployNext]_deployVars PROVE DeployIInv'
    OBVIOUS
  <1>1. CASE Next /\ UNCHANGED <<lock, releases, runs, alone>>
    BY <1>1, GroupingKeeps
  <1>2. CASE (\E p \in Proc : Run(p)) /\ UNCHANGED vars
    <2> PICK p \in Proc : Run(p)
      BY <1>2
    <2> USE <1>2
    <2>1. CASE \E selected \in SUBSET Plan : Begin(p, selected)
      BY <2>1, BeginKeeps
    <2>2. CASE \E s \in Plan : Skip(p, s) \/ Pick(p, s)
      BY <2>2, SkipKeeps, PickKeeps
    <2>3. CASE LookFails(p) \/ UpgradeRefused(p) \/ RunEnds(p)
      BY <2>3, EndKeeps DEF LookFails, UpgradeRefused, RunEnds
    <2>4. CASE Upgrade(p)
      BY <2>4, UpgradeKeeps
    <2>5. CASE UpgradeSucceeds(p)
      BY <2>5, SucceedsKeeps
    <2>6. CASE UpgradeFails(p)
      BY <2>6, FailsKeeps
    <2>7. CASE Dies(p)
      BY <2>7, DiesKeeps
    <2> QED
      BY <2>1, <2>2, <2>3, <2>4, <2>5, <2>6, <2>7 DEF Run
  <1>3. CASE (\E s \in Plan, v \in Version : Release(s, v)) /\ UNCHANGED vars
    BY <1>3, ReleaseKeeps
  <1>4. CASE UNCHANGED deployVars
    <2>1. IInv' /\ pc' = pc
      BY <1>4, WavesStay DEF deployVars
    <2>2. DeployTypeOK' /\ Upgrading' /\ InOrder' /\ (Settled => Settled')
      BY <1>4 DEF deployVars, releases, runs, vars, DeployIInv, DeployTypeOK, Locked,
                  Upgrading, InOrder, Settled, FirstOf
    <2>3. alone' => Settled'
      BY <1>4, <2>2 DEF deployVars, DeployIInv
    <2> QED
      BY <2>1, <2>2, <2>3 DEF DeployIInv
  <1> QED
    BY <1>1, <1>2, <1>3, <1>4 DEF DeployNext

(* Runs of `tonin deploy`, however many at once and wherever they are      *)
(* killed, upgrade in wave order what their copy of the lock names, one    *)
(* run to a release; a run that has the cluster to itself leaves behind    *)
(* only services that run what it wants (deploy.rs:110-150, 182-215).      *)
THEOREM RunsSettle == DeploySpec => []DeployIInv
  BY DeployStart, DeployStep, PTL DEF DeploySpec

(* "Reconciles the cluster to that lock in dependency-wave order"          *)
(* (docs/12-kubernetes-deploy.md:688-689), for one run at a time: for any  *)
(* workspace and lock, a service is upgraded after the plans it depends    *)
(* on, unless it is stuck behind a cycle.                                  *)
THEOREM DeploysDependenciesFirst == DeploySpec => DependenciesFirst
  <1> DEFINE Ready ==
        \A p \in Proc : alone /\ Upgrade(p) =>
            \A d \in KnownDeps(now[p]) :
                want[p][d] # None /\ inDegree[now[p]] = 0 => live[d] = want[p][d]
  <1>1. DeployIInv => Ready
    <2> SUFFICES ASSUME DeployIInv, alone, NEW p \in Proc, Upgrade(p),
                        NEW d \in KnownDeps(now[p]),
                        want[p][d] # None, inDegree[now[p]] = 0
                 PROVE  live[d] = want[p][d]
      OBVIOUS
    <2>1. now[p] \in Plan /\ d \in Plan /\ now[p] \in FirstOf(left[p]) /\ pc = "done"
      BY DEF DeployIInv, DeployTypeOK, InOrder, Upgrade, FirstOf, KnownDeps
    <2>2. wave[d] < wave[now[p]] /\ wave[d] \in Nat /\ wave[now[p]] \in Nat
      BY <2>1 DEF DeployIInv, IInv, TypeOK, DepsFirst
    <2>3. d \notin left[p]
      BY <2>1, <2>2 DEF FirstOf
    <2> QED
      BY <2>1, <2>3 DEF DeployIInv, Settled
  <1>2. DeploySpec => [][Ready]_deployVars
    BY <1>1, RunsSettle, PTL DEF DeploySpec
  <1> QED
    BY <1>2 DEF DependenciesFirst

(* For one run at a time, a run that ends well has brought every service   *)
(* it was to deploy to the image in its copy of the lock                   *)
(* (deploy.rs:110-150).                                                    *)
THEOREM FinishedRuns == DeploySpec => FinishedMeansRunning
  <1> DEFINE Done ==
        \A p \in Proc : alone /\ RunEnds(p) => \A s \in Plan : want[p][s] \in {None, live[s]}
  <1>1. DeployIInv => Done
    BY DEF DeployIInv, Settled, RunEnds
  <1>2. DeploySpec => [][Done]_deployVars
    BY <1>1, RunsSettle, PTL DEF DeploySpec
  <1> QED
    BY <1>2 DEF FinishedMeansRunning
=============================================================================
