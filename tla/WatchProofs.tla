---------------------------- MODULE WatchProofs ----------------------------
(***************************************************************************)
(* The watchers of the two configuration backends.  For any number of      *)
(* changes and failures the channel of the etcd watcher only moves         *)
(* forward, as ConfigWatch demands; on a ref that only moves on so does    *)
(* that of the GitHub watcher, because its last_sha is never newer than    *)
(* the contents in the channel.  And the environment lock: however many    *)
(* processes write it the file is never torn, and processes that run one   *)
(* at a time do exactly what EnvironmentLock says.                         *)
(***************************************************************************)
EXTENDS EtcdWatch, GithubWatch, GitLockStore, TLAPS

(* The fresh watcher has sent and read nothing (lib.rs:319-336). *)
LEMMA InitIInv == Init => IInv
BY EtcdAssumption DEF Init, IInv, TypeOK

(* Every step keeps the inductive invariant (lib.rs:343-420). *)
LEMMA StepIInv == IInv /\ [Next]_vars => IInv'
<1> SUFFICES ASSUME IInv, [Next]_vars PROVE IInv'
    OBVIOUS
<1> USE EtcdAssumption DEF IInv, TypeOK, Goto
<1>1. CASE Begin
  BY <1>1 DEF Begin
<1>2. CASE Get
  BY <1>2 DEF Get
<1>3. CASE Seed
  BY <1>3 DEF Seed, Send
<1>4. CASE Subscribe
  BY <1>4 DEF Subscribe
<1>5. CASE Deliver
  BY <1>5 DEF Deliver, Send
<1>6. CASE Retry \/ Closed \/ StreamEnds
  BY <1>6 DEF Retry, Closed, StreamEnds
<1>7. CASE GetFails \/ SubscribeFails \/ StreamFails
  BY <1>7 DEF GetFails, SubscribeFails, StreamFails, Fail
<1>8. CASE Change
  BY <1>8 DEF Change
<1>9. CASE Unsubscribe \/ UNCHANGED vars
  BY <1>9 DEF Unsubscribe, vars
<1> QED
  BY <1>1, <1>2, <1>3, <1>4, <1>5, <1>6, <1>7, <1>8, <1>9
  DEF Next, Proceed, Break

(* The GET, the stream and the channel only move forward, in every         *)
(* session and from one session to the next (lib.rs:382-420).              *)
THEOREM EtcdMovesForward == Spec => []IInv
BY InitIInv, StepIInv, PTL DEF Spec

(* A step of the watcher leaves the backend's value alone and shows a      *)
(* value that is as new as the one it replaces, or a change of the key     *)
(* leaves the channel alone (lib.rs:343-420).                              *)
LEMMA StepContract == IInv /\ [Next]_vars => [Contract!Next]_(Contract!vars)
<1> SUFFICES ASSUME IInv, [Next]_vars PROVE [Contract!Next]_(Contract!vars)
    OBVIOUS
<1> USE DEF IInv, TypeOK, Contract!Next, Contract!vars, Contract!Emit, Goto
<1>1. CASE Seed
  BY <1>1 DEF Seed, Send
<1>2. CASE Deliver
  BY <1>2 DEF Deliver, Send
<1>3. CASE Change
  BY <1>3 DEF Change, Contract!Change
<1>4. CASE Begin \/ Get \/ Subscribe \/ Retry \/ Closed \/ StreamEnds
  BY <1>4 DEF Begin, Get, Subscribe, Retry, Closed, StreamEnds
<1>5. CASE GetFails \/ SubscribeFails \/ StreamFails
  BY <1>5 DEF GetFails, SubscribeFails, StreamFails, Fail
<1>6. CASE Unsubscribe \/ UNCHANGED vars
  BY <1>6 DEF Unsubscribe, vars
<1> QED
  BY <1>1, <1>2, <1>3, <1>4, <1>5, <1>6 DEF Next, Proceed, Break

(* The etcd watcher keeps the promise of Config::watch about old values    *)
(* (traits/config.rs:40-42).                                               *)
THEOREM EtcdImplements == Spec => ImplementsConfigWatch
<1>1. Init => Contract!Init
  BY DEF Init, Contract!Init
<1> QED
  BY <1>1, StepContract, EtcdMovesForward, PTL
  DEF Spec, ImplementsConfigWatch, Contract!Spec

-----------------------------------------------------------------------------
(* The channel shows what the session read when it seeded it, until the    *)
(* stream delivers a change; from then on it shows the last one delivered. *)
SeededThenStreamed ==
    /\ pc = "subscribe" => seen = got
    /\ pc = "stream" => seen = from \/ (seen = got /\ got < from)

(* With nothing left to deliver, the channel of a streaming session is out *)
(* of date only if the key changed between the session's GET and its WATCH *)
(* and not since: the gap of lib.rs:382-400 is the only one.               *)
StaleOnlyByGap ==
    pc = "stream" /\ from = rev /\ seen # rev => seen = got /\ got < from

(* However often sessions fail and are begun again, and whatever is        *)
(* changed meanwhile, no change is missed but those between a GET and the  *)
(* WATCH that follows it (lib.rs:382-420).                                 *)
THEOREM EtcdMissesOnlyTheGap == Spec => [](SeededThenStreamed /\ StaleOnlyByGap)
<1>1. Init => SeededThenStreamed
  BY DEF Init, SeededThenStreamed
<1>2. IInv /\ SeededThenStreamed /\ [Next]_vars => SeededThenStreamed'
  <2> SUFFICES ASSUME IInv, SeededThenStreamed, [Next]_vars PROVE SeededThenStreamed'
      OBVIOUS
  <2> USE EtcdAssumption DEF IInv, TypeOK, SeededThenStreamed, Goto
  <2>1. CASE Seed
    BY <2>1 DEF Seed, Send
  <2>2. CASE Subscribe
    BY <2>2 DEF Subscribe
  <2>3. CASE Deliver
    BY <2>3 DEF Deliver, Send
  <2>4. CASE Begin \/ Get \/ Retry \/ Closed \/ StreamEnds
    BY <2>4 DEF Begin, Get, Retry, Closed, StreamEnds
  <2>5. CASE GetFails \/ SubscribeFails \/ StreamFails
    BY <2>5 DEF GetFails, SubscribeFails, StreamFails, Fail
  <2>6. CASE Change \/ Unsubscribe \/ UNCHANGED vars
    BY <2>6 DEF Change, Unsubscribe, vars
  <2> QED
    BY <2>1, <2>2, <2>3, <2>4, <2>5, <2>6 DEF Next, Proceed, Break
<1>3. SeededThenStreamed => StaleOnlyByGap
  BY DEF SeededThenStreamed, StaleOnlyByGap
<1> QED
  BY <1>1, <1>2, <1>3, EtcdMovesForward, PTL DEF Spec

-----------------------------------------------------------------------------
(* The fresh watcher has fetched nothing (lib.rs:336-370). *)
LEMMA GithubInitIInv == GithubInit => GithubIInv
BY GithubAssumption
DEF GithubInit, GithubIInv, GithubTypeOK, HasRead, Commit, MovesForward, LastNotNewerThanSeen

(* Every step keeps the types, and what a place has read (lib.rs:370-458). *)
LEMMA GithubStepType == GithubTypeOK /\ HasRead /\ [GithubNext]_githubVars => GithubTypeOK' /\ HasRead'
<1> SUFFICES ASSUME GithubTypeOK, HasRead, [GithubNext]_githubVars PROVE GithubTypeOK' /\ HasRead'
    OBVIOUS
<1> USE GithubAssumption DEF GithubTypeOK, HasRead, Move
<1>0. None \notin Commit
  BY DEF Commit
<1>1. CASE FirstFetch \/ Fetch
  BY <1>0, <1>1 DEF FirstFetch, Fetch, FetchContents
<1>2. CASE EmitFirst \/ Emit
  BY <1>0, <1>2 DEF EmitFirst, Emit, Publish
<1>3. CASE LoopTop \/ Wake \/ ReceiversGone \/ NotMoved \/ Moved
  BY <1>3 DEF LoopTop, Wake, ReceiversGone, NotMoved, Moved
<1>4. CASE HeadSha
  BY <1>0, <1>4 DEF HeadSha
<1>5. CASE GithubFails
  BY <1>5 DEF GithubFails, FirstFetchFails, HeadFails, HeadDenied, FetchFails, RequestFails
<1>6. CASE Push
  BY <1>6 DEF Push
<1>7. CASE DropReceivers \/ UNCHANGED githubVars
  BY <1>7 DEF DropReceivers, githubVars
<1> QED
  BY <1>1, <1>2, <1>3, <1>4, <1>5, <1>6, <1>7 DEF GithubNext, Poll

(* While the ref only moves on, so do the SHA, the contents and the        *)
(* channel, in the order they are read (lib.rs:370-428).                   *)
LEMMA GithubStepForward ==
    ASSUME ~MayRewind, GithubTypeOK, HasRead, MovesForward, [GithubNext]_githubVars
    PROVE  MovesForward'
<1> USE GithubAssumption
    DEF GithubTypeOK, HasRead, MovesForward, LastNotNewerThanSeen, Move, Commit
<1>1. CASE FirstFetch \/ Fetch
  BY <1>1 DEF FirstFetch, Fetch, FetchContents
<1>2. CASE EmitFirst
  BY <1>2 DEF EmitFirst, Publish
<1>3. CASE Emit
  BY <1>3 DEF Emit, Publish
<1>4. CASE LoopTop \/ Wake \/ ReceiversGone \/ NotMoved \/ Moved
  BY <1>4 DEF LoopTop, Wake, ReceiversGone, NotMoved, Moved
<1>5. CASE HeadSha
  BY <1>5 DEF HeadSha
<1>6. CASE GithubFails
  BY <1>6 DEF GithubFails, FirstFetchFails, HeadFails, HeadDenied, FetchFails, RequestFails
<1>7. CASE Push
  BY <1>7 DEF Push
<1>8. CASE DropReceivers \/ UNCHANGED githubVars
  BY <1>8 DEF DropReceivers, githubVars
<1> QED
  BY <1>1, <1>2, <1>3, <1>4, <1>5, <1>6, <1>7, <1>8 DEF GithubNext, Poll

(* last_sha is never newer than the contents in the channel, so a push the *)
(* fetch missed is noticed at the next poll (lib.rs:402-420).              *)
THEOREM LastShaBehind == GithubSpec => []GithubIInv
<1>1. GithubIInv /\ [GithubNext]_githubVars => GithubIInv'
  BY GithubStepType, GithubStepForward DEF GithubIInv
<1> QED
  BY <1>1, GithubInitIInv, PTL DEF GithubSpec

(* A step shows a value as new as the one it replaces, or a push leaves    *)
(* the channel alone (lib.rs:370-458).                                     *)
LEMMA GithubStepContract ==
    ASSUME ~MayRewind, GithubIInv, [GithubNext]_githubVars
    PROVE  [GithubContract!Next]_(GithubContract!vars)
<1> USE DEF GithubIInv, GithubTypeOK, HasRead, Commit, Move,
        GithubContract!Next, GithubContract!vars, GithubContract!Emit
<1>1. CASE EmitFirst \/ Emit
  BY <1>1, GithubAssumption DEF MovesForward, EmitFirst, Emit, Publish
<1>2. CASE Push
  BY <1>2 DEF Push, GithubContract!Change
<1>3. CASE FirstFetch \/ Fetch \/ HeadSha
  BY <1>3 DEF FirstFetch, Fetch, FetchContents, HeadSha
<1>4. CASE LoopTop \/ Wake \/ ReceiversGone \/ NotMoved \/ Moved
  BY <1>4 DEF LoopTop, Wake, ReceiversGone, NotMoved, Moved
<1>5. CASE GithubFails
  BY <1>5 DEF GithubFails, FirstFetchFails, HeadFails, HeadDenied, FetchFails, RequestFails
<1>6. CASE DropReceivers \/ UNCHANGED githubVars
  BY <1>6 DEF DropReceivers, githubVars
<1> QED
  BY <1>1, <1>2, <1>3, <1>4, <1>5, <1>6 DEF GithubNext, Poll

(* Where the ref is never rewound, the GitHub watcher keeps the promise of *)
(* Config::watch about old values (traits/config.rs:40-42).                *)
THEOREM GithubImplements ==
    ASSUME ~MayRewind
    PROVE  GithubSpec => GithubImplementsConfigWatch
<1>1. GithubInit => GithubContract!Init
  BY DEF GithubInit, GithubContract!Init
<1>2. GithubIInv /\ [GithubNext]_githubVars => [GithubContract!Next]_(GithubContract!vars)
  BY GithubStepContract
<1> QED
  BY <1>1, <1>2, LastShaBehind, PTL
  DEF GithubSpec, GithubImplementsConfigWatch, GithubContract!Spec

-----------------------------------------------------------------------------
(* No process has started yet (release.rs:44-60). *)
LEMMA InitStoreIInv == StoreInit => StoreIInv
BY StoreAssumption
DEF StoreInit, StoreIInv, StoreTypeOK, Lock, Empty, NeverTorn, RunsAlone, Releasing

(* Replacing one entry of a lock gives a lock (release.rs:93-101). *)
LEMMA ReplaceEntry ==
    ASSUME NEW l \in Lock, NEW j \in Job
    PROVE  [l EXCEPT ![j.service] = j.version] \in Lock
BY DEF Lock, Job

(* Every step keeps the types (lock.rs:144-171). *)
LEMMA StepType ==
    ASSUME StoreIInv, [StoreNext]_storeVars
    PROVE  /\ StoreTypeOK'
           /\ \A p \in Releaser : step'[p] # "idle" => job'[p] \in Job
<1> USE DEF StoreIInv, StoreTypeOK
<1>0. Empty \in Lock
  BY DEF Empty, Lock
<1>1. ASSUME NEW p \in Releaser, NEW j \in Job, StartRelease(p, j)
      PROVE  StoreTypeOK' /\ \A q \in Releaser : step'[q] # "idle" => job'[q] \in Job
  BY <1>1 DEF StartRelease, GotoStep
<1>2. ASSUME NEW p \in Releaser, ReadFile(p)
      PROVE  StoreTypeOK' /\ \A q \in Releaser : step'[q] # "idle" => job'[q] \in Job
  <2>1. Stored \in Lock /\ job[p] \in Job
    BY <1>0, <1>2 DEF ReadFile, GotoStep, Stored
  <2>2. [Stored EXCEPT ![job[p].service] = job[p].version] \in Lock
    BY <2>1, ReplaceEntry
  <2> QED
    BY <1>2, <2>2 DEF ReadFile, GotoStep
<1>3. ASSUME NEW p \in Releaser, Differs(p) \/ OpenTmp(p) \/ WriteTmp(p)
      PROVE  StoreTypeOK' /\ \A q \in Releaser : step'[q] # "idle" => job'[q] \in Job
  BY <1>3 DEF Differs, OpenTmp, WriteTmp, GotoStep, TmpPath
<1>4. ASSUME NEW p \in Releaser,
             ReadRefuses(p) \/ Unchanged(p) \/ Rename(p) \/ RenameFails(p) \/ ReleaseDies(p)
      PROVE  StoreTypeOK' /\ \A q \in Releaser : step'[q] # "idle" => job'[q] \in Job
  BY <1>0, <1>4 DEF ReadRefuses, Unchanged, Rename, RenameFails, ReleaseDies, Exit, TmpPath
<1>5. CASE UNCHANGED storeVars
  BY <1>5 DEF storeVars
<1> QED
  BY <1>1, <1>2, <1>3, <1>4, <1>5 DEF StoreNext, ReleaseStep

(* A process renames what it has written in full, since the temporary file *)
(* is its own (lock.rs:123-131, 161-170).                                  *)
LEMMA StepWhole ==
    ASSUME StoreIInv, [StoreNext]_storeVars
    PROVE  /\ NeverTorn'
           /\ \A p \in Releaser : step'[p] = "rename" => tmp'[p] = mine'[p]
<1> USE StoreAssumption DEF StoreIInv, StoreTypeOK, NeverTorn
<1>0. Torn \notin Lock
  BY DEF Lock
<1>1. ASSUME NEW p \in Releaser, NEW j \in Job,
             StartRelease(p, j) \/ ReadFile(p) \/ Differs(p) \/ OpenTmp(p) \/ WriteTmp(p)
      PROVE  NeverTorn' /\ \A q \in Releaser : step'[q] = "rename" => tmp'[q] = mine'[q]
  BY <1>1 DEF StartRelease, ReadFile, Differs, OpenTmp, WriteTmp, GotoStep, TmpPath
<1>2. ASSUME NEW p \in Releaser, Rename(p)
      PROVE  NeverTorn' /\ \A q \in Releaser : step'[q] = "rename" => tmp'[q] = mine'[q]
  BY <1>0, <1>2 DEF Rename, Exit, TmpPath
<1>3. ASSUME NEW p \in Releaser,
             ReadRefuses(p) \/ Unchanged(p) \/ RenameFails(p) \/ ReleaseDies(p)
      PROVE  NeverTorn' /\ \A q \in Releaser : step'[q] = "rename" => tmp'[q] = mine'[q]
  BY <1>3 DEF ReadRefuses, Unchanged, RenameFails, ReleaseDies, Exit, TmpPath
<1>4. CASE UNCHANGED storeVars
  BY <1>4 DEF storeVars
<1>5. CASE Releaser = {}
  BY <1>4, <1>5 DEF StoreNext
<1>6. CASE Job = {}
  <2>1. \A p \in Releaser : step[p] = "idle"
    BY <1>6
  <2> QED
    BY <1>4, <1>6, <2>1 DEF StoreNext, ReleaseStep, ReadFile, Differs, OpenTmp, WriteTmp,
       Rename, ReadRefuses, Unchanged, RenameFails, ReleaseDies, GotoStep
<1> QED
  BY <1>1, <1>2, <1>3, <1>4, <1>5, <1>6 DEF StoreNext, ReleaseStep

(* A lock that does not parse keeps every process from releasing           *)
(* (release.rs:78-88).                                                     *)
LEMMA StepBroken ==
    ASSUME StoreIInv, [StoreNext]_storeVars
    PROVE  /\ file = Broken => file' = Broken
           /\ file' = Broken => file = Broken /\ \A p \in Releaser : ~Releasing(p)'
<1> USE DEF StoreIInv, StoreTypeOK, Releasing
<1>0. Broken \notin Lock
  BY StoreAssumption DEF Lock
<1>1. ASSUME NEW p \in Releaser, NEW j \in Job, StartRelease(p, j)
      PROVE  file' = file /\ (file = Broken => \A q \in Releaser : ~Releasing(q)')
  BY <1>1 DEF StartRelease, GotoStep
<1>2. ASSUME NEW p \in Releaser, ReadFile(p)
      PROVE  file' = file /\ file # Broken
  BY <1>0, <1>2, StoreAssumption DEF ReadFile
<1>3. ASSUME NEW p \in Releaser, Differs(p) \/ OpenTmp(p) \/ WriteTmp(p)
      PROVE  file' = file /\ file # Broken
  BY <1>3 DEF Differs, OpenTmp, WriteTmp, GotoStep
<1>4. ASSUME NEW p \in Releaser, Rename(p)
      PROVE  file' # Broken /\ file # Broken
  BY <1>0, <1>4 DEF Rename, TmpPath
<1>5. ASSUME NEW p \in Releaser,
             ReadRefuses(p) \/ Unchanged(p) \/ RenameFails(p) \/ ReleaseDies(p)
      PROVE  file' = file /\ (file = Broken => \A q \in Releaser : ~Releasing(q)')
  BY <1>5 DEF ReadRefuses, Unchanged, RenameFails, ReleaseDies, Exit
<1>6. CASE UNCHANGED storeVars
  BY <1>6 DEF storeVars
<1> QED
  BY <1>1, <1>2, <1>3, <1>4, <1>5, <1>6 DEF StoreNext, ReleaseStep

(* What a process that runs alone has read stays what the file holds       *)
(* (release.rs:76-101).                                                    *)
LEMMA StepAlone ==
    ASSUME StoreIInv, apart', [StoreNext]_storeVars
    PROVE  RunsAlone'
<1> USE DEF StoreIInv, StoreTypeOK, RunsAlone, Releasing
<1>0. Absent \notin Lock /\ Broken \notin Lock
  BY StoreAssumption DEF Lock
<1>a. apart /\ RunsAlone
  BY DEF StoreNext, ReleaseStep, StartRelease, ReadFile, ReadRefuses, Unchanged, Differs, OpenTmp,
     WriteTmp, Rename, RenameFails, ReleaseDies, storeVars
<1>1. ASSUME NEW p \in Releaser, NEW j \in Job, StartRelease(p, j) PROVE RunsAlone'
  BY <1>1 DEF StartRelease, GotoStep, Entries
<1>2. ASSUME NEW p \in Releaser, ReadFile(p) PROVE RunsAlone'
  <2>1. Stored = Entries /\ Entries' = Entries
    BY <1>0, <1>2 DEF ReadFile, Stored, Entries
  <2> QED
    BY <1>2, <2>1 DEF ReadFile, GotoStep
<1>3. ASSUME NEW p \in Releaser, Differs(p) \/ OpenTmp(p) \/ WriteTmp(p)
      PROVE  RunsAlone'
  <2>1. CASE Differs(p)
    BY <1>a, <2>1 DEF Differs, GotoStep, Entries
  <2>2. CASE OpenTmp(p)
    BY <1>a, <2>2 DEF OpenTmp, GotoStep, Entries
  <2>3. CASE WriteTmp(p)
    BY <1>a, <2>3 DEF WriteTmp, GotoStep, Entries
  <2> QED
    BY <1>3, <2>1, <2>2, <2>3
<1>4. ASSUME NEW p \in Releaser,
             ReadRefuses(p) \/ Unchanged(p) \/ Rename(p) \/ RenameFails(p) \/ ReleaseDies(p)
      PROVE  RunsAlone'
  <2>1. \A q \in Releaser : step'[q] = "idle"
    BY <1>a, <1>4 DEF ReadRefuses, Unchanged, Rename, RenameFails, ReleaseDies, Exit
  <2> QED
    BY <2>1
<1>5. CASE UNCHANGED storeVars
  BY <1>5 DEF storeVars, Entries
<1> QED
  BY <1>1, <1>2, <1>3, <1>4, <1>5 DEF StoreNext, ReleaseStep

(* Every step keeps the inductive invariant (lock.rs:144-171). *)
LEMMA StoreStepIInv == StoreIInv /\ [StoreNext]_storeVars => StoreIInv'
BY StepType, StepWhole, StepBroken, StepAlone DEF StoreIInv

(* However many processes write, and wherever they are killed, a reader    *)
(* finds a whole lock (lock.rs:80-82).                                     *)
THEOREM LockWhole == StoreSpec => []StoreIInv
BY InitStoreIInv, StoreStepIInv, PTL DEF StoreSpec

(* "Write is atomic ... to avoid partial writes" (lock.rs:81-82). *)
THEOREM LockNeverTorn == StoreSpec => []NeverTorn
<1>1. StoreIInv => NeverTorn
  BY DEF StoreIInv
<1> QED
  BY <1>1, LockWhole, PTL

(* A lock that does not parse is never written over (release.rs:78-88). *)
THEOREM BrokenStays == StoreSpec => BrokenKept
<1>1. StoreIInv /\ [StoreNext]_storeVars => (file = Broken => file' = Broken)
  BY StepBroken
<1> QED
  BY <1>1, LockWhole, PTL DEF StoreSpec, BrokenKept

(* A step of a process that runs alone is its Release, or changes no entry *)
(* (release.rs:76-101).                                                    *)
LEMMA StepAbstract ==
    ASSUME StoreIInv, apart', [StoreNext]_storeVars
    PROVE  [Abstract!Next]_Entries
<1> USE DEF StoreIInv, StoreTypeOK
<1>1. ASSUME NEW p \in Releaser, Rename(p) PROVE Abstract!Next
  <2>1. /\ file' = mine[p] /\ mine[p] \in Lock /\ job[p] \in Job
        /\ mine[p] = [Entries EXCEPT ![job[p].service] = job[p].version]
    BY <1>1 DEF Rename, TmpPath, RunsAlone, Releasing
  <2>2. Entries' = [Entries EXCEPT ![job[p].service] = job[p].version]
    BY <2>1 DEF Entries
  <2>3. job[p].service \in Service /\ job[p].version \in Version
    BY <2>1 DEF Job
  <2> QED
    BY <2>2, <2>3 DEF Abstract!Next, Abstract!Release
<1>2. ASSUME ~\E p \in Releaser : Rename(p) PROVE Entries' = Entries
  <2>1. file' = file
    BY <1>2 DEF StoreNext, ReleaseStep, StartRelease, ReadFile, ReadRefuses, Unchanged, Differs,
       OpenTmp, WriteTmp, RenameFails, ReleaseDies, storeVars
  <2> QED
    BY <2>1 DEF Entries
<1> QED
  BY <1>1, <1>2

(* Releases that run one at a time behave as atomic updates of one entry   *)
(* each, or none where a process dies (docs/12-kubernetes-deploy.md:680).  *)
THEOREM ReleaseImplements == StoreSpec => ImplementsEnvironmentLock
<1>1. StoreInit => Abstract!Init
  BY DEF StoreInit, Abstract!Init, Entries, Lock, Empty
<1>2. StoreIInv /\ [StoreNext]_storeVars => [apart' => Abstract!Next]_Entries
  BY StepAbstract
<1> QED
  BY <1>1, <1>2, LockWhole, PTL
  DEF StoreSpec, ImplementsEnvironmentLock
=============================================================================
