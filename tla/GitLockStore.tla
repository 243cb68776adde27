---------------------------- MODULE GitLockStore ----------------------------
(***************************************************************************)
(* `tonin release` over GitLockStore: processes that read the lock file,   *)
(* replace one entry in memory and write the file back through a temporary *)
(* file and a rename.  Nothing locks the file between the read and the     *)
(* rename.  A process can be killed, and its writes can fail, at any step. *)
(*                                                                         *)
(* The text of the file is its entries, or Broken when it does not parse:  *)
(* comments, order and layout are left out.                                *)
(***************************************************************************)
EXTENDS Naturals

CONSTANTS Releaser,    \* runs of `tonin release`
          Service, Version, Missing,
          Absent,  \* there is no such file
          Broken,  \* a file that does not parse
          Torn     \* a file that is being written

ASSUME StoreAssumption ==
    /\ Missing \notin Version
    /\ Absent # Broken /\ Absent # Torn /\ Broken # Torn
    /\ {Absent, Broken, Torn} \cap [Service -> Version \cup {Missing}] = {}

Lock == [Service -> Version \cup {Missing}]

Empty == [s \in Service |-> Missing]

VARIABLES file,  \* lock.toml
          tmp,   \* tmp[q]: the temporary file of path q
          step,    \* step[p]: where p is in run and write_if_changed
          job,   \* job[p]: the service p releases, and the version
          mine,  \* mine[p]: the lock p has in memory
          apart  \* history: no two runs have overlapped so far

storeVars == <<file, tmp, step, job, mine, apart>>

Job == [service : Service, version : Version]

StoreTypeOK ==
    /\ file \in Lock \cup {Absent, Broken, Torn}
    /\ tmp \in [Releaser -> Lock \cup {Absent, Broken, Torn}]
    /\ step \in [Releaser -> {"idle", "read", "compare", "open", "write", "rename"}]
    /\ job \in [Releaser -> Job \cup {Missing}]
    /\ mine \in [Releaser -> Lock]
    /\ apart \in BOOLEAN

StoreInit ==
    /\ file \in Lock \cup {Absent, Broken}
    /\ tmp = [p \in Releaser |-> Absent]
    /\ step = [p \in Releaser |-> "idle"]
    /\ job = [p \in Releaser |-> Missing]
    /\ mine = [p \in Releaser |-> Empty]
    /\ apart = TRUE

(* Mutant: the temporary file is lock.toml.tmp for every process. *)
MutantTmpPath(p) == CHOOSE q \in Releaser : TRUE

(* tmp_path: the process id is in the name of the file. *)
TmpPath(p) == p

GotoStep(p, here, there) ==
    /\ step[p] = here
    /\ step' = [step EXCEPT ![p] = there]

(* The process ends: with success, with an error, or killed. *)
Exit(p) ==
    /\ step' = [step EXCEPT ![p] = "idle"]
    /\ job' = [job EXCEPT ![p] = Missing]
    /\ mine' = [mine EXCEPT ![p] = Empty]

-----------------------------------------------------------------------------
StartRelease(p, j) ==
    /\ apart' = (apart /\ \A q \in Releaser : step[q] = "idle")
    /\ GotoStep(p, "idle", "read")
    /\ job' = [job EXCEPT ![p] = j]
    /\ UNCHANGED <<file, tmp, mine>>

Stored == IF file = Absent THEN Empty ELSE file

(* Mutant: the release starts from an empty lock. *)
MutantReadForgets(p) ==
    /\ file \in Lock \cup {Absent}
    /\ GotoStep(p, "read", "compare")
    /\ mine' = [mine EXCEPT ![p] = [Empty EXCEPT ![job[p].service] = job[p].version]]
    /\ UNCHANGED <<file, tmp, job, apart>>

(* read_if_exists, and the entry is replaced in memory. *)
ReadFile(p) ==
    /\ file \in Lock \cup {Absent}
    /\ GotoStep(p, "read", "compare")
    /\ mine' = [mine EXCEPT ![p] = [Stored EXCEPT ![job[p].service] = job[p].version]]
    /\ UNCHANGED <<file, tmp, job, apart>>

(* Mutant: a lock that cannot be read counts as no lock. *)
MutantStartOver(p) ==
    /\ file \notin Lock \cup {Absent}
    /\ GotoStep(p, "read", "compare")
    /\ mine' = [mine EXCEPT ![p] = [Empty EXCEPT ![job[p].service] = job[p].version]]
    /\ UNCHANGED <<file, tmp, job, apart>>

(* A lock that does not parse is an error. *)
ReadRefuses(p) ==
    /\ step[p] = "read"
    /\ file \notin Lock \cup {Absent}
    /\ Exit(p)
    /\ UNCHANGED <<file, tmp, apart>>

(* write_if_changed reads the file again: unchanged, or rendered anew. *)
Unchanged(p) ==
    /\ step[p] = "compare"
    /\ file = mine[p]
    /\ Exit(p)
    /\ UNCHANGED <<file, tmp, apart>>

Differs(p) ==
    /\ file # mine[p]
    /\ GotoStep(p, "compare", "open")
    /\ UNCHANGED <<file, tmp, job, mine, apart>>

(* fs::write truncates the temporary file, then fills it. *)
OpenTmp(p) ==
    /\ GotoStep(p, "open", "write")
    /\ tmp' = [tmp EXCEPT ![TmpPath(p)] = Torn]
    /\ UNCHANGED <<file, job, mine, apart>>

WriteTmp(p) ==
    /\ GotoStep(p, "write", "rename")
    /\ tmp' = [tmp EXCEPT ![TmpPath(p)] = mine[p]]
    /\ UNCHANGED <<file, job, mine, apart>>

Rename(p) ==
    /\ step[p] = "rename"
    /\ tmp[TmpPath(p)] # Absent
    /\ file' = tmp[TmpPath(p)]
    /\ tmp' = [tmp EXCEPT ![TmpPath(p)] = Absent]
    /\ Exit(p)
    /\ UNCHANGED apart

(* The rename fails, or its source is gone: the temporary file is removed. *)
RenameFails(p) ==
    /\ step[p] = "rename"
    /\ tmp' = [tmp EXCEPT ![TmpPath(p)] = Absent]
    /\ Exit(p)
    /\ UNCHANGED <<file, apart>>

(* A read or a write fails, or the process is killed: what it has written  *)
(* of its temporary file stays.                                            *)
ReleaseDies(p) ==
    /\ step[p] # "idle"
    /\ Exit(p)
    /\ UNCHANGED <<file, tmp, apart>>

ReleaseStep(p) ==
    \/ \E j \in Job : StartRelease(p, j)
    \/ ReadFile(p) \/ ReadRefuses(p) \/ Unchanged(p) \/ Differs(p)
    \/ OpenTmp(p) \/ WriteTmp(p) \/ Rename(p) \/ RenameFails(p) \/ ReleaseDies(p)

StoreNext == \E p \in Releaser : ReleaseStep(p)

StoreSpec == StoreInit /\ [][StoreNext]_storeVars

-----------------------------------------------------------------------------
(* "Write is atomic ... to avoid partial writes" (lock.rs:81-82): whatever *)
(* is killed, and whoever else is writing, a reader finds a whole lock.    *)
NeverTorn == file # Torn

Entries == IF file \in Lock THEN file ELSE Empty

(* The inductive invariant: a process renames only what it has written in  *)
(* full (lock.rs:144-171), none gets beyond reading a lock that does not   *)
(* parse, and one that runs alone has the file's own entries in memory     *)
(* beside its release (release.rs:76-101).                                 *)
Releasing(p) == step[p] \in {"compare", "open", "write", "rename"}

RunsAlone ==
    /\ \A p, q \in Releaser : p # q => step[p] = "idle" \/ step[q] = "idle"
    /\ \A p \in Releaser : Releasing(p) =>
           mine[p] = [Entries EXCEPT ![job[p].service] = job[p].version]

StoreIInv ==
    /\ StoreTypeOK
    /\ NeverTorn
    /\ \A p \in Releaser : step[p] # "idle" => job[p] \in Job
    /\ \A p \in Releaser : step[p] = "rename" => tmp[p] = mine[p]
    /\ file = Broken => \A p \in Releaser : ~Releasing(p)
    /\ apart => RunsAlone

(* As long as no two runs overlap, each replaces the entry of its own      *)
(* service and no other: the read, the comparison and the rename are one   *)
(* Release, or none when the process dies on the way (release.rs:76-101).  *)
Abstract == INSTANCE EnvironmentLock WITH
    None <- Missing, entries <- Entries

ImplementsEnvironmentLock == Abstract!Init /\ [][apart' => Abstract!Next]_Entries

(* "A lock that exists but can't be parsed ... makes `tonin release` fail  *)
(* instead of starting a new lock" (docs/12-kubernetes-deploy.md:684-686). *)
BrokenKept == [][file = Broken => file' = Broken]_storeVars
=============================================================================
