---------------------------- MODULE GithubWatch ----------------------------
(***************************************************************************)
(* The watcher tonin-config-github spawns for each GithubConfig::watch: it *)
(* fetches the file once, then polls the head SHA of the ref and fetches   *)
(* the file again when the SHA has moved.  The file is fetched from the    *)
(* ref, not from the SHA that was polled.                                  *)
(*                                                                         *)
(* Values are numbered as in ConfigWatch: a commit at the ref, its SHA and *)
(* the file in it share a number.  Intervals and backoff are left out: a   *)
(* step may take any time.                                                 *)
(***************************************************************************)
EXTENDS Naturals

CONSTANTS MaxPush,      \* bound on the pushes to the ref
          MaxFailures,  \* bound on the requests that fail
          MayRewind,    \* a force-push may move the ref back to an older commit
          None

ASSUME GithubAssumption ==
    /\ MaxPush \in Nat
    /\ MaxFailures \in Nat
    /\ MayRewind \in BOOLEAN
    /\ None \notin Nat

Commit == 1 .. MaxPush + 1

VARIABLES ref,       \* the commit at the ref
          shown,     \* the value in the channel
          stage,     \* where the watcher is
          sha,       \* the head SHA it has polled
          contents,  \* the contents it has fetched
          lastSha,   \* last_sha
          listening, \* some receiver of the channel is alive
          pushes,    \* pushes so far
          failures   \* failed requests so far

githubVars == <<ref, shown, stage, sha, contents, lastSha, listening, pushes, failures>>

GithubTypeOK ==
    /\ ref \in Commit
    /\ shown \in Commit \cup {0}
    /\ stage \in {"first", "emitFirst", "top", "sleep", "head", "compare", "fetch",
                  "emit", "stopped"}
    /\ sha \in Commit \cup {None}
    /\ contents \in Commit \cup {None}
    /\ lastSha \in Commit \cup {None}
    /\ listening \in BOOLEAN
    /\ pushes \in 0 .. MaxPush
    /\ failures \in 0 .. MaxFailures

GithubInit ==
    /\ ref = 1
    /\ shown = 0
    /\ stage = "first"
    /\ sha = None /\ contents = None /\ lastSha = None
    /\ listening = TRUE
    /\ pushes = 0
    /\ failures = 0

(* A step of the watcher from one place of the code to another. *)
Move(here, there) == stage = here /\ stage' = there /\ UNCHANGED <<ref, listening, pushes>>

(* A request fails. *)
RequestFails(here, there) ==
    /\ Move(here, there)
    /\ failures < MaxFailures
    /\ failures' = failures + 1
    /\ UNCHANGED <<shown, sha, contents, lastSha>>

(* fetch_contents: the file at the ref when GitHub reads it. *)
FetchContents(here, there) ==
    /\ Move(here, there)
    /\ contents' = ref
    /\ UNCHANGED <<shown, sha, lastSha, failures>>

(* tx.send: without a receiver it fails, and the watcher returns. *)
Publish(here) ==
    /\ IF listening
         THEN Move(here, "top") /\ shown' = contents
         ELSE Move(here, "stopped") /\ UNCHANGED shown
    /\ UNCHANGED <<sha, contents, failures>>

-----------------------------------------------------------------------------
FirstFetch == FetchContents("first", "emitFirst")
FirstFetchFails == RequestFails("first", "top")
EmitFirst == Publish("emitFirst") /\ UNCHANGED lastSha

(* Mutant: nothing looks for receivers between two sends. *)
MutantUnheard == FALSE

(* tx.is_closed(), and tx.closed() is ready. *)
Unheard == ~listening

(* The top of the loop; then the task sleeps, or tx.closed() wins. *)
LoopTop ==
    /\ Move("top", IF Unheard THEN "stopped" ELSE "sleep")
    /\ UNCHANGED <<shown, sha, contents, lastSha, failures>>

Wake ==
    /\ Move("sleep", "head")
    /\ UNCHANGED <<shown, sha, contents, lastSha, failures>>

ReceiversGone ==
    /\ Unheard
    /\ Move("sleep", "stopped")
    /\ UNCHANGED <<shown, sha, contents, lastSha, failures>>

HeadSha ==
    /\ Move("head", "compare")
    /\ sha' = ref
    /\ UNCHANGED <<shown, contents, lastSha, failures>>

(* A missing ref or a transient error, and a permanent one. *)
HeadFails == RequestFails("head", "top")
HeadDenied == RequestFails("head", "stopped")

NotMoved ==
    /\ sha = lastSha
    /\ Move("compare", "top")
    /\ UNCHANGED <<shown, sha, contents, lastSha, failures>>

(* Mutant: last_sha is updated before the contents are fetched. *)
MutantRemembersFirst ==
    /\ sha # lastSha
    /\ Move("compare", "fetch")
    /\ lastSha' = sha
    /\ UNCHANGED <<shown, sha, contents, failures>>

Moved ==
    /\ sha # lastSha
    /\ Move("compare", "fetch")
    /\ UNCHANGED <<shown, sha, contents, lastSha, failures>>

(* Mutant: the contents come from an older copy of the file. *)
MutantCachedFetch ==
    /\ Move("fetch", "emit")
    /\ contents' \in 1 .. ref
    /\ UNCHANGED <<shown, sha, lastSha, failures>>

Fetch == FetchContents("fetch", "emit")
FetchFails == RequestFails("fetch", "top")

(* last_sha is the polled SHA, whatever commit the contents came from. *)
Emit == Publish("emit") /\ lastSha' = sha

Poll ==
    \/ FirstFetch \/ EmitFirst \/ LoopTop \/ Wake \/ ReceiversGone
    \/ HeadSha \/ NotMoved \/ Moved \/ Fetch \/ Emit

GithubFails == FirstFetchFails \/ HeadFails \/ HeadDenied \/ FetchFails

(* A push moves the ref on, and a force-push may take it back. *)
Push ==
    /\ pushes < MaxPush
    /\ pushes' = pushes + 1
    /\ ref' \in {r \in Commit : r = ref + 1 \/ (MayRewind /\ r < ref)}
    /\ UNCHANGED <<shown, stage, sha, contents, lastSha, listening, failures>>

(* The last receiver is dropped. *)
DropReceivers ==
    /\ listening
    /\ listening' = FALSE
    /\ UNCHANGED <<ref, shown, stage, sha, contents, lastSha, pushes, failures>>

GithubNext == Poll \/ GithubFails \/ Push \/ DropReceivers

GithubSpec == GithubInit /\ [][GithubNext]_githubVars

(* The watcher is a spawned task, and a request that does not fail is      *)
(* answered; nothing makes a request fail.                                 *)
FairGithubSpec == GithubSpec /\ WF_githubVars(Poll)

-----------------------------------------------------------------------------
(* The inductive invariant.  The contents are fetched after the SHA is     *)
(* polled, so while the ref only moves on, last_sha is never newer than    *)
(* the contents in the channel, and a push that the fetch missed moves the *)
(* SHA again (lib.rs:402-420).                                             *)
LastNotNewerThanSeen ==
    lastSha # None /\ stage # "stopped" => shown # 0 /\ lastSha <= shown

HasRead ==
    /\ stage \in {"compare", "fetch", "emit"} => sha # None
    /\ stage \in {"emitFirst", "emit"} => contents # None

MovesForward ==
    /\ shown <= ref
    /\ sha # None => sha <= ref
    /\ contents # None => contents <= ref
    /\ stage \in {"emitFirst", "emit"} => shown <= contents
    /\ stage = "emit" => sha <= contents
    /\ LastNotNewerThanSeen

GithubIInv == GithubTypeOK /\ HasRead /\ (MayRewind \/ MovesForward)

(* A receiver of a channel whose commits only move on never sees an older  *)
(* file after a newer (traits/config.rs:40-42).                            *)
GithubContract == INSTANCE ConfigWatch WITH rev <- ref, seen <- shown
GithubImplementsConfigWatch == GithubContract!Spec

(* "Emits the current value ... and again on every backend-observed        *)
(* change" (traits/config.rs:40-42): once the ref is left alone, a watcher *)
(* that has receivers and no permanent error comes to show its file.       *)
GithubEventuallyCurrent == <>[](shown = ref \/ stage = "stopped" \/ ~listening)

(* "Implementations shut down their watcher when the last receiver goes    *)
(* away" (traits/config.rs:53-54).                                         *)
GithubStops == ~listening ~> stage = "stopped"
=============================================================================
