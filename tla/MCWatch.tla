------------------------------ MODULE MCWatch -------------------------------
(***************************************************************************)
(* The two watchers and the environment lock checked in one run.  They     *)
(* share no state and no step of one reads another, so each moves only     *)
(* while the others have stopped before their first step.                  *)
(***************************************************************************)
EXTENDS EtcdWatch, GithubWatch, GitLockStore

EtcdStopped ==
    /\ rev = 1 /\ seen = 0 /\ pc = "stopped" /\ got = 0 /\ from = 0
    /\ open = FALSE /\ errors = 0

GithubStopped ==
    /\ ref = 1 /\ shown = 0 /\ stage = "stopped"
    /\ sha = None /\ contents = None /\ lastSha = None
    /\ listening = FALSE /\ pushes = 0 /\ failures = 0

\* No lock has been written; lock files of every content are only met while
\* both watchers have stopped.
StoreStopped == file = Absent /\ \A p \in Releaser : step[p] = "idle"

MCInit ==
    /\ StoreInit
    /\ \/ Init /\ GithubStopped /\ StoreStopped
       \/ GithubInit /\ EtcdStopped /\ StoreStopped
       \/ EtcdStopped /\ GithubStopped

EtcdMoves(A) == GithubStopped /\ StoreStopped /\ A /\ UNCHANGED <<githubVars, storeVars>>
GithubMoves(A) == EtcdStopped /\ StoreStopped /\ A /\ UNCHANGED <<vars, storeVars>>

MCNext ==
    \/ EtcdMoves(Next)
    \/ GithubMoves(GithubNext)
    \/ EtcdStopped /\ GithubStopped /\ StoreNext /\ UNCHANGED <<vars, githubVars>>

MCSpec ==
    /\ MCInit
    /\ [][MCNext]_<<vars, githubVars, storeVars>>
    /\ WF_vars(EtcdMoves(Proceed))
    /\ WF_githubVars(GithubMoves(Poll))
=============================================================================
