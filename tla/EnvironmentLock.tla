-------------------------- MODULE EnvironmentLock --------------------------
(***************************************************************************)
(* What environments/<ENV>/lock.toml is to the commands that share it: one *)
(* entry for each service, of which `tonin release` replaces exactly the   *)
(* released one.                                                           *)
(***************************************************************************)
CONSTANTS Service,  \* names of services
          Version,  \* a released version with its image and git SHA
          None      \* no entry

VARIABLE entries    \* entries[s]: what the lock wants service s to run

Init == entries \in [Service -> Version \cup {None}]

Release(s, v) == entries' = [entries EXCEPT ![s] = v]

Next == \E s \in Service, v \in Version : Release(s, v)

Spec == Init /\ [][Next]_entries
=============================================================================
