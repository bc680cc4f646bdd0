---------------------------- MODULE MCMigrationJobs ----------------------------
(***************************************************************************)
(* Instances of MigrationJobs for TLC.                                      *)
(***************************************************************************)
EXTENDS MigrationJobs, TLC

CONSTANTS j1, j2, j3, vm1

\* Every job exports the same VM.
OneVm == [j \in Jobs |-> vm1]
\* Every job exports a VM of its own.
OwnVm == [j \in Jobs |-> j]

Serial       == {"create", "cancel", "resume", "purge", "restart"}
Contended    == {"create", "resume", "purge", "restart", "limit"}
CreateCancel == {"create", "cancel"}

\* Threads and clients are interchangeable, and so are migrations (they all export vm1, or each its own VM).
Symmetry == Permutations(Threads) \cup Permutations(Clients) \cup Permutations(Jobs \ IsoJobs)
================================================================================
