---------------------------- MODULE MCJobManager ----------------------------
(* Small instances of JobManager for TLC. *)
EXTENDS JobManager, TLC

Symmetric == Permutations(Job) \cup Permutations(Repo)
=============================================================================
