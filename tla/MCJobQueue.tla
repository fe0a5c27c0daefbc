----------------------------- MODULE MCJobQueue -----------------------------
(* Instances of JobQueue for TLC. *)
EXTENDS JobQueue, TLC

\* Folders and processes are interchangeable in the runs without liveness.
ProcessSymmetry == Permutations(Folder) \cup Permutations(Instance)
=============================================================================
