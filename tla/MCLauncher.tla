------------------------------ MODULE MCLauncher ------------------------------
(* Small instances of Launcher for TLC.                                     *)
EXTENDS Launcher, TLC

\* Threads, projects and process ids are interchangeable.
Symmetry == Permutations(Threads) \cup Permutations(Projects) \cup Permutations(Pids)
=============================================================================
