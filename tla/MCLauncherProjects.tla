-------------------------- MODULE MCLauncherProjects --------------------------
(* A small instance of LauncherProjects for TLC.                            *)
EXTENDS LauncherProjects, TLC

Symmetry == Permutations(Threads) \cup Permutations(Pids)
=============================================================================
