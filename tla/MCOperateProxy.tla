---------------------------- MODULE MCOperateProxy ----------------------------
(* Small instances of OperateProxy for TLC.                                  *)
EXTENDS OperateProxy, TLC

Symmetry == Permutations(Threads) \cup Permutations(Ports) \cup Permutations(Projects)

\* Three changes of any kind to what a key stamps, a launch and an exit among them, but
\* not a save and a rewrite both; and nothing filed under a key read after it.
Unfiled ==
    /\ ~misfiled
    /\ docs + conf.stamp <= 1 /\ files + docs + conf.stamp + secret <= 3
=============================================================================
