------------------------------- MODULE MCDeploy -------------------------------
(* Small instances of Deploy for TLC.                                        *)
EXTENDS Deploy, TLC

Symmetry == Permutations(Deploys) \cup Permutations(Targets)

\* While all operations are for one machine, a run has a save of the project or an operation
\* that is killed; of both, and of either beside another machine's, only the first step.
OneMachine == \E t \in Targets : \A d \in Deploys : target[d] \in {t, None}
OneDisturbance == crashes + config <= IF OneMachine THEN 1 ELSE 0
=============================================================================
