----------------------------- MODULE MCWorkspace -----------------------------
(* Small instances of Workspace for TLC.                                     *)
EXTENDS Workspace, TLC

CONSTANTS n1, n2, k1, k2

\* A rename, an import or a removed project brings one name the other's directory.
MCSlug == n1 :> k1 @@ n2 :> k2

Symmetry == Permutations(Ops)

\* All that a later step can read: not the tab after the last save, and not what a killed
\* operation held.
Held(f) == [p \in Ops |-> IF pc[p] = "killed" THEN None ELSE f[p]]
View == <<dir, edits, lock, op, pc, Held(made), Held(saw), staged, crashes,
          IF edits < MaxEdits THEN tab ELSE None>>
=============================================================================
