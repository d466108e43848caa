-------------------------- MODULE MCProviderImports --------------------------
(* Small instances of ProviderImports for TLC.                               *)
EXTENDS ProviderImports, TLC

Symmetry == Permutations(Ops) \cup Permutations(Contents)
=============================================================================
