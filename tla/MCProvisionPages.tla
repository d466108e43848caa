--------------------------- MODULE MCProvisionPages ---------------------------
(* Small instances of ProvisionPages for TLC.                                *)
EXTENDS ProvisionPages, TLC

Symmetry == Permutations(Jobs) \cup Permutations(Streams)
=============================================================================
