--------------------------- MODULE MCProvisionJobs ---------------------------
(* A small instance of ProvisionJobs for TLC.                                *)
EXTENDS ProvisionJobs, TLC
=============================================================================
