--------------------------- MODULE MCRemoteCommand ---------------------------
(* A small instance of RemoteCommand for TLC.                               *)
EXTENDS RemoteCommand
=============================================================================
