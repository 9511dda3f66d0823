--------------------------- MODULE MCRemoteSession ---------------------------
(* A small instance of RemoteSession for TLC. *)
EXTENDS RemoteSession, TLC

=============================================================================
