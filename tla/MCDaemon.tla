------------------------------ MODULE MCDaemon ------------------------------
(* Bounds for checking Daemon with TLC. *)
EXTENDS Daemon
=============================================================================
