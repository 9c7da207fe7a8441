------------------------------ MODULE MCDaemon ------------------------------
(* Default settings and others, two rows, two schemas, a queue of one event. *)
EXTENDS Daemon
=============================================================================
