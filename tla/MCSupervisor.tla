---------------------------- MODULE MCSupervisor ----------------------------
(* A small instance of Supervisor. *)
EXTENDS Supervisor

TwoWorlds == 1 .. 2
=============================================================================
