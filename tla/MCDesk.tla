---------------------------------- MODULE MCDesk ----------------------------------
(* The Desk over the backend core, with constants small enough for TLC. *)
EXTENDS Desk
=================================================================================
