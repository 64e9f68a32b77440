--------------------------------- MODULE MCRail ---------------------------------
(* The rail of a Desk, with constants small enough for TLC. *)
EXTENDS Rail
=================================================================================
