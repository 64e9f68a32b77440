------------------------------ MODULE MCShowfloor ------------------------------
(* The showfloor entry of a small spec, with constants small enough for TLC. *)
EXTENDS Showfloor
=================================================================================
