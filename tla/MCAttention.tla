------------------------------ MODULE MCAttention ------------------------------
(* The backend core, with constants small enough for TLC. *)
EXTENDS Attention, TLC

\* No action and no property tells one handler from another.
Handlers == Permutations(Calls)
=================================================================================
