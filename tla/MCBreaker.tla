------------------------------- MODULE MCBreaker -------------------------------
(* An instance of Breaker for TLC. *)
EXTENDS Breaker

CONSTANT t1
================================================================================
