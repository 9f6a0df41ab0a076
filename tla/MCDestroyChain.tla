--------------------------- MODULE MCDestroyChain ---------------------------
(* Instances of DestroyChain for TLC. *)
EXTENDS DestroyChain

(* Two leaves, 2 and 3, over a shared root. *)
Vee == {1, 2, 3}
VeeDeps == [m \in Modules |-> IF m = 1 THEN {} ELSE {1}]

(* 2 depends on 1. *)
Pair == {1, 2}
PairDeps == [m \in Modules |-> IF m = 1 THEN {} ELSE {1}]
=============================================================================
