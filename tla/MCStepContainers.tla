-------------------------- MODULE MCStepContainers --------------------------
(* Instances of StepContainers for TLC. *)
EXTENDS StepContainers, TLC

CONSTANTS a1, b1, A, B

(* One task each of two modules that share the workspace. *)
Siblings == a1 :> A @@ b1 :> B
=============================================================================
