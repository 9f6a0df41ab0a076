---------------------------- MODULE MCDeployChain ----------------------------
(* Instances of DeployChain for TLC. *)
EXTENDS DeployChain

Three == 1 .. 3
Last == {3}
(* Two modules, and a third that depends on both. *)
Vee == <<{}, {}, {1, 2}>>
(* Before the first deployment, and after a destroy that failed once. *)
VeeStart == {<<"initialized", "initialized", "not_initialized">>,
             <<"applied", "applied", "destroy_failed">>}
==============================================================================
