---------------------------- MODULE MCBnkUpgrade ----------------------------
(* Instances of BnkUpgrade for TLC. *)
EXTENDS BnkUpgrade
=============================================================================
