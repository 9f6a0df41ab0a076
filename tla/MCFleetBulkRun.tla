--------------------------- MODULE MCFleetBulkRun ---------------------------
(* Instances of FleetBulkRun for TLC. *)
EXTENDS FleetBulkRun

Buckets3 == 1 .. 3

(* Three waves, or a first wave of two members. *)
TwoPlacements == {<<1, 2, 3>>, <<1, 1, 2>>}
=============================================================================
