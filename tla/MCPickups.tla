----------------------------- MODULE MCPickups ------------------------------
(* Pickups checked with two pickups in one run. *)
EXTENDS Pickups
=============================================================================
