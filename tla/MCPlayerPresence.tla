------------------------- MODULE MCPlayerPresence ---------------------------
(* PlayerPresence checked with two addresses, so that they are used again. *)
EXTENDS PlayerPresence
=============================================================================
