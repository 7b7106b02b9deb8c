-------------------------- MODULE PickupAuthority ---------------------------
(***************************************************************************)
(* What Game/Pickups.cpp promises of the host: pickups are collected one   *)
(* at a time and never come back in the run, whichever rat takes them and  *)
(* however often, and each is counted once.                                *)
(***************************************************************************)
EXTENDS Integers

CONSTANT Ids  \* the pickups of a maze

VARIABLES
  collected,  \* those collected in this run
  count       \* how many, in 8 bits

Init == collected = {} /\ count = 0

Collect(id) ==
  /\ id \in Ids \ collected
  /\ collected' = collected \cup {id}
  /\ count' = (count + 1) % 256

\* A new run.
Reset == collected' = {} /\ count' = 0

Next == Reset \/ \E id \in Ids : Collect(id)

Spec == Init /\ [][Next]_<<collected, count>>
=============================================================================
