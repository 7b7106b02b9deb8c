----------------------------- MODULE MCEnemySync ----------------------------
(* Small instances of EnemySync: who is of which archetype. *)
EXTENDS EnemySync

OneArchetype == [e \in Enemies \cup Locals |-> "Critter"]
=============================================================================
