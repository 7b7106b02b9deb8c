---------------------------- MODULE MCCheeseSync ----------------------------
(* Small instances of CheeseSync: positions that collide and that do not. *)
EXTENDS CheeseSync

\* The ids are not in the order of the positions.
Distinct == [c \in Cheese |-> IdSpace - c]
\* All cheese hash alike: every id but the first is walked to.
Colliding == [c \in Cheese |-> 1]
=============================================================================
