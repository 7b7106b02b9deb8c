---------------------------- MODULE MCDeathSync -----------------------------
(* DeathSync checked with two mazes: messages of the first reach the second. *)
EXTENDS DeathSync
=============================================================================
