---------------------------- MODULE MCCoopSession ---------------------------
(* Small instances of CoopSession: configured and rolled seeds. *)
EXTENDS CoopSession

MaybeForced == {-1, 7, 8}
AnyRoll == {-5, 3}
=============================================================================
