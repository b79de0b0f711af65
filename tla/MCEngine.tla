------------------------------ MODULE MCEngine ------------------------------
(* Two messages, one of which verifies. *)
EXTENDS Engine

CONSTANTS m1, m2

MCMessages == {m1, m2}
MCValid == {m1}
=============================================================================
