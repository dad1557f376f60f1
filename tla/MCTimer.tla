------------------------------ MODULE MCTimer -------------------------------
(* A wheel of a few slots and timers that span up to two revolutions. *)
EXTENDS Timer
=============================================================================
