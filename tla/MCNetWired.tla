----------------------------- MODULE MCNetWired -----------------------------
(* Instances of NetWired: a fifo of two records, three calls.
   LED 0 blinks slowly and is set ON, LED 1 blinks fast. *)
EXTENDS NetWired

MCCmds == {<<0, SLOW>>, <<0, ON>>, <<1, FAST>>}
=============================================================================
