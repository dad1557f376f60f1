------------------------------- MODULE MCFifo -------------------------------
(* A small instance of Fifo: size_t of 4 bits, uint32_t of 3, two bytes. *)
EXTENDS Fifo

MCByte == {0, 1}
MCData == {<<>>, <<1>>, <<0, 1>>, <<1, 0, 1>>}
=============================================================================
