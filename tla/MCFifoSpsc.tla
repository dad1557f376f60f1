----------------------------- MODULE MCFifoSpsc -----------------------------
(* A ring of two cells, size_t of 2 bits, six bytes to send. *)
EXTENDS FifoSpsc

MCByte == 0..8
=============================================================================
