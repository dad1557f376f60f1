------------------------------- MODULE MCHash -------------------------------
(* Two threads, each with a key of its own in one bucket and a key whose   *)
(* bucket and hash are those of the other's, in 10 bits.                   *)
EXTENDS Hash

CONSTANTS t1, t2

MCKeys == t1 :> {<<65>>, <<65, 97>>} @@ t2 :> {<<66>>, <<66, 66>>}
MCSymmetry == Permutations(Nodes)
=============================================================================
