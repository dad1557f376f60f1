------------------------------ MODULE MCServices ------------------------------
(* One user signal and two error signals, of which one may come inside the   *)
(* handler of the other, two of the three at most; a buffer of one character *)
(* and its terminator, at which lines are cut or for which they are too long. *)
EXTENDS Services

CONSTANTS term, quit, abrt
MCMsgLens == main :> {1} @@ [w \in {worker, term, quit, abrt} |-> {0}]
MCWriters == {main, worker, term, quit, abrt}
=============================================================================
