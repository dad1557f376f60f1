------------------------------- MODULE KeyMap -------------------------------
(* What src/src/utils_hash.c promises for the keys of one thread: a map    *)
(* that loses nothing, whatever other threads do with theirs.  A key that  *)
(* is in the map must not be put again: the program does not survive it.   *)
CONSTANTS Keys, Vals, None

VARIABLES map,  \* the value of each key, or None
          got,  \* the key and the value of a get that has not returned yet
          up    \* the program runs

vars == <<map, got, up>>

Init == map = [k \in Keys |-> None] /\ got = None /\ up = TRUE

Put(k, v) == /\ up /\ map[k] = None
             /\ map' = [map EXCEPT ![k] = v]
             /\ UNCHANGED <<got, up>>

PutAgain(k) == /\ up /\ map[k] # None
               /\ up' = FALSE
               /\ UNCHANGED <<map, got>>

Remove(k) == /\ up /\ map[k] # None
             /\ map' = [map EXCEPT ![k] = None]
             /\ UNCHANGED <<got, up>>

Get(k) == /\ up
          /\ got' = <<k, map[k]>>
          /\ UNCHANGED <<map, up>>

Taken == up /\ got' = None /\ UNCHANGED <<map, up>>

Next == \/ \E k \in Keys : (\E v \in Vals : Put(k, v)) \/ PutAgain(k)
                           \/ Remove(k) \/ Get(k)
        \/ Taken

Spec == Init /\ [][Next]_vars
=============================================================================
