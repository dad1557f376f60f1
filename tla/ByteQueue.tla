----------------------------- MODULE ByteQueue -----------------------------
(***************************************************************************)
(* What include/hy_fifo.h promises of a fifo: a bounded queue of bytes     *)
(* that accepts as much of an insertion as fits, hands bytes out in the    *)
(* order they went in, and reports how many were moved.                    *)
(*                                                                         *)
(* `ret' is the result of the last call: its length and the bytes it       *)
(* copied to the caller.                                                   *)
(***************************************************************************)
EXTENDS Integers, Sequences

CONSTANTS
  Data,  \* the insertions clients make, as sequences
  Lens,  \* the lengths clients ask for
  Caps   \* the capacities a queue can have

VARIABLES cap, q, ret

vars == <<cap, q, ret>>

Closed == cap = 0

Result(len, data) == [len |-> len, data |-> data]

Moved(n) == IF n < Len(q) THEN n ELSE Len(q)

Room(n) == IF n < cap - Len(q) THEN n ELSE cap - Len(q)

Init == /\ cap = 0
        /\ q = <<>>
        /\ ret = Result(0, <<>>)

Open(c) == /\ Closed
           /\ cap' = c
           /\ q' = <<>>
           /\ ret' = Result(0, <<>>)

Close == /\ ~Closed
         /\ cap' = 0
         /\ q' = <<>>
         /\ ret' = Result(0, <<>>)

Enqueue(s) == LET n == Room(Len(s))
              IN  /\ ~Closed
                  /\ q' = q \o SubSeq(s, 1, n)
                  /\ ret' = Result(n, <<>>)
                  /\ UNCHANGED cap

Dequeue(n) == /\ q' = SubSeq(q, Moved(n) + 1, Len(q))
              /\ ret' = Result(Moved(n), SubSeq(q, 1, Moved(n)))
              /\ UNCHANGED cap

Peek(n) == /\ ret' = Result(Moved(n), SubSeq(q, 1, Moved(n)))
           /\ UNCHANGED <<cap, q>>

Discard(n) == /\ q' = SubSeq(q, Moved(n) + 1, Len(q))
              /\ ret' = Result(Moved(n), <<>>)
              /\ UNCHANGED cap

Clear == /\ q' = <<>>
         /\ ret' = Result(0, <<>>)
         /\ UNCHANGED cap

Next == \/ \E c \in Caps : Open(c)
        \/ Close
        \/ \E s \in Data : Enqueue(s)
        \/ \E n \in Lens : Dequeue(n) \/ Peek(n) \/ Discard(n)
        \/ Clear

Spec == Init /\ [][Next]_vars
=============================================================================
