------------------------------ MODULE FifoSpsc ------------------------------
(***************************************************************************)
(* src/src/hy_fifo.c between two threads and no lock: one thread calls     *)
(* HyFifoPut, another HyFifoGet, as HyNetWiredSetLed and the LED thread of *)
(* hy_net_wired.c do.  The calls are split at every access to a field the  *)
(* other thread writes.                                                    *)
(*                                                                         *)
(* HyUtilsMinMacro evaluates its arguments twice.  A build may read the    *)
(* other thread's counter again for the second evaluation, or keep the     *)
(* first value: reload says which.                                         *)
(*                                                                         *)
(* The k-th byte the producer offers is the number k; memory behind its    *)
(* buffer reads as Beyond.                                                 *)
(***************************************************************************)
EXTENDS FifoOps

CONSTANTS
  Size,    \* length of the ring
  Reqs,    \* lengths both threads ask for
  Total,   \* bound: bytes the producer has to send
  Beyond   \* a byte from behind the producer's buffer

ASSUME SpscAssumption ==
  /\ Size \in 1..(U32Mod - 1)
  /\ \E m \in 1..SizeTMod : SizeTMod = m * Size
  /\ Reqs \subseteq 1..(U32Mod - 1)
  /\ Total \in Nat
  /\ 1..(Total + Size) \subseteq Byte
  /\ Beyond \in Byte

VARIABLES
  buf, in, out, use_cnt,  \* the fields of _fifo_context_t
  p,     \* the producer: where it is in HyFifoPut, its locals
  c,     \* the consumer: where it is in HyFifoGet, its locals and its buffer
  sent,  \* bytes the producer has published
  got,   \* bytes the consumer has released
  reload \* the build reads the other thread's counter for each evaluation

vars == <<buf, in, out, use_cnt, p, c, sent, got, reload>>

Init == /\ buf = [k \in 0..(Size - 1) |-> NUL]
        /\ in = 0
        /\ out = 0
        /\ use_cnt = 0
        /\ p = [pc |-> "idle", req |-> 0, len |-> 0, cnt |-> 0]
        /\ c = [pc |-> "idle", req |-> 0, len |-> 0, cnt |-> 0, data |-> <<>>]
        /\ sent = 0
        /\ got = 0
        /\ reload \in BOOLEAN

(* The length of the first of two copies that start at counter value x. *)
UpToEnd(x, len) == HyUtilsMinMacro(len, Size - Index(x, Size))

-----------------------------------------------------------------------------
(* HyFifoPut.                                                              *)

(* What the producer's buffer holds at its first n cells and behind them. *)
Offered == [k \in 1..p.len |-> IF k <= p.req THEN sent + k ELSE Beyond]

PutCall(n) ==
  /\ p.pc = "idle"
  /\ sent + n <= Total
  /\ p' = [p EXCEPT !.pc = "min", !.req = n]
  /\ UNCHANGED <<reload, buf, in, out, use_cnt, c, sent, got>>

(* Mutant of PutMin: no look at the free space. *)
PutMinUnchecked ==
  /\ p.pc = "min"
  /\ p' = [p EXCEPT !.pc = "copy", !.len = p.req]
  /\ UNCHANGED <<reload, buf, in, out, use_cnt, c, sent, got>>

(* len < size - in + out, and the value if the build keeps it. *)
PutMin ==
  LET free == Free(Size, in, out)
  IN  /\ p.pc = "min"
      /\ p' = IF reload /\ ~(p.req < free)
              THEN [p EXCEPT !.pc = "reload"]
              ELSE [p EXCEPT !.pc = "copy", !.len = HyUtilsMinMacro(p.req, free)]
      /\ UNCHANGED <<reload, buf, in, out, use_cnt, c, sent, got>>

(* The second evaluation of size - in + out. *)
PutReload ==
  /\ p.pc = "reload"
  /\ p' = [p EXCEPT !.pc = "copy", !.len = Free(Size, in, out)]
  /\ UNCHANGED <<reload, buf, in, out, use_cnt, c, sent, got>>

PutCopy ==
  LET n == UpToEnd(in, p.len)
  IN  /\ p.pc = "copy"
      /\ buf' = CopyIn(buf, Size, in, SubSeq(Offered, 1, n), n)
      /\ p' = [p EXCEPT !.pc = "copy2"]
      /\ UNCHANGED <<reload, in, out, use_cnt, c, sent, got>>

PutCopy2 ==
  LET n == UpToEnd(in, p.len)
  IN  /\ p.pc = "copy2"
      /\ buf' = CopyIn(buf, Size, in + n,
                       SubSeq(Offered, n + 1, p.len), p.len - n)
      /\ p' = [p EXCEPT !.pc = "in"]
      /\ UNCHANGED <<reload, in, out, use_cnt, c, sent, got>>

(* Mutant of PutIn: the bytes are not published. *)
PutInForgotten ==
  /\ p.pc = "in"
  /\ sent' = sent + p.len
  /\ p' = [p EXCEPT !.pc = "load"]
  /\ UNCHANGED <<reload, buf, in, out, use_cnt, c, got>>

PutIn ==
  /\ p.pc = "in"
  /\ in' = (in + p.len) % SizeTMod
  /\ sent' = sent + p.len
  /\ p' = [p EXCEPT !.pc = "load"]
  /\ UNCHANGED <<reload, buf, out, use_cnt, c, got>>

(* use_cnt += len is a load and a store. *)
PutLoad ==
  /\ p.pc = "load"
  /\ p' = [p EXCEPT !.pc = "store", !.cnt = use_cnt]
  /\ UNCHANGED <<reload, buf, in, out, use_cnt, c, sent, got>>

PutStore ==
  /\ p.pc = "store"
  /\ use_cnt' = (p.cnt + p.len) % SizeTMod
  /\ p' = [p EXCEPT !.pc = "idle", !.req = 0, !.len = 0, !.cnt = 0]
  /\ UNCHANGED <<reload, buf, in, out, c, sent, got>>

Producer == \/ \E n \in Reqs : PutCall(n)
            \/ PutMin \/ PutReload \/ PutCopy \/ PutCopy2
            \/ PutIn \/ PutLoad \/ PutStore

-----------------------------------------------------------------------------
(* HyFifoGet.                                                              *)

GetCall(n) ==
  /\ c.pc = "idle"
  /\ c' = [c EXCEPT !.pc = "min", !.req = n]
  /\ UNCHANGED <<reload, buf, in, out, use_cnt, p, sent, got>>

(* len < in - out, and the value if the build keeps it. *)
GetMin ==
  LET used == Used(in, out)
  IN  /\ c.pc = "min"
      /\ c' = IF reload /\ ~(c.req < used)
              THEN [c EXCEPT !.pc = "reload"]
              ELSE [c EXCEPT !.pc = "copy", !.len = HyUtilsMinMacro(c.req, used)]
      /\ UNCHANGED <<reload, buf, in, out, use_cnt, p, sent, got>>

(* The second evaluation of in - out. *)
GetReload ==
  /\ c.pc = "reload"
  /\ c' = [c EXCEPT !.pc = "copy", !.len = Used(in, out) % U32Mod]
  /\ UNCHANGED <<reload, buf, in, out, use_cnt, p, sent, got>>

GetCopy ==
  /\ c.pc = "copy"
  /\ c' = [c EXCEPT !.pc = "copy2",
                    !.data = CopyOut(buf, Size, out, UpToEnd(out, c.len))]
  /\ UNCHANGED <<reload, buf, in, out, use_cnt, p, sent, got>>

(* Mutant of GetCopy2: the second memcpy does not start at the ring's start. *)
GetCopy2FromOut ==
  LET n == UpToEnd(out, c.len)
  IN  /\ c.pc = "copy2"
      /\ c' = [c EXCEPT !.pc = "out",
                        !.data = @ \o CopyOut(buf, Size, out, c.len - n)]
      /\ UNCHANGED <<reload, buf, in, out, use_cnt, p, sent, got>>

GetCopy2 ==
  LET n == UpToEnd(out, c.len)
  IN  /\ c.pc = "copy2"
      /\ c' = [c EXCEPT !.pc = "out",
                        !.data = @ \o CopyOut(buf, Size, out + n, c.len - n)]
      /\ UNCHANGED <<reload, buf, in, out, use_cnt, p, sent, got>>

GetOut ==
  /\ c.pc = "out"
  /\ out' = (out + c.len) % SizeTMod
  /\ got' = got + c.len
  /\ c' = [c EXCEPT !.pc = "load", !.data = <<>>]
  /\ UNCHANGED <<reload, buf, in, use_cnt, p, sent>>

GetLoad ==
  /\ c.pc = "load"
  /\ c' = [c EXCEPT !.pc = "store", !.cnt = use_cnt]
  /\ UNCHANGED <<reload, buf, in, out, use_cnt, p, sent, got>>

GetStore ==
  /\ c.pc = "store"
  /\ use_cnt' = (c.cnt - c.len) % SizeTMod
  /\ c' = [c EXCEPT !.pc = "idle", !.req = 0, !.len = 0, !.cnt = 0]
  /\ UNCHANGED <<reload, buf, in, out, p, sent, got>>

Consumer == \/ \E n \in Reqs : GetCall(n)
            \/ GetMin \/ GetReload \/ GetCopy \/ GetCopy2
            \/ GetOut \/ GetLoad \/ GetStore

-----------------------------------------------------------------------------

Next == Producer \/ Consumer

Spec == Init /\ [][Next]_vars

(***************************************************************************)
(* Both threads are scheduled: the producer retries until it has sent      *)
(* everything, the consumer polls.                                         *)
(***************************************************************************)
FairSpec == Spec /\ WF_vars(Producer) /\ WF_vars(Consumer)

-----------------------------------------------------------------------------

PutPc == {"idle", "min", "reload", "copy", "copy2", "in", "load", "store"}
GetPc == {"idle", "min", "reload", "copy", "copy2", "out", "load", "store"}

(* The shared fields keep their C types, the threads their control state. *)
TypeOK ==
  /\ buf \in [0..(Size - 1) -> Byte]
  /\ in \in 0..(SizeTMod - 1)
  /\ out \in 0..(SizeTMod - 1)
  /\ use_cnt \in 0..(SizeTMod - 1)
  /\ p \in [pc : PutPc, req : 0..(U32Mod - 1), len : 0..(SizeTMod - 1),
            cnt : 0..(SizeTMod - 1)]
  /\ c \in [pc : GetPc, req : 0..(U32Mod - 1), len : 0..(U32Mod - 1),
            cnt : 0..(SizeTMod - 1), data : Seq(Byte)]
  /\ reload \in BOOLEAN
  /\ sent \in Nat /\ got \in Nat

(* The cells the two calls are copying. *)
Writing == IF p.pc \in {"copy", "copy2"}
           THEN {Index(in + k, Size) : k \in 0..(p.len - 1)} ELSE {}
Reading == IF c.pc \in {"copy", "copy2"}
           THEN {Index(out + k, Size) : k \in 0..(c.len - 1)} ELSE {}

(***************************************************************************)
(* At no moment does HyFifoPut copy into a cell that HyFifoGet is copying  *)
(* out of, nor into one that holds a byte not yet released: with one       *)
(* producer and one consumer the missing lock does not tear data.          *)
(***************************************************************************)
NoTornBytes ==
  /\ Writing \cap Reading = {}
  /\ Writing \cap {Index(out + k, Size) : k \in 0..(Used(in, out) - 1)} = {}

(***************************************************************************)
(* The counters stay within one ring length of each other at every step of *)
(* both calls, with what they are about to add.                            *)
(***************************************************************************)
OccupancyBound ==
  /\ Used(in, out) = sent - got
  /\ Used(in, out) + (IF p.pc \in {"copy", "copy2", "in"} THEN p.len ELSE 0)
       <= Size
  /\ c.pc \in {"copy", "copy2", "out"} => c.len <= Used(in, out)

(***************************************************************************)
(* Comments at src/src/hy_fifo.c:121 and :85: a copy of the other thread's *)
(* counter is kept so that the macro does not read it twice.  The copy is  *)
(* compiled out: a build that reads it once, in the macro, moves no more   *)
(* than the call was asked for, one that reads it again may.               *)
(***************************************************************************)
NeverMoreThanAsked ==
  ~reload => /\ p.pc = "copy" => p.len <= p.req
             /\ c.pc = "copy" => c.len <= c.req

(* The ring between the two threads, at every step of both calls. *)
CellsSound == TypeOK /\ NoTornBytes /\ OccupancyBound /\ NeverMoreThanAsked

(***************************************************************************)
(* The consumer receives the bytes that were sent, in order, none twice    *)
(* and none lost, while puts overlap its gets; only a build that reads the *)
(* counter again may put bytes from behind the producer's buffer between.  *)
(***************************************************************************)
InOrder ==
  c.pc = "out" =>
    /\ Len(c.data) = c.len
    /\ \A k \in 1..c.len : c.data[k] = got + k \/ (reload /\ c.data[k] = Beyond)

(***************************************************************************)
(* With both threads scheduled, every byte arrives.                        *)
(***************************************************************************)
AllDelivered == <>(got >= Total)
=============================================================================
