-------------------------------- MODULE Fifo --------------------------------
(***************************************************************************)
(* src/src/hy_fifo.c called by one thread: a ring of `size' bytes with two *)
(* free-running size_t counters, `in' and `out', and a third counter,      *)
(* `use_cnt', that only some of the operations keep up to date.            *)
(*                                                                         *)
(* A handle is NULL or live; with no live fifo every field reads as empty. *)
(* HyFifoPut does not test its handle, so it is called on a live one; the  *)
(* other calls do and are modelled for both.                               *)
(***************************************************************************)
EXTENDS FifoOps

CONSTANTS
  ReqSizes,  \* sizes that clients pass to HyFifoCreate
  Data,      \* buffers that clients pass to HyFifoPut
  Lens,      \* lengths that clients pass to Get, Peek and UpdateOut
  Scratch    \* bytes of the local buffer of HyFifoUpdateOut (1024)

(***************************************************************************)
(* HyFifoCreate's rounding gives a size that fits a uint32_t and properly  *)
(* divides the range of size_t, as every power of two below that range     *)
(* does: the free-running counters may wrap without moving the ring index. *)
(* Convert states it of the rounding (LeastPowerOf2), for the requests up  *)
(* to which it holds.                                                      *)
(***************************************************************************)
ASSUME SizeAssumption ==
  \A r \in ReqSizes :
    /\ FifoSize(r) \in 1..(U32Mod - 1)
    /\ \E m \in 1..SizeTMod : SizeTMod = m * FifoSize(r)

ASSUME CallAssumption ==
  /\ Data \subseteq Seq(Byte)
  /\ \A d \in Data : Len(d) < SizeTMod
  /\ Lens \subseteq 0..(SizeTMod - 1)
  /\ Scratch \in Nat \ {0}

VARIABLES
  handle,   \* TRUE when the client holds a live fifo
  buf,      \* context->buf
  size,     \* context->size
  in,       \* context->in
  out,      \* context->out
  use_cnt,  \* context->use_cnt
  untold,   \* bytes moved out by calls that leave use_cnt alone (history)
  ret,      \* result of the last call and the bytes it gave to the caller
  overrun   \* a copy ran past the local buffer of HyFifoUpdateOut

vars == <<handle, buf, size, in, out, use_cnt, untold, ret, overrun>>

Result(len, data) == [len |-> len, data |-> data]

Sizes == {FifoSize(r) : r \in ReqSizes}

Zeroed(sz) == [k \in 0..(sz - 1) |-> NUL]

NoContext == /\ handle' = FALSE
             /\ size' = 0
             /\ buf' = Zeroed(0)
             /\ in' = 0
             /\ out' = 0
             /\ use_cnt' = 0
             /\ untold' = 0

Init == /\ handle = FALSE
        /\ size = 0
        /\ buf = Zeroed(0)
        /\ in = 0
        /\ out = 0
        /\ use_cnt = 0
        /\ untold = 0
        /\ ret = Result(0, <<>>)
        /\ overrun = FALSE

-----------------------------------------------------------------------------

(* Both allocations succeed; malloc'ed memory is zeroed by HY_MALLOC_BREAK. *)
HyFifoCreate(req) ==
  /\ ~handle /\ ~overrun
  /\ handle' = TRUE
  /\ size' = FifoSize(req)
  /\ buf' = Zeroed(FifoSize(req))
  /\ in' = 0
  /\ out' = 0
  /\ use_cnt' = 0
  /\ untold' = 0
  /\ ret' = Result(0, <<>>)
  /\ UNCHANGED overrun

(* An allocation fails: HyFifoDestroy on what there is, and NULL. *)
HyFifoCreateFails ==
  /\ ~handle /\ ~overrun
  /\ NoContext
  /\ ret' = Result(0, <<>>)
  /\ UNCHANGED overrun

HyFifoDestroy ==
  /\ handle /\ ~overrun
  /\ NoContext
  /\ ret' = Result(0, <<>>)
  /\ UNCHANGED overrun

HyFifoPut(data) ==
  LET len == HyUtilsMinMacro(Len(data), Free(size, in, out))
  IN  /\ handle /\ ~overrun
      /\ buf' = CopyIn(buf, size, in, data, len)
      /\ in' = (in + len) % SizeTMod
      /\ use_cnt' = (use_cnt + len) % SizeTMod
      /\ ret' = Result(len, <<>>)
      /\ UNCHANGED <<handle, size, out, untold, overrun>>

(***************************************************************************)
(* The length _get_data_com moves: its parameter is a uint32_t, so the     *)
(* request is cut to that width first.                                     *)
(***************************************************************************)
_get_data_com(len) ==
  IF handle THEN HyUtilsMinMacro(len % U32Mod, Used(in, out)) ELSE 0

(* Mutant of HyFifoGet: use_cnt is not updated. *)
HyFifoGetForgetsCnt(req) ==
  LET len == _get_data_com(req)
  IN  /\ ~overrun
      /\ out' = (out + len) % SizeTMod
      /\ ret' = Result(len, CopyOut(buf, size, out, len))
      /\ UNCHANGED <<handle, buf, size, in, use_cnt, untold, overrun>>

HyFifoGet(req) ==
  LET len == _get_data_com(req)
  IN  /\ ~overrun
      /\ out' = (out + len) % SizeTMod
      /\ use_cnt' = (use_cnt - len) % SizeTMod
      /\ ret' = Result(len, CopyOut(buf, size, out, len))
      /\ UNCHANGED <<handle, buf, size, in, untold, overrun>>

HyFifoPeek(req) ==
  LET len == _get_data_com(req)
  IN  /\ ~overrun
      /\ ret' = Result(len, CopyOut(buf, size, out, len))
      /\ UNCHANGED <<handle, buf, size, in, out, use_cnt, untold, overrun>>

(***************************************************************************)
(* The bytes go to a local buffer of Scratch bytes.  A longer copy leaves  *)
(* the program without defined behaviour, and the model stops there.       *)
(***************************************************************************)
HyFifoUpdateOut(req) ==
  LET len == _get_data_com(req)
  IN  /\ ~overrun
      /\ len <= Scratch
      /\ out' = (out + len) % SizeTMod
      /\ untold' = (untold + len) % SizeTMod
      /\ ret' = Result(len, <<>>)
      /\ UNCHANGED <<handle, buf, size, in, use_cnt, overrun>>

(* Mutant of HyFifoUpdateOutOverrun: the length asked for is copied. *)
HyFifoUpdateOutAsked(req) ==
  /\ ~overrun
  /\ req % U32Mod > Scratch
  /\ overrun' = TRUE
  /\ UNCHANGED <<handle, buf, size, in, out, use_cnt, untold, ret>>

HyFifoUpdateOutOverrun(req) ==
  /\ ~overrun
  /\ _get_data_com(req) > Scratch
  /\ overrun' = TRUE
  /\ UNCHANGED <<handle, buf, size, in, out, use_cnt, untold, ret>>

HyFifoClean ==
  /\ ~overrun
  /\ buf' = Zeroed(size)
  /\ in' = 0
  /\ out' = 0
  /\ untold' = (untold + Used(in, out)) % SizeTMod
  /\ ret' = Result(0, <<>>)
  /\ UNCHANGED <<handle, size, use_cnt, overrun>>

(* The value HyFifoGetInfo stores for each HyFifoInfoType_t. *)
HyFifoGetInfo ==
  [TOTAL_LEN |-> size,
   USED_LEN  |-> use_cnt,
   FREE_LEN  |-> (size - (in + out)) % SizeTMod]

(* The bytes HyFifoDump prints; it counts them in a uint32_t. *)
HyFifoDump ==
  IF handle THEN CopyOut(buf, size, out, Used(in, out) % U32Mod) ELSE <<>>

-----------------------------------------------------------------------------

Next == \/ \E r \in ReqSizes : HyFifoCreate(r)
        \/ HyFifoCreateFails
        \/ HyFifoDestroy
        \/ \E d \in Data : HyFifoPut(d)
        \/ \E n \in Lens : \/ HyFifoGet(n)
                          \/ HyFifoPeek(n)
                          \/ HyFifoUpdateOut(n)
                          \/ HyFifoUpdateOutOverrun(n)
        \/ HyFifoClean

Spec == Init /\ [][Next]_vars

-----------------------------------------------------------------------------

(* Every field has a value of its C type, and the ring has `size' cells. *)
TypeOK ==
  /\ handle \in BOOLEAN
  /\ size \in (IF handle THEN Sizes ELSE {0})
  /\ buf \in [0..(size - 1) -> Byte]
  /\ in \in 0..(SizeTMod - 1)
  /\ out \in 0..(SizeTMod - 1)
  /\ use_cnt \in 0..(SizeTMod - 1)
  /\ untold \in 0..(SizeTMod - 1)
  /\ ret \in [len : 0..(SizeTMod - 1), data : Seq(Byte)]
  /\ overrun \in BOOLEAN

(***************************************************************************)
(* The two counters never drift further apart than the ring is long, also  *)
(* after either of them has wrapped: HyFifoPut never overwrites a byte     *)
(* that HyFifoGet has not returned, and `size - in + out' never underflows. *)
(***************************************************************************)
OccupancyBound == Used(in, out) <= size

(***************************************************************************)
(* use_cnt, which HyFifoGetInfo reports as the length in use and the LED   *)
(* loop of hy_net_wired.c waits on, is too large by exactly the bytes that *)
(* HyFifoUpdateOut and HyFifoClean moved out, across overflow of all the   *)
(* counters: it is the length in use for a client that calls neither.      *)
(***************************************************************************)
UseCntExact == use_cnt = (Used(in, out) + untold) % SizeTMod

(***************************************************************************)
(* HyFifoUpdateOut stays inside its local buffer unless the client asked   *)
(* for a fifo longer than that buffer.                                     *)
(***************************************************************************)
ScratchSafe == overrun => size > Scratch

(***************************************************************************)
(* HyFifoDump prints exactly what the following HyFifoGet calls would      *)
(* return, wherever the ring index and the counters have wrapped.          *)
(***************************************************************************)
DumpShowsContents == HyFifoDump = Contents(buf, size, in, out)

(***************************************************************************)
(* HY_FIFO_INFO_FREE_LEN (include/hy_fifo.h:36) is the room that HyFifoPut *)
(* uses until a byte has been taken out, and no longer: the code subtracts *)
(* out where it should add it.                                             *)
(***************************************************************************)
FreeLenUntilOut == out = 0 => HyFifoGetInfo.FREE_LEN = size - Used(in, out)

(***************************************************************************)
(* The ring as its readers rely on it: fields in range, never more bytes   *)
(* than cells, the same contents printed and returned, and lengths that    *)
(* are right where the code's are.                                         *)
(***************************************************************************)
RingSound == TypeOK /\ OccupancyBound /\ DumpShowsContents /\ FreeLenUntilOut

(***************************************************************************)
(* Every call has the effect and the result of the bounded byte queue that *)
(* include/hy_fifo.h documents.                                            *)
(***************************************************************************)
Queue == INSTANCE ByteQueue WITH
           cap  <- size,
           q    <- Contents(buf, size, in, out),
           Lens <- {n % U32Mod : n \in Lens},
           Caps <- Sizes

QueueSpec == Queue!Spec
=============================================================================
