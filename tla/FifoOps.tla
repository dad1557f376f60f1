------------------------------ MODULE FifoOps ------------------------------
(***************************************************************************)
(* The arithmetic and the copies of src/src/hy_fifo.c, shared by the       *)
(* sequential fifo (Fifo), the unlocked two-thread fifo (FifoSpsc) and the *)
(* LED service built on it (NetWired).                                     *)
(*                                                                         *)
(* size_t is arithmetic modulo SizeTMod and uint32_t modulo U32Mod.        *)
(***************************************************************************)
EXTENDS Integers, Sequences

CONSTANTS
  Byte,      \* what one cell of the buffer holds
  NUL,       \* the cell value memset(.., '\0', ..) leaves
  SizeTMod,  \* number of values of size_t   (2^64 or 2^32 in the builds)
  U32Mod     \* number of values of uint32_t (2^32)

ASSUME WidthAssumption ==
  /\ SizeTMod \in Nat \ {0}
  /\ U32Mod \in Nat \ {0}
  /\ U32Mod <= SizeTMod
  /\ NUL \in Byte

-----------------------------------------------------------------------------

HyUtilsMinMacro(x, y) == IF x < y THEN x ELSE y

(* x & (x - 1) clears the lowest bit: no odd factor is left but 1. *)
HyUtilsIsPowerOf2(x) ==
  x # 0 /\ \A d \in 2..x : x % d = 0 => d % 2 = 0

(* context->in - context->out *)
Used(i, o) == (i - o) % SizeTMod

(* Mutant of Free: the parentheses of HyFifoGetInfo. *)
FreeMinusOut(sz, i, o) == (sz - (i + o)) % SizeTMod

(* context->size - context->in + context->out *)
Free(sz, i, o) == (sz - i + o) % SizeTMod

(* x & (context->size - 1), for a size that is a power of two *)
Index(x, sz) == x % sz

(* Mutant of CopyIn: the second memcpy is missing. *)
CopyInToEnd(b, sz, i, data, n) ==
  [k \in 0..(sz - 1) |->
     IF Index(i, sz) <= k /\ k < Index(i, sz) + n
     THEN data[k - Index(i, sz) + 1] ELSE b[k]]

(***************************************************************************)
(* The two memcpy of HyFifoPut: up to the end of the buffer, then from its *)
(* start.                                                                  *)
(***************************************************************************)
CopyIn(b, sz, i, data, n) ==
  LET first   == Index(i, sz)
      len_tmp == HyUtilsMinMacro(n, sz - first)
  IN  [k \in 0..(sz - 1) |->
         IF first <= k /\ k < first + len_tmp THEN data[k - first + 1]
         ELSE IF k < n - len_tmp THEN data[len_tmp + k + 1]
         ELSE b[k]]

(***************************************************************************)
(* The two memcpy of _get_data_com: the n bytes from out on, as the caller *)
(* receives them.                                                          *)
(***************************************************************************)
CopyOut(b, sz, o, n) ==
  LET first   == Index(o, sz)
      len_tmp == HyUtilsMinMacro(n, sz - first)
  IN  [i \in 1..n |-> IF i <= len_tmp THEN b[first + i - 1]
                                      ELSE b[i - len_tmp - 1]]

(* The n cells from counter value o on, in ring order. *)
Window(b, sz, o, n) == [k \in 1..n |-> b[Index(o + k - 1, sz)]]

(* The bytes between out and in, oldest first: what the fifo holds. *)
Contents(b, sz, i, o) == Window(b, sz, o, Used(i, o))

-----------------------------------------------------------------------------

(* `while (num >>= 1) i <<= 1`, from i = 1 *)
HighBit[num \in 0..(U32Mod - 1)] ==
  IF num \div 2 = 0 THEN 1 ELSE (2 * HighBit[num \div 2]) % U32Mod

_HyUtilsNumTo2N2(num) ==
  LET i == HighBit[num]
  IN  IF i < num THEN (2 * i) % U32Mod ELSE i

(***************************************************************************)
(* The buffer size HyFifoCreate gives to a request: the request itself, or *)
(* its rounding, which takes its argument as a uint32_t.  0x80000000 is    *)
(* U32Mod \div 2.                                                          *)
(***************************************************************************)
FifoSize(req) ==
  IF ~HyUtilsIsPowerOf2(req) \/ req > U32Mod \div 2
  THEN _HyUtilsNumTo2N2(req % U32Mod)
  ELSE req
=============================================================================
