----------------------------- MODULE FifoProofs -----------------------------
(***************************************************************************)
(* Proofs about Fifo for every ring size, byte set, counter width and set  *)
(* of calls.  They rest on two facts about the free-running counters:      *)
(* within one turn of the ring, remainders are additions with at most one  *)
(* correction (ModSmall, ModBelow, ModAbove, IndexStep), and the wrap of a *)
(* size_t does not move a ring index, because the ring length divides the  *)
(* range of size_t (IndexWrap).  With them every copy becomes linear       *)
(* arithmetic on cell numbers.                                             *)
(*                                                                         *)
(* The last part shows that the ring implements the bounded byte queue of  *)
(* ByteQueue.  The queue is read off the ring as the window of cells       *)
(* between out and in; the three window lemmas say what advancing out,     *)
(* advancing in and the copies do to it.                                   *)
(***************************************************************************)
EXTENDS Fifo, SequenceTheorems, TLAPS


-----------------------------------------------------------------------------
(* Remainders.                                                             *)

(* A number below the modulus is its own remainder. *)
LEMMA ModSmall ==
  ASSUME NEW m \in Nat \ {0}, NEW x \in Int, 0 <= x, x < m
  PROVE  x % m = x
  BY SMT

(* size_t subtraction that underflows once. *)
LEMMA ModBelow ==
  ASSUME NEW m \in Nat \ {0}, NEW x \in Int, -m <= x, x < 0
  PROVE  x % m = x + m
  BY SMT

(* size_t addition that overflows once. *)
LEMMA ModAbove ==
  ASSUME NEW m \in Nat \ {0}, NEW x \in Int, m <= x, x < 2 * m
  PROVE  x % m = x - m
  BY SMT

(* A remainder is below its modulus. *)
LEMMA ModType ==
  ASSUME NEW m \in Nat \ {0}, NEW x \in Int
  PROVE  x % m \in 0..(m - 1)
  BY SMT

(* Division with remainder. *)
LEMMA ModSplit ==
  ASSUME NEW m \in Nat \ {0}, NEW x \in Int
  PROVE  \E q \in Int : x = m * q + (x % m)
<1>1. x \div m \in Int
  BY SMT
<1>2. x = m * (x \div m) + (x % m)
  BY SMT
<1> QED BY <1>1, <1>2

(* There is only one such division. *)
LEMMA ModUnique ==
  ASSUME NEW m \in Nat \ {0}, NEW q \in Int, NEW r \in 0..(m - 1)
  PROVE  (m * q + r) % m = r
  BY SMT

(* Adding inside or outside a remainder is the same. *)
LEMMA ModAdd ==
  ASSUME NEW m \in Nat \ {0}, NEW x \in Int, NEW y \in Int
  PROVE  ((x % m) + y) % m = (x + y) % m
<1> DEFINE r == x % m
           t == (r + y) % m
<1>1. PICK q \in Int : x = m * q + r
  BY ModSplit
<1>2. r \in 0..(m - 1)
  BY ModType
<1>x. r = x % m
  OBVIOUS
<1> HIDE DEF r
<1>3. r + y \in Int
  BY <1>2
<1>4. PICK d \in Int : r + y = m * d + t
  BY <1>3, ModSplit
<1>5. t \in 0..(m - 1)
  BY <1>3, ModType
<1>y. t = (r + y) % m
  OBVIOUS
<1> HIDE DEF t
<1>6. q + d \in Int /\ x + y = m * (q + d) + t
  <2>1. m * (q + d) = m * q + m * d
    BY SMT
  <2>2. m * q \in Int /\ m * d \in Int /\ m * (q + d) \in Int
    BY SMT
  <2> QED BY <1>1, <1>2, <1>4, <1>5, <2>1, <2>2
<1>7. (m * (q + d) + t) % m = t
  BY <1>5, <1>6, ModUnique
<1> QED BY <1>6, <1>7, <1>x, <1>y

(* Moving a ring index forward by at most one turn. *)
LEMMA IndexStep ==
  ASSUME NEW sz \in Nat \ {0}, NEW x \in Int, NEW j \in 0..sz
  PROVE  Index(x + j, sz) = IF Index(x, sz) + j < sz THEN Index(x, sz) + j
                                                     ELSE Index(x, sz) + j - sz
<1> DEFINE r == x % sz
<1>1. PICK q \in Int : x = sz * q + r
  BY ModSplit
<1>2. r \in 0..(sz - 1)
  BY ModType
<1>i. Index(x, sz) = r
  BY DEF Index
<1> HIDE DEF r
<1>3. CASE r + j < sz
  <2>1. x + j = sz * q + (r + j)
    BY <1>1, <1>2
  <2>2. r + j \in 0..(sz - 1)
    BY <1>2, <1>3
  <2> QED BY <2>1, <2>2, <1>i, <1>3, ModUnique DEF Index
<1>4. CASE ~(r + j < sz)
  <2>1. x + j = sz * (q + 1) + (r + j - sz)
    <3>1. sz * (q + 1) = sz * q + sz
      BY SMT
    <3> QED BY <1>1, <1>2, <3>1
  <2>2. r + j - sz \in 0..(sz - 1) /\ q + 1 \in Int
    BY <1>2, <1>4
  <2>3. (sz * (q + 1) + (r + j - sz)) % sz = r + j - sz
    BY <2>2, ModUnique
  <2> QED BY <2>1, <2>3, <1>i, <1>4 DEF Index
<1> QED BY <1>3, <1>4

(* The wrap of a size_t does not move a ring index. *)
LEMMA IndexWrap ==
  ASSUME NEW sz \in Nat \ {0}, NEW m \in Nat \ {0}, NEW x \in Int
  PROVE  Index(x % (m * sz), sz) = Index(x, sz)
<1> DEFINE M == m * sz
           y == x % M
<1>1. M \in Nat \ {0}
  BY SMT
<1> HIDE DEF M
<1>2. y \in 0..(M - 1) /\ y \in Int
  BY <1>1, ModType
<1>3. PICK q \in Int : x = M * q + y
  BY <1>1, ModSplit
<1> HIDE DEF y
<1>4. PICK d \in Int : y = sz * d + (y % sz)
  BY <1>2, ModSplit
<1>5. y % sz \in 0..(sz - 1)
  BY <1>2, ModType
<1>6. m * q + d \in Int
  BY <1>3, <1>4
<1>7. x = sz * (m * q + d) + (y % sz)
  <2>1. M * q = sz * (m * q)
    BY SMT DEF M
  <2>2. sz * (m * q + d) = sz * (m * q) + sz * d
    BY SMT
  <2> QED BY <1>3, <1>4, <1>5, <2>1, <2>2
<1>8. (sz * (m * q + d) + (y % sz)) % sz = y % sz
  BY <1>5, <1>6, ModUnique
<1> QED BY <1>7, <1>8 DEF Index, y, M

-----------------------------------------------------------------------------
(* The counters.                                                           *)

(* in - out, as the distance on the circle of size_t values. *)
LEMMA UsedValue ==
  ASSUME NEW i \in 0..(SizeTMod - 1), NEW o \in 0..(SizeTMod - 1)
  PROVE  Used(i, o) = IF o <= i THEN i - o ELSE i - o + SizeTMod
<1>1. SizeTMod \in Nat \ {0}
  BY WidthAssumption
<1>2. CASE o <= i
  BY <1>1, <1>2, ModSmall DEF Used
<1>3. CASE i < o
  BY <1>1, <1>3, ModBelow DEF Used
<1> QED BY <1>1, <1>2, <1>3

(* Advancing a counter by less than the range of size_t. *)
LEMMA Advance ==
  ASSUME NEW i \in 0..(SizeTMod - 1), NEW n \in 0..(SizeTMod - 1)
  PROVE  (i + n) % SizeTMod = IF i + n < SizeTMod THEN i + n
                                                  ELSE i + n - SizeTMod
<1>1. SizeTMod \in Nat \ {0}
  BY WidthAssumption
<1>2. CASE i + n < SizeTMod
  BY <1>1, <1>2, ModSmall
<1>3. CASE SizeTMod <= i + n
  <2> DEFINE x == i + n
  <2>1. x \in Int /\ SizeTMod <= x /\ x < 2 * SizeTMod
    BY <1>1, <1>3
  <2> HIDE DEF x
  <2>2. x % SizeTMod = x - SizeTMod
    BY <1>1, <2>1, ModAbove
  <2> QED BY <1>1, <1>3, <2>2 DEF x
<1> QED BY <1>1, <1>2, <1>3

(* size - in + out is the room left, and does not underflow. *)
LEMMA FreeValue ==
  ASSUME NEW i \in 0..(SizeTMod - 1), NEW o \in 0..(SizeTMod - 1),
         NEW sz \in 0..(SizeTMod - 1), Used(i, o) <= sz
  PROVE  Free(sz, i, o) = sz - Used(i, o)
<1>1. SizeTMod \in Nat \ {0}
  BY WidthAssumption
<1>2. CASE o <= i
  <2>1. Used(i, o) = i - o
    BY <1>2, UsedValue
  <2> QED BY <1>1, <1>2, <2>1, ModSmall DEF Free
<1>3. CASE i < o
  <2>1. Used(i, o) = i - o + SizeTMod
    BY <1>1, <1>3, UsedValue
  <2> DEFINE x == sz - i + o
  <2>2. x \in Int /\ SizeTMod <= x /\ x < 2 * SizeTMod
    BY <1>1, <1>3, <2>1
  <2> HIDE DEF x
  <2>3. x % SizeTMod = x - SizeTMod
    BY <1>1, <2>2, ModAbove
  <2> QED BY <1>1, <2>1, <2>3 DEF Free, x
<1> QED BY <1>1, <1>2, <1>3

(* Putting n bytes adds n to the distance. *)
LEMMA UsedPut ==
  ASSUME NEW i \in 0..(SizeTMod - 1), NEW o \in 0..(SizeTMod - 1),
         NEW n \in Nat, Used(i, o) + n < SizeTMod
  PROVE  Used((i + n) % SizeTMod, o) = Used(i, o) + n
<1>1. SizeTMod \in Nat \ {0}
  BY WidthAssumption
<1>2. Used(i, o) = IF o <= i THEN i - o ELSE i - o + SizeTMod
  BY UsedValue
<1>3. n \in 0..(SizeTMod - 1)
  BY <1>1, <1>2
<1>4. (i + n) % SizeTMod = IF i + n < SizeTMod THEN i + n
                                               ELSE i + n - SizeTMod
  BY <1>3, Advance
<1>5. (i + n) % SizeTMod \in 0..(SizeTMod - 1)
  BY <1>1, <1>3, <1>4
<1>6. Used((i + n) % SizeTMod, o) =
        IF o <= (i + n) % SizeTMod THEN ((i + n) % SizeTMod) - o
                                   ELSE ((i + n) % SizeTMod) - o + SizeTMod
  BY <1>5, UsedValue
<1> QED BY <1>1, <1>2, <1>3, <1>4, <1>6

(* Taking n bytes that are there takes n from the distance. *)
LEMMA UsedGet ==
  ASSUME NEW i \in 0..(SizeTMod - 1), NEW o \in 0..(SizeTMod - 1),
         NEW n \in 0..Used(i, o)
  PROVE  Used(i, (o + n) % SizeTMod) = Used(i, o) - n
<1>1. SizeTMod \in Nat \ {0}
  BY WidthAssumption
<1>2. Used(i, o) = IF o <= i THEN i - o ELSE i - o + SizeTMod
  BY UsedValue
<1>3. n \in 0..(SizeTMod - 1)
  BY <1>1, <1>2
<1>4. (o + n) % SizeTMod = IF o + n < SizeTMod THEN o + n
                                               ELSE o + n - SizeTMod
  BY <1>3, Advance
<1>5. (o + n) % SizeTMod \in 0..(SizeTMod - 1)
  BY <1>1, <1>3, <1>4
<1>6. Used(i, (o + n) % SizeTMod) =
        IF (o + n) % SizeTMod <= i THEN i - ((o + n) % SizeTMod)
                                   ELSE i - ((o + n) % SizeTMod) + SizeTMod
  BY <1>5, UsedValue
<1> QED BY <1>1, <1>2, <1>3, <1>4, <1>6

-----------------------------------------------------------------------------
(* The copies.                                                             *)

(* The two memcpy of HyFifoPut stay inside the ring and inside the data. *)
LEMMA CopyInType ==
  ASSUME NEW sz \in Nat \ {0}, NEW b \in [0..(sz - 1) -> Byte], NEW i \in Nat,
         NEW data \in Seq(Byte), NEW n \in 0..Len(data), n <= sz
  PROVE  CopyIn(b, sz, i, data, n) \in [0..(sz - 1) -> Byte]
<1> DEFINE first == Index(i, sz)
           len_tmp == HyUtilsMinMacro(n, sz - first)
           cell(k) == IF first <= k /\ k < first + len_tmp
                      THEN data[k - first + 1]
                      ELSE IF k < n - len_tmp THEN data[len_tmp + k + 1]
                      ELSE b[k]
<1>1. first \in 0..(sz - 1)
  BY ModType DEF Index
<1> HIDE DEF first
<1>2. len_tmp \in 0..n
  BY <1>1 DEF HyUtilsMinMacro
<1> HIDE DEF len_tmp
<1>3. ASSUME NEW k \in 0..(sz - 1) PROVE cell(k) \in Byte
  <2>1. CASE first <= k /\ k < first + len_tmp
    <3>1. k - first + 1 \in 1..Len(data)
      BY <2>1, <1>1, <1>2
    <3> QED BY <3>1, <2>1
  <2>2. CASE ~(first <= k /\ k < first + len_tmp) /\ k < n - len_tmp
    <3>1. len_tmp + k + 1 \in 1..Len(data)
      BY <2>2, <1>2
    <3> QED BY <3>1, <2>2
  <2>3. CASE ~(first <= k /\ k < first + len_tmp) /\ ~(k < n - len_tmp)
    BY <2>3
  <2> QED BY <2>1, <2>2, <2>3
<1>4. CopyIn(b, sz, i, data, n) = [k \in 0..(sz - 1) |-> cell(k)]
  BY DEF CopyIn, first, len_tmp
<1> HIDE DEF cell
<1> QED BY <1>3, <1>4

(* What _get_data_com hands out is the front of the contents, in order. *)
LEMMA CopyOutValue ==
  ASSUME NEW sz \in Nat \ {0}, NEW b, NEW o \in Nat, NEW n \in 0..sz
  PROVE  CopyOut(b, sz, o, n) = Window(b, sz, o, n)
<1> DEFINE first == Index(o, sz)
           len_tmp == HyUtilsMinMacro(n, sz - first)
           cell(k) == IF k <= len_tmp THEN b[first + k - 1]
                                      ELSE b[k - len_tmp - 1]
<1>1. first \in 0..(sz - 1)
  BY ModType DEF Index
<1>2. ASSUME NEW k \in 1..n PROVE cell(k) = b[Index(o + k - 1, sz)]
  <2> DEFINE j == k - 1
  <2>1. j \in 0..sz /\ k = j + 1 /\ o + k - 1 = o + j
    BY SMT
  <2> HIDE DEF j
  <2>2. Index(o + j, sz) = IF first + j < sz THEN first + j
                                             ELSE first + j - sz
    <3>1. o \in Int
      BY SMT
    <3> QED BY <2>1, <3>1, IndexStep, Zenon
  <2> HIDE DEF first
  <2>3. CASE first + j < sz
    <3>1. k <= len_tmp /\ first + k - 1 = first + j
      BY <1>1, <2>1, <2>3 DEF HyUtilsMinMacro
    <3> QED BY <2>1, <2>2, <2>3, <3>1
  <2>4. CASE ~(first + j < sz)
    <3>1. ~(k <= len_tmp) /\ k - len_tmp - 1 = first + j - sz
      BY <1>1, <2>1, <2>4 DEF HyUtilsMinMacro
    <3> QED BY <2>1, <2>2, <2>4, <3>1
  <2> QED BY <2>3, <2>4
<1>3. CopyOut(b, sz, o, n) = [k \in 1..n |-> cell(k)]
  BY DEF CopyOut
<1> HIDE DEF cell
<1> QED BY <1>2, <1>3 DEF Window

(* Those bytes are bytes. *)
LEMMA WindowType ==
  ASSUME NEW sz \in Nat \ {0}, NEW b \in [0..(sz - 1) -> Byte],
         NEW o \in Nat, NEW n \in Nat
  PROVE  Window(b, sz, o, n) \in Seq(Byte)
<1>1. ASSUME NEW k \in 1..n PROVE b[Index(o + k - 1, sz)] \in Byte
  <2>1. o + k - 1 \in Int
    BY SMT
  <2>2. Index(o + k - 1, sz) \in 0..(sz - 1)
    BY <2>1, ModType DEF Index
  <2> QED BY <2>2
<1> QED BY <1>1 DEF Window

-----------------------------------------------------------------------------
(* What the assumption on requests says of a ring length. *)
LEMMA SizeFacts ==
  ASSUME NEW sz \in Sizes
  PROVE  /\ sz \in Nat \ {0}
         /\ sz < U32Mod
         /\ sz < SizeTMod
         /\ \E m \in Nat \ {0} : SizeTMod = m * sz
<1>1. PICK r \in ReqSizes : sz = FifoSize(r)
  BY DEF Sizes
<1>2. sz \in 1..(U32Mod - 1) /\ \E m \in 1..SizeTMod : SizeTMod = m * sz
  BY <1>1, SizeAssumption
<1>3. SizeTMod \in Nat /\ U32Mod \in Nat /\ U32Mod <= SizeTMod
  BY WidthAssumption
<1>4. \E m \in Nat \ {0} : SizeTMod = m * sz
  BY <1>2, <1>3
<1> QED BY <1>2, <1>3, <1>4

-----------------------------------------------------------------------------
(* The inductive invariant.                                                *)

(* Neither half is inductive alone: a Put keeps inside the ring only if    *)
(* size - in + out did not underflow, which is what the bound says.        *)
Inv == TypeOK /\ OccupancyBound

(* Under the invariant, the state of a live fifo in terms of its numbers. *)
LEMMA LiveFacts ==
  ASSUME Inv, handle
  PROVE  /\ size \in Nat \ {0}
         /\ size < SizeTMod /\ size < U32Mod
         /\ \E m \in Nat \ {0} : SizeTMod = m * size
         /\ Used(in, out) \in 0..size
         /\ Free(size, in, out) = size - Used(in, out)
<1>1. size \in Sizes
  BY DEF Inv, TypeOK
<1>2. /\ size \in Nat \ {0}
      /\ size < SizeTMod /\ size < U32Mod
      /\ \E m \in Nat \ {0} : SizeTMod = m * size
  BY <1>1, SizeFacts
<1>3. SizeTMod \in Nat \ {0}
  BY WidthAssumption
<1>4. in \in 0..(SizeTMod - 1) /\ out \in 0..(SizeTMod - 1) /\ Used(in, out) <= size
  BY DEF Inv, TypeOK, OccupancyBound
<1>5. Used(in, out) \in 0..(SizeTMod - 1)
  BY <1>3, <1>4, UsedValue
<1>6. size \in 0..(SizeTMod - 1)
  BY <1>2, <1>3
<1>7. Free(size, in, out) = size - Used(in, out)
  BY <1>4, <1>6, FreeValue
<1> QED BY <1>2, <1>3, <1>4, <1>5, <1>7

(* With no fifo there is nothing to move. *)
LEMMA NullFacts ==
  ASSUME Inv, ~handle
  PROVE  size = 0 /\ Used(in, out) = 0
<1>1. SizeTMod \in Nat \ {0}
  BY WidthAssumption
<1>2. /\ in \in 0..(SizeTMod - 1) /\ out \in 0..(SizeTMod - 1)
      /\ Used(in, out) <= size /\ size = 0
  BY DEF Inv, TypeOK, OccupancyBound
<1>3. Used(in, out) \in Nat
  BY <1>1, <1>2, UsedValue
<1> QED BY <1>2, <1>3

(* _get_data_com moves no more than there is. *)
LEMMA GetLen ==
  ASSUME Inv, NEW n \in Lens
  PROVE  /\ _get_data_com(n) \in 0..Used(in, out)
         /\ _get_data_com(n) \in 0..size
         /\ _get_data_com(n) \in 0..(SizeTMod - 1)
<1>1. U32Mod \in Nat \ {0} /\ SizeTMod \in Nat \ {0} /\ n \in Int
  BY WidthAssumption, CallAssumption
<1>2. n % U32Mod \in 0..(U32Mod - 1)
  BY <1>1, ModType
<1>3. CASE handle
  <2>1. /\ size \in Nat \ {0} /\ size < SizeTMod
        /\ Used(in, out) \in 0..size
    BY <1>3, LiveFacts
  <2>2. _get_data_com(n) = HyUtilsMinMacro(n % U32Mod, Used(in, out))
    BY <1>3 DEF _get_data_com
  <2> QED BY <1>1, <1>2, <2>1, <2>2 DEF HyUtilsMinMacro
<1>4. CASE ~handle
  BY <1>1, <1>4, NullFacts DEF _get_data_com
<1> QED BY <1>3, <1>4

(* HyFifoPut moves no more than there is room for. *)
LEMMA PutLen ==
  ASSUME Inv, handle, NEW d \in Data
  PROVE  LET n == HyUtilsMinMacro(Len(d), Free(size, in, out))
         IN  /\ n \in 0..Len(d)
             /\ n \in 0..(size - Used(in, out))
             /\ n \in 0..(SizeTMod - 1)
<1>1. /\ size \in Nat \ {0} /\ size < SizeTMod
      /\ Used(in, out) \in 0..size
      /\ Free(size, in, out) = size - Used(in, out)
  BY LiveFacts
<1>2. Len(d) \in Nat /\ SizeTMod \in Nat \ {0}
  BY CallAssumption, WidthAssumption
<1> QED BY <1>1, <1>2 DEF HyUtilsMinMacro

(* What any call hands to the caller is a sequence of bytes. *)
LEMMA ResultType ==
  ASSUME Inv, NEW n \in Lens
  PROVE  CopyOut(buf, size, out, _get_data_com(n)) \in Seq(Byte)
<1> DEFINE len == _get_data_com(n)
<1>1. len \in 0..size
  BY GetLen
<1>2. CASE handle
  <2>1. size \in Nat \ {0} /\ out \in Nat /\ buf \in [0..(size - 1) -> Byte]
    BY <1>2, LiveFacts, WidthAssumption DEF Inv, TypeOK
  <2> HIDE DEF len
  <2>2. CopyOut(buf, size, out, len) = Window(buf, size, out, len)
    BY <1>1, <2>1, CopyOutValue
  <2>3. len \in Nat
    BY <1>1, <2>1
  <2>4. Window(buf, size, out, len) \in Seq(Byte)
    BY <2>1, <2>3, WindowType
  <2> QED BY <2>2, <2>4 DEF len
<1>3. CASE ~handle
  <2>1. len = 0
    BY <1>3 DEF _get_data_com
  <2>2. CopyOut(buf, size, out, 0) = <<>>
    BY DEF CopyOut
  <2>3. <<>> \in Seq(Byte)
    OBVIOUS
  <2> HIDE DEF len
  <2> QED BY <2>1, <2>2, <2>3 DEF len
<1> QED BY <1>2, <1>3

(* Every call of the client preserves the invariant. *)
LEMMA InvStep ==
  ASSUME Inv, [Next]_vars
  PROVE  Inv'
<1> USE DEF Inv
<1>w. /\ SizeTMod \in Nat \ {0} /\ U32Mod \in Nat \ {0}
      /\ NUL \in Byte /\ 0 \in 0..(SizeTMod - 1)
  BY WidthAssumption
<1>e. <<>> \in Seq(Byte) /\ Zeroed(0) \in [0..(0 - 1) -> Byte]
  BY <1>w DEF Zeroed
<1>r. ASSUME NEW n \in 0..(SizeTMod - 1), NEW d \in Seq(Byte)
      PROVE  Result(n, d) \in [len : 0..(SizeTMod - 1), data : Seq(Byte)]
  BY DEF Result
<1>z. Used(0, 0) = 0
  BY <1>w, UsedValue
<1>1. ASSUME NEW r \in ReqSizes, HyFifoCreate(r) PROVE Inv'
  <2>1. FifoSize(r) \in Sizes
    BY DEF Sizes
  <2>2. FifoSize(r) \in Nat
    BY <2>1, SizeFacts
  <2>3. Zeroed(FifoSize(r)) \in [0..(FifoSize(r) - 1) -> Byte]
    BY <1>w DEF Zeroed
  <2>4. TypeOK'
    BY <1>1, <1>w, <1>e, <1>r, <2>1, <2>3 DEF HyFifoCreate, TypeOK
  <2>5. OccupancyBound'
    BY <1>1, <1>z, <2>2 DEF HyFifoCreate, OccupancyBound
  <2> QED BY <2>4, <2>5
<1>2. ASSUME NoContext, ret' = Result(0, <<>>), UNCHANGED overrun PROVE Inv'
  <2>1. TypeOK'
    BY <1>2, <1>w, <1>e, <1>r DEF NoContext, TypeOK
  <2>2. OccupancyBound'
    BY <1>2, <1>z DEF NoContext, OccupancyBound
  <2> QED BY <2>1, <2>2
<1>3. ASSUME NEW d \in Data, HyFifoPut(d) PROVE Inv'
  <2> DEFINE n == HyUtilsMinMacro(Len(d), Free(size, in, out))
  <2>1. handle
    BY <1>3 DEF HyFifoPut
  <2>2. n \in 0..Len(d) /\ n \in 0..(size - Used(in, out)) /\ n \in 0..(SizeTMod - 1)
    BY <2>1, PutLen
  <2>3. /\ size \in Nat \ {0} /\ size < SizeTMod
        /\ Used(in, out) \in 0..size
    BY <2>1, LiveFacts
  <2>4. /\ in \in 0..(SizeTMod - 1) /\ out \in 0..(SizeTMod - 1)
        /\ use_cnt \in 0..(SizeTMod - 1) /\ untold \in 0..(SizeTMod - 1)
        /\ buf \in [0..(size - 1) -> Byte]
    BY DEF TypeOK
  <2>5. /\ buf' = CopyIn(buf, size, in, d, n)
        /\ in' = (in + n) % SizeTMod
        /\ use_cnt' = (use_cnt + n) % SizeTMod
        /\ ret' = Result(n, <<>>)
        /\ UNCHANGED <<handle, size, out, untold, overrun>>
    BY <1>3 DEF HyFifoPut
  <2> HIDE DEF n
  <2>6. d \in Seq(Byte) /\ n <= size /\ in \in Nat /\ n \in Nat
    BY <1>w, <2>2, <2>3, <2>4, CallAssumption
  <2>7. CopyIn(buf, size, in, d, n) \in [0..(size - 1) -> Byte]
    BY <2>2, <2>3, <2>4, <2>6, CopyInType
  <2>8. (in + n) % SizeTMod \in 0..(SizeTMod - 1)
    <3>1. in + n \in Int
      BY <2>6
    <3> QED BY <3>1, <1>w, ModType
  <2>9. (use_cnt + n) % SizeTMod \in 0..(SizeTMod - 1)
    <3>1. use_cnt + n \in Int
      BY <2>4, <2>6
    <3> QED BY <3>1, <1>w, ModType
  <2>10. TypeOK'
    BY <1>e, <1>r, <2>2, <2>4, <2>5, <2>7, <2>8, <2>9 DEF TypeOK
  <2>11. OccupancyBound'
    <3>1. Used(in, out) + n < SizeTMod /\ Used(in, out) + n <= size
      BY <2>2, <2>3, <1>w
    <3>2. Used((in + n) % SizeTMod, out) = Used(in, out) + n
      BY <2>4, <2>6, <3>1, UsedPut
    <3> QED BY <2>5, <3>1, <3>2 DEF OccupancyBound
  <2> QED BY <2>10, <2>11
<1>4. ASSUME NEW n \in 0..Used(in, out), n \in 0..(SizeTMod - 1),
             out' = (out + n) % SizeTMod,
             UNCHANGED <<handle, buf, size, in, overrun>>,
             use_cnt' \in 0..(SizeTMod - 1), untold' \in 0..(SizeTMod - 1),
             ret' \in [len : 0..(SizeTMod - 1), data : Seq(Byte)]
      PROVE  Inv'
  <2>1. in \in 0..(SizeTMod - 1) /\ out \in 0..(SizeTMod - 1)
    BY DEF TypeOK
  <2>2. (out + n) % SizeTMod \in 0..(SizeTMod - 1)
    <3>1. out + n \in Int
      BY <1>w, <1>4, <2>1
    <3> QED BY <3>1, <1>w, ModType
  <2>3. TypeOK'
    BY <1>4, <2>2 DEF TypeOK
  <2>4. Used(in, (out + n) % SizeTMod) = Used(in, out) - n
    BY <1>4, <2>1, UsedGet
  <2>5. Used(in, out) \in Int /\ size \in Int /\ Used(in, out) <= size
    BY LiveFacts, NullFacts DEF OccupancyBound
  <2>6. OccupancyBound'
    BY <1>4, <2>4, <2>5 DEF OccupancyBound
  <2> QED BY <2>3, <2>6
<1>5. ASSUME NEW n \in Lens, HyFifoGet(n) PROVE Inv'
  <2> DEFINE l == _get_data_com(n)
  <2>1. l \in 0..Used(in, out) /\ l \in 0..(SizeTMod - 1)
    BY GetLen
  <2>2. CopyOut(buf, size, out, l) \in Seq(Byte)
    BY ResultType
  <2>3. /\ out' = (out + l) % SizeTMod
        /\ use_cnt' = (use_cnt - l) % SizeTMod
        /\ ret' = Result(l, CopyOut(buf, size, out, l))
        /\ UNCHANGED <<handle, buf, size, in, untold, overrun>>
    BY <1>5 DEF HyFifoGet
  <2> HIDE DEF l
  <2>u. untold \in 0..(SizeTMod - 1)
    BY DEF TypeOK
  <2>4. (use_cnt - l) % SizeTMod \in 0..(SizeTMod - 1)
    <3>1. use_cnt - l \in Int
      BY <1>w, <2>1 DEF TypeOK
    <3> QED BY <3>1, <1>w, ModType
  <2> QED BY <1>4, <1>r, <2>1, <2>2, <2>3, <2>4, <2>u
<1>6. ASSUME NEW n \in Lens, HyFifoPeek(n) PROVE Inv'
  <2>1. _get_data_com(n) \in 0..(SizeTMod - 1)
    BY GetLen
  <2>2. CopyOut(buf, size, out, _get_data_com(n)) \in Seq(Byte)
    BY ResultType
  <2> QED BY <1>6, <1>r, <2>1, <2>2 DEF HyFifoPeek, TypeOK, OccupancyBound
<1>7. ASSUME NEW n \in Lens, HyFifoUpdateOut(n) PROVE Inv'
  <2> DEFINE l == _get_data_com(n)
  <2>1. l \in 0..Used(in, out) /\ l \in 0..(SizeTMod - 1)
    BY GetLen
  <2>2. use_cnt \in 0..(SizeTMod - 1)
    BY DEF TypeOK
  <2>3. /\ out' = (out + l) % SizeTMod
        /\ untold' = (untold + l) % SizeTMod
        /\ ret' = Result(l, <<>>)
        /\ UNCHANGED <<handle, buf, size, in, use_cnt, overrun>>
    BY <1>7 DEF HyFifoUpdateOut
  <2> HIDE DEF l
  <2>4. (untold + l) % SizeTMod \in 0..(SizeTMod - 1)
    <3>1. untold + l \in Int
      BY <1>w, <2>1 DEF TypeOK
    <3> QED BY <3>1, <1>w, ModType
  <2> QED BY <1>4, <1>r, <1>e, <2>1, <2>2, <2>3, <2>4
<1>8. ASSUME NEW n \in Lens, HyFifoUpdateOutOverrun(n) PROVE Inv'
  BY <1>8 DEF HyFifoUpdateOutOverrun, TypeOK, OccupancyBound
<1>9. ASSUME HyFifoClean PROVE Inv'
  <2>1. Zeroed(size) \in [0..(size - 1) -> Byte]
    BY <1>w DEF Zeroed
  <2>u. (untold + Used(in, out)) % SizeTMod \in 0..(SizeTMod - 1)
    <3>1. untold \in Int /\ Used(in, out) \in Int
      BY LiveFacts, NullFacts, <1>w DEF TypeOK
    <3>2. untold + Used(in, out) \in Int
      BY <3>1
    <3> QED BY <3>2, <1>w, ModType
  <2>2. TypeOK'
    BY <1>9, <1>w, <1>e, <1>r, <2>1, <2>u DEF HyFifoClean, TypeOK
  <2>3. size \in Nat
    BY LiveFacts, NullFacts
  <2>4. OccupancyBound'
    BY <1>9, <1>z, <2>3 DEF HyFifoClean, OccupancyBound
  <2> QED BY <2>2, <2>4
<1>10. ASSUME UNCHANGED vars PROVE Inv'
  BY <1>10 DEF vars, TypeOK, OccupancyBound
<1> QED
  BY <1>1, <1>2, <1>3, <1>5, <1>6, <1>7, <1>8, <1>9, <1>10
  DEF Next, HyFifoCreateFails, HyFifoDestroy

(* The program starts with no fifo, which satisfies the invariant. *)
LEMMA InvInit == Init => Inv
<1> SUFFICES ASSUME Init PROVE Inv
  OBVIOUS
<1>1. SizeTMod \in Nat \ {0} /\ 0 \in 0..(SizeTMod - 1)
  BY WidthAssumption
<1>2. Zeroed(0) \in [0..(0 - 1) -> Byte]
  BY DEF Zeroed
<1>3. Result(0, <<>>) \in [len : 0..(SizeTMod - 1), data : Seq(Byte)]
  BY <1>1 DEF Result
<1>4. Used(0, 0) = 0
  BY <1>1, UsedValue
<1>5. TypeOK
  BY <1>1, <1>2, <1>3 DEF Init, TypeOK
<1>6. OccupancyBound
  BY <1>4 DEF Init, OccupancyBound
<1> QED BY <1>5, <1>6 DEF Inv

(* The invariant holds throughout, for every client. *)
LEMMA InvAlways == Spec => []Inv
<1>1. Inv /\ [Next]_vars => Inv'
  BY InvStep
<1> QED BY InvInit, <1>1, PTL DEF Spec

(***************************************************************************)
(* Whatever sequence of calls a client makes, every field of the fifo      *)
(* keeps a value of its C type and the ring keeps its length.              *)
(***************************************************************************)
THEOREM TypeCorrect == Spec => []TypeOK
<1>1. Inv => TypeOK
  BY DEF Inv
<1> QED BY InvAlways, <1>1, PTL

(***************************************************************************)
(* The ring never holds more bytes than it has cells, also after the       *)
(* counters have wrapped: HyFifoPut does not overwrite unread bytes.       *)
(***************************************************************************)
THEOREM OccupancyAlways == Spec => []OccupancyBound
<1>1. Inv => OccupancyBound
  BY DEF Inv
<1> QED BY InvAlways, <1>1, PTL

(***************************************************************************)
(* HyFifoUpdateOut overruns its local buffer only in a fifo that is longer *)
(* than that buffer: moving at most what the ring holds is what bounds it. *)
(***************************************************************************)
THEOREM ScratchAlways == Spec => []ScratchSafe
<1>1. Init => ScratchSafe
  BY DEF Init, ScratchSafe
<1>2. Inv /\ ScratchSafe /\ [Next]_vars => ScratchSafe'
  <2> SUFFICES ASSUME Inv, ScratchSafe, [Next]_vars PROVE ScratchSafe'
    OBVIOUS
  <2>1. CASE overrun
    <3>1. UNCHANGED <<overrun, size>>
      BY <2>1 DEF Next, vars, HyFifoCreate, HyFifoCreateFails,
         HyFifoDestroy, HyFifoPut, HyFifoGet, HyFifoPeek, HyFifoUpdateOut,
         HyFifoUpdateOutOverrun, HyFifoClean
    <3> QED BY <3>1 DEF ScratchSafe
  <2>2. ASSUME NEW n \in Lens, HyFifoUpdateOutOverrun(n) PROVE ScratchSafe'
    <3>1. _get_data_com(n) \in 0..size /\ _get_data_com(n) > Scratch /\ size' = size
      BY <2>2, GetLen DEF HyFifoUpdateOutOverrun
    <3>2. size \in Nat /\ Scratch \in Nat
      BY LiveFacts, NullFacts, CallAssumption
    <3> QED BY <3>1, <3>2 DEF ScratchSafe
  <2>3. CASE ~overrun /\ ~(\E n \in Lens : HyFifoUpdateOutOverrun(n))
    <3>1. ~overrun'
      BY <2>3 DEF Next, vars, HyFifoCreate, HyFifoCreateFails,
         HyFifoDestroy, HyFifoPut, HyFifoGet, HyFifoPeek, HyFifoUpdateOut,
         HyFifoClean
    <3> QED BY <3>1 DEF ScratchSafe
  <2> QED BY <2>1, <2>2, <2>3
<1> QED BY InvAlways, <1>1, <1>2, PTL DEF Spec

(***************************************************************************)
(* HyFifoDump prints the contents, all of them and in order.               *)
(***************************************************************************)
THEOREM DumpAlways == Spec => []DumpShowsContents
<1>1. ASSUME Inv PROVE DumpShowsContents
  <2>1. CASE handle
    <3> DEFINE u == Used(in, out)
    <3>1. size \in Nat \ {0} /\ u \in 0..size /\ size < U32Mod
      BY <2>1, <1>1, LiveFacts
    <3>2. out \in Nat /\ U32Mod \in Nat \ {0}
      BY <1>1, WidthAssumption DEF Inv, TypeOK
    <3> HIDE DEF u
    <3>3. u % U32Mod = u
      BY <3>1, <3>2, ModSmall
    <3>4. CopyOut(buf, size, out, u) = Window(buf, size, out, u)
      BY <3>1, <3>2, CopyOutValue
    <3> QED BY <2>1, <3>3, <3>4 DEF DumpShowsContents, HyFifoDump, Contents, u
  <2>2. CASE ~handle
    <3>1. Used(in, out) = 0
      BY <2>2, <1>1, NullFacts
    <3>2. Window(buf, size, out, 0) = <<>>
      BY DEF Window
    <3> QED BY <2>2, <3>1, <3>2 DEF DumpShowsContents, HyFifoDump, Contents
  <2> QED BY <2>1, <2>2
<1> QED BY InvAlways, <1>1, PTL

(***************************************************************************)
(* Whatever a client calls: fields in range, never more bytes than cells,  *)
(* and the same contents printed and returned.                             *)
(***************************************************************************)
THEOREM RingAlways == Spec => []RingSound
<1>1. ASSUME Inv PROVE FreeLenUntilOut
  <2> SUFFICES ASSUME out = 0
               PROVE  HyFifoGetInfo.FREE_LEN = size - Used(in, out)
    BY DEF FreeLenUntilOut
  <2>1. SizeTMod \in Nat \ {0} /\ in \in 0..(SizeTMod - 1)
    BY <1>1, WidthAssumption DEF Inv, TypeOK
  <2>2. Used(in, out) = in
    <3>1. Used(in, out) = in % SizeTMod
      BY <2>1 DEF Used
    <3> QED BY <3>1, <2>1, ModSmall
  <2>3. size \in Nat /\ size < SizeTMod /\ in <= size
    BY <1>1, <2>1, <2>2, LiveFacts, NullFacts
  <2>4. (size - in) % SizeTMod = size - in
    BY <2>1, <2>3, ModSmall
  <2>5. HyFifoGetInfo.FREE_LEN = (size - in) % SizeTMod
    BY <2>1 DEF HyFifoGetInfo
  <2> QED BY <2>2, <2>4, <2>5
<1>2. TypeOK /\ OccupancyBound /\ DumpShowsContents /\ FreeLenUntilOut => RingSound
  BY DEF RingSound
<1> QED BY InvAlways, TypeCorrect, OccupancyAlways, DumpAlways, <1>1, <1>2, PTL

(***************************************************************************)
(* Whatever a client calls, use_cnt is too large by exactly the bytes that *)
(* HyFifoUpdateOut and HyFifoClean moved out.                              *)
(***************************************************************************)
THEOREM UseCntAlways == Spec => []UseCntExact
<1>w. SizeTMod \in Nat \ {0}
  BY WidthAssumption
<1>z. Used(0, 0) = 0 /\ (0 + 0) % SizeTMod = 0
  <2>1. Used(0, 0) = 0
    BY <1>w, UsedValue
  <2>2. 0 % SizeTMod = 0
    BY <1>w, ModSmall
  <2> QED BY <2>1, <2>2
<1>1. Init => UseCntExact
  BY <1>z DEF Init, UseCntExact
<1>2. Inv /\ UseCntExact /\ [Next]_vars => UseCntExact'
  <2> SUFFICES ASSUME Inv, UseCntExact, [Next]_vars PROVE UseCntExact'
    OBVIOUS
  <2>t. /\ in \in 0..(SizeTMod - 1) /\ out \in 0..(SizeTMod - 1)
        /\ use_cnt \in Int /\ untold \in Int
    BY DEF Inv, TypeOK
  <2>u. Used(in, out) \in 0..(SizeTMod - 1)
    BY <1>w, <2>t, UsedValue
  <2>c. use_cnt = (Used(in, out) + untold) % SizeTMod
    BY DEF UseCntExact
  <2>a. ASSUME NEW n \in Int
        PROVE  (use_cnt + n) % SizeTMod = (Used(in, out) + untold + n) % SizeTMod
    <3>1. Used(in, out) + untold \in Int
      BY <2>t, <2>u, <1>w
    <3> QED BY <3>1, <1>w, <2>c, ModAdd
  <2>b. ASSUME NEW n \in Int, NEW v \in Int
        PROVE  (v + ((untold + n) % SizeTMod)) % SizeTMod
                 = (v + untold + n) % SizeTMod
    <3>1. untold + n \in Int
      BY <2>t
    <3>2. ((untold + n) % SizeTMod) \in Int
      BY <3>1, <1>w, ModType
    <3>3. (((untold + n) % SizeTMod) + v) % SizeTMod = ((untold + n) + v) % SizeTMod
      BY <3>1, <1>w, ModAdd
    <3>4. /\ v + ((untold + n) % SizeTMod) = ((untold + n) % SizeTMod) + v
          /\ v + untold + n = (untold + n) + v
      BY <2>t, <3>2
    <3> QED BY <3>3, <3>4
  <2>1. ASSUME NEW r \in ReqSizes, HyFifoCreate(r) PROVE UseCntExact'
    BY <2>1, <1>z DEF HyFifoCreate, UseCntExact
  <2>2. ASSUME NoContext PROVE UseCntExact'
    BY <2>2, <1>z DEF NoContext, UseCntExact
  <2>3. ASSUME NEW d \in Data, HyFifoPut(d) PROVE UseCntExact'
    <3> DEFINE n == HyUtilsMinMacro(Len(d), Free(size, in, out))
    <3>1. handle
      BY <2>3 DEF HyFifoPut
    <3>2. n \in 0..(size - Used(in, out))
      BY <3>1, PutLen
    <3>3. size \in Nat /\ size < SizeTMod
      BY <3>1, LiveFacts
    <3>4. /\ in' = (in + n) % SizeTMod /\ use_cnt' = (use_cnt + n) % SizeTMod
          /\ out' = out /\ untold' = untold
      BY <2>3 DEF HyFifoPut
    <3> HIDE DEF n
    <3>5. n \in Nat /\ Used(in, out) + n < SizeTMod
      BY <3>2, <3>3, <2>u, <1>w
    <3>6. Used((in + n) % SizeTMod, out) = Used(in, out) + n
      BY <3>5, <2>t, UsedPut
    <3>7. (use_cnt + n) % SizeTMod = (Used(in, out) + untold + n) % SizeTMod
      BY <3>5, <2>a
    <3>8. Used(in, out) + untold + n = (Used(in, out) + n) + untold
      BY <2>t, <2>u, <1>w, <3>5
    <3> QED BY <3>4, <3>6, <3>7, <3>8 DEF UseCntExact
  <2>4. ASSUME NEW n \in Lens, HyFifoGet(n) PROVE UseCntExact'
    <3> DEFINE l == _get_data_com(n)
    <3>1. l \in 0..Used(in, out)
      BY GetLen
    <3>2. /\ out' = (out + l) % SizeTMod /\ use_cnt' = (use_cnt - l) % SizeTMod
          /\ in' = in /\ untold' = untold
      BY <2>4 DEF HyFifoGet
    <3> HIDE DEF l
    <3>3. Used(in, (out + l) % SizeTMod) = Used(in, out) - l
      BY <3>1, <2>t, UsedGet
    <3>4. -l \in Int /\ use_cnt - l = use_cnt + (-l)
          /\ Used(in, out) + untold + (-l) = (Used(in, out) - l) + untold
      BY <3>1, <2>u, <2>t, <1>w
    <3>5. (use_cnt + (-l)) % SizeTMod = (Used(in, out) + untold + (-l)) % SizeTMod
      BY <3>4, <2>a
    <3> QED BY <3>2, <3>3, <3>4, <3>5 DEF UseCntExact
  <2>5. ASSUME NEW n \in Lens, HyFifoPeek(n) PROVE UseCntExact'
    BY <2>5 DEF HyFifoPeek, UseCntExact
  <2>6. ASSUME NEW n \in Lens, HyFifoUpdateOut(n) PROVE UseCntExact'
    <3> DEFINE l == _get_data_com(n)
    <3>1. l \in 0..Used(in, out)
      BY GetLen
    <3>2. /\ out' = (out + l) % SizeTMod /\ untold' = (untold + l) % SizeTMod
          /\ in' = in /\ use_cnt' = use_cnt
      BY <2>6 DEF HyFifoUpdateOut
    <3> HIDE DEF l
    <3>3. Used(in, (out + l) % SizeTMod) = Used(in, out) - l
      BY <3>1, <2>t, UsedGet
    <3>4. l \in Int /\ Used(in, out) - l \in Int
          /\ (Used(in, out) - l) + untold + l = Used(in, out) + untold
      BY <3>1, <2>u, <2>t, <1>w
    <3>5. ((Used(in, out) - l) + ((untold + l) % SizeTMod)) % SizeTMod
            = ((Used(in, out) - l) + untold + l) % SizeTMod
      BY <3>4, <2>b
    <3> QED BY <2>c, <3>2, <3>3, <3>4, <3>5 DEF UseCntExact
  <2>7. ASSUME NEW n \in Lens, HyFifoUpdateOutOverrun(n) PROVE UseCntExact'
    BY <2>7 DEF HyFifoUpdateOutOverrun, UseCntExact
  <2>8. ASSUME HyFifoClean PROVE UseCntExact'
    <3>1. /\ in' = 0 /\ out' = 0 /\ use_cnt' = use_cnt
          /\ untold' = (untold + Used(in, out)) % SizeTMod
      BY <2>8 DEF HyFifoClean
    <3>2. Used(in, out) \in Int
      BY <2>u, <1>w
    <3>3. (0 + ((untold + Used(in, out)) % SizeTMod)) % SizeTMod
            = (0 + untold + Used(in, out)) % SizeTMod
      BY <3>2, <2>b
    <3>4. 0 + untold + Used(in, out) = Used(in, out) + untold
      BY <3>2, <2>t
    <3> QED BY <1>z, <2>c, <3>1, <3>3, <3>4 DEF UseCntExact
  <2>9. ASSUME UNCHANGED vars PROVE UseCntExact'
    BY <2>9 DEF vars, UseCntExact
  <2> QED BY <2>1, <2>2, <2>3, <2>4, <2>5, <2>6, <2>7, <2>8, <2>9
          DEF Next, HyFifoCreateFails, HyFifoDestroy
<1> QED BY InvAlways, <1>1, <1>2, PTL DEF Spec


-----------------------------------------------------------------------------
(* Windows of the ring.                                                    *)

(* A shorter window from the same cell is the front of the longer one. *)
LEMMA WindowFront ==
  ASSUME NEW sz \in Nat \ {0}, NEW b \in [0..(sz - 1) -> Byte],
         NEW o \in Nat, NEW u \in Nat, NEW n \in 0..u
  PROVE  Window(b, sz, o, n) = SubSeq(Window(b, sz, o, u), 1, n)
<1> DEFINE w == Window(b, sz, o, u)
           v == Window(b, sz, o, n)
<1>n. n \in Nat
  BY SMT
<1>1. w \in Seq(Byte) /\ Len(w) = u /\ \A k \in 1..u : w[k] = b[Index(o + k - 1, sz)]
  <2>1. w \in Seq(Byte)
    BY WindowType
  <2> QED BY <2>1 DEF Window
<1>2. v \in Seq(Byte) /\ Len(v) = n /\ \A k \in 1..n : v[k] = b[Index(o + k - 1, sz)]
  <2>1. v \in Seq(Byte)
    BY <1>n, WindowType
  <2> QED BY <1>n, <2>1 DEF Window
<1> HIDE DEF w, v
<1>3. \A k \in 1..n : w[k] \in Byte
  BY <1>1
<1>4. /\ SubSeq(w, 1, n) \in Seq(Byte)
      /\ Len(SubSeq(w, 1, n)) = n
      /\ \A k \in 1..n : SubSeq(w, 1, n)[k] = w[k]
  BY <1>1, <1>3
<1>5. \A k \in 1..n : v[k] = SubSeq(w, 1, n)[k]
  BY <1>1, <1>2, <1>4
<1>6. v = SubSeq(w, 1, n)
  BY <1>2, <1>4, <1>5, SeqEqual
<1> QED BY <1>6 DEF w, v

(* Advancing out by n, wrap included, drops the first n bytes. *)
LEMMA WindowDrop ==
  ASSUME NEW sz \in Nat \ {0}, NEW b \in [0..(sz - 1) -> Byte],
         NEW m \in Nat \ {0}, SizeTMod = m * sz,
         NEW o \in Nat, NEW u \in 0..sz, NEW n \in 0..u
  PROVE  Window(b, sz, (o + n) % SizeTMod, u - n)
           = SubSeq(Window(b, sz, o, u), n + 1, u)
<1> DEFINE w == Window(b, sz, o, u)
           p == (o + n) % SizeTMod
           v == Window(b, sz, p, u - n)
<1>m. SizeTMod \in Nat \ {0}
  BY WidthAssumption
<1>p. p \in Nat
  <2>1. o + n \in Int
    BY SMT
  <2>2. p \in 0..(SizeTMod - 1)
    BY <1>m, <2>1, ModType
  <2> QED BY <1>m, <2>2
<1>i. ASSUME NEW j \in 0..sz
      PROVE  Index(p + j, sz) = Index(o + n + j, sz)
  <2>1. o + n \in Int /\ p \in Int
    BY <1>p
  <2>2. Index(p, sz) = Index(o + n, sz)
    BY <2>1, IndexWrap
  <2>3. Index(p + j, sz) = IF Index(p, sz) + j < sz THEN Index(p, sz) + j
                                                    ELSE Index(p, sz) + j - sz
    BY <2>1, IndexStep
  <2> DEFINE x == o + n
  <2> HIDE DEF x
  <2>4. Index(x + j, sz) = IF Index(x, sz) + j < sz THEN Index(x, sz) + j
                                                    ELSE Index(x, sz) + j - sz
    BY <2>1, IndexStep DEF x
  <2>5. Index(p + j, sz) = Index(x + j, sz)
    BY <2>2, <2>3, <2>4 DEF x
  <2> QED BY <2>5 DEF x
<1>u. u \in Nat
  BY SMT
<1>1. w \in Seq(Byte) /\ Len(w) = u /\ \A k \in 1..u : w[k] = b[Index(o + k - 1, sz)]
  <2>1. w \in Seq(Byte)
    BY <1>u, WindowType
  <2> QED BY <1>u, <2>1 DEF Window
<1> HIDE DEF p
<1>2. u - n \in Nat
  BY SMT
<1>3. /\ v \in Seq(Byte) /\ Len(v) = u - n
      /\ \A k \in 1..(u - n) : v[k] = b[Index(p + k - 1, sz)]
  <2>1. v \in Seq(Byte)
    BY <1>2, <1>p, WindowType
  <2> QED BY <1>2, <1>p, <2>1 DEF Window
<1> HIDE DEF w, v
<1>4. \A k \in (n + 1)..u : w[k] \in Byte
  BY <1>1
<1>5. /\ SubSeq(w, n + 1, u) \in Seq(Byte)
      /\ Len(SubSeq(w, n + 1, u)) = u - n
      /\ \A k \in 1..(u - n) : SubSeq(w, n + 1, u)[k] = w[n + k]
  BY <1>1, <1>2, <1>4
<1>6. ASSUME NEW k \in 1..(u - n) PROVE v[k] = SubSeq(w, n + 1, u)[k]
  <2> DEFINE j == k - 1
  <2>1. j \in 0..sz /\ p + k - 1 = p + j /\ o + (n + k) - 1 = o + n + j
    BY <1>p, <1>2
  <2>2. n + k \in 1..u
    BY SMT
  <2>3. w[n + k] = b[Index(o + (n + k) - 1, sz)]
    BY <1>1, <2>2
  <2> HIDE DEF j
  <2>4. Index(p + j, sz) = Index(o + n + j, sz)
    BY <1>i, <2>1
  <2>5. v[k] = w[n + k]
    BY <1>3, <2>1, <2>3, <2>4
  <2> QED BY <1>5, <2>5
<1>7. v = SubSeq(w, n + 1, u)
  BY <1>3, <1>5, <1>6, SeqEqual
<1> QED BY <1>7 DEF v, w, p

(* The ring index u cells after o. *)
After(o, u, sz) == IF Index(o, sz) + u < sz THEN Index(o, sz) + u
                                            ELSE Index(o, sz) + u - sz

(* The ring index of in is that of out plus what the ring holds. *)
LEMMA InIndex ==
  ASSUME NEW sz \in Nat \ {0}, NEW m \in Nat \ {0}, SizeTMod = m * sz,
         NEW i \in 0..(SizeTMod - 1), NEW o \in 0..(SizeTMod - 1),
         Used(i, o) \in 0..sz
  PROVE  Index(i, sz) = After(o, Used(i, o), sz)
<1> DEFINE u == Used(i, o)
<1>1. SizeTMod \in Nat \ {0} /\ o \in Int /\ i \in Int
  BY WidthAssumption
<1>2. u = IF o <= i THEN i - o ELSE i - o + SizeTMod
  BY UsedValue
<1>3. u \in 0..sz /\ u \in 0..(SizeTMod - 1)
  BY <1>1, <1>2
<1> HIDE DEF u
<1>4. (o + u) % SizeTMod = IF o + u < SizeTMod THEN o + u ELSE o + u - SizeTMod
  BY <1>3, Advance
<1>5. (o + u) % SizeTMod = i
  BY <1>1, <1>2, <1>3, <1>4
<1>6. o + u \in Int
  BY <1>1, <1>3
<1>7. Index((o + u) % SizeTMod, sz) = Index(o + u, sz)
  BY <1>6, IndexWrap
<1>8. Index(o + u, sz) = IF Index(o, sz) + u < sz THEN Index(o, sz) + u
                                                  ELSE Index(o, sz) + u - sz
  BY <1>1, <1>3, IndexStep
<1> QED BY <1>5, <1>7, <1>8 DEF u, After

(***************************************************************************)
(* Where the cell at distance j from out lies relative to the two pieces   *)
(* HyFifoPut writes.  g and f are the ring indices of out and in, u what   *)
(* the ring holds, n what is put, t the length of the first piece.         *)
(***************************************************************************)
LEMMA PutCells ==
  ASSUME NEW sz \in Int, NEW f \in Int, NEW g \in Int, NEW u \in Int, NEW n \in Int,
         NEW t \in Int, NEW j \in Int, NEW x \in Int,
         0 <= g, g < sz, 0 <= u, 0 <= n, u + n <= sz, 0 <= j, j < u + n,
         f = IF g + u < sz THEN g + u ELSE g + u - sz,
         t = IF n < sz - f THEN n ELSE sz - f,
         x = IF g + j < sz THEN g + j ELSE g + j - sz
  PROVE  /\ j < u => ~(f <= x /\ x < f + t) /\ ~(x < n - t)
         /\ u <= j /\ f <= x /\ x < f + t => x - f = j - u
         /\ u <= j /\ ~(f <= x /\ x < f + t) => x < n - t /\ t + x = j - u
  BY SMT

(* The front of a byte sequence. *)
LEMMA FrontValue ==
  ASSUME NEW s \in Seq(Byte), NEW n \in 0..Len(s)
  PROVE  /\ SubSeq(s, 1, n) \in Seq(Byte)
         /\ Len(SubSeq(s, 1, n)) = n
         /\ \A k \in 1..n : SubSeq(s, 1, n)[k] = s[k]
<1>1. \A k \in 1..n : s[k] \in Byte
  OBVIOUS
<1> QED BY <1>1

(* Copying n bytes in at in appends them to the window. *)
LEMMA WindowPut ==
  ASSUME NEW sz \in Nat \ {0}, NEW b \in [0..(sz - 1) -> Byte],
         NEW i \in Nat, NEW o \in Nat, NEW u \in 0..sz,
         Index(i, sz) = After(o, u, sz),
         NEW data \in Seq(Byte), NEW n \in 0..Len(data), u + n <= sz
  PROVE  Window(CopyIn(b, sz, i, data, n), sz, o, u + n)
           = Window(b, sz, o, u) \o SubSeq(data, 1, n)
<1> DEFINE c == CopyIn(b, sz, i, data, n)
           f == Index(i, sz)
           g == Index(o, sz)
           t == HyUtilsMinMacro(n, sz - f)
           w == Window(b, sz, o, u)
           v == Window(c, sz, o, u + n)
           d == SubSeq(data, 1, n)
<1>1. /\ o \in Int /\ i \in Int
      /\ u \in Nat /\ n \in Nat /\ u + n \in Nat /\ n <= sz
  BY SMT
<1>2. c \in [0..(sz - 1) -> Byte]
  BY <1>1, CopyInType
<1>3. f \in 0..(sz - 1) /\ g \in 0..(sz - 1)
  BY <1>1, ModType DEF Index
<1>4. f = IF g + u < sz THEN g + u ELSE g + u - sz
  BY DEF After
<1>5. \A x \in 0..(sz - 1) :
        c[x] = IF f <= x /\ x < f + t THEN data[x - f + 1]
               ELSE IF x < n - t THEN data[t + x + 1]
               ELSE b[x]
  BY DEF CopyIn
<1>6. t = IF n < sz - f THEN n ELSE sz - f
  BY DEF HyUtilsMinMacro
<1>7. w \in Seq(Byte) /\ Len(w) = u /\ \A k \in 1..u : w[k] = b[Index(o + k - 1, sz)]
  <2>1. w \in Seq(Byte)
    BY <1>1, WindowType
  <2> QED BY <1>1, <2>1 DEF Window
<1> HIDE DEF c
<1>8. /\ v \in Seq(Byte) /\ Len(v) = u + n
      /\ \A k \in 1..(u + n) : v[k] = c[Index(o + k - 1, sz)]
  <2>1. v \in Seq(Byte)
    BY <1>1, <1>2, WindowType
  <2> QED BY <1>1, <2>1 DEF Window
<1>9. d \in Seq(Byte) /\ Len(d) = n /\ \A k \in 1..n : d[k] = data[k]
  BY FrontValue, Zenon
<1> HIDE DEF f, g, t, w, v, d
<1>10. /\ w \o d \in Seq(Byte) /\ Len(w \o d) = u + n
       /\ \A k \in 1..(u + n) : (w \o d)[k] = IF k <= u THEN w[k] ELSE d[k - u]
  <2>1. /\ w \o d \in Seq(Byte) /\ Len(w \o d) = Len(w) + Len(d)
        /\ \A k \in 1..(Len(w) + Len(d)) :
             (w \o d)[k] = IF k <= Len(w) THEN w[k] ELSE d[k - Len(w)]
    BY <1>7, <1>9, ConcatProperties, Zenon
  <2> QED BY <1>7, <1>9, <2>1
<1>11. ASSUME NEW k \in 1..(u + n) PROVE v[k] = (w \o d)[k]
  <2> DEFINE j == k - 1
             x == Index(o + j, sz)
  <2>1. j \in 0..sz /\ k = j + 1 /\ o + k - 1 = o + j
    BY <1>1
  <2> HIDE DEF j
  <2>2. x = IF g + j < sz THEN g + j ELSE g + j - sz
    BY <1>1, <2>1, IndexStep, Zenon DEF g
  <2>3. v[k] = c[x]
    BY <1>8, <2>1
  <2>4. k <= u => w[k] = b[x]
    BY <1>7, <2>1
  <2> HIDE DEF x
  <2>5. x \in 0..(sz - 1)
    BY <1>1, <1>3, <2>1, <2>2
  <2>6. c[x] = IF f <= x /\ x < f + t THEN data[x - f + 1]
               ELSE IF x < n - t THEN data[t + x + 1]
               ELSE b[x]
    BY <1>5, <2>5
  <2>7. /\ j < u => ~(f <= x /\ x < f + t) /\ ~(x < n - t)
        /\ u <= j /\ f <= x /\ x < f + t => x - f = j - u
        /\ u <= j /\ ~(f <= x /\ x < f + t) => x < n - t /\ t + x = j - u
    <3>1. /\ sz \in Int /\ f \in Int /\ g \in Int /\ u \in Int /\ n \in Int
          /\ t \in Int /\ j \in Int /\ x \in Int
          /\ 0 <= g /\ g < sz /\ 0 <= u /\ 0 <= n /\ u + n <= sz
          /\ 0 <= j /\ j < u + n
      BY <1>1, <1>3, <1>6, <2>1, <2>5
    <3> QED BY <3>1, <1>4, <1>6, <2>2, PutCells
  <2>8. CASE k <= u
    <3>1. j < u
      BY <1>1, <2>1, <2>8
    <3> QED BY <1>10, <2>3, <2>4, <2>6, <2>7, <2>8, <3>1
  <2>9. CASE ~(k <= u)
    <3>1. u <= j /\ k - u \in 1..n /\ k - u = j - u + 1
      BY <1>1, <2>1, <2>9
    <3>2. (w \o d)[k] = data[k - u]
      BY <1>9, <1>10, <2>9, <3>1
    <3>3. CASE f <= x /\ x < f + t
      <4>1. x - f + 1 = k - u
        BY <1>1, <2>1, <2>7, <3>1, <3>3
      <4> QED BY <2>3, <2>6, <3>2, <3>3, <4>1
    <3>4. CASE ~(f <= x /\ x < f + t)
      <4>1. x < n - t /\ t + x + 1 = k - u
        BY <1>1, <2>1, <2>7, <3>1, <3>4
      <4> QED BY <2>3, <2>6, <3>2, <3>4, <4>1
    <3> QED BY <3>3, <3>4
  <2> QED BY <2>8, <2>9
<1>12. v = w \o d
  BY <1>8, <1>10, <1>11, SeqEqual
<1> QED BY <1>12 DEF v, w, d, c

-----------------------------------------------------------------------------
(* The refinement mapping.                                                 *)

(* The queue read off the ring. *)
Q == Contents(buf, size, in, out)

(* It is as long as the ring is full. *)
LEMMA QueueType ==
  ASSUME Inv
  PROVE  Q \in Seq(Byte) /\ Len(Q) = Used(in, out)
<1> DEFINE u == Used(in, out)
<1>1. CASE handle
  <2>1. size \in Nat \ {0} /\ u \in Nat
    BY <1>1, LiveFacts
  <2>2. buf \in [0..(size - 1) -> Byte] /\ out \in Nat
    BY WidthAssumption DEF Inv, TypeOK
  <2> HIDE DEF u
  <2>3. Window(buf, size, out, u) \in Seq(Byte)
    BY <2>1, <2>2, WindowType
  <2>4. Len(Window(buf, size, out, u)) = u
    BY <2>1, <2>3 DEF Window
  <2> QED BY <2>3, <2>4 DEF Q, Contents, u
<1>2. CASE ~handle
  <2>1. u = 0
    BY <1>2, NullFacts
  <2>2. Q = <<>>
    BY <2>1 DEF Q, Contents, Window
  <2> QED BY <2>1, <2>2
<1> QED BY <1>1, <1>2

(* With equal counters the queue is empty. *)
LEMMA EmptyQueue ==
  ASSUME NEW b, NEW sz
  PROVE  Contents(b, sz, 0, 0) = <<>>
<1>1. SizeTMod \in Nat \ {0} /\ 0 \in 0..(SizeTMod - 1)
  BY WidthAssumption
<1>2. Used(0, 0) = 0
  BY <1>1, UsedValue
<1> QED BY <1>2 DEF Contents, Window

(* The length a Get, a Peek or an UpdateOut moves is the queue's. *)
LEMMA MovedIsQueue ==
  ASSUME Inv, NEW n \in Lens
  PROVE  /\ _get_data_com(n) = Queue!Moved(n % U32Mod)
         /\ n % U32Mod \in {k % U32Mod : k \in Lens}
         /\ _get_data_com(n) \in 0..Len(Q)
<1>1. Len(Q) = Used(in, out)
  BY QueueType
<1>2. n % U32Mod \in Nat /\ _get_data_com(n) \in 0..Used(in, out)
  <2>1. U32Mod \in Nat \ {0} /\ n \in Int
    BY WidthAssumption, CallAssumption
  <2>2. n % U32Mod \in 0..(U32Mod - 1)
    BY <2>1, ModType
  <2> QED BY <2>1, <2>2, GetLen
<1>3. ASSUME handle PROVE _get_data_com(n) = Queue!Moved(n % U32Mod)
  BY <1>1, <1>3 DEF _get_data_com, Queue!Moved, Q, HyUtilsMinMacro
<1>4. ASSUME ~handle PROVE _get_data_com(n) = Queue!Moved(n % U32Mod)
  <2>1. Used(in, out) = 0
    BY <1>4, NullFacts
  <2> QED BY <1>1, <1>2, <1>4, <2>1 DEF _get_data_com, Queue!Moved, Q
<1>5. n % U32Mod \in {k % U32Mod : k \in Lens}
  BY Zenon
<1>6. _get_data_com(n) \in 0..Len(Q)
  BY <1>1, <1>2
<1> QED BY <1>3, <1>4, <1>5, <1>6

(* What such a call takes off the front, and what is left. *)
LEMMA FrontAndRest ==
  ASSUME Inv, NEW n \in 0..Len(Q)
  PROVE  /\ CopyOut(buf, size, out, n) = SubSeq(Q, 1, n)
         /\ Contents(buf, size, in, (out + n) % SizeTMod) = SubSeq(Q, n + 1, Len(Q))
<1> DEFINE u == Used(in, out)
<1>1. Len(Q) = u /\ in \in 0..(SizeTMod - 1) /\ out \in 0..(SizeTMod - 1)
  BY QueueType DEF Inv, TypeOK
<1>2. n \in 0..u
  BY <1>1
<1>3. Used(in, (out + n) % SizeTMod) = u - n
  BY <1>1, <1>2, UsedGet
<1>4. CASE handle
  <2>1. /\ size \in Nat \ {0} /\ u \in 0..size
        /\ \E m \in Nat \ {0} : SizeTMod = m * size
    BY <1>4, LiveFacts
  <2>2. buf \in [0..(size - 1) -> Byte] /\ out \in Nat
    BY WidthAssumption DEF Inv, TypeOK
  <2>3. Q = Window(buf, size, out, u)
    BY DEF Q, Contents
  <2> HIDE DEF u
  <2>4. n \in 0..size /\ u \in Nat /\ u \in 0..size /\ size \in Nat \ {0}
    BY <1>2, <2>1
  <2>5. CopyOut(buf, size, out, n) = Window(buf, size, out, n)
    BY <2>1, <2>2, <2>4, CopyOutValue
  <2>6. Window(buf, size, out, n) = SubSeq(Q, 1, n)
    <3>1. Window(buf, size, out, n) = SubSeq(Window(buf, size, out, u), 1, n)
      BY <1>2, <2>2, <2>4, WindowFront, SMTT(30)
    <3> QED BY <2>3, <3>1
  <2>7. PICK m \in Nat \ {0} : SizeTMod = m * size
    BY <2>1
  <2>8. Window(buf, size, (out + n) % SizeTMod, u - n) = SubSeq(Q, n + 1, u)
    <3>1. \A o \in Nat : \A v \in 0..size : \A k \in 0..v :
            Window(buf, size, (o + k) % SizeTMod, v - k)
              = SubSeq(Window(buf, size, o, v), k + 1, v)
      BY <2>2, <2>4, <2>7, WindowDrop
    <3>2. Window(buf, size, (out + n) % SizeTMod, u - n)
            = SubSeq(Window(buf, size, out, u), n + 1, u)
      BY <1>2, <2>2, <2>4, <3>1, Zenon
    <3> QED BY <2>3, <3>2
  <2> QED BY <1>1, <1>3, <2>5, <2>6, <2>8 DEF Contents, u
<1>5. CASE ~handle
  <2>1. u = 0 /\ n = 0
    BY <1>2, <1>5, NullFacts
  <2>2. Q = <<>>
    BY <2>1 DEF Q, Contents, Window
  <2>3. SubSeq(Q, 1, 0) = <<>> /\ SubSeq(Q, 0 + 1, Len(Q)) = <<>>
    BY <2>2
  <2>4. CopyOut(buf, size, out, 0) = <<>>
    BY DEF CopyOut
  <2>5. Contents(buf, size, in, (out + n) % SizeTMod) = <<>>
    BY <1>3, <2>1 DEF Contents, Window
  <2> QED BY <2>1, <2>3, <2>4, <2>5
<1> QED BY <1>4, <1>5

(* What a Put appends. *)
LEMMA PutAppends ==
  ASSUME Inv, handle, NEW d \in Data, NEW n \in 0..Len(d),
         n \in 0..(size - Used(in, out))
  PROVE  Contents(CopyIn(buf, size, in, d, n), size, (in + n) % SizeTMod, out)
           = Q \o SubSeq(d, 1, n)
<1> DEFINE u == Used(in, out)
<1>1. /\ size \in Nat \ {0} /\ u \in 0..size /\ size < SizeTMod
      /\ \E m \in Nat \ {0} : SizeTMod = m * size
  BY LiveFacts
<1>2. /\ buf \in [0..(size - 1) -> Byte] /\ out \in Nat /\ in \in Nat
      /\ in \in 0..(SizeTMod - 1) /\ out \in 0..(SizeTMod - 1) /\ d \in Seq(Byte)
  BY WidthAssumption, CallAssumption DEF Inv, TypeOK
<1>3. PICK m \in Nat \ {0} : SizeTMod = m * size
  BY <1>1
<1>4. Index(in, size) = After(out, u, size)
  BY <1>1, <1>2, <1>3, InIndex
<1>5. n \in Nat /\ u + n < SizeTMod /\ u + n <= size
  BY <1>1, WidthAssumption
<1>6. Used((in + n) % SizeTMod, out) = u + n
  BY <1>2, <1>5, UsedPut
<1>7. Q = Window(buf, size, out, u)
  BY DEF Q, Contents
<1> HIDE DEF u
<1>8. Window(CopyIn(buf, size, in, d, n), size, out, u + n)
        = Window(buf, size, out, u) \o SubSeq(d, 1, n)
  <2>1. size \in Nat \ {0} /\ u \in 0..size
    BY <1>1
  <2>2. n \in 0..Len(d)
    OBVIOUS
  <2> QED BY <1>2, <1>4, <1>5, <2>1, <2>2, WindowPut
<1> QED BY <1>6, <1>7, <1>8 DEF Contents

-----------------------------------------------------------------------------
(* Every call is a call on the queue.                                      *)

(* Each disjunct of Next, read through the mapping. *)
LEMMA RefinementStep ==
  ASSUME Inv, [Next]_vars
  PROVE  [Queue!Next]_(Queue!vars)
<1> USE DEF Q
<1>q. Q \in Seq(Byte) /\ Len(Q) = Used(in, out)
  BY QueueType
<1>c. /\ (handle => size # 0)
      /\ (~handle => size = 0)
  BY LiveFacts, NullFacts
<1>1. ASSUME NEW r \in ReqSizes, HyFifoCreate(r) PROVE Queue!Next
  <2>1. Contents(buf', size', in', out') = <<>>
    BY <1>1, EmptyQueue DEF HyFifoCreate
  <2>2. FifoSize(r) \in Sizes
    BY DEF Sizes
  <2>3. Queue!Open(FifoSize(r))
    BY <1>1, <1>c, <2>1 DEF HyFifoCreate, Queue!Open, Queue!Closed, Result, Queue!Result
  <2> QED BY <2>2, <2>3 DEF Queue!Next
<1>2. ASSUME HyFifoCreateFails PROVE Queue!Next
  <2>1. Contents(buf', size', in', out') = <<>>
    BY <1>2, EmptyQueue DEF HyFifoCreateFails, NoContext
  <2>2. Queue!Clear
    BY <1>2, <1>c, <2>1 DEF HyFifoCreateFails, NoContext, Queue!Clear, Result, Queue!Result
  <2> QED BY <2>2 DEF Queue!Next
<1>3. ASSUME HyFifoDestroy PROVE Queue!Next
  <2>1. Contents(buf', size', in', out') = <<>>
    BY <1>3, EmptyQueue DEF HyFifoDestroy, NoContext
  <2>2. Queue!Close
    BY <1>3, <1>c, <2>1
       DEF HyFifoDestroy, NoContext, Queue!Close, Queue!Closed, Result, Queue!Result
  <2> QED BY <2>2 DEF Queue!Next
<1>4. ASSUME NEW d \in Data, HyFifoPut(d) PROVE Queue!Next
  <2> DEFINE n == HyUtilsMinMacro(Len(d), Free(size, in, out))
  <2>1. handle
    BY <1>4 DEF HyFifoPut
  <2>2. n \in 0..Len(d) /\ n \in 0..(size - Used(in, out))
    BY <2>1, PutLen
  <2>3. Free(size, in, out) = size - Used(in, out)
    BY <2>1, LiveFacts
  <2>4. n = Queue!Room(Len(d))
    BY <2>3, <1>q DEF Queue!Room, HyUtilsMinMacro
  <2>5. /\ buf' = CopyIn(buf, size, in, d, n)
        /\ in' = (in + n) % SizeTMod
        /\ ret' = Result(n, <<>>)
        /\ UNCHANGED <<size, out>>
    BY <1>4 DEF HyFifoPut
  <2> HIDE DEF n
  <2>6. Contents(buf', size', in', out') = Q \o SubSeq(d, 1, n)
    BY <2>1, <2>2, <2>5, PutAppends
  <2>7. Queue!Enqueue(d)
    BY <1>c, <2>1, <2>4, <2>5, <2>6
       DEF Queue!Enqueue, Queue!Closed, Result, Queue!Result
  <2> QED BY <2>7 DEF Queue!Next
<1>5. ASSUME NEW n \in Lens, HyFifoGet(n) PROVE Queue!Next
  <2> DEFINE l == _get_data_com(n)
             k == n % U32Mod
  <2>1. l = Queue!Moved(k) /\ k \in {x % U32Mod : x \in Lens} /\ l \in 0..Len(Q)
    BY MovedIsQueue
  <2>2. /\ out' = (out + l) % SizeTMod
        /\ ret' = Result(l, CopyOut(buf, size, out, l))
        /\ UNCHANGED <<buf, size, in>>
    BY <1>5 DEF HyFifoGet
  <2> HIDE DEF l, k
  <2>3. /\ CopyOut(buf, size, out, l) = SubSeq(Q, 1, l)
        /\ Contents(buf, size, in, (out + l) % SizeTMod) = SubSeq(Q, l + 1, Len(Q))
    BY <2>1, FrontAndRest
  <2>4. Queue!Dequeue(k)
    BY <2>1, <2>2, <2>3 DEF Queue!Dequeue, Result, Queue!Result
  <2> QED BY <2>1, <2>4 DEF Queue!Next
<1>6. ASSUME NEW n \in Lens, HyFifoPeek(n) PROVE Queue!Next
  <2> DEFINE l == _get_data_com(n)
             k == n % U32Mod
  <2>1. l = Queue!Moved(k) /\ k \in {x % U32Mod : x \in Lens} /\ l \in 0..Len(Q)
    BY MovedIsQueue
  <2>2. /\ ret' = Result(l, CopyOut(buf, size, out, l))
        /\ UNCHANGED <<buf, size, in, out>>
    BY <1>6 DEF HyFifoPeek
  <2> HIDE DEF l, k
  <2>3. CopyOut(buf, size, out, l) = SubSeq(Q, 1, l)
    BY <2>1, FrontAndRest
  <2>4. Queue!Peek(k)
    BY <2>1, <2>2, <2>3 DEF Queue!Peek, Result, Queue!Result
  <2> QED BY <2>1, <2>4 DEF Queue!Next
<1>7. ASSUME NEW n \in Lens, HyFifoUpdateOut(n) PROVE Queue!Next
  <2> DEFINE l == _get_data_com(n)
             k == n % U32Mod
  <2>1. l = Queue!Moved(k) /\ k \in {x % U32Mod : x \in Lens} /\ l \in 0..Len(Q)
    BY MovedIsQueue
  <2>2. /\ out' = (out + l) % SizeTMod
        /\ ret' = Result(l, <<>>)
        /\ UNCHANGED <<buf, size, in>>
    BY <1>7 DEF HyFifoUpdateOut
  <2> HIDE DEF l, k
  <2>3. Contents(buf, size, in, (out + l) % SizeTMod) = SubSeq(Q, l + 1, Len(Q))
    BY <2>1, FrontAndRest
  <2>4. Queue!Discard(k)
    BY <2>1, <2>2, <2>3 DEF Queue!Discard, Result, Queue!Result
  <2> QED BY <2>1, <2>4 DEF Queue!Next
<1>8. ASSUME NEW n \in Lens, HyFifoUpdateOutOverrun(n) PROVE UNCHANGED Queue!vars
  BY <1>8 DEF HyFifoUpdateOutOverrun, Queue!vars
<1>9. ASSUME HyFifoClean PROVE Queue!Next
  <2>1. Contents(buf', size', in', out') = <<>>
    BY <1>9, EmptyQueue DEF HyFifoClean
  <2>2. Queue!Clear
    BY <1>9, <2>1 DEF HyFifoClean, Queue!Clear, Result, Queue!Result
  <2> QED BY <2>2 DEF Queue!Next
<1>10. ASSUME UNCHANGED vars PROVE UNCHANGED Queue!vars
  BY <1>10 DEF vars, Queue!vars
<1> QED
  BY <1>1, <1>2, <1>3, <1>4, <1>5, <1>6, <1>7, <1>8, <1>9, <1>10 DEF Next

(***************************************************************************)
(* For every ring size and every client, the fifo of hy_fifo.c implements  *)
(* the bounded byte queue: the bytes a call returns, how many it moves and *)
(* what is left are the queue's, whatever the counters have wrapped to.    *)
(***************************************************************************)
THEOREM FifoImplementsQueue == Spec => QueueSpec
<1>1. Init => Queue!Init
  BY EmptyQueue DEF Init, Queue!Init, Result, Queue!Result
<1>2. Inv /\ [Next]_vars => [Queue!Next]_(Queue!vars)
  BY RefinementStep
<1> QED BY InvAlways, <1>1, <1>2, PTL DEF Spec, QueueSpec, Queue!Spec
=============================================================================
