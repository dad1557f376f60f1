----------------------------- MODULE SpscProofs -----------------------------
(***************************************************************************)
(* Two threads on the unlocked ring tear no byte and keep the order, for   *)
(* every ring size, counter width and request length.  The argument counts *)
(* bytes, not cells: the wrapped counters in and out are the numbers of    *)
(* bytes sent and got modulo size_t, so the k-th byte lives in cell        *)
(* (k - 1) % Size, and two bytes less than a ring length apart never share *)
(* a cell (OwnCell).                                                       *)
(***************************************************************************)
EXTENDS FifoSpsc, TLAPS

-----------------------------------------------------------------------------
(* Remainders, counters and copies: lemmas of FifoProofs, which this module *)
(* cannot extend, as the variables of Fifo are not those of FifoSpsc.      *)

(* A number below the modulus is its own remainder. *)
LEMMA ModSmall ==
  ASSUME NEW m \in Nat \ {0}, NEW x \in Int, 0 <= x, x < m
  PROVE  x % m = x
  BY SMT

(* size_t subtraction that underflows once. *)
LEMMA ModBelow ==
  ASSUME NEW m \in Nat \ {0}, NEW x \in Int, -m <= x, x < 0
  PROVE  x % m = x + m
  BY SMT

(* size_t addition that overflows once. *)
LEMMA ModAbove ==
  ASSUME NEW m \in Nat \ {0}, NEW x \in Int, m <= x, x < 2 * m
  PROVE  x % m = x - m
  BY SMT

(* A remainder is below its modulus. *)
LEMMA ModType ==
  ASSUME NEW m \in Nat \ {0}, NEW x \in Int
  PROVE  x % m \in 0..(m - 1)
  BY SMT

(* Division with remainder. *)
LEMMA ModSplit ==
  ASSUME NEW m \in Nat \ {0}, NEW x \in Int
  PROVE  \E q \in Int : x = m * q + (x % m)
<1>1. x \div m \in Int
  BY SMT
<1>2. x = m * (x \div m) + (x % m)
  BY SMT
<1> QED BY <1>1, <1>2

(* There is only one such division. *)
LEMMA ModUnique ==
  ASSUME NEW m \in Nat \ {0}, NEW q \in Int, NEW r \in 0..(m - 1)
  PROVE  (m * q + r) % m = r
  BY SMT

(* Adding inside or outside a remainder is the same. *)
LEMMA ModAdd ==
  ASSUME NEW m \in Nat \ {0}, NEW x \in Int, NEW y \in Int
  PROVE  ((x % m) + y) % m = (x + y) % m
<1> DEFINE r == x % m
           t == (r + y) % m
<1>1. PICK q \in Int : x = m * q + r
  BY ModSplit
<1>2. r \in 0..(m - 1)
  BY ModType
<1>x. r = x % m
  OBVIOUS
<1> HIDE DEF r
<1>3. r + y \in Int
  BY <1>2
<1>4. PICK d \in Int : r + y = m * d + t
  BY <1>3, ModSplit
<1>5. t \in 0..(m - 1)
  BY <1>3, ModType
<1>y. t = (r + y) % m
  OBVIOUS
<1> HIDE DEF t
<1>6. q + d \in Int /\ x + y = m * (q + d) + t
  <2>1. m * (q + d) = m * q + m * d
    BY SMT
  <2>2. m * q \in Int /\ m * d \in Int /\ m * (q + d) \in Int
    BY SMT
  <2> QED BY <1>1, <1>2, <1>4, <1>5, <2>1, <2>2
<1>7. (m * (q + d) + t) % m = t
  BY <1>5, <1>6, ModUnique
<1> QED BY <1>6, <1>7, <1>x, <1>y

(* Moving a ring index forward by at most one turn. *)
LEMMA IndexStep ==
  ASSUME NEW sz \in Nat \ {0}, NEW x \in Int, NEW j \in 0..sz
  PROVE  Index(x + j, sz) = IF Index(x, sz) + j < sz THEN Index(x, sz) + j
                                                     ELSE Index(x, sz) + j - sz
<1> DEFINE r == x % sz
<1>1. PICK q \in Int : x = sz * q + r
  BY ModSplit
<1>2. r \in 0..(sz - 1)
  BY ModType
<1>i. Index(x, sz) = r
  BY DEF Index
<1> HIDE DEF r
<1>3. CASE r + j < sz
  <2>1. x + j = sz * q + (r + j)
    BY <1>1, <1>2
  <2>2. r + j \in 0..(sz - 1)
    BY <1>2, <1>3
  <2> QED BY <2>1, <2>2, <1>i, <1>3, ModUnique DEF Index
<1>4. CASE ~(r + j < sz)
  <2>1. x + j = sz * (q + 1) + (r + j - sz)
    <3>1. sz * (q + 1) = sz * q + sz
      BY SMT
    <3> QED BY <1>1, <1>2, <3>1
  <2>2. r + j - sz \in 0..(sz - 1) /\ q + 1 \in Int
    BY <1>2, <1>4
  <2>3. (sz * (q + 1) + (r + j - sz)) % sz = r + j - sz
    BY <2>2, ModUnique
  <2> QED BY <2>1, <2>3, <1>i, <1>4 DEF Index
<1> QED BY <1>3, <1>4

(* The wrap of a size_t does not move a ring index. *)
LEMMA IndexWrap ==
  ASSUME NEW sz \in Nat \ {0}, NEW m \in Nat \ {0}, NEW x \in Int
  PROVE  Index(x % (m * sz), sz) = Index(x, sz)
<1> DEFINE M == m * sz
           y == x % M
<1>1. M \in Nat \ {0}
  BY SMT
<1> HIDE DEF M
<1>2. y \in 0..(M - 1) /\ y \in Int
  BY <1>1, ModType
<1>3. PICK q \in Int : x = M * q + y
  BY <1>1, ModSplit
<1> HIDE DEF y
<1>4. PICK d \in Int : y = sz * d + (y % sz)
  BY <1>2, ModSplit
<1>5. y % sz \in 0..(sz - 1)
  BY <1>2, ModType
<1>6. m * q + d \in Int
  BY <1>3, <1>4
<1>7. x = sz * (m * q + d) + (y % sz)
  <2>1. M * q = sz * (m * q)
    BY SMT DEF M
  <2>2. sz * (m * q + d) = sz * (m * q) + sz * d
    BY SMT
  <2> QED BY <1>3, <1>4, <1>5, <2>1, <2>2
<1>8. (sz * (m * q + d) + (y % sz)) % sz = y % sz
  BY <1>5, <1>6, ModUnique
<1> QED BY <1>7, <1>8 DEF Index, y, M

(* in - out, as the distance on the circle of size_t values. *)
LEMMA UsedValue ==
  ASSUME NEW i \in 0..(SizeTMod - 1), NEW o \in 0..(SizeTMod - 1)
  PROVE  Used(i, o) = IF o <= i THEN i - o ELSE i - o + SizeTMod
<1>1. SizeTMod \in Nat \ {0}
  BY WidthAssumption
<1>2. CASE o <= i
  BY <1>1, <1>2, ModSmall DEF Used
<1>3. CASE i < o
  BY <1>1, <1>3, ModBelow DEF Used
<1> QED BY <1>1, <1>2, <1>3

(* size - in + out is the room left, and does not underflow. *)
LEMMA FreeValue ==
  ASSUME NEW i \in 0..(SizeTMod - 1), NEW o \in 0..(SizeTMod - 1),
         NEW sz \in 0..(SizeTMod - 1), Used(i, o) <= sz
  PROVE  Free(sz, i, o) = sz - Used(i, o)
<1>1. SizeTMod \in Nat \ {0}
  BY WidthAssumption
<1>2. CASE o <= i
  <2>1. Used(i, o) = i - o
    BY <1>2, UsedValue
  <2> QED BY <1>1, <1>2, <2>1, ModSmall DEF Free
<1>3. CASE i < o
  <2>1. Used(i, o) = i - o + SizeTMod
    BY <1>1, <1>3, UsedValue
  <2> DEFINE x == sz - i + o
  <2>2. x \in Int /\ SizeTMod <= x /\ x < 2 * SizeTMod
    BY <1>1, <1>3, <2>1
  <2> HIDE DEF x
  <2>3. x % SizeTMod = x - SizeTMod
    BY <1>1, <2>2, ModAbove
  <2> QED BY <1>1, <2>1, <2>3 DEF Free, x
<1> QED BY <1>1, <1>2, <1>3

(* The two memcpy of HyFifoPut stay inside the ring and inside the data. *)
LEMMA CopyInType ==
  ASSUME NEW sz \in Nat \ {0}, NEW b \in [0..(sz - 1) -> Byte], NEW i \in Nat,
         NEW data \in Seq(Byte), NEW n \in 0..Len(data), n <= sz
  PROVE  CopyIn(b, sz, i, data, n) \in [0..(sz - 1) -> Byte]
<1> DEFINE first == Index(i, sz)
           len_tmp == HyUtilsMinMacro(n, sz - first)
           cell(k) == IF first <= k /\ k < first + len_tmp
                      THEN data[k - first + 1]
                      ELSE IF k < n - len_tmp THEN data[len_tmp + k + 1]
                      ELSE b[k]
<1>1. first \in 0..(sz - 1)
  BY ModType DEF Index
<1> HIDE DEF first
<1>2. len_tmp \in 0..n
  BY <1>1 DEF HyUtilsMinMacro
<1> HIDE DEF len_tmp
<1>3. ASSUME NEW k \in 0..(sz - 1) PROVE cell(k) \in Byte
  <2>1. CASE first <= k /\ k < first + len_tmp
    <3>1. k - first + 1 \in 1..Len(data)
      BY <2>1, <1>1, <1>2
    <3> QED BY <3>1, <2>1
  <2>2. CASE ~(first <= k /\ k < first + len_tmp) /\ k < n - len_tmp
    <3>1. len_tmp + k + 1 \in 1..Len(data)
      BY <2>2, <1>2
    <3> QED BY <3>1, <2>2
  <2>3. CASE ~(first <= k /\ k < first + len_tmp) /\ ~(k < n - len_tmp)
    BY <2>3
  <2> QED BY <2>1, <2>2, <2>3
<1>4. CopyIn(b, sz, i, data, n) = [k \in 0..(sz - 1) |-> cell(k)]
  BY DEF CopyIn, first, len_tmp
<1> HIDE DEF cell
<1> QED BY <1>3, <1>4

(* What _get_data_com hands out is the front of the contents, in order. *)
LEMMA CopyOutValue ==
  ASSUME NEW sz \in Nat \ {0}, NEW b, NEW o \in Nat, NEW n \in 0..sz
  PROVE  CopyOut(b, sz, o, n) = Window(b, sz, o, n)
<1> DEFINE first == Index(o, sz)
           len_tmp == HyUtilsMinMacro(n, sz - first)
           cell(k) == IF k <= len_tmp THEN b[first + k - 1]
                                      ELSE b[k - len_tmp - 1]
<1>1. first \in 0..(sz - 1)
  BY ModType DEF Index
<1>2. ASSUME NEW k \in 1..n PROVE cell(k) = b[Index(o + k - 1, sz)]
  <2> DEFINE j == k - 1
  <2>1. j \in 0..sz /\ k = j + 1 /\ o + k - 1 = o + j
    BY SMT
  <2> HIDE DEF j
  <2>2. Index(o + j, sz) = IF first + j < sz THEN first + j
                                             ELSE first + j - sz
    <3>1. o \in Int
      BY SMT
    <3> QED BY <2>1, <3>1, IndexStep, Zenon
  <2> HIDE DEF first
  <2>3. CASE first + j < sz
    <3>1. k <= len_tmp /\ first + k - 1 = first + j
      BY <1>1, <2>1, <2>3 DEF HyUtilsMinMacro
    <3> QED BY <2>1, <2>2, <2>3, <3>1
  <2>4. CASE ~(first + j < sz)
    <3>1. ~(k <= len_tmp) /\ k - len_tmp - 1 = first + j - sz
      BY <1>1, <2>1, <2>4 DEF HyUtilsMinMacro
    <3> QED BY <2>1, <2>2, <2>4, <3>1
  <2> QED BY <2>3, <2>4
<1>3. CopyOut(b, sz, o, n) = [k \in 1..n |-> cell(k)]
  BY DEF CopyOut
<1> HIDE DEF cell
<1> QED BY <1>2, <1>3 DEF Window

(* Those bytes are bytes. *)
LEMMA WindowType ==
  ASSUME NEW sz \in Nat \ {0}, NEW b \in [0..(sz - 1) -> Byte],
         NEW o \in Nat, NEW n \in Nat
  PROVE  Window(b, sz, o, n) \in Seq(Byte)
<1>1. ASSUME NEW k \in 1..n PROVE b[Index(o + k - 1, sz)] \in Byte
  <2>1. o + k - 1 \in Int
    BY SMT
  <2>2. Index(o + k - 1, sz) \in 0..(sz - 1)
    BY <2>1, ModType DEF Index
  <2> QED BY <2>2
<1> QED BY <1>1 DEF Window

-----------------------------------------------------------------------------
(* The inductive invariant.                                                *)

(* A byte that may stand where byte k belongs. *)
Right(v, k) == v = k \/ (reload /\ v = Beyond)

(* The cell of byte k. *)
Cell(k) == Index(k - 1, Size)

(* What the running put has claimed, and how much of it is written. *)
Claimed == IF p.pc \in {"copy", "copy2", "in"} THEN p.len ELSE 0
Written == CASE p.pc = "copy2" -> UpToEnd(in, p.len)
             [] p.pc = "in"    -> p.len
             [] OTHER          -> 0

(* The counters are the byte numbers, wrapped, within a ring length. *)
Counters ==
  /\ in = sent % SizeTMod
  /\ out = got % SizeTMod
  /\ got <= sent
  /\ sent - got + Claimed <= Size
  /\ c.pc \in {"copy", "copy2", "out"} => c.len <= sent - got

(* Only a build that reads the counter again moves more than was asked. *)
Asked ==
  /\ p.pc = "reload" => reload
  /\ c.pc = "reload" => reload
  /\ p.pc \in {"copy", "copy2", "in"} /\ ~reload => p.len <= p.req
  /\ c.pc = "copy" /\ ~reload => c.len <= c.req
  /\ p.pc \in {"min", "reload", "copy", "copy2", "in"} => sent + p.req <= Total

(* Every byte not yet released, and every one the put has written, is in   *)
(* its cell.                                                               *)
Filled ==
  \A k \in (got + 1)..(sent + Written) : Right(buf[Cell(k)], k)

(* What the running get has copied are the next bytes. *)
Taken ==
  /\ c.pc = "copy2" => Len(c.data) = UpToEnd(out, c.len)
  /\ c.pc = "out" => Len(c.data) = c.len
  /\ c.pc \in {"copy2", "out"} =>
       \A k \in 1..Len(c.data) : Right(c.data[k], got + k)

IInv == TypeOK /\ Counters /\ Asked /\ Filled /\ Taken

-----------------------------------------------------------------------------
(* Constants, counters and cells.                                          *)

(* A ring length is positive and divides the range of size_t. *)
LEMMA SizeFacts ==
  /\ Size \in Nat \ {0} /\ Size < U32Mod /\ Size < SizeTMod
  /\ SizeTMod \in Nat \ {0} /\ U32Mod \in Nat \ {0}
  /\ \E m \in Nat \ {0} : SizeTMod = m * Size
<1>1. SizeTMod \in Nat \ {0} /\ U32Mod \in Nat \ {0} /\ U32Mod <= SizeTMod
  BY WidthAssumption
<1>2. Size \in Nat \ {0} /\ Size < U32Mod /\ Size < SizeTMod
  BY <1>1, SpscAssumption
<1>3. PICK m \in 1..SizeTMod : SizeTMod = m * Size
  BY SpscAssumption
<1>4. m \in Nat \ {0}
  BY <1>1
<1> QED BY <1>1, <1>2, <1>3, <1>4

(* Two bytes less than a ring length apart never share a cell. *)
LEMMA OwnCell ==
  ASSUME NEW x \in Int, NEW y \in Int, x < y, y < x + Size
  PROVE  Index(x, Size) # Index(y, Size)
<1> DEFINE j == y - x
<1>1. Size \in Nat \ {0} /\ x \in Int
  BY SizeFacts
<1>2. j \in 0..Size /\ j > 0 /\ j < Size /\ y = x + j
  BY <1>1
<1> HIDE DEF j
<1>3. Index(x + j, Size) = IF Index(x, Size) + j < Size THEN Index(x, Size) + j
                           ELSE Index(x, Size) + j - Size
  BY <1>1, <1>2, IndexStep, Zenon
<1>4. Index(x, Size) \in 0..(Size - 1)
  BY <1>1, ModType DEF Index
<1> QED BY <1>1, <1>2, <1>3, <1>4

(* The wrap of a counter does not move it in the ring. *)
LEMMA WrappedIndex ==
  ASSUME NEW s \in Nat, NEW j \in 0..Size
  PROVE  Index((s % SizeTMod) + j, Size) = Index(s + j, Size)
<1> DEFINE i == s % SizeTMod
<1>1. Size \in Nat \ {0} /\ SizeTMod \in Nat \ {0} /\ s \in Int
  BY SizeFacts
<1>2. PICK m \in Nat \ {0} : SizeTMod = m * Size
  BY SizeFacts
<1>3. Index(i, Size) = Index(s, Size)
  BY <1>1, <1>2, IndexWrap
<1>4. i \in Int
  BY <1>1, ModType
<1> HIDE DEF i
<1>5. Index(i + j, Size) = IF Index(i, Size) + j < Size THEN Index(i, Size) + j
                           ELSE Index(i, Size) + j - Size
  BY <1>1, <1>4, IndexStep, Zenon
<1>6. Index(s + j, Size) = IF Index(s, Size) + j < Size THEN Index(s, Size) + j
                           ELSE Index(s, Size) + j - Size
  BY <1>1, IndexStep, Zenon
<1>7. Index(i + j, Size) = Index(s + j, Size)
  BY <1>3, <1>5, <1>6
<1> QED BY <1>7 DEF i

(* in - out counts the bytes in the ring although both counters wrap. *)
LEMMA UsedCount ==
  ASSUME NEW s \in Nat, NEW g \in Nat, g <= s, s - g <= Size
  PROVE  Used(s % SizeTMod, g % SizeTMod) = s - g
<1> DEFINE M == SizeTMod
<1>1. M \in Nat \ {0} /\ Size < M /\ Size \in Nat /\ s \in Int /\ g \in Int
  BY SizeFacts
<1> HIDE DEF M
<1>2. PICK q \in Int : s = M * q + (s % M)
  BY <1>1, ModSplit
<1>3. PICK h \in Int : g = M * h + (g % M)
  BY <1>1, ModSplit
<1> DEFINE a == s % M
           b == g % M
<1>4. a \in 0..(M - 1) /\ b \in 0..(M - 1)
  BY <1>1, ModType
<1>5. s = M * q + a /\ g = M * h + b
  BY <1>2, <1>3
<1> HIDE DEF a, b
<1>6. M * (h - q) = M * h - M * q
  BY <1>1
<1>7. a - b = M * (h - q) + (s - g)
  BY <1>1, <1>4, <1>5, <1>6
<1>8. s - g \in 0..(M - 1) /\ h - q \in Int
  BY <1>1
<1>9. (M * (h - q) + (s - g)) % M = s - g
  BY <1>1, <1>8, ModUnique
<1>10. (a - b) % M = s - g
  BY <1>7, <1>9
<1> QED BY <1>10 DEF Used, a, b, M

(* What both threads compute from the two counters, at any moment. *)
LEMMA CounterFacts ==
  ASSUME TypeOK, Counters
  PROVE  /\ sent \in Nat /\ got \in Nat /\ got <= sent /\ in \in Nat /\ out \in Nat
         /\ sent - got \in 0..Size
         /\ Used(in, out) = sent - got
         /\ Used(in, out) % U32Mod = sent - got
         /\ Free(Size, in, out) = Size - (sent - got)
<1>1. /\ Size \in Nat \ {0} /\ Size < U32Mod /\ Size < SizeTMod
      /\ SizeTMod \in Nat \ {0} /\ U32Mod \in Nat \ {0}
  BY SizeFacts
<1>2. /\ sent \in Nat /\ got \in Nat /\ got <= sent /\ Claimed \in Nat
      /\ sent - got + Claimed <= Size
  BY <1>1 DEF TypeOK, Counters, Claimed
<1>3. sent - got \in 0..Size
  BY <1>1, <1>2
<1>4. Used(in, out) = sent - got
  <2>1. in = sent % SizeTMod /\ out = got % SizeTMod
    BY DEF Counters
  <2>2. sent - got <= Size
    BY <1>1, <1>3
  <2>3. Used(sent % SizeTMod, got % SizeTMod) = sent - got
    BY <1>2, <2>2, UsedCount
  <2> QED BY <2>1, <2>3
<1>5. (sent - got) % U32Mod = sent - got
  BY <1>1, <1>3, ModSmall
<1>6. Free(Size, in, out) = Size - Used(in, out)
  <2>1. in \in 0..(SizeTMod - 1) /\ out \in 0..(SizeTMod - 1)
    BY DEF TypeOK
  <2>2. Size \in 0..(SizeTMod - 1) /\ Used(in, out) <= Size
    BY <1>1, <1>3, <1>4
  <2> QED BY <2>1, <2>2, FreeValue
<1>7. in \in Nat /\ out \in Nat
  BY <1>1 DEF TypeOK
<1> QED BY <1>2, <1>3, <1>4, <1>5, <1>6, <1>7

(* The first copy of a call ends at the end of the ring. *)
LEMMA UpToEndType ==
  ASSUME NEW x \in Nat, NEW n \in Nat
  PROVE  /\ UpToEnd(x, n) \in 0..n
         /\ UpToEnd(x, n) = n \/ Index(x, Size) + UpToEnd(x, n) = Size
<1>1. Size \in Nat \ {0} /\ x \in Int
  BY SizeFacts
<1>2. Index(x, Size) \in 0..(Size - 1)
  BY <1>1, ModType DEF Index
<1> QED BY <1>1, <1>2 DEF UpToEnd, HyUtilsMinMacro

-----------------------------------------------------------------------------
(* The copies.                                                             *)

(***************************************************************************)
(* HyFifoPut's copy, by byte positions: started where position s lives, it *)
(* leaves the cells of the positions before s alone, up to a ring length   *)
(* behind its end, and puts the data at the positions from s on.           *)
(***************************************************************************)
LEMMA CopyBytes ==
  ASSUME NEW i \in Nat, NEW s \in Nat, Index(i, Size) = Index(s, Size),
         NEW data, NEW n \in 0..Size, NEW k \in (s + n - Size)..(s + n - 1)
  PROVE  CopyIn(buf, Size, i, data, n)[Index(k, Size)]
           = IF k < s THEN buf[Index(k, Size)] ELSE data[k - s + 1]
<1> DEFINE b == CopyIn(buf, Size, i, data, n)
           f == Index(i, Size)
           t == HyUtilsMinMacro(n, Size - f)
           x == Index(k, Size)
<1>1. Size \in Nat \ {0} /\ s \in Int /\ k \in Int /\ i \in Int
  BY SizeFacts
<1>2. f \in 0..(Size - 1) /\ x \in 0..(Size - 1)
  BY <1>1, ModType DEF Index
<1>3. \A y \in 0..(Size - 1) :
        b[y] = IF f <= y /\ y < f + t THEN data[y - f + 1]
               ELSE IF y < n - t THEN data[t + y + 1]
               ELSE buf[y]
  BY DEF CopyIn
<1>4. b[x] = IF f <= x /\ x < f + t THEN data[x - f + 1]
             ELSE IF x < n - t THEN data[t + x + 1]
             ELSE buf[x]
  BY <1>2, <1>3
<1>5. t = IF n < Size - f THEN n ELSE Size - f
  BY DEF HyUtilsMinMacro
<1>6. f = Index(s, Size)
  OBVIOUS
<1> HIDE DEF b, f, t, x
<1>7. CASE s <= k
  <2> DEFINE j == k - s
  <2>1. j \in 0..Size /\ s + j = k /\ j < n
    BY <1>1, <1>7
  <2> HIDE DEF j
  <2>2. Index(s + j, Size) = IF Index(s, Size) + j < Size THEN Index(s, Size) + j
                             ELSE Index(s, Size) + j - Size
    BY <1>1, <2>1, IndexStep, Zenon
  <2>3. x = IF f + j < Size THEN f + j ELSE f + j - Size
    BY <2>1, <2>2, <1>6 DEF x
  <2>4. CASE f + j < Size
    <3>1. f <= x /\ x < f + t /\ x - f + 1 = j + 1
      BY <1>1, <1>2, <1>5, <2>1, <2>3, <2>4
    <3> QED BY <1>1, <1>4, <1>7, <3>1 DEF j, b, x
  <2>5. CASE ~(f + j < Size)
    <3>1. ~(f <= x) /\ x < n - t /\ t + x + 1 = j + 1
      BY <1>1, <1>2, <1>5, <2>1, <2>3, <2>5
    <3> QED BY <1>1, <1>4, <1>7, <3>1 DEF j, b, x
  <2> QED BY <2>4, <2>5
<1>8. CASE k < s
  <2> DEFINE j == s - k
  <2>1. j \in 0..Size /\ k + j = s /\ 0 < j /\ j <= Size - n
    BY <1>1, <1>8
  <2> HIDE DEF j
  <2>2. Index(k + j, Size) = IF Index(k, Size) + j < Size THEN Index(k, Size) + j
                             ELSE Index(k, Size) + j - Size
    BY <1>1, <2>1, IndexStep, Zenon
  <2>3. f = IF x + j < Size THEN x + j ELSE x + j - Size
    BY <2>1, <2>2, <1>6 DEF x
  <2>4. ~(f <= x /\ x < f + t) /\ ~(x < n - t)
    BY <1>1, <1>2, <1>5, <2>1, <2>3
  <2> QED BY <1>4, <1>8, <2>4 DEF b, x
<1> QED BY <1>1, <1>7, <1>8

(* A piece of what the producer offers, as the bytes that follow sent. *)
LEMMA OfferedPiece ==
  ASSUME TypeOK, Asked, p.pc \in {"copy", "copy2"},
         NEW a \in Nat, NEW e \in a..p.len
  PROVE  /\ SubSeq(Offered, a + 1, e) \in Seq(Byte)
         /\ Len(SubSeq(Offered, a + 1, e)) = e - a
         /\ \A j \in 1..(e - a) :
              Right(SubSeq(Offered, a + 1, e)[j], sent + a + j)
<1>1. /\ sent \in Nat /\ p.len \in Nat /\ p.req \in Nat /\ Total \in Nat
      /\ sent + p.req <= Total /\ reload \in BOOLEAN
      /\ ~reload => p.len <= p.req
  BY SpscAssumption, WidthAssumption DEF TypeOK, Asked
<1>2. 1..(Total + Size) \subseteq Byte /\ Beyond \in Byte /\ Size \in Nat
  BY SpscAssumption, SizeFacts
<1>3. ASSUME NEW k \in 1..p.len
      PROVE  (IF k <= p.req THEN sent + k ELSE Beyond) \in Byte
  <2>1. CASE k <= p.req
    <3>1. sent + k \in 1..(Total + Size)
      BY <1>1, <1>2, <2>1
    <3> QED BY <1>2, <2>1, <3>1
  <2>2. CASE ~(k <= p.req)
    BY <1>2, <2>2
  <2> QED BY <2>1, <2>2
<1>4. Offered \in Seq(Byte)
  BY <1>1, <1>3 DEF Offered
<1>5. Len(Offered) = p.len
  BY <1>1 DEF Offered
<1>6. \A k \in 1..p.len : Offered[k] = IF k <= p.req THEN sent + k ELSE Beyond
  BY DEF Offered
<1> DEFINE O == Offered
           d == SubSeq(O, a + 1, e)
<1> HIDE DEF O
<1>7. O \in Seq(Byte) /\ Len(O) = p.len
  BY <1>4, <1>5 DEF O
<1>8. \A k \in (a + 1)..e : O[k] \in Byte
  BY <1>1, <1>7
<1>9. /\ d \in Seq(Byte) /\ Len(d) = e - a
      /\ \A j \in 1..(e - a) : d[j] = O[a + j]
  BY <1>1, <1>7, <1>8
<1> HIDE DEF d
<1>10. ASSUME NEW j \in 1..(e - a) PROVE Right(d[j], sent + a + j)
  <2>1. a + j \in 1..p.len
    BY <1>1
  <2>2. d[j] = IF a + j <= p.req THEN sent + (a + j) ELSE Beyond
    BY <1>6, <1>9, <2>1 DEF O
  <2>3. CASE a + j <= p.req
    <3>1. sent + (a + j) = sent + a + j
      BY <1>1
    <3> QED BY <2>2, <2>3, <3>1 DEF Right
  <2>4. CASE ~(a + j <= p.req)
    <3>1. reload
      BY <1>1, <2>1, <2>4
    <3> QED BY <2>2, <2>4, <3>1 DEF Right
  <2> QED BY <2>3, <2>4
<1> QED BY <1>9, <1>10 DEF d, O

(***************************************************************************)
(* One piece of a put: w bytes behind sent are already in their cells, the *)
(* copy adds n more and disturbs none of those.                            *)
(***************************************************************************)
LEMMA PiecePut ==
  ASSUME TypeOK, Counters, NEW w \in Nat, NEW d \in Seq(Byte), NEW n \in Nat,
         Len(d) = n, sent - got + w + n <= Size,
         \A k \in (got + 1)..(sent + w) : Right(buf[Cell(k)], k),
         \A j \in 1..n : Right(d[j], sent + w + j)
  PROVE  /\ CopyIn(buf, Size, in + w, d, n) \in [0..(Size - 1) -> Byte]
         /\ \A k \in (got + 1)..(sent + w + n) :
              Right(CopyIn(buf, Size, in + w, d, n)[Cell(k)], k)
<1> DEFINE b == CopyIn(buf, Size, in + w, d, n)
           s == sent + w
<1>1. /\ Size \in Nat \ {0} /\ sent \in Nat /\ got \in Nat /\ in + w \in Nat
      /\ got <= sent /\ n \in 0..Len(d) /\ n <= Size /\ n \in 0..Size /\ w \in 0..Size
      /\ s \in Nat
  <2>1. Size \in Nat \ {0} /\ sent \in Nat /\ got \in Nat /\ got <= sent /\ in \in Nat
    BY SizeFacts, CounterFacts, Zenon
  <2> QED BY <2>1
<1>2. b \in [0..(Size - 1) -> Byte]
  BY <1>1, CopyInType DEF TypeOK
<1>3. Index(in + w, Size) = Index(s, Size)
  BY <1>1, WrappedIndex DEF Counters
<1>4. ASSUME NEW k \in (got + 1)..(s + n) PROVE Right(b[Cell(k)], k)
  <2> DEFINE y == k - 1
  <2>1. y \in (s + n - Size)..(s + n - 1)
    BY <1>1
  <2>2. b[Index(y, Size)] = IF y < s THEN buf[Index(y, Size)] ELSE d[y - s + 1]
    BY <1>1, <1>3, <2>1, CopyBytes
  <2>3. CASE y < s
    <3>1. k \in (got + 1)..(sent + w)
      BY <1>1, <2>3
    <3> QED BY <2>2, <2>3, <3>1 DEF Cell
  <2>4. CASE ~(y < s)
    <3>1. y - s + 1 \in 1..n /\ sent + w + (y - s + 1) = k
      BY <1>1, <2>4
    <3>2. Right(d[y - s + 1], k)
      BY <3>1
    <3> QED BY <2>2, <2>4, <3>2 DEF Cell
  <2> QED BY <2>3, <2>4
<1> QED BY <1>2, <1>4

(* One piece of a get: the copied cells are those of the bytes after got + w. *)
LEMMA PieceGet ==
  ASSUME TypeOK, Counters, NEW w \in Nat, NEW n \in Nat, got + w + n <= sent,
         \A k \in (got + 1)..sent : Right(buf[Cell(k)], k)
  PROVE  /\ CopyOut(buf, Size, out + w, n) \in Seq(Byte)
         /\ Len(CopyOut(buf, Size, out + w, n)) = n
         /\ \A j \in 1..n :
              Right(CopyOut(buf, Size, out + w, n)[j], got + w + j)
<1>1. /\ Size \in Nat \ {0} /\ sent \in Nat /\ got \in Nat /\ out + w \in Nat
      /\ sent - got <= Size /\ n \in 0..Size
  <2>1. /\ Size \in Nat \ {0} /\ sent \in Nat /\ got \in Nat /\ out \in Nat
        /\ sent - got \in 0..Size
    BY SizeFacts, CounterFacts, Zenon
  <2> QED BY <2>1
<1>2. CopyOut(buf, Size, out + w, n) = Window(buf, Size, out + w, n)
  BY <1>1, CopyOutValue
<1>3. Window(buf, Size, out + w, n) \in Seq(Byte)
  BY <1>1, WindowType DEF TypeOK
<1>4. Len(Window(buf, Size, out + w, n)) = n
  BY DEF Window
<1>5. ASSUME NEW j \in 1..n
      PROVE  Right(Window(buf, Size, out + w, n)[j], got + w + j)
  <2> DEFINE k == got + w + j
             y == w + j - 1
  <2>1. /\ k \in (got + 1)..sent /\ y \in 0..Size /\ k - 1 = got + y
        /\ out + w + j - 1 = out + y
    BY <1>1 DEF TypeOK
  <2>2. Index(out + y, Size) = Cell(k)
    BY <1>1, <2>1, WrappedIndex DEF Counters, Cell
  <2>3. Window(buf, Size, out + w, n)[j] = buf[Cell(k)]
    BY <2>1, <2>2 DEF Window
  <2>4. Right(buf[Cell(k)], k)
    BY <2>1
  <2> QED BY <2>3, <2>4
<1> QED BY <1>2, <1>3, <1>4, <1>5

-----------------------------------------------------------------------------
(* The steps of HyFifoPut.                                                 *)

(* Before the first copy nothing is written, and there is room. *)
LEMMA PutMinStep ==
  ASSUME IInv, PutMin
  PROVE  IInv'
<1>1. /\ sent \in Nat /\ got \in Nat /\ got <= sent /\ sent - got \in 0..Size
      /\ Free(Size, in, out) = Size - (sent - got)
      /\ Size \in Nat \ {0} /\ Size < SizeTMod /\ SizeTMod \in Nat
  BY CounterFacts, SizeFacts, Zenon DEF IInv
<1>2. /\ p \in [pc : PutPc, req : 0..(U32Mod - 1), len : 0..(SizeTMod - 1),
               cnt : 0..(SizeTMod - 1)]
      /\ p.pc = "min" /\ reload \in BOOLEAN /\ U32Mod \in Nat
  BY SizeFacts DEF IInv, TypeOK, PutMin
<1> DEFINE free == Free(Size, in, out)
           n == HyUtilsMinMacro(p.req, free)
<1>3. free \in 0..Size /\ sent - got + free <= Size
  BY <1>1
<1>4. n \in 0..Size /\ n <= free /\ n <= p.req
  BY <1>1, <1>2, <1>3 DEF HyUtilsMinMacro
<1>5. p' = IF reload /\ ~(p.req < free) THEN [p EXCEPT !.pc = "reload"]
           ELSE [p EXCEPT !.pc = "copy", !.len = n]
  BY DEF PutMin
<1>6. UNCHANGED <<reload, buf, in, out, use_cnt, c, sent, got>>
  BY DEF PutMin
<1> HIDE DEF free, n
<1>7. CASE reload /\ ~(p.req < free)
  <2>1. p' = [p EXCEPT !.pc = "reload"]
    BY <1>5, <1>7
  <2>2. p'.pc = "reload" /\ p'.req = p.req /\ p'.len = p.len
    BY <1>2, <2>1
  <2>3. TypeOK'
    BY <1>2, <1>6, <2>1 DEF IInv, TypeOK, PutPc
  <2>4. Counters'
    BY <1>2, <1>6, <2>2 DEF IInv, Counters, Claimed
  <2>5. Asked'
    BY <1>2, <1>6, <1>7, <2>2 DEF IInv, Asked
  <2>6. Filled'
    BY <1>2, <1>6, <2>2 DEF IInv, Filled, Written, Cell, Right
  <2>7. Taken'
    BY <1>6 DEF IInv, Taken, Right, UpToEnd
  <2> QED BY <2>3, <2>4, <2>5, <2>6, <2>7 DEF IInv
<1>8. CASE ~(reload /\ ~(p.req < free))
  <2>1. p' = [p EXCEPT !.pc = "copy", !.len = n]
    BY <1>5, <1>8
  <2>2. p'.pc = "copy" /\ p'.req = p.req /\ p'.len = n
    BY <1>2, <2>1
  <2>3. TypeOK'
    <3>1. n \in 0..(SizeTMod - 1)
      BY <1>1, <1>4
    <3> QED BY <1>2, <1>6, <2>1, <3>1 DEF IInv, TypeOK, PutPc
  <2>4. Counters'
    <3>1. sent - got + n <= Size
      BY <1>1, <1>3, <1>4
    <3> QED BY <1>2, <1>6, <2>2, <3>1 DEF IInv, Counters, Claimed
  <2>5. Asked'
    BY <1>2, <1>4, <1>6, <2>2 DEF IInv, Asked
  <2>6. Filled'
    BY <1>2, <1>6, <2>2 DEF IInv, Filled, Written, Cell, Right
  <2>7. Taken'
    BY <1>6 DEF IInv, Taken, Right, UpToEnd
  <2> QED BY <2>3, <2>4, <2>5, <2>6, <2>7 DEF IInv
<1> QED BY <1>7, <1>8

(* Reading the counters again gives the whole room. *)
LEMMA PutReloadStep ==
  ASSUME IInv, PutReload
  PROVE  IInv'
<1> DEFINE n == Free(Size, in, out)
<1>1. /\ sent \in Nat /\ got \in Nat /\ got <= sent /\ sent - got \in 0..Size
      /\ n = Size - (sent - got) /\ Size \in Nat \ {0} /\ Size < SizeTMod
      /\ SizeTMod \in Nat
  BY CounterFacts, SizeFacts, Zenon DEF IInv
<1>2. /\ p \in [pc : PutPc, req : 0..(U32Mod - 1), len : 0..(SizeTMod - 1),
               cnt : 0..(SizeTMod - 1)]
      /\ p.pc = "reload" /\ reload
  BY DEF IInv, TypeOK, PutReload, Asked
<1>3. p' = [p EXCEPT !.pc = "copy", !.len = n]
  BY DEF PutReload
<1>4. UNCHANGED <<reload, buf, in, out, use_cnt, c, sent, got>>
  BY DEF PutReload
<1> HIDE DEF n
<1>5. p'.pc = "copy" /\ p'.req = p.req /\ p'.len = n
  BY <1>2, <1>3
<1>6. TypeOK'
  <2>1. n \in 0..(SizeTMod - 1)
    BY <1>1
  <2> QED BY <1>2, <1>3, <1>4, <2>1 DEF IInv, TypeOK, PutPc
<1>7. Counters'
  BY <1>1, <1>4, <1>5 DEF IInv, Counters, Claimed
<1>8. Asked'
  BY <1>2, <1>4, <1>5 DEF IInv, Asked
<1>9. Filled'
  BY <1>2, <1>4, <1>5 DEF IInv, Filled, Written, Cell, Right
<1>10. Taken'
  BY <1>4 DEF IInv, Taken, Right, UpToEnd
<1> QED BY <1>6, <1>7, <1>8, <1>9, <1>10 DEF IInv

(* The first memcpy writes the cells behind sent. *)
LEMMA PutCopyStep ==
  ASSUME IInv, PutCopy
  PROVE  IInv'
<1> DEFINE n == UpToEnd(in, p.len)
           d == SubSeq(Offered, 1, n)
           b == CopyIn(buf, Size, in, d, n)
<1>1. sent \in Nat /\ got \in Nat /\ in \in Nat /\ sent - got \in 0..Size /\ Size \in Nat
  BY CounterFacts, SizeFacts, Zenon DEF IInv
<1>2. /\ p \in [pc : PutPc, req : 0..(U32Mod - 1), len : 0..(SizeTMod - 1),
               cnt : 0..(SizeTMod - 1)]
      /\ p.pc = "copy" /\ p.len \in Nat /\ sent - got + p.len <= Size
  BY SizeFacts DEF IInv, TypeOK, PutCopy, Counters, Claimed
<1>3. p' = [p EXCEPT !.pc = "copy2"] /\ buf' = b
  BY DEF PutCopy
<1>4. UNCHANGED <<reload, in, out, use_cnt, c, sent, got>>
  BY DEF PutCopy
<1>5. p'.pc = "copy2" /\ p'.req = p.req /\ p'.len = p.len
  BY <1>2, <1>3
<1>6. n \in 0..p.len
  BY <1>1, <1>2, UpToEndType
<1>u. UpToEnd(in, p.len)' = n
  BY <1>4, <1>5 DEF UpToEnd
<1> HIDE DEF n
<1>7. d \in Seq(Byte) /\ Len(d) = n /\ \A j \in 1..n : Right(d[j], sent + 0 + j)
  <2>1. /\ SubSeq(Offered, 0 + 1, n) \in Seq(Byte)
        /\ Len(SubSeq(Offered, 0 + 1, n)) = n - 0
        /\ \A j \in 1..(n - 0) : Right(SubSeq(Offered, 0 + 1, n)[j], sent + 0 + j)
    BY <1>2, <1>6, OfferedPiece DEF IInv
  <2>2. 0 + 1 = 1 /\ n - 0 = n
    BY <1>2, <1>6
  <2> QED BY <2>1, <2>2
<1> HIDE DEF d
<1>8. \A k \in (got + 1)..(sent + 0) : Right(buf[Cell(k)], k)
  BY <1>1, <1>2 DEF IInv, Filled, Written
<1>9. /\ b \in [0..(Size - 1) -> Byte]
      /\ \A k \in (got + 1)..(sent + n) : Right(b[Cell(k)], k)
  <2>1. n \in Nat /\ sent - got + 0 + n <= Size
    BY <1>1, <1>2, <1>6
  <2>2. /\ CopyIn(buf, Size, in + 0, d, n) \in [0..(Size - 1) -> Byte]
        /\ \A k \in (got + 1)..(sent + 0 + n) :
             Right(CopyIn(buf, Size, in + 0, d, n)[Cell(k)], k)
    BY <1>7, <1>8, <2>1, PiecePut DEF IInv
  <2>3. in + 0 = in /\ sent + 0 + n = sent + n
    BY <1>1
  <2> QED BY <2>2, <2>3
<1> HIDE DEF b
<1>10. TypeOK'
  BY <1>2, <1>3, <1>4, <1>9 DEF IInv, TypeOK, PutPc
<1>11. Counters'
  BY <1>2, <1>4, <1>5 DEF IInv, Counters, Claimed
<1>12. Asked'
  BY <1>2, <1>4, <1>5 DEF IInv, Asked
<1>13. Filled'
  <2>1. Written' = n
    BY <1>5, <1>u DEF Written
  <2> QED BY <1>3, <1>4, <1>9, <2>1 DEF Filled, Cell, Right
<1>14. Taken'
  BY <1>4 DEF IInv, Taken, Right, UpToEnd
<1> QED BY <1>10, <1>11, <1>12, <1>13, <1>14 DEF IInv

(* The second memcpy writes the rest. *)
LEMMA PutCopy2Step ==
  ASSUME IInv, PutCopy2
  PROVE  IInv'
<1> DEFINE n == UpToEnd(in, p.len)
           r == p.len - n
           d == SubSeq(Offered, n + 1, p.len)
           b == CopyIn(buf, Size, in + n, d, r)
<1>1. sent \in Nat /\ got \in Nat /\ in \in Nat /\ sent - got \in 0..Size /\ Size \in Nat
  BY CounterFacts, SizeFacts, Zenon DEF IInv
<1>2. /\ p \in [pc : PutPc, req : 0..(U32Mod - 1), len : 0..(SizeTMod - 1),
               cnt : 0..(SizeTMod - 1)]
      /\ p.pc = "copy2" /\ p.len \in Nat /\ sent - got + p.len <= Size
  BY SizeFacts DEF IInv, TypeOK, PutCopy2, Counters, Claimed
<1>3. p' = [p EXCEPT !.pc = "in"] /\ buf' = b
  BY DEF PutCopy2
<1>4. UNCHANGED <<reload, in, out, use_cnt, c, sent, got>>
  BY DEF PutCopy2
<1>5. p'.pc = "in" /\ p'.req = p.req /\ p'.len = p.len
  BY <1>2, <1>3
<1>6. n \in 0..p.len
  BY <1>1, <1>2, UpToEndType
<1>w. Written = n
  BY <1>2 DEF Written
<1> HIDE DEF n
<1>r. r \in Nat /\ n \in Nat /\ n + r = p.len
  BY <1>2, <1>6
<1>7. d \in Seq(Byte) /\ Len(d) = r /\ \A j \in 1..r : Right(d[j], sent + n + j)
  <2>1. n \in Nat /\ p.len \in n..p.len
    BY <1>2, <1>6
  <2> QED BY <1>2, <2>1, OfferedPiece DEF IInv
<1> HIDE DEF d, r
<1>8. \A k \in (got + 1)..(sent + n) : Right(buf[Cell(k)], k)
  BY <1>w DEF IInv, Filled
<1>9. /\ b \in [0..(Size - 1) -> Byte]
      /\ \A k \in (got + 1)..(sent + p.len) : Right(b[Cell(k)], k)
  <2>1. sent - got + n + r <= Size /\ sent + n + r = sent + p.len
    BY <1>1, <1>2, <1>r
  <2>2. /\ b \in [0..(Size - 1) -> Byte]
        /\ \A k \in (got + 1)..(sent + n + r) : Right(b[Cell(k)], k)
    BY <1>7, <1>8, <1>r, <2>1, PiecePut DEF IInv
  <2> QED BY <2>1, <2>2
<1> HIDE DEF b
<1>10. TypeOK'
  BY <1>2, <1>3, <1>4, <1>9 DEF IInv, TypeOK, PutPc
<1>11. Counters'
  BY <1>2, <1>4, <1>5 DEF IInv, Counters, Claimed
<1>12. Asked'
  BY <1>2, <1>4, <1>5 DEF IInv, Asked
<1>13. Filled'
  <2>1. Written' = p.len
    BY <1>5 DEF Written
  <2> QED BY <1>3, <1>4, <1>9, <2>1 DEF Filled, Cell, Right
<1>14. Taken'
  BY <1>4 DEF IInv, Taken, Right, UpToEnd
<1> QED BY <1>10, <1>11, <1>12, <1>13, <1>14 DEF IInv

(* Publishing moves what was claimed behind the counter. *)
LEMMA PutInStep ==
  ASSUME IInv, PutIn
  PROVE  IInv'
<1>1. /\ sent \in Nat /\ got \in Nat /\ got <= sent /\ sent - got \in 0..Size
      /\ Size \in Nat /\ SizeTMod \in Nat \ {0}
  BY CounterFacts, SizeFacts, Zenon DEF IInv
<1>2. /\ p \in [pc : PutPc, req : 0..(U32Mod - 1), len : 0..(SizeTMod - 1),
               cnt : 0..(SizeTMod - 1)]
      /\ p.pc = "in" /\ p.len \in Nat /\ sent - got + p.len <= Size
      /\ in = sent % SizeTMod
  BY SizeFacts DEF IInv, TypeOK, PutIn, Counters, Claimed
<1>3. /\ p' = [p EXCEPT !.pc = "load"]
      /\ in' = (in + p.len) % SizeTMod /\ sent' = sent + p.len
      /\ UNCHANGED <<reload, buf, out, use_cnt, c, got>>
  BY DEF PutIn
<1>4. p'.pc = "load" /\ p'.req = p.req /\ p'.len = p.len
  BY <1>2, <1>3
<1>5. in' = sent' % SizeTMod
  BY <1>1, <1>2, <1>3, ModAdd
<1>6. TypeOK'
  <2>1. in + p.len \in Int
    BY <1>1, <1>2, ModType
  <2>2. in' \in 0..(SizeTMod - 1)
    BY <1>1, <1>3, <2>1, ModType
  <2>3. sent' \in Nat
    BY <1>1, <1>2, <1>3
  <2> QED BY <1>2, <1>3, <2>2, <2>3 DEF IInv, TypeOK, PutPc
<1>7. Counters'
  <2>1. /\ out' = got' % SizeTMod /\ got' <= sent' /\ Claimed' = 0
        /\ sent' - got' + 0 <= Size
    BY <1>1, <1>2, <1>3, <1>4 DEF IInv, Counters, Claimed
  <2>2. c'.pc \in {"copy", "copy2", "out"} => c'.len <= sent' - got'
    <3>1. c.len \in Int
      BY SizeFacts DEF IInv, TypeOK
    <3> QED BY <1>1, <1>2, <1>3, <3>1 DEF IInv, Counters
  <2> QED BY <1>5, <2>1, <2>2 DEF Counters
<1>8. Asked'
  BY <1>3, <1>4 DEF IInv, Asked
<1>9. Filled'
  <2>1. Written' = 0 /\ Written = p.len /\ sent' + 0 = sent + p.len
    BY <1>1, <1>2, <1>3, <1>4 DEF Written
  <2> QED BY <1>3, <2>1 DEF IInv, Filled, Cell, Right
<1>10. Taken'
  BY <1>3 DEF IInv, Taken, Right, UpToEnd
<1> QED BY <1>6, <1>7, <1>8, <1>9, <1>10 DEF IInv

(* The other steps of a put touch no cell and no counter of the ring. *)
LEMMA PutOtherStep ==
  ASSUME IInv, (\E n \in Reqs : PutCall(n)) \/ PutLoad \/ PutStore
  PROVE  IInv'
<1>1. /\ p \in [pc : PutPc, req : 0..(U32Mod - 1), len : 0..(SizeTMod - 1),
               cnt : 0..(SizeTMod - 1)]
      /\ c \in [pc : GetPc, req : 0..(U32Mod - 1), len : 0..(U32Mod - 1),
               cnt : 0..(SizeTMod - 1), data : Seq(Byte)]
      /\ use_cnt \in 0..(SizeTMod - 1)
      /\ SizeTMod \in Nat \ {0} /\ U32Mod \in Nat \ {0}
      /\ Reqs \subseteq 1..(U32Mod - 1)
  BY SizeFacts, SpscAssumption DEF IInv, TypeOK
<1>2. UNCHANGED <<reload, buf, in, out, c, sent, got>>
  BY DEF PutCall, PutLoad, PutStore
<1> DEFINE Moved ==
             /\ p' \in [pc : PutPc, req : 0..(U32Mod - 1), len : 0..(SizeTMod - 1),
                      cnt : 0..(SizeTMod - 1)]
             /\ use_cnt' \in 0..(SizeTMod - 1)
             /\ p.pc \in {"idle", "load", "store"} /\ p'.pc \in {"min", "store", "idle"}
             /\ p'.pc = "min" => sent + p'.req <= Total
<1>3. Moved
  <2>1. ASSUME NEW n \in Reqs, PutCall(n) PROVE Moved
    <3>1. n \in 0..(U32Mod - 1)
      BY <1>1
    <3>2. /\ p.pc = "idle" /\ sent + n <= Total /\ use_cnt' = use_cnt
          /\ p' = [p EXCEPT !.pc = "min", !.req = n]
      BY <2>1 DEF PutCall
    <3>3. p'.pc = "min" /\ p'.req = n
      BY <1>1, <3>2
    <3> QED BY <1>1, <3>1, <3>2, <3>3 DEF PutPc
  <2>2. ASSUME PutLoad PROVE Moved
    BY <1>1, <2>2 DEF PutLoad, PutPc
  <2>3. ASSUME PutStore PROVE Moved
    <3>1. p.cnt + p.len \in Int
      BY <1>1
    <3>2. (p.cnt + p.len) % SizeTMod \in 0..(SizeTMod - 1)
      BY <1>1, <3>1, ModType
    <3>3. /\ p.pc = "store" /\ use_cnt' = (p.cnt + p.len) % SizeTMod
          /\ p' = [p EXCEPT !.pc = "idle", !.req = 0, !.len = 0, !.cnt = 0]
      BY <2>3 DEF PutStore
    <3>4. p'.pc = "idle" /\ 0 \in 0..(U32Mod - 1) /\ 0 \in 0..(SizeTMod - 1)
      BY <1>1, <3>3
    <3> QED BY <1>1, <3>2, <3>3, <3>4 DEF PutPc
  <2> QED BY <2>1, <2>2, <2>3
<1>4. Claimed = 0 /\ Claimed' = 0 /\ Written = 0 /\ Written' = 0
  BY <1>3 DEF Claimed, Written
<1>5. TypeOK'
  BY <1>2, <1>3 DEF IInv, TypeOK
<1>6. Counters'
  BY <1>2, <1>4 DEF IInv, Counters
<1>7. Asked'
  BY <1>2, <1>3 DEF IInv, Asked
<1>8. Filled'
  BY <1>2, <1>4 DEF IInv, Filled, Cell, Right
<1>9. Taken'
  BY <1>2 DEF IInv, Taken, Right, UpToEnd
<1> QED BY <1>5, <1>6, <1>7, <1>8, <1>9 DEF IInv

-----------------------------------------------------------------------------
(* The steps of HyFifoGet.                                                 *)

(* No step of a get moves what the put has claimed or written. *)
LEMMA PutSideKept ==
  ASSUME IInv, UNCHANGED <<reload, buf, in, p, sent>>
  PROVE  /\ Asked /\ (c'.pc = "reload" => reload)
              /\ (c'.pc = "copy" /\ ~reload => c'.len <= c'.req) => Asked'
         /\ Claimed' = Claimed /\ Written' = Written
         /\ UNCHANGED got => Filled'
<1>1. Claimed' = Claimed /\ Written' = Written
  BY DEF Claimed, Written, UpToEnd
<1>2. Asked /\ (c'.pc = "reload" => reload)
        /\ (c'.pc = "copy" /\ ~reload => c'.len <= c'.req) => Asked'
  BY DEF Asked
<1>3. UNCHANGED got => Filled'
  BY <1>1 DEF IInv, Filled, Cell, Right
<1> QED BY <1>1, <1>2, <1>3

(* A get takes no more than the ring holds. *)
LEMMA GetMinStep ==
  ASSUME IInv, GetMin
  PROVE  IInv'
<1> DEFINE used == Used(in, out)
           n == HyUtilsMinMacro(c.req, used)
<1>1. used = sent - got /\ sent - got \in 0..Size /\ Size \in Nat /\ U32Mod \in Nat
  BY CounterFacts, SizeFacts, Zenon DEF IInv
<1>2. /\ c \in [pc : GetPc, req : 0..(U32Mod - 1), len : 0..(U32Mod - 1),
               cnt : 0..(SizeTMod - 1), data : Seq(Byte)]
      /\ c.pc = "min" /\ reload \in BOOLEAN
  BY DEF IInv, TypeOK, GetMin
<1>3. c' = IF reload /\ ~(c.req < used) THEN [c EXCEPT !.pc = "reload"]
           ELSE [c EXCEPT !.pc = "copy", !.len = n]
  BY DEF GetMin
<1>4. UNCHANGED <<reload, buf, in, out, use_cnt, p, sent, got>>
  BY DEF GetMin
<1>5. n \in 0..(U32Mod - 1) /\ n <= sent - got /\ n <= c.req
  BY <1>1, <1>2 DEF HyUtilsMinMacro
<1> HIDE DEF used, n
<1>6. \/ reload /\ c' = [c EXCEPT !.pc = "reload"]
      \/ c' = [c EXCEPT !.pc = "copy", !.len = n]
  BY <1>3
<1>7. \/ reload /\ c'.pc = "reload"
      \/ c'.pc = "copy" /\ c'.len = n /\ c'.req = c.req
  BY <1>2, <1>6
<1>8. TypeOK'
  BY <1>2, <1>4, <1>5, <1>6 DEF IInv, TypeOK, GetPc
<1>9. Counters'
  BY <1>4, <1>5, <1>7, PutSideKept DEF IInv, Counters
<1>10. Asked' /\ Filled'
  BY <1>4, <1>5, <1>7, PutSideKept DEF IInv
<1>11. Taken'
  BY <1>7 DEF Taken
<1> QED BY <1>8, <1>9, <1>10, <1>11 DEF IInv

(* Nor when it reads the counters again: the put only adds. *)
LEMMA GetReloadStep ==
  ASSUME IInv, GetReload
  PROVE  IInv'
<1> DEFINE n == Used(in, out) % U32Mod
<1>1. /\ n = sent - got /\ sent - got \in 0..Size /\ Size \in Nat
      /\ U32Mod \in Nat /\ Size < U32Mod
  BY CounterFacts, SizeFacts, Zenon DEF IInv
<1>2. /\ c \in [pc : GetPc, req : 0..(U32Mod - 1), len : 0..(U32Mod - 1),
               cnt : 0..(SizeTMod - 1), data : Seq(Byte)]
      /\ c.pc = "reload" /\ reload
  BY DEF IInv, TypeOK, GetReload, Asked
<1>3. c' = [c EXCEPT !.pc = "copy", !.len = n]
  BY DEF GetReload
<1>4. UNCHANGED <<reload, buf, in, out, use_cnt, p, sent, got>>
  BY DEF GetReload
<1> HIDE DEF n
<1>5. n \in 0..(U32Mod - 1) /\ n <= sent - got
  BY <1>1
<1>6. c'.pc = "copy" /\ c'.len = n
  BY <1>2, <1>3
<1>7. TypeOK'
  BY <1>2, <1>3, <1>4, <1>5 DEF IInv, TypeOK, GetPc
<1>8. Counters'
  BY <1>4, <1>5, <1>6, PutSideKept DEF IInv, Counters
<1>9. Asked' /\ Filled'
  BY <1>2, <1>4, <1>6, PutSideKept DEF IInv
<1>10. Taken'
  BY <1>6 DEF Taken
<1> QED BY <1>7, <1>8, <1>9, <1>10 DEF IInv

(* Every byte in the ring is in its cell. *)
LEMMA RingBytes ==
  ASSUME IInv
  PROVE  \A k \in (got + 1)..sent : Right(buf[Cell(k)], k)
<1>1. sent \in Nat /\ got \in Nat /\ in \in Nat
  BY CounterFacts, Zenon DEF IInv
<1>2. Written \in Nat
  <2>1. p.len \in Nat /\ p.pc \in PutPc
    BY SizeFacts DEF IInv, TypeOK
  <2>2. UpToEnd(in, p.len) \in Nat
    BY <1>1, <2>1, UpToEndType
  <2> QED BY <2>1, <2>2 DEF Written
<1>3. \A k \in (got + 1)..sent : k \in (got + 1)..(sent + Written)
  BY <1>1, <1>2
<1> QED BY <1>3 DEF IInv, Filled

(* The first memcpy takes the bytes behind got. *)
LEMMA GetCopyStep ==
  ASSUME IInv, GetCopy
  PROVE  IInv'
<1> DEFINE n == UpToEnd(out, c.len)
           d == CopyOut(buf, Size, out, n)
<1>1. sent \in Nat /\ got \in Nat /\ out \in Nat
  BY CounterFacts, Zenon DEF IInv
<1>2. /\ c \in [pc : GetPc, req : 0..(U32Mod - 1), len : 0..(U32Mod - 1),
               cnt : 0..(SizeTMod - 1), data : Seq(Byte)]
      /\ c.pc = "copy" /\ c.len \in Nat /\ c.len <= sent - got
  BY SizeFacts DEF IInv, TypeOK, GetCopy, Counters
<1>3. c' = [c EXCEPT !.pc = "copy2", !.data = d]
  BY DEF GetCopy
<1>4. UNCHANGED <<reload, buf, in, out, use_cnt, p, sent, got>>
  BY DEF GetCopy
<1>5. n \in 0..c.len
  BY <1>1, <1>2, UpToEndType
<1>6. c'.pc = "copy2" /\ c'.len = c.len /\ c'.data = d
  BY <1>2, <1>3
<1>u. UpToEnd(out, c.len)' = n
  BY <1>4, <1>6 DEF UpToEnd
<1> HIDE DEF n
<1>7. d \in Seq(Byte) /\ Len(d) = n /\ \A j \in 1..n : Right(d[j], got + j)
  <2>1. 0 \in Nat /\ n \in Nat /\ got + 0 + n <= sent
    BY <1>1, <1>2, <1>5
  <2>2. /\ CopyOut(buf, Size, out + 0, n) \in Seq(Byte)
        /\ Len(CopyOut(buf, Size, out + 0, n)) = n
        /\ \A j \in 1..n : Right(CopyOut(buf, Size, out + 0, n)[j], got + 0 + j)
    BY <2>1, RingBytes, PieceGet DEF IInv
  <2>3. out + 0 = out /\ got + 0 = got
    BY <1>1
  <2> QED BY <2>2, <2>3
<1> HIDE DEF d
<1>8. TypeOK'
  BY <1>2, <1>3, <1>4, <1>7 DEF IInv, TypeOK, GetPc
<1>9. Counters'
  BY <1>2, <1>4, <1>6, PutSideKept DEF IInv, Counters
<1>10. Asked' /\ Filled'
  BY <1>4, <1>6, PutSideKept DEF IInv
<1>11. Taken'
  BY <1>4, <1>6, <1>7, <1>u DEF Taken, Right
<1> QED BY <1>8, <1>9, <1>10, <1>11 DEF IInv

(* The second memcpy takes the rest. *)
LEMMA GetCopy2Step ==
  ASSUME IInv, GetCopy2
  PROVE  IInv'
<1> DEFINE n == UpToEnd(out, c.len)
           r == c.len - n
           d == CopyOut(buf, Size, out + n, r)
           s == c.data
<1>1. sent \in Nat /\ got \in Nat /\ out \in Nat
  BY CounterFacts, Zenon DEF IInv
<1>2. /\ c \in [pc : GetPc, req : 0..(U32Mod - 1), len : 0..(U32Mod - 1),
               cnt : 0..(SizeTMod - 1), data : Seq(Byte)]
      /\ c.pc = "copy2" /\ c.len \in Nat /\ c.len <= sent - got
  BY SizeFacts DEF IInv, TypeOK, GetCopy2, Counters
<1>3. c' = [c EXCEPT !.pc = "out", !.data = s \o d]
  BY <1>2 DEF GetCopy2
<1>4. UNCHANGED <<reload, buf, in, out, use_cnt, p, sent, got>>
  BY DEF GetCopy2
<1>5. n \in 0..c.len
  BY <1>1, <1>2, UpToEndType
<1>6. c'.pc = "out" /\ c'.len = c.len /\ c'.data = s \o d
  BY <1>2, <1>3
<1>7. s \in Seq(Byte) /\ Len(s) = n /\ \A j \in 1..n : Right(s[j], got + j)
  BY <1>2 DEF IInv, Taken
<1> HIDE DEF n, s
<1>r. r \in Nat /\ n \in Nat /\ n + r = c.len /\ got + n + r <= sent
  BY <1>1, <1>2, <1>5
<1> HIDE DEF r
<1>8. d \in Seq(Byte) /\ Len(d) = r /\ \A j \in 1..r : Right(d[j], got + n + j)
  BY <1>r, RingBytes, PieceGet DEF IInv
<1> HIDE DEF d
<1>9. /\ s \o d \in Seq(Byte) /\ Len(s \o d) = n + r
      /\ \A k \in 1..(n + r) : (s \o d)[k] = IF k <= n THEN s[k] ELSE d[k - n]
  BY <1>7, <1>8, <1>r
<1>10. ASSUME NEW k \in 1..(n + r) PROVE Right((s \o d)[k], got + k)
  <2>1. CASE k <= n
    <3>1. k \in 1..n
      BY <1>r, <2>1
    <3> QED BY <1>7, <1>9, <2>1, <3>1
  <2>2. CASE ~(k <= n)
    <3>1. k - n \in 1..r /\ got + n + (k - n) = got + k
      BY <1>1, <1>r, <2>2
    <3>2. Right(d[k - n], got + k)
      BY <1>8, <3>1
    <3> QED BY <1>9, <2>2, <3>2
  <2> QED BY <2>1, <2>2
<1>11. TypeOK'
  BY <1>2, <1>3, <1>4, <1>9 DEF IInv, TypeOK, GetPc
<1>12. Counters'
  BY <1>2, <1>4, <1>6, PutSideKept DEF IInv, Counters
<1>13. Asked' /\ Filled'
  BY <1>4, <1>6, PutSideKept DEF IInv
<1>14. Taken'
  BY <1>4, <1>6, <1>9, <1>10, <1>r DEF Taken, Right
<1> QED BY <1>11, <1>12, <1>13, <1>14 DEF IInv

(* Releasing the cells leaves a shorter ring. *)
LEMMA GetOutStep ==
  ASSUME IInv, GetOut
  PROVE  IInv'
<1>1. /\ sent \in Nat /\ got \in Nat /\ got <= sent /\ sent - got \in 0..Size
      /\ Size \in Nat /\ SizeTMod \in Nat \ {0} /\ out \in Nat
  BY CounterFacts, SizeFacts, Zenon DEF IInv
<1>2. /\ c \in [pc : GetPc, req : 0..(U32Mod - 1), len : 0..(U32Mod - 1),
               cnt : 0..(SizeTMod - 1), data : Seq(Byte)]
      /\ c.pc = "out" /\ c.len \in Nat /\ c.len <= sent - got
      /\ out = got % SizeTMod /\ sent - got + Claimed <= Size /\ Claimed \in Nat
  BY SizeFacts DEF IInv, TypeOK, GetOut, Counters, Claimed
<1>3. /\ c' = [c EXCEPT !.pc = "load", !.data = <<>>]
      /\ out' = (out + c.len) % SizeTMod /\ got' = got + c.len
      /\ UNCHANGED <<reload, buf, in, use_cnt, p, sent>>
  BY DEF GetOut
<1>4. c'.pc = "load"
  BY <1>2, <1>3
<1>g. /\ got + c.len \in Nat /\ got + c.len <= sent /\ got' = got + c.len
      /\ sent - (got + c.len) + Claimed = sent - got + Claimed - c.len
  <2> DEFINE n == c.len
  <2>1. n \in Nat /\ n <= sent - got /\ got' = got + n
    BY <1>2, <1>3
  <2> HIDE DEF n
  <2>2. got + n <= sent /\ sent - (got + n) + Claimed = sent - got + Claimed - n
    BY <1>1, <1>2, <2>1
  <2> QED BY <1>1, <2>1, <2>2 DEF n
<1>5. out' = got' % SizeTMod
  BY <1>1, <1>2, <1>3, ModAdd
<1>6. TypeOK'
  <2>1. out + c.len \in Int
    BY <1>1, <1>2
  <2>2. out' \in 0..(SizeTMod - 1)
    BY <1>1, <1>3, <2>1, ModType
  <2>3. got' \in Nat
    BY <1>1, <1>2, <1>g
  <2>4. c' \in [pc : GetPc, req : 0..(U32Mod - 1), len : 0..(U32Mod - 1),
               cnt : 0..(SizeTMod - 1), data : Seq(Byte)]
    <3>1. <<>> \in Seq(Byte)
      OBVIOUS
    <3>2. "load" \in GetPc
      BY DEF GetPc
    <3>3. c' = [c EXCEPT !.pc = "load", !.data = <<>>]
      BY <1>3
    <3>4. \A d \in Seq(Byte) : [c EXCEPT !.pc = "load", !.data = d]
            \in [pc : GetPc, req : 0..(U32Mod - 1), len : 0..(U32Mod - 1),
                cnt : 0..(SizeTMod - 1), data : Seq(Byte)]
      BY <1>2, <3>2
    <3> QED BY <3>1, <3>3, <3>4
  <2> QED BY <1>3, <2>2, <2>3, <2>4 DEF IInv, TypeOK
<1>7. Counters'
  <2>1. Claimed' = Claimed
    BY <1>3, PutSideKept
  <2>2. got' <= sent /\ sent - got' + Claimed <= Size
    BY <1>1, <1>2, <1>g
  <2> QED BY <1>3, <1>4, <1>5, <2>1, <2>2 DEF IInv, Counters
<1>8. Asked'
  BY <1>3, <1>4, PutSideKept DEF IInv
<1>9. Filled'
  <2>1. Written' = Written
    BY <1>3, PutSideKept
  <2>2. \A k \in (got + c.len + 1)..(sent + Written) : k \in (got + 1)..(sent + Written)
    BY <1>1, <1>2
  <2> QED BY <1>3, <2>1, <2>2 DEF IInv, Filled, Cell, Right
<1>10. Taken'
  BY <1>4 DEF Taken
<1> QED BY <1>6, <1>7, <1>8, <1>9, <1>10 DEF IInv

(* The other steps of a get touch no cell and no counter of the ring. *)
LEMMA GetOtherStep ==
  ASSUME IInv, (\E n \in Reqs : GetCall(n)) \/ GetLoad \/ GetStore
  PROVE  IInv'
<1>1. /\ c \in [pc : GetPc, req : 0..(U32Mod - 1), len : 0..(U32Mod - 1),
               cnt : 0..(SizeTMod - 1), data : Seq(Byte)]
      /\ use_cnt \in 0..(SizeTMod - 1)
      /\ SizeTMod \in Nat \ {0} /\ U32Mod \in Nat \ {0}
      /\ Reqs \subseteq 1..(U32Mod - 1)
  BY SizeFacts, SpscAssumption DEF IInv, TypeOK
<1>2. UNCHANGED <<reload, buf, in, out, p, sent, got>>
  BY DEF GetCall, GetLoad, GetStore
<1> DEFINE Moved ==
             /\ c' \in [pc : GetPc, req : 0..(U32Mod - 1), len : 0..(U32Mod - 1),
                      cnt : 0..(SizeTMod - 1), data : Seq(Byte)]
             /\ use_cnt' \in 0..(SizeTMod - 1)
             /\ c'.pc \in {"min", "store", "idle"}
<1>3. Moved
  <2>1. ASSUME NEW n \in Reqs, GetCall(n) PROVE Moved
    <3>1. n \in 0..(U32Mod - 1)
      BY <1>1
    <3>2. use_cnt' = use_cnt /\ c' = [c EXCEPT !.pc = "min", !.req = n]
      BY <2>1 DEF GetCall
    <3>3. c'.pc = "min"
      BY <1>1, <3>2
    <3> QED BY <1>1, <3>1, <3>2, <3>3 DEF GetPc
  <2>2. ASSUME GetLoad PROVE Moved
    BY <1>1, <2>2 DEF GetLoad, GetPc
  <2>3. ASSUME GetStore PROVE Moved
    <3>1. c.cnt - c.len \in Int
      BY <1>1
    <3>2. (c.cnt - c.len) % SizeTMod \in 0..(SizeTMod - 1)
      BY <1>1, <3>1, ModType
    <3>3. /\ use_cnt' = (c.cnt - c.len) % SizeTMod
          /\ c' = [c EXCEPT !.pc = "idle", !.req = 0, !.len = 0, !.cnt = 0]
      BY <2>3 DEF GetStore
    <3>4. c'.pc = "idle" /\ 0 \in 0..(U32Mod - 1) /\ 0 \in 0..(SizeTMod - 1)
      BY <1>1, <3>3
    <3> QED BY <1>1, <3>2, <3>3, <3>4 DEF GetPc
  <2> QED BY <2>1, <2>2, <2>3
<1>4. TypeOK'
  BY <1>2, <1>3 DEF IInv, TypeOK
<1>5. Counters'
  BY <1>2, <1>3, PutSideKept DEF IInv, Counters
<1>6. Asked' /\ Filled'
  BY <1>2, <1>3, PutSideKept DEF IInv
<1>7. Taken'
  BY <1>3 DEF Taken
<1> QED BY <1>4, <1>5, <1>6, <1>7 DEF IInv

-----------------------------------------------------------------------------
(* The invariant and what it shows.                                        *)

(* The empty ring satisfies it. *)
LEMMA InitInv ==
  ASSUME Init
  PROVE  IInv
<1>1. /\ Size \in Nat \ {0} /\ SizeTMod \in Nat \ {0} /\ U32Mod \in Nat \ {0}
      /\ NUL \in Byte
  BY SizeFacts, WidthAssumption
<1>2. 0 % SizeTMod = 0
  BY <1>1, ModSmall
<1>3. p.pc = "idle" /\ c.pc = "idle" /\ sent = 0 /\ got = 0
  BY DEF Init
<1>4. Claimed = 0 /\ Written = 0
  BY <1>3 DEF Claimed, Written
<1>5. TypeOK
  <2>1. p \in [pc : PutPc, req : 0..(U32Mod - 1), len : 0..(SizeTMod - 1),
               cnt : 0..(SizeTMod - 1)]
    BY <1>1 DEF Init, PutPc
  <2>2. c \in [pc : GetPc, req : 0..(U32Mod - 1), len : 0..(U32Mod - 1),
               cnt : 0..(SizeTMod - 1), data : Seq(Byte)]
    BY <1>1 DEF Init, GetPc
  <2> QED BY <1>1, <2>1, <2>2 DEF Init, TypeOK
<1>6. Counters
  BY <1>1, <1>2, <1>3, <1>4 DEF Init, Counters
<1>7. Asked
  BY <1>3 DEF Asked
<1>8. Filled
  BY <1>3, <1>4 DEF Filled
<1>9. Taken
  BY <1>3 DEF Taken
<1> QED BY <1>5, <1>6, <1>7, <1>8, <1>9 DEF IInv

(* Every step of either thread keeps it. *)
LEMMA NextInv ==
  ASSUME IInv, [Next]_vars
  PROVE  IInv'
<1>1. CASE Producer
  BY <1>1, PutOtherStep, PutMinStep, PutReloadStep, PutCopyStep, PutCopy2Step,
     PutInStep, Zenon DEF Producer
<1>2. CASE Consumer
  BY <1>2, GetOtherStep, GetMinStep, GetReloadStep, GetCopyStep, GetCopy2Step,
     GetOutStep, Zenon DEF Consumer
<1>3. CASE UNCHANGED vars
  BY <1>3 DEF vars, IInv, TypeOK, Counters, Asked, Filled, Taken, Claimed,
              Written, Cell, Right, UpToEnd
<1> QED BY <1>1, <1>2, <1>3 DEF Next

(* The cells a put is about to write are not those a get is reading, nor   *)
(* those of bytes not yet released.                                        *)
LEMMA NotTorn ==
  ASSUME IInv
  PROVE  NoTornBytes
<1>1. /\ sent \in Nat /\ got \in Nat /\ got <= sent /\ sent - got \in 0..Size
      /\ Used(in, out) = sent - got /\ Size \in Nat \ {0}
  BY CounterFacts, SizeFacts, Zenon DEF IInv
<1>2. /\ p.len \in Nat /\ c.len \in Nat
      /\ in = sent % SizeTMod /\ out = got % SizeTMod
  BY SizeFacts DEF IInv, TypeOK, Counters
<1>3. ASSUME p.pc \in {"copy", "copy2"}, NEW k \in 0..(p.len - 1),
             NEW j \in 0..(sent - got - 1)
      PROVE  Index(in + k, Size) # Index(out + j, Size)
  <2>1. sent - got + p.len <= Size
    BY <1>3 DEF IInv, Counters, Claimed
  <2>2. k \in 0..Size /\ j \in 0..Size /\ got + j < sent + k /\ sent + k < got + j + Size
    BY <1>1, <1>2, <2>1
  <2>3. Index(in + k, Size) = Index(sent + k, Size)
    BY <1>1, <1>2, <2>2, WrappedIndex
  <2>4. Index(out + j, Size) = Index(got + j, Size)
    BY <1>1, <1>2, <2>2, WrappedIndex
  <2>5. Index(got + j, Size) # Index(sent + k, Size)
    <3>1. got + j \in Int /\ sent + k \in Int
      BY <1>1, <2>2
    <3> QED BY <2>2, <3>1, OwnCell
  <2> QED BY <2>3, <2>4, <2>5
<1>4. Writing \cap {Index(out + k, Size) : k \in 0..(Used(in, out) - 1)} = {}
  BY <1>1, <1>3 DEF Writing
<1>5. Reading \subseteq {Index(out + k, Size) : k \in 0..(Used(in, out) - 1)}
  <2>1. CASE c.pc \in {"copy", "copy2"}
    <3>1. c.len <= sent - got
      BY <2>1 DEF IInv, Counters
    <3>2. 0..(c.len - 1) \subseteq 0..(Used(in, out) - 1)
      BY <1>1, <1>2, <3>1
    <3> QED BY <2>1, <3>2 DEF Reading
  <2>2. CASE ~(c.pc \in {"copy", "copy2"})
    BY <2>2 DEF Reading
  <2> QED BY <2>1, <2>2
<1> QED BY <1>4, <1>5 DEF NoTornBytes

(***************************************************************************)
(* HyFifoPut and HyFifoGet from two threads without a lock, at every step  *)
(* of both calls, for every ring size, width and request: the types, no    *)
(* cell written while it is read or before it is released, the counters    *)
(* within a ring length, and no more moved than was asked by a build that  *)
(* reads the other counter once.                                           *)
(***************************************************************************)
THEOREM UnlockedCellsSound == Spec => []CellsSound
<1>1. ASSUME IInv PROVE CellsSound
  <2>1. TypeOK
    BY <1>1 DEF IInv
  <2>2. NoTornBytes
    BY <1>1, NotTorn
  <2>3. OccupancyBound
    <3>1. Used(in, out) = sent - got
      BY <1>1, CounterFacts DEF IInv
    <3> QED BY <1>1, <3>1 DEF IInv, Counters, Claimed, OccupancyBound
  <2>4. NeverMoreThanAsked
    BY <1>1 DEF IInv, Asked, NeverMoreThanAsked
  <2> QED BY <2>1, <2>2, <2>3, <2>4 DEF CellsSound
<1> QED BY <1>1, InitInv, NextInv, PTL DEF Spec

(***************************************************************************)
(* What HyFifoGet hands out are the bytes sent, in their order, none twice *)
(* and none lost, however the two threads interleave.                      *)
(***************************************************************************)
THEOREM UnlockedInOrder == Spec => []InOrder
<1>1. ASSUME IInv PROVE InOrder
  BY <1>1 DEF IInv, Taken, Right, InOrder
<1> QED BY <1>1, InitInv, NextInv, PTL DEF Spec
=============================================================================
