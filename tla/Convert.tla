------------------------------ MODULE Convert -------------------------------
(***************************************************************************)
(* The conversions of src/src/hy_utils.c, the copy of src/src/hy_string.c  *)
(* and the rounding of src/src/hy_fifo.c: functions of their arguments.    *)
(*                                                                         *)
(* A C string is the sequence of its characters: a digit is its value, Dot *)
(* and Slash are not digits.                                               *)
(***************************************************************************)
EXTENDS FifoOps, SequencesExt

CONSTANTS
  Octet,  \* the values of a byte the conversions are tried with
  Bits    \* width of a size_t

ASSUME ConvertAssumption == /\ Octet \subseteq 0..255
                            /\ Bits \in Nat /\ SizeTMod = 2 ^ Bits

Dot == 10
Slash == 11
IP_INT_DOT_LEN == 4
IP_STR_DOT_LEN == 16

-----------------------------------------------------------------------------

(* "%03d" of a byte *)
ThreeDigits(b) == <<b \div 100, (b \div 10) % 10, b % 10>>

(* "%d" of a byte *)
Decimal(b) == IF b >= 100 THEN ThreeDigits(b)
              ELSE IF b >= 10 THEN Tail(ThreeDigits(b)) ELSE <<b>>

(* atoi of digits *)
atoi(s) == FoldLeft(LAMBDA n, d : 10 * n + d, 0, s)

Cut(s, n) == SubSeq(s, 1, HyUtilsMinMacro(n, Len(s)))

(***************************************************************************)
(* `len += snprintf(str + len, str_len - len, ...)` over the pieces: the   *)
(* text is cut to the buffer, but len is not, and once it has passed       *)
(* str_len the room left is a huge size_t.                                 *)
(***************************************************************************)
Printed(pieces, str_len) ==
  [text |-> Cut(FlattenSeq(pieces), str_len - 1),
   safe |-> \A k \in DOMAIN pieces :
              Len(FlattenSeq(SubSeq(pieces, 1, k - 1))) <= str_len]

(* An address is its four bytes, the highest first. *)
HyIpInt2Str(ip, ip_str_len) ==
  LET pieces == [i \in 1..IP_INT_DOT_LEN |-> Append(Decimal(ip[i]), Dot)]
      len    == Len(FlattenSeq(pieces))
      out    == Printed(pieces, ip_str_len)
  IN  [text |-> Cut(out.text, len - 1),
       safe |-> out.safe /\ len - 1 < ip_str_len]

(* The strings between the dots of a text that has three of them. *)
Fields(s) ==
  LET dots  == {0, Len(s) + 1} \cup {i \in DOMAIN s : s[i] = Dot}
      place == SetToSortSeq(dots, <)
  IN  [k \in 1..(Len(place) - 1) |-> SubSeq(s, place[k] + 1, place[k + 1] - 1)]

HyIpStr2Int(s) == [i \in 1..IP_INT_DOT_LEN |-> atoi(Fields(s)[i]) % 256]

(* Mutant of HyHex2Int2Str: "%d". *)
HyHex2Int2StrUnpadded(addr, str_len) ==
  Printed([i \in DOMAIN addr |-> Decimal(addr[i])], str_len)

HyHex2Int2Str(addr, str_len) ==
  Printed([i \in DOMAIN addr |-> ThreeDigits(addr[i])], str_len)

HyStr2Int2Hex(str, addr_len) ==
  LET groups == (Len(str) + 2) \div 3
      num    == IF addr_len \in 1..groups THEN addr_len ELSE groups
  IN  [k \in 1..num |-> atoi(Cut(SubSeq(str, 3 * k - 2, Len(str)), 3)) % 256]

HyDec2BitStr(num, num_len, str_len) ==
  Printed([i \in 1..num_len |-> <<(num \div 2 ^ (num_len - i)) % 2>>], str_len)

(* Of a string of 0 and 1 the bits that are or-ed are distinct. *)
HyBitStr2Dec(bit_str) ==
  FoldLeft(LAMBDA n, d : n + d, 0,
           [i \in DOMAIN bit_str |-> bit_str[i] * 2 ^ (Len(bit_str) - i)]) % U32Mod

(* What HyStrCopyRight (one delimiter) and HyStrCopyRight2 (two) copy to dst *)
HyStrCopyRight(src, len, delims) ==
  LET src_len == Len(src)
      Scan[cnt \in 0..src_len] ==
        IF cnt = src_len \/ src[src_len - cnt] \in delims THEN cnt
        ELSE Scan[cnt + 1]
      cnt == Scan[0]
  IN  SubSeq(src, src_len - cnt + 1,
             src_len - cnt + (IF cnt >= len THEN len - 1 ELSE cnt))

-----------------------------------------------------------------------------

(* What each of them should be, over inputs in which every length of a     *)
(* number, and every room from too small to ample, occurs.                 *)

Strings(chars, n) == UNION {[1..k -> chars] : k \in 0..n}

PowersOf2 == {2 ^ k : k \in 0..Bits}

(***************************************************************************)
(* Up to 0x80000000 the size of a fifo is the least power of two that      *)
(* holds the request, and it divides the range of size_t: the ring index   *)
(* may be taken with a mask, and survives the wrap of in and out.  Any     *)
(* larger request gets less than it asked for: 0 when the last doubling    *)
(* overflows the uint32_t, and otherwise the size for its low 32 bits.     *)
(***************************************************************************)
LeastPowerOf2 ==
  \A req \in 0..(SizeTMod - 1) :
    LET size == FifoSize(req)
    IN  IF req <= U32Mod \div 2
        THEN /\ size \in PowersOf2 /\ req <= size
             /\ \A s \in PowersOf2 : req <= s => size <= s
             /\ SizeTMod % size = 0
        ELSE /\ size < req
             /\ size = 0 <=> req % U32Mod > U32Mod \div 2

(***************************************************************************)
(* IP_STR_DOT_LEN just holds every address: the text reads back as the     *)
(* address.  A shorter buffer is overrun, by its last byte if by nothing   *)
(* else, as soon as the address has more characters than the buffer.       *)
(***************************************************************************)
IpRoundTrip ==
  \A ip \in [1..IP_INT_DOT_LEN -> Octet] :
    LET text == HyIpInt2Str(ip, IP_STR_DOT_LEN)
    IN  /\ text.safe /\ HyIpStr2Int(text.text) = ip
        /\ \A n \in 1..IP_STR_DOT_LEN :
             HyIpInt2Str(ip, n).safe <=> Len(text.text) < n

(***************************************************************************)
(* Bytes written as text read back as the bytes when the text has room for *)
(* its terminator; with room for one character less the last byte loses    *)
(* its last digit, and only with room for less than all bytes but one is   *)
(* the buffer overrun.                                                     *)
(***************************************************************************)
HexRoundTrip ==
  \A addr \in Strings(Octet, 2) \ {<<>>}, n \in 1..7 :
    LET text == HyHex2Int2Str(addr, n)
        back == HyStr2Int2Hex(text.text, Len(addr))
        last == Len(addr)
    IN  /\ text.safe <=> 3 * (last - 1) <= n
        /\ n > 3 * last => back = addr
        /\ n = 3 * last => back = [addr EXCEPT ![last] = @ \div 10]

(***************************************************************************)
(* A number written as num_len bits reads back as its num_len lowest bits; *)
(* a buffer without room for the terminator loses the lowest of them.      *)
(***************************************************************************)
BitRoundTrip ==
  \A num \in 0..(U32Mod - 1), num_len \in 1..5, n \in 2..7 :
    LET bits == HyDec2BitStr(num, num_len, n)
        back == HyBitStr2Dec(bits.text)
    IN  /\ bits.safe <=> num_len <= n + 1
        /\ num_len < n => back = num % 2 ^ num_len
        /\ num_len = n => back = (num % 2 ^ num_len) \div 2

(***************************************************************************)
(* HyStrCopyRight copies what stands behind the last delimiter, all of the *)
(* string when there is none, and of a part that is too long for dst its   *)
(* first len - 1 characters.                                               *)
(***************************************************************************)
CopyRightIsLastPart ==
  \A src \in Strings({1, Dot, Slash}, 4), len \in 1..4, delims \in {{Slash}, {Slash, Dot}} :
    \E k \in 0..Len(src) :
      LET part == SubSeq(src, k + 1, Len(src))
      IN  /\ k = 0 \/ src[k] \in delims
          /\ \A i \in DOMAIN part : part[i] \notin delims
          /\ HyStrCopyRight(src, len, delims) = Cut(part, len - 1)
=============================================================================
