--------------------------- MODULE ServicesProofs ---------------------------
(***************************************************************************)
(* Proofs about Log and Services for every set of signals, every length of *)
(* line and every size of the buffer: LinesSound, ModulesSound and         *)
(* HandlersSafe.                                                           *)
(*                                                                         *)
(* The inductive invariant Inv adds to them: what a writer has printed so  *)
(* far, and that one who is alone finds exactly that in the buffer; how    *)
(* far each loop of RUN_CREATE and RUN_DESTROY has come and what is there  *)
(* by then; that handlers are installed only after their context; and that *)
(* whoever is in the log is on a thread that still exists.                 *)
(***************************************************************************)
EXTENDS Services, TLAPS

-----------------------------------------------------------------------------
(* The inductive invariant: the log.                                       *)

Call == [piece : 0..5, ret : Nat, n : Nat, alone : BOOLEAN]
Cells == [1..buf_len -> Writers \union {NUL}]

LogType == /\ buf = NULL \/ buf \in Cells
           /\ wr \in [Writers -> Call \union {NULL}]

(* What would have been printed before piece k of a line. *)
Before(n, k) ==
  IF k <= 1 THEN 0
  ELSE IF color_output
       THEN IF k <= 3 THEN k - 1 ELSE n + k - 2
       ELSE IF k = 2 THEN 1 ELSE n + 1

(* ret is that, less what was refused behind the end. *)
Printed ==
  \A w \in Writers : wr[w] # NULL =>
    /\ wr[w].piece <= Len(Pieces(wr[w].n)) + 1
    /\ wr[w].ret <= Before(wr[w].n, wr[w].piece)
    /\ wr[w].ret = Before(wr[w].n, wr[w].piece) \/ wr[w].ret >= buf_len

(* The cells that are w's by now. *)
Filled(w) == IF wr[w].ret < buf_len THEN wr[w].ret ELSE buf_len - 1

(* A writer that is alone finds what it wrote itself. *)
OwnCells ==
  \A w \in Writers : wr[w] # NULL /\ wr[w].alone =>
    /\ \A u \in Writers \ {w} : wr[u] = NULL
    /\ wr[w].piece > 0 =>
         buf = [i \in 1..buf_len |-> IF i <= Filled(w) THEN w ELSE NUL]

(* Who writes has a log. *)
HasLog == \A w \in Writers : wr[w] # NULL => buf # NULL

LogInv == LogType /\ Printed /\ OwnCells /\ BufferSafe /\ HasLog

-----------------------------------------------------------------------------
(* The inductive invariant: the program and its signals.                   *)

HandPc == {"none", "user", "error", "report", "trace", "malloc", "print",
           "free", "traced", "return", "done"}

SignalType == /\ disp \in [Sigs -> {"default", "user", "error"}]
              /\ stack \in [Threads -> Seq(Sigs)]
              /\ hand \in [Sigs -> HandPc]

(* What has been created when RUN_CREATE is at m. *)
Creating ==
  m.loop = "create" =>
    /\ m.i \in 1..4 /\ m.at \in {"top", "error_num", "user_num", "malloc"}
    /\ m.at \in {"error_num", "user_num"} => m.i = 2
    /\ m.at = "malloc" => m.i = 3
    /\ buf # NULL <=> m.i >= 2
    /\ context = IF m.i >= 3 \/ m.at # "top" THEN "up" ELSE "none"
    /\ app = IF m.i = 4 THEN "on" ELSE "none"

Running ==
  m.loop = "run" => m.at = "top" /\ buf # NULL /\ context = "up" /\ app = "on"

(* What its roll-back has left, from the last that was created to the first. *)
RollingBack ==
  m.loop = "rollback" =>
    /\ m.i \in 0..2 /\ m.at \in {"top", "free", "freed"}
    /\ m.at # "top" => m.i = 2
    /\ buf # NULL <=> m.i >= 1
    /\ context = IF m.at \in {"free", "freed"} THEN "freed"
                 ELSE IF m.i = 2 THEN "up" ELSE "none"
    /\ app = "none"

(* What RUN_DESTROY has left: the worker goes first and the log last. *)
Destroying ==
  m.loop = "destroy" =>
    /\ m.i \in 1..4
    /\ m.at \in {"top", "join", "app_free", "free", "freed"}
    /\ m.at \in {"join", "app_free"} => m.i = 1
    /\ m.at \in {"free", "freed"} => m.i = 2
    /\ buf # NULL <=> m.i <= 3
    /\ context = IF m.at \in {"free", "freed"} THEN "freed"
                 ELSE IF m.i <= 2 THEN "up" ELSE "none"
    /\ app \in IF m.i = 1 /\ m.at = "top" THEN {"on"}
               ELSE IF m.at = "join" THEN {"stop", "none"} ELSE {"none"}

MType == [loop : {"create", "run", "rollback", "destroy"}, i : 0..4,
          at : {"top", "error_num", "user_num", "malloc", "join", "app_free",
                "free", "freed"}]

Stage == /\ m \in MType
         /\ Creating /\ Running /\ RollingBack /\ Destroying

(* Handlers are installed, and run, only once the context is there. *)
Armed == m.loop \in {"create", "run"} =>
           \A s \in Sigs : disp[s] # "default" \/ hand[s] # "none"
                             => context = "up"

OnStack(s) == \E t \in Threads : \E k \in 1..Len(stack[t]) : stack[t][k] = s

(* A handler that has begun and not returned. *)
Busy(s) == hand[s] \notin {"none", "done"}

(* No thread, no call of it and no handler on it. *)
Gone == /\ app = "none" => wr[worker] = NULL /\ stack[worker] = <<>>
        /\ \A s \in Sigs : /\ Busy(s) => OnStack(s)
                           /\ wr[s] # NULL => Busy(s)

(* The last part of ModulesSound. *)
Returned ==
  status = "returned" =>
    \/ m.loop = "rollback" /\ m.at = "top" /\ m.i = 0
    \/ m.loop = "destroy" /\ m.at = "top" /\ m.i = 4

Inv == /\ LogInv /\ SignalType /\ Stage /\ Armed /\ Gone
       /\ Returned /\ HandlersSafe

-----------------------------------------------------------------------------
(* Arithmetic of a line and of the buffer.                                 *)

(* The smaller of two numbers. *)
LEMMA MinPair ==
  ASSUME NEW a \in Int, NEW b \in Int
  PROVE  Min({a, b}) = IF a <= b THEN a ELSE b
<1>1. \E x \in {a, b} : \A y \in {a, b} : x =< y
  <2>1. CASE a <= b
    BY <2>1
  <2>2. CASE ~(a <= b)
    BY <2>2
  <2> QED BY <2>1, <2>2
<1>2. PICK x \in {a, b} : x = Min({a, b}) /\ \A y \in {a, b} : x =< y
  BY <1>1 DEF Min
<1> QED BY <1>2

(* The smallest number of an interval. *)
LEMMA MinInterval ==
  ASSUME NEW a \in Int, NEW b \in Int, a <= b
  PROVE  Min(a..b) = a
<1>1. \E x \in a..b : \A y \in a..b : x =< y
  <2>1. a \in a..b /\ \A y \in a..b : a =< y
    OBVIOUS
  <2> QED BY <2>1
<1>2. PICK x \in a..b : x = Min(a..b) /\ \A y \in a..b : x =< y
  BY <1>1 DEF Min
<1> QED BY <1>2

(* The pieces add up to the line, and none begins behind the last one. *)
LEMMA PiecesSum ==
  ASSUME NEW n \in Nat
  PROVE  /\ Len(Pieces(n)) \in 2..4
         /\ Before(n, Len(Pieces(n)) + 1) = LineLen(n)
         /\ \A k \in 1..Len(Pieces(n)) :
              /\ Pieces(n)[k] \in Nat
              /\ Before(n, k + 1) = Before(n, k) + Pieces(n)[k]
              /\ Before(n, k) <= LineLen(n) - Last(Pieces(n))
<1>1. CASE color_output
  <2>1. Pieces(n) = <<1, 1, n, 1>>
    BY <1>1 DEF Pieces
  <2>2. Len(Pieces(n)) = 4 /\ Last(Pieces(n)) = 1
    BY <2>1 DEF Last
  <2>3. ASSUME NEW k \in 1..4
        PROVE  /\ Pieces(n)[k] \in Nat
               /\ Before(n, k + 1) = Before(n, k) + Pieces(n)[k]
               /\ Before(n, k) <= LineLen(n) - 1
    <3>1. k = 1 \/ k = 2 \/ k = 3 \/ k = 4
      OBVIOUS
    <3> QED BY <1>1, <2>1, <3>1 DEF Before, LineLen
  <2> QED BY <1>1, <2>2, <2>3 DEF Before, LineLen
<1>2. CASE ~color_output
  <2>1. Pieces(n) = <<1, n>>
    BY <1>2 DEF Pieces
  <2>2. Len(Pieces(n)) = 2 /\ Last(Pieces(n)) = n
    BY <2>1 DEF Last
  <2>3. ASSUME NEW k \in 1..2
        PROVE  /\ Pieces(n)[k] \in Nat
               /\ Before(n, k + 1) = Before(n, k) + Pieces(n)[k]
               /\ Before(n, k) <= LineLen(n) - n
    <3>1. k = 1 \/ k = 2
      OBVIOUS
    <3> QED BY <1>2, <2>1, <3>1 DEF Before, LineLen
  <2> QED BY <1>2, <2>2, <2>3 DEF Before, LineLen
<1> QED BY <1>1, <1>2

(* The room in front of the end, at the end, and behind it. *)
LEMMA RoomValue ==
  ASSUME NEW r \in Nat
  PROVE  /\ buf_len \in Nat \ {0}
         /\ Room(r) \in Nat
         /\ r <= buf_len => Room(r) = buf_len - r
<1>1. /\ SizeMod \in Nat /\ buf_len \in Nat \ {0}
      /\ buf_len < SizeMod
  <2>1. SizeMod \in Nat /\ buf_len \in 1..(SizeMod \div 4)
    BY LogAssumption
  <2> QED BY <2>1
<1>2. (buf_len - r) % SizeMod \in 0..(SizeMod - 1)
  BY <1>1, SMT
<1>3. ASSUME r <= buf_len PROVE (buf_len - r) % SizeMod = buf_len - r
  <2>1. buf_len - r \in 0..(SizeMod - 1)
    BY <1>1, <1>3
  <2> QED BY <1>1, <2>1, SMT
<1> QED BY <1>1, <1>2, <1>3 DEF Room

(* Where snprintf stops. *)
LEMMA CharsValue ==
  ASSUME NEW w \in Writers, wr[w] # NULL, wr[w] \in Call, InPiece(w),
         Length(w) \in Nat
  PROVE  Chars(w) = IF Length(w) <= Room(wr[w].ret) - 1
                    THEN Length(w) ELSE Room(wr[w].ret) - 1
<1>1. Room(wr[w].ret) - 1 \in Int
  <2>1. wr[w].ret \in Nat
    BY DEF Call
  <2> QED BY <2>1, RoomValue
<1> QED BY <1>1, MinPair DEF Chars
-----------------------------------------------------------------------------
(* Steps of HyLogWrite.                                                    *)

(* A writer in a piece: where it begins, and where the next one does. *)
LEMMA InPieceFacts ==
  ASSUME LogType, Printed, NEW w \in Writers, InPiece(w)
  PROVE  /\ wr[w] \in Call
         /\ Length(w) \in Nat
         /\ wr[w].piece + 1 \in 0..5
         /\ wr[w].piece + 1 <= Len(Pieces(wr[w].n)) + 1
         /\ Before(wr[w].n, wr[w].piece + 1)
              = Before(wr[w].n, wr[w].piece) + Length(w)
         /\ Before(wr[w].n, wr[w].piece)
              <= LineLen(wr[w].n) - Last(Pieces(wr[w].n))
         /\ Before(wr[w].n, wr[w].piece) \in Nat
<1>1. wr[w] \in Call /\ wr[w] # NULL /\ wr[w].piece \in 1..Len(Pieces(wr[w].n))
  BY DEF LogType, InPiece
<1>2. wr[w].n \in Nat /\ wr[w].piece \in 0..5
  BY <1>1 DEF Call
<1>3. Len(Pieces(wr[w].n)) \in 2..4
  BY <1>2, PiecesSum
<1>4. Before(wr[w].n, wr[w].piece) \in Nat
  BY <1>2 DEF Before
<1>5. /\ Pieces(wr[w].n)[wr[w].piece] \in Nat
      /\ Before(wr[w].n, wr[w].piece + 1)
           = Before(wr[w].n, wr[w].piece) + Pieces(wr[w].n)[wr[w].piece]
      /\ Before(wr[w].n, wr[w].piece)
           <= LineLen(wr[w].n) - Last(Pieces(wr[w].n))
  BY <1>1, <1>2, PiecesSum
<1> QED BY <1>1, <1>2, <1>3, <1>4, <1>5 DEF Length

(***************************************************************************)
(* An snprintf that would run behind the end begins behind it; one that    *)
(* does not, and has room, prints what fits in front of the terminator.    *)
(***************************************************************************)
LEMMA OverrunsBehind ==
  ASSUME LogType, Printed, NEW w \in Writers, InPiece(w)
  PROVE  /\ Overruns(w) => wr[w].ret > buf_len
         /\ ~Overruns(w) /\ Room(wr[w].ret) # 0 =>
              /\ wr[w].ret < buf_len
              /\ Chars(w) \in Nat
              /\ Chars(w) = IF Length(w) < buf_len - wr[w].ret
                            THEN Length(w) ELSE buf_len - wr[w].ret - 1
<1> DEFINE r == wr[w].ret
           R == Room(wr[w].ret)
           L == Length(w)
<1>1. r \in Nat /\ L \in Nat
  BY InPieceFacts DEF Call
<1>2. buf_len \in Nat \ {0} /\ R \in Nat /\ (r <= buf_len => R = buf_len - r)
  BY <1>1, RoomValue
<1>3. Chars(w) = IF L <= R - 1 THEN L ELSE R - 1
  BY InPieceFacts, CharsValue DEF InPiece
<1> HIDE DEF r, R, L
<1>4. Overruns(w) <=> R > 0 /\ r + Chars(w) + 1 > buf_len
  BY DEF Overruns, Start, r, R
<1>5. ASSUME Overruns(w) PROVE r > buf_len
  BY <1>1, <1>2, <1>3, <1>4, <1>5
<1>6. ASSUME ~Overruns(w), R # 0
      PROVE  /\ r < buf_len
             /\ Chars(w) \in Nat
             /\ Chars(w) = IF L < buf_len - r THEN L ELSE buf_len - r - 1
  BY <1>1, <1>2, <1>3, <1>4, <1>6
<1> QED BY <1>5, <1>6 DEF r, R, L

(* A call that begins is in piece 0, and those around it are not alone. *)
LEMMA WriteBegins ==
  ASSUME LogInv, NEW w \in Writers, wr[w] = NULL, NEW n \in MsgLens[w],
         HyLogWrite(w, n), buf' = buf, status' # "overrun"
  PROVE  LogInv'
<1>1. CASE buf = NULL
  BY <1>1 DEF HyLogWrite, LogInv, LogType, Printed, OwnCells, Filled,
              BufferSafe, HasLog
<1>2. CASE buf # NULL
  <2> DEFINE new == [piece |-> 0, ret |-> 0, n |-> n,
                     alone |-> \A u \in Writers : wr[u] = NULL]
  <2>1. n \in Nat
    BY LogAssumption
  <2>2. new \in Call
    BY <2>1 DEF Call
  <2>3. wr' = [v \in Writers |->
                 CASE v = w -> new
                   [] v # w /\ wr[v] = NULL -> NULL
                   [] OTHER -> [wr[v] EXCEPT !.alone = FALSE]]
    BY <1>2 DEF HyLogWrite
  <2>4. wr'[w] = new
    BY <2>3
  <2>5. ASSUME NEW v \in Writers \ {w}, wr[v] = NULL PROVE wr'[v] = NULL
    BY <2>3, <2>5
  <2>6. ASSUME NEW v \in Writers \ {w}, wr[v] # NULL
        PROVE  /\ wr[v] \in Call
               /\ wr'[v] = [wr[v] EXCEPT !.alone = FALSE]
    BY <2>3, <2>6 DEF LogInv, LogType
  <2>7. LogType'
    <3>1. \A v \in Writers : wr'[v] \in Call \union {NULL}
      <4>1. ASSUME NEW v \in Writers PROVE wr'[v] \in Call \union {NULL}
        <5>1. CASE v = w
          BY <2>2, <2>4, <5>1
        <5>2. CASE v # w /\ wr[v] = NULL
          BY <2>5, <5>2
        <5>3. CASE v # w /\ wr[v] # NULL
          BY <2>6, <5>3 DEF Call
        <5> QED BY <5>1, <5>2, <5>3
      <4> QED BY <4>1
    <3> QED BY <2>3, <3>1 DEF LogInv, LogType
  <2>8. Printed'
    <3>1. ASSUME NEW v \in Writers, wr'[v] # NULL
          PROVE  /\ wr'[v].piece <= Len(Pieces(wr'[v].n)) + 1
                 /\ wr'[v].ret <= Before(wr'[v].n, wr'[v].piece)
                 /\ \/ wr'[v].ret = Before(wr'[v].n, wr'[v].piece)
                    \/ wr'[v].ret >= buf_len
      <4>1. CASE v = w
        <5>1. Len(Pieces(n)) \in 2..4
          BY <2>1, PiecesSum
        <5> QED BY <2>4, <4>1, <5>1 DEF Before
      <4>2. CASE v # w
        <5>1. wr[v] # NULL
          BY <2>5, <3>1, <4>2
        <5>2. /\ wr'[v].piece = wr[v].piece /\ wr'[v].ret = wr[v].ret
              /\ wr'[v].n = wr[v].n
          BY <2>6, <4>2, <5>1 DEF Call
        <5> QED BY <5>1, <5>2 DEF LogInv, Printed
      <4> QED BY <4>1, <4>2
    <3> QED BY <3>1 DEF Printed
  <2>9. OwnCells'
    <3>1. ASSUME NEW v \in Writers, wr'[v] # NULL, wr'[v].alone
          PROVE  v = w
      <4>1. CASE v # w /\ wr[v] # NULL
        BY <2>6, <3>1, <4>1 DEF Call
      <4> QED BY <2>5, <3>1, <4>1
    <3>2. wr'[w].piece = 0
      BY <2>4
    <3>3. ASSUME wr'[w].alone, NEW u \in Writers \ {w} PROVE wr'[u] = NULL
      <4>1. \A x \in Writers : wr[x] = NULL
        BY <2>4, <3>3
      <4> QED BY <2>5, <4>1
    <3> QED BY <3>1, <3>2, <3>3 DEF OwnCells
  <2> QED BY <1>2, <2>7, <2>8, <2>9 DEF LogInv, BufferSafe, HasLog
<1> QED BY <1>1, <1>2

(* One writer moves: what LogInv asks of the others is as before. *)
LEMMA OthersStay ==
  ASSUME LogInv, NEW w \in Writers, wr[w] # NULL, NEW c,
         wr' = [wr EXCEPT ![w] = c]
  PROVE  /\ wr'[w] = c
         /\ \A v \in Writers \ {w} :
              /\ wr'[v] = wr[v]
              /\ wr'[v] # NULL => ~wr'[v].alone
<1>1. wr'[w] = c /\ \A v \in Writers \ {w} : wr'[v] = wr[v]
  BY DEF LogInv, LogType
<1>2. \A v \in Writers \ {w} : wr[v] # NULL => ~wr[v].alone
  BY DEF LogInv, OwnCells
<1> QED BY <1>1, <1>2

(* A call that moves on to its next piece. *)
LEMMA PieceEnds ==
  ASSUME LogInv, NEW w \in Writers, InPiece(w), NEW returned \in Int,
         NextPiece(w, returned), wr[w].ret + returned \in Nat,
         returned = Length(w) \/ wr[w].ret + returned >= buf_len,
         returned <= Length(w),
         buf' \in Cells, buf'[buf_len] = NUL, status' # "overrun",
         wr[w].alone =>
           buf' = [i \in 1..buf_len |->
                     IF i <= IF wr[w].ret + returned < buf_len
                             THEN wr[w].ret + returned ELSE buf_len - 1
                     THEN w ELSE NUL]
  PROVE  LogInv'
<1> DEFINE c == [wr[w] EXCEPT !.piece = @ + 1, !.ret = @ + returned]
<1>1. wr' = [wr EXCEPT ![w] = c]
  BY DEF NextPiece
<1>2. LogType /\ Printed /\ wr[w] # NULL /\ buf # NULL
  BY DEF LogInv, InPiece, HasLog
<1>3. /\ wr[w] \in Call
      /\ wr[w].piece + 1 \in 0..5
      /\ wr[w].piece + 1 <= Len(Pieces(wr[w].n)) + 1
      /\ Before(wr[w].n, wr[w].piece + 1)
           = Before(wr[w].n, wr[w].piece) + Length(w)
      /\ Length(w) \in Nat /\ Before(wr[w].n, wr[w].piece) \in Nat
  BY <1>2, InPieceFacts
<1>4. /\ c.piece = wr[w].piece + 1 /\ c.ret = wr[w].ret + returned
      /\ c.n = wr[w].n /\ c.alone = wr[w].alone
      /\ c \in Call
  BY <1>3 DEF Call
<1> HIDE DEF c
<1>5. /\ wr'[w] = c
      /\ \A v \in Writers \ {w} : /\ wr'[v] = wr[v]
                                  /\ wr'[v] # NULL => ~wr'[v].alone
  BY <1>1, <1>2, OthersStay
<1>6. LogType'
  BY <1>1, <1>2, <1>4 DEF LogType
<1>7. Printed'
  <2>1. /\ wr[w].ret <= Before(wr[w].n, wr[w].piece)
        /\ \/ wr[w].ret = Before(wr[w].n, wr[w].piece)
           \/ wr[w].ret >= buf_len
    BY <1>2 DEF Printed
  <2>2. /\ c.piece <= Len(Pieces(c.n)) + 1
        /\ c.ret <= Before(c.n, c.piece)
        /\ c.ret = Before(c.n, c.piece) \/ c.ret >= buf_len
    <3>1. wr[w].ret \in Nat /\ wr[w].n \in Nat /\ buf_len \in Nat
      BY <1>3, RoomValue DEF Call
    <3> QED BY <1>3, <1>4, <2>1, <3>1
  <2>3. ASSUME NEW v \in Writers \ {w}, wr'[v] # NULL
        PROVE  /\ wr'[v].piece <= Len(Pieces(wr'[v].n)) + 1
               /\ wr'[v].ret <= Before(wr'[v].n, wr'[v].piece)
               /\ \/ wr'[v].ret = Before(wr'[v].n, wr'[v].piece)
                  \/ wr'[v].ret >= buf_len
    BY <1>2, <1>5, <2>3 DEF Printed
  <2> QED BY <1>5, <2>2, <2>3 DEF Printed
<1>8. OwnCells'
  <2>1. ASSUME NEW v \in Writers, wr'[v] # NULL, wr'[v].alone
        PROVE  v = w /\ wr[w].alone
    BY <1>4, <1>5, <2>1
  <2>2. ASSUME wr[w].alone, NEW u \in Writers \ {w} PROVE wr'[u] = NULL
    BY <1>2, <1>5, <2>2 DEF LogInv, OwnCells
  <2>3. ASSUME wr[w].alone
        PROVE  buf' = [i \in 1..buf_len |-> IF i <= Filled(w)' THEN w ELSE NUL]
    BY <1>4, <1>5, <2>3 DEF Filled
  <2> QED BY <2>1, <2>2, <2>3 DEF OwnCells
<1>9. buf' # NULL
  BY LogAssumption DEF Cells
<1> QED BY <1>6, <1>7, <1>8, <1>9 DEF LogInv, BufferSafe, HasLog

(* A cleared buffer ends in a terminator and holds nothing of anyone. *)
LEMMA ZeroedCells ==
  /\ Zeroed \in Cells
  /\ Zeroed[buf_len] = NUL
  /\ \A i \in 1..buf_len : Zeroed[i] = NUL
<1>1. buf_len \in Nat \ {0}
  BY RoomValue
<1> QED BY <1>1 DEF Zeroed, Cells

(* Memset. *)
LEMMA MemsetStep ==
  ASSUME LogInv, NEW w \in Writers, Memset(w), status = "up"
  PROVE  LogInv'
<1> DEFINE c == [wr[w] EXCEPT !.piece = 1]
<1>1. /\ wr[w] # NULL /\ wr[w].piece = 0 /\ wr[w] \in Call
      /\ buf' = Zeroed /\ wr' = [wr EXCEPT ![w] = c] /\ status' = status
  BY DEF Memset, LogInv, LogType
<1>2. /\ c.piece = 1 /\ c.ret = wr[w].ret /\ c.n = wr[w].n
      /\ c.alone = wr[w].alone /\ c \in Call
  BY <1>1 DEF Call
<1> HIDE DEF c
<1>3. /\ wr'[w] = c
      /\ \A v \in Writers \ {w} : /\ wr'[v] = wr[v]
                                  /\ wr'[v] # NULL => ~wr'[v].alone
  BY <1>1, OthersStay
<1>4. c.ret = 0
  <2>1. wr[w].ret <= Before(wr[w].n, 0) /\ wr[w].ret \in Nat
    BY <1>1 DEF LogInv, Printed, Call
  <2> QED BY <1>2, <2>1 DEF Before
<1>5. LogType'
  BY <1>1, <1>2, ZeroedCells DEF LogInv, LogType
<1>6. Printed'
  <2>1. /\ c.piece <= Len(Pieces(c.n)) + 1
        /\ c.ret <= Before(c.n, c.piece) /\ c.ret = Before(c.n, c.piece)
    <3>1. Len(Pieces(c.n)) \in 2..4
      BY <1>2, PiecesSum DEF Call
    <3> QED BY <1>2, <1>4, <3>1 DEF Before
  <2>2. ASSUME NEW v \in Writers \ {w}, wr'[v] # NULL
        PROVE  /\ wr'[v].piece <= Len(Pieces(wr'[v].n)) + 1
               /\ wr'[v].ret <= Before(wr'[v].n, wr'[v].piece)
               /\ \/ wr'[v].ret = Before(wr'[v].n, wr'[v].piece)
                  \/ wr'[v].ret >= buf_len
    BY <1>3, <2>2 DEF LogInv, Printed
  <2> QED BY <1>3, <2>1, <2>2 DEF Printed
<1>7. OwnCells'
  <2>1. ASSUME NEW v \in Writers, wr'[v] # NULL, wr'[v].alone
        PROVE  v = w /\ wr[w].alone
    BY <1>2, <1>3, <2>1
  <2>2. ASSUME wr[w].alone, NEW u \in Writers \ {w} PROVE wr'[u] = NULL
    BY <1>1, <1>3, <2>2 DEF LogInv, OwnCells
  <2>3. buf' = [i \in 1..buf_len |-> IF i <= Filled(w)' THEN w ELSE NUL]
    <3>1. Filled(w)' = 0
      <4>1. buf_len \in Nat \ {0}
        BY RoomValue
      <4> QED BY <1>3, <1>4, <4>1 DEF Filled
    <3> QED BY <1>1, <3>1 DEF Zeroed
  <2> QED BY <2>1, <2>2, <2>3 DEF OwnCells
<1>8. buf' # NULL /\ buf'[buf_len] = NUL
  BY <1>1, ZeroedCells, LogAssumption DEF Cells
<1> QED BY <1>1, <1>5, <1>6, <1>7, <1>8 DEF LogInv, BufferSafe, HasLog

(* Snprintf in front of the end, or with no room at all. *)
LEMMA SnprintfStep ==
  ASSUME LogInv, NEW w \in Writers, Snprintf(w), status = "up"
  PROVE  LogInv'
<1> DEFINE r == wr[w].ret
           end == r + Chars(w) + 1
<1>1. /\ LogType /\ Printed /\ InPiece(w) /\ ~Overruns(w) /\ wr[w] # NULL
      /\ buf # NULL
  BY DEF Snprintf, LogInv, InPiece, HasLog
<1>2. wr[w] \in Call /\ r \in Nat /\ Length(w) \in Nat /\ buf_len \in Nat \ {0}
  BY <1>1, InPieceFacts, RoomValue DEF Call
<1>3. buf \in Cells /\ buf[buf_len] = NUL
  BY <1>1 DEF LogInv, LogType, BufferSafe
<1>4. NextPiece(w, Length(w)) /\ status' = status
  BY DEF Snprintf
<1>5. wr[w].alone =>
        buf = [i \in 1..buf_len |->
                 IF i <= IF r < buf_len THEN r ELSE buf_len - 1 THEN w ELSE NUL]
  BY <1>1 DEF LogInv, OwnCells, InPiece, Filled
<1>6. /\ buf' \in Cells /\ buf'[buf_len] = NUL
      /\ wr[w].alone =>
           buf' = [i \in 1..buf_len |->
                     IF i <= IF r + Length(w) < buf_len
                             THEN r + Length(w) ELSE buf_len - 1
                     THEN w ELSE NUL]
  <2>1. CASE Room(r) = 0
    <3>1. buf' = buf
      BY <2>1 DEF Snprintf
    <3>2. r >= buf_len
      BY <1>2, <2>1, RoomValue
    <3>3. ~(r < buf_len) /\ ~(r + Length(w) < buf_len)
      BY <1>2, <3>2
    <3> HIDE DEF r
    <3> QED BY <1>3, <1>5, <3>1, <3>3
  <2>2. CASE Room(r) # 0
    <3>1. /\ r < buf_len /\ Chars(w) \in Nat
          /\ Chars(w) = IF Length(w) < buf_len - r
                        THEN Length(w) ELSE buf_len - r - 1
      BY <1>1, <2>2, OverrunsBehind
    <3>2. buf' = [i \in 1..buf_len |->
                    IF i = end THEN NUL
                    ELSE IF i \in (r + 1)..end THEN w ELSE buf[i]]
      BY <2>2 DEF Snprintf, Start
    <3> HIDE DEF r
    <3>3. end \in 1..buf_len
      BY <1>2, <3>1
    <3>4. buf' \in Cells
      BY <1>3, <3>2 DEF Cells
    <3>5. buf'[buf_len] = NUL
      BY <1>2, <1>3, <3>2, <3>3
    <3>6. ASSUME wr[w].alone, NEW i \in 1..buf_len
          PROVE  (IF i = end THEN NUL
                  ELSE IF i \in (r + 1)..end THEN w ELSE buf[i])
                 = IF i <= IF r + Length(w) < buf_len
                           THEN r + Length(w) ELSE buf_len - 1
                   THEN w ELSE NUL
      <4>1. buf[i] = IF i <= r THEN w ELSE NUL
        BY <1>5, <3>1, <3>6
      <4>2. end = 1 + IF r + Length(w) < buf_len
                      THEN r + Length(w) ELSE buf_len - 1
        BY <1>2, <3>1
      <4> QED BY <1>2, <3>1, <3>3, <4>1, <4>2
    <3> QED BY <3>2, <3>4, <3>5, <3>6
  <2> QED BY <2>1, <2>2
<1> QED BY <1>1, <1>2, <1>4, <1>6, PieceEnds

(* An snprintf that refuses begins behind the end. *)
LEMMA RefusesStep ==
  ASSUME LogInv, NEW w \in Writers, SnprintfRefuses(w), status = "up"
  PROVE  LogInv'
<1>1. /\ LogType /\ Printed /\ InPiece(w) /\ Overruns(w)
      /\ buf # NULL /\ wr[w] # NULL
  BY DEF SnprintfRefuses, LogInv, InPiece, HasLog
<1>2. wr[w].ret > buf_len
  BY <1>1, OverrunsBehind
<1>3. wr[w] \in Call /\ Length(w) \in Nat /\ buf_len \in Nat \ {0}
  BY <1>1, InPieceFacts, RoomValue
<1>4. wr[w].ret \in Nat
  BY <1>3 DEF Call
<1>5. /\ wr[w].ret + (-1) \in Nat /\ wr[w].ret + (-1) >= buf_len
      /\ ~(wr[w].ret < buf_len) /\ ~(wr[w].ret + (-1) < buf_len)
      /\ -1 <= Length(w) /\ -1 \in Int
  BY <1>2, <1>3, <1>4
<1>6. NextPiece(w, -1) /\ buf' = buf /\ status' = status
  BY DEF SnprintfRefuses
<1>7. buf \in Cells /\ buf[buf_len] = NUL
  BY <1>1 DEF LogInv, LogType, BufferSafe
<1>8. wr[w].alone =>
        buf = [i \in 1..buf_len |-> IF i <= buf_len - 1 THEN w ELSE NUL]
  BY <1>1, <1>5 DEF LogInv, OwnCells, InPiece, Filled
<1>9. wr[w].alone =>
        buf' = [i \in 1..buf_len |->
                  IF i <= IF wr[w].ret + (-1) < buf_len
                          THEN wr[w].ret + (-1) ELSE buf_len - 1
                  THEN w ELSE NUL]
  BY <1>5, <1>6, <1>8
<1> QED BY <1>1, <1>5, <1>6, <1>7, <1>9, PieceEnds

(* An snprintf that runs behind the end is the last of a line too long. *)
LEMMA OverrunsStep ==
  ASSUME LogInv, NEW w \in Writers, SnprintfOverruns(w)
  PROVE  LogInv'
<1>1. LogType /\ Printed /\ InPiece(w) /\ Overruns(w) /\ wr[w] # NULL
  BY DEF SnprintfOverruns, LogInv, InPiece
<1>2. wr[w].ret > buf_len
  BY <1>1, OverrunsBehind
<1>3. /\ wr[w].ret \in Nat /\ wr[w].n \in Nat
      /\ wr[w].ret <= Before(wr[w].n, wr[w].piece)
      /\ Before(wr[w].n, wr[w].piece)
           <= LineLen(wr[w].n) - Last(Pieces(wr[w].n))
      /\ Before(wr[w].n, wr[w].piece) \in Nat
  BY <1>1, InPieceFacts DEF Printed, Call
<1>4. buf_len \in Nat /\ LineLen(wr[w].n) - Last(Pieces(wr[w].n)) \in Int
  BY <1>3, RoomValue DEF LineLen, Last, Pieces
<1>5. TooLong(wr[w].n)
  BY <1>2, <1>3, <1>4 DEF TooLong
<1>6. UNCHANGED <<buf, wr>>
  BY DEF SnprintfOverruns
<1> QED BY <1>1, <1>5, <1>6 DEF LogInv, LogType, Printed, OwnCells, Filled,
                            BufferSafe, HasLog

(* printf. *)
LEMMA OutputStep ==
  ASSUME LogInv, NEW w \in Writers, Output(w), status = "up"
  PROVE  LogInv'
<1>1. wr[w] # NULL /\ wr' = [wr EXCEPT ![w] = NULL] /\ UNCHANGED <<buf, status>>
  BY DEF Output
<1>2. /\ wr'[w] = NULL
      /\ \A v \in Writers \ {w} : /\ wr'[v] = wr[v]
                                  /\ wr'[v] # NULL => ~wr'[v].alone
  BY <1>1, OthersStay
<1> QED BY <1>1, <1>2 DEF LogInv, LogType, Printed, OwnCells, Filled,
                          BufferSafe, HasLog

(* Any step of a writer in HyLogWrite. *)
LEMMA LogStepInv ==
  ASSUME LogInv, NEW w \in Writers, LogStep(w), status = "up"
  PROVE  LogInv'
  BY MemsetStep, SnprintfStep, RefusesStep, OverrunsStep, OutputStep DEF
                                                                         LogStep

(* A finished line that was alone is its own pieces, cut at the end. *)
LEMMA LineWhole ==
  ASSUME LogInv
  PROVE  WholeLine
<1> SUFFICES ASSUME NEW w \in Writers, wr[w] # NULL, wr[w].alone,
                    wr[w].piece = Len(Pieces(wr[w].n)) + 1
             PROVE  Text = Line(w)
  BY DEF WholeLine
<1> DEFINE p == Filled(w)
           t == LineLen(wr[w].n)
<1>1. /\ wr[w] \in Call /\ wr[w].n \in Nat /\ wr[w].ret \in Nat
      /\ buf_len \in Nat \ {0} /\ t \in Nat
  <2>1. wr[w] \in Call
    BY DEF LogInv, LogType
  <2>2. wr[w].n \in Nat /\ wr[w].ret \in Nat
    BY <2>1 DEF Call
  <2>3. t \in Nat
    BY <2>2 DEF LineLen
  <2>4. buf_len \in Nat \ {0}
    BY <2>2, RoomValue
  <2> QED BY <2>1, <2>2, <2>3, <2>4
<1>2. wr[w].ret <= t /\ (wr[w].ret = t \/ wr[w].ret >= buf_len)
  <2>1. Before(wr[w].n, wr[w].piece) = t
    BY <1>1, PiecesSum
  <2> QED BY <2>1 DEF LogInv, Printed
<1>3. p \in 0..(buf_len - 1) /\ p = IF t <= buf_len - 1 THEN t ELSE buf_len - 1
  BY <1>1, <1>2 DEF Filled
<1>4. Min({t, buf_len - 1}) = p
  BY <1>1, <1>3, MinPair
<1>5. buf = [i \in 1..buf_len |-> IF i <= p THEN w ELSE NUL]
  <2>1. wr[w].piece > 0
    BY <1>1, PiecesSum
  <2> QED BY <2>1 DEF LogInv, OwnCells
<1> HIDE DEF p, t
<1>6. {i \in 1..buf_len : buf[i] = NUL} = (p + 1)..buf_len
  <2>1. w # NUL
    BY LogAssumption
  <2> QED BY <1>1, <1>3, <1>5, <2>1
<1>7. Min({i \in 1..buf_len : buf[i] = NUL}) - 1 = p
  <2> DEFINE first == p + 1
  <2>1. first \in Int /\ buf_len \in Int /\ first <= buf_len
    BY <1>1, <1>3
  <2>2. {i \in 1..buf_len : buf[i] = NUL} = first..buf_len
    BY <1>6
  <2>3. first - 1 = p
    BY <1>3
  <2> HIDE DEF first
  <2>4. Min(first..buf_len) = first
    BY <2>1, MinInterval
  <2> QED BY <2>2, <2>3, <2>4
<1>8. Text = SubSeq(buf, 1, p)
  BY <1>7 DEF Text
<1>9. Line(w) = [i \in 1..p |-> w]
  BY <1>4 DEF Line, t
<1>10. SubSeq(buf, 1, p) = [i \in 1..p |-> w]
  <2>1. buf \in Seq(Writers \union {NUL}) /\ Len(buf) = buf_len
    BY <1>1, <1>5
  <2>2. SubSeq(buf, 1, p) = [i \in 1..p |-> buf[i]]
    BY <1>1, <1>3, <2>1
  <2>3. \A i \in 1..p : buf[i] = w
    BY <1>1, <1>3, <1>5
  <2> QED BY <2>2, <2>3
<1> QED BY <1>8, <1>9, <1>10

-----------------------------------------------------------------------------
(* The program and its signals, part by part.                              *)

(* The loop of RUN_CREATE goes on ... *)
LEMMA CreatedTo ==
  ASSUME m \in MType, Created, m.i < 4
  PROVE  m'.loop = m.loop /\ m'.i = m.i + 1 /\ m'.at = "top" /\ m' \in MType
<1> DEFINE next == m.i + 1
<1>1. m' = [m EXCEPT !.i = next, !.at = "top"]
  BY DEF Created
<1>2. next \in 0..4
  BY DEF MType
<1>3. next = m.i + 1
  OBVIOUS
<1> HIDE DEF next
<1> QED BY <1>1, <1>2, <1>3 DEF MType

(* ... and so do the loops of the roll-back and of RUN_DESTROY. *)
LEMMA DestroyedTo ==
  ASSUME m \in MType, Destroyed,
         IF m.loop = "rollback" THEN m.i >= 1 ELSE m.i <= 3
  PROVE  /\ m'.loop = m.loop /\ m'.at = "top" /\ m' \in MType
         /\ m'.i = IF m.loop = "rollback" THEN m.i - 1 ELSE m.i + 1
<1> DEFINE next == IF m.loop = "rollback" THEN m.i - 1 ELSE m.i + 1
<1>1. m' = [m EXCEPT !.i = next, !.at = "top"]
  BY DEF Destroyed
<1>2. next \in 0..4
  BY DEF MType
<1> HIDE DEF next
<1>3. m'.loop = m.loop /\ m'.at = "top" /\ m' \in MType /\ m'.i = next
  BY <1>1, <1>2 DEF MType
<1> QED BY <1>3 DEF next

(* Memset and snprintf leave a buffer. *)
LEMMA WritesBuf ==
  ASSUME LogInv, NEW w \in Writers, Writes(w)
  PROVE  buf # NULL /\ buf' # NULL
<1>1. wr[w] # NULL
  BY DEF Writes, LogStep, Memset, Snprintf, InPiece, SnprintfRefuses,
         SnprintfOverruns, Output
<1>2. buf # NULL /\ buf \in Cells
  BY <1>1 DEF LogInv, HasLog, LogType
<1>3. ASSUME buf' \in Cells PROVE buf' # NULL
  BY <1>3, LogAssumption DEF Cells
<1>4. CASE Memset(w)
  <2>1. buf' = Zeroed
    BY <1>4 DEF Memset
  <2> QED BY <1>2, <1>3, <2>1, ZeroedCells
<1>5. CASE Snprintf(w)
  <2> DEFINE end == Start(w) + Chars(w) + 1
             cells == [i \in 1..buf_len |->
                         IF i = end THEN NUL
                         ELSE IF i \in (Start(w) + 1)..end THEN w ELSE buf[i]]
  <2>1. cells \in Cells
    BY <1>2 DEF Cells
  <2>2. buf' = buf \/ buf' = cells
    BY <1>5 DEF Snprintf
  <2> QED BY <1>2, <1>3, <2>1, <2>2
<1>6. CASE SnprintfRefuses(w) \/ SnprintfOverruns(w) \/ Output(w)
  BY <1>2, <1>6 DEF SnprintfRefuses, SnprintfOverruns, Output
<1> QED BY <1>4, <1>5, <1>6 DEF Writes, LogStep

(* Handlers are stacked and unstacked one at a time. *)
LEMMA SignalTypeStep ==
  ASSUME Inv, Next
  PROVE  SignalType'
<1> USE DEF Inv, SignalType, HandPc, Main, Runs, Creates, Created, GoTo,
            Destroys, Destroyed, module_create, module_destroy, _ADD_SIGNAL,
            In, HandlerGoes, Readable, Lives, logVars, sigVars
<1>1. CASE HyLogCreate
  BY <1>1 DEF HyLogCreate
<1>2. CASE HyLogCreateNoBuf
  BY <1>2 DEF HyLogCreateNoBuf
<1>3. CASE HySignalCreate
  BY <1>3 DEF HySignalCreate
<1>4. CASE AddErrorNum
  BY <1>4 DEF AddErrorNum
<1>5. CASE AddUserNum
  BY <1>5 DEF AddUserNum
<1>6. CASE AppMalloc
  BY <1>6 DEF AppMalloc
<1>7. CASE AppCreate
  BY <1>7 DEF AppCreate
<1>8. CASE CreateFails
  BY <1>8 DEF CreateFails
<1>9. CASE MainRuns
  BY <1>9 DEF MainRuns
<1>10. CASE MainEnds
  BY <1>10 DEF MainEnds
<1>11. CASE HyLogDestroy
  BY <1>11 DEF HyLogDestroy
<1>12. CASE HySignalDestroy
  BY <1>12 DEF HySignalDestroy
<1>13. CASE SignalDestroyed
  BY <1>13 DEF SignalDestroyed
<1>14. CASE AppStop
  BY <1>14 DEF AppStop
<1>15. CASE AppDestroy
  BY <1>15 DEF AppDestroy
<1>16. CASE MainReturns
  BY <1>16 DEF MainReturns
<1>17. CASE WorkerLogs
  BY <1>17 DEF WorkerLogs
<1>18. CASE WorkerEnds
  BY <1>18 DEF WorkerEnds
<1>19. ASSUME NEW s \in Sigs, _user_handler(s) PROVE SignalType'
  BY <1>19 DEF _user_handler
<1>20. ASSUME NEW s \in Sigs, _error_handler(s) PROVE SignalType'
  BY <1>20 DEF _error_handler
<1>21. ASSUME NEW s \in Sigs, ErrorReport(s) PROVE SignalType'
  BY <1>21 DEF ErrorReport
<1>22. ASSUME NEW s \in Sigs, _dump_backtrace(s) PROVE SignalType'
  BY <1>22 DEF _dump_backtrace
<1>23. ASSUME NEW s \in Sigs, ErrorExits(s) PROVE SignalType'
  BY <1>23 DEF ErrorExits
<1>24. ASSUME NEW s \in Sigs, ErrorMaps(s) PROVE SignalType'
  BY <1>24 DEF ErrorMaps
<1>25. ASSUME NEW s \in Sigs, HandlerCrashes(s) PROVE SignalType'
  BY <1>25 DEF HandlerCrashes
<1>26. ASSUME NEW s \in Sigs, HandlerReturns(s) PROVE SignalType'
  <2>1. \A t \in Threads : stack[t] # <<>> => Front(stack[t]) \in Seq(Sigs)
    BY DEF Front
  <2> QED BY <1>26, <2>1 DEF HandlerReturns
<1>27. ASSUME NEW s \in Sigs, NEW t \in Threads, Deliver(s, t) PROVE SignalType'
  BY <1>27 DEF Deliver
<1>28. ASSUME NEW w \in Writers, Writes(w) PROVE SignalType'
  BY <1>28 DEF Writes, LogStep, Memset, Snprintf, SnprintfRefuses,
               SnprintfOverruns, Output
<1>29. CASE SignalFreed
  BY <1>29 DEF SignalFreed
<1>30. CASE AppJoined
  BY <1>30 DEF AppJoined
<1> QED BY <1>1, <1>2, <1>3, <1>4, <1>5, <1>6, <1>7, <1>8, <1>9, <1>10,
           <1>11, <1>12, <1>13, <1>14, <1>15, <1>16, <1>17, <1>18, <1>19,
           <1>20, <1>21, <1>22, <1>23, <1>24, <1>25, <1>26, <1>27, <1>28, <1>29,
           <1>30
        DEF Next, MainThread, Handler

(* RUN_CREATE, its roll-back and RUN_DESTROY keep to their order. *)
LEMMA StageStep ==
  ASSUME Inv, Next
  PROVE  Stage'
<1> USE DEF Inv, Stage, MType, Creating, Running, RollingBack, Destroying,
           Main, Runs, Creates, GoTo, Destroys, module_create, module_destroy,
           _ADD_SIGNAL, In, HandlerGoes, Readable, Lives, logVars, sigVars
<1>1. CASE HyLogCreate
  <2>1. /\ m.loop = "create" /\ m.at = "top" /\ m.i = 1
        /\ buf' # NULL
    BY <1>1, ZeroedCells, LogAssumption DEF HyLogCreate, Cells
  <2>2. /\ m'.loop = "create" /\ m'.i = 2 /\ m'.at = "top"
        /\ m' \in MType
    BY <1>1, <2>1, CreatedTo DEF HyLogCreate
  <2>3. context' = context /\ app' = app
    BY <1>1 DEF HyLogCreate
  <2> QED BY <2>1, <2>2, <2>3
<1>2. CASE HyLogCreateNoBuf
  BY <1>2 DEF HyLogCreateNoBuf
<1>3. CASE HySignalCreate
  BY <1>3 DEF HySignalCreate
<1>4. CASE AddErrorNum
  BY <1>4 DEF AddErrorNum
<1>5. CASE AddUserNum
  <2>1. m.loop = "create" /\ m.at = "user_num" /\ m.i = 2
    BY <1>5 DEF AddUserNum
  <2>2. /\ m'.loop = "create" /\ m'.i = 3 /\ m'.at = "top"
        /\ m' \in MType
    BY <1>5, <2>1, CreatedTo DEF AddUserNum
  <2>3. context' = context /\ app' = app /\ buf' = buf
    BY <1>5 DEF AddUserNum
  <2> QED BY <2>1, <2>2, <2>3
<1>6. CASE AppMalloc
  BY <1>6 DEF AppMalloc
<1>7. CASE AppCreate
  <2>1. m.loop = "create" /\ m.at = "malloc" /\ m.i = 3
    BY <1>7 DEF AppCreate
  <2>2. /\ m'.loop = "create" /\ m'.i = 4 /\ m'.at = "top"
        /\ m' \in MType
    BY <1>7, <2>1, CreatedTo DEF AppCreate
  <2>3. context' = context /\ app' = "on" /\ buf' = buf
    BY <1>7 DEF AppCreate
  <2> QED BY <2>1, <2>2, <2>3
<1>8. CASE CreateFails
  BY <1>8 DEF CreateFails
<1>9. CASE MainRuns
  BY <1>9 DEF MainRuns
<1>10. CASE MainEnds
  BY <1>10 DEF MainEnds
<1>11. CASE HyLogDestroy
  <2>1. /\ m.at = "top"
        /\ \/ m.loop = "rollback" /\ m.i = 1
           \/ m.loop = "destroy" /\ m.i = 3
    <3>1. CASE Main("rollback", "top") /\ m.i >= 1 /\ module_create[m.i] = "log"
      <4>1. m.loop = "rollback" /\ m.at = "top" /\ (m.i = 1 \/ m.i = 2)
        BY <3>1
      <4>2. m.i # 2
        BY <3>1
      <4> QED BY <4>1, <4>2
    <3>2. CASE /\ Main("destroy", "top")
               /\ m.i <= Len(module_destroy) /\ module_destroy[m.i] = "log"
      BY <3>2
    <3> QED BY <1>11, <3>1, <3>2 DEF HyLogDestroy
  <2>2. /\ m'.loop = m.loop /\ m'.at = "top" /\ m' \in MType
        /\ m'.i = IF m.loop = "rollback" THEN 0 ELSE 4
    BY <1>11, <2>1, DestroyedTo DEF HyLogDestroy
  <2>3. context' = context /\ app' = app /\ buf' = NULL
    BY <1>11 DEF HyLogDestroy
  <2> QED BY <2>1, <2>2, <2>3
<1>12. CASE HySignalDestroy
  BY <1>12 DEF HySignalDestroy
<1>13. CASE SignalDestroyed
  <2>1. /\ m.at = "freed" /\ m.i = 2
        /\ m.loop \in {"rollback", "destroy"}
    BY <1>13 DEF SignalDestroyed
  <2>2. /\ m'.loop = m.loop /\ m'.at = "top" /\ m' \in MType
        /\ m'.i = IF m.loop = "rollback" THEN 1 ELSE 3
    BY <1>13, <2>1, DestroyedTo DEF SignalDestroyed
  <2>3. context' = "none" /\ app' = app /\ buf' = buf
    BY <1>13 DEF SignalDestroyed
  <2> QED BY <2>1, <2>2, <2>3
<1>14. CASE AppStop
  BY <1>14 DEF AppStop
<1>15. CASE AppDestroy
  <2>1. m.at = "app_free" /\ m.i = 1 /\ m.loop = "destroy"
    BY <1>15 DEF AppDestroy
  <2>2. /\ m'.loop = "destroy" /\ m'.at = "top" /\ m' \in MType /\ m'.i = 2
    BY <1>15, <2>1, DestroyedTo DEF AppDestroy
  <2>3. app = "none" /\ context' = context /\ app' = app /\ buf' = buf
    BY <1>15 DEF AppDestroy
  <2> QED BY <2>1, <2>2, <2>3
<1>16. CASE MainReturns
  BY <1>16 DEF MainReturns
<1>17. CASE WorkerLogs
  BY <1>17 DEF WorkerLogs
<1>18. CASE WorkerEnds
  BY <1>18 DEF WorkerEnds
<1>19. ASSUME NEW s \in Sigs, _user_handler(s) PROVE Stage'
  BY <1>19 DEF _user_handler
<1>20. ASSUME NEW s \in Sigs, _error_handler(s) PROVE Stage'
  BY <1>20 DEF _error_handler
<1>21. ASSUME NEW s \in Sigs, ErrorReport(s) PROVE Stage'
  BY <1>21 DEF ErrorReport
<1>22. ASSUME NEW s \in Sigs, _dump_backtrace(s) PROVE Stage'
  BY <1>22 DEF _dump_backtrace
<1>23. ASSUME NEW s \in Sigs, ErrorExits(s) PROVE Stage'
  BY <1>23 DEF ErrorExits
<1>24. ASSUME NEW s \in Sigs, ErrorMaps(s) PROVE Stage'
  BY <1>24 DEF ErrorMaps
<1>25. ASSUME NEW s \in Sigs, HandlerCrashes(s) PROVE Stage'
  BY <1>25 DEF HandlerCrashes
<1>26. ASSUME NEW s \in Sigs, HandlerReturns(s) PROVE Stage'
  BY <1>26 DEF HandlerReturns
<1>27. ASSUME NEW s \in Sigs, NEW t \in Threads, Deliver(s, t) PROVE Stage'
  BY <1>27 DEF Deliver
<1>28. ASSUME NEW w \in Writers, Writes(w) PROVE Stage'
  <2>1. buf # NULL /\ buf' # NULL
    BY <1>28, WritesBuf DEF LogInv
  <2>2. UNCHANGED <<m, app, sigVars>> /\ status = "up" /\ status' # "returned"
    BY <1>28 DEF Writes, LogStep, Memset, Snprintf, SnprintfRefuses,
                SnprintfOverruns, Output
  <2> QED BY <2>1, <2>2
<1>29. CASE SignalFreed
  BY <1>29 DEF SignalFreed
<1>30. CASE AppJoined
  BY <1>30 DEF AppJoined
<1> QED BY <1>1, <1>2, <1>3, <1>4, <1>5, <1>6, <1>7, <1>8, <1>9, <1>10,
           <1>11, <1>12, <1>13, <1>14, <1>15, <1>16, <1>17, <1>18, <1>19,
           <1>20, <1>21, <1>22, <1>23, <1>24, <1>25, <1>26, <1>27, <1>28, <1>29,
           <1>30
        DEF Next, MainThread, Handler

(* The context comes before the first sigaction. *)
LEMMA ArmedStep ==
  ASSUME Inv, Next
  PROVE  Armed'
<1> USE DEF Inv, Stage, Creating, Running, SignalType, HandPc, Armed, Main,
            Runs, Creates, Created, GoTo, Destroys, Destroyed,
            module_create, module_destroy, _ADD_SIGNAL, In, HandlerGoes,
            Readable, Lives, logVars, sigVars
<1>1. CASE HyLogCreate
  BY <1>1 DEF HyLogCreate
<1>2. CASE HyLogCreateNoBuf
  BY <1>2 DEF HyLogCreateNoBuf
<1>3. CASE HySignalCreate
  BY <1>3 DEF HySignalCreate
<1>4. CASE AddErrorNum
  BY <1>4 DEF AddErrorNum
<1>5. CASE AddUserNum
  BY <1>5 DEF AddUserNum
<1>6. CASE AppMalloc
  BY <1>6 DEF AppMalloc
<1>7. CASE AppCreate
  BY <1>7 DEF AppCreate
<1>8. CASE CreateFails
  BY <1>8 DEF CreateFails
<1>9. CASE MainRuns
  BY <1>9 DEF MainRuns
<1>10. CASE MainEnds
  BY <1>10 DEF MainEnds
<1>11. CASE HyLogDestroy
  BY <1>11 DEF HyLogDestroy
<1>12. CASE HySignalDestroy
  BY <1>12 DEF HySignalDestroy
<1>13. CASE SignalDestroyed
  BY <1>13 DEF SignalDestroyed
<1>14. CASE AppStop
  BY <1>14 DEF AppStop
<1>15. CASE AppDestroy
  BY <1>15 DEF AppDestroy
<1>16. CASE MainReturns
  BY <1>16 DEF MainReturns
<1>17. CASE WorkerLogs
  BY <1>17 DEF WorkerLogs
<1>18. CASE WorkerEnds
  BY <1>18 DEF WorkerEnds
<1>19. ASSUME NEW s \in Sigs, _user_handler(s) PROVE Armed'
  BY <1>19 DEF _user_handler
<1>20. ASSUME NEW s \in Sigs, _error_handler(s) PROVE Armed'
  BY <1>20 DEF _error_handler
<1>21. ASSUME NEW s \in Sigs, ErrorReport(s) PROVE Armed'
  BY <1>21 DEF ErrorReport
<1>22. ASSUME NEW s \in Sigs, _dump_backtrace(s) PROVE Armed'
  BY <1>22 DEF _dump_backtrace
<1>23. ASSUME NEW s \in Sigs, ErrorExits(s) PROVE Armed'
  BY <1>23 DEF ErrorExits
<1>24. ASSUME NEW s \in Sigs, ErrorMaps(s) PROVE Armed'
  BY <1>24 DEF ErrorMaps
<1>25. ASSUME NEW s \in Sigs, HandlerCrashes(s) PROVE Armed'
  BY <1>25 DEF HandlerCrashes
<1>26. ASSUME NEW s \in Sigs, HandlerReturns(s) PROVE Armed'
  BY <1>26 DEF HandlerReturns
<1>27. ASSUME NEW s \in Sigs, NEW t \in Threads, Deliver(s, t) PROVE Armed'
  BY <1>27 DEF Deliver
<1>28. ASSUME NEW w \in Writers, Writes(w) PROVE Armed'
  BY <1>28 DEF Writes, LogStep, Memset, Snprintf, SnprintfRefuses,
               SnprintfOverruns, Output
<1>29. CASE SignalFreed
  BY <1>29 DEF SignalFreed
<1>30. CASE AppJoined
  BY <1>30 DEF AppJoined
<1> QED BY <1>1, <1>2, <1>3, <1>4, <1>5, <1>6, <1>7, <1>8, <1>9, <1>10,
           <1>11, <1>12, <1>13, <1>14, <1>15, <1>16, <1>17, <1>18, <1>19,
           <1>20, <1>21, <1>22, <1>23, <1>24, <1>25, <1>26, <1>27, <1>28, <1>29,
           <1>30
        DEF Next, MainThread, Handler

(* main returns at the end of the roll-back or of RUN_DESTROY. *)
LEMMA ReturnedStep ==
  ASSUME Inv, Next
  PROVE  Returned'
<1> USE DEF Inv, Stage, MType, RollingBack, Destroying, Returned, Main,
            Runs, Creates, Created, GoTo, Destroys, Destroyed,
            module_create, module_destroy, _ADD_SIGNAL, In, HandlerGoes,
            Readable, Lives, logVars, sigVars
<1>1. CASE HyLogCreate
  BY <1>1 DEF HyLogCreate
<1>2. CASE HyLogCreateNoBuf
  BY <1>2 DEF HyLogCreateNoBuf
<1>3. CASE HySignalCreate
  BY <1>3 DEF HySignalCreate
<1>4. CASE AddErrorNum
  BY <1>4 DEF AddErrorNum
<1>5. CASE AddUserNum
  BY <1>5 DEF AddUserNum
<1>6. CASE AppMalloc
  BY <1>6 DEF AppMalloc
<1>7. CASE AppCreate
  BY <1>7 DEF AppCreate
<1>8. CASE CreateFails
  BY <1>8 DEF CreateFails
<1>9. CASE MainRuns
  BY <1>9 DEF MainRuns
<1>10. CASE MainEnds
  BY <1>10 DEF MainEnds
<1>11. CASE HyLogDestroy
  BY <1>11 DEF HyLogDestroy
<1>12. CASE HySignalDestroy
  BY <1>12 DEF HySignalDestroy
<1>13. CASE SignalDestroyed
  BY <1>13 DEF SignalDestroyed
<1>14. CASE AppStop
  BY <1>14 DEF AppStop
<1>15. CASE AppDestroy
  BY <1>15 DEF AppDestroy
<1>16. CASE MainReturns
  BY <1>16 DEF MainReturns
<1>17. CASE WorkerLogs
  BY <1>17 DEF WorkerLogs
<1>18. CASE WorkerEnds
  BY <1>18 DEF WorkerEnds
<1>19. ASSUME NEW s \in Sigs, _user_handler(s) PROVE Returned'
  BY <1>19 DEF _user_handler
<1>20. ASSUME NEW s \in Sigs, _error_handler(s) PROVE Returned'
  BY <1>20 DEF _error_handler
<1>21. ASSUME NEW s \in Sigs, ErrorReport(s) PROVE Returned'
  BY <1>21 DEF ErrorReport
<1>22. ASSUME NEW s \in Sigs, _dump_backtrace(s) PROVE Returned'
  BY <1>22 DEF _dump_backtrace
<1>23. ASSUME NEW s \in Sigs, ErrorExits(s) PROVE Returned'
  BY <1>23 DEF ErrorExits
<1>24. ASSUME NEW s \in Sigs, ErrorMaps(s) PROVE Returned'
  BY <1>24 DEF ErrorMaps
<1>25. ASSUME NEW s \in Sigs, HandlerCrashes(s) PROVE Returned'
  BY <1>25 DEF HandlerCrashes
<1>26. ASSUME NEW s \in Sigs, HandlerReturns(s) PROVE Returned'
  BY <1>26 DEF HandlerReturns
<1>27. ASSUME NEW s \in Sigs, NEW t \in Threads, Deliver(s, t) PROVE Returned'
  BY <1>27 DEF Deliver
<1>28. ASSUME NEW w \in Writers, Writes(w) PROVE Returned'
  <2>1. buf # NULL /\ buf' # NULL
    BY <1>28, WritesBuf DEF LogInv
  <2>2. status' # "returned"
    BY <1>28 DEF Writes, LogStep, Memset, Snprintf, SnprintfRefuses,
                SnprintfOverruns, Output
  <2> QED BY <2>1, <2>2
<1>29. CASE SignalFreed
  BY <1>29 DEF SignalFreed
<1>30. CASE AppJoined
  BY <1>30 DEF AppJoined
<1> QED BY <1>1, <1>2, <1>3, <1>4, <1>5, <1>6, <1>7, <1>8, <1>9, <1>10,
           <1>11, <1>12, <1>13, <1>14, <1>15, <1>16, <1>17, <1>18, <1>19,
           <1>20, <1>21, <1>22, <1>23, <1>24, <1>25, <1>26, <1>27, <1>28, <1>29,
           <1>30
        DEF Next, MainThread, Handler

(* The program crashes without a buffer, or in a handler without a context. *)
LEMMA HandlersStep ==
  ASSUME Inv, Next
  PROVE  HandlersSafe'
<1> USE DEF Inv, Stage, Creating, Running, Armed, HandlersSafe, Main, Runs,
            Creates, Created, GoTo, Destroys, Destroyed, module_create,
            module_destroy, _ADD_SIGNAL, In, HandlerGoes, Readable, Lives,
            logVars, sigVars
<1>1. CASE HyLogCreate
  BY <1>1 DEF HyLogCreate
<1>2. CASE HyLogCreateNoBuf
  BY <1>2 DEF HyLogCreateNoBuf
<1>3. CASE HySignalCreate
  BY <1>3 DEF HySignalCreate
<1>4. CASE AddErrorNum
  BY <1>4 DEF AddErrorNum
<1>5. CASE AddUserNum
  BY <1>5 DEF AddUserNum
<1>6. CASE AppMalloc
  BY <1>6 DEF AppMalloc
<1>7. CASE AppCreate
  BY <1>7 DEF AppCreate
<1>8. CASE CreateFails
  BY <1>8 DEF CreateFails
<1>9. CASE MainRuns
  BY <1>9 DEF MainRuns
<1>10. CASE MainEnds
  BY <1>10 DEF MainEnds
<1>11. CASE HyLogDestroy
  BY <1>11 DEF HyLogDestroy
<1>12. CASE HySignalDestroy
  BY <1>12 DEF HySignalDestroy
<1>13. CASE SignalDestroyed
  BY <1>13 DEF SignalDestroyed
<1>14. CASE AppStop
  BY <1>14 DEF AppStop
<1>15. CASE AppDestroy
  BY <1>15 DEF AppDestroy
<1>16. CASE MainReturns
  BY <1>16 DEF MainReturns
<1>17. CASE WorkerLogs
  BY <1>17 DEF WorkerLogs
<1>18. CASE WorkerEnds
  BY <1>18 DEF WorkerEnds
<1>19. ASSUME NEW s \in Sigs, _user_handler(s) PROVE HandlersSafe'
  BY <1>19 DEF _user_handler
<1>20. ASSUME NEW s \in Sigs, _error_handler(s) PROVE HandlersSafe'
  BY <1>20 DEF _error_handler
<1>21. ASSUME NEW s \in Sigs, ErrorReport(s) PROVE HandlersSafe'
  BY <1>21 DEF ErrorReport
<1>22. ASSUME NEW s \in Sigs, _dump_backtrace(s) PROVE HandlersSafe'
  BY <1>22 DEF _dump_backtrace
<1>23. ASSUME NEW s \in Sigs, ErrorExits(s) PROVE HandlersSafe'
  BY <1>23 DEF ErrorExits
<1>24. ASSUME NEW s \in Sigs, ErrorMaps(s) PROVE HandlersSafe'
  BY <1>24 DEF ErrorMaps
<1>25. ASSUME NEW s \in Sigs, HandlerCrashes(s) PROVE HandlersSafe'
  <2>1. hand[s] # "none" /\ context # "up"
    BY <1>25 DEF HandlerCrashes
  <2>2. m.loop \notin {"create", "run"}
    BY <2>1
  <2>3. m' = m /\ context' = context
    BY <1>25 DEF HandlerCrashes
  <2>4. m.loop \in {"rollback", "destroy"}
    BY <2>2 DEF MType
  <2> QED BY <2>1, <2>3, <2>4
<1>26. ASSUME NEW s \in Sigs, HandlerReturns(s) PROVE HandlersSafe'
  BY <1>26 DEF HandlerReturns
<1>27. ASSUME NEW s \in Sigs, NEW t \in Threads, Deliver(s, t)
       PROVE  HandlersSafe'
  BY <1>27 DEF Deliver
<1>28. ASSUME NEW w \in Writers, Writes(w) PROVE HandlersSafe'
  BY <1>28 DEF Writes, LogStep, Memset, Snprintf, SnprintfRefuses,
               SnprintfOverruns, Output
<1>29. CASE SignalFreed
  BY <1>29 DEF SignalFreed
<1>30. CASE AppJoined
  BY <1>30 DEF AppJoined
<1> QED BY <1>1, <1>2, <1>3, <1>4, <1>5, <1>6, <1>7, <1>8, <1>9, <1>10,
           <1>11, <1>12, <1>13, <1>14, <1>15, <1>16, <1>17, <1>18, <1>19,
           <1>20, <1>21, <1>22, <1>23, <1>24, <1>25, <1>26, <1>27, <1>28, <1>29,
           <1>30
        DEF Next, MainThread, Handler

(* A step that leaves the log alone. *)
LEMMA LogQuiet ==
  ASSUME LogInv, UNCHANGED <<buf, wr>>, status' # "overrun"
  PROVE  LogInv'
  BY DEF LogInv, LogType, Printed, OwnCells, Filled, BufferSafe, HasLog

(* A step that begins a line. *)
LEMMA LogsLineStep ==
  ASSUME LogInv, NEW w \in Writers, wr[w] = NULL, LogsLine(w), buf' = buf,
         status' # "overrun"
  PROVE  LogInv'
<1>1. PICK n \in MsgLens[w] : HyLogWrite(w, n)
  BY DEF LogsLine
<1> QED BY <1>1, WriteBegins

(* No handler is left on threads that are not interrupted, nor a line of
   anyone when the worker is gone. *)
LEMMA AllGone ==
  ASSUME Inv, Runs(main), app = "none"
  PROVE  \A w \in Writers : wr[w] = NULL
<1>1. /\ stack[main] = <<>> /\ wr[main] = NULL
      /\ stack[worker] = <<>> /\ wr[worker] = NULL
  BY DEF Inv, Gone, Runs
<1>2. \A s \in Sigs : ~OnStack(s)
  BY <1>1 DEF OnStack, Threads
<1>3. \A s \in Sigs : wr[s] = NULL
  BY <1>2 DEF Inv, Gone, Busy
<1> QED BY <1>1, <1>3, ServicesAssumption DEF Threads

(* Whatever the program does, the log is in order. *)
LEMMA LogInvStep ==
  ASSUME Inv, Next
  PROVE  LogInv'
<1> USE ServicesAssumption DEF Inv, Threads, Main, Runs, Creates, Created,
                               GoTo, Destroys, Destroyed, module_create,
                               module_destroy, _ADD_SIGNAL, In, HandlerGoes,
                               Readable, Lives, logVars, sigVars
<1>1. CASE HyLogCreate
  <2>1. buf = NULL /\ buf' = Zeroed /\ wr' = wr /\ status' # "overrun"
    BY <1>1 DEF HyLogCreate, Stage, Creating
  <2>2. \A v \in Writers : wr[v] = NULL
    BY <2>1 DEF LogInv, HasLog
  <2>3. buf' # NULL
    BY <2>1, ZeroedCells, LogAssumption DEF Cells
  <2> QED BY <2>1, <2>2, <2>3, ZeroedCells
          DEF LogInv, LogType, Printed, OwnCells, BufferSafe, HasLog
<1>2. CASE HyLogCreateNoBuf
  BY <1>2, LogQuiet DEF HyLogCreateNoBuf
<1>3. CASE HySignalCreate
  BY <1>3, LogQuiet DEF HySignalCreate
<1>4. CASE AddErrorNum
  BY <1>4, LogQuiet DEF AddErrorNum
<1>5. CASE AddUserNum
  <2>1. LogsLine(main) /\ wr[main] = NULL /\ buf' = buf /\ status' # "overrun"
    BY <1>5 DEF AddUserNum
  <2> QED BY <2>1, LogsLineStep
<1>6. CASE AppMalloc
  BY <1>6, LogQuiet DEF AppMalloc
<1>7. CASE AppCreate
  BY <1>7, LogQuiet DEF AppCreate
<1>8. CASE CreateFails
  <2>1. LogsLine(main) /\ wr[main] = NULL /\ buf' = buf /\ status' # "overrun"
    BY <1>8 DEF CreateFails
  <2> QED BY <2>1, LogsLineStep
<1>9. CASE MainRuns
  <2>1. LogsLine(main) /\ wr[main] = NULL /\ buf' = buf /\ status' # "overrun"
    BY <1>9 DEF MainRuns
  <2> QED BY <2>1, LogsLineStep
<1>10. CASE MainEnds
  BY <1>10, LogQuiet DEF MainEnds
<1>11. CASE HyLogDestroy
  <2>1. /\ Runs(main) /\ app = "none"
        /\ buf' = NULL /\ wr' = wr /\ status' # "overrun"
    BY <1>11 DEF HyLogDestroy, Stage, RollingBack, Destroying
  <2>2. \A v \in Writers : wr[v] = NULL
    BY <2>1, AllGone
  <2> QED BY <2>1, <2>2
          DEF LogInv, LogType, Printed, OwnCells, BufferSafe, HasLog
<1>12. CASE HySignalDestroy
  BY <1>12, LogQuiet DEF HySignalDestroy
<1>13. CASE SignalDestroyed
  <2>1. LogsLine(main) /\ wr[main] = NULL /\ buf' = buf /\ status' # "overrun"
    BY <1>13 DEF SignalDestroyed
  <2> QED BY <2>1, LogsLineStep
<1>14. CASE AppStop
  BY <1>14, LogQuiet DEF AppStop
<1>15. CASE AppDestroy
  BY <1>15, LogQuiet DEF AppDestroy
<1>16. CASE MainReturns
  BY <1>16, LogQuiet DEF MainReturns
<1>17. CASE WorkerLogs
  <2>1. /\ LogsLine(worker) /\ wr[worker] = NULL
        /\ buf' = buf /\ status' # "overrun"
    BY <1>17 DEF WorkerLogs
  <2> QED BY <2>1, LogsLineStep
<1>18. CASE WorkerEnds
  BY <1>18, LogQuiet DEF WorkerEnds
<1>19. ASSUME NEW s \in Sigs, _user_handler(s) PROVE LogInv'
  <2>1. LogsLine(s) /\ wr[s] = NULL /\ buf' = buf /\ status' # "overrun"
    BY <1>19 DEF _user_handler
  <2> QED BY <2>1, LogsLineStep
<1>20. ASSUME NEW s \in Sigs, _error_handler(s) PROVE LogInv'
  BY <1>20, LogQuiet DEF _error_handler
<1>21. ASSUME NEW s \in Sigs, ErrorReport(s) PROVE LogInv'
  <2>1. LogsLine(s) /\ wr[s] = NULL /\ buf' = buf /\ status' # "overrun"
    BY <1>21 DEF ErrorReport
  <2> QED BY <2>1, LogsLineStep
<1>22. ASSUME NEW s \in Sigs, _dump_backtrace(s) PROVE LogInv'
  BY <1>22, LogQuiet DEF _dump_backtrace
<1>23. ASSUME NEW s \in Sigs, ErrorExits(s) PROVE LogInv'
  BY <1>23, LogQuiet DEF ErrorExits
<1>24. ASSUME NEW s \in Sigs, ErrorMaps(s) PROVE LogInv'
  BY <1>24, LogQuiet DEF ErrorMaps
<1>25. ASSUME NEW s \in Sigs, HandlerCrashes(s) PROVE LogInv'
  BY <1>25, LogQuiet DEF HandlerCrashes
<1>26. ASSUME NEW s \in Sigs, HandlerReturns(s) PROVE LogInv'
  BY <1>26, LogQuiet DEF HandlerReturns
<1>27. ASSUME NEW s \in Sigs, NEW t \in Threads, Deliver(s, t) PROVE LogInv'
  BY <1>27, LogQuiet DEF Deliver
<1>28. ASSUME NEW w \in Writers, Writes(w) PROVE LogInv'
  <2>1. LogStep(w) /\ status = "up"
    BY <1>28 DEF Writes
  <2> QED BY <2>1, LogStepInv
<1>29. CASE SignalFreed
  BY <1>29, LogQuiet DEF SignalFreed
<1>30. CASE AppJoined
  BY <1>30, LogQuiet DEF AppJoined
<1> QED BY <1>1, <1>2, <1>3, <1>4, <1>5, <1>6, <1>7, <1>8, <1>9, <1>10,
           <1>11, <1>12, <1>13, <1>14, <1>15, <1>16, <1>17, <1>18, <1>19,
           <1>20, <1>21, <1>22, <1>23, <1>24, <1>25, <1>26, <1>27, <1>28, <1>29,
           <1>30
        DEF Next, MainThread, Handler

(* A line begins for the one that logs it only. *)
LEMMA LineOnly ==
  ASSUME NEW w \in Writers, LogsLine(w)
  PROVE  \A v \in Writers \ {w} : wr[v] = NULL => wr'[v] = NULL
<1>1. PICK n \in MsgLens[w] : HyLogWrite(w, n)
  BY DEF LogsLine
<1>2. CASE buf = NULL
  BY <1>1, <1>2 DEF HyLogWrite
<1>3. CASE buf # NULL
  <2> SUFFICES ASSUME NEW v \in Writers \ {w}, wr[v] = NULL PROVE wr'[v] = NULL
    OBVIOUS
  <2> QED BY <1>1, <1>3 DEF HyLogWrite
<1> QED BY <1>2, <1>3

(* A step of a line that has begun begins none. *)
LEMMA WritesOnly ==
  ASSUME Inv, NEW w \in Writers, Writes(w)
  PROVE  \A v \in Writers : wr[v] = NULL => wr'[v] = NULL
<1>1. wr[w] # NULL /\ \E c : wr' = [wr EXCEPT ![w] = c]
  <2>1. CASE Memset(w)
    BY <2>1 DEF Memset
  <2>2. CASE Snprintf(w)
    BY <2>2 DEF Snprintf, NextPiece, InPiece
  <2>3. CASE SnprintfRefuses(w)
    BY <2>3 DEF SnprintfRefuses, NextPiece, InPiece
  <2>4. CASE SnprintfOverruns(w)
    <3>1. wr' = wr /\ wr[w] # NULL
      BY <2>4 DEF SnprintfOverruns, InPiece
    <3>2. wr = [wr EXCEPT ![w] = wr[w]]
      BY DEF Inv, LogInv, LogType
    <3> QED BY <3>1, <3>2
  <2>5. CASE Output(w)
    BY <2>5 DEF Output
  <2> QED BY <2>1, <2>2, <2>3, <2>4, <2>5 DEF Writes, LogStep
<1>2. PICK c : wr' = [wr EXCEPT ![w] = c]
  BY <1>1
<1>3. wr \in [Writers -> Call \union {NULL}]
  BY DEF Inv, LogInv, LogType
<1> QED BY <1>1, <1>2, <1>3

(* Whoever is not the one that logs is as quiet as before. *)
LEMMA GoneLogs ==
  ASSUME Inv, NEW w \in Writers, LogsLine(w), UNCHANGED stack,
         app' = "none" => app = "none" /\ w # worker,
         \A s \in Sigs : Busy(s)' <=> Busy(s),
         w \in Sigs => Busy(w)
  PROVE  Gone'
<1>1. \A v \in Writers \ {w} : wr[v] = NULL => wr'[v] = NULL
  BY LineOnly
<1>2. worker \in Writers /\ Sigs \subseteq Writers
  BY ServicesAssumption DEF Threads
<1> QED BY <1>1, <1>2 DEF Inv, Gone, OnStack, Busy

(* A step that logs nothing and in which no handler comes or goes. *)
LEMMA GoneQuiet ==
  ASSUME Inv, \A v \in Writers : wr[v] = NULL => wr'[v] = NULL,
         UNCHANGED stack,
         app' = "none" => app = "none" \/ Runs(worker),
         \A s \in Sigs : Busy(s)' <=> Busy(s)
  PROVE  Gone'
<1>1. worker \in Writers /\ Sigs \subseteq Writers
  BY ServicesAssumption DEF Threads
<1> QED BY <1>1 DEF Inv, Gone, OnStack, Busy, Runs

(* Threads end, and handlers return, outside the log. *)
LEMMA GoneStep ==
  ASSUME Inv, Next
  PROVE  Gone'
<1> USE DEF Inv, SignalType, HandPc, Busy, Main, Creates, Created, GoTo, Destroys,
            Destroyed, module_create, module_destroy, _ADD_SIGNAL, In,
            HandlerGoes, Readable, logVars, sigVars
<1>1. CASE HyLogCreate
  <2>1. /\ UNCHANGED <<wr, stack, hand>>
        /\ app' = "none" => app = "none" \/ Runs(worker)
    BY <1>1 DEF HyLogCreate
  <2> QED BY <2>1, GoneQuiet
<1>2. CASE HyLogCreateNoBuf
  <2>1. /\ UNCHANGED <<wr, stack, hand>>
        /\ app' = "none" => app = "none" \/ Runs(worker)
    BY <1>2 DEF HyLogCreateNoBuf
  <2> QED BY <2>1, GoneQuiet
<1>3. CASE HySignalCreate
  <2>1. /\ UNCHANGED <<wr, stack, hand>>
        /\ app' = "none" => app = "none" \/ Runs(worker)
    BY <1>3 DEF HySignalCreate
  <2> QED BY <2>1, GoneQuiet
<1>4. CASE AddErrorNum
  <2>1. /\ UNCHANGED <<wr, stack, hand>>
        /\ app' = "none" => app = "none" \/ Runs(worker)
    BY <1>4 DEF AddErrorNum
  <2> QED BY <2>1, GoneQuiet
<1>5. CASE AddUserNum
  <2>1. LogsLine(main) /\ UNCHANGED <<app, stack, hand>>
    BY <1>5 DEF AddUserNum
  <2>2. main \in Writers /\ main # worker /\ main \notin Sigs
    BY ServicesAssumption DEF Threads
  <2> QED BY <2>1, <2>2, GoneLogs
<1>6. CASE AppMalloc
  <2>1. /\ UNCHANGED <<wr, stack, hand>>
        /\ app' = "none" => app = "none" \/ Runs(worker)
    BY <1>6 DEF AppMalloc
  <2> QED BY <2>1, GoneQuiet
<1>7. CASE AppCreate
  <2>1. /\ UNCHANGED <<wr, stack, hand>>
        /\ app' = "none" => app = "none" \/ Runs(worker)
    BY <1>7 DEF AppCreate
  <2> QED BY <2>1, GoneQuiet
<1>8. CASE CreateFails
  <2>1. LogsLine(main) /\ UNCHANGED <<app, stack, hand>>
    BY <1>8 DEF CreateFails
  <2>2. main \in Writers /\ main # worker /\ main \notin Sigs
    BY ServicesAssumption DEF Threads
  <2> QED BY <2>1, <2>2, GoneLogs
<1>9. CASE MainRuns
  <2>1. LogsLine(main) /\ UNCHANGED <<app, stack, hand>>
    BY <1>9 DEF MainRuns
  <2>2. main \in Writers /\ main # worker /\ main \notin Sigs
    BY ServicesAssumption DEF Threads
  <2> QED BY <2>1, <2>2, GoneLogs
<1>10. CASE MainEnds
  <2>1. /\ UNCHANGED <<wr, stack, hand>>
        /\ app' = "none" => app = "none" \/ Runs(worker)
    BY <1>10 DEF MainEnds
  <2> QED BY <2>1, GoneQuiet
<1>11. CASE HyLogDestroy
  <2>1. /\ UNCHANGED <<wr, stack, hand>>
        /\ app' = "none" => app = "none" \/ Runs(worker)
    BY <1>11 DEF HyLogDestroy
  <2> QED BY <2>1, GoneQuiet
<1>12. CASE HySignalDestroy
  <2>1. /\ UNCHANGED <<wr, stack, hand>>
        /\ app' = "none" => app = "none" \/ Runs(worker)
    BY <1>12 DEF HySignalDestroy
  <2> QED BY <2>1, GoneQuiet
<1>13. CASE SignalDestroyed
  <2>1. LogsLine(main) /\ UNCHANGED <<app, stack, hand>>
    BY <1>13 DEF SignalDestroyed
  <2>2. main \in Writers /\ main # worker /\ main \notin Sigs
    BY ServicesAssumption DEF Threads
  <2> QED BY <2>1, <2>2, GoneLogs
<1>14. CASE AppStop
  <2>1. /\ UNCHANGED <<wr, stack, hand>>
        /\ app' = "none" => app = "none" \/ Runs(worker)
    BY <1>14 DEF AppStop
  <2> QED BY <2>1, GoneQuiet
<1>15. CASE AppDestroy
  <2>1. /\ UNCHANGED <<wr, stack, hand>>
        /\ app' = "none" => app = "none" \/ Runs(worker)
    BY <1>15 DEF AppDestroy
  <2> QED BY <2>1, GoneQuiet
<1>16. CASE MainReturns
  <2>1. /\ UNCHANGED <<wr, stack, hand>>
        /\ app' = "none" => app = "none" \/ Runs(worker)
    BY <1>16 DEF MainReturns
  <2> QED BY <2>1, GoneQuiet
<1>17. CASE WorkerLogs
  <2>1. LogsLine(worker) /\ app = "on" /\ UNCHANGED <<app, stack, hand>>
    BY <1>17 DEF WorkerLogs
  <2>2. worker \in Writers /\ worker \notin Sigs
    BY ServicesAssumption DEF Threads
  <2> QED BY <2>1, <2>2, GoneLogs
<1>18. CASE WorkerEnds
  <2>1. /\ UNCHANGED <<wr, stack, hand>>
        /\ app' = "none" => app = "none" \/ Runs(worker)
    BY <1>18 DEF WorkerEnds
  <2> QED BY <2>1, GoneQuiet
<1>19. ASSUME NEW s \in Sigs, _user_handler(s) PROVE Gone'
  <2>1. /\ LogsLine(s) /\ UNCHANGED <<app, stack>> /\ Busy(s)
        /\ \A u \in Sigs : Busy(u)' <=> Busy(u)
    BY <1>19 DEF _user_handler
  <2>2. s \in Writers /\ s # worker
    BY ServicesAssumption DEF Threads
  <2> QED BY <2>1, <2>2, GoneLogs
<1>20. ASSUME NEW s \in Sigs, _error_handler(s) PROVE Gone'
  <2>1. /\ UNCHANGED <<wr, app, stack>>
        /\ \A u \in Sigs : Busy(u)' <=> Busy(u)
    BY <1>20 DEF _error_handler
  <2> QED BY <2>1, GoneQuiet
<1>21. ASSUME NEW s \in Sigs, ErrorReport(s) PROVE Gone'
  <2>1. /\ LogsLine(s) /\ UNCHANGED <<app, stack>> /\ Busy(s)
        /\ \A u \in Sigs : Busy(u)' <=> Busy(u)
    BY <1>21 DEF ErrorReport
  <2>2. s \in Writers /\ s # worker
    BY ServicesAssumption DEF Threads
  <2> QED BY <2>1, <2>2, GoneLogs
<1>22. ASSUME NEW s \in Sigs, _dump_backtrace(s) PROVE Gone'
  <2>1. /\ UNCHANGED <<wr, app, stack>>
        /\ \A u \in Sigs : Busy(u)' <=> Busy(u)
    BY <1>22 DEF _dump_backtrace
  <2> QED BY <2>1, GoneQuiet
<1>23. ASSUME NEW s \in Sigs, ErrorExits(s) PROVE Gone'
  <2>1. /\ UNCHANGED <<wr, app, stack>>
        /\ \A u \in Sigs : Busy(u)' <=> Busy(u)
    BY <1>23 DEF ErrorExits
  <2> QED BY <2>1, GoneQuiet
<1>24. ASSUME NEW s \in Sigs, ErrorMaps(s) PROVE Gone'
  <2>1. /\ UNCHANGED <<wr, app, stack>>
        /\ \A u \in Sigs : Busy(u)' <=> Busy(u)
    BY <1>24 DEF ErrorMaps
  <2> QED BY <2>1, GoneQuiet
<1>25. ASSUME NEW s \in Sigs, HandlerCrashes(s) PROVE Gone'
  <2>1. /\ UNCHANGED <<wr, app, stack>>
        /\ \A u \in Sigs : Busy(u)' <=> Busy(u)
    BY <1>25 DEF HandlerCrashes
  <2> QED BY <2>1, GoneQuiet
<1>26. ASSUME NEW s \in Sigs, HandlerReturns(s) PROVE Gone'
  <2>1. /\ wr[s] = NULL /\ UNCHANGED <<wr, app>>
        /\ hand' = [hand EXCEPT ![s] = "done"]
        /\ stack' = [t \in Threads |-> IF stack[t] # <<>> /\ Last(stack[t]) = s
                                       THEN Front(stack[t]) ELSE stack[t]]
    BY <1>26 DEF HandlerReturns
  <2>2. worker \in Threads
    BY DEF Threads
  <2>3. ASSUME NEW u \in Sigs, Busy(u)'
        PROVE  OnStack(u)'
    <3>1. u # s /\ Busy(u)
      BY <2>1, <2>3
    <3>0. PICK t \in Threads : \E k \in 1..Len(stack[t]) : stack[t][k] = u
      BY <3>1 DEF Gone, OnStack
    <3>2. PICK k \in 1..Len(stack[t]) : stack[t][k] = u
      BY <3>0
    <3>3. CASE stack[t] # <<>> /\ Last(stack[t]) = s
      <4>1. k # Len(stack[t])
        BY <3>1, <3>2, <3>3 DEF Last
      <4>2. stack[t] \in Seq(Sigs)
        OBVIOUS
      <4>3. k \in 1..Len(Front(stack[t])) /\ Front(stack[t])[k] = u
        BY <3>2, <4>1, <4>2 DEF Front
      <4>4. stack'[t] = Front(stack[t])
        BY <2>1, <3>3
      <4> QED BY <4>3, <4>4 DEF OnStack
    <3>4. CASE ~(stack[t] # <<>> /\ Last(stack[t]) = s)
      <4>1. stack'[t] = stack[t]
        BY <2>1, <3>4
      <4> QED BY <3>2, <4>1 DEF OnStack
    <3> QED BY <3>3, <3>4
  <2>4. app' = "none" => wr'[worker] = NULL /\ stack'[worker] = <<>>
    BY <2>1, <2>2 DEF Gone
  <2>5. ASSUME NEW u \in Sigs, wr'[u] # NULL PROVE Busy(u)'
    BY <2>1, <2>5 DEF Gone
  <2> QED BY <2>3, <2>4, <2>5 DEF Gone
<1>27. ASSUME NEW s \in Sigs, NEW t \in Threads, Deliver(s, t) PROVE Gone'
  <2>1. /\ Lives(t) /\ disp[s] # "default" /\ UNCHANGED <<wr, app>>
        /\ hand' = [hand EXCEPT ![s] = disp[s]]
        /\ stack' = [stack EXCEPT ![t] = Append(stack[t], s)]
    BY <1>27 DEF Deliver
  <2>2. worker \in Threads /\ main # worker
    BY ServicesAssumption DEF Threads
  <2>3. ASSUME NEW u \in Sigs, Busy(u)'
        PROVE  OnStack(u)'
    <3>1. stack[t] \in Seq(Sigs) /\ stack'[t] = Append(stack[t], s)
      BY <2>1
    <3>2. CASE u = s
      <4>1. /\ Len(stack[t]) + 1 \in 1..Len(stack'[t])
            /\ stack'[t][Len(stack[t]) + 1] = u
        BY <3>1, <3>2
      <4> QED BY <4>1 DEF OnStack
    <3>3. CASE u # s
      <4>1. Busy(u)
        BY <2>1, <2>3, <3>3
      <4>0. PICK t2 \in Threads : \E k \in 1..Len(stack[t2]) : stack[t2][k] = u
        BY <4>1 DEF Gone, OnStack
      <4>2. PICK k \in 1..Len(stack[t2]) : stack[t2][k] = u
        BY <4>0
      <4>3. k \in 1..Len(stack'[t2]) /\ stack'[t2][k] = u
        <5>1. CASE t2 = t
          BY <3>1, <4>2, <5>1
        <5>2. CASE t2 # t
          BY <2>1, <4>2, <5>2
        <5> QED BY <5>1, <5>2
      <4> QED BY <4>3 DEF OnStack
    <3> QED BY <3>2, <3>3
  <2>4. app' = "none" => wr'[worker] = NULL /\ stack'[worker] = <<>>
    BY <2>1, <2>2 DEF Gone, Lives
  <2>5. ASSUME NEW u \in Sigs, wr'[u] # NULL PROVE Busy(u)'
    BY <2>1, <2>5 DEF Gone
  <2> QED BY <2>3, <2>4, <2>5 DEF Gone
<1>28. ASSUME NEW w \in Writers, Writes(w) PROVE Gone'
  <2>1. UNCHANGED <<stack, hand, app>>
    BY <1>28 DEF Writes
  <2> QED BY <1>28, <2>1, WritesOnly, GoneQuiet
<1>29. CASE SignalFreed
  <2>1. /\ UNCHANGED <<wr, stack, hand>>
        /\ app' = "none" => app = "none" \/ Runs(worker)
    BY <1>29 DEF SignalFreed
  <2> QED BY <2>1, GoneQuiet
<1>30. CASE AppJoined
  <2>1. /\ UNCHANGED <<wr, stack, hand>>
        /\ app' = "none" => app = "none" \/ Runs(worker)
    BY <1>30 DEF AppJoined
  <2> QED BY <2>1, GoneQuiet
<1> QED BY <1>1, <1>2, <1>3, <1>4, <1>5, <1>6, <1>7, <1>8, <1>9, <1>10,
           <1>11, <1>12, <1>13, <1>14, <1>15, <1>16, <1>17, <1>18, <1>19,
           <1>20, <1>21, <1>22, <1>23, <1>24, <1>25, <1>26, <1>27, <1>28, <1>29,
           <1>30
        DEF Next, MainThread, Handler

-----------------------------------------------------------------------------
(* The invariant holds throughout, and what follows from it.               *)

(* No log, no handler and no worker at the start. *)
LEMMA InvInit == Init => Inv
<1> SUFFICES ASSUME Init PROVE Inv
  OBVIOUS
<1> USE DEF Init
<1>1. LogInv
  BY DEF LogInv, LogType, Printed, OwnCells, BufferSafe, HasLog
<1>2. SignalType
  <2>1. <<>> \in Seq(Sigs)
    OBVIOUS
  <2> QED BY <2>1 DEF SignalType, HandPc
<1>3. Stage
  BY DEF Stage, MType, Creating, Running, RollingBack, Destroying
<1>4. Armed /\ Returned /\ HandlersSafe
  BY DEF Armed, Returned, HandlersSafe
<1>5. Gone
  <2>1. worker \in Threads /\ worker \in Writers /\ Sigs \subseteq Writers
    BY ServicesAssumption DEF Threads
  <2> QED BY <2>1 DEF Gone, Busy
<1> QED BY <1>1, <1>2, <1>3, <1>4, <1>5 DEF Inv

(* Every step of a thread, a handler or a writer preserves it. *)
LEMMA InvStep ==
  ASSUME Inv, [Next]_vars
  PROVE  Inv'
<1>1. CASE Next
  BY <1>1, LogInvStep, SignalTypeStep, StageStep, ArmedStep, GoneStep,
     ReturnedStep, HandlersStep DEF Inv
<1>2. CASE UNCHANGED vars
  <2> USE <1>2 DEF vars, logVars, sigVars, Inv
  <2>1. LogInv'
    BY DEF LogInv, LogType, Printed, OwnCells, Filled, BufferSafe, HasLog
  <2>2. SignalType' /\ Armed' /\ Gone' /\ Returned' /\ HandlersSafe'
    BY DEF SignalType, Armed, Gone, OnStack, Busy, Returned, HandlersSafe
  <2>3. Stage'
    BY DEF Stage, Creating, Running, RollingBack, Destroying
  <2> QED BY <2>1, <2>2, <2>3
<1> QED BY <1>1, <1>2

(* The invariant holds throughout. *)
LEMMA InvAlways == Spec => []Inv
<1>1. Inv /\ [Next]_vars => Inv'
  BY InvStep
<1> QED BY InvInit, <1>1, PTL DEF Spec

(***************************************************************************)
(* However many threads and handlers are in HyLogWrite with the one        *)
(* buffer: nothing is written behind its end but by a line that is too     *)
(* long, its last cell stays a terminator, and a line whose writer was     *)
(* alone comes out whole.                                                  *)
(***************************************************************************)
THEOREM LinesSoundAlways == Spec => []LinesSound
<1>1. Inv => LinesSound
  BY LineWhole DEF Inv, LogInv, LinesSound
<1> QED BY InvAlways, <1>1, PTL

(* What stands follows from the loop, the index and where main is. *)
LEMMA StandingFollows ==
  ASSUME Stage
  PROVE  /\ app # "none" => context = "up"
         /\ context # "none" => buf # NULL
         /\ m.at = "top" => \A i \in 1..Len(module_create) :
                              Stands(module_create[i]) <=> i <= Standing
<1> USE DEF Stage, MType, Creating, Running, RollingBack, Destroying
<1>1. m.loop \in {"create", "run", "rollback", "destroy"} /\ m.i \in 0..4
  OBVIOUS
<1>2. Len(module_create) = 3 /\ Len(module_destroy) = 3
  BY DEF module_create, module_destroy
<1>3. /\ Stands("log") <=> buf # NULL
      /\ Stands("signal") <=> context # "none"
      /\ Stands("app") <=> app # "none"
  BY DEF Stands
<1>4. /\ m.loop = "create" => Standing = m.i - 1
      /\ m.loop = "run" => Standing = 3
      /\ m.loop = "rollback" => Standing = m.i
      /\ m.loop = "destroy" => Standing = 4 - m.i
  BY <1>2 DEF Standing
<1>5. ASSUME m.at = "top"
      PROVE  /\ buf # NULL <=> 1 <= Standing
             /\ context # "none" <=> 2 <= Standing
             /\ app # "none" <=> 3 <= Standing
  <2>1. CASE m.loop = "create"
    BY <1>1, <1>4, <1>5, <2>1
  <2>2. CASE m.loop = "run"
    BY <1>1, <1>4, <1>5, <2>2
  <2>3. CASE m.loop = "rollback"
    BY <1>1, <1>4, <1>5, <2>3
  <2>4. CASE m.loop = "destroy"
    BY <1>1, <1>4, <1>5, <2>4
  <2> QED BY <1>1, <2>1, <2>2, <2>3, <2>4
<1>6. ASSUME m.at = "top", NEW i \in 1..Len(module_create)
      PROVE  Stands(module_create[i]) <=> i <= Standing
  <2>1. i = 1 \/ i = 2 \/ i = 3
    BY <1>2
  <2>2. /\ module_create[1] = "log" /\ module_create[2] = "signal"
        /\ module_create[3] = "app"
    BY DEF module_create
  <2> QED BY <1>3, <1>5, <1>6, <2>1, <2>2
<1> QED BY <1>1, <1>6

(***************************************************************************)
(* Whichever create fails and whenever signals arrive: nobody is in the    *)
(* log without it, the worker stands on the signal handling and that on    *)
(* the log, between two calls those modules stand which the loops have     *)
(* created and not yet destroyed, in the reverse order and each once, and  *)
(* none is left when main returns.                                         *)
(***************************************************************************)
THEOREM ModulesSoundAlways == Spec => []ModulesSound
<1>1. Inv => ModulesSound
  <2>1. Stage /\ Returned => (status = "returned" => Standing = 0)
    BY DEF Stage, Returned, Standing, module_destroy
  <2> QED BY <2>1, StandingFollows DEF Inv, LogInv, HasLog, ModulesSound
<1> QED BY InvAlways, <1>1, PTL

(***************************************************************************)
(* A handler crashes only once HySignalDestroy has begun.                  *)
(***************************************************************************)
THEOREM HandlersSafeAlways == Spec => []HandlersSafe
<1>1. Inv => HandlersSafe
  BY DEF Inv
<1> QED BY InvAlways, <1>1, PTL
=============================================================================
