-------------------------------- MODULE Log ---------------------------------
(***************************************************************************)
(* src/src/hy_log.c: HyLogWrite, which every thread and every signal       *)
(* handler of the program may be in at the same time, with one buffer.     *)
(* A character is the writer that put it there.                            *)
(***************************************************************************)
EXTENDS Integers, SequencesExt, FiniteSets

CONSTANTS
  Writers,       \* the threads, and the handlers that interrupt them
  MsgLens,       \* MsgLens[w]: the lengths of what w's fmt comes to
  buf_len,       \* save_config.buf_len
  color_output,  \* save_config.color_output
  SizeMod,       \* 2^bits of size_t
  NUL, NULL

ASSUME LogAssumption == /\ SizeMod \in Nat /\ buf_len \in 1..(SizeMod \div 4)
                        /\ color_output \in BOOLEAN
                        /\ {NUL, NULL} \intersect Writers = {}
                        /\ NULL \notin [1..buf_len -> Writers \union {NUL}]
                        /\ \A w \in Writers : MsgLens[w] \subseteq Nat

VARIABLES
  buf,     \* context->buf, or NULL when there is no context
  wr,      \* the HyLogWrite each writer is in, or NULL
  status   \* of the program

(* HyLogCreate and HyLogDestroy. *)
Zeroed == [i \in 1..buf_len |-> NUL]

(* The pieces that are printed one behind the other: colour and level,
   file, line and function, the message, and the reset of the colour. *)
Pieces(n) == IF color_output THEN <<1, 1, n, 1>> ELSE <<1, n>>

(* Without a context, or above the level, nothing is written. *)
HyLogWrite(w, n) ==
  wr' = IF buf = NULL THEN wr
        ELSE [v \in Writers |->
                CASE v = w -> [piece |-> 0, ret |-> 0, n |-> n,
                               alone |-> \A u \in Writers : wr[u] = NULL]
                  [] v # w /\ wr[v] = NULL -> NULL
                  [] OTHER -> [wr[v] EXCEPT !.alone = FALSE]]

Memset(w) == /\ wr[w] # NULL /\ wr[w].piece = 0
             /\ buf' = Zeroed
             /\ wr' = [wr EXCEPT ![w].piece = 1]
             /\ UNCHANGED status

InPiece(w) == wr[w] # NULL /\ wr[w].piece \in 1..Len(Pieces(wr[w].n))

Length(w) == Pieces(wr[w].n)[wr[w].piece]

(* Mutant of Room: the whole buffer, wherever the piece begins. *)
RoomWhole(ret) == buf_len

(* buf_len - ret in a size_t; ret counts what would have been printed, and
   the difference is huge once that is beyond the end. *)
Room(ret) == (buf_len - ret) % SizeMod

Start(w) == wr[w].ret

(* snprintf: as many characters as there is room for, and a terminator. *)
Chars(w) == Min({Length(w), Room(wr[w].ret) - 1})

Overruns(w) == /\ Room(wr[w].ret) > 0
               /\ Start(w) + Chars(w) + 1 > buf_len

NextPiece(w, returned) ==
  wr' = [wr EXCEPT ![w].piece = @ + 1, ![w].ret = @ + returned]

Snprintf(w) ==
  /\ InPiece(w) /\ ~Overruns(w)
  /\ LET end == Start(w) + Chars(w) + 1
     IN buf' = IF Room(wr[w].ret) = 0 THEN buf
               ELSE [i \in 1..buf_len |-> IF i = end THEN NUL
                                          ELSE IF i \in (Start(w) + 1)..end THEN w
                                          ELSE buf[i]]
  /\ NextPiece(w, Length(w))
  /\ UNCHANGED status

(* A size above INT_MAX: some libraries return -1 ... *)
SnprintfRefuses(w) == /\ InPiece(w) /\ Overruns(w)
                      /\ Room(wr[w].ret) >= SizeMod \div 2
                      /\ NextPiece(w, -1)
                      /\ UNCHANGED <<buf, status>>

(* ... and others print behind the buffer. *)
SnprintfOverruns(w) == /\ InPiece(w) /\ Overruns(w)
                       /\ status' = "overrun"
                       /\ UNCHANGED <<buf, wr>>

(* printf. *)
Output(w) == /\ wr[w] # NULL /\ wr[w].piece = Len(Pieces(wr[w].n)) + 1
             /\ wr' = [wr EXCEPT ![w] = NULL]
             /\ UNCHANGED <<buf, status>>

LogStep(w) == \/ Memset(w) \/ Snprintf(w) \/ SnprintfRefuses(w)
              \/ SnprintfOverruns(w) \/ Output(w)

-----------------------------------------------------------------------------
(* Properties.                                                             *)

(* The lengths of all pieces together. *)
LineLen(n) == IF color_output THEN n + 3 ELSE n + 1

(* A line whose last piece begins behind the end of the buffer. *)
TooLong(n) == LineLen(n) - Last(Pieces(n)) > buf_len

(* However many threads and handlers write into the one buffer at a time,
   nothing is written behind its end and its last cell stays a terminator, so
   that printf ends; the one exception is a line that is too long for it. *)
BufferSafe ==
  /\ buf # NULL => buf[buf_len] = NUL
  /\ status = "overrun" => \E w \in Writers : wr[w] # NULL /\ TooLong(wr[w].n)

(* What HyLogWrite is for: its own pieces, cut at the end of the buffer. *)
Line(w) == [i \in 1..Min({LineLen(wr[w].n), buf_len - 1}) |-> w]

Text == SubSeq(buf, 1, Min({i \in 1..buf_len : buf[i] = NUL}) - 1)

(* A line during which no other thread or handler was in HyLogWrite is printed
   whole: nothing of lines before it, of interrupted ones or of calls that ran
   at the same time as those is left in the buffer. *)
WholeLine ==
  \A w \in Writers :
    status = "up" /\ wr[w] # NULL /\ wr[w].alone
      /\ wr[w].piece = Len(Pieces(wr[w].n)) + 1 => Text = Line(w)

(* The one buffer, with any number of writers in it. *)
LinesSound == BufferSafe /\ WholeLine
=============================================================================
