------------------------------ MODULE AtUtils -------------------------------
(***************************************************************************)
(* src/src/hy_at_utils.c: AT commands to a modem.  One thread polls with   *)
(* HyAtUtilsProcess and writes commands; the reader of the UART puts what  *)
(* arrives into the fifo, at any moment, in pieces of any size.            *)
(*                                                                         *)
(* A byte is [c, of, rest]: its character, the command or frame it belongs *)
(* to, and how many bytes of its message follow.  The code sees c only.    *)
(* Digits are binary.  Time is age, how long ago sys_tick was:             *)
(* 0 (up to 10 ms), 1, or 2 (more than wait_time).                         *)
(*                                                                         *)
(* The modem answers each sending at most once, sooner or later: an answer *)
(* may come when wait_time is over and the command has been sent again or  *)
(* dropped (hist.late).                                                    *)
(*                                                                         *)
(* The used length the code asks the fifo for (HY_FIFO_USED_LEN, by a call *)
(* older than hy_fifo.h's) is use_cnt, which HyFifoUpdateOut of hy_fifo.c  *)
(* never lowers.  Both are modelled, that fifo and one whose use_cnt is    *)
(* what it holds (used.lowered).                                           *)
(***************************************************************************)
EXTENDS Integers, Sequences, SequencesExt

CONSTANTS
  CatchStr,    \* config->catch_str: [state, str]
  Cmds,        \* the calls of HyAtUtilsWriteCmd: [data, retry]
  Unsolicited, \* what the modem may send on its own, as texts
  MaxUnsolicited, \* bound: how often it does
  MaxAhead,    \* bound: bytes it has sent and the module not yet taken
  FACTOR_LEN,  \* bytes peeked at once (200)
  FifoLen,     \* config->fifo_len
  at_cmd_num,
  DigitsMax,   \* digits a frame's length may have (sscanf_buf)
  SIGNAL_MIN,  \* shortest +CSQ and +CWJAP_DEF text
  Follow       \* bound: go on after hist.off_step

ASSUME AtAssumption ==
  /\ Cmds \in Seq([data : BOOLEAN, retry : 1..255])
  /\ {FACTOR_LEN, FifoLen} \subseteq Nat \ {0}
  /\ {at_cmd_num, MaxUnsolicited, MaxAhead} \subseteq Nat
  /\ Follow \in BOOLEAN

VARIABLES
  context,  \* the scalar fields of at_utils_context_t, and write_list
  fifo,     \* the bytes in fifo_handle
  used,     \* its use_cnt: is it lowered, and the bytes put (2: or more)
  age,      \* HyTimeGetTickMs() - context->sys_tick, in the classes above
  call,     \* where the polling thread is, and the length it peeked
  wire,     \* what the modem has sent and the reader not yet put
  hist      \* for the properties only

vars == <<context, fifo, used, age, call, wire, hist>>

-----------------------------------------------------------------------------

Catch(i) == CatchStr[i].str

Message(str, of) ==
  [i \in DOMAIN str |-> [c |-> str[i], of |-> of, rest |-> Len(str) - i]]

Text(bytes) == [i \in DOMAIN bytes |-> bytes[i].c]

NoBuf == [len |-> 0, buf |-> <<>>]  \* buf_union = NULL

NewContext(is_cmd_ok) ==
  [write_list |-> <<>>, buf_union |-> NoBuf, frame_sum |-> 0, offset_len |-> 0,
   state |-> "IDLE", busy_flag |-> 0, parsing_flag |-> FALSE,
   is_cmd_ok |-> is_cmd_ok]

At(pc) == [at |-> pc, len |-> 0]

(* sends: how often each command went out; off_step, late: see OutOfStep. *)
Init == /\ context \in {NewContext(TRUE), NewContext(FALSE)}
        /\ fifo = <<>>
        /\ used \in [lowered : BOOLEAN, put : {0}]
        /\ age = 2
        /\ call = At("poll")
        /\ wire = <<>>
        /\ hist = [written |-> 0, sends |-> [i \in DOMAIN Cmds |-> 0],
                   unsolicited |-> 0, frame |-> <<>>, off_step |-> FALSE,
                   late |-> FALSE]

First == Head(context.write_list)

(* list_first_entry of an empty list is the list head itself, taken for a  *)
(* command: what is done to it is done to the context.                     *)
NoFirst == context.write_list = <<>>

Wild == /\ call' = At("wild")
        /\ UNCHANGED <<context, fifo, used, age, wire, hist>>

(* HY_FIFO_USED_LEN. *)
UsedLen == IF used.lowered THEN Len(fifo) ELSE used.put

(* The last byte that arrived is inside a message. *)
InMessage == fifo # <<>> /\ Last(fifo).rest > 0

(* An answer is on its way. *)
AnswerComes == \E k \in DOMAIN wire : wire[k].of # 0

-----------------------------------------------------------------------------
(* The client.                                                             *)

(* An at_cmd_list_t; a command with data may be answered twice. *)
_at_cmd_list_create(i) ==
  [id |-> i, retry |-> Cmds[i].retry,
   del_cnt |-> IF Cmds[i].data /\ context.is_cmd_ok THEN 2 ELSE 1]

HyAtUtilsWriteCmd ==
  /\ call.at = "poll" /\ hist.written < Len(Cmds)
  /\ at_cmd_num = 0 \/ Len(context.write_list) < at_cmd_num
  /\ hist' = [hist EXCEPT !.written = @ + 1]
  /\ context' = [context EXCEPT
       !.write_list = Append(@, _at_cmd_list_create(hist.written + 1))]
  /\ UNCHANGED <<fifo, used, age, call, wire>>

(* Mutant of DestroyClean: the state is kept. *)
DestroyCleanKeepsState ==
  /\ context' = [NewContext(context.is_cmd_ok) EXCEPT !.state = context.state]
  /\ fifo' = <<>>
  /\ age' = 2

(* _destroy_clean: buf_union is not freed; sys_tick = 0 is long ago. *)
DestroyClean == /\ context' = NewContext(context.is_cmd_ok)
                /\ fifo' = <<>>
                /\ age' = 2

(* The client's answer to AT_STATE_READ_CLOSED, or when it likes.  What is  *)
(* on its way comes all the same: an answer nobody waits for, or the rest  *)
(* of a frame.                                                             *)
HyAtUtilsClean ==
  /\ call.at \in {"poll", "closed"}
  /\ DestroyClean
  /\ call' = At("poll")
  /\ hist' = [hist EXCEPT
       !.late = @ \/ wire # <<>>,
       !.off_step = @ \/ InMessage \/ (fifo = <<>> /\ context.parsing_flag)]
  /\ UNCHANGED <<used, wire>>

(* The client ignores the return value and polls again. *)
IgnoreClosed == /\ call.at = "closed"
                /\ call' = At("poll")
                /\ hist' = [hist EXCEPT !.off_step = TRUE]
                /\ UNCHANGED <<context, fifo, used, age, wire>>

(* The reader has been stopped by then. *)
HyAtUtilsDestroy == /\ call.at = "poll"
                    /\ context' = NewContext(context.is_cmd_ok)
                    /\ fifo' = <<>>
                    /\ call' = At("gone")
                    /\ UNCHANGED <<used, age, wire, hist>>

-----------------------------------------------------------------------------
(* The modem, the reader and the clock.                                    *)

Sends(text) == /\ Len(fifo) + Len(wire) + Len(text) <= MaxAhead
               /\ wire' = wire \o text

(* HyFifoPut stores what fits; the rest of the piece is lost. *)
HyAtUtilsPutData ==
  /\ call.at \notin {"gone", "wild"}
  /\ \E n \in 1..Len(wire) :
       LET put == IF n < FifoLen - Len(fifo) THEN n ELSE FifoLen - Len(fifo)
       IN /\ fifo' = fifo \o SubSeq(wire, 1, put)
          /\ wire' = SubSeq(wire, n + 1, Len(wire))
          /\ used' = [used EXCEPT
               !.put = IF used.lowered THEN 0 ELSE IF @ + put < 2 THEN @ + put ELSE 2]
          /\ hist' = [hist EXCEPT !.off_step = @ \/ put < n]
  /\ UNCHANGED <<context, age, call>>

ModemSends ==
  /\ call.at \notin {"gone", "wild"}
  /\ hist.unsolicited < MaxUnsolicited
  /\ \E text \in Unsolicited : Sends(Message(text, 0))
  /\ hist' = [hist EXCEPT !.unsolicited = @ + 1]
  /\ UNCHANGED <<context, fifo, used, age, call>>

Tick == /\ call.at \notin {"gone", "wild"}
        /\ age < 2
        /\ age' = age + 1
        /\ UNCHANGED <<context, fifo, used, call, wire, hist>>

OK == Message(<<"O", "K">>, First.id)
Prompt == Message(<<">", "SP">>, First.id)
Signal == Message(<<"+", "C", "n", "O", "K">>, First.id)

(* What the modem may answer to the first command, and to its data; nothing *)
(* when it did not get it.                                                 *)
CmdAnswers == {<<>>, Message(<<"E", "R">>, First.id)} \union
  IF Cmds[First.id].data
  THEN {IF context.is_cmd_ok THEN OK \o Prompt ELSE Prompt} ELSE {OK, Signal}

DataAnswers == {<<>>, OK, Message(<<"E", "R">>, First.id)}

-----------------------------------------------------------------------------
(* HyAtUtilsProcess outside _read_handle.                                  *)

Polls(states) == call.at = "poll" /\ context.state \in states

GoTo(state) == context' = [context EXCEPT !.state = state]

(* The used length lets READ look for text, there may be none. *)
IdleRead == /\ Polls({"IDLE"}) /\ UsedLen > 0
            /\ GoTo("READ")
            /\ UNCHANGED <<fifo, used, age, call, wire, hist>>

(* Mutant of Tried: the try is not counted. *)
TriedStays == First.retry

(* Decrementing the uint8_t first: 0 becomes 255. *)
Tried == (First.retry - 1) % 256

(* Whether an answer is on its way is not looked at. *)
IdleTimeout == /\ Polls({"IDLE"}) /\ UsedLen = 0 /\ ~NoFirst
               /\ age = 2
               /\ age' = 0
               /\ context' = [context EXCEPT
                    !.busy_flag = 0,
                    !.write_list[1].retry = Tried,
                    !.state = IF Tried = 0 THEN "IDLE" ELSE "WRITE"]
               /\ call' = At(IF Tried = 0 THEN "closed" ELSE "poll")
               /\ hist' = [hist EXCEPT !.late = @ \/ AnswerComes]
               /\ UNCHANGED <<fifo, used, wire>>

(* Mutant of IdleWrite: the bytes put are not counted. *)
IdleWriteExact == /\ Polls({"IDLE"}) /\ fifo = <<>> /\ ~NoFirst
                  /\ age < 2 /\ context.busy_flag = 0
                  /\ GoTo("WRITE")
                  /\ UNCHANGED <<fifo, used, age, call, wire, hist>>

IdleWrite == /\ Polls({"IDLE"}) /\ UsedLen = 0 /\ ~NoFirst
             /\ age < 2 /\ context.busy_flag = 0
             /\ GoTo("WRITE")
             /\ UNCHANGED <<fifo, used, age, call, wire, hist>>

Write == /\ Polls({"WRITE"})
         /\ GoTo("WRITE_CMD")
         /\ UNCHANGED <<fifo, used, age, call, wire, hist>>

(* del_cnt is not set back when a command goes out again: an answer to an  *)
(* earlier sending has been counted already.                               *)
Resumed == First.del_cnt = 1 /\ Cmds[First.id].data /\ context.is_cmd_ok

WriteCmd ==
  /\ Polls({"WRITE_CMD"})
  /\ \/ NoFirst /\ Wild
     \/ /\ ~NoFirst
        /\ \E answer \in CmdAnswers : Sends(answer)
        /\ context' = [context EXCEPT !.state = "WRITE_CMD_WAIT",
                                      !.busy_flag = 1]
        /\ age' = 0
        /\ hist' = [hist EXCEPT !.sends[First.id] = @ + 1,
                                !.off_step = @ \/ Resumed]
        /\ UNCHANGED <<fifo, used, call>>

WriteCmdWait == /\ Polls({"WRITE_CMD_WAIT"}) /\ age > 0
                /\ GoTo("READ")
                /\ UNCHANGED <<fifo, used, age, call, wire, hist>>

WriteData ==
  /\ Polls({"WRITE_DATA"})
  /\ \/ NoFirst /\ Wild
     \/ /\ ~NoFirst
        /\ \E answer \in IF Cmds[First.id].data THEN DataAnswers ELSE {<<>>} :
             Sends(answer)
        /\ context' = [context EXCEPT !.state = "READ", !.busy_flag = 2]
        /\ age' = 0
        /\ UNCHANGED <<fifo, used, call, hist>>

-----------------------------------------------------------------------------
(* _find_frame_tag.                                                        *)

(* flag = 0: the first byte that begins a text to be caught; 0 if none. *)
FirstChar(buf) ==
  SelectInSeq(buf, LAMBDA b : \E i \in DOMAIN CatchStr : b.c = Catch(i)[1])

(* Mutant of IsPartial: len >= buf_len. *)
IsPartialOrWhole(str, buf) == /\ Len(buf) \in 2..Len(str)
                              /\ SubSeq(str, 1, 2) = SubSeq(Text(buf), 1, 2)

(* flag = 1: the first text that stands at the front, or may do so when    *)
(* more has arrived: two bytes agree and buf is shorter; 0 if none.        *)
IsPartial(str, buf) == /\ Len(buf) \in 2..(Len(str) - 1)
                       /\ SubSeq(str, 1, 2) = SubSeq(Text(buf), 1, 2)

Caught(buf) ==
  SelectInSeq(CatchStr, LAMBDA e : \/ IsPartial(e.str, buf)
                                   \/ IsPrefix(e.str, Text(buf)))

-----------------------------------------------------------------------------
(* _read_handle: peek, act on what was peeked, and again while a frame is  *)
(* being taken in.                                                         *)

ReadStates == {"READ", "READ_HEAD", "READ_READY", "READ_OK", "READ_SIGNAL",
               "READ_IPD_DATA", "READ_ERROR", "READ_BUSY_S", "READ_SEND",
               "READ_CLOSED"}

Peek ==
  /\ call.at = "peek" \/ Polls(ReadStates)
  /\ LET missing == context.buf_union.len - context.frame_sum
         factor  == IF context.buf_union = NoBuf \/ missing > FACTOR_LEN
                    THEN FACTOR_LEN ELSE missing
         len     == IF factor < Len(fifo) THEN factor ELSE Len(fifo)
     IN IF len = 0
        THEN GoTo("IDLE") /\ call' = At("poll")
        ELSE /\ call' = [at |-> "handle", len |-> len]
             /\ IF context.parsing_flag THEN GoTo("READ_IPD_DATA")
                                        ELSE UNCHANGED context
  /\ UNCHANGED <<fifo, used, age, wire, hist>>

Buf == SubSeq(fifo, 1, call.len)

Handles(states) == call.at = "handle" /\ context.state \in states

(* The end of a pass: with update_flag, offset_len bytes are taken. *)
Loop(c) == call' = At(IF c.parsing_flag THEN "peek" ELSE "poll")

Keep(c) == context' = c /\ UNCHANGED fifo /\ Loop(c)

Update(c) == /\ context' = [c EXCEPT !.offset_len = 0]
             /\ fifo' = SubSeq(fifo, c.offset_len + 1, Len(fifo))
             /\ Loop(c)

Read ==
  /\ Handles({"READ"})
  /\ LET k == FirstChar(Buf)
     IN Update([context EXCEPT
          !.state = IF k = 0 THEN "IDLE" ELSE "READ_HEAD",
          !.offset_len = IF k = 0 THEN Len(Buf) ELSE k - 1])
  /\ UNCHANGED <<used, age, wire, hist>>

(* No text at the front: one byte is dropped, which is the first of a text *)
(* when it was polled alone; but a lone ">" is taken for the prompt.  The  *)
(* length asked for is that of the fifo now, not of what was peeked.       *)
LonePrompt == UsedLen = 1 /\ Buf[1].c = ">"

ReadHead ==
  /\ Handles({"READ_HEAD"})
  /\ LET k == Caught(Buf)
     IN \/ /\ k = 0 /\ LonePrompt
           /\ Keep([context EXCEPT !.state = "READ_SEND", !.offset_len = 1])
           /\ UNCHANGED hist
        \/ /\ k = 0 /\ ~LonePrompt
           /\ Update([context EXCEPT !.state = "IDLE", !.offset_len = 1])
           /\ hist' = [hist EXCEPT !.off_step =
                @ \/ (Len(Buf) = 1 /\ Buf[1].of = 0 /\ Buf[1].rest > 0)]
        \/ /\ k # 0 /\ IsPartial(Catch(k), Buf)
           /\ Keep(context)
           /\ UNCHANGED hist
        \/ /\ k # 0 /\ ~IsPartial(Catch(k), Buf)
           /\ Keep([context EXCEPT !.state = CatchStr[k].state,
                                   !.offset_len = Len(Catch(k))])
           /\ UNCHANGED hist
  /\ UNCHANGED <<used, age, wire>>

ReadText ==
  /\ \E to \in {<<"READ_READY", "IDLE">>, <<"READ_BUSY_S", "READ">>,
                <<"READ_SEND", "WRITE_DATA">>} :
       Handles({to[1]}) /\ Update([context EXCEPT !.state = to[2]])
  /\ UNCHANGED <<used, age, wire, hist>>

(* The state is left as it is: every later text is skipped over. *)
ReadClosed ==
  /\ Handles({"READ_CLOSED"})
  /\ context' = [context EXCEPT !.parsing_flag = FALSE, !.offset_len = 0]
  /\ fifo' = SubSeq(fifo, context.offset_len + 1, Len(fifo))
  /\ call' = At("closed")
  /\ UNCHANGED <<used, age, wire, hist>>

(* The whole fifo is dropped, with the answer also what came after it. *)
ReadError ==
  /\ Handles({"READ_ERROR"})
  /\ \/ NoFirst /\ Wild
     \/ /\ ~NoFirst
        /\ fifo' = <<>>
        /\ context' = [context EXCEPT
             !.state = "WRITE",
             !.write_list = IF Tried = 0 THEN Tail(@)
                            ELSE [@ EXCEPT ![1].retry = Tried]]
        /\ call' = At(IF Tried = 0 THEN "closed" ELSE "poll")
        /\ hist' = [hist EXCEPT !.off_step = @ \/ InMessage]
        /\ UNCHANGED <<used, age, wire>>

(* One answer less to come; with the last one the command goes.  busy_flag *)
(* stays while the data has not been sent.                                 *)
Counted ==
  [context EXCEPT
     !.state = "IDLE",
     !.busy_flag = IF @ = 2 \/ ~Cmds[First.id].data THEN 0 ELSE @,
     !.write_list = IF First.del_cnt = 1 THEN Tail(@)
                    ELSE [@ EXCEPT ![1].del_cnt = First.del_cnt - 1]]

(* Mutant of ReadOk: the answer stays in the fifo. *)
ReadOkKept == /\ Handles({"READ_OK"})
              /\ IF NoFirst THEN Wild
                 ELSE Keep(Counted) /\ UNCHANGED <<used, age, wire, hist>>

ReadOk == /\ Handles({"READ_OK"})
          /\ IF NoFirst THEN Wild
             ELSE Update(Counted) /\ UNCHANGED <<used, age, wire, hist>>

(* +CSQ and +CWJAP_DEF end where "OK" begins, which is left for ReadOk. *)
ReadSignal ==
  /\ Handles({"READ_SIGNAL"})
  /\ LET ends == {k \in 2..(Len(Buf) - 1) : Buf[k].c = "O" /\ Buf[k + 1].c = "K"}
     IN IF Len(Buf) >= SIGNAL_MIN /\ ends # {}
        THEN Update([context EXCEPT !.state = "IDLE",
                       !.offset_len = (CHOOSE k \in ends :
                                         \A m \in ends : k <= m) - 1])
        ELSE Keep(context)
  /\ UNCHANGED <<used, age, wire, hist>>


-----------------------------------------------------------------------------
(* _handle_ipd_data: "+I" digits ":" payload.                              *)

TagLen == 2
Colons(buf) == {k \in DOMAIN buf : buf[k].c = ":"}

(* sscanf "%[^:]": up to the colon, or all there is. *)
Digits(buf) ==
  LET end == IF Colons(buf) = {} THEN Len(buf) + 1
             ELSE CHOOSE k \in Colons(buf) : \A m \in Colons(buf) : k <= m
  IN Text(SubSeq(buf, TagLen + 1, end - 1))

(* 0 when a byte is no digit. *)
DataLen(digits) ==
  LET value[n \in 0..Len(digits)] ==
        IF n = 0 THEN 0
        ELSE 2 * value[n - 1] + (IF digits[n] = "1" THEN 1 ELSE 0)
  IN  IF \A k \in DOMAIN digits : digits[k] \in {"0", "1"}
      THEN value[Len(digits)] ELSE 0

(* With "+IPD,1:" counted with its NUL there must be a byte of payload, too. *)
HeaderShort(buf) == Len(buf) < TagLen + 3

HeaderBad(buf) == \/ HeaderShort(buf)
                  \/ Len(Digits(buf)) > DigitsMax
                  \/ DataLen(Digits(buf)) = 0

(* Mutant of HeaderLen: the colon is not counted. *)
HeaderLenNoColon(buf) == TagLen + Len(Digits(buf))

(* The header's length as computed: with a colon, seen or not. *)
HeaderLen(buf) == TagLen + 1 + Len(Digits(buf))

(* All commands go, also one whose answer is on its way. *)
IpdBadHeader == /\ Handles({"READ_IPD_DATA"}) /\ context.buf_union = NoBuf
                /\ HeaderBad(Buf)
                /\ DestroyClean
                /\ call' = At("poll")
                /\ hist' = [hist EXCEPT !.off_step = TRUE]
                /\ UNCHANGED <<used, wire>>

(* handle_frame_cb gets a whole frame. *)
Deliver(frame, taken) ==
  /\ Update([context EXCEPT !.state = "IDLE", !.parsing_flag = FALSE,
                            !.buf_union = NoBuf, !.frame_sum = 0,
                            !.offset_len = taken])
  /\ hist' = [hist EXCEPT !.frame = frame]

(* More is missing: all that was peeked is kept, and the loop goes on, after *)
(* a wait in which the reader may put some.                                *)
KeepPart(buf_union) ==
  /\ Update([context EXCEPT !.parsing_flag = TRUE, !.buf_union = buf_union,
                            !.frame_sum = Len(buf_union.buf),
                            !.offset_len = Len(Buf)])
  /\ UNCHANGED hist

(* Before the colon has come, a negative length is copied. *)
IpdHeader ==
  /\ Handles({"READ_IPD_DATA"}) /\ context.buf_union = NoBuf
  /\ ~HeaderBad(Buf)
  /\ LET head == HeaderLen(Buf)
         len  == DataLen(Digits(Buf))
     IN \/ /\ head + len <= Len(Buf)
           /\ Deliver(SubSeq(Buf, head + 1, head + len), head + len)
           /\ UNCHANGED <<used, age, wire>>
        \/ /\ head + len > Len(Buf) /\ head <= Len(Buf)
           /\ KeepPart([len |-> len, buf |-> SubSeq(Buf, head + 1, Len(Buf))])
           /\ UNCHANGED <<used, age, wire>>
        \/ /\ head > Len(Buf)
           /\ call' = At("overrun")
           /\ UNCHANGED <<context, fifo, used, age, wire, hist>>

IpdMore ==
  /\ Handles({"READ_IPD_DATA"}) /\ context.buf_union # NoBuf
  /\ LET all == context.buf_union.buf \o Buf
     IN IF Len(all) = context.buf_union.len
        THEN Deliver(all, Len(Buf))
        ELSE KeepPart([context.buf_union EXCEPT !.buf = all])
  /\ UNCHANGED <<used, age, wire>>

-----------------------------------------------------------------------------
(* What the client tells the module to catch, and what the modem may send. *)

NoticeStates == {"READ_READY", "READ_BUSY_S", "READ_CLOSED"}

AnswerCatches ==
  {[state |-> "READ_OK", str |-> <<"O", "K">>],
   [state |-> "READ_ERROR", str |-> <<"E", "R">>],
   [state |-> "READ_SEND", str |-> <<">", "SP">>],
   [state |-> "READ_SIGNAL", str |-> <<"+", "C">>]}

(* A header whose number is the length of what follows its colon. *)
IsFrame(text) ==
  \E k \in (TagLen + 1)..Len(text) :
    /\ text[k] = ":" /\ \A j \in 1..(k - 1) : text[j] # ":"
    /\ DataLen(SubSeq(text, TagLen + 1, k - 1)) = Len(text) - k

(***************************************************************************)
(* The answers of a command are caught.  Two bytes tell the texts to be    *)
(* caught apart, also from what is left of an answer whose first byte was  *)
(* polled alone and dropped ("K", "R", "SP", "CnOK"), and ">" begins the    *)
(* prompt only.  On its own the modem sends caught texts and frames.       *)
(***************************************************************************)
ASSUME TextsAssumption ==
  /\ CatchStr \in Seq([state : ReadStates, str : Seq(STRING)])
  /\ AnswerCatches \subseteq {CatchStr[i] : i \in DOMAIN CatchStr}
  /\ \A i \in DOMAIN CatchStr :
       /\ Len(Catch(i)) >= 2
       /\ \/ CatchStr[i] \in AnswerCatches
          \/ CatchStr[i].state \in NoticeStates
          \/ CatchStr[i].state = "READ_IPD_DATA" /\ Len(Catch(i)) = TagLen
       /\ Catch(i)[1] = ">" => Catch(i)[2] = "SP"
       /\ Catch(i)[1] = "C" => Catch(i)[2] # "n"
       /\ Catch(i)[1] = "n" => Catch(i)[2] # "O"
       /\ \A j \in DOMAIN CatchStr :
            /\ i # j => Catch(i)[1] # Catch(j)[1] \/ Catch(i)[2] # Catch(j)[2]
            /\ Catch(i)[1] \in {"K", "R", "SP"} => Catch(i)[2] # Catch(j)[1]
  /\ \A text \in Unsolicited :
       /\ text \in Seq(STRING)
       /\ \E i \in DOMAIN CatchStr :
            \/ CatchStr[i].state \in NoticeStates /\ text = Catch(i)
            \/ /\ CatchStr[i].state = "READ_IPD_DATA"
               /\ IsPrefix(Catch(i), text) /\ IsFrame(text)

-----------------------------------------------------------------------------

HyAtUtilsProcess ==
  \/ IdleRead \/ IdleTimeout \/ IdleWrite
  \/ Write \/ WriteCmd \/ WriteCmdWait \/ WriteData
  \/ Peek \/ Read \/ ReadHead \/ ReadText \/ ReadClosed \/ ReadError
  \/ ReadOk \/ ReadSignal
  \/ IpdBadHeader \/ IpdHeader \/ IpdMore

Client == HyAtUtilsClean \/ IgnoreClosed

(* OutOfStep: the circumstances in which the module loses track of which   *)
(* command an answer is for.                                               *)
(*   late      wait_time was over, or HyAtUtilsClean was called, with      *)
(*             something still on its way: an answer may then meet another *)
(*             command, the second OK of a command sent twice no command   *)
(*             at all (list_first_entry of an empty list);                 *)
(*   off_step  a piece did not fit into the fifo, an ERROR or a Clean      *)
(*             dropped half a message, the first byte of a frame was       *)
(*             polled alone and dropped, a piece of a header dropped the   *)
(*             commands, a command went out again after one of its two     *)
(*             answers was counted, or the client polled on after CLOSED.  *)
(* What happens after a late answer is always followed.                    *)
OutOfStep == hist.off_step \/ hist.late

Next == /\ hist.off_step => Follow
        /\ \/ HyAtUtilsProcess \/ Client
           \/ HyAtUtilsWriteCmd \/ HyAtUtilsDestroy
           \/ HyAtUtilsPutData \/ ModemSends \/ Tick

Spec == Init /\ [][Next]_vars

(* Nothing is there to do for the polling thread: ~ENABLED <<Poll>>_vars.  *)
Idle == \/ call.at \in {"gone", "wild", "overrun"}
        \/ /\ Polls({"IDLE"}) /\ UsedLen = 0
           /\ NoFirst \/ (age < 2 /\ context.busy_flag # 0)
        \/ Polls({"WRITE_CMD_WAIT"}) /\ age = 0

(* The client polls (weak fairness, with ENABLED written out), the reader  *)
(* reads, time passes.                                                     *)
FairSpec == /\ Spec
            /\ []<>Idle \/ []<><<HyAtUtilsProcess>>_vars
            /\ WF_vars(HyAtUtilsPutData)
            /\ WF_vars(Tick)

-----------------------------------------------------------------------------
(* Properties.                                                             *)

(* Every field has its type, the list is in the order of the calls and never
   longer than at_cmd_num, what was kept of a frame is shorter than it, and
   the loop goes on exactly while a frame is incomplete. *)
TypeOK ==
  /\ context.state \in {"IDLE", "WRITE", "WRITE_CMD", "WRITE_CMD_WAIT",
                        "WRITE_DATA"} \union ReadStates
  /\ context.busy_flag \in 0..2 /\ age \in 0..2
  /\ at_cmd_num > 0 => Len(context.write_list) <= at_cmd_num
  /\ \A i, j \in DOMAIN context.write_list :
       i < j => context.write_list[i].id < context.write_list[j].id
  /\ \A i \in DOMAIN context.write_list :
       /\ context.write_list[i].retry \in 0..255
       /\ context.write_list[i].del_cnt \in 1..2
  /\ context.parsing_flag <=> context.buf_union # NoBuf
  /\ context.frame_sum = Len(context.buf_union.buf)
  /\ context.parsing_flag => context.frame_sum < context.buf_union.len
  /\ Len(fifo) <= FifoLen
  /\ call.len <= Len(fifo)

(* list_first_entry is used on an empty list in no circumstance but those of
   OutOfStep: neither the answers of a command in pieces, nor ERRORs and
   time-outs that gave it up, nor a Clean with nothing on its way, leave the
   module in a state that takes the first entry when there is none. *)
FirstEntryNonEmpty == OutOfStep \/ call.at # "wild"

(* The context between two steps of whoever calls, polls or puts data. *)
ContextSound == TypeOK /\ FirstEntryNonEmpty

(* An answer is counted for the command it answers in every circumstance but
   those of OutOfStep, however the answers are cut up, and whatever went before
   unanswered: OK, ERROR and the prompt for data meet their own command at the
   head of the list.  A late answer may meet another. *)
OwnAnswer ==
  Handles({"READ_OK", "READ_ERROR", "READ_SEND"}) /\ ~NoFirst
    => OutOfStep \/ fifo[1].of = First.id

(* A frame given to handle_frame_cb is one whole payload the modem sent, even
   when it arrived in pieces, took several peeks, and holds text that looks like
   an answer; late answers do not disturb it. *)
FramesWhole ==
  hist.frame # <<>> =>
    \/ hist.off_step
    \/ \E text \in Unsolicited :
         \E k \in DOMAIN text :
           /\ text[k] = ":"
           /\ hist.frame = SubSeq(Message(text, 0), k + 1, Len(text))

(* A command goes out at most as often as its retry says, time-outs and ERROR
   answers together, the ERRORs that come late included. *)
SendsBounded ==
  \A i \in DOMAIN Cmds : hist.off_step \/ hist.sends[i] <= Cmds[i].retry

(* Every command written leaves the list, answered or given up with the client
   told CLOSED, also when answers come late: as there are finitely many, the
   list is empty again and again.  This is so when use_cnt is lowered, or no
   byte comes; see NoneSentAnew for the fifo of hy_fifo.c. *)
Served ==
  []<>(\/ NoFirst
       \/ hist.off_step \/ call.at \in {"gone", "wild", "overrun"}
       \/ ~used.lowered /\ used.put > 0)

(* With the use_cnt of hy_fifo.c, IDLE goes to READ for ever once a byte has
   come: after the first answer no other command ever goes out.  (A command
   being written when the byte comes does go out; only a text or an answer that
   nobody waits for comes then.) *)
NoneSentAnew ==
  [][\A i \in DOMAIN Cmds :
       hist.sends[i] = 0 /\ hist'.sends[i] > 0
         => \/ used.lowered \/ used.put = 0
            \/ hist.unsolicited > 0 \/ OutOfStep]_vars

(* wait_time runs from the sending of the command, as hy_at_utils.h says: a
   command is reported as not answered in time only after it went out. *)
SentBeforeTimeout ==
  call.at = "closed" /\ context.state = "IDLE"
    => hist.sends[First.id] > 0
=============================================================================
