------------------------------ MODULE NetWired ------------------------------
(***************************************************************************)
(* src/src/hy_net_wired.c: a client thread that sets LED modes and a LED   *)
(* thread that applies them and blinks, joined by a fifo of 8-byte records *)
(* and its use_cnt.                                                        *)
(*                                                                         *)
(* The fifo holds whole records (64 bytes, 8 at a time), so it appears     *)
(* here as their sequence, which Fifo and FifoSpsc justify, and use_cnt    *)
(* counts records.  Calls of hy_fifo.c are split where the other thread    *)
(* can come between.  The LED thread is a thread of Thread.                *)
(***************************************************************************)
EXTENDS Integers, Sequences

CONSTANTS
  Cmds,       \* the <<led, mode>> pairs the client sets
  MaxSets,    \* bound: calls of HyNetWiredSetLed in the life of a context
  FifoCap,    \* records the fifo holds
  CntMod      \* range of use_cnt, in records

OFF == "off"  ON == "on"  SLOW == "slow"  FAST == "fast"

Modes == {OFF, ON, SLOW, FAST}
Leds == {0, 1}

ASSUME NetWiredAssumption ==
  /\ Cmds \subseteq Leds \X Modes
  /\ MaxSets \in Nat
  /\ FifoCap \in Nat \ {0}
  /\ CntMod \in Nat /\ CntMod > FifoCap + 1

VARIABLES
  context,  \* context is allocated
  exit,     \* context->exit_flag
  fifo,     \* records in led_fifo_handle
  use_cnt,  \* its use_cnt
  blink,    \* context->led_blink_mode
  dev,      \* what _led_set was last called with for each LED since create
  s,        \* the client in HyNetWiredSetLed
  d,        \* the client in HyNetWiredDestroy
  l,        \* the LED thread and the locals of _led_loop_cb
  sets,     \* calls of HyNetWiredSetLed so far
  told,     \* <<led, mode>> pairs set since the context was made
  atomic    \* the build: use_cnt += len is one step (one core, one instruction)

life  == <<context, exit, sets, told, atomic>>
queue == <<fifo, use_cnt>>
shown == <<blink, dev>>
vars  == <<life, queue, shown, s, d, l>>

-----------------------------------------------------------------------------

Unknown == "unknown"

SIdle == [pc |-> "idle", cmd |-> <<0, OFF>>, fits |-> FALSE, cnt |-> 0]
DIdle == [pc |-> "no", thread_exit |-> FALSE, cancel |-> FALSE]
LNone == [pc |-> "none", ret |-> 0, val |-> 0, led |-> 0, mode |-> Unknown,
          n |-> 0, cnt |-> 0]

Dev0 == [i \in Leds |-> Unknown]

Blink0 == [i \in Leds |-> [mode |-> OFF, cnt |-> 0, flag |-> FALSE]]

Fresh == /\ exit' = FALSE
         /\ fifo' = <<>>
         /\ use_cnt' = 0
         /\ blink' = Blink0
         /\ dev' = Dev0
         /\ s' = SIdle
         /\ sets' = 0
         /\ told' = {}

Init == /\ context = FALSE
        /\ exit = FALSE
        /\ fifo = <<>>
        /\ use_cnt = 0
        /\ blink = Blink0
        /\ dev = Dev0
        /\ s = SIdle
        /\ d = DIdle
        /\ l = LNone
        /\ sets = 0
        /\ told = {}
        /\ atomic \in BOOLEAN

(***************************************************************************)
(* Every allocation succeeds.  HyThreadCreate does not look at the result  *)
(* of pthread_create, so the LED thread may be missing all the same.       *)
(***************************************************************************)
HyNetWiredCreate ==
  /\ ~context /\ d.pc = "no"
  /\ context' = TRUE
  /\ Fresh
  /\ \E pc \in {"start", "none"} : l' = [LNone EXCEPT !.pc = pc]
  /\ UNCHANGED <<d, atomic>>

(* The fifo or the thread context cannot be allocated: all is released. *)
HyNetWiredCreateFails ==
  /\ ~context /\ d.pc = "no"
  /\ UNCHANGED vars

(***************************************************************************)
(* The context itself cannot be allocated: the clean-up path stores the    *)
(* exit flag through the NULL context.                                     *)
(***************************************************************************)
HyNetWiredCreateNoContext ==
  /\ ~context /\ d.pc = "no"
  /\ d' = [d EXCEPT !.pc = "crashed"]
  /\ UNCHANGED <<life, queue, shown, s, l>>

-----------------------------------------------------------------------------
(* HyNetWiredSetLed: HyFifoPut of one record by the client thread.         *)

SetLed(cmd) ==
  /\ context /\ d.pc = "no" /\ s.pc = "idle" /\ sets < MaxSets
  /\ s' = [s EXCEPT !.pc = "in", !.cmd = cmd, !.fits = Len(fifo) < FifoCap]
  /\ sets' = sets + 1
  /\ UNCHANGED <<queue, shown, context, exit, d, l, told, atomic>>

SetLedIn ==
  /\ s.pc = "in"
  /\ fifo' = IF s.fits THEN Append(fifo, s.cmd) ELSE fifo
  /\ told' = IF s.fits THEN told \union {s.cmd} ELSE told
  /\ s' = [s EXCEPT !.pc = IF atomic THEN "add" ELSE "load"]
  /\ UNCHANGED <<shown, context, exit, use_cnt, d, l, sets, atomic>>

Put == IF s.fits THEN 1 ELSE 0

(* Mutant of SetLedAdd: a dropped record is counted too. *)
SetLedAddDropped ==
  /\ s.pc = "add"
  /\ use_cnt' = (use_cnt + 1) % CntMod
  /\ s' = SIdle
  /\ UNCHANGED <<life, shown, fifo, d, l>>

(* Mutant of SetLedAdd: the record is not counted. *)
SetLedAddForgotten ==
  /\ s.pc = "add"
  /\ s' = SIdle
  /\ UNCHANGED <<life, queue, shown, d, l>>

SetLedAdd ==
  /\ s.pc = "add"
  /\ use_cnt' = (use_cnt + Put) % CntMod
  /\ s' = SIdle
  /\ UNCHANGED <<life, shown, fifo, d, l>>

SetLedLoad ==
  /\ s.pc = "load"
  /\ s' = [s EXCEPT !.pc = "store", !.cnt = use_cnt]
  /\ UNCHANGED <<life, queue, shown, d, l>>

SetLedStore ==
  /\ s.pc = "store"
  /\ use_cnt' = (s.cnt + Put) % CntMod
  /\ s' = SIdle
  /\ UNCHANGED <<life, shown, fifo, d, l>>

HyNetWiredSetLed ==
  \/ \E cmd \in Cmds : SetLed(cmd)
  \/ SetLedIn \/ SetLedAdd \/ SetLedLoad \/ SetLedStore

-----------------------------------------------------------------------------
(* The LED thread: _thread_loop_cb around _led_loop_cb.                    *)

ThreadStart ==
  /\ l.pc = "start"
  /\ l' = [l EXCEPT !.pc = "loop"]
  /\ UNCHANGED <<life, queue, shown, s, d>>

(* Mutant of ThreadLoop: the result of _led_loop_cb is not looked at. *)
ThreadLoopIgnoresRet ==
  /\ l.pc = "loop"
  /\ l' = [l EXCEPT !.pc = IF ~d.thread_exit THEN "call" ELSE "ended"]
  /\ UNCHANGED <<life, queue, shown, s, d>>

ThreadLoop ==
  /\ l.pc = "loop"
  /\ l' = [l EXCEPT !.pc = IF ~d.thread_exit /\ l.ret = 0
                           THEN "call" ELSE "ended"]
  /\ UNCHANGED <<life, queue, shown, s, d>>

LedCall ==
  /\ l.pc = "call"
  /\ l' = [l EXCEPT !.pc = "outer"]
  /\ UNCHANGED <<life, queue, shown, s, d>>

(* usleep, and the close in _led_set, are cancellation points. *)
ThreadCancelled ==
  /\ d.cancel
  /\ l.pc \in {"start", "sleep", "apply"}
  /\ l' = [l EXCEPT !.pc = "ended"]
  /\ UNCHANGED <<life, queue, shown, s, d>>

LedOuter ==
  /\ l.pc = "outer"
  /\ l' = IF exit THEN [l EXCEPT !.pc = "loop", !.ret = -1]
                  ELSE [l EXCEPT !.pc = "info"]
  /\ UNCHANGED <<life, queue, shown, s, d>>

(* HyFifoGetInfo(USED_LEN), before the sleep. *)
LedInfo ==
  /\ l.pc = "info"
  /\ l' = [l EXCEPT !.pc = "sleep", !.val = use_cnt]
  /\ UNCHANGED <<life, queue, shown, s, d>>

judge_condition == [i \in Leds |-> IF i = 0 THEN [mode |-> SLOW, cnt |-> 5]
                                            ELSE [mode |-> FAST, cnt |-> 3]]

(* Bound: a tick counter past every value it is compared with stays there. *)
CntCap == 6

Tick(c) == IF c < CntCap THEN c + 1 ELSE c

(* Mutant of Blinks: the mode is not compared. *)
BlinksInAnyMode(i) == Tick(blink[i].cnt) = judge_condition[i].cnt

Blinks(i) == /\ blink[i].mode = judge_condition[i].mode
             /\ Tick(blink[i].cnt) = judge_condition[i].cnt

BlinkMode(i) == IF blink[i].flag THEN OFF ELSE ON

(* The mode local is assigned by the last LED that blinks. *)
LastBlink == IF Blinks(1) THEN BlinkMode(1)
             ELSE IF Blinks(0) THEN BlinkMode(0) ELSE l.mode

(* Mutant of LedTick: the flag is not turned over. *)
LedTickKeepsFlag ==
  /\ l.pc = "sleep"
  /\ blink' = [i \in Leds |->
                 [blink[i] EXCEPT !.cnt = IF Blinks(i) THEN 0 ELSE Tick(@)]]
  /\ dev' = [i \in Leds |-> IF Blinks(i) THEN BlinkMode(i) ELSE dev[i]]
  /\ l' = [l EXCEPT !.pc = IF l.val = 0 THEN "info" ELSE "get",
                    !.led = 1, !.mode = LastBlink]
  /\ UNCHANGED <<life, queue, s, d>>

(* After the sleep: one pass over both LEDs. *)
LedTick ==
  /\ l.pc = "sleep"
  /\ blink' = [i \in Leds |->
                 [mode |-> blink[i].mode,
                  cnt  |-> IF Blinks(i) THEN 0 ELSE Tick(blink[i].cnt),
                  flag |-> IF Blinks(i) THEN ~blink[i].flag ELSE blink[i].flag]]
  /\ dev' = [i \in Leds |-> IF Blinks(i) THEN BlinkMode(i) ELSE dev[i]]
  /\ l' = [l EXCEPT !.pc = IF l.val = 0 THEN "info" ELSE "get",
                    !.led = 1, !.mode = LastBlink]
  /\ UNCHANGED <<life, queue, s, d>>

(* Mutant of LedGet: the LED number of the record is not taken over. *)
LedGetModeOnly ==
  /\ l.pc = "get"
  /\ l' = IF fifo = <<>> THEN [l EXCEPT !.pc = "out", !.n = 0]
          ELSE [l EXCEPT !.pc = "out", !.n = 1, !.mode = Head(fifo)[2]]
  /\ UNCHANGED <<life, queue, shown, s, d>>

(* HyFifoGet: with nothing in the fifo the locals stay as they are. *)
LedGet ==
  /\ l.pc = "get"
  /\ l' = IF fifo = <<>>
          THEN [l EXCEPT !.pc = "out", !.n = 0]
          ELSE [l EXCEPT !.pc = "out", !.n = 1,
                         !.led = Head(fifo)[1], !.mode = Head(fifo)[2]]
  /\ UNCHANGED <<life, queue, shown, s, d>>

LedOut ==
  /\ l.pc = "out"
  /\ fifo' = SubSeq(fifo, l.n + 1, Len(fifo))
  /\ l' = [l EXCEPT !.pc = IF atomic THEN "sub" ELSE "load"]
  /\ UNCHANGED <<life, shown, use_cnt, s, d>>

LedSub ==
  /\ l.pc = "sub"
  /\ use_cnt' = (use_cnt - l.n) % CntMod
  /\ l' = [l EXCEPT !.pc = "apply"]
  /\ UNCHANGED <<life, shown, fifo, s, d>>

LedLoad ==
  /\ l.pc = "load"
  /\ l' = [l EXCEPT !.pc = "store", !.cnt = use_cnt]
  /\ UNCHANGED <<life, queue, shown, s, d>>

LedStore ==
  /\ l.pc = "store"
  /\ use_cnt' = (l.cnt - l.n) % CntMod
  /\ l' = [l EXCEPT !.pc = "apply", !.cnt = 0]
  /\ UNCHANGED <<life, shown, fifo, s, d>>

(* The mode is remembered; a steady one is set at once.  Neither caller of *)
(* _led_set looks at its result.                                           *)
LedApply ==
  /\ l.pc = "apply"
  /\ blink' = [blink EXCEPT ![l.led].mode = l.mode]
  /\ dev' = IF l.mode \in {OFF, ON} THEN [dev EXCEPT ![l.led] = l.mode] ELSE dev
  /\ l' = [l EXCEPT !.pc = "outer", !.val = 0, !.n = 0]
  /\ UNCHANGED <<life, queue, s, d>>

LedThread == \/ ThreadStart \/ ThreadLoop \/ LedCall \/ ThreadCancelled
             \/ LedOuter \/ LedInfo \/ LedTick \/ LedGet \/ LedOut
             \/ LedSub \/ LedLoad \/ LedStore \/ LedApply

-----------------------------------------------------------------------------
(* HyNetWiredDestroy, by the client thread.                                *)

DestroyExit ==
  /\ context /\ d.pc = "no" /\ s.pc = "idle"
  /\ exit' = TRUE
  /\ d' = [d EXCEPT !.pc = "flag"]
  /\ UNCHANGED <<queue, shown, context, s, l, sets, told, atomic>>

DestroyFlag ==
  /\ d.pc = "flag"
  /\ d' = [d EXCEPT !.pc = "cancel", !.thread_exit = TRUE]
  /\ UNCHANGED <<life, queue, shown, s, l>>

(* Mutant of DestroyCancel: no cancellation. *)
DestroyCancelForgotten ==
  /\ d.pc = "cancel"
  /\ d' = [d EXCEPT !.pc = IF l.pc = "none" THEN "crashed" ELSE "join"]
  /\ UNCHANGED <<life, queue, shown, s, l>>

DestroyCancel ==
  /\ d.pc = "cancel"
  /\ d' = IF l.pc = "none" THEN [d EXCEPT !.pc = "crashed"]
                           ELSE [d EXCEPT !.pc = "join", !.cancel = TRUE]
  /\ UNCHANGED <<life, queue, shown, s, l>>

(* The join, then the fifo and the context are freed. *)
DestroyJoin ==
  /\ d.pc = "join" /\ l.pc = "ended"
  /\ context' = FALSE
  /\ Fresh
  /\ d' = DIdle
  /\ l' = LNone
  /\ UNCHANGED atomic

HyNetWiredDestroy == DestroyExit \/ DestroyFlag \/ DestroyCancel \/ DestroyJoin

-----------------------------------------------------------------------------

Client == \/ HyNetWiredCreate \/ HyNetWiredCreateFails
          \/ HyNetWiredCreateNoContext
          \/ HyNetWiredSetLed \/ HyNetWiredDestroy

Next == Client \/ LedThread

Spec == Init /\ [][Next]_vars

(***************************************************************************)
(* Both threads are scheduled.  A pending cancellation takes effect in the *)
(* next usleep at the latest: a tick that was about to run when it arrived *)
(* may still run, hence strong fairness.  Nothing obliges the client to    *)
(* call.                                                                   *)
(***************************************************************************)
FairSpec ==
  /\ Spec
  /\ WF_vars(LedThread)
  /\ SF_vars(ThreadCancelled)
  /\ WF_vars(SetLedIn \/ SetLedAdd \/ SetLedLoad \/ SetLedStore)
  /\ WF_vars(DestroyFlag \/ DestroyCancel \/ DestroyJoin)

-----------------------------------------------------------------------------

Alive == l.pc \notin {"none", "ended"}

(* Fields and locals keep their types. *)
TypeOK ==
  /\ context \in BOOLEAN /\ exit \in BOOLEAN
  /\ fifo \in Seq(Cmds) /\ Len(fifo) <= FifoCap
  /\ use_cnt \in 0..(CntMod - 1)
  /\ blink \in [Leds -> [mode : Modes, cnt : 0..CntCap, flag : BOOLEAN]]
  /\ dev \in [Leds -> {OFF, ON, Unknown}]
  /\ s.pc \in {"idle", "in", "add", "load", "store"}
  /\ d.pc \in {"no", "flag", "cancel", "join", "crashed"}
  /\ l.n \in {0, 1} /\ l.led \in Leds
  /\ told \subseteq Cmds /\ atomic \in BOOLEAN

(***************************************************************************)
(* The LED thread never runs without the context and the fifo: destroy     *)
(* frees them after the join.                                              *)
(***************************************************************************)
ContextOutlivesThread == Alive => context

(***************************************************************************)
(* use_cnt lags the fifo by exactly the calls in progress, so the LED      *)
(* thread never wakes for a record that is not there and never sleeps on   *)
(* one that is (builds with an indivisible update).                        *)
(***************************************************************************)
CntTracksFifo ==
  atomic => use_cnt = Len(fifo) - (IF s.pc = "add" THEN Put ELSE 0)
                                + (IF l.pc = "sub" THEN l.n ELSE 0)

(***************************************************************************)
(* In those builds the get of the LED loop always finds a record; where    *)
(* updates of use_cnt can be lost it may not, and the loop then applies    *)
(* what its locals held.                                                   *)
(***************************************************************************)
NoPhantomGet == atomic /\ l.pc = "out" => l.n = 1

(* The LED thread, its context and the count it waits on. *)
LedSound == TypeOK /\ ContextOutlivesThread /\ CntTracksFifo /\ NoPhantomGet

(***************************************************************************)
(* A LED in a steady mode shows it: no blinking of before or of the other  *)
(* LED, at whichever tick the record arrived, has the last word.  OFF is   *)
(* also the mode of a LED nobody has set, whose register is left alone.    *)
(***************************************************************************)
SteadyShown ==
  \A i \in Leds : /\ blink[i].mode = ON => dev[i] = ON
                 /\ blink[i].mode = OFF => dev[i] \in {OFF, Unknown}

(***************************************************************************)
(* "Set the mode of a LED" (include/hy_net_wired.h:104): the mode a LED is *)
(* run in is OFF, as allocated, or one that was set for that LED.  Where   *)
(* an update of use_cnt can be lost this holds of LED 0 only: a get that   *)
(* finds nothing leaves the locals of the loop, where the LED is 1, and    *)
(* the mode is what a blink last showed or a record last said.             *)
(***************************************************************************)
OnlyModesSet ==
  /\ blink[0].mode = OFF \/ <<0, blink[0].mode>> \in told
  /\ \/ blink[1].mode = OFF \/ <<1, blink[1].mode>> \in told
     \/ ~atomic /\ (blink[1].mode = ON \/ <<0, blink[1].mode>> \in told)

(***************************************************************************)
(* "Set the mode of a LED" (include/hy_net_wired.h:104): a record in the   *)
(* fifo is taken out, as long as the module lives.                         *)
(***************************************************************************)
SetsAreApplied == []<>(atomic /\ Alive => fifo = <<>>)

(***************************************************************************)
(* Slow and fast blink (include/hy_net_wired.h:50).  The tick counter of a *)
(* LED runs in every mode, is compared for equality and is reset only by a *)
(* match.  Set before the counter has got there, a LED is shown on and off *)
(* as long as it stays in the mode; set later, it does not blink before    *)
(* the counter has gone round all of its range, whatever is set again.     *)
(***************************************************************************)
Missed(i) == blink[i].cnt >= judge_condition[i].cnt

InBlinkMode(i) == Alive /\ blink[i].mode = judge_condition[i].mode

BlinksUnlessMissed ==
  /\ \A i \in Leds : \A m \in {ON, OFF} :
       []<>(InBlinkMode(i) /\ ~Missed(i) => dev[i] = m)
  /\ [][\A i \in Leds : context /\ context' /\ Missed(i)
           => Missed(i)' /\ blink'[i].flag = blink[i].flag]_vars

(* HyNetWiredDestroy comes back, although the inner loop of the LED thread *)
(* never looks at the exit flag.                                           *)
DestroyReturns == d.pc = "join" ~> ~context

(***************************************************************************)
(* The LED thread is a thread of hy_thread.c.                              *)
(***************************************************************************)
Lost == d.pc = "crashed" /\ context

LedThr == IF Lost THEN "crashed"
          ELSE IF l.pc \in {"none", "start", "loop", "call", "ended"} THEN l.pc
          ELSE "callback"

LedDestroy == IF Lost THEN "cancel"
              ELSE IF d.pc \in {"cancel", "join"} THEN d.pc
              ELSE "no"

T == INSTANCE Thread WITH
       Threads   <- {"led"},
       handle    <- [t \in {"led"} |-> context],
       thr       <- [t \in {"led"} |-> LedThr],
       exit_flag <- [t \in {"led"} |-> d.thread_exit],
       cancel    <- [t \in {"led"} |-> d.cancel],
       ret       <- [t \in {"led"} |-> l.ret],
       destroy   <- [t \in {"led"} |-> LedDestroy]

ThreadSpec == T!Spec
=============================================================================
