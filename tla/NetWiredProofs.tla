--------------------------- MODULE NetWiredProofs ---------------------------
(***************************************************************************)
(* Proofs about NetWired for every set of commands, fifo size and range of *)
(* use_cnt that can hold one record more than the fifo: LedSound,          *)
(* SteadyShown and OnlyModesSet, and that NetWired implements Thread.      *)
(*                                                                         *)
(* The inductive invariant Inv adds to them: the life of the context       *)
(* around the thread's; the room a put has seen and still has; what the    *)
(* count, the snapshot val and the fifo say to each other at every point   *)
(* of a put and of a get; and, in every build, that the count is exact     *)
(* until the first record is taken out, which is why the loop never        *)
(* applies the mode it starts with.                                        *)
(*                                                                         *)
(* The last part is about Thread itself, for every set of handles.         *)
(***************************************************************************)
EXTENDS NetWired, ThreadHandles, TLAPS

-----------------------------------------------------------------------------
(* The inductive invariant.                                                *)

SPc == {"idle", "in", "add", "load", "store"}
DPc == {"no", "flag", "cancel", "join", "crashed"}
LPc == {"none", "start", "loop", "call", "outer", "info", "sleep", "get", "out",
        "sub", "load", "store", "apply", "ended"}
Cnt == 0..(CntMod - 1)

LifeType == /\ context \in BOOLEAN /\ exit \in BOOLEAN /\ atomic \in BOOLEAN
            /\ told \subseteq Cmds

QueueType == fifo \in Seq(Cmds) /\ use_cnt \in Cnt

ShownType ==
  /\ blink \in [Leds -> [mode : Modes, cnt : 0..CntCap, flag : BOOLEAN]]
  /\ dev \in [Leds -> {OFF, ON, Unknown}]

SetType == s \in [pc : SPc, cmd : Leds \X Modes, fits : BOOLEAN, cnt : Cnt]

DestroyType == d \in [pc : DPc, thread_exit : BOOLEAN, cancel : BOOLEAN]

ThreadType ==
  l \in [pc : LPc, ret : {0, -1}, val : Cnt, led : Leds,
         mode : Modes \union {Unknown}, n : {0, 1}, cnt : Cnt]

Types == /\ LifeType /\ QueueType /\ ShownType
         /\ SetType /\ DestroyType /\ ThreadType

(* Without a context nothing is under way; the client is in one call. *)
Lifetime ==
  /\ ~context => /\ l = LNone /\ s = SIdle /\ fifo = <<>> /\ use_cnt = 0
                 /\ d.pc \in {"no", "crashed"}
                 /\ ~d.thread_exit /\ ~d.cancel
  /\ d.pc # "no" => s.pc = "idle"
  /\ d.pc = "crashed" => l.pc = "none"

(* A put that has seen room still has it, a get that has seen a record too. *)
Room == /\ Len(fifo) <= FifoCap
        /\ s.pc = "in" => s.cmd \in Cmds
        /\ s.pc = "in" /\ s.fits => Len(fifo) < FifoCap
        /\ l.pc = "out" /\ l.n = 1 => fifo # <<>>

(* Of the record put and of the one got, what use_cnt does not show yet. *)
Uncounted == IF s.pc \in {"add", "load", "store"} THEN Put ELSE 0
Taken == IF l.pc = "sub" THEN l.n ELSE 0

(***************************************************************************)
(* Builds with an indivisible update: use_cnt is exact but for the calls   *)
(* in progress, and covers the record the LED thread has woken for.        *)
(***************************************************************************)
Exact ==
  atomic =>
    /\ s.pc \notin {"load", "store"} /\ l.pc \notin {"load", "store"}
    /\ use_cnt = Len(fifo) - Uncounted + Taken
    /\ l.pc \in {"get", "out"} => l.val # 0
    /\ l.pc \in {"out", "sub"} => l.n = 1
    /\ l.pc \in {"sleep", "get", "out"} /\ l.val # 0 => use_cnt >= 1
    /\ l.pc = "sub" => use_cnt >= 1

(***************************************************************************)
(* Every build: while the loop has no mode yet it has taken no record out, *)
(* so that the client alone updates use_cnt, and no update is lost.        *)
(***************************************************************************)
FirstRecord ==
  /\ l.pc \in {"out", "sub", "load", "store", "apply"} => l.mode # Unknown
  /\ l.mode = Unknown =>
       /\ use_cnt = Len(fifo) - Uncounted
       /\ s.pc = "store" => s.cnt = use_cnt
       /\ l.pc \in {"sleep", "get"} /\ l.val # 0 => use_cnt >= 1
       /\ l.pc = "get" => l.val # 0

(***************************************************************************)
(* The fifo holds records that were set.  The loop's mode is that of one   *)
(* of them, or what a blink has shown; what it applies is a record, or     *)
(* after a get that found none its own locals, where the LED is 1.         *)
(***************************************************************************)
ToldModes ==
  /\ \A k \in 1..Len(fifo) : fifo[k] \in told
  /\ \/ l.mode \in {Unknown, OFF, ON}
     \/ <<0, l.mode>> \in told \/ <<1, l.mode>> \in told
  /\ l.pc = "get" => l.led = 1
  /\ l.pc \in {"out", "sub", "load", "store", "apply"} =>
       <<l.led, l.mode>> \in told \/ (~atomic /\ l.led = 1)

Inv == /\ Types /\ Lifetime /\ Room /\ Exact /\ FirstRecord
       /\ ToldModes /\ OnlyModesSet /\ SteadyShown

-----------------------------------------------------------------------------
(* Counts, records and steps.                                              *)

(* A remainder of CntMod is a count. *)
LEMMA CntWraps ==
  ASSUME NEW x \in Int
  PROVE  x % CntMod \in Cnt
<1>1. CntMod \in Nat \ {0}
  BY NetWiredAssumption
<1>2. x % CntMod \in 0..(CntMod - 1)
  BY <1>1, SMT
<1> QED BY <1>2 DEF Cnt

(* A count is its own remainder. *)
LEMMA CntFits ==
  ASSUME NEW x \in Cnt
  PROVE  x % CntMod = x
<1>1. CntMod \in Nat \ {0} /\ x \in 0..(CntMod - 1)
  BY NetWiredAssumption DEF Cnt
<1> QED BY <1>1, SMT

(* Taking n records out of the front. *)
LEMMA RecordOut ==
  ASSUME NEW q \in Seq(Cmds), NEW n \in {0, 1}, n = 1 => q # <<>>
  PROVE  /\ SubSeq(q, n + 1, Len(q)) \in Seq(Cmds)
         /\ Len(SubSeq(q, n + 1, Len(q))) = Len(q) - n
         /\ \A k \in 1..(Len(q) - n) : SubSeq(q, n + 1, Len(q))[k] = q[k + n]
<1>1. Len(q) \in Nat /\ (n = 1 => Len(q) >= 1)
  OBVIOUS
<1>2. \A k \in (n + 1)..Len(q) : q[k] \in Cmds
  OBVIOUS
<1> QED BY <1>1, <1>2

(* The empty count. *)
LEMMA CntZero == 0 \in Cnt
  BY NetWiredAssumption DEF Cnt

(* The client outside HyNetWiredSetLed. *)
LEMMA SIdleType ==
  SIdle \in [pc : SPc, cmd : Leds \X Modes, fits : BOOLEAN, cnt : Cnt]
  BY CntZero DEF SIdle, SPc, Leds, Modes

(* The locals of a thread that has not begun. *)
LEMMA LNoneType ==
  LNone \in [pc : LPc, ret : {0, -1}, val : Cnt, led : Leds,
             mode : Modes \union {Unknown}, n : {0, 1}, cnt : Cnt]
  BY CntZero DEF LNone, LPc, Leds

(* What the get of the LED loop leaves in the fifo. *)
LEMMA LedOutQueue ==
  ASSUME QueueType, ThreadType, Room, LedOut
  PROVE  /\ fifo' \in Seq(Cmds)
         /\ Len(fifo') = Len(fifo) - l.n
         /\ \A k \in 1..(Len(fifo) - l.n) : fifo'[k] = fifo[k + l.n]
<1>1. fifo \in Seq(Cmds) /\ l.n \in {0, 1} /\ (l.n = 1 => fifo # <<>>)
  BY DEF QueueType, ThreadType, Room, LedOut
<1>2. fifo' = SubSeq(fifo, l.n + 1, Len(fifo))
  BY DEF LedOut
<1> QED BY <1>1, <1>2, RecordOut, Zenon

(* A put of an indivisible update that does not wrap. *)
LEMMA CountUp ==
  ASSUME use_cnt + Put \in Cnt, SetLedAdd
  PROVE  use_cnt' = use_cnt + Put
  BY CntFits, Zenon DEF SetLedAdd

(* A get of an indivisible update that does not wrap. *)
LEMMA CountDown ==
  ASSUME use_cnt - l.n \in Cnt, LedSub
  PROVE  use_cnt' = use_cnt - l.n
  BY CntFits, Zenon DEF LedSub

(* The actions of the two threads. *)
LEMMA Steps ==
  ASSUME Next
  PROVE  \/ HyNetWiredCreate
         \/ HyNetWiredCreateFails
         \/ HyNetWiredCreateNoContext
         \/ (\E cmd \in Cmds : SetLed(cmd))
         \/ SetLedIn
         \/ SetLedAdd
         \/ SetLedLoad
         \/ SetLedStore
         \/ DestroyExit
         \/ DestroyFlag
         \/ DestroyCancel
         \/ DestroyJoin
         \/ ThreadStart
         \/ ThreadLoop
         \/ LedCall
         \/ ThreadCancelled
         \/ LedOuter
         \/ LedInfo
         \/ LedTick
         \/ LedGet
         \/ LedOut
         \/ LedSub
         \/ LedLoad
         \/ LedStore
         \/ LedApply
  BY DEF Next, Client, LedThread, HyNetWiredSetLed, HyNetWiredDestroy

-----------------------------------------------------------------------------
(* The invariant, part by part.                                            *)

(* What each action leaves alone. *)
LEMMA Frames ==
  ASSUME Next
  PROVE  /\ \/ UNCHANGED s
            \/ HyNetWiredCreate \/ (\E cmd \in Cmds : SetLed(cmd)) \/
               SetLedIn \/ SetLedAdd \/ SetLedLoad \/ SetLedStore \/
               DestroyJoin
         /\ \/ UNCHANGED d
            \/ HyNetWiredCreateNoContext \/ DestroyExit \/ DestroyFlag \/
               DestroyCancel \/ DestroyJoin
         /\ \/ UNCHANGED l
            \/ HyNetWiredCreate \/ DestroyJoin \/ ThreadStart \/
               ThreadLoop \/ LedCall \/ ThreadCancelled \/ LedOuter \/
               LedInfo \/ LedTick \/ LedGet \/ LedOut \/ LedSub \/ LedLoad \/
               LedStore \/ LedApply
         /\ \/ UNCHANGED queue
            \/ HyNetWiredCreate \/ SetLedIn \/ SetLedAdd \/ SetLedStore \/
               DestroyJoin \/ LedOut \/ LedSub \/ LedStore
         /\ \/ UNCHANGED shown
            \/ HyNetWiredCreate \/ DestroyJoin \/ LedTick \/ LedApply
         /\ \/ UNCHANGED <<context, exit, told, atomic>>
            \/ HyNetWiredCreate \/ SetLedIn \/ DestroyExit \/ DestroyJoin
<1> USE DEF life, queue, shown, vars
<1>1. CASE HyNetWiredCreate
  BY <1>1 DEF HyNetWiredCreate, Fresh
<1>2. CASE HyNetWiredCreateFails
  BY <1>2 DEF HyNetWiredCreateFails
<1>3. CASE HyNetWiredCreateNoContext
  BY <1>3 DEF HyNetWiredCreateNoContext
<1>4. CASE \E cmd \in Cmds : SetLed(cmd)
  BY <1>4 DEF SetLed
<1>5. CASE SetLedIn
  BY <1>5 DEF SetLedIn
<1>6. CASE SetLedAdd
  BY <1>6 DEF SetLedAdd
<1>7. CASE SetLedLoad
  BY <1>7 DEF SetLedLoad
<1>8. CASE SetLedStore
  BY <1>8 DEF SetLedStore
<1>9. CASE DestroyExit
  BY <1>9 DEF DestroyExit
<1>10. CASE DestroyFlag
  BY <1>10 DEF DestroyFlag
<1>11. CASE DestroyCancel
  BY <1>11 DEF DestroyCancel
<1>12. CASE DestroyJoin
  BY <1>12 DEF DestroyJoin, Fresh
<1>13. CASE ThreadStart
  BY <1>13 DEF ThreadStart
<1>14. CASE ThreadLoop
  BY <1>14 DEF ThreadLoop
<1>15. CASE ThreadCancelled
  BY <1>15 DEF ThreadCancelled
<1>16. CASE LedOuter
  BY <1>16 DEF LedOuter
<1>17. CASE LedInfo
  BY <1>17 DEF LedInfo
<1>18. CASE LedTick
  BY <1>18 DEF LedTick
<1>19. CASE LedGet
  BY <1>19 DEF LedGet
<1>20. CASE LedOut
  BY <1>20 DEF LedOut
<1>21. CASE LedSub
  BY <1>21 DEF LedSub
<1>22. CASE LedLoad
  BY <1>22 DEF LedLoad
<1>23. CASE LedStore
  BY <1>23 DEF LedStore
<1>24. CASE LedApply
  BY <1>24 DEF LedApply
<1>25. CASE LedCall
  BY <1>25 DEF LedCall
<1> QED BY Steps, <1>1, <1>2, <1>3, <1>4, <1>5, <1>6, <1>7, <1>8, <1>9,
           <1>10, <1>11, <1>12, <1>13, <1>14, <1>15, <1>16, <1>17, <1>18,
           <1>19, <1>20, <1>21, <1>22, <1>23, <1>24, <1>25

(* Records set are among those the client sets. *)
LEMMA LifeTypeStep ==
  ASSUME Inv, Next
  PROVE  LifeType'
<1> USE DEF Inv, Types, LifeType, life, queue, shown
<1>1. CASE UNCHANGED <<context, exit, told, atomic>>
  BY <1>1
<1>2. CASE HyNetWiredCreate
  BY <1>2 DEF HyNetWiredCreate, Fresh
<1>3. CASE SetLedIn
  BY <1>3 DEF SetLedIn, Room
<1>4. CASE DestroyExit
  BY <1>4 DEF DestroyExit
<1>5. CASE DestroyJoin
  BY <1>5 DEF DestroyJoin, Fresh
<1> QED BY Frames, <1>1, <1>2, <1>3, <1>4, <1>5

(* use_cnt wraps, whichever of its updates is lost. *)
LEMMA QueueTypeStep ==
  ASSUME Inv, Next
  PROVE  QueueType'
<1> USE NetWiredAssumption
        DEF Inv, Types, QueueType, Cnt, life, queue, shown
<1>1. CASE UNCHANGED queue
  BY <1>1
<1>2. CASE HyNetWiredCreate
  BY <1>2 DEF HyNetWiredCreate, Fresh
<1>3. CASE SetLedIn
  <2>1. s.cmd \in Cmds /\ fifo \in Seq(Cmds)
    BY <1>3 DEF SetLedIn, Room
  <2>2. Append(fifo, s.cmd) \in Seq(Cmds)
    BY <2>1
  <2> QED BY <1>3, <2>1, <2>2 DEF SetLedIn
<1>4. CASE SetLedAdd
  <2>1. use_cnt + Put \in Int
    BY DEF Put
  <2>2. (use_cnt + Put) % CntMod \in Cnt
    BY <2>1, CntWraps
  <2> QED BY <1>4, <2>2 DEF SetLedAdd
<1>5. CASE SetLedStore
  <2>1. s.cnt + Put \in Int
    BY DEF Put, SetType
  <2>2. (s.cnt + Put) % CntMod \in Cnt
    BY <2>1, CntWraps
  <2> QED BY <1>5, <2>2 DEF SetLedStore
<1>6. CASE DestroyJoin
  BY <1>6 DEF DestroyJoin, Fresh
<1>7. CASE LedOut
  <2>1. l.n \in {0, 1} /\ (l.n = 1 => fifo # <<>>)
    BY <1>7 DEF LedOut, Room, ThreadType
  <2>2. SubSeq(fifo, l.n + 1, Len(fifo)) \in Seq(Cmds)
    BY <2>1, RecordOut
  <2> QED BY <1>7, <2>2 DEF LedOut
<1>8. CASE LedSub
  <2>1. use_cnt - l.n \in Int
    BY DEF ThreadType
  <2>2. (use_cnt - l.n) % CntMod \in Cnt
    BY <2>1, CntWraps
  <2> QED BY <1>8, <2>2 DEF LedSub
<1>9. CASE LedStore
  <2>1. l.cnt - l.n \in Int
    BY DEF ThreadType
  <2>2. (l.cnt - l.n) % CntMod \in Cnt
    BY <2>1, CntWraps
  <2> QED BY <1>9, <2>2 DEF LedStore
<1> QED BY Frames, <1>1, <1>2, <1>3, <1>4, <1>5, <1>6, <1>7, <1>8, <1>9

(* A mode is applied only when a record has been taken out. *)
LEMMA ShownTypeStep ==
  ASSUME Inv, Next
  PROVE  ShownType'
<1> USE DEF Inv, Types, ShownType, Modes, OFF, ON, SLOW, FAST, Unknown,
            CntCap, Blink0, Dev0, life, queue, shown
<1>1. CASE UNCHANGED shown
  BY <1>1
<1>2. CASE HyNetWiredCreate
  BY <1>2 DEF HyNetWiredCreate, Fresh
<1>3. CASE DestroyJoin
  BY <1>3 DEF DestroyJoin, Fresh
<1>4. CASE LedTick
  <2>1. \A i \in Leds : BlinkMode(i) \in {OFF, ON}
    BY DEF BlinkMode
  <2>2. \A i \in Leds : Tick(blink[i].cnt) \in 0..CntCap
    BY DEF Tick
  <2>3. \A i \in Leds : (~blink[i].flag) \in BOOLEAN
    OBVIOUS
  <2> DEFINE c(i) == IF Blinks(i) THEN 0 ELSE Tick(blink[i].cnt)
             f(i) == IF Blinks(i) THEN ~blink[i].flag ELSE blink[i].flag
             b(i) == [mode |-> blink[i].mode, cnt |-> c(i), flag |-> f(i)]
  <2>4. ASSUME NEW i \in Leds
        PROVE  b(i) \in [mode : Modes, cnt : 0..CntCap, flag : BOOLEAN]
    <3>1. blink[i].mode \in Modes /\ c(i) \in 0..CntCap
      BY <2>2
    <3>2. f(i) \in BOOLEAN
      BY <2>3
    <3> HIDE DEF c, f
    <3> QED BY <3>1, <3>2
  <2>5. blink' = [i \in Leds |-> b(i)]
    BY <1>4 DEF LedTick
  <2>6. dev' \in [Leds -> {OFF, ON, Unknown}]
    BY <1>4, <2>1 DEF LedTick
  <2> HIDE DEF b
  <2> QED BY <2>4, <2>5, <2>6
<1>5. CASE LedApply
  <2>1. l.mode \in Modes /\ l.led \in Leds
    BY <1>5 DEF LedApply, FirstRecord, ThreadType
  <2>2. blink' \in [Leds -> [mode : Modes, cnt : 0..CntCap, flag : BOOLEAN]]
    BY <1>5, <2>1 DEF LedApply
  <2>3. dev' \in [Leds -> {OFF, ON, Unknown}]
    BY <1>5, <2>1 DEF LedApply
  <2> QED BY <2>2, <2>3
<1> QED BY Frames, <1>1, <1>2, <1>3, <1>4, <1>5

(* Fields and locals keep their types. *)
LEMMA SetTypeStep ==
  ASSUME Inv, Next
  PROVE  SetType'
<1> USE DEF Inv, Types, SetType, SPc, QueueType, life, queue, shown
<1>1. CASE UNCHANGED s
  BY <1>1
<1>2. CASE HyNetWiredCreate
  BY <1>2, SIdleType DEF HyNetWiredCreate, Fresh, SetType
<1>3. CASE \E cmd \in Cmds : SetLed(cmd)
  <2>1. PICK cmd \in Cmds : SetLed(cmd)
    BY <1>3
  <2>2. cmd \in Leds \X Modes /\ (Len(fifo) < FifoCap) \in BOOLEAN
    BY NetWiredAssumption
  <2> QED BY <2>1, <2>2 DEF SetLed
<1>4. CASE SetLedIn
  BY <1>4 DEF SetLedIn
<1>5. CASE SetLedAdd
  BY <1>5, SIdleType DEF SetLedAdd, SetType
<1>6. CASE SetLedLoad
  BY <1>6 DEF SetLedLoad
<1>7. CASE SetLedStore
  BY <1>7, SIdleType DEF SetLedStore, SetType
<1>8. CASE DestroyJoin
  BY <1>8, SIdleType DEF DestroyJoin, Fresh, SetType
<1> QED BY Frames, <1>1, <1>2, <1>3, <1>4, <1>5, <1>6, <1>7, <1>8

(* Fields and locals keep their types. *)
LEMMA DestroyTypeStep ==
  ASSUME Inv, Next
  PROVE  DestroyType'
<1> USE DEF Inv, Types, DestroyType, DPc, DIdle, life, queue, shown
<1>1. CASE UNCHANGED d
  BY <1>1
<1>2. CASE HyNetWiredCreateNoContext
  BY <1>2 DEF HyNetWiredCreateNoContext
<1>3. CASE DestroyExit
  BY <1>3 DEF DestroyExit
<1>4. CASE DestroyFlag
  BY <1>4 DEF DestroyFlag
<1>5. CASE DestroyCancel
  BY <1>5 DEF DestroyCancel
<1>6. CASE DestroyJoin
  BY <1>6 DEF DestroyJoin, Fresh
<1> QED BY Frames, <1>1, <1>2, <1>3, <1>4, <1>5, <1>6

(* Fields and locals keep their types. *)
LEMMA ThreadTypeStep ==
  ASSUME Inv, Next
  PROVE  ThreadType'
<1> USE DEF Inv, Types, ThreadType, LPc, QueueType, life, queue, shown
<1>1. CASE UNCHANGED l
  BY <1>1
<1>2. CASE HyNetWiredCreate
  <2>1. PICK pc \in {"start", "none"} : l' = [LNone EXCEPT !.pc = pc]
    BY <1>2 DEF HyNetWiredCreate
  <2> QED BY <2>1, LNoneType
<1>3. CASE DestroyJoin
  BY <1>3, LNoneType DEF DestroyJoin
<1>4. CASE ThreadStart
  BY <1>4 DEF ThreadStart
<1>5. CASE ThreadLoop
  BY <1>5 DEF ThreadLoop
<1>6. CASE ThreadCancelled
  BY <1>6 DEF ThreadCancelled
<1>7. CASE LedOuter
  BY <1>7 DEF LedOuter
<1>8. CASE LedInfo
  BY <1>8 DEF LedInfo
<1>9. CASE LedTick
  <2>1. LastBlink \in Modes \union {Unknown}
    BY DEF LastBlink, BlinkMode, Modes
  <2> QED BY <1>9, <2>1 DEF LedTick, Leds
<1>10. CASE LedGet
  <2>1. CASE fifo = <<>>
    BY <1>10, <2>1 DEF LedGet
  <2>2. CASE fifo # <<>>
    <3>1. Head(fifo) \in Leds \X Modes
      BY <2>2, NetWiredAssumption
    <3> QED BY <1>10, <2>2, <3>1 DEF LedGet
  <2> QED BY <2>1, <2>2
<1>11. CASE LedOut
  BY <1>11 DEF LedOut
<1>12. CASE LedSub
  BY <1>12 DEF LedSub
<1>13. CASE LedLoad
  BY <1>13 DEF LedLoad
<1>14. CASE LedStore
  BY <1>14, CntZero DEF LedStore
<1>15. CASE LedApply
  BY <1>15, CntZero DEF LedApply
<1>16. CASE LedCall
  BY <1>16 DEF LedCall
<1> QED BY Frames, <1>1, <1>2, <1>3, <1>4, <1>5, <1>6, <1>7, <1>8, <1>9,
           <1>10, <1>11, <1>12, <1>13, <1>14, <1>15, <1>16

(* The context is freed after the join, and the client is in one call. *)
LEMMA LifetimeStep ==
  ASSUME Inv, Next
  PROVE  Lifetime'
<1> USE DEF Inv, Types, LifeType, QueueType, SetType, ThreadType,
            DestroyType, DPc, DIdle, Lifetime, Cnt, LPc, SPc, Modes, Leds,
            OFF, ON, SLOW, FAST, Unknown, SIdle, LNone, life, queue, shown
<1>1. CASE HyNetWiredCreate
  BY <1>1 DEF HyNetWiredCreate, Fresh
<1>2. CASE HyNetWiredCreateFails
  BY <1>2 DEF HyNetWiredCreateFails, vars
<1>3. CASE HyNetWiredCreateNoContext
  BY <1>3 DEF HyNetWiredCreateNoContext
<1>4. CASE \E cmd \in Cmds : SetLed(cmd)
  BY <1>4 DEF SetLed
<1>5. CASE SetLedIn
  BY <1>5 DEF SetLedIn
<1>6. CASE SetLedAdd
  BY <1>6 DEF SetLedAdd, Put
<1>7. CASE SetLedLoad
  BY <1>7 DEF SetLedLoad
<1>8. CASE SetLedStore
  BY <1>8 DEF SetLedStore, Put
<1>9. CASE DestroyExit
  BY <1>9 DEF DestroyExit
<1>10. CASE DestroyFlag
  BY <1>10 DEF DestroyFlag
<1>11. CASE DestroyCancel
  BY <1>11 DEF DestroyCancel
<1>12. CASE DestroyJoin
  BY <1>12 DEF DestroyJoin, Fresh
<1>13. CASE ThreadStart
  BY <1>13 DEF ThreadStart
<1>14. CASE ThreadLoop
  BY <1>14 DEF ThreadLoop
<1>15. CASE ThreadCancelled
  BY <1>15 DEF ThreadCancelled
<1>16. CASE LedOuter
  BY <1>16 DEF LedOuter
<1>17. CASE LedInfo
  BY <1>17 DEF LedInfo
<1>18. CASE LedTick
  BY <1>18 DEF LedTick, Blinks, BlinkMode, LastBlink, Tick
<1>19. CASE LedGet
  BY <1>19 DEF LedGet
<1>20. CASE LedOut
  BY <1>20 DEF LedOut
<1>21. CASE LedSub
  BY <1>21 DEF LedSub
<1>22. CASE LedLoad
  BY <1>22 DEF LedLoad
<1>23. CASE LedStore
  BY <1>23 DEF LedStore
<1>24. CASE LedApply
  BY <1>24 DEF LedApply
<1>25. CASE LedCall
  BY <1>25 DEF LedCall
<1> QED BY Steps, <1>1, <1>2, <1>3, <1>4, <1>5, <1>6, <1>7, <1>8, <1>9,
           <1>10, <1>11, <1>12, <1>13, <1>14, <1>15, <1>16, <1>17, <1>18,
           <1>19, <1>20, <1>21, <1>22, <1>23, <1>24, <1>25

(* There is still room when the record is written: only the LED thread
   has come between, and it takes records out. *)
LEMMA RoomStep ==
  ASSUME Inv, Next
  PROVE  Room'
<1> USE NetWiredAssumption
        DEF Inv, Types, LifeType, QueueType, SetType, ThreadType, Lifetime,
            Room, Cnt, LPc, SPc, Modes, Leds, OFF, ON, SLOW, FAST, Unknown,
            SIdle, LNone, life, queue, shown
<1>1. CASE HyNetWiredCreate
  BY <1>1 DEF HyNetWiredCreate, Fresh
<1>2. CASE HyNetWiredCreateFails
  BY <1>2 DEF HyNetWiredCreateFails, vars
<1>3. CASE HyNetWiredCreateNoContext
  BY <1>3 DEF HyNetWiredCreateNoContext
<1>4. CASE \E cmd \in Cmds : SetLed(cmd)
  BY <1>4 DEF SetLed
<1>5. CASE SetLedIn
  BY <1>5 DEF SetLedIn
<1>6. CASE SetLedAdd
  BY <1>6 DEF SetLedAdd, Put
<1>7. CASE SetLedLoad
  BY <1>7 DEF SetLedLoad
<1>8. CASE SetLedStore
  BY <1>8 DEF SetLedStore, Put
<1>9. CASE DestroyExit
  BY <1>9 DEF DestroyExit
<1>10. CASE DestroyFlag
  BY <1>10 DEF DestroyFlag
<1>11. CASE DestroyCancel
  BY <1>11 DEF DestroyCancel
<1>12. CASE DestroyJoin
  BY <1>12 DEF DestroyJoin, Fresh
<1>13. CASE ThreadStart
  BY <1>13 DEF ThreadStart
<1>14. CASE ThreadLoop
  BY <1>14 DEF ThreadLoop
<1>15. CASE ThreadCancelled
  BY <1>15 DEF ThreadCancelled
<1>16. CASE LedOuter
  BY <1>16 DEF LedOuter
<1>17. CASE LedInfo
  BY <1>17 DEF LedInfo
<1>18. CASE LedTick
  BY <1>18 DEF LedTick, Blinks, BlinkMode, LastBlink, Tick
<1>19. CASE LedGet
  BY <1>19 DEF LedGet
<1>20. CASE LedOut
  <2>1. /\ fifo' \in Seq(Cmds) /\ Len(fifo') = Len(fifo) - l.n
        /\ \A k \in 1..(Len(fifo) - l.n) : fifo'[k] = fifo[k + l.n]
    BY <1>20, LedOutQueue
  <2> QED BY <1>20, <2>1 DEF LedOut
<1>21. CASE LedSub
  BY <1>21 DEF LedSub
<1>22. CASE LedLoad
  BY <1>22 DEF LedLoad
<1>23. CASE LedStore
  BY <1>23 DEF LedStore
<1>24. CASE LedApply
  BY <1>24 DEF LedApply
<1>25. CASE LedCall
  BY <1>25 DEF LedCall
<1> QED BY Steps, <1>1, <1>2, <1>3, <1>4, <1>5, <1>6, <1>7, <1>8, <1>9,
           <1>10, <1>11, <1>12, <1>13, <1>14, <1>15, <1>16, <1>17, <1>18,
           <1>19, <1>20, <1>21, <1>22, <1>23, <1>24, <1>25

(* With an indivisible update the count is behind the fifo by the put in
   progress and ahead of it by the get in progress. *)
LEMMA ExactStep ==
  ASSUME Inv, Next
  PROVE  Exact'
<1> USE NetWiredAssumption
        DEF Inv, Types, LifeType, QueueType, SetType, ThreadType, Lifetime,
            Room, Exact, Uncounted, Taken, Put, Cnt, LPc, SPc, Modes, Leds,
            OFF, ON, SLOW, FAST, Unknown, SIdle, LNone, life, queue, shown
<1>1. CASE HyNetWiredCreate
  BY <1>1 DEF HyNetWiredCreate, Fresh
<1>2. CASE HyNetWiredCreateFails
  BY <1>2 DEF HyNetWiredCreateFails, vars
<1>3. CASE HyNetWiredCreateNoContext
  BY <1>3 DEF HyNetWiredCreateNoContext
<1>4. CASE \E cmd \in Cmds : SetLed(cmd)
  BY <1>4 DEF SetLed
<1>5. CASE SetLedIn
  BY <1>5 DEF SetLedIn
<1>6. CASE SetLedAdd
  <2>1. CASE ~atomic
    BY <1>6, <2>1 DEF SetLedAdd
  <2>2. CASE atomic
    <3>1. /\ use_cnt = Len(fifo) - Put + Taken
          /\ Put \in {0, 1} /\ Len(fifo) \in Nat /\ Taken \in {0, 1}
      BY <1>6, <2>2 DEF SetLedAdd, Put
    <3>2. use_cnt + Put \in Cnt
      BY <3>1
    <3>3. use_cnt' = use_cnt + Put
      <4> HIDE DEF Put, Cnt
      <4> QED BY <1>6, <3>2, CountUp
    <3>4. s' = SIdle /\ UNCHANGED <<fifo, l, atomic>>
      BY <1>6 DEF SetLedAdd
    <3> QED BY <2>2, <3>1, <3>3, <3>4
  <2> QED BY <2>1, <2>2
<1>7. CASE SetLedLoad
  BY <1>7 DEF SetLedLoad
<1>8. CASE SetLedStore
  BY <1>8 DEF SetLedStore, Put
<1>9. CASE DestroyExit
  BY <1>9 DEF DestroyExit
<1>10. CASE DestroyFlag
  BY <1>10 DEF DestroyFlag
<1>11. CASE DestroyCancel
  BY <1>11 DEF DestroyCancel
<1>12. CASE DestroyJoin
  BY <1>12 DEF DestroyJoin, Fresh
<1>13. CASE ThreadStart
  BY <1>13 DEF ThreadStart
<1>14. CASE ThreadLoop
  BY <1>14 DEF ThreadLoop
<1>15. CASE ThreadCancelled
  BY <1>15 DEF ThreadCancelled
<1>16. CASE LedOuter
  BY <1>16 DEF LedOuter
<1>17. CASE LedInfo
  BY <1>17 DEF LedInfo
<1>18. CASE LedTick
  BY <1>18 DEF LedTick, Blinks, BlinkMode, LastBlink, Tick
<1>19. CASE LedGet
  BY <1>19 DEF LedGet
<1>20. CASE LedOut
  <2>1. /\ fifo' \in Seq(Cmds) /\ Len(fifo') = Len(fifo) - l.n
        /\ \A k \in 1..(Len(fifo) - l.n) : fifo'[k] = fifo[k + l.n]
    BY <1>20, LedOutQueue
  <2> QED BY <1>20, <2>1 DEF LedOut, Put
<1>21. CASE LedSub
  <2>1. CASE ~atomic
    BY <1>21, <2>1 DEF LedSub
  <2>2. CASE atomic
    <3>1. l.n = 1 /\ use_cnt >= 1 /\ use_cnt = Len(fifo) - Uncounted + 1
      BY <1>21, <2>2 DEF LedSub
    <3>2. use_cnt - l.n \in Cnt
      BY <3>1
    <3>3. use_cnt' = use_cnt - l.n
      <4> HIDE DEF Put, Cnt
      <4> QED BY <1>21, <3>2, CountDown
    <3>4. l'.pc = "apply" /\ UNCHANGED <<fifo, s, atomic>>
      BY <1>21 DEF LedSub
    <3> QED BY <2>2, <3>1, <3>3, <3>4
  <2> QED BY <2>1, <2>2
<1>22. CASE LedLoad
  BY <1>22 DEF LedLoad
<1>23. CASE LedStore
  BY <1>23 DEF LedStore
<1>24. CASE LedApply
  BY <1>24 DEF LedApply
<1>25. CASE LedCall
  BY <1>25 DEF LedCall
<1> QED BY Steps, <1>1, <1>2, <1>3, <1>4, <1>5, <1>6, <1>7, <1>8, <1>9,
           <1>10, <1>11, <1>12, <1>13, <1>14, <1>15, <1>16, <1>17, <1>18,
           <1>19, <1>20, <1>21, <1>22, <1>23, <1>24, <1>25

(* Before the first record only the client updates the count, so that it
   is exact in every build. *)
LEMMA FirstRecordStep ==
  ASSUME Inv, Next
  PROVE  FirstRecord'
<1> USE NetWiredAssumption
        DEF Inv, Types, LifeType, QueueType, SetType, ThreadType, Lifetime,
            Room, FirstRecord, Uncounted, Put, Cnt, LPc, SPc, Modes, Leds,
            OFF, ON, SLOW, FAST, Unknown, SIdle, LNone, life, queue, shown
<1>1. CASE HyNetWiredCreate
  BY <1>1 DEF HyNetWiredCreate, Fresh
<1>2. CASE HyNetWiredCreateFails
  BY <1>2 DEF HyNetWiredCreateFails, vars
<1>3. CASE HyNetWiredCreateNoContext
  BY <1>3 DEF HyNetWiredCreateNoContext
<1>4. CASE \E cmd \in Cmds : SetLed(cmd)
  BY <1>4 DEF SetLed
<1>5. CASE SetLedIn
  BY <1>5 DEF SetLedIn
<1>6. CASE SetLedAdd
  <2>1. CASE l.mode # Unknown
    BY <1>6, <2>1 DEF SetLedAdd
  <2>2. CASE l.mode = Unknown
    <3>1. use_cnt = Len(fifo) - Put /\ Put \in {0, 1} /\ Len(fifo) \in Nat
      BY <1>6, <2>2 DEF SetLedAdd, Put
    <3>2. use_cnt + Put \in Cnt
      BY <3>1
    <3>3. use_cnt' = use_cnt + Put
      <4> HIDE DEF Put, Cnt
      <4> QED BY <1>6, <3>2, CountUp
    <3>4. s' = SIdle /\ UNCHANGED <<fifo, l, atomic>>
      BY <1>6 DEF SetLedAdd
    <3> QED BY <2>2, <3>1, <3>3, <3>4
  <2> QED BY <2>1, <2>2
<1>7. CASE SetLedLoad
  BY <1>7 DEF SetLedLoad
<1>8. CASE SetLedStore
  <2>1. CASE l.mode # Unknown
    BY <1>8, <2>1 DEF SetLedStore
  <2>2. CASE l.mode = Unknown
    <3>1. /\ use_cnt = Len(fifo) - Put /\ s.cnt = use_cnt
          /\ Put \in {0, 1} /\ Len(fifo) \in Nat
      BY <1>8, <2>2 DEF SetLedStore, Put
    <3>2. s.cnt + Put \in Cnt
      BY <3>1
    <3>3. (s.cnt + Put) % CntMod = s.cnt + Put
      BY <3>2, CntFits, Zenon
    <3>4. use_cnt' = use_cnt + Put
      BY <1>8, <3>1, <3>3, Zenon DEF SetLedStore
    <3> QED BY <1>8, <2>2, <3>1, <3>4 DEF SetLedStore
  <2> QED BY <2>1, <2>2
<1>9. CASE DestroyExit
  BY <1>9 DEF DestroyExit
<1>10. CASE DestroyFlag
  BY <1>10 DEF DestroyFlag
<1>11. CASE DestroyCancel
  BY <1>11 DEF DestroyCancel
<1>12. CASE DestroyJoin
  BY <1>12 DEF DestroyJoin, Fresh
<1>13. CASE ThreadStart
  BY <1>13 DEF ThreadStart
<1>14. CASE ThreadLoop
  BY <1>14 DEF ThreadLoop
<1>15. CASE ThreadCancelled
  BY <1>15 DEF ThreadCancelled
<1>16. CASE LedOuter
  BY <1>16 DEF LedOuter
<1>17. CASE LedInfo
  BY <1>17 DEF LedInfo
<1>18. CASE LedTick
  BY <1>18 DEF LedTick, Blinks, BlinkMode, LastBlink, Tick
<1>19. CASE LedGet
  <2>1. CASE fifo = <<>>
    BY <1>19, <2>1 DEF LedGet
  <2>2. CASE fifo # <<>>
    <3>1. Head(fifo)[2] \in Modes
      BY <2>2
    <3>2. /\ l' = [l EXCEPT !.pc = "out", !.n = 1,
                            !.led = Head(fifo)[1], !.mode = Head(fifo)[2]]
          /\ UNCHANGED <<queue, s>>
      BY <1>19, <2>2 DEF LedGet
    <3> QED BY <3>1, <3>2
  <2> QED BY <2>1, <2>2
<1>20. CASE LedOut
  BY <1>20 DEF LedOut
<1>21. CASE LedSub
  BY <1>21 DEF LedSub
<1>22. CASE LedLoad
  BY <1>22 DEF LedLoad
<1>23. CASE LedStore
  BY <1>23 DEF LedStore
<1>24. CASE LedApply
  BY <1>24 DEF LedApply
<1>25. CASE LedCall
  BY <1>25 DEF LedCall
<1> QED BY Steps, <1>1, <1>2, <1>3, <1>4, <1>5, <1>6, <1>7, <1>8, <1>9,
           <1>10, <1>11, <1>12, <1>13, <1>14, <1>15, <1>16, <1>17, <1>18,
           <1>19, <1>20, <1>21, <1>22, <1>23, <1>24, <1>25

(* The locals of the loop hold a record of the fifo when they are applied. *)
LEMMA ToldModesStep ==
  ASSUME Inv, Next
  PROVE  ToldModes'
<1> USE NetWiredAssumption
        DEF Inv, Types, LifeType, QueueType, SetType, ThreadType, Lifetime,
            Room, Exact, ToldModes, Cnt, LPc, SPc, Modes, Leds, OFF, ON,
            SLOW, FAST, Unknown, SIdle, LNone, life, queue, shown
<1>1. CASE HyNetWiredCreate
  BY <1>1 DEF HyNetWiredCreate, Fresh
<1>2. CASE HyNetWiredCreateFails
  BY <1>2 DEF HyNetWiredCreateFails, vars
<1>3. CASE HyNetWiredCreateNoContext
  BY <1>3 DEF HyNetWiredCreateNoContext
<1>4. CASE \E cmd \in Cmds : SetLed(cmd)
  BY <1>4 DEF SetLed
<1>5. CASE SetLedIn
  BY <1>5 DEF SetLedIn
<1>6. CASE SetLedAdd
  BY <1>6 DEF SetLedAdd, Put
<1>7. CASE SetLedLoad
  BY <1>7 DEF SetLedLoad
<1>8. CASE SetLedStore
  BY <1>8 DEF SetLedStore, Put
<1>9. CASE DestroyExit
  BY <1>9 DEF DestroyExit
<1>10. CASE DestroyFlag
  BY <1>10 DEF DestroyFlag
<1>11. CASE DestroyCancel
  BY <1>11 DEF DestroyCancel
<1>12. CASE DestroyJoin
  BY <1>12 DEF DestroyJoin, Fresh
<1>13. CASE ThreadStart
  BY <1>13 DEF ThreadStart
<1>14. CASE ThreadLoop
  BY <1>14 DEF ThreadLoop
<1>15. CASE ThreadCancelled
  BY <1>15 DEF ThreadCancelled
<1>16. CASE LedOuter
  BY <1>16 DEF LedOuter
<1>17. CASE LedInfo
  BY <1>17 DEF LedInfo
<1>18. CASE LedTick
  BY <1>18 DEF LedTick, Blinks, BlinkMode, LastBlink, Tick
<1>19. CASE LedGet
  <2>1. CASE fifo = <<>>
    <3>1. atomic => Len(fifo) > 0
      BY <1>19 DEF LedGet, Uncounted, Taken, Put
    <3>2. ~atomic
      BY <2>1, <3>1
    <3>3. l' = [l EXCEPT !.pc = "out", !.n = 0] /\ l.pc = "get"
      BY <1>19, <2>1 DEF LedGet
    <3>4. UNCHANGED <<fifo, told, atomic>>
      BY <1>19 DEF LedGet
    <3> QED BY <3>2, <3>3, <3>4
  <2>2. CASE fifo # <<>>
    <3>1. /\ Head(fifo) = fifo[1]
          /\ Head(fifo) \in Leds \X Modes /\ Head(fifo) \in told
      BY <2>2
    <3>2. Head(fifo) = <<Head(fifo)[1], Head(fifo)[2]>>
      BY <3>1
    <3>3. l' = [l EXCEPT !.pc = "out", !.n = 1,
                         !.led = Head(fifo)[1], !.mode = Head(fifo)[2]]
      BY <1>19, <2>2 DEF LedGet
    <3>4. l'.led = Head(fifo)[1] /\ l'.mode = Head(fifo)[2]
      BY <3>3
    <3>5. fifo' = fifo /\ told' = told /\ l'.pc = "out"
      BY <1>19, <3>3 DEF LedGet
    <3>6. l'.led \in {0, 1} /\ <<l'.led, l'.mode>> \in told
      BY <3>1, <3>2, <3>4
    <3>7. <<0, l'.mode>> \in told \/ <<1, l'.mode>> \in told
      BY <3>6
    <3> QED BY <3>5, <3>6, <3>7
  <2> QED BY <2>1, <2>2
<1>20. CASE LedOut
  <2>1. /\ fifo' \in Seq(Cmds) /\ Len(fifo') = Len(fifo) - l.n
        /\ \A k \in 1..(Len(fifo) - l.n) : fifo'[k] = fifo[k + l.n]
    BY <1>20, LedOutQueue
  <2>3. ASSUME NEW k \in 1..Len(fifo') PROVE fifo'[k] \in told'
    <3>1. l.n \in {0, 1} /\ Len(fifo) \in Nat /\ told' = told
      BY <1>20 DEF LedOut
    <3>2. k \in 1..(Len(fifo) - l.n) /\ k + l.n \in 1..Len(fifo)
      BY <2>1, <3>1
    <3> QED BY <2>1, <3>1, <3>2
  <2> QED BY <1>20, <2>3 DEF LedOut
<1>21. CASE LedSub
  BY <1>21 DEF LedSub
<1>22. CASE LedLoad
  BY <1>22 DEF LedLoad
<1>23. CASE LedStore
  BY <1>23 DEF LedStore
<1>24. CASE LedApply
  BY <1>24 DEF LedApply
<1>25. CASE LedCall
  BY <1>25 DEF LedCall
<1> QED BY Steps, <1>1, <1>2, <1>3, <1>4, <1>5, <1>6, <1>7, <1>8, <1>9,
           <1>10, <1>11, <1>12, <1>13, <1>14, <1>15, <1>16, <1>17, <1>18,
           <1>19, <1>20, <1>21, <1>22, <1>23, <1>24, <1>25

(* ... so that a LED is run in a mode that was set for it. *)
LEMMA OnlyModesSetStep ==
  ASSUME Inv, Next
  PROVE  OnlyModesSet'
<1> USE DEF Inv, Types, LifeType, QueueType, SetType, ThreadType,
            ShownType, ToldModes, OnlyModesSet, Exact, Blink0, Cnt, LPc,
            SPc, Modes, Leds, OFF, ON, SLOW, FAST, Unknown, SIdle, LNone,
            life, queue, shown
<1>1. CASE HyNetWiredCreate
  BY <1>1 DEF HyNetWiredCreate, Fresh
<1>2. CASE HyNetWiredCreateFails
  BY <1>2 DEF HyNetWiredCreateFails, vars
<1>3. CASE HyNetWiredCreateNoContext
  BY <1>3 DEF HyNetWiredCreateNoContext
<1>4. CASE \E cmd \in Cmds : SetLed(cmd)
  BY <1>4 DEF SetLed
<1>5. CASE SetLedIn
  BY <1>5 DEF SetLedIn
<1>6. CASE SetLedAdd
  BY <1>6 DEF SetLedAdd, Put
<1>7. CASE SetLedLoad
  BY <1>7 DEF SetLedLoad
<1>8. CASE SetLedStore
  BY <1>8 DEF SetLedStore, Put
<1>9. CASE DestroyExit
  BY <1>9 DEF DestroyExit
<1>10. CASE DestroyFlag
  BY <1>10 DEF DestroyFlag
<1>11. CASE DestroyCancel
  BY <1>11 DEF DestroyCancel
<1>12. CASE DestroyJoin
  BY <1>12 DEF DestroyJoin, Fresh
<1>13. CASE ThreadStart
  BY <1>13 DEF ThreadStart
<1>14. CASE ThreadLoop
  BY <1>14 DEF ThreadLoop
<1>15. CASE ThreadCancelled
  BY <1>15 DEF ThreadCancelled
<1>16. CASE LedOuter
  BY <1>16 DEF LedOuter
<1>17. CASE LedInfo
  BY <1>17 DEF LedInfo
<1>18. CASE LedTick
  BY <1>18 DEF LedTick, Blinks, BlinkMode, LastBlink, Tick
<1>19. CASE LedGet
  BY <1>19 DEF LedGet
<1>20. CASE LedOut
  BY <1>20 DEF LedOut
<1>21. CASE LedSub
  BY <1>21 DEF LedSub
<1>22. CASE LedLoad
  BY <1>22 DEF LedLoad
<1>23. CASE LedStore
  BY <1>23 DEF LedStore
<1>24. CASE LedApply
  <2>1. \A i \in Leds :
          blink'[i].mode = IF i = l.led THEN l.mode ELSE blink[i].mode
    BY <1>24 DEF LedApply
  <2>2. told' = told /\ atomic' = atomic
    BY <1>24 DEF LedApply
  <2>3. /\ <<l.led, l.mode>> \in told \/ (~atomic /\ l.led = 1)
        /\ \/ l.mode \in {OFF, ON}
           \/ <<0, l.mode>> \in told \/ <<1, l.mode>> \in told
    BY <1>24 DEF LedApply, FirstRecord
  <2>4. \A x : 0 # 1 /\ l.led \in {0, 1}
    OBVIOUS
  <2> QED BY <2>1, <2>2, <2>3, <2>4
<1>25. CASE LedCall
  BY <1>25 DEF LedCall
<1> QED BY Steps, <1>1, <1>2, <1>3, <1>4, <1>5, <1>6, <1>7, <1>8, <1>9,
           <1>10, <1>11, <1>12, <1>13, <1>14, <1>15, <1>16, <1>17, <1>18,
           <1>19, <1>20, <1>21, <1>22, <1>23, <1>24, <1>25

(* The tick acts on LEDs in a blinking mode only. *)
LEMMA SteadyShownStep ==
  ASSUME Inv, Next
  PROVE  SteadyShown'
<1> USE DEF Inv, Types, LifeType, QueueType, SetType, ThreadType,
            ShownType, SteadyShown, Blink0, Dev0, Cnt, LPc, SPc, Modes, Leds,
            OFF, ON, SLOW, FAST, Unknown, SIdle, LNone, life, queue, shown
<1>1. CASE UNCHANGED shown
  BY <1>1
<1>2. CASE HyNetWiredCreate
  BY <1>2 DEF HyNetWiredCreate, Fresh
<1>3. CASE DestroyJoin
  BY <1>3 DEF DestroyJoin, Fresh
<1>4. CASE LedTick
  <2>1. \A i \in Leds : blink'[i].mode = blink[i].mode
    BY <1>4 DEF LedTick
  <2>2. \A i \in Leds : Blinks(i) => blink[i].mode \in {SLOW, FAST}
    BY DEF Blinks, judge_condition
  <2>3. \A i \in Leds : ~Blinks(i) => dev'[i] = dev[i]
    BY <1>4 DEF LedTick
  <2> QED BY <2>1, <2>2, <2>3
<1>5. CASE LedApply
  BY <1>5 DEF LedApply
<1> QED BY Frames, <1>1, <1>2, <1>3, <1>4, <1>5

-----------------------------------------------------------------------------
(* The invariant holds throughout, and what follows from it.               *)

(* Nothing is allocated, running or shown at the start. *)
LEMMA InvInit == Init => Inv
<1> SUFFICES ASSUME Init PROVE Inv
  OBVIOUS
<1> USE DEF Init
<1>1. Types
  <2>1. LifeType
    BY DEF LifeType
  <2>q. QueueType
    <3>1. <<>> \in Seq(Cmds)
      OBVIOUS
    <3> QED BY <3>1, CntZero DEF QueueType
  <2>2. ShownType
    BY DEF ShownType, Blink0, Dev0, Modes, OFF, ON, SLOW, FAST, CntCap
  <2>3. SetType /\ ThreadType
    BY SIdleType, LNoneType DEF SetType, ThreadType
  <2>4. DestroyType
    BY DEF DestroyType, DPc, DIdle
  <2> QED BY <2>1, <2>q, <2>2, <2>3, <2>4 DEF Types
<1>2. Lifetime
  BY DEF Lifetime, DIdle
<1>3. Room
  BY NetWiredAssumption DEF Room, SIdle, LNone
<1>4. Exact /\ FirstRecord
  BY DEF Exact, FirstRecord, Uncounted, Taken, SIdle, LNone
<1>5. ToldModes
  BY DEF ToldModes, LNone
<1>6. OnlyModesSet /\ SteadyShown
  BY DEF OnlyModesSet, SteadyShown, Blink0, Dev0, Leds, OFF, ON
<1> QED BY <1>1, <1>2, <1>3, <1>4, <1>5, <1>6 DEF Inv

(* Every step of the client and of the LED thread preserves it. *)
LEMMA InvStep ==
  ASSUME Inv, [Next]_vars
  PROVE  Inv'
<1>1. CASE Next
  <2>1. Types'
    BY <1>1, LifeTypeStep, QueueTypeStep, ShownTypeStep, SetTypeStep,
       DestroyTypeStep, ThreadTypeStep DEF Types
  <2> QED BY <1>1, <2>1, LifetimeStep, RoomStep, ExactStep, FirstRecordStep,
             ToldModesStep, OnlyModesSetStep, SteadyShownStep DEF Inv
<1>2. CASE UNCHANGED vars
  BY <1>2 DEF vars, life, queue, shown, Inv, Types, LifeType, QueueType,
              ShownType, SetType, DestroyType, ThreadType, Lifetime, Room,
              Exact, Uncounted, Taken, Put, FirstRecord, ToldModes,
              OnlyModesSet, SteadyShown
<1> QED BY <1>1, <1>2

(* The invariant holds throughout. *)
LEMMA InvAlways == Spec => []Inv
<1>1. Inv /\ [Next]_vars => Inv'
  BY InvStep
<1> QED BY InvInit, <1>1, PTL DEF Spec

(***************************************************************************)
(* The LED thread never runs without its context; in a build with an       *)
(* indivisible update, use_cnt is the length of the fifo but for the calls *)
(* in progress, and the get of the LED loop finds a record.                *)
(***************************************************************************)
THEOREM LedSoundAlways == Spec => []LedSound
<1>1. ASSUME Inv PROVE LedSound
  <2> USE <1>1 DEF Inv
  <2>1. TypeOK
    <3>1. QueueType /\ LifeType /\ ShownType
      BY DEF Types
    <3>2. s.pc \in SPc /\ d.pc \in DPc
      BY DEF Types, SetType, DestroyType
    <3>3. l.n \in {0, 1} /\ l.led \in Leds
      BY DEF Types, ThreadType
    <3> QED BY <3>1, <3>2, <3>3
            DEF TypeOK, QueueType, LifeType, ShownType, SPc, DPc, Cnt, Room
  <2>2. ContextOutlivesThread
    BY DEF ContextOutlivesThread, Alive, Lifetime, LNone
  <2>3. CntTracksFifo
    BY DEF CntTracksFifo, Exact, Uncounted, Taken
  <2>4. NoPhantomGet
    BY DEF NoPhantomGet, Exact
  <2> QED BY <2>1, <2>2, <2>3, <2>4 DEF LedSound
<1> QED BY InvAlways, <1>1, PTL

(***************************************************************************)
(* A LED in the mode ON shows it, and one in OFF does too unless nothing   *)
(* was ever written to it: no blinking has the last word.                  *)
(***************************************************************************)
THEOREM SteadyShownAlways == Spec => []SteadyShown
<1>1. Inv => SteadyShown
  BY DEF Inv
<1> QED BY InvAlways, <1>1, PTL

(***************************************************************************)
(* LED 0 is run in OFF or in a mode that HyNetWiredSetLed set for it since *)
(* the context was made, in every build; LED 1 too where the update is     *)
(* indivisible, and elsewhere in ON or in a mode set for LED 0 besides.    *)
(***************************************************************************)
THEOREM OnlyModesSetAlways == Spec => []OnlyModesSet
<1>1. Inv => OnlyModesSet
  BY DEF Inv
<1> QED BY InvAlways, <1>1, PTL

-----------------------------------------------------------------------------
(* The LED thread implements Thread.                                       *)

(* The functions of the refinement mapping have the one handle "led". *)
LEMMA OneHandle ==
  ASSUME NEW x, NEW y
  PROVE  /\ [t \in {"led"} |-> x]["led"] = x
         /\ [[t \in {"led"} |-> x] EXCEPT !["led"] = y] = [t \in {"led"} |-> y]
  OBVIOUS

(* Nothing is allocated at the start of Thread either. *)
LEMMA ThreadInit == Init => T!Init
<1> SUFFICES ASSUME Init PROVE T!Init
  OBVIOUS
<1>1. /\ LedThr = "none" /\ LedDestroy = "no" /\ context = FALSE
      /\ d.thread_exit = FALSE /\ d.cancel = FALSE /\ l.ret = 0
  BY DEF Init, LedThr, LedDestroy, Lost, DIdle, LNone
<1> QED BY <1>1 DEF T!Init

(***************************************************************************)
(* Every step is one of Thread or leaves its variables alone: the exit     *)
(* flag of the context and the steps of the LED loop are within the        *)
(* callback, and the loop returns -1 or is cancelled.                      *)
(***************************************************************************)
LEMMA ThreadStep ==
  ASSUME Inv, [Next]_vars
  PROVE  [T!Next]_(T!vars)
<1> USE DEF Inv, Types, Lifetime, LedThr, LedDestroy, Lost
<1>s. ASSUME LedThr' = LedThr, LedDestroy' = LedDestroy, context' = context,
             d'.thread_exit = d.thread_exit, d'.cancel = d.cancel,
             l'.ret = l.ret
      PROVE  UNCHANGED T!vars
  BY <1>s DEF T!vars
<1>n. ASSUME T!HyThreadCreate("led") \/ T!_thread_loop_cb("led")
               \/ T!HyThreadDestroy("led")
      PROVE  T!Next
  BY <1>n DEF T!Next
<1>1. CASE HyNetWiredCreate
  <2>1. T!HyThreadCreate("led")
    BY <1>1 DEF HyNetWiredCreate, T!HyThreadCreate, LNone
  <2> QED BY <1>n, <2>1
<1>2. CASE HyNetWiredCreateFails
  BY <1>2, <1>s DEF life, queue, shown, HyNetWiredCreateFails, vars
<1>3. CASE HyNetWiredCreateNoContext
  BY <1>3, <1>s DEF life, queue, shown, HyNetWiredCreateNoContext
<1>4. CASE HyNetWiredSetLed
  BY <1>4, <1>s DEF life, queue, shown, HyNetWiredSetLed, SetLed, SetLedIn,
                    SetLedAdd,
              SetLedLoad, SetLedStore
<1>5. CASE DestroyExit
  BY <1>5, <1>s DEF life, queue, shown, DestroyExit
<1>6. CASE DestroyFlag
  <2>1. /\ context' = context /\ context = TRUE
        /\ LedThr' = LedThr
        /\ LedDestroy = "no" /\ LedDestroy' = "cancel"
        /\ d'.thread_exit = TRUE /\ d'.cancel = d.cancel /\ l'.ret = l.ret
    BY <1>6 DEF life, queue, shown, DestroyFlag, DestroyType, DPc
  <2>2. T!HyThreadDestroy("led")
    <3> HIDE DEF LedThr, LedDestroy, Lost, Inv, Types, Lifetime
    <3> QED BY <2>1 DEF T!HyThreadDestroy, T!DestroyFlag
  <2> QED BY <1>n, <2>2
<1>7. CASE DestroyCancel
  <2>1. CASE l.pc = "none"
    <3>1. T!DestroyNoThread("led")
      BY <1>7, <2>1 DEF life, queue, shown, DestroyCancel, T!DestroyNoThread
    <3> QED BY <1>n, <3>1 DEF T!HyThreadDestroy
  <2>2. CASE l.pc # "none"
    <3>1. /\ context' = context
          /\ LedThr' = LedThr /\ LedThr \notin {"none", "crashed"}
          /\ LedDestroy = "cancel" /\ LedDestroy' = "join"
          /\ d'.thread_exit = d.thread_exit /\ d'.cancel = TRUE
          /\ l'.ret = l.ret
      BY <1>7, <2>2 DEF life, queue, shown, DestroyCancel, DestroyType, DPc
    <3>2. T!HyThreadDestroy("led")
      <4> HIDE DEF LedThr, LedDestroy, Lost, Inv, Types, Lifetime
      <4> QED BY <3>1 DEF T!HyThreadDestroy, T!DestroyCancel
    <3> QED BY <1>n, <3>2
  <2> QED BY <2>1, <2>2
<1>8. CASE DestroyJoin
  <2>1. T!HyThreadDestroy("led")
    BY <1>8 DEF DestroyJoin, DIdle, LNone, T!HyThreadDestroy, T!DestroyJoin
  <2> QED BY <1>n, <2>1
<1>9. CASE ThreadStart
  <2>1. T!_thread_loop_cb("led")
    BY <1>9 DEF life, queue, shown, ThreadStart, T!_thread_loop_cb,
                T!ThreadStart
  <2> QED BY <1>n, <2>1
<1>10. CASE ThreadLoop
  <2>1. /\ context' = context
        /\ LedThr = "loop"
        /\ LedThr' = IF ~d.thread_exit /\ l.ret = 0 THEN "call" ELSE "ended"
        /\ LedDestroy' = LedDestroy
        /\ d' = d /\ l'.ret = l.ret
    BY <1>10 DEF life, queue, shown, ThreadLoop, ThreadType
  <2>2. T!_thread_loop_cb("led")
    <3> HIDE DEF LedThr, LedDestroy, Lost, Inv, Types, Lifetime
    <3> QED BY <2>1 DEF T!_thread_loop_cb, T!ThreadLoop
  <2> QED BY <1>n, <2>2
<1>11. CASE ThreadCancelled
  <2>1. /\ context' = context /\ d.cancel
        /\ LedThr \in {"start", "callback"} /\ LedThr' = "ended"
        /\ LedDestroy' = LedDestroy
        /\ d' = d /\ l'.ret = l.ret
    BY <1>11 DEF life, queue, shown, ThreadCancelled, ThreadType
  <2>2. T!_thread_loop_cb("led")
    <3> HIDE DEF LedThr, LedDestroy, Lost, Inv, Types, Lifetime
    <3> QED BY <2>1 DEF T!_thread_loop_cb, T!ThreadCancelled
  <2> QED BY <1>n, <2>2
<1>12. CASE LedOuter
  <2>1. CASE exit
    <3>1. /\ context' = context
          /\ LedThr = "callback" /\ LedThr' = "loop"
          /\ LedDestroy' = LedDestroy
          /\ d' = d /\ l'.ret = -1
      BY <1>12, <2>1 DEF life, queue, shown, LedOuter, ThreadType
    <3>2. T!_thread_loop_cb("led")
      <4> HIDE DEF LedThr, LedDestroy, Lost, Inv, Types, Lifetime
      <4> QED BY <3>1 DEF T!_thread_loop_cb, T!CallbackReturns
    <3> QED BY <1>n, <3>2
  <2>2. CASE ~exit
    BY <1>12, <2>2, <1>s DEF life, queue, shown, LedOuter, ThreadType
  <2> QED BY <2>1, <2>2
<1>13. CASE LedInfo
  BY <1>13, <1>s DEF life, queue, shown, LedInfo, ThreadType
<1>14. CASE LedTick
  BY <1>14, <1>s DEF life, queue, shown, LedTick, ThreadType
<1>15. CASE LedGet
  BY <1>15, <1>s DEF life, queue, shown, LedGet, ThreadType
<1>16. CASE LedOut
  BY <1>16, <1>s DEF life, queue, shown, LedOut, ThreadType
<1>17. CASE LedSub
  BY <1>17, <1>s DEF life, queue, shown, LedSub, ThreadType
<1>18. CASE LedLoad
  BY <1>18, <1>s DEF life, queue, shown, LedLoad, ThreadType
<1>19. CASE LedStore
  BY <1>19, <1>s DEF life, queue, shown, LedStore, ThreadType
<1>20. CASE LedApply
  BY <1>20, <1>s DEF life, queue, shown, LedApply, ThreadType
<1>22. CASE LedCall
  <2>1. /\ context' = context
        /\ LedThr = "call" /\ LedThr' = "callback"
        /\ LedDestroy' = LedDestroy
        /\ d' = d /\ l'.ret = l.ret
    BY <1>22 DEF life, queue, shown, LedCall, ThreadType
  <2>2. T!_thread_loop_cb("led")
    <3> HIDE DEF LedThr, LedDestroy, Lost, Inv, Types, Lifetime
    <3> QED BY <2>1 DEF T!_thread_loop_cb, T!CallbackBegins
  <2> QED BY <1>n, <2>2
<1>21. CASE UNCHANGED vars
  BY <1>21, <1>s DEF life, queue, shown, vars
<1> QED BY <1>1, <1>2, <1>3, <1>4, <1>5, <1>6, <1>7, <1>8, <1>9,
           <1>10, <1>11, <1>12, <1>13, <1>14, <1>15, <1>16, <1>17, <1>18,
           <1>19, <1>20, <1>21, <1>22
        DEF Next, Client, LedThread, HyNetWiredDestroy

(***************************************************************************)
(* The LED thread of hy_net_wired.c is a thread of hy_thread.c: seen       *)
(* through the mapping, every behaviour of NetWired is one of Thread.      *)
(***************************************************************************)
THEOREM NetWiredImplementsThread == Spec => ThreadSpec
<1>1. Inv /\ [Next]_vars => [T!Next]_(T!vars)
  BY ThreadStep
<1> QED BY InvAlways, ThreadInit, <1>1, PTL DEF Spec, ThreadSpec, T!Spec

-----------------------------------------------------------------------------
(* Thread, for every set of handles.  Its inductive invariant adds to the  *)
(* types what orders the three parts of HyThreadDestroy.                   *)

(* The flag comes before the cancellation and the join. *)
FlagFirst == \A t \in Handles : destroy[t] # "no" => exit_flag[t]

(* The invariant: a running thread has its context, and is told to stop first. *)
HandlesInv == Th!TypeOK /\ Th!ContextOutlivesThread /\ FlagFirst

(* No handle, no thread and no destroy at the start. *)
LEMMA HandlesInit == Th!Init => HandlesInv
  BY DEF Th!Init, HandlesInv, Th!TypeOK, Th!ThrPc, Th!ContextOutlivesThread,
         Th!Running, FlagFirst

(* Every step of a thread or of a client preserves the invariant. *)
LEMMA HandlesStep ==
  ASSUME HandlesInv, [Th!Next]_(Th!vars)
  PROVE  HandlesInv'
<1> USE DEF HandlesInv, Th!TypeOK, Th!ThrPc, Th!ContextOutlivesThread,
            Th!Running, FlagFirst
<1>1. ASSUME NEW t \in Handles, Th!HyThreadCreate(t) PROVE HandlesInv'
  <2>1. PICK pc \in {"start", "none"} : thr' = [thr EXCEPT ![t] = pc]
    BY <1>1 DEF Th!HyThreadCreate
  <2>2. /\ handle' = [handle EXCEPT ![t] = TRUE]
        /\ UNCHANGED <<exit_flag, cancel, ret, destroy>>
    BY <1>1 DEF Th!HyThreadCreate
  <2> QED BY <2>1, <2>2
<1>2. ASSUME NEW t \in Handles, Th!_thread_loop_cb(t) PROVE HandlesInv'
  <2>1. CASE Th!ThreadStart(t)
    BY <2>1 DEF Th!ThreadStart
  <2>2. CASE Th!ThreadLoop(t)
    BY <2>2 DEF Th!ThreadLoop
  <2>3. CASE Th!CallbackReturns(t)
    <3>1. PICK r \in {0, -1} : ret' = [ret EXCEPT ![t] = r]
      BY <2>3 DEF Th!CallbackReturns
    <3> QED BY <2>3, <3>1 DEF Th!CallbackReturns
  <2>4. CASE Th!ThreadCancelled(t)
    BY <2>4 DEF Th!ThreadCancelled
  <2>5. CASE Th!CallbackBegins(t)
    BY <2>5 DEF Th!CallbackBegins
  <2> QED BY <1>2, <2>1, <2>2, <2>3, <2>4, <2>5 DEF Th!_thread_loop_cb
<1>3. ASSUME NEW t \in Handles, Th!HyThreadDestroy(t) PROVE HandlesInv'
  <2>1. CASE Th!DestroyFlag(t)
    BY <2>1 DEF Th!DestroyFlag
  <2>2. CASE Th!DestroyCancel(t)
    BY <2>2 DEF Th!DestroyCancel
  <2>3. CASE Th!DestroyNoThread(t)
    BY <2>3 DEF Th!DestroyNoThread
  <2>4. CASE Th!DestroyJoin(t)
    BY <2>4 DEF Th!DestroyJoin
  <2> QED BY <1>3, <2>1, <2>2, <2>3, <2>4 DEF Th!HyThreadDestroy
<1>4. ASSUME UNCHANGED Th!vars PROVE HandlesInv'
  BY <1>4 DEF Th!vars
<1> QED BY <1>1, <1>2, <1>3, <1>4 DEF Th!Next

(* The invariant holds throughout. *)
LEMMA HandlesAlways == HandlesSpec => []HandlesInv
<1>1. HandlesInv /\ [Th!Next]_(Th!vars) => HandlesInv'
  BY HandlesStep
<1> QED BY HandlesInit, <1>1, PTL DEF HandlesSpec, Th!Spec

(***************************************************************************)
(* However the threads and the clients interleave, a running thread has    *)
(* its context: HyThreadDestroy frees it only after the join.              *)
(***************************************************************************)
THEOREM ThreadSoundAlways == HandlesSpec => []ThreadSound
<1>1. HandlesInv => ThreadSound
  BY DEF HandlesInv, ThreadSound, Th!ThreadSound
<1> QED BY HandlesAlways, <1>1, PTL
=============================================================================
