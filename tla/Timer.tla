------------------------------- MODULE Timer --------------------------------
(***************************************************************************)
(* src/src/hy_timer.c: a wheel of slot_num lists of timers, a thread that  *)
(* visits one slot per tick, and a client thread that adds and deletes     *)
(* timers.  Timer callbacks run in the timer thread and may call the       *)
(* module too.                                                             *)
(*                                                                         *)
(* A timer is the address of its _timer_t; malloc may give a freed address *)
(* out again.  A list is the sequence of its entries, and list_del and     *)
(* list_add_tail are each one step.                                        *)
(*                                                                         *)
(* mutex is held by the timer thread during callbacks and by HyTimerDel    *)
(* around its free.                                                        *)
(***************************************************************************)
EXTENDS Integers, Sequences, SequencesExt

CONSTANTS
  Addrs,     \* what malloc can return for a _timer_t
  slot_num,  \* context->save_config.slot_num
  Expires,   \* timer_config->expires of the calls of HyTimerAdd
  Racing     \* the client calls at any time, not only while the timer
             \* thread is in select

HEAD == "head"   \* the list head, where a traversal ends

ASSUME TimerAssumption ==
  /\ HEAD \notin Addrs
  /\ slot_num \in Nat \ {0}
  /\ Expires \subseteq Nat
  /\ Racing \in BOOLEAN

VARIABLES
  context,    \* context is allocated
  exit_flag,  \* context->exit_flag
  cur_slot,   \* context->cur_slot
  list_head,  \* context->list_head: the timers of each slot
  timer,      \* what is at each address
  thr,        \* the timer thread and its cursors pos and n
  client,     \* where the client is in HyTimerDel and HyTimerDestroy
  held        \* the handles the client has

vars == <<context, exit_flag, cur_slot, list_head, timer, thr, client, held>>

-----------------------------------------------------------------------------

Slots == 0..(slot_num - 1)

(* A _timer_t, with the ticks since it was armed and whether by HyTimerAdd. *)
Armed(e, r, first) ==
  [live |-> TRUE, expires |-> e, repeat |-> r, rotation |-> e \div slot_num,
   age |-> 0, first |-> first]

Freed == [Armed(0, FALSE, FALSE) EXCEPT !.live = FALSE]

Live == {a \in Addrs : timer[a].live}

InWheel == UNION {ToSet(list_head[i]) : i \in Slots}

(* list_next_entry *)
NextEntry(q, a) ==
  IF \E k \in 1..(Len(q) - 1) : q[k] = a
  THEN q[1 + CHOOSE k \in 1..(Len(q) - 1) : q[k] = a] ELSE HEAD

FirstEntry(q) == IF q = <<>> THEN HEAD ELSE q[1]

NoThread  == [pc |-> "none", pos |-> HEAD, n |-> HEAD]
NoCall    == [pc |-> "idle", addr |-> HEAD]
EmptyList == [i \in Slots |-> <<>>]

Init == /\ context = FALSE
        /\ exit_flag = FALSE
        /\ cur_slot = 0
        /\ list_head = EmptyList
        /\ timer = [a \in Addrs |-> Freed]
        /\ thr = NoThread
        /\ client = NoCall
        /\ held = {}

-----------------------------------------------------------------------------
(* HyTimerCreate.                                                          *)

(* The result of pthread_create is not looked at. *)
HyTimerCreate ==
  /\ ~context /\ client.pc = "idle"
  /\ context' = TRUE
  /\ \E pc \in {"top", "none"} : thr' = [NoThread EXCEPT !.pc = pc]
  /\ UNCHANGED <<exit_flag, cur_slot, list_head, timer, client, held>>

(***************************************************************************)
(* An allocation fails: HyTimerDestroy stores through a NULL context, or   *)
(* joins a thread that was never created.                                  *)
(***************************************************************************)
HyTimerCreateFails ==
  /\ ~context /\ client.pc = "idle"
  /\ client' = [client EXCEPT !.pc = "crashed"]
  /\ UNCHANGED <<context, exit_flag, cur_slot, list_head, timer, thr, held>>

-----------------------------------------------------------------------------
(* HyTimerAdd, which takes no lock, and HyTimerDel.                        *)

ClientMay == context /\ client.pc = "idle" /\ (Racing \/ thr.pc = "sleep")

(* The slot does not depend on cur_slot. *)
HyTimerAdd(a, e, r) ==
  /\ a \notin Live
  /\ timer' = [timer EXCEPT ![a] = Armed(e, r, TRUE)]
  /\ list_head' = [list_head EXCEPT ![e % slot_num] = Append(@, a)]
  /\ held' = held \union {a}
  /\ UNCHANGED <<context, exit_flag, cur_slot, thr, client>>

AnyAdd == \E a \in Addrs, e \in Expires, r \in BOOLEAN : HyTimerAdd(a, e, r)

ClientAdd == ClientMay /\ AnyAdd

CallbackAdd == thr.pc = "callback" /\ AnyAdd

(* list_del: an entry is on one list, once. *)
Without(a) == [i \in Slots |-> RemoveFirst(list_head[i], a)]

(* The search and list_del; with no such entry the call ends here. *)
HyTimerDel(a) ==
  /\ ClientMay
  /\ a \in InWheel
  /\ list_head' = Without(a)
  /\ client' = [pc |-> "free", addr |-> a]
  /\ held' = held \ {a}
  /\ UNCHANGED <<context, exit_flag, cur_slot, timer, thr>>

(* The free, inside the mutex. *)
HyTimerDelFree ==
  /\ client.pc = "free" /\ thr.pc \notin {"callback", "stuck"}
  /\ timer' = [timer EXCEPT ![client.addr] = Freed]
  /\ client' = NoCall
  /\ UNCHANGED <<context, exit_flag, cur_slot, list_head, thr, held>>

(* The mutex is held by the thread that calls, and not recursive. *)
CallbackDel(a) ==
  /\ thr.pc = "callback"
  /\ a \in InWheel
  /\ list_head' = Without(a)
  /\ thr' = [thr EXCEPT !.pc = "stuck", !.pos = a]
  /\ UNCHANGED <<context, exit_flag, cur_slot, timer, client, held>>

-----------------------------------------------------------------------------
(* _timer_loop_cb                                                          *)

(* Mutant of ThreadTop: the exit flag is not looked at. *)
ThreadTopForever ==
  /\ thr.pc = "top"
  /\ thr' = [thr EXCEPT !.pc = "sleep"]
  /\ UNCHANGED <<context, exit_flag, cur_slot, list_head, timer, client, held>>

ThreadTop ==
  /\ thr.pc = "top"
  /\ thr' = [thr EXCEPT !.pc = IF exit_flag THEN "ended" ELSE "sleep"]
  /\ UNCHANGED <<context, exit_flag, cur_slot, list_head, timer, client, held>>

(* Bound: an age past every one that FiresOnTime tells apart stays there. *)
AgeCap(t) == t.expires + slot_num + 1

Older(t) == [t EXCEPT !.age = IF @ < AgeCap(t) THEN @ + 1 ELSE @]

(* select ends, and list_for_each_entry_safe begins. *)
Tick ==
  LET q == list_head[cur_slot]
  IN  /\ thr.pc = "sleep"
      /\ Racing \/ client.pc # "free"
      /\ timer' = [a \in Addrs |-> IF a \in Live THEN Older(timer[a])
                                               ELSE timer[a]]
      /\ thr' = [pc |-> "visit", pos |-> FirstEntry(q),
                 n |-> NextEntry(q, FirstEntry(q))]
      /\ UNCHANGED <<context, exit_flag, cur_slot, list_head, client, held>>

(* Mutant of Advance: list_for_each_entry, which goes on from that entry. *)
AdvanceFromPos ==
  LET q == list_head'[cur_slot]
      m == IF thr.pos \in ToSet(q) THEN NextEntry(q, thr.pos) ELSE thr.pos
  IN  [pc |-> "visit", pos |-> m, n |-> NextEntry(q, m)]

(* On to the cached entry; the next one is read from the list as it is now. *)
Advance == [pc |-> "visit", pos |-> thr.n,
            n |-> NextEntry(list_head'[cur_slot], thr.n)]

(* Mutant of Pass: the rotation is not counted down. *)
PassKeepsRotation ==
  /\ thr.pc = "visit" /\ thr.pos # HEAD /\ timer[thr.pos].rotation > 0
  /\ UNCHANGED <<context, exit_flag, cur_slot, list_head, timer, client, held>>
  /\ thr' = Advance

Pass ==
  /\ thr.pc = "visit" /\ thr.pos # HEAD /\ timer[thr.pos].rotation > 0
  /\ timer' = [timer EXCEPT ![thr.pos].rotation = @ - 1]
  /\ UNCHANGED <<context, exit_flag, cur_slot, list_head, client, held>>
  /\ thr' = Advance

Fire ==
  /\ thr.pc = "visit" /\ thr.pos # HEAD /\ timer[thr.pos].rotation = 0
  /\ thr' = [thr EXCEPT !.pc = "callback"]
  /\ UNCHANGED <<context, exit_flag, cur_slot, list_head, timer, client, held>>

CallbackReturns ==
  /\ thr.pc = "callback"
  /\ thr' = [thr EXCEPT !.pc = "after"]
  /\ UNCHANGED <<context, exit_flag, cur_slot, list_head, timer, client, held>>

(* Mutant of NextSlot: the slot does not depend on cur_slot. *)
NextSlotAbsolute(e) == e % slot_num

NextSlot(e) == ((e % slot_num) + cur_slot) % slot_num

(* Out of this slot and to the tail of the next one, which may be the same. *)
Rearm ==
  LET a == thr.pos
      e == timer[a].expires
  IN  /\ thr.pc = "after" /\ timer[a].repeat
      /\ list_head' = [Without(a) EXCEPT ![NextSlot(e)] = Append(@, a)]
      /\ timer' = [timer EXCEPT ![a] = Armed(e, TRUE, FALSE)]
      /\ thr' = Advance
      /\ UNCHANGED <<context, exit_flag, cur_slot, client, held>>

Release ==
  /\ thr.pc = "after" /\ ~timer[thr.pos].repeat
  /\ list_head' = Without(thr.pos)
  /\ timer' = [timer EXCEPT ![thr.pos] = Freed]
  /\ thr' = Advance
  /\ UNCHANGED <<context, exit_flag, cur_slot, client, held>>

EndTick ==
  /\ thr.pc = "visit" /\ thr.pos = HEAD
  /\ cur_slot' = (cur_slot + 1) % slot_num
  /\ thr' = [NoThread EXCEPT !.pc = "top"]
  /\ UNCHANGED <<context, exit_flag, list_head, timer, client, held>>

_timer_loop_cb == \/ ThreadTop \/ Tick \/ Pass \/ Fire
                  \/ CallbackReturns \/ Rearm \/ Release \/ EndTick

-----------------------------------------------------------------------------
(* HyTimerDestroy                                                          *)

DestroyExit ==
  /\ context /\ client.pc = "idle"
  /\ exit_flag' = TRUE
  /\ client' = [client EXCEPT !.pc = IF thr.pc = "none"
                                     THEN "crashed" ELSE "join"]
  /\ UNCHANGED <<context, cur_slot, list_head, timer, thr, held>>

(* After the join, the timers in the wheel and the context are freed. *)
DestroyJoin ==
  /\ client.pc = "join" /\ thr.pc = "ended"
  /\ timer' = [a \in Addrs |-> IF a \in InWheel THEN Freed ELSE timer[a]]
  /\ context' = FALSE
  /\ exit_flag' = FALSE
  /\ cur_slot' = 0
  /\ list_head' = EmptyList
  /\ thr' = NoThread
  /\ client' = NoCall
  /\ held' = {}

-----------------------------------------------------------------------------

Next == \/ HyTimerCreate \/ HyTimerCreateFails
        \/ ClientAdd \/ CallbackAdd
        \/ \E a \in held : HyTimerDel(a) \/ CallbackDel(a)
        \/ HyTimerDelFree
        \/ _timer_loop_cb
        \/ DestroyExit \/ DestroyJoin

Spec == Init /\ [][Next]_vars

(***************************************************************************)
(* Both threads are scheduled, and callbacks return.  The select ends      *)
(* however often the client calls meanwhile: a tick that Racing = FALSE    *)
(* holds back until a call is over is not held back for ever.              *)
(***************************************************************************)
FairSpec == Spec /\ WF_vars(_timer_loop_cb) /\ SF_vars(Tick)
                 /\ WF_vars(HyTimerDelFree) /\ WF_vars(DestroyJoin)

-----------------------------------------------------------------------------

ThrPc == {"none", "top", "sleep", "visit", "callback", "after", "stuck",
          "ended"}

(* Cursors, slots and counters stay in range. *)
TypeOK ==
  /\ context \in BOOLEAN /\ exit_flag \in BOOLEAN
  /\ cur_slot \in Slots
  /\ list_head \in [Slots -> Seq(Addrs)]
  /\ \A a \in Live : timer[a].rotation \in 0..(timer[a].expires \div slot_num)
  /\ thr.pc \in ThrPc
  /\ {thr.pos, thr.n} \subseteq Addrs \union {HEAD}
  /\ client.pc \in {"idle", "free", "join", "crashed"}
  /\ held \subseteq Addrs

(***************************************************************************)
(* A timer is in the wheel exactly once from HyTimerAdd to its free, but   *)
(* for the one inside HyTimerDel: none is leaked and none is freed twice.  *)
(***************************************************************************)
InDel == (IF client.pc = "free" THEN {client.addr} ELSE {})
           \union (IF thr.pc = "stuck" THEN {thr.pos} ELSE {})

InWheelOnce ==
  /\ Live = InWheel \union InDel
  /\ InWheel \intersect InDel = {}
  /\ \A i \in Slots, j \in Slots :
       \A k \in DOMAIN list_head[i], m \in DOMAIN list_head[j] :
         list_head[i][k] = list_head[j][m] => i = j /\ k = m

Traversing == thr.pc \in {"visit", "callback", "after"}

(***************************************************************************)
(* The entry the traversal is at and the one it has cached are still in    *)
(* the slot, through everything callbacks add to it and the re-arming of   *)
(* timers to the slot's own tail.                                          *)
(***************************************************************************)
TraversalInSlot ==
  Traversing =>
    {thr.pos, thr.n} \subseteq ToSet(list_head[cur_slot]) \union {HEAD}

(* The wheel between any two steps of the thread, its callbacks and clients. *)
WheelSound == TypeOK /\ InWheelOnce /\ TraversalInSlot

(***************************************************************************)
(* When a timer fires: after `expires' ticks since it was re-armed, or, if *)
(* that is a multiple of the wheel, possibly one revolution later; and the *)
(* first time, since HyTimerAdd does not look at cur_slot, anywhere within *)
(* one revolution of its rotation count.  What the header says of it is    *)
(* FiresAfterExpires, which does not hold.                                 *)
(***************************************************************************)
Fires(a) == thr.pc = "visit" /\ thr'.pc = "callback" /\ thr.pos = a

FiresOnTime ==
  [][\A a \in Addrs : Fires(a) =>
       LET t    == timer[a]
           turn == slot_num * (t.expires \div slot_num)
       IN  IF t.first
           THEN turn <= t.age /\ t.age <= turn + slot_num
           ELSE \/ t.age = t.expires
                \/ t.expires = turn /\ t.age = turn + slot_num]_vars

(***************************************************************************)
(* "Time-out in ms = expires * slot_interval_ms" (include/hy_timer.h:44):  *)
(* a timer fires `expires' ticks after it was armed, give or take the one  *)
(* tick that was under way.                                                *)
(***************************************************************************)
FiresAfterExpires ==
  [][\A a \in Addrs : Fires(a) =>
       timer[a].age \in (timer[a].expires - 1)..(timer[a].expires + 1)]_vars

(***************************************************************************)
(* Every tick ends.  The properties below assume it, for the code does not *)
(* ensure it: two one-shot timers whose callbacks add them again to the    *)
(* slot that is being visited keep the thread in one traversal for ever.   *)
(***************************************************************************)
TicksEnd == []<>(~Traversing)

Waiting(a) == /\ context /\ ~exit_flag /\ a \in Live
              /\ thr.pc \notin {"none", "stuck"}

(***************************************************************************)
(* As long as ticks end, every timer fires, and fires again, until it is   *)
(* released or deleted, whatever is added and deleted meanwhile.           *)
(***************************************************************************)
EveryTimerFires ==
  TicksEnd =>
    \A a \in Addrs :
      Waiting(a) ~> ~Waiting(a) \/ (thr.pc = "callback" /\ thr.pos = a)

(***************************************************************************)
(* As long as ticks end and no callback calls HyTimerDel, HyTimerDestroy   *)
(* comes back, with every timer freed.                                     *)
(***************************************************************************)
DestroyReturns ==
  TicksEnd =>
    (client.pc = "join" ~> (~context /\ Live = {}) \/ thr.pc = "stuck")

(***************************************************************************)
(* example/hy_timer_test.c:51 deletes a timer from another thread while    *)
(* the service runs, which include/hy_timer.h:92 puts no condition on: the *)
(* timer thread only goes on with timers that are allocated.               *)
(***************************************************************************)
TraversalOnLive == Traversing => {thr.pos, thr.n} \subseteq Live \union {HEAD}
=============================================================================
