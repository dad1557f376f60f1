------------------------------- MODULE Thread -------------------------------
(***************************************************************************)
(* src/src/hy_thread.c: a thread that calls a callback until the callback  *)
(* returns non-zero or the handle is destroyed.  Each element of Threads   *)
(* is one handle and the POSIX thread behind it.                           *)
(***************************************************************************)
EXTENDS Integers

CONSTANT Threads

VARIABLES
  handle,     \* the _thread_context_t is allocated
  thr,        \* where the thread is: see ThrPc
  exit_flag,  \* context->exit_flag
  cancel,     \* a cancellation request is pending
  ret,        \* what the last callback returned
  destroy     \* where the client is in HyThreadDestroy

vars == <<handle, thr, exit_flag, cancel, ret, destroy>>

(***************************************************************************)
(* "none": pthread_create has not made a thread; "start": the usleep and   *)
(* the naming; "loop": about to test the loop condition; "call": the test  *)
(* has let it go on, whatever the flag becomes before the call;            *)
(* "callback": in the callback; "crashed": the process used the pthread_t  *)
(* of a thread that never was.                                             *)
(***************************************************************************)
ThrPc == {"none", "start", "loop", "call", "callback", "ended", "crashed"}

Running(t) == thr[t] \in {"start", "loop", "call", "callback"}

Init == /\ handle = [t \in Threads |-> FALSE]
        /\ thr = [t \in Threads |-> "none"]
        /\ exit_flag = [t \in Threads |-> FALSE]
        /\ cancel = [t \in Threads |-> FALSE]
        /\ ret = [t \in Threads |-> 0]
        /\ destroy = [t \in Threads |-> "no"]

(***************************************************************************)
(* The result of pthread_create is not looked at: without a thread the     *)
(* handle is returned all the same.                                        *)
(***************************************************************************)
HyThreadCreate(t) ==
  /\ ~handle[t] /\ destroy[t] = "no"
  /\ handle' = [handle EXCEPT ![t] = TRUE]
  /\ \E pc \in {"start", "none"} : thr' = [thr EXCEPT ![t] = pc]
  /\ UNCHANGED <<exit_flag, cancel, ret, destroy>>

-----------------------------------------------------------------------------
(* _thread_loop_cb                                                         *)

ThreadStart(t) ==
  /\ thr[t] = "start"
  /\ thr' = [thr EXCEPT ![t] = "loop"]
  /\ UNCHANGED <<handle, exit_flag, cancel, ret, destroy>>

ThreadLoop(t) ==
  /\ thr[t] = "loop"
  /\ thr' = [thr EXCEPT ![t] = IF ~exit_flag[t] /\ ret[t] = 0
                               THEN "call" ELSE "ended"]
  /\ UNCHANGED <<handle, exit_flag, cancel, ret, destroy>>

CallbackBegins(t) ==
  /\ thr[t] = "call"
  /\ thr' = [thr EXCEPT ![t] = "callback"]
  /\ UNCHANGED <<handle, exit_flag, cancel, ret, destroy>>

CallbackReturns(t) ==
  /\ thr[t] = "callback"
  /\ \E r \in {0, -1} : ret' = [ret EXCEPT ![t] = r]
  /\ thr' = [thr EXCEPT ![t] = "loop"]
  /\ UNCHANGED <<handle, exit_flag, cancel, destroy>>

(* A pending cancellation takes effect in usleep, or inside the callback. *)
ThreadCancelled(t) ==
  /\ cancel[t]
  /\ thr[t] \in {"start", "callback"}
  /\ thr' = [thr EXCEPT ![t] = "ended"]
  /\ UNCHANGED <<handle, exit_flag, cancel, ret, destroy>>

_thread_loop_cb(t) ==
  \/ ThreadStart(t) \/ ThreadLoop(t) \/ CallbackBegins(t) \/ CallbackReturns(t)
  \/ ThreadCancelled(t)

-----------------------------------------------------------------------------
(* HyThreadDestroy: the flag, the cancellation, the join.                  *)

DestroyFlag(t) ==
  /\ handle[t] /\ destroy[t] = "no"
  /\ exit_flag' = [exit_flag EXCEPT ![t] = TRUE]
  /\ destroy' = [destroy EXCEPT ![t] = "cancel"]
  /\ UNCHANGED <<handle, thr, cancel, ret>>

DestroyCancel(t) ==
  /\ destroy[t] = "cancel" /\ thr[t] \notin {"none", "crashed"}
  /\ cancel' = [cancel EXCEPT ![t] = TRUE]
  /\ destroy' = [destroy EXCEPT ![t] = "join"]
  /\ UNCHANGED <<handle, thr, exit_flag, ret>>

(* pthread_cancel on a pthread_t that was never written. *)
DestroyNoThread(t) ==
  /\ destroy[t] = "cancel" /\ thr[t] = "none"
  /\ thr' = [thr EXCEPT ![t] = "crashed"]
  /\ UNCHANGED <<handle, exit_flag, cancel, ret, destroy>>

DestroyJoin(t) ==
  /\ destroy[t] = "join" /\ thr[t] = "ended"
  /\ handle' = [handle EXCEPT ![t] = FALSE]
  /\ thr' = [thr EXCEPT ![t] = "none"]
  /\ exit_flag' = [exit_flag EXCEPT ![t] = FALSE]
  /\ cancel' = [cancel EXCEPT ![t] = FALSE]
  /\ ret' = [ret EXCEPT ![t] = 0]
  /\ destroy' = [destroy EXCEPT ![t] = "no"]

HyThreadDestroy(t) ==
  DestroyFlag(t) \/ DestroyCancel(t) \/ DestroyNoThread(t) \/ DestroyJoin(t)

-----------------------------------------------------------------------------

Next == \E t \in Threads :
          HyThreadCreate(t) \/ _thread_loop_cb(t) \/ HyThreadDestroy(t)

Spec == Init /\ [][Next]_vars

-----------------------------------------------------------------------------

(* Control state of the thread and of the client. *)
TypeOK ==
  /\ handle \in [Threads -> BOOLEAN]
  /\ thr \in [Threads -> ThrPc]
  /\ exit_flag \in [Threads -> BOOLEAN]
  /\ cancel \in [Threads -> BOOLEAN]
  /\ ret \in [Threads -> {0, -1}]
  /\ destroy \in [Threads -> {"no", "cancel", "join"}]

(***************************************************************************)
(* A running thread never outlives its context: HyThreadDestroy frees it   *)
(* only when the thread has ended, however destroy, the loop test and the  *)
(* cancellation interleave.                                                *)
(***************************************************************************)
ContextOutlivesThread ==
  \A t \in Threads : Running(t) => handle[t]

(* A thread and its handle, at every step of their calls. *)
ThreadSound == TypeOK /\ ContextOutlivesThread
=============================================================================
