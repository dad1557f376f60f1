------------------------------ MODULE Services ------------------------------
(***************************************************************************)
(* A program like those of src/example: RUN_CREATE makes its log, its      *)
(* signal handling (src/src/hy_signal.c) and a module with a thread, and   *)
(* RUN_DESTROY takes them down (src/include/hy_module.h), while signals    *)
(* arrive at any time, in either thread.                                   *)
(***************************************************************************)
EXTENDS Log

CONSTANTS
  main, worker,    \* the threads
  user_num,        \* the signals of the config
  error_num,
  MaxSignals       \* bound: how many of them come

Sigs == user_num \union error_num
Threads == {main, worker}

ASSUME ServicesAssumption ==
  /\ Writers = Threads \union Sigs
  /\ main # worker /\ Threads \intersect Sigs = {}
  /\ user_num \intersect error_num = {}
  /\ MaxSignals \in Nat

VARIABLES
  m,        \* the main thread: the loop it is in, its index, and where
  context,  \* of hy_signal.c: "none", "up", or "freed" and not yet NULL
  disp,     \* the disposition of each signal
  stack,    \* the handlers that run on a thread, the innermost last
  hand,     \* where each handler is, "none" before its signal comes
  app       \* the worker: "none", "on", or told to "stop"

logVars == <<buf, wr>>
sigVars == <<context, disp, stack, hand>>
vars == <<m, app, status, logVars, sigVars>>

Init == /\ m = [loop |-> "create", i |-> 1, at |-> "top"]
        /\ context = "none"
        /\ disp = [s \in Sigs |-> "default"]
        /\ stack = [t \in Threads |-> <<>>]
        /\ hand = [s \in Sigs |-> "none"]
        /\ app = "none" /\ status = "up"
        /\ buf = NULL /\ wr = [w \in Writers |-> NULL]

(* A thread goes on when no handler runs on it and it is in no HyLogWrite. *)
Runs(t) == status = "up" /\ stack[t] = <<>> /\ wr[t] = NULL

Main(loop, at) == Runs(main) /\ m.loop = loop /\ m.at = at

LogsLine(w) == \E n \in MsgLens[w] : HyLogWrite(w, n)

GoTo(at) == m' = [m EXCEPT !.at = at]

(* Who is inside malloc or free, whose one lock it holds: the main thread, or
   a handler.  Whoever comes to either waits until nobody is. *)
Holds(w) == IF w = main THEN m.at \in {"malloc", "free", "app_free"}
            ELSE w \in Sigs /\ hand[w] \in {"malloc", "free"}

HeapFree == \A w \in Writers : ~Holds(w)

-----------------------------------------------------------------------------
(* RUN_CREATE.                                                             *)

module_create == <<"log", "signal", "app">>

Creates(name) == /\ Main("create", "top")
                 /\ m.i <= Len(module_create) /\ module_create[m.i] = name

Created == m' = [m EXCEPT !.i = @ + 1, !.at = "top"]

HyLogCreate == /\ Creates("log")
               /\ buf' = Zeroed
               /\ Created
               /\ UNCHANGED <<app, status, wr, sigVars>>

(* The message of HY_MALLOC_BREAK finds a context without a buffer. *)
HyLogCreateNoBuf == /\ Creates("log")
                    /\ status' = "crashed"
                    /\ UNCHANGED <<m, app, logVars, sigVars>>

(* Mutant of HySignalCreate: the context comes last. *)
HySignalCreateLate == /\ Creates("signal")
                      /\ GoTo("error_num")
                      /\ UNCHANGED <<app, status, logVars, sigVars>>

HySignalCreate == /\ Creates("signal")
                  /\ context' = "up"
                  /\ GoTo("error_num")
                  /\ UNCHANGED <<app, status, logVars, disp, stack, hand>>

_ADD_SIGNAL(sig, handler) ==
  disp' = [s \in Sigs |-> IF s \in sig THEN handler ELSE disp[s]]

AddErrorNum == /\ Main("create", "error_num")
               /\ _ADD_SIGNAL(error_num, "error")
               /\ GoTo("user_num")
               /\ UNCHANGED <<app, status, logVars, context, stack, hand>>

AddUserNum == /\ Main("create", "user_num")
              /\ _ADD_SIGNAL(user_num, "user")
              /\ LogsLine(main)
              /\ Created
              /\ UNCHANGED <<app, status, buf, context, stack, hand>>

(* The create of a module that starts a thread: inside malloc, and after. *)
AppMalloc == /\ Creates("app") /\ HeapFree
             /\ GoTo("malloc")
             /\ UNCHANGED <<app, status, logVars, sigVars>>

AppCreate == /\ Main("create", "malloc")
             /\ app' = "on"
             /\ Created
             /\ UNCHANGED <<status, logVars, sigVars>>

(* create returns NULL, which is logged. *)
CreateFails == /\ \/ Creates("log") \/ Creates("signal")
                  \/ Main("create", "malloc")
               /\ LogsLine(main)
               /\ m' = [loop |-> "rollback", i |-> m.i - 1, at |-> "top"]
               /\ UNCHANGED <<app, status, buf, sigVars>>

MainRuns == /\ Main("create", "top") /\ m.i = Len(module_create) + 1
            /\ LogsLine(main)
            /\ m' = [m EXCEPT !.loop = "run"]
            /\ UNCHANGED <<app, status, buf, sigVars>>

-----------------------------------------------------------------------------
(* The roll-back of RUN_CREATE, and RUN_DESTROY.                           *)

(* Mutant of module_destroy: in the order of module_create. *)
destroy_in_order == module_create

module_destroy == <<"app", "signal", "log">>

MainEnds == /\ Main("run", "top")
            /\ m' = [loop |-> "destroy", i |-> 1, at |-> "top"]
            /\ UNCHANGED <<app, status, logVars, sigVars>>

Destroys(name) ==
  \/ Main("rollback", "top") /\ m.i >= 1 /\ module_create[m.i] = name
  \/ /\ Main("destroy", "top")
     /\ m.i <= Len(module_destroy) /\ module_destroy[m.i] = name

(* Mutant of Destroyed: the roll-back does not count down. *)
DestroyedStays ==
  m' = [m EXCEPT !.i = IF m.loop = "rollback" THEN @ ELSE @ + 1, !.at = "top"]

Destroyed ==
  m' = [m EXCEPT !.i = IF m.loop = "rollback" THEN @ - 1 ELSE @ + 1, !.at = "top"]

(* One step, the free too: the worker is gone, and a handler that starts while the buffer is
   freed reads through its own NULL context before it gets to the log. *)
HyLogDestroy == /\ Destroys("log")
                /\ buf' = NULL
                /\ Destroyed
                /\ UNCHANGED <<app, status, wr, sigVars>>

(* HY_FREE_PP: inside free, behind it, then NULL; no handler is taken back. *)
HySignalDestroy == /\ Destroys("signal") /\ HeapFree
                   /\ context' = "freed"
                   /\ GoTo("free")
                   /\ UNCHANGED <<app, status, logVars, disp, stack, hand>>

SignalFreed == /\ Runs(main) /\ m.at = "free"
               /\ GoTo("freed")
               /\ UNCHANGED <<app, status, logVars, sigVars>>

SignalDestroyed == /\ Runs(main) /\ m.at = "freed"
                   /\ context' = "none"
                   /\ LogsLine(main)
                   /\ Destroyed
                   /\ UNCHANGED <<app, status, buf, disp, stack, hand>>

AppStop == /\ Destroys("app")
           /\ app' = "stop"
           /\ GoTo("join")
           /\ UNCHANGED <<status, logVars, sigVars>>

AppJoined == /\ Runs(main) /\ m.at = "join" /\ app = "none" /\ HeapFree
             /\ GoTo("app_free")
             /\ UNCHANGED <<app, status, logVars, sigVars>>

AppDestroy == /\ Runs(main) /\ m.at = "app_free"
              /\ Destroyed
              /\ UNCHANGED <<app, status, logVars, sigVars>>

MainReturns == /\ \/ Main("rollback", "top") /\ m.i = 0
                  \/ Main("destroy", "top") /\ m.i = Len(module_destroy) + 1
               /\ status' = "returned"
               /\ UNCHANGED <<m, app, logVars, sigVars>>

MainThread ==
  \/ HyLogCreate \/ HyLogCreateNoBuf \/ HySignalCreate \/ AddErrorNum
  \/ AddUserNum \/ AppMalloc \/ AppCreate \/ CreateFails \/ MainRuns \/ MainEnds
  \/ HyLogDestroy \/ HySignalDestroy \/ SignalFreed \/ SignalDestroyed
  \/ AppStop \/ AppJoined \/ AppDestroy \/ MainReturns

WorkerLogs == /\ Runs(worker) /\ app = "on"
              /\ LogsLine(worker)
              /\ UNCHANGED <<m, app, status, buf, sigVars>>

WorkerEnds == /\ Runs(worker) /\ app = "stop"
              /\ app' = "none"
              /\ UNCHANGED <<m, status, logVars, sigVars>>

-----------------------------------------------------------------------------
(* Signals.                                                                *)

Lives(t) == t = main \/ app # "none"

(* SA_RESETHAND: a signal has its handler once.  One without a handler ends
   the program, and is left out. *)
Deliver(s, t) ==
  /\ status = "up" /\ Lives(t) /\ disp[s] # "default"
  /\ Cardinality({x \in Sigs : hand[x] # "none"}) < MaxSignals
  /\ disp' = [disp EXCEPT ![s] = "default"]
  /\ hand' = [hand EXCEPT ![s] = disp[s]]
  /\ stack' = [stack EXCEPT ![t] = Append(@, s)]
  /\ UNCHANGED <<m, app, status, logVars, context>>

In(s, where) == /\ status = "up" /\ wr[s] = NULL /\ hand[s] = where
                /\ \E t \in Threads : stack[t] # <<>> /\ Last(stack[t]) = s

HandlerGoes(s, where) == hand' = [hand EXCEPT ![s] = where]

(* save_config points into the context; what was freed may still be there. *)
Readable == context # "none"

(* The callbacks are the program's; user_cb logs, error_cb does not. *)
_user_handler(s) == /\ In(s, "user") /\ Readable
                    /\ LogsLine(s)
                    /\ HandlerGoes(s, "return")
                    /\ UNCHANGED <<m, app, status, buf, context, disp, stack>>

_error_handler(s) == /\ In(s, "error") /\ Readable
                     /\ HandlerGoes(s, "report")
                     /\ UNCHANGED <<m, app, status, logVars, context, disp, stack>>

(* "crashed by signal". *)
ErrorReport(s) == /\ In(s, "report") /\ Readable
                  /\ LogsLine(s)
                  /\ HandlerGoes(s, "trace")
                  /\ UNCHANGED <<m, app, status, buf, context, disp, stack>>

(* backtrace_symbols calls malloc; what it returns, unless NULL, is printed
   and freed. *)
_dump_backtrace(s) ==
  /\ \/ In(s, "trace") /\ HeapFree /\ HandlerGoes(s, "malloc")
     \/ In(s, "malloc") /\ HandlerGoes(s, "print")
     \/ In(s, "malloc") /\ HandlerGoes(s, "traced")
     \/ In(s, "print") /\ HeapFree /\ HandlerGoes(s, "free")
     \/ In(s, "free") /\ HandlerGoes(s, "traced")
  /\ UNCHANGED <<m, app, status, logVars, context, disp, stack>>

(* SIGINT, SIGUSR1 and SIGUSR2. *)
ErrorExits(s) == /\ In(s, "traced")
                 /\ status' = "exited"
                 /\ UNCHANGED <<m, app, logVars, sigVars>>

(* Of the others, the memory maps are kept. *)
ErrorMaps(s) == /\ In(s, "traced") /\ Readable
                /\ HandlerGoes(s, "return")
                /\ UNCHANGED <<m, app, status, logVars, context, disp, stack>>

HandlerCrashes(s) == /\ \E where \in {"user", "error", "report", "traced"} : In(s, where)
                     /\ context # "up"
                     /\ status' = "crashed"
                     /\ UNCHANGED <<m, app, logVars, sigVars>>

HandlerReturns(s) ==
  /\ In(s, "return")
  /\ HandlerGoes(s, "done")
  /\ stack' = [t \in Threads |-> IF stack[t] # <<>> /\ Last(stack[t]) = s
                                 THEN Front(stack[t]) ELSE stack[t]]
  /\ UNCHANGED <<m, app, status, logVars, context, disp>>

Handler(s) == \/ _user_handler(s) \/ _error_handler(s) \/ ErrorReport(s)
              \/ _dump_backtrace(s) \/ ErrorExits(s) \/ ErrorMaps(s)
              \/ HandlerCrashes(s) \/ HandlerReturns(s)

(* A writer goes on in HyLogWrite unless a handler has interrupted it. *)
OnTop(w) == IF w \in Threads THEN stack[w] = <<>>
            ELSE \E t \in Threads : stack[t] # <<>> /\ Last(stack[t]) = w

Writes(w) == /\ status = "up" /\ OnTop(w)
             /\ LogStep(w)
             /\ UNCHANGED <<m, app, sigVars>>

Next == \/ MainThread \/ WorkerLogs \/ WorkerEnds
        \/ \E s \in Sigs : Handler(s) \/ \E t \in Threads : Deliver(s, t)
        \/ \E w \in Writers : Writes(w)

(* Threads and handlers are scheduled; signals need not come. *)
Fairness == /\ WF_vars(MainThread) /\ WF_vars(WorkerEnds)
            /\ \A s \in Sigs : WF_vars(Handler(s))
            /\ \A w \in Writers : WF_vars(Writes(w))

Spec == Init /\ [][Next]_vars /\ Fairness

-----------------------------------------------------------------------------
(* Properties.                                                             *)

(* How many modules of module_create stand between two creates or destroys,
   from the loop and the index alone. *)
Standing == CASE m.loop = "create"   -> m.i - 1
              [] m.loop = "run"      -> Len(module_create)
              [] m.loop = "rollback" -> m.i
              [] m.loop = "destroy"  -> Len(module_destroy) + 1 - m.i

Stands(name) == CASE name = "log"    -> buf # NULL
                  [] name = "signal" -> context # "none"
                  [] name = "app"    -> app # "none"

(* The log outlives everyone who writes to it, and the modules stand on one
   another: at any time there is the worker only with the signal handling and
   that only with the log, and between two calls exactly those stand which the
   loops have created and not yet destroyed, each once and the last one first,
   whichever create failed, so that all are gone when main returns. *)
ModulesSound ==
  /\ \A w \in Writers : wr[w] # NULL => buf # NULL
  /\ app # "none" => context = "up"
  /\ context # "none" => buf # NULL
  /\ m.at = "top" => \A i \in 1..Len(module_create) :
                       Stands(module_create[i]) <=> i <= Standing
  /\ status = "returned" => Standing = 0

(* A handler finds its context at any time between the first sigaction of
   HySignalCreate and HySignalDestroy; after that it reads through NULL.  The
   program crashes for no other reason, a log without a buffer excepted. *)
HandlersSafe ==
  status = "crashed" =>
    IF m.loop \in {"rollback", "destroy"} THEN context # "up"
    ELSE buf = NULL /\ \A s \in Sigs : hand[s] = "none"

(* An error handler has come to its malloc, and what it interrupted, its
   thread or a handler below it, is inside malloc or free. *)
HeapDeadlock ==
  \E t \in Threads : \E i \in DOMAIN stack[t] :
    /\ hand[stack[t][i]] = "trace"
    /\ Holds(t) \/ \E j \in 1..(i - 1) : Holds(stack[t][j])

(* Creating, rolling back and destroying come to an end, also when handlers
   interrupt them and one another; but for an error signal that comes inside
   malloc or free, and then they never do: only the end of the program, by
   another handler, gets a thread out of that. *)
Ends ==
  /\ m.loop # "run" ~> m.loop = "run" \/ status # "up" \/ HeapDeadlock
  /\ [][HeapDeadlock => HeapDeadlock' \/ status' # "up"]_vars
=============================================================================
