--------------------------- MODULE ThreadHandles ---------------------------
(***************************************************************************)
(* Thread for the handles a process has, as NetWiredProofs reasons about   *)
(* it; NetWired makes another instance, with its LED thread only.          *)
(***************************************************************************)
EXTENDS Integers

CONSTANT Handles

VARIABLES handle, thr, exit_flag, cancel, ret, destroy

Th == INSTANCE Thread WITH Threads <- Handles

HandlesSpec == Th!Spec

-----------------------------------------------------------------------------

(* No running thread outlives its context: HyThreadDestroy joins first. *)
ThreadSound == Th!ThreadSound
=============================================================================
