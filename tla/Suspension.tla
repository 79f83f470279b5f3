----------------------------- MODULE Suspension -----------------------------
(***************************************************************************)
(* Where a context will go on when it runs next.  A thread that swaps out  *)
(* inside a synchronization call resumes in the middle of that call, with  *)
(* the locals on its stack; everywhere else it resumes in program code.    *)
(***************************************************************************)
EXTENDS Threads, WaitQueues

VARIABLE pc   \* per context: the call it is suspended in

NoObject == "none"
At(call, obj, m) == [at |-> call, obj |-> obj, mutex |-> m]
User == At("user", NoObject, NoObject)

\* Context c runs program code and calls a synchronization primitive.
SyncCall(c) == InUser(c) /\ pc[c] = User /\ Allowed(c, "sync")

\* Context c was resumed inside `call` on obj.
Resumed(c, call, obj) == InUser(c) /\ pc[c].at = call /\ pc[c].obj = obj

\* The call returns st to the program, having changed no thread.
Finish(c, st) == Return(st) /\ pc' = [pc EXCEPT ![c] = User]

\* gth_thread_current_slot_index finds the caller in the table: it is a green
\* thread, not the OS thread.
OnThread == current_tid # 0 /\ Found(current_tid) # {}

\* What a queue is after the caller has put its own slot at the end.
Queued(q) == LET self == CHOOSE s \in Slots : FindThread(s, current_tid)
             IN  WqEnqueue(q, self)
=============================================================================
