------------------------------ MODULE Threads ------------------------------
(***************************************************************************)
(* The life of green threads: runtime start and stop, create, yield, join, *)
(* cancel, return from the thread function, and the two entry points the   *)
(* synchronization primitives use, block and unblock (src/src/thread/      *)
(* thread.c, the trampoline of src/src/context/context.c, run_until of     *)
(* src/src/sched/scheduler.c).                                             *)
(*                                                                         *)
(* Block and Unblock are open here: any running thread may block, any call *)
(* may wake any set of blocked threads.  SyncRuntime closes them with the  *)
(* mutexes, semaphores and condition variables of the library and is shown *)
(* to implement this specification.                                        *)
(***************************************************************************)
EXTENDS Runtime

Allowed(c, call) == call \in (IF c = Main THEN MainCalls ELSE ThreadCalls)

\* Context c executes program code (it is not inside yield or join).
InUser(c) == cpu = c /\ frame[c].call = "none"

Calls(c, call) == InUser(c) /\ initialized /\ Allowed(c, call)

\* The fields of the all-zero g_state, with which the process starts and
\* shutdown ends.
NoThreads == [s \in Slots |-> "EMPTY"]
Zeros == [s \in Slots |-> 0]

Init ==
  /\ initialized = FALSE
  /\ next_tid = 0
  /\ current_tid = 0
  /\ last_rr_slot = 0
  /\ state = NoThreads
  /\ tid = Zeros
  /\ priority = Zeros
  /\ retval = Zeros
  /\ runnable_threads = 0
  /\ blocked_threads = 0
  /\ cpu = Main
  /\ sched_ctx = Dead
  /\ frame = [c \in Contexts |-> NoFrame]
  /\ status = "NONE"

----------------------------------------------------------------------------
(* gth_runtime_init and gth_runtime_shutdown.                              *)

\* Mutant: last_rr_slot starts one past the table.
RuntimeInitPastEnd(c) ==
  /\ InUser(c)
  /\ ~initialized
  /\ initialized' = TRUE
  /\ next_tid' = 1
  /\ current_tid' = 0
  /\ last_rr_slot' = MaxThreads
  /\ state' = NoThreads
  /\ tid' = Zeros
  /\ priority' = Zeros
  /\ retval' = Zeros
  /\ runnable_threads' = 0
  /\ blocked_threads' = 0
  /\ sched_ctx' = Dead
  /\ status' = "OK"
  /\ UNCHANGED <<cpu, frame>>

RuntimeInit(c) ==
  /\ InUser(c)
  /\ ~initialized
  /\ initialized' = TRUE
  /\ next_tid' = 1
  /\ current_tid' = 0
  /\ last_rr_slot' = MaxThreads - 1
  /\ state' = NoThreads
  /\ tid' = Zeros
  /\ priority' = Zeros
  /\ retval' = Zeros
  /\ runnable_threads' = 0
  /\ blocked_threads' = 0
  /\ sched_ctx' = Dead
  /\ status' = "OK"
  /\ UNCHANGED <<cpu, frame>>

\* A NULL or invalid configuration, or a runtime that runs already.
RuntimeInitRefused(c) ==
  /\ InUser(c)
  /\ \/ Return("EINVAL")
     \/ initialized /\ Return("ESTATE")

\* Every thread's stack is freed, finished or not; on a green thread that
\* includes the stack the call would return on.
RuntimeShutdown(c) ==
  /\ Calls(c, "shutdown")
  /\ initialized' = FALSE
  /\ next_tid' = 0
  /\ current_tid' = 0
  /\ last_rr_slot' = 0
  /\ state' = NoThreads
  /\ tid' = Zeros
  /\ priority' = Zeros
  /\ retval' = Zeros
  /\ runnable_threads' = 0
  /\ blocked_threads' = 0
  /\ sched_ctx' = Dead
  /\ frame' = [d \in Contexts |-> NoFrame]
  /\ cpu' = IF c = Main THEN Main ELSE Wild
  /\ status' = "OK"

\* Every other call on a runtime that is not initialized.
NotInitialized(c) == InUser(c) /\ ~initialized /\ Return("ESTATE")

----------------------------------------------------------------------------
(* gth_thread_create.                                                      *)

\* Mutant: the tid counter does not advance.
ThreadCreateSameTid(c, p) ==
  /\ Calls(c, "create")
  /\ \E s \in Slots :
       /\ AllocSlot(s)
       /\ state' = [state EXCEPT ![s] = "READY"]
       /\ tid' = [tid EXCEPT ![s] = next_tid]
       /\ priority' = [priority EXCEPT ![s] = p]
       /\ retval' = [retval EXCEPT ![s] = NULL]
  /\ runnable_threads' = runnable_threads + 1
  /\ status' = "OK"
  /\ UNCHANGED <<initialized, next_tid, last_rr_slot, blocked_threads, control>>

ThreadCreate(c, p) ==
  /\ Calls(c, "create")
  /\ next_tid <= MaxTid
  /\ \E s \in Slots :
       /\ AllocSlot(s)
       /\ state' = [state EXCEPT ![s] = "READY"]
       /\ tid' = [tid EXCEPT ![s] = next_tid]
       /\ priority' = [priority EXCEPT ![s] = p]
       /\ retval' = [retval EXCEPT ![s] = NULL]
  /\ next_tid' = next_tid + 1
  /\ runnable_threads' = runnable_threads + 1
  /\ status' = "OK"
  /\ UNCHANGED <<initialized, last_rr_slot, blocked_threads, control>>

\* The stack or the context cannot be allocated: the slot is zeroed again, the
\* tid is spent.
ThreadCreateFails(c) ==
  /\ Calls(c, "create")
  /\ next_tid <= MaxTid
  /\ EmptySlots # {}
  /\ next_tid' = next_tid + 1
  /\ status' \in {"EINVAL", "ENOMEM", "EINTERNAL"}
  /\ UNCHANGED <<initialized, last_rr_slot, table, counters, control>>

\* NULL arguments, or a full thread table.
ThreadCreateRefused(c) ==
  /\ Calls(c, "create")
  /\ \/ Return("EINVAL")
     \/ EmptySlots = {} /\ Return("ENOMEM")

----------------------------------------------------------------------------
(* gth_thread_yield, and the end of a thread function.                     *)

YieldFrame == [call |-> "yield", tid |-> 0, slot |-> 0,
               previous_tid |-> current_tid]

\* On the OS thread: one run of the scheduler.
MainYield(c) ==
  /\ Calls(c, "yield")
  /\ current_tid = 0
  /\ \/ Dispatch(c, YieldFrame)
     \/ NobodyPicked /\ Return("ENOTFOUND")

\* On a green thread: back to the scheduler, ready again.  The state is
\* overwritten whatever it was.
ThreadYield(c) ==
  /\ Calls(c, "yield")
  /\ current_tid # 0
  /\ \E s \in Slots :
       /\ FindThread(s, current_tid)
       /\ state' = [state EXCEPT ![s] = "READY"]
  /\ runnable_threads' = runnable_threads + 1
  /\ SwapToScheduler
  /\ UNCHANGED <<initialized, next_tid, last_rr_slot, tid, priority, retval,
                 blocked_threads>>

\* Mutant: the trampoline does not mark the thread DONE.
ThreadExitRunning(s) ==
  /\ InUser(s)
  /\ retval' = [retval EXCEPT ![s] = tid[s]]
  /\ SwapToScheduler
  /\ UNCHANGED <<initialized, next_tid, last_rr_slot, state, tid, priority, counters>>

\* gth_context_thread_trampoline after fn returned (a thread's result is
\* modelled by its own tid).
ThreadExit(s) ==
  /\ InUser(s)
  /\ \/ /\ state[s] # "CANCELED"
        /\ state' = [state EXCEPT ![s] = "DONE"]
        /\ retval' = [retval EXCEPT ![s] = tid[s]]
     \/ /\ state[s] = "CANCELED"
        /\ retval' = [retval EXCEPT ![s] = NULL]
        /\ UNCHANGED state
  /\ SwapToScheduler
  /\ UNCHANGED <<initialized, next_tid, last_rr_slot, tid, priority, counters>>

----------------------------------------------------------------------------
(* gth_thread_join.                                                        *)

\* gth_thread_release_slot and the return of join.  The stack of slot s is
\* unmapped, with any run_next activation that was waiting on it.
ReleaseSlot(c, s) ==
  /\ runnable_threads' = IF state[s] = "READY" THEN Lower(runnable_threads, 1)
                                               ELSE runnable_threads
  /\ blocked_threads' = IF state[s] = "BLOCKED" THEN Lower(blocked_threads, 1)
                                                ELSE blocked_threads
  /\ state' = [state EXCEPT ![s] = "EMPTY"]
  /\ tid' = [tid EXCEPT ![s] = 0]
  /\ priority' = [priority EXCEPT ![s] = 0]
  /\ retval' = [retval EXCEPT ![s] = NULL]
  /\ frame' = [frame EXCEPT ![c] = NoFrame, ![s] = NoFrame]
  /\ sched_ctx' = IF sched_ctx = s THEN Dead ELSE sched_ctx
  /\ status' = "OK"
  /\ UNCHANGED <<initialized, next_tid, last_rr_slot, cpu, current_tid>>

JoinFrame(t, s) == [call |-> "join", tid |-> t, slot |-> s,
                    previous_tid |-> current_tid]

\* Join returns st without having released a slot.
JoinReturn(c, st) ==
  /\ frame' = [frame EXCEPT ![c] = NoFrame]
  /\ status' = st
  /\ UNCHANGED <<initialized, next_tid, last_rr_slot, table, counters,
                 cpu, sched_ctx, current_tid>>

\* Mutant: with nothing ready, the loop goes round again.
RunUntilSpins(c, t, s) ==
  \/ Dispatch(c, JoinFrame(t, s))
  \/ /\ NobodyPicked
     /\ frame' = [frame EXCEPT ![c] = JoinFrame(t, s)]
     /\ status' = "NONE"
     /\ UNCHANGED <<initialized, next_tid, last_rr_slot, table, counters,
                    cpu, sched_ctx, current_tid>>

\* One turn of gth_scheduler_run_until for a target that is not terminal: run
\* another thread, or give up when none is ready.
RunUntil(c, t, s) ==
  \/ Dispatch(c, JoinFrame(t, s))
  \/ NobodyPicked /\ JoinReturn(c, "EBUSY")

ThreadJoinRefused(c, t) ==
  /\ Calls(c, "join")
  /\ \/ t = 0 /\ Return("EINVAL")
     \/ t # 0 /\ t = current_tid /\ Return("ESTATE")
     \/ t # 0 /\ t # current_tid /\ Found(t) = {} /\ Return("ENOTFOUND")

\* A green thread that joins a thread still alive runs the scheduler from its
\* own stack ("nested_join" tells the programs that do it apart).
ThreadJoin(c, t) ==
  /\ Calls(c, "join")
  /\ t # 0
  /\ t # current_tid
  /\ \E s \in Slots :
       /\ FindThread(s, t)
       /\ \/ state[s] \in Terminal /\ ReleaseSlot(c, s)
          \/ /\ state[s] \notin Terminal
             /\ c = Main \/ Allowed(c, "nested_join")
             /\ RunUntil(c, t, s)

\* The loop of gth_scheduler_run_until once run_next has returned.  It tests
\* the record it found before the loop, which may since be another thread's.
JoinLoop(c) ==
  /\ cpu = c
  /\ frame[c].call = "join"
  /\ LET f == frame[c] IN
       \/ state[f.slot] \notin Terminal /\ RunUntil(c, f.tid, f.slot)
       \/ /\ state[f.slot] \in Terminal
          /\ \/ \E s \in Slots : FindThread(s, f.tid) /\ ReleaseSlot(c, s)
             \/ Found(f.tid) = {} /\ JoinReturn(c, "ENOTFOUND")

----------------------------------------------------------------------------
(* gth_thread_cancel.                                                      *)

ThreadCancelRefused(c, t) ==
  /\ Calls(c, "cancel")
  /\ \/ t = 0 /\ Return("EINVAL")
     \/ t # 0 /\ Found(t) = {} /\ Return("ENOTFOUND")
     \/ /\ t # 0
        /\ \E s \in Slots : FindThread(s, t) /\ state[s] \in Terminal
        /\ Return("ESTATE")

\* Mutant: a terminal thread is canceled like any other.
ThreadCancelTwice(c, t) ==
  /\ Calls(c, IF t = current_tid THEN "cancel_self" ELSE "cancel")
  /\ t # 0
  /\ \E s \in Slots :
       /\ FindThread(s, t)
       /\ state' = [state EXCEPT ![s] = "CANCELED"]
       /\ retval' = [retval EXCEPT ![s] = NULL]
  /\ status' = "OK"
  /\ UNCHANGED <<initialized, next_tid, last_rr_slot, tid, priority, counters, control>>

\* Mutant: the unblock before the cancel is left out; READY threads only are
\* accounted for.
ThreadCancelBlocked(c, t) ==
  /\ Calls(c, IF t = current_tid THEN "cancel_self" ELSE "cancel")
  /\ t # 0
  /\ \E s \in Slots :
       /\ FindThread(s, t)
       /\ state[s] \notin Terminal
       /\ runnable_threads' = IF state[s] = "READY" THEN Lower(runnable_threads, 1)
                                                    ELSE runnable_threads
       /\ state' = [state EXCEPT ![s] = "CANCELED"]
       /\ retval' = [retval EXCEPT ![s] = NULL]
  /\ status' = "OK"
  /\ UNCHANGED <<initialized, next_tid, last_rr_slot, tid, priority,
                 blocked_threads, control>>

\* A blocked thread is made ready first (gth_thread_unblock_slot), then the
\* state goes to CANCELED with its accounting.  A thread may cancel itself
\* ("cancel_self") and runs on until its next scheduling point.
ThreadCancel(c, t) ==
  /\ Calls(c, IF t = current_tid THEN "cancel_self" ELSE "cancel")
  /\ t # 0
  /\ \E s \in Slots :
       /\ FindThread(s, t)
       /\ state[s] \notin Terminal
       /\ LET unblocked == IF state[s] = "BLOCKED" THEN 1 ELSE 0
              ready == state[s] \in {"READY", "BLOCKED"}
          IN  /\ blocked_threads' = Lower(blocked_threads, unblocked)
              /\ runnable_threads' =
                   IF ready THEN Lower(runnable_threads + unblocked, 1)
                            ELSE runnable_threads
       /\ state' = [state EXCEPT ![s] = "CANCELED"]
       /\ retval' = [retval EXCEPT ![s] = NULL]
  /\ status' = "OK"
  /\ UNCHANGED <<initialized, next_tid, last_rr_slot, tid, priority, control>>

----------------------------------------------------------------------------
(* gth_thread_block and gth_thread_unblock_slot, as one call of a          *)
(* synchronization primitive uses them.                                    *)

\* gth_thread_unblock_slot on every slot of W; a slot that is not BLOCKED is
\* left alone (the callers ignore the error).
Woken(W) == {s \in W : state[s] = "BLOCKED"}

Unblock(W) ==
  LET n == Cardinality(Woken(W)) IN
    /\ state' = [s \in Slots |-> IF s \in Woken(W) THEN "READY" ELSE state[s]]
    /\ blocked_threads' = Lower(blocked_threads, n)
    /\ runnable_threads' = runnable_threads + n
    /\ UNCHANGED <<initialized, next_tid, last_rr_slot, tid, priority, retval,
                   control>>

\* The running thread marks itself BLOCKED, wakes W (cond_wait releases a
\* mutex in between; its queue may even name the caller) and swaps out.
Block(W) ==
  \E self \in Slots :
    /\ FindThread(self, current_tid)
    /\ LET woken == Woken(W) \cup (W \cap {self})
           n == Cardinality(woken)
       IN  /\ state' = [s \in Slots |->
                          IF s \in woken THEN "READY"
                          ELSE IF s = self THEN "BLOCKED" ELSE state[s]]
           /\ blocked_threads' = Lower(blocked_threads + 1, n)
           /\ runnable_threads' = runnable_threads + n
    /\ SwapToScheduler
    /\ UNCHANGED <<initialized, next_tid, last_rr_slot, tid, priority, retval>>

\* (Before gth_runtime_init no slot is BLOCKED and nothing is woken.)
SyncWake(c, W) ==
  /\ InUser(c)
  /\ Allowed(c, "sync")
  /\ Unblock(W)
  /\ status' \in Statuses

SyncBlock(c, W) ==
  /\ InUser(c)
  /\ Allowed(c, "sync")
  /\ current_tid # 0
  /\ Block(W)

\* gth_cond_wait marks its caller BLOCKED, cannot release the mutex, and marks
\* it RUNNING again before it returns the error.
GiveUp(st) ==
  /\ \E self \in Slots : /\ FindThread(self, current_tid)
                         /\ state' = [state EXCEPT ![self] = "RUNNING"]
  /\ blocked_threads' = Lower(blocked_threads + 1, 1)
  /\ status' = st
  /\ UNCHANGED <<initialized, next_tid, last_rr_slot, tid, priority, retval,
                 runnable_threads, control>>

SyncGiveUp(c) ==
  /\ InUser(c)
  /\ Allowed(c, "sync")
  /\ current_tid # 0
  /\ GiveUp("ESTATE")

----------------------------------------------------------------------------
Tids == 0 .. MaxTid

ThreadStep(c) ==
  \/ RuntimeInit(c)
  \/ RuntimeInitRefused(c)
  \/ NotInitialized(c)
  \/ ThreadCreateFails(c)
  \/ ThreadCreateRefused(c)
  \/ MainYield(c)
  \/ ThreadYield(c)
  \/ JoinLoop(c)
  \/ \E p \in Priorities : ThreadCreate(c, p)
  \/ \E t \in Tids : \/ ThreadJoinRefused(c, t)
                     \/ ThreadJoin(c, t)
                     \/ ThreadCancelRefused(c, t)
                     \/ ThreadCancel(c, t)

SyncStep(c) ==
  \/ \E W \in SUBSET Slots : SyncWake(c, W) \/ SyncBlock(c, W)
  \/ SyncGiveUp(c)

Next ==
  \/ \E c \in Contexts : \/ ThreadStep(c)
                         \/ RuntimeShutdown(c)
                         \/ SyncStep(c)
  \/ \E s \in Slots : ThreadExit(s)

Spec == Init /\ [][Next]_runtimeVars

\* The programs the tests and examples write: a green thread joins only threads
\* that have finished, and only the OS thread shuts the runtime down.
FlatProgram == ThreadCalls \cap {"nested_join", "shutdown"} = {}

----------------------------------------------------------------------------
(* Properties.                                                             *)

\* The variables keep their types.
TypeOK == RuntimeTypeOK

\* What gth_runtime_snapshot_stats counts in the table for gth_runtime_get_stats.
SnapshotRunnable == Cardinality(ReadySlots)
SnapshotBlocked == Cardinality(BlockedSlots)

\* runnable_threads and blocked_threads, kept up to date by increments and
\* guarded decrements in five functions, are what counting the table gives.
CountersExact ==
  /\ runnable_threads = SnapshotRunnable
  /\ blocked_threads = SnapshotBlocked

\* Two threads in the table never share a tid, and no tid is from the future:
\* gth_runtime_find_thread finds the thread the caller means, across failed
\* creations and the reuse of slots.
TidsUnique ==
  /\ \A s, u \in Slots :
       state[s] # "EMPTY" /\ state[u] # "EMPTY" /\ tid[s] = tid[u] => s = u
  /\ \A s \in Slots : state[s] # "EMPTY" => tid[s] \in 1 .. next_tid - 1

\* current_tid names the context that executes, through every chain of
\* run_next activations that save and restore it; that thread is RUNNING, or
\* CANCELED if it canceled itself.
CpuIsCurrent ==
  /\ cpu = Main => current_tid = 0
  /\ cpu \in Slots => /\ tid[cpu] = current_tid
                      /\ current_tid # 0
                      /\ state[cpu] \in {"RUNNING", "CANCELED"}

\* The bookkeeping CpuIsCurrent rests on, for any nesting of run_next: the
\* activation in scheduler_ctx is in progress and belongs to another context
\* than the one that executes; each saved previous_tid is its context's own
\* tid; a context inside join is RUNNING (or was canceled meanwhile) and never
\* joins itself; nothing runs while the runtime is down.
OwnTid(c) == IF c = Main THEN 0 ELSE tid[c]

ContextsExact ==
  /\ CpuIsCurrent
  /\ cpu = Main => sched_ctx = Dead
  /\ sched_ctx # Dead => frame[sched_ctx].call # "none" /\ sched_ctx # cpu
  /\ \A c \in Contexts : frame[c].call # "none" => frame[c].previous_tid = OwnTid(c)
  /\ \A c \in Contexts : frame[c].call = "join" => frame[c].tid # OwnTid(c)
  /\ \A s \in Slots : frame[s].call # "none" => state[s] \in {"RUNNING", "CANCELED"}
  /\ initialized => next_tid > 0
  /\ ~initialized => cpu \notin Slots /\ \A s \in Slots : state[s] = "EMPTY"

\* A green thread in program code can always get back to a scheduler: a run_next
\* activation that has not returned waits in scheduler_ctx, so that the swap of
\* yield, block and exit lands in a live frame.
SchedulerAlive ==
  /\ cpu \in Slots /\ frame[cpu].call = "none" => sched_ctx # Dead
  /\ cpu # Wild

\* RUNNING means executing: no other thread is left in that state.
RunningIsOnCpu == \A s \in Slots : state[s] = "RUNNING" => cpu = s

\* A thread that is DONE or CANCELED stays so until join or shutdown frees its
\* slot: yield, block and sem_wait, which overwrite the state without looking,
\* never run on a terminal thread.
TerminalIsFinal ==
  [][\A s \in Slots : state[s] \in Terminal => state'[s] \in {state[s], "EMPTY"}]_runtimeVars

----------------------------------------------------------------------------
(* Inductive invariants.                                                   *)

\* For every program: contexts and tids.
ContextInv == TypeOK /\ TidsUnique /\ ContextsExact

\* For flat programs, one level of run_next: only the OS thread is ever inside
\* it, and whenever a green thread executes, that activation waits in
\* scheduler_ctx.
FlatInv ==
  /\ ContextInv
  /\ cpu # Wild
  /\ cpu \in Slots => sched_ctx = Main
  /\ \A s \in Slots : frame[s].call = "none"
  /\ RunningIsOnCpu
=============================================================================
