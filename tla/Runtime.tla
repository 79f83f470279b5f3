------------------------------ MODULE Runtime ------------------------------
(***************************************************************************)
(* The global runtime state of gthreads: the thread table, its counters,   *)
(* and the one saved scheduler context (src/src/internal/runtime_state.h,  *)
(* src/src/runtime/runtime.c), with the scheduler's choice and its context *)
(* switch (src/src/sched/scheduler.c).  The module has the state and the   *)
(* building blocks; Threads adds the operations.                           *)
(*                                                                         *)
(* Everything runs on one OS thread.  cpu is the context that executes: the*)
(* OS thread's own (Main, tid 0) or the green thread of a slot.  Only      *)
(* gth_ctx_swap moves it, so the code between two swaps is one step.       *)
(*                                                                         *)
(* Tracing, replay and fuzzing are off here (mode NORMAL, state->trace is  *)
(* NULL, so that every gth_trace_* hook returns at once).  The policy "ANY"*)
(* stands for what REPLAY and FUZZ make of the choice: any READY thread, or*)
(* none at all; Rerun has those modes and is shown to implement it.        *)
(***************************************************************************)
EXTENDS Integers, FiniteSets

CONSTANTS
  MaxThreads,   \* GTH_MAX_THREADS, the slots of the thread table
  MaxTid,       \* bound: the tids one runtime may hand out
  Priorities,   \* the priorities the program gives its threads
  Policy,       \* config.policy, or "ANY" for a choice left open
  MainCalls,    \* the API calls the program makes from the OS thread
  ThreadCalls   \* the API calls the program makes from green threads

ASSUME RuntimeAssumption ==
  /\ MaxThreads \in Nat \ {0}
  /\ MaxTid \in Nat
  /\ Priorities \subseteq Nat
  /\ Policy \in {"RR", "PRIORITY", "ANY"}

Slots == 0 .. MaxThreads - 1

\* Contexts.  Main is the OS thread; Dead marks a scheduler_ctx whose
\* gth_scheduler_run_next activation has returned (or whose stack is gone);
\* Wild is the program after a swap to such a context: undefined behaviour.
Main == -1
Dead == -2
Wild == -3
Contexts == Slots \cup {Main}

NULL == 0
ThreadStates == {"EMPTY", "READY", "RUNNING", "BLOCKED", "DONE", "CANCELED"}
Terminal == {"DONE", "CANCELED"}

\* What a step returned to its caller; NONE when the call is still suspended.
Statuses == {"NONE", "OK", "EINVAL", "ENOMEM", "ENOTFOUND", "EBUSY", "ESTATE",
             "EINTERNAL"}

VARIABLES
  initialized, next_tid, current_tid, last_rr_slot,
  runnable_threads, blocked_threads,
  state, tid, priority, retval,  \* threads[slot].*, one function per field
  cpu,          \* the context that executes
  sched_ctx,    \* whose run_next activation scheduler_ctx resumes, or Dead
  frame,        \* per context: its gth_scheduler_run_next in progress
  status        \* the result of the last step

table == <<state, tid, priority, retval>>
counters == <<runnable_threads, blocked_threads>>
control == <<cpu, sched_ctx, frame, current_tid>>
runtimeVars == <<initialized, next_tid, last_rr_slot, table, counters,
                 control, status>>

\* The locals of the function that called gth_scheduler_run_next and waits in
\* it: gth_thread_yield on the OS thread, or gth_thread_join with its target.
NoFrame == [call |-> "none", tid |-> 0, slot |-> 0, previous_tid |-> 0]
Frames == [call : {"none", "yield", "join"}, tid : Nat, slot : Slots,
           previous_tid : Nat]

Found(t) == {s \in Slots : state[s] # "EMPTY" /\ tid[s] = t}
ReadySlots == {s \in Slots : state[s] = "READY"}
BlockedSlots == {s \in Slots : state[s] = "BLOCKED"}
EmptySlots == {s \in Slots : state[s] = "EMPTY"}

\* gth_runtime_find_thread: the lowest slot in use with that tid.
FindThread(s, t) == s \in Found(t) /\ \A u \in Found(t) : s <= u

\* gth_runtime_alloc_thread_slot: the lowest free slot.
AllocSlot(s) == s \in EmptySlots /\ \A u \in EmptySlots : s <= u

\* A counter lowered n times, each time guarded by "if (counter > 0)".
Lower(counter, n) == IF counter > n THEN counter - n ELSE 0

----------------------------------------------------------------------------
(* The scheduler's choice.                                                 *)

\* Mutant: the scan starts at the last slot itself.
DistanceFromLast(last, s) == IF s >= last THEN s - last ELSE s - last + MaxThreads

\* The number of slots from the one after `last` up to s, going round.
Distance(last, s) == IF s > last THEN s - last ELSE s - last + MaxThreads

PickRR(s) ==
  /\ s \in ReadySlots
  /\ \A u \in ReadySlots :
        Distance(last_rr_slot, s) <= Distance(last_rr_slot, u)

PickPriority(s) ==
  /\ s \in ReadySlots
  /\ \A u \in ReadySlots : \/ priority[s] > priority[u]
                           \/ priority[s] = priority[u] /\ tid[s] <= tid[u]

\* Mutant: round robin forgets where it was.
PickReadyForgets(s) ==
  /\ \/ Policy = "RR" /\ PickRR(s)
     \/ Policy = "PRIORITY" /\ PickPriority(s)
  /\ UNCHANGED last_rr_slot

\* gth_scheduler_pick_ready_thread; only round robin moves last_rr_slot.
PickReady(s) ==
  \/ Policy = "RR" /\ PickRR(s) /\ last_rr_slot' = s
  \/ Policy = "PRIORITY" /\ PickPriority(s) /\ UNCHANGED last_rr_slot
  \/ Policy = "ANY" /\ s \in ReadySlots /\ last_rr_slot' \in Slots

NobodyPicked == ReadySlots = {} \/ Policy = "ANY"

\* Mutant: the swap does not save the caller in scheduler_ctx.
DispatchToUnsaved(c, f, s) ==
  /\ state' = [state EXCEPT ![s] = "RUNNING"]
  /\ current_tid' = tid[s]
  /\ runnable_threads' = Lower(runnable_threads, 1)
  /\ cpu' = s
  /\ frame' = [frame EXCEPT ![c] = f]
  /\ status' = "NONE"
  /\ UNCHANGED <<initialized, next_tid, tid, priority, retval,
                 blocked_threads, sched_ctx>>

\* gth_scheduler_run_next from the choice of slot s up to its swap: context c
\* saves itself in the single scheduler_ctx, whatever that held, and s runs.
DispatchTo(c, f, s) ==
  /\ state' = [state EXCEPT ![s] = "RUNNING"]
  /\ current_tid' = tid[s]
  /\ runnable_threads' = Lower(runnable_threads, 1)
  /\ sched_ctx' = c
  /\ cpu' = s
  /\ frame' = [frame EXCEPT ![c] = f]
  /\ status' = "NONE"
  /\ UNCHANGED <<initialized, next_tid, tid, priority, retval,
                 blocked_threads>>

Dispatch(c, f) == \E s \in Slots : PickReady(s) /\ DispatchTo(c, f, s)

\* Mutant: run_next sets current_tid to 0 instead of restoring it.
SwapToSchedulerForgets ==
  \/ /\ sched_ctx = Dead
     /\ cpu' = Wild
     /\ status' = "NONE"
     /\ UNCHANGED <<sched_ctx, frame, current_tid>>
  \/ /\ sched_ctx # Dead
     /\ cpu' = sched_ctx
     /\ sched_ctx' = Dead
     /\ current_tid' = 0
     /\ frame' = IF frame[sched_ctx].call = "yield"
                 THEN [frame EXCEPT ![sched_ctx] = NoFrame] ELSE frame
     /\ status' = IF frame[sched_ctx].call = "yield" THEN "OK" ELSE "NONE"

\* gth_ctx_swap to scheduler_ctx, and the end of the run_next it resumes: that
\* activation restores current_tid and returns, so scheduler_ctx is dead from
\* here on.  gth_thread_yield then returns; gth_thread_join goes on looping.
SwapToScheduler ==
  \/ /\ sched_ctx = Dead
     /\ cpu' = Wild
     /\ status' = "NONE"
     /\ UNCHANGED <<sched_ctx, frame, current_tid>>
  \/ /\ sched_ctx # Dead
     /\ cpu' = sched_ctx
     /\ sched_ctx' = Dead
     /\ current_tid' = frame[sched_ctx].previous_tid
     /\ \/ /\ frame[sched_ctx].call = "yield"
           /\ frame' = [frame EXCEPT ![sched_ctx] = NoFrame]
           /\ status' = "OK"
        \/ /\ frame[sched_ctx].call # "yield"
           /\ status' = "NONE"
           /\ UNCHANGED frame

\* A call that returns st and changes nothing.
Return(st) ==
  /\ status' = st
  /\ UNCHANGED <<initialized, next_tid, last_rr_slot, table, counters, control>>

----------------------------------------------------------------------------
RuntimeTypeOK ==
  /\ initialized \in BOOLEAN
  /\ next_tid \in Nat
  /\ current_tid \in Nat
  /\ last_rr_slot \in Slots
  /\ runnable_threads \in Nat
  /\ blocked_threads \in Nat
  /\ state \in [Slots -> ThreadStates]
  /\ tid \in [Slots -> Nat]
  /\ priority \in [Slots -> Nat]
  /\ retval \in [Slots -> Nat]
  /\ cpu \in Contexts \cup {Wild}
  /\ sched_ctx \in Contexts \cup {Dead}
  /\ frame \in [Contexts -> Frames]
  /\ status \in Statuses
=============================================================================
