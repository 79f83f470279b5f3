--------------------------- MODULE ThreadsProofs ---------------------------
(***************************************************************************)
(* Theorems about Threads, for every number of slots, every priority set,  *)
(* every policy and every program (any MainCalls and ThreadCalls): types,  *)
(* tids, the saved contexts and the counters.                              *)
(*                                                                         *)
(* Then flat programs: where green threads neither join live threads nor   *)
(* shut the runtime down, the scheduler is never lost (the run             *)
(* bug_nested_join shows that the hypothesis is needed); and where no      *)
(* thread cancels itself either, a thread that is DONE or CANCELED stays so*)
(* until its slot is freed.                                                *)
(*                                                                         *)
(* Last, round robin: how often a READY thread can be passed over.         *)
(***************************************************************************)
EXTENDS RoundRobin, TLAPS, FiniteSetTheorems

\* The number of threads woken is a number: needed wherever it is added to a
\* counter.
LEMMA SlotSetsFinite ==
  \A W \in SUBSET Slots : IsFiniteSet(W) /\ Cardinality(W) \in Nat
<1>1. IsFiniteSet(Slots)
  BY FS_Interval, RuntimeAssumption DEF Slots
<1> QED
  BY <1>1, FS_Subset, FS_CardinalityType

\* Lowering a counter keeps it a natural number.
LEMMA LowerType ==
  \A k, n \in Nat : Lower(k, n) \in Nat
BY DEF Lower

\* Slots and the special contexts are integers, and distinct.
LEMMA ContextFacts ==
  /\ Slots \subseteq Nat
  /\ Slots # {}
  /\ 0 \in Slots
  /\ Main \notin Slots /\ Dead \notin Slots /\ Wild \notin Slots
  /\ Main # Dead /\ Main # Wild /\ Dead # Wild
  /\ Dead \notin Contexts /\ Wild \notin Contexts
  /\ Main \in Contexts
  /\ Slots \subseteq Contexts
<1>1. MaxThreads \in Nat \ {0}
  BY RuntimeAssumption
<1> QED
  BY <1>1 DEF Slots, Main, Dead, Wild, Contexts

\* The frames yield and join push are frames.
LEMMA FrameTypes ==
  /\ NoFrame \in Frames
  /\ \A t \in Nat : [call |-> "yield", tid |-> 0, slot |-> 0, previous_tid |-> t]
                      \in Frames
  /\ \A t, u \in Nat : \A s \in Slots :
       [call |-> "join", tid |-> t, slot |-> s, previous_tid |-> u] \in Frames
BY ContextFacts DEF NoFrame, Frames

\* The context switches keep the types.
\* Whichever policy or mode has chosen: a dispatch of a READY thread.
LEMMA PickedReady ==
  ASSUME TypeOK, NEW s \in Slots, PickReady(s)
  PROVE  state[s] = "READY" /\ last_rr_slot' \in Slots
BY DEF PickReady, PickRR, PickPriority, ReadySlots, TypeOK, RuntimeTypeOK

LEMMA DispatchToType ==
  ASSUME TypeOK, NEW c \in Contexts, NEW f \in Frames, NEW s \in Slots,
         last_rr_slot' \in Slots, DispatchTo(c, f, s)
  PROVE  TypeOK'
<1>1. runnable_threads' \in Nat
  BY LowerType DEF DispatchTo, TypeOK, RuntimeTypeOK
<1>2. state' \in [Slots -> ThreadStates] /\ frame' \in [Contexts -> Frames]
  BY DEF DispatchTo, TypeOK, RuntimeTypeOK, ThreadStates
<1>3. /\ cpu' \in Contexts \cup {Wild} /\ sched_ctx' \in Contexts \cup {Dead}
      /\ current_tid' \in Nat /\ status' \in Statuses
  BY DEF DispatchTo, TypeOK, RuntimeTypeOK, Contexts, Statuses
<1> QED
  BY <1>1, <1>2, <1>3 DEF DispatchTo, TypeOK, RuntimeTypeOK

LEMMA DispatchType ==
  ASSUME TypeOK, NEW c \in Contexts, NEW f \in Frames, Dispatch(c, f)
  PROVE  TypeOK'
BY PickedReady, DispatchToType, Zenon DEF Dispatch

LEMMA SwapType ==
  ASSUME TypeOK, SwapToScheduler
  PROVE  /\ cpu' \in Contexts \cup {Wild}
         /\ sched_ctx' \in Contexts \cup {Dead}
         /\ current_tid' \in Nat
         /\ frame' \in [Contexts -> Frames]
         /\ status' \in Statuses
<1>1. CASE sched_ctx = Dead
  BY <1>1 DEF SwapToScheduler, TypeOK, RuntimeTypeOK, Statuses
<1>2. CASE sched_ctx # Dead
  <2>1. sched_ctx \in Contexts /\ frame[sched_ctx] \in Frames
    BY <1>2 DEF TypeOK, RuntimeTypeOK
  <2>2. /\ cpu' \in Contexts \cup {Wild} /\ sched_ctx' \in Contexts \cup {Dead}
        /\ status' \in Statuses
    BY <1>2, <2>1 DEF SwapToScheduler, Statuses
  <2>3. current_tid' \in Nat
    BY <1>2, <2>1 DEF SwapToScheduler, Frames
  <2>4. frame' \in [Contexts -> Frames]
    BY <1>2, <2>1, FrameTypes DEF SwapToScheduler, TypeOK, RuntimeTypeOK
  <2> QED
    BY <2>2, <2>3, <2>4
<1> QED
  BY <1>1, <1>2

LEMMA ReleaseType ==
  ASSUME TypeOK, NEW c \in Contexts, NEW s \in Slots, ReleaseSlot(c, s)
  PROVE  TypeOK'
<1>1. runnable_threads' \in Nat /\ blocked_threads' \in Nat
  BY LowerType, Zenon DEF ReleaseSlot, TypeOK, RuntimeTypeOK
<1>2. frame' \in [Contexts -> Frames]
  BY FrameTypes, Zenon DEF ReleaseSlot, TypeOK, RuntimeTypeOK
<1>3. /\ state' \in [Slots -> ThreadStates] /\ tid' \in [Slots -> Nat]
      /\ priority' \in [Slots -> Nat] /\ retval' \in [Slots -> Nat]
  BY DEF ReleaseSlot, TypeOK, RuntimeTypeOK, ThreadStates, NULL
<1>4. sched_ctx' \in Contexts \cup {Dead} /\ status' \in Statuses
  BY DEF ReleaseSlot, TypeOK, RuntimeTypeOK, Statuses
<1> QED
  BY <1>1, <1>2, <1>3, <1>4 DEF ReleaseSlot, TypeOK, RuntimeTypeOK

LEMMA RunUntilType ==
  ASSUME TypeOK, NEW c \in Contexts, NEW t \in Nat, NEW s \in Slots,
         RunUntil(c, t, s)
  PROVE  TypeOK'
<1>1. CASE Dispatch(c, JoinFrame(t, s))
  <2>1. current_tid \in Nat
    BY DEF TypeOK, RuntimeTypeOK
  <2>2. JoinFrame(t, s) \in Frames
    BY <2>1, FrameTypes DEF JoinFrame
  <2> QED
    BY <1>1, <2>2, DispatchType
<1>2. CASE ~Dispatch(c, JoinFrame(t, s))
  BY <1>2, FrameTypes
  DEF RunUntil, JoinReturn, TypeOK, RuntimeTypeOK, Statuses, table, counters
<1> QED
  BY <1>1, <1>2

LEMMA ReturnType ==
  ASSUME TypeOK, NEW st \in Statuses, Return(st)
  PROVE  TypeOK'
BY DEF Return, TypeOK, RuntimeTypeOK, table, counters, control

\* The steps of the synchronization primitives keep the types.
LEMMA SyncType ==
  ASSUME TypeOK, NEW c \in Contexts, SyncStep(c)
  PROVE  TypeOK'
<1>1. ASSUME NEW W \in SUBSET Slots, SyncWake(c, W)
      PROVE  TypeOK'
  <2> DEFINE n == Cardinality(Woken(W))
  <2>1. n \in Nat
    BY SlotSetsFinite DEF Woken
  <2>2. /\ blocked_threads' = Lower(blocked_threads, n)
        /\ runnable_threads' = runnable_threads + n
    BY <1>1 DEF SyncWake, Unblock
  <2>3. runnable_threads' \in Nat /\ blocked_threads' \in Nat
    <3> HIDE DEF n
    <3> QED
      BY <2>1, <2>2, LowerType DEF TypeOK, RuntimeTypeOK
  <2>4. state' = [s \in Slots |-> IF s \in Woken(W) THEN "READY" ELSE state[s]]
    BY <1>1 DEF SyncWake, Unblock
  <2>5. state' \in [Slots -> ThreadStates]
    BY <2>4 DEF TypeOK, RuntimeTypeOK, ThreadStates
  <2> QED
    BY <1>1, <2>3, <2>5
    DEF SyncWake, Unblock, TypeOK, RuntimeTypeOK, control
<1>2. ASSUME NEW W \in SUBSET Slots, SyncBlock(c, W)
      PROVE  TypeOK'
  <2>1. \A self \in Slots : Cardinality(Woken(W) \cup (W \cap {self})) \in Nat
    BY SlotSetsFinite DEF Woken
  <2>2. PICK self \in Slots : Block(W)!(self)
    BY <1>2, Zenon DEF SyncBlock, Block
  <2> DEFINE n == Cardinality(Woken(W) \cup (W \cap {self}))
  <2>3. /\ blocked_threads' = Lower(blocked_threads + 1, n)
        /\ runnable_threads' = runnable_threads + n
    BY <2>2
  <2>4. n \in Nat
    BY <2>1
  <2>5. runnable_threads' \in Nat /\ blocked_threads' \in Nat
    <3> HIDE DEF n
    <3> QED
      BY <2>3, <2>4, LowerType DEF TypeOK, RuntimeTypeOK
  <2>6. state' \in [Slots -> ThreadStates]
    BY <2>2 DEF TypeOK, RuntimeTypeOK, ThreadStates
  <2> QED
    BY <2>2, <2>5, <2>6, SwapType DEF TypeOK, RuntimeTypeOK
<1>3. CASE SyncGiveUp(c)
  <2>1. blocked_threads' \in Nat
    BY <1>3, LowerType DEF SyncGiveUp, GiveUp, TypeOK, RuntimeTypeOK
  <2>2. state' \in [Slots -> ThreadStates]
    BY <1>3 DEF SyncGiveUp, GiveUp, TypeOK, RuntimeTypeOK, ThreadStates
  <2> QED
    BY <1>3, <2>1, <2>2
    DEF SyncGiveUp, GiveUp, TypeOK, RuntimeTypeOK, Statuses, control
<1> QED
  BY <1>1, <1>2, <1>3 DEF SyncStep

LEMMA InitType == Init => TypeOK
BY ContextFacts, FrameTypes, ZenonT(40)
DEF Init, TypeOK, RuntimeTypeOK, NoThreads, Zeros, ThreadStates, Statuses

LEMMA StepType ==
  ASSUME TypeOK, [Next]_runtimeVars
  PROVE  TypeOK'
<1> USE ContextFacts
<1>1. ASSUME NEW c \in Contexts, ThreadStep(c)
      PROVE  TypeOK'
  <2>1. CASE RuntimeInit(c)
    <3>1. MaxThreads - 1 \in Slots
      BY RuntimeAssumption DEF Slots
    <3> QED
      BY <2>1, <3>1
      DEF RuntimeInit, TypeOK, RuntimeTypeOK, NoThreads, Zeros, ThreadStates,
          Statuses
  <2>2. CASE RuntimeInitRefused(c) \/ NotInitialized(c) \/ ThreadCreateRefused(c)
    BY <2>2, ReturnType
    DEF RuntimeInitRefused, NotInitialized, ThreadCreateRefused, Statuses
  <2>3. CASE ThreadCreateFails(c)
    BY <2>3
    DEF ThreadCreateFails, TypeOK, RuntimeTypeOK, Statuses, table, counters,
        control
  <2>4. CASE MainYield(c)
    <3>1. CASE NobodyPicked /\ Return("ENOTFOUND")
      BY <3>1, ReturnType DEF Statuses
    <3>2. CASE Dispatch(c, YieldFrame)
      <4>1. YieldFrame \in Frames
        BY FrameTypes DEF YieldFrame, TypeOK, RuntimeTypeOK
      <4> QED
        BY <3>2, <4>1, DispatchType
    <3> QED
      BY <2>4, <3>1, <3>2 DEF MainYield
  <2>5. CASE ThreadYield(c)
    <3>1. state' \in [Slots -> ThreadStates] /\ runnable_threads' \in Nat
      BY <2>5 DEF ThreadYield, TypeOK, RuntimeTypeOK, ThreadStates
    <3>2. SwapToScheduler
      BY <2>5 DEF ThreadYield
    <3> QED
      BY <2>5, <3>1, <3>2, SwapType DEF ThreadYield, TypeOK, RuntimeTypeOK
  <2>6. CASE JoinLoop(c)
    <3>1. frame[c].slot \in Slots /\ frame[c].tid \in Nat
      BY DEF TypeOK, RuntimeTypeOK, Frames
    <3>2. CASE RunUntil(c, frame[c].tid, frame[c].slot)
      BY <3>1, <3>2, RunUntilType, Zenon
    <3>3. CASE \E s \in Slots : ReleaseSlot(c, s)
      BY <3>3, ReleaseType
    <3>4. CASE JoinReturn(c, "ENOTFOUND")
      BY <3>4, FrameTypes
      DEF JoinReturn, TypeOK, RuntimeTypeOK, Statuses, table, counters
    <3> QED
      BY <2>6, <3>2, <3>3, <3>4, Zenon DEF JoinLoop
  <2>7. ASSUME NEW p \in Priorities, ThreadCreate(c, p)
        PROVE  TypeOK'
    <3>1. p \in Nat
      BY RuntimeAssumption
    <3>2. /\ state' \in [Slots -> ThreadStates] /\ tid' \in [Slots -> Nat]
          /\ priority' \in [Slots -> Nat] /\ retval' \in [Slots -> Nat]
      BY <2>7, <3>1 DEF ThreadCreate, TypeOK, RuntimeTypeOK, ThreadStates, NULL
    <3> QED
      BY <2>7, <3>2
      DEF ThreadCreate, TypeOK, RuntimeTypeOK, Statuses, control
  <2>8. ASSUME NEW t \in Tids,
               ThreadJoinRefused(c, t) \/ ThreadCancelRefused(c, t)
        PROVE  TypeOK'
    BY <2>8, ReturnType DEF ThreadJoinRefused, ThreadCancelRefused, Statuses
  <2>9. ASSUME NEW t \in Tids, ThreadJoin(c, t)
        PROVE  TypeOK'
    <3>1. t \in Nat
      BY RuntimeAssumption DEF Tids
    <3> QED
      BY <2>9, <3>1, ReleaseType, RunUntilType DEF ThreadJoin
  <2>10. ASSUME NEW t \in Tids, ThreadCancel(c, t)
         PROVE  TypeOK'
    <3>1. PICK s \in Slots : ThreadCancel(c, t)!3!(s)
      BY <2>10, Zenon DEF ThreadCancel
    <3>2. blocked_threads' \in Nat /\ runnable_threads' \in Nat
      BY <3>1 DEF Lower, TypeOK, RuntimeTypeOK
    <3>3. state' \in [Slots -> ThreadStates] /\ retval' \in [Slots -> Nat]
      BY <3>1 DEF TypeOK, RuntimeTypeOK, ThreadStates, NULL
    <3> QED
      BY <2>10, <3>2, <3>3
      DEF ThreadCancel, TypeOK, RuntimeTypeOK, Statuses, control
  <2> QED
    BY <1>1, <2>1, <2>2, <2>3, <2>4, <2>5, <2>6, <2>7, <2>8, <2>9, <2>10
    DEF ThreadStep
<1>2. ASSUME NEW c \in Contexts, RuntimeShutdown(c)
      PROVE  TypeOK'
  BY <1>2, FrameTypes, Zenon
  DEF RuntimeShutdown, TypeOK, RuntimeTypeOK, NoThreads, Zeros, ThreadStates,
      Statuses
<1>3. ASSUME NEW s \in Slots, ThreadExit(s)
      PROVE  TypeOK'
  <2>1. state' \in [Slots -> ThreadStates] /\ retval' \in [Slots -> Nat]
    BY <1>3 DEF ThreadExit, TypeOK, RuntimeTypeOK, ThreadStates, NULL
  <2>2. SwapToScheduler
    BY <1>3 DEF ThreadExit
  <2> QED
    BY <1>3, <2>1, <2>2, SwapType
    DEF ThreadExit, TypeOK, RuntimeTypeOK, counters
<1>4. CASE UNCHANGED runtimeVars
  BY <1>4 DEF runtimeVars, table, counters, control, TypeOK, RuntimeTypeOK
<1> QED
  BY <1>1, <1>2, <1>3, <1>4, SyncType DEF Next

\* Every variable of the runtime keeps its type: slot numbers stay in the table,
\* counters never go below zero, scheduler_ctx and cpu name real contexts.
THEOREM TypeCorrect == Spec => []TypeOK
BY InitType, StepType, PTL DEF Spec

----------------------------------------------------------------------------
(* Who executes.  TidsUnique and ContextsExact are inductive together: a   *)
(* context is known by its tid, and the tid it gets back after a switch is *)
(* the one its frame saved.                                                *)

\* gth_runtime_find_thread(current_tid) is the context that executes.
LEMMA CurrentSlot ==
  ASSUME ContextInv, NEW s \in Slots, FindThread(s, current_tid), cpu \in Contexts
  PROVE  cpu = s /\ state[s] # "EMPTY"
<1>1. state[s] # "EMPTY" /\ tid[s] = current_tid
  BY DEF FindThread, Found
<1>2. current_tid # 0
  BY <1>1 DEF ContextInv, TidsUnique, TypeOK, RuntimeTypeOK
<1>3. cpu \in Slots
  BY <1>2 DEF ContextInv, ContextsExact, CpuIsCurrent, Contexts
<1>4. tid[cpu] = current_tid /\ state[cpu] # "EMPTY"
  BY <1>3 DEF ContextInv, ContextsExact, CpuIsCurrent
<1> QED
  BY <1>1, <1>3, <1>4 DEF ContextInv, TidsUnique

\* The tid of the context that executes.
LEMMA CurrentOwnTid ==
  ASSUME ContextInv, cpu \in Contexts
  PROVE  current_tid = OwnTid(cpu)
BY ContextFacts DEF ContextInv, ContextsExact, CpuIsCurrent, OwnTid, Contexts

\* A switch into a ready thread.
LEMMA DispatchToContexts ==
  ASSUME ContextInv, NEW c \in Contexts, cpu = c,
         NEW f \in Frames, f.call # "none", f.previous_tid = current_tid,
         f.call = "join" => f.tid # current_tid,
         NEW s \in Slots, state[s] = "READY", DispatchTo(c, f, s)
  PROVE  (TidsUnique /\ ContextsExact)'
<1> USE ContextFacts
<1>1. state[s] = "READY"
  OBVIOUS
<1>2. s # c
  BY <1>1 DEF ContextInv, ContextsExact, CpuIsCurrent
<1>3. /\ state' = [state EXCEPT ![s] = "RUNNING"] /\ tid' = tid
      /\ state \in [Slots -> ThreadStates] /\ frame \in [Contexts -> Frames]
      /\ frame' = [frame EXCEPT ![c] = f] /\ next_tid' = next_tid
      /\ cpu' = s /\ sched_ctx' = c /\ current_tid' = tid[s]
      /\ initialized' = initialized
  BY SMTT(30) DEF DispatchTo, ContextInv, TypeOK, RuntimeTypeOK
<1>4. TidsUnique'
  BY <1>1, <1>3 DEF ContextInv, TidsUnique
<1>5. tid[s] # 0 /\ initialized
  BY <1>1 DEF ContextInv, TidsUnique, ContextsExact
<1>6. CpuIsCurrent'
  BY <1>3, <1>5 DEF CpuIsCurrent
<1>7. \A d \in Contexts : OwnTid(d)' = OwnTid(d)
  BY <1>3 DEF OwnTid
<1>8. current_tid = OwnTid(c)
  BY CurrentOwnTid
<1>9. c \in Slots => state[c] \in {"RUNNING", "CANCELED"}
  BY DEF ContextInv, ContextsExact, CpuIsCurrent
<1>10. \A d \in Contexts :
         /\ frame'[d].call # "none" => frame'[d].previous_tid = OwnTid(d)'
         /\ frame'[d].call = "join" => frame'[d].tid # OwnTid(d)'
  BY <1>3, <1>7, <1>8 DEF ContextInv, ContextsExact
<1>11. \A u \in Slots : frame'[u].call # "none" => state'[u] \in {"RUNNING", "CANCELED"}
  BY <1>3, <1>9 DEF ContextInv, ContextsExact
<1>12. initialized' => next_tid' > 0
  BY <1>3 DEF ContextInv, ContextsExact
<1> QED
  BY <1>2, <1>3, <1>4, <1>5, <1>6, <1>10, <1>11, <1>12 DEF ContextsExact

LEMMA DispatchContexts ==
  ASSUME ContextInv, NEW c \in Contexts, cpu = c,
         NEW f \in Frames, f.call # "none", f.previous_tid = current_tid,
         f.call = "join" => f.tid # current_tid,
         Dispatch(c, f)
  PROVE  (TidsUnique /\ ContextsExact)'
<1>1. PICK s \in Slots : PickReady(s) /\ DispatchTo(c, f, s)
  BY Zenon DEF Dispatch
<1>2. state[s] = "READY"
  BY <1>1, PickedReady, Zenon DEF ContextInv
<1> QED
  BY <1>1, <1>2, DispatchToContexts, Zenon

\* A swap back to the scheduler, by a step that changes no thread's place in
\* the table and touches the state of RUNNING and CANCELED threads only if
\* they are the one that executes.
LEMMA SwapContexts ==
  ASSUME ContextInv, cpu \in Slots, frame[cpu].call = "none", SwapToScheduler,
         UNCHANGED <<initialized, next_tid, tid>>,
         state' \in [Slots -> ThreadStates],
         \A u \in Slots : state[u] = "EMPTY" <=> state'[u] = "EMPTY",
         \A u \in Slots : u # cpu /\ state[u] \in {"RUNNING", "CANCELED"} =>
                            state'[u] = state[u]
  PROVE  (TidsUnique /\ ContextsExact)'
<1> USE ContextFacts
<1>1. TidsUnique'
  BY DEF ContextInv, TidsUnique
<1>2. initialized' /\ next_tid' > 0
  BY DEF ContextInv, ContextsExact
<1>3. \A d \in Contexts : OwnTid(d)' = OwnTid(d)
  BY DEF OwnTid
<1>4. CASE sched_ctx = Dead
  <2>1. cpu' = Wild /\ sched_ctx' = Dead /\ frame' = frame
    BY <1>4 DEF SwapToScheduler
  <2> QED
    BY <1>1, <1>2, <1>3, <2>1 DEF ContextInv, ContextsExact, CpuIsCurrent
<1>5. CASE sched_ctx # Dead
  <2>1. /\ sched_ctx \in Contexts /\ frame \in [Contexts -> Frames]
        /\ sched_ctx # cpu /\ frame[sched_ctx].call # "none"
        /\ frame[sched_ctx].previous_tid = OwnTid(sched_ctx)
    BY <1>5 DEF ContextInv, ContextsExact, TypeOK, RuntimeTypeOK
  <2>2. /\ cpu' = sched_ctx /\ sched_ctx' = Dead
        /\ current_tid' = OwnTid(sched_ctx)
        /\ frame' = frame \/ frame' = [frame EXCEPT ![sched_ctx] = NoFrame]
    BY <1>5, <2>1 DEF SwapToScheduler
  <2>3. sched_ctx \in Slots => /\ state[sched_ctx] \in {"RUNNING", "CANCELED"}
                               /\ state'[sched_ctx] = state[sched_ctx]
                               /\ tid[sched_ctx] # 0
    BY <2>1 DEF ContextInv, ContextsExact, TidsUnique
  <2>4. CpuIsCurrent'
    BY <2>1, <2>2, <2>3 DEF CpuIsCurrent, OwnTid, Contexts
  <2>5. \A d \in Contexts : frame'[d].call # "none" => frame'[d] = frame[d]
    BY <2>1, <2>2 DEF NoFrame
  <2>6. \A u \in Slots : frame'[u].call # "none" => state'[u] \in {"RUNNING", "CANCELED"}
    BY <2>5, Zenon DEF ContextInv, ContextsExact
  <2>7. \A d \in Contexts :
          /\ frame'[d].call # "none" => frame'[d].previous_tid = OwnTid(d)'
          /\ frame'[d].call = "join" => frame'[d].tid # OwnTid(d)'
    BY <1>3, <2>5 DEF ContextInv, ContextsExact
  <2> QED
    BY <1>1, <1>2, <2>2, <2>4, <2>6, <2>7 DEF ContextsExact
<1> QED
  BY <1>4, <1>5

\* The end of a join: the slot released is not the one that executes.
LEMMA ReleaseContexts ==
  ASSUME ContextInv, NEW c \in Contexts, cpu = c, NEW s \in Slots, s # c,
         ReleaseSlot(c, s)
  PROVE  (TidsUnique /\ ContextsExact)'
<1> USE ContextFacts
<1>1. /\ state \in [Slots -> ThreadStates] /\ tid \in [Slots -> Nat]
      /\ frame \in [Contexts -> Frames]
      /\ state' = [state EXCEPT ![s] = "EMPTY"]
      /\ tid' = [tid EXCEPT ![s] = 0]
      /\ frame' = [frame EXCEPT ![c] = NoFrame, ![s] = NoFrame]
      /\ sched_ctx' = IF sched_ctx = s THEN Dead ELSE sched_ctx
      /\ UNCHANGED <<initialized, next_tid, cpu, current_tid>>
  BY DEF ContextInv, TypeOK, RuntimeTypeOK, ReleaseSlot
<1>2. TidsUnique'
  BY <1>1 DEF ContextInv, TidsUnique
<1>3. CpuIsCurrent'
  BY <1>1 DEF ContextInv, ContextsExact, CpuIsCurrent
<1>4. \A d \in Contexts : frame'[d].call # "none" => d # s /\ d # c /\ frame'[d] = frame[d]
  BY <1>1 DEF NoFrame
<1>5. \A d \in Contexts : d # s => OwnTid(d)' = OwnTid(d)
  BY <1>1 DEF OwnTid, Contexts
<1>6. \A d \in Contexts :
        /\ frame'[d].call # "none" => frame'[d].previous_tid = OwnTid(d)'
        /\ frame'[d].call = "join" => frame'[d].tid # OwnTid(d)'
  BY <1>4, <1>5 DEF ContextInv, ContextsExact
<1>7. \A u \in Slots : frame'[u].call # "none" => state'[u] \in {"RUNNING", "CANCELED"}
  BY <1>1, <1>4 DEF ContextInv, ContextsExact
<1>8. sched_ctx' # Dead => frame'[sched_ctx'].call # "none" /\ sched_ctx' # cpu'
  <2> SUFFICES ASSUME sched_ctx' # Dead
               PROVE  frame'[sched_ctx'].call # "none" /\ sched_ctx' # cpu'
    OBVIOUS
  <2>1. /\ sched_ctx' = sched_ctx /\ sched_ctx # s /\ sched_ctx # c
        /\ sched_ctx \in Contexts /\ frame[sched_ctx].call # "none"
    BY <1>1 DEF ContextInv, ContextsExact, TypeOK, RuntimeTypeOK
  <2> QED
    BY <1>1, <2>1
<1>9. /\ cpu' = Main => sched_ctx' = Dead
      /\ initialized' => next_tid' > 0
      /\ ~initialized' => cpu' \notin Slots /\ \A u \in Slots : state'[u] = "EMPTY"
  BY <1>1 DEF ContextInv, ContextsExact
<1> QED
  BY <1>2, <1>3, <1>6, <1>7, <1>8, <1>9 DEF ContextsExact

\* A step without a switch: it may return from run_until, spend a tid, and
\* change the state of threads, as long as none comes or goes and none that is
\* RUNNING or CANCELED becomes something else.
LEMMA QuietContexts ==
  ASSUME ContextInv, TypeOK',
         UNCHANGED <<initialized, tid, cpu, sched_ctx, current_tid>>,
         next_tid' >= next_tid,
         \A u \in Slots : state[u] = "EMPTY" <=> state'[u] = "EMPTY",
         \A u \in Slots : state[u] \in {"RUNNING", "CANCELED"} =>
                            state'[u] \in {"RUNNING", "CANCELED"},
         \/ frame' = frame
         \/ cpu \in Contexts /\ frame' = [frame EXCEPT ![cpu] = NoFrame]
  PROVE  (TidsUnique /\ ContextsExact)'
<1> USE ContextFacts
<1>1. /\ frame \in [Contexts -> Frames] /\ next_tid \in Nat /\ next_tid' \in Nat
      /\ tid \in [Slots -> Nat] /\ sched_ctx \in Contexts \cup {Dead}
  BY DEF ContextInv, TypeOK, RuntimeTypeOK
<1>2. TidsUnique'
  BY <1>1 DEF ContextInv, TidsUnique
<1>3. CpuIsCurrent'
  BY Zenon DEF ContextInv, ContextsExact, CpuIsCurrent
<1>4. \A d \in Contexts :
        /\ frame'[d].call # "none" => frame'[d] = frame[d]
        /\ d # cpu => frame'[d] = frame[d]
        /\ OwnTid(d)' = OwnTid(d)
  BY <1>1 DEF NoFrame, OwnTid
<1>5. \A d \in Contexts :
        /\ frame'[d].call # "none" => frame'[d].previous_tid = OwnTid(d)'
        /\ frame'[d].call = "join" => frame'[d].tid # OwnTid(d)'
  BY <1>4 DEF ContextInv, ContextsExact
<1>6. \A u \in Slots : frame'[u].call # "none" => state'[u] \in {"RUNNING", "CANCELED"}
  BY <1>4 DEF ContextInv, ContextsExact
<1>7. /\ sched_ctx' # Dead => frame'[sched_ctx'].call # "none" /\ sched_ctx' # cpu'
      /\ cpu' = Main => sched_ctx' = Dead
      /\ initialized' => next_tid' > 0
      /\ ~initialized' => cpu' \notin Slots /\ \A u \in Slots : state'[u] = "EMPTY"
  BY <1>1, <1>4 DEF ContextInv, ContextsExact
<1> QED
  BY <1>2, <1>3, <1>5, <1>6, <1>7 DEF ContextsExact

\* One turn of the join loop.
LEMMA RunUntilContexts ==
  ASSUME ContextInv, TypeOK', NEW c \in Contexts, cpu = c,
         NEW t \in Nat, t # current_tid, NEW s \in Slots, RunUntil(c, t, s)
  PROVE  (TidsUnique /\ ContextsExact)'
<1> DEFINE f == JoinFrame(t, s)
<1>1. CASE Dispatch(c, f)
  <2>1. f \in Frames
    BY FrameTypes DEF JoinFrame, ContextInv, TypeOK, RuntimeTypeOK
  <2>2. f.call # "none" /\ f.previous_tid = current_tid /\ f.tid # current_tid
    BY DEF JoinFrame
  <2> HIDE DEF f
  <2> QED
    BY <1>1, <2>1, <2>2, DispatchContexts
<1>2. CASE ~Dispatch(c, f)
  <2>1. /\ frame' = [frame EXCEPT ![c] = NoFrame]
        /\ UNCHANGED <<initialized, tid, cpu, sched_ctx, current_tid, next_tid,
                       state>>
    BY <1>2 DEF RunUntil, JoinReturn, table
  <2>2. next_tid' >= next_tid
    BY <2>1 DEF ContextInv, TypeOK, RuntimeTypeOK
  <2> QED
    BY <2>1, <2>2, QuietContexts
<1> QED
  BY <1>1, <1>2

LEMMA CallerIsCpu ==
  ASSUME NEW c, NEW call, Calls(c, call)
  PROVE  cpu = c /\ frame[c].call = "none" /\ initialized
BY DEF Calls, InUser

\* The table is emptied: nothing executes but the OS thread.
LEMMA ResetContexts ==
  ASSUME state' = NoThreads, sched_ctx' = Dead, current_tid' = 0,
         cpu' \in {Main, Wild}, initialized' => next_tid' > 0,
         \A d \in Contexts : frame'[d].call = "none"
  PROVE  (TidsUnique /\ ContextsExact)'
BY ContextFacts, Zenon
DEF NoThreads, TidsUnique, ContextsExact, CpuIsCurrent

LEMMA CreateContexts ==
  ASSUME ContextInv, NEW c \in Contexts, NEW p \in Priorities, ThreadCreate(c, p)
  PROVE  (TidsUnique /\ ContextsExact)'
<1> USE ContextFacts
<1>1. PICK s \in Slots : ThreadCreate(c, p)!3!(s)
  BY Zenon DEF ThreadCreate
<1>2. /\ state[s] = "EMPTY" /\ initialized /\ cpu = c
      /\ state \in [Slots -> ThreadStates] /\ tid \in [Slots -> Nat]
      /\ frame \in [Contexts -> Frames] /\ sched_ctx \in Contexts \cup {Dead}
      /\ next_tid \in Nat
  BY <1>1, CallerIsCpu
  DEF AllocSlot, EmptySlots, ThreadCreate, ContextInv, TypeOK, RuntimeTypeOK
<1>3. /\ state' = [state EXCEPT ![s] = "READY"]
      /\ tid' = [tid EXCEPT ![s] = next_tid]
      /\ next_tid' = next_tid + 1
      /\ UNCHANGED <<initialized, cpu, sched_ctx, frame, current_tid>>
  BY <1>1, Zenon DEF ThreadCreate, control
<1>4. next_tid > 0
  BY <1>2 DEF ContextInv, ContextsExact
<1>5. TidsUnique'
  BY <1>2, <1>3, <1>4 DEF ContextInv, TidsUnique
<1>6. s # cpu /\ frame[s].call = "none"
  <2>1. state[s] \notin {"RUNNING", "CANCELED"}
    BY <1>2
  <2>2. cpu \in Slots => state[cpu] \in {"RUNNING", "CANCELED"}
    BY Zenon DEF ContextInv, ContextsExact, CpuIsCurrent
  <2>3. frame[s].call # "none" => state[s] \in {"RUNNING", "CANCELED"}
    BY Zenon DEF ContextInv, ContextsExact
  <2> QED
    BY <2>1, <2>2, <2>3, Zenon
<1>7. CpuIsCurrent'
  BY <1>2, <1>3, <1>6, SMTT(30) DEF ContextInv, ContextsExact, CpuIsCurrent
<1>8. \A d \in Contexts : d # s => OwnTid(d)' = OwnTid(d)
  BY <1>2, <1>3, SMTT(30) DEF OwnTid, Contexts
<1>9. \A d \in Contexts :
        /\ frame'[d].call # "none" => frame'[d].previous_tid = OwnTid(d)'
        /\ frame'[d].call = "join" => frame'[d].tid # OwnTid(d)'
  BY <1>3, <1>6, <1>8, SMTT(30) DEF ContextInv, ContextsExact
<1>10. \A u \in Slots : frame'[u].call # "none" => state'[u] \in {"RUNNING", "CANCELED"}
  BY <1>2, <1>3, <1>6, SMTT(30) DEF ContextInv, ContextsExact
<1>11. /\ sched_ctx' # Dead => frame'[sched_ctx'].call # "none" /\ sched_ctx' # cpu'
       /\ cpu' = Main => sched_ctx' = Dead
       /\ initialized' /\ next_tid' > 0
  BY <1>2, <1>3, <1>4, SMTT(30) DEF ContextInv, ContextsExact
<1> QED
  BY <1>5, <1>7, <1>9, <1>10, <1>11 DEF ContextsExact

\* The thread operations, one by one.
LEMMA ThreadStepContexts ==
  ASSUME ContextInv, TypeOK', NEW c \in Contexts, ThreadStep(c)
  PROVE  (TidsUnique /\ ContextsExact)'
<1> USE ContextFacts
<1>0. next_tid \in Nat /\ current_tid \in Nat /\ state \in [Slots -> ThreadStates]
      /\ frame \in [Contexts -> Frames]
  BY DEF ContextInv, TypeOK, RuntimeTypeOK
<1>1. ASSUME NEW st, Return(st)
      PROVE  (TidsUnique /\ ContextsExact)'
  <2>1. /\ UNCHANGED <<initialized, tid, cpu, sched_ctx, current_tid, frame,
                       state, next_tid>>
        /\ next_tid' >= next_tid
    BY <1>0, <1>1 DEF Return, table, control
  <2> QED
    BY <2>1, QuietContexts
<1>2. CASE RuntimeInit(c)
  <2>1. cpu = Main /\ frame[cpu].call = "none"
    BY <1>2, SMTT(30) DEF RuntimeInit, InUser, Contexts, ContextInv, ContextsExact
  <2>2. \A d \in Contexts : frame'[d].call = "none"
    BY <1>2, <2>1, SMTT(30) DEF RuntimeInit, Contexts, ContextInv, ContextsExact
  <2>3. /\ state' = NoThreads /\ sched_ctx' = Dead /\ current_tid' = 0
        /\ cpu' \in {Main, Wild} /\ next_tid' > 0
    BY <1>2, <2>1 DEF RuntimeInit
  <2> QED
    BY <2>2, <2>3, ResetContexts, SMTT(30)
<1>3. CASE RuntimeInitRefused(c) \/ NotInitialized(c) \/ ThreadCreateRefused(c)
  BY <1>1, <1>3 DEF RuntimeInitRefused, NotInitialized, ThreadCreateRefused
<1>4. CASE ThreadCreateFails(c)
  <2>1. /\ UNCHANGED <<initialized, tid, cpu, sched_ctx, current_tid, frame,
                       state>>
        /\ next_tid' >= next_tid
    BY <1>0, <1>4 DEF ThreadCreateFails, table, control
  <2> QED
    BY <2>1, QuietContexts
<1>5. CASE MainYield(c)
  <2> DEFINE f == YieldFrame
  <2>1. CASE Dispatch(c, f)
    <3>1. f \in Frames /\ f.call = "yield" /\ f.previous_tid = current_tid
      BY <1>0, FrameTypes DEF YieldFrame
    <3>2. cpu = c
      BY <1>5, CallerIsCpu DEF MainYield
    <3> HIDE DEF f
    <3> QED
      BY <2>1, <3>1, <3>2, DispatchContexts, SMTT(30)
  <2> QED
    BY <1>1, <1>5, <2>1 DEF MainYield
<1>6. CASE ThreadYield(c)
  <2>1. PICK s \in Slots : /\ FindThread(s, current_tid)
                           /\ state' = [state EXCEPT ![s] = "READY"]
    BY <1>6, Zenon DEF ThreadYield
  <2>2. /\ cpu = c /\ frame[cpu].call = "none" /\ SwapToScheduler
        /\ UNCHANGED <<initialized, next_tid, tid>>
    BY <1>6, CallerIsCpu DEF ThreadYield
  <2>3. cpu = s /\ state[s] # "EMPTY"
    BY <2>1, <2>2, CurrentSlot
  <2>4. state' \in [Slots -> ThreadStates]
    BY DEF TypeOK, RuntimeTypeOK
  <2>5. \A u \in Slots : /\ state[u] = "EMPTY" <=> state'[u] = "EMPTY"
                         /\ u # cpu => state'[u] = state[u]
    BY <1>0, <2>1, <2>3
  <2> QED
    BY <2>2, <2>3, <2>4, <2>5, SwapContexts
<1>7. CASE JoinLoop(c)
  <2>1. cpu = c /\ frame[c].call = "join"
    BY <1>7 DEF JoinLoop
  <2>2. frame[c].tid \in Nat /\ frame[c].slot \in Slots
    BY <1>0 DEF Frames
  <2>3. frame[c].tid # current_tid
    BY <2>1, CurrentOwnTid, SMTT(30) DEF ContextInv, ContextsExact
  <2>4. CASE RunUntil(c, frame[c].tid, frame[c].slot)
    BY <2>1, <2>2, <2>3, <2>4, RunUntilContexts, SMTT(30)
  <2>5. ASSUME NEW s \in Slots, FindThread(s, frame[c].tid), ReleaseSlot(c, s)
        PROVE  (TidsUnique /\ ContextsExact)'
    <3>1. tid[s] # current_tid
      BY <2>3, <2>5, SMTT(30) DEF FindThread, Found
    <3>2. s # c
      BY <2>1, <3>1 DEF ContextInv, ContextsExact, CpuIsCurrent
    <3> QED
      BY <2>1, <2>5, <3>2, ReleaseContexts, SMTT(30)
  <2>6. CASE JoinReturn(c, "ENOTFOUND")
    <3>1. UNCHANGED <<initialized, tid, state, next_tid, cpu, sched_ctx,
                      current_tid>> /\ next_tid' >= next_tid
      BY <1>0, <2>6 DEF JoinReturn, table
    <3>2. frame' = [frame EXCEPT ![c] = NoFrame]
      BY <2>6 DEF JoinReturn
    <3> QED
      BY <2>1, <3>1, <3>2, QuietContexts
  <2> QED
    BY <1>7, <2>4, <2>5, <2>6, SMTT(30) DEF JoinLoop
<1>8. ASSUME NEW p \in Priorities, ThreadCreate(c, p)
      PROVE  (TidsUnique /\ ContextsExact)'
  BY <1>8, CreateContexts
<1>9. ASSUME NEW t \in Tids, ThreadJoinRefused(c, t) \/ ThreadCancelRefused(c, t)
      PROVE  (TidsUnique /\ ContextsExact)'
  BY <1>1, <1>9 DEF ThreadJoinRefused, ThreadCancelRefused
<1>10. ASSUME NEW t \in Tids, ThreadJoin(c, t)
       PROVE  (TidsUnique /\ ContextsExact)'
  <2>1. cpu = c /\ t # current_tid /\ t \in Nat
    BY <1>10, CallerIsCpu, RuntimeAssumption DEF ThreadJoin, Tids
  <2>2. PICK s \in Slots : FindThread(s, t) /\ (ReleaseSlot(c, s) \/ RunUntil(c, t, s))
    BY <1>10, SMTT(30) DEF ThreadJoin
  <2>3. s # c
    BY <2>1, <2>2 DEF FindThread, Found, ContextInv, ContextsExact, CpuIsCurrent
  <2> QED
    BY <2>1, <2>2, <2>3, ReleaseContexts, RunUntilContexts
<1>11. ASSUME NEW t \in Tids, ThreadCancel(c, t)
       PROVE  (TidsUnique /\ ContextsExact)'
  <2>1. PICK s \in Slots : /\ state[s] # "EMPTY"
                           /\ state' = [state EXCEPT ![s] = "CANCELED"]
    BY <1>11, Zenon DEF ThreadCancel, FindThread, Found
  <2>2. /\ UNCHANGED <<initialized, tid, cpu, sched_ctx, current_tid, frame,
                       next_tid>>
        /\ next_tid' >= next_tid
    BY <1>0, <1>11 DEF ThreadCancel, control
  <2>3. \A u \in Slots :
          /\ state[u] = "EMPTY" <=> state'[u] = "EMPTY"
          /\ state[u] \in {"RUNNING", "CANCELED"} =>
               state'[u] \in {"RUNNING", "CANCELED"}
    BY <1>0, <2>1
  <2> QED
    BY <2>2, <2>3, QuietContexts
<1> QED
  BY <1>2, <1>3, <1>4, <1>5, <1>6, <1>7, <1>8, <1>9, <1>10, <1>11, ZenonT(40)
  DEF ThreadStep

\* What a waking or a blocking synchronization call does to the table.
LEMMA SyncStates ==
  ASSUME TypeOK, NEW c \in Contexts, NEW W \in SUBSET Slots
  PROVE  /\ SyncWake(c, W) =>
              \A u \in Slots : \/ state'[u] = state[u]
                               \/ state[u] = "BLOCKED" /\ state'[u] = "READY"
         /\ SyncBlock(c, W) =>
              \E self \in Slots :
                /\ FindThread(self, current_tid)
                /\ state'[self] \in {"READY", "BLOCKED"}
                /\ \A u \in Slots \ {self} :
                     \/ state'[u] = state[u]
                     \/ state[u] = "BLOCKED" /\ state'[u] = "READY"
<1>1. ASSUME SyncWake(c, W)
      PROVE  \A u \in Slots : \/ state'[u] = state[u]
                              \/ state[u] = "BLOCKED" /\ state'[u] = "READY"
  <2>1. state' = [s \in Slots |-> IF s \in Woken(W) THEN "READY" ELSE state[s]]
    BY <1>1 DEF SyncWake, Unblock
  <2> QED
    BY <2>1 DEF Woken
<1>2. ASSUME SyncBlock(c, W)
      PROVE  \E self \in Slots :
               /\ FindThread(self, current_tid)
               /\ state'[self] \in {"READY", "BLOCKED"}
               /\ \A u \in Slots \ {self} :
                    \/ state'[u] = state[u]
                    \/ state[u] = "BLOCKED" /\ state'[u] = "READY"
  <2>1. PICK self \in Slots :
          /\ FindThread(self, current_tid)
          /\ state' = [s \in Slots |->
                         IF s \in Woken(W) \cup (W \cap {self}) THEN "READY"
                         ELSE IF s = self THEN "BLOCKED" ELSE state[s]]
    BY <1>2 DEF SyncBlock, Block
  <2> QED
    BY <2>1 DEF Woken
<1> QED
  BY <1>1, <1>2, Zenon

LEMMA SyncContexts ==
  ASSUME ContextInv, TypeOK', NEW c \in Contexts, SyncStep(c)
  PROVE  (TidsUnique /\ ContextsExact)'
<1> USE ContextFacts
<1>0. next_tid \in Nat /\ state \in [Slots -> ThreadStates] /\ TypeOK
      /\ state' \in [Slots -> ThreadStates]
  BY DEF ContextInv, TypeOK, RuntimeTypeOK
<1>1. ASSUME NEW W \in SUBSET Slots, SyncWake(c, W)
      PROVE  (TidsUnique /\ ContextsExact)'
  <2>1. /\ UNCHANGED <<initialized, tid, cpu, sched_ctx, current_tid, frame,
                       next_tid>>
        /\ next_tid' >= next_tid
    BY <1>0, <1>1 DEF SyncWake, Unblock, control
  <2>2. \A u \in Slots : \/ state'[u] = state[u]
                         \/ state[u] = "BLOCKED" /\ state'[u] = "READY"
    BY <1>0, <1>1, SyncStates, SMTT(30)
  <2> QED
    BY <2>1, <2>2, QuietContexts
<1>2. ASSUME NEW W \in SUBSET Slots, SyncBlock(c, W)
      PROVE  (TidsUnique /\ ContextsExact)'
  <2>1. PICK self \in Slots :
          /\ FindThread(self, current_tid)
          /\ state'[self] \in {"READY", "BLOCKED"}
          /\ \A u \in Slots \ {self} :
               \/ state'[u] = state[u]
               \/ state[u] = "BLOCKED" /\ state'[u] = "READY"
    BY <1>0, <1>2, SyncStates
  <2>2. /\ cpu = c /\ frame[cpu].call = "none" /\ SwapToScheduler
        /\ UNCHANGED <<initialized, next_tid, tid>>
    BY <1>2 DEF SyncBlock, InUser, Block
  <2>3. cpu = self /\ state[self] # "EMPTY"
    BY <2>1, <2>2, CurrentSlot
  <2>4. \A u \in Slots :
          /\ state[u] = "EMPTY" <=> state'[u] = "EMPTY"
          /\ u # cpu /\ state[u] \in {"RUNNING", "CANCELED"} =>
               state'[u] = state[u]
    BY <2>1, <2>3
  <2> QED
    BY <1>0, <2>2, <2>3, <2>4, SwapContexts
<1>3. CASE SyncGiveUp(c)
  <2>1. PICK self \in Slots : /\ FindThread(self, current_tid)
                              /\ state' = [state EXCEPT ![self] = "RUNNING"]
    BY <1>3, Zenon DEF SyncGiveUp, GiveUp
  <2>2. /\ UNCHANGED <<initialized, tid, cpu, sched_ctx, current_tid, frame,
                       next_tid>>
        /\ next_tid' >= next_tid
    BY <1>0, <1>3 DEF SyncGiveUp, GiveUp, control
  <2>3. state[self] # "EMPTY"
    BY <2>1 DEF FindThread, Found
  <2>4. \A u \in Slots :
          /\ state[u] = "EMPTY" <=> state'[u] = "EMPTY"
          /\ state[u] \in {"RUNNING", "CANCELED"} =>
               state'[u] \in {"RUNNING", "CANCELED"}
    BY <1>0, <2>1, <2>3
  <2> QED
    BY <2>2, <2>4, QuietContexts
<1> QED
  BY <1>1, <1>2, <1>3 DEF SyncStep

LEMMA ExitContexts ==
  ASSUME ContextInv, TypeOK', NEW s \in Slots, ThreadExit(s)
  PROVE  (TidsUnique /\ ContextsExact)'
<1>1. /\ cpu = s /\ frame[cpu].call = "none" /\ SwapToScheduler
      /\ UNCHANGED <<initialized, next_tid, tid>>
      /\ state' \in [Slots -> ThreadStates]
  BY ZenonT(40) DEF ThreadExit, InUser, TypeOK, RuntimeTypeOK
<1>2. state[s] # "EMPTY"
  BY <1>1, SMTT(30) DEF ContextInv, ContextsExact, CpuIsCurrent
<1>3. \A u \in Slots : /\ state[u] = "EMPTY" <=> state'[u] = "EMPTY"
                       /\ u # cpu => state'[u] = state[u]
  BY <1>1, <1>2, ZenonT(40) DEF ThreadExit, ContextInv, TypeOK, RuntimeTypeOK
<1> QED
  BY <1>1, <1>3, SwapContexts

LEMMA ShutdownContexts ==
  ASSUME ContextInv, NEW c \in Contexts, RuntimeShutdown(c)
  PROVE  (TidsUnique /\ ContextsExact)'
<1>1. /\ state' = NoThreads /\ sched_ctx' = Dead /\ current_tid' = 0
      /\ cpu' \in {Main, Wild} /\ ~initialized'
      /\ \A d \in Contexts : frame'[d].call = "none"
  BY ContextFacts DEF RuntimeShutdown, NoFrame
<1> QED
  BY <1>1, ResetContexts

LEMMA StepContexts ==
  ASSUME ContextInv, [Next]_runtimeVars
  PROVE  ContextInv'
<1>1. TypeOK'
  BY StepType, ZenonT(40) DEF ContextInv
<1>2. CASE UNCHANGED runtimeVars
  BY <1>2
  DEF ContextInv, TypeOK, RuntimeTypeOK, TidsUnique, ContextsExact, CpuIsCurrent,
      OwnTid, runtimeVars, table, counters, control
<1>3. CASE Next
  BY <1>1, <1>3, ThreadStepContexts, SyncContexts, ExitContexts, ShutdownContexts, SMTT(30)
  DEF Next, ContextInv
<1> QED
  BY <1>2, <1>3

LEMMA InitContexts == Init => ContextInv
BY InitType, ContextFacts
DEF Init, ContextInv, TidsUnique, ContextsExact, CpuIsCurrent, NoThreads, NoFrame

\* Whatever the program calls, nested joins, cancels of itself and shutdowns
\* included: no two threads of the table share a tid, and current_tid names the
\* context that executes (gth_thread_create, gth_scheduler_run_next).
THEOREM TidsAlwaysUnique == Spec => []TidsUnique
<1>1. ContextInv => TidsUnique
  BY DEF ContextInv
<1> QED
  BY <1>1, InitContexts, StepContexts, PTL DEF Spec

\* The same for the bookkeeping of scheduler_ctx and the saved previous_tid.
THEOREM ContextsAlwaysExact == Spec => []ContextsExact
<1>1. ContextInv => ContextsExact
  BY DEF ContextInv
<1> QED
  BY <1>1, InitContexts, StepContexts, PTL DEF Spec

----------------------------------------------------------------------------
(* Counters: each change of a thread's state, in whichever function, is    *)
(* accounted for once, and the guards "if (counter > 0)" never hide a      *)
(* missing increment.                                                      *)

LEMMA CardDisjoint ==
  ASSUME NEW A \in SUBSET Slots, NEW B \in SUBSET Slots, A \cap B = {}
  PROVE  Cardinality(A \cup B) = Cardinality(A) + Cardinality(B)
<1>1. /\ IsFiniteSet(A) /\ IsFiniteSet(B)
      /\ Cardinality(A) \in Nat /\ Cardinality(B) \in Nat
  BY SlotSetsFinite
<1>2. Cardinality(A \cup B)
        = Cardinality(A) + Cardinality(B) - Cardinality(A \cap B)
  BY <1>1, FS_Union
<1>3. Cardinality(A \cap B) = 0
  BY FS_EmptySet
<1> QED
  BY <1>1, <1>2, <1>3

LEMMA CardWithout ==
  ASSUME NEW A \in SUBSET Slots, NEW B \in SUBSET A
  PROVE  /\ Cardinality(A \ B) = Cardinality(A) - Cardinality(B)
         /\ Cardinality(B) <= Cardinality(A)
<1>1. Cardinality((A \ B) \cup B) = Cardinality(A \ B) + Cardinality(B)
  BY CardDisjoint
<1>2. (A \ B) \cup B = A
  OBVIOUS
<1>3. /\ Cardinality(A) \in Nat /\ Cardinality(B) \in Nat
      /\ Cardinality(A \ B) \in Nat
  BY SlotSetsFinite
<1>4. Cardinality(A) = Cardinality(A \ B) + Cardinality(B)
  BY <1>1, <1>2
<1> DEFINE a == Cardinality(A)
           b == Cardinality(B)
           d == Cardinality(A \ B)
<1>5. a \in Nat /\ b \in Nat /\ d \in Nat /\ a = d + b
  BY <1>3, <1>4
<1> HIDE DEF a, b, d
<1>6. d = a - b /\ b <= a
  BY <1>5
<1> QED
  BY <1>6 DEF a, b, d

LEMMA CardOne ==
  ASSUME NEW A \in SUBSET Slots, NEW s \in Slots
  PROVE  /\ Cardinality(A) \in Nat
         /\ s \notin A => /\ Cardinality(A \cup {s}) = Cardinality(A) + 1
                          /\ A \ {s} = A
         /\ s \in A => /\ Cardinality(A \ {s}) = Cardinality(A) - 1
                       /\ Cardinality(A) >= 1
                       /\ A \cup {s} = A
<1>1. Cardinality({s}) = 1
  BY FS_Singleton, Zenon
<1>2. Cardinality(A) \in Nat
  BY SlotSetsFinite
<1>3. s \notin A => Cardinality(A \cup {s}) = Cardinality(A) + 1
  BY <1>1, CardDisjoint
<1>4. s \in A => Cardinality(A \ {s}) = Cardinality(A) - 1 /\ Cardinality(A) >= 1
  BY <1>1, <1>2, CardWithout
<1> QED
  BY <1>2, <1>3, <1>4

\* One thread changes its state: gth_thread_account_state_change.
One(b) == IF b THEN 1 ELSE 0

LEMMA OneMoves ==
  ASSUME TypeOK, CountersExact, NEW s \in Slots, NEW x \in ThreadStates,
         state' = [state EXCEPT ![s] = x]
  PROVE  /\ Cardinality(ReadySlots') =
              runnable_threads + One(x = "READY") - One(state[s] = "READY")
         /\ Cardinality(BlockedSlots') =
              blocked_threads + One(x = "BLOCKED") - One(state[s] = "BLOCKED")
         /\ state[s] = "READY" => runnable_threads >= 1
         /\ state[s] = "BLOCKED" => blocked_threads >= 1
<1>0. runnable_threads \in Nat /\ blocked_threads \in Nat
  BY DEF TypeOK, RuntimeTypeOK
<1>1. /\ ReadySlots \in SUBSET Slots /\ BlockedSlots \in SUBSET Slots
      /\ s \in ReadySlots <=> state[s] = "READY"
      /\ s \in BlockedSlots <=> state[s] = "BLOCKED"
  BY DEF ReadySlots, BlockedSlots
<1>2. /\ ReadySlots' = IF x = "READY" THEN ReadySlots \cup {s} ELSE ReadySlots \ {s}
      /\ BlockedSlots' = IF x = "BLOCKED" THEN BlockedSlots \cup {s}
                                          ELSE BlockedSlots \ {s}
  BY DEF ReadySlots, BlockedSlots, TypeOK, RuntimeTypeOK
<1> DEFINE R == ReadySlots
           B == BlockedSlots
<1>3. /\ runnable_threads = Cardinality(R) /\ blocked_threads = Cardinality(B)
  BY DEF CountersExact, SnapshotRunnable, SnapshotBlocked
<1>4. /\ Cardinality(R) \in Nat
      /\ s \notin R => Cardinality(R \cup {s}) = Cardinality(R) + 1 /\ R \ {s} = R
      /\ s \in R => /\ Cardinality(R \ {s}) = Cardinality(R) - 1
                    /\ Cardinality(R) >= 1 /\ R \cup {s} = R
  BY <1>1, CardOne, Zenon
<1>5. /\ Cardinality(B) \in Nat
      /\ s \notin B => Cardinality(B \cup {s}) = Cardinality(B) + 1 /\ B \ {s} = B
      /\ s \in B => /\ Cardinality(B \ {s}) = Cardinality(B) - 1
                    /\ Cardinality(B) >= 1 /\ B \cup {s} = B
  BY <1>1, CardOne, Zenon
<1>6. Cardinality(ReadySlots') =
        runnable_threads + One(x = "READY") - One(state[s] = "READY")
  <2>1. CASE x = "READY"
    <3>1. ReadySlots' = R \cup {s}
      BY <1>2, <2>1
    <3>2. CASE s \in R
      <4>1. Cardinality(ReadySlots') = runnable_threads
        BY <1>3, <1>4, <3>1, <3>2, Zenon
      <4> QED
        BY <1>1, <2>1, <3>2, <4>1, <1>0 DEF One
    <3>3. CASE s \notin R
      <4>1. Cardinality(ReadySlots') = runnable_threads + 1
        BY <1>3, <1>4, <3>1, <3>3
      <4> QED
        BY <1>1, <2>1, <3>3, <4>1, <1>0 DEF One
    <3> QED
      BY <3>2, <3>3
  <2>2. CASE x # "READY"
    <3>1. ReadySlots' = R \ {s}
      BY <1>2, <2>2
    <3>2. CASE s \in R
      <4>1. Cardinality(ReadySlots') = runnable_threads - 1
        BY <1>3, <1>4, <3>1, <3>2
      <4> QED
        BY <1>1, <2>2, <3>2, <4>1, <1>0 DEF One
    <3>3. CASE s \notin R
      <4>1. Cardinality(ReadySlots') = runnable_threads
        BY <1>3, <1>4, <3>1, <3>3, Zenon
      <4> QED
        BY <1>1, <2>2, <3>3, <4>1, <1>0 DEF One
    <3> QED
      BY <3>2, <3>3
  <2> QED
    BY <2>1, <2>2
<1>7. Cardinality(BlockedSlots') =
        blocked_threads + One(x = "BLOCKED") - One(state[s] = "BLOCKED")
  <2>1. CASE x = "BLOCKED"
    <3>1. BlockedSlots' = B \cup {s}
      BY <1>2, <2>1
    <3>2. CASE s \in B
      <4>1. Cardinality(BlockedSlots') = blocked_threads
        BY <1>3, <1>5, <3>1, <3>2, Zenon
      <4> QED
        BY <1>1, <2>1, <3>2, <4>1, <1>0 DEF One
    <3>3. CASE s \notin B
      <4>1. Cardinality(BlockedSlots') = blocked_threads + 1
        BY <1>3, <1>5, <3>1, <3>3
      <4> QED
        BY <1>1, <2>1, <3>3, <4>1, <1>0 DEF One
    <3> QED
      BY <3>2, <3>3
  <2>2. CASE x # "BLOCKED"
    <3>1. BlockedSlots' = B \ {s}
      BY <1>2, <2>2
    <3>2. CASE s \in B
      <4>1. Cardinality(BlockedSlots') = blocked_threads - 1
        BY <1>3, <1>5, <3>1, <3>2
      <4> QED
        BY <1>1, <2>2, <3>2, <4>1, <1>0 DEF One
    <3>3. CASE s \notin B
      <4>1. Cardinality(BlockedSlots') = blocked_threads
        BY <1>3, <1>5, <3>1, <3>3, Zenon
      <4> QED
        BY <1>1, <2>2, <3>3, <4>1, <1>0 DEF One
    <3> QED
      BY <3>2, <3>3
  <2> QED
    BY <2>1, <2>2
<1> QED
  BY <1>1, <1>3, <1>4, <1>5, <1>6, <1>7

\* Several threads of B1, the blocked ones and perhaps the caller, become READY.
LEMMA ManyMove ==
  ASSUME TypeOK, CountersExact, NEW B1 \in SUBSET Slots, NEW K \in SUBSET B1,
         K \cap ReadySlots = {},
         ReadySlots' = ReadySlots \cup K, BlockedSlots' = B1 \ K,
         runnable_threads' = runnable_threads + Cardinality(K),
         blocked_threads' = Lower(Cardinality(B1), Cardinality(K))
  PROVE  CountersExact'
<1>1. Cardinality(ReadySlots \cup K) = Cardinality(ReadySlots) + Cardinality(K)
  <2>1. ReadySlots \in SUBSET Slots /\ K \in SUBSET Slots
    BY DEF ReadySlots
  <2> QED
    BY <2>1, CardDisjoint
<1>2. /\ Cardinality(B1 \ K) = Cardinality(B1) - Cardinality(K)
      /\ Cardinality(K) <= Cardinality(B1)
  BY CardWithout
<1>3. Cardinality(B1) \in Nat /\ Cardinality(K) \in Nat
  BY SlotSetsFinite
<1>4. Lower(Cardinality(B1), Cardinality(K)) = Cardinality(B1) - Cardinality(K)
  <2> DEFINE b == Cardinality(B1)
             k == Cardinality(K)
  <2>1. b \in Nat /\ k \in Nat /\ k <= b
    BY <1>2, <1>3
  <2> HIDE DEF b, k
  <2>2. Lower(b, k) = b - k
    BY <2>1 DEF Lower
  <2> QED
    BY <2>2 DEF b, k
<1>5. Cardinality(ReadySlots') = runnable_threads'
  BY <1>1 DEF CountersExact, SnapshotRunnable, SnapshotBlocked
<1>6. Cardinality(BlockedSlots') = blocked_threads'
  BY <1>2, <1>4
<1> QED
  BY <1>5, <1>6 DEF CountersExact, SnapshotRunnable, SnapshotBlocked

\* One thread moves, and the counters with it.
LEMMA OneMovesExact ==
  ASSUME TypeOK, CountersExact, NEW s \in Slots, NEW x \in ThreadStates,
         state' = [state EXCEPT ![s] = x],
         runnable_threads' =
           runnable_threads + One(x = "READY") - One(state[s] = "READY"),
         blocked_threads' =
           blocked_threads + One(x = "BLOCKED") - One(state[s] = "BLOCKED")
  PROVE  CountersExact'
BY OneMoves, Zenon DEF CountersExact, SnapshotRunnable, SnapshotBlocked

LEMMA SameExact ==
  ASSUME CountersExact, UNCHANGED <<state, runnable_threads, blocked_threads>>
  PROVE  CountersExact'
BY DEF CountersExact, SnapshotRunnable, SnapshotBlocked, ReadySlots,
    BlockedSlots

LEMMA DispatchToExact ==
  ASSUME TypeOK, CountersExact, NEW c, NEW f, NEW s \in Slots, state[s] = "READY",
         DispatchTo(c, f, s)
  PROVE  CountersExact'
<1>1. state[s] = "READY"
  OBVIOUS
<1>2. /\ state' = [state EXCEPT ![s] = "RUNNING"]
      /\ runnable_threads' = Lower(runnable_threads, 1)
      /\ blocked_threads' = blocked_threads
  BY DEF DispatchTo
<1>3. runnable_threads \in Nat /\ blocked_threads \in Nat /\ "RUNNING" \in ThreadStates
  BY DEF TypeOK, RuntimeTypeOK, ThreadStates
<1>4. runnable_threads >= 1
  BY <1>1, <1>2, <1>3, OneMoves, Zenon
<1>5. /\ runnable_threads' =
           runnable_threads + One("RUNNING" = "READY") - One(state[s] = "READY")
      /\ blocked_threads' =
           blocked_threads + One("RUNNING" = "BLOCKED") - One(state[s] = "BLOCKED")
  BY <1>1, <1>2, <1>3, <1>4 DEF One, Lower
<1> QED
  BY <1>2, <1>3, <1>5, OneMovesExact, Zenon

LEMMA DispatchExact ==
  ASSUME TypeOK, CountersExact, NEW c, NEW f, Dispatch(c, f)
  PROVE  CountersExact'
BY PickedReady, DispatchToExact, Zenon DEF Dispatch

LEMMA ReleaseExact ==
  ASSUME TypeOK, CountersExact, NEW c, NEW s \in Slots, ReleaseSlot(c, s)
  PROVE  CountersExact'
<1>1. /\ state' = [state EXCEPT ![s] = "EMPTY"]
      /\ runnable_threads' = IF state[s] = "READY" THEN Lower(runnable_threads, 1)
                                                   ELSE runnable_threads
      /\ blocked_threads' = IF state[s] = "BLOCKED" THEN Lower(blocked_threads, 1)
                                                    ELSE blocked_threads
  BY DEF ReleaseSlot
<1>2. runnable_threads \in Nat /\ blocked_threads \in Nat /\ "EMPTY" \in ThreadStates
  BY DEF TypeOK, RuntimeTypeOK, ThreadStates
<1>3. /\ state[s] = "READY" => runnable_threads >= 1
      /\ state[s] = "BLOCKED" => blocked_threads >= 1
  BY <1>1, <1>2, OneMoves, Zenon
<1>4. /\ runnable_threads' =
           runnable_threads + One("EMPTY" = "READY") - One(state[s] = "READY")
      /\ blocked_threads' =
           blocked_threads + One("EMPTY" = "BLOCKED") - One(state[s] = "BLOCKED")
  BY <1>1, <1>2, <1>3 DEF One, Lower
<1> QED
  BY <1>1, <1>2, <1>4, OneMovesExact, Zenon

LEMMA RunUntilExact ==
  ASSUME TypeOK, CountersExact, NEW c, NEW t, NEW s, RunUntil(c, t, s)
  PROVE  CountersExact'
BY DispatchExact, SameExact DEF RunUntil, JoinReturn, table, counters

LEMMA SyncExact ==
  ASSUME ContextInv, CountersExact, NEW c \in Contexts, SyncStep(c)
  PROVE  CountersExact'
<1>0. /\ TypeOK /\ runnable_threads \in Nat /\ blocked_threads \in Nat
      /\ state \in [Slots -> ThreadStates]
      /\ ReadySlots \in SUBSET Slots /\ BlockedSlots \in SUBSET Slots
  BY DEF ContextInv, TypeOK, RuntimeTypeOK, ReadySlots, BlockedSlots
<1>1. ASSUME NEW W \in SUBSET Slots, SyncWake(c, W)
      PROVE  CountersExact'
  <2>1. /\ state' = [s \in Slots |-> IF s \in Woken(W) THEN "READY" ELSE state[s]]
        /\ blocked_threads' = Lower(blocked_threads, Cardinality(Woken(W)))
        /\ runnable_threads' = runnable_threads + Cardinality(Woken(W))
    BY <1>1 DEF SyncWake, Unblock
  <2>2. /\ Woken(W) \in SUBSET BlockedSlots
        /\ Woken(W) \cap ReadySlots = {}
        /\ ReadySlots' = ReadySlots \cup Woken(W)
        /\ BlockedSlots' = BlockedSlots \ Woken(W)
    BY <2>1 DEF Woken, ReadySlots, BlockedSlots
  <2>3. blocked_threads' = Lower(Cardinality(BlockedSlots), Cardinality(Woken(W)))
    BY <2>1 DEF CountersExact, SnapshotRunnable, SnapshotBlocked
  <2> QED
    BY <1>0, <2>1, <2>2, <2>3, ManyMove, SMTT(30)
<1>2. ASSUME NEW W \in SUBSET Slots, SyncBlock(c, W)
      PROVE  CountersExact'
  <2>1. PICK self \in Slots :
          /\ FindThread(self, current_tid)
          /\ state' = [s \in Slots |->
                         IF s \in Woken(W) \cup (W \cap {self}) THEN "READY"
                         ELSE IF s = self THEN "BLOCKED" ELSE state[s]]
          /\ blocked_threads' = Lower(blocked_threads + 1,
                                  Cardinality(Woken(W) \cup (W \cap {self})))
          /\ runnable_threads' =
               runnable_threads + Cardinality(Woken(W) \cup (W \cap {self}))
    BY <1>2 DEF SyncBlock, Block
  <2>2. cpu = self
    BY <1>2, <2>1, CurrentSlot, ZenonT(40) DEF SyncBlock, InUser
  <2>3. state[self] \in {"RUNNING", "CANCELED"}
    BY <2>2 DEF ContextInv, ContextsExact, CpuIsCurrent
  <2> DEFINE K == Woken(W) \cup (W \cap {self})
             B1 == BlockedSlots \cup {self}
  <2>4. /\ K \in SUBSET B1 /\ B1 \in SUBSET Slots
        /\ K \cap ReadySlots = {}
        /\ ReadySlots' = ReadySlots \cup K
        /\ BlockedSlots' = B1 \ K
    BY <2>1, <2>3 DEF Woken, ReadySlots, BlockedSlots
  <2>5. Cardinality(B1) = blocked_threads + 1
    <3>1. self \notin BlockedSlots
      BY <2>3 DEF BlockedSlots
    <3> QED
      BY <1>0, <3>1, CardOne DEF CountersExact, SnapshotRunnable,
          SnapshotBlocked
  <2>6. /\ blocked_threads' = Lower(Cardinality(B1), Cardinality(K))
        /\ runnable_threads' = runnable_threads + Cardinality(K)
    BY <2>1, <2>5
  <2> HIDE DEF K, B1
  <2> QED
    BY <1>0, <2>4, <2>6, ManyMove, SMTT(30)
<1>3. CASE SyncGiveUp(c)
  <2>1. PICK self \in Slots : /\ FindThread(self, current_tid)
                              /\ state' = [state EXCEPT ![self] = "RUNNING"]
    BY <1>3, Zenon DEF SyncGiveUp, GiveUp
  <2>2. cpu = self
    BY <1>3, <2>1, CurrentSlot DEF SyncGiveUp, InUser
  <2>3. state[self] \in {"RUNNING", "CANCELED"}
    BY <2>2 DEF ContextInv, ContextsExact, CpuIsCurrent
  <2>4. /\ runnable_threads' = runnable_threads
        /\ blocked_threads' = blocked_threads
    BY <1>0, <1>3 DEF SyncGiveUp, GiveUp, Lower
  <2>5. "RUNNING" \in ThreadStates
    BY DEF ThreadStates
  <2>6. /\ runnable_threads' =
             runnable_threads + One("RUNNING" = "READY") - One(state[self] = "READY")
        /\ blocked_threads' =
             blocked_threads + One("RUNNING" = "BLOCKED") - One(state[self] = "BLOCKED")
    BY <1>0, <2>3, <2>4 DEF One
  <2> QED
    BY <1>0, <2>1, <2>5, <2>6, OneMovesExact, Zenon
<1> QED
  BY <1>1, <1>2, <1>3, SMTT(30) DEF SyncStep

LEMMA ThreadStepExact ==
  ASSUME ContextInv, CountersExact, NEW c \in Contexts, ThreadStep(c)
  PROVE  CountersExact'
<1>0. /\ TypeOK /\ runnable_threads \in Nat /\ blocked_threads \in Nat
      /\ state \in [Slots -> ThreadStates]
  BY DEF ContextInv, TypeOK, RuntimeTypeOK
<1>1. ASSUME NEW st, Return(st)
      PROVE  CountersExact'
  BY <1>1, SameExact DEF Return, table, counters
<1>2. CASE RuntimeInit(c)
  BY <1>2, FS_EmptySet
  DEF RuntimeInit, NoThreads, CountersExact, SnapshotRunnable,
      SnapshotBlocked, ReadySlots, BlockedSlots
<1>3. CASE RuntimeInitRefused(c) \/ NotInitialized(c) \/ ThreadCreateRefused(c)
  BY <1>1, <1>3 DEF RuntimeInitRefused, NotInitialized, ThreadCreateRefused
<1>4. CASE ThreadCreateFails(c)
  BY <1>4, SameExact DEF ThreadCreateFails, table, counters
<1>5. CASE MainYield(c)
  BY <1>0, <1>1, <1>5, DispatchExact DEF MainYield
<1>6. CASE ThreadYield(c)
  <2>1. PICK s \in Slots : /\ FindThread(s, current_tid)
                           /\ state' = [state EXCEPT ![s] = "READY"]
    BY <1>6, Zenon DEF ThreadYield
  <2>2. cpu = s
    BY <1>6, <2>1, CallerIsCpu, CurrentSlot DEF ThreadYield
  <2>3. state[s] \in {"RUNNING", "CANCELED"}
    BY <2>2 DEF ContextInv, ContextsExact, CpuIsCurrent
  <2>4. /\ runnable_threads' =
             runnable_threads + One("READY" = "READY") - One(state[s] = "READY")
        /\ blocked_threads' =
             blocked_threads + One("READY" = "BLOCKED") - One(state[s] = "BLOCKED")
    BY <1>0, <1>6, <2>3 DEF ThreadYield, One
  <2>5. "READY" \in ThreadStates
    BY DEF ThreadStates
  <2> QED
    BY <1>0, <2>1, <2>4, <2>5, OneMovesExact, Zenon
<1>7. CASE JoinLoop(c)
  BY <1>0, <1>7, RunUntilExact, ReleaseExact, SameExact
  DEF JoinLoop, JoinReturn, table, counters
<1>8. ASSUME NEW p \in Priorities, ThreadCreate(c, p)
      PROVE  CountersExact'
  <2>1. PICK s \in Slots : /\ state[s] = "EMPTY"
                           /\ state' = [state EXCEPT ![s] = "READY"]
    BY <1>8, Zenon DEF ThreadCreate, AllocSlot, EmptySlots
  <2>2. /\ runnable_threads' =
             runnable_threads + One("READY" = "READY") - One(state[s] = "READY")
        /\ blocked_threads' =
             blocked_threads + One("READY" = "BLOCKED") - One(state[s] = "BLOCKED")
    BY <1>0, <1>8, <2>1 DEF ThreadCreate, One
  <2>3. "READY" \in ThreadStates
    BY DEF ThreadStates
  <2> QED
    BY <1>0, <2>1, <2>2, <2>3, OneMovesExact, Zenon
<1>9. ASSUME NEW t \in Tids, ThreadJoinRefused(c, t) \/ ThreadCancelRefused(c, t)
      PROVE  CountersExact'
  BY <1>1, <1>9 DEF ThreadJoinRefused, ThreadCancelRefused
<1>10. ASSUME NEW t \in Tids, ThreadJoin(c, t)
       PROVE  CountersExact'
  BY <1>0, <1>10, RunUntilExact, ReleaseExact DEF ThreadJoin
<1>11. ASSUME NEW t \in Tids, ThreadCancel(c, t)
       PROVE  CountersExact'
  <2>1. PICK s \in Slots : ThreadCancel(c, t)!3!(s)
    BY <1>11, Zenon DEF ThreadCancel
  <2>2. state' = [state EXCEPT ![s] = "CANCELED"] /\ "CANCELED" \in ThreadStates
    BY <2>1 DEF ThreadStates
  <2>3. /\ state[s] = "READY" => runnable_threads >= 1
        /\ state[s] = "BLOCKED" => blocked_threads >= 1
    BY <1>0, <2>2, OneMoves, ZenonT(40)
  <2>4. /\ runnable_threads' =
             runnable_threads + One("CANCELED" = "READY") - One(state[s] = "READY")
        /\ blocked_threads' =
             blocked_threads + One("CANCELED" = "BLOCKED") - One(state[s] = "BLOCKED")
    BY <1>0, <2>1, <2>3 DEF One, Lower
  <2> QED
    BY <1>0, <2>2, <2>4, OneMovesExact, Zenon
<1> QED
  BY <1>2, <1>3, <1>4, <1>5, <1>6, <1>7, <1>8, <1>9, <1>10, <1>11, ZenonT(40)
  DEF ThreadStep

LEMMA StepExact ==
  ASSUME ContextInv, CountersExact, [Next]_runtimeVars
  PROVE  CountersExact'
<1>0. /\ TypeOK /\ runnable_threads \in Nat /\ blocked_threads \in Nat
      /\ state \in [Slots -> ThreadStates]
  BY DEF ContextInv, TypeOK, RuntimeTypeOK
<1>1. ASSUME NEW c \in Contexts, RuntimeShutdown(c)
      PROVE  CountersExact'
  BY <1>1, FS_EmptySet
  DEF RuntimeShutdown, NoThreads, CountersExact, SnapshotRunnable,
      SnapshotBlocked, ReadySlots, BlockedSlots
<1>2. ASSUME NEW s \in Slots, ThreadExit(s)
      PROVE  CountersExact'
  <2>1. state[s] \in {"RUNNING", "CANCELED"}
    BY <1>2, ZenonT(40) DEF ThreadExit, InUser, ContextInv, ContextsExact, CpuIsCurrent
  <2>2. UNCHANGED <<runnable_threads, blocked_threads>>
    BY <1>2 DEF ThreadExit, counters
  <2>3. CASE state' = [state EXCEPT ![s] = "DONE"]
    <3>1. /\ runnable_threads' =
               runnable_threads + One("DONE" = "READY") - One(state[s] = "READY")
          /\ blocked_threads' =
               blocked_threads + One("DONE" = "BLOCKED") - One(state[s] = "BLOCKED")
          /\ "DONE" \in ThreadStates
      BY <1>0, <2>1, <2>2 DEF One, ThreadStates
    <3> QED
      BY <1>0, <2>3, <3>1, OneMovesExact, Zenon
  <2> QED
    BY <1>2, <2>2, <2>3, SameExact, ZenonT(40) DEF ThreadExit
<1>3. CASE UNCHANGED runtimeVars
  BY <1>3, SameExact DEF runtimeVars, table, counters
<1> QED
  BY <1>1, <1>2, <1>3, ThreadStepExact, SyncExact DEF Next

\* The counters equal the numbers of READY and BLOCKED threads whatever the
\* program does (gth_thread_set_state and the updates in scheduler.c, cond.c).
THEOREM CountersAlwaysExact == Spec => []CountersExact
<1>1. Init => CountersExact
  BY FS_EmptySet DEF Init, NoThreads, CountersExact, SnapshotRunnable,
      SnapshotBlocked, ReadySlots, BlockedSlots
<1> QED
  BY <1>1, InitContexts, StepContexts, StepExact, PTL DEF Spec

----------------------------------------------------------------------------
(* Flat programs.                                                          *)

LEMMA FlatMain ==
  ASSUME FlatInv, NEW c \in Contexts, cpu = c, frame[c].call # "none"
  PROVE  c = Main
BY DEF FlatInv, Contexts

LEMMA FlatNotNested ==
  ASSUME FlatProgram, NEW c \in Contexts,
         Allowed(c, "nested_join") \/ Allowed(c, "shutdown")
  PROVE  c = Main
BY DEF FlatProgram, Allowed

\* The OS thread runs a thread.
LEMMA FlatDispatchTo ==
  ASSUME FlatInv, ContextInv', cpu = Main, NEW f \in Frames, NEW s \in Slots,
         DispatchTo(Main, f, s)
  PROVE  FlatInv'
<1>1. /\ state' = [state EXCEPT ![s] = "RUNNING"]
      /\ cpu' = s /\ sched_ctx' = Main
      /\ frame' = [frame EXCEPT ![Main] = f]
  BY Zenon DEF DispatchTo
<1>2. /\ state \in [Slots -> ThreadStates] /\ frame \in [Contexts -> Frames]
  BY DEF FlatInv, ContextInv, TypeOK, RuntimeTypeOK
<1>3. RunningIsOnCpu'
  BY <1>1, <1>2, ContextFacts DEF FlatInv, RunningIsOnCpu
<1> QED
  BY <1>1, <1>2, <1>3, ContextFacts, SMTT(30) DEF FlatInv

LEMMA FlatDispatch ==
  ASSUME FlatInv, ContextInv', cpu = Main, NEW f \in Frames, Dispatch(Main, f)
  PROVE  FlatInv'
BY FlatDispatchTo, Zenon DEF Dispatch

\* A thread swaps back, and is no longer RUNNING.
LEMMA FlatSwap ==
  ASSUME FlatInv, ContextInv', cpu \in Slots, SwapToScheduler,
         state'[cpu] # "RUNNING",
         \A u \in Slots : u # cpu /\ state'[u] = "RUNNING" => state[u] = "RUNNING"
  PROVE  FlatInv'
<1>1. sched_ctx = Main /\ frame \in [Contexts -> Frames]
  BY DEF FlatInv, ContextInv, TypeOK, RuntimeTypeOK
<1>2. cpu' = Main /\ \A u \in Slots : frame'[u] = frame[u]
  BY <1>1, ContextFacts DEF SwapToScheduler
<1> QED
  BY <1>2, ContextFacts, ZenonT(40) DEF FlatInv, RunningIsOnCpu

\* A step without a switch makes no thread RUNNING but the one that executes.
LEMMA FlatQuiet ==
  ASSUME FlatInv, ContextInv', cpu' = cpu,
         cpu \in Slots => sched_ctx' = sched_ctx,
         \A u \in Slots : frame'[u].call = "none",
         \A u \in Slots : state'[u] = "RUNNING" => state[u] = "RUNNING" \/ u = cpu
  PROVE  FlatInv'
BY DEF FlatInv, RunningIsOnCpu

LEMMA FlatRelease ==
  ASSUME FlatInv, ContextInv', NEW c \in Contexts, cpu = c, NEW s \in Slots,
         ReleaseSlot(c, s)
  PROVE  FlatInv'
<1>1. /\ state \in [Slots -> ThreadStates] /\ frame \in [Contexts -> Frames]
      /\ state' = [state EXCEPT ![s] = "EMPTY"] /\ cpu' = cpu
      /\ frame' = [frame EXCEPT ![c] = NoFrame, ![s] = NoFrame]
      /\ sched_ctx' = IF sched_ctx = s THEN Dead ELSE sched_ctx
  BY DEF FlatInv, ContextInv, TypeOK, RuntimeTypeOK, ReleaseSlot
<1>2. \A u \in Slots : frame'[u].call = "none"
  BY <1>1, ContextFacts DEF FlatInv, NoFrame
<1>3. cpu \in Slots => sched_ctx' = sched_ctx
  BY <1>1, ContextFacts DEF FlatInv
<1> QED
  BY <1>1, <1>2, <1>3, FlatQuiet, Zenon

LEMMA FlatRunUntil ==
  ASSUME FlatInv, ContextInv', cpu = Main,
         NEW t \in Nat, NEW s \in Slots, RunUntil(Main, t, s)
  PROVE  FlatInv'
<1> DEFINE f == JoinFrame(t, s)
<1>1. CASE Dispatch(Main, f)
  <2>1. f \in Frames
    BY FrameTypes, Zenon DEF JoinFrame, FlatInv, ContextInv, TypeOK, RuntimeTypeOK
  <2> HIDE DEF f
  <2> QED
    BY <1>1, <2>1, FlatDispatch, ZenonT(40)
<1>2. CASE ~Dispatch(Main, f)
  <2>1. /\ frame' = [frame EXCEPT ![Main] = NoFrame]
        /\ UNCHANGED <<state, cpu, sched_ctx>>
    BY <1>2 DEF RunUntil, JoinReturn, table
  <2>2. \A u \in Slots : frame'[u].call = "none"
    BY <2>1, ContextFacts DEF FlatInv
  <2> QED
    BY <2>1, <2>2, FlatQuiet
<1> QED
  BY <1>1, <1>2

LEMMA FlatThreadStep ==
  ASSUME FlatProgram, FlatInv, ContextInv', NEW c \in Contexts, ThreadStep(c)
  PROVE  FlatInv'
<1> USE ContextFacts
<1>0. /\ state \in [Slots -> ThreadStates] /\ frame \in [Contexts -> Frames]
      /\ current_tid \in Nat /\ ContextInv
  BY DEF FlatInv, ContextInv, TypeOK, RuntimeTypeOK
<1>1. ASSUME NEW st, Return(st)
      PROVE  FlatInv'
  <2>1. UNCHANGED <<cpu, sched_ctx, frame, state>>
    BY <1>1, ZenonT(40) DEF Return, table, control
  <2> QED
    BY <2>1, FlatQuiet, Zenon DEF FlatInv
<1>2. CASE RuntimeInit(c)
  <2>1. cpu' = cpu /\ cpu \notin Slots /\ frame' = frame
    BY <1>2 DEF RuntimeInit, FlatInv, ContextInv, ContextsExact
  <2>2. \A u \in Slots : state'[u] # "RUNNING"
    BY <1>2 DEF RuntimeInit, NoThreads
  <2> QED
    BY <2>1, <2>2, FlatQuiet, ZenonT(40) DEF FlatInv
<1>3. CASE RuntimeInitRefused(c) \/ NotInitialized(c) \/ ThreadCreateRefused(c)
  BY <1>1, <1>3 DEF RuntimeInitRefused, NotInitialized, ThreadCreateRefused
<1>4. CASE ThreadCreateFails(c)
  <2>1. UNCHANGED <<cpu, sched_ctx, frame, state>>
    BY <1>4 DEF ThreadCreateFails, table, control
  <2> QED
    BY <2>1, FlatQuiet DEF FlatInv
<1>5. CASE MainYield(c)
  <2> DEFINE f == YieldFrame
  <2>1. c = Main /\ cpu = c
    BY <1>5, CallerIsCpu
    DEF MainYield, FlatInv, ContextInv, ContextsExact, CpuIsCurrent, Contexts
  <2>2. CASE Dispatch(c, f)
    <3>1. f \in Frames
      BY <1>0, FrameTypes DEF YieldFrame
    <3> HIDE DEF f
    <3> QED
      BY <2>1, <2>2, <3>1, FlatDispatch
  <2> QED
    BY <1>1, <1>5, <2>2, ZenonT(40) DEF MainYield
<1>6. CASE ThreadYield(c)
  <2>1. PICK s \in Slots : /\ FindThread(s, current_tid)
                           /\ state' = [state EXCEPT ![s] = "READY"]
    BY <1>6, ZenonT(40) DEF ThreadYield
  <2>2. cpu = c /\ SwapToScheduler
    BY <1>6, CallerIsCpu, ZenonT(40) DEF ThreadYield
  <2>3. cpu = s
    BY <1>0, <2>1, <2>2, CurrentSlot, ZenonT(40)
  <2> QED
    BY <1>0, <2>1, <2>2, <2>3, FlatSwap
<1>7. CASE JoinLoop(c)
  <2>1. c = Main /\ cpu = c
    BY <1>7, FlatMain DEF JoinLoop
  <2>2. frame[c].tid \in Nat /\ frame[c].slot \in Slots
    BY <1>0 DEF Frames
  <2>3. CASE RunUntil(c, frame[c].tid, frame[c].slot)
    BY <2>1, <2>2, <2>3, FlatRunUntil, Zenon
  <2>4. CASE \E s \in Slots : ReleaseSlot(c, s)
    BY <2>1, <2>4, FlatRelease
  <2>5. CASE JoinReturn(c, "ENOTFOUND")
    <3>1. \A u \in Slots : frame'[u].call = "none"
      BY <1>0, <2>1, <2>5 DEF JoinReturn, FlatInv
    <3>2. UNCHANGED <<state, cpu, sched_ctx>>
      BY <2>5 DEF JoinReturn, table
    <3> QED
      BY <2>1, <3>1, <3>2, FlatQuiet
  <2> QED
    BY <1>7, <2>3, <2>4, <2>5, ZenonT(40) DEF JoinLoop
<1>8. ASSUME NEW p \in Priorities, ThreadCreate(c, p)
      PROVE  FlatInv'
  <2>1. UNCHANGED <<cpu, sched_ctx, frame>>
    BY <1>8 DEF ThreadCreate, control
  <2>2. \A u \in Slots : state'[u] = "RUNNING" => state[u] = "RUNNING"
    BY <1>0, <1>8 DEF ThreadCreate
  <2> QED
    BY <2>1, <2>2, FlatQuiet DEF FlatInv
<1>9. ASSUME NEW t \in Tids, ThreadJoinRefused(c, t) \/ ThreadCancelRefused(c, t)
      PROVE  FlatInv'
  BY <1>1, <1>9 DEF ThreadJoinRefused, ThreadCancelRefused
<1>10. ASSUME NEW t \in Tids, ThreadJoin(c, t)
       PROVE  FlatInv'
  <2>1. cpu = c /\ t \in Nat
    BY <1>10, CallerIsCpu, RuntimeAssumption DEF ThreadJoin, Tids
  <2>2. PICK s \in Slots : \/ ReleaseSlot(c, s)
                           \/ c = Main /\ RunUntil(c, t, s)
    BY <1>10, FlatNotNested DEF ThreadJoin
  <2> QED
    BY <2>1, <2>2, FlatRelease, FlatRunUntil
<1>11. ASSUME NEW t \in Tids, ThreadCancel(c, t)
       PROVE  FlatInv'
  <2>1. UNCHANGED <<cpu, sched_ctx, frame>>
    BY <1>11 DEF ThreadCancel, control
  <2>2. \A u \in Slots : state'[u] = "RUNNING" => state[u] = "RUNNING"
    BY <1>0, <1>11 DEF ThreadCancel
  <2> QED
    BY <2>1, <2>2, FlatQuiet, Zenon DEF FlatInv
<1> QED
  BY <1>2, <1>3, <1>4, <1>5, <1>6, <1>7, <1>8, <1>9, <1>10, <1>11, ZenonT(40)
  DEF ThreadStep

LEMMA FlatSync ==
  ASSUME FlatInv, ContextInv', NEW c \in Contexts, SyncStep(c)
  PROVE  FlatInv'
<1>0. ContextInv /\ TypeOK /\ state \in [Slots -> ThreadStates]
  BY ZenonT(40) DEF FlatInv, ContextInv, TypeOK, RuntimeTypeOK
<1>1. ASSUME NEW W \in SUBSET Slots, SyncWake(c, W)
      PROVE  FlatInv'
  <2>1. UNCHANGED <<cpu, sched_ctx, frame>>
    BY <1>1 DEF SyncWake, Unblock, control
  <2>2. \A u \in Slots : state'[u] = "RUNNING" => state[u] = "RUNNING"
    BY <1>0, <1>1, SyncStates
  <2> QED
    BY <2>1, <2>2, FlatQuiet, ZenonT(40) DEF FlatInv
<1>2. ASSUME NEW W \in SUBSET Slots, SyncBlock(c, W)
      PROVE  FlatInv'
  <2>1. PICK self \in Slots :
          /\ FindThread(self, current_tid)
          /\ state'[self] \in {"READY", "BLOCKED"}
          /\ \A u \in Slots \ {self} :
               \/ state'[u] = state[u]
               \/ state[u] = "BLOCKED" /\ state'[u] = "READY"
    BY <1>0, <1>2, SyncStates, ZenonT(40)
  <2>2. cpu = c /\ SwapToScheduler
    BY <1>2 DEF SyncBlock, InUser, Block
  <2>3. cpu = self
    BY <1>0, <2>1, <2>2, CurrentSlot, ZenonT(40)
  <2> QED
    BY <2>1, <2>2, <2>3, FlatSwap
<1>3. CASE SyncGiveUp(c)
  <2>1. PICK self \in Slots : /\ FindThread(self, current_tid)
                              /\ state' = [state EXCEPT ![self] = "RUNNING"]
    BY <1>3, Zenon DEF SyncGiveUp, GiveUp
  <2>2. cpu = c /\ UNCHANGED <<cpu, sched_ctx, frame>>
    BY <1>3, ZenonT(40) DEF SyncGiveUp, InUser, GiveUp, control
  <2>3. cpu = self
    BY <1>0, <2>1, <2>2, CurrentSlot
  <2> QED
    BY <1>0, <2>1, <2>2, <2>3, FlatQuiet DEF FlatInv
<1> QED
  BY <1>1, <1>2, <1>3, ZenonT(40) DEF SyncStep

LEMMA FlatStep ==
  ASSUME FlatProgram, FlatInv, [Next]_runtimeVars
  PROVE  FlatInv'
<1>1. ContextInv'
  BY StepContexts, ZenonT(40) DEF FlatInv
<1>2. ASSUME NEW c \in Contexts, RuntimeShutdown(c)
      PROVE  FlatInv'
  <2>1. c = Main
    BY <1>2, FlatNotNested DEF RuntimeShutdown, Calls
  <2> QED
    BY <1>1, <1>2, <2>1, ContextFacts, ZenonT(40)
    DEF RuntimeShutdown, NoThreads, NoFrame, FlatInv, RunningIsOnCpu
<1>3. ASSUME NEW s \in Slots, ThreadExit(s)
      PROVE  FlatInv'
  <2>1. cpu = s /\ SwapToScheduler /\ state \in [Slots -> ThreadStates]
    BY <1>3 DEF ThreadExit, InUser, FlatInv, ContextInv, TypeOK, RuntimeTypeOK
  <2>2. /\ state'[cpu] # "RUNNING"
        /\ \A u \in Slots : u # cpu => state'[u] = state[u]
    BY <1>3, <2>1 DEF ThreadExit
  <2> QED
    BY <1>1, <2>1, <2>2, FlatSwap, ZenonT(40)
<1>4. CASE UNCHANGED runtimeVars
  BY <1>1, <1>4, ZenonT(40)
  DEF FlatInv, RunningIsOnCpu, runtimeVars, table, control
<1> QED
  BY <1>1, <1>2, <1>3, <1>4, FlatThreadStep, FlatSync, ZenonT(40) DEF Next

LEMMA FlatInit == Init => FlatInv
BY InitContexts, ContextFacts
DEF Init, FlatInv, NoFrame, NoThreads, RunningIsOnCpu

\* In a flat program every swap of yield, block and exit lands in a live
\* run_next activation: no green thread ever resumes a context that is gone.
THEOREM SchedulerAlwaysAlive ==
  ASSUME FlatProgram
  PROVE  Spec => []SchedulerAlive
<1>1. FlatInv => SchedulerAlive
  BY ContextFacts DEF FlatInv, SchedulerAlive
<1>2. FlatInv /\ [Next]_runtimeVars => FlatInv'
  BY FlatStep
<1> QED
  BY <1>1, <1>2, FlatInit, PTL DEF Spec

\* In a flat program a RUNNING thread is the one that executes.
THEOREM RunningAlwaysOnCpu ==
  ASSUME FlatProgram
  PROVE  Spec => []RunningIsOnCpu
<1>1. FlatInv => RunningIsOnCpu
  BY DEF FlatInv
<1>2. FlatInv /\ [Next]_runtimeVars => FlatInv'
  BY FlatStep
<1> QED
  BY <1>1, <1>2, FlatInit, PTL DEF Spec

----------------------------------------------------------------------------
(* Finished threads stay finished.                                         *)

\* A thread executes only while it is RUNNING, so that yield, block and exit
\* overwrite nothing else.
CpuRuns == cpu \in Slots => state[cpu] = "RUNNING"
TerminalInv == FlatInv /\ CpuRuns

NoSelfCancel == "cancel_self" \notin ThreadCalls

\* What a step may do to terminal threads.
Keeps == \A s \in Slots : state[s] \in Terminal => state'[s] \in {state[s], "EMPTY"}
Good == Keeps /\ CpuRuns'

LEMMA SwapToMain ==
  ASSUME FlatInv, cpu \in Slots, SwapToScheduler
  PROVE  cpu' = Main
<1>1. sched_ctx = Main
  BY DEF FlatInv
<1> QED
  BY <1>1, ContextFacts DEF SwapToScheduler

\* A step of the thread that executes, after which the OS thread goes on.
LEMMA SwapGood ==
  ASSUME TerminalInv, cpu \in Slots, SwapToScheduler,
         \A u \in Slots : u # cpu /\ state[u] \in Terminal => state'[u] = state[u]
  PROVE  Good
<1>1. cpu' = Main
  BY SwapToMain DEF TerminalInv
<1>2. state[cpu] \notin Terminal
  BY DEF TerminalInv, CpuRuns, Terminal
<1> QED
  BY <1>1, <1>2, ContextFacts DEF Good, Keeps, CpuRuns

\* A step without a switch.
LEMMA QuietGood ==
  ASSUME TerminalInv, cpu' = cpu, Keeps, cpu \in Slots => state'[cpu] = state[cpu]
  PROVE  Good
BY DEF TerminalInv, CpuRuns, Good

LEMMA DispatchGood ==
  ASSUME TerminalInv, NEW c \in Contexts, NEW f, Dispatch(c, f)
  PROVE  Good
<1>1. PICK s \in Slots : PickReady(s) /\ DispatchTo(c, f, s)
  BY ZenonT(40) DEF Dispatch
<1>2. state[s] = "READY"
  BY <1>1 DEF PickReady, PickRR, PickPriority, ReadySlots
<1>3. state' = [state EXCEPT ![s] = "RUNNING"] /\ cpu' = s
      /\ state \in [Slots -> ThreadStates]
  BY <1>1 DEF DispatchTo, TerminalInv, FlatInv, ContextInv, TypeOK, RuntimeTypeOK
<1> QED
  BY <1>2, <1>3 DEF Good, Keeps, CpuRuns, Terminal

LEMMA JoinReturnGood ==
  ASSUME TerminalInv, NEW c \in Contexts, NEW st, JoinReturn(c, st)
  PROVE  Good
<1>1. UNCHANGED <<state, cpu>>
  BY DEF JoinReturn, table
<1> QED
  BY <1>1, QuietGood DEF Keeps

LEMMA RunUntilGood ==
  ASSUME TerminalInv, NEW c \in Contexts, NEW t, NEW s, RunUntil(c, t, s)
  PROVE  Good
BY DispatchGood, JoinReturnGood DEF RunUntil

LEMMA ReleaseGood ==
  ASSUME TerminalInv, NEW c \in Contexts, NEW s \in Slots, s # cpu, ReleaseSlot(c, s)
  PROVE  Good
<1>1. /\ state' = [state EXCEPT ![s] = "EMPTY"] /\ cpu' = cpu
      /\ state \in [Slots -> ThreadStates]
  BY DEF ReleaseSlot, TerminalInv, FlatInv, ContextInv, TypeOK, RuntimeTypeOK
<1> QED
  BY <1>1, QuietGood DEF Keeps

LEMMA ThreadStepGood ==
  ASSUME NoSelfCancel, TerminalInv, NEW c \in Contexts, ThreadStep(c)
  PROVE  Good
<1>0. /\ ContextInv /\ FlatInv /\ state \in [Slots -> ThreadStates]
      /\ frame \in [Contexts -> Frames]
  BY DEF TerminalInv, FlatInv, ContextInv, TypeOK, RuntimeTypeOK
<1>1. ASSUME NEW st, Return(st)
      PROVE  Good
  <2>1. UNCHANGED <<state, cpu>>
    BY <1>1 DEF Return, table, control
  <2> QED
    BY <2>1, QuietGood DEF Keeps
<1>2. CASE RuntimeInit(c)
  <2>1. cpu' = cpu /\ cpu \notin Slots
    BY <1>0, <1>2, Zenon DEF RuntimeInit, ContextInv, ContextsExact
  <2> QED
    BY <1>2, <2>1, ZenonT(40) DEF RuntimeInit, NoThreads, Good, Keeps, CpuRuns
<1>3. CASE RuntimeInitRefused(c) \/ NotInitialized(c) \/ ThreadCreateRefused(c)
  BY <1>1, <1>3 DEF RuntimeInitRefused, NotInitialized, ThreadCreateRefused
<1>4. CASE ThreadCreateFails(c)
  <2>1. UNCHANGED <<state, cpu>>
    BY <1>4 DEF ThreadCreateFails, table, control
  <2> QED
    BY <2>1, QuietGood DEF Keeps
<1>5. CASE MainYield(c)
  BY <1>1, <1>5, DispatchGood DEF MainYield
<1>6. CASE ThreadYield(c)
  <2>1. PICK s \in Slots : /\ FindThread(s, current_tid)
                           /\ state' = [state EXCEPT ![s] = "READY"]
    BY <1>6, Zenon DEF ThreadYield
  <2>2. cpu = c /\ SwapToScheduler
    BY <1>6, CallerIsCpu DEF ThreadYield
  <2>3. cpu = s
    BY <1>0, <2>1, <2>2, CurrentSlot, ZenonT(40)
  <2> QED
    BY <1>0, <2>1, <2>2, <2>3, SwapGood
<1>7. CASE JoinLoop(c)
  <2>1. cpu = Main
    BY <1>0, <1>7, FlatMain DEF JoinLoop
  <2>2. \A s \in Slots : s # cpu
    BY <2>1, ContextFacts
  <2> QED
    BY <1>7, <2>2, RunUntilGood, ReleaseGood, JoinReturnGood, ZenonT(40) DEF JoinLoop
<1>8. ASSUME NEW p \in Priorities, ThreadCreate(c, p)
      PROVE  Good
  <2>1. PICK s \in Slots : /\ state[s] = "EMPTY"
                           /\ state' = [state EXCEPT ![s] = "READY"]
    BY <1>8, ZenonT(40) DEF ThreadCreate, AllocSlot, EmptySlots
  <2>2. cpu' = cpu
    BY <1>8 DEF ThreadCreate, control
  <2>3. cpu # s
    BY <2>1 DEF TerminalInv, CpuRuns
  <2>4. Keeps
    BY <1>0, <2>1 DEF Keeps, Terminal
  <2> QED
    BY <1>0, <2>1, <2>2, <2>3, <2>4, QuietGood
<1>9. ASSUME NEW t \in Tids, ThreadJoinRefused(c, t) \/ ThreadCancelRefused(c, t)
      PROVE  Good
  BY <1>1, <1>9 DEF ThreadJoinRefused, ThreadCancelRefused
<1>10. ASSUME NEW t \in Tids, ThreadJoin(c, t)
       PROVE  Good
  <2>1. cpu = c /\ t # current_tid
    BY <1>10, CallerIsCpu DEF ThreadJoin
  <2>2. PICK s \in Slots : FindThread(s, t) /\ (ReleaseSlot(c, s) \/ RunUntil(c, t, s))
    BY <1>10, ZenonT(40) DEF ThreadJoin
  <2>3. s # cpu
    BY <1>0, <2>1, <2>2, ZenonT(40) DEF FindThread, Found, ContextInv, ContextsExact, CpuIsCurrent
  <2> QED
    BY <2>2, <2>3, ReleaseGood, RunUntilGood, ZenonT(40)
<1>11. ASSUME NEW t \in Tids, ThreadCancel(c, t)
       PROVE  Good
  <2>1. PICK s \in Slots : /\ FindThread(s, t)
                           /\ state[s] \notin Terminal
                           /\ state' = [state EXCEPT ![s] = "CANCELED"]
    BY <1>11, ZenonT(40) DEF ThreadCancel
  <2>2. cpu = c /\ cpu' = cpu /\ t # 0
    BY <1>11, CallerIsCpu, ZenonT(40) DEF ThreadCancel, control
  <2>3. cpu \in Slots => t # current_tid
    BY <1>11, <2>2, ContextFacts, ZenonT(40) DEF NoSelfCancel, ThreadCancel, Calls, Allowed
  <2>4. s # cpu
    BY <1>0, <2>1, <2>3, ZenonT(40) DEF FindThread, Found, ContextInv, ContextsExact, CpuIsCurrent
  <2>5. Keeps
    BY <1>0, <2>1 DEF Keeps
  <2> QED
    BY <1>0, <2>1, <2>2, <2>4, <2>5, QuietGood
<1> QED
  BY <1>2, <1>3, <1>4, <1>5, <1>6, <1>7, <1>8, <1>9, <1>10, <1>11, ZenonT(40)
  DEF ThreadStep

LEMMA NextGood ==
  ASSUME FlatProgram, NoSelfCancel, TerminalInv, Next
  PROVE  Good
<1>0. /\ ContextInv /\ FlatInv /\ TypeOK /\ state \in [Slots -> ThreadStates]
  BY DEF TerminalInv, FlatInv, ContextInv, TypeOK, RuntimeTypeOK
<1>1. ASSUME NEW c \in Contexts, RuntimeShutdown(c)
      PROVE  Good
  <2>1. c = Main
    BY <1>1, FlatNotNested, ZenonT(40) DEF RuntimeShutdown, Calls
  <2> QED
    BY <1>1, <2>1, ContextFacts
    DEF RuntimeShutdown, NoThreads, Good, Keeps, CpuRuns
<1>2. ASSUME NEW c \in Contexts, NEW W \in SUBSET Slots, SyncWake(c, W)
      PROVE  Good
  <2>1. \A u \in Slots : \/ state'[u] = state[u]
                         \/ state[u] = "BLOCKED" /\ state'[u] = "READY"
    BY <1>0, <1>2, SyncStates
  <2>2. cpu' = cpu
    BY <1>2 DEF SyncWake, Unblock, control
  <2>3. cpu \in Slots => state'[cpu] = state[cpu]
    BY <2>1 DEF TerminalInv, CpuRuns
  <2>4. Keeps
    BY <2>1 DEF Keeps, Terminal
  <2> QED
    BY <2>2, <2>3, <2>4, QuietGood
<1>3. ASSUME NEW c \in Contexts, NEW W \in SUBSET Slots, SyncBlock(c, W)
      PROVE  Good
  <2>1. PICK self \in Slots :
          /\ FindThread(self, current_tid)
          /\ state'[self] \in {"READY", "BLOCKED"}
          /\ \A u \in Slots \ {self} :
               \/ state'[u] = state[u]
               \/ state[u] = "BLOCKED" /\ state'[u] = "READY"
    BY <1>0, <1>3, SyncStates, ZenonT(40)
  <2>2. cpu = c /\ SwapToScheduler
    BY <1>3 DEF SyncBlock, InUser, Block
  <2>3. cpu = self
    BY <1>0, <2>1, <2>2, CurrentSlot, ZenonT(40)
  <2>4. \A u \in Slots : u # cpu /\ state[u] \in Terminal => state'[u] = state[u]
    BY <2>1, <2>3 DEF Terminal
  <2> QED
    BY <2>2, <2>3, <2>4, SwapGood, ZenonT(40)
<1>4. ASSUME NEW c \in Contexts, SyncGiveUp(c)
      PROVE  Good
  <2>1. PICK self \in Slots : /\ FindThread(self, current_tid)
                              /\ state' = [state EXCEPT ![self] = "RUNNING"]
    BY <1>4, Zenon DEF SyncGiveUp, GiveUp
  <2>2. cpu = c /\ cpu' = cpu
    BY <1>4 DEF SyncGiveUp, InUser, GiveUp, control
  <2>3. cpu = self
    BY <1>0, <2>1, <2>2, CurrentSlot
  <2>4. state[self] = "RUNNING"
    BY <2>3 DEF TerminalInv, CpuRuns
  <2>5. state' = state
    BY <1>0, <2>1, <2>4
  <2> QED
    BY <2>2, <2>5, QuietGood DEF Keeps
<1>5. ASSUME NEW s \in Slots, ThreadExit(s)
      PROVE  Good
  <2>1. cpu = s /\ SwapToScheduler
    BY <1>5 DEF ThreadExit, InUser
  <2>2. \A u \in Slots : u # cpu => state'[u] = state[u]
    BY <1>0, <1>5, <2>1 DEF ThreadExit
  <2> QED
    BY <2>1, <2>2, SwapGood
<1> QED
  BY <1>1, <1>2, <1>3, <1>4, <1>5, ThreadStepGood, ZenonT(40) DEF Next, SyncStep

LEMMA TerminalStep ==
  ASSUME FlatProgram, NoSelfCancel, TerminalInv, [Next]_runtimeVars
  PROVE  TerminalInv' /\ Keeps
<1>1. FlatInv'
  BY FlatStep DEF TerminalInv
<1>2. CASE Next
  BY <1>1, <1>2, NextGood DEF Good, TerminalInv
<1>3. CASE UNCHANGED runtimeVars
  <2>1. UNCHANGED <<state, cpu>>
    BY <1>3 DEF runtimeVars, table, control
  <2> QED
    BY <1>1, <2>1, QuietGood DEF Good, TerminalInv, Keeps
<1> QED
  BY <1>2, <1>3

\* In a flat program in which no thread cancels itself, whatever else it calls,
\* no step of yield, block, wake, cancel or exit takes a thread out of DONE or
\* CANCELED.
THEOREM TerminalAlwaysFinal ==
  ASSUME FlatProgram, NoSelfCancel
  PROVE  Spec => TerminalIsFinal
<1>1. Init => TerminalInv
  <2>1. Init => CpuRuns
    BY ContextFacts DEF Init, CpuRuns
  <2> QED
    BY <2>1, FlatInit DEF TerminalInv
<1>2. TerminalInv /\ [Next]_runtimeVars => TerminalInv'
  BY TerminalStep
<1>3. TerminalInv /\ [Next]_runtimeVars =>
        [\A s \in Slots : state[s] \in Terminal => state'[s] \in {state[s], "EMPTY"}]_runtimeVars
  BY TerminalStep DEF Keeps
<1> QED
  BY <1>1, <1>2, <1>3, PTL DEF Spec, TerminalIsFinal

----------------------------------------------------------------------------
(* Under round robin no READY thread is passed over MaxThreads times in a  *)
(* row, for every table size and every program.  The invariant weighs the  *)
(* switches a thread has waited through against the slots the scan still   *)
(* has to cross to reach it.                                               *)

\* Every switch to another thread brings the scan at least one slot closer.
WaitBounded ==
  \A s \in Slots :
    IF state[s] = "READY"
    THEN bypass[s] + Distance(last_rr_slot, s) <= MaxThreads
    ELSE bypass[s] = 0

BypassInv == ContextInv /\ bypass \in [Slots -> Nat] /\ WaitBounded

\* What a step is to the waiting threads: a switch, or nothing, or the end of
\* them all.
SwitchTo(n) ==
  /\ PickRR(n)
  /\ last_rr_slot' = n
  /\ state' = [state EXCEPT ![n] = "RUNNING"]
Stays ==
  /\ last_rr_slot' = last_rr_slot
  /\ \A s \in Slots : state[s] = "READY" => state'[s] # "RUNNING"
Resets == \A s \in Slots : state'[s] # "READY" /\ state'[s] # "RUNNING"
StepKind == (\E n \in Slots : SwitchTo(n)) \/ Stays \/ Resets

\* Going round from `last`, every slot is between 1 and MaxThreads away, and the
\* distances from a slot n on the way are shorter by the way to n.
LEMMA DistanceFacts ==
  /\ \A k, s \in Slots : Distance(k, s) \in 1 .. MaxThreads
  /\ \A k, n, s \in Slots :
       Distance(k, n) <= Distance(k, s) /\ n # s =>
         Distance(n, s) <= Distance(k, s) - 1
<1>1. MaxThreads \in Nat \ {0}
  BY RuntimeAssumption
<1> QED
  BY <1>1 DEF Distance, Slots

LEMMA DispatchKind ==
  ASSUME Policy = "RR", NEW c \in Contexts, NEW f, Dispatch(c, f)
  PROVE  StepKind
<1>1. PICK s \in Slots : PickReady(s) /\ DispatchTo(c, f, s)
  BY DEF Dispatch
<1>2. SwitchTo(s)
  BY <1>1 DEF PickReady, DispatchTo, SwitchTo
<1> QED
  BY <1>2 DEF StepKind

LEMMA RunUntilKind ==
  ASSUME Policy = "RR", TypeOK, NEW c \in Contexts, NEW t, NEW s, RunUntil(c, t, s)
  PROVE  StepKind
<1>1. CASE Dispatch(c, JoinFrame(t, s))
  BY <1>1, DispatchKind
<1>2. CASE JoinReturn(c, "EBUSY")
  BY <1>2 DEF JoinReturn, table, StepKind, Stays
<1> QED
  BY <1>1, <1>2 DEF RunUntil

LEMMA ThreadStepKind ==
  ASSUME Policy = "RR", ContextInv, NEW c \in Contexts, ThreadStep(c)
  PROVE  StepKind
<1>0. TypeOK /\ state \in [Slots -> ThreadStates]
  BY DEF ContextInv, TypeOK, RuntimeTypeOK
<1>1. ASSUME NEW st, Return(st)
      PROVE  StepKind
  BY <1>1 DEF Return, table, StepKind, Stays
<1>2. CASE RuntimeInit(c)
  BY <1>2 DEF RuntimeInit, NoThreads, StepKind, Resets
<1>3. CASE RuntimeInitRefused(c) \/ NotInitialized(c) \/ ThreadCreateRefused(c)
  BY <1>1, <1>3 DEF RuntimeInitRefused, NotInitialized, ThreadCreateRefused
<1>4. CASE ThreadCreateFails(c)
  BY <1>4 DEF ThreadCreateFails, table, StepKind, Stays
<1>5. CASE MainYield(c)
  BY <1>1, <1>5, DispatchKind DEF MainYield
<1>6. CASE ThreadYield(c)
  BY <1>0, <1>6 DEF ThreadYield, StepKind, Stays
<1>7. ASSUME NEW s \in Slots, ReleaseSlot(c, s)
      PROVE  StepKind
  BY <1>0, <1>7 DEF ReleaseSlot, StepKind, Stays
<1>8. CASE JoinLoop(c)
  <2>1. CASE JoinReturn(c, "ENOTFOUND")
    BY <2>1 DEF JoinReturn, table, StepKind, Stays
  <2> QED
    BY <1>0, <1>7, <1>8, <2>1, RunUntilKind DEF JoinLoop
<1>9. ASSUME NEW p \in Priorities, ThreadCreate(c, p)
      PROVE  StepKind
  BY <1>0, <1>9 DEF ThreadCreate, StepKind, Stays
<1>10. ASSUME NEW t \in Tids, ThreadJoinRefused(c, t) \/ ThreadCancelRefused(c, t)
       PROVE  StepKind
  BY <1>1, <1>10 DEF ThreadJoinRefused, ThreadCancelRefused
<1>11. ASSUME NEW t \in Tids, ThreadJoin(c, t)
       PROVE  StepKind
  BY <1>0, <1>7, <1>11, RunUntilKind DEF ThreadJoin
<1>12. ASSUME NEW t \in Tids, ThreadCancel(c, t)
       PROVE  StepKind
  BY <1>0, <1>12 DEF ThreadCancel, StepKind, Stays
<1> QED
  BY <1>2, <1>3, <1>4, <1>5, <1>6, <1>8, <1>9, <1>10, <1>11, <1>12 DEF ThreadStep

LEMMA NextKind ==
  ASSUME Policy = "RR", ContextInv, Next
  PROVE  StepKind
<1>0. state \in [Slots -> ThreadStates]
  BY DEF ContextInv, TypeOK, RuntimeTypeOK
<1>1. ASSUME NEW c \in Contexts, RuntimeShutdown(c)
      PROVE  StepKind
  BY <1>1 DEF RuntimeShutdown, NoThreads, StepKind, Resets
<1>2. ASSUME NEW c \in Contexts, NEW W \in SUBSET Slots,
             SyncWake(c, W) \/ SyncBlock(c, W)
      PROVE  StepKind
  BY <1>0, <1>2, Zenon DEF SyncWake, SyncBlock, Unblock, Block, StepKind, Stays
<1>3. ASSUME NEW c \in Contexts, SyncGiveUp(c)
      PROVE  StepKind
  <2>1. PICK self \in Slots : /\ FindThread(self, current_tid)
                              /\ state' = [state EXCEPT ![self] = "RUNNING"]
    BY <1>3, Zenon DEF SyncGiveUp, GiveUp
  <2>2. cpu = self
    BY <1>3, <2>1, CurrentSlot DEF SyncGiveUp, InUser
  <2>3. state[self] # "READY"
    BY <2>2, Zenon DEF ContextInv, ContextsExact, CpuIsCurrent
  <2>4. last_rr_slot' = last_rr_slot
    BY <1>3 DEF SyncGiveUp, GiveUp
  <2> QED
    BY <1>0, <2>1, <2>3, <2>4 DEF StepKind, Stays
<1>4. ASSUME NEW s \in Slots, ThreadExit(s)
      PROVE  StepKind
  BY <1>0, <1>4 DEF ThreadExit, StepKind, Stays
<1> QED
  BY <1>1, <1>2, <1>3, <1>4, ThreadStepKind DEF Next, SyncStep

\* The weight of a waiting thread never exceeds the table size.
LEMMA BypassStep ==
  ASSUME Policy = "RR", BypassInv, [RRNext]_rrVars
  PROVE  BypassInv'
<1>1. CASE UNCHANGED rrVars
  <2>1. UNCHANGED runtimeVars /\ UNCHANGED <<bypass, state, last_rr_slot>>
    BY <1>1 DEF rrVars, runtimeVars, table
  <2>2. ContextInv'
    BY <2>1, StepContexts DEF BypassInv
  <2> QED
    BY <2>1, <2>2 DEF BypassInv, WaitBounded, Distance
<1>2. CASE RRNext
  <2>0. ContextInv /\ ContextInv' /\ last_rr_slot \in Slots /\ MaxThreads \in Nat \ {0}
        /\ last_rr_slot' \in Slots /\ state \in [Slots -> ThreadStates]
        /\ bypass \in [Slots -> Nat]
    BY <1>2, StepContexts, RuntimeAssumption
    DEF RRNext, BypassInv, ContextInv, TypeOK, RuntimeTypeOK
  <2>1. bypass' = [s \in Slots |->
                     IF state[s] # "READY" \/ state'[s] # "READY" THEN 0
                     ELSE IF Switch /\ bypass[s] < MaxThreads THEN bypass[s] + 1
                     ELSE bypass[s]]
    BY <1>2 DEF RRNext, CountBypass
  <2>2. bypass' \in [Slots -> Nat]
    BY <2>0, <2>1
  <2>3. ASSUME NEW s \in Slots
        PROVE  IF state'[s] = "READY"
               THEN bypass'[s] + Distance(last_rr_slot', s) <= MaxThreads
               ELSE bypass'[s] = 0
    <3>1. CASE state[s] # "READY" \/ state'[s] # "READY"
      BY <2>0, <2>1, <3>1, DistanceFacts
    <3>2. CASE state[s] = "READY" /\ state'[s] = "READY"
      <4>1. bypass[s] + Distance(last_rr_slot, s) <= MaxThreads
        BY <3>2 DEF BypassInv, WaitBounded
      <4>2. StepKind
        BY <1>2, <2>0, NextKind DEF RRNext
      <4>3. ASSUME NEW n \in Slots, SwitchTo(n)
            PROVE  bypass'[s] + Distance(last_rr_slot', s) <= MaxThreads
        <5>1. n # s /\ last_rr_slot' = n
          BY <2>0, <3>2, <4>3 DEF SwitchTo
        <5>2. Distance(last_rr_slot, n) <= Distance(last_rr_slot, s)
          BY <3>2, <4>3 DEF SwitchTo, PickRR, ReadySlots
        <5>3. Distance(n, s) <= Distance(last_rr_slot, s) - 1
          BY <2>0, <5>1, <5>2, DistanceFacts
        <5>4. bypass'[s] <= bypass[s] + 1 /\ bypass'[s] \in Nat /\ bypass[s] \in Nat
          BY <2>0, <2>1, <2>2
        <5>5. Distance(n, s) \in Nat /\ Distance(last_rr_slot, s) \in Nat
          BY <2>0, DistanceFacts
        <5> QED
          BY <2>0, <4>1, <5>1, <5>3, <5>4, <5>5
      <4>4. CASE Stays
        <5>1. ~Switch
          BY <4>4 DEF Stays, Switch
        <5>2. bypass'[s] = bypass[s] /\ last_rr_slot' = last_rr_slot
          BY <2>1, <3>2, <4>4, <5>1 DEF Stays
        <5> QED
          BY <3>2, <4>1, <5>2
      <4>5. CASE Resets
        BY <3>2, <4>5 DEF Resets
      <4> QED
        BY <3>2, <4>2, <4>3, <4>4, <4>5 DEF StepKind
    <3> QED
      BY <3>1, <3>2
  <2>4. WaitBounded'
    BY <2>3 DEF WaitBounded, Distance
  <2> QED
    BY <2>0, <2>2, <2>4 DEF BypassInv
<1> QED
  BY <1>1, <1>2

LEMMA BypassInit == RRInit => BypassInv
<1> SUFFICES ASSUME RRInit
             PROVE  BypassInv
  OBVIOUS
<1>1. Init /\ bypass = Zeros
  BY DEF RRInit
<1>2. ContextInv
  BY <1>1, InitContexts
<1>3. bypass \in [Slots -> Nat] /\ WaitBounded
  BY <1>1 DEF Zeros, Init, NoThreads, WaitBounded
<1> QED
  BY <1>2, <1>3 DEF BypassInv

\* Under round robin a READY thread is passed over at most MaxThreads - 1 times
\* in a row, whatever the table size and whatever the program calls, nested
\* joins and shutdowns included (gth_scheduler_pick_ready_thread).
THEOREM RoundRobinBounded ==
  ASSUME Policy = "RR"
  PROVE  RRSpec => []BoundedBypass
<1>1. BypassInv => BoundedBypass
  <2> SUFFICES ASSUME BypassInv, NEW s \in Slots
               PROVE  bypass[s] < MaxThreads
    BY DEF BoundedBypass
  <2>1. /\ last_rr_slot \in Slots /\ MaxThreads \in Nat \ {0}
        /\ bypass[s] \in Nat
    BY RuntimeAssumption DEF BypassInv, ContextInv, TypeOK, RuntimeTypeOK
  <2>2. Distance(last_rr_slot, s) \in 1 .. MaxThreads
    BY <2>1, DistanceFacts
  <2> QED
    BY <2>1, <2>2 DEF BypassInv, WaitBounded
<1>2. BypassInv /\ [RRNext]_rrVars => BypassInv'
  BY BypassStep
<1> QED
  BY <1>1, <1>2, BypassInit, PTL DEF RRSpec
=============================================================================
