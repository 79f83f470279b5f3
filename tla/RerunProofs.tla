---------------------------- MODULE RerunProofs -----------------------------
(***************************************************************************)
(* Theorems about Rerun, for every number of slots, every length of a run, *)
(* every warm-up and every flat program.                                   *)
(***************************************************************************)
EXTENDS SameRunProofs, ThreadsProofs

\* The step of a call that does not run the scheduler is one of Threads.
LEMMA QuietIsStep ==
  ASSUME NEW call \in CallSet, Quiet(call)
  PROVE  Next
<1> DEFINE c == call.by
           t == call.arg
<1>1. c \in Contexts
  BY CallTypes
<1>2. \/ ThreadStep(c)
      \/ SyncStep(c)
      \/ c \in Slots /\ ThreadExit(c)
  <2>1. CASE call.op = "init" /\ RuntimeInit(c)
    BY <2>1, Zenon DEF ThreadStep
  <2>2. CASE call.op = "create" /\ ThreadCreate(c, t)
    <3>1. t \in Priorities
      BY <2>2, CallTypes, Zenon
    <3> QED
      BY <2>2, <3>1, Zenon DEF ThreadStep
  <2>3. CASE call.op = "yield" /\ ThreadYield(c)
    BY <2>3, Zenon DEF ThreadStep
  <2>4. CASE call.op = "exit" /\ c \in Slots /\ ThreadExit(c)
    BY <2>4, Zenon
  <2>5. CASE /\ call.op = "join" /\ Calls(c, "join") /\ t # current_tid
             /\ \E s \in Slots : FindThread(s, t) /\ state[s] \in Terminal /\ ReleaseSlot(c, s)
    <3>1. t \in Tids /\ t # 0
      BY <2>5, CallTypes, Zenon DEF Targeted
    <3>2. ThreadJoin(c, t)
      BY <2>5, <3>1, Zenon DEF ThreadJoin
    <3> QED
      BY <3>1, <3>2, Zenon DEF ThreadStep
  <2>6. CASE call.op = "loop" /\ JoinLoop(c)
    BY <2>6, Zenon DEF ThreadStep
  <2>7. CASE call.op = "cancel" /\ ThreadCancel(c, t)
    <3>1. t \in Tids
      BY <2>7, CallTypes, Zenon DEF Targeted
    <3> QED
      BY <2>7, <3>1, Zenon DEF ThreadStep
  <2>8. CASE call.op = "block" /\ SyncBlock(c, {})
    BY <2>8, Zenon DEF SyncStep
  <2>9. CASE call.op = "wake" /\ SyncWake(c, Found(t))
    <3>1. Found(t) \in SUBSET Slots
      BY Zenon DEF Found
    <3> QED
      BY <2>9, <3>1, Zenon DEF SyncStep
  <2> QED
    BY <2>1, <2>2, <2>3, <2>4, <2>5, <2>6, <2>7, <2>8, <2>9, Zenon DEF Quiet
<1> QED
  BY <1>1, <1>2, Zenon DEF Next

\* The OS thread runs the scheduler: a thread runs, or the call returns.
LEMMA RunNextFlat ==
  ASSUME FlatInv, CountersExact, cpu = Main, NEW f \in Frames, f.call # "none",
         f.previous_tid = current_tid, f.call = "join" => f.tid # current_tid,
         RunNext(f)
  PROVE  FlatInv' /\ CountersExact'
<1>1. PICK s \in Slots : PickReadyMode(s) /\ DispatchTo(Main, f, s)
  BY Zenon DEF RunNext
<1>2. state[s] = "READY" /\ last_rr_slot' \in Slots
  BY <1>1, PickedMode, Zenon
<1>3. ContextInv /\ TypeOK /\ Main \in Contexts
  BY ContextFacts, Zenon DEF FlatInv, ContextInv
<1>4. TypeOK'
  BY <1>1, <1>2, <1>3, DispatchToType, Zenon
<1>5. (TidsUnique /\ ContextsExact)'
  BY <1>1, <1>2, <1>3, DispatchToContexts, Zenon
<1>6. ContextInv'
  BY <1>4, <1>5, Zenon DEF ContextInv
<1>7. FlatInv'
  BY <1>1, <1>6, FlatDispatchTo, Zenon
<1>8. CountersExact'
  BY <1>1, <1>2, <1>3, DispatchToExact, Zenon
<1> QED
  BY <1>7, <1>8

LEMMA IdleFlat ==
  ASSUME FlatInv, CountersExact, cpu = Main, NEW st \in Statuses,
         Return(st) \/ JoinReturn(Main, st)
  PROVE  FlatInv' /\ CountersExact'
<1>1. ContextInv /\ TypeOK /\ Main \in Contexts /\ frame \in [Contexts -> Frames]
  BY ContextFacts, Zenon DEF FlatInv, ContextInv, TypeOK, RuntimeTypeOK
<1>2. /\ UNCHANGED <<initialized, next_tid, last_rr_slot, state, tid, priority, retval>>
      /\ UNCHANGED <<runnable_threads, blocked_threads, cpu, sched_ctx, current_tid>>
      /\ status' = st
      /\ frame' = frame \/ frame' = [frame EXCEPT ![Main] = NoFrame]
  BY Zenon DEF Return, JoinReturn, table, counters, control
<1>3. frame' \in [Contexts -> Frames]
  BY <1>1, <1>2, FrameTypes, Zenon
<1>4. TypeOK'
  BY <1>1, <1>2, <1>3, Zenon DEF TypeOK, RuntimeTypeOK
<1>5. next_tid' >= next_tid
  BY <1>1, <1>2 DEF TypeOK, RuntimeTypeOK
<1>6. (TidsUnique /\ ContextsExact)'
  <2>1. \/ frame' = frame
        \/ cpu \in Contexts /\ frame' = [frame EXCEPT ![cpu] = NoFrame]
    BY <1>1, <1>2, Zenon
  <2> QED
    BY <1>1, <1>2, <1>4, <1>5, <2>1, QuietContexts, Zenon
<1>7. FlatInv'
  <2>1. \A u \in Slots : frame'[u].call = "none"
    BY <1>1, <1>2, ContextFacts DEF FlatInv
  <2> QED
    BY <1>2, <1>4, <1>6, <2>1, FlatQuiet, Zenon DEF ContextInv
<1>8. CountersExact'
  BY <1>2, SameExact, Zenon
<1> QED
  BY <1>7, <1>8

\* The frame of a turn of join on the OS thread.
LEMMA TurnFrame ==
  ASSUME FlatInv, cpu = Main, NEW t \in Nat, t # 0, NEW s \in Slots
  PROVE  /\ JoinFrame(t, s) \in Frames
         /\ JoinFrame(t, s).call # "none"
         /\ JoinFrame(t, s).previous_tid = current_tid
         /\ JoinFrame(t, s).tid # current_tid
<1>1. current_tid = 0
  BY DEF FlatInv, ContextInv, ContextsExact, CpuIsCurrent
<1> QED
  BY <1>1, FrameTypes DEF JoinFrame

LEMMA TurnFlat ==
  ASSUME FlatInv, CountersExact, cpu = Main, NEW t \in Nat, t # 0, NEW s \in Slots,
         JoinTurn(t, s)
  PROVE  FlatInv' /\ CountersExact'
<1>1. CASE RunNext(JoinFrame(t, s))
  BY <1>1, TurnFrame, RunNextFlat, Zenon
<1>2. CASE JoinReturn(Main, "EBUSY")
  <2>1. "EBUSY" \in Statuses
    BY DEF Statuses
  <2> QED
    BY <1>2, <2>1, IdleFlat, Zenon
<1> QED
  BY <1>1, <1>2, Zenon DEF JoinTurn

\* Where join loops on the OS thread, its frame names its target.
LEMMA LoopFrame ==
  ASSUME FlatInv, cpu = Main, frame[Main].call = "join"
  PROVE  frame[Main].tid \in Nat /\ frame[Main].tid # 0 /\ frame[Main].slot \in Slots
<1>1. frame[Main] \in Frames
  BY ContextFacts, Zenon DEF FlatInv, ContextInv, TypeOK, RuntimeTypeOK
<1>2. frame[Main].tid # OwnTid(Main)
  BY ContextFacts, Zenon DEF FlatInv, ContextInv, ContextsExact
<1> QED
  BY <1>1, <1>2 DEF Frames, OwnTid

LEMMA ScheduleFlat ==
  ASSUME FlatInv, CountersExact, NEW call \in CallSet, Schedules(call)
  PROVE  FlatInv' /\ CountersExact'
<1>1. CASE call.op = "yield" /\ Yield
  <2>1. cpu = Main
    BY <1>1, Zenon DEF Yield, Calls, InUser
  <2>2. YieldFrame \in Frames /\ YieldFrame.call = "yield"
        /\ YieldFrame.previous_tid = current_tid
    BY FrameTypes DEF YieldFrame, FlatInv, ContextInv, TypeOK, RuntimeTypeOK
  <2>3. CASE RunNext(YieldFrame)
    <3> HIDE DEF YieldFrame
    <3> QED
      BY <2>1, <2>2, <2>3, RunNextFlat
  <2>4. CASE Return("ENOTFOUND")
    <3>1. "ENOTFOUND" \in Statuses
      BY DEF Statuses
    <3> QED
      BY <2>1, <2>4, <3>1, IdleFlat, Zenon
  <2> QED
    BY <1>1, <2>3, <2>4, Zenon DEF Yield
<1>2. ASSUME call.op = "join", Calls(Main, "join"),
             NEW s \in Slots, JoinTurn(call.arg, s)
      PROVE  FlatInv' /\ CountersExact'
  <2>1. call.arg \in Tids /\ call.arg # 0
    BY <1>2, CallTypes, Zenon DEF Targeted
  <2>2. call.arg \in Nat
    BY <2>1 DEF Tids
  <2> QED
    BY <1>2, <2>1, <2>2, TurnFlat, Zenon DEF Calls, InUser
<1>3. CASE /\ cpu = Main /\ frame[Main].call = "join"
           /\ JoinTurn(frame[Main].tid, frame[Main].slot)
  BY <1>3, LoopFrame, TurnFlat, Zenon
<1> QED
  BY <1>1, <1>2, <1>3, Zenon DEF Schedules

\* A program's step under any policy: everything but the choice is the same.
LEMMA OpenState ==
  /\ OpenChoice!Slots = Slots
  /\ OpenChoice!Contexts = Contexts
  /\ OpenChoice!Main = Main
  /\ OpenChoice!Terminal = Terminal
  /\ OpenChoice!Tids = Tids
  /\ OpenChoice!ReadySlots = ReadySlots
  /\ OpenChoice!YieldFrame = YieldFrame
  /\ \A t, s : OpenChoice!JoinFrame(t, s) = JoinFrame(t, s)
  /\ \A t : OpenChoice!Found(t) = Found(t)
  /\ \A s, t : OpenChoice!FindThread(s, t) <=> FindThread(s, t)
  /\ \A c : OpenChoice!InUser(c) <=> InUser(c)
  /\ \A c, a : OpenChoice!Allowed(c, a) <=> Allowed(c, a)
  /\ \A c, a : OpenChoice!Calls(c, a) <=> Calls(c, a)
BY Zenon DEF
  OpenChoice!Slots, Slots, OpenChoice!Contexts, Contexts, OpenChoice!Main, Main,
  OpenChoice!Terminal, Terminal, OpenChoice!Tids, Tids,
  OpenChoice!ReadySlots, ReadySlots, OpenChoice!YieldFrame, YieldFrame,
  OpenChoice!JoinFrame, JoinFrame, OpenChoice!Found, Found,
  OpenChoice!FindThread, FindThread, OpenChoice!InUser, InUser,
  OpenChoice!Allowed, Allowed, OpenChoice!Calls, Calls

LEMMA OpenReset ==
  /\ \A c : RuntimeInit(c) => OpenChoice!RuntimeInit(c)
  /\ \A c : RuntimeShutdown(c) => OpenChoice!RuntimeShutdown(c)
BY OpenState, Zenon DEF
  RuntimeInit, OpenChoice!RuntimeInit, RuntimeShutdown, OpenChoice!RuntimeShutdown,
  NoThreads, OpenChoice!NoThreads, Zeros, OpenChoice!Zeros,
  Dead, OpenChoice!Dead, Wild, OpenChoice!Wild, NoFrame, OpenChoice!NoFrame

LEMMA OpenSwap == SwapToScheduler => OpenChoice!SwapToScheduler
BY Zenon DEF SwapToScheduler, OpenChoice!SwapToScheduler, Dead, OpenChoice!Dead,
  Wild, OpenChoice!Wild, NoFrame, OpenChoice!NoFrame

LEMMA OpenReturns ==
  /\ \A st : Return(st) => OpenChoice!Return(st)
  /\ \A c, st : JoinReturn(c, st) => OpenChoice!JoinReturn(c, st)
BY Zenon DEF Return, OpenChoice!Return, JoinReturn, OpenChoice!JoinReturn,
  NoFrame, OpenChoice!NoFrame, table, OpenChoice!table, counters,
  OpenChoice!counters, control, OpenChoice!control

LEMMA OpenRelease ==
  \A c, s : ReleaseSlot(c, s) => OpenChoice!ReleaseSlot(c, s)
BY Zenon DEF ReleaseSlot, OpenChoice!ReleaseSlot, Lower, OpenChoice!Lower,
  NULL, OpenChoice!NULL, NoFrame, OpenChoice!NoFrame, Dead, OpenChoice!Dead

LEMMA OpenCreate ==
  \A c, p : ThreadCreate(c, p) => OpenChoice!ThreadCreate(c, p)
BY OpenState, Zenon DEF ThreadCreate, OpenChoice!ThreadCreate,
  AllocSlot, OpenChoice!AllocSlot, EmptySlots, OpenChoice!EmptySlots,
  NULL, OpenChoice!NULL, control, OpenChoice!control

LEMMA OpenYield ==
  \A c : ThreadYield(c) => OpenChoice!ThreadYield(c)
BY OpenState, OpenSwap, Zenon DEF ThreadYield, OpenChoice!ThreadYield

LEMMA OpenExit ==
  \A s : ThreadExit(s) => OpenChoice!ThreadExit(s)
BY OpenState, OpenSwap, Zenon DEF ThreadExit, OpenChoice!ThreadExit,
  NULL, OpenChoice!NULL, counters, OpenChoice!counters

LEMMA OpenCancel ==
  \A c, t : ThreadCancel(c, t) => OpenChoice!ThreadCancel(c, t)
BY OpenState, Zenon DEF ThreadCancel, OpenChoice!ThreadCancel, Lower,
  OpenChoice!Lower, NULL, OpenChoice!NULL, control, OpenChoice!control

LEMMA OpenSync ==
  /\ \A c, W : SyncBlock(c, W) => OpenChoice!SyncBlock(c, W)
  /\ \A c, W : SyncWake(c, W) => OpenChoice!SyncWake(c, W)
<1>1. ASSUME NEW W, Block(W) PROVE OpenChoice!Block(W)
  BY <1>1, OpenSwap, Zenon DEF Block, OpenChoice!Block, Lower, OpenChoice!Lower,
    Woken, OpenChoice!Woken, Slots, OpenChoice!Slots, FindThread,
    OpenChoice!FindThread, Found, OpenChoice!Found,
    Cardinality, OpenChoice!Cardinality
<1>2. ASSUME NEW W, Unblock(W) PROVE OpenChoice!Unblock(W)
  BY <1>2, Zenon DEF Unblock, OpenChoice!Unblock, Lower, OpenChoice!Lower,
    Woken, OpenChoice!Woken, Slots, OpenChoice!Slots, control, OpenChoice!control,
    Cardinality, OpenChoice!Cardinality
<1> QED
  BY <1>1, <1>2, OpenState, Zenon DEF SyncBlock, OpenChoice!SyncBlock, SyncWake,
    OpenChoice!SyncWake, Statuses, OpenChoice!Statuses

\* A switch into a READY thread is a choice left open.
LEMMA OpenDispatch ==
  ASSUME FlatInv, cpu = Main, NEW f, RunNext(f)
  PROVE  OpenChoice!Dispatch(Main, f)
<1>1. PICK s \in Slots : PickReadyMode(s) /\ DispatchTo(Main, f, s)
  BY Zenon DEF RunNext
<1>2. state[s] = "READY" /\ last_rr_slot' \in Slots
  BY <1>1, PickedMode, Zenon
<1>3. OpenChoice!PickReady(s)
  BY <1>2, OpenState, Zenon DEF OpenChoice!PickReady, ReadySlots
<1>4. OpenChoice!DispatchTo(Main, f, s)
  BY <1>1, Zenon DEF DispatchTo, OpenChoice!DispatchTo, Lower, OpenChoice!Lower
<1> QED
  BY <1>3, <1>4, OpenState, Zenon DEF OpenChoice!Dispatch

LEMMA OpenTurn ==
  ASSUME FlatInv, cpu = Main, NEW t, NEW s, JoinTurn(t, s)
  PROVE  OpenChoice!RunUntil(Main, t, s)
BY OpenDispatch, OpenState, OpenReturns, Zenon DEF JoinTurn, OpenChoice!RunUntil,
  OpenChoice!NobodyPicked

LEMMA OpenSchedules ==
  ASSUME FlatInv, NEW call \in CallSet, Schedules(call)
  PROVE  OpenChoice!ThreadStep(Main)
<1>1. CASE call.op = "yield" /\ Yield
  <2>1. cpu = Main /\ current_tid = 0
    BY <1>1, Zenon DEF Yield, Calls, InUser, FlatInv, ContextInv, ContextsExact,
      CpuIsCurrent
  <2>2. OpenChoice!MainYield(Main)
    BY <1>1, <2>1, OpenDispatch, OpenState, OpenReturns, Zenon DEF Yield,
      OpenChoice!MainYield, OpenChoice!NobodyPicked
  <2> QED
    BY <2>2, Zenon DEF OpenChoice!ThreadStep
<1>2. ASSUME call.op = "join", Calls(Main, "join"),
             NEW s \in Slots, FindThread(s, call.arg), state[s] \notin Terminal,
             JoinTurn(call.arg, s)
      PROVE  OpenChoice!ThreadStep(Main)
  <2>1. call.arg \in Tids /\ call.arg # 0
    BY <1>2, CallTypes, Zenon DEF Targeted
  <2>2. cpu = Main /\ current_tid = 0
    BY <1>2, Zenon DEF Calls, InUser, FlatInv, ContextInv, ContextsExact,
      CpuIsCurrent
  <2>3. OpenChoice!ThreadJoin(Main, call.arg)
    BY <1>2, <2>1, <2>2, OpenTurn, OpenState, Zenon DEF OpenChoice!ThreadJoin
  <2> QED
    BY <2>1, <2>3, OpenState, Zenon DEF OpenChoice!ThreadStep
<1>3. CASE /\ cpu = Main /\ frame[Main].call = "join"
           /\ state[frame[Main].slot] \notin Terminal
           /\ JoinTurn(frame[Main].tid, frame[Main].slot)
  <2>1. OpenChoice!JoinLoop(Main)
    BY <1>3, OpenTurn, OpenState, Zenon DEF OpenChoice!JoinLoop
  <2> QED
    BY <2>1, Zenon DEF OpenChoice!ThreadStep
<1> QED
  BY <1>1, <1>2, <1>3, Zenon DEF Schedules

LEMMA OpenQuiet ==
  ASSUME NEW call \in CallSet, Quiet(call)
  PROVE  OpenChoice!Next
<1> DEFINE c == call.by
           t == call.arg
<1>1. c \in OpenChoice!Contexts
  BY CallTypes, OpenState, Zenon
<1>2. \/ OpenChoice!ThreadStep(c)
      \/ OpenChoice!SyncStep(c)
      \/ c \in OpenChoice!Slots /\ OpenChoice!ThreadExit(c)
  <2>1. CASE call.op = "init" /\ RuntimeInit(c)
    BY <2>1, OpenReset, Zenon DEF OpenChoice!ThreadStep
  <2>2. CASE call.op = "create" /\ ThreadCreate(c, t)
    <3>1. t \in Priorities
      BY <2>2, CallTypes, Zenon
    <3> QED
      BY <2>2, <3>1, OpenCreate, Zenon DEF OpenChoice!ThreadStep
  <2>3. CASE call.op = "yield" /\ ThreadYield(c)
    BY <2>3, OpenYield, Zenon DEF OpenChoice!ThreadStep
  <2>4. CASE call.op = "exit" /\ c \in Slots /\ ThreadExit(c)
    BY <2>4, OpenExit, OpenState, Zenon
  <2>5. CASE /\ call.op = "join" /\ Calls(c, "join") /\ t # current_tid
             /\ \E s \in Slots : FindThread(s, t) /\ state[s] \in Terminal /\ ReleaseSlot(c, s)
    <3>1. t \in Tids /\ t # 0
      BY <2>5, CallTypes, Zenon DEF Targeted
    <3>2. OpenChoice!ThreadJoin(c, t)
      BY <2>5, <3>1, OpenRelease, OpenState, Zenon DEF OpenChoice!ThreadJoin
    <3> QED
      BY <3>1, <3>2, OpenState, Zenon DEF OpenChoice!ThreadStep
  <2>6. CASE call.op = "loop" /\ JoinLoop(c) /\ state[frame[c].slot] \in Terminal
    <3>1. OpenChoice!JoinLoop(c)
      BY <2>6, OpenRelease, OpenReturns, OpenState, Zenon DEF JoinLoop,
        OpenChoice!JoinLoop
    <3> QED
      BY <3>1, Zenon DEF OpenChoice!ThreadStep
  <2>7. CASE call.op = "cancel" /\ ThreadCancel(c, t)
    <3>1. t \in Tids
      BY <2>7, CallTypes, Zenon DEF Targeted
    <3> QED
      BY <2>7, <3>1, OpenCancel, OpenState, Zenon DEF OpenChoice!ThreadStep
  <2>8. CASE call.op = "block" /\ SyncBlock(c, {})
    BY <2>8, OpenSync, Zenon DEF OpenChoice!SyncStep
  <2>9. CASE call.op = "wake" /\ SyncWake(c, Found(t))
    <3>1. Found(t) \in SUBSET OpenChoice!Slots
      BY OpenState, Zenon DEF Found
    <3> QED
      BY <2>9, <3>1, OpenSync, Zenon DEF OpenChoice!SyncStep
  <2> QED
    BY <2>1, <2>2, <2>3, <2>4, <2>5, <2>6, <2>7, <2>8, <2>9, Zenon DEF Quiet
<1> QED
  BY <1>1, <1>2, Zenon DEF OpenChoice!Next

----------------------------------------------------------------------------
(* In every mode, the runtime keeps what Threads keeps.                    *)

\* A step of Rerun is one of Threads with the choice left open, and keeps the
\* invariant.
LEMMA RerunStep ==
  ASSUME FlatProgram, RerunInv, [RerunNext]_rerunVars
  PROVE  RerunInv' /\ [OpenChoice!Next]_(OpenChoice!runtimeVars)
<1>1. ContextInv
  BY Zenon DEF RerunInv, FlatInv
<1>2. ASSUME UNCHANGED runtimeVars
      PROVE  RerunInv' /\ UNCHANGED OpenChoice!runtimeVars
  <2>1. FlatInv' /\ CountersExact'
    BY <1>1, <1>2, FlatStep, StepExact, Zenon DEF RerunInv
  <2>2. UNCHANGED OpenChoice!runtimeVars
    BY <1>2, Zenon DEF runtimeVars, OpenChoice!runtimeVars, table, OpenChoice!table,
      counters, OpenChoice!counters, control, OpenChoice!control
  <2> QED
    BY <2>1, <2>2, Zenon DEF RerunInv
<1>3. ASSUME NEW call \in CallSet, Schedules(call)
      PROVE  RerunInv' /\ OpenChoice!Next
  <2>1. RerunInv'
    BY <1>3, ScheduleFlat, Zenon DEF RerunInv
  <2>2. OpenChoice!ThreadStep(Main)
    BY <1>3, OpenSchedules, Zenon DEF RerunInv
  <2> QED
    BY <2>1, <2>2, OpenState, ContextFacts, Zenon DEF OpenChoice!Next
<1>4. ASSUME NEW call \in CallSet, Quiet(call)
      PROVE  RerunInv' /\ OpenChoice!Next
  <2>1. Next
    BY <1>4, QuietIsStep, Zenon
  <2>2. FlatInv' /\ CountersExact'
    BY <1>1, <2>1, FlatStep, StepExact, Zenon DEF RerunInv
  <2> QED
    BY <1>4, <2>2, OpenQuiet, Zenon DEF RerunInv
<1>5. CASE RuntimeShutdown(Main)
  <2>1. Next
    BY <1>5, ContextFacts, Zenon DEF Next
  <2>2. FlatInv' /\ CountersExact'
    BY <1>1, <2>1, FlatStep, StepExact, Zenon DEF RerunInv
  <2>3. OpenChoice!Next
    BY <1>5, OpenReset, OpenState, ContextFacts, Zenon DEF OpenChoice!Next
  <2> QED
    BY <2>2, <2>3, Zenon DEF RerunInv
<1>6. \/ \E call \in CallSet : Schedules(call) \/ Quiet(call)
      \/ RuntimeShutdown(Main)
      \/ UNCHANGED runtimeVars
  BY Zenon DEF RerunNext, Makes, Begin, Restart, Stop, rerunVars
<1> QED
  BY <1>2, <1>3, <1>4, <1>5, <1>6, Zenon

LEMMA RerunStarts == RerunInit => RerunInv /\ OpenChoice!Init
<1>1. Init => CountersExact
  BY FS_EmptySet DEF Init, NoThreads, CountersExact, SnapshotRunnable,
      SnapshotBlocked, ReadySlots, BlockedSlots
<1>2. Init => OpenChoice!Init
  BY OpenState, Zenon DEF Init, OpenChoice!Init, NoThreads, OpenChoice!NoThreads,
    Zeros, OpenChoice!Zeros, Dead, OpenChoice!Dead, NoFrame, OpenChoice!NoFrame
<1> QED
  BY <1>1, <1>2, FlatInit, Zenon DEF RerunInit, RerunInv

\* Whatever the mode, the policy, the dice and the trace, and whichever program
\* replays it: a recorded, replayed or fuzzed run of a flat program is a run of
\* Threads with the scheduler's choice left open (pick_ready_thread_mode).
THEOREM RerunImplementsThreads ==
  ASSUME FlatProgram
  PROVE  RerunSpec => ImplementsThreads
<1>1. RerunInit => RerunInv /\ OpenChoice!Init
  BY RerunStarts
<1>2. RerunInv /\ [RerunNext]_rerunVars => RerunInv' /\ [OpenChoice!Next]_(OpenChoice!runtimeVars)
  BY RerunStep
<1> QED
  BY <1>1, <1>2, PTL DEF RerunSpec, ImplementsThreads, OpenChoice!Spec

\* In every mode: no green thread swaps back to a scheduler that is gone, no
\* thread but the one that executes is RUNNING, tids are unique and the counters
\* are what counting the table gives.
THEOREM RerunKeepsThreads ==
  ASSUME FlatProgram
  PROVE  RerunSpec => [](SchedulerAlive /\ RunningIsOnCpu /\ TidsUnique
                         /\ ContextsExact /\ CountersExact)
<1>1. RerunInit => RerunInv
  BY RerunStarts
<1>2. RerunInv /\ [RerunNext]_rerunVars => RerunInv'
  BY RerunStep
<1>3. RerunInv => SchedulerAlive /\ RunningIsOnCpu /\ TidsUnique /\ ContextsExact
                  /\ CountersExact
  <2>1. FlatInv => SchedulerAlive
    BY ContextFacts DEF FlatInv, SchedulerAlive
  <2> QED
    BY <2>1, Zenon DEF RerunInv, FlatInv, ContextInv
<1> QED
  BY <1>1, <1>2, <1>3, PTL DEF RerunSpec

----------------------------------------------------------------------------
(* The second run repeats the first.                                       *)

\* When nobody is READY, replay consumes no switch.
LEMMA IdleConsumes ==
  ASSUME trace \in Seq(Events), current_idx \in Nat, NEW l \in Nat, ReplayNobody,
         NEW k \in 1 .. Len(trace), trace[k].type = "SWITCH",
         k <= current_idx <=> k <= l
  PROVE  (k <= current_idx' <=> k <= l) /\ current_idx' \in Nat
<1>1. Len(trace) \in Nat /\ k \in Nat
  OBVIOUS
<1>2. CASE /\ \A i \in current_idx + 1 .. Len(trace) : trace[i].type # "SWITCH"
           /\ current_idx' = Len(trace)
  <2>1. k \notin current_idx + 1 .. Len(trace)
    BY <1>2, Zenon
  <2> QED
    BY <1>1, <1>2, <2>1
<1>3. CASE \E i \in DOMAIN trace : NextSwitch(i) /\ current_idx' = i - 1
  <2>1. PICK i \in DOMAIN trace : NextSwitch(i) /\ current_idx' = i - 1
    BY <1>3, Zenon
  <2>2. /\ i \in current_idx + 1 .. Len(trace)
        /\ \A j \in current_idx + 1 .. i - 1 : trace[j].type # "SWITCH"
    BY <2>1, Zenon DEF NextSwitch
  <2>3. k \notin current_idx + 1 .. i - 1
    BY <2>2, Zenon
  <2> QED
    BY <1>1, <2>1, <2>2, <2>3
<1> QED
  BY <1>2, <1>3, Zenon DEF ReplayNobody

LEMMA IdleStays ==
  ASSUME trace \in Seq(Events), current_idx \in Nat, ReplayNobody
  PROVE  current_idx' \in Nat /\ diverged' \in {diverged, TRUE}
<1>1. Len(trace) \in Nat /\ \A i \in DOMAIN trace : i - 1 \in Nat
  OBVIOUS
<1> QED
  BY <1>1, Zenon DEF ReplayNobody

\* The first run had nobody to run here, and so has the second.
LEMMA RetraceIdle ==
  ASSUME SameInv, run = 2, done < Len(hist), NEW call \in CallSet, Schedules(call),
         hist[done + 1].call = call, WasIdle(At(done), hist[done + 1])
  PROVE  Reaches(hist[done + 1])
<1> DEFINE x == At(done)
           y == hist[done + 1]
<1>1. /\ FlatInv /\ CoreOf(x.view) = Core /\ (log = <<>> <=> x.logged = 0)
      /\ mode = IF log = <<>> THEN "NORMAL" ELSE pair[2]
      /\ mode # "REPLAY" => last_rr_slot = x.rr
      /\ pair[2] # "REPLAY" => decision_count = x.decisions
      /\ x.logged \in Nat /\ log \in Seq(Events) /\ trace \in Seq(Events)
      /\ current_idx \in Nat /\ decision_count \in Nat
      /\ diverged => IdleSchedule
      /\ pair[2] = "REPLAY" =>
           \A i \in 1 .. Len(trace) : trace[i].type = "SWITCH" =>
             (i <= current_idx <=> i <= x.logged)
  BY Retracing, Zenon
<1>2. /\ ReadySlots = {}
      /\ y.view = IdleAfter(Core, call)
      /\ y.rr = x.rr /\ y.logged = x.logged /\ y.decisions = x.decisions
  BY <1>1, CoreSlots, Zenon DEF WasIdle
<1>3. /\ NobodyPickedMode
      /\ View' = IdleAfter(Core, call)
      /\ last_rr_slot' = last_rr_slot
      /\ Emit(<<>>)
  <2>1. ASSUME NEW s \in Slots, PickReadyMode(s) PROVE FALSE
    <3>1. state[s] = "READY"
      BY <1>1, <2>1, ScheduleDoes, PickedMode, Zenon
    <3> QED
      BY <1>2, <3>1, Zenon DEF ReadySlots
  <2> QED
    BY <1>1, <2>1, ScheduleDoes, Zenon
<1>4. log' = log
  BY <1>1, <1>3 DEF Emit
<1>5. UNCHANGED <<pair, run, mode, trace, dice, decision_count>>
  BY <1>3, Zenon DEF NobodyPickedMode, Schedules, modeVars, fuzzVars, replayVars
<1>6. IdleSchedule
  <2>1. y.view[6] \in {"ENOTFOUND", "EBUSY"}
    BY <1>2 DEF IdleAfter, ReturnAfter
  <2>2. done + 1 \in DOMAIN hist
    BY DEF SameInv, HistoryTypes
  <2> QED
    BY <2>1, <2>2, Zenon DEF IdleSchedule
<1>7. diverged \in BOOLEAN
  BY Zenon DEF SameInv, HistoryTypes
<1>8. \/ ReplayNobody
      \/ UNCHANGED <<current_idx, diverged>>
  BY <1>3, Zenon DEF NobodyPickedMode, replayVars
<1>9. current_idx' \in Nat /\ diverged' \in BOOLEAN
  BY <1>1, <1>7, <1>8, IdleStays, Zenon
<1>10. ASSUME pair[2] = "REPLAY", NEW i \in 1 .. Len(trace), trace[i].type = "SWITCH"
       PROVE  i <= current_idx' <=> i <= y.logged
  <2>1. i <= current_idx <=> i <= x.logged
    BY <1>1, <1>10, Zenon
  <2> HIDE DEF x, y
  <2> QED
    BY <1>1, <1>2, <1>8, <1>10, <2>1, IdleConsumes, Zenon
<1> HIDE DEF x, y
<1>11. Reaches(y)
  BY <1>1, <1>2, <1>3, <1>4, <1>5, <1>6, <1>9, <1>10, Zenon DEF Reaches
<1> QED
  BY <1>11 DEF y

\* The first run switched here, and the second switches to the same thread.
LEMMA RetraceSwitch ==
  ASSUME TidsFit, Policy # "ANY", SameInv, run = 2, done < Len(hist),
         NEW call \in CallSet, Schedules(call), hist[done + 1].call = call,
         NEW n \in Slots, NEW s \in Slots,
         Switched(At(done), hist[done + 1], n, s, trace, dice, pair[1])
  PROVE  Reaches(hist[done + 1])
<1> DEFINE x == At(done)
           y == hist[done + 1]
<1>1. /\ FlatInv /\ CoreOf(x.view) = Core /\ (log = <<>> <=> x.logged = 0)
      /\ mode = IF log = <<>> THEN "NORMAL" ELSE pair[2]
      /\ x.logged \in Nat /\ y.logged \in Nat
      /\ log \in Seq(Events) /\ trace \in Seq(Events)
      /\ diverged => IdleSchedule
  BY Retracing, Zenon
<1>2. /\ y.view = SwitchAfter(Core, call, s)
      /\ PickIn(Core, x.rr, n)
      /\ s = n \/ \E i \in Int : AlternativeIn(Core, n, i, s)
  <2>1. s = n \/ Rolled(x, y, n, s, dice)
    BY Zenon DEF Switched
  <2>2. ASSUME Rolled(x, y, n, s, dice)
        PROVE  s = n \/ \E i \in Int : AlternativeIn(Core, n, i, s)
    <3>1. s = n \/ AlternativeIn(Core, n, dice[y.decisions].roll, s)
      BY <1>1, <2>2, Zenon DEF Rolled
    <3>2. y.decisions \in DOMAIN dice /\ dice \in Seq(Dice)
      <4>1. y.decisions = x.decisions + 1
        BY <2>2, Zenon DEF Rolled
      <4>2. /\ x.decisions \in Nat /\ y.decisions \in Nat /\ y.decisions <= Len(dice)
            /\ dice \in Seq(Dice)
        BY Retracing, Zenon
      <4> HIDE DEF x, y
      <4> QED
        BY <4>1, <4>2
    <3>3. dice[y.decisions] \in Dice
      <4> HIDE DEF y
      <4> QED
        BY <3>2
    <3>4. dice[y.decisions].roll \in Int
      BY <3>3 DEF Dice
    <3> QED
      BY <3>1, <3>4, Zenon
  <2> QED
    BY <1>1, <2>1, <2>2, Zenon DEF Switched
<1>3. n \in ReadySlots /\ s \in ReadySlots /\ state[s] = "READY"
  <2>1. n \in ReadySlots
    BY <1>2, CoreSlots, Zenon DEF PickIn
  <2>2. s \in ReadySlots
    BY <1>2, <2>1, CoreSlots, Zenon DEF AlternativeIn
  <2> QED
    BY <2>1, <2>2, Zenon DEF ReadySlots
<1>4. ~NobodyPickedMode
  <2>1. mode = "REPLAY" => ~ReplayNobody
    BY <1>3, SameReplay, Zenon
  <2> QED
    BY <1>3, <2>1, Zenon DEF NobodyPickedMode
<1>5. PICK u \in Slots : /\ PickReadyMode(u)
                         /\ View' = SwitchAfter(Core, call, u)
                         /\ Emit(<<Event("SWITCH", tid[u])>>)
  BY <1>1, <1>4, ScheduleDoes, Zenon
<1>6. /\ u = s
      /\ mode # "REPLAY" => last_rr_slot' = y.rr
      /\ pair[2] # "REPLAY" => decision_count' = y.decisions
      /\ current_idx' \in Nat /\ decision_count' \in Nat
      /\ UNCHANGED <<diverged, dice>>
      /\ pair[2] = "REPLAY" =>
           \A i \in 1 .. Len(trace) : trace[i].type = "SWITCH" =>
             (i <= current_idx' <=> i <= y.logged)
  BY <1>3, <1>5, SameChoice, Zenon
<1>7. UNCHANGED <<pair, run, mode, trace>>
  BY <1>5, Zenon DEF Schedules, modeVars
<1>8. log' \in Seq(Events) /\ (log' = <<>> <=> log = <<>>)
  <2>1. Event("SWITCH", tid[u]) \in Events
    <3>1. tid[u] \in Nat
      BY <1>1, Zenon DEF FlatInv, ContextInv, TypeOK, RuntimeTypeOK
    <3> QED
      BY <3>1, EventFacts DEF EventTypes
  <2>2. <<Event("SWITCH", tid[u])>> \in Seq(Events)
    BY <2>1
  <2> QED
    BY <1>1, <1>5, <2>2, LogGrows, Zenon
<1>9. log' = <<>> <=> y.logged = 0
  <2>1. /\ x.logged = 0 => y.logged = 0
        /\ x.logged # 0 => y.logged = x.logged + 1
    BY Zenon DEF Switched
  <2> HIDE DEF x, y
  <2>2. y.logged = 0 <=> x.logged = 0
    BY <1>1, <2>1
  <2> QED
    BY <1>1, <1>8, <2>2, Zenon
<1>10. diverged \in BOOLEAN
  BY Zenon DEF SameInv, HistoryTypes
<1> HIDE DEF x, y
<1>11. Reaches(y)
  BY <1>1, <1>2, <1>5, <1>6, <1>7, <1>8, <1>9, <1>10, Zenon DEF Reaches
<1> QED
  BY <1>11 DEF y

LEMMA RetraceMakes ==
  ASSUME SameProgram, TidsFit, Policy # "ANY", SameInv, run = 2,
         NEW call \in CallSet, Makes(call)
  PROVE  done < Len(hist) /\ Reaches(hist[done + 1])
<1>1. run # 1
  OBVIOUS
<1>2. done < Len(hist) /\ hist[done + 1].call = call
  BY <1>1, Zenon DEF Makes
<1> DEFINE x == At(done)
           y == hist[done + 1]
<1>3. Follows(x, y, trace, dice, pair[1]) /\ FlatInv /\ CoreOf(x.view) = Core
  BY <1>2, Retracing, Zenon
<1>4. ASSUME Schedules(call) PROVE Reaches(y)
  <2>1. call.op # "begin" /\ Scheduling(Core, call)
    BY <1>3, <1>4, ScheduleDoes, Zenon
  <2>2. \/ WasIdle(x, y)
        \/ \E n \in Slots, s \in Slots : Switched(x, y, n, s, trace, dice, pair[1])
    BY <1>2, <1>3, <2>1, Zenon DEF Follows
  <2>3. CASE WasIdle(x, y)
    BY <1>2, <1>4, <2>3, RetraceIdle, Zenon
  <2>4. ASSUME NEW n \in Slots, NEW s \in Slots,
               Switched(x, y, n, s, trace, dice, pair[1])
        PROVE  Reaches(y)
    BY <1>2, <1>4, <2>4, RetraceSwitch, Zenon
  <2> QED
    BY <2>2, <2>3, <2>4, Zenon
<1>5. ASSUME Quiet(call) PROVE Reaches(y)
  BY <1>2, <1>5, RetraceQuiet, Zenon
<1>6. ASSUME call.op = "begin", Begin PROVE Reaches(y)
  BY <1>2, <1>6, RetraceBegin, Zenon
<1> QED
  BY <1>2, <1>4, <1>5, <1>6, Zenon DEF Makes

LEMMA RetraceStep ==
  ASSUME SameProgram, TidsFit, Policy # "ANY", SameInv, RerunInv', run = 2,
         NEW call \in CallSet, Makes(call)
  PROVE  SameInv'
<1> DEFINE y == hist[done + 1]
<1>1. run # 1
  OBVIOUS
<1>2. hist' = hist /\ done' = done + 1
  BY <1>1, Zenon DEF Makes
<1>3. done < Len(hist) /\ Reaches(y)
  BY RetraceMakes, Zenon
<1>4. RerunInv'
  OBVIOUS
<1>5. /\ hist \in Seq(Entries) /\ done \in 0 .. Len(hist)
      /\ trace \in Seq(Events) /\ dice \in Seq(Dice) /\ pair \in Pairs
      /\ Recorded # <<>> => Recorded[1] = INIT
  BY Zenon DEF SameInv, HistoryTypes, INIT, Event
<1>6. UNCHANGED <<pair, run, trace, dice>> /\ run' = 2
  BY <1>3, Zenon DEF Reaches
<1>7. Recorded' = Recorded /\ Where' = done + 1 /\ At(Where)' = y /\ At(done)' = y
      /\ Where' > 0 /\ done' \in 0 .. Len(hist')
  <2>1. run' # 1 /\ done + 1 # 0 /\ done + 1 > 0 /\ done + 1 \in 0 .. Len(hist)
    BY <1>3, <1>5, <1>6
  <2> QED
    BY <1>1, <1>2, <1>6, <2>1, Zenon DEF Recorded, Where, At
<1>8. HistoryTypes'
  <2>1. 2 \in {1, 2}
    OBVIOUS
  <2> QED
    BY <1>2, <1>3, <1>5, <1>6, <1>7, <2>1, Zenon DEF Reaches, HistoryTypes, INIT, Event
<1>9. History'
  <2>1. \A i : At(i)' = At(i)
    BY <1>2, Zenon DEF At
  <2> QED
    BY <1>2, <1>6, <1>7, <2>1, Zenon DEF SameInv, History
<1>10. InStep'
  <2>1. Core' = CoreOf(y.view)
    <3>1. (CoreOf(View) = Core)'
      BY ViewParts, PTL
    <3> QED
      BY <1>3, <3>1, Zenon DEF Reaches
  <2> QED
    BY <1>3, <1>6, <1>7, <2>1, Zenon DEF InStep, Reaches
<1>11. Consumed'
  <2>1. run' # 1
    BY <1>6
  <2>2. IdleSchedule' = IdleSchedule
    BY <1>2, Zenon DEF IdleSchedule
  <2> QED
    BY <1>3, <1>6, <1>7, <2>1, <2>2, Zenon DEF Consumed, NoFalseDivergence, Reaches
<1>12. TidBound'
  BY BoundStep, Zenon DEF SameInv, RerunInv
<1> QED
  BY <1>4, <1>6, <1>8, <1>9, <1>10, <1>11, <1>12, Zenon DEF SameInv

LEMMA SameStutter ==
  ASSUME SameInv, RerunInv', UNCHANGED rerunVars
  PROVE  SameInv'
<1>1. /\ UNCHANGED <<pair, run, mode, trace, current_idx, diverged, dice, decision_count,
                     log, hist, done>>
      /\ UNCHANGED <<initialized, next_tid, table, counters, control, status, last_rr_slot>>
  BY Zenon DEF rerunVars, modeVars, replayVars, fuzzVars, runtimeVars
<1>2. RerunInv'
  OBVIOUS
<1>3. /\ \A i : At(i)' = At(i)
      /\ Recorded' = Recorded /\ Where' = Where /\ Core' = Core /\ View' = View
      /\ IdleSchedule' = IdleSchedule
  BY <1>1, Zenon DEF At, Recorded, Where, Core, View, IdleSchedule
<1>4. HistoryTypes' /\ History'
  BY <1>1, <1>3, Zenon DEF SameInv, HistoryTypes, History, INIT, Event
<1>5. InStep' /\ Consumed'
  BY <1>1, <1>3, Zenon DEF SameInv, InStep, Consumed, NoFalseDivergence
<1>6. (run = 2 \/ Recording)' /\ TidBound'
  BY <1>1, <1>3, Zenon DEF SameInv, Recording, TidBound
<1> QED
  BY <1>2, <1>4, <1>5, <1>6, Zenon DEF SameInv

LEMMA SameStep ==
  ASSUME SameProgram, TidsFit, Policy # "ANY", SameInv, RerunInv',
         [RerunNext]_rerunVars
  PROVE  SameInv'
<1>1. run = 1 \/ run = 2
  BY Zenon DEF SameInv, HistoryTypes
<1>2. ASSUME NEW call \in CallSet, Makes(call) PROVE SameInv'
  BY <1>1, <1>2, RecordStep, RetraceStep, Zenon
<1> QED
  BY <1>2, RestartStep, SameStutter, Zenon DEF RerunNext, Stop

LEMMA SameStarts ==
  ASSUME RerunInit, RerunInv
  PROVE  SameInv
<1>1. RerunInv /\ Init
  BY Zenon DEF RerunInit
<1>2. /\ pair \in Pairs /\ run = 1 /\ mode = "NORMAL" /\ log = <<>> /\ trace = <<>>
      /\ current_idx = 0 /\ diverged = FALSE /\ dice = <<>> /\ decision_count = 0
      /\ hist = <<>> /\ done = 0
  BY Zenon DEF RerunInit
<1>3. HistoryTypes
  <2>1. /\ <<>> \in Seq(Events) /\ <<>> \in Seq(Dice) /\ <<>> \in Seq(Entries)
        /\ 0 \in Nat /\ 0 \in 0 .. Len(<<>>) /\ 1 \in {1, 2}
    OBVIOUS
  <2> QED
    BY <1>2, <2>1, Zenon DEF HistoryTypes, Recorded
<1>4. History
  BY <1>2 DEF History
<1>5. At(Where) = Start /\ At(Len(hist)) = Start /\ Where = 0
  BY <1>2 DEF At, Where
<1>6. Start.logged = 0 /\ Start.rr = 0 /\ Start.decisions = 0 /\ ~(0 > 0)
  BY DEF Start
<1>7. InStep
  <2>1. CoreOf(Start.view) =
          <<FALSE, 0, <<NoThreads, Zeros, Zeros, Zeros>>, <<0, 0>>,
            <<Main, Dead, [c \in Contexts |-> NoFrame], 0>>>>
    BY DEF CoreOf, Start
  <2>2. Core = CoreOf(Start.view) /\ last_rr_slot = 0
    BY <1>1, <2>1, Zenon DEF Init, Core, table, counters, control
  <2> QED
    BY <1>2, <1>5, <1>6, <2>2, Zenon DEF InStep
<1>8. Consumed /\ Recording
  <2>1. Len(log) = 0 /\ Len(dice) = 0
    BY <1>2
  <2> QED
    BY <1>2, <1>5, <1>6, <2>1, Zenon DEF Consumed, Recording
<1>9. TidBound
  BY <1>1, RuntimeAssumption DEF Init, TidBound
<1> QED
  BY <1>1, <1>3, <1>4, <1>7, <1>8, <1>9, Zenon DEF SameInv

\* The second run of the same flat program goes through the states of the
\* first, call by call, however long the run, wherever the mode was set and
\* whatever the dice: replay by the trace alone, the fuzzer by the same draws
\* (gth_replay_next_thread, gth_fuzz_pick_thread).
THEOREM SecondRunSame ==
  ASSUME FlatProgram, SameProgram, TidsFit, Policy # "ANY"
  PROVE  RerunSpec => []SameRun
<1>1. RerunInit => SameInv
  BY RerunStarts, SameStarts, Zenon
<1>2. SameInv /\ [RerunNext]_rerunVars => SameInv'
  BY RerunStep, SameStep, Zenon DEF SameInv
<1>3. SameInv => SameRun
  <2> SUFFICES ASSUME SameInv, run = 2, done > 0 PROVE View = hist[done].view
    BY Zenon DEF SameRun
  <2>1. run # 1 /\ done # 0
    BY DEF SameInv, HistoryTypes
  <2>2. Where = done /\ At(done) = hist[done]
    BY <2>1, Zenon DEF Where, At
  <2> QED
    BY <2>2, Zenon DEF SameInv, InStep
<1> QED
  BY <1>1, <1>2, <1>3, PTL DEF RerunSpec

\* Such a run is never marked as diverged, unless the OS thread ran the
\* scheduler with nobody READY (gth_replay_next_thread).
THEOREM NeverFalselyDiverged ==
  ASSUME FlatProgram, SameProgram, TidsFit, Policy # "ANY"
  PROVE  RerunSpec => []NoFalseDivergence
<1>1. RerunInit => SameInv
  BY RerunStarts, SameStarts, Zenon
<1>2. SameInv /\ [RerunNext]_rerunVars => SameInv'
  BY RerunStep, SameStep, Zenon DEF SameInv
<1>3. SameInv => NoFalseDivergence
  BY Zenon DEF SameInv, Consumed, NoFalseDivergence
<1> QED
  BY <1>1, <1>2, <1>3, PTL DEF RerunSpec
=============================================================================
