--------------------------- MODULE SameRunProofs ----------------------------
(***************************************************************************)
(* The second run of Rerun repeats the first: what a call does as a        *)
(* function of the state it finds, the invariant that says so, that the    *)
(* first run and the restart keep it, and that every mode chooses again    *)
(* whom it chose.  The runtime's own invariant RerunInv is taken as given  *)
(* before and after a step; RerunProofs proves it, and concludes.          *)
(***************************************************************************)
EXTENDS Rerun, TLAPS, FiniteSetTheorems

\* The invariant of Threads for flat programs.
RerunInv == FlatInv /\ CountersExact

\* Slots are natural numbers, and finitely many.
LEMMA SlotFacts ==
  /\ Slots \subseteq Nat /\ 0 \in Slots
  /\ Main \notin Slots /\ Main \in Contexts /\ Slots \subseteq Contexts
  /\ \A W \in SUBSET Slots : IsFiniteSet(W) /\ Cardinality(W) \in Nat
<1>1. MaxThreads \in Nat \ {0}
  BY RuntimeAssumption
<1>2. IsFiniteSet(Slots)
  BY <1>1, FS_Interval DEF Slots
<1>3. \A W \in SUBSET Slots : IsFiniteSet(W) /\ Cardinality(W) \in Nat
  BY <1>2, FS_Subset, FS_CardinalityType
<1> QED
  BY <1>1, <1>3 DEF Slots, Main, Contexts

\* A set of slots has more members than a part of it.
LEMMA PartSmaller ==
  ASSUME NEW A \in SUBSET Slots, NEW B \in SUBSET A, B # A
  PROVE  Cardinality(B) < Cardinality(A)
<1>1. /\ IsFiniteSet(A) /\ Cardinality(A) \in Nat
      /\ B \in SUBSET Slots /\ Cardinality(B) \in Nat
  BY SlotFacts
<1>2. Cardinality(B) <= Cardinality(A) /\ Cardinality(B) # Cardinality(A)
  BY <1>1, FS_Subset
<1> QED
  BY <1>1, <1>2

LEMMA CallTypes ==
  ASSUME NEW call \in CallSet
  PROVE  /\ call.by \in Contexts
         /\ call.op = "create" => call.arg \in Priorities
         /\ call.op \in Targeted => call.arg \in Tids /\ call.arg # 0
BY SlotFacts DEF CallSet, Targeted

\* Whom any mode picks is READY.
LEMMA PickedMode ==
  ASSUME FlatInv, cpu = Main, NEW s \in Slots, PickReadyMode(s)
  PROVE  state[s] = "READY" /\ last_rr_slot' \in Slots
<1>1. TypeOK /\ last_rr_slot \in Slots
  BY DEF FlatInv, ContextInv, TypeOK, RuntimeTypeOK
<1>2. \A n \in Slots : PickReady(n) => state[n] = "READY" /\ last_rr_slot' \in Slots
  BY <1>1 DEF PickReady, PickRR, PickPriority, ReadySlots
<1>3. CASE ReplayNextThread(s)
  <2>1. state[s] \in {"READY", "RUNNING"} /\ last_rr_slot' = last_rr_slot
    BY <1>3, Zenon DEF ReplayNextThread, ReplayFindThread
  <2>2. state[s] # "RUNNING"
    BY SlotFacts, Zenon DEF FlatInv, RunningIsOnCpu
  <2> QED
    BY <1>1, <2>1, <2>2
<1>4. ASSUME NEW n \in Slots, PickReady(n), FuzzPickThread(n, s)
      PROVE  state[s] = "READY" /\ last_rr_slot' \in Slots
  <2>1. state[n] = "READY" /\ last_rr_slot' \in Slots
    BY <1>2, <1>4, Zenon
  <2>2. s = n \/ s \in ReadySlots \ {n}
    BY <1>4, Zenon DEF FuzzPickThread, PickAlternative
  <2> QED
    BY <2>1, <2>2, Zenon DEF ReadySlots
<1>5. CASE PickReady(s)
  BY <1>2, <1>5, Zenon
<1> QED
  BY <1>3, <1>4, <1>5, Zenon DEF PickReadyMode

----------------------------------------------------------------------------
(* What a call does, as a function of the state it finds.  A state is given*)
(* by the first five parts of View; the argument x below is one.           *)

Core == <<initialized, next_tid, table, counters, control>>
CoreOf(v) == <<v[1], v[2], v[3], v[4], v[5]>>

StateIn(x) == x[3][1]
TidIn(x) == x[3][2]
CurrentIn(x) == x[5][4]
FrameIn(x) == x[5][3]

ReadyIn(x) == {s \in Slots : StateIn(x)[s] = "READY"}
FoundIn(x, t) == {s \in Slots : StateIn(x)[s] # "EMPTY" /\ TidIn(x)[s] = t}
SlotIn(x, t) == CHOOSE s \in FoundIn(x, t) : \A u \in FoundIn(x, t) : s <= u
EmptyIn(x) == {s \in Slots : StateIn(x)[s] = "EMPTY"}
FreeIn(x) == CHOOSE s \in EmptyIn(x) : \A u \in EmptyIn(x) : s <= u

InitAfter(x) ==
  <<TRUE, 1, <<NoThreads, Zeros, Zeros, Zeros>>, <<0, 0>>,
    <<x[5][1], Dead, x[5][3], 0>>, "OK">>

CreateAfter(x, p) ==
  <<x[1], x[2] + 1,
    <<[x[3][1] EXCEPT ![FreeIn(x)] = "READY"], [x[3][2] EXCEPT ![FreeIn(x)] = x[2]],
      [x[3][3] EXCEPT ![FreeIn(x)] = p], [x[3][4] EXCEPT ![FreeIn(x)] = NULL]>>,
    <<x[4][1] + 1, x[4][2]>>, x[5], "OK">>

\* The context switch back to the scheduler, and what the call in it returns.
SwapControl(x) ==
  IF x[5][2] = Dead THEN <<Wild, x[5][2], x[5][3], x[5][4]>>
  ELSE <<x[5][2], Dead,
         IF x[5][3][x[5][2]].call = "yield" THEN [x[5][3] EXCEPT ![x[5][2]] = NoFrame]
                                            ELSE x[5][3],
         x[5][3][x[5][2]].previous_tid>>

SwapStatus(x) ==
  IF x[5][2] = Dead THEN "NONE"
  ELSE IF x[5][3][x[5][2]].call = "yield" THEN "OK" ELSE "NONE"

YieldAfter(x) ==
  <<x[1], x[2],
    <<[x[3][1] EXCEPT ![SlotIn(x, CurrentIn(x))] = "READY"], x[3][2], x[3][3], x[3][4]>>,
    <<x[4][1] + 1, x[4][2]>>, SwapControl(x), SwapStatus(x)>>

ExitAfter(x, s) ==
  <<x[1], x[2],
    IF x[3][1][s] = "CANCELED"
    THEN <<x[3][1], x[3][2], x[3][3], [x[3][4] EXCEPT ![s] = NULL]>>
    ELSE <<[x[3][1] EXCEPT ![s] = "DONE"], x[3][2], x[3][3],
           [x[3][4] EXCEPT ![s] = x[3][2][s]]>>,
    x[4], SwapControl(x), SwapStatus(x)>>

ReleaseAfter(x, c, s) ==
  <<x[1], x[2],
    <<[x[3][1] EXCEPT ![s] = "EMPTY"], [x[3][2] EXCEPT ![s] = 0],
      [x[3][3] EXCEPT ![s] = 0], [x[3][4] EXCEPT ![s] = NULL]>>,
    <<IF x[3][1][s] = "READY" THEN Lower(x[4][1], 1) ELSE x[4][1],
      IF x[3][1][s] = "BLOCKED" THEN Lower(x[4][2], 1) ELSE x[4][2]>>,
    <<x[5][1], IF x[5][2] = s THEN Dead ELSE x[5][2],
      [x[5][3] EXCEPT ![c] = NoFrame, ![s] = NoFrame], x[5][4]>>,
    "OK">>

ReturnAfter(x, c, st) ==
  <<x[1], x[2], x[3], x[4],
    <<x[5][1], x[5][2], [x[5][3] EXCEPT ![c] = NoFrame], x[5][4]>>, st>>

LoopAfter(x, c) ==
  IF FoundIn(x, FrameIn(x)[c].tid) = {} THEN ReturnAfter(x, c, "ENOTFOUND")
  ELSE ReleaseAfter(x, c, SlotIn(x, FrameIn(x)[c].tid))

CanceledAfter(x, s) ==
  <<x[1], x[2],
    <<[x[3][1] EXCEPT ![s] = "CANCELED"], x[3][2], x[3][3], [x[3][4] EXCEPT ![s] = NULL]>>,
    <<IF x[3][1][s] \in {"READY", "BLOCKED"}
      THEN Lower(x[4][1] + (IF x[3][1][s] = "BLOCKED" THEN 1 ELSE 0), 1) ELSE x[4][1],
      Lower(x[4][2], IF x[3][1][s] = "BLOCKED" THEN 1 ELSE 0)>>,
    x[5], "OK">>

WokenIn(x, W) == {s \in W : x[3][1][s] = "BLOCKED"}

BlockAfter(x, self) ==
  LET woken == WokenIn(x, {}) \cup ({} \cap {self}) IN
    <<x[1], x[2],
      <<[s \in Slots |-> IF s \in woken THEN "READY"
                         ELSE IF s = self THEN "BLOCKED" ELSE x[3][1][s]],
        x[3][2], x[3][3], x[3][4]>>,
      <<x[4][1] + Cardinality(woken), Lower(x[4][2] + 1, Cardinality(woken))>>,
      SwapControl(x), SwapStatus(x)>>

WakeAfter(x, W) ==
  <<x[1], x[2],
    <<[s \in Slots |-> IF s \in WokenIn(x, W) THEN "READY" ELSE x[3][1][s]],
      x[3][2], x[3][3], x[3][4]>>,
    <<x[4][1] + Cardinality(WokenIn(x, W)), Lower(x[4][2], Cardinality(WokenIn(x, W)))>>,
    x[5], "OK">>

\* A call that does not run the scheduler.
QuietAfter(x, call) ==
  IF call.op = "init" THEN InitAfter(x)
  ELSE IF call.op = "create" THEN CreateAfter(x, call.arg)
  ELSE IF call.op = "yield" THEN YieldAfter(x)
  ELSE IF call.op = "exit" THEN ExitAfter(x, call.by)
  ELSE IF call.op = "join" THEN ReleaseAfter(x, call.by, SlotIn(x, call.arg))
  ELSE IF call.op = "loop" THEN LoopAfter(x, call.by)
  ELSE IF call.op = "cancel" THEN CanceledAfter(x, SlotIn(x, call.arg))
  ELSE IF call.op = "block" THEN BlockAfter(x, SlotIn(x, CurrentIn(x)))
  ELSE WakeAfter(x, FoundIn(x, call.arg))

\* A call that does, when s runs and when nobody does.
Scheduling(x, call) ==
  /\ call.by = Main
  /\ \/ call.op = "yield"
     \/ call.op = "join" /\ StateIn(x)[SlotIn(x, call.arg)] \notin Terminal
     \/ call.op = "loop" /\ StateIn(x)[FrameIn(x)[Main].slot] \notin Terminal

FrameAfter(x, call) ==
  IF call.op = "yield"
  THEN [call |-> "yield", tid |-> 0, slot |-> 0, previous_tid |-> CurrentIn(x)]
  ELSE [call |-> "join",
        tid |-> IF call.op = "join" THEN call.arg ELSE FrameIn(x)[Main].tid,
        slot |-> IF call.op = "join" THEN SlotIn(x, call.arg) ELSE FrameIn(x)[Main].slot,
        previous_tid |-> CurrentIn(x)]

SwitchAfter(x, call, s) ==
  <<x[1], x[2],
    <<[x[3][1] EXCEPT ![s] = "RUNNING"], x[3][2], x[3][3], x[3][4]>>,
    <<Lower(x[4][1], 1), x[4][2]>>,
    <<s, Main, [x[5][3] EXCEPT ![Main] = FrameAfter(x, call)], x[3][2][s]>>, "NONE">>

IdleAfter(x, call) ==
  IF call.op = "yield" THEN <<x[1], x[2], x[3], x[4], x[5], "ENOTFOUND">>
  ELSE ReturnAfter(x, Main, "EBUSY")

\* The policy's choice and the fuzzer's.
PickIn(x, rr, n) ==
  /\ n \in ReadyIn(x)
  /\ \A u \in ReadyIn(x) :
       IF Policy = "RR" THEN Distance(rr, n) <= Distance(rr, u)
       ELSE \/ x[3][3][n] > x[3][3][u]
            \/ x[3][3][n] = x[3][3][u] /\ x[3][2][n] <= x[3][2][u]

AlternativeIn(x, n, i, s) ==
  LET others == ReadyIn(x) \ {n}
  IN  \/ s \in others /\ Cardinality({o \in others : o < s}) = i
      \/ s = n /\ i >= Cardinality(others)

----------------------------------------------------------------------------
(* What the steps do is what those functions say.                          *)

LEMMA CoreParts ==
  /\ Core[1] = initialized /\ Core[2] = next_tid /\ Core[3] = table
  /\ Core[4] = counters /\ Core[5] = control
  /\ Core[3][1] = state /\ Core[3][2] = tid /\ Core[3][3] = priority
  /\ Core[3][4] = retval
  /\ Core[4][1] = runnable_threads /\ Core[4][2] = blocked_threads
  /\ Core[5][1] = cpu /\ Core[5][2] = sched_ctx /\ Core[5][3] = frame
  /\ Core[5][4] = current_tid
  /\ StateIn(Core) = state /\ TidIn(Core) = tid /\ CurrentIn(Core) = current_tid
  /\ FrameIn(Core) = frame
BY DEF Core, table, counters, control, StateIn, TidIn, CurrentIn, FrameIn

LEMMA CoreSlots ==
  /\ ReadyIn(Core) = ReadySlots
  /\ EmptyIn(Core) = EmptySlots
  /\ \A t : FoundIn(Core, t) = Found(t)
  /\ \A W : WokenIn(Core, W) = Woken(W)
BY CoreParts, Zenon DEF ReadyIn, ReadySlots, EmptyIn, EmptySlots, FoundIn, Found,
  WokenIn, Woken

\* The lowest slot of a set is the one there is.
LEMMA LowestUnique ==
  ASSUME NEW A \in SUBSET Slots, NEW s \in A, \A u \in A : s <= u
  PROVE  s = CHOOSE l \in A : \A u \in A : l <= u
<1>1. A \subseteq Nat
  BY SlotFacts
<1> DEFINE l == CHOOSE l \in A : \A u \in A : l <= u
<1>2. l \in A /\ \A u \in A : l <= u
  BY Zenon
<1> HIDE DEF l
<1>3. s <= l /\ l <= s /\ s \in Nat /\ l \in Nat
  BY <1>1, <1>2
<1>4. s = l
  BY <1>3
<1> QED
  BY <1>4 DEF l

LEMMA FoundSlot ==
  ASSUME NEW s, NEW t, FindThread(s, t)
  PROVE  SlotIn(Core, t) = s /\ Found(t) # {}
<1>1. Found(t) \in SUBSET Slots /\ s \in Found(t) /\ \A u \in Found(t) : s <= u
  BY Zenon DEF FindThread, Found
<1>2. s = CHOOSE l \in Found(t) : \A u \in Found(t) : l <= u
  BY <1>1, LowestUnique, Zenon
<1> QED
  BY <1>1, <1>2, CoreSlots, Zenon DEF SlotIn

LEMMA FreeSlot ==
  ASSUME NEW s, AllocSlot(s)
  PROVE  FreeIn(Core) = s
<1>1. EmptySlots \in SUBSET Slots /\ s \in EmptySlots /\ \A u \in EmptySlots : s <= u
  BY Zenon DEF AllocSlot, EmptySlots
<1>2. s = CHOOSE l \in EmptySlots : \A u \in EmptySlots : l <= u
  BY <1>1, LowestUnique, Zenon
<1> QED
  BY <1>2, CoreSlots, Zenon DEF FreeIn

LEMMA SwapDoes ==
  ASSUME SwapToScheduler
  PROVE  control' = SwapControl(Core) /\ status' = SwapStatus(Core)
<1>1. CASE sched_ctx = Dead
  BY <1>1, CoreParts, Zenon DEF SwapToScheduler, SwapControl, SwapStatus, control
<1>2. CASE sched_ctx # Dead
  BY <1>2, CoreParts, Zenon DEF SwapToScheduler, SwapControl, SwapStatus, control
<1> QED
  BY <1>1, <1>2

LEMMA InitDoes ==
  ASSUME NEW c, RuntimeInit(c)
  PROVE  View' = InitAfter(Core) /\ last_rr_slot' = MaxThreads - 1
BY CoreParts, Zenon DEF RuntimeInit, InitAfter, View, table, counters, control

LEMMA CreateDoes ==
  ASSUME NEW c, NEW p, ThreadCreate(c, p)
  PROVE  View' = CreateAfter(Core, p) /\ last_rr_slot' = last_rr_slot
<1>1. PICK s \in Slots : /\ AllocSlot(s)
                         /\ state' = [state EXCEPT ![s] = "READY"]
                         /\ tid' = [tid EXCEPT ![s] = next_tid]
                         /\ priority' = [priority EXCEPT ![s] = p]
                         /\ retval' = [retval EXCEPT ![s] = NULL]
  BY Zenon DEF ThreadCreate
<1>2. FreeIn(Core) = s
  BY <1>1, FreeSlot, Zenon
<1>3. table' = <<[state EXCEPT ![FreeIn(Core)] = "READY"],
                 [tid EXCEPT ![FreeIn(Core)] = next_tid],
                 [priority EXCEPT ![FreeIn(Core)] = p],
                 [retval EXCEPT ![FreeIn(Core)] = NULL]>>
  BY <1>1, <1>2, Zenon DEF table
<1> QED
  BY <1>3, CoreParts, Zenon DEF ThreadCreate, CreateAfter, View, counters, control

LEMMA YieldDoes ==
  ASSUME NEW c, ThreadYield(c)
  PROVE  View' = YieldAfter(Core) /\ last_rr_slot' = last_rr_slot
<1>1. PICK s \in Slots : /\ FindThread(s, current_tid)
                         /\ state' = [state EXCEPT ![s] = "READY"]
  BY Zenon DEF ThreadYield
<1>2. SlotIn(Core, CurrentIn(Core)) = s
  BY <1>1, FoundSlot, CoreParts, Zenon
<1>3. control' = SwapControl(Core) /\ status' = SwapStatus(Core)
  BY SwapDoes, Zenon DEF ThreadYield
<1> QED
  BY <1>1, <1>2, <1>3, CoreParts, Zenon DEF ThreadYield, YieldAfter, View, table, counters

LEMMA ExitDoes ==
  ASSUME NEW s, ThreadExit(s)
  PROVE  View' = ExitAfter(Core, s) /\ last_rr_slot' = last_rr_slot
<1>1. control' = SwapControl(Core) /\ status' = SwapStatus(Core)
  BY SwapDoes, Zenon DEF ThreadExit
<1> QED
  BY <1>1, CoreParts, Zenon DEF ThreadExit, ExitAfter, View, table

LEMMA ReleaseDoes ==
  ASSUME NEW c, NEW s, ReleaseSlot(c, s)
  PROVE  View' = ReleaseAfter(Core, c, s) /\ last_rr_slot' = last_rr_slot
BY CoreParts, Zenon DEF ReleaseSlot, ReleaseAfter, View, table, counters, control

LEMMA ReturnDoes ==
  ASSUME NEW c, NEW st, JoinReturn(c, st)
  PROVE  View' = ReturnAfter(Core, c, st) /\ last_rr_slot' = last_rr_slot
BY CoreParts, Zenon DEF JoinReturn, ReturnAfter, View, table, counters, control

LEMMA LoopDoes ==
  ASSUME NEW c, JoinLoop(c), state[frame[c].slot] \in Terminal
  PROVE  View' = LoopAfter(Core, c) /\ last_rr_slot' = last_rr_slot
<1>1. ASSUME NEW s \in Slots, FindThread(s, frame[c].tid), ReleaseSlot(c, s)
      PROVE  View' = LoopAfter(Core, c) /\ last_rr_slot' = last_rr_slot
  <2>1. SlotIn(Core, frame[c].tid) = s /\ Found(frame[c].tid) # {}
    BY <1>1, FoundSlot, Zenon
  <2> QED
    BY <1>1, <2>1, ReleaseDoes, CoreParts, CoreSlots, Zenon DEF LoopAfter
<1>2. CASE Found(frame[c].tid) = {} /\ JoinReturn(c, "ENOTFOUND")
  BY <1>2, ReturnDoes, CoreParts, CoreSlots, Zenon DEF LoopAfter
<1> QED
  BY <1>1, <1>2, Zenon DEF JoinLoop

LEMMA CancelDoes ==
  ASSUME NEW c, NEW t, ThreadCancel(c, t)
  PROVE  View' = CanceledAfter(Core, SlotIn(Core, t)) /\ last_rr_slot' = last_rr_slot
<1>1. PICK s \in Slots :
       /\ FindThread(s, t)
       /\ LET unblocked == IF state[s] = "BLOCKED" THEN 1 ELSE 0
              ready == state[s] \in {"READY", "BLOCKED"}
          IN  /\ blocked_threads' = Lower(blocked_threads, unblocked)
              /\ runnable_threads' =
                   IF ready THEN Lower(runnable_threads + unblocked, 1)
                            ELSE runnable_threads
       /\ state' = [state EXCEPT ![s] = "CANCELED"]
       /\ retval' = [retval EXCEPT ![s] = NULL]
  BY Zenon DEF ThreadCancel
<1>2. SlotIn(Core, t) = s
  BY <1>1, FoundSlot, Zenon
<1>3. View' = CanceledAfter(Core, s)
  BY <1>1, CoreParts, Zenon DEF ThreadCancel, CanceledAfter, View, table, counters, control
<1> QED
  BY <1>2, <1>3, Zenon DEF ThreadCancel

LEMMA BlockDoes ==
  ASSUME NEW c, SyncBlock(c, {})
  PROVE  /\ View' = BlockAfter(Core, SlotIn(Core, CurrentIn(Core)))
         /\ last_rr_slot' = last_rr_slot
<1>1. PICK self \in Slots :
    /\ FindThread(self, current_tid)
    /\ LET woken == Woken({}) \cup ({} \cap {self})
           n == Cardinality(woken)
       IN  /\ state' = [s \in Slots |->
                          IF s \in woken THEN "READY"
                          ELSE IF s = self THEN "BLOCKED" ELSE state[s]]
           /\ blocked_threads' = Lower(blocked_threads + 1, n)
           /\ runnable_threads' = runnable_threads + n
    /\ SwapToScheduler
    /\ UNCHANGED <<initialized, next_tid, last_rr_slot, tid, priority, retval>>
  BY Zenon DEF SyncBlock, Block
<1>2. SlotIn(Core, CurrentIn(Core)) = self
  BY <1>1, FoundSlot, CoreParts, Zenon
<1>3. control' = SwapControl(Core) /\ status' = SwapStatus(Core)
  BY <1>1, SwapDoes, Zenon
<1>4. View' = BlockAfter(Core, self)
  BY <1>1, <1>3, CoreParts, Zenon DEF BlockAfter, View, table, counters, WokenIn, Woken
<1> QED
  BY <1>1, <1>2, <1>4, Zenon

LEMMA WakeDoes ==
  ASSUME NEW c, NEW W, SyncWake(c, W), status' = "OK"
  PROVE  View' = WakeAfter(Core, W) /\ last_rr_slot' = last_rr_slot
BY CoreParts, Zenon DEF SyncWake, Unblock, WakeAfter, View, table, counters, control,
  WokenIn, Woken

LEMMA QuietDoes ==
  ASSUME FlatInv, NEW call \in CallSet, Quiet(call)
  PROVE  /\ call.op # "begin"
         /\ ~Scheduling(Core, call)
         /\ View' = QuietAfter(Core, call)
         /\ last_rr_slot' = IF call.op = "init" THEN MaxThreads - 1 ELSE last_rr_slot
<1> DEFINE c == call.by
           t == call.arg
           Goal == /\ call.op # "begin"
                   /\ ~Scheduling(Core, call)
                   /\ View' = QuietAfter(Core, call)
                   /\ last_rr_slot' = IF call.op = "init" THEN MaxThreads - 1 ELSE last_rr_slot
<1>1. ASSUME call.op = "init", RuntimeInit(c) PROVE Goal
  BY <1>1, InitDoes, Zenon DEF QuietAfter, Scheduling
<1>2. ASSUME call.op = "create", ThreadCreate(c, t) PROVE Goal
  BY <1>2, CreateDoes, Zenon DEF QuietAfter, Scheduling
<1>3. ASSUME call.op = "yield", ThreadYield(c) PROVE Goal
  <2>1. c # Main
    BY <1>3, Zenon DEF ThreadYield, Calls, InUser, FlatInv, ContextInv, ContextsExact,
      CpuIsCurrent
  <2> QED
    BY <1>3, <2>1, YieldDoes, Zenon DEF QuietAfter, Scheduling
<1>4. ASSUME call.op = "exit", ThreadExit(c) PROVE Goal
  BY <1>4, ExitDoes, Zenon DEF QuietAfter, Scheduling
<1>5. ASSUME call.op = "join",
             NEW s \in Slots, FindThread(s, t), state[s] \in Terminal, ReleaseSlot(c, s)
      PROVE  Goal
  <2>1. SlotIn(Core, t) = s
    BY <1>5, FoundSlot, Zenon
  <2> QED
    BY <1>5, <2>1, ReleaseDoes, CoreParts, Zenon DEF QuietAfter, Scheduling
<1>6. ASSUME call.op = "loop", JoinLoop(c), state[frame[c].slot] \in Terminal PROVE Goal
  BY <1>6, LoopDoes, CoreParts, Zenon DEF QuietAfter, Scheduling
<1>7. ASSUME call.op = "cancel", ThreadCancel(c, t) PROVE Goal
  BY <1>7, CancelDoes, Zenon DEF QuietAfter, Scheduling
<1>8. ASSUME call.op = "block", SyncBlock(c, {}) PROVE Goal
  BY <1>8, BlockDoes, Zenon DEF QuietAfter, Scheduling
<1>9. ASSUME call.op = "wake", SyncWake(c, Found(t)), status' = "OK" PROVE Goal
  BY <1>9, WakeDoes, CoreSlots, Zenon DEF QuietAfter, Scheduling
<1> HIDE DEF Goal
<1>10. Goal
  BY <1>1, <1>2, <1>3, <1>4, <1>5, <1>6, <1>7, <1>8, <1>9, Zenon DEF Quiet
<1> QED
  BY <1>10 DEF Goal

EventTypes == {"INIT", "CREATE", "YIELD", "EXIT", "CANCEL", "UNBLOCK", "BLOCK",
               "SWITCH", "SHUTDOWN"}
Events == [type : EventTypes, tid : Nat]

LEMMA EventFacts ==
  ASSUME NEW k \in EventTypes, NEW n \in Nat
  PROVE  /\ Event(k, n) \in Events /\ Event(k, n).type = k
         /\ n < RecordTids => Event(k, n).tid = n
<1>1. n % RecordTids \in Nat /\ (n < RecordTids => n % RecordTids = n)
  BY RerunAssumption
<1> QED
  BY <1>1, Zenon DEF Event, Events

\* No call but a switch logs a SWITCH.
QuietEvents == {e \in Events : e.type # "SWITCH"}

LEMMA QuietEmits ==
  ASSUME FlatInv, NEW call \in CallSet, Quiet(call)
  PROVE  \E es \in Seq(QuietEvents) : Emit(es)
<1>1. current_tid \in Nat /\ next_tid \in Nat
  BY DEF FlatInv, ContextInv, TypeOK, RuntimeTypeOK
<1>2. \A n \in Nat : \A k \in {"CREATE", "YIELD", "EXIT", "CANCEL", "UNBLOCK", "BLOCK"} :
        Event(k, n) \in QuietEvents
  <2>1. \A k \in {"CREATE", "YIELD", "EXIT", "CANCEL", "UNBLOCK", "BLOCK"} :
          k \in EventTypes /\ k # "SWITCH"
    BY DEF EventTypes
  <2> QED
    BY <2>1, EventFacts, Zenon DEF QuietEvents
<1>3. call.op \in {"cancel", "wake"} => call.arg \in Nat
  <2>1. call.op \in {"cancel", "wake"} => call.arg \in Tids
    BY CallTypes, Zenon DEF Targeted
  <2> QED
    BY <2>1 DEF Tids
<1>4. \A e \in QuietEvents : <<e>> \in Seq(QuietEvents)
  OBVIOUS
<1>5. <<>> \in Seq(QuietEvents)
  OBVIOUS
<1>6. \A a, b \in Seq(QuietEvents) : a \o b \in Seq(QuietEvents)
  OBVIOUS
<1>7. call.op \in {"cancel", "wake"} => Unblocked(call.arg) \in Seq(QuietEvents)
  BY <1>2, <1>3, <1>4, <1>5, Zenon DEF Unblocked
<1>8. call.op = "cancel" =>
        <<Event("CANCEL", call.arg)>> \o Unblocked(call.arg) \in Seq(QuietEvents)
  BY <1>2, <1>3, <1>4, <1>6, <1>7, Zenon
<1>9. /\ <<Event("CREATE", next_tid)>> \in Seq(QuietEvents)
      /\ <<Event("YIELD", current_tid)>> \in Seq(QuietEvents)
      /\ <<Event("EXIT", current_tid)>> \in Seq(QuietEvents)
      /\ <<Event("BLOCK", current_tid)>> \in Seq(QuietEvents)
  BY <1>1, <1>2, <1>4, Zenon
<1> QED
  BY <1>5, <1>7, <1>8, <1>9, Zenon DEF Quiet

\* A log grows at its end.
LEMMA LogGrows ==
  ASSUME log \in Seq(Events), NEW es \in Seq(Events), Emit(es)
  PROVE  /\ log' \in Seq(Events)
         /\ log = <<>> => log' = <<>>
         /\ log # <<>> => /\ Len(log') = Len(log) + Len(es)
                          /\ \A k \in 1 .. Len(es) : log'[Len(log) + k] = es[k]
         /\ Len(log) <= Len(log')
         /\ \A k \in 1 .. Len(log) : log'[k] = log[k]
         /\ log # <<>> => log' # <<>>
<1>1. CASE log = <<>>
  BY <1>1 DEF Emit
<1>2. CASE log # <<>>
  <2>1. log' = log \o es
    BY <1>2 DEF Emit
  <2>2. log' \in Seq(Events) /\ Len(log') = Len(log) + Len(es)
    BY <2>1
  <2>3. \A k \in 1 .. Len(es) : log'[Len(log) + k] = es[k]
    BY <2>1
  <2>4. \A k \in 1 .. Len(log) : log'[k] = log[k]
    BY <2>1
  <2>5. Len(log) \in Nat /\ Len(es) \in Nat /\ Len(log) # 0
    BY <1>2
  <2> QED
    BY <1>2, <2>2, <2>3, <2>4, <2>5
<1> QED
  BY <1>1, <1>2

LEMMA ScheduleDoes ==
  ASSUME FlatInv, NEW call \in CallSet, Schedules(call)
  PROVE  /\ cpu = Main
         /\ call.op # "begin"
         /\ Scheduling(Core, call)
         /\ \/ /\ NobodyPickedMode
               /\ View' = IdleAfter(Core, call)
               /\ last_rr_slot' = last_rr_slot
               /\ Emit(<<>>)
            \/ \E s \in Slots : /\ PickReadyMode(s)
                                /\ View' = SwitchAfter(Core, call, s)
                                /\ Emit(<<Event("SWITCH", tid[s])>>)
<1> DEFINE Goal == /\ cpu = Main
                   /\ call.op # "begin"
                   /\ Scheduling(Core, call)
                   /\ \/ /\ NobodyPickedMode
                         /\ View' = IdleAfter(Core, call)
                         /\ last_rr_slot' = last_rr_slot
                         /\ Emit(<<>>)
                      \/ \E s \in Slots : /\ PickReadyMode(s)
                                          /\ View' = SwitchAfter(Core, call, s)
                                          /\ Emit(<<Event("SWITCH", tid[s])>>)
<1>1. ASSUME NEW f, f = FrameAfter(Core, call), RunNext(f)
      PROVE  \E s \in Slots : /\ PickReadyMode(s)
                              /\ View' = SwitchAfter(Core, call, s)
                              /\ Emit(<<Event("SWITCH", tid[s])>>)
  <2>1. PICK s \in Slots : /\ PickReadyMode(s)
                           /\ DispatchTo(Main, f, s)
                           /\ Emit(<<Event("SWITCH", tid[s])>>)
    BY <1>1, Zenon DEF RunNext
  <2>2. View' = SwitchAfter(Core, call, s)
    BY <1>1, <2>1, CoreParts, Zenon DEF DispatchTo, SwitchAfter, View, table, counters,
      control
  <2> QED
    BY <2>1, <2>2, Zenon
<1>2. ASSUME call.op = "yield", Yield, call.by = Main PROVE Goal
  <2>1. cpu = Main
    BY <1>2, Zenon DEF Yield, Calls, InUser
  <2>2. FrameAfter(Core, call) = YieldFrame
    BY <1>2, CoreParts, Zenon DEF FrameAfter, YieldFrame
  <2>3. Scheduling(Core, call)
    BY <1>2, Zenon DEF Scheduling
  <2>4. ASSUME Return("ENOTFOUND")
        PROVE  View' = IdleAfter(Core, call) /\ last_rr_slot' = last_rr_slot
    BY <1>2, <2>4, CoreParts, Zenon DEF Return, IdleAfter, View, table, counters, control
  <2> QED
    BY <1>1, <1>2, <2>1, <2>2, <2>3, <2>4, Zenon DEF Yield
<1>3. ASSUME NEW t, NEW s, JoinTurn(t, s), FrameAfter(Core, call) = JoinFrame(t, s),
             call.op # "yield", call.op # "begin", Scheduling(Core, call), cpu = Main
      PROVE  Goal
  <2>1. ASSUME JoinReturn(Main, "EBUSY")
        PROVE  View' = IdleAfter(Core, call) /\ last_rr_slot' = last_rr_slot
    BY <1>3, <2>1, ReturnDoes, Zenon DEF IdleAfter
  <2> QED
    BY <1>1, <1>3, <2>1, Zenon DEF JoinTurn
<1>4. ASSUME call.op = "join", call.by = Main, Calls(Main, "join"), NEW s \in Slots,
             FindThread(s, call.arg), state[s] \notin Terminal, JoinTurn(call.arg, s)
      PROVE  Goal
  <2>1. SlotIn(Core, call.arg) = s
    BY <1>4, FoundSlot, Zenon
  <2>2. FrameAfter(Core, call) = JoinFrame(call.arg, s)
    BY <1>4, <2>1, CoreParts, Zenon DEF FrameAfter, JoinFrame
  <2>3. Scheduling(Core, call) /\ cpu = Main
    BY <1>4, <2>1, CoreParts, Zenon DEF Scheduling, Calls, InUser
  <2> HIDE DEF Goal
  <2> QED
    BY <1>3, <1>4, <2>2, <2>3, Zenon
<1>5. ASSUME call.op = "loop", call.by = Main, cpu = Main, frame[Main].call = "join",
             state[frame[Main].slot] \notin Terminal,
             JoinTurn(frame[Main].tid, frame[Main].slot)
      PROVE  Goal
  <2>1. FrameAfter(Core, call) = JoinFrame(frame[Main].tid, frame[Main].slot)
    BY <1>5, CoreParts, Zenon DEF FrameAfter, JoinFrame
  <2>2. Scheduling(Core, call)
    BY <1>5, CoreParts, Zenon DEF Scheduling
  <2> HIDE DEF Goal
  <2> QED
    BY <1>3, <1>5, <2>1, <2>2, Zenon
<1> HIDE DEF Goal
<1>6. Goal
  BY <1>2, <1>4, <1>5, Zenon DEF Schedules
<1> QED
  BY <1>6 DEF Goal

----------------------------------------------------------------------------
(* The history of the first run.                                           *)

Start == [call |-> [op |-> "begin", by |-> Main, arg |-> 0],
          view |-> <<FALSE, 0, <<NoThreads, Zeros, Zeros, Zeros>>, <<0, 0>>,
                     <<Main, Dead, [c \in Contexts |-> NoFrame], 0>>, "NONE">>,
          rr |-> 0, logged |-> 0, decisions |-> 0]

At(i) == IF i = 0 THEN Start ELSE hist[i]

\* How y came after x: L is the log, D the dice, m the mode in which the first
\* run is once its log is on.
Began(x, y) ==
  /\ y.view = x.view
  /\ x.logged = 0 /\ y.logged = 1
  /\ y.rr = x.rr /\ y.decisions = x.decisions

WasQuiet(x, y, L) ==
  /\ y.view = QuietAfter(CoreOf(x.view), y.call)
  /\ x.logged = 0 => y.logged = 0
  /\ x.logged <= y.logged
  /\ \A k \in x.logged + 1 .. y.logged : L[k].type # "SWITCH"
  /\ y.rr = IF y.call.op = "init" THEN MaxThreads - 1 ELSE x.rr
  /\ y.decisions = x.decisions

WasIdle(x, y) ==
  /\ ReadyIn(CoreOf(x.view)) = {}
  /\ y.view = IdleAfter(CoreOf(x.view), y.call)
  /\ y.rr = x.rr /\ y.logged = x.logged /\ y.decisions = x.decisions

Rolled(x, y, n, s, D) ==
  LET die == D[y.decisions] IN
    /\ y.decisions = x.decisions + 1
    /\ die.ready = Cardinality(ReadyIn(CoreOf(x.view)))
    /\ \/ die.roll = -1 /\ s = n
       \/ die.roll # -1 /\ AlternativeIn(CoreOf(x.view), n, die.roll, s)

Switched(x, y, n, s, L, D, m) ==
  /\ PickIn(CoreOf(x.view), x.rr, n)
  /\ y.rr = IF Policy = "RR" THEN n ELSE x.rr
  /\ y.view = SwitchAfter(CoreOf(x.view), y.call, s)
  /\ IF x.logged # 0 /\ m = "FUZZ" THEN Rolled(x, y, n, s, D)
     ELSE s = n /\ y.decisions = x.decisions
  /\ IF x.logged = 0 THEN y.logged = 0
     ELSE /\ y.logged = x.logged + 1
          /\ L[y.logged] = Event("SWITCH", TidIn(CoreOf(x.view))[s])

Follows(x, y, L, D, m) ==
  IF y.call.op = "begin" THEN Began(x, y)
  ELSE IF ~Scheduling(CoreOf(x.view), y.call) THEN WasQuiet(x, y, L)
  ELSE \/ WasIdle(x, y)
       \/ /\ ReadyIn(CoreOf(x.view)) # {}
          /\ \E n \in Slots, s \in Slots : Switched(x, y, n, s, L, D, m)

\* The log of the first run, also once it is the trace of the second.
Recorded == IF run = 1 THEN log ELSE trace

History ==
  \A i \in 1 .. Len(hist) :
    /\ Follows(At(i - 1), hist[i], Recorded, dice, pair[1])
    /\ hist[i].logged <= Len(Recorded)
    /\ hist[i].decisions <= Len(dice)

\* The run stands where the history says: at its end in the first run.
Where == IF run = 1 THEN Len(hist) ELSE done

InStep ==
  LET x == At(Where) IN
    /\ Core = CoreOf(x.view)
    /\ Where > 0 => View = x.view
    /\ log = <<>> <=> x.logged = 0
    /\ mode = IF log = <<>> THEN "NORMAL" ELSE pair[run]
    /\ mode # "REPLAY" => last_rr_slot = x.rr
    /\ pair[run] # "REPLAY" => decision_count = x.decisions

\* Replay has consumed the switches of the trace up to here.
Consumed ==
  IF run = 1 THEN current_idx = 0 /\ ~diverged
  ELSE /\ pair[2] = "REPLAY" =>
            \A i \in 1 .. Len(trace) : trace[i].type = "SWITCH" =>
              (i <= current_idx <=> i <= At(done).logged)
       /\ NoFalseDivergence

Recording ==
  /\ run = 1
  /\ done = 0
  /\ Len(log) = At(Len(hist)).logged
  /\ decision_count = Len(dice)

Views == BOOLEAN \X Nat
         \X ([Slots -> ThreadStates] \X [Slots -> Nat] \X [Slots -> Nat] \X [Slots -> Nat])
         \X (Nat \X Nat)
         \X ((Contexts \cup {Wild}) \X (Contexts \cup {Dead}) \X [Contexts -> Frames] \X Nat)
         \X Statuses
Entries == [call : CallSet, view : Views, rr : Slots, logged : Nat, decisions : Nat]
Dice == [ready : Nat, roll : Int]

HistoryTypes ==
  /\ pair \in Pairs
  /\ run \in {1, 2}
  /\ log \in Seq(Events)
  /\ trace \in Seq(Events)
  /\ current_idx \in Nat
  /\ diverged \in BOOLEAN
  /\ dice \in Seq(Dice)
  /\ decision_count \in Nat
  /\ hist \in Seq(Entries)
  /\ done \in 0 .. Len(hist)
  /\ Recorded # <<>> => Recorded[1] = INIT

\* The tids handed out, and that a record can hold them.
TidBound == next_tid <= MaxTid + 1
TidsFit == MaxTid < RecordTids

SameInv ==
  /\ RerunInv
  /\ TidBound
  /\ HistoryTypes
  /\ History
  /\ InStep
  /\ Consumed
  /\ run = 2 \/ Recording

----------------------------------------------------------------------------
(* The same state and the same draw make the same choice.                  *)

LEMMA PickDoes ==
  ASSUME Policy # "ANY", NEW n \in Slots, PickReady(n)
  PROVE  /\ PickIn(Core, last_rr_slot, n)
         /\ last_rr_slot' = IF Policy = "RR" THEN n ELSE last_rr_slot
<1>1. CASE Policy = "RR"
  BY <1>1, CoreSlots, Zenon DEF PickReady, PickRR, PickIn
<1>2. CASE Policy = "PRIORITY"
  BY <1>2, CoreSlots, CoreParts, Zenon DEF PickReady, PickPriority, PickIn
<1> QED
  BY <1>1, <1>2, RuntimeAssumption, Zenon

LEMMA PickUnique ==
  ASSUME FlatInv, NEW r \in Slots, NEW n \in Slots, NEW m \in Slots,
         PickIn(Core, r, n), PickIn(Core, r, m)
  PROVE  n = m
<1>1. n \in ReadySlots /\ m \in ReadySlots
  BY CoreSlots, Zenon DEF PickIn
<1>2. CASE Policy = "RR"
  <2>1. Distance(r, n) <= Distance(r, m) /\ Distance(r, m) <= Distance(r, n)
    BY <1>1, <1>2, CoreSlots, Zenon DEF PickIn
  <2> QED
    BY <2>1, RuntimeAssumption DEF Distance, Slots
<1>3. CASE Policy # "RR"
  <2>1. /\ \/ priority[n] > priority[m]
           \/ priority[n] = priority[m] /\ tid[n] <= tid[m]
        /\ \/ priority[m] > priority[n]
           \/ priority[m] = priority[n] /\ tid[m] <= tid[n]
    BY <1>1, <1>3, CoreSlots, CoreParts, Zenon DEF PickIn
  <2>2. /\ priority[n] \in Nat /\ priority[m] \in Nat
        /\ tid[n] \in Nat /\ tid[m] \in Nat
    BY Zenon DEF FlatInv, ContextInv, TypeOK, RuntimeTypeOK
  <2>3. tid[n] = tid[m]
    BY <2>1, <2>2
  <2>4. state[n] # "EMPTY" /\ state[m] # "EMPTY"
    BY <1>1 DEF ReadySlots
  <2> QED
    BY <2>3, <2>4, Zenon DEF FlatInv, ContextInv, TidsUnique
<1> QED
  BY <1>2, <1>3

\* The i-th of a set of slots is one.
LEMMA RankUnique ==
  ASSUME NEW A \in SUBSET Slots, NEW s \in A, NEW u \in A, s < u
  PROVE  Cardinality({o \in A : o < s}) < Cardinality({o \in A : o < u})
<1> DEFINE B == {o \in A : o < s}
           C == {o \in A : o < u}
<1>1. C \in SUBSET Slots /\ B \in SUBSET C /\ B # C
  <2>1. \A o \in A : o \in Nat
    BY SlotFacts
  <2>2. ~(s < s) /\ \A o \in A : o < s => o < u
    BY <2>1
  <2> QED
    BY <2>2, Zenon
<1> HIDE DEF B, C
<1>2. Cardinality(B) < Cardinality(C)
  BY <1>1, PartSmaller, Zenon
<1> QED
  BY <1>2 DEF B, C

LEMMA AlternativeUnique ==
  ASSUME NEW x, NEW n, NEW i \in Int, NEW s, NEW u,
         AlternativeIn(x, n, i, s), AlternativeIn(x, n, i, u)
  PROVE  s = u
<1> DEFINE A == ReadyIn(x) \ {n}
           Rank(q) == Cardinality({o \in A : o < q})
<1>1. A \in SUBSET Slots /\ A \subseteq Nat
  BY SlotFacts, Zenon DEF ReadyIn
<1>2. /\ \/ s \in A /\ Rank(s) = i
         \/ s = n /\ i >= Cardinality(A)
      /\ \/ u \in A /\ Rank(u) = i
         \/ u = n /\ i >= Cardinality(A)
  BY Zenon DEF AlternativeIn
<1> HIDE DEF A
<1>3. ASSUME NEW q \in A PROVE Rank(q) < Cardinality(A) /\ Rank(q) \in Int
  <2>1. q \in Nat
    BY <1>1, <1>3
  <2>2. ~(q < q)
    BY <2>1
  <2>3. {o \in A : o < q} \in SUBSET A /\ {o \in A : o < q} # A
    BY <1>3, <2>2, Zenon
  <2>4. Rank(q) < Cardinality(A)
    BY <1>1, <2>3, PartSmaller, Zenon
  <2>5. Rank(q) \in Nat
    BY <1>1, <2>3, SlotFacts, Zenon
  <2> HIDE DEF Rank
  <2> QED
    BY <2>4, <2>5
<1>4. ASSUME NEW q \in A, NEW w \in A, q < w PROVE Rank(q) < Rank(w)
  BY <1>1, <1>4, RankUnique, Zenon
<1> HIDE DEF Rank
<1>5. Cardinality(A) \in Nat
  BY <1>1, SlotFacts, Zenon
<1>6. CASE s \in A /\ u \in A /\ Rank(s) = i /\ Rank(u) = i
  <2>1. ~(s < u) /\ ~(u < s)
    BY <1>3, <1>4, <1>6
  <2>2. s \in Nat /\ u \in Nat
    BY <1>1, <1>6
  <2> QED
    BY <2>1, <2>2
<1>7. CASE ~(s \in A /\ Rank(s) = i) \/ ~(u \in A /\ Rank(u) = i)
  <2>1. i >= Cardinality(A)
    BY <1>2, <1>7, Zenon
  <2>2. \A q \in A : Rank(q) # i
    BY <1>3, <1>5, <2>1
  <2> QED
    BY <1>2, <2>2, Zenon
<1> QED
  BY <1>6, <1>7, Zenon

----------------------------------------------------------------------------
(* The first run writes its history.                                       *)

\* What an entry says does not change as the log and the dice grow.
Agree(x, y, L, M, D, E) ==
  /\ x.logged \in Nat /\ y.logged \in Nat
  /\ x.decisions \in Nat /\ y.decisions \in Nat
  /\ \A k \in 1 .. y.logged : M[k] = L[k]
  /\ \A k \in 1 .. y.decisions : E[k] = D[k]

LEMMA FollowsGrows ==
  ASSUME NEW x, NEW y, NEW L, NEW M, NEW D, NEW E, NEW m,
         Follows(x, y, L, D, m), Agree(x, y, L, M, D, E)
  PROVE  Follows(x, y, M, E, m)
<1>a. /\ x.logged \in Nat /\ y.logged \in Nat
      /\ x.decisions \in Nat /\ y.decisions \in Nat
      /\ \A k \in 1 .. y.logged : M[k] = L[k]
      /\ \A k \in 1 .. y.decisions : E[k] = D[k]
  BY Zenon DEF Agree
<1>1. WasQuiet(x, y, L) => WasQuiet(x, y, M)
  <2>1. x.logged + 1 .. y.logged \subseteq 1 .. y.logged
    BY <1>a
  <2> QED
    BY <1>a, <2>1, Zenon DEF WasQuiet
<1>2. ASSUME NEW n, NEW s, Rolled(x, y, n, s, D)
      PROVE  Rolled(x, y, n, s, E)
  <2>1. y.decisions = x.decisions + 1
    BY <1>2, Zenon DEF Rolled
  <2>2. y.decisions \in 1 .. y.decisions
    BY <1>a, <2>1
  <2> QED
    BY <1>a, <1>2, <2>2, Zenon DEF Rolled
<1>3. ASSUME NEW n, NEW s, Switched(x, y, n, s, L, D, m)
      PROVE  Switched(x, y, n, s, M, E, m)
  <2>1. CASE x.logged = 0
    BY <1>3, <2>1, Zenon DEF Switched
  <2>2. CASE x.logged # 0
    <3>1. y.logged = x.logged + 1
      BY <1>3, <2>2, Zenon DEF Switched
    <3>2. y.logged \in 1 .. y.logged
      BY <1>a, <3>1
    <3> QED
      BY <1>a, <1>2, <1>3, <2>2, <3>2, Zenon DEF Switched
  <2> QED
    BY <2>1, <2>2
<1> QED
  BY <1>1, <1>3, Zenon DEF Follows

\* Where the first run stands.
LEMMA Standing ==
  ASSUME SameInv, run = 1
  PROVE  /\ FlatInv
         /\ Core = CoreOf(At(Len(hist)).view)
         /\ Len(hist) > 0 => View = At(Len(hist)).view
         /\ At(Len(hist)).logged = Len(log)
         /\ At(Len(hist)).rr = last_rr_slot
         /\ At(Len(hist)).decisions = decision_count
         /\ decision_count = Len(dice)
         /\ pair[1] \in {"NORMAL", "FUZZ"}
         /\ mode = IF log = <<>> THEN "NORMAL" ELSE pair[1]
         /\ log = <<>> <=> Len(log) = 0
<1>1. pair[1] \in {"NORMAL", "FUZZ"}
  BY DEF SameInv, HistoryTypes, Pairs
<1>2. Where = Len(hist)
  BY DEF Where
<1>3. mode = IF log = <<>> THEN "NORMAL" ELSE pair[1]
  BY Zenon DEF SameInv, InStep
<1>4. mode # "REPLAY" /\ pair[1] # "REPLAY"
  BY <1>1, <1>3
<1>5. run # 2
  OBVIOUS
<1>6. Recording
  BY <1>5, Zenon DEF SameInv
<1> QED
  BY <1>1, <1>2, <1>3, <1>4, <1>6, Zenon DEF SameInv, InStep, Recording, RerunInv

\* The log is on from the start of the mode, and only grows.
Longer == /\ log' \in Seq(Events)
          /\ Len(log) <= Len(log')
          /\ \A k \in 1 .. Len(log) : log'[k] = log[k]
          /\ log' # <<>> => log'[1] = INIT
          /\ dice' \in Seq(Dice)
          /\ Len(dice) <= Len(dice')
          /\ \A k \in 1 .. Len(dice) : dice'[k] = dice[k]
          /\ decision_count' = Len(dice')

LEMMA EmitLonger ==
  ASSUME SameInv, run = 1, NEW es \in Seq(Events), Emit(es)
  PROVE  /\ log' \in Seq(Events)
         /\ Len(log) <= Len(log')
         /\ \A k \in 1 .. Len(log) : log'[k] = log[k]
         /\ log' # <<>> => log'[1] = INIT
         /\ log = <<>> <=> log' = <<>>
<1>1. log \in Seq(Events) /\ (log # <<>> => log[1] = INIT)
  BY Zenon DEF SameInv, HistoryTypes, Recorded
<1>2. /\ log' \in Seq(Events)
      /\ Len(log) <= Len(log')
      /\ \A k \in 1 .. Len(log) : log'[k] = log[k]
      /\ log = <<>> <=> log' = <<>>
  BY <1>1, LogGrows, Zenon
<1>3. log # <<>> => 1 \in 1 .. Len(log)
  BY <1>1
<1> QED
  BY <1>1, <1>2, <1>3, Zenon

\* A new entry y, for a call that does not run the scheduler.
LEMMA RecordQuiet ==
  ASSUME SameInv, run = 1, NEW call \in CallSet, Quiet(call),
         NEW y, y.call = call, y.view = View', y.rr = last_rr_slot',
         y.logged = Len(log'), y.decisions = decision_count'
  PROVE  /\ Follows(At(Len(hist)), y, log', dice', pair[1])
         /\ Longer
         /\ log = <<>> <=> log' = <<>>
         /\ UNCHANGED <<modeVars, replayVars>>
<1> DEFINE x == At(Len(hist))
<1>1. /\ call.op # "begin"
      /\ ~Scheduling(CoreOf(x.view), call)
      /\ View' = QuietAfter(CoreOf(x.view), call)
      /\ last_rr_slot' = IF call.op = "init" THEN MaxThreads - 1 ELSE x.rr
  BY Standing, QuietDoes, Zenon
<1>2. PICK es \in Seq(QuietEvents) : Emit(es)
  BY Standing, QuietEmits, Zenon
<1>3. es \in Seq(Events) /\ \A k \in 1 .. Len(es) : es[k].type # "SWITCH"
  <2>1. QuietEvents \subseteq Events
    BY DEF QuietEvents
  <2>2. \A k \in 1 .. Len(es) : es[k] \in QuietEvents
    OBVIOUS
  <2> QED
    BY <2>1, <2>2 DEF QuietEvents
<1>4. UNCHANGED <<pair, run, mode, trace, current_idx, diverged, dice, decision_count>>
  BY Zenon DEF Quiet, modeVars, replayVars, fuzzVars
<1>5. Longer /\ (log = <<>> <=> log' = <<>>)
  BY <1>2, <1>3, <1>4, EmitLonger, Standing DEF Longer, SameInv, HistoryTypes
<1>6. \A k \in Len(log) + 1 .. Len(log') : log'[k].type # "SWITCH"
  <2>1. log \in Seq(Events)
    BY Zenon DEF SameInv, HistoryTypes
  <2>2. CASE log = <<>>
    BY <1>5, <2>2
  <2>3. CASE log # <<>>
    <3>1. Len(log') = Len(log) + Len(es) /\ \A k \in 1 .. Len(es) : log'[Len(log) + k] = es[k]
      BY <1>2, <1>3, <2>1, <2>3, LogGrows, Zenon
    <3>2. SUFFICES ASSUME NEW k \in Len(log) + 1 .. Len(log') PROVE log'[k].type # "SWITCH"
      OBVIOUS
    <3>3. k - Len(log) \in 1 .. Len(es) /\ k = Len(log) + (k - Len(log))
      BY <2>1, <3>1, <1>3
    <3> QED
      BY <1>3, <3>1, <3>3, Zenon
  <2> QED
    BY <2>2, <2>3
<1>7. WasQuiet(x, y, log')
  <2>1. x.logged = Len(log) /\ x.decisions = decision_count
    BY Standing, Zenon
  <2>2. x.logged = 0 => y.logged = 0
    BY <1>5, <2>1, Standing
  <2> HIDE DEF x
  <2> QED
    BY <1>1, <1>4, <1>5, <1>6, <2>1, <2>2, Zenon DEF WasQuiet, Longer
<1> QED
  BY <1>1, <1>4, <1>5, <1>7, Zenon DEF Follows, modeVars, replayVars

LEMMA RecordBegin ==
  ASSUME SameInv, run = 1, Begin,
         NEW y, y.call.op = "begin", y.view = View', y.rr = last_rr_slot',
         y.logged = Len(log'), y.decisions = decision_count'
  PROVE  /\ Follows(At(Len(hist)), y, log', dice', pair[1])
         /\ Longer
         /\ log' # <<>>
         /\ mode' = pair[1]
         /\ UNCHANGED <<pair, run, trace, replayVars>>
         /\ UNCHANGED <<View, last_rr_slot>>
<1> DEFINE x == At(Len(hist))
<1>1. /\ log = <<>> /\ log' = <<INIT>> /\ initialized /\ mode' = pair[1]
      /\ UNCHANGED <<pair, run, trace, replayVars>>
      /\ UNCHANGED <<View, last_rr_slot>>
      /\ UNCHANGED <<dice, decision_count>>
  BY Zenon DEF Begin, runtimeVars, View, fuzzVars
<1>2. INIT \in Events
  BY EventFacts DEF INIT, EventTypes
<1>3. Len(log') = 1 /\ log' \in Seq(Events) /\ log'[1] = INIT /\ log' # <<>>
  BY <1>1, <1>2
<1>4. Len(log) = 0
  BY <1>1
<1>5. Longer
  BY <1>1, <1>3, <1>4, Standing DEF Longer, SameInv, HistoryTypes
<1>6. x.view = View
  <2>1. Len(hist) > 0
    <3>1. CASE Len(hist) = 0
      <4>1. Core = CoreOf(Start.view)
        BY <3>1, Standing DEF At
      <4>2. Core[1] = FALSE
        BY <4>1 DEF CoreOf, Start
      <4> QED
        BY <1>1, <4>2, CoreParts
    <3> QED
      BY <3>1 DEF SameInv, HistoryTypes
  <2> QED
    BY <2>1, Standing
<1>7. Began(x, y)
  BY <1>1, <1>3, <1>4, <1>6, Standing, Zenon DEF Began
<1> QED
  BY <1>1, <1>3, <1>5, <1>7, Zenon DEF Follows

\* A decision of the fuzzer in the first run.
LEMMA RollRecorded ==
  ASSUME SameInv, run = 1, NEW n, NEW s, FuzzPickThread(n, s)
  PROVE  /\ dice' \in Seq(Dice)
         /\ Len(dice') = Len(dice) + 1
         /\ \A k \in 1 .. Len(dice) : dice'[k] = dice[k]
         /\ decision_count' = decision_count + 1
         /\ dice'[decision_count'].ready = Cardinality(ReadySlots)
         /\ \/ dice'[decision_count'].roll = -1 /\ s = n
            \/ /\ dice'[decision_count'].roll # -1
               /\ AlternativeIn(Core, n, dice'[decision_count'].roll, s)
<1>1. PICK die \in Draws(decision_count + 1) :
         /\ \/ die.roll = -1 /\ s = n
            \/ die.roll # -1 /\ PickAlternative(n, die.roll, s)
         /\ dice' = Append(dice, die)
         /\ decision_count' = decision_count + 1
  BY Zenon DEF FuzzPickThread
<1>2. Cardinality(ReadySlots) \in Nat
  <2>1. ReadySlots \in SUBSET Slots
    BY Zenon DEF ReadySlots
  <2> QED
    BY <2>1, SlotFacts, Zenon
<1>3. die.ready = Cardinality(ReadySlots) /\ die \in Dice
  <2>1. PICK i \in (IF decision_count + 1 <= Warmup THEN {-1}
                    ELSE -1 .. Cardinality(ReadySlots) - 1) :
           die = [ready |-> Cardinality(ReadySlots), roll |-> i]
    BY <1>1 DEF Draws
  <2>2. i \in Int
    BY <1>2, <2>1
  <2> QED
    BY <1>2, <2>1, <2>2 DEF Dice
<1>4. dice \in Seq(Dice) /\ decision_count = Len(dice)
  BY Standing, Zenon DEF SameInv, HistoryTypes
<1>5. /\ dice' \in Seq(Dice) /\ Len(dice') = Len(dice) + 1
      /\ \A k \in 1 .. Len(dice) : dice'[k] = dice[k]
      /\ dice'[Len(dice) + 1] = die
  BY <1>1, <1>3, <1>4
<1>6. PickAlternative(n, die.roll, s) => AlternativeIn(Core, n, die.roll, s)
  BY CoreSlots, Zenon DEF PickAlternative, AlternativeIn
<1> QED
  BY <1>1, <1>3, <1>4, <1>5, <1>6, Zenon

LEMMA RecordSchedule ==
  ASSUME Policy # "ANY", SameInv, run = 1, NEW call \in CallSet, Schedules(call),
         NEW y, y.call = call, y.view = View', y.rr = last_rr_slot',
         y.logged = Len(log'), y.decisions = decision_count'
  PROVE  /\ Follows(At(Len(hist)), y, log', dice', pair[1])
         /\ Longer
         /\ log = <<>> <=> log' = <<>>
         /\ UNCHANGED <<modeVars, replayVars>>
<1> DEFINE x == At(Len(hist))
           X == CoreOf(x.view)
<1>1. /\ X = Core /\ x.logged = Len(log) /\ x.rr = last_rr_slot
      /\ x.decisions = decision_count /\ decision_count = Len(dice)
      /\ log = <<>> <=> x.logged = 0
  BY Standing, Zenon
<1>2. /\ log \in Seq(Events) /\ dice \in Seq(Dice)
      /\ Len(log) \in Nat /\ Len(dice) \in Nat
  BY DEF SameInv, HistoryTypes
<1>3. UNCHANGED modeVars
  BY Zenon DEF Schedules
<1>4. FlatInv
  BY Standing, Zenon
<1>5. mode \in {"NORMAL", "FUZZ"} /\ (mode = "FUZZ" <=> x.logged # 0 /\ pair[1] = "FUZZ")
  BY <1>1, Standing
<1> HIDE DEF x
<1>6. ASSUME NobodyPickedMode, View' = IdleAfter(Core, call),
             last_rr_slot' = last_rr_slot, Emit(<<>>)
      PROVE  /\ WasIdle(x, y)
             /\ Longer
             /\ log = <<>> <=> log' = <<>>
             /\ UNCHANGED replayVars
  <2>1. ReadySlots = {} /\ UNCHANGED replayVars /\ UNCHANGED <<dice, decision_count>>
    BY <1>5, <1>6, Zenon DEF NobodyPickedMode, fuzzVars
  <2>2. <<>> \in Seq(Events)
    OBVIOUS
  <2>3. log' = log
    BY <1>2, <1>6 DEF Emit
  <2>4. /\ log' \in Seq(Events) /\ Len(log) <= Len(log')
        /\ \A k \in 1 .. Len(log) : log'[k] = log[k]
        /\ log' # <<>> => log'[1] = INIT
    BY <1>6, <2>2, EmitLonger, Zenon
  <2>5. Longer
    BY <1>1, <1>2, <2>1, <2>4 DEF Longer
  <2>6. WasIdle(x, y)
    BY <1>1, <1>6, <2>1, <2>3, CoreSlots, Zenon DEF WasIdle
  <2> QED
    BY <2>1, <2>3, <2>5, <2>6, Zenon
<1>7. ASSUME NEW s \in Slots, PickReadyMode(s), View' = SwitchAfter(Core, call, s),
             Emit(<<Event("SWITCH", tid[s])>>)
      PROVE  /\ ReadyIn(X) # {}
             /\ \E n \in Slots : Switched(x, y, n, s, log', dice', pair[1])
             /\ Longer
             /\ log = <<>> <=> log' = <<>>
             /\ UNCHANGED replayVars
  <2> DEFINE e == Event("SWITCH", tid[s])
  <2>1. e \in Events
    <3>1. tid[s] \in Nat
      BY <1>4, Zenon DEF FlatInv, ContextInv, TypeOK, RuntimeTypeOK
    <3> QED
      BY <3>1, EventFacts DEF EventTypes
  <2> HIDE DEF e
  <2>2. <<e>> \in Seq(Events) /\ Len(<<e>>) = 1 /\ <<e>>[1] = e
    BY <2>1
  <2>3. Emit(<<e>>)
    BY <1>7 DEF e
  <2>4. /\ log' \in Seq(Events) /\ Len(log) <= Len(log')
        /\ \A k \in 1 .. Len(log) : log'[k] = log[k]
        /\ log' # <<>> => log'[1] = INIT
        /\ log = <<>> <=> log' = <<>>
    BY <2>2, <2>3, EmitLonger, Zenon
  <2>5. log # <<>> => Len(log') = Len(log) + 1 /\ log'[Len(log) + 1] = e
    <3>1. log # <<>> => Len(log') = Len(log) + Len(<<e>>)
                        /\ \A k \in 1 .. Len(<<e>>) : log'[Len(log) + k] = <<e>>[k]
      BY <1>2, <2>2, <2>3, LogGrows, Zenon
    <3> QED
      BY <2>2, <3>1
  <2>6. IF x.logged = 0 THEN y.logged = 0
        ELSE /\ y.logged = x.logged + 1
             /\ log'[y.logged] = Event("SWITCH", TidIn(X)[s])
    <3>1. Len(<<>>) = 0
      OBVIOUS
    <3>2. TidIn(X) = tid
      BY <1>1, CoreParts, Zenon
    <3> QED
      BY <1>1, <2>4, <2>5, <3>1, <3>2, Zenon DEF e
  <2>7. CASE mode = "NORMAL"
    <3>1. PickReady(s) /\ UNCHANGED replayVars /\ UNCHANGED <<dice, decision_count>>
      BY <1>7, <2>7, Zenon DEF PickReadyMode, fuzzVars
    <3>2. PickIn(X, x.rr, s) /\ y.rr = IF Policy = "RR" THEN s ELSE x.rr
      BY <1>1, <3>1, PickDoes, Zenon
    <3>3. Longer
      BY <1>1, <1>2, <2>4, <3>1 DEF Longer
    <3>4. Switched(x, y, s, s, log', dice', pair[1])
      BY <1>1, <1>5, <1>7, <2>6, <2>7, <3>1, <3>2, Zenon DEF Switched
    <3>5. s \in ReadyIn(X)
      BY <3>2, Zenon DEF PickIn
    <3> QED
      BY <2>4, <3>1, <3>3, <3>4, <3>5, Zenon
  <2>8. CASE mode = "FUZZ"
    <3>1. PICK n \in Slots : PickReady(n) /\ FuzzPickThread(n, s)
      BY <1>7, <2>8, Zenon DEF PickReadyMode
    <3>2. UNCHANGED replayVars
      BY <1>7, <2>8, Zenon DEF PickReadyMode
    <3>3. PickIn(X, x.rr, n) /\ y.rr = IF Policy = "RR" THEN n ELSE x.rr
      BY <1>1, <3>1, PickDoes, Zenon
    <3>4. /\ dice' \in Seq(Dice)
          /\ Len(dice') = Len(dice) + 1
          /\ \A k \in 1 .. Len(dice) : dice'[k] = dice[k]
          /\ decision_count' = decision_count + 1
          /\ dice'[decision_count'].ready = Cardinality(ReadySlots)
          /\ \/ dice'[decision_count'].roll = -1 /\ s = n
             \/ /\ dice'[decision_count'].roll # -1
                /\ AlternativeIn(Core, n, dice'[decision_count'].roll, s)
      BY <3>1, RollRecorded, Zenon
    <3>5. Len(dice) <= Len(dice') /\ decision_count' = Len(dice')
      BY <1>1, <1>2, <3>4
    <3>6. Longer
      BY <2>4, <3>4, <3>5, Zenon DEF Longer
    <3>7. Rolled(x, y, n, s, dice')
      BY <1>1, <3>4, CoreSlots, Zenon DEF Rolled
    <3>8. Switched(x, y, n, s, log', dice', pair[1])
      BY <1>1, <1>5, <1>7, <2>6, <2>8, <3>3, <3>7, Zenon DEF Switched
    <3>9. n \in ReadyIn(X)
      BY <3>3, Zenon DEF PickIn
    <3> QED
      BY <2>4, <3>2, <3>6, <3>8, <3>9, Zenon
  <2> QED
    BY <1>5, <2>7, <2>8, Zenon
<1>8. call.op # "begin" /\ Scheduling(X, call)
  BY <1>1, <1>4, ScheduleDoes, Zenon
<1>9. \/ /\ NobodyPickedMode
         /\ View' = IdleAfter(Core, call)
         /\ last_rr_slot' = last_rr_slot
         /\ Emit(<<>>)
      \/ \E s \in Slots : /\ PickReadyMode(s)
                          /\ View' = SwitchAfter(Core, call, s)
                          /\ Emit(<<Event("SWITCH", tid[s])>>)
  BY <1>4, ScheduleDoes, Zenon
<1>10. /\ Follows(x, y, log', dice', pair[1])
       /\ Longer
       /\ log = <<>> <=> log' = <<>>
       /\ UNCHANGED replayVars
  BY <1>6, <1>7, <1>8, <1>9, Zenon DEF Follows
<1> QED
  BY <1>3, <1>10, Zenon DEF x, modeVars

LEMMA RecordMakes ==
  ASSUME Policy # "ANY", SameInv, run = 1, NEW call \in CallSet, Makes(call),
         NEW y, y.call = call, y.view = View', y.rr = last_rr_slot',
         y.logged = Len(log'), y.decisions = decision_count'
  PROVE  /\ Follows(At(Len(hist)), y, log', dice', pair[1])
         /\ Longer
         /\ mode' = IF log' = <<>> THEN "NORMAL" ELSE pair[1]
         /\ UNCHANGED <<pair, run, trace, current_idx, diverged>>
<1>1. mode = IF log = <<>> THEN "NORMAL" ELSE pair[1]
  BY Standing, Zenon
<1>2. CASE Schedules(call)
  BY <1>1, <1>2, RecordSchedule, Zenon DEF modeVars, replayVars
<1>3. CASE Quiet(call)
  BY <1>1, <1>3, RecordQuiet, Zenon DEF modeVars, replayVars
<1>4. CASE call.op = "begin" /\ Begin
  BY <1>4, RecordBegin, Zenon DEF replayVars
<1> QED
  BY <1>2, <1>3, <1>4, Zenon DEF Makes

LEMMA ViewParts ==
  /\ CoreOf(View) = Core
  /\ TypeOK => View \in Views
<1>1. CoreOf(View) = Core
  BY DEF CoreOf, View, Core
<1>2. TypeOK => View \in Views
  BY Zenon DEF View, Views, TypeOK, RuntimeTypeOK, table, counters, control
<1> QED
  BY <1>1, <1>2

\* Entries of the history, and where it starts, have their types.
LEMMA AtTypes ==
  ASSUME hist \in Seq(Entries), NEW i \in 0 .. Len(hist)
  PROVE  /\ At(i).rr \in Slots /\ At(i).logged \in Nat /\ At(i).decisions \in Nat
         /\ i > 0 => At(i) = hist[i] /\ hist[i].call \in CallSet
<1>1. CASE i = 0
  BY <1>1, SlotFacts DEF At, Start
<1>2. CASE i # 0
  <2>1. i \in 1 .. Len(hist)
    BY <1>2
  <2>2. hist[i] \in Entries
    BY <2>1
  <2> QED
    BY <1>2, <2>2 DEF At, Entries
<1> QED
  BY <1>1, <1>2

LEMMA Ranges == \A a, b \in Nat : a <= b => 1 .. a \subseteq 1 .. b
OBVIOUS

LEMMA BoundStep ==
  ASSUME FlatInv, TidBound, NEW call \in CallSet, Makes(call)
  PROVE  TidBound'
<1>1. next_tid \in Nat /\ MaxTid \in Nat
  BY RuntimeAssumption DEF FlatInv, ContextInv, TypeOK, RuntimeTypeOK
<1>2. Core[2] = next_tid /\ View'[2] = next_tid'
  BY CoreParts DEF View
<1>3. CASE Schedules(call)
  <2>1. \/ View' = IdleAfter(Core, call)
        \/ \E s \in Slots : View' = SwitchAfter(Core, call, s)
    BY <1>3, ScheduleDoes, Zenon
  <2>2. /\ IdleAfter(Core, call)[2] = next_tid
        /\ \A s : SwitchAfter(Core, call, s)[2] = next_tid
    BY <1>2 DEF IdleAfter, ReturnAfter, SwitchAfter
  <2>3. next_tid' = next_tid
    BY <1>2, <2>1, <2>2, Zenon
  <2> QED
    BY <2>3, Zenon DEF TidBound
<1>4. CASE Quiet(call)
  <2>1. View' = QuietAfter(Core, call)
    BY <1>4, QuietDoes, Zenon
  <2>2. CASE call.op = "init"
    <3>1. next_tid' = 1
      BY <1>2, <2>1, <2>2 DEF QuietAfter, InitAfter
    <3> QED
      BY <1>1, <3>1 DEF TidBound
  <2>3. CASE call.op = "create"
    <3>1. ThreadCreate(call.by, call.arg)
      BY <1>4, <2>3, Zenon DEF Quiet
    <3>2. next_tid <= MaxTid /\ next_tid' = next_tid + 1
      BY <3>1, Zenon DEF ThreadCreate
    <3> QED
      BY <1>1, <3>2 DEF TidBound
  <2>4. CASE call.op # "init" /\ call.op # "create"
    <3>1. next_tid' = next_tid
      BY <1>2, <2>1, <2>4, Zenon DEF QuietAfter, YieldAfter, ExitAfter, ReleaseAfter,
        LoopAfter, ReturnAfter, CanceledAfter, BlockAfter, WakeAfter
    <3> QED
      BY <3>1, Zenon DEF TidBound
  <2> QED
    BY <2>2, <2>3, <2>4, Zenon
<1>5. CASE Begin
  BY <1>5, Zenon DEF Begin, runtimeVars, TidBound
<1> QED
  BY <1>3, <1>4, <1>5, Zenon DEF Makes

LEMMA RecordStep ==
  ASSUME Policy # "ANY", SameInv, RerunInv', run = 1, NEW call \in CallSet, Makes(call)
  PROVE  SameInv'
<1> DEFINE y == [call |-> call, view |-> View', rr |-> last_rr_slot',
                 logged |-> Len(log'), decisions |-> decision_count']
           n == Len(hist)
<1>1. /\ y.call = call /\ y.view = View' /\ y.rr = last_rr_slot'
      /\ y.logged = Len(log') /\ y.decisions = decision_count'
  OBVIOUS
<1>2. hist' = Append(hist, y) /\ done' = done
  BY Zenon DEF Makes
<1>3. RerunInv'
  OBVIOUS
<1>4. y \in Entries
  <2>1. TypeOK'
    BY <1>3, Zenon DEF RerunInv, FlatInv, ContextInv
  <2>2. (TypeOK => View \in Views)'
    BY ViewParts, PTL
  <2>3. last_rr_slot' \in Slots
    BY <2>1, Zenon DEF TypeOK, RuntimeTypeOK
  <2>4. Len(log') \in Nat /\ decision_count' \in Nat
    <3> HIDE DEF y
    <3>1. Longer
      BY <1>1, RecordMakes, Zenon
    <3> QED
      BY <3>1 DEF Longer
  <2> QED
    BY <2>1, <2>2, <2>3, <2>4, Zenon DEF Entries
<1> HIDE DEF y
<1>5. /\ Follows(At(n), y, log', dice', pair[1])
      /\ Longer
      /\ mode' = IF log' = <<>> THEN "NORMAL" ELSE pair[1]
      /\ UNCHANGED <<pair, run, trace, current_idx, diverged>>
  BY <1>1, RecordMakes, Zenon
<1>6. /\ hist \in Seq(Entries) /\ n \in Nat
      /\ hist' \in Seq(Entries) /\ Len(hist') = n + 1
      /\ \A i \in 1 .. n : hist'[i] = hist[i]
      /\ hist'[n + 1] = y
  <2>1. hist \in Seq(Entries)
    BY Zenon DEF SameInv, HistoryTypes
  <2> QED
    BY <1>2, <1>4, <2>1
<1>7. pair[1] \in {"NORMAL", "FUZZ"} /\ run' = 1 /\ done = 0 /\ current_idx = 0 /\ ~diverged
  <2>1. run # 2
    OBVIOUS
  <2> QED
    BY <1>5, <2>1, Standing, Zenon DEF SameInv, Recording, Consumed
<1>8. HistoryTypes'
  <2>1. done' \in 0 .. Len(hist')
    BY <1>2, <1>6, <1>7
  <2>2. Recorded' = log'
    BY <1>7, Zenon DEF Recorded
  <2>3. /\ log' \in Seq(Events) /\ dice' \in Seq(Dice) /\ decision_count' \in Nat
        /\ log' # <<>> => log'[1] = INIT
    BY <1>5 DEF Longer
  <2> QED
    BY <1>5, <1>6, <1>7, <2>1, <2>2, <2>3, Zenon DEF SameInv, HistoryTypes, INIT, Event
<1>9. History'
  <2>1. ASSUME NEW i \in 1 .. n
        PROVE  /\ Follows(At(i - 1), hist[i], log', dice', pair[1])
               /\ hist[i].logged <= Len(log')
               /\ hist[i].decisions <= Len(dice')
    <3>1. /\ Follows(At(i - 1), hist[i], log, dice, pair[1])
          /\ hist[i].logged <= Len(log)
          /\ hist[i].decisions <= Len(dice)
      BY Zenon DEF SameInv, History, Recorded
    <3>2. /\ At(i - 1).logged \in Nat /\ At(i - 1).decisions \in Nat
          /\ hist[i].logged \in Nat /\ hist[i].decisions \in Nat
      <4>1. i - 1 \in 0 .. Len(hist) /\ i \in 0 .. Len(hist) /\ i > 0
        BY <1>6
      <4> QED
        BY <1>6, <4>1, AtTypes, Zenon
    <3>3. /\ Len(log) \in Nat /\ Len(log') \in Nat /\ Len(dice) \in Nat /\ Len(dice') \in Nat
          /\ Len(log) <= Len(log') /\ Len(dice) <= Len(dice')
      BY <1>5 DEF Longer, SameInv, HistoryTypes
    <3>4. /\ \A k \in 1 .. hist[i].logged : log'[k] = log[k]
          /\ \A k \in 1 .. hist[i].decisions : dice'[k] = dice[k]
      <4>1. /\ 1 .. hist[i].logged \subseteq 1 .. Len(log)
            /\ 1 .. hist[i].decisions \subseteq 1 .. Len(dice)
        BY <3>1, <3>2, <3>3, Ranges, Zenon
      <4> QED
        BY <1>5, <4>1, Zenon DEF Longer
    <3>5. Follows(At(i - 1), hist[i], log', dice', pair[1])
      <4>1. Agree(At(i - 1), hist[i], log, log', dice, dice')
        BY <3>2, <3>4, Zenon DEF Agree
      <4> QED
        BY <3>1, <4>1, FollowsGrows, Zenon
    <3> QED
      BY <3>1, <3>2, <3>3, <3>5
  <2>2. /\ Follows(At(n), y, log', dice', pair[1])
        /\ y.logged <= Len(log')
        /\ y.decisions <= Len(dice')
    <3>1. Len(log') \in Nat /\ decision_count' = Len(dice') /\ Len(dice') \in Nat
      BY <1>5 DEF Longer
    <3> QED
      BY <1>1, <1>5, <3>1
  <2>3. ASSUME NEW i \in 1 .. n + 1
        PROVE  /\ Follows(At(i - 1)', hist'[i], log', dice', pair[1])
               /\ hist'[i].logged <= Len(log')
               /\ hist'[i].decisions <= Len(dice')
    <3>1. At(i - 1)' = At(i - 1)
      <4>1. i - 1 # 0 => i - 1 \in 1 .. n
        BY <1>6
      <4> QED
        BY <1>6, <4>1, Zenon DEF At
    <3>2. CASE i \in 1 .. n
      BY <1>6, <2>1, <3>1, <3>2, Zenon
    <3>3. CASE i = n + 1
      <4>1. i - 1 = n
        BY <1>6, <3>3
      <4> QED
        BY <1>6, <2>2, <3>1, <3>3, <4>1, Zenon
    <3> QED
      BY <1>6, <3>2, <3>3
  <2>4. Recorded' = log' /\ pair' = pair
    BY <1>5, <1>7, Zenon DEF Recorded
  <2> QED
    BY <1>6, <2>3, <2>4, Zenon DEF History
<1>10. At(Len(hist))' = y /\ Len(hist') > 0
  BY <1>6 DEF At
<1>11. InStep'
  <2>1. Where' = Len(hist')
    BY <1>7, Zenon DEF Where
  <2>2. At(Where)' = y /\ Where' > 0
    BY <1>10, <2>1, Zenon
  <2>3. Core' = CoreOf(y.view)
    <3>1. (CoreOf(View) = Core)'
      BY ViewParts, PTL
    <3> QED
      BY <1>1, <3>1, Zenon
  <2>4. log' = <<>> <=> Len(log') = 0
    BY <1>5 DEF Longer
  <2> QED
    BY <1>1, <1>5, <1>7, <2>2, <2>3, <2>4, Zenon DEF InStep
<1>12. Consumed' /\ Recording'
  <2>1. decision_count' = Len(dice')
    BY <1>5, Zenon DEF Longer
  <2> QED
    BY <1>1, <1>2, <1>5, <1>7, <1>10, <2>1, Zenon DEF Consumed, Recording, At
<1>13. TidBound'
  BY BoundStep, Zenon DEF SameInv, RerunInv
<1> QED
  BY <1>3, <1>8, <1>9, <1>11, <1>12, <1>13, Zenon DEF SameInv

----------------------------------------------------------------------------
(* Between the runs.                                                       *)

LEMMA RestartStep ==
  ASSUME SameInv, RerunInv', Restart
  PROVE  SameInv'
<1>1. /\ run = 1 /\ run' = 2 /\ log # <<>> /\ log' = <<>> /\ mode' = "NORMAL"
      /\ RuntimeShutdown(Main)
      /\ trace' = Append(log, SHUTDOWN)
      /\ decision_count' = 0
      /\ UNCHANGED <<pair, current_idx, diverged, dice, hist, done>>
  BY Zenon DEF Restart, replayVars
<1>2. RerunInv'
  OBVIOUS
<1>3. Recording /\ current_idx = 0 /\ diverged = FALSE /\ done = 0
  <2>1. run # 2
    BY <1>1
  <2> QED
    BY <1>1, <2>1, Zenon DEF SameInv, Recording, Consumed, HistoryTypes
<1>4. /\ log \in Seq(Events) /\ log[1] = INIT /\ hist \in Seq(Entries) /\ dice \in Seq(Dice)
      /\ Len(log) \in Nat
  <2>1. log \in Seq(Events) /\ log[1] = INIT /\ hist \in Seq(Entries) /\ dice \in Seq(Dice)
    BY <1>1, Zenon DEF SameInv, HistoryTypes, Recorded
  <2> QED
    BY <2>1
<1>5. /\ trace' \in Seq(Events) /\ Len(trace') = Len(log) + 1
      /\ \A k \in 1 .. Len(log) : trace'[k] = log[k]
      /\ trace'[1] = INIT
  <2>1. SHUTDOWN \in Events
    BY EventFacts DEF SHUTDOWN, EventTypes
  <2>2. 1 \in 1 .. Len(log)
    BY <1>1, <1>4
  <2>3. /\ trace' \in Seq(Events) /\ Len(trace') = Len(log) + 1
        /\ \A k \in 1 .. Len(log) : trace'[k] = log[k]
    BY <1>1, <1>4, <2>1
  <2> QED
    BY <1>4, <2>2, <2>3, Zenon
<1>6. Recorded' = trace' /\ Recorded = log
  <2>1. run' # 1
    BY <1>1
  <2> QED
    BY <1>1, <2>1, Zenon DEF Recorded
<1>7. HistoryTypes'
  <2>1. <<>> \in Seq(Events) /\ 0 \in Nat /\ 2 \in {1, 2}
    OBVIOUS
  <2> QED
    BY <1>1, <1>3, <1>5, <1>6, <2>1, Zenon DEF SameInv, HistoryTypes, INIT, Event
<1>8. History'
  <2>1. ASSUME NEW i \in 1 .. Len(hist)
        PROVE  /\ Follows(At(i - 1), hist[i], trace', dice, pair[1])
               /\ hist[i].logged <= Len(trace')
               /\ hist[i].decisions <= Len(dice)
    <3>1. /\ Follows(At(i - 1), hist[i], log, dice, pair[1])
          /\ hist[i].logged <= Len(log)
          /\ hist[i].decisions <= Len(dice)
      BY <1>6, Zenon DEF SameInv, History
    <3>2. /\ At(i - 1).logged \in Nat /\ At(i - 1).decisions \in Nat
          /\ hist[i].logged \in Nat /\ hist[i].decisions \in Nat
      <4>1. i - 1 \in 0 .. Len(hist) /\ i \in 0 .. Len(hist) /\ i > 0
        BY <1>4
      <4> QED
        BY <1>4, <4>1, AtTypes, Zenon
    <3>3. 1 .. hist[i].logged \subseteq 1 .. Len(log)
      BY <1>4, <3>1, <3>2, Ranges, Zenon
    <3>4. Agree(At(i - 1), hist[i], log, trace', dice, dice)
      BY <1>5, <3>2, <3>3, Zenon DEF Agree
    <3>5. Follows(At(i - 1), hist[i], trace', dice, pair[1])
      BY <3>1, <3>4, FollowsGrows, Zenon
    <3>6. hist[i].logged <= Len(trace')
      BY <1>4, <1>5, <3>1, <3>2
    <3> QED
      BY <3>1, <3>5, <3>6
  <2>2. \A i : At(i)' = At(i)
    BY <1>1, Zenon DEF At
  <2> QED
    BY <1>1, <1>6, <2>1, <2>2, Zenon DEF History
<1>9. InStep'
  <2>1. Where' = 0 /\ At(Where)' = Start
    <3>1. run' # 1
      BY <1>1
    <3> QED
      BY <1>1, <1>3, <3>1, Zenon DEF Where, At
  <2>2. Core' = CoreOf(Start.view)
    <3>1. CoreOf(Start.view) =
            <<FALSE, 0, <<NoThreads, Zeros, Zeros, Zeros>>, <<0, 0>>,
              <<Main, Dead, [c \in Contexts |-> NoFrame], 0>>>>
      BY DEF CoreOf, Start
    <3> QED
      BY <1>1, <3>1, Zenon DEF RuntimeShutdown, Core, table, counters, control
  <2>3. Start.logged = 0 /\ Start.rr = 0 /\ Start.decisions = 0 /\ ~(0 > 0)
    BY DEF Start
  <2>4. last_rr_slot' = 0
    BY <1>1, Zenon DEF RuntimeShutdown
  <2> QED
    BY <1>1, <2>1, <2>2, <2>3, <2>4, Zenon DEF InStep
<1>10. Consumed'
  <2>1. At(done)' = Start /\ Start.logged = 0
    BY <1>1, <1>3 DEF At, Start
  <2>2. run' # 1 /\ current_idx' = 0 /\ diverged' = FALSE
    BY <1>1, <1>3
  <2> QED
    BY <2>1, <2>2, Zenon DEF Consumed, NoFalseDivergence
<1>11. TidBound'
  <2>1. next_tid' = 0
    BY <1>1, Zenon DEF RuntimeShutdown
  <2> QED
    BY <2>1, RuntimeAssumption DEF TidBound
<1> QED
  BY <1>1, <1>2, <1>7, <1>8, <1>9, <1>10, <1>11, Zenon DEF SameInv

----------------------------------------------------------------------------
(* The second run goes the way of the first.                               *)

\* Where the second run stands, with the entry y it comes to next.
LEMMA Retracing ==
  ASSUME SameInv, run = 2, done < Len(hist)
  PROVE  /\ FlatInv
         /\ Core = CoreOf(At(done).view)
         /\ done > 0 => View = At(done).view
         /\ log = <<>> <=> At(done).logged = 0
         /\ mode = IF log = <<>> THEN "NORMAL" ELSE pair[2]
         /\ pair[2] \in {"REPLAY", "FUZZ"} /\ (pair[2] = "FUZZ" => pair[1] = "FUZZ")
         /\ mode # "REPLAY" => last_rr_slot = At(done).rr
         /\ pair[2] # "REPLAY" => decision_count = At(done).decisions
         /\ Follows(At(done), hist[done + 1], trace, dice, pair[1])
         /\ hist[done + 1].logged <= Len(trace)
         /\ hist[done + 1].decisions <= Len(dice)
         /\ At(done).logged \in Nat /\ At(done).decisions \in Nat
         /\ hist[done + 1].logged \in Nat /\ hist[done + 1].decisions \in Nat
         /\ log \in Seq(Events) /\ trace \in Seq(Events) /\ dice \in Seq(Dice)
         /\ current_idx \in Nat /\ decision_count \in Nat /\ last_rr_slot \in Slots
         /\ diverged => IdleSchedule
         /\ pair[2] = "REPLAY" =>
              \A i \in 1 .. Len(trace) : trace[i].type = "SWITCH" =>
                (i <= current_idx <=> i <= At(done).logged)
         /\ Len(trace) > 0 => trace[1] = INIT
<1>1. run # 1
  OBVIOUS
<1>2. Where = done /\ Recorded = trace
  BY <1>1, Zenon DEF Where, Recorded
<1>3. /\ pair[2] \in {"REPLAY", "FUZZ"} /\ (pair[2] = "FUZZ" => pair[1] = "FUZZ")
  BY DEF SameInv, HistoryTypes, Pairs
<1>4. /\ FlatInv
      /\ Core = CoreOf(At(done).view)
      /\ done > 0 => View = At(done).view
      /\ log = <<>> <=> At(done).logged = 0
      /\ mode = IF log = <<>> THEN "NORMAL" ELSE pair[2]
      /\ mode # "REPLAY" => last_rr_slot = At(done).rr
      /\ pair[2] # "REPLAY" => decision_count = At(done).decisions
  BY <1>2, Zenon DEF SameInv, InStep, RerunInv
<1>5. /\ hist \in Seq(Entries) /\ done \in 0 .. Len(hist)
      /\ log \in Seq(Events) /\ trace \in Seq(Events) /\ dice \in Seq(Dice)
      /\ current_idx \in Nat /\ decision_count \in Nat
  BY Zenon DEF SameInv, HistoryTypes
<1>6. done + 1 \in 1 .. Len(hist) /\ done + 1 \in 0 .. Len(hist) /\ done + 1 > 0
      /\ (done + 1) - 1 = done
  BY <1>5
<1>7. /\ Follows(At(done), hist[done + 1], trace, dice, pair[1])
      /\ hist[done + 1].logged <= Len(trace)
      /\ hist[done + 1].decisions <= Len(dice)
  BY <1>2, <1>6, Zenon DEF SameInv, History
<1>8. /\ At(done).logged \in Nat /\ At(done).decisions \in Nat
      /\ hist[done + 1].logged \in Nat /\ hist[done + 1].decisions \in Nat
  BY <1>5, <1>6, AtTypes, Zenon
<1>9. last_rr_slot \in Slots
  BY <1>4, Zenon DEF FlatInv, ContextInv, TypeOK, RuntimeTypeOK
<1>10. /\ diverged => IdleSchedule
       /\ pair[2] = "REPLAY" =>
              \A i \in 1 .. Len(trace) : trace[i].type = "SWITCH" =>
                (i <= current_idx <=> i <= At(done).logged)
  BY <1>1, Zenon DEF SameInv, Consumed, NoFalseDivergence
<1>11. Len(trace) > 0 => trace[1] = INIT
  <2>1. Len(trace) > 0 => trace # <<>>
    BY <1>5
  <2> QED
    BY <1>2, <2>1, Zenon DEF SameInv, HistoryTypes, INIT, Event
<1> QED
  BY <1>3, <1>4, <1>5, <1>7, <1>8, <1>9, <1>10, <1>11, Zenon

\* The step comes to the state of the entry y.
Reaches(y) ==
  /\ View' = y.view
  /\ log' \in Seq(Events)
  /\ log' = <<>> <=> y.logged = 0
  /\ mode' = IF log' = <<>> THEN "NORMAL" ELSE pair[2]
  /\ mode' # "REPLAY" => last_rr_slot' = y.rr
  /\ pair[2] # "REPLAY" => decision_count' = y.decisions
  /\ current_idx' \in Nat /\ decision_count' \in Nat
  /\ diverged' \in BOOLEAN /\ (diverged' => IdleSchedule)
  /\ pair[2] = "REPLAY" =>
       \A i \in 1 .. Len(trace) : trace[i].type = "SWITCH" =>
         (i <= current_idx' <=> i <= y.logged)
  /\ UNCHANGED <<pair, run, trace, dice>>

LEMMA RetraceQuiet ==
  ASSUME SameInv, run = 2, done < Len(hist), NEW call \in CallSet, Quiet(call),
         hist[done + 1].call = call
  PROVE  Reaches(hist[done + 1])
<1> DEFINE x == At(done)
           y == hist[done + 1]
<1>1. /\ call.op # "begin"
      /\ ~Scheduling(CoreOf(x.view), call)
      /\ View' = QuietAfter(CoreOf(x.view), call)
      /\ last_rr_slot' = IF call.op = "init" THEN MaxThreads - 1 ELSE last_rr_slot
  BY Retracing, QuietDoes, Zenon
<1>2. WasQuiet(x, y, trace)
  BY <1>1, Retracing, Zenon DEF Follows
<1>3. UNCHANGED <<pair, run, mode, trace, current_idx, diverged, dice, decision_count>>
  BY Zenon DEF Quiet, modeVars, replayVars, fuzzVars
<1>4. log' \in Seq(Events) /\ (log' = <<>> <=> log = <<>>)
  <2>1. PICK es \in Seq(QuietEvents) : Emit(es)
    BY Retracing, QuietEmits, Zenon
  <2>2. es \in Seq(Events)
    BY DEF QuietEvents
  <2> QED
    BY <2>1, <2>2, Retracing, LogGrows, Zenon
<1>5. /\ x.logged \in Nat /\ y.logged \in Nat /\ (log = <<>> <=> x.logged = 0)
      /\ x.logged = 0 => y.logged = 0
      /\ x.logged <= y.logged
      /\ \A k \in x.logged + 1 .. y.logged : trace[k].type # "SWITCH"
      /\ y.rr = IF call.op = "init" THEN MaxThreads - 1 ELSE x.rr
      /\ y.decisions = x.decisions /\ y.view = View'
  BY <1>1, <1>2, Retracing, Zenon DEF WasQuiet
<1>6. log' = <<>> <=> y.logged = 0
  <2> HIDE DEF x, y
  <2> QED
    BY <1>4, <1>5
<1>7. ASSUME pair[2] = "REPLAY", NEW i \in 1 .. Len(trace), trace[i].type = "SWITCH"
      PROVE  i <= current_idx' <=> i <= y.logged
  <2>1. i <= current_idx <=> i <= x.logged
    BY <1>7, Retracing, Zenon
  <2>2. i \notin x.logged + 1 .. y.logged
    BY <1>5, <1>7, Zenon
  <2>3. i <= x.logged <=> i <= y.logged
    <3> HIDE DEF x, y
    <3> QED
      BY <1>5, <2>2
  <2> QED
    BY <1>3, <2>1, <2>3, Zenon
<1>8. /\ mode = IF log = <<>> THEN "NORMAL" ELSE pair[2]
      /\ mode # "REPLAY" => last_rr_slot = x.rr
      /\ pair[2] # "REPLAY" => decision_count = x.decisions
      /\ diverged => IdleSchedule
      /\ current_idx \in Nat /\ decision_count \in Nat
  BY Retracing, Zenon
<1>9. diverged \in BOOLEAN
  BY Zenon DEF SameInv, HistoryTypes
<1> HIDE DEF x, y
<1>10. Reaches(y)
  BY <1>1, <1>3, <1>4, <1>5, <1>6, <1>7, <1>8, <1>9, Zenon DEF Reaches
<1> QED
  BY <1>10 DEF y

LEMMA RetraceBegin ==
  ASSUME SameInv, run = 2, done < Len(hist), Begin, hist[done + 1].call.op = "begin"
  PROVE  Reaches(hist[done + 1])
<1> DEFINE x == At(done)
           y == hist[done + 1]
<1>1. /\ log = <<>> /\ log' = <<INIT>> /\ initialized /\ mode' = pair[2]
      /\ UNCHANGED <<pair, run, trace, current_idx, diverged, dice, decision_count>>
      /\ UNCHANGED <<View, last_rr_slot>>
  BY Zenon DEF Begin, runtimeVars, View, fuzzVars, replayVars
<1>2. INIT \in Events /\ INIT.type # "SWITCH"
  BY EventFacts DEF INIT, EventTypes
<1>3. log' \in Seq(Events) /\ log' # <<>>
  BY <1>1, <1>2
<1>4. Began(x, y)
  BY Retracing, Zenon DEF Follows
<1>5. x.view = View
  <2>1. done > 0
    <3>1. CASE done = 0
      <4>1. Core = CoreOf(Start.view)
        BY <3>1, Retracing, Zenon DEF At
      <4>2. Core[1] = FALSE
        BY <4>1 DEF CoreOf, Start
      <4> QED
        BY <1>1, <4>2, CoreParts
    <3> QED
      BY <3>1 DEF SameInv, HistoryTypes
  <2> QED
    BY <2>1, Retracing, Zenon
<1>6. /\ mode # "REPLAY" => last_rr_slot = x.rr
      /\ pair[2] # "REPLAY" => decision_count = x.decisions
      /\ diverged => IdleSchedule
      /\ current_idx \in Nat /\ decision_count \in Nat
      /\ mode = "NORMAL"
  BY <1>1, Retracing, Zenon
<1>7. diverged \in BOOLEAN
  BY Zenon DEF SameInv, HistoryTypes
<1>8. /\ y.view = x.view /\ x.logged = 0 /\ y.logged = 1
      /\ y.rr = x.rr /\ y.decisions = x.decisions
  BY <1>4, Zenon DEF Began
<1>9. ASSUME pair[2] = "REPLAY", NEW i \in 1 .. Len(trace), trace[i].type = "SWITCH"
      PROVE  i <= current_idx' <=> i <= y.logged
  <2>1. i <= current_idx <=> i <= x.logged
    BY <1>9, Retracing, Zenon
  <2>2. Len(trace) \in Nat /\ (Len(trace) > 0 => trace[1] = INIT)
    BY Retracing
  <2>3. i # 1
    BY <1>2, <1>9, <2>2
  <2>4. ~(i <= x.logged) /\ ~(i <= y.logged)
    <3> HIDE DEF x, y
    <3> QED
      BY <1>8, <2>2, <2>3
  <2> QED
    BY <1>1, <2>1, <2>4, Zenon
<1>10. y.logged # 0 /\ mode # "REPLAY"
  BY <1>6, <1>8
<1> HIDE DEF x, y
<1>11. Reaches(y)
  BY <1>1, <1>3, <1>5, <1>6, <1>7, <1>8, <1>9, <1>10, Zenon DEF Reaches
<1> QED
  BY <1>11 DEF y

\* Replay finds the switch that the first run made here.
LEMMA NextIs ==
  ASSUME trace \in Seq(Events), current_idx \in Nat, NEW l \in Nat,
         l + 1 \in 1 .. Len(trace), trace[l + 1].type = "SWITCH",
         \A i \in 1 .. Len(trace) : trace[i].type = "SWITCH" =>
           (i <= current_idx <=> i <= l)
  PROVE  NextSwitch(l + 1) /\ \A i \in DOMAIN trace : NextSwitch(i) => i = l + 1
<1>1. Len(trace) \in Nat
  OBVIOUS
<1>2. ~(l + 1 <= current_idx)
  <2>1. l + 1 <= current_idx <=> l + 1 <= l
    BY Zenon
  <2> QED
    BY <2>1
<1>3. l + 1 \in current_idx + 1 .. Len(trace)
  BY <1>1, <1>2
<1>4. ASSUME NEW j \in current_idx + 1 .. Len(trace), trace[j].type = "SWITCH"
      PROVE  j >= l + 1
  <2>1. j \in 1 .. Len(trace) /\ ~(j <= current_idx)
    BY <1>1
  <2>2. ~(j <= l)
    BY <1>4, <2>1, Zenon
  <2> QED
    BY <2>1, <2>2
<1>5. NextSwitch(l + 1)
  <2>1. ASSUME NEW j \in current_idx + 1 .. (l + 1) - 1 PROVE trace[j].type # "SWITCH"
    <3>1. j \in current_idx + 1 .. Len(trace) /\ ~(j >= l + 1)
      BY <1>1
    <3> QED
      BY <1>4, <3>1, Zenon
  <2> QED
    BY <1>3, <2>1, Zenon DEF NextSwitch
<1>6. ASSUME NEW i \in DOMAIN trace, NextSwitch(i) PROVE i = l + 1
  <2>1. /\ i \in current_idx + 1 .. Len(trace) /\ trace[i].type = "SWITCH"
        /\ \A j \in current_idx + 1 .. i - 1 : trace[j].type # "SWITCH"
    BY <1>6, Zenon DEF NextSwitch
  <2>2. i >= l + 1
    BY <1>4, <2>1, Zenon
  <2>3. l + 1 \notin current_idx + 1 .. i - 1
    BY <2>1, Zenon
  <2> QED
    BY <1>1, <1>3, <2>1, <2>2, <2>3
<1> QED
  BY <1>5, <1>6, Zenon

\* The entry y of a switch to s in a logged run, as replay meets it.
LEMMA RecordedSwitch ==
  ASSUME SameInv, run = 2, done < Len(hist), mode = "REPLAY",
         NEW n \in Slots, NEW s \in Slots,
         Switched(At(done), hist[done + 1], n, s, trace, dice, pair[1])
  PROVE  /\ hist[done + 1].logged \in DOMAIN trace
         /\ hist[done + 1].logged \in Nat
         /\ trace[hist[done + 1].logged] = Event("SWITCH", tid[s])
         /\ NextSwitch(hist[done + 1].logged)
         /\ \A i \in DOMAIN trace : NextSwitch(i) => i = hist[done + 1].logged
         /\ state[s] = "READY" => s \in ReplayFindThread(tid[s])
<1> DEFINE x == At(done)
           y == hist[done + 1]
<1>1. /\ log # <<>> /\ pair[2] = "REPLAY" /\ FlatInv
      /\ trace \in Seq(Events) /\ current_idx \in Nat
      /\ x.logged \in Nat /\ y.logged \in Nat /\ x.logged # 0
      /\ y.logged <= Len(trace) /\ CoreOf(x.view) = Core
      /\ \A i \in 1 .. Len(trace) : trace[i].type = "SWITCH" =>
           (i <= current_idx <=> i <= x.logged)
  <2>1. mode = IF log = <<>> THEN "NORMAL" ELSE pair[2]
    BY Retracing, Zenon
  <2>2. log # <<>> /\ pair[2] = "REPLAY"
    BY <2>1
  <2> QED
    BY <2>2, Retracing, Zenon
<1>2. y.logged = x.logged + 1 /\ trace[y.logged] = Event("SWITCH", TidIn(CoreOf(x.view))[s])
  BY <1>1, Zenon DEF Switched
<1>3. trace[y.logged] = Event("SWITCH", tid[s])
  BY <1>1, <1>2, CoreParts, Zenon
<1>4. trace[y.logged].type = "SWITCH"
  <2>1. Event("SWITCH", tid[s]).type = "SWITCH"
    BY DEF Event
  <2> QED
    BY <1>3, <2>1, Zenon
<1>5. DOMAIN trace = 1 .. Len(trace) /\ Len(trace) \in Nat
  BY <1>1
<1> HIDE DEF x, y
<1>6. y.logged \in 1 .. Len(trace)
  BY <1>1, <1>2, <1>5
<1>7. NextSwitch(y.logged) /\ \A i \in DOMAIN trace : NextSwitch(i) => i = y.logged
  BY <1>1, <1>2, <1>4, <1>6, NextIs, Zenon
<1>8. ASSUME state[s] = "READY" PROVE s \in ReplayFindThread(tid[s])
  <2>1. TidsUnique /\ state[s] # "EMPTY"
    BY <1>1, <1>8, Zenon DEF FlatInv, ContextInv
  <2>2. s \in Found(tid[s]) /\ \A u \in Found(tid[s]) : u = s
    BY <2>1, Zenon DEF Found, TidsUnique
  <2>3. \A u \in Slots : u <= u
    BY SlotFacts
  <2>4. FindThread(s, tid[s])
    BY <2>2, <2>3, Zenon DEF FindThread
  <2>5. tid[s] \in 1 .. next_tid - 1
    BY <2>1, Zenon DEF TidsUnique
  <2>6. tid[s] # 0
    BY <2>5
  <2> QED
    BY <1>8, <2>4, <2>6, Zenon DEF ReplayFindThread
<1> QED
  BY <1>1, <1>3, <1>5, <1>6, <1>7, <1>8, Zenon DEF y

\* Whom the replay picks, and what that consumes.
LEMMA SameReplay ==
  ASSUME TidsFit, SameInv, run = 2, done < Len(hist), mode = "REPLAY",
         NEW n \in Slots, NEW s \in Slots, NEW u \in Slots, state[s] = "READY",
         Switched(At(done), hist[done + 1], n, s, trace, dice, pair[1])
  PROVE  /\ ReplayNextThread(u) => u = s /\ current_idx' = hist[done + 1].logged
         /\ ~ReplayNobody
<1> DEFINE l == hist[done + 1].logged
<1>1. /\ l \in DOMAIN trace
      /\ trace[l] = Event("SWITCH", tid[s])
      /\ NextSwitch(l)
      /\ \A i \in DOMAIN trace : NextSwitch(i) => i = l
      /\ s \in ReplayFindThread(tid[s])
  BY RecordedSwitch, Zenon
<1>2. trace[l].tid = tid[s]
  <2>1. tid[s] \in 1 .. next_tid - 1
    BY Retracing, Zenon DEF FlatInv, ContextInv, TidsUnique
  <2>2. TypeOK
    BY Retracing, Zenon DEF FlatInv, ContextInv
  <2>3. tid[s] \in Nat /\ tid[s] < RecordTids
    BY <2>1, <2>2, RuntimeAssumption, RerunAssumption
      DEF SameInv, TidBound, TidsFit, TypeOK, RuntimeTypeOK
  <2>4. "SWITCH" \in EventTypes
    BY DEF EventTypes
  <2>5. Event("SWITCH", tid[s]).tid = tid[s]
    BY <2>3, <2>4, EventFacts
  <2> QED
    BY <1>1, <2>5, Zenon
<1> HIDE DEF l
<1>3. ASSUME ReplayNextThread(u) PROVE u = s /\ current_idx' = l
  <2>1. current_idx' = l /\ u \in ReplayFindThread(tid[s])
    BY <1>1, <1>2, <1>3, Zenon DEF ReplayNextThread
  <2>2. state[u] # "EMPTY" /\ tid[u] = tid[s] /\ state[s] # "EMPTY"
    BY <2>1, Zenon DEF ReplayFindThread, FindThread, Found
  <2>3. TidsUnique
    BY Retracing, Zenon DEF FlatInv, ContextInv
  <2> QED
    BY <2>1, <2>2, <2>3, Zenon DEF TidsUnique
<1>4. ~ReplayNobody
  BY <1>1, <1>2, Zenon DEF ReplayNobody, NextSwitch
<1> QED
  BY <1>3, <1>4 DEF l

\* The fuzzer draws the same again.
LEMMA SameDraw ==
  ASSUME SameInv, run = 2, done < Len(hist), pair[2] # "REPLAY",
         NEW n \in Slots, NEW s \in Slots, NEW u,
         Rolled(At(done), hist[done + 1], n, s, dice), FuzzPickThread(n, u)
  PROVE  u = s /\ decision_count' = hist[done + 1].decisions /\ dice' = dice
<1> DEFINE x == At(done)
           y == hist[done + 1]
           d == decision_count + 1
<1>1. /\ x.decisions = decision_count /\ decision_count \in Nat
      /\ CoreOf(x.view) = Core /\ dice \in Seq(Dice)
      /\ y.decisions \in Nat /\ y.decisions <= Len(dice)
  BY Retracing, Zenon
<1>2. /\ y.decisions = d
      /\ dice[d].ready = Cardinality(ReadySlots)
      /\ \/ dice[d].roll = -1 /\ s = n
         \/ dice[d].roll # -1 /\ AlternativeIn(Core, n, dice[d].roll, s)
  BY <1>1, CoreSlots, Zenon DEF Rolled
<1> HIDE DEF x, y
<1>3. d \in DOMAIN dice
  BY <1>1, <1>2
<1>4. run # 1
  OBVIOUS
<1> HIDE DEF d
<1>5. PICK die \in Draws(d) :
         /\ \/ die.roll = -1 /\ u = n
            \/ die.roll # -1 /\ PickAlternative(n, die.roll, u)
         /\ dice' = dice
         /\ decision_count' = d
  BY <1>4, Zenon DEF FuzzPickThread, d
<1>6. die = dice[d]
  BY <1>2, <1>3, <1>5, Zenon DEF Draws
<1>7. PickAlternative(n, die.roll, u) => AlternativeIn(Core, n, die.roll, u)
  BY CoreSlots, Zenon DEF PickAlternative, AlternativeIn
<1>8. die.roll \in Int
  <2>1. die \in Dice
    BY <1>1, <1>3, <1>6
  <2> QED
    BY <2>1 DEF Dice
<1>9. u = s
  BY <1>2, <1>5, <1>6, <1>7, <1>8, AlternativeUnique, Zenon
<1> QED
  BY <1>2, <1>5, <1>9, Zenon DEF y

\* In every mode the second run picks whom the first one picked.
LEMMA SameChoice ==
  ASSUME TidsFit, Policy # "ANY", SameInv, run = 2, done < Len(hist),
         NEW n \in Slots, NEW s \in Slots, NEW u \in Slots, state[s] = "READY",
         Switched(At(done), hist[done + 1], n, s, trace, dice, pair[1]),
         PickReadyMode(u)
  PROVE  /\ u = s
         /\ mode # "REPLAY" => last_rr_slot' = hist[done + 1].rr
         /\ pair[2] # "REPLAY" => decision_count' = hist[done + 1].decisions
         /\ current_idx' \in Nat /\ decision_count' \in Nat
         /\ UNCHANGED <<diverged, dice>>
         /\ pair[2] = "REPLAY" =>
              \A i \in 1 .. Len(trace) : trace[i].type = "SWITCH" =>
                (i <= current_idx' <=> i <= hist[done + 1].logged)
<1> DEFINE x == At(done)
           y == hist[done + 1]
<1>1. /\ PickIn(Core, x.rr, n)
      /\ y.rr = IF Policy = "RR" THEN n ELSE x.rr
      /\ IF x.logged # 0 /\ pair[1] = "FUZZ" THEN Rolled(x, y, n, s, dice)
         ELSE s = n /\ y.decisions = x.decisions
      /\ x.logged = 0 => y.logged = 0
      /\ x.logged # 0 => y.logged = x.logged + 1
  BY Retracing, Zenon DEF Switched
<1>2. /\ FlatInv /\ x.logged \in Nat /\ y.logged \in Nat /\ y.decisions \in Nat
      /\ current_idx \in Nat /\ decision_count \in Nat /\ last_rr_slot \in Slots
      /\ log = <<>> <=> x.logged = 0
      /\ mode = IF log = <<>> THEN "NORMAL" ELSE pair[2]
      /\ pair[2] \in {"REPLAY", "FUZZ"} /\ (pair[2] = "FUZZ" => pair[1] = "FUZZ")
      /\ mode # "REPLAY" => last_rr_slot = x.rr
      /\ pair[2] # "REPLAY" => decision_count = x.decisions
      /\ pair[2] = "REPLAY" =>
           \A i \in 1 .. Len(trace) : trace[i].type = "SWITCH" =>
             (i <= current_idx <=> i <= x.logged)
  BY Retracing, Zenon
<1> DEFINE Goal == /\ u = s
                   /\ mode # "REPLAY" => last_rr_slot' = y.rr
                   /\ pair[2] # "REPLAY" => decision_count' = y.decisions
                   /\ current_idx' \in Nat /\ decision_count' \in Nat
                   /\ UNCHANGED <<diverged, dice>>
                   /\ pair[2] = "REPLAY" =>
                        \A i \in 1 .. Len(trace) : trace[i].type = "SWITCH" =>
                          (i <= current_idx' <=> i <= y.logged)
<1>3. ASSUME NEW m \in Slots, PickReady(m), mode # "REPLAY"
      PROVE  m = n /\ last_rr_slot' = y.rr
  <2>1. /\ PickIn(Core, last_rr_slot, m)
        /\ last_rr_slot' = IF Policy = "RR" THEN m ELSE last_rr_slot
    BY <1>3, PickDoes, Zenon
  <2>2. last_rr_slot = x.rr
    BY <1>2, <1>3, Zenon
  <2>3. m = n
    BY <1>1, <1>2, <2>1, <2>2, PickUnique, Zenon
  <2> QED
    BY <1>1, <2>1, <2>2, <2>3, Zenon
<1>4. ASSUME mode = "NORMAL" PROVE Goal
  <2>1. PickReady(u) /\ UNCHANGED <<current_idx, diverged, dice, decision_count>>
    BY <1>4, Zenon DEF PickReadyMode, replayVars, fuzzVars
  <2>2. x.logged = 0 /\ y.logged = 0 /\ s = n /\ y.decisions = x.decisions
    <3>1. log = <<>>
      BY <1>2, <1>4
    <3> QED
      BY <1>1, <1>2, <3>1, Zenon
  <2>3. u = n /\ last_rr_slot' = y.rr
    BY <1>3, <1>4, <2>1, Zenon
  <2> HIDE DEF x, y
  <2> QED
    BY <1>2, <2>1, <2>2, <2>3, Zenon
<1>5. ASSUME mode = "FUZZ" PROVE Goal
  <2>1. PICK m \in Slots : PickReady(m) /\ FuzzPickThread(m, u)
    BY <1>5, Zenon DEF PickReadyMode
  <2>2. UNCHANGED <<current_idx, diverged>>
    BY <1>5, Zenon DEF PickReadyMode, replayVars
  <2>3. m = n /\ last_rr_slot' = y.rr
    BY <1>3, <1>5, <2>1, Zenon
  <2>4. log # <<>> /\ pair[2] = "FUZZ"
    BY <1>2, <1>5
  <2>5. Rolled(x, y, n, s, dice) /\ pair[2] # "REPLAY"
    BY <1>1, <1>2, <2>4, Zenon
  <2>6. u = s /\ decision_count' = y.decisions /\ dice' = dice
    BY <2>1, <2>3, <2>5, SameDraw, Zenon
  <2> HIDE DEF x, y
  <2> QED
    BY <1>2, <2>2, <2>3, <2>5, <2>6, Zenon
<1>6. ASSUME mode = "REPLAY" PROVE Goal
  <2>1. /\ ReplayNextThread(u) /\ UNCHANGED <<diverged, dice, decision_count>>
    BY <1>6, Zenon DEF PickReadyMode, ReplayNextThread, fuzzVars
  <2>2. u = s /\ current_idx' = y.logged
    BY <1>6, <2>1, SameReplay, Zenon
  <2>3. pair[2] = "REPLAY"
    BY <1>2, <1>6
  <2> HIDE DEF x, y
  <2> QED
    BY <1>2, <1>6, <2>1, <2>2, <2>3, Zenon
<1>7. mode \in {"NORMAL", "FUZZ", "REPLAY"}
  BY <1>2
<1>8. Goal
  <2> HIDE DEF Goal
  <2> QED
    BY <1>4, <1>5, <1>6, <1>7, Zenon
<1> QED
  BY <1>8 DEF Goal
=============================================================================
