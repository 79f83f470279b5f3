----------------------------- MODULE MoveProofs -----------------------------
(***************************************************************************)
(* What each kind of step does to the threads asleep in a synchronization  *)
(* call and to those woken out of one.                                     *)
(*                                                                         *)
(* Then what a step can do to a mutex, a semaphore or a condition variable *)
(* and to those who wait for it: a handful of moves per object (MutexMove, *)
(* SemMove, CondMove). The steps on mutexes and semaphores make only such  *)
(* moves, if no thread is canceled; QueueProofs goes on with condition     *)
(* variables.                                                              *)
(***************************************************************************)
EXTENDS SyncProofs

----------------------------------------------------------------------------
(* What the steps of a synchronization call do to those who wait.          *)

LEMMA QuietJoins ==
  ASSUME SyncInv, Joins, next_tid' = next_tid, tid' = tid,
         \A s \in Slots : state'[s] # "EMPTY" => state[s] # "EMPTY",
         \A d \in Contexts : frame'[d] = frame[d] \/ frame'[d].call # "join"
  PROVE  Joins'
<1>1. \A t : Found(t)' \subseteq Found(t)
  BY DEF Found
<1> QED
  BY <1>1, ZenonT(40) DEF Joins

\* The swap of a thread that blocks: whoever runs next, no join is forgotten or
\* begun.
LEMMA SwapFrames ==
  ASSUME SyncInv, SwapToScheduler
  PROVE  \A d \in Contexts : frame'[d] = frame[d] \/ frame'[d].call # "join"
<1>1. frame \in [Contexts -> Frames]
  BY DEF SyncInv, SyncTypeOK, RuntimeTypeOK
<1> QED
  BY <1>1 DEF SwapToScheduler, NoFrame

\* The thread that executes is RUNNING, and neither asleep nor finished.
LEMMA CallerRuns ==
  ASSUME QueueInv, NEW c \in Slots, InUser(c)
  PROVE  state[c] = "RUNNING"
BY ContextFacts, Caller DEF QueueInv, SyncInv, ThreadsOK, NoneCanceled

LEMMA StateTypes ==
  ASSUME QueueInv
  PROVE  /\ state \in [Slots -> ThreadStates] /\ ContextInv /\ SyncInv
         /\ pc = [c \in Contexts |-> pc[c]]
         /\ Slots \subseteq Contexts
BY ContextFacts, Zenon DEF QueueInv, SyncInv, SyncTypeOK, RuntimeTypeOK

LEMMA ReturnMoves ==
  ASSUME QueueInv, NEW c \in Contexts, InUser(c), NEW st, Finish(c, st)
  PROVE  /\ ThreadsOK' /\ SleepersOnlyWake
         /\ \A call \in WaitCalls : \A obj :
              /\ Sleepers(call, obj)' = Sleepers(call, obj)
              /\ Roused(call, obj)' = Roused(call, obj) \ {c}
              /\ Elsewhere(c, call, obj) => Unmoved(call, obj)
<1>1. state' = state /\ tid' = tid /\ next_tid' = next_tid /\ frame' = frame
  BY DEF Finish, Return, table, control
<1>2. \A s \in Slots : pc'[s] = IF s = c THEN User ELSE pc[s]
  BY StateTypes, ZenonT(40) DEF Finish
<1>3. Joins'
  BY <1>1, QuietJoins, ZenonT(40) DEF QueueInv, ThreadsOK
<1>4. LiveWaiters' /\ NoneCanceled'
  BY <1>1, <1>2 DEF QueueInv, ThreadsOK, LiveWaiters, NoneCanceled, User, At
<1>5. User.at \notin WaitCalls /\ (c \in Slots => state[c] # "BLOCKED")
  BY CallerRuns, ZenonT(40) DEF User, At, WaitCalls
<1>6. ASSUME NEW call \in WaitCalls, NEW obj, NEW s \in Slots
      PROVE  /\ Sleeps(s, call, obj)' <=> Sleeps(s, call, obj)
             /\ WokenFrom(s, call, obj)' <=> WokenFrom(s, call, obj) /\ s # c
  BY <1>1, <1>2, <1>5, ZenonT(40) DEF Sleeps, WokenFrom
<1>7. \A call \in WaitCalls : \A obj :
        /\ Sleepers(call, obj)' = Sleepers(call, obj)
        /\ Roused(call, obj)' = Roused(call, obj) \ {c}
  BY <1>6, ZenonT(40) DEF Sleepers, Roused
<1>8. \A call, obj : Elsewhere(c, call, obj) => c \notin Roused(call, obj)
  BY DEF Elsewhere, Roused, WokenFrom
<1>9. SleepersOnlyWake
  BY <1>1, <1>2, <1>5, ZenonT(40) DEF SleepersOnlyWake
<1> QED
  BY <1>3, <1>4, <1>7, <1>8, <1>9 DEF ThreadsOK, Unmoved

LEMMA WakeMoves ==
  ASSUME QueueInv, NEW k \in WaitCalls, NEW o, NEW W, W \subseteq Sleepers(k, o),
         Unblock(W), pc' = pc
  PROVE  /\ ThreadsOK' /\ SleepersOnlyWake
         /\ Sleepers(k, o)' = Sleepers(k, o) \ W
         /\ Roused(k, o)' = Roused(k, o) \cup W
         /\ \A call \in WaitCalls : \A obj : call # k \/ obj # o => Unmoved(call, obj)
<1>1. W \subseteq Slots /\ \A s \in W : Sleeps(s, k, o) /\ state[s] = "BLOCKED"
  BY DEF Sleepers, Sleeps
<1>2. Woken(W) = W
  BY <1>1 DEF Woken
<1>3. \A s \in Slots : state'[s] = IF s \in W THEN "READY" ELSE state[s]
  BY <1>2 DEF Unblock
<1>4. tid' = tid /\ next_tid' = next_tid /\ frame' = frame
  BY ZenonT(40) DEF Unblock, control
<1>5. Joins'
  BY <1>1, <1>3, <1>4, QuietJoins, ZenonT(40) DEF QueueInv, ThreadsOK
<1>6. LiveWaiters' /\ NoneCanceled'
  BY <1>3, ZenonT(40) DEF QueueInv, ThreadsOK, LiveWaiters, NoneCanceled, User, At
<1>7. ASSUME NEW s \in Slots, NEW call \in WaitCalls, NEW obj
      PROVE  /\ Sleeps(s, call, obj)' <=> Sleeps(s, call, obj) /\ s \notin W
             /\ WokenFrom(s, call, obj)' <=>
                  WokenFrom(s, call, obj) \/ (Sleeps(s, call, obj) /\ s \in W)
  BY <1>1, <1>3, ZenonT(40) DEF Sleeps, WokenFrom
<1>8. \A s \in W : \A call, obj : Sleeps(s, call, obj) => call = k /\ obj = o
  BY <1>1 DEF Sleeps
<1> QED
  BY <1>1, <1>3, <1>5, <1>6, <1>7, <1>8, ZenonT(40)
  DEF ThreadsOK, SleepersOnlyWake, Unmoved, Sleepers, Roused

\* The caller c blocks on condition variable v, having woken sleepers W of mutex m.
LEMMA BlockMoves ==
  ASSUME QueueInv, NEW c \in Slots, InUser(c), pc[c] = User, NEW v, NEW m,
         NEW W, W \subseteq Sleepers("lock", m),
         Block(W), pc' = [pc EXCEPT ![c] = At("cond", v, m)]
  PROVE  /\ ThreadsOK' /\ SleepersOnlyWake
         /\ c \notin Sleepers("cond", v)
         /\ Sleepers("cond", v)' = Sleepers("cond", v) \cup {c}
         /\ Sleepers("lock", m)' = Sleepers("lock", m) \ W
         /\ Roused("lock", m)' = Roused("lock", m) \cup W
         /\ \A call \in WaitCalls : \A obj :
              (call # "cond" \/ obj # v) /\ (call # "lock" \/ obj # m) => Unmoved(call, obj)
<1>0. c \in Contexts /\ ContextInv
  BY StateTypes
<1>1. /\ W \subseteq Slots
      /\ \A s \in W : Sleeps(s, "lock", m) /\ state[s] = "BLOCKED"
  BY DEF Sleepers, Sleeps
<1>2. state[c] = "RUNNING" /\ c \notin W
  BY <1>1, CallerRuns, ZenonT(40)
<1>3. Woken(W) \cup (W \cap {c}) = W
  BY <1>1, <1>2 DEF Woken
<1>4. \A self \in Slots : FindThread(self, current_tid) <=> self = c
  BY <1>0, Caller, ZenonT(40)
<1>5. \A s \in Slots : state'[s] = IF s \in W THEN "READY"
                                   ELSE IF s = c THEN "BLOCKED" ELSE state[s]
  BY <1>3, <1>4, ZenonT(40) DEF Block
<1>6. tid' = tid /\ next_tid' = next_tid /\ SwapToScheduler
  BY DEF Block
<1>7. \A s \in Slots : pc'[s] = IF s = c THEN At("cond", v, m) ELSE pc[s]
  BY StateTypes, ZenonT(40)
<1>8. Joins'
  <2>1. \A d \in Contexts : frame'[d] = frame[d] \/ frame'[d].call # "join"
    BY <1>6, SwapFrames, ZenonT(40) DEF QueueInv
  <2>2. \A s \in Slots : state'[s] # "EMPTY" => state[s] # "EMPTY"
    BY <1>1, <1>2, <1>5
  <2> QED
    BY <1>6, <2>1, <2>2, QuietJoins, ZenonT(40) DEF QueueInv, ThreadsOK
<1>9. LiveWaiters' /\ NoneCanceled'
  BY <1>5, <1>7, ZenonT(40) DEF QueueInv, ThreadsOK, LiveWaiters, NoneCanceled, User, At
<1>10. /\ At("cond", v, m).at = "cond" /\ At("cond", v, m).obj = v
       /\ User.at \notin WaitCalls /\ "lock" \in WaitCalls /\ "cond" \in WaitCalls
  BY ZenonT(40) DEF At, User, WaitCalls
<1>11. ASSUME NEW s \in Slots, NEW call \in WaitCalls, NEW obj
       PROVE  /\ Sleeps(s, call, obj)' <=>
                   \/ Sleeps(s, call, obj) /\ s \notin W
                   \/ s = c /\ call = "cond" /\ obj = v
              /\ WokenFrom(s, call, obj)' <=>
                   WokenFrom(s, call, obj) \/ (Sleeps(s, call, obj) /\ s \in W)
  BY <1>1, <1>2, <1>5, <1>7, <1>10, SMTT(30) DEF Sleeps, WokenFrom
<1>12. \A s \in W : \A call, obj : Sleeps(s, call, obj) <=> call = "lock" /\ obj = m
  BY <1>1 DEF Sleeps
<1>13. c \notin Sleepers("cond", v)
  BY <1>2, ZenonT(40) DEF Sleepers, Sleeps
<1>14. Sleepers("cond", v)' = Sleepers("cond", v) \cup {c}
  BY <1>1, <1>10, <1>11, <1>12 DEF Sleepers
<1>15. Sleepers("lock", m)' = Sleepers("lock", m) \ W
  BY <1>10, <1>11, ZenonT(40) DEF Sleepers
<1>16. Roused("lock", m)' = Roused("lock", m) \cup W
  BY <1>1, <1>10, <1>11, ZenonT(40) DEF Roused
<1>17. ASSUME NEW call \in WaitCalls, NEW obj,
              call # "cond" \/ obj # v, call # "lock" \/ obj # m
       PROVE  Unmoved(call, obj)
  BY <1>1, <1>11, <1>12, <1>17, SMTT(30) DEF Unmoved, Sleepers, Roused
<1>18. SleepersOnlyWake
  BY <1>2, <1>5, <1>7, ZenonT(40) DEF SleepersOnlyWake
<1> QED
  BY <1>8, <1>9, <1>13, <1>14, <1>15, <1>16, <1>17, <1>18, ZenonT(40) DEF ThreadsOK

\* The caller c blocks in call k on o; nobody is woken.
LEMMA WaitMoves ==
  ASSUME QueueInv, NEW c \in Slots, InUser(c), NEW k \in WaitCalls, NEW o, NEW m,
         Block({}), pc' = [pc EXCEPT ![c] = At(k, o, m)]
  PROVE  /\ ThreadsOK' /\ SleepersOnlyWake
         /\ c \notin Sleepers(k, o)
         /\ Sleepers(k, o)' = Sleepers(k, o) \cup {c}
         /\ Roused(k, o)' = Roused(k, o) \ {c}
         /\ \A call \in WaitCalls : \A obj : call # k \/ obj # o =>
              /\ Sleepers(call, obj)' = Sleepers(call, obj)
              /\ Elsewhere(c, call, obj) => Unmoved(call, obj)
<1>0. c \in Contexts /\ ContextInv /\ state[c] = "RUNNING"
  BY StateTypes, CallerRuns
<1>1. Woken({}) \cup ({} \cap {c}) = {}
  BY DEF Woken
<1>2. \A self \in Slots : FindThread(self, current_tid) <=> self = c
  BY <1>0, Caller, ZenonT(40)
<1>3. \A s \in Slots : state'[s] = IF s = c THEN "BLOCKED" ELSE state[s]
  BY <1>1, <1>2, ZenonT(40) DEF Block
<1>4. tid' = tid /\ next_tid' = next_tid /\ SwapToScheduler
  BY DEF Block
<1>5. \A s \in Slots : pc'[s] = IF s = c THEN At(k, o, m) ELSE pc[s]
  BY StateTypes, ZenonT(40)
<1>6. Joins'
  <2>1. \A d \in Contexts : frame'[d] = frame[d] \/ frame'[d].call # "join"
    BY <1>4, SwapFrames DEF QueueInv
  <2>2. \A s \in Slots : state'[s] # "EMPTY" => state[s] # "EMPTY"
    BY <1>0, <1>3, ZenonT(40)
  <2> QED
    BY <1>4, <2>1, <2>2, QuietJoins, ZenonT(40) DEF QueueInv, ThreadsOK
<1>7. LiveWaiters' /\ NoneCanceled'
  BY <1>3, <1>5 DEF QueueInv, ThreadsOK, LiveWaiters, NoneCanceled, User, At
<1>8. At(k, o, m).at = k /\ At(k, o, m).obj = o
  BY ZenonT(40) DEF At
<1>9. ASSUME NEW s \in Slots, NEW call \in WaitCalls, NEW obj
      PROVE  /\ Sleeps(s, call, obj)' <=>
                  Sleeps(s, call, obj) \/ (s = c /\ call = k /\ obj = o)
             /\ WokenFrom(s, call, obj)' <=> WokenFrom(s, call, obj) /\ s # c
  BY <1>0, <1>3, <1>5, <1>8, ZenonT(40) DEF Sleeps, WokenFrom
<1>10. c \notin Sleepers(k, o)
  BY <1>0, ZenonT(40) DEF Sleepers, Sleeps
<1>11. Sleepers(k, o)' = Sleepers(k, o) \cup {c} /\ Roused(k, o)' = Roused(k, o) \ {c}
  BY <1>9, ZenonT(40) DEF Sleepers, Roused
<1>12. ASSUME NEW call \in WaitCalls, NEW obj, call # k \/ obj # o
       PROVE  /\ Sleepers(call, obj)' = Sleepers(call, obj)
              /\ Roused(call, obj)' = Roused(call, obj) \ {c}
  BY <1>9, <1>12 DEF Sleepers, Roused
<1>13. \A call, obj : Elsewhere(c, call, obj) => c \notin Roused(call, obj)
  BY DEF Elsewhere, Roused, WokenFrom
<1>14. SleepersOnlyWake
  BY <1>0, <1>3, <1>5, ZenonT(40) DEF SleepersOnlyWake
<1> QED
  BY <1>6, <1>7, <1>10, <1>11, <1>12, <1>13, <1>14, SMTT(30) DEF ThreadsOK, Unmoved

\* gth_cond_wait that gives up leaves its caller as it was.
LEMMA UndoMoves ==
  ASSUME QueueInv, NEW c \in Slots, InUser(c), GiveUp("ESTATE"), pc' = pc
  PROVE  /\ ThreadsOK' /\ SleepersOnlyWake
         /\ \A call \in WaitCalls : \A obj : Unmoved(call, obj)
<1>1. c \in Contexts /\ ContextInv
  BY StateTypes
<1>2. state' = [state EXCEPT ![c] = "RUNNING"]
  BY <1>1, Caller, Zenon DEF GiveUp
<1>3. state' = state
  BY <1>2, CallerRuns, StateTypes, ZenonT(40)
<1>4. tid' = tid /\ next_tid' = next_tid /\ frame' = frame
  BY DEF GiveUp, control
<1>5. Joins'
  BY <1>3, <1>4, QuietJoins, ZenonT(40) DEF QueueInv, ThreadsOK
<1> QED
  BY <1>3, <1>5
  DEF QueueInv, ThreadsOK, LiveWaiters, NoneCanceled, Sleepers, Roused, Sleeps, WokenFrom,
      SleepersOnlyWake, Unmoved

----------------------------------------------------------------------------
(* The steps of Threads itself leave waiters alone.                        *)

\* What those steps may do to the state of a thread, when nothing is canceled.
Plain ==
  /\ \A s \in Slots : state'[s] # "CANCELED"
  /\ \A s \in Slots : state'[s] = "BLOCKED" <=> state[s] = "BLOCKED"
  /\ \A s \in Slots : pc[s] # User =>
       (state'[s] \in {"READY", "RUNNING"} <=> state[s] \in {"READY", "RUNNING"})
  /\ Joins'

LEMMA DispatchPlain ==
  ASSUME QueueInv, NEW c \in Contexts, NEW f \in Frames, Dispatch(c, f),
         f.call = "join" => /\ f.tid < next_tid
                            /\ \A s \in Found(f.tid) : s = f.slot
  PROVE  Plain
<1>1. PICK s \in Slots : PickReady(s) /\ DispatchTo(c, f, s)
  BY ZenonT(40) DEF Dispatch
<1>2. state[s] = "READY"
  BY <1>1, ZenonT(40) DEF PickReady, PickRR, PickPriority, ReadySlots
<1>3. state' = [state EXCEPT ![s] = "RUNNING"] /\ frame' = [frame EXCEPT ![c] = f]
      /\ tid' = tid /\ next_tid' = next_tid
  BY <1>1, ZenonT(40) DEF DispatchTo
<1>4. state \in [Slots -> ThreadStates] /\ frame \in [Contexts -> Frames]
  BY ZenonT(40) DEF QueueInv, SyncInv, SyncTypeOK, RuntimeTypeOK
<1>5. \A t : Found(t)' = Found(t)
  BY <1>2, <1>3, <1>4 DEF Found
<1>6. Joins'
  BY <1>3, <1>4, <1>5, ZenonT(40) DEF Joins, QueueInv, ThreadsOK
<1> QED
  BY <1>2, <1>3, <1>4, <1>6, ZenonT(40) DEF Plain, QueueInv, ThreadsOK, NoneCanceled

LEMMA JoinReturnPlain ==
  ASSUME QueueInv, NEW c \in Contexts, NEW st, JoinReturn(c, st)
  PROVE  Plain
<1>1. state' = state /\ tid' = tid /\ next_tid' = next_tid
      /\ frame' = [frame EXCEPT ![c] = NoFrame] /\ frame \in [Contexts -> Frames]
  BY DEF JoinReturn, table, QueueInv, SyncInv, SyncTypeOK, RuntimeTypeOK
<1>2. \A d \in Contexts : frame'[d] = frame[d] \/ frame'[d].call # "join"
  BY <1>1 DEF NoFrame
<1>3. Joins'
  BY <1>1, <1>2, QuietJoins, ZenonT(40) DEF QueueInv, ThreadsOK
<1> QED
  BY <1>1, <1>3, ZenonT(40) DEF Plain, QueueInv, ThreadsOK, NoneCanceled

LEMMA RunUntilPlain ==
  ASSUME QueueInv, NEW c \in Contexts, NEW t \in Nat, NEW s \in Slots, RunUntil(c, t, s),
         t < next_tid, \A u \in Found(t) : u = s
  PROVE  Plain
<1>1. current_tid \in Nat
  BY ZenonT(40) DEF QueueInv, SyncInv, SyncTypeOK, RuntimeTypeOK
<1>2. JoinFrame(t, s) \in Frames
  BY <1>1, FrameTypes, ZenonT(40) DEF JoinFrame
<1>3. JoinFrame(t, s).tid = t /\ JoinFrame(t, s).slot = s
  BY DEF JoinFrame
<1>4. CASE Dispatch(c, JoinFrame(t, s))
  BY <1>2, <1>3, <1>4, DispatchPlain, ZenonT(40)
<1> QED
  BY <1>4, JoinReturnPlain, ZenonT(40) DEF RunUntil

\* join releases a slot whose thread has finished.
LEMMA ReleasePlain ==
  ASSUME QueueInv, NEW c \in Contexts, NEW s \in Slots, state[s] \in Terminal,
         ReleaseSlot(c, s)
  PROVE  Plain
<1>0. /\ state \in [Slots -> ThreadStates] /\ frame \in [Contexts -> Frames]
      /\ tid \in [Slots -> Nat] /\ Slots \subseteq Contexts
  BY ContextFacts, ZenonT(40) DEF QueueInv, SyncInv, SyncTypeOK, RuntimeTypeOK
<1>1. /\ state' = [state EXCEPT ![s] = "EMPTY"] /\ tid' = [tid EXCEPT ![s] = 0]
      /\ next_tid' = next_tid
      /\ frame' = [frame EXCEPT ![c] = NoFrame, ![s] = NoFrame]
  BY DEF ReleaseSlot
<1>2. \A d \in Contexts : frame'[d] = frame[d] \/ frame'[d].call # "join"
  BY <1>0, <1>1, ZenonT(40) DEF NoFrame
<1>3. \A t : Found(t)' \subseteq Found(t)
  BY <1>0, <1>1 DEF Found
<1>4. Joins'
  BY <1>1, <1>2, <1>3, ZenonT(40) DEF Joins, QueueInv, ThreadsOK
<1>5. state[s] # "BLOCKED" /\ state[s] \notin {"READY", "RUNNING"}
  BY DEF Terminal
<1>6. pc[s] = User
  BY <1>5 DEF QueueInv, ThreadsOK, LiveWaiters
<1> QED
  BY <1>0, <1>1, <1>4, <1>5, <1>6, ZenonT(40) DEF Plain, QueueInv, ThreadsOK, NoneCanceled

LEMMA NoCancelCalls ==
  ASSUME NoCancel, NEW c \in Contexts
  PROVE  ~Allowed(c, "cancel") /\ ~Allowed(c, "cancel_self")
BY DEF NoCancel, AnyCalls, Allowed

LEMMA ThreadStepPlain ==
  ASSUME NoCancel, QueueInv, NEW c \in Contexts, pc[c] = User, ThreadStep(c)
  PROVE  Plain
<1>0. /\ ContextInv /\ SyncInv /\ Joins /\ NoneCanceled
      /\ state \in [Slots -> ThreadStates] /\ frame \in [Contexts -> Frames]
      /\ next_tid \in Nat /\ current_tid \in Nat /\ tid \in [Slots -> Nat]
  BY ZenonT(40) DEF QueueInv, ThreadsOK, SyncInv, SyncTypeOK, RuntimeTypeOK
<1>1. ASSUME UNCHANGED <<state, tid, next_tid, frame>>
      PROVE  Plain
  BY <1>0, <1>1, QuietJoins DEF Plain, NoneCanceled
<1>2. ASSUME NEW st, Return(st)
      PROVE  Plain
  BY <1>1, <1>2, ZenonT(40) DEF Return, table, control
<1>3. CASE RuntimeInit(c)
  <2>1. /\ cpu = c /\ frame[c].call = "none" /\ ~initialized /\ state' = NoThreads
        /\ frame' = frame
    BY <1>3, ZenonT(40) DEF RuntimeInit, InUser
  <2>2. cpu \notin Slots /\ \A s \in Slots : state[s] = "EMPTY"
    BY <1>0, <2>1, ZenonT(40) DEF ContextInv, ContextsExact
  <2>3. \A d \in Contexts : frame'[d].call # "join"
    <3>1. \A s \in Slots : frame[s].call = "none"
      BY <1>0, <2>2, ZenonT(40) DEF ContextInv, ContextsExact
    <3>2. c = Main
      BY <2>1, <2>2 DEF Contexts
    <3> QED
      BY <2>1, <3>1, <3>2, ZenonT(40) DEF Contexts
  <2>4. Joins'
    BY <2>3, ZenonT(40) DEF Joins
  <2>5. \A s \in Slots : state'[s] = "EMPTY"
    BY <2>1 DEF NoThreads
  <2> QED
    BY <2>2, <2>4, <2>5, ZenonT(40) DEF Plain
<1>4. CASE RuntimeInitRefused(c) \/ NotInitialized(c) \/ ThreadCreateRefused(c)
  BY <1>2, <1>4, ZenonT(40) DEF RuntimeInitRefused, NotInitialized, ThreadCreateRefused
<1>5. ASSUME next_tid' = next_tid + 1, frame' = frame,
             NEW S \in SUBSET Slots,
             \A s \in S : /\ state[s] = "EMPTY" /\ state'[s] = "READY"
                          /\ tid'[s] = next_tid,
             \A s \in Slots \ S : state'[s] = state[s] /\ tid'[s] = tid[s]
      PROVE  Plain
  <2>1. \A t \in Nat : t < next_tid => Found(t)' \subseteq Found(t)
    BY <1>0, <1>5, SMTT(30) DEF Found
  <2>2. Joins'
    BY <1>0, <1>5, <2>1, SMTT(30) DEF Joins, Frames
  <2>3. \A s \in S : pc[s] = User
    BY <1>5 DEF QueueInv, ThreadsOK, LiveWaiters
  <2> QED
    BY <1>0, <1>5, <2>2, <2>3, ZenonT(40) DEF Plain, NoneCanceled
<1>6. CASE ThreadCreateFails(c)
  <2>1. next_tid' = next_tid + 1 /\ UNCHANGED <<state, tid, frame>>
    BY <1>6 DEF ThreadCreateFails, table, control
  <2>2. {} \in SUBSET Slots
    OBVIOUS
  <2> QED
    BY <1>5, <2>1, <2>2, Zenon
<1>7. CASE MainYield(c)
  <2>1. YieldFrame \in Frames /\ YieldFrame.call # "join"
    BY <1>0, FrameTypes DEF YieldFrame
  <2> QED
    BY <1>2, <1>7, <2>1, DispatchPlain, ZenonT(40) DEF MainYield
<1>8. CASE ThreadYield(c)
  <2>1. PICK s \in Slots : /\ FindThread(s, current_tid)
                           /\ state' = [state EXCEPT ![s] = "READY"]
    BY <1>8, Zenon DEF ThreadYield
  <2>2. cpu = c /\ SwapToScheduler /\ tid' = tid /\ next_tid' = next_tid
    BY <1>8, CallerIsCpu DEF ThreadYield
  <2>3. c = s /\ state[s] # "EMPTY" /\ InUser(c)
    BY <1>0, <1>8, <2>1, <2>2, CurrentSlot, ZenonT(40) DEF ThreadYield, Calls
  <2>4. state[s] = "RUNNING"
    BY <2>3, CallerRuns, ZenonT(40)
  <2>5. Joins'
    BY <1>0, <2>1, <2>2, <2>4, SwapFrames, QuietJoins, ZenonT(40)
  <2> QED
    BY <1>0, <2>1, <2>3, <2>4, <2>5, ZenonT(40) DEF Plain, NoneCanceled
<1>9. CASE JoinLoop(c)
  <2> DEFINE f == frame[c]
  <2>1. /\ f.call = "join" /\ f \in Frames /\ f.tid \in Nat /\ f.slot \in Slots
        /\ f.tid < next_tid
        /\ \A s \in Found(f.tid) : s = f.slot
    BY <1>0, <1>9, Zenon DEF JoinLoop, Joins, Frames
  <2>2. ASSUME NEW s \in Slots, FindThread(s, f.tid), ReleaseSlot(c, s),
               state[f.slot] \in Terminal
        PROVE  Plain
    <3>1. s = f.slot
      BY <2>1, <2>2 DEF FindThread
    <3> QED
      BY <2>2, <3>1, ReleasePlain
  <2> QED
    BY <1>9, <2>1, <2>2, RunUntilPlain, JoinReturnPlain, ZenonT(40) DEF JoinLoop
<1>10. ASSUME NEW p \in Priorities, ThreadCreate(c, p)
       PROVE  Plain
  <2>1. PICK s \in Slots : /\ state[s] = "EMPTY"
                           /\ state' = [state EXCEPT ![s] = "READY"]
                           /\ tid' = [tid EXCEPT ![s] = next_tid]
    BY <1>10, ZenonT(40) DEF ThreadCreate, AllocSlot, EmptySlots
  <2>2. next_tid' = next_tid + 1 /\ frame' = frame
    BY <1>10 DEF ThreadCreate, control
  <2>3. /\ {s} \in SUBSET Slots
        /\ \A u \in {s} : /\ state[u] = "EMPTY" /\ state'[u] = "READY"
                          /\ tid'[u] = next_tid
        /\ \A u \in Slots \ {s} : state'[u] = state[u] /\ tid'[u] = tid[u]
    BY <1>0, <2>1, ZenonT(40)
  <2> QED
    BY <1>5, <2>2, <2>3, Zenon
<1>11. ASSUME NEW t \in Tids, ThreadJoinRefused(c, t) \/ ThreadCancelRefused(c, t)
       PROVE  Plain
  BY <1>2, <1>11, ZenonT(40) DEF ThreadJoinRefused, ThreadCancelRefused
<1>12. ASSUME NEW t \in Tids, ThreadJoin(c, t)
       PROVE  Plain
  <2>1. t \in Nat
    BY <1>12, RuntimeAssumption DEF Tids
  <2>2. PICK s \in Slots :
          /\ FindThread(s, t)
          /\ \/ state[s] \in Terminal /\ ReleaseSlot(c, s)
             \/ RunUntil(c, t, s)
    BY <1>12, ZenonT(40) DEF ThreadJoin
  <2>3. t < next_tid /\ \A u \in Found(t) : u = s
    <3>1. \A u \in Found(t) : u \in Slots /\ state[u] # "EMPTY" /\ tid[u] = t
      BY DEF Found
    <3>2. s \in Found(t)
      BY <2>2 DEF FindThread
    <3>3. tid[s] \in 1 .. next_tid - 1
      BY <1>0, <3>1, <3>2, ZenonT(40) DEF ContextInv, TidsUnique
    <3> QED
      BY <1>0, <3>1, <3>2, <3>3, SMTT(30) DEF ContextInv, TidsUnique
  <2> QED
    BY <2>1, <2>2, <2>3, ReleasePlain, RunUntilPlain, SMTT(30)
<1>13. ASSUME NEW t \in Tids, ThreadCancel(c, t)
       PROVE  FALSE
  BY <1>13, NoCancelCalls DEF ThreadCancel, Calls
<1> QED
  BY <1>3, <1>4, <1>6, <1>7, <1>8, <1>9, <1>10, <1>11, <1>12, <1>13, ZenonT(40)
  DEF ThreadStep

LEMMA ExitPlain ==
  ASSUME QueueInv, NEW s \in Slots, pc[s] = User, ThreadExit(s)
  PROVE  Plain
<1>0. /\ SyncInv /\ Joins /\ NoneCanceled /\ state \in [Slots -> ThreadStates]
  BY ZenonT(40) DEF QueueInv, ThreadsOK, SyncInv, SyncTypeOK, RuntimeTypeOK
<1>1. InUser(s) /\ SwapToScheduler /\ tid' = tid /\ next_tid' = next_tid
  BY ZenonT(40) DEF ThreadExit
<1>2. state[s] = "RUNNING"
  BY <1>1, CallerRuns, ZenonT(40)
<1>3. state' = [state EXCEPT ![s] = "DONE"]
  BY <1>2 DEF ThreadExit
<1>4. Joins'
  BY <1>0, <1>1, <1>2, <1>3, SwapFrames, QuietJoins, ZenonT(40)
<1> QED
  BY <1>0, <1>2, <1>3, <1>4, ZenonT(40) DEF Plain, NoneCanceled

LEMMA PlainMoves ==
  ASSUME NoCancel, QueueInv, PlainStep
  PROVE  /\ ThreadsOK' /\ SleepersOnlyWake
         /\ \A call \in WaitCalls : \A obj : Unmoved(call, obj)
<1>1. Plain
  BY ThreadStepPlain, ExitPlain, ZenonT(40) DEF PlainStep
<1>2. ASSUME NEW s \in Slots
      PROVE  /\ pc'[s] = pc[s]
             /\ pc[s] # User => state'[s] \in {"BLOCKED", "READY", "RUNNING"}
  <2>1. pc[s] # User => state'[s] \in {"BLOCKED", "READY", "RUNNING"}
    BY <1>1 DEF Plain, QueueInv, ThreadsOK, LiveWaiters
  <2>2. pc'[s] = IF state'[s] = "EMPTY" THEN User ELSE pc[s]
    BY StateTypes, ZenonT(40) DEF PlainStep
  <2> QED
    BY <2>1, <2>2, ZenonT(40)
<1>3. ThreadsOK'
  BY <1>1, <1>2, ZenonT(40) DEF Plain, ThreadsOK, LiveWaiters, NoneCanceled, User, At
<1>4. User.at \notin WaitCalls
  BY DEF User, At, WaitCalls
<1>5. ASSUME NEW s \in Slots, NEW call \in WaitCalls, NEW obj
      PROVE  /\ Sleeps(s, call, obj)' <=> Sleeps(s, call, obj)
             /\ WokenFrom(s, call, obj)' <=> WokenFrom(s, call, obj)
  <2>1. CASE pc[s] = User
    BY <1>2, <1>4, <2>1, ZenonT(40) DEF Sleeps, WokenFrom
  <2>2. CASE pc[s] # User
    BY <1>1, <1>2, <2>2, ZenonT(40) DEF Plain, Sleeps, WokenFrom
  <2> QED
    BY <2>1, <2>2, ZenonT(40)
<1>6. SleepersOnlyWake
  BY <1>1, <1>2 DEF SleepersOnlyWake, Plain
<1> QED
  BY <1>3, <1>5, <1>6, ZenonT(40) DEF Sleepers, Roused, Unmoved

----------------------------------------------------------------------------
(* The moves: what a step can do to an object and to those who wait for it. *)

QueueSame(call, obj, q, r) == r = q /\ Sleepers(call, obj)' = Sleepers(call, obj)
QueueGrows(call, obj, q, r, c) ==
  /\ c \in Slots /\ ~WqIsFull(q) /\ c \notin Sleepers(call, obj)
  /\ r = WqEnqueue(q, c) /\ Sleepers(call, obj)' = Sleepers(call, obj) \cup {c}
QueueHeadLeaves(call, obj, q, r) ==
  r = WqDequeue(q) /\ Sleepers(call, obj)' = Sleepers(call, obj) \ WqHead(q)
QueueCleared(call, obj, q, r) == r = <<>> /\ Sleepers(call, obj)' = {}

QueueMove(call, obj, q, r) ==
  \/ QueueSame(call, obj, q, r)
  \/ \E c \in Slots : QueueGrows(call, obj, q, r, c)
  \/ QueueHeadLeaves(call, obj, q, r)
  \/ QueueCleared(call, obj, q, r)

\* Mutex m: nothing happens to it.
MutexSame(m) ==
  mutex'[m] = mutex[m] /\ holders'[m] = holders[m] /\ Unmoved("lock", m)

\* The caller, c, returns from lock or trylock with it.
MutexTaken(m, c) ==
  /\ ~mutex[m].locked
  /\ mutex[m].initialized \/ c \in Roused("lock", m)
  /\ current_tid # 0 \/ "lock" \in MainCalls
  /\ mutex'[m].initialized = mutex[m].initialized
  /\ mutex'[m].locked /\ mutex'[m].owner = current_tid
  /\ holders'[m] = holders[m] \cup {current_tid}
  /\ QueueSame("lock", m, mutex[m].wq, mutex'[m].wq)
  /\ Roused("lock", m)' = Roused("lock", m) \ {c}

\* A woken waiter c finds it taken, and its queue full.
MutexRefused(m, c) ==
  /\ mutex[m].locked
  /\ mutex'[m] = mutex[m] /\ holders'[m] = holders[m]
  /\ Sleepers("lock", m)' = Sleepers("lock", m)
  /\ Roused("lock", m)' = Roused("lock", m) \ {c}

\* c waits for it.
MutexAwaited(m, c) ==
  /\ mutex[m].locked /\ mutex[m].initialized
  /\ mutex'[m].initialized /\ mutex'[m].locked /\ mutex'[m].owner = mutex[m].owner
  /\ holders'[m] = holders[m]
  /\ QueueGrows("lock", m, mutex[m].wq, mutex'[m].wq, c)
  /\ Roused("lock", m)' = Roused("lock", m) \ {c}

\* It is released, and the first waiter is woken.
MutexFreed(m) ==
  /\ Unlockable(m)
  /\ current_tid \in holders[m] \/ "foreign_unlock" \in AnyCalls
  /\ mutex'[m].initialized /\ ~mutex'[m].locked
  /\ holders'[m] = holders[m] \ {current_tid}
  /\ QueueHeadLeaves("lock", m, mutex[m].wq, mutex'[m].wq)
  /\ Roused("lock", m)' = Roused("lock", m) \cup WqHead(mutex[m].wq)

\* It is initialized or destroyed.
MutexReset(m) ==
  /\ ~mutex[m].initialized \/ ~mutex[m].locked
  /\ ~mutex'[m].locked /\ mutex'[m].wq = <<>> /\ mutex[m].wq = <<>>
  /\ holders'[m] = holders[m]
  /\ Unmoved("lock", m)
  /\ \/ mutex'[m].initialized
     \/ Roused("lock", m) = {}
     \/ "destroy_in_use" \in AnyCalls

MutexMove(m) ==
  \/ MutexSame(m) \/ MutexFreed(m) \/ MutexReset(m)
  \/ \E c \in Contexts : MutexTaken(m, c) \/ MutexRefused(m, c) \/ MutexAwaited(m, c)

\* Semaphore x: nothing happens; the caller takes a permit from the count; c
\* waits; a woken waiter c returns; a permit is handed to the first waiter, or
\* counted; the semaphore is initialized or destroyed.
SemSame(x) == sem'[x] = sem[x] /\ permits'[x] = permits[x] /\ Unmoved("sem", x)
SemTaken(x) ==
  /\ sem[x].count > 0 /\ sem'[x].count = sem[x].count - 1
  /\ permits'[x] = permits[x] - 1
  /\ sem[x].initialized /\ sem'[x].initialized
  /\ sem'[x].wq = sem[x].wq /\ Unmoved("sem", x)
SemAwaited(x, c) ==
  /\ sem[x].count = 0 /\ sem'[x].count = 0 /\ permits'[x] = permits[x]
  /\ sem[x].initialized /\ sem'[x].initialized
  /\ QueueGrows("sem", x, sem[x].wq, sem'[x].wq, c)
  /\ Roused("sem", x)' = Roused("sem", x)
SemGranted(x, c) ==
  /\ c \in Roused("sem", x) /\ Roused("sem", x)' = Roused("sem", x) \ {c}
  /\ Sleepers("sem", x)' = Sleepers("sem", x)
  /\ permits'[x] = permits[x] - 1 /\ sem'[x] = sem[x]
SemHanded(x) ==
  /\ sem[x].wq # <<>> /\ sem'[x].count = sem[x].count /\ permits'[x] = permits[x] + 1
  /\ sem[x].initialized /\ sem'[x].initialized
  /\ QueueHeadLeaves("sem", x, sem[x].wq, sem'[x].wq)
  /\ Roused("sem", x)' = Roused("sem", x) \cup WqHead(sem[x].wq)
SemCounted(x) ==
  /\ sem[x].wq = <<>> /\ sem'[x].wq = <<>>
  /\ sem[x].initialized /\ sem'[x].initialized
  /\ sem'[x].count = sem[x].count + 1 /\ permits'[x] = permits[x] + 1
  /\ Unmoved("sem", x)
SemReset(x) ==
  /\ sem[x].wq = <<>> /\ sem'[x].wq = <<>>
  /\ sem'[x].initialized \/ sem'[x].count = 0
  /\ permits'[x] = permits[x] - sem[x].count + sem'[x].count
  /\ Unmoved("sem", x)

SemMove(x) ==
  \/ SemSame(x) \/ SemTaken(x) \/ SemHanded(x) \/ SemCounted(x) \/ SemReset(x)
  \/ \E c \in Slots : SemAwaited(x, c) \/ SemGranted(x, c)

CondMove(v) ==
  /\ QueueMove("cond", v, cond[v].wq, cond'[v].wq)
  /\ cond'[v].initialized \/ cond'[v].wq = <<>>

Moves ==
  /\ ThreadsOK' /\ SleepersOnlyWake
  /\ \A m \in Mutexes : MutexMove(m)
  /\ \A x \in Sems : SemMove(x)
  /\ \A v \in Conds : CondMove(v)



----------------------------------------------------------------------------
(* Every step is made of these moves.                                      *)

LEMMA SyncTypes ==
  ASSUME SyncInv
  PROVE  /\ \A m \in Mutexes : /\ mutex[m].wq \in Seq(Slots) /\ holders[m] \in SUBSET Nat
                               /\ mutex[m].locked \in BOOLEAN
                               /\ mutex[m].initialized \in BOOLEAN
         /\ \A x \in Sems : /\ sem[x].wq \in Seq(Slots) /\ sem[x].count \in Nat
                            /\ sem[x].initialized \in BOOLEAN /\ permits[x] \in Int
         /\ \A v \in Conds : cond[v].wq \in Seq(Slots)
BY SemAssumption DEF SyncInv, SyncTypeOK

LEMMA CondStays ==
  ASSUME QueueInv, NEW v \in Conds, cond'[v] = cond[v],
         Sleepers("cond", v)' = Sleepers("cond", v)
  PROVE  CondMove(v)
BY DEF QueueInv, Blank, CondMove, QueueMove, QueueSame

LEMMA WaitCallNames == "lock" \in WaitCalls /\ "sem" \in WaitCalls /\ "cond" \in WaitCalls
BY DEF WaitCalls

LEMMA NowhereInUser ==
  ASSUME NEW c, pc[c] = User
  PROVE  \A call \in WaitCalls : \A obj : Elsewhere(c, call, obj)
BY DEF Elsewhere, User, At, WaitCalls

\* A call returns and has changed no object.
LEMMA ReturnStep ==
  ASSUME QueueInv, NEW c \in Contexts, InUser(c), NEW st, Finish(c, st),
         UNCHANGED <<mutexVars, semVars, cond>>,
         \A x \in Sems : Elsewhere(c, "sem", x),
         \A m \in Mutexes : Elsewhere(c, "lock", m) \/ mutex[m].locked
  PROVE  Moves
<1>0. mutex' = mutex /\ holders' = holders /\ sem' = sem /\ permits' = permits /\ cond' = cond
  BY DEF mutexVars, semVars
<1>1. /\ ThreadsOK' /\ SleepersOnlyWake
      /\ \A call \in WaitCalls : \A obj :
           /\ Sleepers(call, obj)' = Sleepers(call, obj)
           /\ Roused(call, obj)' = Roused(call, obj) \ {c}
           /\ Elsewhere(c, call, obj) => Unmoved(call, obj)
  BY ReturnMoves
<1>2. ASSUME NEW m \in Mutexes
      PROVE  MutexMove(m)
  <2>1. CASE Elsewhere(c, "lock", m)
    BY <1>0, <1>1, <2>1, WaitCallNames, ZenonT(40) DEF MutexMove, MutexSame
  <2>2. CASE mutex[m].locked
    <3>1. MutexRefused(m, c)
      BY <1>0, <1>1, <2>2, WaitCallNames, ZenonT(40) DEF MutexRefused
    <3> QED
      BY <3>1 DEF MutexMove
  <2> QED
    BY <2>1, <2>2
<1>3. ASSUME NEW x \in Sems
      PROVE  SemMove(x)
  BY <1>0, <1>1, WaitCallNames, ZenonT(40) DEF SemMove, SemSame
<1>4. ASSUME NEW v \in Conds
      PROVE  CondMove(v)
  BY <1>0, <1>1, CondStays, WaitCallNames, ZenonT(40)
<1> QED
  BY <1>1, <1>2, <1>3, <1>4, ZenonT(40) DEF Moves

LEMMA UserReturnStep ==
  ASSUME QueueInv, NEW c \in Contexts, SyncCall(c), NEW st, Finish(c, st),
         UNCHANGED <<mutexVars, semVars, cond>>
  PROVE  Moves
<1>1. InUser(c) /\ \A call \in WaitCalls : \A obj : Elsewhere(c, call, obj)
  BY NowhereInUser DEF SyncCall
<1> QED
  BY <1>1, ReturnStep, WaitCallNames, ZenonT(40)

\* The fields written by Acquire and Unlocked.
LEMMA AcquireFields ==
  ASSUME SyncInv, NEW m \in Mutexes, Acquire(m)
  PROVE  /\ mutex'[m].initialized = mutex[m].initialized /\ mutex'[m].wq = mutex[m].wq
         /\ mutex'[m].locked /\ mutex'[m].owner = current_tid
         /\ holders'[m] = holders[m] \cup {current_tid}
         /\ \A n \in Mutexes : n # m => mutex'[n] = mutex[n] /\ holders'[n] = holders[n]
BY DEF Acquire, SyncInv, SyncTypeOK

LEMMA UnlockedFields ==
  ASSUME SyncInv, NEW m \in Mutexes, Unlocked(m)
  PROVE  /\ mutex'[m].initialized = mutex[m].initialized
         /\ mutex'[m].wq = WqDequeue(mutex[m].wq)
         /\ ~mutex'[m].locked
         /\ holders'[m] = holders[m] \ {current_tid}
         /\ \A n \in Mutexes : n # m => mutex'[n] = mutex[n] /\ holders'[n] = holders[n]
BY DEF Unlocked, SyncInv, SyncTypeOK

\* lock or trylock returns with the mutex.
LEMMA AcquireStep ==
  ASSUME QueueInv, NEW c \in Contexts, InUser(c), NEW st, Finish(c, st),
         NEW m \in Mutexes, Acquire(m), UNCHANGED <<semVars, cond>>,
         ~mutex[m].locked,
         mutex[m].initialized \/ c \in Roused("lock", m),
         current_tid # 0 \/ "lock" \in MainCalls,
         \A x \in Sems : Elsewhere(c, "sem", x),
         \A n \in Mutexes : n # m => Elsewhere(c, "lock", n)
  PROVE  Moves
<1>0. sem' = sem /\ permits' = permits /\ cond' = cond /\ SyncInv
  BY DEF semVars, QueueInv
<1>1. /\ ThreadsOK' /\ SleepersOnlyWake
      /\ \A call \in WaitCalls : \A obj :
           /\ Sleepers(call, obj)' = Sleepers(call, obj)
           /\ Roused(call, obj)' = Roused(call, obj) \ {c}
           /\ Elsewhere(c, call, obj) => Unmoved(call, obj)
  BY ReturnMoves
<1>2. MutexTaken(m, c)
  BY <1>0, <1>1, AcquireFields, WaitCallNames, ZenonT(40) DEF MutexTaken, QueueSame
<1>3. ASSUME NEW n \in Mutexes
      PROVE  MutexMove(n)
  <2>1. CASE n = m
    BY <1>2, <2>1, ZenonT(40) DEF MutexMove
  <2>2. CASE n # m
    BY <1>0, <1>1, <2>2, AcquireFields, WaitCallNames, ZenonT(40) DEF MutexMove, MutexSame
  <2> QED
    BY <2>1, <2>2
<1>4. ASSUME NEW x \in Sems
      PROVE  SemMove(x)
  BY <1>0, <1>1, WaitCallNames, ZenonT(40) DEF SemMove, SemSame
<1>5. ASSUME NEW v \in Conds
      PROVE  CondMove(v)
  BY <1>0, <1>1, CondStays, WaitCallNames, ZenonT(40)
<1> QED
  BY <1>1, <1>3, <1>4, <1>5, ZenonT(40) DEF Moves

\* The caller queues on the mutex and blocks.
LEMMA LockBlockStep ==
  ASSUME QueueInv, NEW c \in Slots, InUser(c), NEW m \in Mutexes,
         mutex[m].locked, ~LockQueueFull(m),
         mutex' = [mutex EXCEPT ![m].wq = Queued(@)], Block({}),
         pc' = [pc EXCEPT ![c] = At("lock", m, NoObject)],
         UNCHANGED <<holders, semVars, cond>>,
         \A x \in Sems : Elsewhere(c, "sem", x),
         \A n \in Mutexes : n # m => Elsewhere(c, "lock", n)
  PROVE  Moves
<1>0. /\ sem' = sem /\ permits' = permits /\ cond' = cond /\ SyncInv /\ ContextInv
      /\ c \in Contexts
  BY StateTypes DEF semVars, QueueInv
<1>1. /\ ThreadsOK' /\ SleepersOnlyWake
      /\ c \notin Sleepers("lock", m)
      /\ Sleepers("lock", m)' = Sleepers("lock", m) \cup {c}
      /\ Roused("lock", m)' = Roused("lock", m) \ {c}
      /\ \A call \in WaitCalls : \A obj : call # "lock" \/ obj # m =>
           /\ Sleepers(call, obj)' = Sleepers(call, obj)
           /\ Elsewhere(c, call, obj) => Unmoved(call, obj)
  BY WaitMoves, WaitCallNames, Zenon
<1>2. Queued(mutex[m].wq) = WqEnqueue(mutex[m].wq, c)
  BY <1>0, Caller
<1>3. /\ mutex'[m].wq = Queued(mutex[m].wq) /\ mutex'[m].locked = mutex[m].locked
      /\ mutex'[m].owner = mutex[m].owner /\ mutex'[m].initialized = mutex[m].initialized
      /\ \A n \in Mutexes : n # m => mutex'[n] = mutex[n]
  BY <1>0, Zenon DEF SyncInv, SyncTypeOK
<1>4. MutexAwaited(m, c)
  BY <1>1, <1>2, <1>3, ZenonT(40) DEF MutexAwaited, QueueGrows, LockQueueFull
<1>5. ASSUME NEW n \in Mutexes
      PROVE  MutexMove(n)
  <2>1. CASE n = m
    BY <1>0, <1>4, <2>1 DEF MutexMove
  <2>2. CASE n # m
    BY <1>1, <1>3, <2>2, WaitCallNames, ZenonT(40) DEF MutexMove, MutexSame
  <2> QED
    BY <2>1, <2>2
<1>6. ASSUME NEW x \in Sems
      PROVE  SemMove(x)
  BY <1>0, <1>1, WaitCallNames, ZenonT(40) DEF SemMove, SemSame
<1>7. ASSUME NEW v \in Conds
      PROVE  CondMove(v)
  BY <1>0, <1>1, CondStays, WaitCallNames, ZenonT(40)
<1> QED
  BY <1>1, <1>5, <1>6, <1>7, ZenonT(40) DEF Moves

LEMMA LockWaitStep ==
  ASSUME QueueInv, NEW c \in Slots, InUser(c), NEW m \in Mutexes,
         mutex[m].locked, LockWait(c, m), UNCHANGED <<semVars, cond>>,
         \A x \in Sems : Elsewhere(c, "sem", x),
         \A n \in Mutexes : n # m => Elsewhere(c, "lock", n)
  PROVE  Moves
<1>0. c \in Contexts
  BY StateTypes
<1>1. CASE LockQueueFull(m) /\ Finish(c, "EBUSY") /\ UNCHANGED mutexVars
  <2>1. \A n \in Mutexes : Elsewhere(c, "lock", n) \/ mutex[n].locked
    OBVIOUS
  <2> QED
    BY <1>0, <1>1, <2>1, ReturnStep, ZenonT(40)
<1>2. CASE /\ ~LockQueueFull(m)
           /\ mutex' = [mutex EXCEPT ![m].wq = Queued(@)]
           /\ Block({})
           /\ pc' = [pc EXCEPT ![c] = At("lock", m, NoObject)]
           /\ UNCHANGED holders
  BY <1>2, LockBlockStep, Zenon
<1> QED
  BY <1>1, <1>2 DEF LockWait

\* gth_mutex_lock from its start, called by the program or by gth_cond_wait.
LEMMA LockFromStep ==
  ASSUME QueueInv, NEW c \in Contexts, InUser(c), NEW m \in Mutexes, LockFrom(c, m),
         UNCHANGED <<semVars, cond>>,
         current_tid # 0 \/ "lock" \in MainCalls,
         \A x \in Sems : Elsewhere(c, "sem", x),
         \A n \in Mutexes : Elsewhere(c, "lock", n)
  PROVE  Moves
<1>1. ASSUME NEW st, Finish(c, st), UNCHANGED mutexVars
      PROVE  Moves
  BY <1>1, ReturnStep
<1>2. CASE mutex[m].initialized /\ ~mutex[m].locked /\ Acquire(m) /\ Finish(c, "OK")
  BY <1>2, AcquireStep
<1>3. CASE mutex[m].locked /\ OnThread /\ LockWait(c, m)
  <2>1. c \in Slots
    BY <1>3, StateTypes, Caller
  <2> QED
    BY <1>3, <2>1, LockWaitStep, ZenonT(40)
<1> QED
  BY <1>1, <1>2, <1>3, ZenonT(40) DEF LockFrom

\* A thread calls a lock function, or the OS thread does where that is allowed.
LEMMA LockCaller ==
  ASSUME QueueInv, NEW c \in Contexts, InUser(c), c \in Slots \/ Allowed(c, "lock")
  PROVE  current_tid # 0 \/ "lock" \in MainCalls
<1>1. CASE c \in Slots
  BY <1>1, StateTypes, Caller, ZenonT(40)
<1>2. CASE c \notin Slots
  <2>1. c = Main
    BY <1>2 DEF Contexts
  <2> QED
    BY <1>2, <2>1 DEF Allowed
<1> QED
  BY <1>1, <1>2

\* The first waiter of a queue sleeps on its object.
LEMMA HeadSleeps ==
  ASSUME QueueInv
  PROVE  /\ \A m \in Mutexes : WqHead(mutex[m].wq) \subseteq Sleepers("lock", m)
         /\ \A x \in Sems : WqHead(sem[x].wq) \subseteq Sleepers("sem", x)
         /\ \A v \in Conds : WqHead(cond[v].wq) \subseteq Sleepers("cond", v)
<1>1. SyncInv /\ AllExact
  BY DEF QueueInv
<1>2. ASSUME NEW m \in Mutexes
      PROVE  WqHead(mutex[m].wq) \subseteq Sleepers("lock", m)
  BY <1>1, SyncTypes, ExactDequeue, Zenon DEF AllExact
<1>3. ASSUME NEW x \in Sems
      PROVE  WqHead(sem[x].wq) \subseteq Sleepers("sem", x)
  BY <1>1, SyncTypes, ExactDequeue, Zenon DEF AllExact
<1>4. ASSUME NEW v \in Conds
      PROVE  WqHead(cond[v].wq) \subseteq Sleepers("cond", v)
  BY <1>1, SyncTypes, ExactDequeue, ZenonT(40) DEF AllExact
<1> QED
  BY <1>2, <1>3, <1>4, ZenonT(40)

LEMMA ResetStep ==
  ASSUME QueueInv, NEW c \in Contexts, SyncCall(c), NEW m \in Mutexes, NEW r,
         mutex' = [mutex EXCEPT ![m] = r], r.wq = <<>>, ~r.locked,
         ~mutex[m].initialized \/ ~mutex[m].locked, mutex[m].wq = <<>>,
         r.initialized \/ Roused("lock", m) = {} \/ "destroy_in_use" \in AnyCalls,
         Finish(c, "OK"), UNCHANGED <<holders, semVars, cond>>
  PROVE  Moves
<1>0. /\ sem' = sem /\ permits' = permits /\ cond' = cond /\ SyncInv /\ InUser(c)
      /\ \A call \in WaitCalls : \A obj : Elsewhere(c, call, obj)
  BY NowhereInUser, ZenonT(40) DEF semVars, QueueInv, SyncCall
<1>1. /\ ThreadsOK' /\ SleepersOnlyWake
      /\ \A call \in WaitCalls : \A obj : Unmoved(call, obj)
  BY <1>0, ReturnMoves, ZenonT(40)
<1>2. mutex'[m] = r /\ \A n \in Mutexes : n # m => mutex'[n] = mutex[n]
  BY <1>0, ZenonT(40) DEF SyncInv, SyncTypeOK
<1>3. MutexReset(m)
  BY <1>1, <1>2, WaitCallNames, ZenonT(40) DEF MutexReset
<1>4. ASSUME NEW n \in Mutexes
      PROVE  MutexMove(n)
  <2>1. CASE n = m
    BY <1>3, <2>1, ZenonT(40) DEF MutexMove
  <2>2. CASE n # m
    BY <1>1, <1>2, <2>2, WaitCallNames, ZenonT(40) DEF MutexMove, MutexSame
  <2> QED
    BY <2>1, <2>2, ZenonT(40)
<1>5. ASSUME NEW x \in Sems
      PROVE  SemMove(x)
  BY <1>0, <1>1, WaitCallNames, ZenonT(40) DEF SemMove, SemSame
<1>6. ASSUME NEW v \in Conds
      PROVE  CondMove(v)
  BY <1>0, <1>1, CondStays, WaitCallNames, ZenonT(40) DEF Unmoved
<1> QED
  BY <1>1, <1>4, <1>5, <1>6, ZenonT(40) DEF Moves

LEMMA MayReleaseCalls ==
  ASSUME NEW c, NEW m, MayRelease(c, m)
  PROVE  current_tid \in holders[m] \/ "foreign_unlock" \in AnyCalls
BY DEF MayRelease, Allowed, AnyCalls

LEMMA UnlockStep ==
  ASSUME QueueInv, NEW c \in Contexts, NEW m \in Mutexes, MayRelease(c, m),
         Unlockable(m), Unlocked(m), Unblock(UnlockWakes(m)), pc' = pc,
         UNCHANGED <<semVars, cond>>
  PROVE  Moves
<1>0. sem' = sem /\ permits' = permits /\ cond' = cond /\ SyncInv
  BY DEF semVars, QueueInv
<1> DEFINE W == WqHead(mutex[m].wq)
<1>1. W \subseteq Sleepers("lock", m) /\ Unblock(W)
  BY HeadSleeps DEF UnlockWakes
<1>2. /\ ThreadsOK' /\ SleepersOnlyWake
      /\ Sleepers("lock", m)' = Sleepers("lock", m) \ W
      /\ Roused("lock", m)' = Roused("lock", m) \cup W
      /\ \A call \in WaitCalls : \A obj : call # "lock" \/ obj # m => Unmoved(call, obj)
  BY <1>1, WakeMoves, WaitCallNames, ZenonT(40)
<1>3. MutexFreed(m)
  BY <1>0, <1>2, UnlockedFields, MayReleaseCalls, ZenonT(40)
  DEF MutexFreed, QueueHeadLeaves, Unlockable
<1>4. ASSUME NEW n \in Mutexes
      PROVE  MutexMove(n)
  <2>1. CASE n = m
    BY <1>3, <2>1, ZenonT(40) DEF MutexMove
  <2>2. CASE n # m
    BY <1>0, <1>2, <2>2, UnlockedFields, WaitCallNames, ZenonT(40)
    DEF MutexMove, MutexSame
  <2> QED
    BY <2>1, <2>2
<1>5. ASSUME NEW x \in Sems
      PROVE  SemMove(x)
  BY <1>0, <1>2, WaitCallNames, ZenonT(40) DEF SemMove, SemSame
<1>6. ASSUME NEW v \in Conds
      PROVE  CondMove(v)
  BY <1>0, <1>2, CondStays, WaitCallNames, ZenonT(40) DEF Unmoved
<1> QED
  BY <1>2, <1>4, <1>5, <1>6, ZenonT(40) DEF Moves

LEMMA MutexMoves ==
  ASSUME QueueInv, NEW c \in Contexts, MutexStep(c), UNCHANGED <<semVars, cond>>
  PROVE  Moves
<1>0. SyncInv /\ Blank /\ ThreadsOK /\ PcOK
  BY DEF QueueInv, SyncInv
<1>1. PICK m \in Mutexes : \/ MutexInit(c, m) \/ MutexLock(c, m)
                           \/ MutexLockResumes(c, m) \/ MutexTrylock(c, m)
                           \/ MutexUnlock(c, m) \/ MutexDestroy(c, m)
  BY DEF MutexStep
<1>2. SyncCall(c) => InUser(c) /\ \A call \in WaitCalls : \A obj : Elsewhere(c, call, obj)
  BY NowhereInUser DEF SyncCall
<1>3. ASSUME NEW st, SyncCall(c), Finish(c, st), UNCHANGED mutexVars
      PROVE  Moves
  BY <1>3, UserReturnStep, ZenonT(40)
<1>4. CASE MutexInit(c, m)
  <2> DEFINE r == [ZeroMutex EXCEPT !.initialized = TRUE]
  <2>1. r.wq = <<>> /\ ~r.locked /\ r.initialized
    BY DEF ZeroMutex
  <2>2. mutex[m].wq = <<>> /\ ~mutex[m].initialized
    BY <1>0, <1>4, ZenonT(40) DEF Blank, MutexInit
  <2>3. mutex' = [mutex EXCEPT ![m] = r] /\ SyncCall(c) /\ Finish(c, "OK") /\ UNCHANGED holders
    BY <1>4, ZenonT(40) DEF MutexInit
  <2> HIDE DEF r
  <2> QED
    BY <2>1, <2>2, <2>3, ResetStep, Zenon
<1>5. CASE MutexLock(c, m)
  <2>1. SyncCall(c) /\ Allowed(c, "lock") /\ LockFrom(c, m)
    BY <1>5 DEF MutexLock
  <2> QED
    BY <1>2, <2>1, LockCaller, LockFromStep, WaitCallNames, ZenonT(40)
<1>6. CASE MutexLockResumes(c, m)
  <2>1. InUser(c) /\ pc[c].at = "lock" /\ pc[c].obj = m
    BY <1>6 DEF MutexLockResumes, Resumed
  <2>2. c \in Slots
    BY <1>0, <2>1, SMTT(30) DEF PcOK, User, At
  <2>3. /\ \A x \in Sems : Elsewhere(c, "sem", x)
        /\ \A n \in Mutexes : n # m => Elsewhere(c, "lock", n)
    BY <2>1 DEF Elsewhere
  <2>4. c \in Roused("lock", m)
    BY <2>1, <2>2, CallerRuns, ZenonT(40) DEF Roused, WokenFrom
  <2>5. CASE ~mutex[m].locked /\ Acquire(m) /\ Finish(c, "OK")
    BY <2>1, <2>2, <2>3, <2>4, <2>5, LockCaller, AcquireStep, ZenonT(40)
  <2>6. CASE mutex[m].locked /\ LockWait(c, m)
    BY <2>1, <2>2, <2>3, <2>6, LockWaitStep, ZenonT(40)
  <2> QED
    BY <1>6, <2>5, <2>6, ZenonT(40) DEF MutexLockResumes
<1>7. CASE MutexTrylock(c, m)
  <2>1. SyncCall(c) /\ Allowed(c, "lock")
    BY <1>7 DEF MutexTrylock
  <2>2. CASE mutex[m].initialized /\ ~mutex[m].locked /\ Acquire(m) /\ Finish(c, "OK")
    BY <1>2, <2>1, <2>2, LockCaller, AcquireStep, WaitCallNames, ZenonT(40)
  <2> QED
    BY <1>3, <1>7, <2>1, <2>2, ZenonT(40) DEF MutexTrylock
<1>8. CASE MutexUnlock(c, m)
  <2>1. SyncCall(c) /\ MayRelease(c, m)
    BY <1>8 DEF MutexUnlock
  <2>2. CASE Unlockable(m) /\ Unlocked(m) /\ Unblock(UnlockWakes(m)) /\ UNCHANGED pc
    BY <2>1, <2>2, UnlockStep, ZenonT(40)
  <2> QED
    BY <1>3, <1>8, <2>1, <2>2, ZenonT(40) DEF MutexUnlock
<1>9. CASE MutexDestroy(c, m)
  <2>1. SyncCall(c) /\ (~WakingIn(m) \/ Allowed(c, "destroy_in_use"))
    BY <1>9, ZenonT(40) DEF MutexDestroy
  <2>2. CASE /\ ~mutex[m].locked /\ WqIsEmpty(mutex[m].wq)
             /\ mutex' = [mutex EXCEPT ![m] = ZeroMutex]
             /\ Finish(c, "OK") /\ UNCHANGED holders
    <3>1. ZeroMutex.wq = <<>> /\ ~ZeroMutex.locked
      BY DEF ZeroMutex
    <3>2. Roused("lock", m) = {} \/ "destroy_in_use" \in AnyCalls
      BY <2>1 DEF WakingIn, Roused, WokenFrom, Allowed, AnyCalls
    <3>3. mutex[m].wq = <<>>
      BY <2>2, ZenonT(40) DEF WqIsEmpty
    <3> QED
      BY <2>1, <2>2, <3>1, <3>2, <3>3, ResetStep, Zenon
  <2> QED
    BY <1>3, <1>9, <2>1, <2>2, ZenonT(40) DEF MutexDestroy
<1> QED
  BY <1>1, <1>4, <1>5, <1>6, <1>7, <1>8, <1>9, ZenonT(40)

\* A step on semaphore x: it remains to say what it does to x.
LEMMA SemOnly ==
  ASSUME QueueInv, ThreadsOK', SleepersOnlyWake, NEW x \in Sems, SemMove(x),
         \A y \in Sems : y # x => sem'[y] = sem[y] /\ permits'[y] = permits[y],
         \A call \in WaitCalls : \A obj : call # "sem" \/ obj # x => Unmoved(call, obj),
         UNCHANGED <<mutexVars, cond>>
  PROVE  Moves
<1>0. mutex' = mutex /\ holders' = holders /\ cond' = cond
  BY DEF mutexVars
<1>1. ASSUME NEW m \in Mutexes
      PROVE  MutexMove(m)
  BY <1>0, WaitCallNames, ZenonT(40) DEF MutexMove, MutexSame
<1>2. ASSUME NEW y \in Sems
      PROVE  SemMove(y)
  <2>1. CASE y # x
    <3>0. Unmoved("sem", y) /\ sem'[y] = sem[y] /\ permits'[y] = permits[y]
      BY <2>1, WaitCallNames
    <3>1. SemSame(y)
      BY <3>0 DEF SemSame
    <3> QED
      BY <3>1, ZenonT(40) DEF SemMove
  <2> QED
    BY <2>1, ZenonT(40)
<1>3. ASSUME NEW v \in Conds
      PROVE  CondMove(v)
  BY <1>0, CondStays, WaitCallNames, ZenonT(40) DEF Unmoved
<1> QED
  BY <1>1, <1>2, <1>3, ZenonT(40) DEF Moves

LEMMA SemResumesMoves ==
  ASSUME QueueInv, NEW c \in Contexts, NEW x \in Sems, SemWaitResumes(c, x),
         UNCHANGED <<mutexVars, cond>>
  PROVE  Moves
<1>0. SyncInv /\ PcOK /\ permits \in [Sems -> Int] /\ "sem" \in WaitCalls
  BY WaitCallNames DEF QueueInv, SyncInv, SyncTypeOK
<1>1. /\ InUser(c) /\ pc[c].at = "sem" /\ pc[c].obj = x /\ Finish(c, "OK")
      /\ sem' = sem /\ permits' = [permits EXCEPT ![x] = @ - 1]
  BY Zenon DEF SemWaitResumes, Resumed
<1>2. permits'[x] = permits[x] - 1 /\ \A y \in Sems : y # x => permits'[y] = permits[y]
  BY <1>0, <1>1, Zenon
<1>3. c \in Slots
  BY <1>0, <1>1, SMTT(30) DEF PcOK, User, At
<1>4. c \in Roused("sem", x)
  BY <1>1, <1>3, CallerRuns, ZenonT(40) DEF Roused, WokenFrom
<1>5. \A call \in WaitCalls : \A obj : call # "sem" \/ obj # x => Elsewhere(c, call, obj)
  BY <1>1, Zenon DEF Elsewhere
<1>6. /\ ThreadsOK' /\ SleepersOnlyWake
      /\ \A call \in WaitCalls : \A obj :
           /\ Sleepers(call, obj)' = Sleepers(call, obj)
           /\ Roused(call, obj)' = Roused(call, obj) \ {c}
           /\ Elsewhere(c, call, obj) => Unmoved(call, obj)
  BY <1>1, ReturnMoves, Zenon
<1>7. /\ Sleepers("sem", x)' = Sleepers("sem", x)
      /\ Roused("sem", x)' = Roused("sem", x) \ {c}
  BY <1>0, <1>6, Zenon
<1>8. SemMove(x)
  <2>1. sem'[x] = sem[x]
    BY <1>1, Zenon
  <2>2. SemGranted(x, c)
    BY <1>2, <1>4, <1>7, <2>1, Zenon DEF SemGranted
  <2> QED
    BY <1>3, <2>2, Zenon DEF SemMove
<1>9. \A call \in WaitCalls : \A obj : call # "sem" \/ obj # x => Unmoved(call, obj)
  BY <1>5, <1>6, Zenon
<1>10. \A y \in Sems : y # x => sem'[y] = sem[y] /\ permits'[y] = permits[y]
  BY <1>1, <1>2, Zenon
<1> QED
  BY <1>6, <1>8, <1>9, <1>10, SemOnly, Zenon

LEMMA SemMoves ==
  ASSUME QueueInv, NEW c \in Contexts, SemStep(c), UNCHANGED <<mutexVars, cond>>
  PROVE  Moves
<1>0. /\ SyncInv /\ Blank /\ PcOK /\ ContextInv
      /\ sem \in [Sems -> [initialized : BOOLEAN, count : 0 .. SemMax, wq : Seq(Slots)]]
      /\ permits \in [Sems -> Int]
  BY DEF QueueInv, SyncInv, SyncTypeOK
<1>1. PICK x \in Sems : \/ \E n \in SemInitial : SemInit(c, x, n)
                        \/ SemWait(c, x) \/ SemWaitResumes(c, x)
                        \/ SemPost(c, x) \/ SemDestroy(c, x)
  BY DEF SemStep
<1>2. SyncCall(c) => InUser(c) /\ \A call \in WaitCalls : \A obj : Elsewhere(c, call, obj)
  BY NowhereInUser DEF SyncCall
<1>3. ASSUME NEW st, SyncCall(c), Finish(c, st), UNCHANGED semVars
      PROVE  Moves
  BY <1>3, UserReturnStep
<1>4. ASSUME NEW st, SyncCall(c), Finish(c, st)
      PROVE  ThreadsOK' /\ SleepersOnlyWake /\ \A call \in WaitCalls : \A obj : Unmoved(call, obj)
  BY <1>2, <1>4, ReturnMoves, ZenonT(40)
<1>5. sem[x].count \in Nat /\ permits[x] \in Int /\ sem[x].wq \in Seq(Slots)
  BY <1>0, SyncTypes, ZenonT(40)
<1>6. ASSUME NEW n \in SemInitial, SemInit(c, x, n)
      PROVE  Moves
  <2>1. /\ SyncCall(c) /\ Finish(c, "OK") /\ sem[x].wq = <<>> /\ sem[x].count = 0
    BY <1>0, <1>6, ZenonT(40) DEF SemInit, Blank
  <2>2. n \in Int
    BY SemAssumption
  <2>3. /\ sem'[x].wq = <<>> /\ sem'[x].initialized /\ sem'[x].count = n
        /\ permits'[x] = permits[x] + n
        /\ \A y \in Sems : y # x => sem'[y] = sem[y] /\ permits'[y] = permits[y]
    BY <1>0, <1>6, ZenonT(40) DEF SemInit
  <2>4. permits'[x] = permits[x] - sem[x].count + sem'[x].count
    <3>1. permits[x] - sem[x].count + sem'[x].count = permits[x] - 0 + n
      BY <2>1, <2>3
    <3>2. permits[x] - 0 + n = permits[x] + n
      BY <1>5, <2>2, SMTT(30)
    <3> QED
      BY <2>3, <3>1, <3>2, SMTT(30)
  <2>5. SemReset(x)
    BY <1>4, <2>1, <2>3, <2>4, WaitCallNames, ZenonT(40) DEF SemReset
  <2>6. SemMove(x)
    BY <2>5 DEF SemMove
  <2> QED
    BY <1>4, <2>1, <2>3, <2>6, SemOnly, ZenonT(40)
<1>7. CASE SemWait(c, x)
  <2>1. SyncCall(c)
    BY <1>7 DEF SemWait
  <2>2. CASE /\ sem[x].initialized /\ sem[x].count > 0
             /\ sem' = [sem EXCEPT ![x].count = @ - 1]
             /\ permits' = [permits EXCEPT ![x] = @ - 1]
             /\ Finish(c, "OK")
    <3>1. /\ sem'[x].wq = sem[x].wq /\ sem'[x].initialized = sem[x].initialized
          /\ sem'[x].count = sem[x].count - 1 /\ permits'[x] = permits[x] - 1
          /\ \A y \in Sems : y # x => sem'[y] = sem[y] /\ permits'[y] = permits[y]
      BY <1>0, <2>2, Zenon
    <3>2. SemTaken(x)
      BY <1>4, <2>1, <2>2, <3>1, WaitCallNames, ZenonT(40) DEF SemTaken
    <3>3. SemMove(x)
      BY <3>2, ZenonT(40) DEF SemMove
    <3> QED
      BY <1>4, <2>1, <2>2, <3>1, <3>3, SemOnly, ZenonT(40)
  <2>3. CASE /\ sem[x].initialized /\ sem[x].count = 0
             /\ OnThread /\ ~WqIsFull(sem[x].wq)
             /\ sem' = [sem EXCEPT ![x].wq = Queued(@)]
             /\ Block({})
             /\ pc' = [pc EXCEPT ![c] = At("sem", x, NoObject)]
             /\ UNCHANGED permits
    <3>1. c \in Slots /\ InUser(c) /\ \A call \in WaitCalls : \A obj : Elsewhere(c, call, obj)
      BY <1>0, <1>2, <2>1, <2>3, Caller, ZenonT(40)
    <3>2. /\ ThreadsOK' /\ SleepersOnlyWake
          /\ c \notin Sleepers("sem", x)
          /\ Sleepers("sem", x)' = Sleepers("sem", x) \cup {c}
          /\ Roused("sem", x)' = Roused("sem", x) \ {c}
          /\ \A call \in WaitCalls : \A obj : call # "sem" \/ obj # x =>
               /\ Sleepers(call, obj)' = Sleepers(call, obj)
               /\ Elsewhere(c, call, obj) => Unmoved(call, obj)
      BY <2>3, <3>1, WaitMoves, WaitCallNames, Zenon
    <3>20. \A call \in WaitCalls : \A obj : call # "sem" \/ obj # x => Unmoved(call, obj)
      BY <3>1, <3>2
    <3>3. c \notin Roused("sem", x)
      BY <3>1, WaitCallNames, ZenonT(40) DEF Elsewhere, Roused, WokenFrom
    <3>4. Queued(sem[x].wq) = WqEnqueue(sem[x].wq, c)
      BY <1>0, <3>1, Caller, ZenonT(40)
    <3>5. /\ sem'[x].wq = Queued(sem[x].wq) /\ sem'[x].initialized = sem[x].initialized
          /\ sem'[x].count = sem[x].count /\ permits' = permits
          /\ \A y \in Sems : y # x => sem'[y] = sem[y]
      BY <1>0, <2>3, ZenonT(40)
    <3>6. SemAwaited(x, c)
      BY <2>3, <3>1, <3>2, <3>3, <3>4, <3>5, ZenonT(40) DEF SemAwaited, QueueGrows
    <3>7. SemMove(x)
      BY <3>1, <3>6, ZenonT(40) DEF SemMove
    <3> QED
      BY <3>2, <3>20, <3>5, <3>7, SemOnly, ZenonT(40)
  <2> QED
    BY <1>3, <1>7, <2>1, <2>2, <2>3, ZenonT(40) DEF SemWait
<1>8. CASE SemWaitResumes(c, x)
  BY <1>8, SemResumesMoves, ZenonT(40)
<1>9. CASE SemPost(c, x)
  <2>1. SyncCall(c)
    BY <1>9, ZenonT(40) DEF SemPost
  <2>2. CASE /\ sem[x].initialized /\ ~WqIsEmpty(sem[x].wq)
             /\ sem' = [sem EXCEPT ![x].wq = WqDequeue(@)]
             /\ permits' = [permits EXCEPT ![x] = @ + 1]
             /\ Unblock(WqHead(sem[x].wq)) /\ UNCHANGED pc
    <3> DEFINE W == WqHead(sem[x].wq)
    <3>1. W \subseteq Sleepers("sem", x) /\ Unblock(W)
      BY <2>2, HeadSleeps, ZenonT(40)
    <3>2. /\ ThreadsOK' /\ SleepersOnlyWake
          /\ Sleepers("sem", x)' = Sleepers("sem", x) \ W
          /\ Roused("sem", x)' = Roused("sem", x) \cup W
          /\ \A call \in WaitCalls : \A obj : call # "sem" \/ obj # x => Unmoved(call, obj)
      BY <2>2, <3>1, WakeMoves, WaitCallNames, ZenonT(40)
    <3>3. /\ sem'[x].wq = WqDequeue(sem[x].wq) /\ sem'[x].initialized = sem[x].initialized
          /\ sem'[x].count = sem[x].count /\ permits'[x] = permits[x] + 1
          /\ \A y \in Sems : y # x => sem'[y] = sem[y] /\ permits'[y] = permits[y]
      BY <1>0, <2>2, Zenon
    <3>4. SemHanded(x)
      BY <2>2, <3>2, <3>3, ZenonT(40) DEF SemHanded, QueueHeadLeaves, WqIsEmpty
    <3>5. SemMove(x)
      BY <3>4 DEF SemMove
    <3> QED
      BY <3>2, <3>3, <3>5, SemOnly, ZenonT(40)
  <2>3. CASE /\ sem[x].initialized /\ WqIsEmpty(sem[x].wq)
             /\ sem' = [sem EXCEPT ![x].count = @ + 1]
             /\ permits' = [permits EXCEPT ![x] = @ + 1]
             /\ Finish(c, "OK")
    <3>1. /\ sem'[x].wq = sem[x].wq /\ sem'[x].initialized = sem[x].initialized
          /\ sem'[x].count = sem[x].count + 1 /\ permits'[x] = permits[x] + 1
          /\ \A y \in Sems : y # x => sem'[y] = sem[y] /\ permits'[y] = permits[y]
      BY <1>0, <2>3, Zenon
    <3>2. SemCounted(x)
      BY <1>4, <2>1, <2>3, <3>1, WaitCallNames, ZenonT(40) DEF SemCounted, WqIsEmpty
    <3>3. SemMove(x)
      BY <3>2 DEF SemMove
    <3> QED
      BY <1>4, <2>1, <2>3, <3>1, <3>3, SemOnly, ZenonT(40)
  <2> QED
    BY <1>3, <1>9, <2>1, <2>2, <2>3, ZenonT(40) DEF SemPost
<1>10. CASE SemDestroy(c, x)
  <2>1. SyncCall(c)
    BY <1>10 DEF SemDestroy
  <2>2. CASE /\ WqIsEmpty(sem[x].wq)
             /\ sem' = [sem EXCEPT ![x] = ZeroSem]
             /\ permits' = [permits EXCEPT ![x] = @ - sem[x].count]
             /\ Finish(c, "OK")
    <3>1. ZeroSem.wq = <<>> /\ ZeroSem.count = 0
      BY DEF ZeroSem
    <3>2. /\ sem'[x] = ZeroSem /\ permits'[x] = permits[x] - sem[x].count
          /\ \A y \in Sems : y # x => sem'[y] = sem[y] /\ permits'[y] = permits[y]
      BY <1>0, <2>2
    <3>3. permits'[x] = permits[x] - sem[x].count + sem'[x].count
      BY <1>5, <3>1, <3>2, SMTT(30)
    <3>4. SemReset(x)
      BY <1>4, <2>1, <2>2, <3>1, <3>2, <3>3, WaitCallNames, SMTT(30)
      DEF SemReset, WqIsEmpty
    <3>5. SemMove(x)
      BY <3>4 DEF SemMove
    <3> QED
      BY <1>4, <2>1, <2>2, <3>2, <3>5, SemOnly, ZenonT(40)
  <2> QED
    BY <1>3, <1>10, <2>1, <2>2, ZenonT(40) DEF SemDestroy
<1> QED
  BY <1>1, <1>6, <1>7, <1>8, <1>9, <1>10, ZenonT(40)
=============================================================================
