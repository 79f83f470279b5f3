----------------------------- MODULE QueueProofs ----------------------------
(***************************************************************************)
(* The wait queues, the mutexes and the semaphores of the library, for     *)
(* every number of threads, objects and queue entries and every program    *)
(* that cancels no thread: the queues hold exactly the sleepers, a mutex   *)
(* has one holder, no wakeup and no permit is lost. Every step makes only  *)
(* the moves of MoveProofs (StepMoves), and each property is a matter of   *)
(* those few moves.                                                        *)
(***************************************************************************)
EXTENDS MoveProofs

----------------------------------------------------------------------------
(* The steps on condition variables are made of moves too.                 *)

\* A step on condition variable v alone.
LEMMA CondOnly ==
  ASSUME QueueInv, ThreadsOK', SleepersOnlyWake, NEW v \in Conds, CondMove(v),
         \A w \in Conds : w # v => cond'[w] = cond[w],
         \A call \in WaitCalls : \A obj : call # "cond" \/ obj # v => Unmoved(call, obj),
         UNCHANGED <<mutexVars, semVars>>
  PROVE  Moves
<1>0. mutex' = mutex /\ holders' = holders /\ sem' = sem /\ permits' = permits
  BY ZenonT(40) DEF mutexVars, semVars
<1>1. ASSUME NEW m \in Mutexes
      PROVE  MutexMove(m)
  BY <1>0, WaitCallNames, ZenonT(40) DEF MutexMove, MutexSame
<1>2. ASSUME NEW x \in Sems
      PROVE  SemMove(x)
  BY <1>0, WaitCallNames, ZenonT(40) DEF SemMove, SemSame
<1>3. ASSUME NEW w \in Conds
      PROVE  CondMove(w)
  <2>1. CASE w # v
    BY <2>1, CondStays, WaitCallNames, ZenonT(40) DEF Unmoved
  <2> QED
    BY <2>1
<1> QED
  BY <1>1, <1>2, <1>3, ZenonT(40) DEF Moves

\* gth_cond_wait that blocks: the caller queues on v, the mutex is released.
LEMMA CondBlockStep ==
  ASSUME QueueInv, NEW c \in Slots, InUser(c), pc[c] = User, NEW v \in Conds,
         NEW m \in Mutexes, MayRelease(c, m), Unlockable(m), cond[v].initialized,
         ~WqIsFull(cond[v].wq), cond' = [cond EXCEPT ![v].wq = Queued(@)],
         Unlocked(m), Block(UnlockWakes(m)), pc' = [pc EXCEPT ![c] = At("cond", v, m)],
         UNCHANGED semVars
  PROVE  Moves
<1>0. /\ sem' = sem /\ permits' = permits /\ SyncInv /\ ContextInv /\ c \in Contexts
      /\ \A call \in WaitCalls : \A obj : Elsewhere(c, call, obj)
  BY StateTypes, NowhereInUser, ZenonT(40) DEF semVars, QueueInv
<1> DEFINE W == WqHead(mutex[m].wq)
<1>1. W \subseteq Sleepers("lock", m) /\ Block(W) 
  BY HeadSleeps DEF UnlockWakes
<1> HIDE DEF W
<1>2. /\ ThreadsOK' /\ SleepersOnlyWake
      /\ c \notin Sleepers("cond", v)
      /\ Sleepers("cond", v)' = Sleepers("cond", v) \cup {c}
      /\ Sleepers("lock", m)' = Sleepers("lock", m) \ W
      /\ Roused("lock", m)' = Roused("lock", m) \cup W
      /\ \A call \in WaitCalls : \A obj :
           (call # "cond" \/ obj # v) /\ (call # "lock" \/ obj # m) => Unmoved(call, obj)
  BY <1>1, BlockMoves, Zenon
<1>6. Queued(cond[v].wq) = WqEnqueue(cond[v].wq, c)
  BY <1>0, Caller
<1>7. /\ cond'[v].wq = Queued(cond[v].wq) /\ cond'[v].initialized = cond[v].initialized
      /\ \A w \in Conds : w # v => cond'[w] = cond[w]
  BY <1>0, Zenon DEF SyncInv, SyncTypeOK
<1>8. MutexFreed(m)
  BY <1>0, <1>2, UnlockedFields, MayReleaseCalls, ZenonT(40)
  DEF MutexFreed, QueueHeadLeaves, Unlockable, W
<1>9. ASSUME NEW n \in Mutexes
      PROVE  MutexMove(n)
  <2>1. CASE n = m
    BY <1>8, <2>1 DEF MutexMove
  <2>2. CASE n # m
    BY <1>0, <1>2, <2>2, UnlockedFields, WaitCallNames, ZenonT(40)
    DEF MutexMove, MutexSame
  <2> QED
    BY <2>1, <2>2
<1>10. ASSUME NEW x \in Sems
       PROVE  SemMove(x)
  BY <1>0, <1>2, WaitCallNames, ZenonT(40) DEF SemMove, SemSame
<1>11. QueueGrows("cond", v, cond[v].wq, cond'[v].wq, c)
  BY <1>2, <1>6, <1>7, ZenonT(40) DEF QueueGrows
<1>12. ASSUME NEW w \in Conds
       PROVE  CondMove(w)
  <2>1. CASE w = v
    BY <1>7, <1>11, <2>1, ZenonT(40) DEF CondMove, QueueMove
  <2>2. CASE w # v
    BY <1>2, <1>7, <2>2, CondStays, WaitCallNames, ZenonT(40) DEF Unmoved
  <2> QED
    BY <2>1, <2>2
<1> QED
  BY <1>2, <1>9, <1>10, <1>12, ZenonT(40) DEF Moves

LEMMA CondWaitMoves ==
  ASSUME QueueInv, NEW c \in Contexts, NEW v \in Conds, NEW m \in Mutexes,
         CondWait(c, v, m), UNCHANGED semVars
  PROVE  Moves
<1>0. SyncCall(c) /\ InUser(c) /\ pc[c] = User /\ MayRelease(c, m) /\ SyncInv /\ ContextInv
  BY StateTypes DEF CondWait, SyncCall
<1>1. ASSUME NEW st, Finish(c, st), UNCHANGED <<cond, mutexVars>>
      PROVE  Moves
  BY <1>0, <1>1, UserReturnStep, ZenonT(40)
<1>2. CASE /\ cond[v].initialized /\ OnThread /\ ~WqIsFull(cond[v].wq)
           /\ \E self \in Slots :
                /\ FindThread(self, current_tid)
                /\ cond' = [cond EXCEPT ![v].wq = WqRemove(Queued(@), self)]
           /\ GiveUp("ESTATE")
           /\ UNCHANGED <<pc, mutexVars>>
  <2>1. c \in Slots
    BY <1>0, <1>2, Caller, ZenonT(40)
  <2>2. cond' = [cond EXCEPT ![v].wq = WqRemove(WqEnqueue(@, c), c)]
    BY <1>0, <1>2, <2>1, Caller, ZenonT(40)
  <2>3. /\ ThreadsOK' /\ SleepersOnlyWake
        /\ \A call \in WaitCalls : \A obj : Unmoved(call, obj)
    BY <1>0, <1>2, <2>1, UndoMoves, ZenonT(40)
  <2>4. c \notin WqMembers(cond[v].wq) /\ cond[v].wq \in Seq(Slots)
    <3>1. c \notin Sleepers("cond", v)
      BY <1>0, <2>1, CallerRuns DEF Sleepers, Sleeps
    <3> QED
      BY <1>0, <3>1, SyncTypes, ZenonT(40) DEF QueueInv, AllExact, Exact
  <2>5. WqRemove(WqEnqueue(cond[v].wq, c), c) = cond[v].wq
    BY <1>2, <2>1, <2>4, RemoveLast, ZenonT(40)
  <2>6. /\ cond'[v].wq = WqRemove(WqEnqueue(cond[v].wq, c), c)
        /\ cond'[v].initialized = cond[v].initialized
        /\ \A w \in Conds : w # v => cond'[w] = cond[w]
    BY <1>0, <2>2 DEF SyncInv, SyncTypeOK
  <2>7. CondMove(v)
    BY <1>2, <2>3, <2>5, <2>6, WaitCallNames, ZenonT(40)
    DEF CondMove, QueueMove, QueueSame, Unmoved
  <2> QED
    BY <1>2, <2>3, <2>6, <2>7, CondOnly, ZenonT(40)
<1>3. CASE /\ cond[v].initialized /\ OnThread /\ ~WqIsFull(cond[v].wq) /\ Unlockable(m)
           /\ cond' = [cond EXCEPT ![v].wq = Queued(@)]
           /\ Unlocked(m)
           /\ Block(UnlockWakes(m))
           /\ pc' = [pc EXCEPT ![c] = At("cond", v, m)]
  <2>1. c \in Slots
    BY <1>0, <1>3, Caller, ZenonT(40)
  <2> QED
    BY <1>0, <1>3, <2>1, CondBlockStep, ZenonT(40)
<1> QED
  BY <1>1, <1>2, <1>3, ZenonT(40) DEF CondWait

LEMMA CondMoves ==
  ASSUME QueueInv, NEW c \in Contexts, CondStep(c), UNCHANGED semVars
  PROVE  Moves
<1>0. /\ SyncInv /\ Blank /\ PcOK /\ AllExact
      /\ cond \in [Conds -> [initialized : BOOLEAN, wq : Seq(Slots)]]
  BY DEF QueueInv, SyncInv, SyncTypeOK
<1>1. PICK v \in Conds : \/ CondInit(c, v)
                         \/ \E m \in Mutexes : CondWait(c, v, m)
                         \/ CondWaitResumes(c, v) \/ CondSignal(c, v)
                         \/ CondBroadcast(c, v) \/ CondDestroy(c, v)
  BY DEF CondStep
<1>2. SyncCall(c) => InUser(c) /\ \A call \in WaitCalls : \A obj : Elsewhere(c, call, obj)
  BY NowhereInUser DEF SyncCall
<1>3. ASSUME NEW st, SyncCall(c), Finish(c, st), UNCHANGED <<cond, mutexVars>>
      PROVE  Moves
  BY <1>3, UserReturnStep, ZenonT(40)
<1>4. ASSUME SyncCall(c), Finish(c, "OK"), UNCHANGED mutexVars, cond[v].wq = <<>>,
             NEW r, r.wq = <<>>, cond' = [cond EXCEPT ![v] = r]
      PROVE  Moves
  <2>1. ThreadsOK' /\ SleepersOnlyWake /\ \A call \in WaitCalls : \A obj : Unmoved(call, obj)
    BY <1>2, <1>4, ReturnMoves
  <2>2. cond'[v] = r /\ \A w \in Conds : w # v => cond'[w] = cond[w]
    BY <1>0, <1>4, ZenonT(40)
  <2>3. CondMove(v)
    BY <1>4, <2>1, <2>2, WaitCallNames, ZenonT(40)
    DEF CondMove, QueueMove, QueueSame, Unmoved
  <2> QED
    BY <1>4, <2>1, <2>2, <2>3, CondOnly, ZenonT(40)
<1>5. ASSUME NEW W, W \subseteq Sleepers("cond", v), Unblock(W), UNCHANGED <<pc, mutexVars>>,
             NEW q, cond' = [cond EXCEPT ![v].wq = q], cond[v].initialized,
             Sleepers("cond", v)' = Sleepers("cond", v) \ W =>
               QueueMove("cond", v, cond[v].wq, q)
      PROVE  Moves
  <2>1. /\ ThreadsOK' /\ SleepersOnlyWake
        /\ Sleepers("cond", v)' = Sleepers("cond", v) \ W
        /\ Roused("cond", v)' = Roused("cond", v) \cup W
        /\ \A call \in WaitCalls : \A obj : call # "cond" \/ obj # v => Unmoved(call, obj)
    BY <1>5, WakeMoves, WaitCallNames, ZenonT(40)
  <2>2. /\ cond'[v].wq = q /\ cond'[v].initialized
        /\ \A w \in Conds : w # v => cond'[w] = cond[w]
    BY <1>0, <1>5
  <2>3. CondMove(v)
    BY <1>5, <2>1, <2>2, ZenonT(40) DEF CondMove
  <2> QED
    BY <1>5, <2>1, <2>2, <2>3, CondOnly, ZenonT(40)
<1>6. CASE CondInit(c, v)
  <2> DEFINE r == [initialized |-> TRUE, wq |-> <<>>]
  <2>1. r.wq = <<>>
    OBVIOUS
  <2>2. /\ SyncCall(c) /\ Finish(c, "OK") /\ UNCHANGED mutexVars
        /\ cond[v].wq = <<>> /\ cond' = [cond EXCEPT ![v] = r]
    BY <1>0, <1>6, ZenonT(40) DEF CondInit, Blank
  <2> HIDE DEF r
  <2> QED
    BY <1>4, <2>1, <2>2, ZenonT(40)
<1>7. CASE CondWaitResumes(c, v)
  <2>1. InUser(c) /\ pc[c].at = "cond" /\ pc[c].obj = v /\ cond' = cond
        /\ LockFrom(c, pc[c].mutex)
    BY <1>7 DEF CondWaitResumes, Resumed
  <2>2. c \in Slots /\ pc[c].mutex \in Mutexes
    <3>1. /\ User.at = "user"
          /\ \A k, o, m : At(k, o, m).at = k /\ At(k, o, m).mutex = m
      BY DEF User, At
    <3>2. /\ pc[c] # User
          /\ \A o, m : pc[c] # At("lock", o, m) /\ pc[c] # At("sem", o, m)
      BY <2>1, <3>1, SMTT(30)
    <3>3. c \in Slots /\ \E w \in Conds, m \in Mutexes : pc[c] = At("cond", w, m)
      BY <1>0, <3>2, SMTT(30) DEF PcOK
    <3> QED
      BY <3>1, <3>3
  <2>3. /\ \A x \in Sems : Elsewhere(c, "sem", x)
        /\ \A n \in Mutexes : Elsewhere(c, "lock", n)
    BY <2>1, ZenonT(40) DEF Elsewhere
  <2>4. current_tid # 0 \/ "lock" \in MainCalls
    BY <2>1, <2>2, LockCaller, ZenonT(40)
  <2> QED
    BY <2>1, <2>2, <2>3, <2>4, LockFromStep, ZenonT(40)
<1>8. CASE CondSignal(c, v)
  <2>1. CASE ~cond[v].initialized
    BY <1>3, <1>8, <2>1, ZenonT(40) DEF CondSignal
  <2>2. CASE cond[v].initialized
    <3>1. /\ cond' = [cond EXCEPT ![v].wq = WqDequeue(cond[v].wq)]
          /\ Unblock(WqHead(cond[v].wq)) /\ UNCHANGED <<pc, mutexVars>>
      BY <1>8, <2>2, ZenonT(40) DEF CondSignal
    <3>2. WqHead(cond[v].wq) \subseteq Sleepers("cond", v)
      BY HeadSleeps, ZenonT(40)
    <3>3. Sleepers("cond", v)' = Sleepers("cond", v) \ WqHead(cond[v].wq) =>
            QueueMove("cond", v, cond[v].wq, WqDequeue(cond[v].wq))
      BY ZenonT(40) DEF QueueMove, QueueHeadLeaves
    <3> QED
      BY <1>5, <2>2, <3>1, <3>2, <3>3, ZenonT(40)
  <2> QED
    BY <2>1, <2>2
<1>9. CASE CondBroadcast(c, v)
  <2>1. CASE ~cond[v].initialized
    BY <1>3, <1>9, <2>1, ZenonT(40) DEF CondBroadcast
  <2>2. CASE cond[v].initialized
    <3>1. /\ cond' = [cond EXCEPT ![v].wq = <<>>]
          /\ Unblock(WqMembers(cond[v].wq)) /\ UNCHANGED <<pc, mutexVars>>
      BY <1>9, <2>2, ZenonT(40) DEF CondBroadcast
    <3>2. WqMembers(cond[v].wq) = Sleepers("cond", v)
      BY <1>0 DEF AllExact, Exact
    <3>3. Sleepers("cond", v)' = Sleepers("cond", v) \ WqMembers(cond[v].wq) =>
            QueueMove("cond", v, cond[v].wq, <<>>)
      BY <3>2 DEF QueueMove, QueueCleared
    <3> QED
      BY <1>5, <2>2, <3>1, <3>2, <3>3, ZenonT(40)
  <2> QED
    BY <2>1, <2>2
<1>10. CASE CondDestroy(c, v)
  <2>1. SyncCall(c) /\ UNCHANGED mutexVars
    BY <1>10, ZenonT(40) DEF CondDestroy
  <2>2. CASE /\ WqIsEmpty(cond[v].wq)
             /\ cond' = [cond EXCEPT ![v] = ZeroCond]
             /\ Finish(c, "OK")
    <3>1. ZeroCond.wq = <<>> /\ cond[v].wq = <<>>
      BY <2>2 DEF ZeroCond, WqIsEmpty
    <3> QED
      BY <1>4, <2>1, <2>2, <3>1, Zenon
  <2> QED
    BY <1>3, <1>10, <2>1, <2>2, ZenonT(40) DEF CondDestroy
<1> QED
  BY <1>1, <1>6, <1>7, <1>8, <1>9, <1>10, CondWaitMoves, ZenonT(40)

\* A step that leaves the objects, and those who wait, alone.
LEMMA NothingMoves ==
  ASSUME QueueInv, ThreadsOK', SleepersOnlyWake,
         \A call \in WaitCalls : \A obj : Unmoved(call, obj),
         UNCHANGED <<mutex, holders, sem, permits, cond>>
  PROVE  Moves
<1>1. ASSUME NEW m \in Mutexes
      PROVE  MutexMove(m)
  BY WaitCallNames, ZenonT(40) DEF MutexMove, MutexSame
<1>2. ASSUME NEW x \in Sems
      PROVE  SemMove(x)
  BY WaitCallNames, ZenonT(40) DEF SemMove, SemSame
<1>3. ASSUME NEW v \in Conds
      PROVE  CondMove(v)
  BY CondStays, WaitCallNames DEF Unmoved
<1> QED
  BY <1>1, <1>2, <1>3, ZenonT(40) DEF Moves

LEMMA StepMoves ==
  ASSUME NoCancel, QueueInv, [SyncNext]_allVars
  PROVE  Moves
<1>1. CASE PlainStep
  <2>1. UNCHANGED <<mutex, holders, sem, permits, cond>>
    BY <1>1 DEF PlainStep, mutexVars, semVars
  <2> QED
    BY <1>1, <2>1, PlainMoves, NothingMoves, ZenonT(40)
<1>2. ASSUME NEW c \in Contexts,
             \/ MutexStep(c) /\ UNCHANGED <<semVars, cond>>
             \/ SemStep(c) /\ UNCHANGED <<mutexVars, cond>>
             \/ CondStep(c) /\ UNCHANGED semVars
      PROVE  Moves
  BY <1>2, MutexMoves, SemMoves, CondMoves, ZenonT(40)
<1>3. CASE UNCHANGED allVars
  <2>1. /\ UNCHANGED <<mutex, holders, sem, permits, cond>>
        /\ UNCHANGED <<pc, state, tid, next_tid, frame>>
    BY <1>3, ZenonT(40)
    DEF allVars, syncVars, mutexVars, semVars, runtimeVars, table, control
  <2>2. ThreadsOK' /\ SleepersOnlyWake
    <3>1. Joins'
      BY <2>1, QuietJoins, ZenonT(40) DEF QueueInv, ThreadsOK
    <3> QED
      BY <2>1, <3>1, ZenonT(40)
      DEF QueueInv, ThreadsOK, LiveWaiters, NoneCanceled, SleepersOnlyWake, User, At
  <2>3. \A call \in WaitCalls : \A obj : Unmoved(call, obj)
    BY <2>1 DEF Unmoved, Sleepers, Roused, Sleeps, WokenFrom
  <2> QED
    BY <2>1, <2>2, <2>3, NothingMoves, ZenonT(40)
<1> QED
  BY <1>1, <1>2, <1>3, ZenonT(40) DEF SyncNext

----------------------------------------------------------------------------
(* What the moves preserve.                                                *)

LEMMA QueueMoveExact ==
  ASSUME NEW call, NEW obj, NEW q \in Seq(Slots), NEW r,
         Exact(q, Sleepers(call, obj)), QueueMove(call, obj, q, r)
  PROVE  Exact(r, Sleepers(call, obj)')
<1>1. CASE QueueSame(call, obj, q, r)
  BY <1>1 DEF QueueSame
<1>2. ASSUME NEW c \in Slots, QueueGrows(call, obj, q, r, c)
      PROVE  Exact(r, Sleepers(call, obj)')
  BY <1>2, ExactAppend DEF QueueGrows
<1>3. CASE QueueHeadLeaves(call, obj, q, r)
  BY <1>3, ExactDequeue DEF QueueHeadLeaves
<1>4. CASE QueueCleared(call, obj, q, r)
  BY <1>4, ExactEnds, ZenonT(40) DEF QueueCleared
<1> QED
  BY <1>1, <1>2, <1>3, <1>4, ZenonT(40) DEF QueueMove

LEMMA MutexMoveQueue ==
  ASSUME NEW m, MutexMove(m)
  PROVE  QueueMove("lock", m, mutex[m].wq, mutex'[m].wq)
<1>1. CASE MutexSame(m) \/ MutexReset(m)
  BY <1>1 DEF MutexSame, MutexReset, QueueMove, QueueSame, Unmoved
<1>2. CASE MutexFreed(m)
  BY <1>2 DEF MutexFreed, QueueMove
<1>3. ASSUME NEW c \in Contexts, MutexTaken(m, c) \/ MutexRefused(m, c)
      PROVE  QueueSame("lock", m, mutex[m].wq, mutex'[m].wq)
  BY <1>3 DEF MutexTaken, MutexRefused, QueueSame
<1>4. ASSUME NEW c \in Contexts, MutexAwaited(m, c)
      PROVE  \E d \in Slots : QueueGrows("lock", m, mutex[m].wq, mutex'[m].wq, d)
  <2>1. c \in Slots /\ QueueGrows("lock", m, mutex[m].wq, mutex'[m].wq, c)
    BY <1>4 DEF MutexAwaited, QueueGrows
  <2> QED
    BY <2>1
<1> QED
  BY <1>1, <1>2, <1>3, <1>4, ZenonT(40) DEF MutexMove, QueueMove

LEMMA SemMoveQueue ==
  ASSUME NEW x, SemMove(x)
  PROVE  QueueMove("sem", x, sem[x].wq, sem'[x].wq)
<1>1. CASE SemSame(x) \/ SemTaken(x) \/ SemCounted(x) \/ SemReset(x)
  BY <1>1 DEF SemSame, SemTaken, SemCounted, SemReset, QueueMove, QueueSame, Unmoved
<1>2. CASE SemHanded(x)
  BY <1>2 DEF SemHanded, QueueMove
<1>3. ASSUME NEW c \in Slots, SemGranted(x, c)
      PROVE  QueueSame("sem", x, sem[x].wq, sem'[x].wq)
  BY <1>3 DEF SemGranted, QueueSame
<1>4. ASSUME NEW c \in Slots, SemAwaited(x, c)
      PROVE  QueueGrows("sem", x, sem[x].wq, sem'[x].wq, c)
  BY <1>4 DEF SemAwaited
<1> QED
  BY <1>1, <1>2, <1>3, <1>4, ZenonT(40) DEF SemMove, QueueMove

LEMMA MovesExact ==
  ASSUME QueueInv, Moves
  PROVE  AllExact'
<1>0. SyncInv /\ AllExact
  BY DEF QueueInv
<1>1. ASSUME NEW m \in Mutexes
      PROVE  Exact(mutex'[m].wq, Sleepers("lock", m)')
  <2>1. mutex[m].wq \in Seq(Slots) /\ Exact(mutex[m].wq, Sleepers("lock", m))
    BY <1>0, SyncTypes, ZenonT(40) DEF AllExact
  <2>2. QueueMove("lock", m, mutex[m].wq, mutex'[m].wq)
    BY MutexMoveQueue DEF Moves
  <2> QED
    BY <2>1, <2>2, QueueMoveExact, ZenonT(40)
<1>2. ASSUME NEW x \in Sems
      PROVE  Exact(sem'[x].wq, Sleepers("sem", x)')
  <2>1. sem[x].wq \in Seq(Slots) /\ Exact(sem[x].wq, Sleepers("sem", x))
    BY <1>0, SyncTypes DEF AllExact
  <2>2. QueueMove("sem", x, sem[x].wq, sem'[x].wq)
    BY SemMoveQueue DEF Moves
  <2> QED
    BY <2>1, <2>2, QueueMoveExact, ZenonT(40)
<1>3. ASSUME NEW v \in Conds
      PROVE  Exact(cond'[v].wq, Sleepers("cond", v)')
  <2>1. cond[v].wq \in Seq(Slots) /\ Exact(cond[v].wq, Sleepers("cond", v))
    BY <1>0, SyncTypes, ZenonT(40) DEF AllExact
  <2>2. QueueMove("cond", v, cond[v].wq, cond'[v].wq)
    BY DEF Moves, CondMove
  <2> QED
    BY <2>1, <2>2, QueueMoveExact, ZenonT(40)
<1> QED
  BY <1>1, <1>2, <1>3, ZenonT(40) DEF AllExact

LEMMA MovesBlank ==
  ASSUME QueueInv, Moves
  PROVE  Blank'
<1>0. SyncInv /\ Blank
  BY ZenonT(40) DEF QueueInv
<1>1. ASSUME NEW m \in Mutexes, ~mutex'[m].initialized
      PROVE  mutex'[m].wq = <<>>
  <2>1. MutexMove(m) /\ (~mutex[m].initialized => mutex[m].wq = <<>>)
    BY <1>0, ZenonT(40) DEF Moves, Blank
  <2> QED
    BY <1>1, <2>1, ZenonT(40)
    DEF MutexMove, MutexSame, MutexTaken, MutexRefused, MutexAwaited, MutexFreed, MutexReset,
        QueueSame
<1>2. ASSUME NEW x \in Sems, ~sem'[x].initialized
      PROVE  sem'[x].wq = <<>> /\ sem'[x].count = 0
  <2>1. SemMove(x) /\ (~sem[x].initialized => sem[x].wq = <<>> /\ sem[x].count = 0)
    BY <1>0 DEF Moves, Blank
  <2> QED
    BY <1>2, <2>1, ZenonT(40)
    DEF SemMove, SemSame, SemTaken, SemAwaited, SemGranted, SemHanded, SemCounted, SemReset
<1>3. ASSUME NEW v \in Conds, ~cond'[v].initialized
      PROVE  cond'[v].wq = <<>>
  BY <1>3 DEF Moves, CondMove
<1> QED
  BY <1>1, <1>2, <1>3, ZenonT(40) DEF Blank

\* A mutex that is free while threads sleep on it: only an unlock frees it, and
\* that wakes the first of them.
LEMMA MovesWakeup ==
  ASSUME QueueInv, NoLostWakeup, Moves
  PROVE  NoLostWakeup'
<1>1. ASSUME NEW m \in Mutexes, ~mutex'[m].locked, mutex'[m].wq # <<>>
      PROVE  Roused("lock", m)' # {}
  <2>0. /\ mutex[m].wq \in Seq(Slots) /\ Exact(mutex[m].wq, Sleepers("lock", m))
        /\ MutexMove(m)
    BY SyncTypes DEF QueueInv, AllExact, Moves
  <2>1. ~mutex[m].locked /\ mutex[m].wq # <<>> => Roused("lock", m) # {}
    BY DEF NoLostWakeup, WqIsEmpty, Roused
  <2>2. CASE MutexSame(m)
    BY <1>1, <2>1, <2>2, ZenonT(40) DEF MutexSame, Unmoved
  <2>3. CASE MutexFreed(m)
    <3>1. mutex[m].wq # <<>>
      BY <1>1, <2>3, ZenonT(40) DEF MutexFreed, QueueHeadLeaves, WqDequeue, WqIsEmpty
    <3> QED
      BY <2>0, <2>3, <3>1, ExactDequeue, ZenonT(40) DEF MutexFreed
  <2>4. CASE MutexReset(m)
    BY <1>1, <2>4, ZenonT(40) DEF MutexReset
  <2>5. ASSUME NEW c \in Contexts, MutexTaken(m, c) \/ MutexRefused(m, c) \/ MutexAwaited(m, c)
        PROVE  FALSE
    BY <1>1, <2>5 DEF MutexTaken, MutexRefused, MutexAwaited
  <2> QED
    BY <2>0, <2>2, <2>3, <2>4, <2>5, ZenonT(40) DEF MutexMove
<1> QED
  BY <1>1 DEF NoLostWakeup, WqIsEmpty, Roused

LEMMA MovesNoIdlePermit ==
  ASSUME QueueInv, NoIdlePermit, Moves
  PROVE  NoIdlePermit'
<1>1. ASSUME NEW x \in Sems, sem'[x].count > 0
      PROVE  sem'[x].wq = <<>>
  <2>0. sem[x].count \in Nat /\ SemMove(x) /\ (sem[x].count > 0 => sem[x].wq = <<>>)
    BY SyncTypes DEF QueueInv, Moves, NoIdlePermit, WqIsEmpty
  <2>1. CASE SemSame(x) \/ SemTaken(x)
    BY <1>1, <2>0, <2>1, ZenonT(40) DEF SemSame, SemTaken
  <2>2. CASE SemCounted(x) \/ SemReset(x)
    BY <2>2 DEF SemCounted, SemReset
  <2>3. CASE SemHanded(x)
    BY <1>1, <2>0, <2>3, ZenonT(40) DEF SemHanded
  <2>4. ASSUME NEW c \in Slots, SemAwaited(x, c) \/ SemGranted(x, c)
        PROVE  sem'[x].wq = <<>>
    BY <1>1, <2>0, <2>4, SMTT(30) DEF SemAwaited, SemGranted
  <2> QED
    BY <2>0, <2>1, <2>2, <2>3, <2>4, ZenonT(40) DEF SemMove
<1> QED
  BY <1>1 DEF NoIdlePermit, WqIsEmpty

LEMMA MovesPermits ==
  ASSUME QueueInv, SyncInv', PermitsConserved, Moves
  PROVE  PermitsConserved'
<1>1. ASSUME NEW x \in Sems
      PROVE  permits'[x] = sem'[x].count + Cardinality(Roused("sem", x)')
  <2> DEFINE R == Roused("sem", x)
             q == sem[x].wq
  <2>0. /\ sem[x].count \in Nat /\ permits[x] \in Int /\ SemMove(x) /\ q \in Seq(Slots)
        /\ Exact(q, Sleepers("sem", x))
    BY SyncTypes DEF QueueInv, Moves, AllExact
  <2>1. permits[x] = sem[x].count + Cardinality(R)
    BY DEF PermitsConserved, Roused
  <2>10. sem[x].count \in Int /\ permits[x] \in Int
    BY <2>0
  <2>2. IsFiniteSet(R) /\ Cardinality(R) \in Nat
    BY SlotSetsFinite DEF Roused
  <2>3. CASE SemSame(x) \/ SemTaken(x) \/ SemCounted(x) \/ SemReset(x)
             \/ \E c \in Slots : SemAwaited(x, c)
    <3>1. R' = R
      BY <2>3, ZenonT(40) DEF SemSame, SemTaken, SemCounted, SemReset, SemAwaited, Unmoved
    <3>2. PICK k \in Int : /\ sem'[x].count = sem[x].count + k
                            /\ permits'[x] = permits[x] + k
      <4>1. CASE SemSame(x) \/ \E c \in Slots : SemAwaited(x, c)
        <5>1. sem'[x].count = sem[x].count + 0 /\ permits'[x] = permits[x] + 0
          BY <2>10, <4>1 DEF SemSame, SemAwaited
        <5> QED
          BY <5>1
      <4>2. CASE SemTaken(x)
        <5>1. sem'[x].count = sem[x].count + (-1) /\ permits'[x] = permits[x] + (-1)
          BY <2>10, <4>2, ZenonT(40) DEF SemTaken
        <5> QED
          BY <5>1
      <4>3. CASE SemCounted(x)
        BY <4>3 DEF SemCounted
      <4>4. CASE SemReset(x)
        <5>0. sem'[x].count \in Int
          BY DEF SyncInv, SyncTypeOK
        <5>1. permits'[x] = permits[x] - sem[x].count + sem'[x].count
          BY <4>4, ZenonT(40) DEF SemReset
        <5>2. /\ sem'[x].count = sem[x].count + (sem'[x].count - sem[x].count)
              /\ permits'[x] = permits[x] + (sem'[x].count - sem[x].count)
              /\ sem'[x].count - sem[x].count \in Int
          BY <2>10, <5>0, <5>1, SMTT(30)
        <5> QED
          BY <5>2
      <4> QED
        BY <2>3, <4>1, <4>2, <4>3, <4>4, ZenonT(40)
    <3> QED
      BY <2>1, <2>2, <2>10, <3>1, <3>2, SMTT(30)
  <2>4. ASSUME NEW c \in Slots, SemGranted(x, c)
        PROVE  permits'[x] = sem'[x].count + Cardinality(R')
    <3>1. Cardinality(R \ {c}) = Cardinality(R) - 1 /\ R' = R \ {c}
      BY <2>2, <2>4, FS_RemoveElement, Zenon DEF SemGranted
    <3>2. sem'[x].count = sem[x].count /\ permits'[x] = permits[x] - 1
      BY <2>4 DEF SemGranted
    <3>3. Cardinality(R') = Cardinality(R) - 1
      BY <3>1
    <3> HIDE DEF R
    <3> QED
      BY <2>1, <2>2, <2>10, <3>2, <3>3, SMTT(30)
  <2>5. CASE SemHanded(x)
    <3>1. PICK h : WqHead(q) = {h}
      BY <2>5, Zenon DEF SemHanded, WqHead, WqIsEmpty
    <3>2. h \in Sleepers("sem", x)
      BY <2>0, <3>1, ExactDequeue, Zenon
    <3>3. h \notin R
      BY <3>2, SMTT(30) DEF Sleepers, Sleeps, Roused, WokenFrom
    <3>4. R' = R \cup {h} /\ Cardinality(R \cup {h}) = Cardinality(R) + 1
      BY <2>2, <2>5, <3>1, <3>3, FS_AddElement, Zenon DEF SemHanded
    <3>5. sem'[x].count = sem[x].count /\ permits'[x] = permits[x] + 1
      BY <2>5 DEF SemHanded
    <3>6. Cardinality(R') = Cardinality(R) + 1
      BY <3>4, ZenonT(40)
    <3> HIDE DEF R
    <3>7. permits'[x] = sem'[x].count + Cardinality(R')
      BY <2>1, <2>2, <2>10, <3>5, <3>6, SMTT(30)
    <3> QED
      BY <3>7 DEF R
  <2> QED
    BY <2>0, <2>3, <2>4, <2>5, ZenonT(40) DEF SemMove
<1> QED
  BY <1>1, ZenonT(40) DEF PermitsConserved, Roused

MutexInv == QueueInv /\ MutualExclusion /\ DestroyedUntouched /\ Lockers /\ OwnersKnown

LEMMA MovesMutex ==
  ASSUME CarefulDestroy, OwnedUnlock, MutexInv, Moves
  PROVE  (MutualExclusion /\ DestroyedUntouched /\ Lockers /\ OwnersKnown)'
<1>1. ASSUME NEW m \in Mutexes
      PROVE  /\ mutex'[m].locked => holders'[m] = {mutex'[m].owner} /\ mutex'[m].initialized
             /\ ~mutex'[m].locked => holders'[m] = {}
             /\ ~mutex'[m].initialized => Roused("lock", m)' = {}
             /\ "lock" \in MainCalls \/ (mutex'[m].locked => mutex'[m].owner # 0)
  <2>0. /\ mutex[m].locked => holders[m] = {mutex[m].owner} /\ mutex[m].initialized
        /\ ~mutex[m].locked => holders[m] = {}
        /\ ~mutex[m].initialized => Roused("lock", m) = {}
        /\ "lock" \in MainCalls \/ (mutex[m].locked => mutex[m].owner # 0)
    BY ZenonT(40) DEF MutexInv, MutualExclusion, DestroyedUntouched, Lockers, OwnersKnown
  <2>1. CASE MutexSame(m)
    BY <2>0, <2>1, ZenonT(40) DEF MutexSame, Unmoved
  <2>2. CASE MutexFreed(m)
    <3>1. holders[m] = {mutex[m].owner} /\ mutex[m].owner \in {0, current_tid}
      BY <2>0, <2>2, ZenonT(40) DEF MutexFreed, Unlockable
    <3>2. current_tid = mutex[m].owner
      BY <2>0, <2>2, <3>1, ZenonT(40) DEF MutexFreed, Unlockable, OwnedUnlock
    <3> QED
      BY <2>2, <3>1, <3>2, ZenonT(40) DEF MutexFreed
  <2>3. CASE MutexReset(m)
    BY <2>0, <2>3, ZenonT(40) DEF MutexReset, CarefulDestroy, Unmoved
  <2>4. ASSUME NEW c \in Contexts, MutexTaken(m, c)
        PROVE  /\ mutex'[m].locked /\ holders'[m] = {mutex'[m].owner} /\ mutex'[m].initialized
               /\ "lock" \in MainCalls \/ mutex'[m].owner # 0
    BY <2>0, <2>4, ZenonT(40) DEF MutexTaken
  <2>5. ASSUME NEW c \in Contexts, MutexRefused(m, c) \/ MutexAwaited(m, c)
        PROVE  /\ mutex'[m].locked /\ holders'[m] = {mutex'[m].owner} /\ mutex'[m].initialized
               /\ "lock" \in MainCalls \/ mutex'[m].owner # 0
    BY <2>0, <2>5, ZenonT(40) DEF MutexRefused, MutexAwaited
  <2>6. MutexMove(m)
    BY DEF Moves
  <2> QED
    BY <2>1, <2>2, <2>3, <2>4, <2>5, <2>6, ZenonT(40) DEF MutexMove
<1> QED
  BY <1>1, ZenonT(40) DEF MutualExclusion, DestroyedUntouched, Lockers, OwnersKnown



----------------------------------------------------------------------------
(* The theorems.                                                           *)

LEMMA NobodyWaits ==
  ASSUME SyncInit
  PROVE  \A call \in WaitCalls : \A obj : Sleepers(call, obj) = {} /\ Roused(call, obj) = {}
<1>1. \A s \in Slots : pc[s] = User
  BY ContextFacts DEF SyncInit
<1>2. User.at \notin WaitCalls
  BY DEF User, At, WaitCalls
<1> QED
  BY <1>1, <1>2 DEF Sleepers, Roused, Sleeps, WokenFrom

LEMMA QueueStart ==
  SyncInit => /\ QueueInv /\ NoLostWakeup /\ NoIdlePermit /\ PermitsConserved
              /\ MutualExclusion /\ DestroyedUntouched /\ Lockers /\ OwnersKnown
<1> SUFFICES ASSUME SyncInit
             PROVE  /\ QueueInv /\ NoLostWakeup /\ NoIdlePermit /\ PermitsConserved
                    /\ MutualExclusion /\ DestroyedUntouched /\ Lockers /\ OwnersKnown
  OBVIOUS
<1>1. /\ \A m \in Mutexes : mutex[m] = ZeroMutex /\ holders[m] = {}
      /\ \A x \in Sems : sem[x] = ZeroSem /\ permits[x] = 0
      /\ \A v \in Conds : cond[v] = ZeroCond
  BY DEF SyncInit, InitMutexes, InitSems, InitConds
<1>2. /\ ZeroMutex.wq = <<>> /\ ~ZeroMutex.locked
      /\ ZeroSem.wq = <<>> /\ ZeroSem.count = 0 /\ ZeroCond.wq = <<>>
  BY DEF ZeroMutex, ZeroSem, ZeroCond
<1>3. ThreadsOK
  <2>1. /\ \A s \in Slots : state[s] = "EMPTY" /\ pc[s] = User
        /\ \A c \in Contexts : frame[c] = NoFrame
    BY ContextFacts DEF SyncInit, Init, NoThreads
  <2>2. NoFrame.call # "join"
    BY DEF NoFrame
  <2> QED
    BY <2>1, <2>2 DEF ThreadsOK, Joins, LiveWaiters, NoneCanceled
<1>4. AllExact
  BY <1>1, <1>2, NobodyWaits, WaitCallNames, ExactEnds, Zenon DEF AllExact
<1>5. Blank
  BY <1>1, <1>2 DEF Blank
<1>6. PermitsConserved
  <2>1. \A x \in Sems : Cardinality({s \in Slots : WokenFrom(s, "sem", x)}) = 0
    BY NobodyWaits, WaitCallNames, FS_EmptySet, ZenonT(40) DEF Roused
  <2> QED
    BY <1>1, <1>2, <2>1, SMTT(30) DEF PermitsConserved
<1>7. NoLostWakeup /\ NoIdlePermit
  BY <1>1, <1>2, SMTT(30) DEF NoLostWakeup, NoIdlePermit, WqIsEmpty
<1>8. MutualExclusion /\ DestroyedUntouched /\ Lockers /\ OwnersKnown
  BY <1>1, <1>2, NobodyWaits, WaitCallNames, ZenonT(40)
  DEF MutualExclusion, DestroyedUntouched, Lockers, OwnersKnown
<1> QED
  BY <1>3, <1>4, <1>5, <1>6, <1>7, <1>8, SyncStart, ZenonT(40) DEF QueueInv

LEMMA QueueStep ==
  ASSUME NoCancel, QueueInv, [SyncNext]_allVars
  PROVE  QueueInv' /\ SyncInv' /\ Moves
<1>1. Moves
  BY StepMoves
<1>2. SyncInv'
  BY SyncStepInv DEF QueueInv
<1> QED
  BY <1>1, <1>2, MovesExact, MovesBlank, ZenonT(40) DEF QueueInv, Moves

\* The queues of all objects, call by call.
LEMMA AllExactQueues == AllExact => QueuesExact
<1> SUFFICES ASSUME AllExact, NEW call \in WaitCalls, NEW obj \in Objects[call]
             PROVE  /\ \A s \in Slots : s \in WqMembers(Queue(call, obj)) <=> Sleeps(s, call, obj)
                    /\ \A i, j \in 1 .. Len(Queue(call, obj)) :
                         Queue(call, obj)[i] = Queue(call, obj)[j] => i = j
  BY DEF QueuesExact
<1>1. Exact(Queue(call, obj), Sleepers(call, obj))
  <2>1. CASE call = "lock"
    BY <2>1 DEF AllExact, Objects, Queue
  <2>2. CASE call = "sem"
    BY <2>2 DEF AllExact, Objects, Queue
  <2>3. CASE call = "cond"
    BY <2>3 DEF AllExact, Objects, Queue
  <2> QED
    BY <2>1, <2>2, <2>3, ZenonT(40) DEF WaitCalls
<1> QED
  BY <1>1, ZenonT(40) DEF Exact, Sleepers

\* Where nothing is canceled, the queue of a mutex, semaphore or condition
\* variable holds exactly the threads asleep in a call on it, each once: every
\* path of lock, sem_wait and cond_wait (its undo included) that enqueues a slot
\* blocks it, and every dequeue wakes it.
THEOREM QueuesAlwaysExact ==
  ASSUME NoCancel
  PROVE  SyncSpec => []QueuesExact
<1>1. QueueInv => QueuesExact
  BY AllExactQueues DEF QueueInv
<1>2. QueueInv /\ [SyncNext]_allVars => QueueInv'
  BY QueueStep
<1>3. SyncInit => QueueInv
  BY QueueStart
<1> QED
  BY <1>1, <1>2, <1>3, PTL DEF SyncSpec

\* A free mutex with sleepers has a waiter on its way, in every program that
\* cancels nothing (gth_mutex_unlock wakes, gth_mutex_lock gives up only on a
\* mutex that is taken).
THEOREM NeverLostWakeup ==
  ASSUME NoCancel
  PROVE  SyncSpec => []NoLostWakeup
<1> DEFINE I == QueueInv /\ NoLostWakeup
<1>1. I /\ [SyncNext]_allVars => I'
  BY QueueStep, MovesWakeup, ZenonT(40)
<1>2. SyncInit => I
  BY QueueStart
<1>3. I => NoLostWakeup
  OBVIOUS
<1> QED
  BY <1>1, <1>2, <1>3, PTL DEF SyncSpec

LEMMA SemAlways ==
  ASSUME NoCancel
  PROVE  SyncSpec => [](PermitsConserved /\ NoIdlePermit)
<1> DEFINE I == QueueInv /\ PermitsConserved /\ NoIdlePermit
<1>1. I /\ [SyncNext]_allVars => I'
  BY QueueStep, MovesPermits, MovesNoIdlePermit, ZenonT(40)
<1>2. SyncInit => I
  BY QueueStart
<1>3. I => PermitsConserved /\ NoIdlePermit
  OBVIOUS
<1> QED
  BY <1>1, <1>2, <1>3, PTL DEF SyncSpec

\* Posts, waits, initial counts and destroyed counts add up: gth_sem_post hands
\* a permit over or counts it, never both, and a woken waiter takes just one.
THEOREM PermitsAlwaysConserved ==
  ASSUME NoCancel
  PROVE  SyncSpec => []PermitsConserved
BY SemAlways, PTL

\* Nobody sleeps on a semaphore while its count is positive.
THEOREM NeverIdlePermit ==
  ASSUME NoCancel
  PROVE  SyncSpec => []NoIdlePermit
BY SemAlways, PTL

LEMMA MutexAlways ==
  ASSUME NoCancel, CarefulDestroy, OwnedUnlock
  PROVE  SyncSpec => [](MutualExclusion /\ DestroyedUntouched)
<1>1. MutexInv /\ [SyncNext]_allVars => MutexInv'
  BY QueueStep, MovesMutex, ZenonT(40) DEF MutexInv
<1>2. SyncInit => MutexInv
  BY QueueStart DEF MutexInv
<1>3. MutexInv => MutualExclusion /\ DestroyedUntouched
  BY DEF MutexInv
<1> QED
  BY <1>1, <1>2, <1>3, PTL DEF SyncSpec

\* A mutex has at most one holder, the recorded owner, if nothing is canceled,
\* no mutex is destroyed under a woken waiter, and threads do not unlock what
\* they did not lock where the OS thread (owner 0, which gth_mutex_unlock takes
\* for "no owner") locks too.
THEOREM AlwaysMutualExclusion ==
  ASSUME NoCancel, CarefulDestroy, OwnedUnlock
  PROVE  SyncSpec => []MutualExclusion
BY MutexAlways, PTL

\* Under the same hypotheses nobody takes a destroyed mutex: the waiters that
\* gth_cond_wait sends back to it included, which its queue does not show.
THEOREM DestroyedNeverTouched ==
  ASSUME NoCancel, CarefulDestroy, OwnedUnlock
  PROVE  SyncSpec => []DestroyedUntouched
BY MutexAlways, PTL

LEMMA ExactSize ==
  ASSUME NEW q \in Seq(Slots), NEW S, Exact(q, S)
  PROVE  Cardinality(S) = Len(q)
<1>1. /\ S = {q[i] : i \in 1 .. Len(q)} /\ Len(q) \in Nat
      /\ \A i, j \in 1 .. Len(q) : q[i] = q[j] => i = j
  BY DEF Exact, WqMembers
<1>2. q \in [1 .. Len(q) -> S] /\ DOMAIN q = 1 .. Len(q)
  <2>1. q = [i \in 1 .. Len(q) |-> q[i]] /\ DOMAIN q = 1 .. Len(q)
    OBVIOUS
  <2>2. \A i \in 1 .. Len(q) : q[i] \in S
    BY <1>1
  <2> QED
    BY <2>1, <2>2, ZenonT(40)
<1>3. q \in Injection(1 .. Len(q), S)
  BY <1>1, <1>2, ZenonT(40) DEF Injection, IsInjective
<1>4. q \in Surjection(1 .. Len(q), S)
  BY <1>1, <1>2 DEF Surjection
<1>5. ExistsBijection(1 .. Len(q), S)
  BY <1>3, <1>4, ZenonT(40) DEF ExistsBijection, Bijection
<1> QED
  BY <1>1, <1>5, FS_CountingElements, ZenonT(40)

\* The threads that wake up in this step out of `call` on obj.
WokenNow(call, obj) == {s \in Slots : Sleeps(s, call, obj) /\ state'[s] = "READY"}

LEMMA QueueMoveWakes ==
  ASSUME SleepersOnlyWake, NEW call, NEW obj, NEW q \in Seq(Slots), NEW r,
         Exact(q, Sleepers(call, obj)), QueueMove(call, obj, q, r), Len(q) - Len(r) >= 0
  PROVE  Cardinality(WokenNow(call, obj)) = Len(q) - Len(r)
<1> DEFINE S == Sleepers(call, obj)
           T == Sleepers(call, obj)'
<1>1. WokenNow(call, obj) = S \ T
  <2>1. ASSUME NEW s \in S
        PROVE  s \in Slots /\ Sleeps(s, call, obj) /\ (state'[s] = "READY" <=> s \notin T)
    BY <2>1 DEF SleepersOnlyWake, Sleepers, Sleeps
  <2>2. WokenNow(call, obj) \subseteq S
    BY DEF WokenNow, Sleepers
  <2> QED
    BY <2>1, <2>2, ZenonT(40) DEF WokenNow
<1>2. Len(q) \in Nat
  OBVIOUS
<1>3. CASE QueueSame(call, obj, q, r)
  <2>1. WokenNow(call, obj) = {}
    BY <1>1, <1>3, ZenonT(40) DEF QueueSame
  <2>2. r = q
    BY <1>3 DEF QueueSame
  <2> QED
    BY <1>2, <2>1, <2>2, FS_EmptySet, SMTT(30)
<1>4. ASSUME NEW c \in Slots, QueueGrows(call, obj, q, r, c)
      PROVE  FALSE
  <2>1. Len(r) = Len(q) + 1
    BY <1>4 DEF QueueGrows, WqEnqueue
  <2> QED
    BY <1>2, <2>1
<1>5. CASE QueueHeadLeaves(call, obj, q, r)
  <2>1. WokenNow(call, obj) = WqHead(q) /\ r = WqDequeue(q)
    BY <1>1, <1>5, ExactDequeue, ZenonT(40) DEF QueueHeadLeaves
  <2>2. CASE q = <<>>
    BY <1>2, <2>1, <2>2, FS_EmptySet, SMTT(30) DEF WqHead, WqDequeue, WqIsEmpty
  <2>3. CASE q # <<>>
    <3>1. Len(r) = Len(q) - 1 /\ Len(q) - Len(r) = 1
      BY <2>1, <2>3 DEF WqDequeue, WqIsEmpty
    <3>2. Cardinality(WqHead(q)) = 1
      BY <2>3, FS_Singleton, Zenon DEF WqHead, WqIsEmpty
    <3> QED
      BY <2>1, <3>1, <3>2, ZenonT(40)
  <2> QED
    BY <2>2, <2>3, ZenonT(40)
<1>6. CASE QueueCleared(call, obj, q, r)
  <2>1. WokenNow(call, obj) = S
    BY <1>1, <1>6, ZenonT(40) DEF QueueCleared
  <2>2. Len(r) = 0
    BY <1>6 DEF QueueCleared
  <2> QED
    BY <1>2, <2>1, <2>2, ExactSize, SMTT(30)
<1> QED
  BY <1>3, <1>4, <1>5, <1>6, ZenonT(40) DEF QueueMove

\* Every entry taken out of a queue wakes one thread that slept there: no
\* signal, post or unlock is spent on a thread that does not wait, in programs
\* that cancel nothing (the callers of gth_thread_unblock_slot ignore its result).
THEOREM EveryWakeupAlwaysDelivered ==
  ASSUME NoCancel
  PROVE  SyncSpec => EveryWakeupDelivered
<1> DEFINE A == \A call \in WaitCalls : \A obj \in Objects[call] :
                  LET taken == Len(Queue(call, obj)) - Len(Queue(call, obj)')
                      woken == {s \in Slots : Sleeps(s, call, obj) /\ state'[s] = "READY"}
                  IN  taken >= 0 => Cardinality(woken) = taken
<1>1. ASSUME QueueInv, Moves
      PROVE  A
  <2>0. SyncInv /\ AllExact /\ SleepersOnlyWake
    BY <1>1 DEF QueueInv, Moves
  <2>1. SUFFICES ASSUME NEW call \in WaitCalls, NEW obj \in Objects[call],
                        Len(Queue(call, obj)) - Len(Queue(call, obj)') >= 0
                 PROVE  Cardinality(WokenNow(call, obj))
                          = Len(Queue(call, obj)) - Len(Queue(call, obj)')
    BY ZenonT(40) DEF WokenNow
  <2>2. /\ Queue(call, obj) \in Seq(Slots) /\ Exact(Queue(call, obj), Sleepers(call, obj))
        /\ QueueMove(call, obj, Queue(call, obj), Queue(call, obj)')
    <3>1. CASE call = "lock"
      BY <1>1, <2>0, <3>1, SyncTypes, MutexMoveQueue, ZenonT(40)
      DEF AllExact, Objects, Queue, Moves
    <3>2. CASE call = "sem"
      BY <1>1, <2>0, <3>2, SyncTypes, SemMoveQueue, ZenonT(40)
      DEF AllExact, Objects, Queue, Moves
    <3>3. CASE call = "cond"
      BY <1>1, <2>0, <3>3, SyncTypes, ZenonT(40)
      DEF AllExact, Objects, Queue, Moves, CondMove
    <3> QED
      BY <3>1, <3>2, <3>3, ZenonT(40) DEF WaitCalls
  <2> QED
    BY <2>0, <2>1, <2>2, QueueMoveWakes, ZenonT(40)
<1>2. QueueInv /\ [SyncNext]_allVars => QueueInv' /\ A
  BY <1>1, QueueStep, ZenonT(40)
<1>3. SyncInit => QueueInv
  BY QueueStart
<1> QED
  BY <1>2, <1>3, PTL DEF SyncSpec, EveryWakeupDelivered
=============================================================================
