----------------------------- MODULE SyncProofs -----------------------------
(***************************************************************************)
(* The library with its mutexes, semaphores and condition variables keeps  *)
(* its types and implements Threads, for every number of slots, objects    *)
(* and queue entries and every program.                                    *)
(*                                                                         *)
(* Then the invariant about those who wait, QueueInv, for every program    *)
(* that cancels no thread. Two sets per object say who waits: the threads  *)
(* asleep in a call on it (Sleepers) and those woken out of one (Roused).  *)
(***************************************************************************)
EXTENDS SyncRuntime, ThreadsProofs

\* Only green threads are suspended inside a synchronization call, and in one
\* they may make, on objects of its kind.
PcOK ==
  \A c \in Contexts :
    \/ pc[c] = User
    \/ /\ c \in Slots /\ Allowed(c, "sync")
       /\ \/ \E m \in Mutexes : pc[c] = At("lock", m, NoObject)
          \/ \E x \in Sems : pc[c] = At("sem", x, NoObject)
          \/ \E v \in Conds, m \in Mutexes : pc[c] = At("cond", v, m)

SyncInv == SyncTypeOK /\ ContextInv /\ PcOK

----------------------------------------------------------------------------
(* Queues.                                                                 *)

LEMMA QueueTypes ==
  ASSUME NEW q \in Seq(Slots), NEW s \in Slots
  PROVE  /\ WqEnqueue(q, s) \in Seq(Slots)
         /\ WqDequeue(q) \in Seq(Slots)
         /\ WqMembers(q) \in SUBSET Slots
         /\ WqHead(q) \in SUBSET Slots
         /\ WqRemove(q, s) \in Seq(Slots)
<1>1. WqEnqueue(q, s) \in Seq(Slots)
  BY DEF WqEnqueue
<1>2. WqDequeue(q) \in Seq(Slots)
  BY DEF WqDequeue, WqIsEmpty
<1>3. WqMembers(q) \in SUBSET Slots
  BY DEF WqMembers
<1>4. WqHead(q) \in SUBSET Slots
  BY DEF WqHead, WqIsEmpty
<1>5. WqRemove(q, s) \in Seq(Slots)
  <2>1. CASE s \notin WqMembers(q)
    BY <2>1 DEF WqRemove
  <2>2. CASE s \in WqMembers(q)
    <3> DEFINE k == CHOOSE i \in 1 .. Len(q) : q[i] = s /\ \A j \in 1 .. i - 1 : q[j] # s
    <3>1. WqRemove(q, s) = [i \in 1 .. Len(q) - 1 |-> IF i < k THEN q[i] ELSE q[i + 1]]
      BY <2>2 DEF WqRemove
    <3>2. Len(q) \in Nat /\ Len(q) >= 1
      BY <2>2 DEF WqMembers
    <3>3. \A i \in 1 .. Len(q) - 1 : (IF i < k THEN q[i] ELSE q[i + 1]) \in Slots
      BY <3>2
    <3>4. WqRemove(q, s) \in [1 .. Len(q) - 1 -> Slots]
      BY <3>1, <3>3
    <3>5. Len(q) - 1 \in Nat
      BY <3>2
    <3> QED
      BY <3>4, <3>5
  <2> QED
    BY <2>1, <2>2
<1> QED
  BY <1>1, <1>2, <1>3, <1>4, <1>5

\* gth_thread_current_slot_index and gth_runtime_find_thread find the caller.
LEMMA Caller ==
  ASSUME ContextInv, NEW c \in Contexts, InUser(c)
  PROVE  /\ OnThread <=> c \in Slots
         /\ c \in Slots => /\ current_tid # 0
                           /\ state[c] \in {"RUNNING", "CANCELED"}
                           /\ \A s \in Slots : FindThread(s, current_tid) <=> s = c
                           /\ \A q : Queued(q) = WqEnqueue(q, c)
<1>1. cpu = c /\ CpuIsCurrent /\ TidsUnique /\ Slots \subseteq Nat
  BY ContextFacts DEF InUser, ContextInv, ContextsExact
<1>2. CASE c = Main
  BY <1>1, <1>2, ContextFacts DEF CpuIsCurrent, OnThread
<1>3. CASE c \in Slots
  <2>1. tid[c] = current_tid /\ current_tid # 0 /\ state[c] \in {"RUNNING", "CANCELED"}
    BY <1>1, <1>3 DEF CpuIsCurrent
  <2>2. Found(current_tid) = {c}
    BY <1>1, <1>3, <2>1, Zenon DEF Found, TidsUnique
  <2>3. \A s \in Slots : FindThread(s, current_tid) <=> s = c
    BY <1>1, <1>3, <2>2 DEF FindThread
  <2>4. (CHOOSE s \in Slots : FindThread(s, current_tid)) = c
    BY <1>3, <2>3
  <2>5. \A q : Queued(q) = WqEnqueue(q, c)
    BY <2>4, Zenon DEF Queued
  <2> QED
    BY <1>3, <2>1, <2>2, <2>3, <2>5, ZenonT(40) DEF OnThread
<1> QED
  BY <1>2, <1>3 DEF Contexts

----------------------------------------------------------------------------
(* What a synchronization call does to the threads is one of four things.  *)

Returns(c) ==
  /\ \E st \in Statuses : Return(st)
  /\ pc' = [pc EXCEPT ![c] = User]
Wakes(c) ==
  /\ \E W \in SUBSET Slots : Unblock(W)
  /\ status' = "OK" /\ pc' = pc
Waits(c) ==
  /\ c \in Slots
  /\ \E W \in SUBSET Slots : Block(W)
  /\ \/ \E m \in Mutexes : pc' = [pc EXCEPT ![c] = At("lock", m, NoObject)]
     \/ \E x \in Sems : pc' = [pc EXCEPT ![c] = At("sem", x, NoObject)]
     \/ \E v \in Conds, m \in Mutexes : pc' = [pc EXCEPT ![c] = At("cond", v, m)]
Undoes(c) == c \in Slots /\ GiveUp("ESTATE") /\ pc' = pc

SyncEffect(c) ==
  /\ InUser(c) /\ Allowed(c, "sync")
  /\ Returns(c) \/ Wakes(c) \/ Waits(c) \/ Undoes(c)

SyncVarsOK ==
  /\ mutex \in [Mutexes -> [initialized : BOOLEAN, locked : BOOLEAN,
                            owner : Nat, wq : Seq(Slots)]]
  /\ holders \in [Mutexes -> SUBSET Nat]
  /\ sem \in [Sems -> [initialized : BOOLEAN, count : 0 .. SemMax,
                       wq : Seq(Slots)]]
  /\ permits \in [Sems -> Int]
  /\ cond \in [Conds -> [initialized : BOOLEAN, wq : Seq(Slots)]]

LEMMA FinishReturns ==
  ASSUME NEW c, NEW st \in Statuses, Finish(c, st)
  PROVE  Returns(c)
BY DEF Finish, Returns

MutexRecord == [initialized : BOOLEAN, locked : BOOLEAN, owner : Nat, wq : Seq(Slots)]
MutexTable == [Mutexes -> MutexRecord]

\* The fields of a mutex, written one after the other.
LEMMA MutexFields ==
  ASSUME NEW f \in MutexTable, NEW m \in Mutexes
  PROVE  /\ \A b \in BOOLEAN : [f EXCEPT ![m].locked = b] \in MutexTable
         /\ \A t \in Nat : [f EXCEPT ![m].owner = t] \in MutexTable
         /\ \A q \in Seq(Slots) : [f EXCEPT ![m].wq = q] \in MutexTable
         /\ \A r \in MutexRecord : [f EXCEPT ![m] = r] \in MutexTable
BY Zenon DEF MutexTable, MutexRecord, MutexRecord

LEMMA ZeroMutexType ==
  ZeroMutex \in MutexRecord /\ [ZeroMutex EXCEPT !.initialized = TRUE] \in MutexRecord
<1>1. ZeroMutex \in MutexRecord
  BY DEF ZeroMutex, MutexRecord
<1>2. \A r \in MutexRecord : [r EXCEPT !.initialized = TRUE] \in MutexRecord
  BY Zenon DEF MutexRecord
<1> QED
  BY <1>1, <1>2

LEMMA AcquireTypes ==
  ASSUME SyncInv, NEW m \in Mutexes, Acquire(m)
  PROVE  mutex' \in MutexTable /\ holders' \in [Mutexes -> SUBSET Nat]
<1>0. /\ mutex \in MutexTable /\ holders \in [Mutexes -> SUBSET Nat]
      /\ current_tid \in Nat
  BY DEF SyncInv, SyncTypeOK, RuntimeTypeOK, MutexTable, MutexRecord
<1> DEFINE f == [mutex EXCEPT ![m].locked = TRUE]
<1>1. f \in MutexTable
  BY <1>0, MutexFields, Zenon
<1>2. mutex' = [f EXCEPT ![m].owner = current_tid]
  BY DEF Acquire
<1>3. mutex' \in MutexTable
  <2> HIDE DEF f
  <2> QED
    BY <1>0, <1>1, <1>2, MutexFields, Zenon
<1>4. holders' \in [Mutexes -> SUBSET Nat]
  BY <1>0, SMTT(30) DEF Acquire
<1> QED
  BY <1>3, <1>4

LEMMA UnlockTypes ==
  ASSUME SyncInv, NEW m \in Mutexes, Unlocked(m)
  PROVE  mutex' \in MutexTable /\ holders' \in [Mutexes -> SUBSET Nat]
<1>0. /\ mutex \in MutexTable /\ holders \in [Mutexes -> SUBSET Nat]
      /\ mutex[m].wq \in Seq(Slots)
  BY DEF SyncInv, SyncTypeOK, MutexTable, MutexRecord
<1> DEFINE f == [mutex EXCEPT ![m].locked = FALSE]
           g == [f EXCEPT ![m].owner = 0]
<1>1. f \in MutexTable /\ f[m].wq = mutex[m].wq
  <2>1. f[m].wq = mutex[m].wq
    BY <1>0 DEF MutexTable, MutexRecord
  <2> QED
    BY <1>0, <2>1, MutexFields, Zenon
<1>2. g \in MutexTable /\ g[m].wq = mutex[m].wq
  <2> HIDE DEF f
  <2>1. g[m].wq = f[m].wq
    BY <1>1 DEF MutexTable, MutexRecord
  <2> QED
    BY <1>1, <2>1, MutexFields, Zenon
<1>3. mutex' = [g EXCEPT ![m].wq = WqDequeue(@)]
  BY Zenon DEF Unlocked
<1>4. WqDequeue(mutex[m].wq) \in Seq(Slots)
  BY <1>0, ContextFacts, QueueTypes
<1>5. mutex' \in MutexTable
  <2> HIDE DEF g
  <2>1. mutex' = [g EXCEPT ![m].wq = WqDequeue(mutex[m].wq)]
    BY <1>2, <1>3
  <2> QED
    BY <1>2, <1>4, <2>1, MutexFields, ZenonT(40)
<1>6. holders' \in [Mutexes -> SUBSET Nat]
  BY <1>0, SMTT(30) DEF Unlocked
<1> QED
  BY <1>5, <1>6

LEMMA LockWaitEffect ==
  ASSUME SyncInv, NEW c \in Slots, InUser(c), NEW m \in Mutexes, LockWait(c, m),
         UNCHANGED <<semVars, cond>>
  PROVE  (Returns(c) \/ Waits(c)) /\ SyncVarsOK'
<1>0. c \in Contexts /\ ContextInv
  BY ContextFacts, ZenonT(40) DEF SyncInv
<1>1. CASE Finish(c, "EBUSY") /\ UNCHANGED mutexVars
  BY <1>1, FinishReturns, SMTT(30)
  DEF Statuses, SyncVarsOK, SyncInv, SyncTypeOK, mutexVars, semVars
<1>2. CASE /\ mutex' = [mutex EXCEPT ![m].wq = Queued(@)]
           /\ Block({})
           /\ pc' = [pc EXCEPT ![c] = At("lock", m, NoObject)]
           /\ UNCHANGED holders
  <2>1. Waits(c)
    BY <1>2, Zenon DEF Waits
  <2>2. \A q \in Seq(Slots) : Queued(q) \in Seq(Slots)
    BY <1>0, Caller, QueueTypes, SMTT(30)
  <2>3. SyncVarsOK'
    BY <1>2, <2>2, ZenonT(40) DEF SyncVarsOK, SyncInv, SyncTypeOK, semVars
  <2> QED
    BY <2>1, <2>3, SMTT(30)
<1> QED
  BY <1>1, <1>2, SMTT(30) DEF LockWait

LEMMA LockFromEffect ==
  ASSUME SyncInv, NEW c \in Contexts, InUser(c), NEW m \in Mutexes, LockFrom(c, m),
         UNCHANGED <<semVars, cond>>
  PROVE  (Returns(c) \/ Waits(c)) /\ SyncVarsOK'
<1>0. ContextInv
  BY DEF SyncInv
<1>1. ASSUME NEW st \in Statuses, Finish(c, st), UNCHANGED mutexVars
      PROVE  Returns(c) /\ SyncVarsOK'
  BY <1>1, FinishReturns DEF SyncVarsOK, SyncInv, SyncTypeOK, mutexVars, semVars
<1>2. CASE Acquire(m) /\ Finish(c, "OK")
  BY <1>2, FinishReturns, AcquireTypes, ZenonT(40)
  DEF MutexTable, MutexRecord, Statuses, SyncVarsOK, SyncInv, SyncTypeOK, semVars
<1>3. CASE OnThread /\ LockWait(c, m)
  BY <1>0, <1>3, Caller, LockWaitEffect
<1>4. "ESTATE" \in Statuses /\ "EBUSY" \in Statuses
  BY DEF Statuses
<1> QED
  BY <1>1, <1>2, <1>3, <1>4 DEF LockFrom

LEMMA MutexEffect ==
  ASSUME SyncInv, NEW c \in Contexts, MutexStep(c), UNCHANGED <<semVars, cond>>
  PROVE  SyncEffect(c) /\ SyncVarsOK'
<1>0. ContextInv /\ "ESTATE" \in Statuses /\ "EBUSY" \in Statuses /\ "OK" \in Statuses
  BY DEF SyncInv, Statuses
<1>1. PICK m \in Mutexes : \/ MutexInit(c, m) \/ MutexLock(c, m)
                           \/ MutexLockResumes(c, m) \/ MutexTrylock(c, m)
                           \/ MutexUnlock(c, m) \/ MutexDestroy(c, m)
  BY DEF MutexStep
<1>2. InUser(c) /\ Allowed(c, "sync")
  BY <1>1 DEF MutexInit, MutexLock, MutexLockResumes, MutexTrylock, MutexUnlock,
     MutexDestroy, SyncCall, Resumed, SyncInv, PcOK, User, At
<1>3. ASSUME NEW st \in Statuses, Finish(c, st), UNCHANGED mutexVars
      PROVE  Returns(c) /\ SyncVarsOK'
  BY <1>3, FinishReturns, ZenonT(40) DEF SyncVarsOK, SyncInv, SyncTypeOK, mutexVars, semVars
<1>4. CASE Acquire(m) /\ Finish(c, "OK")
  <2>1. Returns(c) /\ SyncVarsOK'
    BY <1>0, <1>4, FinishReturns, AcquireTypes, ZenonT(40)
    DEF MutexTable, MutexRecord, SyncVarsOK, SyncInv, SyncTypeOK, semVars
  <2> QED
    BY <1>2, <2>1, ZenonT(40) DEF SyncEffect
<1>5. ASSUME NEW r \in MutexRecord, UNCHANGED holders, Finish(c, "OK"),
             mutex' = [mutex EXCEPT ![m] = r]
      PROVE  SyncEffect(c) /\ SyncVarsOK'
  <2>1. Returns(c)
    BY <1>0, <1>5, FinishReturns
  <2>2. mutex' \in MutexTable
    BY <1>5, MutexFields DEF SyncInv, SyncTypeOK, MutexTable, MutexRecord
  <2>3. SyncVarsOK'
    BY <1>5, <2>2 DEF SyncVarsOK, SyncInv, SyncTypeOK, semVars, MutexTable, MutexRecord
  <2> QED
    BY <1>2, <2>1, <2>3 DEF SyncEffect
<1>6. CASE MutexInit(c, m)
  BY <1>5, <1>6, ZeroMutexType, Zenon DEF MutexInit
<1>7. CASE MutexLock(c, m)
  <2>1. (Returns(c) \/ Waits(c)) /\ SyncVarsOK'
    BY <1>2, <1>7, LockFromEffect DEF MutexLock
  <2> QED
    BY <1>2, <2>1 DEF SyncEffect
<1>8. CASE MutexLockResumes(c, m)
  <2>1. c \in Slots
    BY <1>8 DEF MutexLockResumes, Resumed, SyncInv, PcOK, User, At
  <2>2. CASE LockWait(c, m)
    <3>1. (Returns(c) \/ Waits(c)) /\ SyncVarsOK'
      BY <1>2, <2>1, <2>2, LockWaitEffect, ZenonT(40)
    <3> QED
      BY <1>2, <3>1 DEF SyncEffect
  <2> QED
    BY <1>4, <1>8, <2>2 DEF MutexLockResumes
<1>9. CASE MutexTrylock(c, m)
  BY <1>0, <1>2, <1>3, <1>4, <1>9, ZenonT(40) DEF MutexTrylock, SyncEffect
<1>10. CASE MutexUnlock(c, m)
  <2>1. CASE Unlocked(m) /\ Unblock(UnlockWakes(m)) /\ status' = "OK" /\ UNCHANGED pc
    <3>1. mutex[m].wq \in Seq(Slots)
      BY DEF SyncInv, SyncTypeOK
    <3>2. UnlockWakes(m) \in SUBSET Slots /\ WqDequeue(mutex[m].wq) \in Seq(Slots)
      BY <3>1, ContextFacts, QueueTypes DEF UnlockWakes
    <3>3. Wakes(c)
      BY <2>1, <3>2, ZenonT(40) DEF Wakes
    <3>4. SyncVarsOK'
      BY <2>1, UnlockTypes
      DEF MutexTable, MutexRecord, SyncVarsOK, SyncInv, SyncTypeOK, semVars
    <3> QED
      BY <1>2, <3>3, <3>4 DEF SyncEffect
  <2> QED
    BY <1>0, <1>2, <1>3, <1>10, <2>1, ZenonT(40) DEF MutexUnlock, SyncEffect
<1>11. CASE MutexDestroy(c, m)
  BY <1>0, <1>2, <1>3, <1>5, <1>11, ZeroMutexType DEF MutexDestroy, SyncEffect
<1> QED
  BY <1>1, <1>6, <1>7, <1>8, <1>9, <1>10, <1>11, ZenonT(40)

LEMMA SemEffect ==
  ASSUME SyncInv, NEW c \in Contexts, SemStep(c), UNCHANGED <<mutexVars, cond>>
  PROVE  SyncEffect(c) /\ SyncVarsOK'
<1>0. /\ ContextInv /\ "ESTATE" \in Statuses /\ "EBUSY" \in Statuses
      /\ "OK" \in Statuses /\ "EINVAL" \in Statuses /\ SemMax \in Nat
  BY SemAssumption DEF SyncInv, Statuses
<1>1. PICK x \in Sems : \/ \E n \in SemInitial : SemInit(c, x, n)
                        \/ SemWait(c, x) \/ SemWaitResumes(c, x)
                        \/ SemPost(c, x) \/ SemDestroy(c, x)
  BY ZenonT(40) DEF SemStep
<1>2. InUser(c) /\ Allowed(c, "sync")
  BY <1>1 DEF SemInit, SemWait, SemWaitResumes, SemPost, SemDestroy,
     SyncCall, Resumed, SyncInv, PcOK, User, At
<1>3. /\ sem \in [Sems -> [initialized : BOOLEAN, count : 0 .. SemMax, wq : Seq(Slots)]]
      /\ permits \in [Sems -> Int]
      /\ sem[x].wq \in Seq(Slots) /\ sem[x].count \in 0 .. SemMax
  BY DEF SyncInv, SyncTypeOK
<1>4. ASSUME sem' \in [Sems -> [initialized : BOOLEAN, count : 0 .. SemMax, wq : Seq(Slots)]],
             permits' \in [Sems -> Int]
      PROVE  SyncVarsOK'
  BY <1>4 DEF SyncVarsOK, SyncInv, SyncTypeOK, mutexVars
<1>5. ASSUME NEW st \in Statuses, Finish(c, st), UNCHANGED semVars
      PROVE  SyncEffect(c) /\ SyncVarsOK'
  BY <1>2, <1>3, <1>4, <1>5, FinishReturns, ZenonT(40) DEF semVars, SyncEffect
<1>6. ASSUME NEW n \in SemInitial, SemInit(c, x, n)
      PROVE  SyncEffect(c) /\ SyncVarsOK'
  <2>1. n \in 0 .. SemMax
    BY SemAssumption
  <2>2. /\ sem' = [sem EXCEPT ![x] = [initialized |-> TRUE, count |-> n, wq |-> <<>>]]
        /\ permits' = [permits EXCEPT ![x] = @ + n]
        /\ Finish(c, "OK")
    BY <1>6 DEF SemInit
  <2>3. permits' \in [Sems -> Int]
    BY <1>3, <2>1, <2>2
  <2>4. sem' \in [Sems -> [initialized : BOOLEAN, count : 0 .. SemMax, wq : Seq(Slots)]]
    BY <1>3, <2>1, <2>2
  <2> QED
    BY <1>0, <1>2, <1>4, <2>2, <2>3, <2>4, FinishReturns, ZenonT(40) DEF SyncEffect
<1>7. CASE SemWait(c, x)
  <2>1. CASE /\ sem[x].count > 0
             /\ sem' = [sem EXCEPT ![x].count = @ - 1]
             /\ permits' = [permits EXCEPT ![x] = @ - 1]
             /\ Finish(c, "OK")
    <3>1. sem[x].count - 1 \in 0 .. SemMax
      BY <1>0, <1>3, <2>1
    <3>2. sem' \in [Sems -> [initialized : BOOLEAN, count : 0 .. SemMax, wq : Seq(Slots)]]
      BY <1>3, <2>1, <3>1, Zenon
    <3>3. permits' \in [Sems -> Int]
      BY <1>3, <2>1
    <3> QED
      BY <1>0, <1>2, <1>4, <2>1, <3>2, <3>3, FinishReturns, ZenonT(40) DEF SyncEffect
  <2>2. CASE /\ OnThread
             /\ sem' = [sem EXCEPT ![x].wq = Queued(@)]
             /\ Block({})
             /\ pc' = [pc EXCEPT ![c] = At("sem", x, NoObject)]
             /\ UNCHANGED permits
    <3>1. c \in Slots
      BY <1>0, <1>2, <2>2, Caller
    <3>2. Queued(sem[x].wq) \in Seq(Slots)
      BY <1>0, <1>2, <1>3, <3>1, Caller, QueueTypes, Zenon
    <3>3. sem' \in [Sems -> [initialized : BOOLEAN, count : 0 .. SemMax, wq : Seq(Slots)]]
      BY <1>3, <2>2, <3>2, Zenon
    <3>4. Waits(c)
      BY <2>2, <3>1, Zenon DEF Waits
    <3> QED
      BY <1>2, <1>3, <1>4, <2>2, <3>3, <3>4, ZenonT(40) DEF SyncEffect
  <2> QED
    BY <1>0, <1>5, <1>7, <2>1, <2>2, ZenonT(40) DEF SemWait
<1>8. CASE SemWaitResumes(c, x)
  <2>1. permits' \in [Sems -> Int] /\ sem' = sem /\ Finish(c, "OK")
    BY <1>3, <1>8 DEF SemWaitResumes
  <2> QED
    BY <1>0, <1>2, <1>3, <1>4, <2>1, FinishReturns, ZenonT(40) DEF SyncEffect
<1>9. CASE SemPost(c, x)
  <2>1. CASE /\ sem' = [sem EXCEPT ![x].wq = WqDequeue(@)]
             /\ permits' = [permits EXCEPT ![x] = @ + 1]
             /\ Unblock(WqHead(sem[x].wq))
             /\ status' = "OK"
             /\ UNCHANGED pc
    <3>1. WqDequeue(sem[x].wq) \in Seq(Slots) /\ WqHead(sem[x].wq) \in SUBSET Slots
      BY <1>3, ContextFacts, QueueTypes
    <3>2. sem' \in [Sems -> [initialized : BOOLEAN, count : 0 .. SemMax, wq : Seq(Slots)]]
      BY <1>3, <2>1, <3>1, ZenonT(40)
    <3>3. permits' \in [Sems -> Int]
      BY <1>3, <2>1
    <3>4. Wakes(c)
      BY <2>1, <3>1 DEF Wakes
    <3> QED
      BY <1>2, <1>4, <3>2, <3>3, <3>4, ZenonT(40) DEF SyncEffect
  <2>2. CASE /\ sem[x].count < SemMax
             /\ sem' = [sem EXCEPT ![x].count = @ + 1]
             /\ permits' = [permits EXCEPT ![x] = @ + 1]
             /\ Finish(c, "OK")
    <3>1. sem[x].count + 1 \in 0 .. SemMax
      BY <1>0, <1>3, <2>2, SMTT(30)
    <3>2. sem' \in [Sems -> [initialized : BOOLEAN, count : 0 .. SemMax, wq : Seq(Slots)]]
      BY <1>3, <2>2, <3>1, ZenonT(40)
    <3>3. permits' \in [Sems -> Int]
      BY <1>3, <2>2
    <3> QED
      BY <1>0, <1>2, <1>4, <2>2, <3>2, <3>3, FinishReturns DEF SyncEffect
  <2> QED
    BY <1>0, <1>5, <1>9, <2>1, <2>2, ZenonT(40) DEF SemPost
<1>10. CASE SemDestroy(c, x)
  <2>1. CASE /\ sem' = [sem EXCEPT ![x] = ZeroSem]
             /\ permits' = [permits EXCEPT ![x] = @ - sem[x].count]
             /\ Finish(c, "OK")
    <3>1. ZeroSem \in [initialized : BOOLEAN, count : 0 .. SemMax, wq : Seq(Slots)]
      BY <1>0 DEF ZeroSem
    <3>2. sem' \in [Sems -> [initialized : BOOLEAN, count : 0 .. SemMax, wq : Seq(Slots)]]
      BY <1>3, <2>1, <3>1, ZenonT(40)
    <3>3. permits' \in [Sems -> Int]
      BY <1>0, <1>3, <2>1
    <3> QED
      BY <1>0, <1>2, <1>4, <2>1, <3>2, <3>3, FinishReturns, ZenonT(40) DEF SyncEffect
  <2> QED
    BY <1>0, <1>5, <1>10, <2>1, ZenonT(40) DEF SemDestroy
<1> QED
  BY <1>1, <1>6, <1>7, <1>8, <1>9, <1>10, ZenonT(40)

LEMMA CondWaitEffect ==
  ASSUME SyncInv, NEW c \in Contexts, NEW v \in Conds, NEW m \in Mutexes,
         CondWait(c, v, m), UNCHANGED semVars
  PROVE  SyncEffect(c) /\ SyncVarsOK'
<1>0. /\ ContextInv /\ "ESTATE" \in Statuses /\ "EBUSY" \in Statuses
      /\ InUser(c) /\ Allowed(c, "sync")
  BY DEF SyncInv, Statuses, CondWait, SyncCall
<1>1. /\ cond \in [Conds -> [initialized : BOOLEAN, wq : Seq(Slots)]]
      /\ cond[v].wq \in Seq(Slots) /\ mutex[m].wq \in Seq(Slots)
  BY ZenonT(40) DEF SyncInv, SyncTypeOK
<1>2. ASSUME NEW st \in Statuses, Finish(c, st), UNCHANGED <<cond, mutexVars>>
      PROVE  SyncEffect(c) /\ SyncVarsOK'
  <2>1. Returns(c)
    BY <1>2, FinishReturns
  <2> QED
    BY <1>0, <1>2, <2>1
    DEF SyncVarsOK, SyncInv, SyncTypeOK, mutexVars, semVars, SyncEffect
<1>3. CASE /\ OnThread
           /\ \E self \in Slots :
                   /\ FindThread(self, current_tid)
                   /\ cond' = [cond EXCEPT ![v].wq = WqRemove(Queued(@), self)]
           /\ GiveUp("ESTATE")
           /\ UNCHANGED <<pc, mutexVars>>
  <2>1. c \in Slots
    BY <1>0, <1>3, Caller
  <2>2. PICK self \in Slots :
          cond' = [cond EXCEPT ![v].wq = WqRemove(Queued(@), self)]
    BY <1>3, Zenon
  <2>3. Queued(cond[v].wq) \in Seq(Slots)
    BY <1>0, <1>1, <2>1, Caller, QueueTypes, Zenon
  <2>4. WqRemove(Queued(cond[v].wq), self) \in Seq(Slots)
    BY <2>3, QueueTypes, Zenon
  <2>5. cond' \in [Conds -> [initialized : BOOLEAN, wq : Seq(Slots)]]
    BY <1>1, <2>2, <2>4, Zenon
  <2>6. Undoes(c)
    BY <1>3, <2>1 DEF Undoes
  <2> QED
    BY <1>0, <1>3, <2>5, <2>6
    DEF SyncVarsOK, SyncInv, SyncTypeOK, mutexVars, semVars, SyncEffect
<1>4. CASE /\ OnThread
           /\ cond' = [cond EXCEPT ![v].wq = Queued(@)]
           /\ Unlocked(m)
           /\ Block(UnlockWakes(m))
           /\ pc' = [pc EXCEPT ![c] = At("cond", v, m)]
  <2>1. c \in Slots
    BY <1>0, <1>4, Caller, SMTT(30)
  <2>2. Queued(cond[v].wq) \in Seq(Slots)
    BY <1>0, <1>1, <2>1, Caller, QueueTypes, Zenon
  <2>3. cond' \in [Conds -> [initialized : BOOLEAN, wq : Seq(Slots)]]
    BY <1>1, <1>4, <2>2, Zenon
  <2>4. UnlockWakes(m) \in SUBSET Slots /\ WqDequeue(mutex[m].wq) \in Seq(Slots)
    BY <1>1, <2>1, QueueTypes DEF UnlockWakes
  <2>5. Waits(c)
    BY <1>4, <2>1, <2>4, ZenonT(40) DEF Waits
  <2>6. SyncVarsOK'
    BY <1>4, <2>3, UnlockTypes, ZenonT(40)
    DEF MutexTable, MutexRecord, SyncVarsOK, SyncInv, SyncTypeOK, semVars
  <2> QED
    BY <1>0, <2>5, <2>6 DEF SyncEffect
<1> QED
  BY <1>0, <1>2, <1>3, <1>4, ZenonT(40) DEF CondWait

LEMMA CondEffect ==
  ASSUME SyncInv, NEW c \in Contexts, CondStep(c), UNCHANGED semVars
  PROVE  SyncEffect(c) /\ SyncVarsOK'
<1>0. ContextInv /\ "ESTATE" \in Statuses /\ "EBUSY" \in Statuses /\ "OK" \in Statuses
  BY DEF SyncInv, Statuses
<1>1. PICK v \in Conds : \/ CondInit(c, v)
                         \/ \E m \in Mutexes : CondWait(c, v, m)
                         \/ CondWaitResumes(c, v) \/ CondSignal(c, v)
                         \/ CondBroadcast(c, v) \/ CondDestroy(c, v)
  BY DEF CondStep
<1>2. /\ cond \in [Conds -> [initialized : BOOLEAN, wq : Seq(Slots)]]
      /\ cond[v].wq \in Seq(Slots)
  BY ZenonT(40) DEF SyncInv, SyncTypeOK
<1>3. ASSUME cond' \in [Conds -> [initialized : BOOLEAN, wq : Seq(Slots)]],
             UNCHANGED mutexVars
      PROVE  SyncVarsOK'
  BY <1>3, ZenonT(40) DEF SyncVarsOK, SyncInv, SyncTypeOK, mutexVars, semVars
<1>4. ASSUME NEW st \in Statuses, Finish(c, st), InUser(c), Allowed(c, "sync"),
             cond' \in [Conds -> [initialized : BOOLEAN, wq : Seq(Slots)]],
             UNCHANGED mutexVars
      PROVE  SyncEffect(c) /\ SyncVarsOK'
  BY <1>3, <1>4, FinishReturns, ZenonT(40) DEF SyncEffect
<1>5. ASSUME NEW q \in Seq(Slots), NEW W \in SUBSET Slots,
             InUser(c), Allowed(c, "sync"),
             cond' = [cond EXCEPT ![v].wq = q], Unblock(W), status' = "OK",
             UNCHANGED <<pc, mutexVars>>
      PROVE  SyncEffect(c) /\ SyncVarsOK'
  <2>1. cond' \in [Conds -> [initialized : BOOLEAN, wq : Seq(Slots)]]
    BY <1>2, <1>5, ZenonT(40)
  <2>2. Wakes(c)
    BY <1>5 DEF Wakes
  <2> QED
    BY <1>3, <1>5, <2>1, <2>2, ZenonT(40) DEF SyncEffect
<1>6. CASE CondInit(c, v)
  <2>1. cond' \in [Conds -> [initialized : BOOLEAN, wq : Seq(Slots)]]
    <3>1. [initialized |-> TRUE, wq |-> <<>>] \in [initialized : BOOLEAN, wq : Seq(Slots)]
      OBVIOUS
    <3> QED
      BY <1>2, <1>6, <3>1, ZenonT(40) DEF CondInit
  <2> QED
    BY <1>0, <1>4, <1>6, <2>1, ZenonT(40) DEF CondInit, SyncCall
<1>7. CASE CondWaitResumes(c, v)
  <2>1. /\ InUser(c) /\ Allowed(c, "sync") /\ pc[c].mutex \in Mutexes
        /\ LockFrom(c, pc[c].mutex) /\ UNCHANGED cond
    <3>1. InUser(c) /\ pc[c].at = "cond" /\ LockFrom(c, pc[c].mutex) /\ UNCHANGED cond
      BY <1>7 DEF CondWaitResumes, Resumed
    <3>2. /\ \A m \in Mutexes : pc[c] # At("lock", m, NoObject)
          /\ \A x \in Sems : pc[c] # At("sem", x, NoObject)
          /\ pc[c] # User
      BY <3>1 DEF User, At
    <3>3. Allowed(c, "sync") /\ \E u \in Conds, m \in Mutexes : pc[c] = At("cond", u, m)
      BY <3>2 DEF SyncInv, PcOK
    <3>4. \A u, m : At("cond", u, m).mutex = m
      BY DEF At
    <3> QED
      BY <3>1, <3>3, <3>4, ZenonT(40)
  <2>2. (Returns(c) \/ Waits(c)) /\ SyncVarsOK'
    BY <2>1, LockFromEffect
  <2> QED
    BY <2>1, <2>2 DEF SyncEffect
<1>8. CASE CondSignal(c, v)
  <2>1. WqDequeue(cond[v].wq) \in Seq(Slots) /\ WqHead(cond[v].wq) \in SUBSET Slots
    BY <1>2, ContextFacts, QueueTypes
  <2> QED
    BY <1>0, <1>2, <1>4, <1>5, <1>8, <2>1, Zenon DEF CondSignal, SyncCall
<1>9. CASE CondBroadcast(c, v)
  <2>1. <<>> \in Seq(Slots) /\ WqMembers(cond[v].wq) \in SUBSET Slots
    BY <1>2, ContextFacts, QueueTypes
  <2> QED
    BY <1>0, <1>2, <1>4, <1>5, <1>9, <2>1, ZenonT(40) DEF CondBroadcast, SyncCall
<1>10. CASE CondDestroy(c, v)
  <2>1. cond' \in [Conds -> [initialized : BOOLEAN, wq : Seq(Slots)]]
    <3>1. ZeroCond \in [initialized : BOOLEAN, wq : Seq(Slots)]
      BY DEF ZeroCond
    <3> QED
      BY <1>2, <1>10, <3>1 DEF CondDestroy
  <2> QED
    BY <1>0, <1>4, <1>10, <2>1, ZenonT(40) DEF CondDestroy, SyncCall
<1> QED
  BY <1>1, <1>6, <1>7, <1>8, <1>9, <1>10, CondWaitEffect, ZenonT(40)

----------------------------------------------------------------------------
(* The refinement, and the types.                                          *)

\* A call that returns without touching the table wakes nobody.
LEMMA ReturnWakesNobody ==
  ASSUME TypeOK, NEW c, InUser(c), Allowed(c, "sync"), NEW st \in Statuses, Return(st)
  PROVE  SyncWake(c, {})
<1>1. Woken({}) = {} /\ Cardinality({}) = 0
  BY FS_EmptySet DEF Woken
<1>2. state' = [s \in Slots |-> IF s \in Woken({}) THEN "READY" ELSE state[s]]
  BY <1>1 DEF Return, table, TypeOK, RuntimeTypeOK
<1>3. /\ blocked_threads' = Lower(blocked_threads, 0)
      /\ runnable_threads' = runnable_threads + 0
  BY DEF Return, counters, Lower, TypeOK, RuntimeTypeOK
<1>4. Cardinality(Woken({})) = 0
  BY <1>1
<1> QED
  BY <1>2, <1>3, <1>4, ZenonT(40) DEF SyncWake, Unblock, Return, table

LEMMA EffectIsSyncStep ==
  ASSUME SyncInv, NEW c \in Contexts, SyncEffect(c)
  PROVE  SyncStep(c)
<1>0. ContextInv /\ TypeOK /\ InUser(c) /\ Allowed(c, "sync")
  BY DEF SyncInv, ContextInv, SyncEffect
<1>1. CASE Returns(c)
  <2>1. {} \in SUBSET Slots
    OBVIOUS
  <2> QED
    BY <1>0, <1>1, <2>1, ReturnWakesNobody DEF Returns, SyncStep
<1>2. CASE Wakes(c)
  BY <1>0, <1>2 DEF Wakes, SyncStep, SyncWake, Statuses
<1>3. CASE Waits(c)
  <2>1. current_tid # 0
    BY <1>0, <1>3, Caller DEF Waits
  <2> QED
    BY <1>0, <1>3, <2>1 DEF Waits, SyncStep, SyncBlock
<1>4. CASE Undoes(c)
  <2>1. current_tid # 0
    BY <1>0, <1>4, Caller, ZenonT(40) DEF Undoes
  <2> QED
    BY <1>0, <1>4, <2>1 DEF Undoes, SyncStep, SyncGiveUp
<1> QED
  BY <1>1, <1>2, <1>3, <1>4, ZenonT(40) DEF SyncEffect

\* A step of SyncNext is one of Threads' own, or a call of a primitive.
LEMMA SyncNextEffect ==
  ASSUME SyncInv, SyncNext
  PROVE  (PlainStep \/ \E c \in Contexts : SyncEffect(c)) /\ SyncVarsOK'
<1>1. CASE PlainStep
  BY <1>1 DEF PlainStep, SyncVarsOK, SyncInv, SyncTypeOK, mutexVars, semVars
<1> QED
  BY <1>1, MutexEffect, SemEffect, CondEffect, ZenonT(40) DEF SyncNext

LEMMA SyncNextIsNext ==
  ASSUME SyncInv, SyncNext
  PROVE  Next
BY SyncNextEffect, EffectIsSyncStep DEF Next, PlainStep

PcSet == [at : {"user"} \cup WaitCalls,
          obj : {NoObject} \cup Mutexes \cup Sems \cup Conds,
          mutex : {NoObject} \cup Mutexes]

LEMMA PcTypes ==
  /\ User \in PcSet
  /\ \A m \in Mutexes : At("lock", m, NoObject) \in PcSet
  /\ \A x \in Sems : At("sem", x, NoObject) \in PcSet
  /\ \A v \in Conds, m \in Mutexes : At("cond", v, m) \in PcSet
BY DEF PcSet, User, At, WaitCalls

LEMMA PcStep ==
  ASSUME SyncInv, SyncNext
  PROVE  PcOK' /\ \E f : pc' = [c \in Contexts |-> f[c]]
<1>1. pc \in [Contexts -> [at : {"user"} \cup WaitCalls,
                           obj : {NoObject} \cup Mutexes \cup Sems \cup Conds,
                           mutex : {NoObject} \cup Mutexes]]
      /\ PcOK
  BY DEF SyncInv, SyncTypeOK
<1>2. CASE PlainStep
  <2>1. pc' = [c \in Contexts |->
                 IF c \in Slots /\ state'[c] = "EMPTY" THEN User ELSE pc[c]]
    BY <1>2 DEF PlainStep
  <2>2. \A c \in Contexts : pc'[c] = User \/ pc'[c] = pc[c]
    BY <2>1, ZenonT(40)
  <2>3. PcOK'
    BY <1>1, <2>2, ZenonT(40) DEF PcOK, Allowed
  <2>4. pc' = [c \in Contexts |-> pc'[c]]
    BY <2>1
  <2> QED
    BY <2>3, <2>4
<1>3. ASSUME NEW c \in Contexts, SyncEffect(c)
      PROVE  PcOK' /\ \E f : pc' = [d \in Contexts |-> f[d]]
  <2>1. PICK p : pc' = [pc EXCEPT ![c] = p] /\
                 \/ p = User
                 \/ p = pc[c]
                 \/ /\ c \in Slots
                    /\ \/ \E m \in Mutexes : p = At("lock", m, NoObject)
                       \/ \E x \in Sems : p = At("sem", x, NoObject)
                       \/ \E v \in Conds, m \in Mutexes : p = At("cond", v, m)
    <3>1. pc = [pc EXCEPT ![c] = pc[c]]
      BY <1>1
    <3> QED
      BY <1>3, <3>1 DEF SyncEffect, Returns, Wakes, Waits, Undoes
  <2>2. \A d \in Contexts : pc'[d] = IF d = c THEN p ELSE pc[d]
    BY <1>1, <2>1
  <2>3. Allowed(c, "sync")
    BY <1>3, ZenonT(40) DEF SyncEffect
  <2>4. PcOK'
    BY <1>1, <2>1, <2>2, <2>3, ZenonT(40) DEF PcOK, Allowed
  <2>5. pc' = [d \in Contexts |-> pc'[d]]
    BY <1>1, <2>1, Zenon
  <2> QED
    BY <2>4, <2>5, ZenonT(40)
<1> QED
  BY <1>2, <1>3, SyncNextEffect

LEMMA SyncStepInv ==
  ASSUME SyncInv, [SyncNext]_allVars
  PROVE  SyncInv' /\ [Next]_runtimeVars
<1>1. CASE SyncNext
  <2>1. Next /\ ContextInv'
    BY <1>1, SyncNextIsNext, StepContexts, ZenonT(40) DEF SyncInv
  <2>2. SyncVarsOK' /\ PcOK' /\ \E f : pc' = [c \in Contexts |-> f[c]]
    BY <1>1, SyncNextEffect, PcStep, ZenonT(40)
  <2>3. (pc \in [Contexts -> [at : {"user"} \cup WaitCalls,
                              obj : {NoObject} \cup Mutexes \cup Sems \cup Conds,
                              mutex : {NoObject} \cup Mutexes]])'
    <3>1. \A c \in Contexts : pc'[c] \in PcSet
      BY <2>2, PcTypes, SMTT(30) DEF PcOK
    <3> QED
      BY <2>2, <3>1, ZenonT(40) DEF PcSet
  <2> QED
    BY <2>1, <2>2, <2>3, ZenonT(40) DEF SyncInv, SyncTypeOK, SyncVarsOK, ContextInv, TypeOK
<1>2. CASE UNCHANGED allVars
  <2>1. ContextInv' /\ UNCHANGED runtimeVars
    BY <1>2, StepContexts DEF allVars, SyncInv
  <2>2. UNCHANGED <<pc, mutex, holders, sem, permits, cond>>
    BY <1>2 DEF allVars, syncVars, mutexVars, semVars
  <2> QED
    BY <2>1, <2>2, Zenon DEF SyncInv, SyncTypeOK, PcOK, ContextInv, TypeOK, Allowed
<1> QED
  BY <1>1, <1>2, ZenonT(40)

LEMMA SyncStart == SyncInit => SyncInv
<1>1. ASSUME SyncInit
      PROVE  SyncInv
  <2>1. ContextInv
    BY <1>1, InitContexts DEF SyncInit
  <2>2. PcOK
    BY <1>1 DEF SyncInit, PcOK
  <2>3. pc \in [Contexts -> [at : {"user"} \cup WaitCalls,
                             obj : {NoObject} \cup Mutexes \cup Sems \cup Conds,
                             mutex : {NoObject} \cup Mutexes]]
    BY <1>1 DEF SyncInit, User, At
  <2>4. SemMax \in Nat
    BY SemAssumption, ZenonT(40)
  <2>5. SyncVarsOK
    BY <1>1, <2>4 DEF SyncInit, InitMutexes, InitSems, InitConds, ZeroMutex, ZeroSem,
       ZeroCond, SyncVarsOK
  <2> QED
    BY <2>1, <2>2, <2>3, <2>5, Zenon
    DEF SyncInv, SyncTypeOK, SyncVarsOK, ContextInv, TypeOK
<1> QED
  BY <1>1, SMTT(30)

\* The variables of the threads and of the primitives keep their types: no
\* queue ever names anything but a slot, and no semaphore counts past its
\* maximum (gth_sem_post, gth_wq_enqueue, gth_wq_remove).
THEOREM SyncTypeCorrect == SyncSpec => []SyncTypeOK
<1>1. SyncInv => SyncTypeOK
  BY DEF SyncInv
<1> QED
  BY <1>1, SyncStart, SyncStepInv, PTL DEF SyncSpec

\* Every step of a mutex, semaphore or condition variable is one that Threads
\* admits: the primitives touch the thread table only by blocking their caller
\* and waking blocked threads.  All theorems about Threads hold of the library.
THEOREM SyncImplementsThreads == SyncSpec => ImplementsThreads
<1>1. SyncInit => Init
  BY DEF SyncInit
<1>2. SyncInv /\ [SyncNext]_allVars => [Next]_runtimeVars
  BY SyncStepInv
<1> QED
  BY <1>1, <1>2, SyncStart, SyncStepInv, PTL DEF SyncSpec, ImplementsThreads, Spec

----------------------------------------------------------------------------
(* Those who wait.                                                         *)

AnyCalls == MainCalls \cup ThreadCalls
NoCancel == {"cancel", "cancel_self"} \cap AnyCalls = {}

\* No mutex is destroyed under a woken waiter; and where the OS thread uses
\* mutexes, threads unlock only what they locked.
CarefulDestroy == "destroy_in_use" \notin AnyCalls
OwnedUnlock == "lock" \notin MainCalls \/ "foreign_unlock" \notin AnyCalls

----------------------------------------------------------------------------
(* The inductive invariant.                                                *)

Sleepers(call, obj) == {s \in Slots : Sleeps(s, call, obj)}
Roused(call, obj) == {s \in Slots : WokenFrom(s, call, obj)}

\* Nobody begins or ends to wait in `call` on obj; c is not inside it.
Unmoved(call, obj) == /\ Sleepers(call, obj)' = Sleepers(call, obj)
                      /\ Roused(call, obj)' = Roused(call, obj)
Elsewhere(c, call, obj) == pc[c].at # call \/ pc[c].obj # obj

\* All that happens to a sleeper is that it becomes READY.
SleepersOnlyWake ==
  \A s \in Slots : state[s] = "BLOCKED" => /\ state'[s] \in {"BLOCKED", "READY"}
                                           /\ pc'[s] = pc[s]

\* A queue holds the slots of S, each once.
Exact(q, S) ==
  /\ WqMembers(q) = S
  /\ \A i, j \in 1 .. Len(q) : q[i] = q[j] => i = j

\* A thread that a join waits for is in the slot the join looks at, if it is in
\* the table at all: its slot is not released under another thread.
Joins ==
  \A c \in Contexts : frame[c].call = "join" =>
    /\ frame[c].tid < next_tid
    /\ \A s \in Found(frame[c].tid) : s = frame[c].slot

\* A thread inside a synchronization call is alive.
LiveWaiters ==
  \A s \in Slots : pc[s] # User => state[s] \in {"BLOCKED", "READY", "RUNNING"}

NoneCanceled == \A s \in Slots : state[s] # "CANCELED"

ThreadsOK == Joins /\ LiveWaiters /\ NoneCanceled

AllExact ==
  /\ \A m \in Mutexes : Exact(mutex[m].wq, Sleepers("lock", m))
  /\ \A x \in Sems : Exact(sem[x].wq, Sleepers("sem", x))
  /\ \A v \in Conds : Exact(cond[v].wq, Sleepers("cond", v))

\* An object that is not initialized has nobody waiting.
Blank ==
  /\ \A m \in Mutexes : ~mutex[m].initialized => mutex[m].wq = <<>>
  /\ \A x \in Sems : ~sem[x].initialized => sem[x].wq = <<>> /\ sem[x].count = 0
  /\ \A v \in Conds : ~cond[v].initialized => cond[v].wq = <<>>

QueueInv == SyncInv /\ ThreadsOK /\ AllExact /\ Blank

\* For mutual exclusion: who may be inside gth_mutex_lock, and whose the mutex
\* can be.
Lockers == \A m \in Mutexes : ~mutex[m].initialized => Roused("lock", m) = {}
OwnersKnown ==
  "lock" \in MainCalls \/ \A m \in Mutexes : mutex[m].locked => mutex[m].owner # 0

----------------------------------------------------------------------------
(* Queues as sets.                                                         *)

LEMMA ExactEnds ==
  /\ Exact(<<>>, {})
  /\ \A q \in Seq(Slots) : \A S : Exact(q, S) => S \subseteq Slots /\ (q = <<>> <=> S = {})
<1>1. WqMembers(<<>>) = {}
  BY DEF WqMembers
<1>2. Exact(<<>>, {})
  BY <1>1 DEF Exact
<1>3. ASSUME NEW q \in Seq(Slots), NEW S, Exact(q, S)
      PROVE  S \subseteq Slots /\ (q = <<>> <=> S = {})
  <2>1. S = {q[i] : i \in 1 .. Len(q)}
    BY <1>3 DEF Exact, WqMembers
  <2>2. CASE q = <<>>
    BY <2>1, <2>2
  <2>3. CASE q # <<>>
    <3>1. 1 \in 1 .. Len(q)
      BY <2>3
    <3> QED
      BY <2>1, <2>3, <3>1
  <2> QED
    BY <2>2, <2>3
<1> QED
  BY <1>2, <1>3

LEMMA ExactAppend ==
  ASSUME NEW q \in Seq(Slots), NEW S, NEW s \in Slots,
         Exact(q, S), s \notin S, ~WqIsFull(q)
  PROVE  Exact(WqEnqueue(q, s), S \cup {s}) /\ WqEnqueue(q, s) # <<>>
<1> DEFINE p == WqEnqueue(q, s)
<1>1. p = Append(q, s)
  BY DEF WqEnqueue
<1>2. /\ Len(q) \in Nat /\ Len(p) = Len(q) + 1 /\ p[Len(q) + 1] = s
      /\ \A i \in 1 .. Len(q) : p[i] = q[i]
  BY <1>1
<1>3. /\ S = {q[i] : i \in 1 .. Len(q)}
      /\ \A i, j \in 1 .. Len(q) : q[i] = q[j] => i = j
  BY DEF Exact, WqMembers
<1> HIDE DEF p
<1>4. {p[i] : i \in 1 .. Len(p)} = S \cup {s}
  <2>1. \A i \in 1 .. Len(p) : i \in 1 .. Len(q) \/ i = Len(q) + 1
    BY <1>2
  <2>2. \A i \in 1 .. Len(q) : i \in 1 .. Len(p)
    BY <1>2
  <2>3. Len(q) + 1 \in 1 .. Len(p)
    BY <1>2
  <2>4. \A i \in 1 .. Len(p) : p[i] \in S \cup {s}
    BY <1>2, <1>3, <2>1, ZenonT(40)
  <2>5. \A u \in S \cup {s} : \E i \in 1 .. Len(p) : p[i] = u
    BY <1>2, <1>3, <2>2, <2>3, ZenonT(40)
  <2> QED
    BY <2>4, <2>5, ZenonT(40)
<1>5. ASSUME NEW i \in 1 .. Len(p), NEW j \in 1 .. Len(p), p[i] = p[j]
      PROVE  i = j
  <2>1. CASE i \in 1 .. Len(q) /\ j \in 1 .. Len(q)
    BY <1>2, <1>3, <1>5, <2>1, ZenonT(40)
  <2>2. CASE i = Len(q) + 1 /\ j \in 1 .. Len(q)
    BY <1>2, <1>3, <1>5, <2>2, ZenonT(40)
  <2>3. CASE j = Len(q) + 1 /\ i \in 1 .. Len(q)
    BY <1>2, <1>3, <1>5, <2>3, ZenonT(40)
  <2> QED
    BY <1>2, <2>1, <2>2, <2>3
<1>6. p # <<>>
  BY <1>2
<1> QED
  BY <1>4, <1>5, <1>6, ZenonT(40) DEF p, Exact, WqMembers

LEMMA ExactDequeue ==
  ASSUME NEW q \in Seq(Slots), NEW S, Exact(q, S)
  PROVE  /\ WqHead(q) \subseteq S
         /\ Exact(WqDequeue(q), S \ WqHead(q))
         /\ q # <<>> => WqHead(q) # {}
<1>1. CASE q = <<>>
  <2>1. WqHead(q) = {} /\ WqDequeue(q) = q
    BY <1>1, ZenonT(40) DEF WqHead, WqDequeue, WqIsEmpty
  <2> QED
    BY <1>1, <2>1, Zenon
<1>2. CASE q # <<>>
  <2> DEFINE p == Tail(q)
  <2>1. WqHead(q) = {q[1]} /\ WqDequeue(q) = p
    BY <1>2 DEF WqHead, WqDequeue, WqIsEmpty
  <2>2. /\ Len(q) \in Nat /\ Len(q) >= 1 /\ Len(p) = Len(q) - 1
        /\ \A i \in 1 .. Len(p) : p[i] = q[i + 1]
    BY <1>2
  <2>3. /\ S = {q[i] : i \in 1 .. Len(q)}
        /\ \A i, j \in 1 .. Len(q) : q[i] = q[j] => i = j
    BY DEF Exact, WqMembers
  <2> HIDE DEF p
  <2>4. 1 \in 1 .. Len(q) /\ \A i \in 1 .. Len(p) : i + 1 \in 1 .. Len(q) /\ i + 1 # 1
    BY <2>2
  <2>5. \A i \in 1 .. Len(p) : p[i] \in S \ {q[1]}
    BY <2>2, <2>3, <2>4
  <2>6. ASSUME NEW u \in S \ {q[1]}
        PROVE  \E i \in 1 .. Len(p) : p[i] = u
    <3>1. PICK i \in 1 .. Len(q) : q[i] = u
      BY <2>3
    <3>2. i # 1
      BY <3>1, ZenonT(40)
    <3>3. i - 1 \in 1 .. Len(p) /\ (i - 1) + 1 = i
      BY <2>2, <3>2
    <3>4. p[i - 1] = u
      BY <2>2, <3>1, <3>3, ZenonT(40)
    <3> QED
      BY <3>3, <3>4, ZenonT(40)
  <2>7. {p[i] : i \in 1 .. Len(p)} = S \ {q[1]}
    BY <2>5, <2>6
  <2>8. ASSUME NEW i \in 1 .. Len(p), NEW j \in 1 .. Len(p), p[i] = p[j]
        PROVE  i = j
    <3>1. i + 1 = j + 1
      BY <2>2, <2>3, <2>4, <2>8, ZenonT(40)
    <3> QED
      BY <3>1, <2>2
  <2>9. q[1] \in S
    BY <2>3, <2>4, ZenonT(40)
  <2> QED
    BY <2>1, <2>7, <2>8, <2>9 DEF Exact, WqMembers
<1> QED
  BY <1>1, <1>2

\* gth_wq_remove takes back what gth_wq_enqueue has put at the end.
LEMMA RemoveLast ==
  ASSUME NEW q \in Seq(Slots), NEW s \in Slots, s \notin WqMembers(q), ~WqIsFull(q)
  PROVE  WqRemove(WqEnqueue(q, s), s) = q
<1> DEFINE p == WqEnqueue(q, s)
           n == Len(q) + 1
<1>1. p = Append(q, s)
  BY DEF WqEnqueue
<1>2. /\ Len(q) \in Nat /\ Len(p) = n /\ p[n] = s /\ n \in 1 .. n
      /\ \A i \in 1 .. Len(q) : p[i] = q[i] /\ q[i] # s
  BY <1>1 DEF WqMembers
<1> HIDE DEF p
<1>3. s \in WqMembers(p)
  BY <1>2 DEF WqMembers
<1> DEFINE k == CHOOSE i \in 1 .. Len(p) : p[i] = s /\ \A j \in 1 .. i - 1 : p[j] # s
<1>4. \A i \in 1 .. Len(p) : p[i] = s => i = n
  BY <1>2
<1>5. p[n] = s /\ \A j \in 1 .. n - 1 : p[j] # s
  BY <1>2
<1>6. k = n
  <2>1. n \in 1 .. Len(p)
    BY <1>2
  <2>2. k \in 1 .. Len(p) /\ p[k] = s
    BY <1>5, <2>1
  <2> QED
    BY <1>4, <2>2
<1>7. WqRemove(p, s) = [i \in 1 .. Len(p) - 1 |-> IF i < k THEN p[i] ELSE p[i + 1]]
  BY <1>3 DEF WqRemove
<1> HIDE DEF k
<1>8. Len(p) - 1 = Len(q) /\ \A i \in 1 .. Len(q) : i < k
  BY <1>2, <1>6
<1>9. WqRemove(p, s) = [i \in 1 .. Len(q) |-> q[i]]
  BY <1>2, <1>7, <1>8
<1>10. q = [i \in 1 .. Len(q) |-> q[i]]
  OBVIOUS
<1> QED
  BY <1>9, <1>10 DEF p
=============================================================================
