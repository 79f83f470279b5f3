------------------------------ MODULE CondVar ------------------------------
(***************************************************************************)
(* gth_cond_* (src/src/sync/cond.c), on top of the mutexes.                *)
(***************************************************************************)
EXTENDS Mutex

CONSTANT Conds

VARIABLE cond   \* the gth_cond_impl_t of every condition variable

ZeroCond == [initialized |-> FALSE, wq |-> <<>>]

InitConds == cond = [v \in Conds |-> ZeroCond]

CondInit(c, v) ==
  /\ SyncCall(c) /\ Allowed(c, "init")
  /\ ~cond[v].initialized
  /\ cond' = [cond EXCEPT ![v] = [initialized |-> TRUE, wq |-> <<>>]]
  /\ Finish(c, "OK")
  /\ UNCHANGED mutexVars

\* Mutant: the queue entry is not taken back when the mutex cannot be released.
CondWaitLeavesEntry(c, v, m) ==
  /\ SyncCall(c) /\ MayRelease(c, m)
  /\ cond[v].initialized /\ OnThread /\ ~WqIsFull(cond[v].wq)
  /\ cond' = [cond EXCEPT ![v].wq = Queued(@)]
  /\ \/ ~Unlockable(m) /\ GiveUp("ESTATE") /\ UNCHANGED <<pc, mutexVars>>
     \/ /\ Unlockable(m)
        /\ Unlocked(m)
        /\ Block(UnlockWakes(m))
        /\ pc' = [pc EXCEPT ![c] = At("cond", v, m)]

\* Mutant: the mutex is released without waking its waiters.
CondWaitSilent(c, v, m) ==
  /\ SyncCall(c) /\ MayRelease(c, m)
  /\ cond[v].initialized /\ OnThread /\ ~WqIsFull(cond[v].wq) /\ Unlockable(m)
  /\ cond' = [cond EXCEPT ![v].wq = Queued(@)]
  /\ UnlockedPeeks(m)
  /\ Block({})
  /\ pc' = [pc EXCEPT ![c] = At("cond", v, m)]

\* gth_cond_wait to its swap: the caller is BLOCKED and queued before the
\* mutex is released; if it cannot be, both are undone.
CondWait(c, v, m) ==
  /\ SyncCall(c) /\ MayRelease(c, m)
  /\ \/ /\ ~cond[v].initialized \/ ~OnThread
        /\ Finish(c, "ESTATE") /\ UNCHANGED <<cond, mutexVars>>
     \/ /\ cond[v].initialized /\ OnThread /\ WqIsFull(cond[v].wq)
        /\ Finish(c, "EBUSY") /\ UNCHANGED <<cond, mutexVars>>
     \/ /\ cond[v].initialized /\ OnThread /\ ~WqIsFull(cond[v].wq)
        /\ \/ /\ ~Unlockable(m)
              /\ \E self \in Slots :
                   /\ FindThread(self, current_tid)
                   /\ cond' = [cond EXCEPT ![v].wq = WqRemove(Queued(@), self)]
              /\ GiveUp("ESTATE")
              /\ UNCHANGED <<pc, mutexVars>>
           \/ /\ Unlockable(m)
              /\ cond' = [cond EXCEPT ![v].wq = Queued(@)]
              /\ Unlocked(m)
              /\ Block(UnlockWakes(m))
              /\ pc' = [pc EXCEPT ![c] = At("cond", v, m)]

\* Mutant: the mutex is taken back without waiting for it.
CondWaitBarges(c, v) ==
  /\ Resumed(c, "cond", v)
  /\ Acquire(pc[c].mutex)
  /\ Finish(c, "OK")
  /\ UNCHANGED cond

\* Back from the swap: gth_mutex_lock, whose result gth_cond_wait returns.
CondWaitResumes(c, v) ==
  /\ Resumed(c, "cond", v)
  /\ LockFrom(c, pc[c].mutex)
  /\ UNCHANGED cond

\* Mutant: the waiter becomes READY without any accounting.
CondSignalUncounted(c, v) ==
  /\ SyncCall(c)
  /\ cond[v].initialized
  /\ cond' = [cond EXCEPT ![v].wq = WqDequeue(@)]
  /\ state' = [s \in Slots |-> IF s \in WqHead(cond[v].wq) THEN "READY" ELSE state[s]]
  /\ status' = "OK"
  /\ UNCHANGED <<initialized, next_tid, last_rr_slot, tid, priority, retval,
                 counters, control, pc, mutexVars>>

CondSignal(c, v) ==
  /\ SyncCall(c)
  /\ \/ /\ ~cond[v].initialized
        /\ Finish(c, "ESTATE") /\ UNCHANGED <<cond, mutexVars>>
     \/ /\ cond[v].initialized
        /\ cond' = [cond EXCEPT ![v].wq = WqDequeue(@)]
        /\ Unblock(WqHead(cond[v].wq))
        /\ status' = "OK"
        /\ UNCHANGED <<pc, mutexVars>>

\* Mutant: the queue is emptied but only its head is woken.
CondBroadcastHead(c, v) ==
  /\ SyncCall(c)
  /\ cond[v].initialized
  /\ cond' = [cond EXCEPT ![v].wq = <<>>]
  /\ Unblock(WqHead(cond[v].wq))
  /\ status' = "OK"
  /\ UNCHANGED <<pc, mutexVars>>

CondBroadcast(c, v) ==
  /\ SyncCall(c)
  /\ \/ /\ ~cond[v].initialized
        /\ Finish(c, "ESTATE") /\ UNCHANGED <<cond, mutexVars>>
     \/ /\ cond[v].initialized
        /\ cond' = [cond EXCEPT ![v].wq = <<>>]
        /\ Unblock(WqMembers(cond[v].wq))
        /\ status' = "OK"
        /\ UNCHANGED <<pc, mutexVars>>

CondDestroy(c, v) ==
  /\ SyncCall(c) /\ Allowed(c, "destroy")
  /\ \/ /\ ~cond[v].initialized
        /\ Finish(c, "ESTATE") /\ UNCHANGED cond
     \/ /\ cond[v].initialized /\ ~WqIsEmpty(cond[v].wq)
        /\ Finish(c, "EBUSY") /\ UNCHANGED cond
     \/ /\ cond[v].initialized /\ WqIsEmpty(cond[v].wq)
        /\ cond' = [cond EXCEPT ![v] = ZeroCond]
        /\ Finish(c, "OK")
  /\ UNCHANGED mutexVars

CondStep(c) ==
  \E v \in Conds : \/ CondInit(c, v)
                   \/ \E m \in Mutexes : CondWait(c, v, m)
                   \/ CondWaitResumes(c, v)
                   \/ CondSignal(c, v)
                   \/ CondBroadcast(c, v)
                   \/ CondDestroy(c, v)
=============================================================================
