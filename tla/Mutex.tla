------------------------------- MODULE Mutex -------------------------------
(***************************************************************************)
(* gth_mutex_* (src/src/sync/mutex.c).  The lock is not handed over: unlock *)
(* frees the mutex and wakes the first waiter, which tries again when it   *)
(* runs and queues at the end if someone was faster.                       *)
(***************************************************************************)
EXTENDS Suspension

CONSTANT Mutexes

VARIABLES
  mutex,     \* the gth_mutex_impl_t of every mutex
  holders    \* history: per mutex, the tids whose lock succeeded and that
             \* have not unlocked since

mutexVars == <<mutex, holders>>

ZeroMutex == [initialized |-> FALSE, locked |-> FALSE, owner |-> 0, wq |-> <<>>]

InitMutexes ==
  /\ mutex = [m \in Mutexes |-> ZeroMutex]
  /\ holders = [m \in Mutexes |-> {}]

\* A program initializes a mutex once, and again only after destroying it.
MutexInit(c, m) ==
  /\ SyncCall(c) /\ Allowed(c, "init")
  /\ ~mutex[m].initialized
  /\ mutex' = [mutex EXCEPT ![m] = [ZeroMutex EXCEPT !.initialized = TRUE]]
  /\ Finish(c, "OK")
  /\ UNCHANGED holders

Acquire(m) ==
  /\ mutex' = [mutex EXCEPT ![m].locked = TRUE, ![m].owner = current_tid]
  /\ holders' = [holders EXCEPT ![m] = @ \cup {current_tid}]

\* The zeroed queue of a destroyed mutex has capacity 0 and is full, too.
LockQueueFull(m) == WqIsFull(mutex[m].wq) \/ ~mutex[m].initialized

\* Queue and block, or give up on a full queue.
LockWait(c, m) ==
  \/ LockQueueFull(m) /\ Finish(c, "EBUSY") /\ UNCHANGED mutexVars
  \/ /\ ~LockQueueFull(m)
     /\ mutex' = [mutex EXCEPT ![m].wq = Queued(@)]
     /\ Block({})
     /\ pc' = [pc EXCEPT ![c] = At("lock", m, NoObject)]
     /\ UNCHANGED holders

\* gth_mutex_lock from its start to its return or its first swap.
LockFrom(c, m) ==
  \/ /\ ~mutex[m].initialized
     /\ Finish(c, "ESTATE") /\ UNCHANGED mutexVars
  \/ /\ mutex[m].initialized /\ ~mutex[m].locked
     /\ Acquire(m) /\ Finish(c, "OK")
  \/ /\ mutex[m].initialized /\ mutex[m].locked
     /\ \/ /\ mutex[m].owner = current_tid
           /\ Finish(c, "EBUSY") /\ UNCHANGED mutexVars
        \/ /\ mutex[m].owner # current_tid /\ ~OnThread
           /\ Finish(c, "ESTATE") /\ UNCHANGED mutexVars
        \/ /\ mutex[m].owner # current_tid /\ OnThread
           /\ LockWait(c, m)

MutexLock(c, m) == SyncCall(c) /\ Allowed(c, "lock") /\ LockFrom(c, m)

\* Mutant: the woken waiter takes the mutex without looking.
MutexLockBarges(c, m) ==
  /\ Resumed(c, "lock", m)
  /\ Acquire(m)
  /\ Finish(c, "OK")

\* The while loop of gth_mutex_lock, each time the waiter runs again.  It does
\* not look at `initialized`.
MutexLockResumes(c, m) ==
  /\ Resumed(c, "lock", m)
  /\ \/ ~mutex[m].locked /\ Acquire(m) /\ Finish(c, "OK")
     \/ mutex[m].locked /\ LockWait(c, m)

\* Mutant: the initialized flag is not tested.
MutexTrylockUnchecked(c, m) ==
  /\ SyncCall(c) /\ Allowed(c, "lock")
  /\ \/ mutex[m].locked /\ Finish(c, "EBUSY") /\ UNCHANGED mutexVars
     \/ ~mutex[m].locked /\ Acquire(m) /\ Finish(c, "OK")

MutexTrylock(c, m) ==
  /\ SyncCall(c) /\ Allowed(c, "lock")
  /\ \/ /\ ~mutex[m].initialized
        /\ Finish(c, "ESTATE") /\ UNCHANGED mutexVars
     \/ /\ mutex[m].initialized /\ mutex[m].locked
        /\ Finish(c, "EBUSY") /\ UNCHANGED mutexVars
     \/ /\ mutex[m].initialized /\ ~mutex[m].locked
        /\ Acquire(m) /\ Finish(c, "OK")

\* The checks of gth_mutex_unlock.  Owner 0 is the OS thread, and also passes.
Unlockable(m) ==
  /\ mutex[m].initialized
  /\ mutex[m].locked
  /\ mutex[m].owner \in {0, current_tid}

\* Mutant: the waiter is looked at, not taken out of the queue.
UnlockedPeeks(m) ==
  /\ mutex' = [mutex EXCEPT ![m].locked = FALSE, ![m].owner = 0]
  /\ holders' = [holders EXCEPT ![m] = @ \ {current_tid}]

\* What gth_mutex_unlock does to the mutex, and the waiter it wakes.
Unlocked(m) ==
  /\ mutex' = [mutex EXCEPT ![m].locked = FALSE, ![m].owner = 0,
                            ![m].wq = WqDequeue(@)]
  /\ holders' = [holders EXCEPT ![m] = @ \ {current_tid}]

UnlockWakes(m) == WqHead(mutex[m].wq)

\* Whether the program releases m here: it holds it, or ("foreign_unlock") it
\* calls unlock without having locked.
MayRelease(c, m) == current_tid \in holders[m] \/ Allowed(c, "foreign_unlock")

\* Mutant: unlock leaves the waiters alone.
MutexUnlockSilent(c, m) ==
  /\ SyncCall(c) /\ MayRelease(c, m)
  /\ \/ ~Unlockable(m) /\ Finish(c, "ESTATE") /\ UNCHANGED mutexVars
     \/ /\ Unlockable(m)
        /\ UnlockedPeeks(m)
        /\ Finish(c, "OK")

MutexUnlock(c, m) ==
  /\ SyncCall(c) /\ MayRelease(c, m)
  /\ \/ ~Unlockable(m) /\ Finish(c, "ESTATE") /\ UNCHANGED mutexVars
     \/ /\ Unlockable(m)
        /\ Unlocked(m)
        /\ Unblock(UnlockWakes(m))
        /\ status' = "OK"
        /\ UNCHANGED pc

\* Some thread was woken inside gth_mutex_lock on m and has not run since.
WakingIn(m) ==
  \E s \in Slots : pc[s].at = "lock" /\ pc[s].obj = m /\ state[s] # "BLOCKED"

\* "destroy_in_use": the program may destroy a mutex that a woken waiter is
\* about to lock.
MutexDestroy(c, m) ==
  /\ SyncCall(c) /\ Allowed(c, "destroy")
  /\ ~WakingIn(m) \/ Allowed(c, "destroy_in_use")
  /\ \/ /\ ~mutex[m].initialized
        /\ Finish(c, "ESTATE") /\ UNCHANGED mutexVars
     \/ /\ mutex[m].initialized
        /\ mutex[m].locked \/ ~WqIsEmpty(mutex[m].wq)
        /\ Finish(c, "EBUSY") /\ UNCHANGED mutexVars
     \/ /\ mutex[m].initialized /\ ~mutex[m].locked /\ WqIsEmpty(mutex[m].wq)
        /\ mutex' = [mutex EXCEPT ![m] = ZeroMutex]
        /\ Finish(c, "OK")
        /\ UNCHANGED holders

MutexStep(c) ==
  \E m \in Mutexes : \/ MutexInit(c, m)
                     \/ MutexLock(c, m)
                     \/ MutexLockResumes(c, m)
                     \/ MutexTrylock(c, m)
                     \/ MutexUnlock(c, m)
                     \/ MutexDestroy(c, m)
=============================================================================
