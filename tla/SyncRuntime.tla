---------------------------- MODULE SyncRuntime ----------------------------
(***************************************************************************)
(* The whole library at work, untraced: threads that call the scheduler,   *)
(* mutexes, semaphores and condition variables in any order their          *)
(* MainCalls and ThreadCalls admit.  gth_runtime_shutdown ends a behaviour *)
(* of this specification (it invalidates every object; Threads models it). *)
(***************************************************************************)
EXTENDS Mutex, Semaphore, CondVar

syncVars == <<pc, mutexVars, semVars, cond>>
allVars == <<runtimeVars, syncVars>>

SyncInit ==
  /\ Init
  /\ pc = [c \in Contexts |-> User]
  /\ InitMutexes
  /\ InitSems
  /\ InitConds

\* A step of Threads: the contexts suspended in a synchronization call stay
\* there; what is suspended on the stack of a freed slot is gone.
PlainStep ==
  /\ \/ \E c \in Contexts : pc[c] = User /\ ThreadStep(c)
     \/ \E s \in Slots : pc[s] = User /\ ThreadExit(s)
  /\ pc' = [c \in Contexts |->
              IF c \in Slots /\ state'[c] = "EMPTY"
              THEN User ELSE pc[c]]
  /\ UNCHANGED <<mutexVars, semVars, cond>>

SyncNext ==
  \/ PlainStep
  \/ \E c \in Contexts : \/ MutexStep(c) /\ UNCHANGED <<semVars, cond>>
                         \/ SemStep(c) /\ UNCHANGED <<mutexVars, cond>>
                         \/ CondStep(c) /\ UNCHANGED semVars

SyncSpec == SyncInit /\ [][SyncNext]_allVars

----------------------------------------------------------------------------
(* Properties.                                                             *)

WaitCalls == {"lock", "sem", "cond"}
Objects == [lock |-> Mutexes, sem |-> Sems, cond |-> Conds]

\* The wait queue of an object, under the call that waits on it.
Queue(call, obj) == CASE call = "lock" -> mutex[obj].wq
                      [] call = "sem" -> sem[obj].wq
                      [] call = "cond" -> cond[obj].wq

\* Slot s sleeps in `call` on obj.
Sleeps(s, call, obj) ==
  state[s] = "BLOCKED" /\ pc[s].at = call /\ pc[s].obj = obj

\* Slot s was woken out of `call` on obj and has not returned from it.
WokenFrom(s, call, obj) ==
  state[s] \in {"READY", "RUNNING"} /\ pc[s].at = call /\ pc[s].obj = obj

\* The variables keep their types.
SyncTypeOK ==
  /\ RuntimeTypeOK
  /\ pc \in [Contexts -> [at : {"user"} \cup WaitCalls,
                          obj : {NoObject} \cup Mutexes \cup Sems \cup Conds,
                          mutex : {NoObject} \cup Mutexes]]
  /\ mutex \in [Mutexes -> [initialized : BOOLEAN, locked : BOOLEAN,
                            owner : Nat, wq : Seq(Slots)]]
  /\ holders \in [Mutexes -> SUBSET Nat]
  /\ sem \in [Sems -> [initialized : BOOLEAN, count : 0 .. SemMax,
                       wq : Seq(Slots)]]
  /\ permits \in [Sems -> Int]
  /\ cond \in [Conds -> [initialized : BOOLEAN, wq : Seq(Slots)]]

\* A wait queue holds exactly the threads asleep in a call on its object, each
\* once: a sleeper is always where its waker will look, and a wakeup is never
\* spent on a slot that does not wait.
QueuesExact ==
  \A call \in WaitCalls : \A obj \in Objects[call] :
    LET q == Queue(call, obj) IN
      /\ \A s \in Slots : s \in WqMembers(q) <=> Sleeps(s, call, obj)
      /\ \A i, j \in 1 .. Len(q) : q[i] = q[j] => i = j

\* Every entry taken out of a wait queue makes one thread that slept there
\* READY (gth_mutex_unlock, gth_sem_post, gth_cond_signal and
\* gth_cond_broadcast ignore the result of gth_thread_unblock_slot).
EveryWakeupDelivered ==
  [][\A call \in WaitCalls : \A obj \in Objects[call] :
       LET taken == Len(Queue(call, obj)) - Len(Queue(call, obj)')
           woken == {s \in Slots : Sleeps(s, call, obj) /\ state'[s] = "READY"}
       IN  taken >= 0 => Cardinality(woken) = taken]_allVars

\* At most one context is between a successful lock (or trylock, or cond_wait)
\* and its unlock, and it is the one the mutex records as its owner.
MutualExclusion ==
  \A m \in Mutexes :
    /\ mutex[m].locked => holders[m] = {mutex[m].owner}
    /\ ~mutex[m].locked => holders[m] = {}

\* A free mutex with sleepers has a waiter on its way: woken by an unlock, not
\* yet back in the loop of gth_mutex_lock.
NoLostWakeup ==
  \A m \in Mutexes : ~mutex[m].locked /\ ~WqIsEmpty(mutex[m].wq)
                       => \E s \in Slots : WokenFrom(s, "lock", m)

\* Permits are neither lost nor made up: those not yet taken are in the count
\* or on their way to a woken waiter.
PermitsConserved ==
  \A x \in Sems :
    permits[x] = sem[x].count
                   + Cardinality({s \in Slots : WokenFrom(s, "sem", x)})

\* No thread sleeps on a semaphore that has a permit to give.
NoIdlePermit == \A x \in Sems : sem[x].count > 0 => WqIsEmpty(sem[x].wq)

\* A destroyed (or never initialized) mutex is not written to: its memory may
\* be gone.
DestroyedUntouched == \A m \in Mutexes : mutex[m].locked => mutex[m].initialized

\* The primitives use the thread table only as Threads admits: each of their
\* steps wakes blocked threads, blocks its caller, or leaves the table alone.
ImplementsThreads == Spec
=============================================================================
