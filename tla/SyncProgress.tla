---------------------------- MODULE SyncProgress ----------------------------
(***************************************************************************)
(* SyncRuntime under fairness: the OS thread keeps running the scheduler,  *)
(* and a thread that has the processor goes on with the call it was        *)
(* suspended in and eventually reaches its next scheduling point.          *)
(***************************************************************************)
EXTENDS SyncRuntime

MainRuns ==
  /\ pc[Main] = User
  /\ MainYield(Main) /\ cpu' # Main
  /\ UNCHANGED syncVars

Leaves(s) ==
  /\ pc[s] = User
  /\ ThreadYield(s) \/ ThreadExit(s)
  /\ UNCHANGED syncVars

GoesOn(s) ==
  \/ \E m \in Mutexes : MutexLockResumes(s, m) /\ UNCHANGED <<semVars, cond>>
  \/ \E x \in Sems : SemWaitResumes(s, x) /\ UNCHANGED <<mutexVars, cond>>
  \/ \E v \in Conds : CondWaitResumes(s, v) /\ UNCHANGED semVars

SyncFairSpec ==
  /\ SyncSpec
  /\ SF_allVars(MainRuns)
  /\ \A s \in Slots : WF_allVars(Leaves(s)) /\ WF_allVars(GoesOn(s))

----------------------------------------------------------------------------
\* A free mutex that threads sleep on is taken: the unlock that freed it never
\* leaves its waiters behind.
FreeMutexIsTaken ==
  \A m \in Mutexes : ~mutex[m].locked /\ ~WqIsEmpty(mutex[m].wq)
                       ~> mutex[m].locked

\* A waiter that was given a permit returns from gth_sem_wait, and one that was
\* signalled gets out of the condition variable's call.
WokenGoesOn ==
  \A s \in Slots : \A call \in {"sem", "cond"} : \A obj \in Objects[call] :
    WokenFrom(s, call, obj) ~> pc[s].at # call
=============================================================================
