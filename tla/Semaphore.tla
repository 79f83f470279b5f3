----------------------------- MODULE Semaphore -----------------------------
(***************************************************************************)
(* gth_sem_* (src/src/sync/sem.c).  A permit is handed over: post gives it *)
(* to the first waiter without counting it, and the waiter returns without *)
(* looking at the count again.                                             *)
(***************************************************************************)
EXTENDS Suspension

CONSTANTS
  Sems,
  SemMax,        \* UINT32_MAX
  SemInitial     \* the counts the program initializes semaphores with

ASSUME SemAssumption ==
  /\ SemMax \in Nat
  /\ SemInitial \subseteq 0 .. SemMax

VARIABLES
  sem,       \* the gth_sem_impl_t of every semaphore
  permits    \* history: initial count plus successful posts minus waits that
             \* returned (a destroy takes the permits left in the count away)

semVars == <<sem, permits>>

ZeroSem == [initialized |-> FALSE, count |-> 0, wq |-> <<>>]

InitSems ==
  /\ sem = [x \in Sems |-> ZeroSem]
  /\ permits = [x \in Sems |-> 0]

SemInit(c, x, n) ==
  /\ SyncCall(c) /\ Allowed(c, "init")
  /\ ~sem[x].initialized
  /\ sem' = [sem EXCEPT ![x] = [initialized |-> TRUE, count |-> n, wq |-> <<>>]]
  /\ permits' = [permits EXCEPT ![x] = @ + n]
  /\ Finish(c, "OK")

SemWait(c, x) ==
  /\ SyncCall(c)
  /\ \/ /\ ~sem[x].initialized
        /\ Finish(c, "ESTATE") /\ UNCHANGED semVars
     \/ /\ sem[x].initialized /\ sem[x].count > 0
        /\ sem' = [sem EXCEPT ![x].count = @ - 1]
        /\ permits' = [permits EXCEPT ![x] = @ - 1]
        /\ Finish(c, "OK")
     \/ /\ sem[x].initialized /\ sem[x].count = 0
        /\ \/ ~OnThread /\ Finish(c, "ESTATE") /\ UNCHANGED semVars
           \/ /\ OnThread /\ WqIsFull(sem[x].wq)
              /\ Finish(c, "EBUSY") /\ UNCHANGED semVars
           \/ /\ OnThread /\ ~WqIsFull(sem[x].wq)
              /\ sem' = [sem EXCEPT ![x].wq = Queued(@)]
              /\ Block({})
              /\ pc' = [pc EXCEPT ![c] = At("sem", x, NoObject)]
              /\ UNCHANGED permits

\* Mutant: the woken waiter looks at the count and sleeps again if it is 0.
SemWaitRechecks(c, x) ==
  /\ Resumed(c, "sem", x)
  /\ \/ /\ sem[x].count > 0
        /\ sem' = [sem EXCEPT ![x].count = @ - 1]
        /\ permits' = [permits EXCEPT ![x] = @ - 1]
        /\ Finish(c, "OK")
     \/ /\ sem[x].count = 0
        /\ sem' = [sem EXCEPT ![x].wq = Queued(@)]
        /\ Block({})
        /\ UNCHANGED <<pc, permits>>

\* Back from the swap of gth_sem_wait: it returns.
SemWaitResumes(c, x) ==
  /\ Resumed(c, "sem", x)
  /\ permits' = [permits EXCEPT ![x] = @ - 1]
  /\ Finish(c, "OK")
  /\ UNCHANGED sem

\* Mutant: no check of the maximum.
SemPostOverflows(c, x) ==
  /\ SyncCall(c)
  /\ \/ /\ ~sem[x].initialized
        /\ Finish(c, "ESTATE") /\ UNCHANGED semVars
     \/ /\ sem[x].initialized /\ ~WqIsEmpty(sem[x].wq)
        /\ sem' = [sem EXCEPT ![x].wq = WqDequeue(@)]
        /\ permits' = [permits EXCEPT ![x] = @ + 1]
        /\ Unblock(WqHead(sem[x].wq))
        /\ status' = "OK"
        /\ UNCHANGED pc
     \/ /\ sem[x].initialized /\ WqIsEmpty(sem[x].wq)
        /\ sem' = [sem EXCEPT ![x].count = @ + 1]
        /\ permits' = [permits EXCEPT ![x] = @ + 1]
        /\ Finish(c, "OK")

\* Mutant: the permit handed to a waiter is counted too.
SemPostTwice(c, x) ==
  /\ SyncCall(c)
  /\ sem[x].initialized /\ sem[x].count < SemMax
  /\ sem' = [sem EXCEPT ![x].wq = WqDequeue(@), ![x].count = @ + 1]
  /\ permits' = [permits EXCEPT ![x] = @ + 1]
  /\ Unblock(WqHead(sem[x].wq))
  /\ status' = "OK"
  /\ UNCHANGED pc

\* Mutant: the permit is counted and nobody is woken.
SemPostSilent(c, x) ==
  /\ SyncCall(c)
  /\ sem[x].initialized /\ sem[x].count < SemMax
  /\ sem' = [sem EXCEPT ![x].count = @ + 1]
  /\ permits' = [permits EXCEPT ![x] = @ + 1]
  /\ Finish(c, "OK")

SemPost(c, x) ==
  /\ SyncCall(c)
  /\ \/ /\ ~sem[x].initialized
        /\ Finish(c, "ESTATE") /\ UNCHANGED semVars
     \/ /\ sem[x].initialized /\ ~WqIsEmpty(sem[x].wq)
        /\ sem' = [sem EXCEPT ![x].wq = WqDequeue(@)]
        /\ permits' = [permits EXCEPT ![x] = @ + 1]
        /\ Unblock(WqHead(sem[x].wq))
        /\ status' = "OK"
        /\ UNCHANGED pc
     \/ /\ sem[x].initialized /\ WqIsEmpty(sem[x].wq)
        /\ \/ /\ sem[x].count = SemMax
              /\ Finish(c, "EINVAL") /\ UNCHANGED semVars
           \/ /\ sem[x].count < SemMax
              /\ sem' = [sem EXCEPT ![x].count = @ + 1]
              /\ permits' = [permits EXCEPT ![x] = @ + 1]
              /\ Finish(c, "OK")

SemDestroy(c, x) ==
  /\ SyncCall(c) /\ Allowed(c, "destroy")
  /\ \/ /\ ~sem[x].initialized
        /\ Finish(c, "ESTATE") /\ UNCHANGED semVars
     \/ /\ sem[x].initialized /\ ~WqIsEmpty(sem[x].wq)
        /\ Finish(c, "EBUSY") /\ UNCHANGED semVars
     \/ /\ sem[x].initialized /\ WqIsEmpty(sem[x].wq)
        /\ sem' = [sem EXCEPT ![x] = ZeroSem]
        /\ permits' = [permits EXCEPT ![x] = @ - sem[x].count]
        /\ Finish(c, "OK")

SemStep(c) ==
  \E x \in Sems : \/ \E n \in SemInitial : SemInit(c, x, n)
                  \/ SemWait(c, x)
                  \/ SemWaitResumes(c, x)
                  \/ SemPost(c, x)
                  \/ SemDestroy(c, x)
=============================================================================
