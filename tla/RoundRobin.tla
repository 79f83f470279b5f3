---------------------------- MODULE RoundRobin -----------------------------
(***************************************************************************)
(* Who waits how long for the processor: Threads with a history variable   *)
(* that counts, for each READY thread, the switches it was passed over in, *)
(* and with the fairness under which the scheduler keeps being called.     *)
(***************************************************************************)
EXTENDS Threads

VARIABLE bypass   \* per slot: switches to others since it became READY

rrVars == <<runtimeVars, bypass>>

\* A step of gth_scheduler_run_next that switches to a thread.
Switch == \E s \in Slots : state[s] = "READY" /\ state'[s] = "RUNNING"

\* The count saturates at MaxThreads, one more than BoundedBypass admits.
CountBypass ==
  bypass' = [s \in Slots |->
               IF state[s] # "READY" \/ state'[s] # "READY" THEN 0
               ELSE IF Switch /\ bypass[s] < MaxThreads THEN bypass[s] + 1
               ELSE bypass[s]]

RRInit == Init /\ bypass = Zeros
RRNext == Next /\ CountBypass
RRSpec == RRInit /\ [][RRNext]_rrVars

\* The program keeps calling the scheduler from the OS thread, a join goes on
\* looping, and every thread eventually reaches a scheduling point.
Leaves(s) == \/ ThreadYield(s)
             \/ ThreadExit(s)

Fairness ==
  /\ SF_rrVars(MainYield(Main) /\ Switch /\ CountBypass)
  /\ WF_rrVars(JoinLoop(Main) /\ CountBypass)
  /\ \A s \in Slots : WF_rrVars(Leaves(s) /\ CountBypass)

RRFairSpec == RRSpec /\ Fairness

----------------------------------------------------------------------------
\* No READY thread is passed over more than MaxThreads - 1 times in a row,
\* whatever the others do in between: create, block, wake, cancel, join.
BoundedBypass == \A s \in Slots : bypass[s] < MaxThreads

\* A READY thread gets the processor (or is canceled): round robin starves
\* nobody.
ReadyRuns == \A s \in Slots : state[s] = "READY" ~> state[s] # "READY"

\* gth_thread_join on the OS thread returns, with the thread's result or with
\* EBUSY when nobody can run, provided that every thread function returns if
\* it is run often enough.
JoinReturns ==
  (\A s \in Slots : SF_rrVars(ThreadExit(s) /\ CountBypass))
    => (frame[Main].call = "join" ~> frame[Main].call # "join")
=============================================================================
