----------------------------- MODULE WaitQueues -----------------------------
(***************************************************************************)
(* The bounded wait queues of mutexes, semaphores and condition variables  *)
(* (src/src/sync/wait_queue.h), as sequences of thread slots.  The code    *)
(* keeps them in ring buffers; WaitQueueRing models those and is shown to  *)
(* implement these operators.                                              *)
(***************************************************************************)
EXTENDS Integers, Sequences

CONSTANT WqCapacity   \* GTH_WQ_FIXED_SLOTS, the same for every queue

ASSUME WqAssumption == WqCapacity \in Nat \ {0}

WqIsEmpty(q) == q = <<>>
WqIsFull(q) == Len(q) >= WqCapacity

WqEnqueue(q, s) == IF WqIsFull(q) THEN q ELSE Append(q, s)

\* gth_wq_dequeue removes the head; what it returns, as a set (empty for 0xFF).
WqDequeue(q) == IF WqIsEmpty(q) THEN q ELSE Tail(q)
WqHead(q) == IF WqIsEmpty(q) THEN {} ELSE {Head(q)}

\* The slots a queue names.
WqMembers(q) == {q[i] : i \in 1 .. Len(q)}

\* gth_wq_remove: the first occurrence of s goes, the rest moves up.
WqRemove(q, s) ==
  IF s \notin WqMembers(q)
  THEN q
  ELSE LET k == CHOOSE i \in 1 .. Len(q) :
                  q[i] = s /\ \A j \in 1 .. i - 1 : q[j] # s
       IN  [i \in 1 .. Len(q) - 1 |-> IF i < k THEN q[i] ELSE q[i + 1]]
=============================================================================
