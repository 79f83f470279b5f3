--------------------------- MODULE WaitQueueFifo ---------------------------
(***************************************************************************)
(* What a wait queue promises: a bounded first-in first-out queue of slots *)
(* with the operators of WaitQueues, and what each call returns.           *)
(***************************************************************************)
EXTENDS WaitQueues

CONSTANTS Items, NoItem   \* the slot numbers queued; 0xFF

VARIABLES queue, result

FifoInit == queue = <<>> /\ result = NoItem

FifoEnqueue(v) == queue' = WqEnqueue(queue, v) /\ result' = NoItem

FifoDequeue ==
  /\ queue' = WqDequeue(queue)
  /\ result' = IF WqIsEmpty(queue) THEN NoItem ELSE Head(queue)

FifoRemove(v) ==
  /\ queue' = WqRemove(queue, v)
  /\ result' = IF v \in WqMembers(queue) THEN 1 ELSE 0

FifoNext == \/ \E v \in Items : FifoEnqueue(v) \/ FifoRemove(v)
            \/ FifoDequeue

FifoSpec == FifoInit /\ [][FifoNext]_<<queue, result>>
=============================================================================
