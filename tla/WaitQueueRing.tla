--------------------------- MODULE WaitQueueRing ---------------------------
(***************************************************************************)
(* The ring buffer of src/src/sync/wait_queue.h: head, tail and count over *)
(* an array of `capacity` entries.  It implements WaitQueueFifo.           *)
(***************************************************************************)
EXTENDS WaitQueues

CONSTANTS Items, NoItem

VARIABLES slots, head, tail, count, result

ringVars == <<slots, head, tail, count, result>>

Index == 0 .. WqCapacity - 1
Wrap(n) == n % WqCapacity

\* gth_wq_init on zeroed memory.
RingInit ==
  /\ slots = [i \in Index |-> 0]
  /\ head = 0
  /\ tail = 0
  /\ count = 0
  /\ result = NoItem

Enqueue(v) ==
  /\ \/ count >= WqCapacity /\ UNCHANGED <<slots, tail, count>>
     \/ /\ count < WqCapacity
        /\ slots' = [slots EXCEPT ![tail] = v]
        /\ tail' = Wrap(tail + 1)
        /\ count' = count + 1
  /\ result' = NoItem
  /\ UNCHANGED head

Dequeue ==
  /\ \/ count = 0 /\ result' = NoItem /\ UNCHANGED <<head, count>>
     \/ /\ count # 0
        /\ result' = slots[head]
        /\ head' = Wrap(head + 1)
        /\ count' = count - 1
  /\ UNCHANGED <<slots, tail>>

\* The offset from head of the first occurrence of v.
FirstAt(v, i) == /\ i \in 0 .. count - 1
                 /\ slots[Wrap(head + i)] = v
                 /\ \A j \in 0 .. i - 1 : slots[Wrap(head + j)] # v

\* The array after the shift loop j = i .. count - 2, which copies each entry
\* over the one before it: position p, at offset d from head, is overwritten
\* when i <= d and d + 1 < count.
Offset(p) == IF p >= head THEN p - head ELSE p - head + WqCapacity

\* Mutant: the shift starts one entry late.
ShiftedLate(i) == [p \in Index |->
                     IF i < Offset(p) /\ Offset(p) + 1 < count
                     THEN slots[Wrap(p + 1)] ELSE slots[p]]

Shifted(i) == [p \in Index |->
                 IF i <= Offset(p) /\ Offset(p) + 1 < count
                 THEN slots[Wrap(p + 1)] ELSE slots[p]]

\* Mutant: tail stays where it was.
RemoveKeepsTail(v) ==
  /\ \/ /\ \E i \in 0 .. count - 1 : FirstAt(v, i) /\ slots' = Shifted(i)
        /\ count' = count - 1
        /\ result' = 1
     \/ /\ \A i \in 0 .. count - 1 : slots[Wrap(head + i)] # v
        /\ result' = 0
        /\ UNCHANGED <<slots, count>>
  /\ UNCHANGED <<head, tail>>

Remove(v) ==
  /\ \/ /\ \E i \in 0 .. count - 1 : FirstAt(v, i) /\ slots' = Shifted(i)
        /\ tail' = Wrap(tail + WqCapacity - 1)
        /\ count' = count - 1
        /\ result' = 1
     \/ /\ \A i \in 0 .. count - 1 : slots[Wrap(head + i)] # v
        /\ result' = 0
        /\ UNCHANGED <<slots, tail, count>>
  /\ UNCHANGED head

RingNext == \/ \E v \in Items : Enqueue(v) \/ Remove(v)
            \/ Dequeue

RingSpec == RingInit /\ [][RingNext]_ringVars

----------------------------------------------------------------------------
\* The queue a ring stands for.
Contents == [i \in 1 .. count |-> slots[Wrap(head + i - 1)]]

Fifo == INSTANCE WaitQueueFifo WITH queue <- Contents

\* Types, and tail is where head and count say: the two cursors never drift
\* apart, through wrap-around and removal from the middle.
RingOK ==
  /\ slots \in [Index -> Items \cup {0}]
  /\ head \in Index
  /\ tail \in Index
  /\ count \in 0 .. WqCapacity
  /\ tail = Wrap(head + count)

\* The ring buffer behaves, call by call and result by result, as the bounded
\* FIFO the synchronization primitives are modelled with.
ImplementsFifo == Fifo!FifoSpec
=============================================================================
