----------------------------- MODULE RingProofs -----------------------------
(***************************************************************************)
(* The ring buffer of wait_queue.h implements the bounded FIFO, for every  *)
(* capacity.                                                               *)
(***************************************************************************)
EXTENDS WaitQueueRing, SequenceTheorems, TLAPS

Lap(n) == IF n < WqCapacity THEN n ELSE n - WqCapacity

\* One lap is enough: no sum of two cursors or offsets reaches a second one.
LEMMA WrapValue ==
  ASSUME NEW n \in 0 .. 2 * WqCapacity - 1
  PROVE  Wrap(n) = Lap(n)
<1> DEFINE C == WqCapacity
<1>1. C \in Nat \ {0}
  BY WqAssumption
<1>2. CASE n < C
  <2>1. n % C = n
    BY <1>1, <1>2
  <2> QED
    BY <1>2, <2>1 DEF Wrap, Lap
<1>3. CASE n >= C
  <2>1. n % C = n - C
    BY <1>1, <1>3
  <2> QED
    BY <1>1, <1>3, <2>1 DEF Wrap, Lap
<1> QED
  BY <1>1, <1>2, <1>3

\* A cursor moved on by at most one lap.
Sum(h, n) == Lap(h + n)

LEMMA WrapSum ==
  ASSUME NEW h \in Index, NEW n \in 0 .. WqCapacity
  PROVE  Wrap(h + n) = Sum(h, n) /\ Sum(h, n) \in Index
<1>1. WqCapacity \in Nat \ {0} /\ h \in 0 .. WqCapacity - 1
  BY WqAssumption DEF Index
<1>2. h + n \in 0 .. 2 * WqCapacity - 1
  BY <1>1
<1>3. Wrap(h + n) = Sum(h, n)
  BY <1>2, WrapValue, Zenon DEF Sum
<1>4. Sum(h, n) \in Index
  BY <1>1 DEF Sum, Lap, Index
<1> QED
  BY <1>3, <1>4

\* The array position at offset d from head.
Pos(d) == Wrap(head + d)

LEMMA Positions ==
  ASSUME head \in Index
  PROVE  /\ \A d \in 0 .. WqCapacity : Pos(d) = Sum(head, d) /\ Pos(d) \in Index
         /\ \A d, e \in 0 .. WqCapacity - 1 : Pos(d) = Pos(e) => d = e
         /\ \A d \in 0 .. WqCapacity - 1 : /\ Offset(Pos(d)) = d
                                           /\ Wrap(Pos(d) + 1) = Pos(d + 1)
<1>1. WqCapacity \in Nat \ {0} /\ head \in 0 .. WqCapacity - 1
  BY WqAssumption DEF Index
<1>2. \A d \in 0 .. WqCapacity : Pos(d) = Sum(head, d) /\ Pos(d) \in Index
  BY WrapSum DEF Pos
<1>3. \A d \in 0 .. WqCapacity - 1 : Wrap(Pos(d) + 1) = Pos(d + 1)
  <2> TAKE d \in 0 .. WqCapacity - 1
  <2>1. d + 1 \in 0 .. WqCapacity /\ d \in 0 .. WqCapacity /\ 1 \in 0 .. WqCapacity
    BY <1>1
  <2>2. Pos(d) \in Index /\ Pos(d) = Sum(head, d) /\ Pos(d + 1) = Sum(head, d + 1)
    BY <1>2, <2>1
  <2>3. Wrap(Pos(d) + 1) = Sum(Pos(d), 1)
    BY <2>1, <2>2, WrapSum
  <2> QED
    BY <1>1, <2>2, <2>3 DEF Sum, Lap
<1>4. \A d \in 0 .. WqCapacity - 1 : Pos(d) = Sum(head, d)
  BY <1>1, <1>2
<1>5. \A d, e \in 0 .. WqCapacity - 1 : Pos(d) = Pos(e) => d = e
  BY <1>1, <1>4 DEF Sum, Lap
<1>6. \A d \in 0 .. WqCapacity - 1 : Offset(Pos(d)) = d
  BY <1>1, <1>4 DEF Sum, Lap, Offset
<1> QED
  BY <1>2, <1>3, <1>5, <1>6

\* The cursors stay together.
LEMMA RingStep ==
  ASSUME RingOK, [RingNext]_ringVars
  PROVE  RingOK'
<1> DEFINE C == WqCapacity
<1>0. /\ C \in Nat \ {0} /\ head \in 0 .. C - 1 /\ tail \in 0 .. C - 1
      /\ count \in 0 .. C /\ slots \in [Index -> Items \cup {0}]
      /\ Index = 0 .. C - 1 /\ head \in Index /\ tail \in Index
  BY WqAssumption DEF RingOK, Index
<1>1. tail = Sum(head, count)
  BY <1>0, WrapSum DEF RingOK
<1>2. ASSUME NEW v \in Items, Enqueue(v)
      PROVE  RingOK'
  <2>1. CASE count >= C
    <3>1. UNCHANGED <<slots, tail, count, head>>
      BY <1>0, <1>2, <2>1 DEF Enqueue
    <3> QED
      BY <3>1 DEF RingOK, Wrap
  <2>2. CASE count < C
    <3>1. /\ slots' = [slots EXCEPT ![tail] = v] /\ tail' = Wrap(tail + 1)
          /\ count' = count + 1 /\ head' = head
      BY <1>0, <1>2, <2>2 DEF Enqueue
    <3>2. slots' \in [Index -> Items \cup {0}]
      BY <1>0, <3>1
    <3>3. 1 \in 0 .. C /\ count + 1 \in 0 .. C
      BY <1>0, <2>2
    <3>4. /\ tail' = Sum(tail, 1) /\ tail' \in Index
          /\ Wrap(head + (count + 1)) = Sum(head, count + 1)
      BY <1>0, <3>1, <3>3, WrapSum, Zenon
    <3>5. tail' = Wrap(head' + count')
      BY <1>0, <1>1, <2>2, <3>1, <3>4 DEF Sum, Lap
    <3> QED
      BY <1>0, <3>1, <3>2, <3>3, <3>4, <3>5 DEF RingOK
  <2> QED
    BY <1>0, <2>1, <2>2
<1>3. CASE Dequeue
  <2>1. CASE count = 0
    <3>1. UNCHANGED <<slots, tail, count, head>>
      BY <1>3, <2>1 DEF Dequeue
    <3> QED
      BY <3>1 DEF RingOK, Wrap
  <2>2. CASE count # 0
    <3>1. /\ head' = Wrap(head + 1) /\ count' = count - 1
          /\ UNCHANGED <<slots, tail>>
      BY <1>3, <2>2 DEF Dequeue
    <3>2. 1 \in 0 .. C /\ count' \in 0 .. C
      BY <1>0, <2>2, <3>1
    <3>3. head' = Sum(head, 1) /\ head' \in Index
      BY <1>0, <3>1, <3>2, WrapSum
    <3>4. Wrap(head' + count') = Sum(head', count')
      BY <3>2, <3>3, WrapSum
    <3>5. tail' = Wrap(head' + count')
      BY <1>0, <1>1, <2>2, <3>1, <3>3, <3>4 DEF Sum, Lap
    <3> QED
      BY <1>0, <3>1, <3>2, <3>3, <3>5 DEF RingOK
  <2> QED
    BY <2>1, <2>2
<1>4. ASSUME NEW v \in Items, Remove(v)
      PROVE  RingOK'
  <2>1. CASE UNCHANGED <<slots, tail, count>>
    <3>1. head' = head
      BY <1>4 DEF Remove
    <3> QED
      BY <2>1, <3>1 DEF RingOK, Wrap
  <2>2. CASE /\ \E i \in 0 .. count - 1 : FirstAt(v, i) /\ slots' = Shifted(i)
             /\ tail' = Wrap(tail + C - 1)
             /\ count' = count - 1
    <3>1. count >= 1 /\ head' = head
      BY <1>0, <1>4, <2>2 DEF Remove
    <3>2. \A p \in Index : Wrap(p + 1) \in Index
      <4>1. 1 \in 0 .. C
        BY <1>0
      <4> QED
        BY <4>1, WrapSum, Zenon
    <3>3. slots' \in [Index -> Items \cup {0}]
      BY <1>0, <2>2, <3>2 DEF Shifted
    <3>4. C - 1 \in 0 .. C /\ count - 1 \in 0 .. C /\ tail + C - 1 = tail + (C - 1)
      BY <1>0, <3>1
    <3>5. /\ tail' = Sum(tail, C - 1) /\ tail' \in Index
          /\ Wrap(head + (count - 1)) = Sum(head, count - 1)
      BY <1>0, <2>2, <3>4, WrapSum, Zenon
    <3>6. tail' = Wrap(head' + count')
      BY <1>0, <1>1, <2>2, <3>1, <3>5 DEF Sum, Lap
    <3> QED
      BY <1>0, <2>2, <3>1, <3>3, <3>4, <3>5, <3>6 DEF RingOK
  <2> QED
    BY <1>4, <2>1, <2>2 DEF Remove
<1>5. CASE UNCHANGED ringVars
  BY <1>5 DEF ringVars, RingOK, Wrap
<1> QED
  BY <1>2, <1>3, <1>4, <1>5 DEF RingNext

LEMMA RingStart == RingInit => RingOK
<1> SUFFICES ASSUME RingInit
             PROVE  RingOK
  OBVIOUS
<1>1. WqCapacity \in Nat \ {0} /\ Wrap(0) = 0
  BY WqAssumption, WrapValue DEF Lap
<1> QED
  BY <1>1 DEF RingInit, RingOK, Index

\* For every capacity, through wrap-around and removal from the middle, tail
\* stays where head and count say (gth_wq_enqueue, gth_wq_dequeue, gth_wq_remove).
THEOREM RingAlwaysOK == RingSpec => []RingOK
BY RingStart, RingStep, PTL DEF RingSpec

----------------------------------------------------------------------------
\* Contents, entry by entry.
ContentsRight ==
  /\ Contents \in Seq(Items \cup {0})
  /\ Len(Contents) = count
  /\ \A i \in 1 .. count : Contents[i] = slots[Pos(i - 1)]
  /\ count > 0 => Head(Contents) = slots[head]

LEMMA ContentsFacts == RingOK => ContentsRight
<1> SUFFICES ASSUME RingOK
             PROVE  ContentsRight
  OBVIOUS
<1>1. /\ WqCapacity \in Nat \ {0} /\ head \in Index /\ head \in Nat
      /\ count \in 0 .. WqCapacity /\ slots \in [Index -> Items \cup {0}]
  BY WqAssumption DEF RingOK, Index
<1>2. \A i \in 1 .. count : /\ head + i - 1 = head + (i - 1)
                            /\ i - 1 \in 0 .. WqCapacity
  BY <1>1
<1>3. \A i \in 1 .. count : /\ Wrap(head + i - 1) = Pos(i - 1)
                            /\ Pos(i - 1) \in Index
  BY <1>1, <1>2, Positions DEF Pos
<1>4. Contents = [i \in 1 .. count |-> slots[Pos(i - 1)]]
  BY <1>3 DEF Contents
<1>5. Contents \in [1 .. count -> Items \cup {0}]
  BY <1>1, <1>3, <1>4, Zenon
<1>6. Contents \in Seq(Items \cup {0}) /\ Len(Contents) = count
  BY <1>1, <1>5
<1>7. Pos(0) = head
  <2>1. 0 \in 0 .. WqCapacity /\ Sum(head, 0) = head
    BY <1>1 DEF Sum, Lap, Index
  <2> QED
    BY <1>1, <2>1, Positions
<1>8. ASSUME count > 0
      PROVE  Head(Contents) = slots[head]
  <2>1. 1 \in 1 .. count /\ Contents # << >>
    BY <1>1, <1>6, <1>8
  <2>2. Contents[1] = slots[Pos(1 - 1)]
    BY <1>4, <2>1
  <2>3. Head(Contents) = Contents[1]
    BY <1>6, <2>1
  <2> QED
    BY <1>7, <2>2, <2>3
<1> QED
  BY <1>4, <1>6, <1>8, Zenon DEF ContentsRight

\* Two sequences with the same entries are the same.
LEMMA SameEntries ==
  ASSUME NEW T, NEW p \in Seq(T), NEW q \in Seq(T), Len(p) = Len(q),
         \A i \in 1 .. Len(p) : p[i] = q[i]
  PROVE  p = q
OBVIOUS

LEMMA EnqueueRefines ==
  ASSUME RingOK, RingOK', ContentsRight, ContentsRight', NEW v \in Items, Enqueue(v)
  PROVE  Fifo!FifoEnqueue(v)
<1> DEFINE C == WqCapacity
<1>1. /\ C \in Nat \ {0} /\ head \in Index /\ tail \in Index
      /\ count \in 0 .. C /\ slots \in [Index -> Items \cup {0}]
      /\ tail = Pos(count)
  BY WqAssumption DEF RingOK, Pos
<1>2. result' = NoItem /\ head' = head
  BY DEF Enqueue
<1>3. CASE count >= C
  <2>1. UNCHANGED <<slots, count, head>>
    BY <1>1, <1>3 DEF Enqueue
  <2>2. Contents' = Contents
    BY <2>1 DEF Contents, Wrap
  <2> QED
    BY <1>1, <1>2, <1>3, <2>2
    DEF ContentsRight, Fifo!FifoEnqueue, Fifo!WqEnqueue, Fifo!WqIsFull
<1>4. CASE count < C
  <2>1. slots' = [slots EXCEPT ![tail] = v] /\ count' = count + 1
    BY <1>1, <1>4 DEF Enqueue
  <2>2. \A d : Pos(d)' = Pos(d)
    BY <1>2 DEF Pos, Wrap
  <2>3. \A d \in 0 .. count - 1 : Pos(d) # tail /\ Pos(d) \in Index
    BY <1>1, <1>4, Positions
  <2>4. \A i \in 1 .. count + 1 : Contents'[i] = slots'[Pos(i - 1)]
    BY <2>1, <2>2 DEF ContentsRight
  <2>5. \A i \in 1 .. count : Contents'[i] = Contents[i]
    BY <1>1, <2>1, <2>3, <2>4 DEF ContentsRight
  <2>6. Contents'[count + 1] = v
    <3>1. count + 1 \in 1 .. count + 1 /\ count + 1 - 1 = count
      BY <1>1
    <3> QED
      BY <1>1, <2>1, <2>4, <3>1
  <2>7. Contents' = Append(Contents, v)
    <3>1. Contents' \in Seq(Items \cup {0}) /\ Append(Contents, v) \in Seq(Items \cup {0})
      BY DEF ContentsRight
    <3>2. Len(Contents') = Len(Append(Contents, v))
      BY <1>1, <2>1 DEF ContentsRight
    <3>3. \A i \in 1 .. Len(Contents') : Contents'[i] = Append(Contents, v)[i]
      BY <1>1, <2>1, <2>5, <2>6 DEF ContentsRight
    <3> QED
      BY <3>1, <3>2, <3>3, SameEntries
  <2> QED
    BY <1>1, <1>2, <1>4, <2>7
    DEF ContentsRight, Fifo!FifoEnqueue, Fifo!WqEnqueue, Fifo!WqIsFull
<1> QED
  BY <1>1, <1>3, <1>4

LEMMA DequeueRefines ==
  ASSUME RingOK, RingOK', ContentsRight, ContentsRight', Dequeue
  PROVE  Fifo!FifoDequeue
<1> DEFINE C == WqCapacity
<1>1. /\ C \in Nat \ {0} /\ head \in Index
      /\ count \in 0 .. C /\ slots \in [Index -> Items \cup {0}]
  BY WqAssumption DEF RingOK
<1>2. Contents = << >> <=> count = 0
  BY <1>1 DEF ContentsRight
<1>3. CASE count = 0
  <2>1. UNCHANGED <<slots, count, head>> /\ result' = NoItem
    BY <1>3 DEF Dequeue
  <2>2. Contents' = Contents
    BY <2>1 DEF Contents, Wrap
  <2> QED
    BY <1>2, <1>3, <2>1, <2>2
    DEF Fifo!FifoDequeue, Fifo!WqDequeue, Fifo!WqIsEmpty
<1>4. CASE count # 0
  <2>1. /\ result' = slots[head] /\ head' = Wrap(head + 1) /\ count' = count - 1
        /\ slots' = slots
    BY <1>4 DEF Dequeue
  <2>2. \A d \in 0 .. C - 1 : Pos(d)' = Pos(d + 1)
    <3> SUFFICES ASSUME NEW d \in 0 .. C - 1
                 PROVE  Wrap(head' + d) = Pos(d + 1)
      BY DEF Pos, Wrap
    <3>1. d \in 0 .. C /\ 1 \in 0 .. C /\ d + 1 \in 0 .. C
      BY <1>1
    <3>2. head' = Sum(head, 1) /\ head' \in Index
      BY <1>1, <2>1, <3>1, WrapSum
    <3>3. Wrap(head' + d) = Sum(head', d)
      BY <3>1, <3>2, WrapSum
    <3>4. Pos(d + 1) = Sum(head, d + 1)
      BY <1>1, <3>1, Positions
    <3> QED
      BY <1>1, <3>2, <3>3, <3>4 DEF Sum, Lap, Index
  <2>3. \A i \in 1 .. count - 1 : Contents'[i] = Contents[i + 1]
    <3> SUFFICES ASSUME NEW i \in 1 .. count - 1
                 PROVE  Contents'[i] = Contents[i + 1]
      OBVIOUS
    <3>1. /\ i \in 1 .. count' /\ i + 1 \in 1 .. count
          /\ i - 1 \in 0 .. C - 1 /\ (i - 1) + 1 = i /\ (i + 1) - 1 = i
      BY <1>1, <2>1
    <3>2. Contents'[i] = slots[Pos(i)]
      BY <2>1, <2>2, <3>1 DEF ContentsRight
    <3>3. Contents[i + 1] = slots[Pos(i)]
      BY <3>1 DEF ContentsRight
    <3> QED
      BY <3>2, <3>3
  <2>4. Contents' = Tail(Contents)
    <3>1. Contents' \in Seq(Items \cup {0}) /\ Tail(Contents) \in Seq(Items \cup {0})
      BY <1>2, <1>4 DEF ContentsRight
    <3>2. Len(Contents') = Len(Tail(Contents))
      BY <1>1, <1>2, <1>4, <2>1 DEF ContentsRight
    <3>3. \A i \in 1 .. Len(Contents') : Contents'[i] = Tail(Contents)[i]
      BY <1>1, <1>2, <1>4, <2>1, <2>3 DEF ContentsRight
    <3> QED
      BY <3>1, <3>2, <3>3, SameEntries
  <2>5. result' = Head(Contents)
    BY <1>1, <1>4, <2>1 DEF ContentsRight
  <2> QED
    BY <1>2, <1>4, <2>4, <2>5
    DEF Fifo!FifoDequeue, Fifo!WqDequeue, Fifo!WqIsEmpty
<1> QED
  BY <1>3, <1>4

LEMMA RemoveRefines ==
  ASSUME RingOK, RingOK', ContentsRight, ContentsRight', NEW v \in Items, Remove(v)
  PROVE  Fifo!FifoRemove(v)
<1> DEFINE C == WqCapacity
           Earliest(k) == /\ Contents[k] = v
                          /\ \A j \in 1 .. k - 1 : Contents[j] # v
<1>1. /\ C \in Nat \ {0} /\ head \in Index
      /\ count \in 0 .. C /\ slots \in [Index -> Items \cup {0}]
      /\ head' = head /\ Len(Contents) = count
  BY WqAssumption DEF RingOK, Remove, ContentsRight
<1>2. \A d \in 0 .. count - 1 : Contents[d + 1] = slots[Wrap(head + d)]
  <2> TAKE d \in 0 .. count - 1
  <2>1. d + 1 \in 1 .. count /\ (d + 1) - 1 = d
    BY <1>1
  <2> QED
    BY <2>1 DEF ContentsRight, Pos
<1>3. CASE /\ \A i \in 0 .. count - 1 : slots[Wrap(head + i)] # v
           /\ result' = 0
           /\ UNCHANGED <<slots, tail, count>>
  <2>1. Contents' = Contents
    BY <1>1, <1>3 DEF Contents, Wrap
  <2>2. \A i \in 1 .. count : Contents[i] # v
    <3> TAKE i \in 1 .. count
    <3>1. i - 1 \in 0 .. count - 1 /\ (i - 1) + 1 = i
      BY <1>1
    <3> QED
      BY <1>2, <1>3, <3>1
  <2>3. v \notin Fifo!WqMembers(Contents)
    BY <1>1, <2>2 DEF Fifo!WqMembers
  <2> QED
    BY <1>3, <2>1, <2>3 DEF Fifo!FifoRemove, Fifo!WqRemove
<1>4. ASSUME NEW n \in 0 .. count - 1, FirstAt(v, n), slots' = Shifted(n),
             count' = count - 1, result' = 1
      PROVE  Fifo!FifoRemove(v)
  <2>1. n + 1 \in 1 .. count /\ Earliest(n + 1)
    <3>1. Contents[n + 1] = v /\ n + 1 \in 1 .. count
      BY <1>1, <1>2, <1>4 DEF FirstAt
    <3>2. \A j \in 1 .. n : Contents[j] # v
      <4> TAKE j \in 1 .. n
      <4>1. j - 1 \in 0 .. n - 1 /\ j - 1 \in 0 .. count - 1 /\ (j - 1) + 1 = j
        BY <1>1
      <4> QED
        BY <1>2, <1>4, <4>1 DEF FirstAt
    <3> QED
      BY <1>1, <3>1, <3>2
  <2>2. \A k \in 1 .. count : Earliest(k) => k = n + 1
    BY <1>1, <2>1
  <2>3. v \in Fifo!WqMembers(Contents)
    BY <1>1, <2>1 DEF Fifo!WqMembers
  <2>4. (CHOOSE k \in 1 .. Len(Contents) : Earliest(k)) = n + 1
    BY <1>1, <2>1, <2>2
  <2>5. Fifo!WqRemove(Contents, v) =
          [i \in 1 .. count - 1 |->
             IF i < n + 1 THEN Contents[i] ELSE Contents[i + 1]]
    BY <1>1, <2>3, <2>4, Zenon DEF Fifo!WqRemove
  <2>6. ASSUME NEW i \in 1 .. count - 1
        PROVE  Contents'[i] = IF i < n + 1 THEN Contents[i] ELSE Contents[i + 1]
    <3>1. /\ i \in 1 .. count' /\ i \in 1 .. count /\ i + 1 \in 1 .. count
          /\ (i + 1) - 1 = i /\ (i - 1) + 1 = i
          /\ i - 1 \in 0 .. C - 1 /\ i - 1 \in 0 .. C
      BY <1>1, <1>4
    <3>2. /\ Pos(i - 1) \in Index /\ Offset(Pos(i - 1)) = i - 1
          /\ Wrap(Pos(i - 1) + 1) = Pos(i)
      BY <1>1, <3>1, Positions
    <3>3. Contents'[i] = slots'[Pos(i - 1)]
      <4>1. Pos(i - 1)' = Pos(i - 1)
        BY <1>1 DEF Pos, Wrap
      <4> QED
        BY <3>1, <4>1 DEF ContentsRight
    <3>4. slots'[Pos(i - 1)] =
            IF n <= i - 1 /\ (i - 1) + 1 < count THEN slots[Pos(i)] ELSE slots[Pos(i - 1)]
      BY <1>4, <3>2 DEF Shifted
    <3>5. Contents[i] = slots[Pos(i - 1)] /\ Contents[i + 1] = slots[Pos(i)]
      BY <3>1 DEF ContentsRight
    <3> QED
      BY <1>1, <3>1, <3>3, <3>4, <3>5
  <2>7. Contents' = [i \in 1 .. count - 1 |-> Contents'[i]]
    BY <1>1, <1>4 DEF Contents
  <2>8. Contents' = Fifo!WqRemove(Contents, v)
    BY <2>5, <2>6, <2>7
  <2> QED
    BY <1>4, <2>3, <2>8 DEF Fifo!FifoRemove
<1> QED
  BY <1>3, <1>4 DEF Remove

\* For every capacity the ring buffer of wait_queue.h behaves, call by call and
\* result by result, as the bounded first-in first-out queue the primitives are
\* modelled with.
THEOREM RingImplementsFifo == RingSpec => ImplementsFifo
<1>1. RingInit => Fifo!FifoInit
  BY DEF RingInit, Contents, Fifo!FifoInit
<1>2. ASSUME RingOK, RingOK', ContentsRight, ContentsRight', [RingNext]_ringVars
      PROVE  [Fifo!FifoNext]_<<Contents, result>>
  <2>1. CASE UNCHANGED ringVars
    BY <2>1 DEF ringVars, Contents, Wrap
  <2>2. CASE RingNext
    BY <1>2, <2>2, EnqueueRefines, DequeueRefines, RemoveRefines
    DEF RingNext, Fifo!FifoNext
  <2> QED
    BY <1>2, <2>1, <2>2
<1> QED
  BY <1>1, <1>2, RingAlwaysOK, ContentsFacts, PTL
  DEF RingSpec, ImplementsFifo, Fifo!FifoSpec
=============================================================================
