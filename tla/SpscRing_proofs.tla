--------------------------- MODULE SpscRing_proofs ---------------------------
(***************************************************************************)
(* Safety of SpscRing for every Capacity, every width of size_t and every  *)
(* burst length, and that it implements BoundedQueue.                      *)
(***************************************************************************)
EXTENDS SpscRing, TLAPS

-----------------------------------------------------------------------------
(* Arithmetic of the free-running counters.                                *)

\* No multiple of C lies strictly between 0 and C.
LEMMA MultiplesApart ==
  ASSUME NEW C \in Nat \ {0}, NEW d \in Int
  PROVE  ~(0 < C * d /\ C * d < C)
<1>1. CASE d <= 0
  <2>1. C * d <= 0
    BY <1>1, SMT
  <2> QED
    BY <2>1, SMT
<1>2. CASE d >= 1
  <2>1. C * d >= C
    BY <1>2, SMT
  <2> QED
    BY <2>1, SMT
<1> QED
  BY <1>1, <1>2, SMT

\* Distributivity, in the one shape SlotsDiffer needs.
LEMMA Distributes ==
  ASSUME NEW C \in Int, NEW a \in Int, NEW b \in Int, NEW c \in Int
  PROVE  C * (a - b + c) = C * a - C * b + C * c
  BY SMT

\* A number is a multiple of C plus its remainder, the masked counter.
LEMMA Remainder ==
  ASSUME NEW C \in Nat \ {0}, NEW z \in Nat
  PROVE  \E q \in Int : z = C * q + (z % C)
<1>1. z \div C \in Int /\ z = C * (z \div C) + (z % C)
  BY SMT
<1> QED
  BY <1>1, Zenon

\* Two counters less than Capacity apart, and not equal, have different slots.
LEMMA SlotsDiffer ==
  ASSUME NEW x \in Index, NEW y \in Index, Distance(x, y) \in 1..Capacity-1
  PROVE  Slot(x) # Slot(y)
<1>0. /\ Capacity \in Nat \ {0} /\ SizeMod \in Nat /\ x \in Nat /\ y \in Nat
      /\ x % Capacity \in Int /\ SizeMod % Capacity = 0
  BY RingAssumption, SMT DEF Index
<1>1. PICK qx \in Int : x = Capacity * qx + (x % Capacity)
  BY <1>0, Remainder, Zenon
<1>2. PICK qy \in Int : y = Capacity * qy + (y % Capacity)
  BY <1>0, Remainder, Zenon
<1>3. PICK qm \in Int : SizeMod = Capacity * qm + (SizeMod % Capacity)
  BY <1>0, Remainder, Zenon
<1>4. SUFFICES ASSUME x % Capacity = y % Capacity PROVE FALSE
  BY DEF Slot
<1>5. /\ Capacity * (qy - qx + 0) = Capacity * qy - Capacity * qx + Capacity * 0
      /\ Capacity * (qy - qx + qm) = Capacity * qy - Capacity * qx + Capacity * qm
  BY <1>0, Distributes
<1>6. /\ Capacity * qy \in Int /\ Capacity * qx \in Int /\ Capacity * qm \in Int
      /\ Capacity * 0 = 0
  BY <1>0, SMT
<1>7. CASE x <= y
  <2>1. Distance(x, y) = Capacity * (qy - qx + 0)
    BY <1>0, <1>1, <1>2, <1>4, <1>5, <1>6, <1>7, SMT DEF Distance
  <2> QED
    BY <2>1, <1>0, MultiplesApart, SMT
<1>8. CASE ~(x <= y)
  <2>1. Distance(x, y) = Capacity * (qy - qx + qm)
    BY <1>0, <1>1, <1>2, <1>3, <1>4, <1>5, <1>6, <1>8, SMT DEF Distance
  <2> QED
    BY <2>1, <1>0, MultiplesApart, SMT
<1> QED
  BY <1>7, <1>8
-----------------------------------------------------------------------------
(* Type correctness and the order of the counters, proved together: the    *)
(* range of every cursor rests on the counters staying within one ring of  *)
(* each other.                                                             *)

\* A counter advanced by at most one ring is a size_t (spsc_ring.h:50, 74).
LEMMA PlusType ==
  ASSUME NEW a \in Index, NEW n \in 0..Capacity
  PROVE  Plus(a, n) \in Index
  BY RingAssumption, SMT DEF Plus, Index

\* A masked counter is an index of data_ (spsc_ring.h:49).
LEMMA SlotType ==
  ASSUME NEW a \in Index
  PROVE  Slot(a) \in 0..Capacity-1
  BY RingAssumption, SMT DEF Slot, Index

\* A difference of two counters is a size_t (spsc_ring.h:70, 82).
LEMMA DistanceType ==
  ASSUME NEW a \in Index, NEW b \in Index
  PROVE  Distance(a, b) \in 0..SizeMod-1
  BY RingAssumption, SMT DEF Distance, Index

\* Distances add up as long as they do not reach round the wrap.
LEMMA DistancesAdd ==
  ASSUME NEW a \in Index, NEW b \in Index, NEW c \in Index,
         Distance(a, b) + Distance(b, c) < SizeMod
  PROVE  Distance(a, c) = Distance(a, b) + Distance(b, c)
  BY RingAssumption, SMT DEF Distance, Index

\* A loaded counter lies between the value seen before and the current one.
LEMMA ViewSplits ==
  ASSUME NEW a \in Index, NEW b \in Index, NEW x \in Views(a, b)
  PROVE  x \in Index /\ Distance(a, b) = Distance(a, x) + Distance(x, b)
  BY RingAssumption, SMT DEF Views, Distance, Index

\* Advancing the leading counter lengthens the distance, as StoreHead does.
LEMMA AdvanceEnd ==
  ASSUME NEW a \in Index, NEW b \in Index, NEW n \in 0..Capacity,
         Distance(a, b) + n < SizeMod
  PROVE  Distance(a, Plus(b, n)) = Distance(a, b) + n
  BY RingAssumption, SMT DEF Distance, Index, Plus

\* Advancing the trailing counter shortens the distance, as StoreTail does.
LEMMA AdvanceStart ==
  ASSUME NEW a \in Index, NEW b \in Index, NEW n \in 0..Capacity,
         n <= Distance(a, b)
  PROVE  Distance(Plus(a, n), b) = Distance(a, b) - n
  BY RingAssumption, SMT DEF Distance, Index, Plus

\* The distance between a slot being read and a slot being written.
LEMMA AdvanceBoth ==
  ASSUME NEW a \in Index, NEW b \in Index, NEW g \in 0..Capacity, NEW w \in 0..Capacity,
         Distance(a, b) + w < SizeMod, g <= Distance(a, b) + w
  PROVE  Distance(Plus(a, g), Plus(b, w)) = Distance(a, b) + w - g
  BY RingAssumption, SMT DEF Distance, Index, Plus

\* Different counters are at least one apart: t == h is the empty test.
LEMMA DistinctApart ==
  ASSUME NEW a \in Index, NEW b \in Index, a # b
  PROVE  Distance(a, b) >= 1
  BY RingAssumption, SMT DEF Distance, Index

\* Advancing twice is advancing once by the sum.
LEMMA PlusPlus ==
  ASSUME NEW a \in Index, NEW m \in Nat, NEW n \in Nat, m + n <= Capacity
  PROVE  Plus(Plus(a, m), n) = Plus(a, m + n)
  BY RingAssumption, SMT DEF Index, Plus

\* The part of a batch that enqueue_burst takes is a sequence of items.
LEMMA BatchType ==
  ASSUME NEW batch \in Batches, NEW k \in 0..Len(batch)
  PROVE  /\ Len(batch) \in Nat
         /\ SubSeq(batch, 1, k) \in Seq(Items)
         /\ Len(SubSeq(batch, 1, k)) = k
<1>1. PICK n \in 1..MaxBurst : batch \in [1..n -> Items]
  BY DEF Batches
<1>2. batch \in Seq(Items)
  BY <1>1, RingAssumption, SMT
<1> QED
  BY <1>2, SMT

\* The part of RingAssumption without remainders: all that the steps below use.
LEMMA LinearFacts ==
  /\ Capacity \in Nat \ {0} /\ SizeMod \in Nat /\ Capacity < SizeMod
  /\ MaxBurst \in Nat \ {0} /\ NoItem \notin Items
  BY RingAssumption

\* A new ring (head_ = tail_ = 0) satisfies the inductive invariant.
THEOREM InductiveInit == Init => TypeOK /\ CountersOrdered
  BY RingAssumption, SMT DEF Init, TypeOK, CountersOrdered, Index, Distance

\* Every step of the two threads preserves it.
THEOREM InductiveNext == TypeOK /\ CountersOrdered /\ [Next]_vars
                           => TypeOK' /\ CountersOrdered'
<1> SUFFICES ASSUME TypeOK, CountersOrdered, [Next]_vars
             PROVE  TypeOK' /\ CountersOrdered'
  OBVIOUS
<1>r. /\ Capacity \in Nat \ {0} /\ SizeMod \in Nat /\ Capacity < SizeMod
      /\ MaxBurst \in Nat \ {0} /\ NoItem \notin Items
  BY LinearFacts
<1> USE <1>r
<1>a. /\ head \in Index /\ tail \in Index /\ pTail \in Index /\ cHead \in Index
      /\ items \in Seq(Items) /\ Len(items) \in Nat
      /\ count \in 0..Capacity /\ Len(got) \in Nat
  BY DEF TypeOK
<1>b. /\ Distance(pTail, tail) \in Nat /\ Distance(tail, cHead) \in Nat
      /\ Distance(cHead, head) \in Nat
  BY <1>a, DistanceType, SMT
<1>s. /\ Len(items) <= Capacity
      /\ Distance(pTail, tail) + Distance(tail, cHead) + Distance(cHead, head) <= Capacity
  <2>1. Len(items) \in Nat
    BY <1>a
  <2> QED
    BY <2>1, <1>b, SMT DEF CountersOrdered
<1>c. /\ Distance(tail, head) = Distance(tail, cHead) + Distance(cHead, head)
      /\ Len(items) <= Capacity
  <2>1. Distance(tail, cHead) + Distance(cHead, head) < SizeMod
    BY <1>b, <1>s, SMT
  <2> QED
    BY <2>1, <1>a, <1>s, DistancesAdd
<1>t. /\ Len(items) \in Nat /\ Distance(tail, head) \in Nat
      /\ Distance(pTail, tail) + Distance(tail, head) + Len(items) <= Capacity
  <2>1. Len(items) \in Nat
    BY <1>a
  <2> QED
    BY <2>1, <1>b, <1>c, SMT DEF CountersOrdered
\* The producer loads tail_.
<1>d. ASSUME NEW t \in Views(pTail, tail)
      PROVE  /\ t \in Index /\ Distance(t, tail) \in Nat
             /\ Distance(t, tail) <= Distance(pTail, tail)
             /\ Distance(t, head) = Distance(t, tail) + Distance(tail, head)
  <2>1. t \in Index /\ Distance(pTail, tail) = Distance(pTail, t) + Distance(t, tail)
    BY <1>a, ViewSplits
  <2>2. Distance(pTail, t) \in Nat /\ Distance(t, tail) \in Nat
    BY <2>1, <1>a, DistanceType, SMT
  <2>3. Distance(t, tail) + Distance(tail, head) < SizeMod
    BY <2>1, <2>2, <1>b, <1>c, <1>s, SMT
  <2>4. Distance(t, head) = Distance(t, tail) + Distance(tail, head)
    BY <2>1, <2>3, <1>a, DistancesAdd
  <2> QED
    BY <2>1, <2>2, <2>4, <1>b, SMT
\* The consumer loads head_.
<1>e. ASSUME NEW h \in Views(cHead, head)
      PROVE  /\ h \in Index /\ Distance(tail, h) \in Nat /\ Distance(h, head) \in Nat
             /\ Distance(tail, cHead) <= Distance(tail, h)
             /\ Distance(tail, h) + Distance(h, head) = Distance(tail, head)
  <2>1. h \in Index /\ Distance(cHead, head) = Distance(cHead, h) + Distance(h, head)
    BY <1>a, ViewSplits
  <2>2. Distance(cHead, h) \in Nat /\ Distance(h, head) \in Nat
    BY <2>1, <1>a, DistanceType, SMT
  <2>3. Distance(tail, h) = Distance(tail, cHead) + Distance(cHead, h)
    <3>1. Distance(tail, cHead) + Distance(cHead, h) < SizeMod
      BY <2>1, <2>2, <1>b, <1>s, SMT
    <3> QED
      BY <3>1, <2>1, <1>a, DistancesAdd
  <2> QED
    BY <2>1, <2>2, <2>3, <1>b, <1>c, SMT
<1>1. ASSUME NEW item \in Items, Enqueue(item)
      PROVE  TypeOK' /\ CountersOrdered'
  <2>1. pTail' \in Views(pTail, tail)
    BY <1>1 DEF Enqueue
  <2> DEFINE t == pTail'
  <2>2. /\ t \in Index /\ Distance(t, tail) \in Nat
        /\ Distance(t, tail) <= Distance(pTail, tail)
        /\ Distance(t, head) = Distance(t, tail) + Distance(tail, head)
    BY <2>1, <1>d
  <2> HIDE DEF t
  <2>3. CASE Full(t)
    BY <1>1, <2>2, <2>3, <1>a, <1>b, SMT
    DEF Enqueue, TypeOK, CountersOrdered, ringVars, consVars, t
  <2>4. CASE ~Full(t)
    <3>1. items' = <<item>> /\ written' = 0 /\ pPc' = "writing"
      BY <1>1, <2>4 DEF Enqueue, t
    <3>2. items' \in Seq(Items) /\ Len(items') = 1
      BY <3>1, SMT
    <3> QED
      BY <1>1, <2>2, <2>4, <3>1, <3>2, <1>a, <1>b, <1>c, SMT
      DEF Enqueue, TypeOK, CountersOrdered, Full, ringVars, consVars, t
  <2> QED
    BY <2>3, <2>4
<1>2. ASSUME NEW batch \in Batches, EnqueueBurst(batch)
      PROVE  TypeOK' /\ CountersOrdered'
  <2> DEFINE t == pTail'
             free == FreeSlots(t)
             cnt  == SmallerOf(Len(batch), free)
  <2>1. /\ t \in Index /\ Distance(t, tail) \in Nat
        /\ Distance(t, tail) <= Distance(pTail, tail)
        /\ Distance(t, head) = Distance(t, tail) + Distance(tail, head)
    BY <1>2, <1>d DEF EnqueueBurst
  <2>2. Len(batch) \in Nat
    BY BatchType, SMT
  <2>f. free \in Nat /\ free = Capacity - (Distance(t, tail) + Distance(tail, head))
    BY <2>1, <1>b, <1>t, SMT DEF FreeSlots
  <2> HIDE DEF free
  <2>3. cnt \in 0..Len(batch) /\ cnt <= free
    BY <2>2, <2>f, SMT DEF SmallerOf
  <2>4. items' \in Seq(Items) /\ Len(items') = cnt
    BY <1>2, <2>3, BatchType DEF EnqueueBurst, free
  <2> HIDE DEF cnt
  <2>5. TypeOK'
    BY <1>2, <2>1, <2>2, <2>3, <2>4, SMT DEF EnqueueBurst, TypeOK, ringVars, consVars
  <2>6. CountersOrdered'
    <3>1. tail' = tail /\ head' = head /\ cHead' = cHead /\ count' = count
      BY <1>2 DEF EnqueueBurst, ringVars, consVars
    <3>2. Distance(t, tail) + Distance(tail, cHead) + Distance(cHead, head) + cnt <= Capacity
      BY <2>1, <2>2, <2>3, <2>f, <1>b, <1>c, SMT
    <3> QED
      BY <2>4, <3>1, <3>2 DEF CountersOrdered
  <2> QED
    BY <2>5, <2>6
<1>3. CASE WriteSlot
  <2>1. written \in 0..Capacity
    BY <1>3, <1>a, <1>c, SMT DEF TypeOK, WriteSlot
  <2>2. Slot(Plus(head, written)) \in 0..Capacity-1
    BY <2>1, <1>a, PlusType, SlotType, Zenon
  <2>3. items[written + 1] \in Items
    BY <1>3, SMT DEF TypeOK, WriteSlot
  <2> QED
    BY <1>3, <2>2, <2>3, SMT DEF TypeOK, WriteSlot, CountersOrdered, consVars
<1>4. CASE StoreHead
  <2>1. head' \in Index /\ Distance(cHead, head') = Distance(cHead, head) + Len(items)
    <3>1. Len(items) \in 0..Capacity /\ Distance(cHead, head) + Len(items) < SizeMod
      BY <1>a, <1>b, <1>c, SMT DEF CountersOrdered
    <3>2. head' = Plus(head, Len(items))
      BY <1>4 DEF StoreHead
    <3> QED
      BY <3>1, <3>2, <1>a, PlusType, AdvanceEnd
  <2> QED
    BY <1>4, <2>1, <1>a, <1>b, SMT DEF TypeOK, StoreHead, CountersOrdered, consVars
<1>5. CASE Dequeue
  <2> DEFINE h == cHead'
  <2>1. /\ h \in Index /\ Distance(tail, h) \in Nat /\ Distance(h, head) \in Nat
        /\ Distance(tail, cHead) <= Distance(tail, h)
        /\ Distance(tail, h) + Distance(h, head) = Distance(tail, head)
    BY <1>5, <1>e DEF Dequeue
  <2>2. tail # h => Distance(tail, h) >= 1
    BY <2>1, <1>a, DistinctApart
  <2> HIDE DEF h
  <2>3. /\ count' \in 0..Capacity /\ count' <= Distance(tail, h)
        /\ Len(got) <= count' /\ cPc' \in {"idle", "reading"}
        /\ cPc' = "idle" => count' = 0
    <3>1. CASE tail = h
      BY <1>5, <2>1, <3>1, <1>a, <1>b, SMT DEF Dequeue, TypeOK, CountersOrdered, h
    <3>2. CASE tail # h
      BY <1>5, <2>1, <2>2, <3>2, <1>a, SMT DEF Dequeue, TypeOK, h
    <3> QED
      BY <3>1, <3>2
  <2>4. /\ tail' = tail /\ head' = head /\ data' = data /\ cHead' = h /\ got' = got
        /\ out' = out /\ pPc' = pPc /\ pTail' = pTail /\ items' = items /\ written' = written
    BY <1>5 DEF Dequeue, ringVars, prodVars, h
  <2>5. Distance(pTail, tail) + Distance(tail, h) + Distance(h, head) + Len(items) <= Capacity
    BY <2>1, <1>b, <1>t, SMT
  <2>6. TypeOK'
    BY <2>1, <2>3, <2>4, SMT DEF TypeOK
  <2> QED
    BY <2>3, <2>4, <2>5, <2>6 DEF CountersOrdered
<1>6. ASSUME NEW n \in 1..MaxBurst, DequeueBurst(n)
      PROVE  TypeOK' /\ CountersOrdered'
  <2> DEFINE h == cHead'
  <2>1. /\ h \in Index /\ Distance(tail, h) \in Nat /\ Distance(h, head) \in Nat
        /\ Distance(tail, h) + Distance(h, head) = Distance(tail, head)
    BY <1>6, <1>e DEF DequeueBurst
  <2> HIDE DEF h
  <2>2. count' \in 0..Capacity /\ count' <= Distance(tail, h)
    <3>1. count' = SmallerOf(n, Distance(tail, h))
      BY <1>6 DEF DequeueBurst, h
    <3>2. n \in Nat /\ Distance(tail, h) <= Capacity
      BY <2>1, <1>b, <1>t, SMT
    <3> QED
      BY <3>1, <3>2, <2>1, SMT DEF SmallerOf
  <2>3. TypeOK'
    BY <1>6, <2>1, <2>2, <1>a, SMT DEF DequeueBurst, TypeOK, ringVars, prodVars, h
  <2>4. CountersOrdered'
    <3>1. tail' = tail /\ head' = head /\ pTail' = pTail /\ items' = items /\ cHead' = h
      BY <1>6 DEF DequeueBurst, ringVars, prodVars, h
    <3>2. Distance(pTail, tail) + Distance(tail, h) + Distance(h, head) + Len(items) <= Capacity
      BY <2>1, <1>b, <1>t, SMT
    <3> QED
      BY <2>2, <3>1, <3>2 DEF CountersOrdered
  <2> QED
    BY <2>3, <2>4
<1>7. CASE ReadSlot
  <2>1. Slot(Plus(tail, Len(got))) \in 0..Capacity-1
    <3>1. Len(got) \in 0..Capacity
      BY <1>7, <1>a, SMT DEF ReadSlot
    <3> QED
      BY <3>1, <1>a, PlusType, SlotType
  <2>2. data[Slot(Plus(tail, Len(got)))] \in Items \cup {NoItem}
    BY <2>1 DEF TypeOK
  <2> QED
    BY <1>7, <2>2, SMT DEF TypeOK, ReadSlot, CountersOrdered, ringVars, prodVars
<1>8. CASE StoreTail
  <2>1. /\ tail' \in Index
        /\ Distance(pTail, tail') = Distance(pTail, tail) + count
        /\ Distance(tail', cHead) = Distance(tail, cHead) - count
    <3>0. count \in Nat /\ count <= Distance(tail, cHead)
      BY <1>a, SMT DEF CountersOrdered
    <3>1. Distance(pTail, tail) + count < SizeMod /\ count <= Distance(tail, cHead)
      BY <3>0, <1>b, <1>s, SMT
    <3>2. tail' = Plus(tail, count)
      BY <1>8 DEF StoreTail
    <3> QED
      BY <3>1, <3>2, <1>a, PlusType, AdvanceEnd, AdvanceStart
  <2>2. /\ head' = head /\ pTail' = pTail /\ cHead' = cHead /\ items' = items
        /\ count' = 0
    BY <1>8 DEF StoreTail, prodVars
  <2>3. TypeOK'
    BY <1>8, <2>1, SMT DEF TypeOK, StoreTail, prodVars
  <2>4. Distance(pTail, tail') + Distance(tail', cHead) = Distance(pTail, tail) + Distance(tail, cHead)
    <3>1. count \in Nat
      BY <1>a, SMT
    <3> QED
      BY <3>1, <2>1, <1>b, SMT
  <2>5. 0 <= Distance(tail', cHead)
    BY <2>1, <1>a, DistanceType, SMT
  <2> QED
    BY <2>2, <2>3, <2>4, <2>5 DEF CountersOrdered
<1>9. CASE UNCHANGED vars
  BY <1>9 DEF vars, ringVars, prodVars, consVars, TypeOK, CountersOrdered
<1> QED
  BY <1>1, <1>2, <1>3, <1>4, <1>5, <1>6, <1>7, <1>8, <1>9 DEF Next

\* Every state of the ring is well typed and its counters are in order.
THEOREM RingInvariant == Spec => [](TypeOK /\ CountersOrdered)
  BY InductiveInit, InductiveNext, PTL DEF Spec

\* Cursors, counters and batches stay in range through every load, slot access
\* and store of enqueue, dequeue and their burst forms (spsc_ring.h:45-88).
THEOREM TypeCorrect == Spec => []TypeOK
  BY RingInvariant, PTL

\* pTail <= tail <= cHead <= head, within one ring, around the wrap: the
\* fullness and emptiness tests are safe on stale loads (spsc_ring.h:47, 57).
THEOREM CountersStayOrdered == Spec => []CountersOrdered
  BY RingInvariant, PTL

\* No slot is ever written and read at the same time: the producer's
\* data_[(h + i) & MASK] and the consumer's data_[(t + i) & MASK] differ.
THEOREM RaceFreedom == Spec => []NoDataRace
<1>1. TypeOK /\ CountersOrdered => NoDataRace
  <2> SUFFICES ASSUME TypeOK, CountersOrdered, pPc = "writing", written < Len(items),
                      cPc = "reading", Len(got) < count
               PROVE  Slot(Plus(head, written)) # Slot(Plus(tail, Len(got)))
    BY DEF NoDataRace
  <2> DEFINE x == Plus(tail, Len(got))
             y == Plus(head, written)
  <2>1. x \in Index /\ y \in Index /\ Distance(x, y) \in 1..Capacity-1
    <3> DEFINE w == written  g == Len(got)
    <3>1. /\ head \in Index /\ tail \in Index /\ cHead \in Index /\ pTail \in Index
          /\ w \in Nat /\ g \in Nat /\ Len(items) \in Nat /\ count \in Nat
          /\ w < Len(items) /\ g < count
      BY SMT DEF TypeOK
    <3>2. /\ Distance(pTail, tail) \in Nat /\ Distance(tail, cHead) \in Nat
          /\ Distance(cHead, head) \in Nat
      BY <3>1, DistanceType, SMT
    <3> HIDE DEF w, g
    <3>0. w \in Nat /\ g \in Nat
      BY <3>1
    <3>3. Distance(tail, cHead) + Distance(cHead, head) + w < Capacity
      BY <3>1, <3>2, LinearFacts, SMT DEF CountersOrdered
    <3>4. Distance(tail, head) = Distance(tail, cHead) + Distance(cHead, head)
      <4>1. Distance(tail, cHead) + Distance(cHead, head) < SizeMod
        BY <3>0, <3>2, <3>3, LinearFacts, SMT
      <4> QED
        BY <3>1, <4>1, DistancesAdd
    <3>5. /\ w \in 0..Capacity /\ g \in 0..Capacity
          /\ Distance(tail, head) + w < SizeMod /\ g <= Distance(tail, head) + w
          /\ Distance(tail, head) + w - g \in 1..Capacity-1
      <4>1. g < Distance(tail, cHead)
        BY <3>1, <3>2, SMT DEF CountersOrdered
      <4> QED
        BY <3>0, <3>2, <3>3, <3>4, <4>1, LinearFacts, SMT
    <3>6. Plus(head, w) \in Index /\ Plus(tail, g) \in Index
      BY <3>1, <3>5, PlusType
    <3>7. Distance(Plus(tail, g), Plus(head, w)) = Distance(tail, head) + w - g
      BY <3>1, <3>5, AdvanceBoth
    <3>8. Distance(Plus(tail, g), Plus(head, w)) \in 1..Capacity-1
      BY <3>5, <3>7
    <3> QED
      BY <3>6, <3>8 DEF w, g
  <2> QED
    BY <2>1, SlotsDiffer
<1> QED
  BY <1>1, RingInvariant, PTL

\* size() called by an owner of the ring stays between 0 and Capacity
\* (spsc_ring.h:92-95), whatever its load of the other counter returns.
THEOREM OwnerSize == Spec => []OwnerSizeInRange
<1>1. TypeOK /\ CountersOrdered => OwnerSizeInRange
  BY RingAssumption, SMTT(30)
  DEF TypeOK, CountersOrdered, OwnerSizeInRange, Views, Index, Distance
<1> QED
  BY <1>1, RingInvariant, PTL

-----------------------------------------------------------------------------
(* SpscRing implements BoundedQueue.                                       *)


\* The facts about lengths and distances that every step below needs.
LEMMA Sizes ==
  ASSUME TypeOK, CountersOrdered
  PROVE  /\ head \in Index /\ tail \in Index
         /\ written \in Nat /\ Len(items) \in Nat /\ written <= Len(items)
         /\ count \in Nat /\ Len(got) \in Nat /\ Len(got) <= count
         /\ Distance(tail, head) \in Nat /\ count <= Distance(tail, head)
         /\ Distance(tail, head) + Len(items) <= Capacity
<1>r. /\ Capacity \in Nat \ {0} /\ SizeMod \in Nat /\ Capacity < SizeMod
      /\ MaxBurst \in Nat \ {0} /\ NoItem \notin Items
  BY LinearFacts
<1> USE <1>r
<1>1. /\ head \in Index /\ tail \in Index /\ cHead \in Index /\ pTail \in Index
      /\ written \in Nat /\ Len(items) \in Nat /\ written <= Len(items)
      /\ count \in Nat /\ Len(got) \in Nat /\ Len(got) <= count
  BY SMT DEF TypeOK
<1>2. /\ Distance(pTail, tail) \in Nat /\ Distance(tail, cHead) \in Nat
      /\ Distance(cHead, head) \in Nat
  BY <1>1, DistanceType, SMT
<1>3. Distance(tail, cHead) + Distance(cHead, head) < SizeMod
  BY <1>1, <1>2, SMT DEF CountersOrdered
<1>4. Distance(tail, head) = Distance(tail, cHead) + Distance(cHead, head)
  BY <1>1, <1>3, DistancesAdd
<1> QED
  BY <1>1, <1>2, <1>4, SMT DEF CountersOrdered

\* Counting on from tail_ past the published items is counting from head_.
LEMMA PastTheEnd ==
  ASSUME NEW a \in Index, NEW b \in Index, NEW j \in Nat,
         Distance(a, b) + j <= Capacity
  PROVE  Plus(a, Distance(a, b) + j) = Plus(b, j)
  BY RingAssumption, SMT DEF Distance, Index, Plus

\* The slot being written is none of those published or written before.
LEMMA FreshSlot ==
  ASSUME TypeOK, CountersOrdered, written < Len(items)
  PROVE  /\ \A k \in 1..Distance(tail, head) :
               Slot(Plus(tail, k - 1)) # Slot(Plus(head, written))
         /\ \A k \in 1..written :
               Slot(Plus(head, k - 1)) # Slot(Plus(head, written))
<1>r. /\ Capacity \in Nat \ {0} /\ SizeMod \in Nat /\ Capacity < SizeMod
      /\ MaxBurst \in Nat \ {0} /\ NoItem \notin Items
  BY LinearFacts
<1> USE <1>r
<1>0. Plus(head, written) \in Index /\ written \in 0..Capacity
  BY Sizes, PlusType, SMT
<1>1. ASSUME NEW k \in 1..Distance(tail, head)
      PROVE  Slot(Plus(tail, k - 1)) # Slot(Plus(head, written))
  <2>1. /\ k - 1 \in 0..Capacity /\ Distance(tail, head) + written < SizeMod
        /\ k - 1 <= Distance(tail, head) + written
        /\ Distance(tail, head) + written - (k - 1) \in 1..Capacity-1
    <3>1. /\ Distance(tail, head) \in Nat /\ written \in Nat /\ k \in Nat /\ 1 <= k
          /\ k <= Distance(tail, head) /\ Distance(tail, head) + written < Capacity
      BY Sizes, SMT
    <3> QED
      BY <3>1, SMT
  <2>2. /\ Plus(tail, k - 1) \in Index
        /\ Distance(Plus(tail, k - 1), Plus(head, written))
             = Distance(tail, head) + written - (k - 1)
    BY <2>1, <1>0, Sizes, PlusType, AdvanceBoth
  <2>3. Distance(Plus(tail, k - 1), Plus(head, written)) \in 1..Capacity-1
    BY <2>1, <2>2
  <2> QED
    BY <2>2, <2>3, <1>0, SlotsDiffer
<1>2. ASSUME NEW k \in 1..written
      PROVE  Slot(Plus(head, k - 1)) # Slot(Plus(head, written))
  <2>0. Distance(head, head) = 0
    BY Sizes, SMT DEF Distance, Index
  <2>1. /\ k - 1 \in 0..Capacity /\ Distance(head, head) + written < SizeMod
        /\ k - 1 <= Distance(head, head) + written
        /\ Distance(head, head) + written - (k - 1) \in 1..Capacity-1
    BY <2>0, Sizes, SMT
  <2>2. /\ Plus(head, k - 1) \in Index
        /\ Distance(Plus(head, k - 1), Plus(head, written))
             = Distance(head, head) + written - (k - 1)
    BY <2>1, <1>0, Sizes, PlusType, AdvanceBoth
  <2>3. Distance(Plus(head, k - 1), Plus(head, written)) \in 1..Capacity-1
    BY <2>1, <2>2
  <2> QED
    BY <2>2, <2>3, <1>0, SlotsDiffer
<1> QED
  BY <1>1, <1>2
-----------------------------------------------------------------------------
(* The slots hold what they should.                                        *)

\* Every slot access and counter store keeps the slots' contents in order.
THEOREM SlotsHoldNext ==
  ASSUME TypeOK, CountersOrdered, SlotsHold, [Next]_vars
  PROVE  SlotsHold'
<1>r. /\ Capacity \in Nat \ {0} /\ SizeMod \in Nat /\ Capacity < SizeMod
      /\ MaxBurst \in Nat \ {0} /\ NoItem \notin Items
  BY LinearFacts
<1> USE <1>r
<1>1. ASSUME NEW item \in Items, Enqueue(item)
      PROVE  SlotsHold'
  <2>1. /\ head' = head /\ tail' = tail /\ data' = data /\ got' = got
        /\ \/ items' = items /\ written' = written
           \/ written' = 0
    BY <1>1 DEF Enqueue, ringVars, consVars
  <2> QED
    BY <2>1, SMT DEF SlotsHold
<1>2. ASSUME NEW batch \in Batches, EnqueueBurst(batch)
      PROVE  SlotsHold'
  <2>1. head' = head /\ tail' = tail /\ data' = data /\ got' = got /\ written' = 0
    BY <1>2 DEF EnqueueBurst, ringVars, consVars
  <2> QED
    BY <2>1, SMT DEF SlotsHold
<1>3. CASE WriteSlot
  <2> DEFINE s == Slot(Plus(head, written))
  <2>1. /\ head' = head /\ tail' = tail /\ got' = got /\ items' = items
        /\ written < Len(items) /\ written' = written + 1
        /\ data' = [data EXCEPT ![s] = items[written + 1]]
    BY <1>3 DEF WriteSlot, consVars
  <2>2. s \in DOMAIN data
    <3>1. written \in 0..Capacity
      BY Sizes, SMT
    <3> QED
      BY <3>1, Sizes, PlusType, SlotType DEF TypeOK
  <2>3. /\ \A k \in 1..Distance(tail, head) : Slot(Plus(tail, k - 1)) # s
        /\ \A k \in 1..written : Slot(Plus(head, k - 1)) # s
    BY <2>1, FreshSlot
  <2>4. data'[s] = items[written + 1] /\ \A x : x # s /\ x \in DOMAIN data => data'[x] = data[x]
    BY <2>1, <2>2
  <2>5. /\ \A k \in 1..Distance(tail, head) : Slot(Plus(tail, k - 1)) \in DOMAIN data
        /\ \A k \in 1..written : Slot(Plus(head, k - 1)) \in DOMAIN data
    <3>1. /\ \A k \in 1..Distance(tail, head) : k - 1 \in 0..Capacity
          /\ \A k \in 1..written : k - 1 \in 0..Capacity
      BY Sizes, SMT
    <3> QED
      BY <3>1, Sizes, PlusType, SlotType, Zenon DEF TypeOK
  <2> HIDE DEF s
  <2>6. \A k \in 1..written' : data'[Slot(Plus(head, k - 1))] = items[k]
    <3> SUFFICES ASSUME NEW k \in 1..written'
                 PROVE  data'[Slot(Plus(head, k - 1))] = items[k]
      OBVIOUS
    <3>1. CASE k = written + 1
      <4>1. k - 1 = written
        BY <3>1, Sizes, SMT
      <4> QED
        BY <4>1, <3>1, <2>4 DEF s
    <3>2. CASE k # written + 1
      <4>1. k \in 1..written
        BY <3>2, <2>1, Sizes, SMT
      <4> QED
        BY <4>1, <2>3, <2>4, <2>5 DEF SlotsHold
    <3> QED
      BY <3>1, <3>2
  <2>7. \A k \in 1..Distance(tail, head) :
          data'[Slot(Plus(tail, k - 1))] = data[Slot(Plus(tail, k - 1))]
    BY <2>3, <2>4, <2>5
  <2>8. \A k \in 1..Len(got) : k \in 1..Distance(tail, head)
    BY Sizes, SMT
  <2> QED
    BY <2>1, <2>6, <2>7, <2>8 DEF SlotsHold
<1>4. CASE StoreHead
  <2>1. /\ head' = Plus(head, Len(items)) /\ tail' = tail /\ data' = data /\ got' = got
        /\ written' = 0 /\ written = Len(items)
    BY <1>4 DEF StoreHead, consVars
  <2>2. Distance(tail, head') = Distance(tail, head) + Len(items)
    <3>1. Len(items) \in 0..Capacity /\ Distance(tail, head) + Len(items) < SizeMod
      BY Sizes, SMT
    <3> QED
      BY <3>1, <2>1, Sizes, AdvanceEnd
  <2>3. ASSUME NEW k \in 1..Distance(tail, head')
        PROVE  data[Slot(Plus(tail, k - 1))] \in Items
    <3>1. CASE k \in 1..Distance(tail, head)
      BY <3>1 DEF SlotsHold
    <3>2. CASE k \notin 1..Distance(tail, head)
      <4> DEFINE j == k - Distance(tail, head)
      <4>0. /\ Distance(tail, head) \in Nat /\ Len(items) \in Nat
            /\ Distance(tail, head) + Len(items) <= Capacity
            /\ head \in Index /\ tail \in Index
        BY Sizes
      <4>1. /\ j \in 1..Len(items) /\ j - 1 \in Nat /\ k - 1 = Distance(tail, head) + (j - 1)
            /\ Distance(tail, head) + (j - 1) <= Capacity
        BY <3>2, <2>2, <4>0, SMT
      <4> HIDE DEF j
      <4>2. Plus(tail, k - 1) = Plus(head, j - 1)
        <5>1. Plus(tail, Distance(tail, head) + (j - 1)) = Plus(head, j - 1)
          BY <4>0, <4>1, PastTheEnd
        <5> QED
          BY <4>1, <5>1
      <4>3. data[Slot(Plus(head, j - 1))] = items[j] /\ items[j] \in Items
        BY <4>1, <2>1, SMT DEF SlotsHold, TypeOK
      <4> QED
        BY <4>2, <4>3
    <3> QED
      BY <3>1, <3>2
  <2> QED
    BY <2>1, <2>3, SMT DEF SlotsHold
<1>5. CASE Dequeue
  BY <1>5, SMT DEF Dequeue, SlotsHold, ringVars, prodVars
<1>6. ASSUME NEW n \in 1..MaxBurst, DequeueBurst(n)
      PROVE  SlotsHold'
  BY <1>6, SMT DEF DequeueBurst, SlotsHold, ringVars, prodVars
<1>7. CASE ReadSlot
  <2>1. /\ head' = head /\ tail' = tail /\ data' = data /\ items' = items /\ written' = written
        /\ got' = Append(got, data[Slot(Plus(tail, Len(got)))])
    BY <1>7 DEF ReadSlot, ringVars, prodVars
  <2>2. /\ got \in Seq(Items \cup {NoItem}) /\ Len(got) \in Nat /\ Len(got') = Len(got) + 1
        /\ got'[Len(got) + 1] = data[Slot(Plus(tail, Len(got)))]
        /\ \A k \in 1..Len(got) : got'[k] = got[k]
    BY <2>1, SMT DEF TypeOK
  <2>3. ASSUME NEW k \in 1..Len(got')
        PROVE  got'[k] = data[Slot(Plus(tail, k - 1))]
    <3>1. CASE k = Len(got) + 1
      <4>1. k - 1 = Len(got)
        BY <3>1, <2>2, SMT
      <4> QED
        BY <4>1, <3>1, <2>2
    <3>2. CASE k # Len(got) + 1
      <4>1. k \in 1..Len(got)
        BY <3>2, <2>2, SMT
      <4> QED
        BY <4>1, <2>2 DEF SlotsHold
    <3> QED
      BY <3>1, <3>2
  <2> QED
    BY <2>1, <2>3 DEF SlotsHold
<1>8. CASE StoreTail
  <2>1. /\ head' = head /\ tail' = Plus(tail, count) /\ data' = data /\ items' = items
        /\ written' = written /\ got' = <<>>
    BY <1>8 DEF StoreTail, prodVars
  <2>2. Distance(tail', head) = Distance(tail, head) - count
    <3>1. count \in 0..Capacity /\ count <= Distance(tail, head)
      BY Sizes, SMT
    <3> QED
      BY <3>1, <2>1, Sizes, AdvanceStart
  <2>3. ASSUME NEW k \in 1..Distance(tail', head)
        PROVE  data[Slot(Plus(tail', k - 1))] \in Items
    <3>1. /\ count + k \in 1..Distance(tail, head) /\ k - 1 \in Nat /\ count \in Nat
          /\ count + (k - 1) <= Capacity /\ count + (k - 1) = (count + k) - 1
      BY <2>2, Sizes, SMT
    <3>2. Plus(tail', k - 1) = Plus(tail, (count + k) - 1)
      BY <2>1, <3>1, Sizes, PlusPlus
    <3> QED
      BY <3>1, <3>2 DEF SlotsHold
  <2> QED
    BY <2>1, <2>3, SMT DEF SlotsHold
<1>9. CASE UNCHANGED vars
  BY <1>9 DEF vars, ringVars, prodVars, consVars, SlotsHold
<1> QED
  BY <1>1, <1>2, <1>3, <1>4, <1>5, <1>6, <1>7, <1>8, <1>9 DEF Next

\* The slots of the ring hold the batch under way, the items published and
\* the items copied out (spsc_ring.h:49, 59, 72-73, 84-85).
THEOREM SlotsInvariant == Spec => []SlotsHold
<1>1. Init => SlotsHold
  <2> SUFFICES ASSUME Init PROVE SlotsHold
    OBVIOUS
  <2>1. Distance(tail, head) = 0
    BY RingAssumption, SMT DEF Init, Distance
  <2> QED
    BY <2>1, SMT DEF Init, SlotsHold
<1>2. TypeOK /\ CountersOrdered /\ SlotsHold /\ [Next]_vars => SlotsHold'
  BY SlotsHoldNext
<1> QED
  BY <1>1, <1>2, RingInvariant, PTL DEF Spec
-----------------------------------------------------------------------------
(* The refinement.                                                         *)

\* The published stretch of data_ is a sequence of items of length head_ - tail_.
LEMMA ContentsType ==
  ASSUME TypeOK, CountersOrdered, SlotsHold
  PROVE  /\ Contents \in Seq(Items)
         /\ Len(Contents) = Distance(tail, head)
         /\ \A k \in 1..Distance(tail, head) : Contents[k] = data[Slot(Plus(tail, k - 1))]
<1>1. Contents \in [1..Distance(tail, head) -> Items] /\ Distance(tail, head) \in Nat
  BY Sizes DEF Contents, SlotsHold
<1> QED
  BY <1>1, SMT DEF Contents

\* Concatenation spelled out index by index.
LEMMA ConcatAsFunction ==
  ASSUME NEW s \in Seq(Items), NEW t \in Seq(Items)
  PROVE  s \o t = [k \in 1..Len(s) + Len(t) |-> IF k <= Len(s) THEN s[k] ELSE t[k - Len(s)]]
<1> DEFINE st == s \o t
<1>1. st \in Seq(Items) /\ Len(st) = Len(s) + Len(t)
  OBVIOUS
<1>2. \A k \in 1..Len(s) + Len(t) : st[k] = IF k <= Len(s) THEN s[k] ELSE t[k - Len(s)]
  OBVIOUS
<1> HIDE DEF st
<1>3. st = [k \in 1..Len(st) |-> st[k]]
  BY <1>1, SMT
<1>4. st = [k \in 1..Len(s) + Len(t) |-> IF k <= Len(s) THEN s[k] ELSE t[k - Len(s)]]
  BY <1>1, <1>2, <1>3
<1> QED
  BY <1>4 DEF st

\* The store of head_ appends the whole batch.
LEMMA StoreHeadPuts ==
  ASSUME TypeOK, CountersOrdered, SlotsHold, StoreHead, TypeOK', CountersOrdered', SlotsHold'
  PROVE  Contents' = Contents \o items
<1>r. /\ Capacity \in Nat \ {0} /\ SizeMod \in Nat /\ Capacity < SizeMod
      /\ MaxBurst \in Nat \ {0} /\ NoItem \notin Items
  BY LinearFacts
<1> USE <1>r
<1>1. /\ head' = Plus(head, Len(items)) /\ tail' = tail /\ data' = data
      /\ written = Len(items)
  BY DEF StoreHead
<1> DEFINE D == Distance(tail, head)
           n == Len(items)
<1>2. D \in Nat /\ n \in Nat /\ D + n <= Capacity /\ tail \in Index /\ head \in Index
  BY Sizes
<1>3. Distance(tail', head') = D + n
  <2>1. n \in 0..Capacity /\ D + n < SizeMod
    BY <1>2, SMT
  <2> QED
    BY <2>1, <1>1, <1>2, AdvanceEnd
<1>4. /\ Contents \in Seq(Items) /\ Len(Contents) = D
      /\ \A k \in 1..D : Contents[k] = data[Slot(Plus(tail, k - 1))]
  BY ContentsType
<1>5. Contents' = [k \in 1..D + n |-> data[Slot(Plus(tail, k - 1))]]
  BY <1>1, <1>3 DEF Contents
<1>6. items \in Seq(Items)
  BY DEF TypeOK
<1> HIDE DEF D
<1>7. ASSUME NEW k \in 1..D + n
      PROVE  data[Slot(Plus(tail, k - 1))] = IF k <= D THEN Contents[k] ELSE items[k - D]
  <2>1. CASE k <= D
    BY <2>1, <1>2, <1>4, SMT
  <2>2. CASE ~(k <= D)
    <3>1. /\ k - D \in 1..Len(items) /\ (k - D) - 1 \in Nat
          /\ k - 1 = D + ((k - D) - 1) /\ D + ((k - D) - 1) <= Capacity
      BY <2>2, <1>2, SMT
    <3>2. Plus(tail, k - 1) = Plus(head, (k - D) - 1)
      BY <3>1, <1>2, PastTheEnd DEF D
    <3>3. data[Slot(Plus(head, (k - D) - 1))] = items[k - D]
      BY <3>1, <1>1 DEF SlotsHold
    <3> QED
      BY <2>2, <3>2, <3>3
  <2> QED
    BY <2>1, <2>2
<1>8. Contents \o items = [k \in 1..D + n |-> IF k <= D THEN Contents[k] ELSE items[k - D]]
  <2>1. Contents \o items = [k \in 1..Len(Contents) + Len(items) |->
                              IF k <= Len(Contents) THEN Contents[k] ELSE items[k - Len(Contents)]]
    <3> HIDE DEF n
    <3> QED
      BY <1>4, <1>6, ConcatAsFunction, Zenon
  <2>2. Len(Contents) = D
    BY <1>4
  <2> QED
    BY <2>1, <2>2
<1> HIDE DEF n
<1> QED
  BY <1>5, <1>7, <1>8

\* The store of tail_ removes the batch that was copied out.
LEMMA StoreTailTakes ==
  ASSUME TypeOK, CountersOrdered, SlotsHold, StoreTail, TypeOK', CountersOrdered', SlotsHold'
  PROVE  /\ got = SubSeq(Contents, 1, count)
         /\ Contents' = SubSeq(Contents, count + 1, Len(Contents))
<1>r. /\ Capacity \in Nat \ {0} /\ SizeMod \in Nat /\ Capacity < SizeMod
      /\ MaxBurst \in Nat \ {0} /\ NoItem \notin Items
  BY LinearFacts
<1> USE <1>r
<1>1. /\ head' = head /\ tail' = Plus(tail, count) /\ data' = data /\ Len(got) = count
  BY DEF StoreTail
<1> DEFINE D == Distance(tail, head)
<1>2. /\ D \in Nat /\ count \in Nat /\ count <= D /\ D <= Capacity
      /\ tail \in Index /\ head \in Index
  BY Sizes, SMT
<1>3. Distance(tail', head') = D - count
  <2>1. count \in 0..Capacity
    BY <1>2, SMT
  <2> QED
    BY <2>1, <1>1, <1>2, AdvanceStart
<1>4. /\ Contents \in Seq(Items) /\ Len(Contents) = D
      /\ \A k \in 1..D : Contents[k] = data[Slot(Plus(tail, k - 1))]
  BY ContentsType
<1>5. Contents' = [k \in 1..D - count |-> data[Slot(Plus(tail', k - 1))]]
  BY <1>1, <1>3 DEF Contents
<1> HIDE DEF D
<1>6. got = SubSeq(Contents, 1, count)
  <2>1. /\ SubSeq(Contents, 1, count) \in Seq(Items) /\ Len(SubSeq(Contents, 1, count)) = count
        /\ \A k \in 1..count : SubSeq(Contents, 1, count)[k] = Contents[k]
    BY <1>2, <1>4, SMT
  <2>2. got \in Seq(Items \cup {NoItem}) /\ \A k \in 1..count : got[k] = Contents[k]
    <3>1. \A k \in 1..count : k \in 1..D
      BY <1>2, SMT
    <3>2. \A k \in 1..count : got[k] = data[Slot(Plus(tail, k - 1))]
      BY <1>1 DEF SlotsHold
    <3> QED
      BY <3>1, <3>2, <1>4, Zenon DEF TypeOK
  <2>3. got = [k \in 1..count |-> Contents[k]]
    BY <1>1, <2>2, SMT
  <2>4. SubSeq(Contents, 1, count) = [k \in 1..count |-> Contents[k]]
    BY <2>1, SMT
  <2> QED
    BY <2>3, <2>4
<1>7. Contents' = SubSeq(Contents, count + 1, Len(Contents))
  <2>1. ASSUME NEW k \in 1..D - count
        PROVE  data[Slot(Plus(tail', k - 1))] = Contents[count + k]
    <3>1. /\ count + k \in 1..D /\ k - 1 \in Nat /\ count + (k - 1) <= Capacity
          /\ count + (k - 1) = (count + k) - 1
      BY <1>2, SMT
    <3>2. Plus(tail', k - 1) = Plus(tail, (count + k) - 1)
      BY <1>1, <1>2, <3>1, PlusPlus
    <3> QED
      BY <3>1, <3>2, <1>4
  <2>2. Contents' = [k \in 1..D - count |-> Contents[count + k]]
    BY <1>5, <2>1
  <2>3. SubSeq(Contents, count + 1, D) = [k \in 1..D - count |-> Contents[count + k]]
    BY <1>2, <1>4, SMT
  <2> QED
    BY <2>2, <2>3, <1>4
<1> QED
  BY <1>6, <1>7

\* Every step of the ring is a step of the queue or changes nothing of it.
THEOREM StepSimulation ==
  ASSUME TypeOK, CountersOrdered, SlotsHold, [Next]_vars, TypeOK', CountersOrdered', SlotsHold'
  PROVE  [Queue!Next]_(Queue!qvars)
<1>r. /\ Capacity \in Nat \ {0} /\ SizeMod \in Nat /\ Capacity < SizeMod
      /\ MaxBurst \in Nat \ {0} /\ NoItem \notin Items
  BY LinearFacts
<1> USE <1>r
<1>1. ASSUME NEW item \in Items, Enqueue(item)
      PROVE  UNCHANGED <<Contents, out>>
  BY <1>1 DEF Enqueue, ringVars, consVars, Contents
<1>2. ASSUME NEW batch \in Batches, EnqueueBurst(batch)
      PROVE  UNCHANGED <<Contents, out>>
  BY <1>2 DEF EnqueueBurst, ringVars, consVars, Contents
<1>3. CASE WriteSlot
  <2> DEFINE s == Slot(Plus(head, written))
  <2>1. /\ head' = head /\ tail' = tail /\ written < Len(items) /\ out' = out
        /\ data' = [data EXCEPT ![s] = items[written + 1]]
    BY <1>3 DEF WriteSlot, consVars
  <2>2. \A k \in 1..Distance(tail, head) : Slot(Plus(tail, k - 1)) # s
    BY <2>1, FreshSlot
  <2>3. \A k \in 1..Distance(tail, head) : Slot(Plus(tail, k - 1)) \in DOMAIN data
    <3>1. \A k \in 1..Distance(tail, head) : k - 1 \in 0..Capacity
      BY Sizes, SMT
    <3> QED
      BY <3>1, Sizes, PlusType, SlotType, Zenon DEF TypeOK
  <2> HIDE DEF s
  <2>4. \A k \in 1..Distance(tail, head) :
          data'[Slot(Plus(tail, k - 1))] = data[Slot(Plus(tail, k - 1))]
    BY <2>1, <2>2, <2>3
  <2> QED
    BY <2>1, <2>4 DEF Contents, Queue!qvars
<1>4. CASE StoreHead
  <2>1. Contents' = Contents \o items /\ out' = out
    BY <1>4, StoreHeadPuts DEF StoreHead, consVars
  <2>2. Contents \in Seq(Items) /\ Len(Contents) = Distance(tail, head) /\ items \in Seq(Items)
    BY ContentsType DEF TypeOK
  <2>3. CASE items = <<>>
    BY <2>1, <2>2, <2>3, SMT DEF Queue!qvars
  <2>4. CASE items # <<>>
    <3>1. /\ Len(items) \in 1..Capacity /\ items \in [1..Len(items) -> Items]
          /\ Len(Contents) + Len(items) <= Capacity
      BY <2>2, <2>4, Sizes, SMT
    <3> QED
      BY <2>1, <3>1, Zenon DEF Queue!Next, Queue!Put
  <2> QED
    BY <2>3, <2>4
<1>5. CASE Dequeue
  BY <1>5 DEF Dequeue, ringVars, Contents, Queue!qvars
<1>6. ASSUME NEW n \in 1..MaxBurst, DequeueBurst(n)
      PROVE  UNCHANGED <<Contents, out>>
  BY <1>6 DEF DequeueBurst, ringVars, Contents
<1>7. CASE ReadSlot
  BY <1>7 DEF ReadSlot, ringVars, Contents, Queue!qvars
<1>8. CASE StoreTail
  <2>1. /\ got = SubSeq(Contents, 1, count)
        /\ Contents' = SubSeq(Contents, count + 1, Len(Contents))
    BY <1>8, StoreTailTakes
  <2>2. Contents \in Seq(Items) /\ Len(Contents) = Distance(tail, head)
    BY ContentsType
  <2>3. CASE count = 0
    <3>1. Contents' = Contents
      BY <2>1, <2>2, <2>3, SMT
    <3> QED
      BY <1>8, <2>3, <3>1 DEF StoreTail, Queue!qvars
  <2>4. CASE count # 0
    <3>1. count \in 1..Len(Contents)
      BY <2>2, <2>4, Sizes, SMT
    <3>2. out' = SubSeq(Contents, 1, count)
      BY <1>8, <2>1, <2>4, Zenon DEF StoreTail
    <3> QED
      BY <2>1, <3>1, <3>2 DEF Queue!Next, Queue!Take
  <2> QED
    BY <2>3, <2>4
<1>9. CASE UNCHANGED vars
  BY <1>9 DEF vars, ringVars, consVars, Contents, Queue!qvars
<1> QED
  BY <1>1, <1>2, <1>3, <1>4, <1>5, <1>6, <1>7, <1>8, <1>9 DEF Next, Queue!qvars

\* The lock-free ring is a bounded FIFO queue: no item is lost, duplicated,
\* reordered or handed out before its slot is written, for any Capacity,
\* counter width, burst length and staleness of the acquire loads.
THEOREM RingImplementsQueue == Spec => ImplementsQueue
<1>1. Init => Queue!Init
  <2> SUFFICES ASSUME Init PROVE Queue!Init
    OBVIOUS
  <2>1. Distance(tail, head) = 0
    BY RingAssumption, SMT DEF Init, Distance
  <2> QED
    BY <2>1, SMT DEF Init, Contents, Queue!Init
<1>2. /\ TypeOK /\ CountersOrdered /\ SlotsHold /\ [Next]_vars
      /\ (TypeOK /\ CountersOrdered /\ SlotsHold)'
      => [Queue!Next]_(Queue!qvars)
  BY StepSimulation
<1> QED
  BY <1>1, <1>2, RingInvariant, SlotsInvariant, PTL DEF Spec, ImplementsQueue, Queue!Spec
=============================================================================
