------------------------------ MODULE SpscRing ------------------------------
(***************************************************************************)
(* src/dpdk_sim/spsc_ring.h: the lock-free single-producer                 *)
(* single-consumer ring.  head and tail are free-running size_t counters   *)
(* (modulo SizeMod); a slot is the counter masked by Capacity - 1.         *)
(*                                                                         *)
(* Every atomic load or store and every slot access is a step of its own.  *)
(* An acquire load of the other side's counter may return a value older    *)
(* than the current one, but never one older than the same thread has      *)
(* already seen (C++ read-read coherence); a thread's load of its own      *)
(* counter is exact.                                                       *)
(***************************************************************************)
EXTENDS Integers, Sequences

CONSTANTS Capacity,   \* template parameter Capacity
          SizeMod,    \* 2^w, w the width of size_t
          Items,      \* the values of T the producer enqueues
          NoItem,     \* value-initialised T: what data_ holds at first
          MaxBurst    \* largest n passed to the burst calls (model bound)

\* static_assert(Capacity is a power of 2): all the masking needs of it is
\* that the counters' modulus is a multiple of Capacity.
ASSUME RingAssumption ==
  /\ Capacity \in Nat \ {0}
  /\ SizeMod \in Nat
  /\ Capacity < SizeMod
  /\ SizeMod % Capacity = 0
  /\ MaxBurst \in Nat \ {0}
  /\ NoItem \notin Items

VARIABLES
  head, tail, data,                \* head_, tail_, data_
  pPc, pTail, items, written,      \* producer: its view of tail_, the batch
                                   \* to store, how many slots are written
  cPc, cHead, count, got,          \* consumer: its view of head_, cnt, and
                                   \* the items copied out so far
  out                              \* what the last successful dequeue returned

ringVars == <<head, tail, data>>
prodVars == <<pPc, pTail, items, written>>
consVars == <<cPc, cHead, count, got, out>>
vars == <<ringVars, prodVars, consVars>>

Index == 0 .. SizeMod - 1

\* size_t addition of n <= SizeMod, and size_t subtraction b - a.
Plus(a, n) == IF a + n < SizeMod THEN a + n ELSE a + n - SizeMod
Distance(a, b) == IF a <= b THEN b - a ELSE b - a + SizeMod

\* x & MASK
Slot(x) == x % Capacity

\* What an acquire load may return: anything stored since `seen`.
Views(seen, current) == {x \in Index : Distance(seen, x) <= Distance(seen, current)}

SmallerOf(a, b) == IF a < b THEN a ELSE b

Batches == UNION {[1..n -> Items] : n \in 1..MaxBurst}

Init ==
  /\ head = 0 /\ tail = 0 /\ data = [s \in 0..Capacity-1 |-> NoItem]
  /\ pPc = "idle" /\ pTail = 0 /\ items = <<>> /\ written = 0
  /\ cPc = "idle" /\ cHead = 0 /\ count = 0 /\ got = <<>> /\ out = <<>>

-----------------------------------------------------------------------------
\* Producer

\* Names with an underscore are the definition that follows with one bug
\* planted in it; each breaks a property, and no specification uses them.
Full_offByOne(t) == Distance(t, head) > Capacity
Full(t) == Distance(t, head) >= Capacity

FreeSlots_offByOne(t) == Capacity + 1 - Distance(t, head)
FreeSlots_ignored(t) == Capacity
FreeSlots(t) == Capacity - Distance(t, head)

\* enqueue: both loads, and the early return when the ring looks full.
Enqueue(item) ==
  /\ pPc = "idle"
  /\ pTail' \in Views(pTail, tail)
  /\ IF Full(pTail')
       THEN UNCHANGED <<pPc, items, written>>
       ELSE pPc' = "writing" /\ items' = <<item>> /\ written' = 0
  /\ UNCHANGED <<ringVars, consVars>>

\* enqueue_burst: both loads, free and cnt.
EnqueueBurst(batch) ==
  /\ pPc = "idle"
  /\ pTail' \in Views(pTail, tail)
  /\ items' = SubSeq(batch, 1, SmallerOf(Len(batch), FreeSlots(pTail')))
  /\ pPc' = "writing" /\ written' = 0
  /\ UNCHANGED <<ringVars, consVars>>

WriteSlot_sameSlot ==
  /\ pPc = "writing" /\ written < Len(items)
  /\ data' = [data EXCEPT ![Slot(head)] = items[written + 1]]
  /\ written' = written + 1
  /\ UNCHANGED <<head, tail, pPc, pTail, items, consVars>>

\* data_[(h + i) & MASK] = items[i]
WriteSlot ==
  /\ pPc = "writing" /\ written < Len(items)
  /\ data' = [data EXCEPT ![Slot(Plus(head, written))] = items[written + 1]]
  /\ written' = written + 1
  /\ UNCHANGED <<head, tail, pPc, pTail, items, consVars>>

StoreHead_early ==
  /\ pPc = "writing"
  /\ head' = Plus(head, Len(items))
  /\ pPc' = "idle" /\ items' = <<>> /\ written' = 0
  /\ UNCHANGED <<tail, data, pTail, consVars>>

\* head_.store(h + cnt, release)
StoreHead ==
  /\ pPc = "writing" /\ written = Len(items)
  /\ head' = Plus(head, Len(items))
  /\ pPc' = "idle" /\ items' = <<>> /\ written' = 0
  /\ UNCHANGED <<tail, data, pTail, consVars>>

-----------------------------------------------------------------------------
\* Consumer

\* dequeue: both loads, and the early return when the ring looks empty.
Dequeue ==
  /\ cPc = "idle"
  /\ cHead' \in Views(cHead, head)
  /\ IF tail = cHead'
       THEN UNCHANGED <<cPc, count>>
       ELSE cPc' = "reading" /\ count' = 1
  /\ UNCHANGED <<ringVars, prodVars, got, out>>

DequeueBurst_noMinimum(n) ==
  /\ cPc = "idle"
  /\ cHead' \in Views(cHead, head)
  /\ count' = n
  /\ cPc' = "reading"
  /\ UNCHANGED <<ringVars, prodVars, got, out>>

\* dequeue_burst: both loads, avail and cnt.
DequeueBurst(n) ==
  /\ cPc = "idle"
  /\ cHead' \in Views(cHead, head)
  /\ count' = SmallerOf(n, Distance(tail, cHead'))
  /\ cPc' = "reading"
  /\ UNCHANGED <<ringVars, prodVars, got, out>>

\* items[i] = data_[(t + i) & MASK]
ReadSlot ==
  /\ cPc = "reading" /\ Len(got) < count
  /\ got' = Append(got, data[Slot(Plus(tail, Len(got)))])
  /\ UNCHANGED <<ringVars, prodVars, cPc, cHead, count, out>>

StoreTail_pastAll ==
  /\ cPc = "reading" /\ Len(got) = count
  /\ tail' = cHead
  /\ out' = IF count = 0 THEN out ELSE got
  /\ cPc' = "idle" /\ count' = 0 /\ got' = <<>>
  /\ UNCHANGED <<head, data, prodVars, cHead>>

\* tail_.store(t + cnt, release)
StoreTail ==
  /\ cPc = "reading" /\ Len(got) = count
  /\ tail' = Plus(tail, count)
  /\ out' = IF count = 0 THEN out ELSE got
  /\ cPc' = "idle" /\ count' = 0 /\ got' = <<>>
  /\ UNCHANGED <<head, data, prodVars, cHead>>

-----------------------------------------------------------------------------
Next ==
  \/ \E item \in Items : Enqueue(item)
  \/ \E batch \in Batches : EnqueueBurst(batch)
  \/ WriteSlot
  \/ StoreHead
  \/ Dequeue
  \/ \E n \in 1..MaxBurst : DequeueBurst(n)
  \/ ReadSlot
  \/ StoreTail

Spec == Init /\ [][Next]_vars

\* A consumer that keeps polling; a store becomes visible to an atomic load
\* in a finite time, so its loads do not return an old head_ for ever.
FreshDequeue == /\ Dequeue \/ \E n \in 1..MaxBurst : DequeueBurst(n)
                /\ cHead' = head

LiveSpec == Spec /\ WF_vars(ReadSlot) /\ WF_vars(StoreTail) /\ SF_vars(FreshDequeue)

-----------------------------------------------------------------------------
\* Every counter and cursor stays in its range, and a thread outside a call
\* has no batch under way.
TypeOK ==
  /\ head \in Index /\ tail \in Index
  /\ data \in [0..Capacity-1 -> Items \cup {NoItem}]
  /\ pPc \in {"idle", "writing"} /\ pTail \in Index
  /\ items \in Seq(Items) /\ written \in 0..Len(items)
  /\ cPc \in {"idle", "reading"} /\ cHead \in Index
  /\ count \in 0..Capacity
  /\ got \in Seq(Items \cup {NoItem}) /\ Len(got) <= count
  /\ out \in Seq(Items \cup {NoItem})
  /\ pPc = "idle" => items = <<>>
  /\ cPc = "idle" => count = 0

\* The counters keep their order around the wrap of size_t: what the producer
\* last saw of tail_ is behind tail_, which is behind what the consumer last
\* saw of head_, which is behind head_; and the whole stretch, with the batch
\* the producer is writing, fits in the ring.
CountersOrdered ==
  /\ Distance(pTail, tail) + Distance(tail, cHead) + Distance(cHead, head)
       + Len(items) <= Capacity
  /\ count <= Distance(tail, cHead)

\* The producer is never about to write the slot the consumer is about to
\* read, although neither holds a lock.
NoDataRace ==
  pPc = "writing" /\ written < Len(items) /\ cPc = "reading" /\ Len(got) < count
    => Slot(Plus(head, written)) # Slot(Plus(tail, Len(got)))

\* size() called by the producer or by the consumer, whatever stale value its
\* relaxed load of the other counter returns, is at most Capacity: it never
\* wraps below zero.
OwnerSizeInRange ==
  /\ \A t \in Views(pTail, tail) : Distance(t, head) <= Capacity
  /\ \A h \in Views(cHead, head) : Distance(tail, h) <= Capacity

\* The slots hold what they should: the ones already written hold the batch
\* under way, the ones already read still hold what was copied out of them,
\* and the published ones hold items, never a value-initialised T.
SlotsHold ==
  /\ \A k \in 1..written : data[Slot(Plus(head, k - 1))] = items[k]
  /\ \A k \in 1..Len(got) : got[k] = data[Slot(Plus(tail, k - 1))]
  /\ \A k \in 1..Distance(tail, head) : data[Slot(Plus(tail, k - 1))] \in Items

\* The ring implements the bounded FIFO queue: a whole batch becomes visible
\* with the store of head_, a whole batch leaves with the store of tail_.
Contents == [k \in 1..Distance(tail, head) |-> data[Slot(Plus(tail, k - 1))]]

Queue == INSTANCE BoundedQueue WITH queue <- Contents, delivered <- out

ImplementsQueue == Queue!Spec

\* Every published item is handed to the consumer.
Published(v) == \E k \in DOMAIN Contents : Contents[k] = v
HandedOut(v) == \E k \in DOMAIN out : out[k] = v
PublishedIsDelivered == \A v \in Items : Published(v) ~> HandedOut(v)
=============================================================================
