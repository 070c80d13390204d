--------------------------- MODULE BatchProcessor ---------------------------
(***************************************************************************)
(* src/dpdk_sim/packet_processor.h over src/dpdk_sim/memory_pool.h: packets *)
(* travel pool -> producer -> ring_ -> consumer -> pool.                    *)
(*                                                                         *)
(* ring_ has one enqueuing and one dequeuing thread whatever happens, so   *)
(* it is the bounded FIFO queue that SpscRing is proved to implement.  The *)
(* pool's free_ring_ is not: process_burst returns packets on the consumer *)
(* thread and the drop path of send returns one on the producer thread.    *)
(* Its enqueue is therefore modelled load by load and slot by slot, for    *)
(* either thread; only the producer dequeues from it, in one step.         *)
(***************************************************************************)
EXTENDS Integers, Sequences, FiniteSets, Functions, Sums

CONSTANTS PoolSize,      \* template parameter PoolSize
          BURST_SIZE,
          Lens,          \* values of Packet::len a caller writes
          Deployments,   \* the [ring, serial] pairs to consider: RingSize, and
                         \* whether one thread makes all the calls
          MaxAllocs      \* model bound on successful allocations

ASSUME BatchAssumption ==
  /\ PoolSize \in Nat \ {0} /\ BURST_SIZE \in Nat \ {0} /\ MaxAllocs \in Nat /\ Lens \subseteq Nat
  /\ Deployments \subseteq [ring : Nat \ {0}, serial : BOOLEAN]

Packets == 1..PoolSize
Threads == {"producer", "consumer"}

VARIABLES
  deployment,       \* chosen once
  ring,             \* ring_
  slots, fhead, ftail, total_allocs,   \* free_ring_ and total_allocs_
  len,              \* len field of every packet
  held,             \* packets the producer's caller got from alloc_packet
  thr,              \* per thread: pc, packets in hand, loaded head, cursor
  stats,            \* stats_
  accepted          \* history: bytes of the packets send returned true for

vars == <<deployment, ring, slots, fhead, ftail, total_allocs, len, held, thr,
          stats, accepted>>

poolVars == <<slots, fhead, ftail, total_allocs>>

Outside == [pc |-> "outside", pkts |-> <<>>, h |-> 0, i |-> 0]

\* MemoryPool's constructor fills the free list.
Init ==
  /\ deployment \in Deployments
  /\ ring = <<>>
  /\ slots = [s \in 0..PoolSize-1 |-> s + 1]
  /\ fhead = PoolSize /\ ftail = 0 /\ total_allocs = 0
  /\ len = [p \in Packets |-> 0]
  /\ held = {}
  /\ thr = [t \in Threads |-> Outside]
  /\ stats = [pkts_processed |-> 0, pkts_dropped |-> 0, bytes_processed |-> 0, bursts |-> 0]
  /\ accepted = 0

\* A call starts: with a single thread, only when no other call is running.
MayCall(t) == /\ thr[t].pc = "outside"
              /\ deployment.serial => \A u \in Threads : thr[u].pc = "outside"

-----------------------------------------------------------------------------
(* MemoryPool *)

\* Names with an underscore are the definition that follows with one bug
\* planted in it; each breaks a property, and no specification uses them.
FreeListEmpty_unchecked == FALSE
FreeListEmpty == fhead = ftail

\* alloc_packet -> MemoryPool::alloc -> dequeue, and the caller fills in len.
alloc_packet ==
  /\ MayCall("producer") /\ total_allocs < MaxAllocs
  /\ ~FreeListEmpty
  /\ LET p == slots[ftail % PoolSize] IN
       /\ held' = held \cup {p}
       /\ \E n \in Lens : len' = [len EXCEPT ![p] = n]
  /\ ftail' = ftail + 1
  /\ total_allocs' = total_allocs + 1
  /\ UNCHANGED <<deployment, ring, slots, fhead, thr, stats, accepted>>

FreeCount_lastForgotten(n) == n - 1
FreeCount(n) == LET free == PoolSize - (fhead - ftail) IN IF n < free THEN n ELSE free

\* free / free_burst -> enqueue(_burst): load both counters, compute cnt.  A
\* packet that does not fit is forgotten: the result is cast to void.
FreeLoad(t) ==
  /\ thr[t].pc = "freeLoad"
  /\ thr' = [thr EXCEPT ![t] = [pc |-> "freeWrite", pkts |-> SubSeq(@.pkts, 1, FreeCount(Len(@.pkts))),
                                h |-> fhead, i |-> 0]]
  /\ UNCHANGED <<deployment, ring, poolVars, len, held, stats, accepted>>

FreeWrite(t) ==
  /\ thr[t].pc = "freeWrite" /\ thr[t].i < Len(thr[t].pkts)
  /\ slots' = [slots EXCEPT ![(thr[t].h + thr[t].i) % PoolSize] = thr[t].pkts[thr[t].i + 1]]
  /\ thr' = [thr EXCEPT ![t].i = @ + 1]
  /\ UNCHANGED <<deployment, ring, fhead, ftail, total_allocs, len, held, stats, accepted>>

\* The producer frees one packet with enqueue, which stores nothing when the
\* list is full; enqueue_burst stores head + cnt also when cnt is 0.
FreeStore(t) ==
  /\ thr[t].pc = "freeWrite" /\ thr[t].i = Len(thr[t].pkts)
  /\ fhead' = IF t = "producer" /\ thr[t].pkts = <<>> THEN fhead ELSE thr[t].h + Len(thr[t].pkts)
  /\ thr' = [thr EXCEPT ![t] = Outside]
  /\ UNCHANGED <<deployment, ring, slots, ftail, total_allocs, len, held, stats, accepted>>

-----------------------------------------------------------------------------
(* BatchProcessor *)

RingFull_offByOne == Len(ring) + 1 >= deployment.ring
RingFull == Len(ring) >= deployment.ring

\* ++pkts_dropped; pool_.free(pkt)
Drop_noFree(p) ==
  /\ stats' = [stats EXCEPT !.pkts_dropped = @ + 1]
  /\ UNCHANGED thr
Drop(p) ==
  /\ stats' = [stats EXCEPT !.pkts_dropped = @ + 1]
  /\ thr' = [thr EXCEPT !["producer"].pc = "freeLoad", !["producer"].pkts = <<p>>]

send(p) ==
  /\ MayCall("producer") /\ p \in held
  /\ held' = held \ {p}
  /\ \/ RingFull /\ Drop(p) /\ UNCHANGED <<ring, accepted>>
     \/ /\ ~RingFull
        /\ ring' = Append(ring, p) /\ accepted' = accepted + len[p]
        /\ UNCHANGED <<stats, thr>>
  /\ UNCHANGED <<deployment, poolVars, len>>

\* process_burst: dequeue_burst; nothing more to do when n = 0.
process_burst ==
  /\ MayCall("consumer") /\ ring # <<>>
  /\ LET n == IF BURST_SIZE < Len(ring) THEN BURST_SIZE ELSE Len(ring) IN
       /\ thr' = [thr EXCEPT !["consumer"] = [Outside EXCEPT !.pc = "handle", !.pkts = SubSeq(ring, 1, n)]]
       /\ ring' = SubSeq(ring, n + 1, Len(ring))
  /\ UNCHANGED <<deployment, poolVars, len, held, stats, accepted>>

\* handler_(burst[i]); bytes_processed += burst[i]->len
HandleOne ==
  LET c == thr["consumer"] IN
  /\ c.pc = "handle" /\ c.i < Len(c.pkts)
  /\ stats' = [stats EXCEPT !.bytes_processed = @ + len[c.pkts[c.i + 1]]]
  /\ thr' = [thr EXCEPT !["consumer"].i = @ + 1]
  /\ UNCHANGED <<deployment, ring, poolVars, len, held, accepted>>

LoopDone_early(c) == TRUE
LoopDone(c) == c.i = Len(c.pkts)

CountBurst_asOnePacket(n) == [stats EXCEPT !.pkts_processed = @ + 1, !.bursts = @ + 1]
CountBurst(n) == [stats EXCEPT !.pkts_processed = @ + n, !.bursts = @ + 1]

\* After the loop: the counters, then pool_.free_burst.
FinishBurst ==
  LET c == thr["consumer"] IN
  /\ c.pc = "handle" /\ LoopDone(c)
  /\ stats' = CountBurst(Len(c.pkts))
  /\ thr' = [thr EXCEPT !["consumer"].pc = "freeLoad"]
  /\ UNCHANGED <<deployment, ring, poolVars, len, held, accepted>>

FreeStep(t) == FreeLoad(t) \/ FreeWrite(t) \/ FreeStore(t)

Next ==
  \/ alloc_packet
  \/ \E p \in Packets : send(p)
  \/ process_burst \/ HandleOne \/ FinishBurst
  \/ \E t \in Threads : FreeLoad(t)
  \/ \E t \in Threads : FreeWrite(t)
  \/ \E t \in Threads : FreeStore(t)

\* A thread inside a call finishes it, and the consumer keeps polling.
Fairness ==
  /\ \A t \in Threads : WF_vars(FreeStep(t))
  /\ WF_vars(process_burst) /\ WF_vars(HandleOne) /\ WF_vars(FinishBurst)

Spec == Init /\ [][Next]_vars /\ Fairness
-----------------------------------------------------------------------------
\* What the code needs of its user: one thread, or a ring that never refuses.
\* Otherwise both threads enqueue on free_ring_ (spsc_ring.h:5).
Supported == deployment.serial \/ deployment.ring >= PoolSize

\* The free list's counters stay one pool apart, and a thread works on at
\* most a burst of packets.
TypeOK ==
  /\ deployment \in Deployments
  /\ ring \in Seq(Packets) /\ Len(ring) <= deployment.ring
  /\ slots \in [0..PoolSize-1 -> Packets]
  /\ fhead \in Nat /\ ftail \in Nat /\ fhead - ftail \in 0..PoolSize
  /\ total_allocs \in 0..MaxAllocs /\ accepted \in Nat
  /\ len \in [Packets -> Lens \cup {0}] /\ held \subseteq Packets
  /\ thr \in [Threads -> [pc : {"outside", "handle", "freeLoad", "freeWrite"},
                          pkts : Seq(Packets), h : Nat, i : Nat]]
  /\ \A t \in Threads : Len(thr[t].pkts) <= BURST_SIZE /\ thr[t].i <= Len(thr[t].pkts)
  /\ stats \in [pkts_processed : Nat, pkts_dropped : Nat, bytes_processed : Nat, bursts : Nat]

\* The packets free_ring_ holds.
FreePackets == {slots[x % PoolSize] : x \in ftail..fhead-1}

\* There are PoolSize places: the free list, the producer's hands, the ring,
\* and a burst or drop on its way back.  They hold all packets, so each is in
\* exactly one: none is lost when its return to the pool is cast to void
\* (memory_pool.h:58, 77), and no two owners ever share one.
PacketsConserved ==
  /\ fhead - ftail + Cardinality(held) + Len(ring)
       + Len(thr["producer"].pkts) + Len(thr["consumer"].pkts) = PoolSize
  /\ FreePackets \cup held \cup Range(ring)
       \cup Range(thr["producer"].pkts) \cup Range(thr["consumer"].pkts) = Packets

\* Every allocation is accounted for: processed, dropped, or still on its way.
AllocationsAccounted ==
  total_allocs = stats.pkts_processed + stats.pkts_dropped + Cardinality(held) + Len(ring)
                   + (IF thr["consumer"].pc = "handle" THEN Len(thr["consumer"].pkts) ELSE 0)

\* Packets that send accepted and the handler loop has not counted.
InFlight ==
  LET c == thr["consumer"]
  IN  Range(ring) \cup IF c.pc = "handle" THEN {c.pkts[k] : k \in c.i+1..Len(c.pkts)} ELSE {}

\* Bytes accepted by send are the bytes processed plus those still queued: no
\* packet's len changes hands under the consumer.
BytesAccounted == accepted = stats.bytes_processed + SumOver(len, InFlight)

\* A ring at least as large as the pool never refuses a packet, however far
\* the consumer falls behind.
LargeRingNeverDrops == deployment.ring >= PoolSize => stats.pkts_dropped = 0

\* A packet accepted by send comes back to the pool.
SentPacketReturns ==
  \A p \in Packets : (p \in Range(ring)) ~> (p \in FreePackets)
=============================================================================
