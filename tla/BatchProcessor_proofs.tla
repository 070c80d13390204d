----------------------- MODULE BatchProcessor_proofs -----------------------
(***************************************************************************)
(* Safety of the packet pool and the batch processor for every pool, ring  *)
(* and burst size, in the deployments the code supports.                   *)
(***************************************************************************)
EXTENDS BatchProcessor, Sums_proofs

-----------------------------------------------------------------------------
(* Slots, sequences and counting.                                          *)

\* No multiple of C lies strictly between 0 and C.
LEMMA NoMultipleBetween ==
  ASSUME NEW C \in Nat \ {0}, NEW d \in Int
  PROVE  ~(0 < C * d /\ C * d < C)
<1>1. d <= 0 => C * d <= 0
  BY SMT
<1>2. d >= 1 => C * d >= C
  BY SMT
<1> QED
  BY <1>1, <1>2, SMT

\* A counter is a multiple of the ring size plus its slot.
LEMMA CounterSplits ==
  ASSUME NEW C \in Nat \ {0}, NEW z \in Nat
  PROVE  \E q \in Int : z = C * q + (z % C)
<1>1. z \div C \in Int /\ z = C * (z \div C) + (z % C)
  BY SMT
<1> QED
  BY <1>1, Zenon

\* Two counters of free_ring_ less than a pool apart use different slots.
LEMMA FreeSlotsDiffer ==
  ASSUME NEW x \in Nat, NEW y \in Nat, x < y, y - x < PoolSize
  PROVE  x % PoolSize # y % PoolSize
<1>0. PoolSize \in Nat \ {0} /\ x % PoolSize \in Int /\ y % PoolSize \in Int
  BY BatchAssumption, SMT
<1>1. PICK a \in Int : x = PoolSize * a + (x % PoolSize)
  BY <1>0, CounterSplits, Zenon
<1>2. PICK b \in Int : y = PoolSize * b + (y % PoolSize)
  BY <1>0, CounterSplits, Zenon
<1>3. PoolSize * (b - a) = PoolSize * b - PoolSize * a /\ PoolSize * b \in Int /\ PoolSize * a \in Int
  BY <1>0, SMT
<1>4. x % PoolSize = y % PoolSize => y - x = PoolSize * (b - a)
  BY <1>0, <1>1, <1>2, <1>3, SMT
<1> QED
  BY <1>0, <1>4, NoMultipleBetween, SMT

\* A counter's slot is an index of the slot array.
LEMMA FreeSlotType ==
  ASSUME NEW x \in Nat
  PROVE  x % PoolSize \in 0..PoolSize-1
  BY BatchAssumption, SMT

\* The packets of a sequence are those at its positions.
LEMMA RangeOfSeq ==
  ASSUME NEW S, NEW s \in Seq(S)
  PROVE  /\ Range(s) \subseteq S
         /\ \A k \in 1..Len(s) : s[k] \in Range(s)
         /\ \A y \in Range(s) : \E k \in 1..Len(s) : s[k] = y
<1>1. DOMAIN s = 1..Len(s) /\ \A k \in 1..Len(s) : s[k] \in S
  BY SMT
<1> QED
  BY <1>1, Zenon DEF Range

\* Appending a packet adds it to the packets of a sequence.
LEMMA RangeAppend ==
  ASSUME NEW S, NEW s \in Seq(S), NEW x \in S
  PROVE  /\ Append(s, x) \in Seq(S) /\ Len(Append(s, x)) = Len(s) + 1
         /\ Range(Append(s, x)) = Range(s) \cup {x}
<1> DEFINE a == Append(s, x)
<1>1. /\ a \in Seq(S) /\ Len(a) = Len(s) + 1 /\ a[Len(s) + 1] = x /\ Len(s) \in Nat
      /\ \A k \in 1..Len(s) : a[k] = s[k]
  BY SMT
<1> HIDE DEF a
<1>r. /\ \A k \in 1..Len(s) : s[k] \in Range(s)
      /\ \A y \in Range(s) : \E k \in 1..Len(s) : s[k] = y
  BY RangeOfSeq, Zenon
<1>q. /\ \A k \in 1..Len(a) : a[k] \in Range(a)
      /\ \A y \in Range(a) : \E k \in 1..Len(a) : a[k] = y
  BY <1>1, RangeOfSeq, Zenon
<1>2. \A k \in 1..Len(a) : a[k] \in Range(s) \cup {x}
  BY <1>1, <1>r, SMT
<1>3. \A k \in 1..Len(s) : s[k] \in Range(a)
  BY <1>1, <1>q, SMT
<1>4. x \in Range(a)
  BY <1>1, <1>q, SMT
<1>5. Range(a) = Range(s) \cup {x}
  BY <1>2, <1>3, <1>4, <1>r, <1>q, Zenon
<1> QED
  BY <1>1, <1>5 DEF a

\* Cutting a sequence in two keeps its packets and its length.
LEMMA RangeSplit ==
  ASSUME NEW S, NEW s \in Seq(S), NEW n \in 0..Len(s)
  PROVE  /\ SubSeq(s, 1, n) \in Seq(S) /\ Len(SubSeq(s, 1, n)) = n
         /\ SubSeq(s, n + 1, Len(s)) \in Seq(S) /\ Len(SubSeq(s, n + 1, Len(s))) = Len(s) - n
         /\ Range(s) = Range(SubSeq(s, 1, n)) \cup Range(SubSeq(s, n + 1, Len(s)))
<1> DEFINE a == SubSeq(s, 1, n)
           b == SubSeq(s, n + 1, Len(s))
<1>1. /\ a \in Seq(S) /\ Len(a) = n /\ b \in Seq(S) /\ Len(b) = Len(s) - n
      /\ \A k \in 1..n : a[k] = s[k]
      /\ \A k \in 1..Len(s)-n : b[k] = s[n + k]
  BY SMT
<1> HIDE DEF a, b
<1>r. /\ \A k \in 1..Len(s) : s[k] \in Range(s)
      /\ \A y \in Range(s) : \E k \in 1..Len(s) : s[k] = y
  BY RangeOfSeq, Zenon
<1>q. /\ \A k \in 1..Len(a) : a[k] \in Range(a)
      /\ \A y \in Range(a) : \E k \in 1..Len(a) : a[k] = y
      /\ \A k \in 1..Len(b) : b[k] \in Range(b)
      /\ \A y \in Range(b) : \E k \in 1..Len(b) : b[k] = y
  BY <1>1, RangeOfSeq, Zenon
<1>2. \A k \in 1..Len(s) : s[k] \in Range(a) \cup Range(b)
  <2> TAKE k \in 1..Len(s)
  <2>1. CASE k <= n
    BY <2>1, <1>1, <1>q, SMT
  <2>2. CASE k > n
    <3>1. k - n \in 1..Len(b) /\ b[k - n] = s[k]
      BY <2>2, <1>1, SMT
    <3> QED
      BY <3>1, <1>1, <1>q, SMT
  <2> QED
    BY <2>1, <2>2, SMT
<1>3. /\ \A k \in 1..Len(a) : a[k] \in Range(s)
      /\ \A k \in 1..Len(b) : b[k] \in Range(s)
  <2>1. \A k \in 1..Len(a) : k \in 1..Len(s) /\ a[k] = s[k]
    BY <1>1, SMT
  <2>2. \A k \in 1..Len(b) : n + k \in 1..Len(s) /\ b[k] = s[n + k]
    BY <1>1, SMT
  <2> QED
    BY <2>1, <2>2, <1>r, Zenon
<1>4. Range(s) = Range(a) \cup Range(b)
  BY <1>2, <1>3, <1>r, <1>q, Zenon
<1> QED
  BY <1>1, <1>4 DEF a, b

\* A function has no more values than arguments.
LEMMA ImageSmall ==
  ASSUME NEW f, IsFiniteSet(DOMAIN f), f = [x \in DOMAIN f |-> f[x]]
  PROVE  /\ IsFiniteSet(Range(f)) /\ Cardinality(Range(f)) \in Nat
         /\ Cardinality(Range(f)) <= Cardinality(DOMAIN f)
<1>1. f \in [DOMAIN f -> Range(f)] /\ \A y \in Range(f) : \E x \in DOMAIN f : f[x] = y
  BY SMT DEF Range
<1>2. f \in Surjection(DOMAIN f, Range(f))
  BY <1>1, Zenon DEF Surjection
<1>3. IsFiniteSet(Range(f)) /\ Cardinality(Range(f)) <= Cardinality(DOMAIN f)
  BY <1>2, FS_Surjection, Zenon
<1> QED
  BY <1>3, FS_CardinalityType, Zenon

\* The size of an interval, the empty one included.
LEMMA IntervalSize ==
  ASSUME NEW a \in Int, NEW b \in Int, a <= b + 1
  PROVE  IsFiniteSet(a..b) /\ Cardinality(a..b) = b - a + 1
<1>1. IsFiniteSet(a..b) /\ Cardinality(a..b) = IF a > b THEN 0 ELSE b - a + 1
  BY FS_Interval, Zenon
<1> QED
  BY <1>1, SMT

\* A sequence has no more packets than positions.
LEMMA SeqRangeSmall ==
  ASSUME NEW S, NEW s \in Seq(S)
  PROVE  /\ IsFiniteSet(Range(s)) /\ Cardinality(Range(s)) \in Nat
         /\ Cardinality(Range(s)) <= Len(s)
<1>1. DOMAIN s = 1..Len(s) /\ Len(s) \in Nat /\ s = [x \in DOMAIN s |-> s[x]]
  BY SMT
<1>2. IsFiniteSet(1..Len(s)) /\ Cardinality(1..Len(s)) = Len(s)
  <2>1. 1 \in Int /\ Len(s) \in Int /\ 1 <= Len(s) + 1 /\ Len(s) - 1 + 1 = Len(s)
    BY <1>1, SMT
  <2> QED
    BY <2>1, IntervalSize
<1> QED
  BY <1>1, <1>2, ImageSmall

\* The packets between two counters are at most as many as their distance.
LEMMA WindowSmall ==
  ASSUME NEW a \in Nat, NEW b \in Nat, a <= b, NEW w
  PROVE  LET W == {w[x % PoolSize] : x \in a..b-1}
         IN  IsFiniteSet(W) /\ Cardinality(W) \in Nat /\ Cardinality(W) <= b - a
<1> DEFINE f == [x \in a..b-1 |-> w[x % PoolSize]]
<1>1. IsFiniteSet(a..b-1) /\ Cardinality(a..b-1) = b - a
  <2>1. a \in Int /\ b - 1 \in Int /\ a <= (b - 1) + 1 /\ (b - 1) - a + 1 = b - a
    BY SMT
  <2> QED
    BY <2>1, IntervalSize
<1>2. DOMAIN f = a..b-1 /\ f = [x \in DOMAIN f |-> f[x]]
  OBVIOUS
<1>3. Range(f) = {w[x % PoolSize] : x \in a..b-1}
  BY Zenon DEF Range
<1> HIDE DEF f
<1>4. /\ IsFiniteSet(Range(f)) /\ Cardinality(Range(f)) \in Nat
      /\ Cardinality(Range(f)) <= Cardinality(DOMAIN f)
  BY <1>1, <1>2, ImageSmall
<1> QED
  BY <1>1, <1>2, <1>3, <1>4

\* Five sets that hold every packet have PoolSize members between them.
LEMMA CoverIsLarge ==
  ASSUME NEW F, NEW H, NEW R, NEW P, NEW C, IsFiniteSet(F), IsFiniteSet(H),
         IsFiniteSet(R), IsFiniteSet(P), IsFiniteSet(C),
         Packets \subseteq F \cup H \cup R \cup P \cup C
  PROVE  PoolSize <= Cardinality(F) + Cardinality(H) + Cardinality(R)
                       + Cardinality(P) + Cardinality(C)
<1>1. ASSUME NEW A, NEW B, IsFiniteSet(A), IsFiniteSet(B)
      PROVE  /\ IsFiniteSet(A \cup B) /\ Cardinality(A) \in Nat /\ Cardinality(B) \in Nat
             /\ Cardinality(A \cup B) \in Nat
             /\ Cardinality(A \cup B) <= Cardinality(A) + Cardinality(B)
  <2>1. /\ IsFiniteSet(A \cup B)
        /\ Cardinality(A \cup B) = Cardinality(A) + Cardinality(B) - Cardinality(A \cap B)
    BY <1>1, FS_Union, Zenon
  <2>2. IsFiniteSet(A \cap B)
    BY <1>1, FS_Intersection, Zenon
  <2>3. Cardinality(A) \in Nat /\ Cardinality(B) \in Nat /\ Cardinality(A \cap B) \in Nat
        /\ Cardinality(A \cup B) \in Nat
    BY <1>1, <2>1, <2>2, FS_CardinalityType, Zenon
  <2> QED
    BY <2>1, <2>3, SMT
<1> DEFINE FH == F \cup H
           FHR == FH \cup R
           FHRP == FHR \cup P
           All == FHRP \cup C
<1>2. /\ IsFiniteSet(FH) /\ Cardinality(F) \in Nat /\ Cardinality(H) \in Nat
      /\ Cardinality(FH) \in Nat /\ Cardinality(FH) <= Cardinality(F) + Cardinality(H)
  BY <1>1, Zenon
<1> HIDE DEF FH
<1>3. /\ IsFiniteSet(FHR) /\ Cardinality(R) \in Nat
      /\ Cardinality(FHR) \in Nat /\ Cardinality(FHR) <= Cardinality(FH) + Cardinality(R)
  BY <1>1, <1>2, Zenon
<1> HIDE DEF FHR
<1>4. /\ IsFiniteSet(FHRP) /\ Cardinality(P) \in Nat
      /\ Cardinality(FHRP) \in Nat /\ Cardinality(FHRP) <= Cardinality(FHR) + Cardinality(P)
  BY <1>1, <1>3, Zenon
<1> HIDE DEF FHRP
<1>5. /\ IsFiniteSet(All) /\ Cardinality(C) \in Nat
      /\ Cardinality(All) \in Nat /\ Cardinality(All) <= Cardinality(FHRP) + Cardinality(C)
  BY <1>1, <1>4, Zenon
<1> HIDE DEF All
<1>6. Packets \subseteq All
  BY DEF All, FHRP, FHR, FH
<1>7. Cardinality(Packets) <= Cardinality(All)
  BY <1>5, <1>6, FS_Subset, Zenon
<1>8. Cardinality(Packets) = PoolSize
  BY FS_Interval, BatchAssumption, SMT DEF Packets
<1>9. PoolSize \in Nat
  BY BatchAssumption
<1> QED
  BY <1>2, <1>3, <1>4, <1>5, <1>7, <1>8, <1>9, SMT

\* The set S fits in n places.
Fits(S, n) == IsFiniteSet(S) /\ Cardinality(S) \in Nat /\ n \in Nat /\ Cardinality(S) <= n

\* Every packet is in one of five sets that fit in PoolSize places.
Cover(F, f, H, h, R, r, P, p, C, c) ==
  /\ Fits(F, f) /\ Fits(H, h) /\ Fits(R, r) /\ Fits(P, p) /\ Fits(C, c)
  /\ Packets \subseteq F \cup H \cup R \cup P \cup C
  /\ f + h + r + p + c = PoolSize

\* When there are just PoolSize places, every place is needed.
LEMMA CoverIsTight ==
  ASSUME NEW F, NEW H, NEW R, NEW P, NEW C, NEW f, NEW h, NEW r, NEW p, NEW c,
         Cover(F, f, H, h, R, r, P, p, C, c)
  PROVE  Cardinality(F) = f /\ Cardinality(H) = h /\ Cardinality(C) = c
<1>1. PoolSize <= Cardinality(F) + Cardinality(H) + Cardinality(R)
                    + Cardinality(P) + Cardinality(C)
  BY CoverIsLarge, Zenon DEF Fits, Cover
<1> QED
  BY <1>1, SMT DEF Fits, Cover

\* A sequence of packets fits in its positions.
LEMMA SeqFits ==
  ASSUME NEW s \in Seq(Packets)
  PROVE  Fits(Range(s), Len(s))
<1>1. Len(s) \in Nat
  BY SMT
<1> QED
  BY <1>1, SeqRangeSmall, Zenon DEF Fits
-----------------------------------------------------------------------------
(* What the conservation of packets says of each single packet: every place *)
(* is needed, so no packet is in two.                                      *)

Producers == Range(thr["producer"].pkts)
Burst == Range(thr["consumer"].pkts)

\* The sizes of the places.
LEMMA PlaceSizes ==
  ASSUME TypeOK
  PROVE  /\ Fits(FreePackets, fhead - ftail) /\ Fits(held, Cardinality(held))
         /\ Fits(Range(ring), Len(ring)) /\ Fits(Producers, Len(thr["producer"].pkts))
         /\ Fits(Burst, Len(thr["consumer"].pkts))
<1>1. /\ fhead \in Nat /\ ftail \in Nat /\ ftail <= fhead /\ ring \in Seq(Packets)
      /\ held \subseteq Packets /\ PoolSize \in Nat
      /\ thr["producer"].pkts \in Seq(Packets) /\ thr["consumer"].pkts \in Seq(Packets)
  BY BatchAssumption, SMT DEF TypeOK, Threads
<1>2. IsFiniteSet(Packets)
  BY <1>1, FS_Interval, SMT DEF Packets
<1>3. IsFiniteSet(held) /\ Cardinality(held) \in Nat
  BY <1>1, <1>2, FS_Subset, FS_CardinalityType, Zenon
<1>4. Fits(held, Cardinality(held))
  BY <1>3, SMT DEF Fits
<1>5. fhead - ftail \in Nat
  BY <1>1, SMT
<1>6. /\ IsFiniteSet(FreePackets) /\ Cardinality(FreePackets) \in Nat
      /\ Cardinality(FreePackets) <= fhead - ftail
  BY <1>1, WindowSmall, Zenon DEF FreePackets
<1>7. Fits(FreePackets, fhead - ftail)
  BY <1>5, <1>6, Zenon DEF Fits
<1> QED
  BY <1>1, <1>4, <1>7, SeqFits, Zenon DEF Producers, Burst

\* The packet alloc takes from the free list is in nobody's hands.
LEMMA FreeIsFree ==
  ASSUME TypeOK, PacketsConserved, fhead # ftail
  PROVE  slots[ftail % PoolSize] \notin held \cup Range(ring) \cup Producers \cup Burst
<1> DEFINE p == slots[ftail % PoolSize]
           F == {slots[x % PoolSize] : x \in ftail+1..fhead-1}
<1> SUFFICES ASSUME p \in held \cup Range(ring) \cup Producers \cup Burst PROVE FALSE
  OBVIOUS
<1>1. ftail + 1 \in Nat /\ fhead \in Nat /\ ftail + 1 <= fhead
  BY SMT DEF TypeOK
<1>2. IsFiniteSet(F) /\ Cardinality(F) \in Nat /\ Cardinality(F) <= fhead - (ftail + 1)
  BY <1>1, WindowSmall, Zenon
<1>3. FreePackets \subseteq F \cup {p}
  <2>1. \A x \in ftail..fhead-1 : x = ftail \/ x \in ftail+1..fhead-1
    BY <1>1, SMT DEF TypeOK
  <2> QED
    BY <2>1, Zenon DEF FreePackets
<1>4. Packets \subseteq F \cup held \cup Range(ring) \cup Producers \cup Burst
  <2>1. FreePackets \cup held \cup Range(ring) \cup Producers \cup Burst = Packets
    BY DEF PacketsConserved, Producers, Burst
  <2> HIDE DEF F, p
  <2> QED
    BY <1>3, <2>1, Zenon
<1> HIDE DEF F, p
<1>5. Fits(F, fhead - ftail) /\ fhead \in Nat /\ ftail \in Nat
  BY <1>1, <1>2, SMT DEF TypeOK, Fits
<1>6. Cover(F, fhead - ftail, held, Cardinality(held),
            Range(ring), Len(ring), Producers, Len(thr["producer"].pkts), Burst, Len(thr["consumer"].pkts))
  BY <1>4, <1>5, PlaceSizes, Zenon DEF Cover, PacketsConserved
<1>7. Cardinality(F) = fhead - ftail
  BY <1>6, CoverIsTight, SMT
<1> QED
  BY <1>2, <1>5, <1>7, SMT

\* A packet its caller still holds is in no queue.
LEMMA HeldIsHeld ==
  ASSUME TypeOK, PacketsConserved, NEW p \in held
  PROVE  p \notin Range(ring) \cup Burst
<1> DEFINE H == held \ {p}
<1> SUFFICES ASSUME p \in Range(ring) \cup Burst PROVE FALSE
  OBVIOUS
<1>1. IsFiniteSet(held) /\ Cardinality(held) \in Nat
  BY PlaceSizes DEF Fits
<1>2. IsFiniteSet(H) /\ Cardinality(H) = Cardinality(held) - 1
  BY <1>1, FS_RemoveElement
<1>3. Packets \subseteq FreePackets \cup H \cup Range(ring) \cup Producers \cup Burst
  <2>1. FreePackets \cup held \cup Range(ring) \cup Producers \cup Burst = Packets
    BY DEF PacketsConserved, Producers, Burst
  <2> QED
    BY <2>1, Zenon
<1> HIDE DEF H
<1>4. Cardinality(H) \in Nat
  BY <1>2, FS_CardinalityType, Zenon
<1>5. Fits(H, Cardinality(held))
  BY <1>1, <1>2, <1>4, SMT DEF Fits
<1>6. Cover(FreePackets, fhead - ftail, H, Cardinality(held),
            Range(ring), Len(ring), Producers, Len(thr["producer"].pkts), Burst, Len(thr["consumer"].pkts))
  BY <1>3, <1>5, PlaceSizes, Zenon DEF Cover, PacketsConserved
<1>7. Cardinality(H) = Cardinality(held)
  BY <1>6, CoverIsTight, SMT
<1> QED
  BY <1>1, <1>2, <1>7, SMT

\* A packet of a burst is in it once, and no longer in the ring.
LEMMA BurstIsDistinct ==
  ASSUME TypeOK, PacketsConserved, NEW j \in 1..Len(thr["consumer"].pkts)
  PROVE  /\ thr["consumer"].pkts[j] \notin Range(ring)
         /\ \A k \in 1..Len(thr["consumer"].pkts) :
              thr["consumer"].pkts[k] = thr["consumer"].pkts[j] => k = j
<1>1. PICK s : s = thr["consumer"].pkts
  OBVIOUS
<1>2. s \in Seq(Packets)
  BY <1>1, SMT DEF TypeOK, Threads
<1> DEFINE f == [k \in 1..Len(s) \ {j} |-> s[k]]
<1> SUFFICES ASSUME s[j] \in Range(ring) \/ \E k \in 1..Len(s) : s[k] = s[j] /\ k # j PROVE FALSE
  BY <1>1, Zenon
<1>3. Len(s) \in Nat /\ DOMAIN s = 1..Len(s) /\ j \in 1..Len(s)
  BY <1>1, <1>2, SMT
<1>4. IsFiniteSet(1..Len(s) \ {j}) /\ Cardinality(1..Len(s) \ {j}) = Len(s) - 1
  <2>1. 1 \in Int /\ Len(s) \in Int /\ 1 <= Len(s) + 1 /\ Len(s) - 1 + 1 = Len(s)
    BY <1>3, SMT
  <2>2. IsFiniteSet(1..Len(s)) /\ Cardinality(1..Len(s)) = Len(s)
    BY <2>1, IntervalSize
  <2>3. /\ IsFiniteSet(1..Len(s) \ {j})
        /\ Cardinality(1..Len(s) \ {j}) = IF j \in 1..Len(s) THEN Cardinality(1..Len(s)) - 1
                                                             ELSE Cardinality(1..Len(s))
    BY <2>2, FS_RemoveElement, Zenon
  <2> QED
    BY <2>2, <2>3, <1>3, Zenon
<1>5. DOMAIN f = 1..Len(s) \ {j} /\ f = [k \in DOMAIN f |-> f[k]]
  OBVIOUS
<1>6. Range(s) \subseteq Range(f) \cup {s[j]}
  BY <1>3, Zenon DEF Range
<1>7. s[j] \in Range(f) \cup Range(ring)
  BY <1>5, Zenon DEF Range
<1>8. Packets \subseteq FreePackets \cup held \cup Range(ring) \cup Producers \cup Range(f)
  <2>1. FreePackets \cup held \cup Range(ring) \cup Producers \cup Range(s) = Packets
    BY <1>1 DEF PacketsConserved, Producers
  <2> HIDE DEF f
  <2> QED
    BY <1>6, <1>7, <2>1, Zenon
<1> HIDE DEF f
<1>9. IsFiniteSet(Range(f)) /\ Cardinality(Range(f)) \in Nat /\ Cardinality(Range(f)) <= Len(s) - 1
  BY <1>4, <1>5, ImageSmall
<1>10. Fits(Range(f), Len(s))
  BY <1>3, <1>9, SMT DEF Fits
<1>11. Cover(FreePackets, fhead - ftail, held, Cardinality(held),
            Range(ring), Len(ring), Producers, Len(thr["producer"].pkts), Range(f), Len(s))
  BY <1>1, <1>8, <1>10, PlaceSizes, Zenon DEF Cover, PacketsConserved
<1>12. Cardinality(Range(f)) = Len(s)
  BY <1>11, CoverIsTight, SMT
<1> QED
  BY <1>3, <1>9, <1>12, SMT

-----------------------------------------------------------------------------
(* The inductive invariant of the pool, action by action.                  *)

\* At most one thread is inside a free: with a large ring send never drops,
\* and a single thread finishes one call before the next.
SoleFreer ==
  /\ \A t \in Threads : thr[t].pc = "outside" => thr[t] = Outside
  /\ thr["producer"].pc # "outside" => deployment.serial /\ thr["consumer"].pc = "outside"
  /\ thr["producer"].pc # "handle"

\* The thread inside a free has loaded the current head_, and the slots it has
\* written above it hold its packets.
SlotsWritten ==
  \A t \in Threads : thr[t].pc = "freeWrite" =>
    /\ thr[t].h = fhead
    /\ \A k \in 1..thr[t].i : slots[(fhead + k - 1) % PoolSize] = thr[t].pkts[k]

\* The inductive invariant.
PoolInv == Supported /\ TypeOK /\ SoleFreer /\ SlotsWritten /\ PacketsConserved

ThreadState == [pc : {"outside", "handle", "freeLoad", "freeWrite"},
                pkts : Seq(Packets), h : Nat, i : Nat]

\* What TypeOK says of the counters and of a thread, in the shape used below.
LEMMA TypeFacts ==
  ASSUME TypeOK
  PROVE  /\ fhead \in Nat /\ ftail \in Nat /\ ftail <= fhead /\ PoolSize \in Nat \ {0}
         /\ fhead - ftail <= PoolSize
         /\ thr \in [Threads -> ThreadState] /\ ring \in Seq(Packets) /\ Len(ring) \in Nat
         /\ \A t \in Threads : /\ thr[t] \in ThreadState /\ thr[t].pkts \in Seq(Packets)
                                /\ thr[t].h \in Nat /\ thr[t].i \in Nat /\ Len(thr[t].pkts) \in Nat
                                /\ thr[t].i <= Len(thr[t].pkts) /\ Len(thr[t].pkts) <= BURST_SIZE
         /\ "producer" \in Threads /\ "consumer" \in Threads
<1>1. /\ fhead \in Nat /\ ftail \in Nat /\ ftail <= fhead /\ PoolSize \in Nat \ {0}
      /\ fhead - ftail <= PoolSize
  BY BatchAssumption, SMT DEF TypeOK
<1>2. thr \in [Threads -> ThreadState] /\ ring \in Seq(Packets) /\ Len(ring) \in Nat
  BY SMT DEF TypeOK, ThreadState
<1>3. \A t \in Threads : /\ thr[t] \in ThreadState /\ thr[t].pkts \in Seq(Packets)
                         /\ thr[t].h \in Nat /\ thr[t].i \in Nat /\ Len(thr[t].pkts) \in Nat
                         /\ thr[t].i <= Len(thr[t].pkts) /\ Len(thr[t].pkts) <= BURST_SIZE
  BY <1>2, SMT DEF TypeOK, ThreadState
<1>4. "producer" \in Threads /\ "consumer" \in Threads
  BY DEF Threads
<1> QED
  BY <1>1, <1>2, <1>3, <1>4, Zenon

\* A length is a number.
LEMMA LenIsNat ==
  ASSUME TypeOK
  PROVE  \A p \in Packets : len[p] \in Nat
<1>1. len \in [Packets -> Lens \cup {0}] /\ Lens \subseteq Nat
  BY BatchAssumption DEF TypeOK
<1>2. \A p \in Packets : len[p] \in Lens \/ len[p] = 0
  BY <1>1, Zenon
<1>3. 0 \in Nat
  BY SMT
<1> QED
  BY <1>1, <1>2, <1>3, Zenon

\* A thread inside a call has the pool's enqueue side to itself.
LEMMA OtherIsOutside ==
  ASSUME SoleFreer, NEW t \in Threads, NEW u \in Threads, u # t,
         thr[t].pc # "outside"
  PROVE  thr[u].pc = "outside" /\ thr[u] = Outside
  BY SMT DEF SoleFreer, Threads

\* The packets in hand fit in the free list.
LEMMA HandFits ==
  ASSUME TypeOK, PacketsConserved, NEW t \in Threads
  PROVE  fhead - ftail + Len(thr[t].pkts) <= PoolSize
<1>1. /\ fhead - ftail \in Nat /\ Cardinality(held) \in Nat /\ Len(ring) \in Nat
      /\ Len(thr["producer"].pkts) \in Nat /\ Len(thr["consumer"].pkts) \in Nat
  BY PlaceSizes, Zenon DEF Fits
<1>2. fhead - ftail + Cardinality(held) + Len(ring)
        + Len(thr["producer"].pkts) + Len(thr["consumer"].pkts) = PoolSize
  BY DEF PacketsConserved
<1>3. ASSUME NEW f \in Nat, NEW h \in Nat, NEW r \in Nat, NEW p \in Nat, NEW c \in Nat,
             f + h + r + p + c = PoolSize
      PROVE  f + p <= PoolSize /\ f + c <= PoolSize
  BY <1>3, SMT
<1>4. /\ fhead - ftail + Len(thr["producer"].pkts) <= PoolSize
      /\ fhead - ftail + Len(thr["consumer"].pkts) <= PoolSize
  BY <1>1, <1>2, <1>3, Zenon
<1> QED
  BY <1>4, Zenon DEF Threads

\* A ring as large as the pool has room for any packet still held.
LEMMA RoomForHeld ==
  ASSUME TypeOK, PacketsConserved, NEW p \in held
  PROVE  Len(ring) < PoolSize
<1>1. /\ fhead - ftail \in Nat /\ Cardinality(held) \in Nat /\ Len(ring) \in Nat
      /\ Len(thr["producer"].pkts) \in Nat /\ Len(thr["consumer"].pkts) \in Nat
      /\ IsFiniteSet(held)
  BY PlaceSizes, Zenon DEF Fits
<1>2. fhead - ftail + Cardinality(held) + Len(ring)
        + Len(thr["producer"].pkts) + Len(thr["consumer"].pkts) = PoolSize
  BY DEF PacketsConserved
<1>3. Cardinality(held) # 0
  BY <1>1, FS_EmptySet, Zenon
<1>4. ASSUME NEW f \in Nat, NEW h \in Nat, NEW r \in Nat, NEW q \in Nat, NEW c \in Nat,
             f + h + r + q + c = PoolSize, h # 0
      PROVE  r < PoolSize
  BY <1>4, SMT
<1> QED
  BY <1>1, <1>2, <1>3, <1>4, Zenon

\* The constructor leaves every packet in the free list (memory_pool.h:35-39).
LEMMA PoolInvInit ==
  ASSUME Init, Supported
  PROVE  PoolInv
<1>0. PoolSize \in Nat \ {0} /\ BURST_SIZE \in Nat \ {0} /\ MaxAllocs \in Nat
  BY BatchAssumption
<1>1. \A t \in Threads : thr[t] = Outside
  BY DEF Init
<1>2. TypeOK
  <2>1. Outside \in ThreadState /\ Len(Outside.pkts) = 0 /\ Outside.i = 0
    BY SMT DEF Outside, ThreadState
  <2>2. thr \in [Threads -> ThreadState]
    BY <2>1, Zenon DEF Init
  <2>3. \A t \in Threads : Len(thr[t].pkts) <= BURST_SIZE /\ thr[t].i <= Len(thr[t].pkts)
    BY <2>1, <1>0, <1>1, SMT
  <2>4. deployment \in Deployments /\ deployment.ring \in Nat
    BY BatchAssumption, SMT DEF Init
  <2>5. ring \in Seq(Packets) /\ Len(ring) <= deployment.ring
    BY <2>4, SMT DEF Init
  <2>6. slots \in [0..PoolSize-1 -> Packets]
    BY <1>0, SMT DEF Init, Packets
  <2> QED
    BY <1>0, <2>2, <2>3, <2>4, <2>5, <2>6, SMT DEF TypeOK, Init, ThreadState
<1>3. SoleFreer /\ SlotsWritten
  BY <1>1, SMT DEF SoleFreer, SlotsWritten, Outside, Threads
<1>4. FreePackets = Packets
  <2>0. ftail..fhead-1 = 0..PoolSize-1
    BY Zenon DEF Init
  <2>a. \A x \in 0..PoolSize-1 : x % PoolSize = x /\ x + 1 \in Packets
    BY <1>0, SMT DEF Packets
  <2>b. \A x \in 0..PoolSize-1 : slots[x] = x + 1
    BY Zenon DEF Init
  <2>1. \A x \in ftail..fhead-1 : slots[x % PoolSize] = x + 1 /\ x + 1 \in Packets
    BY <2>0, <2>a, <2>b, Zenon
  <2>2. \A p \in Packets : p - 1 \in ftail..fhead-1 /\ (p - 1) + 1 = p
    BY <1>0, SMT DEF Init, Packets
  <2>3. \A p \in Packets : slots[(p - 1) % PoolSize] = p
    BY <2>1, <2>2, Zenon
  <2>4. FreePackets \subseteq Packets
    BY <2>1, SMT DEF FreePackets
  <2>5. Packets \subseteq FreePackets
    BY <2>2, <2>3, SMT DEF FreePackets
  <2> QED
    BY <2>4, <2>5
<1>5. Range(<<>>) = {} /\ Len(<<>>) = 0
  BY SMT DEF Range
<1>6. Cardinality(held) = 0 /\ held = {} /\ ring = <<>> /\ fhead - ftail = PoolSize
  BY <1>0, FS_EmptySet, SMT DEF Init
<1>7. thr["producer"].pkts = <<>> /\ thr["consumer"].pkts = <<>>
  BY <1>1, SMT DEF Outside, Threads
<1>8. PacketsConserved
  BY <1>0, <1>4, <1>5, <1>6, <1>7, SMT DEF PacketsConserved
<1> QED
  BY <1>2, <1>3, <1>8 DEF PoolInv

\* alloc_packet moves one packet from the free list to its caller
\* (packet_processor.h:82, memory_pool.h:47-54).
LEMMA AllocKeeps ==
  ASSUME PoolInv, alloc_packet
  PROVE  PoolInv'
<1> USE DEF PoolInv
<1>0. /\ fhead \in Nat /\ ftail \in Nat /\ ftail < fhead /\ PoolSize \in Nat \ {0}
      /\ fhead - ftail <= PoolSize
  BY TypeFacts, SMT DEF alloc_packet, FreeListEmpty
<1>1. PICK p : p = slots[ftail % PoolSize]
  OBVIOUS
<1>2. /\ p \in Packets /\ p \in FreePackets
      /\ p \notin held \cup Range(ring) \cup Producers \cup Burst
  <2>1. ftail % PoolSize \in 0..PoolSize-1
    BY <1>0, FreeSlotType
  <2>2. ftail \in ftail..fhead-1 /\ fhead # ftail
    BY <1>0, SMT
  <2> QED
    BY <1>1, <2>1, <2>2, FreeIsFree, Zenon DEF TypeOK, FreePackets
<1>3. /\ held' = held \cup {p} /\ ftail' = ftail + 1 /\ total_allocs' = total_allocs + 1
      /\ UNCHANGED <<deployment, ring, slots, fhead, thr, stats, accepted>>
      /\ total_allocs < MaxAllocs
  BY <1>1, Zenon DEF alloc_packet
<1>4. FreePackets = FreePackets' \cup {p}
  <2>1. \A x \in ftail..fhead-1 : x = ftail \/ x \in ftail+1..fhead-1
    BY <1>0, SMT
  <2>2. \A x \in ftail+1..fhead-1 : x \in ftail..fhead-1
    BY <1>0, SMT
  <2>3. FreePackets' = {slots[x % PoolSize] : x \in ftail+1..fhead-1}
    BY <1>3, Zenon DEF FreePackets
  <2>4. FreePackets \subseteq FreePackets' \cup {p}
    BY <1>1, <2>1, <2>3, Zenon DEF FreePackets
  <2>5. FreePackets' \subseteq FreePackets
    BY <2>2, <2>3, Zenon DEF FreePackets
  <2> QED
    BY <1>2, <2>4, <2>5, Zenon
<1>5. Cardinality(held') = Cardinality(held) + 1 /\ Cardinality(held) \in Nat
  <2>1. IsFiniteSet(held) /\ Cardinality(held) \in Nat
    BY PlaceSizes, Zenon DEF Fits
  <2> QED
    BY <2>1, <1>2, <1>3, FS_AddElement, Zenon
<1>6. TypeOK'
  <2>1. len' \in [Packets -> Lens \cup {0}]
    BY <1>1, <1>2, SMT DEF alloc_packet, TypeOK
  <2>2. fhead' \in Nat /\ ftail' \in Nat /\ fhead' - ftail' \in 0..PoolSize
    BY <1>0, <1>3, SMT
  <2>3. total_allocs' \in 0..MaxAllocs
    BY <1>3, BatchAssumption, SMT DEF TypeOK
  <2>4. held' \subseteq Packets
    BY <1>2, <1>3, Zenon DEF TypeOK
  <2> QED
    BY <1>3, <2>1, <2>2, <2>3, <2>4, Zenon DEF TypeOK
<1>7. SoleFreer' /\ SlotsWritten' /\ Supported'
  BY <1>3, Zenon DEF SoleFreer, SlotsWritten, Supported
<1>8. PacketsConserved'
  <2>1. (FreePackets \cup held \cup Range(ring) \cup Range(thr["producer"].pkts)
           \cup Range(thr["consumer"].pkts))' = Packets
    BY <1>3, <1>4, Zenon DEF PacketsConserved
  <2>2. fhead - (ftail + 1) + (Cardinality(held) + 1) = fhead - ftail + Cardinality(held)
    BY <1>0, <1>5, SMT
  <2>3. (fhead - ftail + Cardinality(held) + Len(ring) + Len(thr["producer"].pkts)
           + Len(thr["consumer"].pkts))' = PoolSize
    BY <1>3, <1>5, <2>2, Zenon DEF PacketsConserved
  <2> QED
    BY <2>1, <2>3, Zenon DEF PacketsConserved
<1> QED
  BY <1>6, <1>7, <1>8, Zenon

\* send moves a packet from its caller to the ring, or to the producer's free
\* (packet_processor.h:72-79).
LEMMA SendKeeps ==
  ASSUME PoolInv, NEW p \in Packets, send(p)
  PROVE  PoolInv'
<1> USE DEF PoolInv
<1>0. /\ p \in held /\ held' = held \ {p} /\ thr["producer"] = Outside
      /\ UNCHANGED <<deployment, slots, fhead, ftail, total_allocs, len>>
  BY Zenon DEF send, MayCall, SoleFreer, Threads, poolVars
<1>1. PICK n : n = Cardinality(held)
  OBVIOUS
<1>2. n \in Nat /\ n # 0 /\ Cardinality(held') = n - 1
  <2>1. IsFiniteSet(held) /\ Cardinality(held) \in Nat
    BY PlaceSizes, Zenon DEF Fits
  <2>2. n # 0
    BY <1>0, <1>1, <2>1, FS_EmptySet, Zenon
  <2> QED
    BY <2>1, <2>2, <1>0, <1>1, FS_RemoveElement
<1>3. held' \subseteq Packets /\ held = held' \cup {p} /\ FreePackets' = FreePackets
  BY <1>0, Zenon DEF TypeOK, FreePackets
<1>4. CASE RingFull /\ Drop(p) /\ UNCHANGED <<ring, accepted>>
  <2>1. deployment.serial /\ \A u \in Threads : thr[u] = Outside
    <3>1. Len(ring) < PoolSize /\ Len(ring) \in Nat /\ PoolSize \in Nat
      BY <1>0, RoomForHeld, TypeFacts, Zenon
    <3>2. Len(ring) >= deployment.ring /\ deployment.ring \in Nat
      BY <1>4, BatchAssumption, SMT DEF RingFull, TypeOK
    <3>3. ~(deployment.ring >= PoolSize)
      BY <3>1, <3>2, SMT
    <3> QED
      BY <3>3, Zenon DEF Supported, send, MayCall, SoleFreer
  <2> DEFINE d == [pc |-> "freeLoad", pkts |-> <<p>>, h |-> 0, i |-> 0]
  <2>2. thr' = [thr EXCEPT !["producer"] = d]
    <3>1. thr' = [thr EXCEPT !["producer"].pc = "freeLoad", !["producer"].pkts = <<p>>]
      BY <1>4, Zenon DEF Drop
    <3>2. thr \in [Threads -> ThreadState] /\ "producer" \in Threads
      BY TypeFacts, Zenon
    <3>3. thr["producer"] = [pc |-> "outside", pkts |-> <<>>, h |-> 0, i |-> 0]
      BY <1>0, Zenon DEF Outside
    <3> QED
      BY <3>1, <3>2, <3>3, SMT
  <2>3. d \in ThreadState /\ Len(d.pkts) = 1 /\ d.i = 0 /\ d.pkts = <<p>> /\ d.pc = "freeLoad"
    BY SMT DEF ThreadState
  <2>4. Range(<<p>>) = {p}
    BY SMT DEF Range
  <2> HIDE DEF d
  <2>5. /\ thr' \in [Threads -> ThreadState] /\ thr'["producer"] = d
        /\ thr'["consumer"] = Outside
    BY <2>1, <2>2, <2>3, TypeFacts, SMT DEF Threads
  <2>6. Len(Outside.pkts) = 0 /\ Outside.i = 0 /\ Outside.pc = "outside" /\ Range(Outside.pkts) = {}
    BY SMT DEF Outside, Range
  <2>7. \A t \in Threads : (Len(thr[t].pkts) <= BURST_SIZE /\ thr[t].i <= Len(thr[t].pkts))'
    <3>1. BURST_SIZE \in Nat /\ 1 <= BURST_SIZE
      BY BatchAssumption, SMT
    <3>2. \A t \in Threads : thr'[t] = d \/ thr'[t] = Outside
      BY <2>5, Zenon DEF Threads
    <3>3. /\ Len(d.pkts) <= BURST_SIZE /\ d.i <= Len(d.pkts)
          /\ Len(Outside.pkts) <= BURST_SIZE /\ Outside.i <= Len(Outside.pkts)
      BY <2>3, <2>6, <3>1, SMT
    <3> QED
      BY <3>2, <3>3, Zenon
  <2>8. stats' \in [pkts_processed : Nat, pkts_dropped : Nat, bytes_processed : Nat, bursts : Nat]
    <3>1. /\ stats \in [pkts_processed : Nat, pkts_dropped : Nat, bytes_processed : Nat, bursts : Nat]
          /\ stats' = [stats EXCEPT !.pkts_dropped = @ + 1]
      BY <1>4, Zenon DEF Drop, TypeOK
    <3> QED
      BY <3>1, SMT
  <2>9. TypeOK'
    BY <1>0, <1>3, <1>4, <2>5, <2>7, <2>8, Zenon DEF TypeOK, ThreadState
  <2>10. SoleFreer' /\ SlotsWritten' /\ Supported'
    <3>1. \A t \in Threads : thr'[t] = d \/ thr'[t] = Outside
      BY <2>5, Zenon DEF Threads
    <3> QED
      BY <1>0, <2>1, <2>3, <2>5, <2>6, <3>1, SMT DEF SoleFreer, SlotsWritten, Supported
  <2>11. PacketsConserved'
    <3>1. /\ thr["producer"].pkts = Outside.pkts /\ thr["consumer"].pkts = Outside.pkts
          /\ thr'["producer"].pkts = <<p>> /\ thr'["consumer"].pkts = Outside.pkts
      BY <2>1, <2>3, <2>5, Zenon DEF Threads
    <3>2. (FreePackets \cup held \cup Range(ring) \cup Range(thr["producer"].pkts)
             \cup Range(thr["consumer"].pkts))' = Packets
      BY <1>3, <1>4, <2>4, <2>6, <3>1, Zenon DEF PacketsConserved
    <3>3. Len(ring) \in Nat /\ fhead \in Nat /\ ftail \in Nat /\ Len(<<p>>) = 1
      BY TypeFacts, SMT
    <3>4. fhead - ftail + n + Len(ring) + 0 + 0 = PoolSize
      BY <1>1, <2>6, <3>1, Zenon DEF PacketsConserved
    <3>5. fhead - ftail + (n - 1) + Len(ring) + 1 + 0 = PoolSize
      BY <1>2, <3>3, <3>4, SMT
    <3>6. (fhead - ftail + Cardinality(held) + Len(ring) + Len(thr["producer"].pkts)
             + Len(thr["consumer"].pkts))' = PoolSize
      BY <1>0, <1>2, <1>4, <2>6, <3>1, <3>3, <3>5, Zenon
    <3> QED
      BY <3>2, <3>6, Zenon DEF PacketsConserved
  <2> QED
    BY <2>9, <2>10, <2>11, Zenon
<1>5. CASE /\ ~RingFull /\ ring' = Append(ring, p) /\ accepted' = accepted + len[p]
           /\ UNCHANGED <<stats, thr>>
  <2>1. ring \in Seq(Packets) /\ Len(ring) \in Nat
    BY TypeFacts
  <2>2. /\ ring' \in Seq(Packets) /\ Len(ring') = Len(ring) + 1
        /\ Range(ring') = Range(ring) \cup {p}
    BY <1>5, <2>1, RangeAppend, Zenon
  <2>3. Len(ring') <= deployment'.ring
    <3>1. deployment.ring \in Nat
      BY BatchAssumption, SMT DEF TypeOK
    <3> QED
      BY <1>0, <1>5, <2>1, <2>2, <3>1, SMT DEF RingFull
  <2>4. accepted' \in Nat
    <3>1. len[p] \in Nat
      BY LenIsNat
    <3> QED
      BY <1>5, <3>1, SMT DEF TypeOK
  <2>5. TypeOK'
    BY <1>0, <1>3, <1>5, <2>2, <2>3, <2>4, Zenon DEF TypeOK
  <2>6. SoleFreer' /\ SlotsWritten' /\ Supported'
    BY <1>0, <1>5, Zenon DEF SoleFreer, SlotsWritten, Supported
  <2>7. PacketsConserved'
    <3>1. (FreePackets \cup held \cup Range(ring) \cup Range(thr["producer"].pkts)
             \cup Range(thr["consumer"].pkts))' = Packets
      BY <1>3, <1>5, <2>2, Zenon DEF PacketsConserved
    <3>2. fhead \in Nat /\ ftail \in Nat
      BY TypeFacts
    <3>3. fhead - ftail + (n - 1) + (Len(ring) + 1) = fhead - ftail + n + Len(ring)
      BY <1>2, <2>1, <3>2, SMT
    <3>4. (fhead - ftail + Cardinality(held) + Len(ring) + Len(thr["producer"].pkts)
             + Len(thr["consumer"].pkts))' = PoolSize
      BY <1>0, <1>1, <1>2, <1>5, <2>2, <3>3, Zenon DEF PacketsConserved
    <3> QED
      BY <3>1, <3>4, Zenon DEF PacketsConserved
  <2> QED
    BY <2>5, <2>6, <2>7, Zenon
<1> QED
  BY <1>4, <1>5, Zenon DEF send

\* process_burst takes a burst off the ring (packet_processor.h:86-89).
LEMMA ProcessKeeps ==
  ASSUME PoolInv, process_burst
  PROVE  PoolInv'
<1> USE DEF PoolInv
<1>0. /\ thr["consumer"] = Outside /\ thr["producer"] = Outside
      /\ UNCHANGED <<deployment, slots, fhead, ftail, total_allocs, len, held, stats, accepted>>
  BY Zenon DEF process_burst, MayCall, SoleFreer, Threads, poolVars
<1>1. PICK n : n = IF BURST_SIZE < Len(ring) THEN BURST_SIZE ELSE Len(ring)
  OBVIOUS
<1> DEFINE a == SubSeq(ring, 1, n)
           d == [Outside EXCEPT !.pc = "handle", !.pkts = a]
<1>2. /\ ring \in Seq(Packets) /\ Len(ring) \in Nat /\ n \in 0..Len(ring) /\ n <= BURST_SIZE
      /\ BURST_SIZE \in Nat
  <2>1. ring \in Seq(Packets) /\ Len(ring) \in Nat
    BY TypeFacts
  <2> QED
    BY <2>1, <1>1, BatchAssumption, SMT
<1>3. ring' = SubSeq(ring, n + 1, Len(ring)) /\ thr' = [thr EXCEPT !["consumer"] = d]
  BY <1>1, Zenon DEF process_burst
<1>4. /\ a \in Seq(Packets) /\ Len(a) = n /\ ring' \in Seq(Packets)
      /\ Len(ring') = Len(ring) - n /\ Range(ring) = Range(a) \cup Range(ring')
  BY <1>2, <1>3, RangeSplit, Zenon
<1> HIDE DEF a
<1>5. d \in ThreadState /\ d.pkts = a /\ d.i = 0 /\ d.pc = "handle"
  <2>1. Outside \in ThreadState /\ Outside.i = 0 /\ a \in Seq(Packets)
    BY <1>4, SMT DEF ThreadState, Outside
  <2> QED
    BY <2>1, Zenon DEF ThreadState
<1> HIDE DEF d
<1>6. /\ thr' \in [Threads -> ThreadState] /\ thr'["consumer"] = d
      /\ thr'["producer"] = Outside
  BY <1>0, <1>3, <1>5, TypeFacts, SMT DEF Threads
<1>7. Len(Outside.pkts) = 0 /\ Outside.i = 0 /\ Outside.pc = "outside" /\ Range(Outside.pkts) = {}
  BY SMT DEF Outside, Range
<1>8. \A t \in Threads : thr'[t] = d \/ thr'[t] = Outside
  BY <1>6, Zenon DEF Threads
<1>9. TypeOK'
  <2>1. /\ Len(d.pkts) <= BURST_SIZE /\ d.i <= Len(d.pkts)
        /\ Len(Outside.pkts) <= BURST_SIZE /\ Outside.i <= Len(Outside.pkts)
    BY <1>2, <1>4, <1>5, <1>7, SMT
  <2>2. \A t \in Threads : (Len(thr[t].pkts) <= BURST_SIZE /\ thr[t].i <= Len(thr[t].pkts))'
    BY <1>8, <2>1, Zenon
  <2>3. Len(ring) <= deployment.ring /\ deployment.ring \in Nat
    BY BatchAssumption, SMT DEF TypeOK
  <2>4. Len(ring') <= deployment'.ring
    BY <1>0, <1>2, <1>4, <2>3, SMT
  <2> QED
    BY <1>0, <1>4, <1>6, <2>2, <2>4, Zenon DEF TypeOK, ThreadState
<1>10. SoleFreer' /\ SlotsWritten' /\ Supported'
  BY <1>0, <1>5, <1>6, <1>7, <1>8, SMT DEF SoleFreer, SlotsWritten, Supported
<1>11. PacketsConserved'
  <2>1. /\ thr["producer"].pkts = Outside.pkts /\ thr["consumer"].pkts = Outside.pkts
        /\ thr'["producer"].pkts = Outside.pkts /\ thr'["consumer"].pkts = a
    BY <1>0, <1>5, <1>6, Zenon
  <2>2. FreePackets' = FreePackets
    BY <1>0, Zenon DEF FreePackets
  <2>3. (FreePackets \cup held \cup Range(ring) \cup Range(thr["producer"].pkts)
           \cup Range(thr["consumer"].pkts))' = Packets
    BY <1>0, <1>4, <1>7, <2>1, <2>2, Zenon DEF PacketsConserved
  <2>4. fhead \in Nat /\ ftail \in Nat /\ Cardinality(held) \in Nat
    BY TypeFacts, PlaceSizes, Zenon DEF Fits
  <2>5. fhead - ftail + Cardinality(held) + Len(ring) + 0 + 0 = PoolSize
    BY <1>7, <2>1, Zenon DEF PacketsConserved
  <2>6. fhead - ftail + Cardinality(held) + (Len(ring) - n) + 0 + n = PoolSize
    BY <1>2, <2>4, <2>5, SMT
  <2>7. (fhead - ftail + Cardinality(held) + Len(ring) + Len(thr["producer"].pkts)
           + Len(thr["consumer"].pkts))' = PoolSize
    BY <1>0, <1>4, <1>7, <2>1, <2>6, Zenon
  <2> QED
    BY <2>3, <2>7, Zenon DEF PacketsConserved
<1> QED
  BY <1>9, <1>10, <1>11, Zenon

\* A step that keeps the packets a thread has in hand and everything the pool
\* is made of keeps the places as they are.
LEMMA SamePlaces ==
  ASSUME PacketsConserved, UNCHANGED <<ring, slots, fhead, ftail, held>>,
         thr'["producer"].pkts = thr["producer"].pkts,
         thr'["consumer"].pkts = thr["consumer"].pkts
  PROVE  PacketsConserved'
<1>1. FreePackets' = FreePackets
  BY Zenon DEF FreePackets
<1> QED
  BY <1>1, Zenon DEF PacketsConserved

\* The handler loop and the counters behind it leave the burst where it is
\* (packet_processor.h:91-96).
LEMMA HandleKeeps ==
  ASSUME PoolInv, HandleOne \/ FinishBurst
  PROVE  PoolInv'
<1> USE DEF PoolInv
<1>0. /\ thr["consumer"].pc = "handle" /\ thr["producer"] = Outside
      /\ UNCHANGED <<deployment, ring, slots, fhead, ftail, total_allocs, len, held, accepted>>
  <2>1. /\ thr["consumer"].pc = "handle"
        /\ UNCHANGED <<deployment, ring, slots, fhead, ftail, total_allocs, len, held, accepted>>
    BY Zenon DEF HandleOne, FinishBurst, poolVars
  <2>2. thr["consumer"].pc # "outside"
    BY <2>1
  <2> QED
    BY <2>1, <2>2, OtherIsOutside, Zenon DEF Threads
<1>1. PICK c : c = thr["consumer"]
  OBVIOUS
<1>2. /\ c \in ThreadState /\ c.i \in Nat /\ Len(c.pkts) \in Nat /\ Len(c.pkts) <= BURST_SIZE
      /\ c.i <= Len(c.pkts) /\ thr \in [Threads -> ThreadState] /\ c.pkts \in Seq(Packets)
  BY <1>1, TypeFacts, Zenon
<1>3. PICK d : /\ d \in ThreadState /\ d.pkts = c.pkts /\ d.i <= Len(c.pkts)
               /\ d.pc \in {"handle", "freeLoad"} /\ thr' = [thr EXCEPT !["consumer"] = d]
  <2>1. CASE HandleOne
    <3>1. thr' = [thr EXCEPT !["consumer"].i = @ + 1] /\ c.i < Len(c.pkts) /\ c.pc = "handle"
      BY <1>1, <2>1, Zenon DEF HandleOne
    <3> DEFINE d == [c EXCEPT !.i = @ + 1]
    <3>2. /\ d \in ThreadState /\ d.pkts = c.pkts /\ d.i <= Len(c.pkts) /\ d.pc = c.pc
      BY <1>2, <3>1, SMT DEF ThreadState
    <3>3. thr' = [thr EXCEPT !["consumer"] = d]
      BY <1>1, <1>2, <3>1, SMT DEF Threads, ThreadState
    <3> HIDE DEF d
    <3> QED
      BY <3>1, <3>2, <3>3, Zenon
  <2>2. CASE FinishBurst
    <3>1. thr' = [thr EXCEPT !["consumer"].pc = "freeLoad"]
      BY <2>2, Zenon DEF FinishBurst
    <3> DEFINE d == [c EXCEPT !.pc = "freeLoad"]
    <3>2. /\ d \in ThreadState /\ d.pkts = c.pkts /\ d.i = c.i /\ d.pc = "freeLoad"
      <4>1. c \in ThreadState
        BY <1>2
      <4> QED
        BY <4>1, SMT DEF ThreadState
    <3>3. thr' = [thr EXCEPT !["consumer"] = d]
      BY <1>1, <1>2, <3>1, SMT DEF Threads, ThreadState
    <3> HIDE DEF d
    <3> QED
      BY <1>2, <3>2, <3>3, Zenon
  <2> QED
    BY <2>1, <2>2, Zenon
<1>4. /\ thr' \in [Threads -> ThreadState] /\ thr'["consumer"] = d
      /\ thr'["producer"] = Outside
  BY <1>0, <1>2, <1>3, SMT DEF Threads
<1>5. Len(Outside.pkts) = 0 /\ Outside.i = 0 /\ Outside.pc = "outside"
  BY SMT DEF Outside
<1>6. \A t \in Threads : thr'[t] = d \/ thr'[t] = Outside
  BY <1>4, Zenon DEF Threads
<1>7. stats' \in [pkts_processed : Nat, pkts_dropped : Nat, bytes_processed : Nat, bursts : Nat]
  <2>1. stats \in [pkts_processed : Nat, pkts_dropped : Nat, bytes_processed : Nat, bursts : Nat]
    BY DEF TypeOK
  <2>2. CASE HandleOne
    <3>1. c.pkts[c.i + 1] \in Packets
      BY <1>1, <1>2, <2>2, SMT DEF HandleOne
    <3>2. PICK x : x = len[c.pkts[c.i + 1]]
      OBVIOUS
    <3>3. x \in Nat
      BY <3>1, <3>2, LenIsNat, Zenon
    <3>4. stats' = [stats EXCEPT !.bytes_processed = @ + x]
      BY <1>1, <2>2, <3>2, Zenon DEF HandleOne
    <3> QED
      BY <2>1, <3>3, <3>4, SMT
  <2>3. CASE FinishBurst
    <3>1. PICK x \in Nat : x = Len(c.pkts)
      BY <1>2, Zenon
    <3>2. stats' = [stats EXCEPT !.pkts_processed = @ + x, !.bursts = @ + 1]
      BY <1>1, <2>3, <3>1, Zenon DEF FinishBurst, CountBurst
    <3> QED
      <4>1. stats.pkts_processed + x \in Nat /\ stats.bursts + 1 \in Nat
        BY <2>1, SMT
      <4> QED
        BY <2>1, <3>2, <4>1, Zenon
  <2> QED
    BY <2>2, <2>3, Zenon
<1>8. TypeOK'
  <2>1. /\ Len(d.pkts) <= BURST_SIZE /\ d.i <= Len(d.pkts)
        /\ Len(Outside.pkts) <= BURST_SIZE /\ Outside.i <= Len(Outside.pkts)
    BY <1>2, <1>3, <1>5, BatchAssumption, SMT
  <2>2. \A t \in Threads : (Len(thr[t].pkts) <= BURST_SIZE /\ thr[t].i <= Len(thr[t].pkts))'
    BY <1>6, <2>1, Zenon
  <2> QED
    BY <1>0, <1>4, <1>7, <2>2, Zenon DEF TypeOK, ThreadState
<1>9. SoleFreer' /\ SlotsWritten' /\ Supported'
  BY <1>0, <1>3, <1>4, <1>5, <1>6, SMT DEF SoleFreer, SlotsWritten, Supported
<1>10. PacketsConserved'
  BY <1>0, <1>1, <1>3, <1>4, SamePlaces, Zenon
<1> QED
  BY <1>8, <1>9, <1>10, Zenon

\* With every packet accounted for, a free is never cut short: the result of
\* enqueue that memory_pool.h:58, 77 cast to void is always the full count.
LEMMA NothingCutOff ==
  ASSUME TypeOK, PacketsConserved, NEW t \in Threads
  PROVE  SubSeq(thr[t].pkts, 1, FreeCount(Len(thr[t].pkts))) = thr[t].pkts
<1>1. PICK s : s = thr[t].pkts
  OBVIOUS
<1>2. s \in Seq(Packets) /\ Len(s) \in Nat
  BY <1>1, TypeFacts, Zenon
<1>3. fhead - ftail + Len(s) <= PoolSize
  BY <1>1, HandFits, Zenon
<1>4. FreeCount(Len(s)) = Len(s)
  BY <1>2, <1>3, TypeFacts, SMT DEF FreeCount
<1>5. SubSeq(s, 1, Len(s)) = s
  BY <1>2, SMT
<1> QED
  BY <1>1, <1>4, <1>5, Zenon

\* What a free step may do to its thread: keep the packets in hand.
LEMMA FreeStepFrame ==
  ASSUME PoolInv, NEW t \in Threads, thr[t].pc \in {"freeLoad", "freeWrite"},
         NEW d \in ThreadState, thr' = [thr EXCEPT ![t] = d], d.i <= Len(d.pkts),
         Len(d.pkts) <= BURST_SIZE,
         UNCHANGED <<deployment, ring, ftail, total_allocs, len, held, stats, accepted>>,
         slots' \in [0..PoolSize-1 -> Packets], fhead' \in Nat, fhead' - ftail \in 0..PoolSize,
         d.pc \in {"outside", "freeWrite"}, d.pc = "outside" => d = Outside
  PROVE  /\ TypeOK' /\ SoleFreer' /\ Supported' /\ thr'[t] = d
         /\ \A u \in Threads : u # t => thr'[u] = Outside /\ thr[u] = Outside
<1> USE DEF PoolInv
<1>1. \A u \in Threads : u # t => thr[u] = Outside
  BY OtherIsOutside, Zenon
<1>2. thr \in [Threads -> ThreadState]
  BY TypeFacts
<1>3. thr' \in [Threads -> ThreadState] /\ thr'[t] = d /\ \A u \in Threads : u # t => thr'[u] = thr[u]
  BY <1>2, Zenon
<1>4. \A u \in Threads : thr'[u] = d \/ thr'[u] = thr[u]
  BY <1>3, Zenon
<1>5. \A u \in Threads : (Len(thr[u].pkts) <= BURST_SIZE /\ thr[u].i <= Len(thr[u].pkts))'
  BY <1>4, Zenon DEF TypeOK
<1>6. TypeOK'
  BY <1>3, <1>5, Zenon DEF TypeOK, ThreadState
<1>7. Supported'
  BY DEF Supported
<1>8. SoleFreer'
  <2>1. \A u \in Threads : thr'[u].pc = "outside" => thr'[u] = Outside
    BY <1>4, Zenon DEF SoleFreer
  <2>2. Outside.pc = "outside" /\ "producer" \in Threads /\ "consumer" \in Threads
    BY SMT DEF Outside, Threads
  <2>3. d.pc # "handle"
    OBVIOUS
  <2>4. CASE t = "producer"
    <3>1. thr'["consumer"].pc = "outside" /\ deployment'.serial /\ thr'["producer"] = d
      BY <1>1, <1>3, <2>2, <2>4, Zenon DEF SoleFreer
    <3> QED
      BY <2>1, <2>3, <3>1, Zenon DEF SoleFreer
  <2>5. CASE t = "consumer"
    <3>1. thr'["producer"] = Outside
      BY <1>1, <1>3, <2>2, <2>5, Zenon
    <3> QED
      BY <2>1, <2>2, <3>1, Zenon DEF SoleFreer
  <2> QED
    BY <2>4, <2>5, Zenon DEF Threads
<1> QED
  BY <1>1, <1>3, <1>6, <1>7, <1>8, Zenon

\* Loading the counters fixes nothing yet (spsc_ring.h:46-48, 68-71).
LEMMA FreeLoadKeeps ==
  ASSUME PoolInv, NEW t \in Threads, FreeLoad(t)
  PROVE  PoolInv'
<1> USE DEF PoolInv
<1>0. /\ thr[t].pc = "freeLoad"
      /\ UNCHANGED <<deployment, ring, slots, fhead, ftail, total_allocs, len, held, stats, accepted>>
  BY Zenon DEF FreeLoad, poolVars
<1>1. PICK c : c = thr[t]
  OBVIOUS
<1>2. /\ c \in ThreadState /\ Len(c.pkts) \in Nat /\ Len(c.pkts) <= BURST_SIZE
      /\ thr \in [Threads -> ThreadState] /\ fhead \in Nat /\ ftail \in Nat
  BY <1>1, TypeFacts, Zenon
<1> DEFINE d == [pc |-> "freeWrite", pkts |-> c.pkts, h |-> fhead, i |-> 0]
<1>3. thr' = [thr EXCEPT ![t] = d]
  <2>1. SubSeq(c.pkts, 1, FreeCount(Len(c.pkts))) = c.pkts
    BY <1>1, NothingCutOff, Zenon
  <2>2. thr[t] = c /\ t \in DOMAIN thr
    BY <1>1, <1>2, Zenon
  <2> QED
    BY <2>1, <2>2, Zenon DEF FreeLoad
<1>4. /\ d \in ThreadState /\ d.pkts = c.pkts /\ d.i = 0 /\ d.h = fhead /\ d.pc = "freeWrite"
  BY <1>2, Zenon DEF ThreadState
<1> HIDE DEF d
<1>5. d.i <= Len(d.pkts) /\ Len(d.pkts) <= BURST_SIZE
  BY <1>2, <1>4, SMT
<1>6. /\ slots' \in [0..PoolSize-1 -> Packets] /\ fhead' \in Nat /\ fhead' - ftail \in 0..PoolSize
      /\ d.pc \in {"outside", "freeWrite"} /\ thr[t].pc \in {"freeLoad", "freeWrite"}
      /\ (d.pc = "outside" => d = Outside)
  BY <1>0, <1>4, Zenon DEF TypeOK
<1>7. /\ TypeOK' /\ SoleFreer' /\ Supported' /\ thr'[t] = d
      /\ \A u \in Threads : u # t => thr'[u] = Outside /\ thr[u] = Outside
  BY <1>0, <1>3, <1>4, <1>5, <1>6, FreeStepFrame, Zenon
<1>8. SlotsWritten'
  <2>1. \A u \in Threads : thr'[u].pc = "freeWrite" => u = t
    BY <1>7, SMT DEF Outside
  <2>2. ~ \E k : k \in 1..0
    BY SMT
  <2> QED
    BY <1>0, <1>4, <1>7, <2>1, <2>2, Zenon DEF SlotsWritten
<1>9. PacketsConserved'
  <2>1. \A u \in Threads : thr'[u].pkts = thr[u].pkts
    BY <1>1, <1>4, <1>7, Zenon
  <2> QED
    BY <1>0, <2>1, SamePlaces, Zenon DEF Threads
<1> QED
  BY <1>7, <1>8, <1>9, Zenon

\* A slot written above head_ is no slot the free list holds, nor one written
\* before (spsc_ring.h:49, 72-73).
LEMMA FreeWriteKeeps ==
  ASSUME PoolInv, NEW t \in Threads, FreeWrite(t)
  PROVE  PoolInv'
<1> USE DEF PoolInv
<1>0. /\ thr[t].pc = "freeWrite" /\ thr[t].i < Len(thr[t].pkts) /\ thr[t].h = fhead
      /\ UNCHANGED <<deployment, ring, fhead, ftail, total_allocs, len, held, stats, accepted>>
  BY Zenon DEF FreeWrite, SlotsWritten
<1>1. PICK c : c = thr[t]
  OBVIOUS
<1>2. /\ c \in ThreadState /\ c.i \in Nat /\ Len(c.pkts) \in Nat /\ Len(c.pkts) <= BURST_SIZE
      /\ c.pkts \in Seq(Packets) /\ c.i < Len(c.pkts) /\ c.pc = "freeWrite" /\ c.h = fhead
      /\ thr \in [Threads -> ThreadState] /\ fhead \in Nat /\ ftail \in Nat /\ ftail <= fhead
      /\ PoolSize \in Nat
  BY <1>0, <1>1, TypeFacts, Zenon
<1>3. fhead - ftail + Len(c.pkts) <= PoolSize
  BY <1>1, HandFits, Zenon
<1> DEFINE d == [c EXCEPT !.i = @ + 1]
           w == (fhead + c.i) % PoolSize
<1>4. thr' = [thr EXCEPT ![t] = d]
  <2>1. thr' = [thr EXCEPT ![t].i = @ + 1]
    BY DEF FreeWrite
  <2> QED
    BY <1>1, <1>2, <2>1, SMT
<1>5. /\ d \in ThreadState /\ d.pkts = c.pkts /\ d.i = c.i + 1 /\ d.h = fhead /\ d.pc = "freeWrite"
  <2>1. c.i + 1 \in Nat
    BY <1>2, SMT
  <2> QED
    BY <1>2, <2>1, Zenon DEF ThreadState
<1> HIDE DEF d
<1>6. slots' = [slots EXCEPT ![w] = c.pkts[c.i + 1]]
  BY <1>0, <1>1, Zenon DEF FreeWrite
<1>7. w \in 0..PoolSize-1 /\ fhead + c.i \in Nat
  <2>1. fhead + c.i \in Nat
    BY <1>2, SMT
  <2> QED
    BY <2>1, FreeSlotType, Zenon
<1>8. slots \in [0..PoolSize-1 -> Packets] /\ c.pkts[c.i + 1] \in Packets
  <2>1. c.i + 1 \in 1..Len(c.pkts)
    <3>1. c.i \in Nat /\ Len(c.pkts) \in Nat /\ c.i < Len(c.pkts)
      BY <1>2, Zenon
    <3> QED
      BY <3>1, SMT
  <2>2. c.pkts \in [1..Len(c.pkts) -> Packets]
    <3>1. c.pkts \in Seq(Packets)
      BY <1>2, Zenon
    <3> QED
      BY <3>1, SMT
  <2>3. slots \in [0..PoolSize-1 -> Packets]
    BY Zenon DEF TypeOK
  <2> QED
    BY <2>1, <2>2, <2>3, Zenon
<1>9. \A x \in Nat : ftail <= x /\ x < fhead + c.i => slots'[x % PoolSize] = slots[x % PoolSize]
  <2> SUFFICES ASSUME NEW x \in Nat, ftail <= x, x < fhead + c.i
               PROVE  slots'[x % PoolSize] = slots[x % PoolSize]
    OBVIOUS
  <2>1. (fhead + c.i) - x < PoolSize
    BY <1>2, <1>3, SMT
  <2>2. x % PoolSize # w /\ x % PoolSize \in 0..PoolSize-1
    BY <1>7, <2>1, FreeSlotsDiffer, FreeSlotType
  <2> HIDE DEF w
  <2> QED
    BY <1>6, <1>8, <2>2, Zenon
<1>10. slots' \in [0..PoolSize-1 -> Packets] /\ slots'[w] = c.pkts[c.i + 1]
  <2> HIDE DEF w
  <2> QED
    BY <1>6, <1>7, <1>8, Zenon
<1>11. /\ TypeOK' /\ SoleFreer' /\ Supported' /\ thr'[t] = d
       /\ \A u \in Threads : u # t => thr'[u] = Outside /\ thr[u] = Outside
  <2>1. d.i <= Len(d.pkts) /\ Len(d.pkts) <= BURST_SIZE
    BY <1>2, <1>5, SMT
  <2>2. /\ fhead' \in Nat /\ fhead' - ftail \in 0..PoolSize
        /\ d.pc \in {"outside", "freeWrite"} /\ thr[t].pc \in {"freeLoad", "freeWrite"}
        /\ (d.pc = "outside" => d = Outside)
    BY <1>0, <1>5, Zenon DEF TypeOK
  <2> QED
    BY <1>0, <1>4, <1>5, <1>10, <2>1, <2>2, FreeStepFrame, Zenon
<1>12. SlotsWritten'
  <2>1. \A u \in Threads : thr'[u].pc = "freeWrite" => u = t
    BY <1>11, SMT DEF Outside
  <2>2. \A k \in 1..c.i : slots[(fhead + k - 1) % PoolSize] = c.pkts[k]
    BY <1>0, <1>1, Zenon DEF SlotsWritten
  <2>3. \A k \in 1..c.i+1 : slots'[(fhead + k - 1) % PoolSize] = c.pkts[k]
    <3> TAKE k \in 1..c.i+1
    <3>1. CASE k \in 1..c.i
      <4>1. PICK x : x = fhead + k - 1
        OBVIOUS
      <4>2. x \in Nat /\ ftail <= x /\ x < fhead + c.i
        BY <1>2, <3>1, <4>1, SMT
      <4>3. slots'[x % PoolSize] = slots[x % PoolSize]
        BY <1>9, <4>2, Zenon
      <4> QED
        BY <2>2, <3>1, <4>1, <4>3, Zenon
    <3>2. CASE k = c.i + 1
      <4>1. fhead + k - 1 = fhead + c.i
        BY <1>2, <3>2, SMT
      <4> QED
        BY <1>10, <3>2, <4>1, Zenon
    <3> QED
      BY <1>2, <3>1, <3>2, SMT
  <2>4. /\ thr'[t].h = fhead'
        /\ \A k \in 1..thr'[t].i : slots'[(fhead' + k - 1) % PoolSize] = thr'[t].pkts[k]
    BY <1>0, <1>5, <1>11, <2>3, Zenon
  <2> QED
    BY <2>1, <2>4, Zenon DEF SlotsWritten
<1>13. PacketsConserved'
  <2>1. \A u \in Threads : thr'[u].pkts = thr[u].pkts
    BY <1>1, <1>5, <1>11, Zenon
  <2>2. \A x \in ftail..fhead-1 : x \in Nat /\ ftail <= x /\ x < fhead + c.i
    BY <1>2, SMT
  <2>3. FreePackets' = FreePackets
    <3>1. FreePackets' = {slots'[x % PoolSize] : x \in ftail..fhead-1}
      BY <1>0, Zenon DEF FreePackets
    <3>2. \A x \in ftail..fhead-1 : slots'[x % PoolSize] = slots[x % PoolSize]
      BY <1>9, <2>2, Zenon
    <3> QED
      BY <3>1, <3>2, Zenon DEF FreePackets
  <2> QED
    BY <1>0, <2>1, <2>3, Zenon DEF PacketsConserved, Threads
<1> QED
  BY <1>11, <1>12, <1>13, Zenon

\* Storing head_ adds the written packets to the free list at once
\* (spsc_ring.h:50, 74).
LEMMA FreeStoreKeeps ==
  ASSUME PoolInv, NEW t \in Threads, FreeStore(t)
  PROVE  PoolInv'
<1> USE DEF PoolInv
<1>0. /\ thr[t].pc = "freeWrite" /\ thr[t].i = Len(thr[t].pkts) /\ thr[t].h = fhead
      /\ UNCHANGED <<deployment, ring, slots, ftail, total_allocs, len, held, stats, accepted>>
      /\ thr' = [thr EXCEPT ![t] = Outside] /\ fhead' = fhead + Len(thr[t].pkts)
  <2>1. /\ thr[t].pc = "freeWrite" /\ thr[t].i = Len(thr[t].pkts) /\ thr[t].h = fhead
        /\ UNCHANGED <<deployment, ring, slots, ftail, total_allocs, len, held, stats, accepted>>
        /\ thr' = [thr EXCEPT ![t] = Outside]
        /\ (fhead' = fhead /\ thr[t].pkts = <<>>) \/ fhead' = fhead + Len(thr[t].pkts)
    BY Zenon DEF FreeStore, SlotsWritten
  <2>2. fhead \in Nat /\ Len(<<>>) = 0 /\ fhead + 0 = fhead
    BY TypeFacts, SMT
  <2> QED
    BY <2>1, <2>2, Zenon
<1>1. PICK s : s = thr[t].pkts
  OBVIOUS
<1>2. /\ s \in Seq(Packets) /\ Len(s) \in Nat /\ fhead \in Nat /\ ftail \in Nat /\ ftail <= fhead
      /\ PoolSize \in Nat
  BY <1>1, TypeFacts, Zenon
<1>3. fhead - ftail + Len(s) <= PoolSize /\ fhead' = fhead + Len(s)
  BY <1>0, <1>1, HandFits, Zenon
<1>4. \A k \in 1..Len(s) : slots[(fhead + k - 1) % PoolSize] = s[k]
  BY <1>0, <1>1, Zenon DEF SlotsWritten
<1>5. /\ Outside \in ThreadState /\ Outside.i = 0 /\ Len(Outside.pkts) = 0 /\ Outside.pc = "outside"
      /\ Range(Outside.pkts) = {}
  BY SMT DEF Outside, ThreadState, Range
<1>6. /\ TypeOK' /\ SoleFreer' /\ Supported' /\ thr'[t] = Outside
      /\ \A u \in Threads : u # t => thr'[u] = Outside /\ thr[u] = Outside
  <2>1. Outside.i <= Len(Outside.pkts) /\ Len(Outside.pkts) <= BURST_SIZE
    BY <1>5, BatchAssumption, SMT
  <2>2. fhead' \in Nat /\ fhead' - ftail \in 0..PoolSize
    BY <1>2, <1>3, SMT
  <2>3. /\ slots' \in [0..PoolSize-1 -> Packets]
        /\ Outside.pc \in {"outside", "freeWrite"} /\ thr[t].pc \in {"freeLoad", "freeWrite"}
    BY <1>0, <1>5, Zenon DEF TypeOK
  <2> QED
    BY <1>0, <1>5, <2>1, <2>2, <2>3, FreeStepFrame, Zenon
<1>7. SlotsWritten'
  <2>1. \A u \in Threads : thr'[u].pc = "outside"
    BY <1>5, <1>6, Zenon
  <2> QED
    BY <2>1, SMT DEF SlotsWritten
<1>8. FreePackets' = FreePackets \cup Range(s)
  <2>1. FreePackets' = {slots[x % PoolSize] : x \in ftail..(fhead + Len(s))-1}
    BY <1>0, <1>3, Zenon DEF FreePackets
  <2>2. /\ \A k \in 1..Len(s) : s[k] \in Range(s)
        /\ \A y \in Range(s) : \E k \in 1..Len(s) : s[k] = y
    BY <1>2, RangeOfSeq, Zenon
  <2>3. FreePackets' \subseteq FreePackets \cup Range(s)
    <3>1. ASSUME NEW x \in ftail..(fhead + Len(s))-1
          PROVE  slots[x % PoolSize] \in FreePackets \cup Range(s)
      <4>1. CASE x \in ftail..fhead-1
        BY <4>1, Zenon DEF FreePackets
      <4>2. CASE x \notin ftail..fhead-1
        <5>1. PICK k : k = x - fhead + 1
          OBVIOUS
        <5>2. k \in 1..Len(s) /\ fhead + k - 1 = x
          BY <1>2, <4>2, <5>1, SMT
        <5> QED
          BY <1>4, <2>2, <5>2, Zenon
      <4> QED
        BY <4>1, <4>2
    <3> QED
      BY <2>1, <3>1, Zenon
  <2>4. FreePackets \subseteq FreePackets'
    <3>1. \A x \in ftail..fhead-1 : x \in ftail..(fhead + Len(s))-1
      BY <1>2, SMT
    <3> QED
      BY <2>1, <3>1, Zenon DEF FreePackets
  <2>5. Range(s) \subseteq FreePackets'
    <3>1. \A k \in 1..Len(s) : fhead + k - 1 \in ftail..(fhead + Len(s))-1
      BY <1>2, SMT
    <3>2. \A k \in 1..Len(s) : s[k] \in FreePackets'
      BY <1>4, <2>1, <3>1, Zenon
    <3> QED
      BY <2>2, <3>2, Zenon
  <2> QED
    BY <2>3, <2>4, <2>5, Zenon
<1>9. PacketsConserved'
  <2>1. /\ thr'["producer"].pkts = Outside.pkts /\ thr'["consumer"].pkts = Outside.pkts
    BY <1>6, Zenon DEF Threads
  <2>2. \/ thr["producer"].pkts = s /\ thr["consumer"].pkts = Outside.pkts
        \/ thr["producer"].pkts = Outside.pkts /\ thr["consumer"].pkts = s
    BY <1>1, <1>6, Zenon DEF Threads
  <2>3. (FreePackets \cup held \cup Range(ring) \cup Range(thr["producer"].pkts)
           \cup Range(thr["consumer"].pkts))' = Packets
    BY <1>0, <1>5, <1>8, <2>1, <2>2, Zenon DEF PacketsConserved
  <2>4. Cardinality(held) \in Nat /\ Len(ring) \in Nat
    BY PlaceSizes, Zenon DEF Fits
  <2>5. \/ fhead - ftail + Cardinality(held) + Len(ring) + Len(s) + 0 = PoolSize
        \/ fhead - ftail + Cardinality(held) + Len(ring) + 0 + Len(s) = PoolSize
    BY <1>5, <2>2, Zenon DEF PacketsConserved
  <2>6. (fhead + Len(s)) - ftail + Cardinality(held) + Len(ring) + 0 + 0 = PoolSize
    BY <1>2, <2>4, <2>5, SMT
  <2>7. (fhead - ftail + Cardinality(held) + Len(ring) + Len(thr["producer"].pkts)
           + Len(thr["consumer"].pkts))' = PoolSize
    BY <1>0, <1>3, <1>5, <2>1, <2>6, Zenon
  <2> QED
    BY <2>3, <2>7, Zenon DEF PacketsConserved
<1> QED
  BY <1>6, <1>7, <1>9, Zenon

\* PoolInv is inductive.
LEMMA PoolInvStep ==
  ASSUME PoolInv, [Next]_vars
  PROVE  PoolInv'
<1>1. CASE UNCHANGED vars
  <2>1. FreePackets' = FreePackets
    BY <1>1, Zenon DEF FreePackets, vars
  <2>2. TypeOK'
    BY <1>1, Zenon DEF PoolInv, vars, TypeOK
  <2>3. SoleFreer' /\ SlotsWritten' /\ Supported'
    BY <1>1, Zenon DEF PoolInv, vars, Supported, SoleFreer, SlotsWritten
  <2>4. PacketsConserved'
    BY <1>1, <2>1, Zenon DEF PoolInv, vars, PacketsConserved
  <2> QED
    BY <2>2, <2>3, <2>4, Zenon DEF PoolInv
<1>2. CASE Next
  BY <1>2, AllocKeeps, SendKeeps, ProcessKeeps, HandleKeeps, FreeLoadKeeps, FreeWriteKeeps,
     FreeStoreKeeps, Zenon DEF Next
<1> QED
  BY <1>1, <1>2

\* RingSize and the threading are fixed for the life of the processor.
LEMMA DeploymentFixed ==
  ASSUME [Next]_vars
  PROVE  deployment' = deployment
  BY Zenon DEF Next, vars, alloc_packet, send, process_burst, HandleOne, FinishBurst, FreeLoad,
     FreeWrite, FreeStore

\* The inductive invariant holds in every supported deployment.
LEMMA PoolInvHolds == Spec /\ Supported => []PoolInv
<1>1. Init /\ Supported => PoolInv
  BY PoolInvInit
<1>2. PoolInv /\ [Next]_vars => PoolInv'
  BY PoolInvStep
<1> QED
  BY <1>1, <1>2, PTL DEF Spec

\* The pool's counters, the rings and the cursors of both threads stay in
\* range, for every pool, ring and burst size (memory_pool.h, packet_processor.h).
THEOREM BatchTypeCorrect == Spec /\ Supported => []TypeOK
<1>1. PoolInv => TypeOK
  BY DEF PoolInv
<1> QED
  BY <1>1, PoolInvHolds, PTL

\* No packet is lost or has two owners, although the results of free and
\* free_burst are cast to void (memory_pool.h:58, 77).
THEOREM PacketsNeverLost == Spec /\ Supported => []PacketsConserved
<1>1. PoolInv => PacketsConserved
  BY DEF PoolInv
<1> QED
  BY <1>1, PoolInvHolds, PTL

\* Both threads call enqueue on free_ring_ and the deployment alone keeps them
\* apart: it is "Single Producer / Single Consumer ONLY" (spsc_ring.h:5).
OneEnqueuer == \A t, u \in Threads :
  thr[t].pc \in {"freeLoad", "freeWrite"} /\ thr[u].pc \in {"freeLoad", "freeWrite"} => t = u

\* free_ring_ never has two enqueuing threads at once.
THEOREM FreeListHasOneEnqueuer == Spec /\ Supported => []OneEnqueuer
<1>1. PoolInv => OneEnqueuer
  BY OtherIsOutside, SMT DEF PoolInv, OneEnqueuer
<1> QED
  BY <1>1, PoolInvHolds, PTL

\* Whatever a thread is about to return fits in the free list: "free list
\* cannot be full" and "can't overfill" (memory_pool.h:58, 77).
FreeNeverRefused ==
  \A t \in Threads : thr[t].pc = "freeLoad" => FreeCount(Len(thr[t].pkts)) = Len(thr[t].pkts)

\* enqueue and enqueue_burst on free_ring_ accept everything they are given,
\* so casting their results to void loses nothing.
THEOREM FreeListNeverFull == Spec /\ Supported => []FreeNeverRefused
<1>1. ASSUME PoolInv, NEW t \in Threads PROVE FreeCount(Len(thr[t].pkts)) = Len(thr[t].pkts)
  <2>1. TypeOK /\ PacketsConserved
    BY <1>1 DEF PoolInv
  <2>2. fhead - ftail + Len(thr[t].pkts) <= PoolSize
    BY <2>1, HandFits, Zenon
  <2>3. Len(thr[t].pkts) \in Nat /\ fhead \in Nat /\ ftail \in Nat /\ PoolSize \in Nat
    BY <2>1, TypeFacts, Zenon
  <2> QED
    BY <2>2, <2>3, SMT DEF FreeCount
<1>2. PoolInv => FreeNeverRefused
  BY <1>1, Zenon DEF FreeNeverRefused
<1> QED
  BY <1>2, PoolInvHolds, PTL
-----------------------------------------------------------------------------
(* A ring as large as the pool.                                            *)

\* Only the drop path of send counts a drop, and it needs a full ring.
LEMMA NoDropStep ==
  ASSUME PoolInv, LargeRingNeverDrops, [Next]_vars
  PROVE  LargeRingNeverDrops'
<1> USE DEF PoolInv
<1> SUFFICES ASSUME deployment.ring >= PoolSize
             PROVE  stats'.pkts_dropped = stats.pkts_dropped
  BY DeploymentFixed, Zenon DEF LargeRingNeverDrops
<1>0. stats \in [pkts_processed : Nat, pkts_dropped : Nat, bytes_processed : Nat, bursts : Nat]
  BY DEF TypeOK
<1>1. ASSUME NEW p \in Packets, send(p) PROVE stats' = stats
  <2>1. Len(ring) < PoolSize /\ Len(ring) \in Nat /\ PoolSize \in Nat
    BY <1>1, RoomForHeld, TypeFacts, Zenon DEF send
  <2>2. deployment.ring \in Nat
    BY BatchAssumption, SMT DEF TypeOK
  <2>3. ~RingFull
    BY <2>1, <2>2, SMT DEF RingFull
  <2> QED
    BY <1>1, <2>3, Zenon DEF send
<1>2. CASE HandleOne
  BY <1>0, <1>2, Zenon DEF HandleOne
<1>3. CASE FinishBurst
  BY <1>0, <1>3, Zenon DEF FinishBurst, CountBurst
<1>4. ASSUME NEW t \in Threads, FreeLoad(t) \/ FreeWrite(t) \/ FreeStore(t) PROVE stats' = stats
  BY <1>4, Zenon DEF FreeLoad, FreeWrite, FreeStore
<1>5. CASE alloc_packet \/ process_burst \/ UNCHANGED vars
  BY <1>5, Zenon DEF alloc_packet, process_burst, vars
<1> QED
  BY <1>1, <1>2, <1>3, <1>4, <1>5, Zenon DEF Next

\* A ring at least as large as the pool never makes send drop a packet,
\* whatever the threads do (packet_processor.h:73-77).
THEOREM LargeRingIsLossless == Spec => []LargeRingNeverDrops
<1> DEFINE Q == Supported => PoolInv /\ LargeRingNeverDrops
<1>1. Init => Q
  BY PoolInvInit, SMT DEF Init, LargeRingNeverDrops
<1>2. Q /\ [Next]_vars => Q'
  <2>1. [Next]_vars => (Supported' <=> Supported)
    BY DeploymentFixed, Zenon DEF Supported
  <2> QED
    BY <2>1, PoolInvStep, NoDropStep, Zenon
<1>3. Q => LargeRingNeverDrops
  BY DEF LargeRingNeverDrops, Supported
<1> QED
  BY <1>1, <1>2, <1>3, PTL DEF Spec

-----------------------------------------------------------------------------
(* Allocations add up.                                                     *)

\* alloc_packet adds a packet to those held.
LEMMA HeldGrows ==
  ASSUME PoolInv, alloc_packet
  PROVE  Cardinality(held') = Cardinality(held) + 1
<1>1. fhead # ftail /\ held' = held \cup {slots[ftail % PoolSize]}
  BY Zenon DEF alloc_packet, FreeListEmpty
<1>2. slots[ftail % PoolSize] \notin held
  BY <1>1, FreeIsFree, Zenon DEF PoolInv
<1>3. IsFiniteSet(held)
  BY PlaceSizes, Zenon DEF Fits, PoolInv
<1> QED
  BY <1>1, <1>2, <1>3, FS_AddElement

\* send takes one of them.
LEMMA HeldShrinks ==
  ASSUME PoolInv, NEW p \in Packets, send(p)
  PROVE  Cardinality(held') = Cardinality(held) - 1
<1>1. p \in held /\ held' = held \ {p}
  BY Zenon DEF send
<1>2. IsFiniteSet(held)
  BY PlaceSizes, Zenon DEF Fits, PoolInv
<1> QED
  BY <1>1, <1>2, FS_RemoveElement

\* The packets of the burst being handled, as AllocationsAccounted counts them.
Handling == IF thr["consumer"].pc = "handle" THEN Len(thr["consumer"].pkts) ELSE 0

\* A free step leaves the ring, the counters and the handler loop alone.
LEMMA FreeStepQuiet ==
  ASSUME PoolInv, NEW t \in Threads, FreeLoad(t) \/ FreeWrite(t) \/ FreeStore(t)
  PROVE  /\ UNCHANGED <<total_allocs, stats, held, ring, len, accepted>>
         /\ thr["consumer"].pc # "handle" /\ thr'["consumer"].pc # "handle"
<1> USE DEF PoolInv
<1>1. /\ UNCHANGED <<total_allocs, stats, held, ring, len, accepted>>
      /\ thr[t].pc \in {"freeLoad", "freeWrite"}
  BY Zenon DEF FreeLoad, FreeWrite, FreeStore, poolVars
<1>2. thr \in [Threads -> ThreadState]
  BY TypeFacts
<1>3. Outside.pc = "outside"
  BY DEF Outside
<1>4. CASE t = "consumer"
  <2>1. thr'["consumer"].pc \in {"freeWrite", "outside"}
    <3>1. CASE FreeLoad(t)
      BY <1>2, <1>4, <3>1, Zenon DEF FreeLoad
    <3>2. CASE FreeWrite(t)
      BY <1>2, <1>4, <3>2, SMT DEF FreeWrite, ThreadState
    <3>3. CASE FreeStore(t)
      BY <1>2, <1>3, <1>4, <3>3, Zenon DEF FreeStore
    <3> QED
      BY <3>1, <3>2, <3>3
  <2> QED
    BY <1>1, <1>4, <2>1, Zenon
<1>5. CASE t = "producer"
  <2>1. thr["consumer"].pc = "outside"
    BY <1>1, <1>5, OtherIsOutside, Zenon DEF Threads
  <2>2. thr'["consumer"] = thr["consumer"]
    BY <1>2, <1>5, SMT DEF FreeLoad, FreeWrite, FreeStore, Threads
  <2> QED
    BY <1>1, <2>1, <2>2, Zenon
<1> QED
  BY <1>4, <1>5, Zenon DEF Threads

\* Every step moves an allocation from one count to the next.
LEMMA AllocationsStep ==
  ASSUME PoolInv, AllocationsAccounted, [Next]_vars
  PROVE  AllocationsAccounted'
<1> USE DEF PoolInv
<1>0. /\ stats \in [pkts_processed : Nat, pkts_dropped : Nat, bytes_processed : Nat, bursts : Nat]
      /\ stats.pkts_processed \in Nat /\ stats.pkts_dropped \in Nat /\ total_allocs \in Nat
      /\ Cardinality(held) \in Nat /\ Len(ring) \in Nat /\ ring \in Seq(Packets)
      /\ Len(thr["consumer"].pkts) \in Nat /\ thr \in [Threads -> ThreadState] /\ Handling \in Nat
  <2>1. /\ stats \in [pkts_processed : Nat, pkts_dropped : Nat, bytes_processed : Nat, bursts : Nat]
        /\ total_allocs \in Nat
    BY BatchAssumption, SMT DEF TypeOK
  <2>2. Cardinality(held) \in Nat
    BY PlaceSizes, Zenon DEF Fits
  <2>3. /\ Len(ring) \in Nat /\ ring \in Seq(Packets)
        /\ Len(thr["consumer"].pkts) \in Nat /\ thr \in [Threads -> ThreadState]
    BY TypeFacts, Zenon
  <2>4. Handling \in Nat
    BY <2>3, SMT DEF Handling
  <2> QED
    BY <2>1, <2>2, <2>3, <2>4, SMT
<1>1. total_allocs = stats.pkts_processed + stats.pkts_dropped + Cardinality(held) + Len(ring) + Handling
  BY Zenon DEF AllocationsAccounted, Handling
<1>n. PICK P \in Nat, D \in Nat, H \in Nat, R \in Nat, G \in Nat :
        /\ P = stats.pkts_processed /\ D = stats.pkts_dropped /\ H = Cardinality(held)
        /\ R = Len(ring) /\ G = Handling
  BY <1>0, Zenon
<1> SUFFICES total_allocs' = stats'.pkts_processed + stats'.pkts_dropped + Cardinality(held') + Len(ring')
                               + Handling'
  BY Zenon DEF AllocationsAccounted, Handling
<1>2. CASE alloc_packet
  <2>1. total_allocs' = total_allocs + 1 /\ UNCHANGED <<stats, ring, thr>>
    BY <1>2, Zenon DEF alloc_packet
  <2>2. Cardinality(held') = Cardinality(held) + 1 /\ Handling' = Handling
    BY <1>2, <2>1, HeldGrows, Zenon DEF Handling
  <2>3. P + D + H + R + G + 1 = P + D + (H + 1) + R + G
    BY SMT
  <2> QED
    BY <1>1, <1>n, <2>1, <2>2, <2>3, Zenon
<1>3. ASSUME NEW p \in Packets, send(p)
      PROVE  total_allocs' = stats'.pkts_processed + stats'.pkts_dropped + Cardinality(held') + Len(ring')
                               + Handling'
  <2>1. Cardinality(held') = Cardinality(held) - 1 /\ total_allocs' = total_allocs
    BY <1>3, HeldShrinks, Zenon DEF send, poolVars
  <2>2. CASE RingFull /\ Drop(p) /\ UNCHANGED <<ring, accepted>>
    <3>1. stats'.pkts_processed = stats.pkts_processed /\ stats'.pkts_dropped = stats.pkts_dropped + 1
      BY <1>0, <2>2, Zenon DEF Drop
    <3>2. thr'["consumer"] = thr["consumer"]
      <4>1. thr' = [thr EXCEPT !["producer"].pc = "freeLoad", !["producer"].pkts = <<p>>]
        BY <2>2, Zenon DEF Drop
      <4>2. DOMAIN thr = Threads /\ "consumer" \in Threads /\ "consumer" # "producer"
        BY <1>0 DEF Threads
      <4> QED
        BY <4>1, <4>2, Zenon
    <3>3. Handling' = Handling /\ Len(ring') = Len(ring)
      BY <2>2, <3>2, Zenon DEF Handling
    <3>4. P + D + H + R + G = P + (D + 1) + (H - 1) + R + G
      BY SMT
    <3> QED
      BY <1>1, <1>n, <2>1, <3>1, <3>3, <3>4, Zenon
  <2>3. CASE ring' = Append(ring, p) /\ UNCHANGED <<stats, thr>>
    <3>1. Len(ring') = Len(ring) + 1
      BY <1>0, <2>3, SMT
    <3>2. Handling' = Handling /\ stats' = stats
      BY <2>3, Zenon DEF Handling
    <3>3. P + D + H + R + G = P + D + (H - 1) + (R + 1) + G
      BY SMT
    <3> QED
      BY <1>1, <1>n, <2>1, <3>1, <3>2, <3>3, Zenon
  <2> QED
    BY <1>3, <2>2, <2>3, Zenon DEF send
<1>4. CASE process_burst
  <2>1. PICK n : n = IF BURST_SIZE < Len(ring) THEN BURST_SIZE ELSE Len(ring)
    OBVIOUS
  <2>2. n \in 0..Len(ring) /\ n \in Nat
    BY <1>0, <2>1, BatchAssumption, SMT
  <2>3. /\ thr["consumer"].pc = "outside" /\ UNCHANGED <<total_allocs, stats, held>>
        /\ thr' = [thr EXCEPT !["consumer"] = [Outside EXCEPT !.pc = "handle", !.pkts = SubSeq(ring, 1, n)]]
        /\ ring' = SubSeq(ring, n + 1, Len(ring))
    BY <1>4, <2>1, Zenon DEF process_burst, MayCall, poolVars
  <2>4. Len(SubSeq(ring, 1, n)) = n /\ Len(ring') = Len(ring) - n
    <3>1. ring \in Seq(Packets)
      BY <1>0
    <3>2. /\ Len(SubSeq(ring, 1, n)) = n
          /\ Len(SubSeq(ring, n + 1, Len(ring))) = Len(ring) - n
      BY <2>2, <3>1, RangeSplit, Zenon
    <3> QED
      BY <2>3, <3>2, Zenon
  <2>5. thr'["consumer"].pc = "handle" /\ thr'["consumer"].pkts = SubSeq(ring, 1, n)
    BY <1>0, <2>3, Zenon DEF Threads, Outside
  <2>6. Handling = 0 /\ Handling' = n
    <3>1. thr["consumer"].pc # "handle"
      BY <2>3
    <3> QED
      BY <2>4, <2>5, <3>1, Zenon DEF Handling
  <2>7. P + D + H + R + 0 = P + D + H + (R - n) + n
    BY <2>2, SMT
  <2> QED
    BY <1>1, <1>n, <2>3, <2>4, <2>6, <2>7, Zenon
<1>5. CASE HandleOne
  <2>1. /\ stats'.pkts_processed = stats.pkts_processed /\ stats'.pkts_dropped = stats.pkts_dropped
        /\ UNCHANGED <<total_allocs, held, ring>>
    BY <1>0, <1>5, Zenon DEF HandleOne, poolVars
  <2>2. thr'["consumer"].pc = thr["consumer"].pc /\ thr'["consumer"].pkts = thr["consumer"].pkts
    BY <1>0, <1>5, SMT DEF HandleOne, Threads, ThreadState
  <2> QED
    BY <1>1, <2>1, <2>2, Zenon DEF Handling
<1>6. CASE FinishBurst
  <2>1. PICK n : n = Len(thr["consumer"].pkts)
    BY Zenon
  <2>2. /\ stats' = [stats EXCEPT !.pkts_processed = @ + n, !.bursts = @ + 1]
        /\ UNCHANGED <<total_allocs, held, ring>> /\ thr["consumer"].pc = "handle"
    BY <1>6, <2>1, Zenon DEF FinishBurst, poolVars, CountBurst
  <2>3. thr'["consumer"].pc = "freeLoad"
    BY <1>0, <1>6, SMT DEF FinishBurst, Threads, ThreadState
  <2>4. Handling = n /\ Handling' = 0 /\ n \in Nat
    BY <1>0, <2>1, <2>2, <2>3, SMT DEF Handling
  <2>5. stats'.pkts_processed = stats.pkts_processed + n /\ stats'.pkts_dropped = stats.pkts_dropped
    BY <1>0, <2>2, Zenon
  <2>6. P + D + H + R + n = (P + n) + D + H + R + 0
    BY <2>4, SMT
  <2> QED
    BY <1>1, <1>n, <2>2, <2>4, <2>5, <2>6, Zenon
<1>7. ASSUME NEW t \in Threads, FreeLoad(t) \/ FreeWrite(t) \/ FreeStore(t)
      PROVE  total_allocs' = stats'.pkts_processed + stats'.pkts_dropped + Cardinality(held') + Len(ring')
                               + Handling'
  <2>1. UNCHANGED <<total_allocs, stats, held, ring>> /\ Handling = 0 /\ Handling' = 0
    BY <1>7, FreeStepQuiet, Zenon DEF Handling
  <2> QED
    BY <1>1, <2>1, Zenon
<1>8. CASE UNCHANGED vars
  BY <1>1, <1>8, Zenon DEF vars, Handling
<1> QED
  BY <1>2, <1>3, <1>4, <1>5, <1>6, <1>7, <1>8, Zenon DEF Next

\* total_allocs_ is what was processed, what was dropped and what is still on
\* its way (memory_pool.h:50, packet_processor.h:74, 95).
THEOREM AllocationsAddUp == Spec /\ Supported => []AllocationsAccounted
<1>1. Init => AllocationsAccounted
  <2>1. Cardinality({}) = 0
    BY FS_EmptySet
  <2> QED
    BY <2>1, SMT DEF Init, AllocationsAccounted, Outside, Threads
<1>2. PoolInv /\ AllocationsAccounted /\ [Next]_vars => AllocationsAccounted'
  BY AllocationsStep
<1> QED
  BY <1>1, <1>2, PoolInvHolds, PTL DEF Spec

-----------------------------------------------------------------------------
(* Bytes add up.                                                           *)

\* A queued packet is a packet with a length, in the ring or in the burst.
LEMMA InFlightFacts ==
  ASSUME TypeOK
  PROVE  /\ InFlight \subseteq Range(ring) \cup Burst /\ IsFiniteSet(InFlight)
         /\ InFlight \subseteq Packets /\ \A x \in InFlight : len[x] \in Int
<1>1. PICK c : c = thr["consumer"]
  OBVIOUS
<1>2. c.pkts \in Seq(Packets) /\ c.i \in Nat /\ Len(c.pkts) \in Nat /\ ring \in Seq(Packets)
  BY <1>1, TypeFacts, Zenon
<1>3. Range(c.pkts) \subseteq Packets /\ \A k \in 1..Len(c.pkts) : c.pkts[k] \in Range(c.pkts)
  BY <1>2, RangeOfSeq, Zenon
<1>4. \A k \in c.i+1..Len(c.pkts) : k \in 1..Len(c.pkts)
  BY <1>2, SMT
<1>5. InFlight \subseteq Range(ring) \cup Burst
  BY <1>1, <1>3, <1>4, Zenon DEF InFlight, Burst
<1>6. Range(ring) \subseteq Packets
  BY <1>2, RangeOfSeq, Zenon
<1>7. InFlight \subseteq Packets
  BY <1>1, <1>3, <1>5, <1>6, Zenon DEF Burst
<1>8. IsFiniteSet(Packets)
  BY FS_Interval, BatchAssumption, SMT DEF Packets
<1>9. IsFiniteSet(InFlight)
  BY <1>7, <1>8, FS_Subset, Zenon
<1>10. \A x \in Packets : len[x] \in Int
  <2>1. \A x \in Packets : len[x] \in Nat
    BY LenIsNat
  <2> QED
    BY <2>1, SMT
<1> QED
  BY <1>5, <1>7, <1>9, <1>10, Zenon

\* Every step moves a packet's len from accepted to queued to processed.
LEMMA BytesStep ==
  ASSUME PoolInv, BytesAccounted, [Next]_vars
  PROVE  BytesAccounted'
<1> USE DEF PoolInv
<1>0. /\ InFlight \subseteq Range(ring) \cup Burst /\ IsFiniteSet(InFlight)
      /\ InFlight \subseteq Packets /\ \A x \in InFlight : len[x] \in Int
  BY InFlightFacts, Zenon
<1>1. /\ stats \in [pkts_processed : Nat, pkts_dropped : Nat, bytes_processed : Nat, bursts : Nat]
      /\ thr \in [Threads -> ThreadState] /\ accepted \in Nat /\ ring \in Seq(Packets)
      /\ \A x \in Packets : len[x] \in Nat
  BY TypeFacts, LenIsNat, Zenon DEF TypeOK
<1>2. accepted = stats.bytes_processed + SumOver(len, InFlight) /\ SumOver(len, InFlight) \in Int
  BY <1>0, SumInt, Zenon DEF BytesAccounted
<1>3. CASE alloc_packet
  <2>1. PICK p : p = slots[ftail % PoolSize]
    OBVIOUS
  <2>2. /\ UNCHANGED <<ring, thr, stats, accepted>> /\ fhead # ftail
        /\ \E n \in Lens : len' = [len EXCEPT ![p] = n]
    BY <1>3, <2>1, Zenon DEF alloc_packet, FreeListEmpty
  <2>3. p \notin InFlight
    BY <1>0, <2>1, <2>2, FreeIsFree, Zenon
  <2>4. len \in [Packets -> Lens \cup {0}]
    BY DEF TypeOK
  <2>5. \A x \in InFlight : len'[x] = len[x]
    BY <1>0, <2>2, <2>3, <2>4, Zenon
  <2>6. InFlight' = InFlight
    BY <2>2, Zenon DEF InFlight
  <2>7. PICK f, g, S : f = len /\ g = len' /\ S = InFlight
    OBVIOUS
  <2>8. SumOver(f, S) = SumOver(g, S)
    BY <1>0, <2>5, <2>7, SumSame, Zenon
  <2> QED
    BY <1>2, <2>2, <2>6, <2>7, <2>8, Zenon DEF BytesAccounted
<1>4. ASSUME NEW p \in Packets, send(p) PROVE BytesAccounted'
  <2>1. p \in held /\ len' = len
    BY <1>4, Zenon DEF send
  <2>2. CASE RingFull /\ Drop(p) /\ UNCHANGED <<ring, accepted>>
    <3>1. stats'.bytes_processed = stats.bytes_processed
      BY <1>1, <2>2, Zenon DEF Drop
    <3>2. thr'["consumer"] = thr["consumer"]
      BY <1>1, <2>2, SMT DEF Drop, Threads
    <3>3. InFlight' = InFlight
      BY <2>2, <3>2, Zenon DEF InFlight
    <3> QED
      BY <1>2, <2>1, <2>2, <3>1, <3>3, Zenon DEF BytesAccounted
  <2>3. CASE ring' = Append(ring, p) /\ accepted' = accepted + len[p] /\ UNCHANGED <<stats, thr>>
    <3>1. Range(ring') = Range(ring) \cup {p}
      <4>1. ring \in Seq(Packets)
        BY <1>1
      <4>2. Range(Append(ring, p)) = Range(ring) \cup {p}
        BY <4>1, RangeAppend
      <4> QED
        BY <2>3, <4>2, Zenon
    <3>2. InFlight' = InFlight \cup {p}
      BY <2>3, <3>1, Zenon DEF InFlight
    <3>3. p \notin InFlight
      BY <1>0, <2>1, HeldIsHeld, Zenon
    <3>4. PICK f, S : f = len /\ S = InFlight
      OBVIOUS
    <3>5. f[p] \in Nat /\ f[p] \in Int
      BY <1>1, <3>4, SMT
    <3>6. SumOver(f, S \cup {p}) = SumOver(f, S) + f[p]
      BY <1>0, <3>3, <3>4, <3>5, SumAdd, Zenon
    <3>7. accepted' = stats.bytes_processed + (SumOver(f, S) + f[p])
      BY <1>1, <1>2, <2>3, <3>4, <3>5, SMT
    <3> QED
      BY <2>1, <2>3, <3>2, <3>4, <3>6, <3>7, Zenon DEF BytesAccounted
  <2> QED
    BY <1>4, <2>2, <2>3, Zenon DEF send
<1>5. CASE process_burst
  <2>1. PICK n : n = IF BURST_SIZE < Len(ring) THEN BURST_SIZE ELSE Len(ring)
    OBVIOUS
  <2>2. n \in 0..Len(ring) /\ n \in Nat
    BY <1>1, <2>1, BatchAssumption, SMT
  <2>3. PICK a : a = SubSeq(ring, 1, n)
    BY Zenon
  <2>4. /\ thr["consumer"].pc = "outside" /\ UNCHANGED <<len, stats, accepted>>
        /\ thr' = [thr EXCEPT !["consumer"] = [Outside EXCEPT !.pc = "handle", !.pkts = a]]
        /\ ring' = SubSeq(ring, n + 1, Len(ring))
    BY <1>5, <2>1, <2>3, Zenon DEF process_burst, MayCall
  <2>5. a \in Seq(Packets) /\ Range(ring) = Range(a) \cup Range(ring')
    BY <1>1, <2>2, <2>3, <2>4, RangeSplit, Zenon
  <2>6. thr'["consumer"].pc = "handle" /\ thr'["consumer"].pkts = a /\ thr'["consumer"].i = 0
    BY <1>1, <2>4, Zenon DEF Threads, Outside
  <2>7. {a[k] : k \in 0+1..Len(a)} = Range(a)
    <3>1. DOMAIN a = 0+1..Len(a)
      BY <2>5, SMT
    <3> QED
      BY <3>1, Zenon DEF Range
  <2>8. InFlight' = Range(ring') \cup Range(a)
    BY <2>6, <2>7, Zenon DEF InFlight
  <2>9. InFlight = Range(ring)
    <3>1. thr["consumer"].pc # "handle"
      BY <2>4
    <3> QED
      BY <3>1, Zenon DEF InFlight
  <2>10. InFlight' = InFlight
    BY <2>5, <2>8, <2>9, Zenon
  <2> QED
    BY <1>2, <2>4, <2>10, Zenon DEF BytesAccounted
<1>6. CASE HandleOne
  <2>1. PICK c : c = thr["consumer"]
    OBVIOUS
  <2>2. /\ c \in ThreadState /\ c.i \in Nat /\ Len(c.pkts) \in Nat /\ c.pkts \in Seq(Packets)
    BY <2>1, TypeFacts, Zenon
  <2>3. /\ c.pc = "handle" /\ c.i < Len(c.pkts) /\ UNCHANGED <<ring, len, accepted>>
        /\ thr' = [thr EXCEPT !["consumer"].i = @ + 1]
        /\ stats' = [stats EXCEPT !.bytes_processed = @ + len[c.pkts[c.i + 1]]]
    BY <1>6, <2>1, Zenon DEF HandleOne
  <2>4. /\ thr'["consumer"].pc = "handle" /\ thr'["consumer"].pkts = c.pkts
        /\ thr'["consumer"].i = c.i + 1
    BY <1>1, <2>1, <2>3, SMT DEF Threads, ThreadState
  <2>5. PICK q : q = c.pkts[c.i + 1]
    OBVIOUS
  <2>6. c.i + 1 \in 1..Len(c.pkts) /\ q \in Packets
    BY <2>2, <2>3, <2>5, SMT
  <2>7. q \notin Range(ring) /\ \A k \in 1..Len(c.pkts) : c.pkts[k] = q => k = c.i + 1
    BY <2>1, <2>5, <2>6, BurstIsDistinct, Zenon
  <2>8. InFlight = Range(ring) \cup {c.pkts[k] : k \in c.i+1..Len(c.pkts)}
    BY <2>1, <2>3, Zenon DEF InFlight
  <2>9. InFlight' = Range(ring) \cup {c.pkts[k] : k \in (c.i+1)+1..Len(c.pkts)}
    BY <2>3, <2>4, Zenon DEF InFlight
  <2>10. InFlight = InFlight' \cup {q}
    <3>1. /\ \A k \in c.i+1..Len(c.pkts) : k = c.i + 1 \/ k \in (c.i+1)+1..Len(c.pkts)
          /\ \A k \in (c.i+1)+1..Len(c.pkts) : k \in c.i+1..Len(c.pkts)
          /\ c.i + 1 \in c.i+1..Len(c.pkts)
      BY <2>2, <2>3, SMT
    <3>2. InFlight \subseteq InFlight' \cup {q}
      BY <2>5, <2>8, <2>9, <3>1, Zenon
    <3>3. InFlight' \subseteq InFlight /\ q \in InFlight
      BY <2>5, <2>8, <2>9, <3>1, Zenon
    <3> QED
      BY <3>2, <3>3, Zenon
  <2>11. q \notin InFlight'
    <3>1. \A k \in (c.i+1)+1..Len(c.pkts) : k \in 1..Len(c.pkts) /\ k # c.i + 1
      BY <2>2, SMT
    <3> QED
      BY <2>7, <2>9, <3>1, Zenon
  <2>12. PICK f, S : f = len /\ S = InFlight'
    OBVIOUS
  <2>13. IsFiniteSet(S) /\ \A x \in S \cup {q} : f[x] \in Int
    <3>1. S \subseteq InFlight /\ S \cup {q} = InFlight
      BY <2>10, <2>12, Zenon
    <3> QED
      BY <1>0, <2>12, <3>1, FS_Subset, Zenon
  <2>14. SumOver(f, S \cup {q}) = SumOver(f, S) + f[q]
    BY <2>11, <2>12, <2>13, SumAdd, Zenon
  <2>15. SumOver(f, S) \in Int /\ f[q] \in Int
    BY <2>13, SumInt, Zenon
  <2>16. stats'.bytes_processed = stats.bytes_processed + f[q]
    BY <1>1, <2>3, <2>5, <2>12, Zenon
  <2>17. accepted = stats.bytes_processed + (SumOver(f, S) + f[q])
    BY <1>2, <2>10, <2>12, <2>14, Zenon
  <2>18. accepted = (stats.bytes_processed + f[q]) + SumOver(f, S)
    BY <1>1, <2>15, <2>17, SMT
  <2> QED
    BY <2>3, <2>12, <2>16, <2>18, Zenon DEF BytesAccounted
<1>7. CASE FinishBurst
  <2>1. PICK c : c = thr["consumer"]
    OBVIOUS
  <2>2. /\ c.pc = "handle" /\ c.i = Len(c.pkts) /\ UNCHANGED <<ring, len, accepted>>
        /\ stats'.bytes_processed = stats.bytes_processed
    BY <1>1, <1>7, <2>1, Zenon DEF FinishBurst, LoopDone, CountBurst
  <2>3. thr'["consumer"].pc = "freeLoad"
    BY <1>1, <1>7, SMT DEF FinishBurst, Threads, ThreadState
  <2>4. Len(c.pkts) \in Nat
    BY <2>1, TypeFacts, Zenon
  <2>5. ~ \E k : k \in c.i+1..Len(c.pkts)
    BY <2>2, <2>4, SMT
  <2>6. InFlight = Range(ring)
    BY <2>1, <2>5, Zenon DEF InFlight
  <2>7. InFlight' = Range(ring)
    <3>1. thr'["consumer"].pc # "handle"
      BY <2>3
    <3> QED
      BY <2>2, <3>1, Zenon DEF InFlight
  <2> QED
    BY <1>2, <2>2, <2>6, <2>7, Zenon DEF BytesAccounted
<1>8. ASSUME NEW t \in Threads, FreeLoad(t) \/ FreeWrite(t) \/ FreeStore(t) PROVE BytesAccounted'
  <2>1. /\ UNCHANGED <<stats, ring, len, accepted>>
        /\ thr["consumer"].pc # "handle" /\ thr'["consumer"].pc # "handle"
    BY <1>8, FreeStepQuiet, Zenon
  <2>2. InFlight' = InFlight
    BY <2>1, Zenon DEF InFlight
  <2> QED
    BY <1>2, <2>1, <2>2, Zenon DEF BytesAccounted
<1>9. CASE UNCHANGED vars
  <2>1. InFlight' = InFlight
    BY <1>9, Zenon DEF vars, InFlight
  <2> QED
    BY <1>2, <1>9, <2>1, Zenon DEF vars, BytesAccounted
<1> QED
  BY <1>3, <1>4, <1>5, <1>6, <1>7, <1>8, <1>9, Zenon DEF Next

\* bytes_processed and the queued lengths are exactly the bytes accepted: a
\* packet's len is never rewritten while the consumer still has to count it
\* (packet_processor.h:91-94).
THEOREM BytesAddUp == Spec /\ Supported => []BytesAccounted
<1>1. Init => BytesAccounted
  <2>1. Init => InFlight = {}
    BY SMT DEF Init, InFlight, Outside, Threads, Range
  <2>2. ASSUME NEW f PROVE SumOver(f, {}) = 0
    BY SumEmpty
  <2>3. PICK f : f = len
    OBVIOUS
  <2>4. SumOver(f, {}) = 0
    BY <2>2, Zenon
  <2>5. Init => accepted = 0 /\ stats.bytes_processed = 0
    BY DEF Init
  <2>6. 0 = 0 + 0
    BY SMT
  <2> QED
    BY <2>1, <2>3, <2>4, <2>5, <2>6, Zenon DEF BytesAccounted
<1>2. PoolInv /\ BytesAccounted /\ [Next]_vars => BytesAccounted'
  BY BytesStep
<1> QED
  BY <1>1, <1>2, PoolInvHolds, PTL DEF Spec
=============================================================================
