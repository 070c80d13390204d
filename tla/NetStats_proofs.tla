--------------------------- MODULE NetStats_proofs ---------------------------
(***************************************************************************)
(* The per-protocol counts of xdp_net_stats are exact for any number of    *)
(* CPUs, frames and protocols.                                             *)
(***************************************************************************)
EXTENDS NetStats, Sums_proofs

Protos == {FrameOf[f].proto : f \in Frames}
Values == [packets : Nat, bytes : Nat]

\* A busy CPU has a frame of its own that no CPU has finished with.
FrameInv ==
  /\ at \in [Cpus -> {"idle", "total", "lookup", "update"}]
  /\ frame \in [Cpus -> Frames \cup {NoFrame}]
  /\ \A u \in Cpus : at[u] # "idle" => frame[u] \in Frames \ seen
  /\ \A u, v \in Cpus : u # v /\ at[u] # "idle" => frame[u] # frame[v]
  /\ \A u \in Cpus : at[u] \in {"lookup", "update"} => CountsFrame(FrameOf[frame[u]])
  /\ seen \subseteq Frames /\ IsFiniteSet(seen) /\ refused \subseteq seen

\* A CPU about to insert a protocol has counted nothing of it.
CellInv ==
  /\ DOMAIN proto_stats \subseteq Protos
  /\ proto_stats \in [DOMAIN proto_stats -> [Cpus -> Values]]
  /\ \A u \in Cpus : at[u] = "update" => Cell(Proto(u), u) = Zero

SizeInv ==
  /\ IsFiniteSet(DOMAIN proto_stats) /\ Cardinality(DOMAIN proto_stats) <= ProtoEntries
  /\ total_packets \in [Cpus -> Nat]

StatsInv == FrameInv /\ CellInv /\ SizeInv /\ CountsExact

-----------------------------------------------------------------------------
\* A cell holds two naturals.
LEMMA CellType ==
  ASSUME CellInv, NEW p, NEW u \in Cpus
  PROVE  Cell(p, u) \in Values
BY DEF CellInv, Cell, Values, Zero

\* The headers are inside the frame exactly when it has the shortest length.
LEMMA CountsWhenLong ==
  ASSUME NEW f \in Frames
  PROVE  CountsFrame(FrameOf[f]) <=> /\ FrameOf[f].eth_type \in DOMAIN Shortest
                                     /\ FrameOf[f].len >= Shortest[FrameOf[f].eth_type]
<1>1. FrameOf[f].eth_type \in {"IP", "IPV6", "ARP"} /\ FrameOf[f].len \in Nat
  BY FrameAssumption
<1>2. DOMAIN Shortest = {"IP", "IPV6"} /\ Shortest["IP"] = 34 /\ Shortest["IPV6"] = 54
  BY DEF Shortest
<1> QED
  BY <1>1, <1>2 DEF CountsFrame, ETHHDR, IPHDR, IPV6HDR

\* Expected sets are finite and hold frames.
LEMMA ExpectedType ==
  ASSUME FrameInv, NEW p
  PROVE  IsFiniteSet(Expected(p)) /\ Expected(p) \subseteq seen \ refused /\ Cardinality(Expected(p)) \in Nat
<1>1. Expected(p) \subseteq seen \ refused
  BY DEF Expected
<1>2. IsFiniteSet(Expected(p))
  BY <1>1, FS_Subset DEF FrameInv
<1> QED
  BY <1>1, <1>2, FS_CardinalityType

\* A step that counts frame[u] in its own cell keeps the counts exact.
LEMMA CountingKeeps ==
  ASSUME FrameInv, CellInv, CellInv', CountsExact, NEW u \in Cpus, at[u] \in {"lookup", "update"},
         seen' = seen \cup {frame[u]}, refused' = refused, NEW p, p = Proto(u),
         Cell(p, u)' = [packets |-> Cell(p, u).packets + 1,
                        bytes |-> Cell(p, u).bytes + FrameOf[frame[u]].len],
         \A q \in Protos : \A v \in Cpus : q # p \/ v # u => Cell(q, v)' = Cell(q, v)
  PROVE  CountsExact'
<1> SUFFICES ASSUME NEW q \in Protos
             PROVE  /\ SumOver(Packets(q)', Cpus) = Cardinality(Expected(q)')
                    /\ SumOver(Bytes(q)', Cpus) = SumOver(Lengths, Expected(q)')
  BY DEF CountsExact, Protos, Lengths
<1> DEFINE f == frame[u]
<1>1. f \in Frames \ seen /\ f \notin refused /\ p = FrameOf[f].proto /\ FrameOf[f].len \in Nat
  BY FrameAssumption DEF FrameInv, Proto
<1>2. /\ SumOver(Packets(q), Cpus) = Cardinality(Expected(q))
      /\ SumOver(Bytes(q), Cpus) = SumOver(Lengths, Expected(q))
  BY DEF CountsExact, Protos
<1>3. \A v \in Cpus : /\ Packets(q)[v] = Cell(q, v).packets /\ Packets(q)'[v] = Cell(q, v)'.packets
                      /\ Bytes(q)[v] = Cell(q, v).bytes /\ Bytes(q)'[v] = Cell(q, v)'.bytes
                      /\ Packets(q)[v] \in Int /\ Bytes(q)[v] \in Int
                      /\ Packets(q)'[v] \in Int /\ Bytes(q)'[v] \in Int
  <2>1. \A v \in Cpus : Cell(q, v) \in Values /\ Cell(q, v)' \in Values
    <3>1. \A v \in Cpus : Cell(q, v) \in Values
      BY CellType
    <3>2. \A v \in Cpus : Cell(q, v)' \in Values
      BY DEF CellInv, Cell, Values, Zero
    <3> QED
      BY <3>1, <3>2
  <2> QED
    BY <2>1 DEF Packets, Bytes, Values
<1>4. IsFiniteSet(Expected(q)) /\ f \notin Expected(q) /\ Cardinality(Expected(q)) \in Nat
  BY <1>1, ExpectedType
<1>5. CASE q = p
  <2>1. Expected(q)' = Expected(q) \cup {f}
    <3>1. CountsFrame(FrameOf[f])
      BY DEF FrameInv
    <3> QED
      BY <1>1, <1>5, <3>1, CountsWhenLong DEF Expected
  <2>2. Cardinality(Expected(q)') = Cardinality(Expected(q)) + 1
    BY <1>4, <2>1, FS_AddElement
  <2>3. SumOver(Lengths, Expected(q) \cup {f}) = SumOver(Lengths, Expected(q)) + Lengths[f]
    <3>1. \A x \in Expected(q) \cup {f} : Lengths[x] \in Int
      <4>1. Expected(q) \cup {f} \subseteq Frames
        BY <1>1, ExpectedType DEF FrameInv
      <4> QED
        BY <4>1, FrameAssumption DEF Lengths
    <3> QED
      BY <1>4, <3>1, SumAdd
  <2>4. SumOver(Packets(q)', Cpus) = SumOver(Packets(q), Cpus) + (Packets(q)'[u] - Packets(q)[u])
    BY <1>3, <1>5, FrameAssumption, SumChange
  <2>5. SumOver(Bytes(q)', Cpus) = SumOver(Bytes(q), Cpus) + (Bytes(q)'[u] - Bytes(q)[u])
    BY <1>3, <1>5, FrameAssumption, SumChange
  <2>6. Packets(q)'[u] - Packets(q)[u] = 1 /\ Bytes(q)'[u] - Bytes(q)[u] = FrameOf[f].len
    BY <1>1, <1>3, <1>5
  <2>7. SumOver(Lengths, Expected(q)') = SumOver(Lengths, Expected(q)) + FrameOf[f].len
    BY <1>1, <2>1, <2>3 DEF Lengths
  <2> QED
    BY <1>2, <1>4, <2>2, <2>4, <2>5, <2>6, <2>7
<1>6. CASE q # p
  <2>1. Expected(q)' = Expected(q)
    BY <1>1, <1>6 DEF Expected
  <2>2. SumOver(Packets(q)', Cpus) = SumOver(Packets(q), Cpus) /\ SumOver(Bytes(q)', Cpus) = SumOver(Bytes(q), Cpus)
    BY <1>3, <1>6, FrameAssumption, SumSame
  <2> QED
    BY <1>2, <2>1, <2>2
<1> QED
  BY <1>5, <1>6

\* Steps that leave cells and expected frames alone keep the counts exact.
LEMMA SameCounts ==
  ASSUME CountsExact, proto_stats' = proto_stats, \A p \in Protos : Expected(p)' = Expected(p)
  PROVE  CountsExact'
<1> SUFFICES ASSUME NEW q \in Protos
             PROVE  /\ SumOver(Packets(q)', Cpus) = Cardinality(Expected(q)')
                    /\ SumOver(Bytes(q)', Cpus) = SumOver(Lengths, Expected(q)')
  BY DEF CountsExact, Protos, Lengths
<1>1. Packets(q)' = Packets(q) /\ Bytes(q)' = Bytes(q)
  BY DEF Packets, Bytes, Cell
<1>2. Expected(q)' = Expected(q)
  OBVIOUS
<1>3. /\ SumOver(Packets(q), Cpus) = Cardinality(Expected(q))
      /\ SumOver(Bytes(q), Cpus) = SumOver(Lengths, Expected(q))
  BY DEF CountsExact, Protos
<1> QED
  BY <1>1, <1>2, <1>3, Zenon

\* Nothing is counted and nothing expected at first.
LEMMA StatsInitially == Init => StatsInv
<1> SUFFICES ASSUME Init PROVE StatsInv
  OBVIOUS
<1>1. IsFiniteSet({}) /\ Cardinality({}) = 0
  BY FS_EmptySet
<1>2. DOMAIN proto_stats = {}
  BY DEF Init
<1>3. FrameInv
  BY <1>1 DEF Init, FrameInv
<1>4. CellInv
  BY <1>2 DEF Init, CellInv
<1>5. SizeInv
  BY <1>1, <1>2, FrameAssumption DEF Init, SizeInv
<1>6. CountsExact
  <2> SUFFICES ASSUME NEW q \in Protos
               PROVE  /\ SumOver(Packets(q), Cpus) = Cardinality(Expected(q))
                      /\ SumOver(Bytes(q), Cpus) = SumOver(Lengths, Expected(q))
    BY DEF CountsExact, Protos
  <2>1. Expected(q) = {}
    BY DEF Init, Expected
  <2> DEFINE zeros == [u \in Cpus |-> 0]
  <2>2. Packets(q) = zeros /\ Bytes(q) = zeros
    BY <1>2 DEF Packets, Bytes, Cell, Zero
  <2>3. SumOver(zeros, Cpus) = 0
    BY FrameAssumption, SumZero
  <2> HIDE DEF zeros
  <2>4. SumOver(Packets(q), Cpus) = 0 /\ SumOver(Bytes(q), Cpus) = 0
    BY <2>2, <2>3, Zenon
  <2>5. SumOver(Lengths, Expected(q)) = 0 /\ Cardinality(Expected(q)) = 0
    BY <1>1, <2>1, SumEmpty, Zenon
  <2> QED
    BY <2>4, <2>5
<1> QED
  BY <1>3, <1>4, <1>5, <1>6 DEF StatsInv

\* A step of CPU u that ends its program leaves every other CPU its frame.
LEMMA PassKeeps ==
  ASSUME FrameInv, NEW u \in Cpus, at[u] # "idle", Pass(u), refused' \subseteq refused \cup {frame[u]}
  PROVE  FrameInv'
<1>1. seen' = seen \cup {frame[u]} /\ at' = [at EXCEPT ![u] = "idle"] /\ frame' = [frame EXCEPT ![u] = NoFrame]
  BY DEF Pass
<1>2. IsFiniteSet(seen')
  BY <1>1, FS_AddElement DEF FrameInv
<1>3. seen' \subseteq Frames /\ refused' \subseteq seen'
  BY <1>1 DEF FrameInv
<1>4. at' \in [Cpus -> {"idle", "total", "lookup", "update"}] /\ frame' \in [Cpus -> Frames \cup {NoFrame}]
  BY <1>1 DEF FrameInv
<1>5. \A v \in Cpus : at'[v] # "idle" => v # u /\ at'[v] = at[v] /\ frame'[v] = frame[v]
  BY <1>1 DEF FrameInv
<1>6. \A v \in Cpus : at'[v] # "idle" => frame'[v] \in Frames \ seen'
  BY <1>1, <1>5 DEF FrameInv
<1>7. \A v, w \in Cpus : v # w /\ at'[v] # "idle" => frame'[v] # frame'[w]
  BY <1>1, <1>5, FrameAssumption DEF FrameInv
<1>8. \A v \in Cpus : at'[v] \in {"lookup", "update"} => CountsFrame(FrameOf[frame'[v]])
  BY <1>5 DEF FrameInv
<1> QED
  BY <1>2, <1>3, <1>4, <1>6, <1>7, <1>8 DEF FrameInv

\* A frame that is not counted is expected nowhere.
LEMMA NotExpected ==
  ASSUME FrameInv, NEW f \in Frames \ seen, seen' = seen \cup {f},
         \/ ~CountsFrame(FrameOf[f]) /\ refused' = refused
         \/ refused' = refused \cup {f},
         NEW p
  PROVE  Expected(p)' = Expected(p)
<1>1. CASE refused' = refused \cup {f}
  BY <1>1 DEF Expected, FrameInv
<1>2. CASE ~CountsFrame(FrameOf[f]) /\ refused' = refused
  <2>1. ~(/\ FrameOf[f].eth_type \in DOMAIN Shortest
          /\ FrameOf[f].len >= Shortest[FrameOf[f].eth_type])
    BY <1>2, CountsWhenLong
  <2> QED
    BY <1>2, <2>1 DEF Expected
<1> QED
  BY <1>1, <1>2

-----------------------------------------------------------------------------
\* A frame arrives.
LEMMA ArriveKeeps ==
  ASSUME StatsInv, NEW u \in Cpus, Arrive(u)
  PROVE  StatsInv'
<1>1. PICK f \in Frames \ (seen \cup {frame[v] : v \in Cpus}) : frame' = [frame EXCEPT ![u] = f]
  BY DEF Arrive
<1>2. at[u] = "idle" /\ at' = [at EXCEPT ![u] = "total"] /\ UNCHANGED <<proto_stats, total_packets, seen, refused>>
  BY DEF Arrive
<1>3. FrameInv'
  <2>1. /\ at' \in [Cpus -> {"idle", "total", "lookup", "update"}]
        /\ frame' \in [Cpus -> Frames \cup {NoFrame}]
    BY <1>1, <1>2 DEF StatsInv, FrameInv
  <2>2. /\ \A v \in Cpus : v # u => at'[v] = at[v] /\ frame'[v] = frame[v]
        /\ at'[u] = "total" /\ frame'[u] = f
    BY <1>1, <1>2 DEF StatsInv, FrameInv
  <2>3. \A v \in Cpus : at'[v] # "idle" => frame'[v] \in Frames \ seen'
    BY <1>1, <1>2, <2>2 DEF StatsInv, FrameInv
  <2>4. \A v, w \in Cpus : v # w /\ at'[v] # "idle" => frame'[v] # frame'[w]
    BY <1>1, <2>2 DEF StatsInv, FrameInv
  <2>5. \A v \in Cpus : at'[v] \in {"lookup", "update"} => CountsFrame(FrameOf[frame'[v]])
    BY <2>2 DEF StatsInv, FrameInv
  <2> QED
    BY <1>2, <2>1, <2>3, <2>4, <2>5 DEF StatsInv, FrameInv
<1>4. CellInv'
  <2>1. \A v \in Cpus : at'[v] = "update" => at[v] = "update" /\ frame'[v] = frame[v]
    BY <1>1, <1>2 DEF StatsInv, FrameInv
  <2> QED
    BY <1>2, <2>1 DEF StatsInv, CellInv, Cell, Proto
<1>5. SizeInv'
  BY <1>2 DEF StatsInv, SizeInv
<1>6. CountsExact'
  BY <1>2, SameCounts DEF StatsInv, Expected
<1> QED
  BY <1>3, <1>4, <1>5, <1>6 DEF StatsInv

\* total_packets, and the end of the program for a frame that is not counted.
LEMMA CountTotalKeeps ==
  ASSUME StatsInv, NEW u \in Cpus, CountTotal(u)
  PROVE  StatsInv'
<1>1. at[u] = "total" /\ UNCHANGED <<proto_stats, refused>>
  BY DEF CountTotal
<1>2. SizeInv'
  BY DEF CountTotal, StatsInv, SizeInv
<1>3. CASE CountsFrame(FrameOf[frame[u]]) /\ at' = [at EXCEPT ![u] = "lookup"] /\ UNCHANGED <<frame, seen>>
  <2>1. FrameInv'
    BY <1>1, <1>3 DEF StatsInv, FrameInv
  <2>2. CellInv'
    <3>1. \A v \in Cpus : at'[v] = "update" => at[v] = "update"
      BY <1>3 DEF StatsInv, FrameInv
    <3> QED
      BY <1>1, <1>3, <3>1 DEF StatsInv, CellInv, Cell, Proto
  <2>3. CountsExact'
    BY <1>1, <1>3, SameCounts DEF StatsInv, Expected
  <2> QED
    BY <1>2, <2>1, <2>2, <2>3 DEF StatsInv
<1>4. CASE ~CountsFrame(FrameOf[frame[u]]) /\ Pass(u)
  <2>1. FrameInv'
    BY <1>1, <1>4, PassKeeps DEF StatsInv
  <2>2. CellInv'
    <3>1. \A v \in Cpus : at'[v] = "update" => at[v] = "update" /\ frame'[v] = frame[v]
      BY <1>4 DEF StatsInv, FrameInv, Pass
    <3> QED
      BY <1>1, <3>1 DEF StatsInv, CellInv, Cell, Proto
  <2>3. CountsExact'
    <3>1. frame[u] \in Frames \ seen /\ seen' = seen \cup {frame[u]}
      BY <1>1, <1>4 DEF StatsInv, FrameInv, Pass
    <3>2. \A p \in Protos : Expected(p)' = Expected(p)
      BY <1>1, <1>4, <3>1, NotExpected DEF StatsInv
    <3> QED
      BY <1>1, <3>2, SameCounts DEF StatsInv
  <2> QED
    BY <1>2, <2>1, <2>2, <2>3 DEF StatsInv
<1> QED
  BY <1>3, <1>4 DEF CountTotal

\* The cells after CPU u wrote one of them.
LEMMA CellKeeps ==
  ASSUME StatsInv, NEW u \in Cpus, at[u] \in {"lookup", "update"}, Pass(u), NEW p, p = Proto(u),
         NEW val \in Values, DOMAIN proto_stats' = DOMAIN proto_stats \cup {p},
         proto_stats' \in [DOMAIN proto_stats' -> [Cpus -> Values]],
         \A q \in Protos : \A v \in Cpus : Cell(q, v)' = IF q = p /\ v = u THEN val ELSE Cell(q, v)
  PROVE  CellInv'
<1>1. p \in Protos
  BY DEF StatsInv, FrameInv, Proto, Protos
<1>2. ASSUME NEW v \in Cpus, at'[v] = "update" PROVE Cell(Proto(v), v)' = Zero
  <2>1. v # u /\ at[v] = "update" /\ frame'[v] = frame[v]
    BY <1>2 DEF StatsInv, FrameInv, Pass
  <2>2. PICK q : q = Proto(v)
    OBVIOUS
  <2>3. q \in Protos /\ Proto(v)' = q
    BY <2>1, <2>2 DEF StatsInv, FrameInv, Proto, Protos
  <2>4. Cell(q, v)' = Cell(q, v) /\ Cell(q, v) = Zero
    BY <2>1, <2>2, <2>3 DEF StatsInv, CellInv
  <2> QED
    BY <2>3, <2>4 DEF Cell
<1> QED
  BY <1>1, <1>2 DEF StatsInv, CellInv

\* What a CPU's write of its own cell keeps, in place or by an insertion.
LEMMA WriteKeeps ==
  ASSUME StatsInv, NEW u \in Cpus, at[u] \in {"lookup", "update"}, Pass(u), refused' = refused,
         NEW p, p = Proto(u), NEW val \in Values,
         val = [packets |-> Cell(p, u).packets + 1, bytes |-> Cell(p, u).bytes + FrameOf[frame[u]].len],
         DOMAIN proto_stats' = DOMAIN proto_stats \cup {p},
         proto_stats' \in [DOMAIN proto_stats' -> [Cpus -> Values]],
         \A q \in Protos : \A v \in Cpus : Cell(q, v)' = IF q = p /\ v = u THEN val ELSE Cell(q, v)
  PROVE  FrameInv' /\ CellInv' /\ CountsExact'
<1>1. FrameInv'
  BY PassKeeps DEF StatsInv
<1>2. CellInv'
  BY CellKeeps
<1>3. seen' = seen \cup {frame[u]}
  BY DEF Pass
<1>4. p \in Protos
  BY DEF StatsInv, FrameInv, Proto, Protos
<1>5. Cell(p, u)' = [packets |-> Cell(p, u).packets + 1, bytes |-> Cell(p, u).bytes + FrameOf[frame[u]].len]
  BY <1>4
<1>6. CountsExact'
  BY <1>2, <1>3, <1>5, CountingKeeps DEF StatsInv
<1> QED
  BY <1>1, <1>2, <1>6

\* The counting in place, or the decision to insert.
LEMMA LookupKeeps ==
  ASSUME StatsInv, NEW u \in Cpus, Lookup(u)
  PROVE  StatsInv'
<1>1. at[u] = "lookup" /\ UNCHANGED <<total_packets, refused>>
  BY DEF Lookup
<1>2. PICK p : p = Proto(u)
  OBVIOUS
<1>3. CASE p \in DOMAIN proto_stats /\ Pass(u)
             /\ proto_stats' = [proto_stats EXCEPT ![p][u] =
                  [packets |-> @.packets + 1, bytes |-> @.bytes + FrameOf[frame[u]].len]]
  <2>1. PICK val : val = [packets |-> Cell(p, u).packets + 1, bytes |-> Cell(p, u).bytes + FrameOf[frame[u]].len]
    OBVIOUS
  <2>2. FrameOf[frame[u]].len \in Nat
    BY <1>1, FrameAssumption DEF StatsInv, FrameInv
  <2>3. Cell(p, u) = proto_stats[p][u] /\ proto_stats[p] \in [Cpus -> Values] /\ Cell(p, u) \in Values
    BY <1>3 DEF StatsInv, CellInv, Cell
  <2>4. proto_stats' = [proto_stats EXCEPT ![p] = [proto_stats[p] EXCEPT ![u] = val]]
    BY <1>3, <2>1, <2>3
  <2>5. val \in Values
    BY <2>1, <2>2, <2>3 DEF Values
  <2>6. /\ DOMAIN proto_stats' = DOMAIN proto_stats
        /\ proto_stats' \in [DOMAIN proto_stats' -> [Cpus -> Values]]
    <3>1. proto_stats \in [DOMAIN proto_stats -> [Cpus -> Values]]
      BY DEF StatsInv, CellInv
    <3>2. [proto_stats[p] EXCEPT ![u] = val] \in [Cpus -> Values]
      BY <2>3, <2>5
    <3> QED
      BY <1>3, <2>4, <3>1, <3>2
  <2>7. \A q \in Protos : \A v \in Cpus : Cell(q, v)' = IF q = p /\ v = u THEN val ELSE Cell(q, v)
    BY <1>3, <2>3, <2>4, <2>6 DEF Cell
  <2>8. DOMAIN proto_stats' = DOMAIN proto_stats \cup {p}
    BY <1>3, <2>6
  <2>9. FrameInv' /\ CellInv' /\ CountsExact'
    <3>1. Pass(u) /\ refused' = refused /\ at[u] \in {"lookup", "update"}
      BY <1>1, <1>3
    <3>2. proto_stats' \in [DOMAIN proto_stats' -> [Cpus -> Values]]
      BY <2>6
    <3> QED
      BY <1>2, <2>1, <2>5, <2>7, <2>8, <3>1, <3>2, WriteKeeps
  <2>10. SizeInv'
    BY <1>1, <2>6 DEF StatsInv, SizeInv
  <2> QED
    BY <2>9, <2>10 DEF StatsInv
<1>4. CASE p \notin DOMAIN proto_stats /\ at' = [at EXCEPT ![u] = "update"]
             /\ UNCHANGED <<proto_stats, frame, seen>>
  <2>1. FrameInv'
    BY <1>1, <1>4 DEF StatsInv, FrameInv
  <2>2. CellInv'
    <3>1. \A v \in Cpus : at'[v] = "update" => at[v] = "update" \/ v = u
      BY <1>4 DEF StatsInv, FrameInv
    <3>2. Cell(Proto(u), u) = Zero
      BY <1>2, <1>4 DEF Cell
    <3> QED
      BY <1>4, <3>1, <3>2 DEF StatsInv, CellInv, Cell, Proto
  <2>3. CountsExact'
    BY <1>1, <1>4, SameCounts DEF StatsInv, Expected
  <2>4. SizeInv'
    BY <1>1, <1>4 DEF StatsInv, SizeInv
  <2> QED
    BY <2>1, <2>2, <2>3, <2>4 DEF StatsInv
<1> QED
  BY <1>2, <1>3, <1>4 DEF Lookup

\* The insertion: it writes this CPU's empty cell and no other CPU's, or the
\* map is full and refuses the frame.
LEMMA UpdateKeeps ==
  ASSUME StatsInv, NEW u \in Cpus, Update(u)
  PROVE  StatsInv'
<1>1. at[u] = "update" /\ Pass(u) /\ UNCHANGED total_packets
  BY DEF Update
<1>2. PICK p : p = Proto(u)
  OBVIOUS
<1>3. PICK val : val = [packets |-> 1, bytes |-> FrameOf[frame[u]].len]
  OBVIOUS
<1>4. frame[u] \in Frames \ seen /\ FrameOf[frame[u]].len \in Nat /\ p \in Protos
  BY <1>1, <1>2, FrameAssumption DEF StatsInv, FrameInv, Proto, Protos
<1>5. CASE /\ p \in DOMAIN proto_stats \/ ~MapFull
           /\ proto_stats' = [q \in DOMAIN proto_stats \cup {p} |->
                                IF q = p THEN Element(p, u, val) ELSE proto_stats[q]]
           /\ UNCHANGED refused
  <2>1. val \in Values
    BY <1>3, <1>4 DEF Values
  <2>2. Cell(p, u) = Zero
    BY <1>1, <1>2 DEF StatsInv, CellInv
  <2>3. val = [packets |-> Cell(p, u).packets + 1, bytes |-> Cell(p, u).bytes + FrameOf[frame[u]].len]
    BY <1>3, <1>4, <2>2 DEF Zero
  <2>4. proto_stats \in [DOMAIN proto_stats -> [Cpus -> Values]]
    BY DEF StatsInv, CellInv
  <2>5. Element(p, u, val) \in [Cpus -> Values]
    BY <2>1, <2>4 DEF Element, Values, Zero
  <2>6. \A v \in Cpus : Element(p, u, val)[v] = IF v = u THEN val ELSE Cell(p, v)
    BY DEF Element, Cell
  <2>7. DOMAIN proto_stats' = DOMAIN proto_stats \cup {p}
    BY <1>5
  <2>8. proto_stats' \in [DOMAIN proto_stats' -> [Cpus -> Values]]
    BY <1>5, <2>4, <2>5
  <2>9. \A q \in Protos : \A v \in Cpus : Cell(q, v)' = IF q = p /\ v = u THEN val ELSE Cell(q, v)
    BY <1>5, <2>6, <2>7 DEF Cell
  <2>10. FrameInv' /\ CellInv' /\ CountsExact'
    BY <1>1, <1>2, <1>5, <2>1, <2>3, <2>7, <2>8, <2>9, WriteKeeps
  <2>11. SizeInv'
    <3>1. IsFiniteSet(DOMAIN proto_stats) /\ Cardinality(DOMAIN proto_stats) <= ProtoEntries
          /\ Cardinality(DOMAIN proto_stats) \in Nat /\ total_packets \in [Cpus -> Nat]
      BY FS_CardinalityType DEF StatsInv, SizeInv
    <3>2. CASE p \in DOMAIN proto_stats
      <4>1. DOMAIN proto_stats' = DOMAIN proto_stats
        BY <2>7, <3>2
      <4> QED
        BY <1>1, <3>1, <4>1 DEF SizeInv
    <3>3. CASE p \notin DOMAIN proto_stats
      <4>1. /\ IsFiniteSet(DOMAIN proto_stats \cup {p})
            /\ Cardinality(DOMAIN proto_stats \cup {p}) = Cardinality(DOMAIN proto_stats) + 1
        BY <3>1, <3>3, FS_AddElement
      <4>2. Cardinality(DOMAIN proto_stats) < ProtoEntries
        BY <1>5, <3>1, <3>3, FrameAssumption DEF MapFull
      <4>3. /\ IsFiniteSet(DOMAIN proto_stats')
            /\ Cardinality(DOMAIN proto_stats') = Cardinality(DOMAIN proto_stats) + 1
        BY <2>7, <4>1, Zenon
      <4> QED
        BY <1>1, <3>1, <4>2, <4>3, FrameAssumption DEF SizeInv
    <3> QED
      BY <3>2, <3>3
  <2> QED
    BY <2>10, <2>11 DEF StatsInv
<1>6. CASE p \notin DOMAIN proto_stats /\ refused' = refused \cup {frame[u]} /\ UNCHANGED proto_stats
  <2>1. FrameInv'
    BY <1>1, <1>6, PassKeeps DEF StatsInv
  <2>2. CellInv'
    <3>1. \A v \in Cpus : at'[v] = "update" => at[v] = "update" /\ frame'[v] = frame[v]
      BY <1>1 DEF StatsInv, FrameInv, Pass
    <3> QED
      BY <1>6, <3>1 DEF StatsInv, CellInv, Cell, Proto
  <2>3. CountsExact'
    <3>1. seen' = seen \cup {frame[u]}
      BY <1>1 DEF Pass
    <3>2. \A q \in Protos : Expected(q)' = Expected(q)
      BY <1>4, <1>6, <3>1, NotExpected DEF StatsInv
    <3> QED
      BY <1>6, <3>2, SameCounts DEF StatsInv
  <2>4. SizeInv'
    BY <1>1, <1>6 DEF StatsInv, SizeInv
  <2> QED
    BY <2>1, <2>2, <2>3, <2>4 DEF StatsInv
<1> QED
  BY <1>2, <1>3, <1>5, <1>6 DEF Update

\* Every step keeps the inductive invariant.
LEMMA StatsStep == StatsInv /\ [Next]_vars => StatsInv'
<1> SUFFICES ASSUME StatsInv, [Next]_vars PROVE StatsInv'
  OBVIOUS
<1>1. CASE Next
  BY <1>1, ArriveKeeps, CountTotalKeeps, LookupKeeps, UpdateKeeps DEF Next
<1>2. CASE UNCHANGED vars
  <2>1. FrameInv' /\ CellInv' /\ SizeInv'
    BY <1>2 DEF vars, StatsInv, FrameInv, CellInv, SizeInv, Cell, Proto
  <2>2. CountsExact'
    BY <1>2, SameCounts DEF vars, StatsInv, Expected
  <2> QED
    BY <2>1, <2>2 DEF StatsInv
<1> QED
  BY <1>1, <1>2

\* The hash never holds more than max_entries protocols, a CPU works on one
\* frame, and only frames the program finished with were refused.
THEOREM StatsTypeCorrect == Spec => []TypeOK
<1>1. StatsInv => TypeOK
  BY DEF StatsInv, FrameInv, CellInv, SizeInv, TypeOK, Protos, Values
<1> QED
  BY <1>1, StatsInitially, StatsStep, PTL DEF Spec

\* Per protocol, the sums over the CPUs' cells are the number and the bytes
\* of the frames counted, whatever insertions of one protocol race.
THEOREM ProtocolCountsExact == Spec => []CountsExact
<1>1. StatsInv => CountsExact
  BY DEF StatsInv
<1> QED
  BY <1>1, StatsInitially, StatsStep, PTL DEF Spec
=============================================================================
