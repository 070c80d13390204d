------------------------------ MODULE NetStats ------------------------------
(***************************************************************************)
(* bpf/net_stats.bpf.c: the XDP program xdp_net_stats, which counts frames *)
(* per protocol in a per-CPU hash and in total in a per-CPU array.         *)
(*                                                                         *)
(* The program runs on several CPUs at once, never twice on one CPU; each  *)
(* helper call, with the counting in place that follows it, is one step.   *)
(* An element of the per-CPU hash has one value per CPU: a lookup returns  *)
(* this CPU's, an update by a program writes this CPU's, and inserting an  *)
(* element zeroes the others.                                              *)
(***************************************************************************)
EXTENDS Integers, FiniteSets, Sums

CONSTANTS
  Cpus, Frames,
  FrameOf,      \* FrameOf[f]: eth_type, proto and len of a frame
  ProtoEntries, \* max_entries of proto_stats (16)
  NoFrame

ASSUME FrameAssumption ==
  /\ IsFiniteSet(Cpus) /\ ProtoEntries \in Nat /\ NoFrame \notin Frames
  /\ FrameOf \in [Frames -> [eth_type : {"IP", "IPV6", "ARP"}, proto : Nat, len : Nat]]

VARIABLES
  proto_stats,    \* protocol -> CPU -> [packets, bytes]
  total_packets,  \* CPU -> frames seen
  at,             \* CPU -> "idle", "total", "lookup", "update"
  frame,          \* CPU -> the frame it looks at
  seen,           \* history: frames the program has finished with
  refused         \* history: frames whose insertion failed

vars == <<proto_stats, total_packets, at, frame, seen, refused>>

Zero == [packets |-> 0, bytes |-> 0]

Init ==
  /\ proto_stats = <<>> /\ total_packets = [u \in Cpus |-> 0]
  /\ at = [u \in Cpus |-> "idle"] /\ frame = [u \in Cpus |-> NoFrame]
  /\ seen = {} /\ refused = {}

Arrive(u) ==
  /\ at[u] = "idle"
  /\ \E f \in Frames \ (seen \cup {frame[v] : v \in Cpus}) : frame' = [frame EXCEPT ![u] = f]
  /\ at' = [at EXCEPT ![u] = "total"]
  /\ UNCHANGED <<proto_stats, total_packets, seen, refused>>

\* The program returns XDP_PASS.
Pass(u) ==
  /\ seen' = seen \cup {frame[u]}
  /\ at' = [at EXCEPT ![u] = "idle"] /\ frame' = [frame EXCEPT ![u] = NoFrame]

ETHHDR == 14
IPHDR == 20
IPV6HDR == 40

\* The headers are inside the frame (the tests against data_end).
CountsFrame(fr) ==
  \/ fr.eth_type = "IP" /\ ETHHDR + IPHDR <= fr.len
  \/ fr.eth_type = "IPV6" /\ ETHHDR + IPV6HDR <= fr.len

\* xdp_net_stats up to count_packet.
CountTotal(u) ==
  /\ at[u] = "total"
  /\ total_packets' = [total_packets EXCEPT ![u] = @ + 1]
  /\ \/ /\ CountsFrame(FrameOf[frame[u]])
        /\ at' = [at EXCEPT ![u] = "lookup"] /\ UNCHANGED <<frame, seen>>
     \/ ~CountsFrame(FrameOf[frame[u]]) /\ Pass(u)
  /\ UNCHANGED <<proto_stats, refused>>

Proto(u) == FrameOf[frame[u]].proto

\* count_packet: the lookup, and the counting in place when it finds a value.
Lookup(u) ==
  /\ at[u] = "lookup"
  /\ \/ /\ Proto(u) \in DOMAIN proto_stats
        /\ proto_stats' = [proto_stats EXCEPT ![Proto(u)][u] =
             [packets |-> @.packets + 1, bytes |-> @.bytes + FrameOf[frame[u]].len]]
        /\ Pass(u)
     \/ /\ Proto(u) \notin DOMAIN proto_stats
        /\ at' = [at EXCEPT ![u] = "update"]
        /\ UNCHANGED <<proto_stats, frame, seen>>
  /\ UNCHANGED <<total_packets, refused>>

\* Names with an underscore are the definition that follows with one bug
\* planted in it; each breaks a property, and no specification uses them.
Element_shared(p, u, val) == [v \in Cpus |-> IF v = u THEN val ELSE Zero]
\* The values of an element after this CPU wrote val.
Element(p, u, val) ==
  [v \in Cpus |-> IF v = u THEN val
                  ELSE IF p \in DOMAIN proto_stats THEN proto_stats[p][v] ELSE Zero]

MapFull_offByOne == Cardinality(DOMAIN proto_stats) > ProtoEntries
MapFull == Cardinality(DOMAIN proto_stats) >= ProtoEntries

\* bpf_map_update_elem(BPF_ANY), some time after the lookup: another CPU may
\* have inserted the key.  A full map refuses a new key, unnoticed.
Update(u) ==
  LET p == Proto(u)
      val == [packets |-> 1, bytes |-> FrameOf[frame[u]].len]
  IN
  /\ at[u] = "update"
  /\ \/ /\ p \in DOMAIN proto_stats \/ ~MapFull
        /\ proto_stats' = [q \in DOMAIN proto_stats \cup {p} |->
                             IF q = p THEN Element(p, u, val) ELSE proto_stats[q]]
        /\ UNCHANGED refused
     \/ /\ p \notin DOMAIN proto_stats /\ MapFull
        /\ refused' = refused \cup {frame[u]} /\ UNCHANGED proto_stats
  /\ Pass(u)
  /\ UNCHANGED total_packets

Next == \E u \in Cpus : Arrive(u) \/ CountTotal(u) \/ Lookup(u) \/ Update(u)

Spec == Init /\ [][Next]_vars

-----------------------------------------------------------------------------
\* Per-CPU values keep their types and the hash its size.
TypeOK ==
  /\ DOMAIN proto_stats \subseteq {FrameOf[f].proto : f \in Frames}
  /\ Cardinality(DOMAIN proto_stats) <= ProtoEntries
  /\ \A p \in DOMAIN proto_stats : proto_stats[p] \in [Cpus -> [packets : Nat, bytes : Nat]]
  /\ total_packets \in [Cpus -> Nat] /\ at \in [Cpus -> {"idle", "total", "lookup", "update"}]
  /\ frame \in [Cpus -> Frames \cup {NoFrame}] /\ seen \subseteq Frames /\ refused \subseteq seen

Shortest == [t \in {"IP", "IPV6"} |-> IF t = "IP" THEN 34 ELSE 54]

\* Finished frames of protocol p with a whole header, minus those refused.
Expected(p) == {f \in seen \ refused : /\ FrameOf[f].eth_type \in DOMAIN Shortest
                                       /\ FrameOf[f].len >= Shortest[FrameOf[f].eth_type]
                                       /\ FrameOf[f].proto = p}

\* What CPU u counted of protocol p.
Cell(p, u) == IF p \in DOMAIN proto_stats THEN proto_stats[p][u] ELSE Zero
Packets(p) == [u \in Cpus |-> Cell(p, u).packets]
Bytes(p) == [u \in Cpus |-> Cell(p, u).bytes]
Lengths == [f \in Frames |-> FrameOf[f].len]

\* The repository's README.md:10, "per-protocol packet/byte counts": the sums
\* over CPUs are exact, also when two CPUs insert a protocol at once; only a
\* full map loses frames.
CountsExact ==
  \A p \in {FrameOf[f].proto : f \in Frames} :
    /\ SumOver(Packets(p), Cpus) = Cardinality(Expected(p))
    /\ SumOver(Bytes(p), Cpus) = SumOver(Lengths, Expected(p))
=============================================================================
