----------------------------- MODULE TcpTracer -----------------------------
(***************************************************************************)
(* bpf/tcp_tracer.bpf.c: the kprobe programs trace_tcp_connect and         *)
(* trace_tcp_close, the pending_connects hash, the filters array and the   *)
(* tcp_events ring buffer.                                                 *)
(*                                                                         *)
(* Programs triggered by different threads run on different CPUs and       *)
(* interleave at every map or ring-buffer helper; each helper call is one  *)
(* step.  A socket is followed through its life by a program counter.  Of  *)
(* an event the model keeps the connection (the address four-tuple), its   *)
(* destination port, the pid, the action and the bytes (bytes_tx stands    *)
(* for both directions).                                                   *)
(*                                                                         *)
(* pending_connects is a preallocated hash: a lookup returns a pointer to  *)
(* an element, an update links a free element in place of the old one, a   *)
(* delete unlinks it, and an unlinked element may be reused at once, while *)
(* another program still reads it.                                         *)
(***************************************************************************)
EXTENDS Integers, Sequences, FiniteSets

CONSTANTS
  Sockets, Pids, Conns,
  PidOf, ConnOf, PortOf, BytesOf,  \* per socket: process, four-tuple, port, bytes
  Accepted,      \* sockets that come from accept: tcp_connect never runs
  MaxEntries,    \* max_entries of pending_connects (4096)
  Elems,         \* its preallocated elements
  Profiles,      \* runs to consider: see profile
  None

Ports == {p \in Nat : 0 < p /\ p <= 65535}

ASSUME TracerAssumption ==
  /\ PidOf \in [Sockets -> Pids] /\ ConnOf \in [Sockets -> Conns]
  /\ PortOf \in [Sockets -> Ports] /\ BytesOf \in [Sockets -> Nat]
  /\ Accepted \subseteq Sockets /\ MaxEntries \in Nat \ {0}
  /\ Cardinality(Elems) > MaxEntries
  /\ Profiles \subseteq [socks : SUBSET Sockets, oneAtATime : BOOLEAN, cap : Nat,
                         pid : Nat, port : Ports \cup {0}]
  /\ None \notin Elems /\ Pids \subseteq Nat \ {0}

VARIABLES
  profile,   \* socks: the sockets there are; oneAtATime: a process finishes
             \* a connection before the next; cap: records tcp_events holds;
             \* pid, port: the filters map, written before the programs run
  spc,       \* per socket, where its current program is
  pending,   \* pending_connects: pid -> element or None
  elems,     \* contents of the elements
  ptr,       \* per socket, what trace_tcp_close's lookup returned
  rb,        \* tcp_events: reserved and submitted records, oldest first
  lost       \* history: <<socket, action>> whose reserve failed

tracerVars == <<profile, spc, pending, elems, ptr, rb, lost>>

\* The socket keeps its port in network order, which a little-endian load
\* sees swapped; the programs swap it back.
bswap16(p) == (p % 256) * 256 + p \div 256
skc_dport(s) == bswap16(PortOf[s])
dport(s) == bswap16(skc_dport(s))

Event(s, action, bytes) ==
  [conn |-> ConnOf[s], pid |-> PidOf[s], port |-> dport(s), action |-> action, bytes |-> bytes]

TracerInit ==
  /\ profile \in Profiles
  /\ spc = [s \in Sockets |-> "new"]
  /\ pending = [p \in Pids |-> None]
  /\ elems = [e \in Elems |-> None]
  /\ ptr = [s \in Sockets |-> None]
  /\ rb = <<>> /\ lost = {}

Goto(s, where) == spc' = [spc EXCEPT ![s] = where]

\* A four-tuple is used again only after its last socket is closed.
MayStart(s) ==
  /\ s \in profile.socks
  /\ \A u \in Sockets \ {s} :
       ConnOf[u] = ConnOf[s] \/ (profile.oneAtATime /\ PidOf[u] = PidOf[s])
         => spc[u] \in {"new", "closed"}

-----------------------------------------------------------------------------
(* tcp_events *)

\* Names with an underscore are the definition that follows with one bug
\* planted in it; each breaks a property, and no specification uses them.
HasRoom_unchecked == TRUE
HasRoom == Len(rb) < profile.cap

Reserve(s, ev) == rb' = Append(rb, [sock |-> s, busy |-> TRUE, ev |-> ev])

\* The busy record of socket s gets new contents, and is submitted or not.
Put(s, ev, busy) ==
  rb' = [i \in DOMAIN rb |-> IF rb[i].sock = s /\ rb[i].busy
                               THEN [sock |-> s, busy |-> busy, ev |-> ev] ELSE rb[i]]

Mine(s) == rb[CHOOSE i \in DOMAIN rb : rb[i].sock = s /\ rb[i].busy].ev

-----------------------------------------------------------------------------
(* trace_tcp_connect *)

should_filter_pidIgnored(p, port) == profile.port # 0 /\ profile.port % 65536 # port
should_filter(p, port) ==
  \/ profile.pid # 0 /\ profile.pid # p
  \/ profile.port # 0 /\ profile.port % 65536 # port

trace_tcp_connect(s) ==
  /\ spc[s] = "new" /\ s \notin Accepted /\ MayStart(s)
  /\ Goto(s, IF should_filter(PidOf[s], dport(s)) THEN "open" ELSE "update")
  /\ UNCHANGED <<profile, pending, elems, ptr, rb, lost>>

Linked == {pending[p] : p \in Pids} \ {None}

\* bpf_map_update_elem(BPF_ANY): fails, unnoticed, for a new key in a full map.
UpdatePending(s) ==
  /\ spc[s] = "update"
  /\ \/ /\ pending[PidOf[s]] = None /\ Cardinality(Linked) >= MaxEntries
        /\ UNCHANGED <<pending, elems>>
     \/ /\ pending[PidOf[s]] # None \/ Cardinality(Linked) < MaxEntries
        /\ \E e \in Elems \ Linked :
             /\ elems' = [elems EXCEPT ![e] = Event(s, "connect", 0)]
             /\ pending' = [pending EXCEPT ![PidOf[s]] = e]
  /\ Goto(s, "reserve")
  /\ UNCHANGED <<profile, ptr, rb, lost>>

ConnectReserve(s) ==
  /\ spc[s] = "reserve"
  /\ \/ HasRoom /\ Reserve(s, None) /\ Goto(s, "submit") /\ UNCHANGED lost
     \/ /\ ~HasRoom /\ Goto(s, "open")
        /\ lost' = lost \cup {<<s, "connect">>} /\ UNCHANGED rb
  /\ UNCHANGED <<profile, pending, elems, ptr>>

ConnectSubmit(s) ==
  /\ spc[s] = "submit"
  /\ Put(s, Event(s, "connect", 0), FALSE)
  /\ Goto(s, "open")
  /\ UNCHANGED <<profile, pending, elems, ptr, lost>>

-----------------------------------------------------------------------------
(* trace_tcp_close *)

\* pid_tgid >> 32
LookupKey_constant(s) == CHOOSE p \in Pids : TRUE
LookupKey(s) == PidOf[s]

\* bpf_map_lookup_elem; should_filter is not consulted.
trace_tcp_close(s) ==
  /\ spc[s] = "open" \/ (spc[s] = "new" /\ s \in Accepted /\ MayStart(s))
  /\ ptr' = [ptr EXCEPT ![s] = pending[LookupKey(s)]]
  /\ Goto(s, "closeReserve")
  /\ UNCHANGED <<profile, pending, elems, rb, lost>>

\* A full ring buffer ends the program: the pending entry stays.
CloseReserve(s) ==
  /\ spc[s] = "closeReserve"
  /\ \/ HasRoom /\ Reserve(s, None) /\ Goto(s, "copy") /\ UNCHANGED lost
     \/ /\ ~HasRoom /\ Goto(s, "closed")
        /\ lost' = lost \cup {<<s, "close">>} /\ UNCHANGED rb
  /\ UNCHANGED <<profile, pending, elems, ptr>>

\* *rbev = *pending, through the pointer; or the fields from the socket.
Copy(s) ==
  /\ spc[s] = "copy"
  /\ \/ ptr[s] # None /\ Put(s, elems[ptr[s]], TRUE) /\ Goto(s, "delete")
     \/ ptr[s] = None /\ Put(s, Event(s, "close", 0), TRUE) /\ Goto(s, "fill")
  /\ UNCHANGED <<profile, pending, elems, ptr, lost>>

Deleted_kept(s) == pending
Deleted(s) == [pending EXCEPT ![PidOf[s]] = None]

DeletePending(s) ==
  /\ spc[s] = "delete"
  /\ pending' = Deleted(s)
  /\ Goto(s, "fill")
  /\ UNCHANGED <<profile, elems, ptr, rb, lost>>

Filled(s) == [Mine(s) EXCEPT !.action = "close", !.bytes = BytesOf[s]]

\* timestamp, action, byte counters, bpf_ringbuf_submit
CloseSubmit_noSubmit(s) ==
  /\ spc[s] = "fill"
  /\ Put(s, Filled(s), TRUE)
  /\ Goto(s, "closed")
  /\ UNCHANGED <<profile, pending, elems, ptr, lost>>
CloseSubmit(s) ==
  /\ spc[s] = "fill"
  /\ Put(s, Filled(s), FALSE)
  /\ Goto(s, "closed")
  /\ UNCHANGED <<profile, pending, elems, ptr, lost>>

ProgramStep(s) == \/ UpdatePending(s) \/ ConnectReserve(s) \/ ConnectSubmit(s)
                  \/ CloseReserve(s) \/ Copy(s) \/ DeletePending(s) \/ CloseSubmit(s)

TracerNext(s) == trace_tcp_connect(s) \/ trace_tcp_close(s) \/ ProgramStep(s)
=============================================================================
