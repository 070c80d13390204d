-------------------------- MODULE TcpTracer_proofs --------------------------
(***************************************************************************)
(* The programs of TcpTracer inside the pipeline: what their records hold, *)
(* that each event is submitted once, and that pending_connects follows    *)
(* the sockets; for every set of sockets and processes, every filter, and  *)
(* every size of the map and the ring buffer.                              *)
(***************************************************************************)
EXTENDS TcpAccounting, TLAPS

-----------------------------------------------------------------------------
(* Ports and records.                                                      *)

\* Swapping the bytes of a port twice gives the port (tcp_tracer.bpf.c:57).
LEMMA SwapTwice ==
  ASSUME NEW p \in Ports
  PROVE  bswap16(bswap16(p)) = p
<1> DEFINE lo == p % 256  hi == p \div 256
<1>1. p \in Nat /\ p <= 65535
  BY SMT DEF Ports
<1>2. lo \in 0..255
  BY <1>1, SMT
<1>3. hi \in Nat /\ p = 256 * hi + lo
  BY <1>1, SMT
<1>4. bswap16(p) = lo * 256 + hi
  BY SMT DEF bswap16
<1> HIDE DEF lo, hi
<1>5. hi \in 0..255
  BY <1>1, <1>2, <1>3, SMT
<1>6. (lo * 256 + hi) % 256 = hi /\ (lo * 256 + hi) \div 256 = lo
  BY <1>2, <1>5, SMT
<1>7. bswap16(bswap16(p)) = hi * 256 + lo
  BY <1>4, <1>6, SMT DEF bswap16
<1> QED
  BY <1>2, <1>3, <1>5, <1>7, SMT

\* The port a program compares and reports is the socket's port.
LEMMA PortSurvives ==
  ASSUME NEW s \in Sockets
  PROVE  dport(s) = PortOf[s] /\ PortOf[s] \in Ports
<1>1. PortOf[s] \in Ports
  BY TracerAssumption
<1> QED
  BY <1>1, SwapTwice DEF dport, skc_dport

Events == [conn : Conns, pid : Pids, port : Ports, action : {"connect", "close"}, bytes : Nat]
Records == [sock : Sockets, busy : BOOLEAN, ev : Events \cup {None}]

\* What a program writes about its own socket is an event.
LEMMA EventType ==
  ASSUME NEW s \in Sockets, NEW action \in {"connect", "close"}, NEW n \in Nat
  PROVE  /\ Event(s, action, n) \in Events
         /\ Key(Event(s, action, n)) = <<ConnOf[s], PidOf[s], PortOf[s]>>
         /\ Event(s, action, n).action = action
  BY PortSurvives, TracerAssumption DEF Event, Events, Key

\* A socket that passes the filter has a traced connection.
LEMMA FilterTraces ==
  ASSUME NEW s \in Sockets, profile \in Profiles, ~should_filter(PidOf[s], dport(s))
  PROVE  Traced(<<ConnOf[s], PidOf[s], PortOf[s]>>)
<1>1. profile.pid = 0 \/ profile.pid = PidOf[s]
  BY DEF should_filter
<1>2. profile.port \in Ports \cup {0}
  BY TracerAssumption
<1>3. \A p \in Ports \cup {0} : p % 65536 = p
  BY SMT DEF Ports
<1>4. profile.port = 0 \/ profile.port = PortOf[s]
  BY <1>2, <1>3, PortSurvives, SMT DEF should_filter
<1> QED
  BY <1>1, <1>4, Zenon DEF Traced

-----------------------------------------------------------------------------
(* The ring buffer as a set of records.                                    *)

Recs == {rb[i] : i \in DOMAIN rb}

\* bpf_ringbuf_reserve adds a busy record.
LEMMA RecsReserve ==
  ASSUME NEW s \in Sockets, rb \in Seq(Records), Reserve(s, None)
  PROVE  /\ rb' \in Seq(Records)
         /\ Recs' = Recs \cup {[sock |-> s, busy |-> TRUE, ev |-> None]}
<1> DEFINE r == [sock |-> s, busy |-> TRUE, ev |-> None]
<1>1. r \in Records /\ rb' = Append(rb, r)
  BY DEF Records, Reserve
<1> HIDE DEF r
<1>2. /\ DOMAIN rb = 1..Len(rb) /\ Len(rb) \in Nat
      /\ rb' \in Seq(Records) /\ DOMAIN rb' = 1..Len(rb)+1
      /\ \A i \in 1..Len(rb) : rb'[i] = rb[i]
      /\ rb'[Len(rb)+1] = r
  BY <1>1
<1>3. \A i : i \in 1..Len(rb)+1 <=> i \in 1..Len(rb) \/ i = Len(rb)+1
  BY <1>2
<1>4. Recs' = Recs \cup {r}
  BY <1>2, <1>3 DEF Recs
<1> QED
  BY <1>2, <1>4 DEF r

\* Writing or submitting a socket's record changes that record only.
LEMMA RecsPut ==
  ASSUME NEW s \in Sockets, rb \in Seq(Records), NEW ev \in Events, NEW busy \in BOOLEAN,
         Put(s, ev, busy)
  PROVE  /\ rb' \in Seq(Records)
         /\ \A r \in Recs' : r \in Recs \/ r = [sock |-> s, busy |-> busy, ev |-> ev]
         /\ \A r \in Recs : r \in Recs' \/ (r.sock = s /\ r.busy)
         /\ \A r \in Recs' : r.sock = s /\ r.busy => r = [sock |-> s, busy |-> busy, ev |-> ev]
         /\ (\E r \in Recs : r.sock = s /\ r.busy) => [sock |-> s, busy |-> busy, ev |-> ev] \in Recs'
<1> DEFINE n == [sock |-> s, busy |-> busy, ev |-> ev]
<1>1. n \in Records
  BY DEF Records
<1>2. /\ DOMAIN rb = 1..Len(rb) /\ Len(rb) \in Nat /\ \A i \in 1..Len(rb) : rb[i] \in Records
  OBVIOUS
<1>3. rb' = [i \in 1..Len(rb) |-> IF rb[i].sock = s /\ rb[i].busy THEN n ELSE rb[i]]
  BY <1>2 DEF Put
<1> HIDE DEF n
<1>4. \A i \in 1..Len(rb) : rb'[i] = IF rb[i].sock = s /\ rb[i].busy THEN n ELSE rb[i]
  BY <1>3
<1>5. rb' \in Seq(Records) /\ DOMAIN rb' = 1..Len(rb)
  <2>1. rb' \in [1..Len(rb) -> Records]
    BY <1>1, <1>2, <1>3
  <2> QED
    BY <1>2, <2>1
<1> QED
  BY <1>2, <1>4, <1>5 DEF Recs, n

\* Consuming the oldest record removes at most that one.
LEMMA RecsPoll ==
  ASSUME rb \in Seq(Records), rb # <<>>, rb' = Tail(rb)
  PROVE  /\ rb' \in Seq(Records) /\ Head(rb) \in Recs
         /\ Recs' \subseteq Recs /\ Recs \subseteq Recs' \cup {Head(rb)}
<1>1. /\ DOMAIN rb = 1..Len(rb) /\ Len(rb) \in Nat /\ Len(rb) >= 1
  OBVIOUS
<1>2. /\ rb' \in Seq(Records) /\ Head(rb) = rb[1] /\ Len(rb') = Len(rb) - 1
      /\ DOMAIN rb' = 1..Len(rb)-1
      /\ \A i \in 1..Len(rb)-1 : rb'[i] = rb[i+1]
  BY <1>1
<1>3. Head(rb) \in Recs
  BY <1>1, <1>2 DEF Recs
<1>4. ASSUME NEW r \in Recs' PROVE r \in Recs
  <2>1. PICK i \in 1..Len(rb)-1 : r = rb'[i]
    BY <1>2 DEF Recs
  <2>2. r = rb[i+1] /\ i + 1 \in DOMAIN rb
    BY <1>1, <1>2, <2>1
  <2> QED
    BY <2>2 DEF Recs
<1>5. ASSUME NEW r \in Recs PROVE r \in Recs' \/ r = Head(rb)
  <2>1. PICK i \in 1..Len(rb) : r = rb[i]
    BY <1>1 DEF Recs
  <2>2. CASE i = 1
    BY <1>2, <2>1, <2>2
  <2>3. CASE i # 1
    <3>1. i - 1 \in 1..Len(rb)-1 /\ (i - 1) + 1 = i
      BY <1>1, <2>3
    <3>2. rb'[i-1] = r /\ i - 1 \in DOMAIN rb'
      BY <1>2, <2>1, <3>1
    <3> QED
      BY <3>2, Zenon DEF Recs
  <2> QED
    BY <2>2, <2>3
<1> QED
  BY <1>2, <1>3, <1>4, <1>5

-----------------------------------------------------------------------------
(* The programs.  A program past the filter is about a traced connection;  *)
(* pointers lead to elements that hold an event; a program that fills its  *)
(* record has one; what is submitted is an event, and traced if a connect. *)

PastFilter == {"update", "reserve", "submit"}
Filling == {"copy", "delete", "fill"}

HeapInv ==
  /\ pending \in [Pids -> Elems \cup {None}] /\ ptr \in [Sockets -> Elems \cup {None}]
  /\ elems \in [Elems -> Events \cup {None}]
  /\ \A p \in Pids : pending[p] # None => elems[pending[p]] \in Events
  /\ \A s \in Sockets : ptr[s] # None => elems[ptr[s]] \in Events

StageInv ==
  /\ profile \in Profiles /\ spc \in [Sockets -> Stages]
  /\ \A s \in Sockets : spc[s] \in PastFilter => ~should_filter(PidOf[s], dport(s))

Good(r) == ~r.busy => r.ev \in Events /\ (r.ev.action = "connect" => Traced(Key(r.ev)))
Owns(s) == \E r \in Recs : r.sock = s /\ r.busy
Written(s) == \A r \in Recs : r.sock = s /\ r.busy => r.ev \in Events

RecordInv ==
  /\ rb \in Seq(Records)
  /\ \A r \in Recs : Good(r)
  /\ \A s \in Sockets : spc[s] \in Filling => Owns(s)
  /\ \A s \in Sockets : spc[s] \in {"delete", "fill"} => Written(s)

TracerInv == HeapInv /\ StageInv /\ RecordInv

\* Nothing has happened yet.
LEMMA TracerInitially == TracerInit => TracerInv
<1> SUFFICES ASSUME TracerInit PROVE TracerInv
  OBVIOUS
<1>1. HeapInv
  BY DEF TracerInit, HeapInv
<1>2. StageInv
  BY DEF TracerInit, StageInv, Stages, PastFilter
<1>3. Recs = {} /\ rb \in Seq(Records)
  BY DEF TracerInit, Recs
<1>4. RecordInv
  BY <1>3 DEF TracerInit, RecordInv, Filling
<1> QED
  BY <1>1, <1>2, <1>4 DEF TracerInv

\* A program may go on where its filter, if consulted, let it.
LEMMA StageKeeps ==
  ASSUME StageInv, NEW s \in Sockets, NEW where \in Stages, Goto(s, where), profile' = profile,
         where \in PastFilter => ~should_filter(PidOf[s], dport(s))
  PROVE  StageInv'
<1>1. spc' = [spc EXCEPT ![s] = where] /\ spc \in [Sockets -> Stages]
  BY DEF Goto, StageInv
<1>2. spc' \in [Sockets -> Stages] /\ \A u \in Sockets : spc'[u] = IF u = s THEN where ELSE spc[u]
  BY <1>1
<1>3. ASSUME NEW u \in Sockets, spc'[u] \in PastFilter
      PROVE  ~should_filter(PidOf[u], dport(u))
  BY <1>2, <1>3, Zenon DEF StageInv
<1>4. \A u \in Sockets : should_filter(PidOf[u], dport(u))' <=> should_filter(PidOf[u], dport(u))
  BY SMT DEF should_filter, dport, skc_dport, bswap16
<1> QED
  BY <1>2, <1>3, <1>4 DEF StageInv

\* Without a call on the ring buffer, a program keeps its record.
LEMMA SameRecords ==
  ASSUME RecordInv, StageInv, NEW s \in Sockets, NEW where \in Stages, Goto(s, where),
         UNCHANGED <<profile, rb>>,
         where \in Filling => spc[s] = "delete" /\ where = "fill"
  PROVE  RecordInv'
<1>1. \A u \in Sockets : spc'[u] = IF u = s THEN where ELSE spc[u]
  BY DEF Goto, StageInv
<1>2. Recs' = Recs /\ rb' \in Seq(Records)
  BY DEF Recs, RecordInv
<1>3. \A r : Good(r)' <=> Good(r)
  BY Zenon DEF Good, Traced, Key
<1>4. \A u \in Sockets : (Owns(u)' <=> Owns(u)) /\ (Written(u)' <=> Written(u))
  BY <1>2, Zenon DEF Owns, Written
<1>5. ASSUME NEW u \in Sockets
      PROVE  /\ spc'[u] \in Filling => Owns(u)'
             /\ spc'[u] \in {"delete", "fill"} => Written(u)'
  BY <1>1, <1>4 DEF RecordInv, Filling
<1> QED
  BY <1>2, <1>3, <1>5 DEF RecordInv

\* A reservation gives the program a record of its own.
LEMMA ReserveKeeps ==
  ASSUME RecordInv, StageInv, NEW s \in Sockets, NEW where \in {"submit", "copy"}, Goto(s, where),
         profile' = profile, Reserve(s, None)
  PROVE  RecordInv'
<1> DEFINE new == [sock |-> s, busy |-> TRUE, ev |-> None]
<1>1. \A u \in Sockets : spc'[u] = IF u = s THEN where ELSE spc[u]
  BY DEF Goto, StageInv
<1>2. rb' \in Seq(Records) /\ Recs' = Recs \cup {new}
  BY RecsReserve DEF RecordInv
<1>3. new.sock = s /\ new.busy
  OBVIOUS
<1> HIDE DEF new
<1>4. \A r : Good(r)' <=> Good(r)
  BY Zenon DEF Good, Traced, Key
<1>5. \A r \in Recs' : Good(r)'
  BY <1>2, <1>3, <1>4 DEF RecordInv, Good
<1>6. ASSUME NEW u \in Sockets
      PROVE  /\ spc'[u] \in Filling => Owns(u)'
             /\ spc'[u] \in {"delete", "fill"} => Written(u)'
  <2>1. CASE u = s
    BY <1>1, <1>2, <1>3, <2>1 DEF Owns
  <2>2. CASE u # s
    BY <1>1, <1>2, <1>3, <2>2 DEF Owns, Written, RecordInv
  <2> QED
    BY <2>1, <2>2
<1> QED
  BY <1>2, <1>5, <1>6 DEF RecordInv

\* Writing an event into the program's own record, and submitting it, is
\* harmless when a submitted connect is traced.
LEMMA PutKeeps ==
  ASSUME RecordInv, StageInv, NEW s \in Sockets, NEW where \in Stages, Goto(s, where),
         profile' = profile, NEW ev \in Events, NEW busy \in BOOLEAN, Put(s, ev, busy),
         ~busy /\ ev.action = "connect" => Traced(Key(ev)),
         where \in Filling => busy /\ spc[s] \in Filling
  PROVE  RecordInv'
<1> DEFINE new == [sock |-> s, busy |-> busy, ev |-> ev]
<1>1. \A u \in Sockets : spc'[u] = IF u = s THEN where ELSE spc[u]
  BY DEF Goto, StageInv
<1>2. /\ rb' \in Seq(Records)
      /\ \A r \in Recs' : r \in Recs \/ r = new
      /\ \A r \in Recs : r \in Recs' \/ (r.sock = s /\ r.busy)
      /\ \A r \in Recs' : r.sock = s /\ r.busy => r = new
      /\ (\E r \in Recs : r.sock = s /\ r.busy) => new \in Recs'
  BY RecsPut DEF RecordInv
<1>3. new.sock = s /\ new.busy = busy /\ new.ev = ev
  OBVIOUS
<1> HIDE DEF new
<1>4. \A r : Good(r)' <=> Good(r)
  BY Zenon DEF Good, Traced, Key
<1>5. Good(new)
  BY <1>3, Zenon DEF Good
<1>6. \A r \in Recs' : Good(r)'
  BY <1>2, <1>4, <1>5, Zenon DEF RecordInv
<1>7. ASSUME NEW u \in Sockets
      PROVE  /\ spc'[u] \in Filling => Owns(u)'
             /\ spc'[u] \in {"delete", "fill"} => Written(u)'
  <2>1. CASE u = s
    <3>1. spc'[u] \in Filling => Owns(u)'
      BY <1>1, <1>2, <1>3, <2>1, Zenon DEF Owns, RecordInv
    <3>2. Written(u)'
      BY <1>2, <1>3, <2>1, Zenon DEF Written
    <3> QED
      BY <3>1, <3>2
  <2>2. CASE u # s
    <3>1. Owns(u) => Owns(u)'
      BY <1>2, <2>2, Zenon DEF Owns
    <3>2. Written(u) => Written(u)'
      BY <1>2, <1>3, <2>2, Zenon DEF Written
    <3> QED
      BY <1>1, <2>2, <3>1, <3>2, Zenon DEF RecordInv
  <2> QED
    BY <2>1, <2>2
<1> QED
  BY <1>2, <1>6, <1>7, Zenon DEF RecordInv

\* A program that fills its record finds an event in it.
LEMMA FilledIsClose ==
  ASSUME TracerInv, NEW s \in Sockets, spc[s] = "fill"
  PROVE  Filled(s) \in Events /\ Filled(s).action = "close"
<1>1. Owns(s) /\ Written(s)
  BY DEF TracerInv, RecordInv, Filling
<1>2. \E i \in DOMAIN rb : rb[i].sock = s /\ rb[i].busy
  BY <1>1 DEF Owns, Recs
<1> DEFINE j == CHOOSE i \in DOMAIN rb : rb[i].sock = s /\ rb[i].busy
<1>3. j \in DOMAIN rb /\ rb[j].sock = s /\ rb[j].busy
  BY <1>2
<1>4. Mine(s) = rb[j].ev
  BY DEF Mine
<1> HIDE DEF j
<1>5. Mine(s) \in Events
  BY <1>1, <1>3, <1>4 DEF Written, Recs
<1>6. BytesOf[s] \in Nat
  BY TracerAssumption
<1> DEFINE m == Mine(s)
<1>7. Filled(s) = [m EXCEPT !.action = "close", !.bytes = BytesOf[s]]
  BY DEF Filled
<1>8. m \in Events
  BY <1>5
<1> HIDE DEF m
<1> QED
  BY <1>6, <1>7, <1>8, Zenon DEF Events

\* Copying a pointer to an element, or unlinking one, leaves every pointer
\* with an event behind it; so does writing an event into an element.
LEMMA HeapKeeps ==
  ASSUME HeapInv, [Next]_vars
  PROVE  HeapInv'
<1>1. ASSUME NEW s \in Sockets, UpdatePending(s) PROVE HeapInv'
  <2> DEFINE ev == Event(s, "connect", 0)
  <2>1. ev \in Events
    BY EventType
  <2>2. PidOf[s] \in Pids /\ ptr' = ptr
    BY <1>1, TracerAssumption DEF UpdatePending
  <2>3. CASE UNCHANGED <<pending, elems>>
    BY <2>2, <2>3 DEF HeapInv
  <2>4. ASSUME NEW e \in Elems, elems' = [elems EXCEPT ![e] = ev],
               pending' = [pending EXCEPT ![PidOf[s]] = e]
        PROVE  HeapInv'
    <3> HIDE DEF ev
    <3>1. elems' \in [Elems -> Events \cup {None}] /\ pending' \in [Pids -> Elems \cup {None}]
      BY <2>1, <2>2, <2>4 DEF HeapInv
    <3>2. \A f \in Elems : elems'[f] = IF f = e THEN ev ELSE elems[f]
      BY <2>4 DEF HeapInv
    <3>3. \A p \in Pids : pending'[p] = IF p = PidOf[s] THEN e ELSE pending[p]
      BY <2>4 DEF HeapInv
    <3>4. \A p \in Pids : pending'[p] # None => elems'[pending'[p]] \in Events
      BY <2>1, <3>2, <3>3 DEF HeapInv
    <3>5. \A u \in Sockets : ptr'[u] # None => elems'[ptr'[u]] \in Events
      BY <2>1, <2>2, <3>2 DEF HeapInv
    <3> QED
      BY <2>2, <3>1, <3>4, <3>5 DEF HeapInv
  <2> QED
    BY <1>1, <2>3, <2>4 DEF UpdatePending
<1>2. ASSUME NEW s \in Sockets, trace_tcp_close(s) PROVE HeapInv'
  <2>1. LookupKey(s) \in Pids /\ UNCHANGED <<pending, elems>>
    BY <1>2, TracerAssumption DEF trace_tcp_close, LookupKey
  <2>2. ptr' = [ptr EXCEPT ![s] = pending[LookupKey(s)]]
    BY <1>2 DEF trace_tcp_close
  <2>3. \A u \in Sockets : ptr'[u] = IF u = s THEN pending[LookupKey(s)] ELSE ptr[u]
    BY <2>2 DEF HeapInv
  <2>4. ptr' \in [Sockets -> Elems \cup {None}]
    BY <2>1, <2>2 DEF HeapInv
  <2> QED
    BY <2>1, <2>3, <2>4 DEF HeapInv
<1>3. ASSUME NEW s \in Sockets, DeletePending(s) PROVE HeapInv'
  <2>1. PidOf[s] \in Pids /\ UNCHANGED <<ptr, elems>>
    BY <1>3, TracerAssumption DEF DeletePending
  <2>2. pending' = [pending EXCEPT ![PidOf[s]] = None]
    BY <1>3 DEF DeletePending, Deleted
  <2>3. /\ pending' \in [Pids -> Elems \cup {None}]
        /\ \A p \in Pids : pending'[p] = IF p = PidOf[s] THEN None ELSE pending[p]
    BY <2>2, Zenon DEF HeapInv
  <2> QED
    BY <2>1, <2>3 DEF HeapInv
<1>4. CASE UNCHANGED <<pending, elems, ptr>>
  BY <1>4 DEF HeapInv
<1>5. ASSUME NEW s \in Sockets, TracerNext(s)
      PROVE  UpdatePending(s) \/ trace_tcp_close(s) \/ DeletePending(s) \/ UNCHANGED <<pending, elems, ptr>>
  BY <1>5, Zenon DEF TracerNext, ProgramStep, trace_tcp_connect, ConnectReserve, ConnectSubmit,
              CloseReserve, Copy, CloseSubmit
<1> QED
  BY <1>1, <1>2, <1>3, <1>4, <1>5 DEF Next, Poll, vars, tracerVars

\* Each step of a program keeps the stages and the records.
LEMMA ProgramKeeps ==
  ASSUME TracerInv, NEW s \in Sockets, TracerNext(s)
  PROVE  StageInv' /\ RecordInv'
<1> USE DEF TracerInv
<1>1. CASE trace_tcp_connect(s)
  <2> DEFINE where == IF should_filter(PidOf[s], dport(s)) THEN "open" ELSE "update"
  <2>1. Goto(s, where) /\ UNCHANGED <<profile, rb>>
    BY <1>1 DEF trace_tcp_connect
  <2>2. where \in Stages /\ where \notin Filling
    BY DEF Stages, Filling
  <2>3. where \in PastFilter => ~should_filter(PidOf[s], dport(s))
    BY DEF PastFilter
  <2> HIDE DEF where
  <2> QED
    BY <2>1, <2>2, <2>3, StageKeeps, SameRecords
<1>2. CASE UpdatePending(s)
  <2>1. Goto(s, "reserve") /\ UNCHANGED <<profile, rb>> /\ spc[s] \in PastFilter
    BY <1>2 DEF UpdatePending, PastFilter
  <2>2. "reserve" \in Stages /\ "reserve" \notin Filling
    BY DEF Stages, Filling
  <2>3. ~should_filter(PidOf[s], dport(s))
    BY <2>1 DEF StageInv
  <2> QED
    BY <2>1, <2>2, <2>3, StageKeeps, SameRecords
<1>3. CASE ConnectReserve(s)
  <2>1. spc[s] \in PastFilter /\ profile' = profile
    BY <1>3 DEF ConnectReserve, PastFilter
  <2>2. ~should_filter(PidOf[s], dport(s))
    BY <2>1 DEF StageInv
  <2>3. "submit" \in Stages /\ "open" \in Stages /\ "open" \notin Filling
    BY DEF Stages, Filling
  <2>4. CASE Reserve(s, None) /\ Goto(s, "submit")
    BY <2>1, <2>2, <2>3, <2>4, StageKeeps, ReserveKeeps
  <2>5. CASE Goto(s, "open") /\ rb' = rb
    BY <2>1, <2>2, <2>3, <2>5, StageKeeps, SameRecords
  <2> QED
    BY <1>3, <2>4, <2>5 DEF ConnectReserve
<1>4. CASE ConnectSubmit(s)
  <2> DEFINE ev == Event(s, "connect", 0)
  <2>1. Put(s, ev, FALSE) /\ Goto(s, "open") /\ profile' = profile /\ spc[s] \in PastFilter
    BY <1>4, Zenon DEF ConnectSubmit, PastFilter
  <2>2. ~should_filter(PidOf[s], dport(s))
    BY <2>1 DEF StageInv
  <2>3. ev \in Events /\ Key(ev) = <<ConnOf[s], PidOf[s], PortOf[s]>>
    BY EventType
  <2> HIDE DEF ev
  <2>4. profile \in Profiles
    BY DEF StageInv
  <2>5. Traced(Key(ev))
    BY <2>2, <2>3, <2>4, FilterTraces
  <2>6. "open" \in Stages /\ "open" \notin Filling
    BY DEF Stages, Filling
  <2> QED
    BY <2>1, <2>2, <2>3, <2>5, <2>6, StageKeeps, PutKeeps, Zenon
<1>5. CASE trace_tcp_close(s)
  <2>1. Goto(s, "closeReserve") /\ UNCHANGED <<profile, rb>>
    BY <1>5 DEF trace_tcp_close
  <2>2. "closeReserve" \in Stages /\ "closeReserve" \notin Filling /\ "closeReserve" \notin PastFilter
    BY DEF Stages, Filling, PastFilter
  <2> QED
    BY <2>1, <2>2, StageKeeps, SameRecords
<1>6. CASE CloseReserve(s)
  <2>1. profile' = profile
    BY <1>6 DEF CloseReserve
  <2>2. /\ "copy" \in Stages /\ "copy" \notin PastFilter
        /\ "closed" \in Stages /\ "closed" \notin Filling /\ "closed" \notin PastFilter
    BY DEF Stages, Filling, PastFilter
  <2>3. CASE Reserve(s, None) /\ Goto(s, "copy")
    BY <2>1, <2>2, <2>3, StageKeeps, ReserveKeeps
  <2>4. CASE Goto(s, "closed") /\ rb' = rb
    BY <2>1, <2>2, <2>4, StageKeeps, SameRecords
  <2> QED
    BY <1>6, <2>3, <2>4 DEF CloseReserve
<1>7. CASE Copy(s)
  <2>1. profile' = profile /\ spc[s] \in Filling
    BY <1>7 DEF Copy, Filling
  <2>2. /\ "delete" \in Stages /\ "delete" \notin PastFilter
        /\ "fill" \in Stages /\ "fill" \notin PastFilter
    BY DEF Stages, PastFilter
  <2>3. CASE ptr[s] # None /\ Put(s, elems[ptr[s]], TRUE) /\ Goto(s, "delete")
    <3> DEFINE ev == elems[ptr[s]]
    <3>1. ev \in Events /\ Put(s, ev, TRUE)
      BY <2>3, Zenon DEF HeapInv
    <3> HIDE DEF ev
    <3> QED
      BY <2>1, <2>2, <2>3, <3>1, StageKeeps, PutKeeps, Zenon
  <2>4. CASE Put(s, Event(s, "close", 0), TRUE) /\ Goto(s, "fill")
    <3> DEFINE ev == Event(s, "close", 0)
    <3>1. ev \in Events /\ Put(s, ev, TRUE)
      BY <2>4, EventType, Zenon
    <3> HIDE DEF ev
    <3> QED
      BY <2>1, <2>2, <2>4, <3>1, StageKeeps, PutKeeps, Zenon
  <2> QED
    BY <1>7, <2>3, <2>4, Zenon DEF Copy
<1>8. CASE DeletePending(s)
  <2>1. Goto(s, "fill") /\ UNCHANGED <<profile, rb>> /\ spc[s] = "delete"
    BY <1>8 DEF DeletePending
  <2>2. "fill" \in Stages /\ "fill" \notin PastFilter
    BY DEF Stages, PastFilter
  <2> QED
    BY <2>1, <2>2, StageKeeps, SameRecords
<1>9. CASE CloseSubmit(s)
  <2> DEFINE ev == Filled(s)
  <2>1. Put(s, ev, FALSE) /\ Goto(s, "closed") /\ profile' = profile /\ spc[s] = "fill"
    BY <1>9, Zenon DEF CloseSubmit
  <2>2. ev \in Events /\ ev.action = "close"
    BY <2>1, FilledIsClose
  <2> HIDE DEF ev
  <2>3. "closed" \in Stages /\ "closed" \notin Filling /\ "closed" \notin PastFilter
    BY DEF Stages, Filling, PastFilter
  <2> QED
    BY <2>1, <2>2, <2>3, StageKeeps, PutKeeps, Zenon
<1> QED
  BY <1>1, <1>2, <1>3, <1>4, <1>5, <1>6, <1>7, <1>8, <1>9, Zenon DEF TracerNext, ProgramStep

\* One callback of the poll leaves the programs alone.
LEMMA TracerPoll ==
  ASSUME TracerInv, Poll
  PROVE  TracerInv'
<1> DEFINE r == Head(rb)
<1>1. /\ rb \in Seq(Records) /\ rb # <<>> /\ rb' = Tail(rb)
      /\ UNCHANGED <<profile, spc, pending, elems, ptr>>
  BY Zenon DEF Poll, TracerInv, RecordInv
<1>a. ~r.busy
  BY Zenon DEF Poll
<1>2. /\ rb' \in Seq(Records) /\ r \in Recs
      /\ Recs' \subseteq Recs /\ Recs \subseteq Recs' \cup {r}
  BY <1>1, RecsPoll
<1> HIDE DEF r
<1>3. HeapInv'
  BY <1>1 DEF TracerInv, HeapInv
<1>4. \A u \in Sockets : should_filter(PidOf[u], dport(u))' <=> should_filter(PidOf[u], dport(u))
  BY <1>1, SMT DEF should_filter, dport, skc_dport, bswap16
<1>5. StageInv'
  BY <1>1, <1>4 DEF TracerInv, StageInv
<1>6. \A x : Good(x)' <=> Good(x)
  BY <1>1, Zenon DEF Good, Traced, Key
<1>7. \A u \in Sockets : (Owns(u) => Owns(u)') /\ (Written(u) => Written(u)')
  BY <1>a, <1>1, <1>2, Zenon DEF Owns, Written
<1>8. RecordInv'
  BY <1>1, <1>2, <1>6, <1>7, Zenon DEF TracerInv, RecordInv
<1> QED
  BY <1>3, <1>5, <1>8 DEF TracerInv

\* Every step keeps the programs' invariant.
LEMMA TracerStep == TracerInv /\ [Next]_vars => TracerInv'
<1> SUFFICES ASSUME TracerInv, [Next]_vars PROVE TracerInv'
  OBVIOUS
<1>1. ASSUME UNCHANGED tracerVars PROVE TracerInv'
  <2>1. HeapInv'
    BY <1>1 DEF tracerVars, TracerInv, HeapInv
  <2>2. \A u \in Sockets : should_filter(PidOf[u], dport(u))' <=> should_filter(PidOf[u], dport(u))
    BY <1>1, SMT DEF tracerVars, should_filter, dport, skc_dport, bswap16
  <2>3. StageInv'
    BY <1>1, <2>2 DEF tracerVars, TracerInv, StageInv
  <2>4. Recs' = Recs /\ rb' = rb /\ spc' = spc
    BY <1>1 DEF tracerVars, Recs
  <2>5. \A x : Good(x)' <=> Good(x)
    BY <1>1, Zenon DEF tracerVars, Good, Traced, Key
  <2>6. \A u \in Sockets : (Owns(u)' <=> Owns(u)) /\ (Written(u)' <=> Written(u))
    BY <2>4, Zenon DEF Owns, Written
  <2>7. RecordInv'
    BY <2>4, <2>5, <2>6 DEF TracerInv, RecordInv
  <2> QED
    BY <2>1, <2>3, <2>7 DEF TracerInv
<1>2. ASSUME NEW s \in Sockets, TracerNext(s) PROVE TracerInv'
  BY <1>2, HeapKeeps, ProgramKeeps DEF TracerInv
<1> QED
  BY <1>1, <1>2, TracerPoll DEF Next, vars

\* The programs' invariant holds throughout.
LEMMA TracerInductive == Spec => []TracerInv
<1>1. Init => TracerInv
  BY TracerInitially DEF Init
<1> QED
  BY <1>1, TracerStep, PTL DEF Spec

-----------------------------------------------------------------------------
(* Submitting.  Each socket has at most one record being written, and at   *)
(* most one submitted connect and one submitted close waiting; a socket    *)
(* whose event was submitted and does not wait has been counted.           *)

Pend(i, s) == rb[i].sock = s /\ rb[i].busy
Sub(i, s, a) == rb[i].sock = s /\ ~rb[i].busy /\ rb[i].ev.action = a

Writing == Filling \cup {"submit"}

BusyInv ==
  /\ \A i \in DOMAIN rb, s \in Sockets : Pend(i, s) => spc[s] \in Writing
  /\ \A i, j \in DOMAIN rb, s \in Sockets : Pend(i, s) /\ Pend(j, s) => i = j
  /\ \A s \in Sockets : spc[s] \in Writing => \E i \in DOMAIN rb : Pend(i, s)

WaitInv ==
  /\ \A i \in DOMAIN rb, s \in Sockets :
       Sub(i, s, "close") => s \in Closes /\ rb[i].ev.bytes = BytesOf[s]
  /\ \A i \in DOMAIN rb, s \in Sockets : Sub(i, s, "connect") => s \in Connects
  /\ \A i, j \in DOMAIN rb, s \in Sockets, a \in {"connect", "close"} :
       Sub(i, s, a) /\ Sub(j, s, a) => i = j

HistoryInv ==
  /\ \A s \in Sockets : spc[s] \in PastFilter => s \notin Accepted
  /\ \A s \in Sockets : <<s, "connect">> \in lost => spc[s] \notin PastFilter \cup {"new"}
  /\ \A s \in Sockets : <<s, "close">> \in lost => spc[s] = "closed"

TagInv == BusyInv /\ WaitInv /\ HistoryInv

\* bpf_ringbuf_reserve adds a record at the end.
LEMMA ReserveAt ==
  ASSUME NEW s \in Sockets, rb \in Seq(Records), Reserve(s, None)
  PROVE  \E n \in Nat :
           /\ DOMAIN rb = 1..n /\ DOMAIN rb' = 1..n+1
           /\ \A i \in 1..n : rb'[i] = rb[i]
           /\ rb'[n+1].sock = s /\ rb'[n+1].busy
<1> DEFINE r == [sock |-> s, busy |-> TRUE, ev |-> None]
<1>1. r \in Records /\ rb' = Append(rb, r)
  BY DEF Records, Reserve
<1>2. r.sock = s /\ r.busy
  OBVIOUS
<1> HIDE DEF r
<1>3. /\ DOMAIN rb = 1..Len(rb) /\ Len(rb) \in Nat /\ DOMAIN rb' = 1..Len(rb)+1
      /\ \A i \in 1..Len(rb) : rb'[i] = rb[i]
      /\ rb'[Len(rb)+1] = r
  BY <1>1
<1> QED
  BY <1>2, <1>3, Zenon

\* Writing or submitting a record leaves every other one where and as it was.
LEMMA PutAt ==
  ASSUME NEW s \in Sockets, rb \in Seq(Records), NEW ev, NEW busy \in BOOLEAN, Put(s, ev, busy)
  PROVE  /\ DOMAIN rb' = DOMAIN rb
         /\ \A i \in DOMAIN rb : ~Pend(i, s) => rb'[i] = rb[i]
         /\ \A i \in DOMAIN rb : Pend(i, s) =>
              rb'[i].sock = s /\ rb'[i].busy = busy /\ rb'[i].ev = ev
<1> DEFINE n == [sock |-> s, busy |-> busy, ev |-> ev]
<1>1. rb' = [i \in DOMAIN rb |-> IF rb[i].sock = s /\ rb[i].busy THEN n ELSE rb[i]]
  BY DEF Put
<1>2. n.sock = s /\ n.busy = busy /\ n.ev = ev
  OBVIOUS
<1> HIDE DEF n
<1> QED
  BY <1>1, <1>2, Zenon DEF Pend

\* No program writes a record that is not its own, nor its own before the
\* last helper: what waits is what waited.
SameMarks ==
  /\ DOMAIN rb' = DOMAIN rb
  /\ \A i \in DOMAIN rb, u \in Sockets : Pend(i, u)' <=> Pend(i, u)
  /\ \A i \in DOMAIN rb, u \in Sockets, a \in {"connect", "close"} :
       (Sub(i, u, a)' <=> Sub(i, u, a)) /\ (Sub(i, u, a) => rb'[i] = rb[i])

\* A step without the ring buffer.
LEMMA UnchangedMarks ==
  ASSUME rb' = rb
  PROVE  SameMarks
  BY Zenon DEF SameMarks, Pend, Sub

\* Writing into a record without submitting it.
LEMMA PutMarks ==
  ASSUME NEW s \in Sockets, rb \in Seq(Records), NEW ev, Put(s, ev, TRUE)
  PROVE  SameMarks
<1>1. /\ DOMAIN rb' = DOMAIN rb
      /\ \A i \in DOMAIN rb : ~Pend(i, s) => rb'[i] = rb[i]
      /\ \A i \in DOMAIN rb : Pend(i, s) => rb'[i].sock = s /\ rb'[i].busy = TRUE /\ rb'[i].ev = ev
  BY PutAt, Zenon
<1>2. ASSUME NEW i \in DOMAIN rb, NEW u \in Sockets, NEW a \in {"connect", "close"}
      PROVE  /\ Pend(i, u)' <=> Pend(i, u)
             /\ (Sub(i, u, a)' <=> Sub(i, u, a)) /\ (Sub(i, u, a) => rb'[i] = rb[i])
  <2>1. CASE Pend(i, s)
    <3>1. rb[i].sock = s /\ rb[i].busy /\ rb'[i].sock = s /\ rb'[i].busy
      BY <1>1, <2>1, Zenon DEF Pend
    <3> QED
      BY <3>1, Zenon DEF Pend, Sub
  <2>2. CASE ~Pend(i, s)
    <3>1. rb'[i] = rb[i]
      BY <1>1, <2>2, Zenon
    <3> QED
      BY <3>1, Zenon DEF Pend, Sub
  <2> QED
    BY <2>1, <2>2, Zenon
<1> QED
  BY <1>1, <1>2, Zenon DEF SameMarks

\* Where a step takes its socket, and what it records as lost.
Moves(s) ==
  \/ spc[s] = "new" /\ s \notin Accepted /\ spc'[s] = "open" /\ should_filter(PidOf[s], dport(s)) /\ lost' = lost
  \/ spc[s] = "new" /\ s \notin Accepted /\ spc'[s] = "update" /\ lost' = lost
  \/ spc[s] = "update" /\ spc'[s] = "reserve" /\ lost' = lost
  \/ spc[s] = "reserve" /\ spc'[s] = "submit" /\ lost' = lost
  \/ spc[s] = "reserve" /\ spc'[s] = "open" /\ lost' = lost \cup {<<s, "connect">>}
  \/ ConnectSubmit(s) /\ spc[s] = "submit" /\ spc'[s] = "open" /\ lost' = lost
  \/ spc[s] = "open" /\ spc'[s] = "closeReserve" /\ lost' = lost
  \/ spc[s] = "new" /\ s \in Accepted /\ spc'[s] = "closeReserve" /\ lost' = lost
  \/ spc[s] = "closeReserve" /\ spc'[s] = "copy" /\ lost' = lost
  \/ spc[s] = "closeReserve" /\ spc'[s] = "closed" /\ lost' = lost \cup {<<s, "close">>}
  \/ spc[s] = "copy" /\ spc'[s] \in {"delete", "fill"} /\ lost' = lost
  \/ spc[s] = "delete" /\ spc'[s] = "fill" /\ lost' = lost
  \/ CloseSubmit(s) /\ spc[s] = "fill" /\ spc'[s] = "closed" /\ lost' = lost

\* Every step of a program is one of those.
LEMMA StepMoves ==
  ASSUME StageInv, NEW s \in Sockets, TracerNext(s)
  PROVE  profile' = profile /\ Moves(s) /\ \A u \in Sockets : u # s => spc'[u] = spc[u]
<1>1. ASSUME NEW w, Goto(s, w) PROVE spc'[s] = w /\ \A u \in Sockets : u # s => spc'[u] = spc[u]
  BY <1>1 DEF Goto, StageInv
<1>2. CASE trace_tcp_connect(s)
  BY <1>1, <1>2, Zenon DEF trace_tcp_connect, Moves
<1>3. CASE UpdatePending(s)
  BY <1>1, <1>3, Zenon DEF UpdatePending, Moves
<1>4. CASE ConnectReserve(s)
  BY <1>1, <1>4, Zenon DEF ConnectReserve, Moves
<1>5. CASE ConnectSubmit(s)
  <2>1. profile' = profile /\ spc[s] = "submit" /\ Goto(s, "open") /\ lost' = lost
    BY <1>5, Zenon DEF ConnectSubmit
  <2> QED
    BY <1>1, <1>5, <2>1, Zenon DEF Moves
<1>6. CASE trace_tcp_close(s)
  BY <1>1, <1>6, Zenon DEF trace_tcp_close, Moves
<1>7. CASE CloseReserve(s)
  BY <1>1, <1>7, Zenon DEF CloseReserve, Moves
<1>8. CASE Copy(s)
  BY <1>1, <1>8, Zenon DEF Copy, Moves
<1>9. CASE DeletePending(s)
  BY <1>1, <1>9, Zenon DEF DeletePending, Moves
<1>10. CASE CloseSubmit(s)
  <2>1. profile' = profile /\ spc[s] = "fill" /\ Goto(s, "closed") /\ lost' = lost
    BY <1>10, Zenon DEF CloseSubmit
  <2> QED
    BY <1>1, <1>10, <2>1, Zenon DEF Moves
<1> QED
  BY <1>2, <1>3, <1>4, <1>5, <1>6, <1>7, <1>8, <1>9, <1>10, Zenon DEF TracerNext, ProgramStep

\* Only the submit of a connect, and of a close, adds to what was submitted.
LEMMA SubmittedMoves ==
  ASSUME StageInv, HistoryInv, NEW s \in Sockets, TracerNext(s)
  PROVE  /\ HistoryInv'
         /\ ConnectSubmit(s) => s \notin Connects /\ Connects' = Connects \cup {s}
         /\ ~ConnectSubmit(s) => Connects' = Connects
         /\ CloseSubmit(s) => s \notin Closes /\ Closes' = Closes \cup {s}
         /\ ~CloseSubmit(s) => Closes' = Closes
<1> DEFINE K(u) == should_filter(PidOf[u], PortOf[u])
<1>1. profile' = profile /\ Moves(s) /\ \A u \in Sockets : u # s => spc'[u] = spc[u]
  BY StepMoves
<1>2. \A u \in Sockets : K(u)' <=> K(u)
  BY <1>1, SMT DEF should_filter
<1>3. /\ K(s) <=> should_filter(PidOf[s], dport(s))
      /\ spc[s] = "submit" => ~K(s)
  BY PortSurvives, Zenon DEF StageInv, PastFilter
<1>4. \A u \in Sockets : u \in Connects <=>
        /\ u \notin Accepted /\ spc[u] \notin {"new", "update", "reserve", "submit"} /\ ~K(u)
        /\ <<u, "connect">> \notin lost
  BY Zenon DEF Connects
<1>5. \A u \in Sockets : u \in Connects' <=>
        /\ u \notin Accepted /\ spc'[u] \notin {"new", "update", "reserve", "submit"} /\ ~K(u)
        /\ <<u, "connect">> \notin lost'
  BY <1>2, Zenon DEF Connects
<1>6. \A u \in Sockets : (u \in Closes <=> spc[u] = "closed" /\ <<u, "close">> \notin lost)
                         /\ (u \in Closes' <=> spc'[u] = "closed" /\ <<u, "close">> \notin lost')
  BY Zenon DEF Closes
<1>7. Connects \subseteq Sockets /\ Connects' \subseteq Sockets /\ Closes \subseteq Sockets /\ Closes' \subseteq Sockets
  BY Zenon DEF Connects, Closes
<1> HIDE DEF K
<1>8. \A u \in Sockets, a \in {"connect", "close"} : u # s => (<<u, a>> \in lost' <=> <<u, a>> \in lost)
  BY <1>1 DEF Moves
<1>9. \A u \in Sockets : u # s => (u \in Connects' <=> u \in Connects) /\ (u \in Closes' <=> u \in Closes)
  BY <1>1, <1>4, <1>5, <1>6, <1>8, Zenon
<1>10. HistoryInv'
  <2>1. /\ spc'[s] \in PastFilter => s \notin Accepted
        /\ <<s, "connect">> \in lost' => spc'[s] \notin PastFilter \cup {"new"}
        /\ <<s, "close">> \in lost' => spc'[s] = "closed"
    BY <1>1 DEF Moves, HistoryInv, PastFilter
  <2>2. \A u \in Sockets : u # s =>
          /\ spc'[u] \in PastFilter => u \notin Accepted
          /\ <<u, "connect">> \in lost' => spc'[u] \notin PastFilter \cup {"new"}
          /\ <<u, "close">> \in lost' => spc'[u] = "closed"
    BY <1>1, <1>8, Zenon DEF HistoryInv
  <2> QED
    BY <2>1, <2>2, Zenon DEF HistoryInv
<1>11. (ConnectSubmit(s) <=> spc[s] = "submit") /\ (CloseSubmit(s) <=> spc[s] = "fill")
  <2>1. (ConnectSubmit(s) => spc[s] = "submit") /\ (CloseSubmit(s) => spc[s] = "fill")
    BY Zenon DEF ConnectSubmit, CloseSubmit
  <2> QED
    BY <1>1, <2>1 DEF Moves
<1>12. /\ spc[s] = "submit" => s \notin Connects /\ s \in Connects'
       /\ spc[s] # "submit" => (s \in Connects' <=> s \in Connects)
  BY <1>1, <1>3, <1>4, <1>5, Zenon DEF Moves, HistoryInv, PastFilter
<1>13. /\ spc[s] = "fill" => s \notin Closes /\ s \in Closes'
       /\ spc[s] # "fill" => (s \in Closes' <=> s \in Closes)
  BY <1>1, <1>6, Zenon DEF Moves, HistoryInv
<1>14. /\ spc[s] = "submit" => Connects' = Connects \cup {s}
       /\ spc[s] # "submit" => Connects' = Connects
  BY <1>7, <1>9, <1>12
<1>15. /\ spc[s] = "fill" => Closes' = Closes \cup {s}
       /\ spc[s] # "fill" => Closes' = Closes
  BY <1>7, <1>9, <1>13
<1> QED
  BY <1>10, <1>11, <1>12, <1>13, <1>14, <1>15, Zenon

Actions == {"connect", "close"}

\* A step that neither reserves nor submits.
LEMMA QuietTags ==
  ASSUME BusyInv, WaitInv, SameMarks, Connects' = Connects, Closes' = Closes,
         NEW s \in Sockets, \A u \in Sockets : u # s => spc'[u] = spc[u],
         spc'[s] \in Writing <=> spc[s] \in Writing
  PROVE  BusyInv' /\ WaitInv' /\ \A a \in Actions : Queued(a)' = Queued(a)
<1>1. /\ DOMAIN rb' = DOMAIN rb
      /\ \A i \in DOMAIN rb, u \in Sockets : Pend(i, u)' <=> Pend(i, u)
      /\ \A i \in DOMAIN rb, u \in Sockets, a \in Actions :
           (Sub(i, u, a)' <=> Sub(i, u, a)) /\ (Sub(i, u, a) => rb'[i] = rb[i])
  BY Zenon DEF SameMarks, Actions
<1>2. \A u \in Sockets : spc'[u] \in Writing <=> spc[u] \in Writing
  BY Zenon
<1>3. BusyInv'
  BY <1>1, <1>2, Zenon DEF BusyInv
<1>4. WaitInv'
  <2>1. \A i \in DOMAIN rb', u \in Sockets :
          Sub(i, u, "close")' => u \in Closes' /\ rb'[i].ev.bytes = BytesOf[u]
    BY <1>1 DEF WaitInv, Actions
  <2>2. \A i \in DOMAIN rb', u \in Sockets : Sub(i, u, "connect")' => u \in Connects'
    BY <1>1 DEF WaitInv, Actions
  <2>3. \A i, j \in DOMAIN rb', u \in Sockets, a \in Actions : Sub(i, u, a)' /\ Sub(j, u, a)' => i = j
    BY <1>1 DEF WaitInv, Actions
  <2> QED
    BY <2>1, <2>2, <2>3, Zenon DEF WaitInv, Actions
<1>5. ASSUME NEW a \in Actions PROVE Queued(a)' = Queued(a)
  <2>1. \A u \in Sockets : (\E i \in DOMAIN rb' : Sub(i, u, a)') <=> (\E i \in DOMAIN rb : Sub(i, u, a))
    BY <1>1
  <2> QED
    BY <2>1, Zenon DEF Queued, Sub
<1> QED
  BY <1>3, <1>4, <1>5

\* A reservation.
LEMMA ReserveTags ==
  ASSUME rb \in Seq(Records), BusyInv, WaitInv, Connects' = Connects, Closes' = Closes,
         NEW s \in Sockets, \A u \in Sockets : u # s => spc'[u] = spc[u], Reserve(s, None),
         spc[s] \notin Writing, spc'[s] \in Writing
  PROVE  BusyInv' /\ WaitInv' /\ \A a \in Actions : Queued(a)' = Queued(a)
<1>1. PICK n \in Nat : /\ DOMAIN rb = 1..n /\ DOMAIN rb' = 1..n+1
                       /\ \A i \in 1..n : rb'[i] = rb[i]
                       /\ rb'[n+1].sock = s /\ rb'[n+1].busy
  BY ReserveAt
<1>2. PICK m : m = n + 1
  OBVIOUS
<1>3. m \in DOMAIN rb' /\ m \notin DOMAIN rb /\ \A i : i \in DOMAIN rb' <=> i \in DOMAIN rb \/ i = m
  BY <1>1, <1>2
<1>4. (\A i \in DOMAIN rb : rb'[i] = rb[i]) /\ rb'[m].sock = s /\ rb'[m].busy
  BY <1>1, <1>2
<1>5. /\ \A i \in DOMAIN rb : \A u : Pend(i, u)' <=> Pend(i, u)
      /\ \A i \in DOMAIN rb : \A u, a : Sub(i, u, a)' <=> Sub(i, u, a)
  BY <1>4, Zenon DEF Pend, Sub
<1>6. /\ \A u : Pend(m, u)' <=> u = s
      /\ \A u, a : ~Sub(m, u, a)'
  BY <1>4, Zenon DEF Pend, Sub
<1>7. BusyInv'
  <2>1. \A i \in DOMAIN rb', u \in Sockets : Pend(i, u)' => spc'[u] \in Writing
    BY <1>3, <1>5, <1>6 DEF BusyInv
  <2>2. \A i, j \in DOMAIN rb', u \in Sockets : Pend(i, u)' /\ Pend(j, u)' => i = j
    BY <1>3, <1>5, <1>6 DEF BusyInv
  <2>3. \A u \in Sockets : spc'[u] \in Writing => \E i \in DOMAIN rb' : Pend(i, u)'
    BY <1>3, <1>5, <1>6 DEF BusyInv
  <2> QED
    BY <2>1, <2>2, <2>3, Zenon DEF BusyInv
<1>8. WaitInv'
  <2>1. \A i \in DOMAIN rb', u \in Sockets :
          Sub(i, u, "close")' => u \in Closes' /\ rb'[i].ev.bytes = BytesOf[u]
    BY <1>3, <1>4, <1>5, <1>6 DEF WaitInv
  <2>2. \A i \in DOMAIN rb', u \in Sockets : Sub(i, u, "connect")' => u \in Connects'
    BY <1>3, <1>5, <1>6 DEF WaitInv
  <2>3. \A i, j \in DOMAIN rb', u \in Sockets, a \in {"connect", "close"} :
          Sub(i, u, a)' /\ Sub(j, u, a)' => i = j
    BY <1>3, <1>5, <1>6 DEF WaitInv
  <2> QED
    BY <2>1, <2>2, <2>3, Zenon DEF WaitInv
<1>9. ASSUME NEW a \in Actions PROVE Queued(a)' = Queued(a)
  <2>1. \A u : (\E i \in DOMAIN rb' : Sub(i, u, a)') <=> (\E i \in DOMAIN rb : Sub(i, u, a))
    BY <1>3, <1>5, <1>6, Zenon
  <2> QED
    BY <2>1, Zenon DEF Queued, Sub
<1> QED
  BY <1>7, <1>8, <1>9

\* Submitting a record.
LEMMA PutSubmits ==
  ASSUME NEW s \in Sockets, rb \in Seq(Records), NEW ev, Put(s, ev, FALSE)
  PROVE  /\ DOMAIN rb' = DOMAIN rb
         /\ \A i \in DOMAIN rb : ~Pend(i, s) => rb'[i] = rb[i]
         /\ \A i \in DOMAIN rb : Pend(i, s) => rb'[i].sock = s /\ ~rb'[i].busy /\ rb'[i].ev = ev
<1> DEFINE n == [sock |-> s, busy |-> FALSE, ev |-> ev]
<1>1. rb' = [i \in DOMAIN rb |-> IF rb[i].sock = s /\ rb[i].busy THEN n ELSE rb[i]]
  BY DEF Put
<1>2. n.sock = s /\ ~n.busy /\ n.ev = ev
  OBVIOUS
<1> HIDE DEF n
<1> QED
  BY <1>1, <1>2, Zenon DEF Pend

\* The step submits the event ev of socket s, for the first time.
FirstSubmit(s, ev, act) ==
  /\ Connects \subseteq Connects' /\ Closes \subseteq Closes' /\ ev.action = act
  /\ act = "close" => s \notin Closes /\ s \in Closes' /\ ev.bytes = BytesOf[s]
  /\ act = "connect" => s \notin Connects /\ s \in Connects'
  /\ spc[s] \in Writing /\ spc'[s] \notin Writing /\ \A u \in Sockets : u # s => spc'[u] = spc[u]

\* A submit: the event waits to be polled.
LEMMA SubmitTags ==
  ASSUME rb \in Seq(Records), BusyInv, WaitInv, NEW s \in Sockets, NEW ev, Put(s, ev, FALSE),
         NEW act \in Actions, FirstSubmit(s, ev, act)
  PROVE  /\ BusyInv' /\ WaitInv' /\ Queued(act)' = Queued(act) \cup {s}
         /\ \A a \in Actions : a # act => Queued(a)' = Queued(a)
<1>0. /\ Connects \subseteq Connects' /\ Closes \subseteq Closes' /\ ev.action = act
      /\ act = "close" => s \notin Closes /\ s \in Closes' /\ ev.bytes = BytesOf[s]
      /\ act = "connect" => s \notin Connects /\ s \in Connects'
      /\ spc[s] \in Writing /\ spc'[s] \notin Writing /\ \A u \in Sockets : u # s => spc'[u] = spc[u]
  BY Zenon DEF FirstSubmit
<1>1. /\ DOMAIN rb' = DOMAIN rb
      /\ \A i \in DOMAIN rb : ~Pend(i, s) => rb'[i] = rb[i]
      /\ \A i \in DOMAIN rb : Pend(i, s) => rb'[i].sock = s /\ ~rb'[i].busy /\ rb'[i].ev = ev
  BY PutSubmits, Zenon
<1>2. PICK m \in DOMAIN rb : Pend(m, s)
  BY <1>0, Zenon DEF BusyInv
<1>3. \A i \in DOMAIN rb : i # m => rb'[i] = rb[i] /\ ~Pend(i, s)
  BY <1>1, <1>2, Zenon DEF BusyInv
<1>4. rb'[m].sock = s /\ ~rb'[m].busy /\ rb'[m].ev = ev
  BY <1>1, <1>2, Zenon
<1>5. \A i \in DOMAIN rb : \A u, a : i # m => (Pend(i, u)' <=> Pend(i, u)) /\ (Sub(i, u, a)' <=> Sub(i, u, a))
  BY <1>3, Zenon DEF Pend, Sub
<1>6. \A u, a : ~Pend(m, u)' /\ (Sub(m, u, a)' <=> u = s /\ a = act)
  BY <1>0, <1>4, Zenon DEF Pend, Sub
<1>7. \A u, a : (Pend(m, u) <=> u = s) /\ ~Sub(m, u, a)
  BY <1>2, Zenon DEF Pend, Sub
<1>8. BusyInv'
  <2>1. ASSUME NEW i \in DOMAIN rb, NEW u \in Sockets, Pend(i, u)' PROVE spc'[u] \in Writing
    <3>1. i # m
      BY <1>6, <2>1, Zenon
    <3>2. Pend(i, u) /\ ~Pend(i, s)
      BY <1>3, <1>5, <2>1, <3>1, Zenon
    <3>3. u # s /\ spc[u] \in Writing
      BY <3>2, Zenon DEF BusyInv
    <3> QED
      BY <1>0, <3>3
  <2>2. \A i, j \in DOMAIN rb, u \in Sockets : Pend(i, u)' /\ Pend(j, u)' => i = j
    BY <1>5, <1>6, Zenon DEF BusyInv
  <2>3. ASSUME NEW u \in Sockets, spc'[u] \in Writing PROVE \E i \in DOMAIN rb : Pend(i, u)'
    <3>1. u # s /\ spc[u] \in Writing
      BY <1>0, <2>3, Zenon
    <3>2. PICK i \in DOMAIN rb : Pend(i, u)
      BY <3>1, Zenon DEF BusyInv
    <3>3. i # m
      BY <1>7, <3>1, <3>2, Zenon
    <3> QED
      BY <1>5, <3>2, <3>3, Zenon
  <2> QED
    BY <1>1, <2>1, <2>2, <2>3, Zenon DEF BusyInv
<1>9. WaitInv'
  <2>1. ASSUME NEW i \in DOMAIN rb, NEW u \in Sockets, Sub(i, u, "close")'
        PROVE  u \in Closes' /\ rb'[i].ev.bytes = BytesOf[u]
    <3>1. CASE i = m
      BY <1>0, <1>4, <1>6, <2>1, <3>1, Zenon
    <3>2. CASE i # m
      BY <1>0, <1>3, <1>5, <2>1, <3>2 DEF WaitInv
    <3> QED
      BY <3>1, <3>2
  <2>2. ASSUME NEW i \in DOMAIN rb, NEW u \in Sockets, Sub(i, u, "connect")' PROVE u \in Connects'
    <3>1. CASE i = m
      BY <1>0, <1>6, <2>2, <3>1
    <3>2. CASE i # m
      BY <1>0, <1>5, <2>2, <3>2, Zenon DEF WaitInv
    <3> QED
      BY <3>1, <3>2
  <2>3. \A i \in DOMAIN rb : ~Sub(i, s, act)
    BY <1>0, Zenon DEF WaitInv, Actions
  <2>4. \A i, j \in DOMAIN rb, u \in Sockets, a \in {"connect", "close"} :
          Sub(i, u, a)' /\ Sub(j, u, a)' => i = j
    BY <1>5, <1>6, <2>3 DEF WaitInv
  <2> QED
    BY <1>1, <2>1, <2>2, <2>4, Zenon DEF WaitInv
<1>10. \A u \in Sockets : \A a : (\E i \in DOMAIN rb : Sub(i, u, a)') <=>
                               (\E i \in DOMAIN rb : Sub(i, u, a)) \/ (u = s /\ a = act)
  BY <1>5, <1>6, <1>7, Zenon
<1>11. \A u, a : (u \in Queued(a) <=> u \in Sockets /\ \E i \in DOMAIN rb : Sub(i, u, a))
                 /\ (u \in Queued(a)' <=> u \in Sockets /\ \E i \in DOMAIN rb : Sub(i, u, a)')
  BY <1>1, Zenon DEF Queued, Sub
<1>12. Queued(act)' = Queued(act) \cup {s}
  <2>1. \A u : u \in Queued(act)' <=> u \in Queued(act) \cup {s}
    BY <1>10, <1>11, Zenon
  <2> QED
    BY <2>1, Zenon
<1>13. \A a \in Actions : a # act => Queued(a)' = Queued(a)
  <2>1. ASSUME NEW a \in Actions, a # act PROVE \A u : u \in Queued(a)' <=> u \in Queued(a)
    BY <1>10, <1>11, <2>1, Zenon
  <2> QED
    BY <2>1, Zenon
<1> QED
  BY <1>8, <1>9, <1>12, <1>13, Zenon

\* Consuming a record: its event no longer waits.
LEMMA PollTags ==
  ASSUME rb \in Seq(Records), BusyInv, WaitInv, rb # <<>>, rb' = Tail(rb), ~Head(rb).busy,
         UNCHANGED <<profile, spc, lost>>, NEW s \in Sockets, NEW act \in Actions,
         Head(rb).sock = s, Head(rb).ev.action = act
  PROVE  /\ BusyInv' /\ WaitInv' /\ Connects' = Connects /\ Closes' = Closes
         /\ s \in Queued(act) /\ Queued(act)' = Queued(act) \ {s}
         /\ \A a \in Actions : a # act => Queued(a)' = Queued(a)
         /\ act = "close" => s \in Closes /\ Head(rb).ev.bytes = BytesOf[s]
         /\ act = "connect" => s \in Connects
         /\ \A i \in DOMAIN rb' : i + 1 \in DOMAIN rb /\ rb'[i] = rb[i + 1]
<1>1. /\ DOMAIN rb = 1..Len(rb) /\ Len(rb) \in Nat /\ Len(rb) >= 1 /\ Head(rb) = rb[1]
      /\ DOMAIN rb' = 1..Len(rb)-1 /\ \A i \in 1..Len(rb)-1 : rb'[i] = rb[i+1]
  OBVIOUS
<1>2. 1 \in DOMAIN rb /\ \A i \in DOMAIN rb' : i + 1 \in DOMAIN rb /\ i + 1 # 1 /\ rb'[i] = rb[i+1]
  BY <1>1
<1>3. \A j \in DOMAIN rb : j # 1 => \E i \in DOMAIN rb' : j = i + 1
  <2>1. \A j \in DOMAIN rb : j # 1 => j - 1 \in DOMAIN rb' /\ j = (j - 1) + 1
    BY <1>1
  <2> QED
    BY <2>1
<1>4. \A i, j \in DOMAIN rb' : i + 1 = j + 1 => i = j
  BY <1>1
<1>5. \A i \in DOMAIN rb' : \A u, a : (Pend(i, u)' <=> Pend(i + 1, u)) /\ (Sub(i, u, a)' <=> Sub(i + 1, u, a))
  BY <1>2, Zenon DEF Pend, Sub
<1>6. \A u, a : ~Pend(1, u) /\ (Sub(1, u, a) <=> u = s /\ a = act)
  BY <1>1, Zenon DEF Pend, Sub
<1>7. BusyInv'
  <2>1. \A i \in DOMAIN rb', u \in Sockets : Pend(i, u)' => spc[u] \in Writing
    BY <1>2, <1>5, Zenon DEF BusyInv
  <2>2. ASSUME NEW i \in DOMAIN rb', NEW j \in DOMAIN rb', NEW u \in Sockets, Pend(i, u)', Pend(j, u)'
        PROVE  i = j
    <3>1. Pend(i + 1, u) /\ Pend(j + 1, u) /\ i + 1 \in DOMAIN rb /\ j + 1 \in DOMAIN rb
      BY <1>2, <1>5, <2>2, Zenon
    <3>2. i + 1 = j + 1
      BY <3>1, Zenon DEF BusyInv
    <3> QED
      BY <1>4, <3>2, Zenon
  <2>3. ASSUME NEW u \in Sockets, spc[u] \in Writing PROVE \E i \in DOMAIN rb' : Pend(i, u)'
    <3>1. PICK j \in DOMAIN rb : Pend(j, u)
      BY <2>3, Zenon DEF BusyInv
    <3>2. PICK i \in DOMAIN rb' : j = i + 1
      BY <1>3, <1>6, <3>1, Zenon
    <3> QED
      BY <1>5, <3>1, <3>2, Zenon
  <2> QED
    BY <2>1, <2>2, <2>3, Zenon DEF BusyInv
<1>8. Connects' = Connects /\ Closes' = Closes
  <2>1. \A u \in Sockets : should_filter(PidOf[u], PortOf[u])' <=> should_filter(PidOf[u], PortOf[u])
    BY SMT DEF should_filter
  <2> QED
    BY <2>1, Zenon DEF Connects, Closes
<1>9. WaitInv'
  <2>1. \A i \in DOMAIN rb', u \in Sockets :
          Sub(i, u, "close")' => u \in Closes /\ rb'[i].ev.bytes = BytesOf[u]
    BY <1>2, <1>5 DEF WaitInv
  <2>2. \A i \in DOMAIN rb', u \in Sockets : Sub(i, u, "connect")' => u \in Connects
    BY <1>2, <1>5, Zenon DEF WaitInv
  <2>3. \A i, j \in DOMAIN rb', u \in Sockets, a \in {"connect", "close"} :
          Sub(i, u, a)' /\ Sub(j, u, a)' => i = j
    BY <1>2, <1>4, <1>5 DEF WaitInv
  <2> QED
    BY <1>8, <2>1, <2>2, <2>3, Zenon DEF WaitInv
<1>10. \A u, a : (u \in Queued(a) <=> u \in Sockets /\ \E i \in DOMAIN rb : Sub(i, u, a))
                 /\ (u \in Queued(a)' <=> u \in Sockets /\ \E i \in DOMAIN rb' : Sub(i, u, a)')
  BY Zenon DEF Queued, Sub
<1>11. \A j \in DOMAIN rb : Sub(j, s, act) => j = 1
  BY <1>2, <1>6 DEF WaitInv, Actions
<1>12. \A u, a : (\E i \in DOMAIN rb' : Sub(i, u, a)') <=>
                   (\E j \in DOMAIN rb : Sub(j, u, a)) /\ ~(u = s /\ a = act)
  <2>1. ASSUME NEW u, NEW a, NEW i \in DOMAIN rb', Sub(i, u, a)'
        PROVE  (\E j \in DOMAIN rb : Sub(j, u, a)) /\ ~(u = s /\ a = act)
    BY <1>2, <1>5, <1>11, <2>1, Zenon
  <2>2. ASSUME NEW u, NEW a, NEW j \in DOMAIN rb, Sub(j, u, a), ~(u = s /\ a = act)
        PROVE  \E i \in DOMAIN rb' : Sub(i, u, a)'
    <3>1. j # 1
      BY <1>6, <2>2, Zenon
    <3>2. PICK i \in DOMAIN rb' : j = i + 1
      BY <1>3, <3>1, Zenon
    <3> QED
      BY <1>5, <2>2, <3>2, Zenon
  <2> QED
    BY <2>1, <2>2, Zenon
<1>13. Sub(1, s, act)
  BY <1>6, Zenon
<1>14. s \in Queued(act) /\ \A u : u \in Queued(act)' <=> u \in Queued(act) \ {s}
  BY <1>2, <1>10, <1>12, <1>13, Zenon
<1>15. ASSUME NEW a \in Actions, a # act PROVE \A u : u \in Queued(a)' <=> u \in Queued(a)
  BY <1>10, <1>12, <1>15, Zenon
<1>16. /\ act = "close" => s \in Closes /\ Head(rb).ev.bytes = BytesOf[s]
       /\ act = "connect" => s \in Connects
  BY <1>1, <1>2, <1>13, Zenon DEF WaitInv
<1>17. Queued(act)' = Queued(act) \ {s} /\ \A a \in Actions : a # act => Queued(a)' = Queued(a)
  BY <1>14, <1>15, Zenon
<1> QED
  BY <1>2, <1>7, <1>8, <1>9, <1>14, <1>16, <1>17, Zenon

\* Nothing has been submitted or lost at first.
LEMMA TagInitially == Init => TagInv
<1> SUFFICES ASSUME Init PROVE TagInv
  OBVIOUS
<1>1. lost = {} /\ DOMAIN rb = {} /\ \A s \in Sockets : spc[s] = "new"
  BY DEF Init, TracerInit
<1>2. BusyInv /\ WaitInv /\ HistoryInv
  BY <1>1 DEF BusyInv, WaitInv, HistoryInv, Writing, Filling, PastFilter
<1> QED
  BY <1>2 DEF TagInv

\* A step that is neither of a program nor of the poll.
LEMMA TagRests ==
  ASSUME TagInv, UNCHANGED tracerVars
  PROVE  /\ TagInv' /\ Connects' = Connects /\ Closes' = Closes
         /\ Queued("close")' = Queued("close") /\ Queued("connect")' = Queued("connect")
<1>1. profile' = profile /\ spc' = spc /\ rb' = rb /\ lost' = lost
  BY DEF tracerVars
<1>2. \A u \in Sockets : should_filter(PidOf[u], PortOf[u])' <=> should_filter(PidOf[u], PortOf[u])
  BY <1>1, SMT DEF should_filter
<1>3. Connects' = Connects /\ Closes' = Closes
  BY <1>1, <1>2, Zenon DEF Connects, Closes
<1>4. Queued("close")' = Queued("close") /\ Queued("connect")' = Queued("connect")
  BY <1>1, Zenon DEF Queued
<1>5. BusyInv' /\ HistoryInv'
  BY <1>1, Zenon DEF TagInv, BusyInv, HistoryInv, Pend
<1>6. WaitInv'
  <2>1. WaitInv /\ \A i, u, a : Sub(i, u, a)' <=> Sub(i, u, a)
    BY <1>1, Zenon DEF Sub, TagInv
  <2> QED
    BY <1>1, <1>3, <2>1 DEF WaitInv
<1> QED
  BY <1>3, <1>4, <1>5, <1>6 DEF TagInv

\* trace_tcp_close writes the socket's bytes over what it copied.
LEMMA FilledBytes ==
  ASSUME TracerInv, NEW s \in Sockets, spc[s] = "fill"
  PROVE  /\ Mine(s) \in Events /\ Filled(s) \in Events /\ Filled(s).action = "close"
         /\ Filled(s).bytes = BytesOf[s] /\ Key(Filled(s)) = Key(Mine(s))
         /\ \E i \in DOMAIN rb : Pend(i, s) /\ Mine(s) = rb[i].ev
<1>1. Owns(s) /\ Written(s)
  BY DEF TracerInv, RecordInv, Filling
<1>2. \E i \in DOMAIN rb : Pend(i, s)
  BY <1>1 DEF Owns, Recs, Pend
<1>3. \E i \in DOMAIN rb : Pend(i, s) /\ Mine(s) = rb[i].ev
  BY <1>2, Zenon DEF Mine, Pend
<1>4. Mine(s) \in Events
  BY <1>1, <1>3 DEF Written, Recs, Pend
<1>5. BytesOf[s] \in Nat
  BY TracerAssumption
<1>6. PICK m \in Events : m = Mine(s)
  BY <1>4
<1>7. PICK w : w = [m EXCEPT !.action = "close", !.bytes = BytesOf[s]]
  OBVIOUS
<1>8. w = Filled(s)
  BY <1>6, <1>7 DEF Filled
<1>9. w \in Events /\ w.action = "close"
  BY <1>5, <1>7, Zenon DEF Events
<1>10. w.bytes = BytesOf[s] /\ w.conn = m.conn /\ w.pid = m.pid /\ w.port = m.port
  BY <1>7 DEF Events
<1> QED
  BY <1>3, <1>4, <1>6, <1>8, <1>9, <1>10 DEF Key

\* The step of a program: a submitted event waits, so those counted are the
\* same.
LEMMA ProgramTags ==
  ASSUME TracerInv, TagInv, NEW s \in Sockets, TracerNext(s)
  PROVE  /\ TagInv'
         /\ (Closes \ Queued("close"))' = Closes \ Queued("close")
         /\ (Connects \ Queued("connect"))' = Connects \ Queued("connect")
<1>1. profile' = profile /\ Moves(s) /\ \A u \in Sockets : u # s => spc'[u] = spc[u]
  BY StepMoves DEF TracerInv
<1>2. /\ HistoryInv'
      /\ ConnectSubmit(s) => s \notin Connects /\ Connects' = Connects \cup {s}
      /\ ~ConnectSubmit(s) => Connects' = Connects
      /\ CloseSubmit(s) => s \notin Closes /\ Closes' = Closes \cup {s}
      /\ ~CloseSubmit(s) => Closes' = Closes
  BY SubmittedMoves DEF TracerInv, TagInv
<1>3. rb \in Seq(Records) /\ BusyInv /\ WaitInv
  BY DEF TracerInv, RecordInv, TagInv
<1>5. ASSUME ~ConnectSubmit(s), ~CloseSubmit(s), BusyInv' /\ WaitInv' /\ \A a \in Actions : Queued(a)' = Queued(a)
      PROVE  /\ TagInv'
             /\ (Closes \ Queued("close"))' = Closes \ Queued("close")
             /\ (Connects \ Queued("connect"))' = Connects \ Queued("connect")
  <2>1. /\ (Closes \ Queued("close"))' = Closes \ Queued("close")
        /\ (Connects \ Queued("connect"))' = Connects \ Queued("connect")
    BY <1>2, <1>5, Zenon DEF Actions
  <2> QED
    BY <1>2, <1>5, <2>1, Zenon DEF TagInv
<1>6. CASE SameMarks /\ (spc'[s] \in Writing <=> spc[s] \in Writing) /\ ~ConnectSubmit(s) /\ ~CloseSubmit(s)
  <2>1. BusyInv' /\ WaitInv' /\ \A a \in Actions : Queued(a)' = Queued(a)
    BY <1>1, <1>2, <1>3, <1>6, QuietTags, Zenon
  <2> QED
    BY <1>5, <1>6, <2>1, Zenon
<1>7. CASE Reserve(s, None) /\ spc[s] \notin Writing /\ spc'[s] \in Writing
  <2>1. ~ConnectSubmit(s) /\ ~CloseSubmit(s)
    BY <1>7, Zenon DEF ConnectSubmit, CloseSubmit, Writing, Filling
  <2>2. BusyInv' /\ WaitInv' /\ \A a \in Actions : Queued(a)' = Queued(a)
    BY <1>1, <1>2, <1>3, <1>7, <2>1, ReserveTags, Zenon
  <2> QED
    BY <1>5, <2>1, <2>2, Zenon
<1>8. CASE ConnectSubmit(s)
  <2>1. PICK ev : ev = Event(s, "connect", 0)
    OBVIOUS
  <2>2. /\ ev.action = "connect" /\ Put(s, ev, FALSE) /\ spc[s] = "submit" /\ Goto(s, "open")
    BY <1>8, <2>1, Zenon DEF ConnectSubmit, Event
  <2>3. spc'[s] = "open"
    BY <2>2 DEF Goto, TracerInv, StageInv
  <2>4. spc[s] \in Writing /\ spc'[s] \notin Writing /\ "connect" \in Actions /\ "close" \in Actions /\ "connect" # "close"
    BY <2>2, <2>3 DEF Writing, Filling, Actions
  <2>5. ~CloseSubmit(s)
    BY <2>2 DEF CloseSubmit
  <2>6. /\ BusyInv' /\ WaitInv' /\ Queued("connect")' = Queued("connect") \cup {s}
        /\ Queued("close")' = Queued("close")
    <3>1. PICK act \in Actions : act = "connect"
      BY <2>4
    <3>2. FirstSubmit(s, ev, act)
      BY <1>1, <1>2, <1>8, <2>2, <2>4, <2>5, <3>1 DEF FirstSubmit
    <3>3. /\ BusyInv' /\ WaitInv' /\ Queued(act)' = Queued(act) \cup {s}
          /\ \A a \in Actions : a # act => Queued(a)' = Queued(a)
      BY <1>3, <2>2, <3>2, SubmitTags, Zenon
    <3> QED
      BY <2>4, <3>1, <3>3, Zenon
  <2>7. /\ (Closes \ Queued("close"))' = Closes \ Queued("close")
        /\ (Connects \ Queued("connect"))' = Connects \ Queued("connect")
    BY <1>2, <1>8, <2>5, <2>6
  <2> QED
    BY <1>2, <2>6, <2>7, Zenon DEF TagInv
<1>9. CASE CloseSubmit(s)
  <2>1. PICK ev : ev = Filled(s)
    OBVIOUS
  <2>2. Put(s, ev, FALSE) /\ spc[s] = "fill" /\ Goto(s, "closed")
    BY <1>9, <2>1, Zenon DEF CloseSubmit
  <2>a. ev.action = "close" /\ ev.bytes = BytesOf[s]
    BY <2>1, <2>2, FilledBytes
  <2>3. spc'[s] = "closed"
    BY <2>2 DEF Goto, TracerInv, StageInv
  <2>4. spc[s] \in Writing /\ spc'[s] \notin Writing /\ "connect" \in Actions /\ "close" \in Actions /\ "connect" # "close"
    BY <2>2, <2>3 DEF Writing, Filling, Actions
  <2>5. ~ConnectSubmit(s)
    BY <2>2 DEF ConnectSubmit
  <2>6. /\ BusyInv' /\ WaitInv' /\ Queued("close")' = Queued("close") \cup {s}
        /\ Queued("connect")' = Queued("connect")
    <3>1. PICK act \in Actions : act = "close"
      BY <2>4
    <3>2. FirstSubmit(s, ev, act)
      BY <1>1, <1>2, <1>9, <2>a, <2>4, <2>5, <3>1 DEF FirstSubmit
    <3>3. /\ BusyInv' /\ WaitInv' /\ Queued(act)' = Queued(act) \cup {s}
          /\ \A a \in Actions : a # act => Queued(a)' = Queued(a)
      BY <1>3, <2>2, <3>2, SubmitTags, Zenon
    <3> QED
      BY <2>4, <3>1, <3>3, Zenon
  <2>7. /\ (Closes \ Queued("close"))' = Closes \ Queued("close")
        /\ (Connects \ Queued("connect"))' = Connects \ Queued("connect")
    BY <1>2, <1>9, <2>5, <2>6
  <2> QED
    BY <1>2, <2>6, <2>7, Zenon DEF TagInv
<1>10. \/ ConnectSubmit(s) \/ CloseSubmit(s)
       \/ Reserve(s, None) /\ spc[s] \notin Writing /\ spc'[s] \in Writing
       \/ SameMarks /\ (spc'[s] \in Writing <=> spc[s] \in Writing)
  <2>1. ASSUME NEW w, Goto(s, w) PROVE spc'[s] = w
    BY <2>1 DEF Goto, TracerInv, StageInv
  <2>2. /\ "copy" \in Writing /\ "delete" \in Writing /\ "fill" \in Writing /\ "submit" \in Writing
        /\ "new" \notin Writing /\ "update" \notin Writing /\ "reserve" \notin Writing
        /\ "open" \notin Writing /\ "closeReserve" \notin Writing /\ "closed" \notin Writing
    BY DEF Writing, Filling
  <2>3. CASE trace_tcp_connect(s)
    BY <2>1, <2>2, <2>3, UnchangedMarks, Zenon DEF trace_tcp_connect
  <2>4. CASE UpdatePending(s)
    BY <2>1, <2>2, <2>4, UnchangedMarks, Zenon DEF UpdatePending
  <2>5. CASE ConnectReserve(s)
    BY <2>1, <2>2, <2>5, UnchangedMarks, Zenon DEF ConnectReserve
  <2>6. CASE trace_tcp_close(s)
    BY <2>1, <2>2, <2>6, UnchangedMarks, Zenon DEF trace_tcp_close
  <2>7. CASE CloseReserve(s)
    BY <2>1, <2>2, <2>7, UnchangedMarks, Zenon DEF CloseReserve
  <2>8. CASE Copy(s)
    <3>1. SameMarks
      BY <1>3, <2>8, PutMarks, Zenon DEF Copy
    <3>2. spc[s] = "copy" /\ spc'[s] \in {"delete", "fill"}
      BY <2>1, <2>8, Zenon DEF Copy
    <3> QED
      BY <2>2, <3>1, <3>2, Zenon
  <2>9. CASE DeletePending(s)
    BY <2>1, <2>2, <2>9, UnchangedMarks, Zenon DEF DeletePending
  <2> QED
    BY <2>3, <2>4, <2>5, <2>6, <2>7, <2>8, <2>9, Zenon DEF TracerNext, ProgramStep
<1> QED
  BY <1>6, <1>7, <1>8, <1>9, <1>10, Zenon

\* What the poll finds at the head of the ring buffer.
LEMMA PollHead ==
  ASSUME TracerInv, Poll
  PROVE  /\ rb \in Seq(Records) /\ rb # <<>> /\ rb' = Tail(rb) /\ ~Head(rb).busy /\ record(Head(rb).ev)
         /\ Head(rb).sock \in Sockets /\ Head(rb).ev \in Events /\ Head(rb).ev.action \in Actions
         /\ UNCHANGED <<profile, spc, pending, elems, ptr, lost>>
<1>1. /\ rb \in Seq(Records) /\ rb # <<>> /\ rb' = Tail(rb) /\ ~Head(rb).busy /\ record(Head(rb).ev)
      /\ UNCHANGED <<profile, spc, pending, elems, ptr, lost>>
  BY Zenon DEF Poll, TracerInv, RecordInv
<1>2. Head(rb) \in Recs /\ Head(rb) \in Records
  BY <1>1, RecsPoll
<1>3. Head(rb).ev \in Events
  BY <1>1, <1>2, Zenon DEF TracerInv, RecordInv, Good
<1>4. Head(rb).sock \in Sockets
  BY <1>2 DEF Records
<1>5. Head(rb).ev.action \in Actions
  BY <1>3 DEF Events, Actions
<1> QED
  BY <1>1, <1>3, <1>4, <1>5

\* One callback of the poll: the event it consumes is counted.
LEMMA PollCounts ==
  ASSUME TracerInv, TagInv, Poll
  PROVE  \E s \in Sockets, ev \in Events, act \in Actions :
           /\ s = Head(rb).sock /\ ev = Head(rb).ev /\ act = ev.action /\ record(ev)
           /\ TagInv' /\ spc' = spc
           /\ act = "close" => /\ Sub(1, s, "close") /\ 1 \in DOMAIN rb /\ ev = rb[1].ev /\ ev.bytes = BytesOf[s]
                              /\ s \notin Closes \ Queued("close")
                              /\ (Closes \ Queued("close"))' = (Closes \ Queued("close")) \cup {s}
                              /\ (Connects \ Queued("connect"))' = Connects \ Queued("connect")
           /\ act = "connect" => /\ s \notin Connects \ Queued("connect")
                                /\ (Connects \ Queued("connect"))' = (Connects \ Queued("connect")) \cup {s}
                                /\ (Closes \ Queued("close"))' = Closes \ Queued("close")
<1>1. PICK s \in Sockets : s = Head(rb).sock
  BY PollHead
<1>2. PICK ev \in Events : ev = Head(rb).ev
  BY PollHead
<1>3. PICK act \in Actions : act = ev.action
  BY <1>2, PollHead
<1>4. /\ rb \in Seq(Records) /\ rb # <<>> /\ rb' = Tail(rb) /\ ~Head(rb).busy /\ record(ev)
      /\ UNCHANGED <<profile, spc, lost>>
  BY <1>2, PollHead
<1>5. /\ BusyInv' /\ WaitInv' /\ Connects' = Connects /\ Closes' = Closes
      /\ s \in Queued(act) /\ Queued(act)' = Queued(act) \ {s}
      /\ \A a \in Actions : a # act => Queued(a)' = Queued(a)
      /\ act = "close" => s \in Closes /\ Head(rb).ev.bytes = BytesOf[s]
      /\ act = "connect" => s \in Connects
  BY <1>1, <1>2, <1>3, <1>4, PollTags DEF TagInv
<1>6. HistoryInv'
  BY <1>4, Zenon DEF TagInv, HistoryInv
<1>7. 1 \in DOMAIN rb /\ Head(rb) = rb[1]
  BY <1>4
<1>8. act = "close" => Sub(1, s, "close")
  BY <1>1, <1>2, <1>3, <1>4, <1>7, Zenon DEF Sub
<1>9. act = "close" => /\ s \notin Closes \ Queued("close")
                       /\ (Closes \ Queued("close"))' = (Closes \ Queued("close")) \cup {s}
                       /\ (Connects \ Queued("connect"))' = Connects \ Queued("connect")
  BY <1>5 DEF Actions
<1>10. act = "connect" => /\ s \notin Connects \ Queued("connect")
                          /\ (Connects \ Queued("connect"))' = (Connects \ Queued("connect")) \cup {s}
                          /\ (Closes \ Queued("close"))' = Closes \ Queued("close")
  BY <1>5 DEF Actions
<1>11. TagInv'
  BY <1>5, <1>6 DEF TagInv
<1>12. act = "close" => ev = rb[1].ev /\ ev.bytes = BytesOf[s]
  BY <1>2, <1>5, <1>7, Zenon
<1> QED
  BY <1>1, <1>2, <1>3, <1>4, <1>7, <1>8, <1>9, <1>10, <1>11, <1>12, Zenon

\* Every step keeps it.
LEMMA TagStep == TracerInv /\ TagInv /\ [Next]_vars => TagInv'
<1> SUFFICES ASSUME TracerInv, TagInv, [Next]_vars PROVE TagInv'
  OBVIOUS
<1>1. Poll => TagInv'
  BY PollCounts, Zenon
<1> QED
  BY <1>1, ProgramTags, TagRests DEF Next, vars

-----------------------------------------------------------------------------
(* One connection at a time.  While a process has at most one socket in    *)
(* use and no record was lost, its pending entry describes that socket.    *)

Sequential == profile.oneAtATime /\ lost = {}

Active(s) == spc[s] \notin {"new", "closed"}
Holding == {"reserve", "submit", "open", "closeReserve", "copy", "delete"}
Looked == {"closeReserve", "copy", "delete"}

Described(p) == \E s \in Sockets : PidOf[s] = p /\ spc[s] \in Holding /\ Key(elems[pending[p]]) = KeyOf(s)

OrderInv ==
  /\ \A s, u \in Sockets : Active(s) /\ Active(u) /\ PidOf[s] = PidOf[u] => s = u
  /\ \A p \in Pids : pending[p] # None => Described(p)
  /\ \A s \in Sockets : spc[s] \in Looked => ptr[s] = pending[PidOf[s]]

CarryInv ==
  /\ \A i \in DOMAIN rb, s \in Sockets : Pend(i, s) /\ spc[s] \in {"delete", "fill"} => Key(rb[i].ev) = KeyOf(s)
  /\ \A i \in DOMAIN rb, s \in Sockets : Sub(i, s, "close") => Key(rb[i].ev) = KeyOf(s)

SeqInv == Sequential => OrderInv /\ CarryInv

\* A step that leaves pending_connects and the lookups alone, of a socket
\* that keeps its hold on its entry or has none.
LEMMA OrderMoves ==
  ASSUME OrderInv, UNCHANGED <<pending, elems, ptr>>, NEW s \in Sockets,
         \A u \in Sockets : u # s => spc'[u] = spc[u],
         Active(s)' => Active(s) \/ (\A u \in Sockets : u # s /\ PidOf[u] = PidOf[s] => ~Active(u)),
         spc[s] \in Holding => spc'[s] \in Holding \/ pending[PidOf[s]] = None,
         spc'[s] \in Looked => spc[s] \in Looked
  PROVE  OrderInv'
<1>1. \A u \in Sockets : u # s => (Active(u)' <=> Active(u))
  BY Zenon DEF Active
<1>2. \A v, u \in Sockets : Active(v)' /\ Active(u)' /\ PidOf[v] = PidOf[u] => v = u
  BY <1>1, Zenon DEF OrderInv
<1>3. ASSUME NEW p \in Pids, pending'[p] # None PROVE Described(p)'
  <2>1. PICK u \in Sockets : PidOf[u] = p /\ spc[u] \in Holding /\ Key(elems[pending[p]]) = KeyOf(u)
    BY <1>3, Zenon DEF OrderInv, Described
  <2>2. spc'[u] \in Holding
    BY <1>3, <2>1, Zenon
  <2>3. Key(elems'[pending'[p]]) = KeyOf(u)
    BY <2>1, Zenon
  <2> QED
    BY <2>1, <2>2, <2>3, Zenon DEF Described, Key, KeyOf
<1>4. \A u \in Sockets : spc'[u] \in Looked => ptr'[u] = pending'[PidOf[u]]
  BY Zenon DEF OrderInv
<1> QED
  BY <1>2, <1>3, <1>4, Zenon DEF OrderInv

\* bpf_map_update_elem by a process that has no entry: the new element
\* describes the socket, and nobody else's entry is touched.
LEMMA UpdateOrder ==
  ASSUME HeapInv, OrderInv, NEW s \in Sockets, spc[s] = "update", spc'[s] = "reserve",
         \A u \in Sockets : u # s => spc'[u] = spc[u], ptr' = ptr,
         NEW e \in Elems \ Linked, elems' = [elems EXCEPT ![e] = Event(s, "connect", 0)],
         pending' = [pending EXCEPT ![PidOf[s]] = e]
  PROVE  OrderInv'
<1>1. PICK ev : ev = Event(s, "connect", 0)
  OBVIOUS
<1>2. Key(ev) = KeyOf(s)
  BY <1>1, EventType DEF KeyOf
<1>3. PICK me \in Pids : me = PidOf[s]
  BY TracerAssumption
<1>4. /\ \A f \in Elems : elems'[f] = IF f = e THEN ev ELSE elems[f]
      /\ \A p \in Pids : pending'[p] = IF p = me THEN e ELSE pending[p]
  BY <1>1, <1>3 DEF HeapInv
<1>5. Active(s) /\ \A u \in Sockets : Active(u)' <=> Active(u)
  BY DEF Active
<1>6. \A u \in Sockets : PidOf[u] = me /\ Active(u) => u = s
  BY <1>3, <1>5, Zenon DEF OrderInv
<1>7. ASSUME NEW p \in Pids, pending'[p] # None PROVE Described(p)'
  <2>1. CASE p = me
    <3>1. elems'[pending'[p]] = ev /\ spc'[s] \in Holding
      BY <1>4, <2>1 DEF Holding
    <3> QED
      BY <1>2, <1>3, <2>1, <3>1, Zenon DEF Described, Key, KeyOf
  <2>2. CASE p # me
    <3>1. pending'[p] = pending[p] /\ pending[p] # None
      BY <1>4, <1>7, <2>2
    <3>2. PICK u \in Sockets : PidOf[u] = p /\ spc[u] \in Holding /\ Key(elems[pending[p]]) = KeyOf(u)
      BY <3>1, Zenon DEF OrderInv, Described
    <3>3. u # s /\ spc'[u] \in Holding
      BY <1>3, <2>2, <3>2
    <3>4. pending[p] \in Linked /\ pending[p] \in Elems
      BY <3>1 DEF Linked, HeapInv
    <3>5. elems'[pending'[p]] = elems[pending[p]]
      BY <1>4, <3>1, <3>4
    <3> QED
      BY <3>2, <3>3, <3>5, Zenon DEF Described, Key, KeyOf
  <2> QED
    BY <2>1, <2>2
<1>8. ASSUME NEW u \in Sockets, spc'[u] \in Looked PROVE ptr'[u] = pending'[PidOf[u]]
  <2>1. u # s /\ spc[u] \in Looked
    BY <1>8 DEF Looked
  <2>2. Active(u)
    BY <2>1 DEF Active, Looked
  <2>3. PidOf[u] # me /\ PidOf[u] \in Pids
    BY <1>6, <2>1, <2>2, TracerAssumption
  <2> QED
    BY <1>4, <2>1, <2>3 DEF OrderInv
<1>9. \A v, u \in Sockets : Active(v)' /\ Active(u)' /\ PidOf[v] = PidOf[u] => v = u
  BY <1>5, Zenon DEF OrderInv
<1> QED
  BY <1>7, <1>8, <1>9, Zenon DEF OrderInv

\* bpf_map_lookup_elem by a program that starts.
LEMMA CloseOrder ==
  ASSUME HeapInv, OrderInv, NEW s \in Sockets, UNCHANGED <<pending, elems>>,
         ptr' = [ptr EXCEPT ![s] = pending[PidOf[s]]],
         \A u \in Sockets : u # s => spc'[u] = spc[u], spc'[s] = "closeReserve",
         spc[s] = "open" \/ (\A u \in Sockets : u # s /\ PidOf[u] = PidOf[s] => ~Active(u))
  PROVE  OrderInv'
<1>1. \A u \in Sockets : ptr'[u] = IF u = s THEN pending[PidOf[s]] ELSE ptr[u]
  BY DEF HeapInv
<1>2. \A u \in Sockets : u # s => (Active(u)' <=> Active(u))
  BY Zenon DEF Active
<1>3. spc[s] = "open" => Active(s)
  BY DEF Active
<1>4. \A v, u \in Sockets : Active(v)' /\ Active(u)' /\ PidOf[v] = PidOf[u] => v = u
  BY <1>2, <1>3, Zenon DEF OrderInv
<1>5. ASSUME NEW p \in Pids, pending'[p] # None PROVE Described(p)'
  <2>1. PICK u \in Sockets : PidOf[u] = p /\ spc[u] \in Holding /\ Key(elems[pending[p]]) = KeyOf(u)
    BY <1>5, Zenon DEF OrderInv, Described
  <2>2. spc'[u] \in Holding
    BY <2>1 DEF Holding
  <2>3. Key(elems'[pending'[p]]) = KeyOf(u)
    BY <2>1, Zenon
  <2> QED
    BY <2>1, <2>2, <2>3, Zenon DEF Described, Key, KeyOf
<1>6. \A u \in Sockets : spc'[u] \in Looked => ptr'[u] = pending'[PidOf[u]]
  BY <1>1, Zenon DEF OrderInv
<1> QED
  BY <1>4, <1>5, <1>6, Zenon DEF OrderInv

\* bpf_map_delete_elem: the process gives up its entry.
LEMMA DeleteOrder ==
  ASSUME HeapInv, OrderInv, NEW s \in Sockets, UNCHANGED <<ptr, elems>>,
         pending' = [pending EXCEPT ![PidOf[s]] = None], spc[s] = "delete", spc'[s] = "fill",
         \A u \in Sockets : u # s => spc'[u] = spc[u]
  PROVE  OrderInv'
<1>1. PICK me \in Pids : me = PidOf[s]
  BY TracerAssumption, Zenon
<1>2. \A p \in Pids : pending'[p] = IF p = me THEN None ELSE pending[p]
  BY <1>1 DEF HeapInv
<1>3. Active(s) /\ \A u \in Sockets : Active(u)' <=> Active(u)
  BY DEF Active
<1>4. ASSUME NEW p \in Pids, pending'[p] # None PROVE Described(p)'
  <2>1. p # me /\ pending'[p] = pending[p]
    BY <1>2, <1>4
  <2>2. PICK u \in Sockets : PidOf[u] = p /\ spc[u] \in Holding /\ Key(elems[pending[p]]) = KeyOf(u)
    BY <1>4, <2>1, Zenon DEF OrderInv, Described
  <2>3. spc'[u] \in Holding
    BY <1>1, <2>1, <2>2
  <2>4. Key(elems'[pending'[p]]) = KeyOf(u)
    BY <2>1, <2>2, Zenon
  <2> QED
    BY <2>2, <2>3, <2>4, Zenon DEF Described, Key, KeyOf
<1>5. ASSUME NEW u \in Sockets, spc'[u] \in Looked PROVE ptr'[u] = pending'[PidOf[u]]
  <2>1. u # s /\ spc[u] \in Looked
    BY <1>5 DEF Looked
  <2>2. Active(u)
    BY <2>1 DEF Active, Looked
  <2>3. PidOf[u] # me /\ PidOf[u] \in Pids
    BY <1>1, <1>3, <2>1, <2>2, TracerAssumption DEF OrderInv
  <2> QED
    BY <1>2, <2>1, <2>3 DEF OrderInv
<1>6. \A v, u \in Sockets : Active(v)' /\ Active(u)' /\ PidOf[v] = PidOf[u] => v = u
  BY <1>3, Zenon DEF OrderInv
<1> QED
  BY <1>4, <1>5, <1>6, Zenon DEF OrderInv

\* The pending entry follows the socket through every step of its programs.
LEMMA OrderProgram ==
  ASSUME HeapInv, StageInv, OrderInv, profile.oneAtATime, lost' = {}, NEW s \in Sockets, TracerNext(s)
  PROVE  OrderInv'
<1>1. profile' = profile /\ Moves(s) /\ \A u \in Sockets : u # s => spc'[u] = spc[u]
  BY StepMoves
<1>2. MayStart(s) => \A u \in Sockets : u # s /\ PidOf[u] = PidOf[s] => ~Active(u)
  BY Zenon DEF MayStart, Active
<1>3. ASSUME NEW w, Goto(s, w) PROVE spc'[s] = w
  BY <1>3 DEF Goto, StageInv
<1>4. CASE trace_tcp_connect(s)
  <2>1. /\ MayStart(s) /\ UNCHANGED <<pending, elems, ptr>> /\ spc[s] = "new"
        /\ spc'[s] = "open" \/ spc'[s] = "update"
    BY <1>3, <1>4, Zenon DEF trace_tcp_connect
  <2>2. spc[s] \notin Holding /\ spc'[s] \notin Looked
    BY <2>1 DEF Holding, Looked
  <2> QED
    BY <1>1, <1>2, <2>1, <2>2, OrderMoves, Zenon
<1>5. CASE UpdatePending(s)
  <2>1. spc[s] = "update" /\ spc'[s] = "reserve" /\ ptr' = ptr
    BY <1>3, <1>5, Zenon DEF UpdatePending
  <2>2. CASE UNCHANGED <<pending, elems>>
    <3>1. Active(s) /\ spc[s] \notin Holding /\ spc'[s] \notin Looked
      BY <2>1 DEF Holding, Looked, Active
    <3> QED
      BY <1>1, <2>1, <2>2, <3>1, OrderMoves, Zenon
  <2>3. ASSUME NEW e \in Elems \ Linked, elems' = [elems EXCEPT ![e] = Event(s, "connect", 0)],
               pending' = [pending EXCEPT ![PidOf[s]] = e]
        PROVE  OrderInv'
    BY <1>1, <2>1, <2>3, UpdateOrder, Zenon
  <2> QED
    BY <1>5, <2>2, <2>3, Zenon DEF UpdatePending
<1>6. CASE ConnectReserve(s) \/ ConnectSubmit(s)
  <2>1. UNCHANGED <<pending, elems, ptr>>
    BY <1>6, Zenon DEF ConnectReserve, ConnectSubmit
  <2>2. spc[s] \in {"reserve", "submit"} /\ spc'[s] \in {"submit", "open"}
    BY <1>3, <1>6, Zenon DEF ConnectReserve, ConnectSubmit
  <2>3. Active(s) /\ spc'[s] \in Holding /\ spc'[s] \notin Looked
    BY <2>2 DEF Holding, Looked, Active
  <2> QED
    BY <1>1, <2>1, <2>3, OrderMoves, Zenon
<1>7. CASE trace_tcp_close(s)
  <2>1. /\ spc[s] = "open" \/ MayStart(s)
        /\ UNCHANGED <<pending, elems>> /\ ptr' = [ptr EXCEPT ![s] = pending[PidOf[s]]]
        /\ spc'[s] = "closeReserve"
    BY <1>3, <1>7, Zenon DEF trace_tcp_close, LookupKey
  <2> QED
    BY <1>1, <1>2, <2>1, CloseOrder, Zenon
<1>8. CASE CloseReserve(s)
  <2>1. UNCHANGED <<pending, elems, ptr>> /\ spc[s] = "closeReserve"
    BY <1>8, Zenon DEF CloseReserve
  <2>2. spc'[s] = "copy"
    BY <1>1, <2>1, Zenon DEF Moves
  <2>3. Active(s) /\ spc'[s] \in Holding /\ spc[s] \in Looked
    BY <2>1, <2>2 DEF Holding, Looked, Active
  <2> QED
    BY <1>1, <2>1, <2>3, OrderMoves, Zenon
<1>9. CASE Copy(s)
  <2>1. /\ UNCHANGED <<pending, elems, ptr>> /\ spc[s] = "copy"
        /\ spc'[s] = "delete" \/ (spc'[s] = "fill" /\ ptr[s] = None)
    BY <1>3, <1>9, Zenon DEF Copy
  <2>2. spc[s] \in Looked /\ Active(s) /\ "delete" \in Holding
    BY <2>1 DEF Looked, Active, Holding
  <2>3. ptr[s] = pending[PidOf[s]]
    BY <2>2, Zenon DEF OrderInv
  <2> QED
    BY <1>1, <2>1, <2>2, <2>3, OrderMoves, Zenon
<1>10. CASE DeletePending(s)
  <2>1. /\ UNCHANGED <<ptr, elems>> /\ pending' = [pending EXCEPT ![PidOf[s]] = None]
        /\ spc[s] = "delete" /\ spc'[s] = "fill"
    BY <1>3, <1>10, Zenon DEF DeletePending, Deleted
  <2> QED
    BY <1>1, <2>1, DeleteOrder, Zenon
<1>11. CASE CloseSubmit(s)
  <2>1. UNCHANGED <<pending, elems, ptr>> /\ spc[s] = "fill" /\ spc'[s] = "closed"
    BY <1>3, <1>11, Zenon DEF CloseSubmit
  <2>2. Active(s) /\ spc[s] \notin Holding /\ spc'[s] \notin Looked
    BY <2>1 DEF Holding, Looked, Active
  <2> QED
    BY <1>1, <2>1, <2>2, OrderMoves, Zenon
<1> QED
  BY <1>4, <1>5, <1>6, <1>7, <1>8, <1>9, <1>10, <1>11, Zenon DEF TracerNext, ProgramStep

\* What a step does to the records of the other sockets, and to its own.
LEMMA RecordsMove ==
  ASSUME TracerInv, NEW s \in Sockets, TracerNext(s)
  PROVE  \A i \in DOMAIN rb', u \in Sockets :
           /\ Pend(i, u)' => \/ i \in DOMAIN rb /\ Pend(i, u) /\ rb'[i] = rb[i]
                             \/ u = s /\ spc'[s] \in {"submit", "copy"}
                             \/ u = s /\ Copy(s) /\ ptr[s] # None /\ rb'[i].ev = elems[ptr[s]]
                             \/ u = s /\ Copy(s) /\ ptr[s] = None /\ rb'[i].ev = Event(s, "close", 0)
           /\ Sub(i, u, "close")' => \/ i \in DOMAIN rb /\ Sub(i, u, "close") /\ rb'[i] = rb[i]
                                     \/ u = s /\ CloseSubmit(s) /\ rb'[i].ev = Filled(s)
<1> SUFFICES ASSUME NEW i \in DOMAIN rb', NEW u \in Sockets
             PROVE  /\ Pend(i, u)' => \/ i \in DOMAIN rb /\ Pend(i, u) /\ rb'[i] = rb[i]
                                      \/ u = s /\ spc'[s] \in {"submit", "copy"}
                                      \/ u = s /\ Copy(s) /\ ptr[s] # None /\ rb'[i].ev = elems[ptr[s]]
                                      \/ u = s /\ Copy(s) /\ ptr[s] = None /\ rb'[i].ev = Event(s, "close", 0)
                    /\ Sub(i, u, "close")' => \/ i \in DOMAIN rb /\ Sub(i, u, "close") /\ rb'[i] = rb[i]
                                              \/ u = s /\ CloseSubmit(s) /\ rb'[i].ev = Filled(s)
  BY Zenon
<1>1. rb \in Seq(Records)
  BY DEF TracerInv, RecordInv
<1>2. ASSUME NEW w, Goto(s, w) PROVE spc'[s] = w
  BY <1>2 DEF Goto, TracerInv, StageInv
<1>3. ASSUME i \in DOMAIN rb, rb'[i] = rb[i]
      PROVE  (Pend(i, u)' <=> Pend(i, u)) /\ (Sub(i, u, "close")' <=> Sub(i, u, "close"))
  BY <1>3, Zenon DEF Pend, Sub
<1>4. CASE rb' = rb
  BY <1>3, <1>4, Zenon
<1>5. CASE Reserve(s, None) /\ spc'[s] \in {"submit", "copy"}
  <2>1. PICK n \in Nat : /\ DOMAIN rb = 1..n /\ DOMAIN rb' = 1..n+1
                         /\ \A j \in 1..n : rb'[j] = rb[j]
                         /\ rb'[n+1].sock = s /\ rb'[n+1].busy
    BY <1>1, <1>5, ReserveAt, Zenon
  <2>2. CASE i \in 1..n
    BY <1>3, <2>1, <2>2, Zenon
  <2>3. CASE i = n + 1
    <3>1. rb'[i].sock = s /\ rb'[i].busy
      BY <2>1, <2>3, Zenon
    <3> QED
      BY <1>5, <3>1, Zenon DEF Pend, Sub
  <2>4. i \in 1..n \/ i = n + 1
    BY <2>1
  <2> QED
    BY <2>2, <2>3, <2>4, Zenon
<1>6. ASSUME NEW ev, Put(s, ev, TRUE)
      PROVE  i \in DOMAIN rb /\ (rb'[i] = rb[i] \/ (Pend(i, s) /\ rb'[i].ev = ev))
  <2>1. /\ DOMAIN rb' = DOMAIN rb
        /\ \A j \in DOMAIN rb : ~Pend(j, s) => rb'[j] = rb[j]
        /\ \A j \in DOMAIN rb : Pend(j, s) => rb'[j].sock = s /\ rb'[j].busy = TRUE /\ rb'[j].ev = ev
    BY <1>1, <1>6, PutAt, Zenon
  <2> QED
    BY <2>1, Zenon
<1>7. CASE Copy(s)
  <2>1. PICK ev : /\ Put(s, ev, TRUE)
                  /\ \/ ptr[s] # None /\ ev = elems[ptr[s]]
                     \/ ptr[s] = None /\ ev = Event(s, "close", 0)
    BY <1>7, Zenon DEF Copy
  <2>2. i \in DOMAIN rb /\ (rb'[i] = rb[i] \/ (Pend(i, s) /\ rb'[i].ev = ev))
    BY <1>6, <2>1, Zenon
  <2>3. CASE rb'[i] = rb[i]
    BY <1>3, <2>2, <2>3, Zenon
  <2>4. CASE rb'[i] # rb[i]
    <3>1. Pend(i, s) /\ rb'[i].ev = ev
      BY <2>2, <2>4, Zenon
    <3>2. SameMarks
      BY <1>1, <2>1, PutMarks, Zenon
    <3>3. Pend(i, u)' <=> Pend(i, u)
      BY <2>2, <3>2, Zenon DEF SameMarks
    <3>4. Pend(i, u) => u = s
      BY <3>1, Zenon DEF Pend
    <3>5. ~Sub(i, u, "close")
      BY <3>1, Zenon DEF Pend, Sub
    <3>6. Sub(i, u, "close")' <=> Sub(i, u, "close")
      BY <2>2, <3>2, Zenon DEF SameMarks
    <3> QED
      BY <1>7, <2>1, <3>1, <3>3, <3>4, <3>5, <3>6, Zenon
  <2> QED
    BY <2>3, <2>4, Zenon
<1>8. ASSUME NEW ev, Put(s, ev, FALSE)
      PROVE  /\ i \in DOMAIN rb
             /\ rb'[i] = rb[i] \/ (rb'[i].sock = s /\ ~rb'[i].busy /\ rb'[i].ev = ev)
  <2>1. /\ DOMAIN rb' = DOMAIN rb
        /\ \A j \in DOMAIN rb : ~Pend(j, s) => rb'[j] = rb[j]
        /\ \A j \in DOMAIN rb : Pend(j, s) => rb'[j].sock = s /\ ~rb'[j].busy /\ rb'[j].ev = ev
    BY <1>1, <1>8, PutSubmits, Zenon
  <2> QED
    BY <2>1, Zenon
<1>9. CASE ConnectSubmit(s)
  <2>1. PICK ev : ev = Event(s, "connect", 0)
    OBVIOUS
  <2>2. Put(s, ev, FALSE) /\ ev.action = "connect"
    BY <1>9, <2>1, Zenon DEF ConnectSubmit, Event
  <2>3. CASE rb'[i] = rb[i]
    BY <1>3, <1>8, <2>2, <2>3, Zenon
  <2>4. CASE rb'[i] # rb[i]
    <3>1. ~rb'[i].busy /\ rb'[i].ev.action = "connect"
      BY <1>8, <2>2, <2>4, Zenon
    <3> QED
      BY <3>1 DEF Pend, Sub
  <2> QED
    BY <2>3, <2>4, Zenon
<1>10. CASE CloseSubmit(s)
  <2>1. PICK ev : ev = Filled(s)
    OBVIOUS
  <2>2. Put(s, ev, FALSE)
    BY <1>10, <2>1, Zenon DEF CloseSubmit
  <2>3. CASE rb'[i] = rb[i]
    BY <1>3, <1>8, <2>2, <2>3, Zenon
  <2>4. CASE rb'[i] # rb[i]
    <3>1. ~rb'[i].busy /\ rb'[i].sock = s /\ rb'[i].ev = Filled(s)
      BY <1>8, <2>1, <2>2, <2>4, Zenon
    <3> QED
      BY <1>10, <3>1, Zenon DEF Pend, Sub
  <2> QED
    BY <2>3, <2>4
<1>11. \/ rb' = rb \/ Copy(s) \/ ConnectSubmit(s) \/ CloseSubmit(s)
       \/ Reserve(s, None) /\ spc'[s] \in {"submit", "copy"}
  BY <1>2, Zenon DEF TracerNext, ProgramStep, trace_tcp_connect, UpdatePending, ConnectReserve,
                     trace_tcp_close, CloseReserve, DeletePending
<1> QED
  BY <1>4, <1>5, <1>7, <1>9, <1>10, <1>11, Zenon

\* A close record carries the key of the socket that is closed.
LEMMA CarryProgram ==
  ASSUME TracerInv, BusyInv, OrderInv, CarryInv, NEW s \in Sockets, TracerNext(s)
  PROVE  CarryInv'
<1>1. profile' = profile /\ Moves(s) /\ \A u \in Sockets : u # s => spc'[u] = spc[u]
  BY StepMoves DEF TracerInv
<1>2. ASSUME NEW i \in DOMAIN rb', NEW u \in Sockets, Pend(i, u)', spc'[u] \in {"delete", "fill"}
      PROVE  Key(rb'[i].ev) = KeyOf(u)
  <2>1. \/ i \in DOMAIN rb /\ Pend(i, u) /\ rb'[i] = rb[i]
        \/ u = s /\ spc'[s] \in {"submit", "copy"}
        \/ u = s /\ Copy(s) /\ ptr[s] # None /\ rb'[i].ev = elems[ptr[s]]
        \/ u = s /\ Copy(s) /\ ptr[s] = None /\ rb'[i].ev = Event(s, "close", 0)
    BY <1>2, RecordsMove, Zenon
  <2>2. CASE i \in DOMAIN rb /\ Pend(i, u) /\ rb'[i] = rb[i] /\ spc[u] \in {"delete", "fill"}
    <3>1. Key(rb[i].ev) = KeyOf(u)
      BY <2>2, Zenon DEF CarryInv
    <3> QED
      BY <2>2, <3>1, Zenon
  <2>3. CASE u = s /\ Copy(s) /\ ptr[s] # None /\ rb'[i].ev = elems[ptr[s]]
    <3>1. spc[s] = "copy"
      BY <2>3, Zenon DEF Copy
    <3>2. spc[s] \in Looked /\ Active(s) /\ PidOf[s] \in Pids
      BY <3>1, TracerAssumption DEF Looked, Active
    <3>3. ptr[s] = pending[PidOf[s]] /\ Described(PidOf[s])
      BY <2>3, <3>2, Zenon DEF OrderInv
    <3>4. PICK v \in Sockets : /\ PidOf[v] = PidOf[s] /\ spc[v] \in Holding
                               /\ Key(elems[pending[PidOf[s]]]) = KeyOf(v)
      BY <3>3, Zenon DEF Described
    <3>5. Active(v)
      BY <3>4 DEF Holding, Active
    <3>6. v = s
      BY <3>2, <3>4, <3>5, Zenon DEF OrderInv
    <3> QED
      BY <2>3, <3>3, <3>4, <3>6, Zenon
  <2>4. CASE u = s /\ rb'[i].ev = Event(s, "close", 0)
    <3>1. Key(Event(s, "close", 0)) = KeyOf(s)
      BY EventType DEF KeyOf
    <3> QED
      BY <2>4, <3>1, Zenon
  <2>5. CASE u # s
    BY <1>1, <1>2, <2>1, <2>2, <2>5, Zenon
  <2>6. CASE u = s
    <3>1. /\ spc'[s] \notin {"submit", "copy"}
          /\ spc[s] \in {"copy", "delete"}
      BY <1>1, <1>2, <2>6 DEF Moves
    <3>2. CASE spc[s] = "delete"
      <4>1. ~Copy(s)
        BY <3>2 DEF Copy
      <4> QED
        BY <2>1, <2>2, <2>6, <3>1, <3>2, <4>1, Zenon
    <3>3. CASE spc[s] = "copy"
      <4>1. Copy(s)
        BY <3>3, Zenon DEF TracerNext, ProgramStep, trace_tcp_connect, UpdatePending, ConnectReserve, ConnectSubmit,
                    trace_tcp_close, CloseReserve, DeletePending, CloseSubmit
      <4>2. PICK ev : /\ Put(s, ev, TRUE)
                      /\ \/ ptr[s] # None /\ ev = elems[ptr[s]]
                         \/ ptr[s] = None /\ ev = Event(s, "close", 0)
        BY <4>1, Zenon DEF Copy
      <4>3. rb \in Seq(Records)
        BY DEF TracerInv, RecordInv
      <4>4. SameMarks
        BY <4>2, <4>3, PutMarks, Zenon
      <4>5. i \in DOMAIN rb /\ Pend(i, s)
        BY <1>2, <2>6, <4>4, Zenon DEF SameMarks
      <4>6. \A j \in DOMAIN rb : Pend(j, s) => rb'[j].sock = s /\ rb'[j].busy = TRUE /\ rb'[j].ev = ev
        BY <4>2, <4>3, PutAt, Zenon
      <4>7. rb'[i].ev = ev
        BY <4>5, <4>6, Zenon
      <4> QED
        BY <2>3, <2>4, <2>6, <4>1, <4>2, <4>7, Zenon
    <3> QED
      BY <3>1, <3>2, <3>3
  <2> QED
    BY <2>5, <2>6
<1>3. ASSUME NEW i \in DOMAIN rb', NEW u \in Sockets, Sub(i, u, "close")'
      PROVE  Key(rb'[i].ev) = KeyOf(u)
  <2>1. \/ i \in DOMAIN rb /\ Sub(i, u, "close") /\ rb'[i] = rb[i]
        \/ u = s /\ CloseSubmit(s) /\ rb'[i].ev = Filled(s)
    BY <1>3, RecordsMove, Zenon
  <2>2. CASE i \in DOMAIN rb /\ Sub(i, u, "close") /\ rb'[i] = rb[i]
    <3>1. Key(rb[i].ev) = KeyOf(u)
      BY <2>2, Zenon DEF CarryInv
    <3> QED
      BY <2>2, <3>1, Zenon
  <2>3. CASE u = s /\ CloseSubmit(s) /\ rb'[i].ev = Filled(s)
    <3>1. spc[s] = "fill"
      BY <2>3, Zenon DEF CloseSubmit
    <3>2. /\ Key(Filled(s)) = Key(Mine(s))
          /\ \E j \in DOMAIN rb : Pend(j, s) /\ Mine(s) = rb[j].ev
      BY <3>1, FilledBytes
    <3>3. PICK j \in DOMAIN rb : Pend(j, s) /\ Mine(s) = rb[j].ev
      BY <3>2, Zenon
    <3>4. Key(rb[j].ev) = KeyOf(s)
      BY <3>1, <3>3, Zenon DEF CarryInv
    <3> QED
      BY <2>3, <3>2, <3>3, <3>4, Zenon
  <2> QED
    BY <2>1, <2>2, <2>3, Zenon
<1>4. /\ \A u : KeyOf(u)' = KeyOf(u)
      /\ \A ev : Key(ev)' = Key(ev)
  BY Zenon DEF KeyOf, Key
<1> QED
  BY <1>2, <1>3, Zenon DEF CarryInv, KeyOf, Key

\* What waits in the ring buffer keeps its key when the oldest record goes.
LEMMA PollCarries ==
  ASSUME TracerInv, CarryInv, Poll
  PROVE  CarryInv'
<1>1. rb \in Seq(Records) /\ rb # <<>> /\ rb' = Tail(rb) /\ spc' = spc
  BY PollHead
<1>2. \A i \in DOMAIN rb' : i + 1 \in DOMAIN rb /\ rb'[i] = rb[i + 1]
  BY <1>1
<1>3. ASSUME NEW i \in DOMAIN rb', NEW u \in Sockets
      PROVE  /\ Pend(i, u)' /\ spc[u] \in {"delete", "fill"} => Key(rb'[i].ev) = KeyOf(u)
             /\ Sub(i, u, "close")' => Key(rb'[i].ev) = KeyOf(u)
  <2>1. PICK j \in DOMAIN rb : j = i + 1 /\ rb'[i] = rb[j]
    BY <1>2, Zenon
  <2>2. (Pend(i, u)' <=> Pend(j, u)) /\ (Sub(i, u, "close")' <=> Sub(j, u, "close"))
    BY <2>1, Zenon DEF Pend, Sub
  <2>3. /\ Pend(j, u) /\ spc[u] \in {"delete", "fill"} => Key(rb[j].ev) = KeyOf(u)
        /\ Sub(j, u, "close") => Key(rb[j].ev) = KeyOf(u)
    BY Zenon DEF CarryInv
  <2> QED
    BY <2>1, <2>2, <2>3, Zenon
<1> QED
  BY <1>1, <1>3, Zenon DEF CarryInv, KeyOf, Key

\* Nothing is pending or carried at first.
LEMMA SeqInitially == Init => SeqInv
<1> SUFFICES ASSUME Init PROVE OrderInv /\ CarryInv
  BY DEF SeqInv
<1>1. /\ DOMAIN rb = {} /\ \A s \in Sockets : spc[s] = "new"
      /\ \A p \in Pids : pending[p] = None
  BY DEF Init, TracerInit
<1> QED
  BY <1>1 DEF OrderInv, Active, Looked, CarryInv

\* A step of a program, after which nothing is lost, had nothing lost before.
LEMMA SequentialBefore ==
  ASSUME StageInv, NEW s \in Sockets, TracerNext(s), Sequential'
  PROVE  Sequential /\ lost' = {} /\ profile.oneAtATime
<1>1. profile' = profile /\ lost \subseteq lost'
  BY StepMoves DEF Moves
<1> QED
  BY <1>1 DEF Sequential

\* No step breaks the order.
LEMMA SeqStep == TracerInv /\ TagInv /\ SeqInv /\ [Next]_vars => SeqInv'
<1> SUFFICES ASSUME TracerInv, TagInv, SeqInv, [Next]_vars PROVE SeqInv'
  OBVIOUS
<1>1. HeapInv /\ StageInv /\ BusyInv
  BY DEF TracerInv, TagInv
<1>2. ASSUME NEW s \in Sockets, TracerNext(s) PROVE SeqInv'
  <2> SUFFICES ASSUME Sequential' PROVE OrderInv' /\ CarryInv'
    BY Zenon DEF SeqInv
  <2>1. Sequential /\ lost' = {} /\ profile.oneAtATime
    BY <1>1, <1>2, SequentialBefore, Zenon
  <2>2. OrderInv /\ CarryInv
    BY <2>1, Zenon DEF SeqInv
  <2>3. OrderInv'
    BY <1>1, <1>2, <2>1, <2>2, OrderProgram, Zenon
  <2>4. CarryInv'
    BY <1>1, <1>2, <2>2, CarryProgram, Zenon
  <2> QED
    BY <2>3, <2>4
<1>3. ASSUME UNCHANGED <<profile, spc, pending, elems, ptr, lost>>
      PROVE  (Sequential' <=> Sequential) /\ (OrderInv => OrderInv')
  BY <1>3, Zenon DEF Sequential, OrderInv, Described, Active, Key, KeyOf
<1>4. CASE Poll
  <2>1. UNCHANGED <<profile, spc, pending, elems, ptr, lost>>
    BY <1>4 DEF Poll
  <2> QED
    BY <1>3, <1>4, <2>1, PollCarries, Zenon DEF SeqInv
<1>5. CASE UNCHANGED tracerVars
  <2>1. UNCHANGED <<profile, spc, pending, elems, ptr, lost>> /\ rb' = rb
    BY <1>5 DEF tracerVars
  <2>2. CarryInv => CarryInv'
    BY <2>1, Zenon DEF CarryInv, Pend, Sub, Key, KeyOf
  <2> QED
    BY <1>3, <2>1, <2>2, Zenon DEF SeqInv
<1> QED
  BY <1>2, <1>4, <1>5 DEF Next, vars

\* All of it holds throughout.
LEMMA ProgramsInductive == Spec => [](TracerInv /\ TagInv /\ SeqInv)
  BY TracerInductive, TagInitially, TagStep, SeqInitially, SeqStep, PTL DEF Spec

\* With one connection at a time per process and no record lost, an entry of
\* pending_connects belongs to a process with a connection still open.
THEOREM PendingDoesNotLeak == Spec => []PendingIsOpen
<1>1. SeqInv => PendingIsOpen
  <2> SUFFICES ASSUME SeqInv, Sequential, NEW p \in Pids, pending[p] # None
               PROVE  \E s \in Sockets : PidOf[s] = p /\ spc[s] \notin {"new", "closed"}
    BY Zenon DEF PendingIsOpen, Sequential
  <2>1. Described(p)
    BY Zenon DEF SeqInv, OrderInv
  <2> QED
    BY <2>1 DEF Described, Holding
<1> QED
  BY <1>1, ProgramsInductive, PTL
=============================================================================
