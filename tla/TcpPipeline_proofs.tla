------------------------- MODULE TcpPipeline_proofs -------------------------
(***************************************************************************)
(* The whole pipeline: what the reporter counts from the events of the     *)
(* programs, and what a scrape shows of it; for every set of sockets and   *)
(* processes, every filter, and every size of the map and the ring buffer. *)
(***************************************************************************)
EXTENDS TcpTracer_proofs, Sums_proofs

-----------------------------------------------------------------------------
(* The reporter and a scrape.  Entries are never erased and bytes never    *)
(* shrink, so what a scrape took earlier stays behind the reporter.        *)

Entries == [connects : Nat, bytes : Nat]

ReporterInv ==
  /\ IsFiniteSet(DOMAIN stats)
  /\ \A k \in DOMAIN stats : stats[k] \in Entries
  /\ OnlyTracedConnects

ScrapeInv ==
  /\ scrape = [pc |-> scrape.pc, gauge |-> scrape.gauge, lines |-> scrape.lines]
  /\ scrape.pc \in {"idle", "counted", "done"} /\ scrape.gauge \in Nat
  /\ scrape.pc = "idle" => scrape.gauge = 0
  /\ scrape.pc = "counted" => scrape.gauge <= Cardinality(DOMAIN stats)
  /\ scrape.pc = "done" => \A k \in DOMAIN scrape.lines : scrape.lines[k].bytes \in Nat
  /\ ScrapeConsistent

PipeInv == TracerInv /\ ReporterInv /\ ScrapeInv

\* An empty reporter and no scrape under way.
LEMMA ReporterInitially == ReporterInit => ReporterInv /\ ScrapeInv
<1> SUFFICES ASSUME ReporterInit PROVE ReporterInv /\ ScrapeInv
  OBVIOUS
<1>1. DOMAIN stats = {}
  BY DEF ReporterInit
<1>2. ReporterInv
  BY <1>1, FS_EmptySet DEF ReporterInv, OnlyTracedConnects
<1>3. scrape = [pc |-> "idle", gauge |-> 0, lines |-> <<>>]
  BY DEF ReporterInit, NoScrape
<1>4. ScrapeInv
  BY <1>3 DEF ScrapeInv, ScrapeConsistent
<1> QED
  BY <1>2, <1>4

\* Recording an event adds at most its own key, and adds to what was there.
LEMMA RecordAdds ==
  ASSUME ReporterInv, NEW ev \in Events, record(ev)
  PROVE  /\ DOMAIN stats' = DOMAIN stats \cup {Key(ev)}
         /\ \A k \in DOMAIN stats' : stats'[k] \in Entries
         /\ \A k \in DOMAIN stats : stats[k].bytes <= stats'[k].bytes
         /\ \A k \in DOMAIN stats' : stats'[k].connects > 0 =>
              \/ k \in DOMAIN stats /\ stats[k].connects > 0
              \/ k = Key(ev) /\ ev.action = "connect"
<1> DEFINE key == Key(ev)
           old == Entry(key)
           new == Counted(ev, old)
<1>1. stats' = [k \in DOMAIN stats \cup {key} |-> IF k = key THEN new ELSE stats[k]]
  BY DEF record
<1>2. old \in Entries /\ (key \in DOMAIN stats => old = stats[key])
      /\ (key \notin DOMAIN stats => old.connects = 0)
  BY DEF Entry, Entries, ReporterInv
<1> HIDE DEF old, key
<1>3. ev.bytes \in Nat
  BY DEF Events
<1>4. /\ new \in Entries /\ old.bytes <= new.bytes
      /\ ev.action # "connect" => new.connects = old.connects
  BY <1>2, <1>3 DEF Counted, Entries
<1> HIDE DEF new
<1>5. /\ DOMAIN stats' = DOMAIN stats \cup {key}
      /\ \A k \in DOMAIN stats' : stats'[k] = IF k = key THEN new ELSE stats[k]
  BY <1>1
<1>6. \A k \in DOMAIN stats' : stats'[k] \in Entries
  BY <1>4, <1>5 DEF ReporterInv
<1>7. \A k \in DOMAIN stats : stats[k].bytes <= stats'[k].bytes
  <2> SUFFICES ASSUME NEW k \in DOMAIN stats PROVE stats[k].bytes <= stats'[k].bytes
    OBVIOUS
  <2>1. stats[k].bytes \in Nat
    BY DEF ReporterInv, Entries
  <2> QED
    BY <1>2, <1>4, <1>5, <2>1
<1>8. ASSUME NEW k \in DOMAIN stats', stats'[k].connects > 0
      PROVE  \/ k \in DOMAIN stats /\ stats[k].connects > 0
             \/ k = key /\ ev.action = "connect"
  <2>1. CASE k # key
    BY <1>5, <1>8, <2>1
  <2>2. CASE k = key /\ ev.action # "connect"
    BY <1>2, <1>4, <1>5, <1>8, <2>2
  <2> QED
    BY <2>1, <2>2
<1> QED
  BY <1>5, <1>6, <1>7, <1>8 DEF key

\* One callback of the poll.
LEMMA PollKeeps ==
  ASSUME PipeInv, Poll
  PROVE  ReporterInv' /\ ScrapeInv'
<1> DEFINE r == Head(rb)
<1>1. /\ rb \in Seq(Records) /\ rb # <<>> /\ rb' = Tail(rb) /\ ~r.busy /\ record(r.ev)
      /\ UNCHANGED <<profile, scrape>>
  BY DEF Poll, PipeInv, TracerInv, RecordInv
<1>2. r \in Recs
  BY <1>1, RecsPoll
<1> HIDE DEF r
<1>4. r.ev \in Events /\ (r.ev.action = "connect" => Traced(Key(r.ev)))
  BY <1>1, <1>2, Zenon DEF PipeInv, TracerInv, RecordInv, Good
<1> DEFINE ev == r.ev
<1>5. /\ DOMAIN stats' = DOMAIN stats \cup {Key(ev)}
      /\ \A k \in DOMAIN stats' : stats'[k] \in Entries
      /\ \A k \in DOMAIN stats : stats[k].bytes <= stats'[k].bytes
      /\ \A k \in DOMAIN stats' : stats'[k].connects > 0 =>
           \/ k \in DOMAIN stats /\ stats[k].connects > 0
           \/ k = Key(ev) /\ ev.action = "connect"
  BY <1>1, <1>4, RecordAdds, Zenon DEF PipeInv
<1>6. IsFiniteSet(DOMAIN stats') /\ Cardinality(DOMAIN stats) <= Cardinality(DOMAIN stats')
  <2>1. IsFiniteSet(DOMAIN stats)
    BY DEF PipeInv, ReporterInv
  <2>2. IsFiniteSet(DOMAIN stats')
    BY <1>5, <2>1, FS_AddElement
  <2> QED
    BY <1>5, <2>2, FS_Subset
<1>7. ReporterInv'
  <2>1. \A k : Traced(k)' <=> Traced(k)
    BY <1>1, Zenon DEF Traced
  <2>2. OnlyTracedConnects'
    BY <1>4, <1>5, <2>1 DEF PipeInv, ReporterInv, OnlyTracedConnects
  <2> QED
    BY <1>5, <1>6, <2>2 DEF ReporterInv
<1>8. ScrapeInv'
  <2>1. scrape.pc = "counted" => scrape.gauge <= Cardinality(DOMAIN stats')
    <3>1. Cardinality(DOMAIN stats) \in Nat /\ Cardinality(DOMAIN stats') \in Nat
      BY <1>6, FS_CardinalityType DEF PipeInv, ReporterInv
    <3> QED
      BY <1>6, <3>1 DEF PipeInv, ScrapeInv
  <2>2. ScrapeConsistent'
    <3> SUFFICES ASSUME scrape.pc = "done", NEW k \in DOMAIN scrape.lines
                 PROVE  k \in DOMAIN stats' /\ scrape.lines[k].bytes <= stats'[k].bytes
      BY <1>1 DEF PipeInv, ScrapeInv, ScrapeConsistent
    <3>1. /\ k \in DOMAIN stats /\ scrape.lines[k].bytes \in Nat
          /\ scrape.lines[k].bytes <= stats[k].bytes
      BY DEF PipeInv, ScrapeInv, ScrapeConsistent
    <3>2. stats[k].bytes \in Nat /\ stats'[k].bytes \in Nat
      BY <1>5, <3>1 DEF PipeInv, ReporterInv, Entries
    <3> QED
      BY <1>5, <3>1, <3>2
  <2> QED
    BY <1>1, <2>1, <2>2 DEF PipeInv, ScrapeInv
<1> QED
  BY <1>7, <1>8

\* The lines of a response are the reporter's entries at that moment.
LEMMA LinesNow ==
  ASSUME ReporterInv
  PROVE  /\ DOMAIN Lines = DOMAIN stats
         /\ \A k \in DOMAIN stats : Lines[k].bytes = stats[k].bytes /\ stats[k].bytes \in Nat
<1> DEFINE L(k) == Line(k)
<1>1. \A k \in DOMAIN stats : Line(k).bytes = stats[k].bytes
  BY DEF Line
<1>2. Lines = [k \in DOMAIN stats |-> L(k)]
  BY DEF Lines
<1>3. \A k \in DOMAIN stats : stats[k].bytes \in Nat
  BY DEF ReporterInv, Entries
<1> QED
  BY <1>1, <1>2, <1>3, Zenon

\* A step of a scrape.
LEMMA ScrapeKeeps ==
  ASSUME ReporterInv, ScrapeInv, ReporterNext
  PROVE  ScrapeInv' /\ stats' = stats
<1>1. Cardinality(DOMAIN stats) \in Nat /\ 0 <= Cardinality(DOMAIN stats)
  BY FS_CardinalityType DEF ReporterInv
<1>2. CASE ScrapeCount
  <2> DEFINE n == Cardinality(DOMAIN stats)
  <2>1. scrape' = [pc |-> "counted", gauge |-> n, lines |-> scrape.lines] /\ stats' = stats
    BY <1>2, Zenon DEF ScrapeCount, ScrapeInv
  <2>2. Cardinality(DOMAIN stats)' = n /\ n \in Nat
    BY <1>1, <2>1
  <2> HIDE DEF n
  <2> QED
    BY <2>1, <2>2 DEF ScrapeInv, ScrapeConsistent
<1>3. ASSUME scrape.pc \in {"idle", "counted"}, stats' = stats,
             scrape' = [scrape EXCEPT !.pc = "done", !.lines = Lines]
      PROVE  ScrapeInv'
  <2> DEFINE ls == Lines
  <2>1. scrape' = [pc |-> "done", gauge |-> scrape.gauge, lines |-> ls]
    BY <1>3, Zenon DEF ScrapeInv
  <2>2. /\ DOMAIN ls = DOMAIN stats
        /\ \A k \in DOMAIN stats : ls[k].bytes = stats[k].bytes /\ stats[k].bytes \in Nat
    BY LinesNow
  <2> HIDE DEF ls
  <2>3. scrape.gauge \in Nat /\ scrape.gauge <= Cardinality(DOMAIN ls)
    BY <1>1, <1>3, <2>2 DEF ScrapeInv
  <2>4. scrape'.pc = "done" /\ scrape'.gauge = scrape.gauge /\ scrape'.lines = ls
    BY <2>1
  <2>5. ScrapeConsistent'
    BY <1>3, <2>2, <2>3, <2>4 DEF ScrapeConsistent
  <2> QED
    BY <2>1, <2>2, <2>3, <2>4, <2>5 DEF ScrapeInv
<1>4. CASE ScrapeSent
  <2>1. scrape' = [pc |-> "idle", gauge |-> 0, lines |-> <<>>] /\ stats' = stats
    BY <1>4 DEF ScrapeSent, NoScrape
  <2> QED
    BY <2>1 DEF ScrapeInv, ScrapeConsistent
<1> QED
  BY <1>2, <1>3, <1>4 DEF ReporterNext, ScrapeCount, ScrapeLines, ConnectionsLines

\* Every step keeps the invariant.
LEMMA PipeStep == PipeInv /\ [Next]_vars => PipeInv'
<1> SUFFICES ASSUME PipeInv, [Next]_vars PROVE PipeInv'
  OBVIOUS
<1>1. TracerInv'
  BY TracerStep DEF PipeInv
<1>2. ASSUME UNCHANGED <<stats, profile>> PROVE ReporterInv'
  <2>1. \A k : Traced(k)' <=> Traced(k)
    BY <1>2, Zenon DEF Traced
  <2> QED
    BY <1>2, <2>1 DEF PipeInv, ReporterInv, OnlyTracedConnects
<1>3. ASSUME UNCHANGED <<stats, scrape>> PROVE ScrapeInv'
  BY <1>3 DEF PipeInv, ScrapeInv, ScrapeConsistent
<1>4. ASSUME NEW s \in Sockets, TracerNext(s), UNCHANGED reporterVars PROVE PipeInv'
  <2>1. profile' = profile
    BY <1>4, StepMoves DEF Moves, PipeInv, TracerInv
  <2> QED
    BY <1>1, <1>2, <1>3, <1>4, <2>1 DEF PipeInv, reporterVars
<1>5. CASE Poll
  BY <1>1, <1>5, PollKeeps DEF PipeInv
<1>6. CASE ReporterNext /\ UNCHANGED tracerVars
  <2>1. ScrapeInv' /\ stats' = stats
    BY <1>6, ScrapeKeeps DEF PipeInv
  <2> QED
    BY <1>1, <1>2, <1>6, <2>1 DEF PipeInv, tracerVars
<1>7. CASE UNCHANGED vars
  BY <1>1, <1>2, <1>3, <1>7 DEF PipeInv, vars, tracerVars, reporterVars
<1> QED
  BY <1>4, <1>5, <1>6, <1>7 DEF Next

\* The invariant holds throughout.
LEMMA PipeInductive == Spec => []PipeInv
<1>1. Init => PipeInv
  BY TracerInitially, ReporterInitially DEF Init, PipeInv
<1> QED
  BY <1>1, PipeStep, PTL DEF Spec

\* No connect is ever counted for a connection that the filters exclude
\* (should_filter in trace_tcp_connect), whatever the programs interleave,
\* lose or find in recycled elements.
THEOREM ConnectsObeyFilter == Spec => []OnlyTracedConnects
<1>1. PipeInv => OnlyTracedConnects
  BY DEF PipeInv, ReporterInv
<1> QED
  BY <1>1, PipeInductive, PTL

\* A scrape, which locks the reporter twice, never prints a gauge above the
\* number of its lines nor a line ahead of the reporter (from_reporter).
THEOREM ScrapesAreConsistent == Spec => []ScrapeConsistent
<1>1. PipeInv => ScrapeConsistent
  BY DEF PipeInv, ScrapeInv
<1> QED
  BY <1>1, PipeInductive, PTL

-----------------------------------------------------------------------------
(* Sizes.  pending_connects stays within max_entries because no two        *)
(* processes share an element: replacing an entry frees the old element.   *)

SizeInv ==
  /\ Len(rb) <= profile.cap
  /\ IsFiniteSet(Linked) /\ Cardinality(Linked) <= MaxEntries
  /\ \A p, q \in Pids : p # q /\ pending[p] # None => pending[p] # pending[q]
  /\ DOMAIN stats \subseteq Keys

\* Everything is empty at first.
LEMMA SizeInitially == Init => SizeInv
<1> SUFFICES ASSUME Init PROVE SizeInv
  OBVIOUS
<1>1. Linked = {}
  BY DEF Init, TracerInit, Linked
<1>2. IsFiniteSet(Linked) /\ Cardinality(Linked) = 0
  BY <1>1, FS_EmptySet
<1>3. profile.cap \in Nat /\ MaxEntries \in Nat
  BY TracerAssumption DEF Init, TracerInit
<1>4. Len(rb) = 0
  BY DEF Init, TracerInit
<1>5. DOMAIN stats \subseteq Keys
  BY DEF Init, ReporterInit
<1> QED
  BY <1>2, <1>3, <1>4, <1>5 DEF Init, TracerInit, SizeInv

\* bpf_map_update_elem links a free element in place of the old one, or
\* finds room for a new one.
LEMMA UpdateSize ==
  ASSUME HeapInv, SizeInv, NEW s \in Sockets, UpdatePending(s)
  PROVE  /\ IsFiniteSet(Linked') /\ Cardinality(Linked') <= MaxEntries
         /\ \A p, q \in Pids : p # q /\ pending'[p] # None => pending'[p] # pending'[q]
<1>1. CASE pending' = pending
  <2>1. Linked' = Linked
    BY <1>1 DEF Linked
  <2> QED
    BY <1>1, <2>1 DEF SizeInv
<1>2. ASSUME NEW e \in Elems \ Linked, pending' = [pending EXCEPT ![PidOf[s]] = e],
             pending[PidOf[s]] # None \/ Cardinality(Linked) < MaxEntries
      PROVE  /\ IsFiniteSet(Linked') /\ Cardinality(Linked') <= MaxEntries
             /\ \A p, q \in Pids : p # q /\ pending'[p] # None => pending'[p] # pending'[q]
  <2> DEFINE me == PidOf[s]
             x == pending[me]
  <2>1. me \in Pids /\ e # None /\ MaxEntries \in Nat
    BY TracerAssumption
  <2>2. \A p \in Pids : pending'[p] = IF p = me THEN e ELSE pending[p]
    BY <1>2 DEF HeapInv
  <2>3. \A p \in Pids : pending[p] # None => pending[p] \in Linked
    BY DEF Linked
  <2>4. \A p, q \in Pids : p # q /\ pending'[p] # None => pending'[p] # pending'[q]
    <3> SUFFICES ASSUME NEW p \in Pids, NEW q \in Pids, p # q, pending'[p] # None
                 PROVE  pending'[p] # pending'[q]
      OBVIOUS
    <3>1. CASE p = me
      BY <1>2, <2>1, <2>2, <2>3, <3>1
    <3>2. CASE q = me
      BY <1>2, <2>1, <2>2, <2>3, <3>2
    <3>3. CASE p # me /\ q # me
      BY <2>2, <3>3 DEF SizeInv
    <3> QED
      BY <3>1, <3>2, <3>3
  <2>5. Linked' = {pending'[p] : p \in Pids} \ {None}
    BY DEF Linked
  <2>6. IsFiniteSet(Linked) /\ Cardinality(Linked) \in Nat /\ Cardinality(Linked) <= MaxEntries
    BY FS_CardinalityType DEF SizeInv
  <2>7. CASE x = None
    <3>1. Linked' = Linked \cup {e}
      BY <2>1, <2>2, <2>5, <2>7 DEF Linked
    <3>2. IsFiniteSet(Linked') /\ Cardinality(Linked') = Cardinality(Linked) + 1
      BY <1>2, <2>6, <3>1, FS_AddElement
    <3> QED
      BY <1>2, <2>1, <2>4, <2>6, <2>7, <3>2
  <2>8. CASE x # None
    <3> DEFINE rest == Linked \ {x}
    <3>1. x \in Linked /\ e \notin rest
      BY <1>2, <2>1, <2>3, <2>8
    <3>2. \A p \in Pids : p # me => pending[p] # x
      BY <2>1, <2>8 DEF SizeInv
    <3>3. Linked' = rest \cup {e}
      BY <2>1, <2>2, <2>5, <3>2 DEF Linked
    <3>4. IsFiniteSet(rest) /\ Cardinality(rest) = Cardinality(Linked) - 1
      BY <2>6, <3>1, FS_RemoveElement, Zenon
    <3> HIDE DEF rest
    <3>5. IsFiniteSet(Linked') /\ Cardinality(Linked') = Cardinality(rest) + 1
      BY <3>1, <3>3, <3>4, FS_AddElement
    <3> QED
      BY <2>4, <2>6, <3>4, <3>5
  <2> QED
    BY <2>7, <2>8
<1> QED
  BY <1>1, <1>2 DEF UpdatePending

\* No step exceeds a size.
LEMMA SizeStep == PipeInv /\ SizeInv /\ [Next]_vars => SizeInv'
<1> SUFFICES ASSUME PipeInv, SizeInv, [Next]_vars PROVE SizeInv'
  OBVIOUS
<1> DEFINE HashSize == /\ IsFiniteSet(Linked) /\ Cardinality(Linked) <= MaxEntries
                       /\ \A p, q \in Pids : p # q /\ pending[p] # None => pending[p] # pending[q]
<1>1. ASSUME pending' = pending PROVE HashSize'
  <2>1. Linked' = Linked
    BY <1>1 DEF Linked
  <2> QED
    BY <1>1, <2>1 DEF SizeInv
<1>2. profile.cap \in Nat /\ rb \in Seq(Records) /\ Len(rb) \in Nat /\ DOMAIN rb = 1..Len(rb)
  BY TracerAssumption DEF PipeInv, TracerInv, StageInv, RecordInv
<1>3. ASSUME NEW s \in Sockets, DeletePending(s) PROVE HashSize'
  <2>1. PidOf[s] \in Pids /\ pending' = [pending EXCEPT ![PidOf[s]] = None]
    BY <1>3, TracerAssumption DEF DeletePending, Deleted
  <2>2. \A p \in Pids : pending'[p] = IF p = PidOf[s] THEN None ELSE pending[p]
    BY <2>1 DEF PipeInv, TracerInv, HeapInv
  <2>3. Linked' \subseteq Linked
    BY <2>2 DEF Linked
  <2>4. IsFiniteSet(Linked') /\ Cardinality(Linked') <= Cardinality(Linked)
    BY <2>3, FS_Subset DEF SizeInv
  <2>5. Cardinality(Linked') <= MaxEntries
    BY <2>4, FS_CardinalityType, TracerAssumption DEF SizeInv
  <2> QED
    BY <2>2, <2>4, <2>5 DEF SizeInv
<1>4. ASSUME NEW s \in Sockets, HasRoom, Reserve(s, None), profile' = profile
      PROVE  Len(rb') <= profile'.cap
  <2>1. Len(rb') = Len(rb) + 1
    BY <1>2, <1>4 DEF Reserve
  <2> QED
    BY <1>2, <1>4, <2>1 DEF HasRoom
<1>5. ASSUME NEW s, NEW ev, NEW busy, Put(s, ev, busy), profile' = profile
      PROVE  Len(rb') <= profile'.cap
  <2>1. Len(rb') = Len(rb)
    BY <1>2, <1>5 DEF Put
  <2> QED
    BY <1>5, <2>1 DEF SizeInv
<1>6. ASSUME rb' = rb, profile' = profile PROVE Len(rb') <= profile'.cap
  BY <1>6 DEF SizeInv
<1>7. ASSUME NEW s \in Sockets, TracerNext(s), UNCHANGED reporterVars PROVE SizeInv'
  <2>1. HashSize'
    <3>1. CASE UpdatePending(s)
      BY <3>1, UpdateSize DEF PipeInv, TracerInv
    <3>2. UpdatePending(s) \/ DeletePending(s) \/ pending' = pending
      BY <1>7, Zenon DEF TracerNext, ProgramStep, trace_tcp_connect, ConnectReserve, ConnectSubmit,
                  trace_tcp_close, CloseReserve, Copy, CloseSubmit
    <3> QED
      BY <1>1, <1>3, <3>1, <3>2
  <2>2. Len(rb') <= profile'.cap
    <3>1. \/ rb' = rb /\ profile' = profile
          \/ HasRoom /\ Reserve(s, None) /\ profile' = profile
          \/ \E ev, busy : Put(s, ev, busy) /\ profile' = profile
      BY <1>7, Zenon DEF TracerNext, ProgramStep, trace_tcp_connect, UpdatePending, ConnectReserve, ConnectSubmit,
                  trace_tcp_close, CloseReserve, Copy, DeletePending, CloseSubmit
    <3> QED
      BY <1>4, <1>5, <1>6, <3>1, Zenon
  <2> QED
    BY <1>7, <2>1, <2>2 DEF SizeInv, reporterVars
<1>8. CASE Poll
  <2>1. rb # <<>> /\ rb' = Tail(rb) /\ UNCHANGED <<profile, pending>> /\ record(Head(rb).ev) /\ ~Head(rb).busy
    BY <1>8 DEF Poll
  <2>2. Len(rb') <= profile'.cap
    BY <1>2, <2>1 DEF SizeInv
  <2>3. Head(rb) \in Recs
    BY <1>2, <2>1, RecsPoll
  <2> DEFINE ev == Head(rb).ev
  <2>4. ev \in Events /\ record(ev)
    BY <2>1, <2>3, Zenon DEF PipeInv, TracerInv, RecordInv, Good
  <2> HIDE DEF ev
  <2>5. DOMAIN stats' = DOMAIN stats \cup {Key(ev)}
    BY <2>4 DEF record
  <2>6. Key(ev) \in Keys
    BY <2>4 DEF Key, Keys, Events
  <2> QED
    BY <1>1, <2>1, <2>2, <2>5, <2>6, Zenon DEF SizeInv
<1>9. CASE UNCHANGED <<tracerVars, stats>>
  BY <1>1, <1>6, <1>9 DEF SizeInv, tracerVars
<1> QED
  BY <1>7, <1>8, <1>9 DEF Next, vars, reporterVars, ReporterNext, ScrapeCount, ScrapeLines,
                          ConnectionsLines, ScrapeSent

\* Every reachable state is well typed, and pending_connects and tcp_events
\* stay within their sizes.
THEOREM PipelineTypeCorrect == Spec => []TypeOK
<1>1. PipeInv /\ SizeInv => TypeOK
  BY DEF PipeInv, TracerInv, HeapInv, StageInv, ReporterInv, ScrapeInv, SizeInv, Entries, TypeOK
<1>2. Spec => [](PipeInv /\ SizeInv)
  BY PipeInductive, SizeInitially, SizeStep, PTL DEF Spec
<1> QED
  BY <1>1, <1>2, PTL

-----------------------------------------------------------------------------
(* Totals.  The poll counts each event as it leaves the ring buffer.       *)

Closed == {s \in Sockets : spc[s] = "closed"}

TotalInv ==
  /\ IsFiniteSet(Closed) /\ IsFiniteSet(Connects \ Queued("connect"))
  /\ DeliveredOnce

\* StatsReporter::record adds the event's bytes, or one connect, to the totals.
LEMMA RecordSums ==
  ASSUME ReporterInv, NEW ev \in Events, record(ev)
  PROVE  /\ SumOver([k \in DOMAIN stats |-> stats[k].bytes], DOMAIN stats)' =
              SumOver([k \in DOMAIN stats |-> stats[k].bytes], DOMAIN stats)
                + (IF ev.action = "connect" THEN 0 ELSE ev.bytes)
         /\ SumOver([k \in DOMAIN stats |-> stats[k].connects], DOMAIN stats)' =
              SumOver([k \in DOMAIN stats |-> stats[k].connects], DOMAIN stats)
                + (IF ev.action = "connect" THEN 1 ELSE 0)
<1>1. PICK D : D = DOMAIN stats
  OBVIOUS
<1>2. PICK key : key = Key(ev)
  OBVIOUS
<1>3. PICK f : f = [k \in D |-> stats[k].bytes]
  BY Zenon
<1>4. PICK h : h = [k \in D |-> stats[k].connects]
  BY Zenon
<1>5. PICK new : new = Counted(ev, Entry(key))
  OBVIOUS
<1>6. stats' = [k \in D \cup {key} |-> IF k = key THEN new ELSE stats[k]]
  BY <1>1, <1>2, <1>5 DEF record
<1>7. DOMAIN stats' = D \cup {key} /\ \A k \in D \cup {key} : stats'[k] = IF k = key THEN new ELSE stats[k]
  BY <1>6
<1>8. PICK g : g = [k \in D \cup {key} |-> stats'[k].bytes]
  BY Zenon
<1>9. PICK c : c = [k \in D \cup {key} |-> stats'[k].connects]
  BY Zenon
<1>10. PICK old : old = Entry(key)
  OBVIOUS
<1>11. /\ old.bytes = (IF key \in D THEN f[key] ELSE 0)
       /\ old.connects = (IF key \in D THEN h[key] ELSE 0)
       /\ old \in Entries
  BY <1>1, <1>3, <1>4, <1>10 DEF Entry, Entries, ReporterInv
<1>12. PICK d \in Int : d = IF ev.action = "connect" THEN 0 ELSE ev.bytes
  BY DEF Events
<1>13. PICK e \in Int : e = IF ev.action = "connect" THEN 1 ELSE 0
  OBVIOUS
<1>14. new.bytes = old.bytes + d /\ new.connects = old.connects + e
  BY <1>5, <1>10, <1>11, <1>12, <1>13 DEF Counted, Entries
<1>15. /\ \A k \in D : f[k] \in Int /\ h[k] \in Int
       /\ \A k \in D \ {key} : g[k] = f[k] /\ c[k] = h[k]
       /\ g[key] = new.bytes /\ c[key] = new.connects
  BY <1>1, <1>3, <1>4, <1>7, <1>8, <1>9 DEF ReporterInv, Entries
<1>16. IsFiniteSet(D)
  BY <1>1 DEF ReporterInv
<1>17. SumOver(g, D \cup {key}) = SumOver(f, D) + d
  <2>1. g[key] = (IF key \in D THEN f[key] ELSE 0) + d
    BY <1>11, <1>14, <1>15
  <2> QED
    BY <1>15, <1>16, <2>1, SumAtKey
<1>18. SumOver(c, D \cup {key}) = SumOver(h, D) + e
  <2>1. c[key] = (IF key \in D THEN h[key] ELSE 0) + e
    BY <1>11, <1>14, <1>15
  <2> QED
    BY <1>15, <1>16, <2>1, SumAtKey
<1> QED
  BY <1>1, <1>3, <1>4, <1>7, <1>8, <1>9, <1>12, <1>13, <1>17, <1>18

\* Nothing has been counted at first.
LEMMA TotalInitially == Init => TotalInv
<1> SUFFICES ASSUME Init PROVE TotalInv
  OBVIOUS
<1>1. DOMAIN stats = {} /\ \A s \in Sockets : spc[s] = "new"
  BY DEF Init, TracerInit, ReporterInit
<1>2. Closed = {} /\ Closes = {} /\ Connects = {}
  BY <1>1 DEF Closed, Closes, Connects
<1>4. Closes \ Queued("close") = {} /\ Connects \ Queued("connect") = {}
  BY <1>2
<1>5. IsFiniteSet({}) /\ Cardinality({}) = 0
  BY FS_EmptySet
<1>6. DeliveredOnce
  <2>1. PICK f : f = [k \in DOMAIN stats |-> stats[k].bytes]
    BY Zenon
  <2>2. PICK g : g = [k \in DOMAIN stats |-> stats[k].connects]
    BY Zenon
  <2>3. SumOver(f, {}) = 0 /\ SumOver(g, {}) = 0 /\ SumOver(BytesOf, {}) = 0
    BY SumEmpty
  <2> QED
    BY <1>1, <1>4, <1>5, <2>1, <2>2, <2>3, Zenon DEF DeliveredOnce
<1> QED
  BY <1>2, <1>4, <1>5, <1>6 DEF TotalInv

\* The totals stand while nothing is counted and no submitted event leaves
\* or joins those counted.
LEMMA TotalsStand ==
  ASSUME TotalInv, stats' = stats, IsFiniteSet(Closed'),
         (Closes \ Queued("close"))' = Closes \ Queued("close"),
         (Connects \ Queued("connect"))' = Connects \ Queued("connect")
  PROVE  TotalInv'
<1>1. DeliveredOnce'
  BY Zenon DEF DeliveredOnce, TotalInv
<1> QED
  BY <1>1, Zenon DEF TotalInv

\* One callback of the poll counts the event it consumes.
LEMMA PollTotals ==
  ASSUME PipeInv, TagInv, TotalInv, Poll
  PROVE  TotalInv'
<1>1. PICK s \in Sockets, ev \in Events, act \in Actions :
           /\ act = ev.action /\ record(ev) /\ spc' = spc
           /\ act = "close" => /\ ev.bytes = BytesOf[s]
                              /\ s \notin Closes \ Queued("close")
                              /\ (Closes \ Queued("close"))' = (Closes \ Queued("close")) \cup {s}
                              /\ (Connects \ Queued("connect"))' = Connects \ Queued("connect")
           /\ act = "connect" => /\ s \notin Connects \ Queued("connect")
                                /\ (Connects \ Queued("connect"))' = (Connects \ Queued("connect")) \cup {s}
                                /\ (Closes \ Queued("close"))' = Closes \ Queued("close")
  BY PollCounts, Zenon DEF PipeInv
<1>6. Closed' = Closed
  BY <1>1, Zenon DEF Closed
<1> DEFINE DC == Closes \ Queued("close")
           DN == Connects \ Queued("connect")
           SB == SumOver([k \in DOMAIN stats |-> stats[k].bytes], DOMAIN stats)
           SN == SumOver([k \in DOMAIN stats |-> stats[k].connects], DOMAIN stats)
<1>7. /\ SB' = SB + (IF ev.action = "connect" THEN 0 ELSE ev.bytes)
      /\ SN' = SN + (IF ev.action = "connect" THEN 1 ELSE 0)
  BY <1>1, RecordSums DEF PipeInv
<1>8. /\ SB = SumOver(BytesOf, DC) /\ SN = Cardinality(DN)
      /\ IsFiniteSet(Closed) /\ IsFiniteSet(DN)
  BY Zenon DEF TotalInv, DeliveredOnce
<1>9. DC \subseteq Closed /\ DC \subseteq Sockets
  BY DEF Closes, Closed
<1>10. IsFiniteSet(DC) /\ \A x \in Sockets : BytesOf[x] \in Int
  BY <1>8, <1>9, FS_Subset, TracerAssumption
<1>11. SumOver(BytesOf, DC) \in Int /\ Cardinality(DN) \in Nat
  BY <1>8, <1>9, <1>10, SumInt, FS_CardinalityType
<1>12. /\ act = "close" => s \notin DC /\ DC' = DC \cup {s} /\ DN' = DN
       /\ act = "connect" => s \notin DN /\ DN' = DN \cup {s} /\ DC' = DC
  BY <1>1, Zenon
<1> HIDE DEF SB, SN, DC, DN
<1>13. CASE act = "close"
  <2>1. SumOver(BytesOf, DC \cup {s}) = SumOver(BytesOf, DC) + BytesOf[s]
    BY <1>9, <1>10, <1>12, <1>13, SumAdd
  <2>2. ev.bytes = BytesOf[s] /\ ev.action # "connect" /\ BytesOf[s] \in Int
    BY <1>1, <1>10, <1>13
  <2>3. SB' = SumOver(BytesOf, DC \cup {s}) /\ SN' = SN
    BY <1>7, <1>8, <1>11, <2>1, <2>2
  <2>4. SB' = SumOver(BytesOf, DC') /\ SN' = Cardinality(DN') /\ IsFiniteSet(DN')
    BY <1>8, <1>12, <1>13, <2>3, Zenon
  <2> QED
    BY <2>4, <1>6, <1>8, Zenon DEF TotalInv, DeliveredOnce, SB, SN, DC, DN
<1>14. CASE act = "connect"
  <2>1. IsFiniteSet(DN \cup {s}) /\ Cardinality(DN \cup {s}) = Cardinality(DN) + 1
    BY <1>8, <1>12, <1>14, FS_AddElement
  <2>2. SB' = SB /\ SN' = Cardinality(DN \cup {s})
    BY <1>1, <1>7, <1>8, <1>11, <1>14, <2>1
  <2>3. SB' = SumOver(BytesOf, DC') /\ SN' = Cardinality(DN') /\ IsFiniteSet(DN')
    BY <1>8, <1>12, <1>14, <2>1, <2>2, Zenon
  <2> QED
    BY <2>3, <1>6, <1>8, Zenon DEF TotalInv, DeliveredOnce, SB, SN, DC, DN
<1> QED
  BY <1>13, <1>14 DEF Actions

\* Every step keeps the totals.
LEMMA TotalStep == PipeInv /\ TagInv /\ TotalInv /\ [Next]_vars => TotalInv'
<1> SUFFICES ASSUME PipeInv, TagInv, TotalInv, [Next]_vars PROVE TotalInv'
  OBVIOUS
<1>1. IsFiniteSet(Closed)
  BY DEF TotalInv
<1>2. ASSUME NEW s \in Sockets, TracerNext(s), UNCHANGED reporterVars PROVE TotalInv'
  <2>1. /\ (Closes \ Queued("close"))' = Closes \ Queued("close")
        /\ (Connects \ Queued("connect"))' = Connects \ Queued("connect")
    BY <1>2, ProgramTags DEF PipeInv
  <2>2. \A u \in Sockets : u # s => spc'[u] = spc[u]
    BY <1>2, StepMoves DEF Moves, PipeInv, TracerInv
  <2>3. Closed' \subseteq Closed \cup {s}
    BY <2>2 DEF Closed
  <2>4. IsFiniteSet(Closed \cup {s})
    BY <1>1, FS_AddElement
  <2>5. IsFiniteSet(Closed')
    BY <2>3, <2>4, FS_Subset
  <2>6. stats' = stats
    BY <1>2 DEF reporterVars
  <2> QED
    BY <2>1, <2>5, <2>6, TotalsStand, Zenon
<1>3. ASSUME UNCHANGED tracerVars, stats' = stats PROVE TotalInv'
  <2>1. Connects' = Connects /\ Closes' = Closes /\ Queued("close")' = Queued("close")
        /\ Queued("connect")' = Queued("connect")
    BY <1>3, TagRests
  <2>2. Closed' = Closed
    BY <1>3, Zenon DEF tracerVars, Closed
  <2> QED
    BY <1>1, <1>3, <2>1, <2>2, TotalsStand, Zenon
<1>4. ReporterNext => stats' = stats
  BY DEF ReporterNext, ScrapeCount, ScrapeLines, ConnectionsLines, ScrapeSent
<1> QED
  BY <1>2, <1>3, <1>4, PollTotals DEF Next, vars, reporterVars

\* The totals hold throughout.
LEMMA TotalInductive == Spec => [](PipeInv /\ TagInv /\ SeqInv /\ TotalInv)
  BY PipeInductive, ProgramsInductive, TotalInitially, TotalStep, PTL DEF Spec

\* Every submitted close adds its socket's bytes to the reporter exactly once,
\* and every submitted connect is counted exactly once, whatever the
\* interleaving, losses and recycled elements.
THEOREM EventsDeliveredOnce == Spec => []DeliveredOnce
<1>1. TotalInv => DeliveredOnce
  BY DEF TotalInv
<1> QED
  BY <1>1, TotalInductive, PTL

-----------------------------------------------------------------------------
(* Credit.  While a process has at most one socket in use and no record    *)
(* was lost, what a key has is what its own sockets transmitted.           *)

DeliveredOn(k) == {s \in Closes \ Queued("close") : KeyOf(s) = k}

CreditInv ==
  /\ \A k \in DOMAIN stats : stats[k].bytes = SumOver(BytesOf, DeliveredOn(k))
  /\ \A s \in Closes \ Queued("close") : KeyOf(s) \in DOMAIN stats

\* The credit of every connection stands while nothing is counted.
LEMMA CreditStands ==
  ASSUME CreditInv, stats' = stats, (Closes \ Queued("close"))' = Closes \ Queued("close")
  PROVE  CreditInv'
<1>1. \A k : DeliveredOn(k)' = DeliveredOn(k)
  BY Zenon DEF DeliveredOn, KeyOf
<1> QED
  BY <1>1, Zenon DEF CreditInv, KeyOf

\* The poll credits the connection of the socket that was closed.
LEMMA PollCredits ==
  ASSUME PipeInv, TagInv, TotalInv, CarryInv, CreditInv, Poll
  PROVE  CreditInv'
<1>1. PICK s \in Sockets, ev \in Events, act \in Actions :
           /\ act = ev.action /\ record(ev)
           /\ act = "close" => /\ Sub(1, s, "close") /\ 1 \in DOMAIN rb /\ ev = rb[1].ev /\ ev.bytes = BytesOf[s]
                              /\ s \notin Closes \ Queued("close")
                              /\ (Closes \ Queued("close"))' = (Closes \ Queued("close")) \cup {s}
           /\ act = "connect" => (Closes \ Queued("close"))' = Closes \ Queued("close")
  BY PollCounts, Zenon DEF PipeInv
<1>7. PICK DC : DC = Closes \ Queued("close")
  BY Zenon
<1>8. PICK key : key = Key(ev)
  OBVIOUS
<1>9. /\ DOMAIN stats' = DOMAIN stats \cup {key}
      /\ \A k \in DOMAIN stats : k # key => stats'[k] = stats[k]
      /\ stats'[key].bytes = (IF key \in DOMAIN stats THEN stats[key].bytes ELSE 0)
                               + (IF act = "connect" THEN 0 ELSE ev.bytes)
      /\ key \in DOMAIN stats => stats[key].bytes \in Int
  <2>1. PICK old : old = Entry(key)
    OBVIOUS
  <2>2. old.bytes = (IF key \in DOMAIN stats THEN stats[key].bytes ELSE 0) /\ old \in Entries
    BY <2>1 DEF Entry, Entries, PipeInv, ReporterInv
  <2>3. PICK new : new = Counted(ev, old)
    OBVIOUS
  <2>4. new.bytes = old.bytes + (IF act = "connect" THEN 0 ELSE ev.bytes)
    BY <1>1, <2>2, <2>3 DEF Counted, Entries
  <2>5. stats' = [k \in DOMAIN stats \cup {key} |-> IF k = key THEN new ELSE stats[k]]
    BY <1>1, <1>8, <2>1, <2>3 DEF record
  <2> QED
    BY <2>2, <2>4, <2>5 DEF PipeInv, ReporterInv, Entries
<1> DEFINE On(D, k) == {u \in D : KeyOf(u) = k}
<1>10. \A k : DeliveredOn(k) = On(DC, k)
  BY <1>7, Zenon DEF DeliveredOn
<1>11. /\ \A k \in DOMAIN stats : stats[k].bytes = SumOver(BytesOf, On(DC, k))
       /\ \A u \in DC : KeyOf(u) \in DOMAIN stats
  BY <1>7, <1>10, Zenon DEF CreditInv
<1>12. DC \subseteq Sockets /\ DC \subseteq Closed
  BY <1>7 DEF Closes, Closed
<1>13. /\ IsFiniteSet(On(DC, key)) /\ \A u \in Sockets : BytesOf[u] \in Int
       /\ On(DC, key) \subseteq Sockets
  <2>1. IsFiniteSet(Closed) /\ On(DC, key) \subseteq Closed
    BY <1>12 DEF TotalInv
  <2> QED
    BY <1>12, <2>1, FS_Subset, TracerAssumption
<1>14. (IF key \in DOMAIN stats THEN stats[key].bytes ELSE 0) = SumOver(BytesOf, On(DC, key))
  <2>1. CASE key \in DOMAIN stats
    BY <1>11, <2>1, Zenon
  <2>2. CASE key \notin DOMAIN stats
    <3>1. On(DC, key) = {}
      BY <1>11, <2>2, Zenon
    <3>2. SumOver(BytesOf, {}) = 0
      BY SumEmpty
    <3> QED
      BY <2>2, <3>1, <3>2, Zenon
  <2> QED
    BY <2>1, <2>2
<1>15. SumOver(BytesOf, On(DC, key)) \in Int
  BY <1>13, SumInt
<1>16. PICK DD : DD = (Closes \ Queued("close"))'
  BY Zenon
<1>17. \A k : DeliveredOn(k)' = On(DD, k)
  BY <1>16, Zenon DEF DeliveredOn, KeyOf
<1>18. /\ act = "connect" => DD = DC
       /\ act = "close" => DD = DC \cup {s} /\ s \notin DC /\ key = KeyOf(s) /\ ev.bytes = BytesOf[s]
  <2>1. act = "close" => key = KeyOf(s)
    BY <1>1, <1>8, Zenon DEF CarryInv
  <2> QED
    BY <1>1, <1>7, <1>16, <2>1, Zenon
<1>19. /\ stats'[key].bytes = SumOver(BytesOf, On(DD, key))
       /\ \A k : k # key => On(DD, k) = On(DC, k)
  <2>1. CASE act = "connect"
    BY <1>9, <1>14, <1>15, <1>18, <2>1
  <2>2. CASE act = "close"
    <3>1. PICK W : W = On(DC, key)
      BY Zenon
    <3>2. On(DD, key) = W \cup {s} /\ s \notin W /\ \A k : k # key => On(DD, k) = On(DC, k)
      BY <1>18, <2>2, <3>1, Zenon
    <3>3. IsFiniteSet(W) /\ \A x \in W \cup {s} : BytesOf[x] \in Int
      BY <1>13, <3>1
    <3>4. SumOver(BytesOf, W \cup {s}) = SumOver(BytesOf, W) + BytesOf[s]
      BY <3>2, <3>3, SumAdd
    <3>5. stats'[key].bytes = SumOver(BytesOf, W) + BytesOf[s]
      BY <1>9, <1>14, <1>18, <2>2, <3>1
    <3> QED
      BY <3>2, <3>4, <3>5, Zenon
  <2> QED
    BY <2>1, <2>2 DEF Actions
<1>20. \A k \in DOMAIN stats' : stats'[k].bytes = SumOver(BytesOf, DeliveredOn(k)')
  <2> SUFFICES ASSUME NEW k \in DOMAIN stats' PROVE stats'[k].bytes = SumOver(BytesOf, On(DD, k))
    BY <1>17, Zenon
  <2>1. CASE k = key
    BY <1>19, <2>1, Zenon
  <2>2. CASE k # key
    <3>1. k \in DOMAIN stats /\ stats'[k].bytes = stats[k].bytes
      BY <1>9, <2>2
    <3>2. stats[k].bytes = SumOver(BytesOf, On(DC, k)) /\ On(DD, k) = On(DC, k)
      BY <1>11, <1>19, <2>2, <3>1, Zenon
    <3> QED
      BY <3>1, <3>2, Zenon
  <2> QED
    BY <2>1, <2>2
<1>21. \A u \in DD : KeyOf(u) \in DOMAIN stats'
  BY <1>9, <1>11, <1>18 DEF Actions
<1> QED
  BY <1>16, <1>20, <1>21, Zenon DEF CreditInv, KeyOf

\* Every step keeps the credit.
LEMMA CreditStep ==
  PipeInv /\ TagInv /\ SeqInv /\ TotalInv /\ (Sequential => CreditInv) /\ [Next]_vars => (Sequential => CreditInv)'
<1> SUFFICES ASSUME PipeInv, TagInv, SeqInv, TotalInv, Sequential => CreditInv, [Next]_vars, Sequential'
             PROVE  CreditInv'
  OBVIOUS
<1>1. TracerInv /\ StageInv
  BY DEF PipeInv, TracerInv
<1>2. ASSUME NEW s \in Sockets, TracerNext(s), UNCHANGED reporterVars PROVE CreditInv'
  <2>1. Sequential
    BY <1>1, <1>2, SequentialBefore, Zenon
  <2>2. (Closes \ Queued("close"))' = Closes \ Queued("close")
    BY <1>1, <1>2, ProgramTags
  <2>3. stats' = stats
    BY <1>2 DEF reporterVars
  <2> QED
    BY <2>1, <2>2, <2>3, CreditStands, Zenon
<1>3. ASSUME UNCHANGED <<profile, lost>> PROVE Sequential
  BY <1>3, Zenon DEF Sequential
<1>4. CASE Poll
  <2>1. Sequential
    BY <1>3, <1>4 DEF Poll
  <2> QED
    BY <1>4, <2>1, PollCredits, Zenon DEF SeqInv
<1>5. CASE UNCHANGED tracerVars /\ stats' = stats
  <2>1. Sequential
    BY <1>3, <1>5 DEF tracerVars
  <2>2. Closes' = Closes /\ Queued("close")' = Queued("close")
    BY <1>5, TagRests
  <2> QED
    BY <1>5, <2>1, <2>2, CreditStands, Zenon
<1>6. ReporterNext => stats' = stats
  BY DEF ReporterNext, ScrapeCount, ScrapeLines, ConnectionsLines, ScrapeSent
<1> QED
  BY <1>2, <1>4, <1>5, <1>6 DEF Next, vars, reporterVars

\* Nothing is credited at first.
LEMMA CreditInitially == Init => CreditInv
<1> SUFFICES ASSUME Init PROVE CreditInv
  OBVIOUS
<1>1. DOMAIN stats = {} /\ \A s \in Sockets : spc[s] = "new"
  BY DEF Init, TracerInit, ReporterInit
<1>2. Closes = {}
  BY <1>1 DEF Closes
<1> QED
  BY <1>1, <1>2 DEF CreditInv

\* With one connection at a time per process and no record lost, no connection is credited with more than its own
\* sockets transmitted: the entry trace_tcp_close copies is the right one.
THEOREM BytesBelongToConnection == Spec => []BytesPerConnectionWhenSequential
<1>1. TotalInv /\ (Sequential => CreditInv) => BytesPerConnectionWhenSequential
  <2> SUFFICES ASSUME TotalInv, Sequential => CreditInv, Sequential, NEW k \in DOMAIN stats
               PROVE  stats[k].bytes <= SumOver(BytesOf, ClosedOn(k))
    BY Zenon DEF BytesPerConnectionWhenSequential, BytesPerConnection, Sequential
  <2>1. PICK R : R = DeliveredOn(k)
    OBVIOUS
  <2>2. PICK S : S = ClosedOn(k)
    OBVIOUS
  <2>3. R \subseteq S /\ S \subseteq Closed /\ S \subseteq Sockets
    BY <2>1, <2>2 DEF DeliveredOn, ClosedOn, Closes, Closed
  <2>4. IsFiniteSet(S)
    BY <2>3, FS_Subset DEF TotalInv
  <2>5. \A x \in S : BytesOf[x] \in Nat
    BY <2>3, TracerAssumption
  <2>6. SumOver(BytesOf, R) <= SumOver(BytesOf, S)
    BY <2>3, <2>4, <2>5, SumPart
  <2>7. stats[k].bytes = SumOver(BytesOf, R)
    BY <2>1, Zenon DEF CreditInv
  <2> QED
    BY <2>2, <2>6, <2>7, Zenon
<1>2. Spec => [](TotalInv /\ (Sequential => CreditInv))
  BY TotalInductive, CreditInitially, CreditStep, PTL DEF Spec
<1> QED
  BY <1>1, <1>2, PTL
=============================================================================
