----------------------------- MODULE TcpPipeline -----------------------------
(***************************************************************************)
(* From the kernel to the response of a scrape: TcpTracer's programs       *)
(* submit records, the main loop of src/monitor.cpp polls tcp_events and   *)
(* hands each record to StatsReporter::record, the HTTP thread reads the   *)
(* reporter.                                                               *)
(***************************************************************************)
EXTENDS TcpTracer, StatsReporter

vars == <<tracerVars, reporterVars>>

Init == TracerInit /\ ReporterInit

\* tcp_rb.poll -> handle_tcp_event -> record.  Records are consumed in the
\* order they were reserved; a record not yet submitted holds up the rest.
Poll ==
  /\ rb # <<>> /\ ~Head(rb).busy
  /\ record(Head(rb).ev)
  /\ rb' = Tail(rb)
  /\ UNCHANGED <<profile, spc, pending, elems, ptr, lost, scrape>>

Next ==
  \/ \E s \in Sockets : TracerNext(s) /\ UNCHANGED reporterVars
  \/ Poll
  \/ ReporterNext /\ UNCHANGED tracerVars

\* A BPF program, once started, runs to its end; the main loop keeps polling.
Fairness ==
  /\ \A s \in Sockets : WF_vars(ProgramStep(s) /\ UNCHANGED reporterVars)
  /\ WF_vars(Poll)

Spec == Init /\ [][Next]_vars /\ Fairness

-----------------------------------------------------------------------------
Keys == Conns \X Pids \X Ports
Stages == {"new", "update", "reserve", "submit", "open", "closeReserve", "copy",
           "delete", "fill", "closed"}

\* Every map and counter keeps its type; pending_connects and tcp_events stay
\* within their sizes.
TypeOK ==
  /\ profile \in Profiles /\ spc \in [Sockets -> Stages]
  /\ pending \in [Pids -> Elems \cup {None}] /\ Cardinality(Linked) <= MaxEntries
  /\ ptr \in [Sockets -> Elems \cup {None}]
  /\ Len(rb) <= profile.cap
  /\ DOMAIN stats \subseteq Keys
  /\ \A k \in DOMAIN stats : stats[k] \in [connects : Nat, bytes : Nat]
  /\ scrape.pc \in {"idle", "counted", "done"} /\ scrape.gauge \in Nat

\* With one connection at a time per process and no record lost,
\* pending_connects does not leak: an entry belongs to a process with a
\* connection still open.
PendingIsOpen ==
  profile.oneAtATime /\ lost = {} =>
    \A p \in Pids : pending[p] # None =>
      \E s \in Sockets : PidOf[s] = p /\ spc[s] \notin {"new", "closed"}

Traced(k) == /\ profile.pid = 0 \/ k[2] = profile.pid
             /\ profile.port = 0 \/ \E s \in Sockets : ConnOf[s] = k[1] /\ PortOf[s] = profile.port

\* monitor.cpp:148-149: "trace only PID N", "trace only port N".
OnlyTraced == \A k \in DOMAIN stats : Traced(k)

\* What holds of it: no connect is counted for a connection filtered out.
OnlyTracedConnects == \A k \in DOMAIN stats : stats[k].connects > 0 => Traced(k)

\* A scrape of /metrics takes mu_ twice; the gauge it prints never exceeds the
\* number of connections it lists, and no line is ahead of the reporter.
ScrapeConsistent ==
  scrape.pc = "done" =>
    /\ scrape.gauge <= Cardinality(DOMAIN scrape.lines)
    /\ \A k \in DOMAIN scrape.lines : k \in DOMAIN stats /\ scrape.lines[k].bytes <= stats[k].bytes

\* The repository's README.md:8, "src/dst IP:port": a line of /metrics or
\* /connections shows the port of its connection's sockets.
PortsShown ==
  \A k \in DOMAIN scrape.lines : \E s \in Sockets : ConnOf[s] = k[1] /\ PortOf[s] = scrape.lines[k].port

\* Every record reserved in tcp_events reaches the reporter: no unsubmitted
\* record blocks the ring for ever.
EventsReachReporter ==
  \A s \in Sockets : (\E i \in DOMAIN rb : rb[i].sock = s)
                       ~> ~(\E i \in DOMAIN rb : rb[i].sock = s)
=============================================================================
