---------------------------- MODULE TcpAccounting ----------------------------
(***************************************************************************)
(* What the pipeline's counters add up to: the bytes and connects in the   *)
(* reporter against those of the sockets.                                  *)
(***************************************************************************)
EXTENDS TcpPipeline, Sums

\* Sockets whose connect, or close, was submitted.
Connects == {s \in Sockets \ Accepted :
               /\ spc[s] \notin {"new", "update", "reserve", "submit"}
               /\ ~should_filter(PidOf[s], PortOf[s]) /\ <<s, "connect">> \notin lost}
Closes == {s \in Sockets : spc[s] = "closed" /\ <<s, "close">> \notin lost}

\* Those whose record still waits to be polled.
Queued(action) == {s \in Sockets : \E i \in DOMAIN rb :
                     rb[i].sock = s /\ ~rb[i].busy /\ rb[i].ev.action = action}

\* Every submitted close adds its socket's bytes to the reporter exactly once,
\* whatever the interleaving, losses and recycled elements; and every
\* submitted connect is counted exactly once.
DeliveredOnce ==
  /\ SumOver([k \in DOMAIN stats |-> stats[k].bytes], DOMAIN stats) = SumOver(BytesOf, Closes \ Queued("close"))
  /\ SumOver([k \in DOMAIN stats |-> stats[k].connects], DOMAIN stats) = Cardinality(Connects \ Queued("connect"))

KeyOf(s) == <<ConnOf[s], PidOf[s], PortOf[s]>>

ClosedOn(k) == {s \in Sockets : spc[s] = "closed" /\ KeyOf(s) = k}

\* metrics.h:34: "Bytes transmitted per connection": a connection is credited
\* with no more than its own sockets transmitted.
BytesPerConnection ==
  \A k \in DOMAIN stats : stats[k].bytes <= SumOver(BytesOf, ClosedOn(k))

\* What holds of it: with one connection at a time per process and no record
\* lost, the entry taken from pending_connects is the right one.
BytesPerConnectionWhenSequential == profile.oneAtATime /\ lost = {} => BytesPerConnection
=============================================================================
