---------------------------- MODULE StatsReporter ----------------------------
(***************************************************************************)
(* src/stats_reporter.h, and the two ways the HTTP thread reads it:        *)
(* PrometheusMetrics::from_reporter (src/http/metrics.h) and the           *)
(* /connections branch of http_route (src/monitor.cpp).  Every method of   *)
(* StatsReporter holds mu_ for its whole body, so it is one step; a scrape *)
(* of /metrics calls two of them.                                          *)
(***************************************************************************)
EXTENDS Naturals, FiniteSets

VARIABLES stats,   \* stats_: <<connection, pid, port>> -> [connects, bytes]
          scrape   \* the response under way: pc, the gauge and the lines

reporterVars == <<stats, scrape>>

NoScrape == [pc |-> "idle", gauge |-> 0, lines |-> <<>>]

ReporterInit == stats = <<>> /\ scrape = NoScrape

Key(ev) == <<ev.conn, ev.pid, ev.port>>

\* stats_[key]: the entry, value-initialised when it is new.
Entry(key) == IF key \in DOMAIN stats THEN stats[key] ELSE [connects |-> 0, bytes |-> 0]

\* Names with an underscore are the definition that follows with one bug
\* planted in it; each breaks a property, and no specification uses them.
Counted_overwrite(ev, st) ==
  IF ev.action = "connect" THEN [st EXCEPT !.connects = @ + 1] ELSE [st EXCEPT !.bytes = ev.bytes]
Counted(ev, st) ==
  IF ev.action = "connect" THEN [st EXCEPT !.connects = @ + 1] ELSE [st EXCEPT !.bytes = @ + ev.bytes]

record(ev) ==
  stats' = [k \in DOMAIN stats \cup {Key(ev)} |->
              IF k = Key(ev) THEN Counted(ev, Entry(k)) ELSE stats[k]]

\* from_reporter: connection_count() for the gauge ...
ScrapeCount ==
  /\ scrape.pc = "idle"
  /\ scrape' = [scrape EXCEPT !.pc = "counted", !.gauge = Cardinality(DOMAIN stats)]
  /\ UNCHANGED stats

\* ntohs on a little-endian host
ntohs(p) == (p % 256) * 256 + p \div 256

Line(k) == [connects |-> stats[k].connects, bytes |-> stats[k].bytes, port |-> ntohs(k[3])]

Lines_closedOnly == [k \in {j \in DOMAIN stats : stats[j].bytes > 0} |-> Line(k)]
\* One line per connection, with the port the label shows.
Lines == [k \in DOMAIN stats |-> Line(k)]

\* ... then for_each for the lines.
ScrapeLines ==
  /\ scrape.pc = "counted"
  /\ scrape' = [scrape EXCEPT !.pc = "done", !.lines = Lines]
  /\ UNCHANGED stats

\* /connections: for_each alone.
ConnectionsLines ==
  /\ scrape.pc = "idle"
  /\ scrape' = [scrape EXCEPT !.pc = "done", !.lines = Lines]
  /\ UNCHANGED stats

\* The response is written and forgotten.
ScrapeSent == scrape.pc = "done" /\ scrape' = NoScrape /\ UNCHANGED stats

ReporterNext == ScrapeCount \/ ScrapeLines \/ ConnectionsLines \/ ScrapeSent
=============================================================================
