---------------------------- MODULE RequestStats ----------------------------
(***************************************************************************)
(* src/http/request_stats.h: per-route counters under a shared mutex and   *)
(* the RAII timer that feeds them.  record holds m_mtx exclusively and     *)
(* snapshot and the totals hold it shared, for their whole bodies, so      *)
(* record is one step and what a reader gets is a value of m_stats.        *)
(* The counters are uint64_t: sums are taken modulo UINT64_MAX + 1.        *)
(***************************************************************************)
EXTENDS Integers, FiniteSets, Sums

CONSTANTS
  Requests,    \* requests, one timer each
  Routes, RouteOf,
  Latencies,   \* microseconds a request may take
  UINT64_MAX

\* Fewer requests than a uint64_t can count; latencies have the whole type.
ASSUME StatsAssumption ==
  /\ IsFiniteSet(Routes) /\ RouteOf \in [Requests -> Routes]
  /\ UINT64_MAX \in Nat /\ Latencies \subseteq 0..UINT64_MAX
  /\ IsFiniteSet(Requests) /\ Cardinality(Requests) <= UINT64_MAX

VARIABLES
  m_stats,   \* route -> its RouteStats; [requests |-> 0, ...] until recorded
  timer,     \* request -> "none", "running", "done" (m_done), "dead"
  ok,        \* history: requests whose timer was told finish(true)
  took       \* history: the latency that was recorded for a request

statsVars == <<m_stats, timer, ok, took>>

RouteStats == [requests |-> 0, errors |-> 0, total_us |-> 0, min_us |-> UINT64_MAX, max_us |-> 0]

StatsInit ==
  /\ m_stats = [r \in Routes |-> RouteStats]
  /\ timer = [t \in Requests |-> "none"] /\ ok = {}
  /\ took = [t \in Requests |-> 0]

Word(n) == n % (UINT64_MAX + 1)

\* Names with an underscore are the definition that follows with one bug
\* planted in it; each breaks a property, and no specification uses them.
Lowest_fromZero(min_us, us) == IF min_us = UINT64_MAX THEN 0 ELSE IF us < min_us THEN us ELSE min_us
Lowest(min_us, us) == IF us < min_us THEN us ELSE min_us
Highest(max_us, us) == IF us > max_us THEN us ELSE max_us

\* A route's numbers after one more request.
After(s, us, good) ==
  [requests |-> Word(s.requests + 1),
   errors   |-> IF good THEN s.errors ELSE Word(s.errors + 1),
   total_us |-> Word(s.total_us + us),
   min_us   |-> Lowest(s.min_us, us),
   max_us   |-> Highest(s.max_us, us)]

record(route, us, good) == m_stats' = [m_stats EXCEPT ![route] = After(@, us, good)]

\* The clock is read and the request recorded.
RecordElapsed(t, good) ==
  \E us \in Latencies : record(RouteOf[t], us, good) /\ took' = [took EXCEPT ![t] = us]

StartTimer(t) ==
  /\ timer[t] = "none"
  /\ timer' = [timer EXCEPT ![t] = "running"]
  /\ UNCHANGED <<m_stats, ok, took>>

finish(t, good) ==
  /\ timer[t] = "running"
  /\ RecordElapsed(t, good)
  /\ timer' = [timer EXCEPT ![t] = "done"]
  /\ ok' = IF good THEN ok \cup {t} ELSE ok

AlreadyDone_never(t) == FALSE
AlreadyDone(t) == timer[t] = "done"

\* ~RequestTimer: finish(false), which does nothing when m_done is set.
DestroyTimer(t) ==
  /\ timer[t] \in {"running", "done"}
  /\ \/ AlreadyDone(t) /\ UNCHANGED <<m_stats, took>>
     \/ ~AlreadyDone(t) /\ RecordElapsed(t, FALSE)
  /\ timer' = [timer EXCEPT ![t] = "dead"]
  /\ UNCHANGED ok

-----------------------------------------------------------------------------
Timed == {t \in Requests : timer[t] \in {"done", "dead"}}
TimedOn(route) == {t \in Timed : RouteOf[t] = route}

\* request_stats.h:42-50: in every snapshot the lowest and the highest latency
\* of a route that was used are those of two of its requests, not the initial
\* UINT64_MAX and 0, and no request was faster or slower.  The mean lies
\* between them as long as the latencies together fit in total_us.
MeanBetween ==
  \A r \in Routes : LET s == m_stats[r]  us == {took[t] : t \in TimedOn(r)} IN
    us # {} =>
      /\ {s.min_us, s.max_us} \subseteq us
      /\ \A u \in us : s.min_us <= u /\ u <= s.max_us
      /\ SumOver(took, TimedOn(r)) <= UINT64_MAX =>
           s.requests * s.min_us <= s.total_us /\ s.total_us <= s.requests * s.max_us
=============================================================================
