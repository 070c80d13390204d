--------------------------- MODULE PooledRequests ---------------------------
(***************************************************************************)
(* Tasks of the thread pool that time themselves, as the repository's      *)
(* tests use the two classes together (tests/test_thread_pool.cpp:255):    *)
(* the body of a task in Requests constructs a RequestTimer, may submit    *)
(* another task, may call finish, and destroys the timer when it returns   *)
(* or throws.                                                              *)
(***************************************************************************)
EXTENDS ThreadPool, RequestStats

ASSUME RequestsAreTasks == Requests \subseteq Tasks

allVars == <<vars, statsVars>>

PooledInit == Init /\ StatsInit

Runs(w, state) == pc[w] = "running" /\ cur[w] \in Requests /\ timer[cur[w]] = state

BodyStarts(w) == Runs(w, "none") /\ StartTimer(cur[w]) /\ UNCHANGED vars

BodyFinishes(w) ==
  /\ Runs(w, "running") /\ \E good \in BOOLEAN : finish(cur[w], good)
  /\ UNCHANGED vars

\* The timer dies in the step that leaves the body.
BodyLeaves(w) ==
  /\ ~Runs(w, "none")
  /\ BodyEnds(w) \/ (m_stop /\ NestedSubmit(w)) \/ NestedNotify(w)
  /\ IF cur[w] \in Requests THEN DestroyTimer(cur[w]) ELSE UNCHANGED statsVars

BodySubmits(w) ==
  /\ ~Runs(w, "none") /\ ~m_stop
  /\ NestedSubmit(w) /\ UNCHANGED statsVars

PoolStep(w) ==
  /\ WorkerWait(w) \/ WorkerExit(w) \/ WorkerTake(w) \/ BumpCompleted(w) \/ Publish(w)
  /\ UNCHANGED statsVars

Worker(w) == PoolStep(w) \/ BodyStarts(w) \/ BodyFinishes(w) \/ BodySubmits(w) \/ BodyLeaves(w)

Others ==
  /\ \/ \E c \in Clients : ClientSubmit(c) \/ ClientNotify(c)
     \/ \E w \in Workers : SpuriousWakeup(w)
     \/ SetStop \/ NotifyAll \/ JoinAndDestroy
  /\ UNCHANGED statsVars

PooledNext == Others \/ \E w \in Workers : Worker(w)

PooledFairness ==
  /\ \A w \in Workers : WF_allVars(Worker(w))
  /\ \A c \in Clients : WF_allVars(ClientNotify(c) /\ UNCHANGED statsVars)
  /\ WF_allVars(NotifyAll /\ UNCHANGED statsVars) /\ WF_allVars(JoinAndDestroy /\ UNCHANGED statsVars)

PooledSpec == PooledInit /\ [][PooledNext]_allVars /\ PooledFairness

-----------------------------------------------------------------------------
total_requests == Word(SumOver([r \in Routes |-> m_stats[r].requests], Routes))
total_errors == Word(SumOver([r \in Routes |-> m_stats[r].errors], Routes))

\* tests/test_thread_pool.cpp:272-276: a request is counted exactly once,
\* however its body ends, and before its future is ready; it is an error
\* unless finish(true) was called.
CountedOnce ==
  /\ total_requests = Cardinality(Timed)
  /\ total_errors = Cardinality(Timed \ ok)
  /\ Ready \cap Requests \subseteq Timed
=============================================================================
