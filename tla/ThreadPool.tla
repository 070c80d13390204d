----------------------------- MODULE ThreadPool -----------------------------
(***************************************************************************)
(* src/http/thread_pool.h: N workers over one queue, a mutex and a         *)
(* condition variable; the destructor stops the workers once they have     *)
(* drained the queue.                                                      *)
(*                                                                         *)
(* A section under m_mtx is one step, because nothing in it blocks: the    *)
(* wait on m_cv leaves the section and enters a new one.  notify_one and   *)
(* notify_all happen after the unlock and are steps of their own; a wait   *)
(* may also end spuriously.  The body of a task may submit another task;   *)
(* that is the only submit that can meet the destructor, since a client    *)
(* must not call a member function of an object being destroyed.           *)
(***************************************************************************)
EXTENDS Naturals, Sequences, FiniteSets

CONSTANTS Workers,    \* the threads of m_workers (thread_count 0 becomes 1)
          Clients,    \* client threads; client c submits task c
          Nested,     \* tasks submitted from the body of another task
          Child,      \* Child[t]: the task the body of t submits, or NoTask
          NoTask

Tasks == Clients \cup Nested

ASSUME PoolAssumption ==
  /\ Workers # {} /\ IsFiniteSet(Workers) /\ IsFiniteSet(Tasks)
  /\ Clients \cap Nested = {} /\ NoTask \notin Tasks
  /\ Child \in [Tasks -> Nested \cup {NoTask}]
  /\ \A t, u \in Tasks : Child[t] = Child[u] /\ Child[t] # NoTask => t = u

VARIABLES
  m_tasks, m_stop, m_pending, m_completed,
  pc,         \* workers: "loop", "waiting", "running", "notify", "ending",
              \* "publish", "exited"
  cur,        \* the task a worker runs
  outcome,    \* what the body of that task ended with
  cpc,        \* clients: "before", "notify", "after" their submit
  owner,      \* destructor: "alive", "stopped" (m_stop set), "joining", "destroyed"
  future,     \* shared state of each task's future
  accepted,   \* history: tasks in the order submit accepted them
  started     \* history: tasks in the order workers popped them

vars == <<m_tasks, m_stop, m_pending, m_completed, pc, cur, outcome, cpc, owner,
          future, accepted, started>>
queueVars == <<m_tasks, m_pending, accepted>>

Init ==
  /\ m_tasks = <<>> /\ m_stop = FALSE /\ m_pending = 0 /\ m_completed = 0
  /\ pc = [w \in Workers |-> "loop"]
  /\ cur = [w \in Workers |-> NoTask] /\ outcome = [w \in Workers |-> "none"]
  /\ cpc = [c \in Clients |-> "before"]
  /\ owner = "alive"
  /\ future = [t \in Tasks |-> "none"]
  /\ accepted = <<>> /\ started = <<>>

-----------------------------------------------------------------------------
(* submit *)

\* Names with an underscore are the definition that follows with one bug
\* planted in it; each breaks a property, and no specification uses them.
Push_front(t) ==
  /\ m_tasks' = <<t>> \o m_tasks
  /\ m_pending' = m_pending + 1
  /\ accepted' = Append(accepted, t)
Push_uncounted(t) ==
  /\ m_tasks' = Append(m_tasks, t)
  /\ m_pending' = m_pending
  /\ accepted' = Append(accepted, t)
\* m_tasks.emplace_back, ++m_pending; the future exists from here on.
Push(t) ==
  /\ m_tasks' = Append(m_tasks, t)
  /\ m_pending' = m_pending + 1
  /\ accepted' = Append(accepted, t)

Waiting == {w \in Workers : pc[w] = "waiting"}

\* m_cv.notify_one: wakes one waiting worker if there is one.  p is pc after
\* the notifying thread's own move.
Woken_nobody(p) == {p}
Woken(p) == IF Waiting = {} THEN {p} ELSE {[p EXCEPT ![w] = "loop"] : w \in Waiting}

ClientSubmit(c) ==
  /\ cpc[c] = "before" /\ owner = "alive"
  /\ Push(c)
  /\ cpc' = [cpc EXCEPT ![c] = "notify"]
  /\ UNCHANGED <<m_stop, m_completed, pc, cur, outcome, owner, future, started>>

ClientNotify(c) ==
  /\ cpc[c] = "notify"
  /\ pc' \in Woken(pc)
  /\ cpc' = [cpc EXCEPT ![c] = "after"]
  /\ UNCHANGED <<m_stop, m_completed, queueVars, cur, outcome, owner, future, started>>

\* submit from a task's body: accepted, or the throw on m_stop.
NestedSubmit(w) ==
  LET t == Child[cur[w]] IN
  /\ pc[w] = "running" /\ t # NoTask
  /\ \/ /\ ~m_stop /\ Push(t)
        /\ pc' = [pc EXCEPT ![w] = "notify"]
        /\ UNCHANGED <<outcome, future>>
     \/ /\ m_stop
        /\ pc' = [pc EXCEPT ![w] = "ending"]
        /\ \E o \in {"value", "exception"} :   \* the body may catch the throw
              outcome' = [outcome EXCEPT ![w] = o]
        /\ future' = [future EXCEPT ![t] = "refused"]
        /\ UNCHANGED queueVars
  /\ UNCHANGED <<m_stop, m_completed, cur, cpc, owner, started>>

NestedNotify(w) ==
  /\ pc[w] = "notify"
  /\ pc' \in Woken([pc EXCEPT ![w] = "ending"])
  /\ \E o \in {"value", "exception"} : outcome' = [outcome EXCEPT ![w] = o]
  /\ UNCHANGED <<m_stop, m_completed, queueVars, cur, cpc, owner, future, started>>

-----------------------------------------------------------------------------
(* worker_loop *)

Wakeable == m_stop \/ m_tasks # <<>>

\* lock, find the predicate of m_cv.wait false: release and wait.
WorkerWait(w) ==
  /\ pc[w] = "loop" /\ ~Wakeable
  /\ pc' = [pc EXCEPT ![w] = "waiting"]
  /\ UNCHANGED <<m_stop, m_completed, queueVars, cur, outcome, cpc, owner, future, started>>

\* A wait may return without a notification; wait(lock, pred) tests again.
SpuriousWakeup(w) ==
  /\ pc[w] = "waiting"
  /\ pc' = [pc EXCEPT ![w] = "loop"]
  /\ UNCHANGED <<m_stop, m_completed, queueVars, cur, outcome, cpc, owner, future, started>>

MayExit_undrained == m_stop
MayExit == m_stop /\ m_tasks = <<>>

WorkerExit(w) ==
  /\ pc[w] = "loop" /\ MayExit
  /\ pc' = [pc EXCEPT ![w] = "exited"]
  /\ UNCHANGED <<m_stop, m_completed, queueVars, cur, outcome, cpc, owner, future, started>>

\* pop the front, --m_pending, unlock, start the task.
WorkerTake(w) ==
  /\ pc[w] = "loop" /\ m_tasks # <<>>
  /\ m_tasks' = Tail(m_tasks) /\ m_pending' = m_pending - 1
  /\ cur' = [cur EXCEPT ![w] = Head(m_tasks)]
  /\ started' = Append(started, Head(m_tasks))
  /\ pc' = [pc EXCEPT ![w] = "running"]
  /\ UNCHANGED <<m_stop, m_completed, accepted, outcome, cpc, owner, future>>

\* A body without a nested submit returns or throws.
BodyEnds(w) ==
  /\ pc[w] = "running" /\ Child[cur[w]] = NoTask
  /\ \E o \in {"value", "exception"} : outcome' = [outcome EXCEPT ![w] = o]
  /\ pc' = [pc EXCEPT ![w] = "ending"]
  /\ UNCHANGED <<m_stop, m_completed, queueVars, cur, cpc, owner, future, started>>

Bumped_onValueOnly(w) == IF outcome[w] = "value" THEN m_completed + 1 ELSE m_completed
Bumped(w) == m_completed + 1

\* ~CompletionGuard
BumpCompleted(w) ==
  /\ pc[w] = "ending"
  /\ m_completed' = Bumped(w)
  /\ pc' = [pc EXCEPT ![w] = "publish"]
  /\ UNCHANGED <<m_stop, queueVars, cur, outcome, cpc, owner, future, started>>

\* packaged_task stores the result: the future is ready.
Publish(w) ==
  /\ pc[w] = "publish"
  /\ future' = [future EXCEPT ![cur[w]] = outcome[w]]
  /\ cur' = [cur EXCEPT ![w] = NoTask] /\ outcome' = [outcome EXCEPT ![w] = "none"]
  /\ pc' = [pc EXCEPT ![w] = "loop"]
  /\ UNCHANGED <<m_stop, m_completed, queueVars, cpc, owner, started>>

-----------------------------------------------------------------------------
(* ~ThreadPool *)

\* No client is inside submit when the owner destroys the pool.
SetStop ==
  /\ owner = "alive" /\ \A c \in Clients : cpc[c] # "notify"
  /\ m_stop' = TRUE /\ owner' = "stopped"
  /\ UNCHANGED <<m_completed, queueVars, pc, cur, outcome, cpc, future, started>>

WokenByStop_one == CHOOSE p \in Woken(pc) : TRUE
WokenByStop == [w \in Workers |-> IF pc[w] = "waiting" THEN "loop" ELSE pc[w]]

NotifyAll ==
  /\ owner = "stopped"
  /\ pc' = WokenByStop
  /\ owner' = "joining"
  /\ UNCHANGED <<m_stop, m_completed, queueVars, cur, outcome, cpc, future, started>>

\* m_workers.clear(), then the members die.
JoinedEnough_none == TRUE
JoinedEnough == \A w \in Workers : pc[w] = "exited"

JoinAndDestroy ==
  /\ owner = "joining" /\ JoinedEnough
  /\ owner' = "destroyed"
  /\ UNCHANGED <<m_stop, m_completed, queueVars, pc, cur, outcome, cpc, future, started>>

-----------------------------------------------------------------------------
WorkerStep(w) == \/ WorkerWait(w) \/ WorkerExit(w) \/ WorkerTake(w) \/ NestedSubmit(w)
                 \/ NestedNotify(w) \/ BodyEnds(w) \/ BumpCompleted(w) \/ Publish(w)

Next ==
  \/ \E c \in Clients : ClientSubmit(c) \/ ClientNotify(c)
  \/ \E w \in Workers : SpuriousWakeup(w) \/ WorkerStep(w)
  \/ SetStop \/ NotifyAll \/ JoinAndDestroy

\* Threads run; task bodies end; nobody is obliged to submit or to destroy,
\* and no spurious wakeup is relied upon.
Fairness ==
  /\ \A w \in Workers : WF_vars(WorkerStep(w))
  /\ \A c \in Clients : WF_vars(ClientNotify(c))
  /\ WF_vars(NotifyAll) /\ WF_vars(JoinAndDestroy)

Spec == Init /\ [][Next]_vars /\ Fairness
-----------------------------------------------------------------------------
\* The counters and cursors keep their types; m_pending, a size_t, never goes
\* below zero.
TypeOK ==
  /\ m_tasks \in Seq(Tasks) /\ m_stop \in BOOLEAN
  /\ m_pending \in Nat /\ m_completed \in Nat
  /\ pc \in [Workers -> {"loop", "waiting", "running", "notify", "ending", "publish", "exited"}]
  /\ cur \in [Workers -> Tasks \cup {NoTask}]
  /\ outcome \in [Workers -> {"none", "value", "exception"}]
  /\ cpc \in [Clients -> {"before", "notify", "after"}]
  /\ owner \in {"alive", "stopped", "joining", "destroyed"}
  /\ future \in [Tasks -> {"none", "value", "exception", "refused"}]
  /\ accepted \in Seq(Tasks) /\ started \in Seq(Tasks)

Ready == {t \in Tasks : future[t] \in {"value", "exception"}}

\* thread_pool.h:101-102: a task is counted before its future is ready, so
\* completed() read after get() includes it; the count is never ahead by more
\* than the tasks that are between the two.
CountedBeforeReady ==
  m_completed = Cardinality(Ready) + Cardinality({w \in Workers : pc[w] = "publish"})

\* No lost wakeup: when there is something to do and every worker still alive
\* sleeps on m_cv, a notification is on its way.
NoLostWakeup ==
  Wakeable /\ Waiting # {} /\ (\A w \in Workers : pc[w] \in {"waiting", "exited"})
    => (\E c \in Clients : cpc[c] = "notify") \/ owner = "stopped"

\* Tasks start exactly once, in the order submit accepted them, and pending()
\* is the number of those not yet started.
StartedInOrder == started \o m_tasks = accepted /\ m_pending = Len(m_tasks)

\* When the destructor returns, every accepted task has run and delivered its
\* result, and no worker is left that could touch the dead members.
DestroyedIsDrained ==
  owner = "destroyed" => /\ \A w \in Workers : pc[w] = "exited"
                         /\ \A k \in DOMAIN accepted : accepted[k] \in Ready

\* Every task that submit accepted eventually delivers a result, destruction
\* or not.
AcceptedCompletes ==
  \A t \in Tasks : (\E k \in DOMAIN accepted : accepted[k] = t) ~> (t \in Ready)

\* The destructor returns.
DestructorReturns == m_stop ~> owner = "destroyed"
=============================================================================
