-------------------------- MODULE ThreadPool_proofs --------------------------
(***************************************************************************)
(* Safety of ThreadPool for every set of workers, clients and nested       *)
(* tasks, and of the timed tasks of PooledRequests for every set of routes *)
(* and latencies.                                                          *)
(***************************************************************************)
EXTENDS PooledRequests, Sums_proofs

PcStates == {"loop", "waiting", "running", "notify", "ending", "publish", "exited"}

\* A worker that holds a task.
Busy(w) == pc[w] \in {"running", "notify", "ending", "publish"}

-----------------------------------------------------------------------------
(* notify_one                                                              *)

\* A notification only moves waiting workers back to the loop, and moves one
\* if there is one (thread_pool.h:88).
LEMMA WokenEffect ==
  ASSUME NEW p \in [Workers -> PcStates], NEW q \in Woken(p)
  PROVE  /\ q \in [Workers -> PcStates]
         /\ \A w \in Workers : q[w] = p[w] \/ (w \in Waiting /\ q[w] = "loop")
         /\ Waiting # {} => \E w \in Waiting : q[w] = "loop"
<1>1. CASE Waiting = {}
  <2>1. q = p
    BY <1>1 DEF Woken
  <2> QED
    BY <1>1, <2>1
<1>2. CASE Waiting # {}
  <2>1. PICK v \in Waiting : q = [p EXCEPT ![v] = "loop"]
    BY <1>2 DEF Woken
  <2>2. v \in Workers
    BY DEF Waiting
  <2> QED
    BY <2>1, <2>2 DEF PcStates
<1> QED
  BY <1>1, <1>2

-----------------------------------------------------------------------------
(* Types.  m_pending is a natural number because it is the length of the   *)
(* queue, and a worker inside a task has one.                              *)

TypeInv ==
  /\ TypeOK
  /\ m_pending = Len(m_tasks)
  /\ \A w \in Workers : Busy(w) => cur[w] \in Tasks
  /\ \A w \in Workers : pc[w] \in {"ending", "publish"} => outcome[w] \in {"value", "exception"}

\* The pool starts well typed (thread_pool.h:38-46).
LEMMA TypeInit == Init => TypeInv
<1> SUFFICES ASSUME Init PROVE TypeInv
  OBVIOUS
<1>1. m_tasks \in Seq(Tasks) /\ accepted \in Seq(Tasks) /\ started \in Seq(Tasks) /\ Len(m_tasks) = 0
  BY DEF Init
<1>2. TypeOK
  BY <1>1, Zenon DEF Init, TypeOK
<1> QED
  BY <1>1, <1>2 DEF Init, TypeInv, Busy

\* A push keeps the queue typed and m_pending equal to its length.
LEMMA PushType ==
  ASSUME TypeInv, NEW t \in Tasks, Push(t)
  PROVE  /\ m_tasks' \in Seq(Tasks) /\ accepted' \in Seq(Tasks)
         /\ m_pending' \in Nat /\ m_pending' = Len(m_tasks')
<1> USE DEF TypeInv, TypeOK, Push
<1>1. m_tasks' \in Seq(Tasks) /\ Len(m_tasks') = Len(m_tasks) + 1
  OBVIOUS
<1>2. accepted' \in Seq(Tasks)
  OBVIOUS
<1>3. Len(m_tasks) \in Nat
  OBVIOUS
<1> QED
  BY <1>1, <1>2, <1>3

\* Every step of the pool keeps the types.
LEMMA TypeStep == TypeInv /\ [Next]_vars => TypeInv'
<1> SUFFICES ASSUME TypeInv, [Next]_vars PROVE TypeInv'
  OBVIOUS
<1> USE DEF TypeInv
<1>0. pc \in [Workers -> PcStates]
  BY DEF TypeOK, PcStates
<1>1. ASSUME NEW c \in Clients, ClientSubmit(c) PROVE TypeInv'
  <2>1. c \in Tasks
    BY DEF Tasks
  <2> QED
    BY <1>1, <2>1, PushType DEF ClientSubmit, TypeOK, Busy
<1>2. ASSUME NEW c \in Clients, ClientNotify(c) PROVE TypeInv'
  <2>1. /\ pc' \in [Workers -> PcStates]
        /\ \A w \in Workers : pc'[w] = pc[w] \/ pc'[w] = "loop"
    BY <1>0, <1>2, WokenEffect DEF ClientNotify
  <2>2. TypeOK'
    BY <1>2, <2>1 DEF ClientNotify, queueVars, TypeOK, PcStates
  <2> QED
    BY <1>2, <2>1, <2>2 DEF ClientNotify, queueVars, Busy
<1>3. ASSUME NEW w \in Workers, NestedSubmit(w) PROVE TypeInv'
  <2>1. Child[cur[w]] \in Tasks
    BY <1>3, PoolAssumption DEF NestedSubmit, Busy, Tasks
  <2>2. CASE ~m_stop
    <3>1. /\ Push(Child[cur[w]]) /\ pc' = [pc EXCEPT ![w] = "notify"]
          /\ UNCHANGED <<outcome, future, m_stop, m_completed, cur, cpc, owner, started>>
      BY <1>3, <2>2 DEF NestedSubmit
    <3>2. /\ m_tasks' \in Seq(Tasks) /\ accepted' \in Seq(Tasks)
          /\ m_pending' \in Nat /\ m_pending' = Len(m_tasks')
      BY <2>1, <3>1, PushType
    <3>3. pc[w] = "running"
      BY <1>3 DEF NestedSubmit
    <3> QED
      BY <3>1, <3>2, <3>3 DEF TypeOK, Busy
  <2>3. CASE m_stop
    <3>1. /\ pc[w] = "running" /\ pc' = [pc EXCEPT ![w] = "ending"]
          /\ \E o \in {"value", "exception"} : outcome' = [outcome EXCEPT ![w] = o]
          /\ future' = [future EXCEPT ![Child[cur[w]]] = "refused"]
          /\ UNCHANGED <<m_tasks, m_pending, accepted, m_stop, m_completed, cur, cpc, owner, started>>
      BY <1>3, <2>3 DEF NestedSubmit, queueVars
    <3>2. TypeOK'
      BY <2>1, <3>1 DEF TypeOK
    <3> QED
      BY <3>1, <3>2 DEF TypeOK, Busy
  <2> QED
    BY <2>2, <2>3
<1>4. ASSUME NEW w \in Workers, NestedNotify(w) PROVE TypeInv'
  <2> DEFINE p == [pc EXCEPT ![w] = "ending"]
  <2>1. p \in [Workers -> PcStates] /\ pc' \in Woken(p)
    BY <1>0, <1>4 DEF PcStates, NestedNotify
  <2>0. \A v \in Workers : p[v] = pc[v] \/ (v = w /\ p[v] = "ending")
    BY <1>0
  <2> HIDE DEF p
  <2>2. /\ pc' \in [Workers -> PcStates]
        /\ \A v \in Workers : pc'[v] = p[v] \/ pc'[v] = "loop"
    BY <2>1, WokenEffect
  <2>3. TypeOK'
    <3>1. outcome' \in [Workers -> {"none", "value", "exception"}]
      BY <1>4 DEF NestedNotify, TypeOK
    <3> QED
      BY <1>4, <2>2, <3>1 DEF NestedNotify, queueVars, TypeOK, PcStates
  <2>4. \A v \in Workers : pc'[v] = pc[v] \/ pc'[v] = "loop" \/ (v = w /\ pc'[v] = "ending")
    BY <2>0, <2>2
  <2>5. Busy(w) /\ outcome'[w] \in {"value", "exception"} /\ \A v \in Workers : v # w => outcome'[v] = outcome[v]
    BY <1>4 DEF NestedNotify, Busy, TypeOK
  <2> QED
    BY <1>4, <2>3, <2>4, <2>5 DEF NestedNotify, queueVars, Busy
<1>5. ASSUME NEW w \in Workers, WorkerWait(w) \/ SpuriousWakeup(w) \/ WorkerExit(w) PROVE TypeInv'
  <2>1. /\ pc' \in [Workers -> PcStates]
        /\ \A v \in Workers : pc'[v] = pc[v] \/ pc'[v] \in {"waiting", "loop", "exited"}
    BY <1>0, <1>5 DEF WorkerWait, SpuriousWakeup, WorkerExit, PcStates
  <2>2. UNCHANGED <<m_tasks, m_stop, m_pending, m_completed, cur, outcome, cpc, owner, future,
                    accepted, started>>
    BY <1>5 DEF WorkerWait, SpuriousWakeup, WorkerExit, queueVars
  <2> QED
    BY <2>1, <2>2, Zenon DEF TypeOK, Busy, PcStates
<1>6. ASSUME NEW w \in Workers, WorkerTake(w) PROVE TypeInv'
  <2>1. /\ Head(m_tasks) \in Tasks /\ Tail(m_tasks) \in Seq(Tasks)
        /\ Len(Tail(m_tasks)) = Len(m_tasks) - 1 /\ Len(Tail(m_tasks)) \in Nat
    BY <1>6 DEF WorkerTake, TypeOK
  <2>2. Append(started, Head(m_tasks)) \in Seq(Tasks)
    BY <2>1 DEF TypeOK
  <2> QED
    BY <1>6, <2>1, <2>2 DEF WorkerTake, TypeOK, Busy
<1>7. ASSUME NEW w \in Workers, BodyEnds(w) PROVE TypeInv'
  BY <1>7 DEF BodyEnds, queueVars, TypeOK, Busy
<1>8. ASSUME NEW w \in Workers, BumpCompleted(w) PROVE TypeInv'
  BY <1>8 DEF BumpCompleted, Bumped, queueVars, TypeOK, Busy
<1>9. ASSUME NEW w \in Workers, Publish(w) PROVE TypeInv'
  BY <1>9 DEF Publish, queueVars, TypeOK, Busy
<1>10. CASE SetStop \/ JoinAndDestroy
  BY <1>10, Zenon DEF SetStop, JoinAndDestroy, queueVars, TypeOK, Busy
<1>11. CASE NotifyAll
  BY <1>11 DEF NotifyAll, WokenByStop, queueVars, TypeOK, Busy
<1>12. CASE UNCHANGED vars
  BY <1>12 DEF vars, TypeOK, Busy
<1> QED
  BY <1>1, <1>2, <1>3, <1>4, <1>5, <1>6, <1>7, <1>8, <1>9, <1>10, <1>11, <1>12 DEF Next, WorkerStep

\* Every reachable state is well typed; m_pending never wraps below zero.
THEOREM PoolTypeCorrect == Spec => []TypeOK
<1>1. Spec => []TypeInv
  BY TypeInit, TypeStep, PTL DEF Spec
<1>2. TypeInv => TypeOK
  BY DEF TypeInv
<1> QED
  BY <1>1, <1>2, PTL

-----------------------------------------------------------------------------
(* Sleepers.  m_stop and the destructor's progress agree; once notify_all  *)
(* has been called nobody sleeps, and nobody leaves before the stop.       *)

SleepInv ==
  /\ m_stop = (owner # "alive")
  /\ owner \in {"joining", "destroyed"} => Waiting = {}
  /\ NoLostWakeup

\* A new pool has no sleepers.
LEMMA SleepInit == Init => SleepInv
  BY Zenon DEF Init, SleepInv, Waiting, NoLostWakeup, Wakeable

\* A step after which some worker is neither asleep nor gone cannot have lost
\* a wakeup.
LEMMA AwakeIsSafe ==
  ASSUME NEW w \in Workers, pc'[w] \notin {"waiting", "exited"}
  PROVE  NoLostWakeup'
  BY DEF NoLostWakeup

\* No step loses a wakeup: a worker goes to sleep only on an empty queue, and
\* every push is followed by a notification of its thread.
LEMMA SleepStep == TypeInv /\ SleepInv /\ [Next]_vars => SleepInv'
<1> SUFFICES ASSUME TypeInv, SleepInv, [Next]_vars PROVE SleepInv'
  OBVIOUS
<1> USE DEF SleepInv
<1>0. pc \in [Workers -> PcStates]
  BY DEF TypeInv, TypeOK, PcStates
<1>1. ASSUME NEW c \in Clients, ClientSubmit(c) PROVE SleepInv'
  <2>1. cpc'[c] = "notify"
    BY <1>1 DEF ClientSubmit, TypeInv, TypeOK
  <2> QED
    BY <1>1, <2>1 DEF ClientSubmit, Waiting, NoLostWakeup
<1>2. ASSUME NEW c \in Clients, ClientNotify(c) PROVE SleepInv'
  <2>1. /\ \A w \in Workers : pc'[w] = pc[w] \/ pc'[w] = "loop"
        /\ Waiting # {} => \E w \in Waiting : pc'[w] = "loop"
    BY <1>0, <1>2, WokenEffect DEF ClientNotify
  <2>2. Waiting' \subseteq Waiting
    BY <2>1 DEF Waiting
  <2>3. NoLostWakeup'
    <3>1. CASE Waiting = {}
      BY <2>2, <3>1 DEF NoLostWakeup
    <3>2. CASE Waiting # {}
      BY <2>1, <3>2, AwakeIsSafe DEF Waiting
    <3> QED
      BY <3>1, <3>2
  <2> QED
    BY <1>2, <2>2, <2>3 DEF ClientNotify
<1>3. ASSUME NEW w \in Workers, NestedSubmit(w) PROVE SleepInv'
  <2>1. pc'[w] \notin {"waiting", "exited"} /\ \A v \in Workers : v # w => pc'[v] = pc[v]
    BY <1>0, <1>3 DEF NestedSubmit
  <2>2. Waiting' \subseteq Waiting
    BY <2>1 DEF Waiting
  <2> QED
    BY <1>3, <2>1, <2>2, AwakeIsSafe DEF NestedSubmit
<1>4. ASSUME NEW w \in Workers, NestedNotify(w) PROVE SleepInv'
  <2> DEFINE p == [pc EXCEPT ![w] = "ending"]
  <2>1. p \in [Workers -> PcStates] /\ pc' \in Woken(p)
    BY <1>0, <1>4 DEF PcStates, NestedNotify
  <2>2. p[w] = "ending" /\ \A v \in Workers : v # w => p[v] = pc[v]
    BY <1>0
  <2> HIDE DEF p
  <2>3. \A v \in Workers : pc'[v] = p[v] \/ pc'[v] = "loop"
    BY <2>1, WokenEffect
  <2>4. pc'[w] \notin {"waiting", "exited"}
    BY <2>2, <2>3
  <2>5. Waiting' \subseteq Waiting
    BY <2>2, <2>3 DEF Waiting
  <2> QED
    BY <1>4, <2>4, <2>5, AwakeIsSafe DEF NestedNotify
<1>5. ASSUME NEW w \in Workers, WorkerWait(w) PROVE SleepInv'
  BY <1>5, Zenon DEF WorkerWait, Wakeable, NoLostWakeup, queueVars
<1>6. ASSUME NEW w \in Workers, WorkerExit(w) PROVE SleepInv'
  <2>1. Waiting' = Waiting
    BY <1>0, <1>6 DEF WorkerExit, Waiting
  <2>2. owner = "stopped" \/ Waiting = {}
    BY <1>6, Zenon DEF WorkerExit, MayExit, TypeInv, TypeOK
  <2> QED
    BY <1>6, <2>1, <2>2 DEF WorkerExit, NoLostWakeup
<1>7. ASSUME NEW w \in Workers,
             \/ SpuriousWakeup(w) \/ WorkerTake(w) \/ BodyEnds(w) \/ BumpCompleted(w) \/ Publish(w)
      PROVE  SleepInv'
  <2>1. pc'[w] \notin {"waiting", "exited"} /\ \A v \in Workers : v # w => pc'[v] = pc[v]
    BY <1>0, <1>7 DEF SpuriousWakeup, WorkerTake, BodyEnds, BumpCompleted, Publish
  <2>2. Waiting' \subseteq Waiting
    BY <2>1 DEF Waiting
  <2>3. UNCHANGED <<m_stop, owner>>
    BY <1>7 DEF SpuriousWakeup, WorkerTake, BodyEnds, BumpCompleted, Publish
  <2> QED
    BY <2>1, <2>2, <2>3, AwakeIsSafe
<1>8. CASE SetStop
  BY <1>8, Zenon DEF SetStop, NoLostWakeup
<1>9. CASE NotifyAll
  <2>1. Waiting' = {}
    BY <1>0, <1>9 DEF NotifyAll, WokenByStop, Waiting
  <2> QED
    BY <1>9, <2>1 DEF NotifyAll, NoLostWakeup
<1>10. CASE JoinAndDestroy
  BY <1>10 DEF JoinAndDestroy, Waiting, NoLostWakeup
<1>11. CASE UNCHANGED vars
  BY <1>11 DEF vars, Waiting, NoLostWakeup, Wakeable
<1> QED
  BY <1>1, <1>2, <1>3, <1>4, <1>5, <1>6, <1>7, <1>8, <1>9, <1>10, <1>11 DEF Next, WorkerStep

\* No wakeup is ever lost, for any number of workers and clients.
THEOREM WakeupsReachWorkers == Spec => []NoLostWakeup
<1>1. Spec => [](TypeInv /\ SleepInv)
  BY TypeInit, TypeStep, SleepInit, SleepStep, PTL DEF Spec
<1>2. SleepInv => NoLostWakeup
  BY DEF SleepInv
<1> QED
  BY <1>1, <1>2, PTL

-----------------------------------------------------------------------------
(* Sequences without repetition.                                           *)

In(s) == {s[k] : k \in DOMAIN s}

Distinct(s) == \A i, j \in DOMAIN s : s[i] = s[j] => i = j

\* What emplace_back adds to the queue's contents.
LEMMA InAppend ==
  ASSUME NEW S, NEW s \in Seq(S), NEW x \in S
  PROVE  In(Append(s, x)) = In(s) \cup {x}
<1>1. /\ DOMAIN s = 1..Len(s) /\ Len(s) \in Nat
      /\ DOMAIN Append(s, x) = 1..Len(s)+1
      /\ \A i \in 1..Len(s) : Append(s, x)[i] = s[i]
      /\ Append(s, x)[Len(s)+1] = x
  OBVIOUS
<1>2. \A i : i \in 1..Len(s)+1 <=> i \in 1..Len(s) \/ i = Len(s)+1
  BY <1>1
<1> QED
  BY <1>1, <1>2 DEF In

\* A new element keeps a sequence free of repetition.
LEMMA DistinctAppend ==
  ASSUME NEW S, NEW s \in Seq(S), NEW x \in S, Distinct(s), x \notin In(s)
  PROVE  Distinct(Append(s, x))
<1>1. /\ DOMAIN s = 1..Len(s) /\ Len(s) \in Nat
      /\ DOMAIN Append(s, x) = 1..Len(s)+1
      /\ \A i \in 1..Len(s) : Append(s, x)[i] = s[i]
      /\ Append(s, x)[Len(s)+1] = x
  OBVIOUS
<1>2. \A i : i \in 1..Len(s)+1 <=> i \in 1..Len(s) \/ i = Len(s)+1
  BY <1>1
<1>3. \A i \in 1..Len(s) : s[i] # x
  BY <1>1 DEF In
<1> QED
  BY <1>1, <1>2, <1>3 DEF Distinct

\* Pushing on the queue appends to the whole history.
LEMMA AppendRight ==
  ASSUME NEW S, NEW s \in Seq(S), NEW q \in Seq(S), NEW x \in S
  PROVE  s \o Append(q, x) = Append(s \o q, x)
  OBVIOUS

\* Popping the queue moves an element from its front to the end of started.
LEMMA MoveHead ==
  ASSUME NEW S, NEW s \in Seq(S), NEW q \in Seq(S), q # <<>>
  PROVE  Append(s, Head(q)) \o Tail(q) = s \o q
  OBVIOUS

\* The first part of a sequence contains nothing else.
LEMMA InConcat ==
  ASSUME NEW S, NEW s \in Seq(S), NEW q \in Seq(S)
  PROVE  In(s) \subseteq In(s \o q)
<1>1. /\ DOMAIN s = 1..Len(s) /\ Len(s) \in Nat /\ Len(q) \in Nat
      /\ DOMAIN (s \o q) = 1..Len(s)+Len(q)
      /\ \A i \in 1..Len(s) : (s \o q)[i] = s[i]
  OBVIOUS
<1>2. \A i \in 1..Len(s) : i \in 1..Len(s)+Len(q)
  BY <1>1
<1> QED
  BY <1>1, <1>2 DEF In

\* The front of the queue has not been started.
LEMMA HeadIsNew ==
  ASSUME NEW S, NEW s \in Seq(S), NEW q \in Seq(S), q # <<>>, Distinct(s \o q)
  PROVE  Head(q) \notin In(s)
<1>1. /\ DOMAIN s = 1..Len(s) /\ Len(s) \in Nat /\ Len(q) \in Nat /\ Len(q) >= 1
      /\ DOMAIN (s \o q) = 1..Len(s)+Len(q)
      /\ \A i \in 1..Len(s) : (s \o q)[i] = s[i]
  OBVIOUS
<1>2. (s \o q)[Len(s)+1] = Head(q)
  BY <1>1
<1>3. Len(s)+1 \in 1..Len(s)+Len(q) /\ \A i \in 1..Len(s) : i \in 1..Len(s)+Len(q) /\ i # Len(s)+1
  BY <1>1
<1> QED
  BY <1>1, <1>2, <1>3 DEF In, Distinct

-----------------------------------------------------------------------------
(* Every task is submitted, started and run at most once.  A nested task   *)
(* is submitted by the one body that has it as Child, which is past its    *)
(* submit from then on.                                                    *)

QueueInv ==
  /\ started \o m_tasks = accepted
  /\ Distinct(accepted)
  /\ \A c \in Clients : cpc[c] = "before" => c \notin In(accepted)
  /\ \A u \in Tasks : Child[u] \in In(accepted) =>
        /\ u \in In(started)
        /\ \A w \in Workers : ~(pc[w] = "running" /\ cur[w] = u)
  /\ \A w \in Workers : Busy(w) => cur[w] \in In(started)
  /\ \A v, w \in Workers : Busy(v) /\ Busy(w) /\ cur[v] = cur[w] => v = w

\* A step that leaves the queue alone and starts no task.
Quiet ==
  /\ UNCHANGED <<m_tasks, accepted, started>>
  /\ \A c \in Clients : cpc'[c] = "before" => cpc[c] = "before"
  /\ \A w \in Workers : Busy(w)' => Busy(w) /\ cur'[w] = cur[w]
  /\ \A w \in Workers : pc'[w] = "running" => pc[w] = "running"

\* All steps but an accepted submit and a pop are quiet.
LEMMA QuietSteps ==
  ASSUME TypeInv, [Next]_vars
  PROVE  \/ Quiet
         \/ \E c \in Clients : ClientSubmit(c)
         \/ \E w \in Workers : (NestedSubmit(w) /\ ~m_stop) \/ WorkerTake(w)
<1>0. pc \in [Workers -> PcStates] /\ cpc \in [Clients -> {"before", "notify", "after"}]
      /\ cur \in [Workers -> Tasks \cup {NoTask}]
  BY DEF TypeInv, TypeOK, PcStates
<1>1. ASSUME NEW c \in Clients, ClientNotify(c) PROVE Quiet
  <2>1. \A w \in Workers : pc'[w] = pc[w] \/ pc'[w] = "loop"
    BY <1>0, <1>1, WokenEffect DEF ClientNotify
  <2> QED
    BY <1>0, <1>1, <2>1 DEF ClientNotify, queueVars, Quiet, Busy
<1>2. ASSUME NEW w \in Workers, NestedSubmit(w), m_stop PROVE Quiet
  BY <1>0, <1>2 DEF NestedSubmit, queueVars, Quiet, Busy
<1>3. ASSUME NEW w \in Workers, NestedNotify(w) PROVE Quiet
  <2> DEFINE p == [pc EXCEPT ![w] = "ending"]
  <2>1. p \in [Workers -> PcStates] /\ pc' \in Woken(p)
    BY <1>0, <1>3 DEF PcStates, NestedNotify
  <2>2. p[w] = "ending" /\ \A v \in Workers : v # w => p[v] = pc[v]
    BY <1>0
  <2> HIDE DEF p
  <2>3. \A v \in Workers : pc'[v] = p[v] \/ pc'[v] = "loop"
    BY <2>1, WokenEffect
  <2>4. pc[w] = "notify" /\ UNCHANGED <<m_tasks, accepted, started, cpc, cur>>
    BY <1>3 DEF NestedNotify, queueVars
  <2> QED
    BY <2>2, <2>3, <2>4 DEF Quiet, Busy
<1>4. ASSUME NEW w \in Workers,
             \/ WorkerWait(w) \/ SpuriousWakeup(w) \/ WorkerExit(w)
             \/ BodyEnds(w) \/ BumpCompleted(w) \/ Publish(w)
      PROVE  Quiet
  BY <1>0, <1>4 DEF WorkerWait, SpuriousWakeup, WorkerExit, BodyEnds, BumpCompleted, Publish,
                    queueVars, Quiet, Busy
<1>5. CASE SetStop \/ NotifyAll \/ JoinAndDestroy
  BY <1>0, <1>5 DEF SetStop, NotifyAll, WokenByStop, JoinAndDestroy, queueVars, Quiet, Busy
<1>6. CASE UNCHANGED vars
  BY <1>6 DEF vars, Quiet, Busy
<1> QED
  BY <1>1, <1>2, <1>3, <1>4, <1>5, <1>6 DEF Next, WorkerStep

\* Nothing was submitted to a new pool.
LEMMA QueueInit == Init => QueueInv
  BY DEF Init, QueueInv, In, Distinct, Busy

\* Quiet steps keep the order and the uniqueness of tasks.
LEMMA QuietQueue == QueueInv /\ Quiet => QueueInv'
<1> SUFFICES ASSUME QueueInv, Quiet PROVE QueueInv'
  OBVIOUS
<1>1. /\ started' \o m_tasks' = accepted' /\ Distinct(accepted')
      /\ In(accepted') = In(accepted) /\ In(started') = In(started)
  BY DEF QueueInv, Quiet
<1>2. \A v, w \in Workers : Busy(v)' /\ Busy(w)' /\ cur'[v] = cur'[w] => v = w
  BY DEF QueueInv, Quiet
<1>3. \A w \in Workers : pc'[w] = "running" => pc[w] = "running" /\ cur'[w] = cur[w]
  BY DEF Quiet, Busy
<1>4. \A w \in Workers : Busy(w)' => cur'[w] \in In(started)
  BY DEF QueueInv, Quiet
<1>5. \A c \in Clients : cpc'[c] = "before" => c \notin In(accepted)
  BY DEF QueueInv, Quiet
<1> QED
  BY <1>1, <1>2, <1>3, <1>4, <1>5 DEF QueueInv

\* So does a push of a task that was not accepted before.
LEMMA PushQueue ==
  ASSUME TypeInv, QueueInv, NEW t \in Tasks, t \notin In(accepted), Push(t), UNCHANGED started
  PROVE  /\ started' \o m_tasks' = accepted' /\ Distinct(accepted')
         /\ In(accepted') = In(accepted) \cup {t}
<1> USE DEF TypeInv, TypeOK, QueueInv, Push
<1>1. started \o Append(m_tasks, t) = Append(accepted, t)
  <2>1. started \in Seq(Tasks) /\ m_tasks \in Seq(Tasks) /\ started \o m_tasks = accepted
    BY Zenon
  <2> HIDE DEF TypeInv, TypeOK, QueueInv, Push
  <2>2. started \o Append(m_tasks, t) = Append(started \o m_tasks, t)
    BY <2>1, AppendRight
  <2> QED
    BY <2>1, <2>2, Zenon
<1>2. Distinct(Append(accepted, t))
  BY DistinctAppend
<1>3. In(Append(accepted, t)) = In(accepted) \cup {t}
  BY InAppend
<1> QED
  BY <1>1, <1>2, <1>3

\* The order of tasks and their uniqueness are inductive.
LEMMA QueueStep == TypeInv /\ QueueInv /\ [Next]_vars => QueueInv'
<1> SUFFICES ASSUME TypeInv, QueueInv, [Next]_vars PROVE QueueInv'
  OBVIOUS
<1>0. /\ pc \in [Workers -> PcStates] /\ cpc \in [Clients -> {"before", "notify", "after"}]
      /\ cur \in [Workers -> Tasks \cup {NoTask}] /\ accepted \in Seq(Tasks)
      /\ started \in Seq(Tasks) /\ m_tasks \in Seq(Tasks)
  BY DEF TypeInv, TypeOK, PcStates
<1>1. CASE Quiet
  BY <1>1, QuietQueue
<1>2. ASSUME NEW c \in Clients, ClientSubmit(c) PROVE QueueInv'
  <2>1. c \in Tasks /\ c \notin In(accepted) /\ Push(c)
        /\ UNCHANGED <<started, pc, cur>> /\ cpc' = [cpc EXCEPT ![c] = "notify"]
    BY <1>2 DEF ClientSubmit, QueueInv, Tasks
  <2>2. /\ started' \o m_tasks' = accepted' /\ Distinct(accepted')
        /\ In(accepted') = In(accepted) \cup {c}
    BY <2>1, PushQueue
  <2>3. \A u \in Tasks : Child[u] # c
    BY PoolAssumption DEF Tasks
  <2> QED
    BY <1>0, <2>1, <2>2, <2>3 DEF QueueInv, Busy
<1>3. ASSUME NEW w \in Workers, NestedSubmit(w), ~m_stop PROVE QueueInv'
  <2> DEFINE u == cur[w]  t == Child[u]
  <2>1. /\ pc[w] = "running" /\ t # NoTask /\ Push(t) /\ pc' = [pc EXCEPT ![w] = "notify"]
        /\ UNCHANGED <<started, cur, cpc>>
    BY <1>3 DEF NestedSubmit
  <2>2. u \in Tasks /\ Busy(w)
    BY <2>1 DEF TypeInv, Busy
  <2>3. t \in Nested /\ t \in Tasks /\ t \notin Clients
    BY <2>1, <2>2, PoolAssumption DEF Tasks
  <2>4. t \notin In(accepted)
    BY <2>1, <2>2 DEF QueueInv
  <2>5. \A v \in Tasks : Child[v] = t => v = u
    BY <2>1, <2>2, PoolAssumption
  <2> HIDE DEF u, t
  <2>6. /\ started' \o m_tasks' = accepted' /\ Distinct(accepted')
        /\ In(accepted') = In(accepted) \cup {t}
    BY <2>1, <2>3, <2>4, PushQueue
  <2>7. \A v \in Workers : (Busy(v)' <=> Busy(v)) /\ (pc'[v] = "running" => v # w /\ pc[v] = "running")
    BY <1>0, <2>1 DEF Busy
  <2>8. \A v \in Workers : pc'[v] = "running" => cur[v] # u
    BY <2>2, <2>7 DEF QueueInv, u, Busy
  <2>9. u \in In(started)
    BY <2>2 DEF QueueInv, u
  <2>10. \A c \in Clients : c # t
    BY <2>3, Zenon
  <2> QED
    BY <2>1, <2>5, <2>6, <2>7, <2>8, <2>9, <2>10 DEF QueueInv
<1>4. ASSUME NEW w \in Workers, WorkerTake(w) PROVE QueueInv'
  <2> DEFINE h == Head(m_tasks)
  <2>1. /\ m_tasks # <<>> /\ m_tasks' = Tail(m_tasks) /\ started' = Append(started, h)
        /\ cur' = [cur EXCEPT ![w] = h] /\ pc[w] = "loop" /\ pc' = [pc EXCEPT ![w] = "running"]
        /\ UNCHANGED <<accepted, cpc>>
    BY <1>4 DEF WorkerTake
  <2>2. h \in Tasks
    BY <1>0, <2>1
  <2>3. h \notin In(started)
    BY <1>0, <2>1, HeadIsNew, Zenon DEF QueueInv
  <2>4. started' \o m_tasks' = accepted
    BY <1>0, <2>1, MoveHead, Zenon DEF QueueInv
  <2> HIDE DEF h
  <2>5. In(started') = In(started) \cup {h}
    BY <1>0, <2>1, <2>2, InAppend
  <2>6. cur'[w] = h /\ \A v \in Workers : v # w => cur'[v] = cur[v] /\ pc'[v] = pc[v]
    BY <1>0, <2>1
  <2>7. \A v \in Workers : v # w /\ Busy(v)' => Busy(v)
    BY <2>6 DEF Busy
  <2>8. Child[h] \notin In(accepted)
    BY <2>2, <2>3 DEF QueueInv
  <2>9. /\ Distinct(accepted') /\ started' \o m_tasks' = accepted'
        /\ \A c \in Clients : cpc'[c] = "before" => c \notin In(accepted')
    BY <2>1, <2>4, Zenon DEF QueueInv
  <2>10. ASSUME NEW u \in Tasks, Child[u] \in In(accepted')
         PROVE  u \in In(started') /\ \A v \in Workers : ~(pc'[v] = "running" /\ cur'[v] = u)
    <3>1. Child[u] \in In(accepted) /\ u # h
      BY <2>1, <2>8, <2>10, Zenon
    <3>2. u \in In(started) /\ \A v \in Workers : ~(pc[v] = "running" /\ cur[v] = u)
      BY <3>1, Zenon DEF QueueInv
    <3> QED
      BY <2>5, <2>6, <3>1, <3>2, Zenon
  <2>11. \A v \in Workers : Busy(v)' => cur'[v] \in In(started')
    BY <2>5, <2>6, <2>7, Zenon DEF QueueInv
  <2>12. \A v \in Workers : v # w /\ Busy(v)' => cur'[v] # h
    BY <2>3, <2>6, <2>7, Zenon DEF QueueInv
  <2>13. \A v, x \in Workers : Busy(v)' /\ Busy(x)' /\ cur'[v] = cur'[x] => v = x
    <3>1. ASSUME NEW v \in Workers, NEW x \in Workers, Busy(v)', Busy(x)', cur'[v] = cur'[x]
          PROVE  v = x
      <4>1. CASE v = w \/ x = w
        BY <2>6, <2>12, <3>1, <4>1, Zenon
      <4>2. CASE v # w /\ x # w
        BY <2>6, <2>7, <3>1, <4>2, Zenon DEF QueueInv
      <4> QED
        BY <4>1, <4>2, Zenon
    <3> QED
      BY <3>1, Zenon
  <2> QED
    BY <2>9, <2>10, <2>11, <2>13, Zenon DEF QueueInv
<1> QED
  BY <1>1, <1>2, <1>3, <1>4, QuietSteps

\* Tasks start once, in the order of their acceptance, and pending() counts
\* those that have not started.
THEOREM FifoStart == Spec => []StartedInOrder
<1>1. Spec => [](TypeInv /\ QueueInv)
  BY TypeInit, TypeStep, QueueInit, QueueStep, PTL DEF Spec
<1>2. TypeInv /\ QueueInv => StartedInOrder
  BY DEF TypeInv, QueueInv, StartedInOrder
<1> QED
  BY <1>1, <1>2, PTL

-----------------------------------------------------------------------------
(* Results.  A started task is with a worker or has its result, never      *)
(* both; the counter is one ahead for each worker between the two.         *)

Publishing == {w \in Workers : pc[w] = "publish"}

ResultInv ==
  /\ Ready \subseteq In(started)
  /\ \A w \in Workers : Busy(w) => cur[w] \notin Ready
  /\ \A t \in In(started) : t \in Ready \/ \E w \in Workers : Busy(w) /\ cur[w] = t
  /\ m_completed = Cardinality(Ready) + Cardinality(Publishing)

\* A step that neither begins, counts nor delivers a task.
Plain ==
  /\ UNCHANGED <<future, m_completed, started>>
  /\ \A w \in Workers : Busy(w)' <=> Busy(w)
  /\ \A w \in Workers : Busy(w) => cur'[w] = cur[w]
  /\ Publishing' = Publishing

\* All steps but a pop, a count, a delivery and a refused nested submit are
\* plain.
LEMMA PlainSteps ==
  ASSUME TypeInv, [Next]_vars
  PROVE  \/ Plain
         \/ \E w \in Workers : \/ (NestedSubmit(w) /\ m_stop) \/ WorkerTake(w)
                               \/ BumpCompleted(w) \/ Publish(w)
<1>0. pc \in [Workers -> PcStates] /\ cur \in [Workers -> Tasks \cup {NoTask}]
  BY DEF TypeInv, TypeOK, PcStates
<1>1. ASSUME NEW c \in Clients, ClientSubmit(c) PROVE Plain
  BY <1>1 DEF ClientSubmit, Plain, Busy, Publishing
<1>2. ASSUME NEW c \in Clients, ClientNotify(c) PROVE Plain
  <2>1. \A w \in Workers : pc'[w] = pc[w] \/ (w \in Waiting /\ pc'[w] = "loop")
    BY <1>0, <1>2, WokenEffect DEF ClientNotify
  <2> QED
    BY <1>2, <2>1 DEF ClientNotify, Waiting, Plain, Busy, Publishing
<1>3. ASSUME NEW w \in Workers, NestedSubmit(w), ~m_stop PROVE Plain
  BY <1>0, <1>3 DEF NestedSubmit, Plain, Busy, Publishing
<1>4. ASSUME NEW w \in Workers, NestedNotify(w) PROVE Plain
  <2> DEFINE p == [pc EXCEPT ![w] = "ending"]
  <2>1. p \in [Workers -> PcStates] /\ pc' \in Woken(p)
    BY <1>0, <1>4 DEF PcStates, NestedNotify
  <2>2. p[w] = "ending" /\ \A v \in Workers : v # w => p[v] = pc[v]
    BY <1>0
  <2> HIDE DEF p
  <2>3. \A v \in Workers : pc'[v] = p[v] \/ (v \in Waiting /\ pc'[v] = "loop")
    BY <2>1, WokenEffect
  <2>4. pc[w] = "notify" /\ UNCHANGED <<future, m_completed, started, cur>>
    BY <1>4 DEF NestedNotify
  <2>5. pc'[w] = "ending"
    BY <2>2, <2>3, <2>4 DEF Waiting
  <2> QED
    BY <2>2, <2>3, <2>4, <2>5 DEF Waiting, Plain, Busy, Publishing
<1>5. ASSUME NEW w \in Workers, WorkerWait(w) \/ SpuriousWakeup(w) \/ WorkerExit(w) \/ BodyEnds(w)
      PROVE  Plain
  BY <1>0, <1>5 DEF WorkerWait, SpuriousWakeup, WorkerExit, BodyEnds, Plain, Busy, Publishing
<1>6. CASE SetStop \/ NotifyAll \/ JoinAndDestroy
  BY <1>0, <1>6 DEF SetStop, NotifyAll, WokenByStop, JoinAndDestroy, Plain, Busy, Publishing
<1>7. CASE UNCHANGED vars
  BY <1>7 DEF vars, Plain, Busy, Publishing
<1> QED
  BY <1>1, <1>2, <1>3, <1>4, <1>5, <1>6, <1>7 DEF Next, WorkerStep

\* No task has started in a new pool.
LEMMA ResultInit == Init => ResultInv
<1> SUFFICES ASSUME Init PROVE ResultInv
  OBVIOUS
<1>1. Ready = {} /\ Publishing = {} /\ In(started) = {} /\ \A w \in Workers : ~Busy(w)
  BY DEF Init, Ready, Publishing, In, Busy
<1>2. Cardinality({}) = 0
  BY FS_EmptySet
<1> QED
  BY <1>1, <1>2 DEF Init, ResultInv

\* Plain steps keep what is known of results.
LEMMA PlainResult == ResultInv /\ Plain => ResultInv'
<1> SUFFICES ASSUME ResultInv, Plain PROVE ResultInv'
  OBVIOUS
<1>1. Ready' = Ready /\ In(started') = In(started)
  BY DEF Plain, Ready
<1> QED
  BY <1>1 DEF ResultInv, Plain

\* Results, their counter and the tasks under way stay in step.
LEMMA ResultStep == TypeInv /\ QueueInv /\ ResultInv /\ [Next]_vars => ResultInv'
<1> SUFFICES ASSUME TypeInv, QueueInv, ResultInv, [Next]_vars PROVE ResultInv'
  OBVIOUS
<1>0. /\ pc \in [Workers -> PcStates] /\ cur \in [Workers -> Tasks \cup {NoTask}]
      /\ started \in Seq(Tasks) /\ m_tasks \in Seq(Tasks)
      /\ future \in [Tasks -> {"none", "value", "exception", "refused"}] /\ m_completed \in Nat
      /\ outcome \in [Workers -> {"none", "value", "exception"}]
  BY DEF TypeInv, TypeOK, PcStates
<1>f. /\ IsFiniteSet(Ready) /\ Cardinality(Ready) \in Nat
      /\ IsFiniteSet(Publishing) /\ Cardinality(Publishing) \in Nat
  BY PoolAssumption, FS_Subset, FS_CardinalityType DEF Ready, Publishing
<1>1. CASE Plain
  BY <1>1, PlainResult
<1>2. ASSUME NEW w \in Workers, NestedSubmit(w), m_stop PROVE ResultInv'
  <2>1. /\ pc[w] = "running" /\ pc' = [pc EXCEPT ![w] = "ending"]
        /\ future' = [future EXCEPT ![Child[cur[w]]] = "refused"]
        /\ UNCHANGED <<m_completed, started, cur>>
    BY <1>2 DEF NestedSubmit
  <2>2. cur[w] \in Tasks
    BY <2>1 DEF TypeInv, Busy
  <2>3. Child[cur[w]] \notin In(accepted)
    BY <2>1, <2>2 DEF QueueInv
  <2>4. In(started) \subseteq In(accepted)
    BY <1>0, InConcat, Zenon DEF QueueInv
  <2>5. Child[cur[w]] \notin Ready
    BY <2>3, <2>4 DEF ResultInv
  <2>6. Ready' = Ready
    BY <1>0, <2>1, <2>5 DEF Ready
  <2>7. (\A v \in Workers : Busy(v)' <=> Busy(v)) /\ Publishing' = Publishing
    BY <1>0, <2>1 DEF Busy, Publishing
  <2> QED
    BY <2>1, <2>6, <2>7 DEF ResultInv
<1>3. ASSUME NEW w \in Workers, WorkerTake(w) PROVE ResultInv'
  <2> DEFINE h == Head(m_tasks)
  <2>1. /\ m_tasks # <<>> /\ started' = Append(started, h)
        /\ cur' = [cur EXCEPT ![w] = h] /\ pc[w] = "loop" /\ pc' = [pc EXCEPT ![w] = "running"]
        /\ UNCHANGED <<future, m_completed>>
    BY <1>3 DEF WorkerTake
  <2>2. h \in Tasks
    BY <1>0, <2>1
  <2>3. h \notin In(started)
    BY <1>0, <2>1, HeadIsNew, Zenon DEF QueueInv
  <2> HIDE DEF h
  <2>4. In(started') = In(started) \cup {h}
    BY <1>0, <2>1, <2>2, InAppend
  <2>5. /\ cur'[w] = h /\ Busy(w)' /\ ~Busy(w)
        /\ \A v \in Workers : v # w => cur'[v] = cur[v] /\ (Busy(v)' <=> Busy(v))
    BY <1>0, <2>1 DEF Busy
  <2>6. Ready' = Ready /\ Publishing' = Publishing
    BY <1>0, <2>1 DEF Ready, Publishing
  <2>7. Ready' \subseteq In(started') /\ h \notin Ready
    BY <2>3, <2>4, <2>6 DEF ResultInv
  <2>8. \A v \in Workers : Busy(v)' => cur'[v] \notin Ready'
    BY <2>5, <2>6, <2>7, Zenon DEF ResultInv
  <2>9. \A t \in In(started') : t \in Ready' \/ \E v \in Workers : Busy(v)' /\ cur'[v] = t
    <3>1. ASSUME NEW t \in In(started), t \notin Ready
          PROVE  \E v \in Workers : Busy(v)' /\ cur'[v] = t
      <4>1. PICK v \in Workers : Busy(v) /\ cur[v] = t
        BY <3>1, Zenon DEF ResultInv
      <4> QED
        BY <2>5, <4>1, Zenon
    <3> QED
      BY <2>4, <2>5, <2>6, <3>1, Zenon
  <2>10. m_completed' = Cardinality(Ready') + Cardinality(Publishing')
    BY <2>1, <2>6, Zenon DEF ResultInv
  <2> QED
    BY <2>7, <2>8, <2>9, <2>10, Zenon DEF ResultInv
<1>4. ASSUME NEW w \in Workers, BumpCompleted(w) PROVE ResultInv'
  <2>1. /\ pc[w] = "ending" /\ pc' = [pc EXCEPT ![w] = "publish"] /\ m_completed' = m_completed + 1
        /\ UNCHANGED <<started, cur, future>>
    BY <1>4 DEF BumpCompleted, Bumped
  <2>2. Publishing' = Publishing \cup {w} /\ w \notin Publishing
    BY <1>0, <2>1 DEF Publishing
  <2>3. Cardinality(Publishing') = Cardinality(Publishing) + 1
    BY <1>f, <2>2, FS_AddElement, Zenon
  <2>4. (\A v \in Workers : Busy(v)' <=> Busy(v)) /\ Ready' = Ready
    BY <1>0, <2>1 DEF Busy, Ready
  <2> QED
    BY <1>f, <2>1, <2>3, <2>4 DEF ResultInv
<1>5. ASSUME NEW w \in Workers, Publish(w) PROVE ResultInv'
  <2> DEFINE u == cur[w]
  <2>1. /\ pc[w] = "publish" /\ pc' = [pc EXCEPT ![w] = "loop"]
        /\ future' = [future EXCEPT ![u] = outcome[w]] /\ cur' = [cur EXCEPT ![w] = NoTask]
        /\ UNCHANGED <<started, m_completed>>
    BY <1>5 DEF Publish
  <2>2. Busy(w) /\ u \in Tasks /\ outcome[w] \in {"value", "exception"} /\ u \in In(started) /\ u \notin Ready
    BY <2>1 DEF TypeInv, QueueInv, ResultInv, Busy
  <2>3. \A v \in Workers : v # w /\ Busy(v) => cur[v] # u
    BY <2>2 DEF QueueInv
  <2>9. u = cur[w]
    OBVIOUS
  <2> HIDE DEF u
  <2>4. Ready' = Ready \cup {u}
    BY <1>0, <2>1, <2>2 DEF Ready
  <2>5. Publishing' = Publishing \ {w} /\ w \in Publishing
    BY <1>0, <2>1 DEF Publishing
  <2>6. Cardinality(Ready') = Cardinality(Ready) + 1
    BY <1>f, <2>2, <2>4, FS_AddElement, Zenon
  <2>7. Cardinality(Publishing') = Cardinality(Publishing) - 1
    BY <1>f, <2>5, FS_RemoveElement, Zenon
  <2>8. /\ ~Busy(w)'
        /\ \A v \in Workers : v # w => cur'[v] = cur[v] /\ (Busy(v)' <=> Busy(v))
    BY <1>0, <2>1 DEF Busy
  <2>10. m_completed' = Cardinality(Ready') + Cardinality(Publishing')
    BY <1>f, <2>1, <2>6, <2>7 DEF ResultInv
  <2>11. \A t \in In(started') : t \in Ready' \/ \E v \in Workers : Busy(v)' /\ cur'[v] = t
    BY <2>1, <2>4, <2>8, <2>9 DEF ResultInv
  <2> QED
    BY <2>1, <2>2, <2>3, <2>4, <2>8, <2>10, <2>11 DEF ResultInv
<1> QED
  BY <1>1, <1>2, <1>3, <1>4, <1>5, PlainSteps

\* A task is counted before its future is ready (thread_pool.h:101-102).
THEOREM CountedFirst == Spec => []CountedBeforeReady
<1>1. Spec => [](TypeInv /\ QueueInv /\ ResultInv)
  BY TypeInit, TypeStep, QueueInit, QueueStep, ResultInit, ResultStep, PTL DEF Spec
<1>2. ResultInv => CountedBeforeReady
  BY DEF ResultInv, CountedBeforeReady, Publishing
<1> QED
  BY <1>1, <1>2, PTL

-----------------------------------------------------------------------------
(* Destruction.  A worker leaves only a stopped, empty pool, and nothing   *)
(* is pushed after the stop.                                               *)

ExitInv ==
  /\ \A w \in Workers : pc[w] = "exited" => m_stop /\ m_tasks = <<>>
  /\ owner = "destroyed" => \A w \in Workers : pc[w] = "exited"

\* Nobody has left a new pool.
LEMMA ExitInit == Init => ExitInv
  BY DEF Init, ExitInv

\* Workers leave for good, and only an empty pool that takes no more tasks.
LEMMA ExitStep == TypeInv /\ SleepInv /\ ExitInv /\ [Next]_vars => ExitInv'
<1> SUFFICES ASSUME TypeInv, SleepInv, ExitInv, [Next]_vars PROVE ExitInv'
  OBVIOUS
<1>0. pc \in [Workers -> PcStates]
  BY DEF TypeInv, TypeOK, PcStates
<1>1. ASSUME NEW c \in Clients, ClientSubmit(c) PROVE ExitInv'
  BY <1>1, Zenon DEF ClientSubmit, SleepInv, ExitInv
<1>2. ASSUME NEW c \in Clients, ClientNotify(c) PROVE ExitInv'
  <2>1. \A w \in Workers : pc'[w] = pc[w] \/ (w \in Waiting /\ pc'[w] = "loop")
    BY <1>0, <1>2, WokenEffect DEF ClientNotify
  <2> QED
    BY <1>2, <2>1 DEF ClientNotify, queueVars, Waiting, ExitInv
<1>3. ASSUME NEW w \in Workers, NestedSubmit(w) PROVE ExitInv'
  BY <1>0, <1>3 DEF NestedSubmit, queueVars, ExitInv
<1>4. ASSUME NEW w \in Workers, NestedNotify(w) PROVE ExitInv'
  <2> DEFINE p == [pc EXCEPT ![w] = "ending"]
  <2>1. p \in [Workers -> PcStates] /\ pc' \in Woken(p)
    BY <1>0, <1>4 DEF PcStates, NestedNotify
  <2>2. p[w] = "ending" /\ \A v \in Workers : v # w => p[v] = pc[v]
    BY <1>0
  <2> HIDE DEF p
  <2>3. \A v \in Workers : pc'[v] = p[v] \/ pc'[v] = "loop"
    BY <2>1, WokenEffect
  <2>4. pc[w] = "notify" /\ UNCHANGED <<m_stop, m_tasks, owner>>
    BY <1>4 DEF NestedNotify, queueVars
  <2>5. owner # "destroyed"
    BY <2>4 DEF ExitInv
  <2>6. \A v \in Workers : pc'[v] = "exited" => pc[v] = "exited"
    BY <2>2, <2>3
  <2> QED
    BY <2>4, <2>5, <2>6 DEF ExitInv
<1>5. ASSUME NEW w \in Workers, WorkerExit(w) PROVE ExitInv'
  BY <1>0, <1>5 DEF WorkerExit, MayExit, queueVars, ExitInv
<1>6. ASSUME NEW w \in Workers,
             \/ WorkerWait(w) \/ SpuriousWakeup(w) \/ BodyEnds(w) \/ BumpCompleted(w) \/ Publish(w)
      PROVE  ExitInv'
  <2>1. UNCHANGED <<m_stop, m_tasks, owner>>
    BY <1>6 DEF WorkerWait, SpuriousWakeup, BodyEnds, BumpCompleted, Publish, queueVars
  <2>2. PICK p \in PcStates \ {"exited"} : pc' = [pc EXCEPT ![w] = p]
    BY <1>6 DEF WorkerWait, SpuriousWakeup, BodyEnds, BumpCompleted, Publish, PcStates
  <2>3. pc[w] # "exited"
    BY <1>6 DEF WorkerWait, SpuriousWakeup, BodyEnds, BumpCompleted, Publish, Waiting
  <2>4. owner # "destroyed"
    BY <2>3, Zenon DEF ExitInv
  <2>5. \A v \in Workers : pc'[v] = "exited" => pc[v] = "exited"
    BY <1>0, <2>2
  <2> QED
    BY <2>1, <2>4, <2>5 DEF ExitInv
<1>7. ASSUME NEW w \in Workers, WorkerTake(w) PROVE ExitInv'
  BY <1>0, <1>7 DEF WorkerTake, ExitInv
<1>8. CASE SetStop
  BY <1>8 DEF SetStop, queueVars, ExitInv
<1>9. CASE NotifyAll
  BY <1>0, <1>9 DEF NotifyAll, WokenByStop, queueVars, ExitInv
<1>10. CASE JoinAndDestroy
  BY <1>10 DEF JoinAndDestroy, JoinedEnough, queueVars, ExitInv
<1>11. CASE UNCHANGED vars
  BY <1>11 DEF vars, ExitInv
<1> QED
  BY <1>1, <1>2, <1>3, <1>4, <1>5, <1>6, <1>7, <1>8, <1>9, <1>10, <1>11 DEF Next, WorkerStep

\* The whole inductive invariant.
PoolInv == TypeInv /\ SleepInv /\ QueueInv /\ ResultInv /\ ExitInv

\* The invariant of the pool is inductive.
LEMMA PoolInductive == (Init => PoolInv) /\ (PoolInv /\ [Next]_vars => PoolInv')
  BY TypeInit, SleepInit, QueueInit, ResultInit, ExitInit,
     TypeStep, SleepStep, QueueStep, ResultStep, ExitStep DEF PoolInv

\* When the destructor has returned every accepted task has its result.
LEMMA DrainedByInvariant == PoolInv => DestroyedIsDrained
<1> SUFFICES ASSUME PoolInv, owner = "destroyed"
             PROVE  (\A w \in Workers : pc[w] = "exited")
                    /\ \A k \in DOMAIN accepted : accepted[k] \in Ready
  BY DEF DestroyedIsDrained
<1>1. \A w \in Workers : pc[w] = "exited"
  BY DEF PoolInv, ExitInv
<1>2. m_tasks = <<>>
  BY <1>1, PoolAssumption DEF PoolInv, ExitInv
<1>3. accepted = started
  <2>1. started \in Seq(Tasks)
    BY DEF PoolInv, TypeInv, TypeOK
  <2>2. started \o <<>> = started
    BY <2>1
  <2>3. started \o m_tasks = accepted
    BY Zenon DEF PoolInv, QueueInv
  <2> QED
    BY <1>2, <2>2, <2>3, Zenon
<1>4. \A w \in Workers : ~Busy(w)
  BY <1>1 DEF Busy
<1> QED
  BY <1>1, <1>3, <1>4 DEF PoolInv, ResultInv, In

\* The destructor returns to a drained pool (thread_pool.h:48-60).
THEOREM DestructorDrains == Spec => []DestroyedIsDrained
  BY PoolInductive, DrainedByInvariant, PTL DEF Spec


-----------------------------------------------------------------------------
(* The pool under timed tasks is the pool.                                 *)

\* A step of the composition is a step of the pool or leaves the pool alone.
LEMMA PooledStepIsPoolStep == [PooledNext]_allVars => [Next]_vars
<1> SUFFICES ASSUME [PooledNext]_allVars PROVE [Next]_vars
  OBVIOUS
<1>1. CASE Others
  BY <1>1 DEF Others, Next
<1>2. ASSUME NEW w \in Workers, Worker(w) PROVE [Next]_vars
  <2>1. CASE PoolStep(w)
    BY <2>1 DEF PoolStep, Next, WorkerStep
  <2>2. CASE BodyStarts(w) \/ BodyFinishes(w)
    BY <2>2 DEF BodyStarts, BodyFinishes
  <2>3. CASE BodySubmits(w) \/ BodyLeaves(w)
    BY <2>3 DEF BodySubmits, BodyLeaves, Next, WorkerStep
  <2> QED
    BY <1>2, <2>1, <2>2, <2>3 DEF Worker
<1>3. CASE UNCHANGED allVars
  BY <1>3 DEF allVars
<1> QED
  BY <1>1, <1>2, <1>3 DEF PooledNext

\* Timing its tasks does not change what the pool does: every behaviour of
\* the composition is a behaviour of the pool.
THEOREM TimingKeepsPool == PooledSpec => Init /\ [][Next]_vars
<1>1. PooledInit => Init
  BY DEF PooledInit
<1> QED
  BY <1>1, PooledStepIsPoolStep, PTL DEF PooledSpec

\* The pool's invariants hold with timed tasks too.
THEOREM PooledSafety ==
  PooledSpec => [](TypeOK /\ CountedBeforeReady /\ NoLostWakeup /\ StartedInOrder /\ DestroyedIsDrained)
<1>1. PoolInv => TypeOK /\ CountedBeforeReady /\ NoLostWakeup /\ StartedInOrder /\ DestroyedIsDrained
  BY DrainedByInvariant, Zenon DEF PoolInv, TypeInv, SleepInv, QueueInv, ResultInv, StartedInOrder,
     CountedBeforeReady, Publishing
<1> QED
  BY <1>1, TimingKeepsPool, PoolInductive, PTL

-----------------------------------------------------------------------------
(* The numbers of a route.                                                 *)

\* Multiplication keeps order.
LEMMA TimesMonotone ==
  ASSUME NEW n \in Nat, NEW a \in Nat, NEW b \in Nat, a <= b
  PROVE  n * a <= n * b
  BY SMT

\* One more request of latency a.
LEMMA TimesNext ==
  ASSUME NEW n \in Nat, NEW a \in Nat
  PROVE  (n + 1) * a = n * a + a /\ n * a \in Nat
  BY SMT

\* A uint64_t holds what fits in it.
LEMMA WordFits ==
  ASSUME NEW n \in Nat
  PROVE  Word(n) \in Nat /\ (n <= UINT64_MAX => Word(n) = n)
  BY StatsAssumption, SMT DEF Word

\* With one more latency us the sum stays between n times the extremes.
LEMMA OneMoreBetween ==
  ASSUME NEW n \in Nat, NEW S \in Nat, NEW a \in Nat, NEW b \in Nat, n * a <= S, S <= n * b,
         NEW lo \in Nat, NEW hi \in Nat, NEW us \in Nat,
         n = 0 \/ (lo <= a /\ b <= hi), lo <= us, us <= hi
  PROVE  (n + 1) * lo <= S + us /\ S + us <= (n + 1) * hi
<1>1. n * lo <= S /\ S <= n * hi
  <2>1. CASE n = 0
    <3>1. n * b = 0 /\ n * lo = 0 /\ n * hi = 0
      BY <2>1, SMT
    <3> QED
      BY <3>1, SMT
  <2>2. CASE n # 0
    <3>1. n * lo <= n * a /\ n * b <= n * hi
      BY <2>2, TimesMonotone
    <3>2. n * lo \in Nat /\ n * a \in Nat /\ n * b \in Nat /\ n * hi \in Nat
      BY TimesNext
    <3> QED
      BY <3>1, <3>2, SMT
  <2> QED
    BY <2>1, <2>2
<1>2. /\ (n + 1) * lo = n * lo + lo /\ (n + 1) * hi = n * hi + hi
      /\ n * lo \in Nat /\ n * hi \in Nat
  BY TimesNext
<1> QED
  BY <1>1, <1>2, SMT

Numbers == [requests : Nat, errors : Nat, total_us : Nat, min_us : Nat, max_us : Nat]

\* What s, the numbers of a route, says of the latencies f of its requests R:
\* MeanBetween, and what makes it inductive.  An unused route holds the
\* initial extremes, and the sum is exact as long as it fits.
Sound(s, f, R) ==
  /\ s \in Numbers
  /\ s.errors <= s.requests /\ s.requests = Cardinality(R)
  /\ R = {} => s.min_us = UINT64_MAX /\ s.max_us = 0
  /\ R # {} => (\E x \in R : f[x] = s.min_us) /\ (\E x \in R : f[x] = s.max_us)
  /\ \A x \in R : s.min_us <= f[x] /\ f[x] <= s.max_us
  /\ SumOver(f, R) \in Nat
  /\ s.requests * s.min_us <= SumOver(f, R) /\ SumOver(f, R) <= s.requests * s.max_us
  /\ SumOver(f, R) <= UINT64_MAX => s.total_us = SumOver(f, R)

\* Requests are finite and their number is a uint64_t.
LEMMA RequestsCountable ==
  ASSUME NEW R, R \subseteq Requests
  PROVE  IsFiniteSet(R) /\ Cardinality(R) \in Nat /\ Cardinality(R) <= UINT64_MAX
<1>1. /\ IsFiniteSet(R) /\ Cardinality(R) \in Nat /\ Cardinality(Requests) \in Nat
      /\ Cardinality(R) <= Cardinality(Requests)
  BY StatsAssumption, FS_Subset, FS_CardinalityType
<1> QED
  BY <1>1, StatsAssumption, SMT

\* A request that is counted for the first time finds room in the counters.
LEMMA CountersFit ==
  ASSUME NEW s, NEW f, NEW R, NEW t \in Requests, R \subseteq Requests, t \notin R, Sound(s, f, R)
  PROVE  /\ Cardinality(R \cup {t}) = s.requests + 1
         /\ Word(s.requests + 1) = s.requests + 1 /\ Word(s.errors + 1) = s.errors + 1
<1>1. Cardinality(R \cup {t}) = Cardinality(R) + 1
  BY RequestsCountable, FS_AddElement
<1>2. Cardinality(R \cup {t}) <= UINT64_MAX
  BY RequestsCountable
<1>3. s.requests \in Nat /\ s.errors \in Nat /\ s.errors <= s.requests /\ s.requests = Cardinality(R)
  BY DEF Sound, Numbers
<1>4. UINT64_MAX \in Nat
  BY StatsAssumption
<1>5. /\ s.requests + 1 \in Nat /\ s.requests + 1 <= UINT64_MAX
      /\ s.errors + 1 \in Nat /\ s.errors + 1 <= UINT64_MAX
  BY <1>1, <1>2, <1>3, <1>4, SMT
<1> QED
  BY <1>1, <1>3, <1>5, WordFits

\* The extremes after one more request: one of the two latencies each, in
\* order, and as good bounds as before.
LEMMA Extremes ==
  ASSUME NEW a \in Nat, NEW b \in Nat, NEW us \in Nat
  PROVE  LET lo == Lowest(a, us)  hi == Highest(b, us) IN
         /\ lo \in {a, us} /\ hi \in {b, us} /\ lo \in Nat /\ hi \in Nat
         /\ lo <= us /\ us <= hi /\ lo <= a /\ b <= hi
  BY SMT DEF Lowest, Highest

\* record keeps a route's numbers sound.
LEMMA RecordSound ==
  ASSUME NEW s, NEW f \in [Requests -> Nat], NEW R, NEW t \in Requests, R \subseteq Requests, t \notin R,
         Sound(s, f, R), NEW us \in Latencies, NEW good \in BOOLEAN, NEW g, g = [f EXCEPT ![t] = us]
  PROVE  Sound(After(s, us, good), g, R \cup {t})
<1> DEFINE n == s.requests  lo == Lowest(s.min_us, us)  hi == Highest(s.max_us, us)
           z == After(s, us, good)  S == SumOver(f, R)
<1>1. /\ n \in Nat /\ s.errors \in Nat /\ s.total_us \in Nat /\ s.min_us \in Nat /\ s.max_us \in Nat
      /\ S \in Nat /\ s.errors <= n
  BY DEF Sound, Numbers
<1>2. us \in Nat /\ us <= UINT64_MAX /\ UINT64_MAX \in Nat
  BY StatsAssumption
<1>3. /\ lo \in {s.min_us, us} /\ hi \in {s.max_us, us} /\ lo \in Nat /\ hi \in Nat
      /\ lo <= us /\ us <= hi /\ lo <= s.min_us /\ s.max_us <= hi
  BY <1>1, <1>2, Extremes, Zenon
<1>4. g[t] = us /\ \A x \in R : g[x] = f[x] /\ f[x] \in Nat /\ x # t
  OBVIOUS
<1>5. SumOver(g, R \cup {t}) = S + us
  <2>1. SumOver(g, R) = S
    <3>1. IsFiniteSet(R)
      BY RequestsCountable
    <3>2. \A x \in R : g[x] = f[x]
      BY <1>4
    <3> QED
      BY <3>1, <3>2, SumSame, Zenon
  <2>2. SumOver(g, R \cup {t}) = SumOver(g, R) + g[t]
    <3>1. IsFiniteSet(R) /\ \A x \in R \cup {t} : g[x] \in Int
      BY <1>2, <1>4, RequestsCountable
    <3> QED
      BY <3>1, SumAdd, Zenon
  <2> QED
    BY <1>1, <1>2, <1>4, <2>1, <2>2
<1>6. /\ z.requests = n + 1 /\ z.errors = IF good THEN s.errors ELSE s.errors + 1
      /\ z.total_us = Word(s.total_us + us) /\ z.min_us = lo /\ z.max_us = hi
      /\ Cardinality(R \cup {t}) = n + 1
  <2>1. /\ Word(s.requests + 1) = s.requests + 1 /\ Word(s.errors + 1) = s.errors + 1
        /\ Cardinality(R \cup {t}) = n + 1
    BY CountersFit
  <2> QED
    BY <2>1 DEF After
<1>7. z \in Numbers
  <2>1. z.total_us \in Nat /\ z.requests \in Nat /\ z.errors \in Nat
    BY <1>1, <1>2, <1>6, WordFits
  <2>2. z = [requests |-> z.requests, errors |-> z.errors, total_us |-> z.total_us,
             min_us |-> z.min_us, max_us |-> z.max_us]
    BY DEF After
  <2> HIDE DEF z, n, lo, hi
  <2> QED
    BY <1>3, <1>6, <2>1, <2>2 DEF Numbers
<1>8. z.errors <= z.requests
  BY <1>1, <1>6
<1>9. z.requests * z.min_us <= S + us /\ S + us <= z.requests * z.max_us
  <2>1. n * s.min_us <= S /\ S <= n * s.max_us
    BY DEF Sound
  <2> HIDE DEF n, lo, hi, S, z
  <2>2. (n + 1) * lo <= S + us /\ S + us <= (n + 1) * hi
    BY <1>1, <1>2, <1>3, <2>1, OneMoreBetween
  <2> QED
    BY <1>6, <2>2, Zenon
<1>10. S + us <= UINT64_MAX => z.total_us = S + us
  <2>1. S <= UINT64_MAX => s.total_us = S
    BY DEF Sound
  <2> HIDE DEF S, z, n, lo, hi
  <2>2. S + us <= UINT64_MAX => s.total_us + us = S + us /\ s.total_us + us \in Nat
    BY <1>1, <1>2, <2>1, SMT
  <2>3. S + us <= UINT64_MAX => Word(s.total_us + us) = S + us
    BY <2>2, WordFits
  <2> QED
    BY <1>6, <2>3, Zenon
<1>11. /\ \E x \in R \cup {t} : g[x] = lo
       /\ \E x \in R \cup {t} : g[x] = hi
  <2>1. CASE R = {}
    <3>1. s.min_us = UINT64_MAX /\ s.max_us = 0
      BY <2>1 DEF Sound
    <3>2. lo = us /\ hi = us
      BY <1>2, <3>1 DEF Lowest, Highest
    <3> QED
      BY <1>4, <3>2, Zenon
  <2>2. CASE R # {}
    <3>1. (\E x \in R : g[x] = s.min_us) /\ (\E x \in R : g[x] = s.max_us)
      BY <1>4, <2>2, Zenon DEF Sound
    <3> HIDE DEF lo, hi
    <3> QED
      BY <1>3, <1>4, <3>1, Zenon
  <2> QED
    BY <2>1, <2>2
<1>12. \A x \in R \cup {t} : lo <= g[x] /\ g[x] <= hi
  <2>1. \A x \in R : s.min_us <= f[x] /\ f[x] <= s.max_us
    BY DEF Sound
  <2> HIDE DEF lo, hi
  <2> QED
    BY <1>1, <1>3, <1>4, <2>1, SMT
<1>13. S + us \in Nat /\ R \cup {t} # {}
  BY <1>1, <1>2
<1> HIDE DEF n, lo, hi, S, z
<1>14. Sound(z, g, R \cup {t})
  BY <1>5, <1>6, <1>7, <1>8, <1>9, <1>10, <1>11, <1>12, <1>13, Zenon DEF Sound
<1> QED
  BY <1>14 DEF z

\* Numbers stay sound when the latencies of the route's requests do.
LEMMA SoundSame ==
  ASSUME NEW s, NEW f, NEW g, NEW R, R \subseteq Requests, \A x \in R : g[x] = f[x], Sound(s, f, R)
  PROVE  Sound(s, g, R)
<1>1. SumOver(g, R) = SumOver(f, R)
  BY RequestsCountable, SumSame
<1> QED
  BY <1>1, Zenon DEF Sound

-----------------------------------------------------------------------------
(* What a step does to the timers: nothing that counts, or one record.     *)

TimerStates == {"none", "running", "done", "dead"}

TimersTyped == timer \in [Requests -> TimerStates] /\ ok \subseteq Timed

\* No request is recorded: the timer of none reaches "done" or "dead".
NoneRecorded == UNCHANGED <<m_stats, ok, took, Timed>> /\ timer' \in [Requests -> TimerStates]

\* Request t is recorded, by finish or by the destructor of its timer.
Recorded(t, us, good) ==
  /\ record(RouteOf[t], us, good) /\ took' = [took EXCEPT ![t] = us]
  /\ timer[t] = "running" /\ \E d \in {"done", "dead"} : timer' = [timer EXCEPT ![t] = d]
  /\ ok' = IF good THEN ok \cup {t} ELSE ok

\* A step that records t adds it to the timed requests.
LEMMA RecordedTimes ==
  ASSUME TimersTyped, NEW t \in Requests, NEW us, NEW good \in BOOLEAN, Recorded(t, us, good)
  PROVE  TimersTyped' /\ t \notin Timed /\ Timed' = Timed \cup {t}
<1>1. PICK d \in {"done", "dead"} : timer' = [timer EXCEPT ![t] = d]
  BY Zenon DEF Recorded
<1>2. timer' \in [Requests -> TimerStates] /\ t \notin Timed /\ Timed' = Timed \cup {t}
  BY <1>1 DEF TimersTyped, TimerStates, Timed, Recorded
<1>3. ok' \subseteq Timed'
  BY <1>2 DEF TimersTyped, Recorded
<1> QED
  BY <1>2, <1>3 DEF TimersTyped

\* finish records the request of its timer (request_stats.h:92-98).
LEMMA FinishRecords ==
  ASSUME NEW t \in Requests, NEW good \in BOOLEAN, finish(t, good)
  PROVE  \E us \in Latencies : Recorded(t, us, good)
<1>1. PICK us \in Latencies : record(RouteOf[t], us, good) /\ took' = [took EXCEPT ![t] = us]
  BY Zenon DEF finish, RecordElapsed
<1>2. /\ timer[t] = "running" /\ timer' = [timer EXCEPT ![t] = "done"]
      /\ ok' = IF good THEN ok \cup {t} ELSE ok
  BY DEF finish
<1> QED
  BY <1>1, <1>2, Zenon DEF Recorded

\* The destructor records a request that was not finished.
LEMMA DestroyRecords ==
  ASSUME TimersTyped, NEW t \in Requests, DestroyTimer(t)
  PROVE  /\ NoneRecorded \/ \E us \in Latencies : Recorded(t, us, FALSE)
         /\ t \in Timed'
<1>1. timer' = [timer EXCEPT ![t] = "dead"] /\ ok' = ok /\ timer[t] \in {"running", "done"}
  BY DEF DestroyTimer
<1>2. timer \in [Requests -> TimerStates]
  BY DEF TimersTyped
<1>3. CASE timer[t] = "done" /\ UNCHANGED <<m_stats, took>>
  BY <1>1, <1>2, <1>3, Zenon DEF NoneRecorded, Timed, TimerStates
<1>4. CASE timer[t] # "done" /\ RecordElapsed(t, FALSE)
  <2>1. PICK us \in Latencies : record(RouteOf[t], us, FALSE) /\ took' = [took EXCEPT ![t] = us]
    BY <1>4, Zenon DEF RecordElapsed
  <2>2. timer[t] = "running" /\ ok' = IF FALSE THEN ok \cup {t} ELSE ok
    BY <1>1, <1>4
  <2>3. Recorded(t, us, FALSE)
    BY <1>1, <2>1, <2>2, Zenon DEF Recorded
  <2>4. t \in Timed'
    BY <1>1, <1>2 DEF Timed
  <2> QED
    BY <2>3, <2>4, Zenon
<1> QED
  BY <1>3, <1>4, Zenon DEF DestroyTimer, AlreadyDone

\* Every step of the composition records no request or one.
LEMMA StepRecords ==
  ASSUME TimersTyped, [PooledNext]_allVars
  PROVE  \/ NoneRecorded
         \/ \E t \in Requests, us \in Latencies, good \in BOOLEAN : Recorded(t, us, good)
<1>0. ASSUME UNCHANGED statsVars PROVE NoneRecorded
  BY <1>0 DEF NoneRecorded, statsVars, TimersTyped, Timed
<1>1. CASE Others \/ UNCHANGED allVars
  BY <1>0, <1>1 DEF Others, allVars
<1>2. ASSUME NEW w \in Workers, PoolStep(w) \/ BodySubmits(w) PROVE NoneRecorded
  BY <1>0, <1>2 DEF PoolStep, BodySubmits
<1>3. ASSUME NEW w \in Workers, BodyStarts(w) PROVE NoneRecorded
  BY <1>3 DEF BodyStarts, Runs, StartTimer, NoneRecorded, TimersTyped, TimerStates, Timed
<1>4. ASSUME NEW w \in Workers, BodyFinishes(w)
      PROVE  \E t \in Requests, us \in Latencies, good \in BOOLEAN : Recorded(t, us, good)
  <2>1. PICK good \in BOOLEAN : cur[w] \in Requests /\ finish(cur[w], good)
    BY <1>4 DEF BodyFinishes, Runs
  <2>2. PICK t \in Requests : t = cur[w]
    BY <2>1
  <2>3. \E us \in Latencies : Recorded(t, us, good)
    BY <2>1, <2>2, FinishRecords
  <2> QED
    BY <2>3, Zenon
<1>5. ASSUME NEW w \in Workers, BodyLeaves(w)
      PROVE  \/ NoneRecorded
             \/ \E t \in Requests, us \in Latencies, good \in BOOLEAN : Recorded(t, us, good)
  <2>1. CASE cur[w] \notin Requests
    BY <1>0, <1>5, <2>1 DEF BodyLeaves
  <2>2. CASE cur[w] \in Requests
    <3>1. PICK t \in Requests : t = cur[w] /\ DestroyTimer(t)
      BY <1>5, <2>2 DEF BodyLeaves
    <3>2. NoneRecorded \/ \E us \in Latencies : Recorded(t, us, FALSE)
      BY <3>1, DestroyRecords, Zenon
    <3> QED
      BY <3>2, Zenon
  <2> QED
    BY <2>1, <2>2
<1> QED
  BY <1>1, <1>2, <1>3, <1>4, <1>5, Zenon DEF PooledNext, Worker

AllSound ==
  /\ TimersTyped /\ took \in [Requests -> Nat] /\ m_stats \in [Routes -> Numbers]
  /\ \A r \in Routes : Sound(m_stats[r], took, TimedOn(r))

\* record changes one route, to After, and keeps every route sound.
LEMMA RecordKeeps ==
  ASSUME AllSound, NEW t \in Requests, NEW us \in Latencies, NEW good \in BOOLEAN, Recorded(t, us, good)
  PROVE  AllSound'
<1>1. PICK k \in Routes : k = RouteOf[t]
  BY StatsAssumption
<1>2. m_stats' = [m_stats EXCEPT ![k] = After(m_stats[k], us, good)] /\ took' = [took EXCEPT ![t] = us]
  BY <1>1 DEF Recorded, record
<1>3. TimersTyped' /\ t \notin Timed /\ Timed' = Timed \cup {t}
  BY RecordedTimes DEF AllSound
<1>4. /\ TimedOn(k)' = TimedOn(k) \cup {t} /\ t \notin TimedOn(k)
      /\ \A r \in Routes \ {k} : TimedOn(r)' = TimedOn(r) /\ t \notin TimedOn(r)
      /\ \A r \in Routes : TimedOn(r) \subseteq Requests
  BY <1>1, <1>3 DEF TimedOn, Timed
<1>5. us \in Nat /\ took \in [Requests -> Nat] /\ took' \in [Requests -> Nat]
  BY <1>2, StatsAssumption DEF AllSound
<1>6. Sound(After(m_stats[k], us, good), took', TimedOn(k)')
  <2>1. PICK s, f, R, g : s = m_stats[k] /\ f = took /\ R = TimedOn(k) /\ g = took'
    BY Zenon
  <2>2. Sound(s, f, R) /\ f \in [Requests -> Nat] /\ R \subseteq Requests /\ t \notin R /\ g = [f EXCEPT ![t] = us]
    BY <1>2, <1>4, <1>5, <2>1, Zenon DEF AllSound
  <2>3. Sound(After(s, us, good), g, R \cup {t})
    BY <2>2, RecordSound, Zenon
  <2> QED
    BY <1>4, <2>1, <2>3, Zenon
<1>7. ASSUME NEW r \in Routes, r # k PROVE Sound(m_stats[r], took', TimedOn(r)')
  <2>1. PICK s, f, R, g : s = m_stats[r] /\ f = took /\ R = TimedOn(r) /\ g = took'
    BY Zenon
  <2>2. Sound(s, f, R) /\ R \subseteq Requests /\ \A x \in R : g[x] = f[x]
    <3>1. Sound(s, f, R) /\ R \subseteq Requests /\ t \notin R
      BY <1>4, <1>7, <2>1, Zenon DEF AllSound
    <3>2. \A x \in R : g[x] = f[x]
      BY <1>2, <1>5, <2>1, <3>1
    <3> QED
      BY <3>1, <3>2
  <2>3. Sound(s, g, R)
    BY <2>2, SoundSame
  <2> QED
    BY <1>4, <1>7, <2>1, <2>3, Zenon
<1>8. After(m_stats[k], us, good) \in Numbers
  BY <1>6 DEF Sound
<1>9. m_stats \in [Routes -> Numbers] /\ m_stats' \in [Routes -> Numbers]
  BY <1>2, <1>8 DEF AllSound
<1>10. m_stats'[k] = After(m_stats[k], us, good) /\ \A r \in Routes : r # k => m_stats'[r] = m_stats[r]
  BY <1>2, <1>9
<1>11. \A r \in Routes : Sound(m_stats'[r], took', TimedOn(r)')
  BY <1>6, <1>7, <1>10, Zenon
<1> QED
  BY <1>3, <1>5, <1>9, <1>11 DEF AllSound

\* Every step of the composition keeps all routes sound.
LEMMA StatsStep == AllSound /\ [PooledNext]_allVars => AllSound'
<1> SUFFICES ASSUME AllSound, [PooledNext]_allVars PROVE AllSound'
  OBVIOUS
<1>1. CASE NoneRecorded
  <2>1. UNCHANGED <<m_stats, took, ok, Timed>> /\ TimersTyped'
    BY <1>1 DEF NoneRecorded, AllSound, TimersTyped
  <2>2. \A r \in Routes : TimedOn(r)' = TimedOn(r)
    BY <2>1 DEF TimedOn
  <2> QED
    BY <2>1, <2>2 DEF AllSound
<1>2. CASE ~NoneRecorded
  <2>1. PICK t \in Requests, us \in Latencies, good \in BOOLEAN : Recorded(t, us, good)
    BY <1>2, StepRecords DEF AllSound
  <2> QED
    BY <2>1, RecordKeeps
<1> QED
  BY <1>1, <1>2

\* Nothing is recorded in a new pool.
LEMMA StatsSoundInit == PooledInit => AllSound
<1> SUFFICES ASSUME PooledInit PROVE AllSound
  OBVIOUS
<1>1. /\ timer = [t \in Requests |-> "none"] /\ ok = {} /\ m_stats = [r \in Routes |-> RouteStats]
      /\ took = [t \in Requests |-> 0]
  BY DEF PooledInit, StatsInit
<1>2. Timed = {} /\ \A r \in Routes : TimedOn(r) = {}
  BY <1>1 DEF Timed, TimedOn
<1>3. TimersTyped /\ took \in [Requests -> Nat]
  BY <1>1, <1>2 DEF TimersTyped, TimerStates
<1>4. Sound(RouteStats, took, {})
  <2>1. Cardinality({}) = 0 /\ SumOver(took, {}) = 0
    <3>1. PICK f : f = took
      BY Zenon
    <3> QED
      BY <3>1, FS_EmptySet, SumEmpty
  <2>2. UINT64_MAX \in Nat
    BY StatsAssumption
  <2>3. 0 * UINT64_MAX <= 0 /\ 0 <= 0 * 0 /\ 0 <= 0 /\ 0 \in Nat
    BY <2>2, SMT
  <2>4. /\ RouteStats.requests = 0 /\ RouteStats.errors = 0 /\ RouteStats.total_us = 0
        /\ RouteStats.min_us = UINT64_MAX /\ RouteStats.max_us = 0
    BY SMT DEF RouteStats
  <2>5. RouteStats \in Numbers
    BY <2>2, SMT DEF RouteStats, Numbers
  <2>6. \A x \in {} : FALSE
    OBVIOUS
  <2> HIDE DEF RouteStats
  <2> QED
    BY <2>1, <2>3, <2>4, <2>5, <2>6, Zenon DEF Sound
<1> QED
  BY <1>1, <1>2, <1>3, <1>4 DEF AllSound, Sound

\* In every snapshot of the statistics the extremes of a used route are those
\* of its requests and the mean lies between them unless the sum overflowed,
\* for every set of requests, routes and latencies.
THEOREM SnapshotsConsistent == PooledSpec => []MeanBetween
<1>1. AllSound => MeanBetween
  <2> SUFFICES ASSUME AllSound, NEW r \in Routes, {took[t] : t \in TimedOn(r)} # {}
               PROVE  LET s == m_stats[r]  us == {took[t] : t \in TimedOn(r)} IN
                      /\ {s.min_us, s.max_us} \subseteq us
                      /\ \A u \in us : s.min_us <= u /\ u <= s.max_us
                      /\ SumOver(took, TimedOn(r)) <= UINT64_MAX =>
                           s.requests * s.min_us <= s.total_us /\ s.total_us <= s.requests * s.max_us
    BY Zenon DEF MeanBetween
  <2>1. Sound(m_stats[r], took, TimedOn(r)) /\ TimedOn(r) # {}
    BY DEF AllSound
  <2>2. \A u \in {took[t] : t \in TimedOn(r)} : m_stats[r].min_us <= u /\ u <= m_stats[r].max_us
    BY <2>1 DEF Sound
  <2>3. {m_stats[r].min_us, m_stats[r].max_us} \subseteq {took[t] : t \in TimedOn(r)}
    BY <2>1 DEF Sound
  <2>4. SumOver(took, TimedOn(r)) <= UINT64_MAX =>
          /\ m_stats[r].requests * m_stats[r].min_us <= m_stats[r].total_us
          /\ m_stats[r].total_us <= m_stats[r].requests * m_stats[r].max_us
    BY <2>1, Zenon DEF Sound
  <2> QED
    BY <2>2, <2>3, <2>4, Zenon
<1> QED
  BY <1>1, StatsSoundInit, StatsStep, PTL DEF PooledSpec

-----------------------------------------------------------------------------
(* Counting requests.  A task past its body has been timed.                *)

PastBody(w) == pc[w] \in {"ending", "publish"}

\* The numbers of total_requests and total_errors before they are cut to a
\* uint64_t.
AllRequests == SumOver([r \in Routes |-> m_stats[r].requests], Routes)
AllErrors == SumOver([r \in Routes |-> m_stats[r].errors], Routes)

Counted == AllRequests = Cardinality(Timed) /\ AllErrors = Cardinality(Timed \ ok)

CountInv ==
  /\ Counted
  /\ \A w \in Workers : PastBody(w) /\ cur[w] \in Requests => cur[w] \in Timed
  /\ Ready \cap Requests \subseteq Timed

\* f and g agree on S but for y, where g is larger by d.
LargerAt(f, g, S, y, d) ==
  /\ IsFiniteSet(S) /\ y \in S /\ d \in Nat
  /\ \A x \in S : f[x] \in Nat
  /\ \A x \in S \ {y} : g[x] = f[x]
  /\ g[y] = f[y] + d

\* One value of a sum grows by d, and so does the sum.
LEMMA SumOneMore ==
  ASSUME NEW f, NEW g, NEW S, NEW y, NEW d, LargerAt(f, g, S, y, d)
  PROVE  SumOver(g, S) = SumOver(f, S) + d
<1>0. /\ IsFiniteSet(S) /\ y \in S /\ d \in Nat
      /\ \A x \in S : f[x] \in Nat
      /\ \A x \in S \ {y} : g[x] = f[x]
      /\ g[y] = f[y] + d
  BY Zenon DEF LargerAt
<1>1. PICK a \in Nat : a = f[y]
  BY <1>0
<1>2. g[y] = a + d /\ a + d \in Int /\ (a + d) - a = d
  <2>1. g[y] = a + d
    BY <1>0, <1>1, Zenon
  <2>2. d \in Nat
    BY <1>0
  <2>3. a + d \in Int /\ (a + d) - a = d
    BY <2>2, SMT
  <2> QED
    BY <2>1, <2>3
<1>3. \A x \in S : f[x] \in Int /\ g[x] \in Int
  <2>1. \A n \in Nat : n \in Int
    OBVIOUS
  <2> QED
    BY <1>0, <1>2, <2>1, Zenon
<1>4. SumOver(g, S) = SumOver(f, S) + (g[y] - f[y])
  BY <1>0, <1>3, SumChange
<1> QED
  BY <1>1, <1>2, <1>4, Zenon

\* A recorded request adds one to its route's number, and so to the total.
LEMMA RecordCounts ==
  ASSUME AllSound, NEW t \in Requests, NEW us, NEW good \in BOOLEAN, Recorded(t, us, good)
  PROVE  /\ AllRequests' = AllRequests + 1
         /\ AllErrors' = AllErrors + (IF good THEN 0 ELSE 1)
<1>0. PICK r \in Routes : r = RouteOf[t]
  BY StatsAssumption
<1>1. m_stats \in [Routes -> Numbers] /\ m_stats' = [m_stats EXCEPT ![r] = After(m_stats[r], us, good)]
  BY <1>0 DEF AllSound, Recorded, record
<1>a. /\ Word(m_stats[r].requests + 1) = m_stats[r].requests + 1
      /\ Word(m_stats[r].errors + 1) = m_stats[r].errors + 1
  <2>1. PICK s, f, R : s = m_stats[r] /\ f = took /\ R = TimedOn(r)
    BY Zenon
  <2>2. Sound(s, f, R)
    BY <2>1, Zenon DEF AllSound
  <2>3. R \subseteq Requests /\ t \notin R
    <3>1. t \notin Timed
      BY RecordedTimes, Zenon DEF AllSound
    <3>2. R \subseteq Timed /\ Timed \subseteq Requests
      BY <2>1, Zenon DEF TimedOn, Timed
    <3> QED
      BY <3>1, <3>2, Zenon
  <2>4. Word(s.requests + 1) = s.requests + 1 /\ Word(s.errors + 1) = s.errors + 1
    BY <2>2, <2>3, CountersFit, Zenon
  <2> QED
    BY <2>1, <2>4, Zenon
<1>b. /\ m_stats'[r].requests = Word(m_stats[r].requests + 1)
      /\ m_stats'[r].errors = IF good THEN m_stats[r].errors ELSE Word(m_stats[r].errors + 1)
  BY <1>1 DEF After
<1>2. \A x \in Routes : m_stats[x].requests \in Nat /\ m_stats[x].errors \in Nat
  <2>1. \A s \in Numbers : s.requests \in Nat /\ s.errors \in Nat
    BY DEF Numbers
  <2> QED
    BY <1>1, <2>1, Zenon
<1>3. \A x \in Routes \ {r} : m_stats'[x] = m_stats[x]
  BY <1>1, Zenon
<1>4. m_stats'[r].requests = m_stats[r].requests + 1
  BY <1>a, <1>b, Zenon
<1>5. PICK d \in Nat : d = IF good THEN 0 ELSE 1
  OBVIOUS
<1>6. IsFiniteSet(Routes) /\ 1 \in Nat
  BY StatsAssumption
<1>7. m_stats'[r].errors = m_stats[r].errors + d
  <2>1. PICK e \in Nat : e = m_stats[r].errors
    BY <1>2, Zenon
  <2>2. CASE good
    <3>1. m_stats'[r].errors = e /\ d = 0
      BY <1>b, <1>5, <2>1, <2>2, Zenon
    <3>2. e + 0 = e
      BY SMT
    <3> QED
      BY <2>1, <3>1, <3>2, Zenon
  <2>3. CASE ~good
    <3>1. m_stats'[r].errors = e + 1 /\ d = 1
      BY <1>a, <1>b, <1>5, <2>1, <2>3, Zenon
    <3> QED
      BY <2>1, <3>1, Zenon
  <2> QED
    BY <2>2, <2>3
<1>8. AllRequests' = AllRequests + 1
  <2>1. PICK f : f = [x \in Routes |-> m_stats[x].requests]
    BY Zenon
  <2>2. PICK g : g = [x \in Routes |-> m_stats'[x].requests]
    BY Zenon
  <2>3. \A x \in Routes : f[x] = m_stats[x].requests /\ g[x] = m_stats'[x].requests
    BY <2>1, <2>2, Zenon
  <2>4. (\A x \in Routes : f[x] \in Nat) /\ (\A x \in Routes \ {r} : g[x] = f[x])
    BY <1>2, <1>3, <2>3, Zenon
  <2>5. g[r] = f[r] + 1
    BY <1>4, <2>3, Zenon
  <2>6. LargerAt(f, g, Routes, r, 1)
    BY <1>6, <2>4, <2>5, Zenon DEF LargerAt
  <2>7. SumOver(g, Routes) = SumOver(f, Routes) + 1
    BY <2>6, SumOneMore, SMT
  <2> QED
    BY <2>1, <2>2, <2>7, Zenon DEF AllRequests
<1>9. AllErrors' = AllErrors + d
  <2>1. PICK f : f = [x \in Routes |-> m_stats[x].errors]
    BY Zenon
  <2>2. PICK g : g = [x \in Routes |-> m_stats'[x].errors]
    BY Zenon
  <2>3. \A x \in Routes : f[x] = m_stats[x].errors /\ g[x] = m_stats'[x].errors
    BY <2>1, <2>2, Zenon
  <2>4. (\A x \in Routes : f[x] \in Nat) /\ (\A x \in Routes \ {r} : g[x] = f[x])
    BY <1>2, <1>3, <2>3, Zenon
  <2>5. g[r] = f[r] + d
    BY <1>7, <2>3, Zenon
  <2>6. LargerAt(f, g, Routes, r, d)
    BY <1>6, <2>4, <2>5, Zenon DEF LargerAt
  <2>7. SumOver(g, Routes) = SumOver(f, Routes) + d
    BY <2>6, SumOneMore, SMT
  <2> QED
    BY <2>1, <2>2, <2>7, Zenon DEF AllErrors
<1> QED
  BY <1>5, <1>8, <1>9, Zenon

\* One more timed request keeps both counts.
LEMMA TimedOneMore ==
  ASSUME AllSound, Counted, NEW t \in Requests, NEW us, NEW good \in BOOLEAN, Recorded(t, us, good)
  PROVE  Counted' /\ Timed \subseteq Timed' /\ t \in Timed'
<1>1. t \notin Timed /\ Timed' = Timed \cup {t} /\ ok \subseteq Timed
  BY RecordedTimes DEF AllSound, TimersTyped
<1>2. ok' = IF good THEN ok \cup {t} ELSE ok
  BY DEF Recorded
<1>3. AllRequests' = AllRequests + 1 /\ AllErrors' = AllErrors + (IF good THEN 0 ELSE 1)
  BY RecordCounts
<1>4. IsFiniteSet(Timed) /\ IsFiniteSet(Timed \ ok)
  <2>1. Timed \subseteq Requests /\ Timed \ ok \subseteq Requests
    BY DEF Timed
  <2> QED
    BY <2>1, StatsAssumption, FS_Subset
<1>5. Cardinality(Timed \cup {t}) = Cardinality(Timed) + 1
  BY <1>1, <1>4, FS_AddElement, Zenon
<1>6. Cardinality(Timed' \ ok') = Cardinality(Timed \ ok) + (IF good THEN 0 ELSE 1)
  <2>1. CASE good
    <3>1. Timed' \ ok' = Timed \ ok
      BY <1>1, <1>2, <2>1
    <3>2. Cardinality(Timed \ ok) \in Nat
      BY <1>4, FS_CardinalityType
    <3> QED
      BY <2>1, <3>1, <3>2
  <2>2. CASE ~good
    <3>1. Timed' \ ok' = (Timed \ ok) \cup {t} /\ t \notin Timed \ ok
      BY <1>1, <1>2, <2>2
    <3>2. Cardinality((Timed \ ok) \cup {t}) = Cardinality(Timed \ ok) + 1
      BY <1>4, <3>1, FS_AddElement, Zenon
    <3>3. Cardinality(Timed' \ ok') = Cardinality(Timed \ ok) + 1
      BY <3>1, <3>2, Zenon
    <3> QED
      BY <2>2, <3>3
  <2> QED
    BY <2>1, <2>2
<1>7. Cardinality(Timed') = Cardinality(Timed) + 1
  BY <1>1, <1>5, Zenon
<1> QED
  BY <1>1, <1>3, <1>6, <1>7 DEF Counted

\* Nothing is counted by a step that records nothing; the pool then only
\* delivers results of tasks that are past their body.
LEMMA PoolStepCounts ==
  ASSUME CountInv, NoneRecorded,
         \A w \in Workers : PastBody(w)' => PastBody(w) /\ cur'[w] = cur[w],
         \A t \in Ready' : t \in Ready \/ \E w \in Workers : PastBody(w) /\ cur[w] = t
  PROVE  CountInv'
<1>1. Timed' = Timed /\ UNCHANGED <<m_stats, ok>>
  BY DEF NoneRecorded
<1>2. Counted'
  BY <1>1 DEF Counted, AllRequests, AllErrors, CountInv
<1>3. \A w \in Workers : PastBody(w)' /\ cur'[w] \in Requests => cur'[w] \in Timed
  BY DEF CountInv
<1>4. Ready' \cap Requests \subseteq Timed
  BY DEF CountInv
<1> QED
  BY <1>1, <1>2, <1>3, <1>4, Zenon DEF CountInv

\* A body that leaves or finishes its timer moves no other worker past a body.
LEMMA BodyStepCounts ==
  ASSUME CountInv, NEW w \in Workers, Counted', Timed \subseteq Timed', cur' = cur, Ready' \subseteq Ready,
         cur[w] \in Requests /\ PastBody(w)' => cur[w] \in Timed',
         \A v \in Workers : v # w /\ PastBody(v)' => PastBody(v)
  PROVE  CountInv'
<1>1. \A v \in Workers : PastBody(v)' /\ cur'[v] \in Requests => cur'[v] \in Timed'
  BY DEF CountInv
<1>2. Ready' \cap Requests \subseteq Timed'
  BY DEF CountInv
<1> QED
  BY <1>1, <1>2, Zenon DEF CountInv

\* Every step keeps the counts.
LEMMA CountStep == PoolInv /\ AllSound /\ CountInv /\ [PooledNext]_allVars => CountInv'
<1> SUFFICES ASSUME PoolInv, AllSound, CountInv, [PooledNext]_allVars PROVE CountInv'
  OBVIOUS
<1>0. /\ TypeInv /\ [Next]_vars /\ pc \in [Workers -> PcStates] /\ cur \in [Workers -> Tasks \cup {NoTask}]
      /\ future \in [Tasks -> {"none", "value", "exception", "refused"}]
  BY PooledStepIsPoolStep DEF PoolInv, TypeInv, TypeOK, PcStates
<1>a. UNCHANGED statsVars => NoneRecorded
  BY DEF NoneRecorded, statsVars, Timed, AllSound, TimersTyped
<1>1. CASE Others
  <2>1. /\ UNCHANGED <<cur, future>> /\ UNCHANGED statsVars
        /\ \A w \in Workers : pc'[w] = pc[w] \/ pc'[w] = "loop"
    <3>1. ASSUME NEW c \in Clients, ClientNotify(c) PROVE \A w \in Workers : pc'[w] = pc[w] \/ pc'[w] = "loop"
      <4>1. pc' \in Woken(pc)
        BY <3>1 DEF ClientNotify
      <4> QED
        BY <1>0, <4>1, WokenEffect
    <3> QED
      BY <1>0, <1>1, <3>1 DEF Others, ClientSubmit, ClientNotify, SpuriousWakeup, SetStop, NotifyAll,
                              WokenByStop, JoinAndDestroy
  <2> QED
    BY <1>0, <1>a, <2>1, PoolStepCounts DEF PastBody, Ready
<1>2. CASE UNCHANGED allVars
  BY <1>0, <1>a, <1>2, PoolStepCounts DEF allVars, vars, PastBody, Ready
<1>3. ASSUME NEW w \in Workers, PoolStep(w) PROVE CountInv'
  <2>1. CASE WorkerWait(w) \/ WorkerExit(w) \/ WorkerTake(w) \/ BumpCompleted(w)
    <3>1. /\ UNCHANGED statsVars /\ UNCHANGED future
          /\ \A v \in Workers : v # w => pc'[v] = pc[v] /\ cur'[v] = cur[v]
          /\ PastBody(w)' => PastBody(w) /\ cur'[w] = cur[w]
      BY <1>0, <1>3, <2>1 DEF PoolStep, WorkerWait, WorkerExit, WorkerTake, BumpCompleted, PastBody
    <3> QED
      BY <1>0, <1>a, <3>1, PoolStepCounts DEF PastBody, Ready
  <2>2. CASE Publish(w)
    <3>1. /\ UNCHANGED statsVars /\ PastBody(w) /\ pc'[w] = "loop"
          /\ \A v \in Workers : v # w => pc'[v] = pc[v] /\ cur'[v] = cur[v]
          /\ \A t \in Tasks : t # cur[w] => future'[t] = future[t]
      BY <1>0, <1>3, <2>2 DEF PoolStep, Publish, PastBody
    <3> QED
      BY <1>0, <1>a, <3>1, PoolStepCounts, Zenon DEF PastBody, Ready
  <2> QED
    BY <1>3, <2>1, <2>2 DEF PoolStep
<1>4. ASSUME NEW w \in Workers, BodySubmits(w) PROVE CountInv'
  <2>1. /\ UNCHANGED statsVars /\ UNCHANGED <<cur, future>>
        /\ \A v \in Workers : pc'[v] = pc[v] \/ pc'[v] = "notify"
    BY <1>0, <1>4 DEF BodySubmits, NestedSubmit
  <2> QED
    BY <1>0, <1>a, <2>1, PoolStepCounts DEF PastBody, Ready
<1>5. ASSUME NEW w \in Workers, BodyStarts(w) PROVE CountInv'
  <2>1. UNCHANGED <<cur, future, pc>> /\ NoneRecorded
    BY <1>5 DEF BodyStarts, Runs, StartTimer, vars, NoneRecorded, AllSound, TimersTyped, TimerStates, Timed
  <2> QED
    BY <2>1, PoolStepCounts DEF PastBody, Ready
<1>6. ASSUME NEW w \in Workers, BodyFinishes(w) PROVE CountInv'
  <2>1. UNCHANGED <<cur, future, pc>> /\ cur[w] \in Requests
    BY <1>6 DEF BodyFinishes, Runs, vars
  <2>2. PICK t \in Requests : t = cur[w]
    BY <2>1
  <2>3. PICK good \in BOOLEAN : finish(t, good)
    BY <1>6, <2>2 DEF BodyFinishes
  <2>4. PICK us \in Latencies : Recorded(t, us, good)
    BY <2>3, FinishRecords
  <2>5. Counted' /\ Timed \subseteq Timed' /\ t \in Timed'
    BY <2>4, TimedOneMore DEF CountInv
  <2> QED
    BY <2>1, <2>2, <2>5, BodyStepCounts DEF PastBody, Ready
<1>7. ASSUME NEW w \in Workers, BodyLeaves(w) PROVE CountInv'
  <2>1. /\ cur' = cur /\ Ready' \subseteq Ready
        /\ \A v \in Workers : v # w => pc'[v] = pc[v] \/ pc'[v] = "loop"
    <3>1. CASE BodyEnds(w) \/ (m_stop /\ NestedSubmit(w))
      BY <1>0, <3>1 DEF BodyEnds, NestedSubmit, Ready
    <3>2. CASE NestedNotify(w)
      <4> DEFINE p == [pc EXCEPT ![w] = "ending"]
      <4>1. p \in [Workers -> PcStates] /\ pc' \in Woken(p) /\ UNCHANGED <<cur, future>>
        BY <1>0, <3>2 DEF PcStates, NestedNotify
      <4>2. \A v \in Workers : v # w => p[v] = pc[v]
        BY <1>0
      <4> HIDE DEF p
      <4>3. \A v \in Workers : pc'[v] = p[v] \/ (v \in Waiting /\ pc'[v] = "loop")
        BY <4>1, WokenEffect
      <4> QED
        BY <4>1, <4>2, <4>3 DEF Ready
    <3> QED
      BY <1>7, <3>1, <3>2 DEF BodyLeaves
  <2>2. CASE NoneRecorded /\ (cur[w] \in Requests => cur[w] \in Timed')
    <3>1. Counted' /\ Timed' = Timed
      BY <2>2 DEF NoneRecorded, CountInv, Counted, AllRequests, AllErrors
    <3> QED
      BY <2>1, <2>2, <3>1, BodyStepCounts DEF PastBody
  <2>3. CASE cur[w] \in Requests /\ ~NoneRecorded
    <3>1. PICK t \in Requests : t = cur[w]
      BY <2>3
    <3>2. DestroyTimer(t)
      BY <1>7, <3>1 DEF BodyLeaves
    <3>3. PICK us \in Latencies : Recorded(t, us, FALSE)
      BY <2>3, <3>2, DestroyRecords, Zenon DEF AllSound
    <3>4. Counted' /\ Timed \subseteq Timed' /\ t \in Timed'
      BY <3>3, TimedOneMore, Zenon DEF CountInv
    <3> QED
      BY <2>1, <3>1, <3>4, BodyStepCounts DEF PastBody
  <2>4. CASE cur[w] \notin Requests
    BY <1>7, <1>a, <2>2, <2>4 DEF BodyLeaves
  <2>5. CASE cur[w] \in Requests /\ NoneRecorded
    <3>1. PICK t \in Requests : t = cur[w]
      BY <2>5
    <3>2. t \in Timed'
      BY <1>7, <3>1, DestroyRecords, Zenon DEF BodyLeaves, AllSound
    <3> QED
      BY <2>2, <2>5, <3>1, <3>2
  <2> QED
    BY <2>3, <2>4, <2>5
<1> QED
  BY <1>1, <1>2, <1>3, <1>4, <1>5, <1>6, <1>7 DEF PooledNext, Worker

\* Nothing is counted in a new pool.
LEMMA CountInit == PooledInit => CountInv
<1> SUFFICES ASSUME PooledInit PROVE CountInv
  OBVIOUS
<1>1. timer = [t \in Requests |-> "none"] /\ ok = {} /\ m_stats = [r \in Routes |-> RouteStats]
  BY DEF PooledInit, StatsInit
<1>2. Timed = {} /\ Timed \ ok = {} /\ Ready = {} /\ \A w \in Workers : ~PastBody(w)
  BY <1>1 DEF PooledInit, Init, Timed, Ready, PastBody
<1>3. AllRequests = 0 /\ AllErrors = 0
  <2>1. PICK f : f = [r \in Routes |-> m_stats[r].requests]
    BY Zenon
  <2>2. PICK g : g = [r \in Routes |-> m_stats[r].errors]
    BY Zenon
  <2>3. (\A r \in Routes : f[r] = 0) /\ (\A r \in Routes : g[r] = 0)
    BY <1>1, <2>1, <2>2 DEF RouteStats
  <2>4. SumOver(f, Routes) = 0 /\ SumOver(g, Routes) = 0
    BY <2>3, StatsAssumption, SumZero
  <2> QED
    BY <2>1, <2>2, <2>4, Zenon DEF AllRequests, AllErrors
<1>4. Cardinality({}) = 0
  BY FS_EmptySet
<1> QED
  BY <1>2, <1>3, <1>4, Zenon DEF CountInv, Counted

\* A request is counted exactly once, before its future is ready, and as an
\* error unless finish(true) was called, however its body ends: for every
\* number of workers, requests and routes.
THEOREM RequestsCountedOnce == PooledSpec => []CountedOnce
<1>1. CountInv => CountedOnce
  <2> SUFFICES ASSUME CountInv PROVE CountedOnce
    OBVIOUS
  <2>1. Timed \subseteq Requests /\ Timed \ ok \subseteq Requests
    BY DEF Timed
  <2>2. PICK n, m : n = Cardinality(Timed) /\ m = Cardinality(Timed \ ok)
    BY Zenon
  <2>3. n \in Nat /\ n <= UINT64_MAX /\ m \in Nat /\ m <= UINT64_MAX
    <3>1. PICK T, E : T = Timed /\ E = Timed \ ok
      BY Zenon
    <3> QED
      BY <2>1, <2>2, <3>1, RequestsCountable
  <2>4. Word(n) = n /\ Word(m) = m
    BY <2>3, WordFits
  <2>5. AllRequests = n /\ AllErrors = m /\ Ready \cap Requests \subseteq Timed
    BY <2>2 DEF CountInv, Counted
  <2> QED
    BY <2>2, <2>4, <2>5, Zenon DEF CountedOnce, total_requests, total_errors, AllRequests, AllErrors
<1> QED
  BY <1>1, CountInit, CountStep, StatsSoundInit, StatsStep, TimingKeepsPool, PoolInductive, PTL DEF PooledSpec
=============================================================================
