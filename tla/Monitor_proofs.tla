--------------------------- MODULE Monitor_proofs ---------------------------
(***************************************************************************)
(* Lifetimes, ownership, the audit's alerts and the clients' answers in    *)
(* Monitor, for every set of clients, calls, descriptors and scenarios.    *)
(***************************************************************************)
EXTENDS Monitor, TLAPS

-----------------------------------------------------------------------------
(* Sequences, and sequences without repetition.                            *)

\* The elements of a sequence.
LEMMA RangeType ==
  ASSUME NEW S, NEW s \in Seq(S)
  PROVE  Range(s) \subseteq S
<1>1. \A k \in DOMAIN s : s[k] \in S
  BY SMT
<1> QED
  BY <1>1, Zenon DEF Range

\* Appending adds one element.
LEMMA AppendRange ==
  ASSUME NEW S, NEW s \in Seq(S), NEW e \in S
  PROVE  /\ Append(s, e) \in Seq(S) /\ Range(Append(s, e)) = Range(s) \cup {e}
         /\ IsInjective(s) /\ e \notin Range(s) => IsInjective(Append(s, e))
<1>1. /\ Append(s, e) \in Seq(S) /\ Len(s) \in Nat /\ DOMAIN s = 1..Len(s)
      /\ DOMAIN Append(s, e) = 1..Len(s)+1 /\ Append(s, e)[Len(s) + 1] = e
      /\ \A i \in 1..Len(s) : Append(s, e)[i] = s[i]
  OBVIOUS
<1>2. PICK t : t = Append(s, e)
  BY Zenon
<1>3. \A i : i \in 1..Len(s)+1 <=> i \in 1..Len(s) \/ i = Len(s) + 1
  BY <1>1
<1>4. Range(t) = Range(s) \cup {e}
  BY <1>1, <1>2, <1>3 DEF Range
<1>5. ASSUME IsInjective(s), e \notin Range(s) PROVE IsInjective(t)
  BY <1>1, <1>2, <1>3, <1>5 DEF Range, IsInjective
<1> QED
  BY <1>1, <1>2, <1>4, <1>5

\* The head and the rest.
LEMMA TailRange ==
  ASSUME NEW S, NEW s \in Seq(S), s # <<>>
  PROVE  /\ Head(s) \in S /\ Tail(s) \in Seq(S) /\ Range(s) = {Head(s)} \cup Range(Tail(s))
         /\ IsInjective(s) => Head(s) \notin Range(Tail(s)) /\ IsInjective(Tail(s))
<1>1. /\ Tail(s) \in Seq(S) /\ Len(s) \in Nat \ {0} /\ DOMAIN s = 1..Len(s) /\ Head(s) = s[1] /\ Head(s) \in S
      /\ DOMAIN Tail(s) = 1..Len(s)-1 /\ \A i \in 1..Len(s)-1 : Tail(s)[i] = s[i + 1]
  OBVIOUS
<1>2. PICK t : t = Tail(s)
  BY Zenon
<1>3. /\ \A i \in 1..Len(s) : i = 1 \/ (i - 1 \in 1..Len(s)-1 /\ (i - 1) + 1 = i)
      /\ \A i \in 1..Len(s)-1 : i + 1 \in 1..Len(s) /\ i + 1 # 1
      /\ \A i, j \in 1..Len(s)-1 : i + 1 = j + 1 => i = j
      /\ 1 \in 1..Len(s)
  BY <1>1
<1>4. \A i \in 1..Len(s) : s[i] = Head(s) \/ (i - 1 \in 1..Len(s)-1 /\ s[i] = t[i - 1])
  BY <1>1, <1>2, <1>3
<1>5. Range(s) = {Head(s)} \cup Range(t)
  <2>1. DOMAIN s = 1..Len(s) /\ DOMAIN t = 1..Len(s)-1 /\ s[1] = Head(s) /\ \A i \in 1..Len(s)-1 : t[i] = s[i + 1]
    BY <1>1, <1>2
  <2>2. ASSUME NEW x \in Range(s) PROVE x \in {Head(s)} \cup Range(t)
    BY <1>4, <2>1 DEF Range
  <2>3. ASSUME NEW x \in {Head(s)} \cup Range(t) PROVE x \in Range(s)
    BY <1>3, <2>1 DEF Range
  <2> QED
    BY <2>2, <2>3
<1>6. ASSUME IsInjective(s) PROVE Head(s) \notin Range(t) /\ IsInjective(t)
  BY <1>1, <1>2, <1>3, <1>6 DEF Range, IsInjective
<1> QED
  BY <1>1, <1>2, <1>5, <1>6

\* A concatenation holds the elements of both parts.
LEMMA ConcatRange ==
  ASSUME NEW S, NEW s \in Seq(S), NEW t \in Seq(S)
  PROVE  /\ s \o t \in Seq(S) /\ Range(s \o t) = Range(s) \cup Range(t)
         /\ IsInjective(s) /\ IsInjective(t) /\ Range(s) \cap Range(t) = {} => IsInjective(s \o t)
<1>1. /\ s \o t \in Seq(S) /\ Len(s) \in Nat /\ Len(t) \in Nat /\ DOMAIN s = 1..Len(s) /\ DOMAIN t = 1..Len(t)
      /\ DOMAIN (s \o t) = 1..Len(s)+Len(t)
      /\ \A i \in 1..Len(s)+Len(t) : (s \o t)[i] = IF i <= Len(s) THEN s[i] ELSE t[i - Len(s)]
  OBVIOUS
<1>2. PICK u : u = s \o t
  BY Zenon
<1>3. \A i \in 1..Len(s)+Len(t) : \/ i \in 1..Len(s) /\ u[i] = s[i]
                                  \/ i - Len(s) \in 1..Len(t) /\ u[i] = t[i - Len(s)]
  <2>1. \A i \in 1..Len(s)+Len(t) : u[i] = IF i <= Len(s) THEN s[i] ELSE t[i - Len(s)]
    BY <1>1, <1>2
  <2>2. \A i \in 1..Len(s)+Len(t) : IF i <= Len(s) THEN i \in 1..Len(s) ELSE i - Len(s) \in 1..Len(t)
    BY <1>1
  <2> QED
    BY <2>1, <2>2
<1>4. Range(u) = Range(s) \cup Range(t)
  <2>1. DOMAIN s = 1..Len(s) /\ DOMAIN t = 1..Len(t) /\ DOMAIN u = 1..Len(s)+Len(t)
    BY <1>1, <1>2
  <2>2. ASSUME NEW x \in Range(u) PROVE x \in Range(s) \cup Range(t)
    BY <1>3, <2>1, <2>2 DEF Range
  <2>3. ASSUME NEW i \in 1..Len(s) PROVE s[i] \in Range(u)
    <3>1. i \in 1..Len(s)+Len(t) /\ u[i] = s[i]
      BY <1>1, <1>2, <2>3
    <3> QED
      BY <2>1, <3>1 DEF Range
  <2>4. ASSUME NEW i \in 1..Len(t) PROVE t[i] \in Range(u)
    <3>1. i + Len(s) \in 1..Len(s)+Len(t) /\ u[i + Len(s)] = t[i]
      BY <1>1, <1>2, <2>4
    <3> QED
      BY <2>1, <3>1 DEF Range
  <2> QED
    BY <2>1, <2>2, <2>3, <2>4, Zenon DEF Range
<1>5. ASSUME IsInjective(s), IsInjective(t), Range(s) \cap Range(t) = {} PROVE IsInjective(u)
  <2> SUFFICES ASSUME NEW i \in DOMAIN u, NEW j \in DOMAIN u, u[i] = u[j] PROVE i = j
    BY DEF IsInjective
  <2>1. i \in 1..Len(s)+Len(t) /\ j \in 1..Len(s)+Len(t)
    BY <1>1, <1>2
  <2>2. \A k \in 1..Len(s) : s[k] \in Range(s)
    BY <1>1 DEF Range
  <2>3. \A k \in 1..Len(t) : t[k] \in Range(t)
    BY <1>1 DEF Range
  <2>4. CASE i \in 1..Len(s) /\ u[i] = s[i] /\ j \in 1..Len(s) /\ u[j] = s[j]
    BY <1>1, <1>5, <2>4, Zenon DEF IsInjective
  <2>5. CASE i - Len(s) \in 1..Len(t) /\ u[i] = t[i - Len(s)] /\ j - Len(s) \in 1..Len(t) /\ u[j] = t[j - Len(s)]
    <3>1. i - Len(s) = j - Len(s)
      BY <1>1, <1>5, <2>5, Zenon DEF IsInjective
    <3> QED
      BY <1>1, <2>1, <3>1
  <2> QED
    BY <1>3, <1>5, <2>1, <2>2, <2>3, <2>4, <2>5
<1> QED
  BY <1>1, <1>2, <1>4, <1>5

\* A segment of a sequence: its elements by position.
LEMMA SegmentElements ==
  ASSUME NEW S, NEW s \in Seq(S), NEW m \in Nat \ {0}, NEW n \in Nat, m <= n + 1, n <= Len(s)
  PROVE  /\ SubSeq(s, m, n) \in Seq(S) /\ Len(SubSeq(s, m, n)) = n + 1 - m
         /\ Range(SubSeq(s, m, n)) = {s[i] : i \in m..n}
         /\ IsInjective(s) => IsInjective(SubSeq(s, m, n))
<1>1. /\ SubSeq(s, m, n) \in Seq(S) /\ Len(SubSeq(s, m, n)) = n + 1 - m
      /\ DOMAIN SubSeq(s, m, n) = 1..n+1-m /\ DOMAIN s = 1..Len(s) /\ Len(s) \in Nat
      /\ \A i \in 1..n+1-m : SubSeq(s, m, n)[i] = s[m + i - 1]
  OBVIOUS
<1>2. PICK t : t = SubSeq(s, m, n)
  BY Zenon
<1>3. /\ \A i \in m..n : i \in 1..Len(s) /\ i - m + 1 \in 1..n+1-m /\ t[i - m + 1] = s[i]
      /\ \A i \in 1..n+1-m : m + i - 1 \in m..n /\ m + i - 1 \in 1..Len(s) /\ t[i] = s[m + i - 1]
  BY <1>1, <1>2
<1>4. Range(t) = {s[i] : i \in m..n}
  <2>1. DOMAIN t = 1..n+1-m
    BY <1>1, <1>2
  <2>2. ASSUME NEW x \in Range(t) PROVE x \in {s[i] : i \in m..n}
    <3>1. PICK i \in 1..n+1-m : x = t[i]
      BY <2>1, <2>2 DEF Range
    <3>2. m + i - 1 \in m..n /\ x = s[m + i - 1]
      BY <1>3, <3>1
    <3> QED
      BY <3>2
  <2>3. ASSUME NEW x \in {s[i] : i \in m..n} PROVE x \in Range(t)
    <3>1. PICK i \in m..n : x = s[i]
      BY <2>3
    <3>2. i - m + 1 \in DOMAIN t /\ t[i - m + 1] = x
      BY <1>3, <2>1, <3>1
    <3> QED
      BY <3>2 DEF Range
  <2> QED
    BY <2>2, <2>3
<1>5. ASSUME IsInjective(s) PROVE IsInjective(t)
  <2> SUFFICES ASSUME NEW i \in 1..n+1-m, NEW j \in 1..n+1-m, t[i] = t[j] PROVE i = j
    BY <1>1, <1>2, Zenon DEF IsInjective
  <2>1. s[m + i - 1] = s[m + j - 1] /\ m + i - 1 \in DOMAIN s /\ m + j - 1 \in DOMAIN s
    BY <1>1, <1>3
  <2>2. m + i - 1 = m + j - 1
    BY <1>5, <2>1, Zenon DEF IsInjective
  <2> QED
    BY <2>2
<1> QED
  BY <1>1, <1>2, <1>4, <1>5

\* A cut leaves every element on one side, and on one only when none repeats.
LEMMA SplitRange ==
  ASSUME NEW S, NEW s \in Seq(S), NEW n \in 0..Len(s)
  PROVE  /\ SubSeq(s, 1, n) \in Seq(S) /\ SubSeq(s, n + 1, Len(s)) \in Seq(S)
         /\ Len(SubSeq(s, 1, n)) = n /\ Len(SubSeq(s, n + 1, Len(s))) = Len(s) - n
         /\ Range(s) = Range(SubSeq(s, 1, n)) \cup Range(SubSeq(s, n + 1, Len(s)))
         /\ IsInjective(s) => /\ IsInjective(SubSeq(s, 1, n)) /\ IsInjective(SubSeq(s, n + 1, Len(s)))
                              /\ Range(SubSeq(s, 1, n)) \cap Range(SubSeq(s, n + 1, Len(s))) = {}
<1>1. n \in Nat /\ Len(s) \in Nat /\ n <= Len(s) /\ n + 1 \in Nat \ {0} /\ DOMAIN s = 1..Len(s)
  OBVIOUS
<1>2. PICK a : a = SubSeq(s, 1, n)
  BY Zenon
<1>3. PICK b : b = SubSeq(s, n + 1, Len(s))
  BY Zenon
<1>4. a \in Seq(S) /\ Len(a) = n /\ Range(a) = {s[i] : i \in 1..n} /\ (IsInjective(s) => IsInjective(a))
  <2>1. 1 \in Nat \ {0} /\ 1 <= n + 1 /\ n + 1 - 1 = n
    BY <1>1
  <2>2. /\ SubSeq(s, 1, n) \in Seq(S) /\ Len(SubSeq(s, 1, n)) = n + 1 - 1
        /\ Range(SubSeq(s, 1, n)) = {s[i] : i \in 1..n}
        /\ IsInjective(s) => IsInjective(SubSeq(s, 1, n))
    BY <1>1, <2>1, SegmentElements
  <2> QED
    BY <1>2, <2>1, <2>2, Zenon
<1>5. b \in Seq(S) /\ Len(b) = Len(s) - n /\ Range(b) = {s[i] : i \in n+1..Len(s)} /\ (IsInjective(s) => IsInjective(b))
  <2>1. PICK m \in Nat : m = n + 1
    BY <1>1
  <2>2. m \in Nat \ {0} /\ m <= Len(s) + 1 /\ Len(s) + 1 - m = Len(s) - n
    <3>1. Len(s) \in Nat /\ n <= Len(s) /\ n \in Nat
      BY <1>1
    <3> QED
      BY <2>1, <3>1
  <2>3. b = SubSeq(s, m, Len(s))
    BY <1>3, <2>1, Zenon
  <2>4. b \in Seq(S) /\ Len(b) = Len(s) + 1 - m /\ Range(b) = {s[i] : i \in m..Len(s)} /\ (IsInjective(s) => IsInjective(b))
    <3>1. PICK k : k = Len(s)
      OBVIOUS
    <3>2. k \in Nat /\ m <= k + 1 /\ k <= Len(s)
      BY <1>1, <2>2, <3>1
    <3>3. /\ SubSeq(s, m, k) \in Seq(S) /\ Len(SubSeq(s, m, k)) = k + 1 - m
          /\ Range(SubSeq(s, m, k)) = {s[i] : i \in m..k}
          /\ IsInjective(s) => IsInjective(SubSeq(s, m, k))
      BY <2>2, <3>2, SegmentElements
    <3> QED
      BY <2>3, <3>1, <3>3, Zenon
  <2>5. Range(b) = {s[i] : i \in n+1..Len(s)}
    BY <2>1, <2>4, Zenon
  <2> QED
    BY <2>2, <2>4, <2>5, Zenon
<1>6. \A i : i \in 1..Len(s) <=> i \in 1..n \/ i \in n+1..Len(s)
  BY <1>1
<1>7. \A i \in 1..n : \A j \in n+1..Len(s) : i # j
  BY <1>1
<1>8. Range(s) = Range(a) \cup Range(b)
  BY <1>1, <1>4, <1>5, <1>6, Zenon DEF Range
<1>9. ASSUME IsInjective(s) PROVE Range(a) \cap Range(b) = {}
  <2> SUFFICES ASSUME NEW i \in 1..n, NEW j \in n+1..Len(s), s[i] = s[j] PROVE FALSE
    BY <1>4, <1>5
  <2>1. i \in DOMAIN s /\ j \in DOMAIN s /\ i # j
    BY <1>1, <1>6, <1>7
  <2> QED
    BY <1>9, <2>1, Zenon DEF IsInjective
<1> QED
  BY <1>2, <1>3, <1>4, <1>5, <1>8, <1>9

-----------------------------------------------------------------------------
(* The order of the locals of run_monitor.                                 *)

\* The positions in Steps that the arguments below rely on.
LEMMA StepOrder ==
  /\ Len(Steps) = 12
  /\ Steps[7] = "reporter" /\ Steps[8] = "http_srv"
  /\ \A i \in 1..12 : /\ (Steps[i] = "http_srv") = (i = 8)
                      /\ (Steps[i] = "start") = (i = 9)
                      /\ (Steps[i] = "http_thread") = (i = 10)
<1>1. \A i \in 1..12 : \/ i = 1 \/ i = 2 \/ i = 3 \/ i = 4 \/ i = 5 \/ i = 6
                       \/ i = 7 \/ i = 8 \/ i = 9 \/ i = 10 \/ i = 11 \/ i = 12
  OBVIOUS
<1> QED
  BY <1>1 DEF Steps

\* The steps of run_monitor that are done and not undone.
Done(n) == {Steps[i] : i \in 1..n}

Objects == {"tcp_obj", "audit_obj"}

\* Constructing one more local adds its step.
LEMMA DoneNext ==
  ASSUME NEW n \in Nat
  PROVE  Done(n + 1) = Done(n) \cup {Steps[n + 1]}
<1>1. \A i : i \in 1..n+1 <=> i \in 1..n \/ i = n + 1
  OBVIOUS
<1> QED
  BY <1>1 DEF Done

-----------------------------------------------------------------------------
(* Lifetimes.  Each thread, socket and kernel object exists only while the *)
(* local that owns it does.                                                *)

LifeInv ==
  /\ at \in 0..12
  /\ mpc = "build" => at < 12 /\ failedAt = "none"
  /\ mpc \in {"loop", "audit", "stopped"} => at = 12
  /\ mpc = "ended" => at = 0
  /\ hpc \notin {"none", "exited"} => at >= 10
  /\ sockets # {} => at >= 8
  /\ mpc # "aborted" => held \subseteq Done(at) \cup ({failedAt} \cap Objects)

\* Nothing exists when run_monitor begins.
LEMMA LifeInit == Init => LifeInv
  BY DEF Init, HttpInit, LifeInv

\* A step of the server thread happens inside run() and opens no socket of
\* the server.
LEMMA ServerLife ==
  ASSUME NEW limit, NEW fails, ServerStep(limit, fails)
  PROVE  hpc \notin {"none", "exited"} /\ (sockets' = sockets \/ sockets' = {})
<1>1. CASE EpollWait \/ Dispatch \/ LeaveRun
  BY <1>1, Zenon DEF EpollWait, Dispatch, LeaveRun
<1>2. CASE AcceptOne(limit) \/ AcceptBreak(limit, fails)
  BY <1>2 DEF AcceptOne, AcceptBreak
<1>3. CASE ReadData \/ ReadAgain \/ ReadEnd \/ Respond
  BY <1>3 DEF ReadData, ReadAgain, ReadEnd, Respond, close_client
<1> QED
  BY <1>1, <1>2, <1>3 DEF ServerStep

\* Every step keeps each object within the life of its owner.
LEMMA LifeStep == LifeInv /\ [Next]_vars => LifeInv'
<1> SUFFICES ASSUME LifeInv, [Next]_vars PROVE LifeInv'
  OBVIOUS
<1>1. CASE Build
  <2> DEFINE step == Steps[at + 1]
  <2>1. /\ mpc = "build" /\ at' = at + 1 /\ mpc' = (IF at' = Len(Steps) THEN "loop" ELSE "build")
        /\ held' = held \cup ({step} \cap Owners) /\ UNCHANGED failedAt
    BY <1>1 DEF Build
  <2>2. at + 1 \in 1..12 /\ at \in Nat /\ failedAt = "none"
    BY <2>1 DEF LifeInv
  <2>3. /\ hpc' # hpc => step = "http_thread"
        /\ sockets' # sockets => step = "start"
    BY <1>1 DEF Build, start, httpVars, serverVars
  <2>4. (step = "http_thread" => at' = 10) /\ (step = "start" => at' = 9)
    BY <2>1, <2>2, StepOrder
  <2>5. held' \subseteq Done(at') \cup ({failedAt'} \cap Objects)
    BY <2>1, <2>2, DoneNext DEF LifeInv
  <2> HIDE DEF step
  <2>6. (hpc' \notin {"none", "exited"} => at' >= 10) /\ (sockets' # {} => at' >= 8)
    BY <2>1, <2>2, <2>3, <2>4 DEF LifeInv
  <2> QED
    BY <2>1, <2>2, <2>5, <2>6, StepOrder DEF LifeInv
<1>2. CASE BuildThrows
  <2> DEFINE step == Steps[at + 1]
  <2>1. /\ mpc = "build" /\ mpc' = "unwind" /\ failedAt' = step /\ UNCHANGED at
        /\ held' \in HeldAfterThrow(step)
    BY <1>2 DEF BuildThrows
  <2>2. at + 1 \in 1..12 /\ at \in Nat /\ failedAt = "none"
    BY <2>1 DEF LifeInv
  <2>3. hpc' = hpc /\ (sockets' # sockets => step = "start")
    BY <1>2 DEF BuildThrows, start_throws, httpVars, serverVars
  <2>4. step = "start" => at = 8
    BY <2>2, StepOrder
  <2> HIDE DEF step
  <2>5. held \subseteq Done(at)
    BY <2>1, <2>2 DEF LifeInv, Objects
  <2>6. held' \subseteq Done(at') \cup ({failedAt'} \cap Objects)
    BY <2>1, <2>5, Zenon DEF HeldAfterThrow, Objects
  <2> QED
    BY <2>1, <2>2, <2>3, <2>4, <2>6 DEF LifeInv
<1>3. CASE PollTcp \/ PollAudit \/ StopServer \/ ForgetReporter \/ UnwindNothing
  <2>1. /\ UNCHANGED <<at, held, failedAt, hpc, sockets>>
        /\ \/ mpc \in {"loop", "audit", "stopped"} /\ mpc' \in {"loop", "audit", "stopped", "unwind"}
           \/ mpc = "unwind" /\ mpc' = "ended" /\ at = 0
    BY <1>3 DEF PollTcp, PollAudit, StopServer, stop, ForgetReporter, UnwindNothing, Goto,
                httpVars, serverVars
  <2> QED
    BY <2>1 DEF LifeInv
<1>4. CASE Unwind
  <2> DEFINE step == Steps[at]
  <2>1. /\ mpc = "unwind" /\ at > 0 /\ at' = at - 1 /\ held' = held \ {step}
        /\ mpc' = (IF at' = 0 THEN "ended" ELSE "unwind") /\ UNCHANGED failedAt
    BY <1>4 DEF Unwind, Released
  <2>2. at \in 1..12 /\ at - 1 \in Nat /\ (at - 1) + 1 = at
    BY <2>1 DEF LifeInv
  <2>3. hpc' = hpc /\ (sockets' = sockets \/ sockets' = {}) /\ (step = "http_srv" => sockets' = {})
    BY <1>4 DEF Unwind, CloseServer, httpVars, serverVars
  <2>4. step = "http_thread" => hpc = "exited"
    BY <1>4 DEF Unwind, MayDestroy
  <2>5. (at = 10 => step = "http_thread") /\ (at = 8 => step = "http_srv")
    BY <2>2, StepOrder
  <2>6. Done(at) = Done(at - 1) \cup {step}
    BY <2>2, DoneNext
  <2> HIDE DEF step
  <2>7. held' \subseteq Done(at') \cup ({failedAt'} \cap Objects)
    BY <2>1, <2>6 DEF LifeInv
  <2>8. (hpc' \notin {"none", "exited"} => at' >= 10) /\ (sockets' # {} => at' >= 8)
    BY <2>1, <2>2, <2>3, <2>4, <2>5 DEF LifeInv
  <2> QED
    BY <2>1, <2>2, <2>7, <2>8 DEF LifeInv
<1>5. CASE HttpThread
  <2>1. CASE ServerStep(scenario.limit, scenario.fails) /\ UNCHANGED <<auditVars, mainVars>>
    <3>1. hpc \notin {"none", "exited"} /\ (sockets' = sockets \/ sockets' = {})
      BY <2>1, ServerLife
    <3>2. UNCHANGED <<at, mpc, held, failedAt>>
      BY <2>1 DEF mainVars
    <3> QED
      BY <3>1, <3>2 DEF LifeInv
  <2>2. CASE ServerThrows
    BY <2>2 DEF ServerThrows, httpVars, serverVars, LifeInv
  <2> QED
    BY <1>5, <2>1, <2>2 DEF HttpThread
<1>6. CASE (\E k \in Calls : AuditCpu(k)) \/ OnSignal \/ Environment \/ UNCHANGED vars
  <2>1. UNCHANGED <<at, mpc, held, failedAt, hpc, sockets>>
    <3>1. CASE \E k \in Calls : AuditCpu(k)
      BY <3>1 DEF AuditCpu, httpVars, serverVars, mainVars
    <3>2. CASE OnSignal
      BY <3>2 DEF OnSignal, httpVars, serverVars
    <3>3. CASE Environment
      BY <3>3 DEF Environment, Connect, SendSegment, HangUp, httpVars, serverVars, mainVars
    <3>4. CASE UNCHANGED vars
      BY <3>4 DEF vars, httpVars, serverVars, mainVars
    <3> QED
      BY <1>6, <3>1, <3>2, <3>3, <3>4
  <2> QED
    BY <2>1 DEF LifeInv
<1> QED
  BY <1>1, <1>2, <1>3, <1>4, <1>5, <1>6 DEF Next, MainStep

\* Neither the server thread nor a callback ever reaches a destroyed local.
THEOREM NoDanglingReference == Spec => []NeverTouchesDead
<1>1. LifeInv => NeverTouchesDead
  <2> SUFFICES ASSUME LifeInv, at >= 10 PROVE Built("reporter") /\ Built("http_srv")
    BY DEF LifeInv, NeverTouchesDead
  <2>1. 7 \in 1..at /\ 8 \in 1..at
    BY DEF LifeInv
  <2> QED
    BY <2>1, StepOrder DEF Built
<1> QED
  BY <1>1, LifeInit, LifeStep, PTL DEF Spec

\* Whatever ends run_monitor, nothing stays open or attached, but for an
\* object whose load failed.
THEOREM EverythingReleased == Spec => []AllReleased
<1>1. LifeInv => AllReleased
  <2> SUFFICES ASSUME LifeInv, mpc = "ended"
               PROVE  sockets = {} /\ held \subseteq ({failedAt} \cap {"tcp_obj", "audit_obj"})
    BY DEF AllReleased
  <2>1. at = 0 /\ Done(0) = {}
    BY DEF LifeInv, Done
  <2> QED
    BY <2>1 DEF LifeInv, Objects
<1> QED
  BY <1>1, LifeInit, LifeStep, PTL DEF Spec

-----------------------------------------------------------------------------
(* Read buffers.  Only handle_client has a buffer with data in it, that of *)
(* its own descriptor, so a number given to the next client starts empty.  *)

BufferInv ==
  /\ read_bufs_ = [f \in Fds |-> read_bufs_[f]] /\ open = [f \in Fds |-> open[f]]
  /\ hpc \notin {"read", "handle"} => cur = None
  /\ BuffersOwn

\* All buffers are empty before the server runs.
LEMMA BufferInit == Init => BufferInv
  BY DEF Init, HttpInit, BufferInv, BuffersOwn

\* Between two calls of handle_client no buffer holds data.
LEMMA EmptyBetween ==
  ASSUME BufferInv, hpc \notin {"read", "handle"}
  PROVE  \A f \in Fds : read_bufs_[f] = {}
  BY FdAssumption DEF BufferInv, BuffersOwn

\* close_client leaves no data behind (async_server.h:120-124).
LEMMA CloseErases == BufferInv /\ close_client => BufferInv'
<1> SUFFICES ASSUME BufferInv, close_client PROVE BufferInv'
  OBVIOUS
<1>1. /\ read_bufs_' = [read_bufs_ EXCEPT ![cur] = {}] /\ open' = [open EXCEPT ![cur] = None]
      /\ cur' = None /\ hpc' = "run"
  BY DEF close_client, Erased
<1>2. \A f \in Fds : read_bufs_'[f] = {}
  <2>1. \A f \in Fds : f # cur => read_bufs_[f] = {}
    BY DEF BufferInv, BuffersOwn
  <2> QED
    BY <1>1, <2>1 DEF BufferInv
<1>3. read_bufs_' = [f \in Fds |-> read_bufs_'[f]] /\ open' = [f \in Fds |-> open'[f]]
  BY <1>1, Zenon DEF BufferInv
<1> QED
  BY <1>1, <1>2, <1>3 DEF BufferInv, BuffersOwn

\* A step of the server thread mixes no two clients' data.
LEMMA ServerBuffers == ASSUME NEW limit, NEW fails, BufferInv, ServerStep(limit, fails) PROVE BufferInv'
<1>1. CASE EpollWait \/ LeaveRun \/ AcceptBreak(limit, fails)
  <2>1. UNCHANGED <<read_bufs_, open, cur>> /\ hpc' \notin {"read", "handle"} /\ hpc \notin {"read", "handle"}
    BY <1>1, Zenon DEF EpollWait, LeaveRun, AcceptBreak
  <2> QED
    BY <2>1 DEF BufferInv, BuffersOwn
<1>2. CASE Dispatch
  <2>1. /\ UNCHANGED <<read_bufs_, open>> /\ hpc = "run"
        /\ hpc' \notin {"read", "handle"} => cur' = cur
    BY <1>2 DEF Dispatch
  <2>2. \A f \in Fds : read_bufs_'[f] = {}
    BY <2>1, EmptyBetween
  <2> QED
    BY <2>1, <2>2 DEF BufferInv, BuffersOwn
<1>3. CASE AcceptOne(limit)
  <2>1. /\ UNCHANGED <<read_bufs_, cur>> /\ hpc = "accept" /\ hpc' = "accept"
        /\ \E f \in limit : open' = [open EXCEPT ![f] = Head(backlog)]
    BY <1>3, Zenon DEF AcceptOne, AfterAccept
  <2>2. \A f \in Fds : read_bufs_'[f] = {}
    BY <2>1, EmptyBetween
  <2>3. open' = [f \in Fds |-> open'[f]]
    BY <2>1 DEF BufferInv
  <2> QED
    BY <2>1, <2>2, <2>3 DEF BufferInv, BuffersOwn
<1>4. CASE ReadData
  <2> DEFINE new == {<<open[cur], i>> : i \in peer[open[cur]].got + 1 .. peer[open[cur]].sent}
  <2>1. /\ UNCHANGED <<open, cur>> /\ hpc = "read" /\ hpc' \in {"read", "handle"}
        /\ read_bufs_' = [read_bufs_ EXCEPT ![cur] = read_bufs_[cur] \cup new]
    BY <1>4 DEF ReadData
  <2>2. \A x \in new : x[1] = open[cur]
    OBVIOUS
  <2> HIDE DEF new
  <2>3. read_bufs_' = [f \in Fds |-> read_bufs_'[f]]
    BY <2>1 DEF BufferInv
  <2>4. \A f \in Fds : f # cur => read_bufs_'[f] = read_bufs_[f]
    BY <2>1 DEF BufferInv
  <2>5. cur \in Fds => read_bufs_'[cur] = read_bufs_[cur] \cup new
    BY <2>1 DEF BufferInv
  <2> QED
    BY <2>1, <2>2, <2>3, <2>4, <2>5 DEF BufferInv, BuffersOwn
<1>5. CASE ReadAgain
  <2>1. UNCHANGED <<read_bufs_, open, cur>> /\ hpc' = "handle"
    BY <1>5 DEF ReadAgain
  <2> QED
    BY <2>1 DEF BufferInv, BuffersOwn
<1>6. CASE ReadEnd \/ Respond
  BY <1>6, CloseErases DEF ReadEnd, Respond
<1> QED
  BY <1>1, <1>2, <1>3, <1>4, <1>5, <1>6 DEF ServerStep

\* No step lets data of two clients meet.
LEMMA BufferStep == LifeInv /\ BufferInv /\ [Next]_vars => BufferInv'
<1> SUFFICES ASSUME LifeInv, BufferInv, [Next]_vars PROVE BufferInv'
  OBVIOUS
<1>0. ASSUME UNCHANGED <<read_bufs_, open, cur>>, hpc' = hpc \/ (hpc' = "run" /\ cur = None)
      PROVE  BufferInv'
  BY <1>0 DEF BufferInv, BuffersOwn
<1>1. CASE Build
  <2>1. /\ UNCHANGED <<read_bufs_, open, cur>>
        /\ hpc' = hpc \/ (hpc' = "run" /\ Steps[at + 1] = "http_thread")
    BY <1>1 DEF Build, start, httpVars, serverVars
  <2>2. at + 1 \in 1..12 /\ (at + 1 = 10 => ~(at >= 10))
    BY <1>1 DEF Build, LifeInv
  <2>3. Steps[at + 1] = "http_thread" => hpc \notin {"read", "handle"}
    BY <2>2, StepOrder DEF LifeInv
  <2>4. Steps[at + 1] = "http_thread" => cur = None
    BY <2>3 DEF BufferInv
  <2> QED
    BY <1>0, <2>1, <2>4
<1>7. CASE BuildThrows \/ StopServer \/ Unwind
  <2>1. UNCHANGED <<read_bufs_, open, cur, hpc>>
    BY <1>7 DEF BuildThrows, StopServer, Unwind, start_throws, stop, CloseServer, httpVars, serverVars
  <2> QED
    BY <1>0, <2>1
<1>8. CASE PollTcp \/ PollAudit \/ ForgetReporter \/ UnwindNothing
  <2>1. UNCHANGED <<read_bufs_, open, cur, hpc>>
    BY <1>8 DEF PollTcp, PollAudit, ForgetReporter, UnwindNothing, httpVars, serverVars
  <2> QED
    BY <1>0, <2>1
<1>2. CASE HttpThread
  <2>1. CASE ServerStep(scenario.limit, scenario.fails)
    BY <2>1, ServerBuffers
  <2>2. CASE ServerThrows
    BY <1>0, <2>2 DEF ServerThrows, httpVars, serverVars
  <2> QED
    BY <1>2, <2>1, <2>2 DEF HttpThread
<1>3. CASE \E k \in Calls : AuditCpu(k)
  BY <1>0, <1>3 DEF AuditCpu, httpVars, serverVars
<1>4. CASE OnSignal
  BY <1>0, <1>4 DEF OnSignal, httpVars, serverVars
<1>5. CASE Environment
  BY <1>0, <1>5 DEF Environment, Connect, SendSegment, HangUp, httpVars, serverVars
<1>6. CASE UNCHANGED vars
  BY <1>0, <1>6 DEF vars, httpVars, serverVars
<1> QED
  BY <1>1, <1>2, <1>3, <1>4, <1>5, <1>6, <1>7, <1>8 DEF Next, MainStep

\* A read buffer holds data of its own client only.
THEOREM BuffersNeverMix == Spec => []BuffersOwn
<1>1. BufferInv => BuffersOwn
  BY DEF BufferInv
<1> QED
  BY <1>1, LifeInit, LifeStep, BufferInit, BufferStep, PTL DEF Spec

-----------------------------------------------------------------------------
(* The audit.  A call has a record exactly between its reserve and the     *)
(* alert, and the alert for ever after.                                    *)

Recorded(k) == \E i \in DOMAIN arb : arb[i].call = k
Suspected == {k \in Calls : is_suspicious(NrOf[k]) /\ ~Whitelisted(UidOf[k])}
Reportable(k) == k \in Suspected /\ k \notin dropped \cup missed

RingInv ==
  /\ AuditTypeOK /\ IsInjective(alerts)
  /\ \A i, j \in DOMAIN arb : arb[i].call = arb[j].call => i = j
  /\ \A i \in DOMAIN arb : apc[arb[i].call] = IF arb[i].busy THEN "fill" ELSE "done"
  /\ \A k \in Range(alerts) : apc[k] = "done" /\ ~Recorded(k)

CallInv ==
  /\ \A k \in dropped \cup missed : apc[k] = "done"
  /\ \A k \in Calls : apc[k] = "lookup" => is_suspicious(NrOf[k])
  /\ \A k \in Calls : apc[k] \in {"reserve", "fill"} => k \in Suspected
  /\ \A k \in Calls : apc[k] = "fill" => Recorded(k)
  /\ \A k \in Calls : apc[k] = "done" => ((k \in Range(alerts) \/ Recorded(k)) <=> Reportable(k))

AuditInv == RingInv /\ CallInv

Records == [call : Calls, busy : BOOLEAN]

\* What a position of the ring holds.
LEMMA RecordAt ==
  ASSUME AuditTypeOK
  PROVE  /\ arb \in Seq(Records) /\ Len(arb) \in Nat /\ DOMAIN arb = 1..Len(arb)
         /\ \A i \in DOMAIN arb : arb[i] \in Records /\ arb[i].call \in Calls
<1>1. arb \in Seq(Records)
  BY DEF AuditTypeOK, Records
<1>2. Len(arb) \in Nat /\ DOMAIN arb = 1..Len(arb) /\ \A i \in DOMAIN arb : arb[i] \in Records
  BY <1>1
<1>3. \A rec \in Records : rec.call \in Calls
  BY DEF Records
<1> QED
  BY <1>1, <1>2, <1>3

\* Nothing is recorded before the first call.
LEMMA AuditInitially == AuditInit => AuditInv
<1> SUFFICES ASSUME AuditInit PROVE AuditInv
  OBVIOUS
<1>1. DOMAIN arb = {} /\ DOMAIN alerts = {} /\ Range(alerts) = {}
  BY DEF AuditInit, Range
<1>2. AuditTypeOK
  BY AuditAssumption DEF AuditInit, AuditTypeOK
<1>3. \A k : ~Recorded(k)
  BY <1>1 DEF Recorded
<1> QED
  BY <1>1, <1>2, <1>3 DEF AuditInit, AuditInv, RingInv, CallInv, IsInjective

\* The types, and where a step of one call leaves the others.
LEMMA MoveOne ==
  ASSUME AuditInv, NEW k \in Calls, NEW where \in {"lookup", "reserve", "fill", "done"}, Move(k, where)
  PROVE  /\ apc' \in [Calls -> {"new", "lookup", "reserve", "fill", "done"}] /\ apc'[k] = where
         /\ \A c \in Calls : c # k => apc'[c] = apc[c]
BY DEF Move, AuditInv, RingInv, AuditTypeOK

\* A call that has not reached the ring has neither record nor alert.
LEMMA NotYet ==
  ASSUME AuditInv, NEW k \in Calls, apc[k] \notin {"fill", "done"}
  PROVE  ~Recorded(k) /\ k \notin Range(alerts) /\ k \notin dropped \cup missed
BY DEF AuditInv, RingInv, CallInv, Recorded

\* Steps that leave the ring and the alerts alone.
LEMMA CallMoves ==
  ASSUME AuditInv, NEW k \in Calls, apc[k] \notin {"fill", "done"},
         NEW where \in {"lookup", "reserve", "done"}, Move(k, where), UNCHANGED <<arb, alerts>>,
         dropped' \cup missed' \subseteq Calls, dropped \subseteq dropped', missed \subseteq missed',
         dropped' \cup missed' \subseteq dropped \cup missed \cup {k},
         k \in dropped' \cup missed' => where = "done",
         where = "lookup" => is_suspicious(NrOf[k]),
         where = "reserve" => k \in Suspected,
         where = "done" => k \notin Suspected \/ k \in dropped' \cup missed'
  PROVE  AuditInv'
<1>1. /\ apc' \in [Calls -> {"new", "lookup", "reserve", "fill", "done"}] /\ apc'[k] = where
      /\ \A c \in Calls : c # k => apc'[c] = apc[c]
  BY MoveOne
<1>2. ~Recorded(k) /\ k \notin Range(alerts) /\ k \notin dropped \cup missed
  BY NotYet
<1>3. \A c : Recorded(c)' <=> Recorded(c)
  BY DEF Recorded
<1>4. Suspected' = Suspected
  BY DEF Suspected
<1>5. AuditTypeOK'
  BY <1>1 DEF AuditInv, RingInv, AuditTypeOK
<1>6. RingInv'
  <2>1. \A i \in DOMAIN arb : arb[i].call \in Calls /\ arb[i].call # k
    BY <1>2, RecordAt DEF AuditInv, RingInv, Recorded
  <2>2. \A c \in Range(alerts) : c \in Calls /\ c # k
    BY <1>2 DEF AuditInv, RingInv, AuditTypeOK, Range
  <2> QED
    BY <1>1, <1>3, <1>5, <2>1, <2>2 DEF AuditInv, RingInv
<1>7. \A c \in Calls : c # k => (Reportable(c)' <=> Reportable(c))
  BY <1>4 DEF Reportable
<1>8. CallInv'
  <2>1. \A c \in dropped' \cup missed' : apc'[c] = "done"
    BY <1>1 DEF AuditInv, CallInv
  <2>2. \A c \in Calls : apc'[c] = "done" => ((c \in Range(alerts') \/ Recorded(c)') <=> Reportable(c)')
    BY <1>1, <1>2, <1>3, <1>4, <1>7 DEF AuditInv, CallInv, Reportable
  <2> QED
    BY <1>1, <1>3, <1>4, <2>1, <2>2 DEF AuditInv, CallInv
<1> QED
  BY <1>6, <1>8 DEF AuditInv

\* The program's entry and the whitelist.
LEMMA EntryKeeps ==
  ASSUME AuditInv, NEW k \in Calls, NEW attached \in BOOLEAN,
         audit_syscall(k, attached) \/ LookupWhitelist(k)
  PROVE  AuditInv'
<1>1. CASE audit_syscall(k, attached)
  <2>1. PICK where \in {"lookup", "done"} : where = IF attached /\ is_suspicious(NrOf[k]) THEN "lookup" ELSE "done"
    OBVIOUS
  <2>2. /\ apc[k] = "new" /\ Move(k, where) /\ UNCHANGED <<arb, alerts, dropped>>
        /\ missed' = IF attached THEN missed ELSE missed \cup {k}
    BY <1>1, <2>1 DEF audit_syscall
  <2>3. dropped \subseteq Calls /\ missed \subseteq Calls /\ k \notin dropped \cup missed
    BY <2>2, NotYet DEF AuditInv, RingInv, AuditTypeOK
  <2>4. where = "done" => k \notin Suspected \/ k \in missed'
    BY <2>1, <2>2 DEF Suspected
  <2>5. k \in missed' => where = "done"
    BY <2>1, <2>2, <2>3
  <2>6. where = "lookup" => is_suspicious(NrOf[k])
    BY <2>1
  <2> QED
    BY <2>1, <2>2, <2>3, <2>4, <2>5, <2>6, CallMoves
<1>2. CASE LookupWhitelist(k)
  <2>1. PICK where \in {"reserve", "done"} : where = IF Whitelisted(UidOf[k]) THEN "done" ELSE "reserve"
    OBVIOUS
  <2>2. apc[k] = "lookup" /\ Move(k, where) /\ UNCHANGED <<arb, alerts, dropped, missed>>
    BY <1>2, <2>1 DEF LookupWhitelist
  <2>3. dropped \subseteq Calls /\ missed \subseteq Calls /\ k \notin dropped \cup missed
    BY <2>2, NotYet DEF AuditInv, RingInv, AuditTypeOK
  <2>4. is_suspicious(NrOf[k])
    BY <2>2, Zenon DEF AuditInv, CallInv
  <2>5. (where = "done" => k \notin Suspected) /\ (where = "reserve" => k \in Suspected)
    BY <2>1, <2>4 DEF Suspected
  <2> QED
    BY <2>1, <2>2, <2>3, <2>5, CallMoves
<1> QED
  BY <1>1, <1>2

\* bpf_ringbuf_reserve: a record at the end of the ring, or a dropped call.
LEMMA ReserveKeeps ==
  ASSUME AuditInv, NEW k \in Calls, AuditReserve(k)
  PROVE  AuditInv'
<1>1. apc[k] = "reserve" /\ UNCHANGED <<missed, alerts>>
  BY DEF AuditReserve
<1>2. ~Recorded(k) /\ k \notin Range(alerts) /\ k \notin dropped \cup missed
  BY <1>1, NotYet
<1>3. CASE ~AuditFull /\ arb' = Append(arb, [call |-> k, busy |-> TRUE]) /\ Move(k, "fill") /\ UNCHANGED dropped
  <2>1. /\ apc' \in [Calls -> {"new", "lookup", "reserve", "fill", "done"}] /\ apc'[k] = "fill"
        /\ \A c \in Calls : c # k => apc'[c] = apc[c]
    BY <1>3, MoveOne
  <2>2. arb \in Seq([call : Calls, busy : BOOLEAN]) /\ Len(arb) \in Nat /\ Len(arb) < AuditCap
    BY <1>3, AuditAssumption DEF AuditInv, RingInv, AuditTypeOK, AuditFull
  <2>3. /\ arb' \in Seq([call : Calls, busy : BOOLEAN]) /\ Len(arb') = Len(arb) + 1
        /\ DOMAIN arb = 1..Len(arb) /\ DOMAIN arb' = 1..Len(arb)+1
        /\ \A i \in 1..Len(arb) : arb'[i] = arb[i]
        /\ arb'[Len(arb) + 1] = [call |-> k, busy |-> TRUE]
    BY <1>3, <2>2
  <2>4. \A i : i \in 1..Len(arb)+1 <=> i \in 1..Len(arb) \/ i = Len(arb) + 1
    BY <2>2
  <2>5. AuditTypeOK'
    BY <1>1, <1>3, <2>1, <2>2, <2>3, AuditAssumption DEF AuditInv, RingInv, AuditTypeOK
  <2>6. \A c : Recorded(c)' <=> Recorded(c) \/ c = k
    BY <2>3, <2>4 DEF Recorded
  <2>7. \A i \in 1..Len(arb) : arb[i].call \in Calls /\ arb[i].call # k
    BY <1>2, RecordAt DEF AuditInv, RingInv, Recorded
  <2>8. \A i, j \in DOMAIN arb' : arb'[i].call = arb'[j].call => i = j
    <3>1. \A i, j \in 1..Len(arb) : arb[i].call = arb[j].call => i = j
      BY <2>3 DEF AuditInv, RingInv
    <3>2. arb'[Len(arb) + 1].call = k /\ \A i \in 1..Len(arb) : arb'[i].call = arb[i].call /\ arb[i].call # k
      BY <2>3, <2>7
    <3> SUFFICES ASSUME NEW i \in 1..Len(arb)+1, NEW j \in 1..Len(arb)+1, arb'[i].call = arb'[j].call PROVE i = j
      BY <2>3
    <3>3. CASE i \in 1..Len(arb) /\ j \in 1..Len(arb)
      BY <3>1, <3>2, <3>3
    <3>4. CASE i = Len(arb) + 1 \/ j = Len(arb) + 1
      BY <2>4, <3>2, <3>4
    <3> QED
      BY <2>4, <3>3, <3>4
  <2>9. \A i \in DOMAIN arb' : apc'[arb'[i].call] = IF arb'[i].busy THEN "fill" ELSE "done"
    BY <2>1, <2>3, <2>4, <2>7 DEF AuditInv, RingInv
  <2>10. \A c \in Range(alerts) : c \in Calls /\ c # k
    BY <1>2 DEF AuditInv, RingInv, AuditTypeOK, Range
  <2>11. RingInv'
    BY <1>1, <2>1, <2>5, <2>6, <2>8, <2>9, <2>10 DEF AuditInv, RingInv
  <2>12. Suspected' = Suspected /\ k \in Suspected
    BY <1>1, Zenon DEF Suspected, AuditInv, CallInv
  <2>13. CallInv'
    <3>1. \A c \in dropped' \cup missed' : apc'[c] = "done"
      BY <1>1, <1>2, <1>3, <2>1, Zenon DEF AuditInv, CallInv, RingInv, AuditTypeOK
    <3>2. \A c \in Calls : c # k => (Reportable(c)' <=> Reportable(c))
      BY <1>1, <1>3, <2>12 DEF Reportable
    <3>3. \A c \in Calls : apc'[c] = "done" => ((c \in Range(alerts') \/ Recorded(c)') <=> Reportable(c)')
      BY <1>1, <2>1, <2>6, <3>2 DEF AuditInv, CallInv
    <3> QED
      BY <2>1, <2>6, <2>12, <3>1, <3>3, Zenon DEF AuditInv, CallInv
  <2> QED
    BY <2>11, <2>13 DEF AuditInv
<1>4. CASE AuditFull /\ dropped' = dropped \cup {k} /\ Move(k, "done") /\ UNCHANGED arb
  <2>1. dropped \subseteq Calls /\ missed \subseteq Calls
    BY DEF AuditInv, RingInv, AuditTypeOK
  <2> QED
    BY <1>1, <1>4, <2>1, CallMoves
<1> QED
  BY <1>3, <1>4 DEF AuditReserve

\* bpf_ringbuf_submit: the call's own record becomes readable, no other.
LEMMA SubmitKeeps ==
  ASSUME AuditInv, NEW k \in Calls, AuditSubmit(k)
  PROVE  AuditInv'
<1>1. apc[k] = "fill" /\ Move(k, "done") /\ arb' = Submitted(k) /\ UNCHANGED <<dropped, missed, alerts>>
  BY DEF AuditSubmit
<1>2. /\ apc' \in [Calls -> {"new", "lookup", "reserve", "fill", "done"}] /\ apc'[k] = "done"
      /\ \A c \in Calls : c # k => apc'[c] = apc[c]
  BY <1>1, MoveOne
<1>3. arb \in Seq([call : Calls, busy : BOOLEAN]) /\ Len(arb) \in Nat /\ DOMAIN arb = 1..Len(arb)
  BY DEF AuditInv, RingInv, AuditTypeOK
<1>4. /\ DOMAIN arb' = DOMAIN arb
      /\ \A i \in DOMAIN arb : /\ arb'[i].call = arb[i].call
                               /\ arb'[i].busy = IF arb[i].call = k THEN FALSE ELSE arb[i].busy
                               /\ arb'[i] \in Records
  <2>1. /\ DOMAIN arb' = DOMAIN arb
        /\ \A i \in DOMAIN arb : arb'[i] = IF arb[i].call = k THEN [arb[i] EXCEPT !.busy = FALSE] ELSE arb[i]
    BY <1>1, Zenon DEF Submitted
  <2>2. ASSUME NEW rec \in Records
        PROVE  /\ [rec EXCEPT !.busy = FALSE] \in Records /\ [rec EXCEPT !.busy = FALSE].call = rec.call
               /\ [rec EXCEPT !.busy = FALSE].busy = FALSE
    BY Zenon DEF Records
  <2>3. \A i \in DOMAIN arb : arb[i] \in Records
    BY RecordAt DEF AuditInv, RingInv
  <2>4. ASSUME NEW i \in DOMAIN arb
        PROVE  /\ arb'[i].call = arb[i].call /\ arb'[i] \in Records
               /\ arb'[i].busy = IF arb[i].call = k THEN FALSE ELSE arb[i].busy
    <3>1. CASE arb[i].call = k
      <4>1. arb'[i] = [arb[i] EXCEPT !.busy = FALSE] /\ arb[i] \in Records
        BY <2>1, <2>3, <3>1
      <4> QED
        BY <2>2, <3>1, <4>1, Zenon
    <3>2. CASE arb[i].call # k
      BY <2>1, <2>3, <3>2, Zenon
    <3> QED
      BY <3>1, <3>2, Zenon
  <2> QED
    BY <2>1, <2>4, Zenon
<1>5. arb' \in Seq([call : Calls, busy : BOOLEAN]) /\ Len(arb') = Len(arb)
  <2>1. arb' \in [1..Len(arb) -> Records]
    BY <1>1, <1>3, <1>4 DEF Submitted
  <2>2. arb' \in Seq(Records) /\ Len(arb') = Len(arb)
    BY <1>3, <2>1
  <2> QED
    BY <2>2 DEF Records
<1>6. AuditTypeOK'
  BY <1>1, <1>2, <1>5 DEF AuditInv, RingInv, AuditTypeOK
<1>7. \A c : Recorded(c)' <=> Recorded(c)
  BY <1>4, Zenon DEF Recorded
<1>8. \A i \in DOMAIN arb : arb[i].call \in Calls
  BY RecordAt DEF AuditInv, RingInv
<1>9. RingInv'
  <2>1. \A i, j \in DOMAIN arb' : arb'[i].call = arb'[j].call => i = j
    BY <1>4, Zenon DEF AuditInv, RingInv
  <2>2. \A i \in DOMAIN arb' : apc'[arb'[i].call] = IF arb'[i].busy THEN "fill" ELSE "done"
    <3> SUFFICES ASSUME NEW i \in DOMAIN arb PROVE apc'[arb[i].call] = IF arb'[i].busy THEN "fill" ELSE "done"
      BY <1>4, Zenon
    <3>1. apc[arb[i].call] = IF arb[i].busy THEN "fill" ELSE "done"
      BY DEF AuditInv, RingInv
    <3>2. arb'[i].busy = IF arb[i].call = k THEN FALSE ELSE arb[i].busy
      BY <1>4, Zenon
    <3>3. CASE arb[i].call = k
      BY <1>2, <3>2, <3>3
    <3>4. CASE arb[i].call # k
      <4>1. apc'[arb[i].call] = apc[arb[i].call] /\ arb'[i].busy = arb[i].busy
        BY <1>2, <1>8, <3>2, <3>4
      <4> QED
        BY <3>1, <4>1, Zenon
    <3> QED
      BY <3>3, <3>4
  <2>3. \A c \in Range(alerts) : c \in Calls /\ apc'[c] = "done"
    BY <1>2 DEF AuditInv, RingInv, AuditTypeOK, Range
  <2> QED
    BY <1>1, <1>6, <1>7, <2>1, <2>2, <2>3 DEF AuditInv, RingInv
<1>10. Suspected' = Suspected /\ k \in Suspected /\ Recorded(k) /\ k \notin dropped \cup missed
  BY <1>1, Zenon DEF Suspected, AuditInv, CallInv
<1>11. CallInv'
  <2>1. \A c \in dropped' \cup missed' : apc'[c] = "done"
    BY <1>1, <1>2, <1>10, Zenon DEF AuditInv, CallInv, RingInv, AuditTypeOK
  <2>2. \A c \in Calls : Reportable(c)' <=> Reportable(c)
    BY <1>1, <1>10 DEF Reportable
  <2>3. Reportable(k)
    BY <1>10 DEF Reportable
  <2>4. \A c \in Calls : apc'[c] = "done" => ((c \in Range(alerts') \/ Recorded(c)') <=> Reportable(c)')
    BY <1>1, <1>2, <1>7, <1>10, <2>2, <2>3, Zenon DEF AuditInv, CallInv
  <2> QED
    BY <1>2, <1>7, <1>10, <2>1, <2>4, Zenon DEF AuditInv, CallInv
<1> QED
  BY <1>9, <1>11 DEF AuditInv

\* The callback: the oldest record, submitted, becomes an alert.
LEMMA AlertKeeps ==
  ASSUME AuditInv, handle_syscall_event
  PROVE  AuditInv'
<1>1. /\ arb # <<>> /\ ~Head(arb).busy /\ alerts' = Append(alerts, Head(arb).call) /\ arb' = Tail(arb)
      /\ UNCHANGED <<apc, dropped, missed>>
  BY DEF handle_syscall_event, AuditReadable
<1>2. /\ arb \in Seq([call : Calls, busy : BOOLEAN]) /\ Len(arb) \in Nat \ {0} /\ DOMAIN arb = 1..Len(arb)
      /\ Len(arb) <= AuditCap /\ alerts \in Seq(Calls)
  BY <1>1 DEF AuditInv, RingInv, AuditTypeOK
<1>3. PICK k : k = Head(arb).call
  OBVIOUS
<1>4. k = arb[1].call /\ ~arb[1].busy /\ k \in Calls /\ 1 \in DOMAIN arb
  <2>1. Head(arb) = arb[1] /\ 1 \in DOMAIN arb
    BY <1>1, <1>2
  <2>2. k = arb[1].call /\ ~arb[1].busy
    BY <1>1, <1>3, <2>1, Zenon
  <2> QED
    BY <2>1, <2>2, RecordAt, Zenon DEF AuditInv, RingInv
<1>5. /\ arb' \in Seq([call : Calls, busy : BOOLEAN]) /\ Len(arb') = Len(arb) - 1
      /\ DOMAIN arb' = 1..Len(arb)-1 /\ \A i \in 1..Len(arb)-1 : arb'[i] = arb[i + 1]
  BY <1>1, <1>2
<1>6. /\ \A i \in 1..Len(arb)-1 : i + 1 \in 1..Len(arb) /\ i + 1 # 1
      /\ \A i \in 1..Len(arb) : i = 1 \/ (i - 1 \in 1..Len(arb)-1 /\ (i - 1) + 1 = i)
      /\ \A i, j \in 1..Len(arb)-1 : i + 1 = j + 1 => i = j
  BY <1>2
<1>7. Recorded(k) /\ apc[k] = "done" /\ k \notin Range(alerts)
  BY <1>4 DEF AuditInv, RingInv, Recorded
<1>8. /\ alerts' \in Seq(Calls) /\ Range(alerts') = Range(alerts) \cup {k} /\ IsInjective(alerts')
  BY <1>1, <1>2, <1>3, <1>4, <1>7, AppendRange DEF AuditInv, RingInv
<1>9. \A c : Recorded(c)' <=> Recorded(c) /\ c # k
  <2>1. \A i \in 1..Len(arb) : i # 1 => arb[i].call # k
    BY <1>2, <1>4 DEF AuditInv, RingInv
  <2>2. ASSUME NEW c, Recorded(c)' PROVE Recorded(c) /\ c # k
    <3>1. PICK i \in 1..Len(arb)-1 : arb'[i].call = c
      BY <1>5, <2>2 DEF Recorded
    <3>2. i + 1 \in DOMAIN arb /\ i + 1 # 1 /\ arb[i + 1].call = c
      BY <1>2, <1>5, <1>6, <3>1
    <3> QED
      BY <1>2, <2>1, <3>2 DEF Recorded
  <2>3. ASSUME NEW c, Recorded(c), c # k PROVE Recorded(c)'
    <3>1. PICK i \in 1..Len(arb) : arb[i].call = c
      BY <1>2, <2>3 DEF Recorded
    <3>2. i - 1 \in DOMAIN arb' /\ arb'[i - 1].call = c
      BY <1>4, <1>5, <1>6, <2>3, <3>1
    <3> QED
      BY <3>2 DEF Recorded
  <2> QED
    BY <2>2, <2>3
<1>10. AuditTypeOK'
  <2>1. Len(arb') <= AuditCap
    BY <1>2, <1>5, AuditAssumption
  <2> QED
    BY <1>1, <1>5, <1>8, <2>1 DEF AuditInv, RingInv, AuditTypeOK
<1>11. RingInv'
  <2>0. \A i \in DOMAIN arb' : i + 1 \in DOMAIN arb /\ arb'[i] = arb[i + 1]
    BY <1>2, <1>5, <1>6
  <2>1. \A i, j \in DOMAIN arb' : arb'[i].call = arb'[j].call => i = j
    <3> SUFFICES ASSUME NEW i \in DOMAIN arb', NEW j \in DOMAIN arb', arb'[i].call = arb'[j].call PROVE i = j
      OBVIOUS
    <3>1. arb[i + 1].call = arb[j + 1].call /\ i + 1 \in DOMAIN arb /\ j + 1 \in DOMAIN arb
      BY <2>0
    <3>2. i + 1 = j + 1
      BY <3>1 DEF AuditInv, RingInv
    <3> QED
      BY <1>5, <1>6, <3>2
  <2>2. \A i \in DOMAIN arb' : apc[arb'[i].call] = IF arb'[i].busy THEN "fill" ELSE "done"
    <3> SUFFICES ASSUME NEW i \in DOMAIN arb' PROVE apc[arb'[i].call] = IF arb'[i].busy THEN "fill" ELSE "done"
      OBVIOUS
    <3>1. apc[arb[i + 1].call] = IF arb[i + 1].busy THEN "fill" ELSE "done"
      BY <2>0 DEF AuditInv, RingInv
    <3> QED
      BY <2>0, <3>1, Zenon
  <2> QED
    BY <1>1, <1>7, <1>8, <1>9, <1>10, <2>1, <2>2, Zenon DEF AuditInv, RingInv
<1>12. CallInv'
  <2>1. Suspected' = Suspected
    BY DEF Suspected
  <2> QED
    BY <1>1, <1>7, <1>8, <1>9, <2>1 DEF AuditInv, CallInv, Reportable
<1> QED
  BY <1>11, <1>12 DEF AuditInv

\* The other threads and the rest of run_monitor do not touch the audit.
LEMMA AuditUnchanged == AuditInv /\ UNCHANGED auditVars => AuditInv'
<1> SUFFICES ASSUME AuditInv, UNCHANGED auditVars PROVE AuditInv'
  OBVIOUS
<1>1. UNCHANGED <<apc, arb, dropped, missed, alerts>> /\ Suspected' = Suspected
  BY DEF auditVars, Suspected
<1>2. \A c : (Recorded(c)' <=> Recorded(c)) /\ (Reportable(c)' <=> Reportable(c))
  BY <1>1 DEF Recorded, Reportable
<1>3. RingInv'
  BY <1>1, <1>2 DEF AuditInv, RingInv, AuditTypeOK
<1>4. CallInv'
  BY <1>1, <1>2 DEF AuditInv, CallInv
<1> QED
  BY <1>3, <1>4 DEF AuditInv

\* Every step keeps the audit's records and alerts in order.
LEMMA AuditStep == (scenario \in Scenarios /\ AuditInv) /\ [Next]_vars => (scenario \in Scenarios /\ AuditInv)'
<1> SUFFICES ASSUME scenario \in Scenarios, AuditInv, [Next]_vars PROVE scenario' = scenario /\ AuditInv'
  OBVIOUS
<1>1. CASE Build \/ BuildThrows \/ PollTcp \/ StopServer \/ ForgetReporter \/ Unwind \/ UnwindNothing
  <2>1. UNCHANGED auditVars /\ scenario' = scenario
    BY <1>1, Zenon DEF Build, BuildThrows, PollTcp, StopServer, ForgetReporter, Unwind, UnwindNothing, Goto
  <2> QED
    BY <2>1, AuditUnchanged
<1>2. CASE PollAudit
  <2>1. scenario' = scenario /\ (handle_syscall_event \/ UNCHANGED auditVars)
    BY <1>2, Zenon DEF PollAudit, Goto
  <2> QED
    BY <2>1, AlertKeeps, AuditUnchanged
<1>3. CASE HttpThread \/ OnSignal \/ UNCHANGED vars
  <2>1. UNCHANGED auditVars /\ scenario' = scenario
    BY <1>3, Zenon DEF HttpThread, ServerThrows, OnSignal, vars, mainVars
  <2> QED
    BY <2>1, AuditUnchanged
<1>4. CASE \E k \in Calls : AuditCpu(k)
  <2>1. scenario' = scenario /\ \E k \in Calls : AuditProgram(k)
    BY <1>4, Zenon DEF AuditCpu, mainVars
  <2> QED
    BY <2>1, EntryKeeps, ReserveKeeps, SubmitKeeps, Zenon DEF AuditProgram
<1>5. CASE Environment
  <2>1. CASE UNCHANGED <<auditVars, mainVars>>
    BY <2>1, AuditUnchanged DEF mainVars
  <2>2. CASE \E k \in scenario.calls : audit_syscall(k, "audit_link" \in held) /\ UNCHANGED <<httpVars, mainVars>>
    <3>1. PICK k \in scenario.calls : audit_syscall(k, "audit_link" \in held) /\ UNCHANGED <<httpVars, mainVars>>
      BY <2>2
    <3>2. k \in Calls /\ scenario' = scenario
      BY <3>1, ScenarioAssumption DEF mainVars
    <3>3. audit_syscall(k, TRUE) \/ audit_syscall(k, FALSE)
      BY <3>1 DEF audit_syscall
    <3> QED
      BY <3>2, <3>3, EntryKeeps, Zenon
  <2> QED
    BY <1>5, <2>1, <2>2, Zenon DEF Environment
<1> QED
  BY <1>1, <1>2, <1>3, <1>4, <1>5 DEF Next, MainStep

\* The test of audit_syscall (syscall_audit.bpf.c:54-56) is what the comment
\* at the map says (line 26) for all uids but the disputed ones.
LEMMA WhitelistAsSaid ==
  ASSUME NEW uid
  PROVE  Disputed(uid) <=> ~(Whitelisted(uid) <=> Ignored(uid))
  BY Zenon DEF Disputed, Whitelisted, Ignored

\* Every suspicious call that is not ignored is reported once, and no other
\* is, for every whitelist whose entries are not disputed: programs that overlap, a full ring and the end of the
\* monitor included.
THEOREM AuditReportsExactly == Spec => []AuditExact
<1>1. AuditInv => AuditExact
  <2> SUFFICES ASSUME AuditInv PROVE AuditExact
    OBVIOUS
  <2>1. IsInjective([i \in DOMAIN arb |-> arb[i].call])
    BY DEF AuditInv, RingInv, IsInjective
  <2>2. \A k \in Calls : Recorded(k) /\ apc[k] = "done" <=> k \in InRing
    <3>1. \A i \in DOMAIN arb : apc[arb[i].call] = IF arb[i].busy THEN "fill" ELSE "done"
      BY Zenon DEF AuditInv, RingInv
    <3>2. \A i \in DOMAIN arb : apc[arb[i].call] = "done" <=> ~arb[i].busy
      BY <3>1
    <3>3. \A k : k \in InRing <=> \E i \in DOMAIN arb : ~arb[i].busy /\ arb[i].call = k
      BY Zenon DEF InRing
    <3> QED
      BY <3>2, <3>3, SMT DEF Recorded
  <2>3. Range(alerts) \subseteq Calls /\ InRing \subseteq Calls
    BY RecordAt DEF AuditInv, RingInv, AuditTypeOK, InRing, Range
  <2>4. Range(alerts) \cap InRing = {}
    BY <2>2, <2>3 DEF AuditInv, RingInv
  <2>5. \A k \in Calls : k \in Range(alerts) \cup InRing <=> Reportable(k) /\ apc[k] = "done"
    BY <2>2 DEF AuditInv, RingInv, CallInv
  <2>6. \A k \in Reported : is_suspicious(NrOf[k])
    BY <2>3, <2>5 DEF Reported, Reportable, Suspected
  <2>7. \A k \in Calls : ~Disputed(UidOf[k]) =>
          (k \in Reported <=> k \in MustReport /\ apc[k] = "done" /\ k \notin dropped \cup missed)
    <3>1. \A k \in Calls : ~Disputed(UidOf[k]) => (k \in Suspected <=> k \in MustReport)
      BY WhitelistAsSaid, Zenon DEF Suspected, MustReport
    <3> QED
      BY <2>5, <3>1, Zenon DEF Reported, Reportable
  <2> QED
    BY <2>1, <2>4, <2>6, <2>7 DEF AuditExact, AuditInv, RingInv
<1>2. Init => scenario \in Scenarios /\ AuditInv
  BY AuditInitially DEF Init
<1> QED
  BY <1>1, <1>2, AuditStep, PTL DEF Spec
-----------------------------------------------------------------------------
(* Connections.  A client is in the backlog, on one descriptor or gone;    *)
(* the ready list and the events at hand name descriptors of clients that  *)
(* said something; only the client being read has data read.               *)

Watched == Fds \cup {listen_fd_, stop_fd_}
Peers == [phase : {"new", "connected", "closed"}, sent : Nat, got : Nat,
          bye : {"no", "fin", "rst"}, reply : {"none", "200", "404"}]

ServerType ==
  /\ sockets \subseteq ServerFds /\ running_ \in BOOLEAN /\ accept_err \in BOOLEAN
  /\ hpc \in {"none", "run", "accept", "read", "handle", "exited"}
  /\ cur \in Fds \cup {None} /\ (cur \in Fds <=> hpc \in {"read", "handle"})
  /\ open \in [Fds -> Clients \cup {None}]

PeerType ==
  /\ peer \in [Clients -> Peers]
  /\ \A c \in Clients : /\ peer[c].got <= peer[c].sent /\ peer[c].sent <= Len(Segments[c])
                        /\ peer[c].phase = "new" => peer[c].sent = 0
                        /\ peer[c].phase # "closed" => peer[c].reply = "none"

QueueType ==
  /\ ready \in Seq(Watched) /\ events \in Seq(Watched) /\ backlog \in Seq(Clients)
  /\ IsInjective(ready) /\ IsInjective(events) /\ IsInjective(backlog)

ConnInv ==
  /\ \A f, g \in Fds : open[f] = open[g] /\ open[f] # None => f = g
  /\ \A f \in Fds : open[f] # None => peer[open[f]].phase = "connected" /\ open[f] \notin Range(backlog)
  /\ \A c \in Range(backlog) : peer[c].phase = "connected"
  /\ \A c \in Clients : peer[c].got # 0 /\ peer[c].phase = "connected" => cur \in Fds /\ open[cur] = c

Asked(c) == peer[c].sent > 0 \/ peer[c].bye # "no"

EdgeInv ==
  /\ \A f \in Fds : f \in Range(ready) \cup Range(events) \/ f = cur => open[f] # None /\ Asked(open[f])
  /\ cur \in Fds => cur \notin Range(events)

ReadInv ==
  cur \in Fds =>
    /\ read_bufs_[cur] = {<<open[cur], i>> : i \in 1..peer[open[cur]].got}
    /\ hpc = "read" => ~HeaderEnd(read_bufs_[cur])
    /\ hpc = "handle" => peer[open[cur]].got > 0

HttpInv == ServerType /\ PeerType /\ QueueType /\ ConnInv /\ EdgeInv /\ ReadInv /\ WholeRequestAnswered

\* None is neither a descriptor nor watched nor a client.
LEMMA Apart ==
  /\ None \notin Fds /\ None \notin Clients
  /\ listen_fd_ \notin Fds /\ stop_fd_ \notin Fds /\ listen_fd_ # stop_fd_
BY FdAssumption DEF ServerFds, listen_fd_, stop_fd_, epoll_fd_

\* No client, no edge, no data at first.
LEMMA HttpInitially == HttpInit => HttpInv
<1> SUFFICES ASSUME HttpInit PROVE HttpInv
  OBVIOUS
<1>1. Range(<<>>) = {} /\ IsInjective(<<>>)
  BY DEF Range, IsInjective
<1>2. ServerType
  BY Apart, Zenon DEF HttpInit, ServerType
<1>3. PeerType
  <2>1. \A c \in Clients : Len(Segments[c]) \in Nat
    BY RequestAssumption
  <2> QED
    BY <2>1 DEF HttpInit, PeerType, Peers
<1>4. QueueType
  BY <1>1 DEF HttpInit, QueueType
<1>5. ConnInv
  BY <1>1 DEF HttpInit, ConnInv
<1>6. EdgeInv
  BY <1>1, Apart DEF HttpInit, EdgeInv
<1>7. ReadInv
  BY Apart DEF HttpInit, ReadInv
<1>8. WholeRequestAnswered
  BY DEF HttpInit, WholeRequestAnswered
<1> QED
  BY <1>2, <1>3, <1>4, <1>5, <1>6, <1>7, <1>8 DEF HttpInv

\* An edge raised is in the ready list, once.
LEMMA RaisedRange ==
  ASSUME QueueType, NEW x \in Watched
  PROVE  Raised(x) \in Seq(Watched) /\ IsInjective(Raised(x)) /\ Range(Raised(x)) = Range(ready) \cup {x}
<1>1. CASE x \in Range(ready)
  <2>1. Raised(x) = ready
    BY <1>1 DEF Raised
  <2> QED
    BY <1>1, <2>1 DEF QueueType
<1>2. CASE x \notin Range(ready)
  <2>1. Raised(x) = Append(ready, x)
    BY <1>2 DEF Raised
  <2>2. /\ Append(ready, x) \in Seq(Watched) /\ Range(Append(ready, x)) = Range(ready) \cup {x}
        /\ IsInjective(Append(ready, x))
    BY <1>2, AppendRange DEF QueueType
  <2> QED
    BY <2>1, <2>2, Zenon
<1> QED
  BY <1>1, <1>2

\* A closed descriptor leaves the ready list, and nothing else does.
LEMMA ClearedRange ==
  ASSUME QueueType, NEW x
  PROVE  Cleared(x) \in Seq(Watched) /\ IsInjective(Cleared(x)) /\ Range(Cleared(x)) = Range(ready) \ {x}
<1>1. CASE x \notin Range(ready)
  <2>1. Cleared(x) = ready
    BY <1>1 DEF Cleared
  <2> QED
    BY <1>1, <2>1 DEF QueueType
<1>2. CASE x \in Range(ready)
  <2>1. PICK i : i = CHOOSE j \in DOMAIN ready : ready[j] = x
    OBVIOUS
  <2>2. i \in DOMAIN ready /\ ready[i] = x
    BY <1>2, <2>1, Zenon DEF Range
  <2>3. ready \in Seq(Watched) /\ Len(ready) \in Nat /\ DOMAIN ready = 1..Len(ready) /\ IsInjective(ready)
    BY DEF QueueType
  <2>4. i \in Nat /\ i - 1 \in 0..Len(ready) /\ i \in 0..Len(ready)
    BY <2>2, <2>3
  <2>5. PICK a : a = SubSeq(ready, 1, i - 1)
    BY Zenon
  <2>6. PICK b : b = SubSeq(ready, i + 1, Len(ready))
    BY Zenon
  <2>7. Cleared(x) = a \o b
    BY <1>2, <2>1, <2>5, <2>6, Zenon DEF Cleared
  <2>8. a \in Seq(Watched) /\ IsInjective(a) /\ Range(a) = {ready[j] : j \in 1..i-1}
    <3>1. PICK m \in Nat : m = i - 1
      BY <2>4
    <3>2. 1 <= m + 1 /\ m <= Len(ready) /\ 1 \in Nat \ {0}
      BY <2>3, <2>4, <3>1
    <3>3. a = SubSeq(ready, 1, m) /\ 1..i-1 = 1..m
      BY <2>5, <3>1, Zenon
    <3>4. /\ SubSeq(ready, 1, m) \in Seq(Watched) /\ IsInjective(SubSeq(ready, 1, m))
          /\ Range(SubSeq(ready, 1, m)) = {ready[j] : j \in 1..m}
      BY <2>3, <3>2, SegmentElements
    <3> QED
      BY <3>3, <3>4, Zenon
  <2>9. b \in Seq(Watched) /\ IsInjective(b) /\ Range(b) = {ready[j] : j \in i+1..Len(ready)}
    <3>1. PICK m \in Nat : m = i + 1
      BY <2>4
    <3>2. PICK n \in Nat : n = Len(ready)
      BY <2>3, Zenon
    <3>3. m \in Nat \ {0} /\ m <= n + 1 /\ n <= Len(ready)
      BY <2>3, <2>4, <3>1, <3>2
    <3>4. b = SubSeq(ready, m, n) /\ i+1..Len(ready) = m..n
      BY <2>6, <3>1, <3>2, Zenon
    <3>5. /\ SubSeq(ready, m, n) \in Seq(Watched) /\ IsInjective(SubSeq(ready, m, n))
          /\ Range(SubSeq(ready, m, n)) = {ready[j] : j \in m..n}
      BY <2>3, <3>3, SegmentElements
    <3> QED
      BY <3>4, <3>5, Zenon
  <2>10. /\ \A j \in 1..Len(ready) : j \in 1..i-1 \/ j = i \/ j \in i+1..Len(ready)
         /\ \A j \in 1..i-1 : j \in 1..Len(ready) /\ j # i /\ j \notin i+1..Len(ready)
         /\ \A j \in i+1..Len(ready) : j \in 1..Len(ready) /\ j # i
    BY <2>2, <2>3
  <2>11. Range(a) \cap Range(b) = {} /\ x \notin Range(a) /\ x \notin Range(b)
    <3>1. \A j, k \in 1..Len(ready) : ready[j] = ready[k] => j = k
      BY <2>3, Zenon DEF IsInjective
    <3>2. \A j \in 1..i-1 : \A k \in i+1..Len(ready) : ready[j] # ready[k]
      BY <2>10, <3>1
    <3>3. \A j \in 1..i-1 : ready[j] # x
      BY <2>2, <2>3, <2>10, <3>1
    <3>4. \A j \in i+1..Len(ready) : ready[j] # x
      BY <2>2, <2>3, <2>10, <3>1
    <3> QED
      BY <2>8, <2>9, <3>2, <3>3, <3>4
  <2>12. Range(ready) = Range(a) \cup Range(b) \cup {x}
    BY <2>2, <2>3, <2>8, <2>9, <2>10, Zenon DEF Range
  <2>13. a \o b \in Seq(Watched) /\ Range(a \o b) = Range(a) \cup Range(b) /\ IsInjective(a \o b)
    <3>1. a \in Seq(Watched) /\ IsInjective(a) /\ b \in Seq(Watched) /\ IsInjective(b) /\ Range(a) \cap Range(b) = {}
      BY <2>8, <2>9, <2>11, Zenon
    <3> QED
      BY <3>1, ConcatRange
  <2>14. Range(ready) \ {x} = Range(a) \cup Range(b)
    BY <2>11, <2>12
  <2> QED
    BY <2>7, <2>13, <2>14, Zenon
<1> QED
  BY <1>1, <1>2

-----------------------------------------------------------------------------
\* A connection enters the backlog.
LEMMA ConnectKeeps ==
  ASSUME HttpInv, NEW c \in Clients, Connect(c)
  PROVE  HttpInv'
<1>1. /\ peer[c].phase = "new" /\ peer' = [peer EXCEPT ![c].phase = "connected"]
      /\ backlog' = Append(backlog, c) /\ ready' = Raised(listen_fd_)
      /\ UNCHANGED <<sockets, running_, hpc, events, cur, open, read_bufs_, accept_err>>
  BY DEF Connect, serverVars
<1>2. /\ peer \in [Clients -> Peers] /\ backlog \in Seq(Clients) /\ IsInjective(backlog)
      /\ open \in [Fds -> Clients \cup {None}]
  BY DEF HttpInv, PeerType, QueueType, ServerType
<1>3. /\ peer' \in [Clients -> Peers]
      /\ peer'[c].phase = "connected" /\ peer'[c].sent = peer[c].sent /\ peer'[c].got = peer[c].got
      /\ peer'[c].reply = peer[c].reply
      /\ \A d \in Clients : d # c => peer'[d] = peer[d]
  BY <1>1, <1>2, Zenon DEF Peers
<1>4. peer[c].sent = 0 /\ peer[c].got = 0
  <2>1. peer[c].got \in Nat /\ peer[c].sent \in Nat /\ peer[c].sent = 0 /\ peer[c].got <= peer[c].sent
    BY <1>1, <1>2 DEF HttpInv, PeerType, Peers
  <2> QED
    BY <2>1
<1>5. c \notin Range(backlog) /\ \A f \in Fds : open[f] # c
  BY <1>1, Apart DEF HttpInv, ConnInv
<1>6. backlog' \in Seq(Clients) /\ IsInjective(backlog') /\ Range(backlog') = Range(backlog) \cup {c}
  BY <1>1, <1>2, <1>5, AppendRange
<1>7. ready' \in Seq(Watched) /\ IsInjective(ready') /\ Range(ready') = Range(ready) \cup {listen_fd_}
  BY <1>1, RaisedRange DEF HttpInv, Watched
<1>8. \A f \in Fds : open[f] # None => open[f] \in Clients /\ open[f] # c /\ peer'[open[f]] = peer[open[f]]
  BY <1>2, <1>3, <1>5
<1>9. ServerType'
  BY <1>1 DEF HttpInv, ServerType
<1>10. PeerType'
  BY <1>1, <1>3, <1>4 DEF HttpInv, PeerType
<1>11. QueueType'
  BY <1>1, <1>6, <1>7 DEF HttpInv, QueueType
<1>12. ConnInv'
  <2>1. \A f \in Fds : open[f] # None => peer'[open[f]].phase = "connected" /\ open[f] \notin Range(backlog')
    BY <1>6, <1>8, Zenon DEF HttpInv, ConnInv
  <2>2. \A d \in Range(backlog') : peer'[d].phase = "connected"
    <3>1. Range(backlog) \subseteq Clients
      BY <1>2, RangeType, Zenon
    <3> QED
      BY <1>3, <1>6, <3>1, Zenon DEF HttpInv, ConnInv
  <2>3. \A d \in Clients : peer'[d].got # 0 /\ peer'[d].phase = "connected" => cur \in Fds /\ open[cur] = d
    BY <1>3, <1>4 DEF HttpInv, ConnInv
  <2> QED
    BY <1>1, <2>1, <2>2, <2>3 DEF HttpInv, ConnInv
<1>13. EdgeInv'
  BY <1>1, <1>7, <1>8, Apart DEF HttpInv, EdgeInv, Asked
<1>14. ReadInv'
  <2>1. cur \in Fds => open[cur] # None
    BY DEF HttpInv, EdgeInv
  <2> QED
    BY <1>1, <1>8, <2>1 DEF HttpInv, ReadInv, HeaderEnd, Has
<1>15. WholeRequestAnswered'
  BY <1>3 DEF HttpInv, WholeRequestAnswered
<1> QED
  BY <1>9, <1>10, <1>11, <1>12, <1>13, <1>14, <1>15 DEF HttpInv

\* A segment, FIN or reset arrives and raises the client's edge, if it has a
\* descriptor.
LEMMA ClientKeeps ==
  ASSUME HttpInv, NEW c \in Clients, SendSegment(c) \/ HangUp(c)
  PROVE  HttpInv'
<1>1. /\ peer[c].phase = "connected" /\ ready' = RaisedFor(c)
      /\ UNCHANGED <<sockets, running_, hpc, events, cur, open, read_bufs_, accept_err, backlog>>
  BY DEF SendSegment, HangUp, serverVars
<1>2. peer \in [Clients -> Peers] /\ open \in [Fds -> Clients \cup {None}]
  BY DEF HttpInv, PeerType, ServerType
<1>3. /\ peer' \in [Clients -> Peers]
      /\ peer'[c].phase = "connected" /\ peer'[c].got = peer[c].got /\ peer'[c].reply = peer[c].reply
      /\ peer'[c].sent \in {peer[c].sent, peer[c].sent + 1} /\ peer'[c].sent <= Len(Segments[c])
      /\ peer'[c].sent > 0 \/ peer'[c].bye # "no"
      /\ \A d \in Clients : d # c => peer'[d] = peer[d]
  <2>0. peer[c] \in Peers /\ peer[c].sent \in Nat /\ peer[c].sent <= Len(Segments[c]) /\ Len(Segments[c]) \in Nat
    BY <1>2, RequestAssumption DEF HttpInv, PeerType, Peers
  <2>1. CASE SendSegment(c)
    <3>1. peer[c].sent < Len(Segments[c]) /\ peer' = [peer EXCEPT ![c].sent = @ + 1]
      BY <2>1 DEF SendSegment
    <3> QED
      BY <1>1, <1>2, <2>0, <3>1 DEF Peers
  <2>2. CASE HangUp(c)
    <3>1. PICK how \in {"fin", "rst"} : peer' = [peer EXCEPT ![c].bye = how]
      BY <2>2, Zenon DEF HangUp
    <3> QED
      BY <1>1, <1>2, <2>0, <3>1, Zenon DEF Peers
  <2> QED
    BY <2>1, <2>2, Zenon
<1>4. /\ ready' \in Seq(Watched) /\ IsInjective(ready')
      /\ Range(ready) \subseteq Range(ready')
      /\ \A f \in Range(ready') : f \in Range(ready) \/ (f \in Fds /\ open[f] = c)
  <2>1. CASE \E f \in Fds : open[f] = c
    <3>1. PICK f : f = CHOOSE g \in Fds : open[g] = c
      OBVIOUS
    <3>2. f \in Fds /\ open[f] = c
      BY <2>1, <3>1, Zenon
    <3>3. ready' = Raised(f)
      BY <1>1, <2>1, <3>1, Zenon DEF RaisedFor
    <3>4. Raised(f) \in Seq(Watched) /\ IsInjective(Raised(f)) /\ Range(Raised(f)) = Range(ready) \cup {f}
      BY <3>2, RaisedRange DEF HttpInv, Watched
    <3>5. ready' \in Seq(Watched) /\ IsInjective(ready') /\ Range(ready') = Range(ready) \cup {f}
      BY <3>3, <3>4, Zenon
    <3> QED
      BY <3>2, <3>5
  <2>2. CASE ~\E f \in Fds : open[f] = c
    <3>1. ready' = ready
      BY <1>1, <2>2 DEF RaisedFor
    <3> QED
      BY <3>1 DEF HttpInv, QueueType
  <2> QED
    BY <2>1, <2>2
<1>5. \A d \in Clients : peer'[d].phase = peer[d].phase /\ peer'[d].got = peer[d].got
  BY <1>1, <1>3
<1>6. ServerType'
  BY <1>1 DEF HttpInv, ServerType
<1>7. PeerType'
  <2>1. peer[c].got \in Nat /\ peer[c].sent \in Nat /\ peer[c].got <= peer[c].sent
    BY <1>2 DEF HttpInv, PeerType, Peers
  <2>2. peer'[c].got <= peer'[c].sent
    <3>1. peer'[c].got = peer[c].got /\ (peer'[c].sent = peer[c].sent \/ peer'[c].sent = peer[c].sent + 1)
      BY <1>2, <1>3, Zenon
    <3> QED
      BY <2>1, <3>1, SMT
  <2> QED
    BY <1>1, <1>3, <2>2 DEF HttpInv, PeerType
<1>8. QueueType'
  BY <1>1, <1>4, Zenon DEF HttpInv, QueueType
<1>9. ConnInv'
  <2>1. Range(backlog) \subseteq Clients
    BY RangeType, Zenon DEF HttpInv, QueueType
  <2> QED
    BY <1>1, <1>2, <1>5, <2>1, Zenon DEF HttpInv, ConnInv
<1>10. \A d \in Clients : Asked(d) \/ d = c => Asked(d)'
  BY <1>3 DEF Asked
<1>11. EdgeInv'
  <2> SUFFICES ASSUME NEW f \in Fds, f \in Range(ready') \cup Range(events) \/ f = cur
               PROVE  open[f] # None /\ Asked(open[f])'
    BY <1>1, Zenon DEF HttpInv, EdgeInv, Asked
  <2>1. open[f] # None /\ (Asked(open[f]) \/ open[f] = c)
    BY <1>4, Apart DEF HttpInv, EdgeInv
  <2>2. PICK d \in Clients : d = open[f]
    BY <1>2, <2>1
  <2>3. Asked(d)'
    BY <1>10, <2>1, <2>2
  <2> QED
    BY <1>1, <2>1, <2>2, <2>3, Zenon DEF Asked
<1>12. ReadInv'
  <2>1. cur \in Fds => open[cur] # None
    BY DEF HttpInv, EdgeInv
  <2> QED
    BY <1>1, <1>2, <1>5, <2>1, Zenon DEF HttpInv, ReadInv, HeaderEnd, Has
<1>13. WholeRequestAnswered'
  BY <1>3 DEF HttpInv, WholeRequestAnswered
<1> QED
  BY <1>6, <1>7, <1>8, <1>9, <1>11, <1>12, <1>13 DEF HttpInv

\* A wait takes the first edges; the eventfd stays ready.
LEMMA WaitKeeps == ASSUME HttpInv, EpollWait PROVE HttpInv'
<1>1. PICK n : n = IF Len(ready) < MaxEvents THEN Len(ready) ELSE MaxEvents
  OBVIOUS
<1>2. PICK taken : taken = SubSeq(ready, 1, n)
  BY Zenon
<1>3. PICK rest : rest = SubSeq(ready, n + 1, Len(ready))
  BY Zenon
<1>4. PICK again : again = IF stop_fd_ \in Range(taken) THEN <<stop_fd_>> ELSE <<>>
  BY Zenon
<1>5. /\ hpc = "run" /\ events' = taken /\ ready' = rest \o again
      /\ UNCHANGED <<sockets, running_, hpc, cur, open, read_bufs_, backlog, peer, accept_err>>
  BY <1>1, <1>2, <1>3, <1>4, Zenon DEF EpollWait
<1>6. n \in 0..Len(ready)
  <2>1. Len(ready) \in Nat /\ MaxEvents \in Nat
    BY RequestAssumption DEF HttpInv, QueueType
  <2> QED
    BY <1>1, <2>1
<1>7. /\ taken \in Seq(Watched) /\ rest \in Seq(Watched) /\ Range(ready) = Range(taken) \cup Range(rest)
      /\ IsInjective(taken) /\ IsInjective(rest) /\ Range(taken) \cap Range(rest) = {}
  <2>1. /\ SubSeq(ready, 1, n) \in Seq(Watched) /\ SubSeq(ready, n + 1, Len(ready)) \in Seq(Watched)
        /\ Range(ready) = Range(SubSeq(ready, 1, n)) \cup Range(SubSeq(ready, n + 1, Len(ready)))
        /\ IsInjective(SubSeq(ready, 1, n)) /\ IsInjective(SubSeq(ready, n + 1, Len(ready)))
        /\ Range(SubSeq(ready, 1, n)) \cap Range(SubSeq(ready, n + 1, Len(ready))) = {}
    BY <1>6, SplitRange DEF HttpInv, QueueType
  <2> QED
    BY <1>2, <1>3, <2>1, Zenon
<1>8. again \in Seq(Watched) /\ IsInjective(again) /\ Range(again) = Range(taken) \cap {stop_fd_}
  <2>1. CASE stop_fd_ \in Range(taken)
    <3>1. again = <<stop_fd_>>
      BY <1>4, <2>1
    <3>2. Range(<<stop_fd_>>) = {stop_fd_} /\ IsInjective(<<stop_fd_>>) /\ <<stop_fd_>> \in Seq(Watched)
      BY DEF Range, IsInjective, Watched
    <3>3. Range(taken) \cap {stop_fd_} = {stop_fd_}
      BY <2>1
    <3> QED
      BY <3>1, <3>2, <3>3, Zenon
  <2>2. CASE stop_fd_ \notin Range(taken)
    <3>1. again = <<>>
      BY <1>4, <2>2
    <3>2. Range(<<>>) = {} /\ IsInjective(<<>>) /\ <<>> \in Seq(Watched)
      BY DEF Range, IsInjective
    <3>3. Range(taken) \cap {stop_fd_} = {}
      BY <2>2
    <3> QED
      BY <3>1, <3>2, <3>3, Zenon
  <2> QED
    BY <2>1, <2>2
<1>9. Range(rest) \cap Range(again) = {}
  BY <1>7, <1>8
<1>10. rest \o again \in Seq(Watched) /\ IsInjective(rest \o again) /\ Range(rest \o again) = Range(rest) \cup Range(again)
  <2>1. rest \in Seq(Watched) /\ again \in Seq(Watched) /\ IsInjective(rest) /\ IsInjective(again) /\ Range(rest) \cap Range(again) = {}
    BY <1>7, <1>8, <1>9, Zenon
  <2> QED
    BY <2>1, ConcatRange
<1>11. ready' \in Seq(Watched) /\ IsInjective(ready') /\ Range(ready') = Range(rest) \cup Range(again)
  BY <1>5, <1>10, Zenon
<1>12. ServerType' /\ PeerType' /\ ConnInv' /\ WholeRequestAnswered'
  BY <1>5, Zenon DEF HttpInv, ServerType, PeerType, ConnInv, WholeRequestAnswered
<1>13. QueueType'
  BY <1>5, <1>7, <1>11 DEF HttpInv, QueueType
<1>14. cur \notin Fds /\ cur = None
  BY <1>5 DEF HttpInv, ServerType
<1>15. EdgeInv'
  <2>1. Range(ready') \cup Range(events') \subseteq Range(ready) \cup {stop_fd_}
    BY <1>5, <1>7, <1>8, <1>11
  <2> QED
    BY <1>5, <1>14, <2>1, Apart, Zenon DEF HttpInv, EdgeInv, Asked
<1>16. ReadInv'
  BY <1>5, <1>14 DEF ReadInv
<1> QED
  BY <1>12, <1>13, <1>15, <1>16 DEF HttpInv

\* Between two calls of handle_client no client has data read.
LEMMA NothingRead ==
  ASSUME HttpInv, hpc \notin {"read", "handle"}
  PROVE  cur \notin Fds /\ \A c \in Clients : peer[c].phase = "connected" => peer[c].got = 0
BY DEF HttpInv, ServerType, ConnInv

\* The loop over the events.
LEMMA DispatchKeeps == ASSUME HttpInv, BufferInv, Dispatch PROVE HttpInv'
<1>1. /\ hpc = "run" /\ events # <<>>
      /\ UNCHANGED <<sockets, ready, open, read_bufs_, backlog, peer, accept_err>>
  BY DEF Dispatch
<1>2. /\ events \in Seq(Watched) /\ IsInjective(events)
      /\ Head(events) \in Watched /\ Tail(events) \in Seq(Watched) /\ Range(events) = {Head(events)} \cup Range(Tail(events))
      /\ Head(events) \notin Range(Tail(events)) /\ IsInjective(Tail(events))
  BY <1>1, TailRange DEF HttpInv, QueueType
<1>3. cur \notin Fds /\ \A c \in Clients : peer[c].phase = "connected" => peer[c].got = 0
  BY <1>1, NothingRead
<1>4. PeerType' /\ WholeRequestAnswered'
  BY <1>1 DEF HttpInv, PeerType, WholeRequestAnswered
<1>5. ASSUME hpc' \notin {"read", "handle"}, hpc' \in {"run", "accept"}, cur' = cur, running_' \in BOOLEAN,
             events' = <<>> \/ events' = Tail(events)
      PROVE  HttpInv'
  <2>1. events' \in Seq(Watched) /\ IsInjective(events') /\ Range(events') \subseteq Range(events)
    <3>1. Range(<<>>) = {} /\ IsInjective(<<>>)
      BY DEF Range, IsInjective
    <3>2. CASE events' = <<>>
      BY <3>1, <3>2
    <3>3. CASE events' = Tail(events)
      BY <1>2, <3>3
    <3> QED
      BY <1>5, <3>2, <3>3
  <2>2. ServerType'
    BY <1>1, <1>3, <1>5 DEF HttpInv, ServerType
  <2>3. QueueType'
    BY <1>1, <2>1 DEF HttpInv, QueueType
  <2>4. ConnInv'
    BY <1>1, <1>5 DEF HttpInv, ConnInv
  <2>5. EdgeInv' /\ ReadInv'
    BY <1>1, <1>3, <1>5, <2>1 DEF HttpInv, EdgeInv, Asked, ReadInv
  <2> QED
    BY <1>4, <2>2, <2>3, <2>4, <2>5 DEF HttpInv
<1>6. CASE Head(events) = stop_fd_ /\ running_' = FALSE /\ events' = <<>> /\ UNCHANGED <<hpc, cur>>
  BY <1>1, <1>5, <1>6, Zenon
<1>7. CASE Head(events) = listen_fd_ /\ hpc' = "accept" /\ events' = Tail(events) /\ UNCHANGED <<running_, cur>>
  BY <1>5, <1>7 DEF HttpInv, ServerType
<1>8. CASE /\ Head(events) \in Fds /\ hpc' = "read" /\ cur' = Head(events) /\ events' = Tail(events)
           /\ UNCHANGED running_
  <2>1. PICK f \in Fds : f = Head(events)
    BY <1>8
  <2>2. cur' = f /\ f \in Range(events) /\ f \notin Range(events') /\ Range(events') \subseteq Range(events)
    BY <1>2, <1>8, <2>1
  <2>3. open[f] # None /\ Asked(open[f])
    BY <2>2 DEF HttpInv, EdgeInv
  <2>4. PICK c \in Clients : c = open[f]
    BY <2>3 DEF HttpInv, ServerType
  <2>5. peer[c].phase = "connected" /\ peer[c].got = 0
    BY <1>3, <2>3, <2>4 DEF HttpInv, ConnInv
  <2>6. ServerType'
    BY <1>1, <1>8, <2>2 DEF HttpInv, ServerType
  <2>7. QueueType'
    BY <1>1, <1>2, <1>8 DEF HttpInv, QueueType
  <2>8. ConnInv'
    BY <1>1, <1>3, <2>2 DEF HttpInv, ConnInv
  <2>9. EdgeInv'
    BY <1>1, <2>2, <2>3, Zenon DEF HttpInv, EdgeInv, Asked
  <2>10. ReadInv'
    <3>1. read_bufs_[f] = {}
      BY <1>1, EmptyBetween
    <3>2. {<<c, i>> : i \in 1..peer[c].got} = {}
      BY <2>5
    <3>3. ~HeaderEnd({})
      BY DEF HeaderEnd, Has
    <3> QED
      BY <1>1, <1>8, <2>2, <2>4, <3>1, <3>2, <3>3, Zenon DEF ReadInv, HeaderEnd, Has
  <2> QED
    BY <1>4, <2>6, <2>7, <2>8, <2>9, <2>10 DEF HttpInv
<1> QED
  BY <1>6, <1>7, <1>8, Zenon DEF Dispatch

\* The end of run, and of accept_clients.
LEMMA LeaveKeeps == ASSUME HttpInv, NEW limit, NEW fails, LeaveRun \/ AcceptBreak(limit, fails) PROVE HttpInv'
<1>1. /\ UNCHANGED <<running_, ready, events, cur, open, read_bufs_, backlog, peer>>
      /\ hpc \in {"run", "accept"} /\ hpc' \in {"run", "exited"}
      /\ accept_err' \in {accept_err, TRUE} /\ sockets' \in {sockets, {}}
  BY Zenon DEF LeaveRun, AcceptBreak
<1>2. cur \notin Fds
  BY <1>1, NothingRead
<1>3. ServerType'
  BY <1>1, <1>2, Zenon DEF HttpInv, ServerType
<1>4. PeerType' /\ QueueType' /\ ConnInv' /\ WholeRequestAnswered'
  BY <1>1, Zenon DEF HttpInv, PeerType, QueueType, ConnInv, WholeRequestAnswered
<1>5. EdgeInv' /\ ReadInv'
  BY <1>1, <1>2, Zenon DEF HttpInv, EdgeInv, Asked, ReadInv
<1> QED
  BY <1>3, <1>4, <1>5 DEF HttpInv

\* accept4 and epoll_add: the oldest connection gets a free descriptor.
LEMMA AcceptKeeps == ASSUME HttpInv, NEW limit \in SUBSET Fds, AcceptOne(limit) PROVE HttpInv'
<1>1. PICK c : c = Head(backlog)
  OBVIOUS
<1>2. PICK f \in limit : /\ open[f] = None /\ open' = [open EXCEPT ![f] = c]
                         /\ ready' = IF EdgeOnAdd(c) THEN Raised(f) ELSE ready
  BY <1>1, Zenon DEF AcceptOne
<1>3. /\ hpc = "accept" /\ backlog # <<>> /\ backlog' = Tail(backlog) /\ hpc' = "accept"
      /\ UNCHANGED <<sockets, running_, events, cur, read_bufs_, peer, accept_err>>
  BY Zenon DEF AcceptOne, AfterAccept
<1>4. f \in Fds /\ open \in [Fds -> Clients \cup {None}] /\ backlog \in Seq(Clients)
  BY DEF HttpInv, ServerType, QueueType
<1>5. /\ c \in Clients /\ Tail(backlog) \in Seq(Clients) /\ Range(backlog) = {c} \cup Range(Tail(backlog))
      /\ c \notin Range(Tail(backlog)) /\ IsInjective(Tail(backlog))
  <2>1. IsInjective(backlog)
    BY DEF HttpInv, QueueType
  <2> QED
    BY <1>1, <1>3, <1>4, <2>1, TailRange
<1>6. backlog' \in Seq(Clients) /\ c \notin Range(backlog') /\ IsInjective(backlog') /\ Range(backlog') \subseteq Range(backlog)
      /\ c \in Range(backlog)
  BY <1>3, <1>5
<1>7. open' \in [Fds -> Clients \cup {None}] /\ open'[f] = c /\ \A g \in Fds : g # f => open'[g] = open[g]
  BY <1>2, <1>4, <1>5
<1>8. peer[c].phase = "connected" /\ \A g \in Fds : open[g] # c
  <2>1. /\ \A g \in Fds : open[g] # None => open[g] \notin Range(backlog)
        /\ \A d \in Range(backlog) : peer[d].phase = "connected"
    BY Zenon DEF HttpInv, ConnInv
  <2>2. c # None
    BY <1>5, Apart, Zenon
  <2> QED
    BY <1>6, <2>1, <2>2, Zenon
<1>9. cur \notin Fds
  BY <1>3, NothingRead
<1>10. /\ ready' \in Seq(Watched) /\ IsInjective(ready')
       /\ \A g \in Range(ready') : g \in Range(ready) \/ (g = f /\ Asked(c))
  <2>1. CASE EdgeOnAdd(c)
    <3>1. Raised(f) \in Seq(Watched) /\ IsInjective(Raised(f)) /\ Range(Raised(f)) = Range(ready) \cup {f}
      BY <1>4, RaisedRange DEF HttpInv, Watched
    <3>2. ready' = Raised(f)
      BY <1>2, <2>1
    <3>3. Asked(c)
      BY <2>1 DEF EdgeOnAdd, Asked
    <3>4. ready' \in Seq(Watched) /\ IsInjective(ready') /\ Range(ready') = Range(ready) \cup {f}
      BY <3>1, <3>2, Zenon
    <3> QED
      BY <3>3, <3>4
  <2>2. CASE ~EdgeOnAdd(c)
    BY <1>2, <2>2 DEF HttpInv, QueueType
  <2> QED
    BY <2>1, <2>2
<1>11. ServerType'
  BY <1>3, <1>7, <1>9 DEF HttpInv, ServerType
<1>12. PeerType' /\ WholeRequestAnswered'
  BY <1>3, Zenon DEF HttpInv, PeerType, WholeRequestAnswered
<1>13. QueueType'
  BY <1>3, <1>6, <1>10 DEF HttpInv, QueueType
<1>14. ConnInv'
  <2>1. \A g, h \in Fds : open'[g] = open'[h] /\ open'[g] # None => g = h
    BY <1>4, <1>7, <1>8, Zenon DEF HttpInv, ConnInv
  <2>2. \A g \in Fds : open'[g] # None => peer[open'[g]].phase = "connected" /\ open'[g] \notin Range(backlog')
    <3>1. \A g \in Fds : open[g] # None => peer[open[g]].phase = "connected" /\ open[g] \notin Range(backlog)
      BY DEF HttpInv, ConnInv
    <3>2. ASSUME NEW g \in Fds, open'[g] # None
          PROVE  peer[open'[g]].phase = "connected" /\ open'[g] \notin Range(backlog')
      <4>1. CASE g = f
        BY <1>6, <1>7, <1>8, <4>1, Zenon
      <4>2. CASE g # f
        BY <1>6, <1>7, <3>1, <3>2, <4>2, Zenon
      <4> QED
        BY <4>1, <4>2
    <3> QED
      BY <3>2
  <2>3. \A d \in Range(backlog') : peer[d].phase = "connected"
    BY <1>6 DEF HttpInv, ConnInv
  <2>4. \A d \in Clients : ~(peer[d].got # 0 /\ peer[d].phase = "connected")
    BY <1>9 DEF HttpInv, ConnInv
  <2> QED
    BY <1>3, <2>1, <2>2, <2>3, <2>4, Zenon DEF ConnInv
<1>15. EdgeInv'
  <2> SUFFICES ASSUME NEW g \in Fds, g \in Range(ready') \cup Range(events)
               PROVE  open'[g] # None /\ Asked(open'[g])
    BY <1>3, <1>9, Zenon DEF EdgeInv, Asked
  <2>1. CASE g \in Range(ready) \cup Range(events)
    <3>1. open[g] # None /\ Asked(open[g])
      BY <2>1 DEF HttpInv, EdgeInv
    <3>2. open'[g] = open[g]
      BY <1>2, <1>7, <3>1
    <3> QED
      BY <3>1, <3>2
  <2>2. CASE g = f /\ Asked(c)
    BY <1>5, <1>7, <2>2, Apart, Zenon
  <2> QED
    BY <1>10, <2>1, <2>2
<1>16. ReadInv'
  BY <1>3, <1>9, Zenon DEF ReadInv
<1> QED
  BY <1>11, <1>12, <1>13, <1>14, <1>15, <1>16 DEF HttpInv

\* handle_client works on the descriptor of one connected client.
LEMMA CurrentClient ==
  ASSUME HttpInv, hpc \in {"read", "handle"}
  PROVE  /\ cur \in Fds /\ open[cur] \in Clients /\ open[cur] # None
         /\ peer[open[cur]].phase = "connected" /\ Asked(open[cur])
         /\ peer[open[cur]] \in Peers /\ peer[open[cur]].got \in Nat /\ peer[open[cur]].sent \in Nat
         /\ peer[open[cur]].got <= peer[open[cur]].sent
<1>1. cur \in Fds /\ open[cur] # None /\ Asked(open[cur]) /\ open \in [Fds -> Clients \cup {None}]
  BY DEF HttpInv, ServerType, EdgeInv
<1>2. open[cur] \in Clients /\ peer[open[cur]].phase = "connected"
  BY <1>1 DEF HttpInv, ConnInv
<1>3. peer[open[cur]] \in Peers /\ peer[open[cur]].got <= peer[open[cur]].sent
  BY <1>2 DEF HttpInv, PeerType
<1> QED
  BY <1>1, <1>2, <1>3, Zenon DEF Peers

\* read(2) returns what was sent and not yet read.
LEMMA ReadDataKeeps == ASSUME HttpInv, BufferInv, ReadData PROVE HttpInv'
<1>1. PICK c : c = open[cur]
  OBVIOUS
<1>2. PICK buf : buf = read_bufs_[cur] \cup {<<c, i>> : i \in peer[c].got + 1 .. peer[c].sent}
  BY Zenon
<1>3. /\ hpc = "read" /\ Unread(c) /\ read_bufs_' = [read_bufs_ EXCEPT ![cur] = buf]
      /\ peer' = [peer EXCEPT ![c].got = peer[c].sent]
      /\ hpc' = IF HeaderEnd(buf) THEN "handle" ELSE "read"
      /\ UNCHANGED <<sockets, running_, ready, events, cur, open, backlog, accept_err>>
  BY <1>1, <1>2, Zenon DEF ReadData
<1>4. /\ cur \in Fds /\ c \in Clients /\ peer[c].phase = "connected" /\ peer[c] \in Peers
      /\ peer[c].got \in Nat /\ peer[c].sent \in Nat /\ peer[c].got < peer[c].sent
  BY <1>1, <1>3, CurrentClient DEF Unread
<1>5. /\ peer' \in [Clients -> Peers] /\ peer'[c].got = peer[c].sent /\ peer'[c].sent = peer[c].sent
      /\ peer'[c].phase = "connected" /\ peer'[c].bye = peer[c].bye /\ peer'[c].reply = peer[c].reply
      /\ \A d \in Clients : d # c => peer'[d] = peer[d]
  BY <1>3, <1>4, Zenon DEF HttpInv, PeerType, Peers
<1>6. \A d \in Clients : peer'[d].phase = peer[d].phase /\ peer'[d].sent = peer[d].sent /\ peer'[d].bye = peer[d].bye
  BY <1>4, <1>5
<1>7. ServerType'
  BY <1>3, <1>4 DEF HttpInv, ServerType
<1>8. PeerType'
  BY <1>4, <1>5 DEF HttpInv, PeerType
<1>9. QueueType'
  BY <1>3 DEF HttpInv, QueueType
<1>10. open \in [Fds -> Clients \cup {None}] /\ Range(backlog) \subseteq Clients
  BY RangeType, Zenon DEF HttpInv, ServerType, QueueType
<1>11. ConnInv'
  <2>1. \A d \in Clients : peer'[d].got # 0 /\ peer'[d].phase = "connected" => cur \in Fds /\ open[cur] = d
    BY <1>1, <1>4, <1>5, Zenon DEF HttpInv, ConnInv
  <2>2. \A f \in Fds : open[f] # None => peer'[open[f]].phase = "connected" /\ open[f] \notin Range(backlog)
    BY <1>6, <1>10, Zenon DEF HttpInv, ConnInv
  <2>3. \A d \in Range(backlog) : peer'[d].phase = "connected"
    BY <1>6, <1>10 DEF HttpInv, ConnInv
  <2> QED
    BY <1>3, <2>1, <2>2, <2>3 DEF HttpInv, ConnInv
<1>12. EdgeInv'
  BY <1>3, <1>6, <1>10 DEF HttpInv, EdgeInv, Asked
<1>13. ReadInv'
  <2>1. read_bufs_'[cur] = buf
    BY <1>3, <1>4 DEF BufferInv
  <2>2. read_bufs_[cur] = {<<c, i>> : i \in 1..peer[c].got}
    BY <1>1, <1>4 DEF HttpInv, ReadInv
  <2>3. \A i : i \in 1..peer[c].sent <=> i \in 1..peer[c].got \/ i \in peer[c].got + 1 .. peer[c].sent
    BY <1>4
  <2>4. buf = {<<c, i>> : i \in 1..peer[c].sent}
    BY <1>2, <2>2, <2>3
  <2>5. open' = open /\ cur' = cur
    BY <1>3
  <2>6. read_bufs_'[cur'] = {<<open'[cur'], i>> : i \in 1..peer'[open'[cur']].got}
    BY <1>1, <1>5, <2>1, <2>4, <2>5, Zenon
  <2>7. hpc' = "read" => ~HeaderEnd(read_bufs_'[cur'])
    BY <1>3, <2>1, <2>5
  <2>8. peer'[open'[cur']].got > 0
    <3>1. peer[c].got \in Nat /\ peer[c].sent \in Nat /\ peer[c].got < peer[c].sent
      BY <1>4, Zenon
    <3>2. peer'[open'[cur']].got = peer[c].sent
      BY <1>1, <1>5, <2>5, Zenon
    <3> QED
      BY <3>1, <3>2, SMT
  <2> QED
    BY <2>6, <2>7, <2>8 DEF ReadInv, HeaderEnd, Has
<1>14. WholeRequestAnswered'
  BY <1>5 DEF HttpInv, WholeRequestAnswered
<1> QED
  BY <1>7, <1>8, <1>9, <1>11, <1>12, <1>13, <1>14 DEF HttpInv

\* EAGAIN comes only after something was read.
LEMMA ReadAgainKeeps == ASSUME HttpInv, ReadAgain PROVE HttpInv'
<1>1. /\ hpc = "read" /\ ~Unread(open[cur]) /\ peer[open[cur]].bye = "no" /\ hpc' = "handle"
      /\ UNCHANGED <<sockets, running_, ready, events, cur, open, read_bufs_, backlog, peer, accept_err>>
  BY Zenon DEF ReadAgain
<1>2. /\ cur \in Fds /\ peer[open[cur]].got \in Nat /\ peer[open[cur]].sent \in Nat /\ Asked(open[cur])
      /\ peer[open[cur]].got <= peer[open[cur]].sent
  BY <1>1, CurrentClient, Zenon
<1>3. peer[open[cur]].got > 0
  <2>1. peer[open[cur]].sent > 0 /\ ~(peer[open[cur]].got < peer[open[cur]].sent)
    BY <1>1, <1>2, Zenon DEF Unread, Asked
  <2>2. peer[open[cur]].got \in Nat /\ peer[open[cur]].sent \in Nat
    BY <1>2, Zenon
  <2> QED
    BY <2>1, <2>2, SMT
<1>4. ServerType' /\ PeerType' /\ QueueType' /\ ConnInv' /\ EdgeInv' /\ WholeRequestAnswered'
  BY <1>1, Zenon DEF HttpInv, ServerType, PeerType, QueueType, ConnInv, EdgeInv, Asked, WholeRequestAnswered
<1>5. ReadInv'
  BY <1>1, <1>2, <1>3, Zenon DEF HttpInv, ReadInv
<1> QED
  BY <1>4, <1>5 DEF HttpInv

\* close_client: nobody else has data read, and no edge names the descriptor
\* any more.
LEMMA CloseKeeps ==
  ASSUME HttpInv, hpc \in {"read", "handle"}, close_client, NEW c, c = open[cur],
         NEW rec \in Peers, peer' = [peer EXCEPT ![c] = rec],
         rec.phase = "closed", rec.sent = peer[c].sent, rec.got = peer[c].got, rec.bye = peer[c].bye,
         Segments[c] = <<"whole">> =>
           \/ rec.reply = IF c \in Known THEN "200" ELSE "404"
           \/ rec.reply = "none" /\ (rec.bye = "rst" \/ (rec.bye = "fin" /\ rec.sent = 0))
  PROVE  HttpInv'
<1>1. /\ open' = [open EXCEPT ![cur] = None] /\ ready' = Cleared(cur) /\ cur' = None /\ hpc' = "run"
      /\ UNCHANGED <<sockets, running_, events, backlog, accept_err>>
  BY Zenon DEF close_client
<1>2. cur \in Fds /\ c \in Clients /\ c # None /\ peer[c].phase = "connected"
  BY CurrentClient
<1>3. /\ open \in [Fds -> Clients \cup {None}] /\ peer \in [Clients -> Peers] /\ Range(backlog) \subseteq Clients
  BY RangeType, Zenon DEF HttpInv, ServerType, PeerType, QueueType
<1>4. /\ open' \in [Fds -> Clients \cup {None}] /\ open'[cur] = None
      /\ \A f \in Fds : f # cur => open'[f] = open[f] /\ open[f] # c
  BY <1>1, <1>2, <1>3 DEF HttpInv, ConnInv
<1>5. peer' \in [Clients -> Peers] /\ peer'[c] = rec /\ \A d \in Clients : d # c => peer'[d] = peer[d]
  BY <1>2, <1>3
<1>6. ready' \in Seq(Watched) /\ IsInjective(ready') /\ Range(ready') = Range(ready) \ {cur}
  BY <1>1, ClearedRange, Zenon DEF HttpInv
<1>7. ServerType'
  BY <1>1, <1>4, Apart, Zenon DEF HttpInv, ServerType
<1>8. PeerType'
  <2>1. rec.phase # "new" /\ rec.got <= rec.sent /\ rec.sent <= Len(Segments[c])
    BY <1>2 DEF HttpInv, PeerType
  <2> QED
    BY <1>5, <2>1, Zenon DEF HttpInv, PeerType
<1>9. QueueType'
  BY <1>1, <1>6, Zenon DEF HttpInv, QueueType
<1>10. c \notin Range(backlog)
  BY <1>2, Zenon DEF HttpInv, ConnInv
<1>11. ConnInv'
  <2>0. /\ \A f, g \in Fds : open[f] = open[g] /\ open[f] # None => f = g
        /\ \A f \in Fds : open[f] # None => peer[open[f]].phase = "connected" /\ open[f] \notin Range(backlog)
    BY Zenon DEF HttpInv, ConnInv
  <2>1. ASSUME NEW f \in Fds, NEW g \in Fds, open'[f] = open'[g], open'[f] # None PROVE f = g
    <3>1. f # cur /\ g # cur
      BY <1>4, <2>1, Zenon
    <3> QED
      BY <1>4, <2>0, <2>1, <3>1, Zenon
  <2>2. ASSUME NEW f \in Fds, open'[f] # None
        PROVE  peer'[open'[f]].phase = "connected" /\ open'[f] \notin Range(backlog)
    <3>1. f # cur
      BY <1>4, <2>2
    <3>2. PICK d : d = open[f]
      OBVIOUS
    <3>3. open'[f] = d /\ d # c /\ d # None
      BY <1>4, <2>2, <3>1, <3>2
    <3>4. d \in Clients /\ peer[d].phase = "connected" /\ d \notin Range(backlog)
      BY <1>3, <2>0, <3>2, <3>3, Zenon
    <3> QED
      BY <1>5, <3>3, <3>4, Zenon
  <2>3. \A d \in Range(backlog) : peer'[d].phase = "connected"
    BY <1>3, <1>5, <1>10, Zenon DEF HttpInv, ConnInv
  <2>4. \A d \in Clients : ~(peer'[d].got # 0 /\ peer'[d].phase = "connected")
    BY <1>5, Zenon DEF HttpInv, ConnInv
  <2> QED
    BY <1>1, <2>1, <2>2, <2>3, <2>4, Zenon DEF ConnInv
<1>12. EdgeInv'
  <2> SUFFICES ASSUME NEW f \in Fds, f \in Range(ready') \cup Range(events)
               PROVE  (open[f] # None /\ Asked(open[f]))'
    BY <1>1, Apart, Zenon DEF EdgeInv, Asked
  <2>1. f # cur /\ f \in Range(ready) \cup Range(events)
    BY <1>2, <1>6, Zenon DEF HttpInv, EdgeInv
  <2>2. PICK d : d = open[f]
    BY Zenon
  <2>3. d # None /\ (peer[d].sent > 0 \/ peer[d].bye # "no") /\ d = open'[f] /\ d # c
    BY <1>4, <2>1, <2>2, Zenon DEF HttpInv, EdgeInv, Asked
  <2>4. peer'[d] = peer[d]
    BY <1>3, <1>5, <2>2, <2>3, Zenon
  <2>5. open'[f] # None /\ (peer'[open'[f]].sent > 0 \/ peer'[open'[f]].bye # "no")
    BY <2>3, <2>4, Zenon
  <2> QED
    BY <2>5 DEF Asked
<1>13. ReadInv'
  BY <1>1, Apart, Zenon DEF ReadInv
<1>14. WholeRequestAnswered'
  BY <1>5, Zenon DEF HttpInv, WholeRequestAnswered
<1> QED
  BY <1>7, <1>8, <1>9, <1>11, <1>12, <1>13, <1>14, Zenon DEF HttpInv

\* The client hung up: a whole request would have been seen.
LEMMA ReadEndKeeps == ASSUME HttpInv, ReadEnd PROVE HttpInv'
<1>1. PICK c : c = open[cur]
  OBVIOUS
<1>2. /\ hpc = "read" /\ ~Unread(c) /\ peer[c].bye # "no" /\ close_client
      /\ peer' = [peer EXCEPT ![c].phase = "closed"]
  BY <1>1 DEF ReadEnd
<1>3. PICK rec : rec = [peer[c] EXCEPT !.phase = "closed"]
  BY Zenon
<1>4. /\ c \in Clients /\ peer[c].phase = "connected" /\ peer[c] \in Peers
      /\ peer[c].got \in Nat /\ peer[c].sent \in Nat /\ peer[c].got <= peer[c].sent /\ cur \in Fds
  BY <1>1, <1>2, CurrentClient
<1>5. /\ rec \in Peers /\ rec.phase = "closed" /\ rec.sent = peer[c].sent /\ rec.got = peer[c].got
      /\ rec.bye = peer[c].bye /\ rec.reply = peer[c].reply
  BY <1>3, <1>4 DEF Peers
<1>6. peer' = [peer EXCEPT ![c] = rec]
  BY <1>2, <1>3
<1>7. peer[c].reply = "none"
  BY <1>4 DEF HttpInv, PeerType
<1>8. ASSUME Segments[c] = <<"whole">> PROVE rec.bye = "rst" \/ (rec.bye = "fin" /\ rec.sent = 0)
  <2>1. CASE peer[c].bye = "fin"
    <3>1. peer[c].got = peer[c].sent
      BY <1>2, <1>4, <2>1 DEF Unread
    <3>2. ASSUME peer[c].got > 0 PROVE FALSE
      <4>1. <<c, 1>> \in read_bufs_[cur]
        BY <1>1, <1>4, <3>2 DEF HttpInv, ReadInv
      <4>2. HeaderEnd(read_bufs_[cur])
        BY <1>8, <4>1 DEF HeaderEnd, Has
      <4> QED
        BY <1>2, <1>4, <4>2 DEF HttpInv, ReadInv
    <3> QED
      BY <1>4, <1>5, <2>1, <3>1, <3>2
  <2> QED
    BY <1>2, <1>4, <1>5, <2>1 DEF Peers
<1>9. Segments[c] = <<"whole">> =>
        \/ rec.reply = IF c \in Known THEN "200" ELSE "404"
        \/ rec.reply = "none" /\ (rec.bye = "rst" \/ (rec.bye = "fin" /\ rec.sent = 0))
  BY <1>5, <1>7, <1>8
<1>10. hpc \in {"read", "handle"} /\ close_client
  BY <1>2
<1> QED
  BY <1>1, <1>5, <1>6, <1>9, <1>10, CloseKeeps, Zenon

\* The answer: a request that came in one piece gets its route's status.
LEMMA RespondKeeps == ASSUME HttpInv, Respond PROVE HttpInv'
<1>1. PICK c : c = open[cur]
  OBVIOUS
<1>2. PICK status : status = Status(read_bufs_[cur])
  OBVIOUS
<1>3. /\ hpc = "handle" /\ close_client
      /\ peer' = [peer EXCEPT ![c].phase = "closed", ![c].reply = status]
  BY <1>1, <1>2 DEF Respond
<1>4. PICK rec : rec = [peer[c] EXCEPT !.phase = "closed", !.reply = status]
  OBVIOUS
<1>5. /\ c \in Clients /\ peer[c] \in Peers /\ peer[c].got \in Nat /\ peer[c].sent \in Nat
      /\ peer[c].got <= peer[c].sent /\ cur \in Fds
  BY <1>1, <1>3, CurrentClient
<1>6. status \in {"200", "404"}
  BY <1>2 DEF Status
<1>7. /\ rec \in Peers /\ rec.phase = "closed" /\ rec.sent = peer[c].sent /\ rec.got = peer[c].got
      /\ rec.bye = peer[c].bye /\ rec.reply = status
  BY <1>4, <1>5, <1>6, Zenon DEF Peers
<1>8. peer' = [peer EXCEPT ![c] = rec]
  BY <1>3, <1>4, <1>5, Zenon DEF HttpInv, PeerType, Peers
<1>9. ASSUME Segments[c] = <<"whole">> PROVE status = IF c \in Known THEN "200" ELSE "404"
  <2>1. read_bufs_[cur] = {<<c, i>> : i \in 1..peer[c].got} /\ peer[c].got > 0
    BY <1>1, <1>3, <1>5 DEF HttpInv, ReadInv
  <2>2. peer[c].sent <= 1
    BY <1>5, <1>9, Zenon DEF HttpInv, PeerType
  <2>3. peer[c].got = 1
    BY <1>5, <2>1, <2>2
  <2>4. read_bufs_[cur] = {<<c, 1>>}
    BY <2>1, <2>3
  <2>5. Segments[c][1] = "whole"
    BY <1>9
  <2>6. CASE c \in Known
    <3>1. <<c, 1>> \in {x \in read_bufs_[cur] : x[1] \in Known}
      BY <2>4, <2>6
    <3>2. Has({x \in read_bufs_[cur] : x[1] \in Known}, {"line", "whole"})
      BY <2>5, <3>1 DEF Has
    <3> QED
      BY <1>2, <2>6, <3>2 DEF Status
  <2>7. CASE c \notin Known
    <3>1. {x \in read_bufs_[cur] : x[1] \in Known} = {}
      BY <2>4, <2>7
    <3>2. ~Has({}, {"line", "whole"})
      BY DEF Has
    <3>3. ~Has({x \in read_bufs_[cur] : x[1] \in Known}, {"line", "whole"})
      BY <3>1, <3>2, Zenon
    <3> QED
      BY <1>2, <2>7, <3>3 DEF Status
  <2> QED
    BY <2>6, <2>7
<1>10. Segments[c] = <<"whole">> =>
         \/ rec.reply = IF c \in Known THEN "200" ELSE "404"
         \/ rec.reply = "none" /\ (rec.bye = "rst" \/ (rec.bye = "fin" /\ rec.sent = 0))
  BY <1>7, <1>9
<1>11. hpc \in {"read", "handle"} /\ close_client
  BY <1>3
<1> QED
  BY <1>1, <1>7, <1>8, <1>10, <1>11, CloseKeeps, Zenon

\* What run_monitor does to the server from outside its thread.
LEMMA OutsideKeeps ==
  ASSUME HttpInv, UNCHANGED <<events, cur, open, read_bufs_, backlog, peer, accept_err>>,
         sockets' \subseteq ServerFds, running_' \in BOOLEAN,
         hpc' = hpc \/ (hpc' = "run" /\ hpc \notin {"read", "handle"}),
         ready' = ready \/ ready' = Raised(stop_fd_)
  PROVE  HttpInv'
<1>1. ready' \in Seq(Watched) /\ IsInjective(ready') /\ Range(ready') \subseteq Range(ready) \cup {stop_fd_}
  <2>1. CASE ready' = ready
    BY <2>1 DEF HttpInv, QueueType
  <2>2. CASE ready' = Raised(stop_fd_)
    <3>1. /\ Raised(stop_fd_) \in Seq(Watched) /\ IsInjective(Raised(stop_fd_))
          /\ Range(Raised(stop_fd_)) = Range(ready) \cup {stop_fd_}
      BY RaisedRange DEF HttpInv, Watched
    <3>2. ready' \in Seq(Watched) /\ IsInjective(ready') /\ Range(ready') = Range(ready) \cup {stop_fd_}
      BY <2>2, <3>1, Zenon
    <3> QED
      BY <3>2
  <2> QED
    BY <2>1, <2>2
<1>2. ServerType'
  BY DEF HttpInv, ServerType
<1>3. PeerType' /\ ConnInv' /\ WholeRequestAnswered'
  BY Zenon DEF HttpInv, PeerType, ConnInv, WholeRequestAnswered
<1>4. QueueType'
  BY <1>1 DEF HttpInv, QueueType
<1>5. EdgeInv'
  BY <1>1, Apart, Zenon DEF HttpInv, EdgeInv, Asked
<1>6. ReadInv'
  BY Zenon DEF HttpInv, ReadInv, ServerType, HeaderEnd, Has
<1> QED
  BY <1>2, <1>3, <1>4, <1>5, <1>6 DEF HttpInv

\* Every step keeps clients, descriptors and edges in order.
LEMMA HttpStep ==
  scenario \in Scenarios /\ LifeInv /\ BufferInv /\ HttpInv /\ [Next]_vars => HttpInv'
<1> SUFFICES ASSUME scenario \in Scenarios, LifeInv, BufferInv, HttpInv, [Next]_vars PROVE HttpInv'
  OBVIOUS
<1>0. sockets \subseteq ServerFds /\ running_ \in BOOLEAN
  BY DEF HttpInv, ServerType
<1>1. ASSUME UNCHANGED httpVars PROVE HttpInv'
  BY <1>0, <1>1, OutsideKeeps DEF httpVars, serverVars
<1>2. CASE Build
  <2>1. /\ UNCHANGED <<events, cur, open, read_bufs_, backlog, peer, accept_err, ready>>
        /\ sockets' \subseteq ServerFds /\ running_' \in BOOLEAN
        /\ hpc' = hpc \/ (hpc' = "run" /\ Steps[at + 1] = "http_thread")
    BY <1>0, <1>2, Zenon DEF Build, start, httpVars, serverVars
  <2>2. at + 1 \in 1..12 /\ (at + 1 = 10 => ~(at >= 10))
    BY <1>2 DEF Build, LifeInv
  <2>3. Steps[at + 1] = "http_thread" => hpc \notin {"read", "handle"}
    BY <2>2, StepOrder DEF LifeInv
  <2> QED
    BY <2>1, <2>3, OutsideKeeps
<1>3. CASE BuildThrows \/ StopServer \/ Unwind
  <2>1. /\ UNCHANGED <<events, cur, open, read_bufs_, backlog, peer, accept_err, hpc, running_>>
        /\ sockets' \subseteq ServerFds /\ (ready' = ready \/ ready' = Raised(stop_fd_))
    BY <1>0, <1>3, Zenon DEF BuildThrows, StopServer, Unwind, start_throws, stop, CloseServer, ReadyAfterStop,
                      httpVars, serverVars, ServerFds
  <2> QED
    BY <1>0, <2>1, OutsideKeeps
<1>4. CASE PollTcp \/ PollAudit \/ ForgetReporter \/ UnwindNothing \/ OnSignal \/ UNCHANGED vars
  <2>1. UNCHANGED httpVars
    BY <1>4, Zenon DEF PollTcp, PollAudit, ForgetReporter, UnwindNothing, OnSignal, vars
  <2> QED
    BY <1>1, <2>1
<1>5. CASE HttpThread
  <2>1. CASE ServerStep(scenario.limit, scenario.fails)
    <3>1. PICK limit \in SUBSET Fds : limit = scenario.limit
      BY ScenarioAssumption
    <3>2. PICK fails : fails = scenario.fails
      BY Zenon
    <3>3. ServerStep(limit, fails)
      BY <2>1, <3>1, <3>2, Zenon
    <3> QED
      BY <3>3, WaitKeeps, DispatchKeeps, LeaveKeeps, AcceptKeeps, ReadDataKeeps, ReadAgainKeeps,
         ReadEndKeeps, RespondKeeps DEF ServerStep
  <2>2. CASE ServerThrows
    BY <1>1, <2>2 DEF ServerThrows
  <2> QED
    BY <1>5, <2>1, <2>2 DEF HttpThread
<1>6. CASE \E k \in Calls : AuditCpu(k)
  BY <1>1, <1>6, Zenon DEF AuditCpu
<1>7. CASE Environment
  <2>1. CASE UNCHANGED httpVars
    BY <1>1, <2>1
  <2>2. CASE \E c \in scenario.clients : Connect(c) \/ SendSegment(c)
    <3>1. scenario.clients \subseteq Clients
      BY ScenarioAssumption
    <3> QED
      BY <2>2, <3>1, ConnectKeeps, ClientKeeps, Zenon
  <2>3. CASE \E c \in scenario.quitters : HangUp(c)
    <3>1. scenario.quitters \subseteq Clients
      BY ScenarioAssumption
    <3> QED
      BY <2>3, <3>1, ClientKeeps
  <2> QED
    BY <1>7, <2>1, <2>2, <2>3, Zenon DEF Environment
<1> QED
  BY <1>2, <1>3, <1>4, <1>5, <1>6, <1>7 DEF Next, MainStep

\* The scenario is chosen once.
LEMMA SameScenario == scenario \in Scenarios /\ [Next]_vars => (scenario \in Scenarios)'
<1> SUFFICES ASSUME [Next]_vars PROVE scenario' = scenario
  OBVIOUS
<1>1. CASE MainStep
  BY <1>1, Zenon DEF MainStep, Build, BuildThrows, PollTcp, PollAudit, StopServer, ForgetReporter, Unwind,
                     UnwindNothing, Goto
<1>2. CASE HttpThread \/ (\E k \in Calls : AuditCpu(k)) \/ OnSignal \/ Environment \/ UNCHANGED vars
  BY <1>2, Zenon DEF HttpThread, ServerThrows, AuditCpu, OnSignal, Environment, vars, mainVars
<1> QED
  BY <1>1, <1>2 DEF Next

\* A request that comes in one piece is answered with its route's status,
\* unless its client hung up first: for any number of clients, descriptors
\* and events per wait.
THEOREM WholeRequestsAnswered == Spec => []WholeRequestAnswered
<1>1. HttpInv => WholeRequestAnswered
  BY DEF HttpInv
<1>2. Init => scenario \in Scenarios /\ HttpInv
  BY HttpInitially DEF Init
<1> QED
  BY <1>1, <1>2, SameScenario, HttpStep, LifeInit, LifeStep, BufferInit, BufferStep, PTL DEF Spec

-----------------------------------------------------------------------------
(* Types *)

MainType ==
  /\ held \subseteq Owners /\ g_stop \in BOOLEAN /\ g_reporter \in BOOLEAN
  /\ failedAt \in {"none", "epoll_add"} \cup Range(Steps)

\* The main thread's flags, and the objects it owns.
LEMMA MainTypeStep == LifeInv /\ MainType /\ [Next]_vars => MainType'
<1> SUFFICES ASSUME LifeInv, MainType, [Next]_vars PROVE MainType'
  OBVIOUS
<1>1. CASE Build
  BY <1>1 DEF Build, MainType
<1>2. CASE BuildThrows
  <2>1. PICK step : step = Steps[at + 1]
    OBVIOUS
  <2>2. failedAt' = step /\ held' \in HeldAfterThrow(step) /\ UNCHANGED <<g_stop, g_reporter>> /\ mpc = "build"
    BY <1>2, <2>1, Zenon DEF BuildThrows
  <2>5. at + 1 \in 1..12
    BY <2>2 DEF LifeInv
  <2>3. step \in Range(Steps)
    BY <2>1, <2>5 DEF Steps, Range
  <2>4. held' \subseteq Owners
    BY <2>2, Zenon DEF HeldAfterThrow, Owners, MainType
  <2> QED
    BY <2>2, <2>3, <2>4 DEF MainType
<1>3. CASE PollTcp \/ PollAudit \/ StopServer \/ ForgetReporter \/ UnwindNothing
  BY <1>3, Zenon DEF PollTcp, PollAudit, StopServer, ForgetReporter, UnwindNothing, Goto, MainType
<1>4. CASE Unwind
  BY <1>4 DEF Unwind, Released, MainType
<1>5. CASE HttpThread \/ (\E k \in Calls : AuditCpu(k)) \/ OnSignal \/ Environment \/ UNCHANGED vars
  BY <1>5, Zenon DEF HttpThread, ServerThrows, AuditCpu, OnSignal, Environment, vars, mainVars, MainType
<1> QED
  BY <1>1, <1>2, <1>3, <1>4, <1>5 DEF Next, MainStep

\* The audit ring stays within its size and the ready list names descriptors
\* only; no client is read further than it sent.
THEOREM MonitorTypeCorrect == Spec => []TypeOK
<1>1. scenario \in Scenarios /\ LifeInv /\ HttpInv /\ AuditInv /\ MainType => TypeOK
  <2> SUFFICES ASSUME scenario \in Scenarios, LifeInv, HttpInv, AuditInv, MainType PROVE TypeOK
    OBVIOUS
  <2>1. Range(ready) \cup Range(events) \subseteq Fds \cup {listen_fd_, stop_fd_}
    <3>1. ready \in Seq(Watched) /\ events \in Seq(Watched)
      BY Zenon DEF HttpInv, QueueType
    <3>2. /\ \A k \in DOMAIN ready : ready[k] \in Watched
          /\ \A k \in DOMAIN events : events[k] \in Watched
      BY <3>1, SMT
    <3> QED
      BY <3>2, Zenon DEF Watched, Range
  <2>2. at \in 0..Len(Steps)
    BY StepOrder DEF LifeInv
  <2> QED
    BY <2>1, <2>2, Zenon DEF TypeOK, HttpInv, ServerType, QueueType, PeerType, AuditInv, RingInv, MainType
<1>2. Init => scenario \in Scenarios /\ HttpInv /\ AuditInv /\ MainType
  BY HttpInitially, AuditInitially, Zenon DEF Init, MainType
<1> QED
  BY <1>1, <1>2, SameScenario, HttpStep, LifeInit, LifeStep, BufferInit, BufferStep, AuditStep, MainTypeStep,
     PTL DEF Spec
=============================================================================
