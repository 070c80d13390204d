------------------------------ MODULE Monitor ------------------------------
(***************************************************************************)
(* src/monitor.cpp, run_monitor and main, with the RAII classes of         *)
(* src/ebpf_loader.h: start-up, where each step may throw, the main loop,  *)
(* the shutdown after a signal, and the destruction of the locals in       *)
(* reverse order, beside the threads of HttpServer and the programs of     *)
(* SyscallAudit.  What tcp_rb's callback does to the reporter is the       *)
(* subject of TcpPipeline.                                                 *)
(***************************************************************************)
EXTENDS HttpServer, SyscallAudit

CONSTANT Scenarios   \* runs to consider: see scenario

VARIABLES
  scenario,    \* clients: who connects; quitters: which of them may hang up;
               \* limit: descriptors for clients; calls: the system calls made;
               \* fails: steps and calls that may fail; signal: whether one may arrive
  mpc,         \* main thread: "build", "loop", "audit", "stopped", "unwind",
               \* "ended", "aborted"
  at,          \* how many steps of run_monitor are done and not yet undone
  g_stop, g_reporter,
  held,        \* kernel and library objects that exist: steps of Steps
  failedAt     \* the step that threw, or "none"

mainVars == <<scenario, mpc, at, g_stop, g_reporter, held, failedAt>>
vars == <<httpVars, auditVars, mainVars>>

\* The statements of run_monitor up to its loop.  "filters" and "start" leave
\* no local behind; every other one constructs a local.
Steps ==
  <<"tcp_obj", "audit_obj", "filters", "tcp_connect_link", "tcp_close_link", "audit_link",
    "reporter", "http_srv", "start", "http_thread", "tcp_rb", "audit_rb">>

\* Steps whose local owns something outside the process' own memory.
Owners == {"tcp_obj", "audit_obj", "tcp_connect_link", "tcp_close_link", "audit_link",
           "tcp_rb", "audit_rb"}

ASSUME ScenarioAssumption ==
  \A s \in Scenarios : /\ s.clients \cup s.quitters \subseteq Clients /\ s.limit \subseteq Fds
                       /\ s.calls \subseteq Calls

Built(step) == \E i \in 1..at : Steps[i] = step

Init ==
  /\ HttpInit /\ AuditInit
  /\ scenario \in Scenarios
  /\ mpc = "build" /\ at = 0 /\ g_stop = FALSE /\ g_reporter = FALSE
  /\ held = {} /\ failedAt = "none"

-----------------------------------------------------------------------------
(* Start-up *)

Build ==
  LET step == Steps[at + 1] IN
  /\ mpc = "build"
  /\ at' = at + 1
  /\ mpc' = IF at' = Len(Steps) THEN "loop" ELSE "build"
  /\ held' = held \cup ({step} \cap Owners)
  /\ g_reporter' = (g_reporter \/ step = "reporter")
  /\ \/ step = "start" /\ start
     \/ /\ step = "http_thread" /\ hpc' = "run"
        /\ UNCHANGED <<sockets, running_, ready, events, cur, open, read_bufs_, backlog, peer, accept_err>>
     \/ step \notin {"start", "http_thread"} /\ UNCHANGED httpVars
  /\ UNCHANGED <<auditVars, scenario, g_stop, failedAt>>

\* A failed bpf_object__load throws in the constructor: the destructor, which
\* would close the opened object, never runs.
HeldAfterThrow(step) == IF step \in {"tcp_obj", "audit_obj"} THEN {held, held \cup {step}} ELSE {held}

BuildThrows ==
  LET step == Steps[at + 1] IN
  /\ mpc = "build" /\ step \in scenario.fails
  /\ mpc' = "unwind" /\ failedAt' = step
  /\ held' \in HeldAfterThrow(step)
  /\ \/ step = "start" /\ start_throws
     \/ step # "start" /\ UNCHANGED httpVars
  /\ UNCHANGED <<auditVars, scenario, at, g_stop, g_reporter>>

-----------------------------------------------------------------------------
(* The loop and the shutdown *)

OnSignal ==
  /\ scenario.signal /\ ~g_stop /\ mpc \notin {"ended", "aborted"} /\ g_stop' = TRUE
  /\ UNCHANGED <<httpVars, auditVars, scenario, mpc, at, g_reporter, held, failedAt>>

Goto(where) == mpc' = where /\ UNCHANGED <<scenario, at, g_stop, held, failedAt>>

\* tcp_rb.poll: handle_tcp_event records through g_reporter when it is set.
PollTcp ==
  /\ mpc = "loop" /\ ~g_stop /\ Goto("audit")
  /\ UNCHANGED <<httpVars, auditVars, g_reporter>>

\* audit_rb.poll: every record that can be read, one callback each; then, at
\* times, print_top, which prints from a copy of the reporter's map.
PollAudit ==
  /\ mpc = "audit"
  /\ \/ handle_syscall_event /\ Goto("audit")
     \/ ~AuditReadable /\ Goto("loop") /\ UNCHANGED auditVars
  /\ UNCHANGED <<httpVars, g_reporter>>

StopServer ==
  /\ mpc = "loop" /\ g_stop /\ stop /\ Goto("stopped")
  /\ UNCHANGED <<auditVars, g_reporter>>

ForgetReporter ==
  /\ mpc = "stopped" /\ g_reporter' = FALSE /\ Goto("unwind")
  /\ UNCHANGED <<httpVars, auditVars>>

-----------------------------------------------------------------------------
(* Destruction in reverse order, after the loop or an exception *)

\* Names with an underscore are the definition that follows with one bug
\* planted in it; each breaks a property, and no specification uses them.
Released_linksKept(step) == IF step = "tcp_connect_link" THEN held ELSE held \ {step}
Released(step) == held \ {step}

\* ~jthread joins; the other destructors wait for nothing.
MayDestroy_detached(step) == TRUE
MayDestroy(step) == step = "http_thread" => hpc = "exited"

\* ~AsyncHttpServer closes what is still open.
Unwind ==
  LET step == Steps[at] IN
  /\ mpc = "unwind" /\ at > 0
  /\ MayDestroy(step)
  /\ at' = at - 1 /\ held' = Released(step)
  /\ mpc' = IF at' = 0 THEN "ended" ELSE "unwind"
  /\ IF step = "http_srv" THEN CloseServer ELSE UNCHANGED httpVars
  /\ UNCHANGED <<auditVars, scenario, g_stop, g_reporter, failedAt>>

\* The first constructor threw: nothing to undo.
UnwindNothing == mpc = "unwind" /\ at = 0 /\ Goto("ended") /\ UNCHANGED <<httpVars, auditVars, g_reporter>>

\* epoll_add throws inside accept_clients: the exception leaves the thread's
\* function and std::terminate ends the process.
ServerThrows ==
  /\ hpc = "accept" /\ backlog # <<>> /\ "epoll_add" \in scenario.fails
  /\ mpc' = "aborted" /\ failedAt' = "epoll_add"
  /\ UNCHANGED <<httpVars, auditVars, scenario, at, g_stop, g_reporter, held>>

-----------------------------------------------------------------------------
Gone == mpc \in {"ended", "aborted"}

MainStep == \/ Build \/ BuildThrows \/ PollTcp \/ PollAudit \/ StopServer
            \/ ForgetReporter \/ Unwind \/ UnwindNothing

HttpThread == ~Gone /\ \/ ServerStep(scenario.limit, scenario.fails) /\ UNCHANGED <<auditVars, mainVars>>
                       \/ ServerThrows

AuditCpu(k) == ~Gone /\ AuditProgram(k) /\ UNCHANGED <<httpVars, mainVars>>

Environment ==
  /\ ~Gone
  /\ \/ /\ hpc # "exited"   \* later nobody looks at what clients do
        /\ \/ \E c \in scenario.clients : Connect(c) \/ SendSegment(c)
           \/ \E c \in scenario.quitters : HangUp(c)
        /\ UNCHANGED <<auditVars, mainVars>>
     \/ \E k \in scenario.calls : audit_syscall(k, "audit_link" \in held) /\ UNCHANGED <<httpVars, mainVars>>

Next == MainStep \/ HttpThread \/ (\E k \in Calls : AuditCpu(k)) \/ OnSignal \/ Environment

\* The threads and the started BPF programs run; nobody must connect, send,
\* make a system call or signal.
Fairness == WF_vars(MainStep) /\ WF_vars(HttpThread) /\ \A k \in Calls : WF_vars(AuditCpu(k))

Spec == Init /\ [][Next]_vars /\ Fairness
-----------------------------------------------------------------------------
\* Cursors, buffers, queues and the state of each thread keep their types; the
\* audit ring stays within its size.
TypeOK ==
  /\ AuditTypeOK
  /\ sockets \subseteq ServerFds /\ running_ \in BOOLEAN /\ accept_err \in BOOLEAN
  /\ Range(ready) \cup Range(events) \subseteq Fds \cup {listen_fd_, stop_fd_}
  /\ hpc \in {"none", "run", "accept", "read", "handle", "exited"}
  /\ open \in [Fds -> Clients \cup {None}] /\ cur \in Fds \cup {None}
  /\ backlog \in Seq(Clients)
  /\ \A c \in Clients : peer[c].got <= peer[c].sent /\ peer[c].sent <= Len(Segments[c])
  /\ scenario \in Scenarios /\ at \in 0..Len(Steps) /\ held \subseteq Owners
  /\ g_stop \in BOOLEAN /\ g_reporter \in BOOLEAN /\ failedAt \in {"none", "epoll_add"} \cup Range(Steps)

\* monitor.cpp:175-181: the server thread runs http_route on a reference to
\* reporter, and run() on a reference to http_srv, until the join; neither
\* may be dead then, whenever and for whatever reason run_monitor ends.
NeverTouchesDead ==
  ~Gone /\ hpc \notin {"none", "exited"} => Built("reporter") /\ Built("http_srv")

\* async_server.h:46-47: a buffer holds data of its own client only, although
\* the kernel gives a closed descriptor's number to the next client.
BuffersOwn ==
  \A f \in Fds : \A x \in read_bufs_[f] : f = cur /\ x[1] = open[f]

\* A client whose request comes in one piece gets the status of its route, and
\* goes without an answer only when it hung up first (handle_client).
WholeRequestAnswered ==
  \A c \in Clients : peer[c].phase = "closed" /\ Segments[c] = <<"whole">> =>
    \/ peer[c].reply = IF c \in Known THEN "200" ELSE "404"
    \/ peer[c].reply = "none" /\ (peer[c].bye = "rst" \/ (peer[c].bye = "fin" /\ peer[c].sent = 0))

\* async_server.h:46, 92: the buffer is "Per-client" and a "header ends with
\* \r\n\r\n": a client that asks for a route of the server is not told 404.
RouteFound == \A c \in Known : peer[c].reply # "404"

\* Submitted and not yet read.
InRing == {arb[i].call : i \in {j \in DOMAIN arb : ~arb[j].busy}}

Reported == Range(alerts) \cup InRing

\* syscall_audit.bpf.c:26, 43-76: every suspicious call is reported, unless
\* its uid is in the whitelist and not root's or the ring was full; no other
\* call is, and none twice.  Of the uids whose entries the comment and the
\* code read differently it says only that calls that are not suspicious are
\* not reported.
AuditExact ==
  /\ IsInjective(alerts) /\ IsInjective([i \in DOMAIN arb |-> arb[i].call])
  /\ Range(alerts) \cap InRing = {}
  /\ \A k \in Reported : is_suspicious(NrOf[k])
  /\ \A k \in Calls : ~Disputed(UidOf[k]) =>
       (k \in Reported <=> k \in MustReport /\ apc[k] = "done" /\ k \notin dropped \cup missed)

\* When run_monitor ends, by a signal or an exception, no program is attached
\* and no object, ring buffer or server descriptor is left, except an object
\* whose load failed in its constructor (ebpf_loader.h:25-26).
AllReleased ==
  mpc = "ended" => sockets = {} /\ held \subseteq ({failedAt} \cap {"tcp_obj", "audit_obj"})

\* Steps that run with the server thread already started.
AfterThread == {"tcp_rb", "audit_rb"}

\* A signal at any moment, also before the server thread first looks at
\* running_, ends the process, and so does a failed step of start-up; a ring
\* buffer that cannot be created is the exception (see FailureEndsProcess).
SignalEndsProcess ==
  ((g_stop \/ failedAt # "none") /\ failedAt \notin AfterThread) ~> (Gone \/ failedAt \in AfterThread)

\* monitor.cpp:227-230: an eBPF error is reported and main returns 1.
FailureEndsProcess == failedAt # "none" ~> Gone

\* Under edge triggering no client is forgotten: one that sent something or
\* hung up is answered or closed, unless an accept failed with clients
\* waiting (async_server.h:75-78) or the monitor is going down.
ClientServed ==
  \A c \in Clients :
    (peer[c].phase = "connected" /\ (peer[c].sent > 0 \/ peer[c].bye # "no"))
      ~> (peer[c].phase = "closed" \/ accept_err \/ g_stop \/ failedAt # "none")

\* A record reserved in syscall_events becomes an alert: no record is stuck,
\* however the programs overlap, while the main loop polls.
AlertRaised ==
  \A k \in Calls : apc[k] = "fill" ~> (k \in Range(alerts) \/ g_stop \/ failedAt # "none")
=============================================================================
