----------------------------- MODULE HttpServer -----------------------------
(***************************************************************************)
(* src/http/async_server.h: one thread in run(), an edge-triggered epoll   *)
(* set, a listening socket and an eventfd that stops the loop.             *)
(*                                                                         *)
(* The kernel is external: an arriving connection, segment, FIN or reset   *)
(* raises an edge once, a wait takes it, and adding a descriptor that is   *)
(* already readable raises it again.  Clients act at any moment between    *)
(* two system calls of the server.  A request is a sequence of segments:   *)
(* "cut" ends inside the request line, "line" after it, "end" brings the   *)
(* blank line, "whole" brings both.  A wait that times out or is           *)
(* interrupted changes nothing and is a stuttering step.                   *)
(***************************************************************************)
EXTENDS Naturals, Sequences, Functions

CONSTANTS
  Clients,
  Segments,    \* Segments[c]: what client c sends
  Known,       \* clients that ask for /metrics, /connections or /health
  Fds,         \* descriptors for clients, above the server's own
  MaxEvents,   \* MAX_EVENTS (64)
  None

VARIABLES
  sockets,     \* which of the server's own descriptors are open
  running_,
  ready,       \* the epoll ready list
  hpc,         \* server thread: "none", "run", "accept", "read", "handle", "exited"
  events,      \* events of the current wait not yet looked at
  cur,         \* the descriptor handle_client works on
  open,        \* descriptor -> client or None
  read_bufs_,  \* descriptor -> the <<client, segment>> pairs in its buffer
  backlog,     \* connections not yet accepted
  peer,        \* per client: phase, segments sent and read, bye, reply
  accept_err       \* history: an accept failed with connections waiting

serverVars == <<sockets, running_, hpc, events, cur, open, read_bufs_, accept_err>>
httpVars == <<serverVars, ready, backlog, peer>>

HttpInit ==
  /\ sockets = {} /\ running_ = FALSE /\ ready = <<>>
  /\ hpc = "none" /\ events = <<>> /\ cur = None
  /\ open = [f \in Fds |-> None] /\ read_bufs_ = [f \in Fds |-> {}]
  /\ backlog = <<>> /\ accept_err = FALSE
  /\ peer = [c \in Clients |->
               [phase |-> "new", sent |-> 0, got |-> 0, bye |-> "no", reply |-> "none"]]

listen_fd_ == 3
epoll_fd_ == 4
stop_fd_ == 5
ServerFds == {listen_fd_, epoll_fd_, stop_fd_}

ASSUME FdAssumption ==
  /\ Fds \subseteq Nat /\ Fds \cap ServerFds = {}
  /\ None \notin Fds \cup Clients

ASSUME RequestAssumption ==
  /\ Segments \in [Clients -> Seq({"cut", "line", "end", "whole"})]
  /\ Known \subseteq Clients /\ MaxEvents \in Nat \ {0}

\* An edge is queued once.
Raised(x) == IF x \in Range(ready) THEN ready ELSE Append(ready, x)

\* The ready list without x.
Cleared(x) ==
  IF x \in Range(ready)
    THEN LET i == CHOOSE j \in DOMAIN ready : ready[j] = x
         IN  SubSeq(ready, 1, i - 1) \o SubSeq(ready, i + 1, Len(ready))
    ELSE ready

-----------------------------------------------------------------------------
(* Clients and kernel *)

RaisedFor(c) ==
  IF \E f \in Fds : open[f] = c THEN Raised(CHOOSE f \in Fds : open[f] = c) ELSE ready

Connect(c) ==
  /\ peer[c].phase = "new" /\ listen_fd_ \in sockets
  /\ peer' = [peer EXCEPT ![c].phase = "connected"]
  /\ backlog' = Append(backlog, c)
  /\ ready' = Raised(listen_fd_)
  /\ UNCHANGED serverVars

SendSegment(c) ==
  /\ peer[c].phase = "connected" /\ peer[c].bye = "no" /\ peer[c].sent < Len(Segments[c])
  /\ peer' = [peer EXCEPT ![c].sent = @ + 1]
  /\ ready' = RaisedFor(c)
  /\ UNCHANGED <<serverVars, backlog>>

\* A FIN leaves what was sent readable; a reset does not.
HangUp(c) ==
  /\ peer[c].phase = "connected" /\ peer[c].bye = "no"
  /\ \E how \in {"fin", "rst"} : peer' = [peer EXCEPT ![c].bye = how]
  /\ ready' = RaisedFor(c)
  /\ UNCHANGED <<serverVars, backlog>>

-----------------------------------------------------------------------------
(* start, stop *)

start ==
  /\ sockets' = ServerFds /\ running_' = TRUE
  /\ UNCHANGED <<ready, hpc, events, cur, open, read_bufs_, backlog, peer, accept_err>>

\* socket, bind, listen, epoll_create1, epoll_ctl or eventfd failed: what was
\* opened before stays open until the destructor.
start_throws ==
  /\ sockets' \in {{}, {listen_fd_}, {listen_fd_, epoll_fd_}, ServerFds}
  /\ UNCHANGED <<running_, ready, hpc, events, cur, open, read_bufs_, backlog, peer, accept_err>>

\* Names with an underscore are the definition that follows with one bug
\* planted in it; each breaks a property, and no specification uses them.
ReadyAfterStop_inverted == IF stop_fd_ \in sockets /\ ~running_ THEN Raised(stop_fd_) ELSE ready
\* The value of ready after stop(): the eventfd is readable from now on.
ReadyAfterStop == IF stop_fd_ \in sockets /\ running_ THEN Raised(stop_fd_) ELSE ready

stop == ready' = ReadyAfterStop /\ UNCHANGED <<serverVars, backlog, peer>>

\* ~AsyncHttpServer
CloseServer ==
  /\ sockets' = {} /\ ready' = ReadyAfterStop
  /\ UNCHANGED <<running_, hpc, events, cur, open, read_bufs_, backlog, peer, accept_err>>

-----------------------------------------------------------------------------
(* run *)

\* epoll_wait.  The eventfd is level-triggered: it stays ready.
EpollWait ==
  LET n == IF Len(ready) < MaxEvents THEN Len(ready) ELSE MaxEvents
      taken == SubSeq(ready, 1, n)
  IN
  /\ hpc = "run" /\ events = <<>> /\ running_ /\ ready # <<>>
  /\ events' = taken
  /\ ready' = SubSeq(ready, n + 1, Len(ready))
                \o (IF stop_fd_ \in Range(taken) THEN <<stop_fd_>> ELSE <<>>)
  /\ UNCHANGED <<sockets, running_, hpc, cur, open, read_bufs_, backlog, peer, accept_err>>

Dispatch ==
  /\ hpc = "run" /\ events # <<>>
  /\ \/ /\ Head(events) = stop_fd_
        /\ running_' = FALSE /\ events' = <<>>
        /\ UNCHANGED <<hpc, cur>>
     \/ /\ Head(events) = listen_fd_
        /\ hpc' = "accept" /\ events' = Tail(events)
        /\ UNCHANGED <<running_, cur>>
     \/ /\ Head(events) \in Fds
        /\ hpc' = "read" /\ cur' = Head(events) /\ events' = Tail(events)
        /\ UNCHANGED running_
  /\ UNCHANGED <<sockets, ready, open, read_bufs_, backlog, peer, accept_err>>

LeaveRun ==
  /\ hpc = "run" /\ events = <<>> /\ ~running_
  /\ sockets' = {} /\ hpc' = "exited"
  /\ UNCHANGED <<running_, ready, events, cur, open, read_bufs_, backlog, peer, accept_err>>

-----------------------------------------------------------------------------
(* accept_clients *)

\* EPOLLIN | EPOLLET | EPOLLRDHUP: the edges a new descriptor already has.
EdgeOnAdd_writable(c) == TRUE
EdgeOnAdd(c) == peer[c].sent > 0 \/ peer[c].bye # "no"

AfterAccept_once == "run"
AfterAccept == "accept"

\* limit: the descriptors the process may have.
AcceptOne(limit) ==
  LET c == Head(backlog) IN
  /\ hpc = "accept" /\ backlog # <<>>
  /\ \E f \in limit :   \* the lowest free number
       /\ open[f] = None /\ \A g \in limit : open[g] = None => f <= g
       /\ open' = [open EXCEPT ![f] = c]
       /\ ready' = IF EdgeOnAdd(c) THEN Raised(f) ELSE ready
  /\ backlog' = Tail(backlog)
  /\ hpc' = AfterAccept
  /\ UNCHANGED <<sockets, running_, events, cur, read_bufs_, peer, accept_err>>

\* EAGAIN, or any other error, for want of a descriptor or of anything else
\* when accept4 is in fails: both leave the loop.
AcceptBreak(limit, fails) ==
  /\ hpc = "accept"
  /\ \/ backlog = <<>> /\ UNCHANGED accept_err
     \/ /\ backlog # <<>> /\ accept_err' = TRUE
        /\ (\A f \in limit : open[f] # None) \/ "accept4" \in fails
  /\ hpc' = "run"
  /\ UNCHANGED <<sockets, running_, ready, events, cur, open, read_bufs_, backlog, peer>>

-----------------------------------------------------------------------------
(* handle_client *)

Has(buf, kinds) == \E x \in buf : Segments[x[1]][x[2]] \in kinds
HeaderEnd(buf) == Has(buf, {"end", "whole"})

\* parse_path and http_route: a path needs the end of the request line, and
\* an unknown one has an empty body.
Status(buf) ==
  IF Has({x \in buf : x[1] \in Known}, {"line", "whole"}) THEN "200" ELSE "404"

Unread(c) == peer[c].bye # "rst" /\ peer[c].got < peer[c].sent

ReadData ==
  LET c == open[cur]
      buf == read_bufs_[cur] \cup {<<c, i>> : i \in peer[c].got + 1 .. peer[c].sent}
  IN
  /\ hpc = "read" /\ Unread(c)
  /\ read_bufs_' = [read_bufs_ EXCEPT ![cur] = buf]
  /\ peer' = [peer EXCEPT ![c].got = peer[c].sent]
  /\ hpc' = IF HeaderEnd(buf) THEN "handle" ELSE "read"
  /\ UNCHANGED <<sockets, running_, ready, events, cur, open, backlog, accept_err>>

\* EAGAIN: the request is answered as it stands.
ReadAgain ==
  /\ hpc = "read" /\ ~Unread(open[cur]) /\ peer[open[cur]].bye = "no"
  /\ hpc' = "handle"
  /\ UNCHANGED <<sockets, running_, ready, events, cur, open, read_bufs_, backlog, peer, accept_err>>

Erased_not(f) == read_bufs_
Erased(f) == [read_bufs_ EXCEPT ![f] = {}]

\* close(2) also takes the descriptor off the ready list.
close_client ==
  /\ read_bufs_' = Erased(cur)
  /\ open' = [open EXCEPT ![cur] = None]
  /\ ready' = Cleared(cur)
  /\ cur' = None /\ hpc' = "run"
  /\ UNCHANGED <<sockets, running_, events, backlog, accept_err>>

\* read returns 0 or an error other than EAGAIN.
ReadEnd ==
  /\ hpc = "read" /\ ~Unread(open[cur]) /\ peer[open[cur]].bye # "no"
  /\ peer' = [peer EXCEPT ![open[cur]].phase = "closed"]
  /\ close_client

\* The handler's body, the response, one write, close.  A short write cuts
\* the body; reply is the status line.
Respond ==
  /\ hpc = "handle"
  /\ peer' = [peer EXCEPT ![open[cur]].phase = "closed", ![open[cur]].reply = Status(read_bufs_[cur])]
  /\ close_client

ServerStep(limit, fails) ==
  \/ EpollWait \/ Dispatch \/ LeaveRun
  \/ AcceptOne(limit) \/ AcceptBreak(limit, fails)
  \/ ReadData \/ ReadAgain \/ ReadEnd \/ Respond
=============================================================================
