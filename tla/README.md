# Formal model of ebpf-system-monitor

TLA+ modules for the monitor, TLC configurations that check them on small
instances, and TLAPS proofs for every instance. Paths below are relative to the
repository. `PROJECT.json` maps each definition to the lines it models.

## The system

| Part | Source | Module | Status |
|---|---|---|---|
| Lock-free ring | `src/dpdk_sim/spsc_ring.h` | `SpscRing`, `BoundedQueue` | modelled, proved |
| Packet pool | `src/dpdk_sim/memory_pool.h` | `BatchProcessor` | partly (no `alloc_burst`), proved |
| Batch processor | `src/dpdk_sim/packet_processor.h` | `BatchProcessor` | modelled, proved |
| Thread pool | `src/http/thread_pool.h` | `ThreadPool`, `PooledRequests` | partly (no failing constructor), proved |
| Request timing | `src/http/request_stats.h` | `RequestStats`, `PooledRequests` | modelled, proved |
| TCP kprobes | `bpf/tcp_tracer.bpf.c` | `TcpTracer`, `TcpAccounting` | modelled, proved |
| Reporter | `src/stats_reporter.h` | `StatsReporter` | partly (no `clear`, `print_top`), proved |
| Prometheus text | `src/http/metrics.h` | `StatsReporter` | partly (ports only; no `from_processor`), proved |
| HTTP server | `src/http/async_server.h` | `HttpServer` | modelled, proved |
| Main program | `src/monitor.cpp` | `Monitor`, `TcpPipeline` | partly (no arguments, no output), proved |
| libbpf wrappers | `src/ebpf_loader.h` | `Monitor` | modelled, proved |
| Syscall audit | `bpf/syscall_audit.bpf.c` | `SyscallAudit` | modelled, proved |
| XDP statistics | `bpf/net_stats.bpf.c` | `NetStats` | modelled, proved |

"Proved" is said of the safety properties of a part; liveness is model-checked
throughout.

Two kprobe programs turn connects and closes into records of a BPF ring buffer,
and a tracepoint program does the same for suspicious system calls. The main loop
polls both buffers; it records connections in `StatsReporter`, which the HTTP
thread reads for `/metrics` and `/connections`, and prints alerts. The XDP program
stands alone. The DPDK-style packet path (ring, pool, batch processor), the thread
pool and the request statistics are libraries beside it; `monitor.cpp` uses none
of them.

## Modules

**SpscRing.** `head`, `tail`, `data` are the members; `pTail` and `cHead` are
what each thread last loaded of the other's counter. Each load, slot access and
store is a step. `Enqueue` and `EnqueueBurst` are the loads and tests;
`WriteSlot` and `StoreHead` are the rest of either call, and likewise for the
consumer. An acquire load may return any value stored since the one last seen
(coherence is the only limit, which allows at least what C++ allows). Counters
wrap at `SizeMod`. `BoundedQueue` is the abstract queue: batches enter and leave
atomically and in order.

**BatchProcessor.** `ring_` has one enqueuing and one dequeuing thread, so it is
the queue that `SpscRing` implements. The pool's `free_ring_` can have two
enqueuers, so `FreeLoad`, `FreeWrite`, `FreeStore` model its enqueue step by step
for either thread; memory is sequentially consistent there. Calls read both rings'
counters exactly, and `BoundedQueue` does not say when an enqueue is refused: that
a stale counter refuses nothing more is an argument about the code, not a result.
A packet comes back to the producer by the release store of `free_ring_`'s head,
after the store that took it out of `ring_`, and to the consumer by that of
`ring_`'s head, after the store that took it off the free list; whoever has the
packet has also seen the room it left. A stale view can still make a burst shorter
or an allocation fail, which the properties do not tell from a later call. A
*deployment* is a ring size and whether one thread makes all calls.

**ThreadPool.** A critical section under `m_mtx` is one step; notifications come
after the unlock as steps of their own, and waits may end spuriously. A task may
submit another task. Clients do not call `submit` on a pool being destroyed.

**RequestStats, PooledRequests.** `record` holds the mutex for its whole body, so
it is one step, and a value of `m_stats` is what a snapshot returns. Sums wrap at
`UINT64_MAX`; `took` remembers what was recorded for each request.
`PooledRequests` composes it with `ThreadPool` the way
`tests/test_thread_pool.cpp:255` does: a task body owns a timer, may call
`finish`, may submit another task, and destroys the timer when it returns or
throws.

**TcpTracer, StatsReporter, TcpPipeline.** Each BPF helper call is a step, and
programs of different sockets interleave. `pending_connects` is a preallocated
hash whose elements may be reused while a program still holds a pointer; a copy
of an element is one step. `tcp_events` holds records in reservation order, and
a reserved but unsubmitted one blocks the rest. Of an event the model keeps
connection, destination port, pid, action and bytes (one direction stands for
both). A port goes through every byte swap of the code, on a little-endian host.
`Poll` is the main loop's callback; a scrape locks the reporter twice. A
*profile* is the set of sockets, whether a process handles one connection at a
time, the ring buffer's size and the filters; a port filter is a port, or 0 for
none. `TcpAccounting` states what the counters add up to; `Sums` defines the sum
of a function over a finite set that it uses, and that `NetStats`, `RequestStats`
and `PooledRequests` use too.

**HttpServer.** Every system call of the server thread that others can observe is
a step: `epoll_wait`, each `accept4` with its `epoll_ctl`, each `read`, the answer
with its `close`. The kernel's part is external: `ready` is the epoll ready list,
an arrival raises an edge once, the eventfd stays ready, closing a descriptor
removes it, and `accept4` returns the lowest free number. Clients connect, send
segments and hang up between any two steps. A segment is known by what it
completes: part of the request line, the line, the header.

**SyscallAudit.** One execution of `audit_syscall` per system call, a step per
helper; executions on different CPUs interleave.

**Monitor.** `Steps` lists the statements of `run_monitor` before its loop. `at`
counts those done; a step that throws, or the end of the loop, starts `Unwind`,
which undoes them in reverse order, joining the server thread and closing what
each local owns. It runs beside `HttpServer` and `SyscallAudit`. A signal may
arrive at any moment. A *scenario* says who connects, who may hang up, how many
descriptors there are, which system calls happen and which steps, or `accept4`,
may fail.

**NetStats.** The XDP program on several CPUs. Lookup and update of the per-CPU
hash are separate steps; an insertion zeroes the values of the other CPUs.

The BPF ring buffer, the hashes, the condition variable, sockets and epoll are
external, modelled from their use. Definitions whose name ends in `_something`
are the definition below them with one bug planted; they show that each property
can fail.

## Runs

| Run | Bounds | Result |
|---|---|---|
| `spsc_ring` | 2 slots, counters modulo 8, 2 items, bursts up to 3 | passes |
| `batch_processor` | 2 packets, bursts of 2, 5 allocations; rings of 2 and 4 with two threads, of 1 with one | passes |
| `thread_pool` | 2 workers, 2 clients with timed tasks on one route, 1 nested task, latencies 2 and 5, counters up to 7 | passes |
| `tcp_pipeline` | 2 processes, up to 3 of 4 sockets, 1 pending entry, ring buffer of 1 to 3 records, six profiles | passes |
| `monitor` | up to 2 of 3 clients, 1 or 2 descriptors, waits of up to 2 events, up to 4 of 5 system calls, audit ring of 2 records, six scenarios | passes |
| `net_stats` | 2 CPUs, 6 frames, 2 protocols, a map of 1 entry | passes |
| `batch_small_ring` | ring of 1, two threads | violated |
| `tcp_parallel_connections` | one process, two sockets | violated |
| `tcp_filtered_close` | `--filter-pid 1`, two processes | violated |
| `tcp_port_labels` | as `tcp_parallel_connections` | violated |
| `monitor_hang` | second ring buffer fails, a signal may arrive | violated |
| `http_fragment` | one client, two segments | violated |

- `spsc_ring`: counters stay ordered across the wrap, no slot is written while
  it is read, the slots hold what they should, the ring refines `BoundedQueue`,
  and a polling consumer gets every published item. Four wraps of the slots fit
  in one wrap of the counters, and a burst can exceed the ring.
- `batch_processor`: no packet is lost or has two owners, packet and byte
  statistics add up, a ring as large as the pool never drops, and sent packets
  return. Five allocations of two packets reuse each slot of the free list.
- `thread_pool`: no lost wakeup, FIFO start, `completed()` ahead of the futures,
  the destructor drains and returns; a timed request is counted once however its
  body ends and before its future is ready. In every snapshot the minimum and the
  maximum of a used route are latencies recorded for its requests (the history
  `took`) and no request was outside them; the mean lies between them while the
  sum fits. Two requests on one route are enough for one to find the other's
  numbers; 2 + 5 just fits in `total_us` and 5 + 5 wraps.
- `tcp_pipeline`: byte and connect totals are exact under every interleaving,
  overflow and reuse; attribution is exact for sequential processes without
  loss; connects obey the filter; a scrape is consistent; records do not stick.
- `monitor`: the server thread never reaches a destroyed local, whichever step
  throws; everything acquired is released; a buffer never mixes two clients,
  although a descriptor number is reused at once; a whole request gets the status
  of its route; no client is forgotten under edge triggering unless an
  accept fails with clients waiting; every suspicious call is reported once unless
  its uid is to be ignored (see below) or the ring was full, and no reserved record
  is stuck; a signal at any moment ends the
  process. Two clients over one descriptor give reuse and exhaustion, over two
  they give one edge for two connections; two records make the ring overflow and
  be submitted out of order.
- `net_stats`: per-protocol sums over CPUs are exact, also when two CPUs insert
  one protocol at once; only a full map loses frames.

The six violated runs are disagreements between code and text:

1. `send` frees a refused packet on the producer thread (`packet_processor.h:75`)
   while `process_burst` frees on the consumer thread. Both enqueue on a ring
   that is "Single Producer / Single Consumer ONLY" (`spsc_ring.h:5`), and a
   packet is lost. It takes a ring smaller than the pool; the defaults are safe.
2. `trace_tcp_close` finds the connection by pid (`tcp_tracer.bpf.c:96`), so with
   two sockets in one process "Bytes transmitted per connection" (`metrics.h:34`)
   are credited to the wrong one.
3. `trace_tcp_close` does not consult the filters, so `--filter-pid N` does not
   "trace only PID N" (`monitor.cpp:148`).
4. Ports reach the reporter in host order, and `metrics.h:55` and
   `monitor.cpp:100` apply `ntohs` to them: 443 is shown as 47873.
   `tests/test_http.cpp:63` hides it by recording ports in network order.
5. `BpfRingBuffer` is created after the server thread (`monitor.cpp:190`). If that
   throws, unwinding joins a thread nobody told to stop, and the error message of
   `main` (`monitor.cpp:227`) is never printed; a signal does not help either.
6. `handle_client` answers on `EAGAIN` (`async_server.h:97`), so a request split
   inside its first line gets a 404 although a "Per-client read buffer" is kept.

One disagreement has no run of its own. The comment at `uid_whitelist`
(`syscall_audit.bpf.c:26`) says that the uids in the map are ignored, except 0,
root, which is always monitored. The code (`syscall_audit.bpf.c:55`) tests the value
of the entry and not the uid: a uid stored with value 0 is reported, and root stored
with another value would not be. Nothing in the repository writes the map, so which
entries its user makes is unknown. `AuditExact` is therefore stated by the comment
(`Ignored`) and leaves open exactly the entries the two read differently
(`Disputed`); `WhitelistAsSaid` in `Monitor_proofs` proves that there are no others.
In the run, uid 7 is ignored, uid 0 has an entry of value 0 and must be reported,
and uid 5, with value 0, is disputed.

Deadlock checking is off where the system may stop: the pool after destruction,
the batch processor when its caller sends no more (`MaxAllocs`), the monitor when
its process has ended, the XDP program when no more frames come.

## Fairness

Ring: a consumer inside a call finishes it, and it keeps polling; strong fairness
on a poll that sees the current `head_` says a store becomes visible in finite
time. Nothing obliges the producer. Batch processor: a thread finishes its call
and the consumer keeps polling. Thread pool: workers, pending notifications and
the destructor run, task bodies end, and a runnable worker eventually gets the
mutex; nobody must submit or destroy, and spurious wakeups are not relied upon.
Pipeline: a BPF program runs to its end and the main loop polls; sockets need
not open or close, and nobody must scrape. Monitor: the main thread and the server
thread run, and a started audit program runs to its end; nobody must connect,
send, hang up, make a system call or signal. `epoll_wait` and the polls have
timeouts (100 and 10 ms), so neither thread relies on outside help to go on.

## Proofs

TLAPS proves every safety property that a passing run checks, for every value of
the constants that satisfies the named assumptions. Eight modules hold proofs.

**Ring** (`RingAssumption`: every capacity, counter modulus that is a multiple of
it, burst bound and item set). `SpscRing_proofs`: `TypeCorrect`,
`CountersStayOrdered`, `RaceFreedom`, `OwnerSize`, `SlotsInvariant`,
`RingImplementsQueue`. The inductive invariant is `TypeOK /\ CountersOrdered`:
going round the counters, the producer's view of `tail_`, `tail_`, the consumer's
view of `head_`, `head_` and the end of the batch being written follow each other
within one `Capacity`. The code's own tests bound only two of these at a time; the
sum is what makes them inductive. Two counters less than `Capacity` apart have
different slots (`SlotsDiffer`), which gives race freedom. `SlotsHold` then
follows, since a write lands outside the published stretch, and with it each store
of `head_` is a `Put`, each store of `tail_` a `Take`, and every other step
stutters. Modular arithmetic is confined to the lemmas at the top of the module.

**Sums** (`Sums_proofs`; lemmas only). `SumOver` is a fold of the community
modules, that is, a function chosen to satisfy a recursive equation, about which
nothing is known until such a function is shown to exist. The lemmas take the
smallest set for which no function works and contradict it (`SolutionExists`,
`SolutionsAgree`), and from the equation get what the other modules cite: the empty
sum, adding, removing or changing one element, a sum over a part (`SumPart`), an
entry updated or inserted (`SumAtKey`).

**Batch processor and pool** (`BatchAssumption`: any pool, burst and ring size, any
lengths that are naturals, any number of allocations). `BatchProcessor_proofs`:
`PacketsNeverLost`, `BatchTypeCorrect`, `AllocationsAddUp`, `BytesAddUp`,
`FreeListHasOneEnqueuer` and `FreeListNeverFull` have one hypothesis, `Supported`:
one thread makes all calls, or the ring is at least as large as the pool. The run
`batch_small_ring` shows that without it packets are lost; `LargeRingIsLossless`
needs no hypothesis. The inductive invariant `PoolInv` adds three things to the
types. `SoleFreer`: at most one thread is inside a free, because a ring as large as
the pool never sends the producer down the drop path. `SlotsWritten`: that thread's
copy of `head_` is current and the slots it wrote above it hold its packets. And
`PacketsConserved`, which is stated as a count and a cover: the places a packet can
be in have `PoolSize` entries in all and contain every packet. Together they say
that no packet is in two places (`CoverIsTight`, by counting), which is how each
action's proof learns that the packet it moves is nowhere else. With every packet
of a burst outside the free list there is room for the burst: `FreeListNeverFull`
proves the comments "free list cannot be full" and "can't overfill"
(`memory_pool.h:58`, `:77`) that excuse the discarded results, and
`FreeListHasOneEnqueuer` that `free_ring_` is used as `spsc_ring.h:5` demands. The
free list's counters are naturals here; that wrapping them changes nothing is what
the ring's proofs show. `BytesAddUp` needs the packets in flight to be distinct
from the one being allocated, whose length is overwritten.

**Thread pool** (`PoolAssumption`: any workers, clients and nested tasks).
`ThreadPool_proofs`: `PoolTypeCorrect`, `WakeupsReachWorkers`, `FifoStart`,
`CountedFirst`, `DestructorDrains`. The invariant has five parts, each inductive
with the ones before it: types; `SleepInv`, `NoLostWakeup` with the fact that nobody
sleeps once `notify_all` has been called; `QueueInv`, what was accepted is what
was started followed by what is queued, without repetition, and no two workers
have the same task; `ResultInv`, a started task is with a worker or has its
result, and `m_completed` is ahead of the results by the workers between the two;
`ExitInv`, a worker leaves only after the stop with an empty queue.

**Timed tasks** (`StatsAssumption`: any finite set of routes, latencies up to the
counters' maximum, and no more requests than a counter can count). In the same module, `TimingKeepsPool` shows
that each step of the composition is a step of the pool or leaves it alone, so the
pool's theorems carry over (`PooledSafety`). `SnapshotsConsistent` proves
`MeanBetween` with `AllSound`: a route's `requests` is the number of its timed
requests, so it never wraps; its extremes are the initial ones exactly while there
is none; the true sum of the latencies lies between that number times the extremes,
and `total_us` is that sum as long as it fits. `RequestsCountedOnce` proves `CountedOnce` with `CountInv`: a
worker past a request's body has had its timer destroyed, so the request is
counted before its future is ready; `record` adds one to one route, and so to the
sum over routes.

**TCP programs** (`TracerAssumption`: any sockets, processes, connections, ports,
sizes and filters). `TcpTracer_proofs` has three invariants. `TracerInv`: a pointer
a close program holds leads to an element that was written, so that what it copies
is an event; a program past the filter works for a connection the filters admit,
and so does every connect in `tcp_events`; a program that fills a record owns it.
`TagInv`: a program has at most one reserved record, exactly while it writes it,
and each socket's connect and close wait in the ring buffer at most once, the close
with the socket's bytes; so a submission moves nothing into or out of what was
counted, and a poll moves one event. `SeqInv`, for processes with one connection at
a time and no record lost: a pending entry describes the one socket its process has
in use, the pointer a close looked up is still that entry, and what it copies keeps
the key until it is polled. `PendingDoesNotLeak` follows. Only here are the byte
swaps computed: swapping twice gives the port back (`SwapTwice`).

**Pipeline.** `TcpPipeline_proofs`: `ConnectsObeyFilter` and
`ScrapesAreConsistent` follow from `PipeInv`, which adds that keys are never erased
and bytes only grow, so the lines a scrape took stay behind the reporter.
`PipelineTypeCorrect` adds `SizeInv`: no two processes share an element, so
replacing an entry frees exactly one and `pending_connects` stays within its size.
`EventsDeliveredOnce` is inductive with `TagInv`: the poll adds to the reporter's
sum what the event it consumes adds to the sum over delivered sockets.
`BytesBelongToConnection` does the same key by key (`CreditInv`), with `SeqInv`
saying that the key of a close is that of its socket.

**Monitor** (`FdAssumption`, `ScenarioAssumption`, `AuditAssumption`: any clients,
descriptors, system calls, audit ring and scenarios). `Monitor_proofs`:
`NoDanglingReference` and `EverythingReleased` follow from `LifeInv`: the server
thread exists only while its `jthread` is built, sockets only while the server is,
and each kernel object only while its local is. `BuffersNeverMix` follows from
`BufferInv`: between two calls of `handle_client` every buffer is empty, and within
one only that of its own descriptor is not. `AuditReportsExactly` follows from
`AuditInv`: a call has at most one record, which is busy exactly while its program
fills it, and a finished call is in the ring or among the alerts exactly when
the code suspects it and it was neither dropped nor missed; `WhitelistAsSaid` turns
that into the rule of the comment.

**HTTP server** (`RequestAssumption` in addition: any segments and routes, any
positive batch of events). In the same module: `MonitorTypeCorrect` and
`WholeRequestsAnswered`. The invariant says that an open descriptor has one client
and a client one descriptor (`ConnInv`); that a client's descriptor is ready, or
among the events being dispatched, only after its client sent something or hung up
(`EdgeInv`, which is why `EAGAIN` cannot come before a whole request does); and
that the buffer holds exactly the segments read (`ReadInv`).

**XDP statistics** (`FrameAssumption`: any finite set of CPUs, any frames,
protocols and map size). `NetStats_proofs`: `StatsTypeCorrect` and
`ProtocolCountsExact`. Besides `CountsExact` the invariant needs `CellInv`: a CPU
about to insert has a zero cell for that protocol, even if another CPU inserted the
protocol since the lookup, so writing the cell loses nothing.

Only model-checked: every liveness property (fairness is beyond the prover). Five of
the violated runs refute a property that nothing proves; the sixth,
`batch_small_ring`, refutes `PacketsConserved` outside `Supported`.

## Not modelled

Formatting and terminal output (`print_top` included) and argument parsing; torn
copies of a hash element; `uid`, `comm` and timestamps; methods without a caller
outside the tests (`clear`, `alloc_burst`, `from_processor`); a third thread
reading `size()`; a `jthread` that cannot be started in the pool's constructor;
short writes of a response and signals raised by writing to a reset connection;
client descriptors still open when the server stops, which the process' end
closes; a filter that could not be written, which the code only warns about; the
growth of the reporter's map, which never forgets a connection. `PROJECT.json`
lists the hazards that no property covers, with the reason.
