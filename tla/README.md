# Verification of zape

zape is an HTTP and WebSocket server library in Zig on top of libapenetwork, a
C library of non-blocking sockets, timers and DNS lookups driven by one event
loop per thread. This directory holds TLA+ models of its core, TLC runs on small
instances, and TLAPS proofs for all instances. `PROJECT.json` lists the runs,
the code lines behind every definition, and the hazards the properties are for.

All paths below are under `src/pkg/libapenetwork/src/` unless they say otherwise.

## 1. Inventory

Everything runs in one thread: `APE_loop_run` polls, handles a batch of events,
then runs the timers, and every application callback is called from one of the
three. What is hard is not parallelism but *re-entrancy*: any callback may close
any socket, arm any timer or start any lookup, between any two steps of the
library that calls it.

| Part | State | Operations | Talks to |
|---|---|---|---|
| socket life cycle (`ape_socket.c`) | state, type, flags, delay timer, lookup | new, listen, connect, accept, read, shutdown (queued, now, delayed), destroy | loop (events), timers (deferred release), resolver |
| output jobs (`ape_socket.c`) | job list, packet lists, `WOULD_BLOCK`, memory counters | write, writev, sendfile, queue, do_jobs, clean-up | kernel, pool, loop |
| pool lists (`ape_pool.c`) | slots, head, queue, current | new, grow, head to queue, head to current | output jobs |
| timers (`ape_timers_next.c`) | list of timers, list of asynchronous calls, last identifier | create, destroy, clear, unprotect, async, process | everything that defers |
| event loop (`ape_events_loop.c`) | the batch, the place in it | run, stop | all |
| event back ends (`ape_events.c`, `ape_event_*.c`) | watched descriptors, `nfd`, event array | add, mod, del, poll, shrink | kernel, hash table (select) |
| DNS (`ape_dns.c`) | request records, c-ares descriptor table | resolve, answer, invalidate | socket, c-ares |
| WebSocket (`src/src/websocket.zig`) | parser, `closed` | process_data, writev, close, ping, pong | http server, socket |
| HTTP server (`src/src/http.zig`) | request context, user context, `done`, `responded` | connect, data, upgrade, respond, disconnect | llhttp, WebSocket, socket |
| Zig wrapper (`src/pkg/libapenetwork/main.zig`) | none | forwards calls and callbacks | socket |
| hash table (`ape_hash.c`) | buckets, list of items, cleaner | append, erase, seek | select back end |
| byte buffer (`ape_buffer.c`) | data, size, used | prepare | `ape_socket_read` |
| log, netlib, TLS | globals | - | - |

What makes each part correct:

* **life cycle**: nothing the library will touch was freed; a socket that was
  given up is released once, is reported to the application once, and is
  released eventually; late answers (events, lookups, timers) do no harm;
* **output**: the peer gets a prefix of what was written, a queued shutdown
  comes after the output before it and does come, no wake-up is lost, memory
  counters and buffers balance;
* **pool**: the order of jobs is the order of calls, and the head is the oldest
  pending job;
* **timers**: a pass calls only timers older than the pass, and a callback may
  destroy any other timer; a timer is called again or leaves the list; the wait
  handed to `poll` is not longer than the next timer needs;
* **event back ends**: what is watched is what is open and live, the holder the
  back end names is the holder, and an entry of a batch is good until its turn;
* **hash table**: chains, list and back pointers agree;
* **WebSocket**: the parser keeps in step with the frames, delivers payloads
  intact, answers in order, closes once;
* **HTTP**: data reaches one parser, once and in order; one answer per
  connection, one context per connection, released once; a peer that closes ends
  the connection.

## 2. Modules

| Module | Models | Status |
|---|---|---|
| `SocketLife` | abstract: the life of a socket as the application may rely on it | done |
| `ApeSocket` | socket life cycle, timers, lookups and one turn of the loop, composed | done |
| `ApeSocket_proofs` | theorems about `ApeSocket` | done |
| `ByteStream` | abstract: the output side as an ordered byte stream with an end | done |
| `ApePool` | pool lists as pure operators | done |
| `ApeSocketJobs` | output jobs of a connected socket, the loop's write branch, the kernel's send buffer | done |
| `ApeSocketJobs_proofs` | theorems about `ApeSocketJobs` when it only writes and shuts down | done |
| `ApeSocketOrder_proofs` | theorem about `ApeSocketJobs` with vectors, files and failures | done |
| `WebSocket` | frame parser and writer | done |
| `WebSocket_proofs` | theorems about `WebSocket` | done |
| `ApeTimers` | timers and asynchronous calls over time, the pass, the wait | done |
| `ApeTimers_proofs` | theorems about `ApeTimers` | done |
| `ApeHash` | the hash table under integer keys, as pure operators | done |
| `ApeEvents` | the three event back ends, descriptor numbers, the resolver's table, the batch; uses `ApeHash` | done |
| `ApeHash_proofs` | theorems about `ApeHash` | done |
| `ApeEvents_proofs` | theorems about `ApeEvents` with each back end | done |
| `HttpServer` | connections of the http server from `read()` to the handlers | done |
| `HttpServer_proofs` | theorems about `HttpServer` | done |
| `MC*` | instances for TLC | done |

How the modules share a part of the code: `ApeSocket` has the life of a socket
with one lookup and its own timers, and abstracts from time, from the numbers of
descriptors and from the back end; `ApeTimers` and `ApeEvents` have those, and
abstract from the life of a socket. `HttpServer` takes a connection as
`ApeSocket` delivers it, and its output as `ApeSocketJobs` does: a queued
shutdown takes place at once or later.

### ApeSocket

A socket is one element of `Sock`; a structure is never reused, so "freed" is a
state of its own and a pointer is good when its socket is not `FREED`. `timers`
is the list: identifiers grow, so the list order (newest first) is the order of
the identifiers, and `limit` is the identifier at which a pass stops
(`ape_timers_process` notes `last_identifier` when it starts). `batch` and `cur`
are the events still to handle and the socket whose handler is running; `pc` is
the place in the turn. Callbacks are modelled by letting every application
action happen wherever the code calls one: in `accept`, in `onread`, in the
timers, and between turns. `dnsPtr` and `req` are the two ends of a lookup:
`socket->dns_state` and the request record c-ares holds.

Each release goes through a timer: `ape_shutdown` arms `_ape_socket_destroy`
(callback `"destroy"`), `ape_socket_destroy` arms `ape_socket_free` (`"free"`).
`AppWaitsForConnected` says whether the application leaves a UDP socket alone
until `on_connected`; without it a UDP socket can be freed before its deferred
`on_connected` runs (run `udp_early_close`).

Left out: payload (see `ApeSocketJobs`), the TLS branches (compiled out), UDP
servers, failure of `bind()` for the local port of a connect.

### ApeSocketJobs

The application's bytes are numbered, so that the wire shows losses, repetitions
and reorderings. A packet is its first byte, length, offset and ownership class
(`copy` also stands for STATIC data, which is copied when it is queued). A job
slot has an active flag, type bits that outlive the job as in the code, and a
pointer that is a packet list or a file. `pc` separates the three moments of a
write event that callbacks and the peer can get between: the flag is cleared,
`on_read` runs, the jobs run. Each `writev()` or `sendfile()` of
`ape_socket_do_jobs` is a step, so that the peer may make room between two.

The kernel is a buffer with `room` bytes. It is edge triggered: only after a
write that failed with EAGAIN does new room raise an edge. `WriteEvent` may also
happen without one while there is room, since epoll reports the write side
together with any other edge.

The bytes of a chunk and of a clean-up are counted by running totals (`Totals`),
which stand for the loops that add to or subtract from `n` and the counters packet
by packet: `Ends` says where in a chunk each packet ends, so that the packets a
short `writev()` finished are those whose end it reached.

`heap` has the data buffers that were copied or handed over, and `HeapExact` is
about these. The packet lists themselves are allocated too; the cleaner of the job
list destroys those of active jobs only (`ape_socket.c:538`), and whether one stays
behind in an inactive slot cannot be seen in the model.

A write that joins a slot with a file still to be sent takes the descriptor for a
pointer. The model stops there (`pc = "crash"`).

Left out: TLS; EINTR of `writev()` (it retries at once).

### WebSocket

The parser's record and steps are those of `WebSocketState`; one action takes one
byte, so every way of cutting the stream into reads is covered. Payloads are any
sequences of bytes. The XOR with the key is a parameter, of which
`XorAssumption` asks what makes it a mask; the instance gives it `Bitwise`'s. The
two extended length forms collect 2 and 8 bytes; the model adds them up most
significant first, which is what the shift and the final byte swap compute.
`writev` writes no header for 2^32 bytes and more
(`src/src/websocket.zig:148`), and neither does the model: `RepliesRight` needs
shorter payloads. The peer masks all its frames or none. With unmasked
frames the instance keeps to one-byte lengths: the code ends an unmasked frame
with an extended length before the length is read (`src/src/websocket.zig:265`),
so the property would not hold; only the client side, which is unfinished (the
mask is a TODO), would meet it. `is_binary` is left out: `prevheader` is never
assigned, and the only consumer ignores it. `close()` never sends its close
frame, because it sets `closed` first; the model does the same.

### ApeTimers

Timers are identifiers, in the order of the list. Time is relative: `due[t]` is
`schedule` minus the present, in ticks of which `Ms` make a millisecond, so that
rounding to milliseconds and the 150 microseconds by which a timer may be early
are visible. A turn is `poll` (time goes by, `Tick`), `events` (handlers of the
application, which take up to `MaxBusy` ticks), the first run of the asynchronous
calls, the walk with its callbacks, the second run of the calls, and the wait.
In the callback of a timer, in an asynchronous call and in the handlers of events
the application may do all the library offers: create, destroy, clear by
identifier, unprotect, set a clear function, make and destroy asynchronous calls.
A clear function is a callback as well, but is only counted (`clears`,
`aclears`): one that itself creates or destroys timers or calls is not in the
model. `ape_timer_destroy` calls it with `ret = timer->next` in hand
(`ape_timers_next.c:335`), so nothing here says that it may.

What the application owes, since the code has no defence: a callback does not
destroy its own timer by pointer, nor an asynchronous call the timer that heads
the list, to which the pass already points (`MayDestroy`; clearing by identifier
is allowed at any time); and when all timers are destroyed every asynchronous
call has a clear function, because `del_async_all` calls it unseen
(`DestroyMany`).

`Never` stands for `UINT64_MAX`, with which the walk starts its minimum; delays,
`int` milliseconds counted in nanoseconds, stay below it (`TimersAssumption`).

The last sample of the clock is taken only behind a callback that is to be called
again (`since`), so the wait may count from an old sample: `WaitSound` states
what is left of the promise.

### ApeHash and ApeEvents

`ApeHash` has the items of `ape_hash.c` by address, with the bucket chains
(`next`) and the list (`lnext`, `lprev`) as the code links them; each operation
returns the table and the contents the cleaner was called with. `ApeEvents`
keeps, for each number, who opened it, what epoll or kqueue hold for it, and for
select the `select_fdinfo_t` behind the hash table, with freed memory as a value
of its own (`NoInfo`). The lowest free number is handed out, as `socket()` does,
so numbers are used again at once. The back end is chosen in the initial state.

c-ares may let go of any of its descriptors while a handler or a timer runs
(`AresClose`), since the application may start a lookup from both.

What the application owes: with select, a handler does not close a socket, nor have
c-ares close a descriptor, whose entry is still in the batch and which the loop
would read the freed `fdinfo` of, and servers are shut down outside the batch (`MayClose`); a socket whose
`APE_socket_listen` failed is abandoned (`ListenFails`), since its shutdown closes
a number that may be another's; c-ares has no more descriptors at a time than
the table has slots; and with select the process stays below `FD_SETSIZE`
(`EventsAssumption`). `kqueue`'s look behind the end of a resolver slot is a
nondeterministic choice (`KqueueMaySkip`).

### HttpServer

A peer's stream is a sequence of units: part of a request, its end, the end of a
request to upgrade, data that is no request. `ReadSome` and `ReadStops` are the
`read()` calls of `ape_socket_read` with the buffer of `buffer_prepare`, so that
a stream is cut into reads at every place and a read can end with data, EAGAIN,
the end of the stream or an error. `Parsed` is llhttp's verdict on what was read
(external: it stops at an upgrade and at bad data, and repeats the verdict) and
`done`, which is never reset. The actions `Data...` are the branches of `ondata`.
`HandlerActs` is what a handler does before it returns: it answers, closes at once
or behind its output without an answer, or puts both off (`AnswerLater`,
`HandlerCloses`). The handler of an upgrade may do any of this before it refuses or
accepts, the handler of a request may fail as well. The pool has `Contexts` places,
and a connection without a context is a state of its own.

As in the code, bytes behind an upgrade request in the same read are lost, and a
connection gets at most one answer: `responded` is never reset, so a second
request on a kept-alive connection calls a handler whose answer is not sent.
`AnsweredOnce` counts responses and 101s apart: a handler may accept what an earlier
one refused, and the 101 then goes out behind the 400. A context's headers, URL and
body are left out; a `Sec-WebSocket-Key` has at most the 32 bytes that
`get_sha1_accept_key` has room for (`src/src/websocket.zig:60`), since the error for a
longer one ends the program (`catch @panic`, `src/src/http.zig:164`).

A handler that answers later does so while its connection lives: the last one made
is told of the end by `onDisconnect`. A handler that a later request replaced is not
told, and its answer after the end would go through a context that was given back;
`AnswerLater` has no such answer. While the connection lives its answer is the same
as that of the last one, since both go through the one context.

A peer acts between two events and before a `read()` of its own connection; what
it does at other times is seen at the next of these, so nothing is lost by that.

## 3. Runs

| Run | Instance | Shows |
|---|---|---|
| `socket_tcp` | 2 TCP sockets, any role | `NoDangling`, `ReleaseOnce`, `DelayTimerOwned`, `DnsPtrValid`, `DisconnectOnce`, `Watched`, `NfdBounded`, types |
| `socket_udp` | 1 TCP and 1 UDP socket, application waits for `on_connected` | the inductive invariant `IInv`; `ConnectedOnlyWhenOnline`; `ApeSocket` implements `SocketLife` including its liveness; `Released` |
| `udp_early_close` | as above, application does not wait | finding: `on_connected` on a freed UDP socket |
| `jobs_writes` | writes of 1-3 bytes, 5 bytes in all, send buffer 2, 2 packets per `writev()`, memory limit 4 | `StreamIntact`, `AccountsExact`, `HeapExact`, `GracefulShutdown`, `ShutdownKept`, `HeadFirst`, `NoLostWakeup`, `DrainReported`, types; refinement of `ByteStream` with liveness (`StreamSpec`) |
| `jobs_mixed` | writes, vectors, files that may fail, shutdowns | `InOrder`: bytes may be lost, never repeated or reordered |
| `jobs_ack` | room appears between two `write()` calls | finding: bytes past the buffer are sent |
| `jobs_head` | writes and files | finding: a job is left behind an idle head |
| `jobs_shutdown` | files and shutdowns | finding: a queued shutdown is dropped |
| `websocket_frames` | 3 frames out of 13 shapes, 2 keys, masked or not | `InSync`, `Delivered`, `RepliesRight`, `ClosedOnce`, types |
| `timers` | 2 timers of 2 ms, 1 asynchronous call, 2 ticks to a millisecond | `WalkValid`, `ReleasedOnce`, `WaitSound`; `CalledOrGone` (liveness) |
| `events` | 2 sockets, 2 resolver slots, 3 numbers, 2 buckets, all three back ends | `HashSound`, `WatchExact`, `BatchValid` |
| `http` | 2 connections, 1 context, 3 units of data | `ReadFaithful`, `ContextOwned`, `AnsweredOnce`, `SwitchClean`; `PeerCloseEnds` (liveness) |

**Bounds.** Two sockets are enough for every pairing the code has: a server and
its client, a socket and one its callback closes, two events in a batch; the
proofs remove the bound. `MaxTimerId` bounds how often delayed shutdowns are
armed, three being one per socket and a re-arming. In the output model five bytes
in writes of up to three make packets that end inside, at and beyond the send
buffer (2), lists longer than `IOV_MAX` (2) and than one block of slots (2), and
a limit (4) that is met and missed. `MaxJobs` stops further queued shutdowns.
The WebSocket lengths sit on both sides of 125/126 and need both bytes of the
two-byte form (258); three frames cover a fragmented message with something in
between. 65536 bytes and more are not reached by the run; the proofs are for
every length.

Two timers are one that is walked and one that its callback acts on, before it or
behind it in the list; with one asynchronous call the pass meets the list of
calls empty and not. In `events` three numbers over two buckets make a chain of
two; two sockets and two slots are a handler and what it closes or opens, and
`DefaultSize` 1 makes the array grow and shrink at every step. `MaxDrift` bounds
how far `nfd` falls behind. In `http` three units on one connection are a request,
an upgrade and WebSocket data, or an upgrade and two reads behind it; with one
context for two connections the pool runs out and is used again. `Chunk` 2 makes
reads that fill the buffer, do not, and make it grow.

**Deadlock** is not checked in the output and WebSocket runs: a socket in
`SHUTDOWN` or freed, a crash and a silent peer are legitimate ends.

**Fairness.** `ApeSocket` assumes only that the loop keeps turning, which
`APE_loop_run` does. `ApeSocketJobs` assumes that an edge the kernel raised is
delivered, that the loop goes on within an event, and that the peer goes on
reading; nothing is assumed of the application or of events without an edge.
`ApeTimers` assumes that the loop and its callbacks go on (weak fairness of
`Pass`) and that the clock moves on however often `poll` returns early (strong
fairness of `Tick`). `HttpServer` assumes that a read that began comes to its end,
and that every turn of the loop reports each ready connection and runs the timers
that are due (strong fairness of `ReadEvent` or `Expire` of each connection, whichever it
has coming, which other connections interrupt for a while only); nothing is assumed of
handlers, of peers or of pending output.

## 4. Findings

* `jobs_ack`: `r_bytes -= ape_min(n, 0)` never shrinks `r_bytes`
  (`ape_socket.c:778`).
* `jobs_head`: after two finished jobs the cursor of the job list has left the
  head, which is idle (`ape_pool.c:83`); later jobs are never found.
* `jobs_shutdown`: type bits outlive a job (`ape_socket.c:996`); a shutdown in a
  former file slot matches no case.
* `udp_early_close`: timers created later run first, so a shutdown overtakes the
  deferred `on_connected` (`ape_socket.c:382`).

Three of these need `APE_sendfile` or a peer that reads between two system calls;
with writes alone `jobs_writes` shows the rest sound. Two more properties that
hold with writes alone fail once files are sent, for reasons given at their
hazards: `NoLostWakeup` (`APE_sendfile` sets `WOULD_BLOCK` again) and
`DrainReported` (two jobs finished together return 2, and `on_drain` is called
for 1). In `jobs_mixed` a write can also join a slot whose file is still to be sent
and take the descriptor for its packet list; the model stops there, `InOrder` holds
up to it, and no run of its own states it as a finding. `nfd` can fall below the number of watched descriptors (`events_del`
counts down for sockets that were never added); `NfdBounded` states what is left.

## 5. Proofs

Each module of proofs has an invariant that is inductive, one lemma per action or
group of conjuncts, and one theorem per property that follows from it. No theorem
bounds anything: sockets, connections, contexts, timers, calls, bytes, lengths,
sizes of buffers, lists and `IOV_MAX` are arbitrary, within the named assumptions
of the modules.

### ApeSocket_proofs

For every set of sockets, every subset of them UDP and every bound on timers:

* `TypeCorrect`: `Spec => []TypeOK`;
* `Inductive`: `Spec => []IInv`, and from it `NoDanglingPointers`,
  `ReleasedExactlyOnce`, `DisconnectedOnce`, `DelayTimersOwned`,
  `DnsPointerValid`, `WatchedExactly`, `ConnectedWhenOnline`;
* `NfdNeverOverstates`: `Spec => []NfdBounded`;
* `ImplementsLife`: `Spec => Life!Init /\ [][Life!Next]_(Life!lifeVars)`, the
  safety half of the refinement of `SocketLife`.

All but the first are for an application that waits for `on_connected`
(`AppWaitsForConnected`), without which they are false (`udp_early_close`).

`NoDangling` alone is not inductive. A timer is good only because the state of
its socket says it is the one release timer (`ReleaseOnce`); that survives a
delayed shutdown only because `delay_timer` names the one armed timer
(`DelayTimerOwned`); a late answer is harmless only because the two ends of a
lookup agree (`DnsPtrValid`, `TimerTargets`); a handler's socket survives its
callbacks only because nothing is freed outside the timer phase, when the batch
is empty (`LoopPhase`); and a UDP socket survives until `on_connected` only
because nothing can shut it down before (`UdpConnect`). `Watched` and
`DisconnectOnce` tie the epoll set and the reports to the states. `IInv` is the
conjunction. The argument has one lemma for each group of conjuncts
(`TypeStep`, `ReleaseStep`, `PointersStep`, `BooksStep`), each with one step per
action, and one for each helper that several actions share. `NfdBounded` is about
a cardinality: it is inductive once `IInv` says that a socket that is added was
not watched before; every removal counts one out, watched or not. The refinement maps
every action of a socket to the step of its life, or to none.

### HttpServer_proofs

For every set of connections, every number of contexts and whatever the peers
send, from `HttpAssumption` (0 is neither a connection nor a context):

* `TypeCorrect`: `Spec => []TypeOK`, which has no run of its own;
* `PoolNeverLeaks`: `Spec => []ContextOwned`;
* `ReadsFaithfully`: `Spec => []ReadFaithful`;
* `NeverAnsweredTwice`, `SwitchesCleanly`: `AnsweredOnce` and `SwitchClean`.

The first two are inductive together (`PoolInv`): a step writes to the context it
finds by `ctx`, and only because no two connections share one (`ContextOwned`)
does that leave the others alone, while `disconnect` may give the place back.
`ContextKept` is the one fact behind every branch of `ondata` and every answer;
`OnDataInv` has one step per branch, `NextInv` one per action. `StreamInv` says
what was handed over and what is in the buffer make up what was read, and
`AnswerInv` (`Tied`) ties what a context remembers (`done`, `responded`, the
upgrade) to what the connection was given and answered: a flag that is never
reset bounds the answers only because the context that carries it stays with the
connection, which is `ContextOwned` again.

### ApeTimers_proofs

For every number of timers, calls, delays, and every length of callbacks:

* `ListsConsistent`: `Spec => []ListInv`;
* `WalkStaysValid`, `AllReleasedOnce`: `WalkValid` and `ReleasedOnce`, from it;
* `WaitsNoLonger`: `Spec => []WaitSound`.

`ListInv` is `TimersInv` (the list descends by identifier, which is why a new
timer never comes into the way of a walk, and a clear function was called for
exactly the timers that left), `CallsInv` (the same for the asynchronous calls,
on the list or taken off it) and `PassInv` (where the pass is and what it holds).
`WaitSound` needs what the walk computed so far: the minimum is not above the
schedule of any timer it has passed (`SoonInv`), whatever was created, destroyed
or rescheduled behind it. What the application owes (`MayDestroy`) is a guard of
the actions, see section 2.

### ApeSocketJobs_proofs

For an application that writes and shuts down, and no room appearing between two
`write()` calls of one `APE_socket_write` (`WritesOnly`, the constants of
`jobs_writes`); any lengths and data types, any size of the send buffer, of the
packet lists and of `IOV_MAX`, any memory limit:

* `OutputConsistent`: `Spec => []OutInv`;
* `TypeCorrect`, `StreamKept`, `AccountsKept`, `HeapKept`, `ShutdownWaits`,
  `ShutdownStays`, `HeadDecides`, `WakeupComes`, `DrainCounted`: the nine
  invariants of `jobs_writes`, from it;
* `ImplementsStream`: `Spec => Stream!Init /\ [][Stream!Next]_(Stream!vars)`, the
  safety half of the refinement of `ByteStream`.

The hypothesis is not for convenience: outside it `StreamIntact`, `HeadFirst` and
`ShutdownKept` are false (`jobs_ack`, `jobs_head`, `jobs_shutdown`).

`StreamIntact` says nothing of what is queued, so it is far from inductive.
`OutInv` adds: the jobs are consecutive stretches of the stream that begin where
the wire ends and end with the last byte accepted, every packet in a stretch
beginning where the one before it ended and only the very first being partly sent
(`Placed`, `Stretch`, `Lined`, `LineInv`); the library's buffers are those of the
packets (`MemInv`); the job list has one of three shapes, data at the head with
the shutdown second, idle, or a shutdown at the head (`ShapeInv`), which is why
the head alone may be looked at; and who is to move next in each shape
(`TurnInv`), which is why no wake-up is lost. Below it stand lemmas for every
operation on the lists: what growing, rotating and queueing do slot by slot
(`GrowFacts`, `QueueFacts`, `HeadFacts`), what adding a packet and a short
`writev()` do to a stretch (`AddRun`, `TookRun`), what both, a shutdown and the
end of a job do to the line of jobs (`QueueRun`, `SendRun`, `AskRun`,
`RotateRun`), and what the cleaners release (`HeldIs`, `FreeRun`). The running
totals over a packet list are recursive functions; `TotalsAre` proves what such a
function is by the least counterexample, and `PendingIs`, `ChunkIs` and `FullIs`
read the rest off the ends of the packets.

### ApeSocketOrder_proofs

For an application that does all the module allows (writes, vectors, files that
may fail, shutdowns), any lengths, sizes and limits; no room appearing between two
`write()` calls of one `APE_socket_write` (`AckDuringWrite = FALSE`):

* `OrderKept`: `Spec => []InOrder`.

The hypothesis is needed: with room in between, the second `write()` reads past the
end of the buffer, and what it finds there comes behind bytes with higher numbers.

Here jobs have none of the three shapes of `OutInv`. A write may join a SHUTDOWN or
SENDFILE job in the current slot, a job of several types is dropped with its
packets, a retired slot keeps its type bits and its list, and a slot behind an idle
one may hold old data. What is left of the line of jobs is `OrderInv`: there are
places pos[0] <= pos[1] <= ... in the stream, the wire is ascending and not beyond
pos[0], the last place is `accepted`, and job j sends nothing outside pos[j - 1] ..
pos[j] (`Rows`, `Sends`). This is asked only of the active slots from the head on
up to the first idle one (`Ahead`): `ape_socket_do_jobs` stops at an idle head, and
a call that finds one passes by the list. So when a call does (`Bypass`), every
place may be moved behind its bytes (`Restart`), whatever the idle slots hold; and
the current slot, when a call is given it idle, must hold nothing that its type
bits would send together with the new data (`Unused`). `SlotTaken` shows that the
slot a call is given can take what comes last; `HeadGoesOn` and `HeadDone` show
what a short `writev()` or `sendfile()` and the end of a job do to the line.

### ApeHash_proofs

For every number of buckets and of items, from `HashAssumption`:

* `AppendSound`: to append a key the table does not have keeps `TableInv`, cleans
  nothing and changes what `Seek` finds under that key and no other, if an address
  is free (`malloc` succeeds);
* `EraseSound`: to erase a key keeps `TableInv`, cleans the content found under it
  and changes what `Seek` finds under that key and no other.

`TableInv` says that the items of each bucket, and all of them in the list, are
linked (`Linked`): every item but the first has exactly one before it, and there
is one `age` for all ways under which each link leads from a younger item to an
older one. There is one because an item comes to the front of its bucket and of
the list at once. The age is why a walk ends: the items a walk of n steps met are
n different ones (`WalkAges`), so one of `MaxItems` steps has met `NULL`
(`WalkStops`, the pigeonhole), and with that every item is met (`WalkMeets`). `Way`
is a recursive function; `EndlessWayIs` proves what it is by the least
counterexample, as for the totals above. `TableWellLinked` takes `WellLinked`, the
structural part of `HashSound`, from `TableInv`; `FoundIs` and `NotFoundIs` say what
`Seek` returns, and `AppendFields` and `EraseFields` what the assignments of the two
operations do to each field.

### ApeEvents_proofs

For every number of sockets, resolver slots and descriptor numbers, every initial
size of the array, every number of entries a poll returns and every number of
buckets, with epoll, kqueue and select, from `EventsAssumption` and
`HashAssumption`:

* `HashStaysSound`: `Spec => []HashSound`;
* `WatchesExactly`: `Spec => []WatchExact`;
* `BatchStaysValid`: `Spec => []BatchValid`.

Of `EventsAssumption` two parts are about select: numbers stay below `FD_SETSIZE`,
which the code does not enforce (see section 6), and the table has an address for
every number, since a failing `malloc` is not checked for and not modelled.

All follow from `EvInv`, which holds in every state of the instance of `events`.
`BooksInv` has what each back end writes down: the kernel's records, and for
select `TableInv` and that the table finds under a number the `fdinfo` of that
number and every `fdinfo` that is not freed (`TableFinds`). `Names` reads off these
books whom the back end names for a number, and from there the argument is the
same for all three: `AddIs`, `ModIs`, `DelIs` and `CloseIs` say how the four calls
change `Names`, by the kernel or, with select, by `AppendSound` and `EraseSound`
(`SelectAddIs`, `SelectDelIs`).
`HoldInv` reads the books in both directions: a watched
descriptor has an open number of its own under which the back end names it
(`Held`), and what is named for a number is watched under it (`Named`).
Only together do they say that a number that is free, or one's own, is nobody
else's (`Unclaimed`), and that is what `socket()`, `accept()`, `close()` and the
slots of the resolver need when numbers are used again: `Gains` and `Loses` are
the two ways a number changes hands. `BatchInv` has that a socket of the batch is
not freed, which holds because only the timers free and the batch is empty when
they run; an `OFFLINE` socket of the batch may have lost its number to another,
and nothing is claimed of it. `RoomInv` ties the array to the size that `poll` is
given: `events_add` only makes it larger while a batch is read (`RoomKept`), and
`events_shrink` runs before the poll that fills it (`ShrinkIs`), whatever `nfd`
has drifted to. With select a batch holds addresses of `fdinfo`s, which is what
`EntryGood` asks of it.

### WebSocket_proofs

For any frames, payloads and keys and any number of frames, from
`WebSocketAssumption` and `XorAssumption`, for a peer that masks, and for one that
does not if it keeps to one-byte lengths (`BareShort`; otherwise the code falls out
of step, see section 2):

* `WsInvHolds`: `Spec => []WsInv`;
* `TypeOKHolds`, `InSyncHolds`, `DeliveredHolds`, `ClosedOnceHolds`: four of the
  five invariants of `websocket_frames`, from it;
* `RepliesRightHolds`: the fifth, for payloads shorter than 2^32 bytes
  (`PayloadsSmall`), from where on `writev` writes no header.

`InSync` and `Delivered` speak of the ends of frames and are not inductive.
`WsInv` says what holds between: the bytes still to come are the rest of the
frame behind its first n (`Rest`), and the parser is in the phase that n belongs
to, with all it has read of the frame in its place (`AtStart`, `AtLength`,
`AtLengthByte`, `AtKey`, `AtData`). One lemma for each phase (`FromStart` to
`FromData`) has the byte lead to the phase of n + 1, or, with the last one, to
the end of a frame whose header and payload are those that were sent
(`Taken`). `PlaceIs` is why the length comes out right: a byte of it makes the
shift of the number before it one byte shorter. `HistoryInv` is about what came of
the frames before: a list in ascending order grows at its end (`AscendingMore`),
by the data frame that ends for `Delivered` and by the frame to be answered for
`RepliesRight`, which is one exactly when the connection is not closed. `HeadIs`
is the header, read back by the peer.

### Only model-checked

* everything with fairness (`Released`, `CalledOrGone`, `PeerCloseEnds`, the
  liveness of `SocketLife` and `ByteStream`): outside the prover's reach.

## 6. Not modelled

TLS (compiled out by `APE_DISABLE_SSL`), log (output only), library start and end
(allocation and operating-system calls), llhttp and c-ares (vendored; they appear
by their answers). The operations of the hash table under string keys, the
appending and gzip parts of the byte buffer, `events_reload` and parts of the pool
have no caller in the repository, so there is no behaviour of the system to state
about them. UDP servers and `ape_socket_write_udp` keep no state between two
datagrams.

Known but not covered: `event_select_add` lets `FD_SETSIZE` itself pass
(`ape_event_select.c:46`); a wish of c-ares to read and write is taken for one to
read (`ape_dns.c:52`, modelled so, without a property); a failed `bind()` in connect leaves the socket `PENDING`
silently; c-ares timeouts are never processed; a second request on a connection
replaces the handler of the first without `deinit`; with unmasked frames the
WebSocket parser keeps the key of the last masked one; a WebSocket key that is too
long ends the program (section 2).

Nine hazards of `PROJECT.json` name no property, and each says in its note why. In
six a guard or the instance keeps the case out, as a duty of the application, the
peer or c-ares that the code does not enforce: a failed listen shut down
(`ListenFails`), unmasked extended lengths (`BareShort`), calls without clear
function at the end (`DestroyMany`), a descriptor closed under its entry in the batch
of select and a server closed from a batch (`MayClose`), and a full resolver table
(`AresOpen`). In two the model does what the code does and no property forbids it:
an asynchronous call made after it was destroyed, and a 101 behind a 400. The
ninth, the timeouts of c-ares, is outside the repository.
