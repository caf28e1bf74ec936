---------------------------- MODULE ApeSocketJobs ----------------------------
(***************************************************************************)
(* The output side of one connected TCP socket (ape_socket.c):             *)
(* APE_socket_write and APE_sendfile try the kernel first and put what it  *)
(* does not take in the job list; a write event makes ape_socket_do_jobs   *)
(* work the list off; APE_socket_shutdown queues behind pending output.    *)
(*                                                                         *)
(* The payload is the stream of bytes the application hands over, numbered *)
(* 1, 2, 3...: byte i is the number i.  `wire' is what the kernel was      *)
(* given, in order.  Garbage stands for a byte read past the end of the    *)
(* application's buffer.                                                   *)
(*                                                                         *)
(* The kernel is external: a send buffer with `room' free bytes.  The      *)
(* epoll set is edge triggered: after a write that failed with EAGAIN      *)
(* (`nospace') the next room to appear raises one edge.                    *)
(***************************************************************************)
EXTENDS Integers, FiniteSets, SequencesExt, ApePool

CONSTANTS
    Lens,            \* lengths the application writes
    Classes,         \* data_type, up to what release does: see Owned
    FileLens,        \* lengths of the files it sends; {} if it sends none
    VecLens,         \* lengths it hands to APE_socket_writev; likewise
    MaxStream,       \* bound: bytes the application ever hands over
    MaxJobs,         \* bound: slots of the job list beyond which no more
                     \* shutdown is requested
    SndBuf,          \* bytes the kernel's send buffer holds
    MaxChunks,       \* IOV_MAX
    PacketSlots,     \* slots of a packet list, and by how many it grows
    BufLimit,        \* max_buffer_memory_mb in bytes, 0 for no limit
    AckDuringWrite,  \* BOOLEAN: the peer may make room between two write()
                     \* calls of one APE_socket_write
    FileErrors       \* BOOLEAN: sendfile() may fail with a hard error

ASSUME JobsAssumption ==
    /\ Lens \subseteq Nat \ {0} /\ FileLens \subseteq Nat \ {0}
    /\ VecLens \subseteq Nat \ {0}
    /\ Classes \subseteq {"copy", "auto", "own"}
    /\ MaxStream \in Nat /\ MaxJobs \in Nat /\ BufLimit \in Nat
    /\ SndBuf \in Nat \ {0} /\ MaxChunks \in Nat \ {0}
    /\ PacketSlots \in Nat \ {0}
    /\ AckDuringWrite \in BOOLEAN /\ FileErrors \in BOOLEAN

VARIABLES
    state,      \* "ONLINE", "SHUTDOWN", then "FREED"
    wb,         \* APE_SOCKET_WOULD_BLOCK
    jobs,       \* socket->jobs
    buffered,   \* socket->current_buffer_memory_bytes
    total,      \* ape->total_memory_buffered
    heap,       \* buffers the library has to free, by their first byte
    room,       \* free bytes of the kernel's send buffer
    nospace,    \* the last write failed with EAGAIN and no room came since
    edge,       \* a write edge is waiting in the epoll set
    pc,         \* "idle", "read" (on_read may run), "jobs", or "crash"
    njobs,      \* njobsdone of the running ape_socket_do_jobs
    accepted,   \* bytes the application handed over
    wire,       \* bytes the kernel was given
    promise,    \* accepted when the shutdown was first requested, or -1
    how         \* how the socket left ONLINE: "none", "graceful", "forced"

jobVars    == <<jobs, buffered, total, heap>>
kernelVars == <<room, nospace, edge>>
streamVars == <<accepted, wire>>
endVars    == <<state, promise, how>>
vars       == <<jobVars, kernelVars, streamVars, endVars, wb, pc, njobs>>

Garbage == 0
Least(a, b) == IF a <= b THEN a ELSE b

\* Bytes from+1 .. to of the stream; past `end' there is nothing to read
Bytes(from, to, end) ==
    [i \in 1 .. to - from |-> IF from + i <= end THEN from + i ELSE Garbage]

\* A slot of a packet list (ape_socket_packet_t); used says data # NULL
Packet(base, len, off, cls) ==
    [used |-> TRUE, base |-> base, len |-> len, off |-> off, cls |-> cls]
NoPacket == [used |-> FALSE, base |-> 0, len |-> 0, off |-> 0, cls |-> "own"]

\* What ptr of a job slot holds: NULL, a packet list, or a file
NullPtr == [kind |-> "null"]
ListPtr(l) == [kind |-> "list", list |-> l]
FilePtr(base, len, off) == [kind |-> "file", base |-> base, len |-> len, off |-> off]

\* A slot of the job list.  The type bits stay when ACTIVE is cleared.
NoJob == [active |-> FALSE, flags |-> {}, ptr |-> NullPtr]

Init ==
    /\ state = "ONLINE" /\ wb = FALSE
    /\ jobs = NewPoolList(NoJob, 2)
    /\ buffered = 0 /\ total = 0 /\ heap = {}
    /\ room = SndBuf /\ nospace = FALSE /\ edge = TRUE
    /\ pc = "idle" /\ njobs = 0
    /\ accepted = 0 /\ wire = <<>>
    /\ promise = -1 /\ how = "none"

-----------------------------------------------------------------------------
(* The job list.                                                           *)

HeadJob == jobs.slots[1]

\* A mutant: the flag alone decides, the job list is not looked at.
BlockedFlagOnly == wb

\* Output has to be queued: the kernel refused some, or a job is active
Blocked == wb \/ HeadJob.active

Mark(l, i, ty) ==
    [l EXCEPT !.slots[i] = [active |-> TRUE, flags |-> @.flags \cup {ty}, ptr |-> @.ptr]]

\* A mutant: data never joins a WRITEV job that is already there.
JobGetSlotNoMerge(l, ty) ==
    LET g == IF l.current = Len(l.slots) THEN GrowPool(l, NoJob, 2) ELSE l
    IN  IF ~l.slots[l.current].active
        THEN Mark(l, l.current, ty)
        ELSE Mark([g EXCEPT !.current = @ + 1], l.current + 1, ty)

\* A mutant: the current slot is taken even when another job is active in it.
JobGetSlotReuse(l, ty) == Mark(l, l.current, ty)

\* ape_socket_job_get_slot: the slot is the current one of the result
JobGetSlot(l, ty) ==
    LET c == l.slots[l.current]
        g == IF l.current = Len(l.slots) THEN GrowPool(l, NoJob, 2) ELSE l
    IN  IF (ty = "WRITEV" /\ "WRITEV" \in c.flags) \/ ~c.active
        THEN Mark(l, l.current, ty)
        ELSE Mark([g EXCEPT !.current = @ + 1], l.current + 1, ty)

CurrentPtr(l) == l.slots[l.current].ptr

\* The packet goes to the current slot; there is always a spare one behind
AddPacket(l, p) ==
    LET f == [l EXCEPT !.slots[l.current] = p]
        g == IF l.current = Len(l.slots) THEN GrowPool(f, NoPacket, PacketSlots) ELSE f
    IN  [g EXCEPT !.current = @ + 1]

\* The list of the job a packet goes to
PacketList(ptr) ==
    IF ptr.kind = "null" THEN NewPoolList(NoPacket, PacketSlots) ELSE ptr.list

\* ape_shutdown(socket, SHUT_RDWR) of an ONLINE client
ApeShutdown(why) == state' = "SHUTDOWN" /\ how' = why

\* A buffer the library frees once the packet is done with: its own copy of
\* STATIC and COPY data, or the AUTORELEASE buffer it was given
Owned(cls) == cls \in {"copy", "auto"}

\* A mutant: bytes already sent are counted again.
QueuedBytesAll(len, off) == len

\* What a packet adds to the memory accounts
QueuedBytes(len, off) == len - off

\* ape_socket_queue_data.  A job slot whose pointer is a file descriptor is
\* taken for a packet list: a wild pointer.
QueueData(len, off, cls) ==
    LET j == JobGetSlot(jobs, "WRITEV")
        n == buffered + QueuedBytes(len, off)
        p == Packet(accepted, len, off, cls)
    IN  \/ /\ CurrentPtr(j).kind # "file"
           /\ jobs' = [j EXCEPT !.slots[j.current].ptr =
                         ListPtr(AddPacket(PacketList(@), p))]
           /\ heap' = IF Owned(cls) THEN heap \cup {accepted + 1} ELSE heap
           /\ buffered' = n
           /\ total' = total + QueuedBytes(len, off)
           /\ IF BufLimit # 0 /\ n > BufLimit
              THEN ApeShutdown("forced") ELSE UNCHANGED <<state, how>>
           /\ UNCHANGED pc
        \/ /\ CurrentPtr(j).kind = "file"
           /\ pc' = "crash"
           /\ UNCHANGED <<jobVars, state, how>>

-----------------------------------------------------------------------------
(* The application's calls.                                                *)

AppRuns == pc \in {"idle", "read"} /\ state = "ONLINE"

\* APE_socket_write behind pending output: everything is queued
WriteQueued(len, cls) ==
    /\ AppRuns /\ Blocked
    /\ accepted + len <= MaxStream
    /\ QueueData(len, 0, cls)
    /\ accepted' = accepted + len
    /\ UNCHANGED <<wb, kernelVars, wire, promise, njobs>>

\* ... that the kernel takes at once
WriteAll(len) ==
    /\ AppRuns /\ ~Blocked
    /\ accepted + len <= MaxStream /\ len <= room
    /\ wire' = wire \o Bytes(accepted, accepted + len, accepted + len)
    /\ room' = room - len
    /\ accepted' = accepted + len
    /\ UNCHANGED <<wb, jobVars, nospace, edge, endVars, pc, njobs>>

\* A mutant: the bytes the kernel took are queued again.
RestOffAgain(t) == 0

\* Where the queued rest of a partial write starts
RestOff(t) == t

\* ... that the kernel takes in part, then answers EAGAIN.  r_bytes is never
\* decremented: if room appears before the second write(), that one is asked
\* to send len bytes again, from the middle of the buffer.
WriteSome(len, cls, more) ==
    LET k == room
        m == Least(len, more)
        t == k + m
    IN  /\ AppRuns /\ ~Blocked
        /\ accepted + len <= MaxStream /\ k < len
        /\ wire' = wire \o Bytes(accepted, accepted + t, accepted + len)
        /\ accepted' = accepted + len
        /\ room' = more - m
        /\ \/ /\ t < len
              /\ wb' = TRUE /\ nospace' = TRUE
              /\ QueueData(len, RestOff(t), cls)
           \/ /\ t >= len
              /\ UNCHANGED <<wb, nospace, jobVars, state, how, pc>>
        /\ UNCHANGED <<edge, promise, njobs>>

\* ... that fails, at the first write() or after one that was short: the
\* data is released and the socket shut down
WriteError(len) ==
    /\ AppRuns /\ ~Blocked
    /\ accepted + len <= MaxStream
    /\ accepted' = accepted + len
    /\ \/ UNCHANGED <<wire, room>>
       \/ /\ room < len
          /\ wire' = wire \o Bytes(accepted, accepted + room, accepted + len)
          /\ room' = 0
    /\ ApeShutdown("forced")
    /\ UNCHANGED <<wb, jobVars, nospace, edge, promise, pc, njobs>>

\* APE_socket_writev on an idle output side: what a short writev() leaves is
\* lost, and EAGAIN is an error like any other.  Behind pending output the
\* call does nothing.
SocketWritev(len) ==
    LET k == Least(len, room)
    IN  /\ AppRuns /\ ~Blocked
        /\ accepted + len <= MaxStream
        /\ accepted' = accepted + len
        /\ \/ /\ k > 0
              /\ wire' = wire \o Bytes(accepted, accepted + k, accepted + len)
              /\ room' = room - k
              /\ UNCHANGED <<state, how>>
           \/ ApeShutdown("forced") /\ UNCHANGED <<wire, room>>
        /\ nospace' = (nospace \/ k = 0)
        /\ UNCHANGED <<wb, jobVars, edge, promise, pc, njobs>>

\* APE_sendfile behind pending output.  WOULD_BLOCK is set although no write
\* was refused.
SendfileQueued(len) ==
    /\ AppRuns /\ Blocked
    /\ accepted + len <= MaxStream
    /\ wb' = TRUE
    /\ LET j == JobGetSlot(jobs, "SENDFILE")
       IN  jobs' = [j EXCEPT !.slots[j.current].ptr = FilePtr(accepted, len, 0)]
    /\ accepted' = accepted + len
    /\ UNCHANGED <<buffered, total, heap, kernelVars, wire, endVars, pc, njobs>>

\* ... on an idle output side: the kernel takes as much as it can.  After
\* EAGAIN the rest is a job; any other error is taken for the end of file.
Sendfile(len) ==
    LET k == Least(len, room)
    IN  /\ AppRuns /\ ~Blocked
        /\ accepted + len <= MaxStream
        /\ wire' = wire \o Bytes(accepted, accepted + k, accepted + len)
        /\ accepted' = accepted + len
        /\ room' = room - k
        /\ \/ /\ k < len
              /\ wb' = TRUE /\ nospace' = TRUE
              /\ LET j == JobGetSlot(jobs, "SENDFILE")
                 IN  jobs' = [j EXCEPT !.slots[j.current].ptr =
                                FilePtr(accepted, len, k)]
           \/ (k = len \/ FileErrors) /\ UNCHANGED <<wb, nospace, jobs>>
        /\ UNCHANGED <<buffered, total, heap, edge, endVars, pc, njobs>>

\* APE_socket_shutdown, with the state ONLINE
Shutdown ==
    /\ AppRuns
    /\ promise' = IF promise = -1 THEN accepted ELSE promise
    /\ \/ /\ Blocked /\ Len(jobs.slots) <= MaxJobs
          /\ jobs' = JobGetSlot(jobs, "SHUTDOWN")
          /\ UNCHANGED <<state, how>>
       \/ /\ ~Blocked
          /\ ApeShutdown("graceful")
          /\ UNCHANGED jobs
    /\ UNCHANGED <<wb, buffered, total, heap, kernelVars, streamVars, pc, njobs>>

\* APE_socket_shutdown_now
ShutdownNow ==
    /\ AppRuns
    /\ ApeShutdown("forced")
    /\ UNCHANGED <<wb, jobVars, kernelVars, streamVars, promise, pc, njobs>>

-----------------------------------------------------------------------------
(* The loop.                                                               *)

\* A mutant: the flag is left as it is.
EventFlagKept == wb

\* EVENT_WRITE clears WOULD_BLOCK before on_read, which may write
EventFlag == FALSE

\* An event with EVENT_WRITE: an edge of the write side, or any other edge
\* while there is room
WriteEvent ==
    /\ pc = "idle" /\ state = "ONLINE"
    /\ edge \/ room > 0
    /\ wb' = EventFlag
    /\ edge' = FALSE
    /\ pc' = "read"
    /\ UNCHANGED <<jobVars, room, nospace, streamVars, endVars, njobs>>

\* on_read has returned; ape_socket_do_jobs runs unless it blocked again
ReadDone ==
    /\ pc = "read"
    /\ pc' = IF state = "ONLINE" /\ ~wb THEN "jobs" ELSE "idle"
    /\ njobs' = 0
    /\ UNCHANGED <<wb, jobVars, kernelVars, streamVars, endVars>>

\* The end of one job: its ACTIVE flag goes, its type bits stay
Retire(l) == HeadToCurrent([l EXCEPT !.slots[1].active = FALSE])

RunsJob(fl) == pc = "jobs" /\ HeadJob.active /\ HeadJob.flags = fl

\* The job list is done; the drain callback is called if one job was done
JobNone ==
    /\ pc = "jobs" /\ ~HeadJob.active
    /\ pc' = "idle"
    /\ UNCHANGED <<wb, jobVars, kernelVars, streamVars, endVars, njobs>>

\* The next chunk of a WRITEV job: the packets one writev() takes at most
Chunk(l) ==
    LET u == Cardinality({i \in DOMAIN l.slots : l.slots[i].used})
    IN  [i \in 1 .. Least(u, MaxChunks) |-> l.slots[i]]

Left(p) == p.len - p.off

\* Running totals: what the first i numbers of q add up to
Totals(q) ==
    LET upto[i \in 0 .. Len(q)] == IF i = 0 THEN 0 ELSE upto[i - 1] + q[i]
    IN  upto

\* Where in the bytes of a chunk each of its packets ends
Ends(ch) == Totals([i \in DOMAIN ch |-> Left(ch[i])])

\* Byte k of a chunk
ByteOf(ch, k) ==
    LET i == CHOOSE i \in DOMAIN ch : Ends(ch)[i - 1] < k /\ k <= Ends(ch)[i]
    IN  ch[i].base + ch[i].off + (k - Ends(ch)[i - 1])

\* The packet list when the kernel took n bytes of the chunk: finished
\* packets go behind the queue, the next one remembers how far it got
TookN(l, ch, n) ==
    LET full == Cardinality({i \in DOMAIN ch : Ends(ch)[i] <= n})
        part == n - Ends(ch)[full]
        r    == HeadsToQueue(l, NoPacket, full)
    IN  IF part = 0 THEN r ELSE [r EXCEPT !.slots[1].off = @ + part]

\* A mutant: what was partly sent is sent again from its start.
TookForgetPart(l, ch, n) ==
    HeadsToQueue(l, NoPacket, Cardinality({i \in DOMAIN ch : Ends(ch)[i] <= n}))

Took(l, ch, n) == TookN(l, ch, n)

\* A WRITEV job the kernel takes nothing of: EAGAIN
WritevRefused ==
    /\ RunsJob({"WRITEV"}) /\ room = 0
    /\ wb' = TRUE /\ nospace' = TRUE
    /\ pc' = "idle"
    /\ UNCHANGED <<jobVars, room, edge, streamVars, endVars, njobs>>

\* ... takes some of, and the job ends with the last packet
Writev ==
    LET l  == HeadJob.ptr.list
        ch == Chunk(l)
        n  == Least(Ends(ch)[Len(ch)], room)
        r  == Took(l, ch, n)
        js == [jobs EXCEPT !.slots[1].ptr = ListPtr(r)]
    IN  /\ RunsJob({"WRITEV"}) /\ room > 0
        /\ wire' = wire \o [k \in 1 .. n |-> ByteOf(ch, k)]
        /\ room' = room - n
        /\ buffered' = buffered - n /\ total' = total - n
        /\ heap' = heap \ {ch[i].base + 1 : i \in {k \in DOMAIN ch : Ends(ch)[k] <= n}}
        /\ IF r.slots[1].used
           THEN jobs' = js /\ UNCHANGED njobs
           ELSE jobs' = Retire(js) /\ njobs' = njobs + 1
        /\ UNCHANGED <<wb, nospace, edge, accepted, endVars, pc>>

\* ... fails on
WritevError ==
    /\ RunsJob({"WRITEV"})
    /\ ApeShutdown("forced")
    /\ pc' = "idle"
    /\ UNCHANGED <<wb, jobVars, kernelVars, streamVars, promise, njobs>>

\* A SENDFILE job: refused, some of it taken, finished (or failed)
SendfileRefused ==
    /\ RunsJob({"SENDFILE"}) /\ HeadJob.ptr.off < HeadJob.ptr.len /\ room = 0
    /\ wb' = TRUE /\ nospace' = TRUE
    /\ pc' = "idle"
    /\ UNCHANGED <<jobVars, room, edge, streamVars, endVars, njobs>>

SendfileSome ==
    LET p == HeadJob.ptr
        k == Least(p.len - p.off, room)
    IN  /\ RunsJob({"SENDFILE"}) /\ p.off < p.len /\ room > 0
        /\ wire' = wire \o Bytes(p.base + p.off, p.base + p.off + k, p.base + p.len)
        /\ room' = room - k
        /\ jobs' = [jobs EXCEPT !.slots[1].ptr.off = @ + k]
        /\ UNCHANGED <<wb, buffered, total, heap, nospace, edge, accepted,
                       endVars, pc, njobs>>

SendfileDone ==
    /\ RunsJob({"SENDFILE"})
    /\ HeadJob.ptr.off = HeadJob.ptr.len \/ FileErrors
    /\ jobs' = Retire([jobs EXCEPT !.slots[1].ptr = NullPtr])
    /\ njobs' = njobs + 1
    /\ UNCHANGED <<wb, buffered, total, heap, kernelVars, streamVars, endVars, pc>>

\* A SHUTDOWN job
JobShutdown ==
    /\ RunsJob({"SHUTDOWN"})
    /\ ApeShutdown("graceful")
    /\ pc' = "idle"
    /\ UNCHANGED <<wb, jobVars, kernelVars, streamVars, promise, njobs>>

\* Any other combination of type bits: the job is dropped
JobDefault ==
    /\ pc = "jobs" /\ HeadJob.active
    /\ HeadJob.flags \notin {{"WRITEV"}, {"SENDFILE"}, {"SHUTDOWN"}}
    /\ jobs' = Retire(jobs)
    /\ njobs' = njobs + 1
    /\ UNCHANGED <<wb, buffered, total, heap, kernelVars, streamVars, endVars, pc>>

\* The packets of a list that are still to be sent
Pending(l) == {i \in DOMAIN l.slots : l.slots[i].used}

\* A mutant: only jobs that are not running are cleaned.
CleanedNone == {}

\* ape_socket_job_pool_cleaner: the lists of active WRITEV jobs
Cleaned ==
    {j \in DOMAIN jobs.slots :
        jobs.slots[j].active /\ jobs.slots[j].flags = {"WRITEV"}}

\* ape_socket_packet_pool_cleaner: the bytes of a list that were not sent
HeldBy(l) ==
    Totals([i \in DOMAIN l.slots |-> IF i \in Pending(l) THEN Left(l.slots[i]) ELSE 0])[Len(l.slots)]

CleanedBytes ==
    Totals([j \in DOMAIN jobs.slots |->
              IF j \in Cleaned THEN HeldBy(jobs.slots[j].ptr.list) ELSE 0])[Len(jobs.slots)]

\* ape_socket_free, from the timer ape_shutdown armed
Free ==
    /\ pc = "idle" /\ state = "SHUTDOWN"
    /\ state' = "FREED"
    /\ heap' = heap \ UNION {{jobs.slots[j].ptr.list.slots[i].base + 1 :
                               i \in Pending(jobs.slots[j].ptr.list)} : j \in Cleaned}
    /\ total' = total - CleanedBytes
    /\ jobs' = NewPoolList(NoJob, 2)
    /\ UNCHANGED <<wb, buffered, kernelVars, streamVars, promise, how, pc, njobs>>

\* The peer reads: room appears, and an edge if a write had been refused
Ack ==
    /\ room < SndBuf
    /\ room' \in room + 1 .. SndBuf
    /\ edge' = (edge \/ nospace)
    /\ nospace' = FALSE
    /\ UNCHANGED <<jobVars, streamVars, endVars, wb, pc, njobs>>

-----------------------------------------------------------------------------
App ==
    \/ \E len \in Lens : WriteAll(len) \/ WriteError(len)
    \/ \E len \in Lens, cls \in Classes :
         \/ WriteQueued(len, cls)
         \/ \E more \in IF AckDuringWrite THEN 0 .. SndBuf ELSE {0} :
              WriteSome(len, cls, more)
    \/ \E len \in FileLens : SendfileQueued(len) \/ Sendfile(len)
    \/ \E len \in VecLens : SocketWritev(len)
    \/ Shutdown \/ ShutdownNow

Jobs ==
    \/ JobNone \/ WritevRefused \/ Writev \/ WritevError
    \/ SendfileRefused \/ SendfileSome \/ SendfileDone
    \/ JobShutdown \/ JobDefault

Next == App \/ WriteEvent \/ ReadDone \/ Jobs \/ Free \/ Ack

\* The loop turns, and delivers the edges the kernel raised; the peer keeps
\* reading.  The application owes nothing, and neither do further events.
Spec ==
    /\ Init /\ [][Next]_vars
    /\ WF_vars(WriteEvent /\ edge) /\ WF_vars(ReadDone) /\ WF_vars(Jobs)
    /\ WF_vars(Ack)

-----------------------------------------------------------------------------
(* Properties.                                                             *)

PacketType ==
    [used : BOOLEAN, base : 0 .. MaxStream, len : 0 .. MaxStream,
     off : 0 .. MaxStream, cls : {"copy", "auto", "own"}]

JobTypeOK(j) ==
    /\ j.active \in BOOLEAN
    /\ j.flags \subseteq {"WRITEV", "SENDFILE", "SHUTDOWN"}
    /\ \/ j.ptr = NullPtr
       \/ j.ptr.kind = "list" /\ Range(j.ptr.list.slots) \subseteq PacketType
                             /\ j.ptr.list.current \in DOMAIN j.ptr.list.slots
       \/ j.ptr.kind = "file" /\ j.ptr.off <= j.ptr.len

\* The type invariant: the cursors of the lists stay inside them, the
\* unsigned memory counters never pass below zero, and no more bytes go out
\* than came in.
TypeOK ==
    /\ state \in {"ONLINE", "SHUTDOWN", "FREED"}
    /\ wb \in BOOLEAN /\ nospace \in BOOLEAN /\ edge \in BOOLEAN
    /\ jobs.current \in DOMAIN jobs.slots
    /\ \A i \in DOMAIN jobs.slots : JobTypeOK(jobs.slots[i])
    /\ buffered \in 0 .. MaxStream /\ total \in 0 .. MaxStream
    /\ heap \subseteq 1 .. MaxStream
    /\ room \in 0 .. SndBuf
    /\ pc \in {"idle", "read", "jobs", "crash"} /\ njobs \in Nat
    /\ accepted \in 0 .. MaxStream
    /\ Len(wire) <= accepted
    /\ promise \in -1 .. MaxStream
    /\ how \in {"none", "graceful", "forced"}

\* What the peer gets is a prefix of what the application wrote: partial
\* writes, packets split over several writev() calls and writes from on_read
\* while output is pending lose, repeat and reorder nothing
\* (APE_socket_write, ape_socket_queue_data, ape_socket_do_jobs).
StreamIntact == \A i \in DOMAIN wire : wire[i] = i

\* Whatever is queued and however type bits are mixed, no byte is sent twice
\* and none overtakes another: a call bypasses
\* the job list only while nothing in it will be sent any more.
InOrder == \A i \in 1 .. Len(wire) - 1 : wire[i] < wire[i + 1]

\* current_buffer_memory_bytes, which decides over a forced shutdown at the
\* limit, is what was written and not yet sent, and freeing the socket
\* gives total_memory_buffered back all of it.
AccountsExact ==
    /\ state = "ONLINE" => buffered = accepted - Len(wire)
    /\ total = IF state = "FREED" THEN 0 ELSE buffered

\* The first bytes of the buffers the library owns in pending packets
OwnedPending ==
    UNION {{jobs.slots[j].ptr.list.slots[i].base + 1 :
              i \in {k \in Pending(jobs.slots[j].ptr.list) :
                       Owned(jobs.slots[j].ptr.list.slots[k].cls)}} :
           j \in {k \in DOMAIN jobs.slots : jobs.slots[k].ptr.kind = "list"}}

\* Every buffer the library has to free is held by exactly the packet that
\* still needs it, and none is left when the socket is gone
\* (ape_socket_release_data in ape_socket_do_jobs and the pool cleaners).
HeapExact == heap = OwnedPending

\* A queued shutdown closes the socket only after everything written before
\* it reached the kernel (APE_socket_shutdown, the SHUTDOWN job).
GracefulShutdown == how = "graceful" => Len(wire) >= promise

\* A shutdown asked for while output is pending stays queued until the
\* socket is closed (APE_socket_shutdown).
ShutdownKept ==
    promise # -1 /\ state = "ONLINE" =>
        \E j \in DOMAIN jobs.slots :
            jobs.slots[j].active /\ jobs.slots[j].flags = {"SHUTDOWN"}

\* A pending job is never behind a finished one: the head of the list is
\* what ape_socket_do_jobs starts from, and the only job APE_socket_write,
\* APE_sendfile and APE_socket_shutdown look at before they bypass the list
\* (ape_pool_head_to_current moves the cursor with every finished job).
HeadFirst == (\E j \in DOMAIN jobs.slots : jobs.slots[j].active) => HeadJob.active

\* No lost wake-up: while a job is pending and the loop is not working on
\* it, a write edge is waiting or the kernel will raise one.
NoLostWakeup ==
    pc = "idle" /\ state = "ONLINE" /\ HeadJob.active => edge \/ nospace

\* When ape_socket_do_jobs has done jobs and leaves the list empty it
\* returns 1, which is what the loop calls on_drain for.
DrainReported == pc = "jobs" /\ ~HeadJob.active /\ njobs > 0 => njobs = 1

\* The output side is a byte stream: see ByteStream.
Stream == INSTANCE ByteStream WITH
              accepted <- accepted, sent <- wire, promise <- promise, end <- how
StreamSpec == Stream!Spec

=============================================================================
