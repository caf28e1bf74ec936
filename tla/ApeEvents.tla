------------------------------ MODULE ApeEvents ------------------------------
(***************************************************************************)
(* The layer of ape_events.c over its three back ends, and the descriptors *)
(* it watches: who holds which number, what the back end knows of it, and  *)
(* what the entries of the batch being dispatched point at.                *)
(*                                                                         *)
(* An event descriptor is that of a socket (1 .. Socks) or of a slot of    *)
(* the resolver's table (Socks + 1 .. Socks + Slots).  Descriptor numbers  *)
(* are handed out lowest first and used again, sockets are allocated and   *)
(* freed.  Which of the directions that are watched is ready is left open: *)
(* a handler may do what either brings.  ApeSocket and ApeSocketJobs have  *)
(* the life of one socket in full.                                         *)
(***************************************************************************)
EXTENDS ApeHash, SequencesExt

CONSTANTS
    Handlers,      \* back ends: "epoll", "kqueue", "select"
    Socks,         \* number of sockets
    Slots,         \* size of the resolver's table, 32 in the code
    MaxFd,         \* bound: descriptor numbers
    DefaultSize,   \* APE_DEFAULT_EVENTS_SIZE, 32 in the code
    FdSetSize,     \* FD_SETSIZE
    MaxReady,      \* bound: entries of one poll
    MaxDrift       \* bound: what nfd falls behind

Fds == 1 .. MaxFd

\* event_select_add lets FD_SETSIZE itself pass and fd_set has no bit for it:
\* with select the process must not open that many descriptors.
ASSUME EventsAssumption ==
    /\ Handlers \subseteq {"epoll", "kqueue", "select"}
    /\ {Socks, Slots, DefaultSize, FdSetSize, MaxReady, MaxDrift} \subseteq Nat \ {0}
    /\ MaxFd \in Nat /\ MaxFd < FdSetSize /\ MaxFd <= MaxItems

VARIABLES
    handler,   \* ev->handler
    fd,        \* evd->fd of every descriptor, 0 for none
    st,        \* states.state and states.type of a socket; "used" for a slot
    opened,    \* who opened a descriptor number: 0 if it is free
    kern,      \* what epoll and kqueue hold for a number
    htbl,      \* ev->fdhash of select: number to address of a fdinfo
    info,      \* the select_fdinfo_t at each address
    nfd,       \* ev->nfd
    basemem,   \* ev->basemem
    room,      \* entries allocated for ev->events
    batch,     \* the entries of ev->events from the current one on
    pc,        \* "poll", "batch", "handler" or "timers"
    cur        \* the event descriptor being handled, 0 for none

watchVars == <<kern, htbl, info, nfd, basemem, room>>
loopVars  == <<batch, pc, cur>>
vars      == <<handler, fd, st, opened, watchVars, loopVars>>

Sockets    == 1 .. Socks
SlotEvds   == Socks + 1 .. Socks + Slots
Evds       == Sockets \cup SlotEvds
Ares       == -1               \* opened[f] of a descriptor of c-ares
Both       == {"read", "write"}
Unwatched  == [evd |-> 0, want |-> {}]
NoInfo     == [fd |-> 0, evd |-> 0, want |-> {}]
SockStates == {"none", "pending", "failed", "progress", "online", "server", "shutdown", "offline"}
Live       == {"progress", "online", "server", "shutdown"}
Watchable  == Live \cup {"used"}

\* event_epoll_init, event_kqueue_init and event_select_init: basemem and the
\* entries allocated for ev->events
EpollInit  == basemem = DefaultSize /\ room = DefaultSize
KqueueInit == basemem = DefaultSize /\ room = 2 * DefaultSize
SelectInit == basemem = FdSetSize /\ room = FdSetSize

\* events_init
Init ==
    /\ handler \in Handlers
    /\ \/ handler = "epoll" /\ EpollInit
       \/ handler = "kqueue" /\ KqueueInit
       \/ handler = "select" /\ SelectInit
    /\ fd = [e \in Evds |-> 0]
    /\ st = [e \in Evds |-> "none"]
    /\ opened = [f \in Fds |-> 0]
    /\ kern = [f \in Fds |-> Unwatched]
    /\ htbl = HashInit /\ info = [p \in Addrs |-> NoInfo]
    /\ nfd = 0
    /\ batch = <<>> /\ pc = "timers" /\ cur = 0

-----------------------------------------------------------------------------
(* ape_events.c and what it calls in the back ends.                        *)

\* event_epoll_setsize, event_kqueue_setsize and event_select_setsize, which
\* puts basemem back
EpollSetSize(size)  == basemem' = size /\ room' = size
KqueueSetSize(size) == basemem' = size /\ room' = 2 * size
SelectSetSize       == basemem' = FdSetSize /\ UNCHANGED room

\* events_setsize
SetSize(size) ==
    \/ handler = "epoll" /\ EpollSetSize(size)
    \/ handler = "kqueue" /\ KqueueSetSize(size)
    \/ handler = "select" /\ SelectSetSize

\* _nextpoweroftwo: there is one power of two from n up to below 2n, none if n
\* is 0 or less, for which the code wraps to 0
NextPowerOfTwo(n) == {p \in n .. 2 * n - 1 : \E k \in 0 .. n : p = 2^k}

\* events_shrink
Shrink ==
    IF basemem # DefaultSize /\ nfd < basemem \div 2
    THEN SetSize(Max({DefaultSize} \cup NextPowerOfTwo(nfd)))
    ELSE UNCHANGED <<basemem, room>>

\* The cleaner frees the fdinfo a table entry points at
Freed(infos, cleaned) == [p \in Addrs |-> IF p \in cleaned THEN NoInfo ELSE infos[p]]

\* event_epoll_add, and event_epoll_mod, which has the same arguments
EpollAdd(e, f, want) ==
    /\ kern' = [kern EXCEPT ![f] = [evd |-> e, want |-> want]]
    /\ UNCHANGED <<htbl, info>>

EpollMod(e, want) == EpollAdd(e, fd[e], want)

\* event_kqueue_add adds the filters that are wanted and deletes the others
KqueueAdd(e, f, want) ==
    /\ kern' = [kern EXCEPT ![f] = [evd |-> e, want |-> (kern[f].want \cup want) \cap want]]
    /\ UNCHANGED <<htbl, info>>

\* event_kqueue_mod
KqueueMod(e, want) == KqueueAdd(e, fd[e], want)

\* event_select_add
SelectAdd(e, f, want) ==
    LET p == NewAddr(f, {q \in Addrs : info[q] # NoInfo})
        h == Append64(htbl, f, p)
    IN  /\ htbl' = h.h
        /\ info' = Freed([info EXCEPT ![p] = [fd |-> f, evd |-> e, want |-> want]], h.cleaned)
        /\ UNCHANGED kern

\* event_select_mod
SelectMod(e, want) ==
    LET p == Seek(htbl, fd[e])
    IN  /\ info' = IF p = 0 THEN info ELSE [info EXCEPT ![p].want = want]
        /\ UNCHANGED <<kern, htbl>>

\* event_select_del
SelectDel(f) ==
    LET h == Erase64(htbl, f)
    IN  htbl' = h.h /\ info' = Freed(info, h.cleaned)

\* events_add.  No caller looks at what it returns.
EventsAdd(e, f, want) ==
    /\ nfd' = nfd + 1
    /\ IF nfd' > basemem THEN SetSize(2 * basemem) ELSE UNCHANGED <<basemem, room>>
    /\ \/ handler = "epoll" /\ EpollAdd(e, f, want)
       \/ handler = "kqueue" /\ KqueueAdd(e, f, want)
       \/ handler = "select" /\ SelectAdd(e, f, want)

\* events_mod
EventsMod(e, want) ==
    /\ \/ handler = "epoll" /\ EpollMod(e, want)
       \/ handler = "kqueue" /\ KqueueMod(e, want)
       \/ handler = "select" /\ SelectMod(e, want)
    /\ UNCHANGED <<nfd, basemem, room>>

\* Mutant: select keeps watching
EventsDelKeeps(f) ==
    /\ nfd' = nfd - 1
    /\ UNCHANGED <<htbl, info, basemem, room>>

\* events_del.  Only select has an operation of its own.
EventsDel(f) ==
    /\ nfd' = nfd - 1
    /\ IF handler = "select" THEN SelectDel(f) ELSE UNCHANGED <<htbl, info>>
    /\ UNCHANGED <<basemem, room>>

\* close(): the number is free, epoll and kqueue forget it
CloseFd(f) ==
    /\ opened' = [opened EXCEPT ![f] = 0]
    /\ kern' = [kern EXCEPT ![f] = Unwatched]

-----------------------------------------------------------------------------
(* Sockets, as ape_socket.c uses this layer.  The application acts in the  *)
(* handlers of events and of timers.                                       *)

AppRuns == pc \in {"handler", "timers"}
FreeFds == {f \in Fds : opened[f] = 0}

\* What the application owes.  A server is shut down from a timer or before
\* the loop, not while events are dispatched: the loop would call accept()
\* on a number that may be another's by then.  With select, closing a
\* descriptor frees the fdinfo its entry in the batch points at.
MayClose(e) ==
    /\ st[e] = "server" => pc = "timers"
    /\ handler = "select" => \A i \in DOMAIN batch : info[batch[i]].evd # e

\* APE_socket_new
SocketNew(s) ==
    /\ AppRuns /\ st[s] = "none" /\ FreeFds # {}
    /\ st' = [st EXCEPT ![s] = "pending"]
    /\ fd' = [fd EXCEPT ![s] = Min(FreeFds)]
    /\ opened' = [opened EXCEPT ![Min(FreeFds)] = s]
    /\ UNCHANGED <<handler, watchVars, loopVars>>

\* APE_socket_listen and APE_socket_connect, when they succeed
Watch(s, state) ==
    /\ AppRuns /\ st[s] = "pending"
    /\ st' = [st EXCEPT ![s] = state]
    /\ EventsAdd(s, fd[s], Both)
    /\ UNCHANGED <<handler, fd, opened, loopVars>>

\* APE_socket_listen fails and closes the descriptor.  The application must
\* let go of the socket, which is never freed: the shutdown of it would close
\* the number a second time.
ListenFails(s) ==
    /\ AppRuns /\ st[s] = "pending"
    /\ st' = [st EXCEPT ![s] = "failed"]
    /\ CloseFd(fd[s])
    /\ UNCHANGED <<handler, fd, htbl, info, nfd, basemem, room, loopVars>>

\* ape_socket_close; the structure is freed by a timer, or by the caller
SocketClose(s, after) ==
    /\ CloseFd(fd[s])
    /\ EventsDel(fd[s])
    /\ st' = [st EXCEPT ![s] = after]
    /\ fd' = IF after = "none" THEN [fd EXCEPT ![s] = 0] ELSE fd
    /\ UNCHANGED handler

\* Mutant: the structure is freed at once
DestroyAtOnce(s) == MayClose(s) /\ SocketClose(s, "none")

\* ape_socket_destroy
Destroy(s) == MayClose(s) /\ SocketClose(s, "offline")

\* APE_socket_shutdown_now, a failed APE_socket_connect.  A PENDING socket was
\* never added, and is counted off all the same.
Shutdown(s) ==
    /\ AppRuns
    /\ st[s] = "pending" => Cardinality({e \in Evds : st[e] \in Watchable}) - nfd < MaxDrift
    /\ \/ st[s] \in {"pending", "progress", "server"} /\ Destroy(s)
       \/ /\ st[s] = "online"
          /\ st' = [st EXCEPT ![s] = "shutdown"]
          /\ UNCHANGED <<handler, fd, opened, watchVars>>
    /\ UNCHANGED loopVars

\* The timers _ape_socket_destroy and ape_socket_free
Expire(s) ==
    /\ pc = "timers"
    /\ \/ st[s] = "shutdown" /\ SocketClose(s, "none")
       \/ /\ st[s] = "offline"
          /\ st' = [st EXCEPT ![s] = "none"] /\ fd' = [fd EXCEPT ![s] = 0]
          /\ UNCHANGED <<handler, opened, watchVars>>
    /\ UNCHANGED loopVars

-----------------------------------------------------------------------------
(* The resolver's table of descriptors, ares_socket_cb.                    *)

\* What c-ares asks for a descriptor it has: it always reads
Wishes == {{"read"}, Both}

\* The precedence of ?: and | drops the wish to write if reading is wanted
ListenFor(wish) == IF "read" \in wish THEN {"read"} ELSE wish

\* The slot found for a new descriptor: the last the loop takes note of, the
\* first one if there is none
FreeSlot ==
    LET free == {e \in SlotEvds : fd[e] = 0 /\ e # Socks + 1}
    IN  IF free = {} THEN Socks + 1 ELSE Min(free)

\* c-ares opens a descriptor and announces it.  The table is large enough for
\* those it has at a time.
AresOpen(wish) ==
    /\ AppRuns /\ FreeFds # {}
    /\ \E e \in SlotEvds : fd[e] = 0
    /\ LET f == Min(FreeFds)
       IN  /\ opened' = [opened EXCEPT ![f] = Ares]
           /\ fd' = [fd EXCEPT ![FreeSlot] = f]
           /\ st' = [st EXCEPT ![FreeSlot] = "used"]
           /\ EventsAdd(FreeSlot, f, ListenFor(wish))
    /\ UNCHANGED <<handler, loopVars>>

AresMod(e, wish) ==
    /\ AppRuns /\ fd[e] # 0
    /\ EventsMod(e, ListenFor(wish))
    /\ UNCHANGED <<handler, fd, st, opened, loopVars>>

\* c-ares lets go of a descriptor: ares_process_fd ends a query, or a call of
\* the application starts a lookup and meets a connection that failed
AresClose(e) ==
    /\ AppRuns /\ fd[e] # 0 /\ MayClose(e)
    /\ fd' = [fd EXCEPT ![e] = 0]
    /\ st' = [st EXCEPT ![e] = "none"]
    /\ EventsDel(fd[e]) /\ CloseFd(fd[e])
    /\ UNCHANGED <<handler, loopVars>>

-----------------------------------------------------------------------------
(* APE_loop_run.                                                           *)

Watched == IF handler = "select" THEN {f \in Fds : Seek(htbl, f) # 0}
           ELSE {f \in Fds : kern[f] # Unwatched}

\* event_select_poll lists the fdinfos that are ready by number
SelectPoll ==
    \E ready \in SUBSET Watched :
        /\ Cardinality(ready) <= MaxReady
        /\ \E q \in SetToSeqs(ready) :
             /\ \A i, j \in DOMAIN q : i < j => q[i] < q[j]
             /\ batch' = [i \in DOMAIN q |-> Seek(htbl, q[i])]

\* event_epoll_poll has an entry for a number, in any order, as many as the
\* call may return
EpollPoll ==
    \E ready \in SUBSET Watched :
        /\ Cardinality(ready) <= Min({MaxReady, basemem'})
        /\ \E q \in SetToSeqs(ready) : batch' = [i \in DOMAIN q |-> kern[q[i]].evd]

\* event_kqueue_poll one for each filter of a number
KqueuePoll ==
    \E ready \in SUBSET {x \in Watched \X Both : x[2] \in kern[x[1]].want} :
        /\ Cardinality(ready) <= Min({MaxReady, 2 * basemem'})
        /\ \E q \in SetToSeqs(ready) : batch' = [i \in DOMAIN q |-> kern[q[i][1]].evd]

\* events_poll
Poll ==
    /\ pc = "timers"
    /\ Shrink
    /\ \/ handler = "epoll" /\ EpollPoll
       \/ handler = "kqueue" /\ KqueuePoll
       \/ handler = "select" /\ SelectPoll
    /\ pc' = "batch"
    /\ UNCHANGED <<handler, fd, st, opened, kern, htbl, info, nfd, cur>>

\* event_epoll_get_evd and event_kqueue_get_evd, event_select_get_evd
EvdOf(entry) == IF handler = "select" THEN info[entry].evd ELSE entry

\* event_kqueue_get_evd leaves out a socket that is OFFLINE
KqueueSkips(e) == handler = "kqueue" /\ st[e] = "offline"

\* It looks for the state of a slot behind its end, where it may find anything
KqueueMaySkip(e) == KqueueSkips(e) \/ (handler = "kqueue" /\ e \in SlotEvds)

\* events_get_current_evd of the next entry
Dispatch ==
    /\ pc = "batch" /\ batch # <<>>
    /\ ~KqueueSkips(EvdOf(Head(batch)))
    /\ cur' = EvdOf(Head(batch)) /\ pc' = "handler"
    /\ batch' = Tail(batch)
    /\ UNCHANGED <<handler, fd, st, opened, watchVars>>

SkipEntry ==
    /\ pc = "batch" /\ batch # <<>> /\ KqueueMaySkip(EvdOf(Head(batch)))
    /\ batch' = Tail(batch)
    /\ UNCHANGED <<handler, fd, st, opened, watchVars, pc, cur>>

\* ape_socket_accept: a connection of the backlog
Accept(s) ==
    /\ pc = "handler" /\ cur \in Sockets /\ st[cur] = "server"
    /\ st[s] = "none" /\ FreeFds # {}
    /\ st' = [st EXCEPT ![s] = "online"]
    /\ fd' = [fd EXCEPT ![s] = Min(FreeFds)]
    /\ opened' = [opened EXCEPT ![Min(FreeFds)] = s]
    /\ EventsAdd(s, Min(FreeFds), Both)
    /\ UNCHANGED <<handler, loopVars>>

\* ape_socket_read meets the end of the stream or an error
ReadEnd ==
    /\ pc = "handler" /\ cur \in Sockets /\ st[cur] = "online"
    /\ Destroy(cur)
    /\ UNCHANGED loopVars

\* A connection in PROGRESS is there, or has failed
Connected ==
    /\ pc = "handler" /\ cur \in Sockets /\ st[cur] = "progress"
    /\ \/ /\ st' = [st EXCEPT ![cur] = "online"]
          /\ UNCHANGED <<handler, fd, opened, watchVars>>
       \/ Destroy(cur)
    /\ UNCHANGED loopVars

HandlerEnd ==
    /\ pc = "handler"
    /\ pc' = "batch" /\ cur' = 0
    /\ UNCHANGED <<handler, fd, st, opened, watchVars, batch>>

BatchEnd ==
    /\ pc = "batch" /\ batch = <<>>
    /\ pc' = "timers"
    /\ UNCHANGED <<handler, fd, st, opened, watchVars, batch, cur>>

-----------------------------------------------------------------------------
Next ==
    \/ \E s \in Sockets :
         \/ SocketNew(s) \/ Watch(s, "server") \/ Watch(s, "progress") \/ ListenFails(s)
         \/ Shutdown(s) \/ Expire(s) \/ Accept(s)
    \/ \E wish \in Wishes :
         \/ AresOpen(wish)
         \/ \E e \in SlotEvds : AresMod(e, wish)
    \/ \E e \in SlotEvds : AresClose(e)
    \/ Poll \/ Dispatch \/ SkipEntry \/ ReadEnd \/ Connected \/ HandlerEnd \/ BatchEnd

Spec == Init /\ [][Next]_vars

-----------------------------------------------------------------------------
(* Properties.                                                             *)

\* Chains, list and back pointers of the table of select agree after every
\* sequence of insertions and removals, and each entry holds the fdinfo of
\* its own number: none that was freed, none that belongs to another.
HashSound ==
    /\ WellLinked(htbl)
    /\ \A a \in Allocated(htbl) :
         info[htbl.item[a].content].fd = htbl.item[a].key
    /\ \A p \in Addrs : info[p] # NoInfo => Seek(htbl, info[p].fd) = p

\* Whatever order sockets and lookups come and go in, and however numbers are
\* used again, the back end watches the descriptors of live sockets and of
\* the resolver and no others, each is open, held by whom the back end names,
\* and by one only.  (select() given a closed descriptor ends the program.)
WatchExact ==
    /\ Watched = {fd[e] : e \in {d \in Evds : st[d] \in Watchable}}
    /\ \A f \in Watched :
         LET e == IF handler = "select" THEN info[Seek(htbl, f)].evd ELSE kern[f].evd
         IN  fd[e] = f /\ opened[f] = IF e \in Sockets THEN e ELSE Ares
    /\ \A s \in Sockets : st[s] = "pending" => opened[fd[s]] = s

\* While a batch is dispatched its handlers close sockets and lookups, open
\* others, and the array of events is reallocated: every entry still to come
\* points at allocated memory and lies within the array, and where the loop
\* will read, accept or connect, it does so on a descriptor that is still
\* that socket's.
BatchValid ==
    /\ Len(batch) <= room
    /\ \A i \in DOMAIN batch :
         /\ handler = "select" => info[batch[i]] # NoInfo
         /\ EvdOf(batch[i]) \in Sockets =>
              LET s == EvdOf(batch[i])
              IN  /\ st[s] \in Live \cup {"offline"}
                  /\ st[s] # "offline" => opened[fd[s]] = s

=============================================================================
