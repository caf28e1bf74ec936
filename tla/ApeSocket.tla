------------------------------ MODULE ApeSocket ------------------------------
(***************************************************************************)
(* The life of a socket in libapenetwork: ape_socket.c driven by the event *)
(* loop (ape_events_loop.c), the timer list (ape_timers_next.c) and the    *)
(* asynchronous resolver (ape_dns.c).                                      *)
(*                                                                         *)
(* Everything runs in one thread.  What makes the code delicate is that    *)
(* one turn of the loop handles a whole batch of events, that every event  *)
(* may call back into the application, that the application may close any  *)
(* socket from any callback, and that structures are given back to malloc  *)
(* by zero-delay timers: between the moment a socket is given up and the   *)
(* moment its memory goes, events, timers and a pending name lookup may    *)
(* still hold a pointer to it.                                             *)
(*                                                                         *)
(* Abstracted: payloads and the job list.  `busy' says the socket has      *)
(* queued output (WOULD_BLOCK or an active head job), `shutq' that a       *)
(* SHUTDOWN job waits behind it; ApeSocketJobs models what happens to the  *)
(* bytes.  A callback's application code is modelled by letting the        *)
(* application's calls interleave with the loop's steps.                   *)
(***************************************************************************)
EXTENDS Integers, FiniteSets

CONSTANTS
    Sock,                   \* ape_socket structures the program ever allocates
    NoSock,                 \* NULL
    Udp,                    \* the ones of protocol APE_SOCKET_PT_UDP
    AppWaitsForConnected,   \* BOOLEAN: the application leaves a UDP socket
                            \* alone between connect and on_connected
    MaxTimerId              \* bound on the ids handed to delayed shutdowns

ASSUME SockAssumption ==
    /\ NoSock \notin Sock
    /\ Udp \subseteq Sock
    /\ AppWaitsForConnected \in BOOLEAN
    /\ MaxTimerId \in Nat

VARIABLES
    state,       \* socket->states.state, plus "UNALLOC" and "FREED"
    type,        \* socket->states.type
    busy,        \* WOULD_BLOCK is set or the head job is ACTIVE
    shutq,       \* a SHUTDOWN job is in the job list
    dnsPtr,      \* socket->dns_state # NULL
    req,         \* the resolver's record for this socket's lookup
    delayTimer,  \* socket->delay_timer: 0 for NULL, or the timer's id
    timers,      \* the timer list; its order is descending id
    lastId,      \* timers->last_identifier
    reg,         \* sockets the kernel's epoll set watches
    nfd,         \* ev->nfd
    fdOpen,      \* sockets whose descriptor is open
    discs,       \* how many times on_disconnect was due for the socket
    pc,          \* where the loop is
    batch,       \* events returned by the last poll and not handled yet
    cur,         \* cursocket while one of its handlers runs
    limit        \* timers of smaller id are still to be visited in this pass

sockVars  == <<state, type, busy, shutq, delayTimer>>
dnsVars   == <<dnsPtr, req>>
timerVars == <<timers, lastId>>
fdVars    == <<reg, nfd, fdOpen, discs>>
loopVars  == <<pc, batch, cur, limit>>
vars      == <<sockVars, dnsVars, timerVars, fdVars, loopVars>>

States    == {"UNALLOC", "PENDING", "PROGRESS", "ONLINE", "SHUTDOWN",
              "OFFLINE", "FREED"}
Types     == {"UNKNOWN", "SERVER", "CLIENT"}
Callbacks == {"free", "destroy", "delay", "connected", "params"}
ReqStates == {"none", "pending", "invalid", "done", "freed"}
Outcomes  == {"ok", "fail", "bindfail"}
PCs       == {"poll", "dispatch", "accept", "onread", "write", "timers"}

Init ==
    /\ state = [s \in Sock |-> "UNALLOC"]
    /\ type = [s \in Sock |-> "UNKNOWN"]
    /\ busy = [s \in Sock |-> FALSE]
    /\ shutq = [s \in Sock |-> FALSE]
    /\ dnsPtr = [s \in Sock |-> FALSE]
    /\ req = [s \in Sock |-> "none"]
    /\ delayTimer = [s \in Sock |-> 0]
    /\ timers = {} /\ lastId = 0
    /\ reg = {} /\ nfd = 0 /\ fdOpen = {}
    /\ discs = [s \in Sock |-> 0]
    /\ pc = "poll" /\ batch = {} /\ cur = NoSock /\ limit = 0

-----------------------------------------------------------------------------
(* Helpers shared by the entry points.  T is the timer list the caller     *)
(* leaves behind: timers, or timers without the timer whose callback runs. *)

Live(s)   == state[s] \notin {"UNALLOC", "FREED"}

\* The application forgets a socket once on_disconnect was called for it.
Usable(s) == Live(s) /\ state[s] # "OFFLINE"

Timer(i, c, s) == [id |-> i, cb |-> c, sock |-> s]

\* A mutant: last_identifier is not incremented.
CreateTimerSameId(T, c, s) ==
    /\ timers' = T \cup {Timer(lastId + 1, c, s)}
    /\ UNCHANGED lastId

\* APE_timer_create: the new timer goes to the head of the list.
CreateTimer(T, c, s) ==
    /\ timers' = T \cup {Timer(lastId + 1, c, s)}
    /\ lastId' = lastId + 1

EventsAdd(s) == reg' = reg \cup {s} /\ nfd' = nfd + 1

\* A mutant: the descriptor is not counted out.
EventsDelNoCount == UNCHANGED nfd

\* events_del only counts, whether the descriptor was registered or not.
EventsDel == nfd' = nfd - 1

\* A mutant: the descriptor is leaked.
ScloseLeak(s) == UNCHANGED <<fdOpen, reg>>

\* sclose: the kernel drops a closed descriptor from the epoll set.
Sclose(s) == fdOpen' = fdOpen \ {s} /\ reg' = reg \ {s}

\* ape_socket_close of a socket that is not OFFLINE, up to the state it
\* leaves: OFFLINE, or FREED when the caller frees the structure at once.
Close(s, final) ==
    /\ state' = [state EXCEPT ![s] = final]
    /\ discs' = [discs EXCEPT ![s] = @ + 1]
    /\ Sclose(s)
    /\ EventsDel

\* A mutant: the lookup of a closed socket is left valid.
DnsInvalidateNever(s) == UNCHANGED dnsVars

\* ape_dns_invalidate(socket->dns_state)
DnsInvalidate(s) ==
    /\ req' = IF dnsPtr[s] THEN [req EXCEPT ![s] = "invalid"] ELSE req
    /\ UNCHANGED dnsPtr

\* A mutant: the structure is freed at once, as in _ape_socket_destroy.
DestroyNow(s, T) ==
    /\ state[s] # "OFFLINE"
    /\ Close(s, "FREED")
    /\ DnsInvalidate(s)
    /\ timers' = T /\ UNCHANGED <<type, busy, shutq, lastId>>

\* ape_socket_destroy: close now, free from a timer
Destroy(s, T) ==
    /\ state[s] # "OFFLINE"
    /\ Close(s, "OFFLINE")
    /\ DnsInvalidate(s)
    /\ CreateTimer(T, "free", s)
    /\ UNCHANGED <<type, busy, shutq>>

\* A mutant: nobody is asked to release the socket.
ApeShutdownForget(s, T) ==
    /\ state' = [state EXCEPT ![s] = "SHUTDOWN"]
    /\ timers' = T
    /\ UNCHANGED <<type, busy, shutq, dnsVars, lastId, fdVars>>

\* ape_shutdown of an ONLINE socket
ApeShutdown(s, T) ==
    \/ type[s] = "SERVER" /\ Destroy(s, T)
    \/ /\ type[s] # "SERVER"
       /\ state' = [state EXCEPT ![s] = "SHUTDOWN"]
       /\ CreateTimer(T, "destroy", s)
       /\ UNCHANGED <<type, busy, shutq, dnsVars, fdVars>>

\* APE_socket_shutdown_now: nothing is pushed to the job list
SocketShutdownNow(s, T) ==
    \/ state[s] \in {"PROGRESS", "PENDING"} /\ Destroy(s, T)
    \/ state[s] = "ONLINE" /\ ApeShutdown(s, T)
    \/ /\ state[s] \in {"SHUTDOWN", "OFFLINE"}
       /\ timers' = T
       /\ UNCHANGED <<state, type, busy, shutq, dnsVars, lastId, fdVars>>

\* APE_socket_shutdown: with output pending the shutdown is queued
SocketShutdown(s, T) ==
    \/ /\ state[s] = "ONLINE" /\ busy[s]
       /\ shutq' = [shutq EXCEPT ![s] = TRUE]
       /\ timers' = T
       /\ UNCHANGED <<state, type, busy, dnsVars, lastId, fdVars>>
    \/ ~(state[s] = "ONLINE" /\ busy[s]) /\ SocketShutdownNow(s, T)

\* A mutant: socket->dns_state keeps pointing to the answered lookup.
DnsClearNot(s) == UNCHANGED dnsPtr

\* socket->dns_state = NULL
DnsClear(s) == dnsPtr' = [dnsPtr EXCEPT ![s] = FALSE]

\* A mutant: UDP is treated like TCP.
ConnectStateTcp(s) == "PROGRESS"

\* UDP is "always connected"
ConnectState(s) == IF s \in Udp THEN "ONLINE" ELSE "PROGRESS"

\* ape_socket_connect_ready_to_connect.  `params' says it was called from
\* the resolver's callback, which then arms the release of its own record.
\* "bindfail" returns -1 and leaves the socket PENDING.
ReadyToConnect(s, o, params) ==
    LET first == IF o = "fail" THEN {Timer(lastId + 1, "free", s)}
                 ELSE IF o = "ok" /\ s \in Udp
                      THEN {Timer(lastId + 1, "connected", s)} ELSE {}
        id == IF first = {} THEN lastId ELSE lastId + 1
    IN  /\ DnsClear(s)
        /\ IF params
           THEN /\ req' = [req EXCEPT ![s] = "done"]
                /\ timers' = timers \cup first \cup {Timer(id + 1, "params", s)}
                /\ lastId' = id + 1
           ELSE /\ UNCHANGED req
                /\ timers' = timers \cup first
                /\ lastId' = id
        /\ \/ o = "fail" /\ Close(s, "OFFLINE") /\ UNCHANGED type
           \/ o = "bindfail" /\ UNCHANGED <<state, type, fdVars>>
           \/ /\ o = "ok"
              /\ type' = [type EXCEPT ![s] = "CLIENT"]
              /\ state' = [state EXCEPT ![s] = ConnectState(s)]
              /\ EventsAdd(s)
              /\ UNCHANGED <<fdOpen, discs>>
        /\ UNCHANGED <<busy, shutq, delayTimer>>

-----------------------------------------------------------------------------
(* The application's calls, made from main() or from any callback.         *)

AppRuns == pc # "write"

\* What the application promises when AppWaitsForConnected: between the
\* connect of a UDP socket and its on_connected it does not use the socket.
Waiting(s) == \E t \in timers : t.cb = "connected" /\ t.sock = s
MayUse(s)  == Usable(s) /\ ~(AppWaitsForConnected /\ Waiting(s))

\* APE_socket_new(pt, 0, ape)
SocketNew(s) ==
    /\ AppRuns
    /\ state[s] = "UNALLOC"
    /\ state' = [state EXCEPT ![s] = "PENDING"]
    /\ fdOpen' = fdOpen \cup {s}
    /\ UNCHANGED <<type, busy, shutq, delayTimer, dnsVars, timerVars,
                   reg, nfd, discs, loopVars>>

\* APE_socket_listen.  A socket is used for listening or for connecting.
Idle(s) == state[s] = "PENDING" /\ req[s] = "none" /\ s \in fdOpen

Listen(s) ==
    /\ AppRuns /\ Idle(s)
    /\ type' = [type EXCEPT ![s] = "SERVER"]
    /\ state' = [state EXCEPT ![s] = "ONLINE"]
    /\ EventsAdd(s)
    /\ UNCHANGED <<busy, shutq, delayTimer, dnsVars, timerVars, fdOpen, discs,
                   loopVars>>

\* bind or listen fails: the descriptor is closed, the socket stays PENDING
ListenFail(s) ==
    /\ AppRuns /\ Idle(s)
    /\ fdOpen' = fdOpen \ {s}
    /\ UNCHANGED <<sockVars, dnsVars, timerVars, reg, nfd, discs, loopVars>>

\* APE_socket_connect with port 0
ConnectBadPort(s) ==
    /\ AppRuns /\ Idle(s)
    /\ Destroy(s, timers)
    /\ UNCHANGED <<delayTimer, loopVars>>

\* APE_socket_connect to a numeric address: no lookup
ConnectNumeric(s, o) ==
    /\ AppRuns /\ Idle(s)
    /\ ReadyToConnect(s, o, FALSE)
    /\ UNCHANGED loopVars

\* APE_socket_connect to a name the resolver answers before it returns
ConnectDnsSync(s, o) ==
    /\ AppRuns /\ Idle(s)
    /\ ReadyToConnect(s, o, TRUE)
    /\ UNCHANGED loopVars

\* APE_socket_connect to a name that is looked up over the network
ConnectDns(s) ==
    /\ AppRuns /\ Idle(s)
    /\ dnsPtr' = [dnsPtr EXCEPT ![s] = TRUE]
    /\ req' = [req EXCEPT ![s] = "pending"]
    /\ UNCHANGED <<sockVars, timerVars, fdVars, loopVars>>

\* APE_socket_shutdown
Shutdown(s) ==
    /\ AppRuns /\ MayUse(s)
    /\ SocketShutdown(s, timers)
    /\ UNCHANGED <<delayTimer, loopVars>>

\* APE_socket_shutdown_now
ShutdownNow(s) ==
    /\ AppRuns /\ MayUse(s)
    /\ SocketShutdownNow(s, timers)
    /\ UNCHANGED <<delayTimer, loopVars>>

\* APE_socket_shutdown_delay
ShutdownDelay(s) ==
    /\ AppRuns /\ MayUse(s)
    /\ AppWaitsForConnected /\ s \in Udp => state[s] # "PENDING"
    /\ delayTimer[s] = 0
    /\ lastId < MaxTimerId
    /\ delayTimer' = [delayTimer EXCEPT ![s] = lastId + 1]
    /\ CreateTimer(timers, "delay", s)
    /\ UNCHANGED <<state, type, busy, shutq, dnsVars, fdVars, loopVars>>

\* APE_socket_write on an idle output side, when the kernel takes less than
\* everything: EAGAIN queues the rest ("again"), any other error, or a full
\* buffer, shuts the socket down ("error").  Writing to a server only fails.
Write(s, o) ==
    /\ AppRuns /\ MayUse(s) /\ state[s] = "ONLINE"
    /\ \/ /\ o = "again" /\ type[s] = "CLIENT" /\ ~busy[s]
          /\ busy' = [busy EXCEPT ![s] = TRUE]
          /\ UNCHANGED <<state, type, shutq, dnsVars, timerVars, fdVars>>
       \/ /\ o = "error"
          /\ ApeShutdown(s, timers)
    /\ UNCHANGED <<delayTimer, loopVars>>

-----------------------------------------------------------------------------
(* One turn of APE_loop_run: poll, dispatch the batch, process the timers. *)

Poll ==
    /\ pc = "poll"
    /\ \E b \in SUBSET reg : batch' = b
    /\ pc' = "dispatch"
    /\ UNCHANGED <<sockVars, dnsVars, timerVars, fdVars, cur, limit>>

\* An event of a listening socket: accept (or, for UDP, read) in a loop
HandleServer(s) ==
    /\ pc = "dispatch" /\ s \in batch /\ type[s] = "SERVER"
    /\ batch' = batch \ {s}
    /\ pc' = "accept" /\ cur' = s
    /\ UNCHANGED <<sockVars, dnsVars, timerVars, fdVars, limit>>

\* One connection of the backlog; on_connect may call the application
Accept(c) ==
    /\ pc = "accept" /\ cur \in fdOpen /\ cur \notin Udp
    /\ state[c] = "UNALLOC" /\ c \notin Udp
    /\ state' = [state EXCEPT ![c] = "ONLINE"]
    /\ type' = [type EXCEPT ![c] = "CLIENT"]
    /\ fdOpen' = fdOpen \cup {c}
    /\ EventsAdd(c)
    /\ UNCHANGED <<busy, shutq, delayTimer, dnsVars, timerVars, discs,
                   loopVars>>

EndAccept ==
    /\ pc = "accept"
    /\ pc' = "dispatch" /\ cur' = NoSock
    /\ UNCHANGED <<sockVars, dnsVars, timerVars, fdVars, batch, limit>>

\* An event of a client socket.  ape_socket_read does nothing unless the
\* socket is ONLINE; ape_socket_read_udp does not look at the state.
HandleClient(s) ==
    /\ pc = "dispatch" /\ s \in batch /\ type[s] = "CLIENT"
    /\ batch' = batch \ {s}
    /\ \/ (state[s] = "ONLINE" \/ s \in Udp) /\ pc' = "onread"
       \/ pc' = "write"
    /\ cur' = s
    /\ UNCHANGED <<sockVars, dnsVars, timerVars, fdVars, limit>>

\* A mutant: the test for APE_SOCKET_ST_SHUTDOWN is dropped.
EndReadEofAlways ==
    /\ pc = "onread" /\ cur \notin Udp
    /\ Destroy(cur, timers)
    /\ pc' = "dispatch" /\ cur' = NoSock
    /\ UNCHANGED <<delayTimer, batch, limit>>

\* ape_socket_read after on_read: end of file or an I/O error destroys the
\* socket, unless on_read shut it down
EndReadEof ==
    /\ pc = "onread" /\ cur \notin Udp /\ state[cur] # "SHUTDOWN"
    /\ Destroy(cur, timers)
    /\ pc' = "dispatch" /\ cur' = NoSock
    /\ UNCHANGED <<delayTimer, batch, limit>>

EndRead ==
    /\ pc = "onread"
    /\ pc' = "write"
    /\ UNCHANGED <<sockVars, dnsVars, timerVars, fdVars, batch, cur, limit>>

\* EVENT_WRITE of an ONLINE socket: ape_socket_do_jobs empties the job list,
\* meets the SHUTDOWN job, or fails
JobsDone ==
    /\ pc = "write" /\ state[cur] = "ONLINE" /\ ~shutq[cur]
    /\ busy' = [busy EXCEPT ![cur] = FALSE]
    /\ pc' = "dispatch" /\ cur' = NoSock
    /\ UNCHANGED <<state, type, shutq, delayTimer, dnsVars, timerVars, fdVars,
                   batch, limit>>

JobsShutdown ==
    /\ pc = "write" /\ state[cur] = "ONLINE" /\ busy[cur]
    /\ ApeShutdown(cur, timers)
    /\ pc' = "dispatch" /\ cur' = NoSock
    /\ UNCHANGED <<delayTimer, batch, limit>>

\* EVENT_WRITE of a connecting socket: getsockopt(SO_ERROR) tells
ConnectDone ==
    /\ pc = "write" /\ state[cur] = "PROGRESS"
    /\ state' = [state EXCEPT ![cur] = "ONLINE"]
    /\ pc' = "dispatch" /\ cur' = NoSock
    /\ UNCHANGED <<type, busy, shutq, delayTimer, dnsVars, timerVars, fdVars,
                   batch, limit>>

ConnectRefused ==
    /\ pc = "write" /\ state[cur] = "PROGRESS"
    /\ Destroy(cur, timers)
    /\ pc' = "dispatch" /\ cur' = NoSock
    /\ UNCHANGED <<delayTimer, batch, limit>>

\* No EVENT_WRITE, output still blocked, or nothing to do in this state
EndWrite ==
    /\ pc = "write"
    /\ pc' = "dispatch" /\ cur' = NoSock
    /\ UNCHANGED <<sockVars, dnsVars, timerVars, fdVars, batch, limit>>

\* An event of a resolver descriptor: ares_gethostbyname_cb
DnsAnswer(s, o) ==
    /\ pc = "dispatch" /\ req[s] = "pending"
    /\ ReadyToConnect(s, o, TRUE)
    /\ UNCHANGED loopVars

\* ... of a lookup whose socket was closed meanwhile
DnsAnswerInvalid(s) ==
    /\ pc = "dispatch" /\ req[s] = "invalid"
    /\ req' = [req EXCEPT ![s] = "freed"]
    /\ UNCHANGED <<sockVars, dnsPtr, timerVars, fdVars, loopVars>>

EndDispatch ==
    /\ pc = "dispatch" /\ batch = {}
    /\ pc' = "timers" /\ limit' = lastId + 1
    /\ UNCHANGED <<sockVars, dnsVars, timerVars, fdVars, batch, cur>>

-----------------------------------------------------------------------------
(* ape_timers_process: the list is walked once, newest timer first; timers *)
(* armed during the walk go to its head and wait for the next turn.        *)

Visit(t) ==
    /\ pc = "timers" /\ t.id < limit
    /\ \A u \in timers : u.id < limit => u.id <= t.id
    /\ limit' = t.id
    /\ UNCHANGED <<pc, batch, cur>>

\* ape_socket_free also takes the socket's delayed shutdown off the list
FreeTimers(s, t) ==
    {u \in timers \ {t} : u.id # delayTimer[s]}

\* ape_socket_free, armed by ape_socket_destroy
TimerFree(t) ==
    /\ t.cb = "free" /\ Visit(t)
    /\ state' = [state EXCEPT ![t.sock] = "FREED"]
    /\ timers' = FreeTimers(t.sock, t)
    /\ UNCHANGED <<type, busy, shutq, delayTimer, dnsVars, lastId, fdVars>>

\* _ape_socket_destroy, armed by ape_shutdown
TimerDestroy(t) ==
    /\ t.cb = "destroy" /\ Visit(t)
    /\ Close(t.sock, "FREED")
    /\ DnsInvalidate(t.sock)
    /\ timers' = FreeTimers(t.sock, t)
    /\ UNCHANGED <<type, busy, shutq, delayTimer, lastId>>

\* A mutant: the pointer to the timer outlives the timer.
TimerDelayStale(t) ==
    /\ t.cb = "delay" /\ Visit(t)
    /\ SocketShutdown(t.sock, timers \ {t})
    /\ UNCHANGED delayTimer

\* ape_socket_shutdown_delay_cb
TimerDelay(t) ==
    /\ t.cb = "delay" /\ Visit(t)
    /\ SocketShutdown(t.sock, timers \ {t})
    /\ delayTimer' = [delayTimer EXCEPT ![t.sock] = 0]

TimerDelayNotDue(t) ==
    /\ t.cb = "delay" /\ Visit(t)
    /\ UNCHANGED <<sockVars, dnsVars, timerVars, fdVars>>

\* ape_socket_connected of a UDP socket: only the application's callback
TimerConnected(t) ==
    /\ t.cb = "connected" /\ Visit(t)
    /\ timers' = timers \ {t}
    /\ UNCHANGED <<sockVars, dnsVars, lastId, fdVars>>

\* params_free
TimerParams(t) ==
    /\ t.cb = "params" /\ Visit(t)
    /\ timers' = timers \ {t}
    /\ req' = [req EXCEPT ![t.sock] = "freed"]
    /\ UNCHANGED <<sockVars, dnsPtr, lastId, fdVars>>

EndTimers ==
    /\ pc = "timers"
    /\ \A t \in timers : t.id >= limit
    /\ pc' = "poll" /\ limit' = 0
    /\ UNCHANGED <<sockVars, dnsVars, timerVars, fdVars, batch, cur>>

-----------------------------------------------------------------------------
App(s) ==
    \/ SocketNew(s) \/ Listen(s) \/ ListenFail(s)
    \/ ConnectBadPort(s) \/ ConnectDns(s)
    \/ \E o \in Outcomes : ConnectNumeric(s, o) \/ ConnectDnsSync(s, o)
    \/ Shutdown(s) \/ ShutdownNow(s) \/ ShutdownDelay(s)
    \/ \E o \in {"again", "error"} : Write(s, o)

Dns(s) ==
    \/ \E o \in Outcomes : DnsAnswer(s, o)
    \/ DnsAnswerInvalid(s)

Dispatch ==
    \/ Poll
    \/ \E s \in Sock : HandleServer(s) \/ Accept(s) \/ HandleClient(s)
    \/ EndAccept \/ EndReadEof \/ EndRead
    \/ JobsDone \/ JobsShutdown \/ ConnectDone \/ ConnectRefused \/ EndWrite
    \/ EndDispatch

Timers ==
    \/ \E t \in timers :
         \/ TimerFree(t) \/ TimerDestroy(t) \/ TimerDelay(t)
         \/ TimerDelayNotDue(t) \/ TimerConnected(t) \/ TimerParams(t)
    \/ EndTimers

Loop == Dispatch \/ Timers

Next == (\E s \in Sock : App(s) \/ Dns(s)) \/ Loop

\* The loop never stops (APE_loop_run); the application and the resolver owe
\* nothing.
Spec == Init /\ [][Next]_vars /\ WF_vars(Loop)

-----------------------------------------------------------------------------
(* Properties *)

CoreTypeOK ==
    /\ state \in [Sock -> States]
    /\ type \in [Sock -> Types]
    /\ busy \in [Sock -> BOOLEAN]
    /\ shutq \in [Sock -> BOOLEAN]
    /\ dnsPtr \in [Sock -> BOOLEAN]
    /\ req \in [Sock -> ReqStates]
    /\ timers \subseteq [id : 1 .. lastId, cb : Callbacks, sock : Sock]
    /\ lastId \in Nat
    /\ reg \subseteq Sock /\ fdOpen \subseteq Sock
    /\ nfd \in Int
    /\ discs \in [Sock -> Nat]

LoopTypeOK ==
    /\ pc \in PCs
    /\ batch \subseteq Sock
    /\ cur \in IF pc \in {"accept", "onread", "write"} THEN Sock ELSE {NoSock}
    /\ limit \in Nat

\* Every variable keeps its type, and timer ids stay below last_identifier,
\* the counter APE_timer_create takes them from.
TypeOK ==
    /\ CoreTypeOK /\ LoopTypeOK
    /\ delayTimer \in [Sock -> 0 .. lastId]

\* Nothing the loop, the timer list or the resolver will touch points to a
\* structure that was given back: the events still to be dispatched, the
\* socket whose handler runs, the argument of every timer, the argument of a
\* pending lookup.  This is what "ape_socket is planned to be released after
\* the for block" (ape_events_loop.c) relies on.
NoDangling ==
    /\ \A s \in batch : Live(s)
    /\ cur # NoSock => Live(cur)
    /\ \A t \in timers : t.cb # "params" => Live(t.sock)
    /\ \A s \in Sock : req[s] = "pending" => Live(s)

\* A socket that was given up is released by exactly one timer: the one
\* ape_shutdown arms while it is in SHUTDOWN, the one ape_socket_destroy arms
\* once it is OFFLINE.  Two would free it twice, none would leak it.
ReleaseOnce ==
    /\ \A s \in Sock :
        /\ (\E t \in timers : t.sock = s /\ t.cb = "destroy") <=> state[s] = "SHUTDOWN"
        /\ (\E t \in timers : t.sock = s /\ t.cb = "free") <=> state[s] = "OFFLINE"
    /\ \A t, u \in timers :
        t.cb \in {"free", "destroy"} /\ u.cb = t.cb /\ u.sock = t.sock => u = t

\* socket->delay_timer, which ape_socket_free destroys without a look, is the
\* socket's own armed timer, and no other delayed shutdown is armed for it.
DelayTimerOwned ==
    /\ \A t \in timers : t.cb = "delay" => t.id = delayTimer[t.sock]
    /\ \A s \in Sock : Live(s) /\ delayTimer[s] # 0 =>
        \E t \in timers : t.cb = "delay" /\ t.sock = s /\ t.id = delayTimer[s]

\* The record socket->dns_state points to exists as long as the socket can
\* still write through the pointer (ape_dns_invalidate in ape_socket_close).
DnsPtrValid ==
    \A s \in Sock : dnsPtr[s] /\ Usable(s) => req[s] = "pending"

\* The application is told of the end of a socket exactly once, before the
\* structure is freed (on_disconnect in ape_socket_close).
DisconnectOnce ==
    \A s \in Sock : discs[s] = IF state[s] \in {"OFFLINE", "FREED"} THEN 1 ELSE 0

\* The loop watches exactly the sockets that still have something to hear
\* from the kernel, on an open descriptor.
Watched ==
    /\ reg = {s \in Sock : state[s] \in {"PROGRESS", "ONLINE", "SHUTDOWN"}}
    /\ reg \subseteq fdOpen

\* ev->nfd never overstates the descriptors watched, so the event array of
\* events_shrink is never kept larger than they justify.
NfdBounded == nfd <= Cardinality(reg)

\* The life the library promises for a socket (SocketLife): created once,
\* given up once, told so once, then freed; whatever answer of the kernel or
\* the resolver arrives late, it never comes back.
Life == INSTANCE SocketLife WITH
    phase <- [s \in Sock |->
                IF state[s] = "UNALLOC"       THEN "absent"
                ELSE IF state[s] = "SHUTDOWN" THEN "closing"
                ELSE IF state[s] = "OFFLINE"  THEN "closed"
                ELSE IF state[s] = "FREED"    THEN "released"
                ELSE "open"],
    told <- [s \in Sock |-> discs[s] > 0]

LifeSpec == Life!Spec

\* A socket that was shut down or destroyed is eventually freed.
Released ==
    \A s \in Sock : state[s] \in {"SHUTDOWN", "OFFLINE"} ~> state[s] = "FREED"

-----------------------------------------------------------------------------
(* The inductive invariant behind these properties (ApeSocket_proofs).     *)

UniqueIds == \A t, u \in timers : t.id = u.id => t = u

\* No timer but the resolver's own outlives its socket, and a lookup that is
\* still to be answered belongs to a socket that waits for it.
TimerTargets ==
    /\ \A t \in timers : t.cb = "delay" => Live(t.sock)
    /\ \A t \in timers : t.cb = "params" => req[t.sock] \in {"done", "freed"}
    /\ \A s \in Sock : req[s] = "pending" =>
        state[s] = "PENDING" /\ dnsPtr[s] /\ s \in fdOpen
    /\ \A s \in Sock : state[s] = "UNALLOC" => ~dnsPtr[s]

\* Between the two halves of a UDP connect nothing can take the socket down.
UdpConnect ==
    /\ \A t \in timers : t.cb = "connected" =>
        t.sock \in Udp /\ state[t.sock] = "ONLINE" /\ ~busy[t.sock]
        /\ delayTimer[t.sock] = 0
    /\ \A s \in Sock : state[s] \in {"UNALLOC", "PENDING"} =>
        ~busy[s] /\ (s \in Udp \/ state[s] = "UNALLOC" => delayTimer[s] = 0)

\* Sockets are freed while no event is being handled.
LoopPhase ==
    /\ pc \in {"poll", "timers"} => batch = {}
    /\ \A s \in batch : Live(s)
    /\ cur # NoSock => Live(cur)

\* The inductive invariant: what the application sees, and why it holds.
IInv ==
    /\ TypeOK /\ UniqueIds /\ ReleaseOnce /\ DelayTimerOwned
    /\ TimerTargets /\ DnsPtrValid /\ UdpConnect /\ LoopPhase
    /\ DisconnectOnce /\ Watched

\* The socket handed to on_connected by ape_socket_connected is a connected
\* one, if the application keeps its hands off it until then.
ConnectedOnlyWhenOnline ==
    \A t \in timers : t.cb = "connected" => state[t.sock] = "ONLINE"

\* ape_socket.c:372: UDP is "always connected".  At least the structure
\* ape_socket_connected is going to read must still be allocated.
ConnectedOnLive ==
    \A t \in timers : t.cb = "connected" => Live(t.sock)

=============================================================================
