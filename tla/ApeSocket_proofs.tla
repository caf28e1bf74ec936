-------------------------- MODULE ApeSocket_proofs --------------------------
(***************************************************************************)
(* Proofs about ApeSocket, for any set of sockets, any choice of the UDP   *)
(* ones and any bound on timer ids.                                        *)
(***************************************************************************)
EXTENDS ApeSocket, FiniteSetTheorems, TLAPS

-----------------------------------------------------------------------------
(* Type correctness.  One lemma per helper the actions share, then one     *)
(* step per action.                                                        *)

\* APE_timer_create and APE_async keep the timer list well typed: the new timer
\* takes the next identifier, so no delay timer's identifier is out of range.
LEMMA CreateTimerType ==
    ASSUME TypeOK, NEW T, T \subseteq timers, NEW c \in Callbacks, NEW s \in Sock,
           CreateTimer(T, c, s)
    PROVE  /\ lastId' \in Nat
           /\ timers' \subseteq [id : 1 .. lastId', cb : Callbacks, sock : Sock]
           /\ delayTimer \in [Sock -> 0 .. lastId']
  BY DEF TypeOK, CoreTypeOK, CreateTimer, Timer

\* APE_socket_destroy (its close, its descriptor removal and its timers) keeps
\* the socket, lookup, descriptor and timer state well typed.
LEMMA DestroyType ==
    ASSUME TypeOK, NEW T, T \subseteq timers, NEW s \in Sock, Destroy(s, T)
    PROVE  CoreTypeOK' /\ delayTimer \in [Sock -> 0 .. lastId']
  <1>1. /\ lastId' \in Nat
        /\ timers' \subseteq [id : 1 .. lastId', cb : Callbacks, sock : Sock]
        /\ delayTimer \in [Sock -> 0 .. lastId']
    BY CreateTimerType DEF Destroy, Callbacks
  <1>2. QED
    BY <1>1 DEF TypeOK, CoreTypeOK, Destroy, Close, Sclose, EventsDel,
                DnsInvalidate, States, ReqStates, dnsVars, fdVars

\* ape_shutdown, destroying now or through a later timer, keeps it well typed.
LEMMA ApeShutdownType ==
    ASSUME TypeOK, NEW T, T \subseteq timers, NEW s \in Sock, ApeShutdown(s, T)
    PROVE  CoreTypeOK' /\ delayTimer \in [Sock -> 0 .. lastId']
  <1>1. CASE Destroy(s, T)
    BY <1>1, DestroyType
  <1>2. CASE CreateTimer(T, "destroy", s) /\ ~Destroy(s, T)
    BY <1>2, CreateTimerType
       DEF ApeShutdown, TypeOK, CoreTypeOK, States, Callbacks, dnsVars, fdVars
  <1>3. QED
    BY <1>1, <1>2 DEF ApeShutdown

\* So do APE_socket_shutdown and APE_socket_shutdown_now, early returns included.
LEMMA SocketShutdownType ==
    ASSUME TypeOK, NEW T, T \subseteq timers, NEW s \in Sock,
           SocketShutdown(s, T) \/ SocketShutdownNow(s, T)
    PROVE  CoreTypeOK' /\ delayTimer \in [Sock -> 0 .. lastId']
  <1>1. CASE Destroy(s, T)
    BY <1>1, DestroyType
  <1>2. CASE ApeShutdown(s, T)
    BY <1>2, ApeShutdownType
  <1>3. CASE ~Destroy(s, T) /\ ~ApeShutdown(s, T)
    BY <1>3 DEF SocketShutdown, SocketShutdownNow, TypeOK, CoreTypeOK,
                dnsVars, fdVars
  <1>4. QED
    BY <1>1, <1>2, <1>3

\* ape_socket_connect_ready_to_connect keeps the type invariant for each
\* outcome of connect.
LEMMA ReadyToConnectType ==
    ASSUME TypeOK, NEW s \in Sock, NEW o \in Outcomes, NEW p \in BOOLEAN,
           ReadyToConnect(s, o, p), UNCHANGED loopVars
    PROVE  TypeOK'
  BY DEF TypeOK, CoreTypeOK, LoopTypeOK, States, Types, Callbacks, ReqStates,
         Outcomes, loopVars, fdVars, ReadyToConnect, Close, Sclose, EventsDel,
         EventsAdd, DnsClear, ConnectState, Timer

\* Every step keeps the types.
LEMMA TypeStep == TypeOK /\ [Next]_vars => TypeOK'
  <1> SUFFICES ASSUME TypeOK, [Next]_vars PROVE TypeOK'
    OBVIOUS
  <1> USE DEF TypeOK, CoreTypeOK, LoopTypeOK, States, Types, Callbacks,
              ReqStates, PCs, sockVars, dnsVars, timerVars, fdVars, loopVars
  <1>1. ASSUME NEW s \in Sock, App(s) PROVE TypeOK'
    <2>1. CASE SocketNew(s)
      BY <2>1 DEF SocketNew
    <2>2. CASE Listen(s)
      BY <2>2 DEF Listen, EventsAdd
    <2>3. CASE ListenFail(s)
      BY <2>3 DEF ListenFail
    <2>4. CASE ConnectBadPort(s)
      BY <2>4, DestroyType DEF ConnectBadPort
    <2>5. CASE ConnectDns(s)
      BY <2>5 DEF ConnectDns
    <2>6. CASE \E o \in Outcomes : ConnectNumeric(s, o) \/ ConnectDnsSync(s, o)
      BY <2>6, ReadyToConnectType DEF ConnectNumeric, ConnectDnsSync
    <2>7. CASE Shutdown(s) \/ ShutdownNow(s)
      BY <2>7, SocketShutdownType DEF Shutdown, ShutdownNow
    <2>8. CASE ShutdownDelay(s)
      BY <2>8, CreateTimerType DEF ShutdownDelay, CreateTimer, Timer
    <2>9. CASE \E o \in {"again", "error"} : Write(s, o)
      BY <2>9, ApeShutdownType DEF Write
    <2>10. QED
      BY <1>1, <2>1, <2>2, <2>3, <2>4, <2>5, <2>6, <2>7, <2>8, <2>9 DEF App
  <1>2. ASSUME NEW s \in Sock, Dns(s) PROVE TypeOK'
    <2>1. CASE \E o \in Outcomes : DnsAnswer(s, o)
      BY <2>1, ReadyToConnectType DEF DnsAnswer
    <2>2. CASE DnsAnswerInvalid(s)
      BY <2>2 DEF DnsAnswerInvalid
    <2>3. QED
      BY <1>2, <2>1, <2>2 DEF Dns
  <1>3. CASE Dispatch
    <2>1. CASE Poll
      BY <2>1 DEF Poll
    <2>2. CASE \E s \in Sock : HandleServer(s)
      BY <2>2 DEF HandleServer
    <2>3. CASE \E s \in Sock : Accept(s)
      BY <2>3 DEF Accept, EventsAdd
    <2>4. CASE \E s \in Sock : HandleClient(s)
      BY <2>4 DEF HandleClient
    <2>5. CASE EndAccept \/ EndRead \/ EndWrite \/ EndDispatch
      BY <2>5 DEF EndAccept, EndRead, EndWrite, EndDispatch
    <2>6. CASE JobsDone \/ ConnectDone
      BY <2>6 DEF JobsDone, ConnectDone
    <2>7. CASE EndReadEof
      BY <2>7, DestroyType DEF EndReadEof
    <2>8. CASE JobsShutdown
      BY <2>8, ApeShutdownType DEF JobsShutdown
    <2>9. CASE ConnectRefused
      BY <2>9, DestroyType DEF ConnectRefused
    <2>10. QED
      BY <1>3, <2>1, <2>2, <2>3, <2>4, <2>5, <2>6, <2>7, <2>8, <2>9 DEF Dispatch
  <1>4. CASE Timers
    <2>1. ASSUME NEW t \in timers, TimerFree(t) PROVE TypeOK'
      BY <2>1 DEF TimerFree, Visit, FreeTimers
    <2>2. ASSUME NEW t \in timers, TimerDestroy(t) PROVE TypeOK'
      BY <2>2 DEF TimerDestroy, Visit, FreeTimers, Close, Sclose, EventsDel,
                  DnsInvalidate
    <2>3. ASSUME NEW t \in timers, TimerDelay(t) PROVE TypeOK'
      <3>1. CoreTypeOK' /\ delayTimer \in [Sock -> 0 .. lastId']
        BY <2>3, SocketShutdownType DEF TimerDelay
      <3>2. QED
        BY <2>3, <3>1 DEF TimerDelay, Visit
    <2>4. ASSUME NEW t \in timers,
                 TimerDelayNotDue(t) \/ TimerConnected(t) \/ TimerParams(t)
          PROVE  TypeOK'
      BY <2>4 DEF TimerDelayNotDue, TimerConnected, TimerParams, Visit
    <2>5. CASE EndTimers
      BY <2>5 DEF EndTimers
    <2>6. QED
      BY <1>4, <2>1, <2>2, <2>3, <2>4, <2>5 DEF Timers
  <1>5. CASE UNCHANGED vars
    BY <1>5 DEF vars
  <1>6. QED
    BY <1>1, <1>2, <1>3, <1>4, <1>5 DEF Next, Loop

\* The type invariant, for every instance.
THEOREM TypeCorrect == Spec => []TypeOK
  <1>1. Init => TypeOK
    BY DEF Init, TypeOK, CoreTypeOK, LoopTypeOK, States, Types, ReqStates, PCs
  <1>2. QED
    BY <1>1, TypeStep, PTL DEF Spec

-----------------------------------------------------------------------------
(* The inductive invariant.  Its conjuncts are proved in three groups:     *)
(* who may release a socket, who points to it, and the bookkeeping.        *)

\* A socket that goes OFFLINE gets its one release timer.  T may lack the
\* delayed shutdown whose callback is running.
LEMMA DestroyRelease ==
    ASSUME IInv, NEW T, T \subseteq timers, \A u \in timers \ T : u.cb = "delay",
           NEW s \in Sock, state[s] \in {"PENDING", "PROGRESS", "ONLINE"},
           Destroy(s, T)
    PROVE  ReleaseOnce'
  <1> DEFINE n == Timer(lastId + 1, "free", s)
  <1>1. n.id = lastId + 1 /\ n.cb = "free" /\ n.sock = s
    BY DEF Timer
  <1>2. timers' = T \cup {n} /\ state' = [state EXCEPT ![s] = "OFFLINE"]
    BY DEF Destroy, Close, CreateTimer
  <1> HIDE DEF n
  <1>3. QED
    BY <1>1, <1>2 DEF IInv, TypeOK, CoreTypeOK, UniqueIds, ReleaseOnce

\* So does a socket that goes to SHUTDOWN.
LEMMA ApeShutdownRelease ==
    ASSUME IInv, NEW T, T \subseteq timers, \A u \in timers \ T : u.cb = "delay",
           NEW s \in Sock, state[s] = "ONLINE", ApeShutdown(s, T)
    PROVE  ReleaseOnce'
  <1> DEFINE n == Timer(lastId + 1, "destroy", s)
  <1>1. n.id = lastId + 1 /\ n.cb = "destroy" /\ n.sock = s
    BY DEF Timer
  <1>2. CASE Destroy(s, T)
    BY <1>2, DestroyRelease
  <1>3. CASE ~Destroy(s, T)
    <2>1. timers' = T \cup {n} /\ state' = [state EXCEPT ![s] = "SHUTDOWN"]
      BY <1>3 DEF ApeShutdown, CreateTimer
    <2> HIDE DEF n
    <2>2. QED
      BY <1>1, <2>1 DEF IInv, TypeOK, CoreTypeOK, UniqueIds, ReleaseOnce
  <1>4. QED
    BY <1>2, <1>3

\* The two shutdown calls schedule at most one release of the socket: a pending
\* or connecting socket is destroyed at once, an online one by ape_shutdown.
LEMMA SocketShutdownRelease ==
    ASSUME IInv, NEW T, T \subseteq timers, \A u \in timers \ T : u.cb = "delay",
           NEW s \in Sock, SocketShutdown(s, T) \/ SocketShutdownNow(s, T)
    PROVE  ReleaseOnce'
  <1>1. CASE state[s] \in {"PENDING", "PROGRESS"}
    BY <1>1, DestroyRelease DEF SocketShutdown, SocketShutdownNow
  <1>2. CASE state[s] = "ONLINE" /\ ApeShutdown(s, T)
    BY <1>2, ApeShutdownRelease
  <1>3. CASE UNCHANGED state /\ timers' = T
    BY <1>3 DEF IInv, ReleaseOnce
  <1>4. QED
    BY <1>1, <1>2, <1>3 DEF SocketShutdown, SocketShutdownNow

\* ape_socket_connect_ready_to_connect schedules a release only when it fails,
\* and then for a socket that had none.
LEMMA ReadyToConnectRelease ==
    ASSUME IInv, NEW s \in Sock, NEW o \in Outcomes, NEW p \in BOOLEAN,
           state[s] = "PENDING", ReadyToConnect(s, o, p)
    PROVE  ReleaseOnce'
  <1>1. CASE o = "fail"
    <2> DEFINE n == Timer(lastId + 1, "free", s)
               m == Timer(lastId + 2, "params", s)
    <2>1. /\ n.id = lastId + 1 /\ n.cb = "free" /\ n.sock = s
          /\ m.cb = "params"
      BY DEF Timer
    <2>2. state' = [state EXCEPT ![s] = "OFFLINE"]
      BY <1>1 DEF ReadyToConnect, Close
    <2>3. timers' = timers \cup {n} \/ timers' = timers \cup {n} \cup {m}
      <3>1. {n} # {} /\ lastId + 1 + 1 = lastId + 2
        BY DEF IInv, TypeOK, CoreTypeOK
      <3>2. QED
        BY <1>1, <3>1, Zenon DEF ReadyToConnect
    <2> HIDE DEF n, m
    <2>4. QED
      BY <2>1, <2>2, <2>3 DEF IInv, TypeOK, CoreTypeOK, UniqueIds, ReleaseOnce
  <1>2. CASE o # "fail"
    <2>1. /\ \A t \in timers' : t \in timers \/ t.cb \in {"connected", "params"}
          /\ timers \subseteq timers'
      BY <1>2 DEF ReadyToConnect, Timer
    <2>2. \/ UNCHANGED state
          \/ state' = [state EXCEPT ![s] = ConnectState(s)]
      BY <1>2 DEF ReadyToConnect
    <2>3. QED
      BY <2>1, <2>2 DEF IInv, TypeOK, CoreTypeOK, ReleaseOnce, ConnectState
  <1>3. QED
    BY <1>1, <1>2

\* One release timer per socket that was given up, whatever the step.
LEMMA ReleaseStep ==
    ASSUME AppWaitsForConnected, IInv, TypeOK', [Next]_vars
    PROVE  ReleaseOnce'
  <1> DEFINE Goal == ReleaseOnce'
  <1> USE SockAssumption DEF
        IInv, TypeOK, CoreTypeOK, LoopTypeOK, UniqueIds, ReleaseOnce,
        DelayTimerOwned, TimerTargets, DnsPtrValid, UdpConnect, LoopPhase,
        DisconnectOnce, Watched, Live, Usable, sockVars, dnsVars,
        timerVars, fdVars, loopVars
  <1>1. ASSUME NEW s \in Sock, App(s) PROVE Goal
    <2>1. CASE SocketNew(s)
      BY <2>1 DEF SocketNew
    <2>2. CASE Listen(s)
      BY <2>2 DEF Listen, Idle
    <2>3. CASE ListenFail(s)
      BY <2>3 DEF ListenFail
    <2>4. CASE ConnectBadPort(s)
      BY <2>4, DestroyRelease DEF ConnectBadPort, Idle
    <2>5. CASE ConnectDns(s)
      BY <2>5 DEF ConnectDns
    <2>6. CASE \E o \in Outcomes : ConnectNumeric(s, o)
      BY <2>6, ReadyToConnectRelease DEF ConnectNumeric, Idle
    <2>7. CASE \E o \in Outcomes : ConnectDnsSync(s, o)
      BY <2>7, ReadyToConnectRelease DEF ConnectDnsSync, Idle
    <2>8. CASE Shutdown(s)
      BY <2>8, SocketShutdownRelease DEF Shutdown
    <2>9. CASE ShutdownNow(s)
      BY <2>9, SocketShutdownRelease DEF ShutdownNow
    <2>10. CASE ShutdownDelay(s)
      BY <2>10 DEF ShutdownDelay, CreateTimer, Timer
    <2>11. CASE \E o \in {"again", "error"} : Write(s, o)
      <3>1. ASSUME ApeShutdown(s, timers), state[s] = "ONLINE" PROVE Goal
        BY <3>1, ApeShutdownRelease
      <3>2. QED
        BY <2>11, <3>1 DEF Write
    <2>12. QED
      BY <1>1, <2>1, <2>2, <2>3, <2>4, <2>5, <2>6, <2>7, <2>8, <2>9, <2>10,
      <2>11 DEF App
  <1>2. ASSUME NEW s \in Sock, Dns(s) PROVE Goal
    <2>1. CASE \E o \in Outcomes : DnsAnswer(s, o)
      BY <2>1, ReadyToConnectRelease DEF DnsAnswer
    <2>2. CASE DnsAnswerInvalid(s)
      BY <2>2 DEF DnsAnswerInvalid
    <2>3. QED
      BY <1>2, <2>1, <2>2 DEF Dns
  <1>3. CASE Dispatch
    <2>1. CASE Poll
      BY <2>1 DEF Poll
    <2>2. CASE \E s \in Sock : HandleServer(s) \/ HandleClient(s)
      BY <2>2 DEF HandleServer, HandleClient
    <2>3. CASE \E s \in Sock : Accept(s)
      BY <2>3 DEF Accept, EventsAdd
    <2>4. CASE EndAccept \/ EndRead \/ EndWrite \/ EndDispatch
      BY <2>4 DEF EndAccept, EndRead, EndWrite, EndDispatch
    <2>5. CASE EndReadEof
      <3>1. cur \in Sock /\ Live(cur)
        BY <2>5 DEF EndReadEof
      <3>2. state[cur] \in {"PENDING", "PROGRESS", "ONLINE"}
        BY <2>5, <3>1 DEF EndReadEof, Destroy, States
      <3>3. QED
        BY <2>5, <3>1, <3>2, DestroyRelease DEF EndReadEof
    <2>6. CASE JobsDone
      BY <2>6 DEF JobsDone
    <2>7. CASE JobsShutdown
      BY <2>7, ApeShutdownRelease DEF JobsShutdown
    <2>8. CASE ConnectDone
      BY <2>8 DEF ConnectDone
    <2>9. CASE ConnectRefused
      BY <2>9, DestroyRelease DEF ConnectRefused
    <2>10. QED
      BY <1>3, <2>1, <2>2, <2>3, <2>4, <2>5, <2>6, <2>7, <2>8, <2>9 DEF Dispatch
  <1>4. CASE Timers
    <2>1. ASSUME NEW t \in timers, TimerFree(t) PROVE Goal
      BY <2>1 DEF TimerFree, FreeTimers, Visit
    <2>2. ASSUME NEW t \in timers, TimerDestroy(t) PROVE Goal
      BY <2>2 DEF TimerDestroy, FreeTimers, Visit, Close
    <2>3. ASSUME NEW t \in timers, TimerDelay(t) PROVE Goal
      <3>1. t.sock \in Sock /\ \A u \in timers \ (timers \ {t}) : u.cb = "delay"
        BY <2>3 DEF TimerDelay
      <3>2. QED
        BY <2>3, <3>1, SocketShutdownRelease DEF TimerDelay
    <2>4. ASSUME NEW t \in timers, TimerDelayNotDue(t) PROVE Goal
      BY <2>4 DEF TimerDelayNotDue
    <2>5. ASSUME NEW t \in timers, TimerConnected(t) PROVE Goal
      BY <2>5 DEF TimerConnected
    <2>6. ASSUME NEW t \in timers, TimerParams(t) PROVE Goal
      BY <2>6 DEF TimerParams
    <2>7. CASE EndTimers
      BY <2>7 DEF EndTimers
    <2>8. QED
      BY <1>4, <2>1, <2>2, <2>3, <2>4, <2>5, <2>6, <2>7 DEF Timers
  <1>5. CASE UNCHANGED vars
    BY <1>5 DEF vars
  <1>6. QED
    BY <1>1, <1>2, <1>3, <1>4, <1>5 DEF Next, Loop

\* Timers, lookups and sockets keep pointing to one another correctly.
LEMMA PointersStep ==
    ASSUME AppWaitsForConnected, IInv, TypeOK', [Next]_vars
    PROVE  /\ UniqueIds' /\ DelayTimerOwned' /\ TimerTargets'
           /\ DnsPtrValid' /\ UdpConnect'
  <1> DEFINE Goal == /\ UniqueIds' /\ DelayTimerOwned' /\ TimerTargets'
                     /\ DnsPtrValid' /\ UdpConnect'
  <1> USE SockAssumption DEF
        IInv, TypeOK, CoreTypeOK, LoopTypeOK, UniqueIds, ReleaseOnce,
        DelayTimerOwned, TimerTargets, DnsPtrValid, UdpConnect, LoopPhase,
        DisconnectOnce, Watched, Live, Usable, sockVars, dnsVars,
        timerVars, fdVars, loopVars, Destroy, Close, Sclose, EventsDel,
        EventsAdd, DnsInvalidate, DnsClear, CreateTimer, Timer,
        ApeShutdown, SocketShutdown, SocketShutdownNow, ReadyToConnect,
        ConnectState, Outcomes, Idle, MayUse, Waiting, Visit, FreeTimers
  <1>1. ASSUME NEW s \in Sock, App(s) PROVE Goal
    <2>1. CASE SocketNew(s)
      BY <2>1 DEF SocketNew
    <2>2. CASE Listen(s)
      BY <2>2 DEF Listen
    <2>3. CASE ListenFail(s)
      BY <2>3 DEF ListenFail
    <2>4. CASE ConnectBadPort(s)
      BY <2>4 DEF ConnectBadPort
    <2>5. CASE ConnectDns(s)
      BY <2>5 DEF ConnectDns
    <2>6. CASE \E o \in Outcomes : ConnectNumeric(s, o)
      BY <2>6 DEF ConnectNumeric
    <2>7. CASE \E o \in Outcomes : ConnectDnsSync(s, o)
      BY <2>7 DEF ConnectDnsSync
    <2>8. CASE Shutdown(s)
      BY <2>8 DEF Shutdown
    <2>9. CASE ShutdownNow(s)
      BY <2>9, SMTT(40) DEF ShutdownNow
    <2>10. CASE ShutdownDelay(s)
      <3> DEFINE n == Timer(lastId + 1, "delay", s)
      <3>1. n.id = lastId + 1 /\ n.cb = "delay" /\ n.sock = s
        OBVIOUS
      <3>2. timers' = timers \cup {n} /\ ~Waiting(s)
        BY <2>10 DEF ShutdownDelay
      <3>3. DelayTimerOwned'
        <4> HIDE DEF n
        <4> QED BY <2>10, <3>1, <3>2 DEF ShutdownDelay
      <3>4. UniqueIds' /\ TimerTargets' /\ DnsPtrValid' /\ UdpConnect'
        BY <2>10 DEF ShutdownDelay
      <3>5. QED
        BY <3>3, <3>4
    <2>11. CASE \E o \in {"again", "error"} : Write(s, o)
      BY <2>11, SMTT(40) DEF Write
    <2>12. QED
      BY <1>1, <2>1, <2>2, <2>3, <2>4, <2>5, <2>6, <2>7, <2>8, <2>9, <2>10,
      <2>11 DEF App
  <1>2. ASSUME NEW s \in Sock, Dns(s) PROVE Goal
    <2>1. CASE \E o \in Outcomes : DnsAnswer(s, o)
      BY <2>1 DEF DnsAnswer
    <2>2. CASE DnsAnswerInvalid(s)
      BY <2>2 DEF DnsAnswerInvalid
    <2>3. QED
      BY <1>2, <2>1, <2>2 DEF Dns
  <1>3. CASE Dispatch
    <2>1. CASE Poll
      BY <2>1 DEF Poll
    <2>2. CASE \E s \in Sock : HandleServer(s) \/ HandleClient(s)
      BY <2>2 DEF HandleServer, HandleClient
    <2>3. CASE \E s \in Sock : Accept(s)
      BY <2>3 DEF Accept
    <2>4. CASE EndAccept \/ EndRead \/ EndWrite \/ EndDispatch
      BY <2>4 DEF EndAccept, EndRead, EndWrite, EndDispatch
    <2>5. CASE EndReadEof
      BY <2>5 DEF EndReadEof
    <2>6. CASE JobsDone
      BY <2>6 DEF JobsDone
    <2>7. CASE JobsShutdown
      BY <2>7 DEF JobsShutdown
    <2>8. CASE ConnectDone
      BY <2>8 DEF ConnectDone
    <2>9. CASE ConnectRefused
      BY <2>9 DEF ConnectRefused
    <2>10. QED
      BY <1>3, <2>1, <2>2, <2>3, <2>4, <2>5, <2>6, <2>7, <2>8, <2>9 DEF Dispatch
  <1>4. CASE Timers
    <2>1. ASSUME NEW t \in timers, TimerFree(t) PROVE Goal
      BY <2>1 DEF TimerFree
    <2>2. ASSUME NEW t \in timers, TimerDestroy(t) PROVE Goal
      BY <2>2 DEF TimerDestroy
    <2>3. ASSUME NEW t \in timers, TimerDelay(t) PROVE Goal
      BY <2>3 DEF TimerDelay
    <2>4. ASSUME NEW t \in timers, TimerDelayNotDue(t) PROVE Goal
      BY <2>4 DEF TimerDelayNotDue
    <2>5. ASSUME NEW t \in timers, TimerConnected(t) PROVE Goal
      BY <2>5 DEF TimerConnected
    <2>6. ASSUME NEW t \in timers, TimerParams(t) PROVE Goal
      BY <2>6 DEF TimerParams
    <2>7. CASE EndTimers
      BY <2>7 DEF EndTimers
    <2>8. QED
      BY <1>4, <2>1, <2>2, <2>3, <2>4, <2>5, <2>6, <2>7 DEF Timers
  <1>5. CASE UNCHANGED vars
    BY <1>5 DEF vars
  <1>6. QED
    BY <1>1, <1>2, <1>3, <1>4, <1>5 DEF Next, Loop

\* The loop's phase, the epoll set and the reports to the application agree
\* with the states of the sockets.
LEMMA BooksStep ==
    ASSUME AppWaitsForConnected, IInv, TypeOK', [Next]_vars
    PROVE  LoopPhase' /\ DisconnectOnce' /\ Watched'
  <1> DEFINE Goal == LoopPhase' /\ DisconnectOnce' /\ Watched'
  <1> USE SockAssumption DEF
        IInv, TypeOK, CoreTypeOK, LoopTypeOK, UniqueIds, ReleaseOnce,
        DelayTimerOwned, TimerTargets, DnsPtrValid, UdpConnect, LoopPhase,
        DisconnectOnce, Watched, Live, Usable, sockVars, dnsVars,
        timerVars, fdVars, loopVars, Destroy, Close, Sclose, EventsDel,
        EventsAdd, DnsInvalidate, DnsClear, CreateTimer, Timer,
        ApeShutdown, SocketShutdown, SocketShutdownNow, ReadyToConnect,
        ConnectState, Outcomes, Idle, MayUse, Waiting, Visit, FreeTimers
  <1>1. ASSUME NEW s \in Sock, App(s) PROVE Goal
    <2>1. CASE SocketNew(s)
      BY <2>1 DEF SocketNew
    <2>2. CASE Listen(s)
      BY <2>2 DEF Listen
    <2>3. CASE ListenFail(s)
      BY <2>3 DEF ListenFail
    <2>4. CASE ConnectBadPort(s)
      BY <2>4 DEF ConnectBadPort
    <2>5. CASE ConnectDns(s)
      BY <2>5 DEF ConnectDns
    <2>6. CASE \E o \in Outcomes : ConnectNumeric(s, o)
      BY <2>6 DEF ConnectNumeric
    <2>7. CASE \E o \in Outcomes : ConnectDnsSync(s, o)
      BY <2>7 DEF ConnectDnsSync
    <2>8. CASE Shutdown(s)
      BY <2>8 DEF Shutdown
    <2>9. CASE ShutdownNow(s)
      BY <2>9 DEF ShutdownNow
    <2>10. CASE ShutdownDelay(s)
      BY <2>10 DEF ShutdownDelay
    <2>11. CASE \E o \in {"again", "error"} : Write(s, o)
      BY <2>11 DEF Write
    <2>12. QED
      BY <1>1, <2>1, <2>2, <2>3, <2>4, <2>5, <2>6, <2>7, <2>8, <2>9, <2>10,
      <2>11 DEF App
  <1>2. ASSUME NEW s \in Sock, Dns(s) PROVE Goal
    <2>1. CASE \E o \in Outcomes : DnsAnswer(s, o)
      BY <2>1 DEF DnsAnswer
    <2>2. CASE DnsAnswerInvalid(s)
      BY <2>2 DEF DnsAnswerInvalid
    <2>3. QED
      BY <1>2, <2>1, <2>2 DEF Dns
  <1>3. CASE Dispatch
    <2>1. CASE Poll
      BY <2>1 DEF Poll
    <2>2. CASE \E s \in Sock : HandleServer(s) \/ HandleClient(s)
      BY <2>2 DEF HandleServer, HandleClient
    <2>3. CASE \E s \in Sock : Accept(s)
      BY <2>3 DEF Accept
    <2>4. CASE EndAccept \/ EndRead \/ EndWrite \/ EndDispatch
      BY <2>4 DEF EndAccept, EndRead, EndWrite, EndDispatch
    <2>5. CASE EndReadEof
      BY <2>5 DEF EndReadEof
    <2>6. CASE JobsDone
      BY <2>6 DEF JobsDone
    <2>7. CASE JobsShutdown
      BY <2>7 DEF JobsShutdown
    <2>8. CASE ConnectDone
      BY <2>8 DEF ConnectDone
    <2>9. CASE ConnectRefused
      BY <2>9 DEF ConnectRefused
    <2>10. QED
      BY <1>3, <2>1, <2>2, <2>3, <2>4, <2>5, <2>6, <2>7, <2>8, <2>9 DEF Dispatch
  <1>4. CASE Timers
    <2>1. ASSUME NEW t \in timers, TimerFree(t) PROVE Goal
      BY <2>1 DEF TimerFree
    <2>2. ASSUME NEW t \in timers, TimerDestroy(t) PROVE Goal
      BY <2>2 DEF TimerDestroy
    <2>3. ASSUME NEW t \in timers, TimerDelay(t) PROVE Goal
      BY <2>3 DEF TimerDelay
    <2>4. ASSUME NEW t \in timers, TimerDelayNotDue(t) PROVE Goal
      BY <2>4 DEF TimerDelayNotDue
    <2>5. ASSUME NEW t \in timers, TimerConnected(t) PROVE Goal
      BY <2>5 DEF TimerConnected
    <2>6. ASSUME NEW t \in timers, TimerParams(t) PROVE Goal
      BY <2>6 DEF TimerParams
    <2>7. CASE EndTimers
      BY <2>7 DEF EndTimers
    <2>8. QED
      BY <1>4, <2>1, <2>2, <2>3, <2>4, <2>5, <2>6, <2>7 DEF Timers
  <1>5. CASE UNCHANGED vars
    BY <1>5 DEF vars
  <1>6. QED
    BY <1>1, <1>2, <1>3, <1>4, <1>5 DEF Next, Loop

\* The inductive invariant, for every instance in which the application
\* waits for on_connected: the reason each pointer the loop, the timers and
\* the resolver hold is good.
THEOREM Inductive ==
    ASSUME AppWaitsForConnected
    PROVE  Spec => []IInv
  <1>1. Init => IInv
    BY SockAssumption DEF Init, IInv, TypeOK, CoreTypeOK, LoopTypeOK, States,
       Types, ReqStates, PCs, UniqueIds, ReleaseOnce, DelayTimerOwned,
       TimerTargets, DnsPtrValid, UdpConnect, LoopPhase, DisconnectOnce, Watched,
       Live, Usable
  <1>2. IInv /\ [Next]_vars => IInv'
    <2> SUFFICES ASSUME IInv, [Next]_vars PROVE IInv'
      OBVIOUS
    <2>1. TypeOK'
      BY TypeStep DEF IInv
    <2>2. QED
      BY <2>1, ReleaseStep, PointersStep, BooksStep DEF IInv
  <1>3. QED
    BY <1>1, <1>2, PTL DEF Spec

\* No event, timer or lookup refers to freed memory, as long as the
\* application waits for on_connected before it uses a UDP socket.
THEOREM NoDanglingPointers ==
    ASSUME AppWaitsForConnected
    PROVE  Spec => []NoDangling
  <1>1. IInv => NoDangling
    BY DEF IInv, TypeOK, CoreTypeOK, LoopTypeOK, Callbacks, ReleaseOnce,
           TimerTargets, UdpConnect, LoopPhase, NoDangling, Live
  <1>2. QED
    BY <1>1, Inductive, PTL

\* Every socket given up has exactly one release timer.
THEOREM ReleasedExactlyOnce ==
    ASSUME AppWaitsForConnected
    PROVE  Spec => []ReleaseOnce
  <1>1. IInv => ReleaseOnce
    BY DEF IInv
  <1>2. QED
    BY <1>1, Inductive, PTL

\* on_disconnect is called exactly once per socket, before it is freed.
THEOREM DisconnectedOnce ==
    ASSUME AppWaitsForConnected
    PROVE  Spec => []DisconnectOnce
  <1>1. IInv => DisconnectOnce
    BY DEF IInv
  <1>2. QED
    BY <1>1, Inductive, PTL


-----------------------------------------------------------------------------
(* The rest of the inductive invariant, conjunct by conjunct.              *)

\* socket->delay_timer is the socket's own armed timer.
THEOREM DelayTimersOwned ==
    ASSUME AppWaitsForConnected
    PROVE  Spec => []DelayTimerOwned
  <1>1. IInv => DelayTimerOwned
    BY DEF IInv
  <1>2. QED
    BY <1>1, Inductive, PTL

\* ape_dns_invalidate never writes through a dead socket->dns_state.
THEOREM DnsPointerValid ==
    ASSUME AppWaitsForConnected
    PROVE  Spec => []DnsPtrValid
  <1>1. IInv => DnsPtrValid
    BY DEF IInv
  <1>2. QED
    BY <1>1, Inductive, PTL

\* The epoll set is exactly the sockets that wait for the kernel.
THEOREM WatchedExactly ==
    ASSUME AppWaitsForConnected
    PROVE  Spec => []Watched
  <1>1. IInv => Watched
    BY DEF IInv
  <1>2. QED
    BY <1>1, Inductive, PTL

\* on_connected of a UDP socket is called on a connected socket.
THEOREM ConnectedWhenOnline ==
    ASSUME AppWaitsForConnected
    PROVE  Spec => []ConnectedOnlyWhenOnline
  <1>1. IInv => ConnectedOnlyWhenOnline
    BY DEF IInv, UdpConnect, ConnectedOnlyWhenOnline
  <1>2. QED
    BY <1>1, Inductive, PTL

-----------------------------------------------------------------------------
(* What one step can do to the epoll set and to the life of the sockets.   *)

\* A step counts one more descriptor only for one it adds, and one less for
\* one it takes away, or for one that was never there (ape_socket_close of a
\* socket that was not connected yet).
LEMMA RegStep ==
    ASSUME AppWaitsForConnected, IInv, [Next]_vars
    PROVE  \/ UNCHANGED <<reg, nfd>>
           \/ \E s \in Sock : s \notin reg /\ EventsAdd(s)
           \/ \E s \in Sock : reg' = reg \ {s} /\ EventsDel
  <1> DEFINE Same == UNCHANGED <<reg, nfd>>
             Add == \E s \in Sock : s \notin reg /\ EventsAdd(s)
             Del == \E s \in Sock : reg' = reg \ {s} /\ EventsDel
  <1> USE DEF fdVars, sockVars, dnsVars, timerVars, loopVars
  <1>1. ASSUME NEW s \in Sock, NEW f, Close(s, f) PROVE Del
    BY <1>1 DEF Close, Sclose
  <1>2. ASSUME NEW s \in Sock, NEW T, ApeShutdown(s, T) \/ Destroy(s, T)
        PROVE Same \/ Del
    BY <1>2, <1>1 DEF ApeShutdown, Destroy
  <1>3. ASSUME NEW s \in Sock, NEW T,
               SocketShutdown(s, T) \/ SocketShutdownNow(s, T)
        PROVE Same \/ Del
    BY <1>3, <1>2 DEF SocketShutdown, SocketShutdownNow
  <1>4. ASSUME NEW s \in Sock, state[s] \in {"PENDING", "UNALLOC"}
        PROVE s \notin reg
    BY <1>4 DEF IInv, Watched
  <1>5. ASSUME NEW s \in Sock, NEW o, NEW p, state[s] = "PENDING",
               ReadyToConnect(s, o, p)
        PROVE Same \/ Add \/ Del
    BY <1>5, <1>1, <1>4 DEF ReadyToConnect
  <1>6. cur \in Sock \/ pc \notin {"accept", "onread", "write"}
    BY DEF IInv, TypeOK, LoopTypeOK
  <1>7. \A t \in timers : t.sock \in Sock
    BY DEF IInv, TypeOK, CoreTypeOK
  <1> SUFFICES Same \/ Add \/ Del
    OBVIOUS
  <1> HIDE DEF Same, Add, Del
  <1>8. ASSUME NEW s \in Sock, App(s) PROVE Same \/ Add \/ Del
    <2>1. CASE Listen(s)
      BY <2>1, <1>4 DEF Listen, Idle, Add
    <2>2. CASE ConnectBadPort(s)
      BY <2>2, <1>2 DEF ConnectBadPort
    <2>3. CASE \E o \in Outcomes : ConnectNumeric(s, o) \/ ConnectDnsSync(s, o)
      BY <2>3, <1>5 DEF ConnectNumeric, ConnectDnsSync, Idle
    <2>4. CASE Shutdown(s) \/ ShutdownNow(s)
      BY <2>4, <1>3 DEF Shutdown, ShutdownNow
    <2>5. CASE \E o \in {"again", "error"} : Write(s, o)
      BY <2>5, <1>2 DEF Write, Same
    <2>6. CASE SocketNew(s) \/ ListenFail(s) \/ ConnectDns(s) \/ ShutdownDelay(s)
      BY <2>6 DEF SocketNew, ListenFail, ConnectDns, ShutdownDelay, Same
    <2>7. QED
      BY <1>8, <2>1, <2>2, <2>3, <2>4, <2>5, <2>6 DEF App
  <1>9. ASSUME NEW s \in Sock, Dns(s) PROVE Same \/ Add \/ Del
    <2>1. CASE \E o \in Outcomes : DnsAnswer(s, o)
      BY <2>1, <1>5 DEF DnsAnswer, IInv, TimerTargets
    <2>2. CASE DnsAnswerInvalid(s)
      BY <2>2 DEF DnsAnswerInvalid, Same
    <2>3. QED
      BY <1>9, <2>1, <2>2 DEF Dns
  <1>10. CASE Dispatch
    <2>1. CASE \E s \in Sock : Accept(s)
      BY <2>1, <1>4 DEF Accept, Add
    <2>2. CASE EndReadEof \/ JobsShutdown \/ ConnectRefused
      <3>1. cur \in Sock
        BY <2>2, <1>6 DEF EndReadEof, JobsShutdown, ConnectRefused
      <3>2. ApeShutdown(cur, timers) \/ Destroy(cur, timers)
        BY <2>2 DEF EndReadEof, JobsShutdown, ConnectRefused
      <3>3. QED
        BY <3>1, <3>2, <1>2
    <2>3. CASE \E s \in Sock : HandleServer(s) \/ HandleClient(s)
      BY <2>3 DEF HandleServer, HandleClient, Same
    <2>4. CASE Poll \/ EndAccept \/ EndRead \/ EndWrite \/ EndDispatch
               \/ JobsDone \/ ConnectDone
      BY <2>4 DEF Poll, EndAccept, EndRead, EndWrite, EndDispatch, JobsDone,
                  ConnectDone, Same
    <2>5. QED
      BY <1>10, <2>1, <2>2, <2>3, <2>4 DEF Dispatch
  <1>11. CASE Timers
    <2>1. ASSUME NEW t \in timers, TimerDestroy(t) PROVE Same \/ Add \/ Del
      BY <2>1, <1>1, <1>7 DEF TimerDestroy
    <2>2. ASSUME NEW t \in timers, TimerDelay(t) PROVE Same \/ Add \/ Del
      BY <2>2, <1>3, <1>7 DEF TimerDelay
    <2>3. ASSUME NEW t \in timers,
                 \/ TimerFree(t) \/ TimerDelayNotDue(t)
                 \/ TimerConnected(t) \/ TimerParams(t)
          PROVE Same \/ Add \/ Del
      BY <2>3 DEF TimerFree, TimerDelayNotDue, TimerConnected, TimerParams, Same
    <2>4. CASE EndTimers
      BY <2>4 DEF EndTimers, Same
    <2>5. QED
      BY <1>11, <2>1, <2>2, <2>3, <2>4 DEF Timers
  <1>12. CASE UNCHANGED vars
    BY <1>12 DEF vars, Same
  <1>13. QED
    BY <1>8, <1>9, <1>10, <1>11, <1>12 DEF Next, Loop

\* ev->nfd never overstates the epoll set, although events_del counts out
\* descriptors that were never registered.
THEOREM NfdNeverOverstates ==
    ASSUME AppWaitsForConnected
    PROVE  Spec => []NfdBounded
  <1> DEFINE Inv == IsFiniteSet(reg) /\ NfdBounded
  <1>1. Init => Inv
    BY FS_EmptySet DEF Init, NfdBounded
  <1>2. IInv /\ Inv /\ [Next]_vars => Inv'
    <2> SUFFICES ASSUME IInv, Inv, [Next]_vars PROVE Inv'
      OBVIOUS
    <2>1. nfd \in Int /\ Cardinality(reg) \in Nat
      BY FS_CardinalityType DEF IInv, TypeOK, CoreTypeOK
    <2>2. CASE UNCHANGED <<reg, nfd>>
      BY <2>2 DEF NfdBounded
    <2>3. ASSUME NEW s \in Sock, s \notin reg, EventsAdd(s) PROVE Inv'
      <3>1. IsFiniteSet(reg \cup {s})
            /\ Cardinality(reg \cup {s}) = Cardinality(reg) + 1
        BY <2>3, FS_AddElement
      <3>2. QED
        BY <2>1, <2>3, <3>1 DEF EventsAdd, NfdBounded
    <2>4. ASSUME NEW s \in Sock, reg' = reg \ {s}, EventsDel PROVE Inv'
      <3>1. IsFiniteSet(reg \ {s})
            /\ Cardinality(reg \ {s}) \in {Cardinality(reg), Cardinality(reg) - 1}
        BY FS_RemoveElement
      <3>2. QED
        BY <2>1, <2>4, <3>1 DEF EventsDel, NfdBounded
    <2>5. QED
      BY <2>2, <2>3, <2>4, RegStep
  <1>3. Inv => NfdBounded
    OBVIOUS
  <1>4. QED
    BY <1>1, <1>2, <1>3, Inductive, PTL DEF Spec

-----------------------------------------------------------------------------
(* ApeSocket implements SocketLife.  Steps are first told apart by what    *)
(* they do to one socket; then each kind is a step of SocketLife.          *)

Opened == {"PENDING", "PROGRESS", "ONLINE"}

\* Some socket moves from a state in `from' to one in `to'.
Moves(from, to) ==
    \E s \in Sock, x \in to :
        state[s] \in from /\ state' = [state EXCEPT ![s] = x]

\* The same, and its application is told.
MovesTold(from, to) ==
    \E s \in Sock, x \in to :
        /\ state[s] \in from /\ state' = [state EXCEPT ![s] = x]
        /\ discs' = [discs EXCEPT ![s] = @ + 1]

LifeKept  == UNCHANGED discs /\ (UNCHANGED state \/ Moves(Opened, Opened))
LifeShut  == UNCHANGED discs /\ Moves(Opened, {"SHUTDOWN"})
LifeClose == MovesTold(Opened, {"OFFLINE"})
LifeBegin == UNCHANGED discs /\ Moves({"UNALLOC"}, Opened)
LifeEnd   == \/ UNCHANGED discs /\ Moves({"OFFLINE"}, {"FREED"})
             \/ MovesTold({"SHUTDOWN"}, {"FREED"})

\* Every step moves at most one socket, along one edge of its life.
LEMMA LifeStep ==
    ASSUME AppWaitsForConnected, IInv, [Next]_vars
    PROVE  LifeKept \/ LifeShut \/ LifeClose \/ LifeBegin \/ LifeEnd
  <1> USE DEF fdVars, sockVars, dnsVars, timerVars, loopVars
  <1> DEFINE Goal == LifeKept \/ LifeShut \/ LifeClose \/ LifeBegin \/ LifeEnd
  <1>1. ASSUME UNCHANGED <<state, discs>> PROVE LifeKept
    BY <1>1 DEF LifeKept
  <1>2. ASSUME NEW s \in Sock, state[s] \in Opened, Close(s, "OFFLINE")
        PROVE LifeClose
    BY <1>2 DEF LifeClose, MovesTold, Close
  <1>3. ASSUME NEW s \in Sock, NEW x \in Opened, state[s] \in Opened,
               state' = [state EXCEPT ![s] = x], UNCHANGED discs
        PROVE LifeKept
    BY <1>3 DEF LifeKept, Moves
  <1>4. ASSUME NEW s \in Sock, NEW T, state[s] \in Opened, Destroy(s, T)
        PROVE LifeClose
    BY <1>2, <1>4 DEF Destroy
  <1>5. ASSUME NEW s \in Sock, NEW T, state[s] = "ONLINE", ApeShutdown(s, T)
        PROVE LifeClose \/ LifeShut
    BY <1>4, <1>5 DEF ApeShutdown, LifeShut, Moves, Opened
  <1>6. ASSUME NEW s \in Sock, NEW T,
               SocketShutdown(s, T) \/ SocketShutdownNow(s, T)
        PROVE LifeKept \/ LifeClose \/ LifeShut
    BY <1>1, <1>4, <1>5, <1>6 DEF SocketShutdown, SocketShutdownNow, Opened
  <1>7. ASSUME NEW s \in Sock, NEW o, NEW p, state[s] = "PENDING",
               ReadyToConnect(s, o, p)
        PROVE LifeKept \/ LifeClose
    <2>1. state[s] \in Opened /\ ConnectState(s) \in Opened
      BY <1>7 DEF Opened, ConnectState
    <2>2. QED
      BY <1>1, <1>2, <1>3, <1>7, <2>1 DEF ReadyToConnect
  <1>8. ASSUME NEW s \in Sock, NEW x \in Opened, state[s] = "UNALLOC",
               state' = [state EXCEPT ![s] = x], UNCHANGED discs
        PROVE LifeBegin
    BY <1>8 DEF LifeBegin, Moves
  <1>9. ASSUME pc \in {"accept", "onread", "write"}
        PROVE cur \in Sock /\ state[cur] \in Opened \cup {"SHUTDOWN", "OFFLINE"}
    BY <1>9, SockAssumption DEF IInv, TypeOK, LoopTypeOK, CoreTypeOK, States,
       LoopPhase, Live, Opened
  <1>10. /\ \A t \in timers : t.sock \in Sock
         /\ \A t \in timers : t.cb = "destroy" => state[t.sock] = "SHUTDOWN"
         /\ \A t \in timers : t.cb = "free" => state[t.sock] = "OFFLINE"
    BY DEF IInv, TypeOK, CoreTypeOK, ReleaseOnce
  <1> SUFFICES Goal
    OBVIOUS
  <1>11. ASSUME NEW s \in Sock, App(s) PROVE Goal
    <2>1. CASE SocketNew(s)
      BY <2>1, <1>8 DEF SocketNew, Opened
    <2>2. CASE Listen(s)
      BY <2>2, <1>3 DEF Listen, Idle, Opened
    <2>3. CASE ConnectBadPort(s)
      BY <2>3, <1>4 DEF ConnectBadPort, Idle, Opened
    <2>4. CASE \E o \in Outcomes : ConnectNumeric(s, o) \/ ConnectDnsSync(s, o)
      BY <2>4, <1>7 DEF ConnectNumeric, ConnectDnsSync, Idle
    <2>5. CASE Shutdown(s) \/ ShutdownNow(s)
      BY <2>5, <1>6 DEF Shutdown, ShutdownNow
    <2>6. CASE \E o \in {"again", "error"} : Write(s, o)
      BY <2>6, <1>1, <1>5 DEF Write
    <2>7. CASE ListenFail(s) \/ ConnectDns(s) \/ ShutdownDelay(s)
      BY <2>7, <1>1 DEF ListenFail, ConnectDns, ShutdownDelay
    <2>8. QED
      BY <1>11, <2>1, <2>2, <2>3, <2>4, <2>5, <2>6, <2>7 DEF App
  <1>12. ASSUME NEW s \in Sock, Dns(s) PROVE Goal
    <2>1. CASE \E o \in Outcomes : DnsAnswer(s, o)
      BY <2>1, <1>7 DEF DnsAnswer, IInv, TimerTargets
    <2>2. CASE DnsAnswerInvalid(s)
      BY <2>2, <1>1 DEF DnsAnswerInvalid
    <2>3. QED
      BY <1>12, <2>1, <2>2 DEF Dns
  <1>13. CASE Dispatch
    <2>1. CASE \E s \in Sock : Accept(s)
      BY <2>1, <1>8 DEF Accept, Opened
    <2>2. CASE EndReadEof
      <3>1. cur \in Sock /\ state[cur] \in Opened /\ Destroy(cur, timers)
        BY <2>2, <1>9 DEF EndReadEof, Destroy
      <3>2. QED
        BY <3>1, <1>4
    <2>3. CASE JobsShutdown
      <3>1. cur \in Sock /\ state[cur] = "ONLINE" /\ ApeShutdown(cur, timers)
        BY <2>3, <1>9 DEF JobsShutdown
      <3>2. QED
        BY <3>1, <1>5
    <2>4. CASE ConnectRefused
      <3>1. cur \in Sock /\ state[cur] \in Opened /\ Destroy(cur, timers)
        BY <2>4, <1>9 DEF ConnectRefused, Opened
      <3>2. QED
        BY <3>1, <1>4
    <2>5. CASE ConnectDone
      <3>1. cur \in Sock /\ state[cur] \in Opened /\ "ONLINE" \in Opened
        BY <2>5, <1>9 DEF ConnectDone, Opened
      <3>2. QED
        BY <2>5, <3>1, <1>3 DEF ConnectDone
    <2>6. CASE \E s \in Sock : HandleServer(s) \/ HandleClient(s)
      BY <2>6, <1>1 DEF HandleServer, HandleClient
    <2>7. CASE Poll \/ EndAccept \/ EndRead \/ EndWrite \/ EndDispatch \/ JobsDone
      BY <2>7, <1>1 DEF Poll, EndAccept, EndRead, EndWrite, EndDispatch, JobsDone
    <2>8. QED
      BY <1>13, <2>1, <2>2, <2>3, <2>4, <2>5, <2>6, <2>7 DEF Dispatch
  <1>14. CASE Timers
    <2>1. ASSUME NEW t \in timers, TimerFree(t) PROVE Goal
      BY <2>1, <1>10 DEF TimerFree, LifeEnd, Moves
    <2>2. ASSUME NEW t \in timers, TimerDestroy(t) PROVE Goal
      BY <2>2, <1>10 DEF TimerDestroy, Close, LifeEnd, MovesTold
    <2>3. ASSUME NEW t \in timers, TimerDelay(t) PROVE Goal
      BY <2>3, <1>6, <1>10 DEF TimerDelay
    <2>4. ASSUME NEW t \in timers,
                 TimerDelayNotDue(t) \/ TimerConnected(t) \/ TimerParams(t)
          PROVE Goal
      BY <2>4, <1>1 DEF TimerDelayNotDue, TimerConnected, TimerParams
    <2>5. CASE EndTimers
      BY <2>5, <1>1 DEF EndTimers
    <2>6. QED
      BY <1>14, <2>1, <2>2, <2>3, <2>4, <2>5 DEF Timers
  <1>15. CASE UNCHANGED vars
    BY <1>15, <1>1 DEF vars
  <1>16. QED
    BY <1>11, <1>12, <1>13, <1>14, <1>15 DEF Next, Loop

\* A step of ApeSocket is a step of SocketLife, or leaves it where it is.
LEMMA LifeRefined ==
    ASSUME AppWaitsForConnected, IInv, [Next]_vars
    PROVE  [Life!Next]_(Life!lifeVars)
  <1> USE DEF Opened, Moves, MovesTold
  <1>1. /\ state \in [Sock -> States] /\ discs \in [Sock -> Nat]
        /\ \A s \in Sock : discs[s] > 0 <=> state[s] \in {"OFFLINE", "FREED"}
    BY DEF IInv, TypeOK, CoreTypeOK, DisconnectOnce
  <1>2. ASSUME NEW s \in Sock, discs' = [discs EXCEPT ![s] = @ + 1]
        PROVE  [r \in Sock |-> discs[r] > 0]'
                 = [[r \in Sock |-> discs[r] > 0] EXCEPT ![s] = TRUE]
    <2>1. (discs[s] > 0)' = TRUE
      BY <1>1, <1>2
    <2>2. \A r \in Sock \ {s} : (discs[r] > 0)' = (discs[r] > 0)
      BY <1>1, <1>2
    <2> QED
      BY <2>1, <2>2, Zenon
  <1>3. CASE LifeKept
    BY <1>1, <1>3 DEF LifeKept, Life!lifeVars
  <1>4. CASE LifeShut
    <2>1. PICK s \in Sock : /\ state[s] \in Opened /\ UNCHANGED discs
                            /\ state' = [state EXCEPT ![s] = "SHUTDOWN"]
      BY <1>4 DEF LifeShut
    <2>2. Life!Shut(s)
      BY <1>1, <2>1 DEF Life!Shut
    <2>3. QED
      BY <2>2 DEF Life!Next
  <1>5. CASE LifeClose
    <2>1. PICK s \in Sock : /\ state[s] \in Opened
                            /\ discs' = [discs EXCEPT ![s] = @ + 1]
                            /\ state' = [state EXCEPT ![s] = "OFFLINE"]
      BY <1>5 DEF LifeClose
    <2>2. Life!Close(s)
      BY <1>1, <1>2, <2>1 DEF Life!Close
    <2>3. QED
      BY <2>2 DEF Life!Next
  <1>6. CASE LifeBegin
    <2>1. PICK s \in Sock, x \in Opened :
                /\ state[s] = "UNALLOC" /\ UNCHANGED discs
                /\ state' = [state EXCEPT ![s] = x]
      BY <1>6 DEF LifeBegin
    <2>2. Life!Create(s)
      BY <1>1, <2>1 DEF Life!Create
    <2>3. QED
      BY <2>2 DEF Life!Next
  <1>7. CASE LifeEnd
    <2>1. PICK s \in Sock :
                /\ state' = [state EXCEPT ![s] = "FREED"]
                /\ \/ state[s] = "OFFLINE" /\ UNCHANGED discs
                   \/ /\ state[s] = "SHUTDOWN"
                      /\ discs' = [discs EXCEPT ![s] = @ + 1]
      BY <1>7 DEF LifeEnd
    <2>2. Life!Release(s)
      <3>1. [r \in Sock |-> discs[r] > 0]'
              = [[r \in Sock |-> discs[r] > 0] EXCEPT ![s] = TRUE]
        <4>1. CASE UNCHANGED discs
          <5>1. (discs[s] > 0)' = TRUE
            BY <1>1, <2>1, <4>1
          <5>2. \A r \in Sock : (discs[r] > 0)' = (discs[r] > 0)
            BY <4>1
          <5>3. QED
            BY <5>1, <5>2, Zenon
        <4>2. QED
          BY <2>1, <4>1, <1>2
      <3>2. (discs[s] > 0) = (state[s] = "OFFLINE")
        BY <1>1, <2>1
      <3>3. QED
        BY <1>1, <2>1, <3>1, <3>2 DEF Life!Release
    <2>3. QED
      BY <2>2 DEF Life!Next
  <1>8. QED
    BY <1>3, <1>4, <1>5, <1>6, <1>7, LifeStep

\* The safety half of the refinement LifeSpec: whatever the loop, the timers
\* and the resolver do, each socket goes through the life SocketLife allows.
THEOREM ImplementsLife ==
    ASSUME AppWaitsForConnected
    PROVE  Spec => Life!Init /\ [][Life!Next]_(Life!lifeVars)
  <1>1. Init => Life!Init
    <2> SUFFICES ASSUME Init PROVE Life!Init
      OBVIOUS
    <2>1. \A s \in Sock : (discs[s] > 0) = FALSE
      BY DEF Init
    <2>2. [s \in Sock |-> discs[s] > 0] = [s \in Sock |-> FALSE]
      BY <2>1, Zenon
    <2>3. QED
      BY <2>2 DEF Init, Life!Init
  <1>2. IInv /\ [Next]_vars => [Life!Next]_(Life!lifeVars)
    BY LifeRefined
  <1>3. QED
    BY <1>1, <1>2, Inductive, PTL DEF Spec

=============================================================================
