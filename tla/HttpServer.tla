----------------------------- MODULE HttpServer -----------------------------
(***************************************************************************)
(* The connections of http.zig, from the bytes the kernel holds to what    *)
(* the handlers are told: the read loop of ape_socket_read with its        *)
(* growing buffer, the request context of each connection, taken from a    *)
(* pool and given back, the parser's verdict on each read, the answer, the *)
(* switch to the WebSocket parser, and the end of the connection.          *)
(*                                                                         *)
(* A peer sends units of data: a part of a request ("part"), the end of    *)
(* one ("end"), the end of a request to upgrade ("upg"), or data that is   *)
(* no request ("bad").  After the upgrade all of them are WebSocket data   *)
(* (module WebSocket).  Data is known by its position in the stream.       *)
(* Output is ApeSocketJobs' matter: a shutdown behind pending output takes *)
(* place at some later time.                                               *)
(***************************************************************************)
EXTENDS Integers, FiniteSetsExt, SequencesExt

CONSTANTS
    Conns,         \* connections at a time
    Contexts,      \* request contexts there is memory for
    Tokens,        \* what a peer sends
    Chunk,         \* the room ape_socket_read asks for, 2048 in the code
    MaxSent,       \* bound: units sent on each connection
    MaxTotal       \* bound: units sent on the connections there are

ASSUME HttpAssumption ==
    /\ 0 \notin Conns /\ 0 \notin Contexts
    /\ Tokens \subseteq {"part", "end", "upg", "bad"}
    /\ Chunk \in Nat \ {0} /\ MaxSent \in [Conns -> Nat] /\ MaxTotal \in Nat

VARIABLES
    st,        \* states.state of the connection's socket, "none" if there is none
    sent,      \* what the peer has sent
    ended,     \* the peer has closed its side
    got,       \* how much of it read() has returned
    size,      \* data_in.size
    data,      \* data_in up to data_in.used: positions in sent
    ctx,       \* socket->ctx, 0 for NULL
    mem,       \* the request context at each place of the pool
    closing,   \* connections with a shutdown behind pending output
    cur,       \* the connection being read, 0 for none
    phase,     \* where ape_socket_read is
    why,       \* how its loop ended: "again", "eof" or "error"
    given,     \* history: the positions handed to on_read
    answers,   \* history: responses written
    upgrades,  \* history: for each 101 response, how much on_read had been given
    wsgiven    \* history: the positions handed to the WebSocket parser

peerVars == <<sent, ended>>
readVars == <<got, size, data>>
loopVars == <<cur, phase, why>>
httpVars == <<ctx, mem, closing, answers, upgrades, wsgiven>>
vars     == <<st, peerVars, readVars, loopVars, httpVars, given>>

Free == [client |-> 0, done |-> FALSE, responded |-> FALSE, parser |-> "ok",
         ws |-> FALSE, user |-> FALSE]

Context == [client : Conns \cup {0}, done : BOOLEAN, responded : BOOLEAN,
            parser : {"ok", "upg", "bad"}, ws : BOOLEAN, user : BOOLEAN]

\* HttpRequestCtx.init
NewContext(c) == [Free EXCEPT !.client = c]

Init ==
    /\ st = [c \in Conns |-> "none"]
    /\ sent = [c \in Conns |-> <<>>] /\ ended = {}
    /\ got = [c \in Conns |-> 0] /\ size = [c \in Conns |-> 0] /\ data = [c \in Conns |-> <<>>]
    /\ ctx = [c \in Conns |-> 0] /\ mem = [k \in Contexts |-> Free]
    /\ closing = {}
    /\ cur = 0 /\ phase = "idle" /\ why = "again"
    /\ given = [c \in Conns |-> <<>>] /\ wsgiven = [c \in Conns |-> <<>>]
    /\ answers = [c \in Conns |-> 0] /\ upgrades = [c \in Conns |-> <<>>]

-----------------------------------------------------------------------------
(* The peer and the pool.  What a peer does matters by the event or the     *)
(* read() of its own connection that it comes before: it acts then, and     *)
(* between two events.                                                      *)

PeerActs(c) ==
    /\ st[c] # "none" /\ c \notin ended
    /\ phase = "idle" \/ (phase = "reading" /\ c = cur)

PeerSends(c, t) ==
    /\ PeerActs(c)
    /\ Len(sent[c]) < MaxSent[c]
    /\ MapThenSumSet(LAMBDA d : Len(sent[d]), Conns) < MaxTotal
    /\ sent' = [sent EXCEPT ![c] = Append(@, t)]
    /\ UNCHANGED <<st, ended, readVars, loopVars, httpVars, given>>

PeerCloses(c) ==
    /\ PeerActs(c)
    /\ ended' = ended \cup {c}
    /\ UNCHANGED <<st, sent, readVars, loopVars, httpVars, given>>

\* ape_socket_accept and connect(): the pool may be out of memory, and then
\* the connection has no context
Connect(c) ==
    /\ phase = "idle" /\ st[c] = "none"
    /\ st' = [st EXCEPT ![c] = "online"]
    /\ \/ /\ \A k \in Contexts : mem[k] # Free
          /\ UNCHANGED <<ctx, mem>>
       \/ \E k \in Contexts :
            /\ mem[k] = Free
            /\ ctx' = [ctx EXCEPT ![c] = k] /\ mem' = [mem EXCEPT ![k] = NewContext(c)]
    /\ UNCHANGED <<peerVars, readVars, loopVars, closing, given, answers, upgrades, wsgiven>>

\* Mutant: the context goes back to the pool only if a handler was made
DisconnectUsed(c) ==
    /\ mem' = IF ctx[c] = 0 \/ ~mem[ctx[c]].user THEN mem ELSE [mem EXCEPT ![ctx[c]] = Free]
    /\ st' = [st EXCEPT ![c] = "none"] /\ ctx' = [ctx EXCEPT ![c] = 0]
    /\ sent' = [sent EXCEPT ![c] = <<>>] /\ ended' = ended \ {c}
    /\ got' = [got EXCEPT ![c] = 0] /\ size' = [size EXCEPT ![c] = 0]
    /\ data' = [data EXCEPT ![c] = <<>>] /\ given' = [given EXCEPT ![c] = <<>>]
    /\ answers' = [answers EXCEPT ![c] = 0] /\ upgrades' = [upgrades EXCEPT ![c] = <<>>]
    /\ wsgiven' = [wsgiven EXCEPT ![c] = <<>>] /\ closing' = closing \ {c}

\* ape_socket_close with disconnect(): the handler and the context are
\* released, the socket is closed, and all that belonged to it is gone
Disconnect(c) ==
    /\ mem' = IF ctx[c] = 0 THEN mem ELSE [mem EXCEPT ![ctx[c]] = Free]
    /\ st' = [st EXCEPT ![c] = "none"] /\ ctx' = [ctx EXCEPT ![c] = 0]
    /\ sent' = [sent EXCEPT ![c] = <<>>] /\ ended' = ended \ {c}
    /\ got' = [got EXCEPT ![c] = 0] /\ size' = [size EXCEPT ![c] = 0]
    /\ data' = [data EXCEPT ![c] = <<>>] /\ given' = [given EXCEPT ![c] = <<>>]
    /\ answers' = [answers EXCEPT ![c] = 0] /\ upgrades' = [upgrades EXCEPT ![c] = <<>>]
    /\ wsgiven' = [wsgiven EXCEPT ![c] = <<>>] /\ closing' = closing \ {c}

-----------------------------------------------------------------------------
(* ape_socket_read up to on_read.                                          *)

ReadEvent(c) ==
    /\ phase = "idle" /\ st[c] = "online"
    /\ got[c] < Len(sent[c]) \/ c \in ended
    /\ cur' = c /\ phase' = "reading"
    /\ UNCHANGED <<st, why, peerVars, readVars, httpVars, given>>

\* Mutant: no room is made while some is left over
PreparedNone(c) == IF size[c] = 0 THEN Chunk ELSE size[c]

\* buffer_prepare
Prepared(c) ==
    IF size[c] = 0 THEN Chunk
    ELSE IF Len(data[c]) + Chunk > size[c] THEN size[c] + Chunk ELSE size[c]

\* read() returns n units
ReadSome(n) ==
    /\ phase = "reading"
    /\ n <= Prepared(cur) - Len(data[cur]) /\ n <= Len(sent[cur]) - got[cur]
    /\ size' = [size EXCEPT ![cur] = Prepared(cur)]
    /\ data' = [data EXCEPT ![cur] = @ \o [i \in 1 .. n |-> got[cur] + i]]
    /\ got' = [got EXCEPT ![cur] = @ + n]
    /\ UNCHANGED <<st, peerVars, loopVars, httpVars, given>>

\* It returns 0, at the end of the stream or for want of room, EAGAIN, or an
\* error: the loop is left
ReadStops(w) ==
    /\ phase = "reading"
    /\ LET drained == got[cur] = Len(sent[cur])
           full == Prepared(cur) = Len(data[cur])
       IN  CASE w = "again" -> drained /\ ~full /\ cur \notin ended
             [] w = "eof"   -> full \/ (drained /\ cur \in ended)
             [] w = "error" -> ~full
    /\ size' = [size EXCEPT ![cur] = Prepared(cur)]
    /\ why' = w /\ phase' = "data"
    /\ UNCHANGED <<st, got, data, cur, peerVars, httpVars, given>>

-----------------------------------------------------------------------------
(* ondata(), called by on_read with all that was read.                     *)

Here == mem[ctx[cur]]

\* The data is handed to on_read and the buffer is empty again
HandOver ==
    /\ given' = [given EXCEPT ![cur] = @ \o data[cur]]
    /\ data' = [data EXCEPT ![cur] = <<>>]

\* What ends a call of ondata
Return ==
    /\ phase = "data" /\ data[cur] # <<>>
    /\ HandOver
    /\ phase' = "after"
    /\ UNCHANGED <<got, size, peerVars, cur, why, ctx>>

\* client.close(.queue): at once, or behind pending output
CloseQueued(c) ==
    \/ /\ st' = [st EXCEPT ![c] = "shutdown"] /\ UNCHANGED closing
    \/ /\ closing' = closing \cup {c} /\ UNCHANGED st

\* Mutant: every call of response answers
ResponseAgain(c, m, close) ==
    /\ mem' = [mem EXCEPT ![ctx[c]] = [m EXCEPT !.responded = TRUE]]
    /\ answers' = [answers EXCEPT ![c] = @ + 1]
    /\ UNCHANGED <<st, closing>>

\* response(): the first answers, with a close or without; m is the context
\* as the caller leaves it
Response(c, m, close) ==
    /\ mem' = [mem EXCEPT ![ctx[c]] = [m EXCEPT !.responded = TRUE]]
    /\ IF m.responded THEN UNCHANGED <<st, closing, answers>>
       ELSE /\ answers' = [answers EXCEPT ![c] = @ + 1]
            /\ IF close THEN CloseQueued(c) ELSE UNCHANGED <<st, closing>>

\* What a handler does with its client before it returns: it answers, with a
\* close or without, closes without an answer, now or behind the output, or
\* puts both off
HandlerActs(c, m) ==
    \/ \E close \in BOOLEAN : Response(c, m, close)
    \/ /\ mem' = [mem EXCEPT ![ctx[c]] = m]
       /\ UNCHANGED <<st, closing>> \/ CloseQueued(c)
       /\ UNCHANGED answers

\* A connection without a context is closed
DataNoContext ==
    /\ Return /\ ctx[cur] = 0
    /\ st' = [st EXCEPT ![cur] = "shutdown"]
    /\ UNCHANGED <<mem, closing, answers, upgrades, wsgiven>>

\* Mutant: data behind a queued close is not looked at
DataWebSocketDrops ==
    /\ Return /\ ctx[cur] # 0 /\ Here.ws
    /\ wsgiven' = IF cur \in closing THEN wsgiven
                  ELSE [wsgiven EXCEPT ![cur] = @ \o data[cur]]
    /\ \/ UNCHANGED <<st, closing, mem, answers>>
       \/ CloseQueued(cur) /\ UNCHANGED <<mem, answers>>
       \/ Response(cur, Here, TRUE)
    /\ UNCHANGED upgrades

\* The WebSocket parser gets the data.  A handler that fails, or a close
\* frame, closes; a parser out of memory is answered for like a bad request.
DataWebSocket ==
    /\ Return /\ ctx[cur] # 0 /\ Here.ws
    /\ wsgiven' = [wsgiven EXCEPT ![cur] = @ \o data[cur]]
    /\ \/ UNCHANGED <<st, closing, mem, answers>>
       \/ CloseQueued(cur) /\ UNCHANGED <<mem, answers>>
       \/ Response(cur, Here, TRUE)
    /\ UNCHANGED upgrades

\* llhttp_execute: it stops at an upgrade and at data that is no request, and
\* a parser that has stopped gives the same answer to all that follows.
\* http_on_message_complete sets done, which nothing resets.
Unit(i) == sent[cur][data[cur][i]]

StopsAt == {i \in DOMAIN data[cur] : Unit(i) \in {"upg", "bad"}}

Verdict == IF StopsAt = {} THEN "ok"
           ELSE IF Unit(Min(StopsAt)) = "upg" THEN "upg" ELSE "bad"

Completes ==
    \E i \in DOMAIN data[cur] :
        Unit(i) \in {"end", "upg"} /\ \A j \in StopsAt : i <= j

Parsed(m) ==
    IF m.parser # "ok" THEN m
    ELSE [m EXCEPT !.done = m.done \/ Completes, !.parser = Verdict]

ToParser == Return /\ ctx[cur] # 0 /\ ~Here.ws

DataMore ==
    /\ ToParser /\ Parsed(Here).parser = "ok" /\ ~Parsed(Here).done
    /\ mem' = [mem EXCEPT ![ctx[cur]] = Parsed(Here)]
    /\ UNCHANGED <<st, closing, answers, upgrades, wsgiven>>

\* A parse error is answered with 400
DataBad ==
    /\ ToParser /\ Parsed(Here).parser = "bad"
    /\ Response(cur, Parsed(Here), TRUE)
    /\ UNCHANGED <<upgrades, wsgiven>>

\* onRequest of a new handler.  When it fails, and when there is no memory for
\* it, 400 is the answer.
DataDone ==
    /\ ToParser /\ Parsed(Here).parser = "ok" /\ Parsed(Here).done
    /\ \/ HandlerActs(cur, [Parsed(Here) EXCEPT !.user = TRUE])
       \/ Response(cur, Parsed(Here), TRUE)
    /\ UNCHANGED <<upgrades, wsgiven>>

\* A request to upgrade: there is no memory for a handler, it refuses or the
\* key is missing, and 400 is the answer unless the handler gave one; or
\* acceptWebSocket goes through.  The handler may have answered and closed
\* before either.  What follows the request in the same read is lost.
DataUpgrade ==
    /\ ToParser /\ Parsed(Here).parser = "upg"
    /\ LET m == [Parsed(Here) EXCEPT !.user = TRUE]
       IN  \/ /\ Response(cur, Parsed(Here), TRUE)
             /\ UNCHANGED upgrades
          \/ /\ \E close \in BOOLEAN : Response(cur, m, close)
             /\ UNCHANGED upgrades
          \/ /\ HandlerActs(cur, [m EXCEPT !.ws = TRUE])
             /\ upgrades' = [upgrades EXCEPT ![cur] = Append(@, Len(given'[cur]))]
    /\ UNCHANGED wsgiven

NoData ==
    /\ phase = "data" /\ data[cur] = <<>>
    /\ phase' = "after"
    /\ UNCHANGED <<st, cur, why, peerVars, readVars, httpVars, given>>

\* Mutant: a connection with a shutdown behind its output is left to that
ReadClosesNoQueue ==
    /\ phase = "after" /\ why # "again" /\ st[cur] # "shutdown"
    /\ IF cur \in closing THEN UNCHANGED <<st, peerVars, readVars, httpVars, given>>
       ELSE Disconnect(cur)
    /\ phase' = "idle" /\ cur' = 0 /\ why' = "again"

\* The end of ape_socket_read: a stream that ended or failed is closed unless
\* a shutdown is under way
ReadCloses ==
    /\ phase = "after" /\ why # "again" /\ st[cur] # "shutdown"
    /\ Disconnect(cur)
    /\ phase' = "idle" /\ cur' = 0 /\ why' = "again"

ReadReturns ==
    /\ phase = "after" /\ (why = "again" \/ st[cur] = "shutdown")
    /\ phase' = "idle" /\ cur' = 0 /\ why' = "again"
    /\ UNCHANGED <<st, peerVars, readVars, httpVars, given>>

-----------------------------------------------------------------------------
(* Between two reads.                                                      *)

\* A handler that put its answer off gives it.  It does so while it lives and
\* the connection is not a WebSocket.
AnswerLater(c, close) ==
    /\ phase = "idle" /\ st[c] = "online" /\ ctx[c] # 0
    /\ mem[ctx[c]].user /\ ~mem[ctx[c]].ws
    /\ Response(c, mem[ctx[c]], close)
    /\ UNCHANGED <<peerVars, readVars, loopVars, ctx, given, upgrades, wsgiven>>

\* The output is gone and the shutdown behind it takes place
OutputGone(c) ==
    /\ phase = "idle" /\ st[c] = "online" /\ c \in closing
    /\ st' = [st EXCEPT ![c] = "shutdown"]
    /\ UNCHANGED <<peerVars, readVars, loopVars, httpVars, given>>

\* A handler closes, now or behind the output, from a timer or from another
\* connection's read
HandlerCloses(c) ==
    /\ phase = "idle" /\ st[c] = "online"
    /\ ctx[c] # 0 /\ mem[ctx[c]].user
    /\ CloseQueued(c)
    /\ UNCHANGED <<peerVars, readVars, loopVars, ctx, mem, given, answers, upgrades, wsgiven>>

\* The timer of ape_socket_destroy_async
Expire(c) ==
    /\ phase = "idle" /\ st[c] = "shutdown"
    /\ Disconnect(c)
    /\ UNCHANGED loopVars

-----------------------------------------------------------------------------
OnData == DataNoContext \/ DataWebSocket \/ DataMore \/ DataBad \/ DataDone
          \/ DataUpgrade \/ NoData

Read ==
    \/ \E c \in Conns : \E n \in 1 .. MaxSent[c] : c = cur /\ ReadSome(n)
    \/ \E w \in {"again", "eof", "error"} : ReadStops(w)
    \/ OnData \/ ReadCloses \/ ReadReturns

Next ==
    \/ Read
    \/ \E c \in Conns :
         \/ Connect(c) \/ PeerCloses(c) \/ ReadEvent(c)
         \/ OutputGone(c) \/ HandlerCloses(c) \/ Expire(c)
         \/ \E t \in Tokens : PeerSends(c, t)
         \/ \E close \in BOOLEAN : AnswerLater(c, close)

\* The read of a socket runs to its end.  Every turn of the loop reports every
\* connection that is ready and runs the timers that are due; a connection has
\* one or the other coming, never both.
Spec ==
    /\ Init /\ [][Next]_vars
    /\ WF_vars(Read)
    /\ \A c \in Conns : SF_vars(ReadEvent(c) \/ Expire(c))

-----------------------------------------------------------------------------
(* Properties.                                                             *)

TypeOK ==
    /\ st \in [Conns -> {"none", "online", "shutdown"}]
    /\ ctx \in [Conns -> Contexts \cup {0}]
    /\ mem \in [Contexts -> Context]
    /\ closing \subseteq Conns /\ ended \subseteq Conns
    /\ cur \in Conns \cup {0} /\ phase \in {"idle", "reading", "data", "after"}
    /\ cur = 0 <=> phase = "idle"

\* However the stream is cut into reads and the buffer grows, on_read is given
\* every unit once and in order, none is left behind in the buffer when the
\* read is over, and the connection is taken for ended only if the peer ended
\* it and all it sent was read: a read() into no room returns 0 as well.
ReadFaithful ==
    /\ \A c \in Conns :
         /\ given[c] \o data[c] = [i \in 1 .. got[c] |-> i]
         /\ phase = "idle" => data[c] = <<>>
    /\ phase \in {"data", "after"} /\ why = "eof" =>
         cur \in ended /\ got[cur] = Len(sent[cur])

\* A context belongs to one connection, the one its client pointer names, for
\* as long as that is not disconnected, and no place of the pool is lost:
\* each is free or some connection's, whatever ended the connections before.
ContextOwned ==
    /\ \A c \in Conns : ctx[c] # 0 => st[c] # "none" /\ mem[ctx[c]].client = c
    /\ \A k \in Contexts : mem[k] # Free => \E c \in Conns : ctx[c] = k
    /\ \A c, d \in Conns : ctx[c] = ctx[d] /\ ctx[c] # 0 => c = d

\* A connection gets at most one response and at most one 101, though done,
\* responded and the parser's verdict are never reset and each further read
\* calls a handler again; and no response before a whole request or an error
\* was read.
AnsweredOnce ==
    \A c \in Conns :
        /\ answers[c] <= 1 /\ Len(upgrades[c]) <= 1
        /\ answers[c] > 0 \/ upgrades[c] # <<>> =>
             \E i \in DOMAIN given[c] : sent[c][given[c][i]] # "part"

\* What the WebSocket parser is given is all the stream holds behind the read
\* in which the upgrade was accepted, in order, a close being queued or not,
\* and nothing before an upgrade was asked for: no later read is lost to the
\* switch, given to both parsers, or given twice.
SwitchClean ==
    \A c \in Conns :
        IF upgrades[c] = <<>> THEN wsgiven[c] = <<>>
        ELSE LET before == SubSeq(given[c], 1, upgrades[c][1])
             IN  /\ given[c] = before \o wsgiven[c]
                 /\ \E i \in DOMAIN before : sent[c][before[i]] = "upg"

\* A connection whose peer closes is disconnected in the end, and its context
\* released, whatever its handlers put off and whatever output is pending.
PeerCloseEnds == \A c \in Conns : c \in ended ~> st[c] = "none"

=============================================================================
