------------------------------ MODULE WebSocket ------------------------------
(***************************************************************************)
(* One WebSocket connection of websocket.zig: the parser process_data, fed *)
(* byte by byte with the frames of a peer, and the writer writev that      *)
(* answers from the callbacks.  The application answers a message by       *)
(* echoing it, by failing (which closes the connection) or not at all.     *)
(*                                                                         *)
(* Bytes are numbers.  The bytes of an extended length are added up most   *)
(* significant first, which is what collecting them low byte first and     *)
(* swapping them at the end computes; nothing reads the length before.     *)
(***************************************************************************)
EXTENDS Integers, Sequences

CONSTANTS
    ByteXor(_, _),   \* the ^ of two bytes
    Shapes,      \* what a peer that masks (a client) may send: records
                 \* [op, fin, data, wide], with wide the number of extended
                 \* length bytes: 0, 2 or 8
    BareShapes,  \* what a peer that does not mask may send
    Keys,        \* masking keys
    MaxFrames    \* bound: frames the peer sends

Bytes == 0 .. 255
Data  == {0, 1, 2}          \* continuation, text, binary
Close == 8
Ping  == 9
Pong  == 10

\* n \div 256^k for every k
Shifts(n) ==
    LET s[k \in 0 .. 8] == IF k = 0 THEN n ELSE s[k - 1] \div 256 IN s

\* The length has a place in the bytes it is given
Fits(sh) ==
    IF sh.wide = 0 THEN Len(sh.data) < 126 ELSE Shifts(Len(sh.data))[sh.wide] = 0

ASSUME WebSocketAssumption ==
    /\ \A sh \in Shapes \cup BareShapes :
         /\ sh = [op |-> sh.op, fin |-> sh.fin, data |-> sh.data, wide |-> sh.wide]
         /\ sh.op \in 0 .. 15 /\ sh.fin \in BOOLEAN
         /\ sh.data \in Seq(Bytes) /\ sh.wide \in {0, 2, 8} /\ Fits(sh)
    /\ Keys \subseteq [0 .. 3 -> Bytes]
    /\ MaxFrames \in Nat

\* What makes ^ a cipher
ASSUME XorAssumption ==
    \A a, b \in Bytes : ByteXor(a, b) \in Bytes /\ ByteXor(ByteXor(a, b), b) = a /\ ByteXor(a, 0) = a

VARIABLES
    p,        \* WebSocketState: step, header, lenPos, length, masking, key,
              \* pos, inkey, buf
    closed,   \* WebSocketClient.closed
    shut,     \* calls of client.close(.queue)
    out,      \* frames written: [head, data]
    log,      \* on_message calls: [data, state]
    masks,    \* the peer masks its frames
    cur,      \* the frame the peer is sending
    in,       \* its bytes still to come
    done      \* the frames it has sent in full, with the application's answer

vars == <<p, closed, shut, out, log, masks, cur, in, done>>

NoFrame == [op |-> -1]

Init ==
    /\ p = [step |-> "start", header |-> 0, lenPos |-> 0, length |-> 0,
            masking |-> FALSE, key |-> [i \in 0 .. 3 |-> 0], pos |-> 0,
            inkey |-> 0, buf |-> <<>>]
    /\ closed = FALSE /\ shut = 0
    /\ out = <<>> /\ log = <<>>
    /\ masks \in BOOLEAN
    /\ cur = NoFrame /\ in = <<>> /\ done = <<>>

-----------------------------------------------------------------------------
(* The peer (external): RFC 6455 frames.                                   *)

\* n as w bytes, most significant first
BigEndian(n, w) == [i \in 1 .. w |-> Shifts(n)[w - i] % 256]

LengthByte(sh) ==
    IF sh.wide = 0 THEN Len(sh.data) ELSE IF sh.wide = 2 THEN 126 ELSE 127

FrameBytes(sh, key) ==
    <<(IF sh.fin THEN 128 ELSE 0) + sh.op, (IF masks THEN 128 ELSE 0) + LengthByte(sh)>>
    \o BigEndian(Len(sh.data), sh.wide)
    \o (IF masks THEN [i \in 1 .. 4 |-> key[i - 1]] ELSE <<>>)
    \o [i \in 1 .. Len(sh.data) |->
          IF masks THEN ByteXor(sh.data[i], key[(i - 1) % 4]) ELSE sh.data[i]]

PeerSends ==
    /\ in = <<>> /\ Len(done) < MaxFrames
    /\ \E sh \in IF masks THEN Shapes ELSE BareShapes, key \in Keys :
         /\ cur' = sh
         /\ in' = FrameBytes(sh, key)
    /\ UNCHANGED <<p, closed, shut, out, log, masks, done>>

-----------------------------------------------------------------------------
(* The writer.                                                             *)

\* A mutant: lengths up to 126 go into the one-byte form.
HeadOffByOne(op, n) ==
    IF n <= 126 THEN <<128 + op, n>>
    ELSE IF n <= 65535 THEN <<128 + op, 126>> \o BigEndian(n, 2)
    ELSE IF Shifts(n)[4] = 0 THEN <<128 + op, 127>> \o BigEndian(n, 8)
    ELSE <<>>

\* What a server writes of payload_head: nothing from 2^32 on
PayloadHead(op, n) ==
    IF n <= 125 THEN <<128 + op, n>>
    ELSE IF n <= 65535 THEN <<128 + op, 126>> \o BigEndian(n, 2)
    ELSE IF Shifts(n)[4] = 0 THEN <<128 + op, 127>> \o BigEndian(n, 8)
    ELSE <<>>

\* writev: nothing once closed
Written(op, data) ==
    IF closed THEN out ELSE Append(out, [head |-> PayloadHead(op, Len(data)), data |-> data])

\* A mutant: closing does not look at `closed'.
ClientCloseAlways == closed' = TRUE /\ shut' = shut + 1 /\ UNCHANGED out

\* close: `closed' is set before the close frame is written, so that the
\* frame is not written
ClientClose ==
    /\ closed' = TRUE
    /\ shut' = IF closed THEN shut ELSE shut + 1
    /\ UNCHANGED out

-----------------------------------------------------------------------------
(* The parser.                                                             *)

FrameState(q) ==
    IF q.header \div 16 = 8 THEN "finish"
    ELSE IF q.header % 16 = 0 THEN "continue" ELSE "start"

\* on_message, and what the application answers
OnMessage(q, answer) ==
    /\ log' = Append(log, [data |-> q.buf, state |-> FrameState(q)])
    /\ \/ answer = "none" /\ UNCHANGED <<closed, shut, out>>
       \/ answer = "echo" /\ out' = Written(1, q.buf) /\ UNCHANGED <<closed, shut>>
       \/ answer = "fail" /\ ClientClose

\* end_message with the parser at q
EndMessage(q, answer) ==
    /\ p' = [q EXCEPT !.step = "start"]
    /\ LET opcode == q.header % 16
       IN  \/ opcode \in Data /\ OnMessage(q, answer)
           \/ opcode = Close /\ ClientClose /\ UNCHANGED log
           \/ opcode = Ping /\ out' = Written(Pong, q.buf) /\ UNCHANGED <<closed, shut, log>>
           \/ opcode \notin Data \cup {Close, Ping} /\ UNCHANGED <<closed, shut, out, log>>

Goes(q) == p' = q /\ UNCHANGED <<closed, shut, out, log>>

\* A mutant: the position in the key is kept over frames.
StartKeepsKeyPos(b) ==
    /\ p.step = "start"
    /\ Goes([p EXCEPT !.header = b, !.step = "length", !.pos = 0,
                      !.lenPos = 0, !.length = 0, !.buf = <<>>])

StepStart(b) ==
    /\ p.step = "start"
    /\ Goes([p EXCEPT !.header = b, !.step = "length", !.inkey = 0, !.pos = 0,
                      !.lenPos = 0, !.length = 0, !.buf = <<>>])

AfterLength(q) == [q EXCEPT !.step = IF q.masking THEN "key" ELSE "data"]

\* An unmasked frame whose length is still 0 ends here, also when the length
\* is yet to come
StepLength(b, answer) ==
    /\ p.step = "length"
    /\ LET m == [p EXCEPT !.masking = b >= 128]
           q == IF b % 128 = 126 THEN [m EXCEPT !.step = "short"]
                ELSE IF b % 128 = 127 THEN [m EXCEPT !.step = "extended"]
                ELSE AfterLength([m EXCEPT !.length = b % 128])
       IN  IF ~q.masking /\ q.length = 0 THEN EndMessage(q, answer) ELSE Goes(q)

\* A mutant: seven bytes make an extended length.
LengthBytesSeven(step) == IF step = "short" THEN 2 ELSE 7

LengthBytes(step) == IF step = "short" THEN 2 ELSE 8

\* A number with one more byte behind it
Wider(n, b) == 256 * n + b

StepLengthByte(b) ==
    /\ p.step \in {"short", "extended"}
    /\ LET q == [p EXCEPT !.length = Wider(@, b)]
       IN  IF p.lenPos = LengthBytes(p.step) - 1 THEN Goes(AfterLength(q))
           ELSE Goes([q EXCEPT !.lenPos = @ + 1])

\* A mutant: an empty masked frame is not ended with its key.
StepKeyNoEmpty(b, answer) ==
    /\ p.step = "key"
    /\ LET q == [p EXCEPT !.key[p.pos] = b]
       IN  IF p.pos < 3 THEN Goes([q EXCEPT !.pos = @ + 1])
                        ELSE Goes([q EXCEPT !.step = "data"])

StepKey(b, answer) ==
    /\ p.step = "key"
    /\ LET q == [p EXCEPT !.key[p.pos] = b]
       IN  IF p.pos < 3 THEN Goes([q EXCEPT !.pos = @ + 1])
           ELSE IF p.length = 0 THEN EndMessage([q EXCEPT !.step = "data"], answer)
           ELSE Goes([q EXCEPT !.step = "data"])

StepData(b, answer) ==
    /\ p.step = "data"
    /\ LET q == [p EXCEPT !.buf = Append(@, ByteXor(b, p.key[p.inkey]))]
       IN  IF Len(q.buf) = p.length THEN EndMessage(q, answer)
           ELSE Goes([q EXCEPT !.inkey = (@ + 1) % 4])

\* process_data takes a byte; the last one of a frame is where the peer
\* stands at a boundary
ProcessByte(answer) ==
    /\ in # <<>>
    /\ in' = Tail(in)
    /\ LET b == Head(in)
       IN  \/ StepStart(b) \/ StepLength(b, answer) \/ StepLengthByte(b)
           \/ StepKey(b, answer) \/ StepData(b, answer)
    /\ done' = IF in' = <<>> THEN Append(done, [frame |-> cur, answer |-> answer])
               ELSE done
    /\ UNCHANGED <<cur, masks>>

\* The application's answer matters with the last byte of a data frame only
Answers ==
    IF Len(in) = 1 /\ cur.op \in Data THEN {"none", "echo", "fail"} ELSE {"none"}

Next == PeerSends \/ \E answer \in Answers : ProcessByte(answer)

Spec == Init /\ [][Next]_vars

-----------------------------------------------------------------------------
(* Properties.                                                             *)

\* The type invariant: counters stay in the widths the structure gives them
\* (u2, u3), and the buffer never outgrows the frame.
TypeOK ==
    /\ p.step \in {"start", "length", "short", "extended", "key", "data"}
    /\ p.header \in Bytes /\ p.length \in Nat
    /\ p.masking \in BOOLEAN /\ p.key \in [0 .. 3 -> Bytes]
    /\ p.pos \in 0 .. 3 /\ p.inkey \in 0 .. 3 /\ p.lenPos \in 0 .. 7
    /\ p.step = "data" => Len(p.buf) <= p.length
    /\ closed \in BOOLEAN /\ shut \in Nat

\* The parser stands between two frames exactly when the peer does: no
\* length form, mask or empty payload makes process_data run ahead of the
\* stream or stay behind it.
InSync ==
    p.step = "start" <=>
        in = <<>> \/ Len(in) = 2 + cur.wide + Len(cur.data) + (IF masks THEN 4 ELSE 0)

\* The list of the numbers of I in ascending order, if there are n
Ascending(I, n) ==
    {f \in [1 .. n -> I] : /\ \A a, b \in 1 .. n : a < b => f[a] < f[b]
                           /\ \A i \in I : \E a \in 1 .. n : f[a] = i}

\* What the message of a frame received in full should look like
MessageOf(f) ==
    [data  |-> f.data,
     state |-> IF f.fin THEN "finish" ELSE IF f.op = 0 THEN "continue" ELSE "start"]

DataFrames == {i \in DOMAIN done : done[i].frame.op \in Data}

\* on_message has been called for exactly the data frames received in full,
\* in order, with the payload unmasked and the fragment's place in the
\* message (process_data, end_message), whatever control frames were mixed in.
Delivered ==
    \E f \in Ascending(DataFrames, Len(log)) :
        \A j \in DOMAIN log : log[j] = MessageOf(done[f[j]].frame)

\* How a peer reads the frame header, from RFC 6455
HeadSays(h, op, n) ==
    /\ h[1] = 128 + op
    /\ \/ h[2] < 126 /\ Len(h) = 2 /\ n = h[2]
       \/ h[2] = 126 /\ Len(h) = 4 /\ n = Wider(h[3], h[4])
       \/ h[2] = 127 /\ Len(h) = 10
          /\ n = Wider(Wider(Wider(Wider(Wider(Wider(Wider(h[3], h[4]), h[5]), h[6]), h[7]),
                                         h[8]), h[9]), h[10])

Ends(d) == d.frame.op = Close \/ d.answer = "fail"
Replies(d) == d.frame.op = Ping \/ d.answer = "echo"

\* The frames that are to be answered: none from the one that ends it on
Answered == {i \in DOMAIN done : Replies(done[i]) /\ \A j \in 1 .. i : ~Ends(done[j])}

\* What was written is one pong per ping, with its payload, and one text
\* frame per message echoed, in order, each with a header the peer reads
\* correctly, and nothing after the connection was closed (writev, pong,
\* close).
RepliesRight ==
    \E f \in Ascending(Answered, Len(out)) :
        \A j \in DOMAIN out :
            LET d == done[f[j]].frame
            IN  /\ out[j].data = d.data
                /\ HeadSays(out[j].head, IF d.op = Ping THEN Pong ELSE 1, Len(d.data))

\* However often the peer and the application end the connection, the socket
\* is asked to shut down once, and as soon as one of them did (close).
ClosedOnce ==
    shut = IF \E i \in DOMAIN done : Ends(done[i]) THEN 1 ELSE 0

=============================================================================
