----------------------------- MODULE MCWebSocket -----------------------------
(* Small instances of WebSocket.                                           *)
EXTENDS WebSocket, Bitwise

XorBits(a, b) == a ^^ b

\* Some payload of n bytes
Payload(n) == [i \in 1 .. n |-> (37 * i) % 256]

Shape(op, fin, len, wide) == [op |-> op, fin |-> fin, data |-> Payload(len), wide |-> wide]

\* Every kind of frame with the lengths around every threshold; the long
\* ones only as whole messages
ServerShapes ==
    {Shape(1, TRUE, n, 0) : n \in {0, 5, 125}}
    \cup {Shape(1, TRUE, n, 2) : n \in {126, 258}}
    \cup {Shape(2, FALSE, 2, 0), Shape(0, FALSE, 0, 0), Shape(0, TRUE, 3, 8)}
    \cup {Shape(Ping, TRUE, n, 0) : n \in {0, 6}}
    \cup {Shape(Pong, TRUE, 1, 0), Shape(Close, TRUE, 2, 0), Shape(3, TRUE, 1, 0)}

\* The one-byte lengths only
ShortShapes == {sh \in ServerShapes : sh.wide = 0}

KeyAt(a, b, c, d) == [i \in 0 .. 3 |-> <<a, b, c, d>>[i + 1]]
TwoKeys == {KeyAt(17, 255, 0, 128), KeyAt(3, 4, 5, 6)}

=============================================================================
