---------------------------- MODULE MCHttpServer ----------------------------
(* Model-checking instance of HttpServer. *)
EXTENDS HttpServer

\* The first connection sends enough to go through a request, an upgrade and
\* WebSocket data, the second enough to be answered
Sends == [c \in Conns |-> IF c = 1 THEN 3 ELSE 1]

=============================================================================
