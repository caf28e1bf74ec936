------------------------- MODULE HttpServer_proofs -------------------------
(***************************************************************************)
(* Proofs about HttpServer, for any set of connections, any number of      *)
(* request contexts and whatever the peers send: no bound of the runs is   *)
(* used.                                                                   *)
(***************************************************************************)
EXTENDS HttpServer, SequenceTheorems, WellFoundedInduction, TLAPS

-----------------------------------------------------------------------------
(* What the helpers do to a context.                                       *)

\* HttpRequestCtx.init makes a context, and not a free place.
LEMMA NewContextType ==
    ASSUME NEW c \in Conns
    PROVE  NewContext(c) \in Context /\ NewContext(c).client = c
  BY DEF NewContext, Free, Context

\* A free place of the pool names no connection.
LEMMA FreeType == Free \in Context /\ Free.client = 0
  BY DEF Free, Context

\* llhttp_execute changes the parser's part of a context and keeps its client.
LEMMA ParsedType ==
    ASSUME NEW m \in Context
    PROVE  Parsed(m) \in Context /\ Parsed(m).client = m.client
  <1>1. Verdict \in {"ok", "upg", "bad"}
    BY DEF Verdict
  <1>2. Completes \in BOOLEAN
    BY DEF Completes
  <1>3. QED
    BY <1>1, <1>2 DEF Parsed, Context

\* response() keeps the client of the context it marks and leaves every other
\* context, and the connections' pointers, alone.
LEMMA ResponseType ==
    ASSUME TypeOK, NEW c \in Conns, ctx[c] # 0, NEW m \in Context,
           NEW close \in BOOLEAN, Response(c, m, close)
    PROVE  /\ st' \in [Conns -> {"none", "online", "shutdown"}]
           /\ closing' \subseteq Conns
           /\ mem' = [mem EXCEPT ![ctx[c]] = [m EXCEPT !.responded = TRUE]]
           /\ [m EXCEPT !.responded = TRUE] \in Context
           /\ [m EXCEPT !.responded = TRUE].client = m.client
           /\ \A d \in Conns : st[d] # "none" => st'[d] # "none"
  <1>1. /\ [m EXCEPT !.responded = TRUE] \in Context
        /\ [m EXCEPT !.responded = TRUE].client = m.client
    BY DEF Context
  <1>2. /\ st' \in [Conns -> {"none", "online", "shutdown"}]
        /\ closing' \subseteq Conns
        /\ \A d \in Conns : st[d] # "none" => st'[d] # "none"
    BY DEF Response, CloseQueued, TypeOK
  <1>3. QED
    BY <1>1, <1>2 DEF Response

-----------------------------------------------------------------------------
(* The pool.                                                               *)

\* A connection's context may be written to at will as long as its client
\* pointer stays: it is still that connection's, and no other's.
LEMMA ContextKept ==
    ASSUME TypeOK, ContextOwned, NEW c \in Conns, ctx[c] # 0, NEW m \in Context,
           m.client = mem[ctx[c]].client, mem' = [mem EXCEPT ![ctx[c]] = m],
           ctx' = ctx, \A d \in Conns : st[d] # "none" => st'[d] # "none"
    PROVE  ContextOwned' /\ mem' \in [Contexts -> Context]
  <1>1. mem' \in [Contexts -> Context]
    BY DEF TypeOK
  <1>2. \A k \in Contexts : mem'[k].client = mem[k].client
    BY DEF TypeOK
  <1>3. \A d \in Conns : ctx'[d] # 0 => st'[d] # "none" /\ mem'[ctx'[d]].client = d
    BY <1>2 DEF TypeOK, ContextOwned
  <1>4. \A k \in Contexts : mem'[k] # Free => \E d \in Conns : ctx'[d] = k
    <2> TAKE k \in Contexts
    <2>1. CASE k = ctx[c]
      BY <2>1
    <2>2. CASE k # ctx[c]
      BY <2>2 DEF TypeOK, ContextOwned
    <2>3. QED
      BY <2>1, <2>2
  <1>5. QED
    BY <1>1, <1>3, <1>4 DEF ContextOwned

\* ape_socket_close with disconnect() gives back the context of its own
\* connection, and leaves the others'.
LEMMA DisconnectType ==
    ASSUME TypeOK, ContextOwned, NEW c \in Conns, Disconnect(c)
    PROVE  /\ st' \in [Conns -> {"none", "online", "shutdown"}]
           /\ ctx' \in [Conns -> Contexts \cup {0}]
           /\ mem' \in [Contexts -> Context]
           /\ closing' \subseteq Conns /\ ended' \subseteq Conns
           /\ ContextOwned'
  <1>1. /\ st' \in [Conns -> {"none", "online", "shutdown"}]
        /\ ctx' \in [Conns -> Contexts \cup {0}]
        /\ closing' \subseteq Conns /\ ended' \subseteq Conns
    BY DEF TypeOK, Disconnect
  <1>2. mem' \in [Contexts -> Context]
    BY FreeType DEF TypeOK, Disconnect
  <1>3. \A d \in Conns : ctx'[d] # 0 =>
          /\ d # c /\ ctx'[d] = ctx[d] /\ st'[d] = st[d] /\ ctx[d] # ctx[c]
          /\ mem'[ctx'[d]] = mem[ctx[d]]
    BY DEF TypeOK, Disconnect, ContextOwned
  <1>4. \A k \in Contexts : mem'[k] # Free => \E d \in Conns : ctx'[d] = k
    <2> SUFFICES ASSUME NEW k \in Contexts, mem'[k] # Free
                 PROVE  \E d \in Conns : ctx'[d] = k
      OBVIOUS
    <2>1. k # ctx[c] /\ mem[k] # Free
      BY HttpAssumption DEF Disconnect, TypeOK
    <2>2. PICK d \in Conns : ctx[d] = k
      BY <2>1 DEF ContextOwned
    <2>3. QED
      BY <2>1, <2>2 DEF Disconnect, TypeOK
  <1>5. QED
    BY <1>1, <1>2, <1>3, <1>4 DEF ContextOwned

-----------------------------------------------------------------------------
(* The inductive invariant: TypeOK and ContextOwned together are inductive, *)
(* since a step finds the context it writes to by ctx, which ContextOwned   *)
(* says no other connection shares.                                         *)

PoolInv == TypeOK /\ ContextOwned

\* The calls of on_read, each with the verdict of the parser and the choice of
\* the handler it is about, keep the invariant.
LEMMA OnDataInv ==
    ASSUME PoolInv, OnData
    PROVE  PoolInv'
  <1> USE DEF PoolInv
  <1>1. CASE NoData
    BY <1>1 DEF NoData, TypeOK, ContextOwned, peerVars, readVars, httpVars
  <1>2. CASE Return
    <2>0. /\ cur \in Conns /\ ctx' = ctx /\ ended' = ended
          /\ cur' = cur /\ phase' = "after" /\ cur # 0
      BY <1>2, HttpAssumption DEF Return, TypeOK, peerVars
    <2>a. ASSUME NEW m \in Context, ctx[cur] # 0, m.client = Here.client,
                 mem' = [mem EXCEPT ![ctx[cur]] = m], closing' \subseteq Conns,
                 st' \in [Conns -> {"none", "online", "shutdown"}],
                 \A d \in Conns : st[d] # "none" => st'[d] # "none"
          PROVE  PoolInv'
      <3>1. ContextOwned' /\ mem' \in [Contexts -> Context]
        BY <2>0, <2>a, ContextKept DEF Here
      <3>2. QED
        BY <2>0, <2>a, <3>1 DEF TypeOK
    <2>b. ASSUME NEW m \in Context, ctx[cur] # 0, m.client = Here.client,
                 NEW close \in BOOLEAN, Response(cur, m, close)
          PROVE  PoolInv'
      <3> DEFINE r == [m EXCEPT !.responded = TRUE]
      <3>1. /\ st' \in [Conns -> {"none", "online", "shutdown"}]
            /\ closing' \subseteq Conns /\ mem' = [mem EXCEPT ![ctx[cur]] = r]
            /\ r \in Context /\ r.client = m.client
            /\ \A d \in Conns : st[d] # "none" => st'[d] # "none"
        BY <2>0, <2>b, ResponseType
      <3> HIDE DEF r
      <3>2. QED
        BY <2>a, <2>b, <3>1
    <2>c. ctx[cur] # 0 => Here \in Context
      BY <2>0 DEF Here, TypeOK
    <2>e. ASSUME NEW m \in Context, ctx[cur] # 0, m.client = Here.client,
                 HandlerActs(cur, m)
          PROVE  PoolInv'
      <3>1. CASE \E close \in BOOLEAN : Response(cur, m, close)
        BY <2>b, <2>e, <3>1
      <3>2. CASE /\ mem' = [mem EXCEPT ![ctx[cur]] = m]
                 /\ UNCHANGED <<st, closing>> \/ CloseQueued(cur)
        <4>1. /\ st' \in [Conns -> {"none", "online", "shutdown"}]
              /\ closing' \subseteq Conns
              /\ \A d \in Conns : st[d] # "none" => st'[d] # "none"
          BY <2>0, <3>2 DEF CloseQueued, TypeOK
        <4>2. QED
          BY <2>a, <2>e, <3>2, <4>1
      <3>3. QED
        BY <2>e, <3>1, <3>2 DEF HandlerActs
    <2>d. ASSUME ctx[cur] # 0
          PROVE  /\ Parsed(Here) \in Context /\ Parsed(Here).client = Here.client
                 /\ [Parsed(Here) EXCEPT !.user = TRUE] \in Context
                 /\ [Parsed(Here) EXCEPT !.user = TRUE].client = Here.client
      <3>1. Parsed(Here) \in Context /\ Parsed(Here).client = Here.client
        BY <2>c, <2>d, ParsedType
      <3>2. QED
        BY <3>1 DEF Context
    <2>1. CASE DataNoContext
      BY <2>0, <2>1 DEF DataNoContext, TypeOK, ContextOwned
    <2>2. CASE DataWebSocket
      <3>1. CASE UNCHANGED mem /\ (UNCHANGED <<st, closing>> \/ CloseQueued(cur))
        <4>1. /\ st' \in [Conns -> {"none", "online", "shutdown"}]
              /\ closing' \subseteq Conns
              /\ \A d \in Conns : st[d] # "none" => st'[d] # "none"
          BY <2>0, <3>1 DEF CloseQueued, TypeOK
        <4>2. QED
          BY <2>0, <3>1, <4>1 DEF TypeOK, ContextOwned
      <3>2. CASE Response(cur, Here, TRUE)
        BY <2>2, <2>b, <2>c, <3>2 DEF DataWebSocket
      <3>3. QED
        BY <2>2, <3>1, <3>2 DEF DataWebSocket
    <2>3. CASE DataMore
      BY <2>0, <2>3, <2>a, <2>d DEF DataMore, ToParser, TypeOK
    <2>4. CASE DataBad
      BY <2>4, <2>b, <2>d DEF DataBad, ToParser
    <2>5. CASE DataDone
      <3> DEFINE m == [Parsed(Here) EXCEPT !.user = TRUE]
      <3>0. ctx[cur] # 0
        BY <2>5 DEF DataDone, ToParser
      <3>1. CASE HandlerActs(cur, m)
        BY <2>d, <2>e, <3>0, <3>1
      <3>2. CASE Response(cur, Parsed(Here), TRUE)
        BY <2>b, <2>d, <3>0, <3>2
      <3>3. QED
        BY <2>5, <3>1, <3>2 DEF DataDone
    <2>6. CASE DataUpgrade
      <3> DEFINE m == [Parsed(Here) EXCEPT !.user = TRUE]
      <3>0. ctx[cur] # 0
        BY <2>6 DEF DataUpgrade, ToParser
      <3>1. CASE Response(cur, Parsed(Here), TRUE)
        BY <2>b, <2>d, <3>0, <3>1
      <3>2. CASE \E close \in BOOLEAN : Response(cur, m, close)
        BY <2>b, <2>d, <3>0, <3>2
      <3>3. CASE HandlerActs(cur, [m EXCEPT !.ws = TRUE])
        <4>1. /\ [m EXCEPT !.ws = TRUE] \in Context
              /\ [m EXCEPT !.ws = TRUE].client = Here.client
          BY <2>d, <3>0 DEF Context
        <4>2. QED
          BY <2>e, <3>0, <3>3, <4>1
      <3>4. QED
        BY <2>6, <3>1, <3>2, <3>3 DEF DataUpgrade
    <2>7. QED
      BY <1>2, <2>1, <2>2, <2>3, <2>4, <2>5, <2>6, HttpAssumption
         DEF OnData, NoData, Return
  <1>3. QED
    BY <1>1, <1>2 DEF OnData, DataNoContext, DataWebSocket, DataMore, DataBad,
                      DataDone, DataUpgrade, ToParser

\* Every step keeps the invariant: the read loop touches no context, on_read
\* writes to the one of its connection, a connection takes a free one and
\* gives its own back.
LEMMA NextInv ==
    ASSUME PoolInv, [Next]_vars
    PROVE  PoolInv'
  <1> USE DEF PoolInv
  <1>1. CASE OnData
    BY <1>1, OnDataInv
  <1>2. CASE \E n \in Nat : ReadSome(n)
    BY <1>2 DEF ReadSome, TypeOK, ContextOwned, peerVars, loopVars, httpVars
  <1>3. CASE \E w \in {"again", "eof", "error"} : ReadStops(w)
    BY <1>3, HttpAssumption DEF ReadStops, TypeOK, ContextOwned, peerVars, httpVars
  <1>4. CASE ReadCloses
    <2>1. cur \in Conns
      BY <1>4 DEF ReadCloses, TypeOK
    <2>2. QED
      BY <1>4, <2>1, DisconnectType DEF ReadCloses, TypeOK
  <1>5. CASE ReadReturns
    BY <1>5 DEF ReadReturns, TypeOK, ContextOwned, peerVars, readVars, httpVars
  <1>6. ASSUME NEW c \in Conns, Connect(c)
        PROVE  PoolInv'
    <2>0. /\ st' = [st EXCEPT ![c] = "online"] /\ st[c] = "none" /\ c # 0
          /\ UNCHANGED <<ended, closing, cur, phase>>
      BY <1>6, HttpAssumption DEF Connect, peerVars, loopVars
    <2>1. CASE UNCHANGED <<ctx, mem>>
      BY <2>0, <2>1 DEF TypeOK, ContextOwned
    <2>2. CASE \E k \in Contexts : /\ mem[k] = Free /\ ctx' = [ctx EXCEPT ![c] = k]
                                   /\ mem' = [mem EXCEPT ![k] = NewContext(c)]
      <3>1. PICK k \in Contexts : /\ mem[k] = Free /\ ctx' = [ctx EXCEPT ![c] = k]
                                  /\ mem' = [mem EXCEPT ![k] = NewContext(c)]
        BY <2>2
      <3>2. TypeOK'
        BY <2>0, <3>1, NewContextType DEF TypeOK
      <3>3. \A d \in Conns : ctx[d] # k
        <4> SUFFICES ASSUME NEW d \in Conns, ctx[d] = k PROVE FALSE
          OBVIOUS
        <4>1. mem[k].client = d
          BY HttpAssumption DEF ContextOwned
        <4>2. QED
          BY <3>1, <4>1, FreeType, HttpAssumption
      <3>4. ctx[c] = 0
        BY <2>0 DEF ContextOwned
      <3>5. \A d \in Conns : ctx'[d] # 0 => st'[d] # "none" /\ mem'[ctx'[d]].client = d
        BY <2>0, <3>1, <3>3, NewContextType DEF TypeOK, ContextOwned
      <3>6. \A j \in Contexts : mem'[j] # Free => \E d \in Conns : ctx'[d] = j
        <4> SUFFICES ASSUME NEW j \in Contexts, mem'[j] # Free
                     PROVE  \E d \in Conns : ctx'[d] = j
          OBVIOUS
        <4>1. CASE j = k
          BY <3>1, <4>1 DEF TypeOK
        <4>2. CASE j # k
          <5>1. PICK d \in Conns : ctx[d] = j
            BY <3>1, <4>2 DEF TypeOK, ContextOwned
          <5>2. d # c
            BY <3>4, <5>1, HttpAssumption
          <5>3. QED
            BY <3>1, <5>1, <5>2 DEF TypeOK
        <4>3. QED
          BY <4>1, <4>2
      <3>7. QED
        BY <3>2, <3>5, <3>6 DEF ContextOwned
    <2>3. QED
      BY <1>6, <2>1, <2>2 DEF Connect
  <1>7. ASSUME NEW c \in Conns, ReadEvent(c)
        PROVE  PoolInv'
    BY <1>7, HttpAssumption DEF ReadEvent, TypeOK, ContextOwned, peerVars, readVars, httpVars
  <1>8. ASSUME NEW c \in Conns, PeerCloses(c) \/ \E t \in Tokens : PeerSends(c, t)
        PROVE  PoolInv'
    BY <1>8 DEF PeerCloses, PeerSends, TypeOK, ContextOwned, readVars, loopVars, httpVars
  <1>9. ASSUME NEW c \in Conns, OutputGone(c) \/ HandlerCloses(c)
        PROVE  PoolInv'
    <2>1. /\ \/ st' = [st EXCEPT ![c] = "shutdown"] /\ UNCHANGED closing
             \/ closing' = closing \cup {c} /\ UNCHANGED st
          /\ UNCHANGED <<ctx, mem, ended, cur, phase>>
      BY <1>9 DEF OutputGone, HandlerCloses, CloseQueued, peerVars, loopVars, httpVars
    <2>2. QED
      BY <2>1 DEF TypeOK, ContextOwned
  <1>10. ASSUME NEW c \in Conns, Expire(c)
         PROVE  PoolInv'
    BY <1>10, DisconnectType DEF Expire, TypeOK, loopVars
  <1>11. ASSUME NEW c \in Conns, NEW close \in BOOLEAN, AnswerLater(c, close)
         PROVE  PoolInv'
    <2> DEFINE r == [mem[ctx[c]] EXCEPT !.responded = TRUE]
    <2>1. /\ ctx[c] # 0 /\ mem[ctx[c]] \in Context
          /\ Response(c, mem[ctx[c]], close)
          /\ UNCHANGED <<ended, cur, phase, ctx>>
      BY <1>11 DEF AnswerLater, TypeOK, peerVars, loopVars
    <2>2. /\ st' \in [Conns -> {"none", "online", "shutdown"}]
          /\ closing' \subseteq Conns /\ mem' = [mem EXCEPT ![ctx[c]] = r]
          /\ r \in Context /\ r.client = mem[ctx[c]].client
          /\ \A d \in Conns : st[d] # "none" => st'[d] # "none"
      BY <2>1, ResponseType
    <2> HIDE DEF r
    <2>3. ContextOwned' /\ mem' \in [Contexts -> Context]
      BY <2>1, <2>2, ContextKept
    <2>4. QED
      BY <2>1, <2>2, <2>3 DEF TypeOK
  <1>12. CASE UNCHANGED vars
    BY <1>12 DEF TypeOK, ContextOwned, vars, peerVars, readVars, loopVars, httpVars
  <1>13. QED
    BY <1>1, <1>2, <1>3, <1>4, <1>5, <1>6, <1>7, <1>8, <1>9, <1>10, <1>11, <1>12,
       HttpAssumption DEF Next, Read

-----------------------------------------------------------------------------
(* The theorems.                                                           *)

\* The pool starts with every place free.
LEMMA InitInv == Init => PoolInv
  BY FreeType DEF Init, PoolInv, TypeOK, ContextOwned

\* The state of a server with any number of connections and contexts is well
\* typed: in particular a read is under way exactly when one connection is
\* being read.
THEOREM TypeCorrect == Spec => []TypeOK
  <1>1. PoolInv /\ [Next]_vars => PoolInv'
    BY NextInv
  <1>2. QED
    BY InitInv, <1>1, PTL DEF Spec, PoolInv

\* Every context of HttpServer's pool is free or belongs to exactly one
\* connection, which its client pointer names, whatever requests, upgrades,
\* late answers, shutdowns and failures came before: disconnect() neither
\* leaks one nor gives back one that is in use.
THEOREM PoolNeverLeaks == Spec => []ContextOwned
  <1>1. PoolInv /\ [Next]_vars => PoolInv'
    BY NextInv
  <1>2. QED
    BY InitInv, <1>1, PTL DEF Spec, PoolInv

-----------------------------------------------------------------------------
(* The read loop.  What ReadFaithful says of one connection is inductive    *)
(* once it is also said that the buffer is never overfull, that no more was *)
(* read than was sent, and that only the connection being read has data in  *)
(* its buffer.                                                              *)

Upto(n) == [i \in 1 .. n |-> i]

Cat(s, t) == s \o t

Stream(c) ==
    /\ sent[c] \in Seq(Tokens) /\ given[c] \in Seq(Nat) /\ data[c] \in Seq(Nat)
    /\ got[c] \in Nat /\ size[c] \in Nat
    /\ got[c] <= Len(sent[c]) /\ Len(data[c]) <= size[c]
    /\ Cat(given[c], data[c]) = Upto(got[c])
    /\ data[c] # <<>> => c = cur /\ phase \in {"reading", "data"}

Domains ==
    /\ DOMAIN sent = Conns /\ DOMAIN given = Conns /\ DOMAIN data = Conns
    /\ DOMAIN got = Conns /\ DOMAIN size = Conns

EndRight ==
    phase \in {"data", "after"} /\ why = "eof" =>
        cur \in ended /\ got[cur] = Len(sent[cur])

StreamInv == Domains /\ (\A c \in Conns : Stream(c)) /\ EndRight

\* The positions 1 to n are followed by the next k.
LEMMA UptoMore ==
    ASSUME NEW n \in Nat, NEW k \in Nat
    PROVE  /\ Upto(n) \in Seq(Nat) /\ Len(Upto(n)) = n
           /\ [i \in 1 .. k |-> n + i] \in Seq(Nat)
           /\ Len([i \in 1 .. k |-> n + i]) = k
           /\ Cat(Upto(n), [i \in 1 .. k |-> n + i]) = Upto(n + k)
  <1> DEFINE t == [i \in 1 .. k |-> n + i]
  <1>1. Upto(n) \in Seq(Nat) /\ Len(Upto(n)) = n
    BY DEF Upto
  <1>2. t \in Seq(Nat) /\ Len(t) = k
    OBVIOUS
  <1>3. Upto(n + k) \in Seq(Nat) /\ Len(Upto(n + k)) = n + k
    BY DEF Upto
  <1>4. \A i \in 1 .. n + k : (Upto(n) \o t)[i] = Upto(n + k)[i]
    <2> TAKE i \in 1 .. n + k
    <2>1. (Upto(n) \o t)[i] = IF i <= n THEN Upto(n)[i] ELSE t[i - n]
      BY <1>1, <1>2, ConcatProperties
    <2>2. QED
      BY <2>1 DEF Upto
  <1>5. Upto(n) \o t \in Seq(Nat) /\ Len(Upto(n) \o t) = n + k
    BY <1>1, <1>2, ConcatProperties
  <1> HIDE DEF t
  <1>6. Upto(n) \o t = Upto(n + k)
    BY <1>3, <1>4, <1>5, SeqEqual
  <1>7. QED
    BY <1>1, <1>2, <1>6 DEF t, Cat

\* What concatenation does, with Cat in place of \o, which is opaque to the
\* provers in the steps below.
LEMMA CatFacts ==
    ASSUME NEW s \in Seq(Nat), NEW t \in Seq(Nat)
    PROVE  /\ Cat(s, t) \in Seq(Nat) /\ Len(Cat(s, t)) = Len(s) + Len(t)
           /\ Cat(s, <<>>) = s
  BY ConcatProperties, ConcatEmptySeq DEF Cat

\* Data read in two parts is the data read at once.
LEMMA CatAssociative ==
    ASSUME NEW s \in Seq(Nat), NEW t \in Seq(Nat), NEW u \in Seq(Nat)
    PROVE  Cat(Cat(s, t), u) = Cat(s, Cat(t, u))
  BY DEF Cat

\* buffer_prepare always makes room: read() is never asked for 0 bytes, so that
\* 0 can only mean the end of the stream.
LEMMA PreparedRoom ==
    ASSUME NEW c \in Conns, Stream(c)
    PROVE  Prepared(c) \in Nat /\ Prepared(c) > Len(data[c])
  BY HttpAssumption, LenProperties DEF Prepared, Stream

\* A disconnected connection starts from nothing.
LEMMA DisconnectStream ==
    ASSUME StreamInv, NEW c \in Conns, Disconnect(c), phase' = "idle",
           phase \in {"idle", "after"}
    PROVE  StreamInv'
  <1>1. Domains' /\ EndRight'
    BY DEF StreamInv, Domains, Disconnect, EndRight
  <1>2. ASSUME NEW d \in Conns PROVE Stream(d)'
    <2>1. CASE d = c
      <3>1. /\ sent'[d] = <<>> /\ given'[d] = <<>> /\ data'[d] = <<>>
            /\ got'[d] = 0 /\ size'[d] = 0
        BY <2>1 DEF StreamInv, Domains, Disconnect
      <3>2. Cat(<<>>, <<>>) = Upto(0)
        BY DEF Upto, Cat
      <3>3. QED
        BY <3>1, <3>2 DEF Stream
    <2>2. CASE d # c
      <3>1. /\ sent'[d] = sent[d] /\ given'[d] = given[d] /\ data'[d] = data[d]
            /\ got'[d] = got[d] /\ size'[d] = size[d]
        BY <2>2 DEF StreamInv, Domains, Disconnect
      <3>2. QED
        BY <3>1 DEF StreamInv, Stream
    <2>3. QED
      BY <2>1, <2>2
  <1>3. QED
    BY <1>1, <1>2 DEF StreamInv

\* Steps that neither read nor hand data over.
LEMMA SameStream ==
    ASSUME StreamInv, UNCHANGED <<sent, given, data, got>>,
           DOMAIN size' = Conns,
           \A d \in Conns : size'[d] \in Nat /\ size[d] <= size'[d],
           \A d \in Conns : data[d] # <<>> => d = cur' /\ phase' \in {"reading", "data"},
           EndRight'
    PROVE  StreamInv'
  <1>1. ASSUME NEW d \in Conns PROVE Stream(d)'
    <2>1. Stream(d) /\ Len(data[d]) \in Nat
      BY LenProperties DEF StreamInv, Stream
    <2>2. QED
      BY <2>1 DEF Stream
  <1>2. QED
    BY <1>1 DEF StreamInv, Domains

\* read() returned n units: they are the next n, at the end of the buffer.
LEMMA ReadSomeStream ==
    ASSUME TypeOK, StreamInv, NEW n \in Nat, ReadSome(n)
    PROVE  StreamInv'
  <1> DEFINE t == [i \in 1 .. n |-> got[cur] + i]
  <1>0. /\ phase = "reading" /\ cur \in Conns /\ Stream(cur)
        /\ UNCHANGED <<sent, given, cur, phase, why, ended>>
    BY DEF ReadSome, TypeOK, StreamInv, peerVars, loopVars, httpVars
  <1>1. Prepared(cur) \in Nat
    BY <1>0, PreparedRoom
  <1>2. /\ n <= Prepared(cur) - Len(data[cur]) /\ n <= Len(sent[cur]) - got[cur]
        /\ size' = [size EXCEPT ![cur] = Prepared(cur)]
        /\ data' = [data EXCEPT ![cur] = Cat(data[cur], t)]
        /\ got' = [got EXCEPT ![cur] = got[cur] + n]
    BY DEF ReadSome, Cat
  <1>3. /\ t \in Seq(Nat) /\ Len(t) = n
        /\ Cat(Upto(got[cur]), t) = Upto(got[cur] + n)
    BY <1>0, UptoMore DEF Stream
  <1> HIDE DEF t
  <1>4. /\ Cat(data[cur], t) \in Seq(Nat) /\ Len(Cat(data[cur], t)) = Len(data[cur]) + n
        /\ Cat(given[cur], Cat(data[cur], t)) = Cat(Cat(given[cur], data[cur]), t)
    <2>1. given[cur] \in Seq(Nat) /\ data[cur] \in Seq(Nat)
      BY <1>0 DEF Stream
    <2>2. Cat(data[cur], t) \in Seq(Nat) /\ Len(Cat(data[cur], t)) = Len(data[cur]) + n
      BY <1>3, <2>1, CatFacts
    <2>3. QED
      BY <1>3, <2>1, <2>2, CatAssociative
  <1>5. Domains' /\ EndRight'
    BY <1>0, <1>2 DEF StreamInv, Domains, EndRight
  <1>6. ASSUME NEW d \in Conns PROVE Stream(d)'
    <2>1. CASE d = cur
      <3>1. /\ data'[d] = Cat(data[d], t) /\ got'[d] = got[d] + n
            /\ size'[d] = Prepared(d)
        BY <1>2, <2>1 DEF StreamInv, Domains
      <3>2. Len(sent[d]) \in Nat /\ Len(data[d]) \in Nat
        BY <1>0, <2>1, LenProperties DEF Stream
      <3>3. Cat(given[d], data'[d]) = Upto(got'[d])
        BY <1>0, <1>3, <1>4, <2>1, <3>1 DEF Stream
      <3>4. /\ got'[d] \in Nat /\ got'[d] <= Len(sent[d])
            /\ Len(data'[d]) <= size'[d]
        BY <1>0, <1>1, <1>2, <1>4, <2>1, <3>1, <3>2 DEF Stream
      <3>5. QED
        BY <1>0, <1>1, <1>4, <2>1, <3>1, <3>3, <3>4 DEF Stream
    <2>2. CASE d # cur
      <3>1. data'[d] = data[d] /\ got'[d] = got[d] /\ size'[d] = size[d]
        BY <1>2, <2>2 DEF StreamInv, Domains
      <3>2. QED
        BY <1>0, <3>1 DEF StreamInv, Stream
    <2>3. QED
      BY <2>1, <2>2
  <1>7. QED
    BY <1>5, <1>6 DEF StreamInv

\* The loop stops: whatever the reason, buffer_prepare had made room.
LEMMA ReadStopsStream ==
    ASSUME TypeOK, StreamInv, NEW w \in {"again", "eof", "error"}, ReadStops(w)
    PROVE  StreamInv'
  <1>0. /\ phase = "reading" /\ cur \in Conns /\ Stream(cur)
        /\ UNCHANGED <<sent, given, cur, data, got, ended>>
        /\ phase' = "data" /\ why' = w
        /\ size' = [size EXCEPT ![cur] = Prepared(cur)]
    BY DEF ReadStops, TypeOK, StreamInv, peerVars
  <1>1. Prepared(cur) \in Nat /\ Prepared(cur) > Len(data[cur])
    BY <1>0, PreparedRoom
  <1>2. size[cur] <= Prepared(cur)
    BY <1>0, HttpAssumption, LenProperties DEF Prepared, Stream
  <1>3. w = "eof" => got[cur] = Len(sent[cur]) /\ cur \in ended
    <2>1. Prepared(cur) # Len(data[cur])
      BY <1>0, <1>1, LenProperties DEF Stream
    <2>2. QED
      BY <2>1 DEF ReadStops
  <1>4. EndRight'
    BY <1>0, <1>3 DEF EndRight
  <1>5. \A d \in Conns : size'[d] \in Nat /\ size[d] <= size'[d]
    BY <1>0, <1>1, <1>2 DEF StreamInv, Domains, Stream
  <1>6. QED
    BY <1>0, <1>4, <1>5, SameStream DEF StreamInv, Domains, Stream

\* on_read is given the whole buffer.
LEMMA ReturnStream ==
    ASSUME TypeOK, StreamInv, Return
    PROVE  StreamInv'
  <1>0. /\ phase = "data" /\ cur \in Conns /\ Stream(cur)
        /\ UNCHANGED <<sent, cur, got, size, ended, why>> /\ phase' = "after"
        /\ given' = [given EXCEPT ![cur] = Cat(given[cur], data[cur])]
        /\ data' = [data EXCEPT ![cur] = <<>>]
    BY DEF Return, HandOver, Cat, TypeOK, StreamInv, peerVars
  <1>1. Domains' /\ EndRight'
    BY <1>0 DEF StreamInv, Domains, EndRight
  <1>2. ASSUME NEW d \in Conns PROVE Stream(d)'
    <2>1. CASE d = cur
      <3>1. given'[d] = Cat(given[d], data[d]) /\ data'[d] = <<>>
        BY <1>0, <2>1 DEF StreamInv, Domains
      <3>2. /\ Cat(given[d], data[d]) \in Seq(Nat)
            /\ Cat(Cat(given[d], data[d]), <<>>) = Cat(given[d], data[d])
        BY <1>0, <2>1, CatFacts DEF Stream
      <3>3. QED
        BY <1>0, <2>1, <3>1, <3>2 DEF Stream
    <2>2. CASE d # cur
      <3>1. data'[d] = data[d] /\ given'[d] = given[d]
        BY <1>0, <2>2 DEF StreamInv, Domains
      <3>2. QED
        BY <1>0, <2>2, <3>1 DEF StreamInv, Stream
    <2>3. QED
      BY <2>1, <2>2
  <1>3. QED
    BY <1>1, <1>2 DEF StreamInv

\* Every step keeps the stream of every connection in order.
LEMMA StreamStep ==
    ASSUME TypeOK, StreamInv, [Next]_vars
    PROVE  StreamInv'
  <1>0. \A d \in Conns : size[d] \in Nat
    BY DEF StreamInv, Stream
  <1>a. ASSUME UNCHANGED <<sent, given, data, got, size>>,
               \A d \in Conns : data[d] # <<>> => d = cur' /\ phase' \in {"reading", "data"},
               EndRight'
        PROVE  StreamInv'
    BY <1>a, <1>0, SameStream DEF StreamInv, Domains
  <1>b. \A d \in Conns : data[d] # <<>> => d = cur /\ phase \in {"reading", "data"}
    BY DEF StreamInv, Stream
  <1> USE DEF peerVars, readVars, loopVars, httpVars
  <1>1. CASE Read
    <2>1. ASSUME NEW c \in Conns, NEW n \in 1 .. MaxSent[c], ReadSome(n)
          PROVE StreamInv'
      BY <2>1, ReadSomeStream, HttpAssumption
    <2>2. CASE \E w \in {"again", "eof", "error"} : ReadStops(w)
      BY <2>2, ReadStopsStream
    <2>3. CASE NoData
      BY <2>3, <1>a, <1>b DEF NoData, StreamInv, EndRight
    <2>4. CASE OnData /\ ~NoData
      BY <2>4, ReturnStream DEF OnData, DataNoContext, DataWebSocket, DataMore,
         DataBad, DataDone, DataUpgrade, ToParser
    <2>5. CASE ReadCloses
      <3>1. cur \in Conns
        BY <2>5 DEF ReadCloses, TypeOK
      <3>2. QED
        BY <2>5, <3>1, DisconnectStream DEF ReadCloses
    <2>6. CASE ReadReturns
      BY <2>6, <1>a, <1>b DEF ReadReturns, EndRight
    <2>7. QED
      BY <1>1, <2>1, <2>2, <2>3, <2>4, <2>5, <2>6 DEF Read
  <1>2. ASSUME NEW c \in Conns, NEW t \in Tokens, PeerSends(c, t)
        PROVE  StreamInv'
    <2>0. /\ UNCHANGED <<given, data, got, size, cur, phase, why, ended>>
          /\ sent' = [sent EXCEPT ![c] = Append(sent[c], t)]
          /\ phase \in {"idle", "reading"}
      BY <1>2 DEF PeerSends, PeerActs
    <2>1. Domains' /\ EndRight'
      BY <2>0 DEF StreamInv, Domains, EndRight
    <2>2. ASSUME NEW d \in Conns PROVE Stream(d)'
      <3>1. /\ Append(sent[d], t) \in Seq(Tokens)
            /\ Len(Append(sent[d], t)) = Len(sent[d]) + 1
            /\ Len(sent[d]) \in Nat
        BY AppendProperties, LenProperties DEF StreamInv, Stream
      <3>2. sent'[d] = sent[d] \/ sent'[d] = Append(sent[d], t)
        BY <2>0 DEF StreamInv, Domains
      <3>3. sent'[d] \in Seq(Tokens) /\ got[d] <= Len(sent'[d])
        <4>1. sent[d] \in Seq(Tokens) /\ got[d] \in Nat /\ got[d] <= Len(sent[d])
          BY DEF StreamInv, Stream
        <4>2. CASE sent'[d] = sent[d]
          BY <4>1, <4>2
        <4>3. CASE sent'[d] = Append(sent[d], t)
          BY <3>1, <4>1, <4>3
        <4>4. QED
          BY <3>2, <4>2, <4>3
      <3>4. QED
        BY <2>0, <3>3 DEF StreamInv, Stream
    <2>3. QED
      BY <2>1, <2>2 DEF StreamInv
  <1>3. ASSUME NEW c \in Conns, ReadEvent(c)
        PROVE  StreamInv'
    BY <1>3, <1>a, <1>b DEF ReadEvent, EndRight
  <1>4. ASSUME NEW c \in Conns, Expire(c)
        PROVE  StreamInv'
    BY <1>4, DisconnectStream DEF Expire
  <1>5. ASSUME NEW c \in Conns,
               \/ Connect(c) \/ OutputGone(c) \/ HandlerCloses(c) \/ PeerCloses(c)
               \/ \E close \in BOOLEAN : AnswerLater(c, close)
        PROVE  StreamInv'
    <2>1. /\ UNCHANGED <<sent, given, data, got, size, cur, phase, why>>
          /\ ended \subseteq ended'
      BY <1>5 DEF Connect, OutputGone, HandlerCloses, PeerCloses, AnswerLater
    <2>2. QED
      BY <2>1, <1>a, <1>b DEF StreamInv, EndRight
  <1>6. CASE UNCHANGED vars
    BY <1>6, <1>a, <1>b DEF vars, StreamInv, EndRight
  <1>7. QED
    BY <1>1, <1>2, <1>3, <1>4, <1>5, <1>6 DEF Next

\* A server starts with no connection, and so with no stream.
LEMMA StreamInit == Init => StreamInv
  <1> SUFFICES ASSUME Init PROVE StreamInv
    OBVIOUS
  <1>1. Cat(<<>>, <<>>) = Upto(0)
    BY DEF Upto, Cat
  <1>2. QED
    BY <1>1 DEF Init, StreamInv, Domains, Stream, EndRight

\* on_read is given every unit the peer sent, once and in order, whatever the
\* sizes of the buffer and of the reads, and a connection is taken for ended
\* only if the peer ended it and everything was read.
THEOREM ReadsFaithfully == Spec => []ReadFaithful
  <1>1. TypeOK /\ StreamInv /\ [Next]_vars => StreamInv'
    BY StreamStep
  <1>2. StreamInv => ReadFaithful
    BY DEF StreamInv, Stream, EndRight, Upto, Cat, ReadFaithful
  <1>3. QED
    BY <1>1, <1>2, StreamInit, TypeCorrect, PTL DEF Spec

-----------------------------------------------------------------------------
(* The answers and the switch.  The histories are tied to the marks of the  *)
(* request context: responded counts the answer, ws the 101, and a mark of  *)
(* the parser or of the handler means that a request or an error was read.  *)

NonPart(s, g) == \E i \in DOMAIN g : s[g[i]] # "part"
Upgrade(s, g) == \E i \in DOMAIN g : s[g[i]] = "upg"

\* w is what of g comes after the read of the upgrade that u holds.
Switched(s, g, u, w) ==
    \E k \in 1 .. Len(g) :
        /\ u = <<k>> /\ g = Cat(SubSeq(g, 1, k), w)
        /\ \E i \in 1 .. k : s[g[i]] = "upg"

Marks(m, s, g) ==
    /\ m.responded \/ m.done \/ m.parser # "ok" \/ m.user \/ m.ws => NonPart(s, g)
    /\ m.parser = "upg" => Upgrade(s, g)

Switch(m, s, g, u, w) ==
    IF m.ws THEN Switched(s, g, u, w) ELSE u = <<>> /\ w = <<>>

Responded(m) == IF m.responded THEN 1 ELSE 0

Tied(c) ==
    /\ wsgiven[c] \in Seq(Nat)
    /\ ctx[c] = 0 => answers[c] = 0 /\ upgrades[c] = <<>> /\ wsgiven[c] = <<>>
    /\ ctx[c] # 0 =>
        /\ answers[c] = Responded(mem[ctx[c]])
        /\ Marks(mem[ctx[c]], sent[c], given[c])
        /\ Switch(mem[ctx[c]], sent[c], given[c], upgrades[c], wsgiven[c])

HistDomains ==
    DOMAIN answers = Conns /\ DOMAIN upgrades = Conns /\ DOMAIN wsgiven = Conns

AnswerInv == HistDomains /\ \A c \in Conns : Tied(c)

\* What was read stays read when more of the stream is handed over.
LEMMA MoreGiven ==
    ASSUME NEW s, NEW g \in Seq(Nat), NEW x \in Seq(Nat)
    PROVE  /\ NonPart(s, g) => NonPart(s, Cat(g, x))
           /\ Upgrade(s, g) => Upgrade(s, Cat(g, x))
           /\ \A i \in DOMAIN x : \E j \in DOMAIN Cat(g, x) : Cat(g, x)[j] = x[i]
           /\ \A k \in 1 .. Len(g) : SubSeq(Cat(g, x), 1, k) = SubSeq(g, 1, k)
           /\ \A i \in 1 .. Len(g) : Cat(g, x)[i] = g[i]
  <1>1. /\ Cat(g, x) \in Seq(Nat) /\ Len(Cat(g, x)) = Len(g) + Len(x)
        /\ Len(g) \in Nat /\ Len(x) \in Nat
        /\ DOMAIN g = 1 .. Len(g) /\ DOMAIN x = 1 .. Len(x)
        /\ DOMAIN Cat(g, x) = 1 .. Len(g) + Len(x)
    BY ConcatProperties, LenProperties DEF Cat
  <1>2. \A i \in 1 .. Len(g) : Cat(g, x)[i] = g[i]
    BY DEF Cat
  <1>3. \A i \in 1 .. Len(x) : Cat(g, x)[Len(g) + i] = x[i]
    BY DEF Cat
  <1>4. \A k \in 1 .. Len(g) : SubSeq(Cat(g, x), 1, k) = SubSeq(g, 1, k)
    BY SubSeqOfConcat1 DEF Cat
  <1>5. \A i \in DOMAIN x : \E j \in DOMAIN Cat(g, x) : Cat(g, x)[j] = x[i]
    <2> TAKE i \in DOMAIN x
    <2>1. Len(g) + i \in DOMAIN Cat(g, x) /\ Cat(g, x)[Len(g) + i] = x[i]
      BY <1>1, <1>3
    <2>2. QED
      BY <2>1
  <1>6. /\ NonPart(s, g) => NonPart(s, Cat(g, x))
        /\ Upgrade(s, g) => Upgrade(s, Cat(g, x))
    BY <1>1, <1>2 DEF NonPart, Upgrade
  <1>7. QED
    BY <1>2, <1>4, <1>5, <1>6

\* The WebSocket parser is given what on_read is given.
LEMMA MoreSwitched ==
    ASSUME NEW s, NEW g \in Seq(Nat), NEW x \in Seq(Nat), NEW u, NEW w \in Seq(Nat),
           Switched(s, g, u, w)
    PROVE  Switched(s, Cat(g, x), u, Cat(w, x))
  <1>1. PICK k \in 1 .. Len(g) : /\ u = <<k>> /\ g = Cat(SubSeq(g, 1, k), w)
                                 /\ \E i \in 1 .. k : s[g[i]] = "upg"
    BY DEF Switched
  <1>2. /\ SubSeq(Cat(g, x), 1, k) = SubSeq(g, 1, k)
        /\ \A i \in 1 .. Len(g) : Cat(g, x)[i] = g[i]
    BY MoreGiven
  <1>3. SubSeq(g, 1, k) \in Seq(Nat)
    BY LenProperties, SubSeqProperties
  <1>4. Cat(g, x) = Cat(SubSeq(g, 1, k), Cat(w, x))
    <2> DEFINE p == SubSeq(g, 1, k)
    <2>1. p \in Seq(Nat) /\ g = Cat(p, w)
      BY <1>1, <1>3
    <2> HIDE DEF p
    <2>2. Cat(Cat(p, w), x) = Cat(p, Cat(w, x))
      BY <2>1, CatAssociative
    <2>3. Cat(g, x) = Cat(p, Cat(w, x))
      BY <2>1, <2>2
    <2>4. QED
      BY <2>3 DEF p
  <1>5. k \in 1 .. Len(Cat(g, x)) /\ 1 .. k \subseteq 1 .. Len(g)
    <2>1. Len(Cat(g, x)) = Len(g) + Len(x) /\ Len(g) \in Nat /\ Len(x) \in Nat
      BY CatFacts, LenProperties
    <2>2. QED
      BY <2>1
  <1>6. QED
    BY <1>1, <1>2, <1>4, <1>5 DEF Switched

\* More data arrives at the kernel: what was read of it before is the same.
LEMMA MoreSent ==
    ASSUME NEW s \in Seq(Tokens), NEW t \in Tokens, NEW g \in Seq(Nat),
           \A i \in DOMAIN g : g[i] \in 1 .. Len(s)
    PROVE  /\ NonPart(s, g) => NonPart(Append(s, t), g)
           /\ Upgrade(s, g) => Upgrade(Append(s, t), g)
           /\ \A u, w : Switched(s, g, u, w) => Switched(Append(s, t), g, u, w)
  <1>1. \A i \in DOMAIN g : Append(s, t)[g[i]] = s[g[i]]
    BY AppendProperties
  <1>2. DOMAIN g = 1 .. Len(g) /\ Len(g) \in Nat
    BY LenProperties
  <1>3. \A k \in 1 .. Len(g) : \A i \in 1 .. k : Append(s, t)[g[i]] = s[g[i]]
    BY <1>1, <1>2
  <1>4. QED
    BY <1>1, <1>3 DEF NonPart, Upgrade, Switched

\* A set of positions that is not empty has a first one.
LEMMA MinIn ==
    ASSUME NEW S, S \subseteq Nat, S # {}
    PROVE  Min(S) \in S
  <1> DEFINE R == OpToRel(<, Nat)
  <1>1. IsWellFoundedOn(R, Nat)
    BY NatLessThanWellFounded
  <1>2. \A x, y \in Nat : <<x, y>> \in R <=> x < y
    BY DEF OpToRel
  <1> HIDE DEF R
  <1>3. PICK x \in S : \A y \in S : ~(<<y, x>> \in R)
    BY <1>1, WFMin
  <1>4. \A y \in S : x =< y
    <2> TAKE y \in S
    <2>1. x \in Nat /\ y \in Nat /\ ~(<<y, x>> \in R)
      BY <1>3
    <2>2. ~(y < x)
      BY <1>2, <2>1, Zenon
    <2>3. QED
      BY <2>1, <2>2
  <1> QED
    BY <1>4 DEF Min

\* llhttp_execute marks only what it has read: a request is complete, an
\* upgrade asked for or an error met only if some unit says so.
LEMMA ParsedMarks ==
    ASSUME NEW m \in Context, given[cur] \in Seq(Nat), data[cur] \in Seq(Nat),
           Marks(m, sent[cur], given[cur])
    PROVE  /\ Marks(Parsed(m), sent[cur], Cat(given[cur], data[cur]))
           /\ Parsed(m).responded = m.responded /\ Parsed(m).ws = m.ws
           /\ Parsed(m).user = m.user
  <1> DEFINE all == Cat(given[cur], data[cur])
  <1>1. /\ NonPart(sent[cur], given[cur]) => NonPart(sent[cur], all)
        /\ Upgrade(sent[cur], given[cur]) => Upgrade(sent[cur], all)
        /\ \A i \in DOMAIN data[cur] : \E j \in DOMAIN all : all[j] = data[cur][i]
    BY MoreGiven
  <1> HIDE DEF all
  <1>2. Marks(m, sent[cur], all)
    BY <1>1 DEF Marks
  <1>3. CASE m.parser # "ok"
    BY <1>2, <1>3 DEF Parsed, all
  <1>4. CASE m.parser = "ok"
    <2> DEFINE p == [m EXCEPT !.done = m.done \/ Completes, !.parser = Verdict]
    <2>1. /\ p.responded = m.responded /\ p.ws = m.ws /\ p.user = m.user
          /\ p.parser = Verdict /\ p.done = (m.done \/ Completes)
      BY DEF Context
    <2>2. Completes => NonPart(sent[cur], all)
      BY <1>1 DEF Completes, Unit, NonPart
    <2>3. Verdict # "ok" => NonPart(sent[cur], all)
      BY <1>1 DEF Verdict, StopsAt, Unit, NonPart
    <2>4. Verdict = "upg" => Upgrade(sent[cur], all)
      <3>1. StopsAt \subseteq Nat /\ StopsAt \subseteq DOMAIN data[cur]
        BY LenProperties DEF StopsAt
      <3>2. StopsAt # {} => Min(StopsAt) \in DOMAIN data[cur]
        BY <3>1, MinIn
      <3>3. Verdict = "upg" => StopsAt # {} /\ Unit(Min(StopsAt)) = "upg"
        BY DEF Verdict
      <3>4. QED
        BY <1>1, <3>2, <3>3 DEF Unit, Upgrade
    <2>5. Parsed(m) = p
      BY <1>4 DEF Parsed
    <2> HIDE DEF p
    <2>6. Marks(p, sent[cur], all)
      BY <1>2, <1>4, <2>1, <2>2, <2>3, <2>4 DEF Marks
    <2>7. QED
      BY <2>1, <2>5, <2>6 DEF all
  <1>5. QED
    BY <1>3, <1>4

\* A connection that a step leaves alone.
Same(d) ==
    /\ ctx'[d] = ctx[d] /\ (ctx[d] # 0 => mem'[ctx[d]] = mem[ctx[d]])
    /\ sent'[d] = sent[d] /\ given'[d] = given[d]
    /\ answers'[d] = answers[d] /\ upgrades'[d] = upgrades[d]
    /\ wsgiven'[d] = wsgiven[d]

\* A step of one connection is right for all of them if it is for that one.
LEMMA OneTied ==
    ASSUME AnswerInv, HistDomains', NEW c \in Conns, Tied(c)',
           \A d \in Conns : d # c => Same(d)
    PROVE  AnswerInv'
  BY DEF AnswerInv, Tied, Same

\* A step that writes to one context leaves the other connections alone.
LEMMA OthersSame ==
    ASSUME TypeOK, ContextOwned, NEW c \in Conns, NEW m,
           mem' = [mem EXCEPT ![ctx[c]] = m], ctx' = ctx, ctx[c] # 0,
           NEW d \in Conns, d # c,
           sent'[d] = sent[d], given'[d] = given[d], answers'[d] = answers[d],
           upgrades'[d] = upgrades[d], wsgiven'[d] = wsgiven[d]
    PROVE  Same(d)
  BY DEF TypeOK, ContextOwned, Same

\* The connection's context is written, and its histories agree.
LEMMA WriteTied ==
    ASSUME TypeOK, NEW c \in Conns, ctx[c] # 0, ctx' = ctx, NEW m,
           mem' = [mem EXCEPT ![ctx[c]] = m], wsgiven'[c] \in Seq(Nat),
           answers'[c] = Responded(m), Marks(m, sent'[c], given'[c]),
           Switch(m, sent'[c], given'[c], upgrades'[c], wsgiven'[c])
    PROVE  Tied(c)'
  <1>1. mem'[ctx'[c]] = m
    BY DEF TypeOK
  <1>2. QED
    BY <1>1 DEF Tied

\* The same for response(), which answers only what was not answered.
LEMMA ResponseTied ==
    ASSUME TypeOK, NEW c \in Conns, ctx[c] # 0, ctx' = ctx, NEW m \in Context,
           NEW close \in BOOLEAN, Response(c, m, close), wsgiven'[c] \in Seq(Nat),
           DOMAIN answers = Conns, answers[c] = Responded(m),
           NonPart(sent'[c], given'[c]), Marks(m, sent'[c], given'[c]),
           Switch(m, sent'[c], given'[c], upgrades'[c], wsgiven'[c])
    PROVE  /\ Tied(c)' /\ DOMAIN answers' = Conns
           /\ \A d \in Conns : d # c => answers'[d] = answers[d]
  <1> DEFINE r == [m EXCEPT !.responded = TRUE]
  <1>1. /\ r.responded = TRUE /\ r.ws = m.ws /\ r.user = m.user
        /\ r.parser = m.parser /\ r.done = m.done
    BY DEF Context
  <1>2. mem' = [mem EXCEPT ![ctx[c]] = r]
    BY DEF Response
  <1> HIDE DEF r
  <1>3. /\ answers'[c] = 1 /\ DOMAIN answers' = Conns
        /\ \A d \in Conns : d # c => answers'[d] = answers[d]
    BY DEF Response, Responded
  <1>4. Marks(r, sent'[c], given'[c]) /\ Responded(r) = 1
    BY <1>1 DEF Marks, Responded
  <1>5. Switch(r, sent'[c], given'[c], upgrades'[c], wsgiven'[c])
    BY <1>1 DEF Switch
  <1>6. QED
    BY <1>2, <1>3, <1>4, <1>5, WriteTied

\* The same for whatever a handler does with its client.
LEMMA ActsTied ==
    ASSUME TypeOK, NEW c \in Conns, ctx[c] # 0, ctx' = ctx, NEW m \in Context,
           HandlerActs(c, m), wsgiven'[c] \in Seq(Nat),
           DOMAIN answers = Conns, answers[c] = Responded(m),
           NonPart(sent'[c], given'[c]), Marks(m, sent'[c], given'[c]),
           Switch(m, sent'[c], given'[c], upgrades'[c], wsgiven'[c])
    PROVE  /\ Tied(c)' /\ DOMAIN answers' = Conns
           /\ \A d \in Conns : d # c => answers'[d] = answers[d]
           /\ \E n : mem' = [mem EXCEPT ![ctx[c]] = n]
  <1>1. CASE mem' = [mem EXCEPT ![ctx[c]] = m] /\ UNCHANGED answers
    BY <1>1, WriteTied
  <1>2. ASSUME NEW close \in BOOLEAN, Response(c, m, close)
        PROVE  /\ Tied(c)' /\ DOMAIN answers' = Conns
               /\ \A d \in Conns : d # c => answers'[d] = answers[d]
               /\ mem' = [mem EXCEPT ![ctx[c]] = [m EXCEPT !.responded = TRUE]]
    BY <1>2, ResponseTied DEF Response
  <1>3. QED
    BY <1>1, <1>2 DEF HandlerActs

\* The calls of on_read: what is answered and what is switched is marked.
LEMMA OnDataTied ==
    ASSUME PoolInv, StreamInv, AnswerInv, OnData, ~NoData, NEW c \in Conns, c = cur
    PROVE  AnswerInv'
  <1> DEFINE all == Cat(given[c], data[c])
  <1>0. Return
    BY DEF OnData, DataNoContext, DataWebSocket, DataMore, DataBad, DataDone,
           DataUpgrade, ToParser
  <1>1. /\ c \in Conns /\ ctx' = ctx /\ sent' = sent
        /\ given' = [given EXCEPT ![c] = all]
        /\ given[c] \in Seq(Nat) /\ data[c] \in Seq(Nat) /\ all \in Seq(Nat)
        /\ wsgiven[c] \in Seq(Nat)
    <2>1. /\ c \in Conns /\ ctx' = ctx /\ sent' = sent
          /\ given' = [given EXCEPT ![c] = all]
      BY <1>0 DEF Return, HandOver, PoolInv, TypeOK, peerVars, Cat
    <2>2. given[c] \in Seq(Nat) /\ data[c] \in Seq(Nat) /\ wsgiven[c] \in Seq(Nat)
      BY <2>1 DEF StreamInv, Stream, AnswerInv, Tied
    <2>3. QED
      BY <2>1, <2>2, CatFacts
  <1>2. /\ sent'[c] = sent[c] /\ given'[c] = all
        /\ \A d \in Conns : d # c => sent'[d] = sent[d] /\ given'[d] = given[d]
    BY <1>1 DEF StreamInv, Domains
  <1>3. HistDomains /\ Tied(c) /\ TypeOK /\ ContextOwned
    BY <1>1 DEF AnswerInv, PoolInv
  <1>4. ctx[c] # 0 => Here \in Context
    BY <1>1 DEF PoolInv, TypeOK, Here
  <1> HIDE DEF all
  <1>5. CASE DataNoContext
    <2>1. /\ ctx[c] = 0 /\ mem' = mem
          /\ UNCHANGED <<answers, upgrades, wsgiven>>
      BY <1>5 DEF DataNoContext
    <2>2. Tied(c)' /\ HistDomains'
      BY <1>1, <1>3, <2>1 DEF Tied, HistDomains
    <2>3. \A d \in Conns : d # c => Same(d)
      BY <1>1, <1>2, <2>1 DEF Same
    <2>4. QED
      BY <1>1, <2>2, <2>3, OneTied
  <1>6. CASE DataWebSocket
    <2>1. /\ ctx[c] # 0 /\ Here.ws /\ UNCHANGED upgrades
          /\ wsgiven' = [wsgiven EXCEPT ![c] = Cat(wsgiven[c], data[c])]
      BY <1>6 DEF DataWebSocket, Cat
    <2>2. /\ wsgiven'[c] = Cat(wsgiven[c], data[c])
          /\ DOMAIN wsgiven' = Conns /\ DOMAIN upgrades' = Conns
          /\ \A d \in Conns : d # c =>
               wsgiven'[d] = wsgiven[d] /\ upgrades'[d] = upgrades[d]
      BY <1>1, <1>3, <2>1 DEF HistDomains
    <2>3. wsgiven'[c] \in Seq(Nat)
      BY <1>1, <2>2, CatFacts
    <2>4. /\ answers[c] = Responded(Here)
          /\ Marks(Here, sent[c], given[c])
          /\ Switched(sent[c], given[c], upgrades[c], wsgiven[c])
      BY <1>3, <2>1 DEF Tied, Here, Switch
    <2>5. NonPart(sent[c], given[c])
      BY <2>1, <2>4 DEF Marks
    <2>6. NonPart(sent[c], all) /\ Marks(Here, sent[c], all)
      BY <1>1, <2>4, <2>5, MoreGiven DEF all, Marks
    <2>7. Switched(sent[c], all, upgrades[c], Cat(wsgiven[c], data[c]))
      BY <1>1, <2>4, MoreSwitched DEF all
    <2>8. Switch(Here, sent'[c], given'[c], upgrades'[c], wsgiven'[c])
      BY <1>2, <2>1, <2>2, <2>7 DEF Switch
    <2>9. CASE UNCHANGED <<mem, answers>>
      <3>1. Tied(c)' /\ HistDomains'
        BY <1>1, <1>2, <1>3, <2>1, <2>2, <2>3, <2>4, <2>6, <2>8, <2>9
           DEF Tied, HistDomains, Here
      <3>2. \A d \in Conns : d # c => Same(d)
        BY <1>1, <1>2, <2>2, <2>9 DEF Same
      <3>3. QED
        BY <1>1, <3>1, <3>2, OneTied
    <2>10. CASE Response(c, Here, TRUE)
      <3>1. /\ Tied(c)' /\ DOMAIN answers' = Conns
            /\ \A d \in Conns : d # c => answers'[d] = answers[d]
        <4>1. DOMAIN answers = Conns /\ TRUE \in BOOLEAN
          BY <1>3 DEF HistDomains
        <4>2. QED
          BY <1>1, <1>2, <1>3, <1>4, <2>1, <2>3, <2>4, <2>6, <2>8, <2>10, <4>1,
             ResponseTied
      <3>2. mem' = [mem EXCEPT ![ctx[c]] = [Here EXCEPT !.responded = TRUE]]
        BY <2>10 DEF Response
      <3>3. \A d \in Conns : d # c => Same(d)
        BY <1>1, <1>2, <1>3, <2>1, <2>2, <3>1, <3>2, OthersSame
      <3>4. QED
        BY <1>1, <2>2, <3>1, <3>3, OneTied DEF HistDomains
    <2>11. QED
      BY <1>6, <2>9, <2>10 DEF DataWebSocket
  <1>7. CASE ToParser
    <2> DEFINE p == Parsed(Here)
    <2>1. ctx[c] # 0 /\ ~Here.ws
      BY <1>7 DEF ToParser
    <2>2. /\ p \in Context /\ p.ws = FALSE /\ answers[c] = Responded(p)
          /\ Marks(p, sent[c], all)
          /\ upgrades[c] = <<>> /\ wsgiven[c] = <<>>
      <3>1. /\ answers[c] = Responded(Here) /\ Marks(Here, sent[c], given[c])
            /\ upgrades[c] = <<>> /\ wsgiven[c] = <<>>
        BY <1>3, <2>1 DEF Tied, Here, Switch
      <3>2. /\ Marks(p, sent[c], all) /\ p.responded = Here.responded
            /\ p.ws = Here.ws
        BY <1>1, <1>4, <2>1, <3>1, ParsedMarks DEF all
      <3>3. p \in Context
        BY <1>4, <2>1, ParsedType
      <3>4. Here.ws = FALSE
        BY <1>4, <2>1 DEF Context
      <3>5. QED
        BY <3>1, <3>2, <3>3, <3>4 DEF Responded
    <2> DEFINE q == [p EXCEPT !.user = TRUE]
    <2>3. /\ q \in Context /\ q.ws = FALSE /\ q.user = TRUE
          /\ q.responded = p.responded /\ q.done = p.done /\ q.parser = p.parser
      BY <2>2 DEF Context
    <2> HIDE DEF p, q
    <2>4. NonPart(sent[c], all) => Marks(q, sent[c], all)
      BY <2>2, <2>3 DEF Marks
    <2>5. Responded(q) = answers[c]
      BY <2>2, <2>3 DEF Responded
    <2>a. ASSUME NEW m \in Context, m.ws = FALSE, Marks(m, sent[c], all),
                 answers[c] = Responded(m), UNCHANGED <<upgrades, wsgiven>>,
                 \/ mem' = [mem EXCEPT ![ctx[c]] = m] /\ UNCHANGED answers
                 \/ /\ NonPart(sent[c], all)
                    /\ \E close \in BOOLEAN : Response(c, m, close)
          PROVE  AnswerInv'
      <3>1. /\ wsgiven'[c] \in Seq(Nat)
            /\ Switch(m, sent'[c], given'[c], upgrades'[c], wsgiven'[c])
            /\ Marks(m, sent'[c], given'[c])
        BY <1>1, <1>2, <2>2, <2>a DEF Switch
      <3>2. /\ Tied(c)' /\ DOMAIN answers' = Conns
            /\ \A d \in Conns : d # c => answers'[d] = answers[d]
        <4>1. CASE mem' = [mem EXCEPT ![ctx[c]] = m] /\ UNCHANGED answers
          BY <1>1, <1>3, <2>1, <2>a, <3>1, <4>1, WriteTied DEF HistDomains
        <4>2. ASSUME NEW close \in BOOLEAN, Response(c, m, close),
                     NonPart(sent[c], all)
              PROVE  /\ Tied(c)' /\ DOMAIN answers' = Conns
                     /\ \A d \in Conns : d # c => answers'[d] = answers[d]
          BY <1>1, <1>2, <1>3, <2>1, <2>a, <3>1, <4>2, ResponseTied DEF HistDomains
        <4>3. QED
          BY <2>a, <4>1, <4>2
      <3>3. \E n : mem' = [mem EXCEPT ![ctx[c]] = n]
        BY <2>a DEF Response
      <3>4. \A d \in Conns : d # c => Same(d)
        BY <1>1, <1>2, <1>3, <2>1, <2>a, <3>2, <3>3, OthersSame
      <3>5. QED
        BY <1>1, <1>3, <2>a, <3>2, <3>4, OneTied DEF HistDomains
    <2>6. CASE DataMore
      BY <2>2, <2>6, <2>a DEF DataMore, p
    <2>7. CASE DataBad
      <3>1. p.parser = "bad" /\ Response(c, p, TRUE) /\ UNCHANGED <<upgrades, wsgiven>>
        BY <2>7 DEF DataBad, p
      <3>2. NonPart(sent[c], all)
        BY <2>2, <3>1 DEF Marks
      <3>3. QED
        BY <2>2, <2>a, <3>1, <3>2
    <2>8. CASE DataDone
      <3>1. /\ p.done /\ UNCHANGED <<upgrades, wsgiven>>
            /\ \/ \E close \in BOOLEAN : Response(c, q, close)
               \/ Response(c, p, TRUE)
               \/ mem' = [mem EXCEPT ![ctx[c]] = q] /\ UNCHANGED answers
        BY <2>8 DEF DataDone, HandlerActs, p, q
      <3>2. NonPart(sent[c], all)
        BY <2>2, <3>1 DEF Marks
      <3>3. CASE Response(c, p, TRUE)
        BY <2>2, <2>a, <3>1, <3>2, <3>3
      <3>4. QED
        BY <2>3, <2>4, <2>5, <2>a, <3>1, <3>2, <3>3
    <2>9. CASE DataUpgrade
      <3>1. /\ p.parser = "upg" /\ UNCHANGED wsgiven
            /\ \/ Response(c, p, TRUE) /\ UNCHANGED upgrades
               \/ (\E close \in BOOLEAN : Response(c, q, close)) /\ UNCHANGED upgrades
               \/ /\ HandlerActs(c, [q EXCEPT !.ws = TRUE])
                  /\ upgrades' = [upgrades EXCEPT ![c] = Append(@, Len(given'[c]))]
        BY <2>9 DEF DataUpgrade, p, q
      <3>2. NonPart(sent[c], all) /\ Upgrade(sent[c], all)
        BY <2>2, <3>1 DEF Marks
      <3>3. CASE UNCHANGED upgrades /\ Response(c, p, TRUE)
        BY <2>2, <2>a, <3>1, <3>2, <3>3
      <3>4. CASE UNCHANGED upgrades /\ \E close \in BOOLEAN : Response(c, q, close)
        BY <2>3, <2>4, <2>5, <2>a, <3>1, <3>2, <3>4
      <3>5. CASE /\ HandlerActs(c, [q EXCEPT !.ws = TRUE])
                 /\ upgrades' = [upgrades EXCEPT ![c] = Append(@, Len(given'[c]))]
        <4> DEFINE r == [q EXCEPT !.ws = TRUE]
        <4>1. /\ r \in Context /\ r.ws = TRUE /\ r.responded = q.responded
              /\ r.done = q.done /\ r.parser = q.parser /\ r.user = q.user
          BY <2>3 DEF Context
        <4>2. HandlerActs(c, r)
          BY <3>5
        <4> HIDE DEF r
        <4>3. Marks(r, sent'[c], given'[c]) /\ answers[c] = Responded(r)
          <5>1. Marks(r, sent[c], all)
            BY <2>4, <3>2, <4>1 DEF Marks
          <5>2. Responded(r) = Responded(q)
            BY <4>1 DEF Responded
          <5>3. QED
            BY <1>2, <2>5, <5>1, <5>2
        <4>4. upgrades'[c] = <<Len(all)>>
          <5>1. Append(<<>>, Len(all)) = <<Len(all)>>
            OBVIOUS
          <5>2. QED
            BY <1>1, <1>2, <1>3, <2>2, <3>5, <5>1 DEF HistDomains
        <4>5. Switched(sent'[c], given'[c], upgrades'[c], wsgiven'[c])
          <5>1. all = Cat(SubSeq(all, 1, Len(all)), <<>>)
            <6>1. SubSeq(all, 1, Len(all)) = all
              BY <1>1, SubSeqFull
            <6>2. Cat(all, <<>>) = all
              BY <1>1, CatFacts
            <6>3. QED
              BY <6>1, <6>2
          <5>2. PICK i \in DOMAIN all : sent[c][all[i]] = "upg"
            BY <3>2 DEF Upgrade
          <5>3. i \in 1 .. Len(all) /\ Len(all) \in 1 .. Len(all)
            BY <1>1, <5>2, LenProperties
          <5>4. Switched(sent[c], all, <<Len(all)>>, <<>>)
            BY <5>1, <5>2, <5>3 DEF Switched
          <5>5. QED
            BY <1>2, <2>2, <3>1, <4>4, <5>4
        <4>6. /\ Tied(c)' /\ DOMAIN answers' = Conns
              /\ \A d \in Conns : d # c => answers'[d] = answers[d]
              /\ \E n : mem' = [mem EXCEPT ![ctx[c]] = n]
          <5>1. Switch(r, sent'[c], given'[c], upgrades'[c], wsgiven'[c])
            BY <4>1, <4>5 DEF Switch
          <5>2. wsgiven'[c] \in Seq(Nat) /\ NonPart(sent'[c], given'[c])
            BY <1>1, <1>2, <3>1, <3>2
          <5>3. QED
            BY <1>1, <1>3, <2>1, <4>1, <4>2, <4>3, <5>1, <5>2, ActsTied DEF HistDomains
        <4>7. /\ HistDomains'
              /\ \A d \in Conns : d # c => /\ upgrades'[d] = upgrades[d]
                                             /\ wsgiven'[d] = wsgiven[d]
                                             /\ answers'[d] = answers[d]
          BY <1>3, <3>1, <3>5, <4>6 DEF HistDomains
        <4>8. \A d \in Conns : d # c => Same(d)
          <5>1. PICK n : mem' = [mem EXCEPT ![ctx[c]] = n]
            BY <4>6
          <5>2. QED
            BY <1>1, <1>2, <1>3, <2>1, <4>7, <5>1, OthersSame
        <4>9. QED
          BY <1>1, <4>6, <4>7, <4>8, OneTied
      <3>6. QED
        BY <3>1, <3>3, <3>4, <3>5
    <2>10. QED
      BY <1>7, <2>1, <2>6, <2>7, <2>8, <2>9 DEF OnData, DataNoContext, DataWebSocket
  <1>8. QED
    BY <1>5, <1>6, <1>7 DEF OnData, DataMore, DataBad, DataDone, DataUpgrade

\* What was handed over is the beginning of what was sent.
LEMMA GivenSent ==
    ASSUME NEW c \in Conns, Stream(c)
    PROVE  \A i \in DOMAIN given[c] : given[c][i] \in 1 .. Len(sent[c])
  <1>1. /\ given[c] \in Seq(Nat) /\ data[c] \in Seq(Nat) /\ got[c] \in Nat
        /\ got[c] <= Len(sent[c]) /\ Cat(given[c], data[c]) = Upto(got[c])
        /\ Len(sent[c]) \in Nat
    BY LenProperties DEF Stream
  <1>2. Len(Upto(got[c])) = got[c]
    BY <1>1, UptoMore
  <1>3. /\ DOMAIN given[c] = 1 .. Len(given[c]) /\ Len(given[c]) <= got[c]
        /\ Len(given[c]) \in Nat
    <2>1. Len(Cat(given[c], data[c])) = Len(given[c]) + Len(data[c])
      BY <1>1, CatFacts
    <2>2. DOMAIN given[c] = 1 .. Len(given[c])
      BY <1>1, LenProperties
    <2>3. Len(given[c]) \in Nat /\ Len(data[c]) \in Nat /\ got[c] \in Nat
      BY <1>1, LenProperties
    <2>4. Len(given[c]) + Len(data[c]) = got[c]
      BY <1>1, <1>2, <2>1
    <2>5. \A a, b, n \in Nat : a + b = n => a <= n
      OBVIOUS
    <2>6. Len(given[c]) <= got[c]
      BY <2>3, <2>4, <2>5
    <2>7. QED
      BY <2>2, <2>3, <2>6
  <1>4. \A i \in 1 .. Len(given[c]) : Cat(given[c], data[c])[i] = given[c][i]
    BY <1>1, MoreGiven
  <1>5. \A i \in 1 .. Len(given[c]) : given[c][i] = i
    <2> TAKE i \in 1 .. Len(given[c])
    <2>1. Upto(got[c])[i] = i
      BY <1>1, <1>3 DEF Upto
    <2>2. Upto(got[c])[i] = given[c][i]
      BY <1>1, <1>4
    <2>3. QED
      BY <2>1, <2>2
  <1>6. QED
    BY <1>1, <1>3, <1>5

\* A disconnected connection has no context and no history.
LEMMA DisconnectTied ==
    ASSUME PoolInv, StreamInv, AnswerInv, NEW c \in Conns, Disconnect(c)
    PROVE  AnswerInv'
  <1>1. HistDomains'
    BY DEF AnswerInv, HistDomains, Disconnect
  <1>2. Tied(c)'
    <2>1. /\ ctx'[c] = 0 /\ answers'[c] = 0
          /\ upgrades'[c] = <<>> /\ wsgiven'[c] = <<>>
      BY DEF AnswerInv, HistDomains, PoolInv, TypeOK, Disconnect
    <2>2. QED
      BY <2>1 DEF Tied
  <1>3. ASSUME NEW d \in Conns, d # c PROVE Same(d)
    <2>1. /\ ctx'[d] = ctx[d] /\ answers'[d] = answers[d]
          /\ upgrades'[d] = upgrades[d] /\ wsgiven'[d] = wsgiven[d]
          /\ sent'[d] = sent[d] /\ given'[d] = given[d]
      BY <1>3 DEF AnswerInv, HistDomains, PoolInv, TypeOK, StreamInv, Domains, Disconnect
    <2>2. ctx[d] # 0 => mem'[ctx[d]] = mem[ctx[d]]
      BY <1>3 DEF PoolInv, TypeOK, ContextOwned, Disconnect
    <2>3. QED
      BY <2>1, <2>2 DEF Same
  <1>4. QED
    BY <1>1, <1>2, <1>3, OneTied

\* Every step keeps the histories tied to the marks.
LEMMA AnswerStep ==
    ASSUME PoolInv, StreamInv, AnswerInv, [Next]_vars
    PROVE  AnswerInv'
  <1>a. ASSUME UNCHANGED <<ctx, mem, sent, given, answers, upgrades, wsgiven>>
        PROVE  AnswerInv'
    BY <1>a DEF AnswerInv, HistDomains, Tied
  <1> USE DEF peerVars, readVars, loopVars, httpVars
  <1>1. CASE Read
    <2>1. CASE OnData /\ ~NoData
      <3>1. cur \in Conns
        BY <2>1 DEF OnData, DataNoContext, DataWebSocket, DataMore, DataBad, DataDone,
           DataUpgrade, ToParser, Return, PoolInv, TypeOK
      <3>2. QED
        BY <2>1, <3>1, OnDataTied
    <2>2. CASE ReadCloses
      <3>1. cur \in Conns
        BY <2>2 DEF ReadCloses, PoolInv, TypeOK
      <3>2. QED
        BY <2>2, <3>1, DisconnectTied DEF ReadCloses
    <2>3. CASE \/ \E c \in Conns : \E n \in 1 .. MaxSent[c] : c = cur /\ ReadSome(n)
               \/ \E w \in {"again", "eof", "error"} : ReadStops(w)
               \/ NoData \/ ReadReturns
      BY <2>3, <1>a DEF ReadSome, ReadStops, NoData, ReadReturns
    <2>4. QED
      BY <1>1, <2>1, <2>2, <2>3 DEF Read
  <1>2. ASSUME NEW c \in Conns, NEW t \in Tokens, PeerSends(c, t)
        PROVE  AnswerInv'
    <2>1. /\ UNCHANGED <<ctx, mem, given, answers, upgrades, wsgiven>>
          /\ sent' = [sent EXCEPT ![c] = Append(sent[c], t)]
      BY <1>2 DEF PeerSends
    <2>2. /\ sent'[c] = Append(sent[c], t)
          /\ \A d \in Conns : d # c => sent'[d] = sent[d]
      BY <2>1 DEF StreamInv, Domains
    <2>3. /\ sent[c] \in Seq(Tokens) /\ given[c] \in Seq(Nat)
          /\ \A i \in DOMAIN given[c] : given[c][i] \in 1 .. Len(sent[c])
      BY GivenSent DEF StreamInv, Stream
    <2>4. /\ NonPart(sent[c], given[c]) => NonPart(sent'[c], given[c])
          /\ Upgrade(sent[c], given[c]) => Upgrade(sent'[c], given[c])
          /\ Switched(sent[c], given[c], upgrades[c], wsgiven[c])
               => Switched(sent'[c], given[c], upgrades[c], wsgiven[c])
      BY <2>2, <2>3, MoreSent
    <2>5. Tied(c)
      BY DEF AnswerInv
    <2>6. Tied(c)'
      BY <2>1, <2>4, <2>5 DEF Tied, Marks, Switch
    <2>7. HistDomains' /\ \A d \in Conns : d # c => Same(d)
      BY <2>1, <2>2 DEF AnswerInv, HistDomains, Same
    <2>8. QED
      BY <2>6, <2>7, OneTied
  <1>3. ASSUME NEW c \in Conns, Connect(c)
        PROVE  AnswerInv'
    <2>1. UNCHANGED <<sent, given, answers, upgrades, wsgiven>> /\ st[c] = "none"
      BY <1>3 DEF Connect
    <2>2. CASE UNCHANGED <<ctx, mem>>
      BY <2>1, <2>2, <1>a
    <2>3. CASE \E k \in Contexts : /\ mem[k] = Free /\ ctx' = [ctx EXCEPT ![c] = k]
                                   /\ mem' = [mem EXCEPT ![k] = NewContext(c)]
      <3>1. PICK k \in Contexts : /\ mem[k] = Free /\ ctx' = [ctx EXCEPT ![c] = k]
                                  /\ mem' = [mem EXCEPT ![k] = NewContext(c)]
        BY <2>3
      <3>2. /\ ctx[c] = 0 /\ ctx'[c] = k /\ k # 0 /\ mem'[k] = NewContext(c)
        BY <2>1, <3>1, HttpAssumption DEF PoolInv, TypeOK, ContextOwned
      <3>3. /\ ~NewContext(c).responded /\ ~NewContext(c).done /\ ~NewContext(c).user
            /\ ~NewContext(c).ws /\ NewContext(c).parser = "ok"
        BY DEF NewContext, Free
      <3>4. /\ answers[c] = 0 /\ upgrades[c] = <<>> /\ wsgiven[c] = <<>>
            /\ wsgiven[c] \in Seq(Nat)
        BY <3>2 DEF AnswerInv, Tied
      <3>5. Tied(c)'
        BY <2>1, <3>2, <3>3, <3>4 DEF Tied, Marks, Switch, Responded
      <3>6. ASSUME NEW d \in Conns, d # c PROVE Same(d)
        <4>1. ctx[d] # k
          BY <3>1, FreeType, HttpAssumption DEF PoolInv, ContextOwned
        <4>2. ctx'[d] = ctx[d] /\ (ctx[d] # 0 => mem'[ctx[d]] = mem[ctx[d]])
          BY <3>1, <3>6, <4>1 DEF PoolInv, TypeOK
        <4>3. QED
          BY <2>1, <4>2 DEF Same
      <3>7. QED
        BY <2>1, <3>5, <3>6, OneTied DEF AnswerInv, HistDomains
    <2>4. QED
      BY <1>3, <2>2, <2>3 DEF Connect
  <1>4. ASSUME NEW c \in Conns, Expire(c)
        PROVE  AnswerInv'
    BY <1>4, DisconnectTied DEF Expire
  <1>5. ASSUME NEW c \in Conns, NEW close \in BOOLEAN, AnswerLater(c, close)
        PROVE  AnswerInv'
    <2> DEFINE m == mem[ctx[c]]
    <2>1. /\ ctx[c] # 0 /\ m.user /\ Response(c, m, close) /\ m \in Context
          /\ UNCHANGED <<ctx, sent, given, upgrades, wsgiven>>
      BY <1>5 DEF AnswerLater, PoolInv, TypeOK
    <2>2. /\ answers[c] = Responded(m) /\ Marks(m, sent[c], given[c])
          /\ Switch(m, sent[c], given[c], upgrades[c], wsgiven[c])
          /\ wsgiven[c] \in Seq(Nat)
      BY <2>1 DEF AnswerInv, Tied
    <2> HIDE DEF m
    <2>3. NonPart(sent[c], given[c])
      BY <2>1, <2>2 DEF Marks
    <2>4. /\ Tied(c)' /\ DOMAIN answers' = Conns
          /\ \A d \in Conns : d # c => answers'[d] = answers[d]
      BY <2>1, <2>2, <2>3, ResponseTied DEF PoolInv, AnswerInv, HistDomains
    <2>5. mem' = [mem EXCEPT ![ctx[c]] = [m EXCEPT !.responded = TRUE]]
      BY <2>1 DEF Response
    <2>6. \A d \in Conns : d # c => Same(d)
      BY <2>1, <2>4, <2>5, OthersSame DEF PoolInv
    <2>7. QED
      BY <2>1, <2>4, <2>6, OneTied DEF AnswerInv, HistDomains
  <1>6. ASSUME NEW c \in Conns,
               \/ OutputGone(c) \/ HandlerCloses(c) \/ PeerCloses(c) \/ ReadEvent(c)
        PROVE  AnswerInv'
    BY <1>6, <1>a DEF OutputGone, HandlerCloses, PeerCloses, ReadEvent
  <1>7. CASE UNCHANGED vars
    BY <1>7, <1>a DEF vars
  <1>8. QED
    BY <1>1, <1>2, <1>3, <1>4, <1>5, <1>6, <1>7 DEF Next

\* The three invariants together are inductive.
LEMMA AllInv == Spec => [](PoolInv /\ StreamInv /\ AnswerInv)
  <1>1. Init => AnswerInv
    <2> SUFFICES ASSUME Init PROVE AnswerInv
      OBVIOUS
    <2>1. <<>> \in Seq(Nat)
      OBVIOUS
    <2>2. QED
      BY <2>1 DEF Init, AnswerInv, HistDomains, Tied
  <1>2. PoolInv /\ StreamInv /\ AnswerInv /\ [Next]_vars
          => PoolInv' /\ StreamInv' /\ AnswerInv'
    BY NextInv, StreamStep, AnswerStep DEF PoolInv
  <1>3. QED
    BY <1>1, <1>2, InitInv, StreamInit, PTL DEF Spec

\* A connection is answered at most once and upgraded at most once, and not
\* before a whole request, or an error, was read.
THEOREM NeverAnsweredTwice == Spec => []AnsweredOnce
  <1>1. AnswerInv => AnsweredOnce
    <2> SUFFICES ASSUME AnswerInv, NEW c \in Conns
                 PROVE  /\ answers[c] <= 1 /\ Len(upgrades[c]) <= 1
                        /\ answers[c] > 0 \/ upgrades[c] # <<>>
                             => NonPart(sent[c], given[c])
      BY DEF AnsweredOnce, NonPart
    <2>1. Tied(c)
      BY DEF AnswerInv
    <2>2. CASE ctx[c] = 0
      BY <2>1, <2>2 DEF Tied
    <2>3. CASE ctx[c] # 0
      <3> DEFINE m == mem[ctx[c]]
      <3>1. /\ answers[c] = Responded(m) /\ Marks(m, sent[c], given[c])
            /\ Switch(m, sent[c], given[c], upgrades[c], wsgiven[c])
        BY <2>1, <2>3 DEF Tied
      <3> HIDE DEF m
      <3>2. Len(upgrades[c]) <= 1 /\ (upgrades[c] # <<>> => m.ws)
        <4>1. \A k : Len(<<k>>) = 1
          OBVIOUS
        <4>2. CASE m.ws
          <5>1. PICK k \in 1 .. Len(given[c]) : upgrades[c] = <<k>>
            BY <3>1, <4>2 DEF Switch, Switched
          <5>2. QED
            BY <4>1, <4>2, <5>1
        <4>3. CASE ~m.ws
          BY <3>1, <4>3 DEF Switch
        <4>4. QED
          BY <4>2, <4>3
      <3>3. QED
        BY <3>1, <3>2 DEF Responded, Marks
    <2>4. QED
      BY <2>2, <2>3
  <1>2. QED
    BY <1>1, AllInv, PTL

\* The WebSocket parser is given exactly what follows the read in which the
\* upgrade was accepted.
THEOREM SwitchesCleanly == Spec => []SwitchClean
  <1>1. AnswerInv => SwitchClean
    <2> SUFFICES ASSUME AnswerInv, NEW c \in Conns
                 PROVE  IF upgrades[c] = <<>> THEN wsgiven[c] = <<>>
                        ELSE LET before == SubSeq(given[c], 1, upgrades[c][1])
                             IN  /\ given[c] = before \o wsgiven[c]
                                 /\ \E i \in DOMAIN before : sent[c][before[i]] = "upg"
      BY DEF SwitchClean
    <2>1. \/ upgrades[c] = <<>> /\ wsgiven[c] = <<>>
          \/ Switched(sent[c], given[c], upgrades[c], wsgiven[c])
      BY DEF AnswerInv, Tied, Switch
    <2>2. CASE Switched(sent[c], given[c], upgrades[c], wsgiven[c])
      <3>1. PICK k \in 1 .. Len(given[c]) :
                /\ upgrades[c] = <<k>> /\ given[c] = Cat(SubSeq(given[c], 1, k), wsgiven[c])
                /\ \E i \in 1 .. k : sent[c][given[c][i]] = "upg"
        BY <2>2 DEF Switched
      <3>2. upgrades[c] # <<>> /\ upgrades[c][1] = k
        BY <3>1
      <3> DEFINE before == SubSeq(given[c], 1, k)
      <3>3. DOMAIN before = 1 .. k /\ \A i \in 1 .. k : before[i] = given[c][i]
        OBVIOUS
      <3> HIDE DEF before
      <3>4. given[c] = before \o wsgiven[c]
        BY <3>1, Zenon DEF Cat, before
      <3>5. \E i \in DOMAIN before : sent[c][before[i]] = "upg"
        BY <3>1, <3>3
      <3>6. QED
        BY <3>2, <3>4, <3>5 DEF before
    <2>3. QED
      BY <2>1, <2>2
  <1>2. QED
    BY <1>1, AllInv, PTL

=============================================================================
