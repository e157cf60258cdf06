------------------------- MODULE DictStreamProofs --------------------------
(***************************************************************************)
(* Safety of the stream-socket dictionaries, for any set of clients, any   *)
(* dictionary and backlog, whoever is killed; and, in the second part, of  *)
(* the UDP dictionary, for any numbers of servers, clients and ports and   *)
(* buffers of any size.                                                    *)
(***************************************************************************)
EXTENDS DictStream, DictUdpState, SequenceTheorems, TLAPS

Answer(c) == [word |-> asked[c], text |-> Dict[asked[c]]]

\* Types without the bounds on what is under way.
BasicType ==
  /\ spc \in {"setup", "accept", "fork", "close", "dead", "killed"}
  /\ cd \in Clients \cup {Nobody}
  /\ backlog \in Seq(Clients) /\ Len(backlog) <= Backlog
  /\ child \in [Clients -> Serving \cup {"none", "zombie"}]
  /\ buf \in [Clients -> Recs] /\ tryit \in [Clients -> Recs]
  /\ conn \in [Clients -> {"none", "open", "closed", "reset"}]
  /\ up \in [Clients -> Seq(Recs)] /\ down \in [Clients -> Seq(Recs)]
  /\ cpc \in [Clients -> {"main", "connect", "send", "recv", "print", "exited"}]
  /\ asked \in [Clients -> Words \cup {Garbage}]

\* The descriptor of a connection: a connection is in the queue once, then in
\* the server's hands, then the child's.
FdInv ==
  /\ OpenIsServed
  /\ \A j, k \in 1..Len(backlog) : backlog[j] = backlog[k] => j = k
  /\ \A k \in 1..Len(backlog) : backlog[k] # cd /\ child[backlog[k]] = "none"
  /\ spc = "fork" => cd \in Clients /\ child[cd] = "none"
  /\ spc = "close" => cd \in Clients /\ child[cd] # "none"
  /\ spc \notin {"fork", "close"} => cd = Nobody
  /\ \A c \in Clients :
       /\ cpc[c] = "connect" => conn[c] = "none"
       /\ conn[c] = "none" => child[c] = "none"

\* The dialogue of a client and its child: one query or one answer is
\* somewhere, and only while the client waits for it or is dead.
Dialogue(c) ==
  /\ cpc[c] \notin {"recv", "exited"} =>
       up[c] = <<>> /\ down[c] = <<>> /\ child[c] \notin {"lookup", "send"}
  /\ up[c] # <<>> =>
       /\ Len(up[c]) = 1 /\ up[c][1].word = asked[c]
       /\ down[c] = <<>> /\ child[c] \notin {"lookup", "send"}
  /\ down[c] # <<>> =>
       Len(down[c]) = 1 /\ down[c][1] = Answer(c) /\ child[c] \notin {"lookup", "send"}
  /\ child[c] = "lookup" => buf[c].word = asked[c]
  /\ child[c] = "send" => buf[c] = Answer(c)
  /\ cpc[c] \in {"connect", "send"} => tryit[c].word = asked[c]
  /\ (cpc[c] \in {"connect", "send"} \/ up[c] # <<>> \/ child[c] = "lookup") =>
       asked[c] \in Words
  /\ conn[c] = "closed" => up[c] = <<>>
  /\ cpc[c] = "print" /\ conn[c] = "open" => tryit[c] = Answer(c)

DialogueInv == \A c \in Clients : Dialogue(c)

IInv == BasicType /\ FdInv /\ DialogueInv

----------------------------------------------------------------------------

\* What the end of descriptors does to the connections: those named are not
\* open any more, the others are as before.
LEMMA HangupEffect ==
  ASSUME NEW S, NEW R, Hangup(S, R),
         conn \in [Clients -> {"none", "open", "closed", "reset"}]
  PROVE  /\ conn' \in [Clients -> {"none", "open", "closed", "reset"}]
         /\ \A c \in Clients :
              /\ conn'[c] = "open" <=> conn[c] = "open" /\ c \notin S \cup R
              /\ conn'[c] = "none" <=> conn[c] = "none"
              /\ conn'[c] = "closed" => conn[c] = "closed" \/ up[c] = <<>>
BY DEF Hangup

\* Before the server listens there is nobody anywhere.
LEMMA Initial == Init => IInv
<1> SUFFICES ASSUME Init PROVE IInv OBVIOUS
<1>1. BasicType
  BY StreamAssumption DEF Init, BasicType, Recs, Texts, Serving
<1>2. FdInv
  BY StreamAssumption DEF Init, FdInv, OpenIsServed, Serving
<1>3. DialogueInv
  BY DEF Init, DialogueInv, Dialogue
<1>4. QED BY <1>1, <1>2, <1>3 DEF IInv


\* A child that ends leaves the connection to the server, if that still has
\* it, and to nobody otherwise.
LEMMA ChildEndsKeeps ==
  ASSUME IInv, NEW c \in Clients, child[c] \in Serving, ChildEnds(c)
  PROVE  IInv'
<1> USE DEF IInv
<1>0. /\ child' = [child EXCEPT ![c] = "zombie"]
      /\ Hangup({c} \ {cd}, {})
      /\ UNCHANGED <<spc, cd, backlog, buf, up, down, cpc, tryit, asked>>
  BY DEF ChildEnds, server, client
<1>1. /\ conn' \in [Clients -> {"none", "open", "closed", "reset"}]
      /\ \A d \in Clients :
           /\ conn'[d] = "open" <=> conn[d] = "open" /\ d \notin {c} \ {cd}
           /\ conn'[d] = "none" <=> conn[d] = "none"
           /\ conn'[d] = "closed" => conn[d] = "closed" \/ up[d] = <<>>
  <2> DEFINE S == {c} \ {cd}
             R == {}
  <2>1. Hangup(S, R) BY <1>0
  <2> HIDE DEF S, R
  <2>2. /\ conn' \in [Clients -> {"none", "open", "closed", "reset"}]
        /\ \A d \in Clients :
             /\ conn'[d] = "open" <=> conn[d] = "open" /\ d \notin S \cup R
             /\ conn'[d] = "none" <=> conn[d] = "none"
             /\ conn'[d] = "closed" => conn[d] = "closed" \/ up[d] = <<>>
    BY <2>1, HangupEffect DEF BasicType
  <2>3. QED BY <2>2 DEF S, R
<1>2. BasicType'
  BY <1>0, <1>1 DEF BasicType
<1>3. \A k \in 1..Len(backlog) : backlog[k] # c
  BY DEF FdInv, Serving
<1>4. OpenIsServed'
  BY <1>0, <1>1, <1>3 DEF OpenIsServed, FdInv, BasicType, Serving
<1>5. FdInv'
  BY <1>0, <1>1, <1>3, <1>4 DEF FdInv, BasicType, Serving, OpenIsServed
<1>6. DialogueInv'
  BY <1>0, <1>1 DEF DialogueInv, Dialogue, Answer, BasicType
<1>7. QED BY <1>2, <1>5, <1>6

\* The end of the server takes the queued connections and its own along and
\* leaves those of the children.
LEMMA ServerEndsKeeps ==
  ASSUME IInv, NEW how \in {"dead", "killed"}, ServerEnds(how)
  PROVE  IInv'
<1> USE DEF IInv
<1> DEFINE S == {c \in Clients : c = cd /\ child[c] \notin Serving}
           R == {backlog[k] : k \in 1..Len(backlog)}
<1>0. /\ spc' = how /\ cd' = Nobody /\ backlog' = <<>>
      /\ Hangup(S, R)
      /\ UNCHANGED <<child, buf, up, down, cpc, tryit, asked>>
  BY DEF ServerEnds, client
<1>1. /\ conn' \in [Clients -> {"none", "open", "closed", "reset"}]
      /\ \A d \in Clients :
           /\ conn'[d] = "open" <=> conn[d] = "open" /\ d \notin S \cup R
           /\ conn'[d] = "none" <=> conn[d] = "none"
           /\ conn'[d] = "closed" => conn[d] = "closed" \/ up[d] = <<>>
  BY <1>0, HangupEffect DEF BasicType
<1>2. BasicType'
  BY <1>0, <1>1, StreamAssumption DEF BasicType
<1>3. \A d \in Clients :
        conn'[d] = "open" <=> child[d] \in Serving
  <2> SUFFICES ASSUME NEW d \in Clients
               PROVE  conn'[d] = "open" <=> child[d] \in Serving
    OBVIOUS
  <2>1. CASE d \in R
    BY <1>1, <2>1 DEF FdInv, Serving
  <2>2. CASE d \notin R
    BY <1>1, <2>2 DEF FdInv, OpenIsServed
  <2>3. QED BY <2>1, <2>2
<1>4. OpenIsServed'
  BY <1>0, <1>3, StreamAssumption DEF OpenIsServed
<1>5. FdInv'
  BY <1>0, <1>1, <1>4 DEF FdInv
<1>6. DialogueInv'
  BY <1>0, <1>1 DEF DialogueInv, Dialogue, Answer
<1>7. QED BY <1>2, <1>5, <1>6

\* A connection moves from the head of the queue to the server's cd.
LEMMA AcceptKeeps == ASSUME IInv, Accept PROVE IInv'
<1> USE DEF IInv
<1>0. /\ spc = "accept" /\ spc' = "fork" /\ backlog # <<>>
      /\ cd' = Head(backlog) /\ backlog' = Tail(backlog)
      /\ UNCHANGED <<child, buf, conn, up, down, cpc, tryit, asked>>
  BY DEF Accept, wires, client
<1>1. backlog \in Seq(Clients) /\ Len(backlog) \in Nat /\ Len(backlog) # 0
  BY <1>0 DEF BasicType
<1>2. /\ cd' = backlog[1] /\ cd' \in Clients /\ backlog' \in Seq(Clients)
      /\ Len(backlog') = Len(backlog) - 1
      /\ \A k \in 1..Len(backlog') : backlog'[k] = backlog[k + 1]
  BY <1>0, <1>1
<1>3. BasicType'
  BY <1>0, <1>1, <1>2, StreamAssumption DEF BasicType
<1>4. cd = Nobody BY <1>0 DEF FdInv
<1>5. OpenIsServed'
  <2> SUFFICES ASSUME NEW c \in Clients
               PROVE  (\E k \in 1..Len(backlog) : backlog[k] = c) <=>
                        (cd' = c \/ \E k \in 1..Len(backlog') : backlog'[k] = c)
    BY <1>0, <1>4, StreamAssumption DEF FdInv, OpenIsServed
  <2>1. ASSUME NEW k \in 1..Len(backlog), backlog[k] = c, k # 1
        PROVE  k - 1 \in 1..Len(backlog') /\ backlog'[k - 1] = c
    BY <1>1, <1>2, <2>1
  <2>2. ASSUME NEW k \in 1..Len(backlog'), backlog'[k] = c
        PROVE  k + 1 \in 1..Len(backlog) /\ backlog[k + 1] = c
    BY <1>1, <1>2, <2>2
  <2>3. QED BY <1>1, <1>2, <2>1, <2>2
<1>6. FdInv'
  <2>1. \A j, k \in 1..Len(backlog') : backlog'[j] = backlog'[k] => j = k
    <3> SUFFICES ASSUME NEW j \in 1..Len(backlog'), NEW k \in 1..Len(backlog'),
                        backlog'[j] = backlog'[k]
                 PROVE  j = k
      OBVIOUS
    <3>1. /\ j + 1 \in 1..Len(backlog) /\ k + 1 \in 1..Len(backlog)
          /\ backlog[j + 1] = backlog[k + 1]
      BY <1>1, <1>2
    <3>2. j + 1 = k + 1 BY <3>1 DEF FdInv
    <3>3. QED BY <1>1, <1>2, <3>2
  <2>2. ASSUME NEW k \in 1..Len(backlog')
        PROVE  backlog'[k] # cd' /\ child[backlog'[k]] = "none"
    <3>1. /\ 1 \in 1..Len(backlog) /\ k + 1 \in 1..Len(backlog) /\ k + 1 # 1
          /\ backlog'[k] = backlog[k + 1]
      BY <1>1, <1>2
    <3>2. backlog[k + 1] # backlog[1] BY <3>1 DEF FdInv
    <3>3. QED BY <1>2, <3>1, <3>2 DEF FdInv
  <2>3. child[cd'] = "none"
    <3>1. 1 \in 1..Len(backlog) BY <1>1
    <3>2. QED BY <1>2, <3>1 DEF FdInv
  <2>4. QED BY <1>0, <1>2, <1>5, <2>1, <2>2, <2>3 DEF FdInv
<1>7. DialogueInv'
  BY <1>0 DEF DialogueInv, Dialogue, Answer
<1>8. QED BY <1>3, <1>6, <1>7

\* A connection joins the queue.
LEMMA ConnectKeeps == ASSUME IInv, NEW c \in Clients, Connect(c) PROVE IInv'
<1> USE DEF IInv
<1>0. /\ cpc[c] = "connect"
      /\ UNCHANGED <<spc, cd, child, buf, up, down, tryit, asked>>
  BY DEF Connect
<1>1. CASE cpc' = [cpc EXCEPT ![c] = "exited"] /\ UNCHANGED <<backlog, conn>>
  <2>1. BasicType' BY <1>0, <1>1 DEF BasicType
  <2>2. FdInv' BY <1>0, <1>1 DEF FdInv, OpenIsServed, BasicType
  <2>3. DialogueInv'
    BY <1>0, <1>1 DEF DialogueInv, Dialogue, Answer, BasicType
  <2>4. QED BY <2>1, <2>2, <2>3
<1>2. CASE /\ spc # "setup" /\ ~Gone /\ Len(backlog) < Backlog
           /\ backlog' = Append(backlog, c)
           /\ conn' = [conn EXCEPT ![c] = "open"]
           /\ cpc' = [cpc EXCEPT ![c] = "send"]
  <2>1. backlog \in Seq(Clients) /\ Len(backlog) \in Nat BY DEF BasicType
  <2>2. /\ backlog' \in Seq(Clients) /\ Len(backlog') = Len(backlog) + 1
        /\ backlog'[Len(backlog) + 1] = c
        /\ \A k \in 1..Len(backlog) : backlog'[k] = backlog[k]
    BY <1>2, <2>1
  <2>3. BasicType'
    BY <1>0, <1>2, <2>1, <2>2, StreamAssumption DEF BasicType
  <2>4. conn[c] = "none" /\ child[c] = "none" /\ cd # c
        /\ \A k \in 1..Len(backlog) : backlog[k] # c
    BY <1>0 DEF FdInv, OpenIsServed
  <2>5. \A d \in Clients :
          (\E k \in 1..Len(backlog') : backlog'[k] = d) <=>
             (d = c \/ \E k \in 1..Len(backlog) : backlog[k] = d)
    BY <2>1, <2>2
  <2>6. OpenIsServed'
    BY <1>0, <1>2, <2>4, <2>5 DEF FdInv, OpenIsServed, BasicType
  <2>7. \A j, k \in 1..Len(backlog') : backlog'[j] = backlog'[k] => j = k
    BY <2>1, <2>2, <2>4 DEF FdInv
  <2>8. \A k \in 1..Len(backlog') : backlog'[k] # cd /\ child[backlog'[k]] = "none"
    BY <2>1, <2>2, <2>4 DEF FdInv
  <2>9. FdInv'
    BY <1>0, <1>2, <2>4, <2>6, <2>7, <2>8 DEF FdInv, BasicType
  <2>10. DialogueInv'
    BY <1>0, <1>2 DEF DialogueInv, Dialogue, Answer, BasicType
  <2>11. QED BY <2>3, <2>9, <2>10
<1>3. QED BY <1>1, <1>2 DEF Connect, Goto

\* The server's close: the connection is the child's, or nobody's.
LEMMA CloseKeeps == ASSUME IInv, Close PROVE IInv'
<1> USE DEF IInv
<1> DEFINE S == {c \in Clients : c = cd /\ child[c] \notin Serving}
           R == {}
<1>0. /\ spc = "close" /\ spc' = "accept" /\ cd' = Nobody /\ Hangup(S, R)
      /\ UNCHANGED <<backlog, child, buf, up, down, cpc, tryit, asked>>
  BY DEF Close, client
<1> HIDE DEF S, R
<1>1. /\ conn' \in [Clients -> {"none", "open", "closed", "reset"}]
      /\ \A d \in Clients :
           /\ conn'[d] = "open" <=> conn[d] = "open" /\ d \notin S \cup R
           /\ conn'[d] = "none" <=> conn[d] = "none"
           /\ conn'[d] = "closed" => conn[d] = "closed" \/ up[d] = <<>>
  BY <1>0, HangupEffect DEF BasicType
<1>2. \A d \in Clients :
        d \in S \cup R <=> d = cd /\ child[d] \notin Serving
  BY DEF S, R
<1>3. BasicType' BY <1>0, <1>1, StreamAssumption DEF BasicType
<1>4. OpenIsServed'
  BY <1>0, <1>1, <1>2, StreamAssumption DEF FdInv, OpenIsServed, Serving, BasicType
<1>5. FdInv'
  <2>1. \A k \in 1..Len(backlog) : backlog[k] # Nobody
    BY StreamAssumption DEF BasicType
  <2>2. QED BY <1>0, <1>1, <1>4, <2>1 DEF FdInv
<1>6. DialogueInv'
  BY <1>0, <1>1 DEF DialogueInv, Dialogue, Answer
<1>7. QED BY <1>3, <1>5, <1>6

\* fork gives the connection to a child, or ends the server.
LEMMA ForkKeeps == ASSUME IInv, Fork PROVE IInv'
<1>1. CASE ServerEnds("dead") BY <1>1, ServerEndsKeeps
<1>2. CASE /\ spc' = "close" /\ child' = [child EXCEPT ![cd] = "recv"]
           /\ UNCHANGED <<cd, backlog, buf, wires, client>>
  <2> USE DEF IInv
  <2>0. /\ spc = "fork"
        /\ UNCHANGED <<cd, backlog, buf, conn, up, down, cpc, tryit, asked>>
    BY <1>2 DEF Fork, wires, client
  <2>1. cd \in Clients /\ child[cd] = "none" /\ conn[cd] = "open"
    BY <2>0 DEF FdInv, OpenIsServed
  <2>2. BasicType' BY <1>2, <2>0, <2>1 DEF BasicType, Serving
  <2>3. OpenIsServed'
    BY <1>2, <2>0, <2>1 DEF FdInv, OpenIsServed, BasicType, Serving
  <2>4. FdInv' BY <1>2, <2>0, <2>1, <2>3 DEF FdInv, BasicType
  <2>5. DialogueInv'
    BY <1>2, <2>0, <2>1 DEF DialogueInv, Dialogue, Answer, BasicType
  <2>6. QED BY <2>2, <2>4, <2>5
<1>3. QED BY <1>1, <1>2 DEF Fork

\* A child's step keeps the invariant when it moves from one place of the
\* dialogue to the next and touches no descriptor.
LEMMA ChildKeepsFds ==
  ASSUME BasicType, FdInv, NEW c \in Clients, NEW l \in Serving,
         child[c] \in Serving, child' = [child EXCEPT ![c] = l],
         UNCHANGED <<spc, cd, backlog, conn, cpc>>
  PROVE  FdInv'
<1>1. OpenIsServed' BY DEF FdInv, OpenIsServed, BasicType
<1>2. QED BY <1>1 DEF FdInv, BasicType, Serving

\* The child takes the query from the connection.
LEMMA ChildRecvKeeps == ASSUME IInv, NEW c \in Clients, ChildRecv(c) PROVE IInv'
<1> USE DEF IInv
<1>0. /\ child[c] = "recv" /\ up[c] # <<>>
      /\ buf' = [buf EXCEPT ![c] = Head(up[c])]
      /\ up' = [up EXCEPT ![c] = Tail(up[c])]
      /\ child' = [child EXCEPT ![c] = "lookup"]
      /\ UNCHANGED <<spc, cd, backlog, conn, down, cpc, tryit, asked>>
  BY DEF ChildRecv, server, client
<1>1. /\ up[c] \in Seq(Recs) /\ Len(up[c]) = 1 /\ up[c][1].word = asked[c]
      /\ down[c] = <<>> /\ asked[c] \in Words /\ cpc[c] \in {"recv", "exited"}
  BY <1>0 DEF DialogueInv, Dialogue, BasicType
<1>2. Head(up[c]) = up[c][1] /\ Head(up[c]) \in Recs /\ Tail(up[c]) = <<>>
      /\ Tail(up[c]) \in Seq(Recs)
  <2>1. Tail(up[c]) \in Seq(Recs) /\ Len(Tail(up[c])) = 0 BY <1>0, <1>1
  <2>2. Tail(up[c]) = <<>> BY <2>1, EmptySeq
  <2>3. Head(up[c]) = up[c][1] /\ Head(up[c]) \in Recs BY <1>1
  <2>4. QED BY <2>1, <2>2, <2>3
<1>3. BasicType' BY <1>0, <1>2 DEF BasicType, Serving
<1>4. FdInv' BY <1>0, ChildKeepsFds DEF Serving
<1>5. DialogueInv'
  <2> SUFFICES ASSUME NEW d \in Clients PROVE Dialogue(d)' BY DEF DialogueInv
  <2>1. CASE d = c
    BY <1>0, <1>1, <1>2, <2>1 DEF Dialogue, BasicType
  <2>2. CASE d # c
    BY <1>0, <2>2 DEF DialogueInv, Dialogue, Answer, BasicType
  <2>3. QED BY <2>1, <2>2
<1>6. QED BY <1>3, <1>4, <1>5

\* lookup replaces the text and nothing else.
LEMMA LookupKeeps == ASSUME IInv, NEW c \in Clients, Lookup(c) PROVE IInv'
<1>1. CASE ChildEnds(c) BY <1>1, ChildEndsKeeps DEF Lookup, Serving
<1>2. CASE /\ buf' = [buf EXCEPT ![c].text = Dict[buf[c].word]]
           /\ child' = [child EXCEPT ![c] = "send"]
           /\ UNCHANGED <<server, wires, client>>
  <2> USE DEF IInv
  <2>0. /\ child[c] = "lookup"
        /\ UNCHANGED <<spc, cd, backlog, conn, up, down, cpc, tryit, asked>>
    BY <1>2 DEF Lookup, server, wires, client
  <2>1. /\ buf[c] \in Recs /\ buf[c].word = asked[c] /\ asked[c] \in Words
        /\ up[c] = <<>> /\ down[c] = <<>> /\ cpc[c] \in {"recv", "exited"}
    BY <2>0 DEF DialogueInv, Dialogue, BasicType
  <2>2. Dict[asked[c]] \in Texts BY <2>1 DEF Texts
  <2>3. [buf[c] EXCEPT !.text = Dict[buf[c].word]] = Answer(c) /\ Answer(c) \in Recs
    BY <2>1, <2>2 DEF Answer, Recs
  <2>4. buf' = [buf EXCEPT ![c] = Answer(c)] BY <1>2, <2>3 DEF BasicType
  <2>5. BasicType'
    <3>1. buf' \in [Clients -> Recs] BY <2>3, <2>4 DEF BasicType
    <3>2. child' \in [Clients -> Serving \cup {"none", "zombie"}]
      BY <1>2 DEF BasicType, Serving
    <3>3. QED BY <2>0, <3>1, <3>2 DEF BasicType
  <2>6. FdInv' BY <1>2, <2>0, ChildKeepsFds DEF Serving
  <2>7. DialogueInv'
    <3> SUFFICES ASSUME NEW d \in Clients PROVE Dialogue(d)' BY DEF DialogueInv
    <3>1. CASE d = c
      BY <1>2, <2>0, <2>1, <2>4, <3>1 DEF Dialogue, DialogueInv, Answer, BasicType
    <3>2. CASE d # c
      BY <1>2, <2>0, <2>4, <3>2 DEF DialogueInv, Dialogue, Answer, BasicType
    <3>3. QED BY <3>1, <3>2
  <2>8. QED BY <2>5, <2>6, <2>7
<1>3. QED BY <1>1, <1>2 DEF Lookup

\* The answer goes into the connection, or the child ends.
LEMMA ChildSendKeeps == ASSUME IInv, NEW c \in Clients, ChildSend(c) PROVE IInv'
<1>0. child[c] = "send" BY DEF ChildSend
<1>1. CASE ChildEnds(c) BY <1>0, <1>1, ChildEndsKeeps DEF Serving
<1>2. CASE /\ child' = [child EXCEPT ![c] = "recv"]
           /\ \/ down' = [down EXCEPT ![c] = Append(down[c], buf[c])]
              \/ UNCHANGED down
           /\ UNCHANGED <<spc, cd, backlog, buf, conn, up, cpc, tryit, asked>>
  <2> USE DEF IInv
  <2>1. /\ buf[c] = Answer(c) /\ buf[c] \in Recs
        /\ up[c] = <<>> /\ down[c] = <<>> /\ cpc[c] \in {"recv", "exited"}
    BY <1>0 DEF DialogueInv, Dialogue, BasicType
  <2>2. /\ Append(down[c], buf[c]) = <<Answer(c)>>
        /\ <<Answer(c)>> \in Seq(Recs) /\ Len(<<Answer(c)>>) = 1
        /\ <<Answer(c)>>[1] = Answer(c)
    BY <2>1
  <2>3. BasicType'
    <3>1. down' = down \/ down' = [down EXCEPT ![c] = <<Answer(c)>>] BY <1>2, <2>2
    <3>2. down' \in [Clients -> Seq(Recs)]
      <4>1. down \in [Clients -> Seq(Recs)] BY DEF BasicType
      <4>2. QED BY <2>2, <3>1, <4>1
    <3>3. QED BY <1>2, <3>2 DEF BasicType, Serving
  <2>4. FdInv' BY <1>0, <1>2, ChildKeepsFds DEF Serving
  <2>5. DialogueInv'
    <3> SUFFICES ASSUME NEW d \in Clients PROVE Dialogue(d)' BY DEF DialogueInv
    <3>1. CASE d = c
      <4>1. Answer(c)' = Answer(c) BY <1>2 DEF Answer
      <4>2. child'[c] = "recv" /\ up'[c] = <<>> /\ (down'[c] = <<>> \/ down'[c] = <<Answer(c)>>)
        BY <1>2, <2>1, <2>2 DEF BasicType
      <4>3. QED
        BY <1>2, <2>1, <2>2, <3>1, <4>1, <4>2 DEF Dialogue, DialogueInv
    <3>2. CASE d # c
      BY <1>2, <3>2 DEF DialogueInv, Dialogue, Answer, BasicType
    <3>3. QED BY <3>1, <3>2
  <2>6. QED BY <2>3, <2>4, <2>5
<1>3. QED BY <1>1, <1>2 DEF ChildSend, server, wires, client

\* A client's step keeps the descriptors where they are.
LEMMA ClientKeepsFds ==
  ASSUME BasicType, FdInv, NEW c \in Clients,
         NEW l \in {"main", "connect", "send", "recv", "print", "exited"},
         l = "connect" => conn[c] = "none",
         cpc' = [cpc EXCEPT ![c] = l], UNCHANGED <<spc, cd, backlog, child, conn>>
  PROVE  FdInv'
<1>1. OpenIsServed' BY DEF FdInv, OpenIsServed
<1>2. QED BY <1>1 DEF FdInv, BasicType

\* A client's step that only moves its pc, when there is nothing under way in
\* the dialogue or the client has left it.
LEMMA MoveKeeps ==
  ASSUME IInv, NEW c \in Clients, NEW l \in {"main", "recv", "print", "exited"},
         l \in {"main", "print"} =>
           up[c] = <<>> /\ down[c] = <<>> /\ child[c] \notin {"lookup", "send"},
         l = "print" => conn[c] # "open",
         cpc' = [cpc EXCEPT ![c] = l],
         UNCHANGED <<spc, cd, backlog, child, buf, conn, up, down, tryit, asked>>
  PROVE  IInv'
<1> USE DEF IInv
<1>1. BasicType' BY DEF BasicType
<1>2. FdInv' BY ClientKeepsFds
<1>3. DialogueInv' BY DEF DialogueInv, Dialogue, Answer, BasicType
<1>4. QED BY <1>1, <1>2, <1>3

\* The user's word is put into the record before anything else happens.
LEMMA GetWordKeeps ==
  ASSUME IInv, NEW c \in Clients, NEW w \in Words, GetWord(c, w) PROVE IInv'
<1> USE DEF IInv
<1> DEFINE l == IF conn[c] = "none" THEN "connect" ELSE "send"
<1>0. /\ cpc[c] = "main" /\ cpc' = [cpc EXCEPT ![c] = l]
      /\ tryit' = [tryit EXCEPT ![c] = [tryit[c] EXCEPT !.word = w]]
      /\ asked' = [asked EXCEPT ![c] = w]
      /\ UNCHANGED <<spc, cd, backlog, child, buf, conn, up, down>>
  BY DEF GetWord, Goto, server, wires
<1>1. tryit[c] \in Recs BY DEF BasicType
<1>2. [tryit[c] EXCEPT !.word = w] \in Recs /\ [tryit[c] EXCEPT !.word = w].word = w
  BY <1>1 DEF Recs
<1>3. l \in {"connect", "send"} /\ (l = "connect" => conn[c] = "none") OBVIOUS
<1> HIDE DEF l
<1>4. BasicType' BY <1>0, <1>2, <1>3 DEF BasicType
<1>5. FdInv' BY <1>0, <1>3, ClientKeepsFds
<1>6. DialogueInv'
  <2> SUFFICES ASSUME NEW d \in Clients PROVE Dialogue(d)' BY DEF DialogueInv
  <2>1. CASE d = c
    <3>1. /\ cpc'[c] \in {"connect", "send"} /\ tryit'[c].word = w /\ asked'[c] = w
      BY <1>0, <1>2, <1>3 DEF BasicType
    <3>2. up[c] = <<>> /\ down[c] = <<>> /\ child[c] \notin {"lookup", "send"}
      BY <1>0 DEF DialogueInv, Dialogue
    <3>3. QED BY <1>0, <2>1, <3>1, <3>2 DEF Dialogue
  <2>2. CASE d # c
    BY <1>0, <2>2 DEF DialogueInv, Dialogue, Answer, BasicType
  <2>3. QED BY <2>1, <2>2
<1>7. QED BY <1>4, <1>5, <1>6

\* The query goes into the connection while that is open.
LEMMA SendKeeps == ASSUME IInv, NEW c \in Clients, Send(c) PROVE IInv'
<1>0. /\ cpc[c] = "send"
      /\ UNCHANGED <<spc, cd, backlog, child, buf, conn, down, tryit, asked>>
  BY DEF Send, server
<1>1. CASE UNCHANGED up /\ (Goto(c, "recv") \/ Goto(c, "exited"))
  BY <1>0, <1>1, MoveKeeps DEF Goto
<1>2. CASE /\ conn[c] = "open" /\ Goto(c, "recv")
           /\ up' = [up EXCEPT ![c] = Append(up[c], tryit[c])]
  <2> USE DEF IInv
  <2>1. /\ up[c] = <<>> /\ down[c] = <<>> /\ child[c] \notin {"lookup", "send"}
        /\ tryit[c] \in Recs /\ tryit[c].word = asked[c] /\ asked[c] \in Words
    BY <1>0 DEF DialogueInv, Dialogue, BasicType
  <2>2. /\ Append(up[c], tryit[c]) = <<tryit[c]>> /\ <<tryit[c]>> \in Seq(Recs)
        /\ Len(<<tryit[c]>>) = 1 /\ <<tryit[c]>>[1] = tryit[c]
    BY <2>1
  <2>3. cpc' = [cpc EXCEPT ![c] = "recv"] /\ up' = [up EXCEPT ![c] = <<tryit[c]>>]
    BY <1>2, <2>2 DEF Goto
  <2>4. BasicType' BY <1>0, <2>2, <2>3 DEF BasicType
  <2>5. FdInv' BY <1>0, <2>3, ClientKeepsFds
  <2>6. DialogueInv'
    <3> SUFFICES ASSUME NEW d \in Clients PROVE Dialogue(d)' BY DEF DialogueInv
    <3>1. CASE d = c
      BY <1>0, <1>2, <2>1, <2>2, <2>3, <3>1 DEF Dialogue, BasicType
    <3>2. CASE d # c
      BY <1>0, <2>3, <3>2 DEF DialogueInv, Dialogue, Answer, BasicType
    <3>3. QED BY <3>1, <3>2
  <2>7. QED BY <2>4, <2>5, <2>6
<1>3. QED BY <1>1, <1>2 DEF Send

\* The answer is taken from the connection.
LEMMA RecvKeeps == ASSUME IInv, NEW c \in Clients, Recv(c) PROVE IInv'
<1> USE DEF IInv
<1>0. /\ cpc[c] = "recv" /\ down[c] # <<>>
      /\ tryit' = [tryit EXCEPT ![c] = Head(down[c])]
      /\ down' = [down EXCEPT ![c] = Tail(down[c])]
      /\ cpc' = [cpc EXCEPT ![c] = "print"]
      /\ UNCHANGED <<spc, cd, backlog, child, buf, conn, up, asked>>
  BY DEF Recv, Goto, server
<1>1. /\ down[c] \in Seq(Recs) /\ Len(down[c]) = 1 /\ down[c][1] = Answer(c)
      /\ child[c] \notin {"lookup", "send"} /\ up[c] = <<>>
  BY <1>0 DEF DialogueInv, Dialogue, BasicType
<1>2. /\ Head(down[c]) = Answer(c) /\ Answer(c) \in Recs
      /\ Tail(down[c]) \in Seq(Recs) /\ Tail(down[c]) = <<>>
  <2>1. Tail(down[c]) \in Seq(Recs) /\ Len(Tail(down[c])) = 0 BY <1>0, <1>1
  <2>2. Tail(down[c]) = <<>> BY <2>1, EmptySeq
  <2>3. Head(down[c]) = down[c][1] /\ Head(down[c]) \in Recs BY <1>1
  <2>4. QED BY <1>1, <2>1, <2>2, <2>3
<1>3. BasicType' BY <1>0, <1>2 DEF BasicType
<1>4. FdInv' BY <1>0, ClientKeepsFds
<1>5. DialogueInv'
  <2> SUFFICES ASSUME NEW d \in Clients PROVE Dialogue(d)' BY DEF DialogueInv
  <2>1. CASE d = c
    <3>1. Answer(c)' = Answer(c) BY <1>0 DEF Answer
    <3>2. cpc'[c] = "print" /\ tryit'[c] = Answer(c) /\ down'[c] = <<>>
      BY <1>0, <1>2 DEF BasicType
    <3>3. QED BY <1>0, <1>1, <2>1, <3>1, <3>2 DEF Dialogue
  <2>2. CASE d # c
    BY <1>0, <2>2 DEF DialogueInv, Dialogue, Answer, BasicType
  <2>3. QED BY <2>1, <2>2
<1>6. QED BY <1>3, <1>4, <1>5

\* Every step keeps the invariant.
LEMMA Step == IInv /\ [Next]_vars => IInv'
<1> SUFFICES ASSUME IInv, [Next]_vars PROVE IInv' OBVIOUS
<1>1. CASE ServerListen
  <2> USE DEF IInv
  <2>1. BasicType' BY <1>1 DEF ServerListen, BasicType, wires, client
  <2>2. FdInv' BY <1>1 DEF ServerListen, FdInv, OpenIsServed, wires, client
  <2>3. DialogueInv'
    BY <1>1 DEF ServerListen, DialogueInv, Dialogue, Answer, wires, client
  <2>4. QED BY <2>1, <2>2, <2>3
<1>2. CASE Accept BY <1>2, AcceptKeeps
<1>3. CASE Fork BY <1>3, ForkKeeps
<1>4. CASE Close BY <1>4, CloseKeeps
<1>5. CASE KillServer BY <1>5, ServerEndsKeeps DEF KillServer
<1>6. ASSUME NEW c \in Clients, ChildStep(c) \/ KillChild(c) PROVE IInv'
  <2>1. CASE ChildRecv(c) BY <2>1, ChildRecvKeeps
  <2>2. CASE ChildEof(c) BY <2>2, ChildEndsKeeps DEF ChildEof, Serving
  <2>3. CASE Lookup(c) BY <2>3, LookupKeeps
  <2>4. CASE ChildSend(c) BY <2>4, ChildSendKeeps
  <2>5. CASE KillChild(c) BY <2>5, ChildEndsKeeps DEF KillChild
  <2>6. QED BY <1>6, <2>1, <2>2, <2>3, <2>4, <2>5 DEF ChildStep
<1>7. ASSUME NEW c \in Clients, NEW w \in Words, GetWord(c, w) PROVE IInv'
  BY <1>7, GetWordKeeps
<1>8. ASSUME NEW c \in Clients, Quit(c) \/ KillClient(c) \/ RecvReset(c) PROVE IInv'
  <2>1. /\ cpc' = [cpc EXCEPT ![c] = "exited"]
        /\ UNCHANGED <<spc, cd, backlog, child, buf, conn, up, down, tryit, asked>>
    BY <1>8 DEF Quit, KillClient, RecvReset, Goto, server, wires
  <2>2. QED BY <2>1, MoveKeeps
<1>9. ASSUME NEW c \in Clients, ClientStep(c) PROVE IInv'
  <2>1. CASE Connect(c) BY <2>1, ConnectKeeps
  <2>2. CASE Send(c) BY <2>2, SendKeeps
  <2>3. CASE Recv(c) BY <2>3, RecvKeeps
  <2>4. CASE RecvEof(c)
    <3>1. /\ conn[c] = "closed" /\ down[c] = <<>>
          /\ cpc' = [cpc EXCEPT ![c] = "print"]
          /\ UNCHANGED <<spc, cd, backlog, child, buf, conn, up, down, tryit, asked>>
      BY <2>4 DEF RecvEof, Goto, server, wires
    <3>2. up[c] = <<>> BY <3>1 DEF IInv, DialogueInv, Dialogue
    <3>3. child[c] \notin Serving BY <3>1 DEF IInv, FdInv, OpenIsServed
    <3>4. QED BY <3>1, <3>2, <3>3, MoveKeeps DEF Serving
  <2>5. CASE RecvReset(c) BY <1>8, <2>5
  <2>6. CASE PrintAnswer(c)
    <3>1. /\ cpc[c] = "print" /\ cpc' = [cpc EXCEPT ![c] = "main"]
          /\ UNCHANGED <<spc, cd, backlog, child, buf, conn, up, down, tryit, asked>>
      BY <2>6 DEF PrintAnswer, Goto, server, wires
    <3>2. up[c] = <<>> /\ down[c] = <<>> /\ child[c] \notin {"lookup", "send"}
      BY <3>1 DEF IInv, DialogueInv, Dialogue
    <3>3. QED BY <3>1, <3>2, MoveKeeps
  <2>7. QED BY <1>9, <2>1, <2>2, <2>3, <2>4, <2>5, <2>6 DEF ClientStep
<1>10. CASE UNCHANGED vars
  <2> USE <1>10 DEF IInv, vars, server, wires, client
  <2>1. BasicType' BY DEF BasicType
  <2>2. FdInv' BY DEF FdInv, OpenIsServed
  <2>3. DialogueInv' BY DEF DialogueInv, Dialogue, Answer
  <2>4. QED BY <2>1, <2>2, <2>3
<1>11. QED
  BY <1>1, <1>2, <1>3, <1>4, <1>5, <1>6, <1>7, <1>8, <1>9, <1>10 DEF Next, ServerStep

\* The three parts of the invariant hold together in every state.
LEMMA Invariance == Spec => []IInv
<1>1. Init => IInv BY Initial
<1>2. IInv /\ [Next]_vars => IInv' BY Step
<1>3. QED BY <1>1, <1>2, PTL DEF Spec

\* Every variable keeps its type, and a connection never holds more than one
\* query and one answer, however usock_server, isock_server, lookup7 and
\* lookup8 interleave and whoever is killed.
THEOREM TypeCorrect == Spec => []TypeOK
<1>1. IInv => TypeOK
  <2> SUFFICES ASSUME IInv PROVE TypeOK OBVIOUS
  <2>1. \A c \in Clients : (up[c] = <<>> \/ Len(up[c]) = 1) /\ (down[c] = <<>> \/ Len(down[c]) = 1)
    BY DEF IInv, DialogueInv, Dialogue
  <2>2. Len(<<>>) = 0 OBVIOUS
  <2>3. \A c \in Clients : Len(up[c]) \in {0, 1} /\ Len(down[c]) \in {0, 1}
    BY <2>1, <2>2
  <2>4. QED BY <2>3 DEF IInv, BasicType, TypeOK
<1>2. QED BY <1>1, Invariance, PTL

\* A connection stands exactly as long as it is queued, in the hands of the
\* accepting server or served by a living child: the parent's close(cd) and the
\* ends of children and server leave no connection behind that nobody reads.
THEOREM Served == Spec => []OpenIsServed
<1>1. IInv => OpenIsServed BY DEF IInv, FdInv
<1>2. QED BY <1>1, Invariance, PTL

\* lookup7 and lookup8 return the dictionary's answer to the word just asked
\* for as long as the connection stands.
THEOREM InStep == Spec => []AnswerWhileConnected
<1>1. IInv => AnswerWhileConnected
  BY DEF IInv, DialogueInv, Dialogue, Answer, AnswerWhileConnected
<1>2. QED BY <1>1, Invariance, PTL

----------------------------------------------------------------------------
(* The UDP dictionary: its state comes from DictUdpState, its steps are    *)
(* those of DictUdp.                                                       *)

Udp == INSTANCE DictUdp

Datagrams == [from : Ports, rec : Udp!Record]

\* The queries a server has: number 0 is its job, the others are in its buffer.
Query(s, k) == IF k = 0 THEN job[s] ELSE sq[s][k]

UdpType ==
  /\ splace \in [Servers -> {"off", "recv", "lookup"}]
  /\ sq \in [Servers -> Seq(Datagrams)] /\ cq \in [Ports -> Seq(Udp!Record)]
  /\ \A s \in Servers :
       /\ Len(sq[s]) <= QMax /\ (splace[s] = "off" => sq[s] = <<>>)
       /\ IF splace[s] = "lookup" THEN job[s] \in Datagrams ELSE job[s] = Udp!NoJob
  /\ \A p \in Ports : Len(cq[p]) <= QMax
  /\ cplace \in [Clients -> {"off", "prompt", "send", "recv", "printed"}]
  /\ job \in [Servers -> [from : Ports \cup {Unset}, rec : Udp!Record]]
  /\ queries \in 0..MaxQueries
  /\ port \in [Clients -> Ports \cup {Unset}] /\ clean \in [Clients -> BOOLEAN]
  /\ rec \in [Clients -> Udp!Record] /\ typed \in [Clients -> Words \cup {Unset}]

\* A port belongs to one client; a buffer without an owner is empty.
Free(p) == \A c \in Clients : port[c] # p
PortInv ==
  /\ \A c, d \in Clients : port[c] = port[d] /\ port[c] # Unset => c = d
  /\ \A c \in Clients :
       /\ cplace[c] \in {"off", "prompt"} => port[c] = Unset
       /\ cplace[c] \in {"recv", "printed"} => port[c] # Unset
       /\ clean[c] => port[c] # Unset
  /\ \A p \in Ports : Free(p) => cq[p] = <<>>

\* Query k of server s came from port p.
From(s, k, p) == k \in 0..Len(sq[s]) /\ Query(s, k).from = p

\* Queries carry a word, answers a word with its own text.
Right(r) == r.word \in Words /\ r.text = Dict[r.word]
PairInv ==
  /\ \A c \in Clients :
       /\ cplace[c] \in {"send", "recv"} => rec[c].word = typed[c] /\ typed[c] \in Words
       /\ cplace[c] = "printed" => Right(rec[c])
  /\ \A s \in Servers, k \in Nat, p \in Ports : From(s, k, p) => Query(s, k).rec.word \in Words
  /\ \A p \in Ports : \A k \in 1..Len(cq[p]) : Right(cq[p][k])

\* At most one datagram of port p is under way, about word w: a query with
\* one server, or its answer.
Single(p, w) ==
  /\ \A s, t \in Servers, j, k \in Nat : From(s, j, p) /\ From(t, k, p) => s = t /\ j = k
  /\ \A s \in Servers, k \in Nat : From(s, k, p) => Query(s, k).rec.word = w /\ cq[p] = <<>>
  /\ Len(cq[p]) <= 1 /\ (cq[p] # <<>> => cq[p][1].word = w)
Quiet(p) == cq[p] = <<>> /\ \A s \in Servers, k \in Nat : ~From(s, k, p)

Turn(c) ==
  clean[c] => /\ IF cplace[c] = "recv" THEN Single(port[c], typed[c]) ELSE Quiet(port[c])
              /\ cplace[c] = "printed" => rec[c].word = typed[c]
TurnInv == \A c \in Clients : Turn(c)

UdpInv == UdpType /\ PortInv /\ PairInv /\ TurnInv

LEMMA TailFacts ==
  ASSUME NEW S, NEW q \in Seq(S), q # <<>>
  PROVE  /\ Len(q) \in Nat \ {0} /\ Head(q) = q[1] /\ Head(q) \in S
         /\ Tail(q) \in Seq(S) /\ Len(Tail(q)) = Len(q) - 1
         /\ \A k \in 1..Len(Tail(q)) : Tail(q)[k] = q[k + 1]
  OBVIOUS

LEMMA PutFacts ==
  ASSUME NEW S, NEW q \in Seq(S), NEW d \in S, Len(q) <= QMax
  PROVE  /\ Udp!Put(q, d) \in Seq(S) /\ Len(Udp!Put(q, d)) <= QMax
         /\ Len(Udp!Put(q, d)) \in {Len(q), Len(q) + 1}
         /\ \A k \in 1..Len(q) : Udp!Put(q, d)[k] = q[k]
         /\ \A k \in 1..Len(Udp!Put(q, d)) : k \in 1..Len(q) \/ (k = Len(q) + 1 /\ Udp!Put(q, d)[k] = d)
<1>1. QMax \in Nat \ {0} BY UdpAssumption
<1>2. CASE Len(q) < QMax
  <2>1. Udp!Put(q, d) = Append(q, d) BY <1>2 DEF Udp!Put
  <2>2. Append(q, d) \in Seq(S) /\ Len(Append(q, d)) = Len(q) + 1 /\ Len(q) \in Nat
    OBVIOUS
  <2>3. /\ \A k \in 1..Len(q) : Append(q, d)[k] = q[k]
        /\ Append(q, d)[Len(q) + 1] = d
    OBVIOUS
  <2>4. \A k \in 1..Len(q) + 1 : k \in 1..Len(q) \/ k = Len(q) + 1 BY <2>2
  <2>5. Len(q) + 1 <= QMax BY <1>1, <1>2, <2>2
  <2>6. QED BY <2>1, <2>2, <2>3, <2>4, <2>5
<1>3. CASE ~(Len(q) < QMax)
  <2>1. Udp!Put(q, d) = q BY <1>3 DEF Udp!Put
  <2>2. QED BY <1>1, <1>3, <2>1
<1>4. QED BY <1>2, <1>3

LEMMA PutEmpty == ASSUME NEW d PROVE Udp!Put(<<>>, d) = <<d>>
<1>1. QMax \in Nat \ {0} /\ Len(<<>>) = 0 BY UdpAssumption
<1>2. Append(<<>>, d) = <<d>> OBVIOUS
<1>3. QED BY <1>1, <1>2 DEF Udp!Put

\* A query of the kernel's or the server's is one with a number.
LEMMA OnTheWayFrom ==
  ASSUME UdpType, NEW p \in Ports
  PROVE  Udp!OnTheWay(p) <=> \E s \in Servers, k \in Nat : From(s, k, p)
<1>0. \A s \in Servers : Len(sq[s]) \in Nat BY DEF UdpType
<1>1. ASSUME Udp!OnTheWay(p) PROVE \E s \in Servers, k \in Nat : From(s, k, p)
  <2>1. PICK s \in Servers : job[s].from = p \/ \E k \in 1..Len(sq[s]) : sq[s][k].from = p
    BY <1>1 DEF Udp!OnTheWay
  <2>2. CASE job[s].from = p
    <3>1. From(s, 0, p) BY <1>0, <2>2 DEF From, Query
    <3>2. QED BY <3>1
  <2>3. ASSUME NEW k \in 1..Len(sq[s]), sq[s][k].from = p PROVE From(s, k, p) /\ k \in Nat
    BY <1>0, <2>3 DEF From, Query
  <2>4. QED BY <2>1, <2>2, <2>3
<1>2. ASSUME NEW s \in Servers, NEW k \in Nat, From(s, k, p) PROVE Udp!OnTheWay(p)
  BY <1>0, <1>2 DEF From, Query, Udp!OnTheWay
<1>3. QED BY <1>1, <1>2

\* Every query came from a port and is a datagram.
LEMMA FromDatagram ==
  ASSUME UdpType, NEW s \in Servers, NEW k \in Nat, NEW p \in Ports, From(s, k, p)
  PROVE  Query(s, k) \in Datagrams /\ (k = 0 => splace[s] = "lookup")
<1>1. Unset \notin Ports BY UdpAssumption
<1>2. CASE k = 0
  <2>1. job[s].from # Unset BY <1>1, <1>2 DEF From, Query
  <2>2. splace[s] = "lookup" BY <2>1 DEF UdpType, Udp!NoJob
  <2>3. QED BY <1>2, <2>2 DEF UdpType, Query
<1>3. CASE k # 0
  <2>1. k \in 1..Len(sq[s]) BY <1>3 DEF From, UdpType
  <2>2. sq[s] \in Seq(Datagrams) BY DEF UdpType
  <2>3. sq[s][k] \in Datagrams BY <2>1, <2>2
  <2>4. QED BY <1>3, <2>3 DEF Query
<1>4. QED BY <1>2, <1>3

LEMMA UdpInit == ASSUME Udp!Init PROVE UdpInv
<1> USE DEF Udp!Init
<1>1. Udp!NoRec \in Udp!Record BY DEF Udp!NoRec, Udp!Record, Udp!Replies
<1>2. UdpType
  <2>1. job \in [Servers -> [from : Ports \cup {Unset}, rec : Udp!Record]]
    BY <1>1 DEF Udp!NoJob
  <2>2. queries \in 0..MaxQueries BY UdpAssumption
  <2>3. \A s \in Servers : Len(sq[s]) <= QMax BY UdpAssumption
  <2>4. \A p \in Ports : Len(cq[p]) <= QMax BY UdpAssumption
  <2>5. QED BY <1>1, <2>1, <2>2, <2>3, <2>4 DEF UdpType
<1>3. \A s \in Servers, k \in Nat, p \in Ports : ~From(s, k, p)
  BY UdpAssumption DEF From, Query, Udp!NoJob
<1>4. PortInv BY DEF PortInv
<1>5. PairInv BY <1>3 DEF PairInv
<1>6. TurnInv BY DEF TurnInv, Turn
<1>7. QED BY <1>2, <1>4, <1>5, <1>6 DEF UdpInv

\* Queries that only change their numbers leave what Single and Quiet say.
LEMMA SingleMoves ==
  ASSUME NEW p \in Ports, NEW w, Single(p, w), cq'[p] = cq[p], NEW old \in [Servers -> [Nat -> Nat]],
         \A t \in Servers, j, k \in Nat : old[t][j] = old[t][k] => j = k,
         \A t \in Servers, k \in Nat :
           From(t, k, p)' => From(t, old[t][k], p) /\ Query(t, k)' = Query(t, old[t][k])
  PROVE  Single(p, w)'
<1>1. \A t \in Servers, k \in Nat : old[t][k] \in Nat OBVIOUS
<1>2. ASSUME NEW s \in Servers, NEW t \in Servers, NEW j \in Nat, NEW k \in Nat,
             From(s, j, p)', From(t, k, p)'
      PROVE  s = t /\ j = k
  <2>1. From(s, old[s][j], p) /\ From(t, old[t][k], p) BY <1>2
  <2>2. s = t /\ old[s][j] = old[t][k] BY <1>1, <2>1 DEF Single
  <2>3. QED BY <2>2
<1>3. ASSUME NEW s \in Servers, NEW k \in Nat, From(s, k, p)'
      PROVE  Query(s, k)'.rec.word = w /\ cq'[p] = <<>>
  <2>1. From(s, old[s][k], p) /\ Query(s, k)' = Query(s, old[s][k]) BY <1>3
  <2>2. Query(s, old[s][k]).rec.word = w /\ cq[p] = <<>> BY <1>1, <2>1 DEF Single
  <2>3. QED BY <2>1, <2>2
<1>4. Len(cq'[p]) <= 1 /\ (cq'[p] # <<>> => cq'[p][1].word = w) BY DEF Single
<1>5. QED BY <1>2, <1>3, <1>4 DEF Single

LEMMA QuietMoves ==
  ASSUME NEW p \in Ports, Quiet(p), cq'[p] = cq[p], NEW old \in [Servers -> [Nat -> Nat]],
         \A t \in Servers, k \in Nat : From(t, k, p)' => From(t, old[t][k], p)
  PROVE  Quiet(p)'
<1>1. \A t \in Servers, k \in Nat : old[t][k] \in Nat OBVIOUS
<1>2. ASSUME NEW t \in Servers, NEW k \in Nat, From(t, k, p)' PROVE FALSE
  <2>1. From(t, old[t][k], p) BY <1>2
  <2>2. QED BY <1>1, <2>1 DEF Quiet
<1>3. QED BY <1>2 DEF Quiet

\* Steps that at most number queries anew and take some away: nothing changes
\* for the clients.
LEMMA MovedKeeps ==
  ASSUME UdpInv, UdpType', cq' = cq, UNCHANGED Udp!clientVars,
         NEW old \in [Servers -> [Nat -> Nat]],
         \A t \in Servers, j, k \in Nat : old[t][j] = old[t][k] => j = k,
         \A t \in Servers, k \in Nat, p \in Ports :
           From(t, k, p)' => From(t, old[t][k], p) /\ Query(t, k)' = Query(t, old[t][k])
  PROVE  UdpInv'
<1>0. UNCHANGED <<cplace, port, rec, typed, queries, clean>> BY DEF Udp!clientVars
<1>1. PortInv' BY <1>0 DEF UdpInv, PortInv, Free
<1>2. PairInv'
  <2>1. ASSUME NEW s \in Servers, NEW k \in Nat, NEW p \in Ports, From(s, k, p)'
        PROVE  Query(s, k)'.rec.word \in Words
    <3>1. From(s, old[s][k], p) /\ Query(s, k)' = Query(s, old[s][k]) BY <2>1
    <3>2. old[s][k] \in Nat OBVIOUS
    <3>3. QED BY <3>1, <3>2 DEF UdpInv, PairInv
  <2>2. QED BY <1>0, <2>1 DEF UdpInv, PairInv, Right
<1>3. TurnInv'
  <2> SUFFICES ASSUME NEW c \in Clients, clean[c], NEW p \in Ports, p = port[c],
                      NEW w \in Words \cup {Unset}, w = typed[c]
               PROVE  /\ IF cplace[c] = "recv" THEN Single(p, w)' ELSE Quiet(p)'
                      /\ cplace[c] = "printed" => rec[c].word = w
    <3>1. \A c \in Clients : clean[c] => port[c] \in Ports /\ typed[c] \in Words \cup {Unset}
      BY DEF UdpInv, UdpType, PortInv
    <3>2. QED BY <1>0, <3>1 DEF TurnInv, Turn
  <2>1. IF cplace[c] = "recv" THEN Single(p, w) ELSE Quiet(p) BY DEF UdpInv, TurnInv, Turn
  <2>2. cplace[c] = "recv" => Single(p, w)' BY <2>1, SingleMoves
  <2>3. cplace[c] # "recv" => Quiet(p)' BY <2>1, QuietMoves
  <2>4. QED BY <2>2, <2>3 DEF UdpInv, TurnInv, Turn
<1>4. QED BY <1>1, <1>2, <1>3 DEF UdpInv

\* The numbering in which nothing moves.
Same == [t \in Servers |-> [k \in Nat |-> k]]
LEMMA SameFacts ==
  /\ Same \in [Servers -> [Nat -> Nat]]
  /\ \A t \in Servers, k \in Nat : Same[t][k] = k
  BY DEF Same

LEMMA FewerKeeps ==
  ASSUME UdpInv, UdpType', cq' = cq, UNCHANGED Udp!clientVars,
         \A t \in Servers, k \in Nat, p \in Ports :
           From(t, k, p)' => From(t, k, p) /\ Query(t, k)' = Query(t, k)
  PROVE  UdpInv'
<1>1. \A t \in Servers, k \in Nat, p \in Ports :
        From(t, k, p)' => From(t, Same[t][k], p) /\ Query(t, k)' = Query(t, Same[t][k])
  BY SameFacts
<1>2. \A t \in Servers, j, k \in Nat : Same[t][j] = Same[t][k] => j = k BY SameFacts
<1>3. QED BY <1>1, <1>2, SameFacts, MovedKeeps

LEMMA UdpStutter == ASSUME UdpInv, UNCHANGED Udp!vars PROVE UdpInv'
<1>1. UNCHANGED <<splace, sq, job, cplace, port, cq, rec, typed, queries, clean>>
  BY DEF Udp!vars, Udp!serverVars, Udp!clientVars
<1>2. UdpType' BY <1>1 DEF UdpInv, UdpType
<1>3. \A t \in Servers, k \in Nat, p \in Ports :
        From(t, k, p)' => From(t, k, p) /\ Query(t, k)' = Query(t, k)
  BY <1>1 DEF From, Query
<1>4. QED BY <1>1, <1>2, <1>3, FewerKeeps DEF Udp!clientVars

LEMMA UdpBindKeeps == ASSUME UdpInv, NEW s \in Servers, Udp!Bind(s) PROVE UdpInv'
<1>1. /\ splace[s] = "off" /\ splace' = [splace EXCEPT ![s] = "recv"] /\ UNCHANGED <<sq, job, cq, Udp!clientVars>>
  BY DEF Udp!Bind
<1>2. UdpType'
  <2>1. splace' \in [Servers -> {"off", "recv", "lookup"}] BY <1>1 DEF UdpInv, UdpType
  <2>2. splace'[s] = "recv" /\ \A t \in Servers : t # s => splace'[t] = splace[t] BY <1>1 DEF UdpInv, UdpType
  <2>3. QED BY <1>1, <2>1, <2>2 DEF UdpInv, UdpType, Udp!clientVars
<1>3. \A t \in Servers, k \in Nat, p \in Ports :
        From(t, k, p)' => From(t, k, p) /\ Query(t, k)' = Query(t, k)
  BY <1>1 DEF From, Query
<1>4. QED BY <1>1, <1>2, <1>3, FewerKeeps

LEMMA UdpServerDiesKeeps ==
  ASSUME UdpInv, NEW s \in Servers, Udp!ServerDies(s) PROVE UdpInv'
<1>1. /\ splace' = [splace EXCEPT ![s] = "off"] /\ sq' = [sq EXCEPT ![s] = <<>>]
      /\ job' = [job EXCEPT ![s] = Udp!NoJob] /\ UNCHANGED <<cq, Udp!clientVars>>
  BY DEF Udp!ServerDies
<1>2. /\ splace'[s] = "off" /\ sq'[s] = <<>> /\ job'[s] = Udp!NoJob
      /\ \A t \in Servers : t # s => splace'[t] = splace[t] /\ sq'[t] = sq[t] /\ job'[t] = job[t]
  BY <1>1 DEF UdpInv, UdpType
<1>3. UdpType'
  <2>1. splace' \in [Servers -> {"off", "recv", "lookup"}] BY <1>1 DEF UdpInv, UdpType
  <2>2. sq' \in [Servers -> Seq(Datagrams)] BY <1>1 DEF UdpInv, UdpType
  <2>3. job' \in [Servers -> [from : Ports \cup {Unset}, rec : Udp!Record]]
    <3>1. Udp!NoJob \in [from : Ports \cup {Unset}, rec : Udp!Record]
      BY DEF Udp!NoJob, Udp!NoRec, Udp!Record, Udp!Replies
    <3>2. QED BY <1>1, <3>1 DEF UdpInv, UdpType
  <2>4. \A t \in Servers :
          /\ Len(sq'[t]) <= QMax /\ (splace'[t] = "off" => sq'[t] = <<>>)
          /\ IF splace'[t] = "lookup" THEN job'[t] \in Datagrams ELSE job'[t] = Udp!NoJob
    <3> SUFFICES ASSUME NEW t \in Servers
                 PROVE  /\ Len(sq'[t]) <= QMax /\ (splace'[t] = "off" => sq'[t] = <<>>)
                        /\ IF splace'[t] = "lookup" THEN job'[t] \in Datagrams ELSE job'[t] = Udp!NoJob
      OBVIOUS
    <3>1. CASE t = s
      <4>1. QMax \in Nat /\ Len(<<>>) = 0 BY UdpAssumption
      <4>2. QED BY <1>2, <3>1, <4>1
    <3>2. CASE t # s BY <1>2, <3>2 DEF UdpInv, UdpType
    <3>3. QED BY <3>1, <3>2
  <2>5. QED BY <1>1, <2>1, <2>2, <2>3, <2>4 DEF UdpInv, UdpType, Udp!clientVars
<1>4. \A t \in Servers, k \in Nat, p \in Ports :
        From(t, k, p)' => From(t, k, p) /\ Query(t, k)' = Query(t, k)
  <2> SUFFICES ASSUME NEW t \in Servers, NEW k \in Nat, NEW p \in Ports, From(t, k, p)'
               PROVE  From(t, k, p) /\ Query(t, k)' = Query(t, k)
    OBVIOUS
  <2>1. Unset \notin Ports /\ Udp!NoJob.from = Unset BY UdpAssumption DEF Udp!NoJob
  <2>2. t # s
    <3> SUFFICES ASSUME t = s PROVE FALSE OBVIOUS
    <3>1. k = 0 BY <1>2 DEF From
    <3>2. QED BY <1>2, <2>1, <3>1 DEF From, Query
  <2>3. QED BY <1>2, <2>2 DEF From, Query
<1>5. QED BY <1>1, <1>3, <1>4, FewerKeeps

\* recvfrom makes the first datagram of the buffer the job: every query of the
\* server goes down by one.
LEMMA UdpRecvFromKeeps ==
  ASSUME UdpInv, NEW s \in Servers, Udp!RecvFrom(s) PROVE UdpInv'
<1>0. UdpType BY DEF UdpInv
<1>1. /\ splace[s] = "recv" /\ sq[s] # <<>> /\ job' = [job EXCEPT ![s] = Head(sq[s])]
      /\ sq' = [sq EXCEPT ![s] = Tail(sq[s])] /\ splace' = [splace EXCEPT ![s] = "lookup"]
      /\ cq' = cq /\ UNCHANGED Udp!clientVars
  BY DEF Udp!RecvFrom
<1>2. /\ splace'[s] = "lookup" /\ sq'[s] = Tail(sq[s]) /\ job'[s] = Head(sq[s])
      /\ \A t \in Servers : t # s => splace'[t] = splace[t] /\ sq'[t] = sq[t] /\ job'[t] = job[t]
  BY <1>0, <1>1 DEF UdpType
<1>3. /\ Len(sq[s]) \in Nat \ {0} /\ Head(sq[s]) = sq[s][1] /\ Head(sq[s]) \in Datagrams
      /\ Tail(sq[s]) \in Seq(Datagrams) /\ Len(Tail(sq[s])) = Len(sq[s]) - 1
      /\ \A k \in 1..Len(Tail(sq[s])) : Tail(sq[s])[k] = sq[s][k + 1]
  <2>1. sq[s] \in Seq(Datagrams) BY <1>0 DEF UdpType
  <2>2. QED BY <1>1, <2>1, TailFacts
<1>4. UdpType'
  <2>1. splace' \in [Servers -> {"off", "recv", "lookup"}] BY <1>0, <1>1 DEF UdpType
  <2>2. sq' \in [Servers -> Seq(Datagrams)] BY <1>0, <1>1, <1>3 DEF UdpType
  <2>3. job' \in [Servers -> [from : Ports \cup {Unset}, rec : Udp!Record]]
    <3>1. Head(sq[s]) \in [from : Ports \cup {Unset}, rec : Udp!Record]
      BY <1>3 DEF Datagrams
    <3>2. QED BY <1>0, <1>1, <3>1 DEF UdpType
  <2>4. \A t \in Servers :
          /\ Len(sq'[t]) <= QMax /\ (splace'[t] = "off" => sq'[t] = <<>>)
          /\ IF splace'[t] = "lookup" THEN job'[t] \in Datagrams ELSE job'[t] = Udp!NoJob
    <3> SUFFICES ASSUME NEW t \in Servers
                 PROVE  /\ Len(sq'[t]) <= QMax /\ (splace'[t] = "off" => sq'[t] = <<>>)
                        /\ IF splace'[t] = "lookup" THEN job'[t] \in Datagrams ELSE job'[t] = Udp!NoJob
      OBVIOUS
    <3>1. CASE t = s
      <4>1. Len(sq[s]) <= QMax /\ QMax \in Nat BY <1>0, UdpAssumption DEF UdpType
      <4>2. Len(sq'[s]) <= QMax BY <1>2, <1>3, <4>1
      <4>3. QED BY <1>2, <1>3, <3>1, <4>2
    <3>2. CASE t # s BY <1>0, <1>2, <3>2 DEF UdpType
    <3>3. QED BY <3>1, <3>2
  <2>5. QED BY <1>0, <1>1, <2>1, <2>2, <2>3, <2>4 DEF UdpType, Udp!clientVars
<1> DEFINE old == [t \in Servers |-> [k \in Nat |-> IF t = s THEN k + 1 ELSE k]]
<1>5. old \in [Servers -> [Nat -> Nat]] OBVIOUS
<1>6. \A t \in Servers, j, k \in Nat : old[t][j] = old[t][k] => j = k OBVIOUS
<1>7. \A k \in Nat : old[s][k] = k + 1 OBVIOUS
<1>8. \A t \in Servers, k \in Nat : t # s => old[t][k] = k OBVIOUS
<1> HIDE DEF old
<1>9. ASSUME NEW t \in Servers, NEW k \in Nat, NEW p \in Ports, From(t, k, p)'
      PROVE  From(t, old[t][k], p) /\ Query(t, k)' = Query(t, old[t][k])
  <2>1. CASE t # s
    <3>1. From(t, k, p) /\ Query(t, k)' = Query(t, k) BY <1>2, <1>9, <2>1 DEF From, Query
    <3>2. QED BY <1>8, <2>1, <3>1
  <2>2. CASE t = s
    <3>1. k + 1 \in 1..Len(sq[s])
      <4>1. k \in 0..Len(sq'[s]) BY <1>9, <2>2 DEF From
      <4>2. QED BY <1>2, <1>3, <4>1
    <3>2. Query(s, k)' = sq[s][k + 1]
      <4>1. CASE k = 0 BY <1>2, <1>3, <4>1 DEF Query
      <4>2. CASE k # 0
        <5>1. k \in 1..Len(Tail(sq[s])) BY <1>3, <3>1, <4>2
        <5>2. QED BY <1>2, <1>3, <4>2, <5>1 DEF Query
      <4>3. QED BY <4>1, <4>2
    <3>3. Query(s, k + 1) = sq[s][k + 1] BY DEF Query
    <3>4. Query(s, k)'.from = p BY <1>9, <2>2 DEF From
    <3>5. From(s, k + 1, p)
      <4>1. k + 1 \in 0..Len(sq[s]) BY <1>3, <3>1
      <4>2. QED BY <3>2, <3>3, <3>4, <4>1 DEF From
    <3>6. Query(s, k)' = Query(s, k + 1) BY <3>2, <3>3
    <3>7. QED BY <1>7, <2>2, <3>5, <3>6
  <2>3. QED BY <2>1, <2>2
<1>10. QED BY <1>1, <1>4, <1>5, <1>6, <1>9, MovedKeeps

\* What a step that leaves the servers alone leaves of a port.
LEMMA PortStays ==
  ASSUME UNCHANGED Udp!serverVars, NEW p \in Ports, cq'[p] = cq[p]
  PROVE  /\ \A s \in Servers, k \in Nat : Query(s, k)' = Query(s, k) /\ (From(s, k, p)' <=> From(s, k, p))
         /\ \A w : Single(p, w) => Single(p, w)'
         /\ Quiet(p) => Quiet(p)'
<1>0. UNCHANGED <<sq, job>> BY DEF Udp!serverVars
<1>1. \A s \in Servers, k \in Nat : Query(s, k)' = Query(s, k) /\ (From(s, k, p)' <=> From(s, k, p))
  BY <1>0 DEF From, Query
<1>2. \A t \in Servers, k \in Nat :
        From(t, k, p)' => From(t, Same[t][k], p) /\ Query(t, k)' = Query(t, Same[t][k])
  BY <1>1, SameFacts
<1>3. \A t \in Servers, j, k \in Nat : Same[t][j] = Same[t][k] => j = k BY SameFacts
<1>4. ASSUME NEW w, Single(p, w) PROVE Single(p, w)' BY <1>2, <1>3, <1>4, SameFacts, SingleMoves
<1>5. Quiet(p) => Quiet(p)' BY <1>2, SameFacts, QuietMoves
<1>6. QED BY <1>1, <1>4, <1>5

LEMMA TurnStays ==
  ASSUME UdpInv, UNCHANGED Udp!serverVars, NEW d \in Clients,
         clean[d] => cq'[port[d]] = cq[port[d]],
         cplace'[d] = cplace[d], port'[d] = port[d], rec'[d] = rec[d], typed'[d] = typed[d], clean'[d] = clean[d]
  PROVE  Turn(d)'
<1>0. clean[d] => port[d] \in Ports /\ typed[d] \in Words \cup {Unset}
  BY DEF UdpInv, UdpType, PortInv
<1> SUFFICES ASSUME clean[d], NEW p \in Ports, p = port[d], NEW w \in Words \cup {Unset}, w = typed[d]
             PROVE  /\ IF cplace[d] = "recv" THEN Single(p, w)' ELSE Quiet(p)'
                    /\ cplace[d] = "printed" => rec[d].word = w
  BY <1>0 DEF Turn
<1>1. (Single(p, w) => Single(p, w)') /\ (Quiet(p) => Quiet(p)') BY PortStays
<1>2. QED BY <1>1 DEF UdpInv, TurnInv, Turn

\* The queries of the servers are about words after a step that leaves them alone.
LEMMA WordsStay ==
  ASSUME UdpInv, UNCHANGED Udp!serverVars
  PROVE  \A s \in Servers, k \in Nat, p \in Ports : From(s, k, p)' => Query(s, k)'.rec.word \in Words
<1>0. UNCHANGED <<sq, job>> BY DEF Udp!serverVars
<1>1. \A s \in Servers, k \in Nat, p \in Ports : Query(s, k)' = Query(s, k) /\ (From(s, k, p)' <=> From(s, k, p))
  BY <1>0 DEF From, Query
<1>2. QED BY <1>1 DEF UdpInv, PairInv

LEMMA UdpStartKeeps == ASSUME UdpInv, NEW c \in Clients, Udp!Start(c) PROVE UdpInv'
<1>1. /\ cplace[c] = "off" /\ cplace' = [cplace EXCEPT ![c] = "prompt"]
      /\ UNCHANGED <<port, rec, typed, queries, clean, cq>> /\ UNCHANGED Udp!serverVars
  BY DEF Udp!Start
<1>2. cplace'[c] = "prompt" /\ \A d \in Clients : d # c => cplace'[d] = cplace[d]
  BY <1>1 DEF UdpInv, UdpType
<1>3. UdpType'
  <2>1. cplace' \in [Clients -> {"off", "prompt", "send", "recv", "printed"}] BY <1>1 DEF UdpInv, UdpType
  <2>2. QED BY <1>1, <2>1 DEF UdpInv, UdpType, Udp!serverVars
<1>4. port[c] = Unset /\ ~clean[c] BY <1>1 DEF UdpInv, PortInv
<1>5. PortInv' BY <1>1, <1>2, <1>4 DEF UdpInv, PortInv, Free
<1>6. PairInv' BY <1>1, <1>2, WordsStay DEF UdpInv, PairInv, Right
<1>7. TurnInv'
  <2> SUFFICES ASSUME NEW d \in Clients PROVE Turn(d)' BY DEF TurnInv
  <2>1. CASE d = c BY <1>1, <1>4, <2>1 DEF Turn
  <2>2. CASE d # c BY <1>1, <1>2, <2>2, TurnStays
  <2>3. QED BY <2>1, <2>2
<1>8. QED BY <1>3, <1>5, <1>6, <1>7 DEF UdpInv

LEMMA UdpGetWordKeeps ==
  ASSUME UdpInv, NEW c \in Clients, Udp!GetWord(c) PROVE UdpInv'
<1>0. PICK w \in Words : rec' = [rec EXCEPT ![c].word = w] /\ typed' = [typed EXCEPT ![c] = w]
  BY DEF Udp!GetWord
<1>1. /\ cplace[c] \in {"prompt", "printed"} /\ cplace' = [cplace EXCEPT ![c] = "send"]
      /\ queries < MaxQueries /\ queries' = queries + 1
      /\ UNCHANGED <<port, clean, cq>> /\ UNCHANGED Udp!serverVars
  BY DEF Udp!GetWord
<1>2. /\ cplace'[c] = "send" /\ typed'[c] = w /\ rec'[c] \in Udp!Record /\ rec'[c].word = w
      /\ \A d \in Clients : d # c => cplace'[d] = cplace[d] /\ rec'[d] = rec[d] /\ typed'[d] = typed[d]
  <2>1. rec \in [Clients -> [word : Words \cup {Unset}, text : Udp!Replies]]
    BY DEF UdpInv, UdpType, Udp!Record
  <2>2. rec'[c] = [rec[c] EXCEPT !.word = w] /\ \A d \in Clients : d # c => rec'[d] = rec[d]
    BY <1>0, <2>1
  <2>3. rec[c] \in [word : Words \cup {Unset}, text : Udp!Replies] BY <2>1
  <2>4. rec'[c] \in Udp!Record /\ rec'[c].word = w BY <2>2, <2>3 DEF Udp!Record
  <2>5. typed'[c] = w /\ \A d \in Clients : d # c => typed'[d] = typed[d]
    BY <1>0 DEF UdpInv, UdpType
  <2>6. cplace'[c] = "send" /\ \A d \in Clients : d # c => cplace'[d] = cplace[d]
    BY <1>1 DEF UdpInv, UdpType
  <2>7. QED BY <2>2, <2>4, <2>5, <2>6
<1>3. UdpType'
  <2>1. cplace' \in [Clients -> {"off", "prompt", "send", "recv", "printed"}] BY <1>1 DEF UdpInv, UdpType
  <2>2. typed' \in [Clients -> Words \cup {Unset}] BY <1>0 DEF UdpInv, UdpType
  <2>3. rec' \in [Clients -> Udp!Record]
    <3>1. rec \in [Clients -> Udp!Record] BY DEF UdpInv, UdpType
    <3>2. rec' = [rec EXCEPT ![c] = rec'[c]] BY <1>0, <3>1
    <3>3. QED BY <1>2, <3>1, <3>2
  <2>4. queries' \in 0..MaxQueries
    <3>1. queries \in 0..MaxQueries /\ MaxQueries \in Nat BY UdpAssumption DEF UdpInv, UdpType
    <3>2. QED BY <1>1, <3>1
  <2>5. QED BY <1>1, <2>1, <2>2, <2>3, <2>4 DEF UdpInv, UdpType, Udp!serverVars
<1>4. PortInv'
  <2>1. \A d \in Clients :
          /\ cplace'[d] \in {"off", "prompt"} => port[d] = Unset
          /\ cplace'[d] \in {"recv", "printed"} => port[d] # Unset
    BY <1>2 DEF UdpInv, PortInv
  <2>2. QED BY <1>1, <2>1 DEF UdpInv, PortInv, Free
<1>5. PairInv'
  <2>1. \A d \in Clients :
          /\ cplace'[d] \in {"send", "recv"} => rec'[d].word = typed'[d] /\ typed'[d] \in Words
          /\ cplace'[d] = "printed" => Right(rec'[d])
    BY <1>2 DEF UdpInv, PairInv
  <2>2. QED BY <1>1, <2>1, WordsStay DEF UdpInv, PairInv, Right
<1>6. TurnInv'
  <2> SUFFICES ASSUME NEW d \in Clients PROVE Turn(d)' BY DEF TurnInv
  <2>1. CASE d = c
    <3> SUFFICES ASSUME clean[c], NEW p \in Ports, p = port[c] PROVE Quiet(p)'
      BY <1>1, <1>2, <2>1 DEF Turn, UdpInv, UdpType, PortInv
    <3>1. Quiet(p) BY <1>1 DEF UdpInv, TurnInv, Turn
    <3>2. QED BY <1>1, <3>1, PortStays
  <2>2. CASE d # c BY <1>1, <1>2, <2>2, TurnStays
  <2>3. QED BY <2>1, <2>2
<1>7. QED BY <1>3, <1>4, <1>5, <1>6 DEF UdpInv

LEMMA UdpRecvKeeps == ASSUME UdpInv, NEW c \in Clients, Udp!Recv(c) PROVE UdpInv'
<1>0. UdpType /\ PortInv /\ PairInv /\ TurnInv BY DEF UdpInv
<1> DEFINE p == port[c]
<1>1. /\ cplace[c] = "recv" /\ cq[p] # <<>> /\ rec' = [rec EXCEPT ![c] = Head(cq[p])]
      /\ cq' = [cq EXCEPT ![p] = Tail(cq[p])] /\ cplace' = [cplace EXCEPT ![c] = "printed"]
      /\ UNCHANGED <<port, typed, queries, clean>> /\ UNCHANGED Udp!serverVars
  BY DEF Udp!Recv
<1>2. p \in Ports BY <1>0, <1>1 DEF UdpType, PortInv
<1>3. p' = p BY <1>1
<1>4. p = port[c] OBVIOUS
<1> HIDE DEF p
<1>5. /\ cplace'[c] = "printed" /\ rec'[c] = Head(cq[p]) /\ cq'[p] = Tail(cq[p])
      /\ \A d \in Clients : d # c => cplace'[d] = cplace[d] /\ rec'[d] = rec[d]
      /\ \A r \in Ports : r # p => cq'[r] = cq[r]
  BY <1>0, <1>1, <1>2 DEF UdpType
<1>6. /\ Len(cq[p]) \in Nat \ {0} /\ Head(cq[p]) = cq[p][1] /\ Head(cq[p]) \in Udp!Record
      /\ Tail(cq[p]) \in Seq(Udp!Record) /\ Len(Tail(cq[p])) = Len(cq[p]) - 1
      /\ \A k \in 1..Len(Tail(cq[p])) : Tail(cq[p])[k] = cq[p][k + 1]
  <2>1. cq[p] \in Seq(Udp!Record) BY <1>0, <1>2 DEF UdpType
  <2>2. QED BY <1>1, <2>1, TailFacts
<1>7. UdpType'
  <2>1. cplace' \in [Clients -> {"off", "prompt", "send", "recv", "printed"}] BY <1>0, <1>1 DEF UdpType
  <2>2. rec' \in [Clients -> Udp!Record] BY <1>0, <1>1, <1>6 DEF UdpType
  <2>3. cq' \in [Ports -> Seq(Udp!Record)] BY <1>0, <1>1, <1>6 DEF UdpType
  <2>4. \A r \in Ports : Len(cq'[r]) <= QMax
    <3>1. Len(cq[p]) <= QMax /\ QMax \in Nat BY <1>0, <1>2, UdpAssumption DEF UdpType
    <3>2. Len(cq'[p]) <= QMax BY <1>5, <1>6, <3>1
    <3>3. QED BY <1>0, <1>5, <3>2 DEF UdpType
  <2>5. QED BY <1>0, <1>1, <2>1, <2>2, <2>3, <2>4 DEF UdpType, Udp!serverVars
<1>8. PortInv'
  <2>1. \A r \in Ports : Free(r) => cq'[r] = <<>> BY <1>0, <1>4, <1>5 DEF PortInv, Free
  <2>2. \A d \in Clients :
          /\ cplace'[d] \in {"off", "prompt"} => port[d] = Unset
          /\ cplace'[d] \in {"recv", "printed"} => port[d] # Unset
    BY <1>0, <1>1, <1>5 DEF PortInv
  <2>3. QED BY <1>0, <1>1, <2>1, <2>2 DEF PortInv, Free
<1>9. PairInv'
  <2>1. \A k \in 1..Len(cq[p]) : Right(cq[p][k]) BY <1>0, <1>2 DEF PairInv
  <2>2. \A d \in Clients :
          /\ cplace'[d] \in {"send", "recv"} => rec'[d].word = typed'[d] /\ typed'[d] \in Words
          /\ cplace'[d] = "printed" => Right(rec'[d])
    <3>1. 1 \in 1..Len(cq[p]) BY <1>6
    <3>2. Right(rec'[c]) BY <1>5, <1>6, <2>1, <3>1
    <3>3. QED BY <1>0, <1>1, <1>5, <3>2 DEF PairInv
  <2>3. \A r \in Ports : \A k \in 1..Len(cq'[r]) : Right(cq'[r][k])
    <3> SUFFICES ASSUME NEW r \in Ports, NEW k \in 1..Len(cq'[r]) PROVE Right(cq'[r][k]) OBVIOUS
    <3>1. CASE r = p
      <4>1. k \in 1..Len(Tail(cq[p])) BY <1>5, <3>1
      <4>2. k + 1 \in 1..Len(cq[p]) BY <1>6, <4>1
      <4>3. cq'[p][k] = cq[p][k + 1] BY <1>5, <1>6, <4>1
      <4>4. QED BY <2>1, <3>1, <4>2, <4>3
    <3>2. CASE r # p BY <1>0, <1>5, <3>2 DEF PairInv
    <3>3. QED BY <3>1, <3>2
  <2>4. QED BY <2>2, <2>3, WordsStay, <1>1 DEF UdpInv, PairInv, Right
<1>10. TurnInv'
  <2> SUFFICES ASSUME NEW d \in Clients PROVE Turn(d)' BY DEF TurnInv
  <2>1. CASE d = c
    <3> SUFFICES ASSUME clean[c] PROVE Quiet(p)' /\ rec'[c].word = typed[c]
      BY <1>1, <1>3, <1>4, <1>5, <2>1 DEF Turn
    <3>1. Single(p, typed[c]) BY <1>0, <1>1, <1>4 DEF TurnInv, Turn
    <3>2. cq'[p] = <<>> BY <1>5, <1>6, <3>1 DEF Single
    <3>3. \A s \in Servers, k \in Nat : ~From(s, k, p) BY <1>1, <3>1 DEF Single
    <3>4. \A s \in Servers, k \in Nat : ~From(s, k, p)'
      BY <1>1, <1>3, <3>3 DEF From, Query, Udp!serverVars
    <3>5. rec'[c].word = typed[c] BY <1>1, <1>5, <1>6, <3>1 DEF Single
    <3>6. QED BY <1>3, <3>2, <3>4, <3>5 DEF Quiet
  <2>2. CASE d # c
    <3>1. clean[d] => port[d] \in Ports /\ port[d] # p
      BY <1>0, <1>2, <1>4, <2>2 DEF UdpType, PortInv
    <3>2. QED BY <1>1, <1>5, <2>2, <3>1, TurnStays
  <2>3. QED BY <2>1, <2>2
<1>11. QED BY <1>7, <1>8, <1>9, <1>10 DEF UdpInv

LEMMA UdpGoneKeeps == ASSUME UdpInv, NEW c \in Clients, Udp!Gone(c) PROVE UdpInv'
<1>0. UdpType /\ PortInv /\ PairInv /\ TurnInv BY DEF UdpInv
<1>1. /\ cplace' = [cplace EXCEPT ![c] = "off"] /\ port' = [port EXCEPT ![c] = Unset]
      /\ cq' = IF port[c] = Unset THEN cq ELSE [cq EXCEPT ![port[c]] = <<>>]
      /\ rec' = [rec EXCEPT ![c] = Udp!NoRec] /\ typed' = [typed EXCEPT ![c] = Unset]
      /\ clean' = [clean EXCEPT ![c] = FALSE] /\ queries' = queries /\ UNCHANGED Udp!serverVars
  BY DEF Udp!Gone
<1>2. /\ cplace'[c] = "off" /\ port'[c] = Unset /\ clean'[c] = FALSE
      /\ \A d \in Clients : d # c => /\ cplace'[d] = cplace[d] /\ port'[d] = port[d] /\ clean'[d] = clean[d]
                                     /\ rec'[d] = rec[d] /\ typed'[d] = typed[d]
  BY <1>0, <1>1 DEF UdpType
<1>3. /\ \A p \in Ports : p # port[c] => cq'[p] = cq[p]
      /\ \A p \in Ports : p = port[c] => cq'[p] = <<>>
  BY <1>0, <1>1, UdpAssumption DEF UdpType
<1>4. UdpType'
  <2>1. cplace' \in [Clients -> {"off", "prompt", "send", "recv", "printed"}] BY <1>0, <1>1 DEF UdpType
  <2>2. port' \in [Clients -> Ports \cup {Unset}] BY <1>0, <1>1 DEF UdpType
  <2>3. clean' \in [Clients -> BOOLEAN] BY <1>0, <1>1 DEF UdpType
  <2>4. rec' \in [Clients -> Udp!Record]
    <3>1. Udp!NoRec \in Udp!Record BY DEF Udp!NoRec, Udp!Record, Udp!Replies
    <3>2. QED BY <1>0, <1>1, <3>1 DEF UdpType
  <2>5. typed' \in [Clients -> Words \cup {Unset}] BY <1>0, <1>1 DEF UdpType
  <2>6. cq' \in [Ports -> Seq(Udp!Record)] BY <1>0, <1>1 DEF UdpType
  <2>7. \A p \in Ports : Len(cq'[p]) <= QMax
    <3>1. QMax \in Nat /\ Len(<<>>) = 0 BY UdpAssumption
    <3>2. \A p \in Ports : Len(cq[p]) <= QMax BY <1>0 DEF UdpType
    <3>3. \A p \in Ports : cq'[p] = cq[p] \/ cq'[p] = <<>> BY <1>3
    <3>4. QED BY <3>1, <3>2, <3>3
  <2>8. QED BY <1>0, <1>1, <2>1, <2>2, <2>3, <2>4, <2>5, <2>6, <2>7 DEF UdpType, Udp!serverVars
<1>5. PortInv'
  <2>1. \A p \in Ports : Free(p)' => cq'[p] = <<>>
    <3> SUFFICES ASSUME NEW p \in Ports, Free(p)' PROVE cq'[p] = <<>> OBVIOUS
    <3>1. CASE p = port[c] BY <1>3, <3>1
    <3>2. CASE p # port[c] BY <1>0, <1>2, <1>3, <3>2 DEF PortInv, Free
    <3>3. QED BY <3>1, <3>2
  <2>2. \A d, e \in Clients : port'[d] = port'[e] /\ port'[d] # Unset => d = e
    BY <1>0, <1>2 DEF PortInv
  <2>3. \A d \in Clients :
          /\ cplace'[d] \in {"off", "prompt"} => port'[d] = Unset
          /\ cplace'[d] \in {"recv", "printed"} => port'[d] # Unset
          /\ clean'[d] => port'[d] # Unset
    BY <1>0, <1>2 DEF PortInv
  <2>4. QED BY <2>1, <2>2, <2>3 DEF PortInv
<1>6. PairInv'
  <2>1. \A d \in Clients :
          /\ cplace'[d] \in {"send", "recv"} => rec'[d].word = typed'[d] /\ typed'[d] \in Words
          /\ cplace'[d] = "printed" => Right(rec'[d])
    BY <1>0, <1>2 DEF PairInv
  <2>2. \A p \in Ports : \A k \in 1..Len(cq'[p]) : Right(cq'[p][k])
    <3> SUFFICES ASSUME NEW p \in Ports, NEW k \in 1..Len(cq'[p]) PROVE Right(cq'[p][k]) OBVIOUS
    <3>1. CASE p = port[c]
      <4>1. Len(cq'[p]) = 0 BY <1>3, <3>1
      <4>2. QED BY <4>1
    <3>2. CASE p # port[c] BY <1>0, <1>3, <3>2 DEF PairInv
    <3>3. QED BY <3>1, <3>2
  <2>3. QED BY <1>1, <2>1, <2>2, WordsStay DEF UdpInv, PairInv, Right
<1>7. TurnInv'
  <2> SUFFICES ASSUME NEW d \in Clients PROVE Turn(d)' BY DEF TurnInv
  <2>1. CASE d = c BY <1>2, <2>1 DEF Turn
  <2>2. CASE d # c
    <3>1. clean[d] => port[d] \in Ports /\ port[d] # port[c]
      BY <1>0, <2>2 DEF UdpType, PortInv
    <3>2. QED BY <1>1, <1>2, <1>3, <2>2, <3>1, TurnStays
  <2>3. QED BY <2>1, <2>2
<1>8. QED BY <1>4, <1>5, <1>6, <1>7 DEF UdpInv

\* The answer of a job goes to the port its query came from, and the query is
\* no longer under way.
LEMMA UdpSendToKeeps ==
  ASSUME UdpInv, NEW s \in Servers, Udp!SendTo(s) PROVE UdpInv'
<1>0. UdpType /\ PortInv /\ PairInv /\ TurnInv BY DEF UdpInv
<1>1. /\ splace[s] = "lookup" /\ job[s] \in Datagrams /\ job[s].from \in Ports
      /\ job[s].rec \in [word : Words \cup {Unset}, text : Udp!Replies]
  <2>1. splace[s] = "lookup" BY DEF Udp!SendTo
  <2>2. job[s] \in Datagrams BY <1>0, <2>1 DEF UdpType
  <2>3. QED BY <2>1, <2>2 DEF Datagrams, Udp!Record
<1>2. PICK p \in Ports : p = job[s].from BY <1>1
<1>3. PICK a : a = Udp!lookup(job[s].rec) OBVIOUS
<1>4. From(s, 0, p) /\ Query(s, 0) = job[s]
  <2>1. Len(sq[s]) \in Nat BY <1>0 DEF UdpType
  <2>2. QED BY <1>2, <2>1 DEF From, Query
<1>5. job[s].rec.word \in Words
  <2>1. 0 \in Nat OBVIOUS
  <2>2. QED BY <1>0, <1>4, <2>1 DEF PairInv
<1>6. a \in Udp!Record /\ Right(a) /\ a.word = job[s].rec.word
  <2>1. Dict[job[s].rec.word] \in Udp!Replies BY <1>5 DEF Udp!Replies
  <2>2. a = [job[s].rec EXCEPT !.text = Dict[job[s].rec.word]] BY <1>3 DEF Udp!lookup
  <2>3. /\ a \in [word : Words \cup {Unset}, text : Udp!Replies]
        /\ a.word = job[s].rec.word /\ a.text = Dict[job[s].rec.word]
    BY <1>1, <2>1, <2>2
  <2>4. QED BY <1>5, <2>3 DEF Right, Udp!Record
<1>7. /\ splace' = [splace EXCEPT ![s] = "recv"] /\ sq' = sq
      /\ job' = [job EXCEPT ![s] = Udp!NoJob]
      /\ cq' = [cq EXCEPT ![p] = IF \E c \in Clients : port[c] = p THEN Udp!Put(cq[p], a) ELSE cq[p]]
      /\ UNCHANGED <<cplace, port, rec, typed, queries, clean>>
  BY <1>2, <1>3 DEF Udp!SendTo, Udp!clientVars
<1>8. /\ splace'[s] = "recv" /\ job'[s] = Udp!NoJob
      /\ \A t \in Servers : t # s => splace'[t] = splace[t] /\ job'[t] = job[t]
  BY <1>0, <1>7 DEF UdpType
<1>9. /\ \A q \in Ports : q # p => cq'[q] = cq[q]
      /\ cq'[p] = IF \E c \in Clients : port[c] = p THEN Udp!Put(cq[p], a) ELSE cq[p]
  BY <1>0, <1>7, <1>2 DEF UdpType
<1>10. /\ Udp!Put(cq[p], a) \in Seq(Udp!Record) /\ Len(Udp!Put(cq[p], a)) <= QMax
       /\ Len(cq[p]) \in Nat
       /\ \A k \in 1..Len(cq[p]) : Udp!Put(cq[p], a)[k] = cq[p][k]
       /\ \A k \in 1..Len(Udp!Put(cq[p], a)) :
            k \in 1..Len(cq[p]) \/ (k = Len(cq[p]) + 1 /\ Udp!Put(cq[p], a)[k] = a)
  <2>1. cq[p] \in Seq(Udp!Record) /\ Len(cq[p]) <= QMax BY <1>0, <1>2 DEF UdpType
  <2>2. Len(cq[p]) \in Nat BY <2>1
  <2>3. PICK q \in Seq(Udp!Record) : q = cq[p] BY <2>1
  <2>4. PICK R : R = Udp!Record OBVIOUS
  <2>5. q \in Seq(R) /\ a \in R /\ Len(q) <= QMax BY <1>6, <2>1, <2>3, <2>4
  <2>6. Udp!Put(q, a) \in Seq(R) /\ Len(Udp!Put(q, a)) <= QMax
    BY <2>5, PutFacts
  <2>7. \A k \in 1..Len(q) : Udp!Put(q, a)[k] = q[k]
    BY <2>5, PutFacts
  <2>8. \A k \in 1..Len(Udp!Put(q, a)) : k \in 1..Len(q) \/ (k = Len(q) + 1 /\ Udp!Put(q, a)[k] = a)
    BY <2>5, PutFacts
  <2>9. QED BY <2>2, <2>3, <2>4, <2>6, <2>7, <2>8
<1>11. UdpType'
  <2>1. splace' \in [Servers -> {"off", "recv", "lookup"}] BY <1>0, <1>7 DEF UdpType
  <2>2. job' \in [Servers -> [from : Ports \cup {Unset}, rec : Udp!Record]]
    <3>1. Udp!NoJob \in [from : Ports \cup {Unset}, rec : Udp!Record]
      BY DEF Udp!NoJob, Udp!NoRec, Udp!Record, Udp!Replies
    <3>2. QED BY <1>0, <1>7, <3>1 DEF UdpType
  <2>3. cq' \in [Ports -> Seq(Udp!Record)] BY <1>0, <1>7, <1>10 DEF UdpType
  <2>4. \A q \in Ports : Len(cq'[q]) <= QMax
    <3>1. \A q \in Ports : Len(cq[q]) <= QMax BY <1>0 DEF UdpType
    <3>2. QED BY <1>2, <1>9, <1>10, <3>1
  <2>5. \A t \in Servers :
          /\ Len(sq'[t]) <= QMax /\ (splace'[t] = "off" => sq'[t] = <<>>)
          /\ IF splace'[t] = "lookup" THEN job'[t] \in Datagrams ELSE job'[t] = Udp!NoJob
    <3> SUFFICES ASSUME NEW t \in Servers
                 PROVE  /\ Len(sq'[t]) <= QMax /\ (splace'[t] = "off" => sq'[t] = <<>>)
                        /\ IF splace'[t] = "lookup" THEN job'[t] \in Datagrams ELSE job'[t] = Udp!NoJob
      OBVIOUS
    <3>1. CASE t = s BY <1>0, <1>7, <1>8, <3>1 DEF UdpType
    <3>2. CASE t # s BY <1>0, <1>7, <1>8, <3>2 DEF UdpType
    <3>3. QED BY <3>1, <3>2
  <2>6. QED BY <1>0, <1>7, <2>1, <2>2, <2>3, <2>4, <2>5 DEF UdpType
<1>12. ASSUME NEW t \in Servers, NEW k \in Nat, NEW q \in Ports, From(t, k, q)'
       PROVE  From(t, k, q) /\ Query(t, k)' = Query(t, k) /\ ~(t = s /\ k = 0)
  <2>1. Unset \notin Ports /\ Udp!NoJob.from = Unset BY UdpAssumption DEF Udp!NoJob
  <2>2. ~(t = s /\ k = 0) BY <1>8, <1>12, <2>1 DEF From, Query
  <2>3. Query(t, k)' = Query(t, k) BY <1>7, <1>8, <2>2 DEF Query
  <2>4. k \in 0..Len(sq[t]) /\ Query(t, k)'.from = q BY <1>7, <1>12 DEF From
  <2>5. QED BY <2>2, <2>3, <2>4 DEF From
<1>13. PortInv'
  <2>1. \A q \in Ports : Free(q) => cq'[q] = <<>> BY <1>0, <1>9 DEF PortInv, Free
  <2>2. QED BY <1>0, <1>7, <2>1 DEF PortInv, Free
<1>14. PairInv'
  <2>1. \A t \in Servers, k \in Nat, q \in Ports : From(t, k, q)' => Query(t, k)'.rec.word \in Words
    BY <1>0, <1>12 DEF PairInv
  <2>2. \A q \in Ports : \A k \in 1..Len(cq'[q]) : Right(cq'[q][k])
    <3> SUFFICES ASSUME NEW q \in Ports, NEW k \in 1..Len(cq'[q]) PROVE Right(cq'[q][k]) OBVIOUS
    <3>1. \A j \in 1..Len(cq[q]) : Right(cq[q][j]) BY <1>0 DEF PairInv
    <3>2. CASE cq'[q] = cq[q] BY <3>1, <3>2
    <3>3. CASE q = p /\ cq'[q] = Udp!Put(cq[p], a)
      <4>0. k \in 1..Len(Udp!Put(cq[p], a)) BY <3>3
      <4>1. k \in 1..Len(cq[p]) \/ Udp!Put(cq[p], a)[k] = a BY <1>10, <4>0
      <4>2. QED BY <1>6, <1>10, <3>1, <3>3, <4>1
    <3>4. QED BY <1>9, <3>2, <3>3
  <2>3. QED BY <1>0, <1>7, <2>1, <2>2 DEF PairInv, Right
<1>15. TurnInv'
  <2>0. \A d \in Clients : clean[d] => port[d] \in Ports /\ typed[d] \in Words \cup {Unset}
    BY <1>0 DEF UdpType, PortInv
  <2> SUFFICES ASSUME NEW d \in Clients, clean[d], NEW q \in Ports, q = port[d],
                      NEW w \in Words \cup {Unset}, w = typed[d]
               PROVE  /\ IF cplace[d] = "recv" THEN Single(q, w)' ELSE Quiet(q)'
                      /\ cplace[d] = "printed" => rec[d].word = w
    BY <1>7, <2>0 DEF TurnInv, Turn
  <2>1. /\ IF cplace[d] = "recv" THEN Single(q, w) ELSE Quiet(q)
        /\ cplace[d] = "printed" => rec[d].word = w
    BY <1>0 DEF TurnInv, Turn
  <2>2. CASE q # p
    <3>1. cq'[q] = cq[q] BY <1>9, <2>2
    <3>2. \A t \in Servers, k \in Nat :
            From(t, k, q)' => From(t, Same[t][k], q) /\ Query(t, k)' = Query(t, Same[t][k])
      BY <1>12, SameFacts
    <3>3. \A t \in Servers, j, k \in Nat : Same[t][j] = Same[t][k] => j = k BY SameFacts
    <3>4. Single(q, w) => Single(q, w)' BY <3>1, <3>2, <3>3, SameFacts, SingleMoves
    <3>5. Quiet(q) => Quiet(q)' BY <3>1, <3>2, SameFacts, QuietMoves
    <3>6. QED BY <2>1, <3>4, <3>5
  <2>3. CASE q = p
    <3>1. ~Quiet(q) BY <1>4, <2>3 DEF Quiet
    <3>2. cplace[d] = "recv" /\ Single(p, w) BY <2>1, <2>3, <3>1
    <3>3. cq[p] = <<>> /\ a.word = w BY <1>4, <1>6, <3>2 DEF Single
    <3>4. cq'[p] = <<a>>
      <4>1. cq'[p] = Udp!Put(cq[p], a) BY <1>9, <2>3
      <4>2. QED BY <3>3, <4>1, PutEmpty
    <3>5. ASSUME NEW t \in Servers, NEW k \in Nat, From(t, k, q)' PROVE FALSE
      <4>1. From(t, k, q) /\ ~(t = s /\ k = 0) BY <1>12, <3>5
      <4>2. QED BY <1>4, <2>3, <3>2, <4>1 DEF Single
    <3>6. Len(cq'[q]) <= 1 /\ cq'[q][1].word = w BY <2>3, <3>3, <3>4
    <3>7. Single(q, w)' BY <3>5, <3>6 DEF Single
    <3>8. QED BY <3>2, <3>7
  <2>4. QED BY <2>2, <2>3
<1>16. QED BY <1>11, <1>13, <1>14, <1>15 DEF UdpInv

\* A send adds at most one query, about the word of the sender and from its
\* port; when the sender is clean, it is the only datagram of that port.
LEMMA UdpSendKeeps ==
  ASSUME UdpInv, NEW c \in Clients, Udp!Send(c) PROVE UdpInv'
<1>0. UdpType /\ PortInv /\ PairInv /\ TurnInv BY DEF UdpInv
<1>1. /\ cplace[c] = "send" /\ cplace' = [cplace EXCEPT ![c] = "recv"] /\ Udp!TakePort(c)
      /\ UNCHANGED <<splace, job, rec, typed, queries, cq>>
  BY DEF Udp!Send
<1>2. Unset \notin Ports BY UdpAssumption
<1>3. PICK p \in Ports :
        /\ port' = [port EXCEPT ![c] = p] /\ clean' \in [Clients -> BOOLEAN]
        /\ \A e \in Clients : e # c => port[e] # p /\ clean'[e] = clean[e]
        /\ port[c] # Unset => port[c] = p
        /\ clean'[c] => Quiet(p)
        /\ cq[p] = <<>> \/ port[c] = p
  <2>1. CASE port[c] # Unset
    <3>1. port[c] \in Ports /\ port' = port /\ clean' = clean
      BY <1>0, <1>1, <2>1 DEF UdpType, Udp!TakePort
    <3>2. port' = [port EXCEPT ![c] = port[c]] BY <1>0, <3>1 DEF UdpType
    <3>3. \A e \in Clients : e # c => port[e] # port[c] BY <1>0, <2>1 DEF PortInv
    <3>4. clean[c] => Quiet(port[c]) BY <1>0, <1>1 DEF TurnInv, Turn
    <3>5. QED BY <1>0, <3>1, <3>2, <3>3, <3>4 DEF UdpType
  <2>2. CASE port[c] = Unset
    <3>1. PICK p \in Ports :
            /\ \A d \in Clients : port[d] # p
            /\ port' = [port EXCEPT ![c] = p] /\ clean' = [clean EXCEPT ![c] = ~Udp!OnTheWay(p)]
      BY <1>1, <2>2 DEF Udp!TakePort
    <3>2. cq[p] = <<>> BY <1>0, <3>1 DEF PortInv, Free
    <3>3. Udp!OnTheWay(p) \in BOOLEAN BY DEF Udp!OnTheWay
    <3>4. /\ clean' \in [Clients -> BOOLEAN] /\ clean'[c] = ~Udp!OnTheWay(p)
          /\ \A e \in Clients : e # c => clean'[e] = clean[e]
      BY <1>0, <3>1, <3>3 DEF UdpType
    <3>5. ~Udp!OnTheWay(p) => Quiet(p) BY <1>0, <3>2, OnTheWayFrom DEF Quiet
    <3>6. QED BY <2>2, <3>1, <3>2, <3>4, <3>5
  <2>3. QED BY <2>1, <2>2
<1>4. /\ cplace'[c] = "recv" /\ port'[c] = p
      /\ \A e \in Clients : e # c => cplace'[e] = cplace[e] /\ port'[e] = port[e]
  BY <1>0, <1>1, <1>3 DEF UdpType
<1>5. PICK d : d = [from |-> p, rec |-> rec[c]] OBVIOUS
<1>6. d \in Datagrams /\ d.from = p /\ d.rec.word = typed[c] /\ typed[c] \in Words
  <2>1. rec[c] \in Udp!Record BY <1>0 DEF UdpType
  <2>2. rec[c].word = typed[c] /\ typed[c] \in Words BY <1>0, <1>1 DEF PairInv
  <2>3. d.from = p /\ d.rec = rec[c] /\ d \in Datagrams BY <1>5, <2>1 DEF Datagrams
  <2>4. QED BY <2>2, <2>3
<1>7. \/ sq' = sq
      \/ \E s \in Servers : splace[s] # "off" /\ sq' = [sq EXCEPT ![s] = Udp!Put(sq[s], d)]
  <2>1. [from |-> port'[c], rec |-> rec[c]] = d BY <1>4, <1>5
  <2>2. \/ sq' = sq
        \/ \E s \in Udp!Bound :
             sq' = [sq EXCEPT ![s] = Udp!Put(sq[s], [from |-> port'[c], rec |-> rec[c]])]
    BY DEF Udp!Send
  <2>3. QED BY <2>1, <2>2 DEF Udp!Bound
<1> DEFINE added(s, m) ==
      \A t \in Servers, k \in Nat, q \in Ports : From(t, k, q)' =>
        \/ From(t, k, q) /\ Query(t, k)' = Query(t, k)
        \/ t = s /\ k = m /\ q = p /\ Query(t, k)' = d
<1>8. /\ sq' \in [Servers -> Seq(Datagrams)]
      /\ \A t \in Servers : Len(sq'[t]) <= QMax /\ (splace[t] = "off" => sq'[t] = <<>>)
      /\ \E s, m : added(s, m)
  <2>1. CASE sq' = sq
    <3>1. added(0, 0) BY <1>1, <2>1 DEF From, Query
    <3> HIDE DEF added
    <3>2. \E s, m : added(s, m) BY <3>1
    <3>3. QED BY <1>0, <2>1, <3>2 DEF UdpType
  <2>2. ASSUME NEW s \in Servers, splace[s] # "off", sq' = [sq EXCEPT ![s] = Udp!Put(sq[s], d)]
        PROVE  /\ sq' \in [Servers -> Seq(Datagrams)]
               /\ \A t \in Servers : Len(sq'[t]) <= QMax /\ (splace[t] = "off" => sq'[t] = <<>>)
               /\ \E m : added(s, m)
    <3>0. sq[s] \in Seq(Datagrams) /\ Len(sq[s]) <= QMax /\ Len(sq[s]) \in Nat
      BY <1>0 DEF UdpType
    <3>a. PICK b \in Seq(Datagrams) : b = sq[s] BY <3>0
    <3>b. Len(b) <= QMax BY <3>0, <3>a
    <3>1. Udp!Put(sq[s], d) \in Seq(Datagrams) /\ Len(Udp!Put(sq[s], d)) <= QMax
      BY <1>6, <3>0, PutFacts
    <3>2. \A k \in 1..Len(sq[s]) : Udp!Put(sq[s], d)[k] = sq[s][k]
      <4>1. d \in Datagrams BY <1>6
      <4>2. \A k \in 1..Len(b) : Udp!Put(b, d)[k] = b[k] BY <3>b, <4>1, PutFacts
      <4>3. QED BY <3>a, <4>2
    <3>3. \A k \in 1..Len(Udp!Put(sq[s], d)) :
            k \in 1..Len(sq[s]) \/ (k = Len(sq[s]) + 1 /\ Udp!Put(sq[s], d)[k] = d)
      <4>1. \A k \in 1..Len(Udp!Put(b, d)) :
              k \in 1..Len(b) \/ (k = Len(b) + 1 /\ Udp!Put(b, d)[k] = d)
        BY <1>6, <3>b, PutFacts
      <4>2. QED BY <3>a, <4>1
    <3>4. sq'[s] = Udp!Put(sq[s], d) /\ \A t \in Servers : t # s => sq'[t] = sq[t]
      BY <1>0, <2>2 DEF UdpType
    <3>5. sq' \in [Servers -> Seq(Datagrams)] BY <1>0, <2>2, <3>1 DEF UdpType
    <3>6. \A t \in Servers : Len(sq'[t]) <= QMax /\ (splace[t] = "off" => sq'[t] = <<>>)
      BY <1>0, <2>2, <3>1, <3>4 DEF UdpType
    <3>7. ASSUME NEW t \in Servers, NEW k \in Nat, NEW q \in Ports, From(t, k, q)'
          PROVE  \/ From(t, k, q) /\ Query(t, k)' = Query(t, k)
                 \/ t = s /\ k = Len(sq[s]) + 1 /\ q = p /\ Query(t, k)' = d
      <4>1. CASE t # s BY <1>1, <3>4, <3>7, <4>1 DEF From, Query
      <4>2. CASE t = s /\ k = 0
        <5>1. Query(t, k)' = Query(t, k) BY <1>1, <4>2 DEF Query
        <5>2. Query(t, k)'.from = q BY <3>7 DEF From
        <5>3. QED BY <3>0, <4>2, <5>1, <5>2 DEF From
      <4>3. CASE t = s /\ k \in 1..Len(sq[s])
        <5>1. Query(t, k)' = Query(t, k) BY <3>2, <3>4, <4>3 DEF Query
        <5>2. Query(t, k)'.from = q BY <3>7 DEF From
        <5>3. QED BY <3>0, <4>3, <5>1, <5>2 DEF From
      <4>4. CASE t = s /\ k = Len(sq[s]) + 1 /\ Udp!Put(sq[s], d)[k] = d
        <5>1. Query(t, k)' = d BY <3>0, <3>4, <4>4 DEF Query
        <5>2. Query(t, k)'.from = q BY <3>7 DEF From
        <5>3. QED BY <1>6, <4>4, <5>1, <5>2
      <4>5. t = s => k \in 0..Len(Udp!Put(sq[s], d)) BY <3>4, <3>7 DEF From
      <4>6. t = s /\ k # 0 => k \in 1..Len(Udp!Put(sq[s], d)) BY <3>1, <4>5
      <4>7. QED BY <3>3, <4>1, <4>2, <4>3, <4>4, <4>6
    <3>8. added(s, Len(sq[s]) + 1) BY <3>7
    <3> HIDE DEF added
    <3>9. \E m : added(s, m) BY <3>8
    <3>10. QED BY <3>5, <3>6, <3>9
  <2> HIDE DEF added
  <2>3. QED BY <1>7, <2>1, <2>2
<1>9. PICK s, m : \A t \in Servers, k \in Nat, q \in Ports : From(t, k, q)' =>
                    \/ From(t, k, q) /\ Query(t, k)' = Query(t, k)
                    \/ t = s /\ k = m /\ q = p /\ Query(t, k)' = d
  BY <1>8
<1>10. UdpType'
  <2>1. cplace' \in [Clients -> {"off", "prompt", "send", "recv", "printed"}] BY <1>0, <1>1 DEF UdpType
  <2>2. port' \in [Clients -> Ports \cup {Unset}] BY <1>0, <1>3 DEF UdpType
  <2>3. clean' \in [Clients -> BOOLEAN] BY <1>3
  <2>4. QED BY <1>0, <1>1, <1>8, <2>1, <2>2, <2>3 DEF UdpType
<1>11. PortInv'
  <2>1. \A q \in Ports : Free(q)' => cq[q] = <<>>
    <3> SUFFICES ASSUME NEW q \in Ports, Free(q)' PROVE cq[q] = <<>> OBVIOUS
    <3>1. q # p BY <1>4 DEF Free
    <3>2. \A e \in Clients : port[e] # q BY <1>2, <1>3, <1>4, <3>1 DEF Free
    <3>3. QED BY <1>0, <3>2 DEF PortInv, Free
  <2>2. \A e, f \in Clients : port'[e] = port'[f] /\ port'[e] # Unset => e = f
    BY <1>0, <1>3, <1>4 DEF PortInv
  <2>3. \A e \in Clients :
          /\ cplace'[e] \in {"off", "prompt"} => port'[e] = Unset
          /\ cplace'[e] \in {"recv", "printed"} => port'[e] # Unset
          /\ clean'[e] => port'[e] # Unset
    BY <1>0, <1>2, <1>3, <1>4 DEF PortInv
  <2>4. QED BY <1>1, <2>1, <2>2, <2>3 DEF PortInv
<1>12. PairInv'
  <2>1. \A t \in Servers, k \in Nat, q \in Ports : From(t, k, q)' => Query(t, k)'.rec.word \in Words
    BY <1>0, <1>6, <1>9 DEF PairInv
  <2>2. \A e \in Clients :
          /\ cplace'[e] \in {"send", "recv"} => rec'[e].word = typed'[e] /\ typed'[e] \in Words
          /\ cplace'[e] = "printed" => Right(rec'[e])
    BY <1>0, <1>1, <1>4 DEF PairInv
  <2>3. QED BY <1>0, <1>1, <2>1, <2>2 DEF PairInv, Right
<1>13. TurnInv'
  <2> SUFFICES ASSUME NEW e \in Clients PROVE Turn(e)' BY DEF TurnInv
  <2>1. CASE e = c
    <3> SUFFICES ASSUME clean'[c], NEW w \in Words, w = typed[c] PROVE Single(p, w)'
      BY <1>1, <1>4, <1>6, <2>1 DEF Turn
    <3>1. cq[p] = <<>> /\ \A t \in Servers, k \in Nat : ~From(t, k, p) BY <1>3 DEF Quiet
    <3>2. \A t \in Servers, k \in Nat : From(t, k, p)' => t = s /\ k = m /\ Query(t, k)' = d
      BY <1>9, <3>1
    <3>3. \A t \in Servers, k \in Nat : From(t, k, p)' => Query(t, k)'.rec.word = w
      BY <1>6, <3>2
    <3>4. Len(cq'[p]) <= 1 /\ cq'[p] = <<>> BY <1>1, <3>1
    <3>5. QED BY <3>2, <3>3, <3>4 DEF Single
  <2>2. CASE e # c
    <3>0. clean[e] => port[e] \in Ports /\ port[e] # p /\ typed[e] \in Words \cup {Unset}
      BY <1>0, <1>3, <2>2 DEF UdpType, PortInv
    <3> SUFFICES ASSUME clean[e], NEW q \in Ports, q = port[e],
                        NEW w \in Words \cup {Unset}, w = typed[e]
                 PROVE  /\ IF cplace[e] = "recv" THEN Single(q, w)' ELSE Quiet(q)'
                        /\ cplace[e] = "printed" => rec[e].word = w
      BY <1>1, <1>3, <1>4, <2>2, <3>0 DEF Turn
    <3>1. q # p /\ cq'[q] = cq[q] BY <1>1, <3>0
    <3>2. \A t \in Servers, k \in Nat :
            From(t, k, q)' => From(t, Same[t][k], q) /\ Query(t, k)' = Query(t, Same[t][k])
      BY <1>9, <3>1, SameFacts
    <3>3. \A t \in Servers, j, k \in Nat : Same[t][j] = Same[t][k] => j = k BY SameFacts
    <3>4. Single(q, w) => Single(q, w)' BY <3>1, <3>2, <3>3, SameFacts, SingleMoves
    <3>5. Quiet(q) => Quiet(q)' BY <3>1, <3>2, SameFacts, QuietMoves
    <3>6. QED BY <1>0, <3>4, <3>5 DEF TurnInv, Turn
  <2>3. QED BY <2>1, <2>2
<1>14. QED BY <1>10, <1>11, <1>12, <1>13 DEF UdpInv

LEMMA UdpStep == ASSUME UdpInv, [Udp!Next]_(Udp!vars) PROVE UdpInv'
<1>1. CASE UNCHANGED Udp!vars BY <1>1, UdpStutter
<1>2. ASSUME NEW s \in Servers, Udp!Bind(s) \/ Udp!Serve(s) \/ Udp!ServerDies(s) PROVE UdpInv'
  BY <1>2, UdpBindKeeps, UdpRecvFromKeeps, UdpSendToKeeps, UdpServerDiesKeeps DEF Udp!Serve
<1>3. ASSUME NEW c \in Clients,
             \/ Udp!Start(c) \/ Udp!GetWord(c) \/ Udp!Send(c) \/ Udp!Recv(c)
             \/ Udp!Quit(c) \/ Udp!ClientDies(c)
      PROVE  UdpInv'
  BY <1>3, UdpStartKeeps, UdpGetWordKeeps, UdpSendKeeps, UdpRecvKeeps, UdpGoneKeeps DEF Udp!Quit, Udp!ClientDies
<1>4. QED BY <1>1, <1>2, <1>3 DEF Udp!Next

LEMMA UdpInvRight == ASSUME UdpInv PROVE AnswersRight
<1>0. UdpType /\ PairInv /\ TurnInv BY DEF UdpInv
<1>1. UdpTypeOK
  <2>1. \A s \in Servers : \A k \in 1..Len(sq[s]) : sq[s][k].from \in Ports /\ sq[s][k].rec \in Udp!Record
    <3>1. \A s \in Servers : \A k \in 1..Len(sq[s]) : sq[s][k] \in Datagrams BY <1>0 DEF UdpType
    <3>2. QED BY <3>1 DEF Datagrams
  <2>2. \A s \in Servers :
          IF splace[s] = "lookup" THEN job[s].from \in Ports /\ job[s].rec \in Udp!Record
          ELSE job[s] = Udp!NoJob
    BY <1>0 DEF UdpType, Datagrams
  <2>3. \A p \in Ports : \A k \in 1..Len(cq[p]) : cq[p][k] \in Udp!Record BY <1>0 DEF UdpType
  <2>4. QED BY <1>0, <2>1, <2>2, <2>3
        DEF UdpType, UdpTypeOK, Udp!Record, Udp!Replies, Udp!NoJob, Udp!NoRec,
            Record, Replies, NoJob, NoRec
<1>2. PairPrinted BY <1>0 DEF PairInv, Right, PairPrinted
<1>3. OwnWord BY <1>0 DEF TurnInv, Turn, OwnWord
<1>4. QED BY <1>1, <1>2, <1>3 DEF AnswersRight

\* What a client of the UDP dictionary prints is a word with its own text,
\* late answers to an earlier owner of its port included, and it is the word
\* it asked for when no datagram of its port was on the way at its first
\* sendto: one query, one answer, for any number of servers bound to the port
\* and datagrams lost at full buffers (udp_server.c:51-66, lookup9.c:46-56).
THEOREM AnswersUdp == Udp!Spec => []AnswersRight
<1>1. Udp!Init => UdpInv BY UdpInit
<1>2. UdpInv /\ [Udp!Next]_(Udp!vars) => UdpInv' BY UdpStep
<1>3. UdpInv => AnswersRight BY UdpInvRight
<1>4. QED BY <1>1, <1>2, <1>3, PTL DEF Udp!Spec
=============================================================================
