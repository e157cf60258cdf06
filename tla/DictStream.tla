----------------------------- MODULE DictStream ----------------------------
(***************************************************************************)
(* The stream-socket dictionaries of SP_HW11: usock_server with lookup7    *)
(* (part 1, Unix sockets) and isock_server with lookup8 (part 2, TCP),     *)
(* which differ only in how an address is made.  The server accepts a      *)
(* connection, forks a child for it, closes its own descriptor and accepts *)
(* the next; the child answers the queries of one client until end of      *)
(* file.  A client connects at its first lookup and keeps the connection.  *)
(*                                                                         *)
(* A connection ends for the client when no process of the server has it   *)
(* open any more: in order (recv returns 0) or, if queries were left       *)
(* unread, with a reset (recv returns -1).  Children are never waited for. *)
(* A record is sent and received whole.                                    *)
(***************************************************************************)
EXTENDS Integers, Sequences, FiniteSets, Dictionary

CONSTANTS
  XXXX,      \* the text of a word that is not in the dictionary
  Garbage,   \* what an uninitialised Dictrec holds
  Nobody,    \* no connection
  Backlog,   \* connections that may wait for accept
  Kills      \* which processes may be killed: "server", "child", "client"

ASSUME StreamAssumption ==
  /\ DOMAIN Dict = Words /\ Nobody \notin Clients
  /\ Backlog \in Nat \ {0}
  /\ Kills \subseteq {"server", "child", "client"}

VARIABLES
  spc,      \* where the server is
  cd,       \* the connection the server itself has open, or Nobody
  backlog,  \* connections not yet accepted
  child,    \* the child of each connection
  buf,      \* the child's tryit
  conn,     \* the connection as its client sees it
  up, down, \* records under way to the child and to the client
  cpc,      \* where each client is
  tryit,    \* the client's Dictrec
  asked     \* history: the word the user typed

server == <<spc, cd, backlog>>
wires  == <<conn, up, down>>
client == <<cpc, tryit, asked>>
vars   == <<server, child, buf, wires, client>>

Serving == {"recv", "lookup", "send"}
Gone    == spc \in {"dead", "killed"}
Texts   == {Dict[w] : w \in Words} \cup {XXXX, Garbage}

Init ==
  /\ spc = "setup" /\ cd = Nobody /\ backlog = <<>>
  /\ child = [c \in Clients |-> "none"]
  /\ buf = [c \in Clients |-> [word |-> Garbage, text |-> Garbage]]
  /\ conn = [c \in Clients |-> "none"]
  /\ up = [c \in Clients |-> <<>>] /\ down = [c \in Clients |-> <<>>]
  /\ cpc = [c \in Clients |-> "main"]
  /\ tryit = [c \in Clients |-> [word |-> Garbage, text |-> Garbage]]
  /\ asked = [c \in Clients |-> Garbage]

\* The last descriptor of the connections in S is closed on the server's
\* side; those in R are reset whatever they hold.
Hangup(S, R) ==
  conn' = [c \in Clients |->
             IF conn[c] # "open" \/ c \notin S \cup R THEN conn[c]
             ELSE IF c \in R \/ up[c] # <<>> THEN "reset" ELSE "closed"]

----------------------------------------------------------------------------
(* The server process.                                                     *)

\* socket, bind, listen.
ServerListen ==
  /\ spc = "setup"
  /\ spc' = "accept"
  /\ UNCHANGED <<cd, backlog, child, buf, wires, client>>

Accept ==
  /\ spc = "accept" /\ backlog # <<>>
  /\ spc' = "fork" /\ cd' = Head(backlog) /\ backlog' = Tail(backlog)
  /\ UNCHANGED <<child, buf, wires, client>>

\* The server's end: its own descriptor goes, and with the listening socket
\* every connection that was not accepted.
ServerEnds(how) ==
  /\ spc' = how /\ cd' = Nobody /\ backlog' = <<>>
  /\ Hangup({c \in Clients : c = cd /\ child[c] \notin Serving},
            {backlog[k] : k \in 1..Len(backlog)})
  /\ UNCHANGED <<child, buf, up, down, client>>

\* fork may fail, if only because all the zombies count: DIE.
Fork ==
  /\ spc = "fork"
  /\ \/ /\ spc' = "close"
        /\ child' = [child EXCEPT ![cd] = "recv"]
        /\ UNCHANGED <<cd, backlog, buf, wires, client>>
     \/ ServerEnds("dead")

\* Mutant: the server keeps its descriptor of the connection.
CloseNot ==
  /\ spc = "close"
  /\ spc' = "accept"
  /\ UNCHANGED <<cd, backlog, child, buf, wires, client>>

Close ==
  /\ spc = "close"
  /\ spc' = "accept" /\ cd' = Nobody
  /\ Hangup({c \in Clients : c = cd /\ child[c] \notin Serving}, {})
  /\ UNCHANGED <<backlog, child, buf, up, down, client>>

KillServer ==
  /\ "server" \in Kills /\ ~Gone
  /\ ServerEnds("killed")

----------------------------------------------------------------------------
(* A child, in dialogue with one client.                                   *)

ChildEnds(c) ==
  /\ child' = [child EXCEPT ![c] = "zombie"]
  /\ Hangup({c} \ {cd}, {})
  /\ UNCHANGED <<server, buf, up, down, client>>

ChildRecv(c) ==
  /\ child[c] = "recv" /\ up[c] # <<>>
  /\ buf' = [buf EXCEPT ![c] = Head(up[c])]
  /\ up' = [up EXCEPT ![c] = Tail(@)]
  /\ child' = [child EXCEPT ![c] = "lookup"]
  /\ UNCHANGED <<server, conn, down, client>>

\* Mutant: only recv returning -1 ends the loop.
ChildEofAgain(c) ==
  /\ child[c] = "recv" /\ cpc[c] = "exited" /\ up[c] = <<>>
  /\ UNCHANGED vars

\* recv returns 0, or -1 when the client left an answer unread.
ChildEof(c) ==
  /\ child[c] = "recv" /\ cpc[c] = "exited" /\ up[c] = <<>>
  /\ ChildEnds(c)

\* Mutant: nothing is put into the text of a word that was not found.
LookupKeepsText(c) ==
  /\ child[c] = "lookup"
  /\ buf' = [buf EXCEPT ![c].text = IF Dict[buf[c].word] = XXXX THEN @ ELSE Dict[buf[c].word]]
  /\ child' = [child EXCEPT ![c] = "send"]
  /\ UNCHANGED <<server, wires, client>>

\* lookup5, and strcpy of "XXXX" when it says NOTFOUND; the first lookup of a
\* child (the client's text is still uninitialised) may end it, at the open or
\* the mmap of the dictionary.
Lookup(c) ==
  /\ child[c] = "lookup"
  /\ \/ /\ buf' = [buf EXCEPT ![c].text = Dict[buf[c].word]]
        /\ child' = [child EXCEPT ![c] = "send"]
        /\ UNCHANGED <<server, wires, client>>
     \/ buf[c].text = Garbage /\ ChildEnds(c)

\* Mutant: the answer is sent twice.
ChildSendTwice(c) ==
  /\ child[c] = "send"
  /\ \/ /\ cpc[c] # "exited"
        /\ down' = [down EXCEPT ![c] = @ \o <<buf[c], buf[c]>>]
        /\ child' = [child EXCEPT ![c] = "recv"]
        /\ UNCHANGED <<server, buf, conn, up, client>>
     \/ cpc[c] = "exited" /\ ChildEnds(c)

\* When the client has gone send fails (SIGPIPE or DIE) or, with TCP, may
\* still succeed into the void.
ChildSend(c) ==
  /\ child[c] = "send"
  /\ \/ /\ cpc[c] # "exited"
        /\ down' = [down EXCEPT ![c] = Append(@, buf[c])]
        /\ child' = [child EXCEPT ![c] = "recv"]
        /\ UNCHANGED <<server, buf, conn, up, client>>
     \/ cpc[c] = "exited" /\ ChildEnds(c)
     \/ /\ cpc[c] = "exited"
        /\ child' = [child EXCEPT ![c] = "recv"]
        /\ UNCHANGED <<server, buf, wires, client>>

KillChild(c) ==
  /\ "child" \in Kills /\ child[c] \in Serving
  /\ ChildEnds(c)

ServerStep == ServerListen \/ Accept \/ Fork \/ Close
ChildStep(c) == ChildRecv(c) \/ ChildEof(c) \/ Lookup(c) \/ ChildSend(c)

----------------------------------------------------------------------------
(* A client.                                                               *)

Goto(c, l) == cpc' = [cpc EXCEPT ![c] = l]

GetWord(c, w) ==
  /\ cpc[c] = "main"
  /\ tryit' = [tryit EXCEPT ![c].word = w] /\ asked' = [asked EXCEPT ![c] = w]
  /\ Goto(c, IF conn[c] = "none" THEN "connect" ELSE "send")
  /\ UNCHANGED <<server, child, buf, wires>>

\* End of input.
Quit(c) ==
  /\ cpc[c] = "main"
  /\ Goto(c, "exited")
  /\ UNCHANGED <<server, child, buf, wires, tryit, asked>>

\* connect: refused without a listening server, blocked by a full backlog.
Connect(c) ==
  /\ cpc[c] = "connect"
  /\ \/ /\ spc = "setup" \/ Gone
        /\ Goto(c, "exited")
        /\ UNCHANGED <<backlog, conn>>
     \/ /\ spc # "setup" /\ ~Gone /\ Len(backlog) < Backlog
        /\ backlog' = Append(backlog, c)
        /\ conn' = [conn EXCEPT ![c] = "open"]
        /\ Goto(c, "send")
  /\ UNCHANGED <<spc, cd, child, buf, up, down, tryit, asked>>

\* Once the server's side is closed a send kills the client (SIGPIPE) or,
\* with TCP, may still succeed into the void.
Send(c) ==
  /\ cpc[c] = "send"
  /\ \/ /\ conn[c] = "open"
        /\ up' = [up EXCEPT ![c] = Append(@, tryit[c])]
        /\ Goto(c, "recv")
     \/ /\ conn[c] # "open"
        /\ Goto(c, "recv") \/ Goto(c, "exited")
        /\ UNCHANGED up
  /\ UNCHANGED <<server, child, buf, conn, down, tryit, asked>>

Recv(c) ==
  /\ cpc[c] = "recv" /\ down[c] # <<>>
  /\ tryit' = [tryit EXCEPT ![c] = Head(down[c])]
  /\ down' = [down EXCEPT ![c] = Tail(@)]
  /\ Goto(c, "print")
  /\ UNCHANGED <<server, child, buf, conn, up, asked>>

\* recv returns 0, which lookup7 and lookup8 take for a reply.
RecvEof(c) ==
  /\ cpc[c] = "recv" /\ down[c] = <<>> /\ conn[c] = "closed"
  /\ Goto(c, "print")
  /\ UNCHANGED <<server, child, buf, wires, tryit, asked>>

\* recv returns -1: exit.
RecvReset(c) ==
  /\ cpc[c] = "recv" /\ conn[c] = "reset"
  /\ Goto(c, "exited")
  /\ UNCHANGED <<server, child, buf, wires, tryit, asked>>

PrintAnswer(c) ==
  /\ cpc[c] = "print"
  /\ Goto(c, "main")
  /\ UNCHANGED <<server, child, buf, wires, tryit, asked>>

KillClient(c) ==
  /\ "client" \in Kills /\ cpc[c] # "exited"
  /\ Goto(c, "exited")
  /\ UNCHANGED <<server, child, buf, wires, tryit, asked>>

ClientStep(c) ==
  Connect(c) \/ Send(c) \/ Recv(c) \/ RecvEof(c) \/ RecvReset(c) \/ PrintAnswer(c)

Next ==
  \/ ServerStep \/ KillServer
  \/ \E c \in Clients :
       \/ ChildStep(c) \/ KillChild(c)
       \/ \E w \in Words : GetWord(c, w)
       \/ Quit(c) \/ ClientStep(c) \/ KillClient(c)

Spec == Init /\ [][Next]_vars

\* Every process keeps running; connections are queued in order, so nobody
\* is overtaken for ever at a full backlog.
FairSpec ==
  /\ Spec
  /\ WF_vars(ServerStep)
  /\ \A c \in Clients :
       WF_vars(ChildStep(c)) /\ WF_vars(ClientStep(c)) /\ SF_vars(Connect(c))

----------------------------------------------------------------------------
(* Properties.                                                             *)

Recs == [word : Words \cup {Garbage}, text : Texts]

\* Every variable keeps its type; a connection never holds more than one
\* record in each direction.
TypeOK ==
  /\ spc \in {"setup", "accept", "fork", "close", "dead", "killed"}
  /\ cd \in Clients \cup {Nobody}
  /\ backlog \in Seq(Clients) /\ Len(backlog) <= Backlog
  /\ child \in [Clients -> Serving \cup {"none", "zombie"}]
  /\ buf \in [Clients -> Recs] /\ tryit \in [Clients -> Recs]
  /\ conn \in [Clients -> {"none", "open", "closed", "reset"}]
  /\ up \in [Clients -> Seq(Recs)] /\ down \in [Clients -> Seq(Recs)]
  /\ \A c \in Clients : Len(up[c]) \in {0, 1} /\ Len(down[c]) \in {0, 1}
  /\ cpc \in [Clients -> {"main", "connect", "send", "recv", "print", "exited"}]
  /\ asked \in [Clients -> Words \cup {Garbage}]

\* Queries and answers stay in step: what a client prints while its
\* connection stands is the answer to the word just typed.
AnswerWhileConnected ==
  \A c \in Clients :
    cpc[c] = "print" /\ conn[c] = "open" =>
      tryit[c] = [word |-> asked[c], text |-> Dict[asked[c]]]

\* A connection stands as long as somebody on the server's side can still
\* serve it, and no longer: it is queued, in the server's hands, or a living
\* child has it.
OpenIsServed ==
  \A c \in Clients :
    conn[c] = "open" <=>
      \/ \E k \in 1..Len(backlog) : backlog[k] = c
      \/ cd = c
      \/ child[c] \in Serving

\* A client that has sent a query does not wait for ever, whoever dies.
RecvEnds ==
  \A c \in Clients : cpc[c] = "recv" ~> cpc[c] # "recv"

\* A child does not outlive its client for ever.
ChildrenEnd ==
  \A c \in Clients : (child[c] \in Serving /\ cpc[c] = "exited") ~> child[c] = "zombie"

\* Whoever dies, the other side of its connection notices and goes on: recv
\* returns in the client and in the child that serves it.
EveryoneNotices == RecvEnds /\ ChildrenEnd
=============================================================================
