------------------------------- MODULE MqFile -------------------------------
(***************************************************************************)
(* The file service over POSIX message queues of SP_HW9/52_3.  The two     *)
(* files carry an unresolved merge; this is their HEAD side.  A client     *)
(* creates a queue named after its pid, asks the server for a file and     *)
(* counts the messages that come back, and the bytes that strlen finds in  *)
(* them, until one begins with a NUL byte.                                 *)
(*                                                                         *)
(* A message is the number of its bytes before the first NUL.  A queue     *)
(* outlives the processes that use it until mq_unlink: it is known by the  *)
(* client that created it, and the name of a pid leads to it.  mq_send and *)
(* mq_receive on an open queue block and do not fail.                      *)
(***************************************************************************)
EXTENDS SequencesExt, MqFileState

serverVars == <<created, splace, req, dst, rest, dirty>>
clientVars == <<cplace, mine, file, counted, bytes, clean>>
vars       == <<serverVars, requests, name, inbox, clientVars>>

NoReq == [from |-> Nobody, file |-> Missing]

Init ==
  /\ created = FALSE /\ requests = <<>> /\ splace = "start"
  /\ req = NoReq /\ dst = Nobody /\ rest = <<>> /\ dirty = TRUE
  /\ name = [p \in {Pid[c] : c \in Clients} |-> Nobody]
  /\ inbox = [c \in Clients |-> <<>>]
  /\ cplace = [c \in Clients |-> "off"] /\ mine = [c \in Clients |-> Nobody]
  /\ file \in [Clients -> Files] /\ counted = [c \in Clients |-> 0]
  /\ bytes = [c \in Clients |-> 0]
  /\ clean = [c \in Clients |-> FALSE]

----------------------------------------------------------------------------
(* The server.                                                             *)

CreateQueue ==
  /\ splace = "start" /\ splace' = "receive" /\ created' = TRUE
  /\ UNCHANGED <<req, dst, rest, dirty, requests, name, inbox, clientVars>>

Receive ==
  /\ splace = "receive" /\ requests # <<>>
  /\ req' = Head(requests) /\ requests' = Tail(requests) /\ splace' = "client"
  /\ UNCHANGED <<created, dst, rest, dirty, name, inbox, clientVars>>

\* The client's queue is opened by name; without one the request is dropped.
OpenClient ==
  /\ splace = "client" /\ dst' = name[Pid[req.from]]
  /\ splace' = IF dst' = Nobody THEN "receive" ELSE "file"
  /\ UNCHANGED <<created, req, rest, dirty, requests, name, inbox, clientVars>>

\* A file that cannot be opened: no message at all, and mq_client stays open.
OpenFile ==
  /\ splace = "file"
  /\ IF req.file = Missing THEN splace' = "receive" /\ rest' = rest
                           ELSE splace' = "send" /\ rest' = Content[req.file]
  /\ UNCHANGED <<created, req, dst, dirty, requests, name, inbox, clientVars>>

\* mq_send waits for room.  What strlen will find: of the first chunk of all,
\* unless it has a NUL, also what the buffer happens to hold behind it.
Put(m) == /\ Len(inbox[dst]) < MqMax
          /\ inbox' = [inbox EXCEPT ![dst] = Append(@, m)]

PutChunk ==
  /\ splace = "send" /\ rest # <<>> /\ rest' = Tail(rest)
  /\ \E x \in IF dirty /\ ~Head(rest).nul THEN Residues ELSE {0} : Put(Head(rest).text + x)

\* Mutant: the buffer is not cleared after a chunk is sent.
SendNoMemset ==
  PutChunk /\ UNCHANGED <<created, splace, req, dst, dirty, requests, name, clientVars>>

SendChunk ==
  /\ PutChunk /\ dirty' = FALSE
  /\ UNCHANGED <<created, splace, req, dst, requests, name, clientVars>>

\* Mutant: no message marks the end.
EndUnsent ==
  /\ splace = "send" /\ rest = <<>> /\ splace' = "receive"
  /\ UNCHANGED <<created, req, dst, rest, dirty, requests, name, inbox, clientVars>>

SendEnd ==
  /\ splace = "send" /\ rest = <<>> /\ Put(0) /\ splace' = "receive"
  /\ UNCHANGED <<created, req, dst, rest, dirty, requests, name, clientVars>>

----------------------------------------------------------------------------
(* A client.  Two with one pid do not run at the same time.                *)

To(c, s)   == cplace' = [cplace EXCEPT ![c] = s]
AskedBefore(p) ==
  \/ \E k \in 1..Len(requests) : Pid[requests[k].from] = p
  \/ splace = "client" /\ Pid[req.from] = p

\* O_CREAT: a queue that is there already is used with what is in it.
OpenOwn(c) ==
  /\ cplace[c] = "off" /\ \A d \in Clients : Pid[d] = Pid[c] => ~Running(d)
  /\ LET p == Pid[c] IN
       /\ mine' = [mine EXCEPT ![c] = IF name[p] = Nobody THEN c ELSE name[p]]
       /\ name' = [name EXCEPT ![p] = IF @ = Nobody THEN c ELSE @]
       /\ clean' = [clean EXCEPT ![c] = name[p] = Nobody /\ ~AskedBefore(p)]
  /\ To(c, "server") /\ UNCHANGED <<file, counted, bytes, serverVars, requests, inbox>>

\* Without a server the client exits and leaves its queue behind.
OpenServer(c) ==
  /\ cplace[c] = "server" /\ To(c, IF created THEN "send" ELSE "dead")
  /\ UNCHANGED <<mine, file, counted, bytes, clean, serverVars, requests, name, inbox>>

Request(c) ==
  /\ cplace[c] = "send" /\ Len(requests) < MqMax /\ To(c, "recv")
  /\ requests' = Append(requests, [from |-> c, file |-> file[c]])
  /\ UNCHANGED <<mine, file, counted, bytes, clean, serverVars, name, inbox>>

\* Mutant: the end marker is counted too.
RecvCountsEnd(c) ==
  /\ cplace[c] = "recv" /\ inbox[mine[c]] # <<>>
  /\ inbox' = [inbox EXCEPT ![mine[c]] = Tail(@)]
  /\ bytes' = [bytes EXCEPT ![c] = @ + Head(inbox[mine[c]])]
  /\ counted' = [counted EXCEPT ![c] = @ + 1]
  /\ To(c, IF Head(inbox[mine[c]]) = 0 THEN "close" ELSE "recv")
  /\ UNCHANGED <<mine, file, clean, serverVars, requests, name>>

\* Mutant: mq_receive does not wait, and no message is taken for the end.
RecvNoWait(c) ==
  /\ cplace[c] = "recv" /\ bytes' = bytes
  /\ inbox' = [inbox EXCEPT ![mine[c]] = IF @ = <<>> THEN @ ELSE Tail(@)]
  /\ IF inbox[mine[c]] = <<>> \/ Head(inbox[mine[c]]) = 0
     THEN To(c, "close") /\ counted' = counted
     ELSE To(c, "recv") /\ counted' = [counted EXCEPT ![c] = @ + 1]
  /\ UNCHANGED <<mine, file, clean, serverVars, requests, name>>

Recv(c) ==
  /\ cplace[c] = "recv" /\ inbox[mine[c]] # <<>>
  /\ inbox' = [inbox EXCEPT ![mine[c]] = Tail(@)]
  /\ LET m == Head(inbox[mine[c]]) IN
       IF m = 0 THEN To(c, "close") /\ UNCHANGED <<counted, bytes>>
       ELSE /\ To(c, "recv")
            /\ bytes' = [bytes EXCEPT ![c] = @ + m]
            /\ counted' = [counted EXCEPT ![c] = @ + 1]
  /\ UNCHANGED <<mine, file, clean, serverVars, requests, name>>

\* The counts are printed and the name is removed.
Unlink(c) ==
  /\ cplace[c] = "close" /\ To(c, "done")
  /\ name' = [name EXCEPT ![Pid[c]] = Nobody]
  /\ UNCHANGED <<mine, file, counted, bytes, clean, serverVars, requests, inbox>>

Kill(c) ==
  /\ c \in Mortal /\ Running(c) /\ To(c, "dead")
  /\ UNCHANGED <<mine, file, counted, bytes, clean, serverVars, requests, name, inbox>>

----------------------------------------------------------------------------
Server    == Receive \/ OpenClient \/ OpenFile \/ SendChunk \/ SendEnd
Client(c) == OpenServer(c) \/ Request(c) \/ Recv(c) \/ Unlink(c)
Next == CreateQueue \/ Server \/ \E c \in Clients : OpenOwn(c) \/ Client(c) \/ Kill(c)
Spec == Init /\ [][Next]_vars

\* Both sides go on whenever they can; nobody has to start a client or kill one.
FairSpec == Spec /\ WF_vars(Server) /\ \A c \in Clients : WF_vars(Client(c))

----------------------------------------------------------------------------
(* Properties.                                                             *)

\* What strlen finds in the chunks of a file when nothing shows behind them.
Shown(f) == FoldLeft(LAMBDA sum, d : sum + d.text, 0, Content[f])

\* A client that counts all messages reports the bytes before the first NUL of
\* every chunk.  One client in the life of the server may report more: the
\* buffer of its first chunk has never been cleared (server.c, server_res).
Reported == {c \in Clients : cplace[c] = "done" /\ clean[c] /\ file[c] # Missing /\ Plain(file[c])}
Excess(c) == bytes[c] - Shown(file[c])
BytesFile ==
  /\ \A c \in Reported : Excess(c) \in Residues \cup {0}
  /\ \A c, d \in Reported : Excess(c) # 0 /\ Excess(d) # 0 => c = d

\* A client that asks for a file that can be opened gets to the end of it,
\* unless the server is stuck.
ServedUnlessStuck ==
  \A c \in Clients : cplace[c] = "recv" /\ clean[c] /\ file[c] # Missing ~> cplace[c] # "recv" \/ Stuck
=============================================================================
