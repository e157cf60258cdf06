------------------------------ MODULE DictUdp ------------------------------
(***************************************************************************)
(* The UDP dictionary of SP_HW11/part3: clients (main.c, lookup9.c) send a *)
(* Dictrec to a server (udp_server.c, lookup5.c) and wait for a Dictrec    *)
(* without a timeout.                                                      *)
(*                                                                         *)
(* Everything stays on 127.0.0.1: a datagram is not reordered on its way   *)
(* to a socket, and it is lost exactly when no socket has the port or the  *)
(* socket's buffer is full.  The server's setsockopt sets SO_REUSEPORT, so *)
(* several servers may be bound at once and the kernel picks one for each  *)
(* datagram.  A client's port is chosen by the kernel at its first sendto  *)
(* and may be one that a client which has ended used before.               *)
(***************************************************************************)
EXTENDS DictUdpState

serverVars == <<splace, sq, job>>
clientVars == <<cplace, port, rec, typed, queries, clean>>
vars       == <<serverVars, clientVars, cq>>

Init ==
  /\ splace = [s \in Servers |-> "off"] /\ sq = [s \in Servers |-> <<>>]
  /\ job = [s \in Servers |-> NoJob]
  /\ cplace = [c \in Clients |-> "off"] /\ port = [c \in Clients |-> Unset]
  /\ cq = [p \in Ports |-> <<>>]
  /\ rec = [c \in Clients |-> NoRec] /\ typed = [c \in Clients |-> Unset]
  /\ queries = 0 /\ clean = [c \in Clients |-> FALSE]

Put(q, d) == IF Len(q) < QMax THEN Append(q, d) ELSE q

----------------------------------------------------------------------------
(* The server.                                                             *)

Bound == {s \in Servers : splace[s] # "off"}

Bind(s) ==
  /\ splace[s] = "off" /\ splace' = [splace EXCEPT ![s] = "recv"]
  /\ UNCHANGED <<sq, job, clientVars, cq>>

RecvFrom(s) ==
  /\ splace[s] = "recv" /\ sq[s] # <<>>
  /\ job' = [job EXCEPT ![s] = Head(sq[s])]
  /\ sq' = [sq EXCEPT ![s] = Tail(@)]
  /\ splace' = [splace EXCEPT ![s] = "lookup"]
  /\ UNCHANGED <<clientVars, cq>>

lookup(r) == [r EXCEPT !.text = Dict[r.word]]

\* Mutant: the answer goes out twice, in both branches of the switch.
SendTwice(s) ==
  /\ splace[s] = "lookup"
  /\ LET p == job[s].from
         a == lookup(job[s].rec)
     IN  cq' = [cq EXCEPT ![p] = IF \E c \in Clients : port[c] = p THEN Put(Put(@, a), a) ELSE @]
  /\ splace' = [splace EXCEPT ![s] = "recv"] /\ job' = [job EXCEPT ![s] = NoJob]
  /\ UNCHANGED <<sq, clientVars>>

\* Mutant: no answer for a word that is not found.
SendFound(s) ==
  /\ splace[s] = "lookup"
  /\ LET p == job[s].from
         a == lookup(job[s].rec)
     IN  cq' = [cq EXCEPT ![p] = IF a.text # NotFound /\ \E c \in Clients : port[c] = p
                                 THEN Put(@, a) ELSE @]
  /\ splace' = [splace EXCEPT ![s] = "recv"] /\ job' = [job EXCEPT ![s] = NoJob]
  /\ UNCHANGED <<sq, clientVars>>

SendTo(s) ==
  /\ splace[s] = "lookup"
  /\ LET p == job[s].from
         a == lookup(job[s].rec)
     IN  cq' = [cq EXCEPT ![p] = IF \E c \in Clients : port[c] = p THEN Put(@, a) ELSE @]
  /\ splace' = [splace EXCEPT ![s] = "recv"] /\ job' = [job EXCEPT ![s] = NoJob]
  /\ UNCHANGED <<sq, clientVars>>

\* DIE, or a fatal signal: the socket goes with what is in its buffer.
ServerDies(s) ==
  /\ s \in Mortal /\ splace[s] # "off"
  /\ splace' = [splace EXCEPT ![s] = "off"] /\ sq' = [sq EXCEPT ![s] = <<>>]
  /\ job' = [job EXCEPT ![s] = NoJob]
  /\ UNCHANGED <<clientVars, cq>>

----------------------------------------------------------------------------
(* A client.  Its tryit is not initialised: Unset is whatever was there.   *)

Start(c) ==
  /\ cplace[c] = "off" /\ cplace' = [cplace EXCEPT ![c] = "prompt"]
  /\ UNCHANGED <<port, rec, typed, queries, clean, serverVars, cq>>

GetWord(c) ==
  /\ cplace[c] \in {"prompt", "printed"} /\ cplace' = [cplace EXCEPT ![c] = "send"]
  /\ queries < MaxQueries /\ queries' = queries + 1
  /\ \E w \in Words : rec' = [rec EXCEPT ![c].word = w] /\ typed' = [typed EXCEPT ![c] = w]
  /\ UNCHANGED <<port, clean, serverVars, cq>>

OnTheWay(p) ==
  \E s \in Servers : job[s].from = p \/ \E k \in 1..Len(sq[s]) : sq[s][k].from = p

\* The first sendto gives the socket a port that no socket has.
TakePort(c) ==
  IF port[c] # Unset THEN UNCHANGED <<port, clean>>
  ELSE \E p \in Ports :
         /\ \A d \in Clients : port[d] # p
         /\ port' = [port EXCEPT ![c] = p] /\ clean' = [clean EXCEPT ![c] = ~OnTheWay(p)]

Send(c) ==
  /\ cplace[c] = "send" /\ cplace' = [cplace EXCEPT ![c] = "recv"]
  /\ TakePort(c)
  /\ LET d == [from |-> port'[c], rec |-> rec[c]] IN
       IF Bound = {} THEN sq' = sq ELSE \E s \in Bound : sq' = [sq EXCEPT ![s] = Put(@, d)]
  /\ UNCHANGED <<splace, job, rec, typed, queries, cq>>

\* recvfrom overwrites the whole record, the word included, and main prints it.
Recv(c) ==
  /\ cplace[c] = "recv" /\ cq[port[c]] # <<>>
  /\ rec' = [rec EXCEPT ![c] = Head(cq[port[c]])]
  /\ cq' = [cq EXCEPT ![port[c]] = Tail(@)]
  /\ cplace' = [cplace EXCEPT ![c] = "printed"]
  /\ UNCHANGED <<port, typed, queries, clean, serverVars>>

Gone(c) ==
  /\ cplace' = [cplace EXCEPT ![c] = "off"] /\ port' = [port EXCEPT ![c] = Unset]
  /\ cq' = IF port[c] = Unset THEN cq ELSE [cq EXCEPT ![port[c]] = <<>>]
  /\ rec' = [rec EXCEPT ![c] = NoRec] /\ typed' = [typed EXCEPT ![c] = Unset]
  /\ clean' = [clean EXCEPT ![c] = FALSE]
  /\ UNCHANGED <<queries, serverVars>>

Quit(c) == cplace[c] \in {"prompt", "printed"} /\ Gone(c)

\* DIE, or a fatal signal.
ClientDies(c) == c \in Mortal /\ cplace[c] \in {"send", "recv"} /\ Gone(c)

----------------------------------------------------------------------------
Serve(s) == RecvFrom(s) \/ SendTo(s)
Next ==
  \/ \E s \in Servers : Bind(s) \/ Serve(s) \/ ServerDies(s)
  \/ \E c \in Clients : \/ Start(c) \/ GetWord(c) \/ Send(c) \/ Recv(c)
                        \/ Quit(c) \/ ClientDies(c)
Spec == Init /\ [][Next]_vars

\* A process that can go on does; nobody has to type a word.
FairSpec ==
  /\ Spec /\ \A s \in Servers : WF_vars(Serve(s))
  /\ \A c \in Clients : WF_vars(Send(c)) /\ WF_vars(Recv(c))

----------------------------------------------------------------------------
(* Properties.                                                             *)

\* A query that has reached a server which does not die is answered, unless
\* the client ends first: a found word and a word not found alike, and the
\* answer finds room in the client's buffer (udp_server.c:51-66).
QueryAt(s, c) == \/ job[s].from = port[c]
                 \/ \E k \in 1..Len(sq[s]) : sq[s][k].from = port[c]
QueryAnswered ==
  \A c \in Clients, s \in Servers \ Mortal :
    cplace[c] = "recv" /\ clean[c] /\ QueryAt(s, c) ~> cplace[c] # "recv"
=============================================================================
