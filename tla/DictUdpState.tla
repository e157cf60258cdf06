--------------------------- MODULE DictUdpState ----------------------------
(* The state of the UDP dictionary, its parameters, and what must hold of  *)
(* it; the steps of the programs are in DictUdp.                           *)
EXTENDS Naturals, Sequences, Dictionary

CONSTANTS
  Servers, Ports,
  Unset,        \* nothing typed, no port, a record not yet written
  NotFound,     \* the text of a word that is not in the dictionary
  QMax,         \* datagrams that fit into a socket's buffer
  MaxQueries,   \* bound: words typed by all clients together
  Mortal        \* servers and clients that may die

ASSUME UdpAssumption ==
  /\ QMax \in Nat \ {0} /\ MaxQueries \in Nat /\ Unset \notin Words /\ Unset \notin Ports
  /\ \A w \in Words : Dict[w] # Unset

VARIABLES
  splace, sq,    \* where each server is; the datagrams in its buffer
  job,           \* its dr and the address in client
  cplace, port,  \* where each client is; the port of its socket
  cq,            \* the datagrams in the buffer of that socket
  rec,           \* its tryit
  typed,         \* the word it typed last
  queries,       \* words typed so far
  clean          \* history: nothing was on the way to its port when it got it

Replies == {Dict[w] : w \in Words} \cup {Unset, NotFound}
Record  == [word : Words \cup {Unset}, text : Replies]
NoRec   == [word |-> Unset, text |-> Unset]
NoJob   == [from |-> Unset, rec |-> NoRec]

----------------------------------------------------------------------------
\* Every variable has its type, and an idle server holds no query.
UdpTypeOK ==
  /\ splace \in [Servers -> {"off", "recv", "lookup"}]
  /\ cplace \in [Clients -> {"off", "prompt", "send", "recv", "printed"}]
  /\ queries \in 0..MaxQueries
  /\ port \in [Clients -> Ports \cup {Unset}] /\ clean \in [Clients -> BOOLEAN]
  /\ rec \in [Clients -> Record] /\ typed \in [Clients -> Words \cup {Unset}]
  /\ \A s \in Servers :
       /\ Len(sq[s]) <= QMax /\ (splace[s] = "off" => sq[s] = <<>>)
       /\ \A k \in 1..Len(sq[s]) : sq[s][k].from \in Ports /\ sq[s][k].rec \in Record
       /\ IF splace[s] = "lookup" THEN job[s].from \in Ports /\ job[s].rec \in Record
          ELSE job[s] = NoJob
  /\ \A p \in Ports : /\ Len(cq[p]) <= QMax
                      /\ \A k \in 1..Len(cq[p]) : cq[p][k] \in Record

\* Whatever reaches a client, late answers to other clients included, is a
\* word with its own text: the server never sends the text of another word
\* or what it got in the query (udp_server.c:53-66).
PairPrinted == \A c \in Clients : cplace[c] = "printed" => rec[c].text = Dict[rec[c].word]

\* A client whose port nobody used shortly before prints the word it asked
\* for: one datagram answers one query, also with several servers bound,
\* although lookup9 compares nothing.
OwnWord == \A c \in Clients : clean[c] /\ cplace[c] = "printed" => rec[c].word = typed[c]

\* What reaches a client is of the right type and about the right word.
AnswersRight == UdpTypeOK /\ PairPrinted /\ OwnWord
=============================================================================
