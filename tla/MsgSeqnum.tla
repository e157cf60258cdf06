----------------------------- MODULE MsgSeqnum -----------------------------
(***************************************************************************)
(* The System V message-queue sequence-number server of SP_HW8/46_2.       *)
(* Requests (mtype 1) and responses (mtype = the client's pid) share one   *)
(* queue of bounded size; msgsnd blocks while a message does not fit, for  *)
(* clients and server alike.  The queue is never removed and outlives the  *)
(* server.  Every client process sends one request.                        *)
(***************************************************************************)
EXTENDS Integers, Sequences, FiniteSets, Processes

CONSTANTS
  Request,    \* mtype 1
  SeqLens,    \* positive lengths given on the command line
  IntMax,     \* INT_MAX
  QMax,       \* messages the queue holds: its msg_qbytes by 8 bytes each
  MaxStarts   \* bound: how often the server is started; killed too if above 1

ASSUME MsgAssumption ==
  /\ Request \notin Clients /\ Mortal \subseteq Clients
  /\ IntMax \in Nat \ {0} /\ SeqLens \subseteq 1..IntMax
  /\ QMax \in Nat \ {0} /\ MaxStarts \in Nat

VARIABLES
  made,     \* the queue exists
  queue,    \* its messages, oldest first: [mtype, pid, n]
  spc,      \* where the server is
  seqNum,
  resp,     \* the server's response buffer
  starts,   \* how often the server was started
  cpc,      \* where each client is
  seqLen,   \* req.seqLen of each client
  got,      \* the number the client printed
  spent,    \* history: sum of the lengths cut off by all runs of the server
  granted,  \* history: the range each response stands for
  run       \* history: which run of the server each response is from

svars   == <<spc, seqNum, resp, starts>>
cvars   == <<cpc, seqLen, got>>
history == <<spent, granted, run>>
vars    == <<made, queue, svars, cvars, history>>

Modulus == 2 * (IntMax + 1)
AddInt(a, b) == IF a + b > IntMax THEN a + b - Modulus ELSE a + b
NoRange == [at |-> 0, len |-> 0]

OfType(t) == {i \in 1..Len(queue) : queue[i].mtype = t}

\* msgsnd goes on when the message fits beside what is queued.  A request
\* and a response are the same size: sizeof(struct response) includes the
\* padding after its one int.
Fits == Len(queue) < QMax

\* msgrcv with a type takes the oldest message of that type.
FirstOf(t) == CHOOSE i \in OfType(t) : \A j \in OfType(t) : i <= j

Without(i) == SubSeq(queue, 1, i - 1) \o SubSeq(queue, i + 1, Len(queue))

Init ==
  /\ made = FALSE /\ queue = <<>>
  /\ spc = "off" /\ seqNum = 0 /\ starts = 0
  /\ resp = [mtype |-> Request, pid |-> Request, n |-> 0]
  /\ cpc = [c \in Clients |-> "start"] /\ seqLen = [c \in Clients |-> 0]
  /\ got = [c \in Clients |-> 0]
  /\ spent = 0 /\ granted = [c \in Clients |-> NoRange]
  /\ run = [c \in Clients |-> 0]

----------------------------------------------------------------------------
(* The server.                                                             *)

\* msgget: it creates the queue, or on EEXIST takes the old one with
\* whatever messages it still holds.  seqNum starts at 0 each time.
ServerStart ==
  /\ spc = "off" /\ starts < MaxStarts
  /\ made' = TRUE /\ spc' = "rcv" /\ seqNum' = 0 /\ starts' = starts + 1
  /\ UNCHANGED <<queue, resp, cvars, history>>

\* Mutant: the counter is not advanced.
ServerRcvStill ==
  /\ spc = "rcv" /\ OfType(Request) # {}
  /\ LET i == FirstOf(Request)
         r == queue[i]
     IN  /\ queue' = Without(i)
         /\ resp' = [mtype |-> r.pid, pid |-> Request, n |-> seqNum]
         /\ spent' = spent + r.n
         /\ granted' = [granted EXCEPT ![r.pid] = [at |-> spent, len |-> r.n]]
         /\ run' = [run EXCEPT ![r.pid] = starts]
  /\ spc' = "snd"
  /\ UNCHANGED <<made, seqNum, starts, cvars>>

\* msgrcv of the next request; the counter moves before the response is sent.
ServerRcv ==
  /\ spc = "rcv" /\ OfType(Request) # {}
  /\ LET i == FirstOf(Request)
         r == queue[i]
     IN  /\ queue' = Without(i)
         /\ resp' = [mtype |-> r.pid, pid |-> Request, n |-> seqNum]
         /\ seqNum' = AddInt(seqNum, r.n) /\ spent' = spent + r.n
         /\ granted' = [granted EXCEPT ![r.pid] = [at |-> spent, len |-> r.n]]
         /\ run' = [run EXCEPT ![r.pid] = starts]
  /\ spc' = "snd"
  /\ UNCHANGED <<made, starts, cvars>>

\* Mutant: IPC_NOWAIT, so a full queue loses the response.
ServerSndNoWait ==
  /\ spc = "snd"
  /\ queue' = IF Fits THEN Append(queue, resp) ELSE queue
  /\ spc' = "rcv"
  /\ UNCHANGED <<made, seqNum, resp, starts, cvars, history>>

ServerSnd ==
  /\ spc = "snd" /\ Fits
  /\ queue' = Append(queue, resp)
  /\ spc' = "rcv"
  /\ UNCHANGED <<made, seqNum, resp, starts, cvars, history>>

KillServer ==
  /\ spc # "off" /\ starts < MaxStarts
  /\ spc' = "off"
  /\ UNCHANGED <<made, queue, seqNum, resp, starts, cvars, history>>

ServerStep == ServerRcv \/ ServerSnd

----------------------------------------------------------------------------
(* A client.                                                               *)

ClientStart(c, n) ==
  /\ cpc[c] = "start"
  /\ cpc' = [cpc EXCEPT ![c] = IF made THEN "snd" ELSE "failed"]
  /\ seqLen' = [seqLen EXCEPT ![c] = n]
  /\ UNCHANGED <<made, queue, svars, got, history>>

ClientSnd(c) ==
  LET req == [mtype |-> Request, pid |-> c, n |-> seqLen[c]]
  IN  /\ cpc[c] = "snd" /\ Fits
      /\ queue' = Append(queue, req)
      /\ cpc' = [cpc EXCEPT ![c] = "rcv"]
      /\ UNCHANGED <<made, svars, seqLen, got, history>>

\* Mutant: msgrcv with type 0 takes whatever message comes first.
ClientRcvAnyType(c) ==
  /\ cpc[c] = "rcv" /\ queue # <<>>
  /\ got' = [got EXCEPT ![c] = queue[1].n]
  /\ queue' = Without(1)
  /\ cpc' = [cpc EXCEPT ![c] = "done"]
  /\ UNCHANGED <<made, svars, seqLen, history>>

ClientRcv(c) ==
  /\ cpc[c] = "rcv" /\ OfType(c) # {}
  /\ got' = [got EXCEPT ![c] = queue[FirstOf(c)].n]
  /\ queue' = Without(FirstOf(c))
  /\ cpc' = [cpc EXCEPT ![c] = "done"]
  /\ UNCHANGED <<made, svars, seqLen, history>>

\* The client's messages stay where they are.
KillClient(c) ==
  /\ c \in Mortal /\ cpc[c] \in {"snd", "rcv"}
  /\ cpc' = [cpc EXCEPT ![c] = "failed"]
  /\ UNCHANGED <<made, queue, svars, seqLen, got, history>>

Next ==
  \/ ServerStart \/ ServerStep \/ KillServer
  \/ \E c \in Clients :
       \/ \E n \in SeqLens : ClientStart(c, n)
       \/ ClientSnd(c) \/ ClientRcv(c) \/ KillClient(c)

Spec == Init /\ [][Next]_vars

\* Every process keeps running.  Strong fairness of a send: the kernel wakes
\* the processes that sleep on a full queue in the order they went to sleep.
FairSpec ==
  /\ Spec
  /\ WF_vars(ServerRcv) /\ SF_vars(ServerSnd)
  /\ \A c \in Clients : SF_vars(ClientSnd(c)) /\ WF_vars(ClientRcv(c))

----------------------------------------------------------------------------
(* Properties.                                                             *)

Ints == -IntMax - 1 .. IntMax

\* Every variable keeps its type and the queue its size.
TypeOK ==
  /\ made \in BOOLEAN
  /\ Len(queue) <= QMax
  /\ \A i \in 1..Len(queue) :
       queue[i] \in [mtype : Clients \cup {Request}, pid : Clients \cup {Request}, n : Ints]
  /\ spc \in {"off", "rcv", "snd"} /\ seqNum \in Ints /\ starts \in 0..MaxStarts
  /\ resp \in [mtype : Clients \cup {Request}, pid : {Request}, n : Ints]
  /\ cpc \in [Clients -> {"start", "snd", "rcv", "done", "failed"}]
  /\ seqLen \in [Clients -> 0..IntMax] /\ got \in [Clients -> Ints]
  /\ spent \in Nat /\ run \in [Clients -> 0..MaxStarts]

\* How often the exchange of a client is under way: as a request, in the
\* server's hands, or as a response.
InFlight(c) ==
  Cardinality({i \in OfType(Request) : queue[i].pid = c})
  + Cardinality(OfType(c))
  + (IF spc = "snd" /\ resp.mtype = c THEN 1 ELSE 0)

\* A waiting client's exchange is in exactly one place: nothing is lost or
\* doubled in the queue.  Only the death of the server between msgrcv and
\* msgsnd can lose it.
OneInFlight ==
  \A c \in Clients :
    /\ InFlight(c) <= 1
    /\ cpc[c] = "rcv" /\ starts = 1 /\ spc # "off" => InFlight(c) = 1

\* Types, the queue within its size, and every exchange in one place.
QueueInv == TypeOK /\ OneInFlight

Numbers(c) == {(got[c] + i) % Modulus : i \in 0..seqLen[c] - 1}

\* No number is handed to two clients by one run of the server, until the
\* counter has gone once around the range of an int: requests and responses
\* that a killed server left in the queue do not disturb the next run.
PrintedRangesDisjoint ==
  spent <= Modulus =>
    \A c, d \in {e \in Clients : cpc[e] = "done"} :
      c # d /\ run[c] = run[d] => Numbers(c) \cap Numbers(d) = {}

\* While the server is up, the only thing that can keep a waiting client from
\* its response is a server asleep for ever in msgsnd on a full queue.
ReplyUnlessStuck ==
  \A c \in Clients :
    cpc[c] = "rcv" ~> \/ cpc[c] # "rcv" \/ spc = "off" \/ starts > 1
                      \/ [](spc = "snd" /\ ~Fits)

\* The response to a client, in the queue or in the server's hands.
Responses(c) ==
  {m \in {queue[i] : i \in 1..Len(queue)} \cup (IF spc = "snd" THEN {resp} ELSE {}) :
     m.mtype = c}

\* What the allocator's clients hold, in the terms of the code.
Ticket(c) ==
  CASE cpc[c] = "failed" -> [state |-> "gone", first |-> 0, len |-> 0]
    [] cpc[c] = "done" -> [state |-> "printed", first |-> got[c], len |-> seqLen[c]]
    [] cpc[c] \notin {"failed", "done"} /\ Responses(c) # {} ->
         [state |-> "issued", first |-> (CHOOSE m \in Responses(c) : TRUE).n,
          len |-> seqLen[c]]
    [] OTHER -> [state |-> "none", first |-> 0, len |-> 0]

Tickets == [c \in Clients |-> Ticket(c)]

Counter == IF spc = "off" THEN 0 ELSE seqNum

Alloc == INSTANCE SeqAlloc WITH up <- spc # "off", next <- Counter, ticket <- Tickets

\* The numbers are those of the abstract allocator: a waiting client's
\* response carries what the server's counter (seqNum) was at, the counter has
\* moved on by this client's own length, and the client prints what it was
\* sent.  Left-over requests and responses, the deaths of their clients and
\* the counter's return to 0 in a new server do not disturb that.
AllocSpec == Alloc!Spec
=============================================================================
