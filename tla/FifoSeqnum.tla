----------------------------- MODULE FifoSeqnum ----------------------------
(***************************************************************************)
(* The FIFO sequence-number server of SP_HW8/44_6 and its clients.  A      *)
(* client makes its own FIFO, sends its request through the server's FIFO, *)
(* then opens its own FIFO for reading, which blocks until the server      *)
(* opens it for writing.  The server opens it with O_NONBLOCK and gives up *)
(* on a client that is not inside that open.  A bad client exits after     *)
(* sending.                                                                *)
(*                                                                         *)
(* A blocking open of a FIFO is two steps: the call, after which the       *)
(* kernel counts the process as a reader or writer, and the return, which  *)
(* the arrival of the other side brings about.  Requests and responses are *)
(* shorter than PIPE_BUF, so reads and writes of them are atomic.          *)
(***************************************************************************)
EXTENDS Integers, Sequences, FiniteSets

CONSTANTS
  Good,    \* clients running fifo_seqnum_client
  Bad,     \* clients running fifo_seqnum_bad_client
  Server,
  Args,    \* numbers given as seq-len on the command line
  IntMax,  \* INT_MAX
  Mortal   \* processes that may be killed

Clients == Good \cup Bad

ASSUME FifoAssumption ==
  /\ Good \cap Bad = {} /\ Server \notin Clients
  /\ Args \subseteq Int /\ IntMax \in Nat \ {0}
  /\ Mortal \subseteq Clients \cup {Server}

VARIABLES
  spc,      \* where the server is
  seqNum,   \* the server's counter
  req,      \* the request the server is working on
  sfifo,    \* the server's FIFO exists
  queue,    \* requests in the server's FIFO
  cpc,      \* where each client is
  seqLen,   \* the length each client asks for
  fifo,     \* the client's FIFO exists
  resp,     \* responses in the client's FIFO
  got,      \* the number the client printed
  spent,    \* history: sum of the lengths cut off so far
  granted   \* history: the range each response stands for

svars   == <<spc, seqNum, req, sfifo, queue>>
cvars   == <<cpc, seqLen, fifo, resp, got>>
history == <<spent, granted>>
vars    == <<svars, cvars, history>>

Modulus == 2 * (IntMax + 1)

\* int addition as the build does it: past IntMax it wraps around.
AddInt(a, b) == IF a + b > IntMax THEN a + b - Modulus ELSE a + b

NoRange == [at |-> 0, len |-> 0]

\* getInt with GN_GT_0: other values end the program.
GetInt(a) == a > 0 /\ a <= IntMax

ServerListens == spc \notin {"off", "start", "open_fifo"}
HasReader(c)  == cpc[c] \in {"opening", "read"}

Init ==
  /\ spc = "start" /\ seqNum = 0 /\ req = [pid |-> Server, seqLen |-> 0]
  /\ sfifo = FALSE /\ queue = <<>>
  /\ cpc = [c \in Clients |-> "start"] /\ seqLen = [c \in Clients |-> 0]
  /\ fifo = [c \in Clients |-> FALSE] /\ resp = [c \in Clients |-> <<>>]
  /\ got = [c \in Clients |-> 0]
  /\ spent = 0 /\ granted = [c \in Clients |-> NoRange]

----------------------------------------------------------------------------
(* The server.                                                             *)

ServerMkfifo ==
  /\ spc = "start"
  /\ spc' = "open_fifo" /\ sfifo' = TRUE
  /\ UNCHANGED <<seqNum, req, queue, cvars, history>>

\* open(SERVER_FIFO, O_RDONLY): it returns at once if a client is waiting in
\* its own open, and then that client's open returns too.
ServerOpen ==
  /\ spc = "open_fifo"
  /\ spc' = IF \E c \in Clients : cpc[c] = "at_server" THEN "open_dummy" ELSE "in_open"
  /\ cpc' = [c \in Clients |-> IF cpc[c] = "at_server" THEN "send" ELSE cpc[c]]
  /\ UNCHANGED <<seqNum, req, sfifo, queue, seqLen, fifo, resp, got, history>>

\* The second descriptor: from here on the server never sees end of file.
ServerDummy ==
  /\ spc = "open_dummy"
  /\ spc' = "read"
  /\ UNCHANGED <<seqNum, req, sfifo, queue, cvars, history>>

ServerRead ==
  /\ spc = "read" /\ queue # <<>>
  /\ req' = Head(queue) /\ queue' = Tail(queue)
  /\ spc' = "open_client"
  /\ UNCHANGED <<seqNum, sfifo, cvars, history>>

\* Mutant: the open waits for the client.
ServerOpenClientBlocking ==
  /\ spc = "open_client" /\ HasReader(req.pid)
  /\ spc' = "write"
  /\ cpc' = [cpc EXCEPT ![req.pid] = "read"]
  /\ UNCHANGED <<seqNum, req, sfifo, queue, seqLen, fifo, resp, got, history>>

\* ENOENT or ENXIO: "give up on client".
ServerOpenClient ==
  /\ spc = "open_client"
  /\ IF fifo[req.pid] /\ HasReader(req.pid)
     THEN spc' = "write" /\ cpc' = [cpc EXCEPT ![req.pid] = "read"]
     ELSE spc' = "read" /\ UNCHANGED cpc
  /\ UNCHANGED <<seqNum, req, sfifo, queue, seqLen, fifo, resp, got, history>>

\* Mutant: the counter is moved before it is put into the response.
ServerWriteMoved ==
  /\ spc = "write"
  /\ spc' = "advance"
  /\ IF HasReader(req.pid)
     THEN resp' = [resp EXCEPT ![req.pid] = Append(@, AddInt(seqNum, req.seqLen))]
     ELSE UNCHANGED resp
  /\ granted' = [granted EXCEPT ![req.pid] = [at |-> spent, len |-> req.seqLen]]
  /\ spent' = spent + req.seqLen
  /\ UNCHANGED <<seqNum, req, sfifo, queue, cpc, seqLen, fifo, got>>

\* A client that died meanwhile gives EPIPE, with SIGPIPE ignored; the
\* number advances all the same.
ServerWrite ==
  /\ spc = "write"
  /\ spc' = "advance"
  /\ IF HasReader(req.pid)
     THEN resp' = [resp EXCEPT ![req.pid] = Append(@, seqNum)]
     ELSE UNCHANGED resp
  /\ granted' = [granted EXCEPT ![req.pid] = [at |-> spent, len |-> req.seqLen]]
  /\ spent' = spent + req.seqLen
  /\ UNCHANGED <<seqNum, req, sfifo, queue, cpc, seqLen, fifo, got>>

\* Mutant: the counter moves by one, whatever length was asked for.
ServerAdvanceByOne ==
  /\ spc = "advance"
  /\ spc' = "read"
  /\ seqNum' = AddInt(seqNum, 1)
  /\ UNCHANGED <<req, sfifo, queue, cvars, history>>

ServerAdvance ==
  /\ spc = "advance"
  /\ spc' = "read"
  /\ seqNum' = AddInt(seqNum, req.seqLen)
  /\ UNCHANGED <<req, sfifo, queue, cvars, history>>

KillServer ==
  /\ Server \in Mortal /\ spc # "off"
  /\ spc' = "off"
  /\ UNCHANGED <<seqNum, req, sfifo, queue, cvars, history>>

ServerStep ==
  \/ ServerMkfifo \/ ServerOpen \/ ServerDummy
  \/ ServerRead \/ ServerOpenClient \/ ServerWrite \/ ServerAdvance

----------------------------------------------------------------------------
(* The clients.                                                            *)

\* exit runs removeFifo; a killed client leaves its FIFO behind.
Exit(c, how) ==
  /\ cpc' = [cpc EXCEPT ![c] = how]
  /\ fifo' = [fifo EXCEPT ![c] = FALSE]

\* mkfifo, atexit, then the command line: a bad number ends the client.
ClientStart(c, a) ==
  /\ cpc[c] = "start"
  /\ IF GetInt(a)
     THEN /\ cpc' = [cpc EXCEPT ![c] = "open_server"]
          /\ fifo' = [fifo EXCEPT ![c] = TRUE]
          /\ seqLen' = [seqLen EXCEPT ![c] = a]
     ELSE Exit(c, "failed") /\ UNCHANGED seqLen
  /\ UNCHANGED <<svars, resp, got, history>>

\* open(SERVER_FIFO, O_WRONLY), and the return of the server's own open.
ClientOpenServer(c) ==
  /\ cpc[c] = "open_server"
  /\ \/ /\ ~sfifo
        /\ Exit(c, "failed")
        /\ UNCHANGED spc
     \/ /\ sfifo
        /\ cpc' = [cpc EXCEPT ![c] = IF ServerListens THEN "send" ELSE "at_server"]
        /\ spc' = IF spc = "in_open" THEN "open_dummy" ELSE spc
        /\ UNCHANGED fifo
  /\ UNCHANGED <<seqNum, req, sfifo, queue, seqLen, resp, got, history>>

\* A good client goes on to open its FIFO, a bad one exits.  Without a
\* server the write raises SIGPIPE.
ClientSend(c) ==
  /\ cpc[c] = "send"
  /\ \/ /\ spc = "off"
        /\ cpc' = [cpc EXCEPT ![c] = "killed"]
        /\ UNCHANGED <<fifo, queue>>
     \/ /\ spc # "off"
        /\ queue' = Append(queue, [pid |-> c, seqLen |-> seqLen[c]])
        /\ IF c \in Good
           THEN cpc' = [cpc EXCEPT ![c] = "open_own"] /\ UNCHANGED fifo
           ELSE Exit(c, "failed")
  /\ UNCHANGED <<spc, seqNum, req, sfifo, seqLen, resp, got, history>>

\* The call of open(clientFifo, O_RDONLY); ServerOpenClient makes it return.
ClientOpenOwn(c) ==
  /\ cpc[c] = "open_own"
  /\ cpc' = [cpc EXCEPT ![c] = "opening"]
  /\ UNCHANGED <<svars, seqLen, fifo, resp, got, history>>

\* read: the response, or end of file once the server's end is closed.
ClientRead(c) ==
  /\ cpc[c] = "read"
  /\ \/ /\ resp[c] # <<>>
        /\ got' = [got EXCEPT ![c] = Head(resp[c])]
        /\ resp' = [resp EXCEPT ![c] = Tail(@)]
        /\ Exit(c, "done")
     \/ /\ resp[c] = <<>> /\ ~(spc = "write" /\ req.pid = c)
        /\ Exit(c, "failed")
        /\ UNCHANGED <<got, resp>>
  /\ UNCHANGED <<svars, seqLen, history>>

KillClient(c) ==
  /\ c \in Mortal /\ cpc[c] \notin {"start", "done", "failed", "killed"}
  /\ cpc' = [cpc EXCEPT ![c] = "killed"]
  /\ resp' = [resp EXCEPT ![c] = <<>>]
  /\ UNCHANGED <<svars, seqLen, fifo, got, history>>

ClientStep(c) ==
  ClientOpenServer(c) \/ ClientSend(c) \/ ClientOpenOwn(c) \/ ClientRead(c)

Next ==
  \/ ServerStep \/ KillServer
  \/ \E c \in Clients :
       \/ \E a \in Args : ClientStart(c, a)
       \/ ClientStep(c) \/ KillClient(c)

Spec == Init /\ [][Next]_vars

\* Every started process keeps running.
FairSpec ==
  /\ Spec
  /\ WF_vars(ServerStep)
  /\ \A c \in Clients : WF_vars(ClientStep(c))

----------------------------------------------------------------------------
(* Properties.                                                             *)

Ints == -IntMax - 1 .. IntMax

\* Every variable keeps its type.
TypeOK ==
  /\ spc \in {"off", "start", "open_fifo", "in_open", "open_dummy", "read",
              "open_client", "write", "advance"}
  /\ seqNum \in Ints
  /\ req \in [pid : Clients \cup {Server}, seqLen : 0..IntMax]
  /\ sfifo \in BOOLEAN
  /\ \A i \in 1..Len(queue) : queue[i] \in [pid : Clients, seqLen : 1..IntMax]
  /\ cpc \in [Clients -> {"start", "open_server", "at_server", "send", "open_own",
                          "opening", "read", "done", "failed", "killed"}]
  /\ seqLen \in [Clients -> 0..IntMax]
  /\ fifo \in [Clients -> BOOLEAN]
  /\ \A c \in Clients : Len(resp[c]) <= 1 /\ \A i \in 1..Len(resp[c]) : resp[c][i] \in Ints
  /\ got \in [Clients -> Ints]
  /\ spent \in Nat
  /\ granted \in [Clients -> [at : Nat, len : 0..IntMax]]

\* The numbers a client was told are its own: got .. got + seqLen - 1.
Numbers(c) == {(got[c] + i) % Modulus : i \in 0..seqLen[c] - 1}

\* No number is handed to two clients, until the counter has gone once
\* around the range of an int: not when clients die between the server's
\* open and write, and not when it wraps to negative numbers.
PrintedRangesDisjoint ==
  spent <= Modulus =>
    \A c, d \in {e \in Clients : cpc[e] = "done"} :
      c # d => Numbers(c) \cap Numbers(d) = {}

\* What the allocator's clients hold and where its count is, in the terms of
\* the code.  Between the write and seqNum += seqLen the counter lags behind.
Ticket(c) ==
  CASE cpc[c] \in {"failed", "killed"} -> [state |-> "gone", first |-> 0, len |-> 0]
    [] cpc[c] = "done" -> [state |-> "printed", first |-> got[c], len |-> seqLen[c]]
    [] cpc[c] \notin {"failed", "killed", "done"} /\ resp[c] # <<>> ->
         [state |-> "issued", first |-> Head(resp[c]), len |-> seqLen[c]]
    [] OTHER -> [state |-> "none", first |-> 0, len |-> 0]

Tickets == [c \in Clients |-> Ticket(c)]

Counter ==
  CASE spc = "off" -> 0
    [] spc = "advance" -> AddInt(seqNum, req.seqLen)
    [] OTHER -> seqNum

Alloc == INSTANCE SeqAlloc WITH up <- spc # "off", next <- Counter, ticket <- Tickets

\* The numbers are those of the abstract allocator: a response carries what
\* the server's counter (seqNum) is at, the counter then moves by this
\* client's own length and by nothing else, and the client prints what it was
\* sent.  Clients that die or are given up do not disturb that.
AllocSpec == Alloc!Spec

\* The number in a response is the start of the range the response stands
\* for, wrapped to an int.
ResponseStartsRange ==
  \A c \in Clients :
    /\ resp[c] # <<>> => (Head(resp[c]) - granted[c].at) % Modulus = 0
    /\ cpc[c] = "done" => /\ (got[c] - granted[c].at) % Modulus = 0
                          /\ granted[c].len = seqLen[c]

\* Once the server has opened a client's FIFO, that client is sure to find a
\* response: it never reads end of file from a server that lives.
OpenedGetsAnswer ==
  \A c \in Clients :
    cpc[c] = "read" => resp[c] # <<>> \/ (spc = "write" /\ req.pid = c) \/ spc = "off"

\* No client, good, bad or killed anywhere, can hold up the server.
ServerReturns ==
  spc \in {"open_client", "write", "advance"} ~> spc \in {"read", "off"}

InQueue(c) == \E i \in 1..Len(queue) : queue[i].pid = c
Pending(c) == InQueue(c) \/ (spc = "open_client" /\ req.pid = c)

\* A client that is inside its open while its request is still to be served
\* gets its numbers, unless it or the server is killed.
PromptClientAnswered ==
  \A c \in Good :
    (cpc[c] = "opening" /\ Pending(c)) ~> (cpc[c] \in {"done", "killed"} \/ spc = "off")

\* Types, answers that start their ranges, and no end of file in front of an
\* answer: what holds at every step of the service.
ServiceInv == TypeOK /\ ResponseStartsRange /\ OpenedGetsAnswer

\* The service goes on: no client holds up the server, and a client that is in
\* time for its answer gets it.
ServiceGoesOn == ServerReturns /\ PromptClientAnswered
=============================================================================
