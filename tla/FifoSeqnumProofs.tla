-------------------------- MODULE FifoSeqnumProofs -------------------------
(***************************************************************************)
(* Safety of the FIFO sequence-number service, for any clients, lengths    *)
(* and width of int, whoever is killed; and that it implements SeqAlloc.   *)
(***************************************************************************)
EXTENDS FifoSeqnum, SequenceTheorems, TLAPS

Requests == [pid : Clients, seqLen : 1..IntMax]

\* Two numbers are the same int.
Congruent(a, b) == (a - b) % Modulus = 0

\* A client that has not sent its request yet, and a server that has not yet
\* answered the one in its hands.
Unsent  == {"start", "open_server", "at_server", "send"}
Serving == {"open_client", "write"}

BasicType ==
  /\ spc \in {"off", "start", "open_fifo", "in_open", "open_dummy", "read",
              "open_client", "write", "advance"}
  /\ seqNum \in Ints
  /\ req \in [pid : Clients \cup {Server}, seqLen : 0..IntMax]
  /\ spc \in Serving \cup {"advance"} => req \in Requests
  /\ sfifo \in BOOLEAN
  /\ queue \in Seq(Requests)
  /\ cpc \in [Clients -> {"start", "open_server", "at_server", "send", "open_own",
                          "opening", "read", "done", "failed", "killed"}]
  /\ seqLen \in [Clients -> 0..IntMax]
  /\ fifo \in [Clients -> BOOLEAN]
  /\ resp \in [Clients -> Seq(Ints)]
  /\ got \in [Clients -> Ints]
  /\ spent \in Nat
  /\ granted \in [Clients -> [at : Nat, len : 0..IntMax]]

\* A client's request is in one place at most, with the length it asks for,
\* and only while the client has no range.
RequestInv ==
  /\ \A j, k \in 1..Len(queue) : queue[j].pid = queue[k].pid => j = k
  /\ \A k \in 1..Len(queue) :
       /\ cpc[queue[k].pid] \notin Unsent /\ granted[queue[k].pid].len = 0
       /\ queue[k].seqLen = seqLen[queue[k].pid]
       /\ spc \in Serving => queue[k].pid # req.pid
  /\ spc \in Serving => /\ cpc[req.pid] \notin Unsent /\ granted[req.pid].len = 0
                        /\ req.seqLen = seqLen[req.pid]
  /\ spc = "write" => cpc[req.pid] \in {"read", "killed"}
  /\ \A c \in Clients :
       /\ cpc[c] \in Unsent \ {"start"} => seqLen[c] > 0
       /\ cpc[c] \in Unsent \cup {"open_own", "opening"} => granted[c].len = 0

\* A response is in the FIFO of a client that reads, and starts the range cut
\* off for it.
AnswerInv ==
  \A c \in Clients :
    /\ resp[c] # <<>> =>
         /\ cpc[c] = "read" /\ granted[c].len = seqLen[c] /\ seqLen[c] > 0
         /\ Len(resp[c]) = 1 /\ Congruent(resp[c][1], granted[c].at)
    /\ cpc[c] = "done" => granted[c].len = seqLen[c] /\ Congruent(got[c], granted[c].at)
    /\ cpc[c] = "read" => resp[c] # <<>> \/ (spc = "write" /\ req.pid = c) \/ spc = "off"

\* Outside the window between the write and seqNum += seqLen, the counter is
\* what has been cut off, wrapped to an int.
CounterInv ==
  /\ spc \notin {"off", "advance"} => Congruent(seqNum, spent)
  /\ spc = "advance" => Congruent(seqNum + req.seqLen, spent)

\* The ranges cut off lie below spent and side by side.
RangeInv ==
  /\ \A c \in Clients : granted[c].len # 0 => granted[c].at + granted[c].len <= spent
  /\ \A c, d \in Clients :
       c # d /\ granted[c].len # 0 /\ granted[d].len # 0 =>
         \/ granted[c].at + granted[c].len <= granted[d].at
         \/ granted[d].at + granted[d].len <= granted[c].at

IInv == BasicType /\ RequestInv /\ AnswerInv /\ CounterInv /\ RangeInv

----------------------------------------------------------------------------
(* Arithmetic of an int that wraps around.                                 *)

LEMMA ModulusType == Modulus \in Nat \ {0} /\ Modulus = 2 * IntMax + 2
BY FifoAssumption DEF Modulus

LEMMA Division ==
  ASSUME NEW M \in Nat \ {0}, NEW x \in Int
  PROVE  x = M * (x \div M) + (x % M)
OBVIOUS

LEMMA SmallMultiple ==
  ASSUME NEW M \in Nat \ {0}, NEW q \in Int, NEW r \in Int, r = M * q, -M < r, r < M
  PROVE  r = 0
OBVIOUS

\* Numbers that differ by a multiple of M leave the same remainder.
LEMMA SameRemainder ==
  ASSUME NEW M \in Nat \ {0}, NEW x \in Int, NEW y \in Int, (x - y) % M = 0
  PROVE  x % M = y % M
<1> DEFINE a == x \div M
           b == y \div M
           d == (x - y) \div M
           r == (x % M) - (y % M)
<1>1. a \in Int /\ b \in Int /\ d \in Int OBVIOUS
<1>2. x % M \in 0..M-1 /\ y % M \in 0..M-1 OBVIOUS
<1>3. x = M * a + (x % M) /\ y = M * b + (y % M) /\ x - y = M * d BY Division
<1>4. r \in Int /\ -M < r /\ r < M BY <1>2
<1>5. r = M * (d - a + b) /\ d - a + b \in Int BY <1>1, <1>2, <1>3
<1>6. r = 0 BY <1>4, <1>5, SmallMultiple
<1>7. QED BY <1>2, <1>6

LEMMA CongruentSelf == ASSUME NEW a \in Int PROVE Congruent(a, a)
BY ModulusType DEF Congruent

LEMMA CongruentShift ==
  ASSUME NEW a \in Int, NEW b \in Int, NEW n \in Int, Congruent(a, b)
  PROVE  Congruent(a + n, b + n)
<1>1. (a + n) - (b + n) = a - b OBVIOUS
<1>2. QED BY <1>1 DEF Congruent

\* What the build's addition yields is congruent to the sum, and is an int.
LEMMA AddIntCongruent ==
  ASSUME NEW a \in Ints, NEW n \in 1..IntMax, NEW s \in Int, Congruent(a + n, s)
  PROVE  AddInt(a, n) \in Ints /\ Congruent(AddInt(a, n), s)
<1>1. a \in Int /\ n \in Int /\ -IntMax - 1 <= a /\ a <= IntMax /\ 1 <= n /\ n <= IntMax /\ IntMax \in Int
  BY FifoAssumption DEF Ints
<1>2. AddInt(a, n) \in Ints
  BY <1>1, ModulusType DEF AddInt, Ints
<1> DEFINE x == a + n - s
           y == a + n - Modulus - s
<1>3. x \in Int /\ y \in Int /\ x - y = Modulus BY <1>1, ModulusType
<1>4. x % Modulus = 0 BY <1>1, ModulusType DEF Congruent
<1> HIDE DEF x, y
<1>5. (x - y) % Modulus = 0 BY <1>3, ModulusType
<1>6. x % Modulus = y % Modulus BY <1>3, <1>5, ModulusType, SameRemainder
<1>7. Congruent(a + n - Modulus, s) BY <1>1, <1>4, <1>6, ModulusType DEF x, y, Congruent
<1>8. QED BY <1>2, <1>7 DEF AddInt

----------------------------------------------------------------------------
(* The steps.                                                              *)

LEMMA QueuedRequest ==
  ASSUME BasicType
  PROVE  /\ Len(queue) \in Nat
         /\ \A k \in 1..Len(queue) : queue[k].pid \in Clients /\ queue[k].seqLen \in 1..IntMax
<1>1. queue \in Seq(Requests) BY DEF BasicType
<1>2. \A k \in 1..Len(queue) : queue[k] \in Requests BY <1>1, ElementOfSeq
<1>3. Len(queue) \in Nat BY <1>1, LenProperties
<1>4. QED BY <1>2, <1>3 DEF Requests

\* Nobody has asked and nothing is cut off.
LEMMA Initial == Init => IInv
<1> SUFFICES ASSUME Init PROVE IInv OBVIOUS
<1>1. BasicType
  <2>1. 0 \in Ints /\ 0 \in 0..IntMax BY FifoAssumption DEF Ints
  <2>2. queue \in Seq(Requests) /\ resp \in [Clients -> Seq(Ints)] BY DEF Init
  <2>3. granted \in [Clients -> [at : Nat, len : 0..IntMax]] BY <2>1 DEF Init, NoRange
  <2>4. req \in [pid : Clients \cup {Server}, seqLen : 0..IntMax] BY <2>1 DEF Init
  <2>5. QED BY <2>1, <2>2, <2>3, <2>4 DEF Init, BasicType, Serving
<1>2. RequestInv
  BY DEF Init, RequestInv, Serving, Unsent, NoRange
<1>3. AnswerInv
  BY DEF Init, AnswerInv
<1>4. CounterInv
  BY CongruentSelf DEF Init, CounterInv
<1>5. RangeInv
  BY DEF Init, RangeInv, NoRange
<1>6. QED BY <1>1, <1>2, <1>3, <1>4, <1>5 DEF IInv

\* The server's way to its loop: mkfifo, the open and the second open.
LEMMA SetupKeeps ==
  ASSUME IInv, ServerMkfifo \/ ServerDummy \/ KillServer
  PROVE  IInv'
<1> USE DEF IInv
<1>0. /\ \/ spc' = "off"
         \/ spc \notin Serving \cup {"advance", "off"} /\ spc' \in {"open_fifo", "read"}
      /\ sfifo' \in BOOLEAN
      /\ UNCHANGED <<seqNum, req, queue, cpc, seqLen, fifo, resp, got, spent, granted>>
  BY DEF ServerMkfifo, ServerDummy, KillServer, BasicType, cvars, history, Serving
<1>1. BasicType' BY <1>0 DEF BasicType, Serving
<1>2. RequestInv' BY <1>0 DEF RequestInv, Serving, Unsent
<1>3. AnswerInv' BY <1>0 DEF AnswerInv, Serving
<1>4. CounterInv' BY <1>0 DEF CounterInv
<1>5. RangeInv' BY <1>0 DEF RangeInv
<1>6. QED BY <1>1, <1>2, <1>3, <1>4, <1>5

LEMMA ServerOpenKeeps == ASSUME IInv, ServerOpen PROVE IInv'
<1> USE DEF IInv
<1>0. /\ spc = "open_fifo" /\ spc' \in {"open_dummy", "in_open"}
      /\ cpc' = [c \in Clients |-> IF cpc[c] = "at_server" THEN "send" ELSE cpc[c]]
      /\ UNCHANGED <<seqNum, req, sfifo, queue, seqLen, fifo, resp, got, spent, granted>>
  BY DEF ServerOpen, history
<1>1. BasicType' BY <1>0 DEF BasicType, Serving
<1>2. \A c \in Clients : /\ cpc'[c] \in Unsent <=> cpc[c] \in Unsent
                         /\ cpc'[c] = "start" <=> cpc[c] = "start"
                         /\ cpc[c] \notin Unsent => cpc'[c] = cpc[c]
                         /\ cpc'[c] \notin Unsent => cpc'[c] = cpc[c]
  BY <1>0 DEF Unsent
<1>3. RequestInv'
  <2>1. \A k \in 1..Len(queue) : queue[k].pid \in Clients
    BY QueuedRequest
  <2>2. QED BY <1>0, <1>2, <2>1 DEF RequestInv, Serving, Unsent
<1>4. AnswerInv' BY <1>0, <1>2 DEF AnswerInv, Unsent
<1>5. CounterInv' BY <1>0 DEF CounterInv
<1>6. RangeInv' BY <1>0 DEF RangeInv
<1>7. QED BY <1>1, <1>3, <1>4, <1>5, <1>6

\* The request taken out of the FIFO is nowhere else.
LEMMA ServerReadKeeps == ASSUME IInv, ServerRead PROVE IInv'
<1> USE DEF IInv
<1>0. /\ spc = "read" /\ spc' = "open_client" /\ queue # <<>>
      /\ req' = Head(queue) /\ queue' = Tail(queue)
      /\ UNCHANGED <<seqNum, sfifo, cpc, seqLen, fifo, resp, got, spent, granted>>
  BY DEF ServerRead, cvars, history
<1>1. /\ queue \in Seq(Requests) /\ Len(queue) \in Nat /\ Len(queue) >= 1
      /\ req' = queue[1] /\ req' \in Requests
      /\ queue' \in Seq(Requests) /\ Len(queue') = Len(queue) - 1
      /\ \A k \in 1..Len(queue') : queue'[k] = queue[k + 1]
  BY <1>0, HeadTailProperties DEF BasicType
<1>2. \A k \in 1..Len(queue') : k + 1 \in 1..Len(queue) /\ k + 1 # 1
  BY <1>1
<1>3. BasicType'
  <2>1. req' \in [pid : Clients \cup {Server}, seqLen : 0..IntMax]
    BY <1>1, FifoAssumption DEF Requests
  <2>2. QED BY <1>0, <1>1, <2>1 DEF BasicType, Serving
<1>4. RequestInv'
  <2>1. ASSUME NEW j \in 1..Len(queue'), NEW k \in 1..Len(queue'), queue'[j].pid = queue'[k].pid
        PROVE  j = k
    <3>1. j + 1 = k + 1 BY <1>1, <1>2, <2>1 DEF RequestInv
    <3>2. QED BY <1>1, <3>1
  <2>2. \A k \in 1..Len(queue') :
          /\ cpc[queue'[k].pid] \notin Unsent /\ granted[queue'[k].pid].len = 0
          /\ queue'[k].seqLen = seqLen[queue'[k].pid]
          /\ queue'[k].pid # req'.pid
    BY <1>1, <1>2 DEF RequestInv
  <2>3. /\ cpc[req'.pid] \notin Unsent /\ granted[req'.pid].len = 0
        /\ req'.seqLen = seqLen[req'.pid]
    BY <1>1 DEF RequestInv
  <2>4. QED BY <1>0, <2>1, <2>2, <2>3 DEF RequestInv
<1>5. AnswerInv' BY <1>0 DEF AnswerInv
<1>6. CounterInv' BY <1>0 DEF CounterInv
<1>7. RangeInv' BY <1>0 DEF RangeInv
<1>8. QED BY <1>3, <1>4, <1>5, <1>6, <1>7

\* Only a client inside its open has its FIFO opened, and it has no range.
LEMMA ServerOpenClientKeeps == ASSUME IInv, ServerOpenClient PROVE IInv'
<1> USE DEF IInv
<1>0. /\ spc = "open_client"
      /\ UNCHANGED <<seqNum, req, sfifo, queue, seqLen, fifo, resp, got, spent, granted>>
  BY DEF ServerOpenClient, history
<1>1. req.pid \in Clients BY <1>0 DEF BasicType, Serving, Requests
<1>2. \A k \in 1..Len(queue) : queue[k].pid \in Clients
  BY QueuedRequest
<1>3. CASE /\ cpc[req.pid] \in {"opening", "read"}
           /\ spc' = "write" /\ cpc' = [cpc EXCEPT ![req.pid] = "read"]
  <2>1. BasicType' BY <1>0, <1>3 DEF BasicType, Serving
  <2>2. RequestInv'
    BY <1>0, <1>1, <1>2, <1>3 DEF RequestInv, Serving, Unsent, BasicType
  <2>3. resp[req.pid] = <<>>
    BY <1>0, <1>1 DEF AnswerInv, RequestInv, Serving, BasicType
  <2>4. AnswerInv'
    BY <1>0, <1>1, <1>3, <2>3 DEF AnswerInv, BasicType
  <2>5. CounterInv' BY <1>0, <1>3 DEF CounterInv
  <2>6. RangeInv' BY <1>0 DEF RangeInv
  <2>7. QED BY <2>1, <2>2, <2>4, <2>5, <2>6
<1>4. CASE spc' = "read" /\ UNCHANGED cpc
  <2>1. BasicType' BY <1>0, <1>4 DEF BasicType, Serving
  <2>2. RequestInv' BY <1>0, <1>4 DEF RequestInv, Serving
  <2>4. AnswerInv' BY <1>0, <1>4 DEF AnswerInv
  <2>5. CounterInv' BY <1>0, <1>4 DEF CounterInv
  <2>6. RangeInv' BY <1>0 DEF RangeInv
  <2>7. QED BY <2>1, <2>2, <2>4, <2>5, <2>6
<1>5. QED BY <1>3, <1>4 DEF ServerOpenClient, HasReader

\* The range cut off for a client starts where the counter stands, above all
\* the others.
LEMMA ServerWriteKeeps == ASSUME IInv, ServerWrite PROVE IInv'
<1> USE DEF IInv
<1> DEFINE p == req.pid
           n == req.seqLen
<1>0. /\ spc = "write" /\ spc' = "advance"
      /\ IF cpc[p] \in {"opening", "read"}
           THEN resp' = [resp EXCEPT ![p] = Append(@, seqNum)]
           ELSE UNCHANGED resp
      /\ granted' = [granted EXCEPT ![p] = [at |-> spent, len |-> n]]
      /\ spent' = spent + n
      /\ UNCHANGED <<seqNum, req, sfifo, queue, cpc, seqLen, fifo, got>>
  BY DEF ServerWrite, HasReader
<1>1. /\ p \in Clients /\ n \in 1..IntMax /\ n \in Nat /\ n > 0 /\ n \in 0..IntMax
      /\ seqNum \in Ints /\ seqNum \in Int /\ spent \in Nat
  BY <1>0, FifoAssumption DEF BasicType, Serving, Requests, Ints
<1>2. /\ granted[p].len = 0 /\ n = seqLen[p] /\ cpc[p] \in {"read", "killed"}
      /\ Congruent(seqNum, spent)
      /\ \A k \in 1..Len(queue) : queue[k].pid \in Clients /\ queue[k].pid # p
  BY <1>0, QueuedRequest DEF RequestInv, Serving, CounterInv
<1>3. resp[p] = <<>> BY <1>1, <1>2 DEF AnswerInv
<1> HIDE DEF p, n
<1>4. granted'[p] = [at |-> spent, len |-> n] /\ \A c \in Clients : c # p => granted'[c] = granted[c]
  BY <1>0, <1>1 DEF BasicType
<1>5. /\ cpc[p] = "read" => Len(resp'[p]) = 1 /\ resp'[p][1] = seqNum /\ resp'[p] # <<>>
      /\ cpc[p] = "killed" => resp'[p] = <<>>
      /\ \A c \in Clients : c # p => resp'[c] = resp[c]
      /\ resp' \in [Clients -> Seq(Ints)]
  <2>1. CASE cpc[p] = "read"
    <3>1. resp' = [resp EXCEPT ![p] = Append(<<>>, seqNum)] BY <1>0, <1>3, <2>1
    <3>2. Append(<<>>, seqNum) = <<seqNum>> OBVIOUS
    <3>3. resp' = [resp EXCEPT ![p] = <<seqNum>>] BY <3>1, <3>2
    <3>4. <<seqNum>> \in Seq(Ints) /\ <<seqNum>> # <<>> /\ Len(<<seqNum>>) = 1 /\ <<seqNum>>[1] = seqNum
      BY <1>1
    <3>5. QED BY <1>1, <2>1, <3>3, <3>4 DEF BasicType
  <2>2. CASE cpc[p] = "killed" BY <1>0, <1>3, <2>2 DEF BasicType
  <2>3. QED BY <1>2, <2>1, <2>2
<1>6. BasicType'
  <2>1. granted' \in [Clients -> [at : Nat, len : 0..IntMax]]
    BY <1>0, <1>1 DEF BasicType
  <2>2. spent' \in Nat BY <1>0, <1>1
  <2>3. QED BY <1>0, <1>5, <2>1, <2>2 DEF BasicType, Serving
<1>7. RequestInv'
  BY <1>0, <1>1, <1>2, <1>4 DEF RequestInv, Serving, Unsent
<1>8. AnswerInv'
  BY <1>0, <1>1, <1>2, <1>4, <1>5 DEF AnswerInv, p, n
<1>9. CounterInv'
  <2>1. n \in Int /\ spent \in Int /\ seqNum \in Int BY <1>1
  <2>2. Congruent(seqNum, spent) BY <1>2
  <2>3. Congruent(seqNum + n, spent + n) BY <2>1, <2>2, CongruentShift
  <2>4. QED BY <1>0, <2>3 DEF CounterInv, n
<1>10. RangeInv'
  <2>1. ASSUME NEW c \in Clients
        PROVE  /\ granted[c].at \in Nat /\ granted[c].len \in Nat
               /\ granted[c].len # 0 => granted[c].at + granted[c].len <= spent
    BY FifoAssumption DEF BasicType, RangeInv
  <2>2. \A c \in Clients : granted'[c].len # 0 => granted'[c].at + granted'[c].len <= spent'
    BY <1>0, <1>1, <1>4, <2>1
  <2>3. ASSUME NEW c \in Clients, NEW d \in Clients, c # d,
               granted'[c].len # 0, granted'[d].len # 0
        PROVE  \/ granted'[c].at + granted'[c].len <= granted'[d].at
               \/ granted'[d].at + granted'[d].len <= granted'[c].at
    <3>1. CASE c = p BY <1>4, <2>1, <2>3, <3>1
    <3>2. CASE d = p BY <1>4, <2>1, <2>3, <3>2
    <3>3. CASE c # p /\ d # p
      <4>1. granted'[c] = granted[c] /\ granted'[d] = granted[d] BY <1>4, <3>3
      <4>2. QED BY <2>3, <4>1 DEF RangeInv
    <3>4. QED BY <3>1, <3>2, <3>3
  <2>4. QED BY <2>2, <2>3 DEF RangeInv
<1>11. QED BY <1>6, <1>7, <1>8, <1>9, <1>10

\* seqNum += req.seqLen, wrapped or not, catches up with what was cut off.
LEMMA ServerAdvanceKeeps == ASSUME IInv, ServerAdvance PROVE IInv'
<1> USE DEF IInv
<1>0. /\ spc = "advance" /\ spc' = "read" /\ seqNum' = AddInt(seqNum, req.seqLen)
      /\ UNCHANGED <<req, sfifo, queue, cpc, seqLen, fifo, resp, got, spent, granted>>
  BY DEF ServerAdvance, cvars, history
<1>1. /\ seqNum \in Ints /\ req.seqLen \in 1..IntMax /\ spent \in Int
      /\ Congruent(seqNum + req.seqLen, spent)
  BY <1>0 DEF BasicType, Serving, Requests, CounterInv
<1>2. seqNum' \in Ints /\ Congruent(seqNum', spent)
  BY <1>0, <1>1, AddIntCongruent
<1>3. BasicType' BY <1>0, <1>2 DEF BasicType, Serving
<1>4. RequestInv' BY <1>0 DEF RequestInv, Serving, Unsent
<1>5. AnswerInv' BY <1>0 DEF AnswerInv
<1>6. CounterInv' BY <1>0, <1>2 DEF CounterInv
<1>7. RangeInv' BY <1>0 DEF RangeInv
<1>8. QED BY <1>3, <1>4, <1>5, <1>6, <1>7

LEMMA ClientStartKeeps ==
  ASSUME IInv, NEW c \in Clients, NEW a \in Args, ClientStart(c, a)
  PROVE  IInv'
<1> USE DEF IInv
<1>0. /\ cpc[c] = "start"
      /\ \/ /\ cpc' = [cpc EXCEPT ![c] = "open_server"]
            /\ fifo' = [fifo EXCEPT ![c] = TRUE]
            /\ seqLen' = [seqLen EXCEPT ![c] = a]
            /\ a \in 1..IntMax
         \/ /\ cpc' = [cpc EXCEPT ![c] = "failed"]
            /\ fifo' = [fifo EXCEPT ![c] = FALSE]
            /\ UNCHANGED seqLen
      /\ UNCHANGED <<spc, seqNum, req, sfifo, queue, resp, got, spent, granted>>
  BY FifoAssumption DEF ClientStart, GetInt, Exit, svars, history
<1>1. /\ \A k \in 1..Len(queue) : queue[k].pid \in Clients /\ queue[k].pid # c
      /\ spc \in Serving => req.pid \in Clients /\ req.pid # c
      /\ granted[c].len = 0
  BY <1>0, QueuedRequest DEF RequestInv, Unsent, BasicType, Requests
<1>2. resp[c] = <<>> BY <1>0 DEF AnswerInv
<1>3. \A d \in Clients : d # c => cpc'[d] = cpc[d] /\ seqLen'[d] = seqLen[d]
  BY <1>0 DEF BasicType
<1>4. BasicType'
  <2>1. seqLen' \in [Clients -> 0..IntMax]
    <3>1. a \in 1..IntMax => a \in 0..IntMax BY FifoAssumption
    <3>2. QED BY <1>0, <3>1 DEF BasicType
  <2>2. fifo' \in [Clients -> BOOLEAN] BY <1>0 DEF BasicType
  <2>3. QED BY <1>0, <2>1, <2>2 DEF BasicType, Serving
<1>5. RequestInv'
  <2>1. UNCHANGED <<spc, req, queue, granted>> BY <1>0
  <2>2. ASSUME NEW k \in 1..Len(queue)
        PROVE  /\ cpc'[queue[k].pid] \notin Unsent /\ granted[queue[k].pid].len = 0
               /\ queue[k].seqLen = seqLen'[queue[k].pid]
               /\ spc \in Serving => queue[k].pid # req.pid
    BY <1>1, <1>3 DEF RequestInv
  <2>3. /\ spc \in Serving => /\ cpc'[req.pid] \notin Unsent /\ granted[req.pid].len = 0
                              /\ req.seqLen = seqLen'[req.pid]
        /\ spc = "write" => cpc'[req.pid] \in {"read", "killed"}
    BY <1>1, <1>3 DEF RequestInv, Serving
  <2>4. cpc'[c] \in Unsent \ {"start"} => seqLen'[c] > 0
    BY <1>0 DEF BasicType, Unsent
  <2>5. ASSUME NEW d \in Clients
        PROVE  /\ cpc'[d] \in Unsent \ {"start"} => seqLen'[d] > 0
               /\ cpc'[d] \in Unsent \cup {"open_own", "opening"} => granted[d].len = 0
    BY <1>1, <1>3, <2>4 DEF RequestInv
  <2>6. \A j, k \in 1..Len(queue) : queue[j].pid = queue[k].pid => j = k
    BY DEF RequestInv
  <2>7. QED BY <2>1, <2>2, <2>3, <2>5, <2>6 DEF RequestInv
<1>6. AnswerInv' BY <1>0, <1>2, <1>3 DEF AnswerInv, BasicType
<1>7. CounterInv' BY <1>0 DEF CounterInv
<1>8. RangeInv' BY <1>0 DEF RangeInv
<1>9. QED BY <1>4, <1>5, <1>6, <1>7, <1>8

\* A client that goes from one place to another before it sends, or stops
\* without a response in its FIFO.
LEMMA MoveKeeps ==
  ASSUME IInv, NEW c \in Clients, NEW where,
         \/ cpc[c] \in Unsent \ {"start"} /\ where \in {"at_server", "send"}
         \/ cpc[c] = "open_own" /\ where = "opening"
         \/ where \in {"failed", "killed"} /\ (spc = "write" /\ req.pid = c => where = "killed"),
         cpc' = [cpc EXCEPT ![c] = where],
         resp' = [resp EXCEPT ![c] = <<>>],
         fifo' \in [Clients -> BOOLEAN],
         spc' = spc \/ (spc = "in_open" /\ spc' = "open_dummy"),
         UNCHANGED <<seqNum, req, sfifo, queue, seqLen, got, spent, granted>>
  PROVE  IInv'
<1> USE DEF IInv
<1>1. /\ \A k \in 1..Len(queue) : queue[k].pid \in Clients
      /\ spc \in Serving => req.pid \in Clients
  BY QueuedRequest DEF BasicType, Requests
<1>2. /\ \A d \in Clients : d # c => cpc'[d] = cpc[d] /\ resp'[d] = resp[d]
      /\ cpc'[c] = where /\ resp'[c] = <<>>
  BY DEF BasicType
<1>3. BasicType'
  <2>1. resp' \in [Clients -> Seq(Ints)]
    <3>1. <<>> \in Seq(Ints) OBVIOUS
    <3>2. QED BY <3>1 DEF BasicType
  <2>2. QED BY <2>1 DEF BasicType, Unsent, Serving
<1>4. RequestInv' BY <1>1, <1>2 DEF RequestInv, Unsent, Serving
<1>5. AnswerInv' BY <1>2 DEF AnswerInv
<1>6. CounterInv' BY DEF CounterInv
<1>7. RangeInv' BY DEF RangeInv
<1>8. QED BY <1>3, <1>4, <1>5, <1>6, <1>7

\* The request of a client is not in the FIFO before it sends it.
LEMMA ClientSendKeeps == ASSUME IInv, NEW c \in Clients, ClientSend(c) PROVE IInv'
<1> USE DEF IInv
<1> DEFINE r == [pid |-> c, seqLen |-> seqLen[c]]
<1>0. /\ cpc[c] = "send"
      /\ UNCHANGED <<spc, seqNum, req, sfifo, seqLen, resp, got, spent, granted>>
  BY DEF ClientSend, history
<1>1. resp[c] = <<>> BY <1>0 DEF AnswerInv
<1>2. resp' = [resp EXCEPT ![c] = <<>>] BY <1>0, <1>1 DEF BasicType
<1>3. CASE spc = "off" /\ cpc' = [cpc EXCEPT ![c] = "killed"] /\ UNCHANGED <<fifo, queue>>
  BY <1>0, <1>2, <1>3, MoveKeeps DEF BasicType
<1>4. CASE /\ queue' = Append(queue, r)
           /\ fifo' \in [Clients -> BOOLEAN]
           /\ \E where \in {"open_own", "failed"} : cpc' = [cpc EXCEPT ![c] = where]
  <2>1. /\ r \in Requests /\ r.pid = c /\ r.seqLen = seqLen[c]
        /\ granted[c].len = 0
        /\ spc \in Serving => req.pid \in Clients /\ req.pid # c
    <3>1. seqLen[c] \in 0..IntMax /\ seqLen[c] > 0 /\ granted[c].len = 0
      BY <1>0 DEF RequestInv, BasicType, Unsent
    <3>2. seqLen[c] \in 1..IntMax BY <3>1, FifoAssumption
    <3>3. spc \in Serving => req \in Requests BY DEF BasicType
    <3>4. QED BY <1>0, <3>1, <3>2, <3>3 DEF RequestInv, Unsent, Requests
  <2>2. /\ Len(queue) \in Nat
        /\ \A k \in 1..Len(queue) : queue[k].pid \in Clients /\ queue[k].pid # c
    BY <1>0, QueuedRequest DEF RequestInv, Unsent
  <2>3. queue \in Seq(Requests) BY DEF BasicType
  <2> HIDE DEF r
  <2>4. /\ queue' \in Seq(Requests) /\ Len(queue') = Len(queue) + 1
        /\ \A k \in 1..Len(queue) : queue'[k] = queue[k]
        /\ queue'[Len(queue) + 1] = r
    BY <1>4, <2>1, <2>3, AppendProperties
  <2>5. \A k \in 1..Len(queue') : k \in 1..Len(queue) \/ k = Len(queue) + 1
    BY <2>2, <2>4
  <2>6. /\ cpc'[c] \in {"open_own", "failed"}
        /\ \A d \in Clients : d # c => cpc'[d] = cpc[d]
    BY <1>4 DEF BasicType
  <2>7. BasicType'
    <3>1. cpc' \in [Clients -> {"start", "open_server", "at_server", "send", "open_own",
                               "opening", "read", "done", "failed", "killed"}]
      BY <1>4 DEF BasicType
    <3>2. QED BY <1>0, <1>4, <2>4, <3>1 DEF BasicType
  <2>8. RequestInv'
    <3>1. \A j, k \in 1..Len(queue') : queue'[j].pid = queue'[k].pid => j = k
      BY <2>1, <2>2, <2>4, <2>5 DEF RequestInv
    <3>2. \A k \in 1..Len(queue') :
            /\ cpc'[queue'[k].pid] \notin Unsent /\ granted[queue'[k].pid].len = 0
            /\ queue'[k].seqLen = seqLen[queue'[k].pid]
            /\ spc \in Serving => queue'[k].pid # req.pid
      BY <2>1, <2>2, <2>4, <2>5, <2>6 DEF RequestInv, Unsent
    <3>3. /\ spc \in Serving => cpc'[req.pid] = cpc[req.pid]
          /\ spc = "write" => cpc'[req.pid] = cpc[req.pid]
      BY <2>1, <2>6 DEF Serving
    <3>4. QED BY <1>0, <2>1, <2>6, <3>1, <3>2, <3>3 DEF RequestInv, Unsent
  <2>9. AnswerInv' BY <1>0, <1>1, <2>6 DEF AnswerInv
  <2>10. CounterInv' BY <1>0 DEF CounterInv
  <2>11. RangeInv' BY <1>0 DEF RangeInv
  <2>12. QED BY <2>7, <2>8, <2>9, <2>10, <2>11
<1>5. QED
  <2>1. [fifo EXCEPT ![c] = FALSE] \in [Clients -> BOOLEAN] /\ fifo \in [Clients -> BOOLEAN]
    BY DEF BasicType
  <2>2. QED BY <1>3, <1>4, <2>1 DEF ClientSend, Exit

\* The number a client prints is the one the server put into its FIFO.
LEMMA ClientReadKeeps == ASSUME IInv, NEW c \in Clients, ClientRead(c) PROVE IInv'
<1> USE DEF IInv
<1>0. /\ cpc[c] = "read"
      /\ UNCHANGED <<spc, seqNum, req, sfifo, queue, seqLen, spent, granted>>
  BY DEF ClientRead, svars, history
<1>1. fifo' \in [Clients -> BOOLEAN] BY DEF ClientRead, Exit, BasicType
<1>2. CASE /\ resp[c] = <<>> /\ ~(spc = "write" /\ req.pid = c)
           /\ cpc' = [cpc EXCEPT ![c] = "failed"] /\ UNCHANGED <<got, resp>>
  <2>1. resp' = [resp EXCEPT ![c] = <<>>] BY <1>2 DEF BasicType
  <2>2. QED BY <1>0, <1>1, <1>2, <2>1, MoveKeeps
<1>3. CASE /\ resp[c] # <<>>
           /\ got' = [got EXCEPT ![c] = Head(resp[c])]
           /\ resp' = [resp EXCEPT ![c] = Tail(@)]
           /\ cpc' = [cpc EXCEPT ![c] = "done"]
  <2>1. /\ granted[c].len = seqLen[c] /\ seqLen[c] > 0
        /\ Len(resp[c]) = 1 /\ Congruent(resp[c][1], granted[c].at)
    BY <1>3 DEF AnswerInv
  <2>2. resp[c] \in Seq(Ints) BY DEF BasicType
  <2>3. /\ Head(resp[c]) = resp[c][1] /\ resp[c][1] \in Ints
        /\ Tail(resp[c]) \in Seq(Ints) /\ Len(Tail(resp[c])) = 0
    BY <1>3, <2>1, <2>2, HeadTailProperties
  <2>4. Tail(resp[c]) = <<>> BY <2>3, EmptySeq
  <2>5. BasicType' BY <1>0, <1>1, <1>3, <2>3 DEF BasicType
  <2>6. /\ cpc'[c] = "done" /\ resp'[c] = <<>> /\ got'[c] = resp[c][1]
        /\ \A d \in Clients : d # c => cpc'[d] = cpc[d] /\ resp'[d] = resp[d] /\ got'[d] = got[d]
    BY <1>3, <2>3, <2>4 DEF BasicType
  <2>7. /\ \A k \in 1..Len(queue) : queue[k].pid \in Clients /\ queue[k].pid # c
        /\ spc \in Serving => req.pid \in Clients /\ req.pid # c
    <3>1. granted[c].len # 0 BY <2>1
    <3>2. spc \in Serving => req \in Requests BY DEF BasicType
    <3>3. QED BY <3>1, <3>2, QueuedRequest DEF RequestInv, Requests
  <2>8. RequestInv' BY <1>0, <2>6, <2>7 DEF RequestInv, Unsent, Serving
  <2>9. AnswerInv' BY <1>0, <2>1, <2>6 DEF AnswerInv
  <2>10. CounterInv' BY <1>0 DEF CounterInv
  <2>11. RangeInv' BY <1>0 DEF RangeInv
  <2>12. QED BY <2>5, <2>8, <2>9, <2>10, <2>11
<1>4. QED BY <1>2, <1>3 DEF ClientRead, Exit

\* One step of anybody.
LEMMA Step == IInv /\ [Next]_vars => IInv'
<1> SUFFICES ASSUME IInv, [Next]_vars PROVE IInv' OBVIOUS
<1>1. CASE ServerStep \/ KillServer
  BY <1>1, SetupKeeps, ServerOpenKeeps, ServerReadKeeps, ServerOpenClientKeeps,
     ServerWriteKeeps, ServerAdvanceKeeps DEF ServerStep
<1>2. ASSUME NEW c \in Clients, NEW a \in Args, ClientStart(c, a) PROVE IInv'
  BY <1>2, ClientStartKeeps
<1>3. ASSUME NEW c \in Clients, ClientStep(c) PROVE IInv'
  <2>1. ASSUME cpc[c] # "read" PROVE resp[c] = <<>> /\ resp = [resp EXCEPT ![c] = <<>>]
    BY <2>1 DEF IInv, AnswerInv, BasicType
  <2>2. CASE ClientOpenServer(c)
    <3>1. /\ cpc[c] = "open_server"
          /\ \E where \in {"failed", "send", "at_server"} : cpc' = [cpc EXCEPT ![c] = where]
          /\ spc' = spc \/ (spc = "in_open" /\ spc' = "open_dummy")
          /\ UNCHANGED <<seqNum, req, sfifo, queue, seqLen, resp, got, spent, granted>>
      BY <2>2 DEF ClientOpenServer, Exit, history
    <3>2. fifo' \in [Clients -> BOOLEAN]
      BY <2>2 DEF ClientOpenServer, Exit, IInv, BasicType
    <3>3. ~(spc = "write" /\ req.pid = c)
      BY <3>1 DEF IInv, RequestInv
    <3>4. PICK where \in {"failed", "send", "at_server"} : cpc' = [cpc EXCEPT ![c] = where]
      BY <3>1
    <3>5. cpc[c] \in Unsent \ {"start"} BY <3>1 DEF Unsent
    <3>6. resp' = [resp EXCEPT ![c] = <<>>] BY <2>1, <3>1
    <3>7. QED BY <3>1, <3>2, <3>3, <3>4, <3>5, <3>6, MoveKeeps
  <2>3. CASE ClientSend(c) BY <2>3, ClientSendKeeps
  <2>4. CASE ClientOpenOwn(c)
    BY <2>1, <2>4, MoveKeeps DEF ClientOpenOwn, IInv, BasicType, svars, history
  <2>5. CASE ClientRead(c) BY <2>5, ClientReadKeeps
  <2>6. QED BY <1>3, <2>2, <2>3, <2>4, <2>5 DEF ClientStep
<1>4. ASSUME NEW c \in Clients, KillClient(c) PROVE IInv'
  BY <1>4, MoveKeeps DEF KillClient, IInv, BasicType, svars, history
<1>5. CASE UNCHANGED vars
  <2> USE <1>5 DEF IInv, vars, svars, cvars, history
  <2>1. BasicType' BY DEF BasicType
  <2>2. RequestInv' BY DEF RequestInv
  <2>3. AnswerInv' BY DEF AnswerInv
  <2>4. CounterInv' /\ RangeInv' BY DEF CounterInv, RangeInv
  <2>5. QED BY <2>1, <2>2, <2>3, <2>4
<1>6. QED BY <1>1, <1>2, <1>3, <1>4, <1>5 DEF Next

LEMMA Invariance == Spec => []IInv
<1>1. QED BY Initial, Step, PTL DEF Spec

----------------------------------------------------------------------------
(* What the service is for.                                                *)

\* Whoever is killed wherever, the number in a client's FIFO or on its screen
\* starts the range cut off for it, and a client whose FIFO the server has
\* opened finds a response in it as long as the server lives.
THEOREM Answers == Spec => []ServiceInv
<1>1. IInv => ServiceInv
  <2> SUFFICES ASSUME IInv PROVE ServiceInv OBVIOUS
  <2> USE DEF IInv
  <2>1. \A c \in Clients : resp[c] \in Seq(Ints) /\ Len(resp[c]) \in Nat
    BY LenProperties DEF BasicType
  <2>2. \A c \in Clients : resp[c] # <<>> => Head(resp[c]) = resp[c][1] /\ Len(resp[c]) = 1
    BY <2>1, HeadTailProperties DEF AnswerInv
  <2>3. \A c \in Clients : Len(resp[c]) <= 1
    <3> TAKE c \in Clients
    <3>1. CASE resp[c] = <<>>
      <4>1. Len(<<>>) = 0 OBVIOUS
      <4>2. Len(resp[c]) = 0 BY <3>1, <4>1, Zenon
      <4>3. QED BY <4>2
    <3>2. CASE resp[c] # <<>>
      <4>1. Len(resp[c]) = 1 BY <3>2 DEF AnswerInv
      <4>2. QED BY <4>1
    <3>3. QED BY <3>1, <3>2
  <2>4. TypeOK
    <3>1. \A i \in 1..Len(queue) : queue[i] \in [pid : Clients, seqLen : 1..IntMax]
      <4>1. queue \in Seq(Requests) BY DEF BasicType
      <4>2. QED BY <4>1, ElementOfSeq DEF Requests
    <3>2. \A c \in Clients : \A i \in 1..Len(resp[c]) : resp[c][i] \in Ints
      BY <2>1, ElementOfSeq
    <3>3. QED BY <2>3, <3>1, <3>2 DEF BasicType, TypeOK
  <2>5. ResponseStartsRange BY <2>2 DEF ResponseStartsRange, AnswerInv, Congruent
  <2>6. OpenedGetsAnswer BY DEF OpenedGetsAnswer, AnswerInv
  <2>7. QED BY <2>4, <2>5, <2>6 DEF ServiceInv
<1>2. QED BY <1>1, Invariance, PTL

\* The numbers a client was told are those of its range.
LEMMA NumbersInRange ==
  ASSUME IInv, spent <= Modulus, NEW c \in Clients, cpc[c] = "done", NEW x \in Numbers(c)
  PROVE  granted[c].len # 0 /\ x \in granted[c].at .. granted[c].at + granted[c].len - 1
<1> USE DEF IInv
<1>1. PICK i \in 0..seqLen[c] - 1 : x = (got[c] + i) % Modulus BY DEF Numbers
<1>2. /\ granted[c].len = seqLen[c] /\ Congruent(got[c], granted[c].at)
      /\ seqLen[c] \in Nat /\ granted[c].at \in Nat /\ spent \in Nat
      /\ got[c] \in Ints /\ got[c] \in Int
  BY FifoAssumption DEF AnswerInv, BasicType, Ints
<1> DEFINE g == got[c] + i
           a == granted[c].at + i
<1>3. /\ i \in Nat /\ seqLen[c] # 0 /\ i < granted[c].len
      /\ granted[c].at + granted[c].len <= spent
  BY <1>1, <1>2 DEF RangeInv
<1>4. g \in Int /\ a \in 0..Modulus - 1 /\ a \in Int /\ g - a = got[c] - granted[c].at
  BY <1>2, <1>3, ModulusType
<1>5. (g - a) % Modulus = 0 BY <1>2, <1>4 DEF Congruent
<1>6. x = g % Modulus BY <1>1
<1> HIDE DEF g, a
<1>7. g % Modulus = a % Modulus BY <1>4, <1>5, ModulusType, SameRemainder
<1>8. a % Modulus = a BY <1>4, ModulusType
<1>9. x = a BY <1>6, <1>7, <1>8
<1>10. QED BY <1>2, <1>3, <1>9 DEF a

\* Until the counter has gone once around, no number is printed by two
\* clients of fifo_seqnum_server.
THEOREM Disjoint == Spec => []PrintedRangesDisjoint
<1>1. IInv => PrintedRangesDisjoint
  <2> SUFFICES ASSUME IInv, spent <= Modulus, NEW c \in Clients, NEW d \in Clients,
                      cpc[c] = "done", cpc[d] = "done", c # d,
                      NEW x \in Numbers(c), x \in Numbers(d)
               PROVE  FALSE
    BY DEF PrintedRangesDisjoint
  <2>1. granted[c].len # 0 /\ x \in granted[c].at .. granted[c].at + granted[c].len - 1
    BY NumbersInRange
  <2>2. granted[d].len # 0 /\ x \in granted[d].at .. granted[d].at + granted[d].len - 1
    BY NumbersInRange
  <2>3. /\ granted[c].at \in Nat /\ granted[c].len \in Nat
        /\ granted[d].at \in Nat /\ granted[d].len \in Nat
    <3>1. /\ granted[c] \in [at : Nat, len : 0..IntMax]
          /\ granted[d] \in [at : Nat, len : 0..IntMax]
      BY DEF IInv, BasicType
    <3>2. QED BY <3>1
  <2>4. \/ granted[c].at + granted[c].len <= granted[d].at
        \/ granted[d].at + granted[d].len <= granted[c].at
    BY <2>1, <2>2 DEF IInv, RangeInv
  <2>5. QED BY <2>1, <2>2, <2>3, <2>4
<1>2. QED BY <1>1, Invariance, PTL

----------------------------------------------------------------------------
(* The refinement.                                                         *)

\* A client's ticket is made of its own variables.
LEMMA SameTicket ==
  ASSUME NEW d \in Clients,
         \/ UNCHANGED <<cpc[d], resp[d], got[d], seqLen[d]>>
         \/ /\ {cpc[d], cpc'[d]} \cap {"done", "failed", "killed"} = {}
            /\ resp'[d] = resp[d] /\ (resp[d] = <<>> \/ seqLen'[d] = seqLen[d])
  PROVE  Ticket(d)' = Ticket(d)
BY DEF Ticket

LEMMA SameTickets ==
  ASSUME \A d \in Clients : Ticket(d)' = Ticket(d)
  PROVE  Tickets' = Tickets
BY DEF Tickets

LEMMA TicketOf == ASSUME NEW c \in Clients PROVE Tickets[c] = Ticket(c)
BY DEF Tickets

LEMMA OneTicket ==
  ASSUME NEW c \in Clients, \A d \in Clients \ {c} : Ticket(d)' = Ticket(d)
  PROVE  Tickets' = [Tickets EXCEPT ![c] = Ticket(c)']
BY DEF Tickets

\* A client that fails or dies leaves the allocator.
LEMMA ClientLeaves ==
  ASSUME IInv, NEW c \in Clients, cpc[c] \notin {"done", "failed", "killed"},
         cpc'[c] \in {"failed", "killed"},
         \A d \in Clients \ {c} : UNCHANGED <<cpc[d], resp[d], got[d], seqLen[d]>>,
         Counter' = Counter, (spc' # "off") = (spc # "off")
  PROVE  Alloc!Leave(c)
<1>1. \A d \in Clients \ {c} : Ticket(d)' = Ticket(d) BY SameTicket
<1>2. Ticket(c)' = Alloc!Gone BY DEF Ticket, Alloc!Gone
<1>3. Ticket(c).state \in {"none", "issued"} BY DEF Ticket
<1>4. QED BY <1>1, <1>2, <1>3, OneTicket, TicketOf DEF Alloc!Leave

\* The write cuts a number off: for the client that reads, or for nobody.
LEMMA WriteAllocates ==
  ASSUME IInv, ServerWrite
  PROVE  Alloc!Next
<1> DEFINE c == req.pid
<1>1. /\ c \in Clients /\ req.seqLen \in 1..IntMax /\ req.seqLen = seqLen[c]
      /\ cpc[c] \in {"read", "killed"} /\ resp[c] = <<>> /\ resp \in [Clients -> Seq(Ints)]
      /\ spc = "write" /\ spc' = "advance" /\ seqNum \in Ints
      /\ UNCHANGED <<seqNum, req, cpc, seqLen, got>>
  BY DEF ServerWrite, IInv, BasicType, Requests, Serving, RequestInv, AnswerInv
<1>2. Counter = seqNum /\ Counter' = Alloc!AddInt(Counter, req.seqLen)
  BY <1>1 DEF Counter, AddInt, Modulus, Alloc!AddInt, Alloc!Modulus
<1>3. CASE cpc[c] = "killed"
  <2>1. UNCHANGED resp BY <1>3 DEF ServerWrite, HasReader
  <2>2. Tickets' = Tickets BY <1>1, <2>1, SameTicket, SameTickets
  <2>3. Alloc!Skip BY <1>1, <1>2, <2>2 DEF Alloc!Skip
  <2>4. QED BY <2>3 DEF Alloc!Next
<1>4. CASE cpc[c] = "read"
  <2>1. resp' = [resp EXCEPT ![c] = Append(@, seqNum)]
    BY <1>4 DEF ServerWrite, HasReader
  <2>2. Head(<<seqNum>>) = seqNum /\ <<seqNum>> # <<>> /\ Append(<<>>, seqNum) = <<seqNum>>
    OBVIOUS
  <2>3. resp'[c] # <<>> /\ Head(resp'[c]) = seqNum BY <1>1, <2>1, <2>2
  <2>4. Ticket(c) = Alloc!Blank BY <1>1, <1>4 DEF Ticket, Alloc!Blank
  <2>5. Ticket(c)' = Alloc!Issued(Counter, req.seqLen)
    BY <1>1, <1>2, <1>4, <2>3 DEF Ticket, Alloc!Issued
  <2>6. \A d \in Clients \ {c} : Ticket(d)' = Ticket(d)
    BY <1>1, <2>1, SameTicket
  <2>7. Tickets' = [Tickets EXCEPT ![c] = Alloc!Issued(Counter, req.seqLen)]
    BY <1>1, <2>5, <2>6, OneTicket
  <2>8. Alloc!Issue(c)
    BY <1>1, <1>2, <2>4, <2>7, TicketOf DEF Alloc!Issue
  <2>9. QED BY <1>1, <2>8 DEF Alloc!Next
<1>5. QED BY <1>1, <1>3, <1>4

\* read gives the client the number that was written for it, or its end.
LEMMA ReadPrints ==
  ASSUME IInv, NEW c \in Clients, ClientRead(c)
  PROVE  Alloc!Next
<1>1. /\ UNCHANGED svars /\ UNCHANGED seqLen /\ cpc[c] = "read" /\ cpc = [d \in Clients |-> cpc[d]]
      /\ resp \in [Clients -> Seq(Ints)] /\ got \in [Clients -> Ints]
  BY DEF ClientRead, IInv, BasicType
<1>2. Counter' = Counter /\ spc' = spc BY <1>1 DEF Counter, svars
<1>3. CASE resp[c] # <<>> /\ got' = [got EXCEPT ![c] = Head(resp[c])]
           /\ resp' = [resp EXCEPT ![c] = Tail(@)] /\ cpc' = [cpc EXCEPT ![c] = "done"]
  <2>1. \A d \in Clients \ {c} : Ticket(d)' = Ticket(d)
    BY <1>1, <1>3, SameTicket
  <2>2. Ticket(c) = Alloc!Issued(Head(resp[c]), seqLen[c])
    BY <1>1, <1>3 DEF Ticket, Alloc!Issued
  <2>3. Ticket(c)' = Alloc!Printed(Head(resp[c]), seqLen[c])
    BY <1>1, <1>3 DEF Ticket, Alloc!Printed
  <2>4. Alloc!Deliver(c)
    BY <1>2, <2>1, <2>2, <2>3, OneTicket, TicketOf DEF Alloc!Deliver, Alloc!Issued, Tickets
  <2>5. QED BY <2>4 DEF Alloc!Next
<1>4. CASE UNCHANGED <<got, resp>> /\ cpc' = [cpc EXCEPT ![c] = "failed"]
  <2>1. Alloc!Leave(c) BY <1>1, <1>2, <1>4, ClientLeaves
  <2>2. QED BY <2>1 DEF Alloc!Next
<1>5. QED BY <1>3, <1>4 DEF ClientRead, Exit

\* The service implements the abstract allocator: the write of a response
\* tells the client what the counter is at, the addition after it moves the
\* counter by that client's length, what a client prints is what was written,
\* and no exit, kill or request given up moves the counter or a number.
THEOREM ImplementsAlloc == Spec => AllocSpec
<1>1. Init => Alloc!Init
  BY DEF Init, Ticket, Tickets, Counter, Alloc!Init, Alloc!Blank
<1>2. ASSUME IInv, [Next]_vars PROVE [Alloc!Next]_Alloc!vars
  <2> USE <1>2
  <2>1. ASSUME Tickets' = Tickets, Counter' = Counter, (spc' # "off") = (spc # "off")
        PROVE  [Alloc!Next]_Alloc!vars
    BY <2>1 DEF Alloc!vars
  <2>2. ASSUME NEW c \in Clients, Alloc!Leave(c) PROVE [Alloc!Next]_Alloc!vars
    BY <2>2 DEF Alloc!Next
  <2>3. CASE ServerMkfifo \/ ServerDummy \/ ServerRead \/ ServerAdvance
    <3>1. /\ UNCHANGED cvars /\ spc # "off" /\ spc' # "off" /\ Counter' = Counter
      BY <2>3 DEF ServerMkfifo, ServerDummy, ServerRead, ServerAdvance, Counter
    <3>2. Tickets' = Tickets BY <3>1, SameTicket, SameTickets DEF cvars
    <3>3. QED BY <2>1, <3>1, <3>2
  <2>4. CASE ServerOpen \/ ServerOpenClient
    <3>1. /\ UNCHANGED <<seqNum, seqLen, resp, got>> /\ spc # "off" /\ spc' # "off"
          /\ Counter' = Counter
      BY <2>4 DEF ServerOpen, ServerOpenClient, Counter
    <3>2. \A d \in Clients : \/ cpc'[d] = cpc[d]
                             \/ {cpc[d], cpc'[d]} \cap {"done", "failed", "killed"} = {}
      BY <2>4 DEF ServerOpen, ServerOpenClient, HasReader, IInv, BasicType
    <3>3. Tickets' = Tickets BY <3>1, <3>2, SameTicket, SameTickets
    <3>4. QED BY <2>1, <3>1, <3>3
  <2>5. CASE ServerWrite BY <2>5, WriteAllocates
  <2>6. CASE KillServer
    <3>1. UNCHANGED cvars /\ spc # "off" /\ spc' = "off" BY <2>6 DEF KillServer
    <3>2. Tickets' = Tickets BY <3>1, SameTicket, SameTickets DEF cvars
    <3>3. Alloc!Stop BY <3>1, <3>2 DEF Counter, Alloc!Stop
    <3>4. QED BY <3>3 DEF Alloc!Next
  <2>7. ASSUME NEW c \in Clients, NEW a \in Args, ClientStart(c, a)
        PROVE  [Alloc!Next]_Alloc!vars
    <3>1. /\ UNCHANGED <<svars, resp, got>> /\ cpc[c] = "start"
          /\ cpc = [d \in Clients |-> cpc[d]] /\ seqLen \in [Clients -> 0..IntMax]
          /\ resp[c] = <<>>
      BY <2>7 DEF ClientStart, IInv, BasicType, AnswerInv
    <3>2. Counter' = Counter /\ spc' = spc BY <3>1 DEF Counter, svars
    <3>3. CASE GetInt(a)
      <4>1. /\ cpc' = [cpc EXCEPT ![c] = "open_server"] /\ seqLen' = [seqLen EXCEPT ![c] = a]
        BY <2>7, <3>3 DEF ClientStart
      <4>2. Tickets' = Tickets BY <3>1, <4>1, SameTicket, SameTickets
      <4>3. QED BY <2>1, <3>2, <4>2
    <3>4. CASE ~GetInt(a)
      <4>1. cpc' = [cpc EXCEPT ![c] = "failed"] /\ UNCHANGED seqLen
        BY <2>7, <3>4 DEF ClientStart, Exit
      <4>2. Alloc!Leave(c) BY <3>1, <3>2, <4>1, ClientLeaves
      <4>3. QED BY <2>2, <4>2
    <3>5. QED BY <3>3, <3>4
  <2>8. ASSUME NEW c \in Clients,
               ClientOpenServer(c) \/ ClientSend(c) \/ ClientOpenOwn(c) \/ KillClient(c)
        PROVE  [Alloc!Next]_Alloc!vars
    <3>1. /\ UNCHANGED <<seqNum, req, seqLen, got>> /\ (spc' # "off") = (spc # "off")
          /\ Counter' = Counter /\ cpc[c] \notin {"done", "failed", "killed"}
          /\ \A d \in Clients \ {c} : UNCHANGED <<cpc[d], resp[d], got[d], seqLen[d]>>
      BY <2>8 DEF ClientOpenServer, ClientSend, ClientOpenOwn, KillClient, Exit, Counter,
                  svars, IInv, BasicType
    <3>2. CASE cpc'[c] \in {"failed", "killed"}
      <4>1. Alloc!Leave(c) BY <3>1, <3>2, ClientLeaves
      <4>2. QED BY <2>2, <4>1
    <3>3. CASE cpc'[c] \notin {"failed", "killed"}
      <4>1. UNCHANGED resp /\ cpc'[c] # "done"
        BY <2>8, <3>3 DEF ClientOpenServer, ClientSend, ClientOpenOwn, KillClient, Exit,
                          IInv, BasicType
      <4>2. Ticket(c)' = Ticket(c) BY <3>1, <3>3, <4>1, SameTicket
      <4>3. \A d \in Clients \ {c} : Ticket(d)' = Ticket(d) BY <3>1, SameTicket
      <4>4. Tickets' = Tickets BY <4>2, <4>3, SameTickets
      <4>5. QED BY <2>1, <3>1, <4>4
    <3>4. QED BY <3>2, <3>3
  <2>9. ASSUME NEW c \in Clients, ClientRead(c) PROVE [Alloc!Next]_Alloc!vars
    BY <2>9, ReadPrints
  <2>10. CASE UNCHANGED vars
    <3>1. Tickets' = Tickets
      BY <2>10, SameTicket, SameTickets DEF vars, cvars
    <3>2. Counter' = Counter /\ spc' = spc BY <2>10 DEF vars, svars, Counter
    <3>3. QED BY <2>1, <3>1, <3>2
  <2>11. QED
    BY <2>3, <2>4, <2>5, <2>6, <2>7, <2>8, <2>9, <2>10 DEF Next, ServerStep, ClientStep
<1>3. QED BY <1>1, <1>2, Invariance, PTL DEF Spec, AllocSpec, Alloc!Spec
=============================================================================
