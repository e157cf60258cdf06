-------------------------- MODULE MsgSeqnumProofs --------------------------
(***************************************************************************)
(* Safety of the message-queue sequence-number service, for any clients,   *)
(* lengths, queue size and number of server runs, whoever is killed; and   *)
(* that it implements SeqAlloc.  The second part is about the file service *)
(* over POSIX message queues, MqFile, for any clients, pids, files and     *)
(* queue size.                                                             *)
(***************************************************************************)
EXTENDS MsgSeqnum, MqFileState, SequenceTheorems, WellFoundedInduction, FiniteSetTheorems, TLAPS

Messages == [mtype : Clients \cup {Request}, pid : Clients \cup {Request}, n : Ints]

\* Two numbers are the same int.
Congruent(a, b) == (a - b) % Modulus = 0

\* The client whose exchange a message belongs to.
Owner(m) == IF m.mtype = Request THEN m.pid ELSE m.mtype

BasicType ==
  /\ made \in BOOLEAN
  /\ queue \in Seq(Messages) /\ Len(queue) <= QMax
  /\ spc \in {"off", "rcv", "snd"} /\ seqNum \in Ints /\ starts \in 0..MaxStarts
  /\ resp \in [mtype : Clients \cup {Request}, pid : {Request}, n : Ints]
  /\ cpc \in [Clients -> {"start", "snd", "rcv", "done", "failed"}]
  /\ seqLen \in [Clients -> 0..IntMax] /\ got \in [Clients -> Ints]
  /\ spent \in Nat /\ run \in [Clients -> 0..MaxStarts]
  /\ granted \in [Clients -> [at : Nat, len : 0..IntMax]]

\* The exchange of a client is under way.
UnderWay(c) ==
  \/ \E k \in 1..Len(queue) : Owner(queue[k]) = c
  \/ spc = "snd" /\ resp.mtype = c

\* An exchange is in one place at most, and only of a client that waits or is
\* dead; in the first run of the server, a waiting client's is somewhere.
PlaceInv ==
  /\ \A j, k \in 1..Len(queue) : Owner(queue[j]) = Owner(queue[k]) => j = k
  /\ \A k \in 1..Len(queue) :
       /\ Owner(queue[k]) \in Clients /\ cpc[Owner(queue[k])] \in {"rcv", "failed"}
       /\ spc = "snd" => Owner(queue[k]) # resp.mtype
  /\ spc = "snd" => resp.mtype \in Clients /\ cpc[resp.mtype] \in {"rcv", "failed"}
  /\ \A c \in Clients : cpc[c] = "rcv" /\ starts = 1 /\ spc # "off" => UnderWay(c)
  /\ starts = 0 => ~made
  /\ ~made => \A c \in Clients : cpc[c] \in {"start", "failed"}

\* A client whose request is not served has no range, and the request asks for
\* what the client wants.
GrantInv ==
  /\ \A k \in 1..Len(queue) : queue[k].mtype = Request =>
       /\ granted[queue[k].pid].len = 0
       /\ queue[k].n = seqLen[queue[k].pid] /\ queue[k].n > 0
  /\ \A c \in Clients :
       /\ cpc[c] \in {"start", "snd"} => granted[c].len = 0
       /\ cpc[c] = "snd" => seqLen[c] > 0
       /\ run[c] <= starts

\* The ranges cut off lie below spent and side by side.
RangeInv ==
  /\ \A c \in Clients : granted[c].len # 0 => granted[c].at + granted[c].len <= spent
  /\ \A c, d \in Clients :
       c # d /\ granted[c].len # 0 /\ granted[d].len # 0 =>
         \/ granted[c].at + granted[c].len <= granted[d].at
         \/ granted[d].at + granted[d].len <= granted[c].at

\* n is the number that starts the range of client c, for a server that
\* counted from 0 when base[r] had been cut off before its run r.
Starts(c, n, base) ==
  granted[c].len = seqLen[c] /\ Congruent(n + base[run[c]], granted[c].at)

\* Every number on its way or printed starts its range, and the counter is
\* what the present run has cut off, wrapped to an int.
CountsFrom(base) ==
  /\ spc # "off" => Congruent(seqNum + base[starts], spent)
  /\ \A k \in 1..Len(queue) :
       queue[k].mtype # Request => Starts(queue[k].mtype, queue[k].n, base)
  /\ spc = "snd" => Starts(resp.mtype, resp.n, base)
  /\ \A c \in Clients : cpc[c] = "done" => Starts(c, got[c], base)

CounterInv == \E base \in [0..MaxStarts -> Nat] : CountsFrom(base)

IInv == BasicType /\ PlaceInv /\ GrantInv /\ RangeInv /\ CounterInv

----------------------------------------------------------------------------
(* Arithmetic of an int that wraps around.                                 *)

LEMMA ModulusType == Modulus \in Nat \ {0} /\ Modulus = 2 * IntMax + 2
BY MsgAssumption DEF Modulus

LEMMA Division ==
  ASSUME NEW M \in Nat \ {0}, NEW x \in Int
  PROVE  x = M * (x \div M) + (x % M)
OBVIOUS

LEMMA SmallMultiple ==
  ASSUME NEW M \in Nat \ {0}, NEW q \in Int, NEW r \in Int, r = M * q, -M < r, r < M
  PROVE  r = 0
OBVIOUS

\* Numbers that differ by a multiple of M leave the same remainder.
LEMMA SameRemainder ==
  ASSUME NEW M \in Nat \ {0}, NEW x \in Int, NEW y \in Int, (x - y) % M = 0
  PROVE  x % M = y % M
<1> DEFINE a == x \div M
           b == y \div M
           d == (x - y) \div M
           r == (x % M) - (y % M)
<1>1. a \in Int /\ b \in Int /\ d \in Int OBVIOUS
<1>2. x % M \in 0..M-1 /\ y % M \in 0..M-1 OBVIOUS
<1>3. x = M * a + (x % M) /\ y = M * b + (y % M) /\ x - y = M * d BY Division
<1>4. r \in Int /\ -M < r /\ r < M BY <1>2
<1>5. r = M * (d - a + b) /\ d - a + b \in Int BY <1>1, <1>2, <1>3
<1>6. r = 0 BY <1>4, <1>5, SmallMultiple
<1>7. QED BY <1>2, <1>6

LEMMA MultipleApart ==
  ASSUME NEW M \in Nat \ {0}, NEW x \in Int, NEW y \in Int, x % M = y % M
  PROVE  (x - y) % M = 0
OBVIOUS

LEMMA CongruentSelf == ASSUME NEW a \in Int PROVE Congruent(a, a)
BY ModulusType DEF Congruent

LEMMA CongruentShift ==
  ASSUME NEW a \in Int, NEW b \in Int, NEW n \in Int, Congruent(a, b)
  PROVE  Congruent(a + n, b + n)
<1>1. (a + n) - (b + n) = a - b OBVIOUS
<1>2. QED BY <1>1 DEF Congruent

\* What the build's addition yields is congruent to the sum, and is an int.
LEMMA AddIntCongruent ==
  ASSUME NEW a \in Ints, NEW n \in 1..IntMax, NEW b \in Int, NEW s \in Int, Congruent(a + n + b, s)
  PROVE  AddInt(a, n) \in Ints /\ Congruent(AddInt(a, n) + b, s)
<1>1. a \in Int /\ n \in Int /\ -IntMax - 1 <= a /\ a <= IntMax /\ 1 <= n /\ n <= IntMax /\ IntMax \in Int
  BY MsgAssumption DEF Ints
<1>2. AddInt(a, n) \in Ints
  BY <1>1, ModulusType DEF AddInt, Ints
<1> DEFINE x == a + n + b - s
           y == a + n - Modulus + b - s
<1>3. x \in Int /\ y \in Int /\ x - y = Modulus BY <1>1, ModulusType
<1>4. x % Modulus = 0 BY <1>1, ModulusType DEF Congruent
<1> HIDE DEF x, y
<1>5. (x - y) % Modulus = 0 BY <1>3, ModulusType
<1>6. x % Modulus = y % Modulus BY <1>3, <1>5, ModulusType, SameRemainder
<1>7. Congruent(a + n - Modulus + b, s) BY <1>1, <1>4, <1>6, ModulusType DEF x, y, Congruent
<1>8. QED BY <1>2, <1>7 DEF AddInt

----------------------------------------------------------------------------
(* What msgrcv does to the queue.                                          *)

LEMMA QueuedMessage ==
  ASSUME BasicType
  PROVE  /\ Len(queue) \in Nat
         /\ \A k \in 1..Len(queue) : queue[k] \in Messages
<1>1. queue \in Seq(Messages) BY DEF BasicType
<1>2. QED BY <1>1, ElementOfSeq, LenProperties

\* The oldest message of a type is one of that type.
LEMMA FirstOfType ==
  ASSUME BasicType, NEW t, OfType(t) # {}
  PROVE  FirstOf(t) \in 1..Len(queue) /\ queue[FirstOf(t)].mtype = t
<1>1. OfType(t) \subseteq Nat BY QueuedMessage DEF OfType
<1>2. \E i \in OfType(t) : \A j \in OfType(t) : i <= j
  <2> DEFINE R == OpToRel(<, Nat)
  <2>1. \A i, j \in Nat : j < i => <<j, i>> \in R BY DEF OpToRel
  <2>2. IsWellFoundedOn(R, Nat) BY NatLessThanWellFounded
  <2> HIDE DEF R
  <2>3. \E i \in OfType(t) : \A j \in OfType(t) : ~(<<j, i>> \in R)
    BY <1>1, <2>2, WFMin
  <2>4. PICK i \in OfType(t) : \A j \in OfType(t) : ~(<<j, i>> \in R) BY <2>3
  <2>5. \A j \in OfType(t) : ~(j < i) BY <1>1, <2>1, <2>4, Zenon
  <2>6. QED BY <1>1, <2>5
<1>3. FirstOf(t) \in OfType(t) BY <1>2 DEF FirstOf
<1>4. QED BY <1>3 DEF OfType

\* Taking message i out leaves the others, each once.
LEMMA WithoutLeaves ==
  ASSUME BasicType, NEW i \in 1..Len(queue)
  PROVE  LET q == Without(i)
             old(k) == IF k < i THEN k ELSE k + 1
         IN  /\ q \in Seq(Messages) /\ Len(q) = Len(queue) - 1
             /\ \A k \in 1..Len(q) :
                  /\ old(k) \in 1..Len(queue) /\ old(k) # i
                  /\ q[k] = queue[old(k)]
<1> DEFINE n == Len(queue)
           s == SubSeq(queue, 1, i - 1)
           t == SubSeq(queue, i + 1, n)
<1>1. n \in Nat /\ i \in Int /\ 1 <= i /\ i <= n BY QueuedMessage
<1>2. \A k \in 1..n : queue[k] \in Messages BY QueuedMessage
<1>3. /\ s \in Seq(Messages) /\ Len(s) = i - 1
      /\ \A k \in 1..i - 1 : s[k] = queue[k]
  <2>1. \A k \in 1..i - 1 : queue[k] \in Messages BY <1>1, <1>2
  <2>2. /\ s \in Seq(Messages)
        /\ Len(s) = IF 1 <= i - 1 THEN (i - 1) - 1 + 1 ELSE 0
        /\ \A k \in 1..(i - 1) - 1 + 1 : s[k] = queue[1 + k - 1]
    BY <1>1, <2>1, SubSeqProperties
  <2> HIDE DEF s
  <2>3. QED BY <1>1, <2>2
<1>4. /\ t \in Seq(Messages) /\ Len(t) = n - i
      /\ \A k \in 1..n - i : t[k] = queue[i + k]
  <2>1. \A k \in i + 1..n : queue[k] \in Messages BY <1>1, <1>2
  <2>2. /\ t \in Seq(Messages)
        /\ Len(t) = IF i + 1 <= n THEN n - (i + 1) + 1 ELSE 0
        /\ \A k \in 1..n - (i + 1) + 1 : t[k] = queue[(i + 1) + k - 1]
    BY <1>1, <2>1, SubSeqProperties
  <2> HIDE DEF t, n
  <2>3. \A k \in 1..n - i : k \in 1..n - (i + 1) + 1 /\ (i + 1) + k - 1 = i + k
    BY <1>1
  <2>4. QED BY <1>1, <2>2, <2>3
<1> DEFINE q == Without(i)
<1>5. q = s \o t BY DEF Without
<1> HIDE DEF s, t, q
<1>6. /\ q \in Seq(Messages) /\ Len(q) = Len(s) + Len(t)
      /\ \A k \in 1..Len(s) + Len(t) : q[k] = IF k <= Len(s) THEN s[k] ELSE t[k - Len(s)]
  BY <1>3, <1>4, <1>5, ConcatProperties
<1>7. Len(q) = n - 1 BY <1>1, <1>3, <1>4, <1>6
<1>8. ASSUME NEW k \in 1..Len(q)
      PROVE  LET o == IF k < i THEN k ELSE k + 1
             IN  o \in 1..n /\ o # i /\ q[k] = queue[o]
  <2>1. k \in Int /\ 1 <= k /\ k <= n - 1 BY <1>1, <1>7
  <2>2. CASE k < i
    <3>1. k <= Len(s) /\ k \in 1..i - 1 /\ k \in 1..Len(s) + Len(t) BY <1>1, <1>3, <1>4, <2>1, <2>2
    <3>2. q[k] = queue[k] BY <1>3, <1>6, <3>1
    <3>3. QED BY <1>1, <2>1, <2>2, <3>2
  <2>3. CASE ~(k < i)
    <3>1. /\ ~(k <= Len(s)) /\ k - Len(s) \in 1..n - i /\ k \in 1..Len(s) + Len(t)
          /\ i + (k - Len(s)) = k + 1
      BY <1>1, <1>3, <1>4, <2>1, <2>3
    <3>2. q[k] = t[k - Len(s)] BY <1>6, <3>1
    <3>3. q[k] = queue[k + 1] BY <1>4, <3>1, <3>2
    <3>4. QED BY <1>1, <2>1, <2>3, <3>3
  <2>4. QED BY <2>2, <2>3
<1>9. QED BY <1>6, <1>7, <1>8 DEF q, n

\* The queue after msgrcv of message i, as the invariant sees it.
LEMMA Taken ==
  ASSUME IInv, NEW i \in 1..Len(queue), queue' = Without(i)
  PROVE  /\ queue' \in Seq(Messages) /\ Len(queue') <= QMax
         /\ \A j, k \in 1..Len(queue') : Owner(queue'[j]) = Owner(queue'[k]) => j = k
         /\ \A k \in 1..Len(queue') :
              /\ \E o \in 1..Len(queue) : o # i /\ queue'[k] = queue[o]
              /\ Owner(queue'[k]) # Owner(queue[i])
         /\ \A o \in 1..Len(queue) : o # i => \E k \in 1..Len(queue') : queue'[k] = queue[o]
<1> USE DEF IInv
<1> DEFINE old(k) == IF k < i THEN k ELSE k + 1
<1>1. Len(queue) \in Nat /\ Len(queue) <= QMax BY QueuedMessage DEF BasicType
<1>2. /\ queue' \in Seq(Messages) /\ Len(queue') = Len(queue) - 1
      /\ \A k \in 1..Len(queue') :
           /\ old(k) \in 1..Len(queue) /\ old(k) # i
           /\ queue'[k] = queue[old(k)]
  BY WithoutLeaves
<1>3. \A j, k \in 1..Len(queue') : old(j) = old(k) => j = k
  BY <1>1, <1>2
<1>4. \A o \in 1..Len(queue) : o # i => \E k \in 1..Len(queue') : old(k) = o
  <2> SUFFICES ASSUME NEW o \in 1..Len(queue), o # i
               PROVE  \E k \in 1..Len(queue') : old(k) = o
    OBVIOUS
  <2>1. CASE o < i
    <3>1. o \in 1..Len(queue') /\ old(o) = o BY <1>1, <1>2, <2>1
    <3>2. QED BY <3>1
  <2>2. CASE o > i
    <3>1. o - 1 \in 1..Len(queue') /\ old(o - 1) = o BY <1>1, <1>2, <2>2
    <3>2. QED BY <3>1
  <2>3. QED BY <1>1, <2>1, <2>2
<1> HIDE DEF old
<1>5. \A j, k \in 1..Len(queue') : Owner(queue'[j]) = Owner(queue'[k]) => j = k
  BY <1>2, <1>3 DEF PlaceInv
<1>6. \A k \in 1..Len(queue') : Owner(queue'[k]) # Owner(queue[i])
  BY <1>2 DEF PlaceInv
<1>7. \A o \in 1..Len(queue) : o # i => \E k \in 1..Len(queue') : queue'[k] = queue[o]
  BY <1>2, <1>4
<1>8. Len(queue') <= QMax BY <1>1, <1>2, MsgAssumption
<1>9. \A k \in 1..Len(queue') : \E o \in 1..Len(queue) : o # i /\ queue'[k] = queue[o]
  BY <1>2
<1>10. queue' \in Seq(Messages) BY <1>2
<1>11. QED BY <1>5, <1>6, <1>7, <1>8, <1>9, <1>10

\* The queue after msgsnd of a message of a client that has none in it.
LEMMA Sent ==
  ASSUME IInv, Fits, NEW m \in Messages, queue' = Append(queue, m),
         \A k \in 1..Len(queue) : Owner(queue[k]) # Owner(m)
  PROVE  /\ queue' \in Seq(Messages) /\ Len(queue') <= QMax
         /\ \A j, k \in 1..Len(queue') : Owner(queue'[j]) = Owner(queue'[k]) => j = k
         /\ \A k \in 1..Len(queue') :
              queue'[k] = m \/ \E o \in 1..Len(queue) : queue'[k] = queue[o]
         /\ \A o \in 1..Len(queue) : \E k \in 1..Len(queue') : queue'[k] = queue[o]
         /\ \E k \in 1..Len(queue') : queue'[k] = m
<1> USE DEF IInv
<1>1. Len(queue) \in Nat /\ Len(queue) < QMax /\ queue \in Seq(Messages)
  BY QueuedMessage DEF BasicType, Fits
<1>2. /\ queue' \in Seq(Messages) /\ Len(queue') = Len(queue) + 1
      /\ \A k \in 1..Len(queue) : queue'[k] = queue[k]
      /\ queue'[Len(queue) + 1] = m
  BY <1>1, AppendProperties
<1>3. /\ \A k \in 1..Len(queue') : k \in 1..Len(queue) \/ k = Len(queue) + 1
      /\ \A k \in 1..Len(queue) : k \in 1..Len(queue')
      /\ Len(queue) + 1 \in 1..Len(queue')
  BY <1>1, <1>2
<1>4. \A j, k \in 1..Len(queue') : Owner(queue'[j]) = Owner(queue'[k]) => j = k
  BY <1>2, <1>3 DEF PlaceInv
<1>5. Len(queue') <= QMax BY <1>1, <1>2, MsgAssumption
<1>6. QED BY <1>2, <1>3, <1>4, <1>5

----------------------------------------------------------------------------
(* The steps.                                                              *)

LEMMA Initial == Init => IInv
<1> SUFFICES ASSUME Init PROVE IInv OBVIOUS
<1>1. 0 \in Ints /\ 0 \in 0..IntMax /\ 0 \in 0..MaxStarts /\ 0 <= QMax
  BY MsgAssumption DEF Ints
<1>2. queue \in Seq(Messages) /\ Len(queue) = 0 BY DEF Init
<1>3. BasicType
  <2>1. granted \in [Clients -> [at : Nat, len : 0..IntMax]] BY <1>1 DEF Init, NoRange
  <2>2. resp \in [mtype : Clients \cup {Request}, pid : {Request}, n : Ints] BY <1>1 DEF Init
  <2>3. QED BY <1>1, <1>2, <2>1, <2>2 DEF Init, BasicType
<1>4. PlaceInv BY <1>2 DEF Init, PlaceInv
<1>5. GrantInv BY <1>2 DEF Init, GrantInv, NoRange
<1>6. RangeInv BY DEF Init, RangeInv, NoRange
<1>7. CounterInv
  <2> DEFINE b == [r \in 0..MaxStarts |-> 0]
  <2>1. b \in [0..MaxStarts -> Nat] OBVIOUS
  <2>2. CountsFrom(b) BY <1>2 DEF Init, CountsFrom
  <2>3. QED BY <2>1, <2>2 DEF CounterInv
<1>8. QED BY <1>3, <1>4, <1>5, <1>6, <1>7 DEF IInv

\* A new run of the server counts from 0 on, and nothing is from it yet.
LEMMA ServerStartKeeps == ASSUME IInv, ServerStart PROVE IInv'
<1> USE DEF IInv
<1>0. /\ spc = "off" /\ starts < MaxStarts
      /\ made' = TRUE /\ spc' = "rcv" /\ seqNum' = 0 /\ starts' = starts + 1
      /\ UNCHANGED <<queue, resp, cpc, seqLen, got, spent, granted, run>>
  BY DEF ServerStart, cvars, history
<1>1. /\ 0 \in Ints /\ starts \in Nat /\ starts + 1 \in 0..MaxStarts /\ spent \in Nat
      /\ \A c \in Clients : run[c] \in Nat /\ run[c] <= starts
  BY <1>0, MsgAssumption DEF Ints, BasicType, GrantInv
<1>2. BasicType' BY <1>0, <1>1 DEF BasicType
<1>3. PlaceInv'
  <2>1. ASSUME NEW c \in Clients, cpc[c] = "rcv" PROVE starts' # 1
    BY <1>0, <1>1, <2>1 DEF PlaceInv
  <2>2. starts' # 0 /\ made' BY <1>0, <1>1
  <2>3. QED BY <1>0, <2>1, <2>2 DEF PlaceInv
<1>4. GrantInv' BY <1>0, <1>1 DEF GrantInv
<1>5. RangeInv' BY <1>0 DEF RangeInv
<1>6. CounterInv'
  <2>1. PICK base \in [0..MaxStarts -> Nat] : CountsFrom(base) BY DEF CounterInv
  <2>2. PICK b \in [0..MaxStarts -> Nat] : b = [base EXCEPT ![starts + 1] = spent] BY <1>1
  <2>3. \A c \in Clients : b[run[c]] = base[run[c]]
    <3>1. \A c \in Clients : run[c] \in 0..MaxStarts BY DEF BasicType
    <3>2. \A c \in Clients : run[c] # starts + 1 BY <1>1
    <3>3. QED BY <2>2, <3>1, <3>2
  <2>4. b[starts'] = spent BY <1>0, <1>1, <2>2
  <2>5. Congruent(seqNum' + b[starts'], spent)
    BY <1>0, <1>1, <2>4, CongruentSelf
  <2>6. \A k \in 1..Len(queue) : queue[k].mtype # Request => queue[k].mtype \in Clients
    BY QueuedMessage DEF Messages
  <2>7. CountsFrom(b)' BY <1>0, <2>1, <2>3, <2>5, <2>6 DEF CountsFrom, Starts
  <2>8. QED BY <2>7 DEF CounterInv
<1>7. QED BY <1>2, <1>3, <1>4, <1>5, <1>6

\* msgrcv of a request moves the exchange into the server's hands, and the
\* range cut off for it lies above all the others.
LEMMA ServerRcvHolds == ASSUME IInv, ServerRcv PROVE IInv'
<1> USE DEF IInv
<1>1. PICK i \in 1..Len(queue), c \in Clients, n \in Ints :
        /\ c = queue[i].pid /\ n = queue[i].n
        /\ queue[i].mtype = Request /\ spc = "rcv" /\ spc' = "snd"
        /\ queue' = Without(i)
        /\ resp' = [mtype |-> c, pid |-> Request, n |-> seqNum]
        /\ seqNum' = AddInt(seqNum, n) /\ spent' = spent + n
        /\ granted' = [granted EXCEPT ![c] = [at |-> spent, len |-> n]]
        /\ run' = [run EXCEPT ![c] = starts]
        /\ UNCHANGED <<made, starts, cpc, seqLen, got>>
  <2>1. FirstOf(Request) \in 1..Len(queue) /\ queue[FirstOf(Request)].mtype = Request
    BY FirstOfType DEF ServerRcv
  <2>2. queue[FirstOf(Request)].pid \in Clients /\ queue[FirstOf(Request)].n \in Ints
    BY <2>1, QueuedMessage DEF PlaceInv, Owner, Messages
  <2>3. QED BY <2>1, <2>2 DEF ServerRcv, cvars
<1>2. /\ Owner(queue[i]) = c /\ c \in Clients /\ cpc[c] \in {"rcv", "failed"}
      /\ granted[c].len = 0 /\ n = seqLen[c] /\ n > 0 /\ starts \in 0..MaxStarts
      /\ seqNum \in Ints /\ spent \in Nat /\ \A d \in Clients : seqLen[d] \in 0..IntMax
  BY <1>1 DEF PlaceInv, GrantInv, Owner, BasicType
<1>3. n \in 1..IntMax /\ n \in Nat /\ n \in 0..IntMax /\ seqNum \in Int
  BY <1>2, MsgAssumption DEF Ints
<1>4. /\ queue' \in Seq(Messages) /\ Len(queue') <= QMax
      /\ \A j, k \in 1..Len(queue') : Owner(queue'[j]) = Owner(queue'[k]) => j = k
      /\ \A k \in 1..Len(queue') :
           /\ \E o \in 1..Len(queue) : o # i /\ queue'[k] = queue[o]
           /\ Owner(queue'[k]) # Owner(queue[i])
      /\ \A o \in 1..Len(queue) : o # i => \E k \in 1..Len(queue') : queue'[k] = queue[o]
  BY <1>1, Taken
<1>5. PICK base \in [0..MaxStarts -> Nat] : CountsFrom(base) BY DEF CounterInv
<1>6. base[starts] \in Nat /\ Congruent(seqNum + base[starts], spent)
  BY <1>1, <1>2, <1>5 DEF CountsFrom
<1>7. AddInt(seqNum, n) \in Ints /\ Congruent(AddInt(seqNum, n) + base[starts], spent + n)
  <2>1. seqNum + base[starts] \in Int /\ spent \in Int /\ n \in Int BY <1>2, <1>3, <1>6
  <2>2. Congruent(seqNum + base[starts] + n, spent + n) BY <1>6, <2>1, CongruentShift
  <2>3. seqNum + base[starts] + n = seqNum + n + base[starts] BY <1>3, <1>6
  <2>4. Congruent(seqNum + n + base[starts], spent + n) BY <2>2, <2>3
  <2>5. base[starts] \in Int /\ spent + n \in Int BY <1>6, <2>1
  <2>6. QED BY <1>2, <1>3, <2>4, <2>5, AddIntCongruent
<1>8. /\ granted'[c] = [at |-> spent, len |-> n] /\ run'[c] = starts
      /\ \A d \in Clients : d # c => granted'[d] = granted[d] /\ run'[d] = run[d]
  BY <1>1, <1>2 DEF BasicType
<1>9. resp'.mtype = c /\ resp'.n = seqNum BY <1>1
<1>10. BasicType'
  <2>1. granted' \in [Clients -> [at : Nat, len : 0..IntMax]]
    BY <1>1, <1>2, <1>3 DEF BasicType
  <2>2. run' \in [Clients -> 0..MaxStarts] BY <1>1, <1>2 DEF BasicType
  <2>3. resp' \in [mtype : Clients \cup {Request}, pid : {Request}, n : Ints]
    BY <1>1, <1>2
  <2>4. spent' \in Nat BY <1>1, <1>2, <1>3
  <2>5. QED BY <1>1, <1>4, <1>7, <2>1, <2>2, <2>3, <2>4 DEF BasicType
<1>11. PlaceInv'
  <2>1. ASSUME NEW k \in 1..Len(queue')
        PROVE  /\ Owner(queue'[k]) \in Clients /\ Owner(queue'[k]) # c
               /\ cpc[Owner(queue'[k])] \in {"rcv", "failed"}
    <3>1. PICK o \in 1..Len(queue) : queue'[k] = queue[o] BY <1>4
    <3>2. QED BY <1>2, <1>4, <3>1 DEF PlaceInv
  <2>2. ASSUME NEW d \in Clients, cpc[d] = "rcv", starts = 1 PROVE UnderWay(d)'
    <3>1. PICK k \in 1..Len(queue) : Owner(queue[k]) = d
      BY <1>1, <2>2 DEF PlaceInv, UnderWay
    <3>2. CASE k = i BY <1>1, <1>2, <1>9, <3>1, <3>2 DEF UnderWay
    <3>3. CASE k # i BY <1>4, <3>1, <3>3 DEF UnderWay
    <3>4. QED BY <3>2, <3>3
  <2>3. QED BY <1>1, <1>2, <1>4, <1>9, <2>1, <2>2 DEF PlaceInv
<1>12. GrantInv'
  <2>1. ASSUME NEW k \in 1..Len(queue'), queue'[k].mtype = Request
        PROVE  /\ granted'[queue'[k].pid].len = 0
               /\ queue'[k].n = seqLen[queue'[k].pid] /\ queue'[k].n > 0
    <3>1. PICK o \in 1..Len(queue) : queue'[k] = queue[o] BY <1>4
    <3>2. queue'[k].pid # c /\ queue'[k].pid \in Clients
      <4>1. Owner(queue'[k]) = queue'[k].pid BY <2>1 DEF Owner
      <4>2. Owner(queue'[k]) # c BY <1>2, <1>4
      <4>3. Owner(queue'[k]) \in Clients BY <3>1 DEF PlaceInv
      <4>4. QED BY <4>1, <4>2, <4>3
    <3>3. QED BY <1>8, <2>1, <3>1, <3>2 DEF GrantInv
  <2>2. starts <= starts BY <1>2
  <2>3. QED BY <1>1, <1>2, <1>8, <2>1, <2>2 DEF GrantInv
<1>13. RangeInv'
  <2>1. ASSUME NEW d \in Clients
        PROVE  granted[d].at \in Nat /\ granted[d].len \in Nat
    <3>1. granted[d] \in [at : Nat, len : 0..IntMax] BY DEF BasicType
    <3>2. QED BY <3>1
  <2>2. ASSUME NEW d \in Clients, granted[d].len # 0
        PROVE  granted[d].at + granted[d].len <= spent
    BY <2>2 DEF RangeInv
  <2>3. granted'[c].at = spent /\ granted'[c].len = n BY <1>8
  <2>4. spent' = spent + n BY <1>1
  <2>5. ASSUME NEW d \in Clients, granted'[d].len # 0
        PROVE  granted'[d].at + granted'[d].len <= spent'
    <3>1. CASE d = c BY <1>2, <1>3, <2>3, <2>4, <3>1
    <3>2. CASE d # c
      <4>1. granted'[d].at = granted[d].at /\ granted'[d].len = granted[d].len
        BY <1>8, <3>2
      <4>2. granted[d].at + granted[d].len <= spent BY <2>2, <2>5, <4>1
      <4>3. granted[d].at \in Nat /\ granted[d].len \in Nat BY <2>1
      <4>4. spent \in Nat /\ n \in Nat BY <1>2, <1>3
      <4>5. granted[d].at + granted[d].len <= spent + n BY <4>2, <4>3, <4>4
      <4>6. QED BY <2>4, <4>1, <4>5
    <3>3. QED BY <3>1, <3>2
  <2>6. ASSUME NEW d \in Clients, NEW e \in Clients, d # e,
               granted'[d].len # 0, granted'[e].len # 0
        PROVE  \/ granted'[d].at + granted'[d].len <= granted'[e].at
               \/ granted'[e].at + granted'[e].len <= granted'[d].at
    BY <1>8, <2>2, <2>3, <2>6 DEF RangeInv
  <2>7. QED BY <2>5, <2>6 DEF RangeInv
<1>14. CounterInv'
  <2>1. ASSUME NEW k \in 1..Len(queue'), queue'[k].mtype # Request
        PROVE  Starts(queue[k].mtype, queue[k].n, base)'
    <3>1. PICK o \in 1..Len(queue) : queue'[k] = queue[o] BY <1>4
    <3>2. queue'[k].mtype # c /\ queue'[k].mtype \in Clients
      <4>1. Owner(queue'[k]) = queue'[k].mtype BY <2>1 DEF Owner
      <4>2. Owner(queue'[k]) # c BY <1>2, <1>4
      <4>3. Owner(queue'[k]) \in Clients BY <3>1 DEF PlaceInv
      <4>4. QED BY <4>1, <4>2, <4>3
    <3>3. Starts(queue[o].mtype, queue[o].n, base) BY <1>5, <2>1, <3>1 DEF CountsFrom
    <3>4. QED BY <1>1, <1>8, <3>1, <3>2, <3>3 DEF Starts
  <2>2. Starts(resp.mtype, resp.n, base)'
    BY <1>1, <1>2, <1>6, <1>8, <1>9 DEF Starts
  <2>3. ASSUME NEW d \in Clients, cpc'[d] = "done" PROVE Starts(d, got[d], base)'
    <3>1. d # c BY <1>1, <1>2, <2>3
    <3>2. Starts(d, got[d], base) BY <1>1, <1>5, <2>3 DEF CountsFrom
    <3>3. QED BY <1>1, <1>8, <3>1, <3>2 DEF Starts
  <2>4. Congruent(seqNum' + base[starts'], spent')
    BY <1>1, <1>7
  <2>5. CountsFrom(base)' BY <2>1, <2>2, <2>3, <2>4 DEF CountsFrom
  <2>6. QED BY <2>5 DEF CounterInv
<1>15. QED BY <1>10, <1>11, <1>12, <1>13, <1>14

\* msgsnd moves the exchange back into the queue.
LEMMA ServerSndKeeps == ASSUME IInv, ServerSnd PROVE IInv'
<1> USE DEF IInv
<1>0. /\ spc = "snd" /\ Fits /\ spc' = "rcv" /\ queue' = Append(queue, resp)
      /\ UNCHANGED <<made, seqNum, resp, starts, cpc, seqLen, got, spent, granted, run>>
  BY DEF ServerSnd, cvars, history
<1>1. /\ resp \in Messages /\ resp.mtype \in Clients /\ resp.mtype # Request
      /\ Owner(resp) = resp.mtype /\ cpc[resp.mtype] \in {"rcv", "failed"}
      /\ \A k \in 1..Len(queue) : Owner(queue[k]) # Owner(resp)
  BY <1>0, MsgAssumption DEF BasicType, PlaceInv, Messages, Owner
<1>2. /\ queue' \in Seq(Messages) /\ Len(queue') <= QMax
      /\ \A j, k \in 1..Len(queue') : Owner(queue'[j]) = Owner(queue'[k]) => j = k
      /\ \A k \in 1..Len(queue') :
           queue'[k] = resp \/ \E o \in 1..Len(queue) : queue'[k] = queue[o]
      /\ \A o \in 1..Len(queue) : \E k \in 1..Len(queue') : queue'[k] = queue[o]
      /\ \E k \in 1..Len(queue') : queue'[k] = resp
  BY <1>0, <1>1, Sent
<1>3. BasicType' BY <1>0, <1>2 DEF BasicType
<1>4. PlaceInv'
  <2>1. \A k \in 1..Len(queue') :
           /\ Owner(queue'[k]) \in Clients
           /\ cpc[Owner(queue'[k])] \in {"rcv", "failed"}
    BY <1>1, <1>2 DEF PlaceInv
  <2>2. ASSUME NEW d \in Clients, cpc[d] = "rcv", starts = 1 PROVE UnderWay(d)'
    BY <1>0, <1>1, <1>2, <2>2 DEF PlaceInv, UnderWay
  <2>3. QED BY <1>0, <1>2, <2>1, <2>2 DEF PlaceInv
<1>5. GrantInv'
  <2>1. ASSUME NEW k \in 1..Len(queue'), queue'[k].mtype = Request
        PROVE  /\ granted[queue'[k].pid].len = 0
               /\ queue'[k].n = seqLen[queue'[k].pid] /\ queue'[k].n > 0
    BY <1>1, <1>2, <2>1 DEF GrantInv
  <2>2. QED BY <1>0, <2>1 DEF GrantInv
<1>6. RangeInv' BY <1>0 DEF RangeInv
<1>7. CounterInv'
  <2>1. PICK base \in [0..MaxStarts -> Nat] : CountsFrom(base) BY DEF CounterInv
  <2>2. ASSUME NEW k \in 1..Len(queue'), queue'[k].mtype # Request
        PROVE  Starts(queue'[k].mtype, queue'[k].n, base)
    BY <1>0, <1>2, <2>1, <2>2 DEF CountsFrom
  <2>3. CountsFrom(base)' BY <1>0, <2>1, <2>2 DEF CountsFrom, Starts
  <2>4. QED BY <2>3 DEF CounterInv
<1>8. QED BY <1>3, <1>4, <1>5, <1>6, <1>7

LEMMA KillServerKeeps == ASSUME IInv, KillServer PROVE IInv'
<1> USE DEF IInv
<1>0. /\ spc' = "off"
      /\ UNCHANGED <<made, queue, seqNum, resp, starts, cpc, seqLen, got, spent, granted, run>>
  BY DEF KillServer, cvars, history
<1>1. BasicType' BY <1>0 DEF BasicType
<1>2. PlaceInv' BY <1>0 DEF PlaceInv
<1>3. GrantInv' /\ RangeInv' BY <1>0 DEF GrantInv, RangeInv
<1>4. CounterInv' BY <1>0 DEF CounterInv, CountsFrom, Starts
<1>5. QED BY <1>1, <1>2, <1>3, <1>4

LEMMA ClientStartKeeps ==
  ASSUME IInv, NEW c \in Clients, NEW n \in SeqLens, ClientStart(c, n)
  PROVE  IInv'
<1> USE DEF IInv
<1>0. /\ cpc[c] = "start"
      /\ cpc' = [cpc EXCEPT ![c] = IF made THEN "snd" ELSE "failed"]
      /\ seqLen' = [seqLen EXCEPT ![c] = n]
      /\ UNCHANGED <<made, queue, spc, seqNum, resp, starts, got, spent, granted, run>>
  BY DEF ClientStart, svars, history
<1>1. n \in 1..IntMax /\ n \in 0..IntMax /\ n > 0 BY MsgAssumption
<1>2. /\ \A k \in 1..Len(queue) : Owner(queue[k]) \in Clients /\ Owner(queue[k]) # c
      /\ spc = "snd" => resp.mtype \in Clients /\ resp.mtype # c
      /\ granted[c].len = 0
  BY <1>0 DEF PlaceInv, GrantInv
<1>3. /\ \A d \in Clients : d # c => cpc'[d] = cpc[d] /\ seqLen'[d] = seqLen[d]
      /\ cpc'[c] = (IF made THEN "snd" ELSE "failed") /\ seqLen'[c] = n
  BY <1>0 DEF BasicType
<1>4. BasicType'
  <2>1. seqLen' \in [Clients -> 0..IntMax] BY <1>0, <1>1 DEF BasicType
  <2>2. cpc' \in [Clients -> {"start", "snd", "rcv", "done", "failed"}] BY <1>0 DEF BasicType
  <2>3. QED BY <1>0, <2>1, <2>2 DEF BasicType
<1>5. PlaceInv'
  <2>1. ASSUME NEW d \in Clients, cpc'[d] = "rcv", starts = 1, spc # "off" PROVE UnderWay(d)'
    BY <1>0, <1>3, <2>1 DEF PlaceInv, UnderWay
  <2>2. QED BY <1>0, <1>2, <1>3, <2>1 DEF PlaceInv
<1>6. GrantInv'
  <2>1. ASSUME NEW k \in 1..Len(queue), queue[k].mtype = Request
        PROVE  queue[k].pid \in Clients /\ queue[k].pid # c
    BY <1>2, <2>1 DEF Owner
  <2>2. QED BY <1>0, <1>1, <1>2, <1>3, <2>1 DEF GrantInv
<1>7. RangeInv' BY <1>0 DEF RangeInv
<1>8. CounterInv'
  <2>1. PICK base \in [0..MaxStarts -> Nat] : CountsFrom(base) BY DEF CounterInv
  <2>2. ASSUME NEW k \in 1..Len(queue), queue[k].mtype # Request
        PROVE  queue[k].mtype \in Clients /\ queue[k].mtype # c
    BY <1>2, <2>2 DEF Owner
  <2>3. CountsFrom(base)' BY <1>0, <1>2, <1>3, <2>1, <2>2 DEF CountsFrom, Starts
  <2>4. QED BY <2>3 DEF CounterInv
<1>9. QED BY <1>4, <1>5, <1>6, <1>7, <1>8

\* The request of a client is not in the queue before it sends it.
LEMMA ClientSndKeeps == ASSUME IInv, NEW c \in Clients, ClientSnd(c) PROVE IInv'
<1> USE DEF IInv
<1> DEFINE m == [mtype |-> Request, pid |-> c, n |-> seqLen[c]]
<1>0. /\ cpc[c] = "snd" /\ Fits /\ queue' = Append(queue, m)
      /\ cpc' = [cpc EXCEPT ![c] = "rcv"]
      /\ UNCHANGED <<made, spc, seqNum, resp, starts, seqLen, got, spent, granted, run>>
  BY DEF ClientSnd, svars, history
<1>1. /\ \A k \in 1..Len(queue) : Owner(queue[k]) \in Clients /\ Owner(queue[k]) # c
      /\ spc = "snd" => resp.mtype \in Clients /\ resp.mtype # c
      /\ granted[c].len = 0 /\ seqLen[c] > 0
  BY <1>0 DEF PlaceInv, GrantInv
<1>2. /\ m \in Messages /\ Owner(m) = c /\ m.mtype = Request /\ m.pid = c /\ m.n = seqLen[c]
  <2>1. seqLen[c] \in Ints BY MsgAssumption DEF BasicType, Ints
  <2>2. QED BY <2>1 DEF Messages, Owner
<1> HIDE DEF m
<1>3. /\ queue' \in Seq(Messages) /\ Len(queue') <= QMax
      /\ \A j, k \in 1..Len(queue') : Owner(queue'[j]) = Owner(queue'[k]) => j = k
      /\ \A k \in 1..Len(queue') :
           queue'[k] = m \/ \E o \in 1..Len(queue) : queue'[k] = queue[o]
      /\ \A o \in 1..Len(queue) : \E k \in 1..Len(queue') : queue'[k] = queue[o]
      /\ \E k \in 1..Len(queue') : queue'[k] = m
  BY <1>0, <1>1, <1>2, Sent
<1>4. /\ \A d \in Clients : d # c => cpc'[d] = cpc[d]
      /\ cpc'[c] = "rcv" /\ made
  BY <1>0 DEF BasicType, PlaceInv
<1>5. BasicType'
  <2>1. cpc' \in [Clients -> {"start", "snd", "rcv", "done", "failed"}] BY <1>0 DEF BasicType
  <2>2. QED BY <1>0, <1>3, <2>1 DEF BasicType
<1>6. PlaceInv'
  <2>1. \A k \in 1..Len(queue') :
           /\ Owner(queue'[k]) \in Clients
           /\ cpc'[Owner(queue'[k])] \in {"rcv", "failed"}
           /\ spc = "snd" => Owner(queue'[k]) # resp.mtype
    <3> SUFFICES ASSUME NEW k \in 1..Len(queue')
                 PROVE  /\ Owner(queue'[k]) \in Clients
                        /\ cpc'[Owner(queue'[k])] \in {"rcv", "failed"}
                        /\ spc = "snd" => Owner(queue'[k]) # resp.mtype
      OBVIOUS
    <3>1. CASE queue'[k] = m BY <1>1, <1>2, <1>4, <3>1
    <3>2. ASSUME NEW o \in 1..Len(queue), queue'[k] = queue[o]
          PROVE  /\ Owner(queue'[k]) \in Clients
                 /\ cpc'[Owner(queue'[k])] \in {"rcv", "failed"}
                 /\ spc = "snd" => Owner(queue'[k]) # resp.mtype
      <4>1. /\ Owner(queue[o]) \in Clients
            /\ cpc[Owner(queue[o])] \in {"rcv", "failed"}
            /\ spc = "snd" => Owner(queue[o]) # resp.mtype
        BY DEF PlaceInv
      <4>2. QED BY <1>4, <3>2, <4>1
    <3>3. QED BY <1>3, <3>1, <3>2
  <2>2. ASSUME NEW d \in Clients, cpc'[d] = "rcv", starts = 1, spc # "off" PROVE UnderWay(d)'
    BY <1>0, <1>2, <1>3, <1>4, <2>2 DEF PlaceInv, UnderWay
  <2>3. spc = "snd" => resp.mtype \in Clients /\ cpc'[resp.mtype] \in {"rcv", "failed"}
    BY <1>1, <1>4 DEF PlaceInv
  <2>4. starts # 0 /\ made' BY <1>0, <1>4 DEF PlaceInv
  <2>5. UNCHANGED <<made, spc, resp, starts>> BY <1>0
  <2>6. \A j, k \in 1..Len(queue') : Owner(queue'[j]) = Owner(queue'[k]) => j = k
    BY <1>3
  <2>7. QED BY <2>1, <2>2, <2>3, <2>4, <2>5, <2>6 DEF PlaceInv
<1>7. GrantInv'
  <2>1. ASSUME NEW k \in 1..Len(queue'), queue'[k].mtype = Request
        PROVE  /\ granted[queue'[k].pid].len = 0
               /\ queue'[k].n = seqLen[queue'[k].pid] /\ queue'[k].n > 0
    <3>1. CASE queue'[k] = m BY <1>1, <1>2, <3>1
    <3>2. ASSUME NEW o \in 1..Len(queue), queue'[k] = queue[o]
          PROVE  /\ granted[queue[o].pid].len = 0
                 /\ queue[o].n = seqLen[queue[o].pid] /\ queue[o].n > 0
      BY <2>1, <3>2 DEF GrantInv
    <3>3. QED BY <1>3, <3>1, <3>2
  <2>2. QED BY <1>0, <1>1, <1>4, <2>1 DEF GrantInv
<1>8. RangeInv' BY <1>0 DEF RangeInv
<1>9. CounterInv'
  <2>1. PICK base \in [0..MaxStarts -> Nat] : CountsFrom(base) BY DEF CounterInv
  <2>2. ASSUME NEW k \in 1..Len(queue'), queue'[k].mtype # Request
        PROVE  Starts(queue'[k].mtype, queue'[k].n, base)
    BY <1>2, <1>3, <2>1, <2>2 DEF CountsFrom
  <2>3. CountsFrom(base)' BY <1>0, <1>4, <2>1, <2>2 DEF CountsFrom, Starts
  <2>4. QED BY <2>3 DEF CounterInv
<1>10. QED BY <1>5, <1>6, <1>7, <1>8, <1>9

\* msgrcv with the client's own type takes the response made for it.
LEMMA ClientRcvKeeps == ASSUME IInv, NEW c \in Clients, ClientRcv(c) PROVE IInv'
<1> USE DEF IInv
<1>1. PICK i \in 1..Len(queue) :
        /\ queue[i].mtype = c /\ cpc[c] = "rcv"
        /\ got' = [got EXCEPT ![c] = queue[i].n]
        /\ queue' = Without(i)
        /\ cpc' = [cpc EXCEPT ![c] = "done"]
        /\ UNCHANGED <<made, spc, seqNum, resp, starts, seqLen, spent, granted, run>>
  <2>1. FirstOf(c) \in 1..Len(queue) /\ queue[FirstOf(c)].mtype = c
    BY FirstOfType DEF ClientRcv
  <2>2. QED BY <2>1 DEF ClientRcv, svars, history
<1>2. /\ Owner(queue[i]) = c /\ queue[i].mtype # Request /\ queue[i].n \in Ints
      /\ spc = "snd" => resp.mtype # c /\ resp.mtype \in Clients
  BY <1>1, MsgAssumption, QueuedMessage DEF PlaceInv, Owner, Messages
<1>3. /\ queue' \in Seq(Messages) /\ Len(queue') <= QMax
      /\ \A j, k \in 1..Len(queue') : Owner(queue'[j]) = Owner(queue'[k]) => j = k
      /\ \A k \in 1..Len(queue') :
           /\ \E o \in 1..Len(queue) : o # i /\ queue'[k] = queue[o]
           /\ Owner(queue'[k]) # Owner(queue[i])
      /\ \A o \in 1..Len(queue) : o # i => \E k \in 1..Len(queue') : queue'[k] = queue[o]
  BY <1>1, Taken
<1>4. /\ cpc'[c] = "done" /\ got'[c] = queue[i].n
      /\ \A d \in Clients : d # c => cpc'[d] = cpc[d] /\ got'[d] = got[d]
  BY <1>1 DEF BasicType
<1>5. BasicType'
  <2>1. cpc' \in [Clients -> {"start", "snd", "rcv", "done", "failed"}] BY <1>1 DEF BasicType
  <2>2. got' \in [Clients -> Ints] BY <1>1, <1>2 DEF BasicType
  <2>3. QED BY <1>1, <1>3, <2>1, <2>2 DEF BasicType
<1>6. PlaceInv'
  <2>1. ASSUME NEW k \in 1..Len(queue')
        PROVE  /\ Owner(queue'[k]) \in Clients /\ cpc'[Owner(queue'[k])] \in {"rcv", "failed"}
               /\ spc = "snd" => Owner(queue'[k]) # resp.mtype
    <3>1. PICK o \in 1..Len(queue) : queue'[k] = queue[o] BY <1>3
    <3>2. Owner(queue[o]) # c BY <1>2, <1>3, <3>1
    <3>3. /\ Owner(queue[o]) \in Clients /\ cpc[Owner(queue[o])] \in {"rcv", "failed"}
          /\ spc = "snd" => Owner(queue[o]) # resp.mtype
      BY DEF PlaceInv
    <3>4. QED BY <1>4, <3>1, <3>2, <3>3
  <2>2. ASSUME NEW d \in Clients, cpc'[d] = "rcv", starts = 1, spc # "off" PROVE UnderWay(d)'
    <3>1. d # c /\ cpc[d] = "rcv" BY <1>4, <2>2
    <3>2. CASE spc = "snd" /\ resp.mtype = d BY <1>1, <3>2 DEF UnderWay
    <3>3. CASE \E k \in 1..Len(queue) : Owner(queue[k]) = d
      <4>1. PICK k \in 1..Len(queue) : Owner(queue[k]) = d BY <3>3
      <4>2. k # i BY <1>2, <3>1, <4>1
      <4>3. QED BY <1>3, <4>1, <4>2 DEF UnderWay
    <3>4. QED BY <2>2, <3>1, <3>2, <3>3 DEF PlaceInv, UnderWay
  <2>3. spc = "snd" => resp.mtype \in Clients /\ cpc'[resp.mtype] \in {"rcv", "failed"}
    BY <1>2, <1>4 DEF PlaceInv
  <2>4. starts # 0 /\ made' BY <1>1 DEF PlaceInv
  <2>5. QED BY <1>1, <1>3, <2>1, <2>2, <2>3, <2>4 DEF PlaceInv
<1>7. GrantInv'
  <2>1. ASSUME NEW k \in 1..Len(queue'), queue'[k].mtype = Request
        PROVE  /\ granted[queue'[k].pid].len = 0
               /\ queue'[k].n = seqLen[queue'[k].pid] /\ queue'[k].n > 0
    <3>1. PICK o \in 1..Len(queue) : queue'[k] = queue[o] BY <1>3
    <3>2. QED BY <2>1, <3>1 DEF GrantInv
  <2>2. QED BY <1>1, <1>4, <2>1 DEF GrantInv
<1>8. RangeInv' BY <1>1 DEF RangeInv
<1>9. CounterInv'
  <2>1. PICK base \in [0..MaxStarts -> Nat] : CountsFrom(base) BY DEF CounterInv
  <2>2. ASSUME NEW k \in 1..Len(queue'), queue'[k].mtype # Request
        PROVE  Starts(queue'[k].mtype, queue'[k].n, base)
    <3>1. PICK o \in 1..Len(queue) : queue'[k] = queue[o] BY <1>3
    <3>2. Starts(queue[o].mtype, queue[o].n, base) BY <2>1, <2>2, <3>1 DEF CountsFrom
    <3>3. QED BY <3>1, <3>2
  <2>3. Starts(c, queue[i].n, base) BY <1>1, <1>2, <2>1 DEF CountsFrom
  <2>4. CountsFrom(base)' BY <1>1, <1>4, <2>1, <2>2, <2>3 DEF CountsFrom, Starts
  <2>5. QED BY <2>4 DEF CounterInv
<1>10. QED BY <1>5, <1>6, <1>7, <1>8, <1>9

\* A dead client's messages stay where they are.
LEMMA KillClientKeeps == ASSUME IInv, NEW c \in Clients, KillClient(c) PROVE IInv'
<1> USE DEF IInv
<1>0. /\ cpc[c] \in {"snd", "rcv"} /\ cpc' = [cpc EXCEPT ![c] = "failed"]
      /\ UNCHANGED <<made, queue, spc, seqNum, resp, starts, seqLen, got, spent, granted, run>>
  BY DEF KillClient, svars, history
<1>1. cpc'[c] = "failed" /\ \A d \in Clients : d # c => cpc'[d] = cpc[d]
  BY <1>0 DEF BasicType
<1>2. BasicType'
  <2>1. cpc' \in [Clients -> {"start", "snd", "rcv", "done", "failed"}] BY <1>0 DEF BasicType
  <2>2. QED BY <1>0, <2>1 DEF BasicType
<1>3. PlaceInv'
  <2>1. ASSUME NEW d \in Clients, cpc'[d] = "rcv", starts = 1, spc # "off" PROVE UnderWay(d)'
    BY <1>0, <1>1, <2>1 DEF PlaceInv, UnderWay
  <2>2. QED BY <1>0, <1>1, <2>1 DEF PlaceInv
<1>4. GrantInv' BY <1>0, <1>1 DEF GrantInv
<1>5. RangeInv' BY <1>0 DEF RangeInv
<1>6. CounterInv'
  <2>1. PICK base \in [0..MaxStarts -> Nat] : CountsFrom(base) BY DEF CounterInv
  <2>2. CountsFrom(base)' BY <1>0, <1>1, <2>1 DEF CountsFrom, Starts
  <2>3. QED BY <2>2 DEF CounterInv
<1>7. QED BY <1>2, <1>3, <1>4, <1>5, <1>6

\* One step of anybody.
LEMMA Step == IInv /\ [Next]_vars => IInv'
<1> SUFFICES ASSUME IInv, [Next]_vars PROVE IInv' OBVIOUS
<1>1. CASE ServerStart BY <1>1, ServerStartKeeps
<1>2. CASE ServerStep BY <1>2, ServerRcvHolds, ServerSndKeeps DEF ServerStep
<1>3. CASE KillServer BY <1>3, KillServerKeeps
<1>4. ASSUME NEW c \in Clients, NEW n \in SeqLens, ClientStart(c, n) PROVE IInv'
  BY <1>4, ClientStartKeeps
<1>5. ASSUME NEW c \in Clients, ClientSnd(c) \/ ClientRcv(c) \/ KillClient(c) PROVE IInv'
  BY <1>5, ClientSndKeeps, ClientRcvKeeps, KillClientKeeps
<1>6. CASE UNCHANGED vars
  <2> USE <1>6 DEF IInv, vars, svars, cvars, history
  <2>1. BasicType' BY DEF BasicType
  <2>2. PlaceInv' BY DEF PlaceInv, UnderWay
  <2>3. GrantInv' /\ RangeInv' BY DEF GrantInv, RangeInv
  <2>4. CounterInv' BY DEF CounterInv, CountsFrom, Starts
  <2>5. QED BY <2>1, <2>2, <2>3, <2>4
<1>7. QED BY <1>1, <1>2, <1>3, <1>4, <1>5, <1>6 DEF Next

LEMMA Invariance == Spec => []IInv
<1>1. QED BY Initial, Step, PTL DEF Spec

----------------------------------------------------------------------------
(* What the service is for.                                                *)

\* Message k is the exchange of client c, and there is no other.
LEMMA OneMessage ==
  ASSUME IInv, NEW c \in Clients, NEW k \in 1..Len(queue), Owner(queue[k]) = c
  PROVE  InFlight(c) = 1
<1> USE DEF IInv
<1> DEFINE A == {i \in OfType(Request) : queue[i].pid = c}
           B == OfType(c)
<1>1. \A i \in 1..Len(queue) : Owner(queue[i]) = c => i = k BY DEF PlaceInv
<1>2. ~(spc = "snd" /\ resp.mtype = c) BY DEF PlaceInv
<1>3. c # Request BY MsgAssumption
<1>4. CASE queue[k].mtype = Request
  <2>1. A = {k} /\ B = {} BY <1>1, <1>3, <1>4 DEF Owner, OfType
  <2>2. Cardinality(A) = 1 /\ Cardinality(B) = 0 BY <2>1, FS_Singleton, FS_EmptySet
  <2>3. QED BY <1>2, <2>2 DEF InFlight
<1>5. CASE queue[k].mtype # Request
  <2>1. A = {} /\ B = {k} BY <1>1, <1>3, <1>5 DEF Owner, OfType
  <2>2. Cardinality(A) = 0 /\ Cardinality(B) = 1 BY <2>1, FS_Singleton, FS_EmptySet
  <2>3. QED BY <1>2, <2>2 DEF InFlight
<1>6. QED BY <1>4, <1>5

\* Whoever is killed, an exchange is in at most one place, and as long as the
\* first run of svmsg_seqnum_server lasts a waiting client's is in exactly one.
THEOREM OnePlace == Spec => []QueueInv
<1>1. IInv => QueueInv
  <2> SUFFICES ASSUME IInv PROVE QueueInv OBVIOUS
  <2> USE DEF IInv
  <2>1. TypeOK BY QueuedMessage DEF BasicType, TypeOK, Messages
  <2>2. ASSUME NEW c \in Clients
        PROVE  /\ UnderWay(c) => InFlight(c) = 1
               /\ ~UnderWay(c) => InFlight(c) = 0
    <3>1. CASE \E k \in 1..Len(queue) : Owner(queue[k]) = c
      BY <3>1, OneMessage DEF UnderWay
    <3>2. CASE \A k \in 1..Len(queue) : Owner(queue[k]) # c
      <4> DEFINE A == {i \in OfType(Request) : queue[i].pid = c}
                 B == OfType(c)
      <4>1. A = {} /\ B = {} BY <3>2, MsgAssumption DEF Owner, OfType
      <4>2. Cardinality(A) = 0 /\ Cardinality(B) = 0 BY <4>1, FS_EmptySet
      <4>3. InFlight(c) = IF spc = "snd" /\ resp.mtype = c THEN 1 ELSE 0
        BY <4>2 DEF InFlight
      <4>4. QED BY <3>2, <4>3 DEF UnderWay
    <3>3. QED BY <3>1, <3>2
  <2>3. OneInFlight BY <2>2 DEF OneInFlight, PlaceInv
  <2>4. QED BY <2>1, <2>3 DEF QueueInv
<1>2. QED BY <1>1, Invariance, PTL

\* A number x is told for the start of a range that lies below the modulus;
\* the k-th number after x is then the k-th of the range.
LEMMA InRange ==
  ASSUME NEW x \in Int, NEW at \in Nat, NEW len \in Nat, NEW k \in Nat, k < len,
         at + len <= Modulus, Congruent(x, at)
  PROVE  (x + k) % Modulus \in at .. at + len - 1
<1>1. Modulus \in Nat \ {0} BY ModulusType
<1> DEFINE g == x + k
           a == at + k
<1>2. g \in Int /\ a \in Int /\ g - a = x - at OBVIOUS
<1>3. a \in 0..Modulus - 1 BY <1>1
<1>4. (g - a) % Modulus = 0 BY <1>2 DEF Congruent
<1>5. a \in at .. at + len - 1 OBVIOUS
<1> HIDE DEF g, a
<1>6. g % Modulus = a % Modulus BY <1>1, <1>2, <1>4, SameRemainder
<1>7. a % Modulus = a BY <1>1, <1>3
<1>8. g % Modulus \in at .. at + len - 1 BY <1>5, <1>6, <1>7
<1>9. QED BY <1>8 DEF g

\* The numbers a client was told are those of its range, counted from the
\* start of the run of the server that served it.
LEMMA NumbersInRange ==
  ASSUME IInv, spent <= Modulus, NEW c \in Clients, cpc[c] = "done",
         NEW base \in [0..MaxStarts -> Nat], CountsFrom(base),
         NEW i \in 0..seqLen[c] - 1
  PROVE  /\ granted[c].len # 0 /\ got[c] + i \in Int /\ base[run[c]] \in Int
         /\ (got[c] + i + base[run[c]]) % Modulus
               \in granted[c].at .. granted[c].at + granted[c].len - 1
<1> DEFINE at == granted[c].at
           len == granted[c].len
           b == base[run[c]]
           g == got[c]
<1>1. len = seqLen[c] /\ Congruent(g + b, at)
  BY DEF CountsFrom, Starts
<1>2. g \in Int
  <2>1. got[c] \in Ints BY DEF IInv, BasicType
  <2>2. QED BY <2>1, MsgAssumption DEF Ints
<1>3. b \in Nat
  <2>1. run[c] \in 0..MaxStarts BY DEF IInv, BasicType
  <2>2. QED BY <2>1
<1>4. at \in Nat /\ len \in Nat
  <2>1. granted[c] \in [at : Nat, len : 0..IntMax] BY DEF IInv, BasicType
  <2>2. QED BY <2>1
<1>5. len # 0 => at + len <= spent
  BY DEF IInv, RangeInv
<1>6. spent \in Nat /\ Modulus \in Nat BY ModulusType DEF IInv, BasicType
<1>7. i \in 0..len - 1 BY <1>1
<1> HIDE DEF at, len, b, g
<1>8. i \in Nat /\ i < len /\ len # 0 /\ at + len <= Modulus
  BY <1>4, <1>5, <1>6, <1>7
<1>9. g + b \in Int /\ g + i \in Int /\ g + b + i = g + i + b BY <1>2, <1>3, <1>8
<1>10. (g + b + i) % Modulus \in at .. at + len - 1
  BY <1>1, <1>4, <1>8, <1>9, InRange
<1>11. (g + i + b) % Modulus \in at .. at + len - 1 BY <1>9, <1>10
<1>12. QED BY <1>3, <1>8, <1>9, <1>11 DEF at, len, b, g

LEMMA ApartRanges ==
  ASSUME NEW a \in Nat, NEW m \in Nat, NEW b \in Nat, NEW n \in Nat, NEW z \in Int,
         z \in a .. a + m - 1, z \in b .. b + n - 1, a + m <= b \/ b + n <= a
  PROVE  FALSE
OBVIOUS

\* Until the numbers have gone once around, no two clients served by the same
\* run of svmsg_seqnum_server print the same number, whatever an earlier run
\* left in the queue.
THEOREM Disjoint == Spec => []PrintedRangesDisjoint
<1>1. IInv => PrintedRangesDisjoint
  <2> SUFFICES ASSUME IInv, spent <= Modulus, NEW c \in Clients, NEW d \in Clients,
                      cpc[c] = "done", cpc[d] = "done", c # d, run[c] = run[d],
                      NEW i \in 0..seqLen[c] - 1, NEW j \in 0..seqLen[d] - 1,
                      (got[c] + i) % Modulus = (got[d] + j) % Modulus
               PROVE  FALSE
    BY DEF PrintedRangesDisjoint, Numbers
  <2>1. PICK base \in [0..MaxStarts -> Nat] : CountsFrom(base) BY DEF IInv, CounterInv
  <2> DEFINE b == base[run[c]]
             x == got[c] + i
             y == got[d] + j
  <2>2. /\ granted[c].len # 0 /\ x \in Int /\ b \in Int
        /\ (x + b) % Modulus \in granted[c].at .. granted[c].at + granted[c].len - 1
    BY <2>1, NumbersInRange
  <2>3. /\ granted[d].len # 0 /\ y \in Int
        /\ (y + b) % Modulus \in granted[d].at .. granted[d].at + granted[d].len - 1
    BY <2>1, NumbersInRange
  <2>4. x % Modulus = y % Modulus OBVIOUS
  <2> HIDE DEF b, x, y
  <2>5. (x - y) % Modulus = 0 BY <2>2, <2>3, <2>4, ModulusType, MultipleApart
  <2>6. x + b \in Int /\ y + b \in Int /\ (x + b) - (y + b) = x - y BY <2>2, <2>3
  <2>7. (x + b) % Modulus = (y + b) % Modulus BY <2>5, <2>6, ModulusType, SameRemainder
  <2>8. /\ granted[c].at \in Nat /\ granted[c].len \in Nat
        /\ granted[d].at \in Nat /\ granted[d].len \in Nat
    <3>1. /\ granted[c] \in [at : Nat, len : 0..IntMax]
          /\ granted[d] \in [at : Nat, len : 0..IntMax]
      BY DEF IInv, BasicType
    <3>2. QED BY <3>1
  <2>9. \/ granted[c].at + granted[c].len <= granted[d].at
        \/ granted[d].at + granted[d].len <= granted[c].at
    BY <2>2, <2>3 DEF IInv, RangeInv
  <2> DEFINE z == (x + b) % Modulus
  <2>10. /\ z \in granted[c].at .. granted[c].at + granted[c].len - 1
         /\ z \in granted[d].at .. granted[d].at + granted[d].len - 1
    BY <2>2, <2>3, <2>7
  <2>11. z \in Int BY <2>6, ModulusType
  <2> HIDE DEF z
  <2>12. QED BY <2>8, <2>9, <2>10, <2>11, ApartRanges
<1>2. QED BY <1>1, Invariance, PTL

----------------------------------------------------------------------------
(* The refinement.                                                         *)

Queued == {queue[k] : k \in 1..Len(queue)}

LEMMA ResponsesAre ==
  ASSUME NEW d \in Clients, NEW m
  PROVE  m \in Responses(d) <=> m.mtype = d /\ (m \in Queued \/ (spc = "snd" /\ m = resp))
BY DEF Responses, Queued

LEMMA SameResponses ==
  ASSUME NEW d \in Clients,
         \A m : m.mtype = d =>
           ((m \in Queued' \/ (spc' = "snd" /\ m = resp')) <=>
            (m \in Queued \/ (spc = "snd" /\ m = resp)))
  PROVE  Responses(d)' = Responses(d)
BY DEF Responses, Queued

LEMMA SameTicket ==
  ASSUME NEW d \in Clients, Responses(d)' = Responses(d),
         \/ UNCHANGED <<cpc[d], got[d], seqLen[d]>>
         \/ /\ {cpc[d], cpc'[d]} \cap {"done", "failed"} = {}
            /\ Responses(d) = {} \/ seqLen'[d] = seqLen[d]
  PROVE  Ticket(d)' = Ticket(d)
BY DEF Ticket

LEMMA SameTickets ==
  ASSUME \A d \in Clients : Ticket(d)' = Ticket(d)
  PROVE  Tickets' = Tickets
BY DEF Tickets

LEMMA TicketOf == ASSUME NEW c \in Clients PROVE Tickets[c] = Ticket(c)
BY DEF Tickets

LEMMA OneTicket ==
  ASSUME NEW c \in Clients, \A d \in Clients \ {c} : Ticket(d)' = Ticket(d)
  PROVE  Tickets' = [Tickets EXCEPT ![c] = Ticket(c)']
BY DEF Tickets

\* A client with no exchange under way has no response.
LEMMA NoResponse ==
  ASSUME IInv, NEW c \in Clients, cpc[c] \in {"start", "snd"}
  PROVE  Responses(c) = {}
<1>1. c # Request BY MsgAssumption
<1>2. ASSUME NEW m \in Responses(c) PROVE FALSE
  <2>1. m.mtype = c /\ (m \in Queued \/ (spc = "snd" /\ m = resp)) BY <1>2, ResponsesAre
  <2>2. CASE m \in Queued
    BY <1>1, <2>1, <2>2 DEF Queued, IInv, PlaceInv, Owner
  <2>3. CASE spc = "snd" /\ m = resp
    BY <2>1, <2>3 DEF IInv, PlaceInv
  <2>4. QED BY <2>1, <2>2, <2>3
<1>3. QED BY <1>2

\* msgsnd adds its message and leaves the others.
LEMMA QueuedAppend ==
  ASSUME BasicType, NEW m \in Messages, queue' = Append(queue, m)
  PROVE  Queued' = Queued \cup {m}
<1>1. queue \in Seq(Messages) /\ Len(queue) \in Nat
  BY QueuedMessage DEF BasicType
<1>2. /\ Len(queue') = Len(queue) + 1
      /\ \A k \in 1..Len(queue) : queue'[k] = queue[k]
      /\ queue'[Len(queue) + 1] = m
  BY <1>1, AppendProperties
<1>3. /\ \A k \in 1..Len(queue') : k \in 1..Len(queue) \/ k = Len(queue) + 1
      /\ \A k \in 1..Len(queue) : k \in 1..Len(queue')
      /\ Len(queue) + 1 \in 1..Len(queue')
  BY <1>1, <1>2
<1>4. QED BY <1>2, <1>3 DEF Queued

\* msgrcv of a request tells its client what the counter is at, and moves it
\* by the length asked for; for a client that has died it only moves it.
LEMMA RcvAllocates ==
  ASSUME IInv, ServerRcv
  PROVE  Alloc!Next
<1> USE DEF IInv
<1>1. PICK i \in 1..Len(queue), c \in Clients :
        /\ c = queue[i].pid /\ queue[i].mtype = Request /\ spc = "rcv" /\ spc' = "snd"
        /\ queue' = Without(i)
        /\ resp' = [mtype |-> c, pid |-> Request, n |-> seqNum]
        /\ seqNum' = AddInt(seqNum, queue[i].n)
        /\ UNCHANGED <<cpc, seqLen, got>>
  <2>1. FirstOf(Request) \in 1..Len(queue) /\ queue[FirstOf(Request)].mtype = Request
    BY FirstOfType DEF ServerRcv
  <2>2. queue[FirstOf(Request)].pid \in Clients
    BY <2>1 DEF PlaceInv, Owner
  <2>3. QED BY <2>1, <2>2 DEF ServerRcv, cvars
<1>2. /\ Owner(queue[i]) = c /\ cpc[c] \in {"rcv", "failed"} /\ c # Request
      /\ queue[i].n = seqLen[c] /\ seqLen[c] \in 1..IntMax
  <2>1. Owner(queue[i]) = c /\ c # Request BY <1>1, MsgAssumption DEF Owner
  <2>2. cpc[c] \in {"rcv", "failed"} BY <2>1 DEF PlaceInv
  <2>3. queue[i].n = seqLen[c] /\ queue[i].n > 0 BY <1>1 DEF GrantInv
  <2>4. seqLen[c] \in 0..IntMax BY DEF BasicType
  <2>5. seqLen[c] \in 1..IntMax BY <2>3, <2>4, MsgAssumption
  <2>6. QED BY <2>1, <2>2, <2>3, <2>5
<1>3. /\ \A k \in 1..Len(queue') :
           /\ \E o \in 1..Len(queue) : o # i /\ queue'[k] = queue[o]
           /\ Owner(queue'[k]) # Owner(queue[i])
      /\ \A o \in 1..Len(queue) : o # i => \E k \in 1..Len(queue') : queue'[k] = queue[o]
  BY <1>1, Taken
<1>4. \A d \in Clients \ {c} : Ticket(d)' = Ticket(d)
  <2> TAKE d \in Clients \ {c}
  <2>1. d # Request /\ queue[i].mtype # d BY <1>1, MsgAssumption
  <2>2. Responses(d)' = Responses(d)
    BY <1>1, <1>3, <2>1, SameResponses DEF Queued
  <2>3. QED BY <1>1, <2>2, SameTicket
<1>5. Responses(c) = {}
  <2>1. ASSUME NEW m \in Responses(c) PROVE FALSE
    <3>1. m.mtype = c /\ m \in Queued BY <1>1, <2>1, ResponsesAre
    <3>2. PICK o \in 1..Len(queue) : m = queue[o] BY <3>1 DEF Queued
    <3>3. Owner(queue[o]) = c /\ o # i BY <1>1, <1>2, <3>1, <3>2 DEF Owner
    <3>4. QED BY <1>2, <3>3 DEF PlaceInv
  <2>2. QED BY <2>1
<1>6. Responses(c)' = {resp'}
  <2>1. \A m \in Queued' : m.mtype # c BY <1>2, <1>3 DEF Queued, Owner
  <2>2. resp'.mtype = c BY <1>1
  <2>3. QED BY <1>1, <2>1, <2>2 DEF Responses, Queued
<1>7. Counter = seqNum /\ Counter' = Alloc!AddInt(Counter, seqLen[c])
  BY <1>1, <1>2 DEF Counter, AddInt, Modulus, Alloc!AddInt, Alloc!Modulus
<1>8. CASE cpc[c] = "failed"
  <2>1. Ticket(c)' = Ticket(c) BY <1>1, <1>8 DEF Ticket
  <2>2. Tickets' = Tickets BY <1>4, <2>1, SameTickets
  <2>3. Alloc!Skip BY <1>1, <1>2, <1>7, <2>2 DEF Alloc!Skip
  <2>4. QED BY <2>3 DEF Alloc!Next
<1>9. CASE cpc[c] = "rcv"
  <2>1. Ticket(c) = Alloc!Blank BY <1>5, <1>9 DEF Ticket, Alloc!Blank
  <2>2. (CHOOSE m \in Responses(c)' : TRUE) = resp' BY <1>6
  <2>3. resp'.n = seqNum /\ Responses(c)' # {} BY <1>1, <1>6
  <2>4. Ticket(c)' = Alloc!Issued(Counter, seqLen[c])
    BY <1>1, <1>7, <1>9, <2>2, <2>3 DEF Ticket, Alloc!Issued
  <2>5. Tickets' = [Tickets EXCEPT ![c] = Alloc!Issued(Counter, seqLen[c])]
    BY <1>4, <2>4, OneTicket
  <2>6. Alloc!Issue(c)
    BY <1>1, <1>2, <1>7, <2>1, <2>5, TicketOf DEF Alloc!Issue
  <2>7. QED BY <2>6 DEF Alloc!Next
<1>10. QED BY <1>2, <1>8, <1>9

\* A client's msgrcv takes the one response it has and prints its number.
LEMMA RcvPrints ==
  ASSUME IInv, NEW c \in Clients, ClientRcv(c)
  PROVE  Alloc!Next
<1> USE DEF IInv
<1>1. PICK i \in 1..Len(queue) :
        /\ queue[i].mtype = c /\ cpc[c] = "rcv"
        /\ got' = [got EXCEPT ![c] = queue[i].n]
        /\ queue' = Without(i)
        /\ cpc' = [cpc EXCEPT ![c] = "done"]
        /\ UNCHANGED <<spc, seqNum, resp, seqLen>>
  <2>1. FirstOf(c) \in 1..Len(queue) /\ queue[FirstOf(c)].mtype = c
    BY FirstOfType DEF ClientRcv
  <2>2. QED BY <2>1 DEF ClientRcv, svars
<1>2. Owner(queue[i]) = c /\ c # Request
  BY <1>1, MsgAssumption DEF Owner
<1>3. /\ \A k \in 1..Len(queue') : \E o \in 1..Len(queue) : o # i /\ queue'[k] = queue[o]
      /\ \A o \in 1..Len(queue) : o # i => \E k \in 1..Len(queue') : queue'[k] = queue[o]
  <2>1. queue' = Without(i) BY <1>1
  <2>2. QED BY <2>1, Taken
<1>4. \A d \in Clients \ {c} : Ticket(d)' = Ticket(d)
  <2> TAKE d \in Clients \ {c}
  <2>1. ASSUME NEW m, m.mtype = d PROVE m \in Queued' <=> m \in Queued
    <3>1. queue[i].mtype # d BY <1>1
    <3>2. ASSUME m \in Queued' PROVE m \in Queued
      <4>1. PICK k \in 1..Len(queue') : m = queue'[k] BY <3>2 DEF Queued
      <4>2. PICK o \in 1..Len(queue) : queue'[k] = queue[o] BY <1>3
      <4>3. QED BY <4>1, <4>2 DEF Queued
    <3>3. ASSUME m \in Queued PROVE m \in Queued'
      <4>1. PICK o \in 1..Len(queue) : m = queue[o] BY <3>3 DEF Queued
      <4>2. o # i BY <2>1, <3>1, <4>1
      <4>3. PICK k \in 1..Len(queue') : queue'[k] = queue[o] BY <1>3, <4>2
      <4>4. QED BY <4>1, <4>3 DEF Queued
    <3>4. QED BY <3>2, <3>3
  <2>2. Responses(d)' = Responses(d) BY <1>1, <2>1, SameResponses
  <2>3. UNCHANGED <<cpc[d], got[d], seqLen[d]>>
    <3>1. cpc = [e \in Clients |-> cpc[e]] /\ got = [e \in Clients |-> got[e]]
      BY DEF BasicType
    <3>2. QED BY <1>1, <3>1
  <2>4. QED BY <2>2, <2>3, SameTicket
<1>5. Responses(c) = {queue[i]}
  <2>1. ASSUME NEW m \in Responses(c) PROVE m = queue[i]
    <3>1. m.mtype = c /\ (m \in Queued \/ (spc = "snd" /\ m = resp)) BY <2>1, ResponsesAre
    <3>2. ~(spc = "snd" /\ m = resp) BY <1>2, <3>1 DEF PlaceInv
    <3>3. PICK o \in 1..Len(queue) : m = queue[o] BY <3>1, <3>2 DEF Queued
    <3>4. Owner(queue[o]) = c BY <1>2, <3>1, <3>3 DEF Owner
    <3>5. QED BY <1>2, <3>3, <3>4 DEF PlaceInv
  <2>2. queue[i] \in Responses(c) BY <1>1, ResponsesAre DEF Queued
  <2>3. QED BY <2>1, <2>2
<1>6. Ticket(c) = Alloc!Issued(queue[i].n, seqLen[c])
  <2>1. (CHOOSE m \in Responses(c) : TRUE) = queue[i] /\ Responses(c) # {} BY <1>5
  <2>2. QED BY <1>1, <2>1 DEF Ticket, Alloc!Issued
<1>7. Ticket(c)' = Alloc!Printed(queue[i].n, seqLen[c])
  BY <1>1 DEF Ticket, Alloc!Printed, BasicType
<1>8. Tickets' = [Tickets EXCEPT ![c] = Alloc!Printed(queue[i].n, seqLen[c])]
  BY <1>4, <1>7, OneTicket
<1>9. Counter' = Counter /\ spc' = spc BY <1>1 DEF Counter
<1>10. Alloc!Deliver(c)
  <2> DEFINE t == Alloc!Issued(queue[i].n, seqLen[c])
  <2>1. Tickets[c] = t BY <1>6, TicketOf
  <2>2. t.state = "issued" /\ t.first = queue[i].n /\ t.len = seqLen[c]
    BY DEF Alloc!Issued
  <2> HIDE DEF t
  <2>3. QED BY <1>8, <1>9, <2>1, <2>2 DEF Alloc!Deliver
<1>11. QED BY <1>10 DEF Alloc!Next

\* The server's end takes the count with it, and the response in its hands.
LEMMA KillStops ==
  ASSUME IInv, KillServer
  PROVE  Alloc!Next
<1> USE DEF IInv
<1>1. UNCHANGED <<queue, resp, cpc, seqLen, got>> /\ spc # "off" /\ spc' = "off"
  BY DEF KillServer, cvars
<1>2. Counter' = 0 /\ Queued' = Queued BY <1>1 DEF Counter, Queued
<1>3. \A d \in Clients : ~(spc = "snd" /\ resp.mtype = d) => Ticket(d)' = Ticket(d)
  <2> TAKE d \in Clients
  <2> HAVE ~(spc = "snd" /\ resp.mtype = d)
  <2>1. Responses(d)' = Responses(d) BY <1>1, <1>2, SameResponses
  <2>2. QED BY <1>1, <2>1, SameTicket
<1>4. CASE spc = "snd" /\ cpc[resp.mtype] = "rcv"
  <2>1. PICK c \in Clients : c = resp.mtype /\ c # Request
    BY <1>4, MsgAssumption DEF PlaceInv
  <2>2. \A m \in Queued : m.mtype # c
    BY <1>4, <2>1 DEF Queued, PlaceInv, Owner
  <2>3. Responses(c) = {resp} /\ Responses(c)' = {}
    BY <1>1, <1>2, <1>4, <2>1, <2>2 DEF Responses, Queued
  <2>4. Ticket(c).state = "issued" BY <1>4, <2>1, <2>3 DEF Ticket
  <2>5. Ticket(c)' = Alloc!Blank BY <1>1, <1>4, <2>1, <2>3 DEF Ticket, Alloc!Blank
  <2>6. Tickets' = [Tickets EXCEPT ![c] = Alloc!Blank]
    BY <1>3, <2>1, <2>5, OneTicket
  <2>7. Alloc!Stop BY <1>1, <1>2, <2>1, <2>4, <2>6, TicketOf DEF Alloc!Stop
  <2>8. QED BY <2>7 DEF Alloc!Next
<1>5. CASE ~(spc = "snd" /\ cpc[resp.mtype] = "rcv")
  <2>1. \A d \in Clients : spc = "snd" /\ resp.mtype = d => Ticket(d)' = Ticket(d)
    <3> TAKE d \in Clients
    <3> HAVE spc = "snd" /\ resp.mtype = d
    <3>1. cpc[d] = "failed" BY <1>5 DEF PlaceInv
    <3>2. QED BY <1>1, <3>1 DEF Ticket
  <2>2. Tickets' = Tickets BY <1>3, <2>1, SameTickets
  <2>3. Alloc!Stop BY <1>1, <1>2, <2>2 DEF Alloc!Stop
  <2>4. QED BY <2>3 DEF Alloc!Next
<1>6. QED BY <1>4, <1>5

\* A client that finds no queue, or is killed, leaves the allocator.
LEMMA ClientLeaves ==
  ASSUME IInv, NEW c \in Clients, cpc[c] \notin {"done", "failed"}, cpc'[c] = "failed",
         \A d \in Clients \ {c} : UNCHANGED <<cpc[d], got[d], seqLen[d]>>,
         UNCHANGED <<queue, svars>>
  PROVE  Alloc!Next
<1>1. \A d \in Clients : Responses(d)' = Responses(d) BY DEF Responses, svars
<1>2. \A d \in Clients \ {c} : Ticket(d)' = Ticket(d) BY <1>1, SameTicket
<1>3. Ticket(c)' = Alloc!Gone BY DEF Ticket, Alloc!Gone
<1>4. Ticket(c).state \in {"none", "issued"} BY DEF Ticket
<1>5. Counter' = Counter /\ spc' = spc BY DEF Counter, svars
<1>6. Alloc!Leave(c) BY <1>2, <1>3, <1>4, <1>5, OneTicket, TicketOf DEF Alloc!Leave
<1>7. QED BY <1>6 DEF Alloc!Next

\* The service implements the abstract allocator: msgrcv of a request tells
\* its client what the counter is at and moves it by that client's length, a
\* client prints what it was told, and nothing else touches the counter or a
\* number on its way, except the end of the server, after which the count is 0.
THEOREM ImplementsAlloc == Spec => AllocSpec
<1>1. Init => Alloc!Init
  <2>1. Init => \A c \in Clients : Responses(c) = {} /\ cpc[c] = "start"
    BY DEF Init, Responses
  <2>2. Init => \A c \in Clients : Ticket(c) = Alloc!Blank
    BY <2>1 DEF Ticket, Alloc!Blank
  <2>3. Init => Tickets = [c \in Clients |-> Alloc!Blank]
    BY <2>2 DEF Tickets
  <2>4. QED BY <2>3 DEF Init, Counter, Alloc!Init
<1>2. ASSUME IInv, [Next]_vars PROVE [Alloc!Next]_Alloc!vars
  <2> USE <1>2
  <2>1. ASSUME Tickets' = Tickets, Counter' = Counter, (spc' # "off") = (spc # "off")
        PROVE  [Alloc!Next]_Alloc!vars
    BY <2>1 DEF Alloc!vars
  <2>2. CASE ServerStart
    <3>1. /\ UNCHANGED <<queue, resp, cvars>> /\ spc = "off" /\ spc' = "rcv"
          /\ seqNum' = 0
      BY <2>2 DEF ServerStart
    <3>2. \A d \in Clients : Responses(d)' = Responses(d) BY <3>1 DEF Responses
    <3>3. Tickets' = Tickets BY <3>1, <3>2, SameTicket, SameTickets DEF cvars
    <3>4. Alloc!Start BY <3>1, <3>3 DEF Counter, Alloc!Start
    <3>5. QED BY <3>4 DEF Alloc!Next
  <2>3. CASE ServerRcv BY <2>3, RcvAllocates
  <2>4. CASE ServerSnd
    <3>1. /\ UNCHANGED <<seqNum, resp, cvars>> /\ spc = "snd" /\ spc' = "rcv"
          /\ queue' = Append(queue, resp) /\ resp \in Messages
      BY <2>4 DEF ServerSnd, IInv, BasicType, Messages
    <3>2. Queued' = Queued \cup {resp} BY <3>1, QueuedAppend DEF IInv
    <3>3. \A d \in Clients : Responses(d)' = Responses(d)
      BY <3>1, <3>2, SameResponses
    <3>4. Tickets' = Tickets BY <3>1, <3>3, SameTicket, SameTickets DEF cvars
    <3>5. Counter' = Counter BY <3>1 DEF Counter
    <3>6. QED BY <2>1, <3>1, <3>4, <3>5
  <2>5. CASE KillServer BY <2>5, KillStops
  <2>6. ASSUME NEW c \in Clients, NEW n \in SeqLens, ClientStart(c, n)
        PROVE  [Alloc!Next]_Alloc!vars
    <3>1. /\ UNCHANGED <<queue, svars, got>> /\ cpc[c] = "start"
          /\ seqLen' = [seqLen EXCEPT ![c] = n]
          /\ cpc' = [cpc EXCEPT ![c] = IF made THEN "snd" ELSE "failed"]
          /\ cpc = [d \in Clients |-> cpc[d]] /\ seqLen = [d \in Clients |-> seqLen[d]]
      BY <2>6 DEF ClientStart, IInv, BasicType
    <3>2. CASE ~made BY <3>1, <3>2, ClientLeaves
    <3>3. CASE made
      <4>1. \A d \in Clients : Responses(d)' = Responses(d)
        BY <3>1 DEF Responses, svars
      <4>2. Responses(c) = {} BY <3>1, NoResponse
      <4>3. Ticket(c)' = Ticket(c) BY <3>1, <3>3, <4>1, <4>2, SameTicket
      <4>4. \A d \in Clients \ {c} : Ticket(d)' = Ticket(d) BY <3>1, <4>1, SameTicket
      <4>5. Tickets' = Tickets BY <4>3, <4>4, SameTickets
      <4>6. Counter' = Counter /\ spc' = spc BY <3>1 DEF Counter, svars
      <4>7. QED BY <2>1, <4>5, <4>6
    <3>4. QED BY <3>2, <3>3
  <2>7. ASSUME NEW c \in Clients, ClientSnd(c) PROVE [Alloc!Next]_Alloc!vars
    <3> DEFINE m == [mtype |-> Request, pid |-> c, n |-> seqLen[c]]
    <3>1. /\ UNCHANGED <<svars, seqLen, got>> /\ cpc[c] = "snd"
          /\ cpc' = [cpc EXCEPT ![c] = "rcv"] /\ queue' = Append(queue, m)
          /\ cpc = [d \in Clients |-> cpc[d]]
      BY <2>7 DEF ClientSnd, IInv, BasicType
    <3>2. m \in Messages
      BY MsgAssumption DEF Messages, Ints, IInv, BasicType
    <3>3. Queued' = Queued \cup {m} BY <3>1, <3>2, QueuedAppend DEF IInv
    <3>4. \A d \in Clients : m.mtype # d BY MsgAssumption
    <3> HIDE DEF m
    <3>5. \A d \in Clients : Responses(d)' = Responses(d)
      BY <3>1, <3>3, <3>4, SameResponses DEF svars
    <3>6. \A d \in Clients : Ticket(d)' = Ticket(d) BY <3>1, <3>5, SameTicket
    <3>7. Tickets' = Tickets BY <3>6, SameTickets
    <3>8. Counter' = Counter /\ spc' = spc BY <3>1 DEF Counter, svars
    <3>9. QED BY <2>1, <3>7, <3>8
  <2>8. ASSUME NEW c \in Clients, ClientRcv(c) PROVE [Alloc!Next]_Alloc!vars
    BY <2>8, RcvPrints
  <2>9. ASSUME NEW c \in Clients, KillClient(c) PROVE [Alloc!Next]_Alloc!vars
    <3>1. /\ UNCHANGED <<queue, svars, seqLen, got>> /\ cpc[c] \in {"snd", "rcv"}
          /\ cpc' = [cpc EXCEPT ![c] = "failed"] /\ cpc = [d \in Clients |-> cpc[d]]
      BY <2>9 DEF KillClient, IInv, BasicType
    <3>2. QED BY <3>1, ClientLeaves
  <2>10. CASE UNCHANGED vars
    <3>1. UNCHANGED <<queue, svars, cvars>> BY <2>10 DEF vars
    <3>2. \A d \in Clients : Responses(d)' = Responses(d) BY <3>1 DEF Responses, svars
    <3>3. Tickets' = Tickets BY <3>1, <3>2, SameTicket, SameTickets DEF cvars
    <3>4. Counter' = Counter /\ spc' = spc BY <3>1 DEF Counter, svars
    <3>5. QED BY <2>1, <3>3, <3>4
  <2>11. QED
    BY <2>2, <2>3, <2>4, <2>5, <2>6, <2>7, <2>8, <2>9, <2>10 DEF Next, ServerStep
<1>3. QED BY <1>1, <1>2, Invariance, PTL DEF Spec, AllocSpec, Alloc!Spec

----------------------------------------------------------------------------
(* The file service over POSIX message queues: its state comes from        *)
(* MqFileState, its steps are those of MqFile.                             *)

File == INSTANCE MqFile

Pids   == {Pid[c] : c \in Clients}
Asks   == [from : Clients, file : Files]

FileType ==
  /\ created \in BOOLEAN /\ splace \in {"start", "receive", "client", "file", "send"}
  /\ requests \in Seq(Asks) /\ Len(requests) <= MqMax
  /\ splace \in {"client", "file", "send"} => req \in Asks
  /\ dst \in Clients \cup {Nobody} /\ rest \in Seq(Chunks)
  /\ inbox \in [Clients -> Seq(Nat)] /\ \A c \in Clients : Len(inbox[c]) <= MqMax
  /\ name \in [Pids -> Clients \cup {Nobody}]
  /\ cplace \in [Clients -> {"off", "server", "send", "recv", "close", "done", "dead"}]
  /\ mine \in [Clients -> Clients \cup {Nobody}] /\ file \in [Clients -> Files]
  /\ counted \in [Clients -> Nat] /\ clean \in [Clients -> BOOLEAN]

\* The name of a pid leads to the queue its running client has open; a queue
\* that has a name was not unlinked, and somebody is to blame for the name.
OwnInv ==
  /\ \A c, d \in Clients : Running(c) /\ Running(d) /\ Pid[c] = Pid[d] => c = d
  /\ \A c \in Clients :
       /\ Running(c) => name[Pid[c]] = mine[c]
       /\ cplace[c] = "off" => /\ inbox[c] = <<>> /\ counted[c] = 0 /\ ~clean[c]
                               /\ \A d \in Clients : mine[d] # c
       /\ cplace[c] # "off" => mine[c] \in Clients /\ Pid[mine[c]] = Pid[c]
       /\ clean[c] => mine[c] = c
  /\ \A p \in Pids : name[p] # Nobody =>
       /\ name[p] \in Clients /\ Pid[name[p]] = p /\ cplace[name[p]] \notin {"off", "done"}
       /\ \E c \in Clients : Pid[c] = p /\ (Running(c) \/ cplace[c] = "dead")

\* Requests are of clients that have asked, for the file they want.
Asked(r) == cplace[r.from] \in {"recv", "close", "done", "dead"} /\ r.file = file[r.from]
RequestInv ==
  /\ \A k \in 1..Len(requests) : Asked(requests[k])
  /\ splace \in {"client", "file", "send"} => Asked(req)
  /\ splace \in {"file", "send"} => dst \in Clients /\ cplace[dst] # "off"
  /\ splace = "send" => req.file # Missing

\* A request of c waits, is in the server's hands, or the server has its queue.
Waits(c)    == \E k \in 1..Len(requests) : requests[k].from = c
Fetched(c)  == splace = "client" /\ req.from = c
Serving(c)  == splace \in {"file", "send"} /\ dst = c
NoneYet(c)  == cplace[c] = "recv" /\ inbox[c] = <<>> /\ counted[c] = 0

\* No request of another client of its pid is around while c runs.
Alone(c) ==
  /\ \A k \in 1..Len(requests) : Pid[requests[k].from] = Pid[c] => requests[k].from = c
  /\ splace = "client" /\ Pid[req.from] = Pid[c] => req.from = c

\* The request of c is in one place, and nothing is sent before the file is open.
Order(c) ==
  /\ \A j, k \in 1..Len(requests) : requests[j].from = c /\ requests[k].from = c => j = k
  /\ Waits(c) => ~Fetched(c) /\ ~Serving(c)
  /\ Serving(c) => req.from = c
  /\ cplace[c] \in {"server", "send"} =>
       ~Waits(c) /\ ~Fetched(c) /\ ~Serving(c) /\ inbox[c] = <<>> /\ counted[c] = 0
  /\ Waits(c) \/ Fetched(c) \/ (splace = "file" /\ dst = c) => NoneYet(c)

\* What c has counted, what is in its queue and what the server still has to
\* send are the chunks of its file, and the queue ends with a NUL once the
\* server is through.
Texts(s)      == \A k \in 1..Len(s) : s[k] # 0
TextChunks(s) == \A k \in 1..Len(s) : s[k].text # 0
Ended(c) ==
  /\ Len(inbox[c]) > 0 /\ inbox[c][Len(inbox[c])] = 0
  /\ \A k \in 1..Len(inbox[c]) - 1 : inbox[c][k] # 0
  /\ counted[c] + Len(inbox[c]) - 1 = Len(Content[file[c]])
Count(c) ==
  /\ splace = "send" /\ dst = c =>
       /\ cplace[c] = "recv" /\ Texts(inbox[c]) /\ TextChunks(rest)
       /\ counted[c] + Len(inbox[c]) + Len(rest) = Len(Content[file[c]])
  /\ cplace[c] = "recv" /\ ~Waits(c) /\ ~Fetched(c) /\ ~Serving(c) => Ended(c)
  /\ cplace[c] \in {"close", "done"} => counted[c] = Len(Content[file[c]])

Clean(c) ==
  clean[c] /\ cplace[c] # "dead" =>
    /\ Running(c) => Alone(c)
    /\ Order(c)
    /\ file[c] # Missing /\ Plain(file[c]) => Count(c)
CleanInv == \A c \in Clients : Clean(c)

\* Only a dead client of its pid spoils a client's start.
DeadInv ==
  \A c \in Clients : cplace[c] # "off" /\ ~clean[c] =>
    \E d \in Clients : Pid[d] = Pid[c] /\ cplace[d] = "dead"

FileInv == FileType /\ OwnInv /\ RequestInv /\ CleanInv /\ DeadInv

LEMMA AppendFacts ==
  ASSUME NEW S, NEW q \in Seq(S), NEW d \in S
  PROVE  /\ Append(q, d) \in Seq(S) /\ Len(Append(q, d)) = Len(q) + 1 /\ Len(q) \in Nat
         /\ \A k \in 1..Len(q) : Append(q, d)[k] = q[k]
         /\ Append(q, d)[Len(q) + 1] = d
  OBVIOUS

LEMMA RestFacts ==
  ASSUME NEW S, NEW q \in Seq(S), q # <<>>
  PROVE  /\ Len(q) \in Nat \ {0} /\ Head(q) = q[1] /\ Head(q) \in S
         /\ Tail(q) \in Seq(S) /\ Len(Tail(q)) = Len(q) - 1
         /\ \A k \in 1..Len(Tail(q)) : Tail(q)[k] = q[k + 1]
  OBVIOUS

\* The chunks of a file that can be opened.
LEMMA ContentType == \A f \in Files : Content[f] \in Seq(Chunks)
  BY MqAssumption

LEMMA FileInit == ASSUME File!Init PROVE FileInv
<1> USE DEF File!Init
<1>0. MqMax \in Nat /\ Len(<<>>) = 0 BY MqAssumption
<1>1. FileType
  <2>1. name \in [Pids -> Clients \cup {Nobody}] BY DEF Pids
  <2>2. \A c \in Clients : Len(inbox[c]) <= MqMax BY <1>0
  <2>3. requests \in Seq(Asks) /\ Len(requests) <= MqMax /\ rest \in Seq(Chunks) BY <1>0
  <2>4. inbox \in [Clients -> Seq(Nat)] OBVIOUS
  <2>5. QED BY <2>1, <2>2, <2>3, <2>4 DEF FileType
<1>2. OwnInv
  <2>1. \A c \in Clients : ~Running(c) BY DEF Running
  <2>2. \A p \in Pids : name[p] = Nobody BY DEF Pids
  <2>3. \A c, d \in Clients : mine[d] # c BY MqAssumption
  <2>4. QED BY <2>1, <2>2, <2>3 DEF OwnInv
<1>3. RequestInv BY DEF RequestInv
<1>4. CleanInv BY DEF CleanInv, Clean
<1>5. DeadInv BY DEF DeadInv
<1>6. QED BY <1>1, <1>2, <1>3, <1>4, <1>5 DEF FileInv

\* Steps of the server leave the clients and their names alone.
LEMMA ServerLeaves ==
  ASSUME FileInv, UNCHANGED <<name, cplace, mine, file, counted, clean>>,
         \A c \in Clients : cplace[c] = "off" => inbox'[c] = inbox[c]
  PROVE  OwnInv' /\ DeadInv'
<1>1. \A c \in Clients : Running(c)' <=> Running(c) BY DEF Running
<1>2. OwnInv' BY <1>1 DEF FileInv, OwnInv
<1>3. DeadInv' BY DEF FileInv, DeadInv
<1>4. QED BY <1>2, <1>3

LEMMA FileStutter == ASSUME FileInv, UNCHANGED File!vars PROVE FileInv'
<1> USE DEF FileInv
<1>1. UNCHANGED <<created, splace, req, dst, rest, requests, name, inbox, cplace, mine, file, counted, clean>>
  BY DEF File!vars, File!serverVars, File!clientVars
<1>2. FileType' BY <1>1 DEF FileType
<1>3. OwnInv' /\ DeadInv' BY <1>1, ServerLeaves
<1>4. RequestInv' BY <1>1 DEF RequestInv, Asked
<1>5. CleanInv'
  BY <1>1 DEF CleanInv, Clean, Running, Alone, Order, Count, Waits, Fetched, Serving, NoneYet,
              Ended, Texts, TextChunks, Plain
<1>6. QED BY <1>2, <1>3, <1>4, <1>5

LEMMA CreateKeeps == ASSUME FileInv, File!CreateQueue PROVE FileInv'
<1> USE DEF FileInv
<1>1. /\ splace = "start" /\ splace' = "receive" /\ created' = TRUE
      /\ UNCHANGED <<req, dst, rest, requests, name, inbox, cplace, mine, file, counted, clean>>
  BY DEF File!CreateQueue, File!clientVars
<1>2. FileType' BY <1>1 DEF FileType
<1>3. OwnInv' /\ DeadInv' BY <1>1, ServerLeaves
<1>4. RequestInv' BY <1>1 DEF RequestInv, Asked
<1>5. CleanInv'
  BY <1>1 DEF CleanInv, Clean, Running, Alone, Order, Count, Waits, Fetched, Serving, NoneYet,
              Ended, Texts, TextChunks, Plain
<1>6. QED BY <1>2, <1>3, <1>4, <1>5

\* mq_receive takes the oldest request out of the queue.
LEMMA ReceiveKeeps == ASSUME FileInv, File!Receive PROVE FileInv'
<1>0. FileType /\ OwnInv /\ RequestInv /\ CleanInv /\ DeadInv BY DEF FileInv
<1>1. /\ splace = "receive" /\ requests # <<>> /\ splace' = "client"
      /\ req' = Head(requests) /\ requests' = Tail(requests)
      /\ UNCHANGED <<created, dst, rest, name, inbox, cplace, mine, file, counted, clean>>
  BY DEF File!Receive, File!clientVars
<1>2. /\ Len(requests) \in Nat \ {0} /\ req' = requests[1] /\ req' \in Asks
      /\ requests' \in Seq(Asks) /\ Len(requests') = Len(requests) - 1
      /\ \A k \in 1..Len(requests') : requests'[k] = requests[k + 1]
  <2>1. requests \in Seq(Asks) BY <1>0 DEF FileType
  <2>2. /\ Len(requests) \in Nat \ {0} /\ Head(requests) = requests[1] /\ Head(requests) \in Asks
        /\ Tail(requests) \in Seq(Asks) /\ Len(Tail(requests)) = Len(requests) - 1
        /\ \A k \in 1..Len(Tail(requests)) : Tail(requests)[k] = requests[k + 1]
    BY <1>1, <2>1, RestFacts
  <2>3. QED BY <1>1, <2>2
<1>3. 1 \in 1..Len(requests) /\ \A k \in 1..Len(requests') : k + 1 \in 1..Len(requests)
  BY <1>2
<1>4. FileType'
  <2>1. Len(requests') <= MqMax BY <1>0, <1>2, MqAssumption DEF FileType
  <2>2. QED BY <1>0, <1>1, <1>2, <2>1 DEF FileType
<1>5. OwnInv' /\ DeadInv' BY <1>1, ServerLeaves
<1>6. RequestInv'
  <2>1. \A k \in 1..Len(requests) : Asked(requests[k]) BY <1>0 DEF RequestInv
  <2>2. Asked(req)' /\ \A k \in 1..Len(requests') : Asked(requests[k])'
    BY <1>1, <1>2, <1>3, <2>1 DEF Asked
  <2>3. QED BY <1>1, <2>2 DEF RequestInv
<1>7. CleanInv'
  <2> SUFFICES ASSUME NEW c \in Clients, clean[c], cplace[c] # "dead"
               PROVE  /\ Running(c) => Alone(c)'
                      /\ Order(c)'
                      /\ file[c] # Missing /\ Plain(file[c]) => Count(c)'
    BY <1>1 DEF CleanInv, Clean, Running, Plain
  <2>1. /\ Running(c) => Alone(c)
        /\ Order(c)
        /\ file[c] # Missing /\ Plain(file[c]) => Count(c)
    BY <1>0 DEF CleanInv, Clean
  <2>2. ~Serving(c) /\ ~Serving(c)' /\ ~Fetched(c) BY <1>1 DEF Serving, Fetched
  <2>3. Waits(c) <=> Waits(c)' \/ Fetched(c)'
    <3>1. ASSUME NEW k \in 1..Len(requests), requests[k].from = c PROVE Waits(c)' \/ Fetched(c)'
      <4>1. CASE k = 1 BY <1>1, <1>2, <3>1, <4>1 DEF Fetched
      <4>2. CASE k # 1
        <5>1. PICK j \in 1..Len(requests') : k = j + 1
          <6>1. k - 1 \in 1..Len(requests') /\ k = (k - 1) + 1 BY <1>2, <4>2
          <6>2. QED BY <6>1
        <5>2. requests'[j].from = c BY <1>2, <3>1, <5>1
        <5>3. QED BY <5>2 DEF Waits
      <4>3. QED BY <4>1, <4>2
    <3>2. ASSUME NEW k \in 1..Len(requests'), requests'[k].from = c PROVE Waits(c)
      <4>1. requests[k + 1].from = c BY <1>2, <3>2
      <4>2. QED BY <1>3, <4>1 DEF Waits
    <3>3. Fetched(c)' => Waits(c) BY <1>1, <1>2, <1>3 DEF Fetched, Waits
    <3>4. Waits(c) => Waits(c)' \/ Fetched(c)' BY <3>1 DEF Waits
    <3>5. Waits(c)' => Waits(c)
      <4>1. Waits(c)' => \E k \in 1..Len(requests') : requests'[k].from = c BY <1>1 DEF Waits
      <4>2. QED BY <3>2, <4>1
    <3>6. QED BY <3>3, <3>4, <3>5
  <2>4. \A j, k \in 1..Len(requests) : requests[j].from = c /\ requests[k].from = c => j = k
    BY <2>1 DEF Order
  <2>5. ~(Waits(c)' /\ Fetched(c)')
    <3> SUFFICES ASSUME NEW k \in 1..Len(requests'), requests'[k].from = c, req'.from = c PROVE FALSE
      BY <1>1 DEF Waits, Fetched
    <3>1. requests[k + 1].from = c /\ requests[1].from = c BY <1>2
    <3>2. k + 1 = 1 BY <1>3, <2>4, <3>1
    <3>3. QED BY <3>2
  <2>6. \A j, k \in 1..Len(requests') : requests'[j].from = c /\ requests'[k].from = c => j = k
    <3> SUFFICES ASSUME NEW j \in 1..Len(requests'), NEW k \in 1..Len(requests'),
                        requests'[j].from = c, requests'[k].from = c
                 PROVE  j = k
      OBVIOUS
    <3>1. requests[j + 1].from = c /\ requests[k + 1].from = c BY <1>2
    <3>2. j + 1 = k + 1 BY <1>3, <2>4, <3>1
    <3>3. QED BY <3>2
  <2>7. NoneYet(c)' <=> NoneYet(c) BY <1>1 DEF NoneYet
  <2>8. Order(c)' BY <1>1, <2>1, <2>2, <2>3, <2>5, <2>6, <2>7 DEF Order
  <2>9. Running(c) => Alone(c)'
    <3> SUFFICES ASSUME Alone(c) PROVE Alone(c)' BY <2>1
    <3>1. \A k \in 1..Len(requests) : Pid[requests[k].from] = Pid[c] => requests[k].from = c
      BY DEF Alone
    <3>2. \A k \in 1..Len(requests') : Pid[requests'[k].from] = Pid[c] => requests'[k].from = c
      BY <1>2, <1>3, <3>1
    <3>3. Pid[req'.from] = Pid[c] => req'.from = c BY <1>2, <1>3, <3>1
    <3>4. QED BY <3>2, <3>3 DEF Alone
  <2>10. Count(c) => Count(c)'
    <3>1. Ended(c) => Ended(c)' BY <1>1 DEF Ended
    <3>2. QED BY <1>1, <2>2, <2>3, <3>1 DEF Count
  <2>11. QED BY <2>1, <2>8, <2>9, <2>10
<1>8. QED BY <1>4, <1>5, <1>6, <1>7 DEF FileInv

\* The step from the request to the queue of its client's pid.
LEMMA OpenClientKeeps == ASSUME FileInv, File!OpenClient PROVE FileInv'
<1>0. FileType /\ OwnInv /\ RequestInv /\ CleanInv /\ DeadInv BY DEF FileInv
<1>1. /\ splace = "client" /\ dst' = name[Pid[req.from]]
      /\ splace' = IF dst' = Nobody THEN "receive" ELSE "file"
      /\ UNCHANGED <<created, req, rest, requests, name, inbox, cplace, mine, file, counted, clean>>
  BY DEF File!OpenClient, File!clientVars
<1>2. /\ req \in Asks /\ req.from \in Clients /\ Pid[req.from] \in Pids
      /\ Nobody \notin Clients
  BY <1>0, <1>1, MqAssumption DEF FileType, Asks, Pids
<1>3. /\ dst' \in Clients \cup {Nobody}
      /\ dst' # Nobody => /\ dst' \in Clients /\ Pid[dst'] = Pid[req.from]
                          /\ cplace[dst'] \notin {"off", "done"}
  BY <1>0, <1>1, <1>2 DEF FileType, OwnInv
<1>4. FileType' BY <1>0, <1>1, <1>2, <1>3 DEF FileType
<1>5. OwnInv' /\ DeadInv' BY <1>1, ServerLeaves
<1>6. RequestInv'
  <2>1. Asked(req) /\ \A k \in 1..Len(requests) : Asked(requests[k]) BY <1>0, <1>1 DEF RequestInv
  <2>2. Asked(req)' /\ \A k \in 1..Len(requests) : Asked(requests[k])' BY <1>1, <2>1 DEF Asked
  <2>3. QED BY <1>1, <1>3, <2>2 DEF RequestInv
<1>7. CleanInv'
  <2> SUFFICES ASSUME NEW c \in Clients, clean[c], cplace[c] # "dead"
               PROVE  /\ Running(c) => Alone(c)'
                      /\ Order(c)'
                      /\ file[c] # Missing /\ Plain(file[c]) => Count(c)'
    BY <1>1 DEF CleanInv, Clean, Running, Plain
  <2>1. /\ Running(c) => Alone(c)
        /\ Order(c)
        /\ file[c] # Missing /\ Plain(file[c]) => Count(c)
    BY <1>0 DEF CleanInv, Clean
  <2>2. ~Serving(c) /\ ~Fetched(c)' BY <1>1 DEF Serving, Fetched
  <2>3. Fetched(c) <=> req.from = c BY <1>1 DEF Fetched
  <2>4. Serving(c)' <=> dst' = c BY <1>1, <1>2 DEF Serving
  <2>5. Serving(c)' => Fetched(c)
    <3>1. SUFFICES ASSUME dst' = c PROVE req.from = c BY <2>3, <2>4
    <3>2. Pid[c] = Pid[req.from] /\ cplace[c] \notin {"off", "done"} BY <1>2, <1>3, <3>1
    <3>3. Running(c) BY <3>2 DEF Running
    <3>4. QED BY <1>1, <2>1, <3>2, <3>3 DEF Alone
  <2>6. Fetched(c) => Serving(c)'
    <3>1. SUFFICES ASSUME req.from = c, Fetched(c) PROVE dst' = c BY <2>3, <2>4
    <3>2. cplace[c] = "recv" BY <2>1, <3>1 DEF Order, NoneYet
    <3>3. name[Pid[c]] = mine[c] /\ mine[c] = c BY <1>0, <3>2 DEF OwnInv, Running
    <3>4. QED BY <1>1, <3>1, <3>3
  <2>7. Waits(c)' <=> Waits(c) BY <1>1 DEF Waits
  <2>8. NoneYet(c)' <=> NoneYet(c) BY <1>1 DEF NoneYet
  <2>9. Order(c)' BY <1>1, <2>1, <2>2, <2>3, <2>4, <2>5, <2>6, <2>7, <2>8 DEF Order
  <2>10. Alone(c) => Alone(c)' BY <1>1 DEF Alone
  <2>11. Count(c) => Count(c)'
    <3>1. Ended(c) => Ended(c)' BY <1>1 DEF Ended
    <3>2. QED BY <1>1, <2>2, <2>5, <2>6, <2>7, <3>1 DEF Count
  <2>12. QED BY <2>1, <2>9, <2>10, <2>11
<1>8. QED BY <1>4, <1>5, <1>6, <1>7 DEF FileInv

\* The file is opened, or the request dropped with the client's queue open.
LEMMA OpenFileKeeps == ASSUME FileInv, File!OpenFile PROVE FileInv'
<1>0. FileType /\ OwnInv /\ RequestInv /\ CleanInv /\ DeadInv BY DEF FileInv
<1>1. /\ splace = "file"
      /\ IF req.file = Missing THEN splace' = "receive" /\ rest' = rest
                               ELSE splace' = "send" /\ rest' = Content[req.file]
      /\ UNCHANGED <<created, req, dst, requests, name, inbox, cplace, mine, file, counted, clean>>
  BY DEF File!OpenFile, File!clientVars
<1>2. req \in Asks /\ req.file \in Files /\ Content[req.file] \in Seq(Chunks)
  <2>1. req \in Asks BY <1>0, <1>1 DEF FileType
  <2>2. QED BY <2>1, ContentType DEF Asks
<1>3. FileType' BY <1>0, <1>1, <1>2 DEF FileType
<1>4. OwnInv' /\ DeadInv' BY <1>1, ServerLeaves
<1>5. RequestInv'
  <2>1. Asked(req) /\ \A k \in 1..Len(requests) : Asked(requests[k]) BY <1>0, <1>1 DEF RequestInv
  <2>2. Asked(req)' /\ \A k \in 1..Len(requests) : Asked(requests[k])' BY <1>1, <2>1 DEF Asked
  <2>3. QED BY <1>0, <1>1, <2>2 DEF RequestInv
<1>6. CleanInv'
  <2> SUFFICES ASSUME NEW c \in Clients, clean[c], cplace[c] # "dead"
               PROVE  /\ Running(c) => Alone(c)'
                      /\ Order(c)'
                      /\ file[c] # Missing /\ Plain(file[c]) => Count(c)'
    BY <1>1 DEF CleanInv, Clean, Running, Plain
  <2>1. /\ Running(c) => Alone(c)
        /\ Order(c)
        /\ file[c] # Missing /\ Plain(file[c]) => Count(c)
    BY <1>0 DEF CleanInv, Clean
  <2>2. ~Fetched(c) /\ ~Fetched(c)' BY <1>1 DEF Fetched
  <2>3. /\ Serving(c) <=> dst = c
        /\ Serving(c)' <=> dst = c /\ req.file # Missing
    BY <1>1 DEF Serving
  <2>4. Waits(c)' <=> Waits(c) BY <1>1 DEF Waits
  <2>5. NoneYet(c)' <=> NoneYet(c) BY <1>1 DEF NoneYet
  <2>6. Order(c)' BY <1>1, <2>1, <2>2, <2>3, <2>4, <2>5 DEF Order
  <2>7. Alone(c) => Alone(c)' BY <1>1 DEF Alone
  <2>8. ASSUME file[c] # Missing, Plain(file[c]) PROVE Count(c)'
    <3>0. Count(c) BY <2>1, <2>8
    <3>1. Ended(c) => Ended(c)' BY <1>1 DEF Ended
    <3>2. dst = c => /\ req.file = file[c] /\ NoneYet(c) /\ rest' = Content[file[c]]
                     /\ splace' = "send"
      BY <1>0, <1>1, <2>1, <2>3, <2>8 DEF Order, RequestInv, Asked
    <3>3. TextChunks(Content[file[c]]) BY <2>8 DEF Plain, TextChunks
    <3>4. dst = c => /\ cplace[c] = "recv" /\ Texts(inbox[c])
                     /\ counted[c] + Len(inbox[c]) + Len(Content[file[c]]) = Len(Content[file[c]])
      <4>1. file[c] \in Files BY <1>0 DEF FileType
      <4>2. Len(Content[file[c]]) \in Nat BY <4>1, ContentType
      <4>3. QED BY <3>2, <4>2 DEF NoneYet, Texts
    <3>5. QED BY <1>1, <2>2, <2>3, <2>4, <3>0, <3>1, <3>2, <3>3, <3>4 DEF Count, Texts, TextChunks
  <2>9. QED BY <2>1, <2>6, <2>7, <2>8
<1>7. QED BY <1>3, <1>4, <1>5, <1>6 DEF FileInv

\* mq_send of a chunk or of the end: m is the message, left what is still to be
\* sent, next where the server goes.
LEMMA PutMessage ==
  ASSUME FileInv, NEW m \in Nat, splace = "send", Len(inbox[dst]) < MqMax, MqMax \in Nat,
         inbox' = [inbox EXCEPT ![dst] = Append(inbox[dst], m)], rest' \in Seq(Chunks),
         splace' \in {"send", "receive"},
         UNCHANGED <<created, req, dst, requests, name, cplace, mine, file, counted, clean>>
  PROVE  /\ FileType' /\ OwnInv' /\ DeadInv' /\ RequestInv'
         /\ dst \in Clients /\ inbox'[dst] = Append(inbox[dst], m)
         /\ \A c \in Clients : c # dst => inbox'[c] = inbox[c]
         /\ \A c \in Clients : Waits(c)' <=> Waits(c)
         /\ \A c \in Clients : ~Fetched(c) /\ ~Fetched(c)' /\ (Serving(c) <=> dst = c)
         /\ \A c \in Clients : Alone(c) => Alone(c)'
         /\ \A c \in Clients : Order(c) => Order(c)'
<1>0. FileType /\ OwnInv /\ RequestInv /\ CleanInv /\ DeadInv BY DEF FileInv
<1>1. dst \in Clients /\ cplace[dst] # "off" BY <1>0 DEF RequestInv
<1>2. /\ inbox'[dst] = Append(inbox[dst], m)
      /\ \A c \in Clients : c # dst => inbox'[c] = inbox[c]
  BY <1>0, <1>1 DEF FileType
<1>3. /\ inbox[dst] \in Seq(Nat) /\ Append(inbox[dst], m) \in Seq(Nat)
      /\ Len(Append(inbox[dst], m)) = Len(inbox[dst]) + 1 /\ Len(inbox[dst]) \in Nat
  <2>1. inbox[dst] \in Seq(Nat) BY <1>0, <1>1 DEF FileType
  <2>2. QED BY <2>1, AppendFacts
<1>4. FileType'
  <2>1. inbox' \in [Clients -> Seq(Nat)] BY <1>0, <1>3 DEF FileType
  <2>2. \A c \in Clients : Len(inbox'[c]) <= MqMax
    <3>1. Len(inbox'[dst]) <= MqMax BY <1>2, <1>3
    <3>2. \A c \in Clients : Len(inbox[c]) <= MqMax BY <1>0 DEF FileType
    <3>3. QED BY <1>2, <3>1, <3>2
  <2>3. QED BY <1>0, <2>1, <2>2 DEF FileType
<1>5. OwnInv' /\ DeadInv' BY <1>1, <1>2, ServerLeaves
<1>6. RequestInv'
  <2>1. Asked(req) /\ \A k \in 1..Len(requests) : Asked(requests[k]) BY <1>0 DEF RequestInv
  <2>2. Asked(req)' /\ \A k \in 1..Len(requests) : Asked(requests[k])' BY <2>1 DEF Asked
  <2>3. QED BY <1>0, <2>2 DEF RequestInv
<1>7. \A c \in Clients : Waits(c)' <=> Waits(c) BY DEF Waits
<1>8. \A c \in Clients : ~Fetched(c) /\ ~Fetched(c)' /\ (Serving(c) <=> dst = c)
  BY DEF Fetched, Serving
<1>9. \A c \in Clients : Alone(c) => Alone(c)' BY DEF Alone
<1>10. ASSUME NEW c \in Clients, Order(c) PROVE Order(c)'
  <2>1. Serving(c)' => Serving(c) BY <1>8 DEF Serving
  <2>2. Waits(c) => c # dst /\ NoneYet(c) BY <1>8, <1>10 DEF Order
  <2>3. c # dst => (NoneYet(c) => NoneYet(c)') BY <1>2 DEF NoneYet
  <2>4. cplace[c] \in {"server", "send"} => inbox'[c] = inbox[c]
    BY <1>2, <1>8, <1>10 DEF Order
  <2>5. QED BY <1>7, <1>8, <1>10, <2>1, <2>2, <2>3, <2>4 DEF Order
<1>11. QED BY <1>1, <1>2, <1>4, <1>5, <1>6, <1>7, <1>8, <1>9, <1>10

LEMMA SendChunkKeeps == ASSUME FileInv, File!SendChunk PROVE FileInv'
<1>0. FileType /\ OwnInv /\ RequestInv /\ CleanInv /\ DeadInv BY DEF FileInv
<1>1. /\ splace = "send" /\ rest # <<>> /\ Len(inbox[dst]) < MqMax /\ splace' = splace
      /\ rest' = Tail(rest)
      /\ UNCHANGED <<created, req, dst, requests, name, cplace, mine, file, counted, clean>>
  BY DEF File!SendChunk, File!PutChunk, File!Put, File!clientVars
<1>2. /\ Len(rest) \in Nat \ {0} /\ Head(rest) = rest[1] /\ Head(rest) \in Chunks
      /\ Tail(rest) \in Seq(Chunks) /\ Len(Tail(rest)) = Len(rest) - 1
      /\ \A k \in 1..Len(Tail(rest)) : Tail(rest)[k] = rest[k + 1]
  <2>1. rest \in Seq(Chunks) BY <1>0 DEF FileType
  <2>2. QED BY <1>1, <2>1, RestFacts
<1>3. MqMax \in Nat BY MqAssumption
<1>4. PICK m \in Nat : /\ inbox' = [inbox EXCEPT ![dst] = Append(inbox[dst], m)]
                       /\ Head(rest).text # 0 => m # 0
  <2>1. PICK x \in IF dirty /\ ~Head(rest).nul THEN Residues ELSE {0} :
               inbox' = [inbox EXCEPT ![dst] = Append(inbox[dst], Head(rest).text + x)]
    BY DEF File!SendChunk, File!PutChunk, File!Put
  <2>2. x \in Nat /\ Head(rest).text \in Nat BY <1>2, MqAssumption DEF Chunks
  <2>3. Head(rest).text + x \in Nat /\ (Head(rest).text # 0 => Head(rest).text + x # 0)
    BY <2>2
  <2>4. QED BY <2>1, <2>3
<1>5. /\ FileType' /\ OwnInv' /\ DeadInv' /\ RequestInv'
      /\ dst \in Clients /\ inbox'[dst] = Append(inbox[dst], m)
      /\ \A c \in Clients : c # dst => inbox'[c] = inbox[c]
      /\ \A c \in Clients : Waits(c)' <=> Waits(c)
      /\ \A c \in Clients : ~Fetched(c) /\ ~Fetched(c)' /\ (Serving(c) <=> dst = c)
      /\ \A c \in Clients : Alone(c) => Alone(c)'
      /\ \A c \in Clients : Order(c) => Order(c)'
  BY <1>1, <1>2, <1>3, <1>4, PutMessage
<1>6. ASSUME NEW c \in Clients, Count(c) PROVE Count(c)'
  <2>0. Serving(c)' <=> dst = c BY <1>1 DEF Serving
  <2>1. CASE dst = c
    <3>1. /\ cplace[c] = "recv" /\ Texts(inbox[c]) /\ TextChunks(rest)
          /\ counted[c] + Len(inbox[c]) + Len(rest) = Len(Content[file[c]])
      BY <1>1, <1>6, <2>1 DEF Count
    <3>2. /\ Len(Append(inbox[c], m)) = Len(inbox[c]) + 1 /\ Len(inbox[c]) \in Nat
          /\ \A k \in 1..Len(inbox[c]) : Append(inbox[c], m)[k] = inbox[c][k]
          /\ Append(inbox[c], m)[Len(inbox[c]) + 1] = m
      <4>1. inbox[c] \in Seq(Nat) BY <1>0 DEF FileType
      <4>2. QED BY <4>1, AppendFacts
    <3>3. m # 0
      <4>1. Head(rest).text # 0 BY <1>2, <3>1 DEF TextChunks
      <4>2. QED BY <1>4, <4>1
    <3>4. Texts(inbox'[c])
      <4>1. \A k \in 1..Len(inbox[c]) + 1 : k \in 1..Len(inbox[c]) \/ k = Len(inbox[c]) + 1
        BY <3>2
      <4>2. inbox'[c] = Append(inbox[c], m) BY <1>5, <2>1
      <4>3. QED BY <3>1, <3>2, <3>3, <4>1, <4>2 DEF Texts
    <3>5. TextChunks(rest')
      <4>1. \A k \in 1..Len(Tail(rest)) : k + 1 \in 1..Len(rest) BY <1>2
      <4>2. QED BY <1>1, <1>2, <3>1, <4>1 DEF TextChunks
    <3>6. counted[c] + Len(inbox'[c]) + Len(rest') = Len(Content[file[c]])
      <4>1. counted[c] \in Nat /\ Len(inbox'[c]) = Len(inbox[c]) + 1 /\ Len(rest') = Len(rest) - 1
        BY <1>0, <1>1, <1>2, <1>5, <2>1, <3>2 DEF FileType
      <4>2. Len(rest) \in Nat \ {0} /\ Len(inbox[c]) \in Nat BY <1>2, <3>2
      <4>3. counted[c] + Len(inbox[c]) + Len(rest) = Len(Content[file[c]]) BY <3>1
      <4>4. \A g, n \in Nat, r \in Nat \ {0} : g + (n + 1) + (r - 1) = g + n + r OBVIOUS
      <4>5. counted[c] + (Len(inbox[c]) + 1) + (Len(rest) - 1) = Len(Content[file[c]])
        BY <4>1, <4>2, <4>3, <4>4
      <4>6. QED BY <4>1, <4>5
    <3>7. Texts(inbox[c])' /\ TextChunks(rest)' BY <3>4, <3>5 DEF Texts, TextChunks
    <3>8. QED BY <1>1, <1>6, <2>0, <2>1, <3>1, <3>6, <3>7 DEF Count
  <2>2. CASE dst # c
    <3>1. Ended(c) => Ended(c)' BY <1>1, <1>5, <2>2 DEF Ended
    <3>2. QED BY <1>1, <1>5, <1>6, <2>0, <2>2, <3>1 DEF Count
  <2>3. QED BY <2>1, <2>2
<1>7. CleanInv'
  BY <1>0, <1>1, <1>5, <1>6 DEF CleanInv, Clean, Running, Plain
<1>8. QED BY <1>5, <1>7 DEF FileInv

LEMMA SendEndKeeps == ASSUME FileInv, File!SendEnd PROVE FileInv'
<1>0. FileType /\ OwnInv /\ RequestInv /\ CleanInv /\ DeadInv BY DEF FileInv
<1>1. /\ splace = "send" /\ rest = <<>> /\ Len(inbox[dst]) < MqMax /\ splace' = "receive"
      /\ inbox' = [inbox EXCEPT ![dst] = Append(inbox[dst], 0)] /\ rest' = rest
      /\ UNCHANGED <<created, req, dst, requests, name, cplace, mine, file, counted, clean>>
  BY DEF File!SendEnd, File!Put, File!clientVars
<1>2. MqMax \in Nat /\ rest \in Seq(Chunks) /\ 0 \in Nat
  BY <1>0, MqAssumption DEF FileType
<1>3. /\ FileType' /\ OwnInv' /\ DeadInv' /\ RequestInv'
      /\ dst \in Clients /\ inbox'[dst] = Append(inbox[dst], 0)
      /\ \A c \in Clients : c # dst => inbox'[c] = inbox[c]
      /\ \A c \in Clients : Waits(c)' <=> Waits(c)
      /\ \A c \in Clients : ~Fetched(c) /\ ~Fetched(c)' /\ (Serving(c) <=> dst = c)
      /\ \A c \in Clients : Alone(c) => Alone(c)'
      /\ \A c \in Clients : Order(c) => Order(c)'
  BY <1>1, <1>2, PutMessage
<1>4. ASSUME NEW c \in Clients, Count(c) PROVE Count(c)'
  <2>1. CASE dst = c
    <3>1. /\ cplace[c] = "recv" /\ Texts(inbox[c])
          /\ counted[c] + Len(inbox[c]) + Len(rest) = Len(Content[file[c]])
      BY <1>1, <1>4, <2>1 DEF Count
    <3>2. /\ Len(inbox'[c]) = Len(inbox[c]) + 1 /\ Len(inbox[c]) \in Nat
          /\ \A k \in 1..Len(inbox[c]) : inbox'[c][k] = inbox[c][k]
          /\ inbox'[c][Len(inbox[c]) + 1] = 0
      <4>1. inbox[c] \in Seq(Nat) BY <1>0 DEF FileType
      <4>2. inbox'[c] = Append(inbox[c], 0) BY <1>3, <2>1
      <4>3. QED BY <1>2, <4>1, <4>2, AppendFacts
    <3>3. counted[c] \in Nat /\ Len(rest) = 0 BY <1>0, <1>1 DEF FileType
    <3>4. Len(inbox'[c]) > 0 /\ inbox'[c][Len(inbox'[c])] = 0 BY <3>2
    <3>5. \A k \in 1..Len(inbox'[c]) - 1 : inbox'[c][k] # 0
      <4>1. 1..Len(inbox'[c]) - 1 = 1..Len(inbox[c]) BY <3>2
      <4>2. QED BY <3>1, <3>2, <4>1 DEF Texts
    <3>6. counted[c] + Len(inbox'[c]) - 1 = Len(Content[file[c]]) BY <3>1, <3>2, <3>3
    <3>7. Ended(c)' BY <1>1, <3>4, <3>5, <3>6 DEF Ended
    <3>8. QED BY <1>1, <3>1, <3>7 DEF Count
  <2>2. CASE dst # c
    <3>1. Ended(c) => Ended(c)' BY <1>1, <1>3, <2>2 DEF Ended
    <3>2. ~Serving(c) BY <1>3, <2>2
    <3>3. QED BY <1>1, <1>3, <1>4, <3>1, <3>2 DEF Count
  <2>3. QED BY <2>1, <2>2
<1>5. CleanInv'
  BY <1>0, <1>1, <1>3, <1>4 DEF CleanInv, Clean, Running, Plain
<1>6. QED BY <1>3, <1>5 DEF FileInv

\* Steps of a client that leave server, requests and file names alone.
LEMMA CleanStays ==
  ASSUME FileInv, UNCHANGED File!serverVars, requests' = requests, file' = file, NEW d \in Clients,
         cplace'[d] = cplace[d], counted'[d] = counted[d], clean'[d] = clean[d], clean[d] => inbox'[d] = inbox[d]
  PROVE  Clean(d)'
<1>0. UNCHANGED <<splace, req, dst, rest>> BY DEF File!serverVars
<1> SUFFICES ASSUME clean[d], cplace[d] # "dead"
             PROVE  /\ Running(d) => Alone(d)'
                    /\ Order(d)'
                    /\ file[d] # Missing /\ Plain(file[d]) => Count(d)'
  BY DEF Clean, Running, Plain
<1>1. /\ Running(d) => Alone(d)
      /\ Order(d)
      /\ file[d] # Missing /\ Plain(file[d]) => Count(d)
  BY DEF FileInv, CleanInv, Clean
<1>2. /\ Waits(d)' <=> Waits(d)
      /\ Fetched(d)' <=> Fetched(d)
      /\ Serving(d)' <=> Serving(d)
      /\ NoneYet(d)' <=> NoneYet(d)
      /\ Ended(d)' <=> Ended(d)
  BY <1>0 DEF Waits, Fetched, Serving, NoneYet, Ended
<1>3. Alone(d) => Alone(d)' BY <1>0 DEF Alone
<1>4. Order(d) => Order(d)' BY <1>0, <1>2 DEF Order
<1>5. Count(d) => Count(d)' BY <1>0, <1>2 DEF Count, Texts, TextChunks
<1>6. QED BY <1>1, <1>3, <1>4, <1>5

\* A step in which client c goes on, when server and requests stay.
LEMMA RequestsStay ==
  ASSUME FileInv, UNCHANGED File!serverVars, requests' = requests, file' = file, NEW c \in Clients,
         \A d \in Clients : d # c => cplace'[d] = cplace[d],
         cplace[c] \in {"recv", "close", "done", "dead"} => cplace'[c] \in {"recv", "close", "done", "dead"},
         cplace'[c] # "off"
  PROVE  RequestInv'
<1>0. UNCHANGED <<splace, req, dst>> BY DEF File!serverVars
<1>1. FileType /\ RequestInv BY DEF FileInv
<1>2. \A r \in Asks : Asked(r) => Asked(r)' BY DEF Asked, Asks
<1>3. \A k \in 1..Len(requests) : requests[k] \in Asks BY <1>1 DEF FileType
<1>4. \A k \in 1..Len(requests) : Asked(requests[k])'
  <2> SUFFICES ASSUME NEW k \in 1..Len(requests) PROVE Asked(requests[k])' OBVIOUS
  <2>1. Asked(requests[k]) BY <1>1 DEF RequestInv
  <2>2. requests[k].from \in Clients /\ requests'[k] = requests[k] BY <1>3 DEF Asks
  <2>3. QED BY <2>1, <2>2 DEF Asked
<1>5. splace \in {"client", "file", "send"} => Asked(req)'
  <2> SUFFICES ASSUME splace \in {"client", "file", "send"} PROVE Asked(req)' OBVIOUS
  <2>1. Asked(req) /\ req.from \in Clients BY <1>1 DEF RequestInv, FileType, Asks
  <2>2. QED BY <1>0, <2>1 DEF Asked
<1>6. \A d \in Clients : cplace[d] # "off" => cplace'[d] # "off" OBVIOUS
<1>7. QED BY <1>0, <1>1, <1>4, <1>5, <1>6 DEF RequestInv

\* O_CREAT: the queue of the pid's name, or a new one.
LEMMA OpenOwnKeeps == ASSUME FileInv, NEW c \in Clients, File!OpenOwn(c) PROVE FileInv'
<1>0. FileType /\ OwnInv /\ RequestInv /\ CleanInv /\ DeadInv BY DEF FileInv
<1>1. /\ cplace[c] = "off" /\ \A d \in Clients : Pid[d] = Pid[c] => ~Running(d)
      /\ mine' = [mine EXCEPT ![c] = IF name[Pid[c]] = Nobody THEN c ELSE name[Pid[c]]]
      /\ name' = [name EXCEPT ![Pid[c]] = IF name[Pid[c]] = Nobody THEN c ELSE name[Pid[c]]]
      /\ clean' = [clean EXCEPT ![c] = name[Pid[c]] = Nobody /\ ~File!AskedBefore(Pid[c])]
      /\ cplace' = [cplace EXCEPT ![c] = "server"]
      /\ UNCHANGED <<file, counted, requests, inbox>> /\ UNCHANGED File!serverVars
  BY DEF File!OpenOwn, File!To, File!Running, Running
<1>2. Pid[c] \in Pids /\ Nobody \notin Clients BY MqAssumption DEF Pids
<1>3. PICK o \in Clients : /\ o = IF name[Pid[c]] = Nobody THEN c ELSE name[Pid[c]]
                           /\ mine' = [mine EXCEPT ![c] = o] /\ name' = [name EXCEPT ![Pid[c]] = o]
                           /\ Pid[o] = Pid[c] /\ (o = c \/ cplace[o] \notin {"off", "done"})
                           /\ name[Pid[c]] # Nobody => o = name[Pid[c]]
                           /\ name[Pid[c]] = Nobody => o = c
  BY <1>0, <1>1, <1>2 DEF OwnInv
<1>4. /\ cplace'[c] = "server" /\ mine'[c] = o /\ name'[Pid[c]] = o
      /\ \A d \in Clients : d # c => cplace'[d] = cplace[d] /\ mine'[d] = mine[d] /\ clean'[d] = clean[d]
      /\ \A p \in Pids : p # Pid[c] => name'[p] = name[p]
  BY <1>0, <1>1, <1>2, <1>3 DEF FileType
<1>5. clean'[c] = (name[Pid[c]] = Nobody /\ ~File!AskedBefore(Pid[c])) BY <1>0, <1>1 DEF FileType
<1>6. FileType'
  <2>1. name' \in [Pids -> Clients \cup {Nobody}] BY <1>0, <1>3 DEF FileType
  <2>2. mine' \in [Clients -> Clients \cup {Nobody}] BY <1>0, <1>3 DEF FileType
  <2>3. clean' \in [Clients -> BOOLEAN]
    <3>1. (name[Pid[c]] = Nobody /\ ~File!AskedBefore(Pid[c])) \in BOOLEAN OBVIOUS
    <3>2. QED BY <1>0, <1>1, <3>1 DEF FileType
  <2>4. cplace' \in [Clients -> {"off", "server", "send", "recv", "close", "done", "dead"}]
    BY <1>0, <1>1 DEF FileType
  <2>5. QED BY <1>0, <1>1, <2>1, <2>2, <2>3, <2>4 DEF FileType, File!serverVars
<1>7. /\ Running(c)'
      /\ \A d \in Clients : d # c => (Running(d)' <=> Running(d))
  BY <1>4 DEF Running
<1>8. OwnInv'
  <2>1. \A d, e \in Clients : Running(d)' /\ Running(e)' /\ Pid[d] = Pid[e] => d = e
    BY <1>0, <1>1, <1>7 DEF OwnInv
  <2>2. \A d \in Clients : Running(d)' => name'[Pid[d]] = mine'[d]
    <3> SUFFICES ASSUME NEW d \in Clients, Running(d)' PROVE name'[Pid[d]] = mine'[d] OBVIOUS
    <3>1. CASE d = c BY <1>4, <3>1
    <3>2. CASE d # c
      <4>1. Running(d) /\ Pid[d] # Pid[c] /\ Pid[d] \in Pids BY <1>1, <1>7, <3>2 DEF Pids
      <4>2. QED BY <1>0, <1>4, <3>2, <4>1 DEF OwnInv
    <3>3. QED BY <3>1, <3>2
  <2>3. \A d \in Clients : cplace'[d] = "off" => /\ inbox'[d] = <<>> /\ counted'[d] = 0 /\ ~clean'[d]
                                                 /\ \A e \in Clients : mine'[e] # d
    <3> SUFFICES ASSUME NEW d \in Clients, cplace'[d] = "off"
                 PROVE  /\ inbox'[d] = <<>> /\ counted'[d] = 0 /\ ~clean'[d]
                        /\ \A e \in Clients : mine'[e] # d
      OBVIOUS
    <3>1. d # c /\ cplace[d] = "off" BY <1>4
    <3>2. d # o BY <1>3, <3>1
    <3>3. QED BY <1>0, <1>1, <1>4, <3>1, <3>2 DEF OwnInv
  <2>4. \A d \in Clients : cplace'[d] # "off" => mine'[d] \in Clients /\ Pid[mine'[d]] = Pid[d]
    BY <1>0, <1>3, <1>4 DEF OwnInv
  <2>5. \A d \in Clients : clean'[d] => mine'[d] = d
    <3>1. clean'[c] => mine'[c] = c BY <1>3, <1>4, <1>5
    <3>2. \A d \in Clients : d # c => (clean'[d] => mine'[d] = d) BY <1>0, <1>4 DEF OwnInv
    <3>3. QED BY <3>1, <3>2
  <2>6. \A p \in Pids : name'[p] # Nobody =>
          /\ name'[p] \in Clients /\ Pid[name'[p]] = p /\ cplace'[name'[p]] \notin {"off", "done"}
          /\ \E d \in Clients : Pid[d] = p /\ (Running(d)' \/ cplace'[d] = "dead")
    <3> SUFFICES ASSUME NEW p \in Pids, name'[p] # Nobody
                 PROVE  /\ name'[p] \in Clients /\ Pid[name'[p]] = p
                        /\ cplace'[name'[p]] \notin {"off", "done"}
                        /\ \E d \in Clients : Pid[d] = p /\ (Running(d)' \/ cplace'[d] = "dead")
      OBVIOUS
    <3>1. CASE p = Pid[c] BY <1>3, <1>4, <1>7, <3>1
    <3>2. CASE p # Pid[c]
      <4>1. name'[p] = name[p] BY <1>4, <3>2
      <4>2. /\ name[p] \in Clients /\ Pid[name[p]] = p /\ cplace[name[p]] \notin {"off", "done"}
            /\ \E d \in Clients : Pid[d] = p /\ (Running(d) \/ cplace[d] = "dead")
        BY <1>0, <4>1 DEF OwnInv
      <4>3. \A d \in Clients : Pid[d] = p => d # c BY <3>2
      <4>4. QED BY <1>4, <1>7, <4>1, <4>2, <4>3
    <3>3. QED BY <3>1, <3>2
  <2>7. QED BY <2>1, <2>2, <2>3, <2>4, <2>5, <2>6 DEF OwnInv
<1>9. RequestInv' BY <1>1, <1>4, RequestsStay
<1>10. CleanInv'
  <2> SUFFICES ASSUME NEW d \in Clients PROVE Clean(d)' BY DEF CleanInv
  <2>1. CASE d # c BY <1>1, <1>4, <2>1, CleanStays
  <2>2. CASE d = c
    <3> SUFFICES ASSUME clean'[c] PROVE Alone(c)' /\ Order(c)' /\ Count(c)' BY <2>2 DEF Clean
    <3>0. UNCHANGED <<splace, req, dst, rest>> BY <1>1 DEF File!serverVars
    <3>1. ~File!AskedBefore(Pid[c]) BY <1>5
    <3>2. \A k \in 1..Len(requests) : Pid[requests[k].from] # Pid[c] BY <3>1 DEF File!AskedBefore
    <3>3. ~(splace = "client" /\ Pid[req.from] = Pid[c]) BY <3>1 DEF File!AskedBefore
    <3>4. ~Waits(c)' /\ ~Fetched(c)'
      <4>1. \A k \in 1..Len(requests) : requests[k].from # c BY <3>2
      <4>2. ~(splace = "client" /\ req.from = c) BY <3>3
      <4>3. QED BY <1>1, <3>0, <4>1, <4>2 DEF Waits, Fetched
    <3>5. ~Serving(c)' BY <1>0, <1>1, <3>0 DEF RequestInv, Serving
    <3>6. inbox'[c] = <<>> /\ counted'[c] = 0 BY <1>0, <1>1 DEF OwnInv
    <3>7. Alone(c)' BY <1>1, <3>0, <3>2, <3>3 DEF Alone
    <3>8. \A j, k \in 1..Len(requests') : requests'[j].from = c /\ requests'[k].from = c => j = k
      BY <1>1, <3>2
    <3>9. ~(splace' = "file" /\ dst' = c) /\ ~(splace' = "send" /\ dst' = c) BY <3>5 DEF Serving
    <3>10. Order(c)' BY <3>4, <3>5, <3>6, <3>8, <3>9 DEF Order
    <3>11. Count(c)' BY <1>4, <3>9 DEF Count
    <3>12. QED BY <3>7, <3>10, <3>11
  <2>3. QED BY <2>1, <2>2
<1>11. DeadInv'
  <2> SUFFICES ASSUME NEW d \in Clients, cplace'[d] # "off", ~clean'[d]
               PROVE  \E e \in Clients : Pid[e] = Pid[d] /\ cplace'[e] = "dead"
    BY DEF DeadInv
  <2>1. CASE d # c
    <3>1. PICK e \in Clients : Pid[e] = Pid[d] /\ cplace[e] = "dead" BY <1>0, <1>4, <2>1 DEF DeadInv
    <3>2. e # c BY <1>1, <3>1
    <3>3. QED BY <1>4, <3>1, <3>2
  <2>2. CASE d = c
    <3>1. ASSUME NEW e \in Clients, Pid[e] = Pid[c], cplace[e] = "dead"
          PROVE  \E f \in Clients : Pid[f] = Pid[d] /\ cplace'[f] = "dead"
      <4>1. e # c BY <1>1, <3>1
      <4>2. QED BY <1>4, <2>2, <3>1, <4>1
    <3>2. CASE name[Pid[c]] # Nobody
      <4>1. PICK e \in Clients : Pid[e] = Pid[c] /\ (Running(e) \/ cplace[e] = "dead")
        BY <1>0, <1>2, <3>2 DEF OwnInv
      <4>2. cplace[e] = "dead" BY <1>1, <4>1
      <4>3. QED BY <3>1, <4>1, <4>2
    <3>3. CASE File!AskedBefore(Pid[c])
      <4>1. PICK e \in Clients : /\ Pid[e] = Pid[c] /\ (Waits(e) \/ Fetched(e))
                                 /\ cplace[e] \in {"recv", "close", "done", "dead"}
        <5>1. ASSUME NEW k \in 1..Len(requests), Pid[requests[k].from] = Pid[c]
              PROVE  \E e \in Clients : /\ Pid[e] = Pid[c] /\ (Waits(e) \/ Fetched(e))
                                        /\ cplace[e] \in {"recv", "close", "done", "dead"}
          <6>1. requests[k].from \in Clients
            <7>1. requests \in Seq(Asks) BY <1>0 DEF FileType
            <7>2. requests[k] \in Asks BY <7>1
            <7>3. QED BY <7>2 DEF Asks
          <6>2. cplace[requests[k].from] \in {"recv", "close", "done", "dead"}
            BY <1>0 DEF RequestInv, Asked
          <6>3. Waits(requests[k].from) BY DEF Waits
          <6>4. QED BY <5>1, <6>1, <6>2, <6>3
        <5>2. ASSUME splace = "client", Pid[req.from] = Pid[c]
              PROVE  \E e \in Clients : /\ Pid[e] = Pid[c] /\ (Waits(e) \/ Fetched(e))
                                        /\ cplace[e] \in {"recv", "close", "done", "dead"}
          <6>1. req.from \in Clients BY <1>0, <5>2 DEF FileType, Asks
          <6>2. cplace[req.from] \in {"recv", "close", "done", "dead"} /\ Fetched(req.from)
            BY <1>0, <5>2 DEF RequestInv, Asked, Fetched
          <6>3. QED BY <5>2, <6>1, <6>2
        <5>3. QED BY <3>3, <5>1, <5>2 DEF File!AskedBefore
      <4>2. cplace[e] \in {"done", "dead"} BY <1>1, <4>1 DEF Running
      <4>3. CASE cplace[e] = "dead" BY <3>1, <4>1, <4>3
      <4>4. CASE cplace[e] = "done"
        <5>1. ~clean[e] BY <1>0, <4>1, <4>4 DEF CleanInv, Clean, Order, NoneYet
        <5>2. PICK f \in Clients : Pid[f] = Pid[e] /\ cplace[f] = "dead"
          BY <1>0, <4>4, <5>1 DEF DeadInv
        <5>3. QED BY <3>1, <4>1, <5>2
      <4>5. QED BY <4>2, <4>3, <4>4
    <3>4. QED BY <1>5, <2>2, <3>2, <3>3
  <2>3. QED BY <2>1, <2>2
<1>12. QED BY <1>6, <1>8, <1>9, <1>10, <1>11 DEF FileInv

\* A running client that goes on or dies, its queue and its name as they were.
LEMMA GoesOnKeeps ==
  ASSUME FileInv, NEW c \in Clients, Running(c), cplace'[c] # "off", cplace'[c] # "done",
         \A d \in Clients : d # c => cplace'[d] = cplace[d],
         UNCHANGED <<mine, clean, name, inbox, counted>>
  PROVE  OwnInv' /\ DeadInv'
<1>0. OwnInv /\ DeadInv BY DEF FileInv
<1>1. /\ \A d \in Clients : d # c => (Running(d)' <=> Running(d))
      /\ \A d \in Clients : Running(d)' => Running(d)
      /\ Running(c)' \/ cplace'[c] = "dead"
      /\ cplace[c] \notin {"off", "done", "dead"}
  BY DEF Running
<1>2. OwnInv'
  <2>1. \A d, e \in Clients : Running(d)' /\ Running(e)' /\ Pid[d] = Pid[e] => d = e
    BY <1>0, <1>1 DEF OwnInv
  <2>2. \A d \in Clients :
          /\ Running(d)' => name[Pid[d]] = mine[d]
          /\ cplace'[d] = "off" => /\ inbox[d] = <<>> /\ counted[d] = 0 /\ ~clean[d]
                                   /\ \A e \in Clients : mine[e] # d
          /\ cplace'[d] # "off" => mine[d] \in Clients /\ Pid[mine[d]] = Pid[d]
          /\ clean[d] => mine[d] = d
    BY <1>0, <1>1 DEF OwnInv
  <2>3. \A p \in Pids : name[p] # Nobody =>
          /\ name[p] \in Clients /\ Pid[name[p]] = p /\ cplace'[name[p]] \notin {"off", "done"}
          /\ \E d \in Clients : Pid[d] = p /\ (Running(d)' \/ cplace'[d] = "dead")
    <3> SUFFICES ASSUME NEW p \in Pids, name[p] # Nobody
                 PROVE  /\ name[p] \in Clients /\ Pid[name[p]] = p /\ cplace'[name[p]] \notin {"off", "done"}
                        /\ \E d \in Clients : Pid[d] = p /\ (Running(d)' \/ cplace'[d] = "dead")
      OBVIOUS
    <3>1. name[p] \in Clients /\ Pid[name[p]] = p /\ cplace[name[p]] \notin {"off", "done"}
      BY <1>0 DEF OwnInv
    <3>2. PICK d \in Clients : Pid[d] = p /\ (Running(d) \/ cplace[d] = "dead")
      BY <1>0 DEF OwnInv
    <3>3. Running(d)' \/ cplace'[d] = "dead" BY <1>1, <3>2
    <3>4. QED BY <3>1, <3>2, <3>3
  <2>4. QED BY <2>1, <2>2, <2>3 DEF OwnInv
<1>3. DeadInv'
  <2> SUFFICES ASSUME NEW d \in Clients, cplace'[d] # "off", ~clean[d]
               PROVE  \E e \in Clients : Pid[e] = Pid[d] /\ cplace'[e] = "dead"
    BY DEF DeadInv
  <2>1. PICK e \in Clients : Pid[e] = Pid[d] /\ cplace[e] = "dead" BY <1>0, <1>1 DEF DeadInv
  <2>2. e # c BY <1>1, <2>1
  <2>3. QED BY <2>1, <2>2
<1>4. QED BY <1>2, <1>3

LEMMA OpenServerKeeps == ASSUME FileInv, NEW c \in Clients, File!OpenServer(c) PROVE FileInv'
<1>0. FileType /\ OwnInv /\ RequestInv /\ CleanInv /\ DeadInv BY DEF FileInv
<1>1. /\ cplace[c] = "server" /\ cplace' = [cplace EXCEPT ![c] = IF created THEN "send" ELSE "dead"]
      /\ UNCHANGED <<mine, file, counted, clean, requests, name, inbox>> /\ UNCHANGED File!serverVars
  BY DEF File!OpenServer, File!To
<1>2. PICK s \in {"send", "dead"} : cplace' = [cplace EXCEPT ![c] = s] BY <1>1
<1>3. cplace'[c] = s /\ \A d \in Clients : d # c => cplace'[d] = cplace[d] BY <1>0, <1>2 DEF FileType
<1>4. FileType'
  <2>1. cplace' \in [Clients -> {"off", "server", "send", "recv", "close", "done", "dead"}]
    BY <1>0, <1>2 DEF FileType
  <2>2. QED BY <1>0, <1>1, <2>1 DEF FileType, File!serverVars
<1>5. OwnInv' /\ DeadInv'
  <2>1. Running(c) BY <1>1 DEF Running
  <2>2. QED BY <1>1, <1>3, <2>1, GoesOnKeeps
<1>6. RequestInv' BY <1>1, <1>3, RequestsStay
<1>7. CleanInv'
  <2> SUFFICES ASSUME NEW d \in Clients PROVE Clean(d)' BY DEF CleanInv
  <2>1. CASE d # c BY <1>1, <1>3, <2>1, CleanStays
  <2>2. CASE d = c
    <3> SUFFICES ASSUME clean[c], s = "send"
                 PROVE  Alone(c)' /\ Order(c)' /\ Count(c)'
      BY <1>1, <1>3, <2>2 DEF Clean
    <3>0. UNCHANGED <<splace, req, dst, rest>> BY <1>1 DEF File!serverVars
    <3>1. Alone(c) /\ Order(c) BY <1>0, <1>1 DEF CleanInv, Clean, Running
    <3>2. ~Waits(c) /\ ~Fetched(c) /\ ~Serving(c) /\ inbox[c] = <<>> /\ counted[c] = 0
      BY <1>1, <3>1 DEF Order
    <3>3. ~Waits(c)' /\ ~Fetched(c)' /\ ~Serving(c)' BY <1>1, <3>0, <3>2 DEF Waits, Fetched, Serving
    <3>4. Alone(c)' BY <1>1, <3>0, <3>1 DEF Alone
    <3>5. ~(splace' = "file" /\ dst' = c) /\ ~(splace' = "send" /\ dst' = c) BY <3>3 DEF Serving
    <3>6. Order(c)' BY <1>1, <3>1, <3>2, <3>3, <3>5 DEF Order
    <3>7. Count(c)' BY <1>3, <3>5 DEF Count
    <3>8. QED BY <3>4, <3>6, <3>7
  <2>3. QED BY <2>1, <2>2
<1>8. QED BY <1>4, <1>5, <1>6, <1>7 DEF FileInv

\* mq_send of the request.
LEMMA RequestKeeps == ASSUME FileInv, NEW c \in Clients, File!Request(c) PROVE FileInv'
<1>0. FileType /\ OwnInv /\ RequestInv /\ CleanInv /\ DeadInv BY DEF FileInv
<1> DEFINE r == [from |-> c, file |-> file[c]]
<1>1. /\ cplace[c] = "send" /\ Len(requests) < MqMax /\ cplace' = [cplace EXCEPT ![c] = "recv"]
      /\ requests' = Append(requests, r)
      /\ UNCHANGED <<mine, file, counted, clean, name, inbox, created, splace, req, dst, rest>>
  BY DEF File!Request, File!To, File!serverVars
<1>2. cplace'[c] = "recv" /\ \A d \in Clients : d # c => cplace'[d] = cplace[d] BY <1>0, <1>1 DEF FileType
<1>3. r \in Asks /\ r.from = c /\ r.file = file[c] BY <1>0 DEF FileType, Asks
<1> HIDE DEF r
<1>4. /\ requests' \in Seq(Asks) /\ Len(requests') = Len(requests) + 1 /\ Len(requests) \in Nat
      /\ \A k \in 1..Len(requests) : requests'[k] = requests[k]
      /\ requests'[Len(requests) + 1] = r
      /\ \A k \in 1..Len(requests') : k \in 1..Len(requests) \/ k = Len(requests) + 1
  <2>1. requests \in Seq(Asks) BY <1>0 DEF FileType
  <2>2. /\ requests' \in Seq(Asks) /\ Len(requests') = Len(requests) + 1 /\ Len(requests) \in Nat
        /\ \A k \in 1..Len(requests) : requests'[k] = requests[k]
        /\ requests'[Len(requests) + 1] = r
    BY <1>1, <1>3, <2>1, AppendFacts
  <2>3. \A k \in 1..Len(requests') : k \in 1..Len(requests) \/ k = Len(requests) + 1 BY <2>2
  <2>4. QED BY <2>2, <2>3
<1>5. FileType'
  <2>1. cplace' \in [Clients -> {"off", "server", "send", "recv", "close", "done", "dead"}]
    BY <1>0, <1>1 DEF FileType
  <2>2. Len(requests') <= MqMax BY <1>1, <1>4, MqAssumption
  <2>3. QED BY <1>0, <1>1, <1>4, <2>1, <2>2 DEF FileType
<1>6. OwnInv' /\ DeadInv'
  <2>1. Running(c) BY <1>1 DEF Running
  <2>2. QED BY <1>1, <1>2, <2>1, GoesOnKeeps
<1>7. RequestInv'
  <2>1. \A k \in 1..Len(requests') : Asked(requests[k])'
    <3> SUFFICES ASSUME NEW k \in 1..Len(requests') PROVE Asked(requests[k])' OBVIOUS
    <3>1. CASE k \in 1..Len(requests)
      <4>1. Asked(requests[k]) /\ requests[k].from \in Clients
        <5>1. requests \in Seq(Asks) BY <1>0 DEF FileType
        <5>2. requests[k] \in Asks BY <3>1, <5>1
        <5>3. QED BY <1>0, <3>1, <5>2 DEF RequestInv, Asks
      <4>2. requests'[k] = requests[k] BY <1>4, <3>1
      <4>3. QED BY <1>1, <1>2, <4>1, <4>2 DEF Asked
    <3>2. CASE k = Len(requests) + 1
      <4>1. requests'[k] = r BY <1>4, <3>2
      <4>2. QED BY <1>1, <1>2, <1>3, <4>1 DEF Asked
    <3>3. QED BY <1>4, <3>1, <3>2
  <2>2. splace \in {"client", "file", "send"} => Asked(req)'
    <3>1. splace \in {"client", "file", "send"} => Asked(req) /\ req.from \in Clients
      BY <1>0 DEF RequestInv, FileType, Asks
    <3>2. QED BY <1>1, <1>2, <3>1 DEF Asked
  <2>3. QED BY <1>0, <1>1, <1>2, <2>1, <2>2 DEF RequestInv
<1>8. CleanInv'
  <2> SUFFICES ASSUME NEW d \in Clients, clean[d], cplace'[d] # "dead"
               PROVE  /\ Running(d)' => Alone(d)'
                      /\ Order(d)'
                      /\ file[d] # Missing /\ Plain(file[d]) => Count(d)'
    BY <1>1 DEF CleanInv, Clean, Plain
  <2>0. cplace[d] # "dead" /\ (Running(d)' <=> Running(d))
    BY <1>1, <1>2 DEF Running
  <2>1. /\ Running(d) => Alone(d)
        /\ Order(d)
        /\ file[d] # Missing /\ Plain(file[d]) => Count(d)
    BY <1>0, <2>0 DEF CleanInv, Clean
  <2>2. (Fetched(d)' <=> Fetched(d)) /\ (Serving(d)' <=> Serving(d)) BY <1>1 DEF Fetched, Serving
  <2>3. CASE d = c
    <3>1. Alone(c) /\ ~Waits(c) /\ ~Fetched(c) /\ ~Serving(c) /\ inbox[c] = <<>> /\ counted[c] = 0
      BY <1>1, <2>1, <2>3 DEF Order, Running
    <3>2. \A k \in 1..Len(requests) : requests[k].from # c BY <3>1 DEF Waits
    <3>3. \A k \in 1..Len(requests') : requests'[k].from = c => k = Len(requests) + 1
      BY <1>4, <3>2
    <3>4. \A j, k \in 1..Len(requests') : requests'[j].from = c /\ requests'[k].from = c => j = k
      BY <3>3
    <3>5. Waits(c)'
      <4>1. Len(requests) + 1 \in 1..Len(requests') BY <1>4
      <4>2. requests'[Len(requests) + 1].from = c BY <1>3, <1>4
      <4>3. \E k \in 1..Len(requests') : requests'[k].from = c BY <4>1, <4>2
      <4>4. QED BY <4>3 DEF Waits
    <3>6. NoneYet(c)' BY <1>1, <1>2, <3>1 DEF NoneYet
    <3>7. ~(splace' = "send" /\ dst' = c) BY <1>1, <3>1 DEF Serving
    <3>8. Order(c)' BY <1>2, <2>2, <2>3, <3>1, <3>4, <3>6 DEF Order
    <3>9. Alone(c)'
      <4>1. \A k \in 1..Len(requests) : Pid[requests[k].from] = Pid[c] => requests[k].from = c
        BY <3>1 DEF Alone
      <4>2. \A k \in 1..Len(requests') : Pid[requests'[k].from] = Pid[c] => requests'[k].from = c
        BY <1>3, <1>4, <4>1
      <4>3. splace' = "client" /\ Pid[req'.from] = Pid[c] => req'.from = c BY <1>1, <3>1 DEF Alone
      <4>4. QED BY <4>2, <4>3 DEF Alone
    <3>10. Count(c)' BY <1>2, <3>5, <3>7 DEF Count
    <3>11. QED BY <2>3, <3>8, <3>9, <3>10
  <2>4. CASE d # c
    <3>1. cplace'[d] = cplace[d] BY <1>2, <2>4
    <3>2. Waits(d)' <=> Waits(d)
      <4>1. ASSUME NEW k \in 1..Len(requests'), requests'[k].from = d PROVE Waits(d)
        <5>1. k \in 1..Len(requests) BY <1>3, <1>4, <2>4, <4>1
        <5>2. requests[k].from = d BY <1>4, <4>1, <5>1
        <5>3. QED BY <5>1, <5>2 DEF Waits
      <4>2. ASSUME NEW k \in 1..Len(requests), requests[k].from = d PROVE Waits(d)'
        <5>1. k \in 1..Len(requests') /\ requests'[k].from = d BY <1>4, <4>2
        <5>2. \E j \in 1..Len(requests') : requests'[j].from = d BY <5>1
        <5>3. QED BY <5>2 DEF Waits
      <4>3. Waits(d)' => \E k \in 1..Len(requests') : requests'[k].from = d BY DEF Waits
      <4>4. Waits(d) => \E k \in 1..Len(requests) : requests[k].from = d BY DEF Waits
      <4>5. QED BY <4>1, <4>2, <4>3, <4>4
    <3>3. \A j, k \in 1..Len(requests') : requests'[j].from = d /\ requests'[k].from = d => j = k
      <4>1. \A j, k \in 1..Len(requests) : requests[j].from = d /\ requests[k].from = d => j = k
        BY <2>1 DEF Order
      <4>2. \A k \in 1..Len(requests') : requests'[k].from = d =>
              k \in 1..Len(requests) /\ requests[k].from = d
        BY <1>3, <1>4, <2>4
      <4>3. QED BY <4>1, <4>2
    <3>4. NoneYet(d)' <=> NoneYet(d) BY <1>1, <3>1 DEF NoneYet
    <3>5. Order(d)' BY <1>1, <2>1, <2>2, <3>1, <3>2, <3>3, <3>4 DEF Order
    <3>6. Running(d) => Alone(d)'
      <4> SUFFICES ASSUME Running(d) PROVE Alone(d)' OBVIOUS
      <4>1. Pid[d] # Pid[c]
        <5>1. Running(c) BY <1>1 DEF Running
        <5>2. QED BY <1>0, <2>4, <5>1 DEF OwnInv
      <4>2. \A k \in 1..Len(requests) : Pid[requests[k].from] = Pid[d] => requests[k].from = d
        BY <2>1 DEF Alone
      <4>3. \A k \in 1..Len(requests') : Pid[requests'[k].from] = Pid[d] => requests'[k].from = d
        BY <1>3, <1>4, <4>1, <4>2
      <4>4. splace' = "client" /\ Pid[req'.from] = Pid[d] => req'.from = d BY <1>1, <2>1 DEF Alone
      <4>5. QED BY <4>3, <4>4 DEF Alone
    <3>7. Count(d) => Count(d)'
      <4>1. Ended(d)' <=> Ended(d) BY <1>1 DEF Ended
      <4>2. QED BY <1>1, <2>2, <3>1, <3>2, <4>1 DEF Count, Texts, TextChunks
    <3>8. QED BY <2>0, <2>1, <3>5, <3>6, <3>7
  <2>5. QED BY <2>3, <2>4
<1>9. QED BY <1>5, <1>6, <1>7, <1>8 DEF FileInv

LEMMA KillKeeps == ASSUME FileInv, NEW c \in Clients, File!Kill(c) PROVE FileInv'
<1>0. FileType /\ CleanInv BY DEF FileInv
<1>1. /\ Running(c) /\ cplace' = [cplace EXCEPT ![c] = "dead"]
      /\ UNCHANGED <<mine, file, counted, clean, requests, name, inbox>> /\ UNCHANGED File!serverVars
  BY DEF File!Kill, File!To, File!Running, Running
<1>2. cplace'[c] = "dead" /\ \A d \in Clients : d # c => cplace'[d] = cplace[d] BY <1>0, <1>1 DEF FileType
<1>3. FileType'
  <2>1. cplace' \in [Clients -> {"off", "server", "send", "recv", "close", "done", "dead"}]
    BY <1>0, <1>1 DEF FileType
  <2>2. QED BY <1>0, <1>1, <2>1 DEF FileType, File!serverVars
<1>4. OwnInv' /\ DeadInv' BY <1>1, <1>2, GoesOnKeeps
<1>5. RequestInv' BY <1>1, <1>2, RequestsStay
<1>6. CleanInv'
  <2> SUFFICES ASSUME NEW d \in Clients PROVE Clean(d)' BY DEF CleanInv
  <2>1. CASE d # c BY <1>1, <1>2, <2>1, CleanStays
  <2>2. CASE d = c BY <1>2, <2>2 DEF Clean
  <2>3. QED BY <2>1, <2>2
<1>7. QED BY <1>3, <1>4, <1>5, <1>6 DEF FileInv

\* A message is taken; nobody else that still counts has this queue.
LEMMA FileRecvKeeps == ASSUME FileInv, NEW c \in Clients, File!Recv(c) PROVE FileInv'
<1>0. FileType /\ OwnInv /\ RequestInv /\ CleanInv /\ DeadInv BY DEF FileInv
<1>1. /\ cplace[c] = "recv" /\ inbox[mine[c]] # <<>>
      /\ inbox' = [inbox EXCEPT ![mine[c]] = Tail(inbox[mine[c]])]
      /\ IF Head(inbox[mine[c]]) = 0 THEN cplace' = [cplace EXCEPT ![c] = "close"] /\ counted' = counted
         ELSE cplace' = [cplace EXCEPT ![c] = "recv"] /\ counted' = [counted EXCEPT ![c] = counted[c] + 1]
      /\ UNCHANGED <<mine, file, clean, requests, name>> /\ UNCHANGED File!serverVars
  BY DEF File!Recv, File!To
<1>2. PICK o \in Clients : o = mine[c] BY <1>0, <1>1 DEF OwnInv
<1>3. MqMax \in Nat /\ Nobody \notin Clients BY MqAssumption
<1>4. /\ inbox[o] \in Seq(Nat) /\ Len(inbox[o]) \in Nat \ {0} /\ Head(inbox[o]) = inbox[o][1]
      /\ Head(inbox[o]) \in Nat /\ Tail(inbox[o]) \in Seq(Nat)
      /\ Len(Tail(inbox[o])) = Len(inbox[o]) - 1
      /\ \A k \in 1..Len(Tail(inbox[o])) : Tail(inbox[o])[k] = inbox[o][k + 1]
  <2>1. inbox[o] \in Seq(Nat) /\ inbox[o] # <<>> BY <1>0, <1>1, <1>2 DEF FileType
  <2>2. QED BY <2>1, RestFacts
<1>5. /\ inbox'[o] = Tail(inbox[o]) /\ \A d \in Clients : d # o => inbox'[d] = inbox[d]
      /\ \A d \in Clients : d # c => cplace'[d] = cplace[d] /\ counted'[d] = counted[d]
      /\ IF Head(inbox[o]) = 0 THEN cplace'[c] = "close" /\ counted'[c] = counted[c]
         ELSE cplace'[c] = "recv" /\ counted'[c] = counted[c] + 1
  <2>1. inbox'[o] = Tail(inbox[o]) /\ \A d \in Clients : d # o => inbox'[d] = inbox[d]
    BY <1>0, <1>1, <1>2 DEF FileType
  <2>2. CASE Head(inbox[o]) = 0 BY <1>0, <1>1, <1>2, <2>1, <2>2 DEF FileType
  <2>3. CASE Head(inbox[o]) # 0 BY <1>0, <1>1, <1>2, <2>1, <2>3 DEF FileType
  <2>4. QED BY <2>2, <2>3
<1>6. FileType'
  <2>1. cplace' \in [Clients -> {"off", "server", "send", "recv", "close", "done", "dead"}]
    BY <1>0, <1>1 DEF FileType
  <2>2. counted' \in [Clients -> Nat]
    <3>1. counted \in [Clients -> Nat] /\ counted[c] + 1 \in Nat BY <1>0 DEF FileType
    <3>2. counted' = counted \/ counted' = [counted EXCEPT ![c] = counted[c] + 1] BY <1>1
    <3>3. QED BY <3>1, <3>2
  <2>3. inbox' \in [Clients -> Seq(Nat)] BY <1>0, <1>1, <1>2, <1>4 DEF FileType
  <2>4. \A d \in Clients : Len(inbox'[d]) <= MqMax
    <3>1. \A d \in Clients : Len(inbox[d]) <= MqMax BY <1>0 DEF FileType
    <3>2. \A d \in Clients : d # o => Len(inbox'[d]) <= MqMax BY <1>5, <3>1
    <3>3. Len(inbox'[o]) = Len(inbox[o]) - 1 BY <1>4, <1>5
    <3>4. Len(inbox'[o]) <= MqMax BY <1>3, <1>4, <3>1, <3>3
    <3>5. QED BY <3>2, <3>4
  <2>5. QED BY <1>0, <1>1, <2>1, <2>2, <2>3, <2>4 DEF FileType, File!serverVars
<1>7. /\ \A d \in Clients : Running(d)' <=> Running(d)
      /\ \A d \in Clients : cplace'[d] \in {"off", "done", "dead"} \/ cplace[d] \in {"off", "done", "dead"}
                              => cplace'[d] = cplace[d]
  BY <1>1, <1>5 DEF Running
<1>8. OwnInv'
  <2>1. \A d, e \in Clients : Running(d)' /\ Running(e)' /\ Pid[d] = Pid[e] => d = e
    BY <1>0, <1>7 DEF OwnInv
  <2>2. \A d \in Clients : cplace'[d] = "off" => /\ inbox'[d] = <<>> /\ counted'[d] = 0 /\ ~clean[d]
                                                 /\ \A e \in Clients : mine[e] # d
    <3> SUFFICES ASSUME NEW d \in Clients, cplace'[d] = "off"
                 PROVE  /\ inbox'[d] = <<>> /\ counted'[d] = 0 /\ ~clean[d]
                        /\ \A e \in Clients : mine[e] # d
      OBVIOUS
    <3>1. cplace[d] = "off" /\ d # c BY <1>1, <1>7
    <3>2. d # o BY <1>0, <1>2, <3>1 DEF OwnInv
    <3>3. QED BY <1>0, <1>5, <3>1, <3>2 DEF OwnInv
  <2>3. \A d \in Clients :
          /\ Running(d)' => name[Pid[d]] = mine[d]
          /\ cplace'[d] # "off" => mine[d] \in Clients /\ Pid[mine[d]] = Pid[d]
          /\ clean[d] => mine[d] = d
    BY <1>0, <1>7 DEF OwnInv
  <2>4. \A p \in Pids : name[p] # Nobody =>
          /\ name[p] \in Clients /\ Pid[name[p]] = p /\ cplace'[name[p]] \notin {"off", "done"}
          /\ \E d \in Clients : Pid[d] = p /\ (Running(d)' \/ cplace'[d] = "dead")
    <3> SUFFICES ASSUME NEW p \in Pids, name[p] # Nobody
                 PROVE  /\ name[p] \in Clients /\ Pid[name[p]] = p /\ cplace'[name[p]] \notin {"off", "done"}
                        /\ \E d \in Clients : Pid[d] = p /\ (Running(d)' \/ cplace'[d] = "dead")
      OBVIOUS
    <3>1. name[p] \in Clients /\ Pid[name[p]] = p /\ cplace[name[p]] \notin {"off", "done"}
      BY <1>0 DEF OwnInv
    <3>2. PICK d \in Clients : Pid[d] = p /\ (Running(d) \/ cplace[d] = "dead")
      BY <1>0 DEF OwnInv
    <3>3. Running(d)' \/ cplace'[d] = "dead" BY <1>7, <3>2
    <3>4. cplace'[name[p]] \notin {"off", "done"} BY <1>7, <3>1
    <3>5. QED BY <3>1, <3>2, <3>3, <3>4
  <2>5. QED BY <1>1, <2>1, <2>2, <2>3, <2>4 DEF OwnInv
<1>9. RequestInv'
  <2>1. cplace'[c] \in {"recv", "close"} BY <1>5
  <2>2. QED BY <1>1, <1>5, <2>1, RequestsStay
<1>10. CleanInv'
  <2> SUFFICES ASSUME NEW d \in Clients PROVE Clean(d)' BY DEF CleanInv
  <2>1. CASE d # c
    <3>1. CASE cplace[d] = "dead" BY <1>5, <2>1, <3>1 DEF Clean
    <3>2. CASE cplace[d] # "dead"
      <4>1. d # o
        <5> SUFFICES ASSUME d = o PROVE FALSE OBVIOUS
        <5>1. Running(c) BY <1>1 DEF Running
        <5>2. Pid[c] \in Pids /\ name[Pid[c]] = d /\ Pid[d] = Pid[c]
          BY <1>0, <1>1, <1>2, <5>1 DEF OwnInv, Pids
        <5>3. cplace[d] \notin {"off", "done"} BY <1>0, <1>3, <5>2 DEF OwnInv
        <5>4. Running(d) BY <3>2, <5>3 DEF Running
        <5>5. QED BY <1>0, <2>1, <5>1, <5>2, <5>4 DEF OwnInv
      <4>2. QED BY <1>1, <1>5, <2>1, <4>1, CleanStays
    <3>3. QED BY <3>1, <3>2
  <2>2. CASE d = c
    <3> SUFFICES ASSUME clean[c]
                 PROVE  /\ Alone(c)' /\ Order(c)'
                        /\ file[c] # Missing /\ Plain(file[c]) => Count(c)'
      BY <1>1, <1>5, <2>2 DEF Clean, Plain
    <3>0. UNCHANGED <<splace, req, dst, rest>> BY <1>1 DEF File!serverVars
    <3>1. /\ Alone(c) /\ Order(c)
          /\ file[c] # Missing /\ Plain(file[c]) => Count(c)
      BY <1>0, <1>1 DEF CleanInv, Clean, Running
    <3>2. o = c BY <1>0, <1>2 DEF OwnInv
    <3>3. ~NoneYet(c) BY <1>1, <1>2, <3>2 DEF NoneYet
    <3>4. ~Waits(c) /\ ~Fetched(c) /\ ~(splace = "file" /\ dst = c) BY <3>1, <3>3 DEF Order
    <3>5. ~Waits(c)' /\ ~Fetched(c)' /\ (Serving(c)' <=> Serving(c)) /\ ~(splace' = "file" /\ dst' = c)
      BY <1>1, <3>0, <3>4 DEF Waits, Fetched, Serving
    <3>6. cplace'[c] \in {"recv", "close"} BY <1>5
    <3>7. Alone(c)' BY <1>1, <3>0, <3>1 DEF Alone
    <3>8. Order(c)' BY <1>1, <3>0, <3>1, <3>5, <3>6 DEF Order
    <3>9. ASSUME Count(c) PROVE Count(c)'
      <4>a. inbox'[c] = Tail(inbox[c]) /\ Head(inbox[c]) = inbox[c][1] /\ file'[c] = file[c]
        BY <1>1, <1>4, <1>5, <3>2
      <4>b. /\ counted[c] \in Nat /\ Len(inbox[c]) \in Nat /\ Len(inbox[c]) # 0
            /\ Len(inbox'[c]) = Len(inbox[c]) - 1
        <5>1. counted[c] \in Nat BY <1>0 DEF FileType
        <5>2. Len(inbox[c]) \in Nat /\ Len(inbox[c]) # 0 /\ Len(Tail(inbox[c])) = Len(inbox[c]) - 1
          BY <1>4, <3>2
        <5>3. QED BY <4>a, <5>1, <5>2
      <4>0. \A k \in 1..Len(inbox'[c]) : inbox'[c][k] = inbox[c][k + 1]
        BY <1>4, <3>2, <4>a
      <4>1. CASE splace = "send" /\ dst = c
        <5>1. /\ Texts(inbox[c]) /\ TextChunks(rest)
              /\ counted[c] + Len(inbox[c]) + Len(rest) = Len(Content[file[c]])
          BY <3>9, <4>1 DEF Count
        <5>2. Head(inbox[c]) # 0
          <6>1. 1 \in 1..Len(inbox[c]) BY <4>b
          <6>2. QED BY <4>a, <5>1, <6>1 DEF Texts
        <5>3. cplace'[c] = "recv" /\ counted'[c] = counted[c] + 1 BY <1>5, <3>2, <5>2
        <5>4. Texts(inbox'[c])
          <6>1. \A k \in 1..Len(inbox'[c]) : k + 1 \in 1..Len(inbox[c]) BY <4>b
          <6>2. QED BY <4>0, <5>1, <6>1 DEF Texts
        <5>5. counted'[c] + Len(inbox'[c]) + Len(rest) = Len(Content[file[c]])
          <6>1. \A g, n \in Nat : (g + 1) + (n - 1) = g + n OBVIOUS
          <6>2. (counted[c] + 1) + (Len(inbox[c]) - 1) = counted[c] + Len(inbox[c]) BY <4>b, <6>1
          <6>3. QED BY <4>b, <5>1, <5>3, <6>2
        <5>6. Texts(inbox[c])' /\ TextChunks(rest)' BY <3>0, <5>1, <5>4 DEF Texts, TextChunks
        <5>7. Serving(c)' BY <3>5, <4>1 DEF Serving
        <5>8. QED BY <3>0, <4>a, <5>3, <5>5, <5>6, <5>7 DEF Count
      <4>2. CASE ~(splace = "send" /\ dst = c)
        <5>1. ~Serving(c) /\ ~Serving(c)' BY <3>4, <3>5, <4>2 DEF Serving
        <5>2. Ended(c) BY <1>1, <3>4, <3>9, <5>1 DEF Count
        <5>3. CASE Head(inbox[c]) = 0
          <6>1. Len(inbox[c]) = 1
            <7>1. 1 \notin 1..Len(inbox[c]) - 1 BY <4>a, <5>2, <5>3 DEF Ended
            <7>2. \A n \in Nat : n # 0 /\ 1 \notin 1..n - 1 => n = 1 OBVIOUS
            <7>3. QED BY <4>b, <7>1, <7>2
          <6>2. counted[c] = Len(Content[file[c]])
            <7>1. counted[c] + Len(inbox[c]) - 1 = Len(Content[file[c]]) BY <5>2 DEF Ended
            <7>2. QED BY <4>b, <6>1, <7>1
          <6>3. cplace'[c] = "close" /\ counted'[c] = counted[c] BY <1>5, <3>2, <5>3
          <6>4. QED BY <3>0, <4>a, <4>2, <6>2, <6>3 DEF Count
        <5>4. CASE Head(inbox[c]) # 0
          <6>1. Len(inbox[c]) # 1 BY <4>a, <5>2, <5>4 DEF Ended
          <6>2. cplace'[c] = "recv" /\ counted'[c] = counted[c] + 1 BY <1>5, <3>2, <5>4
          <6>3. Len(inbox'[c]) > 0 /\ inbox'[c][Len(inbox'[c])] = 0
            <7>0. \A n \in Nat : n # 0 /\ n # 1 => n - 1 > 0 /\ n - 1 \in 1..n - 1 OBVIOUS
            <7>1. Len(inbox'[c]) > 0 /\ Len(inbox'[c]) \in 1..Len(inbox'[c]) BY <4>b, <6>1, <7>0
            <7>2. inbox'[c][Len(inbox'[c])] = inbox[c][Len(inbox'[c]) + 1] BY <4>0, <7>1
            <7>3. Len(inbox'[c]) + 1 = Len(inbox[c]) BY <4>b
            <7>4. inbox[c][Len(inbox[c])] = 0 BY <5>2 DEF Ended
            <7>5. QED BY <7>1, <7>2, <7>3, <7>4
          <6>4. \A k \in 1..Len(inbox'[c]) - 1 : inbox'[c][k] # 0
            <7> SUFFICES ASSUME NEW k \in 1..Len(inbox'[c]) - 1 PROVE inbox'[c][k] # 0 OBVIOUS
            <7>1. k \in 1..Len(inbox'[c]) /\ k + 1 \in 1..Len(inbox[c]) - 1 BY <4>b
            <7>2. inbox[c][k + 1] # 0 BY <5>2, <7>1 DEF Ended
            <7>3. QED BY <4>0, <7>1, <7>2
          <6>5. counted'[c] + Len(inbox'[c]) - 1 = Len(Content[file[c]])
            <7>1. counted[c] + Len(inbox[c]) - 1 = Len(Content[file[c]]) BY <5>2 DEF Ended
            <7>2. \A g, n \in Nat : (g + 1) + (n - 1) - 1 = g + n - 1 OBVIOUS
            <7>3. (counted[c] + 1) + (Len(inbox[c]) - 1) - 1 = counted[c] + Len(inbox[c]) - 1 BY <4>b, <7>2
            <7>4. QED BY <4>b, <6>2, <7>1, <7>3
          <6>6. Ended(c)' BY <4>a, <6>3, <6>4, <6>5 DEF Ended
          <6>7. QED BY <3>0, <4>2, <6>2, <6>6 DEF Count
        <5>5. QED BY <5>3, <5>4
      <4>3. QED BY <4>1, <4>2
    <3>10. QED BY <3>1, <3>7, <3>8, <3>9
  <2>3. QED BY <2>1, <2>2
<1>11. DeadInv'
  <2> SUFFICES ASSUME NEW d \in Clients, cplace'[d] # "off", ~clean[d]
               PROVE  \E e \in Clients : Pid[e] = Pid[d] /\ cplace'[e] = "dead"
    BY <1>1 DEF DeadInv
  <2>1. PICK e \in Clients : Pid[e] = Pid[d] /\ cplace[e] = "dead" BY <1>0, <1>7 DEF DeadInv
  <2>2. QED BY <1>7, <2>1
<1>12. QED BY <1>6, <1>8, <1>9, <1>10, <1>11 DEF FileInv

\* The counts are printed and the name goes.
LEMMA UnlinkKeeps == ASSUME FileInv, NEW c \in Clients, File!Unlink(c) PROVE FileInv'
<1>0. FileType /\ OwnInv /\ RequestInv /\ CleanInv /\ DeadInv BY DEF FileInv
<1>1. /\ cplace[c] = "close" /\ cplace' = [cplace EXCEPT ![c] = "done"]
      /\ name' = [name EXCEPT ![Pid[c]] = Nobody]
      /\ UNCHANGED <<mine, file, counted, clean, requests, inbox>> /\ UNCHANGED File!serverVars
  BY DEF File!Unlink, File!To
<1>2. Pid[c] \in Pids /\ Nobody \notin Clients /\ Running(c)
  BY <1>1, MqAssumption DEF Pids, Running
<1>3. /\ cplace'[c] = "done" /\ \A d \in Clients : d # c => cplace'[d] = cplace[d]
      /\ name'[Pid[c]] = Nobody /\ \A p \in Pids : p # Pid[c] => name'[p] = name[p]
  BY <1>0, <1>1, <1>2 DEF FileType
<1>4. FileType'
  <2>1. cplace' \in [Clients -> {"off", "server", "send", "recv", "close", "done", "dead"}]
    BY <1>0, <1>1 DEF FileType
  <2>2. name' \in [Pids -> Clients \cup {Nobody}] BY <1>0, <1>1 DEF FileType
  <2>3. QED BY <1>0, <1>1, <2>1, <2>2 DEF FileType, File!serverVars
<1>5. /\ ~Running(c)'
      /\ \A d \in Clients : d # c => (Running(d)' <=> Running(d))
  BY <1>3 DEF Running
<1>6. OwnInv'
  <2>1. \A d, e \in Clients : Running(d)' /\ Running(e)' /\ Pid[d] = Pid[e] => d = e
    BY <1>0, <1>5 DEF OwnInv
  <2>2. \A d \in Clients : Running(d)' => name'[Pid[d]] = mine[d]
    <3> SUFFICES ASSUME NEW d \in Clients, Running(d)' PROVE name'[Pid[d]] = mine[d] OBVIOUS
    <3>1. d # c /\ Running(d) BY <1>5
    <3>2. Pid[d] \in Pids /\ Pid[d] # Pid[c] BY <1>0, <1>2, <3>1 DEF OwnInv, Pids
    <3>3. QED BY <1>0, <1>3, <3>1, <3>2 DEF OwnInv
  <2>3. \A d \in Clients :
          /\ cplace'[d] = "off" => /\ inbox[d] = <<>> /\ counted[d] = 0 /\ ~clean[d]
                                   /\ \A e \in Clients : mine[e] # d
          /\ cplace'[d] # "off" => mine[d] \in Clients /\ Pid[mine[d]] = Pid[d]
          /\ clean[d] => mine[d] = d
    <3>1. \A d \in Clients : cplace'[d] = "off" <=> cplace[d] = "off" BY <1>1, <1>3
    <3>2. QED BY <1>0, <3>1 DEF OwnInv
  <2>4. \A p \in Pids : name'[p] # Nobody =>
          /\ name'[p] \in Clients /\ Pid[name'[p]] = p /\ cplace'[name'[p]] \notin {"off", "done"}
          /\ \E d \in Clients : Pid[d] = p /\ (Running(d)' \/ cplace'[d] = "dead")
    <3> SUFFICES ASSUME NEW p \in Pids, name'[p] # Nobody
                 PROVE  /\ name'[p] \in Clients /\ Pid[name'[p]] = p
                        /\ cplace'[name'[p]] \notin {"off", "done"}
                        /\ \E d \in Clients : Pid[d] = p /\ (Running(d)' \/ cplace'[d] = "dead")
      OBVIOUS
    <3>1. p # Pid[c] /\ name'[p] = name[p] BY <1>3
    <3>2. name[p] \in Clients /\ Pid[name[p]] = p /\ cplace[name[p]] \notin {"off", "done"}
      BY <1>0, <3>1 DEF OwnInv
    <3>3. PICK d \in Clients : Pid[d] = p /\ (Running(d) \/ cplace[d] = "dead")
      BY <1>0, <3>1 DEF OwnInv
    <3>4. d # c /\ name[p] # c BY <3>1, <3>2, <3>3
    <3>5. QED BY <1>3, <1>5, <3>1, <3>2, <3>3, <3>4
  <2>5. QED BY <1>1, <2>1, <2>2, <2>3, <2>4 DEF OwnInv
<1>7. RequestInv' BY <1>1, <1>3, RequestsStay
<1>8. CleanInv'
  <2> SUFFICES ASSUME NEW d \in Clients PROVE Clean(d)' BY DEF CleanInv
  <2>1. CASE d # c BY <1>1, <1>3, <2>1, CleanStays
  <2>2. CASE d = c
    <3> SUFFICES ASSUME clean[c]
                 PROVE  /\ Order(c)'
                        /\ file[c] # Missing /\ Plain(file[c]) => Count(c)'
      BY <1>1, <1>5, <2>2 DEF Clean, Plain
    <3>0. UNCHANGED <<splace, req, dst, rest>> BY <1>1 DEF File!serverVars
    <3>1. Order(c) /\ (file[c] # Missing /\ Plain(file[c]) => Count(c))
      BY <1>0, <1>1 DEF CleanInv, Clean
    <3>2. ~Waits(c) /\ ~Fetched(c) /\ ~(splace = "file" /\ dst = c) BY <1>1, <3>1 DEF Order, NoneYet
    <3>3. ~Waits(c)' /\ ~Fetched(c)' /\ (Serving(c)' <=> Serving(c)) /\ ~(splace' = "file" /\ dst' = c)
      BY <1>1, <3>0, <3>2 DEF Waits, Fetched, Serving
    <3>4. Order(c)' BY <1>1, <1>3, <3>0, <3>1, <3>3 DEF Order
    <3>5. Count(c) => Count(c)' BY <1>1, <1>3, <3>0 DEF Count
    <3>6. QED BY <3>1, <3>4, <3>5
  <2>3. QED BY <2>1, <2>2
<1>9. DeadInv'
  <2> SUFFICES ASSUME NEW d \in Clients, cplace'[d] # "off", ~clean[d]
               PROVE  \E e \in Clients : Pid[e] = Pid[d] /\ cplace'[e] = "dead"
    BY <1>1 DEF DeadInv
  <2>1. cplace[d] # "off" BY <1>1, <1>3
  <2>2. PICK e \in Clients : Pid[e] = Pid[d] /\ cplace[e] = "dead" BY <1>0, <2>1 DEF DeadInv
  <2>3. e # c BY <1>1, <2>2
  <2>4. QED BY <1>3, <2>2, <2>3
<1>10. QED BY <1>4, <1>6, <1>7, <1>8, <1>9 DEF FileInv

LEMMA FileStep == ASSUME FileInv, [File!Next]_(File!vars) PROVE FileInv'
<1>1. CASE UNCHANGED File!vars BY <1>1, FileStutter
<1>2. CASE File!CreateQueue BY <1>2, CreateKeeps
<1>3. CASE File!Server
  BY <1>3, ReceiveKeeps, OpenClientKeeps, OpenFileKeeps, SendChunkKeeps, SendEndKeeps DEF File!Server
<1>4. ASSUME NEW c \in Clients, File!OpenOwn(c) \/ File!Client(c) \/ File!Kill(c) PROVE FileInv'
  BY <1>4, OpenOwnKeeps, OpenServerKeeps, RequestKeeps, FileRecvKeeps, UnlinkKeeps, KillKeeps
  DEF File!Client
<1>5. QED BY <1>1, <1>2, <1>3, <1>4 DEF File!Next

LEMMA FileInvariance == File!Spec => []FileInv
<1>1. File!Init => FileInv BY FileInit
<1>2. FileInv /\ [File!Next]_(File!vars) => FileInv' BY FileStep
<1>3. QED BY <1>1, <1>2, PTL DEF File!Spec

\* A client of the file service whose pid left neither a queue nor a request
\* behind reports as many messages as the file has chunks, if no chunk begins
\* with NUL: for any files, clients, pids and queue sizes, whoever is killed
\* and however often either side waits (server.c:72-93, client.c:68-91).
THEOREM FileCounts == File!Spec => []CountsFile
<1>1. FileInv => CountsFile
  <2> SUFFICES ASSUME FileInv PROVE CountsFile OBVIOUS
  <2>0. FileType /\ RequestInv /\ CleanInv BY DEF FileInv
  <2>1. MqTypeOK
    <3>1. splace = "send" => dst # Nobody BY <2>0, MqAssumption DEF RequestInv
    <3>2. \A p \in DOMAIN name : name[p] \in Clients \cup {Nobody} BY <2>0 DEF FileType
    <3>3. QED BY <2>0, <3>1, <3>2 DEF FileType, MqTypeOK
  <2>2. ASSUME NEW c \in Clients, cplace[c] = "done", clean[c], file[c] # Missing, Plain(file[c])
        PROVE  counted[c] = Len(Content[file[c]])
    <3>1. Count(c) BY <2>0, <2>2 DEF CleanInv, Clean
    <3>2. QED BY <2>2, <3>1 DEF Count
  <2>3. QED BY <2>1, <2>2 DEF CountsFile
<1>2. QED BY <1>1, FileInvariance, PTL

\* The server of the file service waits for room in a queue that nobody empties
\* only while it sends a file with a chunk that the client took for the end, or
\* after the death of a client of that pid: blocking mq_send, mq_unlink by the
\* client and names made of pids cause no other standstill (server.c:72-93).
THEOREM FileStuck == File!Spec => []StuckCause
<1>1. FileInv => StuckCause
  <2> SUFFICES ASSUME FileInv, Stuck, Plain(req.file),
                      \A d \in Clients : Pid[d] = Pid[dst] => cplace[d] # "dead"
               PROVE  FALSE
    BY DEF StuckCause
  <2>0. FileType /\ OwnInv /\ RequestInv /\ CleanInv /\ DeadInv BY DEF FileInv
  <2>1. splace = "send" /\ Readers(dst) = {} BY DEF Stuck
  <2>2. dst \in Clients /\ cplace[dst] # "off" /\ cplace[dst] # "dead" BY <2>0, <2>1 DEF RequestInv
  <2>3. clean[dst] BY <2>0, <2>2 DEF DeadInv
  <2>4. Order(dst) /\ (file[dst] # Missing /\ Plain(file[dst]) => Count(dst))
    BY <2>0, <2>2, <2>3 DEF CleanInv, Clean
  <2>5. req.from = dst BY <2>1, <2>4 DEF Order, Serving
  <2>6. req.file = file[dst] /\ req.file # Missing BY <2>0, <2>1, <2>5 DEF RequestInv, Asked
  <2>7. cplace[dst] = "recv" BY <2>1, <2>4, <2>6 DEF Count
  <2>8. mine[dst] = dst BY <2>0, <2>2, <2>3 DEF OwnInv
  <2>9. dst \in Readers(dst) BY <2>2, <2>7, <2>8 DEF Readers, Running
  <2>10. QED BY <2>1, <2>9
<1>2. QED BY <1>1, FileInvariance, PTL
=============================================================================
