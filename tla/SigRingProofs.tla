--------------------------- MODULE SigRingProofs ---------------------------
(***************************************************************************)
(* The ring and the counters of SigRing, for any number of messages,       *)
(* consumers and slots.                                                    *)
(***************************************************************************)
EXTENDS SigRing, WellFoundedInduction, TLAPS

\* Where the producer's loop variables are at each place.
LoopInv ==
  /\ ppc \in {"write", "signal"} => i < m
  /\ ppc \in {"report", "report_lost", "kill", "done"} => i = m
  /\ ppc = "kill" => j <= n

IInv == TypeOK /\ LoopInv

\* A message is in its slot until the one b later replaces it, and a signal
\* on its way carries the number of a message that was put into the ring.
RingInv ==
  /\ \A k \in 0..m - 1 : Written(k) => shmp[Slot(k)] = k \/ Written(k + b)
  /\ \A c \in Consumers :
       /\ pending[c] # None => pending[c] >= 0 /\ Written(pending[c])
       /\ hpc[c] = "compare" => val[c] >= 0 /\ Written(val[c])
       /\ hpc[c] \in Busy => val[c] >= 0

----------------------------------------------------------------------------
(* Arithmetic of the ring.                                                 *)

\* A slot number is a slot of the ring.
LEMMA SlotRange == ASSUME NEW k \in Nat PROVE Slot(k) \in 0..b - 1
  BY RingAssumption DEF Slot

\* Two messages that share a slot are at least b apart.
LEMMA SlotDistance ==
  ASSUME NEW k \in Nat, NEW l \in Nat, k < l, Slot(k) = Slot(l) PROVE k + b <= l
<1>1. b \in Nat /\ b > 0
  BY RingAssumption
<1>2. /\ k = b * (k \div b) + (k % b) /\ l = b * (l \div b) + (l % b)
      /\ k \div b \in Int /\ l \div b \in Int /\ k % b \in Int
  BY <1>1
<1>3. PICK p \in Int, q \in Int, r \in Int : k = b * p + r /\ l = b * q + r
  BY <1>2 DEF Slot
<1>4. q > p
  BY <1>1, <1>3
<1>5. b * q >= b * (p + 1)
  BY <1>1, <1>3, <1>4
<1>6. b * (p + 1) = b * p + b
  BY <1>1, <1>3
<1> QED
  BY <1>1, <1>3, <1>5, <1>6

----------------------------------------------------------------------------
(* Types and loop variables.                                               *)

LEMMA InitInv == Init => IInv
  BY RingAssumption
     DEF Init, IInv, TypeOK, LoopInv, Busy, Consumers, None

LEMMA ProducerType ==
  ASSUME TypeOK, LoopInv,
         \/ WriteSlot \/ Signal \/ NextMessage
         \/ ReportReceived \/ ReportLost \/ KillConsumer
  PROVE  TypeOK' /\ LoopInv'
<1> USE RingAssumption DEF producer, counters, Consumers, None
<1>1. CASE WriteSlot
  <2>1. i \in Nat /\ i \in 0..m - 1
    BY <1>1 DEF WriteSlot, TypeOK, LoopInv
  <2>2. Slot(i) \in 0..b - 1
    BY <2>1, SlotRange
  <2>3. shmp' \in [0..b - 1 -> 0..m - 1]
    BY <1>1, <2>1, <2>2 DEF WriteSlot, TypeOK
  <2>4. LoopInv'
    BY <1>1, <2>1 DEF WriteSlot, LoopInv
  <2>5. j' \in 1..n + 1
    BY <1>1 DEF WriteSlot
  <2> QED
    BY <1>1, <2>3, <2>4, <2>5 DEF WriteSlot, TypeOK
<1>2. CASE Signal
  <2>1. j \in Consumers /\ i \in 0..m - 1 /\ j' \in 1..n + 1
    BY <1>2 DEF Signal, TypeOK, LoopInv
  <2>2. i \in None..m - 1
    BY <2>1
  <2>3. pending' \in [Consumers -> None..m - 1]
    <3> USE <2>1, <2>2 DEF TypeOK
    <3> HIDE DEF Consumers, None
    <3> QED
      BY <1>2 DEF Signal
  <2>4. LoopInv'
    BY <1>2, <2>1 DEF Signal, LoopInv
  <2> QED
    BY <1>2, <2>1, <2>2, <2>3, <2>4 DEF Signal, TypeOK
<1>3. CASE NextMessage
  <2>1. i \in 0..m - 1
    BY <1>3 DEF NextMessage, TypeOK, LoopInv
  <2>2. i' \in 0..m /\ LoopInv' /\ ppc' \in {"write", "report"}
    BY <1>3, <2>1 DEF NextMessage, LoopInv
  <2> QED
    BY <1>3, <2>2 DEF NextMessage, TypeOK
<1>4. CASE ReportReceived
  <2>1. report' \in [cnt : Nat, loss : Nat] /\ LoopInv'
    BY <1>4 DEF ReportReceived, TypeOK, LoopInv
  <2> QED
    BY <1>4, <2>1 DEF ReportReceived, TypeOK
<1>5. CASE ReportLost
  <2>1. report' \in [cnt : Nat, loss : Nat]
    BY <1>5 DEF ReportLost, TypeOK
  <2>2. LoopInv' /\ j' \in 1..n + 1
    BY <1>5 DEF ReportLost, LoopInv
  <2> QED
    BY <1>5, <2>1, <2>2 DEF ReportLost, TypeOK
<1>6. CASE KillConsumer
  <2>1. j \in Consumers /\ j' \in 1..n + 1 /\ ppc' \in {"done", "kill"}
    BY <1>6 DEF KillConsumer, TypeOK, LoopInv
  <2>2. LoopInv'
    BY <1>6, <2>1 DEF KillConsumer, TypeOK, LoopInv
  <2>3. hpc' \in [Consumers -> {"pause", "dead"} \cup Busy]
    BY <1>6, <2>1 DEF KillConsumer, TypeOK
  <2>4. pending' \in [Consumers -> None..m - 1]
    <3>1. None \in None..m - 1
      BY RingAssumption
    <3> HIDE DEF Consumers, None
    <3> QED
      BY <1>6, <2>1, <3>1 DEF KillConsumer, TypeOK
  <2> QED
    BY <1>6, <2>1, <2>2, <2>3, <2>4 DEF KillConsumer, TypeOK
<1> QED
  BY <1>1, <1>2, <1>3, <1>4, <1>5, <1>6

LEMMA ConsumerType ==
  ASSUME TypeOK, LoopInv, NEW c \in Consumers,
         Deliver(c) \/ Compare(c) \/ Load(c) \/ StoreReceived(c) \/ StoreLost(c)
  PROVE  TypeOK' /\ LoopInv'
<1> USE RingAssumption DEF producer, counters
<1>1. LoopInv'
  BY DEF LoopInv, Deliver, Compare, Load, StoreReceived, StoreLost
<1>2. hpc' \in [Consumers -> {"pause", "dead"} \cup Busy]
  BY DEF TypeOK, Deliver, Compare, Load, StoreReceived, StoreLost, Return, Busy
<1>3. CASE Deliver(c)
  <2>1. val' \in [Consumers -> None..m - 1]
    BY <1>3 DEF Deliver, TypeOK
  <2>2. pending' \in [Consumers -> None..m - 1]
    BY <1>3 DEF Deliver, TypeOK, None
  <2> QED
    BY <1>1, <1>2, <1>3, <2>1, <2>2 DEF Deliver, TypeOK
<1>4. CASE Compare(c)
  BY <1>1, <1>2, <1>4 DEF Compare, TypeOK
<1>5. CASE Load(c)
  <2>1. temp' \in [Consumers -> Nat]
    BY <1>5 DEF Load, TypeOK
  <2> QED
    BY <1>1, <1>2, <1>5, <2>1 DEF Load, TypeOK
<1>6. CASE StoreReceived(c)
  <2>1. cnt' = temp[c] + 1 /\ handled' = [handled EXCEPT ![c] = handled[c] + 1]
    BY <1>6 DEF StoreReceived, Return
  <2>2. temp[c] + 1 \in Nat /\ handled[c] + 1 \in Nat /\ handled \in [Consumers -> Nat]
    BY DEF TypeOK
  <2>3. cnt' \in Nat /\ handled' \in [Consumers -> Nat]
    BY <2>1, <2>2
  <2> QED
    BY <1>1, <1>2, <1>6, <2>3 DEF StoreReceived, TypeOK
<1>7. CASE StoreLost(c)
  <2>1. loss_cnt' = temp[c] + 1 /\ handled' = [handled EXCEPT ![c] = handled[c] + 1]
    BY <1>7 DEF StoreLost, Return
  <2>2. temp[c] + 1 \in Nat /\ handled[c] + 1 \in Nat /\ handled \in [Consumers -> Nat]
    BY DEF TypeOK
  <2>3. loss_cnt' \in Nat /\ handled' \in [Consumers -> Nat]
    BY <2>1, <2>2
  <2> QED
    BY <1>1, <1>2, <1>7, <2>3 DEF StoreLost, TypeOK
<1> QED
  BY <1>3, <1>4, <1>5, <1>6, <1>7

LEMMA NextInv == IInv /\ [Next]_vars => IInv'
<1>1. IInv /\ Next => IInv'
  BY ProducerType, ConsumerType DEF Next, IInv
<1>2. IInv /\ UNCHANGED vars => IInv'
  BY DEF vars, IInv, TypeOK, LoopInv, producer, counters
<1> QED
  BY <1>1, <1>2

LEMMA Inductive == Spec => []IInv
  BY InitInv, NextInv, PTL DEF Spec

\* Every variable keeps its type.
THEOREM TypeCorrect == Spec => []TypeOK
<1>1. IInv => TypeOK
  BY DEF IInv
<1> QED
  BY <1>1, Inductive, PTL

----------------------------------------------------------------------------
(* The ring.                                                               *)

\* Written is never taken back.
LEMMA WrittenStays ==
  ASSUME TypeOK, [Next]_vars, NEW k \in Int, Written(k) PROVE Written(k)'
<1>1. i \in Nat
  BY DEF TypeOK
<1>2. CASE UNCHANGED vars
  BY <1>2 DEF vars, producer, Written
<1>3. CASE Next
  BY <1>1, <1>3 DEF Written, Next, producer, WriteSlot, Signal, NextMessage, ReportReceived,
       ReportLost, KillConsumer, Deliver, Compare, Load, StoreReceived, StoreLost
<1> QED
  BY <1>2, <1>3

LEMMA RingStep ==
  ASSUME IInv, RingInv, LostWasOverwritten, [Next]_vars
  PROVE  RingInv' /\ LostWasOverwritten'
<1> USE DEF producer, counters
<1> DEFINE InSlot(k) == shmp[Slot(k)] = k \/ Written(k + b)
           Carried(c) ==
             /\ pending[c] # None => pending[c] >= 0 /\ Written(pending[c])
             /\ hpc[c] = "compare" => val[c] >= 0 /\ Written(val[c])
             /\ hpc[c] \in Busy => val[c] >= 0
             /\ hpc[c] \in {"lost", "store_loss"} => Written(val[c] + b)
<1>1. /\ i \in 0..m /\ m \in Nat \ {0} /\ n \in Nat /\ b \in Nat \ {0}
      /\ shmp \in [0..b - 1 -> 0..m - 1] /\ pending \in [Consumers -> -1..m - 1]
      /\ val \in [Consumers -> -1..m - 1]
  BY RingAssumption DEF IInv, TypeOK, None
<1>2. /\ \A k \in 0..m - 1 : Written(k) => InSlot(k)
      /\ \A c \in Consumers : Carried(c)
  BY DEF RingInv, LostWasOverwritten
<1>3. \A k \in Int : Written(k) => Written(k)'
  BY WrittenStays DEF IInv
<1>4. SUFFICES /\ \A k \in 0..m - 1 : Written(k)' => InSlot(k)'
               /\ \A c \in Consumers : Carried(c)'
  BY DEF RingInv, LostWasOverwritten
<1>5. ASSUME shmp' = shmp, \A k \in 0..m - 1 : Written(k)' => Written(k)
      PROVE  \A k \in 0..m - 1 : Written(k)' => InSlot(k)'
  BY <1>1, <1>2, <1>3, <1>5
<1>6. ASSUME NEW c \in Consumers,
             pending'[c] = pending[c] \/ pending'[c] = None,
             val'[c] = val[c], hpc'[c] = hpc[c] \/ hpc'[c] \in {"pause", "dead"}
      PROVE  Carried(c)'
  <2>1. pending[c] \in Int /\ val[c] \in Int /\ val[c] + b \in Int
    BY <1>1
  <2> QED
    BY <1>2, <1>3, <1>6, <2>1 DEF Busy
<1>7. CASE WriteSlot
  <2>1. i \in 0..m - 1 /\ i' = i /\ ppc = "write" /\ ppc' = "signal"
    BY <1>1, <1>7 DEF WriteSlot, IInv, LoopInv
  <2>2. ASSUME NEW k \in 0..m - 1, Written(k)' PROVE InSlot(k)'
    <3>0. k \in Nat /\ i \in Nat
      BY <1>1
    <3>1. Slot(k) \in 0..b - 1 /\ Slot(i) \in 0..b - 1
      BY <3>0, SlotRange
    <3>2. CASE k = i
      <4>1. shmp'[Slot(i)] = i
        BY <1>1, <1>7, <3>1 DEF WriteSlot
      <4> QED
        BY <3>2, <4>1 DEF Slot
    <3>3. CASE k # i
      <4>1. k < i /\ Written(k)
        BY <1>1, <2>1, <2>2, <3>3 DEF Written
      <4>2. CASE Slot(k) = Slot(i)
        <5>1. k + b <= i
          BY <2>1, <4>1, <4>2, SlotDistance
        <5> QED
          BY <1>1, <2>1, <5>1 DEF Written
      <4>3. CASE Slot(k) # Slot(i)
        <5>1. shmp'[Slot(k)] = shmp[Slot(k)]
          BY <1>1, <1>7, <3>1, <4>3 DEF WriteSlot
        <5>2. k + b \in Int
          BY <1>1
        <5> QED
          BY <1>2, <1>3, <4>1, <5>1, <5>2 DEF Slot
      <4> QED
        BY <4>2, <4>3
    <3> QED
      BY <3>2, <3>3
  <2>3. pending' = pending /\ val' = val /\ hpc' = hpc
    BY <1>7 DEF WriteSlot
  <2> QED
    BY <1>6, <2>2, <2>3
<1>8. CASE Signal
  <2>1. shmp' = shmp /\ hpc' = hpc /\ val' = val /\ i' = i /\ ppc' = ppc /\ ppc = "signal"
    BY <1>8 DEF Signal
  <2>2. \A k \in 0..m - 1 : Written(k)' => Written(k)
    BY <2>1 DEF Written
  <2>3. ASSUME NEW c \in Consumers PROVE Carried(c)'
    <3>1. CASE pending'[c] = pending[c]
      BY <1>6, <2>1, <3>1
    <3>2. CASE pending'[c] = i
      <4>1. i >= 0 /\ Written(i)'
        BY <1>1, <2>1 DEF Written
      <4>2. val[c] \in Int /\ val[c] + b \in Int
        BY <1>1
      <4> QED
        BY <1>2, <1>3, <2>1, <3>2, <4>1, <4>2
    <3>3. pending' = [pending EXCEPT ![j] = IF @ = None THEN i ELSE @]
      BY <1>8 DEF Signal
    <3>4. pending'[c] = pending[c] \/ pending'[c] = i
      BY <1>1, <3>3
    <3> QED
      BY <3>1, <3>2, <3>4
  <2> QED
    BY <1>5, <2>1, <2>2, <2>3
<1>9. CASE NextMessage \/ ReportReceived \/ ReportLost \/ UNCHANGED vars
  <2>1. shmp' = shmp /\ hpc' = hpc /\ val' = val /\ pending' = pending
    BY <1>9 DEF NextMessage, ReportReceived, ReportLost, vars
  <2>2. \A k \in 0..m - 1 : Written(k)' => Written(k)
    BY <1>1, <1>9 DEF NextMessage, ReportReceived, ReportLost, vars, Written
  <2> QED
    BY <1>5, <1>6, <2>1, <2>2
<1>10. CASE KillConsumer
  <2>1. /\ \A c \in Consumers :
             /\ hpc'[c] = hpc[c] \/ hpc'[c] = "dead"
             /\ pending'[c] = pending[c] \/ pending'[c] = None
        /\ shmp' = shmp /\ val' = val
    BY <1>10 DEF KillConsumer, IInv, TypeOK
  <2>2. \A k \in 0..m - 1 : Written(k)' => Written(k)
    BY <1>10 DEF KillConsumer, Written
  <2> QED
    BY <1>5, <1>6, <2>1, <2>2
<1>11. ASSUME NEW d \in Consumers,
              Deliver(d) \/ Compare(d) \/ Load(d) \/ StoreReceived(d) \/ StoreLost(d)
       PROVE  /\ \A k \in 0..m - 1 : Written(k)' => InSlot(k)'
              /\ \A c \in Consumers : Carried(c)'
  <2>1. shmp' = shmp /\ i' = i /\ ppc' = ppc
    BY <1>11 DEF Deliver, Compare, Load, StoreReceived, StoreLost
  <2>2. \A k \in Int : Written(k)' <=> Written(k)
    BY <2>1 DEF Written
  <2>3. ASSUME NEW c \in Consumers, c # d PROVE Carried(c)'
    <3>1. pending'[c] = pending[c] /\ val'[c] = val[c] /\ hpc'[c] = hpc[c]
      BY <1>11, <2>3 DEF Deliver, Compare, Load, StoreReceived, StoreLost, Return, IInv, TypeOK
    <3> QED
      BY <1>6, <3>1
  <2>4. pending[d] \in Int /\ val[d] \in Int /\ val[d] + b \in Int
    BY <1>1
  <2>5. CASE Deliver(d)
    <3>1. /\ val'[d] = pending[d] /\ pending[d] # None /\ pending'[d] = None
          /\ hpc'[d] = "compare"
      BY <2>5 DEF Deliver, IInv, TypeOK
    <3>2. Carried(d)'
      BY <1>2, <1>3, <2>4, <3>1
    <3> QED
      BY <1>5, <2>1, <2>2, <2>3, <3>2
  <2>6. CASE Compare(d)
    <3>1. /\ val' = val /\ pending' = pending /\ hpc[d] = "compare"
          /\ hpc'[d] = IF shmp[Slot(val[d])] = val[d] THEN "received" ELSE "lost"
      BY <2>6 DEF Compare, IInv, TypeOK
    <3>2. val[d] \in 0..m - 1 /\ Written(val[d])
      BY <1>1, <1>2, <3>1
    <3>3. hpc'[d] \in {"received", "lost"} /\ (hpc'[d] = "lost" => Written(val[d] + b))
      BY <1>2, <3>1, <3>2
    <3>4. Carried(d)'
      BY <1>2, <1>3, <2>4, <3>1, <3>2, <3>3
    <3> QED
      BY <1>5, <2>1, <2>2, <2>3, <3>4
  <2>7. CASE Load(d) \/ StoreReceived(d) \/ StoreLost(d)
    <3>1. /\ val' = val /\ pending' = pending /\ hpc[d] \in Busy
          /\ hpc'[d] \in {"store_cnt", "store_loss", "pause"}
          /\ hpc'[d] = "store_loss" => hpc[d] = "lost"
      BY <2>7 DEF Load, StoreReceived, StoreLost, Return, Busy, IInv, TypeOK
    <3>2. Carried(d)'
      BY <1>2, <1>3, <2>4, <3>1 DEF Busy
    <3> QED
      BY <1>5, <2>1, <2>2, <2>3, <3>2
  <2> QED
    BY <1>11, <2>5, <2>6, <2>7
<1> QED
  BY <1>4, <1>7, <1>8, <1>9, <1>10, <1>11 DEF Next

\* A consumer takes a message for lost only when the message that shares its
\* slot, b later, has been written.
THEOREM Overwritten == Spec => []LostWasOverwritten
<1>1. Init => RingInv /\ LostWasOverwritten
  BY RingAssumption DEF Init, RingInv, Written, LostWasOverwritten, None, Consumers, Busy
<1>2. IInv /\ (RingInv /\ LostWasOverwritten) /\ [Next]_vars
        => (RingInv /\ LostWasOverwritten)'
  BY RingStep
<1> QED
  BY <1>1, <1>2, Inductive, PTL DEF Spec

----------------------------------------------------------------------------
(* The counters.                                                           *)

\* The partial sums of handled.
Sums(g) == /\ g \in [0..n -> Nat] /\ g[0] = 0
           /\ \A k \in 1..n : g[k] = g[k - 1] + handled[k]

\* The handlers that have finished fall into r that counted a message as
\* received and l that counted one as lost; no counter and no register about
\* to be stored is ahead of them.
Split(r, l) ==
  /\ cnt <= r /\ loss_cnt <= l
  /\ \A c \in Consumers : /\ hpc[c] = "store_cnt" => temp[c] <= r
                          /\ hpc[c] = "store_loss" => temp[c] <= l

CountInv ==
  \E g \in [0..n -> Nat] : Sums(g) /\ \E r, l \in Nat : r + l = g[n] /\ Split(r, l)

\* Finished is the one function of partial sums.
LEMMA FinishedSums ==
  ASSUME TypeOK, NEW g, Sums(g)
  PROVE  Finished[n] = g[n]
<1>0. n \in Nat
  BY RingAssumption
<1>1. g = [k \in 0..n |-> IF k = 0 THEN 0 ELSE g[k - 1] + handled[k]]
  BY <1>0 DEF Sums
<1>2. Finished = [k \in 0..n |-> IF k = 0 THEN 0 ELSE Finished[k - 1] + handled[k]]
  BY <1>1 DEF Finished
<1> DEFINE Differ == {k \in 0..n : Finished[k] # g[k]}
<1>3. SUFFICES ASSUME Differ # {} PROVE FALSE
  BY <1>0
<1>4. Differ \subseteq Nat
  BY <1>0
<1>5. PICK k \in Differ : \A i1 \in Differ : ~(i1 < k)
  <2> DEFINE R == OpToRel(<, Nat)
  <2>1. \A i1, i2 \in Nat : i2 < i1 => <<i2, i1>> \in R
    BY DEF OpToRel
  <2>2. IsWellFoundedOn(R, Nat)
    BY NatLessThanWellFounded
  <2> HIDE DEF R, Differ
  <2>3. \E i1 \in Differ : \A i2 \in Differ : ~(<<i2, i1>> \in R)
    BY <1>3, <1>4, <2>2, WFMin
  <2> QED
    BY <1>4, <2>1, <2>3, Zenon
<1>6. k # 0
  BY <1>0, <1>2 DEF Sums
<1>7. k - 1 \in 0..n /\ k - 1 < k /\ k \in 1..n
  BY <1>0, <1>6
<1>8. Finished[k - 1] = g[k - 1]
  BY <1>5, <1>7
<1>9. Finished[k] = Finished[k - 1] + handled[k]
  BY <1>0, <1>2, <1>6, <1>7
<1> QED
  BY <1>7, <1>8, <1>9 DEF Sums

LEMMA InitCounts == Init => CountInv
<1> SUFFICES ASSUME Init PROVE CountInv
  OBVIOUS
<1> DEFINE z == [k \in 0..n |-> 0]
<1>1. n \in Nat /\ z \in [0..n -> Nat] /\ z[n] = 0 /\ z[0] = 0
  BY RingAssumption
<1>2. \A k \in 1..n : z[k] = z[k - 1] + handled[k]
  BY <1>1 DEF Init, Consumers
<1>3. Sums(z)
  BY <1>1, <1>2 DEF Sums
<1>4. Split(0, 0)
  BY DEF Init, Split
<1> QED
  BY <1>1, <1>3, <1>4 DEF CountInv

\* A handler that finishes adds one to every partial sum from its own on.
LEMMA SumsStep ==
  ASSUME TypeOK, NEW c \in Consumers, NEW g, Sums(g),
         handled' = [handled EXCEPT ![c] = @ + 1]
  PROVE  \E h \in [0..n -> Nat] : Sums(h)' /\ h[n] = g[n] + 1
<1> DEFINE h == [k \in 0..n |-> IF k < c THEN g[k] ELSE g[k] + 1]
<1>1. n \in Nat /\ c \in 1..n /\ handled \in [1..n -> Nat] /\ g \in [0..n -> Nat]
  BY RingAssumption DEF TypeOK, Consumers, Sums
<1>2. h \in [0..n -> Nat] /\ h[0] = 0 /\ h[n] = g[n] + 1
  <2>1. ASSUME NEW k \in 0..n PROVE (IF k < c THEN g[k] ELSE g[k] + 1) \in Nat
    BY <1>1
  <2>2. h \in [0..n -> Nat]
    BY <2>1
  <2>3. 0 \in 0..n /\ n \in 0..n /\ 0 < c /\ ~(n < c) /\ g[0] = 0
    BY <1>1 DEF Sums
  <2> QED
    BY <2>2, <2>3
<1>3. ASSUME NEW k \in 1..n PROVE h[k] = h[k - 1] + handled'[k]
  <2>1. /\ k \in Nat /\ k - 1 \in 0..n /\ k \in 0..n /\ g[k] \in Nat /\ g[k - 1] \in Nat
        /\ handled[k] \in Nat /\ g[k] = g[k - 1] + handled[k] /\ c \in Nat
    BY <1>1 DEF Sums
  <2>2. handled'[k] = IF k = c THEN handled[k] + 1 ELSE handled[k]
    BY <1>1
  <2>3. h[k] = (IF k < c THEN g[k] ELSE g[k] + 1)
        /\ h[k - 1] = (IF k - 1 < c THEN g[k - 1] ELSE g[k - 1] + 1)
    BY <2>1
  <2> HIDE DEF h
  <2> QED
    BY <2>1, <2>2, <2>3
<1> HIDE DEF h
<1>4. Sums(h)'
  BY <1>2, <1>3 DEF Sums
<1> QED
  BY <1>2, <1>4

LEMMA CountStep ==
  ASSUME TypeOK, CountInv, [Next]_vars
  PROVE  CountInv'
<1> USE DEF producer, counters
<1>1. PICK g \in [0..n -> Nat], r \in Nat, l \in Nat : Sums(g) /\ r + l = g[n] /\ Split(r, l)
  BY DEF CountInv
<1>2. g[n] \in Nat
  BY RingAssumption
<1>3. ASSUME handled' = handled, Split(r, l)'
      PROVE  CountInv'
  <2>1. Sums(g)'
    BY <1>1, <1>3 DEF Sums
  <2> QED
    BY <1>1, <1>3, <2>1 DEF CountInv
<1>4. ASSUME UNCHANGED <<handled, temp, cnt, loss_cnt>>,
             \A c \in Consumers : hpc'[c] \in {"store_cnt", "store_loss"} => hpc'[c] = hpc[c]
      PROVE  CountInv'
  BY <1>1, <1>3, <1>4 DEF Split
<1>5. CASE WriteSlot \/ Signal \/ NextMessage \/ ReportReceived \/ ReportLost \/ UNCHANGED vars
  BY <1>4, <1>5 DEF WriteSlot, Signal, NextMessage, ReportReceived, ReportLost, vars
<1>6. CASE KillConsumer
  BY <1>4, <1>6 DEF KillConsumer, TypeOK
<1>7. ASSUME NEW c \in Consumers, Deliver(c) \/ Compare(c)
      PROVE  CountInv'
  BY <1>4, <1>7 DEF Deliver, Compare, TypeOK
<1>8. ASSUME NEW c \in Consumers, Load(c)
      PROVE  CountInv'
  <2>1. /\ temp' = [temp EXCEPT ![c] = IF hpc[c] = "received" THEN cnt ELSE loss_cnt]
        /\ hpc' = [hpc EXCEPT ![c] = IF hpc[c] = "received" THEN "store_cnt" ELSE "store_loss"]
        /\ UNCHANGED <<handled, cnt, loss_cnt>>
    BY <1>8 DEF Load
  <2>2. \A d \in Consumers : d # c => temp'[d] = temp[d] /\ hpc'[d] = hpc[d]
    BY <2>1 DEF TypeOK
  <2>3. /\ hpc'[c] = "store_cnt" => temp'[c] = cnt
        /\ hpc'[c] = "store_loss" => temp'[c] = loss_cnt
    BY <2>1 DEF TypeOK
  <2>4. Split(r, l)'
    BY <1>1, <2>1, <2>2, <2>3 DEF Split
  <2> QED
    BY <1>3, <2>1, <2>4
<1>9. ASSUME NEW c \in Consumers, NEW r2 \in Nat, NEW l2 \in Nat,
             r2 + l2 = r + l + 1, r <= r2, l <= l2, cnt' <= r2, loss_cnt' <= l2,
             Return(c), temp' = temp
      PROVE  CountInv'
  <2>1. PICK h \in [0..n -> Nat] : Sums(h)' /\ h[n] = g[n] + 1
    BY <1>1, <1>9, SumsStep DEF Return
  <2>2. \A d \in Consumers : hpc'[d] \in {"store_cnt", "store_loss"} => hpc'[d] = hpc[d]
    BY <1>9 DEF Return, TypeOK
  <2>3. \A d \in Consumers : temp[d] \in Nat
    BY DEF TypeOK
  <2>4. Split(r2, l2)'
    BY <1>1, <1>9, <2>2, <2>3 DEF Split
  <2>5. r2 + l2 = h[n]
    BY <1>1, <1>2, <1>9, <2>1
  <2> QED
    BY <2>1, <2>4, <2>5 DEF CountInv
<1>10. ASSUME NEW c \in Consumers, StoreReceived(c)
       PROVE  CountInv'
  <2>1. temp[c] \in Nat /\ temp[c] <= r /\ loss_cnt <= l /\ loss_cnt' = loss_cnt /\ cnt' = temp[c] + 1
    BY <1>1, <1>10 DEF StoreReceived, Split, TypeOK
  <2>2. r + 1 \in Nat /\ (r + 1) + l = r + l + 1 /\ r <= r + 1 /\ l <= l /\ cnt' <= r + 1 /\ loss_cnt' <= l
    BY <2>1
  <2>3. Return(c) /\ temp' = temp
    BY <1>10 DEF StoreReceived
  <2> QED
    BY <1>9, <2>2, <2>3
<1>11. ASSUME NEW c \in Consumers, StoreLost(c)
       PROVE  CountInv'
  <2>1. temp[c] \in Nat /\ temp[c] <= l /\ cnt <= r /\ cnt' = cnt /\ loss_cnt' = temp[c] + 1
    BY <1>1, <1>11 DEF StoreLost, Split, TypeOK
  <2>2. l + 1 \in Nat /\ r + (l + 1) = r + l + 1 /\ r <= r /\ l <= l + 1 /\ cnt' <= r /\ loss_cnt' <= l + 1
    BY <2>1
  <2>3. Return(c) /\ temp' = temp
    BY <1>11 DEF StoreLost
  <2> QED
    BY <1>9, <2>2, <2>3
<1> QED
  BY <1>5, <1>6, <1>7, <1>8, <1>10, <1>11 DEF Next

\* However the unprotected increments of cnt and loss_cnt interleave, together
\* they count at most as many messages as handlers have run.
THEOREM Bounded == Spec => []CountsBounded
<1>1. TypeOK /\ CountInv => CountsBounded
  <2> SUFFICES ASSUME TypeOK, CountInv PROVE CountsBounded
    OBVIOUS
  <2>1. PICK g \in [0..n -> Nat], r \in Nat, l \in Nat : Sums(g) /\ r + l = g[n] /\ Split(r, l)
    BY DEF CountInv
  <2>2. cnt + loss_cnt <= r + l
    BY <2>1 DEF Split, TypeOK
  <2>3. Finished[n] = g[n]
    BY <2>1, FinishedSums
  <2> QED
    BY <2>1, <2>2, <2>3 DEF CountsBounded
<1>2. CountInv /\ TypeOK /\ [Next]_vars => CountInv'
  BY CountStep
<1> QED
  BY <1>1, <1>2, InitCounts, TypeCorrect, PTL DEF Spec
=============================================================================
