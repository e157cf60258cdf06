------------------------------ MODULE SigRing ------------------------------
(***************************************************************************)
(* The signal-driven producer and consumers of SP_HW10.  The producer puts *)
(* message i into slot i % b of a shared ring and sends SIGUSR1 with the   *)
(* value i to every consumer; a consumer's handler compares the value with *)
(* the slot and counts the message as received or lost in two counters     *)
(* all consumers share.                                                    *)
(*                                                                         *)
(* SIGUSR1 is a standard signal: while one is pending for a process,       *)
(* further ones are discarded with the values they carry, and sigqueue     *)
(* reports success.  It is blocked while its handler runs.  The shared     *)
(* counters are incremented with a plain load and store.  The pause of R   *)
(* milliseconds between messages leaves every order of steps possible.     *)
(***************************************************************************)
EXTENDS Integers

CONSTANTS
  m,  \* number of messages
  n,  \* number of consumers
  b   \* number of slots in the ring

ASSUME RingAssumption == m \in Nat \ {0} /\ n \in Nat \ {0} /\ b \in Nat \ {0}

Consumers == 1..n
None      == -1

VARIABLES
  shmp,      \* msg_num of each slot
  i, j,      \* the producer's loop variables; j counts consumers from 1
  ppc,       \* where the producer is
  pending,   \* the value of the pending SIGUSR1 of each consumer, or None
  hpc,       \* where each consumer's handler is; "pause" outside it
  val,       \* si_value of the signal being handled
  temp,      \* the register of the counter increment
  cnt, loss_cnt,
  report,    \* what the producer printed
  handled    \* history: handlers each consumer has finished

producer == <<i, j, ppc, report>>
counters == <<cnt, loss_cnt>>
vars     == <<shmp, producer, pending, hpc, val, temp, counters, handled>>

Slot(k) == k % b

Init ==
  /\ shmp = [s \in 0..b - 1 |-> 0]
  /\ i = 0 /\ j = 1 /\ ppc = "write" /\ report = [cnt |-> 0, loss |-> 0]
  /\ pending = [c \in Consumers |-> None]
  /\ hpc = [c \in Consumers |-> "pause"]
  /\ val = [c \in Consumers |-> None] /\ temp = [c \in Consumers |-> 0]
  /\ cnt = 0 /\ loss_cnt = 0
  /\ handled = [c \in Consumers |-> 0]

----------------------------------------------------------------------------
(* The producer.                                                           *)

\* Mutant: the message goes to the slot after its own.
WriteNextSlot ==
  /\ ppc = "write"
  /\ shmp' = [shmp EXCEPT ![Slot(i + 1)] = i]
  /\ ppc' = "signal" /\ j' = 1
  /\ UNCHANGED <<i, report, pending, hpc, val, temp, counters, handled>>

WriteSlot ==
  /\ ppc = "write"
  /\ shmp' = [shmp EXCEPT ![Slot(i)] = i]
  /\ ppc' = "signal" /\ j' = 1
  /\ UNCHANGED <<i, report, pending, hpc, val, temp, counters, handled>>

\* Mutant: the loop runs once too often.
NextMessageTooFar ==
  /\ ppc = "signal" /\ j > n
  /\ i' = i + 1
  /\ ppc' = IF i <= m THEN "write" ELSE "report"
  /\ UNCHANGED <<j, report, shmp, pending, hpc, val, temp, counters, handled>>

NextMessage ==
  /\ ppc = "signal" /\ j > n
  /\ i' = i + 1
  /\ ppc' = IF i + 1 < m THEN "write" ELSE "report"
  /\ UNCHANGED <<j, report, shmp, pending, hpc, val, temp, counters, handled>>

\* sigqueue: a signal that finds another one pending is gone.
Signal ==
  /\ ppc = "signal" /\ j <= n
  /\ pending' = [pending EXCEPT ![j] = IF @ = None THEN i ELSE @]
  /\ j' = j + 1
  /\ UNCHANGED <<i, ppc, report, shmp, hpc, val, temp, counters, handled>>

\* The results are read while consumers may still be counting.
ReportReceived ==
  /\ ppc = "report"
  /\ report' = [report EXCEPT !.cnt = cnt]
  /\ ppc' = "report_lost"
  /\ UNCHANGED <<i, j, shmp, pending, hpc, val, temp, counters, handled>>

ReportLost ==
  /\ ppc = "report_lost"
  /\ report' = [report EXCEPT !.loss = loss_cnt]
  /\ ppc' = "kill" /\ j' = 1
  /\ UNCHANGED <<i, shmp, pending, hpc, val, temp, counters, handled>>

\* SIGKILL to one consumer after the other.
KillConsumer ==
  /\ ppc = "kill"
  /\ hpc' = [hpc EXCEPT ![j] = "dead"]
  /\ pending' = [pending EXCEPT ![j] = None]
  /\ j' = j + 1
  /\ ppc' = IF j = n THEN "done" ELSE "kill"
  /\ UNCHANGED <<i, report, shmp, val, temp, counters, handled>>

----------------------------------------------------------------------------
(* The handler of a consumer.                                              *)

Deliver(c) ==
  /\ hpc[c] = "pause" /\ pending[c] # None
  /\ hpc' = [hpc EXCEPT ![c] = "compare"]
  /\ val' = [val EXCEPT ![c] = pending[c]]
  /\ pending' = [pending EXCEPT ![c] = None]
  /\ UNCHANGED <<producer, shmp, temp, counters, handled>>

Compare(c) ==
  /\ hpc[c] = "compare"
  /\ hpc' = [hpc EXCEPT ![c] = IF shmp[Slot(val[c])] = val[c] THEN "received" ELSE "lost"]
  /\ UNCHANGED <<producer, shmp, pending, val, temp, counters, handled>>

Load(c) ==
  /\ hpc[c] \in {"received", "lost"}
  /\ temp' = [temp EXCEPT ![c] = IF hpc[c] = "received" THEN cnt ELSE loss_cnt]
  /\ hpc' = [hpc EXCEPT ![c] = IF hpc[c] = "received" THEN "store_cnt" ELSE "store_loss"]
  /\ UNCHANGED <<producer, shmp, pending, val, counters, handled>>

Return(c) ==
  /\ hpc' = [hpc EXCEPT ![c] = "pause"]
  /\ handled' = [handled EXCEPT ![c] = @ + 1]

\* Mutant: both counters move.
StoreReceivedBoth(c) ==
  /\ hpc[c] = "store_cnt"
  /\ cnt' = temp[c] + 1 /\ loss_cnt' = loss_cnt + 1
  /\ Return(c)
  /\ UNCHANGED <<producer, shmp, pending, val, temp>>

StoreReceived(c) ==
  /\ hpc[c] = "store_cnt"
  /\ cnt' = temp[c] + 1
  /\ Return(c)
  /\ UNCHANGED <<producer, shmp, pending, val, temp, loss_cnt>>

StoreLost(c) ==
  /\ hpc[c] = "store_loss"
  /\ loss_cnt' = temp[c] + 1
  /\ Return(c)
  /\ UNCHANGED <<producer, shmp, pending, val, temp, cnt>>

Next ==
  \/ WriteSlot \/ Signal \/ NextMessage \/ ReportReceived \/ ReportLost \/ KillConsumer
  \/ \E c \in Consumers :
       Deliver(c) \/ Compare(c) \/ Load(c) \/ StoreReceived(c) \/ StoreLost(c)

Spec == Init /\ [][Next]_vars

----------------------------------------------------------------------------
(* Properties.                                                             *)

Busy == {"compare", "received", "lost", "store_cnt", "store_loss"}

\* Every variable keeps its type.
TypeOK ==
  /\ shmp \in [0..b - 1 -> 0..m - 1]
  /\ i \in 0..m /\ j \in 1..n + 1
  /\ ppc \in {"write", "signal", "report", "report_lost", "kill", "done"}
  /\ pending \in [Consumers -> None..m - 1]
  /\ hpc \in [Consumers -> {"pause", "dead"} \cup Busy]
  /\ val \in [Consumers -> None..m - 1]
  /\ temp \in [Consumers -> Nat] /\ cnt \in Nat /\ loss_cnt \in Nat
  /\ report \in [cnt : Nat, loss : Nat]
  /\ handled \in [Consumers -> Nat]

\* How many handlers consumers 1 to k have finished together.
Finished[k \in 0..n] == IF k = 0 THEN 0 ELSE Finished[k - 1] + handled[k]

\* The unprotected counters may lose counts to each other but never invent
\* one: together they stay within the number of handlers that have run.
CountsBounded == cnt + loss_cnt <= Finished[n]

\* Message k is in the ring, or has been.
Written(k) == k < i \/ (k = i /\ ppc = "signal")

\* A consumer takes message k for lost only when message k + b has gone into
\* its slot.  A ring with a slot for every message therefore loses none.
LostWasOverwritten ==
  \A c \in Consumers :
    hpc[c] \in {"lost", "store_loss"} => Written(val[c] + b)
=============================================================================
