--------------------------- MODULE ShmDictProofs ---------------------------
(* The mutex of the shared-memory dictionary, for any number of clients,   *)
(* words and lookups, whoever is killed, as long as the server is started  *)
(* at most once.                                                           *)
EXTENDS ShmDict, TLAPS

OneStart == MaxStarts = 1

Free  == \A c \in Clients : ~Holds(c)
Owes(c) == IF Holds(c) THEN 1 ELSE 0

(* The mutex and its undo records: a client owes the kernel one unit       *)
(* exactly while it is inside, and the semaphore is 1 only when nobody is. *)
MutexInv ==
  /\ sem0 \in {0, 1}
  /\ sem0 = 1 => Free
  /\ \A c, d \in Clients : Holds(c) /\ Holds(d) => c = d
  /\ \A c \in Clients : adj0[c] = Owes(c)
  /\ starts = 0 => srv = "down"
  /\ starts = 0 \/ srv \in SetUp => sem0 = 0 /\ Free

\* What exit_sem leaves in the mutex lies between its two values again.
LEMMA UndoRange ==
  ASSUME NEW v \in Int, NEW a \in Int
  PROVE  AfterUndo(v, a) \in 0..SEMVMX
  BY KernelAssumption DEF AfterUndo

\* The undo of one client's exit on the mutex: it comes back if the client
\* was inside and is otherwise left alone.
LEMMA UndoMutex ==
  ASSUME NEW v \in {0, 1}, NEW a \in {0, 1}, v + a <= 1
  PROVE  AfterUndo(v, a) = v + a
  BY KernelAssumption DEF AfterUndo

IInv == TypeOK /\ MutexInv

LEMMA InitInv == ASSUME OneStart PROVE Init => IInv
  BY KernelAssumption, DictAssumption
  DEF OneStart, Init, IInv, TypeOK, MutexInv, Free, Owes, Holds, InMutex, SrvPcs, CliPcs, SetUp

LEMMA ClientEndsInv ==
  ASSUME OneStart, IInv, NEW c \in Clients, pc[c] # "exited", ClientEnds(c)
  PROVE  IInv'
<1> USE KernelAssumption, DictAssumption DEF OneStart
<1>0. sem0 \in Int /\ sem1 \in Int /\ adj0[c] \in Int /\ adj1[c] \in Int
  BY DEF IInv, TypeOK
<1>u. sem0' \in 0..SEMVMX /\ sem1' \in 0..SEMVMX
  BY <1>0, UndoRange DEF ClientEnds
<1>1. TypeOK'
  BY <1>u DEF IInv, TypeOK, ClientEnds, srvVars, CliPcs
<1>2. sem0' = sem0 + adj0[c]
  BY UndoMutex DEF IInv, MutexInv, Owes, Free, Holds, ClientEnds
<1>3. MutexInv'
  BY <1>2 DEF IInv, TypeOK, MutexInv, Owes, Free, Holds, InMutex, ClientEnds, srvVars
<1> QED
  BY <1>1, <1>3 DEF IInv

LEMMA ServerEndsInv ==
  ASSUME OneStart, IInv, starts # 0, ServerEnds
  PROVE  IInv'
<1> USE KernelAssumption, DictAssumption DEF OneStart
<1>0. sem1 \in Int /\ sadj \in Int
  BY DEF IInv, TypeOK
<1>u. sem1' \in 0..SEMVMX
  BY <1>0, UndoRange DEF ServerEnds
<1>1. TypeOK'
  BY <1>u DEF IInv, TypeOK, ServerEnds, cliVars, SrvPcs
<1>2. MutexInv'
  BY DEF IInv, TypeOK, MutexInv, Owes, Free, Holds, ServerEnds, cliVars, SetUp
<1> QED
  BY <1>1, <1>2 DEF IInv

LEMMA ServerInv ==
  ASSUME OneStart, IInv, ServerStep \/ KillServer
  PROVE  IInv'
<1> USE KernelAssumption, DictAssumption DEF OneStart
<1>1. CASE Boot
  BY <1>1 DEF Boot, IInv, TypeOK, MutexInv, Owes, Free, Holds, sems, cliVars, SetUp, SrvPcs
<1>2. CASE Shmget
  BY <1>2 DEF Shmget, IInv, TypeOK, MutexInv, Owes, Free, Holds, sems, cliVars, SetUp,
      SrvPcs
<1>3. CASE Semget
  BY <1>3 DEF Semget, IInv, TypeOK, MutexInv, Owes, Free, Holds, sems, cliVars, SetUp,
      SrvPcs
<1>4. CASE Setall
  <2>1. TypeOK'
    BY <1>4 DEF Setall, IInv, TypeOK, cliVars, SrvPcs
  <2>2. Free /\ starts # 0
    BY <1>4 DEF Setall, IInv, MutexInv, SetUp
  <2>3. MutexInv'
    BY <1>4, <2>2 DEF Setall, IInv, TypeOK, MutexInv, Owes, Free, Holds, cliVars, SetUp
  <2> QED
    BY <2>1, <2>3 DEF IInv
<1>5. ASSUME NEW here \in {"wait", "notify"}, NEW next \in {"read", "wait"},
             ServerSemop(here, next)
      PROVE  IInv'
  <2>1. srv \notin SetUp /\ starts # 0
    BY <1>5 DEF ServerSemop, IInv, MutexInv, SetUp
  <2>2. CASE ServerEnds
    BY <2>1, <2>2, ServerEndsInv
  <2>3. CASE ~ServerEnds
    <3>1. TypeOK'
      BY <1>5, <2>3 DEF ServerSemop, wait, UndoInRange, IInv, TypeOK, cliVars, SrvPcs,
                        Serving
    <3>2. MutexInv'
      BY <1>5, <2>1, <2>3 DEF ServerSemop, IInv, MutexInv, Owes, Free, Holds, cliVars,
                              SetUp
    <3> QED
      BY <3>1, <3>2 DEF IInv
  <2> QED
    BY <2>2, <2>3
<1>6. CASE Wait \/ Notify
  BY <1>5, <1>6 DEF Wait, Notify
<1>7. CASE LookupOpens \/ LookupRead
  BY <1>7 DEF LookupOpens, LookupRead, IInv, TypeOK, MutexInv, Owes, Free, Holds, sems,
              cliVars, SetUp, SrvPcs, Serving
<1>8. CASE LookupCopy
  BY <1>8 DEF LookupCopy, IInv, TypeOK, MutexInv, Owes, Free, Holds, sems, cliVars,
              SetUp, SrvPcs, Serving
<1>9. CASE LookupDone
  <2>1. LookupAnswers(key) \subseteq Texts \cup {XXXX}
    BY DEF LookupAnswers, Answer, Texts
  <2>2. PICK t \in Texts \cup {XXXX} : rec' = [rec EXCEPT !.text = t]
    BY <1>9, <2>1 DEF LookupDone
  <2> QED
    BY <1>9, <2>2 DEF LookupDone, IInv, TypeOK, MutexInv, Owes, Free, Holds, sems,
                      cliVars, SetUp, SrvPcs, Serving
<1>10. CASE KillServer \/ LookupDies
  <2>1. starts # 0
    BY <1>10 DEF KillServer, LookupDies, IInv, MutexInv
  <2>2. ServerEnds
    BY <1>10 DEF KillServer, LookupDies
  <2> QED
    BY <2>1, <2>2, ServerEndsInv
<1> QED
  BY <1>1, <1>2, <1>3, <1>4, <1>6, <1>7, <1>8, <1>9, <1>10 DEF ServerStep

LEMMA ClientInv ==
  ASSUME OneStart, IInv, NEW c \in Clients,
         \/ Launch(c) \/ Quit(c) \/ KillClient(c)
         \/ \E w \in Words : GetWord(c, w)
         \/ Grab(c) \/ ClientStep(c)
  PROVE  IInv'
<1> USE KernelAssumption, DictAssumption DEF OneStart
<1>1. CASE Launch(c)
  BY <1>1 DEF Launch, Goto, IInv, TypeOK, MutexInv, Owes, Free, Holds, sems, srvVars,
              InMutex, CliPcs
<1>2. CASE Quit(c)
  BY <1>2, ClientEndsInv DEF Quit
<1>3. CASE KillClient(c)
  BY <1>3, ClientEndsInv DEF KillClient
<1>4. ASSUME NEW w \in Words, GetWord(c, w)
      PROVE  IInv'
  BY <1>4 DEF GetWord, Goto, IInv, TypeOK, MutexInv, Owes, Free, Holds, sems, srvVars,
              InMutex, CliPcs
<1>5. CASE Grab(c)
  <2>1. TypeOK'
    <3>1. adj0[c] = 0 /\ sem0 = 1
      BY <1>5 DEF Grab, grab, IInv, MutexInv, Owes, Holds, InMutex
    <3> QED
      BY <1>5, <3>1 DEF Grab, grab, Goto, IInv, TypeOK, srvVars, InMutex, CliPcs
  <2>2. MutexInv'
    BY <1>5 DEF Grab, grab, Goto, IInv, TypeOK, MutexInv, Owes, Free, Holds, srvVars,
                InMutex, SetUp
  <2> QED
    BY <2>1, <2>2 DEF IInv
<1>6. CASE Attach(c)
  <2>1. CASE ClientEnds(c)
    BY <1>6, <2>1, ClientEndsInv DEF Attach
  <2>2. CASE ~ClientEnds(c)
    BY <1>6, <2>2 DEF Attach, Goto, IInv, TypeOK, MutexInv, Owes, Free, Holds, sems,
                      srvVars, InMutex, CliPcs
  <2> QED
    BY <2>1, <2>2
<1>7. CASE CopyWord(c)
  BY <1>7 DEF CopyWord, Goto, IInv, TypeOK, MutexInv, Owes, Free, Holds, sems, srvVars,
              InMutex, CliPcs
<1>8. CASE CopyWordDone(c)
  BY <1>8 DEF CopyWordDone, Goto, IInv, TypeOK, MutexInv, Owes, Free, Holds, sems,
              srvVars, InMutex, CliPcs
<1>9. CASE Alert(c)
  <2>1. CASE ClientEnds(c)
    BY <1>9, <2>1, ClientEndsInv DEF Alert
  <2>2. CASE ~ClientEnds(c)
    <3>1. TypeOK'
      BY <1>9, <2>2 DEF Alert, alert, UndoInRange, Goto, IInv, TypeOK, srvVars, InMutex,
                        CliPcs
    <3>2. MutexInv'
      BY <1>9, <2>2 DEF Alert, Goto, IInv, TypeOK, MutexInv, Owes, Free, Holds, srvVars,
                        InMutex
    <3> QED
      BY <3>1, <3>2 DEF IInv
  <2> QED
    BY <2>1, <2>2
<1>10. CASE Await(c)
  BY <1>10 DEF Await, Goto, IInv, TypeOK, MutexInv, Owes, Free, Holds, sems, srvVars,
               InMutex, CliPcs
<1>11. CASE Release(c)
  <2>1. adj0[c] = 1 /\ sem0 = 0
    BY <1>11 DEF Release, IInv, MutexInv, Owes, Free, Holds, InMutex
  <2>2. TypeOK'
    BY <1>11, <2>1 DEF Release, release, ReleaseUndo, Goto, IInv, TypeOK, srvVars, CliPcs
  <2>3. MutexInv'
    BY <1>11, <2>1 DEF Release, release, ReleaseUndo, Goto, IInv, TypeOK, MutexInv, Owes,
                       Free, Holds, srvVars, InMutex
  <2> QED
    BY <2>2, <2>3 DEF IInv
<1>12. CASE Test(c)
  BY <1>12 DEF Test, Goto, IInv, TypeOK, MutexInv, Owes, Free, Holds, sems, srvVars,
               InMutex, CliPcs
<1>13. CASE TakeText(c)
  BY <1>13 DEF TakeText, Goto, IInv, TypeOK, MutexInv, Owes, Free, Holds, sems, srvVars,
               InMutex, CliPcs
<1>14. CASE PrintAnswer(c)
  BY <1>14 DEF PrintAnswer, Goto, IInv, TypeOK, MutexInv, Owes, Free, Holds, sems,
               srvVars, InMutex, CliPcs
<1> QED
  BY <1>1, <1>2, <1>3, <1>4, <1>5, <1>6, <1>7, <1>8, <1>9, <1>10, <1>11, <1>12, <1>13,
     <1>14 DEF ClientStep

LEMMA NextInv ==
  ASSUME OneStart, IInv, [Next]_vars
  PROVE  IInv'
<1>1. CASE Next
  BY <1>1, ServerInv, ClientInv DEF Next
<1>2. CASE UNCHANGED vars
  BY <1>2 DEF vars, IInv, TypeOK, MutexInv, Owes, Free, Holds
<1> QED
  BY <1>1, <1>2

LEMMA Inductive == ASSUME OneStart PROVE Spec => []IInv
  BY InitInv, NextInv, PTL DEF Spec

\* Every variable stays in its type: semop never drives a semaphore or a
\* semadj out of the kernel's range, also through the undo of a process
\* killed anywhere.
THEOREM TypeCorrect == ASSUME OneStart PROVE Spec => []TypeOK
<1>1. IInv => TypeOK
  BY DEF IInv
<1> QED
  BY <1>1, Inductive, PTL

\* At most one client is between grab and release, however many clients
\* there are and whichever of them, or the server, is killed there.
THEOREM Mutex == ASSUME OneStart PROVE Spec => []MutualExclusion
<1>1. IInv => MutualExclusion
  BY DEF IInv, MutexInv, MutualExclusion
<1> QED
  BY <1>1, Inductive, PTL

----------------------------------------------------------------------------
(* The handshake over semaphore 1.  Nobody is killed and a client ends     *)
(* only while no other is inside, so no undo disturbs a lookup under way.  *)

Calm == MaxStarts = 1 /\ Mortal = {} /\ QuietExit

Up == {"wait"} \cup Serving

\* What a client in await may find: its request is pending, being served,
\* answered, or orphaned by the server's end.
AwaitPhase(c) ==
  \/ srv = "wait" /\ sem1 = 2
  \/ /\ srv \in Serving /\ sem1 = 1
     /\ srv \in {"write", "writing"} => key = word[c]
     /\ srv = "notify" => rec.text = Answer(word[c])
  \/ srv = "wait" /\ sem1 = 0 /\ rec.text = Answer(word[c])
  \/ srv = "down" /\ sem1 > 0

PhaseInv ==
  /\ \A c \in Clients : adj1[c] <= 0
  /\ srv = "setall" \/ (starts = 1 /\ srv \notin SetUp) => made = "all"
  /\ Free => sem1 = 0 /\ srv \notin Serving /\ (srv = "down" => starts = 0)
  /\ \A c \in Clients : Holds(c) => word[c] \in Words
  /\ \A c \in Clients : pc[c] = "grab" => word[c] \in Words
  /\ \A c \in Clients : pc[c] = "attach" => word[c] \in Words
  /\ \A c \in Clients : pc[c] \in {"copy", "copying", "alert"} => sem1 = 0 /\ srv = "wait"
  /\ \A c \in Clients : pc[c] \in {"alert", "await"} => rec.word = word[c]
  /\ \A c \in Clients : pc[c] = "await" => AwaitPhase(c)
  /\ \A c \in Clients : pc[c] = "release" =>
       sem1 = 0 /\ srv = "wait" /\ rec.text = Answer(word[c])

\* Each lookup costs the server's semadj two units, none of them returned;
\* the first one opens the table or is the last.
BudgetInv ==
  /\ starts = 0 \/ srv \in SetUp => asked = 0 /\ table = "unopened"
  /\ srv \in Up => sadj + sem1 = 2 * asked
  /\ srv = "wait" => table = "mapped" \/ (table = "unopened" /\ sadj = 0)
  /\ srv = "read" /\ table # "mapped" => sadj = 1
  /\ srv \in Serving \ {"read"} => table = "mapped"
  /\ srv = "down" /\ starts > 0 =>
       IF table = "failed" THEN asked = 1 ELSE 2 * asked > SEMVMX

HInv == IInv /\ PhaseInv /\ BudgetInv

LEMMA CalmOneStart == Calm => OneStart
  BY DEF Calm, OneStart

LEMMA InitHInv == ASSUME Calm PROVE Init => HInv
<1>1. Init => IInv
  BY InitInv, CalmOneStart
<1>2. Init => PhaseInv /\ BudgetInv
  BY DEF Init, PhaseInv, BudgetInv, Free, Holds, InMutex, Serving, SetUp, Up
<1> QED
  BY <1>1, <1>2 DEF HInv

\* While semaphore 1 is raised, one client is in await and no other client
\* is inside.
LEMMA Awaiter ==
  ASSUME HInv, sem1 >= 1
  PROVE  \E c \in Clients : /\ pc[c] = "await"
                           /\ \A d \in Clients : Holds(d) => d = c
<1>1. sem1 # 0
  BY DEF HInv, IInv, TypeOK
<1>2. PICK c \in Clients : Holds(c)
  BY <1>1 DEF HInv, PhaseInv, Free
<1>3. pc[c] = "await"
  BY <1>1, <1>2 DEF HInv, PhaseInv, Holds, InMutex
<1> QED
  BY <1>2, <1>3 DEF HInv, IInv, MutexInv

\* A client that ends while nobody else is inside, and before it has
\* alerted for its current word, finds semaphore 1 at zero and leaves it so.
LEMMA ClientEndsHInv ==
  ASSUME Calm, HInv, NEW c \in Clients, pc[c] \in {"main", "attach", "alert"},
         \A d \in Clients \ {c} : ~Holds(d), ClientEnds(c)
  PROVE  HInv'
<1> USE KernelAssumption, DictAssumption
<1>1. IInv'
  BY ClientEndsInv, CalmOneStart DEF HInv
<1>2. sem1 = 0
  BY DEF HInv, PhaseInv, Free, Holds, InMutex
<1>3. sem1' = 0
  <2>1. adj1[c] \in Int /\ adj1[c] <= 0
    BY DEF HInv, IInv, TypeOK, PhaseInv
  <2>2. sem1' = AfterUndo(0, adj1[c])
    BY <1>2 DEF ClientEnds
  <2> QED
    BY <2>1, <2>2 DEF AfterUndo
<1>4. \A d \in Clients : pc'[d] \notin InMutex
  BY DEF ClientEnds, Holds, HInv, IInv, TypeOK, InMutex
<1>5. srv \notin Serving /\ (srv = "down" => starts = 0)
  BY DEF HInv, PhaseInv, Free, Holds, InMutex, Serving
<1>6. PhaseInv'
  BY <1>3, <1>4, <1>5 DEF HInv, IInv, TypeOK, PhaseInv, ClientEnds, Free, Holds, InMutex,
      srvVars, Serving
<1>7. BudgetInv'
  BY <1>2, <1>3 DEF HInv, BudgetInv, ClientEnds, srvVars, Up, Serving, SetUp
<1> QED
  BY <1>1, <1>6, <1>7 DEF HInv

\* The server ends when its semadj is full or its dictionary cannot be
\* mapped, and then it strands exactly one client: the kernel gives its
\* decrements back, semaphore 1 stays up.
LEMMA ServerEndsHInv ==
  ASSUME Calm, HInv, srv \in Up, sem1 >= 1, ServerEnds,
         \/ ~UndoInRange(sadj - wait)
         \/ srv = "read" /\ table = "failed"
  PROVE  PhaseInv' /\ BudgetInv'
<1> USE KernelAssumption, DictAssumption
<1> PICK c \in Clients : pc[c] = "await" /\ \A d \in Clients : Holds(d) => d = c
  BY Awaiter
<1>1. sadj \in Nat /\ sem1 \in Int /\ (sadj = SEMVMX \/ (srv = "read" /\ table = "failed"))
  <2>1. sadj \in 0..SEMVMX /\ sem1 \in Int
    BY DEF HInv, IInv, TypeOK
  <2>2. ~UndoInRange(sadj - wait) => sadj = SEMVMX
    BY <2>1 DEF UndoInRange, wait
  <2> QED
    BY <2>1, <2>2
<1>2. sem1' > 0
  BY <1>1 DEF ServerEnds, AfterUndo
<1>3. starts = 1 /\ starts' = 1 /\ srv \notin SetUp
  BY DEF ServerEnds, Calm, HInv, IInv, TypeOK, MutexInv, Up, Serving, SetUp
<1>4. PhaseInv'
  BY <1>2, <1>3 DEF HInv, PhaseInv, AwaitPhase, ServerEnds, Free, Holds, InMutex, cliVars,
      Serving, SetUp
<1>5. IF table' = "failed" THEN asked' = 1 ELSE 2 * asked' > SEMVMX
  <2>1. sadj + sem1 = 2 * asked /\ asked' = asked /\ table' = table /\ asked \in Nat
    BY DEF HInv, IInv, TypeOK, BudgetInv, ServerEnds
  <2>2. CASE srv = "read" /\ table = "failed"
    <3>1. sem1 = 1 /\ sadj = 1
      BY <2>2 DEF HInv, BudgetInv, PhaseInv, AwaitPhase
    <3> QED
      BY <2>1, <2>2, <3>1
  <2>3. CASE sadj = SEMVMX /\ ~(srv = "read" /\ table = "failed")
    <3>1. table = "mapped"
      BY <2>3, <1>1 DEF HInv, IInv, TypeOK, BudgetInv, Up
    <3> QED
      BY <1>1, <2>1, <2>3, <3>1
  <2> QED
    BY <1>1, <2>2, <2>3
<1>6. BudgetInv'
  BY <1>3, <1>5 DEF BudgetInv, ServerEnds, SetUp, Serving, Up
<1> QED
  BY <1>4, <1>6

LEMMA ServerHInv ==
  ASSUME Calm, HInv, ServerStep \/ KillServer
  PROVE  HInv'
<1> USE KernelAssumption, DictAssumption
<1>0. IInv'
  BY ServerInv, CalmOneStart DEF HInv
<1>1. CASE Boot
  <2>1. Free /\ starts = 0 /\ srv = "down"
    BY <1>1 DEF Boot, Calm, HInv, IInv, TypeOK, MutexInv
  <2>2. PhaseInv' /\ BudgetInv'
    BY <1>1, <2>1 DEF Boot, HInv, PhaseInv, BudgetInv, Free, Holds, InMutex, sems,
        cliVars, SetUp, Serving, Up
  <2> QED
    BY <1>0, <2>2 DEF HInv
<1>2. CASE Shmget \/ Semget
  <2>1. Free /\ srv \in SetUp
    BY <1>2 DEF Shmget, Semget, HInv, IInv, MutexInv, SetUp
  <2>2. PhaseInv' /\ BudgetInv'
    BY <1>2, <2>1 DEF Shmget, Semget, HInv, PhaseInv, BudgetInv, Free, Holds, InMutex,
        sems, cliVars, SetUp, Serving, Up
  <2> QED
    BY <1>0, <2>2 DEF HInv
<1>3. CASE Setall
  <2>1. Free /\ srv \in SetUp
    BY <1>3 DEF Setall, HInv, IInv, MutexInv, SetUp
  <2>2. PhaseInv' /\ BudgetInv'
    BY <1>3, <2>1 DEF Setall, HInv, PhaseInv, BudgetInv, Free, Holds, InMutex, cliVars,
        SetUp, Serving, Up
  <2> QED
    BY <1>0, <2>2 DEF HInv
<1>4. CASE Wait
  <2> PICK c \in Clients : pc[c] = "await" /\ \A d \in Clients : Holds(d) => d = c
    BY <1>4, Awaiter DEF Wait, ServerSemop, wait, HInv, IInv, TypeOK
  <2>1. srv = "wait" /\ sem1 = 2 /\ rec.word = word[c]
    BY <1>4 DEF Wait, ServerSemop, wait, HInv, PhaseInv, AwaitPhase, Serving
  <2>2. CASE ~UndoInRange(sadj - wait)
    <3>1. ServerEnds
      BY <1>4, <2>2 DEF Wait, ServerSemop
    <3> QED
      BY <1>0, <2>1, <2>2, <3>1, ServerEndsHInv DEF Up, HInv
  <2>3. CASE UndoInRange(sadj - wait)
    <3>1. /\ srv' = "read" /\ sem1' = 1 /\ sadj' = sadj + 1
          /\ UNCHANGED <<made, key, table, starts, sem0, adj0, adj1, rec, cliVars, asked>>
      BY <1>4, <2>1, <2>3 DEF Wait, ServerSemop, wait, HInv, IInv, TypeOK
    <3>2. PhaseInv'
      BY <2>1, <3>1 DEF HInv, PhaseInv, AwaitPhase, Free, Holds, InMutex, cliVars,
          Serving, SetUp
    <3>3. BudgetInv'
      BY <2>1, <3>1 DEF HInv, IInv, TypeOK, BudgetInv, cliVars, Serving, SetUp, Up
    <3> QED
      BY <1>0, <3>2, <3>3 DEF HInv
  <2> QED
    BY <2>2, <2>3
<1>5. CASE Notify
  <2> PICK c \in Clients : pc[c] = "await" /\ \A d \in Clients : Holds(d) => d = c
    BY <1>5, Awaiter DEF Notify, ServerSemop, wait, HInv, IInv, TypeOK
  <2>1. srv = "notify" /\ sem1 = 1 /\ rec.word = word[c] /\ rec.text = Answer(word[c])
    BY <1>5 DEF Notify, ServerSemop, wait, HInv, PhaseInv, AwaitPhase, Serving
  <2>2. CASE ~UndoInRange(sadj - wait)
    <3>1. ServerEnds
      BY <1>5, <2>2 DEF Notify, ServerSemop
    <3> QED
      BY <1>0, <2>1, <2>2, <3>1, ServerEndsHInv DEF Up, Serving, HInv
  <2>3. CASE UndoInRange(sadj - wait)
    <3>1. /\ srv' = "wait" /\ sem1' = 0 /\ sadj' = sadj + 1
          /\ UNCHANGED <<made, key, table, starts, sem0, adj0, adj1, rec, cliVars, asked>>
      BY <1>5, <2>1, <2>3 DEF Notify, ServerSemop, wait, HInv, IInv, TypeOK
    <3>2. PhaseInv'
      BY <2>1, <3>1 DEF HInv, PhaseInv, AwaitPhase, Free, Holds, InMutex, cliVars,
          Serving, SetUp
    <3>3. BudgetInv'
      BY <2>1, <3>1 DEF HInv, IInv, TypeOK, BudgetInv, cliVars, Serving, SetUp, Up
    <3> QED
      BY <1>0, <3>2, <3>3 DEF HInv
  <2> QED
    BY <2>2, <2>3
<1>6. CASE LookupOpens \/ LookupDies \/ LookupRead \/ LookupCopy \/ LookupDone
  <2>0. srv \in Serving
    BY <1>6 DEF LookupOpens, LookupDies, LookupRead, LookupCopy, LookupDone, Serving
  <2> PICK c \in Clients : Holds(c)
    BY <2>0 DEF HInv, PhaseInv, Free
  <2>1. /\ pc[c] = "await" /\ AwaitPhase(c) /\ rec.word = word[c] /\ word[c] \in Words
        /\ \A d \in Clients : Holds(d) => d = c
    BY <2>0 DEF HInv, IInv, MutexInv, PhaseInv, Holds, InMutex, Serving
  <2>2. ASSUME ~LookupDies
        PROVE  BudgetInv'
    BY <1>6, <2>2 DEF LookupOpens, LookupRead, LookupCopy, LookupDone, HInv, IInv, TypeOK,
        BudgetInv, sems, SetUp, Serving, Up
  <2>6. CASE LookupDies
    <3>1. ServerEnds /\ srv = "read" /\ table = "failed" /\ sem1 = 1
      BY <2>1, <2>6 DEF LookupDies, AwaitPhase
    <3> QED
      BY <1>0, <3>1, ServerEndsHInv DEF Up, Serving, HInv
  <2>7. CASE LookupOpens
    <3>1. PhaseInv'
      BY <2>1, <2>7 DEF LookupOpens, HInv, PhaseInv, AwaitPhase, Free, Holds, InMutex,
          sems, cliVars, Serving, SetUp
    <3>2. ~LookupDies
      BY <2>7 DEF LookupOpens, LookupDies
    <3> QED
      BY <1>0, <2>2, <3>1, <3>2 DEF HInv
  <2>3. CASE LookupRead
    <3>1. PhaseInv'
      BY <2>1, <2>3 DEF LookupRead, HInv, PhaseInv, AwaitPhase, Free, Holds, InMutex,
          sems, cliVars, Serving, SetUp
    <3> QED
      BY <1>0, <2>2, <2>3, <3>1 DEF HInv, LookupDies, LookupRead
  <2>4. CASE LookupCopy
    <3>1. PhaseInv'
      BY <2>1, <2>4 DEF LookupCopy, HInv, IInv, TypeOK, PhaseInv, AwaitPhase, Free, Holds,
          InMutex, sems, cliVars, Serving, SetUp
    <3> QED
      BY <1>0, <2>2, <2>4, <3>1 DEF HInv, LookupDies, LookupCopy
  <2>5. CASE LookupDone
    <3>1. key = word[c]
      BY <2>1, <2>5 DEF LookupDone, AwaitPhase, Serving
    <3>2. rec' = [rec EXCEPT !.text = Answer(word[c])]
      BY <2>1, <2>5, <3>1 DEF LookupDone, LookupAnswers
    <3>3. rec'.text = Answer(word[c]) /\ rec'.word = rec.word
      BY <3>2 DEF HInv, IInv, TypeOK
    <3>4. PhaseInv'
      BY <2>1, <2>5, <3>3 DEF LookupDone, HInv, PhaseInv, AwaitPhase, Free, Holds,
          InMutex, sems, cliVars, Serving, SetUp
    <3> QED
      BY <1>0, <2>2, <2>5, <3>4 DEF HInv, LookupDies, LookupDone
  <2> QED
    BY <1>6, <2>3, <2>4, <2>5, <2>6, <2>7
<1>7. ~KillServer
  BY DEF KillServer, Calm
<1> QED
  BY <1>1, <1>2, <1>3, <1>4, <1>5, <1>6, <1>7 DEF ServerStep

LEMMA ClientHInv ==
  ASSUME Calm, HInv, NEW c \in Clients,
         \/ Launch(c) \/ Quit(c) \/ KillClient(c)
         \/ \E w \in Words : GetWord(c, w)
         \/ Grab(c) \/ ClientStep(c)
  PROVE  HInv'
<1> USE KernelAssumption, DictAssumption
<1>0. IInv'
  BY ClientInv, CalmOneStart DEF HInv
<1>1. CASE Launch(c) \/ \E w \in Words : GetWord(c, w)
  <2>1. PhaseInv'
    BY <1>1 DEF Launch, GetWord, Goto, HInv, IInv, TypeOK, PhaseInv, AwaitPhase, Free,
        Holds, InMutex, sems, srvVars
  <2>2. BudgetInv'
    BY <1>1 DEF Launch, GetWord, HInv, BudgetInv, sems, srvVars
  <2> QED
    BY <1>0, <2>1, <2>2 DEF HInv
<1>2. CASE Quit(c)
  BY <1>2, ClientEndsHInv DEF Quit, Calm
<1>3. ~KillClient(c)
  BY DEF KillClient, Calm
<1>4. CASE Attach(c)
  <2>1. CASE made # "all"
    <3>1. Free
      BY <2>1 DEF Calm, HInv, IInv, TypeOK, MutexInv, PhaseInv
    <3> QED
      BY <1>4, <2>1, <3>1, ClientEndsHInv DEF Attach, Free
  <2>2. CASE made = "all"
    BY <1>0, <1>4, <2>2 DEF Attach, Goto, HInv, IInv, TypeOK, PhaseInv, BudgetInv,
        AwaitPhase, Free, Holds, InMutex, sems, srvVars
  <2> QED
    BY <2>1, <2>2
<1>5. CASE Grab(c)
  <2>1. Free /\ starts # 0 /\ srv \notin SetUp /\ srv = "wait"
    BY <1>5 DEF Grab, grab, HInv, IInv, TypeOK, MutexInv, PhaseInv, SrvPcs
  <2>2. PhaseInv'
    BY <1>5, <2>1 DEF Grab, Goto, HInv, IInv, TypeOK, PhaseInv, Free, Holds, InMutex,
        srvVars, Serving, SetUp
  <2>3. BudgetInv'
    BY <1>5 DEF Grab, HInv, BudgetInv, srvVars
  <2> QED
    BY <1>0, <2>2, <2>3 DEF HInv
<1>6. ASSUME Holds(c)
      PROVE  \A d \in Clients : Holds(d) => d = c
  BY <1>6 DEF HInv, IInv, MutexInv
<1>7. CASE CopyWord(c) \/ CopyWordDone(c)
  <2>1. PhaseInv'
    BY <1>6, <1>7 DEF CopyWord, CopyWordDone, Goto, HInv, IInv, TypeOK, PhaseInv, Free,
        Holds, InMutex, sems, srvVars, Serving
  <2>2. BudgetInv'
    BY <1>7 DEF CopyWord, CopyWordDone, HInv, BudgetInv, sems, srvVars
  <2> QED
    BY <1>0, <2>1, <2>2 DEF HInv
<1>8. CASE Alert(c)
  <2>1. \A d \in Clients : Holds(d) => d = c
    BY <1>6, <1>8 DEF Alert, Holds, InMutex
  <2>2. sem1 = 0 /\ srv = "wait" /\ sem1 + alert <= SEMVMX
    BY <1>8 DEF Alert, alert, HInv, PhaseInv
  <2>3. CASE ClientEnds(c)
    BY <1>8, <2>1, <2>3, ClientEndsHInv DEF Alert
  <2>4. CASE ~ClientEnds(c)
    <3>1. asked < SEMVMX
      BY <2>2 DEF HInv, IInv, TypeOK, BudgetInv, Up
    <3>2. /\ sem1' = 2 /\ asked' = asked + 1
          /\ adj1' = [adj1 EXCEPT ![c] = @ - 2] /\ Goto(c, "await")
          /\ UNCHANGED <<word, got, sem0, adj0, sadj, srvVars, rec>>
      BY <1>8, <2>2, <2>4, <3>1 DEF Alert, alert
    <3>3. PhaseInv'
      BY <1>8, <2>1, <2>2, <3>2 DEF Alert, Goto, HInv, IInv, TypeOK, PhaseInv, AwaitPhase,
          Free, Holds, InMutex, srvVars, Serving
    <3>4. BudgetInv'
      BY <2>2, <3>2 DEF HInv, IInv, TypeOK, MutexInv, BudgetInv, srvVars, Up, SetUp, Serving
    <3> QED
      BY <1>0, <3>3, <3>4 DEF HInv
  <2> QED
    BY <2>3, <2>4
<1>9. CASE Await(c)
  <2>1. AwaitPhase(c) /\ sem1 = 0 /\ \A d \in Clients : Holds(d) => d = c
    BY <1>6, <1>9 DEF Await, AwaitReady, HInv, PhaseInv, Holds, InMutex
  <2>2. srv = "wait" /\ rec.text = Answer(word[c])
    BY <2>1 DEF AwaitPhase
  <2>3. PhaseInv'
    BY <1>9, <2>1, <2>2 DEF Await, Goto, HInv, IInv, TypeOK, PhaseInv, Free, Holds,
        InMutex, sems, srvVars, Serving
  <2>4. BudgetInv'
    BY <1>9 DEF Await, HInv, BudgetInv, sems, srvVars
  <2> QED
    BY <1>0, <2>3, <2>4 DEF HInv
<1>10. CASE Release(c)
  <2>1. sem1 = 0 /\ srv = "wait" /\ \A d \in Clients : Holds(d) => d = c
    BY <1>6, <1>10 DEF Release, HInv, PhaseInv, Holds, InMutex
  <2>2. PhaseInv'
    BY <1>10, <2>1 DEF Release, Goto, HInv, IInv, TypeOK, PhaseInv, Free, Holds, InMutex,
        srvVars, Serving
  <2>3. BudgetInv'
    BY <1>10 DEF Release, HInv, BudgetInv, srvVars
  <2> QED
    BY <1>0, <2>2, <2>3 DEF HInv
<1>11. CASE Test(c) \/ TakeText(c) \/ PrintAnswer(c)
  <2>1. PhaseInv'
    BY <1>11 DEF Test, TakeText, PrintAnswer, Goto, HInv, IInv, TypeOK, PhaseInv,
        AwaitPhase, Free, Holds, InMutex, sems, srvVars
  <2>2. BudgetInv'
    BY <1>11 DEF Test, TakeText, PrintAnswer, HInv, BudgetInv, sems, srvVars
  <2> QED
    BY <1>0, <2>1, <2>2 DEF HInv
<1> QED
  BY <1>1, <1>2, <1>3, <1>4, <1>5, <1>7, <1>8, <1>9, <1>10, <1>11 DEF ClientStep

LEMMA NextHInv ==
  ASSUME Calm, HInv, [Next]_vars
  PROVE  HInv'
<1>1. CASE Next
  BY <1>1, ServerHInv, ClientHInv DEF Next
<1>2. CASE UNCHANGED vars
  <2>1. IInv'
    BY <1>2, NextInv, CalmOneStart DEF HInv
  <2> QED
    BY <1>2, <2>1 DEF vars, HInv, PhaseInv, BudgetInv, AwaitPhase, Free, Holds
<1> QED
  BY <1>1, <1>2

LEMMA HandshakeInductive == ASSUME Calm PROVE Spec => []HInv
  BY InitHInv, NextHInv, PTL DEF Spec

\* When await returns, the record holds the whole answer to the client's
\* own word: one semaphore carries both the request and the reply.
THEOREM AwaitIsReply == ASSUME Calm PROVE Spec => []AwaitedAnswer
<1>1. HInv => AwaitedAnswer
  BY DEF HInv, PhaseInv, AwaitedAnswer
<1> QED
  BY <1>1, HandshakeInductive, PTL

\* The server reads and writes the record only while a client waits for it,
\* with that client's whole word in the record.
THEOREM ServerInTurn == ASSUME Calm PROVE Spec => []ServerWorksForAwaiter
<1>1. HInv => ServerWorksForAwaiter
  <2> SUFFICES ASSUME HInv, srv \in Serving
               PROVE  \E c \in Clients : pc[c] = "await" /\ rec.word = word[c]
    BY DEF ServerWorksForAwaiter
  <2> PICK c \in Clients : Holds(c)
    BY DEF HInv, PhaseInv, Free
  <2> QED
    BY DEF HInv, PhaseInv, Holds, InMutex, Serving
<1> QED
  BY <1>1, HandshakeInductive, PTL

\* A server that could map its dictionary never fails before more than
\* SEMVMX \div 2 lookups were asked for; one that could not ends in its first.
THEOREM Lifetime == ASSUME Calm PROVE Spec => []ServerLifetime
<1>1. HInv => ServerLifetime
  <2>1. \A n \in Nat : 2 * n > SEMVMX => n > SEMVMX \div 2
    BY KernelAssumption
  <2> QED
    BY <2>1 DEF HInv, IInv, TypeOK, BudgetInv, ServerLifetime
<1> QED
  BY <1>1, HandshakeInductive, PTL
=============================================================================
