------------------------------ MODULE ShmDict ------------------------------
(***************************************************************************)
(* The shared-memory dictionary of SP_HW12.  shm_server answers one lookup *)
(* at a time through one shared record {word, text}; every shm_client      *)
(* process (main.c linked with lookup6.c) takes semaphore 0 as a mutex,    *)
(* copies its word into the record, raises semaphore 1 by 2, and waits for *)
(* it to be 0; the server lowers semaphore 1 by 1 to wait and by 1 more to *)
(* notify.  All operations but the wait for zero carry SEM_UNDO, so the    *)
(* kernel keeps for each process a semadj it adds back when the process    *)
(* ends.                                                                   *)
(*                                                                         *)
(* One action is one system call, or one half of a strcpy on the shared    *)
(* record: while a copy is under way the field holds Torn, which stands    *)
(* for whatever mix of old and new bytes another process would then see.   *)
(***************************************************************************)
EXTENDS Integers, FiniteSets

CONSTANTS
  Clients,    \* shm_client processes
  Server,     \* the shm_server process
  Words,      \* words a user may ask for
  Dict,       \* the sorted dictionary file: what lookup5 answers for a word
  XXXX,       \* the text that stands for NOTFOUND in the shared record
  Torn,       \* a string caught in the middle of a strcpy
  Empty,      \* the zero bytes of fresh memory
  SEMVMX,     \* the kernel's bound on a semaphore and on a semadj (32767)
  MaxStarts,  \* bound: how often the server is started
  Mortal,     \* processes that may be killed at any step
  QuietExit   \* TRUE: a client sees end of input only while no other client
              \* is inside its lookup; FALSE: at any time

Texts == {Dict[w] : w \in Words}

ASSUME DictAssumption ==
  /\ Server \notin Clients
  /\ Torn \notin Words /\ Empty \notin Words
  /\ Torn \notin Texts /\ Torn # Empty /\ Torn # XXXX
  /\ DOMAIN Dict = Words

\* 32767 is odd; a budget of at least one lookup.
ASSUME KernelAssumption ==
  /\ SEMVMX \in Nat /\ SEMVMX >= 3 /\ SEMVMX % 2 = 1
  /\ MaxStarts \in Nat
  /\ Mortal \subseteq Clients \cup {Server}
  /\ QuietExit \in BOOLEAN

VARIABLES
  made,    \* which IPC objects exist under the key: "none", "shm", "all"
  sem0,    \* semaphore 0: the clients' mutex
  sem1,    \* semaphore 1: 2 = request made, 1 = being served, 0 = idle
  adj0,    \* semadj of semaphore 0, per client
  adj1,    \* semadj of semaphore 1, per client
  sadj,    \* semadj of semaphore 1 of the server
  rec,     \* the shared Dictrec
  srv,     \* where the server is
  key,     \* the server's private copy of the word (temp.word)
  table,   \* the server's mapping of the dictionary file
  starts,  \* how often the server has been started
  pc,      \* where each client is
  word,    \* tryit.word of each client
  got,     \* what the client's lookup returned
  asked    \* history: alerts so far, counted up to SEMVMX

sems    == <<sem0, sem1, adj0, adj1, sadj>>
srvVars == <<srv, key, table, starts, made>>
cliVars == <<pc, word, got>>
vars    == <<made, sem0, sem1, adj0, adj1, sadj, rec, srv, key, table, starts,
             pc, word, got, asked>>

SetUp   == {"shmget", "semget", "setall"}
Serving == {"read", "write", "writing", "notify"}
InMutex == {"copy", "copying", "alert", "await", "release"}
SrvPcs  == {"down", "wait"} \cup SetUp \cup Serving
CliPcs  == {"exited", "main", "attach", "grab", "test", "take", "print"} \cup InMutex

Holds(c)  == pc[c] \in InMutex
Answer(w) == Dict[w]

----------------------------------------------------------------------------
(* The kernel's side of semop and of process exit (external).              *)

UndoInRange(adj) == -SEMVMX - 1 <= adj /\ adj <= SEMVMX

\* Mutant: the adjustment is not clipped.
AfterUndoUnclipped(val, adj) == val + adj

\* exit_sem: a semaphore is adjusted by semadj and clipped to 0..SEMVMX.
AfterUndo(val, adj) ==
  LET v == val + adj
  IN  IF v < 0 THEN 0 ELSE IF v > SEMVMX THEN SEMVMX ELSE v

----------------------------------------------------------------------------
(* The sembufs of lookup6.c and shm_server.c: what semop adds.  An         *)
(* operation with SEM_UNDO subtracts the same amount from semadj.          *)

\* Mutant: an alert for one server step only.
AlertOne == 1

grab    == -1
release == 1
alert   == 2
wait    == -1

\* Mutant: the release forgets SEM_UNDO, so the grab stays in semadj.
ReleaseWithoutUndo(adj) == adj

ReleaseUndo(adj) == adj - release

\* Mutants: await for the wrong values of semaphore 1.
AwaitBelowTwo == sem1 <= 1
AwaitNothing  == TRUE
AwaitOne      == sem1 = 1

\* await is {1, 0, 0}: it blocks until semaphore 1 is zero.
AwaitReady == sem1 = 0

----------------------------------------------------------------------------
Init ==
  /\ made = "none"
  /\ sem0 = 0 /\ sem1 = 0
  /\ adj0 = [c \in Clients |-> 0] /\ adj1 = [c \in Clients |-> 0]
  /\ sadj = 0
  /\ rec = [word |-> Empty, text |-> Empty]
  /\ srv = "down" /\ key = Empty /\ table = "unopened" /\ starts = 0
  /\ pc = [c \in Clients |-> "main"]
  /\ word = [c \in Clients |-> Empty]
  /\ got = [c \in Clients |-> Empty]
  /\ asked = 0

----------------------------------------------------------------------------
(* The server.                                                             *)

Boot ==
  /\ srv = "down" /\ starts < MaxStarts
  /\ srv' = "shmget" /\ starts' = starts + 1 /\ key' = Empty
  /\ table' = "unopened"
  /\ UNCHANGED <<made, sems, rec, cliVars, asked>>

Shmget ==
  /\ srv = "shmget"
  /\ srv' = "semget"
  /\ made' = IF made = "none" THEN "shm" ELSE made
  /\ UNCHANGED <<key, table, starts, sems, rec, cliVars, asked>>

Semget ==
  /\ srv = "semget"
  /\ srv' = "setall"
  /\ made' = "all"
  /\ UNCHANGED <<key, table, starts, sems, rec, cliVars, asked>>

\* SETALL also clears the semadj of every process.
Setall ==
  /\ srv = "setall"
  /\ srv' = "wait"
  /\ sem0' = 1 /\ sem1' = 0 /\ sadj' = 0
  /\ adj0' = [c \in Clients |-> 0] /\ adj1' = [c \in Clients |-> 0]
  /\ UNCHANGED <<made, key, table, starts, rec, cliVars, asked>>

\* DIE, or a fatal signal: the kernel undoes the server's operations.
ServerEnds ==
  /\ srv' = "down" /\ key' = Empty
  /\ sem1' = AfterUndo(sem1, sadj) /\ sadj' = 0
  /\ UNCHANGED <<made, table, starts, sem0, adj0, adj1, rec, cliVars, asked>>

\* semop(semid, &wait, 1): the same sembuf waits and notifies.
ServerSemop(here, next) ==
  /\ srv = here /\ sem1 + wait >= 0
  /\ \/ /\ UndoInRange(sadj - wait)
        /\ sem1' = sem1 + wait /\ sadj' = sadj - wait
        /\ srv' = next
        /\ UNCHANGED <<made, key, table, starts, sem0, adj0, adj1, rec, cliVars, asked>>
     \/ /\ ~UndoInRange(sadj - wait)     \* ERANGE
        /\ ServerEnds

Wait   == ServerSemop("wait", "read")
Notify == ServerSemop("notify", "wait")

\* The first lookup of a server opens and maps the dictionary file; stat has
\* only seen that there is one.
LookupOpens ==
  /\ srv = "read" /\ table = "unopened"
  /\ table' \in {"mapped", "failed"}
  /\ UNCHANGED <<srv, made, key, starts, sems, rec, cliVars, asked>>

\* DIE("open") or DIE("mmap").
LookupDies ==
  /\ srv = "read" /\ table = "failed"
  /\ ServerEnds

\* strcpy(temp.word, sought->word).
LookupRead ==
  /\ srv = "read" /\ table = "mapped"
  /\ srv' = "write" /\ key' = rec.word
  /\ UNCHANGED <<made, table, starts, sems, rec, cliVars, asked>>

LookupCopy ==
  /\ srv = "write"
  /\ srv' = "writing" /\ rec' = [rec EXCEPT !.text = Torn]
  /\ UNCHANGED <<made, key, table, starts, sems, cliVars, asked>>

\* A torn key may match any record or none; an empty one matches none.
LookupAnswers(k) ==
  IF k \in Words THEN {Answer(k)} ELSE IF k = Empty THEN {XXXX} ELSE Texts \cup {XXXX}

\* Mutant: no break after NOTFOUND, so the switch runs on into DIE.
LookupDoneFallsThrough ==
  /\ srv = "writing"
  /\ IF Answer(key) = XXXX
     THEN ServerEnds
     ELSE /\ rec' = [rec EXCEPT !.text = Answer(key)]
          /\ srv' = "notify" /\ key' = Empty
          /\ UNCHANGED <<made, table, starts, sems, cliVars, asked>>

LookupDone ==
  /\ srv = "writing"
  /\ \E t \in LookupAnswers(key) : rec' = [rec EXCEPT !.text = t]
  /\ srv' = "notify" /\ key' = Empty
  /\ UNCHANGED <<made, table, starts, sems, cliVars, asked>>

KillServer ==
  /\ Server \in Mortal /\ srv # "down"
  /\ ServerEnds

ServerStep ==
  \/ Boot \/ Shmget \/ Semget \/ Setall
  \/ Wait \/ LookupOpens \/ LookupDies \/ LookupRead \/ LookupCopy \/ LookupDone \/ Notify

----------------------------------------------------------------------------
(* A client: main.c, and lookup6.c below it.                               *)

\* Any end of a client process, orderly or not: exit_sem undoes its semops.
ClientEnds(c) ==
  /\ pc' = [pc EXCEPT ![c] = "exited"]
  /\ word' = [word EXCEPT ![c] = Empty] /\ got' = [got EXCEPT ![c] = Empty]
  /\ sem0' = AfterUndo(sem0, adj0[c]) /\ sem1' = AfterUndo(sem1, adj1[c])
  /\ adj0' = [adj0 EXCEPT ![c] = 0] /\ adj1' = [adj1 EXCEPT ![c] = 0]
  /\ UNCHANGED <<sadj, srvVars, rec, asked>>

Goto(c, l) == pc' = [pc EXCEPT ![c] = l]

Launch(c) ==
  /\ pc[c] = "exited"
  /\ Goto(c, "main")
  /\ UNCHANGED <<word, got, sems, srvVars, rec, asked>>

\* fgets returned a line: the newline is cut and lookup is called.
GetWord(c, w) ==
  /\ pc[c] = "main"
  /\ word' = [word EXCEPT ![c] = w]
  /\ Goto(c, "attach")
  /\ UNCHANGED <<got, sems, srvVars, rec, asked>>

\* End of input: main falls off its end.
Quit(c) ==
  /\ pc[c] = "main"
  /\ QuietExit => \A d \in Clients \ {c} : ~Holds(d)
  /\ ClientEnds(c)

\* shmget and semget without IPC_CREAT.  The objects are never removed, so
\* a repetition on later lookups (first_time = 0) changes nothing.
Attach(c) ==
  /\ pc[c] = "attach"
  /\ \/ /\ made = "all"
        /\ Goto(c, "grab")
        /\ UNCHANGED <<word, got, sems, srvVars, rec, asked>>
     \/ /\ made # "all"
        /\ ClientEnds(c)

Grab(c) ==
  /\ pc[c] = "grab" /\ sem0 + grab >= 0
  /\ sem0' = sem0 + grab /\ adj0' = [adj0 EXCEPT ![c] = @ - grab]
  /\ Goto(c, "copy")
  /\ UNCHANGED <<word, got, sem1, adj1, sadj, srvVars, rec, asked>>

CopyWord(c) ==
  /\ pc[c] = "copy"
  /\ rec' = [rec EXCEPT !.word = Torn]
  /\ Goto(c, "copying")
  /\ UNCHANGED <<word, got, sems, srvVars, asked>>

CopyWordDone(c) ==
  /\ pc[c] = "copying"
  /\ rec' = [rec EXCEPT !.word = word[c]]
  /\ Goto(c, "alert")
  /\ UNCHANGED <<word, got, sems, srvVars, asked>>

Alert(c) ==
  /\ pc[c] = "alert"
  /\ \/ /\ sem1 + alert <= SEMVMX /\ UndoInRange(adj1[c] - alert)
        /\ sem1' = sem1 + alert /\ adj1' = [adj1 EXCEPT ![c] = @ - alert]
        /\ asked' = IF asked < SEMVMX THEN asked + 1 ELSE asked
        /\ Goto(c, "await")
        /\ UNCHANGED <<word, got, sem0, adj0, sadj, srvVars, rec>>
     \/ /\ sem1 + alert > SEMVMX \/ ~UndoInRange(adj1[c] - alert)     \* ERANGE
        /\ ClientEnds(c)

Await(c) ==
  /\ pc[c] = "await" /\ AwaitReady
  /\ Goto(c, "release")
  /\ UNCHANGED <<word, got, sems, srvVars, rec, asked>>

Release(c) ==
  /\ pc[c] = "release"
  /\ sem0' = sem0 + release /\ adj0' = [adj0 EXCEPT ![c] = ReleaseUndo(@)]
  /\ Goto(c, "test")
  /\ UNCHANGED <<word, got, sem1, adj1, sadj, srvVars, rec, asked>>

\* strcmp(shm->text, "XXXX"), then strcpy: two reads of the shared record.
Test(c) ==
  /\ pc[c] = "test"
  /\ IF rec.text = XXXX
     THEN Goto(c, "print") /\ got' = [got EXCEPT ![c] = XXXX]
     ELSE Goto(c, "take") /\ UNCHANGED got
  /\ UNCHANGED <<word, sems, srvVars, rec, asked>>

TakeText(c) ==
  /\ pc[c] = "take"
  /\ got' = [got EXCEPT ![c] = rec.text]
  /\ Goto(c, "print")
  /\ UNCHANGED <<word, sems, srvVars, rec, asked>>

PrintAnswer(c) ==
  /\ pc[c] = "print"
  /\ Goto(c, "main")
  /\ word' = [word EXCEPT ![c] = Empty] /\ got' = [got EXCEPT ![c] = Empty]
  /\ UNCHANGED <<sems, srvVars, rec, asked>>

KillClient(c) ==
  /\ c \in Mortal /\ pc[c] # "exited"
  /\ ClientEnds(c)

\* Steps a client takes by itself once it has a word.
ClientStep(c) ==
  \/ Attach(c) \/ CopyWord(c) \/ CopyWordDone(c) \/ Alert(c) \/ Await(c)
  \/ Release(c) \/ Test(c) \/ TakeText(c) \/ PrintAnswer(c)

Next ==
  \/ ServerStep
  \/ KillServer
  \/ \E c \in Clients :
       \/ Launch(c) \/ Quit(c) \/ KillClient(c)
       \/ \E w \in Words : GetWord(c, w)
       \/ Grab(c) \/ ClientStep(c)

Spec == Init /\ [][Next]_vars

\* Every process keeps running.  Grab is strongly fair: the kernel serves
\* the processes that sleep on a semaphore in the order they went to sleep.
FairSpec ==
  /\ Spec
  /\ WF_vars(ServerStep)
  /\ \A c \in Clients : WF_vars(ClientStep(c)) /\ SF_vars(Grab(c))

----------------------------------------------------------------------------
(* Properties.                                                             *)

\* Every variable keeps its type; the kernel's bounds are respected.
TypeOK ==
  /\ made \in {"none", "shm", "all"}
  /\ sem0 \in 0..SEMVMX /\ sem1 \in 0..SEMVMX
  /\ adj0 \in [Clients -> -SEMVMX - 1 .. SEMVMX]
  /\ adj1 \in [Clients -> -SEMVMX - 1 .. SEMVMX]
  /\ sadj \in 0..SEMVMX
  /\ rec \in [word : Words \cup {Torn, Empty},
              text : Texts \cup {XXXX, Torn, Empty}]
  /\ srv \in SrvPcs /\ key \in Words \cup {Torn, Empty}
  /\ table \in {"unopened", "mapped", "failed"}
  /\ starts \in 0..MaxStarts
  /\ pc \in [Clients -> CliPcs]
  /\ word \in [Clients -> Words \cup {Empty}]
  /\ got \in [Clients -> Texts \cup {XXXX, Torn, Empty}]
  /\ asked \in 0..SEMVMX

\* "Reserve semaphore so other clients will wait" (lookup6.c): at most one
\* client is between grab and release.  The undo of a client that dies
\* inside must give the mutex back exactly once.
MutualExclusion ==
  \A c, d \in Clients : Holds(c) /\ Holds(d) => c = d

\* The server touches the shared record only for a client that is blocked
\* in await, and it is working on that client's whole word.
ServerWorksForAwaiter ==
  srv \in Serving =>
    \E c \in Clients : pc[c] = "await" /\ rec.word = word[c]

\* "Wait for server to finish" (lookup6.c): when await returns, the record
\* holds the complete answer to this client's own word.
AwaitedAnswer ==
  \A c \in Clients : pc[c] = "release" => rec.text = Answer(word[c])

\* What lookup hands back to main is the dictionary's answer to the word
\* main asked for.
ReturnedAnswer ==
  \A c \in Clients : pc[c] = "print" => got[c] = Answer(word[c])

\* The server's own SEM_UNDO bookkeeping is never cleared, so its semop fails
\* in the end (ERANGE, "semop wait" or "semop notify"); a server that could
\* map its dictionary does not end before it was asked for more than
\* SEMVMX \div 2 lookups.  One that could not ends in its first lookup.
ServerLifetime ==
  srv = "down" /\ starts > 0 =>
    IF table = "failed" THEN asked = 1 ELSE asked > SEMVMX \div 2

\* A client that alerted the server gets out of await, unless the server
\* has gone down.
AwaitEnds ==
  \A c \in Clients : pc[c] = "await" ~> (pc[c] # "await" \/ srv = "down")

\* A client waiting for the mutex gets it, unless the server has gone down.
GrabEnds ==
  \A c \in Clients : pc[c] = "grab" ~> (pc[c] # "grab" \/ srv = "down")

\* A lookup comes to an end, whatever it waits for: the semop of the mutex
\* (lookup6.c:36) and the one for the server's answer (lookup6.c:46).
LookupEnds == AwaitEnds /\ GrabEnds
=============================================================================
