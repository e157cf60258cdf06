------------------------------- MODULE Popen -------------------------------
(***************************************************************************)
(* my_popen and my_pclose of SP_HW6/44_2.c and a caller that keeps several *)
(* streams open, reads and writes them as main does and closes them in any *)
(* order.  The n-th successful call makes stream n and process n; an end   *)
(* of its pipe is <<"r", n>> or <<"w", n>>.                                *)
(***************************************************************************)
EXTENDS Naturals, Sequences, FiniteSets

CONSTANTS
  MAX_POPEN,
  MaxOpens   \* bound: calls of my_popen that get as far as the fork

ASSUME PopenAssumption == MAX_POPEN \in Nat \ {0} /\ MaxOpens \in Nat

VARIABLES
  popen_streams,  \* the table: a stream, or NULL
  popen_count,
  opens,    \* calls so far that made a pipe
  fds,      \* the pipe ends the caller has open
  kids,     \* the processes
  pc, on,   \* where the caller is, and on which stream
  held,     \* the streams the caller has not closed yet
  lifo      \* history: every stream closed so far was the last one opened

table == <<popen_streams, popen_count>>
vars  == <<table, opens, fds, kids, pc, on, held, lifo>>

NULL    == 0
Streams == 1..MaxOpens
Slots   == 1..MAX_POPEN
Kid(k)  == IF kids[k].mode = "r" THEN <<"w", k>> ELSE <<"r", k>>  \* the end of the process
Own(k)  == IF kids[k].mode = "r" THEN <<"r", k>> ELSE <<"w", k>>  \* the end of the caller
Pipe(k) == {<<"r", k>>, <<"w", k>>}
Holders(e) == {k \in Streams : e \in kids[k].ends}
NoKid   == [pc |-> "none", mode |-> "r", ends |-> {}, seen |-> <<>>]

Init ==
  /\ popen_streams = [i \in Slots |-> NULL] /\ popen_count = 0
  /\ opens = 0 /\ fds = {} /\ kids = [k \in Streams |-> NoKid]
  /\ pc = "call" /\ on = NULL /\ held = {} /\ lifo = TRUE

----------------------------------------------------------------------------
(* my_popen: a full table, a wrong mode and a failing pipe change nothing. *)

PopenForkFails ==
  /\ pc = "call" /\ popen_count < MAX_POPEN /\ opens < MaxOpens
  /\ opens' = opens + 1 /\ fds' = fds \cup Pipe(opens + 1)   \* pfd stays open
  /\ UNCHANGED <<table, kids, pc, on, held, lifo>>

\* Mutant: the caller keeps both ends.
PopenKeepsEnds(mode) ==
  /\ pc = "call" /\ popen_count < MAX_POPEN /\ opens < MaxOpens
  /\ LET k == opens + 1 IN
       /\ opens' = k /\ held' = held \cup {k}
       /\ kids' = [kids EXCEPT ![k] =
            [pc |-> "forked", mode |-> mode, ends |-> fds \cup Pipe(k),
             seen |-> SubSeq(popen_streams, 1, popen_count)]]
       /\ fds' = fds \cup Pipe(k)
       /\ popen_streams' = [popen_streams EXCEPT ![popen_count + 1] = k]
       /\ popen_count' = popen_count + 1
  /\ UNCHANGED <<pc, on, lifo>>

\* The fork: the process gets every descriptor and the table as they are.
my_popen(mode) ==
  /\ pc = "call" /\ popen_count < MAX_POPEN /\ opens < MaxOpens
  /\ LET k == opens + 1 IN
       /\ opens' = k /\ held' = held \cup {k}
       /\ kids' = [kids EXCEPT ![k] =
            [pc |-> "forked", mode |-> mode, ends |-> fds \cup Pipe(k),
             seen |-> SubSeq(popen_streams, 1, popen_count)]]
       /\ fds' = fds \cup {<<mode, k>>}
       /\ popen_streams' = [popen_streams EXCEPT ![popen_count + 1] = k]
       /\ popen_count' = popen_count + 1
  /\ UNCHANGED <<pc, on, lifo>>

\* Mutant: the streams opened before stay open in the process.
ChildKeepsStreams(k) ==
  /\ kids[k].pc = "forked"
  /\ kids' = [kids EXCEPT ![k].pc = "run", ![k].ends = @ \ {Own(k)}]
  /\ UNCHANGED <<table, opens, fds, pc, on, held, lifo>>

\* The child redirects, closes the streams the table names and execs; fileno
\* of a NULL entry kills it.
Child(k) ==
  /\ kids[k].pc = "forked"
  /\ LET seen == {kids[k].seen[i] : i \in DOMAIN kids[k].seen} IN
     kids' = [kids EXCEPT
       ![k].pc   = IF NULL \in seen THEN "dead" ELSE "run",
       ![k].ends = IF NULL \in seen THEN {} ELSE @ \ ({Own(k)} \cup {Own(j) : j \in seen})]
  /\ UNCHANGED <<table, opens, fds, pc, on, held, lifo>>

\* The command ends, or /bin/sh cannot be started.
KidEnds(k) ==
  /\ kids[k].pc = "run"
  /\ kids' = [kids EXCEPT ![k].pc = "dead", ![k].ends = {}]
  /\ UNCHANGED <<table, opens, fds, pc, on, held, lifo>>

----------------------------------------------------------------------------
(* The caller uses a stream as main does.                                  *)

\* fgets until the end of the file.
Read(k) ==
  /\ pc = "call" /\ k \in held /\ kids[k].mode = "r"
  /\ pc' = "read" /\ on' = k /\ UNCHANGED <<table, opens, fds, kids, held, lifo>>

ReadDone ==
  /\ pc = "read" /\ Holders(<<"w", on>>) = {} /\ <<"w", on>> \notin fds
  /\ pc' = "call" /\ on' = NULL /\ UNCHANGED <<table, opens, fds, kids, held, lifo>>

\* The caller ends: its standard output fails, or its standard input.
CallerExits ==
  /\ pc' = "gone" /\ fds' = {} /\ UNCHANGED <<table, opens, kids, on, held, lifo>>

ReadFails == pc = "read" /\ CallerExits

\* One line is written; with nobody to read it SIGPIPE ends the caller.
Write(k) ==
  /\ pc = "call" /\ k \in held /\ kids[k].mode = "w"
  /\ CallerExits \/ (Holders(<<"r", k>>) # {} /\ UNCHANGED vars)

----------------------------------------------------------------------------
(* my_pclose.                                                              *)

Entries(k) == {i \in 1..popen_count : i \in Slots /\ popen_streams[i] = k}

\* The stream is not among the first popen_count entries: -1.
PcloseNotFound(k) ==
  /\ pc = "call" /\ k \in held /\ Entries(k) = {}
  /\ held' = held \ {k} /\ UNCHANGED <<table, opens, fds, kids, pc, on, lifo>>

\* Close the pipe end and clear the first matching entry, then wait.
my_pclose(k) ==
  /\ pc = "call" /\ k \in held /\ Entries(k) # {}
  /\ LET i == CHOOSE i \in Entries(k) : \A j \in Entries(k) : i <= j IN
       popen_streams' = [popen_streams EXCEPT ![i] = NULL]
  /\ fds' = fds \ {Own(k)} /\ pc' = "wait" /\ on' = k
  /\ UNCHANGED <<popen_count, opens, kids, held, lifo>>

\* Mutant: the count is forgotten.
WaitKeepsCount ==
  /\ pc = "wait" /\ kids[on].pc = "dead"
  /\ kids' = [kids EXCEPT ![on].pc = "reaped"] /\ pc' = "call" /\ on' = NULL
  /\ held' = held \ {on} /\ lifo' = (lifo /\ \A k \in held : k <= on)
  /\ UNCHANGED <<table, opens, fds>>

\* waitpid returns, and only now the count goes down.  It cannot fail: the
\* process is the caller's own and is waited for once.
WaitDone ==
  /\ pc = "wait" /\ kids[on].pc = "dead"
  /\ kids' = [kids EXCEPT ![on].pc = "reaped"]
  /\ popen_count' = popen_count - 1 /\ pc' = "call" /\ on' = NULL
  /\ held' = held \ {on} /\ lifo' = (lifo /\ \A k \in held : k <= on)
  /\ UNCHANGED <<popen_streams, opens, fds>>

----------------------------------------------------------------------------
Caller == ReadDone \/ WaitDone
Next ==
  \/ PopenForkFails \/ ReadFails \/ Caller \/ \E mode \in {"r", "w"} : my_popen(mode)
  \/ \E k \in Streams : \/ Child(k) \/ KidEnds(k) \/ Read(k) \/ Write(k)
                        \/ PcloseNotFound(k) \/ my_pclose(k)
Spec == Init /\ [][Next]_vars

\* A command must end once the caller has closed its side: a reader sees the
\* end of its input, a writer gets SIGPIPE.
OtherSideClosed(k) == Own(k) \notin fds /\ Holders(Own(k)) = {}

\* The caller reads to the end only a command that ends by itself.
FairSpec ==
  /\ Spec /\ WF_vars(Caller)
  /\ \A k \in Streams :
       /\ WF_vars(Child(k))
       /\ WF_vars(KidEnds(k) /\ (OtherSideClosed(k) \/ (pc = "read" /\ on = k)))

----------------------------------------------------------------------------
(* Properties.                                                             *)

\* Every variable has its type; the count stays within the table.
TypeOK ==
  /\ popen_streams \in [Slots -> Streams \cup {NULL}] /\ popen_count \in 0..MAX_POPEN
  /\ opens \in 0..MaxOpens /\ fds \subseteq UNION {Pipe(k) : k \in Streams}
  /\ pc \in {"call", "read", "wait", "gone"} /\ on \in Streams \cup {NULL}
  /\ held \subseteq Streams /\ lifo \in BOOLEAN
  /\ \A k \in Streams : kids[k].pc \in {"none", "forked", "run", "dead", "reaped"}

\* While streams are closed last one first, the first popen_count entries are
\* exactly the open streams, so my_pclose finds each of them.
TableExact ==
  TypeOK /\ (lifo /\ pc # "wait" =>
    /\ held = {popen_streams[i] : i \in 1..popen_count}
    /\ Cardinality(held) = popen_count)

\* As long as that is so, a command holds no end of an open stream except its
\* own: the close loop before the exec.
OnlyOwnEnd ==
  \A k \in Streams : lifo /\ kids[k].pc = "run" =>
    \A j \in held : kids[k].ends \cap Pipe(j) = IF j = k THEN {Kid(k)} ELSE {}

\* my_pclose returns, also for the first stream closed out of order: nobody
\* else keeps the pipe of the command it waits for open.
PcloseReturns == pc = "wait" /\ lifo ~> pc = "call"

\* Reading a stream to its end comes to an end: the write end is open nowhere
\* but in the command.
ReadEnds == pc = "read" ~> pc # "read"

\* Whatever the caller waits for comes.
CallsReturn == PcloseReturns /\ ReadEnds
=============================================================================
