------------------------------ MODULE ShmXfer ------------------------------
(***************************************************************************)
(* The transfer of SP_HW9/54_1: writer copies its standard input through   *)
(* one shared buffer to reader's standard output.  Two POSIX named         *)
(* semaphores hand the buffer over: write_sem starts at 1, read_sem at 0.  *)
(* The segment and the semaphores live in /dev/shm until `make` removes    *)
(* them; neither program unlinks anything.                                 *)
(*                                                                         *)
(* One action is one system call with the plain code around it.            *)
(***************************************************************************)
EXTENDS Integers, Sequences

CONSTANTS
  Byte,     \* the values of a byte
  Input,    \* bytes on the standard input of each run of the writer
  BufSize,  \* BUF_SIZE
  IntMax,   \* INT_MAX of the reader's counters
  MaxRuns,  \* bound: how often each program is started
  Faulty,   \* read and write may fail
  Mortal    \* both programs may be killed

ASSUME XferAssumption ==
  /\ Input \in Seq(Byte)
  /\ BufSize \in Nat \ {0} /\ IntMax \in Nat /\ BufSize <= IntMax
  /\ MaxRuns \in Nat
  /\ Faulty \in BOOLEAN /\ Mortal \in BOOLEAN

VARIABLES
  shm,        \* "none", "empty" (created, size 0) or "sized"
  write_sem,  \* value of the semaphore, or NoSem
  read_sem,
  cnt, buf,   \* the shared segment
  wpc, pos, wruns,             \* writer: place, input consumed, starts
  rpc, bytes, xfrs, out, rruns \* reader: place, totals, output, starts

NoSem == -1

segment == <<cnt, buf>>
objects == <<shm, write_sem, read_sem>>
wvars   == <<wpc, pos, wruns>>
rvars   == <<rpc, bytes, xfrs, out, rruns>>
vars    == <<objects, segment, wvars, rvars>>

Off  == {"off", "done", "failed"}
WPcs == Off \cup {"shm_open", "ftruncate", "open_write", "open_read",
                  "wait", "read", "post", "test"}
RPcs == Off \cup {"shm_open", "open_write", "open_read",
                  "wait", "test", "write", "post"}

\* int addition as the build does it: past IntMax it wraps around.
AddInt(a, b) == IF a + b > IntMax THEN a + b - 2 * (IntMax + 1) ELSE a + b

Init ==
  /\ shm = "none" /\ write_sem = NoSem /\ read_sem = NoSem
  /\ cnt = 0 /\ buf = <<>>
  /\ wpc = "off" /\ pos = 0 /\ wruns = 0
  /\ rpc = "off" /\ bytes = 0 /\ xfrs = 0 /\ out = <<>> /\ rruns = 0

----------------------------------------------------------------------------
(* The writer.                                                             *)

StartWriter ==
  /\ wpc \in Off /\ wruns < MaxRuns
  /\ wpc' = "shm_open" /\ pos' = 0 /\ wruns' = wruns + 1
  /\ UNCHANGED <<objects, segment, rvars>>

\* shm_open with O_CREAT: an existing segment is kept as it is.
WShmOpen ==
  /\ wpc = "shm_open"
  /\ wpc' = "ftruncate"
  /\ shm' = IF shm = "none" THEN "empty" ELSE shm
  /\ UNCHANGED <<write_sem, read_sem, segment, pos, wruns, rvars>>

\* Mutant: the segment is never given its size.
WTruncateSkipped ==
  /\ wpc = "ftruncate"
  /\ wpc' = "open_write"
  /\ UNCHANGED <<objects, segment, pos, wruns, rvars>>

WTruncate ==
  /\ wpc = "ftruncate"
  /\ wpc' = "open_write"
  /\ shm' = "sized"
  /\ UNCHANGED <<write_sem, read_sem, segment, pos, wruns, rvars>>

\* sem_open with O_CREAT: the initial value counts only for a new semaphore.
WOpenWriteSem ==
  /\ wpc = "open_write"
  /\ wpc' = "open_read"
  /\ write_sem' = IF write_sem = NoSem THEN 1 ELSE write_sem
  /\ UNCHANGED <<shm, read_sem, segment, pos, wruns, rvars>>

\* Mutant: read_sem is created with the value 1.
WOpenReadSemAtOne ==
  /\ wpc = "open_read"
  /\ wpc' = "wait"
  /\ read_sem' = IF read_sem = NoSem THEN 1 ELSE read_sem
  /\ UNCHANGED <<shm, write_sem, segment, pos, wruns, rvars>>

WOpenReadSem ==
  /\ wpc = "open_read"
  /\ wpc' = "wait"
  /\ read_sem' = IF read_sem = NoSem THEN 0 ELSE read_sem
  /\ UNCHANGED <<shm, write_sem, segment, pos, wruns, rvars>>

\* Mutant: the writer does not wait for the buffer.
WWaitNot ==
  /\ wpc = "wait"
  /\ wpc' = "read"
  /\ UNCHANGED <<objects, segment, pos, wruns, rvars>>

WWait ==
  /\ wpc = "wait" /\ write_sem > 0
  /\ wpc' = "read" /\ write_sem' = write_sem - 1
  /\ UNCHANGED <<shm, read_sem, segment, pos, wruns, rvars>>

\* read returns any number of the bytes left up to BUF_SIZE, 0 at the end.
WRead ==
  /\ wpc = "read"
  /\ \E n \in 0..BufSize :
       /\ pos + n <= Len(Input) /\ (n = 0 <=> pos = Len(Input))
       /\ cnt' = n /\ buf' = SubSeq(Input, pos + 1, pos + n)
       /\ pos' = pos + n
  /\ wpc' = "post"
  /\ UNCHANGED <<objects, wruns, rvars>>

\* The writer exits without posting read_sem.
WReadFails ==
  /\ Faulty /\ wpc = "read"
  /\ wpc' = "failed" /\ cnt' = -1
  /\ UNCHANGED <<objects, buf, pos, wruns, rvars>>

\* Mutant: the end is not announced to the reader.
WPostNotAtEnd ==
  /\ wpc = "post"
  /\ wpc' = "test"
  /\ read_sem' = IF cnt = 0 THEN read_sem ELSE read_sem + 1
  /\ UNCHANGED <<shm, write_sem, segment, pos, wruns, rvars>>

WPost ==
  /\ wpc = "post"
  /\ wpc' = "test" /\ read_sem' = read_sem + 1
  /\ UNCHANGED <<shm, write_sem, segment, pos, wruns, rvars>>

\* cnt is read again from the segment after it was handed over.
WTest ==
  /\ wpc = "test"
  /\ wpc' = IF cnt = 0 THEN "done" ELSE "wait"
  /\ UNCHANGED <<objects, segment, pos, wruns, rvars>>

KillWriter ==
  /\ Mortal /\ wpc \notin Off
  /\ wpc' = "failed"
  /\ UNCHANGED <<objects, segment, pos, wruns, rvars>>

WriterStep ==
  \/ WShmOpen \/ WTruncate \/ WOpenWriteSem \/ WOpenReadSem
  \/ WWait \/ WRead \/ WPost \/ WTest

----------------------------------------------------------------------------
(* The reader.                                                             *)

StartReader ==
  /\ rpc \in Off /\ rruns < MaxRuns
  /\ rpc' = "shm_open" /\ rruns' = rruns + 1
  /\ bytes' = 0 /\ xfrs' = 0 /\ out' = <<>>
  /\ UNCHANGED <<objects, segment, wvars>>

\* One of the reader's three opens, all without O_CREAT.
ROpen(here, next, there) ==
  /\ rpc = here
  /\ rpc' = IF there THEN next ELSE "failed"
  /\ UNCHANGED <<objects, segment, wvars, bytes, xfrs, out, rruns>>

RShmOpen      == ROpen("shm_open", "open_write", shm # "none")
ROpenWriteSem == ROpen("open_write", "open_read", write_sem # NoSem)
ROpenReadSem  == ROpen("open_read", "wait", read_sem # NoSem)

RWait ==
  /\ rpc = "wait" /\ read_sem > 0
  /\ rpc' = "test" /\ read_sem' = read_sem - 1
  /\ UNCHANGED <<shm, write_sem, segment, wvars, bytes, xfrs, out, rruns>>

\* Mutant: every transfer is counted as a full buffer.
RTestFullBuffer ==
  /\ rpc = "test"
  /\ IF cnt = 0
     THEN rpc' = "done" /\ UNCHANGED bytes
     ELSE rpc' = "write" /\ bytes' = AddInt(bytes, BufSize)
  /\ UNCHANGED <<objects, segment, wvars, xfrs, out, rruns>>

\* At the end of the stream the reader leaves without posting write_sem.
RTest ==
  /\ rpc = "test"
  /\ IF cnt = 0
     THEN rpc' = "done" /\ UNCHANGED bytes
     ELSE rpc' = "write" /\ bytes' = AddInt(bytes, cnt)
  /\ UNCHANGED <<objects, segment, wvars, xfrs, out, rruns>>

RWrite ==
  /\ rpc = "write"
  /\ rpc' = "post" /\ out' = out \o SubSeq(buf, 1, cnt)
  /\ UNCHANGED <<objects, segment, wvars, bytes, xfrs, rruns>>

\* A short or failed write ends the reader, again without a post.
RWriteFails ==
  /\ Faulty /\ rpc = "write"
  /\ \E n \in 0..BufSize : n < cnt /\ out' = out \o SubSeq(buf, 1, n)
  /\ rpc' = "failed"
  /\ UNCHANGED <<objects, segment, wvars, bytes, xfrs, rruns>>

RPost ==
  /\ rpc = "post"
  /\ rpc' = "wait" /\ write_sem' = write_sem + 1 /\ xfrs' = AddInt(xfrs, 1)
  /\ UNCHANGED <<shm, read_sem, segment, wvars, bytes, out, rruns>>

KillReader ==
  /\ Mortal /\ rpc \notin Off
  /\ rpc' = "failed"
  /\ UNCHANGED <<objects, segment, wvars, bytes, xfrs, out, rruns>>

ReaderStep ==
  \/ RShmOpen \/ ROpenWriteSem \/ ROpenReadSem
  \/ RWait \/ RTest \/ RWrite \/ RPost

\* `make` removes the files in /dev/shm; run while neither program runs.
Make ==
  /\ wpc \in Off /\ rpc \in Off /\ shm # "none"
  /\ shm' = "none" /\ write_sem' = NoSem /\ read_sem' = NoSem
  /\ cnt' = 0 /\ buf' = <<>>
  /\ UNCHANGED <<wvars, rvars>>

Next ==
  \/ StartWriter \/ WriterStep \/ WReadFails \/ KillWriter
  \/ StartReader \/ ReaderStep \/ RWriteFails \/ KillReader
  \/ Make

Spec == Init /\ [][Next]_vars

\* Both programs keep running; nobody has to start them.
FairSpec == Spec /\ WF_vars(WriterStep) /\ WF_vars(ReaderStep)

----------------------------------------------------------------------------
(* Properties.                                                             *)

\* Every variable keeps its type; the semaphores stay binary though nothing
\* in sem_post bounds them.
TypeOK ==
  /\ shm \in {"none", "empty", "sized"}
  /\ write_sem \in {NoSem, 0, 1} /\ read_sem \in {NoSem, 0, 1}
  /\ cnt \in -1..BufSize /\ buf \in Seq(Byte) /\ Len(buf) <= BufSize
  /\ wpc \in WPcs /\ pos \in 0..Len(Input) /\ wruns \in 0..MaxRuns
  /\ rpc \in RPcs /\ out \in Seq(Byte) /\ rruns \in 0..MaxRuns
  /\ bytes \in -IntMax - 1 .. IntMax /\ xfrs \in -IntMax - 1 .. IntMax

\* The writer fills the buffer only when the reader is not using it, also
\* over runs in which either of them was killed while it owned the buffer.
ExclusiveBuffer ==
  ~(wpc \in {"read", "post"} /\ rpc \in {"test", "write", "post"})

\* The reader may map the segment before ftruncate has run, but it never
\* touches the mapping before that (a read past the end is a SIGBUS).
SizedBeforeUse ==
  rpc \in {"test", "write", "post"} => shm = "sized"

\* "Received %d bytes (%d xfrs)": the totals describe what was written out,
\* as far as ints can: they are right modulo their range.
ReportedTotals ==
  LET range == 2 * (IntMax + 1)
  IN  rpc = "done" =>
        /\ (bytes - Len(out)) % range = 0
        /\ Len(out) < range => /\ xfrs % range <= Len(out)
                               /\ Len(out) <= (xfrs % range) * BufSize

\* The transfer implements the abstract copy: nothing is lost, repeated or
\* reordered, and success is reported only for a complete copy.
Copy == INSTANCE StreamCopy WITH finished <- (rpc = "done")
CopySpec == Copy!Spec

\* A writer that has finished its set-up and a reader that has opened
\* everything complete the transfer together, unless one of them fails.
SessionFinishes ==
  (wpc = "wait" /\ rpc = "wait") ~> (rpc = "done" \/ "failed" \in {wpc, rpc})
=============================================================================
