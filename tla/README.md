# Models of the Linux network and system programming exercises

The repository is a collection of small C programs (`SP_HW1` ... `SP_HW12`), most
of them a server with clients or a pair of cooperating processes on one Linux
mechanism: System V and POSIX semaphores and shared memory, FIFOs, message
queues, signals, sockets. There is no test suite, and what can go wrong is a
matter of interleavings, exits and kernel limits. This directory holds TLA+
models of these programs, TLC configurations, and proofs checked by TLAPS.

## Inventory

| part | state | operations | interaction | hard behaviour |
|---|---|---|---|---|
| `SP_HW12` shared-memory dictionary | one shared record, two System V semaphores, a `semadj` per process | server: wait, look up, notify; client: grab, copy word, alert, await, release, read text | shared memory, semaphores | reading after release, `SEM_UNDO` at every exit, restarted server, `ERANGE` |
| `SP_HW9/54_1` transfer | segment with `cnt` and `buf`, two named semaphores, output and totals | writer: create, wait, read, post; reader: open, wait, write, post; `make` removes the objects | shared memory, POSIX semaphores | start-up order, short reads, dead partner, objects left from an earlier run |
| `SP_HW8/44_6` FIFO sequence numbers | server FIFO, a FIFO per client, `seqNum` | server: read request, open client FIFO, respond, advance; client: make FIFO, send, open, read | FIFOs with blocking and `O_NONBLOCK` opens | the server's open racing the client's, clients that vanish, `int` overflow |
| `SP_HW8/46_2` queue sequence numbers | one System V queue, `seqNum` | receive by type, send | bounded queue shared by requests and responses | everybody blocked on a full queue, dead clients' messages, server restart |
| `SP_HW10` signal ring | ring of slots, two shared counters, a pending signal per consumer | producer: write slot, `sigqueue` to all, report, kill; consumer: handler | shared memory, signals | signals that do not queue, unlocked counters, report before the handlers finish |
| `SP_HW11` parts 1, 2 stream dictionary | listening socket, a connection and a forked child per client | accept, fork, receive, look up, send | Unix and TCP stream sockets | `recv` returning 0 or part of a record, children never reaped, backlog |
| `SP_HW11` part 3 UDP dictionary | one datagram socket per process | receive, look up, send back; send, receive without a timeout | datagrams | lost queries, late answers to a reused port, several servers on the port |
| `SP_HW6/44_2` popen/pclose | table of streams and pids with a count | open, close, read to the end, write | pipes, fork, wait | order of closes, inherited pipe ends |
| `SP_HW3`, `SP_HW5/Part2` shells | line, argument vector, descriptors of the children | read line, builtin, run, wait, redirect, pipe | fork, exec, pipes | background jobs ending meanwhile, pipe ends left open, vectors without a terminator |
| `SP_HW9/52_3` file service | a queue of the server, a queue per client named by pid | server: receive, open queue and file, send chunks; client: ask, count, unlink | POSIX message queues | full queue of a dead client, NUL as end mark, queue left by an earlier pid |
| `SP_HW6/44_1`, `SP_HW7/22_3`, `22_4` | pipes; turn; masks | | pipes, signals | |
| everything else | none or one pass over a file | | | sequential |

What makes each modelled part correct:

* dictionary: one client at a time uses the record; `await` returns only with
  this client's own whole answer; nobody waits for ever.
* transfer: output is the input, in order; success is only reported for a
  complete copy; the buffer has one owner; a session ends.
* sequence numbers: a client gets the number the counter is at, and the counter moves
  by what this client asked for, so that one run of the server gives no number out
  twice; no client stops the server; a client that has asked is answered.
* ring: a message counts as lost only when it was overwritten; the counters never
  invent a message.
* socket dictionary: query and answer stay in step; a client never waits for a
  server that has gone, nor a child for a client.
* UDP dictionary: what is printed is a word with its own text, the word asked for
  unless the port has a past; a query that reached a living server is answered.
* shells: at the prompt the child that the shell itself forked for a foreground command
  is over; programs get their own words; each program of a pipeline holds the ends it
  uses and no other, so that all of them end.
* popen: the table names the open streams; a command holds its own pipe end only.
* file service: the messages and bytes a client reports are the file's; only a killed
  client or a NUL at the start of a chunk can stop the server.

## Modules

| module | models | extends / refines |
|---|---|---|
| `ShmDict`, `MCShmDict`, `ShmDictProofs` | `SP_HW12`: `shm_server.c` with `lookup5.c`, `main.c` with `lookup6.c` | |
| `StreamCopy` | what a transfer promises (abstract) | |
| `ShmXfer`, `MCShmXfer`, `ShmXferProofs` | `SP_HW9/54_1`: `writer.c`, `reader.c`, `makefile` | implements `StreamCopy` |
| `SeqAlloc` | what a sequence-number service promises (abstract) | |
| `FifoSeqnum`, `MCFifoSeqnum`, `FifoSeqnumProofs` | `SP_HW8/44_6` server, good and bad client, `getInt` | implements `SeqAlloc` |
| `Processes` | what both message-queue services share: clients, those that may be killed | |
| `MsgSeqnum`, `MsgSeqnumProofs` | `SP_HW8/46_2` server and client | implements `SeqAlloc` |
| `SigRing`, `SigRingProofs` | `SP_HW10` | |
| `Dictionary` | what both socket dictionaries share: clients, words, dictionary | |
| `DictStream`, `MCDictStream`, `DictStreamProofs` | `SP_HW11` parts 1 and 2: `usock_server.c`, `isock_server.c`, `lookup5.c`, `lookup7.c`, `lookup8.c`, `main.c` | |
| `DictUdpState`, `DictUdp`, `MCDictUdp`, second part of `DictStreamProofs` | `SP_HW11` part 3: `udp_server.c`, `lookup5.c`, `lookup9.c`, `main.c` | |
| `Shell`, `MCShell`, `ShellProofs` | `SP_HW3` and `SP_HW5/Part2` | |
| `Popen`, `PopenProofs` | `SP_HW6/44_2.c` | |
| `MqFileState`, `MqFile`, `MCMqFile`, second part of `MsgSeqnumProofs` | `SP_HW9/52_3`: the HEAD side of `server.c` and `client.c` | |

One action is one system call with the plain code around it, because that is
where processes interleave. Two exceptions go finer, where the code touches
shared memory without owning it: a `strcpy` on the dictionary record is two
steps with the value `Torn` in between, and `cnt++` of the ring is a load and a
store. Names are the source's: `grab`, `alert`, `await`, `wait` are the
`sembuf`s, `seqNum`, `cnt`, `loss_cnt`, `xfrs`, `bytes` the variables; each
program's place is a `pc` (`spc`, `cpc`; `splace`, `cplace` in `DictUdp` and `MqFile`)
named after the call it is about to make.

**ShmDict.** `sem0`/`sem1` are the two semaphores and `adj0`, `adj1`, `sadj` the
kernel's `semadj` values. `Quit`, `KillClient`, a failing `semop` and the end of
the server apply them (`AfterUndo`: added, then clipped to `0..SEMVMX`). `SETALL`
clears all of them. `Attach` fails while the objects do not exist. The
dictionary file is the function `Dict`; a torn key may find anything. The first lookup of
a server opens and maps that file (`LookupOpens`), or ends the server (`LookupDies`):
`stat` has seen that there is a file, an empty one cannot be mapped. `table` is the
program's `table`.

**ShmXfer.** `shm_open` and `sem_open` with `O_CREAT` keep what exists. `read`
returns any number of bytes up to `BUF_SIZE`; a failing `read` or short `write`
ends the program without its `sem_post`, as in the code. `cnt` is read again
by the writer after it was handed over (`WTest`). Totals are `int`s.

**FifoSeqnum.** A blocking open of a FIFO is a call and a return, since the
server's `O_NONBLOCK` open succeeds as soon as the client is inside the call.
A client that dies leaves its FIFO behind, one that exits removes it.
`spent` and `granted` are history variables for `PrintedRangesDisjoint` and
`ServiceInv`: the sum of the lengths cut off, and the range each response stands for.

**SeqAlloc.** A counter of width `int`, and for each client the number it was told and
whether it has printed it. `Issue` tells a number and moves the counter by the
client's length in one step; after a `Stop` the counter starts from 0. Both
services implement it with `next` being their `seqNum` (0 while there is no
server) and `ticket` what is in a response or in the client's hands. History
variables do not enter: a counter that stands still, moves by another length, or is not
what is sent breaks `AllocSpec`. A FIFO server moves the counter one step after it has
written; `Counter` then has the request in hand added.

**MsgSeqnum.** Both structures are eight bytes without their `mtype` (the
response has padding), so the queue holds `QMax` messages of either kind;
`msgsnd` blocks while it is full. The queue outlives the server; a restarted
server takes it over and starts at 0. `run` is a history variable: which run of the
server a printed range came from.

**SigRing.** `pending` holds at most one value per consumer; `Signal` on an
occupied one discards the signal with its value. `SIGUSR1` is blocked while its handler
runs. The pause of R milliseconds is not modelled: every order of steps is
possible whatever the interval.

**DictStream.** One module for both servers: they differ in how they make an
address. A connection is named by its client. `conn` is what the client sees: `open`
while any process of the server has the descriptor, then `closed`, or `reset` when
queries were left unread (`Hangup`); this is where the parent's `close(cd)` counts.
After that `recv` returns 0 or -1; `lookup7` and `lookup8` take 0 for a reply and
return the record as it was, so `AnswerWhileConnected` speaks of open connections
only. Children that have ended stay zombies; `fork` may fail. A record travels
whole.

**DictUdp.** State, types and safety properties are in `DictUdpState`, the steps in
`DictUdp`. `sq` and `cq` are the receive buffers of the sockets. Everything is on
127.0.0.1, so a datagram is lost exactly when nobody is bound to its port or the
buffer is full. `SO_REUSEADDR | SO_REUSEPORT` is the number of `SO_REUSEPORT`: several
servers may be bound and the kernel picks one per datagram. The first `sendto` takes
any free port, also one whose last owner still has a query under way; `clean`
remembers whether that was so. `Recv` overwrites the whole record, as `recvfrom` does.

**Shell.** A line is a sequence of tokens, the blank and the newline among them;
`fgets` takes up to a newline or a bufferful, so that an over-long line becomes two.
Each builtin gives the set of its results (go on, exit, crash on a `NULL`); what it
prints is left out. `SP_HW3` copies the first word of a line without room for its NUL
(`parse.c`, line 41): with a word that fills its block of the heap (`Tight`) the shell
may crash while it parses or frees the line (`Spoilt`). `procs`
holds every process below the shell with its words, its standard input and output
and the pipe ends it has open. A process forked by the shell redirects and becomes
the left side of a pipe; it forks the right side, which tries to run all that is left
of the line and splits it again only if that fails. The copies of the argument vectors
have no terminator of their own; `Vector` gives what `execvp` may find there: nothing,
a stray word, or no address. `line` is history: the words of the line a process was
forked for. Both shells are one module, chosen by `edition`.

**Popen.** The n-th pipe is stream n and process n. A child inherits all of `fds` and
the table as it was at the fork (`seen`), then closes what the table names, or dies of
`fileno(NULL)`. `my_pclose` clears an entry before the wait and lowers the count after
it. The caller does what `main` does, with several streams at a time.

**MqFile.** State, types and safety properties are in `MqFileState`, the steps in
`MqFile`. A queue (`inbox`) lives until it is unlinked and everybody has closed it; it is known
by the client that created it, and `name` leads from a pid to it. Two clients with one
pid do not run at the same time, and the second finds what a killed first one left.
A message is the number that `strlen` finds: 0 marks the end, the others are added up in
`bytes`. A chunk is the length of its text and whether a NUL follows it. `server_res` is
cleared after each chunk sent, but not before the first one of all (`dirty`): if that
chunk has no NUL, `strlen` counts what the buffer happens to hold behind it (`Residues`).
The overflow of the two counts (files of 2 GB) is left out.

## Runs

Twelve runs; `LookupEnds`, `SessionFinishes`, `ServiceGoesOn`, `ReplyUnlessStuck`,
`EveryoneNotices`, `Drains`, `QueryAnswered`, `CallsReturn` and `ServedUnlessStuck`
are liveness properties, `CopySpec` and `AllocSpec` refinements.

| run | question | result |
|---|---|---|
| `dict_handshake` | does the two-semaphore handshake deliver each client its own answer, and does everybody get on? | `TypeOK`, `ServerWorksForAwaiter`, `AwaitedAnswer`, `ServerLifetime`, `LookupEnds` hold |
| `dict_kill` | does `SEM_UNDO` keep the mutex right when any process dies anywhere? | `MutualExclusion` holds |
| `dict_race` | is what `lookup` returns the answer to the word? | no: the text is read after the release |
| `xfer_copy` | is a first session an exact copy, under short reads, failures and kills? | `TypeOK`, `ReportedTotals`, `ExclusiveBuffer`, `SizedBeforeUse`, `CopySpec`, `SessionFinishes` hold |
| `fifo_service` | does the service allocate disjoint ranges, and can a client stop it? | `ServiceInv`, `PrintedRangesDisjoint`, `AllocSpec`, `ServiceGoesOn` hold |
| `msg_queue` | same questions for the queue, with restarts and dead clients | `QueueInv`, `PrintedRangesDisjoint`, `AllocSpec`, `ReplyUnlessStuck` hold |
| `ring_counts` | what do the two counters mean? | `TypeOK`, `CountsBounded`, `LostWasOverwritten` hold |
| `stream_serve` | do query and answer stay in step on a connection, and does everybody notice when the other side has gone? | `TypeOK`, `AnswerWhileConnected`, `OpenIsServed`, `EveryoneNotices` hold |
| `udp_serve` | whose answer does a client print, with several servers, deaths and reused ports? | `AnswersRight`, `QueryAnswered` hold |
| `shell_jobs` | is the shell's own foreground child over at the prompt, do programs get their words, is a pipeline wired, does it drain? | `ProgramWords`, `OwnChildReaped`, `Wired`, `Drains` hold |
| `popen_table` | does the table name the open streams, and does every wait come back? | `TableExact`, `OnlyOwnEnd`, `CallsReturn` hold |
| `mq_file` | are the reported messages and bytes right, and what can stop the server? | `CountsFile`, `BytesFile`, `StuckCause`, `ServedUnlessStuck` hold |

The run that fails states what a comment of the code says; `findings` in
`PROJECT.json` quotes it.

Several properties that hold are worded around a weakness of the code, which a
reader should know:

* `AwaitedAnswer` holds while exits fall outside other clients' lookups
  (`QuietExit = TRUE`). A client with past lookups that exits while another one waits
  undoes its alerts, which lowers semaphore 1 and lets `await` through too early.
* `ServerLifetime` promises its SEMVMX/2 lookups to a server that could map its
  dictionary. One that could not ends in its first lookup, and its undo takes
  semaphore 1 back under the client that waits.
* `SessionFinishes` is about fresh objects. The reader leaves `write_sem` at 0, so a
  second session on the same ones blocks until `make` has removed them.
* `ServiceGoesOn` answers a client that is inside its `open` when its turn comes. One
  that has only written its request is given up with `ENXIO` and then blocks for ever.
* `AllocSpec` and `PrintedRangesDisjoint` promise nothing across runs of a server: the
  counter starts again from 0 and numbers repeat.
* `ReplyUnlessStuck`: when more clients wait than messages fit into the queue (2048
  with the usual `msg_qbytes` of 16384), requests fill it, the server sleeps in
  `msgsnd` and nobody can receive.
* The two counts that the ring reports do not add up to the messages: discarded
  signals are in neither, and handlers may still run. No property accounts for them.
* `TableExact` and `OnlyOwnEnd` hold while the stream opened last is closed first;
  another order leaves a hole in the table, loses streams and crashes later children.
* `AnswersRight`: on a port whose last owner left a query under way, a client may
  print that one's word and text. `QueryAnswered` excludes lost queries: `lookup9` has
  no timeout.
* `ServedUnlessStuck` excludes files that cannot be opened: their client gets no
  message at all. `Stuck` is the server waiting for room in a queue nobody reads.
* `StuckCause` blames any dead client of the pid (killed, or gone without a server), not only one that had the queue in
  question open, because the damage travels: d is killed; e, of the same pid, takes over
  d's queue and ends its count on the end of d's answer; e's own answer then comes into
  the new queue of c, the next client of that pid, which takes its end for its own
  and leaves, and the server fills c's queue behind it. `clean` is false for c: e's request
  was still around when it started.
* `BytesFile`: one client in the life of a server, the one that gets the first chunk of
  all, may report bytes that are not in its file (`server_res` is not initialised).
* `OwnChildReaped` is about the children of the shell. Of a foreground `ls | cat` it waits
  for `ls` only (`run_command.c`, line 35); `cat` is a child of `ls`, was not put into
  the background, and may still run when the shell prompts.
* `ProgramWords` promises programs their own words on tidy lines only (`Tidy`). In
  `a | b | c` the program `b` gets `|` and `c` as arguments, and `SP_HW5` passes `&`
  on; comments in `pipe_command.c` (line 111) and `run_command.c` (line 20) say otherwise.
  Comments in `redirect_in.c` (line 30) and `redirect_out.c` (line 28) speak of removing
  the operator and the file name; everything behind them is dropped as well. Beside a
  pipe a stray word may follow (`Vector`).
* What `echo` prints is not modelled. With `-n` both editions print the word at a given
  place, or end the shell when there is none; comments (`SP_HW3/builtin.c`, line 22,
  `SP_HW5/Part2/builtin.c`, line 24) say that `-n` leaves the final CR out.

### Bounds

* Three clients in the dictionary and in `msg_queue`: one active, one waiting,
  one that exits or dies. `SEMVMX` is 3 to 7 instead of 32767: it must be odd
  like the real one; with 5 the server's `semadj` runs out in the third lookup,
  so the `ERANGE` exits happen.
* `xfer_copy`: five different bytes through a buffer of two, so that full, short
  and final transfers occur; `IntMax = 4` makes the totals wrap (they are checked modulo their range). The first
  session is the whole story there; that the buffer has one owner over any
  number of sessions is the theorem `Exclusive`.
* `fifo_service`: two good clients and a bad one, command lines below, at and
  above the accepted range, `IntMax = 3`: the counter wraps with two requests.
* `msg_queue`: a queue of two messages for three clients, two starts of the server.
* `ring_counts`: four messages, two slots, two consumers: every slot is
  overwritten once and signals coalesce.
* `stream_serve`: two clients, so that a child serves while the server accepts,
  forks and closes for the other one; a backlog of one (the code's is 10), so that
  `connect` blocks; every process mortal.
* `udp_serve`: two servers, two clients and two ports, three words typed in all, so
  that a port is reused while the old query is under way; buffers of two datagrams;
  one server and one client mortal, so that the other ones' liveness can be asked.
* `dict_handshake`: the dictionary may fail to open or map in the first lookup.
* `shell_jobs`: 19 commands, each after a background job, a background pipeline or an
  empty line, and 15 builtin lines, each before a command; one line longer than the
  buffer. Five processes: two pipelines, or a pipeline of three, fit. One word of the
  script (`nx`) fills its block of the heap.
* `popen_table`: a table of two and four calls, so that it is full, is reused and
  closes happen in every order; `fork` may fail in any of them.
* `mq_file`: queues of two messages (the code's hold four); a file of two chunks, which
  with the end mark is more than a queue holds, one of three with a NUL chunk, one
  missing; four clients, three of them with one pid and one of these mortal, which is
  what the story under `StuckCause` above takes. A chunk has a NUL at its start, behind
  its first byte, or none; one byte shows behind a chunk in the buffer that was never
  cleared (none showing is the case of every later chunk).
* Symmetry is used in `dict_kill` only, where all clients are mortal and the
  property is an invariant.

### Fairness

Every program is assumed to go on running while it is not blocked: weak fairness
of its steps. Steps that need a user (a word, a start) are not fair. Strong
fairness is assumed where processes queue for one resource and the kernel serves
them in order: `Grab` on semaphore 0, `msgsnd` on a full queue, and
`connect` at a full backlog.

Programs started by the shell or by `my_popen` are external. They may end at any time;
they must end only as far as their kind says: a filter when nobody can write to its
input any more, an endless writer when nobody reads its output, a command under
`my_pclose` when the caller's end is closed everywhere. `Drains` and `CallsReturn` thus
depend on who holds which pipe end, not on the programs' good will. A command that
is read to its end is assumed to end by itself.

Deadlock checking is off: all these systems may stop for good when their users
stop, and servers wait without clients. Whether a waiting process is released
is asked by the temporal properties instead.

## Proofs

All theorems hold for every value of the constants, under the `ASSUME`s of the
modules (positive counts, an odd `SEMVMX` of at least 3, an input that is a
sequence of bytes, no program whose name is `&`, marks such as `Nobody` and `Unset` that
are not clients, words, ports or texts). The provers cannot do an induction
over data; where a proof needs one, it takes a least counterexample instead (`WFMin` of
`WellFoundedInduction`, once per module), or the inductive invariant carries the value
that the recursion computes as an existentially bound function.

**ShmDictProofs.** `TypeCorrect` and `Mutex` assume only `OneStart` (the server
is started at most once); clients may exit and every process may be killed at
any step. `MutualExclusion` alone is not inductive: the undo of a client must
be known to be worth exactly its grab. `MutexInv` says so: semaphore 0 is 0 or 1, a
client's `adj0` is 1 exactly while it is between grab and release and 0
otherwise, and the semaphore is 1 exactly when nobody is inside. `AwaitIsReply`,
`ServerInTurn` and `Lifetime` assume `Calm` (one start, nobody killed, exits
outside other clients' lookups; the last is needed, see Runs).
`PhaseInv` ties the value of semaphore 1 to where server and client are: 2 before
the server has seen the request, 1 while it works, 0 afterwards, and who wrote
what into the record. `BudgetInv` is the conservation law
`sadj + sem1 = 2 * asked`, from which the lifetime follows; it also says that a server that
could not map its dictionary is in its first lookup.

**ShmXferProofs.** `TypeCorrect`, `Exclusive` and `Sized` hold for any number of
runs, kills and failures. The strengthening says that at most one of "writer owns
the buffer", "reader owns the buffer", `write_sem = 1`, `read_sem = 1` is the case,
and that semaphores exist only after the segment has its size. `ImplementsCopy`
shows that a first session implements `StreamCopy`: the buffer always holds
the next piece of the input after what is written out, and an end mark is in it
only when nothing is left. `Totals` needs two things the reader's `int`s do not say:
how many complete transfers there have been, and that `xfrs` and `bytes` are congruent to
the true numbers. `TotalsInv` has the first as an existentially bound number; `WrapsAdd`
shows that adding to a wrapped `int` keeps the second.

**SigRingProofs.** `TypeCorrect` needs the loop variables' ranges at each place.
`Overwritten` needs `RingInv`: a message is in its slot until the one `b` later
replaces it, and a signal carries the number of a written message; the
arithmetic (two messages in a slot are at least `b` apart) is `SlotDistance`.
`Bounded` is about a sum over all consumers: `CountInv` binds the function of
its partial sums and splits the total into a share that bounds `cnt` and a share that bounds
`loss_cnt`; a value loaded by a handler and not yet stored is bounded by the same share,
because the handler itself is not finished. That the bound function is `Finished` is
`FinishedSums`.

**FifoSeqnumProofs.** `Answers`, `Disjoint` and `ImplementsAlloc` share one invariant:
a request is in one place (the server's FIFO or `req`) and only while its client has no
range (`RequestInv`); a response is for a client that reads, and starts its range
(`AnswerInv`); `seqNum` is congruent to what has been cut off, except between the write
and `seqNum += seqLen`, when it lags by this request (`CounterInv`); the ranges lie side
by side below `spent` (`RangeInv`). That every `int` that wraps still gives disjoint
numbers is arithmetic on `Congruent`. `ImplementsAlloc` maps the server's counter and the
numbers themselves: that the number in a response and the one in a client's hands
are what the counter was at is carried step by step by the mapping, and
the invariant is needed only for who may have a response and when.

**MsgSeqnumProofs.** `OnePlace`, `Disjoint` and `ImplementsAlloc`, with any number of
restarts. `PlaceInv` puts an exchange in the queue or with the server, never in both.
A restarted server counts from 0 again while old responses are still in the queue, so
`CounterInv` says that there is, for each run, a base (what had been cut off before it)
from which all numbers of that run count. Taking a message of a given type out of the
middle of the queue is `msgrcv`'s "first of this type"; its existence is the least-element
lemma. `ImplementsAlloc` again is about the numbers in the messages, each run from 0. It
needs that a client has at most one response that it may still take.

**PopenProofs.** `TableOfStreams` and `OwnEnd`, for any table size. `TableInv` adds to
`TableExact` what holds inside `my_pclose`, where the entry is cleared and the count is
still old. `OnlyOwnEnd` needs the table each child saw at its fork (`ForkInv`): what was
open then and has not been closed since is in that table, so the loop of the child closes it.

**ShellProofs.** `WordsOfPrograms`, `OwnChild` and `Wiring`, for scripts, programs and
process numbers of any size. `ProcOK` says which standard streams and pipe ends a process
has at each place between fork and exec, `TreeInv` that whoever was forked below
another process is the reader of the pipe that this one writes, `WaitInv` that the
only foreground child of the shell is the one in its `waitpid`. The words need lemmas on
the splitting of vectors (`PosFacts`, `Parts`, `CutAt`, `VectorWords`, `WordsType`), and
`OwnInv`: for each place between fork and exec, which part of the words of its line a
process still has. That no program
is called `&` is needed for `WordsOfPrograms`: `SP_HW3` looks for `&`
from the second word on and would run a program of that name with it.

**DictStreamProofs.** `TypeCorrect`, `Served` and `InStep` hold for any set of clients
and kills at any step. `OpenIsServed` needs `FdInv`: a connection is queued once,
then in `cd`, then with a child, never in two of these places. `AnswerWhileConnected` and the
bound of one record in each direction need `Dialogue`: a query or an answer is in one
place only (in the connection, in the child's record, on its way back), and only
while the client waits for it or has died. The two depend on each other: that a
client whose `recv` returned 0 has nothing under way follows from `FdInv`.

The second part of the module is about `DictUdp`: it extends `DictUdpState` and takes the
steps as `Udp == INSTANCE DictUdp`, so that `Udp!Spec` is about the variables of
`DictUdpState`. These share no name with those of `DictStream`; `Clients`,
`Words` and `Dict` are the same constants for both.
`AnswersUdp` holds for any numbers of servers, clients and ports. `AnswersRight` looks at
printed records only; `UdpInv` follows them back. `PairInv`: whatever is queued for a
server carries a word, whatever is queued for a client a word with its own text, so a
client on a port with a past still prints a true pair. `TurnInv`: on a clean port there is
at most one datagram under way, a query at one server or its answer, about the
word its owner asked for, and none while the owner is not waiting; that needs
`PortInv`, by which two clients never share a port and a port without an owner has an
empty buffer. A second server bound to the port does not change this: the kernel gives a
query to one of them only.

**MsgSeqnumProofs, second part.** `FileCounts` and `FileStuck` are about `MqFile`
(extending `MqFileState`, with `File == INSTANCE MqFile`), for any clients, pids, files and
queue size, and any set of mortal clients. One invariant serves both. `OwnInv`: a pid's name leads to the
queue its running client has open, and a name left over is the work of a dead one.
`CleanInv` speaks of a client that found nothing of its pid when it started: no request of
another client of that pid comes up while it runs (`Alone`), its own request is in one
place (`Order`), and what it has counted, what is in its queue and what the server still has
to send are the chunks of its file, the last message being the only NUL (`Count`). `DeadInv`
says that whoever was not so lucky has a dead client of its pid to blame. `FileStuck`
follows: a stuck server with a plain file and no dead client of that pid has a
clean client in front of it, and `Count` puts that client into its `mq_receive`.

The attempt to prove `StuckCause` is what corrected it. An earlier form blamed
a dead client that had had the very queue open; no strengthening made it inductive, and
TLC found the run told above as soon as three clients shared a pid (`mq_file` had two).

With these, every invariant of every passing run is a theorem, except `BytesFile`, which
sums over a file. Left to TLC besides: everything temporal under fairness (`LookupEnds`, `SessionFinishes`, `ServiceGoesOn`,
`ReplyUnlessStuck`, `EveryoneNotices`, `Drains`, `QueryAnswered`, `CallsReturn`,
`ServedUnlessStuck`), which is out of the prover's reach.

## Not modelled

`PROJECT.json` lists every part with its status. Left out for good: programs that
make one pass over a file or `/proc` and print (`SP_HW1`, `SP_HW2`, `SP_HW4`,
`SP_HW5/Part1`, `SP_HW5/Part3`, `SP_HW9/49_1`), a probe of kernel error codes
(`SP_HW8/44_7`), the message-formatting library (`error_functions.c`), the ping-pong of
`SP_HW7/22_3`, whose two processes alternate strictly, the one-call wrappers of
`SP_HW7/22_4`, and the upper-casing pair of `SP_HW6/44_1`, whose pipe ends follow the
same rules as those of `Popen` and `Shell`. The two programs of `SP_HW9/52_3` contain
unresolved merge-conflict markers and do not compile; `MqFile` is the HEAD side, the
other side is a sequence-number service like `SP_HW8/46_2`. In the modelled parts:
wording of messages, permissions, failures of calls that need a broken kernel,
reuse of pids except in `MqFile`, words longer than their array, a `Dictrec` that
`recv` delivers in parts, the zero and negative lengths that the client of `46_2`
accepts, and restarts of the `MqFile` server.

## Plan

What is left is the restarted server of the dictionary (`SETALL` while clients are in the
middle of a lookup) and of `MqFile`, as fault models of their own: neither program
has code for it, so what should hold after a restart has to be said first.
