---------------------------- MODULE MqFileState ----------------------------
(* The state of the file service over POSIX message queues, its            *)
(* parameters, and what must hold of it; the steps are in MqFile.          *)
EXTENDS Integers, Sequences, FiniteSets, Processes

CONSTANTS
  Pid,            \* the pids of clients, which run once each
  Nobody,
  Files, Content, \* Content[f]: the chunks the server reads; none if missing
  Missing,        \* a file that cannot be opened
  Residues,       \* how many bytes of a buffer never cleared show behind a chunk
  MqMax           \* attr.mq_maxmsg of both kinds of queue

\* A chunk has text bytes before its first NUL, or its end if it has none.
Chunks == {d \in [text : Nat, nul : BOOLEAN] : d.text = 0 => d.nul}

ASSUME MqAssumption ==
  /\ MqMax \in Nat \ {0} /\ Nobody \notin Clients /\ Missing \in Files
  /\ Residues \subseteq Nat /\ \A f \in Files : Content[f] \in Seq(Chunks)

VARIABLES
  created,           \* whether the server's queue exists
  requests,          \* what is in it
  splace, req, dst,  \* the server: where it is, server_req, mq_client
  rest,              \* chunks of the file still to be read
  dirty,             \* server_res has never been cleared
  name,              \* whose queue has the name of a pid
  inbox,             \* the queue a client created: strlen of each message
  cplace, mine,      \* where a client is; whose queue it has opened
  file, counted,     \* the file it asks for; receive_msg_num
  bytes,             \* receive_byte_num
  clean              \* history: no queue and no request of its pid was around

Running(c) == cplace[c] \notin {"off", "done", "dead"}

----------------------------------------------------------------------------
\* Every variable has its type, and no queue holds more than its maximum.
MqTypeOK ==
  /\ splace \in {"start", "receive", "client", "file", "send"} /\ created \in BOOLEAN
  /\ dst \in Clients \cup {Nobody} /\ (splace = "send" => dst # Nobody)
  /\ Len(requests) <= MqMax /\ \A c \in Clients : Len(inbox[c]) <= MqMax
  /\ cplace \in [Clients -> {"off", "server", "send", "recv", "close", "done", "dead"}]
  /\ mine \in [Clients -> Clients \cup {Nobody}]
  /\ \A p \in DOMAIN name : name[p] \in Clients \cup {Nobody}

Plain(f) == \A k \in 1..Len(Content[f]) : Content[f][k].text # 0

\* A client whose pid left nothing behind reports as many messages as the file
\* has chunks, if no chunk begins with NUL, whatever happens to other clients
\* and however often either side waits for the other.
CountsFile ==
  /\ MqTypeOK
  /\ \A c \in Clients : cplace[c] = "done" /\ clean[c] /\ file[c] # Missing /\ Plain(file[c]) =>
       counted[c] = Len(Content[file[c]])

\* The server waits for room in a queue that nobody empties only while it
\* sends a file with a chunk that the client took for the end, or after the
\* death of a client of the same pid.  The dead one need not have used this
\* queue: a request it caused to be answered late ends the count of the next.
Readers(q) == {c \in Clients : Running(c) /\ mine[c] = q}
Stuck == splace = "send" /\ Len(inbox[dst]) = MqMax /\ Readers(dst) = {}
StuckCause ==
  Stuck => ~Plain(req.file) \/ \E c \in Clients : Pid[c] = Pid[dst] /\ cplace[c] = "dead"
=============================================================================
