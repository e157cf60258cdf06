---------------------------- MODULE PopenProofs ----------------------------
(***************************************************************************)
(* Safety of my_popen and my_pclose, for any size of the table and any     *)
(* number of streams: as long as streams are closed last one first, the    *)
(* table names exactly the open streams and a command holds no end of an   *)
(* open stream but its own.                                                *)
(***************************************************************************)
EXTENDS Popen, SequenceTheorems, FiniteSetTheorems, FunctionTheorems, TLAPS

Ends == UNION {Pipe(k) : k \in Streams}

Kids == [pc : {"none", "forked", "run", "dead", "reaped"}, mode : {"r", "w"},
         ends : SUBSET Ends, seen : Seq(Streams \cup {NULL})]

\* What entry i of the table stands for: my_pclose clears the entry of the
\* stream it waits for before popen_count goes down.
Row(i) == IF pc = "wait" /\ popen_streams[i] = NULL THEN on ELSE popen_streams[i]

BasicType ==
  /\ popen_streams \in [Slots -> Streams \cup {NULL}] /\ popen_count \in 0..MAX_POPEN
  /\ opens \in 0..MaxOpens /\ fds \subseteq Ends /\ kids \in [Streams -> Kids]
  /\ pc \in {"call", "read", "wait", "gone"} /\ on \in Streams \cup {NULL}
  /\ held \subseteq 1..opens /\ lifo \in BOOLEAN
  /\ pc = "wait" => on \in held /\ popen_count > 0

\* Closed last one first, the table lists the open streams in the order of
\* their opening, and has a gap only while my_pclose waits.
TableInv ==
  lifo => /\ \A i, j \in 1..popen_count : i < j => Row(i) < Row(j)
          /\ held = {Row(i) : i \in 1..popen_count}
          /\ pc = "wait" <=> \E i \in 1..popen_count : popen_streams[i] = NULL

\* A pipe that was not made yet is open nowhere.
OpenedOnly ==
  \A j \in Streams : j > opens =>
    /\ fds \cap Pipe(j) = {}
    /\ \A k \in Streams : kids[k].ends \cap Pipe(j) = {}

\* The caller has its own end of an open stream and no other.
FdsInv ==
  pc # "gone" =>
    \A j \in held : ~(pc = "wait" /\ on = j) => fds \cap Pipe(j) = {Own(j)}

\* A process just forked has both ends of its pipe and, of a stream opened
\* before, the caller's end, which its copy of the table names.
ForkInv ==
  \A k \in Streams : lifo /\ kids[k].pc = "forked" =>
    \A j \in held :
      IF j = k THEN kids[k].ends \cap Pipe(j) = Pipe(j)
      ELSE \/ kids[k].ends \cap Pipe(j) = {}
           \/ /\ kids[k].ends \cap Pipe(j) = {Own(j)}
              /\ \E i \in DOMAIN kids[k].seen : kids[k].seen[i] = j

IInv == BasicType /\ TableInv /\ OpenedOnly /\ FdsInv /\ ForkInv /\ OnlyOwnEnd

----------------------------------------------------------------------------

LEMMA PipeFacts ==
  ASSUME NEW j \in Streams
  PROVE  /\ Own(j) \in Pipe(j) /\ Kid(j) \in Pipe(j)
         /\ Pipe(j) \ {Own(j)} = {Kid(j)} /\ Own(j) # Kid(j)
         /\ \A mode \in {"r", "w"} : <<mode, j>> \in Pipe(j)
         /\ \A i \in Streams : i # j => Pipe(i) \cap Pipe(j) = {} /\ Own(i) \notin Pipe(j)
<1>1. <<"r", j>> # <<"w", j>> OBVIOUS
<1>2. \A i \in Streams : i # j =>
        /\ <<"r", i>> \notin Pipe(j) /\ <<"w", i>> \notin Pipe(j)
  BY DEF Pipe
<1>3. QED BY <1>1, <1>2 DEF Pipe, Own, Kid

\* An end stays the caller's or the process's as long as the mode stays.
LEMMA SameEnds ==
  ASSUME NEW j \in Streams, kids'[j].mode = kids[j].mode
  PROVE  Own(j)' = Own(j) /\ Kid(j)' = Kid(j)
BY DEF Own, Kid

LEMMA StreamNumbers == /\ Streams \subseteq Nat /\ NULL \notin Streams /\ MaxOpens \in Nat
                       /\ MAX_POPEN \in Nat /\ \A k \in Streams : k > 0
BY PopenAssumption DEF Streams, NULL

\* The table entries in use are entries of the table.
LEMMA EntryType ==
  ASSUME BasicType, NEW i \in 1..popen_count
  PROVE  i \in Slots /\ popen_streams[i] \in Streams \cup {NULL} /\ i \in Nat
<1>1. i \in Slots /\ i \in Nat BY PopenAssumption DEF BasicType, Slots
<1>2. QED BY <1>1 DEF BasicType

LEMMA Initial == Init => IInv
<1> SUFFICES ASSUME Init PROVE IInv OBVIOUS
<1>1. BasicType
  <2>1. NoKid \in Kids BY DEF NoKid, Kids
  <2>2. QED BY <2>1, PopenAssumption DEF Init, BasicType
<1>2. TableInv
  <2>1. 1..popen_count = {} BY DEF Init
  <2>2. QED BY <2>1 DEF Init, TableInv
<1>3. OpenedOnly BY DEF Init, OpenedOnly, NoKid
<1>4. FdsInv BY DEF Init, FdsInv
<1>5. ForkInv BY DEF Init, ForkInv
<1>6. OnlyOwnEnd BY DEF Init, OnlyOwnEnd
<1>7. QED BY <1>1, <1>2, <1>3, <1>4, <1>5, <1>6 DEF IInv

LEMMA ForkFailsKeeps == ASSUME IInv, PopenForkFails PROVE IInv'
<1> USE DEF IInv
<1> DEFINE k == opens + 1
<1>0. /\ pc = "call" /\ opens < MaxOpens /\ opens' = k /\ fds' = fds \cup Pipe(k)
      /\ UNCHANGED <<popen_streams, popen_count, kids, pc, on, held, lifo>>
  BY DEF PopenForkFails, table
<1>1. k \in Streams /\ k \in 0..MaxOpens /\ k > opens /\ opens \in Nat /\ k \in Nat
  BY <1>0, PopenAssumption DEF BasicType, Streams
<1>2. \A j \in held : j \in Streams /\ j # k /\ j \in 1..k
  BY <1>1, StreamNumbers DEF BasicType, Streams
<1>3. \A j \in Streams : j > k => j > opens /\ j # k BY <1>1, StreamNumbers
<1> HIDE DEF k
<1>4. \A j \in Streams : j # k => Pipe(k) \cap Pipe(j) = {} BY <1>1, PipeFacts
<1>5. BasicType'
  <2>1. Pipe(k) \subseteq Ends BY <1>1 DEF Ends
  <2>2. QED BY <1>0, <1>1, <1>2, <2>1 DEF BasicType
<1>6. TableInv' BY <1>0 DEF TableInv, Row
<1>7. OpenedOnly' BY <1>0, <1>3, <1>4 DEF OpenedOnly
<1>8. FdsInv'
  <2>1. \A j \in held : fds' \cap Pipe(j) = fds \cap Pipe(j) BY <1>0, <1>2, <1>4
  <2>2. QED BY <1>0, <2>1 DEF FdsInv, Own
<1>9. ForkInv' BY <1>0 DEF ForkInv, Own
<1>10. OnlyOwnEnd' BY <1>0 DEF OnlyOwnEnd, Kid
<1>11. QED BY <1>5, <1>6, <1>7, <1>8, <1>9, <1>10

\* A new stream is the last in the table, and the process forked for it gets
\* the caller's ends and a table that names them.
LEMMA PopenKeeps ==
  ASSUME IInv, NEW mode \in {"r", "w"}, my_popen(mode) PROVE IInv'
<1> USE DEF IInv
<1>0. PICK k, n :
        /\ k = opens + 1 /\ n = popen_count + 1
        /\ pc = "call" /\ popen_count < MAX_POPEN /\ opens < MaxOpens
        /\ opens' = k /\ held' = held \cup {k}
        /\ kids' = [kids EXCEPT ![k] =
             [pc |-> "forked", mode |-> mode, ends |-> fds \cup Pipe(k),
              seen |-> SubSeq(popen_streams, 1, popen_count)]]
        /\ fds' = fds \cup {<<mode, k>>}
        /\ popen_streams' = [popen_streams EXCEPT ![n] = k]
        /\ popen_count' = n
        /\ UNCHANGED <<pc, on, lifo>>
  BY DEF my_popen
<1>1. /\ k \in Streams /\ k \in 0..MaxOpens /\ k > opens /\ opens \in Nat /\ k \in Nat
      /\ n \in Slots /\ n \in 0..MAX_POPEN /\ popen_count \in Nat /\ n \in Nat
  BY <1>0, PopenAssumption DEF BasicType, Streams, Slots
<1>2. \A j \in held : j \in Streams /\ j # k /\ j \in 1..k /\ j < k
  BY <1>0, <1>1, StreamNumbers DEF BasicType, Streams
<1>3. \A j \in Streams : j > k => j > opens /\ j # k BY <1>0, <1>1, StreamNumbers
<1>4. /\ \A j \in Streams : j # k => Pipe(k) \cap Pipe(j) = {}
      /\ <<mode, k>> \in Pipe(k)
  BY <1>1, PipeFacts
<1> DEFINE seen == SubSeq(popen_streams, 1, popen_count)
<1>5. /\ seen \in Seq(Streams \cup {NULL}) /\ DOMAIN seen = 1..popen_count
      /\ \A i \in 1..popen_count : seen[i] = popen_streams[i]
  <2> DEFINE m == popen_count
  <2>1. m \in Int /\ 1 \in Int /\ m >= 0 BY <1>1
  <2>2. \A i \in 1..m : popen_streams[i] \in Streams \cup {NULL} BY EntryType
  <2>3. /\ seen \in Seq(Streams \cup {NULL})
        /\ Len(seen) = IF 1 <= m THEN m - 1 + 1 ELSE 0
        /\ \A i \in 1..m - 1 + 1 : seen[i] = popen_streams[1 + i - 1]
    BY <2>1, <2>2, SubSeqProperties
  <2> HIDE DEF seen, m
  <2>4. Len(seen) = m /\ \A i \in 1..m : seen[i] = popen_streams[i] BY <2>1, <2>3
  <2>5. DOMAIN seen = 1..m BY <2>3, <2>4, LenProperties
  <2>6. QED BY <2>3, <2>4, <2>5 DEF m
<1> DEFINE new == [pc |-> "forked", mode |-> mode, ends |-> fds \cup Pipe(k), seen |-> seen]
<1>6. new \in Kids
  <2>1. Pipe(k) \subseteq Ends BY <1>1 DEF Ends
  <2>2. fds \cup Pipe(k) \subseteq Ends BY <2>1 DEF BasicType
  <2> HIDE DEF seen
  <2>3. QED BY <1>5, <2>2 DEF Kids
<1>7. /\ kids'[k].pc = "forked" /\ kids'[k].mode = mode
      /\ kids'[k].ends = fds \cup Pipe(k) /\ kids'[k].seen = seen
      /\ \A j \in Streams : j # k => kids'[j] = kids[j]
  BY <1>0, <1>1 DEF BasicType
<1> HIDE DEF seen
<1>8. /\ \A j \in Streams : j # k => Own(j)' = Own(j) /\ Kid(j)' = Kid(j)
      /\ Own(k)' = <<mode, k>>
  <2>1. \A j \in Streams : j # k => kids'[j].mode = kids[j].mode BY <1>7
  <2>2. \A j \in Streams : j # k => Own(j)' = Own(j) /\ Kid(j)' = Kid(j)
    BY <2>1, SameEnds
  <2>3. Own(k)' = <<mode, k>> BY <1>7 DEF Own
  <2>4. QED BY <2>2, <2>3
<1>9. BasicType'
  <2>1. kids' \in [Streams -> Kids]
    <3>1. kids' = [kids EXCEPT ![k] = new] BY <1>0 DEF new, seen
    <3> HIDE DEF new
    <3>2. QED BY <1>6, <3>1 DEF BasicType
  <2>2. popen_streams' \in [Slots -> Streams \cup {NULL}] BY <1>0, <1>1 DEF BasicType
  <2>3. fds' \subseteq Ends BY <1>0, <1>1, <1>4 DEF BasicType, Ends
  <2>4. held' \subseteq 1..k BY <1>0, <1>1, <1>2
  <2>5. QED BY <1>0, <1>1, <2>1, <2>2, <2>3, <2>4 DEF BasicType
<1>10. TableInv'
  <2> SUFFICES ASSUME lifo
               PROVE  /\ \A i, j \in 1..n : i < j => Row(i)' < Row(j)'
                      /\ held' = {Row(i)' : i \in 1..n}
                      /\ \A i \in 1..n : popen_streams'[i] # NULL
    BY <1>0 DEF TableInv
  <2>1. \A i \in 1..popen_count : i \in 1..n /\ i # n /\ i \in Slots
    BY <1>0, <1>1, EntryType
  <2>2. \A i \in 1..n : i \in 1..popen_count \/ i = n BY <1>0, <1>1
  <2>3. /\ \A i \in 1..popen_count : popen_streams'[i] = popen_streams[i]
        /\ popen_streams'[n] = k
    BY <1>0, <1>1, <2>1 DEF BasicType
  <2>4. /\ \A i \in 1..popen_count : Row(i)' = Row(i) /\ Row(i) = popen_streams[i]
        /\ Row(n)' = k
    BY <1>0, <2>3 DEF Row
  <2>5. \A i \in 1..popen_count : Row(i) \in held BY DEF TableInv
  <2>6. held' = {Row(i)' : i \in 1..n}
    <3>1. held = {Row(i) : i \in 1..popen_count} BY DEF TableInv
    <3>2. n \in 1..n BY <1>0, <1>1
    <3>3. \A x \in held' : \E i \in 1..n : x = Row(i)'
      BY <1>0, <2>1, <2>4, <3>1, <3>2
    <3>4. \A i \in 1..n : Row(i)' \in held' BY <1>0, <2>2, <2>4, <2>5
    <3>5. QED BY <3>3, <3>4
  <2>7. ASSUME NEW i \in 1..n, NEW j \in 1..n, i < j PROVE Row(i)' < Row(j)'
    <3>1. i \in 1..popen_count BY <1>0, <1>1, <2>2, <2>7
    <3>2. CASE j \in 1..popen_count BY <2>4, <2>7, <3>1, <3>2 DEF TableInv
    <3>3. CASE j = n BY <1>2, <2>4, <2>5, <3>1, <3>3
    <3>4. QED BY <2>2, <3>2, <3>3
  <2>8. \A i \in 1..n : popen_streams'[i] # NULL
    BY <1>0, <1>1, <2>2, <2>3, StreamNumbers DEF TableInv
  <2>9. QED BY <2>6, <2>7, <2>8
<1>11. OpenedOnly'
  <2> SUFFICES ASSUME NEW j \in Streams, j > k
               PROVE  /\ fds' \cap Pipe(j) = {}
                      /\ \A m \in Streams : kids'[m].ends \cap Pipe(j) = {}
    BY <1>0 DEF OpenedOnly
  <2>1. fds \cap Pipe(j) = {} /\ \A m \in Streams : kids[m].ends \cap Pipe(j) = {}
    BY <1>3 DEF OpenedOnly
  <2>2. Pipe(k) \cap Pipe(j) = {} BY <1>3, <1>4
  <2>3. fds' \cap Pipe(j) = {} BY <1>0, <1>4, <2>1, <2>2
  <2>4. kids'[k].ends \cap Pipe(j) = {} BY <1>7, <2>1, <2>2
  <2>5. QED BY <1>7, <2>1, <2>3, <2>4
<1>12. FdsInv'
  <2> SUFFICES ASSUME NEW j \in held' PROVE fds' \cap Pipe(j) = {Own(j)'}
    BY DEF FdsInv
  <2>1. CASE j = k
    <3>1. fds \cap Pipe(k) = {} BY <1>1 DEF OpenedOnly
    <3>2. QED BY <1>0, <1>4, <1>8, <2>1, <3>1
  <2>2. CASE j # k
    <3>1. j \in held /\ j \in Streams BY <1>0, <1>2, <2>2
    <3>2. fds \cap Pipe(j) = {Own(j)} BY <1>0, <3>1 DEF FdsInv
    <3>3. fds' \cap Pipe(j) = fds \cap Pipe(j) BY <1>0, <1>4, <2>2, <3>1
    <3>4. QED BY <1>8, <2>2, <3>1, <3>2, <3>3
  <2>3. QED BY <2>1, <2>2
<1>13. ForkInv'
  <2> SUFFICES ASSUME NEW m \in Streams, lifo, kids'[m].pc = "forked", NEW j \in held'
               PROVE  IF j = m THEN kids'[m].ends \cap Pipe(j) = Pipe(j)
                      ELSE \/ kids'[m].ends \cap Pipe(j) = {}
                           \/ /\ kids'[m].ends \cap Pipe(j) = {Own(j)'}
                              /\ \E i \in DOMAIN kids'[m].seen : kids'[m].seen[i] = j
    BY <1>0 DEF ForkInv
  <2>1. CASE m = k
    <3>1. CASE j = k BY <1>7, <2>1, <3>1
    <3>2. CASE j # k
      <4>1. j \in held /\ j \in Streams BY <1>0, <1>2, <3>2
      <4>2. fds \cap Pipe(j) = {Own(j)} BY <1>0, <4>1 DEF FdsInv
      <4>3. kids'[m].ends \cap Pipe(j) = {Own(j)'}
        BY <1>4, <1>7, <1>8, <2>1, <3>2, <4>1, <4>2
      <4>4. PICK i \in 1..popen_count : Row(i) = j BY <4>1 DEF TableInv
      <4>5. seen[i] = j BY <1>0, <1>5, <4>4 DEF Row
      <4>6. QED BY <1>5, <1>7, <2>1, <3>2, <4>3, <4>5
    <3>3. QED BY <3>1, <3>2
  <2>2. CASE m # k
    <3>1. kids'[m] = kids[m] BY <1>7, <2>2
    <3>2. CASE j = k
      <4>1. kids[m].ends \cap Pipe(k) = {} BY <1>1 DEF OpenedOnly
      <4>2. QED BY <2>2, <3>1, <3>2, <4>1
    <3>3. CASE j # k
      <4>1. j \in held /\ j \in Streams BY <1>0, <1>2, <3>3
      <4>2. QED BY <1>8, <3>1, <3>3, <4>1 DEF ForkInv
    <3>4. QED BY <3>2, <3>3
  <2>3. QED BY <2>1, <2>2
<1>14. OnlyOwnEnd'
  <2> SUFFICES ASSUME NEW m \in Streams, lifo, kids'[m].pc = "run", NEW j \in held'
               PROVE  kids'[m].ends \cap Pipe(j) = IF j = m THEN {Kid(m)'} ELSE {}
    BY <1>0 DEF OnlyOwnEnd
  <2>1. m # k /\ kids'[m] = kids[m]
    <3>1. m # k BY <1>7
    <3>2. QED BY <1>7, <3>1
  <2>2. CASE j = k
    <3>1. kids[m].ends \cap Pipe(k) = {} BY <1>1 DEF OpenedOnly
    <3>2. QED BY <2>1, <2>2, <3>1
  <2>3. CASE j # k
    <3>1. j \in held BY <1>0, <2>3
    <3>2. kids[m].ends \cap Pipe(j) = IF j = m THEN {Kid(m)} ELSE {}
      BY <2>1, <3>1 DEF OnlyOwnEnd
    <3>3. QED BY <1>8, <2>1, <3>2
  <2>4. QED BY <2>2, <2>3
<1>15. QED BY <1>9, <1>10, <1>11, <1>12, <1>13, <1>14

\* A process that gets on closes ends and opens none.
LEMMA KidMovesKeeps ==
  ASSUME IInv, NEW k \in Streams, NEW r \in Kids,
         kids' = [kids EXCEPT ![k] = r],
         r.mode = kids[k].mode, r.ends \subseteq kids[k].ends, r.pc \in {"run", "dead"},
         r.pc = "run" /\ lifo =>
           \A j \in held : r.ends \cap Pipe(j) = IF j = k THEN {Kid(k)} ELSE {},
         UNCHANGED <<popen_streams, popen_count, opens, fds, pc, on, held, lifo>>
  PROVE  IInv'
<1> USE DEF IInv
<1>1. kids'[k] = r /\ \A j \in Streams : j # k => kids'[j] = kids[j]
  BY DEF BasicType
<1>2. \A j \in Streams : Own(j)' = Own(j) /\ Kid(j)' = Kid(j)
  <2>1. \A j \in Streams : kids'[j].mode = kids[j].mode BY <1>1
  <2>2. QED BY <2>1, SameEnds
<1>3. \A j \in held : j \in Streams BY PopenAssumption DEF BasicType, Streams
<1>4. BasicType' BY DEF BasicType
<1>5. TableInv' BY DEF TableInv, Row
<1>6. OpenedOnly'
  <2> SUFFICES ASSUME NEW j \in Streams, j > opens
               PROVE  fds \cap Pipe(j) = {} /\ \A m \in Streams : kids'[m].ends \cap Pipe(j) = {}
    BY DEF OpenedOnly
  <2>1. \A m \in Streams : kids'[m].ends \subseteq kids[m].ends BY <1>1
  <2>2. QED BY <2>1 DEF OpenedOnly
<1>7. FdsInv' BY <1>2, <1>3 DEF FdsInv
<1>8. ForkInv' BY <1>1, <1>2, <1>3 DEF ForkInv
<1>9. OnlyOwnEnd' BY <1>1, <1>2 DEF OnlyOwnEnd
<1>10. QED BY <1>4, <1>5, <1>6, <1>7, <1>8, <1>9

\* The close loop before the exec.
LEMMA ChildKeeps == ASSUME IInv, NEW k \in Streams, Child(k) PROVE IInv'
<1> USE DEF IInv
<1> DEFINE seen == {kids[k].seen[i] : i \in DOMAIN kids[k].seen}
           gone == {Own(k)} \cup {Own(j) : j \in seen}
<1>0. /\ kids[k].pc = "forked"
      /\ kids' = [kids EXCEPT ![k].pc = IF NULL \in seen THEN "dead" ELSE "run",
                              ![k].ends = IF NULL \in seen THEN {} ELSE @ \ gone]
      /\ UNCHANGED <<popen_streams, popen_count, opens, fds, pc, on, held, lifo>>
  BY DEF Child, table
<1>1. kids[k] \in Kids BY DEF BasicType
<1>2. CASE NULL \in seen
  <2> DEFINE r == [kids[k] EXCEPT !.pc = "dead", !.ends = {}]
  <2>1. r \in Kids /\ r.mode = kids[k].mode /\ r.ends = {} /\ r.pc = "dead" BY <1>1 DEF Kids
  <2>2. kids' = [kids EXCEPT ![k] = r] BY <1>0, <1>1, <1>2 DEF BasicType, Kids
  <2> HIDE DEF r
  <2>3. QED BY <1>0, <2>1, <2>2, KidMovesKeeps
<1>3. CASE NULL \notin seen
  <2> DEFINE r == [kids[k] EXCEPT !.pc = "run", !.ends = @ \ gone]
  <2> HIDE DEF gone
  <2>1. r \in Kids /\ r.mode = kids[k].mode /\ r.ends = kids[k].ends \ gone /\ r.pc = "run"
    BY <1>1 DEF Kids
  <2>2. kids' = [kids EXCEPT ![k] = r] BY <1>0, <1>1, <1>3 DEF BasicType, Kids
  <2> HIDE DEF r
  <2>3. \A j \in seen : j \in Streams
    <3>1. kids[k].seen \in Seq(Streams \cup {NULL}) BY <1>1 DEF Kids
    <3>2. \A i \in DOMAIN kids[k].seen : kids[k].seen[i] \in Streams \cup {NULL}
      BY <3>1, ElementOfSeq, LenProperties
    <3>3. QED BY <1>3, <3>2
  <2>4. ASSUME lifo, NEW j \in held
        PROVE  r.ends \cap Pipe(j) = IF j = k THEN {Kid(k)} ELSE {}
    <3>1. j \in Streams BY PopenAssumption DEF BasicType, Streams
    <3>2. CASE j = k
      <4>1. kids[k].ends \cap Pipe(k) = Pipe(k) BY <1>0, <2>4, <3>2 DEF ForkInv
      <4>2. gone \cap Pipe(k) = {Own(k)}
        <5> HIDE DEF seen
        <5>1. \A m \in seen : m # k => Own(m) \notin Pipe(k) BY <2>3, PipeFacts
        <5>2. \A x \in gone : x = Own(k) \/ \E m \in seen : m # k /\ x = Own(m) BY DEF gone
        <5>3. \A x \in gone : x \in Pipe(k) => x = Own(k) BY <5>1, <5>2
        <5>4. Own(k) \in gone /\ Own(k) \in Pipe(k) BY PipeFacts DEF gone
        <5> HIDE DEF gone
        <5>5. QED BY <5>3, <5>4
      <4>3. Pipe(k) \ {Own(k)} = {Kid(k)} BY PipeFacts
      <4>4. QED BY <2>1, <3>2, <4>1, <4>2, <4>3
    <3>3. CASE j # k
      <4>1. \/ kids[k].ends \cap Pipe(j) = {}
            \/ kids[k].ends \cap Pipe(j) = {Own(j)} /\ j \in seen
        BY <1>0, <2>4, <3>3 DEF ForkInv
      <4>2. j \in seen => Own(j) \in gone BY DEF gone
      <4> HIDE DEF seen
      <4>3. QED BY <2>1, <3>3, <4>1, <4>2
    <3>4. QED BY <3>2, <3>3
  <2>5. QED BY <1>0, <2>1, <2>2, <2>4, KidMovesKeeps
<1>4. QED BY <1>2, <1>3

LEMMA KidEndsKeeps == ASSUME IInv, NEW k \in Streams, KidEnds(k) PROVE IInv'
<1> USE DEF IInv
<1>1. kids[k] \in Kids BY DEF BasicType
<1> DEFINE r == [kids[k] EXCEPT !.pc = "dead", !.ends = {}]
<1>2. r \in Kids /\ r.mode = kids[k].mode /\ r.ends = {} /\ r.pc = "dead" BY <1>1 DEF Kids
<1>3. kids' = [kids EXCEPT ![k] = r] BY DEF KidEnds, BasicType
<1>4. UNCHANGED <<popen_streams, popen_count, opens, fds, pc, on, held, lifo>>
  BY DEF KidEnds, table
<1> HIDE DEF r
<1>5. QED BY <1>2, <1>3, <1>4, KidMovesKeeps

\* The caller begins or ends a read, exits, or forgets a stream that is not in
\* the table, which happens to no stream while they are closed last one first.
LEMMA CallerKeeps ==
  ASSUME IInv, pc # "wait", pc' \in {"call", "read", "gone"}, on' \in Streams \cup {NULL},
         fds' = fds \/ (fds' = {} /\ pc' = "gone"), pc = "gone" => pc' = "gone",
         held' \subseteq held, lifo => held' = held,
         UNCHANGED <<popen_streams, popen_count, opens, kids, lifo>>
  PROVE  IInv'
<1> USE DEF IInv
<1>1. BasicType' BY DEF BasicType
<1>2. TableInv' BY DEF TableInv, Row
<1>3. OpenedOnly' BY DEF OpenedOnly
<1>4. FdsInv' BY DEF FdsInv, Own
<1>5. ForkInv' BY DEF ForkInv, Own
<1>6. OnlyOwnEnd' BY DEF OnlyOwnEnd, Kid
<1>7. QED BY <1>1, <1>2, <1>3, <1>4, <1>5, <1>6

\* While streams are closed last one first, my_pclose finds every open stream
\* in the table, once.
LEMMA Found ==
  ASSUME IInv, lifo, pc = "call", NEW k \in held
  PROVE  \E i \in Slots : Entries(k) = {i}
<1> USE DEF IInv
<1>1. PICK i \in 1..popen_count : Row(i) = k BY DEF TableInv
<1>2. \A j \in 1..popen_count : j \in Slots /\ j \in Nat /\ popen_streams[j] = Row(j)
  BY EntryType DEF Row
<1>3. k \in Nat BY DEF BasicType
<1>4. ASSUME NEW j \in 1..popen_count, popen_streams[j] = k PROVE j = i
  <2>1. Row(j) = k BY <1>2, <1>4
  <2>2. ~(Row(i) < Row(j)) /\ ~(Row(j) < Row(i)) BY <1>1, <1>3, <2>1
  <2>3. ~(i < j) /\ ~(j < i) BY <2>2 DEF TableInv
  <2>4. QED BY <1>2, <2>3
<1>5. Entries(k) = {i} BY <1>1, <1>2, <1>4 DEF Entries
<1>6. QED BY <1>2, <1>5

\* The entry of the stream is cleared, and stands for it until the wait is over.
LEMMA PcloseKeeps == ASSUME IInv, NEW k \in Streams, my_pclose(k) PROVE IInv'
<1> USE DEF IInv
<1>0. /\ pc = "call" /\ k \in held /\ Entries(k) # {}
      /\ popen_streams' = [popen_streams EXCEPT
           ![CHOOSE i \in Entries(k) : \A j \in Entries(k) : i <= j] = NULL]
      /\ fds' = fds \ {Own(k)} /\ pc' = "wait" /\ on' = k
      /\ UNCHANGED <<popen_count, opens, kids, held, lifo>>
  BY DEF my_pclose
<1>1. popen_count \in Nat /\ popen_count > 0
  <2>1. PICK i \in 1..popen_count : TRUE BY <1>0 DEF Entries
  <2>2. QED BY <2>1, PopenAssumption DEF BasicType
<1>2. BasicType' BY <1>0, <1>1 DEF BasicType
<1>3. TableInv'
  <2> SUFFICES ASSUME lifo
               PROVE  /\ \A i, j \in 1..popen_count : i < j => Row(i)' < Row(j)'
                      /\ held = {Row(i)' : i \in 1..popen_count}
                      /\ \E i \in 1..popen_count : popen_streams'[i] = NULL
    BY <1>0 DEF TableInv
  <2>1. PICK e \in Slots : Entries(k) = {e} BY <1>0, Found
  <2>2. e \in 1..popen_count /\ popen_streams[e] = k BY <2>1 DEF Entries
  <2>3. (CHOOSE i \in Entries(k) : \A j \in Entries(k) : i <= j) = e
    <3>1. e <= e BY PopenAssumption DEF Slots
    <3>2. QED BY <2>1, <3>1
  <2>4. popen_streams' = [popen_streams EXCEPT ![e] = NULL] BY <1>0, <2>3
  <2>5. ASSUME NEW i \in 1..popen_count PROVE Row(i)' = Row(i)
    <3>1. popen_streams[i] # NULL BY <1>0 DEF TableInv
    <3>2. i \in Slots BY EntryType
    <3>3. popen_streams'[i] = IF i = e THEN NULL ELSE popen_streams[i]
      BY <2>1, <2>4, <3>2 DEF BasicType
    <3>4. QED BY <1>0, <2>2, <3>1, <3>3 DEF Row
  <2>6. popen_streams'[e] = NULL BY <2>1, <2>4 DEF BasicType
  <2>7. QED BY <2>2, <2>5, <2>6 DEF TableInv
<1>4. \A j \in Streams : Own(j)' = Own(j) /\ Kid(j)' = Kid(j) BY <1>0 DEF Own, Kid
<1>5. OpenedOnly' BY <1>0 DEF OpenedOnly
<1>6. FdsInv'
  <2> SUFFICES ASSUME NEW j \in held, j # k PROVE fds' \cap Pipe(j) = {Own(j)'}
    BY <1>0 DEF FdsInv
  <2>1. j \in Streams BY PopenAssumption DEF BasicType, Streams
  <2>2. fds \cap Pipe(j) = {Own(j)} BY <1>0 DEF FdsInv
  <2>3. Own(k) \notin Pipe(j) BY <2>1, PipeFacts
  <2>4. QED BY <1>0, <1>4, <2>1, <2>2, <2>3
<1>7. ForkInv' BY <1>0 DEF ForkInv, Own
<1>8. OnlyOwnEnd' BY <1>0 DEF OnlyOwnEnd, Kid
<1>9. QED BY <1>2, <1>3, <1>5, <1>6, <1>7, <1>8

\* If the stream just closed was the last one opened, its entry is the last in
\* use, and goes when popen_count goes down.
LEMMA WaitDoneKeeps == ASSUME IInv, WaitDone PROVE IInv'
<1> USE DEF IInv
<1>0. /\ pc = "wait" /\ kids[on].pc = "dead"
      /\ kids' = [kids EXCEPT ![on].pc = "reaped"]
      /\ popen_count' = popen_count - 1 /\ pc' = "call" /\ on' = NULL
      /\ held' = held \ {on} /\ lifo' = (lifo /\ \A k \in held : k <= on)
      /\ UNCHANGED <<popen_streams, opens, fds>>
  BY DEF WaitDone
<1>1. /\ on \in held /\ on \in Streams /\ popen_count > 0 /\ popen_count \in Nat
      /\ popen_count \in 1..popen_count /\ \A j \in held : j \in Streams
  BY <1>0, PopenAssumption DEF BasicType, Streams
<1>2. /\ kids'[on] = [kids[on] EXCEPT !.pc = "reaped"]
      /\ \A j \in Streams : j # on => kids'[j] = kids[j]
  BY <1>0, <1>1 DEF BasicType
<1>3. \A j \in Streams : kids'[j].mode = kids[j].mode /\ kids'[j].ends = kids[j].ends
  <2>1. kids[on] \in Kids BY <1>1 DEF BasicType
  <2>2. kids'[on].mode = kids[on].mode /\ kids'[on].ends = kids[on].ends BY <1>2, <2>1 DEF Kids
  <2>3. QED BY <1>2, <2>2
<1>4. \A j \in Streams : Own(j)' = Own(j) /\ Kid(j)' = Kid(j)
  BY <1>3, SameEnds
<1>5. \A j \in Streams : kids'[j].pc \in {"forked", "run"} => kids'[j] = kids[j]
  <2>1. kids[on] \in Kids BY <1>1 DEF BasicType
  <2>2. kids'[on].pc = "reaped" BY <1>2, <2>1 DEF Kids
  <2>3. QED BY <1>2, <2>2
<1>6. BasicType'
  <2>1. kids' \in [Streams -> Kids]
    <3>1. kids[on] \in Kids BY <1>1 DEF BasicType
    <3>2. [kids[on] EXCEPT !.pc = "reaped"] \in Kids BY <3>1 DEF Kids
    <3>3. kids' = [kids EXCEPT ![on] = [kids[on] EXCEPT !.pc = "reaped"]]
      BY <1>0, <1>1 DEF BasicType
    <3>4. QED BY <3>2, <3>3 DEF BasicType
  <2>2. popen_count' \in 0..MAX_POPEN BY <1>0, <1>1, PopenAssumption DEF BasicType
  <2>3. QED BY <1>0, <2>1, <2>2 DEF BasicType
<1>7. TableInv'
  <2> DEFINE n == popen_count
             m == popen_count - 1
  <2> SUFFICES ASSUME lifo, \A k \in held : k <= on
               PROVE  /\ \A i, j \in 1..m : i < j => popen_streams[i] < popen_streams[j]
                      /\ held \ {on} = {popen_streams[i] : i \in 1..m}
                      /\ \A i \in 1..m : popen_streams[i] # NULL
    BY <1>0 DEF TableInv, Row
  <2>1. \A i \in 1..n : Row(i) \in held /\ Row(i) \in Nat /\ i \in Nat
    BY <1>1, EntryType, StreamNumbers DEF TableInv
  <2>2. PICK e \in 1..n : popen_streams[e] = NULL BY <1>0 DEF TableInv
  <2>3. Row(e) = on BY <1>0, <2>2 DEF Row
  <2>4. e = n
    <3>1. SUFFICES ASSUME e < n PROVE FALSE BY <1>1, <2>1
    <3>2. Row(e) < Row(n) BY <1>1, <3>1 DEF TableInv
    <3>3. Row(n) <= on BY <1>1, <2>1
    <3>4. QED BY <1>1, <2>1, <2>3, <3>2, <3>3
  <2>5. \A i \in 1..m : i \in 1..n /\ i < n BY <1>1
  <2>6. ASSUME NEW i \in 1..m PROVE popen_streams[i] = Row(i) /\ Row(i) < on /\ popen_streams[i] # NULL
    <3>1. Row(i) < on BY <1>1, <2>3, <2>4, <2>5 DEF TableInv
    <3>2. Row(i) \in Nat BY <2>1, <2>5
    <3>3. Row(i) # on BY <3>1, <3>2
    <3>4. QED BY <1>0, <3>1, <3>3 DEF Row
  <2>7. \A i, j \in 1..m : i < j => popen_streams[i] < popen_streams[j]
    BY <2>5, <2>6 DEF TableInv
  <2>8. ASSUME NEW x \in held, x # on PROVE \E i \in 1..m : x = popen_streams[i]
    <3>1. PICK i \in 1..n : x = Row(i) BY DEF TableInv
    <3>2. i # n BY <2>3, <2>4, <2>8, <3>1
    <3>3. i \in 1..m BY <1>1, <3>2
    <3>4. QED BY <2>6, <3>1, <3>3
  <2>9. ASSUME NEW i \in 1..m PROVE popen_streams[i] \in held \ {on}
    <3>1. Row(i) \in held /\ Row(i) \in Nat BY <2>1, <2>5
    <3>2. Row(i) # on BY <2>6, <3>1
    <3>3. QED BY <2>6, <3>1, <3>2
  <2>10. QED BY <2>6, <2>7, <2>8, <2>9
<1>8. OpenedOnly' BY <1>0, <1>3 DEF OpenedOnly
<1>9. FdsInv' BY <1>0, <1>1, <1>4 DEF FdsInv
<1>10. ForkInv'
  <2> SUFFICES ASSUME NEW k \in Streams, lifo', kids'[k].pc = "forked", NEW j \in held'
               PROVE  IF j = k THEN kids'[k].ends \cap Pipe(j) = Pipe(j)
                      ELSE \/ kids'[k].ends \cap Pipe(j) = {}
                           \/ /\ kids'[k].ends \cap Pipe(j) = {Own(j)'}
                              /\ \E i \in DOMAIN kids'[k].seen : kids'[k].seen[i] = j
    BY DEF ForkInv
  <2>1. lifo /\ j \in held BY <1>0
  <2>2. kids'[k] = kids[k] BY <1>5
  <2>3. Own(j)' = Own(j) BY <1>1, <1>4, <2>1
  <2>4. QED BY <2>1, <2>2, <2>3 DEF ForkInv
<1>11. OnlyOwnEnd' BY <1>0, <1>1, <1>4, <1>5 DEF OnlyOwnEnd
<1>12. QED BY <1>6, <1>7, <1>8, <1>9, <1>10, <1>11

\* One step of anybody.
LEMMA Step == IInv /\ [Next]_vars => IInv'
<1> SUFFICES ASSUME IInv, [Next]_vars PROVE IInv' OBVIOUS
<1>1. CASE PopenForkFails BY <1>1, ForkFailsKeeps
<1>2. ASSUME NEW mode \in {"r", "w"}, my_popen(mode) PROVE IInv' BY <1>2, PopenKeeps
<1>3. CASE ReadFails BY <1>3, CallerKeeps DEF ReadFails, CallerExits, table, IInv, BasicType
<1>4. CASE ReadDone BY <1>4, CallerKeeps DEF ReadDone, table, IInv, BasicType
<1>5. CASE WaitDone BY <1>5, WaitDoneKeeps
<1>6. CASE UNCHANGED vars
  <2> USE <1>6 DEF IInv, vars, table
  <2>1. BasicType' /\ TableInv' BY DEF BasicType, TableInv, Row
  <2>2. OpenedOnly' /\ FdsInv' BY DEF OpenedOnly, FdsInv, Own
  <2>3. ForkInv' /\ OnlyOwnEnd' BY DEF ForkInv, OnlyOwnEnd, Own, Kid
  <2>4. QED BY <2>1, <2>2, <2>3
<1>7. ASSUME NEW k \in Streams,
             \/ Child(k) \/ KidEnds(k) \/ Read(k) \/ Write(k)
             \/ PcloseNotFound(k) \/ my_pclose(k)
      PROVE  IInv'
  <2>1. CASE Child(k) BY <2>1, ChildKeeps
  <2>2. CASE KidEnds(k) BY <2>2, KidEndsKeeps
  <2>3. CASE Read(k) BY <2>3, CallerKeeps DEF Read, table, IInv, BasicType
  <2>4. CASE Write(k)
    <3>1. CASE pc = "call" /\ CallerExits
      BY <3>1, CallerKeeps DEF CallerExits, table, IInv, BasicType
    <3>2. QED BY <1>6, <2>4, <3>1 DEF Write
  <2>5. CASE PcloseNotFound(k)
    <3>1. /\ pc = "call" /\ k \in held /\ Entries(k) = {} /\ held' = held \ {k}
          /\ UNCHANGED <<popen_streams, popen_count, opens, fds, kids, pc, on, lifo>>
      BY <2>5 DEF PcloseNotFound, table
    <3>2. ~lifo BY <3>1, Found
    <3>3. QED BY <3>1, <3>2, CallerKeeps DEF IInv, BasicType
  <2>6. CASE my_pclose(k) BY <2>6, PcloseKeeps
  <2>7. QED BY <1>7, <2>1, <2>2, <2>3, <2>4, <2>5, <2>6
<1>8. QED BY <1>1, <1>2, <1>3, <1>4, <1>5, <1>6, <1>7 DEF Next, Caller

LEMMA Invariance == Spec => []IInv
<1>1. QED BY Initial, Step, PTL DEF Spec

----------------------------------------------------------------------------

\* While streams are closed last one first, the first popen_count entries of
\* popen_streams are the open streams, each once, whatever forks failed and
\* however the commands ended: my_pclose never misses a stream.
THEOREM TableOfStreams == Spec => []TableExact
<1>1. IInv => TableExact
  <2> SUFFICES ASSUME IInv PROVE TableExact OBVIOUS
  <2> USE DEF IInv
  <2>1. TypeOK
    <3>1. held \subseteq Streams BY PopenAssumption DEF BasicType, Streams
    <3>2. \A k \in Streams : kids[k].pc \in {"none", "forked", "run", "dead", "reaped"}
      BY DEF BasicType, Kids
    <3>3. QED BY <3>1, <3>2 DEF BasicType, TypeOK, Ends
  <2>2. ASSUME lifo, pc # "wait"
        PROVE  /\ held = {popen_streams[i] : i \in 1..popen_count}
               /\ Cardinality(held) = popen_count
    <3> DEFINE S == 1..popen_count
               f == [i \in S |-> popen_streams[i]]
    <3>1. \A i \in S : Row(i) = popen_streams[i] BY <2>2 DEF Row
    <3>2. held = {popen_streams[i] : i \in S} BY <2>2, <3>1 DEF TableInv
    <3>3. popen_count \in Nat /\ \A x \in held : x \in Nat BY DEF BasicType
    <3>4. ASSUME NEW i \in S, NEW j \in S, f[i] = f[j] PROVE i = j
      <4>1. Row(i) = Row(j) /\ Row(i) \in held BY <3>1, <3>2, <3>4
      <4>2. ~(Row(i) < Row(j)) /\ ~(Row(j) < Row(i)) BY <3>3, <4>1
      <4>3. ~(i < j) /\ ~(j < i) BY <2>2, <4>2 DEF TableInv
      <4>4. QED BY <3>3, <4>3
    <3>5. f \in Bijection(S, held)
      <4>1. f \in [S -> held] /\ \A x \in held : \E i \in S : f[i] = x BY <3>2
      <4>2. \A i, j \in S : f[i] = f[j] => i = j BY <3>4
      <4> HIDE DEF f, S
      <4>3. f \in Injection(S, held) BY <4>1, <4>2 DEF Injection, IsInjective
      <4>4. f \in Surjection(S, held) BY <4>1 DEF Surjection
      <4>5. QED BY <4>3, <4>4 DEF Bijection
    <3>6. ExistsBijection(S, held) BY <3>5 DEF ExistsBijection
    <3>7. IsFiniteSet(S) /\ Cardinality(S) = popen_count
      <4>1. IsFiniteSet(S) /\ Cardinality(S) = IF 1 > popen_count THEN 0 ELSE popen_count - 1 + 1
        BY <3>3, FS_Interval
      <4> HIDE DEF S
      <4>2. QED BY <3>3, <4>1
    <3>8. Cardinality(held) = Cardinality(S) BY <3>6, <3>7, FS_Bijection
    <3>9. QED BY <3>2, <3>7, <3>8
  <2>3. QED BY <2>1, <2>2 DEF TableExact
<1>2. QED BY <1>1, Invariance, PTL

\* As long as that is so, the loop over popen_streams before the exec leaves a
\* command no end of an open stream but its own: no stream is kept from its
\* end of file by a command of another.
THEOREM OwnEnd == Spec => []OnlyOwnEnd
<1>1. IInv => OnlyOwnEnd BY DEF IInv
<1>2. QED BY <1>1, Invariance, PTL
=============================================================================
