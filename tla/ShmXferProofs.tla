--------------------------- MODULE ShmXferProofs ---------------------------
(* The hand-over of the buffer in ShmXfer, for any input, buffer size and  *)
(* number of runs, with failures and kills at any point; and, for a first  *)
(* run of each program, that it implements StreamCopy.                     *)
EXTENDS ShmXfer, SequenceTheorems, TLAPS

\* The buffer's token: in a semaphore, with the writer or with the reader.
Up(sem) == IF sem = 1 THEN 1 ELSE 0
Filling == IF wpc \in {"read", "post"} THEN 1 ELSE 0
Using   == IF rpc \in {"test", "write", "post"} THEN 1 ELSE 0

\* One token at most; it gets lost when a program dies with it.
TokenInv == Up(write_sem) + Up(read_sem) + Filling + Using <= 1

\* What exists under /dev/shm at each place of the two programs.
ObjectInv ==
  /\ read_sem # NoSem => write_sem # NoSem
  /\ write_sem # NoSem => shm = "sized"
  /\ wpc = "ftruncate" => shm # "none"
  /\ wpc = "open_write" => shm = "sized"
  /\ wpc = "open_read" => write_sem # NoSem
  /\ wpc \in {"wait", "read", "post", "test"} => read_sem # NoSem
  /\ rpc = "open_read" => write_sem # NoSem
  /\ rpc \in {"wait", "test", "write", "post"} => read_sem # NoSem

\* A buffer that was handed over holds cnt bytes: a failed read (-1) is
\* never handed over.
Filled == wpc = "post" \/ read_sem = 1 \/ Using = 1
FilledInv == Filled => cnt = Len(buf)

IInv == TypeOK /\ TokenInv /\ ObjectInv /\ FilledInv

USE XferAssumption DEF NoSem

LEMMA InitInv == Init => IInv
  BY DEF Init, IInv, TypeOK, TokenInv, ObjectInv, FilledInv, Filled, Up, Filling, Using, WPcs, RPcs, Off

\* Addition of two ints is an int again.
LEMMA AddIntType ==
  ASSUME NEW a \in -IntMax - 1 .. IntMax, NEW b \in 0 .. IntMax
  PROVE  AddInt(a, b) \in -IntMax - 1 .. IntMax
  BY DEF AddInt

\* A part of the input is a sequence of bytes of the expected length.
LEMMA PartOfInput ==
  ASSUME NEW p \in Nat, NEW n \in Nat, p + n <= Len(Input)
  PROVE  /\ SubSeq(Input, p + 1, p + n) \in Seq(Byte)
         /\ Len(SubSeq(Input, p + 1, p + n)) = n
<1>1. \A i \in p + 1 .. p + n : Input[i] \in Byte
  OBVIOUS
<1> QED
  BY <1>1, SubSeqProperties

\* Appending a part of the buffer to the output gives bytes again.
LEMMA OutputType ==
  ASSUME NEW o \in Seq(Byte), NEW b \in Seq(Byte), NEW n \in 0..Len(b)
  PROVE  o \o SubSeq(b, 1, n) \in Seq(Byte)
<1>1. SubSeq(b, 1, n) \in Seq(Byte)
  BY SubSeqProperties
<1> QED
  BY <1>1

LEMMA WriterInv ==
  ASSUME IInv, StartWriter \/ WriterStep \/ WReadFails \/ KillWriter
  PROVE  IInv'
<1> USE DEF IInv, TypeOK, TokenInv, ObjectInv, FilledInv, Filled, Up, Filling, Using,
            WPcs, RPcs, Off, objects, segment, wvars, rvars
<1>1. CASE StartWriter
  BY <1>1 DEF StartWriter
<1>2. CASE WShmOpen
  BY <1>2 DEF WShmOpen
<1>3. CASE WTruncate
  BY <1>3 DEF WTruncate
<1>4. CASE WOpenWriteSem
  BY <1>4 DEF WOpenWriteSem
<1>5. CASE WOpenReadSem
  BY <1>5 DEF WOpenReadSem
<1>6. CASE WWait
  BY <1>6 DEF WWait
<1>7. CASE WRead
  <2> PICK n \in 0..BufSize : /\ pos + n <= Len(Input)
                              /\ cnt' = n /\ buf' = SubSeq(Input, pos + 1, pos + n)
                              /\ pos' = pos + n
    BY <1>7 DEF WRead
  <2>1. buf' \in Seq(Byte) /\ Len(buf') = n
    BY PartOfInput
  <2> QED
    BY <1>7, <2>1 DEF WRead
<1>8. CASE WReadFails
  BY <1>8 DEF WReadFails
<1>9. CASE WPost
  BY <1>9 DEF WPost
<1>10. CASE WTest
  BY <1>10 DEF WTest
<1>11. CASE KillWriter
  BY <1>11 DEF KillWriter
<1> QED
  BY <1>1, <1>2, <1>3, <1>4, <1>5, <1>6, <1>7, <1>8, <1>9, <1>10, <1>11 DEF WriterStep

LEMMA ReaderInv ==
  ASSUME IInv, StartReader \/ ReaderStep \/ RWriteFails \/ KillReader
  PROVE  IInv'
<1> USE DEF IInv, TypeOK, TokenInv, ObjectInv, FilledInv, Filled, Up, Filling, Using,
            WPcs, RPcs, Off, objects, segment, wvars, rvars
<1>1. CASE StartReader
  BY <1>1 DEF StartReader
<1>2. CASE RShmOpen \/ ROpenWriteSem \/ ROpenReadSem
  <2>1. CASE RShmOpen
    BY <2>1 DEF RShmOpen, ROpen
  <2>2. CASE ROpenWriteSem
    BY <2>2 DEF ROpenWriteSem, ROpen
  <2>3. CASE ROpenReadSem
    BY <2>3 DEF ROpenReadSem, ROpen
  <2> QED
    BY <1>2, <2>1, <2>2, <2>3
<1>3. CASE RWait
  BY <1>3 DEF RWait
<1>4. CASE RTest
  <2>1. cnt \in 0..IntMax
    BY <1>4 DEF RTest
  <2>2. AddInt(bytes, cnt) \in -IntMax - 1 .. IntMax
    BY <2>1, AddIntType
  <2> QED
    BY <1>4, <2>2 DEF RTest
<1>5. CASE RWrite
  <2>1. out' \in Seq(Byte)
    BY <1>5, OutputType DEF RWrite
  <2> QED
    BY <1>5, <2>1 DEF RWrite
<1>6. CASE RWriteFails
  <2>1. out' \in Seq(Byte)
    BY <1>6, OutputType DEF RWriteFails
  <2> QED
    BY <1>6, <2>1 DEF RWriteFails
<1>7. CASE RPost
  <2>0. 1 \in 0..IntMax /\ xfrs \in -IntMax - 1 .. IntMax
    OBVIOUS
  <2>1. AddInt(xfrs, 1) \in -IntMax - 1 .. IntMax
    BY <2>0, AddIntType
  <2> QED
    BY <1>7, <2>1 DEF RPost
<1>8. CASE KillReader
  BY <1>8 DEF KillReader
<1> QED
  BY <1>1, <1>2, <1>3, <1>4, <1>5, <1>6, <1>7, <1>8 DEF ReaderStep

LEMMA NextInv ==
  ASSUME IInv, [Next]_vars
  PROVE  IInv'
<1>1. CASE Make
  BY <1>1 DEF Make, IInv, TypeOK, TokenInv, ObjectInv, FilledInv, Filled, Up, Filling,
              Using, WPcs, RPcs, Off, wvars, rvars
<1>2. CASE UNCHANGED vars
  BY <1>2 DEF vars, IInv, TypeOK, TokenInv, ObjectInv, FilledInv, Filled, Up, Filling,
              Using, objects, segment, wvars, rvars
<1> QED
  BY <1>1, <1>2, WriterInv, ReaderInv DEF Next

LEMMA Inductive == Spec => []IInv
  BY InitInv, NextInv, PTL DEF Spec

\* Every variable keeps its type; in particular both semaphores stay binary.
THEOREM TypeCorrect == Spec => []TypeOK
<1>1. IInv => TypeOK
  BY DEF IInv
<1> QED
  BY <1>1, Inductive, PTL

\* Writer and reader never own the buffer together, over any number of runs
\* in which programs fail or are killed while they own it.
THEOREM Exclusive == Spec => []ExclusiveBuffer
<1>1. IInv => ExclusiveBuffer
  BY DEF IInv, TypeOK, TokenInv, Up, Filling, Using, ExclusiveBuffer
<1> QED
  BY <1>1, Inductive, PTL

\* The reader touches its mapping only after the segment has its size.
THEOREM Sized == Spec => []SizedBeforeUse
<1>1. IInv => SizedBeforeUse
  BY DEF IInv, ObjectInv, SizedBeforeUse
<1> QED
  BY <1>1, Inductive, PTL

----------------------------------------------------------------------------
(* The totals the reader reports.                                          *)

IntRange == 2 * (IntMax + 1)

\* The int a is what is left of x after wrapping around.
Wraps(a, x) == \E q \in Int : a = x + q * IntRange

\* x transfers are complete and counted.  What bytes counts is written out
\* later, and xfrs counts a transfer later still; an empty one ends the stream.
Counted(x) ==
  /\ Wraps(xfrs, x)
  /\ Wraps(bytes, Len(out) + IF rpc = "write" THEN cnt ELSE 0)
  /\ LET y == IF rpc = "post" THEN x + 1 ELSE x
     IN  y <= Len(out) /\ Len(out) <= y * BufSize

TotalsInv == rpc # "failed" => (rpc = "write" => cnt > 0) /\ \E x \in Nat : Counted(x)

LEMMA WrapsAdd ==
  ASSUME NEW a \in Int, NEW x \in Int, NEW b \in Int, Wraps(a, x)
  PROVE  Wraps(AddInt(a, b), x + b)
<1>1. IntRange \in Int
  BY DEF IntRange
<1>2. PICK q \in Int : a = x + q * IntRange
  BY DEF Wraps
<1>3. AddInt(a, b) = a + b \/ AddInt(a, b) = a + b - IntRange
  BY DEF AddInt, IntRange
<1>4. CASE AddInt(a, b) = a + b
  BY <1>1, <1>2, <1>4 DEF Wraps
<1>5. CASE AddInt(a, b) = a + b - IntRange
  <2>1. AddInt(a, b) = (x + b) + (q - 1) * IntRange
    BY <1>1, <1>2, <1>5
  <2> QED
    BY <2>1 DEF Wraps
<1> QED
  BY <1>3, <1>4, <1>5

\* Taking an int modulo its range undoes the wrapping.
LEMMA WrapsMod ==
  ASSUME NEW a \in Int, NEW x \in Int, Wraps(a, x)
  PROVE  /\ (a - x) % IntRange = 0
         /\ 0 <= x /\ x < IntRange => a % IntRange = x
<1>1. IntRange \in Nat /\ IntRange > 0
  BY DEF IntRange
<1>2. PICK q \in Int : a = x + q * IntRange
  BY DEF Wraps
<1> HIDE DEF IntRange
<1>3. ASSUME NEW r \in Nat, r > 0
      PROVE  (q * r) % r = 0 /\ (0 <= x /\ x < r => (x + q * r) % r = x)
  BY <1>3, Z3
<1>4. a - x = q * IntRange
  BY <1>1, <1>2
<1> QED
  BY <1>1, <1>2, <1>3, <1>4

LEMMA InitTotals == Init => TotalsInv
<1> SUFFICES ASSUME Init PROVE Counted(0)
  BY DEF Init, TotalsInv
<1>1. Wraps(0, 0)
  <2>1. 0 = 0 + 0 * IntRange
    BY DEF IntRange
  <2> QED
    BY <2>1 DEF Wraps
<1> QED
  BY <1>1 DEF Init, Counted

LEMMA StepTotals ==
  ASSUME IInv, TotalsInv, [Next]_vars
  PROVE  TotalsInv'
<1> USE DEF objects, segment, wvars, rvars
<1>0. /\ bytes \in Int /\ xfrs \in Int /\ Len(out) \in Nat /\ cnt \in Int
      /\ Filled => cnt = Len(buf) /\ cnt \in 0..BufSize
  BY DEF IInv, TypeOK, FilledInv
<1>1. CASE StartReader
  <2>1. Wraps(0, 0)
    <3>1. 0 = 0 + 0 * IntRange
      BY DEF IntRange
    <3> QED
      BY <3>1 DEF Wraps
  <2>2. Counted(0)'
    BY <1>1, <2>1 DEF StartReader, Counted
  <2> QED
    BY <1>1, <2>2 DEF StartReader, TotalsInv
<1>2. ASSUME rpc' # "failed", rpc \notin {"write", "post"}, rpc' \notin {"write", "post"}, rpc # "failed",
             UNCHANGED <<bytes, xfrs, out>>
      PROVE  TotalsInv'
  BY <1>2 DEF TotalsInv, Counted
<1>3. CASE RShmOpen \/ ROpenWriteSem \/ ROpenReadSem
  <2>1. CASE rpc' = "failed"
    BY <2>1 DEF TotalsInv
  <2> QED
    BY <1>2, <1>3, <2>1 DEF RShmOpen, ROpenWriteSem, ROpenReadSem, ROpen
<1>4. CASE RWait
  BY <1>2, <1>4 DEF RWait
<1>5. CASE RTest
  <2>1. CASE cnt = 0
    BY <1>2, <1>5, <2>1 DEF RTest
  <2>2. CASE cnt # 0
    <3>1. PICK x \in Nat : Counted(x)
      BY <1>5 DEF RTest, TotalsInv
    <3>2. Wraps(AddInt(bytes, cnt), Len(out) + cnt)
      <4>1. Wraps(bytes, Len(out))
        BY <1>0, <1>5, <3>1 DEF RTest, Counted
      <4> QED
        BY <1>0, <4>1, WrapsAdd
    <3>3. cnt > 0
      BY <1>0, <1>5, <2>2 DEF RTest, Filled, Using
    <3>4. Counted(x)'
      BY <1>5, <2>2, <3>1, <3>2 DEF RTest, Counted
    <3> QED
      BY <1>5, <2>2, <3>3, <3>4 DEF RTest, TotalsInv
  <2> QED
    BY <2>1, <2>2
<1>6. CASE RWrite
  <2>1. PICK x \in Nat : Counted(x)
    BY <1>6 DEF RWrite, TotalsInv
  <2>2. cnt = Len(buf) /\ cnt \in 1..BufSize /\ buf \in Seq(Byte) /\ out \in Seq(Byte)
    BY <1>0, <1>6 DEF RWrite, TotalsInv, Filled, Using, IInv, TypeOK
  <2>3. Len(out') = Len(out) + cnt
    <3>1. SubSeq(buf, 1, cnt) \in Seq(Byte) /\ Len(SubSeq(buf, 1, cnt)) = cnt
      BY <2>2, SubSeqProperties
    <3> QED
      BY <1>6, <2>2, <3>1 DEF RWrite
  <2>4. x <= Len(out) /\ Len(out) <= x * BufSize /\ Wraps(xfrs, x) /\ Wraps(bytes, Len(out) + cnt)
    BY <1>6, <2>1 DEF RWrite, Counted
  <2>5. (x + 1) * BufSize = x * BufSize + BufSize /\ x * BufSize \in Nat
    OBVIOUS
  <2>6. x + 1 <= Len(out) + cnt /\ Len(out) + cnt <= (x + 1) * BufSize
    BY <1>0, <2>2, <2>4, <2>5
  <2>7. Counted(x)'
    BY <1>6, <2>3, <2>4, <2>6, <1>0, <2>2 DEF RWrite, Counted
  <2> QED
    BY <1>6, <2>7 DEF RWrite, TotalsInv
<1>7. CASE RPost
  <2>1. PICK x \in Nat : Counted(x)
    BY <1>7 DEF RPost, TotalsInv
  <2>2. Wraps(AddInt(xfrs, 1), x + 1)
    BY <1>0, <2>1, WrapsAdd DEF Counted
  <2>3. Counted(x + 1)'
    BY <1>7, <2>1, <2>2 DEF RPost, Counted
  <2> QED
    BY <1>7, <2>3 DEF RPost, TotalsInv
<1>8. CASE RWriteFails \/ KillReader
  BY <1>8 DEF RWriteFails, KillReader, TotalsInv
<1>9. ASSUME UNCHANGED rvars, rpc = "write" => UNCHANGED cnt
      PROVE  TotalsInv'
  BY <1>9 DEF TotalsInv, Counted
<1>10. CASE StartWriter \/ WriterStep \/ WReadFails \/ KillWriter \/ Make \/ UNCHANGED vars
  <2>1. rpc = "write" => wpc # "read" /\ rpc \notin Off
    BY DEF IInv, TokenInv, TypeOK, Up, Filling, Using, Off
  <2> QED
    BY <1>9, <1>10, <2>1
    DEF StartWriter, WriterStep, WShmOpen, WTruncate, WOpenWriteSem, WOpenReadSem, WWait,
        WRead, WPost, WTest, WReadFails, KillWriter, Make, vars
<1> QED
  BY <1>1, <1>3, <1>4, <1>5, <1>6, <1>7, <1>8, <1>10 DEF Next, ReaderStep

\* What a reader that has come to the end reports is right modulo the range of
\* an int: the bytes are those it wrote out, over any number of runs and of
\* failures before, and each transfer counted carried 1 to BUF_SIZE of them.
THEOREM Totals == Spec => []ReportedTotals
<1>1. IInv /\ TotalsInv => ReportedTotals
  <2> SUFFICES ASSUME IInv, TotalsInv, rpc = "done"
               PROVE  /\ (bytes - Len(out)) % IntRange = 0
                      /\ Len(out) < IntRange => /\ xfrs % IntRange <= Len(out)
                                             /\ Len(out) <= (xfrs % IntRange) * BufSize
    BY DEF ReportedTotals, IntRange
  <2>1. bytes \in Int /\ xfrs \in Int /\ Len(out) \in Nat /\ IntRange \in Int
    BY DEF IInv, TypeOK, IntRange
  <2>2. PICK x \in Nat : Wraps(xfrs, x) /\ Wraps(bytes, Len(out)) /\ x <= Len(out) /\ Len(out) <= x * BufSize
    BY <2>1 DEF TotalsInv, Counted
  <2>3. (bytes - Len(out)) % IntRange = 0
    BY <2>1, <2>2, WrapsMod
  <2>4. Len(out) < IntRange => xfrs % IntRange = x
    <3>1. Len(out) < IntRange => 0 <= x /\ x < IntRange
      BY <2>1, <2>2
    <3> QED
      BY <2>1, <2>2, <3>1, WrapsMod
  <2> QED
    BY <2>2, <2>3, <2>4
<1> QED
  BY <1>1, InitTotals, StepTotals, Inductive, PTL DEF Spec

----------------------------------------------------------------------------
(* A first run of each program implements StreamCopy.                      *)

FirstRun == MaxRuns = 1

Running == rpc \notin {"failed", "done"}

\* Before the writer has created a semaphore, no reader has got past it.
FirstInv ==
  /\ rpc # "off" => rruns = 1
  /\ wpc # "off" => wruns = 1
  /\ wpc \in {"off", "shm_open", "ftruncate", "open_write"} =>
       write_sem = NoSem /\ rpc \in {"off", "shm_open", "open_write", "failed"}
  /\ wpc = "open_read" =>
       read_sem = NoSem /\ rpc \in {"off", "shm_open", "open_write", "open_read", "failed"}
  /\ wpc \in {"off", "shm_open", "ftruncate", "open_write", "open_read"} => pos = 0
  /\ rpc \in {"off", "shm_open", "open_write", "open_read"} => out = <<>>

\* Where the stream is cut: the output is the input up to Len(out), a full
\* buffer continues it, and an empty one leaves nothing between.
StreamInv ==
  /\ Len(out) <= Len(Input) /\ out = SubSeq(Input, 1, Len(out))
  /\ Running /\ rpc # "post" /\ Filled =>
       /\ pos = Len(out) + cnt
       /\ buf = SubSeq(Input, Len(out) + 1, Len(out) + cnt)
       /\ cnt = 0 => Len(out) = Len(Input)
  /\ Running /\ (write_sem = 1 \/ wpc = "read" \/ rpc = "post") => pos = Len(out)
  /\ rpc = "write" => cnt # 0

XInv == IInv /\ FirstInv /\ StreamInv

LEMMA InitXInv == Init => XInv
<1> SUFFICES ASSUME Init PROVE XInv
  OBVIOUS
<1>1. SubSeq(Input, 1, 0) = <<>>
  BY SubSeqEmpty
<1>2. FirstInv /\ StreamInv
  BY <1>1 DEF Init, FirstInv, StreamInv, Running, Filled, Using
<1> QED
  BY <1>2, InitInv DEF XInv

\* The token excludes the other three places it could be in.
TokenPlaces ==
  /\ wpc = "read" => ~Filled /\ write_sem # 1 /\ Using = 0
  /\ write_sem = 1 => ~Filled /\ wpc # "read" /\ Using = 0
  /\ wpc = "post" => read_sem # 1 /\ write_sem # 1 /\ Using = 0
  /\ read_sem = 1 => wpc \notin {"read", "post"} /\ write_sem # 1 /\ Using = 0
  /\ Using = 1 => wpc \notin {"read", "post"} /\ write_sem # 1 /\ read_sem # 1

LEMMA TokenFacts == IInv => TokenPlaces
  BY DEF IInv, TypeOK, TokenInv, TokenPlaces, Filled, Up, Filling, Using

\* A filled buffer never carries the -1 of a failed read.
LEMMA FilledCnt == IInv /\ Filled => cnt \in Nat
  BY DEF IInv, TypeOK, FilledInv

\* The few types the steps below need.
LEMMA TypeFacts ==
  IInv => /\ wruns \in 0..MaxRuns /\ rruns \in 0..MaxRuns
          /\ write_sem \in {NoSem, 0, 1} /\ read_sem \in {NoSem, 0, 1}
          /\ cnt \in -1..BufSize /\ pos \in 0..Len(Input) /\ Len(out) \in Nat
          /\ wpc \in WPcs /\ rpc \in RPcs
  BY DEF IInv, TypeOK

\* Writing a part of a full buffer extends the output along the input.
LEMMA Extends ==
  ASSUME XInv, rpc = "write", NEW n \in 0..cnt
  PROVE  /\ out \o SubSeq(buf, 1, n) = SubSeq(Input, 1, Len(out) + n)
         /\ Len(out) + n <= Len(Input)
         /\ Len(out \o SubSeq(buf, 1, n)) = Len(out) + n
<1> DEFINE k == Len(out)
<1>0. Running /\ rpc # "post" /\ Filled
  BY DEF Running, Filled, Using
<1>1. /\ k \in Nat /\ k + cnt <= Len(Input) /\ cnt \in Nat /\ Len(Input) \in Nat
      /\ out = SubSeq(Input, 1, k)
      /\ buf = SubSeq(Input, k + 1, k + cnt)
  <2>1. cnt \in Nat /\ k \in Nat /\ pos \in 0..Len(Input) /\ Len(Input) \in Nat
    BY <1>0 DEF XInv, IInv, TypeOK, FilledInv
  <2>2. pos = k + cnt /\ out = SubSeq(Input, 1, k) /\ buf = SubSeq(Input, k + 1, k + cnt)
    BY <1>0 DEF XInv, StreamInv
  <2> HIDE DEF k
  <2> QED
    BY <2>1, <2>2
<1> HIDE DEF k
<1>2. SubSeq(buf, 1, n) = SubSeq(Input, k + 1, k + n)
  <2>1. CASE n = 0
    BY <1>1, <2>1, SubSeqEmpty
  <2>2. CASE n # 0
    <3>1. k + 1 \in 1..Len(Input) /\ k + cnt \in 1..Len(Input)
      BY <1>1, <2>2
    <3>2. 1 \in 1..((k + cnt) - (k + 1) + 1) /\ n \in 1..((k + cnt) - (k + 1) + 1)
      BY <1>1, <2>2
    <3>3. \A s, t \in Seq(Byte) : \A i, j \in 1..Len(s) : \A a, b \in 1..(j - i + 1) :
            SubSeq(SubSeq(s, i, j), a, b) = SubSeq(s, i + a - 1, i + b - 1)
      BY SubSeqOfSubSeq
    <3>4. SubSeq(SubSeq(Input, k + 1, k + cnt), 1, n)
            = SubSeq(Input, (k + 1) + 1 - 1, (k + 1) + n - 1)
      BY <3>1, <3>2, <3>3
    <3>5. (k + 1) + 1 - 1 = k + 1 /\ (k + 1) + n - 1 = k + n
      BY <1>1
    <3> QED
      BY <1>1, <3>4, <3>5
  <2> QED
    BY <2>1, <2>2
<1>3. SubSeq(Input, 1, k) \o SubSeq(Input, k + 1, k + n) = SubSeq(Input, 1, k + n)
  <2>1. 1 \in 1..(Len(Input) + 1) /\ k \in (1 - 1)..Len(Input) /\ k + n \in k..Len(Input)
    BY <1>1
  <2> QED
    BY <2>1, ConcatAdjacentSubSeq
<1>4. out \o SubSeq(buf, 1, n) = SubSeq(Input, 1, k + n)
  BY <1>1, <1>2, <1>3
<1>5. k + n <= Len(Input) /\ k + n \in Nat
  BY <1>1
<1>6. Len(SubSeq(Input, 1, k + n)) = k + n
  BY <1>5, PartOfInput, 0 + 1 = 1, 0 + (k + n) = k + n
<1> QED
  BY <1>4, <1>5, <1>6 DEF k

LEMMA WriterXInv ==
  ASSUME FirstRun, XInv, StartWriter \/ WriterStep \/ WReadFails \/ KillWriter
  PROVE  XInv'
<1>0. IInv' /\ FirstInv /\ StreamInv
  BY WriterInv DEF XInv
<1>t. /\ wruns \in 0..MaxRuns /\ write_sem \in {NoSem, 0, 1} /\ wpc \in WPcs
      /\ Len(out) \in Nat /\ Len(Input) \in Nat
  BY TypeFacts DEF XInv
<1>k. TokenPlaces
  BY TokenFacts DEF XInv
<1> SUFFICES FirstInv' /\ StreamInv'
  BY <1>0 DEF XInv
<1> USE DEF FirstRun, FirstInv, StreamInv, Running, Filled, Using, objects, segment, rvars
<1>1. CASE StartWriter
  <2>1. wpc = "off"
    BY <1>0, <1>1, <1>t DEF StartWriter
  <2>2. pos' = pos /\ wruns' = 1 /\ wpc' = "shm_open"
    BY <1>0, <1>1, <1>t, <2>1 DEF StartWriter
  <2> QED
    BY <1>0, <1>1, <2>1, <2>2 DEF StartWriter
<1>2. CASE WShmOpen
  BY <1>0, <1>2 DEF WShmOpen
<1>3. CASE WTruncate
  BY <1>0, <1>3 DEF WTruncate
<1>4. CASE WOpenWriteSem
  <2>1. pos = 0 /\ (Running => out = <<>>) /\ ~(wpc = "read")
    BY <1>0, <1>4 DEF WOpenWriteSem
  <2>2. read_sem = NoSem
    BY <1>0, <1>4 DEF WOpenWriteSem, XInv, IInv, ObjectInv
  <2> QED
    BY <1>0, <1>4, <2>1, <2>2 DEF WOpenWriteSem
<1>5. CASE WOpenReadSem
  BY <1>0, <1>5 DEF WOpenReadSem
<1>6. CASE WWait
  <2>1. write_sem = 1 /\ write_sem' = 0
    BY <1>6, <1>t DEF WWait
  <2> QED
    BY <1>0, <1>6, <2>1 DEF WWait
<1>7. CASE WRead
  <2> PICK n \in 0..BufSize : /\ pos + n <= Len(Input) /\ (n = 0 <=> pos = Len(Input))
                              /\ cnt' = n /\ buf' = SubSeq(Input, pos + 1, pos + n)
                              /\ pos' = pos + n
    BY <1>7 DEF WRead
  <2>1. wpc = "read" /\ ~Filled /\ write_sem # 1 /\ Using = 0
    BY <1>7, <1>k DEF WRead, TokenPlaces
  <2>2. FirstInv'
    BY <1>0, <1>7 DEF WRead
  <2>3. Running => pos = Len(out)
    BY <1>0, <2>1
  <2>4. StreamInv'
    BY <1>0, <1>7, <1>t, <2>1, <2>3 DEF WRead
  <2> QED
    BY <2>2, <2>4
<1>8. CASE WReadFails
  <2>1. wpc = "read" /\ ~Filled /\ write_sem # 1 /\ Using = 0
    BY <1>8, <1>k DEF WReadFails, TokenPlaces
  <2> QED
    BY <1>0, <1>8, <2>1 DEF WReadFails
<1>9. CASE WPost
  <2>1. wpc = "post" /\ Filled /\ write_sem # 1 /\ Using = 0
    BY <1>9, <1>k DEF WPost, TokenPlaces
  <2> QED
    BY <1>0, <1>9, <2>1 DEF WPost
<1>10. CASE WTest
  BY <1>0, <1>10 DEF WTest
<1>11. CASE KillWriter
  BY <1>0, <1>11, <1>t DEF KillWriter, WPcs, Off
<1> QED
  BY <1>1, <1>2, <1>3, <1>4, <1>5, <1>6, <1>7, <1>8, <1>9, <1>10, <1>11 DEF WriterStep

LEMMA ReaderXInv ==
  ASSUME FirstRun, XInv, StartReader \/ ReaderStep \/ RWriteFails \/ KillReader
  PROVE  XInv'
<1>0. IInv' /\ FirstInv /\ StreamInv
  BY ReaderInv DEF XInv
<1>t. /\ rruns \in 0..MaxRuns /\ read_sem \in {NoSem, 0, 1} /\ cnt \in -1..BufSize
      /\ rpc \in RPcs /\ Len(out) \in Nat /\ Len(Input) \in Nat
      /\ pos \in 0..Len(Input)
  BY TypeFacts DEF XInv
<1>k. TokenPlaces
  BY TokenFacts DEF XInv
<1>o. ObjectInv
  BY DEF XInv, IInv
<1> SUFFICES FirstInv' /\ StreamInv'
  BY <1>0 DEF XInv
<1> USE DEF FirstRun, FirstInv, StreamInv, Running, Filled, Using, objects, segment, wvars
<1>1. CASE StartReader
  <2>0. rruns = 0
    BY <1>1, <1>t DEF StartReader
  <2>1. rpc = "off"
    BY <1>0, <2>0
  <2>2. out' = out /\ rruns' = 1
    BY <1>0, <1>1, <2>0, <2>1 DEF StartReader
  <2> QED
    BY <1>0, <1>1, <2>1, <2>2 DEF StartReader
<1>2. CASE RShmOpen
  BY <1>0, <1>2 DEF RShmOpen, ROpen
<1>3. CASE ROpenWriteSem
  BY <1>0, <1>3 DEF ROpenWriteSem, ROpen
<1>4. CASE ROpenReadSem
  BY <1>0, <1>4, <1>o DEF ROpenReadSem, ROpen, ObjectInv
<1>5. CASE RWait
  <2>1. read_sem = 1 /\ read_sem' = 0
    BY <1>5, <1>t DEF RWait
  <2> QED
    BY <1>0, <1>5, <1>k, <2>1 DEF RWait, TokenPlaces
<1>6. CASE RTest
  BY <1>0, <1>6, <1>k DEF RTest, TokenPlaces
<1>7. CASE RWrite
  <2>0. Filled /\ wpc \notin {"read", "post"}
    BY <1>7, <1>k DEF RWrite, TokenPlaces
  <2>1. cnt \in 0..cnt /\ Filled /\ wpc \notin {"read", "post"}
    <3>1. cnt \in Nat
      <4> HIDE DEF StreamInv, FirstInv, Filled
      <4> QED
        BY <2>0, FilledCnt DEF XInv
    <3> QED
      BY <2>0, <3>1
  <2>2. /\ out' = SubSeq(Input, 1, Len(out) + cnt)
        /\ Len(out) + cnt <= Len(Input) /\ Len(out') = Len(out) + cnt
    BY <1>7, <2>1, Extends DEF RWrite
  <2>3. pos = Len(out) + cnt
    BY <1>0, <1>7, <2>1 DEF RWrite
  <2>4. Len(out') <= Len(Input) /\ out' = SubSeq(Input, 1, Len(out')) /\ pos' = Len(out')
    BY <1>7, <2>2, <2>3 DEF RWrite
  <2> QED
    BY <1>0, <1>7, <2>1, <2>4 DEF RWrite
<1>8. CASE RWriteFails
  <2> PICK n \in 0..BufSize : n < cnt /\ out' = out \o SubSeq(buf, 1, n)
    BY <1>8 DEF RWriteFails
  <2>1. n \in 0..cnt /\ rpc = "write"
    BY <1>8, <1>t DEF RWriteFails
  <2>2. /\ out' = SubSeq(Input, 1, Len(out) + n)
        /\ Len(out) + n <= Len(Input) /\ Len(out') = Len(out) + n
    BY <2>1, Extends
  <2> QED
    BY <1>0, <1>8, <2>1, <2>2 DEF RWriteFails
<1>9. CASE RPost
  BY <1>0, <1>9, <1>k DEF RPost, TokenPlaces
<1>10. CASE KillReader
  BY <1>0, <1>10 DEF KillReader, Off
<1> QED
  BY <1>1, <1>2, <1>3, <1>4, <1>5, <1>6, <1>7, <1>8, <1>9, <1>10 DEF ReaderStep

LEMMA NextXInv ==
  ASSUME FirstRun, XInv, [Next]_vars
  PROVE  XInv'
<1>0. IInv' /\ FirstInv /\ StreamInv
  BY NextInv DEF XInv
<1>1. CASE Make
  <2>1. wpc \in Off /\ rpc \in Off /\ write_sem' = NoSem /\ read_sem' = NoSem
    BY <1>1 DEF Make
  <2>2. FirstInv'
    BY <1>0, <1>1, <2>1 DEF Make, FirstInv, Off, wvars, rvars
  <2>3. StreamInv'
    BY <1>0, <1>1, <2>1 DEF Make, StreamInv, Running, Filled, Using, Off, wvars, rvars
  <2> QED
    BY <1>0, <2>2, <2>3 DEF XInv
<1>2. CASE UNCHANGED vars
  BY <1>0, <1>2 DEF vars, XInv, FirstInv, StreamInv, Running, Filled, Using, objects,
                    segment, wvars, rvars
<1> QED
  BY <1>1, <1>2, WriterXInv, ReaderXInv DEF Next

\* Every step of a first run is a step of StreamCopy or changes nothing
\* there.
LEMMA StepRefines ==
  ASSUME FirstRun, XInv, [Next]_vars
  PROVE  [Copy!Next]_Copy!vars
<1> USE DEF Copy!vars
<1>t. /\ rruns \in 0..MaxRuns /\ cnt \in -1..BufSize /\ Len(out) \in Nat
      /\ rpc # "off" => rruns = 1
  BY TypeFacts DEF XInv, FirstInv
<1>1. CASE StartReader
  <2>1. rpc = "off" /\ out = <<>>
    BY <1>1, <1>t DEF StartReader, FirstRun, XInv, FirstInv
  <2> QED
    BY <1>1, <2>1 DEF StartReader
<1>2. CASE RTest
  <2>1. CASE cnt = 0
    <3>1. Running /\ rpc # "post" /\ Filled
      BY <1>2 DEF RTest, Running, Filled, Using
    <3>2. Len(out) = Len(Input) /\ out = SubSeq(Input, 1, Len(out))
      BY <2>1, <3>1 DEF XInv, StreamInv
    <3>3. out = Input
      BY <3>2, SubSeqFull
    <3> QED
      BY <1>2, <2>1, <3>3 DEF RTest, Copy!Next, Copy!Finish
  <2>2. CASE cnt # 0
    BY <1>2, <2>2 DEF RTest
  <2> QED
    BY <2>1, <2>2
<1>3. ASSUME rpc = "write", rpc' # "done", NEW n \in 0..cnt, n <= BufSize,
             out' = out \o SubSeq(buf, 1, n)
      PROVE  Copy!Next \/ UNCHANGED Copy!vars
  <2>1. out' = SubSeq(Input, 1, Len(out) + n) /\ Len(out) + n <= Len(Input)
    BY <1>3, Extends
  <2>2. CASE n = 0
    <3>1. out' = out
      BY <2>1, <2>2, <1>t DEF XInv, StreamInv
    <3> QED
      BY <1>3, <3>1
  <2>3. CASE n # 0
    <3>1. n \in 1..BufSize
      BY <1>3, <1>t, <2>3
    <3>2. Copy!Deliver
      BY <1>3, <2>1, <3>1 DEF Copy!Deliver
    <3> QED
      BY <3>2 DEF Copy!Next
  <2> QED
    BY <2>2, <2>3
<1>4. CASE RWrite
  <2>1. cnt \in 0..cnt /\ cnt <= BufSize
    BY <1>4, <1>t DEF RWrite, XInv, IInv, TypeOK, FilledInv, Filled, Using
  <2> QED
    BY <1>3, <1>4, <2>1 DEF RWrite
<1>5. CASE RWriteFails
  <2> PICK n \in 0..BufSize : n < cnt /\ out' = out \o SubSeq(buf, 1, n)
    BY <1>5 DEF RWriteFails
  <2>1. n \in 0..cnt /\ n <= BufSize
    BY <1>t
  <2> QED
    BY <1>3, <1>5, <2>1 DEF RWriteFails
<1>6. CASE RShmOpen \/ ROpenWriteSem \/ ROpenReadSem \/ RWait \/ RPost \/ KillReader
  BY <1>6 DEF RShmOpen, ROpenWriteSem, ROpenReadSem, ROpen, RWait, RPost, KillReader, Off
<1>7. CASE StartWriter \/ WriterStep \/ WReadFails \/ KillWriter \/ Make \/ UNCHANGED vars
  <2>1. UNCHANGED rvars
    BY <1>7 DEF StartWriter, WriterStep, WReadFails, KillWriter, Make, vars, WShmOpen,
                WTruncate, WOpenWriteSem, WOpenReadSem, WWait, WRead, WPost, WTest
  <2> QED
    BY <2>1 DEF rvars
<1> QED
  BY <1>1, <1>2, <1>4, <1>5, <1>6, <1>7 DEF Next, ReaderStep

\* A first run of writer and reader implements the abstract copy, whatever
\* fails and whoever is killed: the output is always a prefix of the input
\* and success is reported for the whole input only.
THEOREM ImplementsCopy == ASSUME FirstRun PROVE Spec => CopySpec
<1>1. Init => Copy!Init
  BY DEF Init, Copy!Init
<1>2. Spec => []XInv
  BY InitXInv, NextXInv, PTL DEF Spec
<1> QED
  BY <1>1, <1>2, StepRefines, PTL DEF Spec, CopySpec, Copy!Spec
=============================================================================
