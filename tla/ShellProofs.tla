---------------------------- MODULE ShellProofs ----------------------------
(***************************************************************************)
(* Safety of the two shells, for any scripts, programs and number of       *)
(* processes: what a program finds among its arguments and among its       *)
(* descriptors, and that the shell has waited for its own foreground child *)
(* at the prompt.                                                          *)
(***************************************************************************)
EXTENDS Shell, SequenceTheorems, WellFoundedInduction, TLAPS

Word    == STRING \cup {"junk"}
Argv    == Seq(Word)
Streams == Pids \cup {Tty, File}
Pcs     == {"free", "child", "pipe", "left", "right", "run", "dead", "reaped"}
Recs    == [pc : Pcs, argv : Argv, line : Argv, in : Streams, out : Streams,
            ends : SUBSET UNION {Pipe(q) : q \in Pids},
            parent : Pids \cup {Sh}, bg : BOOLEAN]

Absent(s, w) == \A k \in 1..Len(s) : s[k] # w

\* The ends behind the standard input and output of a process.
Reads(r)  == {<<"r", k>> : k \in {r.in} \cap Pids}
Writes(r) == {<<"w", k>> : k \in {r.out} \cap Pids}

BasicType ==
  /\ edition \in Editions /\ input \in Argv /\ argv \in Argv
  /\ sh \in {"prompt", "dispatch", "wait", "exit", "crash"}
  /\ child \in Pids \cup {Sh} /\ cwd \in Dirs \cup {"home"}
  /\ sh = "dispatch" => argv # <<>>
  /\ sh = "wait" => child \in Pids
  /\ procs \in [Pids -> Recs]

\* What each process has at its place: only the exec of a left side changes
\* standard output, so that everybody before it still has what the shell gave.
ProcOK(p, r) ==
  /\ r.parent # p
  /\ r.pc = "free" => r.parent = Sh
  /\ r.pc = "child" => r.in = Tty /\ r.ends = {} /\ r.parent = Sh /\ r.argv # <<>>
  /\ r.pc \in {"child", "pipe", "left", "right"} => r.out \in {Tty, File}
  /\ r.pc \in {"pipe", "left", "run"} =>
       IF r.parent = Sh THEN r.in \in {Tty, File} ELSE r.in = r.parent
  /\ r.pc = "pipe" => r.ends = Reads(r)
  /\ r.pc = "left" => r.ends = Reads(r) \cup Pipe(p)
  /\ r.pc = "right" => r.parent # Sh /\ r.ends = Reads(r) \cup Pipe(r.parent)
  /\ r.pc = "run" => r.ends = Reads(r) \cup Writes(r)

WordsOK(r) ==
  r.pc \in {"pipe", "left", "right", "run"} => \A w \in Removed(edition) : Absent(r.argv, w)

\* A process that another one was forked from is the left side of its pipe.
Writer(q, r) == r.pc \in {"left", "dead", "reaped"} \/ (r.pc = "run" /\ r.out = q)
TreeInv == \A p \in Pids : LET q == procs[p].parent IN q # Sh => Writer(q, procs[q])

ProcInv == \A p \in Pids : ProcOK(p, procs[p]) /\ WordsOK(procs[p])

\* The only foreground process of the shell is the one it waits for.
WaitInv ==
  \A p \in Pids : procs[p].parent = Sh /\ procs[p].pc \notin {"free", "reaped"} =>
    procs[p].bg \/ (sh = "wait" /\ p = child)

IInv == BasicType /\ ProcInv /\ TreeInv /\ WaitInv

\* Where the words of its line are, at each place of a process.  On a tidy line
\* only a child of the shell meets a pipe.
OwnOK(r) ==
  LET s     == Own(edition, r.line, r.parent = Sh)
      piped == Piped(edition, r.line)
  IN  /\ r.pc = "child" => r.argv = r.line
      /\ r.pc \in {"pipe", "left", "right"} => edition = "HW5"
      /\ Tidy(edition, r.line) =>
           /\ r.pc = "pipe" => IF r.parent = Sh THEN r.argv = Bare(edition, r.line)
                                                ELSE piped /\ r.argv = s
           /\ r.pc = "left" => r.parent = Sh /\ piped /\ r.argv = s
           /\ r.pc = "right" => r.parent # Sh /\ piped /\ r.argv = s
           /\ r.pc = "run" => r.argv = s \/ (piped /\ r.argv = Append(s, "junk"))

OwnInv == \A p \in Pids : OwnOK(procs[p])

----------------------------------------------------------------------------
(* Sequences of words.                                                     *)

\* A set of numbers has a least one.
LEMMA Least ==
  ASSUME NEW S \in SUBSET Nat, S # {}
  PROVE  \E x \in S : \A y \in S : x <= y
<1> DEFINE R == OpToRel(<, Nat)
<1>1. \A i, j \in Nat : j < i => <<j, i>> \in R
  BY DEF OpToRel
<1>2. IsWellFoundedOn(R, Nat)
  BY NatLessThanWellFounded
<1> HIDE DEF R
<1>3. \E i \in S : \A j \in S : ~(<<j, i>> \in R)
  BY <1>2, WFMin
<1>4. PICK i \in S : \A j \in S : ~(<<j, i>> \in R)
  BY <1>3
<1>5. \A j \in S : ~(j < i)
  BY <1>1, <1>4, Zenon
<1> QED
  BY <1>5

\* Pos is the first place of a word, or 0 for a word that is absent.
LEMMA PosFacts ==
  ASSUME NEW T, NEW s \in Seq(T), NEW w
  PROVE  /\ Pos(s, w) = 0 <=> Absent(s, w)
         /\ Pos(s, w) \in 0..Len(s)
         /\ Pos(s, w) # 0 => /\ s[Pos(s, w)] = w
                             /\ \A k \in 1..Len(s) : k < Pos(s, w) => s[k] # w
<1> DEFINE I == {k \in 1..Len(s) : s[k] = w}
<1>1. Pos(s, w) = IF I # {} THEN CHOOSE x \in I : \A y \in I : x <= y ELSE 0
  BY DEF Pos, SelectInSeq, Min
<1>2. I \in SUBSET Nat /\ Len(s) \in Nat
  OBVIOUS
<1>3. CASE I # {}
  <2>1. \E x \in I : \A y \in I : x <= y
    <3> HIDE DEF I
    <3> QED
      BY <1>2, <1>3, Least
  <2>2. PICK x \in I : Pos(s, w) = x /\ \A y \in I : x <= y
    BY <1>1, <1>3, <2>1
  <2> QED
    BY <1>2, <2>2 DEF Absent
<1>4. CASE I = {}
  BY <1>1, <1>2, <1>4 DEF Absent
<1> QED
  BY <1>3, <1>4

\* The words before and behind a place are words of the vector.
LEMMA Parts ==
  ASSUME NEW s \in Argv, NEW k \in 1..Len(s)
  PROVE  /\ Before(s, k) \in Argv /\ After(s, k) \in Argv
         /\ \A w : Absent(s, w) => Absent(Before(s, k), w) /\ Absent(After(s, k), w)
         /\ \A w : (\A i \in 1..Len(s) : i < k => s[i] # w) => Absent(Before(s, k), w)
         /\ Len(After(s, k)) = Len(s) - k
         /\ \A i \in 1..Len(s) - k : After(s, k)[i] = s[k + i]
         /\ Len(Before(s, k)) = k - 1 /\ \A i \in 1..k - 1 : Before(s, k)[i] = s[i]
<1>1. Len(s) \in Nat /\ k \in Nat /\ k <= Len(s) /\ \A i \in 1..Len(s) : s[i] \in Word
  BY DEF Argv
<1>2. /\ Before(s, k) \in Argv /\ Len(Before(s, k)) = k - 1
      /\ \A i \in 1..k - 1 : Before(s, k)[i] = s[i]
  <2>1. \A i \in 1..k - 1 : s[i] \in Word
    BY <1>1
  <2> QED
    BY <1>1, <2>1, SubSeqProperties DEF Before, Argv
<1>3. /\ After(s, k) \in Argv /\ Len(After(s, k)) = Len(s) - k
      /\ \A i \in 1..Len(s) - k : After(s, k)[i] = s[k + i]
  <2>1. \A i \in k + 1..Len(s) : s[i] \in Word
    BY <1>1
  <2>2. /\ SubSeq(s, k + 1, Len(s)) \in Seq(Word)
        /\ Len(SubSeq(s, k + 1, Len(s))) = Len(s) - k
        /\ \A i \in 1..Len(s) - k : SubSeq(s, k + 1, Len(s))[i] = s[k + i]
    BY <1>1, <2>1, SubSeqProperties DEF Argv
  <2> QED
    BY <2>2 DEF After, Argv
<1>4. \A i \in 1..k - 1 : i \in 1..Len(s) /\ i < k
  BY <1>1
<1>5. \A i \in 1..Len(s) - k : k + i \in 1..Len(s)
  BY <1>1
<1> QED
  BY <1>2, <1>3, <1>4, <1>5 DEF Absent

\* What is left of a vector cut at the first place of a word has not the word.
LEMMA CutAt ==
  ASSUME NEW s \in Argv, NEW w, Pos(s, w) # 0
  PROVE  Pos(s, w) \in 1..Len(s) /\ Absent(Before(s, Pos(s, w)), w)
<1>1. Pos(s, w) \in 1..Len(s)
  BY PosFacts DEF Argv
<1> QED
  BY <1>1, PosFacts, Parts DEF Argv

\* What execvp may find in place of a vector has no operator in it either.
LEMMA VectorWords ==
  ASSUME NEW s \in Argv, NEW v \in Vector(s)
  PROVE  v \in Argv /\ \A w : w # "junk" /\ Absent(s, w) => Absent(v, w)
<1>0. "junk" \in Word
  BY DEF Word
<1>1. Append(s, "junk") \in Argv
  BY <1>0 DEF Argv
<1>2. \A w : w # "junk" /\ Absent(s, w) => Absent(Append(s, "junk"), w)
  BY DEF Argv, Absent
<1>3. <<>> \in Argv /\ \A w : Absent(<<>>, w)
  BY DEF Argv, Absent
<1> QED
  BY <1>1, <1>2, <1>3 DEF Vector

\* Cutting a line into words gives a vector of words.
LEMMA WordsType ==
  ASSUME NEW line \in Argv PROVE Words(line) \in Argv
<1> DEFINE N == Len(line)
           blank == {" ", "\n"}
           Builds(f, m) ==
             /\ f \in [0..m -> Argv] /\ f[0] = <<>>
             /\ \A k \in 1..m :
                  f[k] = IF line[k] \in blank THEN f[k - 1] ELSE Append(f[k - 1], line[k])
           Bad == {m \in 0..N : ~\E f : Builds(f, m)}
<1>0. N \in Nat /\ \A k \in 1..N : line[k] \in Word
  BY DEF Argv
<1>1. PICK f : Builds(f, N)
  <2> HIDE DEF Builds
  <2>1. SUFFICES ASSUME Bad # {} PROVE FALSE
    BY <1>0
  <2>2. Bad \in SUBSET Nat
    BY <1>0
  <2>3. PICK m \in Bad : \A k \in Bad : m <= k
    <3> HIDE DEF Bad
    <3> QED
      BY <2>1, <2>2, Least
  <2>4. m # 0
    <3> DEFINE e == [k \in 0..0 |-> <<>>]
    <3>1. e \in [0..0 -> Argv] /\ e[0] = <<>>
      BY DEF Argv
    <3>2. 1..0 = {}
      OBVIOUS
    <3> HIDE DEF e
    <3>3. Builds(e, 0)
      BY <3>1, <3>2 DEF Builds
    <3> QED
      BY <3>3
  <2>5. m - 1 \in 0..N /\ m - 1 \notin Bad /\ m \in 1..N /\ m \in Nat
    <3>1. m \in 0..N
      OBVIOUS
    <3> HIDE DEF Bad
    <3>2. m - 1 \in 0..N /\ m \in 1..N /\ m \in Nat /\ ~(m <= m - 1)
      BY <1>0, <2>4, <3>1
    <3> QED
      BY <2>3, <3>2
  <2>6. PICK g : Builds(g, m - 1)
    BY <2>5
  <2> DEFINE last == IF line[m] \in blank THEN g[m - 1] ELSE Append(g[m - 1], line[m])
             h == [k \in 0..m |-> IF k = m THEN last ELSE g[k]]
  <2> HIDE DEF blank
  <2>7. g[m - 1] \in Argv /\ line[m] \in Word
    BY <1>0, <2>5, <2>6 DEF Builds
  <2>8. last \in Argv
    BY <2>7 DEF Argv
  <2>9. \A k \in 0..m : k # m => k \in 0..m - 1
    BY <2>5
  <2>10. h \in [0..m -> Argv] /\ h[0] = <<>>
    <3> HIDE DEF last
    <3>1. \A k \in 0..m : k # m => g[k] \in Argv
      BY <2>6, <2>9 DEF Builds
    <3> QED
      BY <2>4, <2>5, <2>6, <2>8, <3>1 DEF Builds
  <2>11. ASSUME NEW k \in 1..m
         PROVE  h[k] = IF line[k] \in blank THEN h[k - 1] ELSE Append(h[k - 1], line[k])
    <3>1. k \in 0..m /\ k - 1 \in 0..m /\ k - 1 # m
      BY <2>5
    <3>2. h[k - 1] = g[k - 1]
      BY <3>1
    <3>3. CASE k = m
      <4>1. h[k] = last
        BY <3>1, <3>3
      <4> HIDE DEF h
      <4> QED
        BY <3>2, <3>3, <4>1
    <3>4. CASE k # m
      <4>1. h[k] = g[k] /\ k \in 1..m - 1
        BY <2>5, <3>1, <3>4
      <4> HIDE DEF h
      <4> QED
        BY <2>6, <3>2, <4>1 DEF Builds
    <3> QED
      BY <3>3, <3>4
  <2>12. Builds(h, m)
    <3> HIDE DEF h
    <3> QED
      BY <2>10, <2>11 DEF Builds
  <2> QED
    BY <2>3, <2>12
<1> DEFINE words == CHOOSE x : x = [k \in 0..N |->
                      IF k = 0 THEN <<>>
                      ELSE IF line[k] \in blank THEN x[k - 1] ELSE Append(x[k - 1], line[k])]
<1>2. Words(line) = words[N]
  BY DEF Words
<1>3. f = [k \in 0..N |->
             IF k = 0 THEN <<>>
             ELSE IF line[k] \in blank THEN f[k - 1] ELSE Append(f[k - 1], line[k])]
  <2> HIDE DEF blank
  <2>1. \A k \in 0..N : k = 0 \/ k \in 1..N
    BY <1>0
  <2>2. f \in [0..N -> Argv] /\ f[0] = <<>>
    BY <1>1
  <2>3. \A k \in 1..N :
          f[k] = IF line[k] \in blank THEN f[k - 1] ELSE Append(f[k - 1], line[k])
    BY <1>1
  <2>4. ASSUME NEW k \in 0..N
        PROVE  f[k] = IF k = 0 THEN <<>>
                      ELSE IF line[k] \in blank THEN f[k - 1] ELSE Append(f[k - 1], line[k])
    BY <2>1, <2>2, <2>3
  <2> QED
    BY <2>2, <2>4
<1>4. words = [k \in 0..N |->
                 IF k = 0 THEN <<>>
                 ELSE IF line[k] \in blank THEN words[k - 1] ELSE Append(words[k - 1], line[k])]
  <2> HIDE DEF blank
  <2> QED
    BY <1>3
<1> HIDE DEF words, blank
<1> DEFINE Differ == {k \in 0..N : words[k] # f[k]}
<1>5. Differ = {}
  <2>1. SUFFICES ASSUME Differ # {} PROVE FALSE
    OBVIOUS
  <2>2. Differ \in SUBSET Nat
    BY <1>0
  <2>3. PICK k \in Differ : \A i \in Differ : k <= i
    <3> HIDE DEF Differ
    <3> QED
      BY <2>1, <2>2, Least
  <2>4. k # 0
    BY <1>0, <1>1, <1>4
  <2>5. k - 1 \in 0..N /\ k \in 1..N /\ ~(k <= k - 1)
    BY <1>0, <2>4
  <2>6. words[k - 1] = f[k - 1]
    BY <2>3, <2>5
  <2>7. words[k] = IF line[k] \in blank THEN words[k - 1] ELSE Append(words[k - 1], line[k])
    BY <1>4, <2>4, <2>5
  <2>8. f[k] = IF line[k] \in blank THEN f[k - 1] ELSE Append(f[k - 1], line[k])
    BY <1>1, <2>5
  <2> QED
    BY <2>3, <2>6, <2>7, <2>8
<1>6. N \in 0..N
  BY <1>0
<1> QED
  BY <1>1, <1>2, <1>5, <1>6

----------------------------------------------------------------------------
(* The shell itself.                                                       *)

LEMMA Numbers ==
  /\ Sh \notin Pids /\ Tty \notin Pids /\ File \notin Pids /\ Pids \subseteq Nat
BY ShellAssumption DEF Sh, Tty, File

LEMMA Initial == Init => IInv
<1> SUFFICES ASSUME Init PROVE IInv
  OBVIOUS
<1>1. STRING \subseteq Word
  BY DEF Word
<1>2. \A s \in Scripts : s \in Argv
  <2>1. ASSUME NEW S, NEW T, S \subseteq T, NEW s \in Seq(S) PROVE s \in Seq(T)
    BY <2>1
  <2> QED
    BY <1>1, <2>1, ShellAssumption DEF Argv
<1>3. Unused \in Recs /\ <<>> \in Argv
  BY DEF Unused, Recs, Pcs, Streams, Argv
<1>4. BasicType
  BY <1>2, <1>3 DEF Init, BasicType
<1>5. \A p \in Pids : procs[p] = Unused
  BY DEF Init
<1>6. ProcInv /\ TreeInv /\ WaitInv
  <2>1. \A p \in Pids : Unused.parent = Sh /\ Unused.pc = "free" /\ Sh # p
    BY Numbers DEF Unused
  <2> QED
    BY <1>5, <2>1 DEF ProcInv, ProcOK, WordsOK, TreeInv, WaitInv
<1> QED
  BY <1>4, <1>6 DEF IInv

\* A line is a beginning of the input and not empty.
LEMMA LineLength ==
  ASSUME NEW s \in Argv, s # <<>> PROVE fgets(s) \in 1..Len(s)
<1>1. Len(s) \in Nat /\ Len(s) > 0 /\ LONGLINE \in Nat /\ LONGLINE > 1
  BY ShellAssumption DEF Argv
<1>2. Pos(s, "\n") \in 0..Len(s)
  BY PosFacts DEF Argv
<1> DEFINE nl == Pos(s, "\n")
           k  == IF nl = 0 THEN Len(s) ELSE nl
<1>3. fgets(s) = IF k < LONGLINE THEN k ELSE LONGLINE - 1
  BY DEF fgets
<1> HIDE DEF nl
<1>4. k \in 1..Len(s)
  BY <1>1, <1>2 DEF nl
<1> HIDE DEF k
<1> QED
  BY <1>1, <1>3, <1>4

\* The shell goes on, exits or crashes while no process changes.
LEMMA ShellMovesKeeps ==
  ASSUME IInv, sh # "wait", UNCHANGED <<edition, child, procs>>, BasicType'
  PROVE  IInv'
<1>1. ProcInv' /\ TreeInv'
  BY DEF IInv, ProcInv, TreeInv, WordsOK, Removed
<1>2. WaitInv'
  BY DEF IInv, WaitInv
<1> QED
  BY <1>1, <1>2 DEF IInv

LEMMA ReadLineKeeps == ASSUME IInv, ReadLine PROVE IInv'
<1> DEFINE k == fgets(input)
           line == SubSeq(input, 1, k)
<1>0. /\ sh = "prompt" /\ input # <<>> /\ input' = After(input, k)
      /\ \/ argv' = <<>> /\ sh' \in {"prompt", "crash"}
         \/ argv' = Words(line) /\ argv' # <<>> /\ sh' = "dispatch"
      /\ UNCHANGED <<edition, child, cwd, procs>>
  BY DEF ReadLine, parse, hw3_parse, Parsed
<1>1. input \in Argv /\ k \in 1..Len(input)
  BY <1>0, LineLength DEF IInv, BasicType
<1>2. line \in Argv
  <2>1. Len(input) \in Nat /\ \A i \in 1..Len(input) : input[i] \in Word
    BY <1>1 DEF Argv
  <2>2. \A i \in 1..k : input[i] \in Word
    BY <1>1, <2>1
  <2> QED
    BY <1>1, <2>1, <2>2, SubSeqProperties DEF Argv
<1>3. argv' \in Argv
  <2>1. <<>> \in Argv
    BY DEF Argv
  <2> HIDE DEF line
  <2> QED
    BY <1>0, <1>2, <2>1, WordsType
<1>4. input' \in Argv
  BY <1>0, <1>1, Parts
<1>5. BasicType'
  BY <1>0, <1>3, <1>4 DEF IInv, BasicType
<1> QED
  BY <1>0, <1>5, ShellMovesKeeps

\* The results of a builtin leave the shell at the prompt or ended, and in a
\* directory it was in or could change to.
LEMMA BuiltinResults ==
  ASSUME BasicType, is_builtin(argv[1]), NEW r \in do_builtin(argv)
  PROVE  r.sh \in {"prompt", "exit", "crash"} /\ r.cwd \in Dirs \cup {"home"}
<1> DEFINE Fine(S) == \A x \in S : x.sh \in {"prompt", "exit", "crash"} /\ x.cwd \in Dirs \cup {"home"}
<1>1. Fine(Goes) /\ Fine(Exits) /\ Fine(Crash)
  BY DEF Goes, Exits, Crash, Result, BasicType
<1>2. \A d \in Dirs : Fine({Result("prompt", d)})
  BY DEF Result
<1>3. edition = "HW3" \/ edition = "HW5"
  BY ShellAssumption DEF BasicType
<1> HIDE DEF Fine
<1>4. \A av : Fine(hw3_bi_echo(av)) /\ Fine(bi_echo(av))
  <2>1. \A av : Fine(EchoNth(av))
    BY <1>1 DEF EchoNth
  <2> QED
    BY <1>1, <2>1 DEF hw3_bi_echo, bi_echo
<1>5. \A av : Fine(bi_quit(av)) /\ Fine(bi_builtin(av)) /\ Fine(bi_cd(av))
  BY <1>1, <1>2 DEF bi_quit, bi_builtin, bi_cd
<1>6. \A av : Fine(bi_pwd(av)) /\ Fine(bi_id(av)) /\ Fine(bi_hostname(av))
  BY <1>1 DEF bi_pwd, bi_id, bi_hostname, Fine
<1>7. Fine(do_builtin(argv))
  <2>1. argv[1] \in {"echo", "builtin", "cd", "pwd", "id", "hostname"} \cup QuitWords
    BY DEF is_builtin, inbuilts, hw3_inbuilts
  <2>2. CASE argv[1] = "echo"
    BY <1>3, <1>4, <2>2 DEF do_builtin, QuitWords
  <2>3. CASE argv[1] \in QuitWords
    BY <1>5, <2>3 DEF do_builtin, QuitWords
  <2>4. CASE argv[1] \in {"builtin", "cd"}
    BY <1>5, <2>4 DEF do_builtin, QuitWords
  <2>5. CASE argv[1] \in {"pwd", "id", "hostname"}
    BY <1>6, <2>5 DEF do_builtin, QuitWords
  <2> QED
    BY <2>1, <2>2, <2>3, <2>4, <2>5
<1> QED
  BY <1>7 DEF Fine

LEMMA BuiltinKeeps == ASSUME IInv, Builtin PROVE IInv'
<1>1. PICK r \in do_builtin(argv) :
        /\ sh' = r.sh \/ sh' \in {"prompt", "crash"}
        /\ cwd' = r.cwd
  BY DEF Builtin, free_argv
<1>2. /\ sh = "dispatch" /\ is_builtin(argv[1]) /\ argv' = <<>>
      /\ UNCHANGED <<edition, input, child, procs>>
  BY DEF Builtin, free_argv
<1>3. BasicType'
  <2>1. r.sh \in {"prompt", "exit", "crash"} /\ r.cwd \in Dirs \cup {"home"}
    BY <1>2, BuiltinResults DEF IInv
  <2>2. <<>> \in Argv
    BY DEF Argv
  <2> QED
    BY <1>1, <1>2, <2>1, <2>2 DEF IInv, BasicType
<1> QED
  BY <1>2, <1>3, ShellMovesKeeps

\* The end of the input, and a fork that fails.
LEMMA ExitKeeps == ASSUME IInv, Eof \/ ForkFails PROVE IInv'
<1>1. sh \in {"prompt", "dispatch"} /\ sh' = "exit" /\ UNCHANGED <<edition, input, argv, child, cwd, procs>>
  BY DEF Eof, ForkFails
<1>2. BasicType'
  BY <1>1 DEF IInv, BasicType
<1> QED
  BY <1>1, <1>2, ShellMovesKeeps

----------------------------------------------------------------------------
(* Starting and awaiting a command.                                        *)

LEMMA NewPidFree ==
  ASSUME Free # {} PROVE NewPid \in Pids /\ procs[NewPid].pc = "free"
<1>1. Free \in SUBSET Nat
  BY Numbers DEF Free
<1>2. \E p \in Free : \A q \in Free : p <= q
  <2> HIDE DEF Free
  <2> QED
    BY <1>1, Least
<1>3. NewPid \in Free
  BY <1>2 DEF NewPid
<1> QED
  BY <1>3 DEF Free

\* One process becomes r, and what is said of the others stays true.
LEMMA OneProcess ==
  ASSUME BasicType, ProcInv, TreeInv, NEW p \in Pids, NEW r \in Recs,
         procs' = [procs EXCEPT ![p] = r], edition' = edition,
         ProcOK(p, r), WordsOK(r), Writer(p, procs[p]) => Writer(p, r),
         r.parent # Sh => r.parent = procs[p].parent
  PROVE  procs' \in [Pids -> Recs] /\ ProcInv' /\ TreeInv'
<1>1. procs \in [Pids -> Recs]
  BY DEF BasicType
<1>2. procs' \in [Pids -> Recs]
  BY <1>1
<1>3. procs'[p] = r /\ \A q \in Pids : q # p => procs'[q] = procs[q]
  BY <1>1
<1>4. ProcInv'
  <2>1. \A q \in Pids : ProcOK(q, procs'[q]) /\ WordsOK(procs'[q])
    BY <1>3 DEF ProcInv
  <2>2. \A x : WordsOK(x)' <=> WordsOK(x)
    BY DEF WordsOK
  <2> QED
    BY <2>1, <2>2 DEF ProcInv, WordsOK, Removed
<1>5. TreeInv'
  <2> SUFFICES ASSUME NEW q \in Pids, procs'[q].parent # Sh
               PROVE  Writer(procs'[q].parent, procs'[procs'[q].parent])
    BY DEF TreeInv
  <2>1. procs'[q].parent = procs[q].parent /\ procs[q].parent \in Pids
    BY <1>1, <1>3 DEF Recs
  <2>2. Writer(procs[q].parent, procs[procs[q].parent])
    BY <2>1 DEF TreeInv
  <2>3. CASE procs[q].parent = p
    BY <1>3, <2>1, <2>2, <2>3
  <2>4. CASE procs[q].parent # p
    BY <1>3, <2>1, <2>2, <2>4
  <2> QED
    BY <2>3, <2>4
<1> QED
  BY <1>2, <1>4, <1>5

LEMMA RunKeeps == ASSUME IInv, run_command PROVE IInv'
<1> DEFINE b == Background(argv)
           n == NewPid
           r == [Unused EXCEPT !.pc = "child", !.argv = argv, !.line = argv, !.bg = b]
<1>0. /\ sh = "dispatch" /\ procs' = [procs EXCEPT ![n] = r]
      /\ IF b THEN sh' \in {"prompt", "crash"} /\ argv' = <<>> /\ child' = child
              ELSE sh' = "wait" /\ argv' = argv /\ child' = n
      /\ UNCHANGED <<edition, input, cwd>>
  BY DEF run_command, free_argv
<1>1. n \in Pids /\ procs[n].pc = "free"
  BY NewPidFree DEF run_command
<1>2. b \in BOOLEAN
  BY DEF Background, hw3_is_background, is_background, Has
<1>3. argv \in Argv /\ <<>> \in Argv
  BY DEF IInv, BasicType, Argv
<1> HIDE DEF b, n
<1>4. r \in Recs /\ r.pc = "child" /\ r.parent = Sh /\ r.bg = b
      /\ r.in = Tty /\ r.out = Tty /\ r.ends = {} /\ r.argv # <<>>
  BY <1>0, <1>2, <1>3 DEF Unused, Recs, Pcs, Streams, IInv, BasicType
<1> HIDE DEF r
<1>5. ProcOK(n, r) /\ WordsOK(r)
  BY <1>1, <1>4, Numbers DEF ProcOK, WordsOK
<1>6. ~Writer(n, procs[n])
  BY <1>1 DEF Writer
<1>7. procs' \in [Pids -> Recs] /\ ProcInv' /\ TreeInv'
  BY <1>0, <1>1, <1>4, <1>5, <1>6, OneProcess DEF IInv
<1>8. BasicType'
  BY <1>0, <1>1, <1>2, <1>3, <1>7 DEF IInv, BasicType
<1>9. WaitInv'
  <2> SUFFICES ASSUME NEW p \in Pids, procs'[p].parent = Sh, procs'[p].pc \notin {"free", "reaped"}
               PROVE  procs'[p].bg \/ (sh' = "wait" /\ p = child')
    BY DEF WaitInv
  <2>1. CASE p = n
    <3>1. procs'[p] = r
      BY <1>0, <2>1 DEF IInv, BasicType
    <3> QED
      BY <1>0, <1>4, <2>1, <3>1
  <2>2. CASE p # n
    <3>1. procs'[p] = procs[p]
      BY <1>0, <2>2 DEF IInv, BasicType
    <3> QED
      BY <1>0, <3>1 DEF IInv, WaitInv
  <2> QED
    BY <2>1, <2>2
<1> QED
  BY <1>7, <1>8, <1>9 DEF IInv

LEMMA WaitKeeps == ASSUME IInv, Wait PROVE IInv'
<1> DEFINE r == [procs[child] EXCEPT !.pc = "reaped"]
<1>0. /\ sh = "wait" /\ procs[child].pc = "dead" /\ sh' \in {"prompt", "crash"} /\ argv' = <<>>
      /\ UNCHANGED <<edition, input, child, cwd>>
  BY DEF Wait, free_argv
<1>1. child \in Pids /\ procs[child] \in Recs
  BY <1>0 DEF IInv, BasicType
<1>2. procs' = [procs EXCEPT ![child] = r]
  BY <1>1 DEF Wait, IInv, BasicType
<1>3. r \in Recs /\ r.pc = "reaped" /\ r.parent = procs[child].parent
  BY <1>1 DEF Recs, Pcs
<1> HIDE DEF r
<1>4. ProcOK(child, r) /\ WordsOK(r) /\ Writer(child, r)
  BY <1>1, <1>3 DEF IInv, ProcInv, ProcOK, WordsOK, Writer
<1>5. procs' \in [Pids -> Recs] /\ ProcInv' /\ TreeInv'
  BY <1>0, <1>1, <1>2, <1>3, <1>4, OneProcess DEF IInv
<1>6. BasicType'
  BY <1>0, <1>5 DEF IInv, BasicType, Argv
<1>7. WaitInv'
  <2> SUFFICES ASSUME NEW p \in Pids, procs'[p].parent = Sh, procs'[p].pc \notin {"free", "reaped"}
               PROVE  procs'[p].bg
    BY DEF WaitInv
  <2>1. p # child /\ procs'[p] = procs[p]
    BY <1>1, <1>2, <1>3 DEF IInv, BasicType
  <2> QED
    BY <1>0, <2>1 DEF IInv, WaitInv
<1> QED
  BY <1>5, <1>6, <1>7 DEF IInv

----------------------------------------------------------------------------
(* Processes below the shell.                                              *)

\* A step of one process that is not over and keeps its parent.
LEMMA ProcMovesKeeps ==
  ASSUME IInv, UNCHANGED shellVars, NEW p \in Pids, NEW r \in Recs,
         procs' = [procs EXCEPT ![p] = r], procs[p].pc \notin {"free", "reaped"},
         r.parent = procs[p].parent, r.bg = procs[p].bg,
         ProcOK(p, r), WordsOK(r), Writer(p, procs[p]) => Writer(p, r)
  PROVE  IInv'
<1>1. procs' \in [Pids -> Recs] /\ ProcInv' /\ TreeInv'
  BY OneProcess DEF IInv, shellVars
<1>2. BasicType'
  BY <1>1 DEF IInv, BasicType, shellVars
<1>3. WaitInv'
  <2>1. procs'[p] = r /\ \A q \in Pids : q # p => procs'[q] = procs[q]
    BY DEF IInv, BasicType
  <2> QED
    BY <2>1 DEF IInv, WaitInv, shellVars
<1> QED
  BY <1>1, <1>2, <1>3 DEF IInv

\* The end of a process, and the exec or the end of it.
LEMMA DeadFacts ==
  ASSUME NEW r \in Recs
  PROVE  /\ Dead(r) \in Recs /\ Dead(r).pc = "dead"
         /\ Dead(r).parent = r.parent /\ Dead(r).bg = r.bg
<1>1. <<>> \in Argv
  BY DEF Argv
<1> QED
  BY <1>1 DEF Dead, Recs, Pcs

LEMMA ExecFacts ==
  ASSUME NEW r \in Recs, NEW av \in Argv
  PROVE  LET x == execvp(r, av) IN
         /\ x \in Recs /\ x.pc \in {"run", "dead"} /\ x.parent = r.parent /\ x.bg = r.bg
         /\ x.pc = "run" => /\ x.in = r.in /\ x.out = r.out /\ x.ends = r.ends /\ x.argv = av
                            /\ av # <<>> /\ av[1] \in Programs
<1>1. CASE av # <<>> /\ av[1] \in Programs
  BY <1>1 DEF execvp, Recs, Pcs
<1>2. CASE ~(av # <<>> /\ av[1] \in Programs)
  BY <1>2, DeadFacts DEF execvp
<1> QED
  BY <1>1, <1>2

\* A process ends: whatever it held is closed.
LEMMA EndKeeps ==
  ASSUME IInv, UNCHANGED shellVars, NEW p \in Pids, NEW r \in Recs,
         procs' = [procs EXCEPT ![p] = r], procs[p].pc \notin {"free", "reaped"},
         r.parent = procs[p].parent, r.bg = procs[p].bg, r.pc = "dead"
  PROVE  IInv'
<1>1. ProcOK(p, r) /\ WordsOK(r) /\ Writer(p, r)
  BY DEF IInv, ProcInv, ProcOK, WordsOK, Writer
<1> QED
  BY <1>1, ProcMovesKeeps

\* An exec from a record whose ends are those behind its standard streams.
LEMMA ExecKeeps ==
  ASSUME IInv, UNCHANGED shellVars, NEW p \in Pids, NEW r \in Recs, NEW av \in Argv,
         procs' = [procs EXCEPT ![p] = execvp(r, av)], procs[p].pc \notin {"free", "reaped"},
         r.parent = procs[p].parent, r.bg = procs[p].bg,
         IF r.parent = Sh THEN r.in \in {Tty, File} ELSE r.in = r.parent,
         r.ends = Reads(r) \cup Writes(r),
         av # <<>> /\ av[1] \in Programs => \A w \in Removed(edition) : Absent(av, w),
         Writer(p, procs[p]) => r.out = p
  PROVE  IInv'
<1> DEFINE x == execvp(r, av)
<1>1. /\ x \in Recs /\ x.pc \in {"run", "dead"} /\ x.parent = r.parent /\ x.bg = r.bg
      /\ x.pc = "run" => /\ x.in = r.in /\ x.out = r.out /\ x.ends = r.ends /\ x.argv = av
                         /\ av # <<>> /\ av[1] \in Programs
  BY ExecFacts
<1>2. procs' = [procs EXCEPT ![p] = x]
  OBVIOUS
<1> HIDE DEF x
<1>3. CASE x.pc = "dead"
  <2>1. x \in Recs /\ x.parent = procs[p].parent /\ x.bg = procs[p].bg
    BY <1>1
  <2> QED
    BY <1>2, <1>3, <2>1, EndKeeps
<1>4. CASE x.pc = "run"
  <2>1. x.parent # p
    BY <1>1 DEF IInv, ProcInv, ProcOK
  <2>2. ProcOK(p, x)
    BY <1>1, <1>4, <2>1 DEF ProcOK, Reads, Writes
  <2>3. WordsOK(x)
    BY <1>1, <1>4 DEF WordsOK
  <2>4. Writer(p, procs[p]) => Writer(p, x)
    BY <1>1, <1>4 DEF Writer
  <2> QED
    BY <1>1, <1>2, <2>2, <2>3, <2>4, ProcMovesKeeps
<1> QED
  BY <1>1, <1>3, <1>4

LEMMA Hw3ChildKeeps == ASSUME IInv, NEW p \in Pids, Hw3Child(p) PROVE IInv'
<1> DEFINE r == procs[p]
           s == r.argv
           av == IF Background(s) THEN Before(s, Pos(s, "&")) ELSE s
<1>0. /\ edition = "HW3" /\ r.pc = "child" /\ UNCHANGED shellVars
      /\ procs' = [procs EXCEPT ![p] = execvp(r, av)]
  BY DEF Hw3Child
<1>1. r \in Recs /\ ProcOK(p, r)
  BY DEF IInv, BasicType, ProcInv
<1>2. /\ r.in = Tty /\ r.out \in {Tty, File} /\ r.ends = {} /\ r.parent = Sh
      /\ s \in Argv /\ s # <<>> /\ ~Writer(p, r)
  BY <1>0, <1>1 DEF ProcOK, Writer, Recs
<1>3. r.ends = Reads(r) \cup Writes(r)
  BY <1>2, Numbers DEF Reads, Writes
<1> HIDE DEF r
<1>4. /\ Tail(s) \in Argv /\ Len(s) \in Nat /\ Len(s) > 0 /\ Len(Tail(s)) = Len(s) - 1
      /\ \A k \in 1..Len(s) - 1 : Tail(s)[k] = s[k + 1]
  BY <1>2 DEF Argv
<1>5. Background(s) <=> ~Absent(Tail(s), "&")
  <2>1. Pos(Tail(s), "&") = 0 <=> Absent(Tail(s), "&")
    BY <1>4, PosFacts DEF Argv
  <2> QED
    BY <1>0, <2>1 DEF Background, hw3_is_background, Has
<1>6. CASE Background(s)
  <2>1. PICK k \in 1..Len(s) - 1 : s[k + 1] = "&"
    BY <1>4, <1>5, <1>6 DEF Absent
  <2>2. k + 1 \in 1..Len(s)
    BY <1>4
  <2>3. Pos(s, "&") # 0
    BY <1>2, <2>1, <2>2, PosFacts DEF Absent, Argv
  <2>4. Pos(s, "&") \in 1..Len(s) /\ Absent(Before(s, Pos(s, "&")), "&")
    BY <1>2, <2>3, CutAt
  <2>5. av \in Argv /\ Absent(av, "&")
    BY <1>2, <1>6, <2>4, Parts
  <2> HIDE DEF av, s
  <2>6. \A w \in Removed(edition) : Absent(av, w)
    BY <1>0, <2>5 DEF Removed
  <2> QED
    BY <1>0, <1>1, <1>2, <1>3, <2>5, <2>6, ExecKeeps DEF r
<1>7. CASE ~Background(s)
  <2>1. av = s /\ s \in Argv
    BY <1>2, <1>7
  <2>2. ASSUME s[1] \in Programs PROVE Absent(s, "&")
    <3> SUFFICES ASSUME NEW k \in 1..Len(s), s[k] = "&" PROVE FALSE
      BY DEF Absent
    <3>1. CASE k = 1
      BY <2>2, <3>1, ShellAssumption
    <3>2. CASE k # 1
      <4>1. k - 1 \in 1..Len(s) - 1 /\ (k - 1) + 1 = k
        BY <1>4, <3>2
      <4>2. Tail(s)[k - 1] = "&"
        BY <1>4, <4>1
      <4> QED
        BY <1>4, <1>5, <1>7, <4>1, <4>2 DEF Absent
    <3> QED
      BY <3>1, <3>2
  <2> HIDE DEF av, s
  <2>3. av # <<>> /\ av[1] \in Programs => \A w \in Removed(edition) : Absent(av, w)
    BY <1>0, <2>1, <2>2 DEF Removed
  <2> QED
    BY <1>0, <1>1, <1>2, <1>3, <2>1, <2>3, ExecKeeps DEF r
<1> QED
  BY <1>6, <1>7

\* A redirection drops its operator, and adds no word.
LEMMA RedirectFacts ==
  ASSUME NEW r \in Recs
  PROVE  /\ LET x == redirect_in(r) IN
              /\ x \in Recs /\ x.parent = r.parent /\ x.bg = r.bg /\ x.pc \in {r.pc, "dead"}
              /\ x.pc # "dead" => /\ x.in \in {r.in, File} /\ x.out = r.out /\ x.ends = r.ends
                                  /\ Absent(x.argv, "<")
         /\ LET x == redirect_out(r) IN
              /\ x \in Recs /\ x.parent = r.parent /\ x.bg = r.bg /\ x.pc \in {r.pc, "dead"}
              /\ x.pc # "dead" => /\ x.in = r.in /\ x.out \in {r.out, File} /\ x.ends = r.ends
                                  /\ Absent(x.argv, ">")
                                  /\ \A w : Absent(r.argv, w) => Absent(x.argv, w)
<1>1. r.argv \in Argv
  BY DEF Recs
<1>2. ASSUME NEW w
      PROVE  /\ Pos(r.argv, w) = 0 => Absent(r.argv, w)
             /\ Pos(r.argv, w) # 0 => /\ Before(r.argv, Pos(r.argv, w)) \in Argv
                                      /\ Absent(Before(r.argv, Pos(r.argv, w)), w)
                                      /\ \A v : Absent(r.argv, v)
                                            => Absent(Before(r.argv, Pos(r.argv, w)), v)
  <2>1. Pos(r.argv, w) = 0 => Absent(r.argv, w)
    BY <1>1, PosFacts DEF Argv
  <2>2. CASE Pos(r.argv, w) # 0
    BY <1>1, <2>1, <2>2, CutAt, Parts
  <2> QED
    BY <2>1, <2>2
<1>3. Dead(r) \in Recs /\ Dead(r).pc = "dead" /\ Dead(r).parent = r.parent /\ Dead(r).bg = r.bg
  BY DeadFacts
<1>4. ASSUME NEW a \in Argv
      PROVE  LET y == [r EXCEPT !.in = File, !.argv = a]
                 z == [r EXCEPT !.out = File, !.argv = a]
             IN  /\ y \in Recs /\ y.in = File /\ y.out = r.out /\ y.ends = r.ends /\ y.argv = a
                 /\ y.parent = r.parent /\ y.bg = r.bg /\ y.pc = r.pc
                 /\ z \in Recs /\ z.out = File /\ z.in = r.in /\ z.ends = r.ends /\ z.argv = a
                 /\ z.parent = r.parent /\ z.bg = r.bg /\ z.pc = r.pc
  BY DEF Recs, Streams
<1> DEFINE k == Pos(r.argv, "<")
           m == Pos(r.argv, ">")
<1>5. \/ k = 0 /\ redirect_in(r) = r
      \/ k # 0 /\ redirect_in(r) = [r EXCEPT !.in = File, !.argv = Before(r.argv, k)]
      \/ redirect_in(r) = Dead(r)
  BY DEF redirect_in
<1>6. \/ m = 0 /\ redirect_out(r) = r
      \/ m # 0 /\ redirect_out(r) = [r EXCEPT !.out = File, !.argv = Before(r.argv, m)]
      \/ redirect_out(r) = Dead(r)
  BY DEF redirect_out
<1>7. /\ k = 0 => Absent(r.argv, "<")
      /\ k # 0 => Before(r.argv, k) \in Argv /\ Absent(Before(r.argv, k), "<")
  BY <1>2
<1>8. /\ m = 0 => Absent(r.argv, ">")
      /\ m # 0 => /\ Before(r.argv, m) \in Argv /\ Absent(Before(r.argv, m), ">")
                  /\ \A v : Absent(r.argv, v) => Absent(Before(r.argv, m), v)
  BY <1>2
<1> HIDE DEF k, m
<1> DEFINE
      In(x) == /\ x \in Recs /\ x.parent = r.parent /\ x.bg = r.bg /\ x.pc \in {r.pc, "dead"}
               /\ x.pc # "dead" => /\ x.in \in {r.in, File} /\ x.out = r.out /\ x.ends = r.ends
                                   /\ Absent(x.argv, "<")
      Out(x) == /\ x \in Recs /\ x.parent = r.parent /\ x.bg = r.bg /\ x.pc \in {r.pc, "dead"}
                /\ x.pc # "dead" => /\ x.in = r.in /\ x.out \in {r.out, File} /\ x.ends = r.ends
                                    /\ Absent(x.argv, ">")
                                    /\ \A w : Absent(r.argv, w) => Absent(x.argv, w)
<1>9. In(redirect_in(r))
  <2>1. In(Dead(r))
    BY <1>3
  <2>2. k = 0 => In(r)
    BY <1>7
  <2>3. k # 0 => In([r EXCEPT !.in = File, !.argv = Before(r.argv, k)])
    <3> SUFFICES ASSUME k # 0 PROVE In([r EXCEPT !.in = File, !.argv = Before(r.argv, k)])
      OBVIOUS
    <3> DEFINE a == Before(r.argv, k)
    <3>1. a \in Argv /\ Absent(a, "<")
      BY <1>7
    <3> HIDE DEF a
    <3> QED
      BY <1>4, <3>1 DEF a
  <2> HIDE DEF In
  <2> QED
    BY <1>5, <2>1, <2>2, <2>3
<1>10. Out(redirect_out(r))
  <2>1. Out(Dead(r))
    BY <1>3
  <2>2. m = 0 => Out(r)
    BY <1>8
  <2>3. m # 0 => Out([r EXCEPT !.out = File, !.argv = Before(r.argv, m)])
    <3> SUFFICES ASSUME m # 0 PROVE Out([r EXCEPT !.out = File, !.argv = Before(r.argv, m)])
      OBVIOUS
    <3> DEFINE a == Before(r.argv, m)
    <3>1. a \in Argv /\ Absent(a, ">") /\ \A v : Absent(r.argv, v) => Absent(a, v)
      BY <1>8
    <3> HIDE DEF a
    <3> QED
      BY <1>4, <3>1 DEF a
  <2> HIDE DEF Out
  <2> QED
    BY <1>6, <2>1, <2>2, <2>3
<1> QED
  BY <1>9, <1>10

LEMMA ChildKeeps == ASSUME IInv, NEW p \in Pids, Child(p) PROVE IInv'
<1> DEFINE r == [procs[p] EXCEPT !.pc = "pipe"]
           y == redirect_in(r)
           x == redirect_out(y)
<1>0. /\ edition = "HW5" /\ procs[p].pc = "child" /\ UNCHANGED shellVars
      /\ procs' = [procs EXCEPT ![p] = x]
  BY DEF Child
<1>1. procs[p] \in Recs /\ ProcOK(p, procs[p])
  BY DEF IInv, BasicType, ProcInv
<1>2. /\ procs[p].in = Tty /\ procs[p].out \in {Tty, File} /\ procs[p].ends = {}
      /\ procs[p].parent = Sh /\ Sh # p /\ ~Writer(p, procs[p])
  BY <1>0, <1>1, Numbers DEF ProcOK, Writer
<1>3. /\ r \in Recs /\ r.in = Tty /\ r.out \in {Tty, File} /\ r.ends = {} /\ r.parent = Sh
      /\ r.bg = procs[p].bg /\ r.pc = "pipe"
  BY <1>1, <1>2 DEF Recs, Pcs
<1> HIDE DEF r
<1>4. /\ y \in Recs /\ y.parent = Sh /\ y.bg = procs[p].bg /\ y.pc \in {"pipe", "dead"}
      /\ y.pc # "dead" => /\ y.in \in {Tty, File} /\ y.out \in {Tty, File} /\ y.ends = {}
                          /\ Absent(y.argv, "<")
  BY <1>3, RedirectFacts
<1> HIDE DEF y
<1>5. /\ x \in Recs /\ x.parent = Sh /\ x.bg = procs[p].bg /\ x.pc \in {"pipe", "dead"}
      /\ x.pc # "dead" => /\ x.in \in {Tty, File} /\ x.out \in {Tty, File} /\ x.ends = {}
                          /\ Absent(x.argv, "<") /\ Absent(x.argv, ">")
  BY <1>4, RedirectFacts
<1> HIDE DEF x
<1>6. CASE x.pc = "dead"
  BY <1>0, <1>2, <1>5, <1>6, EndKeeps
<1>7. CASE x.pc = "pipe"
  <2>1. Reads(x) = {}
    BY <1>5, <1>7, Numbers DEF Reads
  <2>2. ProcOK(p, x)
    BY <1>2, <1>5, <1>7, <2>1 DEF ProcOK
  <2>3. WordsOK(x)
    BY <1>0, <1>5, <1>7 DEF WordsOK, Removed
  <2> QED
    BY <1>0, <1>2, <1>5, <2>2, <2>3, ProcMovesKeeps
<1> QED
  BY <1>5, <1>6, <1>7

\* At a pipe: the words, the ends and the standard streams.
LEMMA AtPipe ==
  ASSUME IInv, NEW p \in Pids, procs[p].pc = "pipe"
  PROVE  LET r == procs[p] IN
         /\ r \in Recs /\ r.argv \in Argv /\ r.parent # p /\ r.out \in {Tty, File}
         /\ IF r.parent = Sh THEN r.in \in {Tty, File} ELSE r.in = r.parent
         /\ r.ends = Reads(r) /\ Writes(r) = {} /\ ~Writer(p, r)
         /\ \A w \in Removed(edition) : Absent(r.argv, w)
<1>1. procs[p] \in Recs /\ ProcOK(p, procs[p]) /\ WordsOK(procs[p])
  BY DEF IInv, BasicType, ProcInv
<1>2. procs[p].out \in {Tty, File}
  BY <1>1 DEF ProcOK
<1>3. Writes(procs[p]) = {}
  BY <1>2, Numbers DEF Writes
<1>4. procs[p].argv \in Argv
  BY <1>1 DEF Recs
<1> QED
  BY <1>1, <1>2, <1>3, <1>4 DEF ProcOK, WordsOK, Writer

LEMMA NoPipeKeeps == ASSUME IInv, NEW p \in Pids, NoPipe(p) PROVE IInv'
<1> DEFINE r == procs[p]
<1>0. /\ r.pc = "pipe" /\ UNCHANGED shellVars
      /\ procs' = [procs EXCEPT ![p] =
                     IF pipe_present(r.argv) = -1 THEN Dead(r) ELSE execvp(r, r.argv)]
  BY DEF NoPipe
<1>1. /\ r \in Recs /\ r.argv \in Argv /\ r.ends = Reads(r) \cup Writes(r) /\ ~Writer(p, r)
      /\ IF r.parent = Sh THEN r.in \in {Tty, File} ELSE r.in = r.parent
      /\ \A w \in Removed(edition) : Absent(r.argv, w)
  BY <1>0, AtPipe
<1> HIDE DEF r
<1>2. CASE pipe_present(r.argv) = -1
  <2>1. procs' = [procs EXCEPT ![p] = Dead(r)]
    BY <1>0, <1>2
  <2>2. /\ Dead(r) \in Recs /\ Dead(r).pc = "dead" /\ Dead(r).parent = r.parent
        /\ Dead(r).bg = r.bg
    BY <1>1, DeadFacts
  <2> QED
    BY <1>0, <2>1, <2>2, EndKeeps DEF r
<1>3. CASE pipe_present(r.argv) # -1
  <2>1. procs' = [procs EXCEPT ![p] = execvp(r, r.argv)]
    BY <1>0, <1>3
  <2>2. procs[p] = r /\ procs[p].pc \notin {"free", "reaped"} /\ ~Writer(p, procs[p])
    BY <1>0, <1>1 DEF r
  <2> DEFINE av == r.argv
  <2>3. av \in Argv /\ \A w \in Removed(edition) : Absent(av, w)
    BY <1>1
  <2>4. procs' = [procs EXCEPT ![p] = execvp(r, av)] /\ r.parent = procs[p].parent /\ r.bg = procs[p].bg
    BY <2>1, <2>2
  <2>5. /\ UNCHANGED shellVars /\ r.ends = Reads(r) \cup Writes(r) /\ r \in Recs
        /\ IF r.parent = Sh THEN r.in \in {Tty, File} ELSE r.in = r.parent
    BY <1>0, <1>1
  <2> HIDE DEF av
  <2>6. /\ av # <<>> /\ av[1] \in Programs => \A w \in Removed(edition) : Absent(av, w)
        /\ Writer(p, procs[p]) => r.out = p
    BY <2>2, <2>3
  <2> QED
    BY <2>2, <2>3, <2>4, <2>5, <2>6, ExecKeeps
<1> QED
  BY <1>2, <1>3

LEMMA PipeFailsKeeps == ASSUME IInv, NEW p \in Pids, PipeFails(p) \/ ProgramEnds(p) PROVE IInv'
<1>1. /\ procs[p].pc \in {"pipe", "run"} /\ UNCHANGED shellVars
      /\ procs' = [procs EXCEPT ![p] = Dead(procs[p])]
  BY DEF PipeFails, ProgramEnds
<1>2. procs[p] \in Recs
  BY DEF IInv, BasicType
<1> QED
  BY <1>1, <1>2, DeadFacts, EndKeeps

\* A process and the one it forks for the right side of its pipe.
LEMMA PipeForkKeeps == ASSUME IInv, NEW p \in Pids, PipeFork(p) PROVE IInv'
<1> DEFINE r == procs[p]
           n == NewPid
           k == pipe_present(r.argv) + 1
           e == r.ends \cup Pipe(p)
           left  == [r EXCEPT !.pc = "left", !.argv = Before(r.argv, k), !.ends = e]
           right == [r EXCEPT !.pc = "right", !.argv = After(r.argv, k), !.ends = e, !.parent = p]
<1>0. /\ r.pc = "pipe" /\ pipe_present(r.argv) > 0 /\ Free # {} /\ UNCHANGED shellVars
      /\ procs' = [procs EXCEPT ![p] = left, ![n] = right]
  BY DEF PipeFork
<1>1. /\ r \in Recs /\ r.argv \in Argv /\ r.parent # p /\ r.out \in {Tty, File}
      /\ IF r.parent = Sh THEN r.in \in {Tty, File} ELSE r.in = r.parent
      /\ r.ends = Reads(r) /\ ~Writer(p, r)
      /\ \A w \in Removed(edition) : Absent(r.argv, w)
  BY <1>0, AtPipe
<1>2. n \in Pids /\ procs[n].pc = "free" /\ n # p /\ ~Writer(n, procs[n])
  BY <1>0, NewPidFree DEF Writer
<1>3. k \in 1..Len(r.argv)
  <2>1. Pos(r.argv, "|") \in 0..Len(r.argv) /\ Len(r.argv) \in Nat
    BY <1>1, PosFacts DEF Argv
  <2>2. k = Pos(r.argv, "|") /\ Pos(r.argv, "|") # 0
    BY <1>0, <2>1 DEF pipe_present
  <2> QED
    BY <2>1, <2>2
<1>4. /\ Before(r.argv, k) \in Argv /\ After(r.argv, k) \in Argv
      /\ \A w \in Removed(edition) : Absent(Before(r.argv, k), w) /\ Absent(After(r.argv, k), w)
  <2> HIDE DEF k
  <2> QED
    BY <1>1, <1>3, Parts
<1>5. e \subseteq UNION {Pipe(q) : q \in Pids} /\ e = Reads(r) \cup Pipe(p)
  <2>1. r.ends \subseteq UNION {Pipe(q) : q \in Pids}
    BY <1>1 DEF Recs
  <2> QED
    BY <1>1, <2>1
<1> HIDE DEF r, n, k, e
<1>6. /\ left \in Recs /\ left.pc = "left" /\ left.argv = Before(r.argv, k) /\ left.ends = e
      /\ left.in = r.in /\ left.out = r.out /\ left.parent = r.parent /\ left.bg = r.bg
  BY <1>1, <1>4, <1>5 DEF Recs, Pcs
<1>7. /\ right \in Recs /\ right.pc = "right" /\ right.argv = After(r.argv, k) /\ right.ends = e
      /\ right.in = r.in /\ right.out = r.out /\ right.parent = p
  BY <1>1, <1>4, <1>5 DEF Recs, Pcs
<1> HIDE DEF left, right
<1>8. ProcOK(p, left) /\ WordsOK(left)
  BY <1>1, <1>4, <1>5, <1>6 DEF ProcOK, WordsOK, Reads
<1>9. ProcOK(n, right) /\ WordsOK(right)
  BY <1>1, <1>2, <1>4, <1>5, <1>7, Numbers DEF ProcOK, WordsOK, Reads
<1>10. /\ procs'[p] = left /\ procs'[n] = right
       /\ \A q \in Pids : q # p /\ q # n => procs'[q] = procs[q]
       /\ procs' \in [Pids -> Recs]
  BY <1>0, <1>2, <1>6, <1>7 DEF IInv, BasicType
<1>11. BasicType'
  BY <1>0, <1>10 DEF IInv, BasicType, shellVars
<1>12. ProcInv'
  <2>1. \A q \in Pids : ProcOK(q, procs'[q]) /\ WordsOK(procs'[q])
    BY <1>8, <1>9, <1>10 DEF IInv, ProcInv
  <2> QED
    BY <1>0, <2>1 DEF ProcInv, WordsOK, Removed, shellVars
<1>13. TreeInv'
  <2> SUFFICES ASSUME NEW q \in Pids, procs'[q].parent # Sh
               PROVE  Writer(procs'[q].parent, procs'[procs'[q].parent])
    BY DEF TreeInv
  <2>1. CASE q = n
    BY <1>6, <1>7, <1>10, <2>1 DEF Writer
  <2>2. CASE q # n
    <3>1. procs'[q].parent = procs[q].parent /\ procs[q].parent \in Pids
      <4>1. procs'[q].parent = procs[q].parent
        BY <1>6, <1>10, <2>2 DEF r
      <4>2. procs[q] \in Recs
        BY DEF IInv, BasicType
      <4> QED
        BY <4>1, <4>2 DEF Recs
    <3>2. Writer(procs[q].parent, procs[procs[q].parent])
      BY <3>1 DEF IInv, TreeInv
    <3>3. procs[q].parent # p /\ procs[q].parent # n
      BY <1>1, <1>2, <3>2 DEF r
    <3> QED
      BY <1>10, <3>1, <3>2, <3>3
  <2> QED
    BY <2>1, <2>2
<1>14. WaitInv'
  <2> SUFFICES ASSUME NEW q \in Pids, procs'[q].parent = Sh, procs'[q].pc \notin {"free", "reaped"}
               PROVE  procs'[q].bg \/ (sh' = "wait" /\ q = child')
    BY DEF WaitInv
  <2>1. q # n
    BY <1>7, <1>10, Numbers
  <2>2. procs[q].parent = Sh /\ procs[q].pc \notin {"free", "reaped"} /\ procs'[q].bg = procs[q].bg
    BY <1>0, <1>6, <1>10, <2>1 DEF r
  <2> QED
    BY <1>0, <2>2 DEF IInv, WaitInv, shellVars
<1> QED
  BY <1>11, <1>12, <1>13, <1>14 DEF IInv

LEMMA LeftKeeps == ASSUME IInv, NEW p \in Pids, LeftExec(p) PROVE IInv'
<1> DEFINE o == procs[p]
           r == [o EXCEPT !.out = p, !.ends = (@ \ {<<"r", p>>, <<"w", o.out>>}) \cup {<<"w", p>>}]
<1>0. o.pc = "left" /\ UNCHANGED shellVars
  BY DEF LeftExec
<1>1. PICK av \in Vector(o.argv) : procs' = [procs EXCEPT ![p] = execvp(r, av)]
  BY DEF LeftExec
<1>2. o \in Recs /\ ProcOK(p, o) /\ WordsOK(o)
  BY DEF IInv, BasicType, ProcInv
<1>3. /\ o.argv \in Argv /\ o.out \in {Tty, File} /\ o.ends = Reads(o) \cup Pipe(p)
      /\ IF o.parent = Sh THEN o.in \in {Tty, File} ELSE o.in = o.parent
      /\ o.parent # p /\ o.ends \subseteq UNION {Pipe(q) : q \in Pids}
      /\ \A w \in Removed(edition) : Absent(o.argv, w)
  BY <1>0, <1>2 DEF ProcOK, WordsOK, Recs
<1>4. o.in # p
  BY <1>3, Numbers
<1> HIDE DEF o
<1>5. /\ r.out = p /\ r.in = o.in /\ r.parent = o.parent /\ r.bg = o.bg
      /\ r.ends = (o.ends \ {<<"r", p>>, <<"w", o.out>>}) \cup {<<"w", p>>}
  BY <1>2 DEF Recs
<1>6. r \in Recs
  <2>1. <<"w", p>> \in Pipe(p)
    BY DEF Pipe
  <2>2. (o.ends \ {<<"r", p>>, <<"w", o.out>>}) \cup {<<"w", p>>} \subseteq UNION {Pipe(q) : q \in Pids}
    BY <1>3, <2>1
  <2> QED
    BY <1>2, <2>2 DEF Recs, Streams
<1> HIDE DEF r
<1>7. r.ends = Reads(r) \cup Writes(r)
  <2>1. Writes(r) = {<<"w", p>>}
    BY <1>5 DEF Writes
  <2>2. Reads(r) = Reads(o)
    BY <1>5 DEF Reads
  <2>3. <<"r", p>> \notin Reads(o) /\ <<"w", p>> \notin Reads(o)
    BY <1>4 DEF Reads
  <2>4. \A x \in Reads(o) : x # <<"w", o.out>>
    BY DEF Reads
  <2>5. <<"w", o.out>> # <<"w", p>> 
    BY <1>3, Numbers
  <2> QED
    BY <1>3, <1>5, <2>1, <2>2, <2>3, <2>4, <2>5 DEF Pipe
<1>8. av \in Argv /\ \A w \in Removed(edition) : Absent(av, w)
  BY <1>3, VectorWords DEF Removed
<1> QED
  BY <1>0, <1>1, <1>3, <1>5, <1>6, <1>7, <1>8, ExecKeeps DEF o

LEMMA RightKeeps == ASSUME IInv, NEW p \in Pids, RightExec(p) PROVE IInv'
<1> DEFINE o == procs[p]
           k == o.parent
           r == [o EXCEPT !.in = k,
                   !.ends = (@ \ (Pipe(k) \cup {<<"r", o.in>>})) \cup {<<"r", k>>} \cup {}]
<1>0. o.pc = "right" /\ UNCHANGED shellVars
  BY DEF RightExec, Listens
<1>1. PICK av \in Vector(o.argv) :
        procs' = [procs EXCEPT ![p] =
                    IF execvp(r, av).pc = "run" THEN execvp(r, av) ELSE [r EXCEPT !.pc = "pipe"]]
  BY DEF RightExec, Listens
<1>2. o \in Recs /\ ProcOK(p, o) /\ WordsOK(o)
  BY DEF IInv, BasicType, ProcInv
<1>3. /\ o.argv \in Argv /\ o.out \in {Tty, File} /\ o.ends = Reads(o) \cup Pipe(k)
      /\ k # Sh /\ k \in Pids /\ k # p /\ ~Writer(p, o)
      /\ \A w \in Removed(edition) : Absent(o.argv, w)
  BY <1>0, <1>2 DEF ProcOK, WordsOK, Recs, Writer
<1> HIDE DEF o
<1>4. (o.ends \ (Pipe(k) \cup {<<"r", o.in>>})) \cup {<<"r", k>>} \cup {} = {<<"r", k>>}
  BY <1>3 DEF Reads
<1>5. r = [o EXCEPT !.in = k, !.ends = {<<"r", k>>}]
  BY <1>4
<1>6. <<"r", k>> \in Pipe(k)
  BY DEF Pipe
<1> HIDE DEF r, k
<1>7. /\ r \in Recs /\ r.in = k /\ r.ends = {<<"r", k>>} /\ r.out = o.out /\ r.argv = o.argv
      /\ r.parent = o.parent /\ r.bg = o.bg
  BY <1>2, <1>3, <1>5, <1>6 DEF Recs, Streams
<1>8. Reads(r) = {<<"r", k>>} /\ Writes(r) = {}
  BY <1>3, <1>7, Numbers DEF Reads, Writes
<1>9. av \in Argv /\ \A w \in Removed(edition) : Absent(av, w)
  BY <1>3, VectorWords DEF Removed
<1>10. CASE execvp(r, av).pc = "run"
  <2>1. procs' = [procs EXCEPT ![p] = execvp(r, av)]
    BY <1>1, <1>10
  <2>2. r.ends = Reads(r) \cup Writes(r) /\ r.in = r.parent /\ r.parent # Sh
    BY <1>3, <1>7, <1>8 DEF k
  <2> QED
    BY <1>0, <1>3, <1>7, <1>9, <2>1, <2>2, ExecKeeps DEF o
<1>11. CASE execvp(r, av).pc # "run"
  <2> DEFINE x == [r EXCEPT !.pc = "pipe"]
  <2>1. procs' = [procs EXCEPT ![p] = x]
    BY <1>1, <1>11
  <2>2. /\ x \in Recs /\ x.pc = "pipe" /\ x.in = k /\ x.ends = {<<"r", k>>} /\ x.out = o.out
        /\ x.argv = o.argv /\ x.parent = o.parent /\ x.bg = o.bg
    BY <1>7 DEF Recs, Pcs
  <2> HIDE DEF x
  <2>3. Reads(x) = Reads(r)
    BY <1>7, <2>2 DEF Reads
  <2>4. ProcOK(p, x) /\ WordsOK(x)
    BY <1>3, <1>8, <2>2, <2>3 DEF ProcOK, WordsOK, k
  <2> QED
    BY <1>0, <1>3, <2>1, <2>2, <2>4, ProcMovesKeeps DEF o
<1> QED
  BY <1>10, <1>11

----------------------------------------------------------------------------
LEMMA Step == IInv /\ [Next]_vars => IInv'
<1> SUFFICES ASSUME IInv, [Next]_vars PROVE IInv'
  OBVIOUS
<1>1. CASE Shell \/ ForkFails
  BY <1>1, ReadLineKeeps, ExitKeeps, BuiltinKeeps, RunKeeps, WaitKeeps DEF Shell
<1>2. ASSUME NEW p \in Pids, Proc(p) \/ ProgramEnds(p) PROVE IInv'
  BY <1>2, Hw3ChildKeeps, ChildKeeps, NoPipeKeeps, PipeForkKeeps, PipeFailsKeeps, LeftKeeps,
     RightKeeps DEF Proc
<1>3. CASE UNCHANGED vars
  <2>1. BasicType'
    BY <1>3 DEF vars, shellVars, IInv, BasicType
  <2>2. ProcInv' /\ TreeInv' /\ WaitInv'
    BY <1>3 DEF vars, shellVars, IInv, ProcInv, WordsOK, Removed, TreeInv, WaitInv
  <2> QED
    BY <2>1, <2>2 DEF IInv
<1> QED
  BY <1>1, <1>2, <1>3 DEF Next

----------------------------------------------------------------------------
(* The words of a tidy line.                                               *)

FirstRemoved(ed, s) == SelectInSeq(s, LAMBDA w : w \in Removed(ed))

\* The first operator of a line, or 0 if there is none.
LEMMA FirstRemovedFacts ==
  ASSUME NEW s \in Argv, NEW ed
  PROVE  LET f == FirstRemoved(ed, s) IN
         /\ f \in 0..Len(s)
         /\ f = 0 => \A k \in 1..Len(s) : s[k] \notin Removed(ed)
         /\ f # 0 => s[f] \in Removed(ed) /\ \A k \in 1..Len(s) : k < f => s[k] \notin Removed(ed)
         /\ Bare(ed, s) = IF f = 0 THEN s ELSE Before(s, f)
<1> DEFINE I == {k \in 1..Len(s) : s[k] \in Removed(ed)}
           f == FirstRemoved(ed, s)
<1>1. f = IF I # {} THEN CHOOSE x \in I : \A y \in I : x <= y ELSE 0
  BY DEF FirstRemoved, SelectInSeq, Min
<1>2. I \in SUBSET Nat /\ Len(s) \in Nat
  BY DEF Argv
<1>3. Bare(ed, s) = IF f = 0 THEN s ELSE Before(s, f)
  BY DEF Bare, FirstRemoved
<1> HIDE DEF f
<1>4. CASE I # {}
  <2>1. \E x \in I : \A y \in I : x <= y
    <3> HIDE DEF I
    <3> QED
      BY <1>2, <1>4, Least
  <2>2. PICK x \in I : f = x /\ \A y \in I : x <= y
    BY <1>1, <1>4, <2>1
  <2> QED
    BY <1>2, <1>3, <2>2 DEF f
<1>5. CASE I = {}
  BY <1>1, <1>2, <1>3, <1>5 DEF f
<1> QED
  BY <1>4, <1>5

\* What is for programs on a line begins the line and has none of the operators.
LEMMA BareFacts ==
  ASSUME NEW s \in Argv, NEW ed
  PROVE  /\ Bare(ed, s) \in Argv /\ Len(Bare(ed, s)) \in 0..Len(s)
         /\ \A k \in 1..Len(Bare(ed, s)) : Bare(ed, s)[k] = s[k]
<1> DEFINE f == FirstRemoved(ed, s)
           b == Bare(ed, s)
<1>1. f \in 0..Len(s) /\ b = IF f = 0 THEN s ELSE Before(s, f)
  BY FirstRemovedFacts
<1>2. Len(s) \in Nat
  BY DEF Argv
<1> HIDE DEF f, b
<1>3. CASE f = 0
  BY <1>1, <1>2, <1>3 DEF b
<1>4. CASE f # 0
  <2>1. f \in 1..Len(s) /\ b = Before(s, f)
    BY <1>1, <1>2, <1>4
  <2>2. /\ Before(s, f) \in Argv /\ Len(Before(s, f)) = f - 1
        /\ \A i \in 1..f - 1 : Before(s, f)[i] = s[i]
    BY <2>1, Parts
  <2> QED
    BY <1>2, <2>1, <2>2 DEF b
<1> QED
  BY <1>3, <1>4

\* SP_HW3 cuts a line at its "&".
LEMMA BareHw3 ==
  ASSUME NEW s \in Argv
  PROVE  Bare("HW3", s) = IF Pos(s, "&") = 0 THEN s ELSE Before(s, Pos(s, "&"))
<1> DEFINE f == FirstRemoved("HW3", s)
<1>1. {k \in 1..Len(s) : s[k] \in Removed("HW3")} = {k \in 1..Len(s) : s[k] = "&"}
  BY DEF Removed
<1>2. f = Pos(s, "&")
  BY <1>1 DEF FirstRemoved, Pos, SelectInSeq
<1> QED
  BY <1>2, FirstRemovedFacts

\* The two redirections together cut a tidy line of SP_HW5 at its operator.
LEMMA BareHw5 ==
  ASSUME NEW s \in Argv, Tidy("HW5", s)
  PROVE  LET i == Pos(s, "<")
             t == IF i = 0 THEN s ELSE Before(s, i)
             j == Pos(t, ">")
         IN  Bare("HW5", s) = IF j = 0 THEN t ELSE Before(t, j)
<1> DEFINE f == FirstRemoved("HW5", s)
           i == Pos(s, "<")
           t == IF i = 0 THEN s ELSE Before(s, i)
           j == Pos(t, ">")
           L == Len(s)
<1>1. /\ f \in 0..L
      /\ f = 0 => \A k \in 1..L : s[k] \notin {"<", ">"}
      /\ f # 0 => s[f] \in {"<", ">"}
      /\ Bare("HW5", s) = IF f = 0 THEN s ELSE Before(s, f)
  BY FirstRemovedFacts DEF Removed
<1>2. L \in Nat /\ \A k \in 1..L : s[k] \in {"<", ">"} => k = L - 1
  BY DEF Tidy, Argv
<1>3. i \in 0..L /\ (i = 0 <=> Absent(s, "<")) /\ (i # 0 => s[i] = "<")
  BY PosFacts DEF Argv
<1> HIDE DEF f, i, L
<1>4. CASE i # 0
  <2>1. f = i
    BY <1>1, <1>2, <1>3, <1>4
  <2>2. t = Before(s, i) /\ i \in 1..L /\ i = L - 1
    BY <1>2, <1>3, <1>4
  <2>3. \A k \in 1..L : k < i => s[k] # ">"
    BY <1>2, <2>2
  <2>4. t \in Argv /\ Absent(t, ">")
    <3>1. i \in 1..Len(s) /\ \A k \in 1..Len(s) : k < i => s[k] # ">"
      BY <2>2, <2>3 DEF L
    <3> QED
      BY <2>2, <3>1, Parts
  <2> HIDE DEF t
  <2>5. j = 0
    BY <2>4, PosFacts DEF Argv
  <2> QED
    BY <1>1, <1>4, <2>1, <2>2, <2>5 DEF t, i
<1>5. CASE i = 0
  <2>1. t = s
    BY <1>5
  <2>2. j \in 0..L /\ (j = 0 <=> Absent(s, ">")) /\ (j # 0 => s[j] = ">")
    BY <2>1, PosFacts DEF Argv, L
  <2> HIDE DEF t, j
  <2>3. \A k \in 1..L : s[k] # "<"
    BY <1>3, <1>5 DEF Absent, L
  <2>4. f = j
    <3>1. CASE j = 0
      <4>1. \A k \in 1..L : s[k] # ">"
        BY <2>2, <3>1 DEF Absent, L
      <4> QED
        BY <1>1, <1>2, <2>3, <3>1, <4>1
    <3>2. CASE j # 0
      BY <1>1, <1>2, <2>2, <3>2
    <3> QED
      BY <3>1, <3>2
  <2> QED
    BY <1>1, <2>1, <2>4 DEF t, i, j
<1> QED
  BY <1>4, <1>5

\* Behind the pipe of a tidy line there is no other.
LEMMA OnePipe ==
  ASSUME NEW s \in Argv, Tidy("HW5", s), Piped("HW5", s)
  PROVE  Pos(Own("HW5", s, FALSE), "|") = 0
<1> DEFINE b == Bare("HW5", s)
           k == Pos(b, "|")
           a == After(b, k)
<1>1. /\ b \in Argv /\ Len(b) \in 0..Len(s) /\ Len(s) \in Nat
      /\ \A i \in 1..Len(b) : b[i] = s[i]
  BY BareFacts DEF Argv
<1>2. k # 0 /\ Own("HW5", s, FALSE) = a
  BY DEF Piped, Has, Own
<1>3. \A i, j \in 1..Len(s) : s[i] = "|" /\ s[j] = "|" => i = j
  BY DEF Tidy
<1> HIDE DEF b
<1>4. k \in 1..Len(b) /\ b[k] = "|"
  BY <1>1, <1>2, PosFacts DEF Argv
<1> HIDE DEF k
<1>5. a \in Argv /\ Len(a) = Len(b) - k /\ \A i \in 1..Len(b) - k : a[i] = b[k + i]
  BY <1>1, <1>4, Parts
<1> HIDE DEF a
<1>6. Absent(a, "|")
  <2> SUFFICES ASSUME NEW i \in 1..Len(a), a[i] = "|" PROVE FALSE
    BY DEF Absent
  <2>1. k + i \in 1..Len(b) /\ b[k + i] = "|"
    BY <1>1, <1>4, <1>5
  <2>2. s[k] = "|" /\ s[k + i] = "|" /\ k \in 1..Len(s) /\ k + i \in 1..Len(s)
    BY <1>1, <1>4, <2>1
  <2> QED
    BY <1>3, <1>4, <2>2
<1> QED
  BY <1>2, <1>5, <1>6, PosFacts DEF Argv

----------------------------------------------------------------------------
(* The programs of a tidy line get their own words.                        *)

\* One process becomes r, and the others keep their words.
LEMMA OwnOne ==
  ASSUME IInv, OwnInv, edition' = edition, NEW p \in Pids, NEW r,
         procs' = [procs EXCEPT ![p] = r], OwnOK(r)
  PROVE  OwnInv'
<1>1. procs'[p] = r /\ \A q \in Pids : q # p => procs'[q] = procs[q]
  BY DEF IInv, BasicType
<1>2. \A q \in Pids : OwnOK(procs'[q])
  BY <1>1 DEF OwnInv
<1> QED
  BY <1>2 DEF OwnInv, OwnOK

LEMMA OwnDead == \A r \in Recs : OwnOK(Dead(r))
<1> SUFFICES ASSUME NEW r \in Recs PROVE OwnOK(Dead(r))
  OBVIOUS
<1>1. Dead(r).pc = "dead"
  BY DeadFacts
<1> QED
  BY <1>1 DEF OwnOK

\* An exec with the own words.
LEMMA OwnExec ==
  ASSUME NEW r \in Recs, NEW av \in Argv,
         av # <<>> /\ av[1] \in Programs /\ Tidy(edition, r.line) =>
           LET s == Own(edition, r.line, r.parent = Sh)
           IN  av = s \/ (Piped(edition, r.line) /\ av = Append(s, "junk"))
  PROVE  OwnOK(execvp(r, av))
<1>1. CASE av # <<>> /\ av[1] \in Programs
  <2> DEFINE x == execvp(r, av)
  <2>1. x.pc = "run" /\ x.argv = av /\ x.line = r.line /\ x.parent = r.parent
    BY <1>1 DEF execvp, Recs
  <2> HIDE DEF x
  <2>2. OwnOK(x)
    BY <1>1, <2>1 DEF OwnOK
  <2> QED
    BY <2>2 DEF x
<1>2. CASE ~(av # <<>> /\ av[1] \in Programs)
  BY <1>2, OwnDead DEF execvp
<1> QED
  BY <1>1, <1>2

LEMMA OwnHw3Child == ASSUME IInv, OwnInv, NEW p \in Pids, Hw3Child(p) PROVE OwnInv'
<1> DEFINE r == procs[p]
           s == r.argv
           av == IF Background(s) THEN Before(s, Pos(s, "&")) ELSE s
<1>0. /\ edition = "HW3" /\ r.pc = "child" /\ edition' = edition
      /\ procs' = [procs EXCEPT ![p] = execvp(r, av)]
  BY DEF Hw3Child, shellVars
<1>1. r \in Recs /\ s \in Argv /\ r.line = s /\ s # <<>>
  BY <1>0 DEF IInv, BasicType, Recs, OwnInv, OwnOK, ProcInv, ProcOK
<1>2. /\ Own(edition, r.line, r.parent = Sh) = Bare("HW3", s)
      /\ Bare("HW3", s) = IF Pos(s, "&") = 0 THEN s ELSE Before(s, Pos(s, "&"))
  BY <1>0, <1>1, BareHw3 DEF Own, Piped
<1> HIDE DEF r
<1>3. /\ Tail(s) \in Argv /\ Len(s) \in Nat /\ Len(s) > 0 /\ Len(Tail(s)) = Len(s) - 1
      /\ \A k \in 1..Len(s) - 1 : Tail(s)[k] = s[k + 1]
  BY <1>1 DEF Argv
<1>4. Pos(s, "&") \in 0..Len(s) /\ (Pos(s, "&") # 0 => s[Pos(s, "&")] = "&")
      /\ (Pos(s, "&") = 0 <=> Absent(s, "&"))
  BY <1>1, PosFacts DEF Argv
<1>5. Background(s) <=> ~Absent(Tail(s), "&")
  <2>1. Pos(Tail(s), "&") = 0 <=> Absent(Tail(s), "&")
    BY <1>3, PosFacts DEF Argv
  <2> QED
    BY <1>0, <2>1 DEF Background, hw3_is_background, Has
<1> DEFINE b == Pos(s, "&")
<1>6. av \in Argv /\ (av # <<>> /\ av[1] \in Programs => av = Bare("HW3", s))
  <2>1. CASE Background(s)
    <3>1. PICK k \in 1..Len(s) - 1 : s[k + 1] = "&"
      BY <1>3, <1>5, <2>1 DEF Absent
    <3>2. k + 1 \in 1..Len(s)
      BY <1>3
    <3>3. b # 0 /\ b \in 1..Len(s)
      BY <1>4, <3>1, <3>2 DEF Absent
    <3>4. Before(s, b) \in Argv
      BY <1>1, <3>3, Parts
    <3> QED
      BY <1>2, <2>1, <3>3, <3>4
  <2>2. CASE ~Background(s)
    <3>1. av = s
      BY <2>2
    <3>2. ASSUME s[1] \in Programs PROVE b = 0
      <4> SUFFICES ASSUME b # 0 PROVE FALSE
        OBVIOUS
      <4>1. b \in 1..Len(s) /\ s[b] = "&"
        BY <1>3, <1>4
      <4> HIDE DEF b
      <4>2. b # 1
        BY <3>2, <4>1, ShellAssumption
      <4>3. b - 1 \in 1..Len(s) - 1 /\ Tail(s)[b - 1] = "&"
        <5>1. b - 1 \in 1..Len(s) - 1 /\ (b - 1) + 1 = b
          BY <1>3, <4>1, <4>2
        <5> QED
          BY <1>3, <4>1, <5>1
      <4> QED
        BY <1>3, <1>5, <2>2, <4>3 DEF Absent
    <3> QED
      BY <1>1, <1>2, <3>1, <3>2
  <2> QED
    BY <2>1, <2>2
<1> HIDE DEF av, s
<1>7. OwnOK(execvp(r, av))
  BY <1>1, <1>2, <1>6, OwnExec
<1> QED
  BY <1>0, <1>7, OwnOne

\* The words that the redirections leave.
LEMMA Redirected ==
  ASSUME NEW r \in Recs, redirect_out(redirect_in(r)).pc # "dead"
  PROVE  LET i == Pos(r.argv, "<")
             t == IF i = 0 THEN r.argv ELSE Before(r.argv, i)
             j == Pos(t, ">")
             x == redirect_out(redirect_in(r))
         IN  /\ x.argv = IF j = 0 THEN t ELSE Before(t, j)
             /\ x.line = r.line /\ x.parent = r.parent /\ x.pc = r.pc
<1> DEFINE y == redirect_in(r)
           x == redirect_out(y)
           i == Pos(r.argv, "<")
           t == IF i = 0 THEN r.argv ELSE Before(r.argv, i)
           j == Pos(t, ">")
<1>1. y \in Recs /\ y.parent = r.parent
  BY RedirectFacts
<1>2. y = Dead(r) \/ (y.argv = t /\ y.line = r.line /\ y.pc = r.pc)
  BY DEF redirect_in, Recs
<1> HIDE DEF y
<1>3. x = Dead(y) \/ ( /\ x.argv = IF Pos(y.argv, ">") = 0 THEN y.argv
                                   ELSE Before(y.argv, Pos(y.argv, ">"))
                       /\ x.line = y.line /\ x.pc = y.pc )
  BY <1>1 DEF redirect_out, Recs
<1>4. x \in Recs /\ x.parent = y.parent /\ x.pc \in {y.pc, "dead"}
  BY <1>1, RedirectFacts
<1>5. x.pc # "dead"
  BY DEF y
<1> HIDE DEF x
<1>6. x # Dead(y) /\ y # Dead(r)
  BY <1>1, <1>4, <1>5, DeadFacts
<1> QED
  BY <1>1, <1>2, <1>3, <1>4, <1>6 DEF x, y

LEMMA OwnChildMoves == ASSUME IInv, OwnInv, NEW p \in Pids, Child(p) PROVE OwnInv'
<1> DEFINE r == [procs[p] EXCEPT !.pc = "pipe"]
           x == redirect_out(redirect_in(r))
           l == procs[p].line
<1>0. /\ edition = "HW5" /\ procs[p].pc = "child" /\ edition' = edition
      /\ procs' = [procs EXCEPT ![p] = x]
  BY DEF Child, shellVars
<1>1. procs[p] \in Recs /\ procs[p].argv = l /\ l \in Argv /\ procs[p].parent = Sh
  BY <1>0 DEF IInv, BasicType, OwnInv, OwnOK, ProcInv, ProcOK, Recs
<1>2. r \in Recs /\ r.argv = l /\ r.line = l /\ r.parent = Sh /\ r.pc = "pipe"
  BY <1>1 DEF Recs, Pcs
<1> HIDE DEF r, l
<1>3. OwnOK(x)
  <2>1. CASE x.pc = "dead"
    BY <2>1 DEF OwnOK
  <2>2. CASE x.pc # "dead"
    <3> DEFINE i == Pos(l, "<")
               t == IF i = 0 THEN l ELSE Before(l, i)
               j == Pos(t, ">")
               a == IF j = 0 THEN t ELSE Before(t, j)
    <3>1. x.argv = a /\ x.line = l /\ x.parent = Sh /\ x.pc = "pipe"
      BY <1>2, <2>2, Redirected
    <3>2. Tidy("HW5", l) => a = Bare("HW5", l)
      BY <1>1, BareHw5
    <3> HIDE DEF a, x
    <3> QED
      BY <1>0, <3>1, <3>2 DEF OwnOK
  <2> QED
    BY <2>1, <2>2
<1> HIDE DEF x
<1> QED
  BY <1>0, <1>3, OwnOne

LEMMA OwnNoPipe == ASSUME IInv, OwnInv, NEW p \in Pids, NoPipe(p) PROVE OwnInv'
<1> DEFINE r == procs[p]
<1>0. /\ r.pc = "pipe" /\ edition' = edition /\ pipe_present(r.argv) <= 0
      /\ procs' = [procs EXCEPT ![p] =
                     IF pipe_present(r.argv) = -1 THEN Dead(r) ELSE execvp(r, r.argv)]
  BY DEF NoPipe, shellVars
<1>1. r \in Recs /\ r.argv \in Argv /\ r.line \in Argv /\ OwnOK(r)
  BY DEF IInv, BasicType, OwnInv, Recs
<1> HIDE DEF r
<1>2. CASE pipe_present(r.argv) = -1
  BY <1>0, <1>1, <1>2, OwnDead, OwnOne
<1>3. CASE pipe_present(r.argv) # -1
  <2>1. Pos(r.argv, "|") = 0
    <3>1. Pos(r.argv, "|") \in 0..Len(r.argv) /\ Len(r.argv) \in Nat
      BY <1>1, PosFacts DEF Argv
    <3> QED
      BY <1>0, <1>3, <3>1 DEF pipe_present
  <2>2. Tidy(edition, r.line) => r.argv = Own(edition, r.line, r.parent = Sh)
    BY <1>0, <1>1, <2>1 DEF OwnOK, Own, Piped, Has
  <2>3. OwnOK(execvp(r, r.argv))
    BY <1>1, <2>2, OwnExec
  <2> QED
    BY <1>0, <1>3, <2>3, OwnOne
<1> QED
  BY <1>2, <1>3

LEMMA OwnPipeFork == ASSUME IInv, OwnInv, NEW p \in Pids, PipeFork(p) PROVE OwnInv'
<1> DEFINE r == procs[p]
           n == NewPid
           k == pipe_present(r.argv) + 1
           e == r.ends \cup Pipe(p)
           left  == [r EXCEPT !.pc = "left", !.argv = Before(r.argv, k), !.ends = e]
           right == [r EXCEPT !.pc = "right", !.argv = After(r.argv, k), !.ends = e, !.parent = p]
<1>0. /\ r.pc = "pipe" /\ pipe_present(r.argv) > 0 /\ Free # {} /\ edition' = edition
      /\ procs' = [procs EXCEPT ![p] = left, ![n] = right]
  BY DEF PipeFork, shellVars
<1>1. /\ r \in Recs /\ r.argv \in Argv /\ r.line \in Argv /\ OwnOK(r) /\ edition = "HW5"
      /\ p # Sh
  BY <1>0, Numbers DEF IInv, BasicType, OwnInv, Recs, OwnOK
<1>2. n \in Pids /\ n # p
  BY <1>0, NewPidFree
<1>3. k = Pos(r.argv, "|") /\ k # 0
  <2>1. Pos(r.argv, "|") \in 0..Len(r.argv) /\ Len(r.argv) \in Nat
    BY <1>1, PosFacts DEF Argv
  <2> QED
    BY <1>0, <2>1 DEF pipe_present
<1> HIDE DEF r, n, k, e
<1>4. Tidy(edition, r.line) =>
        /\ r.parent = Sh /\ Piped(edition, r.line)
        /\ Before(r.argv, k) = Own(edition, r.line, TRUE)
        /\ After(r.argv, k) = Own(edition, r.line, FALSE)
  <2> SUFFICES ASSUME Tidy(edition, r.line)
               PROVE  /\ r.parent = Sh /\ Piped(edition, r.line)
                      /\ Before(r.argv, k) = Own(edition, r.line, TRUE)
                      /\ After(r.argv, k) = Own(edition, r.line, FALSE)
    OBVIOUS
  <2>1. r.parent = Sh
    <3> SUFFICES ASSUME r.parent # Sh PROVE FALSE
      OBVIOUS
    <3>1. Piped(edition, r.line) /\ r.argv = Own(edition, r.line, FALSE)
      BY <1>0, <1>1 DEF OwnOK
    <3>2. Pos(r.argv, "|") = 0
      BY <1>1, <3>1, OnePipe
    <3> QED
      BY <1>3, <3>2
  <2>2. r.argv = Bare(edition, r.line)
    BY <1>0, <1>1, <2>1 DEF OwnOK
  <2> QED
    BY <1>1, <1>3, <2>1, <2>2 DEF Own, Piped, Has
<1>5. /\ left.pc = "left" /\ left.argv = Before(r.argv, k) /\ left.line = r.line
      /\ left.parent = r.parent
      /\ right.pc = "right" /\ right.argv = After(r.argv, k) /\ right.line = r.line
      /\ right.parent = p
  BY <1>1 DEF Recs
<1> HIDE DEF left, right
<1>6. OwnOK(left)
  BY <1>1, <1>4, <1>5 DEF OwnOK
<1>7. OwnOK(right)
  BY <1>1, <1>4, <1>5 DEF OwnOK
<1>8. /\ procs'[p] = left /\ procs'[n] = right
      /\ \A q \in Pids : q # p /\ q # n => procs'[q] = procs[q]
  BY <1>0, <1>2 DEF IInv, BasicType
<1>9. \A q \in Pids : OwnOK(procs'[q])
  BY <1>6, <1>7, <1>8 DEF OwnInv
<1>10. edition' = edition
  BY <1>0
<1> QED
  BY <1>9, <1>10 DEF OwnInv, OwnOK

LEMMA OwnLeft == ASSUME IInv, OwnInv, NEW p \in Pids, LeftExec(p) PROVE OwnInv'
<1> DEFINE o == procs[p]
           r == [o EXCEPT !.out = p, !.ends = (@ \ {<<"r", p>>, <<"w", o.out>>}) \cup {<<"w", p>>}]
<1>0. o.pc = "left" /\ edition' = edition
  BY DEF LeftExec, shellVars
<1>1. PICK av \in Vector(o.argv) : procs' = [procs EXCEPT ![p] = execvp(r, av)]
  BY DEF LeftExec
<1>2. /\ o \in Recs /\ o.argv \in Argv /\ o.ends \subseteq UNION {Pipe(q) : q \in Pids} /\ OwnOK(o)
  BY DEF IInv, BasicType, OwnInv, Recs
<1> HIDE DEF o
<1>3. r \in Recs /\ r.line = o.line /\ r.parent = o.parent
  <2>1. <<"w", p>> \in Pipe(p)
    BY DEF Pipe
  <2>2. (o.ends \ {<<"r", p>>, <<"w", o.out>>}) \cup {<<"w", p>>} \subseteq UNION {Pipe(q) : q \in Pids}
    BY <1>2, <2>1
  <2> QED
    BY <1>2, <2>2 DEF Recs, Streams
<1> HIDE DEF r
<1>4. av \in Argv /\ (av = o.argv \/ av = Append(o.argv, "junk") \/ av = <<>>)
  BY <1>2, VectorWords DEF Vector
<1>5. OwnOK(execvp(r, av))
  <2>1. Tidy(edition, r.line) =>
          /\ Piped(edition, r.line)
          /\ o.argv = Own(edition, r.line, r.parent = Sh)
    BY <1>0, <1>2, <1>3 DEF OwnOK
  <2> QED
    BY <1>3, <1>4, <2>1, OwnExec
<1> QED
  BY <1>0, <1>1, <1>5, OwnOne

LEMMA OwnRight == ASSUME IInv, OwnInv, NEW p \in Pids, RightExec(p) PROVE OwnInv'
<1> DEFINE o == procs[p]
           k == o.parent
           r == [o EXCEPT !.in = k,
                   !.ends = (@ \ (Pipe(k) \cup {<<"r", o.in>>})) \cup {<<"r", k>>} \cup {}]
<1>0. o.pc = "right" /\ edition' = edition
  BY DEF RightExec, Listens, shellVars
<1>1. PICK av \in Vector(o.argv) :
        procs' = [procs EXCEPT ![p] =
                    IF execvp(r, av).pc = "run" THEN execvp(r, av) ELSE [r EXCEPT !.pc = "pipe"]]
  BY DEF RightExec, Listens
<1>2. /\ o \in Recs /\ o.argv \in Argv /\ o.ends \subseteq UNION {Pipe(q) : q \in Pids}
      /\ OwnOK(o) /\ k # Sh /\ k \in Pids
  BY <1>0 DEF IInv, BasicType, OwnInv, Recs, ProcInv, ProcOK
<1> HIDE DEF o
<1>3. r \in Recs /\ r.line = o.line /\ r.parent = k /\ r.argv = o.argv
  <2>1. <<"r", k>> \in Pipe(k)
    BY DEF Pipe
  <2>2. (o.ends \ (Pipe(k) \cup {<<"r", o.in>>})) \cup {<<"r", k>>} \cup {}
          \subseteq UNION {Pipe(q) : q \in Pids}
    BY <1>2, <2>1
  <2> QED
    BY <1>2, <2>2 DEF Recs, Streams
<1> HIDE DEF r
<1>4. av \in Argv /\ (av = o.argv \/ av = Append(o.argv, "junk") \/ av = <<>>)
  BY <1>2, VectorWords DEF Vector
<1>5. edition = "HW5" /\ (Tidy(edition, r.line) =>
        /\ Piped(edition, r.line)
        /\ o.argv = Own(edition, r.line, r.parent = Sh))
  BY <1>0, <1>2, <1>3 DEF OwnOK
<1>6. CASE execvp(r, av).pc = "run"
  <2>1. OwnOK(execvp(r, av))
    BY <1>3, <1>4, <1>5, OwnExec
  <2>2. procs' = [procs EXCEPT ![p] = execvp(r, av)]
    BY <1>1, <1>6
  <2> QED
    BY <1>0, <2>1, <2>2, OwnOne
<1>7. CASE execvp(r, av).pc # "run"
  <2> DEFINE x == [r EXCEPT !.pc = "pipe"]
  <2>1. procs' = [procs EXCEPT ![p] = x]
    BY <1>1, <1>7
  <2>2. x.pc = "pipe" /\ x.argv = o.argv /\ x.line = r.line /\ x.parent = k /\ k # Sh
    BY <1>2, <1>3 DEF Recs
  <2> HIDE DEF x
  <2>3. OwnOK(x)
    BY <1>3, <1>5, <2>2 DEF OwnOK
  <2> QED
    BY <1>0, <2>1, <2>3, OwnOne
<1> QED
  BY <1>6, <1>7

\* The steps of the shell: only a child appears, or one goes.
LEMMA OwnShell == ASSUME IInv, OwnInv, Shell \/ ForkFails \/ UNCHANGED vars PROVE OwnInv'
<1>1. CASE ReadLine \/ Eof \/ Builtin \/ ForkFails \/ UNCHANGED vars
  <2>1. procs' = procs /\ edition' = edition
    BY <1>1 DEF ReadLine, Eof, Builtin, ForkFails, vars, shellVars
  <2> QED
    BY <2>1 DEF OwnInv, OwnOK
<1>2. CASE run_command
  <2> DEFINE r == [Unused EXCEPT !.pc = "child", !.argv = argv, !.line = argv,
                                 !.bg = Background(argv)]
  <2>1. procs' = [procs EXCEPT ![NewPid] = r] /\ edition' = edition /\ NewPid \in Pids
    BY <1>2, NewPidFree DEF run_command
  <2>2. r.pc = "child" /\ r.argv = argv /\ r.line = argv
    BY DEF Unused
  <2> HIDE DEF r
  <2>3. OwnOK(r)
    BY <2>2 DEF OwnOK
  <2> QED
    BY <2>1, <2>3, OwnOne
<1>3. CASE Wait
  <2> DEFINE r == [procs[child] EXCEPT !.pc = "reaped"]
  <2>1. child \in Pids /\ procs[child] \in Recs
    BY <1>3 DEF Wait, IInv, BasicType
  <2>2. procs' = [procs EXCEPT ![child] = r] /\ edition' = edition
    BY <1>3, <2>1 DEF Wait, IInv, BasicType
  <2>3. r.pc = "reaped"
    BY <2>1 DEF Recs
  <2> HIDE DEF r
  <2>4. OwnOK(r)
    BY <2>3 DEF OwnOK
  <2> QED
    BY <2>1, <2>2, <2>4, OwnOne
<1> QED
  BY <1>1, <1>2, <1>3 DEF Shell

LEMMA OwnStep == IInv /\ OwnInv /\ [Next]_vars => OwnInv'
<1> SUFFICES ASSUME IInv, OwnInv, [Next]_vars PROVE OwnInv'
  OBVIOUS
<1>1. CASE Shell \/ ForkFails \/ UNCHANGED vars
  BY <1>1, OwnShell
<1>2. ASSUME NEW p \in Pids, PipeFails(p) \/ ProgramEnds(p) PROVE OwnInv'
  <2>1. procs' = [procs EXCEPT ![p] = Dead(procs[p])] /\ edition' = edition /\ procs[p] \in Recs
    BY <1>2 DEF PipeFails, ProgramEnds, shellVars, IInv, BasicType
  <2> QED
    BY <2>1, OwnDead, OwnOne
<1>3. ASSUME NEW p \in Pids, Proc(p) \/ ProgramEnds(p) PROVE OwnInv'
  BY <1>2, <1>3, OwnHw3Child, OwnChildMoves, OwnNoPipe, OwnPipeFork, OwnLeft, OwnRight DEF Proc
<1> QED
  BY <1>1, <1>3 DEF Next

----------------------------------------------------------------------------
LEMMA Invariance == Spec => []IInv
BY Initial, Step, PTL DEF Spec

LEMMA OwnInvariance == Spec => []OwnInv
<1>1. Init => OwnInv
  BY DEF Init, OwnInv, OwnOK, Unused
<1> QED
  BY <1>1, Invariance, OwnStep, PTL DEF Spec

\* Whatever is typed, no program finds an operator that its shell takes out among
\* its arguments; and the programs of a tidy line get their own words.
THEOREM WordsOfPrograms == Spec => []ProgramWords
<1>1. IInv /\ OwnInv => ProgramWords
  <2> SUFFICES ASSUME IInv, OwnInv PROVE ProgramWords
    OBVIOUS
  <2>1. TypeOK
    BY DEF IInv, BasicType, TypeOK, Recs, Pcs, Streams
  <2>2. OperatorsConsumed
    <3> SUFFICES ASSUME NEW p \in Pids, procs[p].pc = "run", NEW w \in Removed(edition)
                 PROVE  ~Has(procs[p].argv, w)
      BY DEF OperatorsConsumed
    <3>1. procs[p].argv \in Argv
      BY DEF IInv, BasicType, Recs
    <3>2. Absent(procs[p].argv, w)
      BY DEF IInv, ProcInv, WordsOK
    <3> QED
      BY <3>1, <3>2, PosFacts DEF Has, Argv
  <2>3. OwnWords
    BY DEF OwnInv, OwnOK, OwnWords
  <2> QED
    BY <2>1, <2>2, <2>3 DEF ProgramWords
<1> QED
  BY <1>1, Invariance, OwnInvariance, PTL

\* At the prompt the shell has waited for the process that it forked for a
\* foreground command, and for no other: what that one forked may still run.
THEOREM OwnChild == Spec => []OwnChildReaped
<1>1. IInv => OwnChildReaped
  BY DEF IInv, WaitInv, OwnChildReaped
<1> QED
  BY <1>1, Invariance, PTL

\* In a pipeline of any length a program reads from the process it was forked
\* from, which writes to it, and neither holds any other end of a pipe.
THEOREM Wiring == Spec => []Wired
<1>1. IInv => Wired
  <2> SUFFICES ASSUME IInv, NEW p \in Pids, procs[p].pc = "run"
               PROVE  LET q == procs[p].parent IN
                      /\ q # Sh => procs[p].in = q /\ (procs[q].pc = "run" => procs[q].out = q)
                      /\ procs[p].ends = Reads(procs[p]) \cup Writes(procs[p])
    BY DEF Wired, Reads, Writes
  <2>1. ProcOK(p, procs[p])
    BY DEF IInv, ProcInv
  <2>2. procs[p].parent # Sh => Writer(procs[p].parent, procs[procs[p].parent])
    BY DEF IInv, TreeInv
  <2> QED
    BY <2>1, <2>2 DEF ProcOK, Writer
<1> QED
  BY <1>1, Invariance, PTL
=============================================================================
