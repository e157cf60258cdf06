------------------------------- MODULE Shell -------------------------------
(***************************************************************************)
(* The two shells of the repository: SP_HW3 (builtins, background jobs)    *)
(* and SP_HW5/Part2 (redirections and pipes as well).  The shell reads a   *)
(* line, cuts it into words, runs a builtin itself and forks for anything  *)
(* else; a process forked by the shell redirects, and forks once more for  *)
(* the right side of a pipe.                                               *)
(*                                                                         *)
(* A word is a string of the model; the blank and the newline are tokens.  *)
(* The copies of the argument vector that pipe_and_exec makes are one      *)
(* entry short: the NULL lands one entry past the terminator, which is     *)
(* read uninitialised.  Vector is what execvp may find there.              *)
(***************************************************************************)
EXTENDS Integers, SequencesExt

CONSTANTS
  Editions,  \* which of the shells is run: a subset of {"HW3", "HW5"}
  Scripts,   \* what may be on the shell's standard input, in tokens
  LONGLINE,  \* tokens that fit into line, one more than fgets reads
  Pids,      \* 1..n: how many processes the system can start
  Programs,  \* words that execvp finds
  Filters,   \* programs that read a pipe to its end
  Endless,   \* programs that write to a pipe until nobody reads it
  Tight,     \* words that fill their block of the heap to the last byte
  Dirs, Readable, Writable  \* arguments with which chdir and open succeed

ASSUME ShellAssumption ==
  /\ Editions \subseteq {"HW3", "HW5"} /\ LONGLINE \in Nat \ {0, 1}
  /\ Scripts \subseteq Seq(STRING) /\ Pids \subseteq Nat \ {0}
  /\ Filters \cup Endless \subseteq Programs /\ "&" \notin Programs

VARIABLES
  edition, input,
  sh,      \* where the shell is
  argv,    \* myArgv
  child,   \* the process the shell waits for
  cwd,
  procs    \* every process below the shell

shellVars == <<edition, input, sh, argv, child, cwd>>
vars      == <<shellVars, procs>>

Sh   == 0   \* the shell as a parent
Tty  == 0   \* a standard stream as inherited from the shell
File == -1  \* a standard stream redirected to a file; k > 0 is the pipe of k
Pos(s, w)    == SelectInSeq(s, LAMBDA x : x = w)
Has(s, w)    == Pos(s, w) # 0
Before(s, k) == SubSeq(s, 1, k - 1)
After(s, k)  == SubSeq(s, k + 1, Len(s))

\* line is history: the words of the line that a process belongs to.
Unused == [pc |-> "free", argv |-> <<>>, line |-> <<>>, in |-> Tty, out |-> Tty,
           ends |-> {}, parent |-> Sh, bg |-> FALSE]

Init ==
  /\ edition \in Editions /\ input \in Scripts
  /\ sh = "prompt" /\ argv = <<>> /\ child = Sh /\ cwd = "home"
  /\ procs = [p \in Pids |-> Unused]

----------------------------------------------------------------------------
(* Reading a line.                                                         *)

\* Length of the line that fgets takes: up to the newline, or a bufferful.
fgets(s) ==
  LET nl == Pos(s, "\n")
      n  == IF nl = 0 THEN Len(s) ELSE nl
  IN  IF n < LONGLINE THEN n ELSE LONGLINE - 1

\* strtok: blanks, tabs and the newline separate words and are dropped.
Words(line) ==
  LET words[k \in 0..Len(line)] ==
        IF k = 0 THEN <<>>
        ELSE IF line[k] \in {" ", "\n"} THEN words[k - 1] ELSE Append(words[k - 1], line[k])
  IN  words[Len(line)]
\* SP_HW3 copies the first word of a line without room for its NUL: when the
\* word fills its block, a later malloc or free may find the heap overwritten.
Spoilt(av) == edition = "HW3" /\ av # <<>> /\ av[1] \in Tight

Parsed(s, av) == [sh |-> s, argv |-> av]
parse(line) ==
  {IF Words(line) = <<>> THEN Parsed("prompt", <<>>) ELSE Parsed("dispatch", Words(line))}
hw3_parse(line) ==
  parse(line) \cup IF Spoilt(Words(line)) THEN {Parsed("crash", <<>>)} ELSE {}

free_argv == /\ argv' = <<>>
             /\ sh' \in {"prompt"} \cup IF Spoilt(argv) THEN {"crash"} ELSE {}

ReadLine ==
  /\ sh = "prompt" /\ input # <<>>
  /\ LET n    == fgets(input)
         line == SubSeq(input, 1, n)
     IN  /\ \E r \in IF edition = "HW3" THEN hw3_parse(line) ELSE parse(line) :
              argv' = r.argv /\ sh' = r.sh
         /\ input' = After(input, n)
  /\ UNCHANGED <<edition, child, cwd, procs>>

\* End of the input.
Eof ==
  /\ sh = "prompt" /\ input = <<>>
  /\ sh' = "exit" /\ UNCHANGED <<edition, input, argv, child, cwd, procs>>

----------------------------------------------------------------------------
(* Builtins: each gives the set of its possible results.  The shell goes   *)
(* on ("prompt"), exits, or crashes on a NULL argument.  What a builtin     *)
(* prints is left out.                                                     *)

Result(s, dir) == [sh |-> s, cwd |-> dir]
Goes  == {Result("prompt", cwd)}
Exits == {Result("exit", cwd)}
Crash == {Result("crash", cwd)}

atoi(w) == IF w \in {"1", "2", "3"} THEN Pos(<<"1", "2", "3">>, w) ELSE 0

bi_builtin(av) == IF Len(av) = 1 THEN Crash ELSE Goes

\* chdir(NULL) fails as any other bad directory does.
bi_cd(av) == IF Len(av) > 1 /\ av[2] \in Dirs THEN {Result("prompt", av[2])} ELSE Exits

\* With -n the third word is the place of the word to print, and a place that
\* does not exist ends the shell; atoi(NULL) crashes it.
EchoNth(av) == LET n == atoi(av[3]) + 2 IN IF n <= 2 \/ n >= Len(av) THEN Exits ELSE Goes

hw3_bi_echo(av) ==
  IF Len(av) = 1 \/ (av[2] = "-n" /\ Len(av) = 2) THEN Crash
  ELSE IF av[2] = "-n" THEN EchoNth(av) ELSE Goes

bi_echo(av) == IF Len(av) = 1 THEN Goes ELSE hw3_bi_echo(av)

bi_hostname(av) == Goes \cup Exits
bi_id(av)       == Goes \cup Exits
bi_pwd(av)      == Goes \cup Exits
bi_quit(av)     == Exits

QuitWords == {"quit", "exit", "bye", "logout"}
inbuilts  == QuitWords \cup {"builtin", "echo", "cd", "pwd", "id", "hostname"}
hw3_inbuilts == QuitWords \cup {"echo"}

is_builtin(w) == w \in IF edition = "HW3" THEN hw3_inbuilts ELSE inbuilts

do_builtin(av) ==
  CASE av[1] = "echo" /\ edition = "HW3" -> hw3_bi_echo(av)
    [] av[1] = "echo" /\ edition = "HW5" -> bi_echo(av)
    [] av[1] \in QuitWords  -> bi_quit(av)
    [] av[1] = "builtin"    -> bi_builtin(av)
    [] av[1] = "cd"         -> bi_cd(av)
    [] av[1] = "pwd"        -> bi_pwd(av)
    [] av[1] = "id"         -> bi_id(av)
    [] av[1] = "hostname"   -> bi_hostname(av)

Builtin ==
  /\ sh = "dispatch" /\ is_builtin(argv[1])
  /\ \E r \in do_builtin(argv) :
       /\ IF r.sh = "prompt" THEN free_argv ELSE argv' = <<>> /\ sh' = r.sh
       /\ cwd' = r.cwd
  /\ UNCHANGED <<edition, input, child, procs>>

----------------------------------------------------------------------------
(* run_command.  Only HW5 looks at the first word for an "&".              *)

hw3_is_background(av) == Has(Tail(av), "&")
is_background(av)     == Has(av, "&")
Background(av) == IF edition = "HW3" THEN hw3_is_background(av) ELSE is_background(av)

Free == {p \in Pids : procs[p].pc = "free"}
NewPid == CHOOSE p \in Free : \A q \in Free : p <= q

\* The shell forks a child and, unless it is a background job, waits for it.
run_command ==
  /\ sh = "dispatch" /\ ~is_builtin(argv[1]) /\ Free # {}
  /\ procs' = [procs EXCEPT ![NewPid] =
                 [Unused EXCEPT !.pc = "child", !.argv = argv, !.line = argv,
                                !.bg = Background(argv)]]
  /\ IF Background(argv) THEN free_argv /\ child' = child
                         ELSE sh' = "wait" /\ argv' = argv /\ child' = NewPid
  /\ UNCHANGED <<edition, input, cwd>>

ForkFails ==
  /\ sh = "dispatch" /\ ~is_builtin(argv[1])
  /\ sh' = "exit" /\ UNCHANGED <<edition, input, argv, child, cwd, procs>>

\* Mutant: wait for any child instead of the one just started.
WaitAny ==
  /\ sh = "wait" /\ free_argv
  /\ \E p \in Pids : /\ procs[p].pc = "dead" /\ procs[p].parent = Sh
                     /\ procs' = [procs EXCEPT ![p].pc = "reaped"]
  /\ UNCHANGED <<edition, input, child, cwd>>

\* waitpid returns.  No handler is installed and the child is the shell's
\* own, so that it cannot fail.
Wait ==
  /\ sh = "wait" /\ procs[child].pc = "dead"
  /\ free_argv
  /\ procs' = [procs EXCEPT ![child].pc = "reaped"]
  /\ UNCHANGED <<edition, input, child, cwd>>

----------------------------------------------------------------------------
(* Processes below the shell.                                              *)

Dead(r) == [r EXCEPT !.pc = "dead", !.argv = <<>>, !.line = <<>>, !.ends = {}]

execvp(r, av) ==
  IF av # <<>> /\ av[1] \in Programs THEN [r EXCEPT !.pc = "run", !.argv = av] ELSE Dead(r)

\* Mutant: the operator and the file name stay among the arguments.
RedirectKeepsWords(r) ==
  LET k == Pos(r.argv, "<") IN
  IF k = 0 THEN r
  ELSE IF k < Len(r.argv) /\ r.argv[k + 1] \in Readable THEN [r EXCEPT !.in = File]
  ELSE Dead(r)

\* Everything from the operator on is dropped, not only the file name.
redirect_in(r) ==
  LET k == Pos(r.argv, "<") IN
  IF k = 0 THEN r
  ELSE IF k < Len(r.argv) /\ r.argv[k + 1] \in Readable
       THEN [r EXCEPT !.in = File, !.argv = Before(r.argv, k)]
  ELSE Dead(r)

redirect_out(r) ==
  LET k == Pos(r.argv, ">") IN
  IF k = 0 THEN r
  ELSE IF k < Len(r.argv) /\ r.argv[k + 1] \in Writable
       THEN [r EXCEPT !.out = File, !.argv = Before(r.argv, k)]
  ELSE Dead(r)

Hw3Child(p) ==
  /\ edition = "HW3" /\ procs[p].pc = "child"
  /\ procs' = LET r == procs[p] IN [procs EXCEPT ![p] =
       execvp(r, IF Background(r.argv) THEN Before(r.argv, Pos(r.argv, "&")) ELSE r.argv)]
  /\ UNCHANGED shellVars

Child(p) ==
  /\ edition = "HW5" /\ procs[p].pc = "child"
  /\ LET r == [procs[p] EXCEPT !.pc = "pipe"]
     IN  procs' = [procs EXCEPT ![p] = redirect_out(redirect_in(r))]
  /\ UNCHANGED shellVars

\* -1: no command at one side of the first pipe; 0: no pipe.
pipe_present(av) ==
  LET k == Pos(av, "|") IN
  IF av = <<>> \/ k = 1 \/ (k # 0 /\ k = Len(av)) THEN -1
  ELSE IF k = 0 THEN 0 ELSE k - 1

NoPipe(p) ==
  /\ procs[p].pc = "pipe" /\ pipe_present(procs[p].argv) <= 0
  /\ procs' = [procs EXCEPT ![p] =
                 IF pipe_present(@.argv) = -1 THEN Dead(@) ELSE execvp(@, @.argv)]
  /\ UNCHANGED shellVars

Pipe(p) == {<<"r", p>>, <<"w", p>>}

\* Fork for the right side: the new process inherits every descriptor.
PipeFork(p) ==
  /\ procs[p].pc = "pipe" /\ pipe_present(procs[p].argv) > 0 /\ Free # {}
  /\ LET r == procs[p]
         k == pipe_present(r.argv) + 1
         e == r.ends \cup Pipe(p)
     IN  procs' = [procs EXCEPT
           ![p] = [r EXCEPT !.pc = "left", !.argv = Before(r.argv, k), !.ends = e],
           ![NewPid] = [r EXCEPT !.pc = "right", !.argv = After(r.argv, k),
                                 !.ends = e, !.parent = p]]
  /\ UNCHANGED shellVars

\* malloc finds its heap overwritten, or pipe or fork fails.
PipeFails(p) ==
  /\ procs[p].pc = "pipe" /\ pipe_present(procs[p].argv) > 0
  /\ procs' = [procs EXCEPT ![p] = Dead(@)]
  /\ UNCHANGED shellVars

\* The entry after the last is NULL by chance, or a stray string, or no address
\* at all, with which execvp fails.
Vector(av) == {av, Append(av, "junk"), <<>>}

\* Mutant: the left side keeps the read end open.
LeftKeepsReadEnd(p) ==
  /\ procs[p].pc = "left"
  /\ \E av \in Vector(procs[p].argv) :
       LET r == [procs[p] EXCEPT !.out = p,
                   !.ends = (@ \ {<<"w", procs[p].out>>}) \cup Pipe(p)]
       IN  procs' = [procs EXCEPT ![p] = execvp(r, av)]
  /\ UNCHANGED shellVars

\* dup2 closes what standard output was, a pipe included.
LeftExec(p) ==
  /\ procs[p].pc = "left"
  /\ \E av \in Vector(procs[p].argv) :
       LET r == [procs[p] EXCEPT !.out = p,
                   !.ends = (@ \ {<<"r", p>>, <<"w", procs[p].out>>}) \cup {<<"w", p>>}]
       IN  procs' = [procs EXCEPT ![p] = execvp(r, av)]
  /\ UNCHANGED shellVars

\* After dup2 and both closes; the right side goes round again if execvp fails.
Listens(p, keep) ==
  /\ procs[p].pc = "right"
  /\ \E av \in Vector(procs[p].argv) :
       LET k == procs[p].parent
           r == [procs[p] EXCEPT !.in = k,
                   !.ends = (@ \ (Pipe(k) \cup {<<"r", procs[p].in>>})) \cup {<<"r", k>>} \cup keep]
           x == execvp(r, av)
       IN  procs' = [procs EXCEPT ![p] = IF x.pc = "run" THEN x ELSE [r EXCEPT !.pc = "pipe"]]
  /\ UNCHANGED shellVars

\* Mutant: the right side keeps the write end of its own input open.
RightKeepsWriteEnd(p) == Listens(p, {<<"w", procs[p].parent>>})

RightExec(p) == Listens(p, {})

\* A program ends: any may at any time; a filter must once nobody can write
\* to its input, an endless one once nobody reads the pipe, others anyway.
Holders(e) == {q \in Pids : e \in procs[q].ends}
MustEnd(p) ==
  LET r == procs[p] IN
  /\ r.argv[1] \in Endless /\ r.out > 0 => Holders(<<"r", r.out>>) = {}
  /\ r.argv[1] \in Filters /\ r.in > 0 => Holders(<<"w", r.in>>) = {}

ProgramEnds(p) ==
  /\ procs[p].pc = "run"
  /\ procs' = [procs EXCEPT ![p] = Dead(@)]
  /\ UNCHANGED shellVars

----------------------------------------------------------------------------
Shell    == ReadLine \/ Eof \/ Builtin \/ run_command \/ Wait
Proc(p)  == \/ Hw3Child(p) \/ Child(p) \/ NoPipe(p) \/ PipeFork(p) \/ PipeFails(p)
            \/ LeftExec(p) \/ RightExec(p)
Next     == Shell \/ ForkFails \/ \E p \in Pids : Proc(p) \/ ProgramEnds(p)
Spec     == Init /\ [][Next]_vars

\* Every process is scheduled, and programs end when they must.
FairSpec ==
  /\ Spec /\ WF_vars(Shell)
  /\ \A p \in Pids : WF_vars(Proc(p)) /\ WF_vars(procs[p].pc = "run" /\ MustEnd(p) /\ ProgramEnds(p))

----------------------------------------------------------------------------
(* Properties.                                                             *)

\* Every variable has its type.
TypeOK ==
  /\ sh \in {"prompt", "dispatch", "wait", "exit", "crash"}
  /\ child \in Pids \cup {Sh} /\ cwd \in Dirs \cup {"home"}
  /\ sh = "dispatch" => argv # <<>>
  /\ \A p \in Pids :
       /\ procs[p].pc \in {"free", "child", "pipe", "left", "right", "run", "dead", "reaped"}
       /\ procs[p].in \in Pids \cup {Tty, File} /\ procs[p].out \in Pids \cup {Tty, File}
       /\ procs[p].ends \subseteq UNION {Pipe(q) : q \in Pids}
       /\ procs[p].parent \in Pids \cup {Sh}

\* When the shell prompts again it has waited for the process that it forked
\* for a foreground command itself, whatever background jobs ended meanwhile
\* (run_command.c, waitpid).  Of a pipeline that is the first program only:
\* the others are not children of the shell and may still be running.
OwnChildReaped ==
  sh \in {"prompt", "dispatch"} =>
    \A p \in Pids : procs[p].parent = Sh /\ procs[p].pc \notin {"free", "reaped"} => procs[p].bg

\* A program that a pipe was made for reads the pipe its parent made, and
\* the parent's program writes to it; neither holds another end of a pipe
\* (pipe_command.c, the closes and dup2s of both sides).
Wired ==
  \A p \in Pids : procs[p].pc = "run" =>
    LET q == procs[p].parent IN
    /\ q # Sh => procs[p].in = q /\ (procs[q].pc = "run" => procs[q].out = q)
    /\ procs[p].ends = {<<"r", k>> : k \in {procs[p].in} \cap Pids}
                       \cup {<<"w", k>> : k \in {procs[p].out} \cap Pids}

\* The operators that an edition of the shell takes out of the arguments.
Removed(ed) == IF ed = "HW3" THEN {"&"} ELSE {"<", ">"}

\* A program never gets one of them as an argument.
OperatorsConsumed ==
  \A p \in Pids : procs[p].pc = "run" =>
    \A w \in Removed(edition) : ~Has(procs[p].argv, w)

\* A line on which the shells keep to their comments: "&" or a redirection with
\* its file name comes last, at most one pipe, and no "&" in SP_HW5.
Tidy(ed, line) ==
  IF ed = "HW3" THEN \A k \in 1..Len(line) - 1 : line[k] # "&"
  ELSE /\ \A k \in 1..Len(line) : line[k] # "&"
       /\ \A k \in 1..Len(line) : line[k] \in {"<", ">"} => k = Len(line) - 1
       /\ \A k, l \in 1..Len(line) : line[k] = "|" /\ line[l] = "|" => k = l

\* The words of a tidy line that are for programs, and those for the programs
\* that the shell forked (left) or that were forked for a pipe.
Bare(ed, line) ==
  LET k == SelectInSeq(line, LAMBDA w : w \in Removed(ed))
  IN  IF k = 0 THEN line ELSE Before(line, k)
Piped(ed, line) == ed # "HW3" /\ Has(Bare(ed, line), "|")
Own(ed, line, left) ==
  LET all == Bare(ed, line)
  IN  IF ~Piped(ed, line) THEN all
      ELSE IF left THEN Before(all, Pos(all, "|")) ELSE After(all, Pos(all, "|"))

\* The programs of a tidy line get their own words, each side of a pipe those
\* on its side, after all the cutting and copying by several processes
\* (redirect_in, redirect_out, pipe_and_exec).  Beside a pipe one stray word
\* may follow, as the copies are terminated one entry too far.
OwnWords ==
  \A p \in Pids : procs[p].pc = "run" /\ Tidy(edition, procs[p].line) =>
    LET r == procs[p]
        s == Own(edition, r.line, r.parent = Sh)
    IN  r.argv = s \/ (Piped(edition, r.line) /\ r.argv = Append(s, "junk"))

\* Types, and the words that programs get.
ProgramWords == TypeOK /\ OperatorsConsumed /\ OwnWords

\* Every process below the shell ends, and a shell that waits prompts again:
\* no reader waits for the end of an input whose write end it holds itself,
\* and a writer that only the death of its reader can stop is stopped by it.
Drains ==
  /\ \A p \in Pids : procs[p].pc \notin {"free", "dead", "reaped"} ~> procs[p].pc \in {"dead", "reaped"}
  /\ sh = "wait" ~> sh # "wait"
=============================================================================
