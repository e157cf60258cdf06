----------------------------- MODULE StreamCopy ----------------------------
(* What the shared-memory transfer of SP_HW9/54_1 promises: the reader's   *)
(* output grows by pieces of the input, in order, and the transfer is only *)
(* called finished when all of the input has come out.                     *)
EXTENDS Integers, Sequences

CONSTANTS
  Input,    \* the bytes on the writer's standard input
  BufSize   \* BUF_SIZE

VARIABLES
  out,      \* the reader's standard output
  finished  \* the reader has seen the end and exited with success

vars == <<out, finished>>

Init == out = <<>> /\ finished = FALSE

Deliver ==
  /\ ~finished
  /\ \E n \in 1..BufSize :
       /\ Len(out) + n <= Len(Input)
       /\ out' = SubSeq(Input, 1, Len(out) + n)
  /\ UNCHANGED finished

Finish ==
  /\ ~finished /\ out = Input
  /\ finished' = TRUE /\ UNCHANGED out

Next == Deliver \/ Finish
Spec == Init /\ [][Next]_vars
=============================================================================
