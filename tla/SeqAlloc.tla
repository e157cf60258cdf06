------------------------------ MODULE SeqAlloc -----------------------------
(***************************************************************************)
(* What a sequence-number service promises.  The service counts with an    *)
(* int.  It tells a client the number it has reached and moves on by the   *)
(* length that this client asked for, in one step; it may move on without  *)
(* telling anybody.  What a client prints is the number it was told.  When *)
(* the service stops its count is gone: it starts again from 0, and the    *)
(* numbers of two runs may be the same.                                    *)
(***************************************************************************)
EXTENDS Integers

CONSTANTS Clients, IntMax

VARIABLES
  up,     \* the service runs
  next,   \* the number it gives out next; 0 while it does not run
  ticket  \* what each client was told: its first number and how many

vars == <<up, next, ticket>>

Modulus == 2 * (IntMax + 1)
AddInt(a, b) == IF a + b > IntMax THEN a + b - Modulus ELSE a + b

Blank           == [state |-> "none", first |-> 0, len |-> 0]
Gone            == [state |-> "gone", first |-> 0, len |-> 0]
Issued(n, len)  == [state |-> "issued", first |-> n, len |-> len]
Printed(n, len) == [state |-> "printed", first |-> n, len |-> len]

Init == up \in BOOLEAN /\ next = 0 /\ ticket = [c \in Clients |-> Blank]

Start == ~up /\ up' = TRUE /\ next' = 0 /\ UNCHANGED ticket

\* A number on its way may go down with the service.
Stop ==
  /\ up /\ up' = FALSE /\ next' = 0
  /\ \/ UNCHANGED ticket
     \/ \E c \in Clients :
          ticket[c].state = "issued" /\ ticket' = [ticket EXCEPT ![c] = Blank]

Issue(c) ==
  /\ up /\ ticket[c] = Blank
  /\ \E len \in 1..IntMax :
       next' = AddInt(next, len) /\ ticket' = [ticket EXCEPT ![c] = Issued(next, len)]
  /\ UNCHANGED up

\* A range that nobody gets.
Skip ==
  /\ up
  /\ \E len \in 1..IntMax : next' = AddInt(next, len)
  /\ UNCHANGED <<up, ticket>>

Deliver(c) ==
  /\ ticket[c].state = "issued"
  /\ ticket' = [ticket EXCEPT ![c] = Printed(@.first, @.len)]
  /\ UNCHANGED <<up, next>>

\* A client fails or dies, with or without a number.
Leave(c) ==
  /\ ticket[c].state \in {"none", "issued"}
  /\ ticket' = [ticket EXCEPT ![c] = Gone]
  /\ UNCHANGED <<up, next>>

Next ==
  \/ Start \/ Stop \/ Skip
  \/ \E c \in Clients : Issue(c) \/ Deliver(c) \/ Leave(c)

Spec == Init /\ [][Next]_vars
=============================================================================
