----------------------------- MODULE MCShmDict -----------------------------
(* Values for the constants of ShmDict: a dictionary that knows one word   *)
(* and does not know another.                                              *)
EXTENDS ShmDict, TLC

CONSTANTS hit, miss, def

MCDict == [w \in {hit, miss} |-> IF w = hit THEN def ELSE XXXX]

\* Clients are interchangeable when all or none of them may be killed.
ClientSymmetry == Permutations(Clients)
=============================================================================
