---------------------------- MODULE MCDictStream ---------------------------
(* A dictionary with one word in it and one that is not.                   *)
EXTENDS DictStream

CONSTANTS hit, miss, def

MCDict == [w \in Words |-> IF w = hit THEN def ELSE XXXX]
=============================================================================
