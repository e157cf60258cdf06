----------------------------- MODULE MCMqFile ------------------------------
(* Four clients for MqFile, three of which share a pid, and files longer   *)
(* than what a queue holds when the end mark is counted, one with a chunk  *)
(* that begins with NUL.                                                   *)
EXTENDS MqFile, TLC

CONSTANTS c1, c2, c3, c4
MCPid == c1 :> 1 @@ c2 :> 1 @@ c3 :> 1 @@ c4 :> 2
Text(n) == [text |-> n, nul |-> FALSE]
Nul(n)  == [text |-> n, nul |-> TRUE]
MCContent == "long" :> <<Text(2), Nul(1)>> @@ "binary" :> <<Nul(0), Text(2), Text(2)>>
          @@ "missing" :> <<>>
=============================================================================
