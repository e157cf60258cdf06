----------------------------- MODULE Processes -----------------------------
(* The clients of a message-queue service.                                 *)
CONSTANTS
  Clients,  \* client processes
  Mortal    \* those that may be killed
=============================================================================
