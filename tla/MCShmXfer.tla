----------------------------- MODULE MCShmXfer -----------------------------
(* Inputs for ShmXfer: all bytes different, so that an order can be seen.  *)
EXTENDS ShmXfer

MCByte  == {"a", "b", "c", "d", "e"}
MCInput == <<"a", "b", "c", "d", "e">>
=============================================================================
