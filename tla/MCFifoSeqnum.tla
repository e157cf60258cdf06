---------------------------- MODULE MCFifoSeqnum ---------------------------
(* Command lines for FifoSeqnum: below, at and above the accepted range.   *)
EXTENDS FifoSeqnum, TLC

MCArgs == {0, 1, 3, IntMax + 1}
=============================================================================
