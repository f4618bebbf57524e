----------------------------- MODULE MCVmwFifo -----------------------------
(* A ring of five words, so that commands of two and four words meet both ends
   of it at every offset, and both kinds of bounce buffer. *)
EXTENDS VmwFifo

CONSTANTS t1, t2
=============================================================================
