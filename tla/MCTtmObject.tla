---------------------------- MODULE MCTtmObject ----------------------------
(* Two files and two threads on one buffer, whose storage and handle are used
   again. *)
EXTENDS TtmObject, TLC

CONSTANTS f1, f2, o1, t1, t2

\* The files are alike, and so are the threads.
Alike == Permutations(Files) \cup Permutations(Threads)
=============================================================================
