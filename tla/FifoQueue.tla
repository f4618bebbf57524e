------------------------------ MODULE FifoQueue ------------------------------
(***************************************************************************)
(* What the command fifo promises its two ends: the device executes the    *)
(* words of every command that was committed, once, in the order of the    *)
(* commits, and never words of two commands mixed or a word nobody wrote.  *)
(***************************************************************************)
EXTENDS Integers, Sequences

CONSTANTS
  Threads,   \* the submitters
  MaxSize    \* the most words a command can have

\* The word at place i of a command of n words that thread t submitted.
Words == {w \in [by : Threads, i : 1 .. MaxSize, n : 1 .. MaxSize] : w.i <= w.n}

VARIABLES
  queue,     \* the words committed and not executed
  executed   \* the last word executed, or <<>>

vars == <<queue, executed>>

\* Word v may follow what came before it: the next word of the same command,
\* or the first one of a command when the one before is complete.
Follows(u, v) ==
  IF u = <<>> THEN v.i = 1
  ELSE \/ v = [u EXCEPT !.i = @ + 1]
       \/ u.i = u.n /\ v.i = 1

Init == queue = <<>> /\ executed = <<>>

\* Words are added at the end, and whatever was there stays.
Produce ==
  /\ Len(queue) < Len(queue')
  /\ SubSeq(queue', 1, Len(queue)) = queue
  /\ \A k \in Len(queue) + 1 .. Len(queue') :
       /\ queue'[k] \in Words
       /\ Follows(IF k = 1 THEN executed ELSE queue'[k - 1], queue'[k])
  /\ UNCHANGED executed

Execute ==
  /\ queue # <<>>
  /\ executed' = queue[1]
  /\ queue' = Tail(queue)

Next == Produce \/ Execute

Spec == Init /\ [][Next]_vars
=============================================================================
