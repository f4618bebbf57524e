------------------------------- MODULE VmwFifo -------------------------------
(***************************************************************************)
(* The command fifo of vmwgfx_fifo.c: a ring of 32-bit words in device     *)
(* memory between SVGA_FIFO_MIN and SVGA_FIFO_MAX.  The driver writes at   *)
(* SVGA_FIFO_NEXT_CMD, the device reads at SVGA_FIFO_STOP, and the ring is *)
(* empty when they are equal.  A submitter reserves space, writes its      *)
(* command in place or into a bounce buffer, and commits it; fifo_mutex is *)
(* taken by vmw_fifo_reserve and released by vmw_fifo_commit.              *)
(*                                                                         *)
(* Sizes and offsets are in words, the driver's divided by four.           *)
(***************************************************************************)
EXTENDS Integers, Sequences

CONSTANTS
  Threads,      \* the submitters
  NoOne,        \* no submitter
  Min, Max,     \* the registers SVGA_FIFO_MIN and SVGA_FIFO_MAX
  Sizes,        \* the sizes the submitters reserve
  StaticSize    \* fifo->static_buffer_size

\* The smallest command is a fence: an id and a number.
ASSUME FifoAssumption ==
  /\ Min \in Nat /\ Max \in Nat /\ Min < Max
  /\ Sizes \subseteq Nat \ {0, 1} /\ \E n \in Sizes : \A k \in Sizes : k <= n
  /\ StaticSize \in Nat
  /\ NoOne \notin Threads

VARIABLES
  \* Device memory.
  NEXT_CMD, STOP, RESERVED, mem,
  executed,       \* the last word the device has executed
  \* struct vmw_fifo_state
  reserveable,    \* capabilities & SVGA_FIFO_CAP_RESERVE
  fifo_mutex, reserved_size, using_bounce_buffer,
  dynamic_buffer, \* a dynamic buffer is allocated
  buffer,         \* the words in the bounce buffer in use
  \* The submitters.
  pc,
  size,           \* the size reserved
  copied          \* the words vmw_fifo_slow_copy has written

ring == <<NEXT_CMD, STOP, RESERVED, mem, executed>>
state == <<reserveable, fifo_mutex, reserved_size, using_bounce_buffer, dynamic_buffer, buffer>>
vars == <<ring, state, pc, size, copied>>

Blank == [by |-> NoOne, i |-> 0, n |-> 0]
Command(t, n) == [i \in 1 .. n |-> [by |-> t, i |-> i, n |-> n]]

Init ==
  /\ NEXT_CMD = Min /\ STOP = Min /\ RESERVED = 0
  /\ mem = [x \in Min .. Max - 1 |-> Blank]
  /\ executed = <<>>
  /\ reserveable \in BOOLEAN
  /\ fifo_mutex = NoOne /\ reserved_size = 0 /\ using_bounce_buffer = FALSE
  /\ dynamic_buffer = FALSE /\ buffer = <<>>
  /\ pc = [t \in Threads |-> "idle"]
  /\ size = [t \in Threads |-> 0]
  /\ copied = 0

-----------------------------------------------------------------------------
\* Offset x advanced by n words.
Advance(x, n) == IF x + n >= Max THEN x + n - (Max - Min) ELSE x + n

\* Seeded fault: the ring may become completely full, which reads as empty.
IsFull_LastWord(n) == (Max - NEXT_CMD) + (STOP - Min) < n

\* vmw_fifo_is_full
IsFull(n) == (Max - NEXT_CMD) + (STOP - Min) <= n

\* Room for n words at NEXT_CMD without wrapping, or filling the ring.
FitsInPlace(n) ==
  IF NEXT_CMD >= STOP
    THEN NEXT_CMD + n < Max \/ (NEXT_CMD + n = Max /\ STOP > Min)
    ELSE NEXT_CMD + n < STOP

Goto(t, label) == pc' = [pc EXCEPT ![t] = label]

\* out_err: the caller gets NULL.
Fail(t) ==
  /\ reserved_size' = 0
  /\ fifo_mutex' = NoOne
  /\ size' = [size EXCEPT ![t] = 0]
  /\ Goto(t, "idle")
  /\ UNCHANGED <<ring, reserveable, using_bounce_buffer, dynamic_buffer, buffer, copied>>

\* vmw_fifo_reserve
Reserve(t) ==
  /\ pc[t] = "idle" /\ fifo_mutex = NoOne
  /\ \E n \in {k \in Sizes : k < Max - Min} :  \* else NULL at once
       /\ reserved_size' = n
       /\ size' = [size EXCEPT ![t] = n]
  /\ fifo_mutex' = t
  /\ Goto(t, "loop")
  /\ UNCHANGED <<ring, reserveable, using_bounce_buffer, dynamic_buffer, buffer, copied>>

ReserveInPlace(t) ==
  /\ using_bounce_buffer' = FALSE
  /\ RESERVED' = size[t]
  /\ Goto(t, "reserved")
  /\ UNCHANGED <<NEXT_CMD, STOP, mem, executed, reserveable, fifo_mutex, reserved_size,
                 dynamic_buffer, buffer, size, copied>>

\* The bounce buffer: the static one, or one from vmalloc.
ReserveBounce(t) ==
  /\ using_bounce_buffer' = TRUE
  /\ dynamic_buffer' = (size[t] >= StaticSize)
  /\ Goto(t, "reserved")
  /\ UNCHANGED <<ring, reserveable, fifo_mutex, reserved_size, buffer, size, copied>>

\* vmalloc fails: NULL is returned, but not through out_err.
VmallocFails(t) ==
  /\ size[t] >= StaticSize
  /\ using_bounce_buffer' = TRUE
  /\ Goto(t, "idle")
  /\ UNCHANGED <<ring, reserveable, fifo_mutex, reserved_size, dynamic_buffer, buffer, size,
                 copied>>

Bounce(t) == ReserveBounce(t) \/ VmallocFails(t)

\* One look at STOP.  When the space at hand does not do, the code looks at
\* the registers again, in the branch it has chosen ("above": next_cmd >= stop).
ReserveLoop(t) ==
  /\ pc[t] = "loop"
  /\ IF FitsInPlace(size[t])
       THEN IF reserveable THEN ReserveInPlace(t) ELSE Bounce(t)
       ELSE /\ Goto(t, IF NEXT_CMD >= STOP THEN "above" ELSE "below")
            /\ UNCHANGED <<ring, state, size, copied>>

\* Seeded fault: with room at both ends of the ring only, look again.
ReserveAbove_NoBounce(t) ==
  /\ pc[t] = "above"
  /\ Goto(t, IF IsFull(size[t]) THEN "wait" ELSE "loop")
  /\ UNCHANGED <<ring, state, size, copied>>

\* next_cmd >= stop: wrap around through the bounce buffer, or wait.
ReserveAbove(t) ==
  /\ pc[t] = "above"
  /\ IF IsFull(size[t])
       THEN Goto(t, "wait") /\ UNCHANGED <<ring, state, size, copied>>
       ELSE Bounce(t)

\* next_cmd < stop: vmw_fifo_wait, which returns at once if not IsFull.
ReserveBelow(t) ==
  /\ pc[t] = "below"
  /\ Goto(t, IF IsFull(size[t]) THEN "wait" ELSE "loop")
  /\ UNCHANGED <<ring, state, size, copied>>

\* vmw_fifo_wait: the device has made progress ...
WaitDone(t) ==
  /\ pc[t] = "wait" /\ ~IsFull(size[t])
  /\ Goto(t, "loop")
  /\ UNCHANGED <<ring, state, size, copied>>

\* ... or not, for three seconds.
WaitTimeout(t) == pc[t] = "wait" /\ IsFull(size[t]) /\ Fail(t)

-----------------------------------------------------------------------------
\* n words put into the ring from offset x on.
Put(x, ws) ==
  [y \in Min .. Max - 1 |->
     IF \E k \in DOMAIN ws : Advance(x, k - 1) = y
       THEN ws[CHOOSE k \in DOMAIN ws : Advance(x, k - 1) = y] ELSE mem[y]]

\* The submitter writes a command of n words, all or part of what it reserved
\* (none without SVGA_FIFO_CAP_FENCE), at the address it was given.
WriteCommand(t) ==
  /\ pc[t] = "reserved"
  /\ \E n \in 0 .. size[t] :
       /\ size' = [size EXCEPT ![t] = n]
       /\ IF using_bounce_buffer
            THEN buffer' = Command(t, n) /\ UNCHANGED mem
            ELSE mem' = Put(NEXT_CMD, Command(t, n)) /\ UNCHANGED buffer
  /\ Goto(t, "written")
  /\ UNCHANGED <<NEXT_CMD, STOP, RESERVED, executed, reserveable, fifo_mutex, reserved_size,
                 using_bounce_buffer, dynamic_buffer, copied>>

\* vmw_fifo_commit: without a bounce buffer there is nothing to copy,
CommitInPlace(t) ==
  /\ pc[t] = "written" /\ ~using_bounce_buffer
  /\ reserved_size' = 0
  /\ Goto(t, "publish")
  /\ UNCHANGED <<ring, reserveable, fifo_mutex, using_bounce_buffer, dynamic_buffer, buffer,
                 size, copied>>

\* vmw_fifo_res_copy copies the buffer in one or two pieces,
CommitResCopy(t) ==
  /\ pc[t] = "written" /\ using_bounce_buffer /\ reserveable
  /\ reserved_size' = 0
  /\ RESERVED' = size[t]
  /\ mem' = Put(NEXT_CMD, buffer)
  /\ buffer' = <<>>
  /\ dynamic_buffer' = FALSE
  /\ Goto(t, "publish")
  /\ UNCHANGED <<NEXT_CMD, STOP, executed, reserveable, fifo_mutex, using_bounce_buffer, size,
                 copied>>

\* and vmw_fifo_slow_copy word by word, moving NEXT_CMD with every word.
CommitSlowCopy(t) ==
  /\ pc[t] = "written" /\ using_bounce_buffer /\ ~reserveable
  /\ reserved_size' = 0
  /\ IF copied < size[t]
       THEN /\ LET x == NEXT_CMD IN
                 /\ mem' = [mem EXCEPT ![x] = buffer[copied + 1]]
                 /\ NEXT_CMD' = Advance(x, 1)
            /\ copied' = copied + 1
            /\ UNCHANGED <<buffer, dynamic_buffer, pc>>
       ELSE /\ Goto(t, "publish")
            /\ buffer' = <<>> /\ dynamic_buffer' = FALSE
            /\ UNCHANGED <<NEXT_CMD, mem, copied>>
  /\ UNCHANGED <<STOP, RESERVED, executed, reserveable, fifo_mutex, using_bounce_buffer, size>>

\* The rest of vmw_fifo_commit, under rwsem: NEXT_CMD moves past the command
\* (the slow copy has put it there already) and the mutex is released.
Publish(t) ==
  /\ pc[t] = "publish"
  /\ NEXT_CMD' = Advance(NEXT_CMD, size[t] - copied)
  /\ RESERVED' = IF reserveable THEN 0 ELSE RESERVED
  /\ fifo_mutex' = NoOne
  /\ size' = [size EXCEPT ![t] = 0]
  /\ copied' = 0
  /\ Goto(t, "idle")
  /\ UNCHANGED <<STOP, mem, executed, reserveable, reserved_size, using_bounce_buffer,
                 dynamic_buffer, buffer>>

-----------------------------------------------------------------------------
\* The device executes the word at STOP.  What stays behind in the ring is
\* stale, no command's word any more: Blank.
DeviceExecute ==
  /\ STOP # NEXT_CMD
  /\ executed' = mem[STOP]
  /\ mem' = [mem EXCEPT ![STOP] = Blank]
  /\ STOP' = Advance(STOP, 1)
  /\ UNCHANGED <<NEXT_CMD, RESERVED, state, pc, size, copied>>

Continue(t) ==
  \/ ReserveLoop(t) \/ ReserveAbove(t) \/ ReserveBelow(t) \/ WaitDone(t) \/ WaitTimeout(t)
  \/ WriteCommand(t) \/ CommitInPlace(t) \/ CommitResCopy(t) \/ CommitSlowCopy(t) \/ Publish(t)

Next == DeviceExecute \/ \E t \in Threads : Reserve(t) \/ Continue(t)

Spec == Init /\ [][Next]_vars

\* A thread inside the driver is scheduled; the device may hang.
DriverFairness == \A t \in Threads : WF_vars(Continue(t))
HungSpec == Spec /\ DriverFairness
LiveSpec == Spec /\ DriverFairness /\ WF_vars(DeviceExecute)

-----------------------------------------------------------------------------
Labels == {"idle", "loop", "above", "below", "wait", "reserved", "written", "publish"}
WordsOrBlank == [by : Threads \cup {NoOne}, i : Nat, n : Nat]

TypeOK ==
  /\ NEXT_CMD \in Min .. Max - 1 /\ STOP \in Min .. Max - 1 /\ RESERVED \in Nat
  /\ mem \in [Min .. Max - 1 -> WordsOrBlank] /\ executed \in WordsOrBlank \cup {<<>>}
  /\ reserveable \in BOOLEAN /\ using_bounce_buffer \in BOOLEAN /\ dynamic_buffer \in BOOLEAN
  /\ fifo_mutex \in Threads \cup {NoOne} /\ reserved_size \in Nat
  /\ buffer \in Seq(WordsOrBlank) /\ copied \in Nat
  /\ pc \in [Threads -> Labels] /\ size \in [Threads -> Nat]

\* The words between STOP and NEXT_CMD.
Used == (NEXT_CMD - STOP) % (Max - Min)
Contents == [k \in 1 .. Used |-> mem[Advance(STOP, k - 1)]]

MaxSize == CHOOSE n \in Sizes : \A k \in Sizes : k <= n
Queue == INSTANCE FifoQueue WITH queue <- Contents

\* The ring is a queue of whole commands: an in-place command never wraps or
\* reaches unread words, a bounced one fits, and a copy that publishes word by
\* word while the device reads along neither mixes nor repeats words.
RingIsQueue == Queue!Spec

\* BUG_ON(reserved_size != 0), BUG_ON(dynamic_buffer != NULL) in
\* vmw_fifo_reserve, BUG_ON(bytes > reserved_size) in vmw_fifo_commit: what a
\* call leaves behind, on every path, is what the next one expects.
NoBugOn ==
  /\ fifo_mutex = NoOne => reserved_size = 0 /\ ~dynamic_buffer /\ buffer = <<>>
  /\ \A t \in Threads : pc[t] = "reserved" => size[t] = reserved_size
  /\ \A t \in Threads : pc[t] = "written" /\ copied = 0 => size[t] <= reserved_size

\* SVGA_FIFO_RESERVED covers what an in-place writer may touch, and the words
\* it covers are free: the device may save or move only the others.
ReservedWordsAreFree ==
  reserveable => Used + RESERVED < Max - Min

\* A reservation ends, with or without success, as long as the device reads.
ReserveReturns ==
  \A t \in Threads : pc[t] = "loop" ~> pc[t] \in {"reserved", "idle"}
=============================================================================
