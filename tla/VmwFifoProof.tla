----------------------------- MODULE VmwFifoProof -----------------------------
(***************************************************************************)
(* Proofs about VmwFifo for any number of submitters, any ring and any     *)
(* sizes of commands that fit: the types, the assertions of the code, and  *)
(* that the ring implements FifoQueue.                                     *)
(*                                                                         *)
(* What the queue needs is that a command fits where it is put (Room),     *)
(* that the words a submitter has written stay his until he publishes them *)
(* (Written, Unpublished), and that the last word in the ring ends a       *)
(* command unless one is being copied word by word (LastWord).             *)
(***************************************************************************)
EXTENDS VmwFifo, SequenceTheorems, TLAPS

N == Max - Min
Ring == Min .. Max - 1
Waiting == {"loop", "above", "below", "wait"}

\* The word at place i of thread t's command of n words.
Word(t, i, n) == [by |-> t, i |-> i, n |-> n]

Room(n) == Used + n < N

\* Whoever is in the code holds fifo_mutex.
Exclusive == \A t \in Threads : pc[t] # "idle" => fifo_mutex = t

\* What stays behind between calls.
Rest ==
  /\ fifo_mutex = NoOne => reserved_size = 0 /\ ~dynamic_buffer /\ buffer = <<>>
  /\ (\A t \in Threads : pc[t] \in Waiting \cup {"idle"}) =>
        copied = 0 /\ (reserveable => RESERVED = 0)

Looking == \A t \in Threads : pc[t] \in Waiting =>
  /\ size[t] = reserved_size /\ size[t] \in Sizes /\ size[t] < N
  /\ ~dynamic_buffer /\ buffer = <<>>
  /\ pc[t] = "above" => NEXT_CMD >= STOP

Reserved == \A t \in Threads : pc[t] = "reserved" =>
  /\ size[t] = reserved_size /\ size[t] \in Sizes /\ Room(size[t])
  /\ copied = 0
  /\ using_bounce_buffer => buffer = <<>> /\ (reserveable => RESERVED = 0)
  /\ ~using_bounce_buffer =>
       reserveable /\ RESERVED = size[t] /\ buffer = <<>> /\ ~dynamic_buffer

Written == \A t \in Threads : pc[t] = "written" =>
  /\ size[t] <= MaxSize /\ copied <= size[t] /\ Room(size[t] - copied)
  /\ copied = 0 => size[t] <= reserved_size
  /\ copied > 0 => ~reserveable /\ using_bounce_buffer
  /\ using_bounce_buffer => buffer = Command(t, size[t]) /\ (reserveable => RESERVED = 0)
  /\ ~using_bounce_buffer =>
       /\ reserveable /\ buffer = <<>> /\ Room(RESERVED) /\ ~dynamic_buffer
       /\ \A k \in 1 .. size[t] : mem[Advance(NEXT_CMD, k - 1)] = Word(t, k, size[t])

Unpublished == \A t \in Threads : pc[t] = "publish" =>
  /\ size[t] <= MaxSize /\ Room(size[t] - copied)
  /\ reserved_size = 0 /\ ~dynamic_buffer /\ buffer = <<>>
  /\ reserveable => copied = 0 /\ Room(RESERVED)
  /\ ~reserveable => copied = size[t]
  /\ copied = 0 => \A k \in 1 .. size[t] :
                     mem[Advance(NEXT_CMD, k - 1)] = Word(t, k, size[t])

Last == IF Used = 0 THEN executed ELSE mem[Advance(STOP, Used - 1)]
LastWord ==
  /\ copied = 0 => Last = <<>> \/ Last.i = Last.n
  /\ \A t \in Threads : pc[t] \in {"written", "publish"} /\ copied > 0 =>
       Last = Word(t, copied, size[t])

IInv == TypeOK /\ Exclusive /\ Rest /\ Looking /\ Reserved /\ Written /\ Unpublished /\ LastWord

-----------------------------------------------------------------------------
(* The arithmetic of the ring. *)

\* Remainders of what lies at most one round away.
LEMMA Remainder ==
  ASSUME NEW n \in Nat \ {0}, NEW x \in Int, -n <= x, x < n
  PROVE  x % n = IF x >= 0 THEN x ELSE x + n
<1>1. CASE x >= 0
  BY <1>1
<1>2. CASE x < 0
  BY <1>2
<1>3. QED
  BY <1>1, <1>2

\* The offset of a word n places further, less than a round away.
LEMMA Advancing ==
  ASSUME NEW x \in Ring, NEW a \in Nat, NEW b \in Nat, a + b <= N
  PROVE  /\ Advance(x, a) \in Ring
         /\ Advance(Advance(x, a), b) = Advance(x, a + b)
         /\ Advance(x, 0) = x
         /\ a < N /\ b < N /\ Advance(x, a) = Advance(x, b) => a = b
  BY FifoAssumption DEF Advance, Ring, N

\* How far offset x is ahead of offset y.
LEMMA Distance ==
  ASSUME NEW x \in Ring, NEW y \in Ring
  PROVE  (x - y) % (Max - Min) = IF x >= y THEN x - y ELSE x - y + N
<1>1. N \in Nat \ {0} /\ x - y \in Int /\ -N <= x - y /\ x - y < N
  BY FifoAssumption DEF N, Ring
<1>2. (x - y) % N = IF x - y >= 0 THEN x - y ELSE x - y + N
  BY <1>1, Remainder
<1>3. x \in Int /\ y \in Int
  BY FifoAssumption DEF Ring
<1>4. QED
  BY <1>2, <1>3 DEF N

\* vmw_fifo_is_full computes the words in use without a remainder.
LEMMA UsedIs ==
  ASSUME NEXT_CMD \in Ring, STOP \in Ring
  PROVE  /\ Used = IF NEXT_CMD >= STOP THEN NEXT_CMD - STOP ELSE NEXT_CMD - STOP + N
         /\ Used \in 0 .. N - 1
         /\ Advance(STOP, Used) = NEXT_CMD
         /\ Used = 0 <=> NEXT_CMD = STOP
<1>1. Used = IF NEXT_CMD >= STOP THEN NEXT_CMD - STOP ELSE NEXT_CMD - STOP + N
  BY Distance DEF Used
<1>2. QED
  BY <1>1, FifoAssumption DEF Ring, N, Advance

\* An offset that is not used stays free when the next n words are added.
LEMMA UsedGrows ==
  ASSUME NEXT_CMD \in Ring, STOP \in Ring, NEW n \in Nat, Room(n),
         NEXT_CMD' = Advance(NEXT_CMD, n), STOP' = STOP
  PROVE  Used' = Used + n /\ NEXT_CMD' \in Ring
<1>1. Used = IF NEXT_CMD >= STOP THEN NEXT_CMD - STOP ELSE NEXT_CMD - STOP + N
  BY UsedIs
<1>2. NEXT_CMD' \in Ring
  BY UsedIs, FifoAssumption DEF Room, Advance, Ring, N
<1>3. Used' = IF NEXT_CMD' >= STOP' THEN NEXT_CMD' - STOP' ELSE NEXT_CMD' - STOP' + N
  BY <1>2, Distance DEF Used
<1>4. QED
  BY <1>1, <1>2, <1>3, FifoAssumption DEF Room, Advance, Ring, N

\* The device takes one word.
LEMMA UsedShrinks ==
  ASSUME NEXT_CMD \in Ring, STOP \in Ring, NEXT_CMD # STOP,
         STOP' = Advance(STOP, 1), NEXT_CMD' = NEXT_CMD
  PROVE  Used' = Used - 1 /\ STOP' \in Ring /\ (NEXT_CMD >= STOP => NEXT_CMD' >= STOP')
<1>1. Used = IF NEXT_CMD >= STOP THEN NEXT_CMD - STOP ELSE NEXT_CMD - STOP + N
  BY UsedIs
<1>2. STOP' \in Ring
  BY FifoAssumption DEF Advance, Ring, N
<1>3. Used' = IF NEXT_CMD' >= STOP' THEN NEXT_CMD' - STOP' ELSE NEXT_CMD' - STOP' + N
  BY <1>2, Distance DEF Used
<1>4. QED
  BY <1>1, <1>2, <1>3, FifoAssumption DEF Advance, Ring, N

\* vmw_fifo_is_full and the test for a place without wrapping.
LEMMA RoomIs ==
  ASSUME NEXT_CMD \in Ring, STOP \in Ring, NEW n \in Nat
  PROVE  /\ NEXT_CMD >= STOP /\ ~IsFull(n) => Room(n)
         /\ FitsInPlace(n) => Room(n)
  BY UsedIs, FifoAssumption DEF IsFull, FitsInPlace, Room, Ring, N

\* The n words put at x are found there, and nothing else has changed.
LEMMA PutAt ==
  ASSUME NEW x \in Ring, NEW n \in Nat, n < N, NEW ws, DOMAIN ws = 1 .. n
  PROVE  /\ \A k \in 1 .. n : Put(x, ws)[Advance(x, k - 1)] = ws[k]
         /\ \A y \in Ring : (\A k \in 1 .. n : Advance(x, k - 1) # y) => Put(x, ws)[y] = mem[y]
<1>1. ASSUME NEW k \in 1 .. n PROVE Put(x, ws)[Advance(x, k - 1)] = ws[k]
  <2>1. k - 1 \in Nat /\ k - 1 + 0 <= N /\ k - 1 < N
    BY FifoAssumption DEF N
  <2>2. Advance(x, k - 1) \in Ring
    BY <2>1, Advancing
  <2>3. ASSUME NEW j \in 1 .. n, Advance(x, j - 1) = Advance(x, k - 1) PROVE j = k
    BY <2>3, FifoAssumption DEF Advance, Ring, N
  <2>4. k = CHOOSE j \in DOMAIN ws : Advance(x, j - 1) = Advance(x, k - 1)
    BY <2>3
  <2>5. QED
    BY <2>2, <2>4 DEF Put, Ring
<1>2. ASSUME NEW y \in Ring, \A k \in 1 .. n : Advance(x, k - 1) # y
      PROVE  Put(x, ws)[y] = mem[y]
  BY <1>2 DEF Put, Ring
<1>3. QED
  BY <1>1, <1>2

\* A place of the ring is either in use or within the room behind it.
LEMMA Apart ==
  ASSUME NEXT_CMD \in Ring, STOP \in Ring, NEW n \in Nat, Room(n),
         NEW j \in 0 .. Used - 1, NEW k \in 1 .. n
  PROVE  /\ Advance(STOP, j) \in Ring
         /\ Advance(STOP, j) # Advance(NEXT_CMD, k - 1)
         /\ Advance(NEXT_CMD, k - 1) = Advance(STOP, Used + k - 1)
<1>1. Used \in 0 .. N - 1 /\ Advance(STOP, Used) = NEXT_CMD
  BY UsedIs
<1>2. Used + (k - 1) < N /\ Used \in Nat /\ k - 1 \in Nat /\ j \in Nat /\ j < N /\ N \in Nat
  BY <1>1, FifoAssumption DEF Room, N
<1>3. Advance(NEXT_CMD, k - 1) = Advance(STOP, Used + (k - 1))
  BY <1>1, <1>2, Advancing
<1>4. Advance(STOP, j) \in Ring
  BY <1>2, Advancing
<1>5. j # Used + (k - 1)
  BY <1>2
<1>6. Advance(STOP, j) # Advance(STOP, Used + (k - 1))
  BY <1>2, <1>5, FifoAssumption DEF Advance, Ring, N
<1>7. QED
  BY <1>2, <1>3, <1>4, <1>6

\* A submitter in the code is the only one.
LEMMA Alone ==
  ASSUME Exclusive, NEW t \in Threads, pc[t] # "idle"
  PROVE  fifo_mutex = t /\ \A u \in Threads \ {t} : pc[u] = "idle"
  BY DEF Exclusive

\* A step that leaves alone the words in use and both ends leaves Contents.
LEMMA SameContents ==
  ASSUME NEXT_CMD \in Ring, STOP \in Ring, UNCHANGED <<NEXT_CMD, STOP, executed>>,
         \A j \in 0 .. Used - 1 : mem'[Advance(STOP, j)] = mem[Advance(STOP, j)]
  PROVE  Used' = Used /\ Contents' = Contents /\ Last' = Last
<1>1. Used' = Used /\ Used \in 0 .. N - 1
  BY UsedIs DEF Used
<1>2. \A j \in 1 .. Used : mem'[Advance(STOP, j - 1)] = mem[Advance(STOP, j - 1)]
  BY <1>1, FifoAssumption DEF N
<1>3. Contents' = Contents
  BY <1>1, <1>2 DEF Contents, Advance
<1>4. Last' = Last
  BY <1>1, FifoAssumption DEF Last, Advance, N
<1>5. QED
  BY <1>1, <1>3, <1>4

-----------------------------------------------------------------------------
(* The steps. *)

\* The largest size is a size.
LEMMA MaxSizeIs == MaxSize \in Sizes /\ \A n \in Sizes : n <= MaxSize /\ n \in Nat
  BY FifoAssumption DEF MaxSize

LEMMA InitInv == Init => IInv
<1> SUFFICES ASSUME Init PROVE IInv
  OBVIOUS
<1>1. NEXT_CMD \in Ring /\ STOP \in Ring /\ Blank \in WordsOrBlank
  BY FifoAssumption DEF Init, Ring, Blank, WordsOrBlank
<1>2. TypeOK
  <2>1. mem \in [Ring -> WordsOrBlank] /\ buffer \in Seq(WordsOrBlank)
    BY <1>1 DEF Init, Ring
  <2>2. QED
    BY <1>1, <2>1, FifoAssumption DEF Init, TypeOK, Labels, Ring
<1>3. Used = 0
  BY <1>1, UsedIs DEF Init
<1>4. QED
  BY <1>2, <1>3 DEF Init, IInv, Exclusive, Rest, Looking, Reserved, Written, Unpublished,
                    LastWord, Last, Waiting

\* vmw_fifo_reserve, up to its loop.
LEMMA ReserveInv == ASSUME IInv, NEW t \in Threads, Reserve(t) PROVE IInv'
<1> USE DEF IInv, Reserve, Goto
<1>1. PICK n \in Sizes : /\ n < N /\ reserved_size' = n
                         /\ size' = [size EXCEPT ![t] = n]
  BY DEF N
<1>2. n \in Nat
  BY MaxSizeIs
<1>3. \A u \in Threads : pc[u] = "idle"
  BY FifoAssumption DEF Exclusive
<1>4. copied = 0 /\ (reserveable => RESERVED = 0) /\ buffer = <<>> /\ ~dynamic_buffer
  BY <1>3 DEF Rest
<1>5. TypeOK'
  BY <1>1, <1>2 DEF TypeOK, ring, Labels
<1>6. Exclusive' /\ Rest'
  BY <1>3, <1>4, FifoAssumption DEF TypeOK, Exclusive, Rest, ring
<1>7. Looking' /\ Reserved' /\ Written' /\ Unpublished'
  BY <1>1, <1>3, <1>4 DEF TypeOK, Looking, Reserved, Written, Unpublished, Waiting
<1>8. LastWord'
  BY <1>3, <1>4 DEF TypeOK, LastWord, Last, Used, Advance, ring
<1>9. QED
  BY <1>5, <1>6, <1>7, <1>8

\* vmw_fifo_wait without success, and the jumps of the loop: nothing is written.
LEMMA LookInv ==
  ASSUME IInv, NEW t \in Threads, pc[t] \in Waiting, NEW label \in Waiting,
         Goto(t, label), label = "above" => NEXT_CMD >= STOP,
         UNCHANGED <<ring, state, size, copied>>
  PROVE  IInv'
<1> USE DEF IInv, Goto, ring, state
<1>1. fifo_mutex = t /\ \A u \in Threads \ {t} : pc[u] = "idle"
  BY Alone DEF Waiting
<1>2. TypeOK'
  BY DEF TypeOK, Labels, Waiting
<1>3. Exclusive' /\ Rest'
  BY <1>1, FifoAssumption DEF TypeOK, Exclusive, Rest, Waiting
<1>4. Looking'
  BY <1>1 DEF TypeOK, Looking, Waiting
<1>5. Reserved' /\ Written' /\ Unpublished'
  BY <1>1 DEF TypeOK, Reserved, Written, Unpublished, Waiting
<1>6. LastWord'
  BY <1>1 DEF TypeOK, LastWord, Last, Used, Advance, Waiting
<1>7. QED
  BY <1>2, <1>3, <1>4, <1>5, <1>6

\* Space in the ring itself, which has been found not to wrap.
LEMMA InPlaceInv ==
  ASSUME IInv, NEW t \in Threads, pc[t] = "loop", FitsInPlace(size[t]), reserveable,
         ReserveInPlace(t)
  PROVE  IInv'
<1> USE DEF IInv, ReserveInPlace, Goto
<1>1. fifo_mutex = t /\ \A u \in Threads \ {t} : pc[u] = "idle"
  BY Alone
<1>2. size[t] = reserved_size /\ size[t] \in Sizes /\ size[t] \in Nat
  BY MaxSizeIs DEF Looking, Waiting
<1>3. Room(size[t])
  BY <1>2, RoomIs DEF TypeOK, Ring
<1>4. Used' = Used /\ Last' = Last
  BY DEF Used, Last, Advance
<1>5. copied = 0 /\ buffer = <<>> /\ ~dynamic_buffer
  BY <1>1 DEF Rest, Looking, Waiting
<1>6. TypeOK'
  BY <1>2 DEF TypeOK, Labels
<1>7. Exclusive' /\ Rest'
  BY <1>1, FifoAssumption DEF TypeOK, Exclusive, Rest, Waiting
<1>8. Looking' /\ Written' /\ Unpublished'
  BY <1>1 DEF TypeOK, Looking, Written, Unpublished, Waiting
<1>9. Reserved'
  BY <1>1, <1>2, <1>3, <1>4, <1>5 DEF TypeOK, Reserved, Room
<1>10. LastWord'
  BY <1>1, <1>4, <1>5 DEF TypeOK, LastWord
<1>11. QED
  BY <1>6, <1>7, <1>8, <1>9, <1>10

\* The bounce buffer, or no memory for it: fifo_mutex stays taken then.
LEMMA BounceInv ==
  ASSUME IInv, NEW t \in Threads, pc[t] \in Waiting, Room(size[t]), Bounce(t)
  PROVE  IInv'
<1> USE DEF IInv, Bounce, ReserveBounce, VmallocFails, Goto, ring
<1>1. fifo_mutex = t /\ \A u \in Threads \ {t} : pc[u] = "idle"
  BY Alone DEF Waiting
<1>2. size[t] = reserved_size /\ size[t] \in Sizes /\ size[t] \in Nat
  BY MaxSizeIs DEF Looking
<1>3. Used' = Used /\ Last' = Last
  BY DEF Used, Last, Advance
<1>4. copied = 0 /\ buffer = <<>> /\ ~dynamic_buffer /\ (reserveable => RESERVED = 0)
  BY <1>1 DEF Rest, Looking, Waiting
<1>5. TypeOK'
  <2>1. dynamic_buffer' \in BOOLEAN
    <3>1. CASE size[t] >= StaticSize
      BY <3>1 DEF TypeOK
    <3>2. CASE ~(size[t] >= StaticSize)
      <4>1. dynamic_buffer' = (size[t] >= StaticSize)
        BY <3>2
      <4>2. (size[t] >= StaticSize) = FALSE
        BY <3>2
      <4>3. QED
        BY <4>1, <4>2
    <3>3. QED
      BY <3>1, <3>2
  <2>2. QED
    BY <1>2, <2>1 DEF TypeOK, Labels
<1>6. Exclusive' /\ Rest'
  BY <1>1, <1>4, FifoAssumption DEF TypeOK, Exclusive, Rest, Waiting
<1>7. Looking' /\ Written' /\ Unpublished'
  BY <1>1 DEF TypeOK, Looking, Written, Unpublished, Waiting
<1>8. Reserved'
  BY <1>1, <1>2, <1>3, <1>4 DEF TypeOK, Reserved, Room
<1>9. LastWord'
  BY <1>1, <1>3, <1>4 DEF TypeOK, LastWord
<1>10. QED
  BY <1>5, <1>6, <1>7, <1>8, <1>9

LEMMA ReserveLoopInv == ASSUME IInv, NEW t \in Threads, ReserveLoop(t) PROVE IInv'
<1>1. size[t] \in Nat /\ NEXT_CMD \in Ring /\ STOP \in Ring
  BY DEF IInv, TypeOK, Ring
<1>2. CASE FitsInPlace(size[t]) /\ reserveable
  BY <1>2, InPlaceInv DEF ReserveLoop
<1>3. CASE FitsInPlace(size[t]) /\ ~reserveable
  <2>1. Room(size[t])
    BY <1>1, <1>3, RoomIs
  <2>2. QED
    BY <1>3, <2>1, BounceInv DEF ReserveLoop, Waiting
<1>4. CASE ~FitsInPlace(size[t])
  <2>1. CASE NEXT_CMD >= STOP
    BY <1>4, <2>1, LookInv DEF ReserveLoop, Waiting
  <2>2. CASE ~(NEXT_CMD >= STOP)
    BY <1>4, <2>2, LookInv DEF ReserveLoop, Waiting
  <2>3. QED
    BY <2>1, <2>2
<1>5. QED
  BY <1>2, <1>3, <1>4

LEMMA ReserveAboveInv == ASSUME IInv, NEW t \in Threads, ReserveAbove(t) PROVE IInv'
<1>1. size[t] \in Nat /\ NEXT_CMD \in Ring /\ STOP \in Ring
  BY DEF IInv, TypeOK, Ring
<1>2. CASE IsFull(size[t])
  BY <1>2, LookInv DEF ReserveAbove, Waiting
<1>3. CASE ~IsFull(size[t])
  <2>1. NEXT_CMD >= STOP
    BY DEF IInv, Looking, ReserveAbove, Waiting
  <2>2. Room(size[t])
    BY <1>1, <1>3, <2>1, RoomIs
  <2>3. QED
    BY <1>3, <2>2, BounceInv DEF ReserveAbove, Waiting
<1>4. QED
  BY <1>2, <1>3

\* out_err, after three seconds without progress of the device.
LEMMA FailInv == ASSUME IInv, NEW t \in Threads, WaitTimeout(t) PROVE IInv'
<1> USE DEF IInv, WaitTimeout, Fail, Goto, ring
<1>1. fifo_mutex = t /\ \A u \in Threads \ {t} : pc[u] = "idle"
  BY Alone
<1>2. copied = 0 /\ buffer = <<>> /\ ~dynamic_buffer /\ (reserveable => RESERVED = 0)
  BY <1>1 DEF Rest, Looking, Waiting
<1>3. Used' = Used /\ Last' = Last
  BY DEF Used, Last, Advance
<1>4. TypeOK'
  BY DEF TypeOK, Labels
<1>5. Exclusive' /\ Rest' /\ Looking' /\ Reserved' /\ Written' /\ Unpublished' /\ LastWord'
  BY <1>1, <1>2, <1>3
     DEF TypeOK, Exclusive, Rest, Looking, Reserved, Written, Unpublished, LastWord, Waiting
<1>6. QED
  BY <1>4, <1>5

\* The words of a command of at most the reserved size.
LEMMA CommandIs ==
  ASSUME NEW t \in Threads, NEW n \in Nat
  PROVE  /\ Command(t, n) \in Seq(WordsOrBlank) /\ DOMAIN Command(t, n) = 1 .. n
         /\ Len(Command(t, n)) = n
         /\ \A i \in 1 .. n : Command(t, n)[i] = Word(t, i, n)
  BY DEF Command, Word, WordsOrBlank

\* Words put at NEXT_CMD where there is room disturb no word in use.
LEMMA PutInv ==
  ASSUME NEXT_CMD \in Ring, STOP \in Ring, mem \in [Ring -> WordsOrBlank],
         UNCHANGED <<NEXT_CMD, STOP, executed>>,
         NEW t \in Threads, NEW n \in Nat, Room(n), mem' = Put(NEXT_CMD, Command(t, n))
  PROVE  /\ mem' \in [Ring -> WordsOrBlank]
         /\ \A k \in 1 .. n : mem'[Advance(NEXT_CMD, k - 1)] = Word(t, k, n)
         /\ Used' = Used /\ Contents' = Contents /\ Last' = Last
<1>1. n < N /\ Used \in 0 .. N - 1
  BY UsedIs, FifoAssumption DEF Room, N
<1>2. mem' \in [Ring -> WordsOrBlank]
  BY CommandIs DEF Put, Ring
<1>3. \A k \in 1 .. n : mem'[Advance(NEXT_CMD, k - 1)] = Word(t, k, n)
  <2> DEFINE W == Command(t, n)
  <2>1. DOMAIN W = 1 .. n /\ \A k \in 1 .. n : W[k] = Word(t, k, n)
    BY CommandIs
  <2>2. mem' = Put(NEXT_CMD, W)
    OBVIOUS
  <2> HIDE DEF W
  <2>3. QED
    BY <1>1, <2>1, <2>2, PutAt
<1>4. ASSUME NEW j \in 0 .. Used - 1 PROVE mem'[Advance(STOP, j)] = mem[Advance(STOP, j)]
  <2>1. CASE n = 0
    <3>1. Advance(STOP, j) \in Ring
      BY <1>1, Advancing, FifoAssumption DEF N
    <3>2. QED
      BY <1>1, <2>1, <3>1, CommandIs, PutAt
  <2>2. CASE n # 0
    <3>1. Advance(STOP, j) \in Ring
      BY <2>2, Apart
    <3>2. \A k \in 1 .. n : Advance(NEXT_CMD, k - 1) # Advance(STOP, j)
      BY Apart
    <3>3. QED
      BY <1>1, <3>1, <3>2, CommandIs, PutAt
  <2>3. QED
    BY <2>1, <2>2
<1>5. QED
  BY <1>2, <1>3, <1>4, SameContents

\* The submitter writes in the ring or in the buffer.
LEMMA WriteInv ==
  ASSUME IInv, NEW t \in Threads, WriteCommand(t)
  PROVE  IInv' /\ Contents' = Contents
<1> USE DEF IInv, WriteCommand, Goto
<1>1. fifo_mutex = t /\ \A u \in Threads \ {t} : pc[u] = "idle"
  BY Alone
<1>2. PICK n \in 0 .. size[t] :
        /\ size' = [size EXCEPT ![t] = n]
        /\ IF using_bounce_buffer THEN buffer' = Command(t, n) /\ UNCHANGED mem
           ELSE mem' = Put(NEXT_CMD, Command(t, n)) /\ UNCHANGED buffer
  OBVIOUS
<1>3. NEXT_CMD \in Ring /\ STOP \in Ring /\ mem \in [Ring -> WordsOrBlank] /\ N \in Nat
  BY FifoAssumption DEF TypeOK, Ring, N
<1>4. /\ size[t] = reserved_size /\ size[t] \in Sizes /\ size[t] \in Nat /\ copied = 0
      /\ Room(size[t]) /\ size[t] <= MaxSize /\ MaxSize \in Nat
  BY MaxSizeIs DEF Reserved
<1>5. n \in Nat /\ n <= MaxSize /\ n <= reserved_size /\ Room(n)
  BY <1>2, <1>3, <1>4, UsedIs DEF Room
<1>6. /\ mem' \in [Ring -> WordsOrBlank] /\ buffer' \in Seq(WordsOrBlank)
      /\ Used' = Used /\ Contents' = Contents /\ Last' = Last
      /\ ~using_bounce_buffer =>
           \A k \in 1 .. n : mem'[Advance(NEXT_CMD, k - 1)] = Word(t, k, n)
  <2>1. CASE using_bounce_buffer
    BY <1>2, <1>3, <1>5, <2>1, CommandIs, SameContents
  <2>2. CASE ~using_bounce_buffer
    BY <1>2, <1>3, <1>5, <2>2, PutInv DEF TypeOK
  <2>3. QED
    BY <2>1, <2>2
<1>7. TypeOK'
  BY <1>2, <1>5, <1>6 DEF TypeOK, Labels, Ring
<1>8. pc' = [pc EXCEPT ![t] = "written"] /\ fifo_mutex' = t
  BY <1>1
<1>9. Exclusive'
  BY <1>1, <1>8 DEF TypeOK, Exclusive
<1>10. Rest'
  BY <1>1, <1>8, FifoAssumption DEF TypeOK, Rest, Waiting
<1>11. Looking' /\ Reserved' /\ Unpublished'
  BY <1>1, <1>8 DEF TypeOK, Looking, Reserved, Unpublished, Waiting
<1>12. Written'
  <2>1. CASE using_bounce_buffer
    BY <1>1, <1>2, <1>4, <1>5, <1>6, <2>1 DEF TypeOK, Written, Reserved, Room
  <2>2. CASE ~using_bounce_buffer
    BY <1>1, <1>2, <1>4, <1>5, <1>6, <2>2 DEF TypeOK, Written, Reserved, Room, Advance
  <2>3. QED
    BY <2>1, <2>2
<1>13. LastWord'
  BY <1>1, <1>4, <1>6 DEF TypeOK, LastWord
<1>14. QED
  BY <1>6, <1>7, <1>9, <1>10, <1>11, <1>12, <1>13

-----------------------------------------------------------------------------
(* Contents as a queue. *)

LEMMA ContentsIs ==
  ASSUME NEXT_CMD \in Ring, STOP \in Ring
  PROVE  /\ Len(Contents) = Used /\ DOMAIN Contents = 1 .. Used
         /\ \A k \in 1 .. Used : Contents[k] = mem[Advance(STOP, k - 1)]
         /\ Used > 0 => Last = Contents[Used]
  BY UsedIs, FifoAssumption DEF Contents, Last, N

\* What the queue gains when NEXT_CMD moves past m words.
LEMMA Grows ==
  ASSUME NEXT_CMD \in Ring, STOP \in Ring, NEW m \in Nat \ {0}, Room(m),
         NEXT_CMD' = Advance(NEXT_CMD, m), UNCHANGED <<STOP, executed>>,
         \A j \in 0 .. Used - 1 : mem'[Advance(STOP, j)] = mem[Advance(STOP, j)]
  PROVE  /\ Used' = Used + m /\ NEXT_CMD' \in Ring
         /\ Len(Contents) = Used /\ Len(Contents') = Used + m
         /\ SubSeq(Contents', 1, Used) = Contents
         /\ \A k \in 1 .. m : Contents'[Used + k] = mem'[Advance(NEXT_CMD, k - 1)]
         /\ Last' = mem'[Advance(NEXT_CMD, m - 1)]
<1>1. Used \in Nat /\ Used' = Used + m /\ NEXT_CMD' \in Ring
  BY UsedIs, UsedGrows
<1>2. Contents' = [k \in 1 .. Used + m |-> mem'[Advance(STOP, k - 1)]]
  BY <1>1 DEF Contents, Advance
<1>3. \A k \in 1 .. m : Advance(NEXT_CMD, k - 1) = Advance(STOP, Used + k - 1)
  <2> SUFFICES ASSUME NEW k \in 1 .. m
               PROVE  Advance(NEXT_CMD, k - 1) = Advance(STOP, Used + k - 1)
    OBVIOUS
  <2>1. /\ Used \in Nat /\ k - 1 \in Nat /\ Used + (k - 1) <= N
        /\ Advance(STOP, Used) = NEXT_CMD
    BY UsedIs, FifoAssumption DEF Room, N
  <2>2. QED
    BY <2>1, Advancing
<1>4. \A k \in 1 .. Used : mem'[Advance(STOP, k - 1)] = mem[Advance(STOP, k - 1)]
  BY <1>1
<1>5. Len(Contents) = Used /\ Len(Contents') = Used + m
  BY <1>1, <1>2 DEF Contents
<1>6. SubSeq(Contents', 1, Used) = Contents
  BY <1>1, <1>2, <1>4 DEF Contents
<1>7. \A k \in 1 .. m : Contents'[Used + k] = mem'[Advance(NEXT_CMD, k - 1)]
  BY <1>1, <1>2, <1>3
<1>8. Last' = mem'[Advance(NEXT_CMD, m - 1)]
  <2>1. Last' = mem'[Advance(STOP, Used + m - 1)]
    BY <1>1 DEF Last, Advance
  <2>2. QED
    BY <1>3, <2>1
<1>9. QED
  BY <1>1, <1>5, <1>6, <1>7, <1>8

\* Words of one command, the first after what came before: Produce.
LEMMA Produces ==
  ASSUME NEXT_CMD \in Ring, STOP \in Ring, NEW m \in Nat \ {0}, Room(m),
         NEXT_CMD' = Advance(NEXT_CMD, m), UNCHANGED <<STOP, executed>>,
         \A j \in 0 .. Used - 1 : mem'[Advance(STOP, j)] = mem[Advance(STOP, j)],
         NEW t \in Threads, NEW c \in Nat, NEW n \in Nat, c + m <= n, n <= MaxSize,
         \A k \in 1 .. m : mem'[Advance(NEXT_CMD, k - 1)] = Word(t, c + k, n),
         c = 0 => Last = <<>> \/ Last.i = Last.n,
         c > 0 => Last = Word(t, c, n)
  PROVE  Queue!Produce /\ Last' = Word(t, c + m, n)
<1>1. /\ Used \in Nat /\ Used' = Used + m /\ Len(Contents) = Used /\ Len(Contents') = Used + m
      /\ SubSeq(Contents', 1, Used) = Contents
      /\ \A k \in 1 .. m : Contents'[Used + k] = Word(t, c + k, n)
      /\ Last' = Word(t, c + m, n)
  <2>1. m \in 1 .. m /\ Used \in Nat
    BY UsedIs
  <2>2. QED
    BY <2>1, Grows
<1>2. ASSUME NEW k \in Len(Contents) + 1 .. Len(Contents')
      PROVE  /\ Contents'[k] \in Queue!Words
             /\ Queue!Follows(IF k = 1 THEN executed ELSE Contents'[k - 1], Contents'[k])
  <2>1. k - Used \in 1 .. m /\ k = Used + (k - Used)
    BY <1>1
  <2>2. Contents'[k] = Word(t, c + (k - Used), n)
    BY <1>1, <2>1
  <2>3. c + (k - Used) \in 1 .. n /\ n \in 1 .. MaxSize /\ MaxSize \in Nat
    BY <2>1, MaxSizeIs
  <2>4. Contents'[k] \in Queue!Words
    BY <2>2, <2>3 DEF Word, Queue!Words
  <2>5. CASE k = Used + 1
    <3>1. (IF k = 1 THEN executed ELSE Contents'[k - 1]) = Last
      <4>1. CASE Used = 0
        BY <2>5, <4>1 DEF Last
      <4>2. CASE Used # 0
        <5>1. Contents'[Used] = Contents[Used]
          BY <1>1, <4>2
        <5>2. QED
          BY <1>1, <2>5, <4>2, <5>1, ContentsIs
      <4>3. QED
        BY <4>1, <4>2
    <3>2. CASE c = 0
      <4>1. Contents'[k].i = 1
        BY <2>2, <2>5, <1>1, <3>2 DEF Word
      <4>2. Queue!Follows(Last, Contents'[k])
        BY <3>2, <4>1 DEF Queue!Follows
      <4>3. QED
        BY <2>4, <3>1, <4>2
    <3>3. CASE c > 0
      <4>1. Last = Word(t, c, n) /\ Contents'[k] = Word(t, c + 1, n)
        BY <2>2, <2>5, <1>1, <3>3
      <4>2. Word(t, c, n) # <<>> /\ Word(t, c + 1, n) = [Word(t, c, n) EXCEPT !.i = @ + 1]
        BY DEF Word
      <4>3. Queue!Follows(Last, Contents'[k])
        BY <4>1, <4>2 DEF Queue!Follows
      <4>4. QED
        BY <2>4, <3>1, <4>3
    <3>4. QED
      BY <3>2, <3>3
  <2>6. CASE k # Used + 1
    <3>1. k - 1 - Used \in 1 .. m /\ k - 1 = Used + (k - 1 - Used) /\ k # 1
      BY <1>1, <2>1, <2>6
    <3>2. Contents'[k - 1] = Word(t, c + (k - 1 - Used), n)
      BY <1>1, <3>1
    <3>3. Word(t, c + (k - 1 - Used), n) # <<>>
      BY DEF Word
    <3>4. Contents'[k] = [Contents'[k - 1] EXCEPT !.i = @ + 1]
      <4>1. c + (k - 1 - Used) \in Int /\ c + (k - Used) = c + (k - 1 - Used) + 1
        BY <1>1, <2>1, <3>1
      <4>2. QED
        BY <2>2, <3>2, <4>1 DEF Word
    <3>5. QED
      BY <2>4, <3>1, <3>2, <3>3, <3>4 DEF Queue!Follows
  <2>7. QED
    BY <2>5, <2>6, <2>4
<1>3. QED
  BY <1>1, <1>2 DEF Queue!Produce

-----------------------------------------------------------------------------
(* vmw_fifo_commit and the device. *)

LEMMA CommitInPlaceInv ==
  ASSUME IInv, NEW t \in Threads, CommitInPlace(t)
  PROVE  IInv' /\ Contents' = Contents
<1> USE DEF IInv, CommitInPlace, Goto, ring
<1>1. fifo_mutex = t /\ \A u \in Threads \ {t} : pc[u] = "idle"
  BY Alone
<1>2. Used' = Used /\ Last' = Last /\ Contents' = Contents
  BY DEF Used, Last, Contents, Advance
<1>3. pc' = [pc EXCEPT ![t] = "publish"] /\ copied = 0 /\ size[t] \in Nat
  BY DEF Written, TypeOK
<1>4. TypeOK'
  BY DEF TypeOK, Labels
<1>5. Exclusive' /\ Rest' /\ Looking' /\ Reserved' /\ Written'
  BY <1>1, <1>3, FifoAssumption
     DEF TypeOK, Exclusive, Rest, Looking, Reserved, Written, Waiting
<1>6. Unpublished'
  BY <1>1, <1>2, <1>3 DEF TypeOK, Written, Unpublished, Room, Advance
<1>7. LastWord'
  BY <1>2, <1>3 DEF LastWord
<1>8. QED
  BY <1>2, <1>4, <1>5, <1>6, <1>7

LEMMA CommitResCopyInv ==
  ASSUME IInv, NEW t \in Threads, CommitResCopy(t)
  PROVE  IInv' /\ Contents' = Contents
<1> USE DEF IInv, CommitResCopy, Goto
<1>1. fifo_mutex = t /\ \A u \in Threads \ {t} : pc[u] = "idle"
  BY Alone
<1>2. /\ NEXT_CMD \in Ring /\ STOP \in Ring /\ mem \in [Ring -> WordsOrBlank]
      /\ size[t] \in Nat /\ copied = 0
  BY DEF TypeOK, Ring, Written
<1>3. /\ buffer = Command(t, size[t]) /\ Room(size[t]) /\ size[t] <= MaxSize
      /\ mem' = Put(NEXT_CMD, Command(t, size[t]))
  BY <1>2 DEF Written
<1>4. /\ mem' \in [Ring -> WordsOrBlank]
      /\ \A k \in 1 .. size[t] : mem'[Advance(NEXT_CMD, k - 1)] = Word(t, k, size[t])
      /\ Used' = Used /\ Contents' = Contents /\ Last' = Last
  BY <1>2, <1>3, PutInv
<1>5. TypeOK'
  BY <1>2, <1>4, EmptySeq DEF TypeOK, Labels, Ring
<1>6. pc' = [pc EXCEPT ![t] = "publish"]
  OBVIOUS
<1>7. Exclusive' /\ Rest' /\ Looking' /\ Reserved' /\ Written'
  BY <1>1, <1>6, FifoAssumption
     DEF TypeOK, Exclusive, Rest, Looking, Reserved, Written, Waiting
<1>8. Unpublished'
  BY <1>1, <1>2, <1>3, <1>4, <1>6 DEF TypeOK, Unpublished, Room, Advance
<1>9. LastWord'
  BY <1>2, <1>4 DEF LastWord
<1>10. QED
  BY <1>4, <1>5, <1>7, <1>8, <1>9

\* One word of the slow copy: the device may read along.
LEMMA SlowWordInv ==
  ASSUME IInv, NEW t \in Threads, CommitSlowCopy(t), copied < size[t]
  PROVE  IInv' /\ Queue!Produce
<1> USE DEF IInv, CommitSlowCopy
<1>1. fifo_mutex = t /\ \A u \in Threads \ {t} : pc[u] = "idle"
  BY Alone
<1>2. /\ NEXT_CMD \in Ring /\ STOP \in Ring /\ mem \in [Ring -> WordsOrBlank]
      /\ size[t] \in Nat /\ copied \in Nat /\ size[t] <= MaxSize
      /\ Used \in 0 .. N - 1 /\ N \in Nat
  BY UsedIs, FifoAssumption DEF TypeOK, Ring, Written, N
<1>3. /\ buffer = Command(t, size[t]) /\ Room(size[t] - copied)
      /\ buffer[copied + 1] = Word(t, copied + 1, size[t])
  <2>1. buffer = Command(t, size[t]) /\ Room(size[t] - copied)
    BY DEF Written
  <2>2. copied + 1 \in 1 .. size[t]
    BY <1>2
  <2>3. QED
    BY <1>2, <2>1, <2>2, CommandIs
<1>4. /\ mem' = [mem EXCEPT ![NEXT_CMD] = Word(t, copied + 1, size[t])]
      /\ NEXT_CMD' = Advance(NEXT_CMD, 1) /\ copied' = copied + 1
      /\ Room(1) /\ UNCHANGED <<STOP, executed, pc, size, buffer, dynamic_buffer>>
  BY <1>2, <1>3 DEF Room
<1>5. Used' = Used + 1 /\ NEXT_CMD' \in Ring
  BY <1>2, <1>4, UsedGrows
<1>6. \A j \in 0 .. Used - 1 : mem'[Advance(STOP, j)] = mem[Advance(STOP, j)]
  <2> SUFFICES ASSUME NEW j \in 0 .. Used - 1
               PROVE  Advance(STOP, j) # NEXT_CMD /\ Advance(STOP, j) \in Ring
    BY <1>2, <1>4
  <2>1. 1 \in 1 .. 1 /\ Advance(NEXT_CMD, 1 - 1) = NEXT_CMD
    BY <1>2, FifoAssumption DEF Advance, Ring
  <2>2. Advance(STOP, j) # Advance(NEXT_CMD, 1 - 1) /\ Advance(STOP, j) \in Ring
    BY <1>2, <1>4, <2>1, Apart
  <2>3. QED
    BY <2>1, <2>2
<1>7. \A k \in 1 .. 1 : mem'[Advance(NEXT_CMD, k - 1)] = Word(t, copied + k, size[t])
  BY <1>2, <1>4, FifoAssumption DEF Advance, Ring
<1>8. Queue!Produce /\ Last' = Word(t, copied + 1, size[t])
  <2>1. copied = 0 => Last = <<>> \/ Last.i = Last.n
    BY DEF LastWord
  <2>2. copied > 0 => Last = Word(t, copied, size[t])
    BY DEF LastWord
  <2>3. copied + 1 <= size[t] /\ 1 \in Nat \ {0}
    BY <1>2
  <2>4. QED
    BY <1>2, <1>4, <1>6, <1>7, <2>1, <2>2, <2>3, Produces
<1>9. TypeOK'
  BY <1>2, <1>4, <1>5 DEF TypeOK, Ring, Word, WordsOrBlank
<1>10. Exclusive' /\ Rest' /\ Looking' /\ Reserved' /\ Unpublished'
  BY <1>1, <1>4, FifoAssumption
     DEF TypeOK, Exclusive, Rest, Looking, Reserved, Unpublished, Waiting
<1>11. Written'
  <2>1. Room(size[t] - copied)' /\ copied' <= size'[t] /\ copied' > 0
    BY <1>2, <1>3, <1>4, <1>5 DEF Room
  <2>2. \A u \in Threads : pc'[u] = "written" => u = t
    BY <1>1, <1>4
  <2>3. ~reserveable' /\ using_bounce_buffer' /\ size'[t] <= MaxSize
    BY <1>2, <1>4
  <2>4. buffer' = Command(t, size'[t])
    BY <1>3, <1>4
  <2>5. QED
    BY <2>1, <2>2, <2>3, <2>4 DEF Written
<1>12. LastWord'
  BY <1>1, <1>2, <1>4, <1>8 DEF LastWord
<1>13. QED
  BY <1>8, <1>9, <1>10, <1>11, <1>12

LEMMA SlowDoneInv ==
  ASSUME IInv, NEW t \in Threads, CommitSlowCopy(t), ~(copied < size[t])
  PROVE  IInv' /\ Contents' = Contents
<1> USE DEF IInv, CommitSlowCopy, Goto
<1>1. fifo_mutex = t /\ \A u \in Threads \ {t} : pc[u] = "idle"
  BY Alone
<1>2. Used' = Used /\ Last' = Last /\ Contents' = Contents
  BY DEF Used, Last, Contents, Advance
<1>3. pc' = [pc EXCEPT ![t] = "publish"] /\ copied = size[t] /\ size[t] \in Nat
  BY DEF Written, TypeOK
<1>4. TypeOK'
  BY EmptySeq DEF TypeOK, Labels
<1>5. Exclusive' /\ Rest' /\ Looking' /\ Reserved' /\ Written'
  BY <1>1, <1>3, FifoAssumption
     DEF TypeOK, Exclusive, Rest, Looking, Reserved, Written, Waiting
<1>6. Unpublished'
  BY <1>1, <1>2, <1>3 DEF TypeOK, Written, Unpublished, Room, Advance
<1>7. LastWord'
  BY <1>1, <1>2, <1>3 DEF LastWord, Word, TypeOK
<1>8. QED
  BY <1>2, <1>4, <1>5, <1>6, <1>7

\* NEXT_CMD moves past the command, or is there already.
LEMMA PublishInv ==
  ASSUME IInv, NEW t \in Threads, Publish(t)
  PROVE  IInv' /\ (Queue!Produce \/ UNCHANGED <<Contents, executed>>)
<1> USE DEF IInv, Publish, Goto
<1>1. fifo_mutex = t /\ \A u \in Threads \ {t} : pc[u] = "idle"
  BY Alone
<1>2. /\ NEXT_CMD \in Ring /\ STOP \in Ring /\ size[t] \in Nat /\ copied \in Nat
      /\ Used \in 0 .. N - 1 /\ N \in Nat
  BY UsedIs, FifoAssumption DEF TypeOK, Ring, N
<1>3. /\ size[t] <= MaxSize /\ Room(size[t] - copied) /\ (copied = 0 \/ copied = size[t])
      /\ reserved_size = 0 /\ ~dynamic_buffer /\ buffer = <<>>
  BY DEF Unpublished, TypeOK
<1>4. /\ NEXT_CMD' \in Ring /\ (Queue!Produce \/ UNCHANGED <<Contents, executed>>)
      /\ Last' = <<>> \/ Last'.i = Last'.n
  <2>1. CASE copied = size[t]
    <3>1. NEXT_CMD' = NEXT_CMD
      BY <1>2, <2>1, FifoAssumption DEF Advance, Ring
    <3>2. Contents' = Contents /\ Last' = Last
      BY <1>2, <3>1, SameContents
    <3>3. Last = <<>> \/ Last.i = Last.n
      BY <1>2, <2>1 DEF LastWord, Word
    <3>4. QED
      BY <1>2, <3>1, <3>2, <3>3
  <2>2. CASE copied # size[t]
    <3>1. copied = 0 /\ size[t] \in Nat \ {0} /\ NEXT_CMD' = Advance(NEXT_CMD, size[t])
      BY <1>2, <1>3, <2>2
    <3>2. \A k \in 1 .. size[t] : mem'[Advance(NEXT_CMD, k - 1)] = Word(t, 0 + k, size[t])
      BY <3>1 DEF Unpublished
    <3>3. Room(size[t])
      BY <1>2, <1>3, <3>1
    <3>4. Last = <<>> \/ Last.i = Last.n
      BY <3>1 DEF LastWord
    <3>5. Queue!Produce /\ Last' = Word(t, 0 + size[t], size[t])
      <4>1. 0 \in Nat /\ 0 + size[t] <= size[t] /\ ~(0 > 0)
        BY <1>2
      <4>2. QED
        BY <1>2, <1>3, <3>1, <3>2, <3>3, <3>4, <4>1, Produces
    <3>6. Last'.i = Last'.n
      BY <1>2, <3>5 DEF Word
    <3>7. NEXT_CMD' \in Ring
      BY <1>2, <3>1, <3>3, UsedGrows
    <3>8. QED
      BY <3>5, <3>6, <3>7
  <2>3. QED
    BY <2>1, <2>2
<1>5. TypeOK'
  BY <1>2, <1>4 DEF TypeOK, Labels, Ring
<1>6. \A u \in Threads : pc'[u] = "idle"
  BY <1>1 DEF TypeOK
<1>7. Exclusive' /\ Looking' /\ Reserved' /\ Written' /\ Unpublished'
  BY <1>6 DEF Exclusive, Looking, Reserved, Written, Unpublished, Waiting
<1>8. Rest'
  BY <1>3 DEF Rest, TypeOK
<1>9. LastWord'
  BY <1>4, <1>6 DEF LastWord
<1>10. QED
  BY <1>4, <1>5, <1>7, <1>8, <1>9

\* The device takes the first word, and finds it as it was written.
LEMMA DeviceInv ==
  ASSUME IInv, DeviceExecute
  PROVE  IInv' /\ Queue!Execute
<1> USE DEF IInv, DeviceExecute
<1>1. /\ NEXT_CMD \in Ring /\ STOP \in Ring /\ mem \in [Ring -> WordsOrBlank]
      /\ Used \in 1 .. N - 1 /\ N \in Nat
  BY UsedIs, FifoAssumption DEF TypeOK, Ring, N
<1>2. Used' = Used - 1 /\ STOP' \in Ring /\ (NEXT_CMD >= STOP => NEXT_CMD' >= STOP')
  BY <1>1, UsedShrinks
<1>3. \A j \in 0 .. Used - 1 : /\ Advance(STOP, j) \in Ring
                               /\ j > 0 => Advance(STOP, j) # STOP
                               /\ j > 0 => Advance(STOP', j - 1) = Advance(STOP, j)
  <2> SUFFICES ASSUME NEW j \in 0 .. Used - 1
               PROVE  /\ Advance(STOP, j) \in Ring
                      /\ j > 0 => Advance(STOP, j) # STOP
                      /\ j > 0 => Advance(STOP', j - 1) = Advance(STOP, j)
    OBVIOUS
  <2>1. j \in Nat /\ j < N
    BY <1>1
  <2>2. QED
    BY <1>1, <2>1, FifoAssumption DEF Advance, Ring, N
<1>4. Advance(STOP, 0) = STOP
  BY <1>1, FifoAssumption DEF Advance, Ring
<1>5. ASSUME NEW n \in Nat, Room(n), NEW k \in 1 .. n
      PROVE  mem'[Advance(NEXT_CMD, k - 1)] = mem[Advance(NEXT_CMD, k - 1)]
  <2>1. Advance(STOP, 0) # Advance(NEXT_CMD, k - 1)
    BY <1>1, <1>5, Apart
  <2>2. QED
    BY <1>1, <1>4, <2>1
<1>6. \A n \in Int : Room(n) => Room(n)'
  BY <1>1, <1>2 DEF Room, N
<1>7. Last' = Last
  <2>1. CASE Used = 1
    BY <1>1, <1>2, <1>4, <2>1 DEF Last
  <2>2. CASE Used > 1
    <3>1. Last' = mem'[Advance(STOP', (Used - 1) - 1)]
      BY <1>1, <1>2, <2>2 DEF Last, Advance
    <3>2. Used - 1 \in 0 .. Used - 1 /\ Used - 1 > 0
      BY <1>1, <2>2
    <3>3. Last = mem[Advance(STOP, Used - 1)]
      BY <2>2, <1>1 DEF Last
    <3>4. QED
      BY <1>1, <1>3, <3>1, <3>2, <3>3
  <2>3. QED
    BY <1>1, <2>1, <2>2
<1>8. Queue!Execute
  <2>1. Contents' = [k \in 1 .. Used - 1 |-> mem'[Advance(STOP', k - 1)]]
    BY <1>2 DEF Contents, Advance
  <2>2. \A k \in 1 .. Used - 1 : mem'[Advance(STOP', k - 1)] = mem[Advance(STOP, k)]
    BY <1>1, <1>3
  <2>3. Len(Contents) = Used /\ Contents # <<>> /\ executed' = Contents[1]
    BY <1>1, <1>4, ContentsIs DEF Contents
  <2>4. Tail(Contents) = [k \in 1 .. Used - 1 |-> mem[Advance(STOP, k)]]
    BY <1>1 DEF Contents
  <2>5. Contents' = Tail(Contents)
    BY <1>1, <2>1, <2>2, <2>4
  <2>6. QED
    BY <2>3, <2>5 DEF Queue!Execute
<1>9. TypeOK'
  BY <1>1, <1>2, FifoAssumption DEF TypeOK, Ring, state, WordsOrBlank, Blank
<1>10. Exclusive' /\ Rest' /\ Looking'
  BY <1>2 DEF Exclusive, Rest, Looking, state
<1>11. Reserved'
  BY <1>6 DEF Reserved, state, TypeOK
<1>12. Written'
  <2> SUFFICES ASSUME NEW t \in Threads, pc[t] = "written"
               PROVE  /\ Room(size[t] - copied)'
                      /\ ~using_bounce_buffer =>
                           /\ Room(RESERVED)'
                           /\ \A k \in 1 .. size[t] :
                                mem'[Advance(NEXT_CMD, k - 1)] = Word(t, k, size[t])
    BY DEF Written, state, Advance
  <2>1. size[t] \in Nat /\ copied \in Nat /\ RESERVED \in Nat
    BY DEF TypeOK
  <2>2. ~using_bounce_buffer => Room(size[t])
    BY <2>1 DEF Written
  <2>3. QED
    BY <1>5, <1>6, <2>1, <2>2 DEF Written, state
<1>13. Unpublished'
  <2> SUFFICES ASSUME NEW t \in Threads, pc[t] = "publish"
               PROVE  /\ Room(size[t] - copied)'
                      /\ reserveable => Room(RESERVED)'
                      /\ copied = 0 => \A k \in 1 .. size[t] :
                           mem'[Advance(NEXT_CMD, k - 1)] = Word(t, k, size[t])
    BY DEF Unpublished, state, Advance
  <2>1. size[t] \in Nat /\ copied \in Nat /\ RESERVED \in Nat
    BY DEF TypeOK
  <2>2. copied = 0 => Room(size[t])
    BY <2>1 DEF Unpublished
  <2>3. QED
    BY <1>5, <1>6, <2>1, <2>2 DEF Unpublished, state
<1>14. LastWord'
  BY <1>7 DEF LastWord, state
<1>15. QED
  BY <1>8, <1>9, <1>10, <1>11, <1>12, <1>13, <1>14

-----------------------------------------------------------------------------
(* The specification. *)

\* Every step keeps the invariant and is a step of the queue, or none.
LEMMA StepInv == IInv /\ [Next]_vars => IInv' /\ [Queue!Next]_(Queue!vars)
<1> SUFFICES ASSUME IInv, [Next]_vars PROVE IInv' /\ [Queue!Next]_(Queue!vars)
  OBVIOUS
<1> USE DEF Queue!Next, Queue!vars
<1>1. ASSUME UNCHANGED <<NEXT_CMD, STOP, mem, executed>>
      PROVE  UNCHANGED <<Contents, executed>>
  BY <1>1 DEF Contents, Used, Advance
<1>2. CASE UNCHANGED vars
  <2>1. IInv'
    BY <1>2 DEF IInv, TypeOK, Exclusive, Rest, Looking, Reserved, Written, Unpublished, LastWord,
                Last, Room, Used, Advance, vars, ring, state
  <2>2. QED
    BY <1>1, <1>2, <2>1 DEF vars, ring
<1>3. CASE DeviceExecute
  BY <1>3, DeviceInv
<1>4. ASSUME NEW t \in Threads, Reserve(t) PROVE IInv' /\ [Queue!Next]_(Queue!vars)
  BY <1>1, <1>4, ReserveInv DEF Reserve, ring
<1>5. ASSUME NEW t \in Threads, ReserveLoop(t) PROVE IInv' /\ [Queue!Next]_(Queue!vars)
  BY <1>1, <1>5, ReserveLoopInv
     DEF ReserveLoop, ReserveInPlace, Bounce, ReserveBounce, VmallocFails, ring
<1>6. ASSUME NEW t \in Threads, ReserveAbove(t) PROVE IInv' /\ [Queue!Next]_(Queue!vars)
  BY <1>1, <1>6, ReserveAboveInv DEF ReserveAbove, Bounce, ReserveBounce, VmallocFails, ring
<1>7. ASSUME NEW t \in Threads, ReserveBelow(t) PROVE IInv' /\ [Queue!Next]_(Queue!vars)
  <2>1. IInv'
    <3>1. pc[t] \in Waiting /\ UNCHANGED <<ring, state, size, copied>>
      BY <1>7 DEF ReserveBelow, Waiting
    <3>2. CASE IsFull(size[t])
      BY <1>7, <3>1, <3>2, LookInv DEF ReserveBelow, Waiting
    <3>3. CASE ~IsFull(size[t])
      BY <1>7, <3>1, <3>3, LookInv DEF ReserveBelow, Waiting
    <3>4. QED
      BY <3>2, <3>3
  <2>2. QED
    BY <1>1, <1>7, <2>1 DEF ReserveBelow, ring
<1>8. ASSUME NEW t \in Threads, WaitDone(t) PROVE IInv' /\ [Queue!Next]_(Queue!vars)
  BY <1>1, <1>8, LookInv DEF WaitDone, Waiting, ring
<1>9. ASSUME NEW t \in Threads, WaitTimeout(t) PROVE IInv' /\ [Queue!Next]_(Queue!vars)
  BY <1>1, <1>9, FailInv DEF WaitTimeout, Fail, ring
<1>10. ASSUME NEW t \in Threads, WriteCommand(t) PROVE IInv' /\ [Queue!Next]_(Queue!vars)
  BY <1>10, WriteInv DEF WriteCommand
<1>11. ASSUME NEW t \in Threads, CommitInPlace(t) PROVE IInv' /\ [Queue!Next]_(Queue!vars)
  BY <1>11, CommitInPlaceInv DEF CommitInPlace, ring
<1>12. ASSUME NEW t \in Threads, CommitResCopy(t) PROVE IInv' /\ [Queue!Next]_(Queue!vars)
  BY <1>12, CommitResCopyInv DEF CommitResCopy
<1>13. ASSUME NEW t \in Threads, CommitSlowCopy(t) PROVE IInv' /\ [Queue!Next]_(Queue!vars)
  BY <1>13, SlowWordInv, SlowDoneInv DEF CommitSlowCopy
<1>14. ASSUME NEW t \in Threads, Publish(t) PROVE IInv' /\ [Queue!Next]_(Queue!vars)
  BY <1>14, PublishInv
<1>15. QED
  BY <1>2, <1>3, <1>4, <1>5, <1>6, <1>7, <1>8, <1>9, <1>10, <1>11, <1>12, <1>13, <1>14
     DEF Next, Continue

\* All of vmwgfx_fifo.c: the inductive invariant.
THEOREM Invariant == Spec => []IInv
<1>1. IInv /\ [Next]_vars => IInv'
  BY StepInv
<1>2. QED
  BY InitInv, <1>1, PTL DEF Spec

\* The registers stay within the ring, the driver's fields keep their types.
THEOREM TypeCorrect == Spec => []TypeOK
<1>1. IInv => TypeOK
  BY DEF IInv
<1>2. QED
  BY Invariant, <1>1, PTL

\* No BUG_ON of vmw_fifo_reserve and vmw_fifo_commit is met.
THEOREM BugsOff == Spec => []NoBugOn
<1>1. IInv => NoBugOn
  BY DEF IInv, NoBugOn, Rest, Reserved, Written
<1>2. QED
  BY Invariant, <1>1, PTL

\* SVGA_FIFO_RESERVED never covers a word that waits to be executed.
THEOREM ReservedWordsFree == Spec => []ReservedWordsAreFree
<1>1. IInv => ReservedWordsAreFree
  <2> SUFFICES ASSUME IInv, reserveable PROVE Room(RESERVED)
    BY DEF ReservedWordsAreFree, Room, N
  <2> USE DEF IInv
  <2>1. Room(0) /\ N \in Nat
    BY UsedIs, FifoAssumption DEF TypeOK, Ring, Room, N
  <2>2. CASE \A t \in Threads : pc[t] \in Waiting \cup {"idle"}
    BY <2>1, <2>2 DEF Rest
  <2>3. CASE \E t \in Threads : pc[t] \in {"reserved", "written", "publish"}
    BY <2>1, <2>3 DEF Reserved, Written, Unpublished, TypeOK
  <2>4. QED
    BY <2>2, <2>3 DEF TypeOK, Labels, Waiting
<1>2. QED
  BY Invariant, <1>1, PTL

\* The fifo is a queue of whole commands: every step of a submitter or of the
\* device is a step of FifoQueue on Contents, or changes nothing there.
THEOREM ImplementsQueue == Spec => RingIsQueue
<1>1. Init => Queue!Init
  <2> SUFFICES ASSUME Init PROVE Queue!Init
    OBVIOUS
  <2>1. Used = 0
    BY UsedIs, FifoAssumption DEF Init, Ring
  <2>2. Contents = <<>>
    BY <2>1 DEF Contents
  <2>3. QED
    BY <2>2 DEF Init, Queue!Init
<1>2. IInv /\ [Next]_vars => [Queue!Next]_(Queue!vars)
  BY StepInv
<1>3. QED
  BY Invariant, <1>1, <1>2, PTL DEF Spec, RingIsQueue, Queue!Spec
=============================================================================
