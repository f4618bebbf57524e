---------------------------- MODULE VmwFenceProof ----------------------------
(***************************************************************************)
(* Proofs about VmwFence for any finite number of threads and actions, any *)
(* number of fences and any numbers that fit into half of the wrap-around. *)
(*                                                                         *)
(* The properties depend on each other: a fence that somebody waits for    *)
(* stays on the list because the action holds a reference (Counted), the   *)
(* goal can then be trusted to name one (Goal), and the walk over the list *)
(* may stop early because the list is sorted (Sorted), which needs         *)
(* cmdbuf_mutex around every submission.                                   *)
(***************************************************************************)
EXTENDS VmwFence, FiniteSetTheorems, SequenceTheorems, TLAPS

Updating == {"read", "update", "reread"}
Holding == {"have", "goalirq", "added", "waitadd", "waitcheck", "asleep", "waitdone"}
Making == {"create", "nofence"}

\* Where a thread is, with the place an update returns to.
In(t, S) == pc[t] \in S \/ (pc[t] \in Updating /\ ret[t] \in S)
\* It has a reference, or a number it has no fence for yet.
Holds(t) == In(t, Holding)
Makes(t) == In(t, Making) \/ pc[t] = "sent"

\* The control state: what a place in the code says about the other fields.
Control ==
  /\ \A t \in Threads :
       /\ obj[t] # NoOne <=> Holds(t)
       /\ pc[t] \in Updating => ret[t] \in {"create", "nofence", "have", "added", "waitadd",
                                           "waitcheck"}
       /\ pc[t] = "sent" => ret[t] \in Making
       /\ pc[t] \notin Updating \cup {"sent"} => ret[t] = "idle"
       /\ t \in closed => pc[t] \in {"closing", "idle"} /\ t # PowerThread
       /\ goal_irq_mutex = t <=> In(t, {"goalirq", "added"})
  /\ goal_irq_mutex = Worker <=> worker.pc = "goalirq"
  /\ pc[Isr] \in {"idle", "ack"} \cup Updating /\ ret[Isr] = "idle"
  /\ PowerThread \in Threads =>
       ~Makes(PowerThread) /\ (pc[PowerThread] # "idle" => fifo_down)

\* fence_queue_waiters is the number of waits under way.
Waits == {t \in Threads : In(t, {"waitcheck", "asleep", "waitdone"})}
Waiters == fence_queue_waiters = Cardinality(Waits)

Has(f, L) == \E i \in DOMAIN L : L[i] = f
OnceEach(L) == \A i, j \in DOMAIN L : L[i] = L[j] => i = j
Listed(f) == Has(f, fence_list)

Placed(a) ==
  /\ action[a].fence = NoOne <=> action[a].state \in {"free", "done"}
  /\ action[a].state = "attached" => Listed(action[a].fence)
  /\ action[a].state = "free" => action[a].event = "none"

\* fence_list is the live fences that have not signaled, each once, and an
\* action waits for such a fence only.
Lists ==
  /\ OnceEach(fence_list)
  /\ \A f \in Fences : Listed(f) <=> Live(f) /\ ~fence[f].signaled
  /\ \A f \in Fences : fence[f].state = "free" => fence[f] = FreeFence
  /\ \A a \in Actions : Placed(a)

Counted == RefsAreHolders

\* A thread that is closing its file still sees its pending events.
Events == \A a \in Actions : action[a].event = "pending" =>
  action[a].file \in Threads /\ ~FileGone(action[a].file)

\* The goal: valid while somebody waits, armed while it is valid.
Goal ==
  /\ (\E a \in Actions : action[a].state = "attached") => seqno_valid
  /\ goal_irq_on <=> "FENCE_GOAL" \in irq_mask
  /\ seqno_valid => goal_irq_on \/ (goal_irq_mutex \in Threads /\ pc[goal_irq_mutex] = "goalirq")
  /\ worker.pc = "goalirq" /\ ~worker.valid => ~seqno_valid
  /\ GoalNamesAction

\* The age of a number: how many were used before it.
Age(s) == (s - FirstSeqno) % Wrap

\* The device executes commands in the order of their numbers.
Ages ==
  /\ Age(marker_seq) <= MaxSeqnos + 1
  /\ Age(FENCE) <= Age(marker_seq)
  /\ \A i \in DOMAIN commands :
       /\ Age(FENCE) <= Age(commands[i]) /\ Age(commands[i]) <= Age(marker_seq)
       /\ \A j \in DOMAIN commands : i < j => Age(commands[i]) <= Age(commands[j])
  /\ \A c \in Contexts : pc[c] \in {"update", "reread"} => Age(seen[c]) <= Age(FENCE)
  /\ \A t \in Threads : Makes(t) => Age(seqno[t]) <= Age(marker_seq)
  /\ \A f \in Fences : Live(f) =>
       /\ Age(fence[f].seqno) <= Age(marker_seq)
       /\ fence[f].signaled /\ ~fence[f].forced => Age(fence[f].seqno) <= Age(FENCE)

\* With cmdbuf_mutex around every submission the list is sorted, and what has
\* signaled is older than what has not.
Sorted ==
  /\ \A t \in Threads : Makes(t) =>
       /\ cmdbuf_mutex = t /\ seqno[t] = marker_seq
       /\ \A f \in Fences : Live(f) => Age(fence[f].seqno) < Age(marker_seq)
  /\ \A i, j \in DOMAIN fence_list : i < j =>
       Age(fence[fence_list[i]].seqno) < Age(fence[fence_list[j]].seqno)
  /\ \A f, g \in Fences :
       Live(f) /\ Live(g) /\ fence[g].signaled /\ ~fence[g].forced
         /\ Age(fence[f].seqno) <= Age(fence[g].seqno) => fence[f].signaled

Serialized == Unserialized = {} => Sorted

IInv == TypeOK /\ Control /\ Waiters /\ Lists /\ Counted /\ Events /\ Goal /\ Ages /\ Serialized

-----------------------------------------------------------------------------
(* Sequence numbers. *)

\* Remainders of what lies at most one round away.
LEMMA Remainder ==
  ASSUME NEW x \in Int, -Wrap <= x, x < Wrap
  PROVE  x % Wrap = IF x >= 0 THEN x ELSE x + Wrap
<1>0. Wrap \in Nat \ {0}
  BY ConstantsAssumption
<1>1. CASE x >= 0
  BY <1>0, <1>1
<1>2. CASE x < 0
  BY <1>0, <1>2
<1>3. QED
  BY <1>1, <1>2

\* The age of a number without a remainder.
LEMMA AgeIs ==
  ASSUME NEW s \in Seqnos
  PROVE  /\ Age(s) = IF s >= FirstSeqno THEN s - FirstSeqno ELSE s - FirstSeqno + Wrap
         /\ Age(s) \in 0 .. Wrap - 1
<1>1. s - FirstSeqno \in Int /\ -Wrap <= s - FirstSeqno /\ s - FirstSeqno < Wrap
  BY ConstantsAssumption DEF Seqnos
<1>2. (s - FirstSeqno) % Wrap = IF s - FirstSeqno >= 0 THEN s - FirstSeqno
                                ELSE s - FirstSeqno + Wrap
  BY <1>1, Remainder
<1>3. QED
  BY <1>2, ConstantsAssumption DEF Seqnos, Age

\* Between numbers in use the comparison modulo Wrap is the one of their ages.
LEMMA PassedIs ==
  ASSUME NEW reg \in Seqnos, NEW s \in Seqnos,
         Age(reg) <= MaxSeqnos + 1, Age(s) <= MaxSeqnos + 1
  PROVE  Passed(reg, s) <=> Age(s) <= Age(reg)
<1>1. reg - s \in Int /\ -Wrap <= reg - s /\ reg - s < Wrap
  BY ConstantsAssumption DEF Seqnos
<1>2. (reg - s) % Wrap = IF reg - s >= 0 THEN reg - s ELSE reg - s + Wrap
  BY <1>1, Remainder
<1>3. /\ Age(reg) = IF reg >= FirstSeqno THEN reg - FirstSeqno ELSE reg - FirstSeqno + Wrap
      /\ Age(s) = IF s >= FirstSeqno THEN s - FirstSeqno ELSE s - FirstSeqno + Wrap
      /\ Age(reg) \in 0 .. Wrap - 1 /\ Age(s) \in 0 .. Wrap - 1
  BY AgeIs
<1>4. /\ Wrap \in Nat /\ FirstSeqno \in Nat /\ MaxSeqnos \in Nat /\ reg \in Nat /\ s \in Nat
      /\ 2 * MaxSeqnos + 4 <= Wrap
  BY ConstantsAssumption DEF Seqnos
<1>5. (reg - s) % Wrap = IF Age(s) <= Age(reg) THEN Age(reg) - Age(s)
                         ELSE Age(reg) - Age(s) + Wrap
  BY <1>2, <1>3, <1>4
<1>6. QED
  BY <1>3, <1>4, <1>5 DEF Passed

\* The next number is older than none that was used.
LEMMA NextIs ==
  ASSUME NEW s \in Seqnos, Age(s) < MaxSeqnos
  PROVE  Next32(s) \in Seqnos /\ Age(s) < Age(Next32(s)) /\ Age(Next32(s)) <= MaxSeqnos + 1
<1>1. /\ Wrap \in Nat /\ FirstSeqno \in Nat /\ FirstSeqno < Wrap /\ MaxSeqnos \in Nat
      /\ s \in Nat /\ s < Wrap /\ 2 * MaxSeqnos + 4 <= Wrap
  BY ConstantsAssumption DEF Seqnos
<1>2. Next32(s) = IF s + 1 = Wrap THEN 1 ELSE s + 1
  BY <1>1 DEF Next32
<1>3. Next32(s) \in Seqnos
  BY <1>1, <1>2 DEF Seqnos
<1>4. /\ Age(s) = IF s >= FirstSeqno THEN s - FirstSeqno ELSE s - FirstSeqno + Wrap
      /\ Age(Next32(s)) = IF Next32(s) >= FirstSeqno THEN Next32(s) - FirstSeqno
                          ELSE Next32(s) - FirstSeqno + Wrap
  BY <1>3, AgeIs
<1>5. QED
  BY <1>1, <1>2, <1>3, <1>4

-----------------------------------------------------------------------------
(* Lists that lose elements. *)

\* What is left of a list is in the order it was in.
Shorter(new, L) ==
  /\ new \in Seq(Fences)
  /\ \A i, j \in DOMAIN new : i < j =>
       \E k, l \in DOMAIN L : k < l /\ new[i] = L[k] /\ new[j] = L[l]

\* Without takes one fence out and leaves the others in order.
LEMMA WithoutIs ==
  ASSUME NEW L \in Seq(Fences), OnceEach(L), NEW f
  PROVE  /\ Shorter(Without(L, f), L)
         /\ \A g \in Fences : Has(g, Without(L, f)) <=> Has(g, L) /\ g # f
<1>1. CASE ~Has(f, L)
  <2>1. Without(L, f) = L
    BY <1>1 DEF Without, Has
  <2>2. QED
    BY <1>1, <2>1 DEF Shorter, Has
<1>2. CASE Has(f, L)
  <2> DEFINE i == CHOOSE i \in DOMAIN L : L[i] = f
             A == SubSeq(L, 1, i - 1)
             B == SubSeq(L, i + 1, Len(L))
             W == A \o B
  <2>1. i \in 1 .. Len(L) /\ L[i] = f /\ Len(L) \in Nat
    BY <1>2 DEF Has
  <2>2. Without(L, f) = W
    BY <1>2 DEF Without, Has
  <2> HIDE DEF i
  <2>3. /\ A \in Seq(Fences) /\ Len(A) = i - 1
        /\ \A k \in 1 .. i - 1 : A[k] = L[k]
    BY <2>1
  <2>4. /\ B \in Seq(Fences) /\ Len(B) = Len(L) - i
         /\ \A k \in 1 .. Len(L) - i : B[k] = L[i + k]
    BY <2>1
  <2> HIDE DEF A, B
  <2>5. W \in Seq(Fences) /\ Len(W) = Len(L) - 1
    <3>1. W \in Seq(Fences) /\ Len(W) = Len(A) + Len(B)
      BY <2>3, <2>4, ConcatProperties
    <3>2. QED
      BY <2>1, <2>3, <2>4, <3>1
  <2>6. ASSUME NEW k \in 1 .. Len(L) - 1 PROVE W[k] = L[IF k < i THEN k ELSE k + 1]
    <3>1. W[k] = IF k <= i - 1 THEN A[k] ELSE B[k - (i - 1)]
      BY <2>1, <2>3, <2>4
    <3>2. CASE k < i
      BY <2>1, <2>3, <3>1, <3>2
    <3>3. CASE k >= i
      <4>1. k - (i - 1) \in 1 .. Len(L) - i /\ i + (k - (i - 1)) = k + 1
        BY <2>1, <3>3
      <4>2. QED
        BY <2>1, <2>4, <3>1, <3>3, <4>1
    <3>4. k < i \/ k >= i
      BY <2>1
    <3>5. QED
      BY <3>2, <3>3, <3>4
  <2> HIDE DEF W
  <2>7. DOMAIN W = 1 .. Len(L) - 1 /\ DOMAIN L = 1 .. Len(L) /\ Len(L) \in Nat
    BY <2>5
  <2>8. Shorter(W, L)
    <3>1. SUFFICES ASSUME NEW k \in DOMAIN W, NEW l \in DOMAIN W, k < l
                   PROVE  \E m, n \in DOMAIN L : m < n /\ W[k] = L[m] /\ W[l] = L[n]
      BY <2>5 DEF Shorter
    <3>2. LET m == IF k < i THEN k ELSE k + 1
              n == IF l < i THEN l ELSE l + 1
          IN  m \in DOMAIN L /\ n \in DOMAIN L /\ m < n /\ W[k] = L[m] /\ W[l] = L[n]
      BY <2>1, <2>6, <2>7, <3>1
    <3>3. QED
      BY <3>2
  <2>9. ASSUME NEW g \in Fences PROVE Has(g, W) <=> Has(g, L) /\ g # f
    <3>1. ASSUME NEW k \in DOMAIN W, W[k] = g PROVE Has(g, L) /\ g # f
      <4>1. LET m == IF k < i THEN k ELSE k + 1 IN m \in DOMAIN L /\ m # i /\ L[m] = g
        BY <2>1, <2>6, <2>7, <3>1
      <4>2. QED
        BY <2>1, <2>7, <4>1 DEF Has, OnceEach
    <3>2. ASSUME NEW m \in DOMAIN L, L[m] = g, g # f PROVE Has(g, W)
      <4>1. LET k == IF m < i THEN m ELSE m - 1 IN k \in DOMAIN W /\ W[k] = g
        BY <2>1, <2>6, <2>7, <3>2
      <4>2. QED
        BY <4>1 DEF Has
    <3>3. QED
      BY <3>1, <3>2 DEF Has
  <2>10. QED
    BY <2>2, <2>8, <2>9
<1>3. QED
  BY <1>1, <1>2

\* Taking n fences off the head.
LEMMA TailIs ==
  ASSUME NEW L \in Seq(Fences), NEW n \in 0 .. Len(L)
  PROVE  LET T == SubSeq(L, n + 1, Len(L)) IN
         /\ Shorter(T, L)
         /\ Len(T) = Len(L) - n
         /\ \A k \in 1 .. Len(L) - n : T[k] = L[n + k]
         /\ \A g : Has(g, T) <=> \E i \in n + 1 .. Len(L) : L[i] = g
<1> DEFINE T == SubSeq(L, n + 1, Len(L))
<1>1. n \in Nat /\ Len(L) \in Nat /\ n <= Len(L)
  OBVIOUS
<1>2. T \in Seq(Fences) /\ Len(T) = Len(L) - n /\ \A k \in 1 .. Len(L) - n : T[k] = L[n + k]
  BY <1>1
<1> HIDE DEF T
<1>3. DOMAIN T = 1 .. Len(L) - n /\ DOMAIN L = 1 .. Len(L)
  BY <1>2
<1>4. ASSUME NEW k \in DOMAIN T, NEW l \in DOMAIN T, k < l
      PROVE  \E i, j \in DOMAIN L : i < j /\ T[k] = L[i] /\ T[l] = L[j]
  <2>1. n + k \in DOMAIN L /\ n + l \in DOMAIN L /\ n + k < n + l
        /\ T[k] = L[n + k] /\ T[l] = L[n + l]
    BY <1>1, <1>2, <1>3, <1>4
  <2>2. QED
    BY <2>1
<1>5. ASSUME NEW g PROVE Has(g, T) <=> \E i \in n + 1 .. Len(L) : L[i] = g
  <2>1. ASSUME NEW k \in DOMAIN T, T[k] = g PROVE n + k \in n + 1 .. Len(L) /\ L[n + k] = g
    BY <1>1, <1>2, <1>3, <2>1
  <2>2. ASSUME NEW i \in n + 1 .. Len(L), L[i] = g PROVE i - n \in DOMAIN T /\ T[i - n] = g
    BY <1>1, <1>2, <1>3, <2>2
  <2>3. QED
    BY <2>1, <2>2 DEF Has
<1>6. QED
  BY <1>2, <1>4, <1>5 DEF Shorter, T

\* A shorter list has every element once if the longer one had.
LEMMA ShorterOnce ==
  ASSUME NEW L \in Seq(Fences), NEW new, Shorter(new, L), OnceEach(L)
  PROVE  OnceEach(new)
<1>1. SUFFICES ASSUME NEW i \in DOMAIN new, NEW j \in DOMAIN new, i < j, new[i] = new[j]
               PROVE  FALSE
  <2>1. DOMAIN new \subseteq Int
    BY DEF Shorter
  <2>2. QED
    BY <2>1, <1>1 DEF OnceEach
<1>2. PICK k, l \in DOMAIN L : k < l /\ new[i] = L[k] /\ new[j] = L[l]
  BY <1>1 DEF Shorter
<1>3. k = l
  BY <1>1, <1>2 DEF OnceEach
<1>4. QED
  BY <1>2, <1>3

-----------------------------------------------------------------------------
(* The references. *)

Objs(f) == {t \in Threads : obj[t] = f}
Acts(f) == {a \in Actions : action[a].fence = f}

\* The holders of a fence can be counted.
LEMMA Countable ==
  ASSUME NEW f
  PROVE  /\ IsFiniteSet(Objs(f)) /\ Cardinality(Objs(f)) \in Nat
         /\ Cardinality(Objs(f)) = 0 <=> Objs(f) = {}
         /\ IsFiniteSet(Acts(f)) /\ Cardinality(Acts(f)) \in Nat
         /\ Cardinality(Acts(f)) = 0 <=> Acts(f) = {}
         /\ Holders(f) = Cardinality(Objs(f)) + Cardinality(Acts(f))
                           + IF fence[f].handle THEN 1 ELSE 0
<1>1. IsFiniteSet(Objs(f)) /\ IsFiniteSet(Acts(f))
  <2>1. Objs(f) \in SUBSET Threads /\ Acts(f) \in SUBSET Actions
    BY DEF Objs, Acts
  <2>2. QED
    BY <2>1, FS_Subset, ConstantsAssumption
<1>2. QED
  BY <1>1, FS_CardinalityType, FS_EmptySet DEF Objs, Acts, Holders

\* Whoever holds a reference keeps the fence alive, and shares it if its
\* counter is above one.
LEMMA Referenced ==
  ASSUME TypeOK, Counted, NEW f \in Fences
  PROVE  /\ \A t \in Threads : obj[t] = f => Live(f) /\ fence[f].refs > 0
         /\ \A a \in Actions : action[a].fence = f => Live(f) /\ fence[f].refs > 0
         /\ fence[f].handle => Live(f) /\ fence[f].refs > 0
         /\ fence[f].refs = 1 =>
              /\ \A t, u \in Threads : obj[t] = f /\ obj[u] = f => t = u
              /\ \A a, b \in Actions : action[a].fence = f /\ action[b].fence = f => a = b
              /\ Objs(f) # {} => Acts(f) = {} /\ ~fence[f].handle
              /\ Acts(f) # {} => ~fence[f].handle
<1> DEFINE o == Cardinality(Objs(f))
           c == Cardinality(Acts(f))
<1>1. /\ fence[f].refs = o + c + (IF fence[f].handle THEN 1 ELSE 0)
      /\ Live(f) <=> fence[f].refs > 0
      /\ o \in Nat /\ c \in Nat
      /\ o = 0 <=> Objs(f) = {}
      /\ c = 0 <=> Acts(f) = {}
      /\ fence[f].handle \in BOOLEAN
  BY Countable DEF Counted, RefsAreHolders, TypeOK, FenceRecord
<1>2. /\ o = 1 => \E x : Objs(f) = {x}
      /\ c = 1 => \E x : Acts(f) = {x}
  BY Countable, FS_Singleton
<1> HIDE DEF o, c
<1>3. ASSUME NEW t \in Threads, obj[t] = f PROVE Objs(f) # {}
  BY <1>3 DEF Objs
<1>4. ASSUME NEW a \in Actions, action[a].fence = f PROVE Acts(f) # {}
  BY <1>4 DEF Acts
<1>5. Objs(f) # {} \/ Acts(f) # {} \/ fence[f].handle => Live(f) /\ fence[f].refs > 0
  BY <1>1
<1>6. ASSUME fence[f].refs = 1
      PROVE  /\ Objs(f) # {} => o = 1 /\ Acts(f) = {} /\ ~fence[f].handle
             /\ Acts(f) # {} => c = 1 /\ ~fence[f].handle
  BY <1>1, <1>6
<1>7. ASSUME fence[f].refs = 1, NEW t \in Threads, NEW u \in Threads, obj[t] = f, obj[u] = f
      PROVE  t = u
  BY <1>2, <1>6, <1>7 DEF Objs
<1>8. ASSUME fence[f].refs = 1, NEW a \in Actions, NEW b \in Actions,
             action[a].fence = f, action[b].fence = f
      PROVE  a = b
  BY <1>2, <1>6, <1>8 DEF Acts
<1>9. QED
  BY <1>3, <1>4, <1>5, <1>6, <1>7, <1>8

-----------------------------------------------------------------------------
(* The types. *)

\* The changes of a record.
LEMMA FenceChanges ==
  ASSUME NEW r \in FenceRecord
  PROVE  /\ r.seqno \in Seqnos /\ r.refs \in Nat
         /\ [r EXCEPT !.refs = r.refs + 1] \in FenceRecord
         /\ [r EXCEPT !.signaled = TRUE] \in FenceRecord
         /\ [r EXCEPT !.signaled = TRUE, !.forced = TRUE] \in FenceRecord
         /\ [r EXCEPT !.handle = FALSE] \in FenceRecord
<1>1. r.seqno \in Seqnos /\ r.refs \in Nat /\ r.refs + 1 \in Nat
  BY DEF FenceRecord
<1>2. [r EXCEPT !.refs = r.refs + 1] \in FenceRecord
  BY <1>1 DEF FenceRecord
<1>3. [r EXCEPT !.signaled = TRUE] \in FenceRecord
  BY DEF FenceRecord
<1>4. [r EXCEPT !.signaled = TRUE, !.forced = TRUE] \in FenceRecord
  BY DEF FenceRecord
<1>5. [r EXCEPT !.handle = FALSE] \in FenceRecord
  BY DEF FenceRecord
<1>6. QED
  BY <1>1, <1>2, <1>3, <1>4, <1>5

\* The changes of an action record.
LEMMA ActionChanges ==
  ASSUME NEW r \in ActionRecord
  PROVE  /\ [r EXCEPT !.state = "private"] \in ActionRecord
         /\ [r EXCEPT !.state = "done", !.fence = NoOne] \in ActionRecord
         /\ [r EXCEPT !.event = "destroyed"] \in ActionRecord
         /\ [r EXCEPT !.state = "cleanup", !.event = "sent"] \in ActionRecord
         /\ [r EXCEPT !.state = "cleanup", !.event = r.event] \in ActionRecord
  BY DEF ActionRecord

\* The list stays a list when a fence is freed.
LEMMA ListTyped ==
  ASSUME TypeOK, OnceEach(fence_list), NEW f
  PROVE  ListAfterUnreference(f) \in Seq(Fences)
<1>1. fence_list \in Seq(Fences)
  BY DEF TypeOK
<1>2. Without(fence_list, f) \in Seq(Fences)
  BY <1>1, WithoutIs DEF Shorter
<1>3. QED
  BY <1>1, <1>2 DEF ListAfterUnreference

\* A counter that is dropped was not zero.
LEMMA FenceTyped ==
  ASSUME TypeOK, Counted, NEW f \in Fences,
         \/ \E t \in Threads : obj[t] = f
         \/ \E a \in Actions : action[a].fence = f
         \/ fence[f].handle
  PROVE  Unreference(fence, f) \in [Fences -> FenceRecord]
<1>1. fence[f].refs > 0 /\ fence \in [Fences -> FenceRecord]
  BY Referenced DEF TypeOK
<1>2. fence[f].refs - 1 \in Nat
  BY <1>1 DEF FenceRecord
<1>3. [fence[f] EXCEPT !.refs = fence[f].refs - 1,
                       !.state = IF fence[f].refs = 1 THEN "freed" ELSE fence[f].state]
        \in FenceRecord
  BY <1>1, <1>2 DEF FenceRecord
<1>4. QED
  BY <1>1, <1>3 DEF Unreference

\* A reference more.
LEMMA GetTyped ==
  ASSUME TypeOK, NEW f, fence' = [fence EXCEPT ![f].refs = @ + 1]
  PROVE  fence' \in [Fences -> FenceRecord]
<1>1. CASE f \notin Fences
  BY <1>1 DEF TypeOK
<1>2. CASE f \in Fences
  <2>1. fence[f] \in FenceRecord
    BY <1>2 DEF TypeOK
  <2>2. [fence[f] EXCEPT !.refs = fence[f].refs + 1] \in FenceRecord
    BY <2>1, FenceChanges
  <2>3. QED
    BY <1>2, <2>2 DEF TypeOK
<1>3. QED
  BY <1>1, <1>2

\* A new action, and the actions that are performed.
LEMMA NewActionTyped ==
  ASSUME TypeOK, NEW t \in Threads, NEW state \in {"attached", "cleanup"},
         NEW event \in {"pending", "sent"}, NewAction(t, state, event)
  PROVE  fence' \in [Fences -> FenceRecord] /\ action' \in [Actions -> ActionRecord]
<1>1. [state |-> state, fence |-> obj[t], file |-> t, event |-> event] \in ActionRecord
  BY DEF ActionRecord, TypeOK
<1>2. action' \in [Actions -> ActionRecord]
  BY <1>1 DEF NewAction, TypeOK
<1>3. QED
  BY <1>2, GetTyped DEF NewAction

\* Performed actions are still actions.
LEMMA PerformTyped ==
  ASSUME TypeOK, NEW F
  PROVE  Perform(F) \in [Actions -> ActionRecord]
<1>1. ASSUME NEW a \in Actions
      PROVE  [action[a] EXCEPT !.state = "cleanup", !.event = IF @ = "pending" THEN "sent" ELSE @]
               \in ActionRecord
  <2>1. action[a] \in ActionRecord
    BY DEF TypeOK
  <2>2. CASE action[a].event = "pending"
    BY <2>1, <2>2, ActionChanges
  <2>3. CASE action[a].event # "pending"
    BY <2>1, <2>3, ActionChanges
  <2>4. QED
    BY <2>2, <2>3
<1>2. QED
  BY <1>1 DEF Perform, TypeOK

\* An update that ends.
LEMMA ReturnTyped ==
  ASSUME TypeOK, NEW c \in Contexts, Return(c)
  PROVE  /\ pc' \in [Contexts -> Labels] /\ ret' \in [Contexts -> Labels]
         /\ seen' \in [Contexts -> Seqnos]
<1>1. 0 \in Seqnos
  BY ConstantsAssumption DEF Seqnos
<1>2. QED
  BY <1>1 DEF TypeOK, Return, Goto, Labels

\* A step keeps every variable in its type.
LEMMA TypeInv ==
  ASSUME IInv, [Next]_vars
  PROVE  TypeOK'
<1> USE DEF IInv, TypeOK, Goto, Locals, device, private, manager, objects, control, Contexts,
            Labels, Interrupts
<1>1. ASSUME NEW t \in Threads, SendFence(t) PROVE TypeOK'
  <2>1. Next32(marker_seq) \in Seqnos
    BY NextIs, <1>1 DEF SendFence, Age
  <2>2. QED
    BY <1>1, <2>1 DEF SendFence
<1>2. ASSUME NEW t \in Threads, LookupFence(t) PROVE TypeOK'
  <2>1. fence' \in [Fences -> FenceRecord]
    BY <1>2, GetTyped DEF LookupFence
  <2>2. QED
    BY <1>2, <2>1 DEF LookupFence
<1>3. ASSUME NEW t \in Threads, Query(t) PROVE TypeOK'
  BY <1>3 DEF Query
<1>4. ASSUME NEW t \in Threads, BeginWait(t) PROVE TypeOK'
  BY <1>4 DEF BeginWait
<1>5. ASSUME NEW t \in Threads, AddToSignaled(t) PROVE TypeOK'
  <2>1. fence' \in [Fences -> FenceRecord] /\ action' \in [Actions -> ActionRecord]
    BY <1>5, NewActionTyped DEF AddToSignaled
  <2>2. QED
    BY <1>5, <2>1 DEF AddToSignaled
<1>6. ASSUME NEW t \in Threads, AddToUnsignaled(t) PROVE TypeOK'
  <2>1. fence' \in [Fences -> FenceRecord] /\ action' \in [Actions -> ActionRecord]
    BY <1>6, NewActionTyped DEF AddToUnsignaled
  <2>2. obj[t] \in Fences /\ fence[obj[t]].seqno \in Seqnos
    BY <1>6 DEF AddToUnsignaled, NewAction, Control, Holds, In, Holding, FenceRecord
  <2>3. QED
    BY <1>6, <2>1, <2>2 DEF AddToUnsignaled
<1>7. ASSUME NEW t \in Threads, BeginClose(t) PROVE TypeOK'
  BY <1>7 DEF BeginClose
<1>8. ASSUME NEW t \in Threads, FifoDown(t) PROVE TypeOK'
  BY <1>8 DEF FifoDown
<1>9. ASSUME NEW t \in Threads, Takedown(t) PROVE TypeOK'
  BY <1>9 DEF Takedown
<1>10. ASSUME NEW t \in Threads, UpdateSeqno(t) PROVE TypeOK'
  <2>1. /\ pc' \in [Contexts -> Labels] /\ ret' \in [Contexts -> Labels]
        /\ seen' \in [Contexts -> Seqnos]
    BY <1>10, ReturnTyped DEF UpdateSeqno
  <2>2. QED
    BY <1>10, <2>1 DEF UpdateSeqno
<1>11. ASSUME NEW t \in Threads, CreateFence(t) PROVE TypeOK'
  <2>1. PICK f \in Fences, handle \in BOOLEAN :
          /\ fence' = [fence EXCEPT ![f] =
                         [state |-> "live", seqno |-> seqno[t], handle |-> handle,
                          refs |-> IF handle THEN 2 ELSE 1,
                          signaled |-> FALSE, forced |-> FALSE]]
          /\ fence_list' = Append(fence_list, f)
          /\ obj' = [obj EXCEPT ![t] = f]
    BY <1>11 DEF CreateFence
  <2>2. fence' \in [Fences -> FenceRecord]
    BY <2>1 DEF FenceRecord
  <2>3. 0 \in Seqnos
    BY ConstantsAssumption DEF Seqnos
  <2>4. QED
    BY <1>11, <2>1, <2>2, <2>3 DEF CreateFence, Unlocked
<1>12. ASSUME NEW t \in Threads, CreateFails(t) PROVE TypeOK'
  BY <1>12 DEF CreateFails
<1>13. ASSUME NEW t \in Threads, NoFence(t) PROVE TypeOK'
  BY <1>13, ConstantsAssumption DEF NoFence, Unlocked, Seqnos
<1>14. ASSUME NEW t \in Threads, PutFence(t) \/ DownPut(t) PROVE TypeOK'
  <2>1. obj[t] \in Fences
    BY <1>14 DEF PutFence, DownPut, Control, Holds, In, Holding, Updating
  <2>2. fence_list' \in Seq(Fences) /\ fence' \in [Fences -> FenceRecord]
    BY <1>14, <2>1, ListTyped, FenceTyped DEF PutFence, DownPut, Lists
  <2>3. CASE PutFence(t)
    BY <2>2, <2>3 DEF PutFence
  <2>4. CASE DownPut(t)
    BY <2>2, <2>4 DEF DownPut
  <2>5. QED
    BY <1>14, <2>3, <2>4
<1>15. ASSUME NEW t \in Threads, GoalIrqOn(t) PROVE TypeOK'
  BY <1>15 DEF GoalIrqOn
<1>16. ASSUME NEW t \in Threads, AddDone(t) PROVE TypeOK'
  BY <1>16 DEF AddDone
<1>17. ASSUME NEW t \in Threads, WaiterAdd(t) PROVE TypeOK'
  <2>1. irq_status' \subseteq Interrupts /\ irq_mask' \subseteq Interrupts
    BY <1>17 DEF WaiterAdd
  <2>2. fence_queue_waiters' \in Nat
    BY <1>17 DEF WaiterAdd
  <2>3. QED
    BY <1>17, <2>1, <2>2 DEF WaiterAdd
<1>18. ASSUME NEW t \in Threads, WaitNotNeeded(t) \/ WaitCheck(t) \/ WaitWoken(t)
                                \/ WaitTimeout(t) \/ EndClose(t)
       PROVE  TypeOK'
  BY <1>18 DEF WaitNotNeeded, WaitCheck, WaitWoken, WaitTimeout, EndClose
<1>19. ASSUME NEW t \in Threads, WaiterRemove(t) PROVE TypeOK'
  <2>1. t \in Waits /\ Waits \in SUBSET Threads
    BY <1>19 DEF WaiterRemove, Waits, In
  <2>2. IsFiniteSet(Waits)
    BY <2>1, FS_Subset, ConstantsAssumption
  <2>3. fence_queue_waiters # 0
    BY <2>1, <2>2, FS_EmptySet DEF Waiters
  <2>4. QED
    BY <1>19, <2>3 DEF WaiterRemove
<1>20. ASSUME NEW t \in Threads, CloseEvent(t) PROVE TypeOK'
  <2>1. PICK a \in Actions : action' = [action EXCEPT ![a].event = "destroyed"]
    BY <1>20 DEF CloseEvent, PendingEvents
  <2>2. action' \in [Actions -> ActionRecord]
    BY <2>1, ActionChanges
  <2>3. QED
    BY <1>20, <2>2 DEF CloseEvent
<1>21. ASSUME NEW t \in Threads, DownNext(t) PROVE TypeOK'
  <2>1. CASE fence_list = <<>>
    BY <1>21, <2>1 DEF DownNext
  <2>2. CASE fence_list # <<>>
    <3>1. fence_list[Len(fence_list)] \in Fences
      BY <2>2
    <3>2. fence' \in [Fences -> FenceRecord]
      BY <1>21, <2>2, GetTyped DEF DownNext
    <3>3. obj' \in [Threads -> Fences \cup {NoOne}]
      BY <1>21, <2>2, <3>1 DEF DownNext
    <3>4. /\ pc' \in [Contexts -> Labels] /\ ret' \in [Contexts -> Labels]
      BY <1>21, <2>2 DEF DownNext
    <3>5. QED
      BY <1>21, <3>2, <3>3, <3>4 DEF DownNext
  <2>3. QED
    BY <2>1, <2>2
<1>22. ASSUME NEW t \in Threads, DownForce(t) PROVE TypeOK'
  <2>1. Without(fence_list, obj[t]) \in Seq(Fences)
    BY WithoutIs DEF Lists, Shorter
  <2>2. action' \in [Actions -> ActionRecord]
    BY <1>22, PerformTyped DEF DownForce
  <2>3. fence' \in [Fences -> FenceRecord]
    <3>1. \A f \in Fences : fence[f] \in FenceRecord
      OBVIOUS
    <3>2. \A f \in Fences : [fence[f] EXCEPT !.signaled = TRUE, !.forced = TRUE] \in FenceRecord
      BY <3>1, FenceChanges
    <3>3. QED
      BY <1>22, <3>2 DEF DownForce
  <2>4. QED
    BY <1>22, <2>1, <2>2, <2>3 DEF DownForce
<1>23. ASSUME NEW c \in Contexts, ReadFence(c) \/ RereadFence(c) PROVE TypeOK'
  <2>1. CASE ReadFence(c)
    BY <2>1 DEF ReadFence
  <2>2. CASE RereadFence(c)
    <3>1. /\ pc' \in [Contexts -> Labels] /\ ret' \in [Contexts -> Labels]
          /\ seen' \in [Contexts -> Seqnos]
      <4>1. CASE FENCE = seen[c]
        BY <2>2, <4>1, ReturnTyped DEF RereadFence
      <4>2. CASE FENCE # seen[c]
        <5>1. /\ pc' = [pc EXCEPT ![c] = "update"] /\ ret' = ret
              /\ seen' = [seen EXCEPT ![c] = FENCE]
          BY <2>2, <4>2 DEF RereadFence
        <5>2. QED
          BY <5>1
      <4>3. QED
        BY <4>1, <4>2
    <3>2. QED
      BY <2>2, <3>1 DEF RereadFence
  <2>3. QED
    BY <1>23, <2>1, <2>2
<1>24. ASSUME NEW c \in Contexts, UpdateLocked(c) PROVE TypeOK'
  <2>1. PICK n \in 0 .. Len(fence_list) :
          /\ fence_list' = SubSeq(fence_list, n + 1, Len(fence_list))
          /\ fence' = [f \in Fences |->
                IF f \in {fence_list[k] : k \in 1 .. n}
                  THEN [fence[f] EXCEPT !.signaled = TRUE] ELSE fence[f]]
          /\ action' = Perform({fence_list[k] : k \in 1 .. n})
          /\ NewGoal(seen[c], n)
          /\ work' = (work \/ \E a \in Actions : action'[a].state = "cleanup")
    BY <1>24 DEF UpdateLocked
  <2>2. fence_list' \in Seq(Fences)
    BY <2>1, TailIs DEF Shorter
  <2>3. fence' \in [Fences -> FenceRecord] /\ action' \in [Actions -> ActionRecord]
    <3>1. ASSUME NEW f \in Fences PROVE [fence[f] EXCEPT !.signaled = TRUE] \in FenceRecord
      BY FenceChanges
    <3>2. QED
      BY <2>1, <3>1, PerformTyped
  <2>4. work' \in BOOLEAN
    BY <2>1
  <2>5. seqno_valid' \in BOOLEAN /\ FENCE_GOAL' \in Seqnos
    <3>1. ASSUME NEW i \in n + 1 .. Len(fence_list) PROVE fence[fence_list[i]].seqno \in Seqnos
      <4>1. fence[fence_list[i]] \in FenceRecord
        OBVIOUS
      <4>2. QED
        BY <4>1, FenceChanges
    <3>2. CASE ~GoalPassed(seen[c])
      BY <2>1, <3>2 DEF NewGoal
    <3>3. CASE GoalPassed(seen[c])
      <4>1. FENCE_GOAL' = FENCE_GOAL \/ \E i \in n + 1 .. Len(fence_list) :
              FENCE_GOAL' = fence[fence_list[i]].seqno
        BY <2>1, <3>3 DEF NewGoal
      <4>2. seqno_valid' \in BOOLEAN
        BY <2>1, <3>3 DEF NewGoal
      <4>3. QED
        BY <3>1, <4>1, <4>2
    <3>4. QED
      BY <3>2, <3>3
  <2>6. /\ pc' \in [Contexts -> Labels] /\ ret' \in [Contexts -> Labels]
        /\ seen' \in [Contexts -> Seqnos]
    BY <1>24, ReturnTyped DEF UpdateLocked
  <2>7. QED
    BY <1>24, <2>2, <2>3, <2>4, <2>5, <2>6 DEF UpdateLocked
<1>25. ASSUME NEW f \in Fences, DropHandle(f) PROVE TypeOK'
  <2>1. fence_list' \in Seq(Fences) /\ Unreference(fence, f) \in [Fences -> FenceRecord]
    BY <1>25, ListTyped, FenceTyped DEF DropHandle, Lists
  <2>2. fence' \in [Fences -> FenceRecord]
    <3> DEFINE fn == Unreference(fence, f)
    <3> HIDE DEF fn
    <3>1. ASSUME fn \in [Fences -> FenceRecord] PROVE [fn EXCEPT ![f].handle = FALSE] \in [Fences -> FenceRecord]
      <4>1. [fn[f] EXCEPT !.handle = FALSE] \in FenceRecord
        BY <3>1, FenceChanges
      <4>2. QED
        BY <3>1, <4>1
    <3>2. QED
      BY <1>25, <2>1, <3>1 DEF DropHandle, fn
  <2>3. QED
    BY <1>25, <2>1, <2>2 DEF DropHandle
<1>26. ASSUME Irq \/ DeviceFence PROVE TypeOK'
  <2>1. CASE IrqRead
    BY <2>1 DEF IrqRead
  <2>2. CASE IrqAck
    BY <2>2 DEF IrqAck
  <2>3. CASE DeviceFence
    <3>1. Head(commands) \in Seqnos /\ Tail(commands) \in Seq(Seqnos)
      BY <2>3 DEF DeviceFence
    <3>2. QED
      BY <2>3, <3>1 DEF DeviceFence
  <2>4. QED
    BY <1>26, <2>1, <2>2, <2>3 DEF Irq
<1>27. ASSUME WorkSplice PROVE TypeOK'
  <2>1. action' \in [Actions -> ActionRecord]
    <3>1. ASSUME NEW a \in Actions PROVE [action[a] EXCEPT !.state = "private"] \in ActionRecord
      BY ActionChanges
    <3>2. QED
      BY <1>27, <3>1 DEF WorkSplice
  <2>2. work' \in BOOLEAN
    BY <1>27 DEF WorkSplice
  <2>3. QED
    BY <1>27, <2>1, <2>2 DEF WorkSplice
<1>28. ASSUME WorkGoalIrqOff PROVE TypeOK'
  BY <1>28 DEF WorkGoalIrqOff
<1>29. ASSUME WorkCleanup PROVE TypeOK'
  <2>1. PICK a \in PrivateList :
          /\ action' = [action EXCEPT ![a] = [@ EXCEPT !.state = "done", !.fence = NoOne]]
          /\ fence' = Unreference(fence, action[a].fence)
          /\ fence_list' = ListAfterUnreference(action[a].fence)
          /\ worker' = [worker EXCEPT !.pc = IF PrivateList = {a} THEN "splice" ELSE "cleanup"]
    BY <1>29 DEF WorkCleanup
  <2>2. action[a].fence \in Fences
    BY DEF Lists, Placed, PrivateList, ActionRecord
  <2>3. fence_list' \in Seq(Fences) /\ fence' \in [Fences -> FenceRecord]
    BY <2>1, <2>2, ListTyped, FenceTyped DEF Lists, Placed, PrivateList
  <2>4. [action[a] EXCEPT !.state = "done", !.fence = NoOne] \in ActionRecord
    BY ActionChanges DEF PrivateList
  <2>5. action' \in [Actions -> ActionRecord]
    BY <2>1, <2>4
  <2>6. QED
    BY <1>29, <2>1, <2>3, <2>5 DEF WorkCleanup
<1>30. ASSUME UNCHANGED vars PROVE TypeOK'
  BY <1>30 DEF vars
<1>31. QED
  BY <1>1, <1>2, <1>3, <1>4, <1>5, <1>6, <1>7, <1>8, <1>9, <1>10, <1>11, <1>12, <1>13, <1>14,
     <1>15, <1>16, <1>17, <1>18, <1>19, <1>20, <1>21, <1>22, <1>23, <1>24, <1>25, <1>26, <1>27,
     <1>28, <1>29, <1>30
  DEF Next, Call, Continue, Update, Work

-----------------------------------------------------------------------------
(* The control state. *)

\* Nobody else moves.
LEMMA ControlInv ==
  ASSUME IInv, TypeOK', [Next]_vars
  PROVE  Control' /\ (Waits' = Waits \/ \E t \in Threads : WaiterAdd(t) \/ WaiterRemove(t))
<1> USE ConstantsAssumption
    DEF IInv, Goto, Locals, device, private, manager, objects, control, TypeOK, Contexts,
        Control, Holds, Makes, In, Holding, Making, Updating, Waits
<1> DEFINE Same == Control' /\ Waits' = Waits
<1>1. ASSUME NEW t \in Threads, SendFence(t) PROVE Same
  BY <1>1 DEF SendFence
<1>2. ASSUME NEW t \in Threads, LookupFence(t) PROVE Same
  BY <1>2 DEF LookupFence
<1>3. ASSUME NEW t \in Threads, Query(t) PROVE Same
  BY <1>3 DEF Query
<1>4. ASSUME NEW t \in Threads, BeginWait(t) PROVE Same
  BY <1>4 DEF BeginWait
<1>5. ASSUME NEW t \in Threads, AddToSignaled(t) PROVE Same
  BY <1>5 DEF AddToSignaled, NewAction
<1>6. ASSUME NEW t \in Threads, AddToUnsignaled(t) PROVE Same
  BY <1>6 DEF AddToUnsignaled, NewAction
<1>7. ASSUME NEW t \in Threads, BeginClose(t) PROVE Same
  BY <1>7 DEF BeginClose
<1>8. ASSUME NEW t \in Threads, FifoDown(t) PROVE Same
  BY <1>8 DEF FifoDown
<1>9. ASSUME NEW t \in Threads, Takedown(t) PROVE Same
  BY <1>9 DEF Takedown
<1>10. ASSUME NEW t \in Threads, UpdateSeqno(t) PROVE Same
  BY <1>10 DEF UpdateSeqno, Return
<1>11. ASSUME NEW t \in Threads, CreateFence(t) PROVE Same
  BY <1>11 DEF CreateFence
<1>12. ASSUME NEW t \in Threads, CreateFails(t) PROVE Same
  BY <1>12 DEF CreateFails
<1>13. ASSUME NEW t \in Threads, NoFence(t) PROVE Same
  BY <1>13 DEF NoFence
<1>14. ASSUME NEW t \in Threads, PutFence(t) PROVE Same
  BY <1>14 DEF PutFence
<1>15. ASSUME NEW t \in Threads, GoalIrqOn(t) PROVE Same
  BY <1>15 DEF GoalIrqOn
<1>16. ASSUME NEW t \in Threads, AddDone(t) PROVE Same
  BY <1>16 DEF AddDone
<1>17. ASSUME NEW t \in Threads, WaitNotNeeded(t) PROVE Same
  BY <1>17 DEF WaitNotNeeded
<1>18. ASSUME NEW t \in Threads, WaitCheck(t) PROVE Same
  BY <1>18 DEF WaitCheck
<1>19. ASSUME NEW t \in Threads, WaitWoken(t) PROVE Same
  BY <1>19 DEF WaitWoken
<1>20. ASSUME NEW t \in Threads, WaitTimeout(t) PROVE Same
  BY <1>20 DEF WaitTimeout
<1>21. ASSUME NEW t \in Threads, CloseEvent(t) PROVE Same
  BY <1>21 DEF CloseEvent
<1>22. ASSUME NEW t \in Threads, EndClose(t) PROVE Same
  BY <1>22 DEF EndClose
<1>23. ASSUME NEW t \in Threads, DownNext(t) PROVE Same
  <2>1. fence_list = <<>> \/ fence_list[Len(fence_list)] \in Fences
    OBVIOUS
  <2>2. CASE fence_list = <<>>
    BY <1>23, <2>2 DEF DownNext
  <2>3. CASE fence_list # <<>>
    BY <1>23, <2>1, <2>3 DEF DownNext
  <2>4. QED
    BY <2>2, <2>3
<1>24. ASSUME NEW t \in Threads, DownForce(t) PROVE Same
  BY <1>24 DEF DownForce
<1>25. ASSUME NEW t \in Threads, DownPut(t) PROVE Same
  BY <1>25 DEF DownPut
<1>26. ASSUME NEW t \in Threads, WaiterAdd(t) PROVE Control'
  BY <1>26 DEF WaiterAdd
<1>27. ASSUME NEW t \in Threads, WaiterRemove(t) PROVE Control'
  BY <1>27 DEF WaiterRemove
<1>28. ASSUME NEW c \in Contexts, ReadFence(c) PROVE Same
  BY <1>28 DEF ReadFence, Return
<1>29. ASSUME NEW c \in Contexts, UpdateLocked(c) PROVE Same
  <2>1. /\ pc[c] = "update"
        /\ UNCHANGED <<obj, closed, goal_irq_mutex, fifo_down, worker>>
        /\ \/ pc' = [pc EXCEPT ![c] = "reread"] /\ ret' = ret
           \/ pc' = [pc EXCEPT ![c] = ret[c]] /\ ret' = [ret EXCEPT ![c] = "idle"]
    BY <1>29 DEF UpdateLocked, Return
  <2>2. CASE pc' = [pc EXCEPT ![c] = "reread"] /\ ret' = ret
    BY <2>1, <2>2
  <2>3. CASE pc' = [pc EXCEPT ![c] = ret[c]] /\ ret' = [ret EXCEPT ![c] = "idle"]
    BY <2>1, <2>3
  <2>4. QED
    BY <2>1, <2>2, <2>3
<1>30. ASSUME NEW c \in Contexts, RereadFence(c) PROVE Same
  BY <1>30 DEF RereadFence, Return
<1>31. ASSUME NEW f \in Fences, DropHandle(f) PROVE Same
  BY <1>31 DEF DropHandle
<1>32. ASSUME IrqRead PROVE Same
  BY <1>32 DEF IrqRead
<1>33. ASSUME IrqAck PROVE Same
  BY <1>33 DEF IrqAck
<1>34. ASSUME WorkSplice PROVE Same
  BY <1>34 DEF WorkSplice
<1>35. ASSUME WorkGoalIrqOff PROVE Same
  BY <1>35 DEF WorkGoalIrqOff
<1>36. ASSUME WorkCleanup PROVE Same
  BY <1>36 DEF WorkCleanup
<1>37. ASSUME DeviceFence PROVE Same
  BY <1>37 DEF DeviceFence
<1>38. ASSUME UNCHANGED vars PROVE Same
  BY <1>38 DEF vars
<1>39. QED
  BY <1>1, <1>2, <1>3, <1>4, <1>5, <1>6, <1>7, <1>8, <1>9, <1>10, <1>11, <1>12, <1>13, <1>14,
     <1>15, <1>16, <1>17, <1>18, <1>19, <1>20, <1>21, <1>22, <1>23, <1>24, <1>25, <1>26, <1>27, <1>28,
     <1>29, <1>30, <1>31, <1>32, <1>33, <1>34, <1>35, <1>36, <1>37, <1>38
  DEF Next, Call, Continue, Update, Irq, Work

\* The steps that touch fences, their list, the actions or a reference; the
\* other ones leave them alone.
Quiet == UNCHANGED <<fence, fence_list, action, obj>>
ObjectStep ==
  \/ \E t \in Threads :
       \/ LookupFence(t) \/ AddToSignaled(t) \/ AddToUnsignaled(t) \/ CreateFence(t)
       \/ PutFence(t) \/ CloseEvent(t) \/ DownNext(t) \/ DownForce(t) \/ DownPut(t)
  \/ \E c \in Contexts : UpdateLocked(c)
  \/ \E f \in Fences : DropHandle(f)
  \/ WorkSplice \/ WorkCleanup

\* No other step touches them.
LEMMA ObjectSteps ==
  ASSUME [Next]_vars
  PROVE  Quiet \/ ObjectStep
<1> USE DEF Quiet, Locals, objects, control, manager
<1>1. ASSUME NEW t \in Threads,
             \/ SendFence(t) \/ Query(t) \/ BeginWait(t) \/ BeginClose(t) \/ FifoDown(t)
             \/ Takedown(t) \/ UpdateSeqno(t) \/ CreateFails(t) \/ NoFence(t)
      PROVE  Quiet
  BY <1>1 DEF SendFence, Query, BeginWait, BeginClose, FifoDown, Takedown, UpdateSeqno,
              CreateFails, NoFence
<1>2. ASSUME NEW t \in Threads,
             \/ GoalIrqOn(t) \/ AddDone(t) \/ WaiterAdd(t) \/ WaitNotNeeded(t) \/ WaitCheck(t)
             \/ WaitWoken(t) \/ WaitTimeout(t) \/ WaiterRemove(t) \/ EndClose(t)
      PROVE  Quiet
  BY <1>2 DEF GoalIrqOn, AddDone, WaiterAdd, WaitNotNeeded, WaitCheck, WaitWoken, WaitTimeout,
              WaiterRemove, EndClose
<1>3. ASSUME NEW c \in Contexts, ReadFence(c) \/ RereadFence(c) PROVE Quiet
  BY <1>3 DEF ReadFence, RereadFence
<1>4. ASSUME Irq \/ DeviceFence \/ WorkGoalIrqOff \/ UNCHANGED vars PROVE Quiet
  BY <1>4 DEF Irq, IrqRead, IrqAck, DeviceFence, WorkGoalIrqOff, vars
<1>5. QED
  BY <1>1, <1>2, <1>3, <1>4 DEF Next, Call, Continue, Update, Work, ObjectStep

\* fence_queue_waiters follows the waits.
LEMMA WaitersInv ==
  ASSUME IInv, TypeOK', [Next]_vars
  PROVE  Waiters'
<1> USE DEF Locals, device, private, manager, objects, control
<1>1. Waits \in SUBSET Threads /\ IsFiniteSet(Waits)
  BY FS_Subset, ConstantsAssumption DEF Waits
<1>2. ASSUME NEW t \in Threads, WaiterAdd(t) PROVE Waiters'
  <2>1. Waits' = Waits \cup {t} /\ t \notin Waits
    BY <1>2 DEF WaiterAdd, Waits, In, Updating, Goto, IInv, TypeOK, Contexts, Control
  <2>2. QED
    BY <1>1, <1>2, <2>1, FS_AddElement DEF WaiterAdd, IInv, Waiters
<1>3. ASSUME NEW t \in Threads, WaiterRemove(t) PROVE Waiters'
  <2>1. Waits' = Waits \ {t} /\ t \in Waits
    BY <1>3 DEF WaiterRemove, Waits, In, Updating, Goto, IInv, TypeOK, Contexts, Control
  <2>2. QED
    BY <1>1, <1>3, <2>1, FS_RemoveElement DEF WaiterRemove, IInv, Waiters
<1>4. ASSUME ~ \E t \in Threads : WaiterAdd(t) \/ WaiterRemove(t)
      PROVE  UNCHANGED fence_queue_waiters
  <2>1. ASSUME NEW t \in Threads,
               \/ SendFence(t) \/ Query(t) \/ BeginWait(t) \/ BeginClose(t) \/ FifoDown(t)
               \/ Takedown(t) \/ UpdateSeqno(t) \/ CreateFails(t) \/ NoFence(t)
        PROVE  UNCHANGED fence_queue_waiters
    BY <2>1 DEF SendFence, Query, BeginWait, BeginClose, FifoDown, Takedown, UpdateSeqno,
                CreateFails, NoFence
  <2>2. ASSUME NEW t \in Threads,
               \/ GoalIrqOn(t) \/ AddDone(t) \/ WaitNotNeeded(t) \/ WaitCheck(t)
               \/ WaitWoken(t) \/ WaitTimeout(t) \/ EndClose(t)
        PROVE  UNCHANGED fence_queue_waiters
    BY <2>2 DEF GoalIrqOn, AddDone, WaitNotNeeded, WaitCheck, WaitWoken, WaitTimeout, EndClose
  <2>3. ASSUME NEW t \in Threads,
               \/ LookupFence(t) \/ AddToSignaled(t) \/ AddToUnsignaled(t) \/ CreateFence(t)
               \/ PutFence(t) \/ CloseEvent(t) \/ DownNext(t) \/ DownForce(t) \/ DownPut(t)
        PROVE  UNCHANGED fence_queue_waiters
    BY <2>3 DEF LookupFence, AddToSignaled, AddToUnsignaled, CreateFence, PutFence, CloseEvent,
                DownNext, DownForce, DownPut
  <2>4. ASSUME NEW c \in Contexts, Update(c) PROVE UNCHANGED fence_queue_waiters
    BY <2>4 DEF Update, ReadFence, UpdateLocked, RereadFence
  <2>5. ASSUME \/ Irq \/ DeviceFence \/ Work \/ UNCHANGED vars \/ \E f \in Fences : DropHandle(f)
        PROVE  UNCHANGED fence_queue_waiters
    BY <2>5 DEF Irq, IrqRead, IrqAck, DeviceFence, Work, WorkSplice, WorkGoalIrqOff, WorkCleanup,
                DropHandle, vars
  <2>6. QED
    BY <1>4, <2>1, <2>2, <2>3, <2>4, <2>5 DEF Next, Call, Continue
<1>5. QED
  BY <1>2, <1>3, <1>4, ControlInv DEF IInv, Waiters

-----------------------------------------------------------------------------
(* The counters. *)

\* What a thread or an action that turns from one fence to another does to the
\* number of holders.
LEMMA ObjMoves ==
  ASSUME TypeOK, NEW t \in Threads, NEW new, NEW f, obj'[t] = new,
         \A u \in Threads \ {t} : obj'[u] = obj[u]
  PROVE  Cardinality(Objs(f)') =
           Cardinality(Objs(f)) + (IF f = new THEN 1 ELSE 0) - (IF f = obj[t] THEN 1 ELSE 0)
<1>1. /\ IsFiniteSet(Objs(f)) /\ Cardinality(Objs(f)) \in Nat
      /\ IsFiniteSet(Objs(f) \ {t})
      /\ Cardinality(Objs(f) \ {t}) = Cardinality(Objs(f)) - (IF f = obj[t] THEN 1 ELSE 0)
  <2>1. IsFiniteSet(Objs(f)) /\ Cardinality(Objs(f)) \in Nat
    BY Countable
  <2>2. /\ IsFiniteSet(Objs(f) \ {t})
        /\ Cardinality(Objs(f) \ {t}) =
             IF t \in Objs(f) THEN Cardinality(Objs(f)) - 1 ELSE Cardinality(Objs(f))
    BY <2>1, FS_RemoveElement
  <2>3. t \in Objs(f) <=> f = obj[t]
    BY DEF Objs
  <2>4. QED
    BY <2>1, <2>2, <2>3
<1>2. CASE f = new
  <2>1. Objs(f)' = (Objs(f) \ {t}) \cup {t}
    BY <1>2 DEF Objs
  <2>2. Cardinality(Objs(f)') = Cardinality(Objs(f) \ {t}) + 1
    BY <1>1, <2>1, FS_AddElement
  <2>3. QED
    BY <1>1, <1>2, <2>2
<1>3. CASE f # new
  <2>1. Objs(f)' = Objs(f) \ {t}
    BY <1>3 DEF Objs
  <2>2. QED
    BY <1>1, <1>3, <2>1
<1>4. QED
  BY <1>2, <1>3

\* The same for an action, which counts among the holders of its fence.
LEMMA ActMoves ==
  ASSUME TypeOK, NEW a \in Actions, NEW new, NEW f, action'[a].fence = new,
         \A b \in Actions \ {a} : action'[b].fence = action[b].fence
  PROVE  Cardinality(Acts(f)') = Cardinality(Acts(f)) + (IF f = new THEN 1 ELSE 0)
                                   - (IF f = action[a].fence THEN 1 ELSE 0)
<1>1. /\ IsFiniteSet(Acts(f)) /\ Cardinality(Acts(f)) \in Nat
      /\ IsFiniteSet(Acts(f) \ {a})
      /\ Cardinality(Acts(f) \ {a}) =
           Cardinality(Acts(f)) - (IF f = action[a].fence THEN 1 ELSE 0)
  <2>1. IsFiniteSet(Acts(f)) /\ Cardinality(Acts(f)) \in Nat
    BY Countable
  <2>2. /\ IsFiniteSet(Acts(f) \ {a})
        /\ Cardinality(Acts(f) \ {a}) =
             IF a \in Acts(f) THEN Cardinality(Acts(f)) - 1 ELSE Cardinality(Acts(f))
    BY <2>1, FS_RemoveElement
  <2>3. a \in Acts(f) <=> f = action[a].fence
    BY DEF Acts
  <2>4. QED
    BY <2>1, <2>2, <2>3
<1>2. CASE f = new
  <2>1. Acts(f)' = (Acts(f) \ {a}) \cup {a}
    BY <1>2 DEF Acts
  <2>2. Cardinality(Acts(f)') = Cardinality(Acts(f) \ {a}) + 1
    BY <1>1, <2>1, FS_AddElement
  <2>3. QED
    BY <1>1, <1>2, <2>2
<1>3. CASE f # new
  <2>1. Acts(f)' = Acts(f) \ {a}
    BY <1>3 DEF Acts
  <2>2. QED
    BY <1>1, <1>3, <2>1
<1>4. QED
  BY <1>2, <1>3

\* Where nobody turns, the holders stay as many.
LEMMA NobodyMoves ==
  ASSUME NEW f
  PROVE  /\ obj' = obj => Cardinality(Objs(f)') = Cardinality(Objs(f))
         /\ (\A a \in Actions : action'[a].fence = action[a].fence) =>
               Cardinality(Acts(f)') = Cardinality(Acts(f))
<1>1. ASSUME obj' = obj PROVE Objs(f)' = Objs(f)
  BY <1>1 DEF Objs
<1>2. ASSUME \A a \in Actions : action'[a].fence = action[a].fence PROVE Acts(f)' = Acts(f)
  BY <1>2 DEF Acts
<1>3. QED
  BY <1>1, <1>2

\* The counter of one fence, and what keeps it right.
Handle(f) == IF fence[f].handle THEN 1 ELSE 0
Right(f) == fence[f].refs = Holders(f) /\ (Live(f) <=> Holders(f) > 0)

\* A counter that moves with its holders stays right.
LEMMA Recount ==
  ASSUME TypeOK, Counted, NEW f \in Fences,
         Cardinality(Objs(f)') \in Int, Cardinality(Acts(f)') \in Int,
         fence'[f].refs - fence[f].refs =
           (Cardinality(Objs(f)') - Cardinality(Objs(f)))
             + (Cardinality(Acts(f)') - Cardinality(Acts(f))) + (Handle(f)' - Handle(f)),
         fence'[f].refs \in Nat,
         Live(f)' <=> fence'[f].refs > 0
  PROVE  Right(f)'
<1>1. Holders(f) = Cardinality(Objs(f)) + Cardinality(Acts(f)) + Handle(f)
  BY DEF Holders, Objs, Acts, Handle
<1>2. Holders(f)' = Cardinality(Objs(f)') + Cardinality(Acts(f)') + Handle(f)'
  BY DEF Holders, Objs, Acts, Handle
<1>3. fence[f].refs = Holders(f)
  BY DEF Counted, RefsAreHolders
<1>4. /\ Cardinality(Objs(f)) \in Nat /\ Cardinality(Acts(f)) \in Nat
      /\ Handle(f) \in Int /\ Handle(f)' \in Int
  BY Countable DEF Handle
<1>5. Holders(f)' = fence'[f].refs
  BY <1>1, <1>2, <1>3, <1>4
<1>6. QED
  BY <1>5 DEF Right

\* Every step that takes a reference counts it, and every step that gives one
\* up uncounts it.
LEMMA CountedInv ==
  ASSUME IInv, TypeOK', [Next]_vars
  PROVE  Counted'
<1>0. SUFFICES ASSUME NEW f \in Fences PROVE Right(f)'
  BY DEF Counted, RefsAreHolders, Right
<1> USE DEF Live
<1>1. /\ TypeOK /\ Counted /\ fence \in [Fences -> FenceRecord] /\ fence[f] \in FenceRecord
      /\ Live(f) <=> fence[f].refs > 0
      /\ obj \in [Threads -> Fences \cup {NoOne}]
      /\ action \in [Actions -> ActionRecord]
      /\ fence[f].refs \in Nat
      /\ fence[f].handle \in BOOLEAN
      /\ Cardinality(Objs(f)) \in Nat /\ Cardinality(Acts(f)) \in Nat
      /\ fence'[f].refs \in Nat
  BY Countable DEF IInv, TypeOK, Counted, RefsAreHolders, FenceRecord
<1> DEFINE Get(g) == [fence EXCEPT ![g].refs = @ + 1]
<1>2. ASSUME NEW g \in Fences, fence' = Get(g), Live(g)
      PROVE  /\ fence'[f].refs - fence[f].refs =
                  ((IF f = g THEN 1 ELSE 0) + 0) + (Handle(f)' - Handle(f))
             /\ fence'[f].refs - fence[f].refs =
                  (0 + (IF f = g THEN 1 ELSE 0)) + (Handle(f)' - Handle(f))
             /\ Live(f)' <=> fence'[f].refs > 0
  BY <1>1, <1>2 DEF Handle
<1> HIDE DEF Get
<1>3. ASSUME NEW g \in Fences, fence' = Unreference(fence, g), Live(g)
      PROVE  /\ fence'[f].refs - fence[f].refs =
                  ((0 - (IF f = g THEN 1 ELSE 0)) + 0) + (Handle(f)' - Handle(f))
             /\ fence'[f].refs - fence[f].refs =
                  (0 + (0 - (IF f = g THEN 1 ELSE 0))) + (Handle(f)' - Handle(f))
             /\ Live(f)' <=> fence'[f].refs > 0
  BY <1>1, <1>3 DEF Handle, Unreference
<1>5. Handle(f) \in Int /\ Handle(f)' \in Int
  BY DEF Handle
<1>6. CASE Quiet
  <2>1. fence'[f] = fence[f] /\ \A a \in Actions : action'[a].fence = action[a].fence
    BY <1>6 DEF Quiet
  <2>2. Cardinality(Objs(f)') = Cardinality(Objs(f)) + 0 /\ Cardinality(Acts(f)') = Cardinality(Acts(f)) + 0
    BY <1>1, <1>6, <2>1, NobodyMoves DEF Quiet
  <2>3. Handle(f)' = Handle(f) /\ fence'[f].refs = fence[f].refs /\ (Live(f)' <=> fence'[f].refs > 0)
    BY <1>1, <2>1 DEF Handle
  <2>4. fence'[f].refs - fence[f].refs =
          (Cardinality(Objs(f)') - Cardinality(Objs(f)))
            + (Cardinality(Acts(f)') - Cardinality(Acts(f))) + (Handle(f)' - Handle(f))
    BY <1>1, <1>5, <2>2, <2>3
  <2>5. QED
    BY <1>1, <2>2, <2>3, <2>4, Recount
<1>7. ASSUME NEW t \in Threads, NEW g \in Fences, Live(g), obj[t] = NoOne,
             fence' = Get(g), obj' = [obj EXCEPT ![t] = g],
             action' = action
      PROVE  Right(f)'
  <2>1. Cardinality(Objs(f)') = Cardinality(Objs(f)) + (IF f = g THEN 1 ELSE 0)
    <3>1. Cardinality(Objs(f)') = Cardinality(Objs(f)) + (IF f = g THEN 1 ELSE 0)
                                    - (IF f = obj[t] THEN 1 ELSE 0)
      <4>1. obj'[t] = g /\ \A u \in Threads \ {t} : obj'[u] = obj[u]
        BY <1>1, <1>7
      <4>2. QED
        BY <1>1, <4>1, ObjMoves
    <3>2. f # obj[t]
      BY <1>7, ConstantsAssumption
    <3>3. QED
      BY <1>1, <3>1, <3>2
  <2>2. Cardinality(Acts(f)') = Cardinality(Acts(f)) + 0
    BY <1>7, NobodyMoves, Countable
  <2>3. QED
    BY <1>1, <1>2, <1>5, <1>7, <2>1, <2>2, Recount
<1>8. ASSUME NEW t \in Threads, LookupFence(t) PROVE Right(f)'
  <2>1. obj[t] = NoOne
    BY <1>8 DEF LookupFence, IInv, Control, Holds, In, Holding, Updating
  <2>2. QED
    BY <1>7, <1>8, <2>1 DEF LookupFence, Get
<1>9. ASSUME NEW t \in Threads, DownNext(t) PROVE Right(f)'
  <2>1. CASE fence_list = <<>>
    BY <1>6, <1>9, <2>1 DEF DownNext, Quiet, manager
  <2>2. CASE fence_list # <<>>
    <3> DEFINE g == fence_list[Len(fence_list)]
    <3>1. Len(fence_list) \in DOMAIN fence_list /\ g \in Fences
      BY <2>2 DEF IInv, TypeOK
    <3>2. Live(g)
      BY <3>1 DEF IInv, Lists, Listed, Has
    <3>3. obj[t] = NoOne
      BY <1>9 DEF DownNext, IInv, Control, Holds, In, Holding, Updating
    <3>4. fence' = Get(g) /\ obj' = [obj EXCEPT ![t] = g] /\ action' = action
      BY <1>9, <2>2 DEF DownNext, Get
    <3>5. QED
      BY <1>7, <3>1, <3>2, <3>3, <3>4
  <2>3. QED
    BY <2>1, <2>2
<1>10. ASSUME NEW t \in Threads, AddToSignaled(t) \/ AddToUnsignaled(t) PROVE Right(f)'
  <2>1. PICK a \in Actions : /\ action[a].state = "free"
                             /\ action'[a].fence = obj[t]
                             /\ \A b \in Actions \ {a} : action'[b].fence = action[b].fence
    BY <1>1, <1>10 DEF AddToSignaled, AddToUnsignaled, NewAction
  <2>2. fence' = Get(obj[t]) /\ obj' = obj /\ obj[t] \in Fences
    BY <1>1, <1>10 DEF Get, AddToSignaled, AddToUnsignaled, NewAction, control, Locals, IInv, Control,
                       Holds, In, Holding
  <2>3. Live(obj[t])
    BY <1>1, <2>2, Referenced
  <2>4. action[a].fence = NoOne
    BY <2>1 DEF IInv, Lists, Placed
  <2>5. Cardinality(Objs(f)') = Cardinality(Objs(f)) + 0
    BY <2>2, NobodyMoves, Countable
  <2>6. Cardinality(Acts(f)') = Cardinality(Acts(f)) + (IF f = obj[t] THEN 1 ELSE 0)
    <3>1. Cardinality(Acts(f)') = Cardinality(Acts(f)) + (IF f = obj[t] THEN 1 ELSE 0)
                                   - (IF f = action[a].fence THEN 1 ELSE 0)
      BY <1>1, <2>1, ActMoves
    <3>2. f # action[a].fence
      BY <2>4, ConstantsAssumption
    <3>3. QED
      BY <1>1, <3>1, <3>2
  <2>7. QED
    BY <1>1, <1>2, <1>5, <2>2, <2>3, <2>5, <2>6, Recount
<1>11. ASSUME NEW t \in Threads, CreateFence(t) PROVE Right(f)'
  <2>1. PICK g \in Fences, handle \in BOOLEAN :
          /\ fence[g].state = "free"
          /\ fence' = [fence EXCEPT ![g] =
                         [state |-> "live", seqno |-> seqno[t], handle |-> handle,
                          refs |-> IF handle THEN 2 ELSE 1,
                          signaled |-> FALSE, forced |-> FALSE]]
          /\ obj' = [obj EXCEPT ![t] = g]
    BY <1>11 DEF CreateFence
  <2>2. fence[g] = FreeFence /\ obj[t] = NoOne /\ action' = action
    BY <1>11, <2>1 DEF CreateFence, IInv, Lists, Control, Holds, In, Holding, Updating
  <2>3. Cardinality(Objs(f)') = Cardinality(Objs(f)) + (IF f = g THEN 1 ELSE 0)
    <3>1. Cardinality(Objs(f)') = Cardinality(Objs(f)) + (IF f = g THEN 1 ELSE 0)
                                    - (IF f = obj[t] THEN 1 ELSE 0)
      <4>1. obj'[t] = g /\ \A u \in Threads \ {t} : obj'[u] = obj[u]
        BY <1>1, <2>1
      <4>2. QED
        BY <1>1, <4>1, ObjMoves
    <3>2. f # obj[t]
      BY <2>2, ConstantsAssumption
    <3>3. QED
      BY <1>1, <3>1, <3>2
  <2>4. Cardinality(Acts(f)') = Cardinality(Acts(f)) + 0
    BY <2>2, NobodyMoves, Countable
  <2>5. fence'[f].refs - fence[f].refs = ((IF f = g THEN 1 ELSE 0) + 0) + (Handle(f)' - Handle(f))
    <3>1. CASE f = g
      BY <1>1, <2>1, <2>2, <3>1 DEF Handle, FreeFence
    <3>2. CASE f # g
      BY <1>1, <2>1, <3>2 DEF Handle
    <3>3. QED
      BY <3>1, <3>2
  <2>6. Live(f)' <=> fence'[f].refs > 0
    BY <1>1, <2>1
  <2>7. QED
    BY <1>1, <2>3, <2>4, <2>5, <2>6, Recount
<1>12. ASSUME NEW t \in Threads, PutFence(t) \/ DownPut(t) PROVE Right(f)'
  <2>1. /\ obj[t] \in Fences /\ fence' = Unreference(fence, obj[t])
        /\ obj' = [obj EXCEPT ![t] = NoOne] /\ action' = action
    BY <1>1, <1>12 DEF PutFence, DownPut, IInv, Control, Holds, In, Holding
  <2>2. Live(obj[t])
    BY <1>1, <2>1, Referenced
  <2>3. Cardinality(Objs(f)') = Cardinality(Objs(f)) + (0 - (IF f = obj[t] THEN 1 ELSE 0))
    <3>1. Cardinality(Objs(f)') = Cardinality(Objs(f)) + (IF f = NoOne THEN 1 ELSE 0)
                                    - (IF f = obj[t] THEN 1 ELSE 0)
      <4>1. obj'[t] = NoOne /\ \A u \in Threads \ {t} : obj'[u] = obj[u]
        BY <1>1, <2>1
      <4>2. QED
        BY <1>1, <4>1, ObjMoves
    <3>2. f # NoOne
      BY ConstantsAssumption
    <3>3. QED
      BY <1>1, <3>1, <3>2
  <2>4. Cardinality(Acts(f)') = Cardinality(Acts(f)) + 0
    BY <2>1, NobodyMoves, Countable
  <2>5. QED
    BY <1>1, <1>3, <1>5, <2>1, <2>2, <2>3, <2>4, Recount
<1>13. ASSUME fence'[f].refs = fence[f].refs, fence'[f].state = fence[f].state,
              fence'[f].handle = fence[f].handle, obj' = obj,
              \A a \in Actions : action'[a].fence = action[a].fence
       PROVE  Right(f)'
  <2>1. Cardinality(Objs(f)') = Cardinality(Objs(f)) + 0 /\ Cardinality(Acts(f)') = Cardinality(Acts(f)) + 0
    BY <1>1, <1>13, NobodyMoves
  <2>2. Handle(f)' = Handle(f) /\ fence'[f].refs = fence[f].refs /\ (Live(f)' <=> fence'[f].refs > 0)
    BY <1>1, <1>13 DEF Handle
  <2>3. fence'[f].refs - fence[f].refs =
          (Cardinality(Objs(f)') - Cardinality(Objs(f)))
            + (Cardinality(Acts(f)') - Cardinality(Acts(f))) + (Handle(f)' - Handle(f))
    BY <1>1, <1>5, <2>1, <2>2
  <2>4. QED
    BY <1>1, <2>1, <2>2, <2>3, Recount
<1>14. ASSUME NEW t \in Threads, CloseEvent(t) PROVE Right(f)'
  BY <1>1, <1>13, <1>14 DEF CloseEvent, PendingEvents, control
<1>15. ASSUME NEW t \in Threads, DownForce(t) PROVE Right(f)'
  <2>1. /\ fence'[f].refs = fence[f].refs /\ fence'[f].state = fence[f].state
        /\ fence'[f].handle = fence[f].handle /\ obj' = obj
    BY <1>1, <1>15 DEF DownForce, control
  <2>2. ASSUME NEW a \in Actions PROVE action'[a].fence = action[a].fence
    BY <1>1, <1>15 DEF DownForce, Perform, ActionRecord
  <2>3. QED
    BY <1>13, <2>1, <2>2
<1>16. ASSUME NEW c \in Contexts, UpdateLocked(c) PROVE Right(f)'
  <2>1. PICK n \in 0 .. Len(fence_list) :
          /\ fence' = [g \in Fences |->
                IF g \in {fence_list[k] : k \in 1 .. n}
                  THEN [fence[g] EXCEPT !.signaled = TRUE] ELSE fence[g]]
          /\ action' = Perform({fence_list[k] : k \in 1 .. n})
          /\ obj' = obj
    BY <1>16 DEF UpdateLocked
  <2>2. /\ fence'[f].refs = fence[f].refs /\ fence'[f].state = fence[f].state
        /\ fence'[f].handle = fence[f].handle
    BY <1>1, <2>1
  <2>3. ASSUME NEW a \in Actions PROVE action'[a].fence = action[a].fence
    BY <1>1, <2>1 DEF Perform, ActionRecord
  <2>4. QED
    BY <1>13, <2>1, <2>2, <2>3
<1>17. ASSUME NEW g \in Fences, DropHandle(g) PROVE Right(f)'
  <2>1. /\ Live(g) /\ fence[g].handle /\ obj' = obj /\ action' = action
        /\ fence' = [Unreference(fence, g) EXCEPT ![g].handle = FALSE]
    BY <1>17 DEF DropHandle, control
  <2>2. Cardinality(Objs(f)') = Cardinality(Objs(f)) + 0 /\ Cardinality(Acts(f)') = Cardinality(Acts(f)) + 0
    BY <2>1, NobodyMoves, Countable
  <2>3. fence'[f].refs - fence[f].refs = (0 + 0) + (Handle(f)' - Handle(f))
    BY <1>1, <2>1 DEF Unreference, Handle
  <2>4. Live(f)' <=> fence'[f].refs > 0
    BY <1>1, <2>1 DEF Unreference
  <2>5. QED
    BY <1>1, <2>2, <2>3, <2>4, Recount
<1>18. ASSUME WorkSplice PROVE Right(f)'
  BY <1>1, <1>13, <1>18 DEF WorkSplice
<1>19. ASSUME WorkCleanup PROVE Right(f)'
  <2>1. PICK a \in Actions :
          /\ action[a].state = "private"
          /\ action' = [action EXCEPT ![a] = [@ EXCEPT !.state = "done", !.fence = NoOne]]
          /\ fence' = Unreference(fence, action[a].fence)
          /\ obj' = obj
    BY <1>19 DEF WorkCleanup, PrivateList
  <2>2. action[a].fence \in Fences
    BY <1>1, <2>1 DEF IInv, Lists, Placed, ActionRecord
  <2>3. Live(action[a].fence)
    BY <1>1, <2>2, Referenced
  <2>4. Cardinality(Objs(f)') = Cardinality(Objs(f)) + 0
    BY <2>1, NobodyMoves, Countable
  <2>5. action'[a].fence = NoOne /\ \A b \in Actions \ {a} : action'[b].fence = action[b].fence
    BY <1>1, <2>1 DEF ActionRecord
  <2>6. Cardinality(Acts(f)') = Cardinality(Acts(f)) + (0 - (IF f = action[a].fence THEN 1 ELSE 0))
    <3>1. Cardinality(Acts(f)') = Cardinality(Acts(f)) + (IF f = NoOne THEN 1 ELSE 0)
                                   - (IF f = action[a].fence THEN 1 ELSE 0)
      BY <1>1, <2>5, ActMoves
    <3>2. f # NoOne
      BY ConstantsAssumption
    <3>3. QED
      BY <1>1, <3>1, <3>2
  <2>7. QED
    BY <1>1, <1>3, <1>5, <2>1, <2>2, <2>3, <2>4, <2>6, Recount
<1>20. QED
  BY <1>6, <1>8, <1>9, <1>10, <1>11, <1>12, <1>14, <1>15, <1>16, <1>17, <1>18, <1>19,
     ObjectSteps DEF ObjectStep

-----------------------------------------------------------------------------
(* The list. *)

\* A reference is given up: the list keeps every fence that lives on, and a
\* fence that is freed has no action left.
LEMMA Dropped ==
  ASSUME TypeOK, Lists, Counted, NEW f \in Fences, Live(f),
         fence_list' = ListAfterUnreference(f),
         fence' \in [Fences -> FenceRecord],
         \A g \in Fences \ {f} : fence'[g] = fence[g],
         fence'[f].state = IF fence[f].refs = 1 THEN "freed" ELSE fence[f].state,
         fence'[f].signaled = fence[f].signaled
  PROVE  /\ Shorter(fence_list', fence_list)
         /\ OnceEach(fence_list)'
         /\ \A g \in Fences : Listed(g)' <=> Live(g)' /\ ~fence'[g].signaled
         /\ \A g \in Fences : fence'[g].state = "free" => fence'[g] = FreeFence
         /\ \A g \in Fences : Listed(g) /\ (g = f => fence[f].refs # 1) => Listed(g)'
<1>1. fence_list \in Seq(Fences) /\ OnceEach(fence_list)
  BY DEF TypeOK, Lists
<1>2. /\ Shorter(Without(fence_list, f), fence_list)
      /\ \A g \in Fences : Has(g, Without(fence_list, f)) <=> Has(g, fence_list) /\ g # f
  BY <1>1, WithoutIs
<1>3. Shorter(fence_list, fence_list)
  BY <1>1 DEF Shorter
<1>4. Shorter(fence_list', fence_list)
  BY <1>2, <1>3 DEF ListAfterUnreference
<1>5. OnceEach(fence_list)'
  BY <1>1, <1>4, ShorterOnce
<1>6. \A g \in Fences : Listed(g)' <=> Listed(g) /\ (g = f => fence[f].refs # 1)
  BY <1>2 DEF ListAfterUnreference, Listed
<1>7. \A g \in Fences : Listed(g)' <=> Live(g)' /\ ~fence'[g].signaled
  BY <1>6 DEF Lists, Live
<1>8. \A g \in Fences : fence'[g].state = "free" => fence'[g] = FreeFence
  BY DEF Lists, Live
<1>9. QED
  BY <1>4, <1>5, <1>6, <1>7, <1>8

\* A list that only its owner changed.
LEMMA SameLists ==
  ASSUME Lists, fence_list' = fence_list,
         \A f \in Fences :
           /\ fence'[f].state = fence[f].state /\ fence'[f].signaled = fence[f].signaled
           /\ fence[f].state = "free" => fence'[f] = fence[f]
  PROVE  /\ OnceEach(fence_list)'
         /\ \A f \in Fences : Listed(f)' <=> Live(f)' /\ ~fence'[f].signaled
         /\ \A f \in Fences : fence'[f].state = "free" => fence'[f] = FreeFence
         /\ \A f \in Fences : Listed(f) => Listed(f)'
<1>1. OnceEach(fence_list)' /\ \A f \in Fences : Listed(f)' <=> Listed(f)
  BY DEF Lists, OnceEach, Listed, Has
<1>2. QED
  BY <1>1 DEF Lists, Live

\* Fences leave the list when they signal or are freed, and take their actions
\* along.
LEMMA ListsInv ==
  ASSUME IInv, TypeOK', [Next]_vars
  PROVE  Lists'
<1>1. /\ TypeOK /\ Lists /\ Counted
      /\ fence_list \in Seq(Fences) /\ OnceEach(fence_list)
      /\ fence \in [Fences -> FenceRecord] /\ fence' \in [Fences -> FenceRecord]
      /\ action \in [Actions -> ActionRecord]
      /\ obj \in [Threads -> Fences \cup {NoOne}]
      /\ \A f \in Fences : fence[f].refs \in Nat
      /\ \A f \in Fences : fence[f].handle \in BOOLEAN
  BY DEF IInv, TypeOK, Lists, FenceRecord
<1>2. ASSUME NEW a \in Actions
      PROVE  /\ action[a] \in ActionRecord
             /\ action[a].fence = NoOne <=> action[a].state \in {"free", "done"}
             /\ action[a].state = "attached" => action[a].fence \in Fences /\ Listed(action[a].fence)
             /\ action[a].state = "free" => action[a].event = "none"
  BY <1>1 DEF Lists, Placed, ActionRecord
<1>3. CASE Quiet
  BY <1>1, <1>3 DEF Quiet, Lists, Placed, Listed, Has, OnceEach, Live
<1>4. ASSUME fence_list' = fence_list,
             \A f \in Fences :
               /\ fence'[f].state = fence[f].state /\ fence'[f].signaled = fence[f].signaled
               /\ fence[f].state = "free" => fence'[f] = fence[f],
             \A a \in Actions : \/ action'[a] = action[a]
                                \/ action'[a].state = action[a].state /\ action'[a].fence = action[a].fence
                                     /\ action[a].state # "free"
                                \/ Placed(a)'
      PROVE  Lists'
  <2>1. /\ OnceEach(fence_list)'
        /\ \A f \in Fences : Listed(f)' <=> Live(f)' /\ ~fence'[f].signaled
        /\ \A f \in Fences : fence'[f].state = "free" => fence'[f] = FreeFence
        /\ \A f \in Fences : Listed(f) => Listed(f)'
    BY <1>1, <1>4, SameLists
  <2>2. ASSUME NEW a \in Actions PROVE Placed(a)'
    BY <1>2, <1>4, <2>1 DEF Placed, Listed
  <2>3. QED
    BY <2>1, <2>2 DEF Lists
<1>5. ASSUME NEW f \in Fences, Live(f), action' = action, fence_list' = ListAfterUnreference(f),
             \A g \in Fences \ {f} : fence'[g] = fence[g],
             fence'[f].state = IF fence[f].refs = 1 THEN "freed" ELSE fence[f].state,
             fence'[f].signaled = fence[f].signaled,
             fence[f].refs = 1 => Acts(f) = {}
      PROVE  Lists'
  <2>1. /\ OnceEach(fence_list)'
        /\ \A g \in Fences : Listed(g)' <=> Live(g)' /\ ~fence'[g].signaled
        /\ \A g \in Fences : fence'[g].state = "free" => fence'[g] = FreeFence
        /\ \A g \in Fences : Listed(g) /\ (g = f => fence[f].refs # 1) => Listed(g)'
    BY <1>1, <1>5, Dropped
  <2>2. ASSUME NEW a \in Actions PROVE Placed(a)'
    <3>1. action[a].fence = f => fence[f].refs # 1
      BY <1>5 DEF Acts
    <3>2. QED
      BY <1>2, <1>5, <2>1, <3>1 DEF Placed, Listed
  <2>3. QED
    BY <2>1, <2>2 DEF Lists
<1>6. ASSUME NEW t \in Threads, LookupFence(t) PROVE Lists'
  BY <1>1, <1>4, <1>6 DEF LookupFence, manager, Live
<1>7. ASSUME NEW t \in Threads, AddToSignaled(t) \/ AddToUnsignaled(t) PROVE Lists'
  <2>1. /\ obj[t] \in Fences /\ Live(obj[t]) /\ fence_list' = fence_list
        /\ fence' = [fence EXCEPT ![obj[t]].refs = @ + 1]
    BY <1>1, <1>7, Referenced DEF AddToSignaled, AddToUnsignaled, NewAction, IInv, Control, Holds,
      In, Holding, manager
  <2>2. \A f \in Fences :
          /\ fence'[f].state = fence[f].state /\ fence'[f].signaled = fence[f].signaled
          /\ fence[f].state = "free" => fence'[f] = fence[f]
    BY <1>1, <2>1 DEF Live
  <2>3. PICK a \in Actions :
          /\ \A b \in Actions \ {a} : action'[b] = action[b]
          /\ action'[a].fence = obj[t]
          /\ \/ action'[a].state = "cleanup"
             \/ action'[a].state = "attached" /\ ~fence[obj[t]].signaled
    BY <1>1, <1>7 DEF AddToSignaled, AddToUnsignaled, NewAction
  <2>4. /\ OnceEach(fence_list)'
        /\ \A f \in Fences : Listed(f)' <=> Live(f)' /\ ~fence'[f].signaled
        /\ \A f \in Fences : fence'[f].state = "free" => fence'[f] = FreeFence
        /\ \A f \in Fences : Listed(f) => Listed(f)'
    BY <1>1, <2>1, <2>2, SameLists
  <2>5. Placed(a)'
    BY <2>1, <2>2, <2>3, <2>4, ConstantsAssumption DEF Placed, Listed, Live
  <2>6. QED
    BY <1>4, <2>1, <2>2, <2>3, <2>5
<1>8. ASSUME NEW t \in Threads, CreateFence(t) PROVE Lists'
  <2>1. PICK f \in Fences, handle \in BOOLEAN :
          /\ fence[f].state = "free"
          /\ fence' = [fence EXCEPT ![f] =
                         [state |-> "live", seqno |-> seqno[t], handle |-> handle,
                          refs |-> IF handle THEN 2 ELSE 1,
                          signaled |-> FALSE, forced |-> FALSE]]
          /\ fence_list' = Append(fence_list, f)
          /\ action' = action
    BY <1>8 DEF CreateFence
  <2>2. ~Has(f, fence_list)
    BY <1>1, <2>1 DEF Lists, Listed, Live
  <2>3. /\ Len(fence_list') = Len(fence_list) + 1
        /\ DOMAIN fence_list' = 1 .. Len(fence_list) + 1 /\ DOMAIN fence_list = 1 .. Len(fence_list)
        /\ \A i \in 1 .. Len(fence_list) : fence_list'[i] = fence_list[i]
        /\ fence_list'[Len(fence_list) + 1] = f /\ Len(fence_list) \in Nat
    BY <1>1, <2>1
  <2>4. OnceEach(fence_list)'
    BY <1>1, <2>2, <2>3 DEF OnceEach, Has
  <2>5. \A g \in Fences : Listed(g)' <=> Listed(g) \/ g = f
    BY <2>3 DEF Listed, Has
  <2>6. \A g \in Fences : Listed(g)' <=> Live(g)' /\ ~fence'[g].signaled
    BY <1>1, <2>1, <2>5 DEF Lists, Live
  <2>7. \A g \in Fences : fence'[g].state = "free" => fence'[g] = FreeFence
    BY <1>1, <2>1 DEF Lists
  <2>8. \A a \in Actions : Placed(a)'
    BY <1>2, <2>1, <2>5 DEF Placed, Listed
  <2>9. QED
    BY <2>4, <2>6, <2>7, <2>8 DEF Lists
<1>9. ASSUME NEW t \in Threads, PutFence(t) \/ DownPut(t) PROVE Lists'
  <2>1. /\ obj[t] \in Fences /\ fence' = Unreference(fence, obj[t]) /\ action' = action
        /\ fence_list' = ListAfterUnreference(obj[t])
    BY <1>1, <1>9 DEF PutFence, DownPut, IInv, Control, Holds, In, Holding
  <2>2. Live(obj[t]) /\ (fence[obj[t]].refs = 1 => Acts(obj[t]) = {})
    BY <1>1, <2>1, Referenced DEF Objs
  <2>3. QED
    BY <1>1, <1>5, <2>1, <2>2 DEF Unreference
<1>10. ASSUME NEW f \in Fences, DropHandle(f) PROVE Lists'
  <2>1. /\ Live(f) /\ fence[f].handle /\ action' = action
        /\ fence' = [Unreference(fence, f) EXCEPT ![f].handle = FALSE]
        /\ fence_list' = ListAfterUnreference(f)
    BY <1>10 DEF DropHandle
  <2>2. fence[f].refs = 1 => Acts(f) = {}
    BY <1>1, <2>1, Referenced
  <2>3. /\ \A g \in Fences \ {f} : fence'[g] = fence[g]
        /\ fence'[f].state = IF fence[f].refs = 1 THEN "freed" ELSE fence[f].state
        /\ fence'[f].signaled = fence[f].signaled
    BY <1>1, <2>1 DEF Unreference
  <2>4. QED
    BY <1>5, <2>1, <2>2, <2>3
<1>11. ASSUME WorkCleanup PROVE Lists'
  <2>1. PICK a \in Actions :
          /\ action[a].state = "private"
          /\ action' = [action EXCEPT ![a] = [@ EXCEPT !.state = "done", !.fence = NoOne]]
          /\ fence' = Unreference(fence, action[a].fence)
          /\ fence_list' = ListAfterUnreference(action[a].fence)
    BY <1>11 DEF WorkCleanup, PrivateList
  <2> DEFINE f == action[a].fence
  <2>2. f \in Fences
    BY <1>2, <2>1 DEF ActionRecord
  <2>3. Live(f) /\ (fence[f].refs = 1 => Acts(f) = {a})
    BY <1>1, <2>2, Referenced DEF Acts
  <2>4. /\ \A g \in Fences \ {f} : fence'[g] = fence[g]
        /\ fence'[f].state = IF fence[f].refs = 1 THEN "freed" ELSE fence[f].state
        /\ fence'[f].signaled = fence[f].signaled
    BY <1>1, <2>1, <2>2 DEF Unreference
  <2>5. /\ OnceEach(fence_list)'
        /\ \A g \in Fences : Listed(g)' <=> Live(g)' /\ ~fence'[g].signaled
        /\ \A g \in Fences : fence'[g].state = "free" => fence'[g] = FreeFence
        /\ \A g \in Fences : Listed(g) /\ (g = f => fence[f].refs # 1) => Listed(g)'
    BY <1>1, <2>1, <2>2, <2>3, <2>4, Dropped
  <2>6. /\ action'[a].state = "done" /\ action'[a].fence = NoOne
        /\ \A b \in Actions \ {a} : action'[b] = action[b]
    BY <1>1, <1>2, <2>1 DEF ActionRecord
  <2>7. ASSUME NEW b \in Actions PROVE Placed(b)'
    <3>1. CASE b = a
      BY <2>6, <3>1 DEF Placed, Listed
    <3>2. CASE b # a
      <4>1. action[b].fence = f => fence[f].refs # 1
        BY <2>3, <3>2 DEF Acts
      <4>2. QED
        BY <1>2, <2>5, <2>6, <3>2, <4>1 DEF Placed, Listed
    <3>3. QED
      BY <3>1, <3>2
  <2>8. QED
    BY <2>5, <2>7 DEF Lists
<1>12. ASSUME NEW t \in Threads, CloseEvent(t) PROVE Lists'
  <2>1. PICK a \in Actions : action[a].event = "pending"
                             /\ action' = [action EXCEPT ![a].event = "destroyed"]
    BY <1>12 DEF CloseEvent, PendingEvents
  <2>2. action[a].state # "free" /\ action[a] \in ActionRecord
    BY <1>2, <2>1
  <2>3. action'[a].state = action[a].state /\ action'[a].fence = action[a].fence
    BY <1>1, <2>1, <2>2 DEF ActionRecord
  <2>4. QED
    BY <1>1, <1>4, <1>12, <2>1, <2>2, <2>3 DEF CloseEvent, manager
<1>13. ASSUME WorkSplice PROVE Lists'
  <2>1. ASSUME NEW a \in Actions PROVE action'[a] = action[a] \/ Placed(a)'
    BY <1>1, <1>2, <1>13 DEF WorkSplice, CleanupList, Placed, Listed, ActionRecord
  <2>2. QED
    BY <1>4, <1>13, <2>1 DEF WorkSplice
<1>14. ASSUME NEW t \in Threads, DownNext(t) PROVE Lists'
  <2>1. CASE fence_list = <<>>
    BY <1>3, <1>14, <2>1 DEF DownNext, Quiet, manager
  <2>2. CASE fence_list # <<>>
    <3> DEFINE f == fence_list[Len(fence_list)]
    <3>1. Len(fence_list) \in DOMAIN fence_list /\ f \in Fences
      BY <1>1, <2>2
    <3>2. Live(f)
      BY <1>1, <3>1 DEF Lists, Listed, Has
    <3>3. /\ fence' = [fence EXCEPT ![f].refs = @ + 1]
          /\ fence_list' = fence_list /\ action' = action
      BY <1>14, <2>2 DEF DownNext, manager
    <3>4. \A g \in Fences :
            /\ fence'[g].state = fence[g].state /\ fence'[g].signaled = fence[g].signaled
            /\ fence[g].state = "free" => fence'[g] = fence[g]
      BY <1>1, <3>1, <3>2, <3>3 DEF Live
    <3>5. QED
      BY <1>4, <3>3, <3>4
  <2>3. QED
    BY <2>1, <2>2
<1>15. ASSUME NEW F \in SUBSET Fences,
              fence_list' \in Seq(Fences), Shorter(fence_list', fence_list),
              action' = Perform(F),
              \A f \in Fences : Has(f, fence_list') <=> Has(f, fence_list) /\ f \notin F,
              \A f \in F : Live(f),
              \A f \in Fences : /\ fence'[f].state = fence[f].state
                                /\ f \in F => fence'[f].signaled
                                /\ f \notin F => fence'[f] = fence[f]
       PROVE  Lists'
  <2>1. OnceEach(fence_list)'
    BY <1>1, <1>15, ShorterOnce
  <2>2. \A f \in Fences : Listed(f)' <=> Live(f)' /\ ~fence'[f].signaled
    BY <1>1, <1>15 DEF Lists, Listed, Live
  <2>3. \A f \in Fences : fence'[f].state = "free" => fence'[f] = FreeFence
    BY <1>1, <1>15 DEF Lists, Live
  <2>4. ASSUME NEW a \in Actions PROVE Placed(a)'
    <3>1. CASE action[a].state = "attached" /\ action[a].fence \in F
      <4>1. action'[a].state = "cleanup" /\ action'[a].fence = action[a].fence
        BY <1>1, <1>2, <1>15, <3>1 DEF Perform, ActionRecord
      <4>2. QED
        BY <1>2, <3>1, <4>1 DEF Placed, Listed
    <3>2. CASE ~(action[a].state = "attached" /\ action[a].fence \in F)
      <4>1. action'[a] = action[a]
        BY <1>1, <1>15, <3>2 DEF Perform
      <4>2. QED
        BY <1>2, <1>15, <3>2, <4>1 DEF Placed, Listed
    <3>3. QED
      BY <3>1, <3>2
  <2>5. QED
    BY <2>1, <2>2, <2>3, <2>4 DEF Lists
<1>16. ASSUME NEW t \in Threads, DownForce(t) PROVE Lists'
  <2>1. /\ obj[t] \in Fences
        /\ fence_list' = Without(fence_list, obj[t])
        /\ fence' = [fence EXCEPT ![obj[t]].signaled = TRUE, ![obj[t]].forced = TRUE]
        /\ action' = Perform({obj[t]})
    BY <1>1, <1>16 DEF DownForce, IInv, Control, Holds, In, Holding
  <2>2. Live(obj[t])
    BY <1>1, <2>1, Referenced
  <2>3. /\ Shorter(fence_list', fence_list) /\ fence_list' \in Seq(Fences)
        /\ \A f \in Fences : Has(f, fence_list') <=> Has(f, fence_list) /\ f \notin {obj[t]}
    BY <1>1, <2>1, WithoutIs DEF Shorter
  <2>4. \A f \in Fences : /\ fence'[f].state = fence[f].state
                          /\ f \in {obj[t]} => fence'[f].signaled
                          /\ f \notin {obj[t]} => fence'[f] = fence[f]
    BY <1>1, <2>1
  <2>5. QED
    BY <1>15, <2>1, <2>2, <2>3, <2>4
<1>17. ASSUME NEW c \in Contexts, UpdateLocked(c) PROVE Lists'
  <2>1. PICK n \in 0 .. Len(fence_list) :
          /\ fence_list' = SubSeq(fence_list, n + 1, Len(fence_list))
          /\ fence' = [f \in Fences |->
                IF f \in {fence_list[k] : k \in 1 .. n}
                  THEN [fence[f] EXCEPT !.signaled = TRUE] ELSE fence[f]]
          /\ action' = Perform({fence_list[k] : k \in 1 .. n})
    BY <1>17 DEF UpdateLocked
  <2> DEFINE F == {fence_list[k] : k \in 1 .. n}
  <2>2. \A k \in 1 .. n : k \in DOMAIN fence_list /\ fence_list[k] \in Fences
    BY <1>1
  <2>3. F \in SUBSET Fences /\ \A f \in F : Live(f)
    BY <1>1, <2>2 DEF Lists, Listed, Has
  <2>4. /\ Shorter(fence_list', fence_list) /\ fence_list' \in Seq(Fences)
        /\ \A f : Has(f, fence_list') <=> \E i \in n + 1 .. Len(fence_list) : fence_list[i] = f
    <3> DEFINE T == SubSeq(fence_list, n + 1, Len(fence_list))
    <3>1. /\ Shorter(T, fence_list)
          /\ \A f : Has(f, T) <=> \E i \in n + 1 .. Len(fence_list) : fence_list[i] = f
      BY <1>1, TailIs
    <3> HIDE DEF T
    <3>2. fence_list' = T
      BY <2>1 DEF T
    <3>3. QED
      BY <3>1, <3>2 DEF Shorter
  <2>5. ASSUME NEW f \in Fences PROVE Has(f, fence_list') <=> Has(f, fence_list) /\ f \notin F
    <3>1. DOMAIN fence_list = 1 .. Len(fence_list) /\ Len(fence_list) \in Nat
      BY <1>1
    <3>2. \A k \in 1 .. n : k \in DOMAIN fence_list /\ k \notin n + 1 .. Len(fence_list)
      BY <3>1
    <3>3. \A i \in n + 1 .. Len(fence_list) : i \in DOMAIN fence_list
      BY <3>1
    <3>4. \A k \in 1 .. n, i \in n + 1 .. Len(fence_list) : fence_list[k] # fence_list[i]
      BY <1>1, <3>2, <3>3 DEF OnceEach
    <3>5. \A i \in DOMAIN fence_list : i \in 1 .. n \/ i \in n + 1 .. Len(fence_list)
      BY <3>1
    <3>6. Has(f, fence_list) <=> f \in F \/ Has(f, fence_list')
      BY <2>4, <3>2, <3>3, <3>5 DEF Has
    <3>7. ~(f \in F /\ Has(f, fence_list'))
      BY <2>4, <3>4
    <3>8. QED
      BY <3>6, <3>7
  <2>6. \A f \in Fences : /\ fence'[f].state = fence[f].state
                          /\ f \in F => fence'[f].signaled
                          /\ f \notin F => fence'[f] = fence[f]
    BY <1>1, <2>1 DEF FenceRecord
  <2>7. QED
    BY <1>15, <2>1, <2>3, <2>4, <2>5, <2>6
<1>18. QED
  BY <1>3, <1>6, <1>7, <1>8, <1>9, <1>10, <1>11, <1>12, <1>13, <1>14, <1>16, <1>17, ObjectSteps
  DEF ObjectStep

-----------------------------------------------------------------------------
(* The events. *)

\* A file is gone when the last step of its close has found no pending event.
LEMMA FileGoes ==
  ASSUME IInv, [Next]_vars, NEW t \in Threads, ~FileGone(t), FileGone(t)'
  PROVE  EndClose(t)
<1>1. pc \in [Contexts -> Labels] /\ t \in Contexts /\ Isr \notin Threads
  BY ConstantsAssumption DEF IInv, TypeOK, Contexts
<1>2. t \in closed => pc[t] = "closing"
  BY DEF IInv, Control, FileGone
<1>3. t \in closed' /\ pc'[t] = "idle"
  BY DEF FileGone
<1> USE DEF Goto, Locals, objects, control, manager, private, device
<1>4. ASSUME NEW u \in Threads, Call(u) PROVE FALSE
  <2>1. SUFFICES ASSUME SendFence(u) \/ LookupFence(u) \/ Query(u) \/ BeginWait(u)
                          \/ AddToSignaled(u) \/ AddToUnsignaled(u) \/ BeginClose(u)
                          \/ FifoDown(u) \/ Takedown(u)
                 PROVE  FALSE
    BY <1>4 DEF Call
  <2>2. BeginClose(u) => FALSE
    BY <1>1, <1>2, <1>3 DEF BeginClose
  <2>3. SendFence(u) \/ LookupFence(u) \/ Query(u) \/ BeginWait(u) => FALSE
    BY <1>1, <1>2, <1>3 DEF SendFence, LookupFence, Query, BeginWait
  <2>4. AddToSignaled(u) \/ AddToUnsignaled(u) \/ FifoDown(u) \/ Takedown(u) => FALSE
    BY <1>1, <1>2, <1>3 DEF AddToSignaled, AddToUnsignaled, NewAction, FifoDown, Takedown
  <2>5. QED
    BY <2>1, <2>2, <2>3, <2>4
<1>5. ASSUME NEW u \in Threads, Continue(u) PROVE EndClose(t)
  <2>1. UpdateSeqno(u) \/ CreateFence(u) \/ CreateFails(u) \/ NoFence(u) \/ PutFence(u) => FALSE
    BY <1>1, <1>2, <1>3 DEF UpdateSeqno, Return, CreateFence, CreateFails, NoFence, PutFence
  <2>2. GoalIrqOn(u) \/ AddDone(u) \/ WaiterAdd(u) \/ WaitNotNeeded(u) \/ WaitCheck(u) => FALSE
    BY <1>1, <1>2, <1>3 DEF GoalIrqOn, AddDone, WaiterAdd, WaitNotNeeded, WaitCheck
  <2>3. WaitWoken(u) \/ WaitTimeout(u) \/ WaiterRemove(u) \/ CloseEvent(u) => FALSE
    BY <1>1, <1>2, <1>3 DEF WaitWoken, WaitTimeout, WaiterRemove, CloseEvent
  <2>4. DownNext(u) \/ DownForce(u) \/ DownPut(u) => FALSE
    BY <1>1, <1>2, <1>3 DEF DownNext, DownForce, DownPut
  <2>5. EndClose(u) => u = t
    BY <1>1, <1>2, <1>3 DEF EndClose
  <2>6. QED
    BY <1>5, <2>1, <2>2, <2>3, <2>4, <2>5 DEF Continue
<1>6. ASSUME NEW c \in Contexts, Update(c) PROVE FALSE
  <2>1. ReadFence(c) \/ RereadFence(c) => FALSE
    BY <1>1, <1>2, <1>3 DEF ReadFence, RereadFence, Return
  <2>2. UpdateLocked(c) => FALSE
    <3>1. ASSUME UpdateLocked(c)
          PROVE  /\ pc[c] = "update" /\ closed' = closed
                 /\ pc' = [pc EXCEPT ![c] = "reread"] \/ pc' = [pc EXCEPT ![c] = ret[c]]
      BY <3>1 DEF UpdateLocked, Return
    <3>2. QED
      BY <1>1, <1>2, <1>3, <3>1
  <2>3. QED
    BY <1>6, <2>1, <2>2 DEF Update
<1>7. ASSUME \/ Irq \/ Work \/ DeviceFence \/ UNCHANGED vars \/ \E f \in Fences : DropHandle(f)
      PROVE  FALSE
  BY <1>1, <1>2, <1>3, <1>7 DEF Irq, IrqRead, IrqAck, Work, WorkSplice, WorkGoalIrqOff, WorkCleanup,
    DeviceFence, DropHandle, vars
<1>8. QED
  BY <1>4, <1>5, <1>6, <1>7 DEF Next

\* The ways in which an event changes.
EventStep(a) ==
  \/ /\ action[a].event = "none" /\ action'[a].file \in Threads
     /\ pc[action'[a].file] = "have" /\ closed' = closed
     /\ action'[a].event = "sent" => fence'[action'[a].fence].signaled
  \/ action[a].event = "pending" /\ action'[a].event = "destroyed"
  \/ /\ action[a].event = "pending" /\ action'[a].event = "sent"
     /\ action'[a].file = action[a].file
     /\ fence'[action'[a].fence].signaled

\* No other step changes an event or its file.
LEMMA EventSteps ==
  ASSUME IInv, TypeOK', [Next]_vars, NEW a \in Actions
  PROVE  \/ action'[a].event = action[a].event /\ action'[a].file = action[a].file
         \/ EventStep(a)
<1> DEFINE Same == action'[a].event = action[a].event /\ action'[a].file = action[a].file
<1>1. /\ action \in [Actions -> ActionRecord] /\ action[a] \in ActionRecord
      /\ fence \in [Fences -> FenceRecord] /\ fence_list \in Seq(Fences)
      /\ obj \in [Threads -> Fences \cup {NoOne}]
      /\ Placed(a)
  BY DEF IInv, TypeOK, Lists
<1>2. CASE Quiet
  BY <1>2 DEF Quiet
<1>3. ASSUME NEW t \in Threads, LookupFence(t) \/ CreateFence(t) \/ PutFence(t) \/ DownNext(t) \/ DownPut(t)
      PROVE  Same
  BY <1>3 DEF LookupFence, CreateFence, PutFence, DownNext, DownPut
<1>4. ASSUME NEW f \in Fences, DropHandle(f) PROVE Same
  BY <1>4 DEF DropHandle
<1>5. ASSUME WorkSplice PROVE Same
  BY <1>1, <1>5 DEF WorkSplice, ActionRecord
<1>6. ASSUME WorkCleanup PROVE Same
  BY <1>1, <1>6 DEF WorkCleanup, ActionRecord
<1>7. ASSUME NEW t \in Threads, AddToSignaled(t) \/ AddToUnsignaled(t) PROVE Same \/ EventStep(a)
  <2>1. PICK b \in Actions :
          /\ action[b].state = "free"
          /\ \A d \in Actions \ {b} : action'[d] = action[d]
          /\ action'[b].fence = obj[t] /\ action'[b].file = t
          /\ action'[b].event = "sent" => fence[obj[t]].signaled
    BY <1>1, <1>7 DEF AddToSignaled, AddToUnsignaled, NewAction
  <2>2. /\ pc[t] = "have" /\ closed' = closed /\ obj[t] \in Fences
        /\ fence' = [fence EXCEPT ![obj[t]].refs = @ + 1]
    BY <1>1, <1>7 DEF AddToSignaled, AddToUnsignaled, NewAction, IInv, Control, Holds, In, Holding
  <2>3. fence'[obj[t]].signaled = fence[obj[t]].signaled
    BY <1>1, <2>2
  <2>4. CASE a = b
    BY <1>1, <2>1, <2>2, <2>3, <2>4 DEF EventStep, Placed
  <2>5. CASE a # b
    BY <2>1, <2>5
  <2>6. QED
    BY <2>4, <2>5
<1>8. ASSUME NEW t \in Threads, CloseEvent(t) PROVE Same \/ EventStep(a)
  BY <1>1, <1>8 DEF CloseEvent, PendingEvents, EventStep, ActionRecord
<1>9. ASSUME NEW F \in SUBSET Fences, action' = Perform(F), \A f \in F : fence'[f].signaled
      PROVE  Same \/ EventStep(a)
  <2>1. CASE action[a].state = "attached" /\ action[a].fence \in F
    <3>1. /\ action'[a].event = IF action[a].event = "pending" THEN "sent" ELSE action[a].event
          /\ action'[a].file = action[a].file /\ action'[a].fence = action[a].fence
      BY <1>1, <1>9, <2>1 DEF Perform, ActionRecord
    <3>2. fence'[action[a].fence].signaled
      BY <1>9, <2>1
    <3>3. QED
      BY <3>1, <3>2 DEF EventStep
  <2>2. CASE ~(action[a].state = "attached" /\ action[a].fence \in F)
    BY <1>9, <2>2 DEF Perform
  <2>3. QED
    BY <2>1, <2>2
<1>10. ASSUME NEW t \in Threads, DownForce(t) PROVE Same \/ EventStep(a)
  <2>1. /\ obj[t] \in Fences /\ action' = Perform({obj[t]})
        /\ fence' = [fence EXCEPT ![obj[t]].signaled = TRUE, ![obj[t]].forced = TRUE]
    BY <1>1, <1>10 DEF DownForce, IInv, Control, Holds, In, Holding
  <2>2. {obj[t]} \in SUBSET Fences /\ \A f \in {obj[t]} : fence'[f].signaled
    BY <1>1, <2>1
  <2>3. QED
    BY <1>9, <2>1, <2>2
<1>11. ASSUME NEW c \in Contexts, UpdateLocked(c) PROVE Same \/ EventStep(a)
  <2>1. PICK n \in 0 .. Len(fence_list) :
          /\ fence' = [f \in Fences |->
                IF f \in {fence_list[k] : k \in 1 .. n}
                  THEN [fence[f] EXCEPT !.signaled = TRUE] ELSE fence[f]]
          /\ action' = Perform({fence_list[k] : k \in 1 .. n})
    BY <1>11 DEF UpdateLocked
  <2>2. {fence_list[k] : k \in 1 .. n} \in SUBSET Fences
    BY <1>1
  <2>3. \A f \in {fence_list[k] : k \in 1 .. n} : fence'[f].signaled
    BY <1>1, <2>1, <2>2 DEF FenceRecord
  <2>4. QED
    BY <1>9, <2>1, <2>2, <2>3
<1>12. QED
  BY <1>2, <1>3, <1>4, <1>5, <1>6, <1>7, <1>8, <1>10, <1>11, ObjectSteps DEF ObjectStep

\* A pending event has a file that is not gone.
LEMMA EventsInv ==
  ASSUME IInv, TypeOK', [Next]_vars
  PROVE  Events'
<1>1. SUFFICES ASSUME NEW a \in Actions, NEW t, action'[a].event = "pending", action'[a].file = t
               PROVE  t \in Threads /\ ~FileGone(t)'
  BY DEF Events, FileGone
<1>2. CASE action[a].event = "pending" /\ action[a].file = t
  <2>1. t \in Threads /\ ~FileGone(t)
    BY <1>2 DEF IInv, Events
  <2>2. ASSUME FileGone(t)' PROVE FALSE
    <3>1. PendingEvents(t) = {}
      BY <2>1, <2>2, FileGoes DEF EndClose
    <3>2. QED
      BY <1>2, <3>1 DEF PendingEvents
  <2>3. QED
    BY <2>1, <2>2
<1>3. CASE EventStep(a)
  <2>1. t \in Threads /\ pc[t] = "have" /\ closed' = closed
    BY <1>1, <1>3 DEF EventStep
  <2>2. t \notin closed
    BY <2>1 DEF IInv, Control
  <2>3. QED
    BY <2>1, <2>2 DEF FileGone
<1>4. QED
  BY <1>1, <1>2, <1>3, EventSteps

\* A step that sends an event has signaled the fence, and the file is there.
LEMMA EventsStep ==
  ASSUME IInv, TypeOK', [Next]_vars, NEW a \in Actions,
         action'[a].event # action[a].event
  PROVE  /\ action[a].event \in {"none", "pending"}
         /\ action'[a].event = "sent" =>
              fence'[action'[a].fence].signaled /\ ~FileGone(action'[a].file)
<1>1. EventStep(a)
  BY EventSteps
<1>2. ASSUME NEW t \in Threads, pc[t] = "have" PROVE ~FileGone(t)
  BY <1>2 DEF FileGone
<1>3. action[a].event = "pending" => ~FileGone(action[a].file)
  BY DEF IInv, Events
<1>4. QED
  BY <1>1, <1>2, <1>3 DEF EventStep

-----------------------------------------------------------------------------
(* The goal. *)

\* The goal while the driver does not go down, and where a valid goal is
\* watched.
Named == seqno_valid =>
  \E i \in DOMAIN fence_list :
    Attached(fence_list[i]) # {} /\ fence[fence_list[i]].seqno = FENCE_GOAL
Waited == \E a \in Actions : action[a].state = "attached"
Arming == goal_irq_mutex \in Threads /\ pc[goal_irq_mutex] = "goalirq"

\* A valid goal stays named by a fence that keeps its place, its number and an
\* action.
LEMMA StaysNamed ==
  ASSUME Named, UNCHANGED <<seqno_valid, FENCE_GOAL>>,
         \A f \in Fences : Listed(f) /\ Attached(f) # {} =>
           Listed(f)' /\ Attached(f)' # {} /\ fence'[f].seqno = fence[f].seqno,
         fence_list \in Seq(Fences)
  PROVE  Named'
<1>1. SUFFICES ASSUME seqno_valid
               PROVE  \E i \in DOMAIN fence_list' :
                        Attached(fence_list[i])' # {} /\ fence'[fence_list'[i]].seqno = FENCE_GOAL'
  BY DEF Named
<1>2. PICK i \in DOMAIN fence_list :
        Attached(fence_list[i]) # {} /\ fence[fence_list[i]].seqno = FENCE_GOAL
  BY <1>1 DEF Named
<1>3. PICK f \in Fences : f = fence_list[i]
  OBVIOUS
<1>4. Listed(f) /\ Attached(f) # {} /\ fence[f].seqno = FENCE_GOAL
  BY <1>2, <1>3 DEF Listed, Has, Attached
<1>5. Listed(f)' /\ Attached(f)' # {} /\ fence'[f].seqno = FENCE_GOAL'
  BY <1>4
<1>6. QED
  BY <1>5 DEF Listed, Has, Attached

\* An action that waits goes on waiting for its fence until the fence signals.
LEMMA WaitGoesOn ==
  ASSUME IInv, TypeOK', [Next]_vars,
         ~ \E t \in Threads : DownForce(t), ~ \E c \in Contexts : UpdateLocked(c),
         NEW a \in Actions, action[a].state = "attached"
  PROVE  /\ action'[a].state = "attached" /\ action'[a].fence = action[a].fence
         /\ fence'[action[a].fence].seqno = fence[action[a].fence].seqno
<1>1. /\ action \in [Actions -> ActionRecord] /\ action[a] \in ActionRecord
      /\ fence \in [Fences -> FenceRecord] /\ fence_list \in Seq(Fences)
      /\ action[a].fence \in Fences /\ Live(action[a].fence)
  BY DEF IInv, TypeOK, Lists, Placed, ActionRecord
<1> USE DEF Live
<1>2. CASE Quiet
  BY <1>2 DEF Quiet
<1>3. ASSUME NEW t \in Threads, LookupFence(t) \/ DownNext(t)
      PROVE  action' = action /\ fence'[action[a].fence].seqno = fence[action[a].fence].seqno
  <2>1. action' = action /\ (fence' = fence \/ \E g : fence' = [fence EXCEPT ![g].refs = @ + 1])
    BY <1>3 DEF LookupFence, DownNext
  <2>2. ASSUME NEW g, fence' = [fence EXCEPT ![g].refs = @ + 1]
        PROVE  fence'[action[a].fence].seqno = fence[action[a].fence].seqno
    BY <1>1, <2>2
  <2>3. QED
    BY <2>1, <2>2
<1>4. ASSUME NEW t \in Threads, PutFence(t) \/ DownPut(t)
      PROVE  action' = action /\ fence'[action[a].fence].seqno = fence[action[a].fence].seqno
  <2>1. action' = action /\ \E g : fence' = Unreference(fence, g)
    BY <1>4 DEF PutFence, DownPut
  <2>2. QED
    BY <1>1, <2>1 DEF Unreference
<1>5. ASSUME NEW f \in Fences, DropHandle(f)
      PROVE  action' = action /\ fence'[action[a].fence].seqno = fence[action[a].fence].seqno
  BY <1>1, <1>5 DEF DropHandle, Unreference
<1>6. ASSUME NEW t \in Threads, CreateFence(t)
      PROVE  action' = action /\ fence'[action[a].fence].seqno = fence[action[a].fence].seqno
  BY <1>1, <1>6 DEF CreateFence
<1>7. ASSUME NEW t \in Threads, AddToSignaled(t) \/ AddToUnsignaled(t)
      PROVE  action'[a] = action[a] /\ fence'[action[a].fence].seqno = fence[action[a].fence].seqno
  <2>1. fence' = [fence EXCEPT ![obj[t]].refs = @ + 1]
    BY <1>7 DEF AddToSignaled, AddToUnsignaled, NewAction
  <2>2. action'[a] = action[a]
    BY <1>1, <1>7 DEF AddToSignaled, AddToUnsignaled, NewAction
  <2>3. QED
    BY <1>1, <2>1, <2>2
<1>8. ASSUME NEW t \in Threads, CloseEvent(t)
      PROVE  action'[a].state = action[a].state /\ action'[a].fence = action[a].fence /\ fence' = fence
  BY <1>1, <1>8 DEF CloseEvent, PendingEvents, ActionRecord
<1>9. ASSUME WorkSplice PROVE action'[a] = action[a] /\ fence' = fence
  BY <1>1, <1>9 DEF WorkSplice, CleanupList
<1>10. ASSUME WorkCleanup
       PROVE  action'[a] = action[a] /\ fence'[action[a].fence].seqno = fence[action[a].fence].seqno
  BY <1>1, <1>10 DEF WorkCleanup, PrivateList, Unreference
<1>11. QED
  BY <1>2, <1>3, <1>4, <1>5, <1>6, <1>7, <1>8, <1>9, <1>10, ObjectSteps DEF ObjectStep

\* Nobody but AddToUnsignaled lets an action wait.
LEMMA WaitBegins ==
  ASSUME IInv, TypeOK', [Next]_vars, NEW a \in Actions, action'[a].state = "attached"
  PROVE  action[a].state = "attached" \/ \E t \in Threads : AddToUnsignaled(t)
<1>1. action \in [Actions -> ActionRecord] /\ action[a] \in ActionRecord
  BY DEF IInv, TypeOK
<1>2. CASE Quiet
  BY <1>2 DEF Quiet
<1>3. ASSUME NEW t \in Threads, LookupFence(t) \/ CreateFence(t) \/ PutFence(t) \/ DownNext(t) \/ DownPut(t)
      PROVE  action' = action
  BY <1>3 DEF LookupFence, CreateFence, PutFence, DownNext, DownPut
<1>4. ASSUME NEW f \in Fences, DropHandle(f) PROVE action' = action
  BY <1>4 DEF DropHandle
<1>5. ASSUME NEW t \in Threads, AddToSignaled(t) PROVE action[a].state = "attached"
  BY <1>1, <1>5 DEF AddToSignaled, NewAction
<1>6. ASSUME NEW t \in Threads, CloseEvent(t) PROVE action[a].state = "attached"
  BY <1>1, <1>6 DEF CloseEvent, PendingEvents, ActionRecord
<1>7. ASSUME NEW F, action' = Perform(F) PROVE action[a].state = "attached"
  BY <1>1, <1>7 DEF Perform, ActionRecord
<1>8. ASSUME NEW t \in Threads, DownForce(t) PROVE action[a].state = "attached"
  BY <1>7, <1>8 DEF DownForce
<1>9. ASSUME NEW c \in Contexts, UpdateLocked(c) PROVE action[a].state = "attached"
  BY <1>7, <1>9 DEF UpdateLocked
<1>10. ASSUME WorkSplice PROVE action[a].state = "attached"
  BY <1>1, <1>10 DEF WorkSplice, ActionRecord
<1>11. ASSUME WorkCleanup PROVE action[a].state = "attached"
  BY <1>1, <1>11 DEF WorkCleanup, ActionRecord
<1>12. QED
  BY <1>2, <1>3, <1>4, <1>5, <1>6, <1>8, <1>9, <1>10, <1>11, ObjectSteps DEF ObjectStep


\* The step of the control state that the goal interrupt depends on.
LEMMA GoalIrqInv ==
  ASSUME IInv, TypeOK', [Next]_vars
  PROVE  /\ goal_irq_on' <=> "FENCE_GOAL" \in irq_mask'
         /\ seqno_valid' => goal_irq_on' \/ Arming'
         /\ worker'.pc = "goalirq" /\ ~worker'.valid => ~seqno_valid'
<1> DEFINE Armed == /\ goal_irq_on' <=> "FENCE_GOAL" \in irq_mask'
                    /\ seqno_valid' => goal_irq_on' \/ Arming'
                    /\ worker'.pc = "goalirq" /\ ~worker'.valid => ~seqno_valid'
<1>0. /\ goal_irq_on <=> "FENCE_GOAL" \in irq_mask
      /\ seqno_valid => goal_irq_on \/ Arming
      /\ worker.pc = "goalirq" /\ ~worker.valid => ~seqno_valid
      /\ pc \in [Contexts -> Labels] /\ Contexts = Threads \cup {Isr} /\ Isr \notin Threads
      /\ Worker \notin Threads /\ NoOne \notin Threads /\ NoOne # Worker
      /\ goal_irq_mutex = Worker <=> worker.pc = "goalirq"
      /\ seqno_valid \in BOOLEAN /\ goal_irq_on \in BOOLEAN
      /\ worker \in [pc : {"idle", "splice", "goalirq", "cleanup"}, valid : BOOLEAN]
      /\ \A t \in Threads : pc[t] \in {"goalirq", "added"} => goal_irq_mutex = t
  BY ConstantsAssumption DEF IInv, Goal, Arming, TypeOK, Control, In, Contexts
<1> USE <1>0 DEF Goto, Locals, device, private, manager, objects, control, Arming
<1>1. ASSUME NEW t \in Threads, SendFence(t) PROVE Armed
  BY <1>1 DEF SendFence
<1>2. ASSUME NEW t \in Threads, LookupFence(t) PROVE Armed
  BY <1>2 DEF LookupFence
<1>3. ASSUME NEW t \in Threads, Query(t) PROVE Armed
  BY <1>3 DEF Query
<1>4. ASSUME NEW t \in Threads, BeginWait(t) PROVE Armed
  BY <1>4 DEF BeginWait
<1>5. ASSUME NEW t \in Threads, AddToSignaled(t) PROVE Armed
  BY <1>5 DEF AddToSignaled, NewAction
<1>6. ASSUME NEW t \in Threads, AddToUnsignaled(t) PROVE Armed
  BY <1>6 DEF AddToUnsignaled, NewAction, GoalCheck
<1>7. ASSUME NEW t \in Threads, BeginClose(t) PROVE Armed
  BY <1>7 DEF BeginClose
<1>8. ASSUME NEW t \in Threads, FifoDown(t) PROVE Armed
  BY <1>8 DEF FifoDown
<1>9. ASSUME NEW t \in Threads, Takedown(t) PROVE Armed
  BY <1>9 DEF Takedown
<1>10. ASSUME NEW t \in Threads, UpdateSeqno(t) PROVE Armed
  BY <1>10 DEF UpdateSeqno, Return
<1>11. ASSUME NEW t \in Threads, CreateFence(t) PROVE Armed
  BY <1>11 DEF CreateFence
<1>12. ASSUME NEW t \in Threads, CreateFails(t) PROVE Armed
  BY <1>12 DEF CreateFails
<1>13. ASSUME NEW t \in Threads, NoFence(t) PROVE Armed
  BY <1>13 DEF NoFence
<1>14. ASSUME NEW t \in Threads, PutFence(t) PROVE Armed
  BY <1>14 DEF PutFence
<1>15. ASSUME NEW t \in Threads, GoalIrqOn(t) PROVE Armed
  BY <1>15 DEF GoalIrqOn
<1>16. ASSUME NEW t \in Threads, AddDone(t) PROVE Armed
  BY <1>16 DEF AddDone
<1>17. ASSUME NEW t \in Threads, WaiterAdd(t) PROVE Armed
  BY <1>17 DEF WaiterAdd
<1>18. ASSUME NEW t \in Threads, WaiterRemove(t) PROVE Armed
  BY <1>18 DEF WaiterRemove
<1>19. ASSUME NEW t \in Threads, WaitNotNeeded(t) PROVE Armed
  BY <1>19 DEF WaitNotNeeded
<1>20. ASSUME NEW t \in Threads, WaitCheck(t) PROVE Armed
  BY <1>20 DEF WaitCheck
<1>21. ASSUME NEW t \in Threads, WaitWoken(t) PROVE Armed
  BY <1>21 DEF WaitWoken
<1>22. ASSUME NEW t \in Threads, WaitTimeout(t) PROVE Armed
  BY <1>22 DEF WaitTimeout
<1>23. ASSUME NEW t \in Threads, CloseEvent(t) PROVE Armed
  BY <1>23 DEF CloseEvent
<1>24. ASSUME NEW t \in Threads, EndClose(t) PROVE Armed
  BY <1>24 DEF EndClose
<1>25. ASSUME NEW t \in Threads, DownNext(t) PROVE Armed
  BY <1>25 DEF DownNext
<1>26. ASSUME NEW t \in Threads, DownForce(t) PROVE Armed
  BY <1>26 DEF DownForce
<1>27. ASSUME NEW t \in Threads, DownPut(t) PROVE Armed
  BY <1>27 DEF DownPut
<1>28. ASSUME NEW c \in Contexts, ReadFence(c) PROVE Armed
  BY <1>28 DEF ReadFence, Return
<1>29. ASSUME NEW c \in Contexts, RereadFence(c) PROVE Armed
  BY <1>29 DEF RereadFence, Return
<1>30. ASSUME NEW c \in Contexts, UpdateLocked(c) PROVE Armed
  <2>1. /\ pc[c] = "update" /\ UNCHANGED <<goal_irq_on, irq_mask, goal_irq_mutex, worker>>
        /\ pc' = [pc EXCEPT ![c] = "reread"] \/ pc' = [pc EXCEPT ![c] = ret[c]]
        /\ seqno_valid' => seqno_valid
    BY <1>30 DEF UpdateLocked, Return, NewGoal, GoalPassed
  <2>2. Arming => Arming'
    BY <2>1
  <2>3. QED
    BY <2>1, <2>2
<1>31. ASSUME NEW f \in Fences, DropHandle(f) PROVE Armed
  BY <1>31 DEF DropHandle
<1>32. ASSUME IrqRead PROVE Armed
  BY <1>32 DEF IrqRead
<1>33. ASSUME IrqAck PROVE Armed
  BY <1>33 DEF IrqAck
<1>34. ASSUME WorkSplice PROVE Armed
  BY <1>34 DEF WorkSplice
<1>35. ASSUME WorkGoalIrqOff PROVE Armed
  BY <1>35 DEF WorkGoalIrqOff
<1>36. ASSUME WorkCleanup PROVE Armed
  BY <1>36 DEF WorkCleanup
<1>37. ASSUME DeviceFence PROVE Armed
  BY <1>37 DEF DeviceFence
<1>38. ASSUME UNCHANGED vars PROVE Armed
  BY <1>38 DEF vars
<1>39. QED
  BY <1>1, <1>2, <1>3, <1>4, <1>5, <1>6, <1>7, <1>8, <1>9, <1>10, <1>11, <1>12, <1>13, <1>14,
     <1>15, <1>16, <1>17, <1>18, <1>19, <1>20, <1>21, <1>22, <1>23, <1>24, <1>25, <1>26, <1>27, <1>28,
     <1>29, <1>30, <1>31, <1>32, <1>33, <1>34, <1>35, <1>36, <1>37, <1>38
  DEF Next, Call, Continue, Update, Irq, Work

\* Only these two steps move the goal, and the driver goes down for good.
LEMMA GoalSteps ==
  ASSUME [Next]_vars
  PROVE  /\ \/ UNCHANGED <<seqno_valid, FENCE_GOAL>>
            \/ \E c \in Contexts : UpdateLocked(c)
            \/ \E t \in Threads : AddToUnsignaled(t)
         /\ fifo_down => fifo_down'
<1> DEFINE Kept == UNCHANGED <<seqno_valid, FENCE_GOAL>> /\ (fifo_down => fifo_down')
<1> USE DEF Locals, device, private, manager, objects, control
<1>1. ASSUME NEW t \in Threads,
             \/ SendFence(t) \/ Query(t) \/ BeginWait(t) \/ BeginClose(t) \/ FifoDown(t)
             \/ Takedown(t) \/ UpdateSeqno(t) \/ CreateFails(t) \/ NoFence(t)
      PROVE  Kept
  BY <1>1 DEF SendFence, Query, BeginWait, BeginClose, FifoDown, Takedown, UpdateSeqno,
              CreateFails, NoFence
<1>2. ASSUME NEW t \in Threads,
             \/ GoalIrqOn(t) \/ AddDone(t) \/ WaiterAdd(t) \/ WaitNotNeeded(t) \/ WaitCheck(t)
             \/ WaitWoken(t) \/ WaitTimeout(t) \/ WaiterRemove(t) \/ EndClose(t)
      PROVE  Kept
  BY <1>2 DEF GoalIrqOn, AddDone, WaiterAdd, WaitNotNeeded, WaitCheck, WaitWoken, WaitTimeout,
              WaiterRemove, EndClose
<1>3. ASSUME NEW t \in Threads,
             \/ LookupFence(t) \/ AddToSignaled(t) \/ CreateFence(t)
             \/ PutFence(t) \/ CloseEvent(t) \/ DownNext(t) \/ DownForce(t) \/ DownPut(t)
      PROVE  Kept
  BY <1>3 DEF LookupFence, AddToSignaled, CreateFence, PutFence, CloseEvent, DownNext, DownForce,
              DownPut
<1>4. ASSUME NEW c \in Contexts, ReadFence(c) \/ RereadFence(c) PROVE Kept
  BY <1>4 DEF ReadFence, RereadFence
<1>5. ASSUME \/ Irq \/ DeviceFence \/ Work \/ UNCHANGED vars \/ \E f \in Fences : DropHandle(f)
      PROVE  Kept
  <2>1. CASE Irq \/ DeviceFence
    BY <2>1 DEF Irq, IrqRead, IrqAck, DeviceFence
  <2>2. CASE Work
    <3>1. WorkSplice => Kept
      BY DEF WorkSplice
    <3>2. WorkGoalIrqOff => Kept
      BY DEF WorkGoalIrqOff
    <3>3. WorkCleanup => Kept
      BY DEF WorkCleanup
    <3>4. QED
      BY <2>2, <3>1, <3>2, <3>3 DEF Work
  <2>3. CASE UNCHANGED vars \/ \E f \in Fences : DropHandle(f)
    BY <2>3 DEF DropHandle, vars
  <2>4. QED
    BY <1>5, <2>1, <2>2, <2>3
<1>6. ASSUME NEW t \in Threads, AddToUnsignaled(t) PROVE fifo_down' = fifo_down
  BY <1>6 DEF AddToUnsignaled
<1>7. ASSUME NEW c \in Contexts, UpdateLocked(c) PROVE fifo_down' = fifo_down
  BY <1>7 DEF UpdateLocked
<1>8. QED
  BY <1>1, <1>2, <1>3, <1>4, <1>5, <1>6, <1>7 DEF Next, Call, Continue, Update

\* What an update leaves on the list keeps its number and its actions.
LEMMA UpdateKeeps ==
  ASSUME IInv, TypeOK', NEW n \in 0 .. Len(fence_list),
         fence_list' = SubSeq(fence_list, n + 1, Len(fence_list)),
         fence' = [f \in Fences |->
            IF f \in {fence_list[k] : k \in 1 .. n}
              THEN [fence[f] EXCEPT !.signaled = TRUE] ELSE fence[f]],
         action' = Perform({fence_list[k] : k \in 1 .. n})
  PROVE  /\ \A i \in n + 1 .. Len(fence_list) :
              /\ i - n \in DOMAIN fence_list' /\ fence_list'[i - n] = fence_list[i]
              /\ fence'[fence_list[i]] = fence[fence_list[i]]
              /\ \A a \in Actions : action[a].state = "attached" /\ action[a].fence = fence_list[i]
                                      => action'[a] = action[a]
         /\ \A a \in Actions : action'[a].state = "attached" =>
              /\ action'[a] = action[a]
              /\ \E i \in n + 1 .. Len(fence_list) : fence_list[i] = action[a].fence
<1> DEFINE F == {fence_list[k] : k \in 1 .. n}
<1>1. /\ fence_list \in Seq(Fences) /\ OnceEach(fence_list)
      /\ DOMAIN fence_list = 1 .. Len(fence_list) /\ Len(fence_list) \in Nat /\ n \in Nat
      /\ action \in [Actions -> ActionRecord]
      /\ \A a \in Actions : action[a].state = "attached" => Has(action[a].fence, fence_list)
  BY DEF IInv, TypeOK, Lists, Placed, Listed
<1>2. \A k \in 1 .. n : k \in DOMAIN fence_list /\ k \notin n + 1 .. Len(fence_list)
  BY <1>1
<1>3. \A i \in n + 1 .. Len(fence_list) : i \in DOMAIN fence_list /\ fence_list[i] \in Fences
  BY <1>1
<1>4. \A i \in n + 1 .. Len(fence_list) : fence_list[i] \notin F
  BY <1>1, <1>2, <1>3 DEF OnceEach
<1>5. ASSUME NEW i \in n + 1 .. Len(fence_list)
      PROVE  /\ i - n \in DOMAIN fence_list' /\ fence_list'[i - n] = fence_list[i]
  <2> DEFINE T == SubSeq(fence_list, n + 1, Len(fence_list))
  <2>1. /\ T \in Seq(Fences) /\ Len(T) = Len(fence_list) - n
        /\ \A k \in 1 .. Len(fence_list) - n : T[k] = fence_list[n + k]
    BY <1>1, TailIs DEF Shorter
  <2> HIDE DEF T
  <2>2. fence_list' = T /\ DOMAIN T = 1 .. Len(fence_list) - n
    BY <2>1 DEF T
  <2>3. i - n \in 1 .. Len(fence_list) - n /\ n + (i - n) = i
    BY <1>1
  <2>4. QED
    BY <2>1, <2>2, <2>3
<1> HIDE DEF F
<1>6. ASSUME NEW a \in Actions, action[a].fence \notin F PROVE action'[a] = action[a]
  BY <1>6 DEF Perform, F
<1>7. ASSUME NEW a \in Actions, action'[a].state = "attached"
      PROVE  /\ action'[a] = action[a] /\ action[a].fence \notin F
  BY <1>1, <1>7 DEF Perform, F, ActionRecord
<1>8. ASSUME NEW f \in Fences, f \notin F PROVE fence'[f] = fence[f]
  BY <1>8 DEF F
<1>9. ASSUME NEW a \in Actions, action'[a].state = "attached"
      PROVE  \E i \in n + 1 .. Len(fence_list) : fence_list[i] = action[a].fence
  <2>1. PICK i \in DOMAIN fence_list : fence_list[i] = action[a].fence
    BY <1>1, <1>7, <1>9 DEF Has
  <2>2. i \notin 1 .. n
    BY <1>7, <1>9, <2>1 DEF F
  <2>3. QED
    BY <1>1, <2>1, <2>2
<1>10. QED
  BY <1>3, <1>4, <1>5, <1>6, <1>7, <1>8, <1>9

\* The goal is valid while an action waits, and names a fence that an action
\* waits for.
LEMMA GoalListInv ==
  ASSUME IInv, TypeOK', Lists', [Next]_vars
  PROVE  (Waited' => seqno_valid') /\ (~fifo_down' => Named')
<1>1. /\ Waited => seqno_valid
      /\ ~fifo_down => Named
      /\ fence_list \in Seq(Fences) /\ DOMAIN fence_list = 1 .. Len(fence_list)
      /\ Len(fence_list) \in Nat
      /\ seqno_valid \in BOOLEAN
  BY DEF IInv, Goal, GoalNamesAction, Named, Waited, TypeOK
<1>2. fifo_down => fifo_down'
  BY GoalSteps
<1>3. ASSUME NEW c \in Contexts, UpdateLocked(c)
      PROVE  (Waited' => seqno_valid') /\ (~fifo_down' => Named')
  <2>1. PICK n \in 0 .. Len(fence_list) :
          /\ WalkEnds(seen[c], n)
          /\ fence_list' = SubSeq(fence_list, n + 1, Len(fence_list))
          /\ fence' = [f \in Fences |->
                IF f \in {fence_list[k] : k \in 1 .. n}
                  THEN [fence[f] EXCEPT !.signaled = TRUE] ELSE fence[f]]
          /\ action' = Perform({fence_list[k] : k \in 1 .. n})
          /\ NewGoal(seen[c], n)
    BY <1>3 DEF UpdateLocked
  <2>2. /\ \A i \in n + 1 .. Len(fence_list) :
             /\ i - n \in DOMAIN fence_list' /\ fence_list'[i - n] = fence_list[i]
             /\ fence'[fence_list[i]] = fence[fence_list[i]]
             /\ \A a \in Actions : action[a].state = "attached" /\ action[a].fence = fence_list[i]
                                     => action'[a] = action[a]
        /\ \A a \in Actions : action'[a].state = "attached" =>
             /\ action'[a] = action[a]
             /\ \E i \in n + 1 .. Len(fence_list) : fence_list[i] = action[a].fence
    BY <2>1, UpdateKeeps
  <2>3. ASSUME NEW i \in n + 1 .. Len(fence_list), Attached(fence_list[i]) # {},
               fence[fence_list[i]].seqno = FENCE_GOAL'
        PROVE  Named'
    <3>1. PICK a \in Actions : action[a].state = "attached" /\ action[a].fence = fence_list[i]
      BY <2>3 DEF Attached
    <3>2. action'[a].state = "attached" /\ action'[a].fence = fence_list'[i - n]
      BY <2>2, <3>1
    <3>3. /\ i - n \in DOMAIN fence_list' /\ Attached(fence_list[i - n])' # {}
          /\ fence'[fence_list'[i - n]].seqno = FENCE_GOAL'
      BY <2>2, <2>3, <3>2 DEF Attached
    <3>4. QED
      BY <3>3 DEF Named
  <2>4. CASE ~GoalPassed(seen[c])
    <3>1. UNCHANGED <<seqno_valid, FENCE_GOAL>>
      BY <2>1, <2>4 DEF NewGoal
    <3>2. Waited' => Waited
      BY <2>2 DEF Waited
    <3>3. ASSUME ~fifo_down', seqno_valid PROVE Named'
      <4>1. PICK i \in DOMAIN fence_list :
              Attached(fence_list[i]) # {} /\ fence[fence_list[i]].seqno = FENCE_GOAL
        BY <1>1, <1>2, <3>3 DEF Named
      <4>2. ~Passed(seen[c], fence[fence_list[i]].seqno)
        BY <2>4, <3>3, <4>1 DEF GoalPassed
      <4>3. i \notin 1 .. n
        BY <2>1, <4>2 DEF WalkEnds
      <4>4. i \in n + 1 .. Len(fence_list)
        BY <1>1, <4>3
      <4>5. QED
        BY <2>3, <3>1, <4>1, <4>4
    <3>4. QED
      BY <1>1, <3>1, <3>2, <3>3 DEF Named
  <2>5. CASE GoalPassed(seen[c])
    <3> DEFINE waited == {i \in n + 1 .. Len(fence_list) : Attached(fence_list[i]) # {}}
    <3>1. /\ seqno_valid' = (waited # {})
          /\ waited = {} \/ \E i \in waited : FENCE_GOAL' = fence[fence_list[i]].seqno
      BY <2>1, <2>5 DEF NewGoal
    <3>2. ASSUME Waited' PROVE waited # {}
      <4>1. PICK a \in Actions : action'[a].state = "attached"
        BY <3>2 DEF Waited
      <4>2. PICK i \in n + 1 .. Len(fence_list) : fence_list[i] = action[a].fence
        BY <2>2, <4>1
      <4>3. a \in Attached(fence_list[i])
        BY <2>2, <4>1, <4>2 DEF Attached
      <4>4. QED
        BY <4>3
    <3>3. ASSUME seqno_valid' PROVE Named'
      BY <2>3, <3>1, <3>3
    <3>4. QED
      BY <3>1, <3>2, <3>3 DEF Named
  <2>6. QED
    BY <2>4, <2>5
<1>4. ASSUME ~ \E t \in Threads : DownForce(t), ~ \E c \in Contexts : UpdateLocked(c),
             UNCHANGED <<seqno_valid, FENCE_GOAL>>, Named
      PROVE  Named'
  <2>1. ASSUME NEW f \in Fences, Listed(f), Attached(f) # {}
        PROVE  Listed(f)' /\ Attached(f)' # {} /\ fence'[f].seqno = fence[f].seqno
    <3>1. PICK a \in Actions : action[a].state = "attached" /\ action[a].fence = f
      BY <2>1 DEF Attached
    <3>2. /\ action'[a].state = "attached" /\ action'[a].fence = f
          /\ fence'[f].seqno = fence[f].seqno
      BY <1>4, <3>1, WaitGoesOn
    <3>3. Listed(f)'
      BY <3>2 DEF Lists, Placed, Listed
    <3>4. QED
      BY <3>2, <3>3 DEF Attached
  <2>2. QED
    BY <1>1, <1>4, <2>1, StaysNamed
<1>5. ASSUME NEW t \in Threads, DownForce(t) PROVE fifo_down'
  BY <1>5, <1>2 DEF DownForce, IInv, Control
<1>6. ASSUME NEW t \in Threads, AddToUnsignaled(t),
             ~ \E u \in Threads : DownForce(u), ~ \E c \in Contexts : UpdateLocked(c)
      PROVE  seqno_valid' /\ (Named \/ ~seqno_valid \/ GoalCheck(obj[t]) => Named')
  <2>1. seqno_valid'
    BY <1>1, <1>6 DEF AddToUnsignaled, GoalCheck
  <2>2. ASSUME GoalCheck(obj[t]) PROVE Named'
    <3>1. /\ obj[t] \in Fences /\ Live(obj[t]) /\ ~fence[obj[t]].signaled
          /\ FENCE_GOAL' = fence[obj[t]].seqno /\ fence_list' = fence_list
          /\ fence' = [fence EXCEPT ![obj[t]].refs = @ + 1]
      BY <1>6, <2>2, Referenced DEF AddToUnsignaled, NewAction, IInv, TypeOK, Control, Holds, In, Holding
    <3>2. PICK i \in DOMAIN fence_list : fence_list[i] = obj[t]
      BY <3>1 DEF IInv, Lists, Listed, Has
    <3>3. PICK a \in Actions : action'[a].state = "attached" /\ action'[a].fence = obj[t]
      BY <1>6 DEF AddToUnsignaled, NewAction, IInv, TypeOK
    <3>4. fence'[obj[t]].seqno = fence[obj[t]].seqno
      BY <3>1 DEF IInv, TypeOK
    <3>5. i \in DOMAIN fence_list' /\ Attached(fence_list[i])' # {} /\ fence'[fence_list'[i]].seqno = FENCE_GOAL'
      BY <3>1, <3>2, <3>3, <3>4 DEF Attached
    <3>6. QED
      BY <3>5 DEF Named
  <2>3. ASSUME ~GoalCheck(obj[t]), Named PROVE Named'
    <3>1. UNCHANGED <<seqno_valid, FENCE_GOAL>>
      BY <1>6, <2>3 DEF AddToUnsignaled
    <3>2. QED
      BY <1>4, <1>6, <2>3, <3>1
  <2>4. QED
    BY <2>1, <2>2, <2>3 DEF GoalCheck
<1>7. CASE \E c \in Contexts : UpdateLocked(c)
  BY <1>3, <1>7
<1>8. CASE /\ ~ \E c \in Contexts : UpdateLocked(c)
           /\ ~ \E u \in Threads : DownForce(u)
           /\ \E t \in Threads : AddToUnsignaled(t)
  BY <1>1, <1>2, <1>6, <1>8 DEF Named
<1>9. CASE /\ ~ \E c \in Contexts : UpdateLocked(c)
           /\ \A t \in Threads : ~AddToUnsignaled(t)
  <2>1. UNCHANGED <<seqno_valid, FENCE_GOAL>>
    BY <1>9, GoalSteps
  <2>2. Waited' => Waited
    BY <1>9, WaitBegins DEF Waited
  <2>3. QED
    BY <1>1, <1>2, <1>4, <1>5, <1>9, <2>1, <2>2
<1>10. CASE /\ ~ \E c \in Contexts : UpdateLocked(c)
            /\ \E t \in Threads : AddToUnsignaled(t)
            /\ \E u \in Threads : DownForce(u)
  <2>1. fifo_down' /\ seqno_valid'
    BY <1>1, <1>5, <1>10 DEF AddToUnsignaled, GoalCheck
  <2>2. QED
    BY <2>1
<1>11. QED
  BY <1>7, <1>8, <1>9, <1>10

-----------------------------------------------------------------------------
(* The ages. *)

\* The register and the last number only grow older fences, and the commands
\* between them are in order.
LEMMA ClockInv ==
  ASSUME IInv, TypeOK', [Next]_vars
  PROVE  /\ Age(FENCE) <= Age(FENCE') /\ Age(marker_seq) <= Age(marker_seq')
         /\ Age(marker_seq') <= MaxSeqnos + 1 /\ Age(FENCE') <= Age(marker_seq')
         /\ \A i \in DOMAIN commands' :
              /\ Age(FENCE') <= Age(commands'[i]) /\ Age(commands'[i]) <= Age(marker_seq')
              /\ \A j \in DOMAIN commands' : i < j => Age(commands'[i]) <= Age(commands'[j])
<1> DEFINE Clock == UNCHANGED <<commands, FENCE, marker_seq>>
<1>1. /\ commands \in Seq(Seqnos) /\ FENCE \in Seqnos /\ marker_seq \in Seqnos
      /\ commands' \in Seq(Seqnos) /\ FENCE' \in Seqnos /\ marker_seq' \in Seqnos
      /\ DOMAIN commands = 1 .. Len(commands) /\ Len(commands) \in Nat
      /\ MaxSeqnos \in Nat
      /\ \A s \in Seqnos : Age(s) \in Int
  <2>1. \A s \in Seqnos : Age(s) \in Int
    BY AgeIs, ConstantsAssumption
  <2>2. QED
    BY <2>1, ConstantsAssumption DEF IInv, TypeOK
<1>2. /\ Age(marker_seq) <= MaxSeqnos + 1 /\ Age(FENCE) <= Age(marker_seq)
      /\ \A i \in DOMAIN commands :
           /\ Age(FENCE) <= Age(commands[i]) /\ Age(commands[i]) <= Age(marker_seq)
           /\ \A j \in DOMAIN commands : i < j => Age(commands[i]) <= Age(commands[j])
  BY DEF IInv, Ages
<1> USE DEF Locals, device, private, manager, objects, control
<1>3. ASSUME NEW t \in Threads,
             \/ Query(t) \/ BeginWait(t) \/ BeginClose(t) \/ FifoDown(t)
             \/ Takedown(t) \/ UpdateSeqno(t) \/ CreateFails(t) \/ NoFence(t)
      PROVE  Clock
  BY <1>3 DEF Query, BeginWait, BeginClose, FifoDown, Takedown, UpdateSeqno, CreateFails, NoFence
<1>4. ASSUME NEW t \in Threads,
             \/ GoalIrqOn(t) \/ AddDone(t) \/ WaiterAdd(t) \/ WaitNotNeeded(t) \/ WaitCheck(t)
             \/ WaitWoken(t) \/ WaitTimeout(t) \/ WaiterRemove(t) \/ EndClose(t)
      PROVE  Clock
  BY <1>4 DEF GoalIrqOn, AddDone, WaiterAdd, WaitNotNeeded, WaitCheck, WaitWoken, WaitTimeout,
              WaiterRemove, EndClose
<1>5. ASSUME NEW t \in Threads,
             \/ LookupFence(t) \/ AddToSignaled(t) \/ AddToUnsignaled(t) \/ CreateFence(t)
             \/ PutFence(t) \/ CloseEvent(t) \/ DownNext(t) \/ DownForce(t) \/ DownPut(t)
      PROVE  Clock
  BY <1>5 DEF LookupFence, AddToSignaled, AddToUnsignaled, CreateFence, PutFence, CloseEvent,
              DownNext, DownForce, DownPut
<1>6. ASSUME NEW c \in Contexts, Update(c) PROVE Clock
  BY <1>6 DEF Update, ReadFence, UpdateLocked, RereadFence
<1>7. ASSUME \/ Irq \/ UNCHANGED vars \/ \E f \in Fences : DropHandle(f) PROVE Clock
  BY <1>7 DEF Irq, IrqRead, IrqAck, DropHandle, vars
<1>8. ASSUME Work PROVE Clock
  <2>1. WorkSplice => Clock
    BY DEF WorkSplice
  <2>2. WorkGoalIrqOff => Clock
    BY DEF WorkGoalIrqOff
  <2>3. WorkCleanup => Clock
    BY DEF WorkCleanup
  <2>4. QED
    BY <1>8, <2>1, <2>2, <2>3 DEF Work
<1>9. CASE Clock
  BY <1>1, <1>2, <1>9
<1>10. CASE \E t \in Threads : SendFence(t)
  <2>1. PICK t \in Threads : SendFence(t)
    BY <1>10
  <2>2. Age(marker_seq) < Age(marker_seq') /\ Age(marker_seq') <= MaxSeqnos + 1
    BY <1>1, <2>1, NextIs DEF SendFence, Age
  <2>3. FENCE' = FENCE /\ commands' = Append(commands, marker_seq')
    BY <2>1 DEF SendFence
  <2>4. /\ DOMAIN commands' = 1 .. Len(commands) + 1
        /\ \A i \in 1 .. Len(commands) : commands'[i] = commands[i]
        /\ commands'[Len(commands) + 1] = marker_seq'
    BY <1>1, <2>3
  <2>5. \A i \in DOMAIN commands' : commands'[i] \in Seqnos
    BY <1>1
  <2>6. ASSUME NEW i \in DOMAIN commands'
        PROVE  Age(FENCE') <= Age(commands'[i]) /\ Age(commands'[i]) <= Age(marker_seq')
    <3>1. CASE i = Len(commands) + 1
      BY <1>1, <1>2, <2>2, <2>3, <2>4, <3>1
    <3>2. CASE i \in 1 .. Len(commands)
      BY <1>1, <1>2, <2>2, <2>3, <2>4, <3>2
    <3>3. QED
      BY <1>1, <2>4, <3>1, <3>2
  <2>7. ASSUME NEW i \in DOMAIN commands', NEW j \in DOMAIN commands', i < j
        PROVE  Age(commands'[i]) <= Age(commands'[j])
    <3>1. i \in 1 .. Len(commands)
      BY <1>1, <2>4, <2>7
    <3>2. CASE j = Len(commands) + 1
      BY <1>1, <2>4, <2>6, <3>2
    <3>3. CASE j \in 1 .. Len(commands)
      BY <1>1, <1>2, <2>4, <2>7, <3>1, <3>3
    <3>4. QED
      BY <1>1, <2>4, <3>2, <3>3
  <2>8. QED
    BY <1>1, <1>2, <2>2, <2>3, <2>6, <2>7
<1>11. CASE DeviceFence
  <2>1. /\ commands # <<>> /\ FENCE' = commands[1] /\ marker_seq' = marker_seq
        /\ DOMAIN commands' = 1 .. Len(commands) - 1
        /\ \A i \in 1 .. Len(commands) - 1 : commands'[i] = commands[i + 1]
    BY <1>1, <1>11 DEF DeviceFence
  <2>2. 1 \in DOMAIN commands /\ \A i \in 1 .. Len(commands) - 1 : i + 1 \in DOMAIN commands
    BY <1>1, <2>1
  <2>3. Age(FENCE) <= Age(FENCE') /\ Age(FENCE') <= Age(marker_seq')
    BY <1>1, <1>2, <2>1, <2>2
  <2>4. ASSUME NEW i \in DOMAIN commands'
        PROVE  Age(FENCE') <= Age(commands'[i]) /\ Age(commands'[i]) <= Age(marker_seq')
    <3>1. i + 1 \in DOMAIN commands /\ commands'[i] = commands[i + 1] /\ 1 < i + 1
      BY <1>1, <2>1, <2>2
    <3>2. QED
      BY <1>1, <1>2, <2>1, <2>2, <3>1
  <2>5. ASSUME NEW i \in DOMAIN commands', NEW j \in DOMAIN commands', i < j
        PROVE  Age(commands'[i]) <= Age(commands'[j])
    <3>1. i \in 1 .. Len(commands) - 1 /\ j \in 1 .. Len(commands) - 1
      BY <2>1
    <3>2. i + 1 < j + 1
      BY <2>5, <3>1
    <3>3. i + 1 \in DOMAIN commands /\ j + 1 \in DOMAIN commands
      BY <2>2, <3>1
    <3>4. commands'[i] = commands[i + 1] /\ commands'[j] = commands[j + 1]
      BY <2>1, <3>1
    <3>5. QED
      BY <1>2, <3>2, <3>3, <3>4
  <2>6. QED
    BY <1>1, <1>2, <2>1, <2>3, <2>4, <2>5
<1>12. QED
  BY <1>3, <1>4, <1>5, <1>6, <1>7, <1>8, <1>9, <1>10, <1>11 DEF Next, Call, Continue


\* The register value a context works with is the one it read, or the register.
LEMMA SeenSteps ==
  ASSUME IInv, TypeOK', [Next]_vars, NEW c \in Contexts, pc'[c] \in {"update", "reread"}
  PROVE  \/ pc[c] \in {"update", "reread"} /\ seen'[c] = seen[c]
         \/ seen'[c] = FENCE
<1> DEFINE Kept == \/ pc[c] \in {"update", "reread"} /\ seen'[c] = seen[c]
                   \/ seen'[c] = FENCE
<1>0. /\ pc \in [Contexts -> Labels] /\ Contexts = Threads \cup {Isr} /\ Isr \notin Threads
      /\ seen \in [Contexts -> Seqnos]
      /\ \A d \in Contexts : ret[d] \notin {"update", "reread"}
      /\ pc'[c] \in {"update", "reread"}
  BY ConstantsAssumption DEF IInv, TypeOK, Control, Contexts, Making, Updating
<1> USE <1>0 DEF Goto, Locals, device, private, manager, objects, control
<1>1. ASSUME NEW t \in Threads, SendFence(t) PROVE Kept
  BY <1>1 DEF SendFence
<1>2. ASSUME NEW t \in Threads, LookupFence(t) PROVE Kept
  BY <1>2 DEF LookupFence
<1>3. ASSUME NEW t \in Threads, Query(t) PROVE Kept
  BY <1>3 DEF Query
<1>4. ASSUME NEW t \in Threads, BeginWait(t) PROVE Kept
  BY <1>4 DEF BeginWait
<1>5. ASSUME NEW t \in Threads, AddToSignaled(t) PROVE Kept
  BY <1>5 DEF AddToSignaled, NewAction
<1>6. ASSUME NEW t \in Threads, AddToUnsignaled(t) PROVE Kept
  BY <1>6 DEF AddToUnsignaled, NewAction
<1>7. ASSUME NEW t \in Threads, BeginClose(t) PROVE Kept
  BY <1>7 DEF BeginClose
<1>8. ASSUME NEW t \in Threads, FifoDown(t) PROVE Kept
  BY <1>8 DEF FifoDown
<1>9. ASSUME NEW t \in Threads, Takedown(t) PROVE Kept
  BY <1>9 DEF Takedown
<1>10. ASSUME NEW t \in Threads, UpdateSeqno(t) PROVE Kept
  BY <1>10 DEF UpdateSeqno, Return
<1>11. ASSUME NEW t \in Threads, CreateFence(t) PROVE Kept
  BY <1>11 DEF CreateFence
<1>12. ASSUME NEW t \in Threads, CreateFails(t) PROVE Kept
  BY <1>12 DEF CreateFails
<1>13. ASSUME NEW t \in Threads, NoFence(t) PROVE Kept
  BY <1>13 DEF NoFence
<1>14. ASSUME NEW t \in Threads, PutFence(t) PROVE Kept
  BY <1>14 DEF PutFence
<1>15. ASSUME NEW t \in Threads, GoalIrqOn(t) PROVE Kept
  BY <1>15 DEF GoalIrqOn
<1>16. ASSUME NEW t \in Threads, AddDone(t) PROVE Kept
  BY <1>16 DEF AddDone
<1>17. ASSUME NEW t \in Threads, WaiterAdd(t) PROVE Kept
  BY <1>17 DEF WaiterAdd
<1>18. ASSUME NEW t \in Threads, WaiterRemove(t) PROVE Kept
  BY <1>18 DEF WaiterRemove
<1>19. ASSUME NEW t \in Threads, WaitNotNeeded(t) PROVE Kept
  BY <1>19 DEF WaitNotNeeded
<1>20. ASSUME NEW t \in Threads, WaitCheck(t) PROVE Kept
  BY <1>20 DEF WaitCheck
<1>21. ASSUME NEW t \in Threads, WaitWoken(t) PROVE Kept
  BY <1>21 DEF WaitWoken
<1>22. ASSUME NEW t \in Threads, WaitTimeout(t) PROVE Kept
  BY <1>22 DEF WaitTimeout
<1>23. ASSUME NEW t \in Threads, CloseEvent(t) PROVE Kept
  BY <1>23 DEF CloseEvent
<1>24. ASSUME NEW t \in Threads, EndClose(t) PROVE Kept
  BY <1>24 DEF EndClose
<1>25. ASSUME NEW t \in Threads, DownNext(t) PROVE Kept
  BY <1>25 DEF DownNext
<1>26. ASSUME NEW t \in Threads, DownForce(t) PROVE Kept
  BY <1>26 DEF DownForce
<1>27. ASSUME NEW t \in Threads, DownPut(t) PROVE Kept
  BY <1>27 DEF DownPut
<1>28. ASSUME NEW d \in Contexts, ReadFence(d) PROVE Kept
  BY <1>28 DEF ReadFence, Return
<1>29. ASSUME NEW d \in Contexts, RereadFence(d) PROVE Kept
  BY <1>29 DEF RereadFence, Return
<1>30. ASSUME NEW d \in Contexts, UpdateLocked(d) PROVE Kept
  <2>1. /\ pc[d] = "update"
        /\ \/ pc' = [pc EXCEPT ![d] = "reread"] /\ seen' = seen
           \/ pc' = [pc EXCEPT ![d] = ret[d]]
                /\ seen' = [seen EXCEPT ![d] = 0]
    BY <1>30 DEF UpdateLocked, Return
  <2>2. QED
    BY <2>1
<1>31. ASSUME NEW f \in Fences, DropHandle(f) PROVE Kept
  BY <1>31 DEF DropHandle
<1>32. ASSUME IrqRead PROVE Kept
  BY <1>32 DEF IrqRead
<1>33. ASSUME IrqAck PROVE Kept
  BY <1>33 DEF IrqAck
<1>34. ASSUME WorkSplice PROVE Kept
  BY <1>34 DEF WorkSplice
<1>35. ASSUME WorkGoalIrqOff PROVE Kept
  BY <1>35 DEF WorkGoalIrqOff
<1>36. ASSUME WorkCleanup PROVE Kept
  BY <1>36 DEF WorkCleanup
<1>37. ASSUME DeviceFence PROVE Kept
  BY <1>37 DEF DeviceFence
<1>38. ASSUME UNCHANGED vars PROVE Kept
  BY <1>38 DEF vars
<1>39. QED
  BY <1>1, <1>2, <1>3, <1>4, <1>5, <1>6, <1>7, <1>8, <1>9, <1>10, <1>11, <1>12, <1>13, <1>14,
     <1>15, <1>16, <1>17, <1>18, <1>19, <1>20, <1>21, <1>22, <1>23, <1>24, <1>25, <1>26, <1>27, <1>28,
     <1>29, <1>30, <1>31, <1>32, <1>33, <1>34, <1>35, <1>36, <1>37, <1>38
  DEF Next, Call, Continue, Update, Irq, Work

\* A thread that has a number and no fence has just emitted it, or had it before;
\* nobody takes cmdbuf_mutex from it.
LEMMA MakesSteps ==
  ASSUME IInv, TypeOK', [Next]_vars, NEW u \in Threads, Makes(u)'
  PROVE  \/ SendFence(u)
         \/ /\ Makes(u) /\ seqno'[u] = seqno[u] /\ (cmdbuf_mutex = u => cmdbuf_mutex' = u)
<1> DEFINE Kept == \/ SendFence(u)
                   \/ /\ Makes(u) /\ seqno'[u] = seqno[u]
                      /\ cmdbuf_mutex = u => cmdbuf_mutex' = u
<1>0. /\ pc \in [Contexts -> Labels] /\ Contexts = Threads \cup {Isr} /\ Isr \notin Threads
      /\ ret \in [Contexts -> Labels]
      /\ seqno \in [Threads -> Seqnos] /\ NoOne \notin Threads
      /\ \A t \in Threads :
           /\ pc[t] = "sent" => ret[t] \in Making
           /\ pc[t] \notin Updating \cup {"sent"} => ret[t] = "idle"
           /\ pc[t] \in Updating => ret[t] \in {"create", "nofence", "have", "added", "waitadd", "waitcheck"}
      /\ \/ pc'[u] \in {"create", "nofence", "sent"}
         \/ pc'[u] \in Updating /\ ret'[u] \in {"create", "nofence"}
  BY ConstantsAssumption DEF IInv, TypeOK, Control, Contexts, Makes, In, Making
<1> USE <1>0 DEF Goto, Locals, device, private, manager, objects, control, Makes, In, Making, Updating
<1>1. ASSUME NEW t \in Threads, SendFence(t) PROVE Kept
  BY <1>1 DEF SendFence
<1>2. ASSUME NEW t \in Threads, LookupFence(t) PROVE Kept
  BY <1>2 DEF LookupFence
<1>3. ASSUME NEW t \in Threads, Query(t) PROVE Kept
  BY <1>3 DEF Query
<1>4. ASSUME NEW t \in Threads, BeginWait(t) PROVE Kept
  BY <1>4 DEF BeginWait
<1>5. ASSUME NEW t \in Threads, AddToSignaled(t) PROVE Kept
  BY <1>5 DEF AddToSignaled, NewAction
<1>6. ASSUME NEW t \in Threads, AddToUnsignaled(t) PROVE Kept
  BY <1>6 DEF AddToUnsignaled, NewAction
<1>7. ASSUME NEW t \in Threads, BeginClose(t) PROVE Kept
  BY <1>7 DEF BeginClose
<1>8. ASSUME NEW t \in Threads, FifoDown(t) PROVE Kept
  BY <1>8 DEF FifoDown
<1>9. ASSUME NEW t \in Threads, Takedown(t) PROVE Kept
  BY <1>9 DEF Takedown
<1>10. ASSUME NEW t \in Threads, UpdateSeqno(t) PROVE Kept
  BY <1>10 DEF UpdateSeqno, Return
<1>11. ASSUME NEW t \in Threads, CreateFence(t) PROVE Kept
  BY <1>11 DEF CreateFence, Unlocked
<1>12. ASSUME NEW t \in Threads, CreateFails(t) PROVE Kept
  BY <1>12 DEF CreateFails
<1>13. ASSUME NEW t \in Threads, NoFence(t) PROVE Kept
  BY <1>13 DEF NoFence, Unlocked
<1>14. ASSUME NEW t \in Threads, PutFence(t) PROVE Kept
  BY <1>14 DEF PutFence
<1>15. ASSUME NEW t \in Threads, GoalIrqOn(t) PROVE Kept
  BY <1>15 DEF GoalIrqOn
<1>16. ASSUME NEW t \in Threads, AddDone(t) PROVE Kept
  BY <1>16 DEF AddDone
<1>17. ASSUME NEW t \in Threads, WaiterAdd(t) PROVE Kept
  BY <1>17 DEF WaiterAdd
<1>18. ASSUME NEW t \in Threads, WaiterRemove(t) PROVE Kept
  BY <1>18 DEF WaiterRemove
<1>19. ASSUME NEW t \in Threads, WaitNotNeeded(t) PROVE Kept
  BY <1>19 DEF WaitNotNeeded
<1>20. ASSUME NEW t \in Threads, WaitCheck(t) PROVE Kept
  BY <1>20 DEF WaitCheck
<1>21. ASSUME NEW t \in Threads, WaitWoken(t) PROVE Kept
  BY <1>21 DEF WaitWoken
<1>22. ASSUME NEW t \in Threads, WaitTimeout(t) PROVE Kept
  BY <1>22 DEF WaitTimeout
<1>23. ASSUME NEW t \in Threads, CloseEvent(t) PROVE Kept
  BY <1>23 DEF CloseEvent
<1>24. ASSUME NEW t \in Threads, EndClose(t) PROVE Kept
  BY <1>24 DEF EndClose
<1>25. ASSUME NEW t \in Threads, DownNext(t) PROVE Kept
  BY <1>25 DEF DownNext
<1>26. ASSUME NEW t \in Threads, DownForce(t) PROVE Kept
  BY <1>26 DEF DownForce
<1>27. ASSUME NEW t \in Threads, DownPut(t) PROVE Kept
  BY <1>27 DEF DownPut
<1>28. ASSUME NEW d \in Contexts, ReadFence(d) PROVE Kept
  BY <1>28 DEF ReadFence, Return
<1>29. ASSUME NEW d \in Contexts, RereadFence(d) PROVE Kept
  BY <1>29 DEF RereadFence, Return
<1>30. ASSUME NEW d \in Contexts, UpdateLocked(d) PROVE Kept
  <2>1. /\ pc[d] = "update" /\ seqno' = seqno /\ cmdbuf_mutex' = cmdbuf_mutex
        /\ \/ pc' = [pc EXCEPT ![d] = "reread"] /\ ret' = ret
           \/ pc' = [pc EXCEPT ![d] = ret[d]] /\ ret' = [ret EXCEPT ![d] = "idle"]
    BY <1>30 DEF UpdateLocked, Return, private
  <2>2. CASE pc' = [pc EXCEPT ![d] = "reread"] /\ ret' = ret
    BY <2>1, <2>2
  <2>3. CASE pc' = [pc EXCEPT ![d] = ret[d]] /\ ret' = [ret EXCEPT ![d] = "idle"]
    BY <2>1, <2>3
  <2>4. QED
    BY <2>1, <2>2, <2>3
<1>31. ASSUME NEW f \in Fences, DropHandle(f) PROVE Kept
  BY <1>31 DEF DropHandle
<1>32. ASSUME IrqRead PROVE Kept
  BY <1>32 DEF IrqRead
<1>33. ASSUME IrqAck PROVE Kept
  BY <1>33 DEF IrqAck
<1>34. ASSUME WorkSplice PROVE Kept
  BY <1>34 DEF WorkSplice
<1>35. ASSUME WorkGoalIrqOff PROVE Kept
  BY <1>35 DEF WorkGoalIrqOff
<1>36. ASSUME WorkCleanup PROVE Kept
  BY <1>36 DEF WorkCleanup
<1>37. ASSUME DeviceFence PROVE Kept
  BY <1>37 DEF DeviceFence
<1>38. ASSUME UNCHANGED vars PROVE Kept
  BY <1>38 DEF vars
<1>39. QED
  BY <1>1, <1>2, <1>3, <1>4, <1>5, <1>6, <1>7, <1>8, <1>9, <1>10, <1>11, <1>12, <1>13, <1>14,
     <1>15, <1>16, <1>17, <1>18, <1>19, <1>20, <1>21, <1>22, <1>23, <1>24, <1>25, <1>26, <1>27, <1>28,
     <1>29, <1>30, <1>31, <1>32, <1>33, <1>34, <1>35, <1>36, <1>37, <1>38
  DEF Next, Call, Continue, Update, Irq, Work

\* How a live fence came to be what it is.
LEMMA FenceSteps ==
  ASSUME IInv, TypeOK', [Next]_vars, NEW f \in Fences, Live(f)',
         ~ \E c \in Contexts : UpdateLocked(c)
  PROVE  \/ /\ Live(f) /\ fence'[f].seqno = fence[f].seqno
            /\ fence'[f].signaled = fence[f].signaled /\ fence'[f].forced = fence[f].forced
         \/ /\ Live(f) /\ fence'[f].seqno = fence[f].seqno
            /\ fence'[f].signaled /\ fence'[f].forced
         \/ \E t \in Threads : /\ CreateFence(t) /\ fence'[f].seqno = seqno[t]
                               /\ ~fence'[f].signaled
<1> DEFINE Same == /\ Live(f) /\ fence'[f].seqno = fence[f].seqno
                   /\ fence'[f].signaled = fence[f].signaled /\ fence'[f].forced = fence[f].forced
<1>1. /\ fence \in [Fences -> FenceRecord] /\ fence[f] \in FenceRecord
      /\ fence'[f].state = "live"
      /\ obj \in [Threads -> Fences \cup {NoOne}]
  BY DEF IInv, TypeOK, Live
<1> USE DEF Live
<1>2. CASE fence' = fence
  BY <1>1, <1>2
<1>3. ASSUME NEW g, fence' = [fence EXCEPT ![g].refs = @ + 1] PROVE Same
  BY <1>1, <1>3
<1>4. ASSUME NEW g, fence' = Unreference(fence, g) PROVE Same
  BY <1>1, <1>4 DEF Unreference
<1>5. ASSUME NEW g \in Fences, DropHandle(g) PROVE Same
  BY <1>1, <1>5 DEF DropHandle, Unreference
<1>6. ASSUME NEW t \in Threads, CreateFence(t)
      PROVE  Same \/ (fence'[f].seqno = seqno[t] /\ ~fence'[f].signaled)
  <2>1. PICK g \in Fences, handle \in BOOLEAN :
          fence' = [fence EXCEPT ![g] =
                     [state |-> "live", seqno |-> seqno[t], handle |-> handle,
                      refs |-> IF handle THEN 2 ELSE 1,
                      signaled |-> FALSE, forced |-> FALSE]]
    BY <1>6 DEF CreateFence
  <2>2. CASE f = g
    BY <1>1, <2>1, <2>2
  <2>3. CASE f # g
    BY <1>1, <2>1, <2>3
  <2>4. QED
    BY <2>2, <2>3
<1>7. ASSUME NEW t \in Threads, DownForce(t)
      PROVE  Same \/ /\ Live(f) /\ fence'[f].seqno = fence[f].seqno
                     /\ fence'[f].signaled /\ fence'[f].forced
  <2>1. fence' = [fence EXCEPT ![obj[t]].signaled = TRUE, ![obj[t]].forced = TRUE]
    BY <1>7 DEF DownForce
  <2>2. CASE f = obj[t]
    BY <1>1, <2>1, <2>2 DEF FenceRecord
  <2>3. CASE f # obj[t]
    BY <1>1, <2>1, <2>3
  <2>4. QED
    BY <2>2, <2>3
<1>8. ASSUME NEW t \in Threads, LookupFence(t) \/ AddToSignaled(t) \/ AddToUnsignaled(t)
      PROVE  Same
  BY <1>3, <1>8 DEF LookupFence, AddToSignaled, AddToUnsignaled, NewAction
<1>9. ASSUME NEW t \in Threads, DownNext(t) PROVE fence' = fence \/ Same
  BY <1>3, <1>9 DEF DownNext
<1>10. ASSUME NEW t \in Threads, PutFence(t) \/ DownPut(t) PROVE Same
  BY <1>4, <1>10 DEF PutFence, DownPut
<1>11. ASSUME NEW t \in Threads, CloseEvent(t) PROVE fence' = fence
  BY <1>11 DEF CloseEvent
<1>12. ASSUME WorkSplice PROVE fence' = fence
  BY <1>12 DEF WorkSplice
<1>13. ASSUME WorkCleanup PROVE Same
  BY <1>4, <1>13 DEF WorkCleanup
<1>14. CASE Quiet
  BY <1>2, <1>14 DEF Quiet
<1>15. QED
  BY <1>2, <1>5, <1>6, <1>7, <1>8, <1>9, <1>10, <1>11, <1>12, <1>13, <1>14, ObjectSteps DEF ObjectStep

\* What an update signals has passed, and is not younger than what stays.
LEMMA UpdateSignals ==
  ASSUME IInv, TypeOK', NEW c \in Contexts, UpdateLocked(c), NEW f \in Fences, Live(f)'
  PROVE  /\ Live(f) /\ fence'[f].seqno = fence[f].seqno /\ fence'[f].forced = fence[f].forced
         /\ fence[f].signaled => fence'[f].signaled
         /\ fence'[f].signaled => fence[f].signaled \/ Passed(seen[c], fence[f].seqno)
<1>1. PICK n \in 0 .. Len(fence_list) :
        /\ WalkEnds(seen[c], n)
        /\ fence' = [g \in Fences |->
              IF g \in {fence_list[k] : k \in 1 .. n}
                THEN [fence[g] EXCEPT !.signaled = TRUE] ELSE fence[g]]
  BY DEF UpdateLocked
<1>2. fence \in [Fences -> FenceRecord] /\ fence[f] \in FenceRecord
  BY DEF IInv, TypeOK
<1>3. CASE f \in {fence_list[k] : k \in 1 .. n}
  <2>1. Passed(seen[c], fence[f].seqno)
    BY <1>1, <1>3 DEF WalkEnds
  <2>2. fence'[f] = [fence[f] EXCEPT !.signaled = TRUE]
    BY <1>1, <1>3
  <2>3. QED
    BY <1>2, <2>1, <2>2 DEF Live, FenceRecord
<1>4. CASE f \notin {fence_list[k] : k \in 1 .. n}
  BY <1>1, <1>4 DEF Live
<1>5. QED
  BY <1>3, <1>4

\* Every age stays in its bounds.
LEMMA AgesInv ==
  ASSUME IInv, TypeOK', [Next]_vars
  PROVE  Ages'
<1>1. /\ marker_seq \in Seqnos /\ FENCE \in Seqnos /\ marker_seq' \in Seqnos /\ FENCE' \in Seqnos
      /\ \A c \in Contexts : seen[c] \in Seqnos /\ seen'[c] \in Seqnos
      /\ \A t \in Threads : seqno[t] \in Seqnos /\ seqno'[t] \in Seqnos
      /\ \A f \in Fences : fence[f].seqno \in Seqnos /\ fence'[f].seqno \in Seqnos
  BY DEF IInv, TypeOK, FenceRecord
<1>2. (\A s \in Seqnos : Age(s) \in Int) /\ MaxSeqnos \in Nat
  BY AgeIs, ConstantsAssumption
<1>3. /\ Age(FENCE) <= Age(FENCE') /\ Age(marker_seq) <= Age(marker_seq')
      /\ Age(marker_seq) <= MaxSeqnos + 1 /\ Age(FENCE) <= Age(marker_seq)
  BY ClockInv DEF IInv, Ages
<1>4. ASSUME NEW c \in Contexts, pc'[c] \in {"update", "reread"} PROVE Age(seen'[c]) <= Age(FENCE')
  <2>1. \/ pc[c] \in {"update", "reread"} /\ seen'[c] = seen[c]
        \/ seen'[c] = FENCE
    BY <1>4, SeenSteps
  <2>2. QED
    BY <1>1, <1>2, <1>3, <2>1 DEF IInv, Ages
<1>5. ASSUME NEW t \in Threads, Makes(t)' PROVE Age(seqno'[t]) <= Age(marker_seq')
  <2>1. CASE SendFence(t)
    <3>1. seqno'[t] = marker_seq'
      BY <2>1 DEF SendFence, IInv, TypeOK
    <3>2. QED
      BY <1>1, <1>2, <3>1
  <2>2. CASE Makes(t) /\ seqno'[t] = seqno[t]
    <3>1. Age(seqno[t]) <= Age(marker_seq)
      BY <2>2 DEF IInv, Ages
    <3>2. QED
      BY <1>1, <1>2, <1>3, <2>2, <3>1
  <2>3. QED
    BY <1>5, <2>1, <2>2, MakesSteps
<1>6. ASSUME NEW f \in Fences, Live(f)'
      PROVE  /\ Age(fence'[f].seqno) <= Age(marker_seq')
             /\ fence'[f].signaled /\ ~fence'[f].forced => Age(fence'[f].seqno) <= Age(FENCE')
  <2>1. Live(f) => /\ Age(fence[f].seqno) <= Age(marker_seq)
                   /\ fence[f].signaled /\ ~fence[f].forced => Age(fence[f].seqno) <= Age(FENCE)
    BY DEF IInv, Ages
  <2>2. CASE \E c \in Contexts : UpdateLocked(c)
    <3>1. PICK c \in Contexts : UpdateLocked(c)
      BY <2>2
    <3>2. /\ Live(f) /\ fence'[f].seqno = fence[f].seqno /\ fence'[f].forced = fence[f].forced
          /\ fence'[f].signaled => fence[f].signaled \/ Passed(seen[c], fence[f].seqno)
      BY <1>6, <3>1, UpdateSignals
    <3>3. Age(seen[c]) <= Age(FENCE)
      BY <3>1 DEF UpdateLocked, IInv, Ages
    <3>4. Passed(seen[c], fence[f].seqno) => Age(fence[f].seqno) <= Age(seen[c])
      <4>1. Age(seen[c]) <= MaxSeqnos + 1 /\ Age(fence[f].seqno) <= MaxSeqnos + 1
        BY <1>1, <1>2, <1>3, <2>1, <3>2, <3>3
      <4>2. QED
        BY <1>1, <4>1, PassedIs
    <3>5. QED
      BY <1>1, <1>2, <1>3, <2>1, <3>2, <3>3, <3>4
  <2>3. CASE ~ \E c \in Contexts : UpdateLocked(c)
    <3>1. CASE /\ Live(f) /\ fence'[f].seqno = fence[f].seqno
               /\ fence'[f].signaled = fence[f].signaled /\ fence'[f].forced = fence[f].forced
      BY <1>1, <1>2, <1>3, <2>1, <3>1
    <3>2. CASE /\ Live(f) /\ fence'[f].seqno = fence[f].seqno
               /\ fence'[f].signaled /\ fence'[f].forced
      BY <1>1, <1>2, <1>3, <2>1, <3>2
    <3>3. CASE \E t \in Threads : /\ CreateFence(t) /\ fence'[f].seqno = seqno[t]
                                  /\ ~fence'[f].signaled
      <4>1. PICK t \in Threads : /\ CreateFence(t) /\ fence'[f].seqno = seqno[t]
                                 /\ ~fence'[f].signaled
        BY <3>3
      <4>2. Age(seqno[t]) <= Age(marker_seq)
        BY <4>1 DEF CreateFence, IInv, Ages, Makes, In, Making
      <4>3. QED
        BY <1>1, <1>2, <1>3, <4>1, <4>2
    <3>4. QED
      BY <1>6, <2>3, <3>1, <3>2, <3>3, FenceSteps
  <2>4. QED
    BY <2>2, <2>3
<1>7. QED
  BY <1>4, <1>5, <1>6, ClockInv DEF Ages

-----------------------------------------------------------------------------
(* The order, when every submission holds cmdbuf_mutex. *)

\* The list loses fences or gets the one that was just created at its end.
LEMMA ListSteps ==
  ASSUME IInv, TypeOK', [Next]_vars
  PROVE  \/ Shorter(fence_list', fence_list)
         \/ \E t \in Threads : /\ CreateFence(t)
                               /\ \E f \in Fences : /\ fence_list' = Append(fence_list, f)
                                                    /\ fence[f].state = "free"
                                                    /\ fence'[f].seqno = seqno[t]
<1>1. fence_list \in Seq(Fences) /\ OnceEach(fence_list) /\ fence \in [Fences -> FenceRecord]
  BY DEF IInv, TypeOK, Lists
<1>2. Shorter(fence_list, fence_list)
  BY <1>1 DEF Shorter
<1>3. CASE fence_list' = fence_list
  BY <1>2, <1>3
<1>4. ASSUME NEW f, fence_list' = ListAfterUnreference(f) \/ fence_list' = Without(fence_list, f)
      PROVE  Shorter(fence_list', fence_list)
  BY <1>1, <1>2, <1>4, WithoutIs DEF ListAfterUnreference
<1>5. ASSUME NEW t \in Threads,
             \/ LookupFence(t) \/ AddToSignaled(t) \/ AddToUnsignaled(t) \/ CloseEvent(t)
             \/ DownNext(t)
      PROVE  fence_list' = fence_list
  BY <1>5 DEF LookupFence, AddToSignaled, AddToUnsignaled, CloseEvent, DownNext, manager
<1>6. ASSUME NEW t \in Threads, PutFence(t) \/ DownPut(t) \/ DownForce(t)
      PROVE  Shorter(fence_list', fence_list)
  BY <1>4, <1>6 DEF PutFence, DownPut, DownForce
<1>7. ASSUME NEW f \in Fences, DropHandle(f) PROVE Shorter(fence_list', fence_list)
  BY <1>4, <1>7 DEF DropHandle
<1>8. CASE WorkCleanup
  BY <1>4, <1>8 DEF WorkCleanup
<1>9. CASE WorkSplice
  BY <1>3, <1>9 DEF WorkSplice
<1>10. ASSUME NEW c \in Contexts, UpdateLocked(c) PROVE Shorter(fence_list', fence_list)
  <2>1. PICK n \in 0 .. Len(fence_list) : fence_list' = SubSeq(fence_list, n + 1, Len(fence_list))
    BY <1>10 DEF UpdateLocked
  <2> DEFINE T == SubSeq(fence_list, n + 1, Len(fence_list))
  <2>2. Shorter(T, fence_list)
    BY <1>1, TailIs
  <2> HIDE DEF T
  <2>3. fence_list' = T
    BY <2>1 DEF T
  <2>4. QED
    BY <2>2, <2>3
<1>11. ASSUME NEW t \in Threads, CreateFence(t)
       PROVE  \E f \in Fences : /\ fence_list' = Append(fence_list, f)
                                /\ fence[f].state = "free"
                                /\ fence'[f].seqno = seqno[t]
  BY <1>1, <1>11 DEF CreateFence
<1>12. CASE Quiet
  BY <1>3, <1>12 DEF Quiet
<1>13. QED
  BY <1>3, <1>5, <1>6, <1>7, <1>8, <1>9, <1>10, <1>11, <1>12, ObjectSteps DEF ObjectStep

\* Only a submission takes a number.
LEMMA MarkerSteps ==
  ASSUME [Next]_vars
  PROVE  marker_seq' = marker_seq \/ \E t \in Threads : SendFence(t)
<1> DEFINE Same == marker_seq' = marker_seq
<1> USE DEF Locals, device, private, manager, objects, control
<1>1. ASSUME NEW t \in Threads,
             \/ Query(t) \/ BeginWait(t) \/ BeginClose(t) \/ FifoDown(t)
             \/ Takedown(t) \/ UpdateSeqno(t) \/ CreateFails(t) \/ NoFence(t)
      PROVE  Same
  BY <1>1 DEF Query, BeginWait, BeginClose, FifoDown, Takedown, UpdateSeqno, CreateFails, NoFence
<1>2. ASSUME NEW t \in Threads,
             \/ GoalIrqOn(t) \/ AddDone(t) \/ WaiterAdd(t) \/ WaitNotNeeded(t) \/ WaitCheck(t)
             \/ WaitWoken(t) \/ WaitTimeout(t) \/ WaiterRemove(t) \/ EndClose(t)
      PROVE  Same
  BY <1>2 DEF GoalIrqOn, AddDone, WaiterAdd, WaitNotNeeded, WaitCheck, WaitWoken, WaitTimeout,
              WaiterRemove, EndClose
<1>3. ASSUME NEW t \in Threads,
             \/ LookupFence(t) \/ AddToSignaled(t) \/ AddToUnsignaled(t) \/ CreateFence(t)
             \/ PutFence(t) \/ CloseEvent(t) \/ DownNext(t) \/ DownForce(t) \/ DownPut(t)
      PROVE  Same
  BY <1>3 DEF LookupFence, AddToSignaled, AddToUnsignaled, CreateFence, PutFence, CloseEvent,
              DownNext, DownForce, DownPut
<1>4. ASSUME NEW c \in Contexts, ReadFence(c) \/ RereadFence(c) PROVE Same
  BY <1>4 DEF ReadFence, RereadFence
<1>5. ASSUME NEW c \in Contexts, UpdateLocked(c) PROVE Same
  BY <1>5 DEF UpdateLocked
<1>6. ASSUME NEW f \in Fences, DropHandle(f) PROVE Same
  BY <1>6 DEF DropHandle
<1>7. ASSUME Irq \/ Work PROVE Same
  <2>1. Irq => Same
    BY DEF Irq, IrqRead, IrqAck
  <2>2. WorkSplice => Same
    BY DEF WorkSplice
  <2>3. WorkGoalIrqOff => Same
    BY DEF WorkGoalIrqOff
  <2>4. WorkCleanup => Same
    BY DEF WorkCleanup
  <2>5. QED
    BY <1>7, <2>1, <2>2, <2>3, <2>4 DEF Work
<1>8. ASSUME DeviceFence \/ UNCHANGED vars PROVE Same
  BY <1>8 DEF DeviceFence, vars
<1>9. QED
  BY <1>1, <1>2, <1>3, <1>4, <1>5, <1>6, <1>7, <1>8 DEF Next, Call, Continue, Update

\* A fence that lives on keeps its number and its signal; a new one has the
\* number that its thread emitted last.
LEMMA FencesAge ==
  ASSUME IInv, TypeOK', [Next]_vars, NEW f \in Fences, Live(f)'
  PROVE  \/ /\ Live(f) /\ fence'[f].seqno = fence[f].seqno
            /\ fence[f].signaled => fence'[f].signaled
         \/ \E t \in Threads : /\ CreateFence(t) /\ fence'[f].seqno = seqno[t]
                               /\ ~fence'[f].signaled
<1>1. CASE \E c \in Contexts : UpdateLocked(c)
  BY <1>1, UpdateSignals
<1>2. CASE ~ \E c \in Contexts : UpdateLocked(c)
  BY <1>2, FenceSteps
<1>3. QED
  BY <1>1, <1>2

\* A live fence keeps its number as long as it lives.
LEMMA SeqnoStays ==
  ASSUME IInv, TypeOK', [Next]_vars, NEW f \in Fences, Live(f), Live(f)'
  PROVE  fence'[f].seqno = fence[f].seqno
<1>1. CASE ~ \E t \in Threads : CreateFence(t)
  BY <1>1, FencesAge
<1>2. ASSUME NEW t \in Threads, CreateFence(t) PROVE fence'[f].seqno = fence[f].seqno
  <2>1. PICK g \in Fences, handle \in BOOLEAN :
          /\ fence[g].state = "free"
          /\ fence' = [fence EXCEPT ![g] =
                     [state |-> "live", seqno |-> seqno[t], handle |-> handle,
                      refs |-> IF handle THEN 2 ELSE 1,
                      signaled |-> FALSE, forced |-> FALSE]]
    BY <1>2 DEF CreateFence
  <2>2. f # g
    BY <2>1 DEF Live
  <2>3. QED
    BY <2>1, <2>2 DEF IInv, TypeOK
<1>3. QED
  BY <1>1, <1>2

\* What the thread that creates a fence knows: it is the one with the last
\* number, and it no longer makes a fence when it has one.
LEMMA Creates ==
  ASSUME IInv, Sorted, NEW t \in Threads, CreateFence(t)
  PROVE  /\ Makes(t) /\ seqno[t] = marker_seq /\ cmdbuf_mutex = t
         /\ \A g \in Fences : Live(g) => Age(fence[g].seqno) < Age(marker_seq)
         /\ ~Makes(t)'
<1>1. Makes(t)
  BY DEF CreateFence, Makes, In, Making
<1>2. pc'[t] = "have"
  BY DEF CreateFence, Goto, IInv, TypeOK, Contexts
<1>3. ~Makes(t)'
  BY <1>2 DEF Makes, In, Making, Updating
<1>4. QED
  BY <1>1, <1>3 DEF Sorted

\* An update with a sorted list takes every fence along that is older than one
\* that has passed.
LEMMA UpdateInOrder ==
  ASSUME IInv, TypeOK', Sorted, NEW c \in Contexts, UpdateLocked(c),
         NEW f \in Fences, Live(f)', NEW s \in Seqnos, Age(s) <= MaxSeqnos + 1,
         Passed(seen[c], s), Age(fence[f].seqno) <= Age(s)
  PROVE  fence'[f].signaled
<1>1. PICK n \in 0 .. Len(fence_list) :
        /\ WalkEnds(seen[c], n)
        /\ fence' = [g \in Fences |->
              IF g \in {fence_list[k] : k \in 1 .. n}
                THEN [fence[g] EXCEPT !.signaled = TRUE] ELSE fence[g]]
  BY DEF UpdateLocked
<1>2. /\ fence \in [Fences -> FenceRecord] /\ fence[f] \in FenceRecord
      /\ fence_list \in Seq(Fences) /\ DOMAIN fence_list = 1 .. Len(fence_list)
      /\ Len(fence_list) \in Nat /\ seen[c] \in Seqnos
      /\ \A g \in Fences : fence[g].seqno \in Seqnos
      /\ \A r \in Seqnos : Age(r) \in Int
  <2>1. \A r \in Seqnos : Age(r) \in Int
    BY AgeIs, ConstantsAssumption
  <2>2. /\ fence \in [Fences -> FenceRecord] /\ seen[c] \in Seqnos
        /\ fence_list \in Seq(Fences)
    BY DEF IInv, TypeOK, UpdateLocked
  <2>3. \A g \in Fences : fence[g].seqno \in Seqnos
    BY <2>2 DEF FenceRecord
  <2>4. QED
    BY <2>1, <2>2, <2>3
<1>3. Live(f) /\ (fence[f].signaled => fence'[f].signaled)
  BY UpdateSignals
<1>4. SUFFICES ASSUME ~fence[f].signaled PROVE fence'[f].signaled
  BY <1>3
<1>5. PICK j \in DOMAIN fence_list : fence_list[j] = f
  BY <1>3, <1>4 DEF IInv, Lists, Listed, Has
<1>6. CASE j <= n
  <2>1. f \in {fence_list[k] : k \in 1 .. n}
    BY <1>2, <1>5, <1>6
  <2>2. fence'[f] = [fence[f] EXCEPT !.signaled = TRUE]
    BY <1>1, <2>1
  <2>3. QED
    BY <1>2, <2>2 DEF FenceRecord
<1>7. CASE j > n
  <2>1. n + 1 \in DOMAIN fence_list /\ n < Len(fence_list) /\ (n + 1 < j \/ n + 1 = j)
    BY <1>2, <1>5, <1>7
  <2> DEFINE h == fence_list[n + 1]
  <2>2. h \in Fences
    BY <1>2, <2>1
  <2>3. Live(h)
    BY <2>1, <2>2 DEF IInv, Lists, Listed, Has
  <2>4. ~Passed(seen[c], fence[h].seqno)
    BY <1>1, <2>1 DEF WalkEnds
  <2>5. Age(fence[h].seqno) <= Age(fence[f].seqno)
    <3>1. CASE n + 1 = j
      BY <1>2, <1>5, <3>1
    <3>2. CASE n + 1 < j
      <4>1. Age(fence[fence_list[n + 1]].seqno) < Age(fence[fence_list[j]].seqno)
        BY <2>1, <3>2 DEF Sorted
      <4>2. QED
        BY <1>2, <1>5, <2>2, <4>1
    <3>3. QED
      BY <2>1, <3>1, <3>2
  <2>6. /\ Age(fence[h].seqno) <= MaxSeqnos + 1 /\ Age(seen[c]) <= MaxSeqnos + 1
    <3>1. /\ Age(fence[h].seqno) <= Age(marker_seq) /\ Age(seen[c]) <= Age(FENCE)
          /\ Age(FENCE) <= Age(marker_seq) /\ Age(marker_seq) <= MaxSeqnos + 1
          /\ marker_seq \in Seqnos /\ FENCE \in Seqnos
      BY <2>2, <2>3 DEF UpdateLocked, IInv, Ages, TypeOK
    <3>2. QED
      BY <1>2, <2>2, <3>1, ConstantsAssumption
  <2> HIDE DEF h
  <2>7. /\ Age(s) <= Age(seen[c]) /\ ~(Age(fence[h].seqno) <= Age(seen[c]))
    BY <1>2, <2>2, <2>4, <2>6, PassedIs
  <2>8. QED
    BY <1>2, <2>2, <2>5, <2>7
<1>8. QED
  BY <1>2, <1>5, <1>6, <1>7

\* Submission, creation and signaling keep the order.
LEMMA SortedInv ==
  ASSUME IInv, TypeOK', [Next]_vars, Unserialized = {}, Sorted
  PROVE  Sorted'
<1>1. /\ marker_seq \in Seqnos /\ marker_seq' \in Seqnos
      /\ \A f \in Fences : fence[f].seqno \in Seqnos /\ fence'[f].seqno \in Seqnos
      /\ \A c \in Contexts : seen[c] \in Seqnos
      /\ fence_list \in Seq(Fences) /\ fence_list' \in Seq(Fences)
      /\ DOMAIN fence_list = 1 .. Len(fence_list) /\ Len(fence_list) \in Nat
      /\ DOMAIN fence_list' = 1 .. Len(fence_list')
      /\ \A i \in DOMAIN fence_list' : fence_list'[i] \in Fences
  BY DEF IInv, TypeOK, FenceRecord
<1>2. (\A s \in Seqnos : Age(s) \in Int) /\ MaxSeqnos \in Nat
  BY AgeIs, ConstantsAssumption
<1>3. ASSUME NEW f \in Fences, Live(f)
      PROVE  Age(fence[f].seqno) <= Age(marker_seq)
  BY <1>3 DEF IInv, Ages
<1>4. ASSUME NEW t \in Threads, SendFence(t)
      PROVE  /\ cmdbuf_mutex' = t /\ seqno'[t] = marker_seq'
             /\ Age(marker_seq) < Age(marker_seq')
             /\ \A u \in Threads : ~Makes(u)
             /\ fence' = fence
  <2>1. cmdbuf_mutex = NoOne /\ cmdbuf_mutex' = t /\ seqno'[t] = marker_seq' /\ fence' = fence
    BY <1>4 DEF SendFence, IInv, TypeOK, objects
  <2>2. Age(marker_seq) < Age(marker_seq')
    BY <1>1, <1>4, NextIs DEF SendFence, Age
  <2>3. \A u \in Threads : ~Makes(u)
    BY <2>1, ConstantsAssumption DEF Sorted
  <2>4. QED
    BY <2>1, <2>2, <2>3
<1>5. ASSUME NEW u \in Threads, Makes(u)'
      PROVE  /\ cmdbuf_mutex' = u /\ seqno'[u] = marker_seq'
             /\ \A f \in Fences : Live(f)' => Age(fence'[f].seqno) < Age(marker_seq')
  <2>1. CASE SendFence(u)
    BY <1>1, <1>2, <1>3, <1>4, <2>1 DEF Live
  <2>2. CASE ~SendFence(u)
    <3>1. Makes(u) /\ seqno'[u] = seqno[u] /\ (cmdbuf_mutex = u => cmdbuf_mutex' = u)
      BY <1>5, <2>2, MakesSteps
    <3>2. /\ cmdbuf_mutex = u /\ seqno[u] = marker_seq
          /\ \A f \in Fences : Live(f) => Age(fence[f].seqno) < Age(marker_seq)
      BY <3>1 DEF Sorted
    <3>3. marker_seq' = marker_seq
      BY <1>4, <3>1, MarkerSteps
    <3>4. ~ \E t \in Threads : CreateFence(t)
      BY <1>5, <3>2, Creates
    <3>5. ASSUME NEW f \in Fences, Live(f)' PROVE Age(fence'[f].seqno) < Age(marker_seq')
      <4>1. Live(f) /\ fence'[f].seqno = fence[f].seqno
        BY <3>4, <3>5, FencesAge
      <4>2. QED
        BY <3>2, <3>3, <4>1
    <3>6. QED
      BY <3>1, <3>2, <3>3, <3>5
  <2>3. QED
    BY <2>1, <2>2
<1>6. ASSUME NEW i \in DOMAIN fence_list, NEW j \in DOMAIN fence_list, i < j
      PROVE  Age(fence[fence_list[i]].seqno) < Age(fence[fence_list[j]].seqno)
  BY <1>6 DEF Sorted
<1>7. \A f \in Fences : Listed(f) => Live(f)
  BY DEF IInv, Lists
<1>8. \A f \in Fences : Listed(f)' => Live(f)'
  BY ListsInv DEF Lists
<1>9. ASSUME NEW i \in DOMAIN fence_list', NEW j \in DOMAIN fence_list', i < j
      PROVE  Age(fence'[fence_list'[i]].seqno) < Age(fence'[fence_list'[j]].seqno)
  <2>0. PICK f \in Fences, g \in Fences : f = fence_list'[i] /\ g = fence_list'[j]
    BY <1>1
  <2>1. Live(f)' /\ Live(g)'
    BY <1>8, <2>0 DEF Listed, Has
  <2>2. CASE Shorter(fence_list', fence_list)
    <3>1. PICK k, l \in DOMAIN fence_list : k < l /\ f = fence_list[k] /\ g = fence_list[l]
      BY <1>9, <2>0, <2>2 DEF Shorter
    <3>2. Live(f) /\ Live(g)
      BY <1>7, <2>1, <3>1 DEF Listed, Has
    <3>3. fence'[f].seqno = fence[f].seqno /\ fence'[g].seqno = fence[g].seqno
      BY <2>1, <3>2, SeqnoStays
    <3>4. QED
      BY <1>6, <2>0, <3>1, <3>3
  <2>3. CASE ~Shorter(fence_list', fence_list)
    <3>1. PICK t \in Threads, h \in Fences :
            /\ CreateFence(t) /\ fence_list' = Append(fence_list, h)
            /\ fence[h].state = "free" /\ fence'[h].seqno = seqno[t]
      BY <2>3, ListSteps
    <3>2. /\ seqno[t] = marker_seq
          /\ \A e \in Fences : Live(e) => Age(fence[e].seqno) < Age(marker_seq)
      BY <3>1, Creates
    <3>3. /\ DOMAIN fence_list' = 1 .. Len(fence_list) + 1
          /\ fence_list'[Len(fence_list) + 1] = h
          /\ \A k \in 1 .. Len(fence_list) : fence_list'[k] = fence_list[k]
      BY <1>1, <3>1
    <3>4. i \in DOMAIN fence_list /\ f = fence_list[i]
      BY <1>1, <1>9, <2>0, <3>3
    <3>5. Live(f) /\ fence'[f].seqno = fence[f].seqno
      <4>1. Live(f)
        BY <1>7, <2>1, <3>4 DEF Listed, Has
      <4>2. QED
        BY <2>1, <4>1, SeqnoStays
    <3>6. CASE j = Len(fence_list) + 1
      BY <2>0, <3>1, <3>2, <3>3, <3>5, <3>6
    <3>7. CASE j # Len(fence_list) + 1
      <4>1. j \in DOMAIN fence_list /\ g = fence_list[j]
        BY <1>1, <2>0, <3>3, <3>7
      <4>2. Live(g) /\ fence'[g].seqno = fence[g].seqno
        <5>1. Live(g)
          BY <1>7, <2>1, <4>1 DEF Listed, Has
        <5>2. QED
          BY <2>1, <5>1, SeqnoStays
      <4>3. QED
        BY <1>6, <1>9, <2>0, <3>4, <3>5, <4>1, <4>2
    <3>8. QED
      BY <3>6, <3>7
  <2>4. QED
    BY <2>2, <2>3
<1>10. ASSUME NEW f \in Fences, NEW g \in Fences, Live(f)', Live(g)', fence'[g].signaled,
              ~fence'[g].forced, Age(fence'[f].seqno) <= Age(fence'[g].seqno)
       PROVE  fence'[f].signaled
  <2>1. ASSUME Live(f), Live(g), fence[g].signaled, ~fence[g].forced,
               Age(fence[f].seqno) <= Age(fence[g].seqno)
        PROVE  fence[f].signaled
    BY <2>1 DEF Sorted
  <2>2. CASE \E c \in Contexts : UpdateLocked(c)
    <3>1. PICK c \in Contexts : UpdateLocked(c)
      BY <2>2
    <3>2. /\ Live(f) /\ fence'[f].seqno = fence[f].seqno
          /\ fence[f].signaled => fence'[f].signaled
      BY <1>10, <3>1, UpdateSignals
    <3>3. /\ Live(g) /\ fence'[g].seqno = fence[g].seqno /\ fence'[g].forced = fence[g].forced
          /\ fence[g].signaled \/ Passed(seen[c], fence[g].seqno)
      BY <1>10, <3>1, UpdateSignals
    <3>4. Age(fence[g].seqno) <= MaxSeqnos + 1
      BY <1>1, <1>2, <1>3, <3>3 DEF IInv, Ages
    <3>5. CASE fence[g].signaled
      BY <1>10, <2>1, <3>2, <3>3, <3>5
    <3>6. CASE Passed(seen[c], fence[g].seqno)
      BY <1>1, <1>10, <3>1, <3>2, <3>3, <3>4, <3>6, UpdateInOrder
    <3>7. QED
      BY <3>3, <3>5, <3>6
  <2>3. CASE ~ \E c \in Contexts : UpdateLocked(c)
    <3>1. /\ Live(g) /\ fence'[g].seqno = fence[g].seqno
          /\ fence[g].signaled /\ ~fence[g].forced
      BY <1>10, <2>3, FenceSteps
    <3>2. CASE /\ Live(f) /\ fence'[f].seqno = fence[f].seqno
               /\ fence[f].signaled => fence'[f].signaled
      BY <1>10, <2>1, <3>1, <3>2
    <3>3. CASE \E t \in Threads : CreateFence(t) /\ fence'[f].seqno = seqno[t]
      <4>1. Age(fence[g].seqno) < Age(marker_seq) /\ fence'[f].seqno = marker_seq
        BY <3>1, <3>3, Creates
      <4>2. QED
        BY <1>1, <1>2, <1>10, <3>1, <4>1
    <3>4. QED
      BY <1>10, <3>2, <3>3, FencesAge
  <2>4. QED
    BY <2>2, <2>3
<1>11. QED
  BY <1>5, <1>9, <1>10 DEF Sorted

\* The order of the submissions, if every one holds cmdbuf_mutex.
LEMMA SerializedInv ==
  ASSUME IInv, TypeOK', [Next]_vars
  PROVE  Serialized'
  BY SortedInv DEF IInv, Serialized

-----------------------------------------------------------------------------
(* The invariant. *)

\* Nothing has happened yet.
LEMMA InitInv ==
  ASSUME Init
  PROVE  IInv
<1>1. TypeOK
  <2>1. FreeFence \in FenceRecord /\ FreeAction \in ActionRecord
    BY ConstantsAssumption DEF FreeFence, FreeAction, FenceRecord, ActionRecord, Seqnos
  <2>2. <<>> \in Seq(Seqnos) /\ <<>> \in Seq(Fences)
    BY EmptySeq
  <2>3. FirstSeqno \in Seqnos /\ 0 \in Seqnos
    BY ConstantsAssumption DEF Seqnos
  <2>4. /\ "idle" \in Labels /\ {} \subseteq Interrupts /\ {} \subseteq Threads
        /\ [status |-> {}, masked |-> {}] \in [status : SUBSET Interrupts, masked : SUBSET Interrupts]
        /\ [pc |-> "idle", valid |-> FALSE]
             \in [pc : {"idle", "splice", "goalirq", "cleanup"}, valid : BOOLEAN]
    BY DEF Labels, Interrupts
  <2> HIDE DEF FenceRecord, ActionRecord, FreeFence, FreeAction
  <2>5. QED
    BY <2>1, <2>2, <2>3, <2>4 DEF Init, TypeOK
<1>2. \A c \in Contexts : pc[c] = "idle" /\ ret[c] = "idle"
  BY DEF Init
<1>3. /\ Contexts = Threads \cup {Isr} /\ NoOne \notin Threads /\ Worker # NoOne
      /\ \A t \in Threads : obj[t] = NoOne /\ pc[t] = "idle" /\ ret[t] = "idle"
  BY <1>2, ConstantsAssumption DEF Init, Contexts
<1>4. Control
  BY <1>2, <1>3 DEF Init, Control, Holds, Makes, In, Holding, Making, Updating, Contexts
<1>5. Waiters
  <2>1. Waits = {}
    BY <1>3 DEF Waits, In, Updating
  <2>2. QED
    BY <2>1, FS_EmptySet DEF Init, Waiters
<1>6. /\ \A f \in Fences : fence[f] = FreeFence
      /\ \A a \in Actions : action[a] = FreeAction
      /\ fence_list = <<>> /\ commands = <<>>
  BY DEF Init
<1>7. \A f \in Fences : ~Live(f) /\ ~Listed(f) /\ fence[f].refs = 0 /\ ~fence[f].handle
  BY <1>6 DEF Live, Listed, Has, FreeFence
<1>8. \A a \in Actions : /\ action[a].state = "free" /\ action[a].fence = NoOne
                         /\ action[a].event = "none"
  BY <1>6 DEF FreeAction
<1>9. Lists
  BY <1>6, <1>7, <1>8 DEF Lists, OnceEach, Placed
<1>10. Counted
  <2>1. ASSUME NEW f \in Fences PROVE Holders(f) = 0
    <3>1. Objs(f) = {} /\ Acts(f) = {}
      BY <1>3, <1>8, ConstantsAssumption DEF Objs, Acts
    <3>2. QED
      BY <1>7, <3>1, Countable
  <2>2. QED
    BY <1>7, <2>1 DEF Counted, RefsAreHolders
<1>11. Events
  BY <1>8 DEF Events
<1>12. Goal
  BY <1>8 DEF Init, Goal, GoalNamesAction
<1>13. Ages
  <2>1. Age(FirstSeqno) = 0
    BY AgeIs, ConstantsAssumption DEF Seqnos
  <2>2. MaxSeqnos \in Nat /\ FENCE = FirstSeqno /\ marker_seq = FirstSeqno
    BY ConstantsAssumption DEF Init
  <2>3. \A t \in Threads : ~Makes(t)
    BY <1>3 DEF Makes, In, Making, Updating
  <2>4. QED
    BY <1>2, <1>6, <1>7, <2>1, <2>2, <2>3 DEF Ages
<1>14. Serialized
  <2>1. \A t \in Threads : ~Makes(t)
    BY <1>3 DEF Makes, In, Making, Updating
  <2>2. QED
    BY <1>6, <1>7, <2>1 DEF Serialized, Sorted
<1>15. QED
  BY <1>1, <1>4, <1>5, <1>9, <1>10, <1>11, <1>12, <1>13, <1>14 DEF IInv

\* Every step keeps the invariant.
LEMMA StepInv ==
  ASSUME IInv, [Next]_vars
  PROVE  IInv'
<1>1. TypeOK'
  BY TypeInv
<1>2. Lists'
  BY <1>1, ListsInv
<1>3. Goal'
  <2>1. /\ goal_irq_on' <=> "FENCE_GOAL" \in irq_mask'
        /\ seqno_valid' => goal_irq_on' \/ Arming'
        /\ worker'.pc = "goalirq" /\ ~worker'.valid => ~seqno_valid'
    BY <1>1, GoalIrqInv
  <2>2. (Waited' => seqno_valid') /\ (~fifo_down' => Named')
    BY <1>1, <1>2, GoalListInv
  <2>3. QED
    BY <2>1, <2>2 DEF Goal, GoalNamesAction, Named, Waited, Arming
<1>4. QED
  BY <1>1, <1>2, <1>3, ControlInv, WaitersInv, CountedInv, EventsInv, AgesInv, SerializedInv
  DEF IInv

\* The inductive invariant holds in every reachable state, whatever threads do
\* and whoever submits without cmdbuf_mutex.
THEOREM Invariant == Spec => []IInv
<1>1. Init => IInv
  BY InitInv
<1>2. IInv /\ [Next]_vars => IInv'
  BY StepInv
<1>3. QED
  BY <1>1, <1>2, PTL DEF Spec

-----------------------------------------------------------------------------
(* What the runs check on small instances. *)

\* Every field of the manager, the fences, the actions and the threads stays in
\* its type; above all no reference counter and no waiter count goes below zero.
THEOREM TypeCorrect == Spec => []TypeOK
<1>1. IInv => TypeOK
  BY DEF IInv
<1>2. QED
  BY <1>1, Invariant, PTL

\* The kref of a fence is the number of its holders at any time, for any number
\* of threads, actions and handles, so that nobody uses a freed fence.
THEOREM ReferencesCounted == Spec => []RefsAreHolders
<1>1. IInv => RefsAreHolders
  BY DEF IInv, Counted
<1>2. QED
  BY <1>1, Invariant, PTL

\* Whoever attaches, performs or cleans up actions, as long as one waits the goal
\* is valid, its interrupt is on or about to be switched on, and it names a
\* fence of the list with an action.
THEOREM GoalIsWatched == Spec => []GoalWatchesAction
<1>1. IInv => GoalWatchesAction
  <2>1. ASSUME IInv PROVE GoalIrqArmed
    BY <2>1 DEF IInv, Goal, GoalIrqArmed
  <2>2. ASSUME IInv PROVE GoalNamesAction
    BY <2>2 DEF IInv, Goal
  <2>3. QED
    BY <2>1, <2>2 DEF GoalWatchesAction
<1>2. QED
  BY <1>1, Invariant, PTL

\* The numbers the comparison of the code sees lie within half a round, so that
\* it is the order of emission.
LEMMA AgesBound ==
  ASSUME IInv
  PROVE  /\ FENCE \in Seqnos /\ Age(FENCE) \in Int /\ Age(FENCE) <= MaxSeqnos + 1
         /\ \A f \in Fences : /\ fence[f].seqno \in Seqnos /\ Age(fence[f].seqno) \in Int
                              /\ Live(f) => Age(fence[f].seqno) <= MaxSeqnos + 1
         /\ \A c \in Contexts : /\ seen[c] \in Seqnos /\ Age(seen[c]) \in Int
                                /\ pc[c] = "update" => Age(seen[c]) <= MaxSeqnos + 1
<1>1. /\ FENCE \in Seqnos /\ marker_seq \in Seqnos /\ fence \in [Fences -> FenceRecord]
      /\ \A c \in Contexts : seen[c] \in Seqnos
  BY DEF IInv, TypeOK
<1>2. \A f \in Fences : fence[f].seqno \in Seqnos
  BY <1>1 DEF FenceRecord
<1>3. (\A s \in Seqnos : Age(s) \in Int) /\ MaxSeqnos \in Nat
  BY AgeIs, ConstantsAssumption
<1>4. /\ Age(marker_seq) <= MaxSeqnos + 1 /\ Age(FENCE) <= Age(marker_seq)
      /\ \A c \in Contexts : pc[c] = "update" => Age(seen[c]) <= Age(FENCE)
      /\ \A f \in Fences : Live(f) => Age(fence[f].seqno) <= Age(marker_seq)
  BY DEF IInv, Ages
<1>5. QED
  BY <1>1, <1>2, <1>3, <1>4

\* No fence signals before the device has passed its command, whatever the
\* register value an update works with, unless vmw_fence_fifo_down forced it.
THEOREM SignaledAfterDevice == Spec => []SignaledHasPassed
<1>1. ASSUME IInv, NEW f \in Fences, Live(f), fence[f].signaled, ~fence[f].forced
      PROVE  Passed(FENCE, fence[f].seqno)
  <2>1. Age(fence[f].seqno) <= Age(FENCE)
    BY <1>1 DEF IInv, Ages
  <2>2. QED
    BY <1>1, <2>1, AgesBound, PassedIs
<1>2. IInv => SignaledHasPassed
  BY <1>1 DEF SignaledHasPassed
<1>3. QED
  BY <1>2, Invariant, PTL

\* If every submission holds cmdbuf_mutex, fences signal in the order of their
\* numbers.
THEOREM SignaledByAge ==
  ASSUME Unserialized = {}
  PROVE  Spec => []SignaledInOrder
<1>1. ASSUME IInv, NEW f \in Fences, NEW g \in Fences, Live(f), Live(g), fence[g].signaled,
             ~fence[g].forced, Passed(fence[g].seqno, fence[f].seqno)
      PROVE  fence[f].signaled
  <2>1. Age(fence[f].seqno) <= Age(fence[g].seqno)
    BY <1>1, AgesBound, PassedIs
  <2>2. QED
    BY <1>1, <2>1 DEF IInv, Serialized, Sorted
<1>2. IInv => SignaledInOrder
  BY <1>1 DEF SignaledInOrder
<1>3. QED
  BY <1>2, Invariant, PTL

\* An event is sent at most once, after its fence has signaled and before its
\* file is gone, in whatever order updates and closes run.
THEOREM EventsSent == Spec => EventsSentProperly
<1> DEFINE Sends ==
      \A a \in Actions :
        action'[a].event # action[a].event =>
          /\ action[a].event \in {"none", "pending"}
          /\ action'[a].event = "sent" =>
               fence'[action'[a].fence].signaled /\ ~FileGone(action'[a].file)
<1>1. IInv /\ [Next]_vars => Sends
  <2>1. SUFFICES ASSUME IInv, [Next]_vars, NEW a \in Actions,
                        action'[a].event # action[a].event
                 PROVE  /\ action[a].event \in {"none", "pending"}
                        /\ action'[a].event = "sent" =>
                             fence'[action'[a].fence].signaled /\ ~FileGone(action'[a].file)
    OBVIOUS
  <2>2. QED
    BY <2>1, EventsStep, TypeInv
<1>2. IInv /\ [Next]_vars => [Sends]_vars
  BY <1>1
<1>3. QED
  BY <1>2, Invariant, PTL DEF Spec, EventsSentProperly

\* What an update used has changed only where it has taken its critical section.
LEMMA UpdateEnds ==
  ASSUME IInv, [Next]_vars, NEW c \in Contexts, pc[c] = "update", pc'[c] # "update"
  PROVE  UpdateLocked(c)
<1> DEFINE Kept == UpdateLocked(c) \/ pc'[c] = pc[c]
<1>0. /\ pc \in [Contexts -> Labels]
      /\ \A t \in Threads : t \in Contexts
      /\ Isr \in Contexts
  BY DEF IInv, TypeOK, Contexts
<1> USE <1>0 DEF Goto, Locals, device, private, manager, objects, control, Return
<1>1. ASSUME NEW t \in Threads,
             \/ SendFence(t) \/ Query(t) \/ BeginWait(t) \/ BeginClose(t) \/ FifoDown(t)
             \/ Takedown(t) \/ CreateFails(t) \/ NoFence(t)
      PROVE  Kept
  BY <1>1 DEF SendFence, Query, BeginWait, BeginClose, FifoDown, Takedown, CreateFails, NoFence
<1>2. ASSUME NEW t \in Threads,
             \/ GoalIrqOn(t) \/ AddDone(t) \/ WaiterAdd(t) \/ WaitNotNeeded(t) \/ WaitCheck(t)
             \/ WaitWoken(t) \/ WaitTimeout(t) \/ WaiterRemove(t) \/ EndClose(t)
      PROVE  Kept
  BY <1>2 DEF GoalIrqOn, AddDone, WaiterAdd, WaitNotNeeded, WaitCheck, WaitWoken, WaitTimeout,
              WaiterRemove, EndClose
<1>3. ASSUME NEW t \in Threads,
             \/ LookupFence(t) \/ CreateFence(t) \/ PutFence(t) \/ CloseEvent(t)
             \/ DownForce(t) \/ DownPut(t)
      PROVE  Kept
  BY <1>3 DEF LookupFence, CreateFence, PutFence, CloseEvent, DownForce, DownPut
<1>4. ASSUME NEW t \in Threads, AddToSignaled(t) \/ AddToUnsignaled(t) PROVE Kept
  BY <1>4 DEF AddToSignaled, AddToUnsignaled, NewAction
<1>5. ASSUME NEW t \in Threads, DownNext(t) PROVE Kept
  BY <1>5 DEF DownNext
<1>6. ASSUME NEW t \in Threads, UpdateSeqno(t) PROVE Kept
  BY <1>6 DEF UpdateSeqno
<1>7. ASSUME NEW d \in Contexts, ReadFence(d) PROVE Kept
  BY <1>7 DEF ReadFence
<1>8. ASSUME NEW d \in Contexts, RereadFence(d) PROVE Kept
  BY <1>8 DEF RereadFence
<1>9. ASSUME NEW d \in Contexts, UpdateLocked(d) PROVE Kept
  <2>1. \/ pc' = [pc EXCEPT ![d] = "reread"]
        \/ pc' = [pc EXCEPT ![d] = ret[d]]
    BY <1>9 DEF UpdateLocked
  <2>2. QED
    BY <1>9, <2>1
<1>10. ASSUME NEW f \in Fences, DropHandle(f) PROVE Kept
  BY <1>10 DEF DropHandle
<1>11. ASSUME IrqRead \/ IrqAck PROVE Kept
  BY <1>11 DEF IrqRead, IrqAck
<1>12. ASSUME WorkSplice \/ WorkGoalIrqOff PROVE Kept
  BY <1>12 DEF WorkSplice, WorkGoalIrqOff
<1>13. ASSUME WorkCleanup PROVE Kept
  BY <1>13 DEF WorkCleanup
<1>14. ASSUME DeviceFence \/ UNCHANGED vars PROVE Kept
  BY <1>14 DEF DeviceFence, vars
<1>15. Kept
  BY <1>1, <1>2, <1>3, <1>4, <1>5, <1>6, <1>7, <1>8, <1>9, <1>10, <1>11, <1>12, <1>13, <1>14
  DEF Next, Call, Continue, Update, Irq, Work
<1>16. QED
  BY <1>15

\* An update leaves no action behind whose fence has passed in the value it
\* used: the fences after the one at which it stops are younger.
LEMMA UpdateLeaves ==
  ASSUME IInv, TypeOK', Sorted, NEW c \in Contexts, UpdateLocked(c),
         NEW a \in Actions, action'[a].state = "attached"
  PROVE  ~Passed(seen[c], fence[action[a].fence].seqno)
<1>1. PICK n \in 0 .. Len(fence_list) :
        /\ WalkEnds(seen[c], n)
        /\ fence_list' = SubSeq(fence_list, n + 1, Len(fence_list))
        /\ fence' = [g \in Fences |->
              IF g \in {fence_list[k] : k \in 1 .. n}
                THEN [fence[g] EXCEPT !.signaled = TRUE] ELSE fence[g]]
        /\ action' = Perform({fence_list[k] : k \in 1 .. n})
  BY DEF UpdateLocked
<1>2. PICK i \in n + 1 .. Len(fence_list) : fence_list[i] = action[a].fence
  BY <1>1, UpdateKeeps
<1>3. /\ fence_list \in Seq(Fences) /\ DOMAIN fence_list = 1 .. Len(fence_list)
      /\ Len(fence_list) \in Nat /\ n \in Nat
  BY DEF IInv, TypeOK
<1>4. /\ n + 1 \in DOMAIN fence_list /\ i \in DOMAIN fence_list /\ n < Len(fence_list)
      /\ n + 1 = i \/ n + 1 < i
  BY <1>2, <1>3
<1>5. PICK f \in Fences, h \in Fences : f = fence_list[i] /\ h = fence_list[n + 1]
  BY <1>3, <1>4
<1>6. Live(f) /\ Live(h)
  BY <1>4, <1>5 DEF IInv, Lists, Listed, Has
<1>7. ~Passed(seen[c], fence[h].seqno)
  BY <1>1, <1>4, <1>5 DEF WalkEnds
<1>8. /\ Age(fence[f].seqno) \in Int /\ Age(fence[h].seqno) \in Int /\ Age(seen[c]) \in Int
      /\ fence[f].seqno \in Seqnos /\ fence[h].seqno \in Seqnos /\ seen[c] \in Seqnos
      /\ Age(fence[f].seqno) <= MaxSeqnos + 1 /\ Age(fence[h].seqno) <= MaxSeqnos + 1
      /\ Age(seen[c]) <= MaxSeqnos + 1
  BY <1>6, AgesBound DEF UpdateLocked
<1>9. Age(fence[h].seqno) <= Age(fence[f].seqno)
  <2>1. CASE n + 1 = i
    BY <1>5, <1>8, <2>1
  <2>2. CASE n + 1 < i
    BY <1>4, <1>5, <1>8, <2>2 DEF Sorted
  <2>3. QED
    BY <1>4, <2>1, <2>2
<1>10. /\ ~(Age(fence[h].seqno) <= Age(seen[c]))
       /\ Passed(seen[c], fence[f].seqno) <=> Age(fence[f].seqno) <= Age(seen[c])
  BY <1>7, <1>8, PassedIs
<1>11. QED
  BY <1>2, <1>5, <1>8, <1>9, <1>10

\* With cmdbuf_mutex around every submission no update leaves an action behind
\* whose fence had passed in the register value it used.
THEOREM PassedArePerformed ==
  ASSUME Unserialized = {}
  PROVE  Spec => UpdatePerformsPassed
<1> DEFINE Leaves ==
      \A c \in Contexts : pc[c] = "update" /\ pc'[c] # "update" =>
        \A a \in Actions : action'[a].state = "attached" =>
          ~Passed(seen[c], fence[action[a].fence].seqno)
<1>1. IInv /\ [Next]_vars => Leaves
  <2>1. SUFFICES ASSUME IInv, [Next]_vars, NEW c \in Contexts,
                        pc[c] = "update", pc'[c] # "update",
                        NEW a \in Actions, action'[a].state = "attached"
                 PROVE  ~Passed(seen[c], fence[action[a].fence].seqno)
    OBVIOUS
  <2>2. UpdateLocked(c)
    BY <2>1, UpdateEnds
  <2>3. Sorted
    BY <2>1 DEF IInv, Serialized
  <2>4. QED
    BY <2>1, <2>2, <2>3, TypeInv, UpdateLeaves
<1>2. IInv /\ [Next]_vars => [Leaves]_vars
  BY <1>1
<1>3. QED
  BY <1>2, Invariant, PTL DEF Spec, UpdatePerformsPassed
=============================================================================
