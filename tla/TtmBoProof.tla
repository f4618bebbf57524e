----------------------------- MODULE TtmBoProof -----------------------------
(***************************************************************************)
(* Proofs about TtmBo for any finite number of buffers and threads, any    *)
(* lists without duplicates, any number of ids.                            *)
(*                                                                         *)
(* The counters are right only if whoever unreserves a buffer has reserved *)
(* it and puts it back on lists it is not on (Reservation); that a helper  *)
(* never works on a buffer that somebody else has destroyed or could still *)
(* use is a matter of the stages of a buffer's life (Life).                *)
(***************************************************************************)
EXTENDS TtmBo, FiniteSetTheorems, SequenceTheorems, TLAPS

Helping == {"objput", "memtype", "cleanwait", "cleanreserve", "evicting", "swapping"}
Locking == {"retry", "scan", "busywait", "againwait", "cpuwait"}
Submitting == {"validate", "backoff", "evict"}
Grabbing == {"grab", "grabwait", "cpu"}

\* Where a thread is, with the place that helping with a buffer returns to.
In(r, S) == r.pc \in S \/ (r.pc \in Helping \cup {"release"} /\ r.ret \in S)

\* A thread at label l works on buffer b.
At(r, S, b) == r.pc \in S /\ r.obj = b

Reserved(r) == SubSeq(r.list, 1, r.pos - 1)

\* What a place in the code says about the thread t, in state r, that is there,
\* and about the holder l of lru_lock.
Controlled(t, r, l) ==
  /\ IsInjective(r.list) /\ r.pos \in 1 .. Len(r.list) + 1
  /\ \A b \in r.removed : On(Reserved(r), b)
  /\ r.pc \in Helping \cup {"release"} =>
       r.obj \in Buffers /\ r.ret \in {"idle", "unref", "wqnext"} \cup Submitting
  /\ r.pc \in {"cleanwait", "cleanreserve"} => r.ret \in {"idle", "validate", "wqnext"}
  /\ r.pc = "evicting" => r.ret = "validate"
  /\ r.pc \in {"evicting", "swapping"} => ~On(Reserved(r), r.obj)
  /\ In(r, Submitting) => r.pos = Len(r.list) + 1
  /\ In(r, {"idle", "wqnext", "unref"} \cup Grabbing) => r.pos = 1
  /\ In(r, {"idle", "wqnext"}) => r.list = <<>>
  /\ r.pc \in Grabbing => r.obj \in Buffers /\ r.list = <<r.obj>>
  /\ In(r, {"wqnext"}) => t = Worker
  /\ r.next # NoOne => t = Worker /\ In(r, {"wqnext"})
  /\ In(r, Locking \cup Submitting) => t \in Validators
  /\ r.pc = "scan" <=> l = t

Control == \A t \in Threads : Controlled(t, th[t], lru_lock)

\* The references of users, and the CPU writers.
Users(b) == {t \in Threads : On(th[t].list, b)}
Writers(b) == {t \in Threads : At(th[t], {"cpu"}, b)}
Counted(b) ==
  /\ bo[b].kref = Cardinality(Users(b)) + (IF bo[b].handle THEN 1 ELSE 0)
  /\ bo[b].cpu_writers = Cardinality(Writers(b))

\* The life of a buffer: it is used; its last user releases it; it is queued;
\* somebody destroys it.
Releasing(b) == \E t \in Threads : At(th[t], {"release"}, b)
Present(b) == bo[b].kref > 0 \/ Releasing(b) \/ On(ddestroy, b)
Life(b) ==
  /\ \A t, u \in Threads : At(th[t], {"release"}, b) /\ At(th[u], {"release"}, b) => t = u
  /\ Releasing(b) => bo[b].kref = 0 /\ ~On(ddestroy, b)
  /\ On(ddestroy, b) => bo[b].kref = 0
  /\ \A t \in Threads :
       /\ At(th[t], {"memtype"}, b) => ~Present(b)
       /\ At(th[t], {"evicting", "swapping"}, b) => Present(b)
       /\ At(th[t], {"cleanwait", "cleanreserve"}, b) \/ th[t].next = b =>
            bo[b].kref = 0 /\ ~Releasing(b)
       /\ At(th[t], {"cleanreserve"}, b) => bo[b].sync = "none"
  /\ OnLru(b) => Present(b)
  /\ Present(b) => bo[b].mem # "none"
  /\ ~Present(b) => bo[b].sync = "none"
  /\ ~Present(b) => bo[b].mem = "none" \/ \E t \in Threads : At(th[t], {"memtype"}, b)

\* Who holds the reservation of a buffer, and what it keeps away.
Holds(r, b) ==
  \/ At(r, {"evicting", "swapping", "memtype", "grabwait"}, b)
  \/ On(Reserved(r), b)
Reservation(b) ==
  /\ \A t \in Threads : Holds(th[t], b) => bo[b].reserved = t
  /\ bo[b].reserved # NoOne /\ Present(b) => Holds(th[bo[b].reserved], b)
  /\ \A t \in Threads : On(Reserved(th[t]), b) => bo[b].cpu_writers = 0
  /\ bo[b].reserved # NoOne /\ OnLru(b) =>
       /\ th[bo[b].reserved].pc = "scan" /\ On(Reserved(th[bo[b].reserved]), b)
       /\ b \notin th[bo[b].reserved].removed

\* list_kref.
Pointed(b) ==
  /\ bo[b].list_kref = Pointers(b)
  /\ bo[b].freed <=> bo[b].list_kref = 0

Sound(b) == Counted(b) /\ Life(b) /\ Reservation(b) /\ Pointed(b)

IInv == TypeOK /\ Control /\ \A b \in Buffers : Sound(b)

-----------------------------------------------------------------------------
(* Counting. *)

\* One thread more or less in a set.
LEMMA Counting ==
  ASSUME NEW A \in SUBSET Threads, NEW B \in SUBSET Threads, NEW t \in Threads,
         \A u \in Threads \ {t} : u \in A <=> u \in B
  PROVE  /\ Cardinality(A) \in Nat /\ Cardinality(B) \in Nat
         /\ Cardinality(B) = Cardinality(A) + (IF t \in B THEN 1 ELSE 0)
                               - (IF t \in A THEN 1 ELSE 0)
         /\ t \in A => Cardinality(A) > 0
<1>1. IsFiniteSet(A) /\ IsFiniteSet(B)
  BY BoAssumption, FS_Subset
<1>2. A \ {t} = B \ {t}
  OBVIOUS
<1>3. /\ Cardinality(A \ {t}) = IF t \in A THEN Cardinality(A) - 1 ELSE Cardinality(A)
      /\ Cardinality(B \ {t}) = IF t \in B THEN Cardinality(B) - 1 ELSE Cardinality(B)
  BY <1>1, FS_RemoveElement
<1>4. /\ Cardinality(A) \in Nat /\ Cardinality(B) \in Nat
      /\ IsFiniteSet(A \ {t}) /\ Cardinality(A \ {t}) \in Nat
  BY <1>1, FS_RemoveElement, FS_CardinalityType
<1>5. QED
  BY <1>2, <1>3, <1>4

-----------------------------------------------------------------------------
(* Sequences. *)

\* Where an element of a list is, and what it is.
LEMMA OnIs ==
  ASSUME NEW s \in Seq(Buffers), NEW b
  PROVE  /\ On(s, b) <=> \E i \in 1 .. Len(s) : s[i] = b
         /\ On(s, b) => b \in Buffers
  BY DEF On

\* The list of one buffer.
LEMMA SingletonIs ==
  ASSUME NEW o \in Buffers
  PROVE  <<o>> \in Seq(Buffers) /\ IsInjective(<<o>>) /\ \A b : On(<<o>>, b) <=> b = o
<1>1. <<o>> \in Seq(Buffers) /\ DOMAIN <<o>> = {1} /\ <<o>>[1] = o
  OBVIOUS
<1>2. IsInjective(<<o>>)
  BY <1>1 DEF IsInjective
<1>3. QED
  BY <1>1, <1>2 DEF On

\* Kept keeps what it says.
LEMMA KeptIs ==
  ASSUME NEW s \in Seq(Buffers), NEW S
  PROVE  /\ Kept(s, S) \in Seq(Buffers)
         /\ \A b \in Buffers : On(Kept(s, S), b) <=> On(s, b) /\ b \in S
<1> DEFINE P == {i \in DOMAIN s : s[i] \in S}
           Rank(i) == Cardinality({j \in P : j <= i})
           Place(k) == CHOOSE i \in P : Rank(i) = k
           n == Cardinality(P)
           rank == [i \in P |-> Rank(i)]
<1>1. P \subseteq 1 .. Len(s) /\ IsFiniteSet(P) /\ n \in Nat
  <2>1. P \in SUBSET (1 .. Len(s)) /\ Len(s) \in Nat
    BY LenProperties
  <2>2. IsFiniteSet(P)
    BY <2>1, FS_Interval, FS_Subset
  <2>3. QED
    BY <2>1, <2>2, FS_CardinalityType
<1>2. ASSUME NEW i \in P PROVE Rank(i) \in 1 .. n
  <2>1. {j \in P : j <= i} \in SUBSET P /\ i \in {j \in P : j <= i}
    BY <1>1
  <2>2. /\ IsFiniteSet({j \in P : j <= i}) /\ Rank(i) \in Nat /\ Rank(i) <= n
        /\ Rank(i) # 0
    BY <1>1, <2>1, FS_Subset, FS_CardinalityType, FS_EmptySet
  <2>3. QED
    BY <1>1, <2>2
<1>3. ASSUME NEW i \in P, NEW k \in P, i < k PROVE Rank(i) < Rank(k)
  <2>1. {j \in P : j <= i} \in SUBSET {j \in P : j <= k}
    BY <1>1, <1>3
  <2>2. k \in {j \in P : j <= k} /\ k \notin {j \in P : j <= i}
    BY <1>1, <1>3
  <2>3. IsFiniteSet({j \in P : j <= k})
    BY <1>1, FS_Subset
  <2>4. Rank(i) <= Rank(k) /\ Rank(i) # Rank(k)
    BY <2>1, <2>2, <2>3, FS_Subset
  <2> HIDE DEF Rank, n, P
  <2>5. Rank(i) \in Nat /\ Rank(k) \in Nat
    BY <1>1, <1>2
  <2>6. QED
    BY ONLY <2>4, <2>5
<1>4. \A i, k \in P : Rank(i) = Rank(k) => i = k
  <2>1. SUFFICES ASSUME NEW i \in P, NEW k \in P, Rank(i) = Rank(k), i # k PROVE FALSE
    OBVIOUS
  <2>2. i < k \/ k < i
    BY <1>1, <2>1
  <2>3. Rank(i) < Rank(k) \/ Rank(k) < Rank(i)
    BY <1>3, <2>2
  <2> HIDE DEF Rank, n, P
  <2>4. Rank(i) \in Nat /\ Rank(k) \in Nat
    BY <1>1, <1>2
  <2>5. QED
    BY ONLY <2>1, <2>3, <2>4
<1>5. rank \in Injection(P, 1 .. n)
  <2> HIDE DEF Rank, n, P
  <2>1. rank \in [P -> 1 .. n]
    BY <1>2
  <2>2. \A i, k \in P : rank[i] = rank[k] => i = k
    BY <1>4
  <2>3. QED
    BY <2>1, <2>2 DEF Injection, IsInjective
<1>6. \A k \in 1 .. n : \E i \in P : Rank(i) = k
  <2>1. IsFiniteSet(1 .. n) /\ Cardinality(1 .. n) = n
    BY <1>1, FS_Interval
  <2>2. rank \in Surjection(P, 1 .. n)
    BY <1>5, <2>1, FS_Injection
  <2> HIDE DEF Rank, n, P
  <2>3. QED
    BY <2>2 DEF Surjection
<1>7. \A k \in 1 .. n : Place(k) \in P /\ Rank(Place(k)) = k
  <2> HIDE DEF Rank, n, P
  <2>1. QED
    BY <1>6
<1>8. Kept(s, S) = [k \in 1 .. n |-> s[Place(k)]]
  BY DEF Kept
<1>9. \A i \in P : s[i] \in Buffers /\ s[i] \in S /\ i \in DOMAIN s
  BY <1>1, ElementOfSeq
<1>10. Kept(s, S) \in Seq(Buffers)
  <2> HIDE DEF Rank, n, P, Place
  <2>1. \A k \in 1 .. n : s[Place(k)] \in Buffers
    BY <1>7, <1>9
  <2>2. QED
    BY <1>1, <1>8, <2>1, IsASeq
<1>11. ASSUME NEW b \in Buffers, On(s, b), b \in S PROVE On(Kept(s, S), b)
  <2>1. PICK i \in P : s[i] = b
    BY <1>11 DEF On
  <2>2. Rank(i) \in 1 .. n /\ Place(Rank(i)) = i
    <3> HIDE DEF Rank, n, P, Place
    <3>1. Rank(i) \in 1 .. n
      BY <1>2
    <3>2. QED
      BY <1>4, <1>7, <3>1
  <2> HIDE DEF Rank, n, P, Place
  <2>3. QED
    BY <1>8, <2>1, <2>2 DEF On
<1>12. ASSUME NEW b \in Buffers, On(Kept(s, S), b) PROVE On(s, b) /\ b \in S
  <2> HIDE DEF Rank, n, P, Place
  <2>1. PICK k \in 1 .. n : s[Place(k)] = b
    BY <1>8, <1>12 DEF On
  <2>2. QED
    BY <1>7, <1>9, <2>1 DEF On
<1>13. QED
  BY <1>10, <1>11, <1>12

\* A concatenation has what its parts have.
LEMMA OnConcat ==
  ASSUME NEW s \in Seq(Buffers), NEW q \in Seq(Buffers), NEW b
  PROVE  s \o q \in Seq(Buffers) /\ (On(s \o q, b) <=> On(s, b) \/ On(q, b))
<1>1. /\ s \o q \in Seq(Buffers) /\ Len(s \o q) = Len(s) + Len(q)
      /\ Len(s) \in Nat /\ Len(q) \in Nat
      /\ \A i \in 1 .. Len(s) + Len(q) : (s \o q)[i] =
              IF i <= Len(s) THEN s[i] ELSE q[i - Len(s)]
  BY ConcatProperties, LenProperties
<1>2. ASSUME NEW i \in 1 .. Len(s), s[i] = b PROVE On(s \o q, b)
  <2>1. i \in 1 .. Len(s \o q) /\ (s \o q)[i] = b
    BY <1>1, <1>2
  <2>2. QED
    BY <1>1, <2>1, OnIs
<1>3. ASSUME NEW i \in 1 .. Len(q), q[i] = b PROVE On(s \o q, b)
  <2>1. Len(s) + i \in 1 .. Len(s \o q) /\ (s \o q)[Len(s) + i] = b
    BY <1>1, <1>3
  <2>2. QED
    BY <1>1, <2>1, OnIs
<1>4. ASSUME NEW i \in 1 .. Len(s \o q), (s \o q)[i] = b PROVE On(s, b) \/ On(q, b)
  <2>1. CASE i <= Len(s)
    <3>1. i \in 1 .. Len(s) /\ s[i] = b
      BY <1>1, <1>4, <2>1
    <3>2. QED
      BY <3>1, OnIs
  <2>2. CASE i > Len(s)
    <3>1. i - Len(s) \in 1 .. Len(q) /\ q[i - Len(s)] = b
      BY <1>1, <1>4, <2>2
    <3>2. QED
      BY <3>1, OnIs
  <2>3. QED
    BY <1>1, <2>1, <2>2
<1>5. QED
  BY <1>1, <1>2, <1>3, <1>4, OnIs

-----------------------------------------------------------------------------
(* The lru lists. *)

Queues == {"system", "gmr", "swap"}
LruType == lru \in [Queues -> Seq(Buffers)]

\* The lists of l a buffer is on, counted.
Links(l, b) == Cardinality({m \in DOMAIN l : On(l[m], b)})

\* The count, list by list.
LEMMA LinksIs ==
  ASSUME NEW l \in [Queues -> Seq(Buffers)], NEW b
  PROVE  Links(l, b) = (IF On(l["system"], b) THEN 1 ELSE 0)
                       + (IF On(l["gmr"], b) THEN 1 ELSE 0)
                       + (IF On(l["swap"], b) THEN 1 ELSE 0)
<1> DEFINE A == IF On(l["system"], b) THEN {"system"} ELSE {}
           B == IF On(l["gmr"], b) THEN A \cup {"gmr"} ELSE A
           C == IF On(l["swap"], b) THEN B \cup {"swap"} ELSE B
<1>1. {m \in DOMAIN l : On(l[m], b)} = C
  BY DEF Queues
<1>2. IsFiniteSet(A) /\ Cardinality(A) = (IF On(l["system"], b) THEN 1 ELSE 0)
  BY FS_EmptySet, FS_Singleton
<1>3. /\ IsFiniteSet(B)
      /\ Cardinality(B) = Cardinality(A) + (IF On(l["gmr"], b) THEN 1 ELSE 0)
  <2>1. /\ IsFiniteSet(A \cup {"gmr"}) /\ "gmr" \notin A
        /\ Cardinality(A \cup {"gmr"}) = Cardinality(A) + 1
    BY <1>2, FS_AddElement
  <2>2. Cardinality(A) \in Nat
    BY <1>2
  <2> HIDE DEF A
  <2>3. QED
    BY <1>2, <2>1, <2>2
<1>4. Cardinality(C) = Cardinality(B) + (IF On(l["swap"], b) THEN 1 ELSE 0)
  <2>1. "swap" \notin B
    OBVIOUS
  <2>2. Cardinality(B) \in Nat
    BY <1>2, <1>3
  <2> HIDE DEF B
  <2>3. Cardinality(B \cup {"swap"}) = Cardinality(B) + 1
    BY <1>3, <2>1, FS_AddElement
  <2>4. QED
    BY <2>2, <2>3
<1>5. Links(l, b) = Cardinality(C)
  BY <1>1 DEF Links
<1> HIDE DEF A, B, C
<1>6. QED
  BY <1>2, <1>3, <1>4, <1>5

\* For the lists as they are, and as they are after a step.
LEMMA LinkedIs ==
  ASSUME LruType, NEW b
  PROVE  /\ Linked(b) = (IF On(lru["system"], b) THEN 1 ELSE 0)
                        + (IF On(lru["gmr"], b) THEN 1 ELSE 0)
                        + (IF On(lru["swap"], b) THEN 1 ELSE 0)
         /\ OnLru(b) <=> On(lru["system"], b) \/ On(lru["gmr"], b) \/ On(lru["swap"], b)
  BY LinksIs DEF Linked, Links, OnLru, LruType, Queues

\* The same after the step.
LEMMA LinkedIsAfter ==
  ASSUME LruType', NEW b
  PROVE  /\ Linked(b)' = (IF On(lru'["system"], b) THEN 1 ELSE 0)
                         + (IF On(lru'["gmr"], b) THEN 1 ELSE 0)
                         + (IF On(lru'["swap"], b) THEN 1 ELSE 0)
         /\ OnLru(b)' <=> On(lru'["system"], b) \/ On(lru'["gmr"], b) \/ On(lru'["swap"], b)
  BY LinksIs DEF Linked, Links, OnLru, LruType, Queues

\* ttm_bo_del_from_lru takes the buffers of S off every list and nothing else.
LEMMA DelFromLruIs ==
  ASSUME LruType, NEW S
  PROVE  /\ DelFromLru(S) \in [Queues -> Seq(Buffers)]
         /\ \A m \in Queues, b \in Buffers :
              On(DelFromLru(S)[m], b) <=> On(lru[m], b) /\ b \notin S
<1>1. \A m \in Queues : lru[m] \in Seq(Buffers)
  BY DEF LruType
<1>2. DelFromLru(S) = [m \in Queues |-> Kept(lru[m], Buffers \ S)]
  BY DEF DelFromLru, LruType
<1>3. \A m \in Queues : /\ Kept(lru[m], Buffers \ S) \in Seq(Buffers)
                        /\ \A b \in Buffers : On(Kept(lru[m], Buffers \ S), b)
                                              <=> On(lru[m], b) /\ b \in Buffers \ S
  BY <1>1, KeptIs
<1>4. QED
  BY <1>2, <1>3

\* ttm_bo_add_to_lru puts each buffer of s on the list of its memory type and on swap_lru.
LEMMA AddToLruIs ==
  ASSUME LruType, NEW f, NEW s \in Seq(Buffers)
  PROVE  /\ AddToLru(lru, f, s) \in [Queues -> Seq(Buffers)]
         /\ \A m \in Queues, b \in Buffers :
              On(AddToLru(lru, f, s)[m], b) <=>
                On(lru[m], b) \/ (On(s, b) /\ (m = "swap" \/ f[b].mem = m))
<1> DEFINE S(m) == {b \in Buffers : m = "swap" \/ f[b].mem = m}
<1>1. \A m \in Queues : lru[m] \in Seq(Buffers)
  BY DEF LruType
<1>2. AddToLru(lru, f, s) = [m \in Queues |-> lru[m] \o Kept(s, S(m))]
  BY DEF AddToLru, LruType
<1>3. \A m \in Queues : /\ Kept(s, S(m)) \in Seq(Buffers)
                        /\ \A b \in Buffers : On(Kept(s, S(m)), b) <=> On(s, b) /\ b \in S(m)
  BY KeptIs
<1>4. \A m \in Queues : /\ lru[m] \o Kept(s, S(m)) \in Seq(Buffers)
                        /\ \A b \in Buffers : On(lru[m] \o Kept(s, S(m)), b) <=>
                                              On(lru[m], b) \/ On(Kept(s, S(m)), b)
  BY <1>1, <1>3, OnConcat
<1>5. \A m \in Queues, b \in Buffers : b \in S(m) <=> (m = "swap" \/ f[b].mem = m)
  OBVIOUS
<1> HIDE DEF S
<1>6. QED
  BY <1>2, <1>3, <1>4, <1>5

\* What one step does to the lists a buffer is on.
SameLinks(b) == \A m \in Queues : On(lru'[m], b) <=> On(lru[m], b)
Unlinked(b) == \A m \in Queues : ~On(lru'[m], b)

\* Lists a step leaves alone, or takes the buffer off.
LEMMA LinkSteps ==
  ASSUME LruType, LruType', NEW b
  PROVE  /\ SameLinks(b) => (OnLru(b)' <=> OnLru(b)) /\ Linked(b)' = Linked(b)
         /\ Unlinked(b) => ~OnLru(b)' /\ Linked(b)' = 0
         /\ Linked(b) \in Nat /\ Linked(b)' \in Nat
         /\ OnLru(b) <=> Linked(b) > 0
         /\ OnLru(b)' <=> Linked(b)' > 0
  BY LinkedIs, LinkedIsAfter DEF SameLinks, Unlinked, Queues

\* The buffers of s put back on the lists.
LEMMA PutBack ==
  ASSUME LruType, NEW s \in Seq(Buffers), NEW f, lru' = AddToLru(lru, f, s)
  PROVE  /\ LruType'
         /\ \A b \in Buffers :
              /\ ~On(s, b) => SameLinks(b)
              /\ On(s, b) /\ ~OnLru(b) /\ f[b].mem \in MemTypes => Linked(b)' = 2
<1>1. /\ AddToLru(lru, f, s) \in [Queues -> Seq(Buffers)]
      /\ \A m \in Queues, b \in Buffers :
            On(AddToLru(lru, f, s)[m], b) <=>
              On(lru[m], b) \/ (On(s, b) /\ (m = "swap" \/ f[b].mem = m))
  BY AddToLruIs
<1>2. LruType'
  BY <1>1 DEF LruType
<1>3. \A m \in Queues, b \in Buffers :
        On(lru'[m], b) <=> On(lru[m], b) \/ (On(s, b) /\ (m = "swap" \/ f[b].mem = m))
  BY <1>1
<1>4. ASSUME NEW b \in Buffers, ~On(s, b) PROVE SameLinks(b)
  BY <1>3, <1>4 DEF SameLinks
<1>5. ASSUME NEW b \in Buffers, On(s, b), ~OnLru(b), f[b].mem \in MemTypes
      PROVE  Linked(b)' = 2
  <2>1. \A m \in Queues : ~On(lru[m], b)
    BY <1>5, LinkedIs DEF Queues
  <2>2. /\ On(lru'["swap"], b)
        /\ On(lru'["system"], b) <=> f[b].mem = "system"
        /\ On(lru'["gmr"], b) <=> f[b].mem = "gmr"
    BY <1>3, <1>5, <2>1 DEF Queues
  <2>3. QED
    BY <1>2, <1>5, <2>2, LinkedIsAfter DEF MemTypes
<1>6. QED
  BY <1>2, <1>4, <1>5

\* One buffer put back.
LEMMA BackOnLru ==
  ASSUME LruType, NEW o \in Buffers, NEW f, f[o].mem \in MemTypes, ~OnLru(o),
         lru' = AddToLru(lru, f, <<o>>)
  PROVE  /\ LruType' /\ Linked(o)' = 2
         /\ \A b \in Buffers \ {o} : SameLinks(b)
<1>1. PICK s \in Seq(Buffers) : s = <<o>> /\ \A b : On(s, b) <=> b = o
  <2>1. <<o>> \in Seq(Buffers) /\ \A b : On(<<o>>, b) <=> b = o
    BY SingletonIs
  <2>2. QED
    BY <2>1, Zenon
<1>2. lru' = AddToLru(lru, f, s)
  BY <1>1
<1>3. QED
  BY <1>1, <1>2, PutBack

-----------------------------------------------------------------------------
(* Threads. *)

\* The buffers a thread has reserved are those of its list before pos.
LEMMA ReservedIs ==
  ASSUME NEW r \in ThreadRecord, r.pos \in 1 .. Len(r.list) + 1
  PROVE  /\ Reserved(r) \in Seq(Buffers)
         /\ \A b : On(Reserved(r), b) <=> \E i \in 1 .. r.pos - 1 : r.list[i] = b
         /\ \A b : On(Reserved(r), b) => On(r.list, b) /\ b \in Buffers
         /\ \A b : b \in ToSet(Reserved(r)) <=> On(Reserved(r), b)
         /\ r.pos = 1 => \A b : ~On(Reserved(r), b)
         /\ r.pos = Len(r.list) + 1 => \A b : On(Reserved(r), b) <=> On(r.list, b)
<1> DEFINE q == Reserved(r)
<1>1. /\ r.list \in Seq(Buffers) /\ Len(r.list) \in Nat /\ r.pos \in Nat
      /\ \A i \in 1 .. Len(r.list) : r.list[i] \in Buffers
  BY LenProperties, ElementOfSeq DEF ThreadRecord
<1>2. \A i \in 1 .. r.pos - 1 : r.list[i] \in Buffers
  BY <1>1
<1>3. /\ q \in Seq(Buffers) /\ Len(q) = r.pos - 1
      /\ \A i \in 1 .. r.pos - 1 : q[i] = r.list[i]
  <2>1. /\ q \in Seq(Buffers)
        /\ Len(q) = IF 1 <= r.pos - 1 THEN r.pos - 1 - 1 + 1 ELSE 0
        /\ \A i \in 1 .. r.pos - 1 - 1 + 1 : q[i] = r.list[1 + i - 1]
    BY <1>1, <1>2, SubSeqProperties DEF Reserved
  <2> HIDE DEF q
  <2>2. QED
    BY <1>1, <2>1
<1> HIDE DEF q
<1>4. \A b : On(q, b) <=> \E i \in 1 .. r.pos - 1 : r.list[i] = b
  <2>1. \A b : On(q, b) <=> \E i \in 1 .. Len(q) : q[i] = b
    BY <1>3, OnIs
  <2>2. QED
    BY <1>3, <2>1
<1>5. \A b : On(r.list, b) <=> \E i \in 1 .. Len(r.list) : r.list[i] = b
  BY <1>1, OnIs
<1>6. \A b : On(q, b) => On(r.list, b) /\ b \in Buffers
  BY <1>1, <1>4, <1>5
<1>7. \A b : b \in ToSet(q) <=> On(q, b)
  BY DEF ToSet, On
<1>8. r.pos = 1 => \A b : ~On(q, b)
  BY <1>4
<1>9. r.pos = Len(r.list) + 1 => \A b : On(q, b) <=> On(r.list, b)
  BY <1>1, <1>4, <1>5
<1>10. QED
  BY <1>3, <1>4, <1>6, <1>7, <1>8, <1>9 DEF q

\* Everybody but t stays as he is.
Others(t) == \A u \in Threads \ {t} : th'[u] = th[u]

\* lru_lock is not touched, or taken or dropped by t.
LEMMA ControlStep ==
  ASSUME Control, NEW t \in Threads, Others(t), Controlled(t, th'[t], lru_lock'),
         lru_lock' = lru_lock \/ (lru_lock \in {t, NoOne} /\ lru_lock' \in {t, NoOne})
  PROVE  Control'
<1>1. ASSUME NEW u \in Threads \ {t} PROVE Controlled(u, th'[u], lru_lock')
  <2>1. th'[u] = th[u] /\ Controlled(u, th[u], lru_lock)
    BY DEF Others, Control
  <2>2. u # NoOne
    BY BoAssumption
  <2>3. lru_lock' = u <=> lru_lock = u
    BY <2>2
  <2>4. QED
    BY <2>1, <2>3 DEF Controlled
<1>2. QED
  BY <1>1 DEF Control

-----------------------------------------------------------------------------
(* What a step leaves alone. *)

\* The references of users and the CPU writers stay counted, if the counters move with t.
LEMMA CountedStep ==
  ASSUME NEW t \in Threads, NEW b, Others(t), Counted(b),
         NEW k \in Int, NEW w \in Int,
         bo[b].kref \in Nat, bo[b].cpu_writers \in Nat,
         bo'[b].kref = bo[b].kref + k,
         bo'[b].cpu_writers = bo[b].cpu_writers + w,
         k = (IF On(th'[t].list, b) THEN 1 ELSE 0) - (IF On(th[t].list, b) THEN 1 ELSE 0)
             + (IF bo'[b].handle THEN 1 ELSE 0) - (IF bo[b].handle THEN 1 ELSE 0),
         w = (IF At(th'[t], {"cpu"}, b) THEN 1 ELSE 0) - (IF At(th[t], {"cpu"}, b) THEN 1 ELSE 0)
  PROVE  Counted(b)' /\ bo'[b].kref \in Nat /\ bo'[b].cpu_writers \in Nat
<1> DEFINE U == Users(b)
           V == {u \in Threads : On(th'[u].list, b)}
           W == Writers(b)
           X == {u \in Threads : At(th'[u], {"cpu"}, b)}
<1>1. U \in SUBSET Threads /\ V \in SUBSET Threads /\ W \in SUBSET Threads /\ X \in SUBSET Threads
  BY DEF Users, Writers
<1>2. \A u \in Threads \ {t} : (u \in U <=> u \in V) /\ (u \in W <=> u \in X)
  BY DEF Others, Users, Writers
<1>3. /\ t \in U <=> On(th[t].list, b)
      /\ t \in V <=> On(th'[t].list, b)
      /\ t \in W <=> At(th[t], {"cpu"}, b)
      /\ t \in X <=> At(th'[t], {"cpu"}, b)
  BY DEF Users, Writers
<1> HIDE DEF U, V, W, X
<1>4. /\ Cardinality(V) = Cardinality(U) + (IF On(th'[t].list, b) THEN 1 ELSE 0)
                               - (IF On(th[t].list, b) THEN 1 ELSE 0)
      /\ Cardinality(X) = Cardinality(W) + (IF At(th'[t], {"cpu"}, b) THEN 1 ELSE 0)
                               - (IF At(th[t], {"cpu"}, b) THEN 1 ELSE 0)
      /\ Cardinality(V) \in Nat /\ Cardinality(X) \in Nat
      /\ Cardinality(U) \in Nat /\ Cardinality(W) \in Nat
  <2>1. /\ Cardinality(U) \in Nat /\ Cardinality(V) \in Nat
        /\ Cardinality(V) = Cardinality(U) + (IF t \in V THEN 1 ELSE 0)
                               - (IF t \in U THEN 1 ELSE 0)
    BY <1>1, <1>2, Counting
  <2>2. /\ Cardinality(W) \in Nat /\ Cardinality(X) \in Nat
        /\ Cardinality(X) = Cardinality(W) + (IF t \in X THEN 1 ELSE 0)
                               - (IF t \in W THEN 1 ELSE 0)
    BY <1>1, <1>2, Counting
  <2>3. QED
    BY <1>3, <2>1, <2>2
<1>5. /\ bo[b].kref = Cardinality(U) + (IF bo[b].handle THEN 1 ELSE 0)
      /\ bo[b].cpu_writers = Cardinality(W)
  BY DEF Counted, U, W
<1>6. /\ bo'[b].kref = Cardinality(V) + (IF bo'[b].handle THEN 1 ELSE 0)
      /\ bo'[b].cpu_writers = Cardinality(X)
  BY <1>4, <1>5
<1>7. Counted(b)'
  BY <1>6 DEF Counted, Users, Writers, V, X
<1>8. QED
  BY <1>4, <1>6, <1>7

\* A user of a buffer counts.
LEMMA UserCounts ==
  ASSUME NEW t \in Threads, NEW b, Counted(b)
  PROVE  /\ On(th[t].list, b) => bo[b].kref > 0
         /\ At(th[t], {"cpu"}, b) => bo[b].cpu_writers > 0
         /\ bo[b].handle => bo[b].kref > 0
         /\ On(th[t].list, b) /\ bo[b].handle => bo[b].kref > 1
         /\ bo[b].kref \in Nat /\ bo[b].cpu_writers \in Nat
<1>1. Users(b) \in SUBSET Threads /\ Writers(b) \in SUBSET Threads
  BY DEF Users, Writers
<1>2. /\ Cardinality(Users(b)) \in Nat /\ Cardinality(Writers(b)) \in Nat
      /\ t \in Users(b) => Cardinality(Users(b)) > 0
      /\ t \in Writers(b) => Cardinality(Writers(b)) > 0
  BY <1>1, Counting
<1>3. QED
  BY <1>2 DEF Counted, Users, Writers

\* The stages of a buffer's life do not change.
LEMMA LifeSame ==
  ASSUME NEW t \in Threads, NEW b, Others(t), Life(b),
         bo[b].kref \in Nat, bo'[b].kref \in Nat,
         bo'[b].kref = 0 <=> bo[b].kref = 0,
         On(ddestroy', b) <=> On(ddestroy, b),
         bo[b].kref = 0 /\ bo[b].sync = "none" => bo'[b].sync = "none",
         bo'[b].mem = "none" <=> bo[b].mem = "none",
         OnLru(b)' => OnLru(b) \/ Present(b),
         At(th'[t], {"release"}, b) <=> At(th[t], {"release"}, b),
         At(th'[t], {"memtype"}, b) <=> At(th[t], {"memtype"}, b),
         At(th'[t], {"evicting", "swapping"}, b) => Present(b),
         At(th'[t], {"cleanwait", "cleanreserve"}, b) \/ th'[t].next = b =>
           At(th[t], {"cleanwait", "cleanreserve"}, b) \/ th[t].next = b \/ On(ddestroy, b),
         At(th'[t], {"cleanreserve"}, b) => bo'[b].sync = "none"
  PROVE  Life(b)' /\ (Present(b)' <=> Present(b))
<1>1. \A u \in Threads : At(th'[u], {"release"}, b) <=> At(th[u], {"release"}, b)
  BY DEF Others
<1>2. \A u \in Threads : At(th'[u], {"memtype"}, b) <=> At(th[u], {"memtype"}, b)
  BY DEF Others
<1>3. Releasing(b)' <=> Releasing(b)
  BY <1>1 DEF Releasing
<1>4. Present(b)' <=> Present(b)
  BY <1>3 DEF Present
<1>5. /\ \A u, v \in Threads : At(th[u], {"release"}, b) /\ At(th[v], {"release"}, b) => u = v
      /\ Releasing(b) => bo[b].kref = 0 /\ ~On(ddestroy, b)
      /\ On(ddestroy, b) => bo[b].kref = 0
      /\ OnLru(b) => Present(b)
      /\ Present(b) => bo[b].mem # "none"
      /\ ~Present(b) => bo[b].sync = "none"
      /\ ~Present(b) => bo[b].mem = "none" \/ \E u \in Threads : At(th[u], {"memtype"}, b)
  BY DEF Life
<1>6. ASSUME NEW u \in Threads
      PROVE  /\ At(th[u], {"memtype"}, b) => ~Present(b)
             /\ At(th[u], {"evicting", "swapping"}, b) => Present(b)
             /\ At(th[u], {"cleanwait", "cleanreserve"}, b) \/ th[u].next = b =>
                  bo[b].kref = 0 /\ ~Releasing(b)
             /\ At(th[u], {"cleanreserve"}, b) => bo[b].sync = "none"
  BY DEF Life
<1>7. ASSUME NEW u \in Threads
      PROVE  /\ At(th'[u], {"memtype"}, b) => ~Present(b)'
             /\ At(th'[u], {"evicting", "swapping"}, b) => Present(b)'
             /\ At(th'[u], {"cleanwait", "cleanreserve"}, b) \/ th'[u].next = b =>
                  bo'[b].kref = 0 /\ ~Releasing(b)'
             /\ At(th'[u], {"cleanreserve"}, b) => bo'[b].sync = "none"
  <2>1. CASE u # t
    <3>1. th'[u] = th[u]
      BY <2>1 DEF Others
    <3>2. At(th[u], {"cleanreserve"}, b) => At(th[u], {"cleanwait", "cleanreserve"}, b)
      BY DEF At
    <3>3. At(th[u], {"cleanreserve"}, b) => bo'[b].sync = "none"
      BY <1>6, <3>2
    <3>4. QED
      BY <1>3, <1>4, <1>6, <3>1, <3>3
  <2>2. CASE u = t
    <3>1. On(ddestroy, b) => bo[b].kref = 0 /\ ~Releasing(b)
      BY <1>5
    <3>2. QED
      BY <1>2, <1>3, <1>4, <1>6, <2>2, <3>1
  <2>3. QED
    BY <2>1, <2>2
<1>8. ~Present(b)' => bo'[b].sync = "none"
  <2>1. ~Present(b) => bo[b].kref = 0
    BY DEF Present
  <2>2. QED
    BY <1>4, <1>5, <2>1
<1>9. QED
  BY <1>1, <1>2, <1>3, <1>4, <1>5, <1>7, <1>8 DEF Life

\* A reservation stays as it is, is taken by t, is dropped by t.
LEMMA ReservationSame ==
  ASSUME NEW t \in Threads, NEW b, Others(t), Reservation(b),
         bo'[b].reserved = bo[b].reserved, bo[b].reserved \in Threads \cup {NoOne},
         Present(b)' => Present(b),
         bo[b].cpu_writers = 0 => bo'[b].cpu_writers = 0,
         Holds(th'[t], b) <=> Holds(th[t], b),
         On(Reserved(th'[t]), b) => On(Reserved(th[t]), b),
         OnLru(b)' => OnLru(b),
         bo[b].reserved = t /\ OnLru(b)' =>
           th'[t].pc = "scan" /\ On(Reserved(th'[t]), b) /\ b \notin th'[t].removed
  PROVE  Reservation(b)'
<1>1. \A u \in Threads : Holds(th'[u], b) <=> Holds(th[u], b)
  BY DEF Others
<1>2. \A u \in Threads : On(Reserved(th'[u]), b) => On(Reserved(th[u]), b)
  BY DEF Others
<1>3. bo[b].reserved # NoOne /\ bo[b].reserved # t => th'[bo[b].reserved] = th[bo[b].reserved]
  BY DEF Others
<1>4. QED
  BY <1>1, <1>2, <1>3, BoAssumption DEF Reservation

\* A step of t that reserves a buffer nobody has reserved.
LEMMA ReservationTaken ==
  ASSUME NEW t \in Threads, NEW b, Others(t), Reservation(b),
         bo[b].reserved = NoOne, bo'[b].reserved = t,
         Present(b)' => Holds(th'[t], b),
         On(Reserved(th'[t]), b) => bo'[b].cpu_writers = 0,
         OnLru(b)' => th'[t].pc = "scan" /\ On(Reserved(th'[t]), b) /\ b \notin th'[t].removed
  PROVE  Reservation(b)'
<1>1. \A u \in Threads : ~Holds(th[u], b)
  BY BoAssumption DEF Reservation
<1>2. \A u \in Threads : u # t => ~Holds(th'[u], b) /\ ~On(Reserved(th'[u]), b)
  BY <1>1 DEF Others, Holds
<1>3. QED
  BY <1>2 DEF Reservation

\* A step of t that unreserves a buffer it holds.
LEMMA ReservationDropped ==
  ASSUME NEW t \in Threads, NEW b, Others(t), Reservation(b),
         Holds(th[t], b), bo'[b].reserved = NoOne, ~Holds(th'[t], b)
  PROVE  Reservation(b)'
<1>1. bo[b].reserved = t
  BY DEF Reservation
<1>2. \A u \in Threads : u # t => ~Holds(th[u], b)
  BY <1>1 DEF Reservation
<1>3. \A u \in Threads : ~Holds(th'[u], b) /\ ~On(Reserved(th'[u]), b)
  BY <1>2 DEF Others, Holds
<1>4. QED
  BY <1>3 DEF Reservation

-----------------------------------------------------------------------------
(* list_kref. *)

\* The references that the thread about to destroy b will put.
PutIn(h, b) ==
  LET P == {u \in Threads : h[u].obj = b /\ h[u].pc = "memtype"}
  IN IF P = {} THEN 0 ELSE h[CHOOSE u \in P : TRUE].put

\* It is what the one thread that destroys the buffer will put.
LEMMA PutIs ==
  ASSUME NEW h, NEW b, NEW t \in Threads,
         \A u, v \in Threads : At(h[u], {"memtype"}, b) /\ At(h[v], {"memtype"}, b) => u = v
  PROVE  /\ At(h[t], {"memtype"}, b) => PutIn(h, b) = h[t].put
         /\ (\A u \in Threads : ~At(h[u], {"memtype"}, b)) => PutIn(h, b) = 0
<1> DEFINE P == {u \in Threads : h[u].obj = b /\ h[u].pc = "memtype"}
<1>1. ASSUME At(h[t], {"memtype"}, b) PROVE PutIn(h, b) = h[t].put
  <2>1. P = {t}
    BY <1>1 DEF At
  <2>2. P # {} /\ (CHOOSE u \in P : TRUE) = t
    BY <2>1
  <2>3. QED
    BY <2>2 DEF PutIn
<1>2. ASSUME \A u \in Threads : ~At(h[u], {"memtype"}, b) PROVE PutIn(h, b) = 0
  <2>1. P = {}
    BY <1>2 DEF At
  <2>2. QED
    BY <2>1 DEF PutIn
<1>3. QED
  BY <1>1, <1>2

\* It changes only with the thread that steps.
LEMMA PutStep ==
  ASSUME NEW b, NEW t \in Threads, Others(t), Reservation(b), Reservation(b)',
         \A u \in Threads : th[u].put \in Nat /\ th'[u].put \in Nat
  PROVE  /\ PutIn(th, b) \in Nat /\ PutIn(th', b) \in Nat
         /\ PutIn(th', b) = PutIn(th, b)
              + (IF At(th'[t], {"memtype"}, b) THEN th'[t].put ELSE 0)
              - (IF At(th[t], {"memtype"}, b) THEN th[t].put ELSE 0)
<1>1. \A u, v \in Threads : At(th[u], {"memtype"}, b) /\ At(th[v], {"memtype"}, b) => u = v
  BY DEF Reservation, Holds, At
<1>2. \A u, v \in Threads : At(th'[u], {"memtype"}, b) /\ At(th'[v], {"memtype"}, b) => u = v
  BY DEF Reservation, Holds, At
<1>3. \A u \in Threads : /\ At(th[u], {"memtype"}, b) => PutIn(th, b) = th[u].put
                         /\ At(th'[u], {"memtype"}, b) => PutIn(th', b) = th'[u].put
  BY <1>1, <1>2, PutIs
<1>4. /\ (\A u \in Threads : ~At(th[u], {"memtype"}, b)) => PutIn(th, b) = 0
      /\ (\A u \in Threads : ~At(th'[u], {"memtype"}, b)) => PutIn(th', b) = 0
  BY <1>1, <1>2, PutIs
<1>5. \A u \in Threads : u # t => th'[u] = th[u]
  BY DEF Others
<1>6. PutIn(th, b) \in Nat /\ PutIn(th', b) \in Nat
  BY <1>3, <1>4
<1>7. CASE At(th[t], {"memtype"}, b)
  BY <1>1, <1>2, <1>3, <1>4, <1>5, <1>6, <1>7
<1>8. CASE ~At(th[t], {"memtype"}, b) /\ At(th'[t], {"memtype"}, b)
  <2>1. \A u \in Threads : ~At(th[u], {"memtype"}, b)
    BY <1>2, <1>5, <1>8
  <2>2. QED
    BY <1>3, <1>4, <1>8, <2>1
<1>9. CASE ~At(th[t], {"memtype"}, b) /\ ~At(th'[t], {"memtype"}, b)
  <2>1. CASE \E u \in Threads : At(th[u], {"memtype"}, b)
    <3>1. PICK u \in Threads : At(th[u], {"memtype"}, b)
      BY <2>1
    <3>2. u # t /\ th'[u] = th[u]
      BY <1>5, <1>9, <3>1
    <3>3. QED
      BY <1>3, <1>6, <1>9, <3>1, <3>2
  <2>2. CASE ~\E u \in Threads : At(th[u], {"memtype"}, b)
    BY <1>4, <1>5, <1>9, <2>2
  <2>3. QED
    BY <2>1, <2>2
<1>10. QED
  BY <1>6, <1>7, <1>8, <1>9

Alive(b) == bo[b].kref > 0 \/ Releasing(b)
Helpers(b) == {t \in Threads : At(th[t], Helping, b)}
Nexts(b) == {t \in Threads : th[t].next = b}

\* What list_kref counts, with a name for each term.
LEMMA PointersAre ==
  ASSUME NEW b
  PROVE  Pointers(b) = Linked(b) + (IF On(ddestroy, b) THEN 1 ELSE 0)
                       + (IF Alive(b) THEN 1 ELSE 0) + Cardinality(Helpers(b))
                       + Cardinality(Nexts(b)) + PutIn(th, b)
<1>1. Releasing(b) <=> \E t \in Threads : th[t].pc = "release" /\ th[t].obj = b
  BY DEF Releasing, At
<1>2. Helpers(b) = {t \in Threads : th[t].obj = b /\ th[t].pc \in Helping}
  BY DEF Helpers, At
<1>3. Helpers(b) = {t \in Threads : th[t].obj = b /\ th[t].pc \in
                     {"objput", "memtype", "cleanwait", "cleanreserve", "evicting", "swapping"}}
  BY <1>2 DEF Helping
<1>4. Nexts(b) = {t \in Threads : th[t].next = b}
  BY DEF Nexts
<1>5. PutIn(th, b) =
        LET Putting == {t \in Threads : th[t].obj = b /\ th[t].pc = "memtype"}
        IN IF Putting = {} THEN 0 ELSE th[CHOOSE t \in Putting : TRUE].put
  BY Zenon DEF PutIn
<1>6. (IF Alive(b) THEN 1 ELSE 0) =
        IF bo[b].kref > 0 \/ \E t \in Threads : th[t].pc = "release" /\ th[t].obj = b
          THEN 1 ELSE 0
  BY <1>1 DEF Alive
<1>7. QED
  BY <1>3, <1>4, <1>5, <1>6, Zenon DEF Pointers

\* The same after a step.
LEMMA PointersAreAfter ==
  ASSUME NEW b
  PROVE  Pointers(b)' = Linked(b)' + (IF On(ddestroy', b) THEN 1 ELSE 0)
                       + (IF Alive(b)' THEN 1 ELSE 0) + Cardinality(Helpers(b)')
                       + Cardinality(Nexts(b)') + PutIn(th', b)
<1>1. Releasing(b)' <=> \E t \in Threads : th'[t].pc = "release" /\ th'[t].obj = b
  BY DEF Releasing, At
<1>2. Helpers(b)' = {t \in Threads : th'[t].obj = b /\ th'[t].pc \in Helping}
  BY DEF Helpers, At
<1>3. Helpers(b)' = {t \in Threads : th'[t].obj = b /\ th'[t].pc \in
                     {"objput", "memtype", "cleanwait", "cleanreserve", "evicting", "swapping"}}
  BY <1>2 DEF Helping
<1>4. Nexts(b)' = {t \in Threads : th'[t].next = b}
  BY DEF Nexts
<1>5. PutIn(th', b) =
        LET Putting == {t \in Threads : th'[t].obj = b /\ th'[t].pc = "memtype"}
        IN IF Putting = {} THEN 0 ELSE th'[CHOOSE t \in Putting : TRUE].put
  BY Zenon DEF PutIn
<1>6. (IF Alive(b)' THEN 1 ELSE 0) =
        IF bo'[b].kref > 0 \/ \E t \in Threads : th'[t].pc = "release" /\ th'[t].obj = b
          THEN 1 ELSE 0
  BY <1>1 DEF Alive
<1>7. QED
  BY <1>3, <1>4, <1>5, <1>6, Zenon DEF Pointers

\* Nothing is pointed at more often than list_kref says.
LEMMA PointedIs ==
  ASSUME NEW b, NEW t \in Threads, Pointed(b), Reservation(b), LruType,
         \A u \in Threads : th[u].put \in Nat
  PROVE  /\ bo[b].list_kref \in Nat
         /\ bo[b].list_kref >= Linked(b) + (IF On(ddestroy, b) THEN 1 ELSE 0)
              + (IF Alive(b) THEN 1 ELSE 0) + (IF At(th[t], Helping, b) THEN 1 ELSE 0)
              + (IF th[t].next = b THEN 1 ELSE 0)
              + (IF At(th[t], {"memtype"}, b) THEN th[t].put ELSE 0)
         /\ bo[b].freed <=> bo[b].list_kref = 0
<1>1. Helpers(b) \in SUBSET Threads /\ Nexts(b) \in SUBSET Threads
  BY DEF Helpers, Nexts
<1>2. /\ Cardinality(Helpers(b)) \in Nat /\ Cardinality(Nexts(b)) \in Nat
      /\ t \in Helpers(b) => Cardinality(Helpers(b)) > 0
      /\ t \in Nexts(b) => Cardinality(Nexts(b)) > 0
  BY <1>1, Counting
<1>3. \A u, v \in Threads : At(th[u], {"memtype"}, b) /\ At(th[v], {"memtype"}, b) => u = v
  BY DEF Reservation, Holds, At
<1>4. /\ \A u \in Threads : At(th[u], {"memtype"}, b) => PutIn(th, b) = th[u].put
      /\ (\A u \in Threads : ~At(th[u], {"memtype"}, b)) => PutIn(th, b) = 0
  BY <1>3, PutIs
<1>5. PutIn(th, b) \in Nat /\ PutIn(th, b) >= (IF At(th[t], {"memtype"}, b) THEN th[t].put ELSE 0)
  BY <1>4
<1>6. Linked(b) \in Nat
  BY LinkedIs
<1>7. (t \in Helpers(b) <=> At(th[t], Helping, b)) /\ (t \in Nexts(b) <=> th[t].next = b)
  BY DEF Helpers, Nexts
<1>8. QED
  BY <1>2, <1>5, <1>6, <1>7, PointersAre DEF Pointed

\* The sum before and after a step of t.
LEMMA PointedStep ==
  ASSUME NEW b, NEW t \in Threads, Others(t), Pointed(b), LruType, LruType',
         Reservation(b), Reservation(b)',
         \A u \in Threads : th[u].put \in Nat /\ th'[u].put \in Nat,
         NEW d \in Int, bo'[b].list_kref = bo[b].list_kref + d,
         bo'[b].freed <=> bo'[b].list_kref = 0,
         d = Linked(b)' - Linked(b)
             + (IF On(ddestroy', b) THEN 1 ELSE 0) - (IF On(ddestroy, b) THEN 1 ELSE 0)
             + (IF Alive(b)' THEN 1 ELSE 0) - (IF Alive(b) THEN 1 ELSE 0)
             + (IF At(th'[t], Helping, b) THEN 1 ELSE 0)
             - (IF At(th[t], Helping, b) THEN 1 ELSE 0)
             + (IF th'[t].next = b THEN 1 ELSE 0) - (IF th[t].next = b THEN 1 ELSE 0)
             + (IF At(th'[t], {"memtype"}, b) THEN th'[t].put ELSE 0)
             - (IF At(th[t], {"memtype"}, b) THEN th[t].put ELSE 0)
  PROVE  Pointed(b)' /\ bo'[b].list_kref \in Nat
<1> DEFINE H == Helpers(b)
           I == {u \in Threads : At(th'[u], Helping, b)}
           M == Nexts(b)
           N == {u \in Threads : th'[u].next = b}
<1>1. H \in SUBSET Threads /\ I \in SUBSET Threads /\ M \in SUBSET Threads /\ N \in SUBSET Threads
  BY DEF Helpers, Nexts
<1>2. \A u \in Threads \ {t} : (u \in H <=> u \in I) /\ (u \in M <=> u \in N)
  BY DEF Others, Helpers, Nexts
<1>3. /\ t \in H <=> At(th[t], Helping, b)
      /\ t \in I <=> At(th'[t], Helping, b)
      /\ t \in M <=> th[t].next = b
      /\ t \in N <=> th'[t].next = b
  BY DEF Helpers, Nexts
<1>4. Helpers(b)' = I /\ Nexts(b)' = N
  BY DEF Helpers, Nexts
<1> HIDE DEF H, I, M, N
<1>5. /\ Cardinality(H) \in Nat /\ Cardinality(I) \in Nat
      /\ Cardinality(I) = Cardinality(H) + (IF At(th'[t], Helping, b) THEN 1 ELSE 0)
                               - (IF At(th[t], Helping, b) THEN 1 ELSE 0)
  <2>1. /\ Cardinality(H) \in Nat /\ Cardinality(I) \in Nat
        /\ Cardinality(I) = Cardinality(H) + (IF t \in I THEN 1 ELSE 0)
                                 - (IF t \in H THEN 1 ELSE 0)
    BY <1>1, <1>2, Counting
  <2>2. QED
    BY <1>3, <2>1
<1>6. /\ Cardinality(M) \in Nat /\ Cardinality(N) \in Nat
      /\ Cardinality(N) = Cardinality(M) + (IF th'[t].next = b THEN 1 ELSE 0)
                               - (IF th[t].next = b THEN 1 ELSE 0)
  <2>1. /\ Cardinality(M) \in Nat /\ Cardinality(N) \in Nat
        /\ Cardinality(N) = Cardinality(M) + (IF t \in N THEN 1 ELSE 0)
                                 - (IF t \in M THEN 1 ELSE 0)
    BY <1>1, <1>2, Counting
  <2>2. QED
    BY <1>3, <2>1
<1>7. /\ PutIn(th, b) \in Nat /\ PutIn(th', b) \in Nat
      /\ PutIn(th', b) = PutIn(th, b)
           + (IF At(th'[t], {"memtype"}, b) THEN th'[t].put ELSE 0)
           - (IF At(th[t], {"memtype"}, b) THEN th[t].put ELSE 0)
  BY PutStep
<1>8. Linked(b) \in Nat /\ Linked(b)' \in Nat
  BY LinkSteps
<1>9. /\ bo[b].list_kref = Linked(b) + (IF On(ddestroy, b) THEN 1 ELSE 0)
                       + (IF Alive(b) THEN 1 ELSE 0) + Cardinality(H)
                       + Cardinality(M) + PutIn(th, b)
      /\ Pointers(b)' = Linked(b)' + (IF On(ddestroy', b) THEN 1 ELSE 0)
                       + (IF Alive(b)' THEN 1 ELSE 0) + Cardinality(I)
                       + Cardinality(N) + PutIn(th', b)
  BY <1>4, PointersAre, PointersAreAfter DEF Pointed, H, M
<1> DEFINE q == IF On(ddestroy, b) THEN 1 ELSE 0
           q1 == IF On(ddestroy', b) THEN 1 ELSE 0
           a == IF Alive(b) THEN 1 ELSE 0
           a1 == IF Alive(b)' THEN 1 ELSE 0
           h == IF At(th[t], Helping, b) THEN 1 ELSE 0
           h1 == IF At(th'[t], Helping, b) THEN 1 ELSE 0
           n == IF th[t].next = b THEN 1 ELSE 0
           n1 == IF th'[t].next = b THEN 1 ELSE 0
           p == IF At(th[t], {"memtype"}, b) THEN th[t].put ELSE 0
           p1 == IF At(th'[t], {"memtype"}, b) THEN th'[t].put ELSE 0
<1>10. /\ q \in Nat /\ q1 \in Nat /\ a \in Nat /\ a1 \in Nat /\ h \in Nat /\ h1 \in Nat
       /\ n \in Nat /\ n1 \in Nat /\ p \in Nat /\ p1 \in Nat
  OBVIOUS
<1>11. d = Linked(b)' - Linked(b) + q1 - q + a1 - a + h1 - h + n1 - n + p1 - p
  OBVIOUS
<1>12. /\ Cardinality(I) = Cardinality(H) + h1 - h /\ Cardinality(N) = Cardinality(M) + n1 - n
       /\ PutIn(th', b) = PutIn(th, b) + p1 - p
       /\ bo[b].list_kref = Linked(b) + q + a + Cardinality(H) + Cardinality(M) + PutIn(th, b)
       /\ Pointers(b)' = Linked(b)' + q1 + a1 + Cardinality(I) + Cardinality(N) + PutIn(th', b)
  BY <1>5, <1>6, <1>7, <1>9
<1> HIDE DEF q, q1, a, a1, h, h1, n, n1, p, p1
<1>13. bo'[b].list_kref = Pointers(b)' /\ bo'[b].list_kref \in Nat
  BY <1>5, <1>6, <1>7, <1>8, <1>10, <1>11, <1>12
<1>14. QED
  BY <1>13 DEF Pointed

-----------------------------------------------------------------------------
(* One step. *)

\* TypeOK but for the signs of the counters.
LooseRecord == [kref : Int, handle : BOOLEAN, list_kref : Int, freed : BOOLEAN,
                reserved : Threads \cup {NoOne}, val_seq : 0 .. Wrap - 1, seq_valid : BOOLEAN,
                sync : {"none", "busy", "signaled"}, mem : MemTypes \cup {"none"},
                cpu_writers : Int]

Typed ==
  /\ bo \in [Buffers -> LooseRecord] /\ LruType /\ ddestroy \in Seq(Buffers)
  /\ val_seq \in 0 .. Wrap - 1 /\ wq \in BOOLEAN
  /\ lru_lock \in Validators \cup {NoOne} /\ max_gmr_ids \in Ids
  /\ th \in [Threads -> ThreadRecord]

\* The counters of a buffer.
Nats(b) == bo[b].kref \in Nat /\ bo[b].cpu_writers \in Nat /\ bo[b].list_kref \in Nat

\* TypeOK is Typed with counters that are not negative.
LEMMA TypesAre ==
  /\ TypeOK <=> Typed /\ \A b \in Buffers : Nats(b)
  /\ TypeOK' <=> Typed' /\ \A b \in Buffers : Nats(b)'
<1>1. ASSUME NEW f
      PROVE  f \in [Buffers -> BoRecord] <=>
               /\ f \in [Buffers -> LooseRecord]
               /\ \A b \in Buffers : /\ f[b].kref \in Nat /\ f[b].cpu_writers \in Nat
                                     /\ f[b].list_kref \in Nat
  <2>1. ASSUME NEW r
        PROVE  r \in BoRecord <=> r \in LooseRecord /\ r.kref \in Nat /\ r.cpu_writers \in Nat
                                  /\ r.list_kref \in Nat
    BY DEF BoRecord, LooseRecord
  <2>2. QED
    BY <2>1
<1>2. QED
  BY <1>1 DEF TypeOK, Typed, Nats, LruType, Queues

\* A step of t keeps the inductive invariant if it keeps it for every buffer.
LEMMA Step ==
  ASSUME IInv, NEW t \in Threads, Others(t), Typed', Controlled(t, th'[t], lru_lock'),
         lru_lock' = lru_lock \/ (lru_lock \in {t, NoOne} /\ lru_lock' \in {t, NoOne}),
         \A b \in Buffers : Sound(b)' /\ Nats(b)'
  PROVE  IInv'
<1>1. Control'
  BY ControlStep DEF IInv
<1>2. TypeOK'
  BY TypesAre
<1>3. QED
  BY <1>1, <1>2 DEF IInv, Sound

\* What buffer b sees of a thread is the same before and after.
SameView(r, q, b) ==
  /\ On(q.list, b) <=> On(r.list, b)
  /\ On(Reserved(q), b) <=> On(Reserved(r), b)
  /\ \A S \in {{"cpu"}, {"release"}, {"memtype"}, {"grabwait"}, {"evicting", "swapping"}, Helping} :
       At(q, S, b) <=> At(r, S, b)
  /\ At(q, {"cleanwait", "cleanreserve"}, b) => At(r, {"cleanwait", "cleanreserve"}, b)
  /\ At(q, {"memtype"}, b) => q.put = r.put
  /\ q.next = b <=> r.next = b
  /\ r.pc = "scan" /\ b \notin r.removed => q.pc = "scan" /\ b \notin q.removed

\* Places where a thread works on no buffer of its own.
Plain == {"idle", "retry", "scan", "busywait", "againwait", "cpuwait", "validate", "backoff",
          "evict", "unref", "wqnext", "grab"}

\* A thread that works on another buffer, or on none, looks the same to this one.
LEMMA ViewSame ==
  ASSUME NEW r, NEW q, NEW b,
         r.obj # b \/ r.pc \in Plain, q.obj # b \/ q.pc \in Plain,
         q.list = r.list, q.pos = r.pos, q.next = r.next,
         r.pc = "scan" /\ b \notin r.removed => q.pc = "scan" /\ b \notin q.removed
  PROVE  SameView(r, q, b)
<1>1. Reserved(q) = Reserved(r)
  BY DEF Reserved
<1>2. \A S \in {{"cpu"}, {"release"}, {"memtype"}, {"grabwait"}, {"evicting", "swapping"},
               {"cleanwait", "cleanreserve"}, Helping} :
       ~At(q, S, b) /\ ~At(r, S, b)
  BY DEF At, Plain, Helping
<1>3. QED
  BY <1>1, <1>2 DEF SameView

\* The references, reservation and lists of a buffer are the same.
SameBuffer(b) ==
  /\ bo'[b].kref = bo[b].kref /\ bo'[b].handle = bo[b].handle
  /\ bo'[b].list_kref = bo[b].list_kref /\ bo'[b].freed = bo[b].freed
  /\ bo'[b].reserved = bo[b].reserved /\ bo'[b].cpu_writers = bo[b].cpu_writers
  /\ bo[b].sync = "none" => bo'[b].sync = "none"
  /\ bo'[b].mem = "none" <=> bo[b].mem = "none"
  /\ On(ddestroy', b) <=> On(ddestroy, b)

\* A step that changes nothing of a buffer that counts leaves it sound.
LEMMA Untouched ==
  ASSUME TypeOK, Typed', NEW t \in Threads, NEW b \in Buffers, Others(t), Sound(b),
         SameBuffer(b), SameLinks(b), SameView(th[t], th'[t], b),
         At(th'[t], {"cleanreserve"}, b) => bo'[b].sync = "none"
  PROVE  Sound(b)' /\ Nats(b)'
<1>1. /\ bo[b].kref \in Nat /\ bo[b].cpu_writers \in Nat /\ bo[b].list_kref \in Nat
      /\ bo[b].reserved \in Threads \cup {NoOne} /\ LruType /\ LruType'
      /\ \A u \in Threads : th[u].put \in Nat /\ th'[u].put \in Nat
  BY DEF TypeOK, BoRecord, ThreadRecord, Typed, LruType, Queues
<1>2. /\ On(th'[t].list, b) <=> On(th[t].list, b)
      /\ On(Reserved(th'[t]), b) <=> On(Reserved(th[t]), b)
      /\ At(th'[t], {"cpu"}, b) <=> At(th[t], {"cpu"}, b)
      /\ At(th'[t], {"release"}, b) <=> At(th[t], {"release"}, b)
      /\ At(th'[t], {"memtype"}, b) <=> At(th[t], {"memtype"}, b)
      /\ At(th'[t], {"grabwait"}, b) <=> At(th[t], {"grabwait"}, b)
      /\ At(th'[t], {"evicting", "swapping"}, b) <=> At(th[t], {"evicting", "swapping"}, b)
      /\ At(th'[t], {"cleanwait", "cleanreserve"}, b)
           => At(th[t], {"cleanwait", "cleanreserve"}, b)
      /\ At(th'[t], Helping, b) <=> At(th[t], Helping, b)
      /\ At(th'[t], {"memtype"}, b) => th'[t].put = th[t].put
      /\ th'[t].next = b <=> th[t].next = b
      /\ th[t].pc = "scan" /\ b \notin th[t].removed => th'[t].pc = "scan" /\ b \notin th'[t].removed
  BY DEF SameView
<1>3. Holds(th'[t], b) <=> Holds(th[t], b)
  BY <1>2 DEF Holds, At
<1>4. Counted(b) /\ Life(b) /\ Reservation(b) /\ Pointed(b)
  BY DEF Sound
<1>5. /\ (OnLru(b)' <=> OnLru(b)) /\ Linked(b)' = Linked(b)
      /\ Linked(b) \in Nat
  BY <1>1, LinkSteps
<1>6. Counted(b)' /\ bo'[b].kref \in Nat /\ bo'[b].cpu_writers \in Nat
  <2>1. /\ bo'[b].kref = bo[b].kref + 0 /\ bo'[b].cpu_writers = bo[b].cpu_writers + 0
        /\ 0 = (IF On(th'[t].list, b) THEN 1 ELSE 0) - (IF On(th[t].list, b) THEN 1 ELSE 0)
             + (IF bo'[b].handle THEN 1 ELSE 0) - (IF bo[b].handle THEN 1 ELSE 0)
        /\ 0 = (IF At(th'[t], {"cpu"}, b) THEN 1 ELSE 0) - (IF At(th[t], {"cpu"}, b) THEN 1 ELSE 0)
    BY <1>1, <1>2 DEF SameBuffer
  <2>2. QED
    BY <1>1, <1>4, <2>1, CountedStep
<1>7. Life(b)' /\ (Present(b)' <=> Present(b))
  <2>1. At(th'[t], {"evicting", "swapping"}, b) => Present(b)
    BY <1>2, <1>4 DEF Life
  <2>2. QED
    BY <1>1, <1>2, <1>4, <1>5, <1>6, <2>1, LifeSame DEF SameBuffer
<1>8. Reservation(b)'
  <2>1. bo[b].reserved = t /\ OnLru(b)' =>
           th'[t].pc = "scan" /\ On(Reserved(th'[t]), b) /\ b \notin th'[t].removed
    BY <1>2, <1>4, <1>5, BoAssumption DEF Reservation
  <2>2. QED
    BY <1>1, <1>2, <1>3, <1>4, <1>5, <1>7, <2>1, ReservationSame DEF SameBuffer
<1>9. Pointed(b)' /\ bo'[b].list_kref \in Nat
  <2>1. Alive(b)' <=> Alive(b)
    <3>1. Releasing(b)' <=> Releasing(b)
      BY <1>2 DEF Releasing, Others
    <3>2. QED
      BY <3>1 DEF Alive, SameBuffer
  <2>2. /\ bo'[b].list_kref = bo[b].list_kref + 0
        /\ bo'[b].freed <=> bo'[b].list_kref = 0
    BY <1>1, <1>4 DEF SameBuffer, Pointed
  <2>3. 0 = Linked(b)' - Linked(b)
             + (IF On(ddestroy', b) THEN 1 ELSE 0) - (IF On(ddestroy, b) THEN 1 ELSE 0)
             + (IF Alive(b)' THEN 1 ELSE 0) - (IF Alive(b) THEN 1 ELSE 0)
             + (IF At(th'[t], Helping, b) THEN 1 ELSE 0)
             - (IF At(th[t], Helping, b) THEN 1 ELSE 0)
             + (IF th'[t].next = b THEN 1 ELSE 0) - (IF th[t].next = b THEN 1 ELSE 0)
             + (IF At(th'[t], {"memtype"}, b) THEN th'[t].put ELSE 0)
             - (IF At(th[t], {"memtype"}, b) THEN th[t].put ELSE 0)
    BY <1>1, <1>2, <1>5, <2>1 DEF SameBuffer
  <2>4. QED
    BY <1>1, <1>4, <1>8, <2>2, <2>3, PointedStep
<1>10. QED
  BY <1>6, <1>7, <1>8, <1>9 DEF Sound, Nats

\* A step that leaves every buffer so.
LEMMA QuietStep ==
  ASSUME IInv, NEW t \in Threads, Others(t), Typed', Controlled(t, th'[t], lru_lock'),
         lru_lock' = lru_lock \/ (lru_lock \in {t, NoOne} /\ lru_lock' \in {t, NoOne}),
         \A b \in Buffers :
           /\ SameBuffer(b) /\ SameLinks(b) /\ SameView(th[t], th'[t], b)
           /\ At(th'[t], {"cleanreserve"}, b) => bo'[b].sync = "none"
  PROVE  IInv'
<1>1. \A b \in Buffers : Sound(b)' /\ Nats(b)'
  BY Untouched DEF IInv
<1>2. QED
  BY <1>1, Step

\* What a thread that works on a buffer implies, for its fields.
LEMMA ThreadIs ==
  ASSUME IInv, NEW t \in Threads
  PROVE  /\ th[t] \in ThreadRecord /\ Controlled(t, th[t], lru_lock)
         /\ th[t].list \in Seq(Buffers) /\ th[t].pos \in 1 .. Len(th[t].list) + 1
         /\ \A u \in Threads : th[u].put \in Nat
         /\ t # NoOne
         /\ bo \in [Buffers -> BoRecord] /\ bo \in [Buffers -> LooseRecord]
         /\ th \in [Threads -> ThreadRecord] /\ LruType
  BY TypesAre, BoAssumption DEF IInv, TypeOK, ThreadRecord, Control, Controlled, Typed

\* A thread steps from one plain place to another; only lru_lock and val_seq may
\* change besides it.
LEMMA PlainStep ==
  ASSUME IInv, NEW t \in Threads, NEW q \in ThreadRecord, th' = [th EXCEPT ![t] = q],
         UNCHANGED <<bo, lru, ddestroy, wq, max_gmr_ids>>,
         val_seq' \in 0 .. Wrap - 1, lru_lock' \in Validators \cup {NoOne},
         lru_lock' = lru_lock \/ (lru_lock \in {t, NoOne} /\ lru_lock' \in {t, NoOne}),
         th[t].pc \in Plain, q.pc \in Plain,
         q.list = th[t].list, q.pos = th[t].pos, q.next = th[t].next,
         th[t].pc = "scan" => q.pc = "scan" /\ q.removed = th[t].removed,
         Controlled(t, th'[t], lru_lock')
  PROVE  IInv'
<1>1. th'[t] = q /\ Others(t) /\ th' \in [Threads -> ThreadRecord]
  BY ThreadIs DEF Others
<1>2. Typed'
  BY <1>1, ThreadIs DEF IInv, TypeOK, Typed, LruType
<1>3. \A b \in Buffers : SameView(th[t], th'[t], b)
  BY <1>1, ViewSame
<1>4. \A b \in Buffers : SameBuffer(b) /\ SameLinks(b) /\ ~At(th'[t], {"cleanreserve"}, b)
  BY <1>1 DEF SameBuffer, SameLinks, At, Plain
<1>5. QED
  BY <1>1, <1>2, <1>3, <1>4, QuietStep

\* Conditions of PlainStep that hold for every change of places.
LEMMA PlainControl ==
  ASSUME NEW t \in Threads, NEW r \in ThreadRecord, NEW q \in ThreadRecord, NEW l, NEW m,
         Controlled(t, r, l),
         q.list = r.list, q.pos = r.pos, q.next = r.next, q.removed = r.removed,
         r.next = NoOne, r.pc \in Plain, q.pc \in Plain \ {"grab", "wqnext"},
         q.pc = "scan" <=> m = t,
         q.pc \in Locking \cup Submitting => t \in Validators,
         q.pc \in Submitting => r.pc \in Submitting,
         q.pc \in {"idle", "unref"} => r.pc \in {"idle", "unref", "grab"},
         q.pc = "idle" => r.list = <<>>
  PROVE  Controlled(t, q, m)
<1>1. Reserved(q) = Reserved(r)
  BY DEF Reserved
<1>2. \A S : (In(r, S) <=> r.pc \in S) /\ (In(q, S) <=> q.pc \in S)
  BY DEF In, Plain, Helping
<1>3. q.pc \notin Helping \cup {"release"} \cup Grabbing \cup {"wqnext"}
  BY DEF Plain, Helping, Grabbing
<1>4. q.pc \in Submitting => q.pos = Len(q.list) + 1
  BY <1>2 DEF Controlled
<1>5. q.pc \in {"idle", "unref"} => q.pos = 1
  BY <1>2 DEF Controlled, Grabbing
<1>6. QED
  BY <1>1, <1>2, <1>3, <1>4, <1>5 DEF Controlled, Helping, Grabbing, Submitting, Plain

\* ttm_eu_reserve_buffers takes lru_lock and a sequence number.
LEMMA EuStartInv == ASSUME IInv, NEW t \in Threads, EuStart(t), UNCHANGED max_gmr_ids PROVE IInv'
<1> DEFINE q == [th[t] EXCEPT !.pc = "scan", !.seq = val_seq]
<1>1. /\ th[t] \in ThreadRecord /\ Controlled(t, th[t], lru_lock) /\ t # NoOne
      /\ val_seq \in 0 .. Wrap - 1
  BY ThreadIs DEF IInv, TypeOK
<1>2. th' = [th EXCEPT ![t] = q] /\ th'[t] = q
  BY ThreadIs DEF EuStart
<1>3. th[t].pc = "retry" /\ lru_lock = NoOne /\ lru_lock' = t
  BY DEF EuStart, Unlocked
<1>4. q \in ThreadRecord
  BY <1>1 DEF ThreadRecord, Labels
<1>5. val_seq' \in 0 .. Wrap - 1
  BY <1>1, BoAssumption DEF EuStart
<1>6. /\ q.pc = "scan" /\ q.list = th[t].list /\ q.pos = th[t].pos /\ q.next = th[t].next
      /\ q.removed = th[t].removed
  BY <1>1 DEF ThreadRecord
<1>7. t \in Validators /\ th[t].next = NoOne
  BY <1>1, <1>3 DEF Controlled, In, Locking, Helping
<1>8. UNCHANGED <<bo, lru, ddestroy, wq, max_gmr_ids>>
  BY DEF EuStart
<1> HIDE DEF q
<1>9. Controlled(t, q, t)
  BY <1>1, <1>3, <1>4, <1>6, <1>7, PlainControl DEF Plain, Submitting
<1>10. QED
  BY <1>2, <1>3, <1>4, <1>5, <1>6, <1>7, <1>8, <1>9, PlainStep DEF Plain

\* The wait for a reserved buffer is over.
LEMMA EuBusyDoneInv ==
  ASSUME IInv, NEW t \in Threads, EuBusyDone(t), UNCHANGED max_gmr_ids
  PROVE  IInv'
<1> DEFINE q == [th[t] EXCEPT !.pc = "scan", !.obj = NoOne]
<1>1. /\ th[t] \in ThreadRecord /\ Controlled(t, th[t], lru_lock) /\ t # NoOne
      /\ val_seq \in 0 .. Wrap - 1
  BY ThreadIs DEF IInv, TypeOK
<1>2. th' = [th EXCEPT ![t] = q] /\ th'[t] = q
  BY ThreadIs DEF EuBusyDone
<1>3. th[t].pc = "busywait" /\ lru_lock = NoOne /\ lru_lock' = t
  BY DEF EuBusyDone, Unlocked
<1>4. q \in ThreadRecord
  BY <1>1 DEF ThreadRecord, Labels
<1>5. /\ q.pc = "scan" /\ q.list = th[t].list /\ q.pos = th[t].pos /\ q.next = th[t].next
      /\ q.removed = th[t].removed
  BY <1>1 DEF ThreadRecord
<1>6. t \in Validators /\ th[t].next = NoOne
  BY <1>1, <1>3 DEF Controlled, In, Locking, Helping
<1>7. UNCHANGED <<bo, lru, ddestroy, wq, max_gmr_ids>> /\ val_seq' \in 0 .. Wrap - 1
  BY <1>1 DEF EuBusyDone
<1> HIDE DEF q
<1>8. Controlled(t, q, t)
  BY <1>1, <1>3, <1>4, <1>5, <1>6, PlainControl DEF Plain, Submitting
<1>9. QED
  BY <1>2, <1>3, <1>4, <1>5, <1>6, <1>7, <1>8, PlainStep DEF Plain

\* Plain steps that leave lru_lock alone.
LEMMA PlaceStep ==
  ASSUME IInv, NEW t \in Threads, NEW q \in ThreadRecord, th' = [th EXCEPT ![t] = q],
         UNCHANGED <<bo, lru, ddestroy, val_seq, wq, lru_lock, max_gmr_ids>>,
         th[t].pc \in Plain \ {"scan", "idle", "wqnext"},
         q.pc \in Plain \ {"scan", "grab", "wqnext"},
         q.list = th[t].list, q.pos = th[t].pos, q.next = th[t].next,
         q.removed = th[t].removed,
         q.pc \in Locking \cup Submitting => th[t].pc \in Locking \cup Submitting,
         q.pc \in Submitting => th[t].pc \in Submitting,
         q.pc \in {"idle", "unref"} => th[t].pc \in {"unref", "grab"},
         q.pc = "idle" => th[t].list = <<>>
  PROVE  IInv'
<1>1. /\ th[t] \in ThreadRecord /\ Controlled(t, th[t], lru_lock) /\ th'[t] = q
      /\ val_seq \in 0 .. Wrap - 1 /\ lru_lock \in Validators \cup {NoOne}
  BY ThreadIs DEF IInv, TypeOK
<1>2. th[t].next = NoOne
  BY <1>1 DEF Controlled, In, Helping, Plain
<1>3. q.pc \in Locking \cup Submitting => t \in Validators
  BY <1>1 DEF Controlled, In
<1>4. q.pc = "scan" <=> lru_lock = t
  BY <1>1 DEF Controlled
<1>5. Controlled(t, q, lru_lock)
  BY <1>1, <1>2, <1>3, <1>4, PlainControl
<1>6. QED
  BY <1>1, <1>5, PlainStep

\* The wait after a back-off is over.
LEMMA EuRetryInv == ASSUME IInv, NEW t \in Threads, EuRetry(t), UNCHANGED max_gmr_ids PROVE IInv'
<1> DEFINE q == [th[t] EXCEPT !.pc = "retry", !.obj = NoOne]
<1>1. th[t] \in ThreadRecord /\ th' = [th EXCEPT ![t] = q]
  BY ThreadIs DEF EuRetry
<1>2. q \in ThreadRecord
  BY <1>1 DEF ThreadRecord, Labels
<1>3. /\ q.pc = "retry" /\ q.list = th[t].list /\ q.pos = th[t].pos /\ q.next = th[t].next
      /\ q.removed = th[t].removed
  BY <1>1 DEF ThreadRecord
<1>4. /\ th[t].pc \in {"againwait", "cpuwait"}
      /\ UNCHANGED <<bo, lru, ddestroy, val_seq, wq, lru_lock, max_gmr_ids>>
  BY DEF EuRetry
<1> HIDE DEF q
<1>5. QED
  BY <1>1, <1>2, <1>3, <1>4, PlaceStep DEF Plain, Locking, Submitting

\* A buffer that is where it should be.
LEMMA ValidateInPlaceInv ==
  ASSUME IInv, NEW t \in Threads, ValidateInPlace(t), UNCHANGED max_gmr_ids
  PROVE  IInv'
<1> DEFINE q == [th[t] EXCEPT !.at = @ + 1]
<1>1. th[t] \in ThreadRecord /\ th' = [th EXCEPT ![t] = q]
  BY ThreadIs DEF ValidateInPlace
<1>2. q \in ThreadRecord
  BY <1>1 DEF ThreadRecord, Labels
<1>3. /\ q.pc = th[t].pc /\ q.list = th[t].list /\ q.pos = th[t].pos /\ q.next = th[t].next
      /\ q.removed = th[t].removed
  BY <1>1 DEF ThreadRecord
<1>4. /\ th[t].pc = "validate"
      /\ UNCHANGED <<bo, lru, ddestroy, val_seq, wq, lru_lock, max_gmr_ids>>
  BY DEF ValidateInPlace, Validating
<1> HIDE DEF q
<1>5. QED
  BY <1>1, <1>2, <1>3, <1>4, PlaceStep DEF Plain, Locking, Submitting

\* The three ways to leave a place for another without any effect.
LEMMA GotoInv ==
  ASSUME IInv, NEW t \in Threads, ValidateFails(t) \/ EvictNothing(t), UNCHANGED max_gmr_ids
  PROVE  IInv'
<1> DEFINE q == [th[t] EXCEPT !.pc = "backoff"]
<1>1. th[t] \in ThreadRecord /\ th' = [th EXCEPT ![t] = q]
  BY ThreadIs DEF ValidateFails, EvictNothing, Goto
<1>2. q \in ThreadRecord
  BY <1>1 DEF ThreadRecord, Labels
<1>3. /\ q.pc = "backoff" /\ q.list = th[t].list /\ q.pos = th[t].pos /\ q.next = th[t].next
      /\ q.removed = th[t].removed
  BY <1>1 DEF ThreadRecord
<1>4. /\ th[t].pc \in {"validate", "evict"}
      /\ UNCHANGED <<bo, lru, ddestroy, val_seq, wq, lru_lock, max_gmr_ids>>
  BY DEF ValidateFails, Validating, EvictNothing
<1> HIDE DEF q
<1>5. QED
  BY <1>1, <1>2, <1>3, <1>4, PlaceStep DEF Plain, Locking, Submitting

\* A CPU writer gives up on a reserved buffer.
LEMMA GrabBusyInv ==
  ASSUME IInv, NEW t \in Threads, GrabBusy(t), UNCHANGED max_gmr_ids
  PROVE  IInv'
<1> DEFINE q == [th[t] EXCEPT !.pc = "unref", !.obj = NoOne]
<1>1. th[t] \in ThreadRecord /\ th' = [th EXCEPT ![t] = q]
  BY ThreadIs DEF GrabBusy
<1>2. q \in ThreadRecord
  BY <1>1 DEF ThreadRecord, Labels
<1>3. /\ q.pc = "unref" /\ q.list = th[t].list /\ q.pos = th[t].pos /\ q.next = th[t].next
      /\ q.removed = th[t].removed
  BY <1>1 DEF ThreadRecord
<1>4. /\ th[t].pc = "grab"
      /\ UNCHANGED <<bo, lru, ddestroy, val_seq, wq, lru_lock, max_gmr_ids>>
  BY DEF GrabBusy
<1> HIDE DEF q
<1>5. QED
  BY <1>1, <1>2, <1>3, <1>4, PlaceStep DEF Plain, Locking, Submitting

\* The last reference of a thread has gone.
LEMMA UnrefDoneInv ==
  ASSUME IInv, NEW t \in Threads, UnrefDone(t), UNCHANGED max_gmr_ids
  PROVE  IInv'
<1>1. th[t] \in ThreadRecord /\ Controlled(t, th[t], lru_lock) /\ th' = [th EXCEPT ![t] = NewThread]
  BY ThreadIs DEF UnrefDone
<1>2. NewThread \in ThreadRecord
  BY EmptySeq, BoAssumption DEF NewThread, ThreadRecord, Labels
<1>3. th[t].pc = "unref" /\ th[t].list = <<>>
  BY DEF UnrefDone
<1>4. th[t].pos = 1 /\ th[t].next = NoOne /\ \A b \in th[t].removed : On(Reserved(th[t]), b)
  BY <1>1, <1>3 DEF Controlled, In, Helping
<1>5. th[t].removed = {}
  BY <1>1, <1>4, ReservedIs DEF Controlled
<1>6. UNCHANGED <<bo, lru, ddestroy, val_seq, wq, lru_lock, max_gmr_ids>>
  BY DEF UnrefDone
<1>7. QED
  BY <1>1, <1>2, <1>3, <1>4, <1>5, <1>6, PlaceStep DEF Plain, Locking, Submitting, NewThread

-----------------------------------------------------------------------------
(* Steps that touch one buffer. *)

\* A step of t that changes buffer o, or what o sees of t, and no other buffer.
LEMMA OneStep ==
  ASSUME IInv, NEW t \in Threads, NEW q \in ThreadRecord, th' = [th EXCEPT ![t] = q],
         NEW o \in Buffers, NEW r \in LooseRecord, bo' = [bo EXCEPT ![o] = r],
         LruType', ddestroy' \in Seq(Buffers), wq' \in BOOLEAN,
         UNCHANGED <<val_seq, lru_lock, max_gmr_ids>>,
         Controlled(t, q, lru_lock),
         \A b \in Buffers \ {o} :
           /\ SameLinks(b) /\ SameView(th[t], q, b)
           /\ On(ddestroy', b) <=> On(ddestroy, b)
           /\ ~At(q, {"cleanreserve"}, b),
         Sound(o)' /\ Nats(o)'
  PROVE  IInv'
<1>1. th'[t] = q /\ Others(t) /\ th' \in [Threads -> ThreadRecord]
  BY ThreadIs DEF Others
<1>2. bo' \in [Buffers -> LooseRecord] /\ \A b \in Buffers \ {o} : bo'[b] = bo[b]
  BY ThreadIs
<1>3. Typed'
  BY <1>1, <1>2 DEF IInv, TypeOK, Typed
<1>4. ASSUME NEW b \in Buffers \ {o} PROVE Sound(b)' /\ Nats(b)'
  <2>1. SameBuffer(b)
    BY <1>2 DEF SameBuffer
  <2>2. QED
    BY <1>1, <1>3, <2>1, Untouched DEF IInv
<1>5. QED
  BY <1>1, <1>3, <1>4, Step

\* The buffer o keeps its references and its reservation too.
LEMMA OneQuietStep ==
  ASSUME IInv, NEW t \in Threads, NEW q \in ThreadRecord, th' = [th EXCEPT ![t] = q],
         NEW o \in Buffers, NEW r \in LooseRecord, bo' = [bo EXCEPT ![o] = r],
         UNCHANGED <<lru, ddestroy, wq, val_seq, lru_lock, max_gmr_ids>>,
         Controlled(t, q, lru_lock),
         SameBuffer(o),
         \A b \in Buffers : SameView(th[t], q, b),
         \A b \in Buffers : At(q, {"cleanreserve"}, b) => b = o /\ r.sync = "none"
  PROVE  IInv'
<1>1. th'[t] = q /\ Others(t) /\ th' \in [Threads -> ThreadRecord]
  BY ThreadIs DEF Others
<1>2. bo' \in [Buffers -> LooseRecord] /\ bo'[o] = r
  BY ThreadIs
<1>3. Typed'
  BY <1>1, <1>2, ThreadIs DEF IInv, TypeOK, Typed, LruType
<1>4. \A b \in Buffers : SameLinks(b)
  BY DEF SameLinks
<1>5. Sound(o)' /\ Nats(o)'
  BY <1>1, <1>2, <1>3, <1>4, Untouched DEF IInv
<1>6. QED
  BY <1>3, <1>4, <1>5, OneStep DEF IInv, TypeOK, Typed

\* The buffer ttm_bo_validate works on is reserved and has memory.
LEMMA EntryIs ==
  ASSUME IInv, NEW t \in Threads, Validating(t)
  PROVE  /\ Target(t) \in Buffers /\ On(Reserved(th[t]), Target(t))
         /\ On(th[t].list, Target(t)) /\ th[t].at + 1 \in Nat
         /\ bo[Target(t)].mem # "none" /\ bo[Target(t)] \in BoRecord
<1>1. /\ th[t] \in ThreadRecord /\ Controlled(t, th[t], lru_lock)
      /\ th[t].pc = "validate" /\ th[t].at <= Len(th[t].list)
      /\ th[t].list \in Seq(Buffers) /\ th[t].pos \in 1 .. Len(th[t].list) + 1
  BY ThreadIs DEF Validating
<1>2. th[t].pos = Len(th[t].list) + 1
  BY <1>1 DEF Controlled, In, Submitting
<1>3. th[t].at \in 1 .. Len(th[t].list) /\ th[t].at + 1 \in Nat
  BY <1>1 DEF ThreadRecord
<1>4. Target(t) \in Buffers /\ On(th[t].list, Target(t))
  BY <1>1, <1>3, OnIs DEF Target
<1>5. On(Reserved(th[t]), Target(t))
  BY <1>1, <1>2, <1>4, ReservedIs
<1>6. Sound(Target(t)) /\ bo[Target(t)] \in BoRecord
  BY <1>4, ThreadIs DEF IInv
<1>7. bo[Target(t)].kref > 0
  BY <1>4, <1>6, UserCounts DEF Sound
<1>8. bo[Target(t)].mem # "none"
  BY <1>6, <1>7 DEF Sound, Life, Present
<1>9. QED
  BY <1>3, <1>4, <1>5, <1>6, <1>8

\* A buffer is moved, or waits for space.
LEMMA ValidateMoveInv ==
  ASSUME IInv, NEW t \in Threads, ValidateMove(t) \/ ValidateNoSpace(t), UNCHANGED max_gmr_ids
  PROVE  IInv'
<1> DEFINE o == Target(t)
<1>1. /\ th[t] \in ThreadRecord /\ Controlled(t, th[t], lru_lock)
      /\ Validating(t) /\ th[t].pc = "validate"
      /\ UNCHANGED <<lru, ddestroy, wq, val_seq, lru_lock, max_gmr_ids>>
  BY ThreadIs DEF ValidateMove, ValidateNoSpace, Validating
<1>2. /\ o \in Buffers /\ bo[o] \in BoRecord /\ bo[o] \in LooseRecord /\ bo[o].mem # "none"
      /\ th[t].at + 1 \in Nat \ {0}
  BY <1>1, EntryIs, ThreadIs DEF ThreadRecord
<1>3. "gmr" \in MemTypes \cup {"none"}
  BY DEF MemTypes
<1>4. PICK q \in ThreadRecord, r \in LooseRecord :
        /\ th' = [th EXCEPT ![t] = q] /\ bo' = [bo EXCEPT ![o] = r]
        /\ q.pc \in {"validate", "evict"} /\ q.list = th[t].list /\ q.pos = th[t].pos
        /\ q.next = th[t].next /\ q.removed = th[t].removed
        /\ r.kref = bo[o].kref /\ r.handle = bo[o].handle /\ r.list_kref = bo[o].list_kref
        /\ r.freed = bo[o].freed /\ r.reserved = bo[o].reserved
        /\ r.cpu_writers = bo[o].cpu_writers /\ r.sync = "none" /\ r.mem # "none"
  <2>1. CASE ValidateMove(t)
    <3> DEFINE q == [th[t] EXCEPT !.at = @ + 1]
               r == [bo[o] EXCEPT !.sync = "none", !.mem = "gmr"]
    <3>1. th' = [th EXCEPT ![t] = q] /\ bo' = [bo EXCEPT ![o] = r]
      BY <2>1, ThreadIs DEF ValidateMove
    <3>2. q \in ThreadRecord
      BY <1>1, <1>2 DEF ThreadRecord
    <3>3. r \in LooseRecord
      BY <1>2, <1>3 DEF LooseRecord
    <3>4. /\ q.pc = "validate" /\ q.list = th[t].list /\ q.pos = th[t].pos
          /\ q.next = th[t].next /\ q.removed = th[t].removed
          /\ r.kref = bo[o].kref /\ r.handle = bo[o].handle /\ r.list_kref = bo[o].list_kref
          /\ r.freed = bo[o].freed /\ r.reserved = bo[o].reserved
          /\ r.cpu_writers = bo[o].cpu_writers /\ r.sync = "none" /\ r.mem # "none"
      BY <1>1, <1>2 DEF ThreadRecord, BoRecord
    <3> HIDE DEF q, r, o
    <3>5. QED
      BY <3>1, <3>2, <3>3, <3>4
  <2>2. CASE ValidateNoSpace(t)
    <3> DEFINE q == [th[t] EXCEPT !.pc = "evict"]
               r == [bo[o] EXCEPT !.sync = "none"]
    <3>1. th' = [th EXCEPT ![t] = q] /\ bo' = [bo EXCEPT ![o] = r]
      BY <2>2, ThreadIs DEF ValidateNoSpace, Goto
    <3>2. q \in ThreadRecord
      BY <1>1, <1>2 DEF ThreadRecord, Labels
    <3>3. r \in LooseRecord
      BY <1>2, <1>3 DEF LooseRecord
    <3>4. /\ q.pc = "evict" /\ q.list = th[t].list /\ q.pos = th[t].pos
          /\ q.next = th[t].next /\ q.removed = th[t].removed
          /\ r.kref = bo[o].kref /\ r.handle = bo[o].handle /\ r.list_kref = bo[o].list_kref
          /\ r.freed = bo[o].freed /\ r.reserved = bo[o].reserved
          /\ r.cpu_writers = bo[o].cpu_writers /\ r.sync = "none" /\ r.mem # "none"
      BY <1>1, <1>2 DEF ThreadRecord, BoRecord
    <3> HIDE DEF q, r, o
    <3>5. QED
      BY <3>1, <3>2, <3>3, <3>4
  <2>3. QED
    BY <2>1, <2>2
<1> HIDE DEF o
<1>5. bo'[o] = r /\ \A b \in Buffers \ {o} : bo'[b] = bo[b]
  BY <1>2, <1>4, ThreadIs
<1>6. SameBuffer(o)
  BY <1>1, <1>2, <1>4, <1>5 DEF SameBuffer
<1>7. th[t].next = NoOne /\ t \in Validators /\ lru_lock # t
  BY <1>1 DEF Controlled, In, Submitting, Helping
<1>8. Controlled(t, q, lru_lock)
  BY <1>1, <1>4, <1>7, PlainControl DEF Plain, Submitting, Locking
<1>9. \A b \in Buffers : SameView(th[t], q, b) /\ ~At(q, {"cleanreserve"}, b)
  BY <1>1, <1>4, ViewSame DEF Plain, At
<1>10. QED
  BY <1>1, <1>2, <1>4, <1>6, <1>8, <1>9, OneQuietStep

-----------------------------------------------------------------------------
(* Threads that help. *)

\* The buffer a helping or releasing thread, or a CPU writer, works on.
LEMMA HelperIs ==
  ASSUME IInv, NEW t \in Threads, th[t].pc \in Helping \cup {"release"} \cup Grabbing
  PROVE  /\ th[t].obj \in Buffers /\ Sound(th[t].obj)
         /\ bo[th[t].obj] \in BoRecord /\ bo[th[t].obj] \in LooseRecord
         /\ th[t] \in ThreadRecord /\ Controlled(t, th[t], lru_lock)
         /\ lru_lock # t
<1>1. th[t] \in ThreadRecord /\ Controlled(t, th[t], lru_lock)
  BY ThreadIs
<1>2. th[t].obj \in Buffers /\ lru_lock # t
  BY <1>1 DEF Controlled, Helping, Grabbing
<1>3. QED
  BY <1>1, <1>2, ThreadIs DEF IInv

\* A helper that keeps its buffer sees the buffers as before.
LEMMA HelpView ==
  ASSUME NEW r, NEW q, NEW b,
         q.obj = r.obj, q.list = r.list, q.pos = r.pos, q.next = r.next,
         r.pc \in {"objput", "cleanwait", "cleanreserve"},
         q.pc \in {"objput", "cleanwait", "cleanreserve"},
         q.pc = "objput" \/ r.pc # "objput"
  PROVE  SameView(r, q, b)
<1>1. Reserved(q) = Reserved(r)
  BY DEF Reserved
<1>2. \A S \in {{"cpu"}, {"release"}, {"memtype"}, {"grabwait"}, {"evicting", "swapping"}, Helping} :
       At(q, S, b) <=> At(r, S, b)
  BY DEF At, Helping
<1>3. At(q, {"cleanwait", "cleanreserve"}, b) => At(r, {"cleanwait", "cleanreserve"}, b)
  BY DEF At
<1>4. ~At(q, {"memtype"}, b)
  BY DEF At
<1>5. QED
  BY <1>1, <1>2, <1>3, <1>4 DEF SameView

\* ttm_bo_cleanup_refs has waited for the device.
LEMMA CleanWaitInv ==
  ASSUME IInv, NEW t \in Threads, CleanWait(t), UNCHANGED max_gmr_ids
  PROVE  IInv'
<1> DEFINE o == th[t].obj
           q == [th[t] EXCEPT !.pc = "cleanreserve"]
           r == [bo[o] EXCEPT !.sync = "none"]
<1>1. th[t].pc = "cleanwait" /\ UNCHANGED <<lru, ddestroy, wq, val_seq, lru_lock, max_gmr_ids>>
  BY DEF CleanWait
<1>2. /\ o \in Buffers /\ bo[o] \in LooseRecord /\ th[t] \in ThreadRecord
      /\ Controlled(t, th[t], lru_lock)
  BY <1>1, HelperIs DEF Helping
<1>3. th' = [th EXCEPT ![t] = q] /\ bo' = [bo EXCEPT ![o] = r]
  BY ThreadIs DEF CleanWait, Goto
<1>4. q \in ThreadRecord
  BY <1>2 DEF ThreadRecord, Labels
<1>5. r \in LooseRecord
  BY <1>2 DEF LooseRecord
<1>6. /\ q.pc = "cleanreserve" /\ q.list = th[t].list /\ q.pos = th[t].pos /\ q.obj = o
      /\ q.next = th[t].next /\ q.removed = th[t].removed /\ q.ret = th[t].ret
  BY <1>2 DEF ThreadRecord
<1>7. /\ r.kref = bo[o].kref /\ r.handle = bo[o].handle /\ r.list_kref = bo[o].list_kref
      /\ r.freed = bo[o].freed /\ r.reserved = bo[o].reserved
      /\ r.cpu_writers = bo[o].cpu_writers /\ r.sync = "none" /\ r.mem = bo[o].mem
  BY <1>2 DEF LooseRecord
<1> HIDE DEF q, r, o
<1>8. SameBuffer(o)
  <2>1. bo'[o] = r
    BY <1>2, <1>3, ThreadIs
  <2>2. QED
    BY <1>1, <1>7, <2>1 DEF SameBuffer
<1>9. Controlled(t, q, lru_lock)
  <2>1. Reserved(q) = Reserved(th[t])
    BY <1>6 DEF Reserved
  <2>2. \A S : S \cap Helping = {} => (In(q, S) <=> In(th[t], S))
    BY <1>1, <1>6 DEF In, Helping
  <2>3. QED
    BY <1>1, <1>2, <1>6, <2>1, <2>2 DEF Controlled, Helping, Submitting, Grabbing, Locking
<1>10. \A b \in Buffers : SameView(th[t], q, b) /\ (At(q, {"cleanreserve"}, b) => b = o)
  BY <1>1, <1>6, HelpView DEF At, o
<1>11. QED
  BY <1>1, <1>2, <1>3, <1>4, <1>5, <1>7, <1>8, <1>9, <1>10, OneQuietStep

\* It gives up.
LEMMA CleanFailsInv ==
  ASSUME IInv, NEW t \in Threads, CleanFails(t), UNCHANGED max_gmr_ids
  PROVE  IInv'
<1> DEFINE o == th[t].obj
<1>1. /\ th[t].pc \in {"cleanwait", "cleanreserve"}
      /\ UNCHANGED <<bo, lru, ddestroy, wq, val_seq, lru_lock, max_gmr_ids>>
  BY DEF CleanFails
<1>2. /\ o \in Buffers /\ bo[o] \in LooseRecord /\ th[t] \in ThreadRecord
      /\ Controlled(t, th[t], lru_lock)
  BY <1>1, HelperIs DEF Helping
<1>3. PICK ret \in {"backoff", "evict"} :
        th' = [th EXCEPT ![t].pc = "objput", ![t].error = (t = Worker),
                         ![t].ret = IF t \in Validators THEN ret ELSE @]
  BY DEF CleanFails
<1> DEFINE q == [th[t] EXCEPT !.pc = "objput", !.error = (t = Worker),
                              !.ret = IF t \in Validators THEN ret ELSE @]
<1>4. th' = [th EXCEPT ![t] = q]
  BY <1>3, ThreadIs
<1>5. q \in ThreadRecord
  BY <1>2 DEF ThreadRecord, Labels
<1>6. /\ q.pc = "objput" /\ q.list = th[t].list /\ q.pos = th[t].pos /\ q.obj = o
      /\ q.next = th[t].next /\ q.removed = th[t].removed
      /\ q.ret = (IF t \in Validators THEN ret ELSE th[t].ret)
  BY <1>2 DEF ThreadRecord
<1> HIDE DEF q, o
<1>7. SameBuffer(o) /\ bo' = [bo EXCEPT ![o] = bo[o]]
  BY <1>1, <1>2, ThreadIs DEF SameBuffer
<1>8. Controlled(t, q, lru_lock)
  <2>1. Reserved(q) = Reserved(th[t])
    BY <1>6 DEF Reserved
  <2>2. th[t].ret \in {"idle", "validate", "wqnext"} /\ (th[t].ret = "wqnext" => t = Worker)
    BY <1>1, <1>2 DEF Controlled, In, Helping
  <2>3. CASE t \in Validators
    <3>1. th[t].ret \in {"idle", "validate"} /\ t # Worker
      BY <2>2, <2>3, BoAssumption
    <3>2. th[t].next = NoOne
      BY <1>1, <1>2, <3>1 DEF Controlled
    <3>3. q.pos = Len(q.list) + 1
      <4>1. CASE th[t].ret = "validate"
        BY <1>1, <1>2, <1>6, <4>1 DEF Controlled, In, Helping, Submitting
      <4>2. CASE th[t].ret = "idle"
        <5>1. th[t].pos = 1 /\ th[t].list = <<>>
          BY <1>1, <1>2, <4>2 DEF Controlled, In, Helping
        <5>2. QED
          BY <1>6, <5>1
      <4>3. QED
        BY <3>1, <4>1, <4>2
    <3>4. q.ret \in {"backoff", "evict"}
      BY <1>3, <1>6, <2>3
    <3>5. QED
      BY <1>1, <1>2, <1>6, <2>1, <2>3, <3>2, <3>3, <3>4
      DEF Controlled, In, Helping, Submitting, Grabbing, Locking
  <2>4. CASE t \notin Validators
    <3>1. q.ret = th[t].ret
      BY <1>6, <2>4
    <3>2. \A S : S \cap Helping = {} => (In(q, S) <=> In(th[t], S))
      BY <1>1, <1>6, <3>1 DEF In, Helping
    <3>3. QED
      BY <1>1, <1>2, <1>6, <2>1, <2>2, <3>1, <3>2
      DEF Controlled, Helping, Submitting, Grabbing, Locking
  <2>5. QED
    BY <2>3, <2>4
<1>9. \A b \in Buffers : SameView(th[t], q, b) /\ ~At(q, {"cleanreserve"}, b)
  BY <1>1, <1>6, HelpView DEF At, o
<1>10. QED
  BY <1>1, <1>2, <1>4, <1>5, <1>7, <1>8, <1>9, OneQuietStep

\* The device is no thread: whichever thread one looks at stays where it is.
LEMMA SignalInv ==
  ASSUME IInv, NEW o \in Buffers, Signal(o), UNCHANGED max_gmr_ids
  PROVE  IInv'
<1>1. Worker \in Threads
  BY DEF Threads
<1> DEFINE r == [bo[o] EXCEPT !.sync = "signaled"]
<1>2. /\ bo[o].sync = "busy" /\ bo' = [bo EXCEPT ![o] = r]
      /\ UNCHANGED <<lru, ddestroy, wq, val_seq, lru_lock, th, max_gmr_ids>>
  BY ThreadIs, <1>1 DEF Signal
<1>3. bo[o] \in LooseRecord /\ bo \in [Buffers -> LooseRecord]
  BY <1>1, ThreadIs
<1>4. /\ r \in LooseRecord
      /\ r.kref = bo[o].kref /\ r.handle = bo[o].handle /\ r.list_kref = bo[o].list_kref
      /\ r.freed = bo[o].freed /\ r.reserved = bo[o].reserved
      /\ r.cpu_writers = bo[o].cpu_writers /\ r.mem = bo[o].mem
  BY <1>3 DEF LooseRecord
<1> HIDE DEF r
<1>5. bo' \in [Buffers -> LooseRecord] /\ bo'[o] = r /\ \A b \in Buffers \ {o} : bo'[b] = bo[b]
  BY <1>2, <1>3, <1>4
<1>6. Typed'
  BY <1>2, <1>5, ThreadIs, <1>1 DEF IInv, TypeOK, Typed, LruType
<1>7. Others(Worker) /\ Controlled(Worker, th'[Worker], lru_lock')
  BY <1>1, <1>2, ThreadIs DEF Others
<1>8. ASSUME NEW b \in Buffers
      PROVE  /\ SameBuffer(b) /\ SameLinks(b) /\ SameView(th[Worker], th'[Worker], b)
             /\ At(th'[Worker], {"cleanreserve"}, b) => bo'[b].sync = "none"
  <2>1. SameLinks(b) /\ SameView(th[Worker], th'[Worker], b)
    BY <1>2 DEF SameLinks, SameView
  <2>2. SameBuffer(b)
    BY <1>2, <1>4, <1>5 DEF SameBuffer
  <2>3. At(th[Worker], {"cleanreserve"}, b) => bo[b].sync = "none"
    BY <1>1 DEF IInv, Sound, Life
  <2>4. QED
    BY <1>2, <1>5, <2>1, <2>2, <2>3
<1>9. QED
  BY <1>1, <1>2, <1>6, <1>7, <1>8, QuietStep

-----------------------------------------------------------------------------
(* Steps that change the references of a buffer. *)

\* Whether somebody releases b changes only with t.
LEMMA ReleasingIs ==
  ASSUME NEW t \in Threads, NEW b, Others(t)
  PROVE  /\ (At(th'[t], {"release"}, b) <=> At(th[t], {"release"}, b)) =>
              (Releasing(b)' <=> Releasing(b))
         /\ At(th'[t], {"release"}, b) => Releasing(b)'
         /\ At(th[t], {"release"}, b) => Releasing(b)
         /\ At(th[t], {"release"}, b) /\ Life(b) /\ ~At(th'[t], {"release"}, b) => ~Releasing(b)'
<1>1. \A u \in Threads \ {t} : th'[u] = th[u]
  BY DEF Others
<1>2. Life(b) => \A u, v \in Threads : At(th[u], {"release"}, b) /\ At(th[v], {"release"}, b) => u = v
  BY DEF Life
<1>3. Releasing(b) <=> \E u \in Threads : At(th[u], {"release"}, b)
  BY DEF Releasing
<1>4. Releasing(b)' <=> \E u \in Threads : At(th'[u], {"release"}, b)
  BY DEF Releasing
<1>5. QED
  BY <1>1, <1>2, <1>3, <1>4

\* What has to be shown of a buffer that the step touches.
LEMMA BufferStep ==
  ASSUME IInv, Typed', NEW t \in Threads, NEW b \in Buffers, Others(t),
         bo'[b].kref = bo[b].kref
           + (IF On(th'[t].list, b) THEN 1 ELSE 0) - (IF On(th[t].list, b) THEN 1 ELSE 0)
           + (IF bo'[b].handle THEN 1 ELSE 0) - (IF bo[b].handle THEN 1 ELSE 0),
         bo'[b].cpu_writers = bo[b].cpu_writers
           + (IF At(th'[t], {"cpu"}, b) THEN 1 ELSE 0) - (IF At(th[t], {"cpu"}, b) THEN 1 ELSE 0),
         bo'[b].list_kref = bo[b].list_kref + (Linked(b)' - Linked(b)
           + (IF On(ddestroy', b) THEN 1 ELSE 0) - (IF On(ddestroy, b) THEN 1 ELSE 0)
           + (IF Alive(b)' THEN 1 ELSE 0) - (IF Alive(b) THEN 1 ELSE 0)
           + (IF At(th'[t], Helping, b) THEN 1 ELSE 0) - (IF At(th[t], Helping, b) THEN 1 ELSE 0)
           + (IF th'[t].next = b THEN 1 ELSE 0) - (IF th[t].next = b THEN 1 ELSE 0)
           + (IF At(th'[t], {"memtype"}, b) THEN th'[t].put ELSE 0)
           - (IF At(th[t], {"memtype"}, b) THEN th[t].put ELSE 0)),
         bo'[b].freed <=> bo'[b].list_kref = 0,
         Life(b)', Reservation(b)'
  PROVE  Sound(b)' /\ Nats(b)'
<1>1. /\ bo[b].kref \in Nat /\ bo[b].cpu_writers \in Nat /\ LruType /\ LruType'
      /\ \A u \in Threads : th[u].put \in Nat /\ th'[u].put \in Nat
      /\ Sound(b)
  BY DEF IInv, TypeOK, BoRecord, ThreadRecord, Typed, LruType, Queues
<1>2. Linked(b) \in Nat /\ Linked(b)' \in Nat
  BY <1>1, LinkSteps
<1> DEFINE k == (IF On(th'[t].list, b) THEN 1 ELSE 0) - (IF On(th[t].list, b) THEN 1 ELSE 0)
             + (IF bo'[b].handle THEN 1 ELSE 0) - (IF bo[b].handle THEN 1 ELSE 0)
           w == (IF At(th'[t], {"cpu"}, b) THEN 1 ELSE 0) - (IF At(th[t], {"cpu"}, b) THEN 1 ELSE 0)
           d == Linked(b)' - Linked(b)
             + (IF On(ddestroy', b) THEN 1 ELSE 0) - (IF On(ddestroy, b) THEN 1 ELSE 0)
             + (IF Alive(b)' THEN 1 ELSE 0) - (IF Alive(b) THEN 1 ELSE 0)
             + (IF At(th'[t], Helping, b) THEN 1 ELSE 0) - (IF At(th[t], Helping, b) THEN 1 ELSE 0)
             + (IF th'[t].next = b THEN 1 ELSE 0) - (IF th[t].next = b THEN 1 ELSE 0)
             + (IF At(th'[t], {"memtype"}, b) THEN th'[t].put ELSE 0)
             - (IF At(th[t], {"memtype"}, b) THEN th[t].put ELSE 0)
<1>3. k \in Int /\ w \in Int /\ d \in Int
  BY <1>1, <1>2
<1>4. Counted(b)' /\ bo'[b].kref \in Nat /\ bo'[b].cpu_writers \in Nat
  <2>1. bo'[b].kref = bo[b].kref + k /\ bo'[b].cpu_writers = bo[b].cpu_writers + w
    BY <1>1
  <2>2. QED
    BY <1>1, <1>3, <2>1, CountedStep DEF Sound
<1>5. Pointed(b)' /\ bo'[b].list_kref \in Nat
  BY <1>1, <1>3, PointedStep DEF Sound
<1>6. QED
  BY <1>4, <1>5 DEF Sound, Nats

\* A step that touches one buffer.
LEMMA TouchStep ==
  ASSUME IInv, NEW t \in Threads, NEW q \in ThreadRecord, th' = [th EXCEPT ![t] = q],
         NEW o \in Buffers, NEW r \in LooseRecord, bo' = [bo EXCEPT ![o] = r],
         LruType', ddestroy' \in Seq(Buffers), wq' \in BOOLEAN,
         UNCHANGED <<val_seq, lru_lock, max_gmr_ids>>,
         Controlled(t, q, lru_lock),
         \A b \in Buffers \ {o} :
           /\ SameLinks(b) /\ SameView(th[t], q, b)
           /\ On(ddestroy', b) <=> On(ddestroy, b)
           /\ ~At(q, {"cleanreserve"}, b),
         r.kref = bo[o].kref
           + (IF On(q.list, o) THEN 1 ELSE 0) - (IF On(th[t].list, o) THEN 1 ELSE 0)
           + (IF r.handle THEN 1 ELSE 0) - (IF bo[o].handle THEN 1 ELSE 0),
         r.cpu_writers = bo[o].cpu_writers
           + (IF At(q, {"cpu"}, o) THEN 1 ELSE 0) - (IF At(th[t], {"cpu"}, o) THEN 1 ELSE 0),
         r.list_kref = bo[o].list_kref + (Linked(o)' - Linked(o)
           + (IF On(ddestroy', o) THEN 1 ELSE 0) - (IF On(ddestroy, o) THEN 1 ELSE 0)
           + (IF Alive(o)' THEN 1 ELSE 0) - (IF Alive(o) THEN 1 ELSE 0)
           + (IF At(q, Helping, o) THEN 1 ELSE 0) - (IF At(th[t], Helping, o) THEN 1 ELSE 0)
           + (IF q.next = o THEN 1 ELSE 0) - (IF th[t].next = o THEN 1 ELSE 0)
           + (IF At(q, {"memtype"}, o) THEN q.put ELSE 0)
           - (IF At(th[t], {"memtype"}, o) THEN th[t].put ELSE 0)),
         r.freed <=> r.list_kref = 0,
         Life(o)', Reservation(o)'
  PROVE  IInv'
<1>1. th'[t] = q /\ Others(t) /\ th' \in [Threads -> ThreadRecord]
  BY ThreadIs DEF Others
<1>2. bo' \in [Buffers -> LooseRecord] /\ bo'[o] = r
  BY ThreadIs
<1>3. Typed'
  BY <1>1, <1>2 DEF IInv, TypeOK, Typed
<1>4. Sound(o)' /\ Nats(o)'
  BY <1>1, <1>2, <1>3, BufferStep
<1>5. QED
  BY <1>4, OneStep

\* What holds of a buffer before a step of t.
LEMMA BufferIs ==
  ASSUME IInv, NEW t \in Threads, NEW o \in Buffers
  PROVE  /\ Sound(o) /\ Counted(o) /\ Life(o) /\ Reservation(o)
         /\ bo[o].kref \in Nat /\ bo[o].list_kref \in Nat /\ bo[o].cpu_writers \in Nat
         /\ bo[o].reserved \in Threads \cup {NoOne} /\ t # NoOne
         /\ Linked(o) \in Nat /\ (OnLru(o) <=> Linked(o) > 0)
         /\ bo[o].list_kref >= Linked(o) + (IF On(ddestroy, o) THEN 1 ELSE 0)
              + (IF Alive(o) THEN 1 ELSE 0) + (IF At(th[t], Helping, o) THEN 1 ELSE 0)
              + (IF th[t].next = o THEN 1 ELSE 0)
              + (IF At(th[t], {"memtype"}, o) THEN th[t].put ELSE 0)
         /\ bo[o].freed <=> bo[o].list_kref = 0
<1>1. Sound(o) /\ bo[o] \in BoRecord /\ LruType /\ t # NoOne
      /\ \A u \in Threads : th[u].put \in Nat
  BY ThreadIs DEF IInv
<1>2. /\ bo[o].kref \in Nat /\ bo[o].list_kref \in Nat /\ bo[o].cpu_writers \in Nat
      /\ bo[o].reserved \in Threads \cup {NoOne}
  BY <1>1 DEF BoRecord
<1>3. Linked(o) \in Nat /\ (OnLru(o) <=> Linked(o) > 0)
  BY <1>1, LinkedIs
<1>4. Counted(o) /\ Life(o) /\ Reservation(o) /\ Pointed(o)
  BY <1>1 DEF Sound
<1>5. QED
  BY <1>1, <1>2, <1>3, <1>4, PointedIs

\* A helper that goes on with its buffer.
LEMMA HelpControl ==
  ASSUME NEW t \in Threads, NEW r \in ThreadRecord, NEW q \in ThreadRecord, NEW l,
         Controlled(t, r, l), r.pc \in Helping \cup {"release"},
         q.pc \in {"memtype", "objput"},
         q.obj = r.obj, q.list = r.list, q.pos = r.pos, q.next = r.next, q.removed = r.removed,
         q.ret = r.ret \/ (q.ret \in Submitting /\ r.ret \in Submitting)
  PROVE  Controlled(t, q, l)
<1>1. Reserved(q) = Reserved(r)
  BY DEF Reserved
<1>2. CASE q.ret = r.ret
  <2>1. \A S : S \cap (Helping \cup {"release"}) = {} => (In(q, S) <=> In(r, S))
    BY <1>2 DEF In, Helping
  <2>2. QED
    BY <1>1, <1>2, <2>1 DEF Controlled, Helping, Submitting, Grabbing, Locking
<1>3. CASE q.ret \in Submitting /\ r.ret \in Submitting
  <2>1. In(r, Submitting) /\ In(r, Locking \cup Submitting)
    BY <1>3 DEF In
  <2>2. /\ ~In(q, {"idle", "wqnext", "unref"} \cup Grabbing) /\ ~In(q, {"idle", "wqnext"})
        /\ ~In(q, {"wqnext"}) /\ ~In(r, {"wqnext"})
    BY <1>3 DEF In, Helping, Grabbing, Submitting
  <2>3. QED
    BY <1>1, <1>3, <2>1, <2>2 DEF Controlled, Helping, Submitting, Grabbing, Locking
<1>4. QED
  BY <1>2, <1>3

\* It works on no other buffer.
LEMMA OtherView ==
  ASSUME NEW r, NEW q, NEW b, r.obj # b \/ r.pc \in Plain, q.obj # b,
         q.list = r.list, q.pos = r.pos, q.next = r.next, r.pc # "scan"
  PROVE  SameView(r, q, b) /\ ~At(q, {"cleanreserve"}, b)
  BY ViewSame DEF At

-----------------------------------------------------------------------------
(* The fields of a buffer after an assignment. *)

\* The reservation goes, nothing else.
LEMMA UnreserveIs ==
  ASSUME NEW a \in LooseRecord
  PROVE  /\ Unreserve(a) \in LooseRecord
         /\ Unreserve(a).kref = a.kref /\ Unreserve(a).handle = a.handle
         /\ Unreserve(a).freed = a.freed /\ Unreserve(a).list_kref = a.list_kref
         /\ Unreserve(a).cpu_writers = a.cpu_writers /\ Unreserve(a).reserved = NoOne
         /\ Unreserve(a).sync = a.sync /\ Unreserve(a).mem = a.mem
  BY DEF LooseRecord, Unreserve

\* The reservation is taken, nothing else that counts.
LEMMA ReserveIs ==
  ASSUME NEW a \in LooseRecord, NEW t \in Threads
  PROVE  /\ Reserve(a, t) \in LooseRecord
         /\ Reserve(a, t).kref = a.kref /\ Reserve(a, t).handle = a.handle
         /\ Reserve(a, t).freed = a.freed /\ Reserve(a, t).list_kref = a.list_kref
         /\ Reserve(a, t).cpu_writers = a.cpu_writers /\ Reserve(a, t).reserved = t
         /\ Reserve(a, t).sync = a.sync /\ Reserve(a, t).mem = a.mem
  BY DEF LooseRecord, Reserve

\* One field at a time.
WithCount(a, n) == [a EXCEPT !.list_kref = n]
WithSync(a, s) == [a EXCEPT !.sync = s]
WithMem(a, m) == [a EXCEPT !.mem = m]
WithWriters(a, n) == [a EXCEPT !.cpu_writers = n]
WithFreed(a, x) == [a EXCEPT !.freed = x]

\* Assignments of a value of the type of the field.
LEMMA WithIs ==
  ASSUME NEW a \in LooseRecord
  PROVE  /\ \A n \in Int : WithCount(a, n) \in LooseRecord
         /\ \A n \in Int : WithWriters(a, n) \in LooseRecord
         /\ \A s \in {"none", "busy", "signaled"} : WithSync(a, s) \in LooseRecord
         /\ \A m \in MemTypes \cup {"none"} : WithMem(a, m) \in LooseRecord
         /\ WithMem(a, "system") \in LooseRecord
         /\ WithFreed(a, TRUE) \in LooseRecord /\ WithFreed(a, FALSE) \in LooseRecord
<1>1. \A n \in Int : WithCount(a, n) \in LooseRecord
  BY DEF LooseRecord, WithCount
<1>2. \A n \in Int : WithWriters(a, n) \in LooseRecord
  BY DEF LooseRecord, WithWriters
<1>3. \A s \in {"none", "busy", "signaled"} : WithSync(a, s) \in LooseRecord
  BY DEF LooseRecord, WithSync
<1>4. \A m \in MemTypes \cup {"none"} : WithMem(a, m) \in LooseRecord
  BY DEF LooseRecord, WithMem
<1>5. WithFreed(a, TRUE) \in LooseRecord /\ WithFreed(a, FALSE) \in LooseRecord
  BY DEF LooseRecord, WithFreed
<1>6. "system" \in MemTypes \cup {"none"}
  BY DEF MemTypes
<1>7. QED
  BY <1>1, <1>2, <1>3, <1>4, <1>5, <1>6

\* kref_put of list_kref.
LEMMA ListPutIs ==
  ASSUME NEW a \in LooseRecord, NEW n \in Int
  PROVE  /\ ListPut(a, n) \in LooseRecord
         /\ ListPut(a, n).kref = a.kref /\ ListPut(a, n).handle = a.handle
         /\ ListPut(a, n).freed <=> a.list_kref = n
         /\ ListPut(a, n).list_kref = a.list_kref - n
         /\ ListPut(a, n).cpu_writers = a.cpu_writers /\ ListPut(a, n).reserved = a.reserved
         /\ ListPut(a, n).sync = a.sync /\ ListPut(a, n).mem = a.mem
<1>1. a.list_kref - n \in Int
  BY DEF LooseRecord
<1>2. WithCount(a, a.list_kref - n) \in LooseRecord
  BY <1>1, WithIs
<1>3. CASE a.list_kref = n
  <2>1. ListPut(a, n) = [a EXCEPT !.list_kref = a.list_kref - n, !.freed = TRUE]
    BY <1>3 DEF ListPut
  <2>2. ListPut(a, n) = WithFreed(WithCount(a, a.list_kref - n), TRUE)
    BY <2>1 DEF WithFreed, WithCount
  <2>3. ListPut(a, n) \in LooseRecord
    BY <1>2, <2>2, WithIs
  <2>4. ListPut(a, n).freed <=> a.list_kref = n
    BY <1>3, <2>1 DEF LooseRecord
  <2>5. QED
    BY <2>1, <2>3, <2>4 DEF LooseRecord
<1>4. CASE a.list_kref # n
  <2>1. ListPut(a, n) = [a EXCEPT !.list_kref = a.list_kref - n, !.freed = FALSE]
    BY <1>4 DEF ListPut
  <2>2. ListPut(a, n) = WithFreed(WithCount(a, a.list_kref - n), FALSE)
    BY <2>1 DEF WithFreed, WithCount
  <2>3. ListPut(a, n) \in LooseRecord
    BY <1>2, <2>2, WithIs
  <2>4. ListPut(a, n).freed <=> a.list_kref = n
    BY <1>4, <2>1 DEF LooseRecord
  <2>5. QED
    BY <2>1, <2>3, <2>4 DEF LooseRecord
<1>5. QED
  BY <1>3, <1>4

\* kref_get of list_kref.
LEMMA ListGetIs ==
  ASSUME NEW a \in LooseRecord
  PROVE  /\ ListGet(a) \in LooseRecord
         /\ ListGet(a).kref = a.kref /\ ListGet(a).handle = a.handle
         /\ ListGet(a).freed = a.freed /\ ListGet(a).list_kref = a.list_kref + 1
         /\ ListGet(a).cpu_writers = a.cpu_writers /\ ListGet(a).reserved = a.reserved
         /\ ListGet(a).sync = a.sync /\ ListGet(a).mem = a.mem
  BY DEF LooseRecord, ListGet

-----------------------------------------------------------------------------
(* Eviction and swapping. *)

\* The end of an eviction or a swap-out: the buffer is unreserved, and is or
\* is not on the lists again.
LEMMA LetGo ==
  ASSUME IInv, NEW t \in Threads, NEW q \in ThreadRecord, th' = [th EXCEPT ![t] = q],
         th[t].pc \in {"evicting", "swapping"},
         NEW o, o = th[t].obj, NEW r \in LooseRecord, bo' = [bo EXCEPT ![o] = r],
         LruType', UNCHANGED <<ddestroy, wq, val_seq, lru_lock, max_gmr_ids>>,
         \A b \in Buffers \ {o} : SameLinks(b),
         q.pc = "objput", q.obj = o, q.list = th[t].list, q.pos = th[t].pos,
         q.next = th[t].next, q.removed = th[t].removed,
         q.ret = th[t].ret \/ (q.ret = "backoff" /\ th[t].pc = "evicting"),
         r.kref = bo[o].kref, r.handle = bo[o].handle, r.freed = bo[o].freed,
         r.cpu_writers = bo[o].cpu_writers, r.reserved = NoOne,
         r.list_kref = bo[o].list_kref + Linked(o)',
         bo[o].sync = "none" => r.sync = "none",
         bo[o].mem # "none" => r.mem # "none"
  PROVE  IInv'
<1>1. o \in Buffers /\ Controlled(t, th[t], lru_lock) /\ th[t] \in ThreadRecord
  BY HelperIs DEF Helping
<1>2. /\ th'[t] = q /\ Others(t) /\ bo'[o] = r /\ Life(o) /\ Reservation(o)
      /\ bo[o].kref \in Nat /\ bo[o].cpu_writers \in Nat
      /\ bo[o].list_kref \in Nat /\ bo[o].list_kref > 0
      /\ (bo[o].freed <=> bo[o].list_kref = 0)
      /\ Linked(o) \in Nat /\ (OnLru(o) <=> Linked(o) > 0) /\ t # NoOne
  <2>1. At(th[t], Helping, o)
    BY DEF At, Helping
  <2>2. /\ bo[o].list_kref >= Linked(o) + (IF On(ddestroy, o) THEN 1 ELSE 0)
              + (IF Alive(o) THEN 1 ELSE 0) + (IF At(th[t], Helping, o) THEN 1 ELSE 0)
              + (IF th[t].next = o THEN 1 ELSE 0)
              + (IF At(th[t], {"memtype"}, o) THEN th[t].put ELSE 0)
        /\ Linked(o) \in Nat /\ bo[o].list_kref \in Nat
    BY <1>1, BufferIs
  <2>3. ~At(th[t], {"memtype"}, o)
    BY DEF At
  <2>4. bo[o].list_kref > 0
    BY <2>1, <2>2, <2>3
  <2>5. th'[t] = q /\ Others(t) /\ bo'[o] = r
    BY <1>1, ThreadIs DEF Others
  <2>6. /\ Life(o) /\ Reservation(o)
        /\ bo[o].kref \in Nat /\ bo[o].cpu_writers \in Nat
        /\ (bo[o].freed <=> bo[o].list_kref = 0)
        /\ Linked(o) \in Nat /\ (OnLru(o) <=> Linked(o) > 0) /\ t # NoOne
    BY <1>1, BufferIs
  <2>7. QED
    BY <2>2, <2>4, <2>5, <2>6
<1>3. /\ At(th[t], {"evicting", "swapping"}, o) /\ Holds(th[t], o)
      /\ ~At(q, {"evicting", "swapping", "memtype", "grabwait"}, o)
      /\ ~At(th[t], {"memtype"}, o) /\ ~At(q, {"memtype"}, o)
      /\ ~At(th[t], {"release"}, o) /\ ~At(q, {"release"}, o)
      /\ ~At(th[t], {"cpu"}, o) /\ ~At(q, {"cpu"}, o)
      /\ ~At(q, {"cleanwait", "cleanreserve"}, o) /\ ~At(q, {"cleanreserve"}, o)
      /\ ~At(q, {"evicting", "swapping"}, o)
      /\ At(th[t], Helping, o) /\ At(q, Helping, o)
  BY DEF At, Holds, Helping
<1>4. bo[o].reserved = t /\ Present(o) /\ ~OnLru(o) /\ Linked(o) = 0
  <2>1. bo[o].reserved = t /\ Present(o)
    BY <1>2, <1>3 DEF Reservation, Life
  <2>2. QED
    BY <1>2, <2>1 DEF Reservation
<1>5. ~On(Reserved(q), o)
  <2>1. ~On(Reserved(th[t]), o)
    BY <1>1 DEF Controlled
  <2>2. QED
    BY <2>1 DEF Reserved
<1>6. Life(o)' /\ (Alive(o)' <=> Alive(o))
  <2>1. Releasing(o)' <=> Releasing(o)
    BY <1>2, <1>3, ReleasingIs
  <2>2. Alive(o)' <=> Alive(o)
    BY <1>2, <2>1 DEF Alive
  <2>3. (bo'[o].mem = "none" <=> bo[o].mem = "none") /\ bo[o].mem # "none"
    BY <1>2, <1>4 DEF Life
  <2>4. /\ bo'[o].kref = 0 <=> bo[o].kref = 0
        /\ bo[o].sync = "none" => bo'[o].sync = "none"
        /\ bo[o].kref \in Nat /\ bo'[o].kref \in Nat
        /\ On(ddestroy', o) <=> On(ddestroy, o)
    BY <1>2
  <2>5. At(th'[t], {"cleanwait", "cleanreserve"}, o) \/ th'[t].next = o =>
           At(th[t], {"cleanwait", "cleanreserve"}, o) \/ th[t].next = o \/ On(ddestroy, o)
    BY <1>2, <1>3
  <2>6. Life(o)'
    BY <1>1, <1>2, <1>3, <1>4, <2>3, <2>4, <2>5, LifeSame
  <2>7. QED
    BY <2>2, <2>6
<1>7. Reservation(o)'
  <2>1. ~Holds(q, o)
    BY <1>3, <1>5 DEF Holds
  <2>2. QED
    BY <1>2, <1>3, <2>1, ReservationDropped
<1>8. Controlled(t, q, lru_lock)
  <2>1. q.ret = th[t].ret \/ (q.ret \in Submitting /\ th[t].ret \in Submitting)
    BY <1>1 DEF Controlled, Submitting
  <2>2. QED
    BY <1>1, <2>1, HelpControl DEF Helping
<1>9. \A b \in Buffers \ {o} :
        /\ SameLinks(b) /\ SameView(th[t], q, b)
        /\ On(ddestroy', b) <=> On(ddestroy, b)
        /\ ~At(q, {"cleanreserve"}, b)
  BY OtherView
<1>10. /\ r.kref = bo[o].kref
           + (IF On(q.list, o) THEN 1 ELSE 0) - (IF On(th[t].list, o) THEN 1 ELSE 0)
           + (IF r.handle THEN 1 ELSE 0) - (IF bo[o].handle THEN 1 ELSE 0)
       /\ r.cpu_writers = bo[o].cpu_writers
           + (IF At(q, {"cpu"}, o) THEN 1 ELSE 0) - (IF At(th[t], {"cpu"}, o) THEN 1 ELSE 0)
  BY <1>2, <1>3
<1>11. r.list_kref = bo[o].list_kref + (Linked(o)' - Linked(o)
           + (IF On(ddestroy', o) THEN 1 ELSE 0) - (IF On(ddestroy, o) THEN 1 ELSE 0)
           + (IF Alive(o)' THEN 1 ELSE 0) - (IF Alive(o) THEN 1 ELSE 0)
           + (IF At(q, Helping, o) THEN 1 ELSE 0) - (IF At(th[t], Helping, o) THEN 1 ELSE 0)
           + (IF q.next = o THEN 1 ELSE 0) - (IF th[t].next = o THEN 1 ELSE 0)
           + (IF At(q, {"memtype"}, o) THEN q.put ELSE 0)
           - (IF At(th[t], {"memtype"}, o) THEN th[t].put ELSE 0))
  <2>1. Linked(o)' \in Nat
    BY ThreadIs, LinkSteps
  <2>2. QED
    BY <1>2, <1>3, <1>4, <1>6, <2>1
<1>12. r.freed <=> r.list_kref = 0
  <2>1. Linked(o)' \in Nat
    BY ThreadIs, LinkSteps
  <2>2. QED
    BY <1>2, <2>1
<1>13. ddestroy' \in Seq(Buffers) /\ wq' \in BOOLEAN
  BY DEF IInv, TypeOK
<1>14. QED
  BY <1>1, <1>6, <1>7, <1>8, <1>9, <1>10, <1>11, <1>12, <1>13, TouchStep

\* A buffer is evicted, or the eviction fails.
LEMMA EvictMoveInv ==
  ASSUME IInv, NEW t \in Threads, EvictMove(t) \/ EvictFails(t), UNCHANGED max_gmr_ids
  PROVE  IInv'
<1>0. PICK o : o = th[t].obj
  OBVIOUS
<1>1. /\ th[t].pc = "evicting"
      /\ UNCHANGED <<ddestroy, wq, val_seq, lru_lock, max_gmr_ids>>
  BY DEF EvictMove, EvictFails
<1>2. /\ o \in Buffers /\ bo[o] \in LooseRecord /\ th[t] \in ThreadRecord
      /\ Controlled(t, th[t], lru_lock)
  BY <1>0, <1>1, HelperIs DEF Helping
<1>3. bo[o].mem # "none" /\ ~OnLru(o) /\ bo[o].list_kref \in Nat
  <2>1. Life(o) /\ Reservation(o) /\ t # NoOne /\ bo[o].list_kref \in Nat
    BY <1>2, BufferIs
  <2>2. At(th[t], {"evicting", "swapping"}, o) /\ Holds(th[t], o)
    BY <1>0, <1>1 DEF At, Holds
  <2>3. Present(o) /\ bo[o].reserved = t
    BY <2>1, <2>2 DEF Life, Reservation
  <2>4. QED
    BY <1>1, <2>1, <2>3 DEF Life, Reservation
<1>4. PICK q \in ThreadRecord, r \in LooseRecord :
        /\ th' = [th EXCEPT ![t] = q] /\ bo' = [bo EXCEPT ![o] = r]
        /\ lru' = AddToLru(lru, bo', <<o>>)
        /\ q.pc = "objput" /\ q.obj = o /\ q.list = th[t].list /\ q.pos = th[t].pos
        /\ q.next = th[t].next /\ q.removed = th[t].removed
        /\ q.ret = th[t].ret \/ q.ret = "backoff"
        /\ r.kref = bo[o].kref /\ r.handle = bo[o].handle /\ r.freed = bo[o].freed
        /\ r.cpu_writers = bo[o].cpu_writers /\ r.reserved = NoOne
        /\ r.list_kref = bo[o].list_kref + 2
        /\ bo[o].sync = "none" => r.sync = "none"
        /\ r.mem # "none"
  <2>1. CASE EvictMove(t)
    <3> DEFINE q == [th[t] EXCEPT !.pc = "objput"]
               r == [Unreserve(bo[o]) EXCEPT !.sync = "none", !.mem = "system", !.list_kref = @ + 2]
    <3>1. /\ th' = [th EXCEPT ![t] = q] /\ bo' = [bo EXCEPT ![o] = r]
          /\ lru' = AddToLru(lru, bo', <<o>>)
      <4>1. bo' = [bo EXCEPT ![o] = r] /\ lru' = AddToLru(lru, bo', <<o>>)
        BY <2>1, <1>0 DEF EvictMove
      <4>2. th' = [th EXCEPT ![t] = q]
        BY <2>1, <1>2, ThreadIs DEF EvictMove, Goto
      <4>3. QED
        BY <4>1, <4>2
    <3>2. q \in ThreadRecord
      BY <1>2 DEF ThreadRecord, Labels
    <3>3. r \in LooseRecord
      <4>1. Unreserve(bo[o]) \in LooseRecord /\ Unreserve(bo[o]).list_kref + 2 \in Int
        BY <1>2, <1>3, UnreserveIs
      <4>2. WithSync(Unreserve(bo[o]), "none") \in LooseRecord
        BY <4>1, WithIs
      <4>3. WithMem(WithSync(Unreserve(bo[o]), "none"), "system") \in LooseRecord
        BY <4>2, WithIs
      <4>4. WithCount(WithMem(WithSync(Unreserve(bo[o]), "none"), "system"),
                      Unreserve(bo[o]).list_kref + 2) \in LooseRecord
        BY <4>1, <4>3, WithIs
      <4>5. QED
        BY <4>4, Zenon DEF WithCount, WithMem, WithSync
    <3>4. /\ q.pc = "objput" /\ q.obj = o /\ q.list = th[t].list /\ q.pos = th[t].pos
          /\ q.next = th[t].next /\ q.removed = th[t].removed /\ q.ret = th[t].ret
      BY <1>0, <1>2 DEF ThreadRecord
    <3>5. /\ r.kref = bo[o].kref /\ r.handle = bo[o].handle /\ r.freed = bo[o].freed
          /\ r.cpu_writers = bo[o].cpu_writers /\ r.reserved = NoOne
          /\ r.list_kref = bo[o].list_kref + 2 /\ r.sync = "none" /\ r.mem = "system"
      BY <1>2 DEF LooseRecord, Unreserve
    <3> HIDE DEF q, r
    <3>6. QED
      BY <3>1, <3>2, <3>3, <3>4, <3>5
  <2>2. CASE EvictFails(t)
    <3> DEFINE q == [th[t] EXCEPT !.pc = "objput", !.ret = "backoff"]
               r == [Unreserve(bo[o]) EXCEPT !.list_kref = @ + 2]
    <3>1. /\ th' = [th EXCEPT ![t] = q] /\ bo' = [bo EXCEPT ![o] = r]
          /\ lru' = AddToLru(lru, bo', <<o>>)
      <4>1. bo' = [bo EXCEPT ![o] = r] /\ lru' = AddToLru(lru, bo', <<o>>)
        BY <2>2, <1>0 DEF EvictFails
      <4>2. th' = [th EXCEPT ![t] = q]
        BY <2>2, <1>2, ThreadIs DEF EvictFails
      <4>3. QED
        BY <4>1, <4>2
    <3>2. q \in ThreadRecord
      BY <1>2 DEF ThreadRecord, Labels
    <3>3. r \in LooseRecord
      BY <1>2, UnreserveIs DEF LooseRecord
    <3>4. /\ q.pc = "objput" /\ q.obj = o /\ q.list = th[t].list /\ q.pos = th[t].pos
          /\ q.next = th[t].next /\ q.removed = th[t].removed /\ q.ret = "backoff"
      BY <1>0, <1>2 DEF ThreadRecord
    <3>5. /\ r.kref = bo[o].kref /\ r.handle = bo[o].handle /\ r.freed = bo[o].freed
          /\ r.cpu_writers = bo[o].cpu_writers /\ r.reserved = NoOne
          /\ r.list_kref = bo[o].list_kref + 2 /\ r.sync = bo[o].sync /\ r.mem = bo[o].mem
      BY <1>2 DEF LooseRecord, Unreserve
    <3> HIDE DEF q, r
    <3>6. QED
      BY <1>3, <3>1, <3>2, <3>3, <3>4, <3>5
  <2>3. QED
    BY <2>1, <2>2
<1>5. LruType' /\ Linked(o)' = 2 /\ \A b \in Buffers \ {o} : SameLinks(b)
  <2>1. bo'[o].mem \in MemTypes
    <3>1. bo'[o] = r
      BY <1>2, <1>4, ThreadIs
    <3>2. QED
      BY <1>4, <3>1 DEF LooseRecord
  <2>2. LruType /\ o \in Buffers /\ ~OnLru(o) /\ lru' = AddToLru(lru, bo', <<o>>)
    BY <1>2, <1>3, <1>4, ThreadIs
  <2>3. QED
    BY <2>1, <2>2, BackOnLru
<1>6. QED
  <2>1. r.list_kref = bo[o].list_kref + Linked(o)'
    BY <1>4, <1>5
  <2>2. th[t].pc \in {"evicting", "swapping"} /\ (bo[o].mem # "none" => r.mem # "none")
    BY <1>1, <1>4
  <2>3. QED
    BY <1>0, <1>1, <1>4, <1>5, <2>1, <2>2, LetGo

\* A buffer is swapped out, or the wait for it times out.
LEMMA SwapOutInv ==
  ASSUME IInv, NEW t \in Threads, SwapOut(t) \/ SwapTimesOut(t), UNCHANGED max_gmr_ids
  PROVE  IInv'
<1>0. PICK o : o = th[t].obj
  OBVIOUS
<1>1. /\ th[t].pc = "swapping"
      /\ UNCHANGED <<lru, ddestroy, wq, val_seq, lru_lock, max_gmr_ids>>
  BY DEF SwapOut, SwapTimesOut
<1>2. /\ o \in Buffers /\ bo[o] \in LooseRecord /\ th[t] \in ThreadRecord
      /\ Controlled(t, th[t], lru_lock)
  BY <1>0, <1>1, HelperIs DEF Helping
<1>3. bo[o].mem # "none" /\ ~OnLru(o) /\ bo[o].list_kref \in Nat
  <2>1. Life(o) /\ Reservation(o) /\ t # NoOne /\ bo[o].list_kref \in Nat
    BY <1>2, BufferIs
  <2>2. At(th[t], {"evicting", "swapping"}, o) /\ Holds(th[t], o)
    BY <1>0, <1>1 DEF At, Holds
  <2>3. Present(o) /\ bo[o].reserved = t
    BY <2>1, <2>2 DEF Life, Reservation
  <2>4. QED
    BY <1>1, <2>1, <2>3 DEF Life, Reservation
<1> DEFINE q == [th[t] EXCEPT !.pc = "objput"]
<1>4. th' = [th EXCEPT ![t] = q] /\ q \in ThreadRecord
  <2>1. th' = [th EXCEPT ![t] = q]
    BY ThreadIs DEF SwapOut, SwapTimesOut, Goto
  <2>2. QED
    BY <1>2, <2>1 DEF ThreadRecord, Labels
<1>5. /\ q.pc = "objput" /\ q.obj = o /\ q.list = th[t].list /\ q.pos = th[t].pos
      /\ q.next = th[t].next /\ q.removed = th[t].removed /\ q.ret = th[t].ret
  BY <1>0, <1>2 DEF ThreadRecord
<1>6. PICK r \in LooseRecord :
        /\ bo' = [bo EXCEPT ![o] = r]
        /\ r.kref = bo[o].kref /\ r.handle = bo[o].handle /\ r.freed = bo[o].freed
        /\ r.cpu_writers = bo[o].cpu_writers /\ r.reserved = NoOne
        /\ r.list_kref = bo[o].list_kref
        /\ bo[o].sync = "none" => r.sync = "none"
        /\ r.mem # "none"
  <2>1. CASE SwapOut(t)
    <3>1. PICK mem \in {"system", bo[o].mem} :
            bo' = [bo EXCEPT ![o] = [Unreserve(@) EXCEPT !.sync = "none", !.mem = mem]]
      BY <1>0, <2>1 DEF SwapOut
    <3> DEFINE r == [Unreserve(bo[o]) EXCEPT !.sync = "none", !.mem = mem]
    <3>2. mem \in MemTypes \cup {"none"} /\ mem # "none"
      BY <1>2, <1>3 DEF LooseRecord, MemTypes
    <3>3. bo' = [bo EXCEPT ![o] = r]
      BY <3>1, <1>2, ThreadIs
    <3>4. r \in LooseRecord
      BY <1>2, <3>2 DEF LooseRecord, Unreserve
    <3>5. /\ r.kref = bo[o].kref /\ r.handle = bo[o].handle /\ r.freed = bo[o].freed
          /\ r.cpu_writers = bo[o].cpu_writers /\ r.reserved = NoOne
          /\ r.list_kref = bo[o].list_kref /\ r.sync = "none" /\ r.mem = mem
      BY <1>2 DEF LooseRecord, Unreserve
    <3> HIDE DEF r
    <3>6. QED
      BY <3>2, <3>3, <3>4, <3>5
  <2>2. CASE SwapTimesOut(t)
    <3> DEFINE r == Unreserve(bo[o])
    <3>1. bo' = [bo EXCEPT ![o] = r]
      BY <1>0, <2>2, <1>2, ThreadIs DEF SwapTimesOut
    <3>2. r \in LooseRecord
      BY <1>2 DEF LooseRecord, Unreserve
    <3>3. /\ r.kref = bo[o].kref /\ r.handle = bo[o].handle /\ r.freed = bo[o].freed
          /\ r.cpu_writers = bo[o].cpu_writers /\ r.reserved = NoOne
          /\ r.list_kref = bo[o].list_kref /\ r.sync = bo[o].sync /\ r.mem = bo[o].mem
      BY <1>2 DEF LooseRecord, Unreserve
    <3> HIDE DEF r
    <3>4. QED
      BY <1>3, <3>1, <3>2, <3>3
  <2>3. QED
    BY <2>1, <2>2
<1> HIDE DEF q
<1>7. LruType' /\ Linked(o)' = 0 /\ \A b \in Buffers \ {o} : SameLinks(b)
  <2>1. LruType /\ LruType'
    BY <1>1, ThreadIs DEF LruType
  <2>2. \A b : SameLinks(b)
    BY <1>1 DEF SameLinks
  <2>3. Linked(o)' = Linked(o)
    BY <2>1, <2>2, LinkSteps
  <2>4. Linked(o) = 0
    BY <1>2, <1>3, BufferIs
  <2>5. QED
    BY <2>1, <2>2, <2>3, <2>4
<1>8. r.list_kref = bo[o].list_kref + Linked(o)'
  BY <1>3, <1>6, <1>7
<1>9. QED
  BY <1>0, <1>1, <1>4, <1>5, <1>6, <1>7, <1>8, LetGo

-----------------------------------------------------------------------------
(* Destruction. *)

\* A thread that helps with a buffer, or has released it, goes on with it.
LEMMA HelpStep ==
  ASSUME IInv, NEW t \in Threads, NEW q \in ThreadRecord, th' = [th EXCEPT ![t] = q],
         NEW o, o = th[t].obj, NEW r \in LooseRecord, bo' = [bo EXCEPT ![o] = r],
         LruType', ddestroy' \in Seq(Buffers), wq' \in BOOLEAN,
         UNCHANGED <<val_seq, lru_lock, max_gmr_ids>>,
         th[t].pc \in Helping \cup {"release"}, q.pc \in {"memtype", "objput"},
         q.obj = o, q.list = th[t].list, q.pos = th[t].pos, q.next = th[t].next,
         q.removed = th[t].removed, q.ret = th[t].ret,
         \A b \in Buffers \ {o} : SameLinks(b) /\ (On(ddestroy', b) <=> On(ddestroy, b)),
         r.kref = bo[o].kref, r.handle = bo[o].handle, r.cpu_writers = bo[o].cpu_writers,
         r.list_kref = bo[o].list_kref + (Linked(o)' - Linked(o)
           + (IF On(ddestroy', o) THEN 1 ELSE 0) - (IF On(ddestroy, o) THEN 1 ELSE 0)
           + (IF q.pc = "memtype" THEN q.put ELSE 0)
           - (IF th[t].pc = "memtype" THEN th[t].put ELSE 0)),
         th[t].pc = "release" => Alive(o) /\ ~Alive(o)',
         th[t].pc # "release" => (Alive(o) <=> Alive(o)'),
         r.freed <=> r.list_kref = 0,
         Life(o)', Reservation(o)'
  PROVE  IInv'
<1>1. o \in Buffers /\ Controlled(t, th[t], lru_lock) /\ th[t] \in ThreadRecord
  BY HelperIs
<1>2. /\ bo[o].kref \in Nat /\ bo[o].cpu_writers \in Nat /\ bo[o].list_kref \in Nat
      /\ Linked(o) \in Nat /\ Linked(o)' \in Nat
      /\ th[t].put \in Nat /\ q.put \in Nat
  BY <1>1, BufferIs, ThreadIs, LinkSteps DEF ThreadRecord
<1>3. /\ At(q, Helping, o) /\ ~At(q, {"cpu"}, o) /\ ~At(th[t], {"cpu"}, o)
      /\ At(th[t], Helping, o) <=> th[t].pc # "release"
      /\ At(q, {"memtype"}, o) <=> q.pc = "memtype"
      /\ At(th[t], {"memtype"}, o) <=> th[t].pc = "memtype"
  BY DEF At, Helping
<1>4. Controlled(t, q, lru_lock)
  BY <1>1, HelpControl
<1>5. \A b \in Buffers \ {o} :
        /\ SameLinks(b) /\ SameView(th[t], q, b)
        /\ On(ddestroy', b) <=> On(ddestroy, b)
        /\ ~At(q, {"cleanreserve"}, b)
  BY OtherView DEF Helping
<1>6. /\ r.kref = bo[o].kref
           + (IF On(q.list, o) THEN 1 ELSE 0) - (IF On(th[t].list, o) THEN 1 ELSE 0)
           + (IF r.handle THEN 1 ELSE 0) - (IF bo[o].handle THEN 1 ELSE 0)
      /\ r.cpu_writers = bo[o].cpu_writers
           + (IF At(q, {"cpu"}, o) THEN 1 ELSE 0) - (IF At(th[t], {"cpu"}, o) THEN 1 ELSE 0)
  BY <1>2, <1>3
<1>7. r.list_kref = bo[o].list_kref + (Linked(o)' - Linked(o)
           + (IF On(ddestroy', o) THEN 1 ELSE 0) - (IF On(ddestroy, o) THEN 1 ELSE 0)
           + (IF Alive(o)' THEN 1 ELSE 0) - (IF Alive(o) THEN 1 ELSE 0)
           + (IF At(q, Helping, o) THEN 1 ELSE 0) - (IF At(th[t], Helping, o) THEN 1 ELSE 0)
           + (IF q.next = o THEN 1 ELSE 0) - (IF th[t].next = o THEN 1 ELSE 0)
           + (IF At(q, {"memtype"}, o) THEN q.put ELSE 0)
           - (IF At(th[t], {"memtype"}, o) THEN th[t].put ELSE 0))
  BY <1>2, <1>3
<1>8. QED
  BY <1>1, <1>4, <1>5, <1>6, <1>7, TouchStep

\* A buffer taken off the lists.
LEMMA OffLru ==
  ASSUME LruType, NEW o \in Buffers, lru' = DelFromLru({o})
  PROVE  /\ LruType' /\ Linked(o)' = 0 /\ ~OnLru(o)'
         /\ \A b \in Buffers \ {o} : SameLinks(b)
<1>1. /\ lru' \in [Queues -> Seq(Buffers)]
      /\ \A m \in Queues, b \in Buffers : On(lru'[m], b) <=> On(lru[m], b) /\ b \notin {o}
  BY DelFromLruIs
<1>2. LruType'
  BY <1>1 DEF LruType
<1>3. Unlinked(o) /\ \A b \in Buffers \ {o} : SameLinks(b)
  BY <1>1 DEF Unlinked, SameLinks
<1>4. QED
  BY <1>2, <1>3, LinkSteps

\* Nobody holds a buffer that is not reserved, and who has reserved a buffer
\* from a list uses it.
LEMMA HoldersAre ==
  ASSUME IInv, NEW t \in Threads, NEW o \in Buffers
  PROVE  /\ bo[o].reserved = NoOne => ~Holds(th[t], o)
         /\ On(Reserved(th[t]), o) => bo[o].kref > 0 /\ On(th[t].list, o)
<1>1. Reservation(o) /\ Counted(o) /\ t # NoOne
  BY BufferIs
<1>2. bo[o].reserved = NoOne => ~Holds(th[t], o)
  BY <1>1 DEF Reservation
<1>3. On(Reserved(th[t]), o) => On(th[t].list, o)
  BY ThreadIs, ReservedIs
<1>4. QED
  BY <1>1, <1>2, <1>3, UserCounts

\* The last user destroys an idle buffer.
LEMMA ReleaseNowInv ==
  ASSUME IInv, NEW t \in Threads, ReleaseNow(t), UNCHANGED max_gmr_ids
  PROVE  IInv'
<1>0. PICK o : o = th[t].obj
  OBVIOUS
<1>1. /\ th[t].pc = "release" /\ bo[o].reserved = NoOne
      /\ lru' = DelFromLru({o})
      /\ UNCHANGED <<ddestroy, wq, val_seq, lru_lock, max_gmr_ids>>
  BY <1>0 DEF ReleaseNow
<1>2. /\ o \in Buffers /\ bo[o] \in LooseRecord /\ th[t] \in ThreadRecord
  BY <1>0, <1>1, HelperIs
<1>3. /\ LruType' /\ Linked(o)' = 0 /\ ~OnLru(o)'
      /\ \A b \in Buffers \ {o} : SameLinks(b)
  BY <1>1, <1>2, ThreadIs, OffLru
<1>4. /\ Life(o) /\ Reservation(o) /\ Linked(o) \in Nat /\ bo[o].list_kref \in Nat
      /\ (bo[o].freed <=> bo[o].list_kref = 0) /\ t # NoOne
  BY <1>2, BufferIs
<1>5. At(th[t], {"release"}, o) /\ Releasing(o)
  BY <1>0, <1>1 DEF At, Releasing
<1>6. bo[o].kref = 0 /\ ~On(ddestroy, o)
  BY <1>4, <1>5 DEF Life
<1> DEFINE q == [th[t] EXCEPT !.pc = "memtype", !.put = Linked(o)]
           r == [Reserve(bo[o], t) EXCEPT !.sync = "none"]
<1>7. th' = [th EXCEPT ![t] = q] /\ bo' = [bo EXCEPT ![o] = r]
  BY <1>0, <1>2, ThreadIs DEF ReleaseNow
<1>8. q \in ThreadRecord
  BY <1>2, <1>4 DEF ThreadRecord, Labels
<1>9. /\ q.pc = "memtype" /\ q.obj = o /\ q.list = th[t].list /\ q.pos = th[t].pos
      /\ q.next = th[t].next /\ q.removed = th[t].removed /\ q.ret = th[t].ret
      /\ q.put = Linked(o)
  BY <1>0, <1>2 DEF ThreadRecord
<1>10. r \in LooseRecord
  BY <1>2 DEF LooseRecord, Reserve
<1>11. /\ r.kref = bo[o].kref /\ r.handle = bo[o].handle /\ r.freed = bo[o].freed
       /\ r.cpu_writers = bo[o].cpu_writers /\ r.reserved = t
       /\ r.list_kref = bo[o].list_kref /\ r.sync = "none" /\ r.mem = bo[o].mem
  BY <1>2 DEF LooseRecord, Reserve
<1> HIDE DEF q, r
<1>12. th'[t] = q /\ Others(t) /\ bo'[o] = r
  BY <1>2, <1>7, ThreadIs DEF Others
<1>13. /\ ~Releasing(o)' /\ ~Alive(o)' /\ Alive(o) /\ ~Present(o)'
  <2>1. ~At(q, {"release"}, o)
    BY <1>9 DEF At
  <2>2. ~Releasing(o)'
    BY <1>4, <1>5, <1>12, <2>1, ReleasingIs
  <2>3. bo'[o].kref = 0 /\ ~On(ddestroy', o)
    BY <1>1, <1>6, <1>11, <1>12
  <2>4. QED
    BY <1>5, <2>2, <2>3 DEF Alive, Present
<1>14. Life(o)'
  <2>1. At(q, {"memtype"}, o) /\ ~At(q, {"evicting", "swapping"}, o)
        /\ ~At(q, {"cleanwait", "cleanreserve"}, o) /\ ~At(q, {"cleanreserve"}, o)
    BY <1>9 DEF At
  <2>2. \A u \in Threads : ~At(th'[u], {"release"}, o)
    BY <1>13 DEF Releasing
  <2>3. ASSUME NEW u \in Threads PROVE ~At(th'[u], {"evicting", "swapping"}, o)
    <3>1. ~Holds(th[u], o)
      BY <1>1, <1>2, HoldersAre
    <3>2. QED
      BY <1>12, <2>1, <3>1 DEF Others, Holds, At
  <2>4. bo'[o].kref = 0 /\ bo'[o].sync = "none" /\ ~On(ddestroy', o)
    BY <1>1, <1>6, <1>11, <1>12
  <2>5. \E u \in Threads : At(th'[u], {"memtype"}, o)
    BY <1>12, <2>1
  <2>6. QED
    BY <1>3, <1>13, <2>2, <2>3, <2>4, <2>5 DEF Life
<1>15. Reservation(o)'
  <2>1. ~On(Reserved(q), o)
    <3>1. Reserved(q) = Reserved(th[t])
      BY <1>9 DEF Reserved
    <3>2. QED
      BY <1>2, <1>6, <3>1, HoldersAre
  <2>2. QED
    BY <1>1, <1>3, <1>4, <1>11, <1>12, <1>13, <2>1, ReservationTaken
<1>16. r.list_kref = bo[o].list_kref + (Linked(o)' - Linked(o)
           + (IF On(ddestroy', o) THEN 1 ELSE 0) - (IF On(ddestroy, o) THEN 1 ELSE 0)
           + (IF q.pc = "memtype" THEN q.put ELSE 0)
           - (IF th[t].pc = "memtype" THEN th[t].put ELSE 0))
  BY <1>1, <1>3, <1>4, <1>9, <1>11
<1>17. ddestroy' \in Seq(Buffers) /\ wq' \in BOOLEAN
  BY <1>1 DEF IInv, TypeOK
<1>18. QED
  BY <1>0, <1>1, <1>3, <1>4, <1>7, <1>8, <1>9, <1>10, <1>11, <1>13, <1>14, <1>15, <1>16, <1>17,
     HelpStep

\* The last user leaves a busy or reserved buffer to the work item.
LEMMA ReleaseQueueInv ==
  ASSUME IInv, NEW t \in Threads, ReleaseQueue(t), UNCHANGED max_gmr_ids
  PROVE  IInv'
<1>0. PICK o : o = th[t].obj
  OBVIOUS
<1>1. /\ th[t].pc = "release" /\ ddestroy' = Append(ddestroy, o) /\ wq' = TRUE
      /\ UNCHANGED <<lru, val_seq, lru_lock, max_gmr_ids>>
  BY <1>0 DEF ReleaseQueue
<1>2. /\ o \in Buffers /\ bo[o] \in LooseRecord /\ th[t] \in ThreadRecord
  BY <1>0, <1>1, HelperIs
<1>3. /\ LruType /\ LruType' /\ (\A b : SameLinks(b)) /\ Linked(o)' = Linked(o)
      /\ (OnLru(o)' <=> OnLru(o))
  <2>1. LruType /\ LruType' /\ \A b : SameLinks(b)
    BY <1>1, ThreadIs DEF LruType, SameLinks
  <2>2. QED
    BY <2>1, LinkSteps
<1>4. /\ Life(o) /\ Reservation(o) /\ Linked(o) \in Nat /\ bo[o].list_kref \in Nat
      /\ (bo[o].freed <=> bo[o].list_kref = 0) /\ t # NoOne
      /\ bo[o].reserved \in Threads \cup {NoOne}
  BY <1>2, BufferIs
<1>5. At(th[t], {"release"}, o) /\ Releasing(o) /\ Alive(o) /\ Present(o)
  BY <1>0, <1>1 DEF At, Releasing, Alive, Present
<1>6. bo[o].kref = 0 /\ ~On(ddestroy, o) /\ bo[o].mem # "none"
  BY <1>4, <1>5 DEF Life
<1>7. bo[o].list_kref > 0
  <2>1. /\ bo[o].list_kref >= Linked(o) + (IF On(ddestroy, o) THEN 1 ELSE 0)
              + (IF Alive(o) THEN 1 ELSE 0) + (IF At(th[t], Helping, o) THEN 1 ELSE 0)
              + (IF th[t].next = o THEN 1 ELSE 0)
              + (IF At(th[t], {"memtype"}, o) THEN th[t].put ELSE 0)
    BY <1>2, BufferIs
  <2>2. ~At(th[t], {"memtype"}, o)
    BY <1>1 DEF At
  <2>3. QED
    BY <1>4, <1>5, <2>1, <2>2
<1> DEFINE q == [th[t] EXCEPT !.pc = "objput"]
           s == IF bo[o].sync = "signaled" THEN "none" ELSE bo[o].sync
           r == [ListGet(bo[o]) EXCEPT !.sync = s]
<1>8. th' = [th EXCEPT ![t] = q] /\ bo' = [bo EXCEPT ![o] = r]
  <2>1. ListGet(bo[o]).sync = bo[o].sync
    BY <1>2, ListGetIs
  <2>2. bo' = [bo EXCEPT ![o] = [ListGet(bo[o]) EXCEPT !.sync =
                                   IF @ = "signaled" THEN "none" ELSE @]]
    BY <1>0 DEF ReleaseQueue
  <2>3. bo' = [bo EXCEPT ![o] = r]
    BY <2>1, <2>2
  <2>4. QED
    BY <1>2, <2>3, ThreadIs DEF ReleaseQueue, Goto
<1>9. q \in ThreadRecord
  BY <1>2 DEF ThreadRecord, Labels
<1>10. /\ q.pc = "objput" /\ q.obj = o /\ q.list = th[t].list /\ q.pos = th[t].pos
      /\ q.next = th[t].next /\ q.removed = th[t].removed /\ q.ret = th[t].ret
  BY <1>0, <1>2 DEF ThreadRecord
<1>11. s \in {"none", "busy", "signaled"} /\ (bo[o].sync = "none" => s = "none")
  BY <1>2 DEF LooseRecord
<1> HIDE DEF s
<1>12. r \in LooseRecord
  <2>1. WithSync(ListGet(bo[o]), s) \in LooseRecord
    BY <1>2, <1>11, ListGetIs, WithIs
  <2>2. QED
    BY <2>1, Zenon DEF WithSync
<1>13. /\ r.kref = bo[o].kref /\ r.handle = bo[o].handle /\ r.freed = bo[o].freed
       /\ r.cpu_writers = bo[o].cpu_writers /\ r.reserved = bo[o].reserved
       /\ r.list_kref = bo[o].list_kref + 1 /\ r.sync = s /\ r.mem = bo[o].mem
  BY <1>2 DEF LooseRecord, ListGet
<1> HIDE DEF q, r
<1>14. th'[t] = q /\ Others(t) /\ bo'[o] = r
  BY <1>2, <1>8, ThreadIs DEF Others
<1>15. /\ ddestroy' \in Seq(Buffers) /\ On(ddestroy', o)
       /\ \A b \in Buffers \ {o} : On(ddestroy', b) <=> On(ddestroy, b)
  <2>1. ddestroy \in Seq(Buffers)
    BY DEF IInv, TypeOK
  <2>2. /\ ddestroy' \in Seq(Buffers) /\ Len(ddestroy') = Len(ddestroy) + 1
        /\ Len(ddestroy) \in Nat
        /\ \A i \in 1 .. Len(ddestroy) : ddestroy'[i] = ddestroy[i]
        /\ ddestroy'[Len(ddestroy) + 1] = o
    BY <1>1, <1>2, <2>1, AppendProperties, LenProperties
  <2>3. \A b : /\ On(ddestroy, b) <=> \E i \in 1 .. Len(ddestroy) : ddestroy[i] = b
               /\ On(ddestroy', b) <=> \E i \in 1 .. Len(ddestroy') : ddestroy'[i] = b
    BY <2>1, <2>2, OnIs
  <2>4. QED
    BY <2>2, <2>3
<1>16. /\ ~Releasing(o)' /\ ~Alive(o)' /\ Present(o)' /\ bo'[o].kref = 0
  <2>1. ~At(q, {"release"}, o)
    BY <1>10 DEF At
  <2>2. ~Releasing(o)'
    BY <1>4, <1>5, <1>14, <2>1, ReleasingIs
  <2>3. bo'[o].kref = 0
    BY <1>6, <1>13, <1>14
  <2>4. QED
    BY <1>15, <2>2, <2>3 DEF Alive, Present
<1>17. Life(o)'
  <2>1. /\ ~At(q, {"memtype"}, o) /\ ~At(q, {"cleanwait", "cleanreserve"}, o)
        /\ ~At(q, {"cleanreserve"}, o)
    BY <1>10 DEF At
  <2>2. \A u \in Threads : ~At(th'[u], {"release"}, o)
    BY <1>16 DEF Releasing
  <2>3. ASSUME NEW u \in Threads
        PROVE  ~At(th'[u], {"memtype"}, o) /\ ~At(th'[u], {"cleanreserve"}, o)
    <3>1. ~At(th[u], {"memtype"}, o) /\ ~At(th[u], {"cleanwait", "cleanreserve"}, o)
      BY <1>4, <1>5 DEF Life
    <3>2. ~At(th[u], {"cleanreserve"}, o)
      BY <3>1 DEF At
    <3>3. QED
      BY <1>14, <2>1, <3>1, <3>2 DEF Others
  <2>4. bo'[o].mem # "none"
    BY <1>6, <1>13, <1>14
  <2>5. QED
    BY <1>15, <1>16, <2>2, <2>3, <2>4 DEF Life
<1>18. Reservation(o)'
  <2>1. Reserved(q) = Reserved(th[t])
    BY <1>10 DEF Reserved
  <2>2. Holds(q, o) <=> Holds(th[t], o)
    BY <1>1, <1>10, <2>1 DEF Holds, At
  <2>3. bo[o].reserved = t /\ OnLru(o)' => FALSE
    BY <1>1, <1>3, <1>4 DEF Reservation
  <2>4. QED
    BY <1>3, <1>4, <1>5, <1>13, <1>14, <2>1, <2>2, <2>3, ReservationSame
<1>19. r.list_kref = bo[o].list_kref + (Linked(o)' - Linked(o)
           + (IF On(ddestroy', o) THEN 1 ELSE 0) - (IF On(ddestroy, o) THEN 1 ELSE 0)
           + (IF q.pc = "memtype" THEN q.put ELSE 0)
           - (IF th[t].pc = "memtype" THEN th[t].put ELSE 0))
  BY <1>1, <1>3, <1>4, <1>6, <1>10, <1>13, <1>15
<1>20. r.freed <=> r.list_kref = 0
  BY <1>4, <1>7, <1>13
<1>21. wq' \in BOOLEAN
  BY <1>1
<1>22. QED
  BY <1>0, <1>1, <1>3, <1>5, <1>8, <1>9, <1>10, <1>12, <1>13, <1>15, <1>16, <1>17, <1>18, <1>19,
     <1>20, <1>21, HelpStep

\* The memory goes, with the references of the lists.
LEMMA CleanupMemtypeUseInv ==
  ASSUME IInv, NEW t \in Threads, CleanupMemtypeUse(t), UNCHANGED max_gmr_ids
  PROVE  IInv'
<1>0. PICK o : o = th[t].obj
  OBVIOUS
<1>1. /\ th[t].pc = "memtype"
      /\ UNCHANGED <<lru, ddestroy, wq, val_seq, lru_lock, max_gmr_ids>>
  BY DEF CleanupMemtypeUse
<1>2. /\ o \in Buffers /\ bo[o] \in LooseRecord /\ th[t] \in ThreadRecord
  BY <1>0, <1>1, HelperIs DEF Helping
<1>3. /\ LruType' /\ (\A b : SameLinks(b)) /\ Linked(o)' = Linked(o)
      /\ (OnLru(o)' <=> OnLru(o))
  <2>1. LruType /\ LruType' /\ \A b : SameLinks(b)
    BY <1>1, ThreadIs DEF LruType, SameLinks
  <2>2. QED
    BY <2>1, LinkSteps
<1>4. /\ Life(o) /\ Reservation(o) /\ Linked(o) \in Nat /\ bo[o].list_kref \in Nat
      /\ bo[o].kref \in Nat /\ t # NoOne /\ th[t].put \in Nat
  BY <1>2, BufferIs DEF ThreadRecord
<1>5. At(th[t], {"memtype"}, o) /\ Holds(th[t], o) /\ ~At(th[t], {"release"}, o)
  BY <1>0, <1>1 DEF At, Holds
<1>6. ~Present(o)
  BY <1>4, <1>5 DEF Life
<1>7. bo[o].kref = 0 /\ ~Releasing(o) /\ ~On(ddestroy, o)
  BY <1>4, <1>6 DEF Present
<1> DEFINE q == [th[t] EXCEPT !.pc = "objput", !.put = 0]
           f == [Unreserve(bo[o]) EXCEPT !.mem = "none"]
           r == ListPut(f, th[t].put)
<1>8. th' = [th EXCEPT ![t] = q] /\ bo' = [bo EXCEPT ![o] = r]
  BY <1>0, <1>2, ThreadIs DEF CleanupMemtypeUse
<1>9. q \in ThreadRecord
  BY <1>2 DEF ThreadRecord, Labels
<1>10. /\ q.pc = "objput" /\ q.obj = o /\ q.list = th[t].list /\ q.pos = th[t].pos
      /\ q.next = th[t].next /\ q.removed = th[t].removed /\ q.ret = th[t].ret
  BY <1>0, <1>2 DEF ThreadRecord
<1>11. f \in LooseRecord
  BY <1>2 DEF LooseRecord, Unreserve
<1>12. /\ f.kref = bo[o].kref /\ f.handle = bo[o].handle /\ f.list_kref = bo[o].list_kref
       /\ f.cpu_writers = bo[o].cpu_writers /\ f.reserved = NoOne
       /\ f.sync = bo[o].sync /\ f.mem = "none"
  BY <1>2 DEF LooseRecord, Unreserve
<1> HIDE DEF f
<1>13. /\ r \in LooseRecord
       /\ r.kref = bo[o].kref /\ r.handle = bo[o].handle
       /\ r.cpu_writers = bo[o].cpu_writers /\ r.reserved = NoOne
       /\ r.list_kref = bo[o].list_kref - th[t].put /\ r.sync = bo[o].sync /\ r.mem = "none"
       /\ r.freed <=> bo[o].list_kref = th[t].put
  <2>1. PICK n \in Int : n = th[t].put
    BY <1>4
  <2>2. r = ListPut(f, n)
    BY <2>1
  <2>3. /\ ListPut(f, n) \in LooseRecord
        /\ ListPut(f, n).kref = f.kref /\ ListPut(f, n).handle = f.handle
        /\ ListPut(f, n).freed <=> f.list_kref = n
        /\ ListPut(f, n).list_kref = f.list_kref - n
        /\ ListPut(f, n).cpu_writers = f.cpu_writers
        /\ ListPut(f, n).reserved = f.reserved
        /\ ListPut(f, n).sync = f.sync /\ ListPut(f, n).mem = f.mem
    BY <1>11, ListPutIs, Zenon
  <2> HIDE DEF r
  <2>4. QED
    BY <1>12, <2>1, <2>2, <2>3
<1> HIDE DEF q, r
<1>14. th'[t] = q /\ Others(t) /\ bo'[o] = r
  BY <1>2, <1>8, ThreadIs DEF Others
<1>15. ~Releasing(o)' /\ ~Alive(o)' /\ ~Alive(o) /\ ~Present(o)' /\ bo'[o].kref = 0
  <2>1. ~At(q, {"release"}, o)
    BY <1>10 DEF At
  <2>2. ~Releasing(o)'
    BY <1>5, <1>7, <1>14, <2>1, ReleasingIs
  <2>3. bo'[o].kref = 0 /\ ~On(ddestroy', o)
    BY <1>1, <1>7, <1>13, <1>14
  <2>4. QED
    BY <1>7, <2>2, <2>3 DEF Alive, Present
<1>16. Life(o)'
  <2>1. ~At(q, {"evicting", "swapping"}, o) /\ ~At(q, {"cleanreserve"}, o)
    BY <1>10 DEF At
  <2>2. \A u \in Threads : ~At(th'[u], {"release"}, o)
    BY <1>15 DEF Releasing
  <2>3. ASSUME NEW u \in Threads PROVE ~At(th'[u], {"evicting", "swapping"}, o)
    <3>1. ~At(th[u], {"evicting", "swapping"}, o)
      BY <1>4, <1>6 DEF Life
    <3>2. QED
      BY <1>14, <2>1, <3>1 DEF Others
  <2>4. bo'[o].mem = "none" /\ bo'[o].sync = "none" /\ ~OnLru(o)' /\ ~On(ddestroy', o)
    <3>1. bo[o].sync = "none" /\ ~OnLru(o)
      BY <1>4, <1>6 DEF Life
    <3>2. QED
      BY <1>1, <1>3, <1>7, <1>13, <1>14, <3>1
  <2>5. QED
    BY <1>15, <2>2, <2>3, <2>4 DEF Life
<1>17. Reservation(o)'
  <2>1. ~On(Reserved(q), o)
    <3>1. Reserved(q) = Reserved(th[t])
      BY <1>10 DEF Reserved
    <3>2. QED
      BY <1>2, <1>7, <3>1, HoldersAre
  <2>2. ~Holds(q, o)
    BY <1>10, <2>1 DEF Holds, At
  <2>3. QED
    BY <1>4, <1>5, <1>13, <1>14, <2>2, ReservationDropped
<1>18. r.list_kref = bo[o].list_kref + (Linked(o)' - Linked(o)
           + (IF On(ddestroy', o) THEN 1 ELSE 0) - (IF On(ddestroy, o) THEN 1 ELSE 0)
           + (IF q.pc = "memtype" THEN q.put ELSE 0)
           - (IF th[t].pc = "memtype" THEN th[t].put ELSE 0))
  BY <1>1, <1>3, <1>4, <1>10, <1>13
<1>19. r.freed <=> r.list_kref = 0
  BY <1>4, <1>13
<1>20. ddestroy' \in Seq(Buffers) /\ wq' \in BOOLEAN /\ th[t].pc \in Helping \cup {"release"}
  BY <1>1 DEF IInv, TypeOK, Helping
<1>21. \A b \in Buffers \ {o} : SameLinks(b) /\ (On(ddestroy', b) <=> On(ddestroy, b))
  BY <1>1, <1>3
<1>22. QED
  BY <1>0, <1>1, <1>3, <1>8, <1>9, <1>10, <1>13, <1>15, <1>16, <1>17, <1>18, <1>19, <1>20, <1>21,
     HelpStep

\* Both ends of the wait for a reservation.
LEMMA CleanReserveInv ==
  ASSUME IInv, NEW t \in Threads, CleanTooLate(t) \/ CleanReserve(t), UNCHANGED max_gmr_ids
  PROVE  IInv'
<1>0. PICK o : o = th[t].obj
  OBVIOUS
<1>1. /\ th[t].pc = "cleanreserve" /\ bo[o].reserved = NoOne
      /\ UNCHANGED <<wq, val_seq, lru_lock, max_gmr_ids>>
  BY <1>0 DEF CleanTooLate, CleanReserve
<1>2. /\ o \in Buffers /\ bo[o] \in LooseRecord /\ th[t] \in ThreadRecord
      /\ ddestroy \in Seq(Buffers) /\ LruType
  BY <1>0, <1>1, HelperIs, ThreadIs DEF Helping, IInv, TypeOK
<1>3. /\ Life(o) /\ Reservation(o) /\ Linked(o) \in Nat /\ bo[o].list_kref \in Nat
      /\ (bo[o].freed <=> bo[o].list_kref = 0) /\ t # NoOne /\ bo[o].kref \in Nat
  BY <1>2, BufferIs
<1>4. /\ At(th[t], {"cleanwait", "cleanreserve"}, o) /\ At(th[t], {"cleanreserve"}, o)
      /\ ~At(th[t], {"release"}, o) /\ ~At(th[t], {"memtype"}, o)
  BY <1>0, <1>1 DEF At
<1>5. bo[o].kref = 0 /\ ~Releasing(o) /\ bo[o].sync = "none" /\ ~Alive(o)
  <2>1. bo[o].kref = 0 /\ ~Releasing(o) /\ bo[o].sync = "none"
    BY <1>3, <1>4 DEF Life
  <2>2. QED
    BY <2>1 DEF Alive
<1>6. bo' = [bo EXCEPT ![o] = Reserve(bo[o], t)]
  BY <1>0, <1>2, ThreadIs DEF CleanTooLate, CleanReserve
<1> DEFINE r == Reserve(bo[o], t)
<1>7. /\ r \in LooseRecord
      /\ r.kref = bo[o].kref /\ r.handle = bo[o].handle /\ r.freed = bo[o].freed
      /\ r.cpu_writers = bo[o].cpu_writers /\ r.reserved = t
      /\ r.list_kref = bo[o].list_kref /\ r.sync = bo[o].sync /\ r.mem = bo[o].mem
  BY <1>2, ReserveIs
<1>8. PICK q \in ThreadRecord :
        /\ th' = [th EXCEPT ![t] = q]
        /\ q.obj = o /\ q.list = th[t].list /\ q.pos = th[t].pos
        /\ q.next = th[t].next /\ q.removed = th[t].removed /\ q.ret = th[t].ret
        /\ CleanTooLate(t) => q.pc = "objput"
        /\ CleanReserve(t) => q.pc = "memtype" /\ q.put = Linked(o) + 1
  <2>1. CASE CleanTooLate(t)
    <3> DEFINE q == [th[t] EXCEPT !.pc = "objput"]
    <3>1. th' = [th EXCEPT ![t] = q] /\ ~CleanReserve(t)
      BY <2>1, <1>2, ThreadIs DEF CleanTooLate, CleanReserve, Goto
    <3>2. q \in ThreadRecord
      BY <1>2 DEF ThreadRecord, Labels
    <3>3. /\ q.obj = o /\ q.list = th[t].list /\ q.pos = th[t].pos /\ q.pc = "objput"
          /\ q.next = th[t].next /\ q.removed = th[t].removed /\ q.ret = th[t].ret
      BY <1>0, <1>2 DEF ThreadRecord
    <3> HIDE DEF q
    <3>4. QED
      BY <3>1, <3>2, <3>3
  <2>2. CASE CleanReserve(t)
    <3>0. PICK n \in Nat : n = Linked(o) + 1
      BY <1>3
    <3> DEFINE q == [th[t] EXCEPT !.pc = "memtype", !.put = n]
    <3>1. th' = [th EXCEPT ![t] = q] /\ ~CleanTooLate(t)
      BY <2>2, <1>0, <1>2, <3>0, ThreadIs DEF CleanTooLate, CleanReserve
    <3>2. q \in ThreadRecord
      BY <1>2 DEF ThreadRecord, Labels
    <3>3. /\ q.obj = o /\ q.list = th[t].list /\ q.pos = th[t].pos /\ q.pc = "memtype"
          /\ q.next = th[t].next /\ q.removed = th[t].removed /\ q.ret = th[t].ret
          /\ q.put = Linked(o) + 1
      BY <1>0, <1>2, <3>0 DEF ThreadRecord
    <3> HIDE DEF q
    <3>4. QED
      BY <3>1, <3>2, <3>3
  <2>3. QED
    BY <2>1, <2>2
<1>9. /\ LruType' /\ ddestroy' \in Seq(Buffers)
      /\ \A b \in Buffers \ {o} : SameLinks(b) /\ (On(ddestroy', b) <=> On(ddestroy, b))
      /\ CleanTooLate(t) => /\ ~On(ddestroy, o) /\ ~On(ddestroy', o)
                            /\ Linked(o)' = Linked(o) /\ (OnLru(o)' <=> OnLru(o))
      /\ CleanReserve(t) => /\ On(ddestroy, o) /\ ~On(ddestroy', o)
                            /\ Linked(o)' = 0 /\ ~OnLru(o)'
  <2>1. CASE CleanTooLate(t)
    <3>1. UNCHANGED <<lru, ddestroy>> /\ ~On(ddestroy, o) /\ ~CleanReserve(t)
      BY <2>1, <1>0 DEF CleanTooLate, CleanReserve
    <3>2. LruType' /\ \A b : SameLinks(b)
      BY <1>2, <3>1 DEF LruType, SameLinks
    <3>3. QED
      BY <1>2, <3>1, <3>2, LinkSteps
  <2>2. CASE CleanReserve(t)
    <3>1. /\ lru' = DelFromLru({o}) /\ ddestroy' = Kept(ddestroy, Buffers \ {o})
          /\ On(ddestroy, o) /\ ~CleanTooLate(t)
      BY <2>2, <1>0 DEF CleanTooLate, CleanReserve
    <3>2. /\ ddestroy' \in Seq(Buffers)
          /\ \A b \in Buffers : On(ddestroy', b) <=> On(ddestroy, b) /\ b \in Buffers \ {o}
      BY <1>2, <3>1, KeptIs
    <3>3. /\ LruType' /\ Linked(o)' = 0 /\ ~OnLru(o)'
          /\ \A b \in Buffers \ {o} : SameLinks(b)
      BY <1>2, <3>1, OffLru
    <3>4. QED
      BY <1>2, <3>1, <3>2, <3>3
  <2>3. QED
    BY <2>1, <2>2
<1> HIDE DEF r
<1>10. th'[t] = q /\ Others(t) /\ bo'[o] = r
  BY <1>2, <1>6, <1>8, ThreadIs DEF Others, r
<1>11. ~Releasing(o)' /\ ~Alive(o)' /\ ~Present(o)' /\ bo'[o].kref = 0
  <2>1. ~At(q, {"release"}, o)
    BY <1>8 DEF At
  <2>2. ~Releasing(o)'
    BY <1>4, <1>5, <1>10, <2>1, ReleasingIs
  <2>3. bo'[o].kref = 0 /\ ~On(ddestroy', o)
    BY <1>5, <1>7, <1>9, <1>10
  <2>4. QED
    BY <2>2, <2>3 DEF Alive, Present
<1>12. ~OnLru(o)'
  <2>1. CASE CleanTooLate(t)
    <3>1. ~Present(o)
      BY <1>5, <1>9, <2>1 DEF Present
    <3>2. QED
      BY <1>3, <1>9, <2>1, <3>1 DEF Life
  <2>2. QED
    BY <1>9, <2>1
<1>13. Life(o)'
  <2>1. ~At(q, {"evicting", "swapping"}, o)
    BY <1>8 DEF At
  <2>2. \A u \in Threads : ~At(th'[u], {"release"}, o)
    BY <1>11 DEF Releasing
  <2>3. ASSUME NEW u \in Threads PROVE ~At(th'[u], {"evicting", "swapping"}, o)
    <3>1. ~Holds(th[u], o)
      BY <1>1, <1>2, HoldersAre
    <3>2. QED
      BY <1>10, <2>1, <3>1 DEF Others, Holds, At
  <2>4. bo'[o].sync = "none" /\ ~On(ddestroy', o)
    BY <1>5, <1>7, <1>9, <1>10
  <2>5. bo'[o].mem = "none" \/ \E u \in Threads : At(th'[u], {"memtype"}, o)
    <3>1. CASE CleanTooLate(t)
      <4>1. ~Present(o)
        BY <1>5, <1>9, <3>1 DEF Present
      <4>2. bo[o].mem = "none" \/ \E u \in Threads : At(th[u], {"memtype"}, o)
        BY <1>3, <4>1 DEF Life
      <4>3. ASSUME NEW u \in Threads PROVE ~At(th[u], {"memtype"}, o)
        <5>1. ~Holds(th[u], o)
          BY <1>1, <1>2, HoldersAre
        <5>2. QED
          BY <5>1 DEF Holds, At
      <4>4. QED
        BY <1>7, <1>10, <4>2, <4>3
    <3>2. CASE CleanReserve(t)
      <4>1. At(q, {"memtype"}, o)
        BY <1>8, <3>2 DEF At
      <4>2. QED
        BY <1>10, <4>1
    <3>3. QED
      BY <3>1, <3>2
  <2>6. QED
    BY <1>11, <1>12, <2>2, <2>3, <2>4, <2>5 DEF Life
<1>14. Reservation(o)'
  <2>1. ~On(Reserved(q), o)
    <3>1. Reserved(q) = Reserved(th[t])
      BY <1>8 DEF Reserved
    <3>2. QED
      BY <1>2, <1>5, <3>1, HoldersAre
  <2>2. QED
    BY <1>1, <1>3, <1>7, <1>10, <1>11, <1>12, <2>1, ReservationTaken
<1>15. r.list_kref = bo[o].list_kref + (Linked(o)' - Linked(o)
           + (IF On(ddestroy', o) THEN 1 ELSE 0) - (IF On(ddestroy, o) THEN 1 ELSE 0)
           + (IF q.pc = "memtype" THEN q.put ELSE 0)
           - (IF th[t].pc = "memtype" THEN th[t].put ELSE 0))
  <2>1. CASE CleanTooLate(t)
    BY <1>1, <1>3, <1>7, <1>8, <1>9, <2>1
  <2>2. CASE CleanReserve(t)
    BY <1>1, <1>3, <1>7, <1>8, <1>9, <2>2
  <2>3. QED
    BY <2>1, <2>2
<1>16. r.freed <=> r.list_kref = 0
  BY <1>3, <1>7
<1>17. wq' \in BOOLEAN /\ th[t].pc \in Helping /\ q.pc \in {"memtype", "objput"}
  BY <1>1, <1>8 DEF IInv, TypeOK, Helping
<1>18. QED
  BY <1>0, <1>1, <1>5, <1>6, <1>7, <1>8, <1>9, <1>11, <1>13, <1>14, <1>15, <1>16, <1>17,
     HelpStep DEF r

\* A helper drops its own reference.
LEMMA ObjPutInv ==
  ASSUME IInv, NEW t \in Threads, ObjPut(t), UNCHANGED max_gmr_ids
  PROVE  IInv'
<1>0. PICK o : o = th[t].obj
  OBVIOUS
<1>1. /\ th[t].pc = "objput"
      /\ UNCHANGED <<lru, ddestroy, wq, val_seq, lru_lock, max_gmr_ids>>
  BY DEF ObjPut
<1>2. /\ o \in Buffers /\ bo[o] \in LooseRecord /\ th[t] \in ThreadRecord
      /\ Controlled(t, th[t], lru_lock)
  BY <1>0, <1>1, HelperIs DEF Helping
<1>3. /\ LruType' /\ (\A b : SameLinks(b)) /\ Linked(o)' = Linked(o)
      /\ (OnLru(o)' <=> OnLru(o))
  <2>1. LruType /\ LruType' /\ \A b : SameLinks(b)
    BY <1>1, ThreadIs DEF LruType, SameLinks
  <2>2. QED
    BY <2>1, LinkSteps
<1>4. /\ Life(o) /\ Reservation(o) /\ Linked(o) \in Nat /\ bo[o].list_kref \in Nat
      /\ bo[o].kref \in Nat /\ bo[o].cpu_writers \in Nat /\ t # NoOne
      /\ bo[o].reserved \in Threads \cup {NoOne} /\ o # NoOne
  BY <1>2, BufferIs, BoAssumption
<1>5. th[t].ret \in {"idle", "unref", "wqnext"} \cup Submitting
  BY <1>1, <1>2 DEF Controlled, Helping
<1> DEFINE q == [th[t] EXCEPT !.pc = th[t].ret, !.obj = NoOne, !.ret = "idle"]
           r == ListPut(bo[o], 1)
<1>6. th' = [th EXCEPT ![t] = q] /\ bo' = [bo EXCEPT ![o] = r]
  BY <1>0, <1>2, ThreadIs DEF ObjPut
<1>7. q \in ThreadRecord
  <2>1. th[t].ret \in Labels /\ "idle" \in Labels
    BY <1>2 DEF ThreadRecord, Labels
  <2>2. QED
    BY <1>2, <2>1 DEF ThreadRecord
<1>8. /\ q.pc = th[t].ret /\ q.obj = NoOne /\ q.list = th[t].list /\ q.pos = th[t].pos
      /\ q.next = th[t].next /\ q.removed = th[t].removed /\ q.ret = "idle"
  BY <1>2 DEF ThreadRecord
<1>9. q.pc \in Plain \ {"scan", "grab"}
  BY <1>5, <1>8 DEF Plain, Submitting
<1>10. /\ r \in LooseRecord
       /\ r.kref = bo[o].kref /\ r.handle = bo[o].handle
       /\ r.cpu_writers = bo[o].cpu_writers /\ r.reserved = bo[o].reserved
       /\ r.list_kref = bo[o].list_kref - 1 /\ r.sync = bo[o].sync /\ r.mem = bo[o].mem
       /\ r.freed <=> bo[o].list_kref = 1
  BY <1>2, ListPutIs
<1> HIDE DEF q, r
<1>11. th'[t] = q /\ Others(t) /\ bo'[o] = r
  BY <1>2, <1>6, ThreadIs DEF Others
<1>12. Reserved(q) = Reserved(th[t])
  BY <1>8 DEF Reserved
<1>13. /\ \A S \in {{"cpu"}, {"release"}, {"memtype"}, {"evicting", "swapping"}, {"cleanreserve"},
                    {"cleanwait", "cleanreserve"}} :
            ~At(q, S, o) /\ ~At(th[t], S, o)
       /\ ~At(q, Helping, o) /\ At(th[t], Helping, o)
       /\ (Holds(q, o) <=> Holds(th[t], o))
  BY <1>0, <1>1, <1>9, <1>12 DEF At, Plain, Helping, Holds
<1>14. Life(o)' /\ (Present(o)' <=> Present(o)) /\ (Alive(o)' <=> Alive(o))
  <2>1. Releasing(o)' <=> Releasing(o)
    BY <1>11, <1>13, ReleasingIs
  <2>2. Alive(o)' <=> Alive(o)
    BY <1>10, <1>11, <2>1 DEF Alive
  <2>3. /\ bo'[o].kref = 0 <=> bo[o].kref = 0
        /\ bo[o].sync = "none" => bo'[o].sync = "none"
        /\ bo'[o].mem = "none" <=> bo[o].mem = "none"
        /\ bo'[o].kref \in Nat
        /\ On(ddestroy', o) <=> On(ddestroy, o)
        /\ OnLru(o)' => OnLru(o)
        /\ th'[t].next = o => th[t].next = o
    BY <1>1, <1>3, <1>4, <1>8, <1>10, <1>11
  <2>4. QED
    BY <1>4, <1>11, <1>13, <2>2, <2>3, LifeSame
<1>15. Reservation(o)'
  <2>1. bo[o].reserved = t /\ OnLru(o)' => FALSE
    BY <1>1, <1>3, <1>4 DEF Reservation
  <2>2. QED
    BY <1>3, <1>4, <1>10, <1>11, <1>12, <1>13, <1>14, <2>1, ReservationSame
<1>16. Controlled(t, q, lru_lock)
  <2>1. \A S : (In(q, S) <=> q.pc \in S) /\ (In(th[t], S) <=> th[t].pc \in S \/ th[t].ret \in S)
    BY <1>1, <1>9 DEF In, Plain, Helping
  <2>2. \A S : "objput" \notin S => (In(q, S) <=> In(th[t], S))
    BY <1>1, <1>8, <2>1
  <2>3. q.pc \notin Helping \cup {"release"} \cup Grabbing \cup {"scan"} /\ lru_lock # t
    BY <1>1, <1>2, <1>9 DEF Plain, Helping, Grabbing, Controlled
  <2>4. QED
    BY <1>2, <1>8, <1>12, <2>2, <2>3 DEF Controlled, Helping, Submitting, Grabbing, Locking
<1>17. \A b \in Buffers \ {o} :
        /\ SameLinks(b) /\ SameView(th[t], q, b)
        /\ On(ddestroy', b) <=> On(ddestroy, b)
        /\ ~At(q, {"cleanreserve"}, b)
  <2>1. ASSUME NEW b \in Buffers \ {o}
        PROVE  SameView(th[t], q, b) /\ ~At(q, {"cleanreserve"}, b)
    BY <1>0, <1>1, <1>8, <1>9, ViewSame DEF At, Plain
  <2>2. QED
    BY <1>1, <1>3, <2>1
<1>18. /\ r.kref = bo[o].kref
           + (IF On(q.list, o) THEN 1 ELSE 0) - (IF On(th[t].list, o) THEN 1 ELSE 0)
           + (IF r.handle THEN 1 ELSE 0) - (IF bo[o].handle THEN 1 ELSE 0)
       /\ r.cpu_writers = bo[o].cpu_writers
           + (IF At(q, {"cpu"}, o) THEN 1 ELSE 0) - (IF At(th[t], {"cpu"}, o) THEN 1 ELSE 0)
  BY <1>4, <1>8, <1>10, <1>13
<1>19. r.list_kref = bo[o].list_kref + (Linked(o)' - Linked(o)
           + (IF On(ddestroy', o) THEN 1 ELSE 0) - (IF On(ddestroy, o) THEN 1 ELSE 0)
           + (IF Alive(o)' THEN 1 ELSE 0) - (IF Alive(o) THEN 1 ELSE 0)
           + (IF At(q, Helping, o) THEN 1 ELSE 0) - (IF At(th[t], Helping, o) THEN 1 ELSE 0)
           + (IF q.next = o THEN 1 ELSE 0) - (IF th[t].next = o THEN 1 ELSE 0)
           + (IF At(q, {"memtype"}, o) THEN q.put ELSE 0)
           - (IF At(th[t], {"memtype"}, o) THEN th[t].put ELSE 0))
  BY <1>1, <1>3, <1>4, <1>8, <1>10, <1>13, <1>14
<1>20. r.freed <=> r.list_kref = 0
  BY <1>4, <1>10
<1>21. ddestroy' \in Seq(Buffers) /\ wq' \in BOOLEAN
  BY <1>1 DEF IInv, TypeOK
<1>22. QED
  BY <1>1, <1>2, <1>3, <1>6, <1>7, <1>10, <1>14, <1>15, <1>16, <1>17, <1>18, <1>19, <1>20, <1>21,
     TouchStep

-----------------------------------------------------------------------------
(* The first buffer of an lru list. *)

\* The first element of a list is on it.
LEMMA HeadIs ==
  ASSUME NEW s \in Seq(Buffers), s # <<>>
  PROVE  Head(s) \in Buffers /\ On(s, Head(s))
<1>1. 1 \in 1 .. Len(s) /\ Head(s) = s[1]
  BY EmptySeq, LenProperties
<1>2. QED
  BY <1>1, OnIs, ElementOfSeq

\* A thread begins to work on a buffer, for an eviction or as a shrinker.
LEMMA TakeControl ==
  ASSUME NEW t \in Threads, NEW r \in ThreadRecord, NEW q \in ThreadRecord, NEW l,
         Controlled(t, r, l), r.pc \in {"evict", "idle"},
         q.pc \in {"cleanwait", "evicting", "swapping"}, q.obj \in Buffers,
         q.pc = "cleanwait" \/ ~On(Reserved(r), q.obj),
         q.list = r.list, q.pos = r.pos, q.next = r.next, q.removed = r.removed,
         q.ret = IF r.pc = "evict" THEN "validate" ELSE "idle",
         q.pc = "evicting" => r.pc = "evict"
  PROVE  Controlled(t, q, l) /\ q.next = NoOne
<1>1. Reserved(q) = Reserved(r)
  BY DEF Reserved
<1>2. \A S : (In(r, S) <=> r.pc \in S) /\ (In(q, S) <=> q.pc \in S \/ q.ret \in S)
  BY DEF In, Helping
<1>3. r.next = NoOne
  BY <1>2 DEF Controlled
<1>4. CASE r.pc = "evict"
  <2>1. r.pos = Len(r.list) + 1 /\ t \in Validators
    BY <1>2, <1>4 DEF Controlled, Submitting
  <2>2. QED
    BY <1>1, <1>2, <1>3, <1>4, <2>1 DEF Controlled, Helping, Submitting, Grabbing, Locking
<1>5. CASE r.pc = "idle"
  <2>1. r.pos = 1 /\ r.list = <<>>
    BY <1>2, <1>5 DEF Controlled
  <2>2. QED
    BY <1>1, <1>2, <1>3, <1>5, <2>1 DEF Controlled, Helping, Submitting, Grabbing, Locking
<1>6. QED
  BY <1>4, <1>5

\* What such a thread sees.
LEMMA TakeStep ==
  ASSUME IInv, NEW t \in Threads, NEW q \in ThreadRecord, th' = [th EXCEPT ![t] = q],
         NEW o \in Buffers, NEW r \in LooseRecord, bo' = [bo EXCEPT ![o] = r],
         LruType', UNCHANGED <<ddestroy, wq, val_seq, lru_lock, max_gmr_ids>>,
         th[t].pc \in {"evict", "idle"}, q.pc \in {"cleanwait", "evicting", "swapping"},
         q.obj = o, q.pc = "cleanwait" \/ ~On(Reserved(th[t]), o),
         q.list = th[t].list, q.pos = th[t].pos, q.next = th[t].next,
         q.removed = th[t].removed,
         q.ret = IF th[t].pc = "evict" THEN "validate" ELSE "idle",
         q.pc = "evicting" => th[t].pc = "evict",
         \A b \in Buffers \ {o} : SameLinks(b),
         r.kref = bo[o].kref, r.handle = bo[o].handle, r.cpu_writers = bo[o].cpu_writers,
         r.freed = bo[o].freed, r.sync = bo[o].sync, r.mem = bo[o].mem,
         r.list_kref = bo[o].list_kref + 1 + Linked(o)' - Linked(o),
         OnLru(o)' => OnLru(o), Present(o),
         q.pc = "cleanwait" => On(ddestroy, o),
         Reservation(o)'
  PROVE  IInv'
<1>1. /\ Life(o) /\ Linked(o) \in Nat /\ Linked(o)' \in Nat /\ bo[o].list_kref \in Nat
      /\ bo[o].kref \in Nat /\ bo[o].cpu_writers \in Nat
      /\ (bo[o].freed <=> bo[o].list_kref = 0)
      /\ Controlled(t, th[t], lru_lock) /\ th[t] \in ThreadRecord /\ o # NoOne
  BY BufferIs, ThreadIs, LinkSteps, BoAssumption
<1>2. Controlled(t, q, lru_lock) /\ q.next = NoOne
  BY <1>1, TakeControl
<1>3. th'[t] = q /\ Others(t) /\ bo'[o] = r
  BY <1>1, ThreadIs DEF Others
<1>4. /\ ~At(q, {"release"}, o) /\ ~At(th[t], {"release"}, o)
      /\ ~At(q, {"memtype"}, o) /\ ~At(th[t], {"memtype"}, o)
      /\ ~At(q, {"cpu"}, o) /\ ~At(th[t], {"cpu"}, o)
      /\ ~At(q, {"cleanreserve"}, o)
      /\ At(q, Helping, o) /\ ~At(th[t], Helping, o)
      /\ At(q, {"cleanwait", "cleanreserve"}, o) => q.pc = "cleanwait"
  BY DEF At, Helping
<1>5. Life(o)' /\ (Present(o)' <=> Present(o)) /\ (Alive(o)' <=> Alive(o))
  <2>1. Releasing(o)' <=> Releasing(o)
    BY <1>3, <1>4, ReleasingIs
  <2>2. Alive(o)' <=> Alive(o)
    BY <1>3, <2>1 DEF Alive
  <2>3. /\ bo'[o].kref = 0 <=> bo[o].kref = 0
        /\ bo[o].sync = "none" => bo'[o].sync = "none"
        /\ bo'[o].mem = "none" <=> bo[o].mem = "none"
        /\ bo'[o].kref \in Nat
        /\ On(ddestroy', o) <=> On(ddestroy, o)
        /\ th'[t].next # o
    BY <1>1, <1>2, <1>3
  <2>4. QED
    BY <1>1, <1>3, <1>4, <2>2, <2>3, LifeSame
<1>6. Linked(o)' = 0 \/ Linked(o)' > 0
  BY <1>1
<1>7. bo[o].list_kref > Linked(o)
  <2>1. /\ bo[o].list_kref >= Linked(o) + (IF On(ddestroy, o) THEN 1 ELSE 0)
              + (IF Alive(o) THEN 1 ELSE 0) + (IF At(th[t], Helping, o) THEN 1 ELSE 0)
              + (IF th[t].next = o THEN 1 ELSE 0)
              + (IF At(th[t], {"memtype"}, o) THEN th[t].put ELSE 0)
    BY BufferIs
  <2>2. On(ddestroy, o) \/ Alive(o)
    BY DEF Present, Alive
  <2>3. QED
    BY <1>1, <1>4, <2>1, <2>2
<1>8. \A b \in Buffers \ {o} :
        /\ SameLinks(b) /\ SameView(th[t], q, b)
        /\ On(ddestroy', b) <=> On(ddestroy, b)
        /\ ~At(q, {"cleanreserve"}, b)
  <2>1. \A b \in Buffers \ {o} : SameView(th[t], q, b) /\ ~At(q, {"cleanreserve"}, b)
    BY OtherView DEF Plain
  <2>2. QED
    BY <2>1
<1>9. /\ r.kref = bo[o].kref
           + (IF On(q.list, o) THEN 1 ELSE 0) - (IF On(th[t].list, o) THEN 1 ELSE 0)
           + (IF r.handle THEN 1 ELSE 0) - (IF bo[o].handle THEN 1 ELSE 0)
      /\ r.cpu_writers = bo[o].cpu_writers
           + (IF At(q, {"cpu"}, o) THEN 1 ELSE 0) - (IF At(th[t], {"cpu"}, o) THEN 1 ELSE 0)
  BY <1>1, <1>4
<1>10. r.list_kref = bo[o].list_kref + (Linked(o)' - Linked(o)
           + (IF On(ddestroy', o) THEN 1 ELSE 0) - (IF On(ddestroy, o) THEN 1 ELSE 0)
           + (IF Alive(o)' THEN 1 ELSE 0) - (IF Alive(o) THEN 1 ELSE 0)
           + (IF At(q, Helping, o) THEN 1 ELSE 0) - (IF At(th[t], Helping, o) THEN 1 ELSE 0)
           + (IF q.next = o THEN 1 ELSE 0) - (IF th[t].next = o THEN 1 ELSE 0)
           + (IF At(q, {"memtype"}, o) THEN q.put ELSE 0)
           - (IF At(th[t], {"memtype"}, o) THEN th[t].put ELSE 0))
  BY <1>1, <1>4, <1>5
<1>11. r.freed <=> r.list_kref = 0
  BY <1>1, <1>7
<1>12. ddestroy' \in Seq(Buffers) /\ wq' \in BOOLEAN
  BY DEF IInv, TypeOK
<1>13. UNCHANGED <<val_seq, lru_lock, max_gmr_ids>>
  OBVIOUS
<1>14. QED
  <2>1. /\ IInv /\ t \in Threads /\ q \in ThreadRecord /\ th' = [th EXCEPT ![t] = q]
        /\ o \in Buffers /\ r \in LooseRecord /\ bo' = [bo EXCEPT ![o] = r]
        /\ LruType' /\ Controlled(t, q, lru_lock) /\ Life(o)' /\ Reservation(o)'
    BY <1>2, <1>5
  <2>2. QED
    BY ONLY <2>1, <1>8, <1>9, <1>10, <1>11, <1>12, <1>13, TouchStep

\* The first buffer of a list awaits its destruction: the thread will help.
LEMMA DyingInv ==
  ASSUME IInv, NEW t \in Threads, NEW o \in Buffers, NEW ret, th[t].pc \in {"evict", "idle"},
         Dying(t, o, ret), ret = IF th[t].pc = "evict" THEN "validate" ELSE "idle",
         UNCHANGED max_gmr_ids
  PROVE  IInv'
<1> DEFINE q == [th[t] EXCEPT !.pc = "cleanwait", !.obj = o, !.ret = ret]
           r == ListGet(bo[o])
<1>1. /\ On(ddestroy, o) /\ Present(o)
      /\ UNCHANGED <<lru, ddestroy, wq, val_seq, lru_lock, max_gmr_ids>>
  BY DEF Dying, Present
<1>2. th[t] \in ThreadRecord /\ bo[o] \in LooseRecord
  BY ThreadIs
<1>3. th' = [th EXCEPT ![t] = q] /\ bo' = [bo EXCEPT ![o] = r]
  BY <1>2, ThreadIs DEF Dying
<1>4. q \in ThreadRecord
  <2>1. ret \in Labels /\ "cleanwait" \in Labels
    BY DEF Labels
  <2>2. QED
    BY <1>2, <2>1 DEF ThreadRecord
<1>5. /\ q.pc = "cleanwait" /\ q.obj = o /\ q.list = th[t].list /\ q.pos = th[t].pos
      /\ q.next = th[t].next /\ q.removed = th[t].removed /\ q.ret = ret
  BY <1>2 DEF ThreadRecord
<1>6. /\ r \in LooseRecord
      /\ r.kref = bo[o].kref /\ r.handle = bo[o].handle /\ r.freed = bo[o].freed
      /\ r.cpu_writers = bo[o].cpu_writers /\ r.reserved = bo[o].reserved
      /\ r.list_kref = bo[o].list_kref + 1 /\ r.sync = bo[o].sync /\ r.mem = bo[o].mem
  BY <1>2, ListGetIs
<1>7. /\ LruType' /\ (\A b : SameLinks(b)) /\ Linked(o)' = Linked(o)
      /\ (OnLru(o)' <=> OnLru(o)) /\ Linked(o) \in Nat
  <2>1. LruType /\ LruType' /\ \A b : SameLinks(b)
    BY <1>1, ThreadIs DEF LruType, SameLinks
  <2>2. QED
    BY <2>1, LinkSteps
<1> HIDE DEF q, r
<1>8. th'[t] = q /\ Others(t) /\ bo'[o] = r
  BY <1>2, <1>3, ThreadIs DEF Others
<1>9. Reservation(o)'
  <2>1. /\ Reservation(o) /\ t # NoOne /\ bo[o].reserved \in Threads \cup {NoOne}
    BY BufferIs
  <2>2. Reserved(q) = Reserved(th[t])
    BY <1>5 DEF Reserved
  <2>3. Holds(q, o) <=> Holds(th[t], o)
    BY <1>5, <2>2 DEF Holds, At
  <2>4. bo[o].reserved = t /\ OnLru(o)' => FALSE
    BY <1>7, <2>1 DEF Reservation
  <2>5. QED
    BY <1>1, <1>6, <1>7, <1>8, <2>1, <2>2, <2>3, <2>4, ReservationSame
<1>10. r.list_kref = bo[o].list_kref + 1 + Linked(o)' - Linked(o)
  <2>1. bo[o].list_kref \in Nat
    BY BufferIs
  <2>2. QED
    BY <1>6, <1>7, <2>1
<1>11. /\ UNCHANGED <<ddestroy, wq, val_seq, lru_lock, max_gmr_ids>>
       /\ q.pc \in {"cleanwait", "evicting", "swapping"} /\ q.pc # "evicting"
       /\ OnLru(o)' => OnLru(o)
       /\ q.ret = IF th[t].pc = "evict" THEN "validate" ELSE "idle"
  BY <1>1, <1>5, <1>7
<1>12. QED
  BY <1>1, <1>3, <1>4, <1>5, <1>6, <1>7, <1>9, <1>10, <1>11, TakeStep

\* The first buffer of a list is reserved and taken off the lists.
LEMMA PickInv ==
  ASSUME IInv, NEW t \in Threads, NEW o \in Buffers, NEW ret, NEW label,
         th[t].pc \in {"evict", "idle"}, OnLru(o),
         Pick(t, o, label, ret), ret = IF th[t].pc = "evict" THEN "validate" ELSE "idle",
         label = IF th[t].pc = "evict" THEN "evicting" ELSE "swapping",
         UNCHANGED max_gmr_ids
  PROVE  IInv'
<1>1. /\ bo[o].reserved = NoOne /\ lru' = DelFromLru({o})
      /\ UNCHANGED <<ddestroy, wq, val_seq, lru_lock, max_gmr_ids>>
  BY DEF Pick
<1>2. /\ th[t] \in ThreadRecord /\ bo[o] \in LooseRecord /\ Linked(o) \in Nat
      /\ bo[o].list_kref \in Nat /\ Life(o) /\ Reservation(o) /\ t # NoOne
  BY ThreadIs, BufferIs
<1>3. PICK n \in Int : n = bo[o].list_kref + 1 - Linked(o)
  BY <1>2
<1> DEFINE q == [th[t] EXCEPT !.pc = label, !.obj = o, !.ret = ret]
           r == WithCount(Reserve(bo[o], t), n)
<1>4. th' = [th EXCEPT ![t] = q] /\ bo' = [bo EXCEPT ![o] = r]
  <2>1. Reserve(bo[o], t).list_kref = bo[o].list_kref
    BY <1>2, ReserveIs
  <2>2. bo' = [bo EXCEPT ![o] = [Reserve(bo[o], t) EXCEPT !.list_kref = @ + 1 - Linked(o)]]
    BY DEF Pick
  <2>3. bo' = [bo EXCEPT ![o] = [Reserve(bo[o], t) EXCEPT !.list_kref = n]]
    BY <1>3, <2>1, <2>2
  <2>4. QED
    BY <1>2, <2>3, ThreadIs DEF Pick, WithCount
<1>5. q \in ThreadRecord
  <2>1. ret \in Labels /\ label \in Labels
    BY DEF Labels
  <2>2. QED
    BY <1>2, <2>1 DEF ThreadRecord
<1>6. /\ q.pc = label /\ q.obj = o /\ q.list = th[t].list /\ q.pos = th[t].pos
      /\ q.next = th[t].next /\ q.removed = th[t].removed /\ q.ret = ret
  BY <1>2 DEF ThreadRecord
<1>7. /\ r \in LooseRecord
      /\ r.kref = bo[o].kref /\ r.handle = bo[o].handle /\ r.freed = bo[o].freed
      /\ r.cpu_writers = bo[o].cpu_writers /\ r.reserved = t
      /\ r.list_kref = n /\ r.sync = bo[o].sync /\ r.mem = bo[o].mem
  BY <1>2 DEF LooseRecord, Reserve, WithCount
<1>8. /\ LruType' /\ Linked(o)' = 0 /\ ~OnLru(o)'
      /\ \A b \in Buffers \ {o} : SameLinks(b)
  BY <1>1, ThreadIs, OffLru
<1> HIDE DEF q, r
<1>9. th'[t] = q /\ Others(t) /\ bo'[o] = r
  BY <1>2, <1>4, ThreadIs DEF Others
<1>10. ~On(Reserved(th[t]), o) /\ Present(o)
  <2>1. ~Holds(th[t], o)
    BY <1>1, HoldersAre
  <2>2. QED
    BY <1>2, <2>1 DEF Holds, Life
<1>11. Reservation(o)'
  <2>1. Reserved(q) = Reserved(th[t])
    BY <1>6 DEF Reserved
  <2>2. Holds(q, o)
    BY <1>6 DEF Holds, At
  <2>3. QED
    BY <1>1, <1>2, <1>7, <1>8, <1>9, <1>10, <2>1, <2>2, ReservationTaken
<1>12. r.list_kref = bo[o].list_kref + 1 + Linked(o)' - Linked(o)
  BY <1>2, <1>3, <1>7, <1>8
<1>13. /\ UNCHANGED <<ddestroy, wq, val_seq, lru_lock, max_gmr_ids>>
       /\ q.pc \in {"cleanwait", "evicting", "swapping"} /\ q.pc # "cleanwait"
       /\ q.pc = "evicting" => th[t].pc = "evict"
       /\ OnLru(o)' => OnLru(o)
       /\ q.ret = IF th[t].pc = "evict" THEN "validate" ELSE "idle"
  BY <1>1, <1>6, <1>8
<1>14. QED
  BY <1>1, <1>4, <1>5, <1>6, <1>7, <1>8, <1>10, <1>11, <1>12, <1>13, TakeStep

\* ttm_mem_evict_first and ttm_bo_swapout take the first buffer.
LEMMA TakeInv ==
  ASSUME IInv, NEW t \in Threads, EvictFirst(t) \/ SwapFirst(t), UNCHANGED max_gmr_ids
  PROVE  IInv'
<1>1. lru.gmr \in Seq(Buffers) /\ lru.swap \in Seq(Buffers) /\ LruType
  BY ThreadIs DEF LruType, Queues
<1>2. CASE EvictFirst(t)
  <2>1. th[t].pc = "evict" /\ lru.gmr # <<>>
    BY <1>2 DEF EvictFirst
  <2>2. PICK o \in Buffers : o = First("gmr") /\ OnLru(o)
    <3>1. First("gmr") \in Buffers /\ On(lru["gmr"], First("gmr"))
      BY <1>1, <2>1, HeadIs DEF First
    <3>2. QED
      BY <1>1, <3>1, LinkedIs
  <2>3. Dying(t, o, "validate") \/ Pick(t, o, "evicting", "validate")
    BY <1>2, <2>2 DEF EvictFirst
  <2>4. QED
    BY <2>1, <2>2, <2>3, DyingInv, PickInv
<1>3. CASE SwapFirst(t)
  <2>1. th[t].pc = "idle" /\ lru.swap # <<>>
    BY <1>3 DEF SwapFirst
  <2>2. PICK o \in Buffers : o = First("swap") /\ OnLru(o)
    <3>1. First("swap") \in Buffers /\ On(lru["swap"], First("swap"))
      BY <1>1, <2>1, HeadIs DEF First
    <3>2. QED
      BY <1>1, <3>1, LinkedIs
  <2>3. Dying(t, o, "idle") \/ Pick(t, o, "swapping", "idle")
    BY <1>3, <2>2 DEF SwapFirst
  <2>4. QED
    BY <2>1, <2>2, <2>3, DyingInv, PickInv
<1>4. QED
  BY <1>2, <1>3

-----------------------------------------------------------------------------
(* The work item. *)

\* The references of buffer b when the work item goes on from state r to q.
WorkedOn(r, q, b) ==
  /\ bo'[b].kref = bo[b].kref /\ bo'[b].handle = bo[b].handle
  /\ bo'[b].cpu_writers = bo[b].cpu_writers /\ bo'[b].reserved = bo[b].reserved
  /\ bo'[b].sync = bo[b].sync /\ bo'[b].mem = bo[b].mem
  /\ bo'[b].list_kref = bo[b].list_kref + (IF At(q, Helping, b) THEN 1 ELSE 0)
       + (IF q.next = b THEN 1 ELSE 0) - (IF r.next = b THEN 1 ELSE 0)
  /\ bo'[b].freed <=> bo'[b].list_kref = 0

\* It takes an entry of the delayed list and holds on to the next, or leaves.
LEMMA WorkStep ==
  ASSUME IInv, NEW t \in Threads, NEW q \in ThreadRecord, th' = [th EXCEPT ![t] = q],
         t = Worker, th[t].pc \in {"idle", "wqnext"}, q.pc \in {"cleanwait", "idle"},
         q.list = <<>>, q.pos = 1, q.removed = th[t].removed \/ q.removed = {},
         q.pc = "cleanwait" => On(ddestroy, q.obj) /\ q.ret = "wqnext",
         q.next # NoOne => On(ddestroy, q.next) /\ q.pc = "cleanwait",
         bo' \in [Buffers -> LooseRecord], wq' \in BOOLEAN,
         UNCHANGED <<lru, ddestroy, val_seq, lru_lock, max_gmr_ids>>,
         \A b \in Buffers : WorkedOn(th[t], q, b)
  PROVE  IInv'
<1>1. /\ Controlled(t, th[t], lru_lock) /\ th[t] \in ThreadRecord /\ LruType
      /\ ddestroy \in Seq(Buffers)
  BY ThreadIs DEF IInv, TypeOK
<1>2. th[t].list = <<>> /\ th[t].pos = 1 /\ lru_lock # t
  BY <1>1 DEF Controlled, In
<1>3. Reserved(q) = Reserved(th[t])
  BY <1>2 DEF Reserved
<1>4. q.pc = "cleanwait" => q.obj \in Buffers
  BY <1>1, OnIs
<1>5. Controlled(t, q, lru_lock)
  <2>1. IsInjective(q.list) /\ q.pos \in 1 .. Len(q.list) + 1 /\ Len(q.list) = 0
    BY <1>1, <1>2 DEF Controlled
  <2>2. \A b \in q.removed : On(Reserved(q), b)
    BY <1>1, <1>3 DEF Controlled
  <2>3. CASE q.pc = "idle"
    BY <1>2, <2>1, <2>2, <2>3 DEF Controlled, In, Helping, Submitting, Grabbing, Locking
  <2>4. CASE q.pc = "cleanwait"
    BY <1>2, <1>4, <2>1, <2>2, <2>4 DEF Controlled, In, Helping, Submitting, Grabbing, Locking
  <2>5. QED
    BY <2>3, <2>4
<1>6. th'[t] = q /\ Others(t) /\ th' \in [Threads -> ThreadRecord]
  BY ThreadIs DEF Others
<1>7. Typed'
  BY <1>6 DEF IInv, TypeOK, Typed, LruType, Queues
<1>8. ASSUME NEW b \in Buffers PROVE Sound(b)' /\ Nats(b)'
  <2>0. /\ bo'[b].kref = bo[b].kref /\ bo'[b].handle = bo[b].handle
        /\ bo'[b].cpu_writers = bo[b].cpu_writers /\ bo'[b].reserved = bo[b].reserved
        /\ bo'[b].sync = bo[b].sync /\ bo'[b].mem = bo[b].mem
        /\ bo'[b].list_kref = bo[b].list_kref + (IF At(q, Helping, b) THEN 1 ELSE 0)
             + (IF q.next = b THEN 1 ELSE 0) - (IF th[t].next = b THEN 1 ELSE 0)
        /\ bo'[b].freed <=> bo'[b].list_kref = 0
    BY DEF WorkedOn
  <2>1. /\ Life(b) /\ Reservation(b) /\ Linked(b) \in Nat /\ bo[b].list_kref \in Nat
        /\ bo[b].kref \in Nat /\ bo[b].cpu_writers \in Nat /\ t # NoOne /\ b # NoOne
        /\ bo[b].reserved \in Threads \cup {NoOne}
    BY BufferIs, BoAssumption
  <2>2. Linked(b)' = Linked(b) /\ (OnLru(b)' <=> OnLru(b))
    <3>1. SameLinks(b) /\ LruType'
      BY <1>1 DEF SameLinks, LruType
    <3>2. QED
      BY <1>1, <3>1, LinkSteps
  <2>3. /\ \A S \in {{"cpu"}, {"release"}, {"memtype"}, {"evicting", "swapping"},
                     {"cleanreserve"}} : ~At(q, S, b) /\ ~At(th[t], S, b)
        /\ ~At(th[t], Helping, b)
        /\ (Holds(q, b) <=> Holds(th[t], b))
        /\ At(q, {"cleanwait", "cleanreserve"}, b) => On(ddestroy, b)
    BY <1>3 DEF At, Helping, Holds
  <2>4. Life(b)' /\ (Present(b)' <=> Present(b)) /\ (Alive(b)' <=> Alive(b))
    <3>1. Releasing(b)' <=> Releasing(b)
      BY <1>6, <2>3, ReleasingIs
    <3>2. Alive(b)' <=> Alive(b)
      BY <1>6, <2>0, <3>1 DEF Alive
    <3>3. /\ bo'[b].kref = 0 <=> bo[b].kref = 0
          /\ bo[b].sync = "none" => bo'[b].sync = "none"
          /\ bo'[b].mem = "none" <=> bo[b].mem = "none"
          /\ bo'[b].kref \in Nat
          /\ On(ddestroy', b) <=> On(ddestroy, b)
          /\ OnLru(b)' => OnLru(b)
          /\ th'[t].next = b => On(ddestroy, b)
      BY <1>6, <2>0, <2>1, <2>2
    <3>4. QED
      BY <1>6, <2>1, <2>3, <3>2, <3>3, LifeSame
  <2>5. Reservation(b)'
    <3>1. bo[b].reserved = t /\ OnLru(b)' => FALSE
      BY <2>1, <2>2 DEF Reservation
    <3>2. bo[b].cpu_writers = 0 => bo'[b].cpu_writers = 0
      BY <2>0
    <3>3. QED
      BY <1>3, <1>6, <2>0, <2>1, <2>2, <2>3, <2>4, <3>1, <3>2, ReservationSame
  <2>6. /\ bo'[b].kref = bo[b].kref
             + (IF On(th'[t].list, b) THEN 1 ELSE 0) - (IF On(th[t].list, b) THEN 1 ELSE 0)
             + (IF bo'[b].handle THEN 1 ELSE 0) - (IF bo[b].handle THEN 1 ELSE 0)
        /\ bo'[b].cpu_writers = bo[b].cpu_writers
             + (IF At(th'[t], {"cpu"}, b) THEN 1 ELSE 0) - (IF At(th[t], {"cpu"}, b) THEN 1 ELSE 0)
    BY <1>2, <1>6, <2>0, <2>1, <2>3
  <2>7. bo'[b].list_kref = bo[b].list_kref + (Linked(b)' - Linked(b)
           + (IF On(ddestroy', b) THEN 1 ELSE 0) - (IF On(ddestroy, b) THEN 1 ELSE 0)
           + (IF Alive(b)' THEN 1 ELSE 0) - (IF Alive(b) THEN 1 ELSE 0)
           + (IF At(th'[t], Helping, b) THEN 1 ELSE 0) - (IF At(th[t], Helping, b) THEN 1 ELSE 0)
           + (IF th'[t].next = b THEN 1 ELSE 0) - (IF th[t].next = b THEN 1 ELSE 0)
           + (IF At(th'[t], {"memtype"}, b) THEN th'[t].put ELSE 0)
           - (IF At(th[t], {"memtype"}, b) THEN th[t].put ELSE 0))
    BY <1>6, <2>0, <2>1, <2>2, <2>3, <2>4
  <2>8. bo'[b].freed <=> bo'[b].list_kref = 0
    BY <2>0
  <2>9. QED
    BY ONLY IInv, t \in Threads, b \in Buffers, <1>6, <1>7, <2>4, <2>5, <2>6, <2>7, <2>8,
       BufferStep
<1>9. QED
  BY <1>5, <1>6, <1>7, <1>8, Step

\* The entry after b on the delayed list, if there is one.
LEMMA SuccessorIs ==
  ASSUME NEW b, ddestroy \in Seq(Buffers), On(ddestroy, b)
  PROVE  Successor(b) = NoOne \/ (On(ddestroy, Successor(b)) /\ Successor(b) \in Buffers)
<1> DEFINE i == CHOOSE k \in DOMAIN ddestroy : ddestroy[k] = b
<1>1. i \in 1 .. Len(ddestroy)
  BY LenProperties DEF On
<1>2. Successor(b) = IF i < Len(ddestroy) THEN ddestroy[i + 1] ELSE NoOne
  BY DEF Successor
<1> HIDE DEF i
<1>3. i < Len(ddestroy) => i + 1 \in 1 .. Len(ddestroy)
  BY <1>1, LenProperties
<1>4. QED
  BY <1>2, <1>3, OnIs, ElementOfSeq

\* The work item at entry o, f being the buffers with one more reference to o.
LEMMA WqEntryInv ==
  ASSUME IInv, NEW t \in Threads, t = Worker, NEW o \in Buffers, On(ddestroy, o),
         NEW f \in [Buffers -> LooseRecord], WqEntry(t, o, f), wq' \in BOOLEAN,
         th[t].pc \in {"idle", "wqnext"}, th[t].next \in {NoOne, o},
         UNCHANGED <<lru, ddestroy, val_seq, lru_lock, max_gmr_ids>>,
         \A b \in Buffers :
           /\ f[b].kref = bo[b].kref /\ f[b].handle = bo[b].handle /\ f[b].freed = bo[b].freed
           /\ f[b].cpu_writers = bo[b].cpu_writers /\ f[b].reserved = bo[b].reserved
           /\ f[b].sync = bo[b].sync /\ f[b].mem = bo[b].mem
           /\ f[b].list_kref = bo[b].list_kref + (IF b = o THEN 1 ELSE 0)
                               - (IF th[t].next = b THEN 1 ELSE 0)
  PROVE  IInv'
<1>0. PICK n : n = Successor(o)
  OBVIOUS
<1>1. n = NoOne \/ (On(ddestroy, n) /\ n \in Buffers)
  BY <1>0, SuccessorIs DEF IInv, TypeOK
<1> DEFINE q == [th[t] EXCEPT !.pc = "cleanwait", !.obj = o, !.next = n, !.ret = "wqnext"]
<1>2. th[t] \in ThreadRecord /\ Controlled(t, th[t], lru_lock)
  BY ThreadIs
<1>3. th' = [th EXCEPT ![t] = q]
  BY <1>0, <1>2, ThreadIs DEF WqEntry
<1>4. q \in ThreadRecord
  <2>1. "cleanwait" \in Labels /\ "wqnext" \in Labels
    BY DEF Labels
  <2>2. QED
    BY <1>1, <1>2, <2>1 DEF ThreadRecord
<1>5. /\ q.pc = "cleanwait" /\ q.obj = o /\ q.list = th[t].list /\ q.pos = th[t].pos
      /\ q.next = n /\ q.removed = th[t].removed /\ q.ret = "wqnext"
  BY <1>2 DEF ThreadRecord
<1> HIDE DEF q
<1>6. q.list = <<>> /\ q.pos = 1
  BY <1>2, <1>5 DEF Controlled, In
<1>7. bo' = [b \in Buffers |-> IF b = n THEN ListGet(f[b]) ELSE f[b]]
  BY <1>0 DEF WqEntry
<1>8. ASSUME NEW b \in Buffers
      PROVE  /\ bo'[b] \in LooseRecord
             /\ bo'[b].kref = f[b].kref /\ bo'[b].handle = f[b].handle
             /\ bo'[b].cpu_writers = f[b].cpu_writers /\ bo'[b].reserved = f[b].reserved
             /\ bo'[b].sync = f[b].sync /\ bo'[b].mem = f[b].mem /\ bo'[b].freed = f[b].freed
             /\ bo'[b].list_kref = f[b].list_kref + (IF b = n THEN 1 ELSE 0)
  <2>1. f[b] \in LooseRecord /\ f[b].list_kref \in Int
    BY DEF LooseRecord
  <2>2. CASE b = n
    <3>1. bo'[b] = ListGet(f[b])
      BY <1>7, <2>2
    <3>2. QED
      BY <2>1, <2>2, <3>1, ListGetIs
  <2>3. CASE b # n
    BY <1>7, <2>1, <2>3
  <2>4. QED
    BY <2>2, <2>3
<1>9. bo' \in [Buffers -> LooseRecord]
  BY <1>7, <1>8
<1>10. ASSUME NEW b \in Buffers PROVE WorkedOn(th[t], q, b)
  <2>1. /\ bo'[b].kref = bo[b].kref /\ bo'[b].handle = bo[b].handle
        /\ bo'[b].cpu_writers = bo[b].cpu_writers /\ bo'[b].reserved = bo[b].reserved
        /\ bo'[b].sync = bo[b].sync /\ bo'[b].mem = bo[b].mem
        /\ bo'[b].freed = bo[b].freed
        /\ bo'[b].list_kref = f[b].list_kref + (IF b = n THEN 1 ELSE 0)
        /\ f[b].list_kref = bo[b].list_kref + (IF b = o THEN 1 ELSE 0)
                               - (IF th[t].next = b THEN 1 ELSE 0)
    BY <1>8
  <2>2. /\ bo[b].list_kref \in Nat /\ Linked(b) \in Nat
        /\ (bo[b].freed <=> bo[b].list_kref = 0)
        /\ bo[b].list_kref >= Linked(b) + (IF On(ddestroy, b) THEN 1 ELSE 0)
              + (IF Alive(b) THEN 1 ELSE 0) + (IF At(th[t], Helping, b) THEN 1 ELSE 0)
              + (IF th[t].next = b THEN 1 ELSE 0)
              + (IF At(th[t], {"memtype"}, b) THEN th[t].put ELSE 0)
    BY BufferIs
  <2>3. At(q, Helping, b) <=> b = o
    BY <1>5 DEF At, Helping
  <2>4. ~At(th[t], Helping, b) /\ ~At(th[t], {"memtype"}, b)
    BY DEF At, Helping
  <2>5. th[t].next = b => b = o
    BY BoAssumption
  <2>6. bo'[b].list_kref = bo[b].list_kref + (IF At(q, Helping, b) THEN 1 ELSE 0)
                   + (IF q.next = b THEN 1 ELSE 0) - (IF th[t].next = b THEN 1 ELSE 0)
    BY <1>5, <2>1, <2>2, <2>3
  <2>7. b = o \/ b = n => On(ddestroy, b)
    BY <1>1, BoAssumption
  <2>8. th[t].next = b => bo[b].list_kref > 0
    BY <2>2, <2>4
  <2>9. bo'[b].freed <=> bo'[b].list_kref = 0
    <3>1. CASE b = o \/ b = n
      <4>1. bo'[b].list_kref > 0 /\ bo[b].list_kref > 0
        <5>1. bo[b].list_kref >= 1 + (IF th[t].next = b THEN 1 ELSE 0)
          BY <2>2, <2>4, <2>7, <3>1
        <5>2. QED
          BY <2>2, <2>6, <5>1
      <4>2. QED
        BY <2>1, <2>2, <4>1
    <3>2. CASE b # o /\ b # n
      <4>1. bo'[b].list_kref = bo[b].list_kref
        BY <1>5, <2>2, <2>3, <2>5, <2>6, <3>2
      <4>2. QED
        BY <2>1, <2>2, <4>1
    <3>3. QED
      BY <3>1, <3>2
  <2>10. QED
    BY <2>1, <2>6, <2>9 DEF WorkedOn
<1>11. q.next # NoOne => On(ddestroy, q.next) /\ q.pc = "cleanwait"
  BY <1>1, <1>5
<1>12. q.pc \in {"cleanwait", "idle"} /\ (q.pc = "cleanwait" => On(ddestroy, q.obj) /\ q.ret = "wqnext")
  BY <1>5
<1>13. QED
  <2>1. /\ IInv /\ t \in Threads /\ q \in ThreadRecord /\ t = Worker
        /\ th[t].pc \in {"idle", "wqnext"}
        /\ th' = [th EXCEPT ![t] = q] /\ wq' \in BOOLEAN /\ bo' \in [Buffers -> LooseRecord]
        /\ q.removed = th[t].removed \/ q.removed = {}
        /\ UNCHANGED <<lru, ddestroy, val_seq, lru_lock, max_gmr_ids>>
    BY <1>3, <1>4, <1>5, <1>9
  <2>2. QED
    BY ONLY <2>1, <1>6, <1>10, <1>11, <1>12, WorkStep

\* The work item starts on the delayed list.
LEMMA WqRunInv ==
  ASSUME IInv, NEW t \in Threads, WqRun(t), UNCHANGED max_gmr_ids
  PROVE  IInv'
<1>1. /\ t = Worker /\ th[t].pc = "idle" /\ wq' = FALSE
      /\ UNCHANGED <<lru, ddestroy, val_seq, lru_lock, max_gmr_ids>>
  BY DEF WqRun
<1>2. /\ th[t] \in ThreadRecord /\ Controlled(t, th[t], lru_lock)
      /\ bo \in [Buffers -> LooseRecord] /\ th \in [Threads -> ThreadRecord]
      /\ ddestroy \in Seq(Buffers)
  BY ThreadIs DEF IInv, TypeOK
<1>3. th[t].next = NoOne /\ th[t].list = <<>> /\ th[t].pos = 1
  BY <1>1, <1>2 DEF Controlled, In, Helping
<1>4. CASE ddestroy = <<>>
  <2>1. UNCHANGED <<bo, th>>
    BY <1>4 DEF WqRun
  <2>2. PICK q \in ThreadRecord : q = th[t]
    BY <1>2
  <2>3. th' = [th EXCEPT ![t] = q]
    BY <1>2, <2>1, <2>2
  <2>4. ASSUME NEW b \in Buffers PROVE WorkedOn(th[t], q, b)
    <3>1. ~At(q, Helping, b) /\ q.next # b
      BY <1>1, <1>3, <2>2, BoAssumption DEF At, Helping
    <3>2. bo[b].list_kref \in Nat /\ (bo[b].freed <=> bo[b].list_kref = 0)
      BY BufferIs
    <3>3. QED
      BY <2>1, <2>2, <3>1, <3>2 DEF WorkedOn
  <2>5. /\ IInv /\ t \in Threads /\ t = Worker
        /\ th[t].pc \in {"idle", "wqnext"} /\ q.pc \in {"cleanwait", "idle"}
        /\ q.list = <<>> /\ q.pos = 1
        /\ q.removed = th[t].removed \/ q.removed = {}
        /\ q.pc = "cleanwait" => On(ddestroy, q.obj) /\ q.ret = "wqnext"
        /\ q.next # NoOne => On(ddestroy, q.next) /\ q.pc = "cleanwait"
        /\ wq' \in BOOLEAN /\ bo' \in [Buffers -> LooseRecord]
        /\ UNCHANGED <<lru, ddestroy, val_seq, lru_lock, max_gmr_ids>>
    BY <1>1, <1>2, <1>3, <2>1, <2>2
  <2>6. QED
    BY ONLY q \in ThreadRecord, <2>3, <2>4, <2>5, WorkStep
<1>5. CASE ddestroy # <<>>
  <2>1. PICK o \in Buffers : o = Head(ddestroy) /\ On(ddestroy, o)
    BY <1>2, <1>5, HeadIs
  <2>2. PICK f \in [Buffers -> LooseRecord] : f = [bo EXCEPT ![o] = ListGet(bo[o])]
    BY <1>2, ListGetIs
  <2>3. WqEntry(t, o, f)
    BY <1>2, <1>5, <2>1, <2>2 DEF WqRun
  <2>4. ASSUME NEW b \in Buffers
        PROVE  /\ f[b].kref = bo[b].kref /\ f[b].handle = bo[b].handle /\ f[b].freed = bo[b].freed
               /\ f[b].cpu_writers = bo[b].cpu_writers /\ f[b].reserved = bo[b].reserved
               /\ f[b].sync = bo[b].sync /\ f[b].mem = bo[b].mem
               /\ f[b].list_kref = bo[b].list_kref + (IF b = o THEN 1 ELSE 0)
                                   - (IF th[t].next = b THEN 1 ELSE 0)
    <3>1. th[t].next # b /\ bo[b] \in LooseRecord /\ bo[b].list_kref \in Int
      BY <1>2, <1>3, BoAssumption DEF LooseRecord
    <3>2. CASE b = o
      <4>1. f[b] = ListGet(bo[b])
        BY <1>2, <2>2, <3>2
      <4>2. QED
        BY <3>1, <3>2, <4>1, ListGetIs
    <3>3. CASE b # o
      <4>1. f[b] = bo[b]
        BY <1>2, <2>2, <3>3
      <4>2. QED
        BY <3>1, <3>3, <4>1
    <3>4. QED
      BY <3>2, <3>3
  <2>5. /\ IInv /\ t \in Threads /\ t = Worker /\ o \in Buffers /\ On(ddestroy, o)
        /\ f \in [Buffers -> LooseRecord] /\ wq' \in BOOLEAN
        /\ th[t].pc \in {"idle", "wqnext"} /\ th[t].next \in {NoOne, o}
    BY <1>1, <1>3, <2>1
  <2>6. QED
    BY ONLY <1>1, <2>3, <2>4, <2>5, WqEntryInv
<1>6. QED
  BY <1>4, <1>5

\* It goes on with the next entry.
LEMMA WqNextInv ==
  ASSUME IInv, NEW t \in Threads, WqNext(t), UNCHANGED max_gmr_ids
  PROVE  IInv'
<1>0. PICK o : o = th[t].next
  OBVIOUS
<1>1. /\ th[t].pc = "wqnext" /\ o # NoOne /\ On(ddestroy, o) /\ WqEntry(t, o, bo)
      /\ UNCHANGED <<lru, ddestroy, val_seq, wq, lru_lock, max_gmr_ids>>
  BY <1>0 DEF WqNext
<1>2. /\ th[t] \in ThreadRecord /\ Controlled(t, th[t], lru_lock)
      /\ bo \in [Buffers -> LooseRecord]
      /\ ddestroy \in Seq(Buffers) /\ wq \in BOOLEAN
  BY ThreadIs DEF IInv, TypeOK
<1>3. t = Worker /\ o \in Buffers
  BY <1>1, <1>2, OnIs DEF Controlled, In
<1>4. ASSUME NEW b \in Buffers
      PROVE  /\ bo[b].kref = bo[b].kref /\ bo[b].handle = bo[b].handle
             /\ bo[b].freed = bo[b].freed
             /\ bo[b].cpu_writers = bo[b].cpu_writers /\ bo[b].reserved = bo[b].reserved
             /\ bo[b].sync = bo[b].sync /\ bo[b].mem = bo[b].mem
             /\ bo[b].list_kref = bo[b].list_kref + (IF b = o THEN 1 ELSE 0)
                                  - (IF th[t].next = b THEN 1 ELSE 0)
  <2>1. bo[b].list_kref \in Nat
    BY BufferIs
  <2>2. QED
    BY <1>0, <2>1
<1>5. /\ IInv /\ t \in Threads /\ t = Worker /\ o \in Buffers /\ On(ddestroy, o)
      /\ bo \in [Buffers -> LooseRecord] /\ wq' \in BOOLEAN /\ WqEntry(t, o, bo)
      /\ th[t].pc \in {"idle", "wqnext"} /\ th[t].next \in {NoOne, o}
      /\ UNCHANGED <<lru, ddestroy, val_seq, lru_lock, max_gmr_ids>>
  BY <1>0, <1>1, <1>2, <1>3
<1>6. QED
  BY ONLY <1>4, <1>5, WqEntryInv

\* A thread that does nothing.
LEMMA NewThreadIs ==
  /\ NewThread \in ThreadRecord
  /\ NewThread.pc = "idle" /\ NewThread.list = <<>> /\ NewThread.pos = 1
  /\ NewThread.removed = {} /\ NewThread.obj = NoOne /\ NewThread.next = NoOne
  BY BoAssumption DEF NewThread, ThreadRecord, Labels

\* It ends.
LEMMA WqEndInv ==
  ASSUME IInv, NEW t \in Threads, WqEnd(t), UNCHANGED max_gmr_ids
  PROVE  IInv'
<1>0. PICK o : o = th[t].next
  OBVIOUS
<1>1. /\ th[t].pc = "wqnext"
      /\ bo' = [b \in Buffers |-> IF b = o THEN ListPut(bo[b], 1) ELSE bo[b]]
      /\ wq' = (wq \/ th[t].error) /\ th' = [th EXCEPT ![t] = NewThread]
      /\ UNCHANGED <<lru, ddestroy, val_seq, lru_lock, max_gmr_ids>>
  BY <1>0 DEF WqEnd
<1>2. /\ th[t] \in ThreadRecord /\ Controlled(t, th[t], lru_lock)
      /\ bo \in [Buffers -> LooseRecord] /\ wq \in BOOLEAN /\ th[t].error \in BOOLEAN
  BY ThreadIs DEF IInv, TypeOK, ThreadRecord
<1>3. t = Worker
  BY <1>1, <1>2 DEF Controlled, In
<1>4. PICK q \in ThreadRecord : q = NewThread
  BY NewThreadIs
<1>5. /\ q.pc = "idle" /\ q.list = <<>> /\ q.pos = 1 /\ q.removed = {} /\ q.next = NoOne
  BY <1>4, NewThreadIs
<1>6. ASSUME NEW b \in Buffers PROVE bo'[b] \in LooseRecord /\ WorkedOn(th[t], q, b)
  <2>1. /\ bo[b] \in LooseRecord /\ bo[b].list_kref \in Nat /\ b # NoOne
        /\ (bo[b].freed <=> bo[b].list_kref = 0)
    BY <1>2, BufferIs, BoAssumption
  <2>2. ~At(q, Helping, b)
    BY <1>5 DEF At, Helping
  <2>3. CASE b = o
    <3>1. bo'[b] = ListPut(bo[b], 1)
      BY <1>1, <2>3
    <3>2. /\ bo'[b] \in LooseRecord
          /\ bo'[b].kref = bo[b].kref /\ bo'[b].handle = bo[b].handle
          /\ bo'[b].freed <=> bo[b].list_kref = 1
          /\ bo'[b].list_kref = bo[b].list_kref - 1
          /\ bo'[b].cpu_writers = bo[b].cpu_writers /\ bo'[b].reserved = bo[b].reserved
          /\ bo'[b].sync = bo[b].sync /\ bo'[b].mem = bo[b].mem
      BY <2>1, <3>1, ListPutIs
    <3>3. bo'[b].freed <=> bo'[b].list_kref = 0
      BY <2>1, <3>2
    <3>4. bo'[b].list_kref = bo[b].list_kref + (IF At(q, Helping, b) THEN 1 ELSE 0)
            + (IF q.next = b THEN 1 ELSE 0) - (IF th[t].next = b THEN 1 ELSE 0)
      BY <1>0, <1>5, <2>1, <2>2, <2>3, <3>2
    <3>5. QED
      BY <3>2, <3>3, <3>4 DEF WorkedOn
  <2>4. CASE b # o
    <3>1. bo'[b] = bo[b]
      BY <1>1, <2>4
    <3>2. bo'[b].list_kref = bo[b].list_kref + (IF At(q, Helping, b) THEN 1 ELSE 0)
            + (IF q.next = b THEN 1 ELSE 0) - (IF th[t].next = b THEN 1 ELSE 0)
      BY <1>0, <1>5, <2>1, <2>2, <2>4, <3>1
    <3>3. QED
      BY <2>1, <3>1, <3>2 DEF WorkedOn
  <2>5. QED
    BY <2>3, <2>4
<1>7. bo' \in [Buffers -> LooseRecord]
  BY <1>1, <1>6
<1>8. /\ IInv /\ t \in Threads /\ t = Worker /\ q \in ThreadRecord
      /\ th' = [th EXCEPT ![t] = q]
      /\ th[t].pc \in {"idle", "wqnext"} /\ q.pc \in {"cleanwait", "idle"}
      /\ q.list = <<>> /\ q.pos = 1
      /\ q.removed = th[t].removed \/ q.removed = {}
      /\ q.pc = "cleanwait" => On(ddestroy, q.obj) /\ q.ret = "wqnext"
      /\ q.next # NoOne => On(ddestroy, q.next) /\ q.pc = "cleanwait"
      /\ wq' \in BOOLEAN /\ bo' \in [Buffers -> LooseRecord]
      /\ UNCHANGED <<lru, ddestroy, val_seq, lru_lock, max_gmr_ids>>
  BY <1>1, <1>2, <1>3, <1>4, <1>5, <1>7
<1>9. QED
  BY ONLY <1>6, <1>8, WorkStep

-----------------------------------------------------------------------------
(* Users. *)

\* A thread with nothing to do has no buffers.
LEMMA IdleIs ==
  ASSUME NEW t \in Threads, NEW r \in ThreadRecord, NEW l, Controlled(t, r, l), r.pc = "idle"
  PROVE  /\ r.list = <<>> /\ r.pos = 1 /\ r.next = NoOne /\ l # t
         /\ \A b : ~On(Reserved(r), b) /\ ~On(r.list, b) /\ b \notin r.removed
<1>1. r.list = <<>> /\ r.pos = 1 /\ r.next = NoOne /\ l # t
  BY DEF Controlled, In, Helping
<1>2. \A b : ~On(Reserved(r), b) /\ ~On(r.list, b)
  <2>1. \A b : ~On(Reserved(r), b)
    BY <1>1, ReservedIs DEF Controlled
  <2>2. QED
    BY <1>1, <2>1 DEF On
<1>3. \A b \in r.removed : On(Reserved(r), b)
  BY DEF Controlled
<1>4. QED
  BY <1>1, <1>2, <1>3

\* The references of buffer b when a thread begins to use the buffers of s.
Used(s, b) ==
  /\ On(s, b) => bo[b].handle
  /\ bo'[b].kref = bo[b].kref + (IF On(s, b) THEN 1 ELSE 0)
       + (IF bo'[b].handle THEN 1 ELSE 0) - (IF bo[b].handle THEN 1 ELSE 0)
  /\ bo[b].handle /\ ~bo'[b].handle => On(s, b)
  /\ bo'[b].handle => bo[b].handle
  /\ bo'[b].cpu_writers = bo[b].cpu_writers /\ bo'[b].reserved = bo[b].reserved
  /\ bo'[b].sync = bo[b].sync /\ bo'[b].mem = bo[b].mem
  /\ bo'[b].list_kref = bo[b].list_kref /\ bo'[b].freed = bo[b].freed

\* An idle thread takes references to the buffers of its new list, or a handle's over.
LEMMA UseStep ==
  ASSUME IInv, NEW t \in Threads, NEW q \in ThreadRecord, th' = [th EXCEPT ![t] = q],
         th[t].pc = "idle", q.pc \in {"retry", "grab", "unref"},
         q.pc = "retry" => t \in Validators,
         q.pc = "grab" => q.obj \in Buffers /\ q.list = <<q.obj>>,
         IsInjective(q.list), q.pos = th[t].pos, q.next = th[t].next,
         q.removed = th[t].removed,
         bo' \in [Buffers -> LooseRecord],
         UNCHANGED <<lru, ddestroy, wq, val_seq, lru_lock, max_gmr_ids>>,
         \A b \in Buffers : Used(q.list, b)
  PROVE  IInv'
<1>1. /\ Controlled(t, th[t], lru_lock) /\ th[t] \in ThreadRecord /\ LruType
  BY ThreadIs
<1>2. /\ th[t].list = <<>> /\ th[t].pos = 1 /\ th[t].next = NoOne /\ lru_lock # t
      /\ \A b : ~On(Reserved(th[t]), b) /\ ~On(th[t].list, b) /\ b \notin th[t].removed
  BY <1>1, IdleIs
<1>3. q.pos \in 1 .. Len(q.list) + 1 /\ q.pos = 1 /\ q.next = NoOne
  BY <1>2, LenProperties DEF ThreadRecord
<1>4. \A b : ~On(Reserved(q), b)
  BY <1>3, ReservedIs
<1>5. Controlled(t, q, lru_lock)
  <2>1. \A b \in q.removed : On(Reserved(q), b)
    BY <1>2
  <2>2. QED
    BY <1>2, <1>3, <2>1 DEF Controlled, In, Helping, Submitting, Grabbing, Locking
<1>6. th'[t] = q /\ Others(t) /\ th' \in [Threads -> ThreadRecord]
  BY ThreadIs DEF Others
<1>7. Typed'
  BY <1>6 DEF IInv, TypeOK, Typed, LruType, Queues
<1>8. ASSUME NEW b \in Buffers PROVE Sound(b)' /\ Nats(b)'
  <2>0. /\ On(q.list, b) => bo[b].handle
        /\ bo'[b].kref = bo[b].kref + (IF On(q.list, b) THEN 1 ELSE 0)
             + (IF bo'[b].handle THEN 1 ELSE 0) - (IF bo[b].handle THEN 1 ELSE 0)
        /\ bo[b].handle /\ ~bo'[b].handle => On(q.list, b)
        /\ bo'[b].handle => bo[b].handle
        /\ bo'[b].cpu_writers = bo[b].cpu_writers /\ bo'[b].reserved = bo[b].reserved
        /\ bo'[b].sync = bo[b].sync /\ bo'[b].mem = bo[b].mem
        /\ bo'[b].list_kref = bo[b].list_kref /\ bo'[b].freed = bo[b].freed
    BY DEF Used
  <2>1. /\ Life(b) /\ Reservation(b) /\ Linked(b) \in Nat /\ bo[b].list_kref \in Nat
        /\ bo[b].kref \in Nat /\ bo[b].cpu_writers \in Nat /\ t # NoOne /\ b # NoOne
        /\ bo[b].reserved \in Threads \cup {NoOne} /\ Counted(b)
        /\ (bo[b].freed <=> bo[b].list_kref = 0)
    BY BufferIs, BoAssumption
  <2>2. Linked(b)' = Linked(b) /\ (OnLru(b)' <=> OnLru(b))
    <3>1. SameLinks(b) /\ LruType'
      BY <1>1 DEF SameLinks, LruType
    <3>2. QED
      BY <1>1, <3>1, LinkSteps
  <2>3. /\ \A S \in {{"cpu"}, {"release"}, {"memtype"}, {"evicting", "swapping"}, Helping,
                     {"cleanreserve"}, {"cleanwait", "cleanreserve"}} :
             ~At(q, S, b) /\ ~At(th[t], S, b)
        /\ (Holds(q, b) <=> Holds(th[t], b))
    BY <1>2, <1>4 DEF At, Helping, Holds
  <2>4. bo'[b].kref \in Nat /\ (bo'[b].kref = 0 <=> bo[b].kref = 0)
    <3>1. bo[b].handle => bo[b].kref > 0
      BY <2>1, UserCounts
    <3>2. CASE On(q.list, b)
      BY <2>0, <2>1, <3>1, <3>2
    <3>3. CASE ~On(q.list, b)
      BY <2>0, <2>1, <3>1, <3>3
    <3>4. QED
      BY <3>2, <3>3
  <2>5. Life(b)' /\ (Present(b)' <=> Present(b)) /\ (Alive(b)' <=> Alive(b))
    <3>1. Releasing(b)' <=> Releasing(b)
      BY <1>6, <2>3, ReleasingIs
    <3>2. Alive(b)' <=> Alive(b)
      BY <2>1, <2>4, <3>1 DEF Alive
    <3>3. /\ bo[b].kref = 0 /\ bo[b].sync = "none" => bo'[b].sync = "none"
          /\ bo'[b].mem = "none" <=> bo[b].mem = "none"
          /\ On(ddestroy', b) <=> On(ddestroy, b)
          /\ OnLru(b)' => OnLru(b)
          /\ th'[t].next # b
      BY <1>3, <1>6, <2>0, <2>1, <2>2
    <3>4. QED
      BY <1>6, <2>1, <2>3, <2>4, <3>2, <3>3, LifeSame
  <2>6. Reservation(b)'
    <3>1. bo[b].reserved = t /\ OnLru(b)' => FALSE
      BY <2>1, <2>2 DEF Reservation
    <3>2. bo[b].cpu_writers = 0 => bo'[b].cpu_writers = 0
      BY <2>0
    <3>3. QED
      BY <1>4, <1>6, <2>0, <2>1, <2>2, <2>3, <2>5, <3>1, <3>2, ReservationSame
  <2>7. /\ bo'[b].kref = bo[b].kref
             + (IF On(th'[t].list, b) THEN 1 ELSE 0) - (IF On(th[t].list, b) THEN 1 ELSE 0)
             + (IF bo'[b].handle THEN 1 ELSE 0) - (IF bo[b].handle THEN 1 ELSE 0)
        /\ bo'[b].cpu_writers = bo[b].cpu_writers
             + (IF At(th'[t], {"cpu"}, b) THEN 1 ELSE 0) - (IF At(th[t], {"cpu"}, b) THEN 1 ELSE 0)
    <3>1. ~On(th[t].list, b)
      BY <1>2
    <3>2. QED
      BY <1>6, <2>0, <2>1, <2>3, <3>1
  <2>8. bo'[b].list_kref = bo[b].list_kref + (Linked(b)' - Linked(b)
           + (IF On(ddestroy', b) THEN 1 ELSE 0) - (IF On(ddestroy, b) THEN 1 ELSE 0)
           + (IF Alive(b)' THEN 1 ELSE 0) - (IF Alive(b) THEN 1 ELSE 0)
           + (IF At(th'[t], Helping, b) THEN 1 ELSE 0) - (IF At(th[t], Helping, b) THEN 1 ELSE 0)
           + (IF th'[t].next = b THEN 1 ELSE 0) - (IF th[t].next = b THEN 1 ELSE 0)
           + (IF At(th'[t], {"memtype"}, b) THEN th'[t].put ELSE 0)
           - (IF At(th[t], {"memtype"}, b) THEN th[t].put ELSE 0))
    BY <1>6, <2>0, <2>1, <2>2, <2>3, <2>5
  <2>9. bo'[b].freed <=> bo'[b].list_kref = 0
    BY <2>0, <2>1
  <2>10. QED
    BY ONLY IInv, t \in Threads, b \in Buffers, <1>6, <1>7, <2>5, <2>6, <2>7, <2>8, <2>9,
       BufferStep
<1>9. QED
  BY <1>5, <1>6, <1>7, <1>8, Step

\* A thread begins.
LEMMA SubmitInv == ASSUME IInv, NEW t \in Threads, Submit(t), UNCHANGED max_gmr_ids PROVE IInv'
<1>1. PICK s \in Lists :
        /\ \A i \in DOMAIN s : bo[s[i]].handle
        /\ bo' = [b \in Buffers |-> IF On(s, b) THEN [bo[b] EXCEPT !.kref = @ + 1] ELSE bo[b]]
        /\ th' = [th EXCEPT ![t].pc = "retry", ![t].list = s]
  BY DEF Submit
<1>2. /\ t \in Validators /\ th[t].pc = "idle"
      /\ UNCHANGED <<lru, ddestroy, wq, val_seq, lru_lock, max_gmr_ids>>
  BY DEF Submit
<1>3. s \in Seq(Buffers) /\ IsInjective(s)
  BY BoAssumption
<1> DEFINE q == [th[t] EXCEPT !.pc = "retry", !.list = s]
<1>4. th[t] \in ThreadRecord /\ bo \in [Buffers -> LooseRecord]
  BY ThreadIs
<1>5. th' = [th EXCEPT ![t] = q]
  BY <1>1, ThreadIs
<1>6. q \in ThreadRecord
  <2>1. "retry" \in Labels
    BY DEF Labels
  <2>2. QED
    BY <1>3, <1>4, <2>1 DEF ThreadRecord
<1>7. /\ q.pc = "retry" /\ q.list = s /\ q.pos = th[t].pos /\ q.next = th[t].next
      /\ q.removed = th[t].removed
  BY <1>4 DEF ThreadRecord
<1> HIDE DEF q
<1>8. ASSUME NEW b \in Buffers PROVE bo'[b] \in LooseRecord /\ Used(s, b)
  <2>1. On(s, b) => bo[b].handle
    BY <1>1 DEF On
  <2>2. bo[b] \in LooseRecord /\ bo[b].kref \in Int
    BY <1>4 DEF LooseRecord
  <2>3. CASE On(s, b)
    <3>1. bo'[b] = [bo[b] EXCEPT !.kref = @ + 1]
      BY <1>1, <2>3
    <3>2. /\ bo'[b] \in LooseRecord
          /\ bo'[b].kref = bo[b].kref + 1 /\ bo'[b].handle = bo[b].handle
          /\ bo'[b].cpu_writers = bo[b].cpu_writers /\ bo'[b].reserved = bo[b].reserved
          /\ bo'[b].sync = bo[b].sync /\ bo'[b].mem = bo[b].mem
          /\ bo'[b].list_kref = bo[b].list_kref /\ bo'[b].freed = bo[b].freed
      BY <2>2, <3>1 DEF LooseRecord
    <3>3. QED
      BY <2>1, <2>2, <2>3, <3>2 DEF Used
  <2>4. CASE ~On(s, b)
    <3>1. bo'[b] = bo[b]
      BY <1>1, <2>4
    <3>2. QED
      BY <2>2, <2>4, <3>1 DEF Used
  <2>5. QED
    BY <2>3, <2>4
<1>9. bo' \in [Buffers -> LooseRecord]
  BY <1>1, <1>8
<1>10. QED
  BY <1>2, <1>3, <1>5, <1>6, <1>7, <1>8, <1>9, UseStep

\* A CPU writer takes a reference to a buffer.
LEMMA GrabInv == ASSUME IInv, NEW t \in Threads, Grab(t), UNCHANGED max_gmr_ids PROVE IInv'
<1>1. PICK o \in Buffers :
        /\ bo[o].handle /\ bo' = [bo EXCEPT ![o].kref = @ + 1]
        /\ th' = [th EXCEPT ![t].pc = "grab", ![t].list = <<o>>, ![t].obj = o]
  BY Zenon DEF Grab
<1>2. /\ th[t].pc = "idle"
      /\ UNCHANGED <<lru, ddestroy, wq, val_seq, lru_lock, max_gmr_ids>>
  BY DEF Grab
<1>3. PICK s : s = <<o>> /\ s \in Seq(Buffers) /\ IsInjective(s) /\ \A b : On(s, b) <=> b = o
  BY SingletonIs
<1> DEFINE q == [th[t] EXCEPT !.pc = "grab", !.list = s, !.obj = o]
           r == [bo[o] EXCEPT !.kref = @ + 1]
<1>4. th[t] \in ThreadRecord /\ bo \in [Buffers -> LooseRecord] /\ bo[o] \in LooseRecord
  BY ThreadIs
<1>5. th' = [th EXCEPT ![t] = q] /\ bo' = [bo EXCEPT ![o] = r]
  BY <1>1, <1>3, <1>4, ThreadIs
<1>6. q \in ThreadRecord
  <2>1. "grab" \in Labels
    BY DEF Labels
  <2>2. QED
    BY <1>3, <1>4, <2>1 DEF ThreadRecord
<1>7. /\ q.pc = "grab" /\ q.list = s /\ q.pos = th[t].pos /\ q.next = th[t].next
      /\ q.removed = th[t].removed /\ q.obj = o
  BY <1>4 DEF ThreadRecord
<1>8. /\ r \in LooseRecord
      /\ r.kref = bo[o].kref + 1 /\ r.handle = bo[o].handle
      /\ r.cpu_writers = bo[o].cpu_writers /\ r.reserved = bo[o].reserved
      /\ r.sync = bo[o].sync /\ r.mem = bo[o].mem
      /\ r.list_kref = bo[o].list_kref /\ r.freed = bo[o].freed
  BY <1>4 DEF LooseRecord
<1> HIDE DEF q, r
<1>9. /\ bo' \in [Buffers -> LooseRecord] /\ bo'[o] = r
      /\ \A b \in Buffers \ {o} : bo'[b] = bo[b]
  BY <1>4, <1>5, <1>8
<1>10. ASSUME NEW b \in Buffers PROVE Used(s, b)
  <2>1. bo[b] \in LooseRecord /\ bo[b].kref \in Int
    BY <1>4 DEF LooseRecord
  <2>2. CASE b = o
    BY <1>1, <1>3, <1>8, <1>9, <2>1, <2>2 DEF Used
  <2>3. CASE b # o
    BY <1>3, <1>9, <2>1, <2>3 DEF Used
  <2>4. QED
    BY <2>2, <2>3
<1>11. /\ q.pc \in {"retry", "grab", "unref"} /\ q.pc # "retry"
       /\ q.pc = "grab" => q.obj \in Buffers /\ q.list = <<q.obj>>
  BY <1>3, <1>7
<1>12. QED
  <2>1. /\ IInv /\ t \in Threads /\ q \in ThreadRecord /\ th' = [th EXCEPT ![t] = q]
        /\ th[t].pc = "idle" /\ q.pc \in {"retry", "grab", "unref"}
        /\ q.pc = "retry" => t \in Validators
        /\ q.pc = "grab" => q.obj \in Buffers /\ q.list = <<q.obj>>
        /\ IsInjective(q.list) /\ q.pos = th[t].pos /\ q.next = th[t].next
        /\ q.removed = th[t].removed
        /\ bo' \in [Buffers -> LooseRecord]
        /\ UNCHANGED <<lru, ddestroy, wq, val_seq, lru_lock, max_gmr_ids>>
    BY <1>2, <1>3, <1>5, <1>6, <1>7, <1>9, <1>11
  <2>2. \A b \in Buffers : Used(q.list, b)
    BY <1>7, <1>10
  <2>3. QED
    BY ONLY <2>1, <2>2, UseStep

\* The handle goes, and its reference passes to the thread.
LEMMA DropHandleInv ==
  ASSUME IInv, NEW t \in Threads, DropHandle(t), UNCHANGED max_gmr_ids
  PROVE  IInv'
<1>1. PICK o \in Buffers :
        /\ bo[o].handle /\ bo' = [bo EXCEPT ![o].handle = FALSE]
        /\ th' = [th EXCEPT ![t].pc = "unref", ![t].list = <<o>>]
  BY DEF DropHandle
<1>2. /\ th[t].pc = "idle"
      /\ UNCHANGED <<lru, ddestroy, wq, val_seq, lru_lock, max_gmr_ids>>
  BY DEF DropHandle
<1>3. PICK s : s = <<o>> /\ s \in Seq(Buffers) /\ IsInjective(s) /\ \A b : On(s, b) <=> b = o
  BY SingletonIs
<1> DEFINE q == [th[t] EXCEPT !.pc = "unref", !.list = s]
           r == [bo[o] EXCEPT !.handle = FALSE]
<1>4. th[t] \in ThreadRecord /\ bo \in [Buffers -> LooseRecord] /\ bo[o] \in LooseRecord
  BY ThreadIs
<1>5. th' = [th EXCEPT ![t] = q] /\ bo' = [bo EXCEPT ![o] = r]
  BY <1>1, <1>3, <1>4, ThreadIs
<1>6. q \in ThreadRecord
  <2>1. "unref" \in Labels
    BY DEF Labels
  <2>2. QED
    BY <1>3, <1>4, <2>1 DEF ThreadRecord
<1>7. /\ q.pc = "unref" /\ q.list = s /\ q.pos = th[t].pos /\ q.next = th[t].next
      /\ q.removed = th[t].removed
  BY <1>4 DEF ThreadRecord
<1>8. /\ r \in LooseRecord
      /\ r.kref = bo[o].kref /\ r.handle = FALSE
      /\ r.cpu_writers = bo[o].cpu_writers /\ r.reserved = bo[o].reserved
      /\ r.sync = bo[o].sync /\ r.mem = bo[o].mem
      /\ r.list_kref = bo[o].list_kref /\ r.freed = bo[o].freed
  BY <1>4 DEF LooseRecord
<1> HIDE DEF q, r
<1>9. /\ bo' \in [Buffers -> LooseRecord] /\ bo'[o] = r
      /\ \A b \in Buffers \ {o} : bo'[b] = bo[b]
  BY <1>4, <1>5, <1>8
<1>10. ASSUME NEW b \in Buffers PROVE Used(s, b)
  <2>1. bo[b] \in LooseRecord /\ bo[b].kref \in Int
    BY <1>4 DEF LooseRecord
  <2>2. CASE b = o
    BY <1>1, <1>3, <1>8, <1>9, <2>1, <2>2 DEF Used
  <2>3. CASE b # o
    BY <1>3, <1>9, <2>1, <2>3 DEF Used
  <2>4. QED
    BY <2>2, <2>3
<1>11. q.pc \in {"retry", "grab", "unref"} /\ q.pc # "retry" /\ q.pc # "grab"
  BY <1>7
<1>12. QED
  <2>1. /\ IInv /\ t \in Threads /\ q \in ThreadRecord /\ th' = [th EXCEPT ![t] = q]
        /\ th[t].pc = "idle" /\ q.pc \in {"retry", "grab", "unref"}
        /\ q.pc = "retry" => t \in Validators
        /\ q.pc = "grab" => q.obj \in Buffers /\ q.list = <<q.obj>>
        /\ IsInjective(q.list) /\ q.pos = th[t].pos /\ q.next = th[t].next
        /\ q.removed = th[t].removed
        /\ bo' \in [Buffers -> LooseRecord]
        /\ UNCHANGED <<lru, ddestroy, wq, val_seq, lru_lock, max_gmr_ids>>
    BY <1>2, <1>3, <1>5, <1>6, <1>7, <1>9, <1>11
  <2>2. \A b \in Buffers : Used(q.list, b)
    BY <1>7, <1>10
  <2>3. QED
    BY ONLY <2>1, <2>2, UseStep

\* The list without its first buffer.
LEMMA TailIs ==
  ASSUME NEW s \in Seq(Buffers), s # <<>>, IsInjective(s)
  PROVE  /\ Tail(s) \in Seq(Buffers) /\ IsInjective(Tail(s)) /\ Head(s) \in Buffers
         /\ \A b : On(Tail(s), b) <=> On(s, b) /\ b # Head(s)
         /\ On(s, Head(s))
         /\ Len(s) = 1 => Tail(s) = <<>>
<1>1. /\ Tail(s) \in Seq(Buffers) /\ Len(Tail(s)) = Len(s) - 1 /\ Head(s) = s[1]
      /\ Len(s) \in Nat /\ Len(s) > 0
      /\ \A i \in 1 .. Len(Tail(s)) : Tail(s)[i] = s[i + 1]
  BY EmptySeq, LenProperties, HeadTailProperties
<1>2. \A i, k \in 1 .. Len(s) : s[i] = s[k] => i = k
  BY LenProperties DEF IsInjective
<1>3. IsInjective(Tail(s))
  <2>1. \A i, k \in 1 .. Len(Tail(s)) : Tail(s)[i] = Tail(s)[k] => i = k
    BY <1>1, <1>2
  <2>2. QED
    BY <1>1, <2>1, LenProperties DEF IsInjective
<1>4. ASSUME NEW b PROVE On(Tail(s), b) <=> On(s, b) /\ b # Head(s)
  <2>1. ASSUME NEW i \in 1 .. Len(Tail(s)), Tail(s)[i] = b PROVE On(s, b) /\ b # Head(s)
    <3>1. i + 1 \in 1 .. Len(s) /\ s[i + 1] = b /\ 1 \in 1 .. Len(s) /\ i + 1 # 1
      BY <1>1, <2>1
    <3>2. s[1] # b
      BY <1>2, <3>1
    <3>3. QED
      BY <1>1, <3>1, <3>2, OnIs
  <2>2. ASSUME NEW i \in 1 .. Len(s), s[i] = b, b # Head(s) PROVE On(Tail(s), b)
    <3>1. i # 1
      BY <1>1, <2>2
    <3>2. i - 1 \in 1 .. Len(Tail(s)) /\ Tail(s)[i - 1] = s[(i - 1) + 1] /\ (i - 1) + 1 = i
      BY <1>1, <3>1
    <3>3. Tail(s)[i - 1] = b
      BY <2>2, <3>2
    <3>4. QED
      BY <1>1, <3>2, <3>3, OnIs
  <2>3. QED
    BY <1>1, <2>1, <2>2, OnIs
<1>5. Head(s) \in Buffers /\ On(s, Head(s))
  BY HeadIs
<1>6. Len(s) = 1 => Tail(s) = <<>>
  <2>1. Tail(s) # <<>> => Len(Tail(s)) \in Nat \ {0}
    BY <1>1, EmptySeq, LenProperties
  <2>2. QED
    BY <1>1, <2>1
<1>7. QED
  BY <1>1, <1>3, <1>4, <1>5, <1>6

\* A reference to a buffer goes.
LEMMA UnrefIs ==
  ASSUME IInv, NEW t \in Threads, Unref(t)
  PROVE  \E o \in Buffers, q \in ThreadRecord, r \in LooseRecord :
           /\ o = Head(th[t].list) /\ th' = [th EXCEPT ![t] = q] /\ bo' = [bo EXCEPT ![o] = r]
           /\ q.pc \in {"release", "unref", "idle"} /\ q.list = Tail(th[t].list)
           /\ q.pos = th[t].pos /\ q.next = th[t].next
           /\ q.removed = th[t].removed \/ q.removed = {}
           /\ q.pc = "release" => q.obj = o /\ q.ret = "unref"
           /\ q.pc = "release" <=> bo[o].kref = 1
           /\ q.pc = "idle" => q.list = <<>>
           /\ r.kref = bo[o].kref - 1 /\ r.handle = bo[o].handle
           /\ r.cpu_writers = bo[o].cpu_writers /\ r.reserved = bo[o].reserved
           /\ r.sync = bo[o].sync /\ r.mem = bo[o].mem
           /\ r.list_kref = bo[o].list_kref /\ r.freed = bo[o].freed
<1>0. PICK s : s = th[t].list
  OBVIOUS
<1>1. PICK o : o = Head(s)
  OBVIOUS
<1>2. /\ th[t] \in ThreadRecord /\ Controlled(t, th[t], lru_lock)
      /\ bo \in [Buffers -> LooseRecord] /\ th \in [Threads -> ThreadRecord] /\ s \in Seq(Buffers)
  BY <1>0, ThreadIs
<1>3. /\ th[t].pc = "unref" /\ s # <<>> /\ bo' = [bo EXCEPT ![o].kref = @ - 1]
  BY <1>0, <1>1 DEF Unref
<1>4. /\ o \in Buffers /\ Tail(s) \in Seq(Buffers) /\ Len(s) \in Nat \ {0}
      /\ Len(s) = 1 => Tail(s) = <<>>
  BY <1>0, <1>1, <1>2, <1>3, TailIs, EmptySeq, LenProperties DEF Controlled
<1>5. th[t].pos = 1 /\ th[t].next = NoOne
  BY <1>2, <1>3 DEF Controlled, In, Helping
<1> DEFINE r == [bo[o] EXCEPT !.kref = @ - 1]
<1>6. /\ bo' = [bo EXCEPT ![o] = r] /\ r \in LooseRecord
      /\ r.kref = bo[o].kref - 1 /\ r.handle = bo[o].handle
      /\ r.cpu_writers = bo[o].cpu_writers /\ r.reserved = bo[o].reserved
      /\ r.sync = bo[o].sync /\ r.mem = bo[o].mem
      /\ r.list_kref = bo[o].list_kref /\ r.freed = bo[o].freed
  <2>1. bo[o] \in LooseRecord
    BY <1>2, <1>4
  <2>2. bo' = [bo EXCEPT ![o] = r]
    BY <1>2, <1>3, <1>4
  <2>3. QED
    BY <2>1, <2>2 DEF LooseRecord
<1> HIDE DEF r
<1>7. PICK q \in ThreadRecord :
        /\ th' = [th EXCEPT ![t] = q]
        /\ q.pc \in {"release", "unref", "idle"} /\ q.list = Tail(s)
        /\ q.pos = th[t].pos /\ q.next = th[t].next
        /\ q.removed = th[t].removed \/ q.removed = {}
        /\ q.pc = "release" => q.obj = o /\ q.ret = "unref"
        /\ q.pc = "release" <=> bo[o].kref = 1
        /\ q.pc = "idle" => q.list = <<>>
  <2>1. CASE bo[o].kref = 1
    <3> DEFINE q == [th[t] EXCEPT !.list = Tail(s), !.pc = "release", !.obj = o, !.ret = "unref"]
    <3>1. th' = [th EXCEPT ![t].list = Tail(@), ![t].pc = "release", ![t].obj = o,
                           ![t].ret = "unref"]
      BY <1>0, <1>1, <2>1 DEF Unref
    <3>2. th' = [th EXCEPT ![t] = q]
      BY <1>0, <1>2, <3>1
    <3>3. "release" \in Labels /\ "unref" \in Labels
      BY DEF Labels
    <3>4. q \in ThreadRecord
      BY <1>2, <1>4, <3>3 DEF ThreadRecord
    <3>5. /\ q.pc = "release" /\ q.list = Tail(s) /\ q.pos = th[t].pos /\ q.next = th[t].next
          /\ q.removed = th[t].removed /\ q.obj = o /\ q.ret = "unref"
      BY <1>2 DEF ThreadRecord
    <3> HIDE DEF q
    <3>6. QED
      BY <2>1, <3>2, <3>4, <3>5
  <2>2. CASE bo[o].kref # 1 /\ Len(s) > 1
    <3> DEFINE q == [th[t] EXCEPT !.list = Tail(s)]
    <3>1. th' = [th EXCEPT ![t].list = Tail(@)]
      BY <1>0, <1>1, <2>2 DEF Unref
    <3>2. th' = [th EXCEPT ![t] = q]
      BY <1>0, <1>2, <3>1
    <3>3. q \in ThreadRecord
      BY <1>2, <1>4 DEF ThreadRecord
    <3>4. /\ q.pc = "unref" /\ q.list = Tail(s) /\ q.pos = th[t].pos /\ q.next = th[t].next
          /\ q.removed = th[t].removed
      BY <1>2, <1>3 DEF ThreadRecord
    <3> HIDE DEF q
    <3>5. QED
      BY <2>2, <3>2, <3>3, <3>4
  <2>3. CASE bo[o].kref # 1 /\ ~(Len(s) > 1)
    <3>1. th' = [th EXCEPT ![t] = NewThread]
      BY <1>0, <1>1, <2>3 DEF Unref
    <3>2. Tail(s) = <<>>
      BY <1>4, <2>3
    <3>3. PICK q \in ThreadRecord : q = NewThread
      BY NewThreadIs
    <3>4. q.pc = "idle" /\ q.list = <<>> /\ q.pos = 1 /\ q.removed = {} /\ q.next = NoOne
      BY <3>3, NewThreadIs
    <3>5. QED
      BY <1>5, <2>3, <3>1, <3>2, <3>3, <3>4
  <2>4. QED
    BY <2>1, <2>2, <2>3
<1>8. QED
  BY <1>0, <1>1, <1>4, <1>6, <1>7

\* A reference goes, and with the last one the buffer is released.
LEMMA UnrefInv == ASSUME IInv, NEW t \in Threads, Unref(t), UNCHANGED max_gmr_ids PROVE IInv'
<1>0. PICK o \in Buffers, q \in ThreadRecord, r \in LooseRecord :
           /\ o = Head(th[t].list) /\ th' = [th EXCEPT ![t] = q] /\ bo' = [bo EXCEPT ![o] = r]
           /\ q.pc \in {"release", "unref", "idle"} /\ q.list = Tail(th[t].list)
           /\ q.pos = th[t].pos /\ q.next = th[t].next
           /\ q.removed = th[t].removed \/ q.removed = {}
           /\ q.pc = "release" => q.obj = o /\ q.ret = "unref"
           /\ q.pc = "release" <=> bo[o].kref = 1
           /\ q.pc = "idle" => q.list = <<>>
           /\ r.kref = bo[o].kref - 1 /\ r.handle = bo[o].handle
           /\ r.cpu_writers = bo[o].cpu_writers /\ r.reserved = bo[o].reserved
           /\ r.sync = bo[o].sync /\ r.mem = bo[o].mem
           /\ r.list_kref = bo[o].list_kref /\ r.freed = bo[o].freed
  BY UnrefIs
<1>1. /\ th[t].pc = "unref" /\ th[t].list # <<>>
      /\ UNCHANGED <<lru, ddestroy, wq, val_seq, lru_lock, max_gmr_ids>>
  BY DEF Unref
<1>2. /\ th[t] \in ThreadRecord /\ Controlled(t, th[t], lru_lock)
      /\ th[t].list \in Seq(Buffers) /\ IsInjective(th[t].list) /\ LruType
  BY ThreadIs DEF Controlled
<1>3. /\ th[t].pos = 1 /\ th[t].next = NoOne /\ lru_lock # t
      /\ \A b : ~On(Reserved(th[t]), b) /\ b \notin th[t].removed
  <2>1. th[t].pos = 1 /\ th[t].next = NoOne /\ lru_lock # t
    BY <1>1, <1>2 DEF Controlled, In, Helping
  <2>2. \A b : ~On(Reserved(th[t]), b)
    BY <1>2, <2>1, ReservedIs, ThreadIs
  <2>3. QED
    BY <1>2, <2>1, <2>2 DEF Controlled
<1>4. /\ IsInjective(q.list) /\ On(th[t].list, o) /\ q.list \in Seq(Buffers)
      /\ \A b : On(q.list, b) <=> On(th[t].list, b) /\ b # o
  BY <1>0, <1>1, <1>2, TailIs
<1>5. q.pos = 1 /\ q.pos \in 1 .. Len(q.list) + 1 /\ q.next = NoOne /\ q.removed = {}
  BY <1>0, <1>3, <1>4, LenProperties
<1>6. \A b : ~On(Reserved(q), b)
  BY <1>5, ReservedIs
<1>7. Controlled(t, q, lru_lock)
  BY <1>0, <1>3, <1>4, <1>5 DEF Controlled, In, Helping, Submitting, Grabbing, Locking
<1>8. th'[t] = q /\ Others(t) /\ bo'[o] = r
  BY <1>0, ThreadIs DEF Others
<1>9. /\ Life(o) /\ Reservation(o) /\ Linked(o) \in Nat /\ bo[o].list_kref \in Nat
      /\ bo[o].kref \in Nat /\ bo[o].kref > 0 /\ bo[o].cpu_writers \in Nat /\ t # NoOne
      /\ bo[o].reserved \in Threads \cup {NoOne} /\ o # NoOne
      /\ (bo[o].freed <=> bo[o].list_kref = 0)
  BY <1>4, BufferIs, UserCounts, BoAssumption
<1>10. /\ Linked(o)' = Linked(o) /\ (OnLru(o)' <=> OnLru(o)) /\ LruType'
       /\ \A b \in Buffers : SameLinks(b)
  <2>1. LruType' /\ \A b \in Buffers : SameLinks(b)
    BY <1>1, <1>2 DEF SameLinks, LruType
  <2>2. QED
    BY <1>2, <2>1, LinkSteps
<1>11. /\ \A S \in {{"cpu"}, {"memtype"}, {"evicting", "swapping"}, Helping,
                    {"cleanreserve"}, {"cleanwait", "cleanreserve"}} :
            ~At(q, S, o) /\ ~At(th[t], S, o)
       /\ (Holds(q, o) <=> Holds(th[t], o))
       /\ ~At(th[t], {"release"}, o) /\ (At(q, {"release"}, o) <=> bo[o].kref = 1)
  BY <1>0, <1>1, <1>3, <1>6 DEF At, Helping, Holds
<1>12. Present(o) /\ ~Releasing(o) /\ ~On(ddestroy, o) /\ Alive(o)
  BY <1>9 DEF Life, Present, Alive
<1>13. Alive(o)' /\ Present(o)'
  <2>1. CASE bo[o].kref = 1
    BY <1>8, <1>11, <2>1, ReleasingIs DEF Alive, Present
  <2>2. CASE bo[o].kref # 1
    BY <1>0, <1>8, <1>9, <2>2 DEF Alive, Present
  <2>3. QED
    BY <2>1, <2>2
<1>14. Life(o)'
  <2>1. CASE bo[o].kref # 1
    <3>1. /\ bo[o].kref \in Nat /\ bo'[o].kref \in Nat
          /\ bo'[o].kref = 0 <=> bo[o].kref = 0
          /\ On(ddestroy', o) <=> On(ddestroy, o)
          /\ bo[o].kref = 0 /\ bo[o].sync = "none" => bo'[o].sync = "none"
          /\ bo'[o].mem = "none" <=> bo[o].mem = "none"
          /\ OnLru(o)' => OnLru(o)
          /\ th'[t].next # o
      BY <1>0, <1>1, <1>5, <1>8, <1>9, <1>10, <2>1
    <3>2. QED
      BY <1>8, <1>9, <1>11, <2>1, <3>1, LifeSame
  <2>2. CASE bo[o].kref = 1
    <3>1. bo'[o].kref = 0 /\ bo'[o].mem # "none" /\ ~On(ddestroy', o)
      BY <1>0, <1>1, <1>8, <1>9, <1>12, <2>2 DEF Life
    <3>2. ASSUME NEW u \in Threads \ {t}
          PROVE  /\ ~At(th'[u], {"release"}, o) /\ ~At(th'[u], {"memtype"}, o)
                 /\ ~At(th'[u], {"cleanwait", "cleanreserve"}, o) /\ th'[u].next # o
                 /\ ~At(th'[u], {"cleanreserve"}, o)
      <4>1. th'[u] = th[u]
        BY <1>8 DEF Others
      <4>2. ~At(th[u], {"release"}, o)
        BY <1>12 DEF Releasing
      <4>3. /\ ~At(th[u], {"memtype"}, o)
            /\ ~At(th[u], {"cleanwait", "cleanreserve"}, o) /\ th[u].next # o
        BY <1>9, <1>12 DEF Life
      <4>4. ~At(th[u], {"cleanreserve"}, o)
        BY <4>3 DEF At
      <4>5. QED
        BY <4>1, <4>2, <4>3, <4>4
    <3>3. /\ ~At(th'[t], {"memtype"}, o)
          /\ ~At(th'[t], {"cleanwait", "cleanreserve"}, o) /\ th'[t].next # o
          /\ ~At(th'[t], {"cleanreserve"}, o)
      BY <1>5, <1>8, <1>9, <1>11
    <3>4. /\ \A u, v \in Threads :
               At(th'[u], {"release"}, o) /\ At(th'[v], {"release"}, o) => u = v
          /\ \A u \in Threads : /\ ~At(th'[u], {"memtype"}, o)
                                /\ ~At(th'[u], {"cleanwait", "cleanreserve"}, o)
                                /\ th'[u].next # o
                                /\ ~At(th'[u], {"cleanreserve"}, o)
      BY <3>2, <3>3
    <3>5. QED
      BY <1>13, <3>1, <3>4 DEF Life
  <2>3. QED
    BY <2>1, <2>2
<1>15. Reservation(o)'
  <2>1. bo[o].reserved = t /\ OnLru(o)' => FALSE
    BY <1>1, <1>9, <1>10 DEF Reservation
  <2>2. QED
    BY <1>0, <1>3, <1>6, <1>8, <1>9, <1>10, <1>11, <1>12, <2>1, ReservationSame
<1>16. \A b \in Buffers \ {o} :
         /\ SameLinks(b) /\ SameView(th[t], q, b)
         /\ On(ddestroy', b) <=> On(ddestroy, b)
         /\ ~At(q, {"cleanreserve"}, b)
  <2>1. ASSUME NEW b \in Buffers \ {o}
        PROVE  SameView(th[t], q, b) /\ ~At(q, {"cleanreserve"}, b)
    <3>1. /\ On(q.list, b) <=> On(th[t].list, b)
          /\ On(Reserved(q), b) <=> On(Reserved(th[t]), b)
          /\ q.next = b <=> th[t].next = b
      BY <1>3, <1>4, <1>5, <1>6
    <3>2. /\ \A S \in {{"cpu"}, {"release"}, {"memtype"}, {"grabwait"}, {"evicting", "swapping"},
                       {"cleanreserve"}, {"cleanwait", "cleanreserve"}, Helping} :
               ~At(q, S, b) /\ ~At(th[t], S, b)
          /\ th[t].pc # "scan"
      BY <1>0, <1>1 DEF At, Helping
    <3>3. QED
      BY <3>1, <3>2 DEF SameView
  <2>2. QED
    BY <1>1, <1>10, <2>1
<1>17. /\ r.kref = bo[o].kref
           + (IF On(q.list, o) THEN 1 ELSE 0) - (IF On(th[t].list, o) THEN 1 ELSE 0)
           + (IF r.handle THEN 1 ELSE 0) - (IF bo[o].handle THEN 1 ELSE 0)
       /\ r.cpu_writers = bo[o].cpu_writers
           + (IF At(q, {"cpu"}, o) THEN 1 ELSE 0) - (IF At(th[t], {"cpu"}, o) THEN 1 ELSE 0)
  BY <1>0, <1>4, <1>9, <1>11
<1>18. r.list_kref = bo[o].list_kref + (Linked(o)' - Linked(o)
           + (IF On(ddestroy', o) THEN 1 ELSE 0) - (IF On(ddestroy, o) THEN 1 ELSE 0)
           + (IF Alive(o)' THEN 1 ELSE 0) - (IF Alive(o) THEN 1 ELSE 0)
           + (IF At(q, Helping, o) THEN 1 ELSE 0) - (IF At(th[t], Helping, o) THEN 1 ELSE 0)
           + (IF q.next = o THEN 1 ELSE 0) - (IF th[t].next = o THEN 1 ELSE 0)
           + (IF At(q, {"memtype"}, o) THEN q.put ELSE 0)
           - (IF At(th[t], {"memtype"}, o) THEN th[t].put ELSE 0))
  BY <1>0, <1>1, <1>9, <1>10, <1>11, <1>12, <1>13
<1>19. ddestroy' \in Seq(Buffers) /\ wq' \in BOOLEAN /\ (r.freed <=> r.list_kref = 0)
  BY <1>0, <1>1, <1>9 DEF IInv, TypeOK
<1>20. QED
  BY <1>0, <1>1, <1>7, <1>10, <1>14, <1>15, <1>16, <1>17, <1>18, <1>19, TouchStep

-----------------------------------------------------------------------------
(* A buffer grabbed for the CPU. *)

\* Its user has a reference to it.
LEMMA GrabIs ==
  ASSUME IInv, NEW t \in Threads, NEW o, o = th[t].obj, th[t].pc \in Grabbing
  PROVE  /\ o \in Buffers /\ th[t] \in ThreadRecord /\ Controlled(t, th[t], lru_lock)
         /\ bo[o] \in LooseRecord /\ LruType /\ t # NoOne /\ lru_lock # t
         /\ th[t].next = NoOne /\ th[t].pos = 1 /\ th[t].list = <<o>>
         /\ \A b : ~On(Reserved(th[t]), b) /\ (On(th[t].list, b) <=> b = o)
         /\ \A b : b \notin th[t].removed
         /\ Counted(o) /\ Life(o) /\ Reservation(o)
         /\ bo[o].kref \in Nat /\ bo[o].kref > 0 /\ bo[o].cpu_writers \in Nat
         /\ bo[o].list_kref \in Nat /\ Linked(o) \in Nat /\ bo[o].list_kref > Linked(o)
         /\ bo[o].reserved \in Threads \cup {NoOne} /\ o # NoOne
         /\ (bo[o].freed <=> bo[o].list_kref = 0)
         /\ Present(o) /\ Alive(o)
         /\ (OnLru(o) <=> Linked(o) > 0)
<1>1. /\ o \in Buffers /\ th[t] \in ThreadRecord /\ Controlled(t, th[t], lru_lock)
      /\ bo[o] \in LooseRecord /\ LruType /\ t # NoOne /\ lru_lock # t
  BY HelperIs, ThreadIs
<1>2. th[t].next = NoOne /\ th[t].pos = 1 /\ th[t].list = <<o>>
  BY <1>1 DEF Controlled, In, Helping, Grabbing
<1>3. \A b : ~On(Reserved(th[t]), b) /\ (On(th[t].list, b) <=> b = o)
  <2>1. \A b : ~On(Reserved(th[t]), b)
    BY <1>1, <1>2, ReservedIs, ThreadIs
  <2>2. QED
    BY <1>1, <1>2, <2>1, SingletonIs
<1>4. \A b : b \notin th[t].removed
  BY <1>1, <1>3 DEF Controlled
<1>5. /\ Counted(o) /\ Life(o) /\ Reservation(o)
      /\ bo[o].kref \in Nat /\ bo[o].kref > 0 /\ bo[o].cpu_writers \in Nat
      /\ bo[o].list_kref \in Nat /\ Linked(o) \in Nat
      /\ bo[o].reserved \in Threads \cup {NoOne} /\ o # NoOne
      /\ (bo[o].freed <=> bo[o].list_kref = 0)
      /\ (OnLru(o) <=> Linked(o) > 0)
  BY <1>1, <1>3, BufferIs, UserCounts, BoAssumption
<1>6. Present(o) /\ Alive(o)
  BY <1>5 DEF Present, Alive
<1>7. bo[o].list_kref > Linked(o)
  <2>1. bo[o].list_kref >= Linked(o) + (IF On(ddestroy, o) THEN 1 ELSE 0)
              + (IF Alive(o) THEN 1 ELSE 0) + (IF At(th[t], Helping, o) THEN 1 ELSE 0)
              + (IF th[t].next = o THEN 1 ELSE 0)
              + (IF At(th[t], {"memtype"}, o) THEN th[t].put ELSE 0)
    BY <1>1, BufferIs
  <2>2. ~At(th[t], {"memtype"}, o)
    BY DEF At, Grabbing
  <2>3. QED
    BY <1>5, <1>6, <2>1, <2>2
<1>8. QED
  BY <1>1, <1>2, <1>3, <1>4, <1>5, <1>6, <1>7

\* A step of a CPU writer: it takes or drops the reservation, counts itself or leaves.
LEMMA GrabStep ==
  ASSUME IInv, NEW t \in Threads, NEW q \in ThreadRecord, th' = [th EXCEPT ![t] = q],
         NEW o, o = th[t].obj, NEW r \in LooseRecord, bo' = [bo EXCEPT ![o] = r],
         th[t].pc \in Grabbing, q.pc \in {"grabwait", "cpu", "unref"},
         q.obj = o \/ q.pc = "unref",
         q.list = th[t].list, q.pos = th[t].pos, q.next = th[t].next,
         q.removed = th[t].removed,
         LruType', UNCHANGED <<ddestroy, wq, val_seq, lru_lock, max_gmr_ids>>,
         \A b \in Buffers \ {o} : SameLinks(b),
         r.kref = bo[o].kref, r.handle = bo[o].handle,
         r.mem = bo[o].mem,
         r.cpu_writers = bo[o].cpu_writers
           + (IF q.pc = "cpu" THEN 1 ELSE 0) - (IF th[t].pc = "cpu" THEN 1 ELSE 0),
         r.list_kref = bo[o].list_kref + Linked(o)' - Linked(o),
         r.freed <=> r.list_kref = 0,
         Reservation(o)'
  PROVE  IInv'
<1>1. /\ o \in Buffers /\ th[t] \in ThreadRecord /\ Controlled(t, th[t], lru_lock)
      /\ lru_lock # t
      /\ th[t].next = NoOne /\ th[t].pos = 1 /\ th[t].list = <<o>>
      /\ \A b : ~On(Reserved(th[t]), b) /\ (On(th[t].list, b) <=> b = o)
      /\ \A b : b \notin th[t].removed
      /\ Life(o) /\ bo[o].kref \in Nat /\ bo[o].kref > 0 /\ bo[o].cpu_writers \in Nat
      /\ bo[o].list_kref \in Nat /\ o # NoOne
      /\ Present(o) /\ Alive(o) /\ LruType /\ Linked(o) \in Nat
  BY GrabIs
<1>2. th'[t] = q /\ Others(t) /\ bo'[o] = r
  BY <1>1, ThreadIs DEF Others
<1>3. Reserved(q) = Reserved(th[t])
  BY DEF Reserved
<1>4. Controlled(t, q, lru_lock)
  BY <1>1, <1>3 DEF Controlled, In, Helping, Submitting, Grabbing, Locking
<1>5. Linked(o)' \in Nat
  BY <1>1, LinkSteps
<1>6. /\ \A S \in {{"release"}, {"memtype"}, {"evicting", "swapping"}, Helping,
                   {"cleanreserve"}, {"cleanwait", "cleanreserve"}} :
            ~At(q, S, o) /\ ~At(th[t], S, o)
      /\ At(q, {"cpu"}, o) <=> q.pc = "cpu"
      /\ At(th[t], {"cpu"}, o) <=> th[t].pc = "cpu"
  BY DEF At, Helping, Grabbing
<1>7. Alive(o)' /\ Life(o)'
  <2>1. Alive(o)'
    BY <1>1, <1>2 DEF Alive
  <2>2. /\ bo'[o].kref \in Nat
        /\ bo'[o].kref = 0 <=> bo[o].kref = 0
        /\ On(ddestroy', o) <=> On(ddestroy, o)
        /\ bo[o].kref = 0 /\ bo[o].sync = "none" => bo'[o].sync = "none"
        /\ bo'[o].mem = "none" <=> bo[o].mem = "none"
        /\ th'[t].next # o
    BY <1>1, <1>2
  <2>3. Life(o)'
    BY <1>1, <1>2, <1>6, <2>2, LifeSame
  <2>4. QED
    BY <2>1, <2>3
<1>8. \A b \in Buffers \ {o} :
        /\ SameLinks(b) /\ SameView(th[t], q, b)
        /\ On(ddestroy', b) <=> On(ddestroy, b)
        /\ ~At(q, {"cleanreserve"}, b)
  <2>1. ASSUME NEW b \in Buffers \ {o}
        PROVE  SameView(th[t], q, b) /\ ~At(q, {"cleanreserve"}, b)
    <3>1. q.obj # b \/ q.pc \in Plain
      BY DEF Plain
    <3>2. th[t].obj # b /\ th[t].pc # "scan"
      BY DEF Grabbing
    <3>3. QED
      BY <3>1, <3>2, ViewSame DEF At
  <2>2. QED
    BY <2>1
<1>9. /\ r.kref = bo[o].kref
           + (IF On(q.list, o) THEN 1 ELSE 0) - (IF On(th[t].list, o) THEN 1 ELSE 0)
           + (IF r.handle THEN 1 ELSE 0) - (IF bo[o].handle THEN 1 ELSE 0)
      /\ r.cpu_writers = bo[o].cpu_writers
           + (IF At(q, {"cpu"}, o) THEN 1 ELSE 0) - (IF At(th[t], {"cpu"}, o) THEN 1 ELSE 0)
  BY <1>1, <1>6
<1>10. r.list_kref = bo[o].list_kref + (Linked(o)' - Linked(o)
           + (IF On(ddestroy', o) THEN 1 ELSE 0) - (IF On(ddestroy, o) THEN 1 ELSE 0)
           + (IF Alive(o)' THEN 1 ELSE 0) - (IF Alive(o) THEN 1 ELSE 0)
           + (IF At(q, Helping, o) THEN 1 ELSE 0) - (IF At(th[t], Helping, o) THEN 1 ELSE 0)
           + (IF q.next = o THEN 1 ELSE 0) - (IF th[t].next = o THEN 1 ELSE 0)
           + (IF At(q, {"memtype"}, o) THEN q.put ELSE 0)
           - (IF At(th[t], {"memtype"}, o) THEN th[t].put ELSE 0))
  BY <1>1, <1>5, <1>6, <1>7
<1>11. ddestroy' \in Seq(Buffers) /\ wq' \in BOOLEAN
  BY DEF IInv, TypeOK
<1>12. QED
  BY <1>1, <1>4, <1>7, <1>8, <1>9, <1>10, <1>11, TouchStep

\* A CPU writer reserves the buffer.
LEMMA GrabReserveInv ==
  ASSUME IInv, NEW t \in Threads, GrabReserve(t), UNCHANGED max_gmr_ids
  PROVE  IInv'
<1>0. PICK o : o = th[t].obj
  OBVIOUS
<1>1. /\ th[t].pc = "grab" /\ bo[o].reserved = NoOne /\ lru' = DelFromLru({o})
      /\ UNCHANGED <<ddestroy, wq, val_seq, lru_lock, max_gmr_ids>>
  BY <1>0 DEF GrabReserve
<1>2. /\ o \in Buffers /\ th[t] \in ThreadRecord /\ bo[o] \in LooseRecord /\ LruType
      /\ \A b : ~On(Reserved(th[t]), b)
      /\ Reservation(o) /\ bo[o].list_kref \in Nat /\ Linked(o) \in Nat
      /\ bo[o].list_kref > Linked(o)
  BY <1>0, <1>1, GrabIs DEF Grabbing
<1>3. LruType' /\ Linked(o)' = 0 /\ ~OnLru(o)' /\ \A b \in Buffers \ {o} : SameLinks(b)
  BY <1>1, <1>2, OffLru
<1>4. PICK n \in Int : n = Linked(o)
  BY <1>2
<1> DEFINE q == [th[t] EXCEPT !.pc = "grabwait"]
           r == ListPut(Reserve(bo[o], t), n)
<1>5. th' = [th EXCEPT ![t] = q] /\ bo' = [bo EXCEPT ![o] = r]
  <2>1. bo' = [bo EXCEPT ![o] = r]
    BY <1>0, <1>4, ThreadIs DEF GrabReserve
  <2>2. th' = [th EXCEPT ![t] = q]
    BY ThreadIs DEF GrabReserve, Goto
  <2>3. QED
    BY <2>1, <2>2
<1>6. q \in ThreadRecord
  BY <1>2 DEF ThreadRecord, Labels
<1>7. /\ q.pc = "grabwait" /\ q.obj = o /\ q.list = th[t].list /\ q.pos = th[t].pos
      /\ q.next = th[t].next /\ q.removed = th[t].removed
  BY <1>0, <1>2 DEF ThreadRecord
<1>8. /\ r \in LooseRecord
      /\ r.kref = bo[o].kref /\ r.handle = bo[o].handle /\ r.cpu_writers = bo[o].cpu_writers
      /\ r.mem = bo[o].mem /\ r.reserved = t
      /\ r.list_kref = bo[o].list_kref - n /\ (r.freed <=> bo[o].list_kref = n)
  <2>1. PICK a \in LooseRecord : /\ a = Reserve(bo[o], t)
                                 /\ a.kref = bo[o].kref /\ a.handle = bo[o].handle
                                 /\ a.list_kref = bo[o].list_kref
                                 /\ a.cpu_writers = bo[o].cpu_writers /\ a.reserved = t
                                 /\ a.mem = bo[o].mem
    BY <1>2, ReserveIs
  <2>2. /\ ListPut(a, n) \in LooseRecord
        /\ ListPut(a, n).kref = a.kref /\ ListPut(a, n).handle = a.handle
        /\ ListPut(a, n).freed <=> a.list_kref = n
        /\ ListPut(a, n).list_kref = a.list_kref - n
        /\ ListPut(a, n).cpu_writers = a.cpu_writers /\ ListPut(a, n).reserved = a.reserved
        /\ ListPut(a, n).mem = a.mem
    BY ListPutIs, Zenon
  <2>3. r = ListPut(a, n)
    BY <2>1
  <2> HIDE DEF r
  <2>4. QED
    BY <2>1, <2>2, <2>3
<1> HIDE DEF q, r
<1>9. th'[t] = q /\ Others(t) /\ bo'[o] = r
  BY <1>2, <1>5, ThreadIs DEF Others
<1>10. Reservation(o)'
  <2>1. Holds(q, o) /\ ~On(Reserved(q), o)
    <3>1. Reserved(q) = Reserved(th[t])
      BY <1>7 DEF Reserved
    <3>2. QED
      BY <1>2, <1>7, <3>1 DEF Holds, At
  <2>2. QED
    BY <1>1, <1>2, <1>3, <1>8, <1>9, <2>1, ReservationTaken
<1>11. /\ r.cpu_writers = bo[o].cpu_writers
           + (IF q.pc = "cpu" THEN 1 ELSE 0) - (IF th[t].pc = "cpu" THEN 1 ELSE 0)
       /\ r.list_kref = bo[o].list_kref + Linked(o)' - Linked(o)
       /\ r.freed <=> r.list_kref = 0
  <2>1. bo[o].cpu_writers \in Nat
    BY <1>2, BufferIs
  <2>2. QED
    BY <1>1, <1>2, <1>3, <1>4, <1>7, <1>8, <2>1
<1>12. QED
  <2>1. th[t].pc \in Grabbing /\ q.pc \in {"grabwait", "cpu", "unref"}
    BY <1>1, <1>7 DEF Grabbing
  <2>2. QED
    BY <1>0, <1>1, <1>3, <1>5, <1>6, <1>7, <1>8, <1>10, <1>11, <2>1, GrabStep

\* A CPU writer is done.
LEMMA GrabReleaseInv ==
  ASSUME IInv, NEW t \in Threads, GrabRelease(t), UNCHANGED max_gmr_ids
  PROVE  IInv'
<1>0. PICK o : o = th[t].obj
  OBVIOUS
<1>1. /\ th[t].pc = "cpu"
      /\ UNCHANGED <<lru, ddestroy, wq, val_seq, lru_lock, max_gmr_ids>>
  BY <1>0 DEF GrabRelease
<1>2. /\ o \in Buffers /\ th[t] \in ThreadRecord /\ bo[o] \in LooseRecord /\ LruType
      /\ \A b : ~On(Reserved(th[t]), b)
      /\ Reservation(o) /\ bo[o].list_kref \in Nat /\ Linked(o) \in Nat
      /\ bo[o].cpu_writers \in Nat /\ bo[o].reserved \in Threads \cup {NoOne} /\ Present(o)
      /\ (bo[o].freed <=> bo[o].list_kref = 0) /\ t # NoOne /\ (OnLru(o) <=> Linked(o) > 0)
      /\ Counted(o)
  BY <1>0, <1>1, GrabIs DEF Grabbing
<1>3. LruType' /\ Linked(o)' = Linked(o) /\ \A b \in Buffers : SameLinks(b)
  <2>1. LruType' /\ \A b \in Buffers : SameLinks(b)
    BY <1>1, <1>2 DEF SameLinks, LruType
  <2>2. QED
    BY <1>2, <2>1, LinkSteps
<1>4. PICK n \in Int : n = bo[o].cpu_writers - 1
  BY <1>2
<1> DEFINE q == [th[t] EXCEPT !.pc = "unref", !.obj = NoOne]
           r == WithWriters(bo[o], n)
<1>5. th' = [th EXCEPT ![t] = q] /\ bo' = [bo EXCEPT ![o] = r]
  <2>1. bo' = [bo EXCEPT ![o] = r]
    BY <1>0, <1>2, <1>4, ThreadIs DEF GrabRelease, WithWriters
  <2>2. th' = [th EXCEPT ![t] = q]
    BY ThreadIs DEF GrabRelease
  <2>3. QED
    BY <2>1, <2>2
<1>6. q \in ThreadRecord
  BY <1>2 DEF ThreadRecord, Labels
<1>7. /\ q.pc = "unref" /\ q.list = th[t].list /\ q.pos = th[t].pos
      /\ q.next = th[t].next /\ q.removed = th[t].removed
  BY <1>2 DEF ThreadRecord
<1>8. /\ r \in LooseRecord
      /\ r.kref = bo[o].kref /\ r.handle = bo[o].handle /\ r.cpu_writers = n
      /\ r.mem = bo[o].mem /\ r.reserved = bo[o].reserved
      /\ r.list_kref = bo[o].list_kref /\ r.freed = bo[o].freed
  BY <1>2, WithIs DEF LooseRecord, WithWriters
<1> HIDE DEF q, r
<1>9. th'[t] = q /\ Others(t) /\ bo'[o] = r
  BY <1>2, <1>5, ThreadIs DEF Others
<1>10. Reservation(o)'
  <2>1. ~Holds(q, o) /\ ~Holds(th[t], o) /\ ~On(Reserved(q), o)
    <3>1. Reserved(q) = Reserved(th[t])
      BY <1>7 DEF Reserved
    <3>2. QED
      BY <1>1, <1>2, <1>7, <3>1 DEF Holds, At
  <2>2. bo[o].cpu_writers > 0
    <3>1. At(th[t], {"cpu"}, o)
      BY <1>0, <1>1 DEF At
    <3>2. QED
      BY <1>2, <3>1, UserCounts
  <2>3. (OnLru(o)' => OnLru(o)) /\ ~(bo[o].reserved = t /\ OnLru(o)')
    <3>1. OnLru(o)' => OnLru(o)
      BY <1>2, <1>3, LinkSteps
    <3>2. QED
      BY <1>1, <1>2, <3>1 DEF Reservation
  <2>4. QED
    BY <1>2, <1>8, <1>9, <2>1, <2>2, <2>3, ReservationSame
<1>11. /\ r.cpu_writers = bo[o].cpu_writers
           + (IF q.pc = "cpu" THEN 1 ELSE 0) - (IF th[t].pc = "cpu" THEN 1 ELSE 0)
       /\ r.list_kref = bo[o].list_kref + Linked(o)' - Linked(o)
       /\ r.freed <=> r.list_kref = 0
  BY <1>1, <1>2, <1>3, <1>4, <1>7, <1>8
<1>12. QED
  <2>1. th[t].pc \in Grabbing /\ q.pc \in {"grabwait", "cpu", "unref"}
    BY <1>1, <1>7 DEF Grabbing
  <2>2. QED
    BY <1>0, <1>1, <1>3, <1>5, <1>6, <1>7, <1>8, <1>10, <1>11, <2>1, GrabStep

\* A CPU writer has waited, counts itself and unreserves; or it is interrupted.
LEMMA GrabWaitInv ==
  ASSUME IInv, NEW t \in Threads, GrabWait(t), UNCHANGED max_gmr_ids
  PROVE  IInv'
<1>0. PICK o : o = th[t].obj
  OBVIOUS
<1>1. /\ th[t].pc = "grabwait" /\ lru' = AddToLru(lru, bo, <<o>>)
      /\ UNCHANGED <<ddestroy, wq, val_seq, lru_lock, max_gmr_ids>>
  BY <1>0 DEF GrabWait
<1>2. /\ o \in Buffers /\ th[t] \in ThreadRecord /\ bo[o] \in LooseRecord /\ LruType
      /\ \A b : ~On(Reserved(th[t]), b)
      /\ Reservation(o) /\ Life(o) /\ bo[o].list_kref \in Nat /\ Linked(o) \in Nat
      /\ bo[o].cpu_writers \in Nat /\ Present(o) /\ t # NoOne
      /\ (OnLru(o) <=> Linked(o) > 0)
  BY <1>0, <1>1, GrabIs DEF Grabbing
<1>3. Holds(th[t], o) /\ bo[o].reserved = t /\ ~OnLru(o) /\ bo[o].mem \in MemTypes
  <2>1. Holds(th[t], o)
    BY <1>0, <1>1 DEF Holds, At
  <2>2. bo[o].reserved = t /\ ~OnLru(o)
    BY <1>1, <1>2, <2>1 DEF Reservation
  <2>3. bo[o].mem # "none" /\ bo[o].mem \in MemTypes \cup {"none"}
    BY <1>2 DEF Life, LooseRecord
  <2>4. QED
    BY <2>1, <2>2, <2>3
<1>4. LruType' /\ Linked(o)' = 2 /\ \A b \in Buffers \ {o} : SameLinks(b)
  BY <1>1, <1>2, <1>3, BackOnLru
<1>5. PICK n \in Int : n = bo[o].list_kref + 2
  BY <1>2
<1>14. PICK w \in Int : w = bo[o].cpu_writers + 1
  BY <1>2
<1>6. PICK a \in LooseRecord : a = Unreserve(bo[o])
  BY <1>2, UnreserveIs
<1>7. /\ a.kref = bo[o].kref /\ a.handle = bo[o].handle /\ a.cpu_writers = bo[o].cpu_writers
      /\ a.mem = bo[o].mem /\ a.reserved = NoOne /\ a.list_kref = bo[o].list_kref
      /\ a.freed = bo[o].freed
  BY <1>2, <1>6, UnreserveIs
<1>8. WithCount(a, n) \in LooseRecord
  BY <1>5, WithIs
<1>9. PICK q \in ThreadRecord, r \in LooseRecord :
        /\ th' = [th EXCEPT ![t] = q] /\ bo' = [bo EXCEPT ![o] = r]
        /\ q.pc \in {"cpu", "unref"} /\ (q.obj = o \/ q.pc = "unref")
        /\ q.list = th[t].list /\ q.pos = th[t].pos
        /\ q.next = th[t].next /\ q.removed = th[t].removed
        /\ r.kref = bo[o].kref /\ r.handle = bo[o].handle /\ r.mem = bo[o].mem
        /\ r.cpu_writers = bo[o].cpu_writers + (IF q.pc = "cpu" THEN 1 ELSE 0)
        /\ r.reserved = NoOne /\ r.list_kref = n /\ r.freed = bo[o].freed
  <2>1. CASE /\ bo' = [bo EXCEPT ![o] = [[Unreserve(bo[o]) EXCEPT !.list_kref = @ + 2]
                                           EXCEPT !.sync = "none", !.cpu_writers = @ + 1]]
             /\ Goto(t, "cpu")
    <3> DEFINE q == [th[t] EXCEPT !.pc = "cpu"]
               r == WithWriters(WithSync(WithCount(a, n), "none"), w)
    <3>1. r \in LooseRecord
      <4>1. WithSync(WithCount(a, n), "none") \in LooseRecord
        BY <1>8, WithIs
      <4>2. QED
        BY <1>14, <4>1, WithIs
    <3>2. r = [[Unreserve(bo[o]) EXCEPT !.list_kref = @ + 2]
                  EXCEPT !.sync = "none", !.cpu_writers = @ + 1]
      <4>1. WithCount(a, n) = [a EXCEPT !.list_kref = @ + 2]
        BY <1>5, <1>7 DEF WithCount, LooseRecord
      <4>2. PICK c \in LooseRecord : c = WithCount(a, n)
        BY <1>8
      <4>3. c.cpu_writers = bo[o].cpu_writers
        BY <1>7, <4>2 DEF WithCount, LooseRecord
      <4>4. WithWriters(WithSync(c, "none"), w) = [c EXCEPT !.sync = "none", !.cpu_writers = @ + 1]
        BY <1>14, <4>3 DEF WithWriters, WithSync, LooseRecord
      <4>5. QED
        BY <1>6, <4>1, <4>2, <4>4
    <3>3. bo' = [bo EXCEPT ![o] = r]
      BY <2>1, <3>2
    <3>4. th' = [th EXCEPT ![t] = q]
      BY <2>1, ThreadIs DEF Goto
    <3>5. q \in ThreadRecord
      BY <1>2 DEF ThreadRecord, Labels
    <3>6. /\ q.pc = "cpu" /\ q.obj = o /\ q.list = th[t].list /\ q.pos = th[t].pos
          /\ q.next = th[t].next /\ q.removed = th[t].removed
      BY <1>0, <1>2 DEF ThreadRecord
    <3>7. /\ r.kref = bo[o].kref /\ r.handle = bo[o].handle /\ r.mem = bo[o].mem
          /\ r.cpu_writers = w /\ r.reserved = NoOne /\ r.list_kref = n /\ r.freed = bo[o].freed
      BY <1>7 DEF WithWriters, WithSync, WithCount, LooseRecord
    <3> HIDE DEF q, r
    <3>8. QED
      BY <1>14, <3>1, <3>3, <3>4, <3>5, <3>6, <3>7
  <2>2. CASE /\ bo' = [bo EXCEPT ![o] = [Unreserve(bo[o]) EXCEPT !.list_kref = @ + 2]]
             /\ th' = [th EXCEPT ![t].pc = "unref", ![t].obj = NoOne]
    <3> DEFINE q == [th[t] EXCEPT !.pc = "unref", !.obj = NoOne]
               r == WithCount(a, n)
    <3>1. r = [Unreserve(bo[o]) EXCEPT !.list_kref = @ + 2]
      BY <1>5, <1>6, <1>7 DEF WithCount, LooseRecord
    <3>2. bo' = [bo EXCEPT ![o] = r]
      BY <2>2, <3>1
    <3>3. th' = [th EXCEPT ![t] = q]
      BY <2>2, ThreadIs
    <3>4. q \in ThreadRecord
      BY <1>2 DEF ThreadRecord, Labels
    <3>5. /\ q.pc = "unref" /\ q.list = th[t].list /\ q.pos = th[t].pos
          /\ q.next = th[t].next /\ q.removed = th[t].removed
      BY <1>2 DEF ThreadRecord
    <3>6. /\ r.kref = bo[o].kref /\ r.handle = bo[o].handle /\ r.mem = bo[o].mem
          /\ r.cpu_writers = bo[o].cpu_writers
          /\ r.reserved = NoOne /\ r.list_kref = n /\ r.freed = bo[o].freed
      BY <1>7 DEF WithCount, LooseRecord
    <3>7. r \in LooseRecord
      BY <1>8
    <3> HIDE DEF q, r
    <3>8. r.cpu_writers = bo[o].cpu_writers + (IF q.pc = "cpu" THEN 1 ELSE 0)
      BY <1>2, <3>5, <3>6
    <3>9. QED
      BY <3>8, <3>2, <3>3, <3>4, <3>5, <3>6, <3>7
  <2>3. QED
    BY <1>0, <2>1, <2>2, Zenon DEF GrabWait
<1>10. th'[t] = q /\ Others(t) /\ bo'[o] = r
  BY <1>2, <1>9, ThreadIs DEF Others
<1>11. Reservation(o)'
  <2>1. ~Holds(q, o)
    <3>1. Reserved(q) = Reserved(th[t])
      BY <1>9 DEF Reserved
    <3>2. QED
      BY <1>2, <1>9, <3>1 DEF Holds, At
  <2>2. QED
    BY <1>2, <1>3, <1>9, <1>10, <2>1, ReservationDropped
<1>12. /\ r.cpu_writers = bo[o].cpu_writers
           + (IF q.pc = "cpu" THEN 1 ELSE 0) - (IF th[t].pc = "cpu" THEN 1 ELSE 0)
       /\ r.list_kref = bo[o].list_kref + Linked(o)' - Linked(o)
       /\ r.freed <=> r.list_kref = 0
  <2>1. Linked(o) = 0
    BY <1>2, <1>3
  <2>2. ~bo[o].freed
    <3>1. bo[o].list_kref > Linked(o) /\ (bo[o].freed <=> bo[o].list_kref = 0)
      BY <1>0, <1>1, GrabIs DEF Grabbing
    <3>2. QED
      BY <1>2, <3>1
  <2>3. QED
    BY <1>1, <1>2, <1>4, <1>5, <1>9, <2>1, <2>2
<1>13. QED
  <2>1. th[t].pc \in Grabbing /\ q.pc \in {"grabwait", "cpu", "unref"}
    BY <1>1, <1>9 DEF Grabbing
  <2>2. /\ IInv /\ t \in Threads /\ q \in ThreadRecord /\ th' = [th EXCEPT ![t] = q]
        /\ o = th[t].obj /\ r \in LooseRecord /\ bo' = [bo EXCEPT ![o] = r]
        /\ q.obj = o \/ q.pc = "unref"
        /\ q.list = th[t].list /\ q.pos = th[t].pos /\ q.next = th[t].next
        /\ q.removed = th[t].removed
        /\ LruType' /\ UNCHANGED <<ddestroy, wq, val_seq, lru_lock, max_gmr_ids>>
        /\ r.kref = bo[o].kref /\ r.handle = bo[o].handle /\ r.mem = bo[o].mem
    BY <1>0, <1>1, <1>4, <1>9
  <2>3. QED
    BY ONLY <1>4, <1>11, <1>12, <2>1, <2>2, GrabStep

-----------------------------------------------------------------------------
(* The buffers of a list. *)

\* A thread with a list of buffers: whether it has reserved buffer b is a
\* matter of the list alone.
LEMMA ListIs ==
  ASSUME IInv, NEW t \in Threads, NEW q \in ThreadRecord, th' = [th EXCEPT ![t] = q],
         th[t].pc \in Plain, q.pc \in Plain, NEW b \in Buffers,
         bo'[b].kref = bo[b].kref, UNCHANGED ddestroy
  PROVE  /\ th'[t] = q /\ Others(t)
         /\ Holds(th[t], b) <=> On(Reserved(th[t]), b)
         /\ Holds(q, b) <=> On(Reserved(q), b)
         /\ Present(b)' <=> Present(b)
         /\ Alive(b)' <=> Alive(b)
<1>1. th'[t] = q /\ Others(t)
  BY ThreadIs DEF Others
<1>2. /\ Holds(th[t], b) <=> On(Reserved(th[t]), b)
      /\ Holds(q, b) <=> On(Reserved(q), b)
      /\ ~At(th[t], {"release"}, b) /\ ~At(q, {"release"}, b)
  BY DEF Holds, At, Plain
<1>3. Releasing(b)' <=> Releasing(b)
  BY <1>1, <1>2, ReleasingIs
<1>4. QED
  BY <1>1, <1>2, <1>3 DEF Present, Alive

\* What its steps leave of a buffer, and what they count.
Carried(b) ==
  /\ bo'[b].kref = bo[b].kref /\ bo'[b].handle = bo[b].handle
  /\ bo'[b].cpu_writers = bo[b].cpu_writers /\ bo'[b].mem = bo[b].mem
  /\ bo[b].kref = 0 /\ bo[b].sync = "none" => bo'[b].sync = "none"
  /\ bo'[b].list_kref = bo[b].list_kref + Linked(b)' - Linked(b)
  /\ bo'[b].freed <=> bo'[b].list_kref = 0
  /\ OnLru(b)' => OnLru(b) \/ Present(b)
  /\ Reservation(b)'

\* A step of a submitting thread on all its buffers.
LEMMA ListStep ==
  ASSUME IInv, NEW t \in Threads, NEW q \in ThreadRecord, th' = [th EXCEPT ![t] = q],
         th[t].pc \in Plain, q.pc \in Plain,
         q.list = th[t].list, q.next = th[t].next,
         bo' \in [Buffers -> LooseRecord], LruType',
         UNCHANGED <<ddestroy, wq, val_seq, max_gmr_ids>>,
         lru_lock' \in Validators \cup {NoOne},
         lru_lock' = lru_lock \/ (lru_lock \in {t, NoOne} /\ lru_lock' \in {t, NoOne}),
         Controlled(t, q, lru_lock'),
         \A b \in Buffers : Carried(b)
  PROVE  IInv'
<1>1. th'[t] = q /\ Others(t) /\ th' \in [Threads -> ThreadRecord] /\ LruType
  BY ThreadIs DEF Others
<1>2. Typed'
  BY <1>1 DEF IInv, TypeOK, Typed
<1>3. ASSUME NEW b \in Buffers PROVE Sound(b)' /\ Nats(b)'
  <2>0. /\ bo'[b].kref = bo[b].kref /\ bo'[b].handle = bo[b].handle
        /\ bo'[b].cpu_writers = bo[b].cpu_writers /\ bo'[b].mem = bo[b].mem
        /\ bo[b].kref = 0 /\ bo[b].sync = "none" => bo'[b].sync = "none"
        /\ bo'[b].list_kref = bo[b].list_kref + Linked(b)' - Linked(b)
        /\ bo'[b].freed <=> bo'[b].list_kref = 0
        /\ OnLru(b)' => OnLru(b) \/ Present(b)
        /\ Reservation(b)'
    BY DEF Carried
  <2>1. /\ Life(b) /\ Linked(b) \in Nat /\ bo[b].list_kref \in Nat
        /\ bo[b].kref \in Nat /\ bo[b].cpu_writers \in Nat
    BY BufferIs
  <2>2. Linked(b)' \in Nat
    BY <1>1, LinkSteps
  <2>3. Alive(b)' <=> Alive(b)
    BY <2>0, ListIs
  <2>4. \A S \in {{"cpu"}, {"release"}, {"memtype"}, {"evicting", "swapping"}, Helping,
                  {"cleanreserve"}, {"cleanwait", "cleanreserve"}} :
             ~At(q, S, b) /\ ~At(th[t], S, b)
    BY DEF At, Helping, Plain
  <2>5. Life(b)'
    <3>1. /\ bo'[b].kref \in Nat
          /\ bo'[b].kref = 0 <=> bo[b].kref = 0
          /\ On(ddestroy', b) <=> On(ddestroy, b)
          /\ bo'[b].mem = "none" <=> bo[b].mem = "none"
          /\ th'[t].next = b => th[t].next = b
      BY <1>1, <2>0, <2>1
    <3>2. QED
      BY <1>1, <2>0, <2>1, <2>4, <3>1, LifeSame
  <2>6. /\ bo'[b].kref = bo[b].kref
             + (IF On(th'[t].list, b) THEN 1 ELSE 0) - (IF On(th[t].list, b) THEN 1 ELSE 0)
             + (IF bo'[b].handle THEN 1 ELSE 0) - (IF bo[b].handle THEN 1 ELSE 0)
        /\ bo'[b].cpu_writers = bo[b].cpu_writers
             + (IF At(th'[t], {"cpu"}, b) THEN 1 ELSE 0) - (IF At(th[t], {"cpu"}, b) THEN 1 ELSE 0)
    BY <1>1, <2>0, <2>1, <2>4
  <2>7. bo'[b].list_kref = bo[b].list_kref + (Linked(b)' - Linked(b)
           + (IF On(ddestroy', b) THEN 1 ELSE 0) - (IF On(ddestroy, b) THEN 1 ELSE 0)
           + (IF Alive(b)' THEN 1 ELSE 0) - (IF Alive(b) THEN 1 ELSE 0)
           + (IF At(th'[t], Helping, b) THEN 1 ELSE 0) - (IF At(th[t], Helping, b) THEN 1 ELSE 0)
           + (IF th'[t].next = b THEN 1 ELSE 0) - (IF th[t].next = b THEN 1 ELSE 0)
           + (IF At(th'[t], {"memtype"}, b) THEN th'[t].put ELSE 0)
           - (IF At(th[t], {"memtype"}, b) THEN th[t].put ELSE 0))
    BY <1>1, <2>0, <2>1, <2>2, <2>3, <2>4
  <2>8. QED
    BY ONLY IInv, t \in Threads, b \in Buffers, <1>1, <1>2, <2>0, <2>5, <2>6, <2>7, BufferStep
<1>4. QED
  BY <1>1, <1>2, <1>3, Step

\* A buffer that the step leaves alone.
LEMMA LeftAlone ==
  ASSUME IInv, NEW t \in Threads, NEW q \in ThreadRecord, th' = [th EXCEPT ![t] = q],
         th[t].pc \in Plain, q.pc \in Plain, UNCHANGED ddestroy,
         NEW b \in Buffers, LruType', SameLinks(b),
         bo'[b].kref = bo[b].kref, bo'[b].handle = bo[b].handle,
         bo'[b].cpu_writers = bo[b].cpu_writers, bo'[b].mem = bo[b].mem,
         bo'[b].sync = bo[b].sync, bo'[b].list_kref = bo[b].list_kref,
         bo'[b].freed = bo[b].freed, bo'[b].reserved = bo[b].reserved,
         On(Reserved(q), b) <=> On(Reserved(th[t]), b),
         OnLru(b) /\ bo[b].reserved = t => q.pc = "scan" /\ b \notin q.removed
  PROVE  Carried(b)
<1>1. /\ Reservation(b) /\ Linked(b) \in Nat /\ bo[b].list_kref \in Nat
      /\ bo[b].reserved \in Threads \cup {NoOne} /\ LruType /\ t # NoOne
      /\ (bo[b].freed <=> bo[b].list_kref = 0)
  BY BufferIs, ThreadIs
<1>2. Linked(b)' = Linked(b) /\ (OnLru(b)' <=> OnLru(b))
  BY <1>1, LinkSteps
<1>3. /\ th'[t] = q /\ Others(t) /\ (Present(b)' <=> Present(b))
      /\ (Holds(q, b) <=> Holds(th[t], b))
  <2>1. /\ IInv /\ t \in Threads /\ q \in ThreadRecord /\ th' = [th EXCEPT ![t] = q]
        /\ th[t].pc \in Plain /\ q.pc \in Plain /\ b \in Buffers
        /\ bo'[b].kref = bo[b].kref /\ UNCHANGED ddestroy
    OBVIOUS
  <2>2. /\ th'[t] = q /\ Others(t)
        /\ Holds(th[t], b) <=> On(Reserved(th[t]), b)
        /\ Holds(q, b) <=> On(Reserved(q), b)
        /\ Present(b)' <=> Present(b)
    BY ONLY <2>1, ListIs
  <2>3. QED
    BY <2>2
<1>4. bo[b].reserved = t /\ OnLru(b) => On(Reserved(th[t]), b)
  BY <1>1 DEF Reservation
<1>5. Reservation(b)'
  BY <1>1, <1>2, <1>3, <1>4, ReservationSame
<1>6. QED
  BY <1>1, <1>2, <1>5 DEF Carried

\* A buffer that is unreserved; if it has been taken off the lists it returns.
LEMMA GivenBack ==
  ASSUME IInv, NEW t \in Threads, NEW q \in ThreadRecord, th' = [th EXCEPT ![t] = q],
         th[t].pc \in Plain, q.pc \in Plain, UNCHANGED ddestroy,
         NEW b \in Buffers, LruType', 
         bo'[b].kref = bo[b].kref, bo'[b].handle = bo[b].handle,
         bo'[b].cpu_writers = bo[b].cpu_writers, bo'[b].mem = bo[b].mem,
         bo'[b].list_kref = bo[b].list_kref + Linked(b)' - Linked(b),
         bo'[b].freed = bo[b].freed, bo'[b].reserved = NoOne,
         On(Reserved(th[t]), b), ~On(Reserved(q), b)
  PROVE  Carried(b)
<1>1. /\ Reservation(b) /\ Linked(b) \in Nat /\ bo[b].list_kref \in Nat
      /\ bo[b].kref > 0 /\ bo[b].kref \in Nat
      /\ (bo[b].freed <=> bo[b].list_kref = 0) /\ LruType
  BY BufferIs, ThreadIs, HoldersAre
<1>2. /\ th'[t] = q /\ Others(t) /\ (Present(b)' <=> Present(b))
      /\ Holds(th[t], b) /\ ~Holds(q, b)
  BY ListIs
<1>3. Reservation(b)'
  BY <1>1, <1>2, ReservationDropped
<1>4. Alive(b) /\ Present(b) /\ Linked(b)' \in Nat
  BY <1>1, LinkSteps DEF Alive, Present
<1>5. bo[b].list_kref > Linked(b)
  <2>1. bo[b].list_kref >= Linked(b) + (IF On(ddestroy, b) THEN 1 ELSE 0)
              + (IF Alive(b) THEN 1 ELSE 0) + (IF At(th[t], Helping, b) THEN 1 ELSE 0)
              + (IF th[t].next = b THEN 1 ELSE 0)
              + (IF At(th[t], {"memtype"}, b) THEN th[t].put ELSE 0)
    BY BufferIs
  <2>2. ~At(th[t], {"memtype"}, b)
    BY DEF At, Plain
  <2>3. QED
    BY <1>1, <1>4, <2>1, <2>2
<1>6. bo'[b].freed <=> bo'[b].list_kref = 0
  BY <1>1, <1>4, <1>5
<1>7. QED
  BY <1>1, <1>3, <1>4, <1>6 DEF Carried

\* The buffers a thread has reserved, and those it has taken off the lists.
LEMMA MineIs ==
  ASSUME IInv, NEW t \in Threads
  PROVE  /\ Mine(t) \in Seq(Buffers) /\ Mine(t) = Reserved(th[t])
         /\ \A b \in Buffers : On(Mine(t), b) =>
              /\ bo[b].reserved = t /\ bo[b].kref > 0 /\ Alive(b) /\ Present(b)
              /\ bo[b].mem \in MemTypes /\ On(th[t].list, b)
              /\ th[t].pc # "scan" \/ b \in th[t].removed => ~OnLru(b)
<1>1. Mine(t) \in Seq(Buffers) /\ Mine(t) = Reserved(th[t])
  BY ThreadIs, ReservedIs DEF Mine, Reserved
<1>2. ASSUME NEW b \in Buffers, On(Reserved(th[t]), b)
      PROVE  /\ bo[b].reserved = t /\ bo[b].kref > 0 /\ Alive(b) /\ Present(b)
             /\ bo[b].mem \in MemTypes /\ On(th[t].list, b)
             /\ th[t].pc # "scan" \/ b \in th[t].removed => ~OnLru(b)
  <2>1. Reservation(b) /\ Life(b) /\ t # NoOne
    BY BufferIs
  <2>2. bo[b].kref > 0 /\ On(th[t].list, b)
    BY <1>2, HoldersAre
  <2>3. bo[b].reserved = t
    BY <1>2, <2>1 DEF Reservation, Holds
  <2>4. Alive(b) /\ Present(b)
    BY <2>2 DEF Alive, Present
  <2>5. bo[b].mem \in MemTypes
    <3>1. bo[b].mem \in MemTypes \cup {"none"}
      BY ThreadIs DEF BoRecord
    <3>2. QED
      BY <2>1, <2>4, <3>1 DEF Life
  <2>6. th[t].pc # "scan" \/ b \in th[t].removed => ~OnLru(b)
    BY <2>1, <2>3 DEF Reservation
  <2>7. QED
    BY <2>2, <2>3, <2>4, <2>5, <2>6
<1>3. QED
  BY <1>1, <1>2

\* All that a back-off uses of f.
SameRecord(f, b) ==
  /\ f[b].kref = bo[b].kref /\ f[b].handle = bo[b].handle
  /\ f[b].cpu_writers = bo[b].cpu_writers /\ f[b].mem = bo[b].mem
  /\ f[b].sync = bo[b].sync /\ f[b].list_kref = bo[b].list_kref
  /\ f[b].freed = bo[b].freed /\ f[b].reserved = bo[b].reserved

\* A back-off unreserves the thread's buffers and puts back those it took off.
LEMMA BackoffLockedInv ==
  ASSUME IInv, NEW t \in Threads,
         th[t].pc \in {"scan", "busywait", "againwait", "cpuwait", "backoff"},
         NEW f \in [Buffers -> LooseRecord], \A b \in Buffers : SameRecord(f, b),
         NEW label \in {"againwait", "cpuwait", "unref"}, NEW x \in Buffers \cup {NoOne},
         label # "unref" => th[t].pc = "scan",
         BackoffLocked(t, f), BackedOff(t, label, x),
         lru_lock \in {t, NoOne}, lru_lock' = NoOne,
         UNCHANGED <<ddestroy, wq, val_seq, max_gmr_ids>>
  PROVE  IInv'
<1>1. /\ th[t] \in ThreadRecord /\ Controlled(t, th[t], lru_lock)
      /\ th[t].list \in Seq(Buffers) /\ LruType /\ t # NoOne
  BY ThreadIs
<1>2. PICK m \in Seq(Buffers) : m = Mine(t) /\ m = Reserved(th[t])
  BY MineIs
<1>3. PICK back \in Seq(Buffers) :
        /\ back = Kept(m, th[t].removed)
        /\ \A b \in Buffers : On(back, b) <=> On(m, b) /\ b \in th[t].removed
  BY KeptIs
<1>4. /\ bo' = [b \in Buffers |->
                  IF On(back, b) THEN [Unreserve(f[b]) EXCEPT !.list_kref = @ + 2]
                  ELSE IF On(m, b) THEN Unreserve(f[b]) ELSE f[b]]
      /\ lru' = AddToLru(lru, f, back)
  BY <1>2, <1>3, Zenon DEF BackoffLocked
<1> DEFINE q == [th[t] EXCEPT !.pc = label, !.obj = x, !.removed = {}, !.pos = 1]
<1>5. th' = [th EXCEPT ![t] = q]
  BY ThreadIs DEF BackedOff
<1>6. q \in ThreadRecord
  <2>1. label \in Labels
    BY DEF Labels
  <2>2. QED
    BY <1>1, <2>1 DEF ThreadRecord
<1>7. /\ q.pc = label /\ q.list = th[t].list /\ q.pos = 1
      /\ q.next = th[t].next /\ q.removed = {}
  BY <1>1 DEF ThreadRecord
<1> HIDE DEF q
<1>8. \A b : ~On(Reserved(q), b)
  <2>1. q.pos \in 1 .. Len(q.list) + 1
    BY <1>1, <1>7, LenProperties
  <2>2. QED
    BY <1>6, <1>7, <2>1, ReservedIs
<1>9. Controlled(t, q, lru_lock')
  <2>1. 1 \in 1 .. Len(th[t].list) + 1
    BY <1>1, LenProperties
  <2>2. th[t].next = NoOne
    BY <1>1 DEF Controlled, In, Helping
  <2>3. q.pc # "unref" => t \in Validators
    BY <1>1, <1>7 DEF Controlled, In, Locking
  <2>4. QED
    BY <1>1, <1>7, <2>1, <2>2, <2>3 DEF Controlled, In, Helping, Submitting, Grabbing, Locking
<1>10. /\ LruType'
       /\ \A b \in Buffers :
            /\ ~On(back, b) => SameLinks(b)
            /\ On(back, b) /\ ~OnLru(b) /\ f[b].mem \in MemTypes => Linked(b)' = 2
  BY <1>1, <1>4, PutBack
<1>11. th[t].pc \in Plain /\ q.pc \in Plain
  BY <1>7 DEF Plain
<1>12. ASSUME NEW b \in Buffers PROVE bo'[b] \in LooseRecord /\ Carried(b)
  <2>1. /\ f[b] \in LooseRecord /\ Linked(b) \in Nat /\ bo[b].list_kref \in Nat
        /\ (OnLru(b) <=> Linked(b) > 0)
    BY BufferIs
  <2>2. /\ f[b].kref = bo[b].kref /\ f[b].handle = bo[b].handle
        /\ f[b].cpu_writers = bo[b].cpu_writers /\ f[b].mem = bo[b].mem
        /\ f[b].sync = bo[b].sync /\ f[b].list_kref = bo[b].list_kref
        /\ f[b].freed = bo[b].freed /\ f[b].reserved = bo[b].reserved
    BY DEF SameRecord
  <2>3. PICK a \in LooseRecord :
          /\ a = Unreserve(f[b])
          /\ a.kref = f[b].kref /\ a.handle = f[b].handle /\ a.freed = f[b].freed
          /\ a.list_kref = f[b].list_kref /\ a.cpu_writers = f[b].cpu_writers
          /\ a.reserved = NoOne /\ a.sync = f[b].sync /\ a.mem = f[b].mem
    BY <2>1, UnreserveIs
  <2>4. CASE On(m, b)
    <3>1. /\ bo'[b] \in LooseRecord
          /\ bo'[b].kref = bo[b].kref /\ bo'[b].handle = bo[b].handle
          /\ bo'[b].cpu_writers = bo[b].cpu_writers /\ bo'[b].mem = bo[b].mem
          /\ bo'[b].list_kref = bo[b].list_kref + Linked(b)' - Linked(b)
          /\ bo'[b].freed = bo[b].freed /\ bo'[b].reserved = NoOne
      <4>1. CASE b \in th[t].removed
        <5>1. On(back, b) /\ ~OnLru(b) /\ f[b].mem \in MemTypes
          BY <1>2, <1>3, <2>2, <2>4, <4>1, MineIs
        <5>2. Linked(b)' = 2 /\ Linked(b) = 0
          BY <1>10, <2>1, <5>1
        <5>3. PICK n \in Int : n = a.list_kref + 2
          BY <2>1, <2>2, <2>3
        <5>4. bo'[b] = WithCount(a, n)
          BY <1>4, <2>3, <5>1, <5>3 DEF WithCount, LooseRecord
        <5>5. /\ WithCount(a, n) \in LooseRecord
              /\ WithCount(a, n).kref = a.kref /\ WithCount(a, n).handle = a.handle
              /\ WithCount(a, n).freed = a.freed /\ WithCount(a, n).list_kref = n
              /\ WithCount(a, n).cpu_writers = a.cpu_writers
              /\ WithCount(a, n).reserved = a.reserved /\ WithCount(a, n).mem = a.mem
          BY DEF WithCount, LooseRecord
        <5>6. QED
          BY <2>1, <2>2, <2>3, <5>2, <5>3, <5>4, <5>5
      <4>2. CASE b \notin th[t].removed
        <5>1. ~On(back, b)
          BY <1>3, <4>2
        <5>2. Linked(b)' = Linked(b)
          BY <1>1, <1>10, <5>1, LinkSteps
        <5>3. bo'[b] = a
          BY <1>4, <2>3, <2>4, <5>1
        <5>4. QED
          BY <2>1, <2>2, <2>3, <5>2, <5>3
      <4>3. QED
        BY <4>1, <4>2
    <3>2. Carried(b)
      <4>1. /\ IInv /\ t \in Threads /\ q \in ThreadRecord /\ th' = [th EXCEPT ![t] = q]
            /\ th[t].pc \in Plain /\ q.pc \in Plain /\ UNCHANGED ddestroy
            /\ b \in Buffers /\ LruType'
            /\ On(Reserved(th[t]), b) /\ ~On(Reserved(q), b)
        BY <1>2, <1>5, <1>6, <1>8, <1>10, <1>11, <2>4
      <4>2. QED
        BY ONLY <3>1, <4>1, GivenBack
    <3>3. QED
      BY <3>1, <3>2
  <2>5. CASE ~On(m, b)
    <3>1. ~On(back, b)
      BY <1>3, <2>5
    <3>2. bo'[b] = f[b] /\ SameLinks(b)
      BY <1>4, <1>10, <2>5, <3>1
    <3>3. ~(OnLru(b) /\ bo[b].reserved = t)
      <4>1. Reservation(b) /\ t # NoOne
        BY BufferIs
      <4>2. QED
        BY <1>2, <2>5, <4>1 DEF Reservation
    <3>4. /\ IInv /\ t \in Threads /\ q \in ThreadRecord /\ th' = [th EXCEPT ![t] = q]
          /\ th[t].pc \in Plain /\ q.pc \in Plain /\ UNCHANGED ddestroy
          /\ b \in Buffers /\ LruType' /\ SameLinks(b)
          /\ bo'[b].kref = bo[b].kref /\ bo'[b].handle = bo[b].handle
          /\ bo'[b].cpu_writers = bo[b].cpu_writers /\ bo'[b].mem = bo[b].mem
          /\ bo'[b].sync = bo[b].sync /\ bo'[b].list_kref = bo[b].list_kref
          /\ bo'[b].freed = bo[b].freed /\ bo'[b].reserved = bo[b].reserved
          /\ On(Reserved(q), b) <=> On(Reserved(th[t]), b)
          /\ OnLru(b) /\ bo[b].reserved = t => q.pc = "scan" /\ b \notin q.removed
      BY <1>2, <1>5, <1>6, <1>8, <1>10, <1>11, <2>2, <2>5, <3>2, <3>3
    <3>5. Carried(b)
      BY ONLY <3>4, LeftAlone
    <3>6. QED
      BY <2>1, <3>2, <3>5
  <2>6. QED
    BY <2>4, <2>5
<1>13. bo' \in [Buffers -> LooseRecord]
  BY <1>4, <1>12
<1>14. /\ IInv /\ t \in Threads /\ q \in ThreadRecord /\ th' = [th EXCEPT ![t] = q]
       /\ th[t].pc \in Plain /\ q.pc \in Plain
       /\ q.list = th[t].list /\ q.next = th[t].next
       /\ bo' \in [Buffers -> LooseRecord] /\ LruType'
       /\ UNCHANGED <<ddestroy, wq, val_seq, max_gmr_ids>>
       /\ lru_lock' \in Validators \cup {NoOne}
       /\ lru_lock' = lru_lock \/ (lru_lock \in {t, NoOne} /\ lru_lock' \in {t, NoOne})
       /\ Controlled(t, q, lru_lock')
  BY <1>5, <1>6, <1>7, <1>9, <1>10, <1>11, <1>13
<1>15. \A b \in Buffers : Carried(b)
  BY <1>12
<1>16. QED
  BY ONLY <1>14, <1>15, ListStep

\* The next entry of the list that is being reserved.
LEMMA NextEntryIs ==
  ASSUME IInv, NEW t \in Threads, Scanning(t), th[t].pos <= Len(th[t].list)
  PROVE  /\ Entry(t) \in Buffers /\ On(th[t].list, Entry(t))
         /\ th[t].pc = "scan" /\ lru_lock = t /\ ~On(Reserved(th[t]), Entry(t))
         /\ th[t].pos + 1 \in 1 .. Len(th[t].list) + 1 /\ th[t].pos \in Nat
<1>1. /\ th[t] \in ThreadRecord /\ Controlled(t, th[t], lru_lock)
      /\ th[t].list \in Seq(Buffers) /\ th[t].pos \in 1 .. Len(th[t].list) + 1
      /\ th[t].pc = "scan" /\ lru_lock = t
  BY ThreadIs DEF Scanning
<1>2. Len(th[t].list) \in Nat
  BY <1>1, LenProperties
<1>3. th[t].pos \in 1 .. Len(th[t].list) /\ th[t].pos + 1 \in 1 .. Len(th[t].list) + 1
  BY <1>1, <1>2
<1>4. Entry(t) \in Buffers /\ On(th[t].list, Entry(t))
  BY <1>1, <1>3, OnIs DEF Entry
<1>5. ~On(Reserved(th[t]), Entry(t))
  <2>1. SUFFICES ASSUME NEW i \in 1 .. th[t].pos - 1, th[t].list[i] = th[t].list[th[t].pos]
                 PROVE  FALSE
    BY <1>1, ReservedIs DEF Entry
  <2>2. i \in DOMAIN th[t].list /\ th[t].pos \in DOMAIN th[t].list /\ i # th[t].pos
    <3>1. DOMAIN th[t].list = 1 .. Len(th[t].list)
      BY <1>1, LenProperties
    <3>2. i \in 1 .. Len(th[t].list) /\ i # th[t].pos
      BY <1>2, <1>3
    <3>3. QED
      BY <1>3, <3>1, <3>2
  <2>3. IsInjective(th[t].list)
    BY <1>1 DEF Controlled
  <2>4. QED
    BY <2>1, <2>2, <2>3 DEF IsInjective
<1>6. QED
  BY <1>1, <1>3, <1>4, <1>5

\* The steps that back off.
LEMMA EuBackoffInv ==
  ASSUME IInv, NEW t \in Threads, UNCHANGED max_gmr_ids,
         EuCpuBusy(t) \/ EuBackoff(t) \/ EuInterrupted(t) \/ Backoff(t)
  PROVE  IInv'
<1>1. bo \in [Buffers -> LooseRecord] /\ \A b \in Buffers : SameRecord(bo, b)
  BY ThreadIs DEF SameRecord
<1>2. CASE EuCpuBusy(t)
  <2>1. /\ Scanning(t) /\ th[t].pos <= Len(th[t].list) /\ lru_lock' = NoOne
        /\ UNCHANGED <<ddestroy, wq, val_seq>>
        /\ BackoffLocked(t, [bo EXCEPT ![Entry(t)] = Sequenced(t, Entry(t))])
        /\ BackedOff(t, "cpuwait", Entry(t))
    BY <1>2 DEF EuCpuBusy
  <2>2. /\ Entry(t) \in Buffers /\ th[t].pc = "scan" /\ lru_lock = t
    BY <2>1, NextEntryIs
  <2>3. PICK e \in Buffers : e = Entry(t)
    BY <2>2
  <2>4. bo[e] \in LooseRecord /\ th[t].seq \in 0 .. Wrap - 1
    BY <1>1, ThreadIs DEF ThreadRecord
  <2>5. PICK a \in LooseRecord :
          /\ a = Sequenced(t, e)
          /\ a.kref = bo[e].kref /\ a.handle = bo[e].handle /\ a.freed = bo[e].freed
          /\ a.list_kref = bo[e].list_kref /\ a.cpu_writers = bo[e].cpu_writers
          /\ a.reserved = bo[e].reserved /\ a.sync = bo[e].sync /\ a.mem = bo[e].mem
    <3>1. PICK c \in LooseRecord, n \in 0 .. Wrap - 1 : c = bo[e] /\ n = th[t].seq
      BY <2>4
    <3> DEFINE r == [c EXCEPT !.val_seq = n, !.seq_valid = TRUE]
    <3>2. r \in LooseRecord
      BY DEF LooseRecord
    <3>3. /\ r.kref = c.kref /\ r.handle = c.handle /\ r.freed = c.freed
          /\ r.list_kref = c.list_kref /\ r.cpu_writers = c.cpu_writers
          /\ r.reserved = c.reserved /\ r.sync = c.sync /\ r.mem = c.mem
      BY DEF LooseRecord
    <3>4. r = Sequenced(t, e)
      BY <3>1 DEF Sequenced
    <3> HIDE DEF r
    <3>5. QED
      BY <3>1, <3>2, <3>3, <3>4
  <2>6. PICK f : f = [bo EXCEPT ![e] = a]
    OBVIOUS
  <2>7. f \in [Buffers -> LooseRecord] /\ \A b \in Buffers : SameRecord(f, b)
    BY <1>1, <2>5, <2>6 DEF SameRecord
  <2>8. BackoffLocked(t, f)
    BY <2>1, <2>3, <2>5, <2>6
  <2>9. Entry(t) \in Buffers \cup {NoOne} /\ "cpuwait" \in {"againwait", "cpuwait", "unref"}
    BY <2>2
  <2>10. QED
    BY <2>1, <2>2, <2>7, <2>8, <2>9, BackoffLockedInv
<1>3. CASE EuBackoff(t)
  <2>1. /\ Scanning(t) /\ th[t].pos <= Len(th[t].list) /\ lru_lock' = NoOne
        /\ UNCHANGED <<ddestroy, wq, val_seq>>
        /\ BackoffLocked(t, bo) /\ BackedOff(t, "againwait", Entry(t))
    BY <1>3 DEF EuBackoff
  <2>2. Entry(t) \in Buffers /\ th[t].pc = "scan" /\ lru_lock = t
    BY <2>1, NextEntryIs
  <2>3. Entry(t) \in Buffers \cup {NoOne} /\ "againwait" \in {"againwait", "cpuwait", "unref"}
    BY <2>2
  <2>4. QED
    BY <1>1, <2>1, <2>2, <2>3, BackoffLockedInv
<1>4. CASE EuInterrupted(t) \/ Backoff(t)
  <2>1. /\ th[t].pc \in {"busywait", "againwait", "cpuwait", "backoff"}
        /\ lru_lock = NoOne /\ lru_lock' = NoOne
        /\ UNCHANGED <<ddestroy, wq, val_seq>>
        /\ BackoffLocked(t, bo) /\ BackedOff(t, "unref", NoOne)
    BY <1>4 DEF EuInterrupted, Backoff, Unlocked
  <2>2. /\ th[t].pc \in {"scan", "busywait", "againwait", "cpuwait", "backoff"}
        /\ NoOne \in Buffers \cup {NoOne} /\ "unref" \in {"againwait", "cpuwait", "unref"}
        /\ lru_lock \in {t, NoOne}
    BY <2>1
  <2>3. QED
    BY <1>1, <2>1, <2>2, BackoffLockedInv
<1>5. QED
  BY <1>2, <1>3, <1>4

\* ttm_eu_del_from_lru_locked takes the reserved buffers off the lists.
LEMMA RemoveLockedInv ==
  ASSUME IInv, NEW t \in Threads, EuBusy(t) \/ EuDone(t), UNCHANGED max_gmr_ids
  PROVE  IInv'
<1>1. /\ th[t] \in ThreadRecord /\ Controlled(t, th[t], lru_lock)
      /\ th[t].list \in Seq(Buffers) /\ LruType /\ t # NoOne
      /\ bo \in [Buffers -> LooseRecord]
  BY ThreadIs
<1>2. /\ th[t].pc = "scan" /\ lru_lock = t /\ lru_lock' = NoOne
      /\ RemoveLocked(t) /\ UNCHANGED <<ddestroy, wq, val_seq, max_gmr_ids>>
  BY DEF EuBusy, EuDone, Scanning
<1>3. PICK m \in Seq(Buffers) : m = Mine(t) /\ m = Reserved(th[t])
  BY MineIs
<1>4. PICK S \in SUBSET Buffers :
        S = ToSet(m) \ th[t].removed /\ \A b \in Buffers : b \in S <=> On(m, b) /\ b \notin th[t].removed
  <2>1. \A b : b \in ToSet(m) <=> On(m, b)
    BY DEF ToSet, On
  <2>2. ToSet(m) \ th[t].removed \in SUBSET Buffers
    BY <2>1, OnIs
  <2>3. \A b \in Buffers : b \in ToSet(m) \ th[t].removed <=> On(m, b) /\ b \notin th[t].removed
    BY <2>1
  <2>4. QED
    BY ONLY <2>2, <2>3
<1>5. /\ lru' = DelFromLru(S)
      /\ bo' = [b \in Buffers |-> IF b \in S THEN ListPut(bo[b], Linked(b)) ELSE bo[b]]
  BY <1>2, <1>3, <1>4 DEF RemoveLocked
<1>6. PICK q \in ThreadRecord :
        /\ th' = [th EXCEPT ![t] = q] /\ q.list = th[t].list /\ q.pos = th[t].pos
        /\ q.next = th[t].next /\ q.removed = ToSet(m)
        /\ q.pc \in {"busywait", "validate"}
        /\ q.pc = "validate" => q.pos = Len(q.list) + 1
  <2>0. ToSet(m) \in SUBSET Buffers
    <3>1. \A b : b \in ToSet(m) <=> On(m, b)
      BY DEF ToSet, On
    <3>2. QED
      BY <3>1, OnIs
  <2>1. CASE EuBusy(t)
    <3>1. Entry(t) \in Buffers /\ th' = [th EXCEPT ![t].pc = "busywait", ![t].obj = Entry(t),
                                                   ![t].removed = ToSet(m)]
      BY <1>3, <2>1, NextEntryIs DEF EuBusy
    <3>2. PICK e \in Buffers : e = Entry(t)
      BY <3>1
    <3> DEFINE q == [th[t] EXCEPT !.pc = "busywait", !.obj = e, !.removed = ToSet(m)]
    <3>3. th' = [th EXCEPT ![t] = q]
      BY <3>1, <3>2, ThreadIs
    <3>4. "busywait" \in Labels
      BY DEF Labels
    <3>5. q \in ThreadRecord
      BY <1>1, <2>0, <3>4 DEF ThreadRecord
    <3>6. /\ q.list = th[t].list /\ q.pos = th[t].pos /\ q.next = th[t].next
          /\ q.removed = ToSet(m) /\ q.pc = "busywait"
      BY <1>1 DEF ThreadRecord
    <3> HIDE DEF q
    <3>7. QED
      BY <3>3, <3>5, <3>6
  <2>2. CASE EuDone(t)
    <3>1. /\ th' = [th EXCEPT ![t].pc = "validate", ![t].removed = ToSet(m), ![t].at = 1]
          /\ th[t].pos > Len(th[t].list)
      BY <1>3, <2>2 DEF EuDone
    <3> DEFINE q == [th[t] EXCEPT !.pc = "validate", !.removed = ToSet(m), !.at = 1]
    <3>2. th' = [th EXCEPT ![t] = q]
      BY <3>1, ThreadIs
    <3>3. "validate" \in Labels /\ 1 \in Nat \ {0}
      BY DEF Labels
    <3>4. q \in ThreadRecord
      BY <1>1, <2>0, <3>3 DEF ThreadRecord
    <3>5. /\ q.list = th[t].list /\ q.pos = th[t].pos /\ q.next = th[t].next
          /\ q.removed = ToSet(m) /\ q.pc = "validate"
      BY <1>1 DEF ThreadRecord
    <3>6. th[t].pos = Len(th[t].list) + 1
      BY <1>1, <3>1, LenProperties DEF Controlled
    <3> HIDE DEF q
    <3>7. QED
      BY <3>2, <3>4, <3>5, <3>6
  <2>3. QED
    BY <2>1, <2>2
<1>7. Reserved(q) = Reserved(th[t])
  BY <1>6 DEF Reserved
<1>8. Controlled(t, q, lru_lock')
  <2>1. \A b \in q.removed : On(Reserved(q), b)
    BY <1>3, <1>6, <1>7 DEF ToSet, On
  <2>2. th[t].next = NoOne /\ t \in Validators
    BY <1>1, <1>2 DEF Controlled, In, Helping, Locking
  <2>3. QED
    BY <1>1, <1>2, <1>6, <2>1, <2>2 DEF Controlled, In, Helping, Submitting, Grabbing, Locking
<1>9. /\ LruType'
      /\ \A k \in Queues, b \in Buffers : On(lru'[k], b) <=> On(lru[k], b) /\ b \notin S
  <2>1. /\ DelFromLru(S) \in [Queues -> Seq(Buffers)]
        /\ \A k \in Queues, b \in Buffers : On(DelFromLru(S)[k], b) <=> On(lru[k], b) /\ b \notin S
    BY <1>1, DelFromLruIs
  <2>2. QED
    BY <1>5, <2>1 DEF LruType
<1>10. th[t].pc \in Plain /\ q.pc \in Plain
  BY <1>2, <1>6 DEF Plain
<1>11. ASSUME NEW b \in Buffers PROVE bo'[b] \in LooseRecord /\ Carried(b)
  <2>1. /\ bo[b] \in LooseRecord /\ Linked(b) \in Nat /\ bo[b].list_kref \in Nat
        /\ Reservation(b) /\ bo[b].reserved \in Threads \cup {NoOne}
        /\ (bo[b].freed <=> bo[b].list_kref = 0)
    BY <1>1, BufferIs
  <2>2. CASE b \in S
    <3>1. PICK n \in Int : n = Linked(b)
      BY <2>1
    <3>2. bo'[b] = ListPut(bo[b], n)
      BY <1>5, <2>2, <3>1
    <3>3. PICK a \in LooseRecord : a = bo[b]
      BY <2>1
    <3>4. /\ ListPut(a, n) \in LooseRecord
          /\ ListPut(a, n).kref = a.kref /\ ListPut(a, n).handle = a.handle
          /\ ListPut(a, n).freed <=> a.list_kref = n
          /\ ListPut(a, n).list_kref = a.list_kref - n
          /\ ListPut(a, n).cpu_writers = a.cpu_writers /\ ListPut(a, n).reserved = a.reserved
          /\ ListPut(a, n).sync = a.sync /\ ListPut(a, n).mem = a.mem
      BY ListPutIs, Zenon
    <3>5. Linked(b)' = 0 /\ ~OnLru(b)'
      <4>1. Unlinked(b)
        BY <1>9, <2>2 DEF Unlinked
      <4>2. QED
        BY <1>1, <1>9, <4>1, LinkSteps
    <3>6. /\ bo'[b] \in LooseRecord
          /\ bo'[b].kref = bo[b].kref /\ bo'[b].handle = bo[b].handle
          /\ bo'[b].cpu_writers = bo[b].cpu_writers /\ bo'[b].mem = bo[b].mem
          /\ bo'[b].sync = bo[b].sync /\ bo'[b].reserved = bo[b].reserved
          /\ bo'[b].list_kref = bo[b].list_kref - n
          /\ bo'[b].freed <=> bo[b].list_kref = n
      BY <3>2, <3>3, <3>4
    <3>7. /\ th'[t] = q /\ Others(t) /\ (Present(b)' <=> Present(b))
          /\ (Holds(q, b) <=> Holds(th[t], b))
      <4>1. /\ IInv /\ t \in Threads /\ q \in ThreadRecord /\ th' = [th EXCEPT ![t] = q]
            /\ th[t].pc \in Plain /\ q.pc \in Plain /\ b \in Buffers
            /\ bo'[b].kref = bo[b].kref /\ UNCHANGED ddestroy
        BY <1>2, <1>6, <1>10, <3>6
      <4>2. /\ th'[t] = q /\ Others(t)
            /\ Holds(th[t], b) <=> On(Reserved(th[t]), b)
            /\ Holds(q, b) <=> On(Reserved(q), b)
            /\ Present(b)' <=> Present(b)
        BY ONLY <4>1, ListIs
      <4>3. QED
        BY <1>7, <4>2
    <3>8. Reservation(b)'
      BY <1>7, <2>1, <3>5, <3>6, <3>7, ReservationSame
    <3>9. Carried(b)
      BY <2>1, <3>1, <3>5, <3>6, <3>8 DEF Carried
    <3>10. QED
      BY <3>6, <3>9
  <2>3. CASE b \notin S
    <3>1. bo'[b] = bo[b] /\ SameLinks(b)
      BY <1>5, <1>9, <2>3 DEF SameLinks
    <3>2. ~(OnLru(b) /\ bo[b].reserved = t)
      BY <1>3, <1>4, <2>1, <2>3, <1>1 DEF Reservation
    <3>3. /\ IInv /\ t \in Threads /\ q \in ThreadRecord /\ th' = [th EXCEPT ![t] = q]
          /\ th[t].pc \in Plain /\ q.pc \in Plain /\ UNCHANGED ddestroy
          /\ b \in Buffers /\ LruType' /\ SameLinks(b)
          /\ bo'[b].kref = bo[b].kref /\ bo'[b].handle = bo[b].handle
          /\ bo'[b].cpu_writers = bo[b].cpu_writers /\ bo'[b].mem = bo[b].mem
          /\ bo'[b].sync = bo[b].sync /\ bo'[b].list_kref = bo[b].list_kref
          /\ bo'[b].freed = bo[b].freed /\ bo'[b].reserved = bo[b].reserved
          /\ On(Reserved(q), b) <=> On(Reserved(th[t]), b)
          /\ OnLru(b) /\ bo[b].reserved = t => q.pc = "scan" /\ b \notin q.removed
      BY <1>2, <1>6, <1>7, <1>9, <1>10, <3>1, <3>2
    <3>4. Carried(b)
      BY ONLY <3>3, LeftAlone
    <3>5. QED
      BY <2>1, <3>1, <3>4
  <2>4. QED
    BY <2>2, <2>3
<1>12. bo' \in [Buffers -> LooseRecord]
  BY <1>5, <1>11
<1>13. /\ IInv /\ t \in Threads /\ q \in ThreadRecord /\ th' = [th EXCEPT ![t] = q]
       /\ th[t].pc \in Plain /\ q.pc \in Plain
       /\ q.list = th[t].list /\ q.next = th[t].next
       /\ bo' \in [Buffers -> LooseRecord] /\ LruType'
       /\ UNCHANGED <<ddestroy, wq, val_seq, max_gmr_ids>>
       /\ lru_lock' \in Validators \cup {NoOne}
       /\ lru_lock' = lru_lock \/ (lru_lock \in {t, NoOne} /\ lru_lock' \in {t, NoOne})
       /\ Controlled(t, q, lru_lock')
  BY <1>2, <1>6, <1>8, <1>9, <1>10, <1>12
<1>14. \A b \in Buffers : Carried(b)
  BY <1>11
<1>15. QED
  BY ONLY <1>13, <1>14, ListStep

\* The next buffer of the list is reserved.
LEMMA EuReserveInv ==
  ASSUME IInv, NEW t \in Threads, EuReserve(t), UNCHANGED max_gmr_ids
  PROVE  IInv'
<1>1. /\ Scanning(t) /\ th[t].pos <= Len(th[t].list)
      /\ bo[Entry(t)].reserved = NoOne /\ bo[Entry(t)].cpu_writers = 0
      /\ bo' = [bo EXCEPT ![Entry(t)] = [Sequenced(t, Entry(t)) EXCEPT !.reserved = t]]
      /\ th' = [th EXCEPT ![t].pos = @ + 1]
      /\ UNCHANGED <<lru, ddestroy, wq, val_seq, lru_lock, max_gmr_ids>>
  BY DEF EuReserve
<1>2. PICK e \in Buffers : e = Entry(t)
  BY <1>1, NextEntryIs
<1>3. /\ On(th[t].list, e) /\ th[t].pc = "scan" /\ lru_lock = t /\ ~On(Reserved(th[t]), e)
      /\ th[t].pos + 1 \in 1 .. Len(th[t].list) + 1 /\ th[t].pos \in Nat
  BY <1>1, <1>2, NextEntryIs
<1>4. /\ th[t] \in ThreadRecord /\ Controlled(t, th[t], lru_lock)
      /\ th[t].list \in Seq(Buffers) /\ LruType /\ t # NoOne
      /\ bo \in [Buffers -> LooseRecord] /\ th[t].pos \in 1 .. Len(th[t].list) + 1
  BY ThreadIs
<1>5. PICK n \in Nat : n = th[t].pos + 1
  BY <1>3
<1> DEFINE q == [th[t] EXCEPT !.pos = n]
<1>6. th' = [th EXCEPT ![t] = q]
  BY <1>1, <1>5, ThreadIs
<1>7. q \in ThreadRecord
  BY <1>4 DEF ThreadRecord
<1>8. /\ q.pc = "scan" /\ q.list = th[t].list /\ q.pos = n
      /\ q.next = th[t].next /\ q.removed = th[t].removed
  BY <1>3, <1>4 DEF ThreadRecord
<1> HIDE DEF q
<1>9. \A b : On(Reserved(q), b) <=> On(Reserved(th[t]), b) \/ b = e
  <2>1. \A b : On(Reserved(th[t]), b) <=> \E i \in 1 .. th[t].pos - 1 : th[t].list[i] = b
    BY <1>4, ReservedIs
  <2>2. \A b : On(Reserved(q), b) <=> \E i \in 1 .. n - 1 : th[t].list[i] = b
    <3>1. q.pos \in 1 .. Len(q.list) + 1
      BY <1>3, <1>5, <1>8
    <3>2. \A b : On(Reserved(q), b) <=> \E i \in 1 .. q.pos - 1 : q.list[i] = b
      BY <1>7, <3>1, ReservedIs
    <3>3. QED
      BY <1>8, <3>2
  <2>3. th[t].list[th[t].pos] = e /\ n - 1 = th[t].pos /\ th[t].pos \in Nat /\ th[t].pos >= 1
    BY <1>2, <1>4, <1>5 DEF Entry
  <2>4. \A i : i \in 1 .. n - 1 <=> i \in 1 .. th[t].pos - 1 \/ i = th[t].pos
    BY <2>3
  <2>5. QED
    BY <2>1, <2>2, <2>3, <2>4
<1>10. Controlled(t, q, lru_lock')
  <2>1. th[t].next = NoOne /\ t \in Validators
    BY <1>3, <1>4 DEF Controlled, In, Helping, Locking
  <2>2. \A b \in q.removed : On(Reserved(q), b)
    BY <1>4, <1>8, <1>9 DEF Controlled
  <2>3. QED
    BY <1>1, <1>3, <1>4, <1>5, <1>8, <2>1, <2>2
       DEF Controlled, In, Helping, Submitting, Grabbing, Locking
<1>11. PICK r \in LooseRecord :
         /\ bo' = [bo EXCEPT ![e] = r]
         /\ r.kref = bo[e].kref /\ r.handle = bo[e].handle /\ r.freed = bo[e].freed
         /\ r.list_kref = bo[e].list_kref /\ r.cpu_writers = bo[e].cpu_writers
         /\ r.reserved = t /\ r.sync = bo[e].sync /\ r.mem = bo[e].mem
  <2>1. bo[e] \in LooseRecord /\ th[t].seq \in 0 .. Wrap - 1
    BY <1>4 DEF ThreadRecord
  <2>2. PICK c \in LooseRecord, s \in 0 .. Wrap - 1 : c = bo[e] /\ s = th[t].seq
    BY <2>1
  <2>3. t \in Threads \cup {NoOne}
    OBVIOUS
  <2> DEFINE d == [c EXCEPT !.val_seq = s, !.seq_valid = TRUE]
             r == [d EXCEPT !.reserved = t]
  <2>4. /\ d \in LooseRecord
        /\ d.kref = c.kref /\ d.handle = c.handle /\ d.freed = c.freed
        /\ d.list_kref = c.list_kref /\ d.cpu_writers = c.cpu_writers
        /\ d.sync = c.sync /\ d.mem = c.mem
    BY DEF LooseRecord
  <2>5. d = Sequenced(t, e)
    BY <2>2 DEF Sequenced
  <2> HIDE DEF d
  <2>6. /\ r \in LooseRecord
        /\ r.kref = d.kref /\ r.handle = d.handle /\ r.freed = d.freed
        /\ r.list_kref = d.list_kref /\ r.cpu_writers = d.cpu_writers
        /\ r.reserved = t /\ r.sync = d.sync /\ r.mem = d.mem
    BY <2>3, <2>4 DEF LooseRecord
  <2>7. bo' = [bo EXCEPT ![e] = r]
    BY <1>1, <1>2, <2>5
  <2> HIDE DEF r
  <2>8. QED
    BY <2>2, <2>4, <2>6, <2>7
<1>12. /\ bo' \in [Buffers -> LooseRecord] /\ bo'[e] = r
       /\ \A b \in Buffers \ {e} : bo'[b] = bo[b]
  BY <1>4, <1>11
<1>13. LruType' /\ \A b \in Buffers : SameLinks(b)
  BY <1>1, <1>4 DEF LruType, SameLinks
<1>14. th[t].pc \in Plain /\ q.pc \in Plain
  BY <1>3, <1>8 DEF Plain
<1>15. Carried(e)
  <2>1. /\ Reservation(e) /\ Linked(e) \in Nat /\ bo[e].list_kref \in Nat
        /\ (bo[e].freed <=> bo[e].list_kref = 0)
    BY BufferIs
  <2>2. Linked(e)' = Linked(e) /\ (OnLru(e)' <=> OnLru(e))
    BY <1>4, <1>13, LinkSteps
  <2>3. th'[t] = q /\ Others(t) /\ Holds(q, e)
    <3>1. Holds(q, e)
      BY <1>9 DEF Holds
    <3>2. QED
      BY <1>6, <3>1, ThreadIs DEF Others
  <2>4. e \notin q.removed
    BY <1>3, <1>4, <1>8 DEF Controlled
  <2>5. bo[e].reserved = NoOne /\ bo'[e].reserved = t /\ bo'[e].cpu_writers = 0
    BY <1>1, <1>2, <1>11, <1>12
  <2>6. Reservation(e)'
    BY <1>8, <1>9, <2>1, <2>3, <2>4, <2>5, ReservationTaken
  <2>7. QED
    BY <1>11, <1>12, <2>1, <2>2, <2>6 DEF Carried
<1>16. ASSUME NEW b \in Buffers \ {e} PROVE Carried(b)
  <2>1. OnLru(b) /\ bo[b].reserved = t => q.pc = "scan" /\ b \notin q.removed
    <3>1. Reservation(b) /\ t # NoOne
      BY BufferIs
    <3>2. QED
      BY <1>8, <3>1 DEF Reservation
  <2>2. /\ IInv /\ t \in Threads /\ q \in ThreadRecord /\ th' = [th EXCEPT ![t] = q]
        /\ th[t].pc \in Plain /\ q.pc \in Plain /\ UNCHANGED ddestroy
        /\ b \in Buffers /\ LruType' /\ SameLinks(b)
        /\ bo'[b].kref = bo[b].kref /\ bo'[b].handle = bo[b].handle
        /\ bo'[b].cpu_writers = bo[b].cpu_writers /\ bo'[b].mem = bo[b].mem
        /\ bo'[b].sync = bo[b].sync /\ bo'[b].list_kref = bo[b].list_kref
        /\ bo'[b].freed = bo[b].freed /\ bo'[b].reserved = bo[b].reserved
        /\ On(Reserved(q), b) <=> On(Reserved(th[t]), b)
    BY <1>1, <1>6, <1>7, <1>9, <1>12, <1>13, <1>14
  <2>3. QED
    BY ONLY <2>1, <2>2, LeftAlone
<1>17. /\ IInv /\ t \in Threads /\ q \in ThreadRecord /\ th' = [th EXCEPT ![t] = q]
       /\ th[t].pc \in Plain /\ q.pc \in Plain
       /\ q.list = th[t].list /\ q.next = th[t].next
       /\ bo' \in [Buffers -> LooseRecord] /\ LruType'
       /\ UNCHANGED <<ddestroy, wq, val_seq, max_gmr_ids>>
       /\ lru_lock' \in Validators \cup {NoOne}
       /\ lru_lock' = lru_lock \/ (lru_lock \in {t, NoOne} /\ lru_lock' \in {t, NoOne})
       /\ Controlled(t, q, lru_lock')
  BY <1>1, <1>6, <1>7, <1>8, <1>10, <1>12, <1>13, <1>14 DEF IInv, TypeOK
<1>18. \A b \in Buffers : Carried(b)
  BY <1>15, <1>16
<1>19. QED
  BY ONLY <1>17, <1>18, ListStep

\* The buffers are fenced, unreserved and put back.
LEMMA FenceBuffersInv ==
  ASSUME IInv, NEW t \in Threads, FenceBuffers(t), UNCHANGED max_gmr_ids
  PROVE  IInv'
<1>1. PICK s : s = th[t].list
  OBVIOUS
<1>2. /\ th[t] \in ThreadRecord /\ Controlled(t, th[t], lru_lock)
      /\ s \in Seq(Buffers) /\ LruType /\ t # NoOne /\ bo \in [Buffers -> LooseRecord]
      /\ th[t].pos \in 1 .. Len(th[t].list) + 1
  BY <1>1, ThreadIs
<1>3. /\ th[t].pc = "validate" /\ lru_lock = NoOne /\ lru' = AddToLru(lru, bo, s)
      /\ th' = [th EXCEPT ![t].pc = "unref", ![t].obj = NoOne, ![t].removed = {}, ![t].pos = 1]
      /\ UNCHANGED <<ddestroy, wq, val_seq, lru_lock, max_gmr_ids>>
  BY <1>1, Zenon DEF FenceBuffers, Unlocked, BackedOff
<1> DEFINE Fenced(y, b) == [Unreserve(bo[b]) EXCEPT !.sync = y, !.list_kref = @ + 2]
<1>4. PICK y \in {"busy", "none"} :
        bo' = [b \in Buffers |-> IF On(s, b) THEN Fenced(y, b) ELSE bo[b]]
  BY <1>1, Zenon DEF FenceBuffers
<1> HIDE DEF Fenced
<1> DEFINE q == [th[t] EXCEPT !.pc = "unref", !.obj = NoOne, !.removed = {}, !.pos = 1]
<1>5. th' = [th EXCEPT ![t] = q]
  BY <1>3, ThreadIs
<1>6. q \in ThreadRecord
  <2>1. "unref" \in Labels
    BY DEF Labels
  <2>2. QED
    BY <1>2, <2>1 DEF ThreadRecord
<1>7. /\ q.pc = "unref" /\ q.list = s /\ q.pos = 1
      /\ q.next = th[t].next /\ q.removed = {}
  BY <1>1, <1>2 DEF ThreadRecord
<1> HIDE DEF q
<1>8. \A b : ~On(Reserved(q), b)
  <2>1. q.pos \in 1 .. Len(q.list) + 1
    BY <1>2, <1>7, LenProperties
  <2>2. QED
    BY <1>6, <1>7, <2>1, ReservedIs
<1>9. Controlled(t, q, lru_lock')
  <2>1. 1 \in 1 .. Len(s) + 1
    BY <1>2, LenProperties
  <2>2. th[t].next = NoOne
    BY <1>2, <1>3 DEF Controlled, In, Helping
  <2>3. QED
    BY <1>1, <1>2, <1>3, <1>7, <2>1, <2>2 DEF Controlled, In, Helping, Submitting, Grabbing, Locking
<1>10. \A b : On(s, b) <=> On(Reserved(th[t]), b)
  <2>1. th[t].pos = Len(th[t].list) + 1
    BY <1>2, <1>3 DEF Controlled, In, Submitting
  <2>2. QED
    BY <1>1, <1>2, <2>1, ReservedIs
<1>11. /\ LruType'
       /\ \A b \in Buffers :
            /\ ~On(s, b) => SameLinks(b)
            /\ On(s, b) /\ ~OnLru(b) /\ bo[b].mem \in MemTypes => Linked(b)' = 2
  BY <1>2, <1>3, PutBack
<1>12. th[t].pc \in Plain /\ q.pc \in Plain
  BY <1>3, <1>7 DEF Plain
<1>13. ASSUME NEW b \in Buffers PROVE bo'[b] \in LooseRecord /\ Carried(b)
  <2>1. /\ bo[b] \in LooseRecord /\ Linked(b) \in Nat /\ bo[b].list_kref \in Nat
        /\ (OnLru(b) <=> Linked(b) > 0) /\ Reservation(b)
    BY <1>2, BufferIs
  <2>2. CASE On(s, b)
    <3>1. On(Mine(t), b)
      BY <1>10, <2>2, MineIs
    <3>2. ~OnLru(b) /\ bo[b].mem \in MemTypes
      BY <1>3, <3>1, MineIs
    <3>3. Linked(b)' = 2 /\ Linked(b) = 0
      BY <1>11, <2>1, <2>2, <3>2
    <3>4. PICK a \in LooseRecord :
          /\ a = Unreserve(bo[b])
          /\ a.kref = bo[b].kref /\ a.handle = bo[b].handle /\ a.freed = bo[b].freed
          /\ a.list_kref = bo[b].list_kref /\ a.cpu_writers = bo[b].cpu_writers
          /\ a.reserved = NoOne /\ a.mem = bo[b].mem
      BY <2>1, UnreserveIs
    <3>5. PICK n \in Int : n = a.list_kref + 2
      BY <2>1, <3>4
    <3>6. bo'[b] = [a EXCEPT !.sync = y, !.list_kref = n]
      <4>1. bo'[b] = Fenced(y, b)
        BY <1>4, <2>2
      <4>2. Fenced(y, b) = [a EXCEPT !.sync = y, !.list_kref = a.list_kref + 2]
        BY <3>4 DEF Fenced, LooseRecord
      <4>3. QED
        BY <3>5, <4>1, <4>2
    <3> DEFINE r == WithCount(WithSync(a, y), n)
    <3>7. r \in LooseRecord
      <4>1. WithSync(a, y) \in LooseRecord
        BY WithIs
      <4>2. QED
        BY <4>1, WithIs
    <3>8. /\ r.kref = a.kref /\ r.handle = a.handle /\ r.freed = a.freed
          /\ r.list_kref = n /\ r.cpu_writers = a.cpu_writers
          /\ r.reserved = a.reserved /\ r.mem = a.mem
      BY DEF WithCount, WithSync, LooseRecord
    <3>9. bo'[b] = r
      BY <3>6, Zenon DEF WithCount, WithSync
    <3> HIDE DEF r
    <3>10. /\ IInv /\ t \in Threads /\ q \in ThreadRecord /\ th' = [th EXCEPT ![t] = q]
           /\ th[t].pc \in Plain /\ q.pc \in Plain /\ UNCHANGED ddestroy
           /\ b \in Buffers /\ LruType'
           /\ bo'[b].kref = bo[b].kref /\ bo'[b].handle = bo[b].handle
           /\ bo'[b].cpu_writers = bo[b].cpu_writers /\ bo'[b].mem = bo[b].mem
           /\ bo'[b].list_kref = bo[b].list_kref + Linked(b)' - Linked(b)
           /\ bo'[b].freed = bo[b].freed /\ bo'[b].reserved = NoOne
           /\ On(Reserved(th[t]), b) /\ ~On(Reserved(q), b)
      <4>1. /\ bo'[b].kref = bo[b].kref /\ bo'[b].handle = bo[b].handle
            /\ bo'[b].cpu_writers = bo[b].cpu_writers /\ bo'[b].mem = bo[b].mem
            /\ bo'[b].list_kref = bo[b].list_kref + Linked(b)' - Linked(b)
            /\ bo'[b].freed = bo[b].freed /\ bo'[b].reserved = NoOne
        BY <2>1, <3>3, <3>4, <3>5, <3>8, <3>9
      <4>2. UNCHANGED ddestroy /\ On(Reserved(th[t]), b) /\ ~On(Reserved(q), b)
        BY <1>3, <1>8, <1>10, <2>2
      <4>3. QED
        BY <1>5, <1>6, <1>11, <1>12, <4>1, <4>2
    <3>11. Carried(b)
      BY ONLY <3>10, GivenBack
    <3>12. QED
      BY <3>7, <3>9, <3>11
  <2>3. CASE ~On(s, b)
    <3>1. bo'[b] = bo[b] /\ SameLinks(b)
      BY <1>4, <1>11, <2>3
    <3>2. ~(OnLru(b) /\ bo[b].reserved = t)
      BY <1>2, <1>10, <2>1, <2>3 DEF Reservation
    <3>3. /\ IInv /\ t \in Threads /\ q \in ThreadRecord /\ th' = [th EXCEPT ![t] = q]
          /\ th[t].pc \in Plain /\ q.pc \in Plain /\ UNCHANGED ddestroy
          /\ b \in Buffers /\ LruType' /\ SameLinks(b)
          /\ bo'[b].kref = bo[b].kref /\ bo'[b].handle = bo[b].handle
          /\ bo'[b].cpu_writers = bo[b].cpu_writers /\ bo'[b].mem = bo[b].mem
          /\ bo'[b].sync = bo[b].sync /\ bo'[b].list_kref = bo[b].list_kref
          /\ bo'[b].freed = bo[b].freed /\ bo'[b].reserved = bo[b].reserved
          /\ On(Reserved(q), b) <=> On(Reserved(th[t]), b)
          /\ OnLru(b) /\ bo[b].reserved = t => q.pc = "scan" /\ b \notin q.removed
      BY <1>3, <1>5, <1>6, <1>8, <1>10, <1>11, <1>12, <2>3, <3>1, <3>2
    <3>4. Carried(b)
      BY ONLY <3>3, LeftAlone
    <3>5. QED
      BY <2>1, <3>1, <3>4
  <2>4. QED
    BY <2>2, <2>3
<1>14. bo' \in [Buffers -> LooseRecord]
  BY <1>4, <1>13
<1>15. /\ IInv /\ t \in Threads /\ q \in ThreadRecord /\ th' = [th EXCEPT ![t] = q]
       /\ th[t].pc \in Plain /\ q.pc \in Plain
       /\ q.list = th[t].list /\ q.next = th[t].next
       /\ bo' \in [Buffers -> LooseRecord] /\ LruType'
       /\ UNCHANGED <<ddestroy, wq, val_seq, max_gmr_ids>>
       /\ lru_lock' \in Validators \cup {NoOne}
       /\ lru_lock' = lru_lock \/ (lru_lock \in {t, NoOne} /\ lru_lock' \in {t, NoOne})
       /\ Controlled(t, q, lru_lock')
  BY <1>1, <1>3, <1>5, <1>6, <1>7, <1>9, <1>11, <1>12, <1>14
<1>16. \A b \in Buffers : Carried(b)
  BY <1>13
<1>17. QED
  BY ONLY <1>15, <1>16, ListStep

-----------------------------------------------------------------------------
(* The initial states. *)

\* A list that has every buffer.
LEMMA ListedIs ==
  ASSUME NEW s \in SetToSeqs(Buffers)
  PROVE  s \in Seq(Buffers) /\ \A b \in Buffers : On(s, b)
<1> DEFINE n == Cardinality(Buffers)
<1>1. n \in Nat /\ IsFiniteSet(Buffers)
  BY BoAssumption, FS_CardinalityType
<1>2. s \in [1 .. n -> Buffers] /\ \A i, j \in 1 .. n : i # j => s[i] # s[j]
  BY Zenon DEF SetToSeqs
<1>3. IsFiniteSet(1 .. n) /\ Cardinality(1 .. n) = n
  BY <1>1, FS_Interval
<1>4. s \in Injection(1 .. n, Buffers)
  <2> HIDE DEF n
  <2>1. QED
    BY <1>2 DEF Injection, IsInjective
<1>5. s \in Surjection(1 .. n, Buffers)
  BY <1>1, <1>3, <1>4, FS_Injection
<1>6. \A b \in Buffers : \E i \in 1 .. n : s[i] = b
  <2> HIDE DEF n
  <2>1. QED
    BY <1>5 DEF Surjection
<1>7. s \in Seq(Buffers) /\ DOMAIN s = 1 .. n
  <2> HIDE DEF n
  <2>1. QED
    BY <1>1, <1>2
<1>8. QED
  BY <1>6, <1>7 DEF On

\* The initial states.
LEMMA InitInv == Init => IInv
<1>1. SUFFICES ASSUME Init PROVE IInv
  OBVIOUS
<1>2. PICK s \in SetToSeqs(Buffers) : lru = [system |-> s, gmr |-> <<>>, swap |-> s]
  BY <1>1 DEF Init
<1>3. /\ ddestroy = <<>> /\ val_seq = FirstSeq /\ wq = FALSE /\ lru_lock = NoOne
      /\ max_gmr_ids \in Ids
      /\ \A t \in Threads : th[t] = NewThread
      /\ \A b \in Buffers : bo[b] = NewBo
      /\ bo = [b \in Buffers |-> NewBo] /\ th = [t \in Threads |-> NewThread]
  BY <1>1 DEF Init
<1>4. s \in Seq(Buffers) /\ \A b \in Buffers : On(s, b)
  BY ListedIs
<1>5. Wrap \in Nat /\ Wrap > 0 /\ FirstSeq \in 0 .. Wrap - 1 /\ 0 \in 0 .. Wrap - 1
  BY BoAssumption DEF FirstSeq
<1>6. NewBo \in BoRecord
  BY <1>5 DEF NewBo, BoRecord, MemTypes
<1>7. /\ NewBo.kref = 1 /\ NewBo.handle = TRUE /\ NewBo.list_kref = 3 /\ NewBo.freed = FALSE
      /\ NewBo.reserved = NoOne /\ NewBo.mem = "system" /\ NewBo.cpu_writers = 0
  BY DEF NewBo
<1>8. NewThread \in ThreadRecord
  BY <1>5, NewThreadIs
<1>9. <<>> \in Seq(Buffers) /\ Len(<<>>) = 0 /\ \A b : ~On(<<>>, b)
  <2>1. <<>> \in Seq(Buffers) /\ Len(<<>>) = 0
    OBVIOUS
  <2>2. \A b : ~On(<<>>, b)
    BY DOMAIN <<>> = {} DEF On
  <2>3. QED
    BY <2>1, <2>2
<1>10. lru["system"] = s /\ lru["gmr"] = <<>> /\ lru["swap"] = s /\ LruType
  <2>1. lru["system"] = s /\ lru["gmr"] = <<>> /\ lru["swap"] = s
    BY <1>2
  <2>2. lru = [m \in Queues |-> IF m = "gmr" THEN <<>> ELSE s]
    BY <1>2 DEF Queues
  <2>3. lru \in [Queues -> Seq(Buffers)]
    BY <1>4, <1>9, <2>2
  <2>4. QED
    BY <2>1, <2>3 DEF LruType
<1>11. TypeOK
  <2>1. bo \in [Buffers -> BoRecord] /\ th \in [Threads -> ThreadRecord]
    BY <1>3, <1>6, <1>8
  <2>2. QED
    BY <1>3, <1>5, <1>9, <1>10, <2>1 DEF TypeOK, LruType, Queues
<1>12. \A b : ~On(Reserved(NewThread), b)
  BY <1>8, <1>9, NewThreadIs, ReservedIs
<1>13. Control
  <2>1. SUFFICES ASSUME NEW t \in Threads PROVE Controlled(t, NewThread, NoOne)
    BY <1>3 DEF Control
  <2>2. IsInjective(<<>>)
    BY DEF IsInjective
  <2>3. NoOne # t
    BY BoAssumption
  <2>4. QED
    BY <1>9, <2>2, <2>3, NewThreadIs
       DEF Controlled, In, Helping, Locking, Submitting, Grabbing
<1>14. \A b \in Buffers : Sound(b)
  <2>1. SUFFICES ASSUME NEW b \in Buffers PROVE Sound(b)
    OBVIOUS
  <2>2. b # NoOne
    BY BoAssumption
  <2>3. \A t \in Threads : /\ ~On(th[t].list, b) /\ th[t].next # b
                           /\ \A S : ~At(th[t], S, b)
    BY <1>3, <1>9, <2>2, NewThreadIs DEF At
  <2>4. Users(b) = {} /\ Writers(b) = {} /\ Helpers(b) = {} /\ Nexts(b) = {} /\ ~Releasing(b)
    BY <2>3 DEF Users, Writers, Helpers, Nexts, Releasing
  <2>5. Cardinality({}) = 0
    BY FS_EmptySet
  <2>6. Counted(b)
    BY <1>3, <1>7, <2>4, <2>5 DEF Counted
  <2>7. Present(b) /\ ~On(ddestroy, b)
    BY <1>3, <1>7, <1>9 DEF Present
  <2>8. Life(b)
    BY <1>3, <1>7, <2>3, <2>4, <2>7 DEF Life
  <2>9. Reservation(b)
    BY <1>3, <1>7, <1>12, <2>3 DEF Reservation, Holds
  <2>10. Linked(b) = 2
    BY <1>4, <1>9, <1>10, <2>1, LinkedIs
  <2>11. PutIn(th, b) = 0
    <3>1. {u \in Threads : th[u].obj = b /\ th[u].pc = "memtype"} = {}
      BY <1>3, <2>2, NewThreadIs
    <3>2. QED
      BY <3>1 DEF PutIn
  <2>12. Alive(b)
    BY <1>3, <1>7 DEF Alive
  <2>13. Pointers(b) = 3
    BY <2>4, <2>5, <2>7, <2>10, <2>11, <2>12, PointersAre
  <2>14. Pointed(b)
    BY <1>3, <1>7, <2>13 DEF Pointed
  <2>15. QED
    BY <2>6, <2>8, <2>9, <2>14 DEF Sound
<1>15. QED
  BY <1>11, <1>13, <1>14 DEF IInv

-----------------------------------------------------------------------------
(* The inductive invariant. *)

\* Every step of ttm_eu_reserve_buffers.
LEMMA ReservingInv ==
  ASSUME IInv, NEW t \in Threads, Reserving(t), UNCHANGED max_gmr_ids
  PROVE  IInv'
<1>1. CASE Submit(t)
  BY <1>1, SubmitInv
<1>2. CASE EuStart(t)
  BY <1>2, EuStartInv
<1>3. CASE EuReserve(t)
  BY <1>3, EuReserveInv
<1>4. CASE EuCpuBusy(t) \/ EuBackoff(t) \/ EuInterrupted(t)
  BY <1>4, EuBackoffInv
<1>5. CASE EuBusy(t) \/ EuDone(t)
  BY <1>5, RemoveLockedInv
<1>6. CASE EuBusyDone(t)
  BY <1>6, EuBusyDoneInv
<1>7. CASE EuRetry(t)
  BY <1>7, EuRetryInv
<1>8. QED
  BY <1>1, <1>2, <1>3, <1>4, <1>5, <1>6, <1>7, Zenon DEF Reserving

\* Every step of validation, eviction and fencing.
LEMMA ValidatingInv ==
  ASSUME IInv, NEW t \in Threads, ValidatingSteps(t), UNCHANGED max_gmr_ids
  PROVE  IInv'
<1>1. CASE ValidateInPlace(t)
  BY <1>1, ValidateInPlaceInv
<1>2. CASE ValidateMove(t) \/ ValidateNoSpace(t)
  BY <1>2, ValidateMoveInv
<1>3. CASE ValidateFails(t) \/ EvictNothing(t)
  BY <1>3, GotoInv
<1>4. CASE FenceBuffers(t)
  BY <1>4, FenceBuffersInv
<1>5. CASE Backoff(t)
  BY <1>5, EuBackoffInv
<1>6. CASE EvictFirst(t)
  BY <1>6, TakeInv
<1>7. CASE EvictMove(t) \/ EvictFails(t)
  BY <1>7, EvictMoveInv
<1>8. QED
  BY <1>1, <1>2, <1>3, <1>4, <1>5, <1>6, <1>7, Zenon DEF ValidatingSteps

\* Every step of destruction, of the last user and of the work item.
LEMMA DestroyingInv ==
  ASSUME IInv, NEW t \in Threads, Destroying(t), UNCHANGED max_gmr_ids
  PROVE  IInv'
<1>1. CASE DropHandle(t)
  BY <1>1, DropHandleInv
<1>2. CASE Unref(t)
  BY <1>2, UnrefInv
<1>3. CASE UnrefDone(t)
  BY <1>3, UnrefDoneInv
<1>4. CASE ReleaseNow(t)
  BY <1>4, ReleaseNowInv
<1>5. CASE ReleaseQueue(t)
  BY <1>5, ReleaseQueueInv
<1>6. CASE CleanupMemtypeUse(t)
  BY <1>6, CleanupMemtypeUseInv
<1>7. CASE ObjPut(t)
  BY <1>7, ObjPutInv
<1>8. CASE CleanWait(t)
  BY <1>8, CleanWaitInv
<1>9. CASE CleanFails(t)
  BY <1>9, CleanFailsInv
<1>10. CASE CleanTooLate(t) \/ CleanReserve(t)
  BY <1>10, CleanReserveInv
<1>11. CASE WqRun(t)
  BY <1>11, WqRunInv
<1>12. CASE WqNext(t)
  BY <1>12, WqNextInv
<1>13. CASE WqEnd(t)
  BY <1>13, WqEndInv
<1>14. QED
  BY <1>1, <1>2, <1>3, <1>4, <1>5, <1>6, <1>7, <1>8, <1>9, <1>10, <1>11, <1>12, <1>13, Zenon
  DEF Destroying

\* Every step of a thread.
LEMMA StepsInv ==
  ASSUME IInv, NEW t \in Threads, Steps(t), UNCHANGED max_gmr_ids
  PROVE  IInv'
<1>1. CASE Reserving(t)
  BY <1>1, ReservingInv
<1>2. CASE ValidatingSteps(t)
  BY <1>2, ValidatingInv
<1>3. CASE Destroying(t)
  BY <1>3, DestroyingInv
<1>4. CASE SwapFirst(t)
  BY <1>4, TakeInv
<1>5. CASE SwapOut(t) \/ SwapTimesOut(t)
  BY <1>5, SwapOutInv
<1>6. CASE Grab(t)
  BY <1>6, GrabInv
<1>7. CASE GrabReserve(t)
  BY <1>7, GrabReserveInv
<1>8. CASE GrabBusy(t)
  BY <1>8, GrabBusyInv
<1>9. CASE GrabWait(t)
  BY <1>9, GrabWaitInv
<1>10. CASE GrabRelease(t)
  BY <1>10, GrabReleaseInv
<1>11. QED
  BY <1>1, <1>2, <1>3, <1>4, <1>5, <1>6, <1>7, <1>8, <1>9, <1>10, Zenon DEF Steps

\* A step that changes nothing.
LEMMA StutterInv == ASSUME IInv, UNCHANGED vars PROVE IInv'
<1>1. Worker \in Threads
  BY DEF Threads
<1>2. UNCHANGED <<bo, lru, ddestroy, val_seq, wq, lru_lock, th, max_gmr_ids>>
  BY DEF vars
<1>3. Others(Worker)
  BY <1>2 DEF Others
<1>4. Typed'
  BY <1>1, <1>2, ThreadIs DEF IInv, TypeOK, Typed, LruType
<1>5. Controlled(Worker, th'[Worker], lru_lock')
  BY <1>1, <1>2, ThreadIs
<1>6. \A b \in Buffers : /\ SameBuffer(b) /\ SameLinks(b)
                         /\ SameView(th[Worker], th'[Worker], b)
  BY <1>2 DEF SameBuffer, SameLinks, SameView
<1>7. \A b \in Buffers : At(th'[Worker], {"cleanreserve"}, b) => bo'[b].sync = "none"
  BY <1>1, <1>2 DEF IInv, Sound, Life
<1>8. QED
  BY <1>1, <1>2, <1>3, <1>4, <1>5, <1>6, <1>7, QuietStep

\* The invariant is inductive.
LEMMA NextInv == IInv /\ [Next]_vars => IInv'
<1>1. SUFFICES ASSUME IInv, [Next]_vars PROVE IInv'
  OBVIOUS
<1>2. CASE \E t \in Threads : Steps(t) /\ UNCHANGED max_gmr_ids
  BY <1>1, <1>2, StepsInv
<1>3. CASE \E b \in Buffers : Signal(b) /\ UNCHANGED max_gmr_ids
  BY <1>1, <1>3, SignalInv
<1>4. CASE UNCHANGED vars
  BY <1>1, <1>4, StutterInv
<1>5. QED
  BY <1>1, <1>2, <1>3, <1>4, Zenon DEF Next

\* The invariant of every state: the types, where each thread can be, and for
\* each buffer the counts of its references, its stage of life, who holds its
\* reservation and what its list_kref counts.
THEOREM Invariant == Spec => []IInv
<1>1. IInv /\ [Next]_vars => IInv'
  BY NextInv
<1>2. QED
  BY <1>1, InitInv, PTL DEF Spec

\* Every variable stays in its type; in particular kref, list_kref and
\* cpu_writers never go below zero, however the threads' puts interleave.
THEOREM TypeCorrect == Spec => []TypeOK
<1>1. IInv => TypeOK
  BY DEF IInv
<1>2. QED
  BY <1>1, Invariant, PTL

\* list_kref counts what points to a buffer (ttm_bo_ref_bug, ttm_bo_release_list):
\* lists, helpers, the worker and the last user free it once, and not too early.
THEOREM ListKrefIsCorrect == Spec => []ListKrefCounts
<1>1. IInv => ListKrefCounts
  BY DEF IInv, Sound, Pointed, ListKrefCounts
<1>2. QED
  BY <1>1, Invariant, PTL

\* A freed buffer is on no list and has no user, writer, sync object or memory:
\* the BUG_ONs of ttm_bo_release_list do not fire.
THEOREM FreedStaysQuiet == Spec => []FreedIsQuiet
<1>1. IInv => FreedIsQuiet
  <2>1. SUFFICES ASSUME IInv, NEW b \in Buffers, bo[b].freed
                 PROVE  /\ bo[b].kref = 0 /\ bo[b].cpu_writers = 0 /\ bo[b].sync = "none"
                        /\ bo[b].mem = "none" /\ ~OnLru(b) /\ ~On(ddestroy, b)
    BY DEF FreedIsQuiet
  <2>2. /\ Counted(b) /\ Life(b) /\ Reservation(b) /\ Pointed(b) /\ LruType
        /\ bo[b].kref \in Nat /\ \A t \in Threads : th[t].put \in Nat
    BY <2>1, ThreadIs, BoAssumption DEF IInv, Sound, TypeOK, BoRecord, Threads
  <2>3. ASSUME NEW t \in Threads
        PROVE  /\ ~OnLru(b) /\ ~On(ddestroy, b) /\ ~Alive(b)
               /\ ~At(th[t], Helping, b)
    <3>1. /\ bo[b].list_kref = 0
          /\ bo[b].list_kref >= Linked(b) + (IF On(ddestroy, b) THEN 1 ELSE 0)
               + (IF Alive(b) THEN 1 ELSE 0) + (IF At(th[t], Helping, b) THEN 1 ELSE 0)
               + (IF th[t].next = b THEN 1 ELSE 0)
               + (IF At(th[t], {"memtype"}, b) THEN th[t].put ELSE 0)
      BY <2>1, <2>2, PointedIs
    <3>2. Linked(b) \in Nat /\ (Linked(b) = 0 => ~OnLru(b))
      BY <2>2, LinkedIs
    <3>3. QED
      BY <2>2, <3>1, <3>2
  <2>4. Worker \in Threads
    BY DEF Threads
  <2>5. ~OnLru(b) /\ ~On(ddestroy, b) /\ ~Alive(b)
    BY <2>3, <2>4
  <2>6. bo[b].kref = 0 /\ ~Present(b)
    BY <2>2, <2>5 DEF Alive, Present
  <2>7. bo[b].sync = "none" /\ bo[b].mem = "none"
    <3>1. \A t \in Threads : ~At(th[t], {"memtype"}, b)
      BY <2>3 DEF At, Helping
    <3>2. QED
      BY <2>2, <2>6, <3>1 DEF Life
  <2>8. bo[b].cpu_writers = 0
    <3>1. Users(b) = {}
      <4>1. Users(b) \in SUBSET Threads
        BY DEF Users
      <4>2. \A t \in Threads : t \in Users(b) => Cardinality(Users(b)) > 0
        BY <4>1, Counting
      <4>3. Cardinality(Users(b)) \in Nat
        BY <2>4, <4>1, Counting
      <4>4. ~(Cardinality(Users(b)) > 0)
        BY <2>2, <2>6, <4>3 DEF Counted
      <4>5. QED
        BY <4>1, <4>2, <4>4
    <3>2. ASSUME NEW t \in Threads, At(th[t], {"cpu"}, b) PROVE FALSE
      <4>1. th[t].list = <<b>>
        BY <2>1, <3>2, ThreadIs DEF Controlled, Grabbing, At
      <4>2. On(th[t].list, b)
        BY <4>1 DEF On
      <4>3. QED
        BY <3>1, <4>2 DEF Users
    <3>3. Writers(b) = {}
      BY <3>2 DEF Writers
    <3>4. QED
      BY <2>2, <3>3, FS_EmptySet DEF Counted
  <2>9. QED
    BY <2>5, <2>6, <2>7, <2>8
<1>2. QED
  BY <1>1, Invariant, PTL

\* A buffer in use or awaiting destruction is reserved only by a thread that
\* works on it: nobody's path through reservation, eviction, swapping or
\* destruction leaves it reserved for good.
THEOREM ReservationIsHeld == Spec => []ReservationHeld
<1>1. IInv => ReservationHeld
  <2>1. SUFFICES ASSUME IInv, NEW b \in Buffers, bo[b].reserved # NoOne,
                        bo[b].kref > 0 \/ On(ddestroy, b)
                 PROVE  Works(bo[b].reserved, b)
    BY DEF ReservationHeld
  <2>2. PICK t \in Threads : bo[b].reserved = t
    BY <2>1 DEF IInv, TypeOK, BoRecord
  <2>3. Holds(th[t], b)
    BY <2>1, <2>2 DEF IInv, Sound, Reservation, Present
  <2>4. CASE At(th[t], {"evicting", "swapping", "memtype", "grabwait"}, b)
    BY <2>2, <2>4 DEF Works, At
  <2>5. CASE On(Reserved(th[t]), b)
    <3>1. th[t].pc # "unref"
      <4>1. /\ th[t] \in ThreadRecord /\ th[t].pos \in 1 .. Len(th[t].list) + 1
            /\ Controlled(t, th[t], lru_lock)
        BY <2>1, ThreadIs
      <4>2. th[t].pos # 1
        BY <2>5, <4>1, ReservedIs
      <4>3. QED
        BY <4>1, <4>2 DEF Controlled, In
    <3>2. QED
      BY <2>2, <2>5, <3>1 DEF Works, Mine, Reserved
  <2>6. QED
    BY <2>3, <2>4, <2>5 DEF Holds
<1>2. QED
  BY <1>1, Invariant, PTL

\* "Upon successful reservation they are removed from the lru list": whenever
\* lru_lock is free a reserved buffer is on no lru list.
THEOREM ReservedAreOffLru == Spec => []ReservedOffLru
<1>1. IInv => ReservedOffLru
  <2>1. SUFFICES ASSUME IInv, Unlocked, NEW b \in Buffers, bo[b].reserved # NoOne, OnLru(b)
                 PROVE  FALSE
    BY DEF ReservedOffLru
  <2>2. PICK t \in Threads : bo[b].reserved = t
    BY <2>1 DEF IInv, TypeOK, BoRecord
  <2>3. th[t].pc = "scan"
    BY <2>1, <2>2 DEF IInv, Sound, Reservation
  <2>4. lru_lock = t /\ t # NoOne
    BY <2>1, <2>3, ThreadIs DEF Controlled
  <2>5. QED
    BY <2>1, <2>4 DEF Unlocked
<1>2. QED
  BY <1>1, Invariant, PTL

-----------------------------------------------------------------------------
(* What steps do to the memory and the sync object of a buffer. *)

\* The memory stays and the device does not become busy with the buffer.
Calm(b) == bo'[b].mem = bo[b].mem /\ (bo'[b].sync = "busy" => bo[b].sync = "busy")

\* The memory or the sync object changes as MemoryIsIdle and NoCpuWriterOfFenced
\* allow it.
Allowed(b) ==
  /\ bo'[b].mem # bo[b].mem => bo[b].sync # "busy"
  /\ bo'[b].sync = "busy" /\ bo[b].sync # "busy" => bo[b].cpu_writers = 0

\* A back-off gives buffers back as they are.
LEMMA BackoffLockedCalm ==
  ASSUME NEW b \in Buffers, bo \in [Buffers -> LooseRecord], NEW t,
         NEW f, f[b].mem = bo[b].mem, f[b].sync = bo[b].sync,
         DOMAIN f[b] = DOMAIN bo[b], BackoffLocked(t, f)
  PROVE  Calm(b)
<1>1. PICK x, y : /\ x = Unreserve(f[b]) /\ y = [x EXCEPT !.list_kref = @ + 2]
                  /\ bo'[b] \in {x, y, f[b]}
  <2>1. PICK back, mine :
          bo' = [c \in Buffers |->
                   IF On(back, c) THEN [Unreserve(f[c]) EXCEPT !.list_kref = @ + 2]
                   ELSE IF On(mine, c) THEN Unreserve(f[c]) ELSE f[c]]
    BY Zenon DEF BackoffLocked
  <2>2. bo'[b] = IF On(back, b) THEN [Unreserve(f[b]) EXCEPT !.list_kref = @ + 2]
                 ELSE IF On(mine, b) THEN Unreserve(f[b]) ELSE f[b]
    BY <2>1, Zenon
  <2>3. QED
    BY <2>2, Zenon
<1>2. "mem" \in DOMAIN bo[b] /\ "sync" \in DOMAIN bo[b]
  BY DEF LooseRecord
<1>3. x.mem = f[b].mem /\ x.sync = f[b].sync /\ DOMAIN x = DOMAIN f[b]
  BY <1>1, <1>2 DEF Unreserve
<1>4. y.mem = x.mem /\ y.sync = x.sync
  BY <1>1, <1>2, <1>3
<1>5. QED
  BY <1>1, <1>3, <1>4 DEF Calm

\* Reserving, backing off and taking buffers off the lists.
LEMMA CalmReserving ==
  ASSUME NEW b \in Buffers, bo \in [Buffers -> LooseRecord], NEW t, Reserving(t)
  PROVE  Calm(b)
<1>1. CASE EuStart(t) \/ EuBusyDone(t) \/ EuRetry(t)
  BY <1>1 DEF EuStart, EuBusyDone, EuRetry, Calm
<1>2. CASE Submit(t)
  <2>1. PICK s \in Lists :
          bo' = [c \in Buffers |-> IF On(s, c) THEN [bo[c] EXCEPT !.kref = @ + 1] ELSE bo[c]]
    BY <1>2, Zenon DEF Submit
  <2>2. QED
    BY <2>1 DEF Calm, LooseRecord
<1>3. CASE EuReserve(t)
  BY <1>3 DEF EuReserve, Sequenced, Calm, LooseRecord
<1>4. ASSUME NEW f, f[b].mem = bo[b].mem, f[b].sync = bo[b].sync,
             DOMAIN f[b] = DOMAIN bo[b], BackoffLocked(t, f)
      PROVE  Calm(b)
  BY <1>4, BackoffLockedCalm
<1>5. CASE EuCpuBusy(t)
  <2>1. PICK f : /\ f = [bo EXCEPT ![Entry(t)] = Sequenced(t, Entry(t))]
                 /\ BackoffLocked(t, f)
    BY <1>5, Zenon DEF EuCpuBusy
  <2>2. f[b].mem = bo[b].mem /\ f[b].sync = bo[b].sync /\ DOMAIN f[b] = DOMAIN bo[b]
    BY <2>1 DEF Sequenced, LooseRecord
  <2>3. QED
    BY <1>4, <2>1, <2>2
<1>6. CASE EuBackoff(t) \/ EuInterrupted(t)
  BY <1>4, <1>6 DEF EuBackoff, EuInterrupted
<1>7. CASE EuBusy(t) \/ EuDone(t)
  <2>1. PICK S :
          bo' = [c \in Buffers |-> IF c \in S THEN ListPut(bo[c], Linked(c)) ELSE bo[c]]
    BY <1>7, Zenon DEF EuBusy, EuDone, RemoveLocked
  <2>2. PICK n : n = Linked(b) /\ bo'[b] \in {ListPut(bo[b], n), bo[b]}
    BY <2>1
  <2>3. QED
    BY <2>2 DEF ListPut, Calm, LooseRecord
<1>8. QED
  BY <1>1, <1>2, <1>3, <1>5, <1>6, <1>7 DEF Reserving

\* Validation that moves nothing, and its failures.
LEMMA CalmBackoff ==
  ASSUME NEW b \in Buffers, bo \in [Buffers -> LooseRecord], NEW t,
         \/ ValidateInPlace(t) \/ ValidateNoSpace(t) \/ ValidateFails(t)
         \/ Backoff(t) \/ EvictNothing(t) \/ EvictFails(t)
  PROVE  Calm(b)
<1>1. CASE ValidateInPlace(t) \/ ValidateFails(t) \/ EvictNothing(t)
  BY <1>1 DEF ValidateInPlace, ValidateFails, EvictNothing, Calm
<1>2. CASE ValidateNoSpace(t)
  BY <1>2 DEF ValidateNoSpace, Calm, LooseRecord
<1>3. CASE Backoff(t)
  BY <1>3, BackoffLockedCalm DEF Backoff
<1>4. CASE EvictFails(t)
  BY <1>4 DEF EvictFails, Unreserve, Calm, LooseRecord
<1>5. QED
  BY <1>1, <1>2, <1>3, <1>4

\* Taking a buffer from an lru list, and a swap-out that times out.
LEMMA CalmTake ==
  ASSUME NEW b \in Buffers, bo \in [Buffers -> LooseRecord], NEW t,
         \/ EvictFirst(t) \/ SwapFirst(t) \/ SwapTimesOut(t)
  PROVE  Calm(b)
<1>1. ASSUME NEW o, NEW ret, Dying(t, o, ret) PROVE Calm(b)
  BY <1>1 DEF Dying, ListGet, Calm, LooseRecord
<1>2. ASSUME NEW o, NEW label, NEW ret, Pick(t, o, label, ret) PROVE Calm(b)
  BY <1>2 DEF Pick, Reserve, Calm, LooseRecord
<1>3. CASE SwapTimesOut(t)
  BY <1>3 DEF SwapTimesOut, Unreserve, Calm, LooseRecord
<1>4. QED
  BY <1>1, <1>2, <1>3, Zenon DEF EvictFirst, SwapFirst

\* Writers that synchronise a buffer for the CPU.
LEMMA CalmGrab ==
  ASSUME NEW b \in Buffers, bo \in [Buffers -> LooseRecord], NEW t,
         Grab(t) \/ GrabReserve(t) \/ GrabBusy(t) \/ GrabWait(t) \/ GrabRelease(t)
  PROVE  Calm(b)
<1>1. CASE Grab(t)
  <2>1. PICK o \in Buffers : bo' = [bo EXCEPT ![o].kref = @ + 1]
    BY <1>1, Zenon DEF Grab
  <2>2. QED
    BY <2>1 DEF Calm, LooseRecord
<1>2. CASE GrabReserve(t)
  BY <1>2 DEF GrabReserve, Reserve, ListPut, Calm, LooseRecord
<1>3. CASE GrabBusy(t)
  BY <1>3 DEF GrabBusy, Calm
<1>4. CASE GrabWait(t)
  <2>1. PICK o, x, y : /\ o = th[t].obj /\ x = [Unreserve(bo[o]) EXCEPT !.list_kref = @ + 2]
                       /\ y = [x EXCEPT !.sync = "none", !.cpu_writers = @ + 1]
                       /\ bo' = [bo EXCEPT ![o] = y] \/ bo' = [bo EXCEPT ![o] = x]
    BY <1>4, Zenon DEF GrabWait
  <2>2. CASE b = o
    <3>1. x.mem = bo[b].mem /\ x.sync = bo[b].sync /\ DOMAIN x = DOMAIN bo[b]
      BY <2>1, <2>2 DEF Unreserve, LooseRecord
    <3>2. y.mem = x.mem /\ y.sync = "none"
      BY <2>1, <2>2, <3>1 DEF LooseRecord
    <3>3. bo'[b] \in {x, y}
      BY <2>1, <2>2
    <3>4. QED
      BY <3>1, <3>2, <3>3 DEF Calm
  <2>3. CASE b # o
    BY <2>1, <2>3 DEF Calm
  <2>4. QED
    BY <2>2, <2>3
<1>5. CASE GrabRelease(t)
  BY <1>5 DEF GrabRelease, Calm, LooseRecord
<1>6. QED
  BY <1>1, <1>2, <1>3, <1>4, <1>5

\* Dropping references.
LEMMA CalmRelease ==
  ASSUME NEW b \in Buffers, bo \in [Buffers -> LooseRecord], NEW t,
         \/ DropHandle(t) \/ Unref(t) \/ UnrefDone(t) \/ ReleaseNow(t) \/ ReleaseQueue(t)
         \/ ObjPut(t)
  PROVE  Calm(b)
<1>1. CASE DropHandle(t)
  BY <1>1 DEF DropHandle, Calm, LooseRecord
<1>2. CASE Unref(t)
  BY <1>2 DEF Unref, Calm, LooseRecord
<1>3. CASE UnrefDone(t)
  BY <1>3 DEF UnrefDone, Calm
<1>4. CASE ReleaseNow(t)
  BY <1>4 DEF ReleaseNow, Reserve, Calm, LooseRecord
<1>5. CASE ReleaseQueue(t)
  BY <1>5 DEF ReleaseQueue, ListGet, Calm, LooseRecord
<1>6. CASE ObjPut(t)
  BY <1>6 DEF ObjPut, ListPut, Calm, LooseRecord
<1>7. QED
  BY <1>1, <1>2, <1>3, <1>4, <1>5, <1>6

\* Delayed destruction up to the memory, and the work item.
LEMMA CalmClean ==
  ASSUME NEW b \in Buffers, bo \in [Buffers -> LooseRecord], NEW t,
         \/ CleanWait(t) \/ CleanFails(t) \/ CleanTooLate(t) \/ CleanReserve(t)
         \/ WqRun(t) \/ WqNext(t) \/ WqEnd(t)
  PROVE  Calm(b)
<1>1. CASE CleanWait(t)
  BY <1>1 DEF CleanWait, Calm, LooseRecord
<1>2. CASE CleanFails(t)
  BY <1>2 DEF CleanFails, Calm
<1>3. CASE CleanTooLate(t) \/ CleanReserve(t)
  <2>1. PICK o : o = th[t].obj /\ bo' = [bo EXCEPT ![o] = Reserve(@, t)]
    BY <1>3, Zenon DEF CleanTooLate, CleanReserve
  <2>2. QED
    BY <2>1 DEF Reserve, Calm, LooseRecord
<1>4. ASSUME NEW o, NEW f, f[b].mem = bo[b].mem, f[b].sync = bo[b].sync,
             DOMAIN f[b] = DOMAIN bo[b], WqEntry(t, o, f)
      PROVE  Calm(b)
  BY <1>4 DEF WqEntry, ListGet, Calm, LooseRecord
<1>5. CASE WqRun(t)
  <2>1. CASE UNCHANGED bo
    BY <2>1 DEF Calm
  <2>2. CASE bo' # bo
    <3>1. PICK f : /\ f = [bo EXCEPT ![Head(ddestroy)] = ListGet(@)]
                   /\ WqEntry(t, Head(ddestroy), f)
      BY <1>5, <2>2, Zenon DEF WqRun
    <3>2. f[b].mem = bo[b].mem /\ f[b].sync = bo[b].sync /\ DOMAIN f[b] = DOMAIN bo[b]
      BY <3>1 DEF ListGet, LooseRecord
    <3>3. QED
      BY <1>4, <3>1, <3>2
  <2>3. QED
    BY <2>1, <2>2
<1>6. CASE WqNext(t)
  BY <1>4, <1>6, Zenon DEF WqNext
<1>7. CASE WqEnd(t)
  <2>1. PICK o : bo' = [c \in Buffers |-> IF c = o THEN ListPut(bo[c], 1) ELSE bo[c]]
    BY <1>7, Zenon DEF WqEnd
  <2>2. bo'[b] \in {ListPut(bo[b], 1), bo[b]}
    BY <2>1
  <2>3. QED
    BY <2>2 DEF ListPut, Calm, LooseRecord
<1>8. QED
  BY <1>1, <1>2, <1>3, <1>5, <1>6, <1>7

\* The steps that move memory wait first; the one that fences has kept writers out.
LEMMA AllowedStep ==
  ASSUME IInv, NEW b \in Buffers, NEW t \in Threads, Steps(t)
  PROVE  Allowed(b)
<1>1. bo \in [Buffers -> LooseRecord] /\ bo[b].cpu_writers \in Nat
  BY ThreadIs DEF IInv, TypeOK, BoRecord
<1>2. ASSUME Calm(b) PROVE Allowed(b)
  BY <1>2 DEF Calm, Allowed
<1>3. CASE ValidateMove(t)
  <2>1. PICK o : Idle(o) /\ bo' = [bo EXCEPT ![o] = [@ EXCEPT !.sync = "none", !.mem = "gmr"]]
    BY <1>3, Zenon DEF ValidateMove
  <2>2. QED
    BY <1>1, <2>1 DEF Idle, Allowed, LooseRecord
<1>4. CASE EvictMove(t)
  <2>1. PICK o, x : /\ Idle(o) /\ bo' = [bo EXCEPT ![o] = x]
                    /\ x = [Unreserve(bo[o]) EXCEPT !.sync = "none", !.mem = "system",
                                                    !.list_kref = @ + 2]
    BY <1>4, Zenon DEF EvictMove
  <2>2. b = o => bo'[b].sync = "none"
    BY <1>1, <2>1 DEF Unreserve, LooseRecord
  <2>3. b # o => bo'[b] = bo[b]
    BY <2>1
  <2>4. QED
    BY <2>1, <2>2, <2>3 DEF Idle, Allowed
<1>5. CASE SwapOut(t)
  <2>1. PICK o, m : /\ Idle(o)
                    /\ bo' = [bo EXCEPT ![o] = [Unreserve(@) EXCEPT !.sync = "none", !.mem = m]]
    BY <1>5, Zenon DEF SwapOut
  <2>2. QED
    BY <1>1, <2>1 DEF Idle, Allowed, Unreserve, LooseRecord
<1>6. CASE CleanupMemtypeUse(t)
  <2>1. PICK o, n, x : /\ o = th[t].obj /\ n = th[t].put /\ th[t].pc = "memtype"
                       /\ x = [Unreserve(bo[o]) EXCEPT !.mem = "none"]
                       /\ bo' = [bo EXCEPT ![o] = ListPut(x, n)]
    BY <1>6, Zenon DEF CleanupMemtypeUse
  <2>2. CASE b = o
    <3>1. bo[b].sync = "none"
      BY <2>1, <2>2 DEF IInv, Sound, Life, At
    <3>2. x.sync = bo[b].sync /\ "sync" \in DOMAIN x
      BY <1>1, <2>1, <2>2 DEF Unreserve, LooseRecord
    <3>3. bo'[b] = ListPut(x, n)
      BY <1>1, <2>1, <2>2
    <3>4. bo'[b].sync = "none"
      BY <3>1, <3>2, <3>3 DEF ListPut
    <3>5. QED
      BY <3>1, <3>4 DEF Allowed
  <2>3. CASE b # o
    BY <2>1, <2>3 DEF Allowed
  <2>4. QED
    BY <2>2, <2>3
<1>7. CASE FenceBuffers(t)
  <2>1. PICK s, sync :
          /\ s = th[t].list /\ th[t].pc = "validate"
          /\ bo' = [c \in Buffers |->
                      IF On(s, c)
                        THEN [Unreserve(bo[c]) EXCEPT !.sync = sync, !.list_kref = @ + 2]
                        ELSE bo[c]]
    BY <1>7, Zenon DEF FenceBuffers
  <2>2. CASE On(s, b)
    <3>1. /\ th[t] \in ThreadRecord /\ Controlled(t, th[t], lru_lock)
          /\ th[t].pos \in 1 .. Len(th[t].list) + 1
          /\ th[t].pc = "validate" /\ On(th[t].list, b)
      BY <2>1, <2>2, ThreadIs, Zenon
    <3>2. On(Reserved(th[t]), b)
      <4>1. th[t].pos = Len(th[t].list) + 1
        BY <3>1 DEF Controlled, In, Submitting
      <4>2. QED
        BY <3>1, <4>1, ReservedIs
    <3>3. bo[b].cpu_writers = 0
      BY <3>2 DEF IInv, Sound, Reservation
    <3>4. PICK x : /\ x = [Unreserve(bo[b]) EXCEPT !.sync = sync, !.list_kref = @ + 2]
                   /\ bo'[b] = x
      BY <2>1, <2>2, Zenon
    <3>5. bo'[b].mem = bo[b].mem
      BY <1>1, <3>4 DEF Unreserve, LooseRecord
    <3>6. QED
      BY <3>3, <3>5 DEF Allowed
  <2>3. CASE ~On(s, b)
    <3>1. bo'[b] = bo[b]
      BY <2>1, <2>3, Zenon
    <3>2. QED
      BY <3>1 DEF Allowed
  <2>4. QED
    BY <2>2, <2>3
<1>8. CASE Reserving(t)
  BY <1>1, <1>2, <1>8, CalmReserving
<1>9. CASE \/ ValidateInPlace(t) \/ ValidateNoSpace(t) \/ ValidateFails(t)
           \/ Backoff(t) \/ EvictNothing(t) \/ EvictFails(t)
  BY <1>1, <1>2, <1>9, CalmBackoff
<1>10. CASE EvictFirst(t) \/ SwapFirst(t) \/ SwapTimesOut(t)
  BY <1>1, <1>2, <1>10, CalmTake
<1>11. CASE Grab(t) \/ GrabReserve(t) \/ GrabBusy(t) \/ GrabWait(t) \/ GrabRelease(t)
  BY <1>1, <1>2, <1>11, CalmGrab
<1>12. CASE \/ DropHandle(t) \/ Unref(t) \/ UnrefDone(t) \/ ReleaseNow(t) \/ ReleaseQueue(t)
            \/ ObjPut(t)
  BY <1>1, <1>2, <1>12, CalmRelease
<1>13. CASE \/ CleanWait(t) \/ CleanFails(t) \/ CleanTooLate(t) \/ CleanReserve(t)
            \/ WqRun(t) \/ WqNext(t) \/ WqEnd(t)
  BY <1>1, <1>2, <1>13, CalmClean
<1>14. QED
  BY <1>3, <1>4, <1>5, <1>6, <1>7, <1>8, <1>9, <1>10, <1>11, <1>12, <1>13, Zenon
  DEF Steps, ValidatingSteps, Destroying

\* Every step.
LEMMA AllowedNext ==
  ASSUME IInv, [Next]_vars, NEW b \in Buffers
  PROVE  Allowed(b)
<1>1. CASE \E t \in Threads : Steps(t)
  BY <1>1, AllowedStep
<1>2. CASE \E o \in Buffers : Signal(o)
  <2>1. PICK o \in Buffers : bo' = [bo EXCEPT ![o].sync = "signaled"]
    BY <1>2, Zenon DEF Signal
  <2>2. bo \in [Buffers -> BoRecord]
    BY DEF IInv, TypeOK
  <2>3. bo'[b].mem = bo[b].mem /\ (bo'[b].sync = "busy" => bo[b].sync = "busy")
    BY <2>1, <2>2 DEF BoRecord
  <2>4. QED
    BY <2>3 DEF Allowed
<1>3. CASE UNCHANGED vars
  BY <1>3 DEF vars, Allowed
<1>4. QED
  BY <1>1, <1>2, <1>3, Zenon DEF Next

\* A buffer's memory changes only when the device is done with it: whoever moves
\* or frees it has waited with the reservation in hand, and no submission has
\* fenced it in between.
THEOREM MovesWait == Spec => MemoryIsIdle
<1> DEFINE Waits == \A b \in Buffers : bo'[b].mem # bo[b].mem => bo[b].sync # "busy"
<1>1. IInv /\ [Next]_vars => Waits
  BY AllowedNext DEF Allowed
<1>2. IInv /\ [Next]_vars => [Waits]_vars
  BY <1>1
<1>3. QED
  BY <1>2, Invariant, PTL DEF Spec, MemoryIsIdle

\* The device becomes busy only with buffers that no CPU writes to: a writer that
\* comes after the check in ttm_eu_reserve_buffers waits for the reservation.
THEOREM FencedHaveNoWriter == Spec => NoCpuWriterOfFenced
<1> DEFINE Excluded ==
      \A b \in Buffers : bo'[b].sync = "busy" /\ bo[b].sync # "busy" => bo[b].cpu_writers = 0
<1>1. IInv /\ [Next]_vars => Excluded
  BY AllowedNext DEF Allowed
<1>2. IInv /\ [Next]_vars => [Excluded]_vars
  BY <1>1
<1>3. QED
  BY <1>2, Invariant, PTL DEF Spec, NoCpuWriterOfFenced
=============================================================================
