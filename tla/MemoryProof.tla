------------------------------ MODULE MemoryProof ------------------------------
(***************************************************************************)
(* Proofs about the zones and pages of MCMemory (TtmMemory), its mappings  *)
(* (TtmVm) and its ranges (DrmMm), for any number of buffers, threads,     *)
(* mappings, users and pages.                                              *)
(*                                                                         *)
(* A thread that has reserved a buffer is the only one to change its       *)
(* pages, and whoever swaps a buffer out finds it on the lru list, where   *)
(* no reserved buffer is.  So what a thread knows of its buffer (Working)  *)
(* stays true while it waits for memory, and every page is charged once.   *)
(*                                                                         *)
(* A mapping shows a buffer where it is (Mapping), and whoever moves the   *)
(* buffer has unmapped it first and keeps faults out until it is placed    *)
(* (Copied); what is reserved for mappings is where the buffer is now.     *)
(*                                                                         *)
(* Whoever gets or frees a block of a range replaces some adjacent nodes   *)
(* by one, or one by two, that take the same room (Replaced, Halved), and  *)
(* keeps the free stack in step; so the blocks of the others stay.         *)
(***************************************************************************)
EXTENDS MCMemory, FiniteSetTheorems, SequenceTheorems, TLAPS

\* The emergency limit is the higher one (ttm_mem_init_kernel_zone,
\* ttm_mem_zone_store).
Memory ==
  /\ IsFiniteSet(Tbufs) /\ Nobody \notin Clients
  /\ TtmPages \in Nat /\ Retries \in Nat
  /\ MaxMem \in Nat /\ EmerMem \in Nat /\ MaxMem <= EmerMem

Pages == {"low", "high"}

TtmType ==
  [live : BOOLEAN, reserved : Clients \cup {Nobody}, lru : BOOLEAN,
   state : {"unpopulated", "bound", "unbound"}, pages : Seq(Pages), swapped : BOOLEAN,
   content : {"none", "pages", "file", "lost"}]

WorkType ==
  [pc : {"idle", "pages", "charge", "shrink", "unreserve"}, buf : Tbufs \cup {Nobody},
   upto : 0 .. TtmPages, page : Pages \cup {"none"}, tries : Nat, whole : BOOLEAN]

MemTypeOK ==
  /\ zone \in [used : [Zones -> Int], queued : BOOLEAN]
  /\ tbuf \in [Tbufs -> TtmType]
  /\ client \in [Clients -> WorkType]

\* A zone counts its pages.
Accounted ==
  \A z \in Zones : zone.used[z] = Cardinality(PagesIn(z)) /\ zone.used[z] <= EmerMem + 1

\* A ttm has all of its pages or is unpopulated, and one that is swapped has
\* pages only while somebody swaps it in.
Whole(x) ==
  /\ Len(x.pages) <= TtmPages
  /\ x.state # "unpopulated" => Len(x.pages) = TtmPages /\ ~x.swapped
  /\ ~x.live => x.pages = <<>>
  /\ x.reserved # Nobody => x.live /\ ~x.lru
  /\ x.swapped /\ x.pages # <<>> => x.reserved # Nobody

\* A thread at work w has its buffer, whose ttm is x, and looks for a page only
\* if one is missing.
Working(t, w, x) ==
  /\ x.reserved = t
  /\ w.pc \in {"charge", "shrink"} => Len(x.pages) < TtmPages /\ w.page # "none"
  /\ w.pc = "unreserve" /\ x.swapped => x.pages = <<>>
  /\ w.whole => w.upto = TtmPages

IInv ==
  /\ MemTypeOK /\ Accounted
  /\ \A b \in Tbufs : Whole(tbuf[b])
  /\ \A t \in Clients : client[t].pc # "idle" =>
       client[t].buf \in Tbufs /\ Working(t, client[t], tbuf[client[t].buf])

-----------------------------------------------------------------------------
(* Pages. *)

\* There are finitely many pages in a zone.
LEMMA PagesFinite ==
  ASSUME Memory, NEW z
  PROVE  IsFiniteSet(PagesIn(z)) /\ Cardinality(PagesIn(z)) \in Nat
<1>1. IsFiniteSet(1 .. TtmPages) /\ IsFiniteSet(Tbufs)
  BY FS_Interval DEF Memory
<1>2. IsFiniteSet(Tbufs \X (1 .. TtmPages))
  BY <1>1, FS_Product
<1>3. PagesIn(z) \subseteq Tbufs \X (1 .. TtmPages)
  BY DEF PagesIn
<1>4. QED
  BY <1>2, <1>3, FS_Subset, FS_CardinalityType

\* What is charged for the pages of a ttm.
LEMMA ChargeFinite ==
  ASSUME NEW s \in Seq(Pages), NEW z
  PROVE  ChargeOf(s, z) \in Nat
<1>1. IsFiniteSet(1 .. Len(s)) /\ DOMAIN s = 1 .. Len(s)
  BY FS_Interval
<1>2. {i \in DOMAIN s : z \in ZonesOf(s[i])} \subseteq 1 .. Len(s)
  BY <1>1
<1>3. IsFiniteSet({i \in DOMAIN s : z \in ZonesOf(s[i])})
  BY <1>1, <1>2, FS_Subset
<1>4. QED
  BY <1>3, FS_CardinalityType DEF ChargeOf

\* A buffer b is changed and no other one is.
Only(b) == \A c \in Tbufs : c # b => tbuf'[c].pages = tbuf[c].pages

\* A page more counts in its zones.
LEMMA PageAdded ==
  ASSUME Memory, MemTypeOK, NEW b \in Tbufs, NEW page \in Pages,
         Len(tbuf[b].pages) < TtmPages, tbuf'[b].pages = Append(tbuf[b].pages, page), Only(b),
         NEW z \in Zones
  PROVE  Cardinality(PagesIn(z)') =
           Cardinality(PagesIn(z)) + (IF z \in ZonesOf(page) THEN 1 ELSE 0)
<1>1. PICK s \in Seq(Pages) : s = tbuf[b].pages
  BY DEF MemTypeOK, TtmType
<1>2. PICK n \in 1 .. TtmPages : n = Len(s) + 1
  BY <1>1 DEF Memory
<1>3. Len(Append(s, page)) = n /\ Append(s, page)[n] = page
      /\ \A i \in 1 .. TtmPages : i <= Len(s) => Append(s, page)[i] = s[i]
  BY <1>1, <1>2
<1>4. <<b, n>> \in Tbufs \X (1 .. TtmPages) /\ <<b, n>> \notin PagesIn(z)
  BY <1>1, <1>2 DEF PagesIn
<1>5. PICK Q : Q = Tbufs \X (1 .. TtmPages)
  OBVIOUS
<1>6. ASSUME NEW p \in Q
      PROVE  p \in PagesIn(z)' <=> p \in PagesIn(z) \/ (z \in ZonesOf(page) /\ p = <<b, n>>)
  <2>1. /\ p = <<p[1], p[2]>> /\ p[1] \in Tbufs /\ p[2] \in 1 .. TtmPages
        /\ p \in Tbufs \X (1 .. TtmPages) /\ (p = <<b, n>> <=> p[1] = b /\ p[2] = n)
    BY <1>5
  <2>2. p \in PagesIn(z)' <=>
          p[2] <= Len(tbuf'[p[1]].pages) /\ z \in ZonesOf(tbuf'[p[1]].pages[p[2]])
    BY <2>1 DEF PagesIn
  <2>3. p \in PagesIn(z) <=>
          p[2] <= Len(tbuf[p[1]].pages) /\ z \in ZonesOf(tbuf[p[1]].pages[p[2]])
    BY <2>1 DEF PagesIn
  <2>4. CASE p[1] # b
    <3>1. tbuf'[p[1]].pages = tbuf[p[1]].pages
      BY <2>1, <2>4 DEF Only
    <3>2. QED
      BY <2>1, <2>2, <2>3, <2>4, <3>1
  <2>5. CASE p[1] = b
    <3>1. tbuf'[p[1]].pages = Append(s, page) /\ tbuf[p[1]].pages = s
      BY <1>1, <2>5
    <3>2. p[2] <= n <=> p[2] <= Len(s) \/ p[2] = n
      BY <1>1, <1>2, <2>1
    <3>3. p = <<b, n>> <=> p[2] = n
      BY <2>1, <2>5
    <3>4. CASE p[2] = n
      <4>1. p[2] <= n /\ ~(p[2] <= Len(s)) /\ Append(s, page)[p[2]] = page
        BY <1>1, <1>2, <1>3, <3>4
      <4>2. QED
        BY <1>3, <2>2, <2>3, <3>1, <3>3, <3>4, <4>1
    <3>5. CASE p[2] # n
      <4>1. p[2] <= n <=> p[2] <= Len(s)
        BY <3>2, <3>5
      <4>2. p[2] <= Len(s) => Append(s, page)[p[2]] = s[p[2]]
        BY <1>3, <2>1
      <4>3. p \in PagesIn(z)' <=> p[2] <= n /\ z \in ZonesOf(Append(s, page)[p[2]])
        BY <1>3, <2>2, <3>1
      <4>4. p \in PagesIn(z) <=> p[2] <= Len(s) /\ z \in ZonesOf(s[p[2]])
        BY <2>3, <3>1
      <4>5. QED
        BY <3>3, <3>5, <4>1, <4>2, <4>3, <4>4
    <3>6. QED
      BY <3>4, <3>5
  <2>6. QED
    BY <2>4, <2>5
<1>7. PagesIn(z)' \subseteq Q /\ PagesIn(z) \subseteq Q /\ <<b, n>> \in Q
  BY <1>4, <1>5 DEF PagesIn
<1>8. CASE z \in ZonesOf(page)
  <2>1. PagesIn(z)' = PagesIn(z) \cup {<<b, n>>}
    BY <1>6, <1>7, <1>8
  <2>2. QED
    BY <1>4, <1>8, <2>1, PagesFinite, FS_AddElement
<1>9. CASE z \notin ZonesOf(page)
  <2>1. PagesIn(z)' = PagesIn(z)
    BY <1>6, <1>7, <1>9
  <2>2. QED
    BY <1>9, <2>1, PagesFinite
<1>10. QED
  BY <1>8, <1>9

\* The pages of a ttm that has none any more do not count.
LEMMA PagesGone ==
  ASSUME Memory, MemTypeOK, NEW b \in Tbufs, Len(tbuf[b].pages) <= TtmPages,
         tbuf'[b].pages = <<>>, Only(b), NEW z \in Zones
  PROVE  /\ Cardinality(PagesIn(z)') = Cardinality(PagesIn(z)) - ChargeOf(tbuf[b].pages, z)
         /\ ChargeOf(tbuf[b].pages, z) \in Nat
<1>1. PICK s \in Seq(Pages) : s = tbuf[b].pages
  BY DEF MemTypeOK, TtmType
<1>2. PICK I : I = {i \in DOMAIN s : z \in ZonesOf(s[i])}
  OBVIOUS
<1>3. I \subseteq 1 .. TtmPages /\ DOMAIN s = 1 .. Len(s)
  BY <1>1, <1>2 DEF Memory
<1>4. IsFiniteSet(I) /\ Cardinality(I) \in Nat /\ Cardinality(I) = ChargeOf(s, z)
  <2>1. 1 \in Int /\ TtmPages \in Int
    BY DEF Memory
  <2>2. IsFiniteSet(1 .. TtmPages)
    BY <2>1, FS_Interval
  <2>3. IsFiniteSet(I) /\ Cardinality(I) \in Nat
    BY <1>3, <2>2, FS_Subset, FS_CardinalityType
  <2>4. QED
    BY <1>2, <2>3 DEF ChargeOf
<1>5. PICK P : P = {<<b, i>> : i \in I}
  OBVIOUS
<1>6. IsFiniteSet(P) /\ Cardinality(P) = Cardinality(I)
  <2>1. [i \in I |-> <<b, i>>] \in Bijection(I, P)
    <3>1. PICK g : g = [i \in I |-> <<b, i>>]
      OBVIOUS
    <3>2. g \in [I -> P] /\ \A i \in I : g[i] = <<b, i>>
      BY <1>5, <3>1
    <3>3. \A i, j \in I : g[i] = g[j] => i = j
      BY <3>2
    <3>4. \A p \in P : \E i \in I : g[i] = p
      BY <1>5, <3>2
    <3>5. g \in Injection(I, P)
      BY <3>2, <3>3 DEF Injection, IsInjective
    <3>6. g \in Surjection(I, P)
      BY <3>2, <3>4 DEF Surjection
    <3>7. QED
      BY <3>1, <3>5, <3>6 DEF Bijection
  <2>2. ExistsBijection(I, P)
    BY <2>1 DEF ExistsBijection
  <2>3. QED
    BY <1>4, <2>2, FS_Bijection
<1>7. P \cap PagesIn(z)' = {}
  BY <1>3, <1>5 DEF PagesIn
<1>8. PagesIn(z) = PagesIn(z)' \cup P
  <2>1. ASSUME NEW p \in Tbufs \X (1 .. TtmPages)
        PROVE  p \in PagesIn(z) <=> p \in PagesIn(z)' \/ p \in P
    <3>1. p = <<p[1], p[2]>> /\ p[1] \in Tbufs /\ p[2] \in 1 .. TtmPages
      OBVIOUS
    <3>2. p \in PagesIn(z)' <=>
            p[2] <= Len(tbuf'[p[1]].pages) /\ z \in ZonesOf(tbuf'[p[1]].pages[p[2]])
      BY DEF PagesIn
    <3>3. p \in PagesIn(z) <=>
            p[2] <= Len(tbuf[p[1]].pages) /\ z \in ZonesOf(tbuf[p[1]].pages[p[2]])
      BY DEF PagesIn
    <3>4. p \in P <=> p[1] = b /\ p[2] \in I
      BY <1>5, <3>1
    <3>5. CASE p[1] # b
      <4>1. tbuf'[p[1]].pages = tbuf[p[1]].pages
        BY <3>1, <3>5 DEF Only
      <4>2. QED
        BY <3>2, <3>3, <3>4, <3>5, <4>1
    <3>6. CASE p[1] = b
      <4>1. ~(p[2] <= Len(tbuf'[p[1]].pages))
        BY <3>1, <3>6
      <4>2. p[2] \in I <=> p[2] <= Len(s) /\ z \in ZonesOf(s[p[2]])
        BY <1>1, <1>2, <1>3, <3>1
      <4>3. QED
        BY <1>1, <3>2, <3>3, <3>4, <3>6, <4>1, <4>2
    <3>7. QED
      BY <3>5, <3>6
  <2>2. PagesIn(z)' \subseteq Tbufs \X (1 .. TtmPages) /\ PagesIn(z) \subseteq Tbufs \X (1 .. TtmPages)
        /\ P \subseteq Tbufs \X (1 .. TtmPages)
    BY <1>3, <1>5 DEF PagesIn
  <2>3. QED
    BY <2>1, <2>2
<1>9. IsFiniteSet(PagesIn(z)') /\ Cardinality(PagesIn(z)') \in Nat
  <2>1. PagesIn(z)' \subseteq PagesIn(z)
    BY <1>8
  <2>2. QED
    BY <2>1, PagesFinite, FS_Subset, FS_CardinalityType
<1>10. Cardinality(PagesIn(z)) = Cardinality(PagesIn(z)') + Cardinality(P)
  <2>1. PICK A : A = PagesIn(z)'
    OBVIOUS
  <2>2. Cardinality(A \cup P) = Cardinality(A) + Cardinality(P) - Cardinality(A \cap P)
    BY <1>6, <1>4, <1>9, <2>1, FS_Union
  <2>3. A \cap P = {} /\ Cardinality({}) = 0
    BY <1>7, <2>1, FS_EmptySet
  <2>4. PagesIn(z) = A \cup P /\ Cardinality(A) \in Nat /\ Cardinality(P) \in Nat
    BY <1>4, <1>6, <1>8, <1>9, <2>1
  <2>5. Cardinality(A \cap P) = 0
    BY <2>3
  <2>6. Cardinality(A \cup P) = Cardinality(A) + Cardinality(P)
    BY <2>2, <2>4, <2>5
  <2>7. QED
    BY <2>1, <2>4, <2>6
<1>11. QED
  BY <1>1, <1>4, <1>6, <1>9, <1>10

\* Nothing changes about pages.
LEMMA PagesSame ==
  ASSUME \A b \in Tbufs : tbuf'[b].pages = tbuf[b].pages, NEW z
  PROVE  PagesIn(z)' = PagesIn(z)
  BY DEF PagesIn

-----------------------------------------------------------------------------
(* Zones. *)

\* What is given back is taken off the zones of the pages.
LEMMA FreeIs ==
  ASSUME MemTypeOK, NEW s \in Seq(Pages), zone' = ttm_mem_global_free_page(zone, s)
  PROVE  /\ zone' \in [used : [Zones -> Int], queued : BOOLEAN]
         /\ \A z \in Zones : zone'.used[z] = zone.used[z] - ChargeOf(s, z)
<1>1. PICK u : u = [y \in Zones |-> zone.used[y] - ChargeOf(s, y)]
  OBVIOUS
<1>2. zone' = [zone EXCEPT !.used = u]
  BY <1>1 DEF ttm_mem_global_free_page
<1>3. \A y \in Zones : zone.used[y] \in Int /\ ChargeOf(s, y) \in Nat
  BY ChargeFinite DEF MemTypeOK
<1>4. u \in [Zones -> Int] /\ \A y \in Zones : u[y] = zone.used[y] - ChargeOf(s, y)
  BY <1>1, <1>3
<1>5. QED
  BY <1>2, <1>4 DEF MemTypeOK

\* The zones are right when a ttm has given back its pages.
LEMMA FreedIs ==
  ASSUME Memory, MemTypeOK, Accounted, NEW b \in Tbufs, Len(tbuf[b].pages) <= TtmPages,
         tbuf'[b].pages = <<>>, Only(b),
         zone' = ttm_mem_global_free_page(zone, tbuf[b].pages)
  PROVE  zone' \in [used : [Zones -> Int], queued : BOOLEAN] /\ Accounted'
<1>1. tbuf[b].pages \in Seq(Pages)
  BY DEF MemTypeOK, TtmType
<1>2. /\ zone' \in [used : [Zones -> Int], queued : BOOLEAN]
      /\ \A z \in Zones : zone'.used[z] = zone.used[z] - ChargeOf(tbuf[b].pages, z)
  BY <1>1, FreeIs
<1>3. ASSUME NEW z \in Zones
      PROVE  zone'.used[z] = Cardinality(PagesIn(z)') /\ zone'.used[z] <= EmerMem + 1
  <2>1. /\ Cardinality(PagesIn(z)') = Cardinality(PagesIn(z)) - ChargeOf(tbuf[b].pages, z)
        /\ ChargeOf(tbuf[b].pages, z) \in Nat
    BY PagesGone
  <2>2. zone.used[z] = Cardinality(PagesIn(z)) /\ zone.used[z] <= EmerMem + 1
        /\ Cardinality(PagesIn(z)) \in Nat
    BY PagesFinite DEF Accounted
  <2>3. QED
    BY <1>2, <2>1, <2>2 DEF Memory
<1>4. QED
  BY <1>2, <1>3 DEF Accounted

\* The zones are right when no page has come or gone.
LEMMA SameIs ==
  ASSUME MemTypeOK, Accounted, zone' = zone \/ \E q \in BOOLEAN : zone' = [zone EXCEPT !.queued = q],
         \A b \in Tbufs : tbuf'[b].pages = tbuf[b].pages
  PROVE  zone' \in [used : [Zones -> Int], queued : BOOLEAN] /\ Accounted'
<1>1. zone' \in [used : [Zones -> Int], queued : BOOLEAN] /\ zone'.used = zone.used
  BY DEF MemTypeOK
<1>2. \A z \in Zones : PagesIn(z)' = PagesIn(z)
  BY PagesSame
<1>3. QED
  BY <1>1, <1>2 DEF Accounted

\* The threads other than t know of their buffers what they did, if these have
\* not changed.
LEMMA OthersWork ==
  ASSUME Memory, IInv, NEW t, \A u \in Clients : u # t => client'[u] = client[u],
         \A b \in Tbufs : tbuf[b].reserved \notin {t, Nobody} => tbuf'[b] = tbuf[b]
  PROVE  \A u \in Clients : u # t /\ client'[u].pc # "idle" =>
           client'[u].buf \in Tbufs /\ Working(u, client'[u], tbuf'[client'[u].buf])
<1>1. ASSUME NEW u \in Clients, u # t, client'[u].pc # "idle"
      PROVE  client'[u].buf \in Tbufs /\ Working(u, client'[u], tbuf'[client'[u].buf])
  <2>1. client'[u] = client[u]
    BY <1>1
  <2>2. client[u].buf \in Tbufs /\ Working(u, client[u], tbuf[client[u].buf])
    BY <1>1, <2>1 DEF IInv
  <2>3. tbuf[client[u].buf].reserved \notin {t, Nobody}
    BY <1>1, <2>2 DEF Working, Memory
  <2>4. tbuf'[client[u].buf] = tbuf[client[u].buf]
    BY <2>2, <2>3
  <2>5. QED
    BY <2>1, <2>2, <2>4
<1>2. QED
  BY <1>1

-----------------------------------------------------------------------------
(* Swapping out. *)

\* A buffer that is swapped out is nobody's, and gives back all of its pages or
\* none.
LEMMA SwapoutIs ==
  ASSUME Memory, IInv, NEW b \in Swappable, ttm_tt_swapout(b)
  PROVE  /\ zone' \in [used : [Zones -> Int], queued : BOOLEAN] /\ Accounted'
         /\ tbuf' \in [Tbufs -> TtmType] /\ \A c \in Tbufs : Whole(tbuf'[c])
         /\ \A c \in Tbufs : tbuf[c].reserved # Nobody => tbuf'[c] = tbuf[c]
<1>1. b \in Tbufs /\ tbuf[b].lru /\ tbuf[b] \in TtmType /\ Whole(tbuf[b])
      /\ tbuf[b].reserved = Nobody
  BY DEF Swappable, IInv, MemTypeOK, Whole
<1>2. CASE /\ tbuf' = [tbuf EXCEPT ![b].lru = FALSE, ![b].state = "unpopulated", ![b].pages = <<>>,
                                   ![b].swapped = TRUE, ![b].content = SwapFrom(b)]
           /\ zone' = ttm_mem_global_free_page(zone, tbuf[b].pages)
  <2>1. SwapFrom(b) \in {"none", "pages", "file", "lost"}
    BY <1>1 DEF SwapFrom, TtmType
  <2>2. PICK y : y = [tbuf[b] EXCEPT !.lru = FALSE, !.state = "unpopulated", !.pages = <<>>,
                                     !.swapped = TRUE, !.content = SwapFrom(b)]
    OBVIOUS
  <2>3. /\ y \in TtmType /\ y.lru = FALSE /\ y.state = "unpopulated" /\ y.pages = <<>>
        /\ y.swapped = TRUE /\ y.reserved = Nobody
    <3>1. PICK e \in Seq(Pages) : e = <<>>
      <4>1. <<>> \in Seq(Pages)
        OBVIOUS
      <4>2. QED
        BY <4>1
    <3>2. PICK c \in {"none", "pages", "file", "lost"} : c = SwapFrom(b)
      BY <2>1
    <3>3. y = [tbuf[b] EXCEPT !.lru = FALSE, !.state = "unpopulated", !.pages = e,
                              !.swapped = TRUE, !.content = c]
      BY <2>2, <3>1, <3>2
    <3>4. QED
      BY <1>1, <3>1, <3>3 DEF TtmType
  <2>4. tbuf' = [tbuf EXCEPT ![b] = y]
    BY <1>1, <1>2, <2>2 DEF IInv, MemTypeOK
  <2>5. tbuf' \in [Tbufs -> TtmType] /\ tbuf'[b] = y /\ \A c \in Tbufs : c # b => tbuf'[c] = tbuf[c]
    BY <1>1, <2>3, <2>4 DEF IInv, MemTypeOK
  <2>6. zone' \in [used : [Zones -> Int], queued : BOOLEAN] /\ Accounted'
    BY <1>1, <1>2, <2>3, <2>5, FreedIs DEF IInv, Only, Whole
  <2>7. Whole(y)
    BY <2>3 DEF Whole, Memory
  <2>8. QED
    BY <1>1, <2>5, <2>6, <2>7 DEF IInv
<1>3. CASE /\ tbuf' = [tbuf EXCEPT ![b].lru = FALSE,
                                   ![b].state = IF tbuf[b].state = "bound" THEN "unbound"
                                                ELSE tbuf[b].state]
           /\ UNCHANGED zone
  <2>1. PICK st : st = IF tbuf[b].state = "bound" THEN "unbound" ELSE tbuf[b].state
    OBVIOUS
  <2>2. PICK y : y = [tbuf[b] EXCEPT !.lru = FALSE, !.state = st]
    OBVIOUS
  <2>3. /\ y \in TtmType /\ y.lru = FALSE /\ y.state = st /\ y.pages = tbuf[b].pages
        /\ y.swapped = tbuf[b].swapped /\ y.reserved = Nobody /\ y.live = tbuf[b].live
        /\ st # "unpopulated" => tbuf[b].state # "unpopulated"
    BY <1>1, <2>1, <2>2 DEF TtmType
  <2>4. tbuf' = [tbuf EXCEPT ![b] = y]
    BY <1>1, <1>3, <2>1, <2>2 DEF IInv, MemTypeOK
  <2>5. tbuf' \in [Tbufs -> TtmType] /\ tbuf'[b] = y /\ \A c \in Tbufs : c # b => tbuf'[c] = tbuf[c]
    BY <1>1, <2>3, <2>4 DEF IInv, MemTypeOK
  <2>6. zone' \in [used : [Zones -> Int], queued : BOOLEAN] /\ Accounted'
    BY <1>3, <2>3, <2>5, SameIs DEF IInv
  <2>7. Whole(y)
    BY <1>1, <2>3 DEF Whole
  <2>8. QED
    BY <1>1, <2>5, <2>6, <2>7 DEF IInv
<1>4. QED
  BY <1>1, <1>2, <1>3 DEF ttm_tt_swapout, IInv, MemTypeOK

\* A thread that shrinks swaps out buffers other than its own.
LEMMA ShrinkInv == ASSUME Memory, IInv, NEW t \in Clients, ttm_shrink(t) PROVE IInv'
<1>1. /\ client[t].pc = "shrink" /\ client[t] \in WorkType /\ client[t].buf \in Tbufs
      /\ Working(t, client[t], tbuf[client[t].buf])
  BY DEF ttm_shrink, IInv, MemTypeOK
<1>2. PICK pc \in {"shrink", "charge"} : client' = [client EXCEPT ![t].pc = pc]
  <2>1. CASE \E b \in Swappable : client' = [client EXCEPT ![t].pc =
                                     IF tbuf'[b].swapped THEN "shrink" ELSE "charge"]
    BY <2>1
  <2>2. CASE client' = [client EXCEPT ![t].pc = "charge"]
    BY <2>2
  <2>3. QED
    BY <2>1, <2>2 DEF ttm_shrink
<1>3. /\ client' \in [Clients -> WorkType]
      /\ client'[t].buf = client[t].buf /\ client'[t].pc = pc /\ client'[t].page = client[t].page
      /\ client'[t].whole = client[t].whole /\ client'[t].upto = client[t].upto
      /\ \A u \in Clients : u # t => client'[u] = client[u]
  BY <1>1, <1>2 DEF IInv, MemTypeOK, WorkType
<1>4. /\ zone' \in [used : [Zones -> Int], queued : BOOLEAN] /\ Accounted'
      /\ tbuf' \in [Tbufs -> TtmType] /\ \A c \in Tbufs : Whole(tbuf'[c])
      /\ \A c \in Tbufs : tbuf[c].reserved # Nobody => tbuf'[c] = tbuf[c]
  <2>1. CASE \E b \in Swappable : ttm_tt_swapout(b)
    BY <2>1, SwapoutIs
  <2>2. CASE UNCHANGED <<zone, tbuf>>
    BY <2>2, SameIs DEF IInv, MemTypeOK
  <2>3. QED
    BY <2>1, <2>2 DEF ttm_shrink
<1>5. tbuf'[client[t].buf] = tbuf[client[t].buf]
  BY <1>1, <1>4 DEF Working, Memory
<1>6. Working(t, client'[t], tbuf'[client'[t].buf])
  BY <1>1, <1>3, <1>5 DEF Working
<1>7. \A u \in Clients : u # t /\ client'[u].pc # "idle" =>
        client'[u].buf \in Tbufs /\ Working(u, client'[u], tbuf'[client'[u].buf])
  BY <1>3, <1>4, OthersWork
<1>8. QED
  BY <1>1, <1>3, <1>4, <1>6, <1>7 DEF IInv, MemTypeOK

\* So does the work item.
LEMMA ShrinkWorkInv == ASSUME Memory, IInv, ttm_shrink_work PROVE IInv'
<1>1. client' = client
  BY DEF ttm_shrink_work
<1>2. /\ zone' \in [used : [Zones -> Int], queued : BOOLEAN] /\ Accounted'
      /\ tbuf' \in [Tbufs -> TtmType] /\ \A c \in Tbufs : Whole(tbuf'[c])
      /\ \A c \in Tbufs : tbuf[c].reserved # Nobody => tbuf'[c] = tbuf[c]
  <2>1. CASE \E b \in Swappable : ttm_tt_swapout(b)
    BY <2>1, SwapoutIs
  <2>2. CASE zone' = [zone EXCEPT !.queued = FALSE] /\ UNCHANGED tbuf
    BY <2>2, SameIs DEF IInv, MemTypeOK
  <2>3. QED
    BY <2>1, <2>2 DEF ttm_shrink_work
<1>3. \A u \in Clients : u # Nobody /\ client'[u].pc # "idle" =>
        client'[u].buf \in Tbufs /\ Working(u, client'[u], tbuf'[client'[u].buf])
  BY <1>1, <1>2, OthersWork
<1>4. QED
  BY <1>1, <1>2, <1>3 DEF IInv, MemTypeOK, Memory

-----------------------------------------------------------------------------
(* The life of a ttm. *)

\* A step on the ttm of a buffer that nobody has reserved and no thread takes.
LEMMA TtmStep ==
  ASSUME Memory, IInv, NEW b \in Tbufs, NEW y \in TtmType, tbuf[b].reserved = Nobody,
         tbuf' = [tbuf EXCEPT ![b] = y], Whole(y), client' = client,
         zone' \in [used : [Zones -> Int], queued : BOOLEAN] /\ Accounted'
  PROVE  IInv'
<1>1. tbuf' \in [Tbufs -> TtmType] /\ tbuf'[b] = y /\ \A c \in Tbufs : c # b => tbuf'[c] = tbuf[c]
  BY DEF IInv, MemTypeOK
<1>2. \A u \in Clients : u # Nobody /\ client'[u].pc # "idle" =>
        client'[u].buf \in Tbufs /\ Working(u, client'[u], tbuf'[client'[u].buf])
  BY <1>1, OthersWork
<1>3. QED
  BY <1>1, <1>2 DEF IInv, MemTypeOK, Memory

\* A ttm that is not there has no pages.
LEMMA InitTtmInv == ASSUME Memory, IInv, NEW b \in Tbufs, ttm_bo_init(b) PROVE IInv'
<1>1. ~tbuf[b].live /\ tbuf[b] \in TtmType /\ Whole(tbuf[b])
  BY DEF ttm_bo_init, IInv, MemTypeOK
<1>2. PICK y : y = [NoTtm EXCEPT !.live = TRUE, !.lru = TRUE]
  OBVIOUS
<1>3. y = [live |-> TRUE, reserved |-> Nobody, lru |-> TRUE, state |-> "unpopulated",
           pages |-> <<>>, swapped |-> FALSE, content |-> "none"]
  BY <1>2 DEF NoTtm
<1>4. y \in TtmType /\ Whole(y)
  BY <1>3 DEF TtmType, Whole, Memory
<1>5. tbuf' = [tbuf EXCEPT ![b] = y] /\ zone' = zone /\ client' = client
  BY <1>2 DEF ttm_bo_init
<1>6. \A c \in Tbufs : tbuf'[c].pages = tbuf[c].pages
  BY <1>1, <1>3, <1>5 DEF IInv, MemTypeOK, Whole
<1>7. zone' \in [used : [Zones -> Int], queued : BOOLEAN] /\ Accounted'
  BY <1>5, <1>6, SameIs DEF IInv
<1>8. tbuf[b].reserved = Nobody
  BY <1>1 DEF Whole
<1>9. QED
  BY <1>4, <1>5, <1>7, <1>8, TtmStep

\* A ttm that is destroyed gives back its pages.
LEMMA DestroyInv == ASSUME Memory, IInv, NEW b \in Tbufs, ttm_tt_destroy(b) PROVE IInv'
<1>1. /\ tbuf[b].reserved = Nobody /\ Len(tbuf[b].pages) <= TtmPages
      /\ zone' = ttm_mem_global_free_page(zone, tbuf[b].pages)
      /\ tbuf' = [tbuf EXCEPT ![b] = NoTtm] /\ client' = client
  BY DEF ttm_tt_destroy, IInv, Whole
<1>2. NoTtm \in TtmType /\ Whole(NoTtm) /\ NoTtm.pages = <<>>
  BY DEF NoTtm, TtmType, Whole, Memory
<1>3. tbuf'[b].pages = <<>> /\ Only(b)
  BY <1>1, <1>2 DEF IInv, MemTypeOK, Only
<1>4. zone' \in [used : [Zones -> Int], queued : BOOLEAN] /\ Accounted'
  BY <1>1, <1>3, FreedIs DEF IInv
<1>5. QED
  BY <1>1, <1>2, <1>4, TtmStep

-----------------------------------------------------------------------------
(* Threads. *)

\* A thread t takes a step in its work, which may change the ttm of its buffer b.
LEMMA WorkStep ==
  ASSUME Memory, IInv, NEW t \in Clients, NEW b \in Tbufs, NEW y \in TtmType, NEW w \in WorkType,
         tbuf[b].reserved \in {t, Nobody},
         tbuf' = [tbuf EXCEPT ![b] = y], client' = [client EXCEPT ![t] = w], Whole(y),
         w.pc # "idle" => w.buf = b /\ Working(t, w, y),
         zone' \in [used : [Zones -> Int], queued : BOOLEAN] /\ Accounted'
  PROVE  IInv'
<1>1. /\ tbuf' \in [Tbufs -> TtmType] /\ tbuf'[b] = y /\ \A c \in Tbufs : c # b => tbuf'[c] = tbuf[c]
      /\ client' \in [Clients -> WorkType] /\ client'[t] = w
      /\ \A u \in Clients : u # t => client'[u] = client[u]
  BY DEF IInv, MemTypeOK
<1>2. \A u \in Clients : u # t /\ client'[u].pc # "idle" =>
        client'[u].buf \in Tbufs /\ Working(u, client'[u], tbuf'[client'[u].buf])
  BY <1>1, OthersWork
<1>3. QED
  BY <1>1, <1>2 DEF IInv, MemTypeOK

\* What a thread at work has.
LEMMA WorkIs ==
  ASSUME Memory, IInv, NEW t \in Clients, client[t].pc # "idle"
  PROVE  /\ client[t] \in WorkType /\ client[t].buf \in Tbufs
         /\ Working(t, client[t], tbuf[client[t].buf])
         /\ tbuf[client[t].buf] \in TtmType /\ Whole(tbuf[client[t].buf])
         /\ tbuf[client[t].buf].reserved = t
         /\ tbuf[client[t].buf].pages \in Seq(Pages) /\ Len(tbuf[client[t].buf].pages) \in Nat
  BY DEF IInv, MemTypeOK, Working, TtmType

\* A thread that needs a page does not have them all.
LEMMA NeededIs ==
  ASSUME Memory, IInv, NEW t \in Clients, client[t].pc # "idle"
  PROVE  Needed(t) \in 0 .. TtmPages
<1>1. client[t].upto \in 0 .. TtmPages
  BY WorkIs DEF WorkType
<1>2. QED
  BY <1>1 DEF Needed, Memory

\* Whoever reserves a buffer finds it whole.
LEMMA ReserveInv ==
  ASSUME Memory, IInv, NEW t \in Clients, NEW b \in Tbufs, ttm_bo_reserve(t, b) PROVE IInv'
<1>1. PICK n \in 0 .. TtmPages, whole \in BOOLEAN :
        /\ whole => n = TtmPages
        /\ client' = [client EXCEPT ![t] =
             [NoWork EXCEPT !.buf = b, !.upto = n, !.whole = whole,
                !.pc = IF n = 0 THEN "unreserve" ELSE "pages"]]
  BY DEF ttm_bo_reserve
<1>2. /\ tbuf[b].live /\ tbuf[b].reserved = Nobody /\ tbuf[b] \in TtmType /\ Whole(tbuf[b])
      /\ tbuf' = [tbuf EXCEPT ![b].reserved = t, ![b].lru = FALSE] /\ zone' = zone
  BY DEF ttm_bo_reserve, IInv, MemTypeOK
<1>3. PICK pc \in {"unreserve", "pages"} : pc = IF n = 0 THEN "unreserve" ELSE "pages"
  OBVIOUS
<1>4. PICK w : w = [NoWork EXCEPT !.buf = b, !.upto = n, !.whole = whole, !.pc = pc]
  OBVIOUS
<1>5. client' = [client EXCEPT ![t] = w]
  BY <1>1, <1>3, <1>4
<1>6. w \in WorkType /\ w.pc = pc /\ w.buf = b /\ w.upto = n /\ w.whole = whole
  <2>1. NoWork \in WorkType
    BY DEF NoWork, WorkType, Memory
  <2>2. QED
    BY <1>4, <2>1 DEF WorkType
<1>7. PICK y : y = [tbuf[b] EXCEPT !.reserved = t, !.lru = FALSE]
  OBVIOUS
<1>8. y \in TtmType /\ Whole(y) /\ tbuf' = [tbuf EXCEPT ![b] = y] /\ y.pages = tbuf[b].pages
      /\ y.reserved = t /\ y.swapped = tbuf[b].swapped
  BY <1>2, <1>7 DEF IInv, MemTypeOK, TtmType, Whole
<1>9. Working(t, w, y)
  BY <1>1, <1>2, <1>6, <1>8 DEF Working, Whole
<1>10. zone' \in [used : [Zones -> Int], queued : BOOLEAN] /\ Accounted'
  <2>1. \A c \in Tbufs : tbuf'[c].pages = tbuf[c].pages
    BY <1>8 DEF IInv, MemTypeOK
  <2>2. QED
    BY <1>2, <2>1, SameIs DEF IInv
<1>11. QED
  BY <1>2, <1>5, <1>6, <1>8, <1>9, <1>10, WorkStep

\* A step of a thread that changes neither its buffer nor what is charged.
LEMMA OwnStep ==
  ASSUME Memory, IInv, NEW t \in Clients, NEW w \in WorkType, client[t].pc # "idle", w.pc # "idle",
         w.buf = client[t].buf, Working(t, w, tbuf[client[t].buf]),
         client' = [client EXCEPT ![t] = w], tbuf' = tbuf,
         zone' = zone \/ \E q \in BOOLEAN : zone' = [zone EXCEPT !.queued = q]
  PROVE  IInv'
<1>1. tbuf' = [tbuf EXCEPT ![client[t].buf] = tbuf[client[t].buf]]
  BY WorkIs DEF IInv, MemTypeOK
<1>2. zone' \in [used : [Zones -> Int], queued : BOOLEAN] /\ Accounted'
  BY SameIs DEF IInv
<1>3. QED
  BY <1>1, <1>2, WorkIs, WorkStep

\* A page is looked for only if one is missing.
LEMMA GetPageInv == ASSUME Memory, IInv, NEW t \in Clients, __ttm_tt_get_page(t) PROVE IInv'
<1>1. /\ client[t].pc = "pages" /\ Len(tbuf[client[t].buf].pages) < Needed(t)
      /\ tbuf' = tbuf /\ zone' = zone
  BY DEF __ttm_tt_get_page
<1>2. PICK page \in Pages : client' = [client EXCEPT ![t].pc = "charge", ![t].page = page,
                                                     ![t].tries = Retries]
  BY DEF __ttm_tt_get_page, Pages
<1>3. PICK w : w = [client[t] EXCEPT !.pc = "charge", !.page = page, !.tries = Retries]
  OBVIOUS
<1>4. /\ w \in WorkType /\ w.pc = "charge" /\ w.page = page /\ w.buf = client[t].buf
      /\ w.whole = client[t].whole /\ w.upto = client[t].upto
  <2>1. client[t] \in WorkType /\ Retries \in Nat
    BY <1>1, WorkIs DEF Memory
  <2>2. QED
    BY <1>3, <2>1 DEF WorkType
<1>5. client' = [client EXCEPT ![t] = w]
  BY <1>2, <1>3 DEF IInv, MemTypeOK
<1>6. Len(tbuf[client[t].buf].pages) < TtmPages
  BY <1>1, WorkIs, NeededIs DEF Memory
<1>7. Working(t, w, tbuf[client[t].buf])
  BY <1>1, <1>4, <1>6, WorkIs DEF Working, Pages
<1>8. QED
  BY <1>1, <1>4, <1>5, <1>7, OwnStep

\* Before it tries again a thread shrinks.
LEMMA ChargeAgainInv == ASSUME Memory, IInv, NEW t \in Clients, ChargeAgain(t) PROVE IInv'
<1>1. /\ client[t].pc = "charge" /\ client[t].tries > 0 /\ tbuf' = tbuf
      /\ client' = [client EXCEPT ![t].pc = "shrink", ![t].tries = client[t].tries - 1]
      /\ zone' = [zone EXCEPT !.queued = zone.queued \/ AboveTarget(SwapLimit)]
  BY DEF ChargeAgain, IInv, MemTypeOK
<1>2. PICK q \in BOOLEAN : q = (zone.queued \/ AboveTarget(SwapLimit))
  OBVIOUS
<1>3. PICK k \in Nat : k = client[t].tries - 1
  BY <1>1, WorkIs DEF WorkType
<1>4. PICK w : w = [client[t] EXCEPT !.pc = "shrink", !.tries = k]
  OBVIOUS
<1>5. /\ w \in WorkType /\ w.pc = "shrink" /\ w.page = client[t].page /\ w.buf = client[t].buf
      /\ w.whole = client[t].whole /\ w.upto = client[t].upto
  <2>1. client[t] \in WorkType
    BY <1>1, WorkIs
  <2>2. QED
    BY <1>4, <2>1 DEF WorkType
<1>6. client' = [client EXCEPT ![t] = w]
  BY <1>1, <1>3, <1>4 DEF IInv, MemTypeOK
<1>7. Working(t, w, tbuf[client[t].buf])
  BY <1>1, <1>5, WorkIs DEF Working
<1>8. \E p \in BOOLEAN : zone' = [zone EXCEPT !.queued = p]
  BY <1>1, <1>2
<1>9. QED
  BY <1>1, <1>5, <1>6, <1>7, <1>8, OwnStep

\* A page is charged once: it was missing, and the zones it counts in were not
\* above the limit.
LEMMA ChargeInv == ASSUME Memory, IInv, NEW t \in Clients, Charge(t) PROVE IInv'
<1>1. PICK b \in Tbufs : b = client[t].buf
  BY WorkIs DEF Charge
<1>2. PICK page \in Pages : page = client[t].page
  BY WorkIs DEF Charge, Working, WorkType
<1>3. /\ client[t].pc = "charge" /\ Fits(t, ZonesOf(page)) /\ zone' = Charged(ZonesOf(page))
      /\ client' = [client EXCEPT ![t].pc = "pages", ![t].page = "none"]
      /\ tbuf' = [tbuf EXCEPT ![b].pages = Append(tbuf[b].pages, page)]
  BY <1>1, <1>2 DEF Charge, IInv, MemTypeOK
<1>4. /\ Working(t, client[t], tbuf[b]) /\ tbuf[b] \in TtmType /\ Whole(tbuf[b])
      /\ client[t] \in WorkType /\ Len(tbuf[b].pages) < TtmPages /\ tbuf[b].reserved = t
  BY <1>1, <1>3, WorkIs DEF Working
<1>5. PICK s \in Seq(Pages) : s = Append(tbuf[b].pages, page)
  <2>1. tbuf[b].pages \in Seq(Pages)
    BY <1>4 DEF TtmType
  <2>2. Append(tbuf[b].pages, page) \in Seq(Pages)
    BY <2>1
  <2>3. QED
    BY <2>2
<1>6. PICK y : y = [tbuf[b] EXCEPT !.pages = s]
  OBVIOUS
<1>7. /\ y \in TtmType /\ tbuf' = [tbuf EXCEPT ![b] = y] /\ y.pages = s /\ y.state = tbuf[b].state
      /\ y.live = tbuf[b].live /\ y.reserved = t /\ y.lru = tbuf[b].lru
      /\ y.swapped = tbuf[b].swapped
  BY <1>3, <1>4, <1>5, <1>6 DEF IInv, MemTypeOK, TtmType
<1>8. Len(s) = Len(tbuf[b].pages) + 1 /\ Len(tbuf[b].pages) \in Nat
  BY <1>4, <1>5 DEF TtmType
<1>9. Whole(y)
  <2>1. t # Nobody /\ tbuf[b].live /\ ~tbuf[b].lru /\ tbuf[b].state = "unpopulated"
    BY <1>4, <1>8 DEF Memory, Whole
  <2>2. Len(s) <= TtmPages
    BY <1>4, <1>8 DEF Memory
  <2>3. QED
    BY <1>7, <2>1, <2>2 DEF Whole
<1>10. PICK w : w = [client[t] EXCEPT !.pc = "pages", !.page = "none"]
  OBVIOUS
<1>11. /\ w \in WorkType /\ w.pc = "pages" /\ w.buf = b /\ w.whole = client[t].whole
       /\ w.upto = client[t].upto
  BY <1>1, <1>4, <1>10 DEF WorkType
<1>12. client' = [client EXCEPT ![t] = w]
  BY <1>3, <1>10 DEF IInv, MemTypeOK
<1>13. Working(t, w, y)
  BY <1>4, <1>7, <1>11 DEF Working
<1>14. /\ zone' \in [used : [Zones -> Int], queued : BOOLEAN]
       /\ \A z \in Zones : zone'.used[z] = zone.used[z] + (IF z \in ZonesOf(page) THEN 1 ELSE 0)
  <2>1. PICK u : u = [z \in Zones |-> zone.used[z] + (IF z \in ZonesOf(page) THEN 1 ELSE 0)]
    OBVIOUS
  <2>2. PICK q \in BOOLEAN : q = (zone.queued \/ \E z \in Zones : u[z] > SwapLimit)
    OBVIOUS
  <2>3. zone' = [used |-> u, queued |-> q]
    BY <1>3, <2>1, <2>2 DEF Charged
  <2>4. \A z \in Zones : zone.used[z] \in Int
    BY DEF IInv, MemTypeOK
  <2>5. u \in [Zones -> Int]
        /\ \A z \in Zones : u[z] = zone.used[z] + (IF z \in ZonesOf(page) THEN 1 ELSE 0)
    BY <2>1, <2>4
  <2>6. QED
    BY <2>3, <2>5
<1>15. ASSUME NEW z \in Zones
       PROVE  zone'.used[z] = Cardinality(PagesIn(z)') /\ zone'.used[z] <= EmerMem + 1
  <2>1. tbuf'[b].pages = Append(tbuf[b].pages, page) /\ Only(b)
    BY <1>5, <1>7 DEF IInv, MemTypeOK, Only
  <2>2. Cardinality(PagesIn(z)') = Cardinality(PagesIn(z)) + (IF z \in ZonesOf(page) THEN 1 ELSE 0)
    BY <1>4, <2>1, PageAdded DEF IInv
  <2>3. zone.used[z] = Cardinality(PagesIn(z)) /\ zone.used[z] <= EmerMem + 1
        /\ zone.used[z] \in Int
    BY DEF IInv, Accounted, MemTypeOK
  <2>4. z \in ZonesOf(page) => zone.used[z] <= EmerMem
    BY <1>3, <2>3 DEF Fits, Limit, Memory
  <2>5. QED
    BY <1>14, <2>2, <2>3, <2>4 DEF Memory
<1>16. Accounted'
  BY <1>15 DEF Accounted
<1>17. QED
  BY <1>4, <1>7, <1>9, <1>11, <1>12, <1>13, <1>14, <1>16, WorkStep

\* A thread that gets no page gives up, and gives back a half swapped-in ttm.
LEMMA PageFailsInv == ASSUME Memory, IInv, NEW t \in Clients, PageFails(t) PROVE IInv'
<1>1. PICK b \in Tbufs : b = client[t].buf
  BY WorkIs DEF PageFails
<1>2. /\ client[t].pc \in {"pages", "charge"} /\ NoPage(t, b)
      /\ client' = [client EXCEPT ![t].pc = "unreserve", ![t].page = "none"]
  BY <1>1 DEF PageFails
<1>3. /\ Working(t, client[t], tbuf[b]) /\ tbuf[b] \in TtmType /\ Whole(tbuf[b])
      /\ client[t] \in WorkType /\ tbuf[b].reserved = t
  BY <1>1, <1>2, WorkIs
<1>4. PICK w : w = [client[t] EXCEPT !.pc = "unreserve", !.page = "none"]
  OBVIOUS
<1>5. /\ w \in WorkType /\ w.pc = "unreserve" /\ w.buf = b /\ w.whole = client[t].whole
      /\ w.upto = client[t].upto
  BY <1>1, <1>3, <1>4 DEF WorkType
<1>6. client' = [client EXCEPT ![t] = w]
  BY <1>2, <1>4 DEF IInv, MemTypeOK
<1>7. CASE tbuf[b].swapped
  <2>1. PICK e \in Seq(Pages) : e = <<>>
    <3>1. <<>> \in Seq(Pages)
      OBVIOUS
    <3>2. QED
      BY <3>1
  <2>2. PICK y : y = [tbuf[b] EXCEPT !.pages = e]
    OBVIOUS
  <2>3. zone' = ttm_mem_global_free_page(zone, tbuf[b].pages) /\ tbuf' = [tbuf EXCEPT ![b] = y]
    BY <1>2, <1>7, <2>1, <2>2 DEF NoPage, IInv, MemTypeOK
  <2>4. /\ y \in TtmType /\ y.pages = <<>> /\ y.state = tbuf[b].state /\ y.reserved = t
        /\ y.live = tbuf[b].live /\ y.lru = tbuf[b].lru /\ y.swapped = tbuf[b].swapped
    BY <1>3, <2>1, <2>2 DEF TtmType
  <2>5. Whole(y) /\ Working(t, w, y)
    BY <1>3, <1>5, <1>7, <2>4 DEF Whole, Working, Memory
  <2>6. tbuf'[b].pages = <<>> /\ Only(b)
    BY <2>3, <2>4 DEF IInv, MemTypeOK, Only
  <2>7. zone' \in [used : [Zones -> Int], queued : BOOLEAN] /\ Accounted'
    BY <1>3, <2>3, <2>6, FreedIs DEF IInv, Whole
  <2>8. QED
    BY <1>3, <1>5, <1>6, <2>3, <2>4, <2>5, <2>7, WorkStep
<1>8. CASE ~tbuf[b].swapped
  <2>1. zone' = zone /\ tbuf' = tbuf
    BY <1>2, <1>8 DEF NoPage
  <2>2. Working(t, w, tbuf[b])
    BY <1>3, <1>5, <1>8 DEF Working
  <2>3. QED
    BY <1>1, <1>2, <1>5, <1>6, <2>1, <2>2, OwnStep
<1>9. QED
  BY <1>7, <1>8

\* A thread's step on the ttm x of its buffer, which becomes y with the pages it had.
LEMMA TtmOfStep ==
  ASSUME Memory, IInv, NEW t \in Clients, NEW y \in TtmType, NEW w \in WorkType,
         client[t].pc # "idle", w.pc # "idle" => w.buf = client[t].buf /\ Working(t, w, y),
         tbuf' = [tbuf EXCEPT ![client[t].buf] = y], client' = [client EXCEPT ![t] = w],
         Whole(y), y.pages = tbuf[client[t].buf].pages, zone' = zone
  PROVE  IInv'
<1>1. \A c \in Tbufs : tbuf'[c].pages = tbuf[c].pages
  BY WorkIs DEF IInv, MemTypeOK
<1>2. zone' \in [used : [Zones -> Int], queued : BOOLEAN] /\ Accounted'
  BY <1>1, SameIs DEF IInv
<1>3. QED
  BY <1>2, WorkIs, WorkStep

\* All pages are back.
LEMMA SwappedInInv == ASSUME Memory, IInv, NEW t \in Clients, SwappedIn(t) PROVE IInv'
<1>1. PICK b \in Tbufs : b = client[t].buf
  BY WorkIs DEF SwappedIn
<1>2. PICK c : c = IF tbuf[b].content = "file" THEN "pages" ELSE tbuf[b].content
  OBVIOUS
<1>3. /\ client[t].pc = "pages" /\ tbuf[b].swapped /\ Len(tbuf[b].pages) = TtmPages
      /\ tbuf' = [tbuf EXCEPT ![b].swapped = FALSE, ![b].content = c]
      /\ zone' = zone /\ client' = client
  BY <1>1, <1>2 DEF SwappedIn, IInv, MemTypeOK
<1>4. /\ Working(t, client[t], tbuf[b]) /\ tbuf[b] \in TtmType /\ Whole(tbuf[b])
      /\ client[t] \in WorkType /\ tbuf[b].reserved = t
  BY <1>1, <1>3, WorkIs
<1>5. PICK y : y = [tbuf[b] EXCEPT !.swapped = FALSE, !.content = c]
  OBVIOUS
<1>6. /\ y \in TtmType /\ y.pages = tbuf[b].pages /\ y.state = tbuf[b].state /\ y.reserved = t
      /\ y.live = tbuf[b].live /\ y.lru = tbuf[b].lru /\ y.swapped = FALSE
  BY <1>2, <1>4, <1>5 DEF TtmType
<1>7. tbuf' = [tbuf EXCEPT ![b] = y] /\ client' = [client EXCEPT ![t] = client[t]]
  BY <1>3, <1>5 DEF IInv, MemTypeOK
<1>8. Whole(y) /\ Working(t, client[t], y)
  BY <1>3, <1>4, <1>6 DEF Whole, Working
<1>9. QED
  BY <1>1, <1>3, <1>4, <1>6, <1>7, <1>8, TtmOfStep

\* A ttm is bound with all of its pages.
LEMMA PagesThereInv == ASSUME Memory, IInv, NEW t \in Clients, PagesThere(t) PROVE IInv'
<1>1. PICK b \in Tbufs : b = client[t].buf
  BY WorkIs DEF PagesThere
<1>2. PICK st, c : /\ st = IF client[t].whole THEN "bound" ELSE tbuf[b].state
                   /\ c = IF tbuf[b].content = "none" THEN "pages" ELSE tbuf[b].content
  OBVIOUS
<1>3. /\ client[t].pc = "pages" /\ ~tbuf[b].swapped /\ Len(tbuf[b].pages) >= Needed(t)
      /\ tbuf' = [tbuf EXCEPT ![b].state = st, ![b].content = c]
      /\ client' = [client EXCEPT ![t].pc = "unreserve"] /\ zone' = zone
  BY <1>1, <1>2 DEF PagesThere, IInv, MemTypeOK
<1>4. /\ Working(t, client[t], tbuf[b]) /\ tbuf[b] \in TtmType /\ Whole(tbuf[b])
      /\ client[t] \in WorkType /\ tbuf[b].reserved = t /\ Len(tbuf[b].pages) \in Nat
  BY <1>1, <1>3, WorkIs
<1>5. PICK y : y = [tbuf[b] EXCEPT !.state = st, !.content = c]
  OBVIOUS
<1>6. /\ y \in TtmType /\ y.pages = tbuf[b].pages /\ y.state = st /\ y.reserved = t
      /\ y.live = tbuf[b].live /\ y.lru = tbuf[b].lru /\ y.swapped = tbuf[b].swapped
  BY <1>2, <1>4, <1>5 DEF TtmType
<1>7. PICK w : w = [client[t] EXCEPT !.pc = "unreserve"]
  OBVIOUS
<1>8. /\ w \in WorkType /\ w.pc = "unreserve" /\ w.buf = b /\ w.whole = client[t].whole
      /\ w.upto = client[t].upto
  BY <1>1, <1>4, <1>7 DEF WorkType
<1>9. tbuf' = [tbuf EXCEPT ![b] = y] /\ client' = [client EXCEPT ![t] = w]
  BY <1>3, <1>5, <1>7 DEF IInv, MemTypeOK
<1>10. Whole(y)
  <2>1. client[t].whole => Len(tbuf[b].pages) = TtmPages
    <3>1. CASE tbuf[b].state # "unpopulated"
      BY <1>4, <3>1 DEF Whole
    <3>2. CASE tbuf[b].state = "unpopulated"
      <4>1. client[t].whole => Needed(t) = TtmPages
        BY <1>1, <1>3, <1>4, <3>2 DEF Needed, Working
      <4>2. QED
        BY <1>3, <1>4, <4>1 DEF Whole, Memory
    <3>3. QED
      BY <3>1, <3>2
  <2>2. st # "unpopulated" => Len(tbuf[b].pages) = TtmPages
    BY <1>2, <1>4, <2>1 DEF Whole
  <2>3. QED
    BY <1>3, <1>4, <1>6, <2>2 DEF Whole
<1>11. Working(t, w, y)
  BY <1>3, <1>4, <1>6, <1>8 DEF Working
<1>12. client[t].pc # "idle" /\ (w.pc # "idle" => w.buf = client[t].buf /\ Working(t, w, y))
  BY <1>1, <1>3, <1>8, <1>11
<1>13. tbuf' = [tbuf EXCEPT ![client[t].buf] = y] /\ y.pages = tbuf[client[t].buf].pages
  BY <1>1, <1>6, <1>9
<1>14. QED
  BY <1>3, <1>6, <1>8, <1>9, <1>10, <1>12, <1>13, TtmOfStep

\* A ttm that is given up is whole.
LEMMA UnreserveInv == ASSUME Memory, IInv, NEW t \in Clients, ttm_bo_unreserve(t) PROVE IInv'
<1>1. PICK b \in Tbufs : b = client[t].buf
  BY WorkIs DEF ttm_bo_unreserve
<1>2. /\ client[t].pc = "unreserve" /\ zone' = zone /\ client' = [client EXCEPT ![t] = NoWork]
      /\ tbuf' = [tbuf EXCEPT ![b].reserved = Nobody, ![b].lru = TRUE]
  BY <1>1 DEF ttm_bo_unreserve
<1>3. /\ Working(t, client[t], tbuf[b]) /\ tbuf[b] \in TtmType /\ Whole(tbuf[b])
  BY <1>1, <1>2, WorkIs
<1>4. PICK y : y = [tbuf[b] EXCEPT !.reserved = Nobody, !.lru = TRUE]
  OBVIOUS
<1>5. /\ y \in TtmType /\ y.pages = tbuf[b].pages /\ y.state = tbuf[b].state
      /\ y.reserved = Nobody /\ y.live = tbuf[b].live /\ y.swapped = tbuf[b].swapped
  BY <1>3, <1>4 DEF TtmType
<1>6. tbuf' = [tbuf EXCEPT ![b] = y]
  BY <1>2, <1>4 DEF IInv, MemTypeOK
<1>7. Whole(y)
  BY <1>2, <1>3, <1>5 DEF Whole, Working
<1>8. NoWork \in WorkType /\ NoWork.pc = "idle"
  BY DEF NoWork, WorkType, Memory
<1>9. QED
  BY <1>1, <1>2, <1>5, <1>6, <1>7, <1>8, TtmOfStep

-----------------------------------------------------------------------------
(* The invariant. *)

\* Nothing is charged at first.
LEMMA InitInv == ASSUME Memory, MemInit PROVE IInv
<1>1. /\ zone = [used |-> [z \in Zones |-> 0], queued |-> FALSE]
      /\ tbuf = [b \in Tbufs |-> NoTtm] /\ client = [t \in Clients |-> NoWork]
  BY DEF MemInit
<1>2. NoTtm \in TtmType /\ Whole(NoTtm) /\ NoTtm.pages = <<>> /\ NoWork \in WorkType
      /\ NoWork.pc = "idle"
  BY DEF NoTtm, NoWork, TtmType, WorkType, Whole, Memory
<1>3. MemTypeOK
  BY <1>1, <1>2 DEF MemTypeOK
<1>4. ASSUME NEW z \in Zones
      PROVE  zone.used[z] = Cardinality(PagesIn(z)) /\ zone.used[z] <= EmerMem + 1
  <2>1. zone.used[z] = 0
    BY <1>1
  <2>2. PagesIn(z) = {}
    <3>1. \A b \in Tbufs : Len(tbuf[b].pages) = 0
      BY <1>1, <1>2
    <3>2. QED
      BY <3>1 DEF PagesIn
  <2>3. QED
    BY <2>1, <2>2, FS_EmptySet DEF Memory
<1>5. QED
  BY <1>1, <1>2, <1>3, <1>4 DEF IInv, Accounted

\* Every step keeps the invariant.
LEMMA NextInv == ASSUME Memory, IInv, [MemNext]_memVars PROVE IInv'
<1>1. CASE UNCHANGED memVars
  BY <1>1 DEF memVars, IInv, MemTypeOK, Accounted, PagesIn
<1>2. ASSUME NEW b \in Tbufs, ttm_bo_init(b) \/ ttm_tt_destroy(b) PROVE IInv'
  BY <1>2, InitTtmInv, DestroyInv
<1>3. ASSUME NEW t \in Clients, NEW b \in Tbufs, ttm_bo_reserve(t, b) PROVE IInv'
  BY <1>3, ReserveInv
<1>4. ASSUME NEW t \in Clients, \/ __ttm_tt_get_page(t) \/ Charge(t) \/ ChargeAgain(t)
                                \/ ttm_shrink(t) \/ PageFails(t) \/ SwappedIn(t)
                                \/ PagesThere(t) \/ ttm_bo_unreserve(t)
      PROVE  IInv'
  BY <1>4, GetPageInv, ChargeInv, ChargeAgainInv, ShrinkInv, PageFailsInv, SwappedInInv,
     PagesThereInv, UnreserveInv
<1>5. CASE ttm_shrink_work
  BY <1>5, ShrinkWorkInv
<1>6. QED
  BY <1>1, <1>2, <1>3, <1>4, <1>5 DEF MemNext

\* The accounting, the ttms and what the threads know of them agree, for any
\* number of buffers, pages and threads (ttm_mem_global_alloc_page, ttm_tt_swapin,
\* ttm_bo_swapout).
THEOREM Invariant == ASSUME Memory PROVE MemSpec => []IInv
<1>1. MemInit => IInv
  BY InitInv
<1>2. IInv /\ [MemNext]_memVars => IInv'
  BY NextInv
<1>3. QED
  BY <1>1, <1>2, PTL DEF MemSpec

\* The fields of zones, ttms and threads keep their types (ttm_mem_zone, ttm_tt).
THEOREM TypeCorrect == ASSUME Memory PROVE MemSpec => []MemTypeOK
<1>1. IInv => MemTypeOK
  BY DEF IInv
<1>2. QED
  BY <1>1, Invariant, PTL

\* Each zone counts exactly the pages that buffers hold in it, never more than a
\* page above the emergency limit (ttm_mem_global_reserve); no buffer is swapped
\* out while a thread works on it, and a bound one has all of its pages.
THEOREM MemIsAccounted == ASSUME Memory PROVE MemSpec => []MemAccounted
<1>1. IInv => MemAccounted
  BY DEF IInv, Accounted, Whole, MemAccounted
<1>2. QED
  BY <1>1, Invariant, PTL

\* The zones and pages of all of the memory behave as TtmMemory says, and are
\* idle in the other parts (ttm_mem_global_alloc_zone, ttm_tt_populate).
THEOREM ZonesBehave == Spec => MemSpec
<1>1. Init => MemInit
  BY DEF Init
<1>2. [Next]_vars => [MemNext]_memVars
  BY Zenon DEF Next, vars
<1>3. QED
  BY <1>1, <1>2, PTL DEF Spec, MemSpec

-----------------------------------------------------------------------------
(* Mappings (TtmVm). *)

Places == {"none", "system", "gmr", "vram"}
Todos == {<<>>, <<"unmap", "move">>, <<"move">>, <<"unmap", "swap">>, <<"swap">>}

BufferType ==
  [mem : Places, kref : Int, handle : BOOLEAN, off : Int,
   live : BOOLEAN, slot : Int, pages : [V!Pages -> Int], swapped : BOOLEAN,
   by : Vmas \cup {"mover", NoOne}, io_reserved_vm : BOOLEAN, bus : Int,
   to : Places, new : Int, todo : Todos]

Entries ==
  {<<>>} \cup {<<"ram", q>> : q \in Int} \cup {<<"vram", s, p>> : s \in Int, p \in V!Pages}

MappingType ==
  [bo : Vbufs \cup {NoOne}, pgoff : Int, len : Int, pc : {"idle", "insert"}, at : Int, n : Int,
   pte : [V!Pages -> Entries]]

MapTypeOK == vbo \in [Vbufs -> BufferType] /\ vma \in [Vmas -> MappingType]

MapsOf(b) == {v \in Vmas : vma[v].bo = b}

Counted(b) == vbo[b].kref = Cardinality(MapsOf(b)) + (IF vbo[b].handle THEN 1 ELSE 0)

\* What mappings go to is where the buffer is, and whoever moves the buffer has
\* it reserved.
Buffer(x) ==
  /\ x.live <=> x.kref > 0
  /\ x.bus = (IF x.io_reserved_vm THEN V!vmw_ttm_io_mem_reserve(x) ELSE -1)
  /\ x.mem = "vram" => x.slot \in Nat
  /\ x.to = "vram" => x.new \in Nat
  /\ x.todo # <<>> <=> x.by = "mover"

\* The contents of the buffer are being copied, from or to where it is mapped.
Copied(x) ==
  x.todo = <<"swap">> \/ (x.todo = <<"move">> /\ V!Unmaps(x.mem, x.to))

Place(x, p) == IF x.mem = "vram" THEN <<"vram", x.slot, p>> ELSE <<"ram", x.pages[p]>>

\* A mapping m by v of the buffer x: of all of it, right, and with the buffer
\* reserved while pages are inserted.
Mapping(v, m, x) ==
  /\ m.pgoff = x.off /\ m.len = BufPages
  /\ \A i \in V!Pages : m.pte[i] # <<>> =>
       m.pte[i] = Place(x, i) /\ m.pte[i] # <<"ram", -1>> /\ ~Copied(x)
  /\ m.pc = "insert" => x.by = v /\ m.at \in V!Pages /\ x.io_reserved_vm

Mapped ==
  /\ MapTypeOK
  /\ \A b \in Vbufs : Counted(b) /\ Buffer(vbo[b])
  /\ \A v \in Vmas : /\ vma[v].bo # NoOne => Mapping(v, vma[v], vbo[vma[v].bo])
                     /\ vma[v].bo = NoOne => vma[v].pc = "idle"
-----------------------------------------------------------------------------
(* Pages. *)

LEMMA CardIs == \A S : V!Cardinality(S) = Cardinality(S)
  BY DEF V!Cardinality, Cardinality

\* A finite set of integers has an element with k others below it.
LEMMA RankIs ==
  ASSUME NEW S \in SUBSET Int, IsFiniteSet(S), NEW k \in Nat, k < Cardinality(S)
  PROVE  \E i \in S : Cardinality({j \in S : j < i}) = k
<1> DEFINE n == Cardinality(S)
           Below(i) == {j \in S : j < i}
           r == [i \in S |-> Cardinality(Below(i))]
<1>1. n \in Nat
  BY FS_CardinalityType
<1>2. ASSUME NEW i \in S
      PROVE  IsFiniteSet(Below(i)) /\ Cardinality(Below(i)) \in Nat /\ Cardinality(Below(i)) < n
  <2>1. Below(i) \in SUBSET S /\ Below(i) # S
    BY <1>2
  <2>2. IsFiniteSet(Below(i)) /\ Cardinality(Below(i)) <= n /\ Cardinality(Below(i)) # n
    BY <2>1, FS_Subset
  <2>3. Cardinality(Below(i)) \in Nat
    BY <2>2, FS_CardinalityType
  <2>4. QED
    BY <1>1, <2>2, <2>3
<1>3. ASSUME NEW i \in S, NEW l \in S, i < l
      PROVE  Cardinality(Below(i)) # Cardinality(Below(l))
  <2>1. Below(i) \in SUBSET Below(l) /\ i \in Below(l) /\ i \notin Below(i)
    <3>1. i \in Int /\ l \in Int /\ \A j \in S : j \in Int
      OBVIOUS
    <3>2. ASSUME NEW j \in S, j < i PROVE j < l
      BY <1>3, <3>1, <3>2
    <3>3. Below(i) \in SUBSET Below(l)
      BY <3>2
    <3>4. i \in Below(l) /\ i \notin Below(i)
      BY <1>3, <3>1
    <3>5. QED
      BY <3>3, <3>4
  <2>2. IsFiniteSet(Below(l))
    BY <1>2
  <2>3. Below(i) # Below(l)
    BY <2>1
  <2> HIDE DEF Below
  <2>4. QED
    BY <2>1, <2>2, <2>3, FS_Subset
<1>4. ASSUME NEW i \in S, NEW l \in S, i # l
      PROVE  Cardinality(Below(i)) # Cardinality(Below(l))
  <2>1. i < l \/ l < i
    BY <1>4
  <2> HIDE DEF Below
  <2>2. QED
    BY <1>3, <2>1
<1>5. r \in Injection(S, 0 .. n - 1)
  <2>1. r \in [S -> 0 .. n - 1]
    BY <1>1, <1>2
  <2>2. \A i \in S : r[i] = Cardinality(Below(i))
    OBVIOUS
  <2> HIDE DEF r, Below, n
  <2>3. \A i, l \in S : r[i] = r[l] => i = l
    BY <1>4, <2>2
  <2>4. QED
    BY <2>1, <2>3 DEF Injection, IsInjective
<1>6. IsFiniteSet(0 .. n - 1) /\ Cardinality(0 .. n - 1) = n
  <2> HIDE DEF n
  <2>1. 0 \in Int /\ n - 1 \in Int
    BY <1>1
  <2>2. IsFiniteSet(0 .. n - 1) /\ Cardinality(0 .. n - 1) = IF 0 > n - 1 THEN 0 ELSE n - 1 - 0 + 1
    BY <2>1, FS_Interval
  <2>3. QED
    BY <1>1, <2>2
<1>7. r \in Surjection(S, 0 .. n - 1)
  <2> HIDE DEF r
  <2>1. QED
    BY <1>5, <1>6, FS_Injection
<1>8. \E i \in S : r[i] = k
  <2> HIDE DEF r
  <2>1. k \in 0 .. n - 1
    BY <1>1
  <2>2. QED
    BY <1>7, <2>1 DEF Surjection
<1>9. QED
  BY <1>8

LEMMA LowestIs ==
  ASSUME NEW S \in SUBSET Int, IsFiniteSet(S), NEW k \in Nat, k < Cardinality(S)
  PROVE  V!Lowest(S, k) \in S
<1>1. PICK i \in S : Cardinality({j \in S : j < i}) = k
  BY RankIs
<1>2. V!Cardinality({j \in S : j < i}) = k
  BY <1>1, CardIs
<1>3. QED
  BY <1>2, Zenon DEF V!Lowest

\* y is x but for its pages.
SameBut(x, y) ==
  /\ y.mem = x.mem /\ y.kref = x.kref /\ y.handle = x.handle /\ y.off = x.off
  /\ y.live = x.live /\ y.slot = x.slot /\ y.by = x.by
  /\ y.io_reserved_vm = x.io_reserved_vm /\ y.bus = x.bus /\ y.to = x.to /\ y.new = x.new
  /\ y.todo = x.todo

Got(x, y, want) ==
  /\ y \in BufferType /\ SameBut(x, y)
  /\ \A p \in V!Pages : x.pages[p] # -1 => y.pages[p] = x.pages[p]
  /\ \A p \in want : y.pages[p] # -1

\* __ttm_tt_get_page keeps the pages there are and finds the others.
LEMMA GotPages ==
  ASSUME MapTypeOK, NEW b \in Vbufs, NEW w \in SUBSET V!Pages, V!CanGet(b, w)
  PROVE  Got(vbo[b], V!ttm_tt_get_pages(b, V!Wanted(b, w)), w)
<1> DEFINE x == vbo[b]
           free == V!FreePages(vbo)
           missing == V!MissingPages(x) \cap V!Wanted(b, w)
           Rank(p) == V!Cardinality({q \in missing : q < p})
           Page(p) == V!Lowest(free, Rank(p))
           g == [p \in V!Pages |-> IF p \in missing THEN Page(p) ELSE x.pages[p]]
           y == V!ttm_tt_get_pages(b, V!Wanted(b, w))
<1>1. x \in BufferType /\ x.pages \in [V!Pages -> Int]
  BY DEF MapTypeOK, BufferType
<1>2. free \in SUBSET Int /\ IsFiniteSet(free) /\ -1 \notin free
  <2>1. PhysPages - 1 \in Int
    BY VmAssumption
  <2>2. IsFiniteSet(0 .. PhysPages - 1)
    BY <2>1, FS_Interval
  <2>3. free \in SUBSET (0 .. PhysPages - 1)
    BY DEF V!FreePages
  <2>4. IsFiniteSet(free)
    BY <2>2, <2>3, FS_Subset
  <2>5. free \in SUBSET Int /\ -1 \notin free
    BY <2>1, <2>3
  <2>6. QED
    BY <2>4, <2>5
<1>3. missing \in SUBSET V!Pages /\ IsFiniteSet(missing)
  <2>1. missing \in SUBSET V!Pages
    BY DEF V!MissingPages
  <2>2. BufPages - 1 \in Int
    BY VmAssumption
  <2>3. IsFiniteSet(V!Pages)
    BY <2>2, FS_Interval DEF V!Pages
  <2>4. QED
    BY <2>1, <2>3, FS_Subset
<1>4. Cardinality(missing) <= Cardinality(free)
  BY CardIs DEF V!CanGet
<1> HIDE DEF free, missing
<1>5. ASSUME NEW p \in missing PROVE Page(p) \in free
  <2>1. {q \in missing : q < p} \in SUBSET missing /\ {q \in missing : q < p} # missing
    <3>1. p \in Int
      BY <1>3, <1>5, VmAssumption DEF V!Pages
    <3>2. QED
      BY <1>5, <3>1
  <2> DEFINE B == {q \in missing : q < p}
  <2>2. IsFiniteSet(B) /\ Cardinality(B) <= Cardinality(missing) /\ Cardinality(B) # Cardinality(missing)
    BY <1>3, <2>1, FS_Subset
  <2>3. Rank(p) = Cardinality(B)
    BY CardIs
  <2> HIDE DEF B, Rank
  <2>4. Cardinality(B) \in Nat /\ Cardinality(missing) \in Nat /\ Cardinality(free) \in Nat
    BY <1>2, <1>3, <2>2, FS_CardinalityType
  <2>5. Rank(p) \in Nat /\ Rank(p) < Cardinality(free)
    BY <1>4, <2>2, <2>3, <2>4
  <2>6. QED
    BY <1>2, <2>5, LowestIs
<1> HIDE DEF Page
<1>6. g \in [V!Pages -> Int]
  BY <1>1, <1>2, <1>5
<1>7. y = [x EXCEPT !.swapped = FALSE, !.pages = g]
  BY DEF V!ttm_tt_get_pages, missing, free, Page
<1>8. \A p \in V!Pages : x.pages[p] # -1 => g[p] = x.pages[p]
  BY DEF missing, V!MissingPages
<1>9. \A p \in w : g[p] # -1
  <2>1. \A p \in w : p \in V!Pages /\ (x.pages[p] = -1 => p \in missing)
    BY DEF missing, V!MissingPages, V!Wanted
  <2>2. QED
    BY <1>2, <1>5, <2>1
<1> HIDE DEF g
<1>10. y \in BufferType /\ SameBut(x, y) /\ y.pages = g
  <2> HIDE DEF y, x
  <2>1. QED
    BY <1>1, <1>6, <1>7 DEF BufferType, SameBut
<1>11. QED
  BY <1>8, <1>9, <1>10 DEF Got

-----------------------------------------------------------------------------
(* Steps of a buffer and of its mappings. *)

\* What a mapping sees of its buffer.
Alike(x, y) ==
  /\ y.mem = x.mem /\ y.slot = x.slot /\ y.pages = x.pages /\ y.off = x.off /\ y.by = x.by
  /\ y.io_reserved_vm = x.io_reserved_vm /\ y.to = x.to /\ y.todo = x.todo

LEMMA AlikeMaps ==
  ASSUME NEW v, NEW m, NEW x, NEW y, Mapping(v, m, x), Alike(x, y)
  PROVE  Mapping(v, m, y)
  BY DEF Mapping, Alike, Place, Copied

LEMMA TypeIs ==
  ASSUME MapTypeOK
  PROVE  /\ \A b \in Vbufs :
              /\ vbo[b] \in BufferType /\ vbo[b].kref \in Int /\ vbo[b].off \in Int
              /\ vbo[b].slot \in Int /\ vbo[b].pages \in [V!Pages -> Int]
              /\ vbo[b].handle \in BOOLEAN /\ vbo[b].by \in Vmas \cup {"mover", NoOne}
         /\ \A v \in Vmas :
              /\ vma[v] \in MappingType /\ vma[v].bo \in Vbufs \cup {NoOne}
              /\ vma[v].pte \in [V!Pages -> Entries] /\ vma[v].at \in Int /\ vma[v].n \in Int
              /\ vma[v].pgoff \in Int /\ vma[v].len \in Int /\ vma[v].pc \in {"idle", "insert"}
  BY DEF MapTypeOK, BufferType, MappingType

LEMMA MapsAre ==
  ASSUME NEW b
  PROVE  IsFiniteSet(MapsOf(b)) /\ Cardinality(MapsOf(b)) \in Nat
<1>1. MapsOf(b) \in SUBSET Vmas
  BY DEF MapsOf
<1>2. QED
  BY <1>1, VmAssumption, FS_Subset, FS_CardinalityType

\* A buffer without references has neither handle nor mappings.
LEMMA Unreferenced ==
  ASSUME MapTypeOK, NEW b \in Vbufs, Counted(b), vbo[b].kref = 0
  PROVE  ~vbo[b].handle /\ MapsOf(b) = {} /\ Cardinality(MapsOf(b)) = 0
<1> DEFINE n == Cardinality(MapsOf(b))
<1>1. n \in Nat
  BY MapsAre
<1>2. n = 0 /\ ~vbo[b].handle
  <2>1. 0 = n + (IF vbo[b].handle THEN 1 ELSE 0)
    BY DEF Counted
  <2> HIDE DEF n
  <2>2. QED
    BY <1>1, <2>1
<1>3. QED
  BY <1>2, MapsAre, FS_EmptySet

\* The step of one buffer, b, with some mappings.
LEMMA BufferStep ==
  ASSUME Mapped, NEW b \in Vbufs, NEW y \in BufferType, Buffer(y),
         vbo' = [vbo EXCEPT ![b] = y], vma' \in [Vmas -> MappingType], Counted(b)',
         \A c \in Vbufs \ {b} : MapsOf(c)' = MapsOf(c),
         \A v \in Vmas : vma'[v].bo = NoOne => vma'[v].pc = "idle",
         \A v \in Vmas : vma'[v].bo = b => Mapping(v, vma'[v], y),
         \A v \in Vmas : vma'[v].bo \in Vbufs \ {b} =>
                           Mapping(v, vma'[v], vbo[vma'[v].bo])
  PROVE  Mapped'
<1>1. vbo' \in [Vbufs -> BufferType] /\ vbo'[b] = y /\ \A c \in Vbufs \ {b} : vbo'[c] = vbo[c]
  BY DEF Mapped, MapTypeOK
<1>2. MapTypeOK'
  BY <1>1 DEF MapTypeOK
<1>3. ASSUME NEW c \in Vbufs PROVE Counted(c)' /\ Buffer(vbo'[c])
  <2>1. CASE c = b
    BY <1>1, <2>1
  <2>2. CASE c # b
    <3>1. vbo'[c] = vbo[c] /\ MapsOf(c)' = MapsOf(c)
      BY <1>1, <2>2
    <3>2. Counted(c) /\ Buffer(vbo[c])
      BY DEF Mapped
    <3>3. QED
      BY <3>1, <3>2 DEF Counted
  <2>3. QED
    BY <2>1, <2>2
<1>4. ASSUME NEW v \in Vmas, vma'[v].bo # NoOne PROVE Mapping(v, vma'[v], vbo'[vma'[v].bo])
  <2>1. vma'[v].bo \in Vbufs
    BY <1>4 DEF MappingType
  <2>2. CASE vma'[v].bo = b
    BY <1>1, <2>2
  <2>3. CASE vma'[v].bo # b
    BY <1>1, <2>1, <2>3
  <2>4. QED
    BY <2>2, <2>3
<1>5. QED
  BY <1>2, <1>3, <1>4 DEF Mapped

\* The step of a buffer alone.
LEMMA AloneStep ==
  ASSUME Mapped, NEW b \in Vbufs, NEW y \in BufferType, Buffer(y),
         vbo' = [vbo EXCEPT ![b] = y], UNCHANGED vma,
         y.kref = Cardinality(MapsOf(b)) + (IF y.handle THEN 1 ELSE 0),
         \A v \in Vmas : vma[v].bo = b => Mapping(v, vma[v], y)
  PROVE  Mapped'
<1>1. vbo'[b] = y
  BY DEF Mapped, MapTypeOK
<1>2. \A c : MapsOf(c)' = MapsOf(c)
  BY DEF MapsOf
<1>3. Counted(b)'
  BY <1>1, <1>2 DEF Counted
<1>4. vma' \in [Vmas -> MappingType]
  BY DEF Mapped, MapTypeOK
<1>5. /\ \A v \in Vmas : vma'[v].bo = NoOne => vma'[v].pc = "idle"
      /\ \A v \in Vmas : vma'[v].bo = b => Mapping(v, vma'[v], y)
  BY DEF Mapped
<1>6. \A v \in Vmas : vma'[v].bo \in Vbufs \ {b} => Mapping(v, vma'[v], vbo[vma'[v].bo])
  BY VmAssumption DEF Mapped
<1>7. QED
  BY <1>2, <1>3, <1>4, <1>5, <1>6, BufferStep

LEMMA TodoIs ==
  ASSUME NEW x \in BufferType, x.todo # <<>>
  PROVE  /\ Head(x.todo) = "unmap" =>
              \/ x.todo = <<"unmap", "move">> /\ Tail(x.todo) = <<"move">>
              \/ x.todo = <<"unmap", "swap">> /\ Tail(x.todo) = <<"swap">>
         /\ Head(x.todo) = "move" => x.todo = <<"move">>
         /\ Head(x.todo) = "swap" => x.todo = <<"swap">>
<1>1. x.todo \in {<<"unmap", "move">>, <<"move">>, <<"unmap", "swap">>, <<"swap">>}
  BY DEF BufferType, Todos
<1>2. /\ Head(<<"unmap", "move">>) = "unmap" /\ Tail(<<"unmap", "move">>) = <<"move">>
      /\ Head(<<"unmap", "swap">>) = "unmap" /\ Tail(<<"unmap", "swap">>) = <<"swap">>
      /\ Head(<<"move">>) = "move" /\ Head(<<"swap">>) = "swap"
  OBVIOUS
<1> DEFINE t == x.todo
<1>3. t \in {<<"unmap", "move">>, <<"move">>, <<"unmap", "swap">>, <<"swap">>}
  BY <1>1
<1> HIDE DEF t
<1>4. CASE t = <<"unmap", "move">>
  BY <1>2, <1>4 DEF t
<1>5. CASE t = <<"move">>
  BY <1>2, <1>5 DEF t
<1>6. CASE t = <<"unmap", "swap">>
  BY <1>2, <1>6 DEF t
<1>7. CASE t = <<"swap">>
  BY <1>2, <1>7 DEF t
<1>8. QED
  BY <1>3, <1>4, <1>5, <1>6, <1>7

-----------------------------------------------------------------------------
(* Buffers and their references. *)

LEMMA NoBufferIs ==
  V!NoBuffer \in BufferType /\ Buffer(V!NoBuffer) /\ V!NoBuffer.kref = 0 /\ ~V!NoBuffer.handle
<1>1. V!NoBuffer \in BufferType
  BY DEF V!NoBuffer, V!NoPages, BufferType, Places, Todos
<1>2. Buffer(V!NoBuffer) /\ V!NoBuffer.kref = 0 /\ ~V!NoBuffer.handle
  BY VmAssumption DEF V!NoBuffer, Buffer
<1>3. QED
  BY <1>1, <1>2

LEMMA SetupStep ==
  ASSUME Mapped, NEW b \in Vbufs, V!ttm_bo_setup_vm(b)
  PROVE  Mapped'
<1>1. vbo[b] = V!NoBuffer /\ UNCHANGED vma
  BY DEF V!ttm_bo_setup_vm
<1>2. PICK a \in Addrs :
        vbo' = [vbo EXCEPT ![b] = [vbo[b] EXCEPT !.mem = "system", !.kref = 1, !.handle = TRUE,
                                                 !.off = a, !.live = TRUE]]
  BY DEF V!ttm_bo_setup_vm, Mapped, MapTypeOK
<1> DEFINE x == V!NoBuffer
           y == [x EXCEPT !.mem = "system", !.kref = 1, !.handle = TRUE, !.off = a, !.live = TRUE]
<1>3. y \in BufferType /\ y.kref = 1 /\ y.handle = TRUE
  <2>1. a \in Int /\ x \in BufferType /\ "system" \in Places
    BY VmAssumption, NoBufferIs DEF Places
  <2> HIDE DEF x
  <2>2. 1 \in Int
    OBVIOUS
  <2>3. QED
    BY <2>1, <2>2, Zenon DEF BufferType
<1>4. Buffer(y)
  BY VmAssumption DEF V!NoBuffer, Buffer, V!vmw_ttm_io_mem_reserve
<1>5. MapTypeOK /\ Counted(b) /\ vbo[b].kref = 0
  BY <1>1, NoBufferIs DEF Mapped
<1>6. MapsOf(b) = {} /\ Cardinality(MapsOf(b)) = 0
  BY <1>5, Unreferenced
<1>7. vbo' = [vbo EXCEPT ![b] = y]
  BY <1>1, <1>2
<1>8. \A v \in Vmas : vma[v].bo # b
  BY <1>6 DEF MapsOf
<1> HIDE DEF y
<1>9. y.kref = Cardinality(MapsOf(b)) + (IF y.handle THEN 1 ELSE 0)
  BY <1>3, <1>6
<1>10. QED
  BY <1>1, <1>3, <1>4, <1>7, <1>8, <1>9, AloneStep

\* One reference less.
LEMMA UnrefIs ==
  ASSUME NEW x \in BufferType, Buffer(x), x.kref # 0
  PROVE  /\ V!Unref(x) \in BufferType /\ Buffer(V!Unref(x))
         /\ V!Unref(x).kref = x.kref - 1 /\ V!Unref(x).handle = x.handle
         /\ x.kref # 1 => Alike(x, V!Unref(x))
<1> DEFINE z == [x EXCEPT !.kref = x.kref - 1]
<1>1. z \in BufferType /\ z.kref = x.kref - 1 /\ z.handle = x.handle /\ Alike(x, z) /\ z.live = x.live
      /\ z.bus = x.bus /\ z.new = x.new
  BY DEF BufferType, Alike
<1>2. V!Unref(x) = IF z.kref = 0 THEN V!ttm_bo_release(z) ELSE z
  BY DEF V!Unref
<1>3. x.kref \in Int
  BY DEF BufferType
<1>4. CASE x.kref = 1
  <2> DEFINE r == [z EXCEPT !.live = FALSE]
             s == [r EXCEPT !.io_reserved_vm = FALSE, !.bus = -1]
  <2> HIDE DEF z
  <2>1. r \in BufferType /\ r.kref = 0 /\ r.handle = x.handle /\ Alike(x, r) /\ r.live = FALSE
        /\ r.new = x.new
    <3>1. z.kref = 0
      BY <1>1, <1>3, <1>4
    <3>2. r \in BufferType /\ r.live = FALSE
      BY <1>1, Zenon DEF BufferType
    <3>3. r.kref = z.kref /\ r.handle = z.handle /\ r.new = z.new /\ Alike(z, r)
      BY <1>1, Zenon DEF BufferType, Alike
    <3> HIDE DEF r
    <3>4. QED
      BY <1>1, <3>1, <3>2, <3>3 DEF Alike
  <2> HIDE DEF r
  <2>2. s \in BufferType /\ s.kref = 0 /\ s.handle = x.handle /\ s.live = FALSE
        /\ s.new = x.new /\ s.mem = x.mem /\ s.slot = x.slot /\ s.to = x.to /\ s.todo = x.todo
        /\ s.by = x.by /\ s.io_reserved_vm = FALSE /\ s.bus = -1
    <3>1. s \in BufferType
      <4>1. -1 \in Int
        OBVIOUS
      <4>2. QED
        BY <2>1, <4>1, Zenon DEF BufferType
    <3>2. /\ s.kref = r.kref /\ s.handle = r.handle /\ s.live = r.live /\ s.new = r.new
          /\ s.mem = r.mem /\ s.slot = r.slot /\ s.to = r.to /\ s.todo = r.todo /\ s.by = r.by
          /\ s.io_reserved_vm = FALSE /\ s.bus = -1
      BY <2>1 DEF BufferType
    <3> HIDE DEF s
    <3>3. QED
      BY <2>1, <3>1, <3>2 DEF Alike
  <2>3. V!Unref(x) = s
    BY <1>1, <1>2, <1>4 DEF V!ttm_bo_release, V!ttm_mem_io_free_vm, r
  <2> HIDE DEF s
  <2>4. Buffer(s)
    BY <2>2 DEF Buffer
  <2>5. QED
    BY <1>4, <2>2, <2>3, <2>4
<1>5. CASE x.kref # 1
  <2> HIDE DEF z
  <2>1. V!Unref(x) = z
    BY <1>1, <1>2, <1>3, <1>5
  <2>2. Buffer(z)
    BY <1>1, <1>3, <1>5 DEF Buffer, Alike, V!vmw_ttm_io_mem_reserve
  <2>3. QED
    BY <1>1, <2>1, <2>2
<1>6. QED
  BY <1>4, <1>5

LEMMA UnrefStep ==
  ASSUME Mapped, NEW b \in Vbufs, V!ttm_bo_unref(b)
  PROVE  Mapped'
<1> DEFINE x == [vbo[b] EXCEPT !.handle = FALSE]
           y == V!Unref(x)
           n == Cardinality(MapsOf(b))
<1>1. vbo[b].handle /\ vbo' = [vbo EXCEPT ![b] = y] /\ UNCHANGED vma
  BY DEF V!ttm_bo_unref, Mapped, MapTypeOK
<1>2. vbo[b] \in BufferType /\ Counted(b) /\ Buffer(vbo[b])
  BY TypeIs DEF Mapped
<1>3. x \in BufferType /\ x.kref = vbo[b].kref /\ x.handle = FALSE /\ Alike(vbo[b], x)
      /\ x.live = vbo[b].live /\ x.bus = vbo[b].bus /\ x.new = vbo[b].new
  BY <1>2 DEF BufferType, Alike
<1>4. n \in Nat /\ x.kref = n + 1
  BY <1>1, <1>2, <1>3, MapsAre DEF Counted
<1> HIDE DEF x, n
<1>5. Buffer(x)
  BY <1>2, <1>3 DEF Buffer, Alike, V!vmw_ttm_io_mem_reserve
<1>6. /\ y \in BufferType /\ Buffer(y) /\ y.kref = n /\ y.handle = FALSE
      /\ n # 0 => Alike(x, y)
  BY <1>3, <1>4, <1>5, UnrefIs
<1> HIDE DEF y
<1>7. y.kref = Cardinality(MapsOf(b)) + (IF y.handle THEN 1 ELSE 0)
  BY <1>4, <1>6 DEF n
<1>8. ASSUME NEW v \in Vmas, vma[v].bo = b PROVE Mapping(v, vma[v], y)
  <2>1. v \in MapsOf(b)
    BY <1>8 DEF MapsOf
  <2>2. n # 0
    BY <2>1, MapsAre, FS_EmptySet DEF n
  <2>3. Mapping(v, vma[v], vbo[b])
    BY <1>8, VmAssumption DEF Mapped
  <2>4. QED
    BY <1>3, <1>6, <2>2, <2>3, AlikeMaps
<1>9. QED
  BY <1>1, <1>6, <1>7, <1>8, AloneStep

LEMMA CleanupStep ==
  ASSUME Mapped, NEW b \in Vbufs, V!ttm_bo_cleanup_refs(b)
  PROVE  Mapped'
<1>1. vbo[b].kref = 0 /\ UNCHANGED vma /\ vbo' = [vbo EXCEPT ![b] = V!NoBuffer]
  BY DEF V!ttm_bo_cleanup_refs
<1>2. MapsOf(b) = {} /\ Cardinality(MapsOf(b)) = 0
  BY <1>1, Unreferenced DEF Mapped
<1>3. \A v \in Vmas : vma[v].bo # b
  BY <1>2 DEF MapsOf
<1>4. V!NoBuffer.kref = Cardinality(MapsOf(b)) + (IF V!NoBuffer.handle THEN 1 ELSE 0)
  BY <1>2, NoBufferIs
<1>5. QED
  BY <1>1, <1>3, <1>4, NoBufferIs, AloneStep

-----------------------------------------------------------------------------
(* Moves and swapping out. *)

LEMMA Joined ==
  ASSUME NEW A, NEW p \in A, NEW q \in A
  PROVE  <<p>> \o <<q>> = <<p, q>>
<1> DEFINE c == <<p>> \o <<q>>
<1>1. c \in Seq(A) /\ Len(c) = 2
  OBVIOUS
<1>2. c[1] = p
  OBVIOUS
<1>3. c[2] = q
  OBVIOUS
<1>4. <<p, q>> \in Seq(A) /\ Len(<<p, q>>) = 2
  OBVIOUS
<1>5. c = <<p, q>>
  <2> HIDE DEF c
  <2>1. QED
    BY <1>1, <1>2, <1>3, <1>4
<1>6. QED
  BY <1>5 DEF c

LEMMA TodosDiffer ==
  /\ <<"unmap", "move">> # <<"move">> /\ <<"unmap", "move">> # <<"swap">>
  /\ <<"unmap", "swap">> # <<"move">> /\ <<"unmap", "swap">> # <<"swap">>
  /\ <<"move">> # <<"swap">> /\ <<"unmap", "move">> # <<>> /\ <<"unmap", "swap">> # <<>>
  /\ <<"move">> # <<>> /\ <<"swap">> # <<>>
  /\ <<>> \o <<"move">> = <<"move">> /\ <<"unmap">> \o <<"move">> = <<"unmap", "move">>
<1>1. /\ Len(<<"unmap", "move">>) = 2 /\ Len(<<"unmap", "swap">>) = 2 /\ Len(<<"move">>) = 1
      /\ Len(<<"swap">>) = 1 /\ Len(<<>>) = 0
  OBVIOUS
<1>2. /\ <<"unmap", "move">> # <<"move">> /\ <<"unmap", "move">> # <<"swap">>
      /\ <<"unmap", "swap">> # <<"move">> /\ <<"unmap", "swap">> # <<"swap">>
      /\ <<"unmap", "move">> # <<>> /\ <<"unmap", "swap">> # <<>>
      /\ <<"move">> # <<>> /\ <<"swap">> # <<>>
  BY <1>1
<1>3. <<"move">> # <<"swap">>
  OBVIOUS
<1>4. <<>> \o <<"move">> = <<"move">>
  OBVIOUS
<1>5. <<"unmap">> \o <<"move">> = <<"unmap", "move">>
  <2>1. "unmap" \in {"unmap", "move"} /\ "move" \in {"unmap", "move"}
    OBVIOUS
  <2>2. QED
    BY <2>1, Joined
<1>6. QED
  BY <1>2, <1>3, <1>4, <1>5

\* Nobody inserts pages of a buffer that somebody else has reserved, or nobody.
LEMMA NotInserting ==
  ASSUME Mapped, NEW v \in Vmas, NEW b \in Vbufs, vma[v].bo = b, vbo[b].by \notin Vmas
  PROVE  Mapping(v, vma[v], vbo[b]) /\ vma[v].pc # "insert"
<1>1. Mapping(v, vma[v], vbo[b])
  BY VmAssumption DEF Mapped
<1>2. QED
  BY <1>1 DEF Mapping

\* The step of a buffer that keeps its users and on which no pages are inserted.
LEMMA BusyStep ==
  ASSUME Mapped, NEW b \in Vbufs, NEW y \in BufferType, Buffer(y),
         vbo' = [vbo EXCEPT ![b] = y], UNCHANGED vma, vbo[b].by \notin Vmas,
         y.kref = vbo[b].kref, y.handle = vbo[b].handle, y.off = vbo[b].off,
         \A i \in V!Pages :
           Place(vbo[b], i) # <<"ram", -1>> /\ ~Copied(vbo[b]) =>
             Place(y, i) = Place(vbo[b], i) /\ ~Copied(y)
  PROVE  Mapped'
<1>1. y.kref = Cardinality(MapsOf(b)) + (IF y.handle THEN 1 ELSE 0)
  BY DEF Mapped, Counted
<1>2. ASSUME NEW v \in Vmas, vma[v].bo = b PROVE Mapping(v, vma[v], y)
  <2>1. Mapping(v, vma[v], vbo[b]) /\ vma[v].pc # "insert"
    BY <1>2, NotInserting
  <2>2. ASSUME NEW i \in V!Pages, vma[v].pte[i] # <<>>
        PROVE  /\ vma[v].pte[i] = Place(y, i) /\ vma[v].pte[i] # <<"ram", -1>> /\ ~Copied(y)
    BY <2>1, <2>2 DEF Mapping
  <2>3. QED
    BY <2>1, <2>2 DEF Mapping
<1>3. QED
  BY <1>1, <1>2, AloneStep

LEMMA MoveBegins ==
  ASSUME Mapped, NEW b \in Vbufs, NEW to \in {"system", "gmr", "vram"},
         V!ttm_bo_handle_move_mem(b, to)
  PROVE  Mapped'
<1> DEFINE x == vbo[b]
           t == V!UnmapSteps(x.mem, to) \o <<"move">>
<1>1. x \in BufferType /\ Buffer(x) /\ x.by = NoOne /\ x.kref > 0 /\ UNCHANGED vma
  BY TypeIs DEF V!ttm_bo_handle_move_mem, Mapped
<1>2. PICK slot \in (IF to = "vram" THEN Slots ELSE {-1}) :
        vbo' = [vbo EXCEPT ![b].by = "mover", ![b].to = to, ![b].new = slot, ![b].todo = t]
  BY DEF V!ttm_bo_handle_move_mem
<1> DEFINE y == [x EXCEPT !.by = "mover", !.to = to, !.new = slot, !.todo = t]
<1>3. vbo' = [vbo EXCEPT ![b] = y]
  BY <1>2 DEF Mapped, MapTypeOK
<1>4. /\ t = IF V!Unmaps(x.mem, to) THEN <<"unmap", "move">> ELSE <<"move">>
      /\ t \in Todos /\ t # <<>>
  BY TodosDiffer DEF V!UnmapSteps, Todos
<1>5. slot \in Int /\ (to = "vram" => slot \in Nat) /\ to \in Places
      /\ "mover" \in Vmas \cup {"mover", NoOne}
  BY VmAssumption DEF Places
<1> HIDE DEF x, t
<1>6. y \in BufferType
  BY <1>1, <1>4, <1>5, Zenon DEF BufferType
<1>7. /\ y.by = "mover" /\ y.to = to /\ y.new = slot /\ y.todo = t
      /\ y.mem = x.mem /\ y.kref = x.kref /\ y.handle = x.handle /\ y.off = x.off
      /\ y.live = x.live /\ y.slot = x.slot /\ y.pages = x.pages /\ y.bus = x.bus
      /\ y.io_reserved_vm = x.io_reserved_vm
  BY <1>1, Zenon DEF BufferType
<1> HIDE DEF y
<1>8. Buffer(y)
  BY <1>1, <1>4, <1>5, <1>7 DEF Buffer, V!vmw_ttm_io_mem_reserve
<1>9. ~Copied(y)
  BY <1>4, <1>7, TodosDiffer DEF Copied
<1>10. \A i \in V!Pages : Place(y, i) = Place(x, i)
  BY <1>7 DEF Place
<1>11. x.by \notin Vmas
  BY <1>1, VmAssumption
<1>12. QED
  BY <1>1, <1>3, <1>6, <1>7, <1>8, <1>9, <1>10, <1>11, BusyStep DEF x

LEMMA SwapBegins ==
  ASSUME Mapped, NEW b \in Vbufs, V!ttm_bo_swapout(b)
  PROVE  Mapped'
<1> DEFINE x == vbo[b]
           t == <<"unmap", "swap">>
           y == [x EXCEPT !.by = "mover", !.mem = "system", !.todo = t]
<1>1. x \in BufferType /\ Buffer(x) /\ x.by = NoOne /\ x.mem # "vram" /\ UNCHANGED vma
  BY TypeIs DEF V!ttm_bo_swapout, Mapped
<1>2. vbo' = [vbo EXCEPT ![b] = y]
  BY DEF V!ttm_bo_swapout, Mapped, MapTypeOK
<1>3. t \in Todos /\ t # <<>> /\ t # <<"move">> /\ t # <<"swap">>
  BY TodosDiffer DEF Todos
<1>4. "system" \in Places /\ "mover" \in Vmas \cup {"mover", NoOne}
  BY DEF Places
<1> HIDE DEF x, t
<1>5. y \in BufferType
  BY <1>1, <1>3, <1>4, Zenon DEF BufferType
<1>6. /\ y.by = "mover" /\ y.mem = "system" /\ y.todo = t
      /\ y.to = x.to /\ y.new = x.new /\ y.kref = x.kref /\ y.handle = x.handle /\ y.off = x.off
      /\ y.live = x.live /\ y.slot = x.slot /\ y.pages = x.pages /\ y.bus = x.bus
      /\ y.io_reserved_vm = x.io_reserved_vm
  BY <1>1, Zenon DEF BufferType
<1> HIDE DEF y
<1>7. Buffer(y)
  BY <1>1, <1>3, <1>6 DEF Buffer, V!vmw_ttm_io_mem_reserve
<1>8. ~Copied(y)
  BY <1>3, <1>6 DEF Copied
<1>9. \A i \in V!Pages : Place(y, i) = Place(x, i)
  BY <1>1, <1>6 DEF Place
<1>10. x.by \notin Vmas
  BY <1>1, VmAssumption
<1>11. QED
  BY <1>1, <1>2, <1>5, <1>6, <1>7, <1>8, <1>9, <1>10, BusyStep DEF x

\* What is left of a mapping when the range of a buffer is unmapped.
LEMMA UnmappedIs ==
  ASSUME Mapped, NEW b \in Vbufs, NEW v \in Vmas,
         vma' = V!ttm_bo_unmap_virtual_locked(b)
  PROVE  /\ vma'[v] \in MappingType /\ vma'[v].bo = vma[v].bo /\ vma'[v].pgoff = vma[v].pgoff
         /\ vma'[v].len = vma[v].len /\ vma'[v].pc = vma[v].pc /\ vma'[v].at = vma[v].at
         /\ \A i \in V!Pages : vma'[v].pte[i] = vma[v].pte[i] \/ vma'[v].pte[i] = <<>>
         /\ vma[v].bo = b => \A i \in V!Pages : vma'[v].pte[i] = <<>>
<1> DEFINE m == vma[v]
           In(p) == m.pgoff + p \in vbo[b].off .. vbo[b].off + BufPages - 1
           e == [p \in V!Pages |-> IF In(p) THEN <<>> ELSE m.pte[p]]
<1>1. m \in MappingType /\ m.pte \in [V!Pages -> Entries] /\ m.pgoff \in Int /\ vbo[b].off \in Int
  BY TypeIs DEF Mapped
<1>2. vma'[v] = IF m.bo = NoOne THEN m ELSE [m EXCEPT !.pte = e]
  BY DEF V!ttm_bo_unmap_virtual_locked
<1>3. e \in [V!Pages -> Entries] /\ \A i \in V!Pages : e[i] = m.pte[i] \/ e[i] = <<>>
  <2>1. <<>> \in Entries
    BY DEF Entries
  <2> HIDE DEF In
  <2>2. QED
    BY <1>1, <2>1
<1>4. m.bo = b => \A i \in V!Pages : e[i] = <<>>
  <2>1. SUFFICES ASSUME m.bo = b, NEW i \in V!Pages PROVE In(i)
    OBVIOUS
  <2>2. m.pgoff = vbo[b].off
    BY <2>1, VmAssumption DEF Mapped, Mapping
  <2>3. i \in 0 .. BufPages - 1 /\ BufPages \in Int
    BY VmAssumption DEF V!Pages
  <2>4. QED
    BY <1>1, <2>2, <2>3
<1> HIDE DEF e
<1>5. CASE m.bo = NoOne
  BY <1>1, <1>2, <1>5, VmAssumption
<1>6. CASE m.bo # NoOne
  <2> HIDE DEF m
  <2>1. /\ [m EXCEPT !.pte = e] \in MappingType /\ [m EXCEPT !.pte = e].bo = m.bo
        /\ [m EXCEPT !.pte = e].pgoff = m.pgoff /\ [m EXCEPT !.pte = e].len = m.len
        /\ [m EXCEPT !.pte = e].pc = m.pc /\ [m EXCEPT !.pte = e].at = m.at
        /\ [m EXCEPT !.pte = e].pte = e
    BY <1>1, <1>3, Zenon DEF MappingType
  <2>2. QED
    BY <1>2, <1>3, <1>4, <1>6, <2>1 DEF m
<1>7. QED
  BY <1>5, <1>6

LEMMA UnmapStep ==
  ASSUME Mapped, NEW b \in Vbufs, V!ttm_bo_unmap_virtual(b)
  PROVE  Mapped'
<1> DEFINE x == vbo[b]
           t == Tail(x.todo)
           z == [x EXCEPT !.io_reserved_vm = FALSE, !.bus = -1]
           y == [z EXCEPT !.todo = t]
<1>1. /\ x \in BufferType /\ Buffer(x) /\ Counted(b) /\ x.todo # <<>> /\ Head(x.todo) = "unmap"
      /\ vma' = V!ttm_bo_unmap_virtual_locked(b)
  BY TypeIs DEF V!ttm_bo_unmap_virtual, V!At, Mapped
<1>2. x.by = "mover" /\ x.by \notin Vmas
  BY <1>1, VmAssumption DEF Buffer
<1>3. t \in Todos /\ t # <<>>
  <2>1. t = <<"move">> \/ t = <<"swap">>
    BY <1>1, TodoIs
  <2>2. QED
    BY <2>1, TodosDiffer DEF Todos
<1>4. vbo' = [vbo EXCEPT ![b] = y]
  <2>1. y = V!Pop(V!ttm_mem_io_free_vm(x))
    <3>1. z = V!ttm_mem_io_free_vm(x) /\ z.todo = x.todo
      BY <1>1, Zenon DEF V!ttm_mem_io_free_vm, BufferType
    <3> HIDE DEF z
    <3>2. QED
      BY <3>1 DEF V!Pop
  <2>2. vbo' = [vbo EXCEPT ![b] = V!Pop(V!ttm_mem_io_free_vm(vbo[b]))]
    BY DEF V!ttm_bo_unmap_virtual
  <2> HIDE DEF y
  <2>3. QED
    BY <2>1, <2>2
<1>5. /\ y \in BufferType /\ y.io_reserved_vm = FALSE /\ y.bus = -1 /\ y.todo = t
      /\ y.mem = x.mem /\ y.kref = x.kref /\ y.handle = x.handle /\ y.off = x.off
      /\ y.live = x.live /\ y.slot = x.slot /\ y.to = x.to /\ y.new = x.new /\ y.by = x.by
  <2> HIDE DEF x, t
  <2>1. -1 \in Int
    OBVIOUS
  <2>2. QED
    BY <1>1, <1>3, <2>1, Zenon DEF BufferType
<1> HIDE DEF y, t, z
<1>6. Buffer(y)
  BY <1>1, <1>2, <1>3, <1>5 DEF Buffer
<1>7. \A v \in Vmas : /\ vma'[v] \in MappingType /\ vma'[v].bo = vma[v].bo
                      /\ vma'[v].pc = vma[v].pc
  BY <1>1, UnmappedIs
<1>8. vma' \in [Vmas -> MappingType]
  <2>1. vma' = [v \in Vmas |-> vma'[v]]
    BY <1>1 DEF V!ttm_bo_unmap_virtual_locked
  <2>2. QED
    BY <1>7, <2>1
<1>9. \A c : MapsOf(c)' = MapsOf(c)
  BY <1>7 DEF MapsOf
<1>10. Counted(b)'
  <2>1. vbo'[b] = y
    BY <1>4 DEF Mapped, MapTypeOK
  <2>2. QED
    BY <1>1, <1>5, <1>9, <2>1 DEF Counted
<1>11. \A v \in Vmas : vma'[v].bo = NoOne => vma'[v].pc = "idle"
  BY <1>7 DEF Mapped
<1>12. ASSUME NEW v \in Vmas, vma'[v].bo = b PROVE Mapping(v, vma'[v], y)
  <2>1. vma[v].bo = b
    BY <1>7, <1>12
  <2>2. Mapping(v, vma[v], x) /\ vma[v].pc # "insert"
    BY <1>2, <2>1, NotInserting
  <2>3. /\ vma'[v].pgoff = vma[v].pgoff /\ vma'[v].len = vma[v].len /\ vma'[v].pc = vma[v].pc
        /\ \A i \in V!Pages : vma'[v].pte[i] = <<>>
    BY <1>1, <2>1, UnmappedIs
  <2>4. QED
    BY <1>5, <2>2, <2>3 DEF Mapping
<1>13. ASSUME NEW v \in Vmas, vma'[v].bo \in Vbufs \ {b}
       PROVE  Mapping(v, vma'[v], vbo[vma'[v].bo])
  <2>1. vma'[v].bo = vma[v].bo /\ vma[v].bo # NoOne
    BY <1>7, <1>13, VmAssumption
  <2>2. Mapping(v, vma[v], vbo[vma[v].bo])
    BY <2>1 DEF Mapped
  <2>3. /\ vma'[v].pgoff = vma[v].pgoff /\ vma'[v].len = vma[v].len /\ vma'[v].pc = vma[v].pc
        /\ vma'[v].at = vma[v].at
        /\ \A i \in V!Pages : vma'[v].pte[i] = vma[v].pte[i] \/ vma'[v].pte[i] = <<>>
    BY <1>1, UnmappedIs
  <2>4. QED
    BY <2>1, <2>2, <2>3 DEF Mapping
<1>14. QED
  BY <1>4, <1>5, <1>6, <1>8, <1>9, <1>10, <1>11, <1>12, <1>13, BufferStep

\* Unreserving a buffer ends the work on it.
LEMMA UnreserveIs ==
  ASSUME NEW x \in BufferType, x.live <=> x.kref > 0, x.mem = "vram" => x.slot \in Nat,
         x.bus = (IF x.io_reserved_vm THEN V!vmw_ttm_io_mem_reserve(x) ELSE -1)
  PROVE  LET y == V!ttm_bo_unreserve(x) IN
         /\ y \in BufferType /\ Buffer(y) /\ y.kref = x.kref /\ y.handle = x.handle
         /\ y.off = x.off /\ y.mem = x.mem /\ y.slot = x.slot /\ y.pages = x.pages
         /\ y.todo = <<>> /\ ~Copied(y)
<1> DEFINE y == V!ttm_bo_unreserve(x)
<1>1. y = [x EXCEPT !.todo = <<>>, !.by = NoOne, !.to = "none", !.new = -1]
  BY DEF V!ttm_bo_unreserve
<1>2. <<>> \in Todos /\ NoOne \in Vmas \cup {"mover", NoOne} /\ "none" \in Places
  BY DEF Todos, Places
<1>3. -1 \in Int
  OBVIOUS
<1> HIDE DEF y
<1>4. y \in BufferType
  BY <1>1, <1>2, <1>3, Zenon DEF BufferType
<1>5. /\ y.kref = x.kref /\ y.handle = x.handle /\ y.off = x.off /\ y.mem = x.mem
      /\ y.slot = x.slot /\ y.pages = x.pages /\ y.live = x.live /\ y.bus = x.bus
      /\ y.io_reserved_vm = x.io_reserved_vm
      /\ y.todo = <<>> /\ y.by = NoOne /\ y.to = "none"
  BY <1>1, Zenon DEF BufferType
<1>6. Buffer(y)
  <2>1. NoOne # "mover"
    BY VmAssumption
  <2>2. V!vmw_ttm_io_mem_reserve(y) = V!vmw_ttm_io_mem_reserve(x)
    BY <1>5 DEF V!vmw_ttm_io_mem_reserve
  <2>3. QED
    BY <1>5, <2>1, <2>2 DEF Buffer
<1>7. ~Copied(y)
  BY <1>5, TodosDiffer DEF Copied
<1>8. QED
  BY <1>4, <1>5, <1>6, <1>7 DEF y

\* A buffer with the pages that its new place needs.
LEMMA PlacedIs ==
  ASSUME NEW x \in BufferType
  PROVE  LET y == V!Placed(x) IN
         /\ y \in BufferType /\ y.mem = x.to /\ y.slot = x.new /\ ~y.io_reserved_vm /\ y.bus = -1
         /\ y.kref = x.kref /\ y.handle = x.handle /\ y.off = x.off /\ y.live = x.live
         /\ y.pages = x.pages
<1> DEFINE y == V!Placed(x)
<1>1. y = [x EXCEPT !.mem = x.to, !.slot = x.new, !.io_reserved_vm = FALSE, !.bus = -1]
  BY DEF V!Placed
<1>2. x.to \in Places /\ x.new \in Int
  BY DEF BufferType
<1>3. -1 \in Int
  OBVIOUS
<1> HIDE DEF y
<1>4. y \in BufferType
  BY <1>1, <1>2, <1>3, Zenon DEF BufferType
<1>5. /\ y.mem = x.to /\ y.slot = x.new /\ y.io_reserved_vm = FALSE /\ y.bus = -1
      /\ y.kref = x.kref /\ y.handle = x.handle /\ y.off = x.off /\ y.live = x.live
      /\ y.pages = x.pages
  BY <1>1, Zenon DEF BufferType
<1>6. QED
  BY <1>4, <1>5 DEF y

LEMMA MovedIs ==
  ASSUME MapTypeOK, NEW b \in Vbufs, V!NeedsPages(vbo[b]) => V!CanGet(b, V!Pages)
  PROVE  LET x == vbo[b]
             y == V!MovedPages(b)
         IN /\ y \in BufferType /\ y.mem = x.to /\ y.slot = x.new /\ ~y.io_reserved_vm
            /\ y.bus = -1 /\ y.kref = x.kref /\ y.handle = x.handle /\ y.off = x.off
            /\ y.live = x.live
            /\ x.mem # "vram" /\ x.to # "vram" =>
                 \A i \in V!Pages : x.pages[i] # -1 => y.pages[i] = x.pages[i]
<1> DEFINE x == vbo[b]
           z == V!Placed(x)
           g == V!ttm_tt_get_pages(b, V!Pages)
<1>1. x \in BufferType
  BY TypeIs
<1>2. CASE x.to = "vram"
  <2> DEFINE y == [z EXCEPT !.pages = V!NoPages, !.swapped = FALSE]
  <2>1. V!MovedPages(b) = y
    BY <1>2 DEF V!MovedPages
  <2>2. V!NoPages \in [V!Pages -> Int]
    BY DEF V!NoPages
  <2>3. /\ z \in BufferType /\ z.mem = x.to /\ z.slot = x.new /\ ~z.io_reserved_vm /\ z.bus = -1
        /\ z.kref = x.kref /\ z.handle = x.handle /\ z.off = x.off /\ z.live = x.live
    BY <1>1, PlacedIs
  <2> HIDE DEF z
  <2>4. /\ y \in BufferType /\ y.mem = z.mem /\ y.slot = z.slot /\ y.bus = z.bus
        /\ y.io_reserved_vm = z.io_reserved_vm /\ y.kref = z.kref /\ y.handle = z.handle
        /\ y.off = z.off /\ y.live = z.live
    BY <2>2, <2>3, Zenon DEF BufferType
  <2> HIDE DEF y
  <2>5. QED
    BY <1>2, <2>1, <2>3, <2>4
<1>3. CASE x.to # "vram" /\ (x.to = "gmr" \/ x.mem = "vram")
  <2>1. V!NeedsPages(x)
    BY <1>3 DEF V!NeedsPages
  <2>2. V!Wanted(b, V!Pages) = V!Pages
    BY DEF V!Wanted
  <2>3. Got(x, g, V!Pages)
    BY <2>1, <2>2, GotPages
  <2>4. /\ g \in BufferType /\ g.to = x.to /\ g.new = x.new /\ g.kref = x.kref
        /\ g.handle = x.handle /\ g.off = x.off /\ g.live = x.live
        /\ \A i \in V!Pages : x.pages[i] # -1 => g.pages[i] = x.pages[i]
    BY <2>3 DEF Got, SameBut
  <2>5. V!MovedPages(b) = V!Placed(g)
    BY <1>3 DEF V!MovedPages
  <2> HIDE DEF g
  <2>6. QED
    BY <2>4, <2>5, PlacedIs
<1>4. CASE x.to # "vram" /\ ~(x.to = "gmr" \/ x.mem = "vram")
  <2>1. V!MovedPages(b) = z
    BY <1>4 DEF V!MovedPages
  <2>2. QED
    BY <1>1, <2>1, PlacedIs
<1>5. QED
  BY <1>2, <1>3, <1>4

LEMMA MoveStep ==
  ASSUME Mapped, NEW b \in Vbufs, V!ttm_bo_move_memcpy(b)
  PROVE  Mapped'
<1> DEFINE x == vbo[b]
           can == V!NeedsPages(x) => V!CanGet(b, V!Pages)
           z == IF can THEN V!MovedPages(b) ELSE x
           y == V!ttm_bo_unreserve(z)
<1>1. x \in BufferType /\ Buffer(x) /\ x.todo # <<>> /\ Head(x.todo) = "move" /\ UNCHANGED vma
  BY TypeIs DEF V!ttm_bo_move_memcpy, V!At, Mapped
<1>2. x.todo = <<"move">> /\ x.by \notin Vmas
  BY <1>1, TodoIs, VmAssumption DEF Buffer
<1>3. vbo' = [vbo EXCEPT ![b] = y]
  BY DEF V!ttm_bo_move_memcpy
<1>4. /\ z \in BufferType /\ z.kref = x.kref /\ z.handle = x.handle /\ z.off = x.off
      /\ z.live = x.live
      /\ z.mem = "vram" => z.slot \in Nat
      /\ z.bus = (IF z.io_reserved_vm THEN V!vmw_ttm_io_mem_reserve(z) ELSE -1)
      /\ x.mem # "vram" /\ x.to # "vram" =>
           z.mem # "vram" /\ \A i \in V!Pages : x.pages[i] # -1 => z.pages[i] = x.pages[i]
  <2>1. CASE can
    <3>1. z = V!MovedPages(b)
      BY <2>1
    <3>2. /\ z \in BufferType /\ z.mem = x.to /\ z.slot = x.new /\ ~z.io_reserved_vm
          /\ z.bus = -1 /\ z.kref = x.kref /\ z.handle = x.handle /\ z.off = x.off
          /\ z.live = x.live
          /\ x.mem # "vram" /\ x.to # "vram" =>
               \A i \in V!Pages : x.pages[i] # -1 => z.pages[i] = x.pages[i]
      <4> HIDE DEF z
      <4>1. QED
        BY <2>1, <3>1, MovedIs DEF Mapped
    <3> HIDE DEF z
    <3>3. QED
      BY <1>1, <3>2 DEF Buffer
  <2>2. CASE ~can
    <3>1. z = x
      BY <2>2
    <3> HIDE DEF z
    <3>2. QED
      BY <1>1, <3>1 DEF Buffer
  <2>3. QED
    BY <2>1, <2>2
<1> HIDE DEF z
<1>5. z.live <=> z.kref > 0
  BY <1>1, <1>4 DEF Buffer
<1>6. /\ y \in BufferType /\ Buffer(y) /\ y.kref = x.kref /\ y.handle = x.handle /\ y.off = x.off
      /\ y.mem = z.mem /\ y.pages = z.pages /\ ~Copied(y)
  BY <1>4, <1>5, UnreserveIs
<1> HIDE DEF y
<1>7. ASSUME NEW i \in V!Pages, Place(x, i) # <<"ram", -1>>, ~Copied(x)
      PROVE  Place(y, i) = Place(x, i)
  <2>1. x.mem # "vram" /\ x.to # "vram"
    BY <1>2, <1>7 DEF Copied, V!Unmaps, V!ttm_mem_reg_is_pci
  <2>2. x.pages[i] # -1
    BY <1>7, <2>1 DEF Place
  <2>3. y.mem # "vram" /\ y.pages[i] = x.pages[i]
    BY <1>4, <1>6, <2>1, <2>2
  <2>4. QED
    BY <2>1, <2>3 DEF Place
<1> HIDE DEF x
<1>8. QED
  BY <1>1, <1>2, <1>3, <1>6, <1>7, BusyStep DEF x

LEMMA SwapStep ==
  ASSUME Mapped, NEW b \in Vbufs, V!ttm_tt_swapout(b)
  PROVE  Mapped'
<1> DEFINE x == vbo[b]
           z == V!ttm_bo_unreserve(x)
           y == [z EXCEPT !.pages = V!NoPages, !.swapped = TRUE]
<1>1. x \in BufferType /\ Buffer(x) /\ x.todo # <<>> /\ Head(x.todo) = "swap" /\ UNCHANGED vma
  BY TypeIs DEF V!ttm_tt_swapout, V!At, Mapped
<1>2. x.todo = <<"swap">> /\ x.by \notin Vmas
  BY <1>1, TodoIs, VmAssumption DEF Buffer
<1>3. vbo' = [vbo EXCEPT ![b] = y]
  BY DEF V!ttm_tt_swapout
<1>4. /\ z \in BufferType /\ Buffer(z) /\ z.kref = x.kref /\ z.handle = x.handle /\ z.off = x.off
  BY <1>1, UnreserveIs DEF Buffer
<1>5. V!NoPages \in [V!Pages -> Int]
  BY DEF V!NoPages
<1> HIDE DEF z
<1>6. y \in BufferType
  BY <1>4, <1>5, Zenon DEF BufferType
<1>7. /\ y.kref = z.kref /\ y.handle = z.handle /\ y.off = z.off /\ y.live = z.live
      /\ y.mem = z.mem /\ y.slot = z.slot /\ y.bus = z.bus /\ y.to = z.to /\ y.new = z.new
      /\ y.io_reserved_vm = z.io_reserved_vm /\ y.todo = z.todo /\ y.by = z.by
  BY <1>4, Zenon DEF BufferType
<1> HIDE DEF y
<1>8. Buffer(y)
  BY <1>4, <1>7 DEF Buffer, V!vmw_ttm_io_mem_reserve
<1>9. Copied(x)
  BY <1>2 DEF Copied
<1>10. QED
  BY <1>1, <1>2, <1>3, <1>4, <1>6, <1>7, <1>8, <1>9, BusyStep

-----------------------------------------------------------------------------
(* Mappings come and go. *)

\* What a step of one mapping leaves of the others.
LEMMA OthersAre ==
  ASSUME MapTypeOK, NEW v \in Vmas, NEW m \in MappingType, vma' = [vma EXCEPT ![v] = m]
  PROVE  /\ vma' \in [Vmas -> MappingType] /\ vma'[v] = m
         /\ \A u \in Vmas \ {v} : vma'[u] = vma[u]
  BY DEF MapTypeOK

\* One mapping more of a buffer that is alive.
LEMMA MoreMaps ==
  ASSUME Mapped, NEW b \in Vbufs, vbo[b].live, NEW v \in Vmas, vma[v].bo = NoOne,
         NEW m \in MappingType, m.bo = b, Mapping(v, m, vbo[b]),
         vbo' = [vbo EXCEPT ![b].kref = vbo[b].kref + 1], vma' = [vma EXCEPT ![v] = m]
  PROVE  Mapped'
<1> DEFINE x == vbo[b]
           k == x.kref + 1
           y == [x EXCEPT !.kref = k]
           n == Cardinality(MapsOf(b))
           n1 == Cardinality(MapsOf(b)')
<1>1. x \in BufferType /\ Buffer(x) /\ Counted(b) /\ x.kref \in Int /\ MapTypeOK
  BY TypeIs DEF Mapped
<1>2. vbo' = [vbo EXCEPT ![b] = y]
  BY DEF Mapped, MapTypeOK
<1>3. x.kref > 0 /\ k \in Int /\ k > 0
  BY <1>1 DEF Buffer
<1> HIDE DEF k
<1>4. y \in BufferType /\ Alike(x, y) /\ y.kref = k /\ y.handle = x.handle /\ y.live = x.live
      /\ y.bus = x.bus /\ y.new = x.new
  BY <1>1, <1>3, Zenon DEF BufferType, Alike
<1> HIDE DEF y
<1>5. Buffer(y)
  BY <1>1, <1>3, <1>4 DEF Buffer, Alike, V!vmw_ttm_io_mem_reserve
<1>6. /\ vma' \in [Vmas -> MappingType] /\ vma'[v] = m
      /\ \A u \in Vmas \ {v} : vma'[u] = vma[u]
  BY <1>1, OthersAre
<1>7. v \notin MapsOf(b) /\ MapsOf(b)' = MapsOf(b) \cup {v}
  BY <1>6, VmAssumption DEF MapsOf
<1>8. n1 = n + 1
  BY <1>7, MapsAre, FS_AddElement
<1>9. \A c \in Vbufs \ {b} : MapsOf(c)' = MapsOf(c)
  BY <1>6, VmAssumption DEF MapsOf
<1>10. Counted(b)'
  <2>1. n \in Nat /\ x.kref = n + (IF x.handle THEN 1 ELSE 0)
    BY <1>1, MapsAre DEF Counted
  <2>2. vbo'[b] = y
    BY <1>1, <1>2 DEF MapTypeOK
  <2>3. y.kref = n1 + (IF y.handle THEN 1 ELSE 0)
    <3> HIDE DEF n, n1
    <3>1. QED
      BY <1>1, <1>4, <1>8, <2>1 DEF k
  <2>4. QED
    BY <2>2, <2>3 DEF Counted
<1>11. \A u \in Vmas : vma'[u].bo = NoOne => vma'[u].pc = "idle"
  BY <1>6, VmAssumption DEF Mapped
<1>12. ASSUME NEW u \in Vmas, vma'[u].bo = b PROVE Mapping(u, vma'[u], y)
  <2>1. Mapping(u, vma'[u], x)
    BY <1>6, <1>12, VmAssumption DEF Mapped
  <2>2. QED
    BY <1>4, <2>1, AlikeMaps
<1>13. \A u \in Vmas : vma'[u].bo \in Vbufs \ {b} => Mapping(u, vma'[u], vbo[vma'[u].bo])
  BY <1>6, VmAssumption DEF Mapped
<1>14. QED
  BY <1>2, <1>4, <1>5, <1>6, <1>9, <1>10, <1>11, <1>12, <1>13, BufferStep

\* A buffer that is looked up with all of its pages is where it is found.
LEMMA MmapStep ==
  ASSUME Mapped, MapFrom = {0}, NEW v \in Vmas, V!ttm_bo_mmap(v)
  PROVE  Mapped'
<1>1. \A k \in MapFrom : k = 0
  OBVIOUS
<1>2. PICK a \in Addrs, b \in Vbufs :
        /\ b \in V!ttm_bo_vm_lookup_rb(a + 0, BufPages - 0)
        /\ vbo' = [vbo EXCEPT ![b].kref = @ + 1]
        /\ vma' = [vma EXCEPT ![v] = [V!NoVma EXCEPT !.bo = b, !.pgoff = a + 0,
                                                     !.len = BufPages - 0]]
  <2>1. \A p, n : V!ttm_bo_vm_lookup_rb(p, n) \in SUBSET Vbufs
    BY DEF V!ttm_bo_vm_lookup_rb
  <2>2. QED
    BY <1>1, <2>1, Zenon DEF V!ttm_bo_mmap
<1>3. /\ b \in Vbufs /\ vbo[b].live /\ a + 0 >= vbo[b].off
      /\ vbo[b].off + BufPages >= (a + 0) + (BufPages - 0)
  BY <1>2, Zenon DEF V!ttm_bo_vm_lookup_rb
<1>4. a \in Int /\ BufPages \in Int /\ vbo[b].off \in Int
  BY <1>3, TypeIs, VmAssumption DEF Mapped
<1>5. vbo[b].off = a /\ a + 0 = a /\ BufPages - 0 = BufPages
  BY <1>3, <1>4
<1> DEFINE nv == V!NoVma
           m == [nv EXCEPT !.bo = b, !.pgoff = a, !.len = BufPages]
<1>6. /\ nv \in MappingType /\ nv.pc = "idle" /\ \A i \in V!Pages : nv.pte[i] = <<>>
  BY DEF V!NoVma, MappingType, Entries
<1>7. m \in MappingType /\ m.bo = b /\ m.pgoff = a /\ m.len = BufPages /\ m.pc = nv.pc
      /\ m.pte = nv.pte
  <2> HIDE DEF nv
  <2>1. b \in Vbufs \cup {NoOne}
    BY <1>3
  <2>2. QED
    BY <1>4, <1>6, <2>1, Zenon DEF MappingType
<1>8. vma' = [vma EXCEPT ![v] = m]
  BY <1>2, <1>5
<1> HIDE DEF m, nv
<1>9. Mapping(v, m, vbo[b])
  BY <1>5, <1>6, <1>7 DEF Mapping
<1>10. vma[v].bo = NoOne
  BY DEF V!ttm_bo_mmap
<1>11. vbo' = [vbo EXCEPT ![b].kref = vbo[b].kref + 1]
  BY <1>2, <1>3
<1>12. QED
  BY <1>3, <1>7, <1>8, <1>9, <1>10, <1>11, MoreMaps

\* A buffer with mappings is alive.
LEMMA AliveIs ==
  ASSUME Mapped, NEW v \in Vmas, vma[v].bo # NoOne
  PROVE  /\ vma[v].bo \in Vbufs /\ vbo[vma[v].bo].live
         /\ Cardinality(MapsOf(vma[v].bo)) \in Nat \ {0}
         /\ Mapping(v, vma[v], vbo[vma[v].bo])
<1> DEFINE b == vma[v].bo
           n == Cardinality(MapsOf(b))
<1>1. b \in Vbufs /\ Mapping(v, vma[v], vbo[b])
  BY TypeIs DEF Mapped
<1>2. v \in MapsOf(b)
  BY DEF MapsOf
<1>3. n \in Nat \ {0}
  BY <1>2, MapsAre, FS_EmptySet
<1>4. Counted(b) /\ Buffer(vbo[b]) /\ vbo[b].kref \in Int
  BY <1>1, TypeIs DEF Mapped
<1>5. vbo[b].kref = n + (IF vbo[b].handle THEN 1 ELSE 0)
  BY <1>4 DEF Counted
<1>6. vbo[b].kref > 0
  <2> HIDE DEF n, b
  <2>1. QED
    BY <1>3, <1>5
<1>7. QED
  BY <1>1, <1>3, <1>4, <1>6 DEF Buffer

LEMMA OpenStep ==
  ASSUME Mapped, NEW v \in Vmas, NEW w \in Vmas, V!ttm_bo_vm_open(v, w)
  PROVE  Mapped'
<1> DEFINE b == vma[v].bo
<1>1. /\ b # NoOne /\ vma[v].pc = "idle" /\ vma[w].bo = NoOne
      /\ vma' = [vma EXCEPT ![w] = vma[v]]
  BY DEF V!ttm_bo_vm_open
<1>2. b \in Vbufs /\ vbo[b].live /\ Mapping(v, vma[v], vbo[b])
  BY <1>1, AliveIs
<1>3. vbo' = [vbo EXCEPT ![b].kref = vbo[b].kref + 1]
  BY <1>2 DEF V!ttm_bo_vm_open
<1>4. vma[v] \in MappingType
  BY TypeIs DEF Mapped
<1>5. Mapping(w, vma[v], vbo[b])
  BY <1>1, <1>2 DEF Mapping
<1>6. QED
  BY <1>1, <1>2, <1>3, <1>4, <1>5, MoreMaps

LEMMA CloseStep ==
  ASSUME Mapped, NEW v \in Vmas, V!ttm_bo_vm_close(v)
  PROVE  Mapped'
<1> DEFINE b == vma[v].bo
           x == vbo[b]
           y == V!Unref(x)
           n == Cardinality(MapsOf(b))
           n1 == Cardinality(MapsOf(b)')
<1>1. b # NoOne /\ vma' = [vma EXCEPT ![v] = V!NoVma]
  BY DEF V!ttm_bo_vm_close
<1>2. b \in Vbufs /\ x.live
  BY <1>1, AliveIs
<1>3. vbo' = [vbo EXCEPT ![b] = y]
  BY <1>2 DEF V!ttm_bo_vm_close
<1>4. x \in BufferType /\ Buffer(x) /\ Counted(b) /\ x.kref \in Int /\ MapTypeOK
  BY <1>2, TypeIs DEF Mapped
<1>5. x.kref > 0
  BY <1>2, <1>4 DEF Buffer
<1>6. /\ y \in BufferType /\ Buffer(y) /\ y.kref = x.kref - 1 /\ y.handle = x.handle
      /\ x.kref # 1 => Alike(x, y)
  BY <1>4, <1>5, UnrefIs
<1>7. V!NoVma \in MappingType /\ V!NoVma.bo = NoOne /\ V!NoVma.pc = "idle"
  BY DEF V!NoVma, MappingType, Entries
<1>8. /\ vma' \in [Vmas -> MappingType] /\ vma'[v] = V!NoVma
      /\ \A u \in Vmas \ {v} : vma'[u] = vma[u]
  BY <1>1, <1>4, <1>7, OthersAre
<1> HIDE DEF y
<1>9. v \in MapsOf(b) /\ [vma EXCEPT ![v] = V!NoVma] = vma'
  BY <1>1 DEF MapsOf
<1> DEFINE S == {u \in Vmas : vma'[u].bo = b}
<1>10. S = MapsOf(b) \ {v} /\ IsFiniteSet(S)
  <2>1. S = MapsOf(b) \ {v}
    BY <1>1, <1>7, <1>8, VmAssumption DEF MapsOf
  <2>2. QED
    BY <2>1, MapsAre, FS_Subset
<1>11. Cardinality(S) = n - 1 /\ n \in Nat /\ Cardinality(S) \in Nat
  BY <1>9, <1>10, MapsAre, FS_RemoveElement, FS_CardinalityType
<1>12. \A c \in Vbufs \ {b} : MapsOf(c)' = MapsOf(c)
  <2>1. SUFFICES ASSUME NEW c \in Vbufs \ {b}
                 PROVE  {u \in Vmas : vma'[u].bo = c} = {u \in Vmas : vma[u].bo = c}
    BY DEF MapsOf
  <2>2. QED
    BY <1>7, <1>8, VmAssumption
<1>13. vbo'[b].kref = Cardinality(S) + (IF vbo'[b].handle THEN 1 ELSE 0)
  <2>1. x.kref = n + (IF x.handle THEN 1 ELSE 0)
    BY <1>4 DEF Counted
  <2>2. vbo'[b] = y
    BY <1>2, <1>3, <1>4 DEF MapTypeOK
  <2> HIDE DEF n, S
  <2>3. QED
    BY <1>4, <1>6, <1>11, <2>1, <2>2
<1>14. ASSUME NEW u \in Vmas, vma'[u].bo = b PROVE Mapping(u, vma'[u], y)
  <2>1. u \in S
    BY <1>14
  <2>2. Cardinality(S) # 0
    BY <1>10, <2>1, FS_EmptySet
  <2>3. x.kref # 1
    <3>1. x.kref = n + (IF x.handle THEN 1 ELSE 0)
      BY <1>4 DEF Counted
    <3> HIDE DEF n, S
    <3>2. QED
      BY <1>11, <2>2, <3>1
  <2>4. u # v /\ vma'[u] = vma[u]
    BY <1>1, <1>7, <1>8, <1>14
  <2>5. Mapping(u, vma[u], x)
    BY <1>1, <1>14, <2>4 DEF Mapped
  <2>6. QED
    BY <1>6, <2>3, <2>4, <2>5, AlikeMaps
<1>15. \A u \in Vmas : vma'[u].bo = NoOne => vma'[u].pc = "idle"
  BY <1>7, <1>8 DEF Mapped
<1>16. \A u \in Vmas : vma'[u].bo \in Vbufs \ {b} => Mapping(u, vma'[u], vbo[vma'[u].bo])
  BY <1>7, <1>8, VmAssumption DEF Mapped
<1>17. ASSUME NEW c, c = b PROVE Counted(c)'
  <2>1. MapsOf(c)' = S
    BY <1>17 DEF MapsOf
  <2> HIDE DEF S
  <2>2. QED
    BY <1>13, <1>17, <2>1 DEF Counted
<1>18. PICK c \in Vbufs : c = b
  BY <1>2
<1> HIDE DEF b
<1>19. QED
  BY <1>3, <1>6, <1>8, <1>12, <1>14, <1>15, <1>16, <1>17, <1>18, BufferStep

-----------------------------------------------------------------------------
(* Faults. *)

\* The step of a mapping and of its buffer, with the users there were.
LEMMA OneStep ==
  ASSUME Mapped, NEW b \in Vbufs, NEW v \in Vmas, vma[v].bo = b,
         NEW y \in BufferType, Buffer(y), y.kref = vbo[b].kref, y.handle = vbo[b].handle,
         NEW m \in MappingType, m.bo = b, Mapping(v, m, y),
         vbo' = [vbo EXCEPT ![b] = y], vma' = [vma EXCEPT ![v] = m],
         \A u \in Vmas \ {v} : vma[u].bo = b => Mapping(u, vma[u], y)
  PROVE  Mapped'
<1>1. /\ vma' \in [Vmas -> MappingType] /\ vma'[v] = m
      /\ \A u \in Vmas \ {v} : vma'[u] = vma[u]
  BY OthersAre DEF Mapped
<1>2. \A u \in Vmas : vma'[u].bo = vma[u].bo
  BY <1>1
<1>3. \A c : MapsOf(c)' = MapsOf(c)
  BY <1>2 DEF MapsOf
<1>4. Counted(b)'
  <2>1. vbo'[b] = y /\ Counted(b)
    BY DEF Mapped, MapTypeOK
  <2>2. QED
    BY <1>3, <2>1 DEF Counted
<1>5. \A u \in Vmas : vma'[u].bo = NoOne => vma'[u].pc = "idle"
  BY <1>1, VmAssumption DEF Mapped
<1>6. \A u \in Vmas : vma'[u].bo = b => Mapping(u, vma'[u], y)
  BY <1>1
<1>7. \A u \in Vmas : vma'[u].bo \in Vbufs \ {b} => Mapping(u, vma'[u], vbo[vma'[u].bo])
  BY <1>1, VmAssumption DEF Mapped
<1>8. QED
  BY <1>1, <1>3, <1>4, <1>5, <1>6, <1>7, BufferStep

\* The page a mapping of a whole buffer has at an address.
LEMMA OffsetIs ==
  ASSUME MapTypeOK, NEW v \in Vmas, NEW b \in Vbufs, vma[v].bo = b,
         Mapping(v, vma[v], vbo[b]), NEW i \in Int
  PROVE  V!PageOffset(v, i) = i /\ V!PageLast(v) = BufPages
<1>1. vma[v].pgoff = vbo[b].off /\ vma[v].len = BufPages /\ vbo[b].off \in Int /\ BufPages \in Int
  BY TypeIs, VmAssumption DEF Mapping
<1> DEFINE o == vbo[b].off
<1>2. V!PageOffset(v, i) = i + o - o /\ V!PageLast(v) = BufPages + o - o
  BY <1>1 DEF V!PageOffset, V!PageLast
<1> HIDE DEF o
<1>3. QED
  BY <1>1, <1>2 DEF o

\* Reserving a place for mappings.
LEMMA ReserveIs ==
  ASSUME NEW x \in BufferType, Buffer(x)
  PROVE  LET y == V!ttm_mem_io_reserve_vm(x) IN
         /\ y \in BufferType /\ Buffer(y) /\ y.io_reserved_vm = TRUE
         /\ y.mem = x.mem /\ y.kref = x.kref /\ y.handle = x.handle /\ y.off = x.off
         /\ y.live = x.live /\ y.slot = x.slot /\ y.pages = x.pages /\ y.by = x.by /\ y.to = x.to
         /\ y.new = x.new /\ y.todo = x.todo
<1> DEFINE s == V!vmw_ttm_io_mem_reserve(x)
           y == [x EXCEPT !.io_reserved_vm = TRUE, !.bus = s]
<1>1. CASE x.io_reserved_vm
  <2>1. V!ttm_mem_io_reserve_vm(x) = x
    BY <1>1 DEF V!ttm_mem_io_reserve_vm
  <2>2. x.io_reserved_vm = TRUE
    BY <1>1 DEF BufferType
  <2>3. QED
    BY <2>1, <2>2
<1>2. CASE ~x.io_reserved_vm
  <2>1. V!ttm_mem_io_reserve_vm(x) = y
    BY <1>2 DEF V!ttm_mem_io_reserve_vm
  <2>2. s \in Int
    BY DEF V!vmw_ttm_io_mem_reserve, BufferType
  <2> HIDE DEF s
  <2>3. y \in BufferType
    BY <2>2, Zenon DEF BufferType
  <2>4. /\ y.io_reserved_vm = TRUE /\ y.bus = s
        /\ y.mem = x.mem /\ y.kref = x.kref /\ y.handle = x.handle /\ y.off = x.off
        /\ y.live = x.live /\ y.slot = x.slot /\ y.pages = x.pages /\ y.by = x.by /\ y.to = x.to
        /\ y.new = x.new /\ y.todo = x.todo
    BY Zenon DEF BufferType
  <2> HIDE DEF y
  <2>5. Buffer(y)
    BY <2>4 DEF Buffer, V!vmw_ttm_io_mem_reserve, s
  <2>6. QED
    BY <2>1, <2>3, <2>4, <2>5
<1>3. QED
  BY <1>1, <1>2

LEMMA FaultStep ==
  ASSUME Mapped, NEW v \in Vmas, V!ttm_bo_vm_fault(v)
  PROVE  Mapped'
<1> DEFINE b == vma[v].bo
           m == vma[v]
           x == vbo[b]
           z == V!ttm_mem_io_reserve_vm(x)
           y == [z EXCEPT !.by = v]
<1>1. b # NoOne /\ m.pc = "idle" /\ x.by = NoOne
  BY DEF V!ttm_bo_vm_fault
<1>2. PICK i \in 0 .. m.len - 1 :
        /\ vma' = IF V!PageOffset(v, i) \in V!Pages
                  THEN [vma EXCEPT ![v].pc = "insert", ![v].at = i] ELSE vma
        /\ vbo' = [vbo EXCEPT ![b] = IF V!PageOffset(v, i) \in V!Pages THEN y ELSE z]
  BY Zenon DEF V!ttm_bo_vm_fault
<1>3. /\ b \in Vbufs /\ Mapping(v, m, x) /\ x \in BufferType /\ Buffer(x)
      /\ m \in MappingType /\ m.len = BufPages /\ MapTypeOK
  BY <1>1, AliveIs, TypeIs DEF Mapping, Mapped
<1>4. i \in V!Pages /\ i \in Int
  BY <1>3, VmAssumption DEF V!Pages
<1>5. V!PageOffset(v, i) = i
  BY <1>3, <1>4, OffsetIs
<1> DEFINE m1 == [m EXCEPT !.pc = "insert", !.at = i]
<1>6. vma' = [vma EXCEPT ![v] = m1] /\ vbo' = [vbo EXCEPT ![b] = y]
  BY <1>2, <1>3, <1>4, <1>5 DEF MapTypeOK
<1>7. "insert" \in {"idle", "insert"} /\ v \in Vmas \cup {"mover", NoOne} /\ v # "mover"
  BY VmAssumption
<1> HIDE DEF m
<1>8. /\ m1 \in MappingType /\ m1.bo = m.bo /\ m1.pgoff = m.pgoff /\ m1.len = m.len
      /\ m1.pte = m.pte /\ m1.at = i
  BY <1>3, <1>4, <1>7, Zenon DEF MappingType
<1> HIDE DEF m1
<1>9. /\ z \in BufferType /\ Buffer(z) /\ z.io_reserved_vm = TRUE
      /\ z.mem = x.mem /\ z.kref = x.kref /\ z.handle = x.handle /\ z.off = x.off
      /\ z.live = x.live /\ z.slot = x.slot /\ z.pages = x.pages /\ z.by = x.by /\ z.to = x.to
      /\ z.new = x.new /\ z.todo = x.todo
  BY <1>3, ReserveIs
<1> HIDE DEF z
<1>10. /\ y \in BufferType /\ y.by = v
       /\ y.mem = z.mem /\ y.kref = z.kref /\ y.handle = z.handle /\ y.off = z.off
       /\ y.live = z.live /\ y.slot = z.slot /\ y.pages = z.pages /\ y.to = z.to
       /\ y.new = z.new /\ y.todo = z.todo /\ y.bus = z.bus
       /\ y.io_reserved_vm = z.io_reserved_vm
  BY <1>7, <1>9, Zenon DEF BufferType
<1> HIDE DEF y
<1>11. NoOne # "mover" /\ NoOne \notin Vmas
  BY VmAssumption
<1>12. Buffer(y)
  BY <1>1, <1>7, <1>9, <1>10, <1>11 DEF Buffer, V!vmw_ttm_io_mem_reserve
<1>13. ASSUME NEW u, NEW k, Mapping(u, k, x), k.pc # "insert" PROVE Mapping(u, k, y)
  <2>1. \A i1 : Place(y, i1) = Place(x, i1)
    BY <1>9, <1>10 DEF Place
  <2>2. ~Copied(x) => ~Copied(y)
    BY <1>9, <1>10 DEF Copied
  <2>3. QED
    BY <1>9, <1>10, <1>13, <2>1, <2>2 DEF Mapping
<1>14. Mapping(v, m1, y)
  <2>1. Mapping(v, m, y)
    BY <1>1, <1>3, <1>13 DEF m
  <2>2. QED
    BY <1>4, <1>8, <1>9, <1>10, <2>1 DEF Mapping
<1>15. ASSUME NEW u \in Vmas \ {v}, vma[u].bo = b PROVE Mapping(u, vma[u], y)
  BY <1>1, <1>3, <1>11, <1>13, <1>15, NotInserting
<1>16. m1.bo = b /\ vma[v].bo = b /\ y.kref = vbo[b].kref /\ y.handle = vbo[b].handle
  BY <1>8, <1>9, <1>10 DEF m
<1>17. \A u \in Vmas \ {v} : vma[u].bo = b => Mapping(u, vma[u], y)
  BY <1>15
<1>18. b \in Vbufs /\ y \in BufferType /\ m1 \in MappingType
  BY <1>3, <1>8, <1>10
<1> HIDE DEF x, b, z
<1>19. QED
  BY <1>6, <1>12, <1>14, <1>16, <1>17, <1>18, OneStep

\* The entry that is put in is where the page is.
LEMMA InsertStep ==
  ASSUME Mapped, NEW v \in Vmas, V!InsertPage(v)
  PROVE  Mapped'
<1> DEFINE b == vma[v].bo
           m == vma[v]
           x == vbo[b]
           i == m.at
           p == V!PageOffset(v, i)
           ram == x.bus = -1
           can == ~ram \/ V!CanGet(b, {p})
           got == IF ram THEN V!ttm_tt_get_pages(b, V!Wanted(b, {p})) ELSE x
           entry == IF ram THEN <<"ram", got.pages[p]>> ELSE <<"vram", x.bus, p>>
           free == m.pte[i] = <<>>
           more == can /\ free /\ p + 1 < V!PageLast(v) /\ m.n + 1 < Prefault
           pte == IF can /\ free THEN [m.pte EXCEPT ![i] = entry] ELSE m.pte
           z == IF can THEN got ELSE x
           who == IF more THEN v ELSE NoOne
           y == [z EXCEPT !.by = who]
           mm1 == [m EXCEPT !.pte = pte, !.at = i + 1, !.n = m.n + 1]
           mm2 == [m EXCEPT !.pc = "idle", !.at = 0, !.n = 0, !.pte = pte]
           m1 == IF more THEN mm1 ELSE mm2
<1>1. m.pc = "insert"
  BY Zenon DEF V!InsertPage
<1>2. vbo' = [vbo EXCEPT ![b] = y]
  BY Zenon DEF V!InsertPage
<1>3. vma' = IF more THEN [vma EXCEPT ![v].pte = pte, ![v].at = i + 1, ![v].n = @ + 1]
             ELSE [vma EXCEPT ![v] = mm2]
  BY Zenon DEF V!InsertPage, V!Unfault
<1>4. ram /\ can => z = V!ttm_tt_get_pages(b, V!Wanted(b, {p})) /\ V!CanGet(b, {p})
                    /\ entry = <<"ram", z.pages[p]>>
  <2> HIDE DEF p, b, x, i
  <2>1. QED
    OBVIOUS
<1>5. (ram /\ can) \/ z = x
  <2> HIDE DEF p, b, x, i
  <2>1. QED
    OBVIOUS
<1>6. ~ram => can /\ entry = <<"vram", x.bus, p>>
  <2> HIDE DEF p, b, x, i
  <2>1. QED
    OBVIOUS
<1>7. pte = IF can /\ free THEN [m.pte EXCEPT ![i] = entry] ELSE m.pte
  OBVIOUS
<1>8. more => can /\ p + 1 < V!PageLast(v)
  OBVIOUS
<1>9. ram <=> x.bus = -1
  OBVIOUS
<1> HIDE DEF pte, more, can, free, entry, got, ram, z, p
<1>10. b # NoOne
  BY <1>1 DEF Mapped
<1>11. /\ b \in Vbufs /\ Mapping(v, m, x) /\ x \in BufferType /\ Buffer(x) /\ MapTypeOK
       /\ m \in MappingType /\ m.pte \in [V!Pages -> Entries] /\ x.pages \in [V!Pages -> Int]
       /\ m.n \in Int
  BY <1>10, AliveIs, TypeIs DEF Mapped
<1>12. x.by = v /\ i \in V!Pages /\ x.io_reserved_vm /\ i \in Int
  BY <1>1, <1>11, VmAssumption DEF Mapping, V!Pages
<1>13. p = i /\ V!PageLast(v) = BufPages
  BY <1>11, <1>12, OffsetIs DEF p
<1>14. ram <=> x.mem # "vram"
  BY <1>9, <1>11, <1>12 DEF Buffer, V!vmw_ttm_io_mem_reserve
<1>15. v # "mover" /\ NoOne # "mover" /\ NoOne \notin Vmas
  BY VmAssumption
<1>16. ~Copied(x)
  <2>1. x.todo = <<>>
    BY <1>11, <1>12, <1>15 DEF Buffer
  <2>2. QED
    BY <2>1, TodosDiffer DEF Copied
<1>17. /\ z \in BufferType /\ SameBut(x, z)
       /\ \A q \in V!Pages : x.pages[q] # -1 => z.pages[q] = x.pages[q]
       /\ ram /\ can => z.pages[i] # -1 /\ z.pages[i] \in Int
       /\ ~ram => z = x
  <2>1. CASE ram /\ can
    <3>1. V!CanGet(b, {p}) /\ {p} \in SUBSET V!Pages
      BY <1>4, <1>12, <1>13, <2>1
    <3>2. Got(x, V!ttm_tt_get_pages(b, V!Wanted(b, {p})), {p})
      BY <1>11, <3>1, GotPages
    <3>3. Got(x, z, {p})
      BY <1>4, <2>1, <3>2
    <3>4. z.pages \in [V!Pages -> Int] /\ z.pages[p] # -1
      BY <3>3 DEF Got, BufferType
    <3>5. QED
      BY <1>12, <1>13, <2>1, <3>3, <3>4 DEF Got
  <2>2. CASE ~(ram /\ can)
    <3>1. z = x
      BY <1>5, <2>2
    <3>2. QED
      BY <1>11, <2>2, <3>1 DEF SameBut
  <2>3. QED
    BY <2>1, <2>2
<1>18. can => entry \in Entries /\ entry = Place(z, i) /\ entry # <<"ram", -1>> /\ entry # <<>>
  <2>1. CASE ram /\ can
    <3>1. entry = <<"ram", z.pages[i]>>
      BY <1>4, <1>13, <2>1
    <3>2. z.mem # "vram" /\ z.pages[i] # -1 /\ z.pages[i] \in Int
      BY <1>14, <1>17, <2>1 DEF SameBut
    <3>3. <<"ram", z.pages[i]>> # <<"ram", -1>> /\ <<"ram", z.pages[i]>> # <<>>
      BY <3>2
    <3>4. <<"ram", z.pages[i]>> \in Entries
      BY <3>2 DEF Entries
    <3>5. Place(z, i) = <<"ram", z.pages[i]>>
      BY <3>2 DEF Place
    <3>6. QED
      BY <3>1, <3>3, <3>4, <3>5
  <2>2. CASE ~ram
    <3>1. entry = <<"vram", x.bus, i>> /\ x.bus = x.slot /\ x.slot \in Int /\ x.mem = "vram"
      <4>1. x.mem = "vram"
        BY <1>14, <2>2
      <4>2. x.bus = x.slot /\ x.slot \in Int
        BY <1>11, <1>12, <4>1 DEF Buffer, V!vmw_ttm_io_mem_reserve
      <4>3. QED
        BY <1>6, <1>13, <2>2, <4>1, <4>2
    <3>2. z = x
      BY <1>17, <2>2
    <3> DEFINE e == <<"vram", x.slot, i>>
    <3>3. e # <<>> /\ e # <<"ram", -1>>
      <4>1. Len(e) = 3 /\ Len(<<>>) = 0 /\ Len(<<"ram", -1>>) = 2
        OBVIOUS
      <4> HIDE DEF e
      <4>2. QED
        BY <4>1
    <3>4. e \in Entries
      BY <1>12, <3>1 DEF Entries
    <3>5. Place(x, i) = e
      BY <3>1 DEF Place
    <3>6. entry = e
      BY <3>1
    <3> HIDE DEF e
    <3>7. QED
      BY <3>2, <3>3, <3>4, <3>5, <3>6
  <2>3. QED
    BY <2>1, <2>2
<1>19. /\ pte \in [V!Pages -> Entries]
       /\ \A q \in V!Pages : pte[q] = m.pte[q] \/ (pte[q] = Place(z, q) /\ pte[q] # <<"ram", -1>>)
  <2>1. CASE can /\ free
    <3>1. pte = [m.pte EXCEPT ![i] = entry]
      BY <1>7, <2>1
    <3> HIDE DEF m, i
    <3>2. QED
      BY <1>11, <1>12, <1>18, <2>1, <3>1
  <2>2. CASE ~(can /\ free)
    <3>1. pte = m.pte
      BY <1>7, <2>2
    <3> HIDE DEF m
    <3>2. QED
      BY <1>11, <3>1
  <2>3. QED
    BY <2>1, <2>2
<1>20. more => i + 1 \in V!Pages
  BY <1>8, <1>12, <1>13, VmAssumption DEF V!Pages
<1>21. vma' = [vma EXCEPT ![v] = m1]
  BY <1>3, <1>11 DEF MapTypeOK
<1> HIDE DEF m
<1>22. /\ m1 \in MappingType /\ m1.bo = m.bo /\ m1.pgoff = m.pgoff /\ m1.len = m.len
       /\ m1.pte = pte /\ m1.pc = (IF more THEN m.pc ELSE "idle")
       /\ m1.at = (IF more THEN i + 1 ELSE 0)
  <2> DEFINE k == m.n + 1
             l == i + 1
  <2>1. k \in Int /\ l \in Int /\ 0 \in Int /\ "idle" \in {"idle", "insert"}
    BY <1>11, <1>12
  <2> HIDE DEF k, l
  <2>2. CASE more
    <3> DEFINE w == [m EXCEPT !.pte = pte, !.at = l, !.n = k]
    <3>1. m1 = w
      BY <2>2 DEF k, l
    <3>2. /\ w \in MappingType /\ w.bo = m.bo /\ w.pgoff = m.pgoff /\ w.len = m.len
          /\ w.pte = pte /\ w.pc = m.pc /\ w.at = l
      BY <1>11, <1>19, <2>1, Zenon DEF MappingType
    <3> HIDE DEF w, m1
    <3>3. QED
      BY <2>2, <3>1, <3>2 DEF l
  <2>3. CASE ~more
    <3>1. m1 = mm2
      BY <2>3
    <3>2. /\ mm2 \in MappingType /\ mm2.bo = m.bo /\ mm2.pgoff = m.pgoff /\ mm2.len = m.len
          /\ mm2.pte = pte /\ mm2.pc = "idle" /\ mm2.at = 0
      BY <1>11, <1>19, <2>1, Zenon DEF MappingType
    <3> HIDE DEF mm2, m1
    <3>3. QED
      BY <2>3, <3>1, <3>2
  <2>4. QED
    BY <2>2, <2>3
<1> HIDE DEF m1
<1>23. who \in Vmas \cup {"mover", NoOne} /\ who # "mover"
  BY <1>15
<1>24. more => who = v
  OBVIOUS
<1> HIDE DEF who
<1>25. /\ y \in BufferType /\ y.by = who
       /\ y.mem = z.mem /\ y.kref = z.kref /\ y.handle = z.handle /\ y.off = z.off
       /\ y.live = z.live /\ y.slot = z.slot /\ y.pages = z.pages /\ y.to = z.to
       /\ y.new = z.new /\ y.todo = z.todo /\ y.bus = z.bus
       /\ y.io_reserved_vm = z.io_reserved_vm
  BY <1>17, <1>23, Zenon DEF BufferType
<1> HIDE DEF y
<1>26. /\ y.mem = x.mem /\ y.kref = x.kref /\ y.handle = x.handle /\ y.off = x.off
       /\ y.live = x.live /\ y.slot = x.slot /\ y.to = x.to /\ y.new = x.new
       /\ y.todo = x.todo /\ y.bus = x.bus /\ y.io_reserved_vm = x.io_reserved_vm
  BY <1>17, <1>25 DEF SameBut
<1>27. Buffer(y)
  <2>1. y.todo = <<>> /\ x.todo = <<>>
    BY <1>11, <1>12, <1>15, <1>26 DEF Buffer
  <2>2. QED
    BY <1>11, <1>23, <1>25, <1>26, <2>1 DEF Buffer, V!vmw_ttm_io_mem_reserve
<1>28. ~Copied(y)
  BY <1>16, <1>26 DEF Copied
<1>29. /\ \A q : Place(y, q) = Place(z, q)
       /\ \A q \in V!Pages : Place(x, q) # <<"ram", -1>> => Place(y, q) = Place(x, q)
  <2>1. \A q : Place(y, q) = Place(z, q)
    BY <1>25 DEF Place
  <2>2. ASSUME NEW q \in V!Pages, Place(x, q) # <<"ram", -1>> PROVE Place(y, q) = Place(x, q)
    <3>1. CASE x.mem = "vram"
      BY <1>26, <3>1 DEF Place
    <3>2. CASE x.mem # "vram"
      <4>1. x.pages[q] # -1
        BY <2>2, <3>2 DEF Place
      <4>2. y.pages[q] = x.pages[q]
        BY <1>17, <1>25, <4>1
      <4>3. QED
        BY <1>26, <3>2, <4>2 DEF Place
    <3>3. QED
      BY <3>1, <3>2
  <2>3. QED
    BY <2>1, <2>2
<1>30. \A u, k, q : Mapping(u, k, x) /\ q \in V!Pages /\ k.pte[q] # <<>> =>
         k.pte[q] = Place(y, q) /\ k.pte[q] # <<"ram", -1>>
  BY <1>29 DEF Mapping
<1>31. Mapping(v, m1, y)
  <2>1. \A q \in V!Pages : pte[q] # <<>> => pte[q] = Place(y, q) /\ pte[q] # <<"ram", -1>>
    BY <1>11, <1>19, <1>29, <1>30
  <2>2. m1.pgoff = y.off /\ m1.len = BufPages
    BY <1>11, <1>22, <1>26 DEF Mapping
  <2>3. m1.pc = "insert" => y.by = v /\ m1.at \in V!Pages /\ y.io_reserved_vm
    BY <1>12, <1>20, <1>22, <1>24, <1>25, <1>26
  <2>4. QED
    BY <1>22, <1>28, <2>1, <2>2, <2>3 DEF Mapping
<1>32. ASSUME NEW u \in Vmas \ {v}, vma[u].bo = b PROVE Mapping(u, vma[u], y)
  <2>1. Mapping(u, vma[u], x)
    BY <1>10, <1>32 DEF Mapped
  <2>2. vma[u].pc # "insert"
    BY <1>12, <2>1 DEF Mapping
  <2>3. vma[u].pgoff = y.off /\ vma[u].len = BufPages
    BY <1>26, <2>1 DEF Mapping
  <2>4. QED
    BY <1>28, <1>30, <2>1, <2>2, <2>3 DEF Mapping
<1>33. \A u \in Vmas \ {v} : vma[u].bo = b => Mapping(u, vma[u], y)
  BY <1>32
<1>34. b \in Vbufs /\ y \in BufferType /\ m1 \in MappingType
  BY <1>11, <1>22, <1>25
<1>35. m1.bo = b /\ vma[v].bo = b /\ y.kref = vbo[b].kref /\ y.handle = vbo[b].handle
  BY <1>22, <1>26 DEF m
<1>36. vbo' = [vbo EXCEPT ![b] = y]
  BY <1>2
<1> HIDE DEF x, b, i
<1>37. QED
  BY <1>21, <1>27, <1>31, <1>33, <1>34, <1>35, <1>36, OneStep

-----------------------------------------------------------------------------
(* Every step, and what it is for. *)

LEMMA MappedInit ==
  ASSUME V!VmInit
  PROVE  Mapped
<1> DEFINE x == V!NoBuffer
           m == V!NoVma
<1>1. vbo = [b \in Vbufs |-> x] /\ vma = [v \in Vmas |-> m]
  BY DEF V!VmInit
<1>2. x \in BufferType /\ Buffer(x) /\ x.kref = 0 /\ ~x.handle
  BY NoBufferIs
<1>3. m \in MappingType /\ m.bo = NoOne /\ m.pc = "idle"
  BY DEF V!NoVma, MappingType, Entries
<1> HIDE DEF x, m
<1>4. MapTypeOK
  BY <1>1, <1>2, <1>3 DEF MapTypeOK
<1>5. ASSUME NEW b \in Vbufs PROVE Counted(b) /\ Buffer(vbo[b])
  <2>1. MapsOf(b) = {}
    BY <1>1, <1>3, VmAssumption DEF MapsOf
  <2>2. Cardinality(MapsOf(b)) = 0
    BY <2>1, FS_EmptySet
  <2>3. QED
    BY <1>1, <1>2, <2>2 DEF Counted
<1>6. \A v \in Vmas : vma[v].bo = NoOne /\ vma[v].pc = "idle"
  BY <1>1, <1>3
<1>7. QED
  BY <1>4, <1>5, <1>6 DEF Mapped

LEMMA VmStep ==
  ASSUME MapFrom = {0}, Mapped, V!VmNext
  PROVE  Mapped'
<1>1. ASSUME NEW b \in Vbufs, NEW to \in {"system", "gmr", "vram"},
             V!ttm_bo_handle_move_mem(b, to)
      PROVE  Mapped'
  BY <1>1, MoveBegins
<1>2. ASSUME NEW b \in Vbufs,
             \/ V!ttm_bo_setup_vm(b) \/ V!ttm_bo_unref(b) \/ V!ttm_bo_cleanup_refs(b)
             \/ V!ttm_bo_unmap_virtual(b) \/ V!ttm_bo_move_memcpy(b)
             \/ V!ttm_bo_swapout(b) \/ V!ttm_tt_swapout(b)
      PROVE  Mapped'
  BY <1>2, SetupStep, UnrefStep, CleanupStep, UnmapStep, MoveStep, SwapBegins, SwapStep
<1>3. ASSUME NEW v \in Vmas, NEW w \in Vmas, V!ttm_bo_vm_open(v, w)
      PROVE  Mapped'
  BY <1>3, OpenStep
<1>4. ASSUME NEW v \in Vmas,
             \/ V!ttm_bo_mmap(v) \/ V!ttm_bo_vm_close(v) \/ V!ttm_bo_vm_fault(v)
             \/ V!InsertPage(v)
      PROVE  Mapped'
  BY <1>4, MmapStep, CloseStep, FaultStep, InsertStep
<1>5. QED
  BY <1>1, <1>2, <1>3, <1>4, Zenon DEF V!VmNext

LEMMA MappedStutters ==
  ASSUME Mapped, UNCHANGED vmVars
  PROVE  Mapped'
  BY DEF vmVars, Mapped, MapTypeOK, Counted, MapsOf

LEMMA MappedGives ==
  ASSUME Mapped
  PROVE  V!MappedWhereItIs
<1>1. V!EntriesAreRight
  <2>1. SUFFICES ASSUME NEW v \in Vmas, vma[v].bo # NoOne
                 PROVE  /\ vbo[vma[v].bo].live
                        /\ \A i \in V!Pages : vma[v].pte[i] # <<>> =>
                             LET p == i + vma[v].pgoff - vbo[vma[v].bo].off IN
                             /\ p \in V!Pages /\ vma[v].pte[i] = V!PlaceOf(vma[v].bo, p)
                             /\ vma[v].pte[i] # <<"ram", -1>>
    BY Zenon DEF V!EntriesAreRight
  <2> DEFINE b == vma[v].bo
             o == vbo[b].off
             g == vma[v].pgoff
  <2>2. b \in Vbufs /\ vbo[b].live /\ Mapping(v, vma[v], vbo[b])
    BY <2>1, AliveIs
  <2>3. g = o /\ o \in Int
    BY <2>2, TypeIs DEF Mapping, Mapped
  <2>4. ASSUME NEW i \in V!Pages, vma[v].pte[i] # <<>>
        PROVE  /\ i + g - o \in V!Pages /\ vma[v].pte[i] = V!PlaceOf(b, i + g - o)
               /\ vma[v].pte[i] # <<"ram", -1>>
    <3> HIDE DEF o, g
    <3>1. i \in Int
      BY VmAssumption DEF V!Pages
    <3>2. i + g - o = i
      BY <2>3, <3>1
    <3>3. vma[v].pte[i] = Place(vbo[b], i) /\ vma[v].pte[i] # <<"ram", -1>>
      BY <2>2, <2>4 DEF Mapping
    <3>4. V!PlaceOf(b, i) = Place(vbo[b], i)
      BY DEF V!PlaceOf, Place
    <3>5. QED
      BY <3>2, <3>3, <3>4
  <2>5. QED
    BY <2>2, <2>4
<1>2. V!CopiesAreQuiet
  <2>1. SUFFICES ASSUME NEW b \in Vbufs,
                        \/ V!At(b, "swap")
                        \/ V!At(b, "move") /\ V!Unmaps(vbo[b].mem, vbo[b].to),
                        NEW v \in Vmas, vma[v].bo = b, NEW i \in V!Pages
                 PROVE  vma[v].pte[i] = <<>>
    BY Zenon DEF V!CopiesAreQuiet
  <2>2. Copied(vbo[b])
    <3>1. vbo[b] \in BufferType
      BY TypeIs DEF Mapped
    <3>2. QED
      BY <2>1, <3>1, TodoIs DEF V!At, Copied
  <2>3. Mapping(v, vma[v], vbo[b])
    BY <2>1, VmAssumption DEF Mapped
  <2>4. QED
    BY <2>2, <2>3 DEF Mapping
<1>3. V!RefsAreCounted
  <2>1. ASSUME NEW b \in Vbufs
        PROVE  vbo[b].kref = V!Cardinality({v \in Vmas : vma[v].bo = b})
                             + (IF vbo[b].handle THEN 1 ELSE 0)
    <3>1. V!Cardinality(MapsOf(b)) = Cardinality(MapsOf(b)) /\ Counted(b)
      BY CardIs DEF Mapped
    <3>2. vbo[b].kref = V!Cardinality(MapsOf(b)) + (IF vbo[b].handle THEN 1 ELSE 0)
      BY <3>1 DEF Counted
    <3>3. QED
      BY <3>2, Zenon DEF MapsOf
  <2>2. QED
    BY <2>1, Zenon DEF V!RefsAreCounted
<1>4. QED
  BY <1>1, <1>2, <1>3 DEF V!MappedWhereItIs

\* A process sees the page of its buffer that the address stands for, where the
\* buffer is now, and nothing while it is copied (ttm_bo_unmap_virtual,
\* ttm_bo_vm_fault), and a buffer has a reference of each mapping.  Mappings are
\* of whole buffers: one from inside shows the wrong page (ttm_bo_vm.c:148).
THEOREM MappedHolds ==
  ASSUME MapFrom = {0}
  PROVE  Spec => []MappedWhereItIs
<1> DEFINE Inv == part = "vm" => Mapped
<1>1. Init => Inv
  BY MappedInit DEF Init
<1>2. Inv /\ [Next]_vars => Inv'
  <2>1. CASE part = "vm" /\ V!VmNext /\ part' = part
    BY <2>1, VmStep
  <2>2. CASE UNCHANGED <<part, vmVars>>
    BY <2>2, MappedStutters
  <2>3. [Next]_vars => (part = "vm" /\ V!VmNext /\ part' = part) \/ UNCHANGED <<part, vmVars>>
    BY Zenon DEF Next, vars
  <2>4. QED
    BY <2>1, <2>2, <2>3
<1>3. Inv => MappedWhereItIs
  BY MappedGives DEF MappedWhereItIs
<1>4. QED
  BY <1>1, <1>2, <1>3, PTL DEF Spec

-----------------------------------------------------------------------------
(* Ranges (DrmMm). *)

NodeType == [start : Int, size : Int, free : BOOLEAN]
SpaceType ==
  [node_list : Seq(NodeType), free_stack : Seq(Int), unused_nodes : Seq(BOOLEAN),
   best : BOOLEAN]
RequestType == [size : Int, align : Int, from : Int, to : Int]
UserType ==
  [pc : {"none", "pre_get", "kzalloc", "search", "has"}, req : RequestType, start : Int]

\* The nodes n tile the range, in order, and no two that are free are neighbours.
Tiles(n) ==
  /\ Len(n) > 0 /\ n[1].start = 0 /\ n[Len(n)].start + n[Len(n)].size = MmSize
  /\ \A i \in 1 .. Len(n) : n[i].size > 0
  /\ \A i, j \in 1 .. Len(n) : i < j => n[i].start + n[i].size <= n[j].start
  /\ \A i \in 1 .. Len(n) - 1 :
       n[i].start + n[i].size = n[i + 1].start /\ ~(n[i].free /\ n[i + 1].free)

FreeAt(n, x) == \E i \in 1 .. Len(n) : n[i].start = x /\ n[i].free
OnStack(s, x) == \E k \in 1 .. Len(s) : s[k] = x

\* The stack s has each free node of n once.
Stacked(s, n) ==
  /\ \A k, l \in 1 .. Len(s) : s[k] = s[l] => k = l
  /\ \A x \in Int : OnStack(s, x) <=> FreeAt(n, x)

Space(m) == Tiles(m.node_list) /\ Stacked(m.free_stack, m.node_list)

\* A block in use at x of size z.
Block(n, x, z) == \E i \in 1 .. Len(n) : n[i].start = x /\ n[i].size = z /\ ~n[i].free

Asked(r, best) ==
  /\ r.size > 0 /\ r.align >= 0
  /\ ~best => r.align = 0 /\ r.from = 0 /\ r.to = MmSize

\* x, a user, has the block that it asked for.
Served(n, x) ==
  /\ Block(n, x.start, x.req.size)
  /\ R!Tmp(x.start, x.req.align) = 0
  /\ x.start >= x.req.from /\ x.start + x.req.size <= x.req.to

\* The blocks of n are those of the users us, one each.
Held(n, us) ==
  /\ \A u \in MmUsers : us[u].pc = "has" => Served(n, us[u])
  /\ \A u, w \in MmUsers :
       us[u].pc = "has" /\ us[w].pc = "has" /\ us[u].start = us[w].start => u = w
  /\ \A x, z : Block(n, x, z) => \E u \in MmUsers : us[u].pc = "has" /\ us[u].start = x

RangedAs(m, us) ==
  /\ m \in SpaceType /\ us \in [MmUsers -> UserType]
  /\ \A u \in MmUsers : us[u].pc # "none" => Asked(us[u].req, m.best)
  /\ m.node_list = <<>> => \A u \in MmUsers : us[u].pc = "none"
  /\ m.node_list # <<>> => Space(m) /\ Held(m.node_list, us)

Ranged == RangedAs(mm, user)

LEMMA NodeIs ==
  ASSUME NEW n \in Seq(NodeType), NEW i \in 1 .. Len(n)
  PROVE  /\ n[i] \in NodeType /\ n[i].start \in Int /\ n[i].size \in Int
         /\ n[i].free \in BOOLEAN
<1>1. n[i] \in NodeType
  OBVIOUS
<1>2. QED
  BY <1>1 DEF NodeType

\* No two nodes start at the same place.
LEMMA StartsDiffer ==
  ASSUME NEW n \in Seq(NodeType), Tiles(n), NEW i \in 1 .. Len(n), NEW j \in 1 .. Len(n),
         n[i].start = n[j].start
  PROVE  i = j
<1> DEFINE s == n[i].start
           t == n[j].start
<1>1. s \in Int /\ t \in Int /\ n[i].size \in Int /\ n[j].size \in Int
  BY NodeIs
<1>2. /\ n[i].size > 0 /\ n[j].size > 0
      /\ i < j => s + n[i].size <= t
      /\ j < i => t + n[j].size <= s
  BY DEF Tiles
<1>3. ~(i < j) /\ ~(j < i)
  BY <1>1, <1>2
<1>4. QED
  BY <1>3

LEMMA NodeAtIs ==
  ASSUME NEW m, m.node_list \in Seq(NodeType), Tiles(m.node_list),
         NEW i \in 1 .. Len(m.node_list)
  PROVE  R!NodeAt(m, m.node_list[i].start) = i
<1>1. \A j \in DOMAIN m.node_list : m.node_list[j].start = m.node_list[i].start <=> j = i
  BY StartsDiffer
<1>2. i \in DOMAIN m.node_list
  OBVIOUS
<1>3. QED
  BY <1>1, <1>2, Zenon DEF R!NodeAt

LEMMA DropIs ==
  ASSUME NEW S, NEW s \in Seq(S), NEW i \in 1 .. Len(s)
  PROVE  LET d == R!Drop(s, i) IN
         /\ d \in Seq(S) /\ Len(d) = Len(s) - 1
         /\ \A k \in 1 .. Len(s) - 1 : d[k] = IF k < i THEN s[k] ELSE s[k + 1]
<1> DEFINE a == SubSeq(s, 1, i - 1)
           b == SubSeq(s, i + 1, Len(s))
<1>1. a \in Seq(S) /\ Len(a) = i - 1 /\ \A k \in 1 .. i - 1 : a[k] = s[k]
  OBVIOUS
<1>2. b \in Seq(S) /\ Len(b) = Len(s) - i /\ \A k \in 1 .. Len(s) - i : b[k] = s[i + k]
  OBVIOUS
<1>3. R!Drop(s, i) = a \o b
  BY DEF R!Drop
<1> HIDE DEF a, b
<1> DEFINE d == a \o b
<1>4. d \in Seq(S) /\ Len(d) = Len(s) - 1
  <2>1. d \in Seq(S) /\ Len(d) = Len(a) + Len(b)
    <3>1. a \in Seq(S) /\ b \in Seq(S)
      BY <1>1, <1>2
    <3>2. d \in Seq(S)
      BY <3>1
    <3>3. Len(d) = Len(a) + Len(b)
      BY <3>1
    <3>4. QED
      BY <3>2, <3>3
  <2>2. Len(s) \in Nat
    OBVIOUS
  <2> HIDE DEF d
  <2>3. QED
    BY <1>1, <1>2, <2>1, <2>2
<1>5. ASSUME NEW k \in 1 .. Len(s) - 1 PROVE d[k] = IF k < i THEN s[k] ELSE s[k + 1]
  <2>1. CASE k < i
    BY <1>1, <1>2, <2>1
  <2>2. CASE ~(k < i)
    <3>1. d[k] = b[k - (i - 1)]
      BY <1>1, <1>2, <2>2
    <3>2. k - (i - 1) \in 1 .. Len(s) - i /\ i + (k - (i - 1)) = k + 1
      BY <2>2
    <3>3. QED
      BY <1>2, <2>2, <3>1, <3>2
  <2>3. QED
    BY <2>1, <2>2
<1>6. QED
  BY <1>3, <1>4, <1>5

-----------------------------------------------------------------------------
(* One node takes the place of some. *)

\* n2 is n with c in the place of the nodes from a to b.
Replaced(n, a, b, c, n2) ==
  /\ n2 \in Seq(NodeType) /\ Len(n2) = Len(n) - (b - a)
  /\ \A k \in 1 .. Len(n2) :
       n2[k] = IF k < a THEN n[k] ELSE IF k = a THEN c ELSE n[k + (b - a)]

LEMMA ReplacedTiles ==
  ASSUME NEW n \in Seq(NodeType), Tiles(n),
         NEW a \in 1 .. Len(n), NEW b \in a .. Len(n), NEW c \in NodeType,
         NEW n2, Replaced(n, a, b, c, n2),
         c.start = n[a].start, c.start + c.size = n[b].start + n[b].size,
         c.free /\ a > 1 => ~n[a - 1].free,
         c.free /\ b < Len(n) => ~n[b + 1].free
  PROVE  Tiles(n2)
<1> DEFINE d == b - a
           l == Len(n2)
           Old(k) == IF k <= a THEN k ELSE k + d
           End(k) == IF k < a THEN k ELSE k + d
<1>1. l \in Nat /\ Len(n) \in Nat /\ d \in Nat /\ l = Len(n) - d /\ a \in Int /\ b = a + d
      /\ a >= 1 /\ a <= l /\ b <= Len(n)
  BY DEF Replaced
<1>2. \A k \in 1 .. l : /\ Old(k) \in 1 .. Len(n) /\ End(k) \in 1 .. Len(n) /\ Old(k) <= End(k)
                        /\ k < a \/ k > a => Old(k) = End(k) /\ n2[k] = n[Old(k)]
                        /\ k = a => Old(k) = a /\ End(k) = b /\ n2[k] = c
  BY <1>1 DEF Replaced
<1>3. \A k \in 1 .. Len(n) : n[k].start \in Int /\ n[k].size \in Int /\ n[k].size > 0
  BY NodeIs DEF Tiles
<1>4. \A i, j \in 1 .. Len(n) : i < j => n[i].start + n[i].size <= n[j].start
  BY DEF Tiles
<1>5. c.start \in Int /\ c.size \in Int
  BY DEF NodeType
<1>6. ASSUME NEW k \in 1 .. l
      PROVE  /\ n2[k].start = n[Old(k)].start
             /\ n2[k].start + n2[k].size = n[End(k)].start + n[End(k)].size
             /\ n2[k].start \in Int /\ n2[k].size \in Int
  <2> HIDE DEF Old, End
  <2>1. CASE k = a
    <3>1. n2[k] = c /\ Old(k) = a /\ End(k) = b
      BY <1>2, <2>1
    <3>2. QED
      BY <1>5, <3>1
  <2>2. CASE k # a
    <3>1. Old(k) = End(k) /\ n2[k] = n[Old(k)] /\ Old(k) \in 1 .. Len(n)
      BY <1>1, <1>2, <2>2
    <3>2. QED
      BY <1>3, <3>1
  <2>3. QED
    BY <2>1, <2>2
<1>7. ASSUME NEW k \in 1 .. l PROVE n2[k].size > 0
  <2>1. n[Old(k)].start < n[End(k)].start + n[End(k)].size
    <3>1. Old(k) = End(k) \/ Old(k) < End(k)
      BY <1>1, <1>2
    <3>2. Old(k) \in 1 .. Len(n) /\ End(k) \in 1 .. Len(n)
      BY <1>2
    <3> HIDE DEF Old, End
    <3>3. /\ n[Old(k)].start \in Int /\ n[Old(k)].size \in Int /\ n[Old(k)].size > 0
          /\ n[End(k)].start \in Int /\ n[End(k)].size \in Int /\ n[End(k)].size > 0
      BY <1>3, <3>2
    <3>4. Old(k) < End(k) => n[Old(k)].start + n[Old(k)].size <= n[End(k)].start
      BY <1>4, <3>2
    <3> DEFINE p == n[Old(k)].start
               q == n[End(k)].start
               y == n[Old(k)].size
               z == n[End(k)].size
    <3>5. /\ Old(k) = End(k) => p = q
          /\ Old(k) < End(k) => p + y <= q
          /\ p \in Int /\ q \in Int /\ y \in Int /\ z \in Int /\ y > 0 /\ z > 0
      BY <3>3, <3>4
    <3> HIDE DEF p, q, y, z
    <3>6. p < q + z
      BY <3>1, <3>5
    <3>7. QED
      BY <3>6 DEF p, q, z
  <2> HIDE DEF Old, End
  <2>2. n[Old(k)].start \in Int /\ n[End(k)].start \in Int /\ n[End(k)].size \in Int
    BY <1>2, <1>3
  <2> DEFINE p == n[Old(k)].start
             q == n[End(k)].start
             y == n[End(k)].size
             e == n2[k].start
             z == n2[k].size
  <2>3. e = p /\ e + z = q + y /\ e \in Int /\ z \in Int
    BY <1>6, Zenon
  <2>4. p < q + y /\ p \in Int /\ q \in Int /\ y \in Int
    BY <2>1, <2>2
  <2> HIDE DEF p, q, y, e, z
  <2>5. z > 0
    BY <2>3, <2>4
  <2>6. QED
    BY <2>5 DEF z
<1>8. ASSUME NEW i \in 1 .. l, NEW j \in 1 .. l, i < j
      PROVE  n2[i].start + n2[i].size <= n2[j].start
  <2>1. End(i) < Old(j)
    BY <1>1, <1>8
  <2> HIDE DEF Old, End
  <2>2. QED
    BY <1>2, <1>4, <1>6, <2>1
<1>9. ASSUME NEW k \in 1 .. l - 1
      PROVE  n2[k].start + n2[k].size = n2[k + 1].start /\ ~(n2[k].free /\ n2[k + 1].free)
  <2>1. k \in 1 .. l /\ k + 1 \in 1 .. l
    BY <1>1
  <2>2. Old(k + 1) = End(k) + 1 /\ End(k) \in 1 .. Len(n) - 1
    BY <1>1, <1>2, <2>1
  <2>3. n[End(k)].start + n[End(k)].size = n[End(k) + 1].start /\ ~(n[End(k)].free /\ n[End(k) + 1].free)
    BY <2>2 DEF Tiles
  <2>4. n2[k].start + n2[k].size = n2[k + 1].start
    <3> HIDE DEF Old, End
    <3>1. QED
      BY <1>6, <2>1, <2>2, <2>3
  <2>5. ~(n2[k].free /\ n2[k + 1].free)
    <3>1. CASE k = a
      <4>1. n2[k] = c /\ n2[k + 1] = n[b + 1] /\ b < Len(n)
        BY <1>1, <1>2, <2>1, <3>1
      <4>2. QED
        BY <4>1
    <3>2. CASE k + 1 = a
      <4>1. n2[k] = n[a - 1] /\ n2[k + 1] = c /\ a > 1
        BY <1>1, <1>2, <2>1, <3>2
      <4>2. QED
        BY <4>1
    <3>3. CASE k # a /\ k + 1 # a
      <4>1. n2[k] = n[End(k)] /\ n2[k + 1] = n[Old(k + 1)]
        BY <1>1, <1>2, <2>1, <3>3
      <4> HIDE DEF Old, End
      <4>2. QED
        BY <2>2, <2>3, <4>1
    <3>4. QED
      BY <3>1, <3>2, <3>3
  <2>6. QED
    BY <2>4, <2>5
<1>10. l > 0 /\ n2[1].start = 0 /\ n2[l].start + n2[l].size = MmSize
  <2>1. 1 \in 1 .. l /\ l \in 1 .. l /\ Old(1) = 1 /\ End(l) = Len(n)
    <3> HIDE DEF l, d
    <3>1. QED
      BY <1>1
  <2>2. n[1].start = 0 /\ n[Len(n)].start + n[Len(n)].size = MmSize
    BY DEF Tiles
  <2> HIDE DEF Old, End, l, d
  <2>3. l > 0
    BY <1>1
  <2>4. n2[1].start = n[Old(1)].start
    BY <1>6, <2>1
  <2>5. n2[l].start + n2[l].size = n[End(l)].start + n[End(l)].size
    BY <1>6, <2>1
  <2>6. QED
    BY <2>1, <2>2, <2>3, <2>4, <2>5
<1>11. QED
  BY <1>7, <1>8, <1>9, <1>10 DEF Tiles

-----------------------------------------------------------------------------
(* One node becomes two. *)

\* n2 is n with z split off at the start of node i, for a block.
Halved(n, i, z, n2) ==
  /\ n2 \in Seq(NodeType) /\ Len(n2) = Len(n) + 1
  /\ n2[i] = [start |-> n[i].start, size |-> z, free |-> FALSE]
  /\ n2[i + 1] = [start |-> n[i].start + z, size |-> n[i].size - z, free |-> n[i].free]
  /\ \A k \in 1 .. i - 1 : n2[k] = n[k]
  /\ \A k \in i + 2 .. Len(n2) : n2[k] = n[k - 1]

LEMMA HalvedTiles ==
  ASSUME NEW n \in Seq(NodeType), Tiles(n), NEW i \in 1 .. Len(n), NEW z \in Int,
         0 < z, z < n[i].size, NEW n2, Halved(n, i, z, n2)
  PROVE  Tiles(n2)
<1> DEFINE l == Len(n)
           Old(k) == IF k <= i THEN k ELSE k - 1
           St(k) == n[k].start
           Sz(k) == n[k].size
           St2(k) == n2[k].start
           Sz2(k) == n2[k].size
           Free(k) == n[k].free
           Free2(k) == n2[k].free
<1>1. l \in Nat /\ i \in Int /\ 1 <= i /\ i <= l /\ Len(n2) = l + 1 /\ St(i) \in Int
      /\ Sz(i) \in Int /\ z \in Int /\ 0 < z /\ z < Sz(i)
  BY NodeIs DEF Halved
<1>2. \A k \in 1 .. l : St(k) \in Int /\ Sz(k) \in Int /\ Sz(k) > 0
  BY NodeIs DEF Tiles
<1>3. /\ St2(i) = St(i) /\ Sz2(i) = z /\ ~Free2(i)
      /\ St2(i + 1) = St(i) + z /\ Sz2(i + 1) = Sz(i) - z /\ Free2(i + 1) = Free(i)
  BY DEF Halved
<1>4. /\ \A k \in 1 .. i - 1 : St2(k) = St(k) /\ Sz2(k) = Sz(k) /\ Free2(k) = Free(k)
      /\ \A k \in i + 2 .. l + 1 :
           St2(k) = St(k - 1) /\ Sz2(k) = Sz(k - 1) /\ Free2(k) = Free(k - 1)
  BY <1>1 DEF Halved
<1>5. /\ \A j, k \in 1 .. l : j < k => St(j) + Sz(j) <= St(k)
      /\ \A k \in 1 .. l - 1 : St(k) + Sz(k) = St(k + 1) /\ ~(Free(k) /\ Free(k + 1))
      /\ St(1) = 0 /\ St(l) + Sz(l) = MmSize
  BY DEF Tiles
<1> HIDE DEF l, St, Sz, St2, Sz2, Free, Free2
<1>6. ASSUME NEW k \in 1 .. l + 1
      PROVE  /\ Old(k) \in 1 .. l /\ St2(k) \in Int /\ Sz2(k) \in Int /\ Sz2(k) > 0
             /\ St2(k) >= St(Old(k)) /\ St2(k) + Sz2(k) <= St(Old(k)) + Sz(Old(k))
  <2>1. CASE k = i
    <3>1. Old(k) = i
      BY <2>1
    <3> HIDE DEF Old
    <3>2. QED
      BY <1>1, <1>3, <2>1, <3>1
  <2>2. CASE k = i + 1
    <3>1. Old(k) = i
      BY <1>1, <2>2
    <3>2. St2(k) = St(i) + z /\ Sz2(k) = Sz(i) - z
      BY <1>3, <2>2
    <3> DEFINE o == Old(k)
    <3>3. o = i
      BY <3>1
    <3> HIDE DEF Old, o
    <3>4. o \in 1 .. l /\ St(o) = St(i) /\ Sz(o) = Sz(i)
      BY <1>1, <3>3
    <3>5. QED
      BY <1>1, <3>2, <3>4 DEF o
  <2>3. CASE k < i
    BY <1>1, <1>2, <1>4, <2>3
  <2>4. CASE k > i + 1
    BY <1>1, <1>2, <1>4, <2>4
  <2>5. QED
    BY <1>1, <2>1, <2>2, <2>3, <2>4
<1>7. ASSUME NEW j \in 1 .. l + 1, NEW k \in 1 .. l + 1, j < k
      PROVE  St2(j) + Sz2(j) <= St2(k)
  <2>1. CASE j = i /\ k = i + 1
    BY <1>1, <1>3, <2>1
  <2>2. CASE ~(j = i /\ k = i + 1)
    <3>1. Old(j) < Old(k) /\ Old(j) \in 1 .. l /\ Old(k) \in 1 .. l
      BY <1>1, <1>7, <2>2
    <3> HIDE DEF Old
    <3>2. St2(j) + Sz2(j) <= St(Old(j)) + Sz(Old(j)) /\ St2(k) >= St(Old(k))
          /\ St2(j) \in Int /\ Sz2(j) \in Int /\ St2(k) \in Int
      BY <1>6
    <3>3. St(Old(j)) + Sz(Old(j)) <= St(Old(k))
      BY <1>5, <3>1
    <3>4. St(Old(j)) \in Int /\ Sz(Old(j)) \in Int /\ St(Old(k)) \in Int
      BY <1>2, <3>1
    <3> DEFINE a == St2(j) + Sz2(j)
               b == St(Old(j)) + Sz(Old(j))
               c == St(Old(k))
               d == St2(k)
    <3>5. a \in Int /\ b \in Int /\ c \in Int /\ d \in Int /\ a <= b /\ b <= c /\ d >= c
      BY <3>2, <3>3, <3>4
    <3> HIDE DEF a, b, c, d
    <3>6. a <= d
      BY <3>5
    <3>7. QED
      BY <3>6 DEF a, d
  <2>3. QED
    BY <2>1, <2>2
<1>8. ASSUME NEW k \in 1 .. l
      PROVE  St2(k) + Sz2(k) = St2(k + 1) /\ ~(Free2(k) /\ Free2(k + 1))
  <2>1. CASE k + 1 < i
    BY <1>1, <1>4, <1>5, <2>1
  <2>2. CASE k + 1 = i
    BY <1>1, <1>3, <1>4, <1>5, <2>2
  <2>3. CASE k = i
    BY <1>1, <1>3, <2>3
  <2>4. CASE k = i + 1
    <3>1. St2(k + 1) = St(i + 1) /\ Free2(k + 1) = Free(i + 1) /\ i \in 1 .. l - 1
      BY <1>1, <1>4, <2>4
    <3>2. St(i) + Sz(i) = St(i + 1) /\ ~(Free(i) /\ Free(i + 1))
      BY <1>5, <3>1
    <3>3. St2(k) + Sz2(k) = St(i) + Sz(i)
      BY <1>1, <1>3, <2>4
    <3>4. QED
      BY <1>3, <2>4, <3>1, <3>2, <3>3
  <2>5. CASE k > i + 1
    <3>1. k \in i + 2 .. l + 1 /\ k + 1 \in i + 2 .. l + 1 /\ k - 1 \in 1 .. l - 1
          /\ (k + 1) - 1 = k /\ (k - 1) + 1 = k
      BY <1>1, <2>5
    <3>2. QED
      BY <1>4, <1>5, <3>1
  <2>6. QED
    BY <1>1, <2>1, <2>2, <2>3, <2>4, <2>5
<1>9. St2(1) = 0
  BY <1>1, <1>3, <1>4, <1>5
<1>10. St2(l + 1) + Sz2(l + 1) = MmSize
  <2>1. CASE i = l
    BY <1>1, <1>3, <1>5, <2>1
  <2>2. CASE i # l
    <3>1. l + 1 \in i + 2 .. l + 1 /\ (l + 1) - 1 = l
      BY <1>1, <2>2
    <3>2. QED
      BY <1>4, <1>5, <3>1
  <2>3. QED
    BY <2>1, <2>2
<1>11. Len(n2) = l + 1 /\ l + 1 > 0 /\ (l + 1) - 1 = l
  BY <1>1
<1>12. QED
  BY <1>6, <1>7, <1>8, <1>9, <1>10, <1>11 DEF Tiles, St2, Sz2, Free2

\* The nodes of n2 are c and those of n that it does not replace.
LEMMA ReplacedHas ==
  ASSUME NEW n \in Seq(NodeType), NEW a \in 1 .. Len(n), NEW b \in a .. Len(n), NEW c,
         NEW n2, Replaced(n, a, b, c, n2)
  PROVE  /\ \A k \in 1 .. Len(n2) :
              n2[k] = c \/ \E j \in 1 .. Len(n) : j \notin a .. b /\ n2[k] = n[j]
         /\ \A j \in 1 .. Len(n) : j \notin a .. b => \E k \in 1 .. Len(n2) : n2[k] = n[j]
         /\ \E k \in 1 .. Len(n2) : n2[k] = c
<1> DEFINE l == Len(n)
           l2 == Len(n2)
<1>1. l \in Nat /\ a \in Int /\ b \in Int /\ 1 <= a /\ a <= b /\ b <= l /\ l2 = l - (b - a)
  BY DEF Replaced
<1>2. \A k \in 1 .. l2 : n2[k] = IF k < a THEN n[k] ELSE IF k = a THEN c ELSE n[k + (b - a)]
  BY DEF Replaced
<1> HIDE DEF l, l2
<1>3. ASSUME NEW k \in 1 .. l2
      PROVE  n2[k] = c \/ \E j \in 1 .. l : j \notin a .. b /\ n2[k] = n[j]
  <2>1. CASE k < a
    BY <1>1, <1>2, <2>1
  <2>2. CASE k = a
    BY <1>2, <2>2
  <2>3. CASE k > a
    <3>1. n2[k] = n[k + (b - a)]
      BY <1>1, <1>2, <2>3
    <3>2. k + (b - a) \in 1 .. l /\ k + (b - a) \notin a .. b
      BY <1>1, <2>3
    <3>3. QED
      BY <3>1, <3>2
  <2>4. QED
    BY <1>1, <2>1, <2>2, <2>3
<1>4. ASSUME NEW j \in 1 .. l, j \notin a .. b PROVE \E k \in 1 .. l2 : n2[k] = n[j]
  <2>1. CASE j < a
    <3>1. j \in 1 .. l2 /\ n2[j] = n[j]
      BY <1>1, <1>2, <2>1
    <3>2. QED
      BY <3>1
  <2>2. CASE j > b
    <3> DEFINE k == j - (b - a)
    <3>1. k \in 1 .. l2 /\ k > a /\ k + (b - a) = j
      BY <1>1, <2>2
    <3> HIDE DEF k
    <3>2. n2[k] = n[k + (b - a)]
      BY <1>1, <1>2, <3>1
    <3>3. QED
      BY <3>1, <3>2
  <2>3. QED
    BY <1>1, <1>4, <2>1, <2>2
<1>5. \E k \in 1 .. l2 : n2[k] = c
  <2>1. a \in 1 .. l2 /\ n2[a] = c
    BY <1>1, <1>2
  <2>2. QED
    BY <2>1
<1>6. QED
  BY <1>3, <1>4, <1>5 DEF l, l2

LEMMA ReplacedFree ==
  ASSUME NEW n \in Seq(NodeType), Tiles(n), NEW a \in 1 .. Len(n), NEW b \in a .. Len(n), NEW c,
         NEW n2, Replaced(n, a, b, c, n2), NEW x
  PROVE  FreeAt(n2, x) <=> \/ FreeAt(n, x) /\ \A k \in a .. b : x # n[k].start
                           \/ c.free /\ x = c.start
<1>1. a .. b \subseteq 1 .. Len(n)
  OBVIOUS
<1>2. ASSUME FreeAt(n2, x)
      PROVE  \/ FreeAt(n, x) /\ \A k \in a .. b : x # n[k].start
             \/ c.free /\ x = c.start
  <2>1. PICK k \in 1 .. Len(n2) : n2[k].start = x /\ n2[k].free
    BY <1>2 DEF FreeAt
  <2>2. CASE n2[k] = c
    BY <2>1, <2>2
  <2>3. CASE \E j \in 1 .. Len(n) : j \notin a .. b /\ n2[k] = n[j]
    <3>1. PICK j \in 1 .. Len(n) : j \notin a .. b /\ n2[k] = n[j]
      BY <2>3
    <3>2. FreeAt(n, x)
      BY <2>1, <3>1 DEF FreeAt
    <3>3. ASSUME NEW h \in a .. b, x = n[h].start PROVE FALSE
      <4>1. h \in 1 .. Len(n) /\ n[h].start = n[j].start
        BY <1>1, <2>1, <3>1, <3>3
      <4>2. h = j
        BY <4>1, StartsDiffer
      <4>3. QED
        BY <3>1, <4>2
    <3>4. QED
      BY <3>2, <3>3
  <2>4. QED
    BY <2>2, <2>3, ReplacedHas
<1>3. ASSUME c.free, x = c.start PROVE FreeAt(n2, x)
  <2>1. PICK k \in 1 .. Len(n2) : n2[k] = c
    BY ReplacedHas
  <2>2. QED
    BY <1>3, <2>1 DEF FreeAt
<1>4. ASSUME FreeAt(n, x), \A k \in a .. b : x # n[k].start PROVE FreeAt(n2, x)
  <2>1. PICK j \in 1 .. Len(n) : n[j].start = x /\ n[j].free
    BY <1>4 DEF FreeAt
  <2>2. j \notin a .. b
    BY <1>4, <2>1
  <2>3. PICK k \in 1 .. Len(n2) : n2[k] = n[j]
    BY <2>2, ReplacedHas
  <2>4. QED
    BY <2>1, <2>3 DEF FreeAt
<1>5. QED
  BY <1>2, <1>3, <1>4

LEMMA ReplacedBlock ==
  ASSUME NEW n \in Seq(NodeType), Tiles(n), NEW a \in 1 .. Len(n), NEW b \in a .. Len(n), NEW c,
         NEW n2, Replaced(n, a, b, c, n2), NEW x, NEW z
  PROVE  Block(n2, x, z) <=> \/ Block(n, x, z) /\ \A k \in a .. b : x # n[k].start
                             \/ ~c.free /\ x = c.start /\ z = c.size
<1>1. a .. b \subseteq 1 .. Len(n)
  OBVIOUS
<1>2. ASSUME Block(n2, x, z)
      PROVE  \/ Block(n, x, z) /\ \A k \in a .. b : x # n[k].start
             \/ ~c.free /\ x = c.start /\ z = c.size
  <2>1. PICK k \in 1 .. Len(n2) : n2[k].start = x /\ n2[k].size = z /\ ~n2[k].free
    BY <1>2 DEF Block
  <2>2. CASE n2[k] = c
    BY <2>1, <2>2
  <2>3. CASE \E j \in 1 .. Len(n) : j \notin a .. b /\ n2[k] = n[j]
    <3>1. PICK j \in 1 .. Len(n) : j \notin a .. b /\ n2[k] = n[j]
      BY <2>3
    <3>2. Block(n, x, z)
      BY <2>1, <3>1 DEF Block
    <3>3. ASSUME NEW h \in a .. b, x = n[h].start PROVE FALSE
      <4>1. h \in 1 .. Len(n) /\ n[h].start = n[j].start
        BY <1>1, <2>1, <3>1, <3>3
      <4>2. h = j
        BY <4>1, StartsDiffer
      <4>3. QED
        BY <3>1, <4>2
    <3>4. QED
      BY <3>2, <3>3
  <2>4. QED
    BY <2>2, <2>3, ReplacedHas
<1>3. ASSUME ~c.free, x = c.start, z = c.size PROVE Block(n2, x, z)
  <2>1. PICK k \in 1 .. Len(n2) : n2[k] = c
    BY ReplacedHas
  <2>2. QED
    BY <1>3, <2>1 DEF Block
<1>4. ASSUME Block(n, x, z), \A k \in a .. b : x # n[k].start PROVE Block(n2, x, z)
  <2>1. PICK j \in 1 .. Len(n) : n[j].start = x /\ n[j].size = z /\ ~n[j].free
    BY <1>4 DEF Block
  <2>2. j \notin a .. b
    BY <1>4, <2>1
  <2>3. PICK k \in 1 .. Len(n2) : n2[k] = n[j]
    BY <2>2, ReplacedHas
  <2>4. QED
    BY <2>1, <2>3 DEF Block
<1>5. QED
  BY <1>2, <1>3, <1>4

\* A free node that is halved.
LEMMA HalvedFree ==
  ASSUME NEW n \in Seq(NodeType), Tiles(n), NEW i \in 1 .. Len(n), n[i].free, NEW z,
         NEW n2, Halved(n, i, z, n2), NEW x
  PROVE  FreeAt(n2, x) <=> (FreeAt(n, x) /\ x # n[i].start) \/ x = n[i].start + z
<1> DEFINE l == Len(n)
           l2 == Len(n2)
<1>1. l \in Nat /\ i \in Int /\ 1 <= i /\ i <= l /\ l2 = l + 1
  BY DEF Halved
<1>2. /\ ~n2[i].free /\ n2[i + 1].start = n[i].start + z /\ n2[i + 1].free
      /\ \A k \in 1 .. i - 1 : n2[k] = n[k]
      /\ \A k \in i + 2 .. l2 : n2[k] = n[k - 1]
  BY DEF Halved
<1> HIDE DEF l, l2
<1>3. ASSUME NEW k \in 1 .. l2, n2[k].start = x, n2[k].free
      PROVE  (FreeAt(n, x) /\ x # n[i].start) \/ x = n[i].start + z
  <2>1. k # i
    BY <1>2, <1>3
  <2>2. CASE k = i + 1
    BY <1>2, <1>3, <2>2
  <2>3. CASE k # i + 1
    <3>1. PICK j \in 1 .. l : j # i /\ n2[k] = n[j]
      BY <1>1, <1>2, <2>1, <2>3
    <3>2. x # n[i].start
      BY <1>3, <3>1, StartsDiffer DEF l
    <3>3. QED
      BY <1>3, <3>1, <3>2 DEF FreeAt, l
  <2>4. QED
    BY <2>2, <2>3
<1>4. ASSUME x = n[i].start + z PROVE FreeAt(n2, x)
  <2>1. i + 1 \in 1 .. l2
    BY <1>1
  <2>2. QED
    BY <1>2, <1>4, <2>1 DEF FreeAt, l2
<1>5. ASSUME FreeAt(n, x), x # n[i].start PROVE FreeAt(n2, x)
  <2>1. PICK j \in 1 .. l : n[j].start = x /\ n[j].free
    BY <1>5 DEF FreeAt, l
  <2>2. CASE j < i
    <3>1. j \in 1 .. l2 /\ n2[j] = n[j]
      BY <1>1, <1>2, <2>2
    <3>2. QED
      BY <2>1, <3>1 DEF FreeAt, l2
  <2>3. CASE j > i
    <3>1. j + 1 \in i + 2 .. l2 /\ j + 1 \in 1 .. l2 /\ (j + 1) - 1 = j
      BY <1>1, <2>3
    <3>2. n2[j + 1] = n[j]
      BY <1>2, <3>1
    <3>3. QED
      BY <2>1, <3>1, <3>2 DEF FreeAt, l2
  <2>4. j # i
    BY <1>5, <2>1
  <2>5. QED
    BY <1>1, <2>2, <2>3, <2>4
<1>6. QED
  BY <1>3, <1>4, <1>5 DEF FreeAt, l2

LEMMA HalvedBlock ==
  ASSUME NEW n \in Seq(NodeType), Tiles(n), NEW i \in 1 .. Len(n), n[i].free, NEW z,
         NEW n2, Halved(n, i, z, n2), NEW x, NEW y
  PROVE  Block(n2, x, y) <=> Block(n, x, y) \/ (x = n[i].start /\ y = z)
<1> DEFINE l == Len(n)
           l2 == Len(n2)
<1>1. l \in Nat /\ i \in Int /\ 1 <= i /\ i <= l /\ l2 = l + 1
  BY DEF Halved
<1>2. /\ ~n2[i].free /\ n2[i].start = n[i].start /\ n2[i].size = z /\ n2[i + 1].free
      /\ \A k \in 1 .. i - 1 : n2[k] = n[k]
      /\ \A k \in i + 2 .. l2 : n2[k] = n[k - 1]
  BY DEF Halved
<1> HIDE DEF l, l2
<1>3. ASSUME NEW k \in 1 .. l2, n2[k].start = x, n2[k].size = y, ~n2[k].free
      PROVE  Block(n, x, y) \/ (x = n[i].start /\ y = z)
  <2>1. k # i + 1
    BY <1>2, <1>3
  <2>2. CASE k = i
    BY <1>2, <1>3, <2>2
  <2>3. CASE k # i
    <3>1. PICK j \in 1 .. l : n2[k] = n[j]
      BY <1>1, <1>2, <2>1, <2>3
    <3>2. QED
      BY <1>3, <3>1 DEF Block, l
  <2>4. QED
    BY <2>2, <2>3
<1>4. ASSUME x = n[i].start, y = z PROVE Block(n2, x, y)
  <2>1. i \in 1 .. l2
    BY <1>1
  <2>2. QED
    BY <1>2, <1>4, <2>1 DEF Block, l2
<1>5. ASSUME Block(n, x, y) PROVE Block(n2, x, y)
  <2>1. PICK j \in 1 .. l : n[j].start = x /\ n[j].size = y /\ ~n[j].free
    BY <1>5 DEF Block, l
  <2>2. CASE j < i
    <3>1. j \in 1 .. l2 /\ n2[j] = n[j]
      BY <1>1, <1>2, <2>2
    <3>2. QED
      BY <2>1, <3>1 DEF Block, l2
  <2>3. CASE j > i
    <3>1. j + 1 \in i + 2 .. l2 /\ j + 1 \in 1 .. l2 /\ (j + 1) - 1 = j
      BY <1>1, <2>3
    <3>2. n2[j + 1] = n[j]
      BY <1>2, <3>1
    <3>3. QED
      BY <2>1, <3>1, <3>2 DEF Block, l2
  <2>4. j # i
    BY <2>1
  <2>5. QED
    BY <1>1, <2>2, <2>3, <2>4
<1>6. QED
  BY <1>3, <1>4, <1>5 DEF Block, l2

-----------------------------------------------------------------------------
(* The free stack. *)

Once(s) == \A k, l \in 1 .. Len(s) : s[k] = s[l] => k = l

\* p on a stack gives way to q.
Swapped(s, p, q) == [k \in DOMAIN s |-> IF s[k] = p THEN q ELSE s[k]]

LEMMA StackSwap ==
  ASSUME NEW s \in Seq(Int), Once(s), NEW p \in Int, NEW q \in Int, ~OnStack(s, q)
  PROVE  LET s2 == Swapped(s, p, q) IN
         /\ s2 \in Seq(Int) /\ Once(s2)
         /\ \A x \in Int : OnStack(s2, x) <=> \/ OnStack(s, x) /\ x # p
                                              \/ OnStack(s, p) /\ x = q
<1> DEFINE s2 == Swapped(s, p, q)
<1>1. s2 \in Seq(Int) /\ Len(s2) = Len(s) /\ Len(s) \in Nat
  <2>1. Len(s) \in Nat /\ DOMAIN s = 1 .. Len(s) /\ \A k \in 1 .. Len(s) : s[k] \in Int
    OBVIOUS
  <2>2. s2 \in [1 .. Len(s) -> Int]
    BY <2>1 DEF Swapped
  <2> HIDE DEF s2
  <2>3. s2 \in Seq(Int)
    BY <2>1, <2>2, SeqDef
  <2>4. Len(s2) = Len(s)
    BY <2>1, <2>2, <2>3
  <2>5. QED
    BY <2>1, <2>3, <2>4
<1>2. \A k \in 1 .. Len(s) : s2[k] = IF s[k] = p THEN q ELSE s[k]
  BY DEF Swapped
<1> HIDE DEF s2
<1>3. \A k \in 1 .. Len(s) : s[k] # q
  BY DEF OnStack
<1>4. ASSUME NEW k \in 1 .. Len(s), NEW l \in 1 .. Len(s), s2[k] = s2[l] PROVE s[k] = s[l]
  BY <1>2, <1>3, <1>4
<1>5. Once(s2)
  <2>1. \A k, l \in 1 .. Len(s) : s2[k] = s2[l] => s[k] = s[l]
    BY <1>4
  <2>2. \A k, l \in 1 .. Len(s) : s2[k] = s2[l] => k = l
    BY <2>1 DEF Once
  <2>3. Len(s2) = Len(s)
    BY <1>1
  <2>4. QED
    BY <2>2, <2>3, Zenon DEF Once
<1>6. ASSUME NEW x \in Int
      PROVE  OnStack(s2, x) <=> \/ OnStack(s, x) /\ x # p
                                \/ OnStack(s, p) /\ x = q
  BY <1>1, <1>2, <1>3 DEF OnStack
<1>7. QED
  BY <1>1, <1>5, <1>6 DEF s2

\* p leaves a stack.
LEMMA StackDrop ==
  ASSUME NEW m, m.free_stack \in Seq(Int), Once(m.free_stack), NEW p \in Int
  PROVE  LET s2 == R!Unstack(m, p).free_stack IN
         /\ s2 \in Seq(Int) /\ Once(s2)
         /\ \A x \in Int : OnStack(s2, x) <=> OnStack(m.free_stack, x) /\ x # p
<1> DEFINE s == m.free_stack
           at == {k \in DOMAIN s : s[k] = p}
           s2 == R!Unstack(m, p).free_stack
<1>1. Len(s) \in Nat /\ DOMAIN s = 1 .. Len(s)
  OBVIOUS
<1>2. CASE at = {}
  <2>1. s2 = s
    BY <1>2 DEF R!Unstack
  <2>2. \A k \in 1 .. Len(s) : s[k] # p
    BY <1>1, <1>2
  <2> HIDE DEF s2, s
  <2>3. QED
    BY <2>1, <2>2 DEF OnStack, s, s2
<1>3. CASE at # {}
  <2> DEFINE c == CHOOSE k \in at : TRUE
  <2>1. c \in at
    BY <1>3, Zenon
  <2>2. c \in 1 .. Len(s) /\ s[c] = p
    BY <1>1, <2>1
  <2>3. R!Unstack(m, p) = [m EXCEPT !.free_stack = R!Drop(@, c)]
    BY <1>3, Zenon DEF R!Unstack
  <2>4. s2 = R!Drop(s, c)
    <3> HIDE DEF c
    <3>1. QED
      BY <2>3
  <2> HIDE DEF c, at, s2, s
  <2>5. s \in Seq(Int) /\ Once(s)
    BY DEF s
  <2>6. /\ s2 \in Seq(Int) /\ Len(s2) = Len(s) - 1
        /\ \A k \in 1 .. Len(s) - 1 : s2[k] = IF k < c THEN s[k] ELSE s[k + 1]
    BY <2>2, <2>4, <2>5, DropIs
  <2>7. ASSUME NEW k \in 1 .. Len(s) - 1
        PROVE  \E h \in 1 .. Len(s) : h # c /\ s2[k] = s[h] /\ h = IF k < c THEN k ELSE k + 1
    <3>1. CASE k < c
      BY <1>1, <2>2, <2>6, <3>1
    <3>2. CASE ~(k < c)
      BY <1>1, <2>2, <2>6, <3>2
    <3>3. QED
      BY <3>1, <3>2
  <2>8. ASSUME NEW k \in 1 .. Len(s2), NEW l \in 1 .. Len(s2), s2[k] = s2[l] PROVE k = l
    <3>1. k \in 1 .. Len(s) - 1 /\ l \in 1 .. Len(s) - 1
      BY <2>6, <2>8
    <3>2. PICK g \in 1 .. Len(s) : s2[k] = s[g] /\ g = IF k < c THEN k ELSE k + 1
      BY <2>7, <3>1
    <3>3. PICK h \in 1 .. Len(s) : s2[l] = s[h] /\ h = IF l < c THEN l ELSE l + 1
      BY <2>7, <3>1
    <3>4. g = h
      BY <2>5, <2>8, <3>2, <3>3 DEF Once
    <3>5. QED
      BY <1>1, <2>2, <3>1, <3>2, <3>3, <3>4
  <2>9. ASSUME NEW x \in Int, OnStack(s2, x) PROVE OnStack(s, x) /\ x # p
    <3>1. PICK k \in 1 .. Len(s) - 1 : s2[k] = x
      BY <2>6, <2>9 DEF OnStack
    <3>2. PICK h \in 1 .. Len(s) : h # c /\ x = s[h]
      BY <2>7, <3>1
    <3>3. x # p
      BY <2>2, <2>5, <3>2 DEF Once
    <3>4. QED
      BY <3>2, <3>3 DEF OnStack
  <2>10. ASSUME NEW x \in Int, OnStack(s, x), x # p PROVE OnStack(s2, x)
    <3>1. PICK h \in 1 .. Len(s) : s[h] = x
      BY <2>10 DEF OnStack
    <3>2. h # c
      BY <2>2, <2>10, <3>1
    <3>3. CASE h < c
      <4>1. h \in 1 .. Len(s) - 1
        BY <1>1, <2>2, <3>3
      <4>2. s2[h] = x
        BY <2>6, <3>1, <3>3, <4>1
      <4>3. QED
        BY <2>6, <4>1, <4>2 DEF OnStack
    <3>4. CASE h > c
      <4>1. h - 1 \in 1 .. Len(s) - 1 /\ ~(h - 1 < c) /\ (h - 1) + 1 = h
        BY <1>1, <2>2, <3>4
      <4>2. s2[h - 1] = x
        BY <2>6, <3>1, <4>1
      <4>3. QED
        BY <2>6, <4>1, <4>2 DEF OnStack
    <3>5. QED
      BY <1>1, <2>2, <3>2, <3>3, <3>4
  <2>11. QED
    BY <2>6, <2>8, <2>9, <2>10 DEF Once, s2, s
<1>4. QED
  BY <1>2, <1>3

\* p comes on top of a stack.
LEMMA StackPush ==
  ASSUME NEW s \in Seq(Int), Once(s), NEW p \in Int, ~OnStack(s, p),
         NEW s2, s2 = <<p>> \o s
  PROVE  /\ s2 \in Seq(Int) /\ Once(s2)
         /\ \A x \in Int : OnStack(s2, x) <=> OnStack(s, x) \/ x = p
<1>1. <<p>> \in Seq(Int) /\ Len(<<p>>) = 1 /\ <<p>>[1] = p
  OBVIOUS
<1>2. s2 \in Seq(Int)
  BY <1>1
<1>3. Len(s2) = Len(s) + 1 /\ Len(s) \in Nat
  BY <1>1
<1>4. s2[1] = p
  BY <1>1, <1>3
<1>5. \A k \in 2 .. Len(s2) : k - 1 \in 1 .. Len(s) /\ s2[k] = s[k - 1]
  BY <1>1, <1>3
<1>6. \A k \in 1 .. Len(s) : s[k] # p
  BY DEF OnStack
<1>7. ASSUME NEW k \in 1 .. Len(s2), NEW l \in 1 .. Len(s2), s2[k] = s2[l] PROVE k = l
  <2>1. CASE k = 1 /\ l = 1
    BY <2>1
  <2>2. CASE k = 1 /\ l # 1
    BY <1>3, <1>4, <1>5, <1>6, <1>7, <2>2
  <2>3. CASE k # 1 /\ l = 1
    BY <1>3, <1>4, <1>5, <1>6, <1>7, <2>3
  <2>4. CASE k # 1 /\ l # 1
    <3>1. k \in 2 .. Len(s2) /\ l \in 2 .. Len(s2)
      BY <1>3, <2>4
    <3>2. k - 1 = l - 1
      BY <1>5, <1>7, <3>1 DEF Once
    <3>3. QED
      BY <3>1, <3>2
  <2>5. QED
    BY <2>1, <2>2, <2>3, <2>4
<1>8. ASSUME NEW x \in Int, OnStack(s2, x) PROVE OnStack(s, x) \/ x = p
  <2>1. PICK k \in 1 .. Len(s2) : s2[k] = x
    BY <1>8 DEF OnStack
  <2>2. k = 1 \/ k \in 2 .. Len(s2)
    BY <1>3
  <2>3. QED
    BY <1>4, <1>5, <2>1, <2>2 DEF OnStack
<1>9. ASSUME NEW x \in Int, OnStack(s, x) PROVE OnStack(s2, x)
  <2>1. PICK k \in 1 .. Len(s) : s[k] = x
    BY <1>9 DEF OnStack
  <2>2. k + 1 \in 2 .. Len(s2) /\ k + 1 \in 1 .. Len(s2) /\ (k + 1) - 1 = k
    BY <1>3
  <2>3. s2[k + 1] = x
    BY <1>5, <2>1, <2>2
  <2>4. QED
    BY <2>2, <2>3 DEF OnStack
<1>10. OnStack(s2, p)
  <2>1. 1 \in 1 .. Len(s2)
    BY <1>3
  <2>2. QED
    BY <1>4, <2>1 DEF OnStack
<1>11. QED
  BY <1>2, <1>7, <1>8, <1>9, <1>10 DEF Once

\* What Split makes of the list.
\* n2 is n with c and e in the place of node i.
Between(n, i, c, e, n2) ==
  /\ n2 \in Seq(NodeType) /\ Len(n2) = Len(n) + 1 /\ n2[i] = c /\ n2[i + 1] = e
  /\ \A k \in 1 .. i - 1 : n2[k] = n[k]
  /\ \A k \in i + 2 .. Len(n2) : n2[k] = n[k - 1]

Spliced(n, i, c, e) == SubSeq(n, 1, i - 1) \o <<c, e>> \o SubSeq(n, i + 1, Len(n))

LEMMA SplitHalves ==
  ASSUME NEW n \in Seq(NodeType), NEW i \in 1 .. Len(n), NEW c \in NodeType, NEW e \in NodeType
  PROVE  Between(n, i, c, e, Spliced(n, i, c, e))
<1> DEFINE a == SubSeq(n, 1, i - 1)
           b == SubSeq(n, i + 1, Len(n))
           d == <<c, e>>
           g == a \o d
           l == Len(n)
<1>0. Spliced(n, i, c, e) = g \o b
  BY DEF Spliced
<1>1. l \in Nat /\ i \in Int /\ 1 <= i /\ i <= l
  OBVIOUS
<1>2. a \in Seq(NodeType) /\ Len(a) = i - 1 /\ \A k \in 1 .. i - 1 : a[k] = n[k]
  OBVIOUS
<1>3. b \in Seq(NodeType) /\ Len(b) = l - i /\ \A k \in 1 .. l - i : b[k] = n[i + k]
  OBVIOUS
<1>4. d \in Seq(NodeType) /\ Len(d) = 2 /\ d[1] = c /\ d[2] = e
  OBVIOUS
<1> HIDE DEF a, b, d, l
<1>5. g \in Seq(NodeType)
  BY <1>2, <1>4
<1>6. Len(g) = i + 1
  <2>1. Len(g) = Len(a) + Len(d)
    BY <1>2, <1>4, ConcatProperties, Zenon
  <2> HIDE DEF g
  <2>2. QED
    BY <1>1, <1>2, <1>4, <2>1
<1>7. \A k \in 1 .. i - 1 : g[k] = n[k]
  BY <1>1, <1>2, <1>4
<1>8. g[i] = c /\ g[i + 1] = e
  <2>1. \A k \in 1 .. Len(a) + Len(d) : g[k] = IF k <= Len(a) THEN a[k] ELSE d[k - Len(a)]
    BY <1>2, <1>4, ConcatProperties, Zenon
  <2>2. i - Len(a) = 1 /\ (i + 1) - Len(a) = 2
    BY <1>1, <1>2
  <2>3. i \in 1 .. Len(a) + Len(d) /\ i + 1 \in 1 .. Len(a) + Len(d)
        /\ ~(i <= Len(a)) /\ ~(i + 1 <= Len(a))
    BY <1>1, <1>2, <1>4
  <2> HIDE DEF g
  <2>4. g[i] = d[i - Len(a)] /\ g[i + 1] = d[(i + 1) - Len(a)]
    BY <2>1, <2>3
  <2>5. QED
    BY <1>4, <2>2, <2>4
<1> HIDE DEF g
<1> DEFINE h == g \o b
<1>9. h \in Seq(NodeType)
  BY <1>3, <1>5, ConcatProperties, Zenon
<1>10. Len(h) = l + 1
  <2>1. Len(h) = Len(g) + Len(b)
    BY <1>3, <1>5, ConcatProperties, Zenon
  <2> HIDE DEF h
  <2>2. QED
    BY <1>1, <1>3, <1>6, <2>1
<1>11. \A k \in 1 .. Len(g) + Len(b) : h[k] = IF k <= Len(g) THEN g[k] ELSE b[k - Len(g)]
  BY <1>3, <1>5, ConcatProperties, Zenon
<1> HIDE DEF h
<1>12. ASSUME NEW k \in i + 2 .. l + 1 PROVE h[k] = n[k - 1]
  <2>1. k \in 1 .. Len(g) + Len(b) /\ ~(k <= Len(g)) /\ k - Len(g) \in 1 .. l - i
        /\ i + (k - Len(g)) = k - 1
    BY <1>1, <1>3, <1>6
  <2>2. h[k] = b[k - Len(g)]
    BY <1>11, <2>1
  <2>3. b[k - Len(g)] = n[i + (k - Len(g))]
    BY <1>3, <2>1
  <2>4. QED
    BY <2>1, <2>2, <2>3
<1>13. \A k \in 1 .. i + 1 : h[k] = g[k]
  BY <1>1, <1>3, <1>6, <1>11
<1>14. h[i] = c /\ h[i + 1] = e /\ \A k \in 1 .. i - 1 : h[k] = n[k]
  BY <1>1, <1>7, <1>8, <1>13
<1>15. Spliced(n, i, c, e) = h
  BY <1>0 DEF h
<1>16. QED
  BY <1>9, <1>10, <1>12, <1>14, <1>15, Zenon DEF l, Between

LEMMA SpaceFields ==
  ASSUME NEW m \in SpaceType
  PROVE  /\ m.node_list \in Seq(NodeType) /\ m.free_stack \in Seq(Int)
         /\ m.unused_nodes \in Seq(BOOLEAN) /\ m.best \in BOOLEAN
BY Zenon DEF SpaceType

Filled(m, n, s) == [m EXCEPT !.node_list = n, !.free_stack = s]

LEMMA SpaceIs ==
  ASSUME NEW m \in SpaceType, NEW n \in Seq(NodeType), NEW s \in Seq(Int)
  PROVE  LET m2 == Filled(m, n, s) IN
         /\ m2 \in SpaceType /\ m2.node_list = n /\ m2.free_stack = s
         /\ m2.unused_nodes = m.unused_nodes /\ m2.best = m.best
<1> DEFINE m2 == Filled(m, n, s)
<1>1. m2 \in SpaceType
  BY Zenon DEF SpaceType, Filled
<1>2. m2.node_list = n
  BY Zenon DEF SpaceType, Filled
<1>3. m2.free_stack = s
  BY Zenon DEF SpaceType, Filled
<1>4. m2.unused_nodes = m.unused_nodes
  BY Zenon DEF SpaceType, Filled
<1>5. m2.best = m.best
  BY Zenon DEF SpaceType, Filled
<1> HIDE DEF m2
<1>6. QED
  BY <1>1, <1>2, <1>3, <1>4, <1>5 DEF m2

\* A free node and its start are within the range, and nothing starts inside it.
LEMMA InsideIsNone ==
  ASSUME NEW n \in Seq(NodeType), Tiles(n), NEW i \in 1 .. Len(n), NEW z \in Int,
         0 < z, z < n[i].size
  PROVE  \A k \in 1 .. Len(n) : n[k].start # n[i].start + z
<1> TAKE k \in 1 .. Len(n)
<1> DEFINE s == n[i].start
           y == n[i].size
           t == n[k].start
           x == n[k].size
<1>1. s \in Int /\ y \in Int /\ t \in Int /\ x \in Int
  BY NodeIs
<1>2. x > 0 /\ (i < k => s + y <= t) /\ (k < i => t + x <= s) /\ (k = i => t = s)
  BY DEF Tiles
<1>3. i < k \/ k < i \/ k = i
  OBVIOUS
<1>4. z < y
  OBVIOUS
<1> HIDE DEF s, y, t, x
<1>5. t # s + z
  BY <1>1, <1>2, <1>3, <1>4
<1>6. QED
  BY <1>5 DEF s, t

Resized(p, a, b) == [p EXCEPT !.start = a, !.size = b]
Marked(p, f) == [p EXCEPT !.free = f]

LEMMA NodeFields ==
  ASSUME NEW p \in NodeType, NEW a, NEW b, NEW f
  PROVE  /\ Resized(p, a, b) = [start |-> a, size |-> b, free |-> p.free]
         /\ Marked(p, f) = [start |-> p.start, size |-> p.size, free |-> f]
<1>1. p = [start |-> p.start, size |-> p.size, free |-> p.free]
  BY Zenon DEF NodeType
<1> DEFINE x == p.start
           y == p.size
           h == p.free
           q == [start |-> x, size |-> y, free |-> h]
<1>2. p = q
  BY <1>1
<1> HIDE DEF x, y, h
<1>3. [[q EXCEPT !.start = a] EXCEPT !.size = b] = [start |-> a, size |-> b, free |-> h]
  <2>1. [q EXCEPT !.start = a] = [start |-> a, size |-> y, free |-> h]
    OBVIOUS
  <2>2. [[start |-> a, size |-> y, free |-> h] EXCEPT !.size = b]
          = [start |-> a, size |-> b, free |-> h]
    OBVIOUS
  <2> HIDE DEF q
  <2>3. QED
    BY <2>1, <2>2
<1>5. [q EXCEPT !.free = f] = [start |-> x, size |-> y, free |-> f]
  OBVIOUS
<1> HIDE DEF q
<1>6. QED
  BY <1>2, <1>3, <1>5 DEF x, y, h, Resized, Marked

\* m2 is m after z was taken off the front of the free node p.
SplitOff(m, p, z, m2) ==
  /\ m2 \in SpaceType /\ Space(m2) /\ m2.best = m.best
  /\ \A x, y : Block(m2.node_list, x, y) <=>
                 Block(m.node_list, x, y) \/ (x = p.start /\ y = z)
  /\ \E k \in 1 .. Len(m2.node_list) :
       m2.node_list[k] = [start |-> p.start + z, size |-> p.size - z, free |-> TRUE]

\* A block is split off a free node, whose rest stays free.
LEMMA SplitIs ==
  ASSUME NEW m \in SpaceType, Space(m), NEW i \in 1 .. Len(m.node_list), m.node_list[i].free,
         NEW z \in Int, 0 < z, z < m.node_list[i].size
  PROVE  SplitOff(m, m.node_list[i], z, R!Split(m, i, z, FALSE))
<1> DEFINE n == m.node_list
           s == m.free_stack
           p == n[i]
           c == [start |-> p.start, size |-> z, free |-> FALSE]
           e == [p EXCEPT !.start = @ + z, !.size = @ - z]
           n2 == Spliced(n, i, c, e)
           s2 == Swapped(s, p.start, e.start)
           m2 == R!Split(m, i, z, FALSE)
<1>1. n \in Seq(NodeType) /\ s \in Seq(Int) /\ Tiles(n) /\ Stacked(s, n)
  BY SpaceFields DEF Space
<1>2. p \in NodeType /\ p.start \in Int /\ p.size \in Int /\ p.free = TRUE
  BY <1>1, NodeIs
<1>3. c \in NodeType
  BY <1>2, Zenon DEF NodeType
<1>4. e = Resized(p, p.start + z, p.size - z)
  BY DEF Resized
<1>5. e = [start |-> p.start + z, size |-> p.size - z, free |-> TRUE]
  <2> HIDE DEF p, e
  <2>1. QED
    BY <1>2, <1>4, NodeFields
<1>6. e \in NodeType
  <2>1. p.start + z \in Int /\ p.size - z \in Int /\ TRUE \in BOOLEAN
    BY <1>2
  <2> HIDE DEF p, e
  <2>2. QED
    BY <1>5, <2>1, Zenon DEF NodeType
<1>7. e.start = p.start + z
  <2> HIDE DEF p, e
  <2>1. QED
    BY <1>5
<1>8. m2 = Filled(m, n2, s2)
  BY Zenon DEF R!Split, Filled, Spliced, Swapped
<1> HIDE DEF m2, c, e
<1>9. Halved(n, i, z, n2)
  <2>1. Between(n, i, c, e, n2)
    <3>1. i \in 1 .. Len(n)
      OBVIOUS
    <3> HIDE DEF n
    <3>2. QED
      BY <1>1, <1>3, <1>6, <3>1, SplitHalves
  <2> HIDE DEF n2, n
  <2>2. QED
    BY <1>2, <1>5, <2>1 DEF Halved, Between, c
<1> HIDE DEF n2
<1>10. Tiles(n2)
  BY <1>1, <1>9, HalvedTiles
<1>11. Once(s) /\ \A x \in Int : OnStack(s, x) <=> FreeAt(n, x)
  BY <1>1, Zenon DEF Stacked, Once
<1>12. p.start + z \in Int
  BY <1>2
<1>13. ~OnStack(s, p.start + z)
  <2>1. ~FreeAt(n, p.start + z)
    BY <1>1, InsideIsNone DEF FreeAt
  <2>2. QED
    BY <1>11, <1>12, <2>1
<1>14. OnStack(s, p.start)
  <2>1. FreeAt(n, p.start)
    BY <1>2 DEF FreeAt
  <2>2. QED
    BY <1>2, <1>11, <2>1
<1>15. /\ s2 \in Seq(Int) /\ Once(s2)
       /\ \A x \in Int : OnStack(s2, x) <=> (OnStack(s, x) /\ x # p.start) \/ x = p.start + z
  <2>1. s2 = Swapped(s, p.start, p.start + z)
    BY <1>7
  <2> DEFINE a == p.start
             b == p.start + z
  <2>4. s \in Seq(Int) /\ Once(s) /\ a \in Int /\ b \in Int /\ ~OnStack(s, b)
        /\ s2 = Swapped(s, a, b)
    BY <1>1, <1>2, <1>11, <1>12, <1>13, <2>1
  <2> HIDE DEF s2, s, a, b
  <2>5. /\ s2 \in Seq(Int) /\ Once(s2)
        /\ \A x \in Int : OnStack(s2, x) <=> \/ OnStack(s, x) /\ x # a
                                             \/ OnStack(s, a) /\ x = b
    BY <2>4, StackSwap
  <2>2. /\ s2 \in Seq(Int) /\ Once(s2)
        /\ \A x \in Int : OnStack(s2, x) <=> \/ OnStack(s, x) /\ x # p.start
                                             \/ OnStack(s, p.start) /\ x = p.start + z
    BY <2>5 DEF a, b
  <2>3. QED
    BY <1>14, <2>2, Zenon
<1> HIDE DEF s2
<1>16. \A x : FreeAt(n2, x) <=> (FreeAt(n, x) /\ x # p.start) \/ x = p.start + z
  BY <1>1, <1>2, <1>9, HalvedFree
<1>17. Stacked(s2, n2)
  <2> HIDE DEF p, n, s
  <2>1. \A x \in Int : OnStack(s2, x) <=> FreeAt(n2, x)
    BY <1>11, <1>15, <1>16, Zenon
  <2>2. QED
    BY <1>15, <2>1, Zenon DEF Stacked, Once
<1>18. \A x, y : Block(n2, x, y) <=> Block(n, x, y) \/ (x = p.start /\ y = z)
  BY <1>1, <1>2, <1>9, HalvedBlock
<1>19. \E k \in 1 .. Len(n2) : n2[k] = [start |-> p.start + z, size |-> p.size - z, free |-> TRUE]
  <2>1. i + 1 \in 1 .. Len(n2)
    BY <1>9 DEF Halved
  <2>2. n2[i + 1] = [start |-> p.start + z, size |-> p.size - z, free |-> TRUE]
    BY <1>2, <1>9 DEF Halved
  <2>3. QED
    BY <2>1, <2>2
<1>20. /\ m2 \in SpaceType /\ m2.node_list = n2 /\ m2.free_stack = s2 /\ m2.best = m.best
  <2>1. n2 \in Seq(NodeType)
    BY <1>9 DEF Halved
  <2>2. s2 \in Seq(Int)
    BY <1>15
  <2>3. QED
    BY <1>8, <2>1, <2>2, SpaceIs
<1>21. QED
  BY <1>10, <1>17, <1>18, <1>19, <1>20, Zenon DEF Space, SplitOff, m2

\* A node that starts where a free one does is that one.
LEMMA FreeAtIs ==
  ASSUME NEW n \in Seq(NodeType), Tiles(n), NEW i \in 1 .. Len(n)
  PROVE  FreeAt(n, n[i].start) <=> n[i].free
<1>1. ASSUME FreeAt(n, n[i].start) PROVE n[i].free
  <2>1. PICK k \in 1 .. Len(n) : n[k].start = n[i].start /\ n[k].free
    BY <1>1 DEF FreeAt
  <2>2. k = i
    BY <2>1, StartsDiffer
  <2>3. QED
    BY <2>1, <2>2
<1>2. ASSUME n[i].free PROVE FreeAt(n, n[i].start)
  BY <1>2 DEF FreeAt
<1>3. QED
  BY <1>1, <1>2

-----------------------------------------------------------------------------
(* A block is freed. *)

\* The nodes from a to b, of which i alone is in use, make c; the stack has c for them.
Freeing(n, s, i, a, b, c, n2, s2) ==
  /\ Tiles(n) /\ Stacked(s, n) /\ ~n[i].free /\ i \in a .. b
  /\ \A k \in a .. b : k = i \/ n[k].free
  /\ a > 1 => ~n[a - 1].free
  /\ b < Len(n) => ~n[b + 1].free
  /\ c.free /\ c.start = n[a].start /\ c.start + c.size = n[b].start + n[b].size
  /\ Replaced(n, a, b, c, n2) /\ Once(s2)
  /\ \A x \in Int : OnStack(s2, x) <=> \/ OnStack(s, x) /\ \A k \in a .. b : x # n[k].start
                                       \/ x = c.start

\* The list n2 and its stack are those of n and s without the block at x.
Freed(n, x, n2, s2) ==
  /\ Tiles(n2) /\ Stacked(s2, n2)
  /\ \A y, z : Block(n2, y, z) <=> Block(n, y, z) /\ y # x

\* A block is given back: c, free, takes its place and that of its free neighbours.
LEMMA FreedBlockIs ==
  ASSUME NEW n \in Seq(NodeType), NEW s, NEW i \in 1 .. Len(n),
         NEW a \in 1 .. Len(n), NEW b \in a .. Len(n), NEW c \in NodeType,
         NEW n2, NEW s2, Freeing(n, s, i, a, b, c, n2, s2)
  PROVE  Freed(n, n[i].start, n2, s2)
<1> USE DEF Freeing
<1>1. Tiles(n2)
  BY ReplacedTiles
<1>2. \A x : FreeAt(n2, x) <=> \/ FreeAt(n, x) /\ \A k \in a .. b : x # n[k].start
                               \/ x = c.start
  BY ReplacedFree
<1>3. \A x \in Int : OnStack(s, x) <=> FreeAt(n, x)
  BY Zenon DEF Stacked
<1>4. \A x \in Int : OnStack(s2, x) <=> FreeAt(n2, x)
  BY <1>2, <1>3, Zenon
<1>5. Stacked(s2, n2)
  BY <1>4, Zenon DEF Stacked, Once
<1>6. ASSUME NEW x, NEW z PROVE Block(n2, x, z) <=> Block(n, x, z) /\ x # n[i].start
  <2>1. Block(n2, x, z) <=> Block(n, x, z) /\ \A k \in a .. b : x # n[k].start
    BY ReplacedBlock
  <2>2. ASSUME NEW k \in a .. b, x = n[k].start, Block(n, x, z), x # n[i].start PROVE FALSE
    <3>1. PICK j \in 1 .. Len(n) : n[j].start = x /\ ~n[j].free
      BY <2>2 DEF Block
    <3>2. k \in 1 .. Len(n)
      OBVIOUS
    <3>3. j = k
      BY <2>2, <3>1, <3>2, StartsDiffer
    <3>4. k # i
      BY <2>2
    <3>5. QED
      BY <3>1, <3>3, <3>4
  <2>3. i \in a .. b
    OBVIOUS
  <2>4. QED
    BY <2>1, <2>2, <2>3
<1>7. QED
  BY <1>1, <1>5, <1>6, Zenon DEF Freed

SetAt(n, i, c) == [n EXCEPT ![i] = c]

\* n2 is n with c for node i.
Set(n, i, c, n2) ==
  /\ n2 \in Seq(NodeType) /\ Len(n2) = Len(n)
  /\ \A k \in 1 .. Len(n) : n2[k] = IF k = i THEN c ELSE n[k]

LEMMA SetIs ==
  ASSUME NEW n \in Seq(NodeType), NEW i \in 1 .. Len(n), NEW c \in NodeType
  PROVE  Set(n, i, c, SetAt(n, i, c))
BY ExceptSeq DEF SetAt, Set

LEMMA SetReplaces ==
  ASSUME NEW n \in Seq(NodeType), NEW i \in 1 .. Len(n), NEW c \in NodeType
  PROVE  /\ Replaced(n, i, i, c, SetAt(n, i, c))
         /\ i > 1 => Replaced(n, i - 1, i, c, R!Drop(SetAt(n, i - 1, c), i))
         /\ i < Len(n) => Replaced(n, i, i + 1, c, R!Drop(SetAt(n, i + 1, c), i))
         /\ i > 1 /\ i < Len(n) =>
              Replaced(n, i - 1, i + 1, c, R!Drop(R!Drop(SetAt(n, i - 1, c), i + 1), i))
<1> DEFINE l == Len(n)
<1>1. l \in Nat /\ i \in Int /\ 1 <= i /\ i <= l
  OBVIOUS
<1>2. Replaced(n, i, i, c, SetAt(n, i, c))
  <2> DEFINE e == SetAt(n, i, c)
  <2>1. /\ e \in Seq(NodeType) /\ Len(e) = l
        /\ \A k \in 1 .. l : e[k] = IF k = i THEN c ELSE n[k]
    <3>1. Set(n, i, c, e)
      BY SetIs
    <3> HIDE DEF e
    <3>2. QED
      BY <3>1, Zenon DEF Set
  <2> HIDE DEF e, l
  <2>2. /\ Len(e) = l - (i - i)
        /\ \A k \in 1 .. Len(e) : e[k] = IF k < i THEN n[k] ELSE IF k = i THEN c ELSE n[k + (i - i)]
    BY <1>1, <2>1
  <2>3. QED
    BY <2>1, <2>2 DEF Replaced, e, l
<1>3. ASSUME i > 1 PROVE Replaced(n, i - 1, i, c, R!Drop(SetAt(n, i - 1, c), i))
  <2> DEFINE e == SetAt(n, i - 1, c)
             d == R!Drop(e, i)
  <2>1. /\ e \in Seq(NodeType) /\ Len(e) = l
        /\ \A k \in 1 .. l : e[k] = IF k = i - 1 THEN c ELSE n[k]
    <3>1. i - 1 \in 1 .. Len(n)
      BY <1>3
    <3>2. Set(n, i - 1, c, e)
      BY <3>1, SetIs
    <3> HIDE DEF e
    <3>3. QED
      BY <3>2, Zenon DEF Set
  <2> HIDE DEF e
  <2>2. /\ d \in Seq(NodeType) /\ Len(d) = l - 1
        /\ \A k \in 1 .. l - 1 : d[k] = IF k < i THEN e[k] ELSE e[k + 1]
    <3>1. i \in 1 .. Len(e)
      BY <2>1
    <3>2. d \in Seq(NodeType) /\ Len(d) = Len(e) - 1
      BY <2>1, <3>1, DropIs, Zenon
    <3>3. \A k \in 1 .. Len(e) - 1 : d[k] = IF k < i THEN e[k] ELSE e[k + 1]
      BY <2>1, <3>1, DropIs, Zenon
    <3> HIDE DEF d, l
    <3>4. QED
      BY <2>1, <3>2, <3>3
  <2> HIDE DEF d, l
  <2>3. /\ Len(d) = l - (i - (i - 1))
        /\ \A k \in 1 .. Len(d) :
             d[k] = IF k < i - 1 THEN n[k] ELSE IF k = i - 1 THEN c ELSE n[k + (i - (i - 1))]
    BY <1>1, <1>3, <2>1, <2>2
  <2>4. QED
    BY <2>2, <2>3 DEF Replaced, d, e, l
<1>4. ASSUME i < l PROVE Replaced(n, i, i + 1, c, R!Drop(SetAt(n, i + 1, c), i))
  <2> DEFINE e == SetAt(n, i + 1, c)
             d == R!Drop(e, i)
  <2>1. /\ e \in Seq(NodeType) /\ Len(e) = l
        /\ \A k \in 1 .. l : e[k] = IF k = i + 1 THEN c ELSE n[k]
    <3>1. i + 1 \in 1 .. Len(n)
      BY <1>4
    <3>2. Set(n, i + 1, c, e)
      BY <3>1, SetIs
    <3> HIDE DEF e
    <3>3. QED
      BY <3>2, Zenon DEF Set
  <2> HIDE DEF e
  <2>2. /\ d \in Seq(NodeType) /\ Len(d) = l - 1
        /\ \A k \in 1 .. l - 1 : d[k] = IF k < i THEN e[k] ELSE e[k + 1]
    <3>1. i \in 1 .. Len(e)
      BY <2>1
    <3>2. d \in Seq(NodeType) /\ Len(d) = Len(e) - 1
      BY <2>1, <3>1, DropIs, Zenon
    <3>3. \A k \in 1 .. Len(e) - 1 : d[k] = IF k < i THEN e[k] ELSE e[k + 1]
      BY <2>1, <3>1, DropIs, Zenon
    <3> HIDE DEF d, l
    <3>4. QED
      BY <2>1, <3>2, <3>3
  <2> HIDE DEF d, l
  <2>3. /\ Len(d) = l - ((i + 1) - i)
        /\ \A k \in 1 .. Len(d) :
             d[k] = IF k < i THEN n[k] ELSE IF k = i THEN c ELSE n[k + ((i + 1) - i)]
    BY <1>1, <1>4, <2>1, <2>2
  <2>4. QED
    BY <2>2, <2>3 DEF Replaced, d, e, l
<1>5. ASSUME i > 1, i < l
      PROVE  Replaced(n, i - 1, i + 1, c, R!Drop(R!Drop(SetAt(n, i - 1, c), i + 1), i))
  <2> DEFINE e == SetAt(n, i - 1, c)
             d == R!Drop(e, i + 1)
             g == R!Drop(d, i)
  <2>1. /\ e \in Seq(NodeType) /\ Len(e) = l
        /\ \A k \in 1 .. l : e[k] = IF k = i - 1 THEN c ELSE n[k]
    <3>1. i - 1 \in 1 .. Len(n)
      BY <1>5
    <3>2. Set(n, i - 1, c, e)
      BY <3>1, SetIs
    <3> HIDE DEF e
    <3>3. QED
      BY <3>2, Zenon DEF Set
  <2> HIDE DEF e
  <2>2. /\ d \in Seq(NodeType) /\ Len(d) = l - 1
        /\ \A k \in 1 .. l - 1 : d[k] = IF k < i + 1 THEN e[k] ELSE e[k + 1]
    <3>1. i + 1 \in 1 .. Len(e)
      BY <1>5, <2>1
    <3>2. QED
      BY <2>1, <3>1, DropIs
  <2> HIDE DEF d
  <2>3. /\ g \in Seq(NodeType) /\ Len(g) = Len(d) - 1
        /\ \A k \in 1 .. Len(d) - 1 : g[k] = IF k < i THEN d[k] ELSE d[k + 1]
    <3>1. i \in 1 .. Len(d)
      BY <1>5, <2>2
    <3>2. QED
      BY <2>2, <3>1, DropIs
  <2> HIDE DEF g, l
  <2>4. Len(g) = l - ((i + 1) - (i - 1))
    BY <1>1, <2>2, <2>3
  <2>5. ASSUME NEW k \in 1 .. Len(g)
        PROVE  g[k] = IF k < i - 1 THEN n[k] ELSE IF k = i - 1 THEN c
                      ELSE n[k + ((i + 1) - (i - 1))]
    <3>1. CASE k < i - 1
      <4>1. g[k] = d[k] /\ k \in 1 .. l - 1
        BY <1>1, <2>2, <2>3, <2>4, <3>1
      <4>2. d[k] = e[k] /\ k \in 1 .. l
        BY <1>1, <2>2, <3>1, <4>1
      <4>3. QED
        BY <1>1, <2>1, <3>1, <4>1, <4>2
    <3>2. CASE k = i - 1
      <4>1. g[k] = d[k] /\ k \in 1 .. l - 1 /\ k < i + 1 /\ ~(k < i - 1)
        BY <1>1, <2>2, <2>3, <2>4, <3>2
      <4>2. d[k] = e[k] /\ k \in 1 .. l
        BY <1>1, <2>2, <4>1
      <4>3. e[k] = c
        BY <2>1, <3>2, <4>2
      <4>4. QED
        BY <3>2, <4>1, <4>2, <4>3
    <3>3. CASE k > i - 1
      <4>1. g[k] = d[k + 1] /\ k + 1 \in 1 .. l - 1 /\ ~(k + 1 < i + 1)
        BY <1>1, <2>2, <2>3, <2>4, <3>3
      <4>2. d[k + 1] = e[(k + 1) + 1] /\ (k + 1) + 1 \in 1 .. l
            /\ (k + 1) + 1 = k + ((i + 1) - (i - 1)) /\ (k + 1) + 1 # i - 1
        BY <1>1, <2>2, <3>3, <4>1
      <4>3. QED
        BY <1>1, <2>1, <3>3, <4>1, <4>2
    <3>4. QED
      BY <1>1, <3>1, <3>2, <3>3
  <2>6. QED
    BY <2>3, <2>4, <2>5 DEF Replaced, g, d, e, l
<1>6. QED
  BY <1>2, <1>3, <1>4, <1>5

Listed(m, n) == [m EXCEPT !.node_list = n]
Restacked(m, s) == [m EXCEPT !.free_stack = s]
Grown(p, z) == [p EXCEPT !.size = z]

LEMMA ListedIs ==
  ASSUME NEW m \in SpaceType, NEW n \in Seq(NodeType)
  PROVE  /\ Listed(m, n) \in SpaceType /\ Listed(m, n).node_list = n
         /\ Listed(m, n).free_stack = m.free_stack /\ Listed(m, n).best = m.best
<1> DEFINE m2 == Listed(m, n)
<1>1. m2 \in SpaceType
  BY Zenon DEF SpaceType, Listed
<1>2. m2.node_list = n
  BY Zenon DEF SpaceType, Listed
<1>3. m2.free_stack = m.free_stack
  BY Zenon DEF SpaceType, Listed
<1>4. m2.best = m.best
  BY Zenon DEF SpaceType, Listed
<1> HIDE DEF m2
<1>5. QED
  BY <1>1, <1>2, <1>3, <1>4 DEF m2

LEMMA RestackedIs ==
  ASSUME NEW m \in SpaceType, NEW s \in Seq(Int)
  PROVE  /\ Restacked(m, s) \in SpaceType /\ Restacked(m, s).node_list = m.node_list
         /\ Restacked(m, s).free_stack = s /\ Restacked(m, s).best = m.best
<1> DEFINE m2 == Restacked(m, s)
<1>1. m2 \in SpaceType
  BY Zenon DEF SpaceType, Restacked
<1>2. m2.node_list = m.node_list
  BY Zenon DEF SpaceType, Restacked
<1>3. m2.free_stack = s
  BY Zenon DEF SpaceType, Restacked
<1>4. m2.best = m.best
  BY Zenon DEF SpaceType, Restacked
<1> HIDE DEF m2
<1>5. QED
  BY <1>1, <1>2, <1>3, <1>4 DEF m2

LEMMA UnusedIs ==
  ASSUME NEW m \in SpaceType, NEW f \in BOOLEAN
  PROVE  LET m2 == R!Unused(m, f) IN
         /\ m2 \in SpaceType /\ m2.node_list = m.node_list
         /\ m2.free_stack = m.free_stack /\ m2.best = m.best
<1> DEFINE q == <<f>> \o m.unused_nodes
           h == [m EXCEPT !.unused_nodes = q]
<1>1. q \in Seq(BOOLEAN)
  <2>1. <<f>> \in Seq(BOOLEAN)
    OBVIOUS
  <2>2. QED
    BY <2>1, SpaceFields, ConcatProperties, Zenon
<1>2. R!Unused(m, f) = h \/ R!Unused(m, f) = m
  BY Zenon DEF R!Unused
<1> HIDE DEF q
<1>3. h \in SpaceType
  BY <1>1, Zenon DEF SpaceType
<1>4. h.node_list = m.node_list
  BY Zenon DEF SpaceType
<1>5. h.free_stack = m.free_stack
  BY Zenon DEF SpaceType
<1>6. h.best = m.best
  BY Zenon DEF SpaceType
<1> HIDE DEF h
<1>7. QED
  BY <1>2, <1>3, <1>4, <1>5, <1>6

\* m2 is m without p on its stack.
Unstacked(m, p, m2) ==
  /\ m2 \in SpaceType /\ m2.node_list = m.node_list /\ m2.best = m.best
  /\ Once(m2.free_stack)
  /\ \A x \in Int : OnStack(m2.free_stack, x) <=> OnStack(m.free_stack, x) /\ x # p

LEMMA UnstackIs ==
  ASSUME NEW m \in SpaceType, Once(m.free_stack), NEW p \in Int
  PROVE  Unstacked(m, p, R!Unstack(m, p))
<1> USE DEF Unstacked
<1> DEFINE m2 == R!Unstack(m, p)
           s == m2.free_stack
<1>1. m.free_stack \in Seq(Int)
  BY SpaceFields
<1>2. /\ s \in Seq(Int) /\ Once(s)
      /\ \A x \in Int : OnStack(s, x) <=> OnStack(m.free_stack, x) /\ x # p
  BY <1>1, StackDrop
<1>3. m2 = m \/ \E t : m2 = Restacked(m, t)
  BY Zenon DEF R!Unstack, Restacked
<1>4. CASE m2 = m
  <2> HIDE DEF m2
  <2>1. QED
    BY <1>2, <1>4 DEF m2
<1>5. CASE \E t : m2 = Restacked(m, t)
  <2>1. PICK t : m2 = Restacked(m, t)
    BY <1>5
  <2>2. Restacked(m, t).free_stack = t
    BY Zenon DEF Restacked, SpaceType
  <2> HIDE DEF m2
  <2>3. t \in Seq(Int)
    BY <1>2, <2>1, <2>2
  <2>4. m2 \in SpaceType /\ m2.node_list = m.node_list /\ m2.best = m.best
    BY <2>1, <2>3, RestackedIs
  <2>5. QED
    BY <1>2, <2>4 DEF m2
<1>6. QED
  BY <1>3, <1>4, <1>5

LEMMA GrownIs ==
  ASSUME NEW p \in NodeType, NEW z \in Int
  PROVE  /\ Grown(p, z) \in NodeType /\ Grown(p, z).start = p.start /\ Grown(p, z).size = z
         /\ Grown(p, z).free = p.free /\ (p.free => Grown(p, z).free)
<1> DEFINE q == Grown(p, z)
<1>1. q \in NodeType
  BY Zenon DEF NodeType, Grown
<1>2. q.start = p.start
  BY Zenon DEF NodeType, Grown
<1>3. q.size = z
  BY Zenon DEF NodeType, Grown
<1>4. q.free = p.free
  BY Zenon DEF NodeType, Grown
<1> HIDE DEF q
<1>5. QED
  BY <1>1, <1>2, <1>3, <1>4 DEF q

\* m2 is m after the block at x was given back.
PutBack(m, x, m2) ==
  /\ m2 \in SpaceType /\ Space(m2) /\ m2.best = m.best
  /\ \A y, z : Block(m2.node_list, y, z) <=> Block(m.node_list, y, z) /\ y # x

LEMMA UnusedKeeps ==
  ASSUME NEW m, NEW x, NEW m2, PutBack(m, x, m2), NEW f \in BOOLEAN
  PROVE  PutBack(m, x, R!Unused(m2, f))
<1> DEFINE m3 == R!Unused(m2, f)
<1>1. m2 \in SpaceType
  BY DEF PutBack
<1>2. /\ m3 \in SpaceType /\ m3.node_list = m2.node_list
      /\ m3.free_stack = m2.free_stack /\ m3.best = m2.best
  BY <1>1, UnusedIs
<1> HIDE DEF m3
<1>3. PutBack(m, x, m3)
  BY <1>2 DEF PutBack, Space
<1>4. QED
  BY <1>3 DEF m3

\* What holds of a node in use, and of its neighbours.
LEMMA Around ==
  ASSUME NEW n \in Seq(NodeType), Tiles(n), NEW i \in 1 .. Len(n)
  PROVE  /\ i > 1 => /\ i - 1 \in 1 .. Len(n) /\ n[i - 1].start + n[i - 1].size = n[i].start
                     /\ ~(n[i - 1].free /\ n[i].free)
         /\ i < Len(n) => /\ i + 1 \in 1 .. Len(n) /\ n[i].start + n[i].size = n[i + 1].start
                          /\ ~(n[i].free /\ n[i + 1].free)
<1>1. \A k \in 1 .. Len(n) - 1 :
        n[k].start + n[k].size = n[k + 1].start /\ ~(n[k].free /\ n[k + 1].free)
  BY DEF Tiles
<1>2. Len(n) \in Nat /\ i \in Int
  OBVIOUS
<1>3. i > 1 => i - 1 \in 1 .. Len(n) - 1 /\ (i - 1) + 1 = i
  BY <1>2
<1>4. i < Len(n) => i \in 1 .. Len(n) - 1
  BY <1>2
<1>5. QED
  BY <1>1, <1>2, <1>3, <1>4

LEMMA PutBackIs ==
  ASSUME NEW m, NEW x, NEW m2 \in SpaceType, m2.best = m.best,
         Freed(m.node_list, x, m2.node_list, m2.free_stack)
  PROVE  PutBack(m, x, m2)
BY Zenon DEF PutBack, Freed, Space

\* The node before is free, the one after is not.
LEMMA MergePrevIs ==
  ASSUME NEW m \in SpaceType, Space(m), NEW i \in 1 .. Len(m.node_list),
         ~m.node_list[i].free, i > 1, m.node_list[i - 1].free,
         i < Len(m.node_list) => ~m.node_list[i + 1].free
  PROVE  PutBack(m, m.node_list[i].start, R!MergePrev(m, i, FALSE))
<1> DEFINE n == m.node_list
           s == m.free_stack
           p == n[i - 1]
           q == n[i]
           z == p.size + q.size
           c == Grown(p, z)
           n2 == R!Drop(SetAt(n, i - 1, c), i)
           g == Listed(m, SetAt(n, i - 1, c))
           m2 == Listed(g, n2)
<1>1. n \in Seq(NodeType) /\ s \in Seq(Int) /\ Tiles(n) /\ Stacked(s, n)
  BY SpaceFields DEF Space
<1> HIDE DEF n
<1>2. i \in 1 .. Len(n) /\ ~n[i].free /\ i > 1 /\ n[i - 1].free
      /\ (i < Len(n) => ~n[i + 1].free)
  BY DEF n
<1>3. i - 1 \in 1 .. Len(n) /\ n[i - 1].start + n[i - 1].size = n[i].start
  BY <1>1, <1>2, Around
<1>4. p \in NodeType /\ p.start \in Int /\ p.size \in Int /\ q.start \in Int /\ q.size \in Int
      /\ p.free /\ p.start + p.size = q.start
  BY <1>1, <1>2, <1>3, NodeIs
<1> HIDE DEF p, q
<1>5. z \in Int
  BY <1>4
<1> HIDE DEF z
<1>6. c \in NodeType /\ c.start = p.start /\ c.size = z /\ c.free
  <2>1. p \in NodeType /\ z \in Int /\ p.free
    BY <1>4, <1>5
  <2>2. c \in NodeType
    BY <2>1, GrownIs, Zenon
  <2>3. c.start = p.start
    BY <2>1, GrownIs, Zenon
  <2>4. c.size = z
    BY <2>1, GrownIs, Zenon
  <2>5. c.free
    BY <2>1, GrownIs, Zenon
  <2>6. QED
    BY <2>2, <2>3, <2>4, <2>5
<1> HIDE DEF c
<1>7. c.start + c.size = q.start + q.size
  BY <1>4, <1>6 DEF z
<1>8. Replaced(n, i - 1, i, c, n2)
  BY <1>1, <1>2, <1>6, SetReplaces
<1>9. SetAt(n, i - 1, c) \in Seq(NodeType)
  BY <1>1, <1>3, <1>6, SetIs DEF Set
<1>10. n2 \in Seq(NodeType)
  BY <1>8 DEF Replaced
<1> HIDE DEF n2
<1>11. /\ m2 \in SpaceType /\ m2.node_list = n2 /\ m2.free_stack = s /\ m2.best = m.best
  <2>1. g \in SpaceType /\ g.free_stack = s /\ g.best = m.best
    BY <1>9, ListedIs
  <2> HIDE DEF g
  <2>2. QED
    BY <1>10, <2>1, ListedIs
<1>12. Once(s) /\ \A x \in Int : OnStack(s, x) <=> FreeAt(n, x)
  BY <1>1, Zenon DEF Stacked, Once
<1>13. OnStack(s, p.start) /\ ~OnStack(s, q.start)
  <2>1. FreeAt(n, p.start) /\ ~FreeAt(n, q.start)
    BY <1>1, <1>2, <1>3, FreeAtIs DEF p, q
  <2>2. QED
    BY <1>4, <1>12, <2>1
<1>14. ASSUME NEW x \in Int
       PROVE  OnStack(s, x) <=> \/ OnStack(s, x) /\ \A k \in i - 1 .. i : x # n[k].start
                                \/ x = c.start
  <2>1. \A k : k \in i - 1 .. i <=> k = i - 1 \/ k = i
    BY <1>2
  <2>2. (\A k \in i - 1 .. i : x # n[k].start) <=> x # p.start /\ x # q.start
    BY <2>1, Zenon DEF p, q
  <2>3. QED
    BY <1>6, <1>13, <2>2, Zenon
<1>15. Freed(n, q.start, n2, s)
  <2>1. i \in i - 1 .. i /\ i \in i - 1 .. Len(n) /\ i - 1 \in 1 .. Len(n)
    BY <1>2, <1>3
  <2>2. \A k \in i - 1 .. i : k = i \/ n[k].free
    BY <1>2
  <2>3. i - 1 > 1 => ~n[(i - 1) - 1].free
    BY <1>1, <1>2, <1>3, Around
  <2>4. c.start = n[i - 1].start /\ c.start + c.size = n[i].start + n[i].size
    BY <1>6, <1>7 DEF p, q
  <2> HIDE DEF s
  <2>5. Freeing(n, s, i, i - 1, i, c, n2, s)
    BY <1>1, <1>2, <1>6, <1>8, <1>12, <1>14, <2>1, <2>2, <2>3, <2>4, Zenon DEF Freeing
  <2>6. QED
    BY <1>1, <1>2, <1>6, <2>1, <2>5, FreedBlockIs DEF q
<1>16. m2 = R!MergePrev(m, i, FALSE)
  <2>1. z = n[i - 1].size + n[i].size + (IF FALSE THEN n[i + 1].size ELSE 0)
    <3>1. z = p.size + q.size + 0
      BY <1>4 DEF z
    <3>2. QED
      BY <3>1 DEF p, q
  <2>2. g = [m EXCEPT !.node_list[i - 1].size = z]
    BY Zenon DEF Listed, SetAt, Grown, n, c, p
  <2>3. g.node_list = SetAt(n, i - 1, c)
    BY <1>9, ListedIs
  <2>4. m2 = [g EXCEPT !.node_list = R!Drop(@, i)]
    <3> HIDE DEF g
    <3>1. QED
      BY <2>3 DEF Listed, n2
  <2> HIDE DEF g, m2
  <2>5. R!MergePrev(m, i, FALSE) = [g EXCEPT !.node_list = R!Drop(@, i)]
    BY <2>1, <2>2, Zenon DEF R!MergePrev, n
  <2>6. QED
    BY <2>4, <2>5
<1> HIDE DEF m2
<1>17. QED
  BY <1>11, <1>15, <1>16, PutBackIs DEF n, q

\* Both neighbours are free.
LEMMA MergeBothIs ==
  ASSUME NEW m \in SpaceType, Space(m), NEW i \in 1 .. Len(m.node_list),
         ~m.node_list[i].free, i > 1, m.node_list[i - 1].free,
         i < Len(m.node_list), m.node_list[i + 1].free
  PROVE  PutBack(m, m.node_list[i].start, R!MergePrev(m, i, TRUE))
<1> DEFINE n == m.node_list
           s == m.free_stack
           p == n[i - 1]
           q == n[i]
           e == n[i + 1]
           z == p.size + q.size + e.size
           c == Grown(p, z)
           n1 == SetAt(n, i - 1, c)
           n2 == R!Drop(n1, i + 1)
           n3 == R!Drop(n2, i)
           g == Listed(m, n1)
           h == Listed(g, n2)
           u == R!Unstack(h, e.start)
           v == R!Unused(u, TRUE)
           m2 == Listed(v, n3)
<1>1. n \in Seq(NodeType) /\ s \in Seq(Int) /\ Tiles(n) /\ Stacked(s, n)
  BY SpaceFields DEF Space
<1> HIDE DEF n
<1>2. i \in 1 .. Len(n) /\ ~n[i].free /\ i > 1 /\ n[i - 1].free
      /\ i < Len(n) /\ n[i + 1].free
  BY DEF n
<1>3. i - 1 \in 1 .. Len(n) /\ n[i - 1].start + n[i - 1].size = n[i].start
      /\ i + 1 \in 1 .. Len(n) /\ n[i].start + n[i].size = n[i + 1].start
  BY <1>1, <1>2, Around
<1>4. /\ p \in NodeType /\ p.start \in Int /\ p.size \in Int /\ p.free
      /\ q.start \in Int /\ q.size \in Int /\ e.start \in Int /\ e.size \in Int
      /\ p.start + p.size = q.start /\ q.start + q.size = e.start
  BY <1>1, <1>2, <1>3, NodeIs
<1> HIDE DEF p, q, e
<1> DEFINE zp == p.size
           zq == q.size
           ze == e.size
<1>5. z \in Int
  <2>1. zp \in Int /\ zq \in Int /\ ze \in Int
    BY <1>4
  <2> HIDE DEF zp, zq, ze
  <2>2. zp + zq + ze \in Int
    BY <2>1
  <2>3. QED
    BY <2>2 DEF zp, zq, ze
<1> HIDE DEF z
<1>6. c \in NodeType /\ c.start = p.start /\ c.size = z /\ c.free
  BY <1>4, <1>5, GrownIs
<1> HIDE DEF c
<1>7. c.start + c.size = e.start + e.size
  <2> DEFINE xp == p.start
             xq == q.start
             xe == e.start
  <2>1. zp \in Int /\ zq \in Int /\ ze \in Int /\ xp \in Int /\ xq \in Int /\ xe \in Int
        /\ xp + zp = xq /\ xq + zq = xe
    BY <1>4
  <2>2. c.start = xp /\ c.size = zp + zq + ze
    BY <1>6 DEF z
  <2> HIDE DEF zp, zq, ze, xp, xq, xe
  <2>3. xp + (zp + zq + ze) = xe + ze
    BY <2>1
  <2>4. QED
    BY <2>2, <2>3 DEF xe, ze
<1>8. Replaced(n, i - 1, i + 1, c, n3)
  BY <1>1, <1>2, <1>6, SetReplaces
<1>9. n1 \in Seq(NodeType) /\ Len(n1) = Len(n)
  <2>1. Set(n, i - 1, c, n1)
    BY <1>1, <1>3, <1>6, SetIs
  <2> HIDE DEF n1
  <2>2. QED
    BY <2>1 DEF Set
<1>10. n3 \in Seq(NodeType)
  BY <1>8 DEF Replaced
<1> HIDE DEF n1
<1>11. n2 \in Seq(NodeType)
  BY <1>3, <1>9, DropIs
<1>12. Once(s) /\ \A x \in Int : OnStack(s, x) <=> FreeAt(n, x)
  BY <1>1, Zenon DEF Stacked, Once
<1> HIDE DEF n2, n3
<1>13. g \in SpaceType /\ g.node_list = n1 /\ g.free_stack = s /\ g.best = m.best
  BY <1>9, ListedIs
<1> HIDE DEF g
<1>14. h \in SpaceType /\ h.node_list = n2 /\ h.free_stack = s /\ h.best = m.best
  BY <1>11, <1>13, ListedIs
<1> HIDE DEF h
<1> DEFINE t == u.free_stack
<1>15. /\ u \in SpaceType /\ u.node_list = n2 /\ u.best = m.best /\ Once(t)
       /\ \A x \in Int : OnStack(t, x) <=> OnStack(s, x) /\ x # e.start
  <2>1. Once(h.free_stack) /\ e.start \in Int
    BY <1>4, <1>12, <1>14
  <2>2. Unstacked(h, e.start, u)
    BY <1>14, <2>1, UnstackIs
  <2> HIDE DEF u, s
  <2>3. QED
    BY <1>14, <2>2, Zenon DEF Unstacked
<1> HIDE DEF u
<1>16. v \in SpaceType /\ v.node_list = n2 /\ v.free_stack = t /\ v.best = m.best
  BY <1>15, UnusedIs
<1> HIDE DEF v
<1>17. m2 \in SpaceType /\ m2.node_list = n3 /\ m2.free_stack = t /\ m2.best = m.best
  BY <1>10, <1>16, ListedIs
<1>18. t \in Seq(Int)
  BY <1>15, SpaceFields
<1>19. m2 = R!MergePrev(m, i, TRUE)
  <2>1. z = n[i - 1].size + n[i].size + (IF TRUE THEN n[i + 1].size ELSE 0)
    BY DEF z, p, q, e
  <2>2. g = [m EXCEPT !.node_list[i - 1].size = z]
    BY Zenon DEF g, Listed, SetAt, Grown, n, c, n1, p
  <2>3. h = [g EXCEPT !.node_list = R!Drop(@, i + 1)]
    BY <1>13 DEF h, Listed, n2
  <2>4. m2 = [v EXCEPT !.node_list = R!Drop(@, i)]
    BY <1>16 DEF Listed, n3
  <2> HIDE DEF m2
  <2>5. R!MergePrev(m, i, TRUE) = [v EXCEPT !.node_list = R!Drop(@, i)]
    BY <2>1, <2>2, <2>3, Zenon DEF R!MergePrev, n, u, v, e
  <2>6. QED
    BY <2>4, <2>5
<1> HIDE DEF t
<1>20. OnStack(s, p.start) /\ ~OnStack(s, q.start)
  <2>1. FreeAt(n, p.start) /\ ~FreeAt(n, q.start)
    BY <1>1, <1>2, <1>3, FreeAtIs DEF p, q
  <2>2. QED
    BY <1>4, <1>12, <2>1
<1>21. p.start # e.start
  <2>1. i - 1 # i + 1
    BY <1>2
  <2>2. QED
    BY <1>1, <1>3, <2>1, StartsDiffer DEF p, e
<1>22. ASSUME NEW x \in Int
       PROVE  OnStack(t, x) <=> \/ OnStack(s, x) /\ \A k \in i - 1 .. i + 1 : x # n[k].start
                                \/ x = c.start
  <2>1. \A k : k \in i - 1 .. i + 1 <=> k = i - 1 \/ k = i \/ k = i + 1
    BY <1>2
  <2>2. (\A k \in i - 1 .. i + 1 : x # n[k].start) <=> x # p.start /\ x # q.start /\ x # e.start
    BY <2>1, Zenon DEF p, q, e
  <2>3. QED
    BY <1>6, <1>15, <1>20, <1>21, <2>2, Zenon
<1>23. Freed(n, q.start, n3, t)
  <2>1. i \in i - 1 .. i + 1 /\ i + 1 \in i - 1 .. Len(n) /\ i - 1 \in 1 .. Len(n)
    BY <1>2, <1>3
  <2>2. \A k \in i - 1 .. i + 1 : k = i \/ n[k].free
    BY <1>2
  <2>3. i - 1 > 1 => ~n[(i - 1) - 1].free
    BY <1>1, <1>2, <1>3, Around
  <2>4. i + 1 < Len(n) => ~n[(i + 1) + 1].free
    BY <1>1, <1>2, <1>3, Around
  <2>5. c.start = n[i - 1].start /\ c.start + c.size = n[i + 1].start + n[i + 1].size
    BY <1>6, <1>7 DEF p, e
  <2> HIDE DEF s
  <2>6. Freeing(n, s, i, i - 1, i + 1, c, n3, t)
    BY <1>1, <1>2, <1>6, <1>8, <1>15, <1>22, <2>1, <2>2, <2>3, <2>4, <2>5, Zenon DEF Freeing
  <2>7. QED
    BY <1>1, <1>2, <1>6, <2>1, <2>6, FreedBlockIs DEF q
<1> HIDE DEF m2
<1>24. QED
  BY <1>17, <1>19, <1>23, PutBackIs DEF n, q

\* The node after is free, the one before is not.
LEMMA MergeNextIs ==
  ASSUME NEW m \in SpaceType, Space(m), NEW i \in 1 .. Len(m.node_list),
         ~m.node_list[i].free, i > 1 => ~m.node_list[i - 1].free,
         i < Len(m.node_list), m.node_list[i + 1].free
  PROVE  PutBack(m, m.node_list[i].start, R!MergeNext(m, i))
<1> DEFINE n == m.node_list
           s == m.free_stack
           q == n[i]
           e == n[i + 1]
           z == e.size + q.size
           c == Resized(e, q.start, z)
           n2 == R!Drop(SetAt(n, i + 1, c), i)
           t == Swapped(s, e.start, q.start)
           m2 == Filled(m, n2, t)
<1>1. n \in Seq(NodeType) /\ s \in Seq(Int) /\ Tiles(n) /\ Stacked(s, n)
  BY SpaceFields DEF Space
<1> HIDE DEF n
<1>2. i \in 1 .. Len(n) /\ ~n[i].free /\ (i > 1 => ~n[i - 1].free)
      /\ i < Len(n) /\ n[i + 1].free
  BY DEF n
<1>3. i + 1 \in 1 .. Len(n) /\ n[i].start + n[i].size = n[i + 1].start
  BY <1>1, <1>2, Around
<1>4. /\ e \in NodeType /\ e.start \in Int /\ e.size \in Int /\ e.free = TRUE
      /\ q.start \in Int /\ q.size \in Int /\ q.start + q.size = e.start
  BY <1>1, <1>2, <1>3, NodeIs
<1> HIDE DEF q, e
<1>5. z \in Int
  BY <1>4
<1> HIDE DEF z
<1>6. c = [start |-> q.start, size |-> z, free |-> TRUE]
  <2>1. c = [start |-> q.start, size |-> z, free |-> e.free]
    BY <1>4, NodeFields
  <2> HIDE DEF c
  <2>2. QED
    BY <1>4, <2>1
<1> HIDE DEF c
<1>7. c \in NodeType
  BY <1>4, <1>5, <1>6, Zenon DEF NodeType
<1>8. c.start = q.start /\ c.size = z /\ c.free
  BY <1>6
<1>9. c.start + c.size = e.start + e.size
  <2> DEFINE zq == q.size
             ze == e.size
             xq == q.start
             xe == e.start
  <2>1. zq \in Int /\ ze \in Int /\ xq \in Int /\ xe \in Int /\ xq + zq = xe
    BY <1>4
  <2>2. c.start = xq /\ c.size = ze + zq
    BY <1>8 DEF z
  <2> HIDE DEF zq, ze, xq, xe
  <2>3. xq + (ze + zq) = xe + ze
    BY <2>1
  <2>4. QED
    BY <2>2, <2>3 DEF xe, ze
<1>10. Replaced(n, i, i + 1, c, n2)
  BY <1>1, <1>2, <1>7, SetReplaces
<1>11. n2 \in Seq(NodeType)
  BY <1>10 DEF Replaced
<1> HIDE DEF n2
<1>12. Once(s) /\ \A x \in Int : OnStack(s, x) <=> FreeAt(n, x)
  BY <1>1, Zenon DEF Stacked, Once
<1>13. OnStack(s, e.start) /\ ~OnStack(s, q.start)
  <2>1. FreeAt(n, e.start) /\ ~FreeAt(n, q.start)
    BY <1>1, <1>2, <1>3, FreeAtIs DEF e, q
  <2>2. QED
    BY <1>4, <1>12, <2>1
<1> HIDE DEF s
<1>14. /\ t \in Seq(Int) /\ Once(t)
       /\ \A x \in Int : OnStack(t, x) <=> \/ OnStack(s, x) /\ x # e.start
                                           \/ OnStack(s, e.start) /\ x = q.start
  BY <1>1, <1>4, <1>12, <1>13, StackSwap
<1> HIDE DEF t
<1>15. ASSUME NEW x \in Int
       PROVE  OnStack(t, x) <=> \/ OnStack(s, x) /\ \A k \in i .. i + 1 : x # n[k].start
                                \/ x = c.start
  <2>1. \A k : k \in i .. i + 1 <=> k = i \/ k = i + 1
    BY <1>2
  <2>2. (\A k \in i .. i + 1 : x # n[k].start) <=> x # e.start /\ x # q.start
    BY <2>1, Zenon DEF e, q
  <2>3. QED
    BY <1>8, <1>13, <1>14, <2>2, Zenon
<1>16. Freed(n, q.start, n2, t)
  <2>1. i \in i .. i + 1 /\ i + 1 \in i .. Len(n)
    BY <1>2, <1>3
  <2>2. \A k \in i .. i + 1 : k = i \/ n[k].free
    BY <1>2
  <2>3. i + 1 < Len(n) => ~n[(i + 1) + 1].free
    BY <1>1, <1>2, <1>3, Around
  <2>4. c.start = n[i].start /\ c.start + c.size = n[i + 1].start + n[i + 1].size
    BY <1>8, <1>9 DEF e, q
  <2>5. Freeing(n, s, i, i, i + 1, c, n2, t)
    BY <1>1, <1>2, <1>8, <1>10, <1>14, <1>15, <2>1, <2>2, <2>3, <2>4, Zenon DEF Freeing
  <2>6. QED
    BY <1>1, <1>2, <1>7, <2>1, <2>5, FreedBlockIs DEF q
<1>17. m2 = R!MergeNext(m, i)
  BY Zenon DEF R!MergeNext, Filled, Swapped, SetAt, Resized, n, s, q, e, z, c, n2, t
<1>18. m2 \in SpaceType /\ m2.node_list = n2 /\ m2.free_stack = t /\ m2.best = m.best
  BY <1>11, <1>14, SpaceIs
<1> HIDE DEF m2
<1>19. QED
  BY <1>16, <1>17, <1>18, PutBackIs DEF n, q

\* No neighbour is free.
Alone(m, i, x) == [m EXCEPT !.node_list[i].free = TRUE, !.free_stack = <<x>> \o @]

LEMMA AloneIs ==
  ASSUME NEW m \in SpaceType, Space(m), NEW i \in 1 .. Len(m.node_list),
         ~m.node_list[i].free, i > 1 => ~m.node_list[i - 1].free,
         i < Len(m.node_list) => ~m.node_list[i + 1].free,
         NEW x, x = m.node_list[i].start
  PROVE  PutBack(m, x, Alone(m, i, x))
<1> DEFINE n == m.node_list
           s == m.free_stack
           q == n[i]
           c == Marked(q, TRUE)
           n2 == SetAt(n, i, c)
           t == <<x>> \o s
           m2 == Filled(m, n2, t)
<1>1. n \in Seq(NodeType) /\ s \in Seq(Int) /\ Tiles(n) /\ Stacked(s, n)
  BY SpaceFields DEF Space
<1> HIDE DEF n
<1>2. i \in 1 .. Len(n) /\ ~n[i].free /\ (i > 1 => ~n[i - 1].free)
      /\ (i < Len(n) => ~n[i + 1].free) /\ x = n[i].start
  BY DEF n
<1>3. q \in NodeType /\ q.start \in Int /\ q.size \in Int /\ q.start = x
  BY <1>1, <1>2, NodeIs
<1> HIDE DEF q
<1>4. c = [start |-> q.start, size |-> q.size, free |-> TRUE]
  BY <1>3, NodeFields
<1> HIDE DEF c
<1>5. c \in NodeType
  BY <1>3, <1>4, Zenon DEF NodeType
<1>6. c.start = q.start /\ c.size = q.size /\ c.free
  BY <1>4
<1>7. Replaced(n, i, i, c, n2)
  BY <1>1, <1>2, <1>5, SetReplaces
<1>8. n2 \in Seq(NodeType)
  BY <1>7 DEF Replaced
<1> HIDE DEF n2
<1>9. Once(s) /\ \A y \in Int : OnStack(s, y) <=> FreeAt(n, y)
  BY <1>1, Zenon DEF Stacked, Once
<1>10. ~OnStack(s, x)
  <2>1. ~FreeAt(n, x)
    BY <1>1, <1>2, FreeAtIs
  <2>2. QED
    BY <1>3, <1>9, <2>1
<1> HIDE DEF s
<1>11. /\ t \in Seq(Int) /\ Once(t)
       /\ \A y \in Int : OnStack(t, y) <=> OnStack(s, y) \/ y = x
  BY <1>1, <1>3, <1>9, <1>10, StackPush
<1> HIDE DEF t
<1>12. ASSUME NEW y \in Int
       PROVE  OnStack(t, y) <=> \/ OnStack(s, y) /\ \A k \in i .. i : y # n[k].start
                                \/ y = c.start
  <2>1. \A k : k \in i .. i <=> k = i
    BY <1>2
  <2>2. (\A k \in i .. i : y # n[k].start) <=> y # x
    BY <1>2, <2>1, Zenon
  <2>3. QED
    BY <1>3, <1>6, <1>10, <1>11, <2>2, Zenon
<1>13. Freed(n, x, n2, t)
  <2>1. i \in i .. i /\ i \in i .. Len(n)
    BY <1>2
  <2>2. \A k \in i .. i : k = i \/ n[k].free
    BY <1>2
  <2>3. c.start = n[i].start /\ c.start + c.size = n[i].start + n[i].size
    BY <1>6 DEF q
  <2>4. Freeing(n, s, i, i, i, c, n2, t)
    BY <1>1, <1>2, <1>6, <1>7, <1>11, <1>12, <2>1, <2>2, <2>3, Zenon DEF Freeing
  <2>5. QED
    BY <1>1, <1>2, <1>5, <2>1, <2>4, FreedBlockIs
<1>14. m2 = Alone(m, i, x)
  BY Zenon DEF Alone, Filled, SetAt, Marked, n, s, q, c, n2, t
<1>15. m2 \in SpaceType /\ m2.node_list = n2 /\ m2.free_stack = t /\ m2.best = m.best
  BY <1>8, <1>11, SpaceIs
<1> HIDE DEF m2
<1>16. PutBack(m, x, m2)
  BY <1>13, <1>15, PutBackIs DEF n
<1>17. QED
  BY <1>14, <1>16

\* drm_mm_put_block gives one block back and no other.
LEMMA PutBlockIs ==
  ASSUME NEW m \in SpaceType, Space(m), NEW x, NEW z, Block(m.node_list, x, z)
  PROVE  PutBack(m, x, R!drm_mm_put_block(m, x))
<1> DEFINE n == m.node_list
<1>1. n \in Seq(NodeType) /\ Tiles(n)
  BY SpaceFields DEF Space
<1>2. PICK i \in 1 .. Len(n) : n[i].start = x /\ ~n[i].free
  BY DEF Block
<1>3. R!NodeAt(m, x) = i
  BY <1>1, <1>2, NodeAtIs
<1> DEFINE Free(j) == j \in DOMAIN n /\ n[j].free
           m2 == R!drm_mm_put_block(m, x)
<1>4. m2 = IF Free(i - 1) THEN R!Unused(R!MergePrev(m, i, Free(i + 1)), n[i].free)
           ELSE IF Free(i + 1) THEN R!Unused(R!MergeNext(m, i), n[i].free)
           ELSE [m EXCEPT !.node_list[i].free = TRUE, !.free_stack = <<x>> \o @]
  BY <1>3, Zenon DEF R!drm_mm_put_block
<1>5. /\ Free(i - 1) <=> i > 1 /\ n[i - 1].free
      /\ Free(i + 1) <=> i < Len(n) /\ n[i + 1].free
  <2>1. DOMAIN n = 1 .. Len(n) /\ i \in 1 .. Len(n) /\ Len(n) \in Nat
    BY <1>1
  <2>2. i - 1 \in DOMAIN n <=> i > 1
    BY <2>1
  <2>3. i + 1 \in DOMAIN n <=> i < Len(n)
    BY <2>1
  <2>4. QED
    BY <2>2, <2>3, Zenon
<1>6. n[i].free \in BOOLEAN
  BY <1>1, NodeIs
<1> HIDE DEF Free, m2
<1>7. CASE Free(i - 1) /\ Free(i + 1)
  <2>1. m2 = R!Unused(R!MergePrev(m, i, TRUE), n[i].free)
    <3>1. Free(i + 1) = TRUE
      BY <1>7, Zenon DEF Free
    <3>2. QED
      BY <1>4, <1>7, <3>1, Zenon
  <2>2. PutBack(m, x, R!MergePrev(m, i, TRUE))
    BY <1>2, <1>5, <1>7, MergeBothIs
  <2>3. QED
    BY <1>6, <2>1, <2>2, UnusedKeeps DEF m2
<1>8. CASE Free(i - 1) /\ ~Free(i + 1)
  <2>1. m2 = R!Unused(R!MergePrev(m, i, FALSE), n[i].free)
    <3>1. Free(i + 1) = FALSE
      BY <1>8, Zenon DEF Free
    <3>2. QED
      BY <1>4, <1>8, <3>1, Zenon
  <2>2. PutBack(m, x, R!MergePrev(m, i, FALSE))
    BY <1>2, <1>5, <1>8, MergePrevIs
  <2>3. QED
    BY <1>6, <2>1, <2>2, UnusedKeeps DEF m2
<1>9. CASE ~Free(i - 1) /\ Free(i + 1)
  <2>1. m2 = R!Unused(R!MergeNext(m, i), n[i].free)
    BY <1>4, <1>9, Zenon
  <2>2. PutBack(m, x, R!MergeNext(m, i))
    BY <1>2, <1>5, <1>9, MergeNextIs
  <2>3. QED
    BY <1>6, <2>1, <2>2, UnusedKeeps DEF m2
<1>10. CASE ~Free(i - 1) /\ ~Free(i + 1)
  <2>1. m2 = Alone(m, i, x)
    BY <1>4, <1>10, Zenon DEF Alone
  <2>2. PutBack(m, x, Alone(m, i, x))
    BY <1>2, <1>5, <1>10, AloneIs
  <2>3. QED
    BY <2>1, <2>2 DEF m2
<1>11. QED
  BY <1>7, <1>8, <1>9, <1>10

-----------------------------------------------------------------------------
(* A block is taken from a hole. *)

\* m2 is m after the block of z at x was taken, or, without ok, was not.
Took(m, ok, x, z, m2) ==
  /\ m2 \in SpaceType /\ Space(m2) /\ m2.best = m.best
  /\ \A y, v : Block(m2.node_list, y, v) <=>
                 Block(m.node_list, y, v) \/ (ok /\ y = x /\ v = z)

\* There is no block where a free node starts.
LEMMA FreeIsNoBlock ==
  ASSUME NEW n \in Seq(NodeType), Tiles(n), NEW i \in 1 .. Len(n), n[i].free, NEW z
  PROVE  ~Block(n, n[i].start, z)
<1> SUFFICES ASSUME Block(n, n[i].start, z) PROVE FALSE
  OBVIOUS
<1>1. PICK k \in 1 .. Len(n) : n[k].start = n[i].start /\ ~n[k].free
  BY DEF Block
<1>2. k = i
  BY <1>1, StartsDiffer
<1>3. QED
  BY <1>1, <1>2

\* The hole becomes the block.
Filling(m, i, x) == R!Unstack([m EXCEPT !.node_list[i].free = FALSE], x)

LEMMA FillingIs ==
  ASSUME NEW m \in SpaceType, Space(m), NEW i \in 1 .. Len(m.node_list), m.node_list[i].free,
         NEW x, x = m.node_list[i].start
  PROVE  Took(m, TRUE, x, m.node_list[i].size, Filling(m, i, x))
<1> DEFINE n == m.node_list
           s == m.free_stack
           q == n[i]
           c == Marked(q, FALSE)
           n2 == SetAt(n, i, c)
           g == Listed(m, n2)
           m2 == R!Unstack(g, x)
           t == m2.free_stack
<1>1. n \in Seq(NodeType) /\ s \in Seq(Int) /\ Tiles(n) /\ Stacked(s, n)
  BY SpaceFields DEF Space
<1> HIDE DEF n
<1>2. i \in 1 .. Len(n) /\ n[i].free /\ x = n[i].start
  BY DEF n
<1>3. q \in NodeType /\ q.start \in Int /\ q.size \in Int /\ q.start = x
  BY <1>1, <1>2, NodeIs
<1> HIDE DEF q
<1>4. c = [start |-> q.start, size |-> q.size, free |-> FALSE]
  BY <1>3, NodeFields
<1> HIDE DEF c
<1>5. c \in NodeType
  BY <1>3, <1>4, Zenon DEF NodeType
<1>6. c.start = q.start /\ c.size = q.size /\ ~c.free
  BY <1>4
<1>7. Replaced(n, i, i, c, n2)
  BY <1>1, <1>2, <1>5, SetReplaces
<1>8. n2 \in Seq(NodeType)
  BY <1>7 DEF Replaced
<1> HIDE DEF n2
<1>9. Once(s) /\ \A y \in Int : OnStack(s, y) <=> FreeAt(n, y)
  BY <1>1, Zenon DEF Stacked, Once
<1>10. i \in i .. Len(n) /\ \A k : k \in i .. i <=> k = i
  BY <1>2
<1>11. Tiles(n2)
  <2>1. c.start = n[i].start /\ c.start + c.size = n[i].start + n[i].size
    BY <1>6 DEF q
  <2>2. QED
    BY <1>1, <1>2, <1>5, <1>6, <1>7, <1>10, <2>1, ReplacedTiles
<1>12. ASSUME NEW y PROVE FreeAt(n2, y) <=> FreeAt(n, y) /\ y # x
  <2>1. FreeAt(n2, y) <=> \/ FreeAt(n, y) /\ \A k \in i .. i : y # n[k].start
                          \/ c.free /\ y = c.start
    BY <1>1, <1>2, <1>7, <1>10, ReplacedFree
  <2>2. (\A k \in i .. i : y # n[k].start) <=> y # x
    BY <1>2, <1>10, Zenon
  <2>3. QED
    BY <1>6, <2>1, <2>2, Zenon
<1>13. ASSUME NEW y, NEW v
       PROVE  Block(n2, y, v) <=> Block(n, y, v) \/ (y = x /\ v = q.size)
  <2>1. Block(n2, y, v) <=> \/ Block(n, y, v) /\ \A k \in i .. i : y # n[k].start
                            \/ ~c.free /\ y = c.start /\ v = c.size
    BY <1>1, <1>2, <1>7, <1>10, ReplacedBlock
  <2>2. (\A k \in i .. i : y # n[k].start) <=> y # x
    BY <1>2, <1>10, Zenon
  <2>3. ~Block(n, x, v)
    BY <1>1, <1>2, FreeIsNoBlock
  <2>4. QED
    BY <1>3, <1>6, <2>1, <2>2, <2>3, Zenon
<1>14. g \in SpaceType /\ g.node_list = n2 /\ g.free_stack = s /\ g.best = m.best
  BY <1>8, ListedIs
<1>15. g = [m EXCEPT !.node_list[i].free = FALSE]
  BY Zenon DEF Listed, SetAt, Marked, n, q, c, n2
<1> HIDE DEF g, s
<1>16. /\ m2 \in SpaceType /\ m2.node_list = n2 /\ m2.best = m.best /\ Once(t)
       /\ \A y \in Int : OnStack(t, y) <=> OnStack(s, y) /\ y # x
  <2>1. Once(g.free_stack) /\ x \in Int
    BY <1>3, <1>9, <1>14
  <2>2. Unstacked(g, x, m2)
    BY <1>14, <2>1, UnstackIs
  <2> HIDE DEF m2
  <2>3. QED
    BY <1>14, <2>2, Zenon DEF Unstacked
<1>17. m2 = Filling(m, i, x)
  BY <1>15 DEF Filling
<1> HIDE DEF m2
<1>18. Stacked(t, n2)
  <2> HIDE DEF t
  <2>1. \A y \in Int : OnStack(t, y) <=> FreeAt(n2, y)
    BY <1>9, <1>12, <1>16, Zenon
  <2>2. QED
    BY <1>16, <2>1, Zenon DEF Stacked, Once
<1>19. Took(m, TRUE, x, q.size, m2)
  BY <1>11, <1>13, <1>16, <1>18, Zenon DEF Took, Space, n
<1>20. QED
  BY <1>17, <1>19 DEF q, n

\* drm_mm_kmalloc leaves the range alone; the node that it gives is marked in use.
LEMMA KmallocIs ==
  ASSUME "stale" \notin MmFaults, NEW m \in SpaceType, NEW k \in R!drm_mm_kmalloc(m)
  PROVE  /\ k = [ok |-> k.ok, m |-> k.m, free |-> k.free]
         /\ k.ok \in BOOLEAN /\ k.free = FALSE
         /\ k.m \in SpaceType /\ k.m.node_list = m.node_list
         /\ k.m.free_stack = m.free_stack /\ k.m.best = m.best
<1> DEFINE u == m.unused_nodes
           h == [m EXCEPT !.unused_nodes = Tail(u)]
           a == [ok |-> TRUE, m |-> m, free |-> FALSE]
           b == [ok |-> FALSE, m |-> m, free |-> FALSE]
           c == [ok |-> TRUE, m |-> h, free |-> Head(u)]
           other == u # <<>> /\ ~Head(u) /\ k = c
<1>1. k = a \/ k = b \/ other
  BY Zenon DEF R!drm_mm_kmalloc
<1>2. CASE k = a
  <2>1. k.ok = TRUE /\ k.m = m /\ k.free = FALSE
    BY <1>2
  <2>2. QED
    BY <1>2, <2>1
<1>3. CASE k = b
  <2>1. k.ok = FALSE /\ k.m = m /\ k.free = FALSE
    BY <1>3
  <2>2. QED
    BY <1>3, <2>1
<1>4. CASE other
  <2>1. u \in Seq(BOOLEAN)
    BY SpaceFields
  <2>2. Tail(u) \in Seq(BOOLEAN) /\ Head(u) \in BOOLEAN
    <3> HIDE DEF u
    <3>1. QED
      BY <1>4, <2>1, HeadTailProperties, Zenon
  <2> DEFINE tt == Tail(u)
             hd == Head(u)
  <2>3. tt \in Seq(BOOLEAN) /\ hd = FALSE
    BY <1>4, <2>2, Zenon
  <2> HIDE DEF tt, hd
  <2>4. h = [m EXCEPT !.unused_nodes = tt]
    BY DEF tt
  <2>5. h \in SpaceType
    BY <2>3, <2>4, Zenon DEF SpaceType
  <2>6. h.node_list = m.node_list
    BY <2>4, Zenon DEF SpaceType
  <2>7. h.free_stack = m.free_stack
    BY <2>4, Zenon DEF SpaceType
  <2>8. h.best = m.best
    BY <2>4, Zenon DEF SpaceType
  <2>9. k = [ok |-> TRUE, m |-> h, free |-> hd]
    BY <1>4, Zenon DEF hd
  <2> HIDE DEF h
  <2>10. k.ok = TRUE /\ k.m = h /\ k.free = hd
    BY <2>9
  <2>11. QED
    BY <2>3, <2>5, <2>6, <2>7, <2>8, <2>9, <2>10
<1> HIDE DEF a, b, other
<1>5. QED
  BY <1>1, <1>2, <1>3, <1>4

\* drm_mm_split_at_start takes a block off a hole, or fails and takes none.
LEMMA SplitAtIs ==
  ASSUME "stale" \notin MmFaults, NEW m \in SpaceType, Space(m),
         NEW i \in 1 .. Len(m.node_list), m.node_list[i].free,
         NEW x, x = m.node_list[i].start, NEW z \in Int, 0 < z, z < m.node_list[i].size,
         NEW t \in R!drm_mm_split_at_start(m, x, z)
  PROVE  /\ t.ok \in BOOLEAN /\ Took(m, t.ok, x, z, t.m)
         /\ t.ok => \E k \in 1 .. Len(t.m.node_list) :
                      t.m.node_list[k] = [start |-> x + z, size |-> m.node_list[i].size - z,
                                          free |-> TRUE]
<1> DEFINE n == m.node_list
<1>1. n \in Seq(NodeType) /\ Tiles(n)
  BY SpaceFields DEF Space
<1>2. PICK k \in R!drm_mm_kmalloc(m) :
        t = [k EXCEPT !.m = IF k.ok THEN R!Split(k.m, R!NodeAt(k.m, x), z, k.free) ELSE @]
  BY Zenon DEF R!drm_mm_split_at_start
<1> DEFINE h == k.m
           s == R!Split(h, i, z, FALSE)
<1>3. /\ k = [ok |-> k.ok, m |-> k.m, free |-> k.free]
      /\ k.ok \in BOOLEAN /\ k.free = FALSE
      /\ h \in SpaceType /\ h.node_list = n /\ h.free_stack = m.free_stack /\ h.best = m.best
  BY KmallocIs
<1> HIDE DEF h
<1>4. Space(h)
  BY <1>3 DEF Space
<1>5. R!NodeAt(h, x) = i
  BY <1>1, <1>3, NodeAtIs
<1>6. t.ok = k.ok /\ t.m = IF k.ok THEN R!Split(h, R!NodeAt(h, x), z, k.free) ELSE h
  <2> DEFINE o == k.ok
             f == k.free
             g == IF k.ok THEN R!Split(k.m, R!NodeAt(k.m, x), z, k.free) ELSE k.m
  <2>1. t = [k EXCEPT !.m = g]
    BY <1>2, Zenon
  <2>2. k = [ok |-> o, m |-> h, free |-> f]
    BY <1>3 DEF h
  <2> HIDE DEF o, f, g
  <2>3. t = [ok |-> o, m |-> g, free |-> f]
    BY <2>1, <2>2
  <2>4. t.ok = o /\ t.m = g
    BY <2>3
  <2>5. QED
    BY <2>4 DEF o, g, h
<1>7. CASE k.ok
  <2>1. t.m = s /\ t.ok = TRUE
    BY <1>3, <1>5, <1>6, <1>7
  <2> HIDE DEF s
  <2>5. SplitOff(h, h.node_list[i], z, s)
    BY <1>3, <1>4, SplitIs DEF s
  <2>2. /\ s \in SpaceType /\ Space(s) /\ s.best = h.best
        /\ \A y, v : Block(s.node_list, y, v) <=> Block(h.node_list, y, v) \/ (y = x /\ v = z)
        /\ \E l \in 1 .. Len(s.node_list) :
             s.node_list[l] = [start |-> x + z, size |-> n[i].size - z, free |-> TRUE]
    BY <1>3, <2>5, Zenon DEF SplitOff
  <2>3. Took(m, TRUE, x, z, s)
    BY <1>3, <2>2, Zenon DEF Took
  <2>4. QED
    BY <2>1, <2>2, <2>3
<1>8. CASE ~k.ok
  <2>1. t.m = h /\ t.ok = FALSE
    BY <1>3, <1>6, <1>8
  <2>2. Took(m, FALSE, x, z, h)
    BY <1>3, <1>4, Zenon DEF Took
  <2>3. QED
    BY <2>1, <2>2
<1>9. QED
  BY <1>7, <1>8

LEMMA TakeHoleIs ==
  ASSUME "stale" \notin MmFaults, NEW m \in SpaceType, Space(m),
         NEW i \in 1 .. Len(m.node_list), m.node_list[i].free,
         NEW x, x = m.node_list[i].start, NEW r, r.size \in Int, 0 < r.size,
         r.size <= m.node_list[i].size, NEW t \in R!TakeHole(m, x, r)
  PROVE  t.ok \in BOOLEAN /\ Took(m, t.ok, x, r.size, t.m)
<1> DEFINE n == m.node_list
           z == r.size
<1>1. n \in Seq(NodeType) /\ Tiles(n)
  BY SpaceFields DEF Space
<1>2. R!NodeAt(m, x) = i
  BY <1>1, NodeAtIs
<1>3. n[i].size \in Int
  BY <1>1, NodeIs
<1>4. CASE n[i].size = z
  <2>1. t = [ok |-> TRUE, m |-> Filling(m, i, x), free |-> FALSE]
    BY <1>2, <1>4, Zenon DEF R!TakeHole, Filling
  <2>2. t.ok = TRUE /\ t.m = Filling(m, i, x)
    BY <2>1
  <2>3. Took(m, TRUE, x, n[i].size, Filling(m, i, x))
    BY FillingIs
  <2>4. QED
    BY <1>4, <2>2, <2>3
<1>5. CASE n[i].size # z
  <2>1. t \in R!drm_mm_split_at_start(m, x, z)
    BY <1>2, <1>5, Zenon DEF R!TakeHole
  <2>2. z < n[i].size
    BY <1>3, <1>5
  <2>3. QED
    BY <2>1, <2>2, SplitAtIs
<1>6. QED
  BY <1>4, <1>5

LEMMA FrontIs ==
  ASSUME NEW w \in Int, NEW z \in Int, NEW y \in Int, NEW x \in Int,
         0 < z, w >= 0, w # 0, w + z <= y
  PROVE  0 < w /\ w < y /\ x + w # x /\ z <= y - w
OBVIOUS

\* The part in front of the block is given back, whether the block was had or not.
LEMMA GetBlockIs ==
  ASSUME "stale" \notin MmFaults, NEW m \in SpaceType, Space(m),
         NEW i \in 1 .. Len(m.node_list), m.node_list[i].free,
         NEW x, x = m.node_list[i].start, NEW r, r.size \in Int, 0 < r.size,
         NEW w, w = R!Wasted(m, x, r), w \in Int, w >= 0, w + r.size <= m.node_list[i].size,
         NEW t \in R!GetBlock(m, x, r)
  PROVE  t.ok \in BOOLEAN /\ Took(m, t.ok, x + w, r.size, t.m)
<1> DEFINE n == m.node_list
           z == r.size
<1>1. n \in Seq(NodeType) /\ Tiles(n)
  BY SpaceFields DEF Space
<1>2. n[i].size \in Int /\ x \in Int
  BY <1>1, NodeIs
<1>3. CASE w = 0
  <2>1. t \in R!TakeHole(m, x, r)
    BY <1>3, Zenon DEF R!GetBlock
  <2>2. z <= n[i].size /\ x + w = x
    BY <1>2, <1>3
  <2>3. QED
    BY <2>1, <2>2, TakeHoleIs
<1>4. CASE w # 0
  <2>1. PICK a \in R!drm_mm_split_at_start(m, x, w) :
          t \in (IF ~a.ok THEN {a}
                 ELSE {[b EXCEPT !.m = R!drm_mm_put_block(@, x)] :
                         b \in R!TakeHole(a.m, x + w, r)})
    BY <1>4, Zenon DEF R!GetBlock
  <2> DEFINE y0 == n[i].size
  <2>0. y0 \in Int /\ z \in Int /\ 0 < z /\ w \in Int /\ w >= 0 /\ w + z <= y0 /\ w # 0 /\ x \in Int
    BY <1>2, <1>4
  <2>2. 0 < w /\ w < n[i].size /\ x + w # x /\ z <= n[i].size - w
    <3> HIDE DEF y0, z
    <3>1. 0 < w /\ w < y0 /\ x + w # x /\ z <= y0 - w
      BY <2>0, FrontIs, Zenon
    <3>2. QED
      BY <3>1 DEF y0
  <2>3. /\ a.ok \in BOOLEAN /\ Took(m, a.ok, x, w, a.m)
        /\ a.ok => \E k \in 1 .. Len(a.m.node_list) :
                     a.m.node_list[k] = [start |-> x + w, size |-> n[i].size - w, free |-> TRUE]
    <3>1. w \in Int /\ 0 < w /\ w < m.node_list[i].size
      BY <2>0, <2>2
    <3>2. /\ "stale" \notin MmFaults /\ m \in SpaceType /\ Space(m)
          /\ i \in 1 .. Len(m.node_list) /\ m.node_list[i].free /\ x = m.node_list[i].start
          /\ a \in R!drm_mm_split_at_start(m, x, w)
      BY <2>1
    <3>3. QED
      BY <3>1, <3>2, SplitAtIs, ZenonT(60)
  <2>4. CASE ~a.ok
    <3>1. t = a
      BY <2>1, <2>4
    <3>2. Took(m, t.ok, x + w, z, t.m)
      BY <2>3, <2>4, <3>1, Zenon DEF Took
    <3>3. QED
      BY <2>3, <3>1, <3>2
  <2>5. CASE a.ok
    <3>1. PICK b \in R!TakeHole(a.m, x + w, r) : t = [b EXCEPT !.m = R!drm_mm_put_block(@, x)]
      BY <2>1, <2>5, Zenon
    <3>2. PICK k \in 1 .. Len(a.m.node_list) :
            a.m.node_list[k] = [start |-> x + w, size |-> n[i].size - w, free |-> TRUE]
      BY <2>3, <2>5
    <3>3. /\ a.m \in SpaceType /\ Space(a.m) /\ a.m.best = m.best
          /\ \A y, v : Block(a.m.node_list, y, v) <=> Block(n, y, v) \/ (y = x /\ v = w)
      BY <2>3, <2>5, Zenon DEF Took
    <3>4. /\ a.m.node_list[k].free /\ a.m.node_list[k].start = x + w
          /\ a.m.node_list[k].size = n[i].size - w
      BY <3>2
    <3>6. b.ok \in BOOLEAN /\ Took(a.m, b.ok, x + w, z, b.m)
      BY <2>2, <3>3, <3>4, TakeHoleIs
    <3> DEFINE g == b.m
               h == R!drm_mm_put_block(g, x)
    <3>7. /\ g \in SpaceType /\ Space(g) /\ g.best = m.best
          /\ \A y, v : Block(g.node_list, y, v) <=>
                         Block(a.m.node_list, y, v) \/ (b.ok /\ y = x + w /\ v = z)
      BY <3>3, <3>6, Zenon DEF Took
    <3>8. Block(g.node_list, x, w)
      BY <3>3, <3>7, Zenon
    <3>9. PutBack(g, x, h)
      BY <3>7, <3>8, PutBlockIs
    <3>10. \A v : ~Block(n, x, v)
      BY <1>1, FreeIsNoBlock
    <3> HIDE DEF g, h
    <3>11. Took(m, b.ok, x + w, z, h)
      <4>1. /\ h \in SpaceType /\ Space(h) /\ h.best = m.best
            /\ \A y, v : Block(h.node_list, y, v) <=> Block(g.node_list, y, v) /\ y # x
        BY <3>7, <3>9, Zenon DEF PutBack
      <4>2. ASSUME NEW y, NEW v
            PROVE  Block(h.node_list, y, v) <=> Block(n, y, v) \/ (b.ok /\ y = x + w /\ v = z)
        BY <2>2, <3>3, <3>7, <3>10, <4>1, Zenon
      <4>3. QED
        BY <4>1, <4>2, Zenon DEF Took
    <3>12. t.ok = b.ok /\ t.m = h
      BY <3>1 DEF g, h
    <3>13. QED
      BY <3>6, <3>11, <3>12
  <2>6. QED
    BY <2>3, <2>4, <2>5
<1>5. QED
  BY <1>3, <1>4

LEMMA ModIs ==
  ASSUME NEW s \in Int, NEW a \in Int, a > 0
  PROVE  (s % a) \in Int /\ 0 <= (s % a) /\ (s % a) < a /\ (s + (a - (s % a))) % a = 0
<1> DEFINE q == s \div a
           t == s % a
<1>1. q \in Int /\ t \in Int /\ 0 <= t /\ t < a /\ s = (a * q) + t
  BY SMT
<1> HIDE DEF q, t
<1>2. (s + (a - t)) = a * (q + 1)
  BY <1>1, SMT
<1>3. q + 1 \in Int /\ \A k \in Int : (a * k) % a = 0
  BY <1>1, SMT
<1>4. QED
  BY <1>1, <1>2, <1>3 DEF t

-----------------------------------------------------------------------------
(* A hole is found. *)

\* What the allocator skips before it has the alignment.
Skip(s, a) == IF R!Tmp(s, a) = 0 THEN 0 ELSE a - R!Tmp(s, a)

LEMMA SkipIs ==
  ASSUME NEW s \in Int, NEW a \in Int, a >= 0
  PROVE  /\ R!Tmp(s, a) \in Int /\ Skip(s, a) \in Int /\ Skip(s, a) >= 0
         /\ R!Tmp(s + Skip(s, a), a) = 0
<1>1. CASE a = 0
  <2>1. R!Tmp(s, a) = 0 /\ R!Tmp(s + Skip(s, a), a) = 0
    BY <1>1 DEF R!Tmp
  <2>2. Skip(s, a) = 0
    BY <2>1 DEF Skip
  <2>3. QED
    BY <2>1, <2>2
<1>2. CASE a # 0
  <2> DEFINE t == s % a
  <2>1. R!Tmp(s, a) = t /\ R!Tmp(s + Skip(s, a), a) = (s + Skip(s, a)) % a
    BY <1>2 DEF R!Tmp
  <2>2. t \in Int /\ 0 <= t /\ t < a /\ (s + (a - t)) % a = 0
    BY <1>2, ModIs
  <2> HIDE DEF t
  <2>3. CASE t = 0
    <3>1. Skip(s, a) = 0
      BY <2>1, <2>3 DEF Skip
    <3>2. s + 0 = s
      OBVIOUS
    <3>3. R!Tmp(s + Skip(s, a), a) = t
      BY <3>1, <3>2, <2>1
    <3>4. QED
      BY <2>1, <2>3, <3>1, <3>3
  <2>4. CASE t # 0
    <3>1. Skip(s, a) = a - t
      BY <2>1, <2>4 DEF Skip
    <3>2. QED
      BY <2>1, <2>2, <3>1
  <2>5. QED
    BY <2>3, <2>4
<1>3. QED
  BY <1>1, <1>2

\* The block is placed as asked in a hole of z at x if w is skipped.
FitsAt(x, z, r, w) ==
  /\ w \in Int /\ w >= 0 /\ w + r.size <= z
  /\ R!Tmp(x + w, r.align) = 0 /\ x + w >= r.from /\ x + w + r.size <= r.to

LEMMA FitsSum ==
  ASSUME NEW x \in Int, NEW z \in Int, NEW from \in Int, NEW to \in Int, NEW size \in Int,
         NEW b \in Int, NEW e \in Int, NEW k \in Int, k >= 0, NEW d \in Int,
         x + d = b, d >= 0, b >= from, e <= x + z, e <= to, e >= b + size + k
  PROVE  /\ d + k \in Int /\ d + k >= 0 /\ (d + k) + size <= z /\ x + (d + k) = b + k
         /\ x + (d + k) >= from /\ x + (d + k) + size <= to
OBVIOUS

LEMMA RangeFits ==
  ASSUME NEW x \in Int, NEW z \in Int, NEW r \in RequestType, r.align >= 0, NEW m,
         R!check_free_hole(R!Larger(x, r.from), R!Smaller(x + z, r.to), r.size, r.align)
  PROVE  FitsAt(x, z, r, R!drm_mm_get_block_range_generic(m, x, r))
<1> DEFINE from == r.from
           to == r.to
           size == r.size
           align == r.align
           b == R!Larger(x, from)
           e == R!Smaller(x + z, to)
           d == IF x < from THEN from - x ELSE 0
           k == Skip(b, align)
           w == R!drm_mm_get_block_range_generic(m, x, r)
<1>1. from \in Int /\ to \in Int /\ size \in Int /\ align \in Int
  BY Zenon DEF RequestType
<1>2. align >= 0
  OBVIOUS
<1>3. e >= b + size + k
  BY Zenon DEF R!check_free_hole, Skip
<1> HIDE DEF from, to, size, align
<1>4. /\ b \in Int /\ e \in Int /\ d \in Int
      /\ x + d = b /\ d >= 0 /\ b >= from /\ e <= x + z /\ e <= to
  BY <1>1 DEF R!Larger, R!Smaller
<1>5. k \in Int /\ k >= 0 /\ R!Tmp(b + k, align) = 0 /\ R!Tmp(b, align) \in Int
  <2> HIDE DEF b
  <2>1. QED
    BY <1>1, <1>2, <1>4, SkipIs
<1>6. w = d + k
  <2>1. w = IF R!Tmp(x + d, align) = 0 THEN d ELSE d + align - R!Tmp(x + d, align)
    BY Zenon DEF R!drm_mm_get_block_range_generic, from, align
  <2> HIDE DEF w, d, b
  <2> DEFINE t == R!Tmp(b, align)
  <2>2. w = IF t = 0 THEN d ELSE d + align - t
    BY <1>4, <2>1
  <2>3. k = IF t = 0 THEN 0 ELSE align - t
    BY DEF Skip
  <2>4. t \in Int
    BY <1>5
  <2> HIDE DEF t, k
  <2>5. QED
    BY <1>1, <1>4, <2>2, <2>3, <2>4
<1> HIDE DEF w, d, b, e, k
<1>7. /\ d + k \in Int /\ d + k >= 0 /\ (d + k) + size <= z /\ x + (d + k) = b + k
      /\ x + (d + k) >= from /\ x + (d + k) + size <= to
  BY <1>1, <1>3, <1>4, <1>5, FitsSum
<1>8. QED
  <2>1. /\ w \in Int /\ w >= 0 /\ w + size <= z /\ R!Tmp(x + w, align) = 0
        /\ x + w >= from /\ x + w + size <= to
    BY <1>5, <1>6, <1>7
  <2>2. QED
    BY <2>1 DEF FitsAt, w, size, align, from, to

LEMMA PlainFits ==
  ASSUME NEW x \in Int, NEW z \in Int, NEW r \in RequestType, x >= 0, x + z <= MmSize, NEW m,
         r.align = 0, r.from = 0, r.to = MmSize,
         R!check_free_hole(x, x + z, r.size, r.align)
  PROVE  FitsAt(x, z, r, R!drm_mm_get_block_generic(m, x, r))
<1> DEFINE w == R!drm_mm_get_block_generic(m, x, r)
           size == r.size
<1>1. size \in Int
  BY Zenon DEF RequestType
<1>2. \A s : R!Tmp(s, r.align) = 0
  BY DEF R!Tmp
<1>3. w = 0
  BY <1>2 DEF R!drm_mm_get_block_generic
<1>4. x + z >= x + size + 0
  BY <1>2 DEF R!check_free_hole
<1>5. MmSize \in Int
  BY MmAssumption
<1> HIDE DEF w, size
<1>6. /\ w \in Int /\ w >= 0 /\ w + size <= z /\ R!Tmp(x + w, r.align) = 0
      /\ x + w >= 0 /\ x + w + size <= MmSize
  BY <1>1, <1>2, <1>3, <1>4, <1>5
<1>7. QED
  BY <1>6 DEF FitsAt, w, size

\* A finite set of integers has a least element.
LEMMA LeastIs ==
  ASSUME NEW S \in SUBSET Int, IsFiniteSet(S), S # {}
  PROVE  \E i \in S : \A j \in S : i <= j
<1>1. Cardinality(S) \in Nat /\ Cardinality(S) # 0
  BY FS_CardinalityType, FS_EmptySet
<1>2. PICK i \in S : Cardinality({j \in S : j < i}) = 0
  BY <1>1, RankIs
<1>3. IsFiniteSet({j \in S : j < i})
  BY FS_Subset
<1>4. {j \in S : j < i} = {}
  BY <1>2, <1>3, FS_EmptySet
<1>5. ASSUME NEW j \in S PROVE i <= j
  <2>1. ~(j < i)
    BY <1>4
  <2>2. i \in Int /\ j \in Int
    OBVIOUS
  <2>3. QED
    BY <2>1, <2>2
<1>6. QED
  BY <1>5

\* What is on the stack is a free node.
LEMMA HoleIs ==
  ASSUME NEW m \in SpaceType, Space(m), NEW k \in DOMAIN m.free_stack
  PROVE  \E i \in 1 .. Len(m.node_list) :
           /\ m.node_list[i].start = m.free_stack[k] /\ m.node_list[i].free
           /\ R!HoleAt(m, k) = m.node_list[i]
<1> DEFINE n == m.node_list
           s == m.free_stack
<1>1. n \in Seq(NodeType) /\ s \in Seq(Int) /\ Tiles(n) /\ Stacked(s, n)
  BY SpaceFields DEF Space
<1>2. k \in 1 .. Len(s) /\ s[k] \in Int
  BY <1>1
<1>3. FreeAt(n, s[k])
  <2>1. OnStack(s, s[k])
    BY <1>2, Zenon DEF OnStack
  <2>2. QED
    BY <1>1, <1>2, <2>1, Zenon DEF Stacked
<1>4. PICK i \in 1 .. Len(n) : n[i].start = s[k] /\ n[i].free
  BY <1>3, Zenon DEF FreeAt
<1>5. R!NodeAt(m, s[k]) = i
  <2>1. R!NodeAt(m, n[i].start) = i
    BY <1>1, NodeAtIs
  <2>2. QED
    BY <1>4, <2>1
<1>6. R!HoleAt(m, k) = n[i]
  BY <1>5, Zenon DEF R!HoleAt
<1>7. QED
  BY <1>4, <1>6, Zenon

LEMMA FirstIs ==
  ASSUME NEW h, h \subseteq Nat, IsFiniteSet(h), h # {}
  PROVE  R!First(h) \in h
<1>1. h \in SUBSET Int
  OBVIOUS
<1>2. \E k \in h : \A l \in h : k <= l
  BY <1>1, LeastIs
<1>3. QED
  BY <1>2, Zenon DEF R!First

LEMMA StackFinite ==
  ASSUME NEW s \in Seq(Int), NEW h, h \subseteq DOMAIN s
  PROVE  h \subseteq Nat /\ IsFiniteSet(h)
<1>1. DOMAIN s = 1 .. Len(s) /\ Len(s) \in Nat
  OBVIOUS
<1>2. IsFiniteSet(1 .. Len(s))
  BY <1>1, FS_Interval
<1>3. h \subseteq Nat
  BY <1>1
<1>4. QED
  BY <1>1, <1>2, <1>3, FS_Subset

LEMMA BestIs ==
  ASSUME NEW m \in SpaceType, Space(m), NEW h, h \subseteq DOMAIN m.free_stack, h # {}
  PROVE  R!Best(m, h) \in h
<1> DEFINE Sz(k) == R!HoleAt(m, k).size
           S == {Sz(k) : k \in h}
<1>1. \A k \in h : Sz(k) \in Int
  <2> TAKE k \in h
  <2>1. PICK i \in 1 .. Len(m.node_list) : R!HoleAt(m, k) = m.node_list[i]
    BY HoleIs
  <2>2. m.node_list \in Seq(NodeType)
    BY SpaceFields
  <2>3. QED
    BY <2>1, <2>2, NodeIs
<1>2. h \subseteq Nat /\ IsFiniteSet(h)
  BY SpaceFields, StackFinite
<1>3. IsFiniteSet(S)
  <2> DEFINE f == [k \in h |-> Sz(k)]
  <2> HIDE DEF Sz
  <2>1. f \in Surjection(h, S)
    BY DEF Surjection
  <2>2. QED
    BY <1>2, <2>1, FS_Surjection, Zenon
<1> HIDE DEF Sz
<1>4. S \in SUBSET Int /\ S # {}
  BY <1>1
<1>5. PICK a \in S : \A b \in S : a <= b
  <2> HIDE DEF S
  <2>1. QED
    BY <1>3, <1>4, LeastIs
<1> DEFINE T == {k \in h : Sz(k) = a}
<1>6. T \in SUBSET Int /\ T # {} /\ IsFiniteSet(T)
  <2>1. T \subseteq h /\ T # {}
    BY <1>5
  <2>2. QED
    BY <1>2, <2>1, FS_Subset
<1>7. PICK k \in T : \A l \in T : k <= l
  <2> HIDE DEF T
  <2>1. QED
    BY <1>6, LeastIs
<1>8. ASSUME NEW l \in h PROVE (Sz(k) < Sz(l)) \/ (Sz(k) = Sz(l) /\ k <= l)
  <2>1. Sz(k) = a /\ Sz(l) \in S /\ Sz(l) \in Int /\ a \in Int
    BY <1>1, <1>4, <1>5, <1>7
  <2>2. a <= Sz(l)
    BY <1>5, <2>1
  <2>3. CASE a = Sz(l)
    BY <1>7, <2>1, <2>3
  <2>4. CASE a # Sz(l)
    BY <2>1, <2>2, <2>4
  <2>5. QED
    BY <2>3, <2>4
<1>9. \E j \in h : \A l \in h : \/ R!HoleAt(m, j).size < R!HoleAt(m, l).size
                               \/ (R!HoleAt(m, j).size = R!HoleAt(m, l).size /\ j <= l)
  <2>1. k \in h
    OBVIOUS
  <2>2. QED
    BY <1>8, <2>1, Zenon DEF Sz
<1>10. QED
  BY <1>9, Zenon DEF R!Best

\* Nodes lie within the range.
LEMMA NodeWithin ==
  ASSUME NEW n \in Seq(NodeType), Tiles(n), NEW i \in 1 .. Len(n)
  PROVE  n[i].start >= 0 /\ n[i].start + n[i].size <= MmSize
<1> DEFINE l == Len(n)
           s == n[i].start
           z == n[i].size
           s1 == n[1].start
           z1 == n[1].size
           sl == n[l].start
           zl == n[l].size
<1>1. 1 \in 1 .. l /\ l \in 1 .. l /\ l \in Nat /\ 1 <= i /\ i <= l
  OBVIOUS
<1>2. /\ s \in Int /\ z \in Int /\ s1 \in Int /\ z1 \in Int /\ sl \in Int /\ zl \in Int
  BY <1>1, NodeIs
<1>3. /\ s1 = 0 /\ sl + zl = MmSize /\ z1 > 0 /\ zl > 0
      /\ 1 < i => s1 + z1 <= s
      /\ i < l => s + z <= sl
  BY <1>1 DEF Tiles
<1>4. (i = 1 => s = s1) /\ (i = l => s = sl /\ z = zl)
  OBVIOUS
<1>5. MmSize \in Int /\ i \in Int
  BY MmAssumption
<1> HIDE DEF l, s, z, s1, z1, sl, zl
<1>6. s >= 0
  <2>1. CASE i = 1
    BY <1>2, <1>3, <1>4, <2>1
  <2>2. CASE i # 1
    BY <1>1, <1>2, <1>3, <1>5, <2>2
  <2>3. QED
    BY <2>1, <2>2
<1>7. s + z <= MmSize
  <2>1. CASE i = l
    BY <1>2, <1>3, <1>4, <1>5, <2>1
  <2>2. CASE i # l
    BY <1>1, <1>2, <1>3, <1>5, <2>2
  <2>3. QED
    BY <2>1, <2>2
<1>8. QED
  BY <1>6, <1>7 DEF s, z

\* A hole that is found is free and has room for the block where it is asked for.
LEMMA SearchIs ==
  ASSUME NEW m \in SpaceType, Space(m), NEW r \in RequestType, Asked(r, m.best),
         R!Search(m, r) # -1
  PROVE  \E i \in 1 .. Len(m.node_list) :
           LET x == R!Search(m, r) IN
           /\ m.node_list[i].start = x /\ m.node_list[i].free
           /\ FitsAt(x, m.node_list[i].size, r, R!Wasted(m, x, r))
<1> DEFINE n == m.node_list
           s == m.free_stack
           x == R!Search(m, r)
           h == IF m.best THEN R!drm_mm_search_free_in_range(m, r) ELSE R!drm_mm_search_free(m, r)
           k == IF m.best THEN R!Best(m, h) ELSE R!First(h)
<1>1. n \in Seq(NodeType) /\ s \in Seq(Int) /\ Tiles(n)
  BY SpaceFields DEF Space
<1>2. h \subseteq DOMAIN s
  BY Zenon DEF R!drm_mm_search_free_in_range, R!drm_mm_search_free
<1>3. h # {} /\ x = s[k]
  BY Zenon DEF R!Search
<1>4. h \subseteq Nat /\ IsFiniteSet(h)
  <2> HIDE DEF h, s
  <2>1. QED
    BY <1>1, <1>2, StackFinite
<1>5. k \in h
  <2> HIDE DEF h
  <2>1. R!Best(m, h) \in h
    BY <1>2, <1>3, BestIs
  <2>2. R!First(h) \in h
    BY <1>3, <1>4, FirstIs
  <2>3. QED
    BY <2>1, <2>2
<1> HIDE DEF k
<1>6. PICK i \in 1 .. Len(n) : n[i].start = s[k] /\ n[i].free /\ R!HoleAt(m, k) = n[i]
  <2> HIDE DEF h
  <2>1. k \in DOMAIN m.free_stack
    BY <1>2, <1>5
  <2>2. QED
    BY <2>1, HoleIs
<1> DEFINE z == n[i].size
<1>7. n[i].start = x
  BY <1>3, <1>6, Zenon
<1>8. x \in Int /\ z \in Int /\ x >= 0 /\ x + z <= MmSize
  <2>1. n[i].start \in Int /\ n[i].size \in Int
    BY <1>1, NodeIs
  <2>2. n[i].start >= 0 /\ n[i].start + n[i].size <= MmSize
    BY <1>1, NodeWithin
  <2>3. QED
    BY <1>7, <2>1, <2>2
<1>9. r.align >= 0 /\ (~m.best => r.align = 0 /\ r.from = 0 /\ r.to = MmSize)
  BY DEF Asked
<1>10. CASE m.best
  <2>1. R!check_free_hole(R!Larger(n[i].start, r.from), R!Smaller(n[i].start + n[i].size, r.to),
                          r.size, r.align)
    <3>1. k \in R!drm_mm_search_free_in_range(m, r)
      BY <1>5, <1>10, Zenon
    <3>2. R!check_free_hole(R!Larger(R!HoleAt(m, k).start, r.from),
                            R!Smaller(R!HoleAt(m, k).start + R!HoleAt(m, k).size, r.to),
                            r.size, r.align)
      BY <3>1, Zenon DEF R!drm_mm_search_free_in_range
    <3>3. QED
      BY <1>6, <3>2
  <2>2. R!Wasted(m, x, r) = R!drm_mm_get_block_range_generic(m, x, r)
    BY <1>10, Zenon DEF R!Wasted
  <2> HIDE DEF x, z
  <2>3. R!check_free_hole(R!Larger(x, r.from), R!Smaller(x + z, r.to), r.size, r.align)
    BY <1>7, <2>1 DEF z
  <2>4. FitsAt(x, z, r, R!drm_mm_get_block_range_generic(m, x, r))
    BY <1>8, <1>9, <2>3, RangeFits
  <2>5. QED
    BY <1>6, <1>7, <2>2, <2>4 DEF x, z
<1>11. CASE ~m.best
  <2>1. R!check_free_hole(n[i].start, n[i].start + n[i].size, r.size, r.align)
    <3>1. k \in R!drm_mm_search_free(m, r)
      BY <1>5, <1>11, Zenon
    <3>2. R!check_free_hole(R!HoleAt(m, k).start, R!HoleAt(m, k).start + R!HoleAt(m, k).size,
                            r.size, r.align)
      BY <3>1, Zenon DEF R!drm_mm_search_free
    <3>3. QED
      BY <1>6, <3>2
  <2>2. R!Wasted(m, x, r) = R!drm_mm_get_block_generic(m, x, r)
    BY <1>11, Zenon DEF R!Wasted
  <2> HIDE DEF x, z
  <2>3. R!check_free_hole(x, x + z, r.size, r.align)
    BY <1>7, <2>1 DEF z
  <2>4. FitsAt(x, z, r, R!drm_mm_get_block_generic(m, x, r))
    BY <1>8, <1>9, <1>11, <2>3, PlainFits
  <2>5. QED
    BY <1>6, <1>7, <2>2, <2>4 DEF x, z
<1>12. QED
  BY <1>10, <1>11

LEMMA SpaceNotEmpty ==
  ASSUME NEW m, Space(m)
  PROVE  m.node_list # <<>>
BY DEF Space, Tiles

-----------------------------------------------------------------------------
(* The users of a range. *)

\* Only user u moves, to y.
Moves(us, u, y, us2) ==
  /\ us2 \in [MmUsers -> UserType] /\ us2[u] = y
  /\ \A w \in MmUsers : w # u => us2[w] = us[w]

\* A user that has no block, before or after, moves: the range may move as well, not the blocks.
LEMMA Waits ==
  ASSUME NEW m, NEW us, RangedAs(m, us), m.node_list # <<>>,
         NEW u \in MmUsers, us[u].pc # "has",
         NEW y, y.pc # "has", y.pc # "none" => Asked(y.req, m.best),
         NEW us2, Moves(us, u, y, us2), NEW x, NEW z, NEW m2, Took(m, FALSE, x, z, m2)
  PROVE  RangedAs(m2, us2)
<1> DEFINE n == m.node_list
           n2 == m2.node_list
<1>1. /\ m2 \in SpaceType /\ Space(m2) /\ m2.best = m.best
      /\ \A a, b : Block(n2, a, b) <=> Block(n, a, b)
  BY Zenon DEF Took
<1>2. us2 \in [MmUsers -> UserType] /\ us2[u] = y /\ \A w \in MmUsers : w # u => us2[w] = us[w]
  BY DEF Moves
<1>3. Held(n, us) /\ \A w \in MmUsers : us[w].pc # "none" => Asked(us[w].req, m.best)
  BY Zenon DEF RangedAs
<1>4. \A w \in MmUsers : us2[w].pc # "none" => Asked(us2[w].req, m2.best)
  BY <1>1, <1>2, <1>3, Zenon
<1>5. n2 # <<>>
  BY <1>1, SpaceNotEmpty
<1> HIDE DEF n, n2
<1>6. \A w \in MmUsers : us2[w].pc = "has" <=> us[w].pc = "has"
  BY <1>2, Zenon
<1>7. \A w \in MmUsers : us2[w].pc = "has" => us2[w] = us[w]
  BY <1>2, Zenon
<1>8. ASSUME NEW w \in MmUsers, us2[w].pc = "has" PROVE Served(n2, us2[w])
  <2>1. us2[w] = us[w] /\ Served(n, us[w])
    BY <1>3, <1>6, <1>7, <1>8, Zenon DEF Held
  <2>2. QED
    BY <1>1, <2>1, Zenon DEF Served, n, n2
<1>9. ASSUME NEW w \in MmUsers, NEW v \in MmUsers,
             us2[w].pc = "has", us2[v].pc = "has", us2[w].start = us2[v].start
      PROVE  w = v
  <2>1. us2[w] = us[w] /\ us2[v] = us[v]
    BY <1>7, <1>9, Zenon
  <2>2. us[w].pc = "has" /\ us[v].pc = "has" /\ us[w].start = us[v].start
    BY <1>9, <2>1
  <2>3. QED
    BY <1>3, <2>2, Zenon DEF Held
<1>10. ASSUME NEW a, NEW b, Block(n2, a, b)
       PROVE  \E w \in MmUsers : us2[w].pc = "has" /\ us2[w].start = a
  <2>1. PICK w \in MmUsers : us[w].pc = "has" /\ us[w].start = a
    BY <1>1, <1>3, <1>10, Zenon DEF Held, n, n2
  <2>2. QED
    BY <1>6, <1>7, <2>1, Zenon
<1>11. Held(n2, us2)
  BY <1>8, <1>9, <1>10, Zenon DEF Held
<1>12. QED
  BY <1>1, <1>2, <1>4, <1>5, <1>11, Zenon DEF RangedAs, n2

\* A user gets the block it asked for.
LEMMA Gets ==
  ASSUME NEW m, NEW us, RangedAs(m, us), m.node_list # <<>>,
         NEW u \in MmUsers, us[u].pc # "has",
         NEW y, y.pc = "has", Asked(y.req, m.best),
         R!Tmp(y.start, y.req.align) = 0, y.start >= y.req.from,
         y.start + y.req.size <= y.req.to,
         \A z : ~Block(m.node_list, y.start, z),
         NEW us2, Moves(us, u, y, us2), NEW m2, Took(m, TRUE, y.start, y.req.size, m2)
  PROVE  RangedAs(m2, us2)
<1> DEFINE n == m.node_list
           n2 == m2.node_list
<1>1. /\ m2 \in SpaceType /\ Space(m2) /\ m2.best = m.best
      /\ \A a, b : Block(n2, a, b) <=> Block(n, a, b) \/ (a = y.start /\ b = y.req.size)
  BY Zenon DEF Took
<1>2. us2 \in [MmUsers -> UserType] /\ us2[u] = y /\ \A w \in MmUsers : w # u => us2[w] = us[w]
  BY DEF Moves
<1>3. Held(n, us) /\ \A w \in MmUsers : us[w].pc # "none" => Asked(us[w].req, m.best)
  BY Zenon DEF RangedAs
<1>4. \A w \in MmUsers : us2[w].pc # "none" => Asked(us2[w].req, m2.best)
  BY <1>1, <1>2, <1>3, Zenon
<1>5. n2 # <<>>
  BY <1>1, SpaceNotEmpty
<1>6. \A b : ~Block(n, y.start, b)
  OBVIOUS
<1> HIDE DEF n, n2
<1>7. Served(n2, y)
  <2>1. Block(n2, y.start, y.req.size)
    BY <1>1, Zenon
  <2>2. QED
    BY <2>1, Zenon DEF Served
<1>8. ASSUME NEW w \in MmUsers, w # u, us2[w].pc = "has"
      PROVE  Served(n2, us2[w]) /\ us2[w].start # y.start
  <2>1. us2[w] = us[w] /\ Served(n, us[w])
    BY <1>2, <1>3, <1>8, Zenon DEF Held
  <2>2. Block(n, us[w].start, us[w].req.size)
    BY <2>1, Zenon DEF Served
  <2>3. us2[w].start # y.start
    BY <1>6, <2>1, <2>2, Zenon
  <2>4. Block(n2, us[w].start, us[w].req.size)
    BY <1>1, <2>2, Zenon
  <2>5. QED
    BY <2>1, <2>3, <2>4, Zenon DEF Served
<1>9. ASSUME NEW w \in MmUsers, us2[w].pc = "has" PROVE Served(n2, us2[w])
  BY <1>2, <1>7, <1>8, <1>9, Zenon
<1>10. ASSUME NEW w \in MmUsers, NEW v \in MmUsers,
              us2[w].pc = "has", us2[v].pc = "has", us2[w].start = us2[v].start
       PROVE  w = v
  <2>1. CASE w = u \/ v = u
    BY <1>2, <1>8, <1>10, <2>1, Zenon
  <2>2. CASE w # u /\ v # u
    <3>1. us2[w] = us[w] /\ us2[v] = us[v]
      BY <1>2, <2>2, Zenon
    <3>2. us[w].pc = "has" /\ us[v].pc = "has" /\ us[w].start = us[v].start
      BY <1>10, <3>1
    <3>3. QED
      BY <1>3, <3>2, Zenon DEF Held
  <2>3. QED
    BY <2>1, <2>2, Zenon
<1>11. ASSUME NEW a, NEW b, Block(n2, a, b)
       PROVE  \E w \in MmUsers : us2[w].pc = "has" /\ us2[w].start = a
  <2>1. CASE Block(n, a, b)
    <3>1. PICK w \in MmUsers : us[w].pc = "has" /\ us[w].start = a
      BY <1>3, <2>1, Zenon DEF Held
    <3>2. w # u
      BY <3>1, Zenon
    <3>3. us2[w] = us[w]
      BY <1>2, <3>2, Zenon
    <3>4. QED
      BY <3>1, <3>3, Zenon
  <2>2. CASE a = y.start
    BY <1>2, <2>2, Zenon
  <2>3. QED
    BY <1>1, <1>11, <2>1, <2>2, Zenon
<1>12. Held(n2, us2)
  BY <1>9, <1>10, <1>11, Zenon DEF Held
<1>13. QED
  BY <1>1, <1>2, <1>4, <1>5, <1>12, Zenon DEF RangedAs, n2

\* A user gives its block back.
LEMMA Returns ==
  ASSUME NEW m, NEW us, RangedAs(m, us), NEW u \in MmUsers, us[u].pc = "has",
         NEW y, y.pc = "none", NEW us2, Moves(us, u, y, us2),
         NEW m2, PutBack(m, us[u].start, m2), m.node_list # <<>>
  PROVE  RangedAs(m2, us2)
<1> DEFINE n == m.node_list
           n2 == m2.node_list
           x == us[u].start
<1>1. /\ m2 \in SpaceType /\ Space(m2) /\ m2.best = m.best
      /\ \A a, b : Block(n2, a, b) <=> Block(n, a, b) /\ a # x
  BY Zenon DEF PutBack
<1>2. us2 \in [MmUsers -> UserType] /\ us2[u] = y /\ \A w \in MmUsers : w # u => us2[w] = us[w]
  BY DEF Moves
<1>3. Held(n, us) /\ \A w \in MmUsers : us[w].pc # "none" => Asked(us[w].req, m.best)
  BY Zenon DEF RangedAs
<1>4. \A w \in MmUsers : us2[w].pc # "none" => Asked(us2[w].req, m2.best)
  BY <1>1, <1>2, <1>3, Zenon
<1>5. n2 # <<>>
  BY <1>1, SpaceNotEmpty
<1>6. us2[u].pc # "has"
  <2>1. "none" # "has"
    OBVIOUS
  <2>2. QED
    BY <1>2, <2>1, Zenon
<1> HIDE DEF n, n2
<1>8. ASSUME NEW w \in MmUsers, us2[w].pc = "has"
      PROVE  Served(n2, us2[w]) /\ us2[w] = us[w]
  <2>1. us2[w] = us[w] /\ w # u
    BY <1>2, <1>6, <1>8, Zenon
  <2>2. Served(n, us[w])
    BY <1>3, <1>8, <2>1, Zenon DEF Held
  <2>3. us[w].start # us[u].start
    BY <1>3, <1>8, <2>1, Zenon DEF Held
  <2>4. Block(n2, us[w].start, us[w].req.size)
    BY <1>1, <2>2, <2>3, Zenon DEF Served
  <2>5. QED
    BY <2>1, <2>2, <2>4, Zenon DEF Served
<1>9. ASSUME NEW w \in MmUsers, NEW v \in MmUsers,
             us2[w].pc = "has", us2[v].pc = "has", us2[w].start = us2[v].start
      PROVE  w = v
  <2>1. us2[w] = us[w] /\ us2[v] = us[v]
    BY <1>8, <1>9, Zenon
  <2>2. us[w].pc = "has" /\ us[v].pc = "has" /\ us[w].start = us[v].start
    BY <1>9, <2>1
  <2>3. QED
    BY <1>3, <2>2, Zenon DEF Held
<1>10. ASSUME NEW a, NEW b, Block(n2, a, b)
       PROVE  \E w \in MmUsers : us2[w].pc = "has" /\ us2[w].start = a
  <2>1. Block(n, a, b) /\ a # x
    BY <1>1, <1>10, Zenon
  <2>2. PICK w \in MmUsers : us[w].pc = "has" /\ us[w].start = a
    BY <1>3, <2>1, Zenon DEF Held
  <2>3. w # u
    BY <2>1, <2>2, Zenon
  <2>4. us2[w] = us[w]
    BY <1>2, <2>3, Zenon
  <2>5. QED
    BY <2>2, <2>4, Zenon
<1>11. Held(n2, us2)
  BY <1>8, <1>9, <1>10, Zenon DEF Held
<1>12. QED
  BY <1>1, <1>2, <1>4, <1>5, <1>11, Zenon DEF RangedAs, n2

LEMMA MovesIs ==
  ASSUME NEW us \in [MmUsers -> UserType], NEW u \in MmUsers, NEW y \in UserType
  PROVE  /\ Moves(us, u, y, [us EXCEPT ![u] = y])
         /\ \A a : [[us EXCEPT ![u] = a] EXCEPT ![u] = y] = [us EXCEPT ![u] = y]
         /\ \A a : [us EXCEPT ![u] = a][u] = a
<1>1. [us EXCEPT ![u] = y] \in [MmUsers -> UserType] /\ [us EXCEPT ![u] = y][u] = y
  OBVIOUS
<1>2. \A w \in MmUsers : w # u => [us EXCEPT ![u] = y][w] = us[w]
  OBVIOUS
<1>3. ASSUME NEW a PROVE [[us EXCEPT ![u] = a] EXCEPT ![u] = y] = [us EXCEPT ![u] = y]
  OBVIOUS
<1>4. ASSUME NEW a PROVE [us EXCEPT ![u] = a][u] = a
  OBVIOUS
<1>5. QED
  BY <1>1, <1>2, <1>3, <1>4, Zenon DEF Moves

LEMMA UserFields ==
  ASSUME NEW x \in UserType
  PROVE  /\ x.pc \in {"none", "pre_get", "kzalloc", "search", "has"}
         /\ x.req \in RequestType /\ x.start \in Int
BY Zenon DEF UserType

WithPc(x, p) == [x EXCEPT !.pc = p]
WithReq(x, r) == [x EXCEPT !.req = r]
WithStart(x, s) == [x EXCEPT !.start = s]

LEMMA WithPcIs ==
  ASSUME NEW x \in UserType, NEW p \in {"none", "pre_get", "kzalloc", "search", "has"}
  PROVE  /\ WithPc(x, p) \in UserType /\ WithPc(x, p).pc = p
         /\ WithPc(x, p).req = x.req /\ WithPc(x, p).start = x.start
<1>1. WithPc(x, p) \in UserType
  BY Zenon DEF WithPc, UserType
<1>2. WithPc(x, p).pc = p
  BY Zenon DEF WithPc, UserType
<1>3. WithPc(x, p).req = x.req
  BY Zenon DEF WithPc, UserType
<1>4. WithPc(x, p).start = x.start
  BY Zenon DEF WithPc, UserType
<1>5. QED
  BY <1>1, <1>2, <1>3, <1>4, Zenon

LEMMA WithReqIs ==
  ASSUME NEW x \in UserType, NEW r \in RequestType
  PROVE  /\ WithReq(x, r) \in UserType /\ WithReq(x, r).pc = x.pc
         /\ WithReq(x, r).req = r /\ WithReq(x, r).start = x.start
<1>1. WithReq(x, r) \in UserType
  BY Zenon DEF WithReq, UserType
<1>2. WithReq(x, r).pc = x.pc
  BY Zenon DEF WithReq, UserType
<1>3. WithReq(x, r).req = r
  BY Zenon DEF WithReq, UserType
<1>4. WithReq(x, r).start = x.start
  BY Zenon DEF WithReq, UserType
<1>5. QED
  BY <1>1, <1>2, <1>3, <1>4, Zenon

LEMMA WithStartIs ==
  ASSUME NEW x \in UserType, NEW s \in Int
  PROVE  /\ WithStart(x, s) \in UserType /\ WithStart(x, s).pc = x.pc
         /\ WithStart(x, s).req = x.req /\ WithStart(x, s).start = s
<1>1. WithStart(x, s) \in UserType
  BY Zenon DEF WithStart, UserType
<1>2. WithStart(x, s).pc = x.pc
  BY Zenon DEF WithStart, UserType
<1>3. WithStart(x, s).req = x.req
  BY Zenon DEF WithStart, UserType
<1>4. WithStart(x, s).start = s
  BY Zenon DEF WithStart, UserType
<1>5. QED
  BY <1>1, <1>2, <1>3, <1>4, Zenon

LEMMA GoneIs == R!Gone \in UserType /\ R!Gone.pc = "none"
<1>1. [size |-> 0, align |-> 0, from |-> 0, to |-> 0] \in RequestType
  BY DEF RequestType
<1> DEFINE q == [size |-> 0, align |-> 0, from |-> 0, to |-> 0]
<1> HIDE DEF q
<1>2. R!Gone = [pc |-> "none", req |-> q, start |-> -1]
  BY DEF R!Gone, q
<1>3. q \in RequestType /\ -1 \in Int
  BY <1>1 DEF q
<1>4. R!Gone \in UserType
  BY <1>2, <1>3, Zenon DEF UserType
<1>5. QED
  BY <1>2, <1>4

LEMMA SameTook ==
  ASSUME NEW m, NEW us, RangedAs(m, us), m.node_list # <<>>, NEW x, NEW z
  PROVE  Took(m, FALSE, x, z, m)
BY Zenon DEF Took, RangedAs

LEMMA AskKeeps ==
  ASSUME RangedAs(mm, user), NEW u \in MmUsers, NEW r \in MmRequests, R!Ask(u, r)
  PROVE  RangedAs(mm', user')
<1> DEFINE q == IF mm.best THEN r ELSE [r EXCEPT !.align = 0, !.from = 0, !.to = MmSize]
           x == user[u]
           y1 == WithPc(x, "pre_get")
           y == WithReq(y1, q)
<1>1. user[u].pc = "none" /\ mm.node_list # <<>> /\ mm' = mm
      /\ user' = [user EXCEPT ![u].pc = "pre_get", ![u].req = q]
  BY DEF R!Ask
<1>2. user \in [MmUsers -> UserType] /\ x \in UserType
  BY DEF RangedAs
<1>3. r \in [size : Nat \ {0}, align : Nat, from : Nat, to : Nat] /\ MmSize \in Int
  BY MmAssumption
<1>4. r.size \in Int /\ r.size > 0 /\ r.align \in Int /\ r.align >= 0 /\ r.from \in Int /\ r.to \in Int
  BY <1>3
<1>5. q \in RequestType /\ Asked(q, mm.best)
  <2>1. CASE mm.best
    <3>1. q = r
      BY <2>1, Zenon
    <3>2. r = [size |-> r.size, align |-> r.align, from |-> r.from, to |-> r.to]
      BY <1>3, Zenon
    <3>3. r \in RequestType
      BY <1>4, <3>2, Zenon DEF RequestType
    <3> HIDE DEF q
    <3>4. QED
      BY <1>4, <2>1, <3>1, <3>3 DEF Asked
  <2>2. CASE ~mm.best
    <3>1. r = [size |-> r.size, align |-> r.align, from |-> r.from, to |-> r.to]
      BY <1>3, Zenon
    <3> DEFINE a == r.size
               b == r.align
               c == r.from
               d == r.to
    <3>2. r = [size |-> a, align |-> b, from |-> c, to |-> d]
      BY <3>1
    <3>3. q = [r EXCEPT !.align = 0, !.from = 0, !.to = MmSize]
      BY <2>2, Zenon
    <3>4. a \in Int /\ a > 0
      BY <1>4
    <3> HIDE DEF a, b, c, d, q
    <3>5. q = [size |-> a, align |-> 0, from |-> 0, to |-> MmSize]
      BY <3>2, <3>3
    <3>6. q \in RequestType
      <4>1. 0 \in Int
        OBVIOUS
      <4>2. QED
        BY <1>3, <3>4, <3>5, <4>1, Zenon DEF RequestType
    <3>7. q.size = a /\ q.align = 0 /\ q.from = 0 /\ q.to = MmSize
      BY <3>5
    <3>8. QED
      BY <2>2, <3>4, <3>6, <3>7 DEF Asked
  <2>3. QED
    BY <2>1, <2>2
<1> HIDE DEF q
<1>6. y1 \in UserType /\ y1.pc = "pre_get"
  <2>1. "pre_get" \in {"none", "pre_get", "kzalloc", "search", "has"}
    OBVIOUS
  <2>2. QED
    BY <1>2, <2>1, WithPcIs, Zenon
<1>7. y \in UserType /\ y.pc = "pre_get" /\ y.req = q
  <2> HIDE DEF y1
  <2>1. y \in UserType
    BY <1>5, <1>6, WithReqIs, Zenon
  <2>2. y.pc = y1.pc
    BY <1>5, <1>6, WithReqIs, Zenon
  <2>3. y.req = q
    BY <1>5, <1>6, WithReqIs, Zenon
  <2> HIDE DEF y
  <2>4. QED
    BY <1>6, <2>1, <2>2, <2>3
<1>8. user' = [user EXCEPT ![u] = y]
  <2>1. user' = [[user EXCEPT ![u] = y1] EXCEPT ![u] = [[user EXCEPT ![u] = y1][u] EXCEPT !.req = q]]
    BY <1>1, Zenon DEF WithPc
  <2> HIDE DEF y1
  <2>2. [user EXCEPT ![u] = y1][u] = y1
    BY <1>2
  <2>3. user' = [[user EXCEPT ![u] = y1] EXCEPT ![u] = y]
    BY <2>1, <2>2 DEF WithReq
  <2> HIDE DEF y
  <2>4. QED
    BY <1>2, <1>7, <2>3, MovesIs, Zenon
<1> HIDE DEF y, y1
<1>9. Moves(user, u, y, user')
  BY <1>2, <1>7, <1>8, MovesIs
<1>10. Took(mm, FALSE, 0, 0, mm')
  <2>1. Took(mm, FALSE, 0, 0, mm)
    BY <1>1, SameTook
  <2>2. QED
    BY <1>1, <2>1
<1>11. user[u].pc # "has" /\ y.pc # "has" /\ Asked(y.req, mm.best) /\ mm.node_list # <<>>
  BY <1>1, <1>5, <1>7
<1>12. QED
  BY <1>9, <1>10, <1>11, Waits

LEMMA PreGetKeeps ==
  ASSUME RangedAs(mm, user), NEW u \in MmUsers, R!drm_mm_pre_get(u)
  PROVE  RangedAs(mm', user')
<1> DEFINE p == IF Len(mm.unused_nodes) < UnusedTarget THEN "kzalloc" ELSE "search"
           y == WithPc(user[u], p)
<1>1. user[u].pc = "pre_get" /\ mm' = mm /\ user' = [user EXCEPT ![u] = y]
  BY DEF R!drm_mm_pre_get, WithPc
<1>2. user \in [MmUsers -> UserType] /\ user[u] \in UserType /\ mm.node_list # <<>>
      /\ Asked(user[u].req, mm.best)
  <2>1. "pre_get" # "none"
    OBVIOUS
  <2>2. QED
    BY <1>1, <2>1, Zenon DEF RangedAs
<1>3. p \in {"kzalloc", "search"}
  OBVIOUS
<1> HIDE DEF p
<1>4. y \in UserType /\ y.pc = p /\ y.req = user[u].req
  <2>1. p \in {"none", "pre_get", "kzalloc", "search", "has"}
    BY <1>3
  <2>2. QED
    BY <1>2, <2>1, WithPcIs, Zenon
<1> HIDE DEF y
<1>5. Moves(user, u, y, user')
  BY <1>1, <1>2, <1>4, MovesIs
<1>6. Took(mm, FALSE, 0, 0, mm')
  BY <1>1, <1>2, SameTook
<1>7. y.pc # "has" /\ Asked(y.req, mm.best) /\ user[u].pc # "has"
  BY <1>1, <1>2, <1>3, <1>4
<1>8. QED
  BY <1>2, <1>5, <1>6, <1>7, Waits

\* A node is kept for later.
LEMMA KeptIs ==
  ASSUME NEW m, NEW us, RangedAs(m, us), m.node_list # <<>>, NEW x, NEW z
  PROVE  Took(m, FALSE, x, z, [m EXCEPT !.unused_nodes = Append(@, FALSE)])
<1> DEFINE s == m.unused_nodes
           s2 == Append(s, FALSE)
           m2 == [m EXCEPT !.unused_nodes = s2]
<1>1. m \in SpaceType /\ Space(m)
  BY Zenon DEF RangedAs
<1>2. s \in Seq(BOOLEAN)
  BY <1>1, SpaceFields
<1>3. s2 \in Seq(BOOLEAN)
  <2> HIDE DEF s
  <2>1. QED
    BY <1>2
<1>4. m2 \in SpaceType /\ m2.node_list = m.node_list /\ m2.free_stack = m.free_stack
      /\ m2.best = m.best
  <2> HIDE DEF s2
  <2>1. m2 \in SpaceType
    BY <1>1, <1>3, Zenon DEF SpaceType
  <2>2. m2.node_list = m.node_list
    BY <1>1, Zenon DEF SpaceType
  <2>3. m2.free_stack = m.free_stack
    BY <1>1, Zenon DEF SpaceType
  <2>4. m2.best = m.best
    BY <1>1, Zenon DEF SpaceType
  <2>5. QED
    BY <2>1, <2>2, <2>3, <2>4, Zenon
<1> HIDE DEF m2
<1>5. Took(m, FALSE, x, z, m2)
  BY <1>1, <1>4, Zenon DEF Took, Space
<1>6. QED
  BY <1>5, Zenon DEF m2

LEMMA PreGotKeeps ==
  ASSUME RangedAs(mm, user), NEW u \in MmUsers, R!PreGot(u)
  PROVE  RangedAs(mm', user')
<1>1. user[u].pc = "kzalloc"
  BY DEF R!PreGot
<1>2. user \in [MmUsers -> UserType] /\ user[u] \in UserType /\ mm.node_list # <<>>
      /\ Asked(user[u].req, mm.best)
  <2>1. "kzalloc" # "none"
    OBVIOUS
  <2>2. QED
    BY <1>1, <2>1, Zenon DEF RangedAs
<1>3. \A p \in {"pre_get", "search"} :
        /\ WithPc(user[u], p) \in UserType /\ WithPc(user[u], p).pc # "has"
        /\ Asked(WithPc(user[u], p).req, mm.best)
  <2> TAKE p \in {"pre_get", "search"}
  <2> DEFINE y == WithPc(user[u], p)
  <2>1. p \in {"none", "pre_get", "kzalloc", "search", "has"} /\ p # "has"
    OBVIOUS
  <2>2. y \in UserType /\ y.pc = p /\ y.req = user[u].req
    BY <1>2, <2>1, WithPcIs, Zenon
  <2> HIDE DEF y
  <2>3. y \in UserType /\ y.pc # "has" /\ Asked(y.req, mm.best)
    BY <1>2, <2>1, <2>2
  <2>4. QED
    BY <2>3 DEF y
<1>4. CASE /\ mm' = [mm EXCEPT !.unused_nodes = Append(@, FALSE)]
           /\ user' = [user EXCEPT ![u].pc = "pre_get"]
  <2> DEFINE y == WithPc(user[u], "pre_get")
  <2>1. Took(mm, FALSE, 0, 0, mm')
    BY <1>2, <1>4, KeptIs, Zenon
  <2>2. user' = [user EXCEPT ![u] = y]
    BY <1>4 DEF WithPc
  <2>3. y \in UserType /\ y.pc # "has" /\ Asked(y.req, mm.best)
    BY <1>3
  <2> HIDE DEF y
  <2>4. Moves(user, u, y, user')
    BY <1>2, <2>2, <2>3, MovesIs
  <2>5. QED
    BY <1>1, <1>2, <2>1, <2>3, <2>4, Waits
<1>5. CASE /\ user' = [user EXCEPT ![u] = IF Len(mm.unused_nodes) < 2 THEN R!Gone
                                          ELSE [@ EXCEPT !.pc = "search"]]
           /\ UNCHANGED mm
  <2> DEFINE y == IF Len(mm.unused_nodes) < 2 THEN R!Gone ELSE WithPc(user[u], "search")
  <2>1. Took(mm, FALSE, 0, 0, mm')
    BY <1>2, <1>5, SameTook
  <2>2. user' = [user EXCEPT ![u] = y]
    BY <1>5 DEF WithPc
  <2>3. y \in UserType /\ y.pc # "has" /\ (y.pc # "none" => Asked(y.req, mm.best))
    <3>1. CASE Len(mm.unused_nodes) < 2
      <4>1. y = R!Gone
        BY <3>1
      <4> HIDE DEF y
      <4>2. "none" # "has"
        OBVIOUS
      <4>3. QED
        BY <4>1, <4>2, GoneIs, Zenon
    <3>2. CASE ~(Len(mm.unused_nodes) < 2)
      <4>1. y = WithPc(user[u], "search")
        BY <3>2
      <4> HIDE DEF y
      <4>2. QED
        BY <1>3, <4>1
    <3>3. QED
      BY <3>1, <3>2
  <2> HIDE DEF y
  <2>4. Moves(user, u, y, user')
    BY <1>2, <2>2, <2>3, MovesIs
  <2>5. QED
    BY <1>1, <1>2, <2>1, <2>3, <2>4, Waits
<1>6. QED
  BY <1>4, <1>5 DEF R!PreGot

LEMMA PutNodeKeeps ==
  ASSUME RangedAs(mm, user), NEW u \in MmUsers, R!ttm_bo_man_put_node(u)
  PROVE  RangedAs(mm', user')
<1> DEFINE x == user[u].start
           z == user[u].req.size
<1>1. /\ user[u].pc = "has" /\ mm' = R!drm_mm_put_block(mm, x)
      /\ user' = [user EXCEPT ![u] = R!Gone]
  BY DEF R!ttm_bo_man_put_node
<1>2. /\ user \in [MmUsers -> UserType] /\ user[u] \in UserType /\ mm.node_list # <<>>
      /\ mm \in SpaceType /\ Space(mm) /\ Block(mm.node_list, x, z)
  <2>1. "has" # "none"
    OBVIOUS
  <2>2. user \in [MmUsers -> UserType] /\ mm.node_list # <<>> /\ mm \in SpaceType
    BY <1>1, <2>1, Zenon DEF RangedAs
  <2>3. Space(mm) /\ Held(mm.node_list, user)
    BY <2>2, Zenon DEF RangedAs
  <2>4. Served(mm.node_list, user[u])
    BY <1>1, <2>3, Zenon DEF Held
  <2>5. Block(mm.node_list, x, z)
    BY <2>4, Zenon DEF Served
  <2>6. QED
    BY <2>2, <2>3, <2>5
<1>3. PutBack(mm, x, mm')
  <2> HIDE DEF x, z
  <2>1. PutBack(mm, x, R!drm_mm_put_block(mm, x))
    BY <1>2, PutBlockIs
  <2>2. QED
    BY <1>1, <2>1
<1>4. Moves(user, u, R!Gone, user')
  BY <1>1, <1>2, GoneIs, MovesIs
<1>5. QED
  BY <1>1, <1>2, <1>3, <1>4, GoneIs, Returns

\* No block is where the one that a free node makes room for goes.
LEMMA NothingThere ==
  ASSUME NEW n \in Seq(NodeType), Tiles(n), NEW i \in 1 .. Len(n), n[i].free,
         NEW w \in Int, w >= 0, w < n[i].size, NEW z
  PROVE  ~Block(n, n[i].start + w, z)
<1>1. n[i].start \in Int
  BY NodeIs
<1>2. CASE w = 0
  <2>1. n[i].start + w = n[i].start
    BY <1>1, <1>2
  <2>2. ~Block(n, n[i].start, z)
    BY FreeIsNoBlock
  <2>3. QED
    BY <2>1, <2>2
<1>3. CASE w # 0
  <2>1. 0 < w
    BY <1>3
  <2>2. \A k \in 1 .. Len(n) : n[k].start # n[i].start + w
    BY <2>1, InsideIsNone
  <2>3. QED
    BY <2>2, Zenon DEF Block
<1>4. QED
  BY <1>2, <1>3

\* A user in "search" that does not find a hole, or finds one and splits it.
LEMMA GetNodeKeeps ==
  ASSUME "stale" \notin MmFaults, RangedAs(mm, user), NEW u \in MmUsers,
         R!ttm_bo_man_get_node(u)
  PROVE  RangedAs(mm', user')
<1> DEFINE n == mm.node_list
           r == user[u].req
           x == R!Search(mm, r)
           w == R!Wasted(mm, x, r)
<1>1. user[u].pc = "search"
  BY DEF R!ttm_bo_man_get_node
<1>2. \/ x = -1 /\ user' = [user EXCEPT ![u] = R!Gone] /\ mm' = mm
      \/ /\ x # -1
         /\ \E t \in R!GetBlock(mm, x, r) :
              /\ mm' = t.m
              /\ user' = IF t.ok THEN [user EXCEPT ![u].pc = "has", ![u].start = x + w]
                         ELSE [user EXCEPT ![u].pc = "pre_get"]
  BY DEF R!ttm_bo_man_get_node
<1>3. /\ user \in [MmUsers -> UserType] /\ user[u] \in UserType /\ n # <<>>
      /\ Asked(r, mm.best) /\ mm \in SpaceType /\ Space(mm)
  <2>1. "search" # "none"
    OBVIOUS
  <2>2. user \in [MmUsers -> UserType] /\ n # <<>> /\ Asked(r, mm.best) /\ mm \in SpaceType
    BY <1>1, <2>1, Zenon DEF RangedAs
  <2>3. Space(mm)
    BY <2>2, Zenon DEF RangedAs
  <2>4. QED
    BY <2>2, <2>3
<1>4. n \in Seq(NodeType) /\ Tiles(n) /\ r \in RequestType /\ r.size \in Int /\ r.size > 0
  <2>1. n \in Seq(NodeType) /\ Tiles(n)
    BY <1>3, SpaceFields DEF Space
  <2>2. r \in RequestType
    BY <1>3, UserFields
  <2>3. r.size \in Int
    BY <2>2, Zenon DEF RequestType
  <2>4. r.size > 0
    BY <1>3 DEF Asked
  <2>5. QED
    BY <2>1, <2>2, <2>3, <2>4
<1>5. CASE x = -1
  <2>1. user' = [user EXCEPT ![u] = R!Gone] /\ mm' = mm
    BY <1>2, <1>5
  <2>2. Moves(user, u, R!Gone, user')
    BY <1>3, <2>1, GoneIs, MovesIs
  <2>3. Took(mm, FALSE, 0, 0, mm')
    BY <1>3, <2>1, SameTook
  <2>4. R!Gone.pc # "has" /\ R!Gone.pc = "none"
    BY GoneIs
  <2>5. QED
    BY <1>1, <1>3, <2>2, <2>3, <2>4, Waits
<1>6. CASE x # -1
  <2>1. PICK t \in R!GetBlock(mm, x, r) :
          /\ mm' = t.m
          /\ user' = IF t.ok THEN [user EXCEPT ![u].pc = "has", ![u].start = x + w]
                     ELSE [user EXCEPT ![u].pc = "pre_get"]
    BY <1>2, <1>6, Zenon
  <2>2. PICK i \in 1 .. Len(n) :
          n[i].start = x /\ n[i].free /\ FitsAt(x, n[i].size, r, w)
    BY <1>3, <1>4, <1>6, SearchIs
  <2> DEFINE z == n[i].size
             q == r.size
  <2>3. /\ w \in Int /\ w >= 0 /\ w + q <= z
        /\ R!Tmp(x + w, r.align) = 0 /\ x + w >= r.from /\ x + w + q <= r.to
    BY <2>2 DEF FitsAt
  <2>4. z \in Int /\ x \in Int
    <3>1. n[i].start \in Int /\ n[i].size \in Int
      BY <1>4, NodeIs
    <3>2. QED
      BY <2>2, <3>1
  <2>5. w < z
    <3> HIDE DEF w, z, q
    <3>1. q \in Int /\ q > 0
      BY <1>4 DEF q
    <3>2. QED
      BY <2>3, <2>4, <3>1
  <2> DEFINE b == x + w
  <2>6. b \in Int
    <3> HIDE DEF x, w
    <3>1. QED
      BY <2>3, <2>4
  <2>7. t.ok \in BOOLEAN /\ Took(mm, t.ok, b, q, mm')
    <3>1. n[i].free /\ x = n[i].start
      BY <2>2
    <3> HIDE DEF x
    <3>2. t.ok \in BOOLEAN /\ Took(mm, t.ok, x + w, r.size, t.m)
      BY <1>3, <1>4, <2>1, <2>3, <3>1, GetBlockIs
    <3>3. QED
      BY <2>1, <3>2
  <2>8. CASE t.ok
    <3> DEFINE y1 == WithPc(user[u], "has")
               y == WithStart(y1, b)
    <3>1. user' = [user EXCEPT ![u].pc = "has", ![u].start = b]
      BY <2>1, <2>8
    <3> HIDE DEF x, w, b, z, q, n
    <3>2. y1 \in UserType /\ y1.pc = "has" /\ y1.req = r
      <4>1. "has" \in {"none", "pre_get", "kzalloc", "search", "has"}
        OBVIOUS
      <4>2. QED
        BY <1>3, <4>1, WithPcIs, Zenon
    <3>3. y \in UserType /\ y.pc = "has" /\ y.req = r /\ y.start = b
      <4> HIDE DEF y1
      <4>1. y \in UserType /\ y.pc = y1.pc /\ y.req = y1.req /\ y.start = b
        BY <2>6, <3>2, WithStartIs, Zenon
      <4>2. QED
        BY <3>2, <4>1
    <3>4. user' = [user EXCEPT ![u] = y]
      <4>1. user' = [[user EXCEPT ![u] = y1] EXCEPT
                       ![u] = [[user EXCEPT ![u] = y1][u] EXCEPT !.start = b]]
        BY <3>1, Zenon DEF WithPc
      <4> HIDE DEF y1
      <4>2. [user EXCEPT ![u] = y1][u] = y1
        BY <1>3
      <4>3. user' = [[user EXCEPT ![u] = y1] EXCEPT ![u] = y]
        BY <4>1, <4>2 DEF WithStart
      <4> HIDE DEF y
      <4>4. QED
        BY <1>3, <3>3, <4>3, MovesIs, Zenon
    <3> HIDE DEF y, y1
    <3>5. Moves(user, u, y, user')
      BY <1>3, <3>3, <3>4, MovesIs
    <3>6. \A a : ~Block(n, b, a)
      <4> TAKE a
      <4>1. ~Block(n, n[i].start + w, a)
        BY <1>4, <2>2, <2>3, <2>5, NothingThere DEF n, z
      <4>2. QED
        BY <2>2, <4>1 DEF b, n
    <3>7. R!Tmp(y.start, y.req.align) = 0
      BY <2>3, <3>3 DEF b
    <3>8. y.start >= y.req.from /\ y.start + y.req.size <= y.req.to
      BY <2>3, <3>3 DEF b, q
    <3>9. Took(mm, TRUE, y.start, y.req.size, mm')
      <4>1. Took(mm, TRUE, b, q, mm')
        <5>1. t.ok = TRUE
          BY <2>7, <2>8
        <5>2. QED
          BY <2>7, <5>1
      <4>2. QED
        BY <3>3, <4>1 DEF q
    <3>10. \A a : ~Block(mm.node_list, y.start, a)
      BY <3>3, <3>6 DEF n
    <3>11. user[u].pc # "has" /\ y.pc = "has" /\ Asked(y.req, mm.best) /\ mm.node_list # <<>>
      BY <1>1, <1>3, <3>3 DEF n
    <3>12. QED
      BY <3>5, <3>7, <3>8, <3>9, <3>10, <3>11, Gets
  <2>9. CASE ~t.ok
    <3> DEFINE y == WithPc(user[u], "pre_get")
    <3>1. user' = [user EXCEPT ![u] = y]
      BY <2>1, <2>9 DEF WithPc
    <3>2. y \in UserType /\ y.pc = "pre_get" /\ y.req = r
      <4>1. "pre_get" \in {"none", "pre_get", "kzalloc", "search", "has"}
        OBVIOUS
      <4>2. QED
        BY <1>3, <4>1, WithPcIs, Zenon
    <3> HIDE DEF y, x, w, b, z, q, n
    <3>3. Moves(user, u, y, user')
      BY <1>3, <3>1, <3>2, MovesIs
    <3>4. Took(mm, FALSE, b, q, mm')
      <4>1. t.ok = FALSE
        BY <2>7, <2>9
      <4>2. QED
        BY <2>7, <4>1
    <3>5. user[u].pc # "has" /\ y.pc # "has" /\ Asked(y.req, mm.best) /\ mm.node_list # <<>>
      BY <1>1, <1>3, <3>2 DEF n
    <3>6. QED
      BY <3>3, <3>4, <3>5, Waits
  <2>10. QED
    BY <2>8, <2>9
<1>7. QED
  BY <1>5, <1>6

LEMMA TakedownKeeps ==
  ASSUME RangedAs(mm, user), R!ttm_bo_man_takedown
  PROVE  RangedAs(mm', user')
<1> DEFINE m2 == [mm EXCEPT !.node_list = <<>>, !.free_stack = <<>>, !.unused_nodes = <<>>]
<1>1. (\A u \in MmUsers : user[u] = R!Gone) /\ mm' = m2 /\ user' = user
  BY DEF R!ttm_bo_man_takedown
<1>2. mm \in SpaceType /\ user \in [MmUsers -> UserType]
  BY Zenon DEF RangedAs
<1>3. \A u \in MmUsers : user[u].pc = "none"
  BY <1>1, GoneIs
<1>4. m2 \in SpaceType /\ m2.node_list = <<>>
  <2>1. <<>> \in Seq(NodeType) /\ <<>> \in Seq(Int) /\ <<>> \in Seq(BOOLEAN)
    OBVIOUS
  <2>2. m2 \in SpaceType
    BY <1>2, <2>1, Zenon DEF SpaceType
  <2>3. m2.node_list = <<>>
    BY <1>2, Zenon DEF SpaceType
  <2>4. QED
    BY <2>2, <2>3
<1> HIDE DEF m2
<1>5. RangedAs(m2, user)
  BY <1>2, <1>3, <1>4, Zenon DEF RangedAs
<1>6. QED
  BY <1>1, <1>5

\* Every step of a range keeps what users and nodes have of each other.
LEMMA MmStep ==
  ASSUME "stale" \notin MmFaults, Ranged, R!MmNext
  PROVE  Ranged'
<1>1. RangedAs(mm, user)
  BY DEF Ranged
<1>2. ASSUME NEW u \in MmUsers,
             \/ \E r \in MmRequests : R!Ask(u, r)
             \/ R!drm_mm_pre_get(u)
             \/ R!PreGot(u)
             \/ R!ttm_bo_man_get_node(u)
             \/ R!ttm_bo_man_put_node(u)
      PROVE  RangedAs(mm', user')
  BY <1>1, <1>2, AskKeeps, PreGetKeeps, PreGotKeeps, GetNodeKeeps, PutNodeKeeps
<1>3. ASSUME R!ttm_bo_man_takedown PROVE RangedAs(mm', user')
  BY <1>1, <1>3, TakedownKeeps
<1>4. ASSUME R!MmStopped PROVE RangedAs(mm', user')
  <2>1. mm' = mm /\ user' = user
    BY <1>4 DEF R!MmStopped, R!mmVars
  <2>2. QED
    BY <1>1, <2>1
<1>5. RangedAs(mm', user')
  BY <1>2, <1>3, <1>4, Zenon DEF R!MmNext
<1>6. QED
  BY <1>5 DEF Ranged

LEMMA MmStarts ==
  ASSUME R!MmInit
  PROVE  Ranged
<1>1. PICK best \in BOOLEAN :
        mm = R!drm_mm_create_tail_node([node_list |-> <<>>, free_stack |-> <<>>,
                                        unused_nodes |-> <<>>, best |-> best], 0, MmSize)
  BY Zenon DEF R!MmInit
<1> DEFINE p == [start |-> 0, size |-> MmSize, free |-> TRUE]
           n == <<p>>
           s == <<0>>
<1>2. mm = [node_list |-> n, free_stack |-> s, unused_nodes |-> <<>>, best |-> best]
  <2>1. n = Append(<<>>, p) /\ s = Append(<<>>, 0)
    OBVIOUS
  <2>2. QED
    BY <1>1, <2>1 DEF R!drm_mm_create_tail_node
<1>3. MmSize \in Int /\ MmSize > 0
  BY MmAssumption
<1>4. p \in NodeType /\ p.start = 0 /\ p.size = MmSize /\ p.free = TRUE
  BY <1>3 DEF NodeType
<1> HIDE DEF p
<1>5. n \in Seq(NodeType) /\ s \in Seq(Int) /\ <<>> \in Seq(BOOLEAN)
  BY <1>4
<1>6. Len(n) = 1 /\ n[1] = p /\ Len(s) = 1 /\ s[1] = 0 /\ 1 \in 1 .. 1
      /\ \A i \in 1 .. 1 : i = 1
  OBVIOUS
<1> HIDE DEF n, s
<1>7. mm \in SpaceType /\ mm.node_list = n /\ mm.free_stack = s
  <2>1. mm \in SpaceType
    <3>1. best \in BOOLEAN
      OBVIOUS
    <3>2. QED
      BY <1>2, <1>5, <3>1, Zenon DEF SpaceType
  <2>2. QED
    BY <1>2, <2>1
<1>8. Tiles(n)
  BY <1>3, <1>4, <1>6 DEF Tiles
<1>9. Stacked(s, n)
  <2>1. \A k, l \in 1 .. Len(s) : s[k] = s[l] => k = l
    BY <1>6
  <2>2. \A x \in Int : OnStack(s, x) <=> x = 0
    BY <1>6 DEF OnStack
  <2>3. \A x \in Int : FreeAt(n, x) <=> x = 0
    BY <1>4, <1>6 DEF FreeAt
  <2>4. QED
    BY <2>1, <2>2, <2>3 DEF Stacked
<1>10. user \in [MmUsers -> UserType] /\ \A u \in MmUsers : user[u].pc = "none"
  <2>1. user = [u \in MmUsers |-> R!Gone]
    BY Zenon DEF R!MmInit
  <2>2. QED
    BY <2>1, GoneIs
<1>11. Held(n, user)
  <2>1. \A u \in MmUsers : user[u].pc # "has"
    BY <1>10
  <2>2. \A x, z : ~Block(n, x, z)
    BY <1>4, <1>6 DEF Block
  <2>3. QED
    BY <2>1, <2>2, Zenon DEF Held
<1>12. n # <<>>
  BY <1>6
<1>13. Space(mm)
  BY <1>7, <1>8, <1>9 DEF Space
<1>14. RangedAs(mm, user)
  BY <1>7, <1>10, <1>11, <1>12, <1>13, Zenon DEF RangedAs
<1>15. QED
  BY <1>14 DEF Ranged

LEMMA MmGives ==
  ASSUME Ranged
  PROVE  R!MmTiles
<1> SUFFICES ASSUME mm.node_list # <<>>
             PROVE  R!Tiled /\ R!BlocksAreHeld /\ R!FreeIsStacked
  BY DEF R!MmTiles
<1> DEFINE n == mm.node_list
           s == mm.free_stack
<1>1. mm \in SpaceType /\ user \in [MmUsers -> UserType] /\ Space(mm) /\ Held(n, user)
  BY Zenon DEF Ranged, RangedAs
<1>2. n \in Seq(NodeType) /\ s \in Seq(Int) /\ Tiles(n) /\ Stacked(s, n)
  BY <1>1, SpaceFields DEF Space
<1>3. DOMAIN n = 1 .. Len(n) /\ DOMAIN s = 1 .. Len(s)
  <2> HIDE DEF n, s
  <2>1. QED
    BY <1>2
<1>4. R!Tiled
  <2>1. /\ n[1].start = 0 /\ R!Last(n).start + R!Last(n).size = MmSize
        /\ \A i \in 1 .. Len(n) : n[i].size > 0
        /\ \A i \in 1 .. Len(n) - 1 :
             n[i].start + n[i].size = n[i + 1].start /\ ~(n[i].free /\ n[i + 1].free)
    <3> HIDE DEF n
    <3>1. QED
      BY <1>2, Zenon DEF Tiles, R!Last
  <2>2. QED
    BY <1>3, <2>1, Zenon DEF R!Tiled
<1>5. R!BlocksAreHeld
  <2> DEFINE A == {mm.node_list[i].start : i \in {j \in DOMAIN mm.node_list : ~mm.node_list[j].free}}
             B == {user[u].start : u \in R!Holders}
  <2>1. ASSUME NEW x \in A PROVE x \in B
    <3>1. PICK i \in DOMAIN n : ~n[i].free /\ x = n[i].start
      BY <2>1
    <3>2. i \in 1 .. Len(n) /\ n[i].free \in BOOLEAN
      BY <1>2, <1>3, <3>1, NodeIs
    <3>3. Block(n, x, n[i].size)
      BY <3>1, <3>2, Zenon DEF Block
    <3>4. PICK u \in MmUsers : user[u].pc = "has" /\ user[u].start = x
      BY <1>1, <3>3, Zenon DEF Held
    <3>5. QED
      BY <3>4, Zenon DEF R!Holders
  <2>2. ASSUME NEW u \in R!Holders
        PROVE  /\ u \in MmUsers /\ user[u].pc = "has"
               /\ Block(n, user[u].start, user[u].req.size)
               /\ R!Tmp(user[u].start, user[u].req.align) = 0
               /\ user[u].start >= user[u].req.from
               /\ user[u].start + user[u].req.size <= user[u].req.to
    <3>1. u \in MmUsers /\ user[u].pc = "has"
      BY Zenon DEF R!Holders
    <3>2. Served(n, user[u])
      BY <1>1, <3>1, Zenon DEF Held
    <3>3. QED
      BY <3>1, <3>2, Zenon DEF Served
  <2>3. ASSUME NEW x \in B PROVE x \in A
    <3>1. PICK u \in R!Holders : x = user[u].start
      BY <2>3
    <3>2. PICK i \in 1 .. Len(n) : n[i].start = x /\ ~n[i].free
      BY <2>2, <3>1, Zenon DEF Block
    <3>3. QED
      BY <1>3, <3>2
  <2>4. A = B
    <3> HIDE DEF A, B
    <3>1. QED
      BY <2>1, <2>3, Zenon
  <2>5. ASSUME NEW u \in R!Holders
        PROVE  /\ \E i \in DOMAIN mm.node_list :
                    /\ mm.node_list[i].start = user[u].start
                    /\ mm.node_list[i].size = user[u].req.size
               /\ \A v \in R!Holders \ {u} : user[v].start # user[u].start
    <3>1. PICK i \in 1 .. Len(n) : n[i].start = user[u].start /\ n[i].size = user[u].req.size
      BY <2>2, <2>5, Zenon DEF Block
    <3>2. ASSUME NEW v \in R!Holders \ {u} PROVE user[v].start # user[u].start
      <4>1. v \in MmUsers /\ user[v].pc = "has" /\ v # u
        BY <2>2, <3>2
      <4>2. u \in MmUsers /\ user[u].pc = "has"
        BY <2>2, <2>5
      <4>3. QED
        BY <1>1, <4>1, <4>2, Zenon DEF Held
    <3>3. QED
      BY <1>3, <3>1, <3>2, Zenon
  <2>6. QED
    BY <2>2, <2>4, <2>5, Zenon DEF R!BlocksAreHeld
<1>6. R!FreeIsStacked
  <2> DEFINE A == {mm.node_list[i].start : i \in {j \in DOMAIN mm.node_list : mm.node_list[j].free}}
  <2>1. R!IsInjective(s)
    BY <1>2, <1>3, Zenon DEF Stacked, R!IsInjective
  <2>2. \A x \in Int : OnStack(s, x) <=> FreeAt(n, x)
    BY <1>2, Zenon DEF Stacked
  <2>3. ASSUME NEW x \in R!ToSet(s) PROVE x \in A
    <3>1. PICK k \in DOMAIN s : x = s[k]
      BY <2>3, Zenon DEF R!ToSet
    <3>2. x \in Int /\ k \in 1 .. Len(s)
      <4> HIDE DEF s
      <4>1. QED
        BY <1>2, <1>3, <3>1
    <3>3. OnStack(s, x)
      BY <3>1, <3>2, Zenon DEF OnStack
    <3>4. PICK i \in 1 .. Len(n) : n[i].start = x /\ n[i].free
      BY <2>2, <3>2, <3>3, Zenon DEF FreeAt
    <3>5. QED
      BY <1>3, <3>4
  <2>4. ASSUME NEW x \in A PROVE x \in R!ToSet(s)
    <3>1. PICK i \in DOMAIN n : n[i].free /\ x = n[i].start
      BY <2>4
    <3>2. i \in 1 .. Len(n) /\ x \in Int
      BY <1>2, <1>3, <3>1, NodeIs
    <3>3. FreeAt(n, x)
      BY <3>1, <3>2, Zenon DEF FreeAt
    <3>4. PICK k \in 1 .. Len(s) : s[k] = x
      BY <2>2, <3>2, <3>3, Zenon DEF OnStack
    <3>5. QED
      BY <1>3, <3>4, Zenon DEF R!ToSet
  <2>5. R!ToSet(s) = A
    <3> HIDE DEF A
    <3>1. QED
      BY <2>3, <2>4, Zenon
  <2>6. QED
    BY <2>1, <2>5, Zenon DEF R!FreeIsStacked
<1>7. QED
  BY <1>4, <1>5, <1>6

\* The nodes of a range tile it, no two free ones side by side, the free stack
\* has each free one once, and the rest are the blocks of users, one each, sized
\* and placed as asked, after every split, merge and failed allocation.  Under
\* the condition that a node comes with its free flag cleared, which
\* drm_mm_kmalloc does not see to (drm_mm.c:63).
THEOREM MmHolds ==
  ASSUME "stale" \notin MmFaults
  PROVE  Spec => []MmTiles
<1> DEFINE Inv == part = "mm" => Ranged
<1>1. Init => Inv
  BY MmStarts DEF Init
<1>2. Inv /\ [Next]_vars => Inv'
  <2>1. CASE part = "mm" /\ R!MmNext /\ part' = part
    BY <2>1, MmStep
  <2>2. CASE UNCHANGED <<part, mmVars>>
    <3>1. part' = part /\ mm' = mm /\ user' = user
      BY <2>2 DEF mmVars
    <3>2. QED
      BY <3>1 DEF Ranged
  <2>3. [Next]_vars => (part = "mm" /\ R!MmNext /\ part' = part) \/ UNCHANGED <<part, mmVars>>
    BY Zenon DEF Next, vars
  <2>4. QED
    BY <2>1, <2>2, <2>3
<1>3. Inv => MmTiles
  BY MmGives DEF MmTiles
<1>4. QED
  BY <1>1, <1>2, <1>3, PTL DEF Spec
=============================================================================
