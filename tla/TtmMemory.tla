------------------------------ MODULE TtmMemory -------------------------------
(***************************************************************************)
(* The pages of buffer objects: zone accounting and the shrinking of       *)
(* ttm_memory.c, population and swapping of a ttm (ttm_tt.c), and the part *)
(* of ttm_bo.c that says which buffers may be swapped out.                 *)
(*                                                                         *)
(* A buffer is worked on by the thread that has reserved it.  The pages of *)
(* a ttm are cached ones, as all of this driver's are, and are had from    *)
(* its start on.  A page above 4 GiB ("high") counts in the kernel zone,   *)
(* any other in the dma32 zone as well.  Sizes are in pages.               *)
(***************************************************************************)
EXTENDS Integers, Sequences, FiniteSets

CONSTANTS
  Tbufs,        \* buffers
  TtmPages,     \* the number of pages of each
  Clients,      \* threads that use buffers
  Admin,        \* those with CAP_SYS_ADMIN
  MaxMem, EmerMem, SwapLimit,  \* of a zone: max_mem, emer_mem, swap_limit
  Retries,      \* TTM_MEMORY_ALLOC_RETRIES
  Nobody

VARIABLES
  zone,         \* used_mem of the zones, and whether the swap work is queued
  tbuf,         \* ttm_buffer_object with its ttm_tt
  client        \* the threads

memVars == <<zone, tbuf, client>>

Zones == {"kernel", "dma32"}
ZonesOf(page) == IF page = "high" THEN {"kernel"} ELSE Zones

NoTtm == [live |-> FALSE, reserved |-> Nobody, lru |-> FALSE, state |-> "unpopulated",
          pages |-> <<>>, swapped |-> FALSE, content |-> "none"]
NoWork == [pc |-> "idle", buf |-> Nobody, upto |-> 0, page |-> "none", tries |-> 0,
           whole |-> FALSE]

MemInit ==
  /\ zone = [used |-> [z \in Zones |-> 0], queued |-> FALSE]
  /\ tbuf = [b \in Tbufs |-> NoTtm]
  /\ client = [t \in Clients |-> NoWork]

-----------------------------------------------------------------------------
(* Accounting. *)

Limit(t) == IF t \in Admin THEN EmerMem ELSE MaxMem

Fits(t, zones) == \A z \in zones : zone.used[z] <= Limit(t)

(* ttm_mem_global_reserve, and the look at the swap limits after it. *)
Charged(zones) ==
  LET used == [z \in Zones |-> zone.used[z] + (IF z \in zones THEN 1 ELSE 0)]
  IN [used |-> used, queued |-> zone.queued \/ \E z \in Zones : used[z] > SwapLimit]

ChargeOf(pages, z) == Cardinality({i \in DOMAIN pages : z \in ZonesOf(pages[i])})

(* Seeded fault: freed pages are taken off every zone. *)
ttm_mem_global_free_page_AllZones(z, pages) ==
  [z EXCEPT !.used = [y \in Zones |-> @[y] - Len(pages)]]

ttm_mem_global_free_page(z, pages) ==
  [z EXCEPT !.used = [y \in Zones |-> @[y] - ChargeOf(pages, y)]]

-----------------------------------------------------------------------------
(* Swapping out.  The buffer is reserved meanwhile, and nobody else can    *)
(* tell: one step.  It is not put on the lru list again, whether there     *)
(* was memory for the copy or not.                                         *)

Swappable == {b \in Tbufs : tbuf[b].lru}

(* What is copied is what there are pages of. *)
SwapFrom(b) == IF tbuf[b].content = "pages" THEN "file" ELSE
               IF tbuf[b].content = "file" THEN "lost" ELSE tbuf[b].content

ttm_tt_swapout(b) ==
  \/ /\ tbuf' = [tbuf EXCEPT ![b].lru = FALSE, ![b].state = "unpopulated",
                             ![b].pages = <<>>, ![b].swapped = TRUE,
                             ![b].content = SwapFrom(b)]
     /\ zone' = ttm_mem_global_free_page(zone, tbuf[b].pages)
  \/ /\ tbuf' = [tbuf EXCEPT ![b].lru = FALSE,
                             ![b].state = IF @ = "bound" THEN "unbound" ELSE @]
     /\ UNCHANGED zone

AboveTarget(limit) == \E z \in Zones : zone.used[z] > limit

(* ttm_shrink of a thread that could not charge a page: one buffer after   *)
(* the other, until the target is reached or ttm_bo_swapout has none or    *)
(* fails.                                                                  *)
ttm_shrink(t) ==
  /\ client[t].pc = "shrink"
  /\ \/ /\ AboveTarget(Limit(t))
        /\ \E b \in Swappable :
             /\ ttm_tt_swapout(b)
             /\ client' = [client EXCEPT ![t].pc =
                             IF tbuf'[b].swapped THEN "shrink" ELSE "charge"]
     \/ /\ ~AboveTarget(Limit(t)) \/ Swappable = {}
        /\ client' = [client EXCEPT ![t].pc = "charge"]
        /\ UNCHANGED <<zone, tbuf>>

ttm_shrink_work ==
  /\ zone.queued
  /\ IF AboveTarget(SwapLimit) /\ Swappable # {}
     THEN \E b \in Swappable : ttm_tt_swapout(b)
     ELSE zone' = [zone EXCEPT !.queued = FALSE] /\ UNCHANGED tbuf
  /\ UNCHANGED client

-----------------------------------------------------------------------------
(* Threads. *)

ttm_bo_init(b) ==
  /\ ~tbuf[b].live
  /\ tbuf' = [tbuf EXCEPT ![b] = [NoTtm EXCEPT !.live = TRUE, !.lru = TRUE]]
  /\ UNCHANGED <<zone, client>>

(* The last reference goes: ttm_tt_destroy. *)
ttm_tt_destroy(b) ==
  /\ tbuf[b].live /\ tbuf[b].reserved = Nobody
  /\ zone' = ttm_mem_global_free_page(zone, tbuf[b].pages)
  /\ tbuf' = [tbuf EXCEPT ![b] = NoTtm]
  /\ UNCHANGED client

(* Validation to a place outside of system memory populates the whole ttm, *)
(* a fault or a kernel mapping its pages up to one of them, and a          *)
(* synchronisation for the CPU, or a list that is given up, nothing.       *)
ttm_bo_reserve(t, b) ==
  /\ client[t].pc = "idle" /\ tbuf[b].live /\ tbuf[b].reserved = Nobody
  /\ tbuf' = [tbuf EXCEPT ![b].reserved = t, ![b].lru = FALSE]
  /\ \E n \in 0 .. TtmPages, whole \in BOOLEAN :
       /\ whole => n = TtmPages
       /\ client' = [client EXCEPT ![t] =
            [NoWork EXCEPT !.buf = b, !.upto = n, !.whole = whole,
               !.pc = IF n = 0 THEN "unreserve" ELSE "pages"]]
  /\ UNCHANGED zone

(* A ttm that is swapped is swapped in first: the pages it needs are all.  *)
Needed(t) ==
  LET b == client[t].buf IN
  IF tbuf[b].swapped THEN TtmPages
  ELSE IF client[t].whole /\ tbuf[b].state # "unpopulated" THEN 0
  ELSE client[t].upto

__ttm_tt_get_page(t) ==
  LET b == client[t].buf IN
  /\ client[t].pc = "pages" /\ Len(tbuf[b].pages) < Needed(t)
  /\ \E page \in {"low", "high"} :
       client' = [client EXCEPT ![t].pc = "charge", ![t].page = page, ![t].tries = Retries]
  /\ UNCHANGED <<zone, tbuf>>

Charge(t) ==
  /\ client[t].pc = "charge" /\ Fits(t, ZonesOf(client[t].page))
  /\ zone' = Charged(ZonesOf(client[t].page))
  /\ tbuf' = [tbuf EXCEPT ![client[t].buf].pages = Append(@, client[t].page)]
  /\ client' = [client EXCEPT ![t].pc = "pages", ![t].page = "none"]

ChargeAgain(t) ==
  /\ client[t].pc = "charge" /\ ~Fits(t, ZonesOf(client[t].page))
  /\ client[t].tries > 0
  /\ client' = [client EXCEPT ![t].pc = "shrink", ![t].tries = @ - 1]
  /\ zone' = [zone EXCEPT !.queued = @ \/ AboveTarget(SwapLimit)]
  /\ UNCHANGED tbuf

(* Without a page, or without room for it in its zones.  A swap-in that    *)
(* fails gives back what it has.                                           *)
NoPage(t, b) ==
  IF tbuf[b].swapped
  THEN /\ zone' = ttm_mem_global_free_page(zone, tbuf[b].pages)
       /\ tbuf' = [tbuf EXCEPT ![b].pages = <<>>]
  ELSE UNCHANGED <<zone, tbuf>>

PageFails(t) ==
  LET b == client[t].buf IN
  /\ \/ client[t].pc = "pages" /\ Len(tbuf[b].pages) < Needed(t)
     \/ /\ client[t].pc = "charge" /\ ~Fits(t, ZonesOf(client[t].page))
        /\ client[t].tries = 0
  /\ NoPage(t, b)
  /\ client' = [client EXCEPT ![t].pc = "unreserve", ![t].page = "none"]

(* The contents are back; the file goes. *)
SwappedIn(t) ==
  LET b == client[t].buf IN
  /\ client[t].pc = "pages" /\ tbuf[b].swapped /\ Len(tbuf[b].pages) = TtmPages
  /\ tbuf' = [tbuf EXCEPT ![b].swapped = FALSE,
                          ![b].content = IF @ = "file" THEN "pages" ELSE @]
  /\ UNCHANGED <<zone, client>>

(* The end of ttm_tt_bind or of a fault: somebody writes to the pages. *)
PagesThere(t) ==
  LET b == client[t].buf IN
  /\ client[t].pc = "pages" /\ ~tbuf[b].swapped /\ Len(tbuf[b].pages) >= Needed(t)
  /\ tbuf' = [tbuf EXCEPT ![b].state = IF client[t].whole THEN "bound" ELSE @,
                          ![b].content = IF @ = "none" THEN "pages" ELSE @]
  /\ client' = [client EXCEPT ![t].pc = "unreserve"]
  /\ UNCHANGED zone

(* Every buffer that has a ttm goes on the lru list of those to swap. *)
ttm_bo_unreserve(t) ==
  /\ client[t].pc = "unreserve"
  /\ tbuf' = [tbuf EXCEPT ![client[t].buf].reserved = Nobody,
                          ![client[t].buf].lru = TRUE]
  /\ client' = [client EXCEPT ![t] = NoWork]
  /\ UNCHANGED zone

MemNext ==
  \/ \E b \in Tbufs : ttm_bo_init(b) \/ ttm_tt_destroy(b)
  \/ \E t \in Clients, b \in Tbufs : ttm_bo_reserve(t, b)
  \/ \E t \in Clients :
       \/ __ttm_tt_get_page(t) \/ Charge(t) \/ ChargeAgain(t) \/ ttm_shrink(t)
       \/ PageFails(t) \/ SwappedIn(t) \/ PagesThere(t) \/ ttm_bo_unreserve(t)
  \/ ttm_shrink_work

MemSpec == MemInit /\ [][MemNext]_memVars

-----------------------------------------------------------------------------
(* The pages that count in a zone: page p[2] of buffer p[1].               *)
PagesIn(z) ==
  {p \in Tbufs \X (1 .. TtmPages) :
     p[2] <= Len(tbuf[p[1]].pages) /\ z \in ZonesOf(tbuf[p[1]].pages[p[2]])}

(* What is charged is what the buffers hold, within a page of the limit,    *)
(* and nothing can be swapped out from under a thread that works on it.    *)
MemAccounted ==
  /\ \A z \in Zones :
       /\ zone.used[z] = Cardinality(PagesIn(z))
       /\ zone.used[z] <= EmerMem + 1
  /\ \A b \in Tbufs :
       /\ Len(tbuf[b].pages) <= TtmPages
       /\ tbuf[b].state = "bound" => Len(tbuf[b].pages) = TtmPages /\ ~tbuf[b].swapped
       /\ tbuf[b].swapped /\ tbuf[b].pages # <<>> => tbuf[b].reserved # Nobody
       /\ tbuf[b].lru => tbuf[b].reserved = Nobody

(* "Unreserve without putting on LRU to avoid swapping out an already      *)
(* swapped buffer" (ttm_bo.c:1876): what was in a buffer can be had again. *)
SwappedOnce == \A b \in Tbufs : tbuf[b].content # "lost"
=============================================================================
