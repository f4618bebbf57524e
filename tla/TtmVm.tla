--------------------------------- MODULE TtmVm ---------------------------------
(***************************************************************************)
(* Mappings of buffers into processes (ttm_bo_vm.c): the address space of  *)
(* the device in which buffers are found, page faults, and the moves and   *)
(* swapping out that take the mappings away again (ttm_bo_unmap_virtual).  *)
(*                                                                         *)
(* A thread that moves or swaps out a buffer, and one that faults, has it  *)
(* reserved; their steps interleave with everything that needs no          *)
(* reservation.  Buffers have BufPages pages each.                         *)
(***************************************************************************)
EXTENDS Integers, Sequences, FiniteSets

CONSTANTS
  Vbufs, Vmas,   \* buffers and mappings that come and go
  BufPages,
  Addrs,         \* where drm_mm puts buffers in the address space
  MapFrom,       \* pages into the buffer at which a mapping may start
  Slots,         \* places for buffers in vram
  PhysPages,     \* number of pages of memory
  Prefault,      \* TTM_BO_VM_NUM_PREFAULT
  NoOne

VARIABLES
  vbo,           \* ttm_buffer_object with its ttm_tt, mem.bus and vm_node
  vma            \* vm_area_struct with its page table entries

vmVars == <<vbo, vma>>

Pages == 0 .. BufPages - 1
NoPages == [p \in Pages |-> -1]

NoBuffer == [mem |-> "none", kref |-> 0, handle |-> FALSE, off |-> -1, live |-> FALSE,
             slot |-> -1, pages |-> NoPages, swapped |-> FALSE, by |-> NoOne,
             io_reserved_vm |-> FALSE, bus |-> -1, to |-> "none", new |-> -1, todo |-> <<>>]
NoVma == [bo |-> NoOne, pgoff |-> 0, len |-> 0, pc |-> "idle", at |-> 0, n |-> 0,
          pte |-> [p \in Pages |-> <<>>]]

VmInit == vbo = [b \in Vbufs |-> NoBuffer] /\ vma = [v \in Vmas |-> NoVma]

-----------------------------------------------------------------------------
(* Pages, and the address space. *)

UsedPages(B) == {B[b].pages[p] : b \in Vbufs, p \in Pages} \ {-1}
FreePages(B) == 0 .. PhysPages - 1 \ UsedPages(B)

(* __ttm_tt_get_page, swapping in first. *)
MissingPages(x) == {p \in Pages : x.pages[p] = -1}
Lowest(S, k) == CHOOSE i \in S : Cardinality({j \in S : j < i}) = k

ttm_tt_get_pages(b, want) ==
  LET missing == MissingPages(vbo[b]) \cap want IN
  [vbo[b] EXCEPT !.swapped = FALSE, !.pages =
     [p \in Pages |-> IF p \in missing
                      THEN Lowest(FreePages(vbo), Cardinality({q \in missing : q < p}))
                      ELSE @[p]]]

(* A buffer that is swapped in gets all of its pages. *)
Wanted(b, want) == IF vbo[b].swapped THEN Pages ELSE want
CanGet(b, want) ==
  Cardinality(MissingPages(vbo[b]) \cap Wanted(b, want)) <= Cardinality(FreePages(vbo))

ttm_bo_vm_lookup_rb(page_start, num_pages) ==
  {b \in Vbufs : /\ vbo[b].live /\ page_start >= vbo[b].off
                 /\ vbo[b].off + BufPages >= page_start + num_pages
                 /\ \A c \in Vbufs : vbo[c].live /\ vbo[c].off <= page_start
                                       => vbo[c].off <= vbo[b].off}

ttm_mem_io_free_vm(x) == [x EXCEPT !.io_reserved_vm = FALSE, !.bus = -1]

(* Every mapping of the range in the address space goes, whose ever it is. *)
ttm_bo_unmap_virtual_locked(b) ==
  [v \in Vmas |->
     IF vma[v].bo = NoOne THEN vma[v]
     ELSE [vma[v] EXCEPT !.pte =
             [p \in Pages |-> IF vma[v].pgoff + p \in vbo[b].off .. vbo[b].off + BufPages - 1
                              THEN <<>> ELSE @[p]]]]

ttm_mem_reg_is_pci(mem) == mem = "vram"

(* Seeded fault: only what leaves the device is unmapped. *)
Unmaps_OldOnly(old, new) == ttm_mem_reg_is_pci(old)

Unmaps(old, new) == ttm_mem_reg_is_pci(old) \/ ttm_mem_reg_is_pci(new)

-----------------------------------------------------------------------------
(* Buffers and their references. *)

ttm_bo_setup_vm(b) ==
  /\ vbo[b] = NoBuffer
  /\ \E a \in Addrs :
       /\ \A c \in Vbufs : vbo[c].live => vbo[c].off # a
       /\ vbo' = [vbo EXCEPT ![b] = [@ EXCEPT !.mem = "system", !.kref = 1, !.handle = TRUE,
                                              !.off = a, !.live = TRUE]]
  /\ UNCHANGED vma

(* ttm_bo_release takes the buffer out of the address space under the same *)
(* lock; the rest of it is ttm_bo_cleanup_refs.                            *)
ttm_bo_release(x) == ttm_mem_io_free_vm([x EXCEPT !.live = FALSE])

Unref(x) == LET y == [x EXCEPT !.kref = @ - 1] IN IF y.kref = 0 THEN ttm_bo_release(y) ELSE y

ttm_bo_unref(b) ==
  /\ vbo[b].handle
  /\ vbo' = [vbo EXCEPT ![b] = Unref([@ EXCEPT !.handle = FALSE])]
  /\ UNCHANGED vma

ttm_bo_cleanup_refs(b) ==
  /\ vbo[b].mem # "none" /\ vbo[b].kref = 0 /\ vbo[b].by = NoOne
  /\ vbo' = [vbo EXCEPT ![b] = NoBuffer]
  /\ UNCHANGED vma

ttm_bo_mmap(v) ==
  /\ vma[v].bo = NoOne
  /\ \E a \in Addrs, k \in MapFrom :
       \E b \in ttm_bo_vm_lookup_rb(a + k, BufPages - k) :
         /\ vbo' = [vbo EXCEPT ![b].kref = @ + 1]
         /\ vma' = [vma EXCEPT ![v] = [NoVma EXCEPT !.bo = b, !.pgoff = a + k,
                                                    !.len = BufPages - k]]

(* fork: the new process gets the entries there are. *)
ttm_bo_vm_open(v, w) ==
  /\ vma[v].bo # NoOne /\ vma[v].pc = "idle" /\ vma[w].bo = NoOne
  /\ vbo' = [vbo EXCEPT ![vma[v].bo].kref = @ + 1]
  /\ vma' = [vma EXCEPT ![w] = vma[v]]

ttm_bo_vm_close(v) ==
  /\ vma[v].bo # NoOne /\ vma[v].pc = "idle"
  /\ vbo' = [vbo EXCEPT ![vma[v].bo] = Unref(@)]
  /\ vma' = [vma EXCEPT ![v] = NoVma]

-----------------------------------------------------------------------------
(* ttm_bo_vm_fault.  Without the reservation the fault is taken again. *)

PageOffset(v, i) == i + vbo[vma[v].bo].off - vma[v].pgoff
PageLast(v) == vma[v].len + vbo[vma[v].bo].off - vma[v].pgoff

vmw_ttm_io_mem_reserve(x) == IF x.mem = "vram" THEN x.slot ELSE -1

ttm_mem_io_reserve_vm(x) ==
  IF x.io_reserved_vm THEN x
  ELSE [x EXCEPT !.io_reserved_vm = TRUE, !.bus = vmw_ttm_io_mem_reserve(x)]

(* page_offset is unsigned: before the buffer is after it. *)
ttm_bo_vm_fault(v) ==
  /\ vma[v].bo # NoOne /\ vma[v].pc = "idle" /\ vbo[vma[v].bo].by = NoOne
  /\ \E i \in 0 .. vma[v].len - 1 :
       LET inside == PageOffset(v, i) \in Pages
           x == ttm_mem_io_reserve_vm(vbo[vma[v].bo])
       IN /\ vma[v].pte[i] = <<>>
          /\ vma' = IF inside THEN [vma EXCEPT ![v].pc = "insert", ![v].at = i] ELSE vma
          /\ vbo' = [vbo EXCEPT ![vma[v].bo] = IF inside THEN [x EXCEPT !.by = v] ELSE x]

Unfault(v, pte) == [vma EXCEPT ![v] = [@ EXCEPT !.pc = "idle", !.at = 0, !.n = 0, !.pte = pte]]

(* One page of the loop, which ends at an entry that is there already, at  *)
(* a page that cannot be had and after enough pages.                       *)
InsertPage(v) ==
  LET b == vma[v].bo
      i == vma[v].at
      p == PageOffset(v, i)
      ram == vbo[b].bus = -1
      can == ~ram \/ CanGet(b, {p})
      got == IF ram THEN ttm_tt_get_pages(b, Wanted(b, {p})) ELSE vbo[b]
      entry == IF ram THEN <<"ram", got.pages[p]>> ELSE <<"vram", vbo[b].bus, p>>
      free == vma[v].pte[i] = <<>>
      more == can /\ free /\ p + 1 < PageLast(v) /\ vma[v].n + 1 < Prefault
      pte == IF can /\ free THEN [vma[v].pte EXCEPT ![i] = entry] ELSE vma[v].pte
  IN /\ vma[v].pc = "insert"
     /\ vbo' = [vbo EXCEPT ![b] = [(IF can THEN got ELSE vbo[b]) EXCEPT
                                     !.by = IF more THEN v ELSE NoOne]]
     /\ vma' = IF more THEN [vma EXCEPT ![v].pte = pte, ![v].at = i + 1, ![v].n = @ + 1]
               ELSE Unfault(v, pte)

-----------------------------------------------------------------------------
(* Moves and swapping out. *)

At(b, step) == vbo[b].todo # <<>> /\ Head(vbo[b].todo) = step
Pop(x) == [x EXCEPT !.todo = Tail(@)]
ttm_bo_unreserve(x) == [x EXCEPT !.todo = <<>>, !.by = NoOne, !.to = "none", !.new = -1]

UnmapSteps(old, new) == IF Unmaps(old, new) THEN <<"unmap">> ELSE <<>>

(* ttm_bo_handle_move_mem for a place that was found. *)
ttm_bo_handle_move_mem(b, to) ==
  /\ vbo[b].kref > 0 /\ vbo[b].by = NoOne /\ vbo[b].mem # to
  /\ \E slot \in IF to = "vram" THEN Slots ELSE {-1} :
       /\ \A c \in Vbufs : to = "vram" => vbo[c].slot # slot /\ vbo[c].new # slot
       /\ vbo' = [vbo EXCEPT ![b].by = "mover", ![b].to = to, ![b].new = slot,
                             ![b].todo = UnmapSteps(vbo[b].mem, to) \o <<"move">>]
  /\ UNCHANGED vma

ttm_bo_unmap_virtual(b) ==
  /\ At(b, "unmap")
  /\ vbo' = [vbo EXCEPT ![b] = Pop(ttm_mem_io_free_vm(@))]
  /\ vma' = ttm_bo_unmap_virtual_locked(b)

(* Contents go between the pages and vram; in between there is nothing to  *)
(* copy: gmrs are pages.  What was reserved for mappings is not copied.    *)
Placed(x) == [x EXCEPT !.mem = x.to, !.slot = x.new,
                       !.io_reserved_vm = FALSE, !.bus = -1]
MovedPages(b) ==
  LET x == vbo[b] IN
  IF x.to = "vram" THEN [Placed(x) EXCEPT !.pages = NoPages, !.swapped = FALSE]
  ELSE IF x.to = "gmr" \/ x.mem = "vram" THEN Placed(ttm_tt_get_pages(b, Pages)) ELSE Placed(x)

NeedsPages(x) == x.to = "gmr" \/ (x.mem = "vram") # (x.to = "vram")

ttm_bo_move_memcpy(b) ==
  /\ At(b, "move")
  /\ vbo' = [vbo EXCEPT ![b] = ttm_bo_unreserve(
                 IF NeedsPages(@) => CanGet(b, Pages) THEN MovedPages(b) ELSE @)]
  /\ UNCHANGED vma

(* A gmr goes to system memory first, with what is reserved for mappings   *)
(* copied along.                                                           *)
ttm_bo_swapout(b) ==
  /\ vbo[b].kref > 0 /\ vbo[b].by = NoOne /\ ~vbo[b].swapped
  /\ vbo[b].mem \in {"system", "gmr"}
  /\ vbo' = [vbo EXCEPT ![b].by = "mover", ![b].mem = "system",
                        ![b].todo = <<"unmap", "swap">>]
  /\ UNCHANGED vma

ttm_tt_swapout(b) ==
  /\ At(b, "swap")
  /\ vbo' = [vbo EXCEPT ![b] =
                 [ttm_bo_unreserve(@) EXCEPT !.pages = NoPages, !.swapped = TRUE]]
  /\ UNCHANGED vma

VmNext ==
  \/ \E b \in Vbufs :
       \/ ttm_bo_setup_vm(b) \/ ttm_bo_unref(b) \/ ttm_bo_cleanup_refs(b)
       \/ \E to \in {"system", "gmr", "vram"} : ttm_bo_handle_move_mem(b, to)
       \/ ttm_bo_unmap_virtual(b) \/ ttm_bo_move_memcpy(b)
       \/ ttm_bo_swapout(b) \/ ttm_tt_swapout(b)
  \/ \E v \in Vmas :
       \/ ttm_bo_mmap(v) \/ (\E w \in Vmas : ttm_bo_vm_open(v, w)) \/ ttm_bo_vm_close(v)
       \/ ttm_bo_vm_fault(v) \/ InsertPage(v)

VmSpec == VmInit /\ [][VmNext]_vmVars

-----------------------------------------------------------------------------
(* A process sees the page of its buffer that the address stands for,      *)
(* where the buffer is now; nothing of a buffer is mapped while its        *)
(* contents are copied; a mapped buffer is alive and found at its offset.  *)

PlaceOf(b, p) ==
  IF vbo[b].mem = "vram" THEN <<"vram", vbo[b].slot, p>> ELSE <<"ram", vbo[b].pages[p]>>

EntriesAreRight ==
  \A v \in Vmas : vma[v].bo # NoOne =>
    /\ vbo[vma[v].bo].live
    /\ \A i \in Pages : vma[v].pte[i] # <<>> =>
         LET p == i + vma[v].pgoff - vbo[vma[v].bo].off IN
         p \in Pages /\ vma[v].pte[i] = PlaceOf(vma[v].bo, p) /\ vma[v].pte[i] # <<"ram", -1>>

CopiesAreQuiet ==
  \A b \in Vbufs : At(b, "swap") \/ (At(b, "move") /\ Unmaps(vbo[b].mem, vbo[b].to)) =>
    \A v \in Vmas : vma[v].bo = b => \A i \in Pages : vma[v].pte[i] = <<>>

RefsAreCounted ==
  \A b \in Vbufs :
    vbo[b].kref = Cardinality({v \in Vmas : vma[v].bo = b}) + (IF vbo[b].handle THEN 1 ELSE 0)

MappedWhereItIs == EntriesAreRight /\ CopiesAreQuiet /\ RefsAreCounted
=============================================================================
