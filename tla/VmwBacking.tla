------------------------------ MODULE VmwBacking ------------------------------
(***************************************************************************)
(* How the device gets at the pages of buffers: the ttm backend of         *)
(* vmwgfx_buffer.c with its dma mappings, guest memory regions             *)
(* (vmwgfx_gmr.c), memory objects with their page tables and the object    *)
(* tables (vmwgfx_mob.c), the managers of both kinds of ids                *)
(* (vmwgfx_gmrid_manager.c) and the moves that use them (ttm_bo_move_ttm,  *)
(* ttm_bo_handle_move_mem, ttm_bo_move_memcpy).                            *)
(*                                                                         *)
(* Each buffer is moved by a thread that has it reserved; todo holds the   *)
(* steps that thread has left, and the steps of two buffers interleave.    *)
(* A dma address names a page; the device's view of a gmr or mob is the    *)
(* sequence of addresses that its descriptors or page tables lead to.      *)
(***************************************************************************)
EXTENDS Integers, SequencesExt

CONSTANTS
  Backed,       \* buffers
  PagesOf,      \* the number of pages of each
  Addresses,    \* for a number of pages, the sequences of addresses to get
  GmrIds,       \* max_gmr_ids and VMWGFX_NUM_MOB
  PageLimits,   \* values of max_gmr_pages and max_mob_pages
  MapModes,     \* of enum vmw_dma_map_mode: "phys", "map_populate", "map_bind"
  PerRemap, PerDescPage, PerPtPage,  \* addresses in a command or page
  BackFaults,   \* "nomem", "lockup"
  Nil

VARIABLES
  be,           \* ttm_buffer_object with vmw_ttm_backend and vmw_mob
  gman,         \* vmwgfx_gmrid_man of either kind
  bdrv,         \* map_mode, GMR2, sg memory charged, num_3d_resources, otables
  gdev          \* the device: its views of gmrs and mobs

backVars == <<be, gman, bdrv, gdev>>

Kinds == {"gmr", "mob"}
OTables == {"mob", "surface", "context", "shader"}

NoMob == [made |-> FALSE, pt |-> <<>>, level |-> 0, root |-> 0]
NewBuffer == [ttm |-> FALSE, state |-> "unpopulated", mem |-> "system", id |-> Nil,
              to |-> "system", new |-> Nil, mem_type |-> Nil, gmr_id |-> Nil, dma |-> <<>>,
              mob |-> NoMob, ptnew |-> FALSE, sem |-> "none", todo |-> <<>>]

(* Without GMR2 the device tells no limit of pages for gmrs. *)
BackInit ==
  /\ be = [b \in Backed |-> NewBuffer]
  /\ \E mode \in MapModes, gmr2 \in BOOLEAN, limit \in PageLimits :
       /\ bdrv = [mode |-> mode, gmr2 |-> gmr2, sg |-> 0, n3d |-> 0, others |-> 0,
                  otables |-> {}]
       /\ gman = [k \in Kinds |->
                    [ids |-> {}, used |-> 0,
                     limit |-> IF k = "mob" \/ gmr2 THEN limit ELSE 0]]
  /\ gdev = [view |-> [k \in Kinds |-> [i \in GmrIds |-> Nil]],
             hung |-> FALSE, clash |-> FALSE]

-----------------------------------------------------------------------------
(* What the device makes of the commands of a binding.                     *)

Chunks(s, n) ==
  [k \in 1 .. (Len(s) + n - 1) \div n |->
     SubSeq(s, (k - 1) * n + 1, IF k * n < Len(s) THEN k * n ELSE Len(s))]

(* One SVGA_CMD_REMAP_GMR2 for every chunk of pages. *)
vmw_gmr2_bind(dma) ==
  LET remap == Chunks(dma, PerRemap)
      Offset(k) == (k - 1) * PerRemap
  IN [p \in 1 .. Len(dma) |->
        LET k == (p - 1) \div PerRemap + 1 IN remap[k][p - Offset(k)]]

(* Runs of contiguous addresses, a descriptor each. *)
Descriptors(dma) ==
  FoldLeft(LAMBDA D, pfn :
    IF D # <<>> /\ pfn = Last(D).ppn + Last(D).n
    THEN [D EXCEPT ![Len(D)].n = @ + 1]
    ELSE Append(D, [ppn |-> pfn, n |-> 1]), <<>>, dma)

DescriptorPages(dma) == Chunks(Descriptors(dma), PerDescPage)

vmw_gmr_build_descriptors(dma) ==
  LET Of(d) == [i \in 1 .. d.n |-> d.ppn + i - 1]
      OfPage(page) == FlattenSeq([i \in DOMAIN page |-> Of(page[i])])
      P == DescriptorPages(dma)
  IN FlattenSeq([i \in DOMAIN P |-> OfPage(P[i])])

vmw_mob_calculate_pt_pages(pages) ==
  LET f[n \in Nat] ==
        IF n <= 1 THEN 0
        ELSE LET k == (n + PerPtPage - 1) \div PerPtPage IN k + f[k]
  IN f[pages]

(* The next level of the page table: pages that hold the addresses of the  *)
(* level below, of which the first holds the data pages.                   *)
vmw_mob_build_pt(level) == Chunks(level, PerPtPage)

(* Levels are built until one is a single page. *)
vmw_mob_pt_setup(s) ==
  LET Level[n \in Nat] == IF n = 0 THEN s ELSE vmw_mob_build_pt(Level[n - 1])
      Used[n \in Nat] == IF n = 0 THEN 0 ELSE Used[n - 1] + Len(Level[n])
      top == CHOOSE n \in 0 .. Len(s) :
               Len(Level[n]) = 1 /\ \A k \in 0 .. n - 1 : Len(Level[k]) # 1
  IN [root |-> Level[top][1], level |-> top, used |-> Used[top]]

Walk(page, level) ==
  LET Below[n \in Nat] == IF n = 0 THEN <<page>> ELSE FlattenSeq(Below[n - 1])
  IN Below[level]

Regions(dma) == Len(Descriptors(dma))
RangeFrom(root, n) == [i \in 1 .. n |-> root + i - 1]

-----------------------------------------------------------------------------
(* Ids.  Without a limit used_gmr_pages goes below zero and is never read: *)
(* it stays at zero here.                                                  *)

Of(b) == PagesOf[b]

GivePages(k, b) == IF gman[k].limit = 0 THEN gman ELSE [gman EXCEPT ![k].used = @ - Of(b)]

vmw_gmrid_man_put_node(k, b, id) == [GivePages(k, b) EXCEPT ![k].ids = @ \ {id}]

-----------------------------------------------------------------------------
(* Dma mappings and memory objects. *)

SgOf(x) == IF bdrv.mode = "phys" THEN 0 ELSE Regions(x.dma)

vmw_ttm_clear(x) == [x EXCEPT !.mob = NoMob, !.dma = <<>>]

(* vmw_ttm_unmap_dma at the end of an unbind. *)
UnmapForBind(x) == IF bdrv.mode = "map_bind" THEN [x EXCEPT !.dma = <<>>] ELSE x

(* vmw_mob_bind up to its command: where the page table is needed and      *)
(* there is none yet, it is built.                                         *)
MobRooted(b, x) ==
  LET t == vmw_mob_pt_setup(x.dma) IN
  IF Of(b) = 1 \/ Regions(x.dma) = 1
  THEN [x EXCEPT !.mob.level = 0, !.mob.root = x.dma[1]]
  ELSE IF x.mob.pt = <<>>
  THEN [x EXCEPT !.mob.level = t.level, !.mob.pt = <<t.root>>, !.ptnew = TRUE]
  ELSE x

(* Level 0 stands for a single page and for a range. *)
MobView(b, x) ==
  IF x.mob.level = 0 THEN RangeFrom(x.mob.root, Of(b))
  ELSE Walk(x.mob.pt[1], x.mob.level)

-----------------------------------------------------------------------------
(* Steps. *)

At(b, step) == be[b].todo # <<>> /\ Head(be[b].todo) = step
Pop(x) == [x EXCEPT !.todo = Tail(@)]
Do(x, steps) == [x EXCEPT !.todo = steps \o Tail(@)]

BindSteps(to) ==
  IF to = "gmr" THEN <<"map", "gmr_bind">>
  ELSE IF to = "mob" THEN <<"map", "mob", "mob_bind">> ELSE <<>>

(* ttm_bo_handle_move_mem, once there is a place.  A copy into vram gives  *)
(* the old id away before the device is told to forget it.                 *)
MoveSteps(x, to) ==
  IF to = "vram"
  THEN <<"copy", "free_old">> \o (IF x.ttm THEN <<"unbind", "destroy">> ELSE <<>>)
       \o <<"moved">>
  ELSE IF x.ttm
  THEN (IF x.mem = "system" THEN <<>> ELSE <<"unbind", "free_old">>)
       \o BindSteps(to) \o <<"moved">>
  ELSE (IF to = "system" THEN <<"add_ttm">> ELSE BindSteps(to)) \o
       (IF x.mem = "vram" THEN <<"copy", "free_old", "moved">> ELSE <<"moved">>)

(* Out of a failed bind: a buffer still in vram loses the ttm again, and   *)
(* the caller gives the new id back.                                       *)
FailSteps(x) == IF x.mem = "vram" THEN <<"unbind", "destroy", "put">> ELSE <<"put">>
Gives(x) == [x EXCEPT !.todo = <<>>, !.to = "system", !.sem = "none"]
Fails(x) == [x EXCEPT !.todo = FailSteps(x), !.ptnew = FALSE]

(* reservation_sem: a move that takes an id, or fills vram, holds it for   *)
(* reading; what takes a buffer out of a gmr into vram is                  *)
(* vmw_dmabuf_to_placement and its like, which hold it for writing; moves  *)
(* to system memory are evictions and the like, under either or none.      *)
SemFor(x, to) ==
  IF to = "system" THEN "none"
  ELSE IF to = "vram" /\ x.mem \in Kinds THEN "write" ELSE "read"

(* Seeded fault: moves into vram are content with the read lock. *)
SemFree_ReadersOnly(b, sem) == TRUE

SemFree(b, sem) ==
  \A c \in Backed \ {b} :
    /\ sem = "write" => be[c].sem = "none"
    /\ sem = "read" => be[c].sem # "write"

(* Somebody has reserved the buffer. *)
ttm_bo_move_buffer(b, to) ==
  /\ be[b].todo = <<>> /\ be[b].mem # to
  /\ SemFree(b, SemFor(be[b], to))
  /\ be' = [be EXCEPT ![b].to = to,
                      ![b].sem = SemFor(be[b], to),
                      ![b].todo = IF to \in Kinds THEN <<"get_pages">>
                                  ELSE MoveSteps(be[b], to)]
  /\ UNCHANGED <<gman, bdrv, gdev>>

(* vmw_gmrid_man_get_node takes and drops its lock around ida_pre_get. *)
vmw_gmrid_man_get_node(b) ==
  /\ At(b, "get_pages")
  /\ LET k == be[b].to
         used == gman[k].used + Of(b)
     IN IF gman[k].limit > 0 /\ used > gman[k].limit
        THEN be' = [be EXCEPT ![b] = Gives(@)] /\ UNCHANGED gman
        ELSE /\ be' = [be EXCEPT ![b] = Do(@, <<"get_id">>)]
             /\ gman' = IF gman[k].limit > 0 THEN [gman EXCEPT ![k].used = used] ELSE gman
  /\ UNCHANGED <<bdrv, gdev>>

GetId(b) ==
  /\ At(b, "get_id")
  /\ LET k == be[b].to
         Free == GmrIds \ gman[k].ids
     IN \/ /\ Free # {}
           /\ LET id == CHOOSE i \in Free : \A j \in Free : i <= j IN
              /\ gman' = [gman EXCEPT ![k].ids = @ \cup {id}]
              /\ be' = [be EXCEPT ![b].new = id, ![b].todo = MoveSteps(be[b], k)]
        \/ /\ Free = {} \/ "nomem" \in BackFaults
           /\ gman' = GivePages(k, b)
           /\ be' = [be EXCEPT ![b] = Gives(@)]
  /\ UNCHANGED <<bdrv, gdev>>

ttm_bo_add_ttm(b) ==
  /\ At(b, "add_ttm")
  /\ be' = [be EXCEPT ![b] = [Pop(@) EXCEPT !.ttm = TRUE, !.state = "unpopulated"]]
  /\ UNCHANGED <<gman, bdrv, gdev>>

(* ttm_bo_add_ttm if need be, ttm_tt_populate and vmw_ttm_map_dma. *)
vmw_ttm_map_dma(b) ==
  /\ At(b, "map")
  /\ \/ /\ be[b].dma # <<>>
        /\ be' = [be EXCEPT ![b] = Pop(@)]
        /\ UNCHANGED bdrv
     \/ /\ be[b].dma = <<>>
        /\ \E dma \in Addresses[Of(b)] :
             /\ be' = [be EXCEPT ![b] = [Pop(@) EXCEPT !.ttm = TRUE, !.dma = dma,
                                                      !.state = "unbound"]]
             /\ bdrv' = [bdrv EXCEPT !.sg = @ + SgOf(be'[b])]
     \/ /\ be[b].dma = <<>> /\ "nomem" \in BackFaults
        /\ \/ be' = [be EXCEPT ![b] = Fails(@)]
           \/ be' = [be EXCEPT ![b] = [Fails(@) EXCEPT !.ttm = TRUE, !.state = "unbound"]]
        /\ UNCHANGED bdrv
  /\ UNCHANGED <<gman, gdev>>

Bound(b, view) ==
  LET k == be[b].to
      id == be[b].new
  IN /\ be' = [be EXCEPT ![b] = [Pop(@) EXCEPT !.state = "bound", !.ptnew = FALSE,
                                               !.mem_type = k, !.gmr_id = id]]
     /\ gdev' = [gdev EXCEPT !.view[k][id] = view,
                             !.clash = @ \/ (k = "mob" /\ gdev.view[k][id] # Nil)
                                         \/ (k = "mob" /\ "mob" \notin bdrv'.otables)]

(* Where descriptors are built there may be no page for them. *)
vmw_gmr_bind(b) ==
  /\ At(b, "gmr_bind")
  /\ \/ bdrv.gmr2 /\ ~gdev.hung /\ Bound(b, vmw_gmr2_bind(be[b].dma))
     \/ ~bdrv.gmr2 /\ Bound(b, vmw_gmr_build_descriptors(be[b].dma))
     \/ /\ IF bdrv.gmr2 THEN gdev.hung ELSE "nomem" \in BackFaults
        /\ be' = [be EXCEPT ![b] = Fails(@)]
        /\ UNCHANGED gdev
  /\ UNCHANGED <<gman, bdrv>>

(* vmw_mob_create, vmw_mob_pt_populate and vmw_mob_pt_setup. *)
vmw_mob_pt_populate(b) ==
  /\ At(b, "mob")
  /\ \/ be' = [be EXCEPT ![b] = MobRooted(b, [Pop(@) EXCEPT !.mob.made = TRUE])]
     \/ /\ "nomem" \in BackFaults
        /\ \E made \in {be[b].mob.made, TRUE} :
             be' = [be EXCEPT ![b] = [Fails(@) EXCEPT !.mob.made = made]]
  /\ UNCHANGED <<gman, bdrv, gdev>>

-----------------------------------------------------------------------------
(* num_3d_resources, and the object tables that come with the device.      *)

vmw_setup_otable_base(have, t) == have \cup {t}
vmw_takedown_otable_base(have, t) == have \ {t}
vmw_otables_setup(have) == FoldSet(LAMBDA t, x : vmw_setup_otable_base(x, t), have, OTables)
vmw_otables_takedown(have) ==
  FoldSet(LAMBDA t, x : vmw_takedown_otable_base(x, t), have, OTables)

(* vmw_mob_bind does not look at whether the device could be requested:    *)
(* that it always can is assumed here.                                     *)
vmw_3d_resource_inc(drv) ==
  [drv EXCEPT !.n3d = @ + 1,
              !.otables = IF drv.n3d = 0 THEN vmw_otables_setup(@) ELSE @]

vmw_3d_resource_dec(drv) ==
  [drv EXCEPT !.n3d = @ - 1,
              !.otables = IF drv.n3d = 1 THEN vmw_otables_takedown(@) ELSE @]

Dec(b) ==
  /\ At(b, "dec")
  /\ bdrv' = vmw_3d_resource_dec(bdrv)
  /\ be' = [be EXCEPT ![b] = Pop(@)]
  /\ UNCHANGED <<gman, gdev>>

(* Masters and resources. *)
Others ==
  /\ bdrv' = IF bdrv.others = 0 THEN vmw_3d_resource_inc([bdrv EXCEPT !.others = 1])
             ELSE vmw_3d_resource_dec([bdrv EXCEPT !.others = 0])
  /\ UNCHANGED <<be, gman, gdev>>

(* The rest of vmw_mob_bind: num_3d_resources and the command. *)
vmw_mob_bind(b) ==
  /\ At(b, "mob_bind")
  /\ bdrv' = vmw_3d_resource_inc(bdrv)
  /\ \/ ~gdev.hung /\ Bound(b, MobView(b, be[b]))
     \/ /\ gdev.hung
        /\ LET x == IF be[b].ptnew THEN [be[b] EXCEPT !.mob.pt = <<>>] ELSE be[b]
           IN be' = [be EXCEPT ![b] = [Fails(x) EXCEPT !.todo = <<"dec">> \o @]]
        /\ UNCHANGED gdev
  /\ UNCHANGED gman

-----------------------------------------------------------------------------
(* Unbinding.  On a device that hangs a gmr stays where it is, and the     *)
(* command of a mob is written through a null pointer: not taken here.     *)

vmw_gmr2_unbind(id) ==
  IF gdev.hung THEN gdev ELSE [gdev EXCEPT !.view["gmr"][id] = Nil]

vmw_gmr_unbind(id) ==
  IF bdrv.gmr2 THEN vmw_gmr2_unbind(id) ELSE [gdev EXCEPT !.view["gmr"][id] = Nil]

vmw_mob_unbind(id) == [gdev EXCEPT !.view["mob"][id] = Nil]

vmw_ttm_unbind(b) ==
  /\ At(b, "unbind")
  /\ LET x == be[b]
         y == UnmapForBind([x EXCEPT !.state = "unbound", !.mem_type = Nil, !.gmr_id = Nil])
     IN \/ /\ x.state # "bound"
           /\ be' = [be EXCEPT ![b] = Pop(@)]
           /\ UNCHANGED <<bdrv, gdev>>
        \/ /\ x.state = "bound" /\ x.mem_type = "gmr"
           /\ be' = [be EXCEPT ![b] = Pop(y)]
           /\ gdev' = vmw_gmr_unbind(x.gmr_id)
           /\ bdrv' = [bdrv EXCEPT !.sg = @ - SgOf(x) + SgOf(y)]
        \/ /\ x.state = "bound" /\ x.mem_type = "mob" /\ ~gdev.hung
           /\ be' = [be EXCEPT ![b] = Do(y, <<"dec">>)]
           /\ gdev' = vmw_mob_unbind(x.gmr_id)
           /\ bdrv' = [bdrv EXCEPT !.sg = @ - SgOf(x) + SgOf(y)]
  /\ UNCHANGED gman

(* The old id goes; ttm_bo_move_ttm leaves the buffer in system memory. *)
ttm_bo_free_old_node(b) ==
  /\ At(b, "free_old")
  /\ LET x == be[b]
         y == [Pop(x) EXCEPT !.id = Nil, !.mem = "system"]
     IN IF x.mem \in Kinds
        THEN be' = [be EXCEPT ![b] = y] /\ gman' = vmw_gmrid_man_put_node(x.mem, b, x.id)
        ELSE be' = [be EXCEPT ![b] = y] /\ UNCHANGED gman
  /\ UNCHANGED <<bdrv, gdev>>

Freed(x) == [vmw_ttm_clear(x) EXCEPT !.state = "unpopulated"]

ttm_tt_destroy(b) ==
  /\ At(b, "destroy")
  /\ be' = [be EXCEPT ![b] = [Pop(Freed(@)) EXCEPT !.ttm = FALSE]]
  /\ bdrv' = [bdrv EXCEPT !.sg = @ - SgOf(be[b])]
  /\ UNCHANGED <<gman, gdev>>

(* ttm_bo_move_memcpy's mappings of both ends. *)
ttm_bo_move_memcpy(b) ==
  /\ At(b, "copy")
  /\ \/ be' = [be EXCEPT ![b] = Pop(@)]
     \/ "nomem" \in BackFaults /\ be' = [be EXCEPT ![b] = Fails(@)]
  /\ UNCHANGED <<gman, bdrv, gdev>>

(* A buffer in system memory is swapped out. *)
ttm_tt_swapout(b) ==
  /\ be[b].todo = <<>> /\ be[b].mem = "system" /\ be[b].state = "unbound"
  /\ be' = [be EXCEPT ![b] = Freed(@)]
  /\ bdrv' = [bdrv EXCEPT !.sg = @ - SgOf(be[b])]
  /\ UNCHANGED <<gman, gdev>>

Moved(b) ==
  /\ At(b, "moved")
  /\ be' = [be EXCEPT ![b] = [Pop(@) EXCEPT !.mem = be[b].to, !.id = be[b].new, !.new = Nil,
                                               !.to = "system", !.sem = "none"]]
  /\ UNCHANGED <<gman, bdrv, gdev>>

ttm_bo_mem_put(b) ==
  /\ At(b, "put")
  /\ be' = [be EXCEPT ![b] = [Pop(@) EXCEPT !.new = Nil, !.to = "system", !.sem = "none"]]
  /\ gman' = IF be[b].new = Nil THEN gman
             ELSE vmw_gmrid_man_put_node(be[b].to, b, be[b].new)
  /\ UNCHANGED <<bdrv, gdev>>

(* ttm_bo_cleanup_memtype_use, and a new buffer in the place of the old. *)
ttm_bo_cleanup_memtype_use(b) ==
  /\ be[b].todo = <<>> /\ be[b] # NewBuffer
  /\ be' = [be EXCEPT ![b].to = "system", ![b].sem = "none", ![b].todo =
              IF be[b].ttm THEN <<"unbind", "destroy", "free_old">> ELSE <<"free_old">>]
  /\ UNCHANGED <<gman, bdrv, gdev>>

Lockup ==
  /\ "lockup" \in BackFaults /\ ~gdev.hung
  /\ gdev' = [gdev EXCEPT !.hung = TRUE]
  /\ UNCHANGED <<be, gman, bdrv>>

BackNext ==
  \/ \E b \in Backed :
       \/ \E to \in {"system", "vram", "gmr", "mob"} : ttm_bo_move_buffer(b, to)
       \/ vmw_gmrid_man_get_node(b) \/ GetId(b) \/ ttm_bo_add_ttm(b)
       \/ vmw_ttm_map_dma(b) \/ vmw_gmr_bind(b) \/ vmw_mob_pt_populate(b) \/ vmw_mob_bind(b)
       \/ ttm_bo_move_memcpy(b) \/ Dec(b) \/ vmw_ttm_unbind(b) \/ ttm_bo_free_old_node(b)
       \/ ttm_tt_destroy(b) \/ ttm_tt_swapout(b) \/ Moved(b) \/ ttm_bo_mem_put(b)
       \/ ttm_bo_cleanup_memtype_use(b)
  \/ Others \/ Lockup

BackSpec == BackInit /\ [][BackNext]_backVars

-----------------------------------------------------------------------------
(* Through an id the device reaches the mapped pages of the buffer bound   *)
(* to it, in their order, and nothing else; what the managers count is     *)
(* what buffers hold.                                                      *)

Holder(k, id) == {b \in Backed : (be[b].mem = k /\ be[b].id = id)
                                  \/ (be[b].to = k /\ be[b].new = id)}
PlaceOf(b) == <<be[b].mem_type, be[b].gmr_id>>
IsBound(b) == be[b].state = "bound"

DeviceSeesPages ==
  /\ \A b \in Backed : IsBound(b) =>
       be[b].dma # <<>> /\ gdev.view[PlaceOf(b)[1]][PlaceOf(b)[2]] = be[b].dma
  /\ gdev.hung \/ \A k \in Kinds, id \in GmrIds : gdev.view[k][id] # Nil =>
       \E b \in Backed : IsBound(b) /\ PlaceOf(b) = <<k, id>>
  /\ ~gdev.clash

IdsAreHeld ==
  \A k \in Kinds :
    /\ \A id \in GmrIds : Cardinality(Holder(k, id)) = IF id \in gman[k].ids THEN 1 ELSE 0
    /\ gman[k].limit > 0 =>
         /\ gman[k].used <= gman[k].limit
         /\ gman[k].used = MapThenSumSet(LAMBDA b :
              (IF be[b].mem = k /\ be[b].id # Nil THEN Of(b) ELSE 0)
                + (IF be[b].to = k /\ (be[b].new # Nil \/ At(b, "get_id"))
                   THEN Of(b) ELSE 0),
              Backed)

CountsAreExact ==
  /\ bdrv.sg = MapThenSumSet(LAMBDA b : SgOf(be[b]), Backed)
  /\ bdrv.n3d = bdrv.others + Cardinality({b \in Backed :
       (IsBound(b) /\ PlaceOf(b)[1] = "mob") \/ At(b, "dec")})
  /\ \A b \in Backed : be[b].dma # <<>> =>
       vmw_mob_pt_setup(be[b].dma).used = vmw_mob_calculate_pt_pages(Of(b))

BackingAgrees == DeviceSeesPages /\ IdsAreHeld /\ CountsAreExact
=============================================================================
