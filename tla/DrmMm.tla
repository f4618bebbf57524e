--------------------------------- MODULE DrmMm ---------------------------------
(***************************************************************************)
(* The range allocator of drm_mm.c with its two users: the manager of vram *)
(* (ttm_bo_manager.c), which takes the best hole for an alignment and a    *)
(* range, and the address space of buffers (ttm_bo_setup_vm), which takes  *)
(* the first hole on the free stack.                                       *)
(*                                                                         *)
(* A node is known by its start.  Each user allocates one block or frees   *)
(* it; under the lock of the space nothing interleaves, but between        *)
(* drm_mm_pre_get and the lock everything does.                            *)
(***************************************************************************)
EXTENDS Integers, SequencesExt

CONSTANTS
  MmSize,        \* size of the range
  MmUsers,       \* buffers that come and go
  MmRequests,    \* [size, align, from, to] they may ask for
  UnusedTarget,  \* MM_UNUSED_TARGET
  MmFaults       \* "kernel", "atomic" (allocations), "stale" (see kmalloc)

VARIABLES
  mm,            \* drm_mm: node_list, free_stack, unused_nodes; best_match
  user           \* each buffer's request, where it is in it, and its block

mmVars == <<mm, user>>

Gone == [pc |-> "none", req |-> [size |-> 0, align |-> 0, from |-> 0, to |-> 0],
         start |-> -1]

NodeAt(m, s) == CHOOSE i \in DOMAIN m.node_list : m.node_list[i].start = s

-----------------------------------------------------------------------------
(* Transforms of a drm_mm; a set of them where an allocation may fail, an  *)
(* outcome [ok, m, free] each.                                             *)

(* A node of unused_nodes keeps the free flag that it had, and nobody      *)
(* clears it: without "stale" such a node is not handed out set.           *)
drm_mm_kmalloc(m) ==
  {[ok |-> TRUE, m |-> m, free |-> FALSE]} \cup
  (IF "atomic" \notin MmFaults THEN {}
   ELSE IF m.unused_nodes = <<>> THEN {[ok |-> FALSE, m |-> m, free |-> FALSE]}
   ELSE IF Head(m.unused_nodes) /\ "stale" \notin MmFaults THEN {}
   ELSE {[ok |-> TRUE, m |-> [m EXCEPT !.unused_nodes = Tail(@)],
          free |-> Head(m.unused_nodes)]})

drm_mm_create_tail_node(m, start, size) ==
  [m EXCEPT !.node_list = Append(@, [start |-> start, size |-> size, free |-> TRUE]),
            !.free_stack = Append(@, start)]

(* The new node comes before its parent, which shrinks in its place. *)
Split(m, i, size, free) ==
  LET p == m.node_list[i]
      child == [start |-> p.start, size |-> size, free |-> free]
      rest == [p EXCEPT !.start = @ + size, !.size = @ - size]
  IN [m EXCEPT !.node_list = SubSeq(@, 1, i - 1) \o <<child, rest>>
                             \o SubSeq(@, i + 1, Len(@)),
               !.free_stack = [k \in DOMAIN @ |-> IF @[k] = p.start THEN rest.start ELSE @[k]]]

drm_mm_split_at_start(m, start, size) ==
  {[k EXCEPT !.m = IF k.ok THEN Split(k.m, NodeAt(k.m, start), size, k.free) ELSE @] :
     k \in drm_mm_kmalloc(m)}

Unused(m, free) ==
  IF Len(m.unused_nodes) < UnusedTarget
  THEN [m EXCEPT !.unused_nodes = <<free>> \o @] ELSE m

Drop(s, i) == SubSeq(s, 1, i - 1) \o SubSeq(s, i + 1, Len(s))
Unstack(m, start) ==
  LET at == {k \in DOMAIN m.free_stack : m.free_stack[k] = start} IN
  IF at = {} THEN m ELSE [m EXCEPT !.free_stack = Drop(@, CHOOSE k \in at : TRUE)]

(* The node before is free: it grows by this one and, where that is free   *)
(* as well, by the next.                                                   *)
MergePrev(m, i, both) ==
  LET n == m.node_list
      size == n[i - 1].size + n[i].size + (IF both THEN n[i + 1].size ELSE 0)
      grown == [m EXCEPT !.node_list[i - 1].size = size]
  IN IF both
     THEN LET nomore == Unstack([grown EXCEPT !.node_list = Drop(@, i + 1)], n[i + 1].start)
          IN [Unused(nomore, TRUE) EXCEPT !.node_list = Drop(@, i)]
     ELSE [grown EXCEPT !.node_list = Drop(@, i)]

MergeNext(m, i) ==
  LET c == m.node_list[i]
      next == m.node_list[i + 1]
      grown == [next EXCEPT !.start = c.start, !.size = @ + c.size]
  IN [m EXCEPT !.node_list = Drop([@ EXCEPT ![i + 1] = grown], i),
               !.free_stack = [k \in DOMAIN @ |->
                                 IF @[k] = next.start THEN c.start ELSE @[k]]]

(* Seeded fault: a neighbour after a merged one is not merged as well. *)
drm_mm_put_block_NotBoth(m, start) ==
  LET i == NodeAt(m, start)
      n == m.node_list
      Free(j) == j \in DOMAIN n /\ n[j].free
  IN IF Free(i - 1) THEN Unused(MergePrev(m, i, FALSE), n[i].free)
     ELSE IF Free(i + 1) THEN Unused(MergeNext(m, i), n[i].free)
     ELSE [m EXCEPT !.node_list[i].free = TRUE, !.free_stack = <<start>> \o @]

drm_mm_put_block(m, start) ==
  LET i == NodeAt(m, start)
      n == m.node_list
      Free(j) == j \in DOMAIN n /\ n[j].free
  IN IF Free(i - 1) THEN Unused(MergePrev(m, i, Free(i + 1)), n[i].free)
     ELSE IF Free(i + 1) THEN Unused(MergeNext(m, i), n[i].free)
     ELSE [m EXCEPT !.node_list[i].free = TRUE, !.free_stack = <<start>> \o @]

-----------------------------------------------------------------------------
(* Holes. *)

Tmp(start, align) == IF align = 0 THEN 0 ELSE start % align

check_free_hole(start, end, size, align) ==
  LET tmp == Tmp(start, align)
      wasted == IF tmp = 0 THEN 0 ELSE align - tmp
  IN end - start >= size /\ end >= start + size + wasted

Larger(i, j) == IF i > j THEN i ELSE j
Smaller(i, j) == IF i < j THEN i ELSE j

(* The free stack has the holes; those a request fits in, by position. *)
HoleAt(m, k) == m.node_list[NodeAt(m, m.free_stack[k])]

drm_mm_search_free_in_range(m, r) ==
  {k \in DOMAIN m.free_stack :
     LET e == HoleAt(m, k) IN
     check_free_hole(Larger(e.start, r.from), Smaller(e.start + e.size, r.to), r.size, r.align)}

drm_mm_search_free(m, r) ==
  {k \in DOMAIN m.free_stack :
     LET e == HoleAt(m, k) IN check_free_hole(e.start, e.start + e.size, r.size, r.align)}

(* The smallest of the holes, the first one of that size. *)
Best(m, holes) ==
  CHOOSE k \in holes : \A l \in holes :
    \/ HoleAt(m, k).size < HoleAt(m, l).size
    \/ HoleAt(m, k).size = HoleAt(m, l).size /\ k <= l
First(holes) == CHOOSE k \in holes : \A l \in holes : k <= l

(* Where the hole starts; -1 for none. *)
Search(m, r) ==
  LET holes == IF m.best THEN drm_mm_search_free_in_range(m, r) ELSE drm_mm_search_free(m, r)
  IN IF holes = {} THEN -1
     ELSE m.free_stack[IF m.best THEN Best(m, holes) ELSE First(holes)]

(* What is split off in front of the block. *)
drm_mm_get_block_generic(m, start, r) ==
  LET tmp == Tmp(start, r.align) IN IF tmp = 0 THEN 0 ELSE r.align - tmp

drm_mm_get_block_range_generic(m, start, r) ==
  LET ahead == IF start < r.from THEN r.from - start ELSE 0
      tmp == Tmp(start + ahead, r.align)
  IN IF tmp = 0 THEN ahead ELSE ahead + r.align - tmp

Wasted(m, start, r) ==
  IF m.best THEN drm_mm_get_block_range_generic(m, start, r)
  ELSE drm_mm_get_block_generic(m, start, r)

(* The hole becomes the block or the block is split off it. *)
TakeHole(m, start, r) ==
  LET i == NodeAt(m, start) IN
  IF m.node_list[i].size = r.size
  THEN {[ok |-> TRUE, m |-> Unstack([m EXCEPT !.node_list[i].free = FALSE], start),
         free |-> FALSE]}
  ELSE drm_mm_split_at_start(m, start, r.size)

(* The rest of both functions. *)
GetBlock(m, start, r) ==
  LET wasted == Wasted(m, start, r) IN
  IF wasted = 0 THEN TakeHole(m, start, r)
  ELSE UNION {IF ~a.ok THEN {a}
              ELSE {[t EXCEPT !.m = drm_mm_put_block(@, start)] :
                      t \in TakeHole(a.m, start + wasted, r)} :
              a \in drm_mm_split_at_start(m, start, wasted)}

-----------------------------------------------------------------------------
(* The users. *)

MmInit ==
  /\ \E best \in BOOLEAN :
       mm = drm_mm_create_tail_node([node_list |-> <<>>, free_stack |-> <<>>,
                                     unused_nodes |-> <<>>, best |-> best], 0, MmSize)
  /\ user = [u \in MmUsers |-> Gone]

Ask(u, r) ==
  /\ user[u].pc = "none" /\ mm.node_list # <<>>
  /\ user' = [user EXCEPT ![u].pc = "pre_get", ![u].req =
                IF mm.best THEN r ELSE [r EXCEPT !.align = 0, !.from = 0, !.to = MmSize]]
  /\ UNCHANGED mm

(* drm_mm_pre_get gives unused_lock up for every allocation. *)
drm_mm_pre_get(u) ==
  /\ user[u].pc = "pre_get"
  /\ user' = [user EXCEPT ![u].pc =
                IF Len(mm.unused_nodes) < UnusedTarget THEN "kzalloc" ELSE "search"]
  /\ UNCHANGED mm

PreGot(u) ==
  /\ user[u].pc = "kzalloc"
  /\ \/ /\ mm' = [mm EXCEPT !.unused_nodes = Append(@, FALSE)]
        /\ user' = [user EXCEPT ![u].pc = "pre_get"]
     \/ /\ "kernel" \in MmFaults
        /\ user' = [user EXCEPT ![u] = IF Len(mm.unused_nodes) < 2 THEN Gone
                                       ELSE [@ EXCEPT !.pc = "search"]]
        /\ UNCHANGED mm

(* ttm_bo_man_get_node and ttm_bo_setup_vm, under their locks. *)
ttm_bo_man_get_node(u) ==
  /\ user[u].pc = "search"
  /\ LET r == user[u].req
         hole == Search(mm, r)
     IN \/ hole = -1 /\ user' = [user EXCEPT ![u] = Gone] /\ UNCHANGED mm
        \/ /\ hole # -1
           /\ \E t \in GetBlock(mm, hole, r) :
                /\ mm' = t.m
                /\ user' = IF t.ok THEN [user EXCEPT ![u].pc = "has",
                                                     ![u].start = hole + Wasted(mm, hole, r)]
                           ELSE [user EXCEPT ![u].pc = "pre_get"]

ttm_bo_man_put_node(u) ==
  /\ user[u].pc = "has"
  /\ mm' = drm_mm_put_block(mm, user[u].start)
  /\ user' = [user EXCEPT ![u] = Gone]

drm_mm_clean(m) == Len(m.node_list) = 1

(* drm_mm_takedown takes the first of free_stack for the last node. *)
ttm_bo_man_takedown ==
  /\ \A u \in MmUsers : user[u] = Gone
  /\ drm_mm_clean(mm)
  /\ mm' = [mm EXCEPT !.node_list = <<>>, !.free_stack = <<>>, !.unused_nodes = <<>>]
  /\ UNCHANGED user

MmStopped == mm.node_list = <<>> /\ UNCHANGED mmVars

MmNext ==
  \/ \E u \in MmUsers :
       \/ \E r \in MmRequests : Ask(u, r)
       \/ drm_mm_pre_get(u) \/ PreGot(u)
       \/ ttm_bo_man_get_node(u) \/ ttm_bo_man_put_node(u)
  \/ ttm_bo_man_takedown \/ MmStopped

MmSpec == MmInit /\ [][MmNext]_mmVars

-----------------------------------------------------------------------------
(* The nodes tile the range; the blocks that users hold, sized, aligned    *)
(* and placed as asked, are the nodes in use, and the others are the free  *)
(* stack, no two of them next to each other.                               *)

Tiled ==
  LET n == mm.node_list IN
  /\ n[1].start = 0 /\ Last(n).start + Last(n).size = MmSize
  /\ \A i \in DOMAIN n : n[i].size > 0
  /\ \A i \in 1 .. Len(n) - 1 :
       n[i].start + n[i].size = n[i + 1].start /\ ~(n[i].free /\ n[i + 1].free)

Holders == {u \in MmUsers : user[u].pc = "has"}

BlocksAreHeld ==
  /\ {mm.node_list[i].start : i \in {j \in DOMAIN mm.node_list : ~mm.node_list[j].free}}
       = {user[u].start : u \in Holders}
  /\ \A u \in Holders :
       LET r == user[u].req IN
       /\ \E i \in DOMAIN mm.node_list :
            mm.node_list[i].start = user[u].start /\ mm.node_list[i].size = r.size
       /\ Tmp(user[u].start, r.align) = 0
       /\ user[u].start >= r.from /\ user[u].start + r.size <= r.to
       /\ \A v \in Holders \ {u} : user[v].start # user[u].start

FreeIsStacked ==
  /\ IsInjective(mm.free_stack)
  /\ ToSet(mm.free_stack)
       = {mm.node_list[i].start : i \in {j \in DOMAIN mm.node_list : mm.node_list[j].free}}

MmTiles == mm.node_list # <<>> => Tiled /\ BlocksAreHeld /\ FreeIsStacked
=============================================================================
