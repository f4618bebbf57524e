------------------------------- MODULE MCMemory -------------------------------
(***************************************************************************)
(* The memory of buffers, where the device finds it, ranges of vram and of *)
(* the address space, and mappings: side by side, as in MCDevice.  The     *)
(* zones and pages, when they are idle, stay in their initial state, so    *)
(* that their property holds whichever part runs.                          *)
(***************************************************************************)
EXTENDS Integers, TLC, TtmMemory

CONSTANTS Idle,
  Backed, PagesOf, Addresses, GmrIds, PageLimits, MapModes, PerRemap, PerDescPage,
  PerPtPage, BackFaults, Nil,
  MmSize, MmUsers, MmRequests, UnusedTarget, MmFaults,
  Vbufs, Vmas, BufPages, Addrs, MapFrom, Slots, PhysPages, Prefault, NoOne

(* No device has endlessly many mappings; the markers are nobody's name. *)
ASSUME VmAssumption ==
  /\ IsFiniteSet(Vmas) /\ BufPages \in Nat /\ PhysPages \in Nat /\ Prefault \in Nat
  /\ Addrs \subseteq Int /\ Slots \subseteq Nat
  /\ NoOne \notin Vbufs \cup Vmas \cup {"mover"} /\ "mover" \notin Vmas

(* drm_mm_init gets a range; ttm_bo_init refuses a buffer without pages. *)
ASSUME MmAssumption ==
  /\ MmSize \in Nat \ {0} /\ UnusedTarget \in Nat
  /\ MmRequests \subseteq [size : Nat \ {0}, align : Nat, from : Nat, to : Nat]

VARIABLES part,
  be, gman, bdrv, gdev,
  mm, user,
  vbo, vma

G == INSTANCE VmwBacking
R == INSTANCE DrmMm
V == INSTANCE TtmVm

backVars == <<be, gman, bdrv, gdev>>
mmVars == <<mm, user>>
vmVars == <<vbo, vma>>
vars == <<part, memVars, backVars, mmVars, vmVars>>

BackIdle == be = Idle /\ gman = Idle /\ bdrv = Idle /\ gdev = Idle
MmIdle == mm = Idle /\ user = Idle
VmIdle == vbo = Idle /\ vma = Idle

Init ==
  /\ part \in {"mem", "back", "mm", "vm"}
  /\ MemInit
  /\ IF part = "back" THEN G!BackInit ELSE BackIdle
  /\ IF part = "mm" THEN R!MmInit ELSE MmIdle
  /\ IF part = "vm" THEN V!VmInit ELSE VmIdle

Next ==
  \/ /\ part = "mem" /\ MemNext
     /\ UNCHANGED <<part, backVars, mmVars, vmVars>>
  \/ /\ part = "back" /\ G!BackNext
     /\ UNCHANGED <<part, memVars, mmVars, vmVars>>
  \/ /\ part = "mm" /\ R!MmNext
     /\ UNCHANGED <<part, memVars, backVars, vmVars>>
  \/ /\ part = "vm" /\ V!VmNext
     /\ UNCHANGED <<part, memVars, backVars, mmVars>>

Spec == Init /\ [][Next]_vars

-----------------------------------------------------------------------------
(* The instance. *)

(* One pair of model values names the buffers, their mappings and two of   *)
(* the three users of a range: every state is of one part, and exchanging  *)
(* the two exchanges these alone.                                          *)
Sym == Permutations(Tbufs)

PagesOfDef == [b \in Backed |-> IF b = CHOOSE x \in Backed : TRUE THEN 3 ELSE 1]
AddressesDef == [n \in {1, 3} |-> IF n = 1 THEN {<<5>>} ELSE {<<4, 1, 2>>}]
MmRequestsDef ==
  {[size |-> 1, align |-> 0, from |-> 0, to |-> 5],
   [size |-> 2, align |-> 2, from |-> 0, to |-> 5],
   [size |-> 1, align |-> 2, from |-> 1, to |-> 4],
   [size |-> 2, align |-> 0, from |-> 0, to |-> 3]}

-----------------------------------------------------------------------------
(* The pages that the device finds for a gmr or a mob are those of its     *)
(* buffer, and ids and page counts are those of the buffers that have them *)
(* (vmw_ttm_bind, vmw_gmr_bind, vmw_mob_bind, vmw_gmrid_man_get_node).     *)
BackingAgrees == part = "back" => G!BackingAgrees

(* The blocks of a range are disjoint, placed as asked and in use exactly  *)
(* while somebody holds them; what is free is one hole wherever it can be  *)
(* (drm_mm_put_block, drm_mm_get_block_range_generic).                     *)
MmTiles == part = "mm" => R!MmTiles

(* A process sees the right page of its buffer wherever that is, nothing   *)
(* of a buffer that is being copied (ttm_bo_unmap_virtual,                 *)
(* ttm_bo_vm_fault), and keeps the buffer alive.                           *)
MappedWhereItIs == part = "vm" => V!MappedWhereItIs
=============================================================================
