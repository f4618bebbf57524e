------------------------------- MODULE MCDevice -------------------------------
(***************************************************************************)
(* The parts of the driver around the device that share no state, side by  *)
(* side: each behaviour is one of the part that the variable part names,   *)
(* and the variables of the other parts are idle, so that the reachable    *)
(* states of the parts add up.  The console, when it is idle, stays in its *)
(* initial state, so that its property is the one DisplayProof is about.   *)
(***************************************************************************)
EXTENDS Integers, FiniteSets, TLC, VmwFb

CONSTANTS Idle,
  Files, Masters, Root, Render, Groups, Faults, NoFile, NoMaster, Fbdev,
  LoadFaults, Taken,
  KFiles, Units, CursorUnits, Fbs, Bufs, Videos, Sizes, Vram, KmsFaults, None,
  Screens, FbWidth, FbHeight, Clips, Positions, DisplaySizes, Offsets, Annotations

(* The markers are nobody's name. *)
ASSUME FilesAssumption ==
  /\ IsFiniteSet(Files) /\ NoFile \notin Files /\ Groups \subseteq SUBSET Files
  /\ Masters \cap {NoMaster, Fbdev} = {} /\ NoMaster # Fbdev

(* No device has endlessly many display units or framebuffers. *)
ASSUME KmsAssumption ==
  /\ IsFiniteSet(Units) /\ IsFiniteSet(Fbs) /\ CursorUnits \subseteq Units
  /\ None \notin KFiles \cup Fbs \cup Bufs \cup Videos \cup {"freed"}

(* Places, sizes and rectangles are in whole pixels. *)
ASSUME BlitAssumption ==
  /\ Screens \in Nat /\ FbWidth \in Int /\ FbHeight \in Int
  /\ Clips \subseteq [x1 : Int, y1 : Int, x2 : Int, y2 : Int]
  /\ Positions \subseteq Int \X Int /\ DisplaySizes \subseteq Int \X Int
  /\ Offsets \subseteq Int \X Int

VARIABLES part,
  mfile, mast, mdev,
  load,
  kfb, kcrtc, kobj, kstrm, kdrv, kdev,
  unit, blit, moved

M == INSTANCE VmwMaster
L == INSTANCE VmwLoad
K == INSTANCE VmwKms
B == INSTANCE VmwBlit

masterVars == <<mfile, mast, mdev>>
kmsVars == <<kfb, kcrtc, kobj, kstrm, kdrv, kdev>>
blitVars == <<unit, blit, moved>>
vars == <<part, masterVars, load, kmsVars, fbVars, blitVars>>

MasterIdle == mfile = Idle /\ mast = Idle /\ mdev = Idle
LoadIdle == load = Idle
KmsIdle == kfb = Idle /\ kcrtc = Idle /\ kobj = Idle /\ kstrm = Idle /\ kdrv = Idle
           /\ kdev = Idle
BlitIdle == unit = Idle /\ blit = Idle /\ moved = Idle

Init ==
  /\ part \in {"master", "load", "kms", "fb", "blit"}
  /\ IF part = "master" THEN M!MasterInit ELSE MasterIdle
  /\ IF part = "load" THEN L!LoadInit ELSE LoadIdle
  /\ IF part = "kms" THEN K!KmsInit ELSE KmsIdle
  /\ FbInit
  /\ IF part = "blit" THEN B!BlitInit ELSE BlitIdle

Next ==
  \/ /\ part = "master" /\ M!MasterNext
     /\ UNCHANGED <<part, load, kmsVars, fbVars, blitVars>>
  \/ /\ part = "load" /\ L!LoadNext
     /\ UNCHANGED <<part, masterVars, kmsVars, fbVars, blitVars>>
  \/ /\ part = "kms" /\ K!KmsNext
     /\ UNCHANGED <<part, masterVars, load, fbVars, blitVars>>
  \/ /\ part = "fb" /\ FbNext
     /\ UNCHANGED <<part, masterVars, load, kmsVars, blitVars>>
  \/ /\ part = "blit" /\ B!BlitNext
     /\ UNCHANGED <<part, masterVars, load, kmsVars, fbVars>>

Spec == Init /\ [][Next]_vars

-----------------------------------------------------------------------------
(* The instance. *)

(* One pair of model values names the masters and the framebuffers: every  *)
(* state is of one part, and exchanging the two exchanges these alone.     *)
Sym == Permutations(Fbs)

ClipsDef ==
  {[x1 |-> 0, y1 |-> 0, x2 |-> 2, y2 |-> 1], [x1 |-> 1, y1 |-> 0, x2 |-> 3, y2 |-> 2],
   [x1 |-> 2, y1 |-> 1, x2 |-> 3, y2 |-> 2], [x1 |-> 0, y1 |-> 1, x2 |-> 1, y2 |-> 2],
   [x1 |-> 0, y1 |-> 0, x2 |-> 1, y2 |-> 2]}
PositionsDef == {<<0, 0>>, <<1, 0>>, <<1, 1>>}
DisplaySizesDef == {<<2, 1>>, <<1, 2>>, <<2, 2>>}
OffsetsDef == {<<0, 0>>, <<1, 0>>, <<-1, 1>>}

-----------------------------------------------------------------------------
(* References to masters match their holders: the minor, the files opened  *)
(* under it and the one that dropped it (drm_open_helper, vmw_master_set). *)
MasterRefs == part = "master" => M!MasterRefs

(* A client is inside an ioctl only while its master is the active one     *)
(* (vmw_master_check, vmw_master_drop, vmw_postclose).                     *)
ClientsNeedMaster == part = "master" => M!ClientsNeedMaster

(* The fifo runs exactly while somebody counts on it, through suspend and  *)
(* changes of master (vmw_3d_resource_inc and -dec).                       *)
ThreeDBalanced == part = "master" => M!ThreeDBalanced

(* A failed load and an unload release everything of the driver once       *)
(* (vmw_driver_load, vmw_driver_unload, drm_get_dev).                      *)
LoadUnwinds == part = "load" => L!LoadUnwinds

(* What the device shows or streams is alive and pinned where the device   *)
(* was told to look for it (vmw_framebuffer_pin, vmw_overlay_stop,         *)
(* drm_framebuffer_cleanup).                                               *)
ShownIsHeld == part = "kms" => K!ShownIsHeld

(* A dirty ioctl updates every pixel of the clips that a screen shows, at  *)
(* its place (vmw_clip_cliprects, do_surface_dirty_sou).                   *)
DamageShown == part = "blit" => B!DamageShown
=============================================================================
