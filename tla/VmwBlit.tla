------------------------------- MODULE VmwBlit --------------------------------
(***************************************************************************)
(* Bringing the damage of a framebuffer to the display units that show     *)
(* parts of it, and back (vmwgfx_kms.c): the dirtyfb ioctl on surface and  *)
(* user buffer framebuffers, for screen objects and for legacy display     *)
(* units, and the present and readback ioctls.  One submission is made per *)
(* unit, and each may fail.                                                *)
(*                                                                         *)
(* Pixels are pairs.  What the device did is kept as pairs of a pixel of   *)
(* the framebuffer or surface and a pixel of the screen.  Coordinates are  *)
(* far below the 2^16 of struct drm_clip_rect.                             *)
(***************************************************************************)
EXTENDS Integers, Sequences, FiniteSetsExt

CONSTANTS
  Screens,       \* how many display units, numbered from 1
  FbWidth, FbHeight,
  Clips,         \* the clip rectangles a client may give
  Positions,     \* of a unit in the framebuffer
  DisplaySizes,  \* of the modes of a unit
  Offsets,       \* destinations of a present
  Annotations    \* subset of BOOLEAN: copies are annotated

VARIABLES
  unit,          \* struct vmw_display_unit: x, y, mode, whether it shows the fb
  blit,          \* the ioctl under way
  moved          \* per unit, the pixels that were moved

blitVars == <<unit, blit, moved>>

RectAt(x1, y1, x2, y2) == [x1 |-> x1, y1 |-> y1, x2 |-> x2, y2 |-> y2]
Inside(r) == (r.x1 .. r.x2 - 1) \X (r.y1 .. r.y2 - 1)
Covered(rects) == UNION {Inside(rects[i]) : i \in DOMAIN rects}
LeastOf(a, b) == IF a < b THEN a ELSE b
MostOf(a, b) == IF a < b THEN b ELSE a

(* vmw_ldu_crtc_set_config and vmw_sou_crtc_set_config keep a mode inside  *)
(* its framebuffer.                                                        *)
UnitStates ==
  {u \in [shows : BOOLEAN, at : Positions, size : DisplaySizes] :
     u.at[1] + u.size[1] <= FbWidth /\ u.at[2] + u.size[2] <= FbHeight}

Idle0 == [op |-> "none", clips |-> <<>>, copy |-> FALSE, to |-> <<0, 0>>, k |-> 0,
          ok |-> TRUE]

BlitInit ==
  /\ unit \in [1 .. Screens -> UnitStates]
  /\ blit = Idle0
  /\ moved = [k \in 1 .. Screens |-> {}]

-----------------------------------------------------------------------------
(* Clip rectangles. *)

WholeFb == RectAt(0, 0, FbWidth, FbHeight)
EverySecond(clips) == [i \in 1 .. Len(clips) \div 2 |-> clips[2 * i - 1]]

(* What vmw_framebuffer_surface_dirty and -dmabuf_dirty go through. *)
DirtyClips ==
  IF blit.clips = <<>> THEN <<WholeFb>>
  ELSE IF blit.copy THEN EverySecond(blit.clips) ELSE blit.clips

Bounding(clips) ==
  LET R == {clips[i] : i \in DOMAIN clips}
  IN RectAt(Min({r.x1 : r \in R}), Min({r.y1 : r \in R}),
            Max({r.x2 : r \in R}), Max({r.y2 : r \in R}))

Shifted(r, x, y) == RectAt(r.x1 + x, r.y1 + y, r.x2 + x, r.y2 + y)

(* The box of the clips, relative to a unit, misses its screen. *)
Misses(clip, u) ==
  clip.x1 >= u.size[1] \/ clip.y1 >= u.size[2] \/ clip.x2 <= 0 \/ clip.y2 <= 0

(* Seeded fault: rectangles are clipped on their left side alone. *)
vmw_clip_cliprects_LeftOnly(rects, clip) ==
  [i \in DOMAIN rects |->
     RectAt(MostOf(clip.x1, rects[i].x1), MostOf(clip.y1, rects[i].y1),
            rects[i].x2, rects[i].y2)]

(* Empty rectangles are dropped by the code; here they hold no pixel. *)
vmw_clip_cliprects(rects, clip) ==
  [i \in DOMAIN rects |->
     RectAt(MostOf(clip.x1, rects[i].x1), MostOf(clip.y1, rects[i].y1),
            LeastOf(clip.x2, rects[i].x2), LeastOf(clip.y2, rects[i].y2))]

-----------------------------------------------------------------------------
(* The blits of one unit. *)

(* The device draws every pixel of the clip rectangles, which are relative *)
(* to the destination rectangle.                                           *)
BLIT_SURFACE_TO_SCREEN(srcRect, destRect, rects) ==
  {<<<<srcRect.x1 + p[1], srcRect.y1 + p[2]>>,
     <<destRect.x1 + p[1], destRect.y1 + p[2]>>>> : p \in Covered(rects)}

(* vmw_kms_present, and do_surface_dirty_sou without a destination. *)
vmw_kms_present(clips, to, u) ==
  LET box == Bounding(clips)
      tmp == [i \in DOMAIN clips |-> Shifted(clips[i], -box.x1, -box.y1)]
      dest == Shifted(box, to[1] - u.at[1], to[2] - u.at[2])
      clip == RectAt(0 - dest.x1, 0 - dest.y1,
                     u.size[1] - dest.x1, u.size[2] - dest.y1)
  IN IF Misses(dest, u) THEN {}
     ELSE BLIT_SURFACE_TO_SCREEN(box, dest, vmw_clip_cliprects(tmp, clip))

do_surface_dirty_sou(clips, u) == vmw_kms_present(clips, <<0, 0>>, u)

BLIT_GMRFB_TO_SCREEN(origin, destRect) ==
  {<<<<origin[1] + d[1] - destRect.x1, origin[2] + d[2] - destRect.y1>>, d>> :
     d \in Inside(destRect)}

(* One rectangle of do_dmabuf_dirty_sou. *)
GmrfbToScreen(c, u) ==
  LET clip == Shifted(c, -u.at[1], -u.at[2])
      move == <<LeastOf(clip.x1, 0), LeastOf(clip.y1, 0)>>
  IN IF Misses(clip, u) THEN {}
     ELSE BLIT_GMRFB_TO_SCREEN(<<c.x1 - move[1], c.y1 - move[2]>>,
            RectAt(clip.x1 - move[1], clip.y1 - move[2],
                   LeastOf(clip.x2, u.size[1]), LeastOf(clip.y2, u.size[2])))

BLIT_SCREEN_TO_GMRFB(srcRect, dest) ==
  {<<<<dest[1] + s[1] - srcRect.x1, dest[2] + s[2] - srcRect.y1>>, s>> :
     s \in Inside(srcRect)}

(* One rectangle of vmw_kms_readback. *)
ScreenToGmrfb(c, u) ==
  LET at == Shifted(c, -u.at[1], -u.at[2])
      dest == <<IF at.x1 < 0 THEN c.x1 + (-at.x1) ELSE c.x1,
                IF at.y1 < 0 THEN c.y1 + (-at.y1) ELSE c.y1>>
      clip == RectAt(MostOf(at.x1, 0), MostOf(at.y1, 0),
                     LeastOf(at.x2, u.size[1]), LeastOf(at.y2, u.size[2]))
  IN IF Misses(clip, u) THEN {} ELSE BLIT_SCREEN_TO_GMRFB(clip, dest)

(* SVGA_CMD_UPDATE takes the coordinates of vram, where the framebuffer    *)
(* of all legacy units starts: a unit shows what is updated on it.         *)
UPDATE(c, u) ==
  {<<p, <<p[1] - u.at[1], p[2] - u.at[2]>>>> :
     p \in Inside(c) \cap Inside(RectAt(u.at[1], u.at[2], u.at[1] + u.size[1],
                                        u.at[2] + u.size[2]))}

Each(Op(_, _), clips, u) == UNION {Op(clips[i], u) : i \in DOMAIN clips}

BlitsOf(k) ==
  LET u == unit[k] IN
  CASE blit.op = "surface_dirty" -> do_surface_dirty_sou(DirtyClips, u)
    [] blit.op = "dmabuf_dirty_sou" -> Each(GmrfbToScreen, DirtyClips, u)
    [] blit.op = "dmabuf_dirty_ldu" -> Each(UPDATE, DirtyClips, u)
    [] blit.op = "present" -> vmw_kms_present(blit.clips, blit.to, u)
    [] blit.op = "readback" -> Each(ScreenToGmrfb, blit.clips, u)

-----------------------------------------------------------------------------
(* The ioctls. *)

Start(op, clips, copy, to) ==
  /\ blit.k = 0
  /\ blit' = [op |-> op, clips |-> clips, copy |-> copy, to |-> to, k |-> 1, ok |-> TRUE]
  /\ moved' = [k \in 1 .. Screens |-> {}]
  /\ UNCHANGED unit

SomeClips == {<<r>> : r \in Clips} \cup {<<r, s>> : r, s \in Clips}
SameSize(r, s) == r.x2 - r.x1 = s.x2 - s.x1 /\ r.y2 - r.y1 = s.y2 - s.y1

drm_mode_dirtyfb_ioctl ==
  \E op \in {"surface_dirty", "dmabuf_dirty_sou", "dmabuf_dirty_ldu"},
     clips \in SomeClips \cup {<<>>}, copy \in Annotations :
    /\ copy => Len(clips) = 2 /\ SameSize(clips[1], clips[2])
    /\ Start(op, clips, copy, <<0, 0>>)

vmw_present_ioctl ==
  \E clips \in SomeClips, to \in Offsets : Start("present", clips, FALSE, to)

vmw_present_readback_ioctl ==
  \E clips \in SomeClips : Start("readback", clips, FALSE, <<0, 0>>)

(* The next unit.  A readback is one submission for all units.  Submitting *)
(* fails with a signal, without memory, or when the client has dropped the *)
(* buffer's handle; the units after it are left as they are.               *)
Submit ==
  /\ blit.k \in 1 .. Screens
  /\ moved' = IF unit[blit.k].shows THEN [moved EXCEPT ![blit.k] = BlitsOf(blit.k)]
              ELSE moved
  /\ blit' = [blit EXCEPT !.k = @ + 1]
  /\ UNCHANGED unit

SubmitFails ==
  /\ blit.k \in 1 .. Screens
  /\ blit.op \in {"readback", "dmabuf_dirty_ldu"} => blit.k = 1
  /\ blit' = [blit EXCEPT !.k = Screens + 1, !.ok = FALSE]
  /\ UNCHANGED <<unit, moved>>

Return ==
  /\ blit.k = Screens + 1
  /\ blit' = Idle0
  /\ UNCHANGED <<unit, moved>>

BlitNext ==
  \/ drm_mode_dirtyfb_ioctl \/ vmw_present_ioctl \/ vmw_present_readback_ioctl
  \/ Submit \/ SubmitFails \/ Return

BlitSpec == BlitInit /\ [][BlitNext]_blitVars

-----------------------------------------------------------------------------
(* Every screen shows the damage that lies on it, and nothing else moves.  *)

OnScreen(u) == (0 .. u.size[1] - 1) \X (0 .. u.size[2] - 1)

Wanted(clips, to, u) ==
  {<<p, <<p[1] + to[1] - u.at[1], p[2] + to[2] - u.at[2]>>>> :
     p \in {q \in Covered(clips) :
              <<q[1] + to[1] - u.at[1], q[2] + to[2] - u.at[2]>> \in OnScreen(u)}}

DoneWell == blit.k = Screens + 1 /\ blit.ok

(* Of a copy the code shows one rectangle of each pair, and nothing that   *)
(* lies in neither.                                                        *)
DamageShown ==
  DoneWell =>
    \A k \in 1 .. Screens :
      LET Damage == Wanted(IF blit.clips = <<>> THEN <<WholeFb>> ELSE blit.clips,
                           blit.to, unit[k])
      IN IF ~unit[k].shows THEN moved[k] = {}
         ELSE IF blit.copy THEN moved[k] \subseteq Damage
         ELSE moved[k] = Damage
=============================================================================
