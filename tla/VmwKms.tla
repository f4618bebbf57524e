-------------------------------- MODULE VmwKms --------------------------------
(***************************************************************************)
(* Mode setting: framebuffers and their ids (drm_crtc.c), the two display  *)
(* systems of the driver, screen objects (vmwgfx_scrn.c) and legacy        *)
(* display units (vmwgfx_ldu.c), cursors (vmwgfx_kms.c), the console       *)
(* framebuffer's place in vram (vmwgfx_fb.c), the overlay stream           *)
(* (vmwgfx_overlay.c), and the pinning of buffers for all of them          *)
(* (vmwgfx_dmabuf.c).                                                      *)
(*                                                                         *)
(* Whoever holds mode_config.mutex makes one atomic step, with two         *)
(* exceptions, between whose steps the overlay ioctl may run and handles   *)
(* may go.  While a buffer is moved for a new mode, the overlays are       *)
(* paused, the buffer is moved, and the overlays are resumed.  When a      *)
(* framebuffer is removed, the crtcs that show it are turned off one by    *)
(* one.  vram is a number of units of size; only what is pinned counts,    *)
(* the rest can be evicted.                                                *)
(***************************************************************************)
EXTENDS Integers, FiniteSets, FiniteSetsExt

CONSTANTS
  KFiles,      \* open files
  Units,       \* numbers of the display units
  CursorUnits, \* those whose cursor somebody sets
  Fbs,         \* framebuffers
  Bufs,        \* buffers that may become framebuffers and cursors: user
               \* buffers or scanout surfaces with a snooped cursor image
  Videos,      \* user buffers for the overlay stream
  Sizes,       \* sizes of modes and framebuffers
  Vram,        \* size of vram
  KmsFaults,   \* what may fail: "lockup" of the device, "signal", "nomem"
  None

VARIABLES
  kfb,         \* struct drm_framebuffer with vmw_framebuffer
  kcrtc,       \* struct drm_crtc with its connector and vmw_display_unit
  kobj,        \* struct vmw_dma_buffer and vmw_surface, with the base object
  kstrm,       \* struct vmw_stream
  kdrv,        \* sou_priv or ldu_priv, fb_info, and the holder of the mutex
  kdev         \* the device: what it shows

kmsVars == <<kfb, kcrtc, kobj, kstrm, kdrv, kdev>>

Objs == Bufs \cup Videos

NoFb == [live |-> FALSE, obj |-> None, file |-> None, size |-> 0]
NoCrtc == [fb |-> None, mode |-> 0, enabled |-> FALSE, cursor |-> None,
           defined |-> FALSE, buffer |-> 0, active |-> FALSE]
NoStream == [claimed |-> None, buf |-> None, paused |-> FALSE]
NoOp == [k |-> "none"]

(* vmw_kms_init takes screen objects where the device has them.  The       *)
(* console framebuffer is there and active, or the driver has none.        *)
KmsInit ==
  /\ kfb = [f \in Fbs |-> NoFb]
  /\ kcrtc = [u \in Units |-> NoCrtc]
  /\ \E S \in SUBSET Bufs :
       kobj = [o \in Objs |-> [surface |-> o \in S, refs |-> 0, base |-> 0,
                               handle |-> None, ne |-> "no"]]
  /\ kstrm = NoStream
  /\ \E sou, con \in BOOLEAN :
       kdrv = [sou |-> sou, fb |-> None, con |-> con, on |-> con, ne |-> con, op |-> NoOp]
  /\ kdev = [screen |-> [u \in Units |-> None], shown |-> {}, stream |-> None,
             hung |-> FALSE]

World == [fb |-> kfb, crtc |-> kcrtc, obj |-> kobj, strm |-> kstrm, drv |-> kdrv,
          dev |-> kdev]
Become(W) == kfb' = W.fb /\ kcrtc' = W.crtc /\ kobj' = W.obj /\ kstrm' = W.strm
             /\ kdrv' = W.drv /\ kdev' = W.dev

Ok(W) == [ok |-> TRUE, w |-> W]
Failed(W) == [ok |-> FALSE, w |-> W]
MayFail(what, W) == IF what \in KmsFaults THEN {Failed(W)} ELSE {}
Then(S, F(_)) == UNION {IF x.ok THEN F(x.w) ELSE {x} : x \in S}

-----------------------------------------------------------------------------
(* References to buffers and surfaces, and to the base object of either.   *)

Ref(W, o) == [W EXCEPT !.obj[o].refs = @ + 1]
Unref(W, o) == IF o = None THEN W ELSE
  IF W.obj[o].refs = 1 THEN [W EXCEPT !.obj[o].refs = 0, !.obj[o].ne = "no"]
  ELSE [W EXCEPT !.obj[o].refs = @ - 1]

ttm_base_object_unref(W, o) ==
  LET W1 == [W EXCEPT !.obj[o].base = @ - 1]
  IN IF W1.obj[o].base = 0 THEN Unref(W1, o) ELSE W1

(* A lookup finds what the file has a handle of, and takes a reference. *)
vmw_user_lookup_handle(W, f, o) ==
  IF W.obj[o].handle = f THEN {Ok(Ref(W, o))} ELSE {Failed(W)}

-----------------------------------------------------------------------------
(* Pinning. *)

Pinned(W) ==
  Cardinality({o \in Objs : W.obj[o].ne = "vram"}) + (IF W.drv.ne THEN 1 ELSE 0)
    + MapThenSumSet(LAMBDA u : W.crtc[u].buffer, Units)
Room(W, size) == Pinned(W) + size <= Vram

vmw_dmabuf_to_vram(W, o) ==
  IF W.obj[o].ne = "vram" \/ Room(W, 1) THEN {Ok([W EXCEPT !.obj[o].ne = "vram"])}
  ELSE {Failed(W)}

(* A gmr can be had when vram is full. *)
vmw_dmabuf_to_vram_or_gmr(W, o) ==
  IF W.obj[o].ne = "vram" \/ Room(W, 1) THEN {Ok([W EXCEPT !.obj[o].ne = "vram"])}
  ELSE {Ok([W EXCEPT !.obj[o].ne = "gmr"])} \cup MayFail("nomem", W)

(* Anything else that is pinned may lie at the start of vram. *)
vmw_dmabuf_to_start_of_vram(W, o) ==
  LET W1 == [W EXCEPT !.obj[o].ne = "no"]
  IN (IF Room(W1, 1) THEN {Ok([W EXCEPT !.obj[o].ne = "vram"])} ELSE {})
     \cup (IF Pinned(W1) > 0 THEN {Failed(W)} ELSE {})

vmw_dmabuf_unpin(W, o) == [W EXCEPT !.obj[o].ne = "no"]

-----------------------------------------------------------------------------
(* The overlay stream, under its mutex.  On a device that hangs the code   *)
(* below ends in a BUG_ON: the steps that call it need a device that runs. *)

vmw_overlay_move_buffer(W, o, pin) ==
  IF ~pin THEN {Ok(vmw_dmabuf_unpin(W, o))}
  ELSE IF W.drv.sou THEN vmw_dmabuf_to_vram_or_gmr(W, o) ELSE vmw_dmabuf_to_vram(W, o)

vmw_overlay_send_put(W, o) == [W EXCEPT !.dev.stream = o]
vmw_overlay_send_stop(W) == [W EXCEPT !.dev.stream = None]

Stopped(W, pause) ==
  IF pause THEN [W EXCEPT !.strm.paused = TRUE]
  ELSE [Unref(W, W.strm.buf) EXCEPT !.strm.buf = None, !.strm.paused = FALSE]

(* Seeded fault: the buffer of a stream that is stopped stays pinned. *)
vmw_overlay_stop_KeepsPin(W, pause, interruptible) ==
  IF W.strm.buf = None THEN {Ok(W)}
  ELSE IF W.strm.paused THEN {Ok(Stopped(W, pause))}
  ELSE {Ok(Stopped(vmw_overlay_send_stop(W), pause))}

vmw_overlay_stop(W, pause, interruptible) ==
  IF W.strm.buf = None THEN {Ok(W)}
  ELSE IF W.strm.paused THEN {Ok(Stopped(W, pause))}
  ELSE LET W1 == vmw_overlay_send_stop(W)
       IN Then(vmw_overlay_move_buffer(W1, W.strm.buf, FALSE)
                 \cup (IF interruptible THEN MayFail("signal", W1) ELSE {}),
               LAMBDA x : {Ok(Stopped(x, pause))})

vmw_overlay_update_stream(W, o, interruptible) ==
  LET Start(x) ==
        Then(vmw_overlay_move_buffer(x, o, TRUE)
               \cup (IF interruptible THEN MayFail("signal", x) ELSE {}),
             LAMBDA y : LET z == vmw_overlay_send_put(y, o) IN
               {Ok([IF y.strm.buf = o THEN z ELSE Ref(z, o)
                      EXCEPT !.strm.buf = o, !.strm.paused = FALSE])})
  IN IF W.strm.buf # o
     THEN Then(vmw_overlay_stop(W, FALSE, interruptible), Start)
     ELSE IF ~W.strm.paused THEN {Ok(vmw_overlay_send_put(W, o))} ELSE Start(W)

(* A stream that cannot be resumed stays paused. *)
vmw_overlay_pause_all(W) == {x.w : x \in vmw_overlay_stop(W, TRUE, FALSE)}
vmw_overlay_stop_all(W) == {x.w : x \in vmw_overlay_stop(W, FALSE, FALSE)}
vmw_overlay_resume_all(W) ==
  IF ~W.strm.paused THEN {W}
  ELSE {x.w : x \in vmw_overlay_update_stream(W, W.strm.buf, FALSE)}

OverlayRuns == ~kdev.hung \/ kstrm.buf = None \/ kstrm.paused

-----------------------------------------------------------------------------
(* Screen objects. *)

vmw_sou_del_active(W, u) ==
  IF ~W.crtc[u].active THEN W
  ELSE LET W1 == [W EXCEPT !.crtc[u].active = FALSE]
       IN IF \A v \in Units : ~W1.crtc[v].active THEN [W1 EXCEPT !.drv.fb = None] ELSE W1

vmw_sou_add_active(W, u, f) ==
  IF W.crtc[u].active THEN W ELSE [W EXCEPT !.drv.fb = f, !.crtc[u].active = TRUE]

vmw_sou_fifo_create(W, u) ==
  IF W.dev.hung THEN {Failed(W)}
  ELSE {Ok([W EXCEPT !.dev.screen[u] = "backed", !.crtc[u].defined = TRUE])}

(* A device that locks up does so before the screen is gone. *)
vmw_sou_fifo_destroy(W, u) ==
  IF ~W.crtc[u].defined THEN {Ok(W)}
  ELSE IF W.dev.hung THEN {Failed(W)}
  ELSE {Ok([W EXCEPT !.dev.screen[u] = None, !.crtc[u].defined = FALSE])}
       \cup MayFail("lockup", [W EXCEPT !.dev.hung = TRUE])

(* A screen that is still defined would now show freed memory. *)
vmw_sou_backing_free(W, u) ==
  [W EXCEPT !.crtc[u].buffer = 0,
            !.dev.screen[u] = IF @ = None THEN None ELSE "freed"]

(* With the overlays paused. *)
vmw_sou_backing_alloc(W, u, size) ==
  (IF Room(W, size) THEN {Ok([W EXCEPT !.crtc[u].buffer = size])} ELSE {Failed(W)})
    \cup MayFail("nomem", W)

CrtcOff(W, u) == [W EXCEPT !.crtc[u].fb = None, !.crtc[u].enabled = FALSE]

SouOff(W, u) ==
  Then(vmw_sou_fifo_destroy(W, u),
       LAMBDA x : {Ok(vmw_sou_backing_free(vmw_sou_del_active(CrtcOff(x, u), u), u))})

(* The end of vmw_sou_crtc_set_config. *)
SouShow(W, u, f, size) ==
  UNION {IF ~c.ok THEN {Failed(IF W.crtc[u].defined THEN W ELSE CrtcOff(W, u))}
         ELSE {Ok([vmw_sou_add_active(c.w, u, f) EXCEPT
                     !.crtc[u].mode = size, !.crtc[u].fb = f, !.crtc[u].enabled = TRUE])} :
           c \in vmw_sou_fifo_create(W, u)}

-----------------------------------------------------------------------------
(* Legacy display units: one framebuffer for all of them, pinned at the    *)
(* start of vram.  (A device without display topology is left out.)        *)

ActiveLdu(W) == {u \in Units : W.crtc[u].active}

vmw_ldu_commit_list(W) ==
  [W EXCEPT !.dev.shown = ActiveLdu(W)]

vmw_ldu_del_active(W, u) ==
  IF ~W.crtc[u].active THEN W
  ELSE LET W1 == [W EXCEPT !.crtc[u].active = FALSE]
       IN IF ActiveLdu(W1) # {} THEN W1
          ELSE [vmw_dmabuf_unpin(W1, W1.fb[W1.drv.fb].obj) EXCEPT !.drv.fb = None]

LduOff(W, u) == vmw_ldu_commit_list(vmw_ldu_del_active(CrtcOff(W, u), u))

(* The start of vmw_ldu_add_active and its end, around the move. *)
LduUnpinOld(W) ==
  IF W.drv.fb = None THEN W ELSE vmw_dmabuf_unpin(W, W.fb[W.drv.fb].obj)
LduShow(W, u) == vmw_ldu_commit_list([W EXCEPT !.crtc[u].active = TRUE])

-----------------------------------------------------------------------------
(* The console framebuffer takes and leaves vram. *)

vmw_fb_off(W) == IF ~W.drv.con THEN W ELSE [W EXCEPT !.drv.on = FALSE, !.drv.ne = FALSE]

ConsoleToVram(W) ==
  (IF Room(W, 1) THEN {[W EXCEPT !.drv.ne = TRUE, !.drv.on = TRUE]} ELSE {})
    \cup (IF Pinned(W) > 0 THEN {W} ELSE {})

vmw_fb_on(W) ==
  IF ~W.drv.con \/ W.drv.on THEN {W}
  ELSE UNION {ConsoleToVram(x) : x \in vmw_overlay_stop_all(W)}

-----------------------------------------------------------------------------
(* set_config of either system.  A mode goes through the steps of kdrv.op  *)
(* when a buffer has to be moved.                                          *)

(* Only one framebuffer may be active at a time. *)
MultipleFbs(W, u, f) ==
  /\ W.drv.fb # None /\ W.drv.fb # f
  /\ ~(W.crtc[u].active /\ \A v \in Units \ {u} : ~W.crtc[v].active)

SetConfigOff(W, u) == IF W.drv.sou THEN SouOff(W, u) ELSE {Ok(LduOff(W, u))}

Moving(W, u, f, size) == [W EXCEPT !.drv.op =
  [k |-> "paused", u |-> u, f |-> f, size |-> size, ok |-> FALSE]]

SouMode(W, u, f, size) ==
  Then(IF W.crtc[u].mode = size THEN {Ok(W)}
       ELSE Then(vmw_sou_fifo_destroy(W, u), LAMBDA x : {Ok(vmw_sou_backing_free(x, u))}),
       LAMBDA x :
         IF x.crtc[u].buffer # 0 THEN SouShow(x, u, f, size)
         ELSE {Ok(y) : y \in vmw_overlay_pause_all(Moving(x, u, f, size))})

LduMode(W, u, f, size) ==
  LET W1 == [W EXCEPT !.crtc[u].fb = f, !.crtc[u].mode = size, !.crtc[u].enabled = TRUE]
  IN IF W.drv.fb = f THEN {Ok(LduShow(W1, u))}
     ELSE {Ok(y) : y \in vmw_overlay_pause_all(Moving(LduUnpinOld(W1), u, f, size))}

SetConfigMode(W, u, f, size) ==
  IF MultipleFbs(W, u, f) \/ size > W.fb[f].size THEN {Failed(W)}
  ELSE IF W.drv.sou THEN SouMode(vmw_fb_off(W), u, f, size)
  ELSE LduMode(vmw_fb_off(W), u, f, size)

-----------------------------------------------------------------------------
(* Framebuffers. *)

(* vmw_kms_new_framebuffer_dmabuf and vmw_kms_new_framebuffer_surface,     *)
(* which takes screen objects.                                             *)
NewFb(W, file, f, o, size) ==
  IF W.obj[o].surface /\ ~W.drv.sou THEN {Failed(W)}
  ELSE {Ok([Ref(W, o) EXCEPT !.fb[f] = [live |-> TRUE, obj |-> o, file |-> file,
                                        size |-> size]])}
       \cup MayFail("nomem", W)

(* The reference of the base object is given back when no framebuffer      *)
(* comes of it, the one of the lookup always.                              *)
vmw_kms_fb_create(W, file, f, o, size) ==
  Then(vmw_user_lookup_handle([W EXCEPT !.obj[o].base = @ + 1], file, o),
       LAMBDA x :
         {LET y == Unref(n.w, o) IN
          IF n.ok THEN Ok(y) ELSE Failed(ttm_base_object_unref(y, o)) :
            n \in NewFb(x, file, f, o, size)})

(* drm_framebuffer_cleanup begins. *)
Cleaning(W, f) == [W EXCEPT !.drv.op = [k |-> "cleanup", f |-> f, left |-> Units]]

(* The crtcs that show the framebuffer, of those not yet looked at. *)
ToTurnOff(W) == {u \in W.drv.op.left : W.crtc[u].fb = W.drv.op.f}

(* vmw_framebuffer_dmabuf_destroy and vmw_framebuffer_surface_destroy,     *)
(* after drm_framebuffer_cleanup.                                          *)
FbDestroy(W, f) ==
  LET o == W.fb[f].obj
  IN ttm_base_object_unref(Unref([W EXCEPT !.fb[f] = NoFb], o), o)

-----------------------------------------------------------------------------
(* The ioctls. *)

Unlocked == kdrv.op.k = "none"

(* vmw_user_dmabuf_alloc or a surface definition gives the file a handle,  *)
(* which it gives back with vmw_dumb_destroy or an unref ioctl.            *)
Create(file, o) ==
  /\ kobj[o].refs = 0
  /\ kobj' = [kobj EXCEPT ![o].refs = 1, ![o].base = 1, ![o].handle = file]
  /\ UNCHANGED <<kfb, kcrtc, kstrm, kdrv, kdev>>

HandleGone(W, o) == ttm_base_object_unref([W EXCEPT !.obj[o].handle = None], o)

HandlesGone(W, file) ==
  [W EXCEPT !.obj = [o \in Objs |-> IF W.obj[o].handle = file THEN HandleGone(W, o).obj[o]
                                   ELSE W.obj[o]]]

vmw_dumb_destroy(file, o) ==
  /\ kobj[o].handle = file
  /\ Become(HandleGone(World, o))

drm_mode_addfb(file) ==
  /\ Unlocked
  /\ \E f \in Fbs, o \in Bufs, size \in Sizes :
       /\ ~kfb[f].live /\ kobj[o].handle = file
       /\ \A g \in Fbs : kfb[g].live => kfb[g].obj # o \/ kfb[g].size # size
       /\ \E x \in vmw_kms_fb_create(World, file, f, o, size) : Become(x.w)

drm_mode_rmfb(file) ==
  /\ Unlocked
  /\ \E f \in Fbs : /\ kfb[f].live /\ kfb[f].file = file
                    /\ Become(Cleaning(World, f))

(* The next crtc that shows the framebuffer is turned off; one that does   *)
(* not go off keeps the pointer.                                           *)
drm_framebuffer_cleanup ==
  /\ kdrv.op.k = "cleanup"
  /\ \E u \in ToTurnOff(World) :
       /\ \A v \in ToTurnOff(World) : u <= v
       /\ \E x \in SetConfigOff([World EXCEPT !.drv.op.left = @ \ {u}], u) : Become(x.w)

(* When none is left the framebuffer goes. *)
FbRemoved ==
  /\ kdrv.op.k = "cleanup" /\ ToTurnOff(World) = {}
  /\ Become(FbDestroy([World EXCEPT !.drv.op = NoOp], kdrv.op.f))

drm_mode_setcrtc(u) ==
  /\ Unlocked /\ OverlayRuns
  /\ \/ \E x \in SetConfigOff(World, u) : Become(x.w)
     \/ \E f \in Fbs, size \in Sizes :
          /\ kfb[f].live
          /\ \E x \in SetConfigMode(World, u, f, size) : Become(x.w)

(* The move, with the overlays paused. *)
MoveForMode ==
  /\ kdrv.op.k = "paused"
  /\ LET u == kdrv.op.u
         f == kdrv.op.f
         S == IF kdrv.sou THEN vmw_sou_backing_alloc(World, u, kdrv.op.size)
              ELSE {Ok([x.w EXCEPT !.drv.fb = f]) :
                      x \in vmw_dmabuf_to_start_of_vram(World, kfb[f].obj)}
     IN \E x \in S : Become([x.w EXCEPT !.drv.op.k = "moved", !.drv.op.ok = x.ok])

ModeMoved ==
  /\ kdrv.op.k = "moved" /\ OverlayRuns
  /\ LET op == kdrv.op IN
     \E r \in vmw_overlay_resume_all(World) :
       LET x == [r EXCEPT !.drv.op = NoOp]
       IN IF ~op.ok THEN Become(x)
          ELSE IF ~kdrv.sou THEN Become(LduShow(x, op.u))
          ELSE \E y \in SouShow(x, op.u, op.f, op.size) : Become(y.w)

(* vmw_du_page_flip: the framebuffer's contents are sent by a submission   *)
(* that looks its handle up in the caller's file.                          *)
drm_mode_page_flip_ioctl(file, u) ==
  /\ Unlocked /\ kdrv.sou /\ kcrtc[u].fb # None
  /\ \A v \in Units \ {u} : ~kcrtc[v].active
  /\ \E f \in Fbs :
       /\ kfb[f].live /\ kobj[kfb[f].obj].handle = file /\ ~kdev.hung
       /\ Become([World EXCEPT !.crtc[u].fb = f, !.drv.fb = f])

(* vmw_du_crtc_cursor_set.  A cursor outlives the handle and the file. *)
CursorSet(W, file, u, o) ==
  LET New == IF o = None THEN {Ok(W)} ELSE vmw_user_lookup_handle(W, file, o)
  IN Then(New, LAMBDA x : {Ok([Unref(x, W.crtc[u].cursor) EXCEPT !.crtc[u].cursor = o])})

drm_mode_cursor_ioctl(file, u) ==
  /\ Unlocked /\ u \in CursorUnits
  /\ \E o \in Bufs \cup {None} :
       \E x \in CursorSet(World, file, u, o) : x.ok /\ Become(x.w)

-----------------------------------------------------------------------------
(* The stream's ioctls, under the overlay's mutex alone. *)

vmw_stream_claim_ioctl(file) ==
  /\ kstrm.claimed = None
  /\ kstrm' = [kstrm EXCEPT !.claimed = file]
  /\ UNCHANGED <<kfb, kcrtc, kobj, kdrv, kdev>>

vmw_overlay_ioctl(file) ==
  /\ kstrm.claimed = file /\ OverlayRuns /\ ~kdev.hung
  /\ \/ \E x \in vmw_overlay_stop(World, FALSE, TRUE) : Become(x.w)
     \/ \E o \in Videos :
          \E x \in Then(vmw_user_lookup_handle(World, file, o),
                        LAMBDA y : {[s EXCEPT !.w = Unref(@, o)] :
                                      s \in vmw_overlay_update_stream(y, o, TRUE)}) :
            Become(x.w)

(* The last reference of the stream resource. *)
vmw_overlay_unref(W) ==
  {[x.w EXCEPT !.strm.claimed = None] : x \in vmw_overlay_stop(W, FALSE, FALSE)}

vmw_stream_unref_ioctl(file) ==
  /\ kstrm.claimed = file /\ OverlayRuns
  /\ \E x \in vmw_overlay_unref(World) : Become(x)

-----------------------------------------------------------------------------
(* The close of a file: drm_fb_release has destroyed its framebuffers as   *)
(* drm_mode_rmfb does; then its handles and its stream go.                 *)
drm_fb_release(file) ==
  /\ OverlayRuns
  /\ \A f \in Fbs : kfb[f].live => kfb[f].file # file
  /\ LET W == HandlesGone(World, file) IN
     \E x \in IF kstrm.claimed = file THEN vmw_overlay_unref(W) ELSE {W} :
          Become(x) /\ x # World

(* The last master goes, and no ioctl of its clients is under way. *)
ConsoleOn ==
  /\ Unlocked /\ OverlayRuns
  /\ \E x \in vmw_fb_on(World) : x # World /\ Become(x)

KmsNext ==
  \/ \E file \in KFiles, o \in Objs : Create(file, o) \/ vmw_dumb_destroy(file, o)
  \/ \E file \in KFiles :
       drm_mode_addfb(file) \/ drm_mode_rmfb(file) \/ vmw_stream_claim_ioctl(file)
       \/ vmw_overlay_ioctl(file) \/ vmw_stream_unref_ioctl(file) \/ drm_fb_release(file)
  \/ \E file \in KFiles, u \in Units :
       drm_mode_page_flip_ioctl(file, u) \/ drm_mode_cursor_ioctl(file, u)
  \/ \E u \in Units : drm_mode_setcrtc(u)
  \/ MoveForMode \/ ModeMoved \/ drm_framebuffer_cleanup \/ FbRemoved
  \/ ConsoleOn

KmsSpec == KmsInit /\ [][KmsNext]_kmsVars

-----------------------------------------------------------------------------
(* What the device shows is there, and what is pinned is shown. *)

Count(S) == Cardinality(S)

RefsAreUses ==
  \A o \in Objs :
    /\ kobj[o].base = (IF kobj[o].handle # None THEN 1 ELSE 0)
                        + Count({f \in Fbs : kfb[f].live /\ kfb[f].obj = o})
    /\ kobj[o].refs = (IF kobj[o].base > 0 THEN 1 ELSE 0)
                        + Count({f \in Fbs : kfb[f].live /\ kfb[f].obj = o})
                        + Count({u \in Units : kcrtc[u].cursor = o})
                        + (IF kstrm.buf = o THEN 1 ELSE 0)

ScanoutIsLive ==
  /\ \A u \in Units : kcrtc[u].fb # None => kfb[kcrtc[u].fb].live \/ kdev.hung
  /\ \A u \in Units : kdev.screen[u] # "freed"
  /\ ~kdrv.sou /\ kdrv.fb # None => kfb[kdrv.fb].live
  /\ ~kdrv.sou /\ Unlocked =>
       /\ kdrv.fb = None <=> ActiveLdu(World) = {}
       /\ \A u \in Units : kcrtc[u].active => kcrtc[u].fb = kdrv.fb

PinsAreUses ==
  /\ kdev.stream # None => kdev.stream = kstrm.buf /\ kobj[kstrm.buf].ne # "no"
  /\ kdrv.ne <=> kdrv.on
  /\ \A o \in Objs : kobj[o].ne # "no" =>
       \/ kstrm.buf = o /\ ~kstrm.paused
       \/ ~kdrv.sou /\ kdrv.fb # None /\ kfb[kdrv.fb].obj = o

ShownIsHeld == RefsAreUses /\ ScanoutIsLive /\ PinsAreUses
=============================================================================
