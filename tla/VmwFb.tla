-------------------------------- MODULE VmwFb ---------------------------------
(***************************************************************************)
(* The console framebuffer of vmwgfx_fb.c.  The console draws in shadow    *)
(* memory and marks a dirty rectangle; delayed work copies the rectangle   *)
(* to vram and tells the device.  Programs that have mapped the shadow     *)
(* memory dirty it by page, through the deferred io of the frame buffer    *)
(* layer, which shares that work.  A mode setting user takes the           *)
(* framebuffer off vram and gives it back.                                 *)
(*                                                                         *)
(* A rectangle is the set of its pixels.  A page holds one line.           *)
(***************************************************************************)
EXTENDS Integers, FiniteSets

CONSTANTS XRes, YRes  \* the size of the screen

VARIABLES
  fbpix,       \* pixels: not yet in vram, not yet on the screen, forgotten
  fbdirty,     \* par->dirty: active, and the rectangle
  fbwork,      \* the delayed work: pending, and where it is
  fbdraw,      \* where the console is in a drawing operation
  fbmode       \* bo_ptr, vmw_priv->suspended, where fb_on or fb_off is

fbVars == <<fbpix, fbdirty, fbwork, fbdraw, fbmode>>

Pixels == (0 .. XRes - 1) \X (0 .. YRes - 1)
Rect(x1, y1, x2, y2) == (x1 .. x2 - 1) \X (y1 .. y2 - 1)
Line(y) == Rect(0, y, XRes, y + 1)

(* The smallest rectangle around two of them. *)
Around(S) ==
  LET X == {p[1] : p \in S}
      Y == {p[2] : p \in S}
  IN {p \in Pixels : /\ \E x \in X : x <= p[1]
                     /\ \E x \in X : p[1] <= x
                     /\ \E y \in Y : y <= p[2]
                     /\ \E y \in Y : p[2] <= y}

Rects == {R \in SUBSET Pixels : R # {} /\ R = Around(R)}

(* The end of vmw_fb_init. *)
FbInit ==
  /\ fbpix = [undrawn |-> {}, unseen |-> {}, lost |-> {}]
  /\ fbdirty = [active |-> TRUE, rect |-> {}]
  /\ fbwork = [pending |-> FALSE, stalled |-> FALSE, pages |-> {}, pc |-> "idle",
               rect |-> {}, row |-> 0]
  /\ fbdraw = {}
  /\ fbmode = [mapped |-> TRUE, suspended |-> FALSE, pc |-> "on"]

schedule_delayed_work(w) == [w EXCEPT !.pending = TRUE, !.stalled = FALSE]

(* Seeded fault: the work is scheduled only on the first mark ever. *)
vmw_fb_dirty_mark_NoSchedule(R) ==
  /\ fbdirty' = [fbdirty EXCEPT !.rect = Around(@ \cup R)]
  /\ fbwork' = fbwork

vmw_fb_dirty_mark(R) ==
  /\ fbdirty' = [fbdirty EXCEPT !.rect = Around(@ \cup R)]
  /\ fbwork' = IF fbdirty.rect = {} /\ fbdirty.active THEN schedule_delayed_work(fbwork)
               ELSE fbwork

-----------------------------------------------------------------------------
(* The console: fillrect, copyarea and imageblit draw and then mark. *)

Drawn(S) == [fbpix EXCEPT !.undrawn = @ \cup S, !.lost = @ \ S]

vmw_fb_fillrect ==
  /\ fbdraw = {}
  /\ \E R \in Rects : /\ fbdraw' = R
                      /\ fbpix' = Drawn(R)
  /\ UNCHANGED <<fbdirty, fbwork, fbmode>>

FillrectMark ==
  /\ fbdraw # {}
  /\ vmw_fb_dirty_mark(fbdraw)
  /\ fbdraw' = {}
  /\ UNCHANGED <<fbpix, fbmode>>

-----------------------------------------------------------------------------
(* Deferred io: the first write to a page faults and waits for a work that *)
(* runs; it puts the page on the list and schedules the work.              *)

PageWrite ==
  /\ fbwork.pc = "idle"
  /\ \E y \in 0 .. YRes - 1 :
       /\ fbpix' = Drawn(Line(y))
       /\ fbwork' = IF y \in fbwork.pages THEN fbwork
                    ELSE [schedule_delayed_work(fbwork) EXCEPT !.pages = @ \cup {y}]
  /\ UNCHANGED <<fbdirty, fbdraw, fbmode>>

(* The lines between the first and the last page replace the rectangle:    *)
(* what else was in it is forgotten, until it is drawn or marked again.    *)
Forget(px, S) == [px EXCEPT !.lost = @ \cup (S \cap (px.undrawn \cup px.unseen))]

vmw_deferred_io ==
  /\ fbwork.pending /\ fbwork.pc = "idle"
  /\ LET L == Around(UNION {Line(y) : y \in fbwork.pages})
     IN IF L = {} THEN UNCHANGED <<fbpix, fbdirty>>
        ELSE /\ fbdirty' = [fbdirty EXCEPT !.rect = L]
             /\ fbpix' = Forget([fbpix EXCEPT !.lost = @ \ L], fbdirty.rect \ L)
  /\ fbwork' = [fbwork EXCEPT !.pending = FALSE, !.pages = {}, !.pc = "flush"]
  /\ UNCHANGED <<fbdraw, fbmode>>

(* While the machine is suspended the rectangle stays, and nobody          *)
(* schedules the work again: later marks find something dirty already.     *)
vmw_fb_dirty_flush ==
  /\ fbwork.pc = "flush"
  /\ IF fbmode.suspended
     THEN /\ fbwork' = [fbwork EXCEPT !.pc = "idle",
                                      !.stalled = ~fbwork.pending]
          /\ UNCHANGED fbdirty
     ELSE IF ~fbdirty.active
     THEN fbwork' = [fbwork EXCEPT !.pc = "idle"] /\ UNCHANGED fbdirty
     ELSE /\ fbwork' = [fbwork EXCEPT !.pc = "copy", !.rect = fbdirty.rect, !.row = 0]
          /\ fbdirty' = [fbdirty EXCEPT !.rect = {}]
  /\ UNCHANGED <<fbpix, fbdraw, fbmode>>

(* The columns of the rectangle, from its first line to the end of memory. *)
Copied(y) == {p \in Pixels : p[2] = y /\ \E r \in fbwork.rect : r[1] = p[1] /\ r[2] <= y}

CopyLine ==
  /\ fbwork.pc = "copy" /\ fbwork.row < YRes
  /\ LET S == Copied(fbwork.row) \cap fbpix.undrawn
     IN fbpix' = [fbpix EXCEPT !.undrawn = @ \ S, !.unseen = @ \cup S]
  /\ fbwork' = [fbwork EXCEPT !.row = @ + 1]
  /\ UNCHANGED <<fbdirty, fbdraw, fbmode>>

(* vmw_fifo_reserve may give no room: the update is forgotten. *)
Update ==
  /\ fbwork.pc = "copy" /\ fbwork.row = YRes
  /\ \/ fbpix' = [fbpix EXCEPT !.unseen = @ \ fbwork.rect, !.lost = @ \ fbwork.rect]
     \/ fbpix' = Forget(fbpix, fbwork.rect)
  /\ fbwork' = [fbwork EXCEPT !.pc = "idle", !.rect = {}, !.row = 0]
  /\ UNCHANGED <<fbdirty, fbdraw, fbmode>>

-----------------------------------------------------------------------------
(* Off and on. *)

(* Seeded fault: the copy that runs is not waited for. *)
FlushScheduledWork_NoWait ==
  /\ fbmode.pc = "flushing"
  /\ fbmode' = [fbmode EXCEPT !.pc = "off", !.mapped = FALSE]
  /\ UNCHANGED <<fbpix, fbdirty, fbwork, fbdraw>>

vmw_fb_off ==
  /\ fbmode.pc = "on"
  /\ fbdirty' = [fbdirty EXCEPT !.active = FALSE]
  /\ fbmode' = [fbmode EXCEPT !.pc = "flushing"]
  /\ UNCHANGED <<fbpix, fbwork, fbdraw>>

(* flush_scheduled_work waits for work that runs, not for its timer. *)
FlushScheduledWork ==
  /\ fbmode.pc = "flushing" /\ fbwork.pc = "idle"
  /\ fbmode' = [fbmode EXCEPT !.pc = "off", !.mapped = FALSE]
  /\ UNCHANGED <<fbpix, fbdirty, fbwork, fbdraw>>

(* Vram holds something else by now.  The buffer may not find room there.  *)
vmw_fb_on ==
  /\ fbmode.pc = "off"
  /\ \/ /\ fbmode' = [fbmode EXCEPT !.pc = "marking", !.mapped = TRUE]
        /\ fbdirty' = [fbdirty EXCEPT !.active = TRUE]
        /\ fbpix' = [undrawn |-> Pixels, unseen |-> {}, lost |-> {}]
     \/ fbmode' = [fbmode EXCEPT !.pc = "marking"] /\ UNCHANGED <<fbdirty, fbpix>>
  /\ UNCHANGED <<fbwork, fbdraw>>

FbOnMark ==
  /\ fbmode.pc = "marking"
  /\ fbdirty' = [fbdirty EXCEPT !.rect = Around(@ \cup Pixels)]
  /\ fbwork' = schedule_delayed_work(fbwork)
  /\ fbmode' = [fbmode EXCEPT !.pc = IF fbmode.mapped THEN "on" ELSE "off"]
  /\ UNCHANGED <<fbpix, fbdraw>>

(* vmw_pm_prepare and vmw_pm_complete. *)
Suspended ==
  /\ fbmode' = [fbmode EXCEPT !.suspended = ~@]
  /\ UNCHANGED <<fbpix, fbdirty, fbwork, fbdraw>>

FbNext ==
  \/ vmw_fb_fillrect \/ FillrectMark \/ PageWrite
  \/ vmw_deferred_io \/ vmw_fb_dirty_flush \/ CopyLine \/ Update
  \/ vmw_fb_off \/ FlushScheduledWork \/ vmw_fb_on \/ FbOnMark \/ Suspended

FbSpec == FbInit /\ [][FbNext]_fbVars

-----------------------------------------------------------------------------
(* What has been drawn and is not shown is marked, and somebody will look  *)
(* at the mark.                                                            *)

Claimed ==
  fbdirty.rect \cup fbdraw \cup fbwork.rect \cup fbpix.lost
    \cup (UNION {Line(y) : y \in fbwork.pages})
    \cup (IF fbmode.pc = "marking" THEN Pixels ELSE {})

WorkComes ==
  \/ fbwork.pending \/ fbwork.pc = "flush" \/ fbwork.stalled
  \/ fbmode.pc = "marking"

DrawnIsFlushed ==
  /\ fbdirty.active =>
       /\ fbpix.undrawn \cup fbpix.unseen \subseteq Claimed
       /\ fbdirty.rect # {} \/ fbwork.pages # {} => WorkComes
  /\ fbwork.pc = "copy" => fbmode.mapped
=============================================================================
