----------------------------- MODULE DisplayProof ----------------------------
(***************************************************************************)
(* Proofs about the console (VmwFb) for screens of any size, and about     *)
(* mode setting (VmwKms, in MCDevice) for any number of display units,     *)
(* framebuffers, buffers and clients.                                      *)
(***************************************************************************)
EXTENDS MCDevice, Sequences, FiniteSetTheorems, TLAPS

-----------------------------------------------------------------------------
(***************************************************************************)
(* The console.                                                            *)
(*                                                                         *)
(* What has been drawn is claimed by the rectangle, by a page or by the    *)
(* copy under way.  The copy claims a pixel only until it has passed its   *)
(* line (Passed): whatever is drawn behind it must be marked again.        *)
(***************************************************************************)

FbTypeOK ==
  /\ fbpix \in [undrawn : SUBSET Pixels, unseen : SUBSET Pixels, lost : SUBSET Pixels]
  /\ fbdirty \in [active : BOOLEAN, rect : SUBSET Pixels]
  /\ fbwork \in [pending : BOOLEAN, stalled : BOOLEAN, pages : SUBSET (0 .. YRes - 1),
                 pc : {"idle", "flush", "copy"}, rect : SUBSET Pixels, row : 0 .. YRes]
  /\ fbdraw \in SUBSET Pixels
  /\ fbmode \in [mapped : BOOLEAN, suspended : BOOLEAN,
                 pc : {"on", "flushing", "off", "marking"}]

\* The work has a rectangle only while it copies it, and writers to pages wait
\* for work that runs.  Vram is mapped as long as anybody may copy to it.
Places ==
  /\ fbwork.pc # "copy" => fbwork.rect = {}
  /\ fbwork.pc # "idle" => fbwork.pages = {}
  /\ fbdirty.active => fbmode.mapped /\ fbmode.pc \in {"on", "marking"}
  /\ fbwork.pc = "copy" => fbmode.mapped

Undone == fbpix.undrawn \cup fbpix.unseen
Looked == fbdirty.rect # {} \/ fbwork.pages # {} => WorkComes

\* A pixel drawn behind the copy is marked or about to be.
Passed ==
  \A p \in fbpix.undrawn \cap fbwork.rect :
    p[2] < fbwork.row => p \in fbdirty.rect \cup fbdraw \/ fbmode.pc = "marking"

IInv ==
  /\ FbTypeOK /\ Places
  /\ fbdirty.active => Undone \subseteq Claimed /\ Looked /\ Passed

\* Any screen, an empty one too.
Screen == XRes \in Nat /\ YRes \in Nat

-----------------------------------------------------------------------------
(* Rectangles. *)

\* A line is a set of pixels.
LEMMA LineIs ==
  ASSUME Screen, NEW y \in 0 .. YRes - 1
  PROVE  Line(y) \in SUBSET Pixels
  BY DEF Screen, Line, Rect, Pixels

\* The rectangle around a set of pixels has them all.
LEMMA AroundIs ==
  ASSUME Screen, NEW S \in SUBSET Pixels
  PROVE  Around(S) \in SUBSET Pixels /\ S \subseteq Around(S)
<1>1. Around(S) \in SUBSET Pixels
  BY DEF Around
<1>2. ASSUME NEW p \in S PROVE p \in Around(S)
  <2>1. p \in Pixels /\ p[1] \in Int /\ p[2] \in Int
    BY DEF Pixels, Screen
  <2>2. p[1] <= p[1] /\ p[2] <= p[2]
    BY <2>1
  <2>3. QED
    BY <2>1, <2>2 DEF Around
<1>3. QED
  BY <1>1, <1>2

\* The lines of the pages.
Lines(S) == UNION {Line(y) : y \in S}

LEMMA LinesIs ==
  ASSUME Screen, NEW S \in SUBSET (0 .. YRes - 1)
  PROVE  /\ Lines(S) \in SUBSET Pixels
         /\ \A y \in S : Line(y) \subseteq Lines(S)
  BY LineIs DEF Lines

\* What claims a pixel.
LEMMA ClaimedIs ==
  /\ \A p : p \in Claimed <=> \/ p \in fbdirty.rect \/ p \in fbdraw \/ p \in fbwork.rect
                              \/ p \in fbpix.lost \/ p \in Lines(fbwork.pages)
                              \/ fbmode.pc = "marking" /\ p \in Pixels
  /\ \A p : p \in Claimed' <=> \/ p \in fbdirty'.rect \/ p \in fbdraw' \/ p \in fbwork'.rect
                               \/ p \in fbpix'.lost \/ p \in Lines(fbwork'.pages)
                               \/ fbmode'.pc = "marking" /\ p \in Pixels
<1>1. Claimed = fbdirty.rect \cup fbdraw \cup fbwork.rect \cup fbpix.lost
                  \cup Lines(fbwork.pages) \cup (IF fbmode.pc = "marking" THEN Pixels ELSE {})
  BY Zenon DEF Claimed, Lines
<1>2. Claimed' = fbdirty'.rect \cup fbdraw' \cup fbwork'.rect \cup fbpix'.lost
                   \cup Lines(fbwork'.pages)
                   \cup (IF fbmode'.pc = "marking" THEN Pixels ELSE {})
  BY Zenon DEF Claimed, Lines
<1>3. QED
  BY <1>1, <1>2

-----------------------------------------------------------------------------
(* The console. *)

\* The fields of what is drawn.
LEMMA DrawnIs ==
  ASSUME FbTypeOK, NEW S \in SUBSET Pixels, fbpix' = Drawn(S)
  PROVE  /\ fbpix' \in [undrawn : SUBSET Pixels, unseen : SUBSET Pixels, lost : SUBSET Pixels]
         /\ fbpix'.undrawn = fbpix.undrawn \cup S /\ fbpix'.unseen = fbpix.unseen
         /\ fbpix'.lost = fbpix.lost \ S
  BY DEF FbTypeOK, Drawn

\* A drawing operation claims what it draws until it marks it.
LEMMA FillrectInv == ASSUME Screen, IInv, vmw_fb_fillrect PROVE IInv'
<1>1. PICK R \in SUBSET Pixels : fbdraw' = R /\ fbpix' = Drawn(R)
  BY DEF vmw_fb_fillrect, Rects
<1>2. fbdraw = {} /\ UNCHANGED <<fbdirty, fbwork, fbmode>>
  BY DEF vmw_fb_fillrect
<1>3. /\ fbpix' \in [undrawn : SUBSET Pixels, unseen : SUBSET Pixels, lost : SUBSET Pixels]
      /\ fbpix'.undrawn = fbpix.undrawn \cup R /\ fbpix'.unseen = fbpix.unseen
      /\ fbpix'.lost = fbpix.lost \ R
  BY <1>1, DrawnIs DEF IInv
<1>4. FbTypeOK' /\ Places'
  BY <1>1, <1>2, <1>3 DEF IInv, FbTypeOK, Places
<1>5. ASSUME fbdirty'.active PROVE (Undone \subseteq Claimed /\ Looked /\ Passed)'
  <2>1. Undone' \subseteq Claimed'
    BY <1>1, <1>2, <1>3, <1>5, ClaimedIs DEF IInv, Undone
  <2>2. Looked' /\ Passed'
    BY <1>1, <1>2, <1>3, <1>5 DEF IInv, Looked, WorkComes, Passed
  <2>3. QED
    BY <2>1, <2>2
<1>6. QED
  BY <1>4, <1>5 DEF IInv

\* The fields of the work that is scheduled.
LEMMA ScheduledIs ==
  ASSUME FbTypeOK, NEW w, w = schedule_delayed_work(fbwork)
  PROVE  /\ w \in [pending : BOOLEAN, stalled : BOOLEAN, pages : SUBSET (0 .. YRes - 1),
                   pc : {"idle", "flush", "copy"}, rect : SUBSET Pixels, row : 0 .. YRes]
         /\ w.pending = TRUE /\ w.pages = fbwork.pages /\ w.pc = fbwork.pc
         /\ w.rect = fbwork.rect /\ w.row = fbwork.row
  BY DEF FbTypeOK, schedule_delayed_work

\* A mark covers what was drawn, and finds the work scheduled or schedules it.
LEMMA FillrectMarkInv == ASSUME Screen, IInv, FillrectMark PROVE IInv'
<1>1. /\ fbdraw # {} /\ fbdraw' = {} /\ UNCHANGED <<fbpix, fbmode>>
      /\ fbdirty' = [fbdirty EXCEPT !.rect = Around(fbdirty.rect \cup fbdraw)]
      /\ fbwork' = IF fbdirty.rect = {} /\ fbdirty.active THEN schedule_delayed_work(fbwork)
                   ELSE fbwork
  BY DEF FillrectMark, vmw_fb_dirty_mark, IInv, FbTypeOK
<1>2. PICK A \in SUBSET Pixels :
        A = Around(fbdirty.rect \cup fbdraw) /\ fbdirty.rect \cup fbdraw \subseteq A
  BY AroundIs DEF IInv, FbTypeOK
<1>3. fbdirty'.active = fbdirty.active /\ fbdirty'.rect = A
      /\ fbdirty' \in [active : BOOLEAN, rect : SUBSET Pixels]
  BY <1>1, <1>2 DEF IInv, FbTypeOK
<1>4. /\ fbwork' \in [pending : BOOLEAN, stalled : BOOLEAN, pages : SUBSET (0 .. YRes - 1),
                      pc : {"idle", "flush", "copy"}, rect : SUBSET Pixels, row : 0 .. YRes]
      /\ fbwork'.pages = fbwork.pages /\ fbwork'.pc = fbwork.pc
      /\ fbwork'.rect = fbwork.rect /\ fbwork'.row = fbwork.row
      /\ fbdirty.rect = {} /\ fbdirty.active => fbwork'.pending = TRUE
      /\ fbwork' = fbwork \/ fbwork'.pending = TRUE
  BY <1>1, ScheduledIs DEF IInv, FbTypeOK
<1>5. FbTypeOK' /\ Places'
  BY <1>1, <1>3, <1>4 DEF IInv, FbTypeOK, Places
<1>6. ASSUME fbdirty'.active PROVE (Undone \subseteq Claimed /\ Looked /\ Passed)'
  <2>1. Undone' \subseteq Claimed'
    BY <1>1, <1>2, <1>3, <1>4, <1>6, ClaimedIs DEF IInv, Undone
  <2>2. Looked' /\ Passed'
    BY <1>1, <1>2, <1>3, <1>4, <1>6 DEF IInv, Looked, WorkComes, Passed
  <2>3. QED
    BY <2>1, <2>2
<1>7. QED
  BY <1>5, <1>6 DEF IInv

\* A page that is written to is on the list, and work comes for it.
LEMMA PageWriteInv == ASSUME Screen, IInv, PageWrite PROVE IInv'
<1>1. PICK y \in 0 .. YRes - 1 :
        /\ fbpix' = Drawn(Line(y))
        /\ fbwork' = IF y \in fbwork.pages THEN fbwork
                     ELSE [schedule_delayed_work(fbwork) EXCEPT
                             !.pages = schedule_delayed_work(fbwork).pages \cup {y}]
  BY DEF PageWrite, schedule_delayed_work, IInv, FbTypeOK
<1>2. fbwork.pc = "idle" /\ UNCHANGED <<fbdirty, fbdraw, fbmode>>
  BY DEF PageWrite
<1>3. PICK Y \in SUBSET Pixels : Y = Line(y)
  BY LineIs
<1>4. /\ fbpix' \in [undrawn : SUBSET Pixels, unseen : SUBSET Pixels, lost : SUBSET Pixels]
      /\ fbpix'.undrawn = fbpix.undrawn \cup Y /\ fbpix'.unseen = fbpix.unseen
      /\ fbpix'.lost = fbpix.lost \ Y
  BY <1>1, <1>3, DrawnIs DEF IInv
<1>5. /\ fbwork' \in [pending : BOOLEAN, stalled : BOOLEAN, pages : SUBSET (0 .. YRes - 1),
                      pc : {"idle", "flush", "copy"}, rect : SUBSET Pixels, row : 0 .. YRes]
      /\ fbwork'.pages = fbwork.pages \cup {y} /\ fbwork'.pc = fbwork.pc
      /\ fbwork'.rect = fbwork.rect /\ fbwork'.row = fbwork.row
      /\ y \in fbwork.pages => fbwork' = fbwork
      /\ y \notin fbwork.pages => fbwork'.pending = TRUE
  <2>1. CASE y \in fbwork.pages
    BY <1>1, <2>1 DEF IInv, FbTypeOK
  <2>2. CASE y \notin fbwork.pages
    <3>1. PICK w : w = schedule_delayed_work(fbwork)
      OBVIOUS
    <3>2. fbwork' = [w EXCEPT !.pages = w.pages \cup {y}]
      BY <1>1, <2>2, <3>1
    <3>3. /\ w \in [pending : BOOLEAN, stalled : BOOLEAN, pages : SUBSET (0 .. YRes - 1),
                     pc : {"idle", "flush", "copy"}, rect : SUBSET Pixels, row : 0 .. YRes]
          /\ w.pending = TRUE /\ w.pages = fbwork.pages /\ w.pc = fbwork.pc
          /\ w.rect = fbwork.rect /\ w.row = fbwork.row
      BY <3>1, ScheduledIs DEF IInv
    <3>4. PICK P \in SUBSET (0 .. YRes - 1) : P = w.pages \cup {y}
      BY <3>3
    <3>5. fbwork' = [w EXCEPT !.pages = P]
      BY <3>2, <3>4
    <3>6. QED
      BY <2>2, <3>3, <3>4, <3>5
  <2>3. QED
    BY <2>1, <2>2
<1>6. FbTypeOK' /\ Places'
  BY <1>2, <1>4, <1>5 DEF IInv, FbTypeOK, Places
<1>7. ASSUME fbdirty'.active PROVE (Undone \subseteq Claimed /\ Looked /\ Passed)'
  <2>1. Lines(fbwork.pages) \subseteq Lines(fbwork'.pages) /\ Y \subseteq Lines(fbwork'.pages)
    BY <1>3, <1>5 DEF Lines
  <2>2. Undone' \subseteq Claimed'
    BY <1>2, <1>4, <1>5, <1>7, <2>1, ClaimedIs DEF IInv, Undone
  <2>3. Looked'
    BY <1>2, <1>5, <1>7 DEF IInv, Looked, WorkComes
  <2>4. Passed'
    BY <1>2, <1>5 DEF IInv, Places, Passed
  <2>5. QED
    BY <2>2, <2>3, <2>4
<1>8. QED
  BY <1>6, <1>7 DEF IInv

-----------------------------------------------------------------------------
(* The work. *)

\* The work takes the lines of the pages for its rectangle, and what else was
\* in the rectangle is known to be lost.
LEMMA DeferredIoInv == ASSUME Screen, IInv, vmw_deferred_io PROVE IInv'
<1>1. PICK Q \in SUBSET Pixels : Q = Lines(fbwork.pages)
  BY LinesIs DEF IInv, FbTypeOK
<1>2. PICK A \in SUBSET Pixels : A = Around(Q) /\ Q \subseteq A
  BY AroundIs
<1>3. /\ fbwork.pc = "idle" /\ UNCHANGED <<fbdraw, fbmode>>
      /\ fbwork' = [fbwork EXCEPT !.pending = FALSE, !.pages = {}, !.pc = "flush"]
  BY DEF vmw_deferred_io
<1>4. IF A = {} THEN UNCHANGED <<fbpix, fbdirty>>
      ELSE /\ fbdirty' = [fbdirty EXCEPT !.rect = A]
           /\ fbpix' = Forget([fbpix EXCEPT !.lost = fbpix.lost \ A], fbdirty.rect \ A)
  <2>1. A = Around(UNION {Line(y) : y \in fbwork.pages})
    BY <1>1, <1>2, Zenon DEF Lines
  <2>2. QED
    BY <2>1, Zenon DEF vmw_deferred_io
<1>5. /\ fbwork' \in [pending : BOOLEAN, stalled : BOOLEAN, pages : SUBSET (0 .. YRes - 1),
                      pc : {"idle", "flush", "copy"}, rect : SUBSET Pixels, row : 0 .. YRes]
      /\ fbwork'.pages = {} /\ fbwork'.pc = "flush" /\ fbwork'.rect = {}
  BY <1>3 DEF IInv, FbTypeOK, Places
<1>6. /\ fbpix' \in [undrawn : SUBSET Pixels, unseen : SUBSET Pixels, lost : SUBSET Pixels]
      /\ fbdirty' \in [active : BOOLEAN, rect : SUBSET Pixels]
      /\ Undone' = Undone /\ fbdirty'.active = fbdirty.active
      /\ \A p \in Undone : \/ p \in fbdirty.rect \/ p \in fbpix.lost \/ p \in Q
                           => p \in fbdirty'.rect \/ p \in fbpix'.lost
  <2>1. CASE A = {}
    BY <1>2, <1>4, <2>1 DEF IInv, FbTypeOK, Undone
  <2>2. CASE A # {}
    <3>1. PICK O \in SUBSET Pixels : O = fbpix.lost \ A
      BY DEF IInv, FbTypeOK
    <3>2. PICK px : px = [fbpix EXCEPT !.lost = O]
      OBVIOUS
    <3>3. /\ px \in [undrawn : SUBSET Pixels, unseen : SUBSET Pixels, lost : SUBSET Pixels]
          /\ px.undrawn = fbpix.undrawn /\ px.unseen = fbpix.unseen /\ px.lost = O
      BY <3>2 DEF IInv, FbTypeOK
    <3>4. PICK N \in SUBSET Pixels :
            N = O \cup ((fbdirty.rect \ A) \cap (fbpix.undrawn \cup fbpix.unseen))
      BY DEF IInv, FbTypeOK
    <3>5. fbpix' = [px EXCEPT !.lost = N]
      BY <1>4, <2>2, <3>1, <3>2, <3>3, <3>4 DEF Forget
    <3>6. /\ fbpix' \in [undrawn : SUBSET Pixels, unseen : SUBSET Pixels, lost : SUBSET Pixels]
          /\ fbpix'.undrawn = fbpix.undrawn /\ fbpix'.unseen = fbpix.unseen /\ fbpix'.lost = N
      BY <3>3, <3>5
    <3>7. /\ fbdirty' \in [active : BOOLEAN, rect : SUBSET Pixels]
          /\ fbdirty'.active = fbdirty.active /\ fbdirty'.rect = A
      BY <1>4, <2>2 DEF IInv, FbTypeOK
    <3>8. QED
      BY <1>2, <3>1, <3>4, <3>6, <3>7 DEF Undone
  <2>3. QED
    BY <2>1, <2>2
<1>7. FbTypeOK' /\ Places'
  BY <1>3, <1>5, <1>6 DEF IInv, FbTypeOK, Places
<1>8. ASSUME fbdirty'.active PROVE (Undone \subseteq Claimed /\ Looked /\ Passed)'
  <2>1. Undone' \subseteq Claimed'
    <3>1. fbwork.rect = {} /\ Undone \subseteq Claimed
      BY <1>3, <1>6, <1>8 DEF IInv, Places
    <3>2. QED
      BY <1>1, <1>3, <1>6, <3>1, ClaimedIs
  <2>2. Looked' /\ Passed'
    BY <1>5 DEF Looked, WorkComes, Passed
  <2>3. QED
    BY <2>1, <2>2
<1>9. QED
  BY <1>7, <1>8 DEF IInv

\* A flush that copies takes the rectangle over; one that does not leaves it,
\* where a work that is pending or a stall stands for it.
LEMMA FlushInv == ASSUME Screen, IInv, vmw_fb_dirty_flush PROVE IInv'
<1>1. /\ fbwork.pc = "flush" /\ fbwork.pages = {} /\ fbwork.rect = {}
      /\ UNCHANGED <<fbpix, fbdraw, fbmode>>
  BY DEF vmw_fb_dirty_flush, IInv, Places
<1>2. CASE fbmode.suspended
  <2>1. fbdirty' = fbdirty
        /\ fbwork' = [fbwork EXCEPT !.pc = "idle", !.stalled = ~fbwork.pending]
    BY <1>2 DEF vmw_fb_dirty_flush
  <2>2. /\ fbwork' \in [pending : BOOLEAN, stalled : BOOLEAN, pages : SUBSET (0 .. YRes - 1),
                        pc : {"idle", "flush", "copy"}, rect : SUBSET Pixels, row : 0 .. YRes]
        /\ fbwork'.pages = {} /\ fbwork'.pc = "idle" /\ fbwork'.rect = {}
        /\ fbwork'.pending \/ fbwork'.stalled
    <3>1. CASE fbwork.pending
      BY <1>1, <2>1, <3>1 DEF IInv, FbTypeOK
    <3>2. CASE ~fbwork.pending
      BY <1>1, <2>1, <3>2 DEF IInv, FbTypeOK
    <3>3. QED
      BY <3>1, <3>2
  <2>3. FbTypeOK' /\ Places'
    BY <1>1, <2>1, <2>2 DEF IInv, FbTypeOK, Places
  <2>4. ASSUME fbdirty'.active PROVE (Undone \subseteq Claimed /\ Looked /\ Passed)'
    BY <1>1, <2>1, <2>2, <2>4, ClaimedIs DEF IInv, Undone, Looked, WorkComes, Passed
  <2>5. QED
    BY <2>3, <2>4 DEF IInv
<1>3. CASE ~fbmode.suspended /\ ~fbdirty.active
  <2>1. fbdirty' = fbdirty /\ fbwork' = [fbwork EXCEPT !.pc = "idle"]
    BY <1>3 DEF vmw_fb_dirty_flush
  <2>2. FbTypeOK' /\ Places'
    BY <1>1, <2>1 DEF IInv, FbTypeOK, Places
  <2>3. QED
    BY <1>3, <2>1, <2>2 DEF IInv
<1>4. CASE ~fbmode.suspended /\ fbdirty.active
  <2>1. /\ fbwork' = [fbwork EXCEPT !.pc = "copy", !.rect = fbdirty.rect, !.row = 0]
        /\ fbdirty' = [fbdirty EXCEPT !.rect = {}]
    BY <1>4 DEF vmw_fb_dirty_flush
  <2>2. /\ fbwork' \in [pending : BOOLEAN, stalled : BOOLEAN, pages : SUBSET (0 .. YRes - 1),
                        pc : {"idle", "flush", "copy"}, rect : SUBSET Pixels, row : 0 .. YRes]
        /\ fbwork'.pages = {} /\ fbwork'.pc = "copy" /\ fbwork'.rect = fbdirty.rect
        /\ fbwork'.row = 0
    <3>1. PICK r \in SUBSET Pixels : r = fbdirty.rect
      BY DEF IInv, FbTypeOK
    <3>2. PICK n \in 0 .. YRes : n = 0
      BY DEF Screen
    <3>3. fbwork' = [fbwork EXCEPT !.pc = "copy", !.rect = r, !.row = n]
      BY <2>1, <3>1, <3>2
    <3>4. QED
      BY <1>1, <3>1, <3>2, <3>3 DEF IInv, FbTypeOK
  <2>3. /\ fbdirty' \in [active : BOOLEAN, rect : SUBSET Pixels]
        /\ fbdirty'.active = fbdirty.active /\ fbdirty'.rect = {}
    BY <2>1 DEF IInv, FbTypeOK
  <2>4. FbTypeOK' /\ Places'
    BY <1>1, <1>4, <2>2, <2>3 DEF IInv, FbTypeOK, Places
  <2>5. Undone' \subseteq Claimed'
    BY <1>1, <1>4, <2>2, <2>3, ClaimedIs DEF IInv, Undone
  <2>6. Looked'
    BY <2>2, <2>3 DEF Looked
  <2>7. Passed'
    BY <1>1, <2>2 DEF IInv, FbTypeOK, Passed, Pixels
  <2>8. QED
    BY <2>4, <2>5, <2>6, <2>7 DEF IInv
<1>5. QED
  BY <1>2, <1>3, <1>4

\* A line that is copied leaves no pixel of the rectangle undrawn there.
LEMMA CopyLineInv == ASSUME Screen, IInv, CopyLine PROVE IInv'
<1>1. /\ fbwork.pc = "copy" /\ fbwork.row < YRes /\ fbwork.row \in 0 .. YRes
      /\ UNCHANGED <<fbdirty, fbdraw, fbmode>>
  BY DEF CopyLine, IInv, FbTypeOK
<1>2. PICK S \in SUBSET Pixels : S = Copied(fbwork.row) \cap fbpix.undrawn
  BY DEF IInv, FbTypeOK
<1>3. PICK n \in 0 .. YRes : n = fbwork.row + 1
  BY <1>1 DEF Screen
<1>4. /\ fbwork' \in [pending : BOOLEAN, stalled : BOOLEAN, pages : SUBSET (0 .. YRes - 1),
                      pc : {"idle", "flush", "copy"}, rect : SUBSET Pixels, row : 0 .. YRes]
      /\ fbwork'.row = n /\ fbwork'.rect = fbwork.rect /\ fbwork'.pages = fbwork.pages
      /\ fbwork'.pc = fbwork.pc /\ fbwork'.pending = fbwork.pending
      /\ fbwork'.stalled = fbwork.stalled
  <2>1. fbwork' = [fbwork EXCEPT !.row = n]
    BY <1>3 DEF CopyLine, IInv, FbTypeOK
  <2>2. QED
    BY <2>1 DEF IInv, FbTypeOK
<1>5. /\ fbpix' \in [undrawn : SUBSET Pixels, unseen : SUBSET Pixels, lost : SUBSET Pixels]
      /\ fbpix'.undrawn = fbpix.undrawn \ S /\ fbpix'.unseen = fbpix.unseen \cup S
      /\ fbpix'.lost = fbpix.lost
  <2>1. PICK U \in SUBSET Pixels, V \in SUBSET Pixels :
          U = fbpix.undrawn \ S /\ V = fbpix.unseen \cup S
    BY DEF IInv, FbTypeOK
  <2>2. fbpix' = [fbpix EXCEPT !.undrawn = U, !.unseen = V]
    BY <1>2, <2>1 DEF CopyLine, IInv, FbTypeOK
  <2>3. QED
    BY <2>1, <2>2 DEF IInv, FbTypeOK
<1>6. FbTypeOK' /\ Places'
  BY <1>1, <1>4, <1>5 DEF IInv, FbTypeOK, Places
<1>7. ASSUME fbdirty'.active PROVE (Undone \subseteq Claimed /\ Looked /\ Passed)'
  <2>1. Undone' \subseteq Claimed'
    BY <1>1, <1>2, <1>4, <1>5, <1>7, ClaimedIs DEF IInv, Undone
  <2>2. Looked'
    BY <1>1, <1>4, <1>7 DEF IInv, Looked, WorkComes
  <2>3. Passed'
    <3>1. ASSUME NEW p \in fbpix'.undrawn \cap fbwork'.rect, p[2] < fbwork'.row
          PROVE  p \in fbdirty'.rect \cup fbdraw' \/ fbmode'.pc = "marking"
      <4>1. /\ p \in Pixels /\ p[2] \in Int /\ p \in fbpix.undrawn /\ p \in fbwork.rect
            /\ p \notin S
        BY <1>4, <1>5, <3>1 DEF Screen, Pixels, IInv, FbTypeOK
      <4>2. CASE p[2] < fbwork.row
        BY <1>1, <1>7, <4>1, <4>2 DEF IInv, Passed
      <4>3. CASE ~(p[2] < fbwork.row)
        <5>1. p[2] = fbwork.row /\ p[2] <= fbwork.row
          BY <1>1, <1>3, <1>4, <3>1, <4>1, <4>3
        <5>2. p \in Copied(fbwork.row)
          BY <4>1, <5>1 DEF Copied
        <5>3. QED
          BY <1>2, <4>1, <5>2
      <4>4. QED
        BY <4>2, <4>3
    <3>2. QED
      BY <3>1 DEF Passed
  <2>4. QED
    BY <2>1, <2>2, <2>3
<1>8. QED
  BY <1>6, <1>7 DEF IInv

\* The update ends the copy: what is undrawn in the rectangle was drawn behind
\* it, the rest is on the screen or known to be lost.
LEMMA UpdateInv == ASSUME Screen, IInv, Update PROVE IInv'
<1>1. /\ fbwork.pc = "copy" /\ fbwork.row = YRes
      /\ fbwork' = [fbwork EXCEPT !.pc = "idle", !.rect = {}, !.row = 0]
      /\ UNCHANGED <<fbdirty, fbdraw, fbmode>>
  BY DEF Update
<1>2. /\ fbwork' \in [pending : BOOLEAN, stalled : BOOLEAN, pages : SUBSET (0 .. YRes - 1),
                      pc : {"idle", "flush", "copy"}, rect : SUBSET Pixels, row : 0 .. YRes]
      /\ fbwork'.pages = {} /\ fbwork.pages = {} /\ fbwork'.pc = "idle" /\ fbwork'.rect = {}
      /\ fbwork'.pending = fbwork.pending /\ fbwork'.stalled = fbwork.stalled
  <2>1. PICK n \in 0 .. YRes : n = 0
    BY DEF Screen
  <2>2. fbwork' = [fbwork EXCEPT !.pc = "idle", !.rect = {}, !.row = n]
    BY <1>1, <2>1
  <2>3. QED
    BY <1>1, <2>2 DEF IInv, FbTypeOK, Places
<1>3. /\ fbpix' \in [undrawn : SUBSET Pixels, unseen : SUBSET Pixels, lost : SUBSET Pixels]
      /\ fbpix'.undrawn = fbpix.undrawn
      /\ \/ fbpix'.unseen = fbpix.unseen \ fbwork.rect /\ fbpix'.lost = fbpix.lost \ fbwork.rect
         \/ /\ fbpix'.unseen = fbpix.unseen
            /\ fbpix'.lost = fbpix.lost \cup (fbwork.rect \cap Undone)
  <2>1. CASE fbpix' = [fbpix EXCEPT !.unseen = fbpix.unseen \ fbwork.rect,
                                    !.lost = fbpix.lost \ fbwork.rect]
    <3>1. PICK U \in SUBSET Pixels, V \in SUBSET Pixels :
            U = fbpix.unseen \ fbwork.rect /\ V = fbpix.lost \ fbwork.rect
      BY DEF IInv, FbTypeOK
    <3>2. fbpix' = [fbpix EXCEPT !.unseen = U, !.lost = V]
      BY <2>1, <3>1
    <3>3. QED
      BY <3>1, <3>2 DEF IInv, FbTypeOK
  <2>2. CASE fbpix' = Forget(fbpix, fbwork.rect)
    <3>1. PICK V \in SUBSET Pixels : V = fbpix.lost \cup (fbwork.rect \cap Undone)
      BY DEF IInv, FbTypeOK, Undone
    <3>2. fbpix' = [fbpix EXCEPT !.lost = V]
      BY <2>2, <3>1 DEF IInv, FbTypeOK, Forget, Undone
    <3>3. QED
      BY <3>1, <3>2 DEF IInv, FbTypeOK
  <2>3. QED
    BY <2>1, <2>2 DEF Update, IInv, FbTypeOK
<1>4. FbTypeOK' /\ Places'
  BY <1>1, <1>2, <1>3 DEF IInv, FbTypeOK, Places
<1>5. ASSUME fbdirty'.active PROVE (Undone \subseteq Claimed /\ Looked /\ Passed)'
  <2>1. ASSUME NEW p \in Undone' PROVE p \in Claimed'
    <3>1. p \in Pixels /\ p[2] \in Int /\ p[2] < YRes /\ p \in Undone
      BY <1>3 DEF IInv, FbTypeOK, Undone, Pixels, Screen
    <3>2. p \in Claimed
      BY <1>1, <1>5, <3>1 DEF IInv
    <3>3. CASE p \in fbpix.undrawn \cap fbwork.rect
      <4>1. p \in fbdirty.rect \cup fbdraw \/ fbmode.pc = "marking"
        BY <1>1, <1>5, <3>1, <3>3 DEF IInv, Passed
      <4>2. QED
        BY <1>1, <3>1, <4>1, ClaimedIs
    <3>4. CASE p \notin fbwork.rect
      BY <1>1, <1>2, <1>3, <3>2, <3>4, ClaimedIs
    <3>5. CASE p \in fbwork.rect /\ p \notin fbpix.undrawn
      BY <1>3, <3>1, <3>5, ClaimedIs DEF Undone
    <3>6. QED
      BY <3>3, <3>4, <3>5
  <2>2. Looked' /\ Passed'
    BY <1>1, <1>2, <1>5 DEF IInv, Looked, WorkComes, Passed
  <2>3. QED
    BY <2>1, <2>2
<1>6. QED
  BY <1>4, <1>5 DEF IInv

-----------------------------------------------------------------------------
(* Off and on. *)

\* Off stops the drawing to vram.
LEMMA OffInv == ASSUME Screen, IInv, vmw_fb_off PROVE IInv'
<1>1. /\ fbdirty' = [fbdirty EXCEPT !.active = FALSE] /\ UNCHANGED <<fbpix, fbwork, fbdraw>>
      /\ fbmode' = [fbmode EXCEPT !.pc = "flushing"]
  BY DEF vmw_fb_off
<1>2. FbTypeOK' /\ Places' /\ ~fbdirty'.active
  BY <1>1 DEF IInv, FbTypeOK, Places
<1>3. QED
  BY <1>2 DEF IInv

\* Vram goes only when no copy is under way.
LEMMA FlushScheduledWorkInv == ASSUME Screen, IInv, FlushScheduledWork PROVE IInv'
<1>1. /\ fbmode.pc = "flushing" /\ fbwork.pc = "idle"
      /\ fbmode' = [fbmode EXCEPT !.pc = "off", !.mapped = FALSE]
      /\ UNCHANGED <<fbpix, fbdirty, fbwork, fbdraw>>
  BY DEF FlushScheduledWork
<1>2. FbTypeOK' /\ Places' /\ ~fbdirty'.active
  BY <1>1 DEF IInv, FbTypeOK, Places
<1>3. QED
  BY <1>2 DEF IInv

\* Everything must be drawn again, and all of it is about to be marked.
LEMMA OnInv == ASSUME Screen, IInv, vmw_fb_on PROVE IInv'
<1>1. fbmode.pc = "off" /\ ~fbdirty.active /\ UNCHANGED <<fbwork, fbdraw>>
  BY DEF vmw_fb_on, IInv, Places
<1>2. CASE /\ fbmode' = [fbmode EXCEPT !.pc = "marking", !.mapped = TRUE]
           /\ fbdirty' = [fbdirty EXCEPT !.active = TRUE]
           /\ fbpix' = [undrawn |-> Pixels, unseen |-> {}, lost |-> {}]
  <2>1. FbTypeOK' /\ Places' /\ fbmode'.pc = "marking"
    BY <1>1, <1>2 DEF IInv, FbTypeOK, Places
  <2>2. Undone' = Pixels
    BY <1>2 DEF Undone
  <2>3. Undone' \subseteq Claimed'
    BY <2>1, <2>2, ClaimedIs
  <2>4. Looked' /\ Passed'
    BY <2>1 DEF Looked, WorkComes, Passed
  <2>5. QED
    BY <2>1, <2>3, <2>4 DEF IInv
<1>3. CASE fbmode' = [fbmode EXCEPT !.pc = "marking"] /\ UNCHANGED <<fbdirty, fbpix>>
  <2>1. FbTypeOK' /\ Places' /\ ~fbdirty'.active
    BY <1>1, <1>3 DEF IInv, FbTypeOK, Places
  <2>2. QED
    BY <2>1 DEF IInv
<1>4. QED
  BY <1>2, <1>3 DEF vmw_fb_on

\* The whole screen is marked, and the work is scheduled.
LEMMA OnMarkInv == ASSUME Screen, IInv, FbOnMark PROVE IInv'
<1>1. PICK A \in SUBSET Pixels : A = Around(fbdirty.rect \cup Pixels) /\ Pixels \subseteq A
  BY AroundIs DEF IInv, FbTypeOK
<1>2. /\ fbmode.pc = "marking" /\ fbdirty' = [fbdirty EXCEPT !.rect = A]
      /\ fbwork' = schedule_delayed_work(fbwork) /\ UNCHANGED <<fbpix, fbdraw>>
      /\ fbmode' = [fbmode EXCEPT !.pc = IF fbmode.mapped THEN "on" ELSE "off"]
  BY <1>1 DEF FbOnMark, IInv, FbTypeOK
<1>3. /\ fbdirty' \in [active : BOOLEAN, rect : SUBSET Pixels]
      /\ fbdirty'.active = fbdirty.active /\ fbdirty'.rect = A
  BY <1>2 DEF IInv, FbTypeOK
<1>4. /\ fbwork' \in [pending : BOOLEAN, stalled : BOOLEAN, pages : SUBSET (0 .. YRes - 1),
                      pc : {"idle", "flush", "copy"}, rect : SUBSET Pixels, row : 0 .. YRes]
      /\ fbwork'.pages = fbwork.pages /\ fbwork'.pc = fbwork.pc
      /\ fbwork'.rect = fbwork.rect /\ fbwork'.pending = TRUE
  BY <1>2, ScheduledIs DEF IInv
<1>5. FbTypeOK' /\ Places'
  BY <1>2, <1>3, <1>4 DEF IInv, FbTypeOK, Places
<1>6. ASSUME fbdirty'.active PROVE (Undone \subseteq Claimed /\ Looked /\ Passed)'
  <2>1. Undone' \subseteq Claimed'
    BY <1>1, <1>2, <1>3, ClaimedIs DEF IInv, FbTypeOK, Undone
  <2>2. Looked' /\ Passed'
    BY <1>1, <1>2, <1>3, <1>4 DEF IInv, FbTypeOK, Looked, WorkComes, Passed
  <2>3. QED
    BY <2>1, <2>2
<1>7. QED
  BY <1>5, <1>6 DEF IInv

\* Suspending and resuming touches no mark.
LEMMA SuspendedInv == ASSUME Screen, IInv, Suspended PROVE IInv'
<1>1. /\ fbmode' = [fbmode EXCEPT !.suspended = ~fbmode.suspended]
      /\ UNCHANGED <<fbpix, fbdirty, fbwork, fbdraw>>
  BY DEF Suspended, IInv, FbTypeOK
<1>2. /\ fbmode' \in [mapped : BOOLEAN, suspended : BOOLEAN,
                      pc : {"on", "flushing", "off", "marking"}]
      /\ fbmode'.mapped = fbmode.mapped /\ fbmode'.pc = fbmode.pc
  <2>1. CASE fbmode.suspended
    BY <1>1, <2>1 DEF IInv, FbTypeOK
  <2>2. CASE ~fbmode.suspended
    BY <1>1, <2>2 DEF IInv, FbTypeOK
  <2>3. QED
    BY <2>1, <2>2
<1>3. FbTypeOK' /\ Places'
  BY <1>1, <1>2 DEF IInv, FbTypeOK, Places
<1>4. ASSUME fbdirty'.active PROVE (Undone \subseteq Claimed /\ Looked /\ Passed)'
  BY <1>1, <1>2, <1>4, ClaimedIs DEF IInv, Undone, Looked, WorkComes, Passed
<1>5. QED
  BY <1>3, <1>4 DEF IInv

-----------------------------------------------------------------------------
(* The invariant. *)

\* A step that changes nothing of the console keeps the invariant.
LEMMA StutterInv == ASSUME IInv, UNCHANGED fbVars PROVE IInv'
<1>1. UNCHANGED <<fbpix, fbdirty, fbwork, fbdraw, fbmode>>
  BY DEF fbVars
<1>2. FbTypeOK' /\ Places'
  BY <1>1 DEF IInv, FbTypeOK, Places
<1>3. fbdirty'.active => (Undone \subseteq Claimed /\ Looked /\ Passed)'
  BY <1>1, ClaimedIs DEF IInv, Undone, Looked, WorkComes, Passed
<1>4. QED
  BY <1>2, <1>3 DEF IInv

\* Nothing is drawn at the end of vmw_fb_init.
LEMMA InitInv == ASSUME Screen, FbInit PROVE IInv
<1>1. /\ fbpix = [undrawn |-> {}, unseen |-> {}, lost |-> {}]
      /\ fbdirty = [active |-> TRUE, rect |-> {}] /\ fbdraw = {}
      /\ fbwork = [pending |-> FALSE, stalled |-> FALSE, pages |-> {}, pc |-> "idle",
                   rect |-> {}, row |-> 0]
      /\ fbmode = [mapped |-> TRUE, suspended |-> FALSE, pc |-> "on"]
  BY DEF FbInit
<1>2. FbTypeOK
  <2>1. 0 \in 0 .. YRes
    BY DEF Screen
  <2>2. QED
    BY <1>1, <2>1 DEF FbTypeOK
<1>3. Places /\ Undone = {} /\ Looked /\ Passed
  BY <1>1 DEF Places, Undone, Looked, Passed
<1>4. QED
  BY <1>2, <1>3 DEF IInv

\* Every step keeps the invariant.
LEMMA NextInv == ASSUME Screen, IInv, [FbNext]_fbVars PROVE IInv'
<1>1. CASE UNCHANGED fbVars
  BY <1>1, StutterInv
<1>2. CASE vmw_fb_fillrect \/ FillrectMark \/ PageWrite
  BY <1>2, FillrectInv, FillrectMarkInv, PageWriteInv
<1>3. CASE vmw_deferred_io \/ vmw_fb_dirty_flush \/ CopyLine \/ Update
  BY <1>3, DeferredIoInv, FlushInv, CopyLineInv, UpdateInv
<1>4. CASE vmw_fb_off \/ FlushScheduledWork \/ vmw_fb_on \/ FbOnMark \/ Suspended
  BY <1>4, OffInv, FlushScheduledWorkInv, OnInv, OnMarkInv, SuspendedInv
<1>5. QED
  BY <1>1, <1>2, <1>3, <1>4 DEF FbNext

\* What is drawn and not shown is claimed at every point of the drawing, the
\* delayed work and its copy (vmw_fb_dirty_mark, vmw_fb_dirty_flush), on a
\* screen of any size.
THEOREM Invariant == ASSUME Screen PROVE FbSpec => []IInv
<1>1. FbInit => IInv
  BY InitInv
<1>2. IInv /\ [FbNext]_fbVars => IInv'
  BY NextInv
<1>3. QED
  BY <1>1, <1>2, PTL DEF FbSpec

\* Every field of the console keeps its type: rectangles stay on the screen, the
\* copy (vmw_fb_dirty_flush) stays within its lines.
THEOREM TypeCorrect == ASSUME Screen PROVE FbSpec => []FbTypeOK
<1>1. IInv => FbTypeOK
  BY DEF IInv
<1>2. QED
  BY <1>1, Invariant, PTL

\* While the console has vram, what it has drawn and not shown is marked or known
\* to be lost, a mark has work that comes for it (vmw_fb_dirty_mark,
\* vmw_deferred_io), and vram is mapped while a copy runs (vmw_fb_off).
THEOREM DrawnIsMarked == ASSUME Screen PROVE FbSpec => []DrawnIsFlushed
<1>1. IInv => DrawnIsFlushed
  BY DEF IInv, Places, Undone, Looked, DrawnIsFlushed
<1>2. QED
  BY <1>1, Invariant, PTL

-----------------------------------------------------------------------------
(* Mode setting (VmwKms), as predicates of a world. *)

Things == Bufs \cup Videos

ThingType ==
  [surface : BOOLEAN, refs : Int, base : Int, handle : KFiles \cup {None},
   ne : {"no", "vram", "gmr"}]

FbType ==
  [live : BOOLEAN, obj : Bufs \cup {None}, file : KFiles \cup {None}, size : Sizes \cup {0}]

CrtcType ==
  [fb : Fbs \cup {None}, mode : Sizes \cup {0}, enabled : BOOLEAN, cursor : Bufs \cup {None},
   defined : BOOLEAN, buffer : Sizes \cup {0}, active : BOOLEAN]

StreamType == [claimed : KFiles \cup {None}, buf : Videos \cup {None}, paused : BOOLEAN]

OpType ==
  [k : {"none"}]
    \cup [k : {"paused", "moved"}, u : Units, f : Fbs, size : Sizes, ok : BOOLEAN]
    \cup [k : {"cleanup"}, f : Fbs, left : SUBSET Units]

DriverType ==
  [sou : BOOLEAN, fb : Fbs \cup {None}, con : BOOLEAN, on : BOOLEAN, ne : BOOLEAN, op : OpType]

DisplayType ==
  [screen : [Units -> {None, "backed", "freed"}], shown : SUBSET Units,
   stream : Videos \cup {None}, hung : BOOLEAN]

Displays ==
  [fb : [Fbs -> FbType], crtc : [Units -> CrtcType], obj : [Things -> ThingType],
   strm : StreamType, drv : DriverType, dev : DisplayType]

If1(P) == IF P THEN 1 ELSE 0
FbsOf(W, o) == {f \in Fbs : W.fb[f].live /\ W.fb[f].obj = o}
CursorsOf(W, o) == {u \in Units : W.crtc[u].cursor = o}

\* The counts of a buffer, which a call under way has referenced j times more.
Counted(W, o, j) ==
  /\ W.obj[o].base = If1(W.obj[o].handle # None) + Cardinality(FbsOf(W, o))
  /\ W.obj[o].refs = If1(W.obj[o].base > 0) + Cardinality(FbsOf(W, o))
                       + Cardinality(CursorsOf(W, o)) + If1(W.strm.buf = o) + j

\* The one such buffer is x.
Referenced(W, x) == \A o \in Things : Counted(W, o, If1(o = x))

\* Who needs a buffer's pin.
Streams(W, o) == W.strm.buf = o /\ ~W.strm.paused
Scans(W, o) ==
  ~W.drv.sou /\ W.drv.fb # None /\ W.drv.op.k # "paused" /\ W.fb[W.drv.fb].obj = o

Pins(W) ==
  /\ W.dev.stream # None =>
       W.dev.stream = W.strm.buf /\ ~W.strm.paused /\ W.obj[W.strm.buf].ne # "no"
  /\ W.strm.paused => W.strm.buf # None
  /\ W.drv.ne <=> W.drv.on
  /\ \A o \in Things : W.obj[o].ne # "no" => Streams(W, o) \/ Scans(W, o)

Shows(W) ==
  /\ \A f \in Fbs : W.fb[f].live => W.fb[f].obj # None
  /\ \A u \in Units : W.crtc[u].fb # None => W.fb[W.crtc[u].fb].live \/ W.dev.hung
  /\ \A u \in Units : W.dev.screen[u] = (IF W.crtc[u].defined THEN "backed" ELSE None)
  /\ W.drv.op.k # "none" => W.fb[W.drv.op.f].live

\* The framebuffer of all legacy units, and a mode set that changes it.
Legacy(W) ==
  /\ ~W.dev.hung
  /\ W.drv.fb # None => W.fb[W.drv.fb].live
  /\ W.drv.op.k # "moved" => (W.drv.fb = None <=> \A u \in Units : ~W.crtc[u].active)
  /\ W.drv.op.k \in {"none", "cleanup"} =>
       \A u \in Units : W.crtc[u].active => W.crtc[u].fb = W.drv.fb
  /\ W.drv.op.k \in {"paused", "moved"} =>
       /\ \A u \in Units : W.crtc[u].active => u = W.drv.op.u
       /\ W.crtc[W.drv.op.u].fb = W.drv.op.f
  /\ W.drv.op.k = "moved" => W.drv.fb = W.drv.op.f /\ W.drv.op.ok

Held(W, x) ==
  /\ W \in Displays /\ Referenced(W, x) /\ Pins(W) /\ Shows(W)
  /\ ~W.drv.sou => Legacy(W)

\* The crtcs that were looked at show the framebuffer only if they failed to
\* go off.
Cleaned(W) ==
  W.drv.op.k = "cleanup" =>
    \A u \in Units \ W.drv.op.left : W.crtc[u].fb = W.drv.op.f => W.dev.hung

\* The buffer the stream shows is pinned.
StreamPinned(W) == W.strm.buf # None /\ ~W.strm.paused => W.obj[W.strm.buf].ne # "no"

Sound(W, x) == Held(W, x) /\ StreamPinned(W)
Display(W) == Sound(W, None) /\ Cleaned(W)

-----------------------------------------------------------------------------
(* Worlds and their parts. *)

LEMMA ObjsIs == K!Objs = Things
  BY DEF K!Objs, Things

LEMMA DisplayParts ==
  ASSUME NEW W \in Displays
  PROVE  /\ W.fb \in [Fbs -> FbType] /\ W.crtc \in [Units -> CrtcType]
         /\ W.obj \in [Things -> ThingType] /\ W.strm \in StreamType
         /\ W.drv \in DriverType /\ W.dev \in DisplayType
         /\ W = [fb |-> W.fb, crtc |-> W.crtc, obj |-> W.obj, strm |-> W.strm, drv |-> W.drv,
                 dev |-> W.dev]
  BY DEF Displays

Made(fb, crtc, obj, strm, drv, dev) ==
  [fb |-> fb, crtc |-> crtc, obj |-> obj, strm |-> strm, drv |-> drv, dev |-> dev]

LEMMA MadeIs ==
  ASSUME NEW fb \in [Fbs -> FbType], NEW crtc \in [Units -> CrtcType],
         NEW obj \in [Things -> ThingType], NEW strm \in StreamType,
         NEW drv \in DriverType, NEW dev \in DisplayType
  PROVE  LET V == Made(fb, crtc, obj, strm, drv, dev)
         IN /\ V \in Displays /\ V.fb = fb /\ V.crtc = crtc /\ V.obj = obj /\ V.strm = strm
            /\ V.drv = drv /\ V.dev = dev
<1> DEFINE V == Made(fb, crtc, obj, strm, drv, dev)
<1>1. V \in Displays
  BY DEF Made, Displays
<1>2. V.fb = fb /\ V.crtc = crtc /\ V.obj = obj /\ V.strm = strm /\ V.drv = drv /\ V.dev = dev
  BY DEF Made
<1>3. QED
  BY <1>1, <1>2

\* A change of one part, or of several.
LEMMA PartSet ==
  ASSUME NEW W \in Displays, NEW p
  PROVE  /\ [W EXCEPT !.fb = p] = Made(p, W.crtc, W.obj, W.strm, W.drv, W.dev)
         /\ [W EXCEPT !.crtc = p] = Made(W.fb, p, W.obj, W.strm, W.drv, W.dev)
         /\ [W EXCEPT !.obj = p] = Made(W.fb, W.crtc, p, W.strm, W.drv, W.dev)
         /\ [W EXCEPT !.strm = p] = Made(W.fb, W.crtc, W.obj, p, W.drv, W.dev)
         /\ [W EXCEPT !.drv = p] = Made(W.fb, W.crtc, W.obj, W.strm, p, W.dev)
         /\ [W EXCEPT !.dev = p] = Made(W.fb, W.crtc, W.obj, W.strm, W.drv, p)
  BY DEF Displays, Made

LEMMA CountsAre ==
  ASSUME NEW W, NEW o
  PROVE  /\ IsFiniteSet(FbsOf(W, o)) /\ Cardinality(FbsOf(W, o)) \in Nat
         /\ IsFiniteSet(CursorsOf(W, o)) /\ Cardinality(CursorsOf(W, o)) \in Nat
<1>1. FbsOf(W, o) \subseteq Fbs /\ CursorsOf(W, o) \subseteq Units
  BY DEF FbsOf, CursorsOf
<1>2. QED
  BY <1>1, KmsAssumption, FS_Subset, FS_CardinalityType

\* One more or one less of a finite set.
LEMMA CardMore ==
  ASSUME NEW S, NEW T, IsFiniteSet(S), NEW e, e \notin S, T = S \cup {e}
  PROVE  Cardinality(T) = Cardinality(S) + 1
  BY FS_AddElement

LEMMA CardLess ==
  ASSUME NEW S, NEW T, IsFiniteSet(S), NEW e \in S, T = S \ {e}
  PROVE  Cardinality(T) = Cardinality(S) - 1
  BY FS_RemoveElement

-----------------------------------------------------------------------------
(* Buffers: their references and pins. *)

\* V is W but for the buffer o.
OnlyThing(W, V, o) ==
  /\ V \in Displays /\ V.fb = W.fb /\ V.crtc = W.crtc /\ V.strm = W.strm /\ V.drv = W.drv
  /\ V.dev = W.dev
  /\ \A p \in Things \ {o} : V.obj[p] = W.obj[p]

ThingIs(r, base, refs, handle, ne) ==
  r.base = base /\ r.refs = refs /\ r.handle = handle /\ r.ne = ne

WithThing(W, o, r) == Made(W.fb, W.crtc, [W.obj EXCEPT ![o] = r], W.strm, W.drv, W.dev)

LEMMA ThingSet ==
  ASSUME NEW W \in Displays, NEW o \in Things, NEW r \in ThingType
  PROVE  LET V == WithThing(W, o, r) IN
         OnlyThing(W, V, o) /\ V.obj[o] = r /\ V.obj = [W.obj EXCEPT ![o] = r]
<1> DEFINE V == WithThing(W, o, r)
           q == [W.obj EXCEPT ![o] = r]
<1>1. q \in [Things -> ThingType] /\ q[o] = r /\ \A p \in Things \ {o} : q[p] = W.obj[p]
  BY DisplayParts
<1> HIDE DEF q
<1>2. /\ V \in Displays /\ V.fb = W.fb /\ V.crtc = W.crtc /\ V.obj = q /\ V.strm = W.strm
      /\ V.drv = W.drv /\ V.dev = W.dev
  BY <1>1, MadeIs, DisplayParts DEF WithThing, q
<1> HIDE DEF V
<1>3. OnlyThing(W, V, o) /\ V.obj[o] = r /\ V.obj = q
  BY <1>1, <1>2 DEF OnlyThing
<1>4. QED
  BY <1>3 DEF V, q

LEMMA ThingOf ==
  ASSUME NEW W \in Displays, NEW o \in Things
  PROVE  /\ W.obj[o] \in ThingType /\ W.obj[o].refs \in Int /\ W.obj[o].base \in Int
         /\ W.obj[o].handle \in KFiles \cup {None} /\ W.obj[o].ne \in {"no", "vram", "gmr"}
<1>1. W.obj[o] \in ThingType
  BY DisplayParts
<1>2. QED
  BY <1>1 DEF ThingType

\* A record of a buffer with other fields.
LEMMA RefsMade ==
  ASSUME NEW r \in ThingType, NEW n \in Int
  PROVE  /\ [r EXCEPT !.refs = n] \in ThingType
         /\ ThingIs([r EXCEPT !.refs = n], r.base, n, r.handle, r.ne)
  BY DEF ThingType, ThingIs

LEMMA BaseMade ==
  ASSUME NEW r \in ThingType, NEW n \in Int
  PROVE  /\ [r EXCEPT !.base = n] \in ThingType
         /\ ThingIs([r EXCEPT !.base = n], n, r.refs, r.handle, r.ne)
  BY DEF ThingType, ThingIs

LEMMA HandleMade ==
  ASSUME NEW r \in ThingType, NEW h \in KFiles \cup {None}
  PROVE  /\ [r EXCEPT !.handle = h] \in ThingType
         /\ ThingIs([r EXCEPT !.handle = h], r.base, r.refs, h, r.ne)
  BY DEF ThingType, ThingIs

LEMMA PinMade ==
  ASSUME NEW r \in ThingType, NEW e \in {"no", "vram", "gmr"}
  PROVE  /\ [r EXCEPT !.ne = e] \in ThingType
         /\ ThingIs([r EXCEPT !.ne = e], r.base, r.refs, r.handle, e)
  BY DEF ThingType, ThingIs

Changed(W, V, o, base, refs, handle, ne) ==
  OnlyThing(W, V, o) /\ ThingIs(V.obj[o], base, refs, handle, ne)

LEMMA ChangedTo ==
  ASSUME NEW W \in Displays, NEW o \in Things, NEW s \in ThingType, NEW a, NEW b, NEW c, NEW d,
         ThingIs(s, a, b, c, d)
  PROVE  Changed(W, WithThing(W, o, s), o, a, b, c, d)
<1>1. OnlyThing(W, WithThing(W, o, s), o) /\ WithThing(W, o, s).obj[o] = s
  BY ThingSet
<1>2. QED
  BY <1>1 DEF Changed

LEMMA RefIs ==
  ASSUME NEW W \in Displays, NEW o \in Things
  PROVE  LET r == W.obj[o] IN Changed(W, K!Ref(W, o), o, r.base, r.refs + 1, r.handle, r.ne)
<1> DEFINE r == W.obj[o]
           s == [r EXCEPT !.refs = r.refs + 1]
<1>0. r \in ThingType /\ r.refs + 1 \in Int
  BY ThingOf
<1>1. s \in ThingType /\ ThingIs(s, r.base, r.refs + 1, r.handle, r.ne)
  BY <1>0, RefsMade
<1>2. K!Ref(W, o) = WithThing(W, o, s)
  BY PartSet DEF K!Ref, WithThing
<1> HIDE DEF s
<1>3. QED
  BY <1>1, <1>2, ChangedTo

\* Releasing the last reference unpins.
LEMMA UnrefIs ==
  ASSUME NEW W \in Displays, NEW o \in Things
  PROVE  LET r == W.obj[o] IN
         Changed(W, K!Unref(W, o), o, r.base, r.refs - 1, r.handle,
                 IF r.refs = 1 THEN "no" ELSE r.ne)
<1> DEFINE r == W.obj[o]
           s == [r EXCEPT !.refs = r.refs - 1]
           q == [r EXCEPT !.refs = 0]
           t == [q EXCEPT !.ne = "no"]
<1>0. o # None
  BY KmsAssumption DEF Things
<1>1. s \in ThingType /\ ThingIs(s, r.base, r.refs - 1, r.handle, r.ne)
  <2>1. r \in ThingType /\ r.refs - 1 \in Int
    BY ThingOf
  <2>2. QED
    BY <2>1, RefsMade
<1>2. t \in ThingType /\ ThingIs(t, r.base, 0, r.handle, "no")
  <2>1. r \in ThingType /\ 0 \in Int
    BY ThingOf
  <2>2. q \in ThingType /\ ThingIs(q, r.base, 0, r.handle, r.ne)
    BY <2>1, RefsMade
  <2> HIDE DEF q
  <2>3. t \in ThingType /\ ThingIs(t, q.base, q.refs, q.handle, "no")
    BY <2>2, PinMade
  <2>4. QED
    BY <2>2, <2>3 DEF ThingIs
<1>3. [W EXCEPT !.obj[o].refs = @ - 1] = WithThing(W, o, s)
  BY PartSet DEF WithThing
<1>4. [W EXCEPT !.obj[o].refs = 0, !.obj[o].ne = "no"] = WithThing(W, o, t)
  <2>1. [W EXCEPT !.obj[o].refs = 0, !.obj[o].ne = "no"] = [W EXCEPT !.obj = [@ EXCEPT ![o] = t]]
    BY DisplayParts DEF Displays, ThingType
  <2>2. QED
    BY <2>1, PartSet DEF WithThing
<1>5. K!Unref(W, o) = WithThing(W, o, IF r.refs = 1 THEN t ELSE s)
  BY <1>0, <1>3, <1>4 DEF K!Unref
<1> HIDE DEF s, t
<1>6. CASE r.refs = 1
  <2>1. Changed(W, WithThing(W, o, t), o, r.base, 0, r.handle, "no")
    BY <1>2, ChangedTo
  <2>2. QED
    BY <1>5, <1>6, <2>1
<1>7. CASE r.refs # 1
  <2>1. Changed(W, WithThing(W, o, s), o, r.base, r.refs - 1, r.handle, r.ne)
    BY <1>1, ChangedTo
  <2>2. QED
    BY <1>5, <1>7, <2>1
<1>8. QED
  BY <1>6, <1>7

LEMMA UnpinIs ==
  ASSUME NEW W \in Displays, NEW o \in Things
  PROVE  LET r == W.obj[o] IN
         Changed(W, K!vmw_dmabuf_unpin(W, o), o, r.base, r.refs, r.handle, "no")
<1> DEFINE r == W.obj[o]
           s == [r EXCEPT !.ne = "no"]
<1>1. s \in ThingType /\ ThingIs(s, r.base, r.refs, r.handle, "no")
  BY ThingOf, PinMade
<1>2. K!vmw_dmabuf_unpin(W, o) = WithThing(W, o, s)
  BY PartSet DEF K!vmw_dmabuf_unpin, WithThing
<1> HIDE DEF s
<1>3. QED
  BY <1>1, <1>2, ChangedTo

LEMMA PinIs ==
  ASSUME NEW W \in Displays, NEW o \in Things, NEW e \in {"vram", "gmr"}
  PROVE  LET r == W.obj[o] IN
         Changed(W, [W EXCEPT !.obj[o].ne = e], o, r.base, r.refs, r.handle, e)
<1> DEFINE r == W.obj[o]
           s == [r EXCEPT !.ne = e]
<1>1. s \in ThingType /\ ThingIs(s, r.base, r.refs, r.handle, e)
  BY ThingOf, PinMade
<1>2. [W EXCEPT !.obj[o].ne = e] = WithThing(W, o, s)
  BY PartSet DEF WithThing
<1> HIDE DEF s
<1>3. QED
  BY <1>1, <1>2, ChangedTo

\* One change after another.
LEMMA ChangedTwice ==
  ASSUME NEW W, NEW V, NEW U, NEW o, NEW a, NEW b, NEW c, NEW d, NEW e, NEW g, NEW h, NEW i,
         Changed(W, V, o, a, b, c, d), Changed(V, U, o, e, g, h, i)
  PROVE  Changed(W, U, o, e, g, h, i)
  BY DEF Changed, OnlyThing

\* ttm_base_object_unref, and a handle that goes.
LEMMA BaseUnrefIs ==
  ASSUME NEW W \in Displays, NEW o \in Things
  PROVE  LET r == W.obj[o] IN
         Changed(W, K!ttm_base_object_unref(W, o), o, r.base - 1,
                 IF r.base = 1 THEN r.refs - 1 ELSE r.refs, r.handle,
                 IF r.base = 1 /\ r.refs = 1 THEN "no" ELSE r.ne)
<1> DEFINE r == W.obj[o]
           s == [r EXCEPT !.base = r.base - 1]
           V == WithThing(W, o, s)
<1>0. r.base \in Int /\ r.refs \in Int
  BY ThingOf
<1>1. s \in ThingType /\ ThingIs(s, r.base - 1, r.refs, r.handle, r.ne)
  <2>1. r \in ThingType /\ r.base - 1 \in Int
    BY ThingOf
  <2>2. QED
    BY <2>1, BaseMade
<1>2. [W EXCEPT !.obj[o].base = @ - 1] = V
  BY PartSet DEF WithThing
<1> HIDE DEF s
<1>3. OnlyThing(W, V, o) /\ V.obj[o] = s
  BY <1>1, ThingSet
<1>4. Changed(W, V, o, r.base - 1, r.refs, r.handle, r.ne) /\ V \in Displays
  BY <1>1, <1>3 DEF Changed, OnlyThing
<1>5. K!ttm_base_object_unref(W, o) = IF V.obj[o].base = 0 THEN K!Unref(V, o) ELSE V
  BY <1>2 DEF K!ttm_base_object_unref
<1> HIDE DEF V
<1>6. /\ V.obj[o].base = r.base - 1 /\ V.obj[o].refs = r.refs /\ V.obj[o].handle = r.handle
      /\ V.obj[o].ne = r.ne
  BY <1>4 DEF Changed, ThingIs
<1>7. CASE r.base = 1
  <2>1. Changed(V, K!Unref(V, o), o, r.base - 1, r.refs - 1, r.handle,
                IF r.refs = 1 THEN "no" ELSE r.ne)
    BY <1>4, <1>6, UnrefIs
  <2>2. Changed(W, K!Unref(V, o), o, r.base - 1, r.refs - 1, r.handle,
                IF r.refs = 1 THEN "no" ELSE r.ne)
    BY <1>4, <2>1, ChangedTwice
  <2>3. QED
    BY <1>0, <1>5, <1>6, <1>7, <2>2
<1>8. CASE r.base # 1
  BY <1>0, <1>4, <1>5, <1>6, <1>8
<1>9. QED
  BY <1>7, <1>8

LEMMA HandleGoneIs ==
  ASSUME NEW W \in Displays, NEW o \in Things
  PROVE  LET r == W.obj[o] IN
         Changed(W, K!HandleGone(W, o), o, r.base - 1,
                 IF r.base = 1 THEN r.refs - 1 ELSE r.refs, None,
                 IF r.base = 1 /\ r.refs = 1 THEN "no" ELSE r.ne)
<1> DEFINE r == W.obj[o]
           s == [r EXCEPT !.handle = None]
           V == WithThing(W, o, s)
<1>1. s \in ThingType /\ ThingIs(s, r.base, r.refs, None, r.ne)
  BY ThingOf, HandleMade
<1>2. K!HandleGone(W, o) = K!ttm_base_object_unref(V, o)
  BY PartSet DEF K!HandleGone, WithThing
<1> HIDE DEF s
<1>3. OnlyThing(W, V, o) /\ V.obj[o] = s
  BY <1>1, ThingSet
<1>4. Changed(W, V, o, r.base, r.refs, None, r.ne) /\ V \in Displays
  BY <1>1, <1>3 DEF Changed, OnlyThing
<1> HIDE DEF V
<1>5. /\ V.obj[o].base = r.base /\ V.obj[o].refs = r.refs /\ V.obj[o].handle = None
      /\ V.obj[o].ne = r.ne
  BY <1>4 DEF Changed, ThingIs
<1>6. QED
  BY <1>2, <1>4, <1>5, BaseUnrefIs, ChangedTwice

LEMMA HeldParts ==
  ASSUME NEW W, NEW x, Held(W, x)
  PROVE  /\ W \in Displays /\ Referenced(W, x) /\ Pins(W) /\ Shows(W)
         /\ ~W.drv.sou => Legacy(W)
  BY DEF Held

LEMMA StreamOf ==
  ASSUME NEW W \in Displays
  PROVE  /\ W.strm.buf \in Videos \cup {None} /\ W.dev.stream \in Videos \cup {None}
         /\ W.strm.paused \in BOOLEAN /\ W.strm.claimed \in KFiles \cup {None}
         /\ None \notin Things /\ Videos \subseteq Things /\ Bufs \subseteq Things
  BY DisplayParts, KmsAssumption DEF StreamType, DisplayType, Things

\* What keeps a buffer's pin right when nothing but buffers changes.
PinKept(W, V, o) ==
  /\ V.obj[o].ne = "no" => W.obj[o].ne = "no" \/ W.dev.stream # o
  /\ V.obj[o].ne # "no" => W.obj[o].ne # "no" \/ Streams(W, o) \/ Scans(W, o)

\* The buffers change alone.
LEMMA ThingsKeep ==
  ASSUME NEW W, NEW x, Held(W, x), NEW V \in Displays, NEW y,
         V.fb = W.fb, V.crtc = W.crtc, V.strm = W.strm, V.drv = W.drv, V.dev = W.dev,
         \A o \in Things : Counted(V, o, If1(o = y)) /\ PinKept(W, V, o)
  PROVE  Held(V, y)
<1>1. Referenced(V, y)
  BY DEF Referenced
<1>2. Pins(V)
  <2>1. Pins(W)
    BY HeldParts
  <2>2. ASSUME V.dev.stream # None
        PROVE  V.dev.stream = V.strm.buf /\ ~V.strm.paused /\ V.obj[V.strm.buf].ne # "no"
    <3>1. /\ W.dev.stream = W.strm.buf /\ ~W.strm.paused /\ W.obj[W.strm.buf].ne # "no"
      BY <2>1, <2>2 DEF Pins
    <3>2. W.strm.buf \in Things
      BY <2>2, <3>1, HeldParts, StreamOf
    <3>3. QED
      BY <3>1, <3>2 DEF PinKept
  <2>3. ASSUME NEW o \in Things, V.obj[o].ne # "no"
        PROVE  Streams(V, o) \/ Scans(V, o)
    <3>1. Streams(W, o) \/ Scans(W, o)
      BY <2>1, <2>3 DEF PinKept, Pins
    <3>2. QED
      BY <3>1 DEF Streams, Scans
  <2>4. (V.strm.paused => V.strm.buf # None) /\ (V.drv.ne <=> V.drv.on)
    BY <2>1 DEF Pins
  <2>5. QED
    BY <2>2, <2>3, <2>4 DEF Pins
<1>3. Shows(V)
  BY HeldParts DEF Shows
<1>4. ~V.drv.sou => Legacy(V)
  BY HeldParts DEF Legacy
<1>5. QED
  BY <1>1, <1>2, <1>3, <1>4 DEF Held

\* One buffer changes.
LEMMA ThingKeeps ==
  ASSUME NEW W, NEW x, Held(W, x), NEW V, NEW y, NEW o \in Things, OnlyThing(W, V, o),
         Counted(V, o, If1(o = y)), PinKept(W, V, o),
         \A p \in Things \ {o} : p = x <=> p = y
  PROVE  Held(V, y)
<1>1. ASSUME NEW p \in Things
      PROVE  Counted(V, p, If1(p = y)) /\ PinKept(W, V, p)
  <2>1. CASE p = o
    BY <2>1
  <2>2. CASE p # o
    <3>1. Counted(W, p, If1(p = x))
      BY HeldParts DEF Referenced
    <3>2. If1(p = x) = If1(p = y)
      BY <2>2 DEF If1
    <3>3. V.obj[p] = W.obj[p] /\ V.fb = W.fb /\ V.crtc = W.crtc /\ V.strm = W.strm
      BY <2>2 DEF OnlyThing
    <3>4. FbsOf(V, p) = FbsOf(W, p) /\ CursorsOf(V, p) = CursorsOf(W, p)
      BY <3>3 DEF FbsOf, CursorsOf
    <3>5. Counted(V, p, If1(p = y))
      BY <3>1, <3>2, <3>3, <3>4 DEF Counted
    <3>6. PinKept(W, V, p)
      BY <3>3 DEF PinKept
    <3>7. QED
      BY <3>5, <3>6
  <2>3. QED
    BY <2>1, <2>2
<1>2. V \in Displays /\ V.fb = W.fb /\ V.crtc = W.crtc /\ V.strm = W.strm /\ V.drv = W.drv
      /\ V.dev = W.dev
  BY DEF OnlyThing
<1>3. QED
  BY <1>1, <1>2, ThingsKeep

\* A pin stays, or the buffer is not the stream's.
PinStays(W, V, o) == V.obj[o].ne = W.obj[o].ne \/ W.strm.buf # o

LEMMA PinnedKeeps ==
  ASSUME NEW W \in Displays, StreamPinned(W), NEW V, V.strm = W.strm,
         \A o \in Things : PinStays(W, V, o)
  PROVE  StreamPinned(V)
<1>1. W.strm.buf # None => W.strm.buf \in Things
  BY StreamOf
<1>2. QED
  BY <1>1 DEF StreamPinned, PinStays

LEMMA ThingSound ==
  ASSUME NEW W, NEW x, Sound(W, x), NEW V, NEW y, NEW o \in Things, OnlyThing(W, V, o),
         Counted(V, o, If1(o = y)), PinKept(W, V, o), PinStays(W, V, o),
         \A p \in Things \ {o} : p = x <=> p = y
  PROVE  Sound(V, y)
<1>1. Held(V, y)
  BY ThingKeeps DEF Sound
<1>2. \A p \in Things : PinStays(W, V, p)
  BY DEF OnlyThing, PinStays
<1>3. W \in Displays /\ V.strm = W.strm
  BY HeldParts DEF Sound, OnlyThing
<1>4. StreamPinned(V)
  BY <1>2, <1>3, PinnedKeeps DEF Sound
<1>5. QED
  BY <1>1, <1>4 DEF Sound

LEMMA SameUses ==
  ASSUME NEW W, NEW V, V.fb = W.fb, V.crtc = W.crtc
  PROVE  \A o : FbsOf(V, o) = FbsOf(W, o) /\ CursorsOf(V, o) = CursorsOf(W, o)
  BY DEF FbsOf, CursorsOf

LEMMA RefKeeps ==
  ASSUME NEW W, Sound(W, None), NEW o \in Things
  PROVE  Sound(K!Ref(W, o), o)
<1> DEFINE V == K!Ref(W, o)
           r == W.obj[o]
<1>1. W \in Displays /\ Counted(W, o, 0) /\ None \notin Things
  BY HeldParts, StreamOf DEF Referenced, If1, Sound
<1>2. Changed(W, V, o, r.base, r.refs + 1, r.handle, r.ne)
  BY <1>1, RefIs
<1> HIDE DEF V
<1>3. OnlyThing(W, V, o) /\ V.obj[o].base = r.base /\ V.obj[o].refs = r.refs + 1
      /\ V.obj[o].handle = r.handle /\ V.obj[o].ne = r.ne
  BY <1>2 DEF Changed, ThingIs
<1>4. V.fb = W.fb /\ V.crtc = W.crtc /\ V.strm = W.strm
  BY <1>3 DEF OnlyThing
<1>5. Counted(V, o, If1(o = o))
  BY <1>1, <1>3, <1>4, SameUses, CountsAre, ThingOf DEF Counted, If1
<1>6. PinKept(W, V, o) /\ PinStays(W, V, o)
  BY <1>3 DEF PinKept, PinStays
<1>7. \A p \in Things \ {o} : p = None <=> p = o
  BY <1>1
<1>8. QED
  BY <1>3, <1>5, <1>6, <1>7, ThingSound DEF V

\* A call gives its reference back.
LEMMA UnrefLike ==
  ASSUME NEW W, NEW o \in Things, Sound(W, o), NEW V,
         Changed(W, V, o, W.obj[o].base, W.obj[o].refs - 1, W.obj[o].handle,
                 IF W.obj[o].refs = 1 THEN "no" ELSE W.obj[o].ne)
  PROVE  Sound(V, None)
<1> DEFINE r == W.obj[o]
<1>1. W \in Displays /\ Counted(W, o, 1) /\ None \notin Things /\ Pins(W)
  BY HeldParts, StreamOf DEF Referenced, If1, Sound
<1>3. OnlyThing(W, V, o) /\ V.obj[o].base = r.base /\ V.obj[o].refs = r.refs - 1
      /\ V.obj[o].handle = r.handle /\ V.obj[o].ne = (IF r.refs = 1 THEN "no" ELSE r.ne)
  BY DEF Changed, ThingIs
<1>4. V.fb = W.fb /\ V.crtc = W.crtc /\ V.strm = W.strm
  BY <1>3 DEF OnlyThing
<1>5. Counted(V, o, If1(o = None))
  BY <1>1, <1>3, <1>4, SameUses, CountsAre, ThingOf DEF Counted, If1
<1>6. r.refs = 1 => W.strm.buf # o
  BY <1>1, CountsAre, ThingOf DEF Counted, If1
<1>7. r.refs = 1 => W.dev.stream # o
  BY <1>1, <1>6 DEF Pins
<1>8. PinKept(W, V, o) /\ PinStays(W, V, o)
  BY <1>3, <1>6, <1>7 DEF PinKept, PinStays
<1>9. \A p \in Things \ {o} : p = o <=> p = None
  BY <1>1
<1>10. QED
  BY <1>3, <1>5, <1>8, <1>9, ThingSound

LEMMA UnrefKeeps ==
  ASSUME NEW W, NEW o \in Things, Sound(W, o)
  PROVE  Sound(K!Unref(W, o), None)
<1>1. W \in Displays
  BY HeldParts DEF Sound
<1>2. Changed(W, K!Unref(W, o), o, W.obj[o].base, W.obj[o].refs - 1, W.obj[o].handle,
              IF W.obj[o].refs = 1 THEN "no" ELSE W.obj[o].ne)
  BY <1>1, UnrefIs
<1>3. QED
  BY <1>2, UnrefLike

\* A handle goes, with the last reference or without.
LEMMA GoneKeeps ==
  ASSUME NEW W, Sound(W, None), NEW o \in Things, W.obj[o].handle # None, NEW V,
         V.fb = W.fb, V.crtc = W.crtc, V.strm = W.strm,
         V.obj[o] = K!HandleGone(W, o).obj[o]
  PROVE  Counted(V, o, If1(o = None)) /\ PinKept(W, V, o) /\ PinStays(W, V, o)
<1> DEFINE U == K!HandleGone(W, o)
           r == W.obj[o]
<1>1. W \in Displays /\ Counted(W, o, 0) /\ None \notin Things /\ Pins(W)
  BY HeldParts, StreamOf DEF Referenced, If1, Sound
<1>2. Changed(W, U, o, r.base - 1, IF r.base = 1 THEN r.refs - 1 ELSE r.refs, None,
              IF r.base = 1 /\ r.refs = 1 THEN "no" ELSE r.ne)
  BY <1>1, HandleGoneIs
<1> HIDE DEF U
<1>3. /\ U.obj[o].base = r.base - 1 /\ U.obj[o].handle = None
      /\ U.obj[o].refs = (IF r.base = 1 THEN r.refs - 1 ELSE r.refs)
      /\ U.obj[o].ne = (IF r.base = 1 /\ r.refs = 1 THEN "no" ELSE r.ne)
  BY <1>2 DEF Changed, ThingIs
<1>4. V.obj[o] = U.obj[o]
  BY DEF U
<1>5. r.base \in Int /\ r.refs \in Int /\ r.base = 1 + Cardinality(FbsOf(W, o))
  BY <1>1, ThingOf DEF Counted, If1
<1>6. /\ V.obj[o].base = Cardinality(FbsOf(W, o)) /\ V.obj[o].base \in Nat
      /\ r.base = 1 <=> V.obj[o].base = 0
  BY <1>3, <1>4, <1>5, CountsAre
<1>7. Counted(V, o, If1(o = None))
  BY <1>1, <1>3, <1>4, <1>5, <1>6, SameUses, CountsAre DEF Counted, If1
<1>8. r.base = 1 /\ r.refs = 1 => W.strm.buf # o /\ W.dev.stream # o
  <2>1. r.refs = 1 => W.strm.buf # o
    BY <1>1, <1>5, CountsAre DEF Counted, If1
  <2>2. QED
    BY <1>1, <2>1 DEF Pins
<1>9. PinKept(W, V, o) /\ PinStays(W, V, o)
  BY <1>3, <1>4, <1>8 DEF PinKept, PinStays
<1>10. QED
  BY <1>7, <1>9

LEMMA HandlesGoneKeep ==
  ASSUME NEW W, Sound(W, None), NEW file, file # None
  PROVE  LET V == K!HandlesGone(W, file) IN
         Sound(V, None) /\ V.crtc = W.crtc /\ V.drv = W.drv /\ V.dev = W.dev /\ V.strm = W.strm
<1> DEFINE q == [o \in Things |-> IF W.obj[o].handle = file THEN K!HandleGone(W, o).obj[o]
                                 ELSE W.obj[o]]
           V == K!HandlesGone(W, file)
<1>1. W \in Displays /\ Held(W, None)
  BY HeldParts DEF Sound
<1>2. ASSUME NEW o \in Things PROVE K!HandleGone(W, o).obj[o] \in ThingType
  <2>1. K!HandleGone(W, o) \in Displays
    BY <1>1, HandleGoneIs DEF Changed, OnlyThing
  <2>2. QED
    BY <2>1, ThingOf
<1>3. q \in [Things -> ThingType]
  BY <1>1, <1>2, ThingOf
<1>4. V = Made(W.fb, W.crtc, q, W.strm, W.drv, W.dev)
  BY <1>1, PartSet, ObjsIs DEF K!HandlesGone
<1> HIDE DEF V
<1>5. /\ V \in Displays /\ V.fb = W.fb /\ V.crtc = W.crtc /\ V.strm = W.strm /\ V.drv = W.drv
      /\ V.dev = W.dev /\ V.obj = q
  <2> HIDE DEF q
  <2> QED
    BY <1>1, <1>3, <1>4, MadeIs, DisplayParts
<1>6. ASSUME NEW o \in Things
      PROVE  Counted(V, o, If1(o = None)) /\ PinKept(W, V, o) /\ PinStays(W, V, o)
  <2>1. CASE W.obj[o].handle = file
    BY <1>5, <2>1, GoneKeeps
  <2>2. CASE W.obj[o].handle # file
    <3>1. V.obj[o] = W.obj[o]
      BY <1>5, <2>2
    <3>2. Counted(W, o, If1(o = None))
      BY HeldParts DEF Referenced, Sound
    <3>3. QED
      BY <1>5, <3>1, <3>2, SameUses DEF Counted, PinKept, PinStays
  <2>3. QED
    BY <2>1, <2>2
<1> HIDE DEF q
<1>7. Sound(V, None)
  <2>1. Held(V, None)
    BY <1>1, <1>5, <1>6, ThingsKeep
  <2>2. StreamPinned(V)
    BY <1>1, <1>5, <1>6, PinnedKeeps DEF Sound
  <2>3. QED
    BY <2>1, <2>2 DEF Sound
<1>8. QED
  BY <1>5, <1>7 DEF V

-----------------------------------------------------------------------------
(* The overlay stream, while a call has one more reference on x. *)

SameModes(W, V) ==
  /\ V.fb = W.fb /\ V.crtc = W.crtc /\ V.drv = W.drv
  /\ V.dev.screen = W.dev.screen /\ V.dev.hung = W.dev.hung

LEMMA HeldStream ==
  ASSUME NEW W, NEW x, Held(W, x), NEW V \in Displays, SameModes(W, V),
         Referenced(V, x), Pins(V)
  PROVE  Held(V, x)
<1>1. Shows(V)
  BY HeldParts DEF Shows, SameModes
<1>2. ~V.drv.sou => Legacy(V)
  BY HeldParts DEF Legacy, SameModes
<1>3. QED
  BY <1>1, <1>2 DEF Held

LEMMA CleanedKeeps ==
  ASSUME NEW W, Cleaned(W), NEW V, SameModes(W, V)
  PROVE  Cleaned(V)
  BY DEF Cleaned, SameModes

WithStream(W, s) == Made(W.fb, W.crtc, W.obj, s, W.drv, W.dev)
StreamAt(r, b, p) == [[r EXCEPT !.buf = b] EXCEPT !.paused = p]
WithDevice(W, d) == Made(W.fb, W.crtc, W.obj, W.strm, W.drv, d)

LEMMA StreamSet ==
  ASSUME NEW W \in Displays, NEW b \in Videos \cup {None}, NEW p \in BOOLEAN
  PROVE  LET V == WithStream(W, StreamAt(W.strm, b, p)) IN
         /\ V \in Displays /\ SameModes(W, V) /\ V.obj = W.obj
         /\ V.dev = W.dev /\ V.strm.buf = b /\ V.strm.paused = p
<1> DEFINE s == StreamAt(W.strm, b, p)
           V == WithStream(W, s)
<1>1. s \in StreamType /\ s.buf = b /\ s.paused = p /\ s.claimed = W.strm.claimed
  BY DisplayParts DEF StreamType, StreamAt
<1> HIDE DEF s
<1>2. /\ V \in Displays /\ V.fb = W.fb /\ V.crtc = W.crtc /\ V.obj = W.obj /\ V.strm = s
      /\ V.drv = W.drv /\ V.dev = W.dev
  BY <1>1, MadeIs, DisplayParts DEF WithStream
<1> HIDE DEF V
<1>3. SameModes(W, V)
  BY <1>1, <1>2 DEF SameModes
<1>4. QED
  BY <1>1, <1>2, <1>3 DEF V, s

LEMMA PutSet ==
  ASSUME NEW W \in Displays, NEW b \in Videos \cup {None}
  PROVE  LET V == [W EXCEPT !.dev.stream = b] IN
         /\ V \in Displays /\ SameModes(W, V) /\ V.obj = W.obj /\ V.strm = W.strm
         /\ V.dev.stream = b
<1> DEFINE d == [W.dev EXCEPT !.stream = b]
           V == WithDevice(W, d)
<1>1. d \in DisplayType /\ d.stream = b /\ d.screen = W.dev.screen /\ d.hung = W.dev.hung
  BY DisplayParts DEF DisplayType
<1>2. [W EXCEPT !.dev.stream = b] = V
  <2>1. [W EXCEPT !.dev.stream = b] = [W EXCEPT !.dev = d]
    OBVIOUS
  <2> HIDE DEF d
  <2>2. QED
    BY <2>1, PartSet DEF WithDevice
<1> HIDE DEF d
<1>3. /\ V \in Displays /\ V.fb = W.fb /\ V.crtc = W.crtc /\ V.obj = W.obj /\ V.strm = W.strm
      /\ V.drv = W.drv /\ V.dev = d
  BY <1>1, MadeIs, DisplayParts DEF WithDevice
<1> HIDE DEF V
<1>4. SameModes(W, V)
  BY <1>1, <1>3 DEF SameModes
<1>5. QED
  BY <1>1, <1>2, <1>3, <1>4

\* The stream's buffer does not need its pin.
Loose(W) == W.dev.stream = None
            /\ (W.obj[W.strm.buf].ne # "no" => Scans(W, W.strm.buf))

LEMMA StoppedPause ==
  ASSUME NEW W, NEW x, Held(W, x), W.strm.buf # None, Loose(W)
  PROVE  LET V == K!Stopped(W, TRUE) IN Sound(V, x) /\ SameModes(W, V)
<1> DEFINE b == W.strm.buf
           s == StreamAt(W.strm, b, TRUE)
           V == WithStream(W, s)
<1>1. W \in Displays /\ Referenced(W, x) /\ Pins(W) /\ b \in Videos
  BY HeldParts, StreamOf
<1>2. K!Stopped(W, TRUE) = V
  <2>1. s = [W.strm EXCEPT !.paused = TRUE]
    BY <1>1, DisplayParts DEF StreamType, StreamAt
  <2>2. [W EXCEPT !.strm.paused = TRUE] = [W EXCEPT !.strm = s]
    BY <2>1
  <2>3. QED
    BY <1>1, <2>2, PartSet DEF K!Stopped, WithStream
<1>3. /\ V \in Displays /\ SameModes(W, V) /\ V.obj = W.obj /\ V.dev = W.dev
      /\ V.strm.buf = b /\ V.strm.paused = TRUE
  <2>1. b \in Videos \cup {None} /\ TRUE \in BOOLEAN
    BY <1>1
  <2> HIDE DEF b
  <2>2. QED
    BY <1>1, <2>1, StreamSet
<1> HIDE DEF V
<1>4. Referenced(V, x)
  <2>1. \A o : FbsOf(V, o) = FbsOf(W, o) /\ CursorsOf(V, o) = CursorsOf(W, o)
    BY <1>3, SameUses DEF SameModes
  <2>2. QED
    BY <1>1, <1>3, <2>1 DEF Referenced, Counted
<1>5. Pins(V)
  <2>1. ASSUME NEW o \in Things, V.obj[o].ne # "no" PROVE Scans(V, o)
    <3>1. Scans(W, o)
      BY <1>1, <1>3, <2>1 DEF Pins, Streams, Loose
    <3>2. QED
      BY <1>3, <3>1 DEF Scans, SameModes
  <2>2. QED
    BY <1>1, <1>3, <2>1 DEF Pins, Loose, SameModes
<1>6. Held(V, x) /\ StreamPinned(V)
  BY <1>3, <1>4, <1>5, HeldStream DEF StreamPinned
<1>7. QED
  BY <1>2, <1>3, <1>6 DEF Sound

LEMMA StoppedLeave ==
  ASSUME NEW W, NEW x, Held(W, x), W.strm.buf # None, Loose(W)
  PROVE  LET V == K!Stopped(W, FALSE) IN
         Sound(V, x) /\ SameModes(W, V) /\ V.strm.buf = None
<1> DEFINE b == W.strm.buf
           r == W.obj[b]
           U == K!Unref(W, b)
           s == StreamAt(U.strm, None, FALSE)
           V == WithStream(U, s)
<1>1. W \in Displays /\ Referenced(W, x) /\ Pins(W) /\ b \in Videos /\ b \in Things
      /\ None \notin Things
  BY HeldParts, StreamOf
<1>2. Changed(W, U, b, r.base, r.refs - 1, r.handle, IF r.refs = 1 THEN "no" ELSE r.ne)
  BY <1>1, UnrefIs
<1> HIDE DEF U
<1>3. /\ OnlyThing(W, U, b) /\ U.obj[b].base = r.base /\ U.obj[b].refs = r.refs - 1
      /\ U.obj[b].handle = r.handle /\ U.obj[b].ne = (IF r.refs = 1 THEN "no" ELSE r.ne)
  BY <1>2 DEF Changed, ThingIs
<1>4. U \in Displays /\ U.fb = W.fb /\ U.crtc = W.crtc /\ U.strm = W.strm /\ U.drv = W.drv
      /\ U.dev = W.dev
  BY <1>3 DEF OnlyThing
<1>5. K!Stopped(W, FALSE) = V
  <2>1. [U EXCEPT !.strm.buf = None, !.strm.paused = FALSE] = [U EXCEPT !.strm = s]
    BY <1>4 DEF Displays, StreamAt
  <2>2. QED
    BY <1>4, <2>1, PartSet DEF K!Stopped, WithStream, U
<1>6. /\ V \in Displays /\ SameModes(U, V) /\ V.obj = U.obj /\ V.dev = U.dev
      /\ V.strm.buf = None /\ V.strm.paused = FALSE
  BY <1>4, StreamSet
<1> HIDE DEF V
<1>7. SameModes(W, V)
  BY <1>4, <1>6 DEF SameModes
<1>8. Referenced(V, x)
  <2> SUFFICES ASSUME NEW o \in Things PROVE Counted(V, o, If1(o = x))
    BY DEF Referenced
  <2>1. FbsOf(V, o) = FbsOf(W, o) /\ CursorsOf(V, o) = CursorsOf(W, o)
    BY <1>7, SameUses DEF SameModes
  <2>2. Counted(W, o, If1(o = x)) /\ W.obj[o].refs \in Int /\ W.obj[o].base \in Int
    BY <1>1, ThingOf DEF Referenced
  <2>3. CASE o = b
    BY <1>1, <1>3, <1>6, <2>1, <2>2, <2>3, CountsAre DEF Counted, If1
  <2>4. CASE o # b
    <3>1. V.obj[o] = W.obj[o]
      BY <1>3, <1>6, <2>4 DEF OnlyThing
    <3>2. If1(V.strm.buf = o) = If1(W.strm.buf = o)
      BY <1>1, <1>6, <2>4 DEF If1
    <3>3. QED
      BY <2>1, <2>2, <3>1, <3>2 DEF Counted
  <2>5. QED
    BY <2>3, <2>4
<1>9. Pins(V)
  <2>1. ASSUME NEW o \in Things, V.obj[o].ne # "no" PROVE Scans(V, o)
    <3>1. W.obj[o].ne # "no"
      BY <1>3, <1>6, <2>1 DEF OnlyThing
    <3>2. Scans(W, o)
      BY <1>1, <3>1 DEF Pins, Streams, Loose
    <3>3. QED
      BY <1>7, <3>2 DEF Scans, SameModes
  <2>2. QED
    BY <1>1, <1>4, <1>6, <1>7, <2>1 DEF Pins, Loose, SameModes
<1>10. Held(V, x) /\ StreamPinned(V)
  BY <1>6, <1>7, <1>8, <1>9, HeldStream DEF StreamPinned
<1>11. QED
  BY <1>5, <1>6, <1>7, <1>10 DEF Sound

LEMMA StopIs ==
  ASSUME NEW W, NEW pause, NEW intr, NEW i \in K!vmw_overlay_stop(W, pause, intr)
  PROVE  LET U == K!vmw_overlay_send_stop(W) IN
         \/ W.strm.buf = None /\ i = K!Ok(W)
         \/ W.strm.buf # None /\ W.strm.paused /\ i = K!Ok(K!Stopped(W, pause))
         \/ W.strm.buf # None /\ ~W.strm.paused /\ i = K!Failed(U)
         \/ /\ W.strm.buf # None /\ ~W.strm.paused
            /\ i = K!Ok(K!Stopped(K!vmw_dmabuf_unpin(U, W.strm.buf), pause))
<1> DEFINE U == K!vmw_overlay_send_stop(W)
           D == K!vmw_dmabuf_unpin(U, W.strm.buf)
           S == K!vmw_overlay_move_buffer(U, W.strm.buf, FALSE)
                  \cup (IF intr THEN K!MayFail("signal", U) ELSE {})
<1>1. S = {K!Ok(D)} \cup (IF intr THEN K!MayFail("signal", U) ELSE {})
  BY DEF K!vmw_overlay_move_buffer
<1>2. \A m \in S : m = K!Ok(D) \/ m = K!Failed(U)
  <2> HIDE DEF D, U
  <2> QED
    BY <1>1 DEF K!MayFail
<1> HIDE DEF D, U
<1>3. CASE W.strm.buf # None /\ ~W.strm.paused
  <2>1. PICK m \in S : i \in IF m.ok THEN {K!Ok(K!Stopped(m.w, pause))} ELSE {m}
    BY <1>3 DEF K!vmw_overlay_stop, K!Then, U
  <2> HIDE DEF S
  <2>2. CASE m = K!Ok(D)
    <3>1. m.ok /\ m.w = D
      BY <2>2 DEF K!Ok
    <3>2. QED
      BY <1>3, <2>1, <3>1 DEF D, U
  <2>3. CASE m = K!Failed(U)
    <3>1. ~m.ok
      BY <2>3 DEF K!Failed
    <3>2. QED
      BY <1>3, <2>1, <2>3, <3>1 DEF U
  <2>4. QED
    BY <1>2, <2>1, <2>2, <2>3 DEF S
<1>4. CASE W.strm.buf = None
  BY <1>4 DEF K!vmw_overlay_stop
<1>5. CASE W.strm.buf # None /\ W.strm.paused
  BY <1>5 DEF K!vmw_overlay_stop
<1>6. QED
  BY <1>3, <1>4, <1>5 DEF U

\* An outcome after which everything is as sound as before.
Streamed(W, i, x) == i.ok \in BOOLEAN /\ Sound(i.w, x) /\ SameModes(W, i.w)

LEMMA Outcomes ==
  ASSUME NEW V
  PROVE  /\ K!Ok(V).ok = TRUE /\ K!Ok(V).w = V
         /\ K!Failed(V).ok = FALSE /\ K!Failed(V).w = V
  BY DEF K!Ok, K!Failed

LEMMA SameTwice ==
  ASSUME NEW W, NEW V, NEW U, SameModes(W, V), SameModes(V, U)
  PROVE  SameModes(W, U)
  BY DEF SameModes

\* The device stops reading.
LEMMA SendStopKeeps ==
  ASSUME NEW W, NEW x, Sound(W, x)
  PROVE  LET U == K!vmw_overlay_send_stop(W) IN
         /\ Sound(U, x) /\ SameModes(W, U) /\ U.strm = W.strm /\ U.obj = W.obj
         /\ U.dev.stream = None
<1> DEFINE U == K!vmw_overlay_send_stop(W)
<1>1. W \in Displays /\ Referenced(W, x) /\ Pins(W)
  BY HeldParts DEF Sound
<1>2. /\ U \in Displays /\ SameModes(W, U) /\ U.obj = W.obj /\ U.strm = W.strm
      /\ U.dev.stream = None
  BY <1>1, PutSet DEF K!vmw_overlay_send_stop
<1> HIDE DEF U
<1>3. Referenced(U, x)
  BY <1>1, <1>2, SameUses DEF Referenced, Counted, SameModes
<1>4. Pins(U)
  BY <1>1, <1>2 DEF Pins, Streams, Scans, SameModes
<1>5. Sound(U, x)
  BY <1>1, <1>2, <1>3, <1>4, HeldStream DEF Sound, StreamPinned
<1>6. QED
  BY <1>2, <1>5 DEF U

\* Its buffer is unpinned.
LEMMA UnpinKeeps ==
  ASSUME NEW W, NEW x, Held(W, x), NEW o \in Things, W.dev.stream # o
  PROVE  LET U == K!vmw_dmabuf_unpin(W, o) IN
         Held(U, x) /\ OnlyThing(W, U, o) /\ U.obj[o].ne = "no"
<1> DEFINE U == K!vmw_dmabuf_unpin(W, o)
           r == W.obj[o]
<1>1. W \in Displays /\ Counted(W, o, If1(o = x))
  BY HeldParts DEF Referenced
<1>2. Changed(W, U, o, r.base, r.refs, r.handle, "no")
  BY <1>1, UnpinIs
<1> HIDE DEF U
<1>3. OnlyThing(W, U, o) /\ U.obj[o].base = r.base /\ U.obj[o].refs = r.refs
      /\ U.obj[o].handle = r.handle /\ U.obj[o].ne = "no"
  BY <1>2 DEF Changed, ThingIs
<1>4. U.fb = W.fb /\ U.crtc = W.crtc /\ U.strm = W.strm
  BY <1>3 DEF OnlyThing
<1>5. Counted(U, o, If1(o = x)) /\ PinKept(W, U, o)
  BY <1>1, <1>3, <1>4, SameUses DEF Counted, PinKept
<1>6. Held(U, x)
  BY <1>3, <1>5, ThingKeeps
<1>7. QED
  BY <1>3, <1>6 DEF U

LEMMA ThingModes ==
  ASSUME NEW W, NEW V, NEW o, OnlyThing(W, V, o)
  PROVE  SameModes(W, V)
  BY DEF OnlyThing, SameModes

LEMMA StopKeeps ==
  ASSUME NEW W, NEW x, Sound(W, x), NEW pause \in BOOLEAN, NEW intr,
         NEW i \in K!vmw_overlay_stop(W, pause, intr)
  PROVE  Streamed(W, i, x) /\ (i.ok /\ ~pause => i.w.strm.buf = None)
<1> DEFINE b == W.strm.buf
           U == K!vmw_overlay_send_stop(W)
           D == K!vmw_dmabuf_unpin(U, b)
<1>1. W \in Displays /\ Pins(W) /\ (b # None => b \in Things)
  BY HeldParts, StreamOf DEF Sound
<1>2. Sound(U, x) /\ SameModes(W, U) /\ U.strm = W.strm /\ U.dev.stream = None
  BY SendStopKeeps
<1> HIDE DEF U
<1>3. CASE b = None /\ i = K!Ok(W)
  <2>1. SameModes(W, W)
    BY DEF SameModes
  <2>2. QED
    BY <1>3, <2>1, Outcomes DEF Streamed
<1>4. CASE b # None /\ W.strm.paused /\ i = K!Ok(K!Stopped(W, pause))
  <2>1. Loose(W) /\ Held(W, x)
    BY <1>1, <1>4 DEF Loose, Pins, Streams, Sound
  <2> DEFINE V == K!Stopped(W, pause)
  <2>2. Sound(V, x) /\ SameModes(W, V) /\ (~pause => V.strm.buf = None)
    <3>1. CASE pause = TRUE
      BY <1>4, <2>1, <3>1, StoppedPause
    <3>2. CASE pause = FALSE
      BY <1>4, <2>1, <3>2, StoppedLeave
    <3>3. QED
      BY <3>1, <3>2
  <2> HIDE DEF V
  <2>3. QED
    BY <1>4, <2>2, Outcomes DEF Streamed, V
<1>5. CASE i = K!Failed(U)
  BY <1>2, <1>5, Outcomes DEF Streamed
<1>6. CASE b # None /\ i = K!Ok(K!Stopped(D, pause))
  <2>1. Held(D, x) /\ OnlyThing(U, D, b) /\ D.obj[b].ne = "no"
    BY <1>1, <1>2, <1>6, UnpinKeeps DEF Sound
  <2> HIDE DEF D
  <2>2. D.strm = W.strm /\ D.dev.stream = None /\ SameModes(W, D)
    <3>1. D.strm = U.strm /\ D.dev = U.dev
      BY <2>1 DEF OnlyThing
    <3>2. SameModes(U, D)
      BY <2>1, ThingModes
    <3>3. SameModes(W, D)
      BY <1>2, <3>2, SameTwice
    <3>4. QED
      BY <1>2, <3>1, <3>3
  <2>3. Loose(D) /\ D.strm.buf # None
    BY <1>6, <2>1, <2>2 DEF Loose
  <2> DEFINE V == K!Stopped(D, pause)
  <2>4. Sound(V, x) /\ SameModes(D, V) /\ (~pause => V.strm.buf = None)
    <3>1. CASE pause = TRUE
      BY <2>1, <2>3, <3>1, StoppedPause
    <3>2. CASE pause = FALSE
      BY <2>1, <2>3, <3>2, StoppedLeave
    <3>3. QED
      BY <3>1, <3>2
  <2> HIDE DEF V
  <2>5. SameModes(W, V)
    BY <2>2, <2>4, SameTwice
  <2>6. QED
    BY <1>6, <2>4, <2>5, Outcomes DEF Streamed, V
<1>7. QED
  BY <1>3, <1>4, <1>5, <1>6, StopIs DEF U, D

\* A stream starts from a buffer that has been pinned.
Started(W, o) ==
  [IF W.strm.buf = o THEN K!vmw_overlay_send_put(W, o)
   ELSE K!Ref(K!vmw_overlay_send_put(W, o), o)
     EXCEPT !.strm.buf = o, !.strm.paused = FALSE]

StartOf(W, i, o) ==
  \/ i = K!Failed(W)
  \/ \E e \in {"vram", "gmr"} : i = K!Ok(Started([W EXCEPT !.obj[o].ne = e], o))

LEMMA MoveIs ==
  ASSUME NEW W, NEW o, NEW i \in K!vmw_overlay_move_buffer(W, o, TRUE)
  PROVE  \/ i = K!Failed(W)
         \/ \E e \in {"vram", "gmr"} : i = K!Ok([W EXCEPT !.obj[o].ne = e])
<1>1. CASE W.drv.sou
  BY <1>1 DEF K!vmw_overlay_move_buffer, K!vmw_dmabuf_to_vram_or_gmr, K!MayFail
<1>2. CASE ~W.drv.sou
  BY <1>2 DEF K!vmw_overlay_move_buffer, K!vmw_dmabuf_to_vram
<1>3. QED
  BY <1>1, <1>2

LEMMA UpdateStreamIs ==
  ASSUME NEW W, NEW o, NEW intr, NEW i \in K!vmw_overlay_update_stream(W, o, intr)
  PROVE  \/ /\ W.strm.buf # o
            /\ \E s \in K!vmw_overlay_stop(W, FALSE, intr) :
                 IF s.ok THEN StartOf(s.w, i, o) ELSE i = s
         \/ W.strm.buf = o /\ ~W.strm.paused /\ i = K!Ok(K!vmw_overlay_send_put(W, o))
         \/ W.strm.buf = o /\ W.strm.paused /\ StartOf(W, i, o)
<1> DEFINE G(y) == {K!Ok(Started(y, o))}
           S(x) == K!vmw_overlay_move_buffer(x, o, TRUE)
                     \cup (IF intr THEN K!MayFail("signal", x) ELSE {})
           F(x) == UNION {IF m.ok THEN G(m.w) ELSE {m} : m \in S(x)}
<1>1. ASSUME NEW x, NEW k \in F(x) PROVE StartOf(x, k, o)
  <2>1. PICK m \in S(x) : k \in (IF m.ok THEN G(m.w) ELSE {m})
    BY <1>1
  <2>2. \/ m = K!Failed(x)
        \/ \E e \in {"vram", "gmr"} : m = K!Ok([x EXCEPT !.obj[o].ne = e])
    BY <2>1, MoveIs DEF K!MayFail
  <2> HIDE DEF S
  <2>3. CASE m = K!Failed(x)
    BY <2>1, <2>3, Outcomes DEF StartOf
  <2>4. ASSUME NEW e \in {"vram", "gmr"}, m = K!Ok([x EXCEPT !.obj[o].ne = e])
        PROVE  StartOf(x, k, o)
    <3> DEFINE y == [x EXCEPT !.obj[o].ne = e]
    <3> HIDE DEF y
    <3>1. m.ok /\ m.w = y
      BY <2>4, Outcomes DEF y
    <3>2. k = K!Ok(Started(y, o))
      BY <2>1, <3>1
    <3>3. QED
      BY <3>2 DEF StartOf, y
  <2>5. QED
    BY <2>2, <2>3, <2>4
<1>2. i \in IF W.strm.buf # o
            THEN UNION {IF s.ok THEN F(s.w) ELSE {s} : s \in K!vmw_overlay_stop(W, FALSE, intr)}
            ELSE IF ~W.strm.paused THEN {K!Ok(K!vmw_overlay_send_put(W, o))} ELSE F(W)
  BY Zenon DEF K!vmw_overlay_update_stream, K!Then, Started
<1> HIDE DEF F
<1>3. CASE W.strm.buf # o
  <2>1. PICK s \in K!vmw_overlay_stop(W, FALSE, intr) : i \in IF s.ok THEN F(s.w) ELSE {s}
    BY <1>2, <1>3
  <2>2. IF s.ok THEN StartOf(s.w, i, o) ELSE i = s
    BY <1>1, <2>1
  <2>3. QED
    BY <1>3, <2>2
<1>4. CASE W.strm.buf = o
  BY <1>1, <1>2, <1>4
<1>5. QED
  BY <1>3, <1>4

Starts(W, V, o, e) ==
  /\ V \in Displays /\ SameModes(W, V) /\ V.dev.stream = o
  /\ V.strm.buf = o /\ V.strm.paused = FALSE
  /\ \A p \in Things \ {o} : V.obj[p] = W.obj[p]
  /\ ThingIs(V.obj[o], W.obj[o].base, W.obj[o].refs + If1(W.strm.buf # o), W.obj[o].handle, e)

LEMMA StartedIs ==
  ASSUME NEW W \in Displays, NEW o \in Videos, NEW e \in {"vram", "gmr"}
  PROVE  Starts(W, Started([W EXCEPT !.obj[o].ne = e], o), o, e)
<1> DEFINE r == W.obj[o]
           Y == [W EXCEPT !.obj[o].ne = e]
           Z == K!vmw_overlay_send_put(Y, o)
           R == IF Y.strm.buf = o THEN Z ELSE K!Ref(Z, o)
           V == Started(Y, o)
<1>0. o \in Things
  BY DEF Things
<1>1. Changed(W, Y, o, r.base, r.refs, r.handle, e)
  BY <1>0, PinIs
<1> HIDE DEF Y
<1>2. /\ Y \in Displays /\ SameModes(W, Y) /\ Y.strm = W.strm
      /\ \A p \in Things \ {o} : Y.obj[p] = W.obj[p]
  <2>1. OnlyThing(W, Y, o)
    BY <1>1 DEF Changed
  <2>2. SameModes(W, Y)
    BY <2>1, ThingModes
  <2>3. QED
    BY <2>1, <2>2 DEF OnlyThing
<1>3. ThingIs(Y.obj[o], r.base, r.refs, r.handle, e)
  BY <1>1 DEF Changed
<1>4. /\ Z \in Displays /\ SameModes(Y, Z) /\ Z.obj = Y.obj /\ Z.strm = Y.strm
      /\ Z.dev.stream = o
  BY <1>2, PutSet DEF K!vmw_overlay_send_put
<1>5. V = [R EXCEPT !.strm.buf = o, !.strm.paused = FALSE]
  BY Zenon DEF Started
<1> HIDE DEF Z
<1>6. Changed(Z, K!Ref(Z, o), o, Z.obj[o].base, Z.obj[o].refs + 1, Z.obj[o].handle,
              Z.obj[o].ne)
  BY <1>0, <1>4, RefIs
<1>7. /\ R \in Displays /\ SameModes(Z, R) /\ R.strm = Z.strm /\ R.dev = Z.dev
      /\ \A p \in Things \ {o} : R.obj[p] = Z.obj[p]
  <2>1. CASE Y.strm.buf = o
    BY <1>4, <2>1 DEF SameModes
  <2>2. CASE Y.strm.buf # o
    <3>1. OnlyThing(Z, R, o)
      BY <1>6, <2>2 DEF Changed
    <3> HIDE DEF R
    <3>2. SameModes(Z, R)
      BY <3>1, ThingModes
    <3>3. QED
      BY <3>1, <3>2 DEF OnlyThing
  <2>3. QED
    BY <2>1, <2>2
<1>8. ThingIs(R.obj[o], r.base, r.refs + If1(W.strm.buf # o), r.handle, e)
  <2>1. r.refs \in Int
    BY <1>0, ThingOf
  <2>2. CASE Y.strm.buf = o
    BY <1>2, <1>3, <1>4, <2>1, <2>2 DEF ThingIs, If1
  <2>3. CASE Y.strm.buf # o
    BY <1>2, <1>3, <1>4, <1>6, <2>1, <2>3 DEF Changed, ThingIs, If1
  <2>4. QED
    BY <2>2, <2>3
<1> HIDE DEF R, V
<1>9. V = WithStream(R, StreamAt(R.strm, o, FALSE))
  <2>1. [R EXCEPT !.strm.buf = o, !.strm.paused = FALSE] = [R EXCEPT !.strm = StreamAt(R.strm, o, FALSE)]
    BY <1>7 DEF Displays, StreamAt
  <2>2. QED
    BY <1>5, <1>7, <2>1, PartSet DEF WithStream
<1>10. /\ V \in Displays /\ SameModes(R, V) /\ V.obj = R.obj /\ V.dev = R.dev
       /\ V.strm.buf = o /\ V.strm.paused = FALSE
  <2>1. o \in Videos \cup {None} /\ FALSE \in BOOLEAN
    OBVIOUS
  <2>2. QED
    BY <1>7, <1>9, <2>1, StreamSet
<1>11. SameModes(W, V)
  BY <1>2, <1>4, <1>7, <1>10, SameTwice
<1>12. \A p \in Things \ {o} : V.obj[p] = W.obj[p]
  BY <1>2, <1>4, <1>7, <1>10
<1>13. V.dev.stream = o /\ V.obj[o] = R.obj[o]
  BY <1>4, <1>7, <1>10
<1>14. Starts(W, V, o, e)
  BY <1>8, <1>10, <1>11, <1>12, <1>13 DEF Starts
<1>15. QED
  BY <1>14, Zenon DEF V, Y

LEMMA StartKeeps1 ==
  ASSUME NEW W, NEW x, Sound(W, x), NEW o \in Videos, W.strm.buf \in {None, o},
         NEW e \in {"vram", "gmr"}
  PROVE  LET V == Started([W EXCEPT !.obj[o].ne = e], o) IN Sound(V, x) /\ SameModes(W, V)
<1> DEFINE V == Started([W EXCEPT !.obj[o].ne = e], o)
           r == W.obj[o]
<1>1. W \in Displays /\ Referenced(W, x) /\ Pins(W) /\ o \in Things /\ None \notin Things
  BY HeldParts, StreamOf DEF Sound
<1>2. /\ V \in Displays /\ SameModes(W, V) /\ V.dev.stream = o
      /\ V.strm.buf = o /\ V.strm.paused = FALSE
      /\ \A p \in Things \ {o} : V.obj[p] = W.obj[p]
      /\ ThingIs(V.obj[o], r.base, r.refs + If1(W.strm.buf # o), r.handle, e)
  <2>1. Starts(W, V, o, e)
    BY <1>1, StartedIs
  <2> HIDE DEF V
  <2>2. QED
    BY <2>1 DEF Starts
<1> HIDE DEF V
<1>3. Referenced(V, x)
  <2> SUFFICES ASSUME NEW p \in Things PROVE Counted(V, p, If1(p = x))
    BY DEF Referenced
  <2>1. FbsOf(V, p) = FbsOf(W, p) /\ CursorsOf(V, p) = CursorsOf(W, p)
    BY <1>2, SameUses DEF SameModes
  <2>2. Counted(W, p, If1(p = x)) /\ W.obj[p].refs \in Int /\ W.obj[p].base \in Int
    BY <1>1, ThingOf DEF Referenced
  <2>3. CASE p = o
    <3>1. V.obj[o].base = r.base /\ V.obj[o].refs = r.refs + If1(W.strm.buf # o)
          /\ V.obj[o].handle = r.handle
      BY <1>2 DEF ThingIs
    <3>2. If1(p = x) \in Int
      BY DEF If1
    <3> HIDE DEF r
    <3>3. If1(V.strm.buf = o) = If1(W.strm.buf = o) + If1(W.strm.buf # o)
      BY <1>2 DEF If1
    <3>4. If1(W.strm.buf # o) \in Int /\ If1(W.strm.buf = o) \in Int /\ If1(r.base > 0) \in Int
      BY DEF If1
    <3>5. QED
      BY <2>1, <2>2, <2>3, <3>1, <3>2, <3>3, <3>4, CountsAre DEF Counted, r
  <2>4. CASE p # o
    <3>1. V.obj[p] = W.obj[p]
      BY <1>2, <2>4
    <3>2. If1(V.strm.buf = p) = If1(W.strm.buf = p)
      BY <1>1, <1>2, <2>4 DEF If1
    <3>3. QED
      BY <2>1, <2>2, <3>1, <3>2 DEF Counted
  <2>5. QED
    BY <2>3, <2>4
<1>4. Pins(V)
  <2>1. V.obj[o].ne # "no"
    BY <1>2 DEF ThingIs
  <2>2. ASSUME NEW p \in Things, V.obj[p].ne # "no", p # o
        PROVE  Scans(V, p)
    <3>1. W.obj[p].ne # "no" /\ W.strm.buf # p
      BY <1>1, <1>2, <2>2
    <3>2. Scans(W, p)
      BY <1>1, <3>1 DEF Pins, Streams
    <3>3. QED
      BY <1>2, <3>2 DEF Scans, SameModes
  <2>3. o # None /\ (V.drv.ne <=> V.drv.on)
    BY <1>1, <1>2 DEF Pins, SameModes
  <2>4. QED
    BY <1>2, <2>1, <2>2, <2>3 DEF Pins, Streams
<1>5. Held(V, x)
  BY <1>2, <1>3, <1>4, HeldStream DEF Sound
<1>6. V.obj[o].ne # "no"
  BY <1>2 DEF ThingIs
<1>7. Sound(V, x)
  BY <1>2, <1>5, <1>6 DEF Sound, StreamPinned
<1>8. QED
  BY <1>2, <1>7, Zenon DEF V

LEMMA StartKeeps ==
  ASSUME NEW W, NEW x, Sound(W, x), NEW o \in Videos, W.strm.buf \in {None, o}, NEW i,
         StartOf(W, i, o)
  PROVE  Streamed(W, i, x)
<1>1. CASE i = K!Failed(W)
  BY <1>1, Outcomes DEF Streamed, SameModes
<1>2. ASSUME NEW e \in {"vram", "gmr"}, i = K!Ok(Started([W EXCEPT !.obj[o].ne = e], o))
      PROVE  Streamed(W, i, x)
  <2> DEFINE V == Started([W EXCEPT !.obj[o].ne = e], o)
  <2>1. Sound(V, x) /\ SameModes(W, V)
    BY StartKeeps1
  <2> HIDE DEF V
  <2>2. QED
    BY <1>2, <2>1, Outcomes DEF Streamed, V
<1>3. QED
  BY <1>1, <1>2 DEF StartOf

LEMMA UpdateKeeps ==
  ASSUME NEW W, NEW x, Sound(W, x), NEW o \in Videos, NEW intr,
         NEW i \in K!vmw_overlay_update_stream(W, o, intr)
  PROVE  Streamed(W, i, x)
<1>1. ASSUME NEW s \in K!vmw_overlay_stop(W, FALSE, intr),
             IF s.ok THEN StartOf(s.w, i, o) ELSE i = s
      PROVE  Streamed(W, i, x)
  <2>1. Streamed(W, s, x) /\ (s.ok => s.w.strm.buf = None)
    BY StopKeeps
  <2>2. CASE s.ok
    <3>1. Sound(s.w, x) /\ SameModes(W, s.w) /\ s.w.strm.buf \in {None, o}
      BY <2>1, <2>2 DEF Streamed
    <3>2. Streamed(s.w, i, x)
      BY <1>1, <2>2, <3>1, StartKeeps
    <3>3. QED
      BY <3>1, <3>2, SameTwice DEF Streamed
  <2>3. CASE ~s.ok
    BY <1>1, <2>1, <2>3
  <2>4. QED
    BY <2>2, <2>3
<1>2. CASE W.strm.buf = o /\ ~W.strm.paused /\ i = K!Ok(K!vmw_overlay_send_put(W, o))
  <2> DEFINE U == K!vmw_overlay_send_put(W, o)
  <2>1. W \in Displays /\ Referenced(W, x) /\ Pins(W) /\ o \in Things
    BY HeldParts, StreamOf DEF Sound
  <2>2. /\ U \in Displays /\ SameModes(W, U) /\ U.obj = W.obj /\ U.strm = W.strm
        /\ U.dev.stream = o
    BY <2>1, PutSet DEF K!vmw_overlay_send_put
  <2> HIDE DEF U
  <2>3. Referenced(U, x)
    BY <2>1, <2>2, SameUses DEF Referenced, Counted, SameModes
  <2>4. StreamPinned(W) /\ StreamPinned(U)
    BY <2>2 DEF Sound, StreamPinned
  <2>5. Pins(U)
    <3>1. U.obj[o].ne # "no" /\ o # None
      BY <1>2, <2>1, <2>2, <2>4, StreamOf DEF StreamPinned
    <3>2. ASSUME NEW p \in Things, U.obj[p].ne # "no" PROVE Streams(U, p) \/ Scans(U, p)
      BY <2>1, <2>2, <3>2 DEF Pins, Streams, Scans, SameModes
    <3>3. (U.strm.paused => U.strm.buf # None) /\ (U.drv.ne <=> U.drv.on)
      BY <2>1, <2>2 DEF Pins, SameModes
    <3>4. QED
      BY <1>2, <2>2, <3>1, <3>2, <3>3 DEF Pins
  <2>6. Sound(U, x)
    BY <2>2, <2>3, <2>4, <2>5, HeldStream DEF Sound
  <2>7. QED
    BY <1>2, <2>2, <2>6, Outcomes DEF Streamed, U
<1>3. CASE W.strm.buf = o /\ W.strm.paused /\ StartOf(W, i, o)
  BY <1>3, StartKeeps
<1>4. QED
  BY <1>1, <1>2, <1>3, UpdateStreamIs

\* A pause, a stop and the end of a pause, none of which is interrupted.
LEMMA PauseKeeps ==
  ASSUME NEW W, NEW x, Sound(W, x), NEW V \in K!vmw_overlay_pause_all(W)
  PROVE  Sound(V, x) /\ SameModes(W, V)
<1>1. PICK i \in K!vmw_overlay_stop(W, TRUE, FALSE) : V = i.w
  BY DEF K!vmw_overlay_pause_all
<1>2. TRUE \in BOOLEAN
  OBVIOUS
<1>3. Streamed(W, i, x)
  BY <1>1, <1>2, StopKeeps
<1>4. QED
  BY <1>1, <1>3 DEF Streamed

LEMMA StopAllKeeps ==
  ASSUME NEW W, NEW x, Sound(W, x), NEW V \in K!vmw_overlay_stop_all(W)
  PROVE  Sound(V, x) /\ SameModes(W, V)
<1>1. PICK i \in K!vmw_overlay_stop(W, FALSE, FALSE) : V = i.w
  BY DEF K!vmw_overlay_stop_all
<1>2. FALSE \in BOOLEAN
  OBVIOUS
<1>3. Streamed(W, i, x)
  BY <1>1, <1>2, StopKeeps
<1>4. QED
  BY <1>1, <1>3 DEF Streamed

LEMMA SameSelf ==
  ASSUME NEW W
  PROVE  SameModes(W, W)
  BY DEF SameModes

LEMMA ResumeKeeps ==
  ASSUME NEW W, NEW x, Sound(W, x), NEW V \in K!vmw_overlay_resume_all(W)
  PROVE  Sound(V, x) /\ SameModes(W, V)
<1>1. CASE ~W.strm.paused
  BY <1>1, SameSelf DEF K!vmw_overlay_resume_all
<1>2. CASE W.strm.paused
  <2>1. PICK i \in K!vmw_overlay_update_stream(W, W.strm.buf, FALSE) : V = i.w
    BY <1>2 DEF K!vmw_overlay_resume_all
  <2>2. W.strm.buf \in Videos
    BY <1>2, HeldParts, StreamOf DEF Sound, Pins
  <2>3. Streamed(W, i, x)
    BY <2>1, <2>2, UpdateKeeps
  <2>4. QED
    BY <2>1, <2>3 DEF Streamed
<1>3. QED
  BY <1>1, <1>2

\* Who claims the stream.
LEMMA ClaimKeeps ==
  ASSUME NEW W, NEW x, Sound(W, x), NEW c \in KFiles \cup {None}
  PROVE  LET V == [W EXCEPT !.strm.claimed = c] IN Sound(V, x) /\ SameModes(W, V)
<1> DEFINE s == [W.strm EXCEPT !.claimed = c]
           V == WithStream(W, s)
<1>1. W \in Displays /\ Referenced(W, x) /\ Pins(W) /\ StreamPinned(W) /\ Held(W, x)
  BY HeldParts DEF Sound
<1>2. s \in StreamType /\ s.buf = W.strm.buf /\ s.paused = W.strm.paused
  BY <1>1, DisplayParts DEF StreamType
<1>3. [W EXCEPT !.strm.claimed = c] = V
  <2>1. [W EXCEPT !.strm.claimed = c] = [W EXCEPT !.strm = s]
    OBVIOUS
  <2> HIDE DEF s
  <2>2. QED
    BY <1>1, <2>1, PartSet DEF WithStream
<1> HIDE DEF s
<1>4. /\ V \in Displays /\ V.fb = W.fb /\ V.crtc = W.crtc /\ V.obj = W.obj /\ V.strm = s
      /\ V.drv = W.drv /\ V.dev = W.dev
  BY <1>1, <1>2, MadeIs, DisplayParts DEF WithStream
<1> HIDE DEF V
<1>5. SameModes(W, V)
  BY <1>4 DEF SameModes
<1>6. Referenced(V, x)
  BY <1>1, <1>2, <1>4, SameUses DEF Referenced, Counted
<1>7. Pins(V)
  BY <1>1, <1>2, <1>4 DEF Pins, Streams, Scans
<1>8. StreamPinned(V)
  BY <1>1, <1>2, <1>4 DEF StreamPinned
<1>9. Held(V, x)
  BY <1>1, <1>4, <1>5, <1>6, <1>7, HeldStream
<1>10. QED
  BY <1>3, <1>5, <1>8, <1>9 DEF Sound

LEMMA OverlayUnrefKeeps ==
  ASSUME NEW W, NEW x, Sound(W, x), NEW V \in K!vmw_overlay_unref(W)
  PROVE  Sound(V, x) /\ SameModes(W, V)
<1>1. PICK i \in K!vmw_overlay_stop(W, FALSE, FALSE) : V = [i.w EXCEPT !.strm.claimed = None]
  BY DEF K!vmw_overlay_unref
<1>2. FALSE \in BOOLEAN
  OBVIOUS
<1>3. Streamed(W, i, x)
  BY <1>1, <1>2, StopKeeps
<1>4. Sound(V, x) /\ SameModes(i.w, V)
  BY <1>1, <1>3, ClaimKeeps DEF Streamed
<1>5. QED
  BY <1>3, <1>4, SameTwice DEF Streamed

-----------------------------------------------------------------------------
(* Modes: what a mode set does to one crtc, to the driver and the device. *)

Moded(W, V, u) ==
  /\ V \in Displays /\ V.fb = W.fb /\ V.obj = W.obj /\ V.strm = W.strm
  /\ V.dev.stream = W.dev.stream /\ (W.dev.hung => V.dev.hung)
  /\ V.drv.sou = W.drv.sou /\ V.drv.op = W.drv.op /\ V.drv.ne = W.drv.ne /\ V.drv.on = W.drv.on
  /\ V.crtc[u].cursor = W.crtc[u].cursor
  /\ \A v \in Units \ {u} : V.crtc[v] = W.crtc[v] /\ V.dev.screen[v] = W.dev.screen[v]

WithCrtc(W, u, c) == Made(W.fb, [W.crtc EXCEPT ![u] = c], W.obj, W.strm, W.drv, W.dev)
WithDriver(W, d) == Made(W.fb, W.crtc, W.obj, W.strm, d, W.dev)

LEMMA ModedSelf ==
  ASSUME NEW W \in Displays, NEW u
  PROVE  Moded(W, W, u)
  BY DEF Moded

LEMMA ModedTwice ==
  ASSUME NEW W, NEW V, NEW U, NEW u, Moded(W, V, u), Moded(V, U, u)
  PROVE  Moded(W, U, u)
  BY DEF Moded

LEMMA CrtcOf ==
  ASSUME NEW W \in Displays, NEW u \in Units
  PROVE  /\ W.crtc[u] \in CrtcType /\ W.crtc[u].fb \in Fbs \cup {None}
         /\ W.crtc[u].cursor \in Bufs \cup {None} /\ W.crtc[u].defined \in BOOLEAN
         /\ W.crtc[u].active \in BOOLEAN /\ W.dev.screen[u] \in {None, "backed", "freed"}
<1>1. W.crtc[u] \in CrtcType /\ W.dev.screen[u] \in {None, "backed", "freed"}
  BY DisplayParts DEF DisplayType
<1>2. QED
  BY <1>1 DEF CrtcType

LEMMA DriverOf ==
  ASSUME NEW W \in Displays
  PROVE  /\ W.drv.sou \in BOOLEAN /\ W.drv.fb \in Fbs \cup {None} /\ W.drv.con \in BOOLEAN
         /\ W.drv.on \in BOOLEAN /\ W.drv.ne \in BOOLEAN /\ W.drv.op \in OpType
         /\ W.drv = [sou |-> W.drv.sou, fb |-> W.drv.fb, con |-> W.drv.con, on |-> W.drv.on,
                     ne |-> W.drv.ne, op |-> W.drv.op]
         /\ W.dev.hung \in BOOLEAN /\ W.dev.screen \in [Units -> {None, "backed", "freed"}]
  BY DisplayParts DEF DriverType, DisplayType

LEMMA FbOf ==
  ASSUME NEW W \in Displays, NEW f \in Fbs
  PROVE  W.fb[f] \in FbType /\ W.fb[f].live \in BOOLEAN /\ W.fb[f].obj \in Bufs \cup {None}
<1>1. W.fb[f] \in FbType
  BY DisplayParts
<1>2. QED
  BY <1>1 DEF FbType

LEMMA CrtcSet ==
  ASSUME NEW W \in Displays, NEW u \in Units, NEW c \in CrtcType
  PROVE  LET V == WithCrtc(W, u, c) IN
         /\ V \in Displays /\ V.fb = W.fb /\ V.obj = W.obj /\ V.strm = W.strm
         /\ V.drv = W.drv /\ V.dev = W.dev /\ V.crtc[u] = c
         /\ \A v \in Units \ {u} : V.crtc[v] = W.crtc[v]
<1> DEFINE q == [W.crtc EXCEPT ![u] = c]
           V == WithCrtc(W, u, c)
<1>1. q \in [Units -> CrtcType] /\ q[u] = c /\ \A v \in Units \ {u} : q[v] = W.crtc[v]
  BY DisplayParts
<1> HIDE DEF q
<1>2. /\ V \in Displays /\ V.fb = W.fb /\ V.crtc = q /\ V.obj = W.obj /\ V.strm = W.strm
      /\ V.drv = W.drv /\ V.dev = W.dev
  BY <1>1, MadeIs, DisplayParts DEF WithCrtc, q
<1> HIDE DEF V
<1>3. /\ V \in Displays /\ V.fb = W.fb /\ V.obj = W.obj /\ V.strm = W.strm
      /\ V.drv = W.drv /\ V.dev = W.dev /\ V.crtc[u] = c
      /\ \A v \in Units \ {u} : V.crtc[v] = W.crtc[v]
  BY <1>1, <1>2
<1>4. QED
  BY <1>3 DEF V

LEMMA DriverSet ==
  ASSUME NEW W \in Displays, NEW d \in DriverType
  PROVE  LET V == WithDriver(W, d) IN
         /\ V \in Displays /\ V.fb = W.fb /\ V.obj = W.obj /\ V.strm = W.strm
         /\ V.crtc = W.crtc /\ V.dev = W.dev /\ V.drv = d
  BY MadeIs, DisplayParts DEF WithDriver

LEMMA DeviceSet ==
  ASSUME NEW W \in Displays, NEW d \in DisplayType
  PROVE  LET V == WithDevice(W, d) IN
         /\ V \in Displays /\ V.fb = W.fb /\ V.obj = W.obj /\ V.strm = W.strm
         /\ V.crtc = W.crtc /\ V.drv = W.drv /\ V.dev = d
  BY MadeIs, DisplayParts DEF WithDevice

\* A crtc that keeps its cursor.
LEMMA CrtcModed ==
  ASSUME NEW W \in Displays, NEW u \in Units, NEW c \in CrtcType, c.cursor = W.crtc[u].cursor
  PROVE  LET V == WithCrtc(W, u, c) IN
         Moded(W, V, u) /\ V.crtc[u] = c /\ V.drv = W.drv /\ V.dev = W.dev
<1> DEFINE V == WithCrtc(W, u, c)
<1>1. /\ V \in Displays /\ V.fb = W.fb /\ V.obj = W.obj /\ V.strm = W.strm
      /\ V.drv = W.drv /\ V.dev = W.dev /\ V.crtc[u] = c
      /\ \A v \in Units \ {u} : V.crtc[v] = W.crtc[v]
  BY CrtcSet
<1> HIDE DEF V
<1>2. Moded(W, V, u)
  BY <1>1 DEF Moded
<1>3. QED
  BY <1>1, <1>2 DEF V

\* Another framebuffer of the driver.
LEMMA DriverFbModed ==
  ASSUME NEW W \in Displays, NEW u \in Units, NEW f \in Fbs \cup {None}
  PROVE  LET V == [W EXCEPT !.drv.fb = f] IN
         Moded(W, V, u) /\ V.crtc = W.crtc /\ V.dev = W.dev /\ V.drv.fb = f
<1> DEFINE d == [W.drv EXCEPT !.fb = f]
           V == WithDriver(W, d)
<1>1. /\ d \in DriverType /\ d.sou = W.drv.sou /\ d.op = W.drv.op /\ d.ne = W.drv.ne
      /\ d.on = W.drv.on /\ d.fb = f
  BY DisplayParts DEF DriverType
<1>2. [W EXCEPT !.drv.fb = f] = V
  <2>1. [W EXCEPT !.drv.fb = f] = [W EXCEPT !.drv = d]
    OBVIOUS
  <2> HIDE DEF d
  <2>2. QED
    BY <2>1, PartSet DEF WithDriver
<1> HIDE DEF d
<1>3. /\ V \in Displays /\ V.fb = W.fb /\ V.obj = W.obj /\ V.strm = W.strm
      /\ V.crtc = W.crtc /\ V.dev = W.dev /\ V.drv = d
  BY <1>1, DriverSet
<1> HIDE DEF V
<1>4. Moded(W, V, u)
  BY <1>1, <1>3 DEF Moded
<1>5. QED
  BY <1>1, <1>2, <1>3, <1>4

\* Another screen.
WithScreen(W, u, s) == [W EXCEPT !.dev.screen[u] = s]

LEMMA ScreenModed ==
  ASSUME NEW W \in Displays, NEW u \in Units, NEW s \in {None, "backed", "freed"}
  PROVE  LET V == WithScreen(W, u, s) IN
         /\ Moded(W, V, u) /\ V.crtc = W.crtc /\ V.drv = W.drv /\ V.dev.screen[u] = s
         /\ V.dev.hung = W.dev.hung
<1> DEFINE q == [W.dev.screen EXCEPT ![u] = s]
           d == [W.dev EXCEPT !.screen = q]
           V == WithDevice(W, d)
<1>1. /\ q \in [Units -> {None, "backed", "freed"}] /\ q[u] = s
      /\ \A v \in Units \ {u} : q[v] = W.dev.screen[v]
  BY DriverOf
<1>2. WithScreen(W, u, s) = [W EXCEPT !.dev = d]
  BY DEF WithScreen
<1> HIDE DEF q
<1>3. d \in DisplayType /\ d.screen = q /\ d.stream = W.dev.stream /\ d.hung = W.dev.hung
  BY <1>1, DisplayParts DEF DisplayType
<1> HIDE DEF d
<1>4. WithScreen(W, u, s) = V
  BY <1>2, PartSet DEF WithDevice
<1>5. /\ V \in Displays /\ V.fb = W.fb /\ V.obj = W.obj /\ V.strm = W.strm
      /\ V.crtc = W.crtc /\ V.drv = W.drv /\ V.dev = d
  BY <1>3, DeviceSet
<1> HIDE DEF V
<1>6. Moded(W, V, u)
  BY <1>1, <1>3, <1>5 DEF Moded
<1>7. QED
  BY <1>1, <1>3, <1>4, <1>5, <1>6

LEMMA HungModed ==
  ASSUME NEW W \in Displays, NEW u \in Units
  PROVE  LET V == [W EXCEPT !.dev.hung = TRUE] IN
         /\ Moded(W, V, u) /\ V.crtc = W.crtc /\ V.drv = W.drv /\ V.dev.screen = W.dev.screen
         /\ V.dev.hung = TRUE
<1> DEFINE d == [W.dev EXCEPT !.hung = TRUE]
           V == WithDevice(W, d)
<1>1. d \in DisplayType /\ d.screen = W.dev.screen /\ d.stream = W.dev.stream /\ d.hung = TRUE
  BY DisplayParts DEF DisplayType
<1>2. [W EXCEPT !.dev.hung = TRUE] = V
  <2>1. [W EXCEPT !.dev.hung = TRUE] = [W EXCEPT !.dev = d]
    OBVIOUS
  <2> HIDE DEF d
  <2>2. QED
    BY <2>1, PartSet DEF WithDevice
<1> HIDE DEF d
<1>3. /\ V \in Displays /\ V.fb = W.fb /\ V.obj = W.obj /\ V.strm = W.strm
      /\ V.crtc = W.crtc /\ V.drv = W.drv /\ V.dev = d
  BY <1>1, DeviceSet
<1> HIDE DEF V
<1>4. Moded(W, V, u)
  BY <1>1, <1>3 DEF Moded
<1>5. QED
  BY <1>1, <1>2, <1>3, <1>4

-----------------------------------------------------------------------------
(* Screen objects. *)

\* The crtc u as a mode set leaves it.
CrtcNow(V, u, f, d, s) ==
  V.crtc[u].fb = f /\ V.crtc[u].defined = d /\ V.dev.screen[u] = s

LEMMA ModedUses ==
  ASSUME NEW W, NEW V, NEW u \in Units, Moded(W, V, u)
  PROVE  \A o : FbsOf(V, o) = FbsOf(W, o) /\ CursorsOf(V, o) = CursorsOf(W, o)
<1>1. \A v \in Units : V.crtc[v].cursor = W.crtc[v].cursor
  BY DEF Moded
<1>2. V.fb = W.fb
  BY DEF Moded
<1>3. QED
  BY <1>1, <1>2 DEF FbsOf, CursorsOf

LEMMA ModedCounts ==
  ASSUME NEW W, NEW x, Referenced(W, x), NEW V, NEW u \in Units, Moded(W, V, u)
  PROVE  Referenced(V, x)
<1>1. V.obj = W.obj /\ V.strm = W.strm
  BY DEF Moded
<1>2. QED
  BY <1>1, ModedUses DEF Referenced, Counted

LEMMA SouModedKeeps ==
  ASSUME NEW W, NEW x, Sound(W, x), W.drv.sou, NEW u \in Units, NEW V, Moded(W, V, u),
         V.dev.screen[u] = (IF V.crtc[u].defined THEN "backed" ELSE None),
         V.crtc[u].fb # None => V.fb[V.crtc[u].fb].live \/ V.dev.hung
  PROVE  Sound(V, x)
<1>1. W \in Displays /\ Referenced(W, x) /\ Pins(W) /\ Shows(W) /\ StreamPinned(W)
  BY HeldParts DEF Sound
<1>2. Referenced(V, x)
  BY <1>1, ModedCounts
<1>3. /\ V \in Displays /\ V.fb = W.fb /\ V.obj = W.obj /\ V.strm = W.strm
      /\ V.dev.stream = W.dev.stream /\ V.drv.sou = W.drv.sou /\ V.drv.op = W.drv.op
      /\ V.drv.ne = W.drv.ne /\ V.drv.on = W.drv.on
  BY DEF Moded
<1>4. Pins(V) /\ StreamPinned(V)
  BY <1>1, <1>3 DEF Pins, Streams, Scans, StreamPinned
<1>5. Shows(V)
  <2>1. ASSUME NEW v \in Units
        PROVE  /\ V.crtc[v].fb # None => V.fb[V.crtc[v].fb].live \/ V.dev.hung
               /\ V.dev.screen[v] = (IF V.crtc[v].defined THEN "backed" ELSE None)
    <3>1. CASE v = u
      BY <3>1
    <3>2. CASE v # u
      <4>1. V.crtc[v] = W.crtc[v] /\ V.dev.screen[v] = W.dev.screen[v]
            /\ (W.dev.hung => V.dev.hung)
        BY <3>2 DEF Moded
      <4>2. QED
        BY <1>1, <1>3, <4>1 DEF Shows
    <3>3. QED
      BY <3>1, <3>2
  <2>2. QED
    BY <1>1, <1>3, <2>1 DEF Shows
<1>6. QED
  BY <1>2, <1>3, <1>4, <1>5 DEF Sound, Held

LEMMA CrtcOffIs ==
  ASSUME NEW W \in Displays, NEW u \in Units
  PROVE  LET V == K!CrtcOff(W, u) IN
         /\ Moded(W, V, u) /\ V.drv = W.drv /\ V.dev = W.dev
         /\ V.crtc[u].fb = None /\ V.crtc[u].defined = W.crtc[u].defined
         /\ V.crtc[u].active = W.crtc[u].active
<1> DEFINE c == [W.crtc[u] EXCEPT !.fb = None, !.enabled = FALSE]
           V == WithCrtc(W, u, c)
<1>1. /\ c \in CrtcType /\ c.cursor = W.crtc[u].cursor /\ c.fb = None
      /\ c.defined = W.crtc[u].defined /\ c.active = W.crtc[u].active
  <2>1. W.crtc[u] \in CrtcType
    BY CrtcOf
  <2>2. QED
    BY <2>1 DEF CrtcType
<1>2. K!CrtcOff(W, u) = V
  <2>1. [W EXCEPT !.crtc[u].fb = None, !.crtc[u].enabled = FALSE]
          = [W EXCEPT !.crtc = [W.crtc EXCEPT ![u] = c]]
    BY DisplayParts DEF Displays
  <2> HIDE DEF c
  <2>2. QED
    BY <2>1, PartSet DEF K!CrtcOff, WithCrtc
<1> HIDE DEF c
<1>3. Moded(W, V, u) /\ V.crtc[u] = c /\ V.drv = W.drv /\ V.dev = W.dev
  BY <1>1, CrtcModed
<1> HIDE DEF V
<1>4. QED
  BY <1>1, <1>2, <1>3

\* The crtc u is active or not.
WithActive(W, u, a) == [W EXCEPT !.crtc[u].active = a]

LEMMA ActiveIs ==
  ASSUME NEW W \in Displays, NEW u \in Units, NEW a \in BOOLEAN
  PROVE  LET V == WithActive(W, u, a) IN
         /\ Moded(W, V, u) /\ V.drv = W.drv /\ V.dev = W.dev
         /\ V.crtc[u].fb = W.crtc[u].fb /\ V.crtc[u].defined = W.crtc[u].defined
         /\ V.crtc[u].active = a
<1> DEFINE c == [W.crtc[u] EXCEPT !.active = a]
           V == WithCrtc(W, u, c)
<1>1. /\ c \in CrtcType /\ c.cursor = W.crtc[u].cursor /\ c.fb = W.crtc[u].fb
      /\ c.defined = W.crtc[u].defined /\ c.active = a
  <2>1. W.crtc[u] \in CrtcType
    BY CrtcOf
  <2>2. QED
    BY <2>1 DEF CrtcType
<1>2. WithActive(W, u, a) = V
  <2>1. [W EXCEPT !.crtc[u].active = a] = [W EXCEPT !.crtc = [W.crtc EXCEPT ![u] = c]]
    OBVIOUS
  <2> HIDE DEF c
  <2>2. QED
    BY <2>1, PartSet DEF WithCrtc, WithActive
<1> HIDE DEF c
<1>3. Moded(W, V, u) /\ V.crtc[u] = c /\ V.drv = W.drv /\ V.dev = W.dev
  BY <1>1, CrtcModed
<1> HIDE DEF V
<1>4. QED
  BY <1>1, <1>2, <1>3

WithDefined(W, u, a) == [W EXCEPT !.crtc[u].defined = a]

LEMMA DefinedIs ==
  ASSUME NEW W \in Displays, NEW u \in Units, NEW a \in BOOLEAN
  PROVE  LET V == WithDefined(W, u, a) IN
         /\ Moded(W, V, u) /\ V.drv = W.drv /\ V.dev = W.dev
         /\ V.crtc[u].fb = W.crtc[u].fb /\ V.crtc[u].defined = a
<1> DEFINE c == [W.crtc[u] EXCEPT !.defined = a]
           V == WithCrtc(W, u, c)
<1>1. /\ c \in CrtcType /\ c.cursor = W.crtc[u].cursor /\ c.fb = W.crtc[u].fb
      /\ c.defined = a
  <2>1. W.crtc[u] \in CrtcType
    BY CrtcOf
  <2>2. QED
    BY <2>1 DEF CrtcType
<1>2. WithDefined(W, u, a) = V
  <2>1. [W EXCEPT !.crtc[u].defined = a] = [W EXCEPT !.crtc = [W.crtc EXCEPT ![u] = c]]
    OBVIOUS
  <2> HIDE DEF c
  <2>2. QED
    BY <2>1, PartSet DEF WithCrtc, WithDefined
<1> HIDE DEF c
<1>3. Moded(W, V, u) /\ V.crtc[u] = c /\ V.drv = W.drv /\ V.dev = W.dev
  BY <1>1, CrtcModed
<1> HIDE DEF V
<1>4. QED
  BY <1>1, <1>2, <1>3

WithBuffer(W, u, n) == [W EXCEPT !.crtc[u].buffer = n]

LEMMA BufferIs ==
  ASSUME NEW W \in Displays, NEW u \in Units, NEW n \in Sizes \cup {0}
  PROVE  LET V == WithBuffer(W, u, n) IN
         /\ Moded(W, V, u) /\ V.drv = W.drv /\ V.dev = W.dev
         /\ V.crtc[u].fb = W.crtc[u].fb /\ V.crtc[u].defined = W.crtc[u].defined
<1> DEFINE c == [W.crtc[u] EXCEPT !.buffer = n]
           V == WithCrtc(W, u, c)
<1>1. /\ c \in CrtcType /\ c.cursor = W.crtc[u].cursor /\ c.fb = W.crtc[u].fb
      /\ c.defined = W.crtc[u].defined
  <2>1. W.crtc[u] \in CrtcType
    BY CrtcOf
  <2>2. QED
    BY <2>1 DEF CrtcType
<1>2. WithBuffer(W, u, n) = V
  <2>1. [W EXCEPT !.crtc[u].buffer = n] = [W EXCEPT !.crtc = [W.crtc EXCEPT ![u] = c]]
    OBVIOUS
  <2> HIDE DEF c
  <2>2. QED
    BY <2>1, PartSet DEF WithCrtc, WithBuffer
<1> HIDE DEF c
<1>3. Moded(W, V, u) /\ V.crtc[u] = c /\ V.drv = W.drv /\ V.dev = W.dev
  BY <1>1, CrtcModed
<1> HIDE DEF V
<1>4. QED
  BY <1>1, <1>2, <1>3

\* A mode and its framebuffer.
WithMode(W, u, f, n) ==
  [W EXCEPT !.crtc[u].mode = n, !.crtc[u].fb = f, !.crtc[u].enabled = TRUE]

LEMMA ModeIs ==
  ASSUME NEW W \in Displays, NEW u \in Units, NEW f \in Fbs, NEW n \in Sizes
  PROVE  LET V == WithMode(W, u, f, n) IN
         /\ Moded(W, V, u) /\ V.drv = W.drv /\ V.dev = W.dev
         /\ V.crtc[u].fb = f /\ V.crtc[u].defined = W.crtc[u].defined
         /\ V.crtc[u].active = W.crtc[u].active
<1> DEFINE c == [W.crtc[u] EXCEPT !.mode = n, !.fb = f, !.enabled = TRUE]
           V == WithCrtc(W, u, c)
<1>1. /\ c \in CrtcType /\ c.cursor = W.crtc[u].cursor /\ c.fb = f
      /\ c.defined = W.crtc[u].defined /\ c.active = W.crtc[u].active
  <2>1. W.crtc[u] \in CrtcType
    BY CrtcOf
  <2>2. QED
    BY <2>1 DEF CrtcType
<1>2. WithMode(W, u, f, n) = V
  <2>1. [W EXCEPT !.crtc[u].mode = n, !.crtc[u].fb = f, !.crtc[u].enabled = TRUE]
          = [W EXCEPT !.crtc = [W.crtc EXCEPT ![u] = c]]
    BY DisplayParts DEF Displays
  <2> HIDE DEF c
  <2>2. QED
    BY <2>1, PartSet DEF WithCrtc, WithMode
<1> HIDE DEF c
<1>3. Moded(W, V, u) /\ V.crtc[u] = c /\ V.drv = W.drv /\ V.dev = W.dev
  BY <1>1, CrtcModed
<1> HIDE DEF V
<1>4. QED
  BY <1>1, <1>2, <1>3

LEMMA SouDelIs ==
  ASSUME NEW W \in Displays, NEW u \in Units
  PROVE  LET V == K!vmw_sou_del_active(W, u) IN
         /\ Moded(W, V, u) /\ V.dev = W.dev
         /\ V.crtc[u].fb = W.crtc[u].fb /\ V.crtc[u].defined = W.crtc[u].defined
<1> DEFINE U == WithActive(W, u, FALSE)
           D == [U EXCEPT !.drv.fb = None]
           V == K!vmw_sou_del_active(W, u)
<1>1. V = W \/ V = U \/ V = D
  BY DEF K!vmw_sou_del_active, WithActive
<1>2. /\ Moded(W, U, u) /\ U.dev = W.dev
      /\ U.crtc[u].fb = W.crtc[u].fb /\ U.crtc[u].defined = W.crtc[u].defined
  <2>1. FALSE \in BOOLEAN
    OBVIOUS
  <2>2. QED
    BY <2>1, ActiveIs
<1> HIDE DEF U
<1>3. U \in Displays /\ None \in Fbs \cup {None}
  BY <1>2 DEF Moded
<1>4. Moded(U, D, u) /\ D.crtc = U.crtc /\ D.dev = U.dev
  BY <1>3, DriverFbModed
<1> HIDE DEF D
<1>5. Moded(W, D, u)
  BY <1>2, <1>4, ModedTwice
<1>6. Moded(W, W, u)
  BY ModedSelf
<1> HIDE DEF V
<1>7. CASE V = W
  BY <1>6, <1>7 DEF V
<1>8. CASE V = U
  BY <1>2, <1>8 DEF V
<1>9. CASE V = D
  BY <1>2, <1>4, <1>5, <1>9 DEF V
<1>10. QED
  BY <1>1, <1>7, <1>8, <1>9

LEMMA SouAddIs ==
  ASSUME NEW W \in Displays, NEW u \in Units, NEW f \in Fbs
  PROVE  LET V == K!vmw_sou_add_active(W, u, f) IN
         /\ Moded(W, V, u) /\ V.dev = W.dev
         /\ V.crtc[u].fb = W.crtc[u].fb /\ V.crtc[u].defined = W.crtc[u].defined
<1> DEFINE U == [W EXCEPT !.drv.fb = f]
           D == WithActive(U, u, TRUE)
           V == K!vmw_sou_add_active(W, u, f)
<1>1. V = W \/ V = D
  BY DEF K!vmw_sou_add_active, WithActive
<1>2. Moded(W, U, u) /\ U.dev = W.dev /\ U.crtc = W.crtc
  BY DriverFbModed
<1> HIDE DEF U
<1>3. U \in Displays /\ TRUE \in BOOLEAN
  BY <1>2 DEF Moded
<1>4. /\ Moded(U, D, u) /\ D.dev = U.dev
      /\ D.crtc[u].fb = U.crtc[u].fb /\ D.crtc[u].defined = U.crtc[u].defined
  BY <1>3, ActiveIs
<1> HIDE DEF D
<1>5. Moded(W, D, u)
  BY <1>2, <1>4, ModedTwice
<1>6. Moded(W, W, u)
  BY ModedSelf
<1> HIDE DEF V
<1>7. CASE V = W
  BY <1>6, <1>7 DEF V
<1>8. CASE V = D
  BY <1>2, <1>4, <1>5, <1>8 DEF V
<1>9. QED
  BY <1>1, <1>7, <1>8

LEMMA BackingFreeIs ==
  ASSUME NEW W \in Displays, NEW u \in Units
  PROVE  LET V == K!vmw_sou_backing_free(W, u) IN
         /\ Moded(W, V, u) /\ V.dev.hung = W.dev.hung /\ V.drv = W.drv
         /\ V.crtc[u].fb = W.crtc[u].fb /\ V.crtc[u].defined = W.crtc[u].defined
         /\ W.dev.screen[u] = None => V.dev.screen[u] = None
<1> DEFINE U == WithBuffer(W, u, 0)
           s == IF U.dev.screen[u] = None THEN None ELSE "freed"
           V == WithScreen(U, u, s)
<1>1. K!vmw_sou_backing_free(W, u) = V
  BY DEF K!vmw_sou_backing_free, WithScreen, WithBuffer
<1>2. /\ Moded(W, U, u) /\ U.drv = W.drv /\ U.dev = W.dev
      /\ U.crtc[u].fb = W.crtc[u].fb /\ U.crtc[u].defined = W.crtc[u].defined
  <2>1. 0 \in Sizes \cup {0}
    OBVIOUS
  <2>2. QED
    BY <2>1, BufferIs
<1> HIDE DEF U
<1>3. U \in Displays
  BY <1>2 DEF Moded
<1>4. s \in {None, "backed", "freed"} /\ (U.dev.screen[u] = None => s = None)
  OBVIOUS
<1> HIDE DEF s
<1>5. /\ Moded(U, V, u) /\ V.crtc = U.crtc /\ V.drv = U.drv /\ V.dev.screen[u] = s
      /\ V.dev.hung = U.dev.hung
  BY <1>3, <1>4, ScreenModed
<1> HIDE DEF V
<1>6. Moded(W, V, u)
  BY <1>2, <1>5, ModedTwice
<1>7. QED
  BY <1>1, <1>2, <1>4, <1>5, <1>6

\* A screen that goes, or a device that hangs.
Destroyed(W, i, u) ==
  /\ Moded(W, i.w, u) /\ i.w.crtc[u].fb = W.crtc[u].fb /\ i.w.drv = W.drv
  /\ \/ i.ok = TRUE /\ i.w.crtc[u].defined = FALSE /\ i.w.dev.screen[u] = None
     \/ /\ i.ok = FALSE /\ i.w.dev.hung
        /\ i.w.crtc[u].defined = W.crtc[u].defined /\ i.w.dev.screen[u] = W.dev.screen[u]

LEMMA FifoDestroyIs ==
  ASSUME NEW W \in Displays, Shows(W), NEW u \in Units,
         NEW i \in K!vmw_sou_fifo_destroy(W, u)
  PROVE  Destroyed(W, i, u)
<1> DEFINE U == WithScreen(W, u, None)
           D == WithDefined(U, u, FALSE)
           H == [W EXCEPT !.dev.hung = TRUE]
<1>1. \/ ~W.crtc[u].defined /\ i = K!Ok(W)
      \/ W.dev.hung /\ i = K!Failed(W)
      \/ i = K!Ok(D)
      \/ i = K!Failed(H)
  BY DEF K!vmw_sou_fifo_destroy, K!MayFail, WithScreen, WithDefined
<1>2. Moded(W, W, u)
  BY ModedSelf
<1>3. CASE ~W.crtc[u].defined /\ i = K!Ok(W)
  <2>1. W.crtc[u].defined = FALSE /\ W.dev.screen[u] = None
    BY <1>3, CrtcOf DEF Shows
  <2>2. QED
    BY <1>2, <1>3, <2>1, Outcomes DEF Destroyed
<1>4. CASE W.dev.hung /\ i = K!Failed(W)
  BY <1>2, <1>4, Outcomes DEF Destroyed
<1>5. CASE i = K!Ok(D)
  <2>1. /\ Moded(W, U, u) /\ U.crtc = W.crtc /\ U.drv = W.drv /\ U.dev.screen[u] = None
    <3>1. None \in {None, "backed", "freed"}
      OBVIOUS
    <3>2. QED
      BY <3>1, ScreenModed
  <2> HIDE DEF U
  <2>2. U \in Displays /\ FALSE \in BOOLEAN
    BY <2>1 DEF Moded
  <2>3. /\ Moded(U, D, u) /\ D.drv = U.drv /\ D.dev = U.dev
        /\ D.crtc[u].fb = U.crtc[u].fb /\ D.crtc[u].defined = FALSE
    BY <2>2, DefinedIs
  <2> HIDE DEF D
  <2>4. Moded(W, D, u)
    BY <2>1, <2>3, ModedTwice
  <2>5. i.ok = TRUE /\ i.w = D
    BY <1>5, Outcomes
  <2>6. QED
    BY <2>1, <2>3, <2>4, <2>5 DEF Destroyed
<1>6. CASE i = K!Failed(H)
  <2>1. Moded(W, H, u) /\ H.crtc = W.crtc /\ H.drv = W.drv /\ H.dev.screen = W.dev.screen
        /\ H.dev.hung = TRUE
    BY HungModed
  <2> HIDE DEF H
  <2>2. QED
    BY <1>6, <2>1, Outcomes DEF Destroyed
<1>7. QED
  BY <1>1, <1>3, <1>4, <1>5, <1>6

LEMMA DestroyKeeps ==
  ASSUME NEW W, NEW x, Sound(W, x), W.drv.sou, NEW u \in Units,
         NEW i \in K!vmw_sou_fifo_destroy(W, u)
  PROVE  Sound(i.w, x) /\ Destroyed(W, i, u)
<1>1. W \in Displays /\ Shows(W)
  BY HeldParts DEF Sound
<1>2. Destroyed(W, i, u)
  BY <1>1, FifoDestroyIs
<1>3. Moded(W, i.w, u) /\ i.w.crtc[u].fb = W.crtc[u].fb /\ i.w.fb = W.fb
      /\ (W.dev.hung => i.w.dev.hung)
  BY <1>2 DEF Destroyed, Moded
<1>4. i.w.dev.screen[u] = (IF i.w.crtc[u].defined THEN "backed" ELSE None)
  BY <1>1, <1>2 DEF Destroyed, Shows
<1>5. i.w.crtc[u].fb # None => i.w.fb[i.w.crtc[u].fb].live \/ i.w.dev.hung
  BY <1>1, <1>3 DEF Shows
<1>6. Sound(i.w, x)
  BY <1>3, <1>4, <1>5, SouModedKeeps
<1>7. QED
  BY <1>2, <1>6

\* A crtc goes off, or the device hangs.
Off(V, u) == V.crtc[u].fb = None \/ V.dev.hung

LEMMA SouOffIs ==
  ASSUME NEW W, NEW u, NEW i \in K!SouOff(W, u)
  PROVE  \E m \in K!vmw_sou_fifo_destroy(W, u) :
           IF m.ok
           THEN i = K!Ok(K!vmw_sou_backing_free(
                           K!vmw_sou_del_active(K!CrtcOff(m.w, u), u), u))
           ELSE i = m
  BY DEF K!SouOff, K!Then

LEMMA SouOffKeeps ==
  ASSUME NEW W, NEW x, Sound(W, x), W.drv.sou, NEW u \in Units, NEW i \in K!SouOff(W, u)
  PROVE  Sound(i.w, x) /\ Moded(W, i.w, u) /\ Off(i.w, u)
<1>1. PICK m \in K!vmw_sou_fifo_destroy(W, u) :
        IF m.ok
        THEN i = K!Ok(K!vmw_sou_backing_free(
                        K!vmw_sou_del_active(K!CrtcOff(m.w, u), u), u))
        ELSE i = m
  BY SouOffIs
<1>2. Sound(m.w, x) /\ Destroyed(W, m, u)
  BY DestroyKeeps
<1>3. Moded(W, m.w, u) /\ m.w \in Displays /\ m.w.drv.sou
  BY <1>2 DEF Destroyed, Moded
<1>4. CASE m.ok
  <2> DEFINE C1 == K!CrtcOff(m.w, u)
             C2 == K!vmw_sou_del_active(C1, u)
             C3 == K!vmw_sou_backing_free(C2, u)
  <2>1. m.w.crtc[u].defined = FALSE /\ m.w.dev.screen[u] = None
    BY <1>2, <1>4 DEF Destroyed
  <2>2. /\ Moded(m.w, C1, u) /\ C1.dev = m.w.dev /\ C1.crtc[u].fb = None
        /\ C1.crtc[u].defined = m.w.crtc[u].defined
    BY <1>3, CrtcOffIs
  <2> HIDE DEF C1
  <2>3. C1 \in Displays
    BY <2>2 DEF Moded
  <2>4. /\ Moded(C1, C2, u) /\ C2.dev = C1.dev
        /\ C2.crtc[u].fb = C1.crtc[u].fb /\ C2.crtc[u].defined = C1.crtc[u].defined
    BY <2>3, SouDelIs
  <2> HIDE DEF C2
  <2>5. C2 \in Displays
    BY <2>4 DEF Moded
  <2>6. /\ Moded(C2, C3, u)
        /\ C3.crtc[u].fb = C2.crtc[u].fb /\ C3.crtc[u].defined = C2.crtc[u].defined
        /\ C2.dev.screen[u] = None => C3.dev.screen[u] = None
    BY <2>5, BackingFreeIs
  <2> HIDE DEF C3
  <2>7. Moded(m.w, C3, u)
    <3>1. Moded(m.w, C2, u)
      BY <2>2, <2>4, ModedTwice
    <3>2. QED
      BY <2>6, <3>1, ModedTwice
  <2>8. C3.crtc[u].fb = None /\ C3.crtc[u].defined = FALSE /\ C3.dev.screen[u] = None
    BY <2>1, <2>2, <2>4, <2>6
  <2>9. C3.dev.screen[u] = (IF C3.crtc[u].defined THEN "backed" ELSE None)
    BY <2>8
  <2>10. Sound(C3, x)
    BY <1>2, <1>3, <2>7, <2>8, <2>9, SouModedKeeps
  <2>11. i.w = C3
    BY <1>1, <1>4, Outcomes DEF C1, C2, C3
  <2>12. Moded(W, C3, u)
    BY <1>3, <2>7, ModedTwice
  <2>13. QED
    BY <2>8, <2>10, <2>11, <2>12 DEF Off
<1>5. CASE ~m.ok
  <2>1. i = m /\ m.w.dev.hung
    BY <1>1, <1>2, <1>5 DEF Destroyed
  <2>2. QED
    BY <1>2, <1>3, <2>1 DEF Off
<1>6. QED
  BY <1>4, <1>5

LEMMA FifoCreateIs ==
  ASSUME NEW W \in Displays, NEW u \in Units, NEW i \in K!vmw_sou_fifo_create(W, u)
  PROVE  \/ W.dev.hung /\ i = K!Failed(W)
         \/ /\ i.ok = TRUE /\ Moded(W, i.w, u) /\ i.w.crtc[u].fb = W.crtc[u].fb
            /\ i.w.crtc[u].defined = TRUE /\ i.w.dev.screen[u] = "backed"
<1> DEFINE U == WithScreen(W, u, "backed")
           t == TRUE
           D == WithDefined(U, u, t)
<1>1. (W.dev.hung /\ i = K!Failed(W)) \/ i = K!Ok(D)
  BY DEF K!vmw_sou_fifo_create, WithScreen, WithDefined
<1>2. "backed" \in {None, "backed", "freed"}
  OBVIOUS
<1>3. Moded(W, U, u) /\ U.crtc = W.crtc /\ U.dev.screen[u] = "backed"
  BY <1>2, ScreenModed
<1> HIDE DEF U
<1>4. U \in Displays /\ t \in BOOLEAN
  BY <1>3 DEF Moded
<1> HIDE DEF t
<1>5. /\ Moded(U, D, u) /\ D.dev = U.dev
      /\ D.crtc[u].fb = U.crtc[u].fb /\ D.crtc[u].defined = t
  BY <1>4, DefinedIs
<1> HIDE DEF D
<1>6. Moded(W, D, u)
  BY <1>3, <1>5, ModedTwice
<1>7. CASE i = K!Ok(D)
  <2>1. i.ok = TRUE /\ i.w = D
    BY <1>7, Outcomes
  <2>2. t = TRUE
    BY DEF t
  <2>3. QED
    BY <1>3, <1>5, <1>6, <2>1, <2>2
<1>8. QED
  BY <1>1, <1>7

Shown(W, u, f, n) ==
  [K!vmw_sou_add_active(W, u, f) EXCEPT
     !.crtc[u].mode = n, !.crtc[u].fb = f, !.crtc[u].enabled = TRUE]

LEMMA SouShowIs ==
  ASSUME NEW W, NEW u, NEW f, NEW n, NEW i \in K!SouShow(W, u, f, n)
  PROVE  \E m \in K!vmw_sou_fifo_create(W, u) :
           \/ ~m.ok /\ i = K!Failed(IF W.crtc[u].defined THEN W ELSE K!CrtcOff(W, u))
           \/ m.ok /\ i = K!Ok(Shown(m.w, u, f, n))
<1>1. PICK m \in K!vmw_sou_fifo_create(W, u) :
        i \in (IF ~m.ok THEN {K!Failed(IF W.crtc[u].defined THEN W ELSE K!CrtcOff(W, u))}
               ELSE {K!Ok(Shown(m.w, u, f, n))})
  BY Zenon DEF K!SouShow, Shown
<1>2. QED
  BY <1>1

LEMMA SouShowKeeps ==
  ASSUME NEW W, NEW x, Sound(W, x), W.drv.sou, NEW u \in Units, NEW f \in Fbs, W.fb[f].live,
         NEW n \in Sizes, NEW i \in K!SouShow(W, u, f, n)
  PROVE  Sound(i.w, x) /\ Moded(W, i.w, u)
<1>1. PICK m \in K!vmw_sou_fifo_create(W, u) :
           \/ ~m.ok /\ i = K!Failed(IF W.crtc[u].defined THEN W ELSE K!CrtcOff(W, u))
           \/ m.ok /\ i = K!Ok(Shown(m.w, u, f, n))
  BY SouShowIs
<1>2. W \in Displays /\ Shows(W)
  BY HeldParts DEF Sound
<1>3. CASE ~m.ok
  <2> DEFINE C1 == K!CrtcOff(W, u)
  <2>1. i = K!Failed(W) \/ i = K!Failed(C1)
    BY <1>1, <1>3
  <2>2. /\ Moded(W, C1, u) /\ C1.dev = W.dev /\ C1.crtc[u].fb = None
        /\ C1.crtc[u].defined = W.crtc[u].defined
    BY <1>2, CrtcOffIs
  <2> HIDE DEF C1
  <2>3. C1.dev.screen[u] = (IF C1.crtc[u].defined THEN "backed" ELSE None)
    BY <1>2, <2>2 DEF Shows
  <2>4. Sound(C1, x)
    BY <2>2, <2>3, SouModedKeeps
  <2>5. Moded(W, W, u)
    BY <1>2, ModedSelf
  <2>6. QED
    BY <2>1, <2>2, <2>4, <2>5, Outcomes
<1>4. CASE m.ok
  <2> DEFINE C1 == K!vmw_sou_add_active(m.w, u, f)
             C2 == Shown(m.w, u, f, n)
  <2>1. /\ Moded(W, m.w, u) /\ m.w.crtc[u].defined = TRUE /\ m.w.dev.screen[u] = "backed"
    <3>1. m # K!Failed(W)
      BY <1>4, Outcomes
    <3>2. QED
      BY <1>2, <3>1, FifoCreateIs
  <2>2. m.w \in Displays
    BY <2>1 DEF Moded
  <2>3. /\ Moded(m.w, C1, u) /\ C1.dev = m.w.dev /\ C1.crtc[u].defined = m.w.crtc[u].defined
    BY <2>2, SouAddIs
  <2>4. C2 = WithMode(C1, u, f, n)
    BY DEF Shown, WithMode
  <2> HIDE DEF C1, C2
  <2>5. C1 \in Displays
    BY <2>3 DEF Moded
  <2>6. /\ Moded(C1, C2, u) /\ C2.dev = C1.dev
        /\ C2.crtc[u].fb = f /\ C2.crtc[u].defined = C1.crtc[u].defined
    BY <2>4, <2>5, ModeIs
  <2>7. Moded(W, C2, u)
    <3>1. Moded(W, C1, u)
      BY <2>1, <2>3, ModedTwice
    <3>2. QED
      BY <2>6, <3>1, ModedTwice
  <2>8. C2.dev.screen[u] = (IF C2.crtc[u].defined THEN "backed" ELSE None)
    BY <2>1, <2>3, <2>6
  <2>9. C2.fb[C2.crtc[u].fb].live
    BY <2>6, <2>7 DEF Moded
  <2>10. Sound(C2, x)
    BY <2>7, <2>8, <2>9, SouModedKeeps
  <2>11. i.w = C2
    BY <1>1, <1>4, Outcomes DEF C2
  <2>12. QED
    BY <2>7, <2>10, <2>11
<1>5. QED
  BY <1>3, <1>4

-----------------------------------------------------------------------------
(* The driver: the console's place in vram, and the mode set under way. *)

\* Only the console changes.
Console(W, V) ==
  /\ V \in Displays /\ V.fb = W.fb /\ V.crtc = W.crtc /\ V.obj = W.obj /\ V.strm = W.strm
  /\ V.dev = W.dev /\ V.drv.sou = W.drv.sou /\ V.drv.fb = W.drv.fb /\ V.drv.op = W.drv.op
  /\ V.drv.ne = V.drv.on

LEMMA ConsoleKeeps ==
  ASSUME NEW W, NEW x, Sound(W, x), NEW V, Console(W, V)
  PROVE  Sound(V, x)
<1>1. /\ W \in Displays /\ Referenced(W, x) /\ Pins(W) /\ Shows(W) /\ StreamPinned(W)
      /\ ~W.drv.sou => Legacy(W)
  BY HeldParts DEF Sound
<1>2. Referenced(V, x)
  BY <1>1, SameUses DEF Referenced, Counted, Console
<1>3. Pins(V) /\ StreamPinned(V)
  BY <1>1 DEF Pins, Streams, Scans, StreamPinned, Console
<1>4. Shows(V)
  BY <1>1 DEF Shows, Console
<1>5. ~V.drv.sou => Legacy(V)
  BY <1>1 DEF Legacy, Console
<1>6. QED
  BY <1>2, <1>3, <1>4, <1>5 DEF Sound, Held, Console

WithConsole(W, b) == [W EXCEPT !.drv.ne = b, !.drv.on = b]

LEMMA ConsoleSet ==
  ASSUME NEW W \in Displays, NEW b \in BOOLEAN
  PROVE  Console(W, WithConsole(W, b))
<1> DEFINE d == [W.drv EXCEPT !.ne = b, !.on = b]
           V == WithDriver(W, d)
<1>1. /\ d \in DriverType /\ d.sou = W.drv.sou /\ d.op = W.drv.op /\ d.fb = W.drv.fb
      /\ d.ne = d.on
  BY DisplayParts DEF DriverType
<1>2. WithConsole(W, b) = V
  <2>1. WithConsole(W, b) = [W EXCEPT !.drv = d]
    BY DisplayParts DEF WithConsole, Displays
  <2> HIDE DEF d
  <2>2. QED
    BY <2>1, PartSet DEF WithDriver
<1> HIDE DEF d
<1>3. /\ V \in Displays /\ V.fb = W.fb /\ V.obj = W.obj /\ V.strm = W.strm
      /\ V.crtc = W.crtc /\ V.dev = W.dev /\ V.drv = d
  BY <1>1, DriverSet
<1> HIDE DEF V
<1>4. QED
  BY <1>1, <1>2, <1>3 DEF Console

LEMMA ConsoleSelf ==
  ASSUME NEW W, NEW x, Sound(W, x)
  PROVE  Console(W, W)
<1>1. W \in Displays /\ Pins(W)
  BY HeldParts DEF Sound
<1>2. W.drv.ne = W.drv.on
  BY <1>1, DriverOf DEF Pins
<1>3. QED
  BY <1>1, <1>2 DEF Console

LEMMA FbOffKeeps ==
  ASSUME NEW W, NEW x, Sound(W, x)
  PROVE  Sound(K!vmw_fb_off(W), x) /\ Console(W, K!vmw_fb_off(W))
<1> DEFINE f == FALSE
           V == K!vmw_fb_off(W)
           U == WithConsole(W, f)
<1>1. W \in Displays /\ f \in BOOLEAN
  BY HeldParts DEF Sound
<1>2. V = W \/ V = U
  <2>1. [W EXCEPT !.drv.on = FALSE, !.drv.ne = FALSE] = U
    BY <1>1, DisplayParts DEF WithConsole, Displays, DriverType
  <2>2. QED
    BY <2>1 DEF K!vmw_fb_off
<1> HIDE DEF f
<1>3. Console(W, U)
  BY <1>1, ConsoleSet
<1> HIDE DEF U, V
<1>4. Console(W, V)
  BY <1>2, <1>3, ConsoleSelf
<1>5. QED
  BY <1>4, ConsoleKeeps DEF V

LEMMA ToVramKeeps ==
  ASSUME NEW W, NEW x, Sound(W, x), NEW V \in K!ConsoleToVram(W)
  PROVE  Sound(V, x) /\ Console(W, V)
<1> DEFINE t == TRUE
           U == WithConsole(W, t)
<1>1. W \in Displays /\ t \in BOOLEAN
  BY HeldParts DEF Sound
<1>2. V = W \/ V = U
  BY DEF K!ConsoleToVram, WithConsole
<1> HIDE DEF t
<1>3. Console(W, U)
  BY <1>1, ConsoleSet
<1> HIDE DEF U
<1>4. Console(W, V)
  BY <1>2, <1>3, ConsoleSelf
<1>5. QED
  BY <1>4, ConsoleKeeps

LEMMA FbOnKeeps ==
  ASSUME NEW W, NEW x, Sound(W, x), NEW V \in K!vmw_fb_on(W)
  PROVE  Sound(V, x) /\ V.drv.op = W.drv.op
<1>1. CASE V = W
  BY <1>1
<1>2. ASSUME NEW U \in K!vmw_overlay_stop_all(W), V \in K!ConsoleToVram(U)
      PROVE  Sound(V, x) /\ V.drv.op = W.drv.op
  <2>1. Sound(U, x) /\ SameModes(W, U)
    BY <1>2, StopAllKeeps
  <2>2. Sound(V, x) /\ Console(U, V)
    BY <1>2, <2>1, ToVramKeeps
  <2>3. QED
    BY <2>1, <2>2 DEF SameModes, Console
<1>3. V = W \/ \E U \in K!vmw_overlay_stop_all(W) : V \in K!ConsoleToVram(U)
  BY DEF K!vmw_fb_on
<1>4. QED
  BY <1>1, <1>2, <1>3

\* Only the holder of the mutex changes.
WithOp(W, op) == [W EXCEPT !.drv.op = op]

Operated(W, V, op) ==
  /\ V \in Displays /\ V.fb = W.fb /\ V.crtc = W.crtc /\ V.obj = W.obj /\ V.strm = W.strm
  /\ V.dev = W.dev /\ V.drv.sou = W.drv.sou /\ V.drv.fb = W.drv.fb /\ V.drv.on = W.drv.on
  /\ V.drv.ne = W.drv.ne /\ V.drv.op = op

LEMMA OpIs ==
  ASSUME NEW W \in Displays, NEW op \in OpType
  PROVE  Operated(W, WithOp(W, op), op)
<1> DEFINE d == [W.drv EXCEPT !.op = op]
           V == WithDriver(W, d)
<1>1. /\ d \in DriverType /\ d.sou = W.drv.sou /\ d.on = W.drv.on /\ d.fb = W.drv.fb
      /\ d.ne = W.drv.ne /\ d.op = op
  BY DisplayParts DEF DriverType
<1>2. WithOp(W, op) = V
  <2>1. WithOp(W, op) = [W EXCEPT !.drv = d]
    BY DEF WithOp
  <2> HIDE DEF d
  <2>2. QED
    BY <2>1, PartSet DEF WithDriver
<1> HIDE DEF d
<1>3. /\ V \in Displays /\ V.fb = W.fb /\ V.obj = W.obj /\ V.strm = W.strm
      /\ V.crtc = W.crtc /\ V.dev = W.dev /\ V.drv = d
  BY <1>1, DriverSet
<1> HIDE DEF V
<1>4. QED
  BY <1>1, <1>2, <1>3 DEF Operated

\* What another holder must leave right.
LEMMA OpKeeps ==
  ASSUME NEW W, NEW x, Sound(W, x), NEW op, NEW V, Operated(W, V, op),
         op.k # "none" => W.fb[op.f].live,
         ~W.drv.sou => Legacy(V),
         \A o \in Things : Scans(W, o) => Scans(V, o)
  PROVE  Sound(V, x)
<1>1. /\ W \in Displays /\ Referenced(W, x) /\ Pins(W) /\ Shows(W) /\ StreamPinned(W)
  BY HeldParts DEF Sound
<1>2. Referenced(V, x)
  BY <1>1, SameUses DEF Referenced, Counted, Operated
<1>3. Pins(V) /\ StreamPinned(V)
  <2>1. ASSUME NEW o \in Things, V.obj[o].ne # "no" PROVE Streams(V, o) \/ Scans(V, o)
    <3>1. Streams(W, o) \/ Scans(W, o)
      BY <1>1, <2>1 DEF Pins, Operated
    <3>2. QED
      BY <3>1 DEF Streams, Operated
  <2>2. QED
    BY <1>1, <2>1 DEF Pins, StreamPinned, Operated
<1>4. Shows(V)
  BY <1>1 DEF Shows, Operated
<1>5. QED
  BY <1>2, <1>3, <1>4 DEF Sound, Held, Operated

MoveOp(u, f, n) == [k |-> "paused", u |-> u, f |-> f, size |-> n, ok |-> FALSE]

LEMMA MoveOpIs ==
  ASSUME NEW u \in Units, NEW f \in Fbs, NEW n \in Sizes
  PROVE  /\ MoveOp(u, f, n) \in OpType /\ MoveOp(u, f, n).k = "paused"
         /\ MoveOp(u, f, n).f = f /\ MoveOp(u, f, n).u = u
  BY DEF MoveOp, OpType

LEMMA MovingIs ==
  ASSUME NEW W, NEW u, NEW f, NEW n
  PROVE  K!Moving(W, u, f, n) = WithOp(W, MoveOp(u, f, n))
  BY DEF K!Moving, WithOp, MoveOp

\* The old screen of a mode set goes.
Unscreened(W, m, u) ==
  \/ m = K!Ok(W)
  \/ \E e \in K!vmw_sou_fifo_destroy(W, u) :
       IF e.ok THEN m = K!Ok(K!vmw_sou_backing_free(e.w, u)) ELSE m = e

LEMMA SouModeIs ==
  ASSUME NEW W, NEW u, NEW f, NEW n, NEW i \in K!SouMode(W, u, f, n)
  PROVE  \E m : /\ Unscreened(W, m, u)
                /\ \/ ~m.ok /\ i = m
                   \/ m.ok /\ i \in K!SouShow(m.w, u, f, n)
                   \/ m.ok /\ \E y \in K!vmw_overlay_pause_all(K!Moving(m.w, u, f, n)) :
                                i = K!Ok(y)
<1> DEFINE D == UNION {IF e.ok THEN {K!Ok(K!vmw_sou_backing_free(e.w, u))} ELSE {e} :
                         e \in K!vmw_sou_fifo_destroy(W, u)}
           S == IF W.crtc[u].mode = n THEN {K!Ok(W)} ELSE D
           F(y) == IF y.crtc[u].buffer # 0 THEN K!SouShow(y, u, f, n)
                   ELSE {K!Ok(z) : z \in K!vmw_overlay_pause_all(K!Moving(y, u, f, n))}
<1>1. i \in UNION {IF m.ok THEN F(m.w) ELSE {m} : m \in S}
  BY Zenon DEF K!SouMode, K!Then
<1>2. PICK m \in S : i \in IF m.ok THEN F(m.w) ELSE {m}
  BY <1>1
<1>3. Unscreened(W, m, u)
  <2>1. CASE m = K!Ok(W)
    BY <2>1 DEF Unscreened
  <2>2. CASE m \in D
    <3>1. PICK e \in K!vmw_sou_fifo_destroy(W, u) :
            m \in IF e.ok THEN {K!Ok(K!vmw_sou_backing_free(e.w, u))} ELSE {e}
      BY <2>2
    <3>2. IF e.ok THEN m = K!Ok(K!vmw_sou_backing_free(e.w, u)) ELSE m = e
      BY <3>1
    <3>3. QED
      BY <3>2 DEF Unscreened
  <2>3. QED
    BY <1>2, <2>1, <2>2
<1>4. QED
  BY <1>2, <1>3

LEMMA UnscreenedKeeps ==
  ASSUME NEW W, NEW x, Sound(W, x), W.drv.sou, NEW u \in Units, NEW m, Unscreened(W, m, u)
  PROVE  Sound(m.w, x) /\ Moded(W, m.w, u)
<1>1. W \in Displays /\ Shows(W)
  BY HeldParts DEF Sound
<1>2. CASE m = K!Ok(W)
  BY <1>1, <1>2, ModedSelf, Outcomes
<1>3. ASSUME NEW e \in K!vmw_sou_fifo_destroy(W, u),
             IF e.ok THEN m = K!Ok(K!vmw_sou_backing_free(e.w, u)) ELSE m = e
      PROVE  Sound(m.w, x) /\ Moded(W, m.w, u)
  <2>1. Sound(e.w, x) /\ Destroyed(W, e, u)
    BY <1>3, DestroyKeeps
  <2>2. Moded(W, e.w, u) /\ e.w \in Displays /\ e.w.drv.sou /\ Shows(e.w)
    BY <2>1, HeldParts DEF Destroyed, Moded, Sound
  <2>3. CASE e.ok
    <3> DEFINE V == K!vmw_sou_backing_free(e.w, u)
    <3>1. e.w.crtc[u].defined = FALSE /\ e.w.dev.screen[u] = None
      BY <2>1, <2>3 DEF Destroyed
    <3>2. /\ Moded(e.w, V, u) /\ V.dev.hung = e.w.dev.hung
          /\ V.crtc[u].fb = e.w.crtc[u].fb /\ V.crtc[u].defined = e.w.crtc[u].defined
          /\ e.w.dev.screen[u] = None => V.dev.screen[u] = None
      BY <2>2, BackingFreeIs
    <3> HIDE DEF V
    <3>3. V.dev.screen[u] = (IF V.crtc[u].defined THEN "backed" ELSE None)
      BY <3>1, <3>2
    <3>4. V.crtc[u].fb # None => V.fb[V.crtc[u].fb].live \/ V.dev.hung
      BY <2>2, <3>2 DEF Moded, Shows
    <3>5. Sound(V, x)
      BY <2>1, <2>2, <3>2, <3>3, <3>4, SouModedKeeps
    <3>6. Moded(W, V, u)
      BY <2>2, <3>2, ModedTwice
    <3>7. m.w = V
      BY <1>3, <2>3, Outcomes DEF V
    <3>8. QED
      BY <3>5, <3>6, <3>7
  <2>4. CASE ~e.ok
    BY <1>3, <2>1, <2>2, <2>4
  <2>5. QED
    BY <2>3, <2>4
<1>4. QED
  BY <1>2, <1>3 DEF Unscreened

\* The holder of the mutex after a mode set begins.
Begun(W, V) == V.drv.op = W.drv.op \/ V.drv.op.k = "paused"

LEMMA SouModeKeeps ==
  ASSUME NEW W, NEW x, Sound(W, x), W.drv.sou, NEW u \in Units, NEW f \in Fbs, W.fb[f].live,
         NEW n \in Sizes, NEW i \in K!SouMode(W, u, f, n)
  PROVE  Sound(i.w, x) /\ Begun(W, i.w)
<1>1. PICK m : /\ Unscreened(W, m, u)
               /\ \/ ~m.ok /\ i = m
                  \/ m.ok /\ i \in K!SouShow(m.w, u, f, n)
                  \/ m.ok /\ \E y \in K!vmw_overlay_pause_all(K!Moving(m.w, u, f, n)) :
                               i = K!Ok(y)
  BY SouModeIs
<1>2. Sound(m.w, x) /\ Moded(W, m.w, u)
  BY <1>1, UnscreenedKeeps
<1>3. m.w \in Displays /\ m.w.drv.sou /\ m.w.drv.op = W.drv.op /\ m.w.fb[f].live
  BY <1>2 DEF Moded
<1>4. CASE i = m
  BY <1>2, <1>3, <1>4 DEF Begun
<1>5. CASE i \in K!SouShow(m.w, u, f, n)
  <2>1. Sound(i.w, x) /\ Moded(m.w, i.w, u)
    BY <1>2, <1>3, <1>5, SouShowKeeps
  <2>2. i.w.drv.op = W.drv.op
    BY <1>3, <2>1 DEF Moded
  <2>3. QED
    BY <2>1, <2>2 DEF Begun
<1>6. ASSUME NEW y \in K!vmw_overlay_pause_all(K!Moving(m.w, u, f, n)), i = K!Ok(y)
      PROVE  Sound(i.w, x) /\ Begun(W, i.w)
  <2> DEFINE op == MoveOp(u, f, n)
             V == K!Moving(m.w, u, f, n)
  <2>1. op \in OpType /\ op.k = "paused" /\ op.f = f
    BY MoveOpIs
  <2> HIDE DEF op
  <2>2. Operated(m.w, V, op)
    BY <1>3, <2>1, OpIs, MovingIs DEF op
  <2> HIDE DEF V
  <2>3. \A o \in Things : Scans(m.w, o) => Scans(V, o)
    BY <1>3 DEF Scans
  <2>4. Sound(V, x)
    BY <1>2, <1>3, <2>1, <2>2, <2>3, OpKeeps
  <2>5. Sound(y, x) /\ SameModes(V, y)
    BY <1>6, <2>4, PauseKeeps DEF V
  <2>6. i.w = y
    BY <1>6, Outcomes
  <2>7. QED
    BY <2>1, <2>2, <2>5, <2>6 DEF Begun, Operated, SameModes
<1>7. QED
  BY <1>1, <1>4, <1>5, <1>6

-----------------------------------------------------------------------------
(* Legacy display units. *)

LegacyStep(W, V) ==
  /\ V \in Displays /\ V.fb = W.fb /\ V.strm = W.strm
  /\ V.dev.stream = W.dev.stream /\ V.dev.screen = W.dev.screen /\ V.dev.hung = W.dev.hung
  /\ V.drv.sou = W.drv.sou /\ V.drv.ne = W.drv.ne /\ V.drv.on = W.drv.on
  /\ \A u \in Units :
       V.crtc[u].cursor = W.crtc[u].cursor /\ V.crtc[u].defined = W.crtc[u].defined
  /\ \A o \in Things :
       /\ V.obj[o].base = W.obj[o].base /\ V.obj[o].refs = W.obj[o].refs
       /\ V.obj[o].handle = W.obj[o].handle
       /\ o \in Videos => V.obj[o].ne = W.obj[o].ne

LEMMA LegacyTwice ==
  ASSUME NEW W, NEW V, NEW U, LegacyStep(W, V), LegacyStep(V, U)
  PROVE  LegacyStep(W, U)
  BY DEF LegacyStep

LEMMA LegacySelf ==
  ASSUME NEW W \in Displays
  PROVE  LegacyStep(W, W)
  BY DEF LegacyStep

LEMMA LegacyKeeps ==
  ASSUME NEW W, NEW x, Sound(W, x), NEW V, LegacyStep(W, V), Legacy(V),
         \A u \in Units : V.crtc[u].fb # None => W.fb[V.crtc[u].fb].live,
         V.drv.op.k # "none" => W.fb[V.drv.op.f].live,
         \A o \in Things : V.obj[o].ne # "no" => Streams(W, o) \/ Scans(V, o)
  PROVE  Sound(V, x)
<1>1. /\ W \in Displays /\ Referenced(W, x) /\ Pins(W) /\ Shows(W) /\ StreamPinned(W)
  BY HeldParts DEF Sound
<1>2. Referenced(V, x)
  <2>1. \A o : FbsOf(V, o) = FbsOf(W, o) /\ CursorsOf(V, o) = CursorsOf(W, o)
    BY DEF FbsOf, CursorsOf, LegacyStep
  <2> SUFFICES ASSUME NEW o \in Things PROVE Counted(V, o, If1(o = x))
    BY DEF Referenced
  <2>2. Counted(W, o, If1(o = x))
    BY <1>1 DEF Referenced
  <2>3. V.obj[o].base = W.obj[o].base /\ V.obj[o].refs = W.obj[o].refs
        /\ V.obj[o].handle = W.obj[o].handle /\ V.strm = W.strm
    BY DEF LegacyStep
  <2>4. QED
    BY <2>1, <2>2, <2>3 DEF Counted
<1>3. Pins(V)
  <2>1. ASSUME NEW o \in Things, V.obj[o].ne # "no" PROVE Streams(V, o) \/ Scans(V, o)
    <3>1. Streams(W, o) \/ Scans(V, o)
      BY <2>1
    <3>2. QED
      BY <3>1 DEF Streams, LegacyStep
  <2>2. V.dev.stream # None =>
       V.dev.stream = V.strm.buf /\ ~V.strm.paused /\ V.obj[V.strm.buf].ne # "no"
    <3> SUFFICES ASSUME V.dev.stream # None
                 PROVE  V.dev.stream = V.strm.buf /\ ~V.strm.paused
                        /\ V.obj[V.strm.buf].ne # "no"
      OBVIOUS
    <3>1. W.dev.stream = W.strm.buf /\ ~W.strm.paused /\ W.obj[W.strm.buf].ne # "no"
          /\ W.dev.stream # None
      BY <1>1 DEF Pins, LegacyStep
    <3>2. W.strm.buf \in Videos /\ W.strm.buf \in Things
      BY <1>1, <3>1, StreamOf
    <3>3. V.obj[W.strm.buf].ne = W.obj[W.strm.buf].ne
      BY <3>2 DEF LegacyStep
    <3>4. V.strm = W.strm /\ V.dev.stream = W.dev.stream
      BY DEF LegacyStep
    <3>5. QED
      BY <3>1, <3>3, <3>4
  <2>3. (V.strm.paused => V.strm.buf # None) /\ (V.drv.ne <=> V.drv.on)
    BY <1>1 DEF Pins, LegacyStep
  <2>4. QED
    BY <2>1, <2>2, <2>3 DEF Pins
<1>4. StreamPinned(V)
  <2>1. W.strm.buf # None => W.strm.buf \in Videos /\ W.strm.buf \in Things
    BY <1>1, StreamOf
  <2>2. QED
    BY <1>1, <2>1 DEF StreamPinned, LegacyStep
<1>5. Shows(V)
  <2>1. V.fb = W.fb /\ V.dev.screen = W.dev.screen
    BY DEF LegacyStep
  <2>2. \A u \in Units : V.crtc[u].defined = W.crtc[u].defined
    BY DEF LegacyStep
  <2>3. QED
    BY <1>1, <2>1, <2>2 DEF Shows
<1>6. V \in Displays
  BY DEF LegacyStep
<1>7. QED
  BY <1>2, <1>3, <1>4, <1>5, <1>6 DEF Sound, Held

\* The units shown to the device.
LEMMA CommitIs ==
  ASSUME NEW W \in Displays
  PROVE  LET V == K!vmw_ldu_commit_list(W) IN
         LegacyStep(W, V) /\ V.crtc = W.crtc /\ V.obj = W.obj /\ V.drv = W.drv
<1> DEFINE q == K!ActiveLdu(W)
           d == [W.dev EXCEPT !.shown = q]
           V == WithDevice(W, d)
<1>1. q \subseteq Units
  BY DEF K!ActiveLdu
<1>2. K!vmw_ldu_commit_list(W) = [W EXCEPT !.dev = d]
  BY DEF K!vmw_ldu_commit_list
<1> HIDE DEF q
<1>3. /\ d \in DisplayType /\ d.screen = W.dev.screen /\ d.stream = W.dev.stream
      /\ d.hung = W.dev.hung
  BY <1>1, DisplayParts DEF DisplayType
<1> HIDE DEF d
<1>4. K!vmw_ldu_commit_list(W) = V
  BY <1>2, PartSet DEF WithDevice
<1>5. /\ V \in Displays /\ V.fb = W.fb /\ V.obj = W.obj /\ V.strm = W.strm
      /\ V.crtc = W.crtc /\ V.drv = W.drv /\ V.dev = d
  BY <1>3, DeviceSet
<1> HIDE DEF V
<1>6. LegacyStep(W, V)
  BY <1>3, <1>5 DEF LegacyStep
<1>7. QED
  BY <1>4, <1>5, <1>6

\* The old scanout buffer is unpinned.
LEMMA LegacyUnpin ==
  ASSUME NEW W \in Displays, NEW o \in Bufs, o \notin Videos
  PROVE  LET V == K!vmw_dmabuf_unpin(W, o) IN
         LegacyStep(W, V) /\ V.crtc = W.crtc /\ V.drv = W.drv /\ OnlyThing(W, V, o)
         /\ V.obj[o].ne = "no"
<1> DEFINE r == W.obj[o]
           V == K!vmw_dmabuf_unpin(W, o)
<1>1. o \in Things
  BY DEF Things
<1>2. Changed(W, V, o, r.base, r.refs, r.handle, "no")
  BY <1>1, UnpinIs
<1> HIDE DEF V
<1>3. /\ OnlyThing(W, V, o) /\ V.obj[o].base = r.base /\ V.obj[o].refs = r.refs
      /\ V.obj[o].handle = r.handle /\ V.obj[o].ne = "no"
  BY <1>2 DEF Changed, ThingIs
<1>4. LegacyStep(W, V)
  BY <1>3 DEF OnlyThing, LegacyStep
<1>5. QED
  BY <1>3, <1>4 DEF OnlyThing, V

\* A mode set's change of one crtc that keeps its screen.
LEMMA LegacyModed ==
  ASSUME NEW W, NEW V, NEW u \in Units, Moded(W, V, u), V.dev = W.dev,
         V.crtc[u].defined = W.crtc[u].defined
  PROVE  LegacyStep(W, V) /\ V.obj = W.obj /\ \A v \in Units \ {u} : V.crtc[v] = W.crtc[v]
  BY DEF Moded, LegacyStep

\* A legacy unit that is off.
LduGone(W, V, u) ==
  /\ LegacyStep(W, V) /\ V.drv.op = W.drv.op /\ V.crtc[u].fb = None /\ ~V.crtc[u].active
  /\ \A v \in Units \ {u} : V.crtc[v] = W.crtc[v]
  /\ \/ /\ V.drv.fb = W.drv.fb /\ V.obj = W.obj
        /\ W.crtc[u].active => \E v \in Units : V.crtc[v].active
     \/ /\ W.crtc[u].active /\ V.drv.fb = None /\ \A v \in Units : ~V.crtc[v].active
        /\ V.obj[W.fb[W.drv.fb].obj].ne = "no"
        /\ \A p \in Things \ {W.fb[W.drv.fb].obj} : V.obj[p] = W.obj[p]

LEMMA LduOffIs ==
  ASSUME NEW W \in Displays, NEW u \in Units, Bufs \cap Videos = {},
         W.crtc[u].active => W.fb[W.drv.fb].obj \in Bufs
  PROVE  LduGone(W, K!LduOff(W, u), u)
<1> DEFINE C1 == K!CrtcOff(W, u)
           f == FALSE
           C2 == WithActive(C1, u, f)
           o == C2.fb[C2.drv.fb].obj
           C3 == K!vmw_dmabuf_unpin(C2, o)
           C4 == [C3 EXCEPT !.drv.fb = None]
           D == K!vmw_ldu_del_active(C1, u)
           V == K!vmw_ldu_commit_list(D)
<1>1. /\ Moded(W, C1, u) /\ C1.drv = W.drv /\ C1.dev = W.dev /\ C1.crtc[u].fb = None
      /\ C1.crtc[u].defined = W.crtc[u].defined /\ C1.crtc[u].active = W.crtc[u].active
  BY CrtcOffIs
<1>2. \/ ~C1.crtc[u].active /\ D = C1
      \/ C1.crtc[u].active /\ K!ActiveLdu(C2) # {} /\ D = C2
      \/ C1.crtc[u].active /\ K!ActiveLdu(C2) = {} /\ D = C4
  <2>1. D = IF ~C1.crtc[u].active THEN C1 ELSE IF K!ActiveLdu(C2) # {} THEN C2 ELSE C4
    BY Zenon DEF K!vmw_ldu_del_active, WithActive
  <2> HIDE DEF D, C4, C2, C1
  <2>2. QED
    BY <2>1
<1>3. K!LduOff(W, u) = V
  BY DEF K!LduOff
<1> HIDE DEF C1
<1>4. C1 \in Displays /\ f \in BOOLEAN
  BY <1>1 DEF Moded
<1>5. LegacyStep(W, C1) /\ C1.obj = W.obj /\ \A v \in Units \ {u} : C1.crtc[v] = W.crtc[v]
  BY <1>1, LegacyModed
<1> HIDE DEF f
<1>6. /\ Moded(C1, C2, u) /\ C2.drv = C1.drv /\ C2.dev = C1.dev
      /\ C2.crtc[u].fb = C1.crtc[u].fb /\ C2.crtc[u].defined = C1.crtc[u].defined
      /\ C2.crtc[u].active = f
  BY <1>4, ActiveIs
<1> HIDE DEF C2
<1>7. LegacyStep(C1, C2) /\ C2.obj = C1.obj /\ \A v \in Units \ {u} : C2.crtc[v] = C1.crtc[v]
  BY <1>6, LegacyModed
<1>8. LegacyStep(W, C2) /\ C2.obj = W.obj /\ C2.drv = W.drv /\ C2.fb = W.fb
      /\ C2.crtc[u].fb = None /\ ~C2.crtc[u].active
      /\ \A v \in Units \ {u} : C2.crtc[v] = W.crtc[v]
  <2>1. LegacyStep(W, C2)
    BY <1>5, <1>7, LegacyTwice
  <2>2. f = FALSE
    BY DEF f
  <2>3. QED
    BY <1>1, <1>5, <1>6, <1>7, <2>1, <2>2 DEF LegacyStep
<1>9. o = W.fb[W.drv.fb].obj /\ C2 \in Displays
  BY <1>8 DEF LegacyStep
<1> HIDE DEF o
<1>10. ASSUME C1.crtc[u].active
       PROVE  /\ LegacyStep(W, C4) /\ C4.crtc = C2.crtc /\ C4.drv.fb = None
              /\ C4.drv.op = W.drv.op /\ C4.obj[o].ne = "no"
              /\ \A p \in Things \ {o} : C4.obj[p] = W.obj[p]
  <2>1. o \in Bufs /\ o \notin Videos
    BY <1>1, <1>9, <1>10
  <2>2. LegacyStep(C2, C3) /\ C3.crtc = C2.crtc /\ C3.drv = C2.drv /\ OnlyThing(C2, C3, o)
         /\ C3.obj[o].ne = "no"
    BY <1>9, <2>1, LegacyUnpin
  <2> HIDE DEF C3
  <2>3. C3 \in Displays /\ None \in Fbs \cup {None}
    BY <2>2 DEF LegacyStep
  <2>4. Moded(C3, C4, u) /\ C4.crtc = C3.crtc /\ C4.dev = C3.dev /\ C4.drv.fb = None
    BY <2>3, DriverFbModed
  <2> HIDE DEF C4
  <2>5. LegacyStep(C3, C4) /\ C4.obj = C3.obj
    BY <2>4, LegacyModed
  <2>6. LegacyStep(W, C4)
    BY <1>8, <2>2, <2>5, LegacyTwice
  <2>7. C4.drv.op = W.drv.op
    BY <1>8, <2>2, <2>4 DEF Moded
  <2>8. \A p \in Things \ {o} : C4.obj[p] = W.obj[p]
    BY <1>8, <2>2, <2>5 DEF OnlyThing
  <2>9. QED
    BY <2>2, <2>4, <2>5, <2>6, <2>7, <2>8
<1> HIDE DEF C4
<1>11. LduGone(W, D, u)
  <2>1. CASE ~C1.crtc[u].active /\ D = C1
    BY <1>1, <1>5, <2>1 DEF LduGone, LegacyStep
  <2>2. CASE C1.crtc[u].active /\ K!ActiveLdu(C2) # {} /\ D = C2
    <3>1. \E v \in Units : C2.crtc[v].active
      BY <2>2 DEF K!ActiveLdu
    <3>2. QED
      BY <1>8, <2>2, <3>1 DEF LduGone
  <2>3. CASE C1.crtc[u].active /\ K!ActiveLdu(C2) = {} /\ D = C4
    <3>1. \A v \in Units : ~C2.crtc[v].active
      BY <2>3 DEF K!ActiveLdu
    <3>2. /\ LegacyStep(W, C4) /\ C4.crtc = C2.crtc /\ C4.drv.fb = None
          /\ C4.drv.op = W.drv.op /\ C4.obj[o].ne = "no"
          /\ \A p \in Things \ {o} : C4.obj[p] = W.obj[p]
      BY <1>10, <2>3
    <3>3. QED
      BY <1>1, <1>8, <1>9, <2>3, <3>1, <3>2 DEF LduGone
  <2>4. QED
    BY <1>2, <2>1, <2>2, <2>3
<1> HIDE DEF D
<1>12. LegacyStep(D, V) /\ V.crtc = D.crtc /\ V.obj = D.obj /\ V.drv = D.drv
  <2>1. D \in Displays
    BY <1>11 DEF LduGone, LegacyStep
  <2>2. QED
    BY <2>1, CommitIs
<1>13. LegacyStep(W, V)
  BY <1>11, <1>12, LegacyTwice DEF LduGone
<1> HIDE DEF V
<1>14. LduGone(W, V, u)
  BY <1>11, <1>12, <1>13 DEF LduGone
<1>15. QED
  BY <1>3, <1>14

\* The scanout buffer of the legacy units.
LEMMA LegacyFb ==
  ASSUME NEW W, NEW x, Sound(W, x), ~W.drv.sou, W.drv.fb # None
  PROVE  W.drv.fb \in Fbs /\ W.fb[W.drv.fb].live /\ W.fb[W.drv.fb].obj \in Bufs
<1>1. W \in Displays /\ Legacy(W) /\ Shows(W)
  BY HeldParts DEF Sound
<1>2. W.drv.fb \in Fbs /\ W.fb[W.drv.fb].live
  BY <1>1, DriverOf DEF Legacy
<1>3. QED
  BY <1>1, <1>2, FbOf DEF Shows

LEMMA LduOffKeeps ==
  ASSUME NEW W, NEW x, Sound(W, x), ~W.drv.sou, W.drv.op.k \in {"none", "cleanup"},
         Bufs \cap Videos = {}, NEW u \in Units
  PROVE  LET V == K!LduOff(W, u) IN Sound(V, x) /\ LduGone(W, V, u)
<1> DEFINE V == K!LduOff(W, u)
           o == W.fb[W.drv.fb].obj
<1>1. W \in Displays /\ Legacy(W) /\ Shows(W) /\ Pins(W)
  BY HeldParts DEF Sound
<1>2. W.crtc[u].active => W.drv.fb # None
  BY <1>1 DEF Legacy
<1>3. LduGone(W, V, u)
  BY <1>1, <1>2, LegacyFb, LduOffIs
<1> HIDE DEF V
<1>4. /\ LegacyStep(W, V) /\ V.drv.op = W.drv.op /\ V.crtc[u].fb = None /\ ~V.crtc[u].active
      /\ \A v \in Units \ {u} : V.crtc[v] = W.crtc[v]
      /\ V.fb = W.fb /\ V.dev.hung = W.dev.hung /\ V.drv.sou = W.drv.sou
  BY <1>3 DEF LduGone, LegacyStep
<1>5. \A v \in Units : V.crtc[v].active => W.crtc[v].active /\ v # u
  BY <1>4
<1>6. Legacy(V)
  <2>1. CASE V.drv.fb = W.drv.fb /\ (W.crtc[u].active => \E v \in Units : V.crtc[v].active)
    <3>1. W.drv.fb = None <=> \A v \in Units : ~W.crtc[v].active
      BY <1>1 DEF Legacy
    <3>2. V.drv.fb = None <=> \A v \in Units : ~V.crtc[v].active
      BY <1>4, <1>5, <2>1, <3>1
    <3>3. \A v \in Units : V.crtc[v].active => V.crtc[v].fb = V.drv.fb
      BY <1>1, <1>4, <1>5, <2>1 DEF Legacy
    <3>4. QED
      BY <1>1, <1>4, <2>1, <3>2, <3>3 DEF Legacy
  <2>2. CASE V.drv.fb = None /\ \A v \in Units : ~V.crtc[v].active
    BY <1>1, <1>4, <2>2 DEF Legacy
  <2>3. QED
    BY <1>3, <2>1, <2>2 DEF LduGone
<1>7. ASSUME NEW p \in Things, V.obj[p].ne # "no"
      PROVE  Streams(W, p) \/ Scans(V, p)
  <2>1. CASE V.drv.fb = W.drv.fb /\ V.obj = W.obj
    <3>1. Streams(W, p) \/ Scans(W, p)
      BY <1>1, <1>7, <2>1 DEF Pins
    <3>2. QED
      BY <1>4, <2>1, <3>1 DEF Scans
  <2>2. CASE /\ V.obj[o].ne = "no"
             /\ \A q \in Things \ {o} : V.obj[q] = W.obj[q]
    <3>1. p # o /\ W.obj[p].ne # "no"
      BY <1>7, <2>2
    <3>2. Streams(W, p) \/ Scans(W, p)
      BY <1>1, <3>1 DEF Pins
    <3>3. QED
      BY <3>1, <3>2 DEF Scans
  <2>3. QED
    BY <1>3, <2>1, <2>2 DEF LduGone
<1>8. \A v \in Units : V.crtc[v].fb # None => W.fb[V.crtc[v].fb].live
  BY <1>1, <1>4 DEF Shows, Legacy
<1>9. V.drv.op.k # "none" => W.fb[V.drv.op.f].live
  BY <1>1, <1>4 DEF Shows
<1>10. Sound(V, x)
  BY <1>4, <1>6, <1>7, <1>8, <1>9, LegacyKeeps
<1>11. QED
  BY <1>3, <1>10 DEF V

LEMMA LduShowIs ==
  ASSUME NEW W \in Displays, NEW u \in Units
  PROVE  LET V == K!LduShow(W, u) IN
         /\ LegacyStep(W, V) /\ V.obj = W.obj /\ V.drv = W.drv
         /\ V.crtc[u].fb = W.crtc[u].fb /\ V.crtc[u].active
         /\ \A v \in Units \ {u} : V.crtc[v] = W.crtc[v]
<1> DEFINE t == TRUE
           U == WithActive(W, u, t)
           V == K!LduShow(W, u)
<1>1. V = K!vmw_ldu_commit_list(U)
  BY DEF K!LduShow, WithActive
<1>2. t \in BOOLEAN /\ t
  OBVIOUS
<1> HIDE DEF t
<1>3. /\ Moded(W, U, u) /\ U.drv = W.drv /\ U.dev = W.dev
      /\ U.crtc[u].fb = W.crtc[u].fb /\ U.crtc[u].defined = W.crtc[u].defined
      /\ U.crtc[u].active = t
  BY <1>2, ActiveIs
<1> HIDE DEF U, V
<1>4. LegacyStep(W, U) /\ U.obj = W.obj /\ \A v \in Units \ {u} : U.crtc[v] = W.crtc[v]
  BY <1>3, LegacyModed
<1>5. U \in Displays
  BY <1>3 DEF Moded
<1>6. LegacyStep(U, V) /\ V.crtc = U.crtc /\ V.obj = U.obj /\ V.drv = U.drv
  BY <1>1, <1>5, CommitIs
<1>7. LegacyStep(W, V)
  BY <1>4, <1>6, LegacyTwice
<1>8. /\ LegacyStep(W, V) /\ V.obj = W.obj /\ V.drv = W.drv
      /\ V.crtc[u].fb = W.crtc[u].fb /\ V.crtc[u].active
      /\ \A v \in Units \ {u} : V.crtc[v] = W.crtc[v]
  BY <1>2, <1>3, <1>4, <1>6, <1>7
<1>9. QED
  BY <1>8 DEF V

LduModed(W, u, f, n, i, U) ==
  \/ W.drv.fb = f /\ i = K!Ok(K!LduShow(U, u))
  \/ /\ W.drv.fb # f
     /\ \E y \in K!vmw_overlay_pause_all(K!Moving(K!LduUnpinOld(U), u, f, n)) : i = K!Ok(y)

LEMMA LduModeIs ==
  ASSUME NEW W \in Displays, NEW u \in Units, NEW f, NEW n, NEW i \in K!LduMode(W, u, f, n)
  PROVE  LduModed(W, u, f, n, i, WithMode(W, u, f, n))
<1> DEFINE U == WithMode(W, u, f, n)
           U1 == [W EXCEPT !.crtc[u].fb = f, !.crtc[u].mode = n, !.crtc[u].enabled = TRUE]
<1>1. U1 = U
  <2>1. W.crtc[u] \in CrtcType /\ W.crtc \in [Units -> CrtcType]
    BY DisplayParts
  <2>2. [[W.crtc[u] EXCEPT !.fb = f] EXCEPT !.mode = n]
          = [[W.crtc[u] EXCEPT !.mode = n] EXCEPT !.fb = f]
    BY <2>1 DEF CrtcType
  <2>3. [W EXCEPT !.crtc[u].fb = f, !.crtc[u].mode = n]
          = [W EXCEPT !.crtc[u].mode = n, !.crtc[u].fb = f]
    BY <2>1, <2>2, DisplayParts DEF Displays
  <2>4. QED
    BY <2>3 DEF WithMode
<1> HIDE DEF U
<1>2. i \in IF W.drv.fb = f THEN {K!Ok(K!LduShow(U1, u))}
            ELSE {K!Ok(y) : y \in K!vmw_overlay_pause_all(
                                   K!Moving(K!LduUnpinOld(U1), u, f, n))}
  BY Zenon DEF K!LduMode
<1> HIDE DEF U1
<1>3. LduModed(W, u, f, n, i, U)
  BY <1>1, <1>2 DEF LduModed
<1>4. QED
  BY <1>3 DEF U

\* The old buffer is unpinned before the new one is moved.
LEMMA UnpinOldIs ==
  ASSUME NEW W \in Displays, Bufs \cap Videos = {},
         W.drv.fb # None => W.fb[W.drv.fb].obj \in Bufs
  PROVE  LET V == K!LduUnpinOld(W) IN
         /\ LegacyStep(W, V) /\ V.crtc = W.crtc /\ V.drv = W.drv
         /\ \A p \in Things :
              \/ V.obj[p].ne = "no"
              \/ V.obj[p] = W.obj[p] /\ (W.drv.fb # None => p # W.fb[W.drv.fb].obj)
<1> DEFINE o == W.fb[W.drv.fb].obj
           U == K!vmw_dmabuf_unpin(W, o)
<1>1. K!LduUnpinOld(W) = IF W.drv.fb = None THEN W ELSE U
  BY DEF K!LduUnpinOld
<1>2. CASE W.drv.fb = None
  BY <1>1, <1>2, LegacySelf
<1>3. CASE W.drv.fb # None
  <2>1. o \in Bufs /\ o \notin Videos
    BY <1>3
  <2> HIDE DEF o
  <2>2. LegacyStep(W, U) /\ U.crtc = W.crtc /\ U.drv = W.drv /\ OnlyThing(W, U, o)
        /\ U.obj[o].ne = "no"
    BY <2>1, LegacyUnpin
  <2> HIDE DEF U
  <2>3. \A p \in Things : U.obj[p].ne = "no" \/ (U.obj[p] = W.obj[p] /\ p # o)
    BY <2>2 DEF OnlyThing
  <2>4. K!LduUnpinOld(W) = U
    BY <1>1, <1>3
  <2>5. QED
    BY <2>2, <2>3, <2>4 DEF o
<1>4. QED
  BY <1>2, <1>3

LEMMA LduModeKeeps ==
  ASSUME NEW W, NEW x, Sound(W, x), ~W.drv.sou, W.drv.op.k = "none", Bufs \cap Videos = {},
         NEW u \in Units, NEW f \in Fbs, W.fb[f].live, NEW n \in Sizes,
         ~K!MultipleFbs(W, u, f), NEW i \in K!LduMode(W, u, f, n)
  PROVE  Sound(i.w, x) /\ Begun(W, i.w)
<1> DEFINE U == WithMode(W, u, f, n)
<1>1. W \in Displays /\ Legacy(W) /\ Shows(W) /\ Pins(W) /\ f # None
  BY HeldParts, KmsAssumption DEF Sound
<1>2. /\ Moded(W, U, u) /\ U.drv = W.drv /\ U.dev = W.dev
      /\ U.crtc[u].fb = f /\ U.crtc[u].defined = W.crtc[u].defined
      /\ U.crtc[u].active = W.crtc[u].active
  BY <1>1, ModeIs
<1>3. \/ W.drv.fb = f /\ i = K!Ok(K!LduShow(U, u))
      \/ /\ W.drv.fb # f
         /\ \E y \in K!vmw_overlay_pause_all(K!Moving(K!LduUnpinOld(U), u, f, n)) :
              i = K!Ok(y)
  <2>1. LduModed(W, u, f, n, i, U)
    BY <1>1, LduModeIs
  <2> HIDE DEF U
  <2>2. QED
    BY <2>1 DEF LduModed
<1> HIDE DEF U
<1>4. LegacyStep(W, U) /\ U.obj = W.obj /\ \A v \in Units \ {u} : U.crtc[v] = W.crtc[v]
  BY <1>2, LegacyModed
<1>5. U \in Displays /\ U.fb = W.fb
  BY <1>2 DEF Moded
<1>6. CASE W.drv.fb = f /\ i = K!Ok(K!LduShow(U, u))
  <2> DEFINE V == K!LduShow(U, u)
  <2>1. /\ LegacyStep(U, V) /\ V.obj = U.obj /\ V.drv = U.drv
        /\ V.crtc[u].fb = U.crtc[u].fb /\ V.crtc[u].active
        /\ \A v \in Units \ {u} : V.crtc[v] = U.crtc[v]
    BY <1>5, LduShowIs
  <2> HIDE DEF V
  <2>2. LegacyStep(W, V) /\ V.fb = W.fb /\ V.dev.hung = W.dev.hung
    BY <1>4, <2>1, LegacyTwice DEF LegacyStep
  <2>3. /\ V.drv = W.drv /\ V.obj = W.obj /\ V.crtc[u].fb = f
        /\ \A v \in Units \ {u} : V.crtc[v] = W.crtc[v]
    BY <1>2, <1>4, <2>1
  <2>4. \A v \in Units : V.crtc[v].active => V.crtc[v].fb = V.drv.fb
    BY <1>1, <1>6, <2>3 DEF Legacy
  <2>5. Legacy(V)
    BY <1>1, <1>6, <2>1, <2>2, <2>3, <2>4 DEF Legacy
  <2>6. \A v \in Units : V.crtc[v].fb # None => W.fb[V.crtc[v].fb].live
    BY <1>1, <2>3 DEF Shows, Legacy
  <2>7. V.drv.op.k # "none" => W.fb[V.drv.op.f].live
    BY <2>3
  <2>8. \A o \in Things : V.obj[o].ne # "no" => Streams(W, o) \/ Scans(V, o)
    BY <1>1, <2>2, <2>3 DEF Pins, Scans
  <2>9. Sound(V, x)
    BY <2>2, <2>5, <2>6, <2>7, <2>8, LegacyKeeps
  <2>10. i.w = V
    BY <1>6, Outcomes DEF V
  <2>11. QED
    BY <2>3, <2>9, <2>10 DEF Begun
<1>7. ASSUME W.drv.fb # f,
             NEW y \in K!vmw_overlay_pause_all(K!Moving(K!LduUnpinOld(U), u, f, n)),
             i = K!Ok(y)
      PROVE  Sound(i.w, x) /\ Begun(W, i.w)
  <2> DEFINE C2 == K!LduUnpinOld(U)
             op == MoveOp(u, f, n)
             V == K!Moving(C2, u, f, n)
  <2>1. U.drv.fb # None => U.fb[U.drv.fb].obj \in Bufs
    BY <1>2, <1>5, LegacyFb
  <2>2. /\ LegacyStep(U, C2) /\ C2.crtc = U.crtc /\ C2.drv = U.drv
        /\ \A p \in Things :
             \/ C2.obj[p].ne = "no"
             \/ C2.obj[p] = U.obj[p] /\ (U.drv.fb # None => p # U.fb[U.drv.fb].obj)
    BY <1>5, <2>1, UnpinOldIs
  <2> HIDE DEF C2
  <2>3. op \in OpType /\ op.k = "paused" /\ op.f = f /\ op.u = u
    BY MoveOpIs
  <2>4. V = WithOp(C2, op)
    BY MovingIs
  <2> HIDE DEF op
  <2>5. C2 \in Displays
    BY <2>2 DEF LegacyStep
  <2>6. Operated(C2, V, op)
    BY <2>3, <2>4, <2>5, OpIs
  <2> HIDE DEF V
  <2>7. LegacyStep(C2, V)
    BY <2>6 DEF Operated, LegacyStep
  <2>8. LegacyStep(W, V) /\ V.fb = W.fb /\ V.dev.hung = W.dev.hung
    <3>1. LegacyStep(W, C2)
      BY <1>4, <2>2, LegacyTwice
    <3>2. QED
      BY <2>7, <3>1, LegacyTwice DEF LegacyStep
  <2>9. /\ V.crtc[u].fb = f /\ V.crtc[u].active = W.crtc[u].active /\ V.drv.fb = W.drv.fb
        /\ \A v \in Units \ {u} : V.crtc[v] = W.crtc[v]
        /\ V.drv.op = op
    BY <1>2, <1>4, <2>2, <2>6 DEF Operated
  <2>10. \A v \in Units : W.crtc[v].active => v = u
    <3>1. CASE W.drv.fb = None
      BY <1>1, <3>1 DEF Legacy
    <3>2. CASE W.drv.fb # None
      BY <1>7, <3>2 DEF K!MultipleFbs
    <3>3. QED
      BY <3>1, <3>2
  <2>11. Legacy(V)
    <3>1. \A v \in Units : V.crtc[v].active <=> W.crtc[v].active
      BY <2>9
    <3>2. V.drv.fb = None <=> \A v \in Units : ~V.crtc[v].active
      BY <1>1, <2>9, <3>1 DEF Legacy
    <3>3. V.drv.fb # None => V.fb[V.drv.fb].live
      BY <1>1, <2>8, <2>9 DEF Legacy
    <3>4. QED
      BY <1>1, <2>3, <2>8, <2>9, <2>10, <3>1, <3>2, <3>3 DEF Legacy
  <2>12. \A v \in Units : V.crtc[v].fb # None => W.fb[V.crtc[v].fb].live
    BY <1>1, <2>9 DEF Shows, Legacy
  <2>13. V.drv.op.k # "none" => W.fb[V.drv.op.f].live
    BY <2>3, <2>9
  <2>14. ASSUME NEW o \in Things, V.obj[o].ne # "no" PROVE Streams(W, o)
    <3>1. C2.obj[o].ne # "no"
      BY <2>6, <2>14 DEF Operated
    <3>2. W.obj[o].ne # "no" /\ (W.drv.fb # None => o # W.fb[W.drv.fb].obj)
      BY <1>2, <1>4, <1>5, <2>2, <3>1
    <3>3. QED
      BY <1>1, <3>2 DEF Pins, Scans
  <2>15. Sound(V, x)
    BY <2>8, <2>11, <2>12, <2>13, <2>14, LegacyKeeps
  <2>16. Sound(y, x) /\ SameModes(V, y)
    BY <1>7, <2>15, PauseKeeps DEF V, C2
  <2>17. i.w = y
    BY <1>7, Outcomes
  <2>18. QED
    BY <2>3, <2>9, <2>16, <2>17 DEF Begun, SameModes
<1>8. QED
  BY <1>3, <1>6, <1>7

-----------------------------------------------------------------------------
(* The steps: from one world to the next. *)

LEMMA BecomeIs ==
  ASSUME NEW V, V \in Displays, K!Become(V)
  PROVE  K!World' = V
<1>1. V = [fb |-> V.fb, crtc |-> V.crtc, obj |-> V.obj, strm |-> V.strm, drv |-> V.drv,
           dev |-> V.dev]
  BY DisplayParts
<1>2. QED
  BY <1>1 DEF K!Become, K!World

LEMMA SoundIn ==
  ASSUME NEW W, NEW x, Sound(W, x)
  PROVE  W \in Displays
  BY HeldParts DEF Sound

LEMMA WorldIs ==
  /\ K!World.fb = kfb /\ K!World.crtc = kcrtc /\ K!World.obj = kobj /\ K!World.strm = kstrm
  /\ K!World.drv = kdrv /\ K!World.dev = kdev
  BY DEF K!World

\* The next world is as sound as V.
LEMMA Arrive ==
  ASSUME NEW V, Sound(V, None), Cleaned(V), K!Become(V)
  PROVE  Display(K!World')
<1>1. K!World' = V
  BY SoundIn, BecomeIs
<1>2. Display(V)
  BY DEF Display
<1>3. QED
  BY <1>1, <1>2

LEMMA ThingCleaned ==
  ASSUME NEW W, Cleaned(W), NEW V, NEW o, OnlyThing(W, V, o)
  PROVE  Cleaned(V)
  BY ThingModes, CleanedKeeps

NewThing(r, h) == [r EXCEPT !.refs = 1, !.base = 1, !.handle = h]

LEMMA NewMade ==
  ASSUME NEW r \in ThingType, NEW h \in KFiles \cup {None}
  PROVE  NewThing(r, h) \in ThingType /\ ThingIs(NewThing(r, h), 1, 1, h, r.ne)
<1> DEFINE a == [r EXCEPT !.refs = 1]
           b == [a EXCEPT !.base = 1]
           c == [b EXCEPT !.handle = h]
<1>1. a \in ThingType /\ ThingIs(a, r.base, 1, r.handle, r.ne)
  BY RefsMade
<1> HIDE DEF a
<1>2. b \in ThingType /\ ThingIs(b, 1, a.refs, a.handle, a.ne)
  BY <1>1, BaseMade
<1> HIDE DEF b
<1>3. c \in ThingType /\ ThingIs(c, b.base, b.refs, h, b.ne)
  BY <1>2, HandleMade
<1> HIDE DEF c
<1>4. NewThing(r, h) = c
  BY DEF NewThing, a, b, c
<1>5. QED
  BY <1>1, <1>2, <1>3, <1>4 DEF ThingIs

LEMMA CreateKeeps ==
  ASSUME NEW file \in KFiles, NEW o \in Things, Display(K!World), K!Create(file, o)
  PROVE  Display(K!World')
<1> DEFINE W == K!World
           r == W.obj[o]
           s == NewThing(r, file)
           V == WithThing(W, o, s)
<1>1. /\ W \in Displays /\ Sound(W, None) /\ Cleaned(W) /\ Counted(W, o, 0)
      /\ None \notin Things /\ file # None
  BY HeldParts, SoundIn, StreamOf, KmsAssumption DEF Referenced, If1, Sound, Display
<1>2. r \in ThingType /\ r.refs \in Int /\ r.base \in Int
  BY <1>1, ThingOf
<1>3. s \in ThingType /\ ThingIs(s, 1, 1, file, r.ne)
  <2> HIDE DEF r
  <2>1. r \in ThingType /\ file \in KFiles \cup {None}
    BY <1>2
  <2>2. QED
    BY <2>1, NewMade
<1>4. r.refs = 0
  BY WorldIs DEF K!Create
<1>5. V = [W EXCEPT !.obj = [W.obj EXCEPT ![o] = s]]
  BY <1>1, PartSet DEF WithThing
<1>6. K!World' = V
  <2>1. kobj[o] = r /\ kobj = W.obj
    BY WorldIs
  <2>2. kobj' = [kobj EXCEPT ![o] = s]
    BY <2>1 DEF K!Create, NewThing
  <2>3. kfb' = kfb /\ kcrtc' = kcrtc /\ kstrm' = kstrm /\ kdrv' = kdrv /\ kdev' = kdev
    BY DEF K!Create
  <2> HIDE DEF s
  <2>4. QED
    BY <2>1, <2>2, <2>3 DEF K!World, WithThing, Made
<1> HIDE DEF s, W
<1>7. Changed(W, V, o, 1, 1, file, r.ne)
  BY <1>1, <1>3, ChangedTo
<1> HIDE DEF V
<1>8. OnlyThing(W, V, o) /\ V.obj[o].base = 1 /\ V.obj[o].refs = 1 /\ V.obj[o].handle = file
      /\ V.obj[o].ne = r.ne /\ V.fb = W.fb /\ V.crtc = W.crtc /\ V.strm = W.strm
  BY <1>7 DEF Changed, ThingIs, OnlyThing
<1>9. Counted(V, o, If1(o = None))
  <2>1. /\ FbsOf(V, o) = FbsOf(W, o) /\ CursorsOf(V, o) = CursorsOf(W, o)
    BY <1>8, SameUses
  <2>2. /\ Cardinality(FbsOf(W, o)) \in Nat /\ Cardinality(CursorsOf(W, o)) \in Nat
    BY CountsAre
  <2>3. If1(W.strm.buf = o) \in Nat /\ If1(r.handle # None) \in Nat /\ If1(r.base > 0) \in Nat
    BY DEF If1
  <2>4. /\ r.base = If1(r.handle # None) + Cardinality(FbsOf(W, o))
        /\ 0 = If1(r.base > 0) + Cardinality(FbsOf(W, o))
                       + Cardinality(CursorsOf(W, o)) + If1(W.strm.buf = o)
    <3> DEFINE c == Cardinality(FbsOf(W, o))
               d == Cardinality(CursorsOf(W, o))
               e == If1(W.strm.buf = o)
               g == If1(r.handle # None)
               h == If1(r.base > 0)
    <3>1. r.base = g + c /\ r.refs = h + c + d + e + 0
      BY <1>1 DEF Counted
    <3>2. c \in Nat /\ d \in Nat /\ e \in Nat /\ g \in Nat /\ h \in Nat
      BY <2>2, <2>3
    <3> HIDE DEF c, d, e, g, h
    <3>3. r.base = g + c /\ 0 = h + c + d + e
      BY <1>4, <3>1, <3>2
    <3>4. QED
      BY <3>3 DEF c, d, e, g, h
  <2>5. /\ Cardinality(FbsOf(W, o)) = 0 /\ Cardinality(CursorsOf(W, o)) = 0
        /\ If1(W.strm.buf = o) = 0
    <3> DEFINE c == Cardinality(FbsOf(W, o))
               d == Cardinality(CursorsOf(W, o))
               e == If1(W.strm.buf = o)
               h == If1(r.base > 0)
    <3>1. 0 = h + c + d + e /\ c \in Nat /\ d \in Nat /\ e \in Nat /\ h \in Nat
      BY <2>2, <2>3, <2>4
    <3> HIDE DEF c, d, e, h
    <3>2. c = 0 /\ d = 0 /\ e = 0
      BY <3>1
    <3>3. QED
      BY <3>2 DEF c, d, e
  <2>6. If1(V.obj[o].handle # None) = 1 /\ If1(V.obj[o].base > 0) = 1 /\ If1(o = None) = 0
    BY <1>1, <1>8 DEF If1
  <2>7. QED
    BY <1>8, <2>1, <2>5, <2>6 DEF Counted
<1>10. PinKept(W, V, o) /\ PinStays(W, V, o)
  BY <1>8 DEF PinKept, PinStays
<1>11. Sound(V, None)
  BY <1>1, <1>8, <1>9, <1>10, ThingSound
<1>12. Cleaned(V)
  BY <1>1, <1>8, ThingCleaned
<1>13. QED
  BY <1>6, <1>11, <1>12 DEF Display, W

LEMMA DestroyedHandle ==
  ASSUME NEW file \in KFiles, NEW o \in Things, Display(K!World),
         K!vmw_dumb_destroy(file, o)
  PROVE  Display(K!World')
<1> DEFINE W == K!World
           V == K!HandleGone(W, o)
<1>1. /\ W \in Displays /\ Sound(W, None) /\ Cleaned(W) /\ file # None
  BY SoundIn, KmsAssumption DEF Display
<1>2. W.obj[o].handle # None /\ K!Become(V)
  BY <1>1, WorldIs DEF K!vmw_dumb_destroy
<1> HIDE DEF W
<1>3. OnlyThing(W, V, o)
  BY <1>1, HandleGoneIs DEF Changed
<1>4. V.fb = W.fb /\ V.crtc = W.crtc /\ V.strm = W.strm
  BY <1>3 DEF OnlyThing
<1>5. V.obj[o] = K!HandleGone(W, o).obj[o]
  OBVIOUS
<1> HIDE DEF V
<1>6. Counted(V, o, If1(o = None)) /\ PinKept(W, V, o) /\ PinStays(W, V, o)
  BY <1>1, <1>2, <1>4, <1>5, GoneKeeps
<1>7. Sound(V, None)
  BY <1>1, <1>3, <1>6, ThingSound
<1>8. Cleaned(V)
  BY <1>1, <1>3, ThingCleaned
<1>9. QED
  BY <1>2, <1>7, <1>8, Arrive

LEMMA ClaimStep ==
  ASSUME NEW file \in KFiles, Display(K!World), K!vmw_stream_claim_ioctl(file)
  PROVE  Display(K!World')
<1> DEFINE W == K!World
           V == [W EXCEPT !.strm.claimed = file]
<1>1. Sound(W, None) /\ Cleaned(W)
  BY DEF Display
<1>2. K!World' = V
  BY DEF K!vmw_stream_claim_ioctl, K!World
<1> HIDE DEF W
<1>3. Sound(V, None) /\ SameModes(W, V)
  BY <1>1, ClaimKeeps
<1> HIDE DEF V
<1>4. Cleaned(V)
  BY <1>1, <1>3, CleanedKeeps
<1>5. QED
  BY <1>2, <1>3, <1>4 DEF Display

LEMMA UnrefStep ==
  ASSUME NEW file \in KFiles, Display(K!World), K!vmw_stream_unref_ioctl(file)
  PROVE  Display(K!World')
<1>1. PICK V \in K!vmw_overlay_unref(K!World) : K!Become(V)
  BY DEF K!vmw_stream_unref_ioctl
<1>2. Sound(K!World, None) /\ Cleaned(K!World)
  BY DEF Display
<1>3. Sound(V, None) /\ SameModes(K!World, V)
  BY <1>1, <1>2, OverlayUnrefKeeps
<1>4. Cleaned(V)
  BY <1>2, <1>3, CleanedKeeps
<1>5. QED
  BY <1>1, <1>3, <1>4, Arrive

LEMMA ReleaseStep ==
  ASSUME NEW file \in KFiles, Display(K!World), K!drm_fb_release(file)
  PROVE  Display(K!World')
<1> DEFINE W == K!World
           U == K!HandlesGone(W, file)
<1>1. Sound(W, None) /\ Cleaned(W) /\ file # None
  BY KmsAssumption DEF Display
<1>2. PICK V \in (IF kstrm.claimed = file THEN K!vmw_overlay_unref(U) ELSE {U}) : K!Become(V)
  BY DEF K!drm_fb_release
<1> HIDE DEF W
<1>3. Sound(U, None) /\ U.crtc = W.crtc /\ U.drv = W.drv /\ U.dev = W.dev
  BY <1>1, HandlesGoneKeep
<1> HIDE DEF U
<1>4. Cleaned(U)
  BY <1>1, <1>3 DEF Cleaned
<1>5. CASE V = U
  BY <1>2, <1>3, <1>4, <1>5, Arrive
<1>6. CASE V \in K!vmw_overlay_unref(U)
  <2>1. Sound(V, None) /\ SameModes(U, V)
    BY <1>3, <1>6, OverlayUnrefKeeps
  <2>2. Cleaned(V)
    BY <1>4, <2>1, CleanedKeeps
  <2>3. QED
    BY <1>2, <2>1, <2>2, Arrive
<1>7. QED
  BY <1>2, <1>5, <1>6

\* The overlay ioctl shows o.
ShowsVideo(W, file, o) ==
  UNION {IF m.ok THEN {[s EXCEPT !.w = K!Unref(s.w, o)] :
                         s \in K!vmw_overlay_update_stream(m.w, o, TRUE)}
         ELSE {m} : m \in K!vmw_user_lookup_handle(W, file, o)}

VideoShown(W, o, i) ==
  \/ i = K!Failed(W)
  \/ \E s \in K!vmw_overlay_update_stream(K!Ref(W, o), o, TRUE) :
       i = [s EXCEPT !.w = K!Unref(s.w, o)]

LEMMA OverlayIs ==
  ASSUME NEW W, NEW file, NEW o, NEW i \in ShowsVideo(W, file, o)
  PROVE  VideoShown(W, o, i)
<1> DEFINE F(y) == {[s EXCEPT !.w = K!Unref(s.w, o)] :
                      s \in K!vmw_overlay_update_stream(y, o, TRUE)}
           S == K!vmw_user_lookup_handle(W, file, o)
<1>1. PICK m \in S : i \in IF m.ok THEN F(m.w) ELSE {m}
  BY DEF ShowsVideo
<1>2. m = K!Ok(K!Ref(W, o)) \/ m = K!Failed(W)
  BY <1>1 DEF K!vmw_user_lookup_handle
<1> HIDE DEF S, F
<1>3. CASE m = K!Failed(W)
  BY <1>1, <1>3, Outcomes DEF VideoShown
<1>4. CASE m = K!Ok(K!Ref(W, o))
  <2>1. m.ok /\ m.w = K!Ref(W, o)
    BY <1>4, Outcomes
  <2>2. i \in F(K!Ref(W, o))
    BY <1>1, <2>1
  <2>3. QED
    BY <2>2 DEF F, VideoShown
<1>5. QED
  BY <1>2, <1>3, <1>4

\* What an outcome's world is, however the outcome was made.
LEMMA UpdatedIs ==
  ASSUME NEW W, NEW o, NEW s \in K!vmw_overlay_update_stream(W, o, TRUE), NEW V
  PROVE  [s EXCEPT !.w = V].w = V
<1>1. \A U : K!Ok(U) = [ok |-> TRUE, w |-> U] /\ K!Failed(U) = [ok |-> FALSE, w |-> U]
  BY DEF K!Ok, K!Failed
<1>2. \E U : s = K!Ok(U) \/ s = K!Failed(U)
  <2>1. ASSUME NEW X, StartOf(X, s, o) PROVE \E U : s = K!Ok(U) \/ s = K!Failed(U)
    BY <2>1 DEF StartOf
  <2>2. ASSUME NEW t \in K!vmw_overlay_stop(W, FALSE, TRUE),
               IF t.ok THEN StartOf(t.w, s, o) ELSE s = t
        PROVE  \E U : s = K!Ok(U) \/ s = K!Failed(U)
    <3>1. CASE t.ok
      BY <2>1, <2>2, <3>1
    <3>2. CASE ~t.ok
      <4>1. s = t
        BY <2>2, <3>2
      <4>2. \E U : t = K!Ok(U) \/ t = K!Failed(U)
        <5> DEFINE U == K!vmw_overlay_send_stop(W)
                   D == K!vmw_dmabuf_unpin(U, W.strm.buf)
        <5>1. \/ t = K!Ok(W) \/ t = K!Ok(K!Stopped(W, FALSE)) \/ t = K!Failed(U)
              \/ t = K!Ok(K!Stopped(D, FALSE))
          BY <2>2, StopIs
        <5> HIDE DEF U, D
        <5>2. QED
          BY <5>1
      <4>3. QED
        BY <4>1, <4>2
    <3>3. QED
      BY <3>1, <3>2
  <2>3. QED
    BY <2>1, <2>2, UpdateStreamIs
<1>3. QED
  BY <1>1, <1>2

LEMMA OverlayStep ==
  ASSUME NEW file \in KFiles, Display(K!World), K!vmw_overlay_ioctl(file)
  PROVE  Display(K!World')
<1> DEFINE W == K!World
<1>1. Sound(W, None) /\ Cleaned(W)
  BY DEF Display
<1>2. \/ \E i \in K!vmw_overlay_stop(W, FALSE, TRUE) : K!Become(i.w)
      \/ \E o \in Videos : \E i \in ShowsVideo(W, file, o) : K!Become(i.w)
  BY Zenon DEF K!vmw_overlay_ioctl, K!Then, ShowsVideo
<1> HIDE DEF W
<1>3. ASSUME NEW i \in K!vmw_overlay_stop(W, FALSE, TRUE), K!Become(i.w)
      PROVE  Display(K!World')
  <2>1. FALSE \in BOOLEAN
    OBVIOUS
  <2>2. Streamed(W, i, None)
    BY <1>1, <1>3, <2>1, StopKeeps
  <2>3. Sound(i.w, None) /\ Cleaned(i.w)
    BY <1>1, <2>2, CleanedKeeps DEF Streamed
  <2>4. QED
    BY <1>3, <2>3, Arrive
<1>4. ASSUME NEW o \in Videos, NEW i \in ShowsVideo(W, file, o), K!Become(i.w)
      PROVE  Display(K!World')
  <2>1. \/ i = K!Failed(W)
        \/ \E s \in K!vmw_overlay_update_stream(K!Ref(W, o), o, TRUE) :
             i = [s EXCEPT !.w = K!Unref(s.w, o)]
    <3>1. VideoShown(W, o, i)
      BY <1>4, OverlayIs
    <3>2. QED
      BY <3>1 DEF VideoShown
  <2>2. CASE i = K!Failed(W)
    BY <1>1, <1>4, <2>2, Outcomes, Arrive
  <2>3. ASSUME NEW s \in K!vmw_overlay_update_stream(K!Ref(W, o), o, TRUE),
               i = [s EXCEPT !.w = K!Unref(s.w, o)]
        PROVE  Display(K!World')
    <3> DEFINE V == K!Ref(W, o)
               U == K!Unref(s.w, o)
    <3>1. o \in Things /\ W \in Displays
      BY <1>1, SoundIn DEF Things
    <3>2. Sound(V, o) /\ OnlyThing(W, V, o)
      BY <1>1, <3>1, RefKeeps, RefIs DEF Changed
    <3>3. Cleaned(V)
      BY <1>1, <3>2, ThingCleaned
    <3> HIDE DEF V
    <3>4. Streamed(V, s, o)
      BY <2>3, <3>2, UpdateKeeps DEF V
    <3>5. Sound(s.w, o) /\ Cleaned(s.w)
      BY <3>3, <3>4, CleanedKeeps DEF Streamed
    <3>6. Sound(U, None) /\ OnlyThing(s.w, U, o)
      BY <3>1, <3>5, UnrefKeeps, UnrefIs, SoundIn DEF Changed
    <3>7. Cleaned(U)
      BY <3>5, <3>6, ThingCleaned
    <3>8. i.w = U
      BY <2>3, UpdatedIs
    <3>9. QED
      BY <1>4, <3>6, <3>7, <3>8, Arrive
  <2>4. QED
    BY <2>1, <2>2, <2>3
<1>5. QED
  BY <1>2, <1>3, <1>4

-----------------------------------------------------------------------------
(* Mode setting. *)

\* The overlay's user buffers are not the ones that become framebuffers.
Apart == Bufs \cap Videos = {}

LEMMA SetOffKeeps ==
  ASSUME Apart, NEW W, NEW x, Sound(W, x), W.drv.op.k \in {"none", "cleanup"},
         NEW u \in Units, NEW i \in K!SetConfigOff(W, u)
  PROVE  /\ Sound(i.w, x) /\ Off(i.w, u) /\ i.w.drv.op = W.drv.op
         /\ (W.dev.hung => i.w.dev.hung)
         /\ \A v \in Units \ {u} : i.w.crtc[v] = W.crtc[v]
<1>1. CASE W.drv.sou
  <2>1. i \in K!SouOff(W, u)
    BY <1>1 DEF K!SetConfigOff
  <2>2. Sound(i.w, x) /\ Moded(W, i.w, u) /\ Off(i.w, u)
    BY <1>1, <2>1, SouOffKeeps
  <2>3. QED
    BY <2>2 DEF Moded
<1>2. CASE ~W.drv.sou
  <2> DEFINE V == K!LduOff(W, u)
  <2>1. i = K!Ok(V)
    BY <1>2 DEF K!SetConfigOff
  <2>2. Sound(V, x) /\ LduGone(W, V, u)
    BY <1>2, LduOffKeeps DEF Apart
  <2>3. i.w = V
    BY <2>1, Outcomes
  <2> HIDE DEF V
  <2>4. QED
    BY <2>2, <2>3 DEF LduGone, LegacyStep, Off
<1>3. QED
  BY <1>1, <1>2

LEMMA SetModeKeeps ==
  ASSUME Apart, NEW W, NEW x, Sound(W, x), W.drv.op.k = "none",
         NEW u \in Units, NEW f \in Fbs, W.fb[f].live, NEW n \in Sizes,
         NEW i \in K!SetConfigMode(W, u, f, n)
  PROVE  Sound(i.w, x) /\ i.w.drv.op.k \in {"none", "paused"}
<1> DEFINE U == K!vmw_fb_off(W)
<1>1. Sound(U, x) /\ Console(W, U)
  BY FbOffKeeps
<1>2. \/ i = K!Failed(W)
      \/ /\ ~K!MultipleFbs(W, u, f)
         /\ \/ W.drv.sou /\ i \in K!SouMode(U, u, f, n)
            \/ ~W.drv.sou /\ i \in K!LduMode(U, u, f, n)
  BY DEF K!SetConfigMode
<1> HIDE DEF U
<1>3. /\ U.fb = W.fb /\ U.crtc = W.crtc /\ U.drv.fb = W.drv.fb /\ U.drv.op = W.drv.op
      /\ U.drv.sou = W.drv.sou
  BY <1>1 DEF Console
<1>4. CASE i = K!Failed(W)
  BY <1>4, Outcomes
<1>5. CASE W.drv.sou /\ i \in K!SouMode(U, u, f, n)
  <2>1. Sound(i.w, x) /\ Begun(U, i.w)
    BY <1>1, <1>3, <1>5, SouModeKeeps
  <2>2. QED
    BY <1>3, <2>1 DEF Begun
<1>6. CASE ~W.drv.sou /\ i \in K!LduMode(U, u, f, n) /\ ~K!MultipleFbs(W, u, f)
  <2>1. ~K!MultipleFbs(U, u, f)
    BY <1>3, <1>6 DEF K!MultipleFbs
  <2>2. Sound(i.w, x) /\ Begun(U, i.w)
    BY <1>1, <1>3, <1>6, <2>1, LduModeKeeps DEF Apart
  <2>3. QED
    BY <1>3, <2>2 DEF Begun
<1>7. QED
  BY <1>2, <1>4, <1>5, <1>6

LEMMA NotCleaning ==
  ASSUME NEW W, W.drv.op.k # "cleanup"
  PROVE  Cleaned(W)
  BY DEF Cleaned

LEMMA SetcrtcStep ==
  ASSUME Apart, NEW u \in Units, Display(K!World), K!drm_mode_setcrtc(u)
  PROVE  Display(K!World')
<1> DEFINE W == K!World
<1>1. Sound(W, None) /\ W.drv.op.k = "none"
  BY WorldIs DEF Display, K!drm_mode_setcrtc, K!Unlocked
<1>2. \/ \E i \in K!SetConfigOff(W, u) : K!Become(i.w)
      \/ \E f \in Fbs, n \in Sizes :
           /\ W.fb[f].live
           /\ \E i \in K!SetConfigMode(W, u, f, n) : K!Become(i.w)
  BY WorldIs DEF K!drm_mode_setcrtc
<1> HIDE DEF W
<1>3. ASSUME NEW i \in K!SetConfigOff(W, u), K!Become(i.w)
      PROVE  Display(K!World')
  <2>1. Sound(i.w, None) /\ i.w.drv.op = W.drv.op
    BY <1>1, <1>3, SetOffKeeps
  <2>2. Cleaned(i.w)
    BY <1>1, <2>1, NotCleaning
  <2>3. QED
    BY <1>3, <2>1, <2>2, Arrive
<1>4. ASSUME NEW f \in Fbs, NEW n \in Sizes, W.fb[f].live,
             NEW i \in K!SetConfigMode(W, u, f, n), K!Become(i.w)
      PROVE  Display(K!World')
  <2>1. Sound(i.w, None) /\ i.w.drv.op.k \in {"none", "paused"}
    BY <1>1, <1>4, SetModeKeeps
  <2>2. Cleaned(i.w)
    BY <2>1, NotCleaning
  <2>3. QED
    BY <1>4, <2>1, <2>2, Arrive
<1>5. QED
  BY <1>2, <1>3, <1>4

LEMMA ConsoleStep ==
  ASSUME Display(K!World), K!ConsoleOn
  PROVE  Display(K!World')
<1>1. PICK V \in K!vmw_fb_on(K!World) : K!Become(V)
  BY DEF K!ConsoleOn
<1>2. Sound(K!World, None) /\ K!World.drv.op.k = "none"
  BY WorldIs DEF Display, K!ConsoleOn, K!Unlocked
<1>3. Sound(V, None) /\ V.drv.op = K!World.drv.op
  BY <1>1, <1>2, FbOnKeeps
<1>4. Cleaned(V)
  BY <1>2, <1>3, NotCleaning
<1>5. QED
  BY <1>1, <1>3, <1>4, Arrive

-----------------------------------------------------------------------------
(* Framebuffers: they are removed in several steps, and added in one. *)

CleanOp(f, rest) == [k |-> "cleanup", f |-> f, left |-> rest]

LEMMA CleanOpIs ==
  ASSUME NEW f \in Fbs, NEW rest \in SUBSET Units
  PROVE  /\ CleanOp(f, rest) \in OpType /\ CleanOp(f, rest).k = "cleanup"
         /\ CleanOp(f, rest).f = f /\ CleanOp(f, rest).left = rest
  BY DEF CleanOp, OpType

LEMMA CleanOpOf ==
  ASSUME NEW op \in OpType, op.k = "cleanup"
  PROVE  /\ op.f \in Fbs /\ op.left \in SUBSET Units
         /\ \A rest : [op EXCEPT !.left = rest] = CleanOp(op.f, rest)
  BY DEF OpType, CleanOp

\* A removal begins, or goes on with fewer crtcs to look at.
LEMMA CleanOpKeeps ==
  ASSUME NEW W, Sound(W, None), W.drv.op.k \in {"none", "cleanup"},
         NEW f \in Fbs, W.fb[f].live, NEW rest \in SUBSET Units
  PROVE  LET V == WithOp(W, CleanOp(f, rest)) IN
         Sound(V, None) /\ Operated(W, V, CleanOp(f, rest))
<1> DEFINE op == CleanOp(f, rest)
           V == WithOp(W, op)
<1>1. W \in Displays /\ (~W.drv.sou => Legacy(W))
  BY HeldParts DEF Sound
<1>2. op \in OpType /\ op.k = "cleanup" /\ op.f = f
  BY CleanOpIs
<1> HIDE DEF op
<1>3. Operated(W, V, op)
  BY <1>1, <1>2, OpIs
<1> HIDE DEF V
<1>4. ~W.drv.sou => Legacy(V)
  BY <1>1, <1>2, <1>3 DEF Legacy, Operated
<1>5. \A o \in Things : Scans(W, o) => Scans(V, o)
  BY <1>2, <1>3 DEF Scans, Operated
<1>6. Sound(V, None)
  BY <1>2, <1>3, <1>4, <1>5, OpKeeps
<1>7. QED
  BY <1>3, <1>6 DEF V, op

LEMMA RmfbStep ==
  ASSUME NEW file \in KFiles, Display(K!World), K!drm_mode_rmfb(file)
  PROVE  Display(K!World')
<1> DEFINE W == K!World
<1>1. Sound(W, None) /\ W.drv.op.k = "none"
  BY WorldIs DEF Display, K!drm_mode_rmfb, K!Unlocked
<1>2. PICK f \in Fbs : W.fb[f].live /\ K!Become(K!Cleaning(W, f))
  BY WorldIs DEF K!drm_mode_rmfb
<1> HIDE DEF W
<1> DEFINE V == WithOp(W, CleanOp(f, Units))
<1>3. K!Cleaning(W, f) = V
  BY DEF K!Cleaning, WithOp, CleanOp
<1>4. Sound(V, None) /\ Operated(W, V, CleanOp(f, Units))
  BY <1>1, <1>2, CleanOpKeeps
<1> HIDE DEF V
<1>5. Cleaned(V)
  BY <1>4, CleanOpIs DEF Cleaned, Operated
<1>6. QED
  BY <1>2, <1>3, <1>4, <1>5, Arrive

LEMMA CleanupStep ==
  ASSUME Apart, Display(K!World), K!drm_framebuffer_cleanup
  PROVE  Display(K!World')
<1> DEFINE W == K!World
           op == W.drv.op
<1>1. /\ Sound(W, None) /\ Cleaned(W) /\ op.k = "cleanup" /\ W \in Displays
      /\ Shows(W)
  BY WorldIs, HeldParts, SoundIn DEF Display, Sound, K!drm_framebuffer_cleanup
<1>2. PICK u \in op.left :
        \E i \in K!SetConfigOff([W EXCEPT !.drv.op.left = op.left \ {u}], u) : K!Become(i.w)
  BY WorldIs DEF K!drm_framebuffer_cleanup, K!ToTurnOff
<1> HIDE DEF W
<1> DEFINE rest == op.left \ {u}
           new == CleanOp(op.f, rest)
           V == WithOp(W, new)
<1>3. op.f \in Fbs /\ u \in Units /\ rest \in SUBSET Units /\ [op EXCEPT !.left = rest] = new
  <2>1. op \in OpType
    BY <1>1, DriverOf
  <2>2. QED
    BY <1>1, <1>2, <2>1, CleanOpOf
<1>4. [W EXCEPT !.drv.op.left = rest] = V
  <2>1. [W EXCEPT !.drv.op.left = rest] = [W EXCEPT !.drv.op = [op EXCEPT !.left = rest]]
    OBVIOUS
  <2>2. QED
    BY <1>3, <2>1 DEF WithOp
<1>5. PICK i \in K!SetConfigOff(V, u) : K!Become(i.w)
  BY <1>2, <1>4
<1>6. W.fb[op.f].live
  BY <1>1 DEF Shows
<1>7. new.k = "cleanup" /\ new.f = op.f /\ new.left = rest
  BY <1>3, CleanOpIs
<1>8. Sound(V, None) /\ Operated(W, V, new)
  BY <1>1, <1>3, <1>6, CleanOpKeeps
<1> HIDE DEF rest, new, V
<1>9. V.drv.op = new /\ V.crtc = W.crtc /\ V.dev = W.dev
  BY <1>8 DEF Operated
<1>10. /\ Sound(i.w, None) /\ Off(i.w, u) /\ i.w.drv.op = V.drv.op
       /\ (V.dev.hung => i.w.dev.hung)
       /\ \A v \in Units \ {u} : i.w.crtc[v] = V.crtc[v]
  BY <1>3, <1>5, <1>7, <1>8, <1>9, SetOffKeeps
<1>11. Cleaned(i.w)
  <2> SUFFICES ASSUME NEW v \in Units \ rest, i.w.crtc[v].fb = op.f
               PROVE  i.w.dev.hung
    BY <1>7, <1>9, <1>10 DEF Cleaned
  <2>1. CASE v = u
    BY <1>3, <1>10, <2>1, KmsAssumption DEF Off
  <2>2. CASE v # u
    <3>1. v \in Units \ op.left /\ W.crtc[v].fb = op.f
      BY <1>9, <1>10, <2>2 DEF rest
    <3>2. W.dev.hung
      BY <1>1, <3>1 DEF Cleaned
    <3>3. QED
      BY <1>9, <1>10, <3>2
  <2>3. QED
    BY <2>1, <2>2
<1>12. QED
  BY <1>5, <1>10, <1>11, Arrive

\* The framebuffer f and the buffer o change.
FbStep(W, V, f, o) ==
  /\ V \in Displays /\ V.crtc = W.crtc /\ V.strm = W.strm /\ V.drv = W.drv /\ V.dev = W.dev
  /\ \A g \in Fbs \ {f} : V.fb[g] = W.fb[g]
  /\ \A p \in Things \ {o} : V.obj[p] = W.obj[p]

\* Nothing shows a framebuffer that is gone.
Unshown(W, f) ==
  /\ \A u \in Units : W.crtc[u].fb = f => W.dev.hung
  /\ ~W.drv.sou => W.drv.fb # f /\ \A u \in Units : W.crtc[u].fb # f

LEMMA FbStepUses ==
  ASSUME NEW W, NEW V, NEW f \in Fbs, NEW o, FbStep(W, V, f, o),
         W.fb[f].live => W.fb[f].obj = o, V.fb[f].live => V.fb[f].obj = o
  PROVE  /\ \A p : CursorsOf(V, p) = CursorsOf(W, p)
         /\ \A p : p # o => FbsOf(V, p) = FbsOf(W, p)
         /\ FbsOf(V, o) \ {f} = FbsOf(W, o) \ {f}
         /\ f \in FbsOf(W, o) <=> W.fb[f].live
         /\ f \in FbsOf(V, o) <=> V.fb[f].live
  BY DEF FbStep, FbsOf, CursorsOf

LEMMA FbStepKeeps ==
  ASSUME NEW W, Sound(W, None), NEW f \in Fbs, NEW o \in Bufs, NEW V, FbStep(W, V, f, o),
         W.fb[f].live => W.fb[f].obj = o, V.fb[f].live => V.fb[f].obj = o,
         Counted(V, o, 0), PinKept(W, V, o), PinStays(W, V, o),
         Unshown(W, f), W.drv.op.k = "none"
  PROVE  Sound(V, None)
<1>1. /\ W \in Displays /\ Referenced(W, None) /\ Pins(W) /\ Shows(W) /\ StreamPinned(W)
      /\ (~W.drv.sou => Legacy(W))
  BY HeldParts DEF Sound
<1>2. /\ V \in Displays /\ V.crtc = W.crtc /\ V.strm = W.strm /\ V.drv = W.drv /\ V.dev = W.dev
      /\ \A g \in Fbs \ {f} : V.fb[g] = W.fb[g]
      /\ \A p \in Things \ {o} : V.obj[p] = W.obj[p]
  BY DEF FbStep
<1>3. o \in Things /\ None \notin Things /\ o # None
  BY <1>1, StreamOf
<1>4. Referenced(V, None)
  <2> SUFFICES ASSUME NEW p \in Things PROVE Counted(V, p, If1(p = None))
    BY DEF Referenced
  <2>1. CASE p = o
    BY <1>3, <2>1 DEF If1
  <2>2. CASE p # o
    <3>1. FbsOf(V, p) = FbsOf(W, p) /\ CursorsOf(V, p) = CursorsOf(W, p)
      BY <2>2, FbStepUses
    <3>2. Counted(W, p, If1(p = None))
      BY <1>1 DEF Referenced
    <3>3. V.obj[p] = W.obj[p] /\ V.strm = W.strm
      BY <1>2, <2>2
    <3>4. QED
      BY <3>1, <3>2, <3>3 DEF Counted
  <2>3. QED
    BY <2>1, <2>2
<1>5. \A p \in Things : PinStays(W, V, p) /\ PinKept(W, V, p)
  BY <1>2 DEF PinStays, PinKept
<1>6. \A p : Scans(W, p) => Scans(V, p)
  <2>1. ASSUME NEW p, Scans(W, p) PROVE Scans(V, p)
    <3>1. W.drv.fb \in Fbs \ {f}
      BY <1>1, <2>1, DriverOf DEF Scans, Unshown
    <3>2. QED
      BY <1>2, <2>1, <3>1 DEF Scans
  <2>2. QED
    BY <2>1
<1>7. Pins(V)
  <2>1. ASSUME V.dev.stream # None
        PROVE  V.dev.stream = V.strm.buf /\ ~V.strm.paused /\ V.obj[V.strm.buf].ne # "no"
    <3>1. /\ W.dev.stream = W.strm.buf /\ ~W.strm.paused /\ W.obj[W.strm.buf].ne # "no"
      BY <1>1, <1>2, <2>1 DEF Pins
    <3>2. W.strm.buf \in Things
      BY <1>1, <1>2, <2>1, <3>1, StreamOf
    <3>3. QED
      BY <1>2, <1>5, <3>1, <3>2 DEF PinKept
  <2>2. ASSUME NEW p \in Things, V.obj[p].ne # "no" PROVE Streams(V, p) \/ Scans(V, p)
    <3>1. Streams(W, p) \/ Scans(W, p)
      BY <1>1, <1>5, <2>2 DEF PinKept, Pins
    <3>2. QED
      BY <1>2, <1>6, <3>1 DEF Streams
  <2>3. (V.strm.paused => V.strm.buf # None) /\ (V.drv.ne <=> V.drv.on)
    BY <1>1, <1>2 DEF Pins
  <2>4. QED
    BY <2>1, <2>2, <2>3 DEF Pins
<1>8. StreamPinned(V)
  BY <1>1, <1>2, <1>5, PinnedKeeps
<1>9. Shows(V)
  <2>1. ASSUME NEW g \in Fbs, V.fb[g].live PROVE V.fb[g].obj # None
    BY <1>1, <1>2, <1>3, <2>1 DEF Shows
  <2>2. ASSUME NEW u \in Units, V.crtc[u].fb # None
        PROVE  V.fb[V.crtc[u].fb].live \/ V.dev.hung
    <3>1. V.crtc[u].fb \in Fbs
      BY <1>2, <2>2, CrtcOf
    <3>2. QED
      BY <1>1, <1>2, <2>2, <3>1 DEF Shows, Unshown
  <2>3. QED
    BY <1>1, <1>2, <2>1, <2>2 DEF Shows
<1>10. ~V.drv.sou => Legacy(V)
  <2>1. ASSUME ~W.drv.sou, W.drv.fb # None PROVE V.fb[W.drv.fb] = W.fb[W.drv.fb]
    BY <1>1, <1>2, <2>1, DriverOf DEF Unshown
  <2>2. QED
    BY <1>1, <1>2, <2>1 DEF Legacy
<1>11. QED
  BY <1>2, <1>4, <1>7, <1>8, <1>9, <1>10 DEF Sound, Held

\* Another framebuffer in place of f.
WithFb(W, f, r) == [W EXCEPT !.fb[f] = r]

LEMMA WithFbIs ==
  ASSUME NEW W \in Displays, NEW f \in Fbs, NEW r \in FbType
  PROVE  LET V == WithFb(W, f, r) IN
         /\ V \in Displays /\ V.crtc = W.crtc /\ V.obj = W.obj /\ V.strm = W.strm
         /\ V.drv = W.drv /\ V.dev = W.dev /\ V.fb[f] = r
         /\ \A g \in Fbs \ {f} : V.fb[g] = W.fb[g]
<1> DEFINE q == [W.fb EXCEPT ![f] = r]
           V == Made(q, W.crtc, W.obj, W.strm, W.drv, W.dev)
<1>1. q \in [Fbs -> FbType] /\ q[f] = r /\ \A g \in Fbs \ {f} : q[g] = W.fb[g]
  BY DisplayParts
<1>2. WithFb(W, f, r) = V
  BY PartSet DEF WithFb
<1> HIDE DEF q
<1>3. /\ V \in Displays /\ V.fb = q /\ V.crtc = W.crtc /\ V.obj = W.obj /\ V.strm = W.strm
      /\ V.drv = W.drv /\ V.dev = W.dev
  BY <1>1, MadeIs, DisplayParts
<1> HIDE DEF V
<1>4. QED
  BY <1>1, <1>2, <1>3

\* A framebuffer set, and then its buffer changed.
LEMMA FbThen ==
  ASSUME NEW W, NEW U, NEW X \in Displays, NEW V, NEW f \in Fbs, NEW r \in FbType, NEW o \in Bufs,
         OnlyThing(W, X, o), U = WithFb(X, f, r), OnlyThing(U, V, o)
  PROVE  FbStep(W, V, f, o) /\ V.fb[f] = r
<1>1. /\ U \in Displays /\ U.crtc = X.crtc /\ U.obj = X.obj /\ U.strm = X.strm
      /\ U.drv = X.drv /\ U.dev = X.dev /\ U.fb[f] = r
      /\ \A g \in Fbs \ {f} : U.fb[g] = X.fb[g]
  BY WithFbIs
<1>2. QED
  BY <1>1 DEF OnlyThing, FbStep

LEMMA OnlySelf ==
  ASSUME NEW W \in Displays, NEW o
  PROVE  OnlyThing(W, W, o)
  BY DEF OnlyThing

LEMMA OnlyTwice ==
  ASSUME NEW W, NEW U, NEW V, NEW o, OnlyThing(W, U, o), OnlyThing(U, V, o)
  PROVE  OnlyThing(W, V, o)
  BY DEF OnlyThing

\* The destruction of a framebuffer gives back both references of its buffer.
LEMMA FbDestroyIs ==
  ASSUME NEW W, Sound(W, None), NEW f \in Fbs, W.fb[f].live, NEW o \in Bufs, W.fb[f].obj = o
  PROVE  LET V == K!FbDestroy(W, f)
             r == W.obj[o]
         IN /\ FbStep(W, V, f, o) /\ ~V.fb[f].live
            /\ ThingIs(V.obj[o], r.base - 1, IF r.base = 1 THEN r.refs - 2 ELSE r.refs - 1,
                       r.handle, IF r.base = 1 /\ r.refs = 2 THEN "no" ELSE r.ne)
<1> DEFINE U == WithFb(W, f, K!NoFb)
           X == K!Unref(U, o)
           V == K!ttm_base_object_unref(X, o)
           r == W.obj[o]
<1>1. W \in Displays /\ Counted(W, o, 0)
  BY HeldParts, StreamOf DEF Referenced, If1, Sound
<1>2. K!FbDestroy(W, f) = V
  BY DEF K!FbDestroy, WithFb
<1>3. K!NoFb \in FbType /\ K!NoFb.live = FALSE
  BY DEF K!NoFb, FbType
<1>4. U \in Displays /\ U.obj = W.obj /\ U.fb[f] = K!NoFb
  BY <1>1, <1>3, WithFbIs
<1>5. o \in Things
  BY <1>1, StreamOf
<1>6. r.refs \in Int /\ r.base \in Int /\ r.base >= 1 /\ r.refs >= 2
  <2>1. f \in FbsOf(W, o)
    BY DEF FbsOf
  <2>2. Cardinality(FbsOf(W, o)) = Cardinality(FbsOf(W, o) \ {f}) + 1
        /\ Cardinality(FbsOf(W, o) \ {f}) \in Nat
    <3>1. IsFiniteSet(FbsOf(W, o))
      BY CountsAre
    <3>2. Cardinality(FbsOf(W, o) \ {f}) = Cardinality(FbsOf(W, o)) - 1
      BY <2>1, <3>1, CardLess
    <3>3. Cardinality(FbsOf(W, o) \ {f}) \in Nat
      BY <3>1, FS_Subset, FS_CardinalityType
    <3>4. QED
      BY <3>2, <3>3, CountsAre
  <2>3. Cardinality(FbsOf(W, o)) >= 1
    BY <2>2
  <2>4. Cardinality(FbsOf(W, o)) \in Nat /\ Cardinality(CursorsOf(W, o)) \in Nat
    BY CountsAre
  <2>5. r.base >= 1 /\ r.refs \in Int /\ r.base \in Int
    BY <1>1, <1>5, <2>3, <2>4, ThingOf DEF Counted, If1
  <2>6. r.refs >= 2
    BY <1>1, <2>3, <2>4, <2>5 DEF Counted, If1
  <2>7. QED
    BY <2>5, <2>6
<1> HIDE DEF U
<1>7. Changed(U, X, o, r.base, r.refs - 1, r.handle, r.ne)
  <2>1. Changed(U, X, o, U.obj[o].base, U.obj[o].refs - 1, U.obj[o].handle,
                IF U.obj[o].refs = 1 THEN "no" ELSE U.obj[o].ne)
    BY <1>4, <1>5, UnrefIs
  <2>2. QED
    BY <1>4, <1>6, <2>1
<1> HIDE DEF X
<1>8. OnlyThing(U, X, o) /\ ThingIs(X.obj[o], r.base, r.refs - 1, r.handle, r.ne)
      /\ X \in Displays
  BY <1>7 DEF Changed, OnlyThing
<1>9. Changed(X, V, o, X.obj[o].base - 1,
              IF X.obj[o].base = 1 THEN X.obj[o].refs - 1 ELSE X.obj[o].refs, X.obj[o].handle,
              IF X.obj[o].base = 1 /\ X.obj[o].refs = 1 THEN "no" ELSE X.obj[o].ne)
  BY <1>5, <1>8, BaseUnrefIs
<1> HIDE DEF V
<1>10. OnlyThing(X, V, o)
       /\ ThingIs(V.obj[o], X.obj[o].base - 1,
                  IF X.obj[o].base = 1 THEN X.obj[o].refs - 1 ELSE X.obj[o].refs,
                  X.obj[o].handle,
                  IF X.obj[o].base = 1 /\ X.obj[o].refs = 1 THEN "no" ELSE X.obj[o].ne)
  BY <1>9 DEF Changed
<1>11. ThingIs(V.obj[o], r.base - 1, IF r.base = 1 THEN r.refs - 2 ELSE r.refs - 1,
               r.handle, IF r.base = 1 /\ r.refs = 2 THEN "no" ELSE r.ne)
  <2>1. (r.refs - 1) - 1 = r.refs - 2 /\ (r.refs - 1 = 1 <=> r.refs = 2)
    BY <1>6
  <2>2. /\ X.obj[o].base = r.base /\ X.obj[o].refs = r.refs - 1 /\ X.obj[o].handle = r.handle
        /\ X.obj[o].ne = r.ne
    BY <1>8 DEF ThingIs
  <2>3. QED
    BY <1>10, <2>1, <2>2
<1>12. OnlyThing(W, W, o) /\ OnlyThing(U, V, o)
  BY <1>1, <1>8, <1>10, OnlySelf, OnlyTwice
<1>13. U = WithFb(W, f, K!NoFb)
  BY DEF U
<1>14. FbStep(W, V, f, o) /\ V.fb[f] = K!NoFb
  BY <1>1, <1>3, <1>12, <1>13, FbThen
<1>15. QED
  BY <1>2, <1>3, <1>11, <1>14

LEMMA FbDestroyKeeps ==
  ASSUME NEW W, Sound(W, None), W.drv.op.k = "none", NEW f \in Fbs, W.fb[f].live, Unshown(W, f)
  PROVE  LET V == K!FbDestroy(W, f) IN Sound(V, None) /\ V.drv = W.drv
<1> DEFINE o == W.fb[f].obj
           V == K!FbDestroy(W, f)
           r == W.obj[o]
<1>1. W \in Displays /\ Pins(W) /\ Shows(W) /\ Referenced(W, None)
  BY HeldParts DEF Sound
<1>2. o \in Bufs /\ o \in Things /\ o # None
  BY <1>1, FbOf, StreamOf DEF Shows
<1>3. Counted(W, o, 0) /\ r.refs \in Int /\ r.base \in Int
  BY <1>1, <1>2, ThingOf DEF Referenced, If1
<1>4. /\ FbStep(W, V, f, o) /\ ~V.fb[f].live
      /\ ThingIs(V.obj[o], r.base - 1, IF r.base = 1 THEN r.refs - 2 ELSE r.refs - 1,
                 r.handle, IF r.base = 1 /\ r.refs = 2 THEN "no" ELSE r.ne)
  <2>1. W.fb[f].obj = o
    OBVIOUS
  <2> HIDE DEF o
  <2>2. QED
    BY <1>2, <2>1, FbDestroyIs
<1> HIDE DEF V
<1>5. /\ CursorsOf(V, o) = CursorsOf(W, o) /\ FbsOf(V, o) \ {f} = FbsOf(W, o) \ {f}
      /\ f \in FbsOf(W, o) /\ f \notin FbsOf(V, o) /\ V.strm = W.strm
  <2>1. (W.fb[f].live => W.fb[f].obj = o) /\ (V.fb[f].live => V.fb[f].obj = o)
    BY <1>4
  <2> HIDE DEF o
  <2>2. QED
    BY <1>4, <2>1, FbStepUses DEF FbStep
<1>6. Cardinality(FbsOf(V, o)) = Cardinality(FbsOf(W, o)) - 1
  <2>1. FbsOf(V, o) = FbsOf(W, o) \ {f}
    BY <1>5
  <2>2. QED
    BY <1>5, <2>1, CountsAre, CardLess
<1>7. /\ Cardinality(FbsOf(V, o)) \in Nat /\ Cardinality(FbsOf(W, o)) \in Nat
      /\ Cardinality(CursorsOf(W, o)) \in Nat /\ If1(W.strm.buf = o) \in Nat
  BY CountsAre DEF If1
<1>8. /\ V.obj[o].base = r.base - 1 /\ V.obj[o].handle = r.handle
      /\ V.obj[o].refs = (IF r.base = 1 THEN r.refs - 2 ELSE r.refs - 1)
      /\ V.obj[o].ne = (IF r.base = 1 /\ r.refs = 2 THEN "no" ELSE r.ne)
  BY <1>4 DEF ThingIs
<1> HIDE DEF o
<1> DEFINE c == Cardinality(FbsOf(W, o))
           n == Cardinality(FbsOf(V, o))
           d == Cardinality(CursorsOf(W, o))
           e == If1(W.strm.buf = o)
           h == If1(r.handle # None)
<1>9. /\ r.base = h + c /\ r.refs = If1(r.base > 0) + c + d + e + 0 /\ n = c - 1
      /\ c \in Nat /\ n \in Nat /\ d \in Nat /\ e \in Nat /\ h \in {0, 1}
  BY <1>3, <1>6, <1>7 DEF Counted, If1
<1>10. V.obj[o].base = h + n
  <2> HIDE DEF c, n, d, e, h
  <2> QED
    BY <1>8, <1>9
<1>11. V.obj[o].refs = If1(V.obj[o].base > 0) + n + d + e + 0
  <2> HIDE DEF c, n, d, e, h, r
  <2>1. r.refs = 1 + c + d + e
    BY <1>9 DEF If1
  <2>2. CASE r.base = 1
    <3>1. If1(V.obj[o].base > 0) = 0
      BY <1>8, <2>2 DEF If1
    <3>2. QED
      BY <1>8, <1>9, <2>1, <2>2, <3>1
  <2>3. CASE r.base # 1
    <3>1. If1(V.obj[o].base > 0) = 1
      BY <1>8, <1>9, <2>3 DEF If1
    <3>2. QED
      BY <1>8, <1>9, <2>1, <2>3, <3>1
  <2>4. QED
    BY <2>2, <2>3
<1>12. Counted(V, o, 0)
  BY <1>5, <1>8, <1>10, <1>11 DEF Counted
<1>13. r.base = 1 /\ r.refs = 2 => W.strm.buf # o
  <2>1. r.base = 1 /\ r.refs = 2 => e = 0
    <3> HIDE DEF c, n, d, e, h, r
    <3>1. r.base = 1 => r.refs = 1 + c + d + e
      BY <1>9 DEF If1
    <3>2. QED
      BY <1>9, <3>1
  <2>2. QED
    BY <2>1 DEF If1
<1>14. r.base = 1 /\ r.refs = 2 => W.dev.stream # o
  BY <1>1, <1>2, <1>13 DEF Pins
<1>15. PinKept(W, V, o) /\ PinStays(W, V, o)
  BY <1>8, <1>13, <1>14 DEF PinKept, PinStays
<1>16. W.fb[f].live => W.fb[f].obj = o
  BY DEF o
<1>17. V.fb[f].live => V.fb[f].obj = o
  BY <1>4
<1>18. Sound(V, None)
  BY <1>2, <1>4, <1>12, <1>15, <1>16, <1>17, FbStepKeeps
<1>19. QED
  BY <1>4, <1>18 DEF V, FbStep

LEMMA NoOpIs ==
  /\ K!NoOp \in OpType /\ K!NoOp.k = "none"
  BY DEF K!NoOp, OpType

LEMMA FbRemovedStep ==
  ASSUME Display(K!World), K!FbRemoved
  PROVE  Display(K!World')
<1> DEFINE W == K!World
           f == W.drv.op.f
           V == WithOp(W, K!NoOp)
           X == K!FbDestroy(V, f)
<1>1. /\ Sound(W, None) /\ Cleaned(W) /\ W.drv.op.k = "cleanup" /\ W \in Displays
      /\ Shows(W) /\ (~W.drv.sou => Legacy(W))
  BY WorldIs, HeldParts, SoundIn DEF Display, Sound, K!FbRemoved
<1>2. K!Become(X) /\ K!ToTurnOff(W) = {}
  BY WorldIs DEF K!FbRemoved, WithOp
<1> HIDE DEF W
<1>3. f \in Fbs /\ W.fb[f].live /\ W.drv.op.left \subseteq Units
  <2>1. W.drv.op \in OpType
    BY <1>1, DriverOf
  <2>2. QED
    BY <1>1, <2>1, CleanOpOf DEF Shows
<1>4. Operated(W, V, K!NoOp)
  BY <1>1, NoOpIs, OpIs
<1> HIDE DEF V
<1>5. /\ V.drv.op.k = "none" /\ V.fb = W.fb /\ V.crtc = W.crtc /\ V.dev = W.dev
      /\ V.drv.sou = W.drv.sou /\ V.drv.fb = W.drv.fb
  BY <1>4, NoOpIs DEF Operated
<1>6. Sound(V, None)
  <2>1. ~W.drv.sou => Legacy(V)
    BY <1>1, <1>5 DEF Legacy
  <2>2. \A o \in Things : Scans(W, o) => Scans(V, o)
    BY <1>5 DEF Scans
  <2>3. QED
    BY <1>1, <1>4, <2>1, <2>2, NoOpIs, OpKeeps
<1>7. Unshown(V, f)
  <2>1. ASSUME NEW u \in Units, W.crtc[u].fb = f PROVE W.dev.hung
    <3>1. u \notin W.drv.op.left
      BY <1>2, <2>1 DEF K!ToTurnOff
    <3>2. QED
      BY <1>1, <2>1, <3>1 DEF Cleaned
  <2>2. ASSUME ~W.drv.sou
        PROVE  W.drv.fb # f /\ \A u \in Units : W.crtc[u].fb # f
    <3>1. Legacy(W) /\ ~W.dev.hung
      BY <1>1, <2>2 DEF Legacy
    <3>2. \A u \in Units : W.crtc[u].fb # f
      BY <2>1, <3>1
    <3>3. W.drv.fb # f
      <4> SUFFICES ASSUME W.drv.fb = f PROVE FALSE
        OBVIOUS
      <4>1. f # None
        BY <1>3, KmsAssumption
      <4>2. PICK u \in Units : W.crtc[u].active
        BY <1>1, <3>1, <4>1 DEF Legacy
      <4>3. W.crtc[u].fb = W.drv.fb
        BY <1>1, <3>1, <4>2 DEF Legacy
      <4>4. QED
        BY <3>2, <4>3
    <3>4. QED
      BY <3>2, <3>3
  <2>3. QED
    BY <1>5, <2>1, <2>2 DEF Unshown
<1> HIDE DEF f
<1>8. Sound(X, None) /\ X.drv = V.drv
  BY <1>3, <1>5, <1>6, <1>7, FbDestroyKeeps
<1> HIDE DEF X
<1>9. Cleaned(X)
  BY <1>5, <1>8, NotCleaning
<1>10. QED
  BY <1>2, <1>8, <1>9, Arrive

\* The base object has one reference more.
BaseRef(W, o) == [W EXCEPT !.obj[o].base = @ + 1]

LEMMA BaseRefIs ==
  ASSUME NEW W \in Displays, NEW o \in Things
  PROVE  LET r == W.obj[o] IN Changed(W, BaseRef(W, o), o, r.base + 1, r.refs, r.handle, r.ne)
<1> DEFINE r == W.obj[o]
           s == [r EXCEPT !.base = r.base + 1]
<1>1. s \in ThingType /\ ThingIs(s, r.base + 1, r.refs, r.handle, r.ne)
  <2>1. r \in ThingType /\ r.base + 1 \in Int
    BY ThingOf
  <2>2. QED
    BY <2>1, BaseMade
<1>2. BaseRef(W, o) = WithThing(W, o, s)
  BY PartSet DEF BaseRef, WithThing
<1> HIDE DEF s
<1>3. QED
  BY <1>1, <1>2, ChangedTo

NewFbOf(file, o, n) == [live |-> TRUE, obj |-> o, file |-> file, size |-> n]

\* What comes of a new framebuffer.
FbCreated(W, file, f, o, n, i) ==
  LET X == K!Ref(BaseRef(W, o), o)
  IN \/ i = K!Failed(K!ttm_base_object_unref(K!Unref(X, o), o))
     \/ i = K!Ok(K!Unref(WithFb(K!Ref(X, o), f, NewFbOf(file, o, n)), o))

LEMMA NewFbIs ==
  ASSUME NEW W, NEW file, NEW f, NEW o, NEW n, NEW i \in K!NewFb(W, file, f, o, n)
  PROVE  \/ i = K!Failed(W)
         \/ i = K!Ok(WithFb(K!Ref(W, o), f, NewFbOf(file, o, n)))
  BY DEF K!NewFb, K!MayFail, WithFb, NewFbOf

LEMMA FbCreateIs ==
  ASSUME NEW W \in Displays, NEW file, NEW f, NEW o \in Things, W.obj[o].handle = file, NEW n,
         NEW i \in K!vmw_kms_fb_create(W, file, f, o, n)
  PROVE  FbCreated(W, file, f, o, n, i)
<1> DEFINE U == BaseRef(W, o)
           X == K!Ref(U, o)
           C(x) == {LET y == K!Unref(m.w, o) IN
                    IF m.ok THEN K!Ok(y) ELSE K!Failed(K!ttm_base_object_unref(y, o)) :
                      m \in K!NewFb(x, file, f, o, n)}
<1>1. U.obj[o].handle = file
  BY BaseRefIs DEF Changed, ThingIs
<1>2. K!vmw_user_lookup_handle(U, file, o) = {K!Ok(X)}
  <2> HIDE DEF U
  <2> QED
    BY <1>1 DEF K!vmw_user_lookup_handle
<1>3. K!vmw_kms_fb_create(W, file, f, o, n) = UNION {IF m.ok THEN C(m.w) ELSE {m} :
                                                      m \in K!vmw_user_lookup_handle(U, file, o)}
  BY DEF K!vmw_kms_fb_create, K!Then, BaseRef
<1> HIDE DEF C, U, X
<1>4. i \in C(X)
  <2>1. K!Ok(X).ok = TRUE /\ K!Ok(X).w = X
    BY Outcomes
  <2>2. i \in UNION {IF m.ok THEN C(m.w) ELSE {m} : m \in {K!Ok(X)}}
    BY <1>2, <1>3
  <2>3. QED
    BY <2>1, <2>2
<1>5. PICK m \in K!NewFb(X, file, f, o, n) :
        i = LET y == K!Unref(m.w, o) IN
            IF m.ok THEN K!Ok(y) ELSE K!Failed(K!ttm_base_object_unref(y, o))
  BY <1>4 DEF C
<1>6. \/ m = K!Failed(X)
      \/ m = K!Ok(WithFb(K!Ref(X, o), f, NewFbOf(file, o, n)))
  BY NewFbIs
<1>7. CASE m = K!Failed(X)
  <2>1. m.ok = FALSE /\ m.w = X
    BY <1>7, Outcomes
  <2>2. i = K!Failed(K!ttm_base_object_unref(K!Unref(X, o), o))
    BY <1>5, <2>1
  <2>3. QED
    BY <2>2 DEF FbCreated, X, U
<1>8. CASE m = K!Ok(WithFb(K!Ref(X, o), f, NewFbOf(file, o, n)))
  <2> DEFINE Z == WithFb(K!Ref(X, o), f, NewFbOf(file, o, n))
  <2>1. m.ok = TRUE /\ m.w = Z
    BY <1>8, Outcomes
  <2> HIDE DEF Z
  <2>2. i = K!Ok(K!Unref(Z, o))
    BY <1>5, <2>1
  <2>3. QED
    BY <2>2 DEF FbCreated, X, U, Z
<1>9. QED
  BY <1>6, <1>7, <1>8

\* A buffer that somebody has a handle of.
LEMMA HandledIs ==
  ASSUME NEW W, Sound(W, None), NEW o \in Things, W.obj[o].handle # None
  PROVE  /\ W.obj[o].base \in Int /\ W.obj[o].refs \in Int
         /\ W.obj[o].base >= 1 /\ W.obj[o].refs >= 1
<1>1. W \in Displays /\ Counted(W, o, 0)
  BY HeldParts, StreamOf DEF Referenced, If1, Sound
<1>2. W.obj[o].base \in Int /\ W.obj[o].refs \in Int
  BY <1>1, ThingOf
<1>3. Cardinality(FbsOf(W, o)) \in Nat /\ Cardinality(CursorsOf(W, o)) \in Nat
  BY CountsAre
<1>4. W.obj[o].base >= 1
  BY <1>1, <1>2, <1>3 DEF Counted, If1
<1>5. W.obj[o].refs >= 1
  BY <1>1, <1>2, <1>3, <1>4 DEF Counted, If1
<1>6. QED
  BY <1>2, <1>4, <1>5

LEMMA LookedUpIs ==
  ASSUME NEW W \in Displays, NEW o \in Things
  PROVE  LET r == W.obj[o] IN
         Changed(W, K!Ref(BaseRef(W, o), o), o, r.base + 1, r.refs + 1, r.handle, r.ne)
<1> DEFINE r == W.obj[o]
           U == BaseRef(W, o)
<1>1. Changed(W, U, o, r.base + 1, r.refs, r.handle, r.ne)
  BY BaseRefIs
<1> HIDE DEF U
<1>2. /\ U \in Displays /\ U.obj[o].base = r.base + 1 /\ U.obj[o].refs = r.refs
      /\ U.obj[o].handle = r.handle /\ U.obj[o].ne = r.ne
  BY <1>1 DEF Changed, OnlyThing, ThingIs
<1>3. Changed(U, K!Ref(U, o), o, r.base + 1, r.refs + 1, r.handle, r.ne)
  <2>1. Changed(U, K!Ref(U, o), o, U.obj[o].base, U.obj[o].refs + 1, U.obj[o].handle,
                U.obj[o].ne)
    BY <1>2, RefIs
  <2>2. QED
    BY <1>2, <2>1
<1>4. Changed(W, K!Ref(U, o), o, r.base + 1, r.refs + 1, r.handle, r.ne)
  BY <1>1, <1>3, ChangedTwice
<1>5. QED
  BY <1>4 DEF U

\* No framebuffer comes of it.
LEMMA NoFbKeeps ==
  ASSUME NEW W, Sound(W, None), NEW o \in Things, W.obj[o].handle # None
  PROVE  LET X == K!Ref(BaseRef(W, o), o)
             V == K!ttm_base_object_unref(K!Unref(X, o), o)
         IN Sound(V, None) /\ V.drv = W.drv
<1> DEFINE r == W.obj[o]
           X == K!Ref(BaseRef(W, o), o)
           Y == K!Unref(X, o)
           V == K!ttm_base_object_unref(Y, o)
<1>1. W \in Displays /\ Counted(W, o, If1(o = None))
  BY HeldParts DEF Referenced, Sound
<1>2. r.base \in Int /\ r.refs \in Int /\ r.base >= 1 /\ r.refs >= 1
  BY HandledIs
<1>3. Changed(W, X, o, r.base + 1, r.refs + 1, r.handle, r.ne)
  BY <1>1, LookedUpIs
<1> HIDE DEF X
<1>4. /\ X \in Displays /\ X.obj[o].base = r.base + 1 /\ X.obj[o].refs = r.refs + 1
      /\ X.obj[o].handle = r.handle /\ X.obj[o].ne = r.ne
  BY <1>3 DEF Changed, OnlyThing, ThingIs
<1>5. Changed(W, Y, o, r.base + 1, r.refs, r.handle, r.ne)
  <2>1. Changed(X, Y, o, X.obj[o].base, X.obj[o].refs - 1, X.obj[o].handle,
                IF X.obj[o].refs = 1 THEN "no" ELSE X.obj[o].ne)
    BY <1>4, UnrefIs
  <2>2. X.obj[o].refs # 1 /\ X.obj[o].refs - 1 = r.refs
    BY <1>2, <1>4
  <2>3. Changed(X, Y, o, r.base + 1, r.refs, r.handle, r.ne)
    BY <1>4, <2>1, <2>2
  <2>4. QED
    BY <1>3, <2>3, ChangedTwice
<1> HIDE DEF Y
<1>6. /\ Y \in Displays /\ Y.obj[o].base = r.base + 1 /\ Y.obj[o].refs = r.refs
      /\ Y.obj[o].handle = r.handle /\ Y.obj[o].ne = r.ne
  BY <1>5 DEF Changed, OnlyThing, ThingIs
<1>7. Changed(W, V, o, r.base, r.refs, r.handle, r.ne)
  <2>1. Changed(Y, V, o, Y.obj[o].base - 1,
                IF Y.obj[o].base = 1 THEN Y.obj[o].refs - 1 ELSE Y.obj[o].refs, Y.obj[o].handle,
                IF Y.obj[o].base = 1 /\ Y.obj[o].refs = 1 THEN "no" ELSE Y.obj[o].ne)
    BY <1>6, BaseUnrefIs
  <2>2. Y.obj[o].base # 1 /\ Y.obj[o].base - 1 = r.base
    BY <1>2, <1>6
  <2>3. Changed(Y, V, o, r.base, r.refs, r.handle, r.ne)
    BY <1>6, <2>1, <2>2
  <2>4. QED
    BY <1>5, <2>3, ChangedTwice
<1> HIDE DEF V
<1>8. /\ OnlyThing(W, V, o) /\ V.obj[o].base = r.base /\ V.obj[o].refs = r.refs
      /\ V.obj[o].handle = r.handle /\ V.obj[o].ne = r.ne
      /\ V.fb = W.fb /\ V.crtc = W.crtc /\ V.strm = W.strm /\ V.drv = W.drv
  BY <1>7 DEF Changed, OnlyThing, ThingIs
<1>9. Counted(V, o, If1(o = None)) /\ PinKept(W, V, o) /\ PinStays(W, V, o)
  BY <1>1, <1>8, SameUses DEF Counted, PinKept, PinStays
<1>10. Sound(V, None)
  BY <1>8, <1>9, ThingSound
<1>11. QED
  BY <1>8, <1>10 DEF V, Y, X

\* One does.
LEMMA NewFbKeeps ==
  ASSUME NEW W, Sound(W, None), W.drv.op.k = "none", NEW o \in Bufs, W.obj[o].handle # None,
         NEW f \in Fbs, ~W.fb[f].live, NEW r \in FbType, r.live, r.obj = o
  PROVE  LET X == K!Ref(BaseRef(W, o), o)
             V == K!Unref(WithFb(K!Ref(X, o), f, r), o)
         IN Sound(V, None) /\ V.drv = W.drv
<1> DEFINE s == W.obj[o]
           X == K!Ref(BaseRef(W, o), o)
           Y == K!Ref(X, o)
           Z == WithFb(Y, f, r)
           V == K!Unref(Z, o)
<1>1. W \in Displays /\ Counted(W, o, 0) /\ Shows(W) /\ o \in Things /\ o # None
      /\ (~W.drv.sou => Legacy(W))
  BY HeldParts, StreamOf DEF Referenced, If1, Sound
<1>2. s.base \in Int /\ s.refs \in Int /\ s.base >= 1 /\ s.refs >= 1
  BY <1>1, HandledIs
<1>3. Changed(W, X, o, s.base + 1, s.refs + 1, s.handle, s.ne)
  BY <1>1, LookedUpIs
<1> HIDE DEF X
<1>4. /\ X \in Displays /\ X.obj[o].base = s.base + 1 /\ X.obj[o].refs = s.refs + 1
      /\ X.obj[o].handle = s.handle /\ X.obj[o].ne = s.ne
  BY <1>3 DEF Changed, OnlyThing, ThingIs
<1>5. Changed(W, Y, o, s.base + 1, s.refs + 2, s.handle, s.ne)
  <2>1. Changed(X, Y, o, X.obj[o].base, X.obj[o].refs + 1, X.obj[o].handle, X.obj[o].ne)
    BY <1>1, <1>4, RefIs
  <2>2. X.obj[o].refs + 1 = s.refs + 2
    BY <1>2, <1>4
  <2>3. Changed(X, Y, o, s.base + 1, s.refs + 2, s.handle, s.ne)
    BY <1>4, <2>1, <2>2
  <2>4. QED
    BY <1>3, <2>3, ChangedTwice
<1> HIDE DEF Y
<1>6. /\ Y \in Displays /\ OnlyThing(W, Y, o) /\ Y.obj[o].base = s.base + 1
      /\ Y.obj[o].refs = s.refs + 2 /\ Y.obj[o].handle = s.handle /\ Y.obj[o].ne = s.ne
  BY <1>5 DEF Changed, OnlyThing, ThingIs
<1>7. Z \in Displays /\ Z.obj = Y.obj
  BY <1>6, WithFbIs
<1> HIDE DEF Z
<1>8. Changed(Z, V, o, s.base + 1, s.refs + 1, s.handle, s.ne)
  <2>1. Changed(Z, V, o, Z.obj[o].base, Z.obj[o].refs - 1, Z.obj[o].handle,
                IF Z.obj[o].refs = 1 THEN "no" ELSE Z.obj[o].ne)
    BY <1>1, <1>7, UnrefIs
  <2>2. Z.obj[o].refs # 1 /\ Z.obj[o].refs - 1 = s.refs + 1
    BY <1>2, <1>6, <1>7
  <2>3. QED
    BY <1>6, <1>7, <2>1, <2>2
<1> HIDE DEF V
<1>9. /\ OnlyThing(Z, V, o) /\ V.obj[o].base = s.base + 1 /\ V.obj[o].refs = s.refs + 1
      /\ V.obj[o].handle = s.handle /\ V.obj[o].ne = s.ne
  BY <1>8 DEF Changed, ThingIs
<1>10. FbStep(W, V, f, o) /\ V.fb[f] = r
  BY <1>6, <1>9, FbThen DEF Z
<1>11. /\ CursorsOf(V, o) = CursorsOf(W, o) /\ FbsOf(V, o) \ {f} = FbsOf(W, o) \ {f}
       /\ f \notin FbsOf(W, o) /\ f \in FbsOf(V, o) /\ V.strm = W.strm
  <2>1. (W.fb[f].live => W.fb[f].obj = o) /\ (V.fb[f].live => V.fb[f].obj = o)
    BY <1>10
  <2>2. QED
    BY <1>10, <2>1, FbStepUses DEF FbStep
<1>12. Cardinality(FbsOf(V, o)) = Cardinality(FbsOf(W, o)) + 1
  <2>1. FbsOf(V, o) = FbsOf(W, o) \cup {f}
    BY <1>11
  <2>2. QED
    BY <1>11, <2>1, CountsAre, CardMore
<1> DEFINE c == Cardinality(FbsOf(W, o))
           n == Cardinality(FbsOf(V, o))
           d == Cardinality(CursorsOf(W, o))
           e == If1(W.strm.buf = o)
           h == If1(s.handle # None)
<1>13. /\ s.base = h + c /\ s.refs = If1(s.base > 0) + c + d + e + 0 /\ n = c + 1
       /\ c \in Nat /\ d \in Nat /\ e \in {0, 1} /\ h \in {0, 1}
  BY <1>1, <1>12, CountsAre DEF Counted, If1
<1>14. V.obj[o].base = h + n /\ V.obj[o].refs = If1(V.obj[o].base > 0) + n + d + e + 0
  <2> HIDE DEF c, n, d, e, h, s
  <2>1. If1(s.base > 0) = 1 /\ If1(V.obj[o].base > 0) = 1
    BY <1>2, <1>9 DEF If1
  <2>2. QED
    BY <1>2, <1>9, <1>13, <2>1
<1>15. Counted(V, o, 0)
  BY <1>9, <1>11, <1>14 DEF Counted
<1>16. PinKept(W, V, o) /\ PinStays(W, V, o)
  BY <1>9 DEF PinKept, PinStays
<1>17. Unshown(W, f)
  BY <1>1, KmsAssumption DEF Shows, Legacy, Unshown
<1>18. Sound(V, None)
  BY <1>10, <1>15, <1>16, <1>17, FbStepKeeps
<1>19. QED
  BY <1>10, <1>18 DEF V, Z, Y, X, FbStep

LEMMA AddfbStep ==
  ASSUME NEW file \in KFiles, Display(K!World), K!drm_mode_addfb(file)
  PROVE  Display(K!World')
<1> DEFINE W == K!World
<1>1. Sound(W, None) /\ W.drv.op.k = "none" /\ file # None
  BY WorldIs, KmsAssumption DEF Display, K!drm_mode_addfb, K!Unlocked
<1>2. PICK f \in Fbs, o \in Bufs, n \in Sizes :
        /\ ~W.fb[f].live /\ W.obj[o].handle = file
        /\ \E i \in K!vmw_kms_fb_create(W, file, f, o, n) : K!Become(i.w)
  BY WorldIs DEF K!drm_mode_addfb
<1> HIDE DEF W
<1>3. PICK i \in K!vmw_kms_fb_create(W, file, f, o, n) : K!Become(i.w)
  BY <1>2
<1>4. W \in Displays /\ o \in Things /\ W.obj[o].handle # None
  BY <1>1, <1>2, SoundIn, StreamOf
<1> DEFINE X == K!Ref(BaseRef(W, o), o)
           A == K!ttm_base_object_unref(K!Unref(X, o), o)
           D == K!Unref(WithFb(K!Ref(X, o), f, NewFbOf(file, o, n)), o)
<1>5. i = K!Failed(A) \/ i = K!Ok(D)
  BY <1>2, <1>4, FbCreateIs DEF FbCreated
<1>6. i.w = A \/ i.w = D
  <2> HIDE DEF A, D
  <2> QED
    BY <1>5, Outcomes
<1>7. Sound(A, None) /\ A.drv = W.drv
  BY <1>1, <1>4, NoFbKeeps
<1>8. Sound(D, None) /\ D.drv = W.drv
  <2>1. /\ NewFbOf(file, o, n) \in FbType /\ NewFbOf(file, o, n).live
        /\ NewFbOf(file, o, n).obj = o
    BY DEF NewFbOf, FbType
  <2>2. QED
    BY <1>1, <1>2, <1>4, <2>1, NewFbKeeps
<1> HIDE DEF A, D
<1>9. Sound(i.w, None) /\ Cleaned(i.w)
  BY <1>1, <1>6, <1>7, <1>8, NotCleaning
<1>10. QED
  BY <1>3, <1>9, Arrive

-----------------------------------------------------------------------------
(* A mode set that moves a buffer. *)

MovedOp(op, b) == [k |-> "moved", u |-> op.u, f |-> op.f, size |-> op.size, ok |-> b]

LEMMA MovingOp ==
  ASSUME NEW op \in OpType, op.k \in {"paused", "moved"}
  PROVE  op.u \in Units /\ op.f \in Fbs /\ op.size \in Sizes /\ op.ok \in BOOLEAN
  BY DEF OpType

LEMMA MovedOpIs ==
  ASSUME NEW op \in OpType, op.k = "paused", NEW b \in BOOLEAN
  PROVE  /\ MovedOp(op, b) \in OpType /\ MovedOp(op, b).k = "moved"
         /\ MovedOp(op, b).u = op.u /\ MovedOp(op, b).f = op.f /\ MovedOp(op, b).ok = b
         /\ [[op EXCEPT !.k = "moved"] EXCEPT !.ok = b] = MovedOp(op, b)
<1>1. op \in [k : {"paused", "moved"}, u : Units, f : Fbs, size : Sizes, ok : BOOLEAN]
  BY DEF OpType
<1>2. MovedOp(op, b) \in [k : {"paused", "moved"}, u : Units, f : Fbs, size : Sizes, ok : BOOLEAN]
  BY <1>1 DEF MovedOp
<1>3. MovedOp(op, b) \in OpType
  BY <1>2 DEF OpType
<1>4. [[op EXCEPT !.k = "moved"] EXCEPT !.ok = b] = MovedOp(op, b)
  <2>1. op = [k |-> op.k, u |-> op.u, f |-> op.f, size |-> op.size, ok |-> op.ok]
    BY <1>1
  <2> DEFINE q == [op EXCEPT !.k = "moved"]
  <2>2. q = [k |-> "moved", u |-> op.u, f |-> op.f, size |-> op.size, ok |-> op.ok]
    BY <2>1
  <2> HIDE DEF q
  <2>3. [q EXCEPT !.ok = b] = MovedOp(op, b)
    BY <2>2 DEF MovedOp
  <2>4. QED
    BY <2>3 DEF q
<1>5. QED
  BY <1>3, <1>4 DEF MovedOp

\* What follows the move: it went well or not.
MovedTo(W, b) == [W EXCEPT !.drv.op.k = "moved", !.drv.op.ok = b]

LEMMA MovedToIs ==
  ASSUME NEW W \in Displays, W.drv.op.k = "paused", NEW b \in BOOLEAN
  PROVE  /\ MovedTo(W, b) = WithOp(W, MovedOp(W.drv.op, b))
         /\ Operated(W, MovedTo(W, b), MovedOp(W.drv.op, b))
<1> DEFINE op == W.drv.op
           new == [[op EXCEPT !.k = "moved"] EXCEPT !.ok = b]
<1>1. op \in OpType
  BY DriverOf
<1>2. MovedOp(op, b) \in OpType /\ new = MovedOp(op, b)
  <2>1. op.k = "paused"
    OBVIOUS
  <2> HIDE DEF op
  <2> QED
    BY <1>1, <2>1, MovedOpIs, Zenon
<1>3. MovedTo(W, b) = [W EXCEPT !.drv = [W.drv EXCEPT !.op = new]]
  BY DisplayParts DEF MovedTo, Displays, DriverType
<1>4. MovedTo(W, b) = WithOp(W, MovedOp(op, b))
  <2> HIDE DEF new, op
  <2> QED
    BY <1>2, <1>3 DEF WithOp
<1>5. QED
  BY <1>2, <1>4, OpIs

MoveStarts(W, i) ==
  LET op == W.drv.op
  IN \/ /\ W.drv.sou
        /\ i = K!Failed(W) \/ i = K!Ok(WithBuffer(W, op.u, op.size))
     \/ /\ ~W.drv.sou
        /\ \/ i = K!Ok([W EXCEPT !.drv.fb = op.f])
           \/ i = K!Ok([[W EXCEPT !.obj[W.fb[op.f].obj].ne = "vram"] EXCEPT !.drv.fb = op.f])

LEMMA ToStartIs ==
  ASSUME NEW W, NEW o, NEW i \in K!vmw_dmabuf_to_start_of_vram(W, o)
  PROVE  i.w = W \/ i.w = [W EXCEPT !.obj[o].ne = "vram"]
<1> DEFINE V == [W EXCEPT !.obj[o].ne = "vram"]
<1>1. i = K!Ok(V) \/ i = K!Failed(W)
  BY DEF K!vmw_dmabuf_to_start_of_vram
<1> HIDE DEF V
<1>2. i.w = W \/ i.w = V
  BY <1>1, Outcomes
<1>3. QED
  BY <1>2 DEF V

LEMMA AllocIs ==
  ASSUME NEW W, NEW u, NEW n, NEW i \in K!vmw_sou_backing_alloc(W, u, n)
  PROVE  i = K!Failed(W) \/ i = K!Ok(WithBuffer(W, u, n))
  BY DEF K!vmw_sou_backing_alloc, K!MayFail, WithBuffer

MoveSet(W, drv, fb) ==
  IF drv.sou THEN K!vmw_sou_backing_alloc(W, drv.op.u, drv.op.size)
  ELSE {K!Ok([m.w EXCEPT !.drv.fb = drv.op.f]) :
          m \in K!vmw_dmabuf_to_start_of_vram(W, fb[drv.op.f].obj)}

LEMMA MoveSetIs ==
  ASSUME NEW W, NEW drv, NEW fb, NEW i \in MoveSet(W, drv, fb), W.drv = drv, W.fb = fb
  PROVE  MoveStarts(W, i)
<1> DEFINE op == drv.op
           o == fb[op.f].obj
<1>1. CASE drv.sou
  <2>1. i \in K!vmw_sou_backing_alloc(W, op.u, op.size)
    BY <1>1 DEF MoveSet
  <2>2. i = K!Failed(W) \/ i = K!Ok(WithBuffer(W, op.u, op.size))
    BY <2>1, AllocIs
  <2>3. QED
    BY <1>1, <2>2 DEF MoveStarts
<1>2. CASE ~drv.sou
  <2>1. PICK m \in K!vmw_dmabuf_to_start_of_vram(W, o) :
          i = K!Ok([m.w EXCEPT !.drv.fb = drv.op.f])
    BY <1>2 DEF MoveSet
  <2> HIDE DEF o
  <2>2. m.w = W \/ m.w = [W EXCEPT !.obj[o].ne = "vram"]
    BY <2>1, ToStartIs
  <2>3. \/ i = K!Ok([W EXCEPT !.drv.fb = drv.op.f])
        \/ i = K!Ok([[W EXCEPT !.obj[o].ne = "vram"] EXCEPT !.drv.fb = drv.op.f])
    BY <2>1, <2>2
  <2>4. QED
    BY <1>2, <2>3 DEF MoveStarts, o
<1>3. QED
  BY <1>1, <1>2

LEMMA MoveForModeIs ==
  ASSUME K!MoveForMode
  PROVE  \E i \in MoveSet(K!World, kdrv, kfb) : K!Become(MovedTo(i.w, i.ok))
  BY Zenon DEF K!MoveForMode, MoveSet, MovedTo

\* The move of screen objects, and the one of legacy units.
LEMMA SouMoveKeeps ==
  ASSUME NEW W, Sound(W, None), W.drv.sou, W.drv.op.k = "paused", NEW X, NEW b \in BOOLEAN,
         X = W \/ X = WithBuffer(W, W.drv.op.u, W.drv.op.size)
  PROVE  LET V == MovedTo(X, b) IN Sound(V, None) /\ V.drv.op.k = "moved"
<1> DEFINE op == W.drv.op
           new == MovedOp(op, b)
           V == MovedTo(X, b)
<1>1. W \in Displays /\ Shows(W) /\ op \in OpType /\ op.k = "paused"
  BY HeldParts, DriverOf DEF Sound
<1>2. op.u \in Units /\ op.f \in Fbs /\ op.size \in Sizes
  BY <1>1, MovingOp
<1>3. Sound(X, None) /\ X.drv = W.drv /\ X.fb = W.fb
  <2>1. CASE X = W
    BY <2>1
  <2>2. CASE X = WithBuffer(W, op.u, op.size)
    <3>1. /\ Moded(W, X, op.u) /\ X.drv = W.drv /\ X.dev = W.dev
          /\ X.crtc[op.u].fb = W.crtc[op.u].fb /\ X.crtc[op.u].defined = W.crtc[op.u].defined
      BY <1>1, <1>2, <2>2, BufferIs
    <3>2. X.fb = W.fb
      BY <3>1 DEF Moded
    <3>3. X.dev.screen[op.u] = (IF X.crtc[op.u].defined THEN "backed" ELSE None)
      BY <1>1, <1>2, <3>1 DEF Shows
    <3>4. X.crtc[op.u].fb # None => X.fb[X.crtc[op.u].fb].live \/ X.dev.hung
      <4>1. W.crtc[op.u].fb # None => W.fb[W.crtc[op.u].fb].live \/ W.dev.hung
        <5>1. \A u \in Units : W.crtc[u].fb # None => W.fb[W.crtc[u].fb].live \/ W.dev.hung
          BY <1>1 DEF Shows
        <5> HIDE DEF op
        <5>2. QED
          BY <1>2, <5>1
      <4> HIDE DEF op
      <4>2. QED
        BY <3>1, <3>2, <4>1
    <3> HIDE DEF op
    <3>5. Sound(X, None)
      BY <1>2, <3>1, <3>3, <3>4, SouModedKeeps
    <3>6. QED
      BY <3>1, <3>2, <3>5
  <2>3. QED
    BY <2>1, <2>2
<1>4. new.k = "moved" /\ new.f = op.f
  <2> HIDE DEF op
  <2>1. op \in OpType /\ op.k = "paused" /\ b \in BOOLEAN
    BY <1>1
  <2>2. QED
    BY <2>1, MovedOpIs, Zenon
<1>5. Operated(X, V, new)
  <2>1. X \in Displays /\ X.drv.op = op
    BY <1>3, SoundIn
  <2>2. X.drv.op.k = "paused" /\ b \in BOOLEAN
    BY <1>1, <2>1
  <2>3. Operated(X, MovedTo(X, b), MovedOp(X.drv.op, b))
    BY <2>1, <2>2, MovedToIs, Zenon
  <2>4. QED
    BY <2>1, <2>3
<1> HIDE DEF V, new
<1>6. X.fb[new.f].live
  BY <1>1, <1>3, <1>4 DEF Shows
<1>7. \A o \in Things : Scans(X, o) => Scans(V, o)
  BY <1>3 DEF Scans
<1>8. Sound(V, None)
  BY <1>3, <1>5, <1>6, <1>7, OpKeeps
<1>9. V.drv.op.k = "moved"
  BY <1>4, <1>5 DEF Operated
<1>10. QED
  BY <1>8, <1>9 DEF V

FbFirst(W, f) == [W EXCEPT !.drv.fb = f]
PinnedAt(W, o) == [W EXCEPT !.obj[o].ne = "vram"]

LEMMA LduMoveKeeps ==
  ASSUME Apart, NEW W, Sound(W, None), ~W.drv.sou, W.drv.op.k = "paused",
         NEW o, W.fb[W.drv.op.f].obj = o, NEW X, X = W \/ X = PinnedAt(W, o),
         NEW b, b = TRUE
  PROVE  LET V == MovedTo(FbFirst(X, W.drv.op.f), b) IN
         Sound(V, None) /\ V.drv.op.k = "moved"
<1> DEFINE op == W.drv.op
           f == op.f
           new == MovedOp(op, b)
           Y == FbFirst(X, f)
           V == MovedTo(Y, b)
<1>1. /\ W \in Displays /\ Shows(W) /\ op \in OpType /\ op.k = "paused" /\ Legacy(W)
      /\ Pins(W)
  BY HeldParts, DriverOf DEF Sound
<1>2. op.u \in Units /\ f \in Fbs /\ f # None
  BY <1>1, MovingOp, KmsAssumption
<1>3. W.fb[f].live
  BY <1>1 DEF Shows
<1>4. o \in Bufs /\ o \in Things /\ o \notin Videos
  BY <1>1, <1>2, <1>3, FbOf, StreamOf DEF Shows, Apart
<1>5. /\ OnlyThing(W, X, o) /\ X.obj[o].base = W.obj[o].base /\ X.obj[o].refs = W.obj[o].refs
      /\ X.obj[o].handle = W.obj[o].handle
  <2>1. CASE X = W
    BY <1>1, <2>1, OnlySelf
  <2>2. CASE X = PinnedAt(W, o)
    <3>1. Changed(W, [W EXCEPT !.obj[o].ne = "vram"], o, W.obj[o].base, W.obj[o].refs,
                  W.obj[o].handle, "vram")
      <4> DEFINE e == "vram"
      <4>1. e \in {"vram", "gmr"}
        OBVIOUS
      <4> HIDE DEF e
      <4>2. Changed(W, [W EXCEPT !.obj[o].ne = e], o, W.obj[o].base, W.obj[o].refs,
                    W.obj[o].handle, e)
        BY <1>1, <1>4, <4>1, PinIs
      <4>3. QED
        BY <4>2 DEF e
    <3>2. QED
      BY <2>2, <3>1 DEF Changed, ThingIs, PinnedAt
  <2>3. QED
    BY <2>1, <2>2
<1>6. new.k = "moved" /\ new.f = f /\ new.u = op.u /\ new.ok = b
  <2> HIDE DEF op
  <2>1. op \in OpType /\ op.k = "paused" /\ b \in BOOLEAN
    BY <1>1
  <2>2. QED
    BY <2>1, MovedOpIs, Zenon
<1>7. X \in Displays /\ X.drv = W.drv /\ X.fb = W.fb /\ X.crtc = W.crtc /\ X.dev = W.dev
      /\ X.strm = W.strm /\ \A p \in Things \ {o} : X.obj[p] = W.obj[p]
  BY <1>5 DEF OnlyThing
<1>8. Moded(X, Y, op.u) /\ Y.crtc = X.crtc /\ Y.dev = X.dev /\ Y.drv.fb = f
  BY <1>2, <1>7, DriverFbModed DEF FbFirst
<1> HIDE DEF Y
<1>9. /\ Y \in Displays /\ Y.fb = X.fb /\ Y.obj = X.obj /\ Y.strm = X.strm
      /\ Y.drv.sou = X.drv.sou /\ Y.drv.op = X.drv.op /\ Y.drv.ne = X.drv.ne
      /\ Y.drv.on = X.drv.on
  BY <1>8 DEF Moded
<1>10. Operated(Y, V, new)
  <2>1. Y.drv.op = op /\ Y.drv.op.k = "paused" /\ b \in BOOLEAN
    BY <1>1, <1>7, <1>9
  <2>2. Operated(Y, MovedTo(Y, b), MovedOp(Y.drv.op, b))
    BY <1>9, <2>1, MovedToIs, Zenon
  <2>3. QED
    BY <2>1, <2>2
<1> HIDE DEF V, new
<1>11. /\ V \in Displays /\ V.fb = W.fb /\ V.crtc = W.crtc /\ V.obj = X.obj /\ V.strm = W.strm
       /\ V.dev = W.dev /\ V.drv.sou = W.drv.sou /\ V.drv.fb = f /\ V.drv.on = W.drv.on
       /\ V.drv.ne = W.drv.ne /\ V.drv.op = new
  BY <1>7, <1>8, <1>9, <1>10 DEF Operated
<1>12. LegacyStep(W, V)
  <2>1. ASSUME NEW p \in Things
        PROVE  /\ V.obj[p].base = W.obj[p].base /\ V.obj[p].refs = W.obj[p].refs
               /\ V.obj[p].handle = W.obj[p].handle
               /\ p \in Videos => V.obj[p].ne = W.obj[p].ne
    BY <1>4, <1>5, <1>7, <1>11
  <2>2. QED
    BY <1>11, <2>1 DEF LegacyStep
<1>13. Legacy(V)
  <2>1. /\ \A v \in Units : V.crtc[v].active => v = new.u
        /\ V.crtc[new.u].fb = new.f
    BY <1>1, <1>6, <1>11 DEF Legacy
  <2>2. ~V.dev.hung
    BY <1>1, <1>11 DEF Legacy
  <2>3. QED
    BY <1>3, <1>6, <1>11, <2>1, <2>2 DEF Legacy
<1>14. \A v \in Units : V.crtc[v].fb # None => W.fb[V.crtc[v].fb].live
  BY <1>1, <1>11 DEF Shows, Legacy
<1>15. \A p \in Things : V.obj[p].ne # "no" => Streams(W, p) \/ Scans(V, p)
  <2> SUFFICES ASSUME NEW p \in Things, V.obj[p].ne # "no"
               PROVE  Streams(W, p) \/ Scans(V, p)
    OBVIOUS
  <2>1. CASE p = o
    BY <1>2, <1>6, <1>11, <2>1 DEF Scans
  <2>2. CASE p # o
    BY <1>1, <1>7, <1>11, <2>2 DEF Pins, Scans
  <2>3. QED
    BY <2>1, <2>2
<1>16. V.drv.op.k # "none" => W.fb[V.drv.op.f].live
  BY <1>3, <1>6, <1>11
<1>17. Sound(V, None)
  BY <1>12, <1>13, <1>14, <1>15, <1>16, LegacyKeeps
<1>18. QED
  BY <1>6, <1>11, <1>17 DEF V, Y

LEMMA MoveStep ==
  ASSUME Apart, Display(K!World), K!MoveForMode
  PROVE  Display(K!World')
<1> DEFINE W == K!World
<1>1. Sound(W, None) /\ W.drv.op.k = "paused" /\ W.drv = kdrv /\ W.fb = kfb
  BY WorldIs DEF Display, K!MoveForMode
<1>2. PICK i \in MoveSet(W, kdrv, kfb) : K!Become(MovedTo(i.w, i.ok))
  BY MoveForModeIs
<1> HIDE DEF W
<1>3. MoveStarts(W, i)
  BY <1>1, <1>2, MoveSetIs
<1> DEFINE V == MovedTo(i.w, i.ok)
<1>4. CASE W.drv.sou
  <2> DEFINE X == WithBuffer(W, W.drv.op.u, W.drv.op.size)
  <2>1. i = K!Failed(W) \/ i = K!Ok(X)
    BY <1>3, <1>4 DEF MoveStarts
  <2> HIDE DEF X
  <2>2. i.ok \in BOOLEAN /\ (i.w = W \/ i.w = X)
    BY <2>1, Outcomes
  <2>3. Sound(V, None) /\ V.drv.op.k = "moved"
    BY <1>1, <1>4, <2>2, SouMoveKeeps, Zenon DEF X
  <2> HIDE DEF V
  <2>4. Cleaned(V)
    BY <2>3, NotCleaning
  <2>5. QED
    BY <1>2, <2>3, <2>4, Arrive DEF V
<1>5. CASE ~W.drv.sou
  <2> DEFINE f == W.drv.op.f
             o == W.fb[f].obj
             X == PinnedAt(W, o)
  <2>0. \/ i = K!Ok(FbFirst(W, f))
        \/ i = K!Ok(FbFirst(X, f))
    BY <1>3, <1>5, Zenon DEF MoveStarts, PinnedAt, FbFirst
  <2> HIDE DEF X
  <2>1. PICK U : (U = W \/ U = X) /\ i = K!Ok(FbFirst(U, f))
    BY <2>0
  <2>2. i.w = FbFirst(U, f) /\ i.ok = TRUE
    <3> DEFINE Y == FbFirst(U, f)
    <3>1. i = K!Ok(Y)
      BY <2>1
    <3> HIDE DEF Y
    <3>2. i.w = Y /\ i.ok = TRUE
      BY <3>1, Outcomes
    <3>3. QED
      BY <3>2 DEF Y
  <2> DEFINE t == TRUE
  <2>3. t = TRUE /\ i.ok = t
    BY <2>2
  <2> HIDE DEF t
  <2>4. LET Z == MovedTo(FbFirst(U, f), t)
        IN Sound(Z, None) /\ Z.drv.op.k = "moved"
    <3>1. W.fb[W.drv.op.f].obj = o
      OBVIOUS
    <3>2. U = W \/ U = PinnedAt(W, o)
      BY <2>1 DEF X
    <3>3. Sound(W, None) /\ W.drv.op.k = "paused"
      BY <1>1
    <3> HIDE DEF o
    <3>4. QED
      BY <1>5, <2>3, <3>1, <3>2, <3>3, LduMoveKeeps
  <2>5. V = MovedTo(FbFirst(U, f), t)
    BY <2>2, <2>3
  <2> HIDE DEF V
  <2>6. Sound(V, None) /\ Cleaned(V)
    BY <2>4, <2>5, NotCleaning
  <2>7. QED
    BY <1>2, <2>6, Arrive DEF V
<1>6. QED
  BY <1>4, <1>5

\* The end of a mode set that moved a buffer.
LEMMA OpDone ==
  ASSUME NEW W, Sound(W, None), W.drv.sou
  PROVE  LET V == WithOp(W, K!NoOp) IN Sound(V, None) /\ Operated(W, V, K!NoOp)
<1> DEFINE V == WithOp(W, K!NoOp)
<1>1. Operated(W, V, K!NoOp)
  BY NoOpIs, OpIs, SoundIn
<1> HIDE DEF V
<1>2. \A o \in Things : Scans(W, o) => Scans(V, o)
  BY DEF Scans
<1>3. Sound(V, None)
  BY <1>1, <1>2, NoOpIs, OpKeeps
<1>4. QED
  BY <1>1, <1>3 DEF V

LEMMA LduDone ==
  ASSUME NEW W, Sound(W, None), ~W.drv.sou, W.drv.op.k = "moved", NEW u, u = W.drv.op.u
  PROVE  LET V == K!LduShow(WithOp(W, K!NoOp), u) IN Sound(V, None) /\ V.drv.op = K!NoOp
<1> DEFINE op == W.drv.op
           X == WithOp(W, K!NoOp)
           V == K!LduShow(X, u)
<1>1. W \in Displays /\ Shows(W) /\ Pins(W) /\ Legacy(W) /\ op \in OpType /\ op.k = "moved"
  BY HeldParts, DriverOf DEF Sound
<1>2. u \in Units /\ op.f \in Fbs /\ op.f # None
  BY <1>1, MovingOp, KmsAssumption
<1>3. Operated(W, X, K!NoOp)
  BY <1>1, NoOpIs, OpIs
<1> HIDE DEF X
<1>4. X \in Displays
  BY <1>3 DEF Operated
<1>5. /\ LegacyStep(X, V) /\ V.obj = X.obj /\ V.drv = X.drv
      /\ V.crtc[u].fb = X.crtc[u].fb /\ V.crtc[u].active
      /\ \A v \in Units \ {u} : V.crtc[v] = X.crtc[v]
  BY <1>2, <1>4, LduShowIs
<1> HIDE DEF V
<1>6. LegacyStep(W, X)
  BY <1>3 DEF Operated, LegacyStep
<1>7. LegacyStep(W, V)
  BY <1>5, <1>6, LegacyTwice
<1>8. /\ V.obj = W.obj /\ V.drv.sou = W.drv.sou /\ V.drv.fb = W.drv.fb /\ V.drv.op = K!NoOp
      /\ V.crtc[u].fb = W.crtc[u].fb /\ V.crtc[u].active
      /\ \A v \in Units \ {u} : V.crtc[v] = W.crtc[v]
  BY <1>3, <1>5 DEF Operated
<1>9. V.fb = W.fb /\ V.dev.hung = W.dev.hung
  BY <1>7 DEF LegacyStep
<1>10. /\ W.drv.fb = op.f /\ W.crtc[u].fb = op.f /\ ~W.dev.hung /\ W.fb[op.f].live
       /\ \A v \in Units : W.crtc[v].active => v = u
  BY <1>1, <1>2 DEF Legacy
<1>11. Legacy(V)
  <2>1. \A v \in Units : V.crtc[v].active => V.crtc[v].fb = V.drv.fb
    BY <1>8, <1>10
  <2>2. V.drv.fb # None /\ V.fb[V.drv.fb].live /\ ~V.dev.hung
    BY <1>2, <1>8, <1>9, <1>10
  <2>3. V.drv.op.k = "none"
    BY <1>8, NoOpIs
  <2>4. V.crtc[u].active
    BY <1>8
  <2>5. QED
    BY <1>2, <2>1, <2>2, <2>3, <2>4 DEF Legacy
<1>12. \A v \in Units : V.crtc[v].fb # None => W.fb[V.crtc[v].fb].live
  BY <1>1, <1>8, <1>10 DEF Shows
<1>13. V.drv.op.k # "none" => W.fb[V.drv.op.f].live
  BY <1>8, NoOpIs
<1>14. \A p \in Things : V.obj[p].ne # "no" => Streams(W, p) \/ Scans(V, p)
  BY <1>1, <1>8, <1>9, NoOpIs DEF Pins, Scans
<1>15. Sound(V, None)
  BY <1>7, <1>11, <1>12, <1>13, <1>14, LegacyKeeps
<1>16. QED
  BY <1>8, <1>15 DEF V, X

LEMMA MovedStep ==
  ASSUME Display(K!World), K!ModeMoved
  PROVE  Display(K!World')
<1> DEFINE W == K!World
           op == W.drv.op
<1>1. Sound(W, None) /\ W.drv = kdrv /\ W.fb = kfb /\ op.k = "moved"
  BY WorldIs DEF Display, K!ModeMoved
<1>2. PICK r \in K!vmw_overlay_resume_all(W) :
        LET x == WithOp(r, K!NoOp)
        IN IF ~op.ok THEN K!Become(x)
           ELSE IF ~W.drv.sou THEN K!Become(K!LduShow(x, op.u))
           ELSE \E y \in K!SouShow(x, op.u, op.f, op.size) : K!Become(y.w)
  BY WorldIs DEF K!ModeMoved, WithOp
<1> HIDE DEF W
<1>3. Sound(r, None) /\ SameModes(W, r)
  BY <1>1, <1>2, ResumeKeeps
<1>4. r.drv = W.drv /\ r.fb = W.fb
  BY <1>3 DEF SameModes
<1>5. op \in OpType /\ op.u \in Units /\ op.f \in Fbs /\ op.size \in Sizes
  <2>1. op \in OpType
    BY <1>1, SoundIn, DriverOf
  <2> HIDE DEF op
  <2>2. QED
    BY <1>1, <2>1, MovingOp
<1> DEFINE x == WithOp(r, K!NoOp)
<1>6. CASE W.drv.sou
  <2>1. Sound(x, None) /\ Operated(r, x, K!NoOp)
    BY <1>3, <1>4, <1>6, OpDone
  <2>2. \/ K!Become(x)
        \/ \E y \in K!SouShow(x, op.u, op.f, op.size) : K!Become(y.w)
    BY <1>2, <1>6
  <2> HIDE DEF x
  <2>3. x.drv.op.k = "none" /\ x.drv.sou = W.drv.sou /\ x.fb = W.fb
    BY <1>4, <2>1, NoOpIs DEF Operated
  <2>4. CASE K!Become(x)
    BY <2>1, <2>3, <2>4, NotCleaning, Arrive
  <2>5. ASSUME NEW y \in K!SouShow(x, op.u, op.f, op.size), K!Become(y.w)
        PROVE  Display(K!World')
    <3>1. W.fb[op.f].live
      BY <1>1, HeldParts DEF Shows, Sound
    <3>2. Sound(y.w, None) /\ Moded(x, y.w, op.u)
      <4> HIDE DEF op
      <4> QED
        BY <1>5, <1>6, <2>1, <2>3, <2>5, <3>1, SouShowKeeps
    <3>3. Cleaned(y.w)
      BY <2>3, <3>2, NotCleaning DEF Moded
    <3>4. QED
      BY <2>5, <3>2, <3>3, Arrive
  <2>6. QED
    BY <2>2, <2>4, <2>5
<1>7. CASE ~W.drv.sou
  <2>1. op.ok
    BY <1>1, <1>7, HeldParts DEF Sound, Legacy
  <2> DEFINE V == K!LduShow(x, op.u)
  <2>2. K!Become(V)
    BY <1>2, <1>7, <2>1
  <2>3. Sound(V, None) /\ V.drv.op = K!NoOp
    BY <1>1, <1>3, <1>4, <1>7, LduDone
  <2> HIDE DEF V
  <2>4. Cleaned(V)
    BY <2>3, NoOpIs, NotCleaning
  <2>5. QED
    BY <2>2, <2>3, <2>4, Arrive
<1>8. QED
  BY <1>6, <1>7

\* A page flip: crtc and driver show another framebuffer.
Flipped(W, u, f) == [W EXCEPT !.crtc[u].fb = f, !.drv.fb = f]

LEMMA FlippedIs ==
  ASSUME NEW W \in Displays, NEW u \in Units, NEW f \in Fbs
  PROVE  LET V == Flipped(W, u, f) IN
         /\ Moded(W, V, u) /\ V.dev = W.dev
         /\ V.crtc[u].fb = f /\ V.crtc[u].defined = W.crtc[u].defined
<1> DEFINE c == [W.crtc[u] EXCEPT !.fb = f]
           X == WithCrtc(W, u, c)
           V == [X EXCEPT !.drv.fb = f]
<1>1. /\ c \in CrtcType /\ c.cursor = W.crtc[u].cursor /\ c.fb = f
      /\ c.defined = W.crtc[u].defined
  <2>1. W.crtc[u] \in CrtcType
    BY CrtcOf
  <2>2. QED
    BY <2>1 DEF CrtcType
<1>2. [W EXCEPT !.crtc[u].fb = f] = X
  <2>1. [W EXCEPT !.crtc[u].fb = f] = [W EXCEPT !.crtc = [W.crtc EXCEPT ![u] = c]]
    OBVIOUS
  <2> HIDE DEF c
  <2>2. QED
    BY <2>1, PartSet DEF WithCrtc
<1>3. Flipped(W, u, f) = V
  <2>1. Flipped(W, u, f) = [[W EXCEPT !.crtc[u].fb = f] EXCEPT !.drv.fb = f]
    BY DEF Flipped
  <2> HIDE DEF X
  <2>2. QED
    BY <1>2, <2>1
<1> HIDE DEF c
<1>4. Moded(W, X, u) /\ X.crtc[u] = c /\ X.drv = W.drv /\ X.dev = W.dev
  BY <1>1, CrtcModed
<1> HIDE DEF X
<1>5. X \in Displays
  BY <1>4 DEF Moded
<1>6. Moded(X, V, u) /\ V.crtc = X.crtc /\ V.dev = X.dev /\ V.drv.fb = f
  BY <1>5, DriverFbModed
<1> HIDE DEF V
<1>7. Moded(W, V, u)
  BY <1>4, <1>6, ModedTwice
<1>8. QED
  BY <1>1, <1>3, <1>4, <1>6, <1>7

LEMMA FlipStep ==
  ASSUME NEW file \in KFiles, NEW u \in Units, Display(K!World),
         K!drm_mode_page_flip_ioctl(file, u)
  PROVE  Display(K!World')
<1> DEFINE W == K!World
<1>1. Sound(W, None) /\ W.drv.op.k = "none" /\ W.drv.sou
  BY WorldIs DEF Display, K!drm_mode_page_flip_ioctl, K!Unlocked
<1>2. PICK f \in Fbs : W.fb[f].live /\ K!Become(Flipped(W, u, f))
  <2>1. PICK f \in Fbs : kfb[f].live /\ K!Become(Flipped(W, u, f))
    BY Zenon DEF K!drm_mode_page_flip_ioctl, Flipped
  <2>2. W.fb = kfb
    BY WorldIs
  <2> HIDE DEF W
  <2>3. QED
    BY <2>1, <2>2
<1> HIDE DEF W
<1> DEFINE V == Flipped(W, u, f)
<1>3. W \in Displays /\ Shows(W)
  BY <1>1, HeldParts DEF Sound
<1>4. Moded(W, V, u) /\ V.dev = W.dev /\ V.crtc[u].fb = f
      /\ V.crtc[u].defined = W.crtc[u].defined
  BY <1>3, FlippedIs
<1>5. K!Become(V)
  BY <1>2
<1> HIDE DEF V
<1>6. V.fb = W.fb /\ V.drv.op = W.drv.op
  BY <1>4 DEF Moded
<1>7. V.dev.screen[u] = (IF V.crtc[u].defined THEN "backed" ELSE None)
  BY <1>3, <1>4 DEF Shows
<1>8. V.crtc[u].fb # None => V.fb[V.crtc[u].fb].live \/ V.dev.hung
  BY <1>2, <1>4, <1>6
<1>9. Sound(V, None)
  BY <1>1, <1>4, <1>7, <1>8, SouModedKeeps
<1>10. Cleaned(V)
  BY <1>1, <1>6, NotCleaning
<1>11. QED
  BY <1>5, <1>9, <1>10, Arrive

-----------------------------------------------------------------------------
(* Cursors. *)

WithCursor(W, u, o) == [W EXCEPT !.crtc[u].cursor = o]

LEMMA CursorIs ==
  ASSUME NEW W \in Displays, NEW u \in Units, NEW o \in Bufs \cup {None}
  PROVE  LET V == WithCursor(W, u, o) IN
         /\ V \in Displays /\ V.fb = W.fb /\ V.obj = W.obj /\ V.strm = W.strm
         /\ V.drv = W.drv /\ V.dev = W.dev /\ V.crtc[u].cursor = o
         /\ V.crtc[u].fb = W.crtc[u].fb /\ V.crtc[u].defined = W.crtc[u].defined
         /\ V.crtc[u].active = W.crtc[u].active
         /\ \A v \in Units \ {u} : V.crtc[v] = W.crtc[v]
<1> DEFINE c == [W.crtc[u] EXCEPT !.cursor = o]
           V == WithCrtc(W, u, c)
<1>1. /\ c \in CrtcType /\ c.cursor = o /\ c.fb = W.crtc[u].fb
      /\ c.defined = W.crtc[u].defined /\ c.active = W.crtc[u].active
  <2>1. W.crtc[u] \in CrtcType
    BY CrtcOf
  <2>2. QED
    BY <2>1 DEF CrtcType
<1>2. WithCursor(W, u, o) = V
  <2>1. [W EXCEPT !.crtc[u].cursor = o] = [W EXCEPT !.crtc = [W.crtc EXCEPT ![u] = c]]
    OBVIOUS
  <2> HIDE DEF c
  <2>2. QED
    BY <2>1, PartSet DEF WithCrtc, WithCursor
<1> HIDE DEF c
<1>3. /\ V \in Displays /\ V.fb = W.fb /\ V.obj = W.obj /\ V.strm = W.strm
      /\ V.drv = W.drv /\ V.dev = W.dev /\ V.crtc[u] = c
      /\ \A v \in Units \ {u} : V.crtc[v] = W.crtc[v]
  BY <1>1, CrtcSet
<1> HIDE DEF V
<1>4. QED
  BY <1>1, <1>2, <1>3

\* The crtcs with a cursor, when one of them takes another.
OnlyCrtc(W, V, u) == \A v \in Units \ {u} : V.crtc[v] = W.crtc[v]

LEMMA CursorCounts ==
  ASSUME NEW W, NEW V, NEW u \in Units, OnlyCrtc(W, V, u), NEW p
  PROVE  Cardinality(CursorsOf(V, p)) + If1(p = W.crtc[u].cursor)
           = Cardinality(CursorsOf(W, p)) + If1(p = V.crtc[u].cursor)
<1> DEFINE S == CursorsOf(W, p)
           T == CursorsOf(V, p)
           o == V.crtc[u].cursor
           c == W.crtc[u].cursor
<1>1. T \ {u} = S \ {u} /\ (u \in T <=> p = o) /\ (u \in S <=> p = c)
  BY DEF CursorsOf, OnlyCrtc
<1>2. IsFiniteSet(S) /\ IsFiniteSet(T) /\ Cardinality(S) \in Nat /\ Cardinality(T) \in Nat
  BY CountsAre
<1> HIDE DEF S, T
<1>3. CASE p = c /\ p = o
  <2>1. S = T
    BY <1>1, <1>3
  <2>2. QED
    BY <1>3, <2>1 DEF If1, S, T
<1>4. CASE p # c /\ p # o
  <2>1. S = T
    BY <1>1, <1>4
  <2>2. QED
    BY <1>4, <2>1 DEF If1, S, T
<1>5. CASE p = c /\ p # o
  <2>1. T = S \ {u} /\ u \in S
    BY <1>1, <1>5
  <2>2. Cardinality(T) = Cardinality(S) - 1
    BY <1>2, <2>1, CardLess
  <2>3. Cardinality(T) + 1 = Cardinality(S) + 0
    BY <1>2, <2>2
  <2>4. If1(p = c) = 1 /\ If1(p = o) = 0
    BY <1>5 DEF If1
  <2>5. QED
    BY <2>3, <2>4 DEF S, T
<1>6. CASE p # c /\ p = o
  <2>1. T = S \cup {u} /\ u \notin S
    BY <1>1, <1>6
  <2>2. Cardinality(T) = Cardinality(S) + 1
    BY <1>2, <2>1, CardMore
  <2>3. Cardinality(T) + 0 = Cardinality(S) + 1
    BY <1>2, <2>2
  <2>4. If1(p = c) = 0 /\ If1(p = o) = 1
    BY <1>6 DEF If1
  <2>5. QED
    BY <2>3, <2>4 DEF S, T
<1>7. QED
  BY <1>3, <1>4, <1>5, <1>6

\* The reference of the call becomes the cursor's, and the cursor's the call's.
LEMMA CursorKeeps ==
  ASSUME NEW W, NEW o \in Bufs \cup {None}, Sound(W, o), NEW u \in Units,
         NEW c, W.crtc[u].cursor = c
  PROVE  Sound(WithCursor(W, u, o), c)
<1> DEFINE V == WithCursor(W, u, o)
<1>1. /\ W \in Displays /\ Referenced(W, o) /\ Pins(W) /\ Shows(W) /\ StreamPinned(W)
      /\ (~W.drv.sou => Legacy(W))
  BY HeldParts DEF Sound
<1>2. /\ V \in Displays /\ V.fb = W.fb /\ V.obj = W.obj /\ V.strm = W.strm
      /\ V.drv = W.drv /\ V.dev = W.dev /\ V.crtc[u].cursor = o
      /\ V.crtc[u].fb = W.crtc[u].fb /\ V.crtc[u].defined = W.crtc[u].defined
      /\ V.crtc[u].active = W.crtc[u].active
      /\ \A v \in Units \ {u} : V.crtc[v] = W.crtc[v]
  BY <1>1, CursorIs
<1> HIDE DEF V
<1>3. ASSUME NEW p \in Things PROVE Counted(V, p, If1(p = c))
  <2>1. FbsOf(V, p) = FbsOf(W, p)
    BY <1>2 DEF FbsOf
  <2>2. Counted(W, p, If1(p = o))
    BY <1>1 DEF Referenced
  <2>3. Cardinality(CursorsOf(V, p)) + If1(p = c) = Cardinality(CursorsOf(W, p)) + If1(p = o)
    <3>1. W.crtc[u].cursor = c /\ V.crtc[u].cursor = o
      BY <1>2
    <3>2. OnlyCrtc(W, V, u)
      BY <1>2 DEF OnlyCrtc
    <3>3. QED
      BY <3>1, <3>2, CursorCounts
  <2> DEFINE a == If1(W.obj[p].base > 0)
             b == Cardinality(FbsOf(W, p))
             e == If1(W.strm.buf = p)
             d == Cardinality(CursorsOf(W, p))
             g == Cardinality(CursorsOf(V, p))
             i == If1(p = o)
             j == If1(p = c)
  <2>4. /\ a \in Nat /\ b \in Nat /\ e \in Nat /\ d \in Nat /\ g \in Nat /\ i \in Nat
        /\ j \in Nat
    BY CountsAre DEF If1
  <2>5. W.obj[p].refs = a + b + d + e + i /\ g + j = d + i
    BY <2>2, <2>3 DEF Counted
  <2>6. W.obj[p].refs = a + b + g + e + j
    <3> HIDE DEF a, b, d, e, g, i, j
    <3> QED
      BY <2>4, <2>5
  <2>7. QED
    BY <1>2, <2>1, <2>2, <2>6 DEF Counted
<1>4. \A v \in Units : /\ V.crtc[v].fb = W.crtc[v].fb /\ V.crtc[v].defined = W.crtc[v].defined
                       /\ V.crtc[v].active = W.crtc[v].active
  BY <1>2
<1>5. Referenced(V, c)
  BY <1>3 DEF Referenced
<1>6. Pins(V) /\ StreamPinned(V)
  BY <1>1, <1>2 DEF Pins, Streams, Scans, StreamPinned
<1>7. Shows(V)
  BY <1>1, <1>2, <1>4 DEF Shows
<1>8. ~V.drv.sou => Legacy(V)
  <2> SUFFICES ASSUME ~W.drv.sou PROVE Legacy(V)
    BY <1>2
  <2>1. Legacy(W)
    BY <1>1
  <2>2. /\ ~V.dev.hung
        /\ V.drv.fb # None => V.fb[V.drv.fb].live
        /\ V.drv.op.k # "moved" => (V.drv.fb = None <=> \A v \in Units : ~V.crtc[v].active)
    BY <1>2, <1>4, <2>1 DEF Legacy
  <2>3. V.drv.op.k \in {"none", "cleanup"} =>
          \A v \in Units : V.crtc[v].active => V.crtc[v].fb = V.drv.fb
    BY <1>2, <1>4, <2>1 DEF Legacy
  <2>4. V.drv.op.k \in {"paused", "moved"} =>
          /\ \A v \in Units : V.crtc[v].active => v = V.drv.op.u
          /\ V.crtc[V.drv.op.u].fb = V.drv.op.f
    <3> SUFFICES ASSUME V.drv.op.k \in {"paused", "moved"}
                 PROVE  /\ \A v \in Units : V.crtc[v].active => v = V.drv.op.u
                        /\ V.crtc[V.drv.op.u].fb = V.drv.op.f
      OBVIOUS
    <3>1. V.drv.op.u \in Units
      BY <1>2, DriverOf, MovingOp
    <3>2. QED
      BY <1>2, <1>4, <2>1, <3>1 DEF Legacy
  <2>5. V.drv.op.k = "moved" => V.drv.fb = V.drv.op.f /\ V.drv.op.ok
    BY <1>2, <2>1 DEF Legacy
  <2>6. QED
    BY <2>2, <2>3, <2>4, <2>5 DEF Legacy
<1>9. QED
  BY <1>2, <1>5, <1>6, <1>7, <1>8 DEF Sound, Held, V

\* The old cursor is given back before the new one is written down.
LEMMA CursorSwap ==
  ASSUME NEW W, NEW o \in Bufs \cup {None}, Sound(W, o), NEW u \in Units
  PROVE  LET V == WithCursor(K!Unref(W, W.crtc[u].cursor), u, o) IN
         Sound(V, None) /\ V.drv = W.drv
<1> DEFINE c == W.crtc[u].cursor
           X == WithCursor(W, u, o)
           Y == K!Unref(W, c)
           V == WithCursor(Y, u, o)
<1>1. W \in Displays /\ c \in Bufs \cup {None}
  BY SoundIn, CrtcOf
<1>2. Sound(X, c)
  BY CursorKeeps
<1>3. /\ X \in Displays /\ X.fb = W.fb /\ X.obj = W.obj /\ X.strm = W.strm
      /\ X.drv = W.drv /\ X.dev = W.dev /\ X.crtc[u].cursor = o
      /\ \A v \in Units \ {u} : X.crtc[v] = W.crtc[v]
  BY <1>1, CursorIs
<1>4. CASE c = None
  <2>1. Y = W
    BY <1>4 DEF K!Unref
  <2>2. V = X
    BY <2>1
  <2>3. QED
    BY <1>2, <1>3, <1>4, <2>2
<1>5. CASE c # None
  <2>1. c \in Things
    BY <1>1, <1>5, StreamOf
  <2> DEFINE r == W.obj[c]
  <2>2. Changed(W, Y, c, r.base, r.refs - 1, r.handle, IF r.refs = 1 THEN "no" ELSE r.ne)
    BY <1>1, <2>1, UnrefIs
  <2> HIDE DEF Y
  <2>3. X.crtc = [W.crtc EXCEPT ![u] = [W.crtc[u] EXCEPT !.cursor = o]]
    BY <1>1, DisplayParts DEF WithCursor
  <2>4. Y \in Displays /\ Y.crtc = W.crtc /\ Y.fb = W.fb /\ Y.strm = W.strm /\ Y.drv = W.drv
        /\ Y.dev = W.dev /\ \A p \in Things \ {c} : Y.obj[p] = W.obj[p]
    BY <2>2 DEF Changed, OnlyThing
  <2> HIDE DEF c, X, Y
  <2>5. /\ V \in Displays /\ V.fb = Y.fb /\ V.obj = Y.obj /\ V.strm = Y.strm
        /\ V.drv = Y.drv /\ V.dev = Y.dev
    BY <2>4, CursorIs
  <2>6. V.crtc = X.crtc
    BY <2>3, <2>4, DisplayParts DEF WithCursor
  <2> HIDE DEF V
  <2>7. Changed(X, V, c, X.obj[c].base, X.obj[c].refs - 1, X.obj[c].handle,
                IF X.obj[c].refs = 1 THEN "no" ELSE X.obj[c].ne)
    BY <1>3, <2>2, <2>4, <2>5, <2>6 DEF Changed, OnlyThing
  <2>8. Sound(V, None)
    BY <1>2, <2>1, <2>7, UnrefLike
  <2>9. QED
    BY <2>4, <2>5, <2>8 DEF V, Y, c
<1>6. QED
  BY <1>4, <1>5

CursorSets(W, x, u, o) == [K!Unref(x, W.crtc[u].cursor) EXCEPT !.crtc[u].cursor = o]

LEMMA CursorSetIs ==
  ASSUME NEW W, NEW file, NEW u, NEW o, NEW i \in K!CursorSet(W, file, u, o), i.ok
  PROVE  \E X : /\ X = (IF o = None THEN W ELSE K!Ref(W, o))
                /\ i.w = CursorSets(W, X, u, o)
<1> DEFINE N == IF o = None THEN {K!Ok(W)} ELSE K!vmw_user_lookup_handle(W, file, o)
<1>1. i \in UNION {IF m.ok THEN {K!Ok(CursorSets(W, m.w, u, o))} ELSE {m} : m \in N}
  BY Zenon DEF K!CursorSet, K!Then, CursorSets
<1>2. PICK m \in N : i \in (IF m.ok THEN {K!Ok(CursorSets(W, m.w, u, o))} ELSE {m})
  BY <1>1
<1>3. m.ok /\ i = K!Ok(CursorSets(W, m.w, u, o))
  BY <1>2
<1>4. m.w = (IF o = None THEN W ELSE K!Ref(W, o))
  <2>1. CASE o = None
    <3>1. m = K!Ok(W)
      BY <2>1
    <3>2. QED
      BY <2>1, <3>1, Outcomes
  <2>2. CASE o # None
    <3> DEFINE X == K!Ref(W, o)
    <3>1. m = K!Ok(X) \/ m = K!Failed(W)
      BY <2>2 DEF K!vmw_user_lookup_handle
    <3> HIDE DEF X
    <3>2. m.w = X
      BY <1>3, <3>1, Outcomes
    <3>3. QED
      BY <2>2, <3>2 DEF X
  <2>3. QED
    BY <2>1, <2>2
<1>5. i.w = CursorSets(W, m.w, u, o)
  BY <1>3, Outcomes
<1>6. QED
  BY <1>4, <1>5

LEMMA CursorStep ==
  ASSUME NEW file \in KFiles, NEW u \in Units, Display(K!World),
         K!drm_mode_cursor_ioctl(file, u)
  PROVE  Display(K!World')
<1> DEFINE W == K!World
<1>1. Sound(W, None) /\ W.drv.op.k = "none"
  BY WorldIs DEF Display, K!drm_mode_cursor_ioctl, K!Unlocked
<1>2. PICK o \in Bufs \cup {None} :
        \E i \in K!CursorSet(W, file, u, o) : i.ok /\ K!Become(i.w)
  BY DEF K!drm_mode_cursor_ioctl
<1> HIDE DEF W
<1>3. PICK i \in K!CursorSet(W, file, u, o) : i.ok /\ K!Become(i.w)
  BY <1>2
<1>4. PICK X : /\ X = (IF o = None THEN W ELSE K!Ref(W, o))
               /\ i.w = CursorSets(W, X, u, o)
  BY <1>3, CursorSetIs
<1>5. Sound(X, o) /\ X.crtc = W.crtc /\ X.drv = W.drv
  <2>1. CASE o = None
    BY <1>1, <1>4, <2>1
  <2>2. CASE o # None
    <3>1. W \in Displays /\ o \in Things /\ X = K!Ref(W, o)
      BY <1>1, <1>4, <2>2, SoundIn, StreamOf
    <3>2. Sound(X, o)
      BY <1>1, <3>1, RefKeeps
    <3>3. X.crtc = W.crtc /\ X.drv = W.drv
      BY <3>1, RefIs DEF Changed, OnlyThing
    <3>4. QED
      BY <3>2, <3>3
  <2>3. QED
    BY <2>1, <2>2
<1>6. i.w = WithCursor(K!Unref(X, X.crtc[u].cursor), u, o)
  BY <1>4, <1>5 DEF CursorSets, WithCursor
<1>7. Sound(i.w, None) /\ i.w.drv = X.drv
  BY <1>5, <1>6, CursorSwap
<1>8. Cleaned(i.w)
  BY <1>1, <1>5, <1>7, NotCleaning
<1>9. QED
  BY <1>3, <1>7, <1>8, Arrive

-----------------------------------------------------------------------------
(* The display through all its steps. *)

LEMMA KmsStart ==
  ASSUME K!KmsInit
  PROVE  Display(K!World)
<1> DEFINE W == K!World
<1>1. PICK S \in SUBSET Bufs :
        kobj = [o \in Things |-> [surface |-> o \in S, refs |-> 0, base |-> 0,
                                  handle |-> None, ne |-> "no"]]
  BY ObjsIs DEF K!KmsInit
<1>2. PICK sou \in BOOLEAN, con \in BOOLEAN :
        kdrv = [sou |-> sou, fb |-> None, con |-> con, on |-> con, ne |-> con, op |-> K!NoOp]
  BY DEF K!KmsInit
<1>3. /\ kfb = [f \in Fbs |-> K!NoFb] /\ kcrtc = [u \in Units |-> K!NoCrtc]
      /\ kstrm = K!NoStream
      /\ kdev = [screen |-> [u \in Units |-> None], shown |-> {}, stream |-> None, hung |-> FALSE]
  BY DEF K!KmsInit
<1>4. /\ W.fb = kfb /\ W.crtc = kcrtc /\ W.obj = kobj /\ W.strm = kstrm
      /\ W.drv = kdrv /\ W.dev = kdev
  BY WorldIs
<1>5. W = [fb |-> kfb, crtc |-> kcrtc, obj |-> kobj, strm |-> kstrm, drv |-> kdrv,
           dev |-> kdev]
  BY DEF K!World
<1> HIDE DEF W
<1>6. W \in Displays
  <2>1. kfb \in [Fbs -> FbType]
    BY <1>3 DEF K!NoFb, FbType
  <2>2. kcrtc \in [Units -> CrtcType]
    BY <1>3 DEF K!NoCrtc, CrtcType
  <2>3. kobj \in [Things -> ThingType]
    <3>1. ASSUME NEW o \in Things
          PROVE  [surface |-> o \in S, refs |-> 0, base |-> 0, handle |-> None, ne |-> "no"]
                   \in ThingType
      <4> DEFINE s == o \in S
      <4>1. s \in BOOLEAN
        OBVIOUS
      <4> HIDE DEF s
      <4>2. QED
        BY <4>1 DEF ThingType
    <3>2. QED
      BY <1>1, <3>1
  <2>4. kstrm \in StreamType
    BY <1>3 DEF K!NoStream, StreamType
  <2>5. kdrv \in DriverType
    BY <1>2, NoOpIs DEF DriverType
  <2>6. kdev \in DisplayType
    BY <1>3 DEF DisplayType
  <2>7. QED
    BY <1>5, <2>1, <2>2, <2>3, <2>4, <2>5, <2>6 DEF Displays
<1>7. Referenced(W, None)
  <2> SUFFICES ASSUME NEW o \in Things PROVE Counted(W, o, If1(o = None))
    BY DEF Referenced
  <2>1. o # None
    BY <1>6, StreamOf
  <2>2. FbsOf(W, o) = {}
    BY <1>3, <1>4 DEF FbsOf, K!NoFb
  <2>3. CursorsOf(W, o) = {}
    BY <1>3, <1>4, <2>1 DEF CursorsOf, K!NoCrtc
  <2>4. Cardinality(FbsOf(W, o)) = 0 /\ Cardinality(CursorsOf(W, o)) = 0
    BY <2>2, <2>3, FS_EmptySet
  <2>5. W.obj[o].refs = 0 /\ W.obj[o].base = 0 /\ W.obj[o].handle = None
    BY <1>1, <1>4
  <2>6. W.strm.buf = None
    BY <1>3, <1>4 DEF K!NoStream
  <2>7. QED
    BY <2>1, <2>4, <2>5, <2>6 DEF Counted, If1
<1>8. Pins(W) /\ StreamPinned(W)
  <2>1. \A o \in Things : W.obj[o].ne = "no"
    BY <1>1, <1>4
  <2>2. W.dev.stream = None /\ ~W.strm.paused /\ W.strm.buf = None
    BY <1>3, <1>4 DEF K!NoStream
  <2>3. W.drv.ne = W.drv.on
    BY <1>2, <1>4
  <2>4. QED
    BY <2>1, <2>2, <2>3 DEF Pins, StreamPinned
<1>9. W.drv.op.k = "none" /\ W.drv.fb = None /\ ~W.dev.hung
  BY <1>2, <1>3, <1>4, NoOpIs
<1>10. \A u \in Units : /\ W.crtc[u].fb = None /\ ~W.crtc[u].active /\ ~W.crtc[u].defined
                        /\ W.dev.screen[u] = None
  BY <1>3, <1>4 DEF K!NoCrtc
<1>11. \A f \in Fbs : ~W.fb[f].live
  BY <1>3, <1>4 DEF K!NoFb
<1>12. Shows(W)
  BY <1>9, <1>10, <1>11 DEF Shows
<1>13. Legacy(W)
  BY <1>9, <1>10 DEF Legacy
<1>14. Sound(W, None)
  BY <1>6, <1>7, <1>8, <1>12, <1>13 DEF Sound, Held
<1>15. Cleaned(W)
  BY <1>9, NotCleaning
<1>16. QED
  BY <1>14, <1>15 DEF Display, W

LEMMA KmsStep ==
  ASSUME Apart, Display(K!World), K!KmsNext
  PROVE  Display(K!World')
<1>1. ASSUME NEW file \in KFiles, NEW o \in K!Objs,
             K!Create(file, o) \/ K!vmw_dumb_destroy(file, o)
      PROVE  Display(K!World')
  BY <1>1, ObjsIs, CreateKeeps, DestroyedHandle
<1>2. ASSUME NEW file \in KFiles,
             \/ K!drm_mode_addfb(file) \/ K!drm_mode_rmfb(file)
             \/ K!vmw_stream_claim_ioctl(file) \/ K!vmw_overlay_ioctl(file)
             \/ K!vmw_stream_unref_ioctl(file) \/ K!drm_fb_release(file)
      PROVE  Display(K!World')
  BY <1>2, AddfbStep, RmfbStep, ClaimStep, OverlayStep, UnrefStep, ReleaseStep
<1>3. ASSUME NEW file \in KFiles, NEW u \in Units,
             K!drm_mode_page_flip_ioctl(file, u) \/ K!drm_mode_cursor_ioctl(file, u)
      PROVE  Display(K!World')
  BY <1>3, FlipStep, CursorStep
<1>4. ASSUME NEW u \in Units, K!drm_mode_setcrtc(u)
      PROVE  Display(K!World')
  BY <1>4, SetcrtcStep
<1>5. CASE K!MoveForMode
  BY <1>5, MoveStep
<1>6. CASE K!ModeMoved
  BY <1>6, MovedStep
<1>7. CASE K!drm_framebuffer_cleanup
  BY <1>7, CleanupStep
<1>8. CASE K!FbRemoved
  BY <1>8, FbRemovedStep
<1>9. CASE K!ConsoleOn
  BY <1>9, ConsoleStep
<1>10. QED
  BY <1>1, <1>2, <1>3, <1>4, <1>5, <1>6, <1>7, <1>8, <1>9 DEF K!KmsNext

LEMMA KmsSame ==
  ASSUME Display(K!World), UNCHANGED kmsVars
  PROVE  Display(K!World')
<1>1. K!World' = K!World
  BY DEF kmsVars, K!World
<1>2. QED
  BY <1>1

LEMMA DisplayHeld ==
  ASSUME Display(K!World)
  PROVE  K!ShownIsHeld
<1> DEFINE W == K!World
<1>1. /\ W \in Displays /\ Referenced(W, None) /\ Pins(W) /\ Shows(W)
      /\ (~W.drv.sou => Legacy(W))
  BY HeldParts DEF Display, Sound
<1>2. /\ W.fb = kfb /\ W.crtc = kcrtc /\ W.obj = kobj /\ W.strm = kstrm
      /\ W.drv = kdrv /\ W.dev = kdev
  BY WorldIs
<1> HIDE DEF W
<1>3. K!RefsAreUses
  <2>1. ASSUME NEW o \in Things
        PROVE  /\ kobj[o].base = (IF kobj[o].handle # None THEN 1 ELSE 0)
                        + K!Count({f \in Fbs : kfb[f].live /\ kfb[f].obj = o})
               /\ kobj[o].refs = (IF kobj[o].base > 0 THEN 1 ELSE 0)
                        + K!Count({f \in Fbs : kfb[f].live /\ kfb[f].obj = o})
                        + K!Count({u \in Units : kcrtc[u].cursor = o})
                        + (IF kstrm.buf = o THEN 1 ELSE 0)
    <3>1. Counted(W, o, 0)
      BY <1>1, StreamOf DEF Referenced, If1
    <3>2. /\ K!Count({f \in Fbs : kfb[f].live /\ kfb[f].obj = o}) = Cardinality(FbsOf(W, o))
          /\ K!Count({u \in Units : kcrtc[u].cursor = o}) = Cardinality(CursorsOf(W, o))
      <4>1. {f \in Fbs : kfb[f].live /\ kfb[f].obj = o} = FbsOf(W, o)
        BY <1>2 DEF FbsOf
      <4>2. {u \in Units : kcrtc[u].cursor = o} = CursorsOf(W, o)
        BY <1>2 DEF CursorsOf
      <4>3. ASSUME NEW S PROVE K!Count(S) = Cardinality(S)
        BY DEF K!Count, K!Cardinality, Cardinality
      <4> DEFINE A == {f \in Fbs : kfb[f].live /\ kfb[f].obj = o}
                 C == {u \in Units : kcrtc[u].cursor = o}
      <4>4. A = FbsOf(W, o) /\ C = CursorsOf(W, o)
        BY <4>1, <4>2
      <4>5. K!Count(A) = Cardinality(A) /\ K!Count(C) = Cardinality(C)
        BY <4>3
      <4>6. K!Count(A) = Cardinality(FbsOf(W, o)) /\ K!Count(C) = Cardinality(CursorsOf(W, o))
        <5> HIDE DEF A, C
        <5>1. QED
          BY <4>4, <4>5
      <4>7. QED
        BY <4>6
    <3> DEFINE c == Cardinality(FbsOf(W, o))
               d == Cardinality(CursorsOf(W, o))
    <3>3. c \in Nat /\ d \in Nat
      BY CountsAre
    <3>4. /\ kobj[o].base = If1(kobj[o].handle # None) + c
          /\ kobj[o].refs = If1(kobj[o].base > 0) + c + d + If1(kstrm.buf = o) + 0
      BY <1>2, <3>1 DEF Counted
    <3> HIDE DEF c, d
    <3>5. /\ kobj[o].base = (IF kobj[o].handle # None THEN 1 ELSE 0) + c
          /\ kobj[o].refs = (IF kobj[o].base > 0 THEN 1 ELSE 0) + c + d
                              + (IF kstrm.buf = o THEN 1 ELSE 0)
      BY <3>3, <3>4 DEF If1
    <3>6. QED
      BY <3>2, <3>5 DEF c, d
  <2>2. QED
    BY <2>1, ObjsIs DEF K!RefsAreUses
<1>4. K!ScanoutIsLive
  <2>1. \A u \in Units : kcrtc[u].fb # None => kfb[kcrtc[u].fb].live \/ kdev.hung
    BY <1>1, <1>2 DEF Shows
  <2>2. \A u \in Units : kdev.screen[u] # "freed"
    BY <1>1, <1>2, KmsAssumption DEF Shows
  <2>3. ~kdrv.sou /\ kdrv.fb # None => kfb[kdrv.fb].live
    BY <1>1, <1>2 DEF Legacy
  <2>4. ASSUME ~kdrv.sou, K!Unlocked
        PROVE  /\ kdrv.fb = None <=> K!ActiveLdu(K!World) = {}
               /\ \A u \in Units : kcrtc[u].active => kcrtc[u].fb = kdrv.fb
    <3>1. Legacy(W) /\ W.drv.op.k = "none"
      BY <1>1, <1>2, <2>4 DEF K!Unlocked
    <3>2. /\ kdrv.fb = None <=> \A u \in Units : ~kcrtc[u].active
          /\ \A u \in Units : kcrtc[u].active => kcrtc[u].fb = kdrv.fb
      BY <1>2, <3>1 DEF Legacy
    <3>3. K!ActiveLdu(K!World) = {u \in Units : kcrtc[u].active}
      BY WorldIs DEF K!ActiveLdu
    <3>4. QED
      BY <3>2, <3>3
  <2>5. QED
    BY <2>1, <2>2, <2>3, <2>4 DEF K!ScanoutIsLive
<1>5. K!PinsAreUses
  <2>1. kdev.stream # None => kdev.stream = kstrm.buf /\ kobj[kstrm.buf].ne # "no"
    BY <1>1, <1>2 DEF Pins
  <2>2. kdrv.ne <=> kdrv.on
    BY <1>1, <1>2 DEF Pins
  <2>3. ASSUME NEW o \in Things, kobj[o].ne # "no"
        PROVE  \/ kstrm.buf = o /\ ~kstrm.paused
               \/ ~kdrv.sou /\ kdrv.fb # None /\ kfb[kdrv.fb].obj = o
    BY <1>1, <1>2, <2>3 DEF Pins, Streams, Scans
  <2>4. QED
    BY <2>1, <2>2, <2>3, ObjsIs DEF K!PinsAreUses
<1>6. QED
  BY <1>3, <1>4, <1>5 DEF K!ShownIsHeld

(* Whatever is shown is held: the counts of a buffer are its uses by       *)
(* handles, framebuffers, cursors and the stream; a crtc and the legacy    *)
(* units show framebuffers that live (drm_framebuffer_cleanup turns crtcs  *)
(* off one by one), unless the device locked up; no screen shows memory    *)
(* that was freed; the stream's buffer is pinned, and nothing is pinned    *)
(* that neither the stream nor the legacy framebuffer needs                *)
(* (vmw_framebuffer_pin, vmw_overlay_stop).  The buffers of overlays are   *)
(* not those of framebuffers: a buffer that is both is unpinned by the one *)
(* while the other needs it.                                               *)
THEOREM ShownHolds == ASSUME Bufs \cap Videos = {} PROVE Spec => []ShownIsHeld
<1> DEFINE Inv == part = "kms" => Display(K!World)
<1>1. Init => Inv
  BY KmsStart DEF Init
<1>2. Inv /\ [Next]_vars => Inv'
  <2> SUFFICES ASSUME Inv, [Next]_vars, part' = "kms"
               PROVE  Display(K!World')
    BY DEF K!World
  <2>1. part = "kms" /\ (K!KmsNext \/ UNCHANGED kmsVars)
    BY Zenon DEF Next, vars
  <2>2. Apart
    BY DEF Apart
  <2>3. QED
    BY <2>1, <2>2, KmsStep, KmsSame
<1>3. Inv => ShownIsHeld
  BY DisplayHeld DEF ShownIsHeld
<1>4. QED
  BY <1>1, <1>2, <1>3, PTL DEF Spec
=============================================================================
