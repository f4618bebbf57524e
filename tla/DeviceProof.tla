----------------------------- MODULE DeviceProof ------------------------------
(***************************************************************************)
(* Proofs about the parts that MCDevice puts side by side.                 *)
(*                                                                         *)
(* Files, masters and power (VmwMaster).  A handler there maps a world to  *)
(* the worlds it may end in, so that the invariant is a predicate of a     *)
(* world: each handler's lemma takes a world where the invariant holds to  *)
(* one where it holds again, and no lemma about a handler has a prime.     *)
(*                                                                         *)
(* Damage and present (VmwBlit).  The geometry of the clipping is proved   *)
(* as lemmas about rectangles and pixels, without a state; the invariant   *)
(* says of the units visited so far that they show what was asked.         *)
(***************************************************************************)
EXTENDS MCDevice, Sequences, FiniteSetTheorems, TLAPS

Owners == Masters \cup {NoMaster}

FileType ==
  [pc : {"closed", "idle", "drop", "closedrop", "close", "read", "in", "killed"},
   master : Owners, is_master : BOOLEAN, authenticated : BOOLEAN, magic : BOOLEAN,
   locked : Owners, res : {"none", "hw", "evicted"}]

MasterType ==
  [refcount : Int, kill : BOOLEAN, vt : Files \cup {NoFile}, readers : SUBSET Files,
   magiclist : SUBSET Files]

DeviceType ==
  [enable_fb : BOOLEAN, has_mob : BOOLEAN, minor : Owners, active : Masters \cup {Fbdev},
   n3d : Int, fifo : BOOLEAN, hidden : BOOLEAN,
   pm : {"on", "failed", "resumed", "prepare", "suspended", "asleep", "complete"},
   open_count : Int, is_opened : BOOLEAN, global : Files \cup {NoFile}, bug : BOOLEAN,
   group : SUBSET Files]

MastersType == [Masters \cup {Fbdev} -> MasterType]

Worlds == [f : [Files -> FileType], m : MastersType, d : DeviceType]

One(P) == IF P THEN 1 ELSE 0
Under(W, m) == {g \in Files : W.f[g].master = m}
LockOn(W, m) == {g \in Files : W.f[g].locked = m}
OnDevice(W) == {g \in Files : W.f[g].res = "hw"}

\* A file waits for the lock of the master it gives up.
Dropping(r) == r.pc \in {"drop", "closedrop"}

\* What a file knows of its master, whatever the other files do.
FileOK(r, f, d) ==
  /\ r.pc = "closed" => r = M!NewFile
  /\ r.pc # "closed" => (r.master = NoMaster <=> f \in Render)
  /\ r.pc = "read" \/ r.magic => r.master # NoMaster
  /\ r.is_master => r.master = d.minor /\ d.minor # NoMaster
  /\ r.is_master => r.locked = (IF Dropping(r) THEN r.master ELSE NoMaster) \/ d.bug
  /\ Dropping(r) => r.is_master /\ r.locked = r.master

OwnersOK(W) ==
  /\ W.d.active = (IF W.d.minor = NoMaster THEN Fbdev ELSE W.d.minor)
  /\ \A f \in Files : FileOK(W.f[f], f, W.d)
  /\ \A f, g \in Files : W.f[f].is_master /\ W.f[g].is_master => f = g

Refs(W) ==
  \A m \in Masters : W.m[m].refcount = One(W.d.minor = m) + Cardinality(Under(W, m))
                                         + Cardinality(LockOn(W, m))

\* A magic is in the list of the master that its file is under.
Listed(r, m) == r.master = m /\ r.magic /\ r.pc \notin {"closed", "closedrop", "close"}

Magics(W) ==
  \A m \in Masters : W.m[m].refcount > 0 => \A g \in W.m[m].magiclist : Listed(W.f[g], m)

\* The lock of a master that is not the active one is taken or kills who takes it.
Shut(q) == q.refcount > 0 => q.kill \/ q.vt # NoFile

\* A client is in an ioctl that its master's lock lets in.
Inside(r) == r.pc = "in" /\ r.master # NoMaster /\ ~r.is_master

Clients(W) ==
  /\ \A f \in Files : Inside(W.f[f]) => f \in W.m[W.f[f].master].readers
  /\ \A m \in Masters : W.d.active # m => W.m[m].readers = {} /\ Shut(W.m[m])

\* The fbdev counts for one outside of suspend, and a master where there is none.
Counting(d) ==
  IF d.enable_fb THEN One(d.pm \notin {"suspended", "asleep", "complete"})
  ELSE One(d.active # Fbdev)

Counted(d) == d.fifo <=> d.n3d > 0

ThreeD(W) ==
  /\ W.d.n3d = Cardinality(OnDevice(W)) + Counting(W.d)
  /\ Counted(W.d)
  /\ W.d.active # Fbdev \/ W.d.enable_fb => ~W.d.hidden

-----------------------------------------------------------------------------
(* The operators that handlers are built from, by what they change. *)

\* What no change to the 3D count touches.
SameRest(d, e) ==
  /\ e.enable_fb = d.enable_fb /\ e.has_mob = d.has_mob /\ e.minor = d.minor
  /\ e.active = d.active /\ e.pm = d.pm /\ e.global = d.global /\ e.group = d.group
  /\ e.open_count = d.open_count /\ e.is_opened = d.is_opened
  /\ (d.bug => e.bug)

\* Each part of a world changes alone.
LEMMA SetD ==
  ASSUME NEW W \in Worlds, NEW d \in DeviceType
  PROVE  LET V == [W EXCEPT !.d = d] IN V \in Worlds /\ V.f = W.f /\ V.m = W.m /\ V.d = d
  BY DEF Worlds

LEMMA SetM ==
  ASSUME NEW W \in Worlds, NEW m \in MastersType
  PROVE  LET V == [W EXCEPT !.m = m] IN V \in Worlds /\ V.f = W.f /\ V.d = W.d /\ V.m = m
  BY DEF Worlds

LEMMA SetF ==
  ASSUME NEW W \in Worlds, NEW f \in [Files -> FileType]
  PROVE  LET V == [W EXCEPT !.f = f] IN V \in Worlds /\ V.m = W.m /\ V.d = W.d /\ V.f = f
  BY DEF Worlds

LEMMA Parts ==
  ASSUME NEW W \in Worlds
  PROVE  W.f \in [Files -> FileType] /\ W.m \in MastersType /\ W.d \in DeviceType
  BY DEF Worlds

\* One more on the device, or none where it does not start.
Counts(W, i, unhide, site) ==
  /\ i.w \in Worlds /\ i.ok \in BOOLEAN
  /\ i.w.f = W.f /\ i.w.m = W.m /\ SameRest(W.d, i.w.d)
  /\ i.ok => i.w.d.n3d = W.d.n3d + 1
  /\ ~i.ok => i.w = W /\ site \in Faults
  /\ Counted(W.d) => Counted(i.w.d)
  /\ i.w.d.hidden => W.d.hidden /\ ~(i.ok /\ unhide)

LEMMA Inc3d ==
  ASSUME NEW W \in Worlds, NEW unhide \in BOOLEAN, NEW site,
         NEW i \in M!vmw_3d_resource_inc(W, unhide, site)
  PROVE  Counts(W, i, unhide, site)
<1> DEFINE W1 == [W EXCEPT !.d.n3d = @ + 1]
           dA == [W.d EXCEPT !.n3d = W.d.n3d + 1, !.fifo = TRUE, !.hidden = FALSE]
           dB == [W.d EXCEPT !.n3d = W.d.n3d + 1, !.hidden = W.d.hidden /\ ~unhide]
           Wa == [W EXCEPT !.d = dA]
           Wb == [W EXCEPT !.d = dB]
<1>0. W.d \in DeviceType /\ W.d.n3d \in Int
  BY DEF Worlds, DeviceType
<1>1. \/ W.d.n3d = 0 /\ i = [ok |-> TRUE, w |-> M!vmw_request_device(W1)]
      \/ W.d.n3d # 0 /\ i = [ok |-> TRUE, w |-> [W1 EXCEPT !.d.hidden = @ /\ ~unhide]]
      \/ i = [ok |-> FALSE, w |-> W] /\ site \in Faults
  BY DEF M!vmw_3d_resource_inc, M!Ok, M!Failed, M!MayFail
<1>2. M!vmw_request_device(W1) = Wa
  BY <1>0 DEF M!vmw_request_device, Worlds, DeviceType
<1>3. [W1 EXCEPT !.d.hidden = @ /\ ~unhide] = Wb
  BY <1>0 DEF Worlds, DeviceType
<1>4. (W.d.hidden /\ ~unhide) \in BOOLEAN /\ W.d.n3d + 1 \in Int
  BY <1>0
<1>5. dA \in DeviceType /\ dB \in DeviceType
  BY <1>0, <1>4 DEF DeviceType
<1>6. /\ Wa \in Worlds /\ Wa.f = W.f /\ Wa.m = W.m /\ Wa.d = dA
      /\ Wb \in Worlds /\ Wb.f = W.f /\ Wb.m = W.m /\ Wb.d = dB
  BY <1>5, SetD
<1>7. SameRest(W.d, dA) /\ SameRest(W.d, dB) /\ dA.bug = W.d.bug /\ dB.bug = W.d.bug
  BY <1>0 DEF DeviceType, SameRest
<1>8. /\ dA.n3d = W.d.n3d + 1 /\ dB.n3d = W.d.n3d + 1 /\ dA.fifo /\ ~dA.hidden
      /\ dB.fifo = W.d.fifo /\ dB.hidden = (W.d.hidden /\ ~unhide)
  BY <1>0 DEF DeviceType
<1> HIDE DEF dA, dB, Wa, Wb
<1>9. \/ i.ok = TRUE /\ i.w = Wa /\ W.d.n3d = 0
      \/ i.ok = TRUE /\ i.w = Wb /\ W.d.n3d # 0
      \/ i.ok = FALSE /\ i.w = W /\ site \in Faults
  <2> HIDE DEF W1
  <2> QED
    BY <1>1, <1>2, <1>3
<1>10. Counted(W.d) => (W.d.n3d = 0 => Counted(dA)) /\ (W.d.n3d # 0 => Counted(dB))
  BY <1>0, <1>8 DEF Counted
<1>11. QED
  BY <1>0, <1>6, <1>7, <1>8, <1>9, <1>10 DEF SameRest, Counts

\* One less.
LEMMA Dec3d ==
  ASSUME NEW W \in Worlds, NEW hide \in BOOLEAN
  PROVE  LET V == M!vmw_3d_resource_dec(W, hide) IN
         /\ V \in Worlds /\ V.f = W.f /\ V.m = W.m /\ SameRest(W.d, V.d)
         /\ V.d.n3d = W.d.n3d - 1
         /\ Counted(W.d) => Counted(V.d)
         /\ V.d.hidden => W.d.hidden \/ hide
<1> DEFINE bug == W.d.bug \/ W.d.n3d <= 0
           hidden == W.d.hidden \/ hide
           W1 == [W EXCEPT !.d.n3d = @ - 1, !.d.bug = @ \/ W.d.n3d <= 0]
           dA == [W.d EXCEPT !.n3d = W.d.n3d - 1, !.bug = bug, !.fifo = FALSE]
           dB == [W.d EXCEPT !.n3d = W.d.n3d - 1, !.bug = bug, !.hidden = hidden]
           Wa == [W EXCEPT !.d = dA]
           Wb == [W EXCEPT !.d = dB]
           V == M!vmw_3d_resource_dec(W, hide)
<1>0. W.d \in DeviceType /\ W.d.n3d \in Int /\ bug \in BOOLEAN /\ hidden \in BOOLEAN
  BY DEF Worlds, DeviceType
<1>1. W1 = [W EXCEPT !.d = [W.d EXCEPT !.n3d = W.d.n3d - 1, !.bug = bug]]
  BY <1>0 DEF Worlds, DeviceType
<1>2. M!vmw_release_device(W1) = Wa
  BY <1>0, <1>1 DEF M!vmw_release_device, Worlds, DeviceType
<1>3. [W1 EXCEPT !.d.hidden = @ \/ hide] = Wb
  BY <1>0, <1>1 DEF Worlds, DeviceType
<1>4. W.d.n3d - 1 \in Int
  BY <1>0
<1>5. dA \in DeviceType /\ dB \in DeviceType
  <2> HIDE DEF bug, hidden
  <2> QED
    BY <1>0, <1>4 DEF DeviceType
<1>6. /\ Wa \in Worlds /\ Wa.f = W.f /\ Wa.m = W.m /\ Wa.d = dA
      /\ Wb \in Worlds /\ Wb.f = W.f /\ Wb.m = W.m /\ Wb.d = dB
  BY <1>5, SetD
<1>7. SameRest(W.d, dA) /\ SameRest(W.d, dB)
  BY <1>0 DEF DeviceType, SameRest
<1>8. /\ dA.n3d = W.d.n3d - 1 /\ dB.n3d = W.d.n3d - 1 /\ ~dA.fifo /\ dA.hidden = W.d.hidden
      /\ dB.fifo = W.d.fifo /\ dB.hidden = hidden
  BY <1>0 DEF DeviceType
<1>9. IF W.d.n3d = 1 THEN V = Wa ELSE V = Wb
  BY <1>2, <1>3 DEF M!vmw_3d_resource_dec
<1> HIDE DEF dA, dB, Wa, Wb, V
<1>10. Counted(W.d) => (W.d.n3d = 1 => Counted(dA)) /\ (W.d.n3d # 1 => Counted(dB))
  BY <1>0, <1>8 DEF Counted
<1>11. QED
  BY <1>6, <1>7, <1>8, <1>9, <1>10 DEF V

\* V is W but for the record of m.
OnlyMaster(W, V, m) ==
  /\ V \in Worlds /\ V.f = W.f /\ V.d = W.d
  /\ \A k \in (Masters \cup {Fbdev}) \ {m} : V.m[k] = W.m[k]

\* V is W but for the record of f.
OnlyFile(W, V, f) ==
  /\ V \in Worlds /\ V.m = W.m /\ V.d = W.d
  /\ \A g \in Files \ {f} : V.f[g] = W.f[g]

LEMMA SetMaster ==
  ASSUME NEW W \in Worlds, NEW m \in Masters \cup {Fbdev}, NEW q \in MasterType
  PROVE  LET V == [W EXCEPT !.m = [W.m EXCEPT ![m] = q]] IN OnlyMaster(W, V, m) /\ V.m[m] = q
<1> DEFINE V == [W EXCEPT !.m = [W.m EXCEPT ![m] = q]]
<1>1. [W.m EXCEPT ![m] = q] \in MastersType
  BY Parts DEF MastersType
<1>2. V \in Worlds /\ V.f = W.f /\ V.d = W.d /\ V.m = [W.m EXCEPT ![m] = q]
  BY <1>1, SetM
<1>3. V.m[m] = q /\ \A k \in (Masters \cup {Fbdev}) \ {m} : V.m[k] = W.m[k]
  <2> HIDE DEF V
  <2> QED
    BY <1>2, Parts DEF MastersType
<1>4. QED
  BY <1>2, <1>3 DEF OnlyMaster

LEMMA SetFile ==
  ASSUME NEW W \in Worlds, NEW f \in Files, NEW r \in FileType
  PROVE  LET V == [W EXCEPT !.f = [W.f EXCEPT ![f] = r]] IN OnlyFile(W, V, f) /\ V.f[f] = r
<1>1. [W.f EXCEPT ![f] = r] \in [Files -> FileType]
  BY Parts
<1>2. QED
  BY <1>1, SetF, Parts DEF OnlyFile

\* What the operators on one master do to it.
LEMMA RecordOf ==
  ASSUME NEW W \in Worlds, NEW m \in Masters \cup {Fbdev}
  PROVE  W.m[m] \in MasterType /\ W.m[m].refcount \in Int
<1>1. W.m[m] \in MasterType
  BY Parts DEF MastersType
<1>2. QED
  BY <1>1 DEF MasterType

LEMMA GetIs ==
  ASSUME NEW W \in Worlds, NEW m \in Masters \cup {Fbdev}
  PROVE  LET V == M!drm_master_get(W, m) IN
         V \in Worlds /\ OnlyMaster(W, V, m) /\ V.m[m] = [W.m[m] EXCEPT !.refcount = W.m[m].refcount + 1]
<1> DEFINE q == [W.m[m] EXCEPT !.refcount = W.m[m].refcount + 1]
<1>1. q \in MasterType
  BY RecordOf DEF MasterType
<1>2. M!drm_master_get(W, m) = [W EXCEPT !.m = [W.m EXCEPT ![m] = q]]
  BY DEF M!drm_master_get
<1> HIDE DEF q
<1>3. LET V == [W EXCEPT !.m = [W.m EXCEPT ![m] = q]] IN OnlyMaster(W, V, m) /\ V.m[m] = q
  BY <1>1, SetMaster
<1>4. QED
  BY <1>2, <1>3 DEF OnlyMaster, q

LEMMA PutIs ==
  ASSUME NEW W \in Worlds, NEW m \in Masters \cup {Fbdev}
  PROVE  LET V == M!drm_master_put(W, m) IN
         V \in Worlds /\ OnlyMaster(W, V, m) /\ V.m[m] = [W.m[m] EXCEPT !.refcount = W.m[m].refcount - 1]
<1> DEFINE q == [W.m[m] EXCEPT !.refcount = W.m[m].refcount - 1]
<1>1. q \in MasterType
  BY RecordOf DEF MasterType
<1>2. M!drm_master_put(W, m) = [W EXCEPT !.m = [W.m EXCEPT ![m] = q]]
  BY DEF M!drm_master_put
<1> HIDE DEF q
<1>3. LET V == [W EXCEPT !.m = [W.m EXCEPT ![m] = q]] IN OnlyMaster(W, V, m) /\ V.m[m] = q
  BY <1>1, SetMaster
<1>4. QED
  BY <1>2, <1>3 DEF OnlyMaster, q

LEMMA VtLockIs ==
  ASSUME NEW W \in Worlds, NEW m \in Masters \cup {Fbdev}, NEW f \in Files
  PROVE  LET V == M!ttm_vt_lock(W, m, f) IN
         V \in Worlds /\ OnlyMaster(W, V, m) /\ V.m[m] = [W.m[m] EXCEPT !.vt = f]
<1> DEFINE q == [W.m[m] EXCEPT !.vt = f]
<1>1. q \in MasterType
  BY RecordOf DEF MasterType
<1>2. M!ttm_vt_lock(W, m, f) = [W EXCEPT !.m = [W.m EXCEPT ![m] = q]]
  BY DEF M!ttm_vt_lock
<1> HIDE DEF q
<1>3. LET V == [W EXCEPT !.m = [W.m EXCEPT ![m] = q]] IN OnlyMaster(W, V, m) /\ V.m[m] = q
  BY <1>1, SetMaster
<1>4. QED
  BY <1>2, <1>3 DEF OnlyMaster, q

LEMMA VtUnlockIs ==
  ASSUME NEW W \in Worlds, NEW m \in Masters \cup {Fbdev}
  PROVE  LET V == M!ttm_vt_unlock(W, m) IN
         V \in Worlds /\ OnlyMaster(W, V, m) /\ V.m[m] = [W.m[m] EXCEPT !.vt = NoFile]
<1> DEFINE q == [W.m[m] EXCEPT !.vt = NoFile]
<1>1. q \in MasterType
  BY RecordOf DEF MasterType
<1>2. M!ttm_vt_unlock(W, m) = [W EXCEPT !.m = [W.m EXCEPT ![m] = q]]
  BY DEF M!ttm_vt_unlock
<1> HIDE DEF q
<1>3. LET V == [W EXCEPT !.m = [W.m EXCEPT ![m] = q]] IN OnlyMaster(W, V, m) /\ V.m[m] = q
  BY <1>1, SetMaster
<1>4. QED
  BY <1>2, <1>3 DEF OnlyMaster, q

LEMMA KillIs ==
  ASSUME NEW W \in Worlds, NEW m \in Masters \cup {Fbdev}, NEW b \in BOOLEAN
  PROVE  LET V == M!ttm_lock_set_kill(W, m, b) IN
         V \in Worlds /\ OnlyMaster(W, V, m) /\ V.m[m] = [W.m[m] EXCEPT !.kill = b]
<1> DEFINE q == [W.m[m] EXCEPT !.kill = b]
<1>1. q \in MasterType
  BY RecordOf DEF MasterType
<1>2. M!ttm_lock_set_kill(W, m, b) = [W EXCEPT !.m = [W.m EXCEPT ![m] = q]]
  BY DEF M!ttm_lock_set_kill
<1> HIDE DEF q
<1>3. LET V == [W EXCEPT !.m = [W.m EXCEPT ![m] = q]] IN OnlyMaster(W, V, m) /\ V.m[m] = q
  BY <1>1, SetMaster
<1>4. QED
  BY <1>2, <1>3 DEF OnlyMaster, q

LEMMA SameWorld ==
  ASSUME NEW W \in Worlds, NEW V \in Worlds, V.f = W.f, V.m = W.m, V.d = W.d
  PROVE  V = W
  BY DEF Worlds

LEMMA Outcomes ==
  ASSUME NEW W
  PROVE  M!Ok(W).ok = TRUE /\ M!Ok(W).w = W /\ M!Failed(W).ok = FALSE /\ M!Failed(W).w = W
  BY DEF M!Ok, M!Failed

\* The fbdev is the active master: it is locked out, or cannot be.
LEMMA FbdevLockedIs ==
  ASSUME NEW W \in Worlds, NEW f \in Files, W.d.active = Fbdev,
         NEW l \in M!FbdevLocked(W, f)
  PROVE  l.ok \in BOOLEAN /\ OnlyMaster(W, l.w, Fbdev)
<1> DEFINE W1 == [W EXCEPT !.d.bug = @ \/ W.d.active # Fbdev]
           d1 == [W.d EXCEPT !.bug = W.d.bug \/ W.d.active # Fbdev]
           V == M!ttm_vt_lock(W, Fbdev, f)
           U == M!ttm_lock_set_kill(V, Fbdev, TRUE)
<1>1. d1 = W.d /\ d1 \in DeviceType
  <2>1. W.d \in DeviceType /\ (W.d.bug \/ W.d.active # Fbdev) = W.d.bug
    BY Parts DEF DeviceType
  <2>2. d1 = [W.d EXCEPT !.bug = W.d.bug]
    BY <2>1
  <2>3. QED
    BY <2>1, <2>2 DEF DeviceType
<1>2. W1 = W
  BY <1>1 DEF Worlds
<1>3. OnlyMaster(W, V, Fbdev) /\ V \in Worlds
  BY VtLockIs
<1>4. OnlyMaster(V, U, Fbdev)
  <2> HIDE DEF V
  <2> QED
    BY <1>3, KillIs
<1>5. OnlyMaster(W, U, Fbdev) /\ OnlyMaster(W, W, Fbdev)
  BY <1>3, <1>4 DEF OnlyMaster
<1>6. l = M!Ok(U) \/ l = M!Failed(W) \/ l = M!Ok(W)
  <2> HIDE DEF U
  <2>1. \/ l = M!Ok(M!ttm_lock_set_kill(M!ttm_vt_lock(W1, Fbdev, f), Fbdev, TRUE))
        \/ l = M!Failed(W1) \/ l = M!Ok(W)
    BY DEF M!FbdevLocked, M!MayFail
  <2>2. QED
    BY <1>2, <2>1 DEF U
<1> HIDE DEF U, V
<1>7. l.ok \in BOOLEAN /\ (l.w = U \/ l.w = W)
  BY <1>6, Outcomes
<1>8. QED
  BY <1>5, <1>7

\* What the operators on a world keep, beside the active master.
SamePower(d, e) ==
  /\ e.enable_fb = d.enable_fb /\ e.pm = d.pm /\ e.minor = d.minor
  /\ (d.bug => e.bug)

\* The record k of a master is q but for its lock and its references.
Given(q, k, vt, kill, refcount) ==
  /\ k.vt = vt /\ k.kill = kill /\ k.refcount = refcount
  /\ k.readers = q.readers /\ k.magiclist = q.magiclist

\* A file becomes master: it gives back the reference that its drop took.
Back(W, f, m, from_open) == ~from_open /\ W.f[f].locked = m

Took(W, V, f, m, from_open) ==
  LET q == W.m[m]
      back == Back(W, f, m, from_open) IN
  /\ V \in Worlds /\ \A n \in Masters \ {m} : V.m[n] = W.m[n]
  /\ Given(q, V.m[m], IF from_open THEN q.vt ELSE NoFile, FALSE,
           IF back THEN q.refcount - 1 ELSE q.refcount)
  /\ V.f = IF back THEN [W.f EXCEPT ![f] = [W.f[f] EXCEPT !.locked = NoMaster]] ELSE W.f
  /\ SamePower(W.d, V.d) /\ V.d.active = m
  /\ ~from_open /\ ~back => V.d.bug

LEMMA TakeOverIs ==
  ASSUME NEW W \in Worlds, NEW f \in Files, NEW m \in Masters, W.f[f].master = m,
         NEW from_open \in BOOLEAN
  PROVE  LET V == M!TakeOver(W, f, from_open) IN
         /\ Took(W, V, f, m, from_open)
         /\ V.d.n3d = W.d.n3d /\ V.d.fifo = W.d.fifo /\ V.d.hidden = W.d.hidden
<1> DEFINE q == W.m[m]
           back == ~from_open /\ W.f[f].locked = m
           d0 == [W.d EXCEPT !.active = m]
           W0 == [W EXCEPT !.d = d0]
           W1 == M!ttm_lock_set_kill(W0, m, FALSE)
           W2 == M!ttm_vt_unlock(W1, m)
           d3 == [W2.d EXCEPT !.bug = TRUE]
           W3 == [W2 EXCEPT !.d = d3]
           W4 == M!drm_master_put(W2, m)
           r == [W.f[f] EXCEPT !.locked = NoMaster]
           W5 == [W4 EXCEPT !.f = [W4.f EXCEPT ![f] = [W4.f[f] EXCEPT !.locked = NoMaster]]]
           V == M!TakeOver(W, f, from_open)
<1>0. q \in MasterType /\ W.d \in DeviceType /\ W.f \in [Files -> FileType] /\ q.refcount \in Int
  BY Parts DEF MastersType, MasterType
<1>1. d0 \in DeviceType
  BY <1>0 DEF DeviceType
<1>2. W0 \in Worlds /\ W0.f = W.f /\ W0.m = W.m /\ W0.d = d0
  BY <1>1, SetD
<1>3. OnlyMaster(W0, W1, m) /\ W1.m[m] = [q EXCEPT !.kill = FALSE] /\ W1 \in Worlds
  <2> HIDE DEF W0
  <2>1. W1 \in Worlds /\ OnlyMaster(W0, W1, m) /\ W1.m[m] = [W0.m[m] EXCEPT !.kill = FALSE]
    BY <1>2, KillIs
  <2>2. QED
    BY <1>2, <2>1
<1>4. OnlyMaster(W1, W2, m) /\ W2.m[m] = [q EXCEPT !.kill = FALSE, !.vt = NoFile] /\ W2 \in Worlds
  <2> HIDE DEF W1
  <2>1. OnlyMaster(W1, W2, m) /\ W2.m[m] = [W1.m[m] EXCEPT !.vt = NoFile] /\ W2 \in Worlds
    BY <1>3, VtUnlockIs
  <2> QED
    BY <1>3, <2>1
<1>5. W2.d = d0 /\ W2.f = W.f
  <2> HIDE DEF W0, W1, W2, d0
  <2> QED
    BY <1>2, <1>3, <1>4 DEF OnlyMaster
<1>6. d3 \in DeviceType
  <2> HIDE DEF W2
  <2> QED
    BY <1>1, <1>5 DEF DeviceType
<1>7. W3 \in Worlds /\ W3.f = W2.f /\ W3.m = W2.m /\ W3.d = d3
  <2> HIDE DEF W2
  <2> QED
    BY <1>4, <1>6, SetD
<1>8. OnlyMaster(W2, W4, m) /\ W4.m[m] = [W2.m[m] EXCEPT !.refcount = W2.m[m].refcount - 1] /\ W4 \in Worlds
  <2> HIDE DEF W2
  <2> QED
    BY <1>4, PutIs
<1>9. r \in FileType
  BY <1>0 DEF FileType, Owners
<1>10. OnlyFile(W4, W5, f) /\ W5.f = [W.f EXCEPT ![f] = r]
  <2>1. W4.f = W.f
    <3> HIDE DEF W2, W4
    <3> QED
      BY <1>5, <1>8 DEF OnlyMaster
  <2> HIDE DEF W4, r
  <2>2. OnlyFile(W4, [W4 EXCEPT !.f = [W4.f EXCEPT ![f] = r]], f)
    BY <1>8, <1>9, SetFile
  <2>3. W5 = [W4 EXCEPT !.f = [W.f EXCEPT ![f] = r]]
    BY <2>1 DEF r
  <2>4. QED
    BY <1>8, <2>1, <2>2, <2>3 DEF Worlds
<1>11. V = IF from_open THEN W1 ELSE IF back THEN W5 ELSE W3
  <2>1. W1.f = W.f
    <3> HIDE DEF W0, W1
    <3> QED
      BY <1>2, <1>3 DEF OnlyMaster
  <2>2. QED
    BY <2>1 DEF M!TakeOver
<1>12. d0.n3d = W.d.n3d /\ d0.fifo = W.d.fifo /\ d0.hidden = W.d.hidden /\ d0.active = m
       /\ SamePower(W.d, d0) /\ d3.n3d = W.d.n3d /\ d3.fifo = W.d.fifo /\ d3.bug
       /\ d3.hidden = W.d.hidden /\ d3.active = m /\ SamePower(W.d, d3)
  <2> HIDE DEF W2
  <2> QED
    BY <1>0, <1>5 DEF DeviceType, SamePower
<1>13. W5.d = d0 /\ W4.d = d0 /\ W1.d = d0 /\ W1.f = W.f /\ W3.f = W.f
  <2> HIDE DEF W1, W2, W3, W4, W5, d0
  <2> QED
    BY <1>2, <1>3, <1>4, <1>5, <1>7, <1>8, <1>10 DEF OnlyMaster, OnlyFile
<1>14. \A n \in Masters \ {m} : /\ W1.m[n] = W.m[n] /\ W2.m[n] = W.m[n] /\ W3.m[n] = W.m[n]
                                /\ W5.m[n] = W.m[n]
  <2> HIDE DEF W0, W1, W2, W3, W4, W5
  <2> QED
    BY <1>2, <1>3, <1>4, <1>5, <1>7, <1>8, <1>10 DEF OnlyMaster, OnlyFile
<1>15. Given(q, W1.m[m], q.vt, FALSE, q.refcount)
  <2> HIDE DEF W1
  <2> QED
    BY <1>0, <1>3 DEF Given, MasterType
<1>16. Given(q, W2.m[m], NoFile, FALSE, q.refcount)
  <2> HIDE DEF W2
  <2> QED
    BY <1>0, <1>4 DEF Given, MasterType
<1>17. Given(q, W3.m[m], NoFile, FALSE, q.refcount)
  <2> HIDE DEF W2, W3
  <2> QED
    BY <1>7, <1>16
<1>18. Given(q, W5.m[m], NoFile, FALSE, q.refcount - 1)
  <2>1. W4.m[m] = [W2.m[m] EXCEPT !.refcount = W2.m[m].refcount - 1] /\ W5.m = W4.m
    <3> HIDE DEF W2, W4, W5
    <3> QED
      BY <1>8, <1>10 DEF OnlyFile
  <2> HIDE DEF W2, W4, W5
  <2>2. W2.m[m] \in MasterType
    BY <1>4, RecordOf
  <2>3. QED
    BY <1>0, <1>16, <2>1, <2>2 DEF Given, MasterType
<1> HIDE DEF W0, W1, W2, W3, W4, W5, V, d0, d3
<1>19. CASE from_open
  BY <1>0, <1>3, <1>11, <1>12, <1>13, <1>14, <1>15, <1>19 DEF V, Took, Back
<1>20. CASE back
  BY <1>0, <1>10, <1>11, <1>12, <1>13, <1>14, <1>18, <1>20 DEF OnlyFile, V, Took, Back
<1>21. CASE ~from_open /\ ~back
  BY <1>0, <1>7, <1>11, <1>12, <1>13, <1>14, <1>17, <1>21 DEF V, Took, Back
<1>22. QED
  BY <1>19, <1>20, <1>21

\* What vmw_master_set ends in: the file is the active master and counts on the
\* device, or nothing but the fbdev's lock and the display has changed.
IsSet(W, V, f, m, from_open) ==
  /\ Took(W, V, f, m, from_open) /\ V.d.n3d = W.d.n3d + One(~W.d.enable_fb)
  /\ V.d.hidden => W.d.hidden /\ W.d.enable_fb
  /\ Counted(W.d) => Counted(V.d)

NotSet(W, V) ==
  /\ V \in Worlds /\ V.f = W.f /\ \A n \in Masters : V.m[n] = W.m[n]
  /\ SamePower(W.d, V.d) /\ V.d.active = Fbdev /\ V.d.n3d = W.d.n3d
  /\ V.d.hidden => W.d.hidden \/ ~W.d.enable_fb
  /\ Counted(W.d) => Counted(V.d)

LEMMA MasterSetIs ==
  ASSUME NEW W \in Worlds, NEW f \in Files, NEW m \in Masters, W.f[f].master = m,
         NEW from_open \in BOOLEAN, W.d.active = Fbdev,
         NEW s \in M!vmw_master_set(W, f, from_open)
  PROVE  /\ s.ok \in BOOLEAN
         /\ s.ok => IsSet(W, s.w, f, m, from_open)
         /\ ~s.ok => NotSet(W, s.w)
<1> DEFINE Inc == IF W.d.enable_fb THEN {M!Ok(W)} ELSE M!vmw_3d_resource_inc(W, TRUE, "device")
           Undo(x) == IF x.d.enable_fb THEN x ELSE M!vmw_3d_resource_dec(x, TRUE)
           Then(l) == IF l.ok THEN M!Ok(M!TakeOver(l.w, f, from_open)) ELSE M!Failed(Undo(l.w))
<1>0. W.d \in DeviceType /\ W.d.n3d \in Int /\ W.d.enable_fb \in BOOLEAN /\ W.m[m] \in MasterType
  BY Parts DEF DeviceType, MastersType
<1>1. PICK i \in Inc : s \in IF ~i.ok THEN {i} ELSE {Then(l) : l \in M!FbdevLocked(i.w, f)}
  BY Zenon DEF M!vmw_master_set
<1>2. /\ i.w \in Worlds /\ i.ok \in BOOLEAN /\ i.w.f = W.f /\ i.w.m = W.m /\ SameRest(W.d, i.w.d)
      /\ i.ok => i.w.d.n3d = W.d.n3d + One(~W.d.enable_fb)
      /\ i.ok => (i.w.d.hidden => W.d.hidden /\ W.d.enable_fb)
      /\ ~i.ok => i.w = W
      /\ Counted(W.d) => Counted(i.w.d)
  <2>1. CASE W.d.enable_fb
    <3>1. i = M!Ok(W)
      BY <2>1
    <3>2. i.ok = TRUE /\ i.w = W
      BY <3>1, Outcomes
    <3>3. SameRest(W.d, W.d) /\ W.d.n3d = W.d.n3d + One(~W.d.enable_fb)
      BY <1>0, <2>1 DEF SameRest, One
    <3>4. QED
      BY <2>1, <3>2, <3>3
  <2>2. CASE ~W.d.enable_fb
    <3>1. i \in M!vmw_3d_resource_inc(W, TRUE, "device")
      BY <2>2
    <3>2. Counts(W, i, TRUE, "device")
      BY <3>1, Inc3d
    <3>3. One(~W.d.enable_fb) = 1
      BY <2>2 DEF One
    <3>4. QED
      BY <3>2, <3>3 DEF Counts
  <2>3. QED
    BY <1>0, <2>1, <2>2
<1>3. CASE ~i.ok
  <2>1. s = i /\ i.w = W
    BY <1>1, <1>2, <1>3
  <2>2. SamePower(W.d, W.d)
    BY DEF SamePower
  <2>3. QED
    BY <1>2, <1>3, <2>1, <2>2 DEF NotSet
<1>4. CASE i.ok
  <2>1. PICK l \in M!FbdevLocked(i.w, f) : s = Then(l)
    BY <1>1, <1>4
  <2>2. i.w.d.active = Fbdev
    BY <1>2 DEF SameRest
  <2>3. l.ok \in BOOLEAN /\ OnlyMaster(i.w, l.w, Fbdev)
    BY <1>2, <2>2, FbdevLockedIs
  <2>4. l.w \in Worlds /\ l.w.f = W.f /\ l.w.d = i.w.d /\ \A n \in Masters : l.w.m[n] = W.m[n]
    BY <1>2, <2>3, FilesAssumption DEF OnlyMaster
  <2>5. SamePower(W.d, l.w.d)
    BY <1>2, <2>4 DEF SameRest, SamePower
  <2>6. CASE l.ok
    <3> DEFINE V == M!TakeOver(l.w, f, from_open)
    <3>1. s.ok = TRUE /\ s.w = V
      BY <2>1, <2>6, Outcomes
    <3>2. l.w.f[f].master = m
      BY <2>4
    <3>3. /\ Took(l.w, V, f, m, from_open)
          /\ V.d.n3d = l.w.d.n3d /\ V.d.fifo = l.w.d.fifo /\ V.d.hidden = l.w.d.hidden
      BY <2>4, <3>2, TakeOverIs
    <3> HIDE DEF V
    <3>4. SamePower(W.d, V.d)
      BY <2>5, <3>3 DEF SamePower, Took
    <3>5. Counted(W.d) => Counted(V.d)
      BY <1>2, <2>4, <3>3 DEF Counted
    <3>6. Took(W, V, f, m, from_open)
      BY <2>4, <3>3, <3>4 DEF Took, Back
    <3>7. IsSet(W, V, f, m, from_open)
      BY <1>2, <1>4, <2>4, <3>3, <3>5, <3>6 DEF IsSet
    <3>8. QED
      BY <3>1, <3>7
  <2>7. CASE ~l.ok
    <3> DEFINE V == Undo(l.w)
    <3>1. s.ok = FALSE /\ s.w = V
      BY <2>1, <2>7, Outcomes
    <3>2. l.w.d.enable_fb = W.d.enable_fb
      BY <2>5 DEF SamePower
    <3>3. CASE W.d.enable_fb
      <4>1. V = l.w /\ l.w.d.n3d = W.d.n3d
        BY <1>0, <1>2, <1>4, <2>4, <3>2, <3>3 DEF One
      <4> HIDE DEF V
      <4>2. QED
        BY <1>2, <1>4, <2>2, <2>4, <2>5, <3>1, <4>1 DEF NotSet
    <3>4. CASE ~W.d.enable_fb
      <4>1. V = M!vmw_3d_resource_dec(l.w, TRUE)
        BY <3>2, <3>4
      <4> HIDE DEF V
      <4>2. /\ V \in Worlds /\ V.f = l.w.f /\ V.m = l.w.m /\ SameRest(l.w.d, V.d)
            /\ V.d.n3d = l.w.d.n3d - 1 /\ (Counted(l.w.d) => Counted(V.d))
        BY <2>4, <4>1, Dec3d
      <4>3. SamePower(W.d, V.d) /\ V.d.active = Fbdev
        BY <2>2, <2>4, <2>5, <4>2 DEF SamePower, SameRest
      <4>4. V.d.n3d = W.d.n3d
        BY <1>0, <1>2, <1>4, <2>4, <3>4, <4>2 DEF One
      <4>5. NotSet(W, V)
        BY <1>2, <2>4, <3>4, <4>2, <4>3, <4>4 DEF NotSet
      <4>6. QED
        BY <3>1, <4>5
    <3>5. QED
      BY <1>0, <3>3, <3>4
  <2>8. QED
    BY <2>3, <2>6, <2>7
<1>5. QED
  BY <1>2, <1>3, <1>4

\* A record of a file changes in its pc, master bit and lock only.
SameFile(r, s, pc, is_master, locked) ==
  /\ s.pc = pc /\ s.is_master = is_master /\ s.locked = locked
  /\ s.master = r.master /\ s.authenticated = r.authenticated /\ s.magic = r.magic
  /\ s.res = r.res

\* A master that is dropped: its lock stays taken, where it could be had.
Dropped(W, V, f, m, locked) ==
  LET q == W.m[m] IN
  /\ V \in Worlds /\ \A n \in Masters \ {m} : V.m[n] = W.m[n]
  /\ Given(q, V.m[m], IF locked THEN f ELSE q.vt, FALSE, q.refcount - (IF locked THEN 1 ELSE 2))
  /\ \A g \in Files \ {f} : V.f[g] = W.f[g]
  /\ SameFile(W.f[f], V.f[f], W.f[f].pc, FALSE, IF locked THEN W.f[f].locked ELSE NoMaster)
  /\ V.d.enable_fb = W.d.enable_fb /\ V.d.pm = W.d.pm /\ (W.d.bug => V.d.bug)
  /\ V.d.minor = NoMaster /\ V.d.active = Fbdev /\ V.d.n3d = W.d.n3d - One(~W.d.enable_fb)
  /\ Counted(W.d) => Counted(V.d)
  /\ V.d.hidden => W.d.hidden \/ ~W.d.enable_fb

LEMMA MasterDroppedIs ==
  ASSUME NEW W \in Worlds, NEW f \in Files, NEW m \in Masters, W.f[f].master = m,
         NEW locked \in BOOLEAN
  PROVE  Dropped(W, M!MasterDropped(W, f, locked), f, m, locked)
<1> DEFINE q == W.m[m]
           Wl == M!ttm_vt_lock(W, m, f)
           Wp == M!drm_master_put(W, m)
           rp == [W.f[f] EXCEPT !.locked = NoMaster]
           Wu == [Wp EXCEPT !.f = [Wp.f EXCEPT ![f] = [Wp.f[f] EXCEPT !.locked = NoMaster]]]
           W1 == IF locked THEN Wl ELSE Wu
           W2 == M!ttm_lock_set_kill(W1, m, FALSE)
           W3 == IF W2.d.enable_fb THEN W2 ELSE M!vmw_3d_resource_dec(W2, TRUE)
           d3 == [W3.d EXCEPT !.active = Fbdev]
           Wa == [W3 EXCEPT !.d = d3]
           Wk == M!ttm_lock_set_kill(Wa, Fbdev, FALSE)
           W4 == M!ttm_vt_unlock(Wk, Fbdev)
           W5 == M!drm_master_put(W4, m)
           d6 == [W5.d EXCEPT !.minor = NoMaster]
           r6 == [W5.f[f] EXCEPT !.is_master = FALSE]
           W6 == [W5 EXCEPT !.d = d6]
           W7 == [W6 EXCEPT !.f = [W6.f EXCEPT ![f] = [W6.f[f] EXCEPT !.is_master = FALSE]]]
<1>0. /\ q \in MasterType /\ q.refcount \in Int /\ W.d \in DeviceType /\ W.f \in [Files -> FileType]
      /\ W.d.n3d \in Int /\ W.d.enable_fb \in BOOLEAN /\ W.f[f] \in FileType
      /\ m \in Masters \cup {Fbdev} /\ Fbdev \in Masters \cup {Fbdev} /\ Fbdev \notin Masters
  BY Parts, FilesAssumption DEF MastersType, MasterType, DeviceType
<1>1. Wl \in Worlds /\ OnlyMaster(W, Wl, m) /\ Wl.m[m] = [q EXCEPT !.vt = f]
  BY <1>0, VtLockIs
<1>2. Wp \in Worlds /\ OnlyMaster(W, Wp, m) /\ Wp.m[m] = [q EXCEPT !.refcount = q.refcount - 1]
  BY <1>0, PutIs
<1>3. rp \in FileType
  BY <1>0 DEF FileType, Owners
<1>4. Wp.f = W.f
  <2> HIDE DEF Wp
  <2> QED
    BY <1>2 DEF OnlyMaster
<1>5. OnlyFile(Wp, Wu, f) /\ Wu.f[f] = rp
  <2> HIDE DEF Wp
  <2>1. Wu = [Wp EXCEPT !.f = [Wp.f EXCEPT ![f] = rp]]
    BY <1>4
  <2> HIDE DEF rp, Wu
  <2>2. QED
    BY <1>2, <1>3, <2>1, SetFile
\* The lock, or not.
<1>6. /\ W1 \in Worlds /\ W1.d = W.d /\ \A n \in Masters \ {m} : W1.m[n] = W.m[n]
      /\ \A g \in Files \ {f} : W1.f[g] = W.f[g]
      /\ SameFile(W.f[f], W1.f[f], W.f[f].pc, W.f[f].is_master,
                  IF locked THEN W.f[f].locked ELSE NoMaster)
      /\ Given(q, W1.m[m], IF locked THEN f ELSE q.vt, q.kill,
               IF locked THEN q.refcount ELSE q.refcount - 1)
  <2>1. CASE locked
    <3>1. W1 = Wl
      BY <2>1
    <3>2. SameFile(W.f[f], W.f[f], W.f[f].pc, W.f[f].is_master, W.f[f].locked)
      BY DEF SameFile
    <3> HIDE DEF Wl, W1
    <3>3. Given(q, Wl.m[m], f, q.kill, q.refcount)
      BY <1>0, <1>1 DEF Given, MasterType
    <3>4. QED
      BY <1>1, <2>1, <3>1, <3>2, <3>3 DEF OnlyMaster
  <2>2. CASE ~locked
    <3>1. W1 = Wu
      BY <2>2
    <3>2. SameFile(W.f[f], rp, W.f[f].pc, W.f[f].is_master, NoMaster)
      BY <1>0 DEF SameFile, FileType
    <3>3. Given(q, Wp.m[m], q.vt, q.kill, q.refcount - 1)
      <4> HIDE DEF Wp
      <4> QED
        BY <1>0, <1>2 DEF Given, MasterType
    <3> HIDE DEF Wp, W1, Wu, rp
    <3>4. QED
      BY <1>2, <1>4, <1>5, <2>2, <3>1, <3>2, <3>3 DEF OnlyMaster, OnlyFile
  <2>3. QED
    BY <2>1, <2>2
<1> DEFINE got == IF locked THEN f ELSE q.vt
           left == IF locked THEN q.refcount ELSE q.refcount - 1
<1>7. /\ W2 \in Worlds /\ OnlyMaster(W1, W2, m) /\ W2.m[m] = [W1.m[m] EXCEPT !.kill = FALSE]
      /\ W1.m[m] \in MasterType
  <2> HIDE DEF W1
  <2> QED
    BY <1>0, <1>6, KillIs, RecordOf
<1>8. Given(q, W2.m[m], got, FALSE, left) /\ W2.d = W.d /\ W2.f = W1.f
      /\ \A n \in Masters \ {m} : W2.m[n] = W.m[n]
  <2> HIDE DEF W1, W2
  <2>1. Given(q, W2.m[m], got, FALSE, left)
    BY <1>6, <1>7 DEF Given, MasterType
  <2>2. QED
    BY <1>6, <1>7, <2>1 DEF OnlyMaster
<1> HIDE DEF got, left
<1>9. /\ W3 \in Worlds /\ W3.f = W2.f /\ W3.m = W2.m /\ SameRest(W2.d, W3.d)
      /\ W3.d.n3d = W.d.n3d - One(~W.d.enable_fb)
      /\ Counted(W.d) => Counted(W3.d)
      /\ W3.d.hidden => W.d.hidden \/ ~W.d.enable_fb
  <2>1. CASE W.d.enable_fb
    <3> HIDE DEF W2
    <3>1. W3 = W2 /\ One(~W.d.enable_fb) = 0 /\ SameRest(W2.d, W2.d)
      BY <1>8, <2>1 DEF One, SameRest
    <3> HIDE DEF W3
    <3>2. QED
      BY <1>0, <1>7, <1>8, <3>1
  <2>2. CASE ~W.d.enable_fb
    <3> HIDE DEF W2
    <3>1. W3 = M!vmw_3d_resource_dec(W2, TRUE) /\ One(~W.d.enable_fb) = 1
      BY <1>8, <2>2 DEF One
    <3> HIDE DEF W3
    <3>2. /\ W3 \in Worlds /\ W3.f = W2.f /\ W3.m = W2.m /\ SameRest(W2.d, W3.d)
          /\ W3.d.n3d = W2.d.n3d - 1
          /\ Counted(W2.d) => Counted(W3.d)
      BY <1>7, <3>1, Dec3d
    <3>3. QED
      BY <1>8, <2>2, <3>1, <3>2
  <2>3. QED
    BY <2>1, <2>2
<1>10. d3 \in DeviceType
  <2> HIDE DEF W3
  <2> QED
    BY <1>9, Parts DEF DeviceType
<1>11. Wa \in Worlds /\ Wa.f = W3.f /\ Wa.m = W3.m /\ Wa.d = d3
  <2> HIDE DEF W3
  <2> QED
    BY <1>9, <1>10, SetD
<1>12. Wk \in Worlds /\ OnlyMaster(Wa, Wk, Fbdev)
  <2> HIDE DEF Wa
  <2> QED
    BY <1>0, <1>11, KillIs
<1>13. W4 \in Worlds /\ OnlyMaster(Wk, W4, Fbdev)
  <2> HIDE DEF Wk
  <2> QED
    BY <1>0, <1>12, VtUnlockIs
<1>14. /\ W5 \in Worlds /\ OnlyMaster(W4, W5, m)
       /\ W5.m[m] = [W4.m[m] EXCEPT !.refcount = W4.m[m].refcount - 1]
       /\ W4.m[m] \in MasterType
  <2> HIDE DEF W4
  <2> QED
    BY <1>0, <1>13, PutIs, RecordOf
<1>15. /\ W5.d = d3 /\ W5.f = W1.f /\ \A n \in Masters \ {m} : W5.m[n] = W.m[n]
       /\ W4.m[m] = W2.m[m]
  <2> HIDE DEF Wa, Wk, W1, W2, W3, W4, W5, d3
  <2> QED
    BY <1>0, <1>8, <1>9, <1>11, <1>12, <1>13, <1>14 DEF OnlyMaster
<1>16. Given(q, W5.m[m], got, FALSE, left - 1)
  <2> HIDE DEF W2, W4, W5
  <2> QED
    BY <1>8, <1>14, <1>15 DEF Given, MasterType
<1>w. W5 \in Worlds /\ W5.d \in DeviceType /\ W5.f[f] \in FileType
  <2> HIDE DEF W5
  <2>1. W5 \in Worlds
    BY <1>14
  <2>2. QED
    BY <2>1, Parts
<1>17. d6 \in DeviceType /\ W6 \in Worlds /\ W6.f = W5.f /\ W6.m = W5.m /\ W6.d = d6
  <2> HIDE DEF W5
  <2>1. d6 \in DeviceType
    BY <1>w DEF DeviceType, Owners
  <2> HIDE DEF d6
  <2>2. QED
    BY <1>w, <2>1, SetD
<1>18. r6 \in FileType /\ SameFile(W5.f[f], r6, W5.f[f].pc, FALSE, W5.f[f].locked)
  <2> HIDE DEF W5
  <2> QED
    BY <1>w DEF FileType, SameFile
<1>19. OnlyFile(W6, W7, f) /\ W7.f[f] = r6
  <2> HIDE DEF W5, W6
  <2>1. W7 = [W6 EXCEPT !.f = [W6.f EXCEPT ![f] = r6]]
    BY <1>17
  <2> HIDE DEF r6, W7
  <2>2. QED
    BY <1>17, <1>18, <2>1, SetFile
<1>20. /\ d6.enable_fb = W.d.enable_fb /\ d6.pm = W.d.pm /\ (W.d.bug => d6.bug)
       /\ d6.minor = NoMaster /\ d6.active = Fbdev /\ d6.n3d = W3.d.n3d
       /\ d6.fifo = W3.d.fifo /\ d6.hidden = W3.d.hidden
  <2>1. d6 = [d3 EXCEPT !.minor = NoMaster] /\ W3.d \in DeviceType /\ SameRest(W.d, W3.d)
    <3> HIDE DEF W1, W2, W3, W5, d3
    <3> QED
      BY <1>8, <1>9, <1>15, Parts
  <2> HIDE DEF W3, d6
  <2>2. QED
    BY <2>1 DEF DeviceType, SameRest
<1>21. M!MasterDropped(W, f, locked) = W7
  <2>1. W1 = IF locked THEN M!ttm_vt_lock(W, m, f)
             ELSE [M!drm_master_put(W, m) EXCEPT !.f[f].locked = NoMaster]
    OBVIOUS
  <2>2. QED
    BY Zenon DEF M!MasterDropped
<1> HIDE DEF W1, W2, W3, Wa, Wk, W4, W5, W6, W7, d3, d6, r6
<1>22. /\ Given(q, W7.m[m], IF locked THEN f ELSE q.vt, FALSE,
                q.refcount - (IF locked THEN 1 ELSE 2))
       /\ \A n \in Masters \ {m} : W7.m[n] = W.m[n]
  <2>1. W7.m = W5.m
    BY <1>17, <1>19 DEF OnlyFile
  <2>2. left - 1 = q.refcount - (IF locked THEN 1 ELSE 2)
    BY <1>0 DEF left
  <2>3. QED
    BY <1>15, <1>16, <2>1, <2>2 DEF got
<1>23. /\ \A g \in Files \ {f} : W7.f[g] = W.f[g]
       /\ SameFile(W.f[f], W7.f[f], W.f[f].pc, FALSE, IF locked THEN W.f[f].locked ELSE NoMaster)
  BY <1>6, <1>15, <1>17, <1>18, <1>19 DEF OnlyFile, SameFile
<1>24. W7 \in Worlds /\ W7.d = d6
  BY <1>17, <1>19 DEF OnlyFile
<1>25. Counted(W.d) => Counted(d6)
  BY <1>9, <1>20 DEF Counted
<1>26. QED
  BY <1>9, <1>20, <1>21, <1>22, <1>23, <1>24, <1>25 DEF Dropped

-----------------------------------------------------------------------------
(* What keeps each part of the invariant when one file acts. *)

\* Files that do not act keep all but their authentication.
Alike(r, s) ==
  /\ s.pc = r.pc /\ s.master = r.master /\ s.is_master = r.is_master /\ s.magic = r.magic
  /\ s.locked = r.locked /\ s.res = r.res
  /\ r.pc = "closed" => s = r

Others(W, V, f) == V \in Worlds /\ \A g \in Files \ {f} : Alike(W.f[g], V.f[g])

LEMMA Shrinks ==
  ASSUME NEW S, NEW R, NEW x, IsFiniteSet(S), IsFiniteSet(R), S \ {x} = R \ {x}
  PROVE  /\ Cardinality(S) \in Nat /\ Cardinality(R) \in Nat
         /\ Cardinality(R) = Cardinality(S) + One(x \in R) - One(x \in S)
<1>1. ASSUME NEW T, IsFiniteSet(T)
      PROVE  /\ Cardinality(T) \in Nat /\ Cardinality(T \ {x}) \in Nat
             /\ Cardinality(T) = Cardinality(T \ {x}) + One(x \in T)
  <2>1. Cardinality(T) \in Nat /\ Cardinality(T \ {x}) \in Nat
    BY <1>1, FS_RemoveElement, FS_CardinalityType
  <2>2. Cardinality(T \ {x}) = IF x \in T THEN Cardinality(T) - 1 ELSE Cardinality(T)
    BY <1>1, FS_RemoveElement
  <2>3. QED
    BY <2>1, <2>2 DEF One
<1>2. /\ Cardinality(S) \in Nat /\ Cardinality(S \ {x}) \in Nat
      /\ Cardinality(S) = Cardinality(S \ {x}) + One(x \in S)
  BY <1>1
<1>3. /\ Cardinality(R) \in Nat /\ Cardinality(R \ {x}) \in Nat
      /\ Cardinality(R) = Cardinality(R \ {x}) + One(x \in R)
  BY <1>1
<1>4. QED
  BY <1>2, <1>3 DEF One

LEMMA FilesFinite ==
  ASSUME NEW W
  PROVE  /\ \A m : /\ IsFiniteSet(Under(W, m)) /\ Cardinality(Under(W, m)) \in Nat
                   /\ IsFiniteSet(LockOn(W, m)) /\ Cardinality(LockOn(W, m)) \in Nat
         /\ IsFiniteSet(OnDevice(W)) /\ Cardinality(OnDevice(W)) \in Nat
<1>1. ASSUME NEW T \in SUBSET Files PROVE IsFiniteSet(T) /\ Cardinality(T) \in Nat
  BY FilesAssumption, FS_Subset, FS_CardinalityType
<1>2. \A m : Under(W, m) \in SUBSET Files /\ LockOn(W, m) \in SUBSET Files
  BY DEF Under, LockOn
<1>3. OnDevice(W) \in SUBSET Files
  BY DEF OnDevice
<1>4. QED
  BY <1>1, <1>2, <1>3

\* Holders of references and of the device, before and after f acts.
UnderMoves(W, V, f, m) ==
  Cardinality(Under(V, m)) = Cardinality(Under(W, m))
    + One(V.f[f].master = m) - One(W.f[f].master = m)

LockMoves(W, V, f, m) ==
  Cardinality(LockOn(V, m)) = Cardinality(LockOn(W, m))
    + One(V.f[f].locked = m) - One(W.f[f].locked = m)

DeviceMoves(W, V, f) ==
  Cardinality(OnDevice(V)) = Cardinality(OnDevice(W))
    + One(V.f[f].res = "hw") - One(W.f[f].res = "hw")

LEMMA HoldersMove ==
  ASSUME NEW W \in Worlds, NEW V, NEW f \in Files, Others(W, V, f)
  PROVE  /\ \A m : UnderMoves(W, V, f, m) /\ LockMoves(W, V, f, m)
         /\ DeviceMoves(W, V, f)
<1>1. ASSUME NEW m PROVE UnderMoves(W, V, f, m) /\ LockMoves(W, V, f, m)
  <2>1. Under(W, m) \ {f} = Under(V, m) \ {f} /\ LockOn(W, m) \ {f} = LockOn(V, m) \ {f}
    BY DEF Others, Alike, Under, LockOn
  <2>2. /\ (f \in Under(W, m) <=> W.f[f].master = m) /\ (f \in Under(V, m) <=> V.f[f].master = m)
        /\ (f \in LockOn(W, m) <=> W.f[f].locked = m) /\ (f \in LockOn(V, m) <=> V.f[f].locked = m)
    BY DEF Under, LockOn
  <2>3. Cardinality(Under(V, m)) = Cardinality(Under(W, m)) + One(f \in Under(V, m))
                                   - One(f \in Under(W, m))
    BY <2>1, FilesFinite, Shrinks
  <2>4. Cardinality(LockOn(V, m)) = Cardinality(LockOn(W, m)) + One(f \in LockOn(V, m))
                                    - One(f \in LockOn(W, m))
    BY <2>1, FilesFinite, Shrinks
  <2>5. QED
    BY <2>2, <2>3, <2>4 DEF One, UnderMoves, LockMoves
<1>2. DeviceMoves(W, V, f)
  <2>1. OnDevice(W) \ {f} = OnDevice(V) \ {f}
    BY DEF Others, Alike, OnDevice
  <2>2. (f \in OnDevice(W) <=> W.f[f].res = "hw") /\ (f \in OnDevice(V) <=> V.f[f].res = "hw")
    BY DEF OnDevice
  <2>3. Cardinality(OnDevice(V)) = Cardinality(OnDevice(W)) + One(f \in OnDevice(V))
                                   - One(f \in OnDevice(W))
    BY <2>1, FilesFinite, Shrinks
  <2>4. QED
    BY <2>2, <2>3 DEF One, DeviceMoves
<1>3. QED
  BY <1>1, <1>2

\* References come and go with their holders.
RefsMove(W, V, f) ==
  \A m \in Masters : V.m[m].refcount = W.m[m].refcount
    + (One(V.d.minor = m) - One(W.d.minor = m))
    + (One(V.f[f].master = m) - One(W.f[f].master = m))
    + (One(V.f[f].locked = m) - One(W.f[f].locked = m))

LEMMA RefsStep ==
  ASSUME NEW W \in Worlds, NEW V, NEW f \in Files, Others(W, V, f), Refs(W),
         RefsMove(W, V, f)
  PROVE  Refs(V)
<1> SUFFICES ASSUME NEW m \in Masters
             PROVE  V.m[m].refcount = One(V.d.minor = m) + Cardinality(Under(V, m))
                                      + Cardinality(LockOn(V, m))
  BY DEF Refs
<1>1. W.m[m].refcount = One(W.d.minor = m) + Cardinality(Under(W, m)) + Cardinality(LockOn(W, m))
  BY DEF Refs
<1>2. V.m[m].refcount = W.m[m].refcount
           + (One(V.d.minor = m) - One(W.d.minor = m))
           + (One(V.f[f].master = m) - One(W.f[f].master = m))
           + (One(V.f[f].locked = m) - One(W.f[f].locked = m))
  BY DEF RefsMove
<1>3. UnderMoves(W, V, f, m) /\ LockMoves(W, V, f, m)
  BY HoldersMove
<1>5. Cardinality(Under(W, m)) \in Nat /\ Cardinality(LockOn(W, m)) \in Nat
  BY FilesFinite
<1>6. QED
  BY <1>1, <1>2, <1>3, <1>5 DEF One, UnderMoves, LockMoves

\* The minor has a master while one file is it.
OwnersMove(W, V, f) ==
  /\ V.d.active = (IF V.d.minor = NoMaster THEN Fbdev ELSE V.d.minor)
  /\ W.d.bug => V.d.bug
  /\ FileOK(V.f[f], f, V.d)
  /\ V.d.minor = W.d.minor \/ W.d.minor = NoMaster \/ W.f[f].is_master
  /\ V.f[f].is_master => W.f[f].is_master \/ W.d.minor = NoMaster

LEMMA OwnersStep ==
  ASSUME NEW W \in Worlds, NEW V, NEW f \in Files, Others(W, V, f), OwnersOK(W),
         OwnersMove(W, V, f)
  PROVE  OwnersOK(V)
<1>1. ASSUME NEW g \in Files \ {f} PROVE FileOK(V.f[g], g, V.d)
  <2>1. FileOK(W.f[g], g, W.d) /\ Alike(W.f[g], V.f[g])
    BY DEF OwnersOK, Others
  <2>2. W.f[g].is_master => V.d.minor = W.d.minor
    BY <2>1 DEF OwnersOK, FileOK, OwnersMove
  <2>3. W.d.bug => V.d.bug
    BY DEF OwnersMove
  <2>4. QED
    BY <2>1, <2>2, <2>3 DEF FileOK, Alike, Dropping
<1>2. ASSUME NEW g \in Files, NEW h \in Files, V.f[g].is_master, V.f[h].is_master
      PROVE  g = h
  <2>1. \A k \in Files \ {f} : V.f[k].is_master => W.f[k].is_master /\ W.d.minor # NoMaster
    BY DEF Others, Alike, OwnersOK, FileOK
  <2>2. \A k, l \in Files : W.f[k].is_master /\ W.f[l].is_master => k = l
    BY DEF OwnersOK
  <2>3. V.f[f].is_master => W.f[f].is_master \/ W.d.minor = NoMaster
    BY DEF OwnersMove
  <2>4. QED
    BY <1>2, <2>1, <2>2, <2>3
<1>3. FileOK(V.f[f], f, V.d) /\ V.d.active = (IF V.d.minor = NoMaster THEN Fbdev ELSE V.d.minor)
  BY DEF OwnersMove
<1>4. QED
  BY <1>1, <1>2, <1>3 DEF OwnersOK

\* Lists of magics grow by the file that acts.
MagicsMove(W, V, f) ==
  \A m \in Masters : V.m[m].refcount > 0 =>
    /\ W.m[m].refcount > 0 \/ V.m[m].magiclist = {}
    /\ V.m[m].magiclist \subseteq W.m[m].magiclist \cup {f}
    /\ f \in V.m[m].magiclist => Listed(V.f[f], m)

LEMMA MagicsStep ==
  ASSUME NEW W \in Worlds, NEW V, NEW f \in Files, Others(W, V, f), Magics(W),
         MagicsMove(W, V, f)
  PROVE  Magics(V)
<1> SUFFICES ASSUME NEW m \in Masters, V.m[m].refcount > 0, NEW g \in V.m[m].magiclist
             PROVE  Listed(V.f[g], m)
  BY DEF Magics
<1>1. CASE g = f
  BY <1>1 DEF MagicsMove
<1>2. CASE g # f
  <2>1. g \in W.m[m].magiclist /\ W.m[m].refcount > 0
    BY <1>2 DEF MagicsMove
  <2>2. Listed(W.f[g], m)
    BY <2>1 DEF Magics
  <2>3. g \in Files
    BY RecordOf, <2>1 DEF MasterType
  <2>4. QED
    BY <1>2, <2>2, <2>3 DEF Others, Alike, Listed
<1>3. QED
  BY <1>1, <1>2

\* Only the file that acts enters and leaves.
ClientsMove(W, V, f) ==
  /\ \A m \in Masters : W.m[m].readers \subseteq V.m[m].readers \cup {f}
  /\ Inside(V.f[f]) => f \in V.m[V.f[f].master].readers
  /\ \A m \in Masters : V.d.active # m => V.m[m].readers = {} /\ Shut(V.m[m])

LEMMA ClientsStep ==
  ASSUME NEW W \in Worlds, NEW V, NEW f \in Files, Others(W, V, f), Clients(W),
         ClientsMove(W, V, f)
  PROVE  Clients(V)
<1> SUFFICES ASSUME NEW g \in Files, Inside(V.f[g])
             PROVE  g \in V.m[V.f[g].master].readers
  BY DEF Clients, ClientsMove, Inside
<1>1. CASE g = f
  BY <1>1 DEF ClientsMove
<1>2. CASE g # f
  <2>1. Alike(W.f[g], V.f[g])
    BY <1>2 DEF Others
  <2>2. g \in W.m[W.f[g].master].readers
    BY <2>1 DEF Alike, Clients, Inside
  <2>3. W.f[g].master \in Masters
    BY <2>1, Parts DEF Alike, FileType, Owners, Inside
  <2>4. QED
    BY <1>2, <2>1, <2>2, <2>3 DEF Alike, ClientsMove
<1>3. QED
  BY <1>1, <1>2

\* The 3D count follows the resource of the file and the one of the fbdev or master.
ThreeDMove(W, V, f) ==
  /\ V.d.n3d = W.d.n3d + (One(V.f[f].res = "hw") - One(W.f[f].res = "hw"))
               + (Counting(V.d) - Counting(W.d))
  /\ Counted(V.d)
  /\ V.d.active # Fbdev \/ V.d.enable_fb => ~V.d.hidden

LEMMA ThreeDStep ==
  ASSUME NEW W \in Worlds, NEW V, NEW f \in Files, Others(W, V, f), ThreeD(W),
         ThreeDMove(W, V, f)
  PROVE  ThreeD(V)
<1>1. DeviceMoves(W, V, f)
  BY HoldersMove
<1>2. Cardinality(OnDevice(W)) \in Nat
  BY FilesFinite
<1>3. Counting(V.d) \in Int /\ Counting(W.d) \in Int
  BY DEF Counting, One
<1>4. W.d.n3d = Cardinality(OnDevice(W)) + Counting(W.d)
  BY DEF ThreeD
<1>5. V.d.n3d = Cardinality(OnDevice(V)) + Counting(V.d)
  BY <1>1, <1>2, <1>3, <1>4 DEF One, DeviceMoves, ThreeDMove
<1>6. QED
  BY <1>5 DEF ThreeD, ThreeDMove

\* The part of the invariant that asks nothing of the faults ...
Base(W) == W \in Worlds /\ OwnersOK(W) /\ Refs(W) /\ Magics(W)

\* ... and what a step keeps of the rest: where the lock of a master can always
\* be had, and where the device always starts again on resume.
Keeps(W, V) ==
  /\ Base(V)
  /\ "vt" \notin Faults /\ Clients(W) => Clients(V)
  /\ "resume" \notin Faults /\ ThreeD(W) => ThreeD(V)

LEMMA KeepsStep ==
  ASSUME NEW W, Base(W), NEW V, NEW f \in Files, Others(W, V, f),
         RefsMove(W, V, f), OwnersMove(W, V, f), MagicsMove(W, V, f),
         "vt" \notin Faults /\ Clients(W) => ClientsMove(W, V, f),
         "resume" \notin Faults /\ ThreeD(W) => ThreeDMove(W, V, f)
  PROVE  Keeps(W, V)
<1>1. W \in Worlds /\ OwnersOK(W) /\ Refs(W) /\ Magics(W) /\ V \in Worlds
  BY DEF Base, Others
<1>2. Refs(V)
  BY <1>1, RefsStep
<1>3. OwnersOK(V)
  BY <1>1, OwnersStep
<1>4. Magics(V)
  BY <1>1, MagicsStep
<1>5. "vt" \notin Faults /\ Clients(W) => Clients(V)
  BY <1>1, ClientsStep
<1>6. "resume" \notin Faults /\ ThreeD(W) => ThreeD(V)
  BY <1>1, ThreeDStep
<1>7. QED
  BY <1>1, <1>2, <1>3, <1>4, <1>5, <1>6 DEF Keeps, Base

\* Steps that leave the counts alone.
LEMMA RefsCalm ==
  ASSUME NEW W \in Worlds, NEW V, NEW f \in Files, V.d.minor = W.d.minor,
         V.f[f].master = W.f[f].master, V.f[f].locked = W.f[f].locked,
         \A m \in Masters : V.m[m].refcount = W.m[m].refcount
  PROVE  RefsMove(W, V, f)
<1>1. ASSUME NEW m \in Masters PROVE W.m[m].refcount \in Int
  BY RecordOf
<1>2. QED
  BY <1>1 DEF RefsMove, One

SameCount(d, e) ==
  /\ e.n3d = d.n3d /\ (e.fifo <=> d.fifo) /\ (e.hidden => d.hidden)
  /\ e.active = d.active /\ e.enable_fb = d.enable_fb /\ e.pm = d.pm

LEMMA ThreeDCalm ==
  ASSUME NEW W \in Worlds, NEW V, NEW f \in Files, ThreeD(W),
         SameCount(W.d, V.d), V.f[f].res = W.f[f].res
  PROVE  ThreeDMove(W, V, f)
<1>1. W.d.n3d \in Int /\ Counting(W.d) \in Int /\ Counting(V.d) = Counting(W.d)
  BY Parts DEF DeviceType, Counting, One, SameCount
<1>2. V.d.n3d = W.d.n3d + (One(V.f[f].res = "hw") - One(W.f[f].res = "hw"))
               + (Counting(V.d) - Counting(W.d))
  BY <1>1 DEF One, SameCount
<1>3. QED
  BY <1>2 DEF ThreeDMove, ThreeD, SameCount, Counted

\* A master that is referenced counts for one at least.
LEMMA Referenced ==
  ASSUME NEW W, Base(W), NEW m \in Masters
  PROVE  /\ W.m[m].refcount \in Nat
         /\ W.d.minor = m => W.m[m].refcount > 0
         /\ \A f \in Files : W.f[f].master = m => W.m[m].refcount > 0
<1>1. W.m[m].refcount = One(W.d.minor = m) + Cardinality(Under(W, m)) + Cardinality(LockOn(W, m))
  BY DEF Base, Refs
<1>2. Cardinality(Under(W, m)) \in Nat /\ Cardinality(LockOn(W, m)) \in Nat
      /\ IsFiniteSet(Under(W, m))
  BY FilesFinite
<1>3. ASSUME NEW f \in Files, W.f[f].master = m PROVE Cardinality(Under(W, m)) > 0
  <2>1. f \in Under(W, m)
    BY <1>3 DEF Under
  <2>2. Cardinality(Under(W, m)) # 0
    BY <1>2, <2>1, FS_EmptySet
  <2>3. QED
    BY <1>2, <2>2
<1>4. QED
  BY <1>1, <1>2, <1>3 DEF One

\* Steps that touch no reference, no lock taken for good and no count.
SameLock(q, k) == k.refcount = q.refcount /\ k.kill = q.kill /\ k.vt = q.vt

QuietStep(W, V, f) ==
  /\ Others(W, V, f) /\ SameCount(W.d, V.d) /\ V.d.minor = W.d.minor /\ (W.d.bug => V.d.bug)
  /\ V.f[f].master = W.f[f].master /\ V.f[f].is_master = W.f[f].is_master
  /\ V.f[f].locked = W.f[f].locked /\ V.f[f].res = W.f[f].res
  /\ FileOK(V.f[f], f, V.d)
  /\ \A m \in Masters : SameLock(W.m[m], V.m[m])
  /\ MagicsMove(W, V, f)

Entered(W, V, f) ==
  /\ \A m \in Masters : /\ W.m[m].readers \subseteq V.m[m].readers \cup {f}
                        /\ V.m[m].readers \subseteq W.m[m].readers \cup {f}
                        /\ W.d.active # m => f \notin V.m[m].readers
  /\ Inside(V.f[f]) => f \in V.m[V.f[f].master].readers

LEMMA Quiet ==
  ASSUME NEW W, Base(W), NEW V, NEW f \in Files, QuietStep(W, V, f),
         "vt" \notin Faults /\ Clients(W) => Entered(W, V, f)
  PROVE  Keeps(W, V)
<1>1. W \in Worlds /\ OwnersOK(W) /\ Others(W, V, f) /\ V \in Worlds /\ MagicsMove(W, V, f)
  BY DEF Base, QuietStep, Others
<1>2. RefsMove(W, V, f)
  BY <1>1, RefsCalm DEF QuietStep, SameLock
<1>3. OwnersMove(W, V, f)
  BY <1>1 DEF QuietStep, OwnersMove, OwnersOK, SameCount
<1>4. ASSUME Clients(W), Entered(W, V, f) PROVE ClientsMove(W, V, f)
  <2>1. \A m \in Masters : V.d.active # m => V.m[m].readers = {} /\ Shut(V.m[m])
    <3> SUFFICES ASSUME NEW m \in Masters, V.d.active # m
                 PROVE  V.m[m].readers = {} /\ Shut(V.m[m])
      OBVIOUS
    <3>1. W.d.active # m /\ W.m[m].readers = {} /\ Shut(W.m[m])
      BY <1>4 DEF Clients, QuietStep, SameCount
    <3>2. V.m[m].readers = {}
      BY <1>4, <3>1 DEF Entered
    <3>3. Shut(V.m[m])
      BY <3>1 DEF QuietStep, SameLock, Shut
    <3>4. QED
      BY <3>2, <3>3
  <2>2. QED
    BY <1>4, <2>1 DEF Entered, ClientsMove
<1>5. ThreeD(W) => ThreeDMove(W, V, f)
  BY <1>1, ThreeDCalm DEF QuietStep
<1>6. QED
  BY <1>1, <1>2, <1>3, <1>4, <1>5, KeepsStep

LEMMA QuietSame ==
  ASSUME NEW W, Base(W), NEW V, NEW f \in Files, V.d = W.d,
         Others(W, V, f), FileOK(V.f[f], f, W.d),
         V.f[f].master = W.f[f].master, V.f[f].is_master = W.f[f].is_master,
         V.f[f].locked = W.f[f].locked, V.f[f].res = W.f[f].res,
         \A m \in Masters : SameLock(W.m[m], V.m[m]),
         MagicsMove(W, V, f)
  PROVE  QuietStep(W, V, f)
  BY DEF QuietStep, SameCount

\* A file changes, and the record of one master.
BothSet(W, V, f, r, m, q) ==
  /\ V \in Worlds /\ V.d = W.d /\ V.f[f] = r /\ V.m[m] = q
  /\ \A g \in Files \ {f} : V.f[g] = W.f[g]
  /\ \A n \in (Masters \cup {Fbdev}) \ {m} : V.m[n] = W.m[n]

LEMMA SetBoth ==
  ASSUME NEW W \in Worlds, NEW f \in Files, NEW r \in FileType,
         NEW m \in Masters \cup {Fbdev}, NEW q \in MasterType
  PROVE  BothSet(W, [W EXCEPT !.f = [W.f EXCEPT ![f] = r], !.m = [W.m EXCEPT ![m] = q]],
                 f, r, m, q)
<1> DEFINE F == [W.f EXCEPT ![f] = r]
           Q == [W.m EXCEPT ![m] = q]
           V == [W EXCEPT !.f = F, !.m = Q]
<1>1. F \in [Files -> FileType] /\ F[f] = r /\ \A g \in Files \ {f} : F[g] = W.f[g]
  BY Parts
<1>2. Q \in MastersType /\ Q[m] = q /\ \A n \in (Masters \cup {Fbdev}) \ {m} : Q[n] = W.m[n]
  BY Parts DEF MastersType
<1> HIDE DEF F, Q
<1>3. V \in Worlds /\ V.d = W.d /\ V.f = F /\ V.m = Q
  BY <1>1, <1>2 DEF Worlds
<1> HIDE DEF V
<1>4. QED
  BY <1>1, <1>2, <1>3 DEF F, Q, V, BothSet

LEMMA SameIsAlike ==
  ASSUME NEW W, NEW V \in Worlds, NEW f, \A g \in Files \ {f} : V.f[g] = W.f[g]
  PROVE  Others(W, V, f)
  BY DEF Others, Alike

\* What single handlers make of a world.
WithMagic(W, f, m) == [W EXCEPT !.f[f].magic = TRUE, !.m[m].magiclist = @ \cup {f}]
Authed(W, g, m) == [W EXCEPT !.f[g].authenticated = TRUE, !.m[m].magiclist = @ \ {g}]
AtPc(W, f, pc) == [W EXCEPT !.f[f].pc = pc]
LetIn(W, f, m) == [W EXCEPT !.f[f].pc = "in", !.m[m].readers = @ \cup {f}]
DropBegins(W, f) == [M!vmw_master_drop(W, f) EXCEPT !.d.global = f, !.f[f].pc = "drop"]
Released(W, f) == [M!drm_remove_magic(W, f) EXCEPT !.d.global = f]
MasterGoes(W, f) ==
  [M!vmw_master_drop(M!Deauthenticated(Released(W, f), f), f) EXCEPT !.f[f].pc = "closedrop"]
ClientGoes(W, f) == [Released(W, f) EXCEPT !.f[f].pc = "close"]

\* drm_getmagic.
LEMMA GetMagicKeeps ==
  ASSUME NEW W, Base(W), NEW f \in Files, W.f[f].pc = "idle", NEW m \in Masters,
         W.f[f].master = m
  PROVE  Keeps(W, WithMagic(W, f, m))
<1> DEFINE r == [W.f[f] EXCEPT !.magic = TRUE]
           q == [W.m[m] EXCEPT !.magiclist = W.m[m].magiclist \cup {f}]
           V == [W EXCEPT !.f = [W.f EXCEPT ![f] = r], !.m = [W.m EXCEPT ![m] = q]]
<1>1. /\ W \in Worlds /\ W.f[f] \in FileType /\ W.m[m] \in MasterType
      /\ FileOK(W.f[f], f, W.d) /\ m \in Masters \cup {Fbdev}
      /\ W.m[m].magiclist \cup {f} \in SUBSET Files
  BY Parts, RecordOf DEF Base, OwnersOK, MasterType
<1>2. /\ r \in FileType /\ r.magic /\ r.pc = W.f[f].pc /\ r.master = m /\ r.locked = W.f[f].locked
      /\ r.is_master = W.f[f].is_master /\ r.res = W.f[f].res
  BY <1>1 DEF FileType
<1>3. /\ q \in MasterType /\ SameLock(W.m[m], q) /\ q.readers = W.m[m].readers
      /\ q.magiclist = W.m[m].magiclist \cup {f}
  BY <1>1 DEF MasterType, SameLock
<1> HIDE DEF r, q
<1>4. BothSet(W, V, f, r, m, q)
  <2>1. W \in Worlds /\ r \in FileType /\ q \in MasterType /\ m \in Masters \cup {Fbdev}
    BY <1>1, <1>2, <1>3
  <2>2. QED
    BY <2>1, SetBoth
<1> HIDE DEF V
<1>5. Others(W, V, f)
  BY <1>4, SameIsAlike DEF BothSet
<1>6. FileOK(V.f[f], f, W.d)
  BY <1>1, <1>2, <1>4, FilesAssumption DEF FileOK, Dropping, BothSet
<1>7. \A n \in Masters : SameLock(W.m[n], V.m[n]) /\ V.m[n].readers = W.m[n].readers
  BY <1>3, <1>4 DEF SameLock, BothSet
<1>8. MagicsMove(W, V, f)
  <2> SUFFICES ASSUME NEW n \in Masters, V.m[n].refcount > 0
               PROVE  /\ W.m[n].refcount > 0 \/ V.m[n].magiclist = {}
                      /\ V.m[n].magiclist \subseteq W.m[n].magiclist \cup {f}
                      /\ f \in V.m[n].magiclist => Listed(V.f[f], n)
    BY DEF MagicsMove
  <2>1. W.m[n].refcount > 0
    BY <1>7 DEF SameLock
  <2>2. CASE n = m
    BY <1>2, <1>3, <1>4, <2>1, <2>2 DEF Listed, BothSet
  <2>3. CASE n # m
    <3>1. V.m[n] = W.m[n]
      BY <1>4, <2>3 DEF BothSet
    <3>2. f \notin W.m[n].magiclist
      BY <2>1, <2>3 DEF Base, Magics, Listed
    <3>3. QED
      BY <2>1, <3>1, <3>2
  <2>4. QED
    BY <2>2, <2>3
<1>9. QuietStep(W, V, f)
  BY <1>2, <1>4, <1>5, <1>6, <1>7, <1>8, QuietSame DEF BothSet
<1>10. Clients(W) => Entered(W, V, f)
  BY <1>2, <1>4, <1>7 DEF Entered, Clients, Inside, BothSet
<1>11. QED
  BY <1>9, <1>10, Quiet DEF V, r, q, WithMagic

\* drm_authmagic: the file that is authenticated leaves the list.
LEMMA AuthMagicKeeps ==
  ASSUME NEW W, Base(W), NEW m \in Masters, W.m[m].refcount > 0,
         NEW g \in W.m[m].magiclist
  PROVE  Keeps(W, Authed(W, g, m))
<1> DEFINE r == [W.f[g] EXCEPT !.authenticated = TRUE]
           q == [W.m[m] EXCEPT !.magiclist = W.m[m].magiclist \ {g}]
           V == [W EXCEPT !.f = [W.f EXCEPT ![g] = r], !.m = [W.m EXCEPT ![m] = q]]
<1>0. g \in Files /\ Listed(W.f[g], m)
  BY RecordOf DEF Base, Magics, MasterType
<1>1. /\ W \in Worlds /\ W.f[g] \in FileType /\ W.m[m] \in MasterType
      /\ FileOK(W.f[g], g, W.d) /\ m \in Masters \cup {Fbdev}
      /\ W.m[m].magiclist \ {g} \in SUBSET Files
  BY <1>0, Parts, RecordOf DEF Base, OwnersOK, MasterType
<1>2. /\ r \in FileType /\ r.magic = W.f[g].magic /\ r.pc = W.f[g].pc
      /\ r.master = W.f[g].master /\ r.locked = W.f[g].locked
      /\ r.is_master = W.f[g].is_master /\ r.res = W.f[g].res
  BY <1>1 DEF FileType
<1>3. /\ q \in MasterType /\ SameLock(W.m[m], q) /\ q.readers = W.m[m].readers
      /\ q.magiclist = W.m[m].magiclist \ {g}
  BY <1>1 DEF MasterType, SameLock
<1> HIDE DEF r, q
<1>4. BothSet(W, V, g, r, m, q)
  <2>1. W \in Worlds /\ r \in FileType /\ q \in MasterType /\ m \in Masters \cup {Fbdev} /\ g \in Files
    BY <1>0, <1>1, <1>2, <1>3
  <2>2. QED
    BY <2>1, SetBoth
<1> HIDE DEF V
<1>5. Others(W, V, g)
  BY <1>4, SameIsAlike DEF BothSet
<1>6. FileOK(V.f[g], g, W.d)
  BY <1>0, <1>1, <1>2, <1>4 DEF FileOK, Dropping, BothSet, Listed
<1>7. \A n \in Masters : SameLock(W.m[n], V.m[n]) /\ V.m[n].readers = W.m[n].readers
  BY <1>3, <1>4 DEF SameLock, BothSet
<1>8. MagicsMove(W, V, g)
  <2> SUFFICES ASSUME NEW n \in Masters, V.m[n].refcount > 0
               PROVE  /\ W.m[n].refcount > 0 \/ V.m[n].magiclist = {}
                      /\ V.m[n].magiclist \subseteq W.m[n].magiclist \cup {g}
                      /\ g \notin V.m[n].magiclist
    BY DEF MagicsMove
  <2>1. W.m[n].refcount > 0
    BY <1>7 DEF SameLock
  <2>2. CASE n = m
    BY <1>3, <1>4, <2>1, <2>2 DEF BothSet
  <2>3. CASE n # m
    <3>1. V.m[n] = W.m[n]
      BY <1>4, <2>3 DEF BothSet
    <3>2. g \notin W.m[n].magiclist
      BY <1>0, <2>1, <2>3 DEF Base, Magics, Listed
    <3>3. QED
      BY <2>1, <3>1, <3>2
  <2>4. QED
    BY <2>2, <2>3
<1>9. QuietStep(W, V, g)
  BY <1>0, <1>2, <1>4, <1>5, <1>6, <1>7, <1>8, QuietSame DEF BothSet
<1>10. Clients(W) => Entered(W, V, g)
  <2> SUFFICES ASSUME Clients(W) PROVE Entered(W, V, g)
    OBVIOUS
  <2>1. Inside(V.f[g]) => g \in V.m[m].readers
    BY <1>0, <1>2, <1>4, <1>7 DEF Clients, Inside, BothSet, Listed
  <2>2. V.f[g].master = m
    BY <1>0, <1>2, <1>4 DEF BothSet, Listed
  <2>3. QED
    BY <1>7, <2>1, <2>2 DEF Entered, Clients
<1>11. QED
  BY <1>0, <1>9, <1>10, Quiet DEF V, r, q, Authed

\* A file waits for its master's lock, goes in, or is told to go.
LEMMA PcKeeps ==
  ASSUME NEW W, Base(W), NEW f \in Files, NEW pc \in {"idle", "read", "killed", "in"},
         W.f[f].pc \in {"idle", "read", "in"},
         pc = "read" => f \notin Render,
         pc = "in" => W.f[f].master = NoMaster \/ W.f[f].is_master
  PROVE  Keeps(W, AtPc(W, f, pc))
<1> DEFINE r == [W.f[f] EXCEPT !.pc = pc]
           V == [W EXCEPT !.f = [W.f EXCEPT ![f] = r]]
<1>1. W \in Worlds /\ W.f[f] \in FileType /\ FileOK(W.f[f], f, W.d)
  BY Parts DEF Base, OwnersOK
<1>2. /\ r \in FileType /\ r.magic = W.f[f].magic /\ r.pc = pc
      /\ r.master = W.f[f].master /\ r.locked = W.f[f].locked
      /\ r.is_master = W.f[f].is_master /\ r.res = W.f[f].res
  BY <1>1 DEF FileType
<1> HIDE DEF r
<1>4. OnlyFile(W, V, f) /\ V.f[f] = r
  BY <1>1, <1>2, SetFile
<1> HIDE DEF V
<1>5. Others(W, V, f)
  BY <1>4, SameIsAlike DEF OnlyFile
<1>6. FileOK(V.f[f], f, W.d)
  BY <1>1, <1>2, <1>4 DEF FileOK, Dropping
<1>7. V.m = W.m /\ V.d = W.d /\ \A n \in Masters : SameLock(W.m[n], V.m[n])
  BY <1>4 DEF SameLock, OnlyFile
<1>8. MagicsMove(W, V, f)
  <2> SUFFICES ASSUME NEW n \in Masters, W.m[n].refcount > 0, f \in W.m[n].magiclist
               PROVE  Listed(V.f[f], n)
    BY <1>7 DEF MagicsMove
  <2>1. Listed(W.f[f], n)
    BY DEF Base, Magics
  <2>2. QED
    BY <1>2, <1>4, <2>1 DEF Listed
<1>9. QuietStep(W, V, f)
  BY <1>2, <1>4, <1>5, <1>6, <1>7, <1>8, QuietSame
<1>10. Clients(W) => Entered(W, V, f)
  <2> SUFFICES ASSUME Clients(W) PROVE Entered(W, V, f)
    OBVIOUS
  <2>1. ~Inside(V.f[f])
    BY <1>2, <1>4 DEF Inside
  <2>2. QED
    BY <1>7, <2>1 DEF Entered, Clients
<1>11. QED
  BY <1>9, <1>10, Quiet DEF V, r, AtPc

\* ttm_read_lock: nobody is let in under a master that is not the active one.
LEMMA ReadLockKeeps ==
  ASSUME NEW W, Base(W), NEW f \in Files, W.f[f].pc = "read", NEW m \in Masters,
         W.f[f].master = m, ~W.m[m].kill, W.m[m].vt = NoFile
  PROVE  Keeps(W, LetIn(W, f, m))
<1> DEFINE r == [W.f[f] EXCEPT !.pc = "in"]
           q == [W.m[m] EXCEPT !.readers = W.m[m].readers \cup {f}]
           V == [W EXCEPT !.f = [W.f EXCEPT ![f] = r], !.m = [W.m EXCEPT ![m] = q]]
<1>1. /\ W \in Worlds /\ W.f[f] \in FileType /\ W.m[m] \in MasterType
      /\ FileOK(W.f[f], f, W.d) /\ m \in Masters \cup {Fbdev}
      /\ W.m[m].readers \cup {f} \in SUBSET Files
  BY Parts, RecordOf DEF Base, OwnersOK, MasterType
<1>2. /\ r \in FileType /\ r.magic = W.f[f].magic /\ r.pc = "in" /\ r.master = m
      /\ r.locked = W.f[f].locked /\ r.is_master = W.f[f].is_master /\ r.res = W.f[f].res
  BY <1>1 DEF FileType
<1>3. /\ q \in MasterType /\ SameLock(W.m[m], q) /\ q.readers = W.m[m].readers \cup {f}
      /\ q.magiclist = W.m[m].magiclist
  BY <1>1 DEF MasterType, SameLock
<1> HIDE DEF r, q
<1>4. BothSet(W, V, f, r, m, q)
  <2>1. W \in Worlds /\ r \in FileType /\ q \in MasterType /\ m \in Masters \cup {Fbdev}
    BY <1>1, <1>2, <1>3
  <2>2. QED
    BY <2>1, SetBoth
<1> HIDE DEF V
<1>5. Others(W, V, f)
  BY <1>4, SameIsAlike DEF BothSet
<1>6. FileOK(V.f[f], f, W.d)
  BY <1>1, <1>2, <1>4 DEF FileOK, Dropping, BothSet
<1>7. \A n \in Masters : SameLock(W.m[n], V.m[n]) /\ V.m[n].magiclist = W.m[n].magiclist
  BY <1>3, <1>4 DEF SameLock, BothSet
<1>8. MagicsMove(W, V, f)
  <2> SUFFICES ASSUME NEW n \in Masters, W.m[n].refcount > 0, f \in W.m[n].magiclist
               PROVE  Listed(V.f[f], n)
    BY <1>7 DEF MagicsMove, SameLock
  <2>1. Listed(W.f[f], n)
    BY DEF Base, Magics
  <2>2. QED
    BY <1>2, <1>4, <2>1 DEF Listed, BothSet
<1>9. QuietStep(W, V, f)
  BY <1>2, <1>4, <1>5, <1>6, <1>7, <1>8, QuietSame DEF BothSet
<1>10. Clients(W) => Entered(W, V, f)
  <2> SUFFICES ASSUME Clients(W) PROVE Entered(W, V, f)
    OBVIOUS
  <2>1. W.m[m].refcount > 0
    BY Referenced
  <2>2. W.d.active = m
    BY <2>1 DEF Clients, Shut
  <2>3. \A n \in Masters \ {m} : V.m[n].readers = W.m[n].readers
    BY <1>4 DEF BothSet
  <2>4. V.m[m].readers = W.m[m].readers \cup {f} /\ V.f[f].master = m
    BY <1>2, <1>3, <1>4 DEF BothSet
  <2>5. \A n \in Masters : W.d.active # n => n # m /\ W.m[n].readers = {}
    BY <2>2 DEF Clients
  <2>6. QED
    BY <2>3, <2>4, <2>5 DEF Entered
<1>11. QED
  BY <1>9, <1>10, Quiet DEF V, r, q, LetIn

\* Done: the file leaves the ioctl and the lock of whichever master.
LEMMA DoneIs ==
  ASSUME NEW W \in Worlds, NEW f \in Files
  PROVE  LET V == M!Done(W, f) IN
         /\ V \in Worlds /\ V.d = W.d /\ Others(W, V, f)
         /\ SameFile(W.f[f], V.f[f], "idle", W.f[f].is_master, W.f[f].locked)
         /\ \A m \in Masters : /\ SameLock(W.m[m], V.m[m])
                               /\ V.m[m].readers = W.m[m].readers \ {f}
                               /\ V.m[m].magiclist = W.m[m].magiclist
<1> DEFINE r == [W.f[f] EXCEPT !.pc = "idle"]
           F == [W.f EXCEPT ![f] = r]
           Q == [m \in DOMAIN W.m |-> [W.m[m] EXCEPT !.readers = W.m[m].readers \ {f}]]
           V == [W EXCEPT !.f = F, !.m = Q]
<1>1. W.f[f] \in FileType /\ W.f \in [Files -> FileType] /\ DOMAIN W.m = Masters \cup {Fbdev}
  BY Parts DEF MastersType
<1>2. r \in FileType /\ SameFile(W.f[f], r, "idle", W.f[f].is_master, W.f[f].locked)
  BY <1>1 DEF FileType, SameFile
<1>3. \A m \in Masters \cup {Fbdev} :
        LET q == [W.m[m] EXCEPT !.readers = W.m[m].readers \ {f}] IN
        /\ q \in MasterType /\ SameLock(W.m[m], q) /\ q.readers = W.m[m].readers \ {f}
        /\ q.magiclist = W.m[m].magiclist
  BY RecordOf DEF MasterType, SameLock
<1>4. F \in [Files -> FileType] /\ F[f] = r /\ \A g \in Files \ {f} : F[g] = W.f[g]
  <2> HIDE DEF r
  <2> QED
    BY <1>1, <1>2
<1>5. /\ Q \in MastersType
      /\ \A m \in Masters : /\ SameLock(W.m[m], Q[m]) /\ Q[m].readers = W.m[m].readers \ {f}
                            /\ Q[m].magiclist = W.m[m].magiclist
  BY <1>1, <1>3 DEF MastersType
<1> HIDE DEF F, Q
<1>6. V \in Worlds /\ V.d = W.d /\ V.f = F /\ V.m = Q
  BY <1>4, <1>5 DEF Worlds
<1>7. M!Done(W, f) = V
  BY DEF M!Done, F, Q
<1> HIDE DEF V, r
<1>8. Others(W, V, f)
  BY <1>4, <1>6, SameIsAlike
<1>9. QED
  BY <1>2, <1>4, <1>5, <1>6, <1>7, <1>8

\* The resource that an ioctl makes or destroys, and the count of it.
LEMMA SetRes ==
  ASSUME NEW W \in Worlds, NEW f \in Files, NEW res \in {"none", "hw", "evicted"}
  PROVE  LET V == [W EXCEPT !.f[f].res = res] IN
         /\ V \in Worlds /\ V.d = W.d /\ V.m = W.m /\ \A g \in Files \ {f} : V.f[g] = W.f[g]
         /\ V.f[f].res = res /\ V.f[f].pc = W.f[f].pc /\ V.f[f].master = W.f[f].master
         /\ V.f[f].is_master = W.f[f].is_master /\ V.f[f].magic = W.f[f].magic
         /\ V.f[f].locked = W.f[f].locked
<1> DEFINE r == [W.f[f] EXCEPT !.res = res]
           V == [W EXCEPT !.f = [W.f EXCEPT ![f] = r]]
<1>1. W.f[f] \in FileType
  BY Parts
<1>2. /\ r \in FileType /\ r.magic = W.f[f].magic /\ r.pc = W.f[f].pc
      /\ r.master = W.f[f].master /\ r.locked = W.f[f].locked
      /\ r.is_master = W.f[f].is_master /\ r.res = res
  BY <1>1 DEF FileType
<1> HIDE DEF r
<1>3. OnlyFile(W, V, f) /\ V.f[f] = r
  BY <1>2, SetFile
<1> HIDE DEF V
<1>4. QED
  BY <1>2, <1>3 DEF OnlyFile, V, r

\* vmw_generic_ioctl: what has been counted is what the file has come to.
LEMMA IoctlKeeps ==
  ASSUME NEW W, Base(W), NEW f \in Files, W.f[f].pc = "in",
         NEW U \in Worlds, U.m = W.m, SameRest(W.d, U.d), \A g \in Files \ {f} : U.f[g] = W.f[g],
         U.f[f].pc = W.f[f].pc, U.f[f].master = W.f[f].master,
         U.f[f].is_master = W.f[f].is_master, U.f[f].magic = W.f[f].magic,
         U.f[f].locked = W.f[f].locked,
         U.d.n3d = W.d.n3d + (One(U.f[f].res = "hw") - One(W.f[f].res = "hw")),
         Counted(W.d) => Counted(U.d),
         U.d.hidden => W.d.hidden
  PROVE  Keeps(W, M!Done(U, f))
<1> DEFINE V == M!Done(U, f)
<1>1. /\ V \in Worlds /\ V.d = U.d /\ Others(U, V, f)
      /\ SameFile(U.f[f], V.f[f], "idle", U.f[f].is_master, U.f[f].locked)
      /\ \A m \in Masters : /\ SameLock(U.m[m], V.m[m])
                            /\ V.m[m].readers = U.m[m].readers \ {f}
                            /\ V.m[m].magiclist = U.m[m].magiclist
  BY DoneIs
<1> HIDE DEF V
<1>2. W \in Worlds /\ OwnersOK(W) /\ FileOK(W.f[f], f, W.d)
  BY DEF Base, OwnersOK
<1>3. Others(W, V, f)
  BY <1>1 DEF Others, Alike
<1>4. /\ V.f[f].pc = "idle" /\ V.f[f].master = W.f[f].master
      /\ V.f[f].is_master = W.f[f].is_master /\ V.f[f].locked = W.f[f].locked
      /\ V.f[f].magic = W.f[f].magic /\ V.f[f].res = U.f[f].res
  BY <1>1 DEF SameFile
<1>5. \A m \in Masters : /\ SameLock(W.m[m], V.m[m])
                         /\ V.m[m].readers = W.m[m].readers \ {f}
                         /\ V.m[m].magiclist = W.m[m].magiclist
  BY <1>1
<1>6. RefsMove(W, V, f)
  BY <1>1, <1>2, <1>4, <1>5, RefsCalm DEF SameLock, SameRest
<1>7. OwnersMove(W, V, f)
  BY <1>1, <1>2, <1>4 DEF OwnersMove, OwnersOK, SameRest, FileOK, Dropping
<1>8. MagicsMove(W, V, f)
  <2> SUFFICES ASSUME NEW n \in Masters, W.m[n].refcount > 0, f \in W.m[n].magiclist
               PROVE  Listed(V.f[f], n)
    BY <1>5 DEF MagicsMove, SameLock
  <2>1. Listed(W.f[f], n)
    BY DEF Base, Magics
  <2>2. QED
    BY <1>4, <2>1 DEF Listed
<1>9. Clients(W) => ClientsMove(W, V, f)
  <2> SUFFICES ASSUME Clients(W) PROVE ClientsMove(W, V, f)
    OBVIOUS
  <2>1. ~Inside(V.f[f])
    BY <1>4 DEF Inside
  <2>2. \A m \in Masters : V.d.active # m => V.m[m].readers = {} /\ Shut(V.m[m])
    BY <1>1, <1>5 DEF Clients, Shut, SameLock, SameRest
  <2>3. \A m \in Masters : W.m[m].readers \subseteq V.m[m].readers \cup {f}
    BY <1>5
  <2>4. QED
    BY <2>1, <2>2, <2>3 DEF ClientsMove
<1>10. ThreeD(W) => ThreeDMove(W, V, f)
  <2> SUFFICES ASSUME ThreeD(W) PROVE ThreeDMove(W, V, f)
    OBVIOUS
  <2>1. W.d.n3d \in Int /\ Counting(W.d) \in Int /\ Counting(V.d) = Counting(W.d)
    BY <1>1, <1>2, Parts DEF DeviceType, Counting, One, SameRest
  <2>2. V.d.n3d = W.d.n3d + (One(V.f[f].res = "hw") - One(W.f[f].res = "hw"))
                 + (Counting(V.d) - Counting(W.d))
    BY <1>1, <1>4, <2>1 DEF One
  <2>3. Counted(V.d) /\ (V.d.active # Fbdev \/ V.d.enable_fb => ~V.d.hidden)
    BY <1>1 DEF ThreeD, SameRest
  <2>4. QED
    BY <2>2, <2>3 DEF ThreeDMove
<1>11. QED
  BY <1>3, <1>6, <1>7, <1>8, <1>9, <1>10, KeepsStep DEF V

-----------------------------------------------------------------------------
(* Masters come and go. *)

\* One field of a file, or of the device.
LEMMA SetPc ==
  ASSUME NEW W \in Worlds, NEW f \in Files,
         NEW pc \in {"closed", "idle", "drop", "closedrop", "close", "read", "in", "killed"}
  PROVE  LET V == [W EXCEPT !.f[f].pc = pc] IN
         OnlyFile(W, V, f) /\ SameFile(W.f[f], V.f[f], pc, W.f[f].is_master, W.f[f].locked)
<1> DEFINE r == [W.f[f] EXCEPT !.pc = pc]
           V == [W EXCEPT !.f = [W.f EXCEPT ![f] = r]]
<1>1. W.f[f] \in FileType
  BY Parts
<1>2. r \in FileType /\ SameFile(W.f[f], r, pc, W.f[f].is_master, W.f[f].locked)
  BY <1>1 DEF FileType, SameFile
<1> HIDE DEF r
<1>3. OnlyFile(W, V, f) /\ V.f[f] = r
  BY <1>2, SetFile
<1> HIDE DEF V
<1>4. QED
  BY <1>2, <1>3 DEF V, r

LEMMA SetLocked ==
  ASSUME NEW W \in Worlds, NEW f \in Files, NEW m \in Owners
  PROVE  LET V == [W EXCEPT !.f[f].locked = m] IN
         OnlyFile(W, V, f) /\ SameFile(W.f[f], V.f[f], W.f[f].pc, W.f[f].is_master, m)
<1> DEFINE r == [W.f[f] EXCEPT !.locked = m]
           V == [W EXCEPT !.f = [W.f EXCEPT ![f] = r]]
<1>1. W.f[f] \in FileType
  BY Parts
<1>2. r \in FileType /\ SameFile(W.f[f], r, W.f[f].pc, W.f[f].is_master, m)
  BY <1>1 DEF FileType, SameFile
<1> HIDE DEF r
<1>3. OnlyFile(W, V, f) /\ V.f[f] = r
  BY <1>2, SetFile
<1> HIDE DEF V
<1>4. QED
  BY <1>2, <1>3 DEF V, r

LEMMA SetMasterBit ==
  ASSUME NEW W \in Worlds, NEW f \in Files, NEW b \in BOOLEAN
  PROVE  LET V == [W EXCEPT !.f[f].is_master = b] IN
         OnlyFile(W, V, f) /\ SameFile(W.f[f], V.f[f], W.f[f].pc, b, W.f[f].locked)
<1> DEFINE r == [W.f[f] EXCEPT !.is_master = b]
           V == [W EXCEPT !.f = [W.f EXCEPT ![f] = r]]
<1>1. W.f[f] \in FileType
  BY Parts
<1>2. r \in FileType /\ SameFile(W.f[f], r, W.f[f].pc, b, W.f[f].locked)
  BY <1>1 DEF FileType, SameFile
<1> HIDE DEF r
<1>3. OnlyFile(W, V, f) /\ V.f[f] = r
  BY <1>2, SetFile
<1> HIDE DEF V
<1>4. QED
  BY <1>2, <1>3 DEF V, r

\* What the invariant says of the device is not about who holds the mutexes.
SameDevice(d, e) == SameCount(d, e) /\ e.minor = d.minor /\ (d.bug => e.bug)

SetDevice(W, V) == V \in Worlds /\ V.f = W.f /\ V.m = W.m

LEMMA SetGlobal ==
  ASSUME NEW W \in Worlds, NEW g \in Files \cup {NoFile}
  PROVE  LET V == [W EXCEPT !.d.global = g] IN SetDevice(W, V) /\ SameDevice(W.d, V.d)
<1> DEFINE d == [W.d EXCEPT !.global = g]
           V == [W EXCEPT !.d = d]
<1>1. d \in DeviceType /\ SameDevice(W.d, d)
  BY Parts DEF DeviceType, SameDevice, SameCount
<1> HIDE DEF d
<1>2. V \in Worlds /\ V.f = W.f /\ V.m = W.m /\ V.d = d
  BY <1>1, SetD
<1> HIDE DEF V
<1>3. QED
  BY <1>1, <1>2 DEF V, d, SetDevice

LEMMA SetMinor ==
  ASSUME NEW W \in Worlds, NEW m \in Owners
  PROVE  LET V == [W EXCEPT !.d.minor = m] IN
         SetDevice(W, V) /\ SameCount(W.d, V.d) /\ V.d.minor = m /\ V.d.bug = W.d.bug
<1> DEFINE d == [W.d EXCEPT !.minor = m]
           V == [W EXCEPT !.d = d]
<1>1. d \in DeviceType /\ SameCount(W.d, d) /\ d.minor = m /\ d.bug = W.d.bug
  BY Parts DEF DeviceType, SameCount
<1> HIDE DEF d
<1>2. V \in Worlds /\ V.f = W.f /\ V.m = W.m /\ V.d = d
  BY <1>1, SetD
<1> HIDE DEF V
<1>3. QED
  BY <1>1, <1>2 DEF V, d, SetDevice

\* vmw_master_drop: the file takes a reference for the lock.
LEMMA MasterDropIs ==
  ASSUME NEW W \in Worlds, NEW f \in Files, NEW m \in Masters, W.f[f].master = m
  PROVE  LET V == M!vmw_master_drop(W, f) IN
         /\ V \in Worlds /\ V.d = W.d /\ \A g \in Files \ {f} : V.f[g] = W.f[g]
         /\ SameFile(W.f[f], V.f[f], W.f[f].pc, W.f[f].is_master, m)
         /\ \A n \in Masters \ {m} : V.m[n] = W.m[n]
         /\ Given(W.m[m], V.m[m], W.m[m].vt, W.m[m].kill, W.m[m].refcount + 1)
<1> DEFINE U == M!drm_master_get(W, m)
           V == [U EXCEPT !.f[f].locked = m]
<1>1. /\ U \in Worlds /\ OnlyMaster(W, U, m)
      /\ U.m[m] = [W.m[m] EXCEPT !.refcount = W.m[m].refcount + 1]
      /\ W.m[m] \in MasterType /\ m \in Owners
  BY GetIs, RecordOf DEF Owners
<1> HIDE DEF U
<1>2. OnlyFile(U, V, f) /\ SameFile(U.f[f], V.f[f], U.f[f].pc, U.f[f].is_master, m)
  BY <1>1, SetLocked
<1>3. M!vmw_master_drop(W, f) = V
  BY DEF M!vmw_master_drop, U
<1> HIDE DEF V
<1>4. Given(W.m[m], U.m[m], W.m[m].vt, W.m[m].kill, W.m[m].refcount + 1)
  BY <1>1 DEF Given, MasterType
<1>5. QED
  BY <1>1, <1>2, <1>3, <1>4 DEF OnlyMaster, OnlyFile

\* A master gives up its place: it goes on when its lock is free.
DropStep(W, V, f, m, pc) ==
  /\ Others(W, V, f) /\ SameFile(W.f[f], V.f[f], pc, TRUE, m) /\ SameDevice(W.d, V.d)
  /\ \A n \in Masters \ {m} : V.m[n] = W.m[n]
  /\ V.m[m].refcount = W.m[m].refcount + 1
  /\ V.m[m].vt = W.m[m].vt /\ V.m[m].kill = W.m[m].kill /\ V.m[m].readers = W.m[m].readers
  /\ V.m[m].magiclist \subseteq W.m[m].magiclist
  /\ pc = "closedrop" => f \notin V.m[m].magiclist

LEMMA DropKeeps ==
  ASSUME NEW W, Base(W), ~W.d.bug, NEW f \in Files, W.f[f].pc \in {"idle", "killed"},
         W.f[f].is_master, NEW m \in Masters, W.f[f].master = m,
         NEW V, NEW pc \in {"drop", "closedrop"}, DropStep(W, V, f, m, pc)
  PROVE  Keeps(W, V)
<1> USE DEF DropStep
<1>1. W \in Worlds /\ OwnersOK(W) /\ FileOK(W.f[f], f, W.d) /\ W.f[f].locked = NoMaster
  BY DEF Base, OwnersOK, FileOK, Dropping
<1>2. RefsMove(W, V, f)
  <2> SUFFICES ASSUME NEW n \in Masters
               PROVE  V.m[n].refcount = W.m[n].refcount
                        + (One(V.d.minor = n) - One(W.d.minor = n))
                        + (One(V.f[f].master = n) - One(W.f[f].master = n))
                        + (One(V.f[f].locked = n) - One(W.f[f].locked = n))
    BY DEF RefsMove
  <2>1. W.m[n].refcount \in Int /\ V.d.minor = W.d.minor /\ V.f[f].master = W.f[f].master
        /\ V.f[f].locked = m /\ W.f[f].locked # n
    BY <1>1, RecordOf, FilesAssumption DEF SameDevice, SameFile
  <2>2. QED
    BY <2>1 DEF One
<1>3. OwnersMove(W, V, f)
  <2>1. FileOK(V.f[f], f, V.d)
    BY <1>1 DEF FileOK, SameFile, SameDevice, Dropping
  <2>2. QED
    BY <1>1, <2>1 DEF OwnersMove, OwnersOK, SameDevice, SameCount, SameFile
<1>4. MagicsMove(W, V, f)
  <2> SUFFICES ASSUME NEW n \in Masters, V.m[n].refcount > 0
               PROVE  /\ W.m[n].refcount > 0 \/ V.m[n].magiclist = {}
                      /\ V.m[n].magiclist \subseteq W.m[n].magiclist \cup {f}
                      /\ f \in V.m[n].magiclist => Listed(V.f[f], n)
    BY DEF MagicsMove
  <2>1. W.m[n].refcount > 0
    BY Referenced
  <2>2. V.m[n].magiclist \subseteq W.m[n].magiclist
    OBVIOUS
  <2>3. ASSUME f \in V.m[n].magiclist PROVE Listed(V.f[f], n)
    <3>1. Listed(W.f[f], n)
      BY <2>1, <2>2, <2>3 DEF Base, Magics
    <3>2. n = m /\ pc = "drop"
      BY <2>3, <3>1 DEF Listed
    <3>3. QED
      BY <3>1, <3>2 DEF Listed, SameFile
  <2>4. QED
    BY <2>1, <2>2, <2>3
<1>5. Clients(W) => ClientsMove(W, V, f)
  <2> SUFFICES ASSUME Clients(W) PROVE ClientsMove(W, V, f)
    OBVIOUS
  <2>1. ~Inside(V.f[f])
    BY DEF Inside, SameFile
  <2>2. \A n \in Masters : V.m[n].readers = W.m[n].readers
    OBVIOUS
  <2>3. ASSUME NEW n \in Masters, V.d.active # n PROVE V.m[n].readers = {} /\ Shut(V.m[n])
    <3>1. W.m[n].readers = {} /\ Shut(W.m[n])
      BY <2>3 DEF Clients, SameDevice, SameCount
    <3>2. n = m => W.m[n].refcount > 0
      BY Referenced
    <3>3. QED
      BY <2>2, <3>1, <3>2 DEF Shut
  <2>4. QED
    BY <2>1, <2>2, <2>3 DEF ClientsMove
<1>6. ThreeD(W) => ThreeDMove(W, V, f)
  BY <1>1, ThreeDCalm DEF SameDevice, SameFile
<1>7. QED
  BY <1>2, <1>3, <1>4, <1>5, <1>6, KeepsStep

LEMMA Typing ==
  ASSUME NEW W, Base(W), NEW f \in Files
  PROVE  /\ W \in Worlds /\ FileOK(W.f[f], f, W.d) /\ W.f[f].master \in Owners
         /\ W.f[f].is_master => W.f[f].master \in Masters
  BY Parts DEF Base, OwnersOK, FileOK, FileType, Owners

\* drm_dropmaster_ioctl.
LEMMA DropMasterKeeps ==
  ASSUME NEW W, Base(W), ~W.d.bug, NEW f \in Files, W.f[f].pc = "idle", W.f[f].is_master
  PROVE  Keeps(W, DropBegins(W, f))
<1> DEFINE m == W.f[f].master
           U == M!vmw_master_drop(W, f)
           X == [U EXCEPT !.d.global = f]
           V == [X EXCEPT !.f[f].pc = "drop"]
<1>1. W \in Worlds /\ m \in Masters
  BY Typing
<1>2. /\ U \in Worlds /\ U.d = W.d /\ \A g \in Files \ {f} : U.f[g] = W.f[g]
      /\ SameFile(W.f[f], U.f[f], W.f[f].pc, W.f[f].is_master, m)
      /\ \A n \in Masters \ {m} : U.m[n] = W.m[n]
      /\ Given(W.m[m], U.m[m], W.m[m].vt, W.m[m].kill, W.m[m].refcount + 1)
  BY <1>1, MasterDropIs
<1> HIDE DEF U
<1>3. SetDevice(U, X) /\ SameDevice(U.d, X.d)
  BY <1>2, SetGlobal
<1> HIDE DEF X
<1>4. OnlyFile(X, V, f) /\ SameFile(X.f[f], V.f[f], "drop", X.f[f].is_master, X.f[f].locked)
  BY <1>3, SetPc DEF SetDevice
<1>5. V = [U EXCEPT !.d.global = f, !.f[f].pc = "drop"]
  BY DEF X
<1> HIDE DEF V, m
<1>6. V \in Worlds /\ V.m = U.m /\ V.d = X.d /\ \A g \in Files \ {f} : V.f[g] = W.f[g]
  BY <1>2, <1>3, <1>4 DEF OnlyFile, SetDevice
<1>7. SameFile(W.f[f], V.f[f], "drop", TRUE, m)
  BY <1>2, <1>3, <1>4 DEF SameFile, SetDevice
<1>8. Others(W, V, f) /\ SameDevice(W.d, V.d)
  BY <1>2, <1>3, <1>6, SameIsAlike
<1>9. Keeps(W, V)
  <2>1. DropStep(W, V, f, m, "drop")
    BY <1>1, <1>2, <1>6, <1>7, <1>8 DEF Given, DropStep
  <2>2. QED
    BY <1>1, <2>1, DropKeeps DEF m
<1>10. QED
  BY <1>5, <1>9 DEF U, DropBegins

\* drm_remove_magic: no list of a master has the file any more.
LEMMA RemoveMagicIs ==
  ASSUME NEW W, Base(W), NEW f \in Files
  PROVE  LET V == M!drm_remove_magic(W, f) IN
         /\ V \in Worlds /\ V.f = W.f /\ V.d = W.d
         /\ \A n \in Masters :
              /\ SameLock(W.m[n], V.m[n]) /\ V.m[n].readers = W.m[n].readers
              /\ V.m[n].magiclist \subseteq W.m[n].magiclist
              /\ W.m[n].refcount > 0 => f \notin V.m[n].magiclist
              /\ n # W.f[f].master => V.m[n] = W.m[n]
<1> DEFINE m == W.f[f].master
           V == M!drm_remove_magic(W, f)
<1>1. W \in Worlds /\ FileOK(W.f[f], f, W.d) /\ m \in Owners
  BY Typing
<1>2. CASE ~W.f[f].magic
  <2>1. V = W
    BY <1>2 DEF M!drm_remove_magic
  <2>2. ASSUME NEW n \in Masters, W.m[n].refcount > 0 PROVE f \notin W.m[n].magiclist
    BY <1>2, <2>2 DEF Base, Magics, Listed
  <2>3. QED
    BY <1>1, <2>1, <2>2 DEF SameLock
<1>3. CASE W.f[f].magic
  <2> DEFINE q == [W.m[m] EXCEPT !.magiclist = W.m[m].magiclist \ {f}]
             Z == [W EXCEPT !.m = [W.m EXCEPT ![m] = q]]
  <2>1. m \in Masters /\ m \in Masters \cup {Fbdev}
    BY <1>1, <1>3 DEF FileOK, Owners
  <2>2. W.m[m] \in MasterType /\ W.m[m].magiclist \ {f} \in SUBSET Files
    BY <1>1, <2>1, RecordOf DEF MasterType
  <2>3. /\ q \in MasterType /\ SameLock(W.m[m], q) /\ q.readers = W.m[m].readers
        /\ q.magiclist = W.m[m].magiclist \ {f}
    BY <2>2 DEF MasterType, SameLock
  <2>4. V = Z
    BY <1>3 DEF M!drm_remove_magic
  <2> HIDE DEF q, m
  <2>5. OnlyMaster(W, Z, m) /\ Z.m[m] = q
    BY <1>1, <2>1, <2>3, SetMaster
  <2> HIDE DEF Z, V
  <2>6. ASSUME NEW n \in Masters
        PROVE  /\ SameLock(W.m[n], V.m[n]) /\ V.m[n].readers = W.m[n].readers
               /\ V.m[n].magiclist \subseteq W.m[n].magiclist
               /\ W.m[n].refcount > 0 => f \notin V.m[n].magiclist
               /\ n # m => V.m[n] = W.m[n]
    <3>1. CASE n = m
      BY <2>3, <2>4, <2>5, <3>1
    <3>2. CASE n # m
      <4>1. V.m[n] = W.m[n]
        BY <2>4, <2>5, <3>2 DEF OnlyMaster
      <4>2. W.m[n].refcount > 0 => f \notin W.m[n].magiclist
        BY <3>2 DEF Base, Magics, Listed, m
      <4>3. QED
        BY <4>1, <4>2 DEF SameLock
    <3>3. QED
      BY <3>1, <3>2
  <2>7. QED
    BY <2>4, <2>5, <2>6 DEF OnlyMaster, V, m
<1>4. QED
  BY <1>2, <1>3

\* The clients of a master that exits are no longer authenticated.
LEMMA DeauthenticatedIs ==
  ASSUME NEW W \in Worlds, NEW f \in Files
  PROVE  LET V == M!Deauthenticated(W, f) IN
         /\ V \in Worlds /\ V.m = W.m /\ V.d = W.d
         /\ V.f[f] = W.f[f] /\ \A g \in Files : Alike(W.f[g], V.f[g])
<1> DEFINE r(g) == IF g # f /\ W.f[g].master = W.f[f].master /\ W.f[g].pc # "closed"
                   THEN [W.f[g] EXCEPT !.authenticated = FALSE] ELSE W.f[g]
           F == [g \in Files |-> r(g)]
           V == [W EXCEPT !.f = F]
<1>1. ASSUME NEW g \in Files PROVE r(g) \in FileType /\ Alike(W.f[g], r(g))
  <2>1. W.f[g] \in FileType
    BY Parts
  <2>2. /\ [W.f[g] EXCEPT !.authenticated = FALSE] \in FileType
        /\ W.f[g].pc # "closed" => Alike(W.f[g], [W.f[g] EXCEPT !.authenticated = FALSE])
        /\ Alike(W.f[g], W.f[g])
    BY <2>1 DEF FileType, Alike
  <2>3. QED
    BY <2>1, <2>2
<1>2. r(f) = W.f[f]
  OBVIOUS
<1> HIDE DEF r
<1>3. F \in [Files -> FileType] /\ F[f] = W.f[f] /\ \A g \in Files : Alike(W.f[g], F[g])
  BY <1>1, <1>2
<1> HIDE DEF F
<1>4. V \in Worlds /\ V.m = W.m /\ V.d = W.d /\ V.f = F
  BY <1>3, SetF
<1>5. M!Deauthenticated(W, f) = V
  BY DEF M!Deauthenticated, F, r
<1> HIDE DEF V
<1>6. QED
  BY <1>3, <1>4, <1>5

\* drm_release of a master ...
LEMMA ReleaseMasterKeeps ==
  ASSUME NEW W, Base(W), ~W.d.bug, NEW f \in Files, W.f[f].pc \in {"idle", "killed"},
         W.f[f].is_master
  PROVE  Keeps(W, MasterGoes(W, f))
<1> DEFINE m == W.f[f].master
           X == M!drm_remove_magic(W, f)
           Y == [X EXCEPT !.d.global = f]
           Z == M!Deauthenticated(Y, f)
           U == M!vmw_master_drop(Z, f)
           V == [U EXCEPT !.f[f].pc = "closedrop"]
<1>1. W \in Worlds /\ m \in Masters
  BY Typing
<1>2. /\ X \in Worlds /\ X.f = W.f /\ X.d = W.d
      /\ \A n \in Masters :
           /\ SameLock(W.m[n], X.m[n]) /\ X.m[n].readers = W.m[n].readers
           /\ X.m[n].magiclist \subseteq W.m[n].magiclist
           /\ W.m[n].refcount > 0 => f \notin X.m[n].magiclist
           /\ n # W.f[f].master => X.m[n] = W.m[n]
  BY RemoveMagicIs
<1> HIDE DEF X
<1>3. SetDevice(X, Y) /\ SameDevice(X.d, Y.d)
  BY <1>2, SetGlobal
<1> HIDE DEF Y
<1>4. /\ Z \in Worlds /\ Z.m = Y.m /\ Z.d = Y.d
      /\ Z.f[f] = Y.f[f] /\ \A g \in Files : Alike(Y.f[g], Z.f[g])
  BY <1>3, DeauthenticatedIs DEF SetDevice
<1> HIDE DEF Z
<1>5. Z.f[f] = W.f[f] /\ \A g \in Files : Alike(W.f[g], Z.f[g])
  BY <1>2, <1>3, <1>4 DEF SetDevice
<1>6. /\ U \in Worlds /\ U.d = Z.d /\ \A g \in Files \ {f} : U.f[g] = Z.f[g]
      /\ SameFile(Z.f[f], U.f[f], Z.f[f].pc, Z.f[f].is_master, m)
      /\ \A n \in Masters \ {m} : U.m[n] = Z.m[n]
      /\ Given(Z.m[m], U.m[m], Z.m[m].vt, Z.m[m].kill, Z.m[m].refcount + 1)
  BY <1>1, <1>4, <1>5, MasterDropIs
<1> HIDE DEF U
<1>7. OnlyFile(U, V, f) /\ SameFile(U.f[f], V.f[f], "closedrop", U.f[f].is_master, U.f[f].locked)
  BY <1>6, SetPc
<1> HIDE DEF V
<1>8. V \in Worlds /\ V.d = Y.d /\ V.m = U.m /\ Z.m = X.m
  BY <1>3, <1>4, <1>6, <1>7 DEF OnlyFile, SetDevice
<1>9. Others(W, V, f)
  BY <1>5, <1>6, <1>7, <1>8 DEF OnlyFile, Others, Alike
<1>10. SameFile(W.f[f], V.f[f], "closedrop", TRUE, m)
  BY <1>5, <1>6, <1>7 DEF SameFile
<1>11. SameDevice(W.d, V.d)
  BY <1>2, <1>3, <1>8
<1>12. W.m[m].refcount > 0
  BY <1>1, Referenced
<1>13. Keeps(W, V)
  <2>1. \A n \in Masters \ {m} : V.m[n] = W.m[n]
    BY <1>2, <1>6, <1>8
  <2>2. /\ V.m[m].refcount = W.m[m].refcount + 1
        /\ V.m[m].vt = W.m[m].vt /\ V.m[m].kill = W.m[m].kill /\ V.m[m].readers = W.m[m].readers
        /\ V.m[m].magiclist \subseteq W.m[m].magiclist /\ f \notin V.m[m].magiclist
    <3>1. /\ SameLock(W.m[m], X.m[m]) /\ X.m[m].readers = W.m[m].readers
          /\ X.m[m].magiclist \subseteq W.m[m].magiclist /\ f \notin X.m[m].magiclist
      BY <1>1, <1>2, <1>12
    <3>2. Given(X.m[m], V.m[m], X.m[m].vt, X.m[m].kill, X.m[m].refcount + 1)
      BY <1>6, <1>8
    <3>3. QED
      BY <3>1, <3>2 DEF SameLock, Given
  <2>3. DropStep(W, V, f, m, "closedrop")
    BY <1>9, <1>10, <1>11, <2>1, <2>2 DEF DropStep
  <2>4. QED
    BY <1>1, <2>3, DropKeeps DEF m
<1>14. QED
  BY <1>13 DEF U, V, X, Y, Z, MasterGoes, Released

\* ... and of any other file.
LEMMA ReleaseClientKeeps ==
  ASSUME NEW W, Base(W), NEW f \in Files, W.f[f].pc \in {"idle", "killed"}, ~W.f[f].is_master
  PROVE  Keeps(W, ClientGoes(W, f))
<1> DEFINE X == M!drm_remove_magic(W, f)
           Y == [X EXCEPT !.d.global = f]
           V == [Y EXCEPT !.f[f].pc = "close"]
<1>1. W \in Worlds /\ FileOK(W.f[f], f, W.d)
  BY Typing
<1>2. /\ X \in Worlds /\ X.f = W.f /\ X.d = W.d
      /\ \A n \in Masters :
           /\ SameLock(W.m[n], X.m[n]) /\ X.m[n].readers = W.m[n].readers
           /\ X.m[n].magiclist \subseteq W.m[n].magiclist
           /\ W.m[n].refcount > 0 => f \notin X.m[n].magiclist
  BY RemoveMagicIs
<1> HIDE DEF X
<1>3. SetDevice(X, Y) /\ SameDevice(X.d, Y.d)
  BY <1>2, SetGlobal
<1> HIDE DEF Y
<1>4. OnlyFile(Y, V, f) /\ SameFile(Y.f[f], V.f[f], "close", Y.f[f].is_master, Y.f[f].locked)
  BY <1>3, SetPc DEF SetDevice
<1> HIDE DEF V
<1>5. V \in Worlds /\ V.m = X.m /\ V.d = Y.d /\ \A g \in Files \ {f} : V.f[g] = W.f[g]
  BY <1>2, <1>3, <1>4 DEF OnlyFile, SetDevice
<1>6. SameFile(W.f[f], V.f[f], "close", FALSE, W.f[f].locked)
  BY <1>2, <1>3, <1>4 DEF SameFile, SetDevice
<1>7. Others(W, V, f) /\ SameDevice(W.d, V.d)
  BY <1>2, <1>3, <1>5, SameIsAlike
<1>8. FileOK(V.f[f], f, V.d)
  BY <1>1, <1>6 DEF FileOK, Dropping, SameFile
<1>9. MagicsMove(W, V, f)
  BY <1>2, <1>5 DEF MagicsMove, SameLock
<1>10. QuietStep(W, V, f)
  <2>1. V.m = X.m /\ \A n \in Masters : SameLock(W.m[n], V.m[n])
    BY <1>2, <1>5
  <2>2. /\ V.f[f].master = W.f[f].master /\ V.f[f].is_master = W.f[f].is_master
        /\ V.f[f].locked = W.f[f].locked /\ V.f[f].res = W.f[f].res
    <3>1. W.f[f].is_master = FALSE
      BY <1>1, Parts DEF FileType
    <3>2. QED
      BY <1>6, <3>1 DEF SameFile
  <2>3. QED
    BY <1>7, <1>8, <1>9, <2>1, <2>2 DEF QuietStep, SameDevice
<1>11. Clients(W) => Entered(W, V, f)
  <2> SUFFICES ASSUME Clients(W) PROVE Entered(W, V, f)
    OBVIOUS
  <2>1. ~Inside(V.f[f])
    BY <1>6 DEF Inside, SameFile
  <2>2. \A n \in Masters : V.m[n].readers = W.m[n].readers
    BY <1>2, <1>5
  <2>3. QED
    BY <2>1, <2>2 DEF Entered, Clients
<1>12. QED
  BY <1>10, <1>11, Quiet DEF V, X, Y, ClientGoes, Released

\* DropLocked: the lock is had when nobody is inside, or not at all.
GoesOn(U, V, f, pc) ==
  /\ V \in Worlds /\ V.m = U.m /\ SameDevice(U.d, V.d)
  /\ \A g \in Files \ {f} : V.f[g] = U.f[g]
  /\ SameFile(U.f[f], V.f[f], pc, U.f[f].is_master, U.f[f].locked)

LEMMA DropLockedKeeps ==
  ASSUME NEW W, Base(W), NEW f \in Files, NEW m \in Masters, W.f[f].master = m,
         Dropping(W.f[f]), NEW locked \in BOOLEAN,
         locked \/ "vt" \in Faults, locked => W.m[m].readers = {},
         NEW V, NEW pc \in {"idle", "close"}, pc = "idle" <=> W.f[f].pc = "drop",
         NEW U, Dropped(W, U, f, m, locked), GoesOn(U, V, f, pc)
  PROVE  Keeps(W, V)
<1> DEFINE left == IF locked THEN m ELSE NoMaster
<1> USE DEF GoesOn
<1>1. /\ W \in Worlds /\ OwnersOK(W) /\ FileOK(W.f[f], f, W.d)
      /\ W.f[f].is_master /\ W.f[f].locked = m /\ W.d.minor = m /\ W.d.active = m
      /\ m # NoMaster /\ m # Fbdev
  BY FilesAssumption DEF Base, OwnersOK, FileOK
<1>2. /\ \A n \in Masters \ {m} : V.m[n] = W.m[n]
      /\ \A g \in Files \ {f} : V.f[g] = W.f[g]
      /\ Given(W.m[m], V.m[m], IF locked THEN f ELSE W.m[m].vt, FALSE,
               W.m[m].refcount - (IF locked THEN 1 ELSE 2))
      /\ SameFile(W.f[f], V.f[f], pc, FALSE, left)
  BY <1>1 DEF Dropped, SameFile
<1>3. /\ V.d.enable_fb = W.d.enable_fb /\ V.d.pm = W.d.pm /\ (W.d.bug => V.d.bug)
      /\ V.d.minor = NoMaster /\ V.d.active = Fbdev /\ V.d.n3d = W.d.n3d - One(~W.d.enable_fb)
      /\ Counted(W.d) => Counted(V.d)
      /\ V.d.hidden => W.d.hidden \/ ~W.d.enable_fb
  BY DEF Dropped, SameDevice, SameCount, Counted
<1> HIDE DEF left
<1>4. Others(W, V, f)
  BY <1>2, SameIsAlike
<1>5. RefsMove(W, V, f)
  <2> SUFFICES ASSUME NEW n \in Masters
               PROVE  V.m[n].refcount = W.m[n].refcount
                        + (One(V.d.minor = n) - One(W.d.minor = n))
                        + (One(V.f[f].master = n) - One(W.f[f].master = n))
                        + (One(V.f[f].locked = n) - One(W.f[f].locked = n))
    BY DEF RefsMove
  <2>1. W.m[n].refcount \in Int /\ V.d.minor # n /\ V.f[f].master = W.f[f].master
        /\ V.f[f].locked = left /\ n # NoMaster
    BY <1>1, <1>2, <1>3, RecordOf, FilesAssumption DEF SameFile
  <2>2. CASE n = m
    BY <1>1, <1>2, <2>1, <2>2 DEF One, Given, left
  <2>3. CASE n # m
    BY <1>1, <1>2, <2>1, <2>3 DEF One, left
  <2>4. QED
    BY <2>2, <2>3
<1>6. OwnersMove(W, V, f)
  <2>1. FileOK(V.f[f], f, V.d)
    BY <1>1, <1>2 DEF FileOK, SameFile, Dropping
  <2>2. QED
    BY <1>1, <1>2, <1>3, <2>1 DEF OwnersMove, SameFile
<1>7. MagicsMove(W, V, f)
  <2> SUFFICES ASSUME NEW n \in Masters, V.m[n].refcount > 0
               PROVE  /\ W.m[n].refcount > 0
                      /\ V.m[n].magiclist \subseteq W.m[n].magiclist
                      /\ f \in V.m[n].magiclist => Listed(V.f[f], n)
    BY DEF MagicsMove
  <2>1. W.m[n].refcount > 0 /\ V.m[n].magiclist = W.m[n].magiclist
    <3>1. CASE n = m
      BY <1>1, <1>2, <3>1, Referenced DEF Given
    <3>2. CASE n # m
      BY <1>2, <3>2
    <3>3. QED
      BY <3>1, <3>2
  <2>2. ASSUME f \in V.m[n].magiclist PROVE Listed(V.f[f], n)
    <3>1. Listed(W.f[f], n)
      BY <2>1, <2>2 DEF Base, Magics
    <3>2. QED
      BY <1>2, <3>1 DEF Listed, SameFile, Dropping
  <2>3. QED
    BY <2>1, <2>2
<1>8. "vt" \notin Faults /\ Clients(W) => ClientsMove(W, V, f)
  <2> SUFFICES ASSUME locked, Clients(W) PROVE ClientsMove(W, V, f)
    OBVIOUS
  <2>1. ~Inside(V.f[f])
    BY <1>2 DEF Inside, SameFile
  <2>2. \A n \in Masters : V.m[n].readers = W.m[n].readers
    BY <1>2 DEF Given
  <2>3. ASSUME NEW n \in Masters PROVE V.m[n].readers = {} /\ Shut(V.m[n])
    <3>1. CASE n = m
      BY <1>2, <2>2, <3>1, FilesAssumption DEF Given, Shut
    <3>2. CASE n # m
      BY <1>1, <1>2, <3>2 DEF Clients
    <3>3. QED
      BY <3>1, <3>2
  <2>4. QED
    BY <2>1, <2>2, <2>3 DEF ClientsMove
<1>9. ThreeD(W) => ThreeDMove(W, V, f)
  <2> SUFFICES ASSUME ThreeD(W) PROVE ThreeDMove(W, V, f)
    OBVIOUS
  <2>1. W.d.n3d \in Int /\ V.f[f].res = W.f[f].res
    BY <1>1, <1>2, Parts DEF DeviceType, SameFile
  <2>2. V.d.n3d = W.d.n3d + (One(V.f[f].res = "hw") - One(W.f[f].res = "hw"))
                 + (Counting(V.d) - Counting(W.d))
    BY <1>1, <1>3, <2>1 DEF One, Counting
  <2>3. Counted(V.d) /\ (V.d.active # Fbdev \/ V.d.enable_fb => ~V.d.hidden)
    BY <1>3 DEF ThreeD
  <2>4. QED
    BY <2>2, <2>3 DEF ThreeDMove
<1>10. QED
  BY <1>4, <1>5, <1>6, <1>7, <1>8, <1>9, KeepsStep

\* drm_setmaster_ioctl: the file has what it asked for, or what it had.
SetFor(W, f, m) ==
  [M!drm_master_get(W, m) EXCEPT !.d.minor = m, !.f[f].is_master = TRUE]

SetEnd(s, f, m) ==
  IF s.ok THEN s.w
  ELSE [M!drm_master_put(s.w, m) EXCEPT !.d.minor = NoMaster, !.f[f].is_master = FALSE]

LEMMA SetMasterKeeps ==
  ASSUME NEW W, Base(W), NEW f \in Files, W.f[f].pc = "idle", ~W.f[f].is_master,
         W.d.minor = NoMaster, NEW m \in Masters, W.f[f].master = m,
         NEW s \in M!vmw_master_set(SetFor(W, f, m), f, FALSE)
  PROVE  Keeps(W, SetEnd(s, f, m))
<1> DEFINE U == M!drm_master_get(W, m)
           X == [U EXCEPT !.d.minor = m]
           Y == [X EXCEPT !.f[f].is_master = TRUE]
<1>1. /\ W \in Worlds /\ OwnersOK(W) /\ FileOK(W.f[f], f, W.d) /\ W.d.active = Fbdev
      /\ m \in Owners /\ m # NoMaster /\ m # Fbdev /\ m \in Masters \cup {Fbdev}
      /\ NoMaster \in Owners /\ W.f[f].is_master = FALSE
  BY Parts, FilesAssumption DEF Base, OwnersOK, Owners, FileType
<1>2. /\ U \in Worlds /\ OnlyMaster(W, U, m)
      /\ U.m[m] = [W.m[m] EXCEPT !.refcount = W.m[m].refcount + 1] /\ W.m[m] \in MasterType
  BY <1>1, GetIs, RecordOf
<1> HIDE DEF U
<1>3. SetDevice(U, X) /\ SameCount(U.d, X.d) /\ X.d.minor = m /\ X.d.bug = U.d.bug
  BY <1>1, <1>2, SetMinor
<1> HIDE DEF X
<1>4. OnlyFile(X, Y, f) /\ SameFile(X.f[f], Y.f[f], X.f[f].pc, TRUE, X.f[f].locked)
  BY <1>3, SetMasterBit DEF SetDevice
<1>5. s \in M!vmw_master_set(Y, f, FALSE)
  BY DEF U, X, SetFor
<1> HIDE DEF Y
\* The world before vmw_master_set.
<1>6. /\ Y \in Worlds /\ \A n \in Masters \ {m} : Y.m[n] = W.m[n]
      /\ Given(W.m[m], Y.m[m], W.m[m].vt, W.m[m].kill, W.m[m].refcount + 1)
      /\ \A g \in Files \ {f} : Y.f[g] = W.f[g]
      /\ SameFile(W.f[f], Y.f[f], "idle", TRUE, W.f[f].locked)
      /\ SameCount(W.d, Y.d) /\ Y.d.minor = m /\ Y.d.bug = W.d.bug
  <2>1. Given(W.m[m], U.m[m], W.m[m].vt, W.m[m].kill, W.m[m].refcount + 1)
    BY <1>2 DEF Given, MasterType
  <2>2. Y.m = U.m /\ Y.d = X.d /\ U.d = W.d /\ X.f = W.f /\ Y \in Worlds
    BY <1>2, <1>3, <1>4 DEF OnlyFile, OnlyMaster, SetDevice
  <2>3. SameFile(W.f[f], Y.f[f], "idle", TRUE, W.f[f].locked)
    BY <1>4, <2>2 DEF SameFile
  <2>4. QED
    BY <1>2, <1>3, <1>4, <2>1, <2>2, <2>3 DEF OnlyFile, OnlyMaster
<1>7. /\ s.ok \in BOOLEAN
      /\ s.ok => IsSet(Y, s.w, f, m, FALSE)
      /\ ~s.ok => NotSet(Y, s.w)
  <2>1. Y.f[f].master = m /\ Y.d.active = Fbdev
    BY <1>1, <1>6 DEF SameFile, SameCount
  <2>2. QED
    BY <1>5, <1>6, <2>1, MasterSetIs
<1>8. ASSUME s.ok PROVE Keeps(W, s.w)
  <2> DEFINE V == s.w
             back == W.f[f].locked = m
  <2>1. /\ V \in Worlds /\ \A n \in Masters \ {m} : V.m[n] = W.m[n]
        /\ Given(W.m[m], V.m[m], NoFile, FALSE,
                 IF back THEN W.m[m].refcount ELSE W.m[m].refcount + 1)
        /\ \A g \in Files \ {f} : V.f[g] = W.f[g]
        /\ SameFile(W.f[f], V.f[f], "idle", TRUE, IF back THEN NoMaster ELSE W.f[f].locked)
        /\ SamePower(Y.d, V.d) /\ V.d.active = m /\ (~back => V.d.bug)
        /\ V.d.n3d = W.d.n3d + One(~W.d.enable_fb)
        /\ V.d.hidden => W.d.hidden /\ W.d.enable_fb
        /\ Counted(W.d) => Counted(V.d)
    <3>1. Back(Y, f, m, FALSE) <=> back
      BY <1>6 DEF Back, SameFile
    <3>2. /\ V \in Worlds /\ \A n \in Masters \ {m} : V.m[n] = Y.m[n]
          /\ Given(Y.m[m], V.m[m], NoFile, FALSE,
                   IF back THEN Y.m[m].refcount - 1 ELSE Y.m[m].refcount)
          /\ V.f = IF back THEN [Y.f EXCEPT ![f] = [Y.f[f] EXCEPT !.locked = NoMaster]] ELSE Y.f
          /\ SamePower(Y.d, V.d) /\ V.d.active = m /\ (~back => V.d.bug)
          /\ V.d.n3d = Y.d.n3d + One(~Y.d.enable_fb)
          /\ V.d.hidden => Y.d.hidden /\ Y.d.enable_fb
          /\ Counted(Y.d) => Counted(V.d)
      BY <1>7, <1>8, <3>1 DEF IsSet, Took
    <3> HIDE DEF V, back
    <3>3. Given(W.m[m], V.m[m], NoFile, FALSE,
                IF back THEN W.m[m].refcount ELSE W.m[m].refcount + 1)
      <4>1. W.m[m].refcount \in Int
        BY <1>2 DEF MasterType
      <4>2. QED
        BY <1>6, <3>2, <4>1 DEF Given
    <3>4. /\ \A g \in Files \ {f} : V.f[g] = W.f[g]
          /\ SameFile(W.f[f], V.f[f], "idle", TRUE, IF back THEN NoMaster ELSE W.f[f].locked)
      <4>1. Y.f \in [Files -> FileType] /\ Y.f[f] \in FileType
        BY <1>6, Parts
      <4>2. SameFile(Y.f[f], [Y.f[f] EXCEPT !.locked = NoMaster], "idle", TRUE, NoMaster)
        BY <1>6, <4>1 DEF FileType, SameFile
      <4>3. QED
        BY <1>6, <3>2, <4>1, <4>2 DEF SameFile
    <3>5. Counted(W.d) <=> Counted(Y.d)
      BY <1>6 DEF SameCount, Counted
    <3>6. QED
      BY <1>6, <3>2, <3>3, <3>4, <3>5 DEF SameCount
  <2> HIDE DEF V, back
  <2>2. Others(W, V, f)
    BY <2>1, SameIsAlike
  <2>3. V.d.minor = m /\ V.d.enable_fb = W.d.enable_fb /\ V.d.pm = W.d.pm /\ (W.d.bug => V.d.bug)
    BY <1>6, <2>1 DEF SamePower, SameCount
  <2>4. RefsMove(W, V, f)
    <3> SUFFICES ASSUME NEW n \in Masters
                 PROVE  V.m[n].refcount = W.m[n].refcount
                          + (One(V.d.minor = n) - One(W.d.minor = n))
                          + (One(V.f[f].master = n) - One(W.f[f].master = n))
                          + (One(V.f[f].locked = n) - One(W.f[f].locked = n))
      BY DEF RefsMove
    <3>1. /\ W.m[n].refcount \in Int /\ V.d.minor = m /\ V.f[f].master = W.f[f].master
          /\ V.f[f].locked = (IF back THEN NoMaster ELSE W.f[f].locked) /\ n # NoMaster
      BY <1>1, <2>1, <2>3, RecordOf, FilesAssumption DEF SameFile
    <3>2. CASE n = m
      BY <1>1, <2>1, <3>1, <3>2 DEF One, Given, back
    <3>3. CASE n # m
      BY <1>1, <2>1, <3>1, <3>3 DEF One, back
    <3>4. QED
      BY <3>2, <3>3
  <2>5. OwnersMove(W, V, f)
    <3>1. FileOK(V.f[f], f, V.d)
      BY <1>1, <2>1, <2>3 DEF FileOK, SameFile, Dropping
    <3>2. QED
      BY <1>1, <2>1, <2>3, <3>1 DEF OwnersMove, SameFile
  <2>6. MagicsMove(W, V, f)
    <3> SUFFICES ASSUME NEW n \in Masters, V.m[n].refcount > 0
                 PROVE  /\ W.m[n].refcount > 0
                        /\ V.m[n].magiclist \subseteq W.m[n].magiclist
                        /\ f \in V.m[n].magiclist => Listed(V.f[f], n)
      BY DEF MagicsMove
    <3>1. W.m[n].refcount > 0 /\ V.m[n].magiclist = W.m[n].magiclist
      BY <2>1, Referenced DEF Given
    <3>2. ASSUME f \in V.m[n].magiclist PROVE Listed(V.f[f], n)
      <4>1. Listed(W.f[f], n)
        BY <3>1, <3>2 DEF Base, Magics
      <4>2. QED
        BY <2>1, <4>1 DEF Listed, SameFile
    <3>3. QED
      BY <3>1, <3>2
  <2>7. Clients(W) => ClientsMove(W, V, f)
    <3> SUFFICES ASSUME Clients(W) PROVE ClientsMove(W, V, f)
      OBVIOUS
    <3>1. ~Inside(V.f[f])
      BY <2>1 DEF Inside, SameFile
    <3>2. \A n \in Masters : V.m[n].readers = W.m[n].readers
      BY <2>1 DEF Given
    <3>3. ASSUME NEW n \in Masters, n # m PROVE V.m[n].readers = {} /\ Shut(V.m[n])
      <4>1. V.m[n] = W.m[n] /\ W.d.active # n
        BY <1>1, <2>1, <3>3, FilesAssumption
      <4>2. QED
        BY <4>1 DEF Clients
    <3>4. QED
      BY <2>1, <3>1, <3>2, <3>3 DEF ClientsMove
  <2>8. ThreeD(W) => ThreeDMove(W, V, f)
    <3> SUFFICES ASSUME ThreeD(W) PROVE ThreeDMove(W, V, f)
      OBVIOUS
    <3>1. W.d.n3d \in Int /\ V.f[f].res = W.f[f].res
      BY <1>1, <2>1, Parts DEF DeviceType, SameFile
    <3>2. V.d.n3d = W.d.n3d + (One(V.f[f].res = "hw") - One(W.f[f].res = "hw"))
                   + (Counting(V.d) - Counting(W.d))
      BY <1>1, <2>1, <2>3, <3>1 DEF One, Counting
    <3>3. Counted(V.d) /\ (V.d.active # Fbdev \/ V.d.enable_fb => ~V.d.hidden)
      BY <2>1 DEF ThreeD
    <3>4. QED
      BY <3>2, <3>3 DEF ThreeDMove
  <2>9. QED
    BY <2>2, <2>4, <2>5, <2>6, <2>7, <2>8, KeepsStep DEF V
<1>9. ASSUME ~s.ok
      PROVE  Keeps(W, [M!drm_master_put(s.w, m) EXCEPT !.d.minor = NoMaster,
                                                       !.f[f].is_master = FALSE])
  <2> DEFINE Z == s.w
             P == M!drm_master_put(Z, m)
             X1 == [P EXCEPT !.d.minor = NoMaster]
             V == [X1 EXCEPT !.f[f].is_master = FALSE]
  <2>1. NotSet(Y, Z) /\ Z \in Worlds
    BY <1>7, <1>9 DEF NotSet
  <2> HIDE DEF Z
  <2>2. /\ P \in Worlds /\ OnlyMaster(Z, P, m)
        /\ P.m[m] = [Z.m[m] EXCEPT !.refcount = Z.m[m].refcount - 1] /\ Z.m[m] \in MasterType
    BY <1>1, <2>1, PutIs, RecordOf
  <2> HIDE DEF P
  <2>3. SetDevice(P, X1) /\ SameCount(P.d, X1.d) /\ X1.d.minor = NoMaster /\ X1.d.bug = P.d.bug
    BY <1>1, <2>2, SetMinor
  <2> HIDE DEF X1
  <2>4. OnlyFile(X1, V, f) /\ SameFile(X1.f[f], V.f[f], X1.f[f].pc, FALSE, X1.f[f].locked)
    BY <2>3, SetMasterBit DEF SetDevice
  <2>5. V = [P EXCEPT !.d.minor = NoMaster, !.f[f].is_master = FALSE]
    BY DEF X1
  <2> HIDE DEF V
  <2>6. V \in Worlds /\ V.m = P.m /\ V.d = X1.d /\ X1.f = Y.f /\ P.d = Z.d /\ Z.m[m] = Y.m[m]
    BY <2>1, <2>2, <2>3, <2>4 DEF OnlyFile, OnlyMaster, SetDevice, NotSet
  <2>7. /\ \A g \in Files \ {f} : V.f[g] = W.f[g]
        /\ SameFile(W.f[f], V.f[f], "idle", FALSE, W.f[f].locked)
    BY <1>6, <2>4, <2>6 DEF OnlyFile, SameFile
  <2>8. \A n \in Masters \ {m} : V.m[n] = W.m[n]
    BY <1>6, <2>1, <2>2, <2>6 DEF OnlyMaster, NotSet
  <2>9. Given(W.m[m], V.m[m], W.m[m].vt, W.m[m].kill, W.m[m].refcount)
    <3>1. P.m[m] = [Y.m[m] EXCEPT !.refcount = Y.m[m].refcount - 1] /\ Y.m[m] \in MasterType
      BY <2>2, <2>6
    <3>2. W.m[m].refcount \in Int
      BY <1>2 DEF MasterType
    <3>3. QED
      BY <1>6, <2>6, <3>1, <3>2 DEF Given, MasterType
  <2>10. /\ V.d.minor = NoMaster /\ V.d.active = Fbdev /\ V.d.n3d = W.d.n3d
         /\ V.d.enable_fb = W.d.enable_fb /\ V.d.pm = W.d.pm /\ (W.d.bug => V.d.bug)
         /\ Counted(W.d) => Counted(V.d)
         /\ V.d.hidden => W.d.hidden \/ ~W.d.enable_fb
    <3>1. (Counted(W.d) <=> Counted(Y.d)) /\ (Counted(P.d) <=> Counted(X1.d))
      BY <1>6, <2>3 DEF SameCount, Counted
    <3>2. QED
      BY <1>6, <2>1, <2>3, <2>6, <3>1 DEF NotSet, SameCount, SamePower
  <2>11. Others(W, V, f)
    BY <2>6, <2>7, SameIsAlike
  <2>12. \A n \in Masters : SameLock(W.m[n], V.m[n]) /\ V.m[n].readers = W.m[n].readers
                            /\ V.m[n].magiclist = W.m[n].magiclist
    BY <2>8, <2>9 DEF Given, SameLock
  <2>13. RefsMove(W, V, f)
    BY <1>1, <2>7, <2>10, <2>12, RefsCalm DEF SameFile, SameLock
  <2>14. OwnersMove(W, V, f)
    <3>1. FileOK(V.f[f], f, V.d)
      BY <1>1, <2>7 DEF FileOK, SameFile, Dropping
    <3>2. QED
      BY <1>1, <2>7, <2>10, <3>1 DEF OwnersMove, SameFile
  <2>15. MagicsMove(W, V, f)
    <3> SUFFICES ASSUME NEW n \in Masters, W.m[n].refcount > 0, f \in W.m[n].magiclist
                 PROVE  Listed(V.f[f], n)
      BY <2>12 DEF MagicsMove, SameLock
    <3>1. Listed(W.f[f], n)
      BY DEF Base, Magics
    <3>2. QED
      BY <2>7, <3>1 DEF Listed, SameFile
  <2>16. Clients(W) => ClientsMove(W, V, f)
    <3> SUFFICES ASSUME Clients(W) PROVE ClientsMove(W, V, f)
      OBVIOUS
    <3>1. ~Inside(V.f[f])
      BY <2>7 DEF Inside, SameFile
    <3>2. \A n \in Masters : V.d.active # n => V.m[n].readers = {} /\ Shut(V.m[n])
      BY <1>1, <2>10, <2>12 DEF Clients, Shut, SameLock
    <3>3. QED
      BY <2>12, <3>1, <3>2 DEF ClientsMove
  <2>17. ThreeD(W) => ThreeDMove(W, V, f)
    <3> SUFFICES ASSUME ThreeD(W) PROVE ThreeDMove(W, V, f)
      OBVIOUS
    <3>1. W.d.n3d \in Int /\ V.f[f].res = W.f[f].res
      BY <1>1, <2>7, Parts DEF DeviceType, SameFile
    <3>2. V.d.n3d = W.d.n3d + (One(V.f[f].res = "hw") - One(W.f[f].res = "hw"))
                   + (Counting(V.d) - Counting(W.d))
      BY <1>1, <2>10, <3>1 DEF One, Counting
    <3>3. Counted(V.d) /\ (V.d.active # Fbdev \/ V.d.enable_fb => ~V.d.hidden)
      BY <2>10 DEF ThreeD
    <3>4. QED
      BY <3>2, <3>3 DEF ThreeDMove
  <2>18. QED
    BY <2>5, <2>11, <2>13, <2>14, <2>15, <2>16, <2>17, KeepsStep DEF P, Z
<1>10. QED
  <2> HIDE DEF Y
  <2>1. CASE s.ok
    BY <1>8, <2>1 DEF SetEnd
  <2>2. CASE ~s.ok
    BY <1>9, <2>2 DEF SetEnd
  <2>3. QED
    BY <1>7, <2>1, <2>2

\* A file that is closed, or on its way to be open.
Fresh(r, pc, master, is_master) ==
  /\ r.pc = pc /\ r.master = master /\ r.is_master = is_master
  /\ r.magic = FALSE /\ r.locked = NoMaster /\ r.res = "none"

LEMMA NewFiles ==
  /\ M!NewFile \in FileType /\ Fresh(M!NewFile, "closed", NoMaster, FALSE)
  /\ \A b \in BOOLEAN : LET r == [M!NewFile EXCEPT !.authenticated = b] IN
       r \in FileType /\ Fresh(r, "closed", NoMaster, FALSE)
  BY DEF M!NewFile, FileType, Owners, Fresh

LEMMA OpenedIs ==
  ASSUME NEW W \in Worlds, NEW f \in Files
  PROVE  GoesOn(W, M!Opened(W, f), f, "idle")
<1> DEFINE r == [W.f[f] EXCEPT !.pc = "idle"]
           d == [W.d EXCEPT !.open_count = W.d.open_count + 1, !.is_opened = TRUE]
           X == [W EXCEPT !.f = [W.f EXCEPT ![f] = r]]
           V == [X EXCEPT !.d = d]
<1>1. W.f[f] \in FileType /\ W.d \in DeviceType
  BY Parts
<1>2. r \in FileType /\ SameFile(W.f[f], r, "idle", W.f[f].is_master, W.f[f].locked)
  BY <1>1 DEF FileType, SameFile
<1>a. W.d.open_count + 1 \in Int
  BY <1>1 DEF DeviceType
<1>3. d \in DeviceType /\ SameDevice(W.d, d)
  BY <1>1, <1>a DEF DeviceType, SameDevice, SameCount
<1> HIDE DEF r
<1>4. OnlyFile(W, X, f) /\ X.f[f] = r
  BY <1>2, SetFile
<1>5. M!Opened(W, f) = V
  BY <1>1 DEF M!Opened, r, Worlds, DeviceType
<1> HIDE DEF X, d
<1>6. V \in Worlds /\ V.f = X.f /\ V.m = X.m /\ V.d = d
  BY <1>3, <1>4, SetD DEF OnlyFile
<1> HIDE DEF V
<1>7. QED
  BY <1>2, <1>3, <1>4, <1>5, <1>6 DEF OnlyFile, GoesOn

\* A file that is opened has nothing yet but its reference to a master.
Opens(W, V, f, m, is_master) ==
  /\ Others(W, V, f) /\ Fresh(V.f[f], "idle", m, is_master)
  /\ V.d.active = (IF V.d.minor = NoMaster THEN Fbdev ELSE V.d.minor)
  /\ (is_master => V.d.minor = m /\ W.d.minor = NoMaster /\ m # NoMaster)
  /\ V.d.minor = W.d.minor \/ W.d.minor = NoMaster
  /\ W.d.bug => V.d.bug
  /\ \A n \in Masters :
       /\ V.m[n].refcount > 0 => \/ V.m[n].magiclist = W.m[n].magiclist /\ W.m[n].refcount > 0
                                 \/ V.m[n].magiclist = {}
       /\ W.m[n].refcount \in Int
       /\ V.m[n].refcount = W.m[n].refcount + (One(V.d.minor = n) - One(W.d.minor = n)) + One(m = n)

LEMMA OpensKeeps ==
  ASSUME NEW W, Base(W), NEW f \in Files, W.f[f].pc = "closed",
         NEW V, NEW m \in Owners, NEW is_master \in BOOLEAN, m = NoMaster <=> f \in Render,
         Opens(W, V, f, m, is_master),
         "vt" \notin Faults /\ Clients(W) =>
           \A n \in Masters : /\ W.m[n].readers \subseteq V.m[n].readers
                              /\ V.d.active # n => V.m[n].readers = {} /\ Shut(V.m[n]),
         "resume" \notin Faults /\ ThreeD(W) =>
           /\ V.d.n3d = W.d.n3d + (Counting(V.d) - Counting(W.d))
           /\ Counted(V.d)
           /\ V.d.active # Fbdev \/ V.d.enable_fb => ~V.d.hidden
  PROVE  Keeps(W, V)
<1>1. /\ W \in Worlds /\ OwnersOK(W) /\ Fresh(W.f[f], "closed", NoMaster, FALSE)
      /\ Others(W, V, f) /\ W.d.n3d \in Int
  BY NewFiles, Parts DEF Base, OwnersOK, FileOK, Opens, DeviceType
<1>2. RefsMove(W, V, f)
  <2> SUFFICES ASSUME NEW n \in Masters
               PROVE  V.m[n].refcount = W.m[n].refcount
                        + (One(V.d.minor = n) - One(W.d.minor = n))
                        + (One(V.f[f].master = n) - One(W.f[f].master = n))
                        + (One(V.f[f].locked = n) - One(W.f[f].locked = n))
    BY DEF RefsMove
  <2>1. n # NoMaster
    BY FilesAssumption
  <2>2. V.f[f].master = m /\ V.f[f].locked = NoMaster /\ W.f[f].locked = NoMaster
        /\ W.f[f].master = NoMaster
    BY <1>1 DEF Opens, Fresh
  <2>3. W.m[n].refcount \in Int
        /\ V.m[n].refcount = W.m[n].refcount + (One(V.d.minor = n) - One(W.d.minor = n)) + One(m = n)
    BY DEF Opens
  <2>4. QED
    BY <2>1, <2>2, <2>3 DEF One
<1>3. OwnersMove(W, V, f)
  <2>1. FileOK(V.f[f], f, V.d)
    BY DEF FileOK, Fresh, Opens, Dropping
  <2>2. QED
    BY <2>1 DEF OwnersMove, Opens, Fresh
<1>4. MagicsMove(W, V, f)
  <2> SUFFICES ASSUME NEW n \in Masters, V.m[n].refcount > 0, V.m[n].magiclist # {}
               PROVE  /\ W.m[n].refcount > 0
                      /\ V.m[n].magiclist \subseteq W.m[n].magiclist
                      /\ f \notin V.m[n].magiclist
    BY DEF MagicsMove
  <2>1. W.m[n].refcount > 0 /\ V.m[n].magiclist = W.m[n].magiclist
    BY DEF Opens
  <2>2. f \notin W.m[n].magiclist
    BY <2>1 DEF Base, Magics, Listed
  <2>3. QED
    BY <2>1, <2>2
<1>5. "vt" \notin Faults /\ Clients(W) => ClientsMove(W, V, f)
  <2>1. ~Inside(V.f[f])
    BY DEF Inside, Opens, Fresh
  <2>2. QED
    BY <2>1 DEF ClientsMove
<1>6. "resume" \notin Faults /\ ThreeD(W) => ThreeDMove(W, V, f)
  <2>1. V.f[f].res = "none" /\ W.f[f].res = "none"
    BY <1>1 DEF Opens, Fresh
  <2>2. Counting(V.d) \in Int /\ Counting(W.d) \in Int
    BY DEF Counting, One
  <2>3. QED
    BY <1>1, <2>1, <2>2 DEF ThreeDMove, One
<1>7. QED
  BY <1>1, <1>2, <1>3, <1>4, <1>5, <1>6, KeepsStep

\* drm_open_helper where no master is to be made: a file of the render node has
\* none, any other the one of the minor.
LEMMA OpenClientKeeps ==
  ASSUME NEW W, Base(W), NEW f \in Files, W.f[f].pc = "closed",
         NEW m \in Owners, m = NoMaster <=> f \in Render, m = NoMaster \/ m = W.d.minor,
         NEW X \in Worlds, X.d = W.d, \A g \in Files \ {f} : X.f[g] = W.f[g],
         Fresh(X.f[f], "closed", m, FALSE),
         \A n \in Masters \ {m} : X.m[n] = W.m[n],
         m # NoMaster => Given(W.m[m], X.m[m], W.m[m].vt, W.m[m].kill, W.m[m].refcount + 1)
  PROVE  Keeps(W, M!Opened(X, f))
<1> DEFINE V == M!Opened(X, f)
<1>1. GoesOn(X, V, f, "idle")
  BY OpenedIs
<1> HIDE DEF V
<1>2. W \in Worlds /\ OwnersOK(W) /\ V \in Worlds /\ V.m = X.m /\ SameDevice(W.d, V.d)
  BY <1>1 DEF Base, GoesOn
<1>3. Others(W, V, f) /\ Fresh(V.f[f], "idle", m, FALSE)
  BY <1>1, SameIsAlike DEF GoesOn, Fresh, SameFile
<1>4. \A n \in Masters :
        /\ V.m[n].magiclist = W.m[n].magiclist /\ V.m[n].readers = W.m[n].readers
        /\ V.m[n].kill = W.m[n].kill /\ V.m[n].vt = W.m[n].vt
        /\ V.m[n].refcount = W.m[n].refcount + One(m = n)
        /\ W.m[n].refcount \in Int
        /\ m = n => W.m[n].refcount > 0
  <2> SUFFICES ASSUME NEW n \in Masters
               PROVE  /\ V.m[n].magiclist = W.m[n].magiclist /\ V.m[n].readers = W.m[n].readers
                      /\ V.m[n].kill = W.m[n].kill /\ V.m[n].vt = W.m[n].vt
                      /\ V.m[n].refcount = W.m[n].refcount + One(m = n)
                      /\ W.m[n].refcount \in Int
                      /\ m = n => W.m[n].refcount > 0
    OBVIOUS
  <2>1. W.m[n].refcount \in Int /\ n # NoMaster
    BY <1>2, RecordOf, FilesAssumption
  <2>2. CASE n = m
    BY <1>2, <2>1, <2>2, Referenced DEF Given, One
  <2>3. CASE n # m
    BY <1>2, <2>1, <2>3 DEF One
  <2>4. QED
    BY <2>2, <2>3
<1>5. Magics(W)
  BY DEF Base
<1>6. Opens(W, V, f, m, FALSE)
  <2>1. \A n \in Masters : V.m[n].refcount > 0 => W.m[n].refcount > 0
    BY <1>4 DEF One
  <2>2. /\ V.d.active = (IF V.d.minor = NoMaster THEN Fbdev ELSE V.d.minor)
        /\ V.d.minor = W.d.minor /\ (W.d.bug => V.d.bug)
    BY <1>2 DEF OwnersOK, SameDevice, SameCount
  <2>3. ASSUME NEW n \in Masters
        PROVE  V.m[n].refcount = W.m[n].refcount + (One(V.d.minor = n) - One(W.d.minor = n)) + One(m = n)
    BY <1>4, <2>2 DEF One
  <2>4. QED
    BY <1>3, <1>4, <2>1, <2>2, <2>3 DEF Opens
<1>7. Clients(W) => \A n \in Masters : /\ W.m[n].readers \subseteq V.m[n].readers
                                       /\ V.d.active # n => V.m[n].readers = {} /\ Shut(V.m[n])
  <2> SUFFICES ASSUME Clients(W), NEW n \in Masters
               PROVE  /\ W.m[n].readers \subseteq V.m[n].readers
                      /\ V.d.active # n => V.m[n].readers = {} /\ Shut(V.m[n])
    OBVIOUS
  <2>1. W.d.active = V.d.active
    BY <1>2 DEF SameDevice, SameCount
  <2>2. W.d.active # n => W.m[n].readers = {} /\ Shut(W.m[n])
    BY DEF Clients
  <2>3. Shut(W.m[n]) => Shut(V.m[n])
    BY <1>4 DEF Shut, One
  <2>4. QED
    BY <1>4, <2>1, <2>2, <2>3
<1>8. ThreeD(W) => /\ V.d.n3d = W.d.n3d + (Counting(V.d) - Counting(W.d))
                   /\ Counted(V.d)
                   /\ V.d.active # Fbdev \/ V.d.enable_fb => ~V.d.hidden
  <2>1. W.d.n3d \in Int /\ Counting(W.d) \in Int /\ Counting(V.d) = Counting(W.d)
    BY <1>2, Parts DEF DeviceType, Counting, One, SameDevice, SameCount
  <2>2. QED
    BY <1>2, <2>1 DEF SameDevice, SameCount, ThreeD, Counted
<1>9. QED
  BY <1>6, <1>7, <1>8, OpensKeeps DEF V

\* drm_new_set_master up to vmw_master_set: the file is to be the master m.
Created(W, C, f, m) ==
  /\ C \in Worlds /\ C.d.minor = m /\ SameCount(W.d, C.d) /\ C.d.bug = W.d.bug
  /\ \A g \in Files \ {f} : C.f[g] = W.f[g]
  /\ Fresh(C.f[f], "closed", m, TRUE)
  /\ \A n \in Masters \ {m} : C.m[n] = W.m[n]
  /\ Given(M!NewMaster, C.m[m], NoFile, TRUE, 2)

\* A new master's file, all at once.
Crowned(W, f, m) ==
  [W EXCEPT !.f[f].master = m, !.f[f].is_master = TRUE, !.f[f].authenticated = TRUE]

Crown(r, m) == [r EXCEPT !.master = m, !.is_master = TRUE, !.authenticated = TRUE]

WithFile(W, f, r) == [W EXCEPT !.f = [W.f EXCEPT ![f] = r]]

LEMMA CrownedIs ==
  ASSUME NEW W \in Worlds, NEW f \in Files, NEW m
  PROVE  Crowned(W, f, m)
           = WithFile(W, f, Crown(W.f[f], m))
<1> DEFINE ra == [W.f[f] EXCEPT !.master = m]
           rb == [ra EXCEPT !.is_master = TRUE]
           rc == [rb EXCEPT !.authenticated = TRUE]
           Fa == [W.f EXCEPT ![f] = ra]
           Fb == [Fa EXCEPT ![f] = rb]
           Fc == [Fb EXCEPT ![f] = rc]
           Wa == [W EXCEPT !.f = Fa]
           Wb == [Wa EXCEPT !.f = Fb]
           Wc == [Wb EXCEPT !.f = Fc]
<1>1. DOMAIN W.f = Files /\ W = [f |-> W.f, m |-> W.m, d |-> W.d]
  BY DEF Worlds
<1>2. Fa[f] = ra /\ Fb[f] = rb /\ DOMAIN Fa = Files /\ DOMAIN Fb = Files
  <2> HIDE DEF ra, rb
  <2> QED
    BY <1>1
<1>3. Fc = [W.f EXCEPT ![f] = rc]
  <2> HIDE DEF ra, rb, rc
  <2> QED
    BY <1>1
<1>4. Wa.f = Fa /\ Wb.f = Fb /\ Wc = [W EXCEPT !.f = Fc]
  <2> HIDE DEF Fa, Fb, Fc
  <2> QED
    BY <1>1
<1>5. Wb = [Wa EXCEPT !.f[f].is_master = TRUE]
  <2> HIDE DEF Fa, ra, Wa
  <2> QED
    BY <1>2, <1>4
<1>6. Wc = [Wb EXCEPT !.f[f].authenticated = TRUE]
  <2> HIDE DEF Fb, rb, Wb
  <2> QED
    BY <1>2, <1>4
<1>7. QED
  <2>1. Wa = [W EXCEPT !.f[f].master = m]
    OBVIOUS
  <2> HIDE DEF Wa, Wb
  <2>2. Wc = [W EXCEPT !.f[f].master = m, !.f[f].is_master = TRUE, !.f[f].authenticated = TRUE]
    BY <1>5, <1>6, <2>1
  <2>3. rc = Crown(W.f[f], m)
    BY DEF Crown
  <2> HIDE DEF Wc, Fc, rc
  <2>4. QED
    BY <1>3, <1>4, <2>2, <2>3, Zenon DEF Crowned, WithFile

MadeFor(W, f, m, b) ==
  LET W1 == [W EXCEPT !.f[f] = [M!NewFile EXCEPT !.authenticated = b]] IN
  [M!drm_master_get(M!vmw_master_create(W1, m), m) EXCEPT
     !.d.minor = m, !.f[f].master = m, !.f[f].is_master = TRUE, !.f[f].authenticated = TRUE]

LEMMA CreatedIs ==
  ASSUME NEW W \in Worlds, NEW f \in Files, NEW m \in Masters, NEW b \in BOOLEAN
  PROVE  Created(W, MadeFor(W, f, m, b), f, m)
<1> DEFINE r0 == [M!NewFile EXCEPT !.authenticated = b]
           W1 == [W EXCEPT !.f = [W.f EXCEPT ![f] = r0]]
           q == [M!NewMaster EXCEPT !.refcount = 1, !.kill = TRUE]
           N1 == [W1 EXCEPT !.m = [W1.m EXCEPT ![m] = q]]
           G == M!drm_master_get(N1, m)
           X == [G EXCEPT !.d.minor = m]
           r == [X.f[f] EXCEPT !.master = m, !.is_master = TRUE, !.authenticated = TRUE]
           C == [X EXCEPT !.f = [X.f EXCEPT ![f] = r]]
<1>1. r0 \in FileType /\ Fresh(r0, "closed", NoMaster, FALSE)
  BY NewFiles
<1>2. q \in MasterType /\ Given(M!NewMaster, q, NoFile, TRUE, 1)
  <2>1. M!NewMaster \in MasterType /\ M!NewMaster.vt = NoFile
    BY DEF M!NewMaster, MasterType
  <2> DEFINE q1 == [M!NewMaster EXCEPT !.refcount = 1]
  <2>2. q1 \in MasterType /\ Given(M!NewMaster, q1, NoFile, M!NewMaster.kill, 1)
    BY <2>1 DEF MasterType, Given
  <2>3. q = [q1 EXCEPT !.kill = TRUE]
    OBVIOUS
  <2> HIDE DEF q1, q
  <2>4. QED
    BY <2>2, <2>3 DEF MasterType, Given
<1>3. M!vmw_master_create(W1, m) = N1
  BY DEF M!vmw_master_create, M!drm_master_create
<1> HIDE DEF r0, q
<1>4. OnlyFile(W, W1, f) /\ W1.f[f] = r0 /\ W1 \in Worlds
  BY <1>1, SetFile DEF OnlyFile
<1> HIDE DEF W1
<1>5. m \in Masters \cup {Fbdev} /\ m \in Owners
  BY DEF Owners
<1>6. OnlyMaster(W1, N1, m) /\ N1.m[m] = q /\ N1 \in Worlds
  BY <1>2, <1>4, <1>5, SetMaster DEF OnlyMaster
<1> HIDE DEF N1
<1>7. /\ G \in Worlds /\ OnlyMaster(N1, G, m) /\ G.m[m] = [N1.m[m] EXCEPT !.refcount = N1.m[m].refcount + 1]
  BY <1>5, <1>6, GetIs
<1> HIDE DEF G
<1>8. SetDevice(G, X) /\ SameCount(G.d, X.d) /\ X.d.minor = m /\ X.d.bug = G.d.bug
  BY <1>5, <1>7, SetMinor
<1> HIDE DEF X
<1>9. X.f[f] = r0 /\ X \in Worlds
  BY <1>4, <1>6, <1>7, <1>8 DEF OnlyFile, OnlyMaster, SetDevice
<1>10. r \in FileType /\ Fresh(r, "closed", m, TRUE)
  BY <1>1, <1>5, <1>9 DEF FileType, Fresh
<1> HIDE DEF r
<1>11. OnlyFile(X, C, f) /\ C.f[f] = r
  BY <1>9, <1>10, SetFile
<1>12. C = [G EXCEPT !.d.minor = m, !.f[f].master = m, !.f[f].is_master = TRUE,
                     !.f[f].authenticated = TRUE]
  <2>1. X = [G EXCEPT !.d.minor = m]
    BY DEF X
  <2>2. C = Crowned(X, f, m)
    <3>1. X \in Worlds
      BY <1>9
    <3>2. Crowned(X, f, m) = WithFile(X, f, Crown(X.f[f], m))
      BY <3>1, CrownedIs
    <3>3. QED
      BY <3>2 DEF r, Crown, WithFile
  <2> HIDE DEF C
  <2>3. QED
    BY <2>1, <2>2, Zenon DEF Crowned
<1> HIDE DEF C
<1>13. Given(M!NewMaster, G.m[m], NoFile, TRUE, 2)
  BY <1>2, <1>6, <1>7 DEF Given, MasterType
<1>14. Created(W, C, f, m)
  <2>1. G.d = W.d /\ G.f = W1.f /\ C.m = G.m /\ C.d = X.d /\ C \in Worlds
    BY <1>4, <1>6, <1>7, <1>8, <1>11 DEF OnlyFile, OnlyMaster, SetDevice
  <2>2. \A g \in Files \ {f} : C.f[g] = W.f[g]
    BY <1>4, <1>8, <1>11, <2>1 DEF OnlyFile, SetDevice
  <2>3. \A n \in Masters \ {m} : C.m[n] = W.m[n]
    BY <1>4, <1>6, <1>7, <2>1 DEF OnlyFile, OnlyMaster
  <2>4. QED
    BY <1>8, <1>10, <1>11, <1>13, <2>1, <2>2, <2>3 DEF Created
<1>15. QED
  <2>1. MadeFor(W, f, m, b) = C
    <3> HIDE DEF C
    <3> QED
      BY <1>3, <1>12, Zenon DEF MadeFor, G, W1, r0
  <2>2. QED
    BY <1>14, <2>1

\* A master that nobody references any more is made anew, and is set, or goes.
OpenEnd(s, f, m) ==
  IF s.ok THEN M!Opened(s.w, f)
  ELSE [M!drm_master_put(M!drm_master_put(s.w, m), m) EXCEPT
          !.d.minor = NoMaster, !.f[f] = M!NewFile]

LEMMA OpenMasterKeeps ==
  ASSUME NEW W, Base(W), NEW f \in Files, W.f[f].pc = "closed", f \notin Render,
         W.d.minor = NoMaster, NEW m \in Masters, W.m[m].refcount = 0,
         NEW C, Created(W, C, f, m), NEW s \in M!vmw_master_set(C, f, TRUE)
  PROVE  Keeps(W, OpenEnd(s, f, m))
<1>1. /\ W \in Worlds /\ OwnersOK(W) /\ W.f[f] = M!NewFile /\ W.d.active = Fbdev
      /\ m \in Owners /\ m # NoMaster /\ m # Fbdev /\ m \in Masters \cup {Fbdev}
      /\ NoMaster \in Owners /\ C \in Worlds /\ W.d.n3d \in Int
  BY Parts, FilesAssumption DEF Base, OwnersOK, FileOK, Owners, Created, DeviceType
<1>2. Fresh(W.f[f], "closed", NoMaster, FALSE)
  BY <1>1, NewFiles
<1>3. M!NewMaster.readers = {} /\ M!NewMaster.magiclist = {}
  BY DEF M!NewMaster
<1>4. /\ s.ok \in BOOLEAN
      /\ s.ok => IsSet(C, s.w, f, m, TRUE)
      /\ ~s.ok => NotSet(C, s.w)
  <2>1. C.f[f].master = m /\ C.d.active = Fbdev
    BY <1>1 DEF Created, Fresh, SameCount
  <2>2. QED
    BY <1>1, <2>1, MasterSetIs
<1>5. \A n \in Masters : W.m[n].refcount \in Nat /\ n # NoMaster /\ n # Fbdev
  BY Referenced, FilesAssumption
<1>6. ASSUME s.ok PROVE Keeps(W, M!Opened(s.w, f))
  <2> DEFINE V == M!Opened(s.w, f)
  <2>1. IsSet(C, s.w, f, m, TRUE) /\ s.w \in Worlds /\ s.w.f = C.f
    BY <1>4, <1>6 DEF IsSet, Took, Back
  <2>2. GoesOn(s.w, V, f, "idle")
    BY <2>1, OpenedIs
  <2> HIDE DEF V
  <2>3. Others(W, V, f) /\ Fresh(V.f[f], "idle", m, TRUE)
    <3>1. \A g \in Files \ {f} : V.f[g] = W.f[g]
      BY <2>1, <2>2 DEF Created, GoesOn
    <3>2. Fresh(C.f[f], "closed", m, TRUE)
      BY DEF Created
    <3>3. QED
      BY <2>1, <2>2, <3>1, <3>2, SameIsAlike DEF GoesOn, Fresh, SameFile
  <2>4. /\ V.d.minor = m /\ V.d.active = m /\ V.d.enable_fb = W.d.enable_fb /\ V.d.pm = W.d.pm
        /\ W.d.bug => V.d.bug
        /\ V.d.n3d = W.d.n3d + One(~W.d.enable_fb)
        /\ V.d.hidden => W.d.hidden /\ W.d.enable_fb
        /\ Counted(W.d) => Counted(V.d)
    <3>1. /\ C.d.minor = m /\ C.d.enable_fb = W.d.enable_fb /\ C.d.pm = W.d.pm
          /\ C.d.bug = W.d.bug /\ C.d.n3d = W.d.n3d /\ (C.d.hidden => W.d.hidden)
          /\ (Counted(W.d) => Counted(C.d))
      BY DEF Created, SameCount, Counted
    <3>2. /\ SamePower(C.d, s.w.d) /\ s.w.d.active = m /\ s.w.d.n3d = C.d.n3d + One(~C.d.enable_fb)
          /\ s.w.d.hidden => C.d.hidden /\ C.d.enable_fb
          /\ Counted(C.d) => Counted(s.w.d)
      BY <2>1 DEF IsSet, Took
    <3>3. SameDevice(s.w.d, V.d) /\ (Counted(s.w.d) => Counted(V.d))
      BY <2>2 DEF GoesOn, SameDevice, SameCount, Counted
    <3>4. QED
      BY <3>1, <3>2, <3>3 DEF SameDevice, SameCount, SamePower
  <2>5. /\ \A n \in Masters \ {m} : V.m[n] = W.m[n]
        /\ Given(M!NewMaster, V.m[m], NoFile, FALSE, 2)
    <3>1. V.m = s.w.m /\ \A n \in Masters \ {m} : s.w.m[n] = W.m[n]
      BY <2>1, <2>2 DEF GoesOn, Created, IsSet, Took
    <3>2. Given(C.m[m], s.w.m[m], C.m[m].vt, FALSE, C.m[m].refcount)
      BY <2>1 DEF IsSet, Took, Back
    <3>3. QED
      BY <3>1, <3>2 DEF Given, Created
  <2>6. Opens(W, V, f, m, TRUE)
    <3>1. ASSUME NEW n \in Masters
          PROVE  /\ V.m[n].refcount > 0 => \/ V.m[n].magiclist = W.m[n].magiclist /\ W.m[n].refcount > 0
                                           \/ V.m[n].magiclist = {}
                 /\ W.m[n].refcount \in Int
                 /\ V.m[n].refcount = W.m[n].refcount + (One(V.d.minor = n) - One(W.d.minor = n))
                                        + One(m = n)
      <4>1. CASE n = m
        BY <1>1, <1>3, <2>4, <2>5, <4>1 DEF Given, One
      <4>2. CASE n # m
        BY <1>1, <1>5, <2>4, <2>5, <4>2 DEF One
      <4>3. QED
        BY <4>1, <4>2
    <3>2. QED
      BY <1>1, <2>3, <2>4, <3>1 DEF Opens
  <2>7. Clients(W) => \A n \in Masters : /\ W.m[n].readers \subseteq V.m[n].readers
                                         /\ V.d.active # n => V.m[n].readers = {} /\ Shut(V.m[n])
    <3> SUFFICES ASSUME Clients(W), NEW n \in Masters
                 PROVE  /\ W.m[n].readers \subseteq V.m[n].readers
                        /\ V.d.active # n => V.m[n].readers = {} /\ Shut(V.m[n])
      OBVIOUS
    <3>1. W.m[n].readers = {} /\ Shut(W.m[n])
      BY <1>1, <1>5 DEF Clients
    <3>2. QED
      BY <2>4, <2>5, <3>1
  <2>8. ThreeD(W) => /\ V.d.n3d = W.d.n3d + (Counting(V.d) - Counting(W.d))
                     /\ Counted(V.d)
                     /\ V.d.active # Fbdev \/ V.d.enable_fb => ~V.d.hidden
    BY <1>1, <2>4 DEF ThreeD, Counting, One
  <2>9. QED
    BY <1>1, <2>6, <2>7, <2>8, OpensKeeps DEF V
<1>7. ASSUME ~s.ok
      PROVE  Keeps(W, [M!drm_master_put(M!drm_master_put(s.w, m), m) EXCEPT
                          !.d.minor = NoMaster, !.f[f] = M!NewFile])
  <2> DEFINE Z == s.w
             P == M!drm_master_put(Z, m)
             Q == M!drm_master_put(P, m)
             X == [Q EXCEPT !.d.minor = NoMaster]
             V == [X EXCEPT !.f = [X.f EXCEPT ![f] = M!NewFile]]
  <2>1. NotSet(C, Z) /\ Z \in Worlds
    BY <1>4, <1>7 DEF NotSet
  <2> HIDE DEF Z
  <2>2. /\ P \in Worlds /\ OnlyMaster(Z, P, m)
        /\ P.m[m] = [Z.m[m] EXCEPT !.refcount = Z.m[m].refcount - 1] /\ Z.m[m] \in MasterType
    BY <1>1, <2>1, PutIs, RecordOf
  <2> HIDE DEF P
  <2>3. /\ Q \in Worlds /\ OnlyMaster(P, Q, m)
        /\ Q.m[m] = [P.m[m] EXCEPT !.refcount = P.m[m].refcount - 1] /\ P.m[m] \in MasterType
    BY <1>1, <2>2, PutIs, RecordOf
  <2> HIDE DEF Q
  <2>4. SetDevice(Q, X) /\ SameCount(Q.d, X.d) /\ X.d.minor = NoMaster /\ X.d.bug = Q.d.bug
    BY <1>1, <2>3, SetMinor
  <2>5. V = [Q EXCEPT !.d.minor = NoMaster, !.f[f] = M!NewFile]
    OBVIOUS
  <2> HIDE DEF X
  <2>6. OnlyFile(X, V, f) /\ V.f[f] = M!NewFile
    BY <2>4, NewFiles, SetFile DEF SetDevice
  <2> HIDE DEF V
  <2>7. V \in Worlds /\ V.m = Q.m /\ V.d = X.d /\ X.f = C.f /\ Q.d = Z.d /\ Z.m[m] = C.m[m]
    BY <2>1, <2>2, <2>3, <2>4, <2>6 DEF OnlyFile, OnlyMaster, SetDevice, NotSet
  <2>8. \A g \in Files : V.f[g] = W.f[g]
    BY <1>1, <2>6, <2>7 DEF OnlyFile, Created
  <2>9. \A n \in Masters \ {m} : V.m[n] = W.m[n]
    BY <2>1, <2>2, <2>3, <2>7 DEF OnlyMaster, NotSet, Created
  <2>10. V.m[m].refcount = 0 /\ V.m[m].readers = {}
    <3>1. C.m[m].refcount = 2 /\ C.m[m].readers = {}
      BY <1>3 DEF Created, Given
    <3>2. QED
      <4>1. P.m[m].refcount = 1 /\ P.m[m].readers = {}
        BY <2>2, <2>7, <3>1 DEF MasterType
      <4>2. QED
        BY <2>3, <2>7, <4>1 DEF MasterType
  <2>11. /\ V.d.minor = NoMaster /\ V.d.active = Fbdev /\ V.d.n3d = W.d.n3d
         /\ V.d.enable_fb = W.d.enable_fb /\ V.d.pm = W.d.pm /\ (W.d.bug => V.d.bug)
         /\ Counted(W.d) => Counted(V.d)
         /\ V.d.hidden => W.d.hidden \/ ~W.d.enable_fb
    <3>1. /\ C.d.enable_fb = W.d.enable_fb /\ C.d.pm = W.d.pm
          /\ C.d.bug = W.d.bug /\ C.d.n3d = W.d.n3d /\ (C.d.hidden => W.d.hidden)
          /\ (Counted(W.d) => Counted(C.d))
      BY DEF Created, SameCount, Counted
    <3>2. Counted(Z.d) => Counted(V.d)
      BY <2>4, <2>7 DEF SameCount, Counted
    <3>3. QED
      BY <2>1, <2>4, <2>7, <3>1, <3>2 DEF NotSet, SameCount, SamePower
  <2>12. Others(W, V, f)
    BY <2>7, <2>8, SameIsAlike
  <2>13. RefsMove(W, V, f)
    <3>1. \A n \in Masters : V.m[n].refcount = W.m[n].refcount
      BY <2>9, <2>10
    <3>2. QED
      BY <1>1, <2>8, <2>11, <3>1, RefsCalm
  <2>14. OwnersMove(W, V, f)
    <3>1. FileOK(V.f[f], f, V.d)
      BY <1>1, <1>2, <2>8 DEF FileOK, Fresh, Dropping
    <3>2. QED
      BY <1>1, <2>8, <2>11, <3>1 DEF OwnersMove
  <2>15. MagicsMove(W, V, f)
    <3> SUFFICES ASSUME NEW n \in Masters, V.m[n].refcount > 0
                 PROVE  /\ W.m[n].refcount > 0
                        /\ V.m[n].magiclist \subseteq W.m[n].magiclist
                        /\ f \notin V.m[n].magiclist
      BY DEF MagicsMove
    <3>1. V.m[n] = W.m[n]
      BY <2>9, <2>10
    <3>2. f \notin W.m[n].magiclist
      BY <3>1 DEF Base, Magics, Listed
    <3>3. QED
      BY <3>1, <3>2
  <2>16. Clients(W) => ClientsMove(W, V, f)
    <3> SUFFICES ASSUME Clients(W) PROVE ClientsMove(W, V, f)
      OBVIOUS
    <3>1. ~Inside(V.f[f])
      BY <2>8 DEF Inside
    <3>2. ASSUME NEW n \in Masters
          PROVE  W.m[n].readers = {} /\ V.m[n].readers = {} /\ Shut(V.m[n])
      <4>1. W.m[n].readers = {} /\ Shut(W.m[n])
        BY <1>1, <1>5 DEF Clients
      <4>2. QED
        BY <2>9, <2>10, <4>1 DEF Shut
    <3>3. QED
      BY <3>1, <3>2 DEF ClientsMove
  <2>17. ThreeD(W) => ThreeDMove(W, V, f)
    <3> SUFFICES ASSUME ThreeD(W) PROVE ThreeDMove(W, V, f)
      OBVIOUS
    <3>1. V.d.n3d = W.d.n3d + (One(V.f[f].res = "hw") - One(W.f[f].res = "hw"))
                   + (Counting(V.d) - Counting(W.d))
      BY <1>1, <2>8, <2>11 DEF One, Counting
    <3>2. Counted(V.d) /\ (V.d.active # Fbdev \/ V.d.enable_fb => ~V.d.hidden)
      BY <2>11 DEF ThreeD
    <3>3. QED
      BY <3>1, <3>2 DEF ThreeDMove
  <2>18. QED
    BY <2>5, <2>12, <2>13, <2>14, <2>15, <2>16, <2>17, KeepsStep DEF P, Q, Z
<1>8. QED
  <2>1. CASE s.ok
    BY <1>6, <2>1 DEF OpenEnd
  <2>2. CASE ~s.ok
    BY <1>7, <2>2 DEF OpenEnd
  <2>3. QED
    BY <1>4, <2>1, <2>2

\* What is left of a file when it goes: its references, its lock and its resource.
Gone(W, V, f) ==
  /\ V \in Worlds /\ V.f[f] = M!NewFile /\ \A g \in Files \ {f} : V.f[g] = W.f[g]
  /\ \A n \in Masters :
       /\ V.m[n].refcount = W.m[n].refcount - One(W.f[f].locked = n)
       /\ V.m[n].readers = W.m[n].readers /\ V.m[n].magiclist = W.m[n].magiclist
       /\ V.m[n].kill \/ (V.m[n].vt = W.m[n].vt /\ V.m[n].kill = W.m[n].kill)
  /\ SameRest(W.d, V.d) /\ V.d.n3d = W.d.n3d - One(W.f[f].res = "hw")
  /\ (Counted(W.d) => Counted(V.d)) /\ (V.d.hidden => W.d.hidden)

LEMMA PostcloseIs ==
  ASSUME NEW W \in Worlds, NEW f \in Files
  PROVE  Gone(W, M!vmw_postclose(W, f), f)
<1> DEFINE m == W.f[f].locked
           Wk == M!ttm_lock_set_kill(W, m, TRUE)
           Wu == M!ttm_vt_unlock(Wk, m)
           Wp == M!drm_master_put(Wu, m)
           W1 == IF m = NoMaster THEN W ELSE Wp
           W2 == IF W.f[f].res = "hw" THEN M!vmw_3d_resource_dec(W1, FALSE) ELSE W1
           V == [W2 EXCEPT !.f = [W2.f EXCEPT ![f] = M!NewFile]]
<1>1. m \in Owners /\ NoMaster \notin Masters /\ W.d.n3d \in Int
  BY Parts, FilesAssumption DEF FileType, DeviceType
<1>2. \A n \in Masters : W.m[n] \in MasterType /\ W.m[n].refcount \in Int
  BY RecordOf
<1>3. /\ W1 \in Worlds /\ W1.f = W.f /\ W1.d = W.d
      /\ \A n \in Masters :
           /\ W1.m[n].refcount = W.m[n].refcount - One(m = n)
           /\ W1.m[n].readers = W.m[n].readers /\ W1.m[n].magiclist = W.m[n].magiclist
           /\ W1.m[n].kill \/ (W1.m[n].vt = W.m[n].vt /\ W1.m[n].kill = W.m[n].kill)
  <2>1. CASE m = NoMaster
    <3>1. W1 = W
      BY <2>1
    <3> HIDE DEF W1, m
    <3>2. QED
      BY <1>1, <1>2, <2>1, <3>1 DEF One
  <2>2. CASE m # NoMaster
    <3>1. W1 = Wp /\ m \in Masters /\ m \in Masters \cup {Fbdev}
      BY <1>1, <2>2 DEF Owners
    <3> HIDE DEF m, W1
    <3>2. Wk \in Worlds /\ OnlyMaster(W, Wk, m) /\ Wk.m[m] = [W.m[m] EXCEPT !.kill = TRUE]
      BY <3>1, KillIs
    <3> HIDE DEF Wk
    <3>3. Wu \in Worlds /\ OnlyMaster(Wk, Wu, m) /\ Wu.m[m] = [Wk.m[m] EXCEPT !.vt = NoFile]
      BY <3>1, <3>2, VtUnlockIs
    <3> HIDE DEF Wu
    <3>4. /\ Wp \in Worlds /\ OnlyMaster(Wu, Wp, m)
          /\ Wp.m[m] = [Wu.m[m] EXCEPT !.refcount = Wu.m[m].refcount - 1]
          /\ Wk.m[m] \in MasterType /\ Wu.m[m] \in MasterType
      BY <3>1, <3>2, <3>3, PutIs, RecordOf
    <3> HIDE DEF Wp
    <3>5. Given(W.m[m], Wk.m[m], W.m[m].vt, TRUE, W.m[m].refcount)
      BY <1>2, <3>1, <3>2 DEF Given, MasterType
    <3>6. Given(W.m[m], Wu.m[m], NoFile, TRUE, W.m[m].refcount)
      BY <3>3, <3>4, <3>5 DEF Given, MasterType
    <3>7. Given(W.m[m], Wp.m[m], NoFile, TRUE, W.m[m].refcount - 1)
      BY <3>4, <3>6 DEF Given, MasterType
    <3>8. Wp.f = W.f /\ Wp.d = W.d /\ \A n \in Masters \ {m} : Wp.m[n] = W.m[n]
      BY <3>2, <3>3, <3>4 DEF OnlyMaster
    <3>9. ASSUME NEW n \in Masters
          PROVE  /\ Wp.m[n].refcount = W.m[n].refcount - One(m = n)
                 /\ Wp.m[n].readers = W.m[n].readers /\ Wp.m[n].magiclist = W.m[n].magiclist
                 /\ Wp.m[n].kill \/ (Wp.m[n].vt = W.m[n].vt /\ Wp.m[n].kill = W.m[n].kill)
      <4>1. CASE n = m
        BY <3>7, <4>1 DEF Given, One
      <4>2. CASE n # m
        BY <1>2, <3>8, <4>2 DEF One
      <4>3. QED
        BY <4>1, <4>2
    <3>10. QED
      BY <3>1, <3>4, <3>8, <3>9
  <2> HIDE DEF W1, m
  <2>3. QED
    BY <2>1, <2>2
<1> HIDE DEF W1, m
<1>4. /\ W2 \in Worlds /\ W2.f = W.f /\ W2.m = W1.m /\ SameRest(W.d, W2.d)
      /\ W2.d.n3d = W.d.n3d - One(W.f[f].res = "hw")
      /\ (Counted(W.d) => Counted(W2.d)) /\ (W2.d.hidden => W.d.hidden)
  <2>1. CASE W.f[f].res = "hw"
    <3>1. W2 = M!vmw_3d_resource_dec(W1, FALSE)
      BY <2>1
    <3> HIDE DEF W2
    <3>2. /\ W2 \in Worlds /\ W2.f = W1.f /\ W2.m = W1.m /\ SameRest(W1.d, W2.d)
          /\ W2.d.n3d = W1.d.n3d - 1 /\ (Counted(W1.d) => Counted(W2.d))
          /\ (W2.d.hidden => W1.d.hidden)
      BY <1>3, <3>1, Dec3d
    <3>3. QED
      BY <1>3, <2>1, <3>2 DEF One
  <2>2. CASE W.f[f].res # "hw"
    <3>1. W2 = W1 /\ One(W.f[f].res = "hw") = 0 /\ SameRest(W.d, W.d)
      BY <2>2 DEF One, SameRest
    <3> HIDE DEF W2
    <3>2. QED
      BY <1>1, <1>3, <3>1
  <2>3. QED
    BY <2>1, <2>2
<1>5. M!vmw_postclose(W, f) = V
  BY Zenon DEF M!vmw_postclose, W1, m
<1> HIDE DEF W2
<1>6. OnlyFile(W2, V, f) /\ V.f[f] = M!NewFile
  BY <1>4, NewFiles, SetFile
<1> HIDE DEF V
<1>7. Gone(W, V, f)
  BY <1>3, <1>4, <1>6 DEF OnlyFile, Gone, m
<1>8. QED
  BY <1>5, <1>7

\* ReleaseEnd: the reference to the master first, then what the driver frees.
Closes(W, f) ==
  LET W0 == IF W.f[f].master = NoMaster THEN W ELSE M!drm_master_put(W, W.f[f].master)
      W1 == [M!vmw_postclose(W0, f) EXCEPT !.d.open_count = @ - 1, !.d.global = NoFile]
  IN IF W1.d.open_count = 0 THEN M!drm_lastclose(W1) ELSE W1

LEMMA ClosesKeeps ==
  ASSUME NEW W, Base(W), NEW f \in Files, W.f[f].pc = "close"
  PROVE  Keeps(W, Closes(W, f))
<1> DEFINE m == W.f[f].master
           W0 == IF m = NoMaster THEN W ELSE M!drm_master_put(W, m)
           X == M!vmw_postclose(W0, f)
           d1 == [X.d EXCEPT !.open_count = X.d.open_count - 1, !.global = NoFile]
           W1 == [X EXCEPT !.d = d1]
           d2 == [W1.d EXCEPT !.is_opened = FALSE]
           W2 == [W1 EXCEPT !.d = d2]
           V == IF W1.d.open_count = 0 THEN W2 ELSE W1
<1>1. /\ W \in Worlds /\ OwnersOK(W) /\ FileOK(W.f[f], f, W.d) /\ m \in Owners
      /\ \A n \in Masters : W.m[n] \in MasterType /\ W.m[n].refcount \in Int /\ n # NoMaster
  BY Typing, RecordOf, FilesAssumption DEF Base
<1>2. /\ W0 \in Worlds /\ W0.f = W.f /\ W0.d = W.d
      /\ \A n \in Masters :
           /\ W0.m[n].refcount = W.m[n].refcount - One(m = n) /\ W0.m[n].refcount \in Int
           /\ W0.m[n].readers = W.m[n].readers /\ W0.m[n].magiclist = W.m[n].magiclist
           /\ W0.m[n].vt = W.m[n].vt /\ W0.m[n].kill = W.m[n].kill
  <2>1. CASE m = NoMaster
    <3>1. W0 = W
      BY <2>1
    <3> HIDE DEF W0, m
    <3>2. QED
      BY <1>1, <2>1, <3>1 DEF One
  <2>2. CASE m # NoMaster
    <3> DEFINE P == M!drm_master_put(W, m)
    <3>1. W0 = P /\ m \in Masters /\ m \in Masters \cup {Fbdev}
      BY <1>1, <2>2 DEF Owners
    <3> HIDE DEF W0, m
    <3>2. /\ P \in Worlds /\ OnlyMaster(W, P, m)
          /\ P.m[m] = [W.m[m] EXCEPT !.refcount = W.m[m].refcount - 1]
      BY <1>1, <3>1, PutIs
    <3> HIDE DEF P
    <3>3. Given(W.m[m], P.m[m], W.m[m].vt, W.m[m].kill, W.m[m].refcount - 1)
      BY <1>1, <3>1, <3>2 DEF Given, MasterType
    <3>4. ASSUME NEW n \in Masters
          PROVE  /\ P.m[n].refcount = W.m[n].refcount - One(m = n) /\ P.m[n].refcount \in Int
                 /\ P.m[n].readers = W.m[n].readers /\ P.m[n].magiclist = W.m[n].magiclist
                 /\ P.m[n].vt = W.m[n].vt /\ P.m[n].kill = W.m[n].kill
      <4>1. CASE n = m
        BY <1>1, <3>3, <4>1 DEF Given, One
      <4>2. CASE n # m
        BY <1>1, <3>2, <4>2 DEF OnlyMaster, One
      <4>3. QED
        BY <4>1, <4>2
    <3>5. QED
      BY <3>1, <3>2, <3>4 DEF OnlyMaster
  <2> HIDE DEF W0, m
  <2>3. QED
    BY <2>1, <2>2
<1> HIDE DEF W0
<1>3. Gone(W0, X, f)
  BY <1>2, PostcloseIs
<1> HIDE DEF X
<1>4. X \in Worlds /\ X.d \in DeviceType /\ X.d.open_count - 1 \in Int
  <2>1. X \in Worlds
    BY <1>3 DEF Gone
  <2>2. QED
    BY <2>1, Parts DEF DeviceType
<1>5. d1 \in DeviceType /\ SameDevice(X.d, d1)
  BY <1>4 DEF DeviceType, SameDevice, SameCount
<1>6. W1 = [X EXCEPT !.d.open_count = @ - 1, !.d.global = NoFile]
  BY <1>4 DEF Worlds, DeviceType
<1> HIDE DEF d1
<1>7. W1 \in Worlds /\ W1.f = X.f /\ W1.m = X.m /\ W1.d = d1
  BY <1>4, <1>5, SetD
<1> HIDE DEF W1
<1>8. d2 \in DeviceType /\ SameDevice(d1, d2)
  BY <1>5, <1>7 DEF DeviceType, SameDevice, SameCount
<1>9. W2 = M!drm_lastclose(W1)
  BY DEF M!drm_lastclose, M!vmw_lastclose
<1> HIDE DEF d2
<1>10. W2 \in Worlds /\ W2.f = X.f /\ W2.m = X.m /\ W2.d = d2
  BY <1>7, <1>8, SetD
<1> HIDE DEF W2
<1>11. Closes(W, f) = V
  <2>1. Closes(W, f) = IF [X EXCEPT !.d.open_count = @ - 1, !.d.global = NoFile].d.open_count = 0
                       THEN M!drm_lastclose([X EXCEPT !.d.open_count = @ - 1, !.d.global = NoFile])
                       ELSE [X EXCEPT !.d.open_count = @ - 1, !.d.global = NoFile]
    BY Zenon DEF Closes, X, W0
  <2>2. Closes(W, f) = IF W1.d.open_count = 0 THEN M!drm_lastclose(W1) ELSE W1
    BY <1>6, <2>1
  <2>3. QED
    BY <1>9, <2>2
<1>12. V \in Worlds /\ V.f = X.f /\ V.m = X.m /\ SameDevice(X.d, V.d)
  <2>1. V = W1 \/ V = W2
    OBVIOUS
  <2>2. SameDevice(X.d, d2)
    BY <1>5, <1>8 DEF SameDevice, SameCount
  <2> HIDE DEF V
  <2>3. QED
    BY <1>5, <1>7, <1>10, <2>1, <2>2
<1> HIDE DEF V
<1>13. /\ \A g \in Files \ {f} : V.f[g] = W.f[g]
       /\ V.f[f] = M!NewFile /\ Fresh(V.f[f], "closed", NoMaster, FALSE)
  <2>1. V.f[f] = M!NewFile /\ \A g \in Files \ {f} : V.f[g] = W.f[g]
    BY <1>2, <1>3, <1>12 DEF Gone
  <2>2. QED
    BY <2>1, NewFiles
<1>14. ASSUME NEW n \in Masters
       PROVE  /\ V.m[n].refcount = W.m[n].refcount - One(m = n) - One(W.f[f].locked = n)
              /\ V.m[n].readers = W.m[n].readers /\ V.m[n].magiclist = W.m[n].magiclist
              /\ V.m[n].kill \/ (V.m[n].vt = W.m[n].vt /\ V.m[n].kill = W.m[n].kill)
  BY <1>2, <1>3, <1>12 DEF Gone
<1>15. /\ SameRest(W.d, X.d) /\ X.d.n3d = W.d.n3d - One(W.f[f].res = "hw")
       /\ (Counted(W.d) => Counted(X.d)) /\ (X.d.hidden => W.d.hidden)
  BY <1>2, <1>3 DEF Gone
<1>16. Others(W, V, f)
  BY <1>12, <1>13, SameIsAlike
<1>17. RefsMove(W, V, f)
  <2> SUFFICES ASSUME NEW n \in Masters
               PROVE  V.m[n].refcount = W.m[n].refcount
                        + (One(V.d.minor = n) - One(W.d.minor = n))
                        + (One(V.f[f].master = n) - One(W.f[f].master = n))
                        + (One(V.f[f].locked = n) - One(W.f[f].locked = n))
    BY DEF RefsMove
  <2>1. /\ W.m[n].refcount \in Int /\ n # NoMaster /\ V.d.minor = W.d.minor
        /\ V.f[f].master = NoMaster /\ V.f[f].locked = NoMaster
    BY <1>1, <1>12, <1>13, <1>15 DEF Fresh, SameDevice, SameRest
  <2>2. V.m[n].refcount = W.m[n].refcount - One(m = n) - One(W.f[f].locked = n)
    BY <1>14
  <2>3. QED
    BY <2>1, <2>2 DEF One, m
<1>18. OwnersMove(W, V, f)
  <2>1. FileOK(V.f[f], f, V.d)
    BY <1>13, FilesAssumption DEF FileOK, Fresh, Dropping
  <2>2. /\ V.d.minor = W.d.minor /\ V.d.active = W.d.active /\ (W.d.bug => V.d.bug)
        /\ ~V.f[f].is_master
    BY <1>12, <1>13, <1>15 DEF SameDevice, SameCount, SameRest, Fresh
  <2>3. QED
    BY <1>1, <2>1, <2>2 DEF OwnersMove, OwnersOK
<1>19. MagicsMove(W, V, f)
  <2> SUFFICES ASSUME NEW n \in Masters, V.m[n].refcount > 0
               PROVE  /\ W.m[n].refcount > 0 /\ V.m[n].magiclist \subseteq W.m[n].magiclist
                      /\ f \notin V.m[n].magiclist
    BY DEF MagicsMove
  <2>1. W.m[n].refcount > 0
    BY <1>1, <1>14 DEF One
  <2>2. f \notin W.m[n].magiclist
    BY <2>1 DEF Base, Magics, Listed
  <2>3. QED
    BY <1>14, <2>1, <2>2
<1>20. Clients(W) => ClientsMove(W, V, f)
  <2> SUFFICES ASSUME Clients(W) PROVE ClientsMove(W, V, f)
    OBVIOUS
  <2>1. ~Inside(V.f[f])
    BY <1>13 DEF Inside, Fresh
  <2>2. ASSUME NEW n \in Masters, V.d.active # n PROVE V.m[n].readers = {} /\ Shut(V.m[n])
    <3>1. W.m[n].readers = {} /\ Shut(W.m[n])
      BY <1>12, <1>15, <2>2 DEF Clients, SameDevice, SameCount, SameRest
    <3>2. V.m[n].refcount > 0 => W.m[n].refcount > 0
      BY <1>1, <1>14 DEF One
    <3>3. QED
      BY <1>14, <3>1, <3>2 DEF Shut
  <2>3. QED
    BY <1>14, <2>1, <2>2 DEF ClientsMove
<1>21. ThreeD(W) => ThreeDMove(W, V, f)
  <2> SUFFICES ASSUME ThreeD(W) PROVE ThreeDMove(W, V, f)
    OBVIOUS
  <2>1. /\ V.d.n3d = W.d.n3d - One(W.f[f].res = "hw") /\ W.d.n3d \in Int
        /\ Counting(V.d) = Counting(W.d) /\ Counting(W.d) \in Int
        /\ One(V.f[f].res = "hw") = 0
    BY <1>1, <1>12, <1>13, <1>15, Parts
       DEF SameDevice, SameCount, SameRest, Fresh, Counting, One, DeviceType
  <2>2. V.d.n3d = W.d.n3d + (One(V.f[f].res = "hw") - One(W.f[f].res = "hw"))
                 + (Counting(V.d) - Counting(W.d))
    BY <2>1 DEF One
  <2>3. Counted(V.d) /\ (V.d.active # Fbdev \/ V.d.enable_fb => ~V.d.hidden)
    BY <1>12, <1>15 DEF ThreeD, SameDevice, SameCount, SameRest, Counted
  <2>4. QED
    BY <2>2, <2>3 DEF ThreeDMove
<1>22. QED
  BY <1>11, <1>16, <1>17, <1>18, <1>19, <1>20, <1>21, KeepsStep

-----------------------------------------------------------------------------
(* Suspend and resume: every file at once, and no master. *)

\* What a file keeps when its resource leaves the device.
Stays(r, s) ==
  /\ s.pc = r.pc /\ s.master = r.master /\ s.is_master = r.is_master /\ s.magic = r.magic
  /\ s.locked = r.locked
  /\ r.pc = "closed" => s = r

Powered(W, V) ==
  /\ V \in Worlds /\ V.m = W.m /\ \A g \in Files : Stays(W.f[g], V.f[g])
  /\ V.d.minor = W.d.minor /\ V.d.active = W.d.active /\ V.d.enable_fb = W.d.enable_fb
  /\ (W.d.bug => V.d.bug)

LEMMA PoweredKeeps ==
  ASSUME NEW W, Base(W), NEW V, Powered(W, V),
         "resume" \notin Faults /\ ThreeD(W) => ThreeD(V)
  PROVE  Keeps(W, V)
<1>1. W \in Worlds /\ OwnersOK(W) /\ Refs(W) /\ Magics(W) /\ V \in Worlds /\ V.m = W.m
  BY DEF Base, Powered
<1>2. OwnersOK(V)
  <2>1. ASSUME NEW g \in Files PROVE FileOK(V.f[g], g, V.d)
    BY <1>1 DEF Powered, Stays, OwnersOK, FileOK, Dropping
  <2>2. \A g, h \in Files : V.f[g].is_master /\ V.f[h].is_master => g = h
    BY <1>1 DEF Powered, Stays, OwnersOK
  <2>3. QED
    BY <1>1, <2>1, <2>2 DEF Powered, OwnersOK
<1>3. Refs(V)
  <2>1. \A m : Under(V, m) = Under(W, m) /\ LockOn(V, m) = LockOn(W, m)
    BY DEF Powered, Stays, Under, LockOn
  <2>2. V.d.minor = W.d.minor
    BY DEF Powered
  <2>3. QED
    BY <1>1, <2>1, <2>2 DEF Refs
<1>4. Magics(V)
  <2> SUFFICES ASSUME NEW m \in Masters, W.m[m].refcount > 0, NEW g \in W.m[m].magiclist
               PROVE  Listed(V.f[g], m)
    BY <1>1 DEF Magics
  <2>1. Listed(W.f[g], m)
    BY <1>1 DEF Magics
  <2>2. g \in Files
    BY <1>1, RecordOf DEF MasterType
  <2>3. QED
    BY <2>1, <2>2 DEF Powered, Stays, Listed
<1>5. Clients(W) => Clients(V)
  BY <1>1 DEF Powered, Stays, Clients, Inside
<1>6. QED
  BY <1>1, <1>2, <1>3, <1>4, <1>5 DEF Keeps, Base

LEMMA SameStays ==
  ASSUME NEW W, NEW V \in Worlds, V.m = W.m, V.f = W.f,
         V.d.minor = W.d.minor, V.d.active = W.d.active, V.d.enable_fb = W.d.enable_fb,
         (W.d.bug => V.d.bug)
  PROVE  Powered(W, V)
  BY DEF Powered, Stays

\* The state of suspend, and what goes with it.
SetPm(d, e, pm) ==
  /\ e.pm = pm /\ e.minor = d.minor /\ e.active = d.active /\ e.enable_fb = d.enable_fb
  /\ e.n3d = d.n3d /\ (e.fifo <=> d.fifo) /\ (e.hidden <=> d.hidden) /\ (d.bug => e.bug)

Pms == {"on", "failed", "resumed", "prepare", "suspended", "asleep", "complete"}

LEMMA SetPmIs ==
  ASSUME NEW W \in Worlds, NEW pm \in Pms
  PROVE  LET V == [W EXCEPT !.d.pm = pm] IN SetDevice(W, V) /\ SetPm(W.d, V.d, pm)
<1> DEFINE d == [W.d EXCEPT !.pm = pm]
           V == [W EXCEPT !.d = d]
<1>1. d \in DeviceType /\ SetPm(W.d, d, pm)
  BY Parts DEF DeviceType, SetPm, Pms
<1> HIDE DEF d
<1>2. V \in Worlds /\ V.f = W.f /\ V.m = W.m /\ V.d = d
  BY <1>1, SetD
<1> HIDE DEF V
<1>3. QED
  BY <1>1, <1>2 DEF V, d, SetDevice

\* From U, which has counted, to the state pm.
LEMMA PmKeeps ==
  ASSUME NEW W, Base(W), NEW U, Powered(W, U), NEW pm \in Pms, U.f = W.f,
         "resume" \notin Faults /\ ThreeD(W) =>
           /\ Counted(U.d) /\ (U.d.hidden => W.d.hidden)
           /\ U.d.n3d = W.d.n3d + (IF W.d.enable_fb
                                   THEN One(pm \notin {"suspended", "asleep", "complete"})
                                        - One(W.d.pm \notin {"suspended", "asleep", "complete"})
                                   ELSE 0)
  PROVE  Keeps(W, [U EXCEPT !.d.pm = pm])
<1> DEFINE V == [U EXCEPT !.d.pm = pm]
<1>1. U \in Worlds /\ W \in Worlds /\ W.d.n3d \in Int /\ W.d.enable_fb \in BOOLEAN
  BY Parts DEF Powered, Base, DeviceType
<1>2. SetDevice(U, V) /\ SetPm(U.d, V.d, pm)
  BY <1>1, SetPmIs
<1> HIDE DEF V
<1>3. Powered(W, V)
  BY <1>2, SameStays DEF Powered, SetDevice, SetPm
<1>4. ASSUME "resume" \notin Faults, ThreeD(W) PROVE ThreeD(V)
  <2>1. OnDevice(V) = OnDevice(W)
    BY <1>2 DEF OnDevice, SetDevice
  <2>2. V.d.n3d = W.d.n3d + (Counting(V.d) - Counting(W.d))
    BY <1>1, <1>2, <1>4 DEF SetPm, Powered, Counting, One
  <2>3. Cardinality(OnDevice(W)) \in Nat /\ Counting(V.d) \in Int /\ Counting(W.d) \in Int
    BY FilesFinite DEF Counting, One
  <2>4. V.d.n3d = Cardinality(OnDevice(V)) + Counting(V.d)
    BY <1>4, <2>1, <2>2, <2>3 DEF ThreeD
  <2>5. Counted(V.d) /\ (V.d.active # Fbdev \/ V.d.enable_fb => ~V.d.hidden)
    BY <1>2, <1>4 DEF SetPm, Powered, ThreeD, Counted
  <2>6. QED
    BY <2>4, <2>5 DEF ThreeD
<1>5. QED
  BY <1>3, <1>4, PoweredKeeps DEF V

LEMMA KeepsTrans ==
  ASSUME NEW W, NEW U, NEW V, Keeps(W, U), Keeps(U, V)
  PROVE  Keeps(W, V)
  BY DEF Keeps

\* Instances have a Cardinality of their own.
LEMMA Cards == ASSUME NEW S PROVE M!Cardinality(S) = Cardinality(S)
  BY Zenon DEF M!Cardinality, Cardinality

\* vmw_resource_evict_all: the count falls by what leaves the device.
LEMMA EvictKeeps ==
  ASSUME NEW W, Base(W)
  PROVE  LET U == M!vmw_resource_evict_all(W) IN Keeps(W, U) /\ U.d.pm = W.d.pm
<1> DEFINE Hw == OnDevice(W)
           n == M!Cardinality(Hw)
           r(g) == IF g \in Hw THEN [W.f[g] EXCEPT !.res = "evicted"] ELSE W.f[g]
           F == [g \in Files |-> r(g)]
           d1 == [W.d EXCEPT !.n3d = W.d.n3d - n]
           d2 == [d1 EXCEPT !.fifo = FALSE]
           W0 == [W EXCEPT !.f = F]
           W1 == [W0 EXCEPT !.d = d1]
           W2 == [W1 EXCEPT !.d = d2]
           Big == [W EXCEPT !.f = [f \in Files |-> IF f \in Hw THEN [W.f[f] EXCEPT !.res = "evicted"]
                                                   ELSE W.f[f]],
                            !.d.n3d = @ - n]
           U == M!vmw_resource_evict_all(W)
<1>0. U = IF ~W.d.has_mob \/ Hw = {} THEN W
          ELSE IF W.d.n3d = n THEN M!vmw_release_device(Big) ELSE Big
  BY Zenon DEF M!vmw_resource_evict_all, OnDevice
<1>1. W \in Worlds /\ OwnersOK(W) /\ W.d \in DeviceType /\ W.d.n3d \in Int
      /\ Cardinality(Hw) \in Nat /\ IsFiniteSet(Hw) /\ W.d.n3d - n \in Int /\ n = Cardinality(Hw)
  <2>1. W \in Worlds /\ OwnersOK(W) /\ W.d.n3d \in Int /\ W.d \in DeviceType
    BY Parts DEF Base, DeviceType
  <2>2. Cardinality(Hw) \in Nat /\ IsFiniteSet(Hw) /\ n = Cardinality(Hw)
    BY FilesFinite, Cards
  <2> HIDE DEF n, Hw
  <2>3. QED
    BY <2>1, <2>2
<1>2. Hw = {f \in Files : W.f[f].res = "hw"}
  BY DEF OnDevice
<1> HIDE DEF Hw, n
<1>3. ASSUME NEW g \in Files
      PROVE  r(g) \in FileType /\ Stays(W.f[g], r(g)) /\ r(g).res # "hw"
  <2>1. W.f[g] \in FileType /\ FileOK(W.f[g], g, W.d)
    BY <1>1, Parts DEF OwnersOK
  <2>2. CASE g \in Hw
    <3> DEFINE s == [W.f[g] EXCEPT !.res = "evicted"]
    <3>1. W.f[g].pc # "closed"
      BY <1>2, <2>1, <2>2 DEF FileOK, M!NewFile
    <3>2. s \in FileType /\ Stays(W.f[g], s) /\ s.res = "evicted"
      BY <2>1, <3>1 DEF FileType, Stays
    <3>3. r(g) = s
      BY <2>2
    <3> HIDE DEF s, r
    <3>4. QED
      BY <3>2, <3>3
  <2>3. CASE g \notin Hw
    BY <1>2, <2>1, <2>3 DEF Stays
  <2>4. QED
    BY <2>2, <2>3
<1> HIDE DEF r
<1>4. F \in [Files -> FileType] /\ \A g \in Files : F[g] = r(g)
  BY <1>3
<1> HIDE DEF F
<1>5. d1 \in DeviceType /\ d1.n3d = W.d.n3d - Cardinality(Hw) /\ d1.fifo = W.d.fifo
      /\ d1.hidden = W.d.hidden /\ d1.enable_fb = W.d.enable_fb /\ d1.pm = W.d.pm
      /\ d1.minor = W.d.minor /\ d1.active = W.d.active /\ d1.bug = W.d.bug
  <2>1. W.d \in DeviceType /\ W.d.n3d - n \in Int /\ n = Cardinality(Hw)
    BY <1>1
  <2>2. QED
    BY <2>1 DEF DeviceType
<1> HIDE DEF d1
<1>6. d2 \in DeviceType /\ d2.n3d = d1.n3d /\ ~d2.fifo
      /\ d2.hidden = d1.hidden /\ d2.enable_fb = d1.enable_fb /\ d2.pm = d1.pm
      /\ d2.minor = d1.minor /\ d2.active = d1.active /\ d2.bug = d1.bug
  BY <1>5 DEF DeviceType
<1> HIDE DEF d2
<1>7. W0 \in Worlds /\ W0.m = W.m /\ W0.d = W.d /\ W0.f = F
  BY <1>1, <1>4, SetF
<1>8. Big = W1
  <2>1. W0 = [W EXCEPT !.f = [f \in Files |-> IF f \in Hw THEN [W.f[f] EXCEPT !.res = "evicted"]
                                              ELSE W.f[f]]]
    BY DEF F, r
  <2> HIDE DEF W0
  <2>2. W1 = [W0 EXCEPT !.d.n3d = @ - n]
    BY <1>7 DEF d1
  <2> HIDE DEF W1
  <2>3. QED
    BY <2>1, <2>2, Zenon
<1> HIDE DEF W0
<1>9. W1 \in Worlds /\ W1.m = W.m /\ W1.d = d1 /\ W1.f = F
  BY <1>5, <1>7, SetD
<1> HIDE DEF W1
<1>10. W2 \in Worlds /\ W2.m = W.m /\ W2.d = d2 /\ W2.f = F
  BY <1>6, <1>9, SetD
<1>11. M!vmw_release_device(W1) = W2
  BY <1>9 DEF M!vmw_release_device, d2
<1> HIDE DEF W2
<1>12. U = IF ~W.d.has_mob \/ Hw = {} THEN W
           ELSE IF W.d.n3d = Cardinality(Hw) THEN W2 ELSE W1
  <2> HIDE DEF U, Big
  <2>1. QED
    BY <1>0, <1>1, <1>8, <1>11
<1> HIDE DEF U
<1>13. Powered(W, U) /\ U.d.pm = W.d.pm
  <2>1. Powered(W, W)
    BY <1>1 DEF Powered, Stays
  <2>2. Powered(W, W1)
    BY <1>3, <1>4, <1>5, <1>9 DEF Powered
  <2>3. Powered(W, W2)
    BY <1>3, <1>4, <1>5, <1>6, <1>10 DEF Powered
  <2>4. QED
    BY <1>5, <1>6, <1>9, <1>10, <1>12, <2>1, <2>2, <2>3
<1>14. ASSUME ThreeD(W) PROVE ThreeD(U)
  <2>1. W.d.n3d = Cardinality(Hw) + Counting(W.d) /\ Counted(W.d) /\ Counting(W.d) \in Nat
    BY <1>14 DEF ThreeD, Counting, One, Hw
  <2>2. Counting(d1) = Counting(W.d) /\ Counting(d2) = Counting(W.d)
    BY <1>5, <1>6 DEF Counting
  <2>3. ASSUME NEW V, V.f = F, V.d.n3d = d1.n3d, Counting(V.d) = Counting(W.d), Counted(V.d),
               V.d.hidden = W.d.hidden, V.d.enable_fb = W.d.enable_fb, V.d.active = W.d.active
        PROVE  ThreeD(V)
    <3>1. OnDevice(V) = {}
      BY <1>3, <1>4, <2>3 DEF OnDevice
    <3>2. Cardinality(OnDevice(V)) = 0
      BY <3>1, FS_EmptySet
    <3>3. V.d.n3d = Counting(V.d)
      BY <1>1, <1>5, <2>1, <2>3
    <3>4. QED
      BY <1>14, <2>1, <2>3, <3>2, <3>3 DEF ThreeD
  <2>4. CASE U = W2 /\ W.d.n3d = Cardinality(Hw)
    <3>1. Counted(d2)
      BY <1>1, <1>5, <1>6, <2>4 DEF Counted
    <3>2. QED
      BY <1>5, <1>6, <1>10, <2>2, <2>3, <2>4, <3>1
  <2>5. CASE U = W1 /\ W.d.n3d # Cardinality(Hw)
    <3>1. Counted(d1)
      BY <1>1, <1>5, <2>1, <2>5 DEF Counted
    <3>2. QED
      BY <1>5, <1>9, <2>2, <2>3, <2>5, <3>1
  <2>6. QED
    BY <1>12, <1>14, <2>4, <2>5
<1>15. QED
  BY <1>13, <1>14, PoweredKeeps DEF U

\* vmwgfx_pm_notifier.
LEMMA NotifierKeeps ==
  ASSUME NEW W, Base(W)
  PROVE  /\ W.d.pm = "on" => Keeps(W, [M!vmw_resource_evict_all(W) EXCEPT !.d.pm = "prepare"])
         /\ W.d.pm \in {"failed", "resumed"} => Keeps(W, [W EXCEPT !.d.pm = "on"])
<1>1. ASSUME NEW U, Base(U), NEW pm \in {"on", "prepare"},
             U.d.pm \notin {"suspended", "asleep", "complete"}
      PROVE  Keeps(U, [U EXCEPT !.d.pm = pm])
  <2>1. U \in Worlds /\ U.d.n3d \in Int /\ pm \in Pms
    <3>1. U \in Worlds
      BY <1>1 DEF Base
    <3>2. pm \in Pms
      BY DEF Pms
    <3>3. QED
      BY <3>1, <3>2, Parts DEF DeviceType
  <2>2. Powered(U, U)
    BY <2>1, SameStays
  <2>3. ThreeD(U) => /\ Counted(U.d)
                     /\ U.d.n3d = U.d.n3d + (IF U.d.enable_fb
                                   THEN One(pm \notin {"suspended", "asleep", "complete"})
                                        - One(U.d.pm \notin {"suspended", "asleep", "complete"})
                                   ELSE 0)
    BY <1>1, <2>1 DEF ThreeD, One
  <2>4. QED
    BY <1>1, <2>1, <2>2, <2>3, PmKeeps
<1>2. ASSUME W.d.pm = "on" PROVE Keeps(W, [M!vmw_resource_evict_all(W) EXCEPT !.d.pm = "prepare"])
  <2> DEFINE U == M!vmw_resource_evict_all(W)
  <2>1. Keeps(W, U) /\ U.d.pm = W.d.pm
    BY EvictKeeps
  <2> HIDE DEF U
  <2>2. Keeps(U, [U EXCEPT !.d.pm = "prepare"])
    BY <1>1, <1>2, <2>1 DEF Keeps
  <2>3. QED
    BY <2>1, <2>2, KeepsTrans DEF U
<1>3. QED
  BY <1>1, <1>2

\* vmw_pm_prepare: the fbdev gives up its reference, and takes it again where
\* the device is still in use.
Prepared(W) == IF W.d.enable_fb THEN M!vmw_3d_resource_dec(W, FALSE) ELSE W

Resumed(W) ==
  IF W.d.enable_fb THEN M!vmw_3d_resource_inc(W, FALSE, "resume") ELSE {M!Ok(W)}

LEMMA PreparedIs ==
  ASSUME NEW W \in Worlds
  PROVE  LET U == Prepared(W) IN
         /\ Powered(W, U) /\ U.f = W.f /\ (Counted(W.d) => Counted(U.d)) /\ U.d.pm = W.d.pm
         /\ U.d.n3d = W.d.n3d - (IF W.d.enable_fb THEN 1 ELSE 0)
         /\ (U.d.hidden => W.d.hidden)
<1>1. W.d.n3d \in Int
  BY Parts DEF DeviceType
<1>2. CASE W.d.enable_fb
  <2> DEFINE U == M!vmw_3d_resource_dec(W, FALSE)
  <2>1. Prepared(W) = U
    BY <1>2 DEF Prepared
  <2>2. /\ U \in Worlds /\ U.f = W.f /\ U.m = W.m /\ SameRest(W.d, U.d)
        /\ U.d.n3d = W.d.n3d - 1
        /\ Counted(W.d) => Counted(U.d)
        /\ U.d.hidden => W.d.hidden
    BY Dec3d
  <2> HIDE DEF U
  <2>3. Powered(W, U)
    BY <2>2, SameStays DEF SameRest
  <2>4. QED
    BY <1>2, <2>1, <2>2, <2>3 DEF SameRest
<1>3. CASE ~W.d.enable_fb
  <2>1. Prepared(W) = W
    BY <1>3 DEF Prepared
  <2>2. Powered(W, W)
    BY SameStays
  <2>3. QED
    BY <1>1, <1>3, <2>1, <2>2
<1>4. QED
  BY <1>2, <1>3

LEMMA ResumedIs ==
  ASSUME NEW W \in Worlds, NEW i \in Resumed(W)
  PROVE  /\ Powered(W, i.w) /\ i.w.f = W.f /\ (Counted(W.d) => Counted(i.w.d))
         /\ (i.w.d.hidden => W.d.hidden) /\ i.w.d.pm = W.d.pm
         /\ "resume" \notin Faults => i.w.d.n3d = W.d.n3d + (IF W.d.enable_fb THEN 1 ELSE 0)
<1>1. W.d.n3d \in Int
  BY Parts DEF DeviceType
<1>2. CASE W.d.enable_fb
  <2>1. i \in M!vmw_3d_resource_inc(W, FALSE, "resume")
    BY <1>2 DEF Resumed
  <2>2. Counts(W, i, FALSE, "resume")
    BY <2>1, Inc3d
  <2>3. Powered(W, i.w)
    BY <2>2, SameStays DEF Counts, SameRest
  <2>4. QED
    BY <1>2, <2>2, <2>3 DEF Counts, SameRest
<1>3. CASE ~W.d.enable_fb
  <2>1. i = M!Ok(W)
    BY <1>3 DEF Resumed
  <2>2. i.w = W /\ Powered(W, W)
    BY <2>1, Outcomes, SameStays
  <2>3. QED
    BY <1>1, <1>3, <2>2
<1>4. QED
  BY <1>2, <1>3

LEMMA PrepareKeeps ==
  ASSUME NEW W, Base(W), W.d.pm = "prepare"
  PROVE  LET U == Prepared(W) IN
         /\ U.d.n3d = 0 => Keeps(W, [U EXCEPT !.d.pm = "suspended"])
         /\ \A i \in Resumed(U) : Keeps(W, [i.w EXCEPT !.d.pm = "failed"])
<1> DEFINE U == Prepared(W)
<1>1. W \in Worlds /\ W.d.n3d \in Int
  BY Parts DEF Base, DeviceType
<1>2. /\ Powered(W, U) /\ U.f = W.f /\ (Counted(W.d) => Counted(U.d)) /\ U.d.pm = W.d.pm
      /\ U.d.n3d = W.d.n3d - (IF W.d.enable_fb THEN 1 ELSE 0)
      /\ (U.d.hidden => W.d.hidden)
  BY <1>1, PreparedIs
<1> HIDE DEF U
<1>3. Keeps(W, [U EXCEPT !.d.pm = "suspended"])
  <2>1. ThreeD(W) =>
           /\ Counted(U.d)
           /\ U.d.n3d = W.d.n3d + (IF W.d.enable_fb
                                   THEN One("suspended" \notin {"suspended", "asleep", "complete"})
                                        - One(W.d.pm \notin {"suspended", "asleep", "complete"})
                                   ELSE 0)
    BY <1>1, <1>2 DEF ThreeD, One
  <2>2. "suspended" \in Pms
    BY DEF Pms
  <2>3. QED
    BY <1>2, <2>1, <2>2, PmKeeps
<1>4. ASSUME NEW i \in Resumed(U) PROVE Keeps(W, [i.w EXCEPT !.d.pm = "failed"])
  <2> DEFINE V == i.w
  <2>1. U \in Worlds
    BY <1>2 DEF Powered
  <2>2. /\ Powered(U, V) /\ V.f = U.f /\ (Counted(U.d) => Counted(V.d))
        /\ (V.d.hidden => U.d.hidden)
        /\ "resume" \notin Faults => V.d.n3d = U.d.n3d + (IF U.d.enable_fb THEN 1 ELSE 0)
    BY <2>1, ResumedIs
  <2> HIDE DEF V
  <2>3. Powered(W, V)
    BY <1>2, <2>2 DEF Powered, Stays
  <2>4. "resume" \notin Faults /\ ThreeD(W) =>
           /\ Counted(V.d)
           /\ V.d.n3d = W.d.n3d + (IF W.d.enable_fb
                                   THEN One("failed" \notin {"suspended", "asleep", "complete"})
                                        - One(W.d.pm \notin {"suspended", "asleep", "complete"})
                                   ELSE 0)
    BY <1>1, <1>2, <2>2 DEF ThreeD, One, Powered
  <2>5. "failed" \in Pms /\ V.f = W.f /\ (V.d.hidden => W.d.hidden)
    BY <1>2, <2>2 DEF Pms
  <2>6. QED
    BY <2>3, <2>4, <2>5, PmKeeps DEF V
<1>5. QED
  BY <1>3, <1>4 DEF U

\* vmw_pci_suspend and vmw_pci_resume.
LEMMA PciKeeps ==
  ASSUME NEW W, Base(W), W.d.pm \in {"suspended", "asleep"}, NEW pm \in {"asleep", "complete"}
  PROVE  Keeps(W, [W EXCEPT !.d.pm = pm])
<1>1. W \in Worlds /\ W.d.n3d \in Int /\ pm \in Pms
  <2>1. W \in Worlds
    BY DEF Base
  <2>2. QED
    BY <2>1, Parts DEF DeviceType, Pms
<1>2. Powered(W, W)
  BY <1>1, SameStays
<1>3. ThreeD(W) =>
         /\ Counted(W.d)
         /\ W.d.n3d = W.d.n3d + (IF W.d.enable_fb
                                 THEN One(pm \notin {"suspended", "asleep", "complete"})
                                      - One(W.d.pm \notin {"suspended", "asleep", "complete"})
                                 ELSE 0)
  BY <1>1 DEF ThreeD, One
<1>4. QED
  BY <1>1, <1>2, <1>3, PmKeeps

\* vmw_pm_complete.
LEMMA CompleteKeeps ==
  ASSUME NEW W, Base(W), W.d.pm = "complete", NEW i \in Resumed(W)
  PROVE  Keeps(W, [i.w EXCEPT !.d.pm = "resumed"])
<1> DEFINE V == i.w
<1>1. W \in Worlds /\ W.d.n3d \in Int
  BY Parts DEF Base, DeviceType
<1>2. /\ Powered(W, V) /\ V.f = W.f /\ (Counted(W.d) => Counted(V.d))
      /\ (V.d.hidden => W.d.hidden)
      /\ "resume" \notin Faults => V.d.n3d = W.d.n3d + (IF W.d.enable_fb THEN 1 ELSE 0)
  BY <1>1, ResumedIs
<1> HIDE DEF V
<1>3. "resume" \notin Faults /\ ThreeD(W) =>
         /\ Counted(V.d)
         /\ V.d.n3d = W.d.n3d + (IF W.d.enable_fb
                                 THEN One("resumed" \notin {"suspended", "asleep", "complete"})
                                      - One(W.d.pm \notin {"suspended", "asleep", "complete"})
                                 ELSE 0)
  BY <1>1, <1>2 DEF ThreeD, One
<1>4. "resumed" \in Pms
  BY DEF Pms
<1>5. QED
  BY <1>2, <1>3, <1>4, PmKeeps DEF V

-----------------------------------------------------------------------------
(* The actions. *)

\* drm_open_helper.
LEMMA OpenHelperKeeps ==
  ASSUME NEW W, Base(W), W.m = mast, NEW f \in Files, W.f[f].pc = "closed",
         NEW V \in M!drm_open_helper(W, f)
  PROVE  Keeps(W, V)
<1> DEFINE b == f \in Root
           r == [M!NewFile EXCEPT !.authenticated = b]
           W1 == [W EXCEPT !.f[f] = r]
<1>1. W \in Worlds /\ b \in BOOLEAN /\ W.d.minor \in Owners
  BY Parts DEF Base, DeviceType
<1>2. r \in FileType /\ Fresh(r, "closed", NoMaster, FALSE)
  <2> HIDE DEF b
  <2> QED
    BY <1>1, NewFiles
<1>3. OnlyFile(W, W1, f) /\ W1.f[f] = r /\ W1 \in Worlds
  <2> HIDE DEF r
  <2> QED
    BY <1>1, <1>2, SetFile DEF OnlyFile
<1>4. CASE f \in Render
  <2>1. V = M!Opened(W1, f)
    BY <1>4 DEF M!drm_open_helper
  <2> HIDE DEF W1, r
  <2>2. NoMaster \in Owners
    BY DEF Owners
  <2>3. Fresh(W1.f[f], "closed", NoMaster, FALSE)
    BY <1>2, <1>3
  <2>4. /\ W1.d = W.d /\ \A g \in Files \ {f} : W1.f[g] = W.f[g]
        /\ \A n \in Masters \ {NoMaster} : W1.m[n] = W.m[n]
    BY <1>3 DEF OnlyFile
  <2>5. Keeps(W, M!Opened(W1, f))
    BY <1>3, <1>4, <2>2, <2>3, <2>4, OpenClientKeeps
  <2>6. QED
    BY <2>1, <2>5
<1>5. CASE f \notin Render /\ W.d.minor # NoMaster
  <2> DEFINE m == W.d.minor
             G == M!drm_master_get(W1, m)
             s == [G.f[f] EXCEPT !.master = m]
             X == [G EXCEPT !.f = [G.f EXCEPT ![f] = s]]
  <2>1. V = M!Opened(X, f)
    BY <1>5 DEF M!drm_open_helper
  <2>2. m \in Masters /\ m \in Owners /\ m \in Masters \cup {Fbdev}
    BY <1>1, <1>5 DEF Owners
  <2> HIDE DEF W1, r, m
  <2>3. /\ G \in Worlds /\ OnlyMaster(W1, G, m)
        /\ G.m[m] = [W1.m[m] EXCEPT !.refcount = W1.m[m].refcount + 1] /\ W.m[m] \in MasterType
    BY <1>1, <1>3, <2>2, GetIs, RecordOf
  <2> HIDE DEF G
  <2>4. G.f[f] = r
    BY <1>3, <2>3 DEF OnlyMaster
  <2>5. s \in FileType /\ Fresh(s, "closed", m, FALSE)
    BY <1>2, <2>2, <2>4 DEF FileType, Fresh
  <2> HIDE DEF s
  <2>6. OnlyFile(G, X, f) /\ X.f[f] = s /\ X \in Worlds
    BY <2>3, <2>5, SetFile DEF OnlyFile
  <2> HIDE DEF X
  <2>7. W1.m = W.m /\ X.m = G.m /\ X.d = W.d
    BY <1>3, <2>3, <2>6 DEF OnlyFile, OnlyMaster
  <2>8. Given(W.m[m], X.m[m], W.m[m].vt, W.m[m].kill, W.m[m].refcount + 1)
    BY <2>3, <2>7 DEF Given, MasterType
  <2>9. /\ \A g \in Files \ {f} : X.f[g] = W.f[g]
        /\ \A n \in Masters \ {m} : X.m[n] = W.m[n]
    BY <1>3, <2>3, <2>6, <2>7 DEF OnlyFile, OnlyMaster
  <2>10. Fresh(X.f[f], "closed", m, FALSE) /\ (m = NoMaster <=> f \in Render) /\ m = W.d.minor
    BY <1>5, <2>5, <2>6 DEF m
  <2>11. Keeps(W, M!Opened(X, f))
    BY <2>2, <2>6, <2>7, <2>8, <2>9, <2>10, OpenClientKeeps
  <2>12. QED
    BY <2>1, <2>11
<1>6. CASE f \notin Render /\ W.d.minor = NoMaster
  <2>1. V \in UNION {{OpenEnd(s, f, m) : s \in M!vmw_master_set(MadeFor(W, f, m, b), f, TRUE)} :
                       m \in M!Unused}
    BY <1>6, Zenon DEF M!drm_open_helper, MadeFor, OpenEnd
  <2> HIDE DEF b
  <2>3. PICK m \in M!Unused : \E s \in M!vmw_master_set(MadeFor(W, f, m, b), f, TRUE) :
                                V = OpenEnd(s, f, m)
    BY <2>1
  <2>4. PICK s \in M!vmw_master_set(MadeFor(W, f, m, b), f, TRUE) : V = OpenEnd(s, f, m)
    BY <2>3
  <2>5. m \in Masters /\ W.m[m].refcount = 0
    BY DEF M!Unused
  <2>6. Created(W, MadeFor(W, f, m, b), f, m)
    BY <1>1, <2>5, CreatedIs
  <2>7. Keeps(W, OpenEnd(s, f, m))
    BY <1>6, <2>4, <2>5, <2>6, OpenMasterKeeps
  <2>8. QED
    BY <2>4, <2>7
<1>7. QED
  BY <1>4, <1>5, <1>6

\* What an action makes of the state.
LEMMA Arrives ==
  ASSUME NEW W, NEW V, Keeps(W, V), M!Become(V)
  PROVE  Keeps(W, M!World')
<1>1. V \in Worlds
  BY DEF Keeps, Base
<1>2. M!World' = V
  BY <1>1 DEF M!World, M!Become, Worlds
<1>3. QED
  BY <1>2

LEMMA WorldIs == M!World.f = mfile /\ M!World.m = mast /\ M!World.d = mdev
  BY DEF M!World

LEMMA OpenAction ==
  ASSUME Base(M!World), NEW f \in Files, M!drm_open(f)
  PROVE  Keeps(M!World, M!World')
<1> DEFINE W == M!World
<1>1. PICK V \in M!drm_open_helper(W, f) : M!Become(V)
  BY DEF M!drm_open
<1>2. W.f[f].pc = "closed" /\ W.m = mast
  BY WorldIs DEF M!drm_open
<1> HIDE DEF W
<1>3. Keeps(W, V)
  BY <1>2, OpenHelperKeeps DEF W
<1>4. QED
  BY <1>1, <1>3, Arrives DEF W

LEMMA SetMasterAction ==
  ASSUME Base(M!World), NEW f \in Files, M!drm_setmaster_ioctl(f)
  PROVE  Keeps(M!World, M!World')
<1> DEFINE W == M!World
           m == mfile[f].master
<1>1. PICK s \in M!vmw_master_set(SetFor(W, f, m), f, FALSE) : M!Become(SetEnd(s, f, m))
  BY Zenon DEF M!drm_setmaster_ioctl, SetFor, SetEnd
<1>2. /\ W.f[f].pc = "idle" /\ ~W.f[f].is_master /\ W.d.minor = NoMaster
      /\ W.f[f].master = m /\ m # NoMaster
  BY WorldIs DEF M!drm_setmaster_ioctl
<1> HIDE DEF W, m
<1>3. m \in Masters
  BY <1>2, Typing DEF Owners, W
<1>4. Keeps(W, SetEnd(s, f, m))
  BY <1>1, <1>2, <1>3, SetMasterKeeps DEF W
<1>5. QED
  BY <1>1, <1>4, Arrives DEF W

LEMMA DropMasterAction ==
  ASSUME Base(M!World), NEW f \in Files, M!drm_dropmaster_ioctl(f), ~mdev.bug
  PROVE  Keeps(M!World, M!World')
<1> DEFINE W == M!World
           V == DropBegins(W, f)
<1>1. M!Become(V) /\ W.f[f].pc = "idle" /\ W.f[f].is_master /\ ~W.d.bug
  BY WorldIs DEF M!drm_dropmaster_ioctl, DropBegins
<1> HIDE DEF W
<1>2. Keeps(W, V)
  BY <1>1, DropMasterKeeps DEF W
<1> HIDE DEF V
<1>3. QED
  BY <1>1, <1>2, Arrives DEF W, V

\* DropLocked, from either caller.
DropEnd(U, f, pc) ==
  IF pc = "drop" THEN [U EXCEPT !.d.global = NoFile, !.f[f].pc = "idle"]
  ELSE [U EXCEPT !.f[f].pc = "close"]

LEMMA DropEndIs ==
  ASSUME NEW U \in Worlds, NEW f \in Files, NEW pc
  PROVE  GoesOn(U, DropEnd(U, f, pc), f, IF pc = "drop" THEN "idle" ELSE "close")
<1>1. CASE pc = "drop"
  <2> DEFINE X == [U EXCEPT !.d.global = NoFile]
             V == [X EXCEPT !.f[f].pc = "idle"]
  <2>1. SetDevice(U, X) /\ SameDevice(U.d, X.d)
    BY SetGlobal
  <2>2. DropEnd(U, f, pc) = V
    BY <1>1 DEF DropEnd
  <2> HIDE DEF X
  <2>3. OnlyFile(X, V, f) /\ SameFile(X.f[f], V.f[f], "idle", X.f[f].is_master, X.f[f].locked)
    BY <2>1, SetPc DEF SetDevice
  <2> HIDE DEF V
  <2>4. GoesOn(U, V, f, "idle")
    BY <2>1, <2>3 DEF OnlyFile, SetDevice, GoesOn
  <2>5. QED
    BY <1>1, <2>2, <2>4
<1>2. CASE pc # "drop"
  <2> DEFINE V == [U EXCEPT !.f[f].pc = "close"]
  <2>1. DropEnd(U, f, pc) = V
    BY <1>2 DEF DropEnd
  <2>2. OnlyFile(U, V, f) /\ SameFile(U.f[f], V.f[f], "close", U.f[f].is_master, U.f[f].locked)
    BY SetPc
  <2> HIDE DEF V
  <2>3. SameDevice(U.d, U.d)
    BY DEF SameDevice, SameCount
  <2>4. GoesOn(U, V, f, "close")
    BY <2>2, <2>3 DEF OnlyFile, GoesOn
  <2>5. QED
    BY <1>2, <2>1, <2>4
<1>3. QED
  BY <1>1, <1>2

LEMMA DropLockedAction ==
  ASSUME Base(M!World), NEW f \in Files, M!DropLocked(f)
  PROVE  Keeps(M!World, M!World')
<1> DEFINE W == M!World
           m == mfile[f].master
           pc == mfile[f].pc
           next == IF pc = "drop" THEN "idle" ELSE "close"
<1>1. PICK locked \in {TRUE} \cup (IF "vt" \in Faults THEN {FALSE} ELSE {}) :
        /\ locked => mast[m].readers = {}
        /\ M!Become(DropEnd(M!MasterDropped(W, f, locked), f, pc))
  BY Zenon DEF M!DropLocked, DropEnd
<1>2. W.f[f].pc = pc /\ pc \in {"drop", "closedrop"} /\ W.f[f].master = m /\ W.m = mast
  BY WorldIs DEF M!DropLocked
<1>3. locked \in BOOLEAN /\ (locked \/ "vt" \in Faults)
  OBVIOUS
<1> HIDE DEF W, m, pc
<1>4. W \in Worlds /\ Dropping(W.f[f]) /\ m \in Masters
  BY <1>2, Typing DEF Dropping, FileOK, W
<1> DEFINE U == M!MasterDropped(W, f, locked)
           V == DropEnd(U, f, pc)
<1>5. Dropped(W, U, f, m, locked)
  BY <1>2, <1>3, <1>4, MasterDroppedIs
<1> HIDE DEF U
<1>6. GoesOn(U, V, f, next)
  <2>1. U \in Worlds
    BY <1>5 DEF Dropped
  <2>2. QED
    BY <2>1, DropEndIs
<1>7. next \in {"idle", "close"} /\ (next = "idle" <=> W.f[f].pc = "drop")
  BY <1>2
<1> HIDE DEF V, next
<1>8. Keeps(W, V)
  BY <1>1, <1>2, <1>3, <1>4, <1>5, <1>6, <1>7, DropLockedKeeps DEF W
<1>9. QED
  BY <1>1, <1>8, Arrives DEF W, U, V

LEMMA GetMagicAction ==
  ASSUME Base(M!World), NEW f \in Files, M!drm_getmagic(f)
  PROVE  Keeps(M!World, M!World')
<1> DEFINE W == M!World
           m == mfile[f].master
           V == WithMagic(W, f, m)
<1>1. M!Become(V)
  BY Zenon DEF M!drm_getmagic, WithMagic
<1>2. W.f[f].pc = "idle" /\ W.f[f].master = m /\ m # NoMaster
  BY WorldIs DEF M!drm_getmagic
<1> HIDE DEF W, m
<1>3. m \in Masters
  BY <1>2, Typing DEF Owners, W
<1>4. Keeps(W, V)
  BY <1>2, <1>3, GetMagicKeeps DEF W
<1>5. QED
  BY <1>1, <1>4, Arrives DEF W

LEMMA AuthMagicAction ==
  ASSUME Base(M!World), NEW f \in Files, M!drm_authmagic(f)
  PROVE  Keeps(M!World, M!World')
<1> DEFINE W == M!World
           m == mfile[f].master
<1>1. PICK g \in W.m[m].magiclist : M!Become(Authed(W, g, m))
  BY Zenon, WorldIs DEF M!drm_authmagic, Authed
<1>2. W.f[f].is_master /\ W.f[f].master = m
  BY WorldIs DEF M!drm_authmagic
<1> HIDE DEF W, m
<1>3. m \in Masters /\ W.m[m].refcount > 0
  BY <1>2, Typing, Referenced DEF W
<1> DEFINE V == Authed(W, g, m)
<1>4. Keeps(W, V)
  BY <1>3, AuthMagicKeeps DEF W
<1> HIDE DEF V
<1>5. QED
  BY <1>1, <1>4, Arrives DEF W, V

LEMMA CheckAction ==
  ASSUME Base(M!World), NEW f \in Files, M!vmw_master_check(f)
  PROVE  Keeps(M!World, M!World')
<1> DEFINE W == M!World
           free == f \in Render \/ W.f[f].is_master
           pc == IF free THEN "in" ELSE "read"
           V == AtPc(W, f, pc)
<1>1. M!Become(V) /\ W.f[f].pc = "idle"
  BY WorldIs DEF M!vmw_master_check, AtPc
<1> HIDE DEF W
<1>2. FileOK(W.f[f], f, W.d)
  BY Typing DEF W
<1>3. /\ pc \in {"idle", "read", "killed", "in"} /\ (pc = "read" => f \notin Render)
      /\ (pc = "in" => W.f[f].master = NoMaster \/ W.f[f].is_master)
  BY <1>1, <1>2 DEF FileOK
<1> HIDE DEF pc
<1>4. Keeps(W, V)
  BY <1>1, <1>3, PcKeeps DEF W
<1>5. QED
  BY <1>1, <1>4, Arrives DEF W

LEMMA ReadLockAction ==
  ASSUME Base(M!World), NEW f \in Files, M!ttm_read_lock(f)
  PROVE  Keeps(M!World, M!World')
<1> DEFINE W == M!World
           m == mfile[f].master
<1>1. /\ W.f[f].pc = "read" /\ W.f[f].master = m
      /\ \/ M!Become(AtPc(W, f, "killed"))
         \/ ~W.m[m].kill /\ W.m[m].vt = NoFile /\ M!Become(LetIn(W, f, m))
  BY WorldIs DEF M!ttm_read_lock, AtPc, LetIn
<1> HIDE DEF W, m
<1>2. m \in Masters
  BY <1>1, Typing DEF FileOK, Owners, W
<1>3. Keeps(W, AtPc(W, f, "killed"))
  BY <1>1, PcKeeps DEF W
<1>4. CASE M!Become(AtPc(W, f, "killed"))
  BY <1>3, <1>4, Arrives DEF W
<1>5. CASE ~W.m[m].kill /\ W.m[m].vt = NoFile /\ M!Become(LetIn(W, f, m))
  <2>1. Keeps(W, LetIn(W, f, m))
    BY <1>1, <1>2, <1>5, ReadLockKeeps DEF W
  <2>2. QED
    BY <1>5, <2>1, Arrives DEF W
<1>6. QED
  BY <1>1, <1>4, <1>5

LEMMA InterruptedAction ==
  ASSUME Base(M!World), NEW f \in Files, M!Interrupted(f)
  PROVE  Keeps(M!World, M!World')
<1>1. M!Become(AtPc(M!World, f, "idle")) /\ M!World.f[f].pc = "read"
  BY WorldIs DEF M!Interrupted, AtPc
<1>2. Keeps(M!World, AtPc(M!World, f, "idle"))
  BY <1>1, PcKeeps
<1>3. QED
  BY <1>1, <1>2, Arrives

LEMMA ReleaseAction ==
  ASSUME Base(M!World), NEW f \in Files, M!drm_release(f), ~mdev.bug
  PROVE  Keeps(M!World, M!World')
<1> DEFINE W == M!World
<1>1. /\ M!Become(IF mfile[f].is_master THEN MasterGoes(W, f) ELSE ClientGoes(W, f))
      /\ W.f[f].pc \in {"idle", "killed"} /\ ~W.d.bug /\ W.f[f].is_master = mfile[f].is_master
  BY WorldIs DEF M!drm_release, MasterGoes, ClientGoes, Released
<1> HIDE DEF W
<1>2. CASE mfile[f].is_master
  <2>1. Keeps(W, MasterGoes(W, f))
    BY <1>1, <1>2, ReleaseMasterKeeps DEF W
  <2>2. QED
    BY <1>1, <1>2, <2>1, Arrives DEF W
<1>3. CASE ~mfile[f].is_master
  <2>1. Keeps(W, ClientGoes(W, f))
    BY <1>1, <1>3, ReleaseClientKeeps DEF W
  <2>2. QED
    BY <1>1, <1>3, <2>1, Arrives DEF W
<1>4. QED
  BY <1>2, <1>3

LEMMA ReleaseEndAction ==
  ASSUME Base(M!World), NEW f \in Files, M!ReleaseEnd(f)
  PROVE  Keeps(M!World, M!World')
<1> DEFINE W == M!World
<1>1. W.f[f].master = mfile[f].master /\ W.f[f].pc = "close"
  BY WorldIs DEF M!ReleaseEnd
<1>2. M!Become(Closes(W, f))
  BY Zenon, <1>1 DEF M!ReleaseEnd, Closes
<1> HIDE DEF W
<1>3. Keeps(W, Closes(W, f))
  BY <1>1, ClosesKeeps DEF W
<1>4. QED
  BY <1>2, <1>3, Arrives DEF W

\* What an ioctl comes to before it leaves the lock of its master.
WithRes(W, f, res) == [W EXCEPT !.f[f].res = res]
IncEnd(i, f) == IF i.ok THEN WithRes(i.w, f, "hw") ELSE i.w
DecEnd(W, f) ==
  WithRes(IF W.f[f].res = "hw" THEN M!vmw_3d_resource_dec(W, FALSE) ELSE W, f, "none")

\* The ioctl has changed the count by what it did to the file's resource.
IoctlStep(W, U, f) ==
  /\ U \in Worlds /\ U.m = W.m /\ SameRest(W.d, U.d) /\ \A g \in Files \ {f} : U.f[g] = W.f[g]
  /\ U.f[f].pc = W.f[f].pc /\ U.f[f].master = W.f[f].master
  /\ U.f[f].is_master = W.f[f].is_master /\ U.f[f].magic = W.f[f].magic
  /\ U.f[f].locked = W.f[f].locked
  /\ U.d.n3d = W.d.n3d + (One(U.f[f].res = "hw") - One(W.f[f].res = "hw"))
  /\ (Counted(W.d) => Counted(U.d))
  /\ (U.d.hidden => W.d.hidden)

LEMMA IoctlStill ==
  ASSUME NEW W \in Worlds, NEW f \in Files
  PROVE  IoctlStep(W, W, f)
<1>1. W.d.n3d \in Int
  BY Parts DEF DeviceType
<1>2. QED
  BY <1>1 DEF IoctlStep, SameRest, One

LEMMA IncEndIs ==
  ASSUME NEW W \in Worlds, NEW f \in Files, W.f[f].res # "hw",
         NEW i \in M!vmw_3d_resource_inc(W, FALSE, "device")
  PROVE  IoctlStep(W, IncEnd(i, f), f)
<1>1. Counts(W, i, FALSE, "device")
  BY Inc3d
<1>2. CASE ~i.ok
  BY <1>1, <1>2, IoctlStill DEF Counts, IncEnd
<1>3. CASE i.ok
  <2> DEFINE X == i.w
             U == WithRes(X, f, "hw")
  <2>1. /\ X \in Worlds /\ X.f = W.f /\ X.m = W.m /\ SameRest(W.d, X.d)
        /\ X.d.n3d = W.d.n3d + 1 /\ (Counted(W.d) => Counted(X.d)) /\ (X.d.hidden => W.d.hidden)
    BY <1>1, <1>3 DEF Counts
  <2> HIDE DEF X
  <2>2. /\ U \in Worlds /\ U.d = X.d /\ U.m = X.m /\ \A g \in Files \ {f} : U.f[g] = X.f[g]
        /\ U.f[f].res = "hw" /\ U.f[f].pc = X.f[f].pc /\ U.f[f].master = X.f[f].master
        /\ U.f[f].is_master = X.f[f].is_master /\ U.f[f].magic = X.f[f].magic
        /\ U.f[f].locked = X.f[f].locked
    BY <2>1, SetRes DEF WithRes
  <2> HIDE DEF U
  <2>3. U.d.n3d = W.d.n3d + (One(U.f[f].res = "hw") - One(W.f[f].res = "hw"))
    BY <2>1, <2>2 DEF One
  <2>4. IoctlStep(W, U, f)
    BY <2>1, <2>2, <2>3 DEF IoctlStep
  <2>5. QED
    BY <1>3, <2>4 DEF IncEnd, U, X
<1>4. QED
  BY <1>1, <1>2, <1>3

LEMMA DecEndIs ==
  ASSUME NEW W \in Worlds, NEW f \in Files, W.f[f].res # "none"
  PROVE  IoctlStep(W, DecEnd(W, f), f)
<1> DEFINE X == IF W.f[f].res = "hw" THEN M!vmw_3d_resource_dec(W, FALSE) ELSE W
           U == WithRes(X, f, "none")
<1>1. W.d.n3d \in Int
  BY Parts DEF DeviceType
<1>2. /\ X \in Worlds /\ X.f = W.f /\ X.m = W.m /\ SameRest(W.d, X.d)
      /\ X.d.n3d = W.d.n3d - One(W.f[f].res = "hw")
      /\ (Counted(W.d) => Counted(X.d)) /\ (X.d.hidden => W.d.hidden)
  <2>1. CASE W.f[f].res = "hw"
    <3>1. X = M!vmw_3d_resource_dec(W, FALSE)
      BY <2>1
    <3> HIDE DEF X
    <3>2. QED
      BY <2>1, <3>1, Dec3d DEF One
  <2>2. CASE W.f[f].res # "hw"
    BY <1>1, <2>2 DEF SameRest, One
  <2>3. QED
    BY <2>1, <2>2
<1> HIDE DEF X
<1>3. /\ U \in Worlds /\ U.d = X.d /\ U.m = X.m /\ \A g \in Files \ {f} : U.f[g] = X.f[g]
      /\ U.f[f].res = "none" /\ U.f[f].pc = X.f[f].pc /\ U.f[f].master = X.f[f].master
      /\ U.f[f].is_master = X.f[f].is_master /\ U.f[f].magic = X.f[f].magic
      /\ U.f[f].locked = X.f[f].locked
  BY <1>2, SetRes DEF WithRes
<1> HIDE DEF U
<1>4. U.d.n3d = W.d.n3d + (One(U.f[f].res = "hw") - One(W.f[f].res = "hw"))
  BY <1>1, <1>2, <1>3 DEF One
<1>5. IoctlStep(W, U, f)
  BY <1>2, <1>3, <1>4 DEF IoctlStep
<1>6. QED
  BY <1>5 DEF U, X, DecEnd

LEMMA IoctlAction ==
  ASSUME Base(M!World), NEW f \in Files, M!vmw_generic_ioctl(f)
  PROVE  Keeps(M!World, M!World')
<1> DEFINE W == M!World
<1>1. W.f[f].pc = "in" /\ W \in Worlds
  BY WorldIs, Typing DEF M!vmw_generic_ioctl
<1>2. \/ M!Become(M!Done(W, f))
      \/ /\ W.f[f].res # "hw"
         /\ \E i \in M!vmw_3d_resource_inc(W, FALSE, "device") : M!Become(M!Done(IncEnd(i, f), f))
      \/ W.f[f].res # "none" /\ M!Become(M!Done(DecEnd(W, f), f))
  BY Zenon, WorldIs DEF M!vmw_generic_ioctl, IncEnd, DecEnd, WithRes
<1> HIDE DEF W
<1>3. ASSUME NEW U, IoctlStep(W, U, f) PROVE Keeps(W, M!Done(U, f))
  BY <1>1, <1>3, IoctlKeeps DEF IoctlStep, W
<1>4. CASE M!Become(M!Done(W, f))
  BY <1>1, <1>3, <1>4, IoctlStill, Arrives DEF W
<1>5. ASSUME W.f[f].res # "hw", NEW i \in M!vmw_3d_resource_inc(W, FALSE, "device"),
             M!Become(M!Done(IncEnd(i, f), f))
      PROVE  Keeps(M!World, M!World')
  <2>1. Keeps(W, M!Done(IncEnd(i, f), f))
    BY <1>1, <1>3, <1>5, IncEndIs
  <2>2. QED
    BY <1>5, <2>1, Arrives DEF W
<1>6. CASE W.f[f].res # "none" /\ M!Become(M!Done(DecEnd(W, f), f))
  <2>1. Keeps(W, M!Done(DecEnd(W, f), f))
    BY <1>1, <1>3, <1>6, DecEndIs
  <2>2. QED
    BY <1>6, <2>1, Arrives DEF W
<1>7. QED
  BY <1>2, <1>4, <1>5, <1>6

LEMMA NotifierAction ==
  ASSUME Base(M!World), M!vmwgfx_pm_notifier
  PROVE  Keeps(M!World, M!World')
<1> DEFINE W == M!World
           V1 == [M!vmw_resource_evict_all(W) EXCEPT !.d.pm = "prepare"]
           V2 == [W EXCEPT !.d.pm = "on"]
<1>1. W.d.pm \in {"on", "failed", "resumed"} /\ M!Become(IF W.d.pm = "on" THEN V1 ELSE V2)
  BY WorldIs DEF M!vmwgfx_pm_notifier
<1>2. (W.d.pm = "on" => Keeps(W, V1)) /\ (W.d.pm \in {"failed", "resumed"} => Keeps(W, V2))
  BY Zenon, NotifierKeeps
<1> HIDE DEF W, V1, V2
<1>3. CASE W.d.pm = "on"
  BY <1>1, <1>2, <1>3, Arrives DEF W
<1>4. CASE W.d.pm # "on"
  BY <1>1, <1>2, <1>4, Arrives DEF W
<1>5. QED
  BY <1>3, <1>4

LEMMA PrepareAction ==
  ASSUME Base(M!World), M!vmw_pm_prepare
  PROVE  Keeps(M!World, M!World')
<1> DEFINE W == M!World
           U == Prepared(W)
           V1 == [U EXCEPT !.d.pm = "suspended"]
           V2(i) == [i.w EXCEPT !.d.pm = "failed"]
<1>1. /\ W.d.pm = "prepare" /\ W \in Worlds
      /\ \/ U.d.n3d = 0 /\ M!Become(V1)
         \/ U.d.n3d # 0 /\ \E i \in Resumed(U) : M!Become(V2(i))
  <2>1. W.d.pm = "prepare" /\ W \in Worlds /\ W.d.enable_fb = mdev.enable_fb
    BY WorldIs DEF M!vmw_pm_prepare, Base
  <2>2. U.d.enable_fb = mdev.enable_fb
    BY <2>1, PreparedIs DEF Powered
  <2>3. U = IF mdev.enable_fb THEN M!vmw_3d_resource_dec(W, FALSE) ELSE W
    BY <2>1 DEF Prepared
  <2>4. Resumed(U) = IF mdev.enable_fb THEN M!vmw_3d_resource_inc(U, FALSE, "resume")
                     ELSE {M!Ok(U)}
    BY <2>2 DEF Resumed
  <2> HIDE DEF U
  <2>5. \/ U.d.n3d = 0 /\ M!Become(V1)
        \/ U.d.n3d # 0 /\ \E i \in Resumed(U) : M!Become(V2(i))
    BY <2>3, <2>4 DEF M!vmw_pm_prepare
  <2>6. QED
    BY <2>1, <2>5
<1>2. (U.d.n3d = 0 => Keeps(W, V1)) /\ \A i \in Resumed(U) : Keeps(W, V2(i))
  <2>1. W.d.pm = "prepare"
    BY <1>1
  <2>2. QED
    BY Zenon, <2>1, PrepareKeeps
<1> HIDE DEF W, U, V1, V2
<1>3. QED
  BY <1>1, <1>2, Arrives DEF W

LEMMA PciAction ==
  ASSUME Base(M!World), M!vmw_pci_suspend \/ M!vmw_pci_resume
  PROVE  Keeps(M!World, M!World')
<1> DEFINE W == M!World
           V(pm) == [W EXCEPT !.d.pm = pm]
<1>1. W.d.pm \in {"suspended", "asleep"} /\ \E pm \in {"asleep", "complete"} : M!Become(V(pm))
  BY WorldIs DEF M!vmw_pci_suspend, M!vmw_pci_resume
<1>2. \A pm \in {"asleep", "complete"} : Keeps(W, V(pm))
  <2>1. W.d.pm \in {"suspended", "asleep"}
    BY <1>1
  <2>2. QED
    BY Zenon, <2>1, PciKeeps
<1> HIDE DEF W, V
<1>3. QED
  BY <1>1, <1>2, Arrives DEF W

LEMMA CompleteAction ==
  ASSUME Base(M!World), M!vmw_pm_complete
  PROVE  Keeps(M!World, M!World')
<1> DEFINE W == M!World
           V(i) == [i.w EXCEPT !.d.pm = "resumed"]
<1>1. W.d.pm = "complete"
  BY WorldIs DEF M!vmw_pm_complete
<1>2. \E i \in Resumed(W) : M!Become(V(i))
  <2>1. W.d.enable_fb = mdev.enable_fb
    BY WorldIs
  <2>2. Resumed(W) = IF mdev.enable_fb THEN M!vmw_3d_resource_inc(W, FALSE, "resume")
                     ELSE {M!Ok(W)}
    BY <2>1 DEF Resumed
  <2>3. QED
    BY <2>2 DEF M!vmw_pm_complete
<1>3. \A i \in Resumed(W) : Keeps(W, V(i))
  BY Zenon, <1>1, CompleteKeeps
<1> HIDE DEF W, V
<1>4. QED
  BY <1>2, <1>3, Arrives DEF W

\* Every step keeps the invariant, and what it needs of the faults.
LEMMA MasterStep ==
  ASSUME Base(M!World), M!MasterNext
  PROVE  Keeps(M!World, M!World')
<1>1. ASSUME NEW f \in Files, ~mdev.bug,
             \/ M!drm_open(f) \/ M!drm_setmaster_ioctl(f) \/ M!drm_dropmaster_ioctl(f)
             \/ M!DropLocked(f) \/ M!drm_getmagic(f) \/ M!drm_authmagic(f)
             \/ M!vmw_master_check(f) \/ M!ttm_read_lock(f) \/ M!Interrupted(f)
             \/ M!vmw_generic_ioctl(f) \/ M!drm_release(f) \/ M!ReleaseEnd(f)
      PROVE  Keeps(M!World, M!World')
  <2>1. CASE M!drm_open(f)
    BY <2>1, OpenAction
  <2>2. CASE M!drm_setmaster_ioctl(f)
    BY <2>2, SetMasterAction
  <2>3. CASE M!drm_dropmaster_ioctl(f)
    BY <1>1, <2>3, DropMasterAction
  <2>4. CASE M!DropLocked(f)
    BY <2>4, DropLockedAction
  <2>5. CASE M!drm_getmagic(f)
    BY <2>5, GetMagicAction
  <2>6. CASE M!drm_authmagic(f)
    BY <2>6, AuthMagicAction
  <2>7. CASE M!vmw_master_check(f)
    BY <2>7, CheckAction
  <2>8. CASE M!ttm_read_lock(f)
    BY <2>8, ReadLockAction
  <2>9. CASE M!Interrupted(f)
    BY <2>9, InterruptedAction
  <2>10. CASE M!vmw_generic_ioctl(f)
    BY <2>10, IoctlAction
  <2>11. CASE M!drm_release(f)
    BY <1>1, <2>11, ReleaseAction
  <2>12. CASE M!ReleaseEnd(f)
    BY <2>12, ReleaseEndAction
  <2>13. QED
    BY <1>1, <2>1, <2>2, <2>3, <2>4, <2>5, <2>6, <2>7, <2>8, <2>9, <2>10, <2>11, <2>12
<1>2. CASE M!vmwgfx_pm_notifier
  BY <1>2, NotifierAction
<1>3. CASE M!vmw_pm_prepare
  BY <1>3, PrepareAction
<1>4. CASE M!vmw_pci_suspend \/ M!vmw_pci_resume
  BY <1>4, PciAction
<1>5. CASE M!vmw_pm_complete
  BY <1>5, CompleteAction
<1>6. QED
  BY <1>1, <1>2, <1>3, <1>4, <1>5 DEF M!MasterNext

LEMMA MasterStart ==
  ASSUME M!MasterInit
  PROVE  Base(M!World) /\ Clients(M!World) /\ ThreeD(M!World)
<1> DEFINE W == M!World
<1>1. PICK fb \in BOOLEAN, gb \in BOOLEAN, g \in Groups :
        mdev = [enable_fb |-> fb, has_mob |-> gb, minor |-> NoMaster, active |-> Fbdev,
                n3d |-> IF fb THEN 1 ELSE 0, fifo |-> fb, hidden |-> FALSE,
                pm |-> "on", open_count |-> 0, is_opened |-> FALSE,
                global |-> NoFile, bug |-> FALSE, group |-> g]
  BY DEF M!MasterInit
<1>2. /\ W.d \in DeviceType /\ W.d.minor = NoMaster /\ W.d.active = Fbdev /\ W.d.pm = "on"
      /\ W.d.n3d = One(W.d.enable_fb) /\ W.d.fifo = W.d.enable_fb /\ ~W.d.hidden
  BY <1>1, WorldIs, FilesAssumption DEF DeviceType, Owners, One
<1>3. \A f \in Files : W.f[f] = M!NewFile
  BY WorldIs DEF M!MasterInit
<1>4. \A m \in Masters \cup {Fbdev} : W.m[m] = M!NewMaster
  BY WorldIs DEF M!MasterInit
<1>5. M!NewMaster \in MasterType /\ M!NewMaster.refcount = 0 /\ M!NewMaster.readers = {}
  BY DEF M!NewMaster, MasterType
<1>6. W \in Worlds
  <2>1. mfile \in [Files -> FileType]
    BY NewFiles DEF M!MasterInit
  <2>2. mast \in MastersType
    BY <1>5 DEF M!MasterInit, MastersType
  <2>3. QED
    BY <1>2, <2>1, <2>2, WorldIs DEF Worlds, M!World
<1> HIDE DEF W
<1>7. \A f \in Files : Fresh(W.f[f], "closed", NoMaster, FALSE)
  BY <1>3, NewFiles
<1>8. OwnersOK(W)
  <2>1. \A f \in Files : FileOK(W.f[f], f, W.d)
    BY <1>3, <1>7 DEF FileOK, Fresh, Dropping
  <2>2. QED
    BY <1>2, <1>7, <2>1 DEF OwnersOK, Fresh
<1>9. Refs(W)
  <2> SUFFICES ASSUME NEW m \in Masters
               PROVE  W.m[m].refcount = One(W.d.minor = m) + Cardinality(Under(W, m))
                                          + Cardinality(LockOn(W, m))
    BY DEF Refs
  <2>1. m # NoMaster
    BY FilesAssumption
  <2>2. Under(W, m) = {} /\ LockOn(W, m) = {}
    BY <1>7, <2>1 DEF Under, LockOn, Fresh
  <2>3. QED
    BY <1>2, <1>4, <1>5, <2>1, <2>2, FS_EmptySet DEF One
<1>10. Magics(W)
  BY <1>4, <1>5 DEF Magics
<1>11. Clients(W)
  BY <1>4, <1>5, <1>7 DEF Clients, Inside, Shut, Fresh
<1>12. ThreeD(W)
  <2>1. OnDevice(W) = {}
    BY <1>7 DEF OnDevice, Fresh
  <2>2. Counting(W.d) = One(W.d.enable_fb) /\ One(W.d.enable_fb) \in Int
    BY <1>2 DEF Counting, One
  <2>3. Counted(W.d)
    BY <1>2 DEF Counted, One
  <2>4. QED
    BY <1>2, <2>1, <2>2, <2>3, FS_EmptySet DEF ThreeD
<1>13. QED
  BY <1>6, <1>8, <1>9, <1>10, <1>11, <1>12 DEF Base, W

-----------------------------------------------------------------------------
(* The parts side by side. *)

LEMMA PartSteps ==
  ASSUME [Next]_vars, part' = "master"
  PROVE  part = "master" /\ (M!MasterNext \/ M!World' = M!World)
<1>1. CASE Next
  BY <1>1 DEF Next
<1>2. CASE UNCHANGED vars
  BY <1>2 DEF vars, masterVars, M!World
<1>3. QED
  BY <1>1, <1>2

\* What is kept by the steps of the masters is kept by every step.
LEMMA KeepsStays ==
  ASSUME NEW W, Base(W)
  PROVE  Keeps(W, W)
  BY DEF Keeps

LEMMA PartKeeps ==
  ASSUME [Next]_vars, part' = "master", part = "master" => Base(M!World)
  PROVE  Keeps(M!World, M!World')
<1>1. Base(M!World)
  BY PartSteps
<1>2. CASE M!MasterNext
  BY <1>1, <1>2, MasterStep
<1>3. CASE M!World' = M!World
  BY <1>1, <1>3, KeepsStays
<1>4. QED
  BY <1>2, <1>3, PartSteps

\* Every reference to a master is accounted for, whatever fails: the count of
\* a master is its minor, the files under it and those that keep its lock.
MastersInv == part = "master" => Base(M!World)

LEMMA MastersInvHolds == Spec => []MastersInv
<1>1. Init => MastersInv
  BY MasterStart DEF Init, MastersInv
<1>2. MastersInv /\ [Next]_vars => MastersInv'
  <2> SUFFICES ASSUME MastersInv, [Next]_vars, part' = "master" PROVE Base(M!World)'
    BY DEF MastersInv
  <2>1. Keeps(M!World, M!World')
    BY PartKeeps DEF MastersInv
  <2>2. QED
    BY <2>1 DEF Keeps
<1>3. QED
  BY <1>1, <1>2, PTL DEF Spec

\* MasterRefs (drm_master_get and drm_master_put, drm_open_helper,
\* vmw_master_set and -drop, vmw_postclose): every reference to a master is the
\* minor's, a file's that was opened under it or one's that keeps its lock, so
\* that no failure of a set leaks or loses one; and a magic of a master that
\* exists names a file that is open.  Whatever may fail.
THEOREM MasterRefsHold == Spec => []MasterRefs
<1>1. MastersInv => MasterRefs
  <2> SUFFICES ASSUME Base(M!World), NEW m \in Masters
               PROVE  /\ mast[m].refcount = (IF mdev.minor = m THEN 1 ELSE 0)
                           + M!Cardinality({f \in Files : mfile[f].master = m})
                           + M!Cardinality({f \in Files : mfile[f].locked = m})
                      /\ mast[m].refcount > 0 => mast[m].magiclist \subseteq M!Open
    BY DEF MastersInv, MasterRefs, M!MasterRefs
  <2> DEFINE W == M!World
  <2>1. /\ W.m[m] = mast[m] /\ One(W.d.minor = m) = (IF mdev.minor = m THEN 1 ELSE 0)
        /\ Under(W, m) = {f \in Files : mfile[f].master = m}
        /\ LockOn(W, m) = {f \in Files : mfile[f].locked = m}
    BY WorldIs DEF One, Under, LockOn
  <2>2. /\ M!Cardinality({f \in Files : mfile[f].master = m}) = Cardinality(Under(W, m))
        /\ M!Cardinality({f \in Files : mfile[f].locked = m}) = Cardinality(LockOn(W, m))
    BY <2>1, Cards
  <2>3. mast[m].refcount > 0 => mast[m].magiclist \subseteq M!Open
    <3> SUFFICES ASSUME mast[m].refcount > 0, NEW g \in mast[m].magiclist
                 PROVE  g \in M!Open
      OBVIOUS
    <3>1. W.m[m] \in MasterType /\ Listed(W.f[g], m)
      BY <2>1, RecordOf DEF Base, Magics
    <3>2. QED
      BY <2>1, <3>1, WorldIs DEF MasterType, Listed, M!Open
  <2>4. W.m[m].refcount = One(W.d.minor = m) + Cardinality(Under(W, m))
                          + Cardinality(LockOn(W, m))
    BY DEF Base, Refs
  <2> HIDE DEF W
  <2>5. QED
    BY <2>1, <2>2, <2>3, <2>4
<1>2. QED
  BY <1>1, MastersInvHolds, PTL

\* ... and the clients are where the locks of their masters let them be.
ClientsInv == part = "master" => Base(M!World) /\ Clients(M!World)

\* ClientsNeedMaster (vmw_master_check, vmw_master_drop, vmw_postclose): where
\* the lock of a master that drops can always be had, a client runs an ioctl
\* that needs authentication only while its master is the active one.
THEOREM ClientsHold ==
  ASSUME "vt" \notin Faults
  PROVE  Spec => []ClientsNeedMaster
<1>1. Init => ClientsInv
  BY MasterStart DEF Init, ClientsInv
<1>2. ClientsInv /\ [Next]_vars => ClientsInv'
  <2> SUFFICES ASSUME ClientsInv, [Next]_vars, part' = "master"
               PROVE  Base(M!World)' /\ Clients(M!World)'
    BY DEF ClientsInv
  <2>1. Keeps(M!World, M!World')
    BY PartKeeps DEF ClientsInv
  <2>2. Clients(M!World)
    BY PartSteps DEF ClientsInv
  <2>3. QED
    BY <2>1, <2>2 DEF Keeps
<1>3. ClientsInv => ClientsNeedMaster
  <2> SUFFICES ASSUME Base(M!World), Clients(M!World), NEW f \in M!Open,
                      mfile[f].master # NoMaster, mfile[f].pc = "in", ~mfile[f].is_master
               PROVE  mdev.active = mfile[f].master
    BY DEF ClientsInv, ClientsNeedMaster, M!ClientsNeedMaster
  <2> DEFINE W == M!World
             m == mfile[f].master
  <2>1. f \in Files /\ W.f[f] = mfile[f] /\ W.d = mdev
    BY WorldIs DEF M!Open
  <2> HIDE DEF W
  <2>2. m \in Masters
    BY <2>1, Typing DEF Owners, W
  <2>3. f \in W.m[m].readers
    BY <2>1 DEF Clients, Inside, W
  <2>4. QED
    BY <2>1, <2>2, <2>3 DEF Clients, W
<1>4. QED
  BY <1>1, <1>2, <1>3, PTL DEF Spec

\* ... and the 3D count is what counts on the device.
CountInv == part = "master" => Base(M!World) /\ ThreeD(M!World)

\* ThreeDBalanced (vmw_3d_resource_inc and -dec, vmw_resource_evict_all,
\* vmw_pm_prepare, vmw_pm_complete): where the device can be requested again on
\* resume, the fifo runs exactly while the fbdev, the active master or a
\* resource counts on it, through failed opens, refused suspends and drops.
THEOREM ThreeDHolds ==
  ASSUME "resume" \notin Faults
  PROVE  Spec => []ThreeDBalanced
<1>1. Init => CountInv
  BY MasterStart DEF Init, CountInv
<1>2. CountInv /\ [Next]_vars => CountInv'
  <2> SUFFICES ASSUME CountInv, [Next]_vars, part' = "master"
               PROVE  Base(M!World)' /\ ThreeD(M!World)'
    BY DEF CountInv
  <2>1. Keeps(M!World, M!World')
    BY PartKeeps DEF CountInv
  <2>2. ThreeD(M!World)
    BY PartSteps DEF CountInv
  <2>3. QED
    BY <2>1, <2>2 DEF Keeps
<1>3. CountInv => ThreeDBalanced
  <2> SUFFICES ASSUME Base(M!World), ThreeD(M!World) PROVE M!ThreeDBalanced
    BY DEF CountInv, ThreeDBalanced
  <2> DEFINE W == M!World
  <2>1. W.d = mdev /\ W.f = mfile /\ W.d \in DeviceType
    BY WorldIs, Parts DEF Base
  <2>2. OnDevice(W) = {f \in Files : mfile[f].res = "hw"}
    BY <2>1 DEF OnDevice
  <2>3. Cardinality(OnDevice(W)) = M!Cardinality({f \in Files : mfile[f].res = "hw"})
    BY <2>2, Cards
  <2>4. mdev.n3d = Cardinality(OnDevice(W)) + Counting(mdev) /\ Counted(mdev)
        /\ (mdev.active # Fbdev \/ mdev.enable_fb => ~mdev.hidden)
    BY <2>1 DEF ThreeD
  <2>5. Counting(mdev) =
          IF mdev.enable_fb THEN IF mdev.pm \in {"suspended", "asleep", "complete"} THEN 0 ELSE 1
          ELSE IF mdev.active # Fbdev THEN 1 ELSE 0
    BY DEF Counting, One
  <2>6. mdev.fifo = (mdev.n3d > 0)
    <3>1. mdev.fifo \in BOOLEAN
      BY <2>1 DEF DeviceType
    <3>2. (mdev.n3d > 0) \in BOOLEAN
      OBVIOUS
    <3>3. mdev.fifo <=> mdev.n3d > 0
      BY <2>4 DEF Counted
    <3>4. QED
      BY <3>1, <3>2, <3>3
  <2>7. QED
    BY <2>3, <2>4, <2>5, <2>6 DEF M!ThreeDBalanced
<1>4. QED
  BY <1>1, <1>2, <1>3, PTL DEF Spec

-----------------------------------------------------------------------------
(* The blits of VmwBlit.  A request shows, of the pixels it covers, those  *)
(* whose place lies on the screen (Blitted).  Each way of making blits is  *)
(* that map: forward, where the code clips rectangles of the framebuffer,  *)
(* or back from the screen (BackFrom), where it clips those of the screen. *)

ClipRects == [x1 : Int, y1 : Int, x2 : Int, y2 : Int]
Points == Int \X Int

\* One or two rectangles.
ClipList(c) == DOMAIN c \in {{1}, {1, 2}} /\ \A i \in DOMAIN c : c[i] \in ClipRects

\* Where a unit shows a pixel, and which it shows.
At(p, to, u) == <<p[1] + to[1] - u.at[1], p[2] + to[2] - u.at[2]>>
Seen(S, to, u) == {q \in S : At(q, to, u) \in B!OnScreen(u)}
Blitted(S, to, u) == {<<p, At(p, to, u)>> : p \in Seen(S, to, u)}

LEMMA PixelIn ==
  ASSUME NEW r \in ClipRects, NEW q
  PROVE  q \in B!Inside(r) <=> /\ q \in Points /\ q = <<q[1], q[2]>>
                               /\ r.x1 <= q[1] /\ q[1] < r.x2 /\ r.y1 <= q[2] /\ q[2] < r.y2
<1>1. r.x1 \in Int /\ r.x2 \in Int /\ r.y1 \in Int /\ r.y2 \in Int
  BY DEF ClipRects
<1>2. QED
  BY <1>1 DEF B!Inside, Points

UnitOK(u) == u.at \in Points /\ u.size \in Points

LEMMA ScreenIn ==
  ASSUME NEW u, UnitOK(u), NEW q
  PROVE  q \in B!OnScreen(u) <=> /\ q \in Points /\ q = <<q[1], q[2]>>
                                 /\ 0 <= q[1] /\ q[1] < u.size[1] /\ 0 <= q[2] /\ q[2] < u.size[2]
  BY DEF B!OnScreen, UnitOK, Points

Corners(r, x1, y1, x2, y2) ==
  r \in ClipRects /\ r.x1 = x1 /\ r.y1 = y1 /\ r.x2 = x2 /\ r.y2 = y2

LEMMA RectIs ==
  ASSUME NEW a \in Int, NEW b \in Int, NEW c \in Int, NEW d \in Int
  PROVE  Corners(B!RectAt(a, b, c, d), a, b, c, d)
  BY DEF B!RectAt, ClipRects, Corners

LEMMA WantedIs ==
  ASSUME NEW clips, NEW to, NEW u
  PROVE  B!Wanted(clips, to, u) = Blitted(B!Covered(clips), to, u)
  BY Zenon DEF B!Wanted, Blitted, Seen, At

LEMMA BlittedMore ==
  ASSUME NEW S, NEW T, S \subseteq T, NEW to, NEW u
  PROVE  Blitted(S, to, u) \subseteq Blitted(T, to, u)
  BY DEF Blitted, Seen

LEMMA BlittedAll ==
  ASSUME NEW clips, NEW to, NEW u
  PROVE  UNION {Blitted(B!Inside(clips[i]), to, u) : i \in DOMAIN clips}
           = Blitted(B!Covered(clips), to, u)
  BY DEF Blitted, Seen, B!Covered

LEMMA LeastMost ==
  ASSUME NEW a \in Int, NEW b \in Int
  PROVE  /\ B!LeastOf(a, b) \in Int /\ B!LeastOf(a, b) = (IF a < b THEN a ELSE b)
         /\ B!MostOf(a, b) \in Int /\ B!MostOf(a, b) = (IF a < b THEN b ELSE a)
  BY DEF B!LeastOf, B!MostOf

LEMMA ShiftedIs ==
  ASSUME NEW r \in ClipRects, NEW x \in Int, NEW y \in Int
  PROVE  Corners(B!Shifted(r, x, y), r.x1 + x, r.y1 + y, r.x2 + x, r.y2 + y)
<1>1. r.x1 \in Int /\ r.x2 \in Int /\ r.y1 \in Int /\ r.y2 \in Int
  BY DEF ClipRects
<1>2. r.x1 + x \in Int /\ r.y1 + y \in Int /\ r.x2 + x \in Int /\ r.y2 + y \in Int
  BY <1>1
<1>3. QED
  BY <1>2, RectIs DEF B!Shifted

\* A map back from the screen draws what is seen.
Back2(T, x, y) == {<<<<x + d[1], y + d[2]>>, d>> : d \in T}

BackTo(S, to, u, T, x, y) ==
  /\ \A d \in T : /\ <<x + d[1], y + d[2]>> \in Seen(S, to, u)
                  /\ At(<<x + d[1], y + d[2]>>, to, u) = d
  /\ \A p \in Seen(S, to, u) : LET d == At(p, to, u) IN
       d \in T /\ <<x + d[1], y + d[2]>> = p

LEMMA BackFrom ==
  ASSUME NEW S, NEW to, NEW u, NEW T, NEW x \in Int, NEW y \in Int, BackTo(S, to, u, T, x, y)
  PROVE  Back2(T, x, y) = Blitted(S, to, u)
<1>1. ASSUME NEW d \in T PROVE <<<<x + d[1], y + d[2]>>, d>> \in Blitted(S, to, u)
  BY <1>1 DEF Blitted, BackTo
<1>2. ASSUME NEW p \in Seen(S, to, u)
      PROVE  \E d \in T : <<p, At(p, to, u)>> = <<<<x + d[1], y + d[2]>>, d>>
  <2> DEFINE d == At(p, to, u)
  <2>1. d \in T /\ <<x + d[1], y + d[2]>> = p
    BY <1>2 DEF BackTo
  <2> HIDE DEF d
  <2>2. <<p, d>> = <<<<x + d[1], y + d[2]>>, d>>
    BY <2>1
  <2>3. QED
    BY <2>1, <2>2 DEF d
<1>3. QED
  BY <1>1, <1>2 DEF Blitted, Back2

Origin == <<0, 0>>

\* The part of a rectangle that a unit shows, on its screen.
OnUnit(c, u, dest) ==
  LET ax == u.at[1]
      ay == u.at[2]
  IN Corners(dest, IF c.x1 - ax < 0 THEN 0 ELSE c.x1 - ax,
                   IF c.y1 - ay < 0 THEN 0 ELSE c.y1 - ay,
                   IF c.x2 - ax < u.size[1] THEN c.x2 - ax ELSE u.size[1],
                   IF c.y2 - ay < u.size[2] THEN c.y2 - ay ELSE u.size[2])

LEMMA SeenIs ==
  ASSUME NEW c \in ClipRects, NEW u, UnitOK(u), NEW p
  PROVE  LET S == Seen(B!Inside(c), Origin, u)
             ax == u.at[1]
             ay == u.at[2]
         IN /\ p \in S <=>
                 /\ p \in Points /\ p = <<p[1], p[2]>>
                 /\ c.x1 <= p[1] /\ p[1] < c.x2 /\ c.y1 <= p[2] /\ p[2] < c.y2
                 /\ 0 <= p[1] - ax /\ p[1] - ax < u.size[1]
                 /\ 0 <= p[2] - ay /\ p[2] - ay < u.size[2]
            /\ p \in Points => At(p, Origin, u) = <<p[1] - ax, p[2] - ay>>
<1>1. p \in Seen(B!Inside(c), Origin, u)
        <=> p \in B!Inside(c) /\ At(p, Origin, u) \in B!OnScreen(u)
  BY DEF Seen
<1>2. p \in Points => /\ At(p, Origin, u) = <<p[1] - u.at[1], p[2] - u.at[2]>>
                      /\ At(p, Origin, u) \in Points
  BY DEF At, Origin, Points, UnitOK
<1>3. QED
  BY <1>1, <1>2, PixelIn, ScreenIn

LEMMA UnitBack ==
  ASSUME NEW c \in ClipRects, NEW u, UnitOK(u), NEW dest, OnUnit(c, u, dest)
  PROVE  Back2(B!Inside(dest), u.at[1], u.at[2]) = Blitted(B!Inside(c), Origin, u)
<1> DEFINE ax == u.at[1]
           ay == u.at[2]
           w == u.size[1]
           h == u.size[2]
           S == Seen(B!Inside(c), Origin, u)
<1>1. /\ ax \in Int /\ ay \in Int /\ w \in Int /\ h \in Int
      /\ c.x1 \in Int /\ c.x2 \in Int /\ c.y1 \in Int /\ c.y2 \in Int
  BY DEF UnitOK, Points, ClipRects
<1>2. /\ dest \in ClipRects /\ dest.x1 = (IF c.x1 - ax < 0 THEN 0 ELSE c.x1 - ax)
      /\ dest.y1 = (IF c.y1 - ay < 0 THEN 0 ELSE c.y1 - ay)
      /\ dest.x2 = (IF c.x2 - ax < w THEN c.x2 - ax ELSE w)
      /\ dest.y2 = (IF c.y2 - ay < h THEN c.y2 - ay ELSE h)
  BY DEF OnUnit, Corners
<1>3. \A d : d \in B!Inside(dest) <=>
        /\ d \in Points /\ d = <<d[1], d[2]>>
        /\ dest.x1 <= d[1] /\ d[1] < dest.x2 /\ dest.y1 <= d[2] /\ d[2] < dest.y2
  BY <1>2, PixelIn
<1>4. \A p : /\ p \in S <=>
                  /\ p \in Points /\ p = <<p[1], p[2]>>
                  /\ c.x1 <= p[1] /\ p[1] < c.x2 /\ c.y1 <= p[2] /\ p[2] < c.y2
                  /\ 0 <= p[1] - ax /\ p[1] - ax < w /\ 0 <= p[2] - ay /\ p[2] - ay < h
             /\ p \in Points => At(p, Origin, u) = <<p[1] - ax, p[2] - ay>>
  BY SeenIs
<1> HIDE DEF S, ax, ay, w, h
<1>5. ASSUME NEW d \in B!Inside(dest)
      PROVE  <<ax + d[1], ay + d[2]>> \in S /\ At(<<ax + d[1], ay + d[2]>>, Origin, u) = d
  <2> DEFINE p == <<ax + d[1], ay + d[2]>>
  <2>1. d[1] \in Int /\ d[2] \in Int /\ d = <<d[1], d[2]>>
    BY <1>3 DEF Points
  <2>2. p \in Points /\ p[1] - ax = d[1] /\ p[2] - ay = d[2] /\ p = <<p[1], p[2]>>
    BY <1>1, <2>1 DEF Points
  <2>3. p[1] = ax + d[1] /\ p[2] = ay + d[2]
    OBVIOUS
  <2> HIDE DEF p
  <2>4. p \in S
    BY <1>1, <1>2, <1>3, <1>4, <2>1, <2>2, <2>3
  <2>5. At(p, Origin, u) = d
    BY <1>4, <2>1, <2>2
  <2>6. QED
    BY <2>4, <2>5 DEF p
<1>6. ASSUME NEW p \in S
      PROVE  LET d == At(p, Origin, u) IN
             d \in B!Inside(dest) /\ <<ax + d[1], ay + d[2]>> = p
  <2>1. p[1] \in Int /\ p[2] \in Int /\ p = <<p[1], p[2]>>
    BY <1>4 DEF Points
  <2>2. <<p[1] - ax, p[2] - ay>> \in B!Inside(dest)
    BY <1>1, <1>2, <1>3, <1>4, <2>1 DEF Points
  <2>3. QED
    BY <1>1, <1>4, <2>1, <2>2
<1>7. BackTo(B!Inside(c), Origin, u, B!Inside(dest), ax, ay)
  BY <1>5, <1>6 DEF S, BackTo
<1>8. QED
  BY <1>1, <1>7, BackFrom DEF ax, ay

\* Nothing of a rectangle that misses the screen is seen.
LEMMA MissesAll ==
  ASSUME NEW box \in ClipRects, NEW u, UnitOK(u), B!Misses(box, u), NEW S, NEW to,
         \A p \in S : LET d == At(p, to, u) IN
           d \in Points /\ box.x1 <= d[1] /\ d[1] < box.x2 /\ box.y1 <= d[2] /\ d[2] < box.y2
  PROVE  Blitted(S, to, u) = {}
<1>1. ASSUME NEW p \in S PROVE At(p, to, u) \notin B!OnScreen(u)
  <2> DEFINE d == At(p, to, u)
  <2>1. d \in Points /\ box.x1 <= d[1] /\ d[1] < box.x2 /\ box.y1 <= d[2] /\ d[2] < box.y2
    BY <1>1
  <2> HIDE DEF d
  <2>2. d \notin B!OnScreen(u)
    BY <2>1, ScreenIn DEF B!Misses, UnitOK, Points, ClipRects
  <2>3. QED
    BY <2>2 DEF d
<1>2. QED
  BY <1>1 DEF Blitted, Seen

\* A rectangle, as it lies on the screen of a unit.
LEMMA AtUnit ==
  ASSUME NEW c \in ClipRects, NEW u, UnitOK(u)
  PROVE  LET s == B!Shifted(c, -u.at[1], -u.at[2]) IN
         /\ Corners(s, c.x1 - u.at[1], c.y1 - u.at[2], c.x2 - u.at[1], c.y2 - u.at[2])
         /\ B!Misses(s, u) => Blitted(B!Inside(c), Origin, u) = {}
<1> DEFINE s == B!Shifted(c, -u.at[1], -u.at[2])
<1>1. /\ u.at[1] \in Int /\ u.at[2] \in Int /\ -u.at[1] \in Int /\ -u.at[2] \in Int
      /\ c.x1 \in Int /\ c.x2 \in Int /\ c.y1 \in Int /\ c.y2 \in Int
  BY DEF UnitOK, Points, ClipRects
<1>2. Corners(s, c.x1 + (-u.at[1]), c.y1 + (-u.at[2]), c.x2 + (-u.at[1]), c.y2 + (-u.at[2]))
  BY <1>1, ShiftedIs
<1> HIDE DEF s
<1>3. Corners(s, c.x1 - u.at[1], c.y1 - u.at[2], c.x2 - u.at[1], c.y2 - u.at[2])
  BY <1>1, <1>2
<1>4. ASSUME B!Misses(s, u) PROVE Blitted(B!Inside(c), Origin, u) = {}
  <2>1. \A p \in B!Inside(c) : LET d == At(p, Origin, u) IN
          d \in Points /\ s.x1 <= d[1] /\ d[1] < s.x2 /\ s.y1 <= d[2] /\ d[2] < s.y2
    BY <1>1, <1>3, PixelIn DEF At, Origin, Points, Corners
  <2>2. s \in ClipRects
    BY <1>3 DEF Corners
  <2>3. QED
    BY <1>4, <2>1, <2>2, MissesAll
<1>5. QED
  BY <1>3, <1>4 DEF s

\* One rectangle of do_dmabuf_dirty_sou.
LEMMA GmrfbIs ==
  ASSUME NEW c \in ClipRects, NEW u, UnitOK(u)
  PROVE  B!GmrfbToScreen(c, u) = Blitted(B!Inside(c), Origin, u)
<1> DEFINE ax == u.at[1]
           ay == u.at[2]
           clip == B!Shifted(c, -ax, -ay)
           mx == B!LeastOf(clip.x1, 0)
           my == B!LeastOf(clip.y1, 0)
           ox == c.x1 - mx
           oy == c.y1 - my
           dest == B!RectAt(clip.x1 - mx, clip.y1 - my,
                            B!LeastOf(clip.x2, u.size[1]), B!LeastOf(clip.y2, u.size[2]))
           T == B!Inside(dest)
           Blit == B!BLIT_GMRFB_TO_SCREEN(<<ox, oy>>, dest)
<1>1. B!GmrfbToScreen(c, u) = IF B!Misses(clip, u) THEN {} ELSE Blit
  BY Zenon DEF B!GmrfbToScreen
<1>2. Blit = {<<<<ox + d[1] - dest.x1, oy + d[2] - dest.y1>>, d>> : d \in T}
  BY Zenon DEF B!BLIT_GMRFB_TO_SCREEN
<1> HIDE DEF Blit
<1>3. /\ ax \in Int /\ ay \in Int /\ u.size[1] \in Int /\ u.size[2] \in Int
      /\ c.x1 \in Int /\ c.x2 \in Int /\ c.y1 \in Int /\ c.y2 \in Int /\ 0 \in Int
  BY DEF UnitOK, Points, ClipRects
<1>4. /\ Corners(clip, c.x1 - ax, c.y1 - ay, c.x2 - ax, c.y2 - ay)
      /\ B!Misses(clip, u) => Blitted(B!Inside(c), Origin, u) = {}
  BY AtUnit
<1> HIDE DEF clip
<1>5. /\ clip.x1 = c.x1 - ax /\ clip.y1 = c.y1 - ay /\ clip.x2 = c.x2 - ax /\ clip.y2 = c.y2 - ay
      /\ clip.x1 \in Int /\ clip.y1 \in Int /\ clip.x2 \in Int /\ clip.y2 \in Int
  BY <1>3, <1>4 DEF Corners
<1>6. /\ mx \in Int /\ mx = (IF clip.x1 < 0 THEN clip.x1 ELSE 0)
      /\ my \in Int /\ my = (IF clip.y1 < 0 THEN clip.y1 ELSE 0)
  BY <1>3, <1>5, LeastMost
<1> DEFINE lx == B!LeastOf(clip.x2, u.size[1])
           ly == B!LeastOf(clip.y2, u.size[2])
<1>7. /\ lx \in Int /\ lx = (IF clip.x2 < u.size[1] THEN clip.x2 ELSE u.size[1])
      /\ ly \in Int /\ ly = (IF clip.y2 < u.size[2] THEN clip.y2 ELSE u.size[2])
  BY <1>3, <1>5, LeastMost
<1>8. Corners(dest, clip.x1 - mx, clip.y1 - my, lx, ly)
  <2>1. clip.x1 - mx \in Int /\ clip.y1 - my \in Int
    BY <1>5, <1>6
  <2>2. QED
    BY <1>7, <2>1, RectIs
<1> HIDE DEF mx, my, lx, ly, dest
<1>9. OnUnit(c, u, dest)
  BY <1>3, <1>5, <1>6, <1>7, <1>8 DEF OnUnit, Corners
<1>10. \A d \in T : <<ox + d[1] - dest.x1, oy + d[2] - dest.y1>> = <<ax + d[1], ay + d[2]>>
  <2>1. dest \in ClipRects /\ dest.x1 = clip.x1 - mx /\ dest.y1 = clip.y1 - my
    BY <1>8 DEF Corners
  <2>2. \A d \in T : d[1] \in Int /\ d[2] \in Int
    BY <2>1, PixelIn DEF Points
  <2>3. QED
    BY <1>3, <1>5, <1>6, <2>1, <2>2
<1> HIDE DEF ox, oy, T
<1>11. Blit = Back2(T, ax, ay)
  BY <1>2, <1>10 DEF Back2
<1>12. QED
  BY <1>1, <1>4, <1>9, <1>11, UnitBack DEF T

\* One rectangle of vmw_kms_readback.
LEMMA ReadbackIs ==
  ASSUME NEW c \in ClipRects, NEW u, UnitOK(u)
  PROVE  B!ScreenToGmrfb(c, u) = Blitted(B!Inside(c), Origin, u)
<1> DEFINE ax == u.at[1]
           ay == u.at[2]
           at == B!Shifted(c, -ax, -ay)
           dx == IF at.x1 < 0 THEN c.x1 + (-at.x1) ELSE c.x1
           dy == IF at.y1 < 0 THEN c.y1 + (-at.y1) ELSE c.y1
           clip == B!RectAt(B!MostOf(at.x1, 0), B!MostOf(at.y1, 0),
                            B!LeastOf(at.x2, u.size[1]), B!LeastOf(at.y2, u.size[2]))
           T == B!Inside(clip)
           Blit == B!BLIT_SCREEN_TO_GMRFB(clip, <<dx, dy>>)
<1>1. B!ScreenToGmrfb(c, u) = IF B!Misses(clip, u) THEN {} ELSE Blit
  BY Zenon DEF B!ScreenToGmrfb
<1>2. Blit = {<<<<dx + d[1] - clip.x1, dy + d[2] - clip.y1>>, d>> : d \in T}
  BY Zenon DEF B!BLIT_SCREEN_TO_GMRFB
<1> HIDE DEF Blit
<1>3. /\ ax \in Int /\ ay \in Int /\ u.size[1] \in Int /\ u.size[2] \in Int
      /\ c.x1 \in Int /\ c.x2 \in Int /\ c.y1 \in Int /\ c.y2 \in Int /\ 0 \in Int
  BY DEF UnitOK, Points, ClipRects
<1>4. Corners(at, c.x1 - ax, c.y1 - ay, c.x2 - ax, c.y2 - ay)
  BY AtUnit
<1> HIDE DEF at
<1>5. /\ at.x1 = c.x1 - ax /\ at.y1 = c.y1 - ay /\ at.x2 = c.x2 - ax /\ at.y2 = c.y2 - ay
      /\ at.x1 \in Int /\ at.y1 \in Int /\ at.x2 \in Int /\ at.y2 \in Int
  BY <1>3, <1>4 DEF Corners
<1> DEFINE mx == B!MostOf(at.x1, 0)
           my == B!MostOf(at.y1, 0)
           lx == B!LeastOf(at.x2, u.size[1])
           ly == B!LeastOf(at.y2, u.size[2])
<1>6. /\ mx \in Int /\ mx = (IF at.x1 < 0 THEN 0 ELSE at.x1)
      /\ my \in Int /\ my = (IF at.y1 < 0 THEN 0 ELSE at.y1)
      /\ lx \in Int /\ lx = (IF at.x2 < u.size[1] THEN at.x2 ELSE u.size[1])
      /\ ly \in Int /\ ly = (IF at.y2 < u.size[2] THEN at.y2 ELSE u.size[2])
  BY <1>3, <1>5, LeastMost
<1>7. Corners(clip, mx, my, lx, ly)
  BY <1>6, RectIs
<1> HIDE DEF mx, my, lx, ly, clip
<1>8. OnUnit(c, u, clip)
  BY <1>3, <1>5, <1>6, <1>7 DEF OnUnit, Corners
<1>9. \A d \in T : <<dx + d[1] - clip.x1, dy + d[2] - clip.y1>> = <<ax + d[1], ay + d[2]>>
  <2>1. clip \in ClipRects /\ clip.x1 = mx /\ clip.y1 = my
    BY <1>7 DEF Corners
  <2>2. \A d \in T : d[1] \in Int /\ d[2] \in Int
    BY <2>1, PixelIn DEF Points
  <2>3. QED
    BY <1>3, <1>5, <1>6, <2>1, <2>2
<1> HIDE DEF dx, dy, T
<1>10. Blit = Back2(T, ax, ay)
  BY <1>2, <1>9 DEF Back2
<1>11. B!Misses(clip, u) => Back2(T, ax, ay) = {}
  <2>1. B!Misses(clip, u) => T = {}
    BY <1>3, <1>5, <1>6, <1>7, PixelIn DEF B!Misses, Corners, Points, T
  <2>2. QED
    BY <2>1 DEF Back2
<1>12. QED
  BY <1>1, <1>8, <1>10, <1>11, UnitBack DEF T

\* One rectangle of do_dmabuf_dirty_ldu.
LEMMA UpdateIs ==
  ASSUME NEW c \in ClipRects, NEW u, UnitOK(u)
  PROVE  B!UPDATE(c, u) = Blitted(B!Inside(c), Origin, u)
<1> DEFINE ax == u.at[1]
           ay == u.at[2]
           all == B!RectAt(ax, ay, ax + u.size[1], ay + u.size[2])
           S == Seen(B!Inside(c), Origin, u)
           T == B!Inside(c) \cap B!Inside(all)
<1>1. /\ ax \in Int /\ ay \in Int /\ u.size[1] \in Int /\ u.size[2] \in Int
      /\ ax + u.size[1] \in Int /\ ay + u.size[2] \in Int
  BY DEF UnitOK, Points
<1>2. Corners(all, ax, ay, ax + u.size[1], ay + u.size[2])
  BY <1>1, RectIs
<1>3. B!UPDATE(c, u) = {<<p, <<p[1] - ax, p[2] - ay>>>> : p \in T}
  BY Zenon DEF B!UPDATE
<1> HIDE DEF all
<1>4. T = S
  <2>1. \A p : p \in B!Inside(all) <=>
          /\ p \in Points /\ p = <<p[1], p[2]>>
          /\ ax <= p[1] /\ p[1] < ax + u.size[1] /\ ay <= p[2] /\ p[2] < ay + u.size[2]
    BY <1>2, PixelIn DEF Corners
  <2>2. \A p : p \in T <=> p \in S
    BY <1>1, <2>1, SeenIs, PixelIn DEF Points
  <2> HIDE DEF S, T
  <2>3. QED
    BY <2>2
<1>5. \A p \in S : At(p, Origin, u) = <<p[1] - ax, p[2] - ay>>
  BY SeenIs
<1> HIDE DEF S, T
<1>6. QED
  BY <1>3, <1>4, <1>5 DEF Blitted, S

LEMMA LeastIs ==
  ASSUME NEW a \in Int, NEW b \in Int
  PROVE  /\ B!Min({a, b}) \in {a, b} /\ B!Min({a, b}) <= a /\ B!Min({a, b}) <= b
         /\ B!Max({a, b}) \in {a, b} /\ a <= B!Max({a, b}) /\ b <= B!Max({a, b})
<1>1. \E x \in {a, b} : \A y \in {a, b} : x <= y
  BY DEF B!Min
<1>2. \E x \in {a, b} : \A y \in {a, b} : x >= y
  BY DEF B!Max
<1>3. QED
  BY <1>1, <1>2 DEF B!Min, B!Max

\* One or two rectangles lie in their bounding box.
Bounds(box, r) == box.x1 <= r.x1 /\ box.y1 <= r.y1 /\ r.x2 <= box.x2 /\ r.y2 <= box.y2

LEMMA BoxIs ==
  ASSUME NEW c, ClipList(c)
  PROVE  LET box == B!Bounding(c) IN
         box \in ClipRects /\ \A i \in DOMAIN c : Bounds(box, c[i])
<1> DEFINE R == {c[i] : i \in DOMAIN c}
           box == B!Bounding(c)
<1>1. PICK r \in ClipRects, s \in ClipRects :
        R = {r, s} /\ \A i \in DOMAIN c : c[i] = r \/ c[i] = s
  <2>1. CASE DOMAIN c = {1}
    <3>1. R = {c[1], c[1]} /\ c[1] \in ClipRects
      BY <2>1 DEF ClipList
    <3>2. QED
      BY <2>1, <3>1
  <2>2. CASE DOMAIN c = {1, 2}
    <3>1. R = {c[1], c[2]} /\ c[1] \in ClipRects /\ c[2] \in ClipRects
      BY <2>2 DEF ClipList
    <3>2. QED
      BY <2>2, <3>1
  <2>3. QED
    BY <2>1, <2>2 DEF ClipList
<1>2. box = B!RectAt(B!Min({q.x1 : q \in R}), B!Min({q.y1 : q \in R}),
                     B!Max({q.x2 : q \in R}), B!Max({q.y2 : q \in R}))
  BY Zenon DEF B!Bounding
<1> HIDE DEF R, box
<1>3. /\ {q.x1 : q \in R} = {r.x1, s.x1} /\ {q.y1 : q \in R} = {r.y1, s.y1}
      /\ {q.x2 : q \in R} = {r.x2, s.x2} /\ {q.y2 : q \in R} = {r.y2, s.y2}
  BY <1>1
<1>4. /\ r.x1 \in Int /\ r.y1 \in Int /\ r.x2 \in Int /\ r.y2 \in Int
      /\ s.x1 \in Int /\ s.y1 \in Int /\ s.x2 \in Int /\ s.y2 \in Int
  BY <1>1 DEF ClipRects
<1> DEFINE a == B!Min({r.x1, s.x1})
           b == B!Min({r.y1, s.y1})
           d == B!Max({r.x2, s.x2})
           e == B!Max({r.y2, s.y2})
<1>5. /\ a \in Int /\ a <= r.x1 /\ a <= s.x1 /\ b \in Int /\ b <= r.y1 /\ b <= s.y1
      /\ d \in Int /\ r.x2 <= d /\ s.x2 <= d /\ e \in Int /\ r.y2 <= e /\ s.y2 <= e
  <2>1. a \in {r.x1, s.x1} /\ a <= r.x1 /\ a <= s.x1
    BY <1>4, LeastIs
  <2>2. b \in {r.y1, s.y1} /\ b <= r.y1 /\ b <= s.y1
    BY <1>4, LeastIs
  <2>3. d \in {r.x2, s.x2} /\ r.x2 <= d /\ s.x2 <= d
    BY <1>4, LeastIs
  <2>4. e \in {r.y2, s.y2} /\ r.y2 <= e /\ s.y2 <= e
    BY <1>4, LeastIs
  <2>5. QED
    BY <1>4, <2>1, <2>2, <2>3, <2>4
<1>6. box = B!RectAt(a, b, d, e)
  BY <1>2, <1>3
<1> HIDE DEF a, b, d, e
<1>7. Corners(box, a, b, d, e)
  BY <1>5, <1>6, RectIs
<1>8. Bounds(box, r) /\ Bounds(box, s) /\ box \in ClipRects
  BY <1>5, <1>7 DEF Bounds, Corners
<1>9. QED
  BY <1>1, <1>8 DEF box

\* A rectangle relative to the box, and clipped to the screen.
LEMMA ClippedIs ==
  ASSUME NEW tmp, NEW clip \in ClipRects, NEW i \in DOMAIN tmp, tmp[i] \in ClipRects
  PROVE  LET V == B!vmw_clip_cliprects(tmp, clip)
             t == tmp[i]
         IN Corners(V[i], IF clip.x1 < t.x1 THEN t.x1 ELSE clip.x1,
                          IF clip.y1 < t.y1 THEN t.y1 ELSE clip.y1,
                          IF clip.x2 < t.x2 THEN clip.x2 ELSE t.x2,
                          IF clip.y2 < t.y2 THEN clip.y2 ELSE t.y2)
<1> DEFINE t == tmp[i]
           a == B!MostOf(clip.x1, t.x1)
           b == B!MostOf(clip.y1, t.y1)
           d == B!LeastOf(clip.x2, t.x2)
           e == B!LeastOf(clip.y2, t.y2)
<1>1. /\ t.x1 \in Int /\ t.y1 \in Int /\ t.x2 \in Int /\ t.y2 \in Int
      /\ clip.x1 \in Int /\ clip.y1 \in Int /\ clip.x2 \in Int /\ clip.y2 \in Int
  BY DEF ClipRects
<1>2. B!vmw_clip_cliprects(tmp, clip)[i] = B!RectAt(a, b, d, e)
  BY DEF B!vmw_clip_cliprects
<1>3. /\ a \in Int /\ a = (IF clip.x1 < t.x1 THEN t.x1 ELSE clip.x1)
      /\ b \in Int /\ b = (IF clip.y1 < t.y1 THEN t.y1 ELSE clip.y1)
      /\ d \in Int /\ d = (IF clip.x2 < t.x2 THEN clip.x2 ELSE t.x2)
      /\ e \in Int /\ e = (IF clip.y2 < t.y2 THEN clip.y2 ELSE t.y2)
  BY <1>1, LeastMost
<1> HIDE DEF a, b, d, e
<1>4. Corners(B!RectAt(a, b, d, e), a, b, d, e)
  BY <1>3, RectIs
<1>5. QED
  BY <1>2, <1>3, <1>4

\* vmw_kms_present, and do_surface_dirty_sou without a destination.
LEMMA PresentIs ==
  ASSUME NEW c, ClipList(c), NEW to \in Points, NEW u, UnitOK(u)
  PROVE  B!vmw_kms_present(c, to, u) = Blitted(B!Covered(c), to, u)
<1> DEFINE box == B!Bounding(c)
           ax == u.at[1]
           ay == u.at[2]
           w == u.size[1]
           h == u.size[2]
           tmp == [i \in DOMAIN c |-> B!Shifted(c[i], -box.x1, -box.y1)]
           dest == B!Shifted(box, to[1] - ax, to[2] - ay)
           clip == B!RectAt(0 - dest.x1, 0 - dest.y1, w - dest.x1, h - dest.y1)
           V == B!vmw_clip_cliprects(tmp, clip)
           Blit == B!BLIT_SURFACE_TO_SCREEN(box, dest, V)
           S == Seen(B!Covered(c), to, u)
           P(q) == <<box.x1 + q[1], box.y1 + q[2]>>
           D(q) == <<dest.x1 + q[1], dest.y1 + q[2]>>
<1>1. B!vmw_kms_present(c, to, u) = IF B!Misses(dest, u) THEN {} ELSE Blit
  BY Zenon DEF B!vmw_kms_present
<1>2. Blit = {<<P(q), D(q)>> : q \in B!Covered(V)}
  BY Zenon DEF B!BLIT_SURFACE_TO_SCREEN
<1> HIDE DEF Blit
<1>3. /\ ax \in Int /\ ay \in Int /\ w \in Int /\ h \in Int /\ to[1] \in Int /\ to[2] \in Int
  BY DEF UnitOK, Points
<1>4. box \in ClipRects /\ \A i \in DOMAIN c : c[i] \in ClipRects /\ Bounds(box, c[i])
  BY BoxIs DEF ClipList
<1> HIDE DEF box, ax, ay, w, h
<1>5. /\ box.x1 \in Int /\ box.y1 \in Int /\ box.x2 \in Int /\ box.y2 \in Int
      /\ -box.x1 \in Int /\ -box.y1 \in Int /\ to[1] - ax \in Int /\ to[2] - ay \in Int
  BY <1>3, <1>4 DEF ClipRects
<1>6. Corners(dest, box.x1 + (to[1] - ax), box.y1 + (to[2] - ay),
              box.x2 + (to[1] - ax), box.y2 + (to[2] - ay))
  BY <1>4, <1>5, ShiftedIs
<1> HIDE DEF dest
<1>7. /\ dest \in ClipRects /\ dest.x1 = box.x1 + (to[1] - ax) /\ dest.y1 = box.y1 + (to[2] - ay)
      /\ dest.x2 = box.x2 + (to[1] - ax) /\ dest.y2 = box.y2 + (to[2] - ay)
      /\ dest.x1 \in Int /\ dest.y1 \in Int
  BY <1>5, <1>6 DEF Corners
<1>8. \A i \in DOMAIN c : Corners(tmp[i], c[i].x1 + (-box.x1), c[i].y1 + (-box.y1),
                                 c[i].x2 + (-box.x1), c[i].y2 + (-box.y1))
  <2> SUFFICES ASSUME NEW i \in DOMAIN c
               PROVE  Corners(tmp[i], c[i].x1 + (-box.x1), c[i].y1 + (-box.y1),
                              c[i].x2 + (-box.x1), c[i].y2 + (-box.y1))
    OBVIOUS
  <2>1. tmp[i] = B!Shifted(c[i], -box.x1, -box.y1) /\ c[i] \in ClipRects
    BY <1>4
  <2> HIDE DEF tmp
  <2>2. QED
    BY <1>5, <2>1, ShiftedIs
<1>9. DOMAIN tmp = DOMAIN c /\ DOMAIN V = DOMAIN c
  BY DEF B!vmw_clip_cliprects
<1>10. Corners(clip, 0 - dest.x1, 0 - dest.y1, w - dest.x1, h - dest.y1)
  <2>1. 0 - dest.x1 \in Int /\ 0 - dest.y1 \in Int /\ w - dest.x1 \in Int /\ h - dest.y1 \in Int
    BY <1>3, <1>7
  <2>2. QED
    BY <2>1, RectIs
<1> HIDE DEF tmp, clip
<1>11. ASSUME NEW i \in DOMAIN c
       PROVE  Corners(V[i], IF clip.x1 < tmp[i].x1 THEN tmp[i].x1 ELSE clip.x1,
                            IF clip.y1 < tmp[i].y1 THEN tmp[i].y1 ELSE clip.y1,
                            IF clip.x2 < tmp[i].x2 THEN clip.x2 ELSE tmp[i].x2,
                            IF clip.y2 < tmp[i].y2 THEN clip.y2 ELSE tmp[i].y2)
  <2>1. clip \in ClipRects /\ i \in DOMAIN tmp /\ tmp[i] \in ClipRects
    BY <1>8, <1>9, <1>10 DEF Corners
  <2>2. QED
    BY <2>1, ClippedIs
<1> HIDE DEF V
<1>12. ASSUME NEW i \in DOMAIN c, NEW q
       PROVE  q \in B!Inside(V[i]) <=>
                /\ q \in Points /\ q = <<q[1], q[2]>>
                /\ c[i].x1 - box.x1 <= q[1] /\ q[1] < c[i].x2 - box.x1
                /\ c[i].y1 - box.y1 <= q[2] /\ q[2] < c[i].y2 - box.y1
                /\ 0 <= dest.x1 + q[1] /\ dest.x1 + q[1] < w
                /\ 0 <= dest.y1 + q[2] /\ dest.y1 + q[2] < h
  <2>1. /\ c[i].x1 \in Int /\ c[i].y1 \in Int /\ c[i].x2 \in Int /\ c[i].y2 \in Int
    BY <1>4 DEF ClipRects
  <2>2. /\ V[i] \in ClipRects
        /\ V[i].x1 = (IF 0 - dest.x1 < c[i].x1 - box.x1 THEN c[i].x1 - box.x1 ELSE 0 - dest.x1)
        /\ V[i].y1 = (IF 0 - dest.y1 < c[i].y1 - box.y1 THEN c[i].y1 - box.y1 ELSE 0 - dest.y1)
        /\ V[i].x2 = (IF w - dest.x1 < c[i].x2 - box.x1 THEN w - dest.x1 ELSE c[i].x2 - box.x1)
        /\ V[i].y2 = (IF h - dest.y1 < c[i].y2 - box.y1 THEN h - dest.y1 ELSE c[i].y2 - box.y1)
    BY <1>5, <1>8, <1>10, <1>11, <2>1 DEF Corners
  <2>3. q \in B!Inside(V[i]) <=>
          /\ q \in Points /\ q = <<q[1], q[2]>>
          /\ V[i].x1 <= q[1] /\ q[1] < V[i].x2 /\ V[i].y1 <= q[2] /\ q[2] < V[i].y2
    BY <2>2, PixelIn
  <2>4. q \in Points => q[1] \in Int /\ q[2] \in Int
    BY DEF Points
  <2>5. QED
    BY <1>3, <1>5, <1>7, <2>1, <2>2, <2>3, <2>4
<1>13. ASSUME NEW p
       PROVE  /\ p \in S <=>
                   /\ \E i \in DOMAIN c : p \in B!Inside(c[i])
                   /\ 0 <= p[1] + to[1] - ax /\ p[1] + to[1] - ax < w
                   /\ 0 <= p[2] + to[2] - ay /\ p[2] + to[2] - ay < h
              /\ p \in Points => At(p, to, u) = <<p[1] + to[1] - ax, p[2] + to[2] - ay>>
  <2>1. p \in S <=> p \in B!Covered(c) /\ At(p, to, u) \in B!OnScreen(u)
    BY DEF Seen
  <2>2. p \in B!Covered(c) <=> \E i \in DOMAIN c : p \in B!Inside(c[i])
    BY DEF B!Covered
  <2>3. p \in B!Covered(c) => p \in Points
    BY <1>4, <2>2, PixelIn
  <2>4. At(p, to, u) = <<p[1] + to[1] - ax, p[2] + to[2] - ay>>
    BY DEF At, ax, ay
  <2>5. p \in Points => At(p, to, u) \in Points
    BY <1>3, <2>4 DEF Points
  <2>6. QED
    BY <2>1, <2>2, <2>3, <2>4, <2>5, ScreenIn DEF w, h
<1>14. CASE B!Misses(dest, u)
  <2>1. ASSUME NEW p \in B!Covered(c)
        PROVE  LET d == At(p, to, u) IN
               d \in Points /\ dest.x1 <= d[1] /\ d[1] < dest.x2 /\ dest.y1 <= d[2] /\ d[2] < dest.y2
    <3>1. PICK i \in DOMAIN c : p \in B!Inside(c[i])
      BY DEF B!Covered
    <3>2. /\ p \in Points /\ c[i].x1 <= p[1] /\ p[1] < c[i].x2 /\ c[i].y1 <= p[2] /\ p[2] < c[i].y2
          /\ c[i].x1 \in Int /\ c[i].x2 \in Int /\ c[i].y1 \in Int /\ c[i].y2 \in Int
      BY <1>4, <3>1, PixelIn DEF ClipRects
    <3>3. box.x1 <= c[i].x1 /\ c[i].x2 <= box.x2 /\ box.y1 <= c[i].y1 /\ c[i].y2 <= box.y2
      BY <1>4 DEF Bounds
    <3>4. At(p, to, u) = <<p[1] + to[1] - ax, p[2] + to[2] - ay>>
      BY DEF At, ax, ay
    <3>5. QED
      BY <1>3, <1>5, <1>7, <3>2, <3>3, <3>4 DEF Points
  <2>2. Blitted(B!Covered(c), to, u) = {}
    BY <1>7, <1>14, <2>1, MissesAll
  <2>3. QED
    BY <1>1, <1>14, <2>2
<1>15. CASE ~B!Misses(dest, u)
  <2>1. ASSUME NEW q \in B!Covered(V) PROVE P(q) \in S /\ D(q) = At(P(q), to, u)
    <3>1. PICK i \in DOMAIN c : q \in B!Inside(V[i])
      BY <1>9 DEF B!Covered
    <3>2. /\ q[1] \in Int /\ q[2] \in Int
          /\ c[i].x1 \in Int /\ c[i].y1 \in Int /\ c[i].x2 \in Int /\ c[i].y2 \in Int
      BY <1>4, <1>12, <3>1 DEF Points, ClipRects
    <3> DEFINE p == P(q)
    <3>3. /\ p \in Points /\ p = <<p[1], p[2]>> /\ p[1] = box.x1 + q[1] /\ p[2] = box.y1 + q[2]
          /\ p[1] \in Int /\ p[2] \in Int
      BY <1>5, <3>2 DEF Points
    <3> HIDE DEF p
    <3>4. p \in B!Inside(c[i])
      <4>1. /\ c[i].x1 - box.x1 <= q[1] /\ q[1] < c[i].x2 - box.x1
            /\ c[i].y1 - box.y1 <= q[2] /\ q[2] < c[i].y2 - box.y1
        BY <1>12, <3>1
      <4>2. c[i].x1 <= p[1] /\ p[1] < c[i].x2 /\ c[i].y1 <= p[2] /\ p[2] < c[i].y2
        BY <1>5, <3>2, <3>3, <4>1
      <4>3. QED
        BY <1>4, <3>3, <4>2, PixelIn
    <3>5. p[1] + to[1] - ax = dest.x1 + q[1] /\ p[2] + to[2] - ay = dest.y1 + q[2]
      BY <1>3, <1>5, <1>7, <3>2, <3>3
    <3>6. p \in S
      BY <1>12, <1>13, <3>1, <3>4, <3>5
    <3>7. D(q) = At(p, to, u)
      BY <1>13, <3>3, <3>5
    <3>8. QED
      BY <3>6, <3>7 DEF p
  <2>2. ASSUME NEW p \in S PROVE \E q \in B!Covered(V) : P(q) = p /\ D(q) = At(p, to, u)
    <3>1. PICK i \in DOMAIN c : p \in B!Inside(c[i])
      BY <1>13
    <3>2. /\ p \in Points /\ p = <<p[1], p[2]>> /\ p[1] \in Int /\ p[2] \in Int
          /\ c[i].x1 <= p[1] /\ p[1] < c[i].x2 /\ c[i].y1 <= p[2] /\ p[2] < c[i].y2
          /\ c[i].x1 \in Int /\ c[i].x2 \in Int /\ c[i].y1 \in Int /\ c[i].y2 \in Int
      BY <1>4, <3>1, PixelIn DEF ClipRects, Points
    <3> DEFINE q == <<p[1] - box.x1, p[2] - box.y1>>
    <3>3. /\ q \in Points /\ q = <<q[1], q[2]>> /\ q[1] = p[1] - box.x1 /\ q[2] = p[2] - box.y1
          /\ q[1] \in Int /\ q[2] \in Int
      BY <1>5, <3>2 DEF Points
    <3> HIDE DEF q
    <3>4. p[1] + to[1] - ax = dest.x1 + q[1] /\ p[2] + to[2] - ay = dest.y1 + q[2]
      <4>1. p[1] = box.x1 + q[1] /\ p[2] = box.y1 + q[2]
        BY <1>5, <3>2, <3>3
      <4>2. q[1] \in Int /\ q[2] \in Int
        BY <3>3
      <4>3. QED
        BY <1>3, <1>5, <1>7, <4>1, <4>2
    <3>5. /\ c[i].x1 - box.x1 <= q[1] /\ q[1] < c[i].x2 - box.x1
          /\ c[i].y1 - box.y1 <= q[2] /\ q[2] < c[i].y2 - box.y1
      BY <1>5, <3>2, <3>3
    <3>6. q \in B!Inside(V[i])
      BY <1>12, <1>13, <3>3, <3>4, <3>5
    <3>7. q \in B!Covered(V)
      BY <1>9, <3>6 DEF B!Covered
    <3>8. P(q) = p
      BY <1>5, <3>2, <3>3
    <3>9. D(q) = At(p, to, u)
      BY <1>13, <3>2, <3>4
    <3>10. QED
      BY <3>7, <3>8, <3>9
  <2> HIDE DEF P, D, S
  <2>3. Blit = {<<p, At(p, to, u)>> : p \in S}
    BY <1>2, <2>1, <2>2
  <2>4. QED
    BY <1>1, <1>15, <2>3 DEF Blitted, S
<1>16. QED
  BY <1>14, <1>15

\* The rectangles a client gives, and those that the damage is.
Asked(b) == IF b.clips = <<>> THEN <<B!WholeFb>> ELSE b.clips

Dirty == {"surface_dirty", "dmabuf_dirty_sou", "dmabuf_dirty_ldu"}

Request(b) ==
  /\ b.op \in Dirty \cup {"present", "readback"}
  /\ \/ b.clips = <<>> /\ b.op \in Dirty
     \/ \E r \in ClipRects : b.clips = <<r>>
     \/ \E r \in ClipRects, s \in ClipRects : b.clips = <<r, s>>
  /\ b.copy => /\ b.op \in Dirty
               /\ \E r \in ClipRects, s \in ClipRects : b.clips = <<r, s>>
  /\ b.to \in Points /\ (b.op # "present" => b.to = Origin)

LEMMA ClipListIs ==
  ASSUME NEW r \in ClipRects, NEW s \in ClipRects
  PROVE  /\ ClipList(<<r>>) /\ ClipList(<<r, s>>) /\ <<r>> # <<>> /\ <<r, s>> # <<>>
         /\ DOMAIN <<r>> = {1} /\ <<r>>[1] = r
         /\ DOMAIN <<r, s>> = {1, 2} /\ <<r, s>>[1] = r /\ <<r, s>>[2] = s
  BY DEF ClipList

LEMMA WholeIs == ClipList(<<B!WholeFb>>)
<1>1. B!WholeFb \in ClipRects
  BY BlitAssumption, RectIs DEF B!WholeFb, Corners
<1>2. QED
  BY <1>1, ClipListIs

LEMMA EverySecondIs ==
  ASSUME NEW r \in ClipRects, NEW s \in ClipRects
  PROVE  ClipList(B!EverySecond(<<r, s>>)) /\ \A i \in DOMAIN B!EverySecond(<<r, s>>) :
           B!EverySecond(<<r, s>>)[i] = r
<1>1. Len(<<r, s>>) \div 2 = 1
  OBVIOUS
<1>2. B!EverySecond(<<r, s>>) = [i \in {1} |-> <<r, s>>[2 * i - 1]]
  BY <1>1 DEF B!EverySecond
<1>3. QED
  BY <1>2 DEF ClipList

LEMMA DirtyIs ==
  ASSUME Request(blit)
  PROVE  /\ ClipList(B!DirtyClips) /\ ClipList(Asked(blit))
         /\ B!Covered(B!DirtyClips) \subseteq B!Covered(Asked(blit))
         /\ ~blit.copy => B!DirtyClips = Asked(blit)
<1>1. ClipList(Asked(blit))
  <2>1. CASE blit.clips = <<>>
    BY <2>1, WholeIs DEF Asked
  <2>2. ASSUME NEW r \in ClipRects, blit.clips = <<r>>
        PROVE  ClipList(Asked(blit))
    BY <2>2, ClipListIs DEF Asked
  <2>3. ASSUME NEW r \in ClipRects, NEW s \in ClipRects, blit.clips = <<r, s>>
        PROVE  ClipList(Asked(blit))
    <3>1. ClipList(<<r, s>>) /\ <<r, s>> # <<>>
      BY ClipListIs
    <3>2. QED
      BY <2>3, <3>1, Zenon DEF Asked
  <2>4. QED
    BY <2>1, <2>2, <2>3 DEF Request
<1>2. CASE ~blit.copy
  <2>1. B!DirtyClips = Asked(blit)
    BY <1>2 DEF B!DirtyClips, Asked
  <2>2. QED
    BY <1>1, <1>2, <2>1
<1>3. CASE blit.copy
  <2>1. PICK r \in ClipRects, s \in ClipRects : blit.clips = <<r, s>>
    BY <1>3 DEF Request
  <2>2. blit.clips # <<>>
    BY <2>1, ClipListIs
  <2>3. B!DirtyClips = B!EverySecond(<<r, s>>) /\ Asked(blit) = <<r, s>>
    BY <1>3, <2>1, <2>2 DEF B!DirtyClips, Asked
  <2> DEFINE E == B!EverySecond(<<r, s>>)
  <2>4. ClipList(E) /\ \A i \in DOMAIN E : E[i] = r
    BY EverySecondIs
  <2> HIDE DEF E
  <2>5. B!Covered(E) \subseteq B!Covered(<<r, s>>)
    <3>1. 1 \in DOMAIN <<r, s>> /\ <<r, s>>[1] = r
      BY ClipListIs
    <3>2. B!Inside(r) \subseteq B!Covered(<<r, s>>)
      BY <3>1 DEF B!Covered
    <3>3. QED
      BY <2>4, <3>2 DEF B!Covered
  <2>6. QED
    BY <1>1, <1>3, <2>3, <2>4, <2>5 DEF E
<1>4. QED
  BY <1>2, <1>3

LEMMA EachIs ==
  ASSUME NEW c, ClipList(c), NEW u, UnitOK(u)
  PROVE  /\ B!Each(B!GmrfbToScreen, c, u) = Blitted(B!Covered(c), Origin, u)
         /\ B!Each(B!UPDATE, c, u) = Blitted(B!Covered(c), Origin, u)
         /\ B!Each(B!ScreenToGmrfb, c, u) = Blitted(B!Covered(c), Origin, u)
<1> DEFINE Out(i) == Blitted(B!Inside(c[i]), Origin, u)
<1>1. UNION {Out(i) : i \in DOMAIN c} = Blitted(B!Covered(c), Origin, u)
  BY BlittedAll
<1>2. \A i \in DOMAIN c : /\ B!GmrfbToScreen(c[i], u) = Out(i)
                          /\ B!UPDATE(c[i], u) = Out(i)
                          /\ B!ScreenToGmrfb(c[i], u) = Out(i)
  BY GmrfbIs, UpdateIs, ReadbackIs DEF ClipList
<1> HIDE DEF Out
<1>3. /\ B!Each(B!GmrfbToScreen, c, u) = UNION {B!GmrfbToScreen(c[i], u) : i \in DOMAIN c}
      /\ B!Each(B!UPDATE, c, u) = UNION {B!UPDATE(c[i], u) : i \in DOMAIN c}
      /\ B!Each(B!ScreenToGmrfb, c, u) = UNION {B!ScreenToGmrfb(c[i], u) : i \in DOMAIN c}
  BY Zenon DEF B!Each
<1>4. /\ {B!GmrfbToScreen(c[i], u) : i \in DOMAIN c} = {Out(i) : i \in DOMAIN c}
      /\ {B!UPDATE(c[i], u) : i \in DOMAIN c} = {Out(i) : i \in DOMAIN c}
      /\ {B!ScreenToGmrfb(c[i], u) : i \in DOMAIN c} = {Out(i) : i \in DOMAIN c}
  BY <1>2
<1>5. QED
  BY <1>1, <1>3, <1>4

\* What the code goes through for the request.
Through(b) == IF b.op \in Dirty THEN B!DirtyClips ELSE b.clips

LEMMA BlitsIs ==
  ASSUME Request(blit), NEW k, UnitOK(unit[k])
  PROVE  B!BlitsOf(k) = Blitted(B!Covered(Through(blit)), blit.to, unit[k])
<1> DEFINE u == unit[k]
           c == Through(blit)
<1>1. ClipList(c)
  <2>1. blit.op \notin Dirty => ClipList(blit.clips)
    <3>1. ASSUME NEW r \in ClipRects, blit.clips = <<r>>
          PROVE  ClipList(blit.clips)
      BY <3>1, ClipListIs
    <3>2. ASSUME NEW r \in ClipRects, NEW s \in ClipRects, blit.clips = <<r, s>>
          PROVE  ClipList(blit.clips)
      <4>1. ClipList(<<r, s>>)
        BY ClipListIs
      <4>2. QED
        BY <3>2, <4>1, Zenon
    <3>3. QED
      BY <3>1, <3>2 DEF Request
  <2>2. QED
    BY <2>1, DirtyIs DEF Through
<1>2. Origin \in Points /\ blit.to \in Points /\ blit.op \in Dirty \cup {"present", "readback"}
  BY DEF Request, Origin, Points
<1>3. blit.op # "present" => blit.to = Origin
  BY DEF Request
<1>4. /\ B!vmw_kms_present(c, blit.to, u) = Blitted(B!Covered(c), blit.to, u)
      /\ B!vmw_kms_present(c, Origin, u) = Blitted(B!Covered(c), Origin, u)
  BY <1>1, <1>2, PresentIs
<1>5. /\ B!Each(B!GmrfbToScreen, c, u) = Blitted(B!Covered(c), Origin, u)
      /\ B!Each(B!UPDATE, c, u) = Blitted(B!Covered(c), Origin, u)
      /\ B!Each(B!ScreenToGmrfb, c, u) = Blitted(B!Covered(c), Origin, u)
  BY <1>1, EachIs
<1>6. B!do_surface_dirty_sou(c, u) = B!vmw_kms_present(c, Origin, u)
  BY DEF B!do_surface_dirty_sou, Origin
<1>7. /\ blit.op \in Dirty => c = B!DirtyClips
      /\ blit.op \notin Dirty => c = blit.clips
  BY DEF Through
<1> HIDE DEF c
<1>8. CASE blit.op = "surface_dirty"
  <2>1. B!BlitsOf(k) = B!do_surface_dirty_sou(c, u)
    BY <1>7, <1>8 DEF B!BlitsOf, Dirty
  <2>2. QED
    BY <1>3, <1>4, <1>6, <1>8, <2>1 DEF c
<1>9. CASE blit.op = "dmabuf_dirty_sou"
  <2>1. B!BlitsOf(k) = B!Each(B!GmrfbToScreen, c, u)
    BY <1>7, <1>9 DEF B!BlitsOf, Dirty
  <2>2. QED
    BY <1>3, <1>5, <1>9, <2>1 DEF c
<1>10. CASE blit.op = "dmabuf_dirty_ldu"
  <2>1. B!BlitsOf(k) = B!Each(B!UPDATE, c, u)
    BY <1>7, <1>10 DEF B!BlitsOf, Dirty
  <2>2. QED
    BY <1>3, <1>5, <1>10, <2>1 DEF c
<1>11. CASE blit.op = "present"
  <2>1. B!BlitsOf(k) = B!vmw_kms_present(c, blit.to, u)
    BY <1>7, <1>11 DEF B!BlitsOf, Dirty
  <2>2. QED
    BY <1>4, <2>1 DEF c
<1>12. CASE blit.op = "readback"
  <2>1. B!BlitsOf(k) = B!Each(B!ScreenToGmrfb, c, u)
    BY <1>7, <1>12 DEF B!BlitsOf, Dirty
  <2>2. QED
    BY <1>3, <1>5, <1>12, <2>1 DEF c
<1>13. QED
  BY <1>2, <1>8, <1>9, <1>10, <1>11, <1>12 DEF Dirty
-----------------------------------------------------------------------------
(* What was moved to the units that were visited. *)

UnitShown(b, u, m) ==
  IF ~u.shows THEN m = {}
  ELSE IF b.copy THEN m \subseteq Blitted(B!Covered(Asked(b)), b.to, u)
  ELSE m = Blitted(B!Covered(Asked(b)), b.to, u)

UnitsKept ==
  \A j \in 1 .. Screens : /\ ~unit[j].shows => moved[j] = {}
                          /\ j < blit.k => UnitShown(blit, unit[j], moved[j])

BlitInv ==
  /\ \A j \in 1 .. Screens : UnitOK(unit[j])
  /\ DOMAIN moved = 1 .. Screens
  /\ DOMAIN blit = {"op", "clips", "copy", "to", "k", "ok"}
  /\ blit.k \in 0 .. Screens + 1
  /\ blit.k > 0 /\ blit.ok => Request(blit) /\ UnitsKept

SameAsk(b, c) == b.op = c.op /\ b.clips = c.clips /\ b.copy = c.copy /\ b.to = c.to

LEMMA SameRequest ==
  ASSUME NEW b, NEW c, SameAsk(b, c)
  PROVE  /\ Request(b) => Request(c)
         /\ \A u, m : UnitShown(b, u, m) => UnitShown(c, u, m)
<1>1. Request(b) => Request(c)
  BY DEF SameAsk, Request
<1>2. Asked(b) = Asked(c)
  BY DEF SameAsk, Asked
<1>3. QED
  BY <1>1, <1>2 DEF SameAsk, UnitShown

LEMMA BlitStart ==
  ASSUME B!BlitInit
  PROVE  BlitInv
<1>1. \A u \in B!UnitStates : UnitOK(u)
  BY BlitAssumption DEF B!UnitStates, UnitOK, Points
<1>2. DOMAIN blit = {"op", "clips", "copy", "to", "k", "ok"} /\ blit.k = 0
  BY DEF B!BlitInit, B!Idle0
<1>3. DOMAIN moved = 1 .. Screens
  BY DEF B!BlitInit
<1>4. 0 \in 0 .. Screens + 1
  BY BlitAssumption
<1>5. \A j \in 1 .. Screens : UnitOK(unit[j])
  BY <1>1 DEF B!BlitInit
<1>6. QED
  BY <1>2, <1>3, <1>4, <1>5 DEF BlitInv

\* An ioctl begins.
LEMMA StartKeeps ==
  ASSUME BlitInv, NEW op, NEW clips, NEW copy, NEW to, B!Start(op, clips, copy, to),
         Request([op |-> op, clips |-> clips, copy |-> copy, to |-> to, k |-> 1, ok |-> TRUE])
  PROVE  BlitInv'
<1> DEFINE b == [op |-> op, clips |-> clips, copy |-> copy, to |-> to, k |-> 1, ok |-> TRUE]
<1>1. /\ blit' = b /\ moved' = [j \in 1 .. Screens |-> {}] /\ unit' = unit
  BY DEF B!Start
<1>2. Request(b) /\ b.k = 1 /\ DOMAIN b = {"op", "clips", "copy", "to", "k", "ok"}
  OBVIOUS
<1> HIDE DEF b
<1>3. Request(blit')
  BY <1>1, <1>2
<1>4. UnitsKept'
  BY <1>1, <1>2, BlitAssumption DEF UnitsKept
<1>5. blit'.k \in 0 .. Screens + 1
  BY <1>1, <1>2, BlitAssumption
<1>6. DOMAIN moved' = 1 .. Screens /\ DOMAIN blit' = {"op", "clips", "copy", "to", "k", "ok"}
  BY <1>1, <1>2
<1>7. (Request(blit))'
  BY <1>3 DEF Request
<1>8. QED
  BY <1>1, <1>4, <1>5, <1>6, <1>7, Zenon DEF BlitInv, UnitOK

LEMMA ClipsAsked ==
  ASSUME NEW clips \in B!SomeClips
  PROVE  \/ \E r \in ClipRects : clips = <<r>>
         \/ \E r \in ClipRects, s \in ClipRects : clips = <<r, s>>
<1>1. Clips \subseteq ClipRects
  BY BlitAssumption DEF ClipRects
<1>2. QED
  BY <1>1 DEF B!SomeClips

LEMMA IoctlsKeep ==
  ASSUME BlitInv,
         B!drm_mode_dirtyfb_ioctl \/ B!vmw_present_ioctl \/ B!vmw_present_readback_ioctl
  PROVE  BlitInv'
<1>1. CASE B!drm_mode_dirtyfb_ioctl
  <2>1. PICK op \in Dirty, clips \in B!SomeClips \cup {<<>>}, copy \in Annotations :
          /\ copy => Len(clips) = 2 /\ B!SameSize(clips[1], clips[2])
          /\ B!Start(op, clips, copy, Origin)
    BY <1>1 DEF B!drm_mode_dirtyfb_ioctl, Dirty, Origin
  <2> DEFINE b == [op |-> op, clips |-> clips, copy |-> copy, to |-> Origin, k |-> 1, ok |-> TRUE]
  <2>2. \/ clips = <<>>
        \/ \E r \in ClipRects : clips = <<r>>
        \/ \E r \in ClipRects, s \in ClipRects : clips = <<r, s>>
    BY ClipsAsked
  <2>3. copy => \E r \in ClipRects, s \in ClipRects : clips = <<r, s>>
    <3>1. Len(<<>>) # 2 /\ \A r : Len(<<r>>) # 2
      OBVIOUS
    <3>2. QED
      BY <2>1, <2>2, <3>1
  <2>4. Origin \in Points
    BY DEF Origin, Points
  <2>5. Request(b)
    BY <2>2, <2>3, <2>4 DEF Request, Dirty
  <2>6. QED
    BY <2>1, <2>5, StartKeeps
<1>2. CASE B!vmw_present_ioctl
  <2>1. PICK clips \in B!SomeClips, to \in Offsets : B!Start("present", clips, FALSE, to)
    BY <1>2 DEF B!vmw_present_ioctl
  <2>2. \/ \E r \in ClipRects : clips = <<r>>
        \/ \E r \in ClipRects, s \in ClipRects : clips = <<r, s>>
    BY ClipsAsked
  <2>3. to \in Points
    BY BlitAssumption DEF Points
  <2>4. Request([op |-> "present", clips |-> clips, copy |-> FALSE, to |-> to, k |-> 1,
                 ok |-> TRUE])
    BY <2>2, <2>3 DEF Request
  <2>5. QED
    BY <2>1, <2>4, StartKeeps
<1>3. CASE B!vmw_present_readback_ioctl
  <2>1. PICK clips \in B!SomeClips : B!Start("readback", clips, FALSE, Origin)
    BY <1>3 DEF B!vmw_present_readback_ioctl, Origin
  <2>2. \/ \E r \in ClipRects : clips = <<r>>
        \/ \E r \in ClipRects, s \in ClipRects : clips = <<r, s>>
    BY ClipsAsked
  <2>3. Origin \in Points
    BY DEF Origin, Points
  <2>4. Request([op |-> "readback", clips |-> clips, copy |-> FALSE, to |-> Origin, k |-> 1,
                 ok |-> TRUE])
    BY <2>2, <2>3 DEF Request
  <2>5. QED
    BY <2>1, <2>4, StartKeeps
<1>4. QED
  BY <1>1, <1>2, <1>3

\* One unit is visited.
LEMMA SubmitKeeps ==
  ASSUME BlitInv, B!Submit
  PROVE  BlitInv'
<1> DEFINE n == blit.k
           v == unit[n]
<1>1. /\ n \in 1 .. Screens /\ unit' = unit
      /\ moved' = IF v.shows THEN [moved EXCEPT ![n] = B!BlitsOf(n)] ELSE moved
      /\ blit' = [blit EXCEPT !.k = n + 1]
  BY DEF B!Submit
<1>2. /\ SameAsk(blit, blit') /\ blit'.ok = blit.ok /\ blit'.k = n + 1
      /\ DOMAIN blit' = {"op", "clips", "copy", "to", "k", "ok"}
  BY <1>1 DEF BlitInv, SameAsk
<1>3. n \in Nat /\ n > 0 /\ n + 1 \in 0 .. Screens + 1
  BY <1>1, BlitAssumption
<1>4. DOMAIN moved' = 1 .. Screens
  BY <1>1 DEF BlitInv
<1>5. ASSUME blit.ok
      PROVE  (Request(blit))' /\ UnitsKept'
  <2>1. Request(blit) /\ UnitsKept
    BY <1>3, <1>5 DEF BlitInv
  <2>2. Request(blit') /\ \A u, m : UnitShown(blit, u, m) => UnitShown(blit', u, m)
    BY <1>2, <2>1, SameRequest
  <2>3. UnitOK(v)
    BY <1>1 DEF BlitInv
  <2> DEFINE S == Blitted(B!Covered(Asked(blit)), blit.to, v)
  <2>4. IF blit.copy THEN B!BlitsOf(n) \subseteq S ELSE B!BlitsOf(n) = S
    <3>1. B!BlitsOf(n) = Blitted(B!Covered(Through(blit)), blit.to, v)
      BY <2>1, <2>3, BlitsIs
    <3>2. CASE blit.op \in Dirty
      <4>1. Through(blit) = B!DirtyClips
        BY <3>2 DEF Through
      <4>2. B!Covered(Through(blit)) \subseteq B!Covered(Asked(blit))
        BY <2>1, <4>1, DirtyIs
      <4>3. ~blit.copy => Through(blit) = Asked(blit)
        BY <2>1, <4>1, DirtyIs
      <4>4. B!BlitsOf(n) \subseteq S
        BY <3>1, <4>2, BlittedMore
      <4>5. QED
        BY <3>1, <4>3, <4>4
    <3>3. CASE blit.op \notin Dirty
      <4>1. ~blit.copy /\ blit.clips # <<>>
        <5>1. ASSUME NEW r, blit.clips = <<r>>
              PROVE  blit.clips # <<>>
          BY <5>1
        <5>2. ASSUME NEW r, NEW s, blit.clips = <<r, s>>
              PROVE  blit.clips # <<>>
          BY <5>2
        <5>3. QED
          BY <2>1, <3>3, <5>1, <5>2 DEF Request
      <4>2. Through(blit) = Asked(blit)
        BY <3>3, <4>1 DEF Through, Asked
      <4>3. QED
        BY <3>1, <4>1, <4>2
    <3>4. QED
      BY <3>2, <3>3
  <2>5. UnitShown(blit, v, moved'[n])
    <3>1. CASE v.shows
      <4>1. moved'[n] = B!BlitsOf(n)
        BY <1>1, <3>1 DEF BlitInv
      <4>2. QED
        BY <2>4, <3>1, <4>1 DEF UnitShown
    <3>2. CASE ~v.shows
      BY <1>1, <2>1, <3>2 DEF UnitShown, UnitsKept
    <3>3. QED
      BY <3>1, <3>2
  <2> HIDE DEF S, v
  <2>6. ASSUME NEW j \in 1 .. Screens
        PROVE  /\ ~unit[j].shows => moved'[j] = {}
               /\ j < n + 1 => UnitShown(blit', unit[j], moved'[j])
    <3>1. CASE j = n
      <4>1. ~v.shows => moved'[n] = {}
        BY <2>5 DEF UnitShown
      <4>2. QED
        BY <2>2, <2>5, <3>1, <4>1 DEF v
    <3>2. CASE j # n
      <4>1. moved'[j] = moved[j]
        BY <1>1, <3>2 DEF BlitInv
      <4>2. j < n + 1 => j < n
        BY <1>3, <3>2
      <4>3. QED
        BY <2>1, <2>2, <4>1, <4>2 DEF UnitsKept
    <3>3. QED
      BY <3>1, <3>2
  <2>7. UnitsKept'
    BY <1>1, <1>2, <2>6 DEF UnitsKept
  <2>8. (Request(blit))'
    BY <2>2 DEF Request
  <2>9. QED
    BY <2>7, <2>8
<1>6. (\A j \in 1 .. Screens : UnitOK(unit[j]))'
  BY <1>1 DEF BlitInv, UnitOK
<1> HIDE DEF n, v
<1>7. blit'.k \in 0 .. Screens + 1
  BY <1>2, <1>3
<1>8. QED
  BY <1>2, <1>4, <1>5, <1>6, <1>7, Zenon DEF BlitInv

LEMMA EndKeeps ==
  ASSUME BlitInv, B!SubmitFails \/ B!Return
  PROVE  BlitInv'
<1>1. unit' = unit /\ moved' = moved
  BY DEF B!SubmitFails, B!Return
<1>2. /\ (\A j \in 1 .. Screens : UnitOK(unit[j]))'
      /\ DOMAIN moved' = 1 .. Screens
  BY <1>1 DEF BlitInv, UnitOK
<1>3. DOMAIN blit' = {"op", "clips", "copy", "to", "k", "ok"}
  BY DEF BlitInv, B!SubmitFails, B!Return, B!Idle0
<1>4. blit'.k \in 0 .. Screens + 1 /\ ~(blit'.k > 0 /\ blit'.ok)
  <2>1. CASE B!SubmitFails
    <3>1. blit'.k = Screens + 1 /\ blit'.ok = FALSE
      BY <2>1 DEF BlitInv, B!SubmitFails
    <3>2. QED
      BY <3>1, BlitAssumption
  <2>2. CASE B!Return
    <3>1. blit'.k = 0
      BY <2>2 DEF B!Return, B!Idle0
    <3>2. QED
      BY <3>1, BlitAssumption
  <2>3. QED
    BY <2>1, <2>2
<1>5. QED
  BY <1>2, <1>3, <1>4, Zenon DEF BlitInv

LEMMA BlitSteps ==
  ASSUME BlitInv, B!BlitNext \/ UNCHANGED blitVars
  PROVE  BlitInv'
<1>1. CASE B!drm_mode_dirtyfb_ioctl \/ B!vmw_present_ioctl \/ B!vmw_present_readback_ioctl
  BY <1>1, IoctlsKeep
<1>2. CASE B!Submit
  BY <1>2, SubmitKeeps
<1>3. CASE B!SubmitFails \/ B!Return
  BY <1>3, EndKeeps
<1>4. CASE UNCHANGED blitVars
  <2>1. unit' = unit /\ blit' = blit /\ moved' = moved
    BY <1>4 DEF blitVars
  <2>2. (\A j \in 1 .. Screens : UnitOK(unit[j]))'
    BY <2>1 DEF BlitInv, UnitOK
  <2>3. DOMAIN moved' = 1 .. Screens /\ DOMAIN blit' = {"op", "clips", "copy", "to", "k", "ok"}
        /\ blit'.k \in 0 .. Screens + 1
    BY <2>1 DEF BlitInv
  <2>4. Request(blit) => (Request(blit))'
    BY <2>1 DEF Request
  <2>5. UnitsKept => UnitsKept'
    BY <2>1, SameRequest DEF UnitsKept, SameAsk
  <2>6. QED
    BY <2>1, <2>2, <2>3, <2>4, <2>5 DEF BlitInv
<1>5. QED
  BY <1>1, <1>2, <1>3, <1>4 DEF B!BlitNext

LEMMA BlitDone ==
  ASSUME BlitInv
  PROVE  B!DamageShown
<1> SUFFICES ASSUME B!DoneWell, NEW j \in 1 .. Screens
             PROVE  IF ~unit[j].shows THEN moved[j] = {}
                    ELSE IF blit.copy
                         THEN moved[j] \subseteq B!Wanted(Asked(blit), blit.to, unit[j])
                         ELSE moved[j] = B!Wanted(Asked(blit), blit.to, unit[j])
  BY Zenon DEF B!DamageShown, Asked
<1>1. blit.k = Screens + 1 /\ blit.ok
  BY DEF B!DoneWell
<1>2. blit.k > 0 /\ j < blit.k
  BY <1>1, BlitAssumption
<1>3. UnitShown(blit, unit[j], moved[j])
  BY <1>1, <1>2 DEF BlitInv, UnitsKept
<1>4. B!Wanted(Asked(blit), blit.to, unit[j])
        = Blitted(B!Covered(Asked(blit)), blit.to, unit[j])
  BY WantedIs
<1>5. QED
  BY <1>3, <1>4 DEF UnitShown

(* When every submission of a request has succeeded, each screen shows all *)
(* the damage that lies on it, at its place, and nothing else: for every   *)
(* framebuffer, layout of the display units and rectangles the clipping of *)
(* vmw_kms_present, do_surface_dirty_sou, do_dmabuf_dirty_sou and          *)
(* vmw_kms_readback is exact.  Of an annotated copy, where the code takes  *)
(* every other rectangle, a part of the damage is shown.                   *)
THEOREM DamageHolds == Spec => []DamageShown
<1> DEFINE Inv == part = "blit" => BlitInv
<1>1. Init => Inv
  BY BlitStart DEF Init
<1>2. Inv /\ [Next]_vars => Inv'
  <2> SUFFICES ASSUME Inv, [Next]_vars, part' = "blit"
               PROVE  BlitInv'
    OBVIOUS
  <2>1. part = "blit" /\ (B!BlitNext \/ UNCHANGED blitVars)
    BY Zenon DEF Next, vars
  <2>2. QED
    BY <2>1, BlitSteps
<1>3. Inv => DamageShown
  BY BlitDone DEF DamageShown
<1>4. QED
  BY <1>1, <1>2, <1>3, PTL DEF Spec
=============================================================================
