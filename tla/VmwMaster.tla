------------------------------- MODULE VmwMaster -------------------------------
(***************************************************************************)
(* Files, masters and device power: opening and closing of drm files       *)
(* (drm_fops.c), masters and their references (drm_stub.c), authentication *)
(* with magics (drm_auth.c), the permissions of an ioctl (drm_drv.c), and  *)
(* what vmwgfx_drv.c adds: the ttm_lock of each master, which a dropped    *)
(* master holds so that its clients sleep, the 3D resource count that      *)
(* starts and stops the fifo, and suspend.                                 *)
(*                                                                         *)
(* A process is known by its file.  drm_global_mutex and master_mutex are  *)
(* held from the step that takes them to the step that gives them up; an   *)
(* ioctl with DRM_AUTH takes master_mutex to look at its file, then the    *)
(* master's ttm_lock as a reader.                                          *)
(***************************************************************************)
EXTENDS Integers, FiniteSets

CONSTANTS
  Files, Masters,
  Root,        \* files of processes with CAP_SYS_ADMIN
  Render,      \* files of the render node
  Faults,      \* what may fail: "device" in vmw_request_device, "vt" in
               \* ttm_vt_lock, "resume" in vmw_request_device on resume
  Groups,      \* sets of files that processes open side by side
  NoFile, NoMaster, Fbdev

VARIABLES
  mfile,       \* struct drm_file with its vmw_fpriv, and what its process does
  mast,        \* struct drm_master with its vmw_master
  mdev         \* struct drm_device and vmw_private

masterVars == <<mfile, mast, mdev>>

NewFile == [pc |-> "closed", master |-> NoMaster, is_master |-> FALSE,
            authenticated |-> FALSE, magic |-> FALSE, locked |-> NoMaster,
            res |-> "none"]

NewMaster == [refcount |-> 0, kill |-> FALSE, vt |-> NoFile, readers |-> {},
              magiclist |-> {}]

MasterInit ==
  /\ mfile = [f \in Files |-> NewFile]
  /\ mast = [m \in Masters \cup {Fbdev} |-> NewMaster]
  /\ \E fb \in BOOLEAN, gb \in BOOLEAN, g \in Groups :
       mdev = [enable_fb |-> fb, has_mob |-> gb, minor |-> NoMaster, active |-> Fbdev,
               n3d |-> IF fb THEN 1 ELSE 0, fifo |-> fb, hidden |-> FALSE,
               pm |-> "on", open_count |-> 0, is_opened |-> FALSE,
               global |-> NoFile, bug |-> FALSE, group |-> g]

World == [f |-> mfile, m |-> mast, d |-> mdev]
Become(W) == mfile' = W.f /\ mast' = W.m /\ mdev' = W.d

Ok(W) == [ok |-> TRUE, w |-> W]
Failed(W) == [ok |-> FALSE, w |-> W]
MayFail(site, W) == IF site \in Faults THEN {Failed(W)} ELSE {}

-----------------------------------------------------------------------------
(* The 3D resource count, under release_mutex. *)

vmw_request_device(W) == [W EXCEPT !.d.fifo = TRUE, !.d.hidden = FALSE]
vmw_release_device(W) == [W EXCEPT !.d.fifo = FALSE]

vmw_3d_resource_inc(W, unhide, site) ==
  LET W1 == [W EXCEPT !.d.n3d = @ + 1] IN
  IF W.d.n3d = 0 THEN {Ok(vmw_request_device(W1))} \cup MayFail(site, W)
  ELSE {Ok([W1 EXCEPT !.d.hidden = @ /\ ~unhide])}

(* Below zero the kernel stops at a BUG_ON. *)
vmw_3d_resource_dec(W, hide) ==
  LET W1 == [W EXCEPT !.d.n3d = @ - 1, !.d.bug = @ \/ W.d.n3d <= 0] IN
  IF W.d.n3d = 1 THEN vmw_release_device(W1)
  ELSE [W1 EXCEPT !.d.hidden = @ \/ hide]

-----------------------------------------------------------------------------
(* References to masters, and their locks. *)

drm_master_get(W, m) == [W EXCEPT !.m[m].refcount = @ + 1]

drm_master_put(W, m) == [W EXCEPT !.m[m].refcount = @ - 1]

(* drm_master_create, and vmw_master_create: takers are killed until the   *)
(* master is set.                                                          *)
drm_master_create(W, m) ==
  [W EXCEPT !.m[m] = [NewMaster EXCEPT !.refcount = 1, !.kill = TRUE]]

vmw_master_create(W, m) == drm_master_create(W, m)

ttm_vt_lock(W, m, f) == [W EXCEPT !.m[m].vt = f]
ttm_vt_unlock(W, m) == [W EXCEPT !.m[m].vt = NoFile]
ttm_lock_set_kill(W, m, val) == [W EXCEPT !.m[m].kill = val]

(* A file f that is to be master locks the fbdev out and takes over. *)
TakeOver(W, f, from_open) ==
  LET m == W.f[f].master
      W1 == ttm_lock_set_kill([W EXCEPT !.d.active = m], m, FALSE)
  IN IF from_open THEN W1
     ELSE LET W2 == ttm_vt_unlock(W1, m) IN
          IF W1.f[f].locked # m THEN [W2 EXCEPT !.d.bug = TRUE]
          ELSE [drm_master_put(W2, m) EXCEPT !.f[f].locked = NoMaster]

FbdevLocked(W, f) ==
  IF W.d.active = NoMaster THEN {Ok(W)}
  ELSE LET W1 == [W EXCEPT !.d.bug = @ \/ W.d.active # Fbdev] IN
       {Ok(ttm_lock_set_kill(ttm_vt_lock(W1, Fbdev, f), Fbdev, TRUE))}
         \cup MayFail("vt", W1)

vmw_master_set(W, f, from_open) ==
  LET Inc == IF W.d.enable_fb THEN {Ok(W)} ELSE vmw_3d_resource_inc(W, TRUE, "device")
      Undo(x) == IF x.d.enable_fb THEN x ELSE vmw_3d_resource_dec(x, TRUE)
  IN UNION {IF ~i.ok THEN {i}
            ELSE {IF l.ok THEN Ok(TakeOver(l.w, f, from_open)) ELSE Failed(Undo(l.w)) :
                    l \in FbdevLocked(i.w, f)} : i \in Inc}

(* vmw_master_drop up to the lock of the master, which waits for readers.  *)
vmw_master_drop(W, f) ==
  [drm_master_get(W, W.f[f].master) EXCEPT !.f[f].locked = W.f[f].master]

(* Its rest, and what both callers do after it.  It goes on without the    *)
(* lock where that cannot be had.                                          *)
MasterDropped(W, f, locked) ==
  LET m == W.f[f].master
      W1 == IF locked THEN ttm_vt_lock(W, m, f)
            ELSE [drm_master_put(W, m) EXCEPT !.f[f].locked = NoMaster]
      W2 == ttm_lock_set_kill(W1, m, FALSE)
      W3 == IF W2.d.enable_fb THEN W2 ELSE vmw_3d_resource_dec(W2, TRUE)
      W4 == ttm_vt_unlock(ttm_lock_set_kill([W3 EXCEPT !.d.active = Fbdev],
                                            Fbdev, FALSE), Fbdev)
  IN [drm_master_put(W4, m) EXCEPT !.d.minor = NoMaster, !.f[f].is_master = FALSE]

-----------------------------------------------------------------------------
(* Open, under drm_global_mutex.  A failure frees the file again.          *)

Unowned == mdev.global = NoFile
Unused == {m \in Masters : mast[m].refcount = 0}

Opened(W, f) == [W EXCEPT !.f[f].pc = "idle", !.d.open_count = @ + 1,
                          !.d.is_opened = TRUE]

drm_open_helper(W, f) ==
  LET W1 == [W EXCEPT !.f[f] = [NewFile EXCEPT !.authenticated = f \in Root]] IN
  IF f \in Render THEN {Opened(W1, f)}
  ELSE IF W.d.minor # NoMaster
  THEN {Opened([drm_master_get(W1, W.d.minor) EXCEPT !.f[f].master = W.d.minor], f)}
  ELSE UNION {{IF s.ok THEN Opened(s.w, f)
               ELSE [drm_master_put(drm_master_put(s.w, m), m) EXCEPT
                       !.d.minor = NoMaster, !.f[f] = NewFile] :
                 s \in vmw_master_set(
                   [drm_master_get(vmw_master_create(W1, m), m) EXCEPT
                      !.d.minor = m, !.f[f].master = m, !.f[f].is_master = TRUE,
                      !.f[f].authenticated = TRUE], f, TRUE)} : m \in Unused}

drm_open(f) ==
  /\ mfile[f].pc = "closed" /\ Unowned /\ f \in mdev.group
  /\ \E W \in drm_open_helper(World, f) : Become(W)

-----------------------------------------------------------------------------
(* Set and drop. *)

drm_setmaster_ioctl(f) ==
  /\ mfile[f].pc = "idle" /\ f \in Root /\ Unowned
  /\ ~mfile[f].is_master /\ mdev.minor = NoMaster /\ mfile[f].master # NoMaster
  /\ LET m == mfile[f].master
         W == [drm_master_get(World, m) EXCEPT !.d.minor = m, !.f[f].is_master = TRUE]
     IN \E s \in vmw_master_set(W, f, FALSE) :
          Become(IF s.ok THEN s.w
                 ELSE [drm_master_put(s.w, m) EXCEPT !.d.minor = NoMaster,
                                                      !.f[f].is_master = FALSE])

drm_dropmaster_ioctl(f) ==
  /\ mfile[f].pc = "idle" /\ f \in Root /\ Unowned
  /\ mfile[f].is_master
  /\ Become([vmw_master_drop(World, f) EXCEPT !.d.global = f, !.f[f].pc = "drop"])

(* The drop of a master goes on when no client is inside. *)
DropLocked(f) ==
  /\ mfile[f].pc \in {"drop", "closedrop"}
  /\ \E locked \in {TRUE} \cup (IF "vt" \in Faults THEN {FALSE} ELSE {}) :
       /\ locked => mast[mfile[f].master].readers = {}
       /\ LET W == MasterDropped(World, f, locked) IN
          Become(IF mfile[f].pc = "drop"
                 THEN [W EXCEPT !.d.global = NoFile, !.f[f].pc = "idle"]
                 ELSE [W EXCEPT !.f[f].pc = "close"])

-----------------------------------------------------------------------------
(* Authentication. *)

drm_getmagic(f) ==
  /\ mfile[f].pc = "idle" /\ Unowned
  /\ mfile[f].master # NoMaster /\ ~mfile[f].magic
  /\ Become([World EXCEPT !.f[f].magic = TRUE,
                          !.m[mfile[f].master].magiclist = @ \cup {f}])

(* The master authenticates the file whose magic it has been given. *)
drm_authmagic(f) ==
  /\ mfile[f].pc = "idle" /\ Unowned /\ mfile[f].is_master
  /\ \E g \in mast[mfile[f].master].magiclist :
       Become([World EXCEPT !.f[g].authenticated = TRUE,
                            !.m[mfile[f].master].magiclist = @ \ {g}])

-----------------------------------------------------------------------------
(* An ioctl with DRM_AUTH and DRM_UNLOCKED, the driver's own.              *)

(* master_mutex is free whenever drm_global_mutex is. *)
vmw_master_check(f) ==
  /\ mfile[f].pc = "idle" /\ Unowned
  /\ LET r == mfile[f] IN
     IF f \in Render \/ r.is_master THEN Become([World EXCEPT !.f[f].pc = "in"])
     ELSE r.locked = NoMaster /\ Become([World EXCEPT !.f[f].pc = "read"])

(* A vt taker that waits keeps readers out. *)
Pending(m) == \E g \in Files : mfile[g].pc \in {"drop", "closedrop"} /\ mfile[g].master = m

(* Seeded fault: a dropped master's clients are let in. *)
ttm_read_lock_IgnoresVt(f) ==
  /\ mfile[f].pc = "read"
  /\ LET m == mfile[f].master IN
     Become([World EXCEPT !.f[f].pc = "in", !.m[m].readers = @ \cup {f}])

(* A taker of a lock that kills takers gets SIGTERM. *)
ttm_read_lock(f) ==
  /\ mfile[f].pc = "read"
  /\ LET m == mfile[f].master IN
     IF mast[m].kill THEN Become([World EXCEPT !.f[f].pc = "killed"])
     ELSE /\ mast[m].vt = NoFile /\ ~Pending(m)
          /\ Become([World EXCEPT !.f[f].pc = "in", !.m[m].readers = @ \cup {f}])

(* The master may exit while its client sleeps. *)
Interrupted(f) ==
  mfile[f].pc = "read" /\ Become([World EXCEPT !.f[f].pc = "idle"])

Done(W, f) ==
  [W EXCEPT !.f[f].pc = "idle",
            !.m = [m \in DOMAIN W.m |-> [W.m[m] EXCEPT !.readers = @ \ {f}]]]

drm_ioctl_permit(f) == mfile[f].authenticated \/ f \in Render

(* The ioctl creates, uses or destroys a resource; execbuf takes           *)
(* reservation_sem, so it waits for a resume.                              *)
vmw_generic_ioctl(f) ==
  /\ mfile[f].pc = "in"
  /\ \/ Become(Done(World, f))
     \/ /\ drm_ioctl_permit(f) /\ mfile[f].res # "hw" /\ mdev.pm = "on"
        /\ \E i \in vmw_3d_resource_inc(World, FALSE, "device") :
             Become(Done(IF i.ok THEN [i.w EXCEPT !.f[f].res = "hw"] ELSE i.w, f))
     \/ /\ drm_ioctl_permit(f) /\ mfile[f].res # "none"
        /\ Become(Done([(IF mfile[f].res = "hw" THEN vmw_3d_resource_dec(World, FALSE)
                         ELSE World) EXCEPT !.f[f].res = "none"], f))

-----------------------------------------------------------------------------
(* Release, under drm_global_mutex. *)

(* Seeded fault: the entry for the file stays in the list of magics. *)
drm_remove_magic_Forgets(W, f) == W

drm_remove_magic(W, f) ==
  IF ~W.f[f].magic THEN W
  ELSE [W EXCEPT !.m[W.f[f].master].magiclist = @ \ {f}]

Deauthenticated(W, f) ==
  [W EXCEPT !.f = [g \in Files |->
     IF g # f /\ W.f[g].master = W.f[f].master /\ W.f[g].pc # "closed"
     THEN [W.f[g] EXCEPT !.authenticated = FALSE] ELSE W.f[g]]]

drm_release(f) ==
  /\ mfile[f].pc \in {"idle", "killed"} /\ Unowned
  /\ LET W == [drm_remove_magic(World, f) EXCEPT !.d.global = f] IN
     Become(IF mfile[f].is_master
            THEN [vmw_master_drop(Deauthenticated(W, f), f) EXCEPT !.f[f].pc = "closedrop"]
            ELSE [W EXCEPT !.f[f].pc = "close"])

(* vmw_postclose and ttm_object_file_release. *)
vmw_postclose(W, f) ==
  LET m == W.f[f].locked
      W1 == IF m = NoMaster THEN W
            ELSE drm_master_put(ttm_vt_unlock(ttm_lock_set_kill(W, m, TRUE), m), m)
      W2 == IF W.f[f].res = "hw" THEN vmw_3d_resource_dec(W1, FALSE) ELSE W1
  IN [W2 EXCEPT !.f[f] = NewFile]

(* The last close turns the screens off; vmw_driver_open lets it, so that  *)
(* unloading a device nobody opened does not.                              *)
vmw_lastclose(W) == [W EXCEPT !.d.is_opened = FALSE]

drm_lastclose(W) == vmw_lastclose(W)

ReleaseEnd(f) ==
  /\ mfile[f].pc = "close"
  /\ LET W == IF mfile[f].master = NoMaster THEN World
              ELSE drm_master_put(World, mfile[f].master)
         W1 == [vmw_postclose(W, f) EXCEPT !.d.open_count = @ - 1, !.d.global = NoFile]
     IN Become(IF W1.d.open_count = 0 THEN drm_lastclose(W1) ELSE W1)

-----------------------------------------------------------------------------
(* Suspend.  The notifier takes reservation_sem and evicts everything,     *)
(* which destroys guest-backed resources; prepare then gives up the        *)
(* reference of the fbdev.                                                 *)

vmw_resource_evict_all(W) ==
  LET Hw == {f \in Files : W.f[f].res = "hw"}
      Gone == [W EXCEPT !.f = [f \in Files |-> IF f \in Hw THEN [W.f[f] EXCEPT !.res = "evicted"]
                                               ELSE W.f[f]],
                        !.d.n3d = @ - Cardinality(Hw)]
  IN IF ~W.d.has_mob \/ Hw = {} THEN W
     ELSE IF W.d.n3d = Cardinality(Hw) THEN vmw_release_device(Gone) ELSE Gone

vmwgfx_pm_notifier ==
  /\ mdev.pm \in {"on", "failed", "resumed"}
  /\ Become(IF mdev.pm = "on"
            THEN [vmw_resource_evict_all(World) EXCEPT !.d.pm = "prepare"]
            ELSE [World EXCEPT !.d.pm = "on"])

(* Seeded fault: a suspend that is refused forgets the fbdev's reference. *)
vmw_pm_prepare_Forgets ==
  /\ mdev.pm = "prepare"
  /\ LET W == IF mdev.enable_fb THEN vmw_3d_resource_dec(World, FALSE) ELSE World IN
     Become([W EXCEPT !.d.pm = IF W.d.n3d = 0 THEN "suspended" ELSE "failed"])

vmw_pm_prepare ==
  /\ mdev.pm = "prepare"
  /\ LET W == IF mdev.enable_fb THEN vmw_3d_resource_dec(World, FALSE) ELSE World IN
     IF W.d.n3d = 0 THEN Become([W EXCEPT !.d.pm = "suspended"])
     ELSE \E i \in IF mdev.enable_fb THEN vmw_3d_resource_inc(W, FALSE, "resume") ELSE {Ok(W)} :
            Become([i.w EXCEPT !.d.pm = "failed"])

(* A resource may have come since: the device refuses. *)
vmw_pci_suspend ==
  /\ mdev.pm = "suspended"
  /\ Become([World EXCEPT !.d.pm = IF mdev.n3d = 0 THEN "asleep" ELSE "complete"])

vmw_pci_resume == mdev.pm = "asleep" /\ Become([World EXCEPT !.d.pm = "complete"])

(* Nobody looks at what vmw_3d_resource_inc returns. *)
vmw_pm_complete ==
  /\ mdev.pm = "complete"
  /\ \E i \in IF mdev.enable_fb THEN vmw_3d_resource_inc(World, FALSE, "resume")
              ELSE {Ok(World)} :
       Become([i.w EXCEPT !.d.pm = "resumed"])

-----------------------------------------------------------------------------
Awake == mdev.pm # "asleep"

MasterNext ==
  \/ Awake /\ ~mdev.bug /\ \E f \in Files :
       \/ drm_open(f) \/ drm_setmaster_ioctl(f) \/ drm_dropmaster_ioctl(f)
       \/ DropLocked(f) \/ drm_getmagic(f) \/ drm_authmagic(f)
       \/ vmw_master_check(f) \/ ttm_read_lock(f) \/ Interrupted(f)
       \/ vmw_generic_ioctl(f) \/ drm_release(f) \/ ReleaseEnd(f)
  \/ vmwgfx_pm_notifier \/ vmw_pm_prepare \/ vmw_pci_suspend
  \/ vmw_pci_resume \/ vmw_pm_complete

MasterSpec == MasterInit /\ [][MasterNext]_masterVars

-----------------------------------------------------------------------------
Open == {f \in Files : mfile[f].pc # "closed"}

(* A master is referenced by the minor, by the files opened under it and   *)
(* by the one that dropped it, and by nothing else, through every failure  *)
(* of vmw_master_set (drm_open_helper, drm_setmaster_ioctl); no magic of a *)
(* master that exists names a file that has gone (drm_remove_magic).       *)
MasterRefs ==
  \A m \in Masters :
    /\ mast[m].refcount = (IF mdev.minor = m THEN 1 ELSE 0)
         + Cardinality({f \in Files : mfile[f].master = m})
         + Cardinality({f \in Files : mfile[f].locked = m})
    /\ mast[m].refcount > 0 => mast[m].magiclist \subseteq Open

(* A client runs an ioctl that needs authentication only while its master  *)
(* is the active one: when the master drops or exits, its clients sleep or *)
(* are killed (vmw_master_check, vmw_master_drop, vmw_postclose).          *)
ClientsNeedMaster ==
  \A f \in Open : mfile[f].master # NoMaster /\ mfile[f].pc = "in"
    => mdev.active = mfile[f].master \/ mfile[f].is_master

(* The fifo runs exactly while somebody counts on it: the fbdev outside of *)
(* suspend, else the master, and every resource on the device; and a       *)
(* master finds the SVGA display enabled (vmw_3d_resource_inc and -dec).   *)
ThreeDBalanced ==
  /\ mdev.n3d = Cardinality({f \in Files : mfile[f].res = "hw"})
       + (IF mdev.enable_fb THEN IF mdev.pm \in {"suspended", "asleep", "complete"}
                                 THEN 0 ELSE 1
          ELSE IF mdev.active # Fbdev THEN 1 ELSE 0)
  /\ mdev.fifo = (mdev.n3d > 0)
  /\ mdev.active # Fbdev => ~mdev.hidden \/ mdev.pm # "on"

=============================================================================
