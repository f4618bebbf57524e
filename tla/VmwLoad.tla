-------------------------------- MODULE VmwLoad --------------------------------
(***************************************************************************)
(* Loading and unloading: the module, the drm core, the device and the     *)
(* driver's own set-up, with the unwinding of every step that can fail     *)
(* (vmwgfx_drv.c, drm_drv.c, drm_stub.c, vmwgfx_ttm_glue.c, the start and  *)
(* the end of kms, overlay, fbdev, ttm and irq).                           *)
(*                                                                         *)
(* What a function sets up is the name of a thing that is held until it is *)
(* released.  A function is an operator from a world to its outcomes, and  *)
(* the label a failure jumps to is an operator of its own.  Releasing what *)
(* is not held is recorded as bad: it is a double free, the unlock of a    *)
(* mutex nobody has, or the takedown of what never was set up.             *)
(***************************************************************************)
EXTENDS Integers, Sequences, FiniteSets, SequencesExt

CONSTANTS
  LoadFaults,  \* the things whose set-up may fail
  Taken        \* minor numbers that the kernel's own drm may have named

VARIABLES
  load         \* what is held, the device's abilities, and the stage

MinorTypes == {"legacy", "control", "render"}
NoMinor == [id |-> -1, has |-> {}]

Unloaded == [module |-> FALSE, dev |-> "none", held |-> {}, bad |-> FALSE, names |-> {},
             minor |-> [t \in MinorTypes |-> NoMinor],
             caps |-> {}]

LoadInit == \E names \in SUBSET Taken : load = [Unloaded EXCEPT !.names = names]

Ok(W) == [ok |-> TRUE, w |-> W]
Failed(W) == [ok |-> FALSE, w |-> W]

Held(W, things) == W.held \cap things
Put(W, things) == [W EXCEPT !.held = @ \ things, !.bad = @ \/ ~(things \subseteq W.held)]

(* A step that holds the thing, or fails. *)
Get(W, thing) ==
  {Ok([W EXCEPT !.held = @ \cup {thing}])}
    \cup (IF thing \in LoadFaults THEN {Failed(W)} ELSE {})

(* A test of the device, which holds nothing. *)
Check(W, what) == {Ok(W)} \cup (IF what \in LoadFaults THEN {Failed(W)} ELSE {})

(* The next step of a function, and the label it goes to when it fails. *)
Do(S, Step(_), label(_)) ==
  UNION {IF ~o.ok THEN {o}
         ELSE {IF p.ok THEN p ELSE Failed(label(p.w)) : p \in Step(o.w)} : o \in S}

(* A step whose failure nobody looks at. *)
Ignore(S) == {Ok(o.w) : o \in S}
Nothing(W) == W

(* Things set up in order, where each failure releases the ones before. *)
Steps(W, things) ==
  FoldLeft(LAMBDA S, i : Do(S, LAMBDA V : Get(V, things[i]),
                            LAMBDA V : Put(V, {things[j] : j \in 1..(i - 1)})),
           {Ok(W)}, [i \in 1..Len(things) |-> i])

-----------------------------------------------------------------------------
(* The module and the drm core. *)

drm_core_exit(W) == Put(W, {"proc_root", "debugfs_root", "chrdev"})

(* Every failure unregisters the character device at err_p1 once more. *)
drm_core_init(W) ==
  LET err_p1(V) == Put(V, {"chrdev"})
      err_p3(V) == err_p1(Put(V, {"chrdev"}))
      err_p4(V) == err_p3(Put(V, {"proc_root"}))
      S1 == Do({Ok(W)}, LAMBDA V : Get(V, "chrdev"), err_p1)
      S2 == Do(S1, LAMBDA V : Get(V, "proc_root"), err_p3)
  IN Do(S2, LAMBDA V : Get(V, "debugfs_root"), err_p4)

ttm_init(W) == Get(W, "ttm_class")
ttm_exit(W) == Put(W, {"ttm_class"})

-----------------------------------------------------------------------------
(* Minors.  Numbers that the kernel's drm has named are passed over.       *)

Numbers(type) == CASE type = "legacy" -> <<0, 63>>
                   [] type = "control" -> <<64, 191>>
                   [] type = "render" -> <<128, 383>>

drm_minor_get_id(W, type) ==
  LET lo == Numbers(type)[1]
      used == W.names \cup {W.minor[t].id : t \in MinorTypes}
      free == {i \in lo..(lo + Cardinality(used)) : i \notin used}
      id == CHOOSE i \in free : \A j \in free : i <= j
  IN IF id >= Numbers(type)[2] THEN -1 ELSE id

MinorGet(W, type, part) ==
  {Ok([W EXCEPT !.minor[type].has = @ \cup {part}])}
    \cup (IF part \in LoadFaults THEN {Failed(W)} ELSE {})

(* A failure leaves the device in sysfs. *)
drm_get_minor(W, type) ==
  LET id == drm_minor_get_id(W, type)
      V == [W EXCEPT !.minor[type] = [id |-> id, has |-> {"sysfs"}]]
      err_mem(U) == [U EXCEPT !.minor[type].id = -1]
      err_g2(U) == err_mem([U EXCEPT !.minor[type].has = @ \ {"proc"}])
      S1 == IF type = "legacy" THEN Do({Ok(V)}, LAMBDA U : MinorGet(U, type, "proc"), err_mem)
            ELSE {Ok(V)}
  IN IF id = -1 THEN {Failed(W)}
     ELSE Do(S1, LAMBDA U : MinorGet(U, type, "debugfs"), err_g2)

drm_put_minor(W, type) ==
  [W EXCEPT !.minor[type] = NoMinor, !.bad = @ \/ W.minor[type].id = -1]

-----------------------------------------------------------------------------
(* Ttm's globals and its buffer device. *)

(* The page allocator is taken down even where it never was set up. *)
ttm_mem_global_release(W) ==
  Put(W, {"page_alloc", "swap_queue", "mem_kobj"} \cup Held(W, {"zone_kernel", "zone_dma32"}))

ttm_mem_global_init(W) ==
  LET V == [W EXCEPT !.held = @ \cup {"swap_queue"}]
      S1 == Get(V, "mem_kobj")
      S2 == Do(S1, LAMBDA U : Get(U, "zone_kernel"), ttm_mem_global_release)
      S3 == Do(S2, LAMBDA U : Get(U, "zone_dma32"), ttm_mem_global_release)
  IN Do(S3, LAMBDA U : Get(U, "page_alloc"), Nothing)

ttm_bo_global_init(W) == Steps(W, <<"dummy_read_page", "shrink", "bo_kobj">>)
ttm_bo_global_release(W) == Put(W, {"dummy_read_page", "shrink", "bo_kobj"})

vmw_ttm_global_init(W) ==
  Do(ttm_mem_global_init(W), ttm_bo_global_init, ttm_mem_global_release)

vmw_ttm_global_release(W) == ttm_mem_global_release(ttm_bo_global_release(W))

ttm_bo_device_init(W) == Get(W, "bdev")

(* Managers still there are cleaned as well. *)
Managers == {"vram", "gmr", "mob"}
ttm_bo_device_release(W) == Put(W, {"bdev"} \cup Held(W, Managers))

-----------------------------------------------------------------------------
(* Kms, overlay, fbdev and interrupts. *)

drm_vblank_cleanup(W) == Put(W, Held(W, {"vblank"}))
drm_vblank_init(W) == Get(W, "vblank")

DisplaySystem(W, priv) ==
  LET err_free(V) == Put(V, {priv})
      S1 == Do(Get(W, priv), drm_vblank_init, err_free)
  IN Do(S1, LAMBDA V : Check(V, "dirty_info"), LAMBDA V : err_free(drm_vblank_cleanup(V)))

vmw_kms_init_screen_object_display(W) ==
  IF "screen_object" \in W.caps THEN DisplaySystem(W, "sou_priv") ELSE {Failed(W)}

vmw_kms_init_legacy_display_system(W) == DisplaySystem(W, "ldu_priv")

vmw_kms_close_screen_object_display(W) == Put(drm_vblank_cleanup(W), {"sou_priv"})

vmw_kms_close_legacy_display_system(W) ==
  IF "ldu_priv" \in W.held THEN Put(drm_vblank_cleanup(W), {"ldu_priv"}) ELSE W

(* A device without any display system is no failure. *)
vmw_kms_init(W) ==
  LET V == [W EXCEPT !.held = @ \cup {"mode_config"}] IN
  UNION {IF o.ok THEN {o} ELSE Ignore(vmw_kms_init_legacy_display_system(o.w)) :
           o \in vmw_kms_init_screen_object_display(V)}

vmw_kms_close(W) ==
  LET V == Put(W, {"mode_config"}) IN
  IF "sou_priv" \in V.held THEN vmw_kms_close_screen_object_display(V)
  ELSE vmw_kms_close_legacy_display_system(V)

vmw_overlay_init(W) == Ignore(Get(W, "overlay"))
vmw_overlay_close(W) == Put(W, Held(W, {"overlay"}))

FbThings == <<"fb_info", "fb_vmalloc", "fb_bo", "fb_kmap", "fb_defio", "fb_registered">>
vmw_fb_init(W) == Ignore(Steps(W, FbThings))
vmw_fb_close(W) ==
  IF "fb_info" \in W.held THEN Put(W, {FbThings[i] : i \in DOMAIN FbThings}) ELSE W

drm_irq_install(W) == IF "irqmask" \in W.caps THEN Get(W, "irq") ELSE {Ok(W)}
drm_irq_uninstall(W) == IF "irqmask" \in W.caps THEN Put(W, {"irq"}) ELSE W

-----------------------------------------------------------------------------
(* The driver. *)

(* Regions, or where vesafb has them, the one with the fifo. *)
Regions(W) == UNION {IF o.ok THEN {o} ELSE Get(o.w, "region2") : o \in Get(W, "regions")}
ReleaseRegions(W) ==
  IF "region2" \in W.held THEN Put(W, {"region2"}) ELSE Put(W, {"regions"})

Manager(S, type, wanted) ==
  IF wanted THEN Ignore(UNION {Get(o.w, type) : o \in {p \in S : p.ok}}) \cup {p \in S : ~p.ok}
  ELSE S

out_err0(W) == Put(W, {"dev_priv"})
out_err1(W) == out_err0(vmw_ttm_global_release(W))
out_err3(W) == out_err1(ttm_bo_device_release(Put(W, {"mtrr"})))
out_err4(W) == out_err3(Put(W, {"mmio"}))
out_no_device(W) == out_err4(Put(W, {"tdev"}))
out_no_irq(W) == out_no_device(ReleaseRegions(W))
out_no_fman(W) == out_no_irq(drm_irq_uninstall(W))
out_no_vram(W) == out_no_fman(Put(W, {"fman"}))

out_no_kms(W) == out_no_vram(Put(W, {"vga", "vram"} \cup Held(W, {"gmr", "mob"})))
out_no_fifo(W) == out_no_kms(vmw_kms_close(vmw_overlay_close(W)))

(* Without a fence manager the error code is the zero of the step before. *)
vmw_driver_load(W) ==
  LET S0 == Get(W, "dev_priv")
      S1 == Do(S0, LAMBDA V : Check(V, "svga_id"), out_err0)
      S2 == Do(S1, vmw_ttm_global_init, out_err0)
      S3 == Do(S2, ttm_bo_device_init, out_err1)
      S4 == Do(S3, LAMBDA V : Get([V EXCEPT !.held = @ \cup {"mtrr"}], "mmio"), out_err3)
      S5 == Do(S4, LAMBDA V : Check(V, "pitchlock"), out_err4)
      S6 == Do(S5, LAMBDA V : Get(V, "tdev"), out_err4)
      S7 == Do(S6, Regions, out_no_device)
      S8 == Do(S7, drm_irq_install, out_no_irq)
      NoFman == {Ok(out_no_fman(o.w)) : o \in {p \in S8 : p.ok /\ "fman" \in LoadFaults}}
      S9 == {IF o.ok THEN Ok([o.w EXCEPT !.held = @ \cup {"fman"}]) ELSE o : o \in S8}
      S10 == Do(S9, LAMBDA V : Get(V, "vram"), out_no_vram)
      S11 == Manager(Manager(S10, "gmr", "gmr" \in W.caps), "mob", "gbobjects" \in W.caps)
      S12 == Do(S11, LAMBDA V : vmw_kms_init([V EXCEPT !.held = @ \cup {"vga"}]), out_no_kms)
      S13 == Do(S12, vmw_overlay_init, Nothing)
      S14 == IF "fbdev" \notin W.caps THEN S13
             ELSE Do(Do(S13, LAMBDA V : Get(V, "3d"), out_no_fifo), vmw_fb_init, Nothing)
  IN NoFman \cup {IF o.ok THEN Ok([o.w EXCEPT !.held = @ \cup {"pm_nb"}]) ELSE o : o \in S14}

(* Seeded fault: the fbdev keeps its reference to the device's 3D. *)
vmw_driver_unload_Keeps3d(W) ==
  LET V1 == Put(W, {"pm_nb"})
      V3 == vmw_overlay_close(vmw_kms_close(vmw_fb_close(V1)))
      V4 == Put(V3, {"vram", "fman"} \cup Held(V3, {"gmr", "mob"}))
      V5 == ReleaseRegions(drm_irq_uninstall(V4))
      V6 == Put(V5, {"tdev", "mmio", "mtrr", "vga"})
  IN Put(vmw_ttm_global_release(ttm_bo_device_release(V6)), {"dev_priv"})

(* The saved state of the vga is memory of dev_priv. *)
vmw_driver_unload(W) ==
  LET V1 == Put(W, {"pm_nb"})
      V2 == IF "fbdev" \in W.caps THEN Put(vmw_fb_close(V1), {"3d"}) ELSE V1
      V3 == vmw_overlay_close(vmw_kms_close(V2))
      V4 == Put(V3, {"vram", "fman"} \cup Held(V3, {"gmr", "mob"}))
      V5 == ReleaseRegions(drm_irq_uninstall(V4))
      V6 == Put(V5, {"tdev", "mmio", "mtrr", "vga"})
  IN Put(vmw_ttm_global_release(ttm_bo_device_release(V6)), {"dev_priv"})

-----------------------------------------------------------------------------
(* The device. *)

drm_fill_in_dev(W) ==
  {IF o.ok THEN Ok([o.w EXCEPT !.held = @ \cup {"ctx_idr"}]) ELSE o : o \in Get(W, "map_hash")}

drm_mode_group_init_legacy_group(W) == Get(W, "id_list")

drm_get_dev(W) ==
  LET err_g1(V) == Put(V, {"dev", "global_mutex"})
      err_g2(V) == err_g1(Put(V, {"pci_enabled"}))
      err_g3(V) == err_g2(drm_put_minor(V, "control"))
      no_render(V) == err_g3(drm_put_minor(V, "legacy"))
      err_g4(V) == no_render(drm_put_minor(V, "render"))
      S1 == Do(Get(W, "dev"), LAMBDA V : Get(V, "pci_enabled"), err_g1)
      S2 == Do(S1, LAMBDA V : drm_fill_in_dev([V EXCEPT !.held = @ \cup {"global_mutex"}]), err_g2)
      S3 == Do(S2, LAMBDA V : drm_get_minor(V, "control"), err_g2)
      S4 == Do(S3, LAMBDA V : drm_get_minor(V, "legacy"), err_g3)
      S5 == Do(S4, LAMBDA V : drm_get_minor(V, "render"), no_render)
      S6 == Do(S5, vmw_driver_load, err_g4)
      S7 == Do(S6, drm_mode_group_init_legacy_group, err_g4)
  IN {IF o.ok THEN Ok(Put(o.w, {"global_mutex"})) ELSE o : o \in S7}

drm_put_dev(W) ==
  LET V1 == vmw_driver_unload(drm_vblank_cleanup(W))
      V2 == Put(V1, {"map_hash", "ctx_idr"})
      V3 == drm_put_minor(drm_put_minor(drm_put_minor(V2, "control"), "render"), "legacy")
  IN Put(V3, {"dev"})

-----------------------------------------------------------------------------
Abilities == {"irqmask", "gmr", "gbobjects", "screen_object", "fbdev"}

(* The kernel finds a device for the driver; where the driver refuses it,  *)
(* it may be offered again.                                                *)
vmw_probe ==
  /\ load.module /\ load.dev = "none"
  /\ \E caps \in SUBSET Abilities : \E o \in drm_get_dev([load EXCEPT !.caps = caps]) :
       load' = IF o.ok THEN [o.w EXCEPT !.dev = "bound"]
               ELSE [o.w EXCEPT !.dev = "refused"]

vmw_remove(W) == [drm_put_dev(Put(W, {"pci_enabled"})) EXCEPT !.dev = "none"]

Unplug == load.dev = "bound" /\ load' = vmw_remove(load)
Offer == load.dev = "refused" /\ load' = [load EXCEPT !.dev = "none"]

(* drm_init of a kms driver registers it; what vmw_probe says of a device  *)
(* does not matter.                                                        *)
drm_init(W) == Get(W, "pci_driver")

drm_exit(W) ==
  Put(IF W.dev = "bound" THEN vmw_remove(W) ELSE [W EXCEPT !.dev = "none"], {"pci_driver"})

vmwgfx_init ==
  /\ ~load.module
  /\ LET S == Do(Do(drm_core_init(load), ttm_init, drm_core_exit), drm_init,
                 LAMBDA V : drm_core_exit(ttm_exit(V)))
     IN \E o \in S : load' = [o.w EXCEPT !.module = o.ok]

vmwgfx_exit ==
  /\ load.module
  /\ load' = [drm_core_exit(ttm_exit(drm_exit(load))) EXCEPT !.module = FALSE]

LoadNext == vmwgfx_init \/ vmwgfx_exit \/ vmw_probe \/ Unplug \/ Offer

LoadSpec == LoadInit /\ [][LoadNext]_load

-----------------------------------------------------------------------------
Core == {"map_hash", "ctx_idr", "id_list"}
DriverThings == load.held \ (Core \cup {"chrdev", "proc_root", "debugfs_root", "ttm_class",
                                        "pci_driver"})

(* Whatever step of loading fails and whatever the device can do, what is  *)
(* set up for it is released once and in full when the device is refused   *)
(* or goes, with the tables of the drm core apart (vmw_driver_load,        *)
(* vmw_driver_unload, drm_get_dev, drm_put_dev).                           *)
LoadUnwinds ==
  /\ ~load.bad
  /\ load.dev # "bound" => DriverThings = {} /\ \A t \in MinorTypes : load.minor[t] = NoMinor
=============================================================================
