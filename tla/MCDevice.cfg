\* Files, masters and power: a root process with another root, a render or an
\* unprivileged one; every request of the device may fail.
\* Modes: two display units and framebuffers, one buffer, one video.
\* Console: a column of pixels.  Damage: two screens on a framebuffer of 3 by 2.
\* Loading: every step may fail whose failure the code unwinds.
SPECIFICATION Spec
CONSTANTS
  Idle = Idle
  Files = {f1, f2, f3, f4}
  Masters = {o1, o2}
  Root = {f1, f2}
  Render = {f3}
  Groups = {{f1, f2}, {f1, f3}, {f1, f4}}
  Faults = {"device"}
  NoFile = NoFile
  NoMaster = NoMaster
  Fbdev = Fbdev
  Taken = {0}
  LoadFaults = {"dev", "map_hash", "dev_priv", "svga_id", "bdev", "mmio", "pitchlock",
    "tdev", "regions", "region2", "irq", "vram", "gmr", "mob", "sou_priv", "ldu_priv",
    "vblank", "dirty_info", "overlay", "3d", "fb_info", "fb_vmalloc", "fb_bo",
    "fb_kmap", "fb_registered", "dummy_read_page", "shrink", "bo_kobj",
    "ttm_class", "pci_driver"}
  KFiles = {p}
  Units = {0, 1}
  CursorUnits = {0}
  Fbs = {o1, o2}
  Bufs = {b}
  Videos = {v}
  Sizes = {1, 2}
  Vram = 2
  KmsFaults = {"lockup", "signal"}
  None = None
  XRes = 1
  YRes = 2
  Screens = 2
  FbWidth = 3
  FbHeight = 2
  Clips <- ClipsDef
  Positions <- PositionsDef
  DisplaySizes <- DisplaySizesDef
  Offsets <- OffsetsDef
  Annotations = {TRUE, FALSE}
SYMMETRY Sym
INVARIANTS MasterRefs    
   
