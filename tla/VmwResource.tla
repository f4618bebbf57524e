------------------------------ MODULE VmwResource ------------------------------
(***************************************************************************)
(* Device resources of vmwgfx: contexts, surfaces and shaders, guest-      *)
(* backed (has_mob) or legacy, with their device ids, backup buffers, lru  *)
(* lists, pins and context bindings (vmwgfx_resource.c, vmwgfx_context.c,  *)
(* vmwgfx_surface.c, vmwgfx_shader.c).  VmwExecbuf adds the submissions    *)
(* that use them.                                                          *)
(*                                                                         *)
(* A thread that frees a resource works through a stack of steps: between  *)
(* two steps no mutex protects the resource, and other threads run.  What  *)
(* the code does under binding_mutex, or under cmdbuf_mutex without        *)
(* sleeping, is one step.                                                  *)
(***************************************************************************)
EXTENDS Integers, FiniteSets, Sequences, FiniteSetsExt, SequencesExt

CONSTANTS
  Ctx, Srf, Shd,  \* resources by type
  UserBo,         \* buffers of user-space; every resource has a kernel one
  QueryBo,        \* buffers of user-space for query results
  Threads,
  NumIds,         \* ids the device has of each type, and surfaces that fit
  Scenarios,      \* sets of the resources, buffers and operations in use
  FifoFails,      \* sites where vmw_fifo_reserve may return NULL
  None

Slots == {"rt", "tex", "shader"}
Res == Ctx \cup Srf \cup Shd
Bo == Res \cup UserBo \cup QueryBo

VARIABLES
  env,     \* dev_priv->has_mob, and what user-space uses in this behaviour
  res,     \* struct vmw_resource
  cbs,     \* struct vmw_ctx_binding_state of each context
  dev,     \* the device: objects, the mob of each, the slots of contexts
  drv,     \* counts and flags of struct vmw_private
  lru,     \* dev_priv->res_lru
  lock,    \* owners of cmdbuf_mutex and binding_mutex
  bo,      \* buffers: who reserved them, are they pinned, are they mobs
  man,     \* struct vmw_cmdbuf_res_manager of each context
  todo     \* steps each thread has still to do

resVars == <<env, res, cbs, dev, drv, lru, lock, bo, man, todo>>

hasMob == env.hasMob

kind(r) == IF r \in Ctx THEN "ctx" ELSE IF r \in Srf THEN "srf" ELSE "shd"
Kinds == {"ctx", "srf", "shd"}
Ids == 1..NumIds

NoRes == [kref |-> 0, avail |-> FALSE, id |-> 0, backup |-> None,
          backup_dirty |-> FALSE, res_dirty |-> FALSE, mob |-> FALSE,
          pin |-> 0, handle |-> FALSE, data |-> "none"]

NoBinding == [res |-> None, scrubbed |-> FALSE]

(* The shader its one user key finds, and the entries of the list. *)
NoMan == [hash |-> None, list |-> {}]

(* The part of the state that the functions below transform. *)
World == [res |-> res, cbs |-> cbs, dev |-> dev, drv |-> drv, lru |-> lru]

Become(W) == /\ res' = W.res /\ cbs' = W.cbs /\ dev' = W.dev
             /\ drv' = W.drv /\ lru' = W.lru

ResInit ==
  /\ env \in [hasMob : BOOLEAN, use : Scenarios]
  /\ res = [r \in Res |-> NoRes]
  /\ cbs = [c \in Ctx |-> [s \in Slots |-> NoBinding]]
  /\ dev = [obj |-> {}, mob |-> [k \in Kinds |-> [i \in Ids |-> None]],
            slot |-> [i \in Ids |-> [s \in Slots |-> 0]]]
  /\ drv = [n3d |-> 0, used |-> 0, pinned |-> None, dummy |-> FALSE,
            cid |-> 0, cidValid |-> FALSE]
  /\ lru = [k \in Kinds |-> <<>>]
  /\ lock = [cmdbuf |-> None, binding |-> None]
  /\ bo = [b \in Bo |-> [reserved |-> None, pinned |-> FALSE, mob |-> FALSE]]
  /\ man = [c \in Ctx |-> NoMan]
  /\ todo = [t \in Threads |-> <<>>]

needs_backup(r) == hasMob
may_evict(r) == hasMob \/ r \in Srf

Without(q, r) == SelectSeq(q, LAMBDA x : x # r)
OffLru(W, r) == [W EXCEPT !.lru[kind(r)] = Without(@, r)]

(* The outcomes of a function that calls vmw_fifo_reserve: W with the      *)
(* command, or `failed' where the fifo has no space.                       *)
Emit(site, W, failed) ==
  {[ret |-> "ok", w |-> W]} \cup
  IF site \in FifoFails THEN {[ret |-> "ENOMEM", w |-> failed]} ELSE {}

-----------------------------------------------------------------------------
(* Context bindings, under binding_mutex. *)

BoundTo(W, r) == {b \in Ctx \X Slots : W.cbs[b[1]][b[2]].res = r}
BindingsOf(c) == {c} \X Slots

Scrub(W, B) ==
  LET S == {b \in B : W.cbs[b[1]][b[2]].res # None /\ ~W.cbs[b[1]][b[2]].scrubbed}
  IN [W EXCEPT
       !.cbs = [c \in Ctx |-> [s \in Slots |->
                  IF <<c, s>> \in S THEN [@[c][s] EXCEPT !.scrubbed = TRUE]
                                    ELSE @[c][s]]],
       !.dev.slot = [i \in Ids |-> [s \in Slots |->
                  IF \E c \in Ctx : W.res[c].id = i /\ <<c, s>> \in S
                  THEN 0 ELSE @[i][s]]]]

Drop(W, B) ==
  [W EXCEPT !.cbs = [c \in Ctx |-> [s \in Slots |->
     IF <<c, s>> \in B THEN NoBinding ELSE @[c][s]]]]

Kill(W, B) == Drop(Scrub(W, B), B)

(* vmw_context_rebind_all passes over a resource that has no id. *)
Rebind(W, c) ==
  LET S == {s \in Slots : /\ W.cbs[c][s].scrubbed /\ W.cbs[c][s].res # None
                          /\ W.res[W.cbs[c][s].res].id # 0}
  IN [W EXCEPT
       !.cbs[c] = [s \in Slots |-> IF s \in S THEN [@[s] EXCEPT !.scrubbed = FALSE]
                                   ELSE @[s]],
       !.dev.slot[W.res[c].id] = [s \in Slots |->
          IF s \in S THEN W.res[W.cbs[c][s].res].id ELSE @[s]]]

-----------------------------------------------------------------------------
(* The functions of the resource types.  `data' says where the last        *)
(* contents of a context or surface are: on the device ("hw"), in the      *)
(* backup buffer, or lost.                                                 *)

UsedIds(W, k) == {W.res[r].id : r \in {x \in Res : kind(x) = k}} \ {0}

(* vmw_resource_alloc_id gives the lowest free id; past the device's limit *)
(* the callers release it again and report -EBUSY.                         *)
AllocId(W, r) == {i \in Ids \ UsedIds(W, kind(r)) :
                    \A j \in Ids \ UsedIds(W, kind(r)) : i <= j}

Busy(W) == {[ret |-> "EBUSY", w |-> W]}

Defined(W, r, i) == [W EXCEPT !.res[r].id = i,
                              !.dev.obj = @ \cup {<<kind(r), i>>}]

vmw_gb_context_create(W, r) ==
  IF AllocId(W, r) = {} THEN Busy(W)
  ELSE UNION {Emit("create", [Defined(W, r, i) EXCEPT !.drv.n3d = @ + 1], W) :
                i \in AllocId(W, r)}

vmw_gb_shader_create(W, r) == vmw_gb_context_create(W, r)

(* Counts the surface before it allocates the id, and takes it back. *)
vmw_gb_surface_create(W, r) ==
  LET W1 == [W EXCEPT !.drv.n3d = @ + 1]
      Undo(w) == [w EXCEPT !.drv.n3d = @ - 1]
  IN IF AllocId(W, r) = {} THEN Busy(Undo(W1))
     ELSE UNION {Emit("create", Defined(W1, r, i), Undo(W1)) : i \in AllocId(W, r)}

vmw_legacy_srf_create(W, r) ==
  IF W.drv.used + 1 > NumIds \/ AllocId(W, r) = {} THEN Busy(W)
  ELSE UNION {Emit("create", [Defined(W, r, i) EXCEPT !.drv.used = @ + 1], W) :
                i \in AllocId(W, r)}

create(W, r) ==
  IF W.res[r].id # 0 THEN {[ret |-> "ok", w |-> W]}
  ELSE CASE ~hasMob -> vmw_legacy_srf_create(W, r)
         [] r \in Ctx /\ hasMob -> vmw_gb_context_create(W, r)
         [] r \in Srf /\ hasMob -> vmw_gb_surface_create(W, r)
         [] r \in Shd /\ hasMob -> vmw_gb_shader_create(W, r)

Load(d, dirty) == IF d # "backup" THEN d ELSE IF dirty THEN "hw" ELSE "lost"

MobBound(W, r) == [W EXCEPT !.dev.mob[kind(r)][W.res[r].id] = W.res[r].backup,
                            !.res[r].backup_dirty = FALSE]

(* validContents of the bind command is backup_dirty. *)
vmw_gb_context_bind(W, r) ==
  Emit("bind", [MobBound(W, r) EXCEPT
                  !.res[r].data = Load(@, W.res[r].backup_dirty)], W)

(* An update command follows the bind if the backup is dirty. *)
vmw_gb_surface_bind(W, r) ==
  Emit("bind", [MobBound(W, r) EXCEPT
                  !.res[r].data = Load(@, W.res[r].backup_dirty)], W)

(* The device reads byte code from the mob as it is. *)
vmw_gb_shader_bind(W, r) == Emit("bind", MobBound(W, r), W)

(* Only a dirty backup is copied to the device; it stays dirty. *)
vmw_legacy_srf_bind(W, r) ==
  IF ~W.res[r].backup_dirty
  THEN {[ret |-> "ok", w |-> [W EXCEPT !.res[r].data = Load(@, FALSE)]]}
  ELSE Emit("bind", [W EXCEPT !.res[r].data = Load(@, TRUE)], W)

bind(W, r) ==
  CASE ~hasMob -> vmw_legacy_srf_bind(W, r)
    [] r \in Ctx /\ hasMob -> vmw_gb_context_bind(W, r)
    [] r \in Srf /\ hasMob -> vmw_gb_surface_bind(W, r)
    [] r \in Shd /\ hasMob -> vmw_gb_shader_bind(W, r)

Save(d, readback) == IF d # "hw" THEN d ELSE IF readback THEN "backup" ELSE "lost"

MobUnbound(W, r, readback) ==
  [W EXCEPT !.dev.mob[kind(r)][W.res[r].id] = None,
            !.res[r].data = Save(@, readback)]

(* The context's bindings are scrubbed whether or not the command fits. *)
vmw_gb_context_unbind(W, r, readback) ==
  LET W1 == Scrub(W, BindingsOf(r)) IN Emit("unbind", MobUnbound(W1, r, readback), W1)

vmw_gb_surface_unbind(W, r, readback) ==
  Emit("unbind", MobUnbound(W, r, readback), W)

vmw_gb_shader_unbind(W, r, readback) ==
  Emit("unbind", [W EXCEPT !.dev.mob["shd"][W.res[r].id] = None], W)

vmw_legacy_srf_unbind(W, r, readback) ==
  IF readback THEN Emit("unbind", [W EXCEPT !.res[r].data = Save(@, TRUE)], W)
              ELSE {[ret |-> "ok", w |-> W]}

unbind(W, r, readback) ==
  CASE ~hasMob -> vmw_legacy_srf_unbind(W, r, readback)
    [] r \in Ctx /\ hasMob -> vmw_gb_context_unbind(W, r, readback)
    [] r \in Srf /\ hasMob -> vmw_gb_surface_unbind(W, r, readback)
    [] r \in Shd /\ hasMob -> vmw_gb_shader_unbind(W, r, readback)

Undefined(W, r) ==
  LET i == W.res[r].id IN
  [W EXCEPT !.res[r].data = Save(@, FALSE),
            !.dev.obj = @ \ {<<kind(r), i>>},
            !.dev.mob[kind(r)][i] = None,
            !.dev.slot = IF r \in Ctx
                         THEN [@ EXCEPT ![i] = [s \in Slots |-> 0]] ELSE @]

vmw_resource_release_id(W, r) == [W EXCEPT !.res[r].id = 0]

(* The pinned query buffer loses the context that its barrier would use. *)
vmw_gb_context_destroy(W, r) ==
  IF W.res[r].id = 0 THEN {[ret |-> "ok", w |-> W]}
  ELSE LET W1 == [Undefined(W, r) EXCEPT
                    !.drv.cidValid = @ /\ W.drv.cid # W.res[r].id,
                    !.drv.n3d = @ - 1]
       IN Emit("destroy", vmw_resource_release_id(W1, r), W)

(* Seeded fault: the device keeps the bindings to an evicted surface. *)
vmw_gb_surface_destroy_NoScrub(W, r) ==
  IF W.res[r].id = 0 THEN {[ret |-> "ok", w |-> W]}
  ELSE Emit("destroy", [Undefined(W, r) EXCEPT !.drv.n3d = @ - 1], W)

(* Bindings to the surface are scrubbed before the device forgets it. *)
vmw_gb_surface_destroy(W, r) ==
  IF W.res[r].id = 0 THEN {[ret |-> "ok", w |-> W]}
  ELSE LET W1 == Scrub(W, BoundTo(W, r))
       IN Emit("destroy", [Undefined(W1, r) EXCEPT !.drv.n3d = @ - 1], W1)

vmw_gb_shader_destroy(W, r) == vmw_gb_surface_destroy(W, r)

vmw_legacy_srf_destroy(W, r) ==
  IF W.res[r].id = 0 THEN {[ret |-> "ok", w |-> W]}
  ELSE Emit("destroy", vmw_resource_release_id(
              [Undefined(W, r) EXCEPT !.drv.used = @ - 1], r), W)

(* destroy of struct vmw_res_func, with the release of the id at its end. *)
destroy(W, r) ==
  CASE ~hasMob -> vmw_legacy_srf_destroy(W, r)
    [] r \in Ctx /\ hasMob -> vmw_gb_context_destroy(W, r)
    [] r \notin Ctx /\ hasMob ->
         {IF o.ret = "ok" THEN [o EXCEPT !.w = vmw_resource_release_id(o.w, r)] ELSE o :
            o \in vmw_gb_surface_destroy(W, r)}

-----------------------------------------------------------------------------
(* Validation and eviction, under cmdbuf_mutex. *)

vmw_resource_do_validate(W, r) ==
  LET BindNow(w) == /\ w.res[r].backup # None
                    /\ needs_backup(r) => ~w.res[r].mob
      Done(w) == [w EXCEPT !.res[r].res_dirty = TRUE]
      Bound(w) ==
        UNION {IF b.ret = "ok"
               THEN {[ret |-> "ok", w |-> Done([b.w EXCEPT !.res[r].mob = needs_backup(r)])]}
               ELSE {[ret |-> b.ret, w |-> d.w] : d \in destroy(b.w, r)} :
               b \in bind(w, r)}
  IN UNION {IF c.ret # "ok" THEN {c}
            ELSE IF BindNow(c.w) THEN Bound(c.w)
            ELSE {[ret |-> "ok", w |-> Done(c.w)]} : c \in create(W, r)}

(* vmw_resource_check_buffer gives a resource a backup buffer to evict to; *)
(* the buffer is free to reserve, see CanReserve.                          *)
vmw_resource_check_buffer(W, r) ==
  [W EXCEPT !.res[r].backup = IF @ = None THEN r ELSE @]

(* Seeded fault: the backup buffer is not marked dirty. *)
vmw_resource_do_evict_Clean(W, r) ==
  LET W1 == vmw_resource_check_buffer(W, r)
      Gone(w) == {[o EXCEPT !.w.res[r].res_dirty = FALSE] : o \in destroy(w, r)}
  IN IF needs_backup(r) /\ ~W.res[r].mob THEN Gone(W1)
     ELSE UNION {IF u.ret # "ok" THEN {u}
                 ELSE Gone([u.w EXCEPT !.res[r].mob = FALSE]) :
                 u \in unbind(W1, r, W.res[r].res_dirty)}

vmw_resource_do_evict(W, r) ==
  LET W1 == vmw_resource_check_buffer(W, r)
      Gone(w) == {[o EXCEPT !.w.res[r].backup_dirty = TRUE,
                            !.w.res[r].res_dirty = FALSE] : o \in destroy(w, r)}
  IN IF needs_backup(r) /\ ~W.res[r].mob THEN Gone(W1)
     ELSE UNION {IF u.ret # "ok" THEN {u}
                 ELSE Gone([u.w EXCEPT !.res[r].mob = FALSE]) :
                 u \in unbind(W1, r, W.res[r].res_dirty)}

(* The buffer a thread reserves to evict r. *)
CanReserve(W, r) == bo[vmw_resource_check_buffer(W, r).res[r].backup].reserved = None

(* One turn of the loop in vmw_resource_validate: validate, or evict the   *)
(* first resource of the type, holding a reference to it, and report       *)
(* -EAGAIN.                                                                *)
vmw_resource_validate(W, r) ==
  LET Legacy(w) == IF needs_backup(r) THEN w ELSE [w EXCEPT !.res[r].backup = None]
      First == Head(W.lru[kind(r)])
      Held(o) == [o.w EXCEPT !.res[First].kref = @ + 1,
                             !.lru[kind(r)] = IF o.ret = "ok" THEN @ ELSE Append(@, First)]
  IN IF ~may_evict(r) THEN {[ret |-> "ok", w |-> W]}
     ELSE UNION {IF v.ret = "ok" THEN {[v EXCEPT !.w = Legacy(v.w)]}
                 ELSE IF v.ret # "EBUSY" \/ W.lru[kind(r)] = <<>> THEN {v}
                 ELSE {[ret |-> "EAGAIN", w |-> Held(o)] :
                         o \in vmw_resource_do_evict(OffLru(v.w, First), First)} :
                 v \in vmw_resource_do_validate(W, r)}

vmw_resource_reserve(W, r, no_backup) ==
  LET W1 == OffLru(W, r) IN
  IF needs_backup(r) /\ W.res[r].backup = None /\ ~no_backup
  THEN [W1 EXCEPT !.res[r].backup = r] ELSE W1

OnLru(W, r) == \E i \in DOMAIN W.lru[kind(r)] : W.lru[kind(r)][i] = r

(* Seeded fault: a pinned resource goes back on the lru list. *)
vmw_resource_unreserve_IgnoresPin(W, r, new_backup) ==
  LET W1 == IF new_backup \in {None, W.res[r].backup} THEN W
            ELSE [W EXCEPT !.res[r].backup = new_backup, !.res[r].mob = TRUE]
  IN IF OnLru(W, r) THEN W
     ELSE IF ~may_evict(r) \/ W.res[r].id = 0 THEN W1
     ELSE [W1 EXCEPT !.lru[kind(r)] = Append(@, r)]

vmw_resource_unreserve(W, r, new_backup) ==
  LET W1 == IF new_backup \in {None, W.res[r].backup} THEN W
            ELSE [W EXCEPT !.res[r].backup = new_backup, !.res[r].mob = TRUE]
  IN IF OnLru(W, r) THEN W
     ELSE IF ~may_evict(r) \/ W.res[r].id = 0 \/ W.res[r].pin > 0 THEN W1
     ELSE [W1 EXCEPT !.lru[kind(r)] = Append(@, r)]

-----------------------------------------------------------------------------
(* References and release.  vmw_resource_release runs in the thread that   *)
(* drops the last reference, as the steps below.                           *)

Step(op, r) == [op |-> op, r |-> r]

vmw_resource_unreference(W, r) ==
  LET W1 == [W EXCEPT !.res[r].kref = @ - 1]
  IN IF W.res[r].kref > 1 THEN W1
     ELSE [OffLru(W1, r) EXCEPT !.res[r].avail = FALSE]

vmw_resource_release(r) == <<Step("unbind", r), Step("hw", r), Step("free", r)>>

(* What a thread has to do after it dropped the references in the sequence *)
(* q, of a world W.                                                        *)
Dropped(W, q) ==
  FoldLeft(LAMBDA x, r : [w |-> vmw_resource_unreference(x.w, r),
                          todo |-> IF x.w.res[r].kref > 1 THEN x.todo
                                   ELSE x.todo \o vmw_resource_release(r)],
           [w |-> W, todo |-> <<>>], q)

At(t, op) == todo[t] # <<>> /\ Head(todo[t]).op = op
Target(t) == Head(todo[t]).r
Instead(t, steps) ==
  todo' = [todo EXCEPT ![t] = IF @ = <<>> THEN steps ELSE steps \o Tail(@)]
Done(t) == Instead(t, <<>>)
Free(mutex) == lock[mutex] = None

Unref(t) ==
  /\ At(t, "unref")
  /\ LET D == Dropped(World, <<Target(t)>>) IN Become(D.w) /\ Instead(t, D.todo)
  /\ UNCHANGED <<env, lock, bo, man>>

(* The backup buffer is reserved without a sequence number: the thread     *)
(* waits for whoever holds it.                                             *)
ReleaseUnbind(t) ==
  /\ At(t, "unbind")
  /\ LET r == Target(t) b == res[r].backup IN
     /\ b # None => bo[b].reserved = None
     /\ r \in Ctx => Free("binding")
     /\ \E o \in IF b # None /\ res[r].mob THEN unbind(World, r, FALSE)
                 ELSE {[ret |-> "ok", w |-> World]} :
          Become([o.w EXCEPT !.res[r].mob = FALSE, !.res[r].backup = None,
                             !.res[r].backup_dirty = FALSE])
  /\ Done(t)
  /\ UNCHANGED <<env, lock, bo, man>>

(* __vmw_execbuf_release_pinned_bo *)
ReleasePinned(W) ==
  IF W.drv.pinned = None THEN W
  ELSE [W EXCEPT !.drv.pinned = None, !.drv.dummy = FALSE, !.drv.cidValid = FALSE]

(* A guest-backed context first takes cmdbuf_mutex and destroys its        *)
(* manager of compat shaders.                                              *)
vmw_cmdbuf_res_man_destroy(t) ==
  /\ At(t, "hw") /\ hasMob /\ Target(t) \in Ctx
  /\ Free("cmdbuf")
  /\ lock' = [lock EXCEPT !.cmdbuf = t]
  /\ man' = [man EXCEPT ![Target(t)] = NoMan]
  /\ \E s \in man[Target(t)].list \cup {None} :
       /\ s = None => man[Target(t)].list = {}
       /\ Instead(t, (IF s = None THEN <<>> ELSE <<Step("unref", s)>>)
                       \o <<Step("ctx", Target(t))>>)
  /\ UNCHANGED <<env, res, cbs, dev, drv, lru, bo>>

vmw_hw_context_destroy(t) ==
  /\ At(t, "ctx") /\ Free("binding")
  /\ LET r == Target(t)
         W1 == Kill(World, BindingsOf(r)) IN
     \E o \in vmw_gb_context_destroy(W1, r) :
       Become(IF ~o.w.drv.cidValid THEN ReleasePinned(o.w) ELSE o.w)
  /\ lock' = [lock EXCEPT !.cmdbuf = None]
  /\ Done(t)
  /\ UNCHANGED <<env, bo, man>>

(* Surfaces and shaders: binding_mutex is dropped before the id is.        *)
HwDestroy(t) ==
  /\ At(t, "hw") /\ hasMob /\ Target(t) \notin Ctx
  /\ res[Target(t)].id # 0 => Free("binding")
  /\ \E o \in vmw_gb_surface_destroy(World, Target(t)) : Become(o.w)
  /\ Instead(t, <<Step("id", Target(t))>>)
  /\ UNCHANGED <<env, lock, bo, man>>

HwReleaseId(t) ==
  /\ At(t, "id")
  /\ Become(vmw_resource_release_id(World, Target(t)))
  /\ Done(t)
  /\ UNCHANGED <<env, lock, bo, man>>

(* A legacy context gives up the pinned query buffer and is destroyed.     *)
LegacyContextDestroy(t) ==
  /\ At(t, "hw") /\ ~hasMob /\ Target(t) \in Ctx
  /\ Free("cmdbuf")
  /\ Become([Undefined(IF drv.cidValid THEN ReleasePinned(World) ELSE World,
                       Target(t)) EXCEPT !.drv.n3d = @ - 1])
  /\ Done(t)
  /\ UNCHANGED <<env, lock, bo, man>>

(* A legacy surface keeps its id until it is freed; the memory it used is  *)
(* given back under cmdbuf_mutex.                                          *)
vmw_hw_surface_destroy(t) ==
  /\ At(t, "hw") /\ ~hasMob /\ Target(t) \in Srf
  /\ IF res[Target(t)].id = 0
     THEN /\ Become([World EXCEPT !.drv.n3d = @ - 1])
          /\ Done(t)
     ELSE /\ Become(Undefined(World, Target(t)))
          /\ Instead(t, <<Step("used", Target(t))>>)
  /\ UNCHANGED <<env, lock, bo, man>>

HwSurfaceUsed(t) ==
  /\ At(t, "used") /\ Free("cmdbuf")
  /\ drv' = [drv EXCEPT !.used = @ - 1, !.n3d = @ - 1]
  /\ Done(t)
  /\ UNCHANGED <<env, res, cbs, dev, lru, lock, bo, man>>

(* The bindings that are left are killed, and the resource freed. *)
vmw_context_binding_res_list_kill(W, r) == Kill(W, BoundTo(W, r))

res_free(t) ==
  /\ At(t, "free") /\ Free("binding")
  /\ Become([vmw_context_binding_res_list_kill(World, Target(t))
               EXCEPT !.res[Target(t)] = NoRes])
  /\ Done(t)
  /\ UNCHANGED <<env, lock, bo, man>>

(* vmw_execbuf_process unlocks cmdbuf_mutex before it drops references. *)
Unlock(t) ==
  /\ At(t, "unlock")
  /\ lock' = [lock EXCEPT !.cmdbuf = None]
  /\ Done(t)
  /\ UNCHANGED <<env, res, cbs, dev, drv, lru, bo, man>>

Releasing(t) ==
  \/ Unref(t) \/ ReleaseUnbind(t) \/ vmw_cmdbuf_res_man_destroy(t)
  \/ vmw_hw_context_destroy(t) \/ HwDestroy(t) \/ HwReleaseId(t)
  \/ LegacyContextDestroy(t) \/ vmw_hw_surface_destroy(t) \/ HwSurfaceUsed(t)
  \/ res_free(t) \/ Unlock(t)

-----------------------------------------------------------------------------
(* Handles.  A resource that user-space defines has one reference, of its  *)
(* handle; the reference of the constructor is dropped before it returns.  *)

Idle(t) == todo[t] = <<>>

(* Freed: memory of the resource may be used again. *)
Unused(r) == res[r] = NoRes /\ \A t \in Threads :
               \A i \in DOMAIN todo[t] : todo[t][i].r # r

vmw_resource_init(r, backup) ==
  [NoRes EXCEPT !.kref = 1, !.avail = TRUE, !.handle = TRUE, !.backup = backup]

vmw_gb_context_init(r) == [World EXCEPT !.res[r] = vmw_resource_init(r, None)]

(* A legacy context gets its id and is defined at once. *)
vmw_context_init(W, r) ==
  IF hasMob THEN {vmw_gb_context_init(r)}
  ELSE {[Defined([W EXCEPT !.res[r] = vmw_resource_init(r, None)], r, i)
           EXCEPT !.drv.n3d = @ + 1] : i \in AllocId(W, r)}

vmw_context_define_ioctl(t) ==
  /\ Idle(t)
  /\ \E r \in Ctx \cap env.use : Unused(r) /\ \E W \in vmw_context_init(World, r) : Become(W)
  /\ UNCHANGED <<env, lock, bo, man, todo>>

vmw_surface_init(W, r, backup) ==
  [W EXCEPT !.res[r] = vmw_resource_init(r, backup),
            !.drv.n3d = IF hasMob THEN @ ELSE @ + 1]

vmw_surface_define_ioctl(t) ==
  /\ Idle(t) /\ ~hasMob
  /\ \E r \in Srf \cap env.use : Unused(r) /\ Become(vmw_surface_init(World, r, None))
  /\ UNCHANGED <<env, lock, bo, man, todo>>

(* With a buffer of the caller; one that the ioctl creates is like the one *)
(* the first reservation would create.                                     *)
vmw_gb_surface_define_ioctl(t) ==
  /\ Idle(t) /\ hasMob
  /\ \E r \in Srf \cap env.use : \E backup \in (UserBo \cap env.use) \cup {None} :
       Unused(r) /\ Become(vmw_surface_init(World, r, backup))
  /\ UNCHANGED <<env, lock, bo, man, todo>>

vmw_gb_shader_init(W, r, byte_code) ==
  [W EXCEPT !.res[r] = vmw_resource_init(r, byte_code)]

vmw_shader_define_ioctl(t) ==
  /\ Idle(t) /\ hasMob
  /\ \E r \in Shd \cap env.use : \E byte_code \in UserBo \cap env.use :
       Unused(r) /\ Become(vmw_gb_shader_init(World, r, byte_code))
  /\ UNCHANGED <<env, lock, bo, man, todo>>

(* The handle's reference goes, from a destroy ioctl or the closing file. *)
BaseRelease(t, R) ==
  /\ Idle(t)
  /\ \E r \in R :
       /\ res[r].handle
       /\ LET D == Dropped([World EXCEPT !.res[r].handle = FALSE], <<r>>) IN
          Become(D.w) /\ Instead(t, D.todo)
  /\ UNCHANGED <<env, lock, bo, man>>

vmw_user_context_base_release(t) == BaseRelease(t, Ctx)
vmw_user_surface_base_release(t) == BaseRelease(t, Srf)
vmw_user_shader_base_release(t) == BaseRelease(t, Shd)

-----------------------------------------------------------------------------
(* Eviction of everything, pins, and moves of backup buffers by TTM. *)

vmw_resource_evict_all(t) ==
  /\ Idle(t) /\ Free("cmdbuf") /\ "evict" \in env.use
  /\ lock' = [lock EXCEPT !.cmdbuf = t]
  /\ todo' = [todo EXCEPT ![t] = <<Step("evict", None)>>]
  /\ UNCHANGED <<env, res, cbs, dev, drv, lru, bo, man>>

Evictable == {k \in Kinds : lru[k] # <<>>}
EvictOrder == [ctx |-> 1, srf |-> 2, shd |-> 3]

(* The loop keeps a reference while it evicts, under cmdbuf_mutex. *)
vmw_resource_evict_type(t) ==
  /\ At(t, "evict") /\ Evictable # {} /\ Free("binding")
  /\ \E k \in Evictable :
       /\ \A j \in Evictable : EvictOrder[k] <= EvictOrder[j]
       /\ LET r == Head(lru[k]) IN
          /\ CanReserve(World, r)
          /\ \E o \in vmw_resource_do_evict(OffLru(World, r), r) :
               /\ o.ret = "ok"
               /\ Become([o.w EXCEPT !.res[r].kref = @ + 1])
          /\ Instead(t, <<Step("unref", r), Step("evict", None)>>)
  /\ UNCHANGED <<env, lock, bo, man>>

EvictAllDone(t) ==
  /\ At(t, "evict") /\ Evictable = {}
  /\ lock' = [lock EXCEPT !.cmdbuf = None]
  /\ Done(t)
  /\ UNCHANGED <<env, res, cbs, dev, drv, lru, bo, man>>

(* The caller, the kms code, holds a reference of its own for the pin. *)
vmw_resource_pin(t, r) ==
  /\ Idle(t) /\ Free("cmdbuf") /\ "pin" \in env.use
  /\ res[r].handle /\ res[r].pin = 0
  /\ LET W == vmw_resource_reserve(World, r, FALSE)
         b == W.res[r].backup IN
     /\ b # None => bo[b].reserved = None
     /\ Become([W EXCEPT !.res[r].kref = @ + 1])
     /\ bo' = IF b = None THEN bo
              ELSE [bo EXCEPT ![b] = [reserved |-> t, pinned |-> TRUE, mob |-> hasMob]]
  /\ lock' = [lock EXCEPT !.cmdbuf = t]
  /\ todo' = [todo EXCEPT ![t] = <<Step("pin", r)>>]
  /\ UNCHANGED <<env, man>>

Unreserved(b, owner) ==
  [x \in Bo |-> IF b[x].reserved = owner THEN [b[x] EXCEPT !.reserved = None] ELSE b[x]]

(* A validation that evicts waits for the buffer of what it evicts. *)
CanValidate(W, r) ==
  /\ Free("binding")
  /\ W.lru[kind(r)] # <<>> => CanReserve(W, Head(W.lru[kind(r)])) 

(* The buffer stays pinned when the validation fails. *)
PinValidate(t) ==
  /\ At(t, "pin")
  /\ LET r == Target(t) IN
     /\ CanValidate(World, r)
     /\ \E v \in vmw_resource_validate(World, r) :
          IF v.ret = "EAGAIN"
          THEN /\ Become(v.w)
               /\ Instead(t, <<Step("unref", Head(lru[kind(r)])), Step("pin", r)>>)
               /\ UNCHANGED <<bo, lock>>
          ELSE /\ LET D == IF v.ret = "ok"
                          THEN Dropped([v.w EXCEPT !.res[r].pin = @ + 1], <<>>)
                          ELSE Dropped(vmw_resource_unreserve(v.w, r, None), <<r>>)
                  IN Become(D.w) /\ Instead(t, D.todo)
               /\ bo' = Unreserved(bo, t)
               /\ lock' = [lock EXCEPT !.cmdbuf = None]
  /\ UNCHANGED <<env, man>>

vmw_resource_unpin(t, r) ==
  /\ Idle(t) /\ Free("cmdbuf")
  /\ res[r].pin > 0
  /\ LET b == res[r].backup IN
     /\ b # None => bo[b].reserved = None
     /\ LET D == Dropped(vmw_resource_unreserve(
                   [vmw_resource_reserve(World, r, TRUE) EXCEPT !.res[r].pin = @ - 1],
                   r, None), <<r>>) IN
        Become(D.w) /\ Instead(t, D.todo)
     /\ bo' = IF b = None THEN bo ELSE [bo EXCEPT ![b].pinned = FALSE]
  /\ UNCHANGED <<env, lock, man>>

(* TTM, having reserved the buffer, moves it out of mob memory. *)
UnbindAll(W, R) ==
  FoldSet(LAMBDA r, Ws :
            {[o.w EXCEPT !.res[r].backup_dirty = TRUE, !.res[r].res_dirty = FALSE,
                         !.res[r].mob = FALSE] : o \in UNION {unbind(w, r, TRUE) : w \in Ws}},
          {W}, R)

vmw_resource_move_notify(b) ==
  /\ "move" \in env.use /\ bo[b].mob /\ ~bo[b].pinned /\ bo[b].reserved = None
  /\ LET R == {r \in Res : res[r].mob /\ res[r].backup = b} IN
     /\ R \cap Ctx # {} => Free("binding")
     /\ \E W \in UnbindAll(World, R) : Become(W)
  /\ bo' = [bo EXCEPT ![b].mob = FALSE]
  /\ UNCHANGED <<env, lock, man, todo>>

Other(t) ==
  \/ vmw_context_define_ioctl(t) \/ vmw_surface_define_ioctl(t)
  \/ vmw_gb_surface_define_ioctl(t) \/ vmw_shader_define_ioctl(t)
  \/ vmw_user_context_base_release(t) \/ vmw_user_surface_base_release(t)
  \/ vmw_user_shader_base_release(t)
  \/ vmw_resource_evict_all(t) \/ vmw_resource_evict_type(t) \/ EvictAllDone(t)
  \/ \E r \in Srf : vmw_resource_pin(t, r) \/ vmw_resource_unpin(t, r)
  \/ PinValidate(t)
=============================================================================
