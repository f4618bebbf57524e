------------------------------ MODULE VmwExecbuf ------------------------------
(***************************************************************************)
(* Command submission (vmwgfx_execbuf.c): the command verifier with its    *)
(* resource and buffer lists, validation, the fifo commit with the         *)
(* bindings it transfers, the query buffer, the staged compat shaders of   *)
(* vmwgfx_cmdbuf_res.c and the unwinding of a submission that fails.       *)
(*                                                                         *)
(* dev_priv->ctx, the software context, is protected by cmdbuf_mutex, so   *)
(* there is one.  A command of the verifier is one step; the commands a    *)
(* submission holds are those user-space chose, up to MaxCmds.             *)
(***************************************************************************)
EXTENDS VmwResource

CONSTANTS
  Submitter,  \* the thread that submits
  MaxCmds,    \* commands in a submission
  Readd       \* may user-space define a compat shader it destroyed in the same batch

VARIABLE sw   \* struct vmw_sw_context

vars == <<env, res, cbs, dev, drv, lru, lock, bo, man, todo, sw>>

NoSw == [phase |-> "idle", n |-> 0, list |-> <<>>, rel |-> {}, vb |-> <<>>,
         staged |-> [c \in Ctx |-> <<>>], nb |-> <<>>, nobuf |-> {},
         ctx |-> None, cur |-> None, last |-> None, barrier |-> FALSE,
         cres |-> <<>>, left |-> <<>>, before |-> [c \in Ctx |-> None]]

Init == ResInit /\ sw = NoSw

Listed(r) == \E i \in DOMAIN sw.list : sw.list[i] = r
Put(f, x, v) == [y \in DOMAIN f \cup {x} |-> IF y = x THEN v ELSE f[y]]
Fail == sw' = [sw EXCEPT !.phase = "err"]

(* vmw_execbuf_process up to the verifier; a failing copy or bounce buffer *)
(* leaves before anything is listed.                                       *)
Begin(t) ==
  /\ Idle(t) /\ Free("cmdbuf") /\ sw.phase = "idle"
  /\ lock' = [lock EXCEPT !.cmdbuf = t]
  /\ sw' = [NoSw EXCEPT !.phase = "check", !.cur = drv.pinned,
                        !.before = [c \in Ctx |-> man[c].hash]]
  /\ UNCHANGED <<env, res, cbs, dev, drv, lru, bo, man, todo>>

-----------------------------------------------------------------------------
(* The verifier. *)

(* vmw_resource_val_add on the list S: a reference per listed resource. *)
AddRes(S, r) ==
  IF \E i \in DOMAIN S.list : S.list[i] = r THEN S ELSE [S EXCEPT !.list = Append(@, r)]

vmw_resource_val_add(S, R) == FoldSet(LAMBDA r, x : AddRes(x, r), S, R)

(* The live resources that are bound to a context are listed with it. *)
vmw_resource_context_res_add(S, c) ==
  vmw_resource_val_add(S, {r \in {cbs[c][s].res : s \in Slots} \ {None} : res[r].kref > 0})

(* A guest-backed context goes to the head of the list. *)
vmw_cmd_res_reloc_add(S, r) ==
  LET S1 == [S EXCEPT !.rel = @ \cup {r}] IN
  IF \E i \in DOMAIN S.list : S.list[i] = r THEN S1
  ELSE IF r \in Ctx /\ hasMob
       THEN vmw_resource_context_res_add([S1 EXCEPT !.list = <<r>> \o @], r)
       ELSE AddRes(S1, r)

(* Looks up user-space's handle; None is SVGA3D_INVALID_ID. *)
vmw_cmd_res_check(S, r) ==
  IF r = None THEN S
  ELSE LET S1 == vmw_cmd_res_reloc_add(S, r)
       IN IF r \in Ctx THEN [S1 EXCEPT !.ctx = r] ELSE S1

(* vmw_user_resource_lookup_handle finds what has a handle. *)
User(R) == {r \in R : res[r].handle}

(* The same buffer cannot be a mob and a gmr in one submission. *)
BoOk(S, b, mob) == b \in DOMAIN S.vb => S.vb[b] = mob
vmw_bo_to_validate_list(S, b, mob) == [S EXCEPT !.vb = Put(@, b, mob)]

(* Lists new references of S and takes the next command. *)
Checked(S) ==
  /\ sw' = [S EXCEPT !.n = @ + 1]
  /\ res' = [r \in Res |->
       IF (\E i \in DOMAIN S.list : S.list[i] = r) /\ ~Listed(r)
       THEN [res[r] EXCEPT !.kref = @ + 1] ELSE res[r]]

Checking(t) == lock.cmdbuf = t /\ sw.phase = "check" /\ sw.n < MaxCmds /\ Idle(t)

CmdFrame == UNCHANGED <<env, cbs, dev, drv, lru, lock, bo, man, todo>>

(* An unknown, privileged or deprecated command, a handle that is not      *)
(* there, a bad size.                                                      *)
vmw_cmd_invalid(t) ==
  /\ Checking(t) /\ Fail
  /\ UNCHANGED <<env, res, cbs, dev, drv, lru, lock, bo, man, todo>>

vmw_cmd_cid_check(t) ==
  /\ Checking(t)
  /\ \E c \in User(Ctx) : Checked(vmw_cmd_res_check(sw, c))
  /\ CmdFrame

(* Copies, blits, updates, readbacks and invalidations of one surface or   *)
(* of a source and a destination.                                          *)
vmw_cmd_surface_copy_check(t) ==
  /\ Checking(t)
  /\ \E a, b \in User(Srf) : Checked(vmw_cmd_res_check(vmw_cmd_res_check(sw, a), b))
  /\ CmdFrame

vmw_cmd_stretch_blt_check(t) == vmw_cmd_surface_copy_check(t)

(* One surface: what the kms code presents or blits, and the commands that *)
(* update, read back or invalidate a guest-backed image.                   *)
OneSurface(t) ==
  /\ Checking(t)
  /\ \E s \in User(Srf) : Checked(vmw_cmd_res_check(sw, s))
  /\ CmdFrame

vmw_cmd_present_check(t) == OneSurface(t)
vmw_cmd_update_gb_surface(t) == hasMob /\ OneSurface(t)

(* A staged binding of a context, which only exists with guest-backing. *)
vmw_context_binding_add(S, c, slot, r) ==
  IF hasMob THEN [S EXCEPT !.staged[c] = Put(@, slot, r)] ELSE S

vmw_cmd_set_render_target_check(t) ==
  /\ Checking(t)
  /\ \E c \in User(Ctx), s \in User(Srf) \cup {None} :
       Checked(vmw_context_binding_add(
         vmw_cmd_res_check(vmw_cmd_res_check(sw, c), s), c, "rt", s))
  /\ CmdFrame

vmw_cmd_tex_state(t) ==
  /\ Checking(t)
  /\ \E c \in User(Ctx), s \in User(Srf) \cup {None} :
       Checked(vmw_context_binding_add(
         vmw_cmd_res_check(vmw_cmd_res_check(sw, c), s), c, "tex", s))
  /\ CmdFrame

vmw_cmd_draw(t) ==
  /\ Checking(t)
  /\ \E c \in User(Ctx), s \in User(Srf) :
       Checked(vmw_cmd_res_check(vmw_cmd_res_check(sw, c), s))
  /\ CmdFrame

vmw_cmd_set_shader_const(t) == vmw_cmd_cid_check(t)

(* A compat shader of the context is preferred to a handle. *)
vmw_cmd_set_shader(t) ==
  /\ Checking(t)
  /\ \E c \in User(Ctx) :
     \E s \in IF ~hasMob THEN {None}
              ELSE User(Shd) \cup {man[c].hash, None} :
       Checked(vmw_context_binding_add(
         vmw_cmd_res_check(vmw_cmd_res_check(sw, c), s), c, "shader", s))
  /\ CmdFrame

(* A buffer named by the command is listed, or the command refused. *)
WithBuffer(S, b, mob, S1) ==
  IF BoOk(S, b, mob) THEN Checked(S1) ELSE Fail /\ UNCHANGED res

vmw_translate_mob_ptr(S, b) == WithBuffer(S, b, TRUE, vmw_bo_to_validate_list(S, b, TRUE))
vmw_translate_guest_ptr(S, b) == WithBuffer(S, b, FALSE, vmw_bo_to_validate_list(S, b, FALSE))

(* Dma of a surface, with a guest pointer. *)
vmw_cmd_dma(t) ==
  /\ Checking(t)
  /\ \E s \in User(Srf), b \in UserBo \cap env.use :
       vmw_translate_guest_ptr(vmw_cmd_res_check(sw, s), b)
  /\ CmdFrame

(* Of the kernel's own commands without 3D one names a buffer. *)
vmw_cmd_check_define_gmrfb(t) ==
  /\ Checking(t)
  /\ \E b \in UserBo \cap env.use : vmw_translate_guest_ptr(sw, b)
  /\ CmdFrame

vmw_cmd_check_not_3d(t) ==
  \/ vmw_cmd_check_define_gmrfb(t)
  \/ Checking(t) /\ Checked(sw) /\ CmdFrame

(* Bind commands give a surface or shader a new backup buffer; the old one *)
(* is not needed when the resource is first used here.                     *)
vmw_cmd_switch_backup(t, R) ==
  /\ Checking(t) /\ hasMob
  /\ \E r \in User(R), b \in UserBo \cap env.use :
       LET S == vmw_cmd_res_check(sw, r) IN
       WithBuffer(S, b, TRUE, [vmw_bo_to_validate_list(S, b, TRUE) EXCEPT
                       !.nb = Put(@, r, b),
                       !.nobuf = IF Listed(r) THEN @ ELSE @ \cup {r}])
  /\ CmdFrame

vmw_cmd_bind_gb_surface(t) == vmw_cmd_switch_backup(t, Srf)
vmw_cmd_bind_gb_shader(t) == vmw_cmd_switch_backup(t, Shd)

(* A query result goes to a buffer that stays pinned until a barrier. *)
vmw_query_bo_switch_prepare(S, c, b) ==
  LET S1 == [S EXCEPT !.last = c] IN
  IF b = S.cur THEN S1
  ELSE IF S.cur = None THEN [S1 EXCEPT !.cur = b]
  ELSE [vmw_bo_to_validate_list(S1, S.cur, hasMob) EXCEPT !.cur = b, !.barrier = TRUE]

vmw_cmd_begin_query(t) == vmw_cmd_cid_check(t)

vmw_cmd_end_query(t) ==
  /\ Checking(t)
  /\ \E c \in User(Ctx), b \in QueryBo \cap env.use :
       LET S == vmw_cmd_res_check(sw, c) IN
       IF BoOk(S, b, hasMob) /\ (S.cur \in {None, b} \/ BoOk(S, S.cur, hasMob))
       THEN Checked(vmw_query_bo_switch_prepare(
              vmw_bo_to_validate_list(S, b, hasMob), c, b))
       ELSE Fail /\ UNCHANGED res
  /\ CmdFrame

vmw_cmd_wait_query(t) ==
  /\ Checking(t)
  /\ \E c \in User(Ctx), b \in QueryBo \cap env.use :
       LET S == vmw_cmd_res_check(sw, c) IN
       IF hasMob THEN vmw_translate_mob_ptr(S, b) ELSE vmw_translate_guest_ptr(S, b)
  /\ CmdFrame

-----------------------------------------------------------------------------
(* Compat shaders (vmwgfx_cmdbuf_res.c).  An entry is staged as ADD or DEL *)
(* and its key is in or out of the manager's hash table at once.           *)

Entry(st, c, r) == [st |-> st, c |-> c, r |-> r]
Del(c) == \E i \in DOMAIN sw.cres : sw.cres[i].st = "del" /\ sw.cres[i].c = c

(* A key that the hash table has is refused. *)
vmw_compat_shader_add(t) ==
  /\ Checking(t) /\ hasMob
  /\ \E c \in User(Ctx), s \in Shd \cap env.use :
       /\ Unused(s) /\ (Readd \/ ~Del(c))
       /\ LET S == vmw_cmd_res_check(sw, c) IN
          IF man[c].hash # None THEN Fail /\ UNCHANGED <<res, man>>
          ELSE /\ sw' = [S EXCEPT !.n = @ + 1, !.cres = Append(@, Entry("add", c, s))]
               /\ man' = [man EXCEPT ![c].hash = s]
               /\ res' = [r \in Res |->
                    IF r = s THEN [vmw_resource_init(s, s) EXCEPT !.handle = FALSE]
                    ELSE IF (\E i \in DOMAIN S.list : S.list[i] = r) /\ ~Listed(r)
                    THEN [res[r] EXCEPT !.kref = @ + 1] ELSE res[r]]
  /\ UNCHANGED <<env, cbs, dev, drv, lru, lock, bo, todo>>

(* A staged entry is freed at once, a committed one is staged as DEL. *)
vmw_cmdbuf_res_remove(t) ==
  /\ Checking(t) /\ hasMob
  /\ \E c \in User(Ctx) :
       LET S == vmw_cmd_res_check(sw, c)
           s == man[c].hash
           Staged == \E i \in DOMAIN sw.cres : sw.cres[i].st = "add" /\ sw.cres[i].r = s
       IN IF s = None THEN Fail /\ UNCHANGED <<res, man, todo>>
          ELSE /\ IF Staged
                  THEN /\ Checked([S EXCEPT !.cres = SelectSeq(@, LAMBDA e : e.r # s)])
                       /\ man' = [man EXCEPT ![c].hash = None]
                       /\ todo' = [todo EXCEPT ![t] = <<Step("unref", s)>>]
                  ELSE /\ Checked([S EXCEPT !.cres = Append(@, Entry("del", c, s))])
                       /\ man' = [man EXCEPT ![c] = [hash |-> None, list |-> @.list \ {s}]]
                       /\ UNCHANGED todo
  /\ UNCHANGED <<env, cbs, dev, drv, lru, lock, bo>>

(* The commands that define and destroy a compat shader. *)
vmw_cmd_shader_define(t) == vmw_compat_shader_add(t)
vmw_cmd_shader_destroy(t) == vmw_cmdbuf_res_remove(t)

(* The entries of the sequence C applied in order to the managers M. *)
CommitTo(M, e) ==
  IF e.st = "add" THEN [M EXCEPT ![e.c].list = @ \cup {e.r}] ELSE M

vmw_cmdbuf_res_commit(C) == FoldLeft(LAMBDA M, e : CommitTo(M, e), man, C)

(* Seeded fault: a removal is not undone in the hash table. *)
RevertIn_NoInsert(M, e) ==
  IF e.st = "add"
  THEN [M EXCEPT ![e.c].hash = IF @ = e.r THEN None ELSE @]
  ELSE [M EXCEPT ![e.c].list = @ \cup {e.r}]

(* Seeded fault: a reverted addition stays in the manager's list. *)
RevertIn_KeepsAdd(M, e) == [M EXCEPT ![e.c].list = @ \cup {e.r}]

(* An insertion that finds the key taken fails, and nobody looks. *)
RevertIn(M, e) ==
  IF e.st = "add"
  THEN [M EXCEPT ![e.c].hash = IF @ = e.r THEN None ELSE @]
  ELSE [M EXCEPT ![e.c].hash = IF @ = None THEN e.r ELSE @,
                 ![e.c].list = @ \cup {e.r}]

vmw_cmdbuf_res_revert(C) == FoldLeft(LAMBDA M, e : RevertIn(M, e), man, C)

-----------------------------------------------------------------------------
(* Reservation and validation. *)

(* vmw_resources_reserve: a backup buffer used both as a mob and otherwise *)
(* fails the submission with the resources off their lru lists.            *)
vmw_resources_reserve(t) ==
  /\ lock.cmdbuf = t /\ sw.phase = "check" /\ Idle(t)
  /\ LET Reserve(p, r) ==
           LET W == vmw_resource_reserve(p.w, r, r \in sw.nobuf)
               b == W.res[r].backup
           IN IF ~p.ok THEN p
              ELSE [w |-> W, ok |-> b = None \/ BoOk(p.s, b, needs_backup(r)),
                    s |-> IF b = None THEN p.s
                          ELSE vmw_bo_to_validate_list(p.s, b, needs_backup(r))]
         P == FoldLeft(Reserve, [w |-> World, ok |-> TRUE, s |-> sw], sw.list)
     IN /\ Become(P.w)
        /\ IF P.ok THEN sw' = [P.s EXCEPT !.phase = "buffers"] ELSE Fail
  /\ UNCHANGED <<env, lock, bo, man, todo>>

(* ttm_eu_reserve_buffers and vmw_validate_buffers.  A pinned query buffer *)
(* stays where it is; a gmr placement takes a buffer out of mob memory.    *)
vmw_validate_buffers(t) ==
  /\ lock.cmdbuf = t /\ sw.phase = "buffers"
  /\ \A b \in DOMAIN sw.vb : bo[b].reserved = None
  /\ LET Moves == {b \in DOMAIN sw.vb : ~sw.vb[b] /\ bo[b].mob /\ b # drv.pinned}
         R == {r \in Res : res[r].mob /\ res[r].backup \in Moves}
     IN /\ Free("binding")
        /\ \A b \in Moves : ~bo[b].pinned
        /\ \E W \in UnbindAll(World, R) : Become(W)
        /\ bo' = [b \in Bo |->
             IF b \notin DOMAIN sw.vb THEN bo[b]
             ELSE [bo[b] EXCEPT !.reserved = t,
                     !.mob = IF b = drv.pinned THEN @ ELSE sw.vb[b]]]
  /\ sw' = [sw EXCEPT !.phase = "validate", !.left = sw.list]
  /\ UNCHANGED <<env, lock, man, todo>>

(* A buffer that cannot be placed, or a signal. *)
ValidateBuffersFails(t) ==
  /\ lock.cmdbuf = t /\ sw.phase = "buffers" /\ Fail
  /\ UNCHANGED <<env, res, cbs, dev, drv, lru, lock, bo, man, todo>>

(* One turn of vmw_resource_validate for the next resource. *)
vmw_resources_validate(t) ==
  /\ lock.cmdbuf = t /\ sw.phase = "validate" /\ Idle(t) /\ sw.left # <<>>
  /\ LET r == Head(sw.left) IN
     /\ CanValidate(World, r)
     /\ \E v \in vmw_resource_validate(World, r) :
          /\ Become(v.w)
          /\ IF v.ret = "ok"
             THEN sw' = [sw EXCEPT !.left = Tail(@)] /\ UNCHANGED todo
             ELSE IF v.ret = "EAGAIN"
             THEN /\ todo' = [todo EXCEPT ![t] = <<Step("unref", Head(lru[kind(r)]))>>]
                  /\ UNCHANGED sw
             ELSE Fail /\ UNCHANGED todo
  /\ UNCHANGED <<env, lock, bo, man>>

-----------------------------------------------------------------------------
(* Commit, or back off. *)

Contexts == {c \in Ctx : hasMob /\ Listed(c)}

vmw_rebind_contexts(W) == FoldSet(LAMBDA c, w : Rebind(w, c), W, Contexts)

(* What the device does with the commands: relocations hold the ids, the   *)
(* listed surfaces and contexts have their contents on the device, bind    *)
(* commands set the mob, and bindings set slots of the context.            *)
Executed(W) ==
  [W EXCEPT
    !.res = [r \in Res |-> IF r \in sw.rel \ Shd
                           THEN [@[r] EXCEPT !.data = "hw"] ELSE @[r]],
    !.dev.mob = [k \in Kinds |-> [i \in Ids |->
       IF \E r \in DOMAIN sw.nb : kind(r) = k /\ W.res[r].id = i
       THEN sw.nb[CHOOSE r \in DOMAIN sw.nb : kind(r) = k /\ W.res[r].id = i]
       ELSE @[k][i]]],
    !.dev.slot = [i \in Ids |-> [s \in Slots |->
       IF \E c \in Contexts : W.res[c].id = i /\ s \in DOMAIN sw.staged[c]
       THEN LET c == CHOOSE x \in Contexts : W.res[x].id = i
                r == sw.staged[c][s]
            IN IF r = None THEN 0 ELSE W.res[r].id
       ELSE @[i][s]]]]

vmw_context_binding_state_transfer(W) ==
  [W EXCEPT !.cbs = [c \in Ctx |-> [s \in Slots |->
     IF c \in Contexts /\ s \in DOMAIN sw.staged[c]
     THEN [res |-> sw.staged[c][s], scrubbed |-> FALSE] ELSE @[c][s]]]]

(* The pinned buffer is exchanged; with a barrier nothing stays pinned. *)
vmw_query_bo_switch_commit(W) ==
  IF W.drv.pinned = sw.cur THEN W
  ELSE IF sw.barrier THEN [W EXCEPT !.drv.pinned = None]
  ELSE [W EXCEPT !.drv.pinned = sw.cur, !.drv.dummy = TRUE,
                 !.drv.cid = W.res[sw.last].id, !.drv.cidValid = TRUE]

PinAs(B, W) == [b \in Bo |->
  IF W.drv.pinned = drv.pinned THEN B[b]
  ELSE IF b = drv.pinned THEN [B[b] EXCEPT !.pinned = FALSE]
  ELSE IF b = W.drv.pinned THEN [B[b] EXCEPT !.pinned = TRUE] ELSE B[b]]

NewBackup(r) == IF r \in DOMAIN sw.nb THEN sw.nb[r] ELSE None

vmw_resource_list_unreserve(W, backoff) ==
  FoldLeft(LAMBDA w, r : vmw_resource_unreserve(w, r, IF backoff THEN None ELSE NewBackup(r)),
           IF backoff THEN W ELSE vmw_context_binding_state_transfer(W), sw.list)

(* Takes over the world W: staged entries st are dropped under             *)
(* cmdbuf_mutex, the references of the list after it.                      *)
Leave(t, W, st) ==
  LET E == SelectSeq(sw.cres, LAMBDA e : e.st = st)
      D == Dropped(W, [i \in DOMAIN E |-> E[i].r])
      F == Dropped(D.w, sw.list)
  IN /\ sw' = NoSw
     /\ Become(F.w)
     /\ IF D.todo = <<>>
        THEN /\ todo' = [todo EXCEPT ![t] = F.todo]
             /\ lock' = [lock EXCEPT !.cmdbuf = None]
        ELSE /\ todo' = [todo EXCEPT ![t] = D.todo \o <<Step("unlock", None)>> \o F.todo]
             /\ UNCHANGED lock

(* vmw_execbuf_process releases a query buffer whose context has gone. *)
Lost(W) == W.drv.pinned # None /\ ~W.drv.cidValid
Settled(W) == IF Lost(W) THEN ReleasePinned(W) ELSE W
SettledBo(B, W) == IF Lost(W) THEN [B EXCEPT ![W.drv.pinned].pinned = FALSE] ELSE B

(* Under binding_mutex: rebind, commit to the fifo, switch the query       *)
(* buffer, fence, unreserve; then the buffers are unreserved and the       *)
(* staged compat shaders committed.                                        *)
Commit(t) ==
  /\ lock.cmdbuf = t /\ sw.phase = "validate" /\ sw.left = <<>> /\ Idle(t)
  /\ Free("binding")
  /\ LET W == vmw_query_bo_switch_commit(Executed(vmw_rebind_contexts(World)))
         W1 == vmw_resource_list_unreserve(W, FALSE) IN
     /\ Leave(t, Settled(W1), "del")
     /\ bo' = SettledBo(PinAs(Unreserved(bo, t), W), W1)
  /\ man' = vmw_cmdbuf_res_commit(sw.cres)
  /\ UNCHANGED env

(* No fifo space: the contexts were rebound. *)
CommitFails(t) ==
  /\ lock.cmdbuf = t /\ sw.phase = "validate" /\ sw.left = <<>> /\ Idle(t)
  /\ Free("binding") /\ "emit" \in FifoFails
  /\ Become(vmw_rebind_contexts(World))
  /\ Fail
  /\ UNCHANGED <<env, lock, bo, man, todo>>

(* out_err *)
BackOff(t) ==
  /\ lock.cmdbuf = t /\ sw.phase = "err" /\ Idle(t)
  /\ LET W == vmw_resource_list_unreserve(World, TRUE) IN
     /\ Leave(t, Settled(W), "add")
     /\ bo' = SettledBo(Unreserved(bo, t), W)
  /\ man' = vmw_cmdbuf_res_revert(sw.cres)
  /\ UNCHANGED env

(* The handlers of vmw_cmd_entries; vmw_cmd_invalid stands for the         *)
(* commands it does not allow.                                             *)
vmw_cmd_entries(t) ==
  \/ vmw_cmd_invalid(t) \/ vmw_cmd_cid_check(t) \/ vmw_cmd_surface_copy_check(t)
  \/ vmw_cmd_stretch_blt_check(t) \/ vmw_cmd_present_check(t)
  \/ vmw_cmd_update_gb_surface(t) \/ vmw_cmd_set_render_target_check(t)
  \/ vmw_cmd_tex_state(t) \/ vmw_cmd_draw(t) \/ vmw_cmd_set_shader(t)
  \/ vmw_cmd_set_shader_const(t) \/ vmw_cmd_dma(t) \/ vmw_cmd_bind_gb_surface(t)
  \/ vmw_cmd_bind_gb_shader(t) \/ vmw_cmd_begin_query(t) \/ vmw_cmd_end_query(t)
  \/ vmw_cmd_wait_query(t) \/ vmw_cmd_shader_define(t) \/ vmw_cmd_shader_destroy(t)

vmw_cmd_check(t) == vmw_cmd_check_not_3d(t) \/ vmw_cmd_entries(t)

vmw_execbuf_process(t) ==
  \/ Begin(t) \/ vmw_cmd_check(t)
  \/ vmw_resources_reserve(t) \/ vmw_validate_buffers(t) \/ ValidateBuffersFails(t)
  \/ vmw_resources_validate(t) \/ Commit(t) \/ CommitFails(t) \/ BackOff(t)

Next ==
  \/ \E t \in Threads : Releasing(t) /\ UNCHANGED sw
  \/ \E t \in Threads \ {Submitter} : Other(t) /\ UNCHANGED sw
  \/ \E b \in Bo : vmw_resource_move_notify(b) /\ UNCHANGED sw
  \/ vmw_execbuf_process(Submitter)

Spec == Init /\ [][Next]_vars

-----------------------------------------------------------------------------
Live(r) == res[r].kref > 0

Slot(c, s) == LET b == cbs[c][s] IN
  IF b.res = None \/ b.scrubbed THEN 0 ELSE res[b.res].id

(* What the device has bound to a context is what the binding tracker      *)
(* says, for every binding to a live resource (vmw_context_binding_scrub   *)
(* and -kill, vmw_context_rebind_all, vmw_resource_do_evict); the mob of a *)
(* device object is a buffer that is in mob memory                         *)
(* (vmw_resource_move_notify); and the context that a barrier for the      *)
(* pinned query buffer would use is defined (query_cid_valid).             *)
DeviceAgrees ==
  /\ \A c \in Ctx, s \in Slots :
       hasMob /\ Live(c) /\ res[c].id # 0 /\ (cbs[c][s].res = None \/ Live(cbs[c][s].res))
       => dev.slot[res[c].id][s] = Slot(c, s)
  /\ \A k \in Kinds, i \in Ids : dev.mob[k][i] # None => bo[dev.mob[k][i]].mob
  /\ drv.cidValid => <<"ctx", drv.cid>> \in dev.obj /\ drv.pinned # None

(* The contents of a live surface or context are never lost: evictions,    *)
(* moves of the backup buffer, failed validations and rebinding hand them  *)
(* over between the device and a dirty backup buffer.                      *)
DataKept == \A r \in Res : Live(r) => res[r].data # "lost"

Count(S) == Cardinality(S)
Steps(r, op) == Count({x \in UNION {{t} \X (1..Len(todo[t])) : t \in Threads} :
                          todo[x[1]][x[2]] = Step(op, r)})

(* References: the handle, the submission's list, the compat shader        *)
(* managers and staged entries, a pin, and steps still to be done hold     *)
(* exactly the kref of a resource, through every error path.               *)
KrefCounts ==
  \A r \in Res :
    res[r].kref = (IF res[r].handle THEN 1 ELSE 0) + (IF Listed(r) THEN 1 ELSE 0)
      + Count({c \in Ctx : r \in man[c].list}) + res[r].pin
      + Count({i \in DOMAIN sw.cres : sw.cres[i].r = r})
      + Steps(r, "unref") + Steps(r, "pin")

(* A pinned resource is never evicted: while it is pinned it loses its id  *)
(* only if a submission that uses it cannot bind it (vmw_resource_pin).    *)
PinnedKeepsId ==
  [][\A r \in Res : res[r].pin > 0 /\ res'[r].pin > 0 /\ res[r].id # 0
       => res'[r].id = res[r].id \/ (Listed(r) /\ sw'.phase = "err")]_vars

(* A submission that fails leaves the compat shaders user-space can find   *)
(* as they were (vmw_cmdbuf_res_revert).                                   *)
RevertRestores ==
  [][sw.phase = "err" /\ sw'.phase = "idle"
       => \A c \in Ctx : man'[c].hash = sw.before[c]]_vars

=============================================================================
