------------------------------ MODULE TtmObject ------------------------------
(***************************************************************************)
(* Base objects, reference objects and dma-bufs (ttm_object.c), with the   *)
(* user buffers of vmwgfx_resource.c as the objects: a handle is a         *)
(* reference object of an open file, and a buffer object outlives its base *)
(* object while a surface or a call still refers to it.                    *)
(*                                                                         *)
(* An action is one critical section of tfile->lock, tdev->object_lock or  *)
(* prime->mutex, one atomic operation on a kref, or one step of an rcu     *)
(* reader.  A thread's state holds the call it is in and its next step; a  *)
(* function that several calls use goes on, when it is done, with what the *)
(* call does after it (AfterLookup, AfterAdd, AfterPut, AfterPrime).       *)
(* The memory of reference objects and dma-bufs is what mem accounts for.  *)
(***************************************************************************)
EXTENDS Integers, FiniteSets

CONSTANTS
  Files,        \* storage for struct ttm_object_file
  Objs,         \* storage for user buffers; it is also the handle
  Threads,      \* threads in calls of the driver
  Refs,         \* bound: storage for reference objects
  Dmabufs,      \* bound: storage for dma-bufs
  MaxFds,       \* bound: descriptors open on one dma-buf
  MaxDup,       \* bound: references a file takes on one handle
  Disciplined,  \* clients keep the handles they may still need, see MayDrop
  NULL          \* no file, no object, no reference object

ASSUME ObjectAssumption ==
  /\ MaxFds \in Nat /\ MaxDup \in Nat \ {0} /\ Disciplined \in BOOLEAN
  /\ NULL \notin Files \cup Objs \cup Refs \cup Dmabufs

VARIABLES
  base,  \* struct ttm_prime_object of each user buffer
  bo,    \* its struct ttm_buffer_object: references, cpu_writers, and the file
         \* that made the surface it is the backup of
  ref,   \* struct ttm_ref_object
  dma,   \* dma-bufs: f_count, and the descriptors user-space has open
  tf,    \* struct ttm_object_file: open, refcount
  th,    \* the threads: the call, its next step, and local variables
  mem    \* reference objects and dma-bufs accounted in mem_glob

vars == <<base, bo, ref, dma, tf, th, mem>>

RefTypes == {"usage", "synccpu_write"}
NoBase == [st |-> "none", kref |-> 0, tfile |-> NULL, shareable |-> FALSE,
           hashed |-> FALSE, dma_buf |-> NULL]
NoBo == [kref |-> 0, cpu_writers |-> 0, backup |-> NULL]
NoRef == [st |-> "free", tfile |-> NULL, key |-> NULL, type |-> "usage", kref |-> 0, obj |-> NULL]
NoDma == [st |-> "none", obj |-> NULL, f_count |-> 0, fds |-> 0]
Idle == [op |-> "idle", pc |-> "idle", file |-> NULL, obj |-> NULL, type |-> "usage",
         ref |-> NULL, dma |-> NULL, ret |-> "ok"]

Init ==
  /\ base = [o \in Objs |-> NoBase] /\ bo = [o \in Objs |-> NoBo]
  /\ ref = [r \in Refs |-> NoRef] /\ dma = [d \in Dmabufs |-> NoDma]
  /\ tf = [f \in Files |-> [open |-> FALSE, kref |-> 0]]
  /\ th = [t \in Threads |-> Idle] /\ mem = 0

-----------------------------------------------------------------------------
\* The steps of a thread.
At(t, step) == th[t].pc = step

\* Thread t goes on with the given step.  A call that is over is forgotten.
Then(t, step) == IF step = "idle" THEN Idle ELSE [th[t] EXCEPT !.pc = step]
Continue(t, step) == th' = [th EXCEPT ![t] = Then(t, step)]

\* Thread t enters a call with file f and object o.
Enter(t, op, f, o, step) ==
  /\ At(t, "idle")
  /\ th' = [th EXCEPT ![t] = [Idle EXCEPT !.op = op, !.file = f, !.obj = o, !.pc = step]]

\* What a call does with the base object it has looked up.
AfterLookup(t) ==
  CASE th[t].op = "use" -> "base_put" [] th[t].op = "grab" -> "bo_get"
    [] th[t].op = "export" -> "export"

\* What it does when ttm_ref_object_add has returned v.
AfterAdd(t) ==
  CASE th[t].op = "alloc" -> "inited" [] th[t].op = "grab" -> "grabbed"
    [] th[t].op = "import" -> "dma_buf_put" [] th[t].op = "backup" -> "idle"
Return(t, v) ==
  th' = [th EXCEPT ![t] = IF AfterAdd(t) = "idle" THEN Idle
                          ELSE [@ EXCEPT !.pc = AfterAdd(t), !.ret = v]]

\* What it does when it is done with a dma-buf: the export that has found one
\* still has its own reference to the base object.
AfterPrime(t) == IF th[t].op = "export" THEN "base_put" ELSE "idle"

\* What it does after a reference to the base object has been dropped, its own
\* or that of a dma-buf that is gone.
AfterPut(t) ==
  IF th[t].pc \in {"prime_put", "prime_release"} THEN AfterPrime(t)
  ELSE IF th[t].op \in {"unref", "close"} THEN "ref_free"
  ELSE IF th[t].op = "alloc" THEN "bo_put"
  ELSE IF th[t].op = "grab" THEN "write_grab"
  ELSE "idle"

\* The storage an allocation gets does not matter.
SomeOf(S) == CHOOSE x \in S : TRUE

\* What drm_ht_find_item finds in tfile->ref_hash[type]: at most one.
Find(f, o, type) ==
  {r \in Refs : ref[r].st = "hashed" /\ ref[r].tfile = f /\ ref[r].key = o /\ ref[r].type = type}

\* A reference object is freed by kfree_rcu: not while a reader has found it.
Unused == {r \in Refs : ref[r].st = "free" /\ \A t \in Threads : th[t].ref # r}

\* vmw_user_dmabuf_destroy, when the last reference to the buffer object goes:
\* the memory of the base object goes with it.
BoFreed(o) == bo[o].kref = 1
BoPut(o) == [bo EXCEPT ![o] = IF BoFreed(o) THEN NoBo ELSE [bo[o] EXCEPT !.kref = @ - 1]]

Calling(f) == \E t \in Threads : ~At(t, "idle") /\ th[t].file = f

-----------------------------------------------------------------------------
\* Base objects

\* Seeded fault: an object takes no reference to its file.
ttm_object_file_ref_None(f) == tf

\* ttm_object_file_ref
ttm_object_file_ref(f) == [tf EXCEPT ![f].kref = @ + 1]

\* ttm_object_file_init
ttm_object_file_init(f) ==
  /\ ~tf[f].open /\ tf[f].kref = 0
  /\ tf' = [tf EXCEPT ![f] = [open |-> TRUE, kref |-> 1]]
  /\ UNCHANGED <<base, bo, ref, dma, th, mem>>

\* vmw_user_dmabuf_alloc up to the insertion into object_hash by
\* ttm_base_object_init.  The buffer object has two references, one for the
\* base object and one for the caller, and the base object one of its own.
vmw_user_dmabuf_alloc(t, f, o, share) ==
  /\ tf[f].open /\ base[o].st = "none"
  /\ \A u \in Threads : ~(At(u, "lookup_get") /\ th[u].obj = o)   \* kfree_rcu
  /\ Enter(t, "alloc", f, o, "ref_find")
  /\ base' = [base EXCEPT ![o] = [NoBase EXCEPT !.st = "live", !.kref = 1, !.tfile = f,
                                                !.shareable = share, !.hashed = TRUE]]
  /\ bo' = [bo EXCEPT ![o] = [NoBo EXCEPT !.kref = 2]]
  /\ tf' = ttm_object_file_ref(f)
  /\ UNCHANGED <<ref, dma, mem>>

\* The rest of ttm_base_object_init and of its callers.  On success the first
\* reference is dropped, and the caller's reference to the buffer object is
\* given up or, for vmw_gb_surface_define_ioctl, kept by the surface.  On
\* failure the base object leaves the hash, and neither its reference to the
\* file nor the second reference to the buffer object is given back.
BaseInited(t) ==
  LET o == th[t].obj IN
  /\ At(t, "inited")
  /\ IF th[t].ret = "error"
     THEN /\ base' = [base EXCEPT ![o].hashed = FALSE, ![o].st = "leaked"]
          /\ bo' = BoPut(o)
          /\ Continue(t, "idle")
     ELSE /\ \/ Continue(t, "base_put") /\ bo' = bo
             \/ /\ th' = [th EXCEPT ![t].op = "define", ![t].pc = "base_put"]
                /\ bo' = [bo EXCEPT ![o].backup = th[t].file]
          /\ base' = base
  /\ UNCHANGED <<ref, dma, tf, mem>>

\* ttm_base_object_unref
ttm_base_object_unref(t) ==
  LET o == th[t].obj IN
  /\ th[t].pc \in {"base_put", "prime_put"}
  /\ base' = [base EXCEPT ![o].kref = @ - 1]
  /\ Continue(t, IF base[o].kref # 1 THEN AfterPut(t)
                 ELSE IF At(t, "base_put") THEN "base_release" ELSE "prime_release")
  /\ UNCHANGED <<bo, ref, dma, tf, mem>>

Releasing(t) == th[t].pc \in {"base_release", "prime_release"}

\* ttm_release_base, with ttm_prime_refcount_release and vmw_user_dmabuf_release.
ttm_release_base(t) ==
  LET o == th[t].obj IN
  /\ Releasing(t)
  /\ tf' = [f \in Files |-> IF f = base[o].tfile THEN [tf[f] EXCEPT !.kref = @ - 1] ELSE tf[f]]
  /\ base' = [base EXCEPT ![o] = IF BoFreed(o) THEN NoBase
                                 ELSE [@ EXCEPT !.st = "dead", !.hashed = FALSE, !.tfile = NULL]]
  /\ bo' = BoPut(o)
  /\ Continue(t, AfterPut(t))
  /\ UNCHANGED <<ref, dma, mem>>

\* vmw_dmabuf_unreference at the end of a call
vmw_dmabuf_unreference(t) ==
  LET o == th[t].obj IN
  /\ At(t, "bo_put")
  /\ bo' = BoPut(o)
  /\ base' = [base EXCEPT ![o] = IF BoFreed(o) THEN NoBase ELSE @]
  /\ Continue(t, "idle")
  /\ UNCHANGED <<ref, dma, tf, mem>>

\* The surface of which o is the backup is destroyed; not while
\* vmw_gb_surface_reference_ioctl has a reference to it.
SurfaceDestroyed(o) ==
  /\ bo[o].backup # NULL /\ \A t \in Threads : ~(th[t].op = "backup" /\ th[t].obj = o)
  /\ bo' = [BoPut(o) EXCEPT ![o].backup = NULL]
  /\ base' = [base EXCEPT ![o] = IF BoFreed(o) THEN NoBase ELSE @]
  /\ UNCHANGED <<ref, dma, tf, th, mem>>

-----------------------------------------------------------------------------
\* Reference objects

\* ttm_ref_object_add, its permission check and its search: a reference object
\* that is not dying is referenced once more.
RefFind(t) ==
  LET f == th[t].file
      o == th[t].obj
      found == Find(f, o, th[t].type)
  IN
  /\ At(t, "ref_find")
  /\ IF base[o].tfile # f /\ ~base[o].shareable
     THEN ref' = ref /\ Return(t, "error")
     ELSE IF found # {}
     THEN /\ \A r \in found : ref[r].kref < MaxDup
          /\ ref' = [r \in Refs |-> IF r \in found THEN [ref[r] EXCEPT !.kref = @ + 1] ELSE ref[r]]
          /\ Return(t, "existed")
     ELSE ref' = ref /\ Continue(t, "ref_insert")
  /\ UNCHANGED <<base, bo, dma, tf, mem>>

\* ttm_ref_object_add, the insertion: it fails for want of memory, or finds
\* that somebody else has inserted a reference object and starts again, or
\* inserts a new one, which takes a reference to the base object.
RefInsert(t) ==
  LET f == th[t].file
      o == th[t].obj
  IN
  /\ At(t, "ref_insert")
  /\ \/ /\ Return(t, "error")
        /\ UNCHANGED <<ref, base, mem>>
     \/ /\ Unused # {} /\ Find(f, o, th[t].type) # {}
        /\ Continue(t, "ref_find")
        /\ UNCHANGED <<ref, base, mem>>
     \/ /\ Unused # {} /\ Find(f, o, th[t].type) = {}
        /\ ref' = [ref EXCEPT ![SomeOf(Unused)] =
                     [st |-> "hashed", tfile |-> f, key |-> o, type |-> th[t].type, kref |-> 1, obj |-> o]]
        /\ base' = [base EXCEPT ![o].kref = @ + 1]
        /\ mem' = mem + 1
        /\ Return(t, "new")
  /\ UNCHANGED <<bo, dma, tf>>

\* ttm_ref_object_release up to its spin_unlock: r leaves the hash and the list.
\* The thread goes on with ref_obj_release, which references for use have not.
ReleaseStep(r) == IF ref[r].type = "usage" THEN "ref_clear" ELSE "ref_obj_release"
Unlink(r) == ref' = [ref EXCEPT ![r].st = "gone", ![r].kref = 0]

\* A client may be careful: while a call of its own uses the buffer without a
\* reference to the base object, or a surface it has shared uses it as backup,
\* it keeps the handle.  Nothing in the driver makes it do so.
MayDrop(f, o) ==
  Disciplined =>
    /\ \A t \in Threads : ~(th[t].op \in {"alloc", "define", "grab"} /\ th[t].file = f /\ th[t].obj = o)
    /\ bo[o].backup # f

\* ttm_ref_object_base_unref: the last reference releases the reference object.
ttm_ref_object_base_unref(t, f, o, type) ==
  /\ tf[f].open /\ At(t, "idle")
  /\ type = "usage" => MayDrop(f, o)
  /\ \E r \in Find(f, o, type) :
       IF ref[r].kref > 1
       THEN ref' = [ref EXCEPT ![r].kref = @ - 1] /\ th' = th
       ELSE /\ Unlink(r)
            /\ th' = [th EXCEPT ![t] = [Idle EXCEPT !.op = "unref", !.file = f, !.obj = o, !.ref = r,
                                                    !.pc = ReleaseStep(r)]]
  /\ UNCHANGED <<base, bo, dma, tf, mem>>

\* vmw_user_dmabuf_ref_obj_release
RefObjRelease(t) ==
  /\ At(t, "ref_obj_release")
  /\ bo' = [bo EXCEPT ![th[t].obj].cpu_writers = @ - 1]
  /\ Continue(t, "ref_clear")
  /\ UNCHANGED <<base, ref, dma, tf, mem>>

\* ttm_base_object_unref(&ref->obj) clears the pointer before it drops the
\* reference: an rcu reader may see the reference object without its object.
RefClear(t) ==
  /\ At(t, "ref_clear")
  /\ ref' = [ref EXCEPT ![th[t].ref].obj = NULL]
  /\ Continue(t, "base_put")
  /\ UNCHANGED <<base, bo, dma, tf, mem>>

RefFree(t) ==
  /\ At(t, "ref_free")
  /\ ref' = [ref EXCEPT ![th[t].ref] = NoRef]
  /\ mem' = mem - 1
  /\ th' = [th EXCEPT ![t] = IF th[t].op = "close" THEN [@ EXCEPT !.pc = "close", !.ref = NULL]
                          ELSE Idle]
  /\ UNCHANGED <<base, bo, dma, tf>>

\* vmw_postclose calls ttm_object_file_release when no call with the file is
\* under way.
Close(t, f) ==
  /\ tf[f].open /\ ~Calling(f) /\ \A o \in Objs : MayDrop(f, o)
  /\ Enter(t, "close", f, NULL, "close")
  /\ tf' = [tf EXCEPT ![f].open = FALSE]
  /\ UNCHANGED <<base, bo, ref, dma, mem>>

\* ttm_object_file_release: a reference object is released whatever its count.
ttm_object_file_release(t) ==
  LET f == th[t].file
      left == {r \in Refs : ref[r].st = "hashed" /\ ref[r].tfile = f}
  IN
  /\ At(t, "close")
  /\ \/ \E r \in left :
          /\ Unlink(r)
          /\ th' = [th EXCEPT ![t].obj = ref[r].key, ![t].ref = r,
                              ![t].pc = ReleaseStep(r)]
          /\ tf' = tf
     \/ /\ left = {}
        /\ Continue(t, "idle")
        /\ tf' = [tf EXCEPT ![f].kref = @ - 1]
        /\ ref' = ref
  /\ UNCHANGED <<base, bo, dma, mem>>

-----------------------------------------------------------------------------
\* Calls that look an object up

\* ttm_base_object_lookup: the rcu reader finds the reference object ...
Lookup(t) ==
  /\ At(t, "lookup")
  /\ LET found == Find(th[t].file, th[t].obj, "usage") IN
     \/ found = {} /\ Continue(t, "idle")
     \/ \E r \in found : th' = [th EXCEPT ![t].ref = r, ![t].pc = "lookup_load"]
  /\ UNCHANGED <<base, bo, ref, dma, tf, mem>>

\* ... loads the pointer to the base object, which may have been cleared by now:
\* the reader does not come back from using it ...
LookupLoad(t) ==
  /\ At(t, "lookup_load")
  /\ th' = [th EXCEPT ![t].ref = IF ref[@].obj = NULL THEN @ ELSE NULL,
                      ![t].pc = IF ref[th[t].ref].obj = NULL THEN "oops" ELSE "lookup_get"]
  /\ UNCHANGED <<base, bo, ref, dma, tf, mem>>

\* ... and takes a reference to the base object unless there is none left.
LookupGet(t) ==
  LET o == th[t].obj IN
  /\ At(t, "lookup_get")
  /\ \/ /\ base[o].kref = 0
        /\ Continue(t, "idle") /\ base' = base
     \/ /\ base[o].kref > 0
        /\ base' = [base EXCEPT ![o].kref = @ + 1]
        /\ Continue(t, AfterLookup(t))
  /\ UNCHANGED <<bo, ref, dma, tf, mem>>

\* A call that uses an object by its handle while it holds the base object.
Use(t, f, o) ==
  /\ tf[f].open /\ Enter(t, "use", f, o, "lookup")
  /\ UNCHANGED <<base, bo, ref, dma, tf, mem>>

\* Seeded fault: the reference is taken whatever the count.
Visible_Dying(o) == base[o].hashed

\* ttm_base_object_lookup_for_ref finds o.
Visible(o) == base[o].hashed /\ base[o].kref > 0

\* vmw_surface_handle_reference with the global name of a buffer: found by
\* ttm_base_object_lookup_for_ref, it is no surface and is put again.
LookupForRef(t, f, o) ==
  /\ tf[f].open /\ Visible(o)
  /\ Enter(t, "name", f, o, "base_put")
  /\ base' = [base EXCEPT ![o].kref = @ + 1]
  /\ UNCHANGED <<bo, ref, dma, tf, mem>>

\* vmw_user_dmabuf_synccpu_ioctl, the grab that blocks submissions:
\* vmw_user_dmabuf_lookup exchanges the reference to the base object for one to
\* the buffer object.
vmw_user_dmabuf_synccpu_grab(t, f, o) ==
  /\ tf[f].open /\ Enter(t, "grab", f, o, "lookup")
  /\ UNCHANGED <<base, bo, ref, dma, tf, mem>>

BoGet(t) ==
  /\ At(t, "bo_get")
  /\ bo' = [bo EXCEPT ![th[t].obj].kref = @ + 1]
  /\ Continue(t, "base_put")
  /\ UNCHANGED <<base, ref, dma, tf, mem>>

\* ttm_bo_synccpu_write_grab, which fails when it must not block or is interrupted.
WriteGrab(t) ==
  /\ At(t, "write_grab")
  /\ \/ /\ bo' = [bo EXCEPT ![th[t].obj].cpu_writers = @ + 1]
        /\ th' = [th EXCEPT ![t].pc = "ref_find", ![t].type = "synccpu_write"]
     \/ bo' = bo /\ Continue(t, "bo_put")
  /\ UNCHANGED <<base, ref, dma, tf, mem>>

\* Seeded fault: a grab on top of another counts twice.
GrabUndone_IfError(t) == th[t].ret = "error"

\* A grab that added no reference object is undone.
GrabUndone(t) == th[t].ret \in {"error", "existed"}

Grabbed(t) ==
  /\ At(t, "grabbed")
  /\ bo' = IF GrabUndone(t)
           THEN [bo EXCEPT ![th[t].obj].cpu_writers = @ - 1] ELSE bo
  /\ Continue(t, "bo_put")
  /\ UNCHANGED <<base, ref, dma, tf, mem>>

\* vmw_gb_surface_reference_ioctl, holding the surface, gives the caller a handle
\* of its backup by vmw_user_dmabuf_reference.
vmw_user_dmabuf_reference(t, f, o) ==
  /\ tf[f].open /\ bo[o].backup # NULL
  /\ base[o].shareable \/ bo[o].backup = f   \* or f cannot have the surface
  /\ Enter(t, "backup", f, o, "ref_find")
  /\ UNCHANGED <<base, bo, ref, dma, tf, mem>>

-----------------------------------------------------------------------------
\* dma-bufs

\* ttm_prime_handle_to_fd
ttm_prime_handle_to_fd(t, f, o) ==
  /\ tf[f].open /\ Enter(t, "export", f, o, "lookup")
  /\ UNCHANGED <<base, bo, ref, dma, tf, mem>>

\* get_dma_buf_unless_doomed, for the dma-buf of o
Doomed(d) == dma[d].f_count = 0
Reusable(o) == base[o].dma_buf # NULL /\ ~Doomed(base[o].dma_buf)
Get(d) == [dma EXCEPT ![d].f_count = @ + 1]

\* Seeded fault: the reference that went to the dma-buf is dropped as well.
NewDmaOp_Unref == "export"

\* What the export becomes that has given its reference to a new dma-buf.
NewDmaOp == "export_new"

\* Its critical section of prime->mutex: the dma-buf of the object is used again
\* unless it is doomed; else a new one is made, which takes over the reference
\* to the base object.  It fails when the object is not shareable, when it is
\* interrupted, or for want of memory.
Export(t) ==
  LET o == th[t].obj
      old == base[o].dma_buf
      new == {d \in Dmabufs : dma[d].st = "none"}
  IN
  /\ At(t, "export")
  /\ \/ /\ Continue(t, "base_put")
        /\ UNCHANGED <<base, dma, mem>>
     \/ /\ base[o].shareable /\ Reusable(o)
        /\ dma' = Get(old)
        /\ th' = [th EXCEPT ![t].dma = old, ![t].pc = "dma_buf_fd"]
        /\ UNCHANGED <<base, mem>>
     \/ /\ base[o].shareable /\ ~Reusable(o) /\ new # {}
        /\ dma' = [dma EXCEPT ![SomeOf(new)] = [st |-> "live", obj |-> o, f_count |-> 1, fds |-> 0]]
        /\ base' = [base EXCEPT ![o].dma_buf = SomeOf(new)]
        /\ mem' = mem + 1
        /\ th' = [th EXCEPT ![t].dma = SomeOf(new), ![t].op = NewDmaOp, ![t].pc = "dma_buf_fd"]
  /\ UNCHANGED <<bo, ref, tf>>

\* dma_buf_fd gives the reference to a descriptor, or fails.
DmaBufFd(t) ==
  /\ At(t, "dma_buf_fd")
  /\ \/ /\ dma[th[t].dma].fds < MaxFds
        /\ dma' = [dma EXCEPT ![th[t].dma].fds = @ + 1]
        /\ Continue(t, AfterPrime(t))
     \/ dma' = dma /\ Continue(t, "dma_buf_put")
  /\ UNCHANGED <<base, bo, ref, tf, mem>>

\* ttm_prime_fd_to_handle, with a dma-buf of this device
ttm_prime_fd_to_handle(t, f, d) ==
  /\ tf[f].open /\ dma[d].fds > 0 /\ At(t, "idle")
  /\ dma' = Get(d)
  /\ th' = [th EXCEPT ![t] = [Idle EXCEPT !.op = "import", !.file = f, !.obj = dma[d].obj, !.dma = d,
                                          !.pc = "ref_find"]]
  /\ UNCHANGED <<base, bo, ref, tf, mem>>

\* User-space closes a descriptor.
CloseFd(t, d) ==
  /\ dma[d].fds > 0 /\ At(t, "idle")
  /\ dma' = [dma EXCEPT ![d].fds = @ - 1]
  /\ th' = [th EXCEPT ![t] = [Idle EXCEPT !.op = "close_fd", !.obj = dma[d].obj, !.dma = d,
                                          !.pc = "dma_buf_put"]]
  /\ UNCHANGED <<base, bo, ref, tf, mem>>

\* dma_buf_put: the last reference runs ttm_prime_dmabuf_release.
DmaBufPut(t) ==
  LET d == th[t].dma IN
  /\ At(t, "dma_buf_put")
  /\ dma' = [dma EXCEPT ![d].f_count = @ - 1]
  /\ Continue(t, IF dma[d].f_count = 1 THEN "dma_release" ELSE AfterPrime(t))
  /\ UNCHANGED <<base, bo, ref, tf, mem>>

\* Seeded fault: a newer dma-buf is forgotten too.
DmabufForgotten_Any(o, d) == NULL

\* prime->dma_buf after the release of d
DmabufForgotten(o, d) == IF base[o].dma_buf = d THEN NULL ELSE base[o].dma_buf

\* ttm_prime_dmabuf_release: the object forgets this dma-buf, unless it has a
\* newer one; the reference to the base object is dropped.
ttm_prime_dmabuf_release(t) ==
  LET d == th[t].dma
      o == dma[d].obj
  IN
  /\ At(t, "dma_release")
  /\ base' = [base EXCEPT ![o].dma_buf = DmabufForgotten(o, d)]
  /\ dma' = [dma EXCEPT ![d] = NoDma]
  /\ mem' = mem - 1
  /\ Continue(t, "prime_put")
  /\ UNCHANGED <<bo, ref, tf>>

-----------------------------------------------------------------------------
Step(t) ==
  \/ BaseInited(t) \/ ttm_base_object_unref(t) \/ ttm_release_base(t) \/ vmw_dmabuf_unreference(t)
  \/ RefFind(t) \/ RefInsert(t) \/ RefObjRelease(t) \/ RefClear(t) \/ RefFree(t)
  \/ ttm_object_file_release(t) \/ Lookup(t) \/ LookupLoad(t) \/ LookupGet(t)
  \/ BoGet(t) \/ WriteGrab(t) \/ Grabbed(t)
  \/ Export(t) \/ DmaBufFd(t) \/ DmaBufPut(t) \/ ttm_prime_dmabuf_release(t)

Call(t) ==
  \/ \E f \in Files, o \in Objs :
       \/ \E share \in BOOLEAN : vmw_user_dmabuf_alloc(t, f, o, share)
       \/ \E type \in RefTypes : ttm_ref_object_base_unref(t, f, o, type)
       \/ Use(t, f, o) \/ LookupForRef(t, f, o) \/ vmw_user_dmabuf_synccpu_grab(t, f, o)
       \/ vmw_user_dmabuf_reference(t, f, o) \/ ttm_prime_handle_to_fd(t, f, o)
  \/ \E f \in Files : Close(t, f)
  \/ \E d \in Dmabufs : CloseFd(t, d) \/ \E f \in Files : ttm_prime_fd_to_handle(t, f, d)

Next ==
  \/ \E t \in Threads : Step(t) \/ Call(t)
  \/ \E f \in Files : ttm_object_file_init(f)
  \/ \E o \in Objs : SurfaceDestroyed(o)

Spec == Init /\ [][Next]_vars

-----------------------------------------------------------------------------
Ops == {"idle", "alloc", "define", "unref", "close", "use", "name", "grab", "backup", "export",
        "export_new", "import", "close_fd"}
Steps == {"idle", "ref_find", "ref_insert", "inited", "base_put", "base_release", "bo_put",
          "ref_obj_release", "ref_clear", "ref_free", "close", "lookup", "lookup_load", "lookup_get",
          "oops", "bo_get", "write_grab", "grabbed", "export", "dma_buf_fd", "dma_buf_put",
          "dma_release", "prime_put", "prime_release"}

\* The variables keep their types.
TypeOK ==
  /\ base \in [Objs -> [st : {"none", "live", "dead", "leaked"}, kref : Nat, tfile : Files \cup {NULL},
                        shareable : BOOLEAN, hashed : BOOLEAN, dma_buf : Dmabufs \cup {NULL}]]
  /\ bo \in [Objs -> [kref : Nat, cpu_writers : Nat, backup : Files \cup {NULL}]]
  /\ ref \in [Refs -> [st : {"free", "hashed", "gone"}, tfile : Files \cup {NULL}, key : Objs \cup {NULL},
                       type : RefTypes, kref : 0..MaxDup, obj : Objs \cup {NULL}]]
  /\ dma \in [Dmabufs -> [st : {"none", "live"}, obj : Objs \cup {NULL}, f_count : Nat, fds : 0..MaxFds]]
  /\ tf \in [Files -> [open : BOOLEAN, kref : Nat]]
  /\ th \in [Threads -> [op : Ops, pc : Steps, file : Files \cup {NULL}, obj : Objs \cup {NULL},
                          type : RefTypes, ref : Refs \cup {NULL}, dma : Dmabufs \cup {NULL},
                          ret : {"ok", "new", "existed", "error"}]]
  /\ mem \in Nat

\* The call of thread t has a reference to its base object, to drop or to pass on.
Owns(t) ==
  \/ th[t].pc \in {"inited", "bo_get", "base_put", "export"}
  \/ th[t].op = "alloc" /\ th[t].pc \in {"ref_find", "ref_insert"}
  \/ /\ th[t].op = "export"
     /\ th[t].pc \in {"dma_buf_fd", "dma_buf_put", "dma_release", "prime_put", "prime_release"}

Owners(o) == {t \in Threads : th[t].obj = o /\ Owns(t)}

\* Threads that have the reference of a dma-buf that is gone, to drop it.
Heirs(o) == {t \in Threads : th[t].obj = o /\ At(t, "prime_put")}

\* base->refcount is the number of reference objects, dma-bufs and calls that
\* will drop a reference: what ttm_ref_object_add takes, ttm_prime_handle_to_fd
\* passes on to the dma-buf and each release gives back, exactly once.
RefcountIsHolders ==
  \A o \in Objs :
    base[o].kref = Cardinality({r \in Refs : ref[r].obj = o}) + Cardinality({d \in Dmabufs : dma[d].obj = o})
                   + Cardinality(Owners(o)) + Cardinality(Heirs(o))
                   + (IF base[o].st = "leaked" THEN 1 ELSE 0)

\* refcount_release is "called when there are no more references": from the
\* moment the last reference to a base object is dropped, nobody takes another.
ReleasedForGood ==
  /\ \A t \in Threads : Releasing(t) => base[th[t].obj].kref = 0
  /\ \A o \in Objs : base[o].st = "dead" => base[o].kref = 0

\* A grab that has not yet become a reference object, or will be undone.
Grabbing(t) ==
  /\ th[t].op = "grab" /\ th[t].pc \in {"ref_find", "ref_insert", "grabbed"}
  /\ At(t, "grabbed") => th[t].ret # "new"

\* cpu_writers blocks submissions until it is zero again: each count belongs to a
\* reference object of type synccpu_write, which a release or the close of the
\* file will find, or to a call that will give it back.
WritersAreGrabs ==
  \A o \in Objs :
    bo[o].cpu_writers =
      Cardinality({r \in Refs : ref[r].st = "hashed" /\ ref[r].key = o /\ ref[r].type = "synccpu_write"})
      + Cardinality({t \in Threads : th[t].obj = o /\ (At(t, "ref_obj_release") \/ Grabbing(t))})

\* prime->dma_buf is not reference counted: it never names a dma-buf that is
\* gone, it names the one dma-buf of the object that can still be had, and it is
\* NULL when the object is released, which ttm_prime_refcount_release asserts.
DmabufIsKnown ==
  \A o \in Objs :
    /\ base[o].dma_buf # NULL => dma[base[o].dma_buf].obj = o
    /\ \A d \in Dmabufs : dma[d].obj = o /\ ~Doomed(d) => base[o].dma_buf = d
    /\ \A t \in Threads : Releasing(t) /\ th[t].obj = o => base[o].dma_buf = NULL

\* A struct ttm_object_file lives until it is closed and the last object created
\* with it is released, which needs tfile->tdev; a closed one has no reference
\* objects left.
FilesOutliveObjects ==
  \A f \in Files :
    LET closing == \E t \in Threads : th[t].op = "close" /\ th[t].file = f
        held == tf[f].open \/ closing
    IN /\ tf[f].kref = Cardinality({o \in Objs : base[o].tfile = f}) + (IF held THEN 1 ELSE 0)
       /\ \A r \in Refs : ref[r].tfile = f /\ ref[r].st = "hashed" => held
=============================================================================
