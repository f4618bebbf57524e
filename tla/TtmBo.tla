-------------------------------- MODULE TtmBo --------------------------------
(***************************************************************************)
(* TTM buffer objects: reservation of buffer lists (ttm_execbuf_util.c),   *)
(* validation with eviction, swapping and delayed destruction (ttm_bo.c),  *)
(* and the id manager behind the evictable memory type                     *)
(* (vmwgfx_gmrid_manager.c).                                               *)
(*                                                                         *)
(* An action is one critical section of glob->lru_lock or of               *)
(* bdev->fence_lock, or the work between two of them on a buffer that the  *)
(* thread has reserved.  ttm_eu_reserve_buffers holds lru_lock over a walk *)
(* along its list, one action per buffer; nobody else can enter meanwhile. *)
(* References dropped right after a critical section are dropped in it.    *)
(*                                                                         *)
(* Buffers are validated to one memory type with numbered places, as the   *)
(* mob and gmr types are.  Validators are any callers TTM allows: vmwgfx's *)
(* own submissions are further serialised by cmdbuf_mutex.                 *)
(***************************************************************************)
EXTENDS Integers, Sequences, FiniteSets, SequencesExt

CONSTANTS
  Buffers,      \* storage for buffer objects, each used once
  Validators,   \* threads that submit command buffers
  Lists,        \* the buffer lists they submit, no buffer twice (vmw_bo_to_validate_list)
  CpuUsers,     \* threads that synchronise a buffer for writing by the CPU
  Swappers,     \* threads in the shrinker, which runs ttm_bo_swapout
  Worker,       \* the work item bdev->wq, which runs ttm_bo_delayed_delete
  Owners,       \* threads that drop the user handles
  NoOne,        \* no thread, no buffer
  Ids,          \* values of max_gmr_ids of the memory type the lists are validated to
  Wrap,         \* the number of validation sequence numbers (2^32)
  MaxSeq        \* bound: validation sequence numbers used

Threads == Validators \cup CpuUsers \cup Swappers \cup Owners \cup {Worker}

ASSUME BoAssumption ==
  /\ IsFiniteSet(Buffers) /\ IsFiniteSet(Threads)
  /\ Lists \subseteq Seq(Buffers) /\ \A s \in Lists : IsInjective(s)
  /\ Ids \subseteq Nat
  /\ MaxSeq \in Nat /\ Wrap \in Nat /\ 2 * (MaxSeq + 1) <= Wrap
  /\ NoOne \notin Threads \cup Buffers
  /\ Worker \notin Validators \cup CpuUsers \cup Swappers \cup Owners
  /\ Validators \cap CpuUsers = {} /\ (Validators \cup CpuUsers) \cap Swappers = {}
  /\ (Validators \cup CpuUsers \cup Swappers) \cap Owners = {}

VARIABLES
  bo,        \* the buffer objects
  lru,       \* man->lru of the memory types, and glob->swap_lru
  ddestroy,  \* bdev->ddestroy
  val_seq,   \* bdev->val_seq
  wq,        \* bdev->wq is scheduled
  lru_lock,  \* who holds glob->lru_lock between two actions
  th,        \* the threads: where they are, and their local variables
  max_gmr_ids  \* of the id manager of that memory type

vars == <<bo, lru, ddestroy, val_seq, wq, lru_lock, th, max_gmr_ids>>

MemTypes == {"system", "gmr"}

\* A buffer of which user-space has a handle: ttm_bo_init has placed it in
\* system memory, unreserved it and put it on the lru lists.
NewBo == [kref |-> 1, handle |-> TRUE, list_kref |-> 3, freed |-> FALSE, reserved |-> NoOne,
          val_seq |-> 0, seq_valid |-> FALSE, sync |-> "none", mem |-> "system", cpu_writers |-> 0]

NewThread == [pc |-> "idle", list |-> <<>>, pos |-> 1, seq |-> 0, removed |-> {}, at |-> 1,
              obj |-> NoOne, next |-> NoOne, put |-> 0, ret |-> "idle", error |-> FALSE]
FirstSeq == Wrap - 1

Init ==
  /\ bo = [b \in Buffers |-> NewBo]
  /\ \E s \in SetToSeqs(Buffers) :
       lru = [system |-> s, gmr |-> <<>>, swap |-> s]
  /\ ddestroy = <<>> /\ val_seq = FirstSeq /\ wq = FALSE
  /\ lru_lock = NoOne
  /\ th = [t \in Threads |-> NewThread]
  /\ max_gmr_ids \in Ids

-----------------------------------------------------------------------------
\* The lists.  A buffer on one of them holds a list_kref for it.
On(s, b) == \E i \in DOMAIN s : s[i] = b
OnLru(b) == \E m \in DOMAIN lru : On(lru[m], b)
Linked(b) == Cardinality({m \in DOMAIN lru : On(lru[m], b)})

\* The elements of s that are in S, in their order.
Kept(s, S) ==
  LET Places == {i \in DOMAIN s : s[i] \in S}
      Place(k) == CHOOSE i \in Places : Cardinality({j \in Places : j <= i}) = k
  IN [k \in 1 .. Cardinality(Places) |-> s[Place(k)]]

\* ttm_bo_add_to_lru for the buffers of list s, whose memory types are in f.
AddToLru(l, f, s) ==
  [m \in DOMAIN l |->
     l[m] \o Kept(s, {b \in Buffers : m = "swap" \/ f[b].mem = m})]

\* ttm_bo_del_from_lru for the buffers S.
DelFromLru(S) == [m \in DOMAIN lru |-> Kept(lru[m], Buffers \ S)]

\* bo->reserved and its owner; a plain reservation invalidates the sequence.
Reserve(rec, t) == [rec EXCEPT !.reserved = t, !.seq_valid = FALSE]
Unreserve(rec) == [rec EXCEPT !.reserved = NoOne]

\* kref_put(&bo->list_kref, ttm_bo_release_list)
ListPut(rec, n) == [rec EXCEPT !.list_kref = @ - n, !.freed = (rec.list_kref = n)]
ListGet(rec) == [rec EXCEPT !.list_kref = @ + 1]

Goto(t, label) == th' = [th EXCEPT ![t].pc = label]
Unlocked == lru_lock = NoOne
Idle(b) == bo[b].sync # "busy"

-----------------------------------------------------------------------------
\* ttm_eu_reserve_buffers

Mine(t) == SubSeq(th[t].list, 1, th[t].pos - 1)   \* the entries reserved
Entry(t) == th[t].list[th[t].pos]                  \* the entry to reserve
Scanning(t) == th[t].pc = "scan" /\ lru_lock = t

\* A client submits a list; it holds a reference to each buffer.
Submit(t) ==
  /\ t \in Validators /\ th[t].pc = "idle"
  /\ \E s \in Lists :
       /\ \A i \in DOMAIN s : bo[s[i]].handle
       /\ bo' = [b \in Buffers |-> IF On(s, b) THEN [bo[b] EXCEPT !.kref = @ + 1] ELSE bo[b]]
       /\ th' = [th EXCEPT ![t].pc = "retry", ![t].list = s]
  /\ UNCHANGED <<lru, ddestroy, val_seq, wq, lru_lock>>

\* retry: take lru_lock and the next sequence number.
EuStart(t) ==
  /\ th[t].pc = "retry" /\ Unlocked
  /\ (val_seq - FirstSeq) % Wrap < MaxSeq  \* bound
  /\ lru_lock' = t
  /\ val_seq' = (val_seq + 1) % Wrap
  /\ th' = [th EXCEPT ![t].pc = "scan", ![t].seq = val_seq]
  /\ UNCHANGED <<bo, lru, ddestroy, wq>>

\* ttm_eu_backoff_reservation_locked, from the buffers f: those taken off the
\* lru lists go back there, the others have never left; all are unreserved.
BackoffLocked(t, f) ==
  LET back == Kept(Mine(t), th[t].removed)
  IN /\ bo' = [b \in Buffers |->
                 IF On(back, b) THEN [Unreserve(f[b]) EXCEPT !.list_kref = @ + 2]
                 ELSE IF On(Mine(t), b) THEN Unreserve(f[b]) ELSE f[b]]
     /\ lru' = AddToLru(lru, f, back)

\* ttm_eu_del_from_lru_locked for the entries not removed yet, with the
\* references that ttm_eu_list_ref_sub drops for them (in the code, before the
\* thread leaves the function; the caller's own reference outlives them).
RemoveLocked(t) ==
  LET S == ToSet(Mine(t)) \ th[t].removed
  IN /\ lru' = DelFromLru(S)
     /\ bo' = [b \in Buffers |-> IF b \in S THEN ListPut(bo[b], Linked(b)) ELSE bo[b]]

\* The thread as it is after a back-off, at label.
BackedOff(t, label, b) ==
  th' = [th EXCEPT ![t].pc = label, ![t].obj = b, ![t].removed = {}, ![t].pos = 1]

Sequenced(t, b) == [bo[b] EXCEPT !.val_seq = th[t].seq, !.seq_valid = TRUE]

\* Seeded fault: cpu_writers is not looked at.
EuReserve_IgnoresCpu(t) ==
  /\ Scanning(t) /\ th[t].pos <= Len(th[t].list)
  /\ bo[Entry(t)].reserved = NoOne
  /\ bo' = [bo EXCEPT ![Entry(t)] = [Sequenced(t, Entry(t)) EXCEPT !.reserved = t]]
  /\ th' = [th EXCEPT ![t].pos = @ + 1]
  /\ UNCHANGED <<lru, ddestroy, val_seq, wq, lru_lock>>

\* ttm_bo_reserve_locked of the next buffer succeeds.
EuReserve(t) ==
  /\ Scanning(t) /\ th[t].pos <= Len(th[t].list)
  /\ bo[Entry(t)].reserved = NoOne /\ bo[Entry(t)].cpu_writers = 0
  /\ bo' = [bo EXCEPT ![Entry(t)] = [Sequenced(t, Entry(t)) EXCEPT !.reserved = t]]
  /\ th' = [th EXCEPT ![t].pos = @ + 1]
  /\ UNCHANGED <<lru, ddestroy, val_seq, wq, lru_lock>>

\* It succeeds, but the CPU uses the buffer: back off and wait for that.
EuCpuBusy(t) ==
  /\ Scanning(t) /\ th[t].pos <= Len(th[t].list)
  /\ bo[Entry(t)].reserved = NoOne /\ bo[Entry(t)].cpu_writers > 0
  /\ BackoffLocked(t, [bo EXCEPT ![Entry(t)] = Sequenced(t, Entry(t))])
  /\ BackedOff(t, "cpuwait", Entry(t))
  /\ lru_lock' = NoOne
  /\ UNCHANGED <<ddestroy, val_seq, wq>>

\* The buffer is reserved.  A lower sequence number means a holder that will
\* not back off for us (-EAGAIN): back off and wait.
Older(t, b) ==
  bo[b].seq_valid /\ (th[t].seq - bo[b].val_seq) % Wrap < Wrap \div 2

EuBackoff(t) ==
  /\ Scanning(t) /\ th[t].pos <= Len(th[t].list)
  /\ bo[Entry(t)].reserved # NoOne /\ Older(t, Entry(t))
  /\ BackoffLocked(t, bo)
  /\ BackedOff(t, "againwait", Entry(t))
  /\ lru_lock' = NoOne
  /\ UNCHANGED <<ddestroy, val_seq, wq>>

\* Otherwise (-EBUSY) wait for it and keep the reservations made so far.
EuBusy(t) ==
  /\ Scanning(t) /\ th[t].pos <= Len(th[t].list)
  /\ bo[Entry(t)].reserved # NoOne /\ ~Older(t, Entry(t))
  /\ RemoveLocked(t)
  /\ th' = [th EXCEPT ![t].pc = "busywait", ![t].obj = Entry(t), ![t].removed = ToSet(Mine(t))]
  /\ lru_lock' = NoOne
  /\ UNCHANGED <<ddestroy, val_seq, wq>>

\* ttm_bo_wait_unreserved returns: go on from this buffer, or from the start.
EuBusyDone(t) ==
  /\ th[t].pc = "busywait" /\ Unlocked /\ bo[th[t].obj].reserved = NoOne
  /\ lru_lock' = t
  /\ th' = [th EXCEPT ![t].pc = "scan", ![t].obj = NoOne]
  /\ UNCHANGED <<bo, lru, ddestroy, val_seq, wq>>

EuRetry(t) ==
  /\ \/ th[t].pc = "againwait" /\ bo[th[t].obj].reserved = NoOne
     \/ th[t].pc = "cpuwait" /\ bo[th[t].obj].cpu_writers = 0
  /\ th' = [th EXCEPT ![t].pc = "retry", ![t].obj = NoOne]
  /\ UNCHANGED <<bo, lru, ddestroy, val_seq, wq, lru_lock>>

\* A signal ends any of these waits; no buffer stays reserved.
EuInterrupted(t) ==
  /\ th[t].pc \in {"busywait", "againwait", "cpuwait"} /\ Unlocked
  /\ BackoffLocked(t, bo)
  /\ BackedOff(t, "unref", NoOne)
  /\ UNCHANGED <<ddestroy, val_seq, wq, lru_lock>>

\* All buffers are reserved.
EuDone(t) ==
  /\ Scanning(t) /\ th[t].pos > Len(th[t].list)
  /\ RemoveLocked(t)
  /\ th' = [th EXCEPT ![t].pc = "validate", ![t].removed = ToSet(Mine(t)), ![t].at = 1]
  /\ lru_lock' = NoOne
  /\ UNCHANGED <<ddestroy, val_seq, wq>>

-----------------------------------------------------------------------------
\* vmw_validate_buffers: ttm_bo_validate of every buffer of the list.

UsedIds == Cardinality({b \in Buffers : bo[b].mem = "gmr"})
Validating(t) == th[t].pc = "validate" /\ th[t].at <= Len(th[t].list)
Target(t) == th[t].list[th[t].at]

ValidateInPlace(t) ==
  /\ Validating(t) /\ bo[Target(t)].mem = "gmr"
  /\ th' = [th EXCEPT ![t].at = @ + 1]
  /\ UNCHANGED <<bo, lru, ddestroy, val_seq, wq, lru_lock>>

\* ttm_bo_move_buffer waits for the buffer's sync object, gets an id ...
ValidateMove(t) ==
  /\ Validating(t) /\ bo[Target(t)].mem # "gmr" /\ Idle(Target(t))
  /\ UsedIds < max_gmr_ids
  /\ bo' = [bo EXCEPT ![Target(t)] = [@ EXCEPT !.sync = "none", !.mem = "gmr"]]
  /\ th' = [th EXCEPT ![t].at = @ + 1]
  /\ UNCHANGED <<lru, ddestroy, val_seq, wq, lru_lock>>

\* ... or has to evict another buffer first (ttm_bo_mem_force_space).
ValidateNoSpace(t) ==
  /\ Validating(t) /\ bo[Target(t)].mem # "gmr" /\ Idle(Target(t))
  /\ UsedIds >= max_gmr_ids
  /\ bo' = [bo EXCEPT ![Target(t)].sync = "none"]
  /\ Goto(t, "evict")
  /\ UNCHANGED <<lru, ddestroy, val_seq, wq, lru_lock>>

\* A signal or want of memory ends the submission.
ValidateFails(t) ==
  /\ Validating(t) /\ bo[Target(t)].mem # "gmr"
  /\ Goto(t, "backoff")
  /\ UNCHANGED <<bo, lru, ddestroy, val_seq, wq, lru_lock>>

\* ttm_eu_fence_buffer_objects, unless making the fence has failed: then the
\* commands are done already and there is no sync object.
FenceBuffers(t) ==
  /\ th[t].pc = "validate" /\ th[t].at > Len(th[t].list) /\ Unlocked
  /\ \E sync \in {"busy", "none"} :
       bo' = [b \in Buffers |->
                IF On(th[t].list, b)
                  THEN [Unreserve(bo[b]) EXCEPT !.sync = sync, !.list_kref = @ + 2] ELSE bo[b]]
  /\ lru' = AddToLru(lru, bo, th[t].list)
  /\ BackedOff(t, "unref", NoOne)
  /\ UNCHANGED <<ddestroy, val_seq, wq, lru_lock>>

\* ttm_eu_backoff_reservation
Backoff(t) ==
  /\ th[t].pc = "backoff" /\ Unlocked
  /\ BackoffLocked(t, bo)
  /\ BackedOff(t, "unref", NoOne)
  /\ UNCHANGED <<ddestroy, val_seq, wq, lru_lock>>

-----------------------------------------------------------------------------
\* ttm_mem_evict_first.  A reserved buffer is on no lru list (ReservedOffLru),
\* so its branches for one are not taken.

First(m) == Head(lru[m])

EvictNothing(t) ==
  /\ th[t].pc = "evict" /\ Unlocked /\ lru.gmr = <<>>
  /\ Goto(t, "backoff")
  /\ UNCHANGED <<bo, lru, ddestroy, val_seq, wq, lru_lock>>

\* The first buffer waits for its destruction: help with that.
Dying(t, b, ret) ==
  /\ On(ddestroy, b)
  /\ bo' = [bo EXCEPT ![b] = ListGet(@)]
  /\ th' = [th EXCEPT ![t].pc = "cleanwait", ![t].obj = b, ![t].ret = ret]
  /\ UNCHANGED <<lru, ddestroy, val_seq, wq, lru_lock>>

\* Reserve the first buffer and take it off the lists.
Pick(t, b, label, ret) ==
  /\ ~On(ddestroy, b) /\ bo[b].reserved = NoOne
  /\ bo' = [bo EXCEPT ![b] = [Reserve(bo[b], t) EXCEPT !.list_kref = @ + 1 - Linked(b)]]
  /\ lru' = DelFromLru({b})
  /\ th' = [th EXCEPT ![t].pc = label, ![t].obj = b, ![t].ret = ret]
  /\ UNCHANGED <<ddestroy, val_seq, wq, lru_lock>>

EvictFirst(t) ==
  /\ th[t].pc = "evict" /\ Unlocked /\ lru.gmr # <<>>
  /\ Dying(t, First("gmr"), "validate") \/ Pick(t, First("gmr"), "evicting", "validate")

\* Seeded fault: the buffer is moved while the device uses it.
EvictMove_NoWait(t) ==
  /\ th[t].pc = "evicting" /\ Unlocked
  /\ LET b == th[t].obj
         f == [bo EXCEPT ![b] = [Unreserve(bo[b]) EXCEPT !.mem = "system", !.list_kref = @ + 2]]
     IN bo' = f /\ lru' = AddToLru(lru, f, <<b>>)
  /\ Goto(t, "objput")
  /\ UNCHANGED <<ddestroy, val_seq, wq, lru_lock>>

\* ttm_bo_evict and ttm_bo_unreserve
EvictMove(t) ==
  /\ th[t].pc = "evicting" /\ Unlocked /\ Idle(th[t].obj)
  /\ LET b == th[t].obj
         f == [bo EXCEPT ![b] = [Unreserve(bo[b]) EXCEPT !.sync = "none", !.mem = "system",
                                                         !.list_kref = @ + 2]]
     IN bo' = f /\ lru' = AddToLru(lru, f, <<b>>)
  /\ Goto(t, "objput")
  /\ UNCHANGED <<ddestroy, val_seq, wq, lru_lock>>

\* The wait for the buffer is interrupted, or it cannot be moved.
EvictFails(t) ==
  /\ th[t].pc = "evicting" /\ Unlocked
  /\ LET b == th[t].obj
         f == [bo EXCEPT ![b] = [Unreserve(bo[b]) EXCEPT !.list_kref = @ + 2]]
     IN bo' = f /\ lru' = AddToLru(lru, f, <<b>>)
  /\ th' = [th EXCEPT ![t].pc = "objput", ![t].ret = "backoff"]
  /\ UNCHANGED <<ddestroy, val_seq, wq, lru_lock>>

-----------------------------------------------------------------------------
\* ttm_bo_swapout by the shrinker.

SwapFirst(t) ==
  /\ t \in Swappers /\ th[t].pc = "idle" /\ Unlocked /\ lru.swap # <<>>
  /\ Dying(t, First("swap"), "idle") \/ Pick(t, First("swap"), "swapping", "idle")

\* Seeded fault: a failed move leaves without the unreserve.
SwapOut_KeepsReserved(t) ==
  /\ th[t].pc = "swapping" /\ Idle(th[t].obj)
  /\ \/ bo' = [bo EXCEPT ![th[t].obj] = [Unreserve(@) EXCEPT !.sync = "none", !.mem = "system"]]
     \/ bo' = [bo EXCEPT ![th[t].obj].sync = "none"]
  /\ Goto(t, "objput")
  /\ UNCHANGED <<lru, ddestroy, val_seq, wq, lru_lock>>

\* Wait for the GPU and move to system memory, if that succeeds; the buffer
\* is unreserved without going back to the lists.
SwapOut(t) ==
  /\ th[t].pc = "swapping" /\ Idle(th[t].obj)
  /\ \E mem \in {"system", bo[th[t].obj].mem} :
       bo' = [bo EXCEPT ![th[t].obj] = [Unreserve(@) EXCEPT !.sync = "none", !.mem = mem]]
  /\ Goto(t, "objput")
  /\ UNCHANGED <<lru, ddestroy, val_seq, wq, lru_lock>>

\* The wait times out.
SwapTimesOut(t) ==
  /\ th[t].pc = "swapping" /\ ~Idle(th[t].obj)
  /\ bo' = [bo EXCEPT ![th[t].obj] = Unreserve(@)]
  /\ Goto(t, "objput")
  /\ UNCHANGED <<lru, ddestroy, val_seq, wq, lru_lock>>

-----------------------------------------------------------------------------
\* Destruction.

\* The owner's handle goes.
DropHandle(t) ==
  /\ t \in Owners /\ th[t].pc = "idle"
  /\ \E b \in Buffers :
       /\ bo[b].handle
       /\ bo' = [bo EXCEPT ![b].handle = FALSE]
       /\ th' = [th EXCEPT ![t].pc = "unref", ![t].list = <<b>>]
  /\ UNCHANGED <<lru, ddestroy, val_seq, wq, lru_lock>>

\* ttm_bo_unref of the buffers of the thread's list.
Unref(t) ==
  /\ th[t].pc = "unref" /\ th[t].list # <<>>
  /\ LET b == Head(th[t].list) IN
       /\ bo' = [bo EXCEPT ![b].kref = @ - 1]
       /\ th' = IF bo[b].kref = 1
                  THEN [th EXCEPT ![t].list = Tail(@), ![t].pc = "release", ![t].obj = b,
                                  ![t].ret = "unref"]
                ELSE IF Len(th[t].list) > 1 THEN [th EXCEPT ![t].list = Tail(@)]
                ELSE [th EXCEPT ![t] = NewThread]
  /\ UNCHANGED <<lru, ddestroy, val_seq, wq, lru_lock>>

UnrefDone(t) ==
  /\ th[t].pc = "unref" /\ th[t].list = <<>>
  /\ th' = [th EXCEPT ![t] = NewThread]
  /\ UNCHANGED <<bo, lru, ddestroy, val_seq, wq, lru_lock>>

\* ttm_bo_cleanup_refs_or_queue: destroy a buffer that is idle and not reserved,
ReleaseNow(t) ==
  /\ th[t].pc = "release" /\ Unlocked
  /\ Idle(th[t].obj) /\ bo[th[t].obj].reserved = NoOne
  /\ bo' = [bo EXCEPT ![th[t].obj] = [Reserve(@, t) EXCEPT !.sync = "none"]]
  /\ lru' = DelFromLru({th[t].obj})
  /\ th' = [th EXCEPT ![t].pc = "memtype", ![t].put = Linked(th[t].obj)]
  /\ UNCHANGED <<ddestroy, val_seq, wq, lru_lock>>

\* and leave any other to the work item.
ReleaseQueue(t) ==
  /\ th[t].pc = "release" /\ Unlocked
  /\ ~Idle(th[t].obj) \/ bo[th[t].obj].reserved # NoOne
  /\ bo' = [bo EXCEPT ![th[t].obj] =
              [ListGet(bo[th[t].obj]) EXCEPT !.sync = IF @ = "signaled" THEN "none" ELSE @]]
  /\ ddestroy' = Append(ddestroy, th[t].obj)
  /\ wq' = TRUE
  /\ Goto(t, "objput")
  /\ UNCHANGED <<lru, val_seq, lru_lock>>

\* Seeded fault: the memory is not given back.
CleanupMemtypeUse_KeepsMemory(t) ==
  /\ th[t].pc = "memtype"
  /\ bo' = [bo EXCEPT ![th[t].obj] = ListPut(Unreserve(@), th[t].put)]
  /\ th' = [th EXCEPT ![t].pc = "objput", ![t].put = 0]
  /\ UNCHANGED <<lru, ddestroy, val_seq, wq, lru_lock>>

\* ttm_bo_cleanup_memtype_use, and the references of the lists.
CleanupMemtypeUse(t) ==
  /\ th[t].pc = "memtype"
  /\ bo' = [bo EXCEPT ![th[t].obj] = ListPut([Unreserve(@) EXCEPT !.mem = "none"], th[t].put)]
  /\ th' = [th EXCEPT ![t].pc = "objput", ![t].put = 0]
  /\ UNCHANGED <<lru, ddestroy, val_seq, wq, lru_lock>>

\* The thread's own reference to the object goes.
ObjPut(t) ==
  /\ th[t].pc = "objput"
  /\ bo' = [bo EXCEPT ![th[t].obj] = ListPut(@, 1)]
  /\ th' = [th EXCEPT ![t].pc = th[t].ret, ![t].obj = NoOne, ![t].ret = "idle"]
  /\ UNCHANGED <<lru, ddestroy, val_seq, wq, lru_lock>>

\* ttm_bo_cleanup_refs of th[t].obj.  The work item waits for nothing; an
\* evicting thread can be interrupted; a wait for the device can time out.
CleanWait(t) ==
  /\ th[t].pc = "cleanwait" /\ Idle(th[t].obj)
  /\ bo' = [bo EXCEPT ![th[t].obj].sync = "none"]
  /\ Goto(t, "cleanreserve")
  /\ UNCHANGED <<lru, ddestroy, val_seq, wq, lru_lock>>

CleanFails(t) ==
  /\ \/ th[t].pc = "cleanwait" /\ ~Idle(th[t].obj)
     \/ th[t].pc = "cleanreserve" /\ bo[th[t].obj].reserved # NoOne /\ Unlocked /\ t \notin Swappers
  /\ \E ret \in {"backoff", "evict"} :
       /\ ret = "evict" => th[t].pc = "cleanwait"  \* timed out: evict another
       /\ th' = [th EXCEPT ![t].pc = "objput", ![t].error = (t = Worker),
                           ![t].ret = IF t \in Validators THEN ret ELSE @]
  /\ UNCHANGED <<bo, lru, ddestroy, val_seq, wq, lru_lock>>

\* Reserve it.  Somebody else has destroyed it: leave, with the reservation.
CleanTooLate(t) ==
  /\ th[t].pc = "cleanreserve" /\ Unlocked /\ bo[th[t].obj].reserved = NoOne
  /\ ~On(ddestroy, th[t].obj)
  /\ bo' = [bo EXCEPT ![th[t].obj] = Reserve(@, t)]
  /\ Goto(t, "objput")
  /\ UNCHANGED <<lru, ddestroy, val_seq, wq, lru_lock>>

\* Seeded fault: the reference of the delayed list is forgotten.
CleanReserve_CountsLru(t) ==
  /\ th[t].pc = "cleanreserve" /\ Unlocked /\ bo[th[t].obj].reserved = NoOne
  /\ On(ddestroy, th[t].obj)
  /\ bo' = [bo EXCEPT ![th[t].obj] = Reserve(@, t)]
  /\ lru' = DelFromLru({th[t].obj})
  /\ ddestroy' = Kept(ddestroy, Buffers \ {th[t].obj})
  /\ th' = [th EXCEPT ![t].pc = "memtype", ![t].put = Linked(th[t].obj)]
  /\ UNCHANGED <<val_seq, wq, lru_lock>>

\* Or it is this thread that destroys it.  (Only an accelerated eviction, which
\* this driver does not have, could have made it busy again.)
CleanReserve(t) ==
  /\ th[t].pc = "cleanreserve" /\ Unlocked /\ bo[th[t].obj].reserved = NoOne
  /\ On(ddestroy, th[t].obj)
  /\ bo' = [bo EXCEPT ![th[t].obj] = Reserve(@, t)]
  /\ lru' = DelFromLru({th[t].obj})
  /\ ddestroy' = Kept(ddestroy, Buffers \ {th[t].obj})
  /\ th' = [th EXCEPT ![t].pc = "memtype", ![t].put = Linked(th[t].obj) + 1]
  /\ UNCHANGED <<val_seq, wq, lru_lock>>

-----------------------------------------------------------------------------
\* ttm_bo_delayed_workqueue and ttm_bo_delayed_delete.

Successor(b) ==
  LET i == CHOOSE k \in DOMAIN ddestroy : ddestroy[k] = b
  IN IF i < Len(ddestroy) THEN ddestroy[i + 1] ELSE NoOne

\* Work on entry b of the list, and hold on to the one after it.
WqEntry(t, b, f) ==
  /\ bo' = [c \in Buffers |-> IF c = Successor(b) THEN ListGet(f[c]) ELSE f[c]]
  /\ th' = [th EXCEPT ![t].pc = "cleanwait", ![t].obj = b, ![t].next = Successor(b),
                      ![t].ret = "wqnext"]

WqRun(t) ==
  /\ t = Worker /\ th[t].pc = "idle" /\ wq /\ Unlocked
  /\ wq' = FALSE
  /\ IF ddestroy = <<>> THEN UNCHANGED <<bo, th>>
     ELSE WqEntry(t, Head(ddestroy), [bo EXCEPT ![Head(ddestroy)] = ListGet(@)])
  /\ UNCHANGED <<lru, ddestroy, val_seq, lru_lock>>

WqNext(t) ==
  /\ th[t].pc = "wqnext" /\ Unlocked /\ ~th[t].error
  /\ th[t].next # NoOne /\ On(ddestroy, th[t].next)
  /\ WqEntry(t, th[t].next, bo)
  /\ UNCHANGED <<lru, ddestroy, val_seq, wq, lru_lock>>

\* An error, the end of the list or an entry that has left it: the work item
\* ends, and is scheduled again after an error only.
WqEnd(t) ==
  /\ th[t].pc = "wqnext" /\ Unlocked
  /\ th[t].error \/ th[t].next = NoOne \/ ~On(ddestroy, th[t].next)
  /\ bo' = [b \in Buffers |-> IF b = th[t].next THEN ListPut(bo[b], 1) ELSE bo[b]]
  /\ wq' = (wq \/ th[t].error)
  /\ th' = [th EXCEPT ![t] = NewThread]
  /\ UNCHANGED <<lru, ddestroy, val_seq, lru_lock>>

-----------------------------------------------------------------------------
\* ttm_bo_synccpu_write_grab and ttm_bo_synccpu_write_release.

Grab(t) ==
  /\ t \in CpuUsers /\ th[t].pc = "idle"
  /\ \E b \in Buffers :
       /\ bo[b].handle
       /\ bo' = [bo EXCEPT ![b].kref = @ + 1]
       /\ th' = [th EXCEPT ![t].pc = "grab", ![t].list = <<b>>, ![t].obj = b]
  /\ UNCHANGED <<lru, ddestroy, val_seq, wq, lru_lock>>

\* ttm_bo_reserve
GrabReserve(t) ==
  /\ th[t].pc = "grab" /\ Unlocked /\ bo[th[t].obj].reserved = NoOne
  /\ bo' = [bo EXCEPT ![th[t].obj] = ListPut(Reserve(@, t), Linked(th[t].obj))]
  /\ lru' = DelFromLru({th[t].obj})
  /\ Goto(t, "grabwait")
  /\ UNCHANGED <<ddestroy, val_seq, wq, lru_lock>>

\* The buffer is reserved, and the wait for it is interrupted or unwanted.
GrabBusy(t) ==
  /\ th[t].pc = "grab" /\ Unlocked /\ bo[th[t].obj].reserved # NoOne
  /\ th' = [th EXCEPT ![t].pc = "unref", ![t].obj = NoOne]
  /\ UNCHANGED <<bo, lru, ddestroy, val_seq, wq, lru_lock>>

\* Wait for the GPU, count the writer and unreserve; or be interrupted.
GrabWait(t) ==
  /\ th[t].pc = "grabwait" /\ Unlocked
  /\ LET b == th[t].obj
         free == [Unreserve(bo[b]) EXCEPT !.list_kref = @ + 2]
     IN /\ \/ /\ Idle(b)
              /\ bo' = [bo EXCEPT ![b] = [free EXCEPT !.sync = "none", !.cpu_writers = @ + 1]]
              /\ Goto(t, "cpu")
           \/ /\ bo' = [bo EXCEPT ![b] = free]
              /\ th' = [th EXCEPT ![t].pc = "unref", ![t].obj = NoOne]
        /\ lru' = AddToLru(lru, bo, <<b>>)
  /\ UNCHANGED <<ddestroy, val_seq, wq, lru_lock>>

GrabRelease(t) ==
  /\ th[t].pc = "cpu"
  /\ bo' = [bo EXCEPT ![th[t].obj].cpu_writers = @ - 1]
  /\ th' = [th EXCEPT ![t].pc = "unref", ![t].obj = NoOne]
  /\ UNCHANGED <<lru, ddestroy, val_seq, wq, lru_lock>>

-----------------------------------------------------------------------------
\* The device finishes the commands a buffer was fenced for.
Signal(b) ==
  /\ bo[b].sync = "busy"
  /\ bo' = [bo EXCEPT ![b].sync = "signaled"]
  /\ UNCHANGED <<lru, ddestroy, val_seq, wq, lru_lock, th>>

Reserving(t) ==
  \/ Submit(t) \/ EuStart(t) \/ EuReserve(t) \/ EuCpuBusy(t) \/ EuBackoff(t) \/ EuBusy(t)
  \/ EuBusyDone(t) \/ EuRetry(t) \/ EuInterrupted(t) \/ EuDone(t)

ValidatingSteps(t) ==
  \/ ValidateInPlace(t) \/ ValidateMove(t) \/ ValidateNoSpace(t) \/ ValidateFails(t)
  \/ FenceBuffers(t) \/ Backoff(t)
  \/ EvictNothing(t) \/ EvictFirst(t) \/ EvictMove(t) \/ EvictFails(t)

Destroying(t) ==
  \/ DropHandle(t) \/ Unref(t) \/ UnrefDone(t) \/ ReleaseNow(t) \/ ReleaseQueue(t)
  \/ CleanupMemtypeUse(t) \/ ObjPut(t)
  \/ CleanWait(t) \/ CleanFails(t) \/ CleanTooLate(t) \/ CleanReserve(t)
  \/ WqRun(t) \/ WqNext(t) \/ WqEnd(t)

Steps(t) ==
  \/ Reserving(t) \/ ValidatingSteps(t) \/ Destroying(t)
  \/ SwapFirst(t) \/ SwapOut(t) \/ SwapTimesOut(t)
  \/ Grab(t) \/ GrabReserve(t) \/ GrabBusy(t) \/ GrabWait(t) \/ GrabRelease(t)

Next ==
  /\ \/ \E t \in Threads : Steps(t)
     \/ \E b \in Buffers : Signal(b)
  /\ UNCHANGED max_gmr_ids

Spec == Init /\ [][Next]_vars

-----------------------------------------------------------------------------
Labels == {"idle", "retry", "scan", "busywait", "againwait", "cpuwait", "validate", "backoff",
           "evict", "evicting", "swapping", "unref", "release", "memtype", "objput", "cleanwait",
           "cleanreserve", "wqnext", "grab", "grabwait", "cpu"}

BoRecord == [kref : Nat, handle : BOOLEAN, list_kref : Nat, freed : BOOLEAN,
             reserved : Threads \cup {NoOne}, val_seq : 0 .. Wrap - 1, seq_valid : BOOLEAN,
             sync : {"none", "busy", "signaled"}, mem : MemTypes \cup {"none"},
             cpu_writers : Nat]

ThreadRecord == [pc : Labels, list : Seq(Buffers), pos : Nat, seq : 0 .. Wrap - 1,
                 removed : SUBSET Buffers, at : Nat \ {0}, obj : Buffers \cup {NoOne},
                 next : Buffers \cup {NoOne}, put : Nat, ret : Labels, error : BOOLEAN]

TypeOK ==
  /\ bo \in [Buffers -> BoRecord]
  /\ lru \in [{"system", "gmr", "swap"} -> Seq(Buffers)]
  /\ ddestroy \in Seq(Buffers) /\ val_seq \in 0 .. Wrap - 1 /\ wq \in BOOLEAN
  /\ lru_lock \in Validators \cup {NoOne} /\ max_gmr_ids \in Ids
  /\ th \in [Threads -> ThreadRecord]

\* "Upon successful reservation they are removed from the lru list. This stops
\* a reserved buffer from being evicted": whenever lru_lock is free, a reserved
\* buffer is on no lru list, whoever reserved it and whoever backed off.
ReservedOffLru ==
  Unlocked => \A b \in Buffers : bo[b].reserved # NoOne => ~OnLru(b)

\* list_kref counts what points to a buffer, and the buffer is freed exactly
\* when nothing does: lookups on the lru and delayed lists, the helpers that
\* destroy it together and the last user never free it twice or too early.
Pointers(b) ==
  Linked(b) + (IF On(ddestroy, b) THEN 1 ELSE 0)
  + (IF bo[b].kref > 0 \/ \E t \in Threads : th[t].pc = "release" /\ th[t].obj = b
       THEN 1 ELSE 0)
  + Cardinality({t \in Threads : th[t].obj = b /\ th[t].pc \in
                   {"objput", "memtype", "cleanwait", "cleanreserve", "evicting", "swapping"}})
  + Cardinality({t \in Threads : th[t].next = b})
  + (LET Putting == {t \in Threads : th[t].obj = b /\ th[t].pc = "memtype"}
     IN IF Putting = {} THEN 0 ELSE th[CHOOSE t \in Putting : TRUE].put)

ListKrefCounts ==
  \A b \in Buffers : bo[b].list_kref = Pointers(b) /\ (bo[b].freed <=> Pointers(b) = 0)

\* ttm_bo_release_list's BUG_ONs: a freed buffer has no user, no CPU writer, no
\* sync object and no memory, and nothing happens to it any more.
FreedIsQuiet ==
  \A b \in Buffers : bo[b].freed =>
    /\ bo[b].kref = 0 /\ bo[b].cpu_writers = 0 /\ bo[b].sync = "none" /\ bo[b].mem = "none"
    /\ ~OnLru(b) /\ ~On(ddestroy, b)

\* A buffer that is in use, or waits for its destruction, is reserved only by a
\* thread that works on it and will unreserve it.
Works(t, b) ==
  \/ th[t].obj = b /\ th[t].pc \in {"evicting", "swapping", "memtype", "grabwait"}
  \/ On(Mine(t), b) /\ th[t].pc # "unref"
ReservationHeld ==
  \A b \in Buffers :
    bo[b].reserved # NoOne /\ (bo[b].kref > 0 \/ On(ddestroy, b)) => Works(bo[b].reserved, b)

\* A buffer's memory changes only when the device is done with it: eviction,
\* swapping, validation and destruction have waited, and no submission has
\* fenced the buffer since.
MemoryIsIdle ==
  [][\A b \in Buffers : bo'[b].mem # bo[b].mem => bo[b].sync # "busy"]_vars

\* Buffers reserved by ttm_eu_reserve_buffers "are not synced for write CPU
\* usage", from the check until they are fenced.
NoCpuWriterOfFenced ==
  [][\A b \in Buffers : bo'[b].sync = "busy" /\ bo[b].sync # "busy" => bo[b].cpu_writers = 0]_vars
=============================================================================
