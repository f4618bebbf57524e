------------------------------- MODULE VmwFence -------------------------------
(***************************************************************************)
(* The fence manager of vmwgfx_fence.c with the interrupt handler of       *)
(* vmwgfx_irq.c, the fence command of vmwgfx_fifo.c and the device that    *)
(* executes it.                                                            *)
(*                                                                         *)
(* A thread emits a fence command with the next sequence number, puts a    *)
(* fence object for it on fman->fence_list, and may attach event actions   *)
(* to fence objects.  The device copies the numbers it reaches into        *)
(* SVGA_FIFO_FENCE and interrupts when one equals SVGA_FIFO_FENCE_GOAL.    *)
(* vmw_fences_update(), run by threads and by the interrupt handler, turns *)
(* the register into signalled fences and performed actions; a work item   *)
(* cleans performed actions up and switches the goal interrupt off.        *)
(*                                                                         *)
(* An action of this module is one critical section of fman->lock or       *)
(* irq_lock, or one access to a device register outside of them.           *)
(* Sequence numbers are modulo Wrap and a number has passed when it lies   *)
(* less than Wrap \div 2 behind the register, as in the code's             *)
(* "seqno - fence->seqno < VMW_FENCE_WRAP" with its 32-bit unsigned        *)
(* subtraction and VMW_FENCE_WRAP = 1 << 31.                               *)
(***************************************************************************)
EXTENDS Integers, Sequences, FiniteSets

CONSTANTS
  Threads,       \* the threads that enter the driver, each with a drm file
  Fences,        \* storage for fence objects
  Actions,       \* storage for struct vmw_event_fence_action
  Isr,           \* the interrupt handler as a caller of vmw_fences_update
  Worker,        \* the work item, as an owner of goal_irq_mutex
  NoOne,         \* neither a thread nor an object
  Wrap,          \* the number of sequence numbers (2^32)
  FirstSeqno,    \* the number of the fence vmw_fifo_init emits
  MaxSeqnos,     \* bound: sequence numbers used up before a submission
  Unserialized,  \* threads that create a fence without cmdbuf_mutex
  MayWait,       \* threads that call vmw_fence_obj_wait
  PowerThread    \* the thread that runs vmw_fence_fifo_down, or NoOne

ASSUME ConstantsAssumption ==
  /\ Wrap \in Nat /\ FirstSeqno \in 0 .. Wrap - 1
  /\ MaxSeqnos \in Nat /\ 2 * (MaxSeqnos + 2) <= Wrap
  /\ IsFiniteSet(Threads) /\ IsFiniteSet(Actions)
  /\ Unserialized \subseteq Threads /\ MayWait \subseteq Threads
  /\ PowerThread \in Threads \cup {NoOne}
  /\ NoOne \notin Threads \cup Fences \cup Actions \cup {Isr, Worker}
  /\ Isr \notin Threads /\ Worker \notin Threads /\ Isr # Worker

Seqnos == 0 .. Wrap - 1
Contexts == Threads \cup {Isr}   \* the callers of vmw_fences_update

VARIABLES
  \* The device: the fence commands it has not reached, and its registers.
  commands, FENCE, FENCE_GOAL, irq_status, irq_mask,
  \* vmw_private
  marker_seq, cmdbuf_mutex, fence_queue_waiters,
  \* vmw_fence_manager
  fence_list, seqno_valid, goal_irq_on, goal_irq_mutex, fifo_down, work,
  fence,       \* the fence objects
  action,      \* the event actions
  closed,      \* the threads whose drm file is gone
  \* Control: where everybody is, and their local variables.
  pc, obj, ret, seen, seqno, isr, worker

device  == <<commands, FENCE, FENCE_GOAL, irq_status, irq_mask>>
private == <<marker_seq, cmdbuf_mutex, fence_queue_waiters>>
manager == <<fence_list, seqno_valid, goal_irq_on, goal_irq_mutex, fifo_down, work>>
objects == <<fence, action, closed>>
control == <<pc, obj, ret, seen, seqno, isr, worker>>
vars == <<device, private, manager, objects, control>>

-----------------------------------------------------------------------------
\* Sequence numbers.
Next32(s) == IF (s + 1) % Wrap = 0 THEN 1 ELSE (s + 1) % Wrap
Passed(reg, s) == (reg - s) % Wrap < Wrap \div 2

FreeFence == [state |-> "free", seqno |-> 0, refs |-> 0, handle |-> FALSE,
              signaled |-> FALSE, forced |-> FALSE]
FreeAction == [state |-> "free", fence |-> NoOne, file |-> NoOne,
               event |-> "none"]

Live(f) == fence[f].state = "live"
Attached(f) == {a \in Actions : action[a].state = "attached" /\ action[a].fence = f}
CleanupList == {a \in Actions : action[a].state = "cleanup"}


\* vmw_request_device is done: vmw_fifo_init has emitted a first fence, number
\* FirstSeqno, without an object, the device has executed it, and
\* vmw_fence_fifo_up has run.
Init ==
  /\ commands = <<>> /\ FENCE = FirstSeqno /\ FENCE_GOAL = 0
  /\ irq_status = {} /\ irq_mask = {}
  /\ marker_seq = FirstSeqno
  /\ cmdbuf_mutex = NoOne
  /\ fence_list = <<>> /\ seqno_valid = FALSE /\ goal_irq_on = FALSE
  /\ goal_irq_mutex = NoOne /\ fifo_down = FALSE /\ work = FALSE
  /\ fence = [f \in Fences |-> FreeFence]
  /\ action = [a \in Actions |-> FreeAction]
  /\ closed = {}
  /\ pc = [c \in Contexts |-> "idle"]
  /\ obj = [t \in Threads |-> NoOne]
  /\ ret = [c \in Contexts |-> "idle"]
  /\ seen = [c \in Contexts |-> 0]
  /\ seqno = [t \in Threads |-> 0]
  /\ isr = [status |-> {}, masked |-> {}]
  /\ worker = [pc |-> "idle", valid |-> FALSE]
  /\ fence_queue_waiters = 0

\* Move a context on, and what most steps leave alone of the control state.
Goto(c, label) == pc' = [pc EXCEPT ![c] = label]
Locals == <<obj, ret, seen, seqno, isr, worker>>

-----------------------------------------------------------------------------
\* fence->refs: a fence object is freed and leaves fence_list with its last
\* reference (vmw_fence_obj_unreference, vmw_fence_obj_destroy_locked).
Without(list, f) ==
  IF \E i \in DOMAIN list : list[i] = f
    THEN LET i == CHOOSE i \in DOMAIN list : list[i] = f
         IN SubSeq(list, 1, i - 1) \o SubSeq(list, i + 1, Len(list))
    ELSE list

Unreference(fn, f) ==
  [fn EXCEPT ![f].refs = @ - 1, ![f].state = IF fn[f].refs = 1 THEN "freed" ELSE @]

ListAfterUnreference(f) ==
  IF fence[f].refs = 1 THEN Without(fence_list, f) ELSE fence_list

\* Seeded fault: an event goes out although its file is gone.
Perform_FileGone(F) ==
  [a \in Actions |->
     IF action[a].state = "attached" /\ action[a].fence \in F
       THEN [action[a] EXCEPT !.state = "cleanup", !.event = "sent"]
       ELSE action[a]]

\* vmw_fences_perform_actions on the actions of the fences F: each goes to
\* the cleanup list, and its event, unless the file is gone, to the file.
Perform(F) ==
  [a \in Actions |->
     IF action[a].state = "attached" /\ action[a].fence \in F
       THEN [action[a] EXCEPT !.state = "cleanup",
                              !.event = IF @ = "pending" THEN "sent" ELSE @]
       ELSE action[a]]

\* Seeded faults: the walk ends after the first fence, or takes along the one
\* at which it stops.
WalkEnds_FirstOnly(reg, n) ==
  n = IF fence_list # <<>> /\ Passed(reg, fence[fence_list[1]].seqno) THEN 1 ELSE 0

WalkEnds_OneTooMany(reg, n) ==
  /\ \A k \in 1 .. n - 1 : Passed(reg, fence[fence_list[k]].seqno)
  /\ n < Len(fence_list) => n > 0 /\ ~Passed(reg, fence[fence_list[n]].seqno)

\* vmw_fences_update walks the list from the head and stops at the first fence
\* that has not passed: n fences have.
WalkEnds(reg, n) ==
  /\ \A k \in 1 .. n : Passed(reg, fence[fence_list[k]].seqno)
  /\ n < Len(fence_list) => ~Passed(reg, fence[fence_list[n + 1]].seqno)

\* vmw_fence_goal_new_locked, after n fences were taken off the list: when the
\* goal has passed, the first listed fence with an action is the next one.
GoalPassed(reg) == seqno_valid /\ Passed(reg, FENCE_GOAL)
NewGoal(reg, n) ==
  LET waited == {i \in n + 1 .. Len(fence_list) : Attached(fence_list[i]) # {}} IN
  IF ~GoalPassed(reg) THEN UNCHANGED <<seqno_valid, FENCE_GOAL>>
  ELSE /\ seqno_valid' = (waited # {})
       /\ \/ waited = {} /\ UNCHANGED FENCE_GOAL
          \/ \E i \in waited : /\ \A j \in waited : i <= j
                               /\ FENCE_GOAL' = fence[fence_list[i]].seqno

-----------------------------------------------------------------------------
\* vmw_fences_update, called by context c, returns to ret[c].
Return(c) ==
  /\ Goto(c, ret[c])
  /\ ret' = [ret EXCEPT ![c] = "idle"]
  /\ seen' = [seen EXCEPT ![c] = 0]

\* seqno = ioread32(SVGA_FIFO_FENCE), outside fman->lock.
ReadFence(c) ==
  /\ pc[c] = "read"
  /\ seen' = [seen EXCEPT ![c] = FENCE]
  /\ Goto(c, "update")
  /\ UNCHANGED <<device, private, manager, objects, obj, ret, seqno, isr, worker>>

\* The critical section: signal, perform, choose the next goal, schedule work.
UpdateLocked(c) ==
  /\ pc[c] = "update"
  /\ \E n \in 0 .. Len(fence_list) :
     LET F == {fence_list[k] : k \in 1 .. n} IN
       /\ WalkEnds(seen[c], n)
       /\ fence_list' = SubSeq(fence_list, n + 1, Len(fence_list))
       /\ fence' = [f \in Fences |->
                      IF f \in F THEN [fence[f] EXCEPT !.signaled = TRUE] ELSE fence[f]]
       /\ action' = Perform(F)
       /\ NewGoal(seen[c], n)
       /\ work' = (work \/ \E a \in Actions : action'[a].state = "cleanup")
  /\ IF GoalPassed(seen[c]) THEN Goto(c, "reread") /\ UNCHANGED <<ret, seen>>
                            ELSE Return(c)
  /\ UNCHANGED <<commands, FENCE, irq_status, irq_mask, private, closed, goal_irq_on,
                 goal_irq_mutex, fifo_down, obj, seqno, isr, worker>>

\* The goal was replaced: the device may have passed the new one meanwhile.
RereadFence(c) ==
  /\ pc[c] = "reread"
  /\ IF FENCE # seen[c]
       THEN /\ seen' = [seen EXCEPT ![c] = FENCE]
            /\ Goto(c, "update")
            /\ UNCHANGED ret
       ELSE Return(c)
  /\ UNCHANGED <<device, private, manager, objects, obj, seqno, isr, worker>>

-----------------------------------------------------------------------------
\* Submission: vmw_fifo_send_fence and vmw_execbuf_fence_commands.

\* Seeded fault: cmdbuf_mutex is not taken for the submission.
SendFence_Unlocked(t) ==
  /\ pc[t] = "idle" /\ t \notin closed /\ t # PowerThread
  /\ (marker_seq - FirstSeqno) % Wrap < MaxSeqnos  \* bound
  /\ marker_seq' = Next32(marker_seq)
  /\ seqno' = [seqno EXCEPT ![t] = marker_seq']
  /\ commands' = Append(commands, marker_seq')
  /\ ret' = [ret EXCEPT ![t] = "create"]
  /\ Goto(t, "sent")
  /\ UNCHANGED <<FENCE, FENCE_GOAL, irq_status, irq_mask, fence_queue_waiters, cmdbuf_mutex,
                 manager, objects, obj, seen, isr, worker>>

\* vmw_execbuf_process runs under cmdbuf_mutex; vmw_fence_event_ioctl, the
\* unbind paths of contexts, shaders and surfaces and the kms code do not.
\* Under fifo_mutex: take the next number but 0 and commit its command.
SendFence(t) ==
  /\ pc[t] = "idle" /\ t \notin closed /\ t # PowerThread
  /\ (marker_seq - FirstSeqno) % Wrap < MaxSeqnos  \* bound
  /\ IF t \in Unserialized THEN UNCHANGED cmdbuf_mutex
                           ELSE cmdbuf_mutex = NoOne /\ cmdbuf_mutex' = t
  /\ marker_seq' = Next32(marker_seq)
  /\ seqno' = [seqno EXCEPT ![t] = marker_seq']
  /\ commands' = Append(commands, marker_seq')
  /\ ret' = [ret EXCEPT ![t] = "create"]
  /\ Goto(t, "sent")
  /\ UNCHANGED <<FENCE, FENCE_GOAL, irq_status, irq_mask, fence_queue_waiters,
                 manager, objects, obj, seen, isr, worker>>

\* vmw_update_seqno calls vmw_fences_update if the register differs from
\* last_read_seqno, a copy that every waiter writes and no lock protects.
UpdateSeqno(t) ==
  /\ pc[t] = "sent"
  /\ \/ Goto(t, "read") /\ UNCHANGED <<ret, seen>>
     \/ Return(t)
  /\ UNCHANGED <<device, private, manager, objects, obj, seqno, isr, worker>>

Unlocked(t) == IF cmdbuf_mutex = t THEN NoOne ELSE cmdbuf_mutex

\* vmw_fence_create (no handle) or vmw_user_fence_create (the handle's base
\* object holds a second reference).
CreateFence(t) ==
  /\ pc[t] = "create" /\ ~fifo_down
  /\ \E f \in Fences, handle \in BOOLEAN :
       /\ fence[f].state = "free"
       /\ fence' = [fence EXCEPT ![f] =
                      [state |-> "live", seqno |-> seqno[t], handle |-> handle,
                       refs |-> IF handle THEN 2 ELSE 1,
                       signaled |-> FALSE, forced |-> FALSE]]
       /\ fence_list' = Append(fence_list, f)
       /\ obj' = [obj EXCEPT ![t] = f]
  /\ cmdbuf_mutex' = Unlocked(t)
  /\ seqno' = [seqno EXCEPT ![t] = 0]
  /\ Goto(t, "have")
  /\ UNCHANGED <<device, marker_seq, fence_queue_waiters, seqno_valid, goal_irq_on,
                 goal_irq_mutex, fifo_down, work, action, closed, ret, seen, isr, worker>>

\* The fence object could not be made (no memory, or fifo_down): the caller
\* polls vmw_update_seqno in vmw_fallback_wait until the number has passed or
\* a timeout, and goes on without a fence.  One poll stands for all.
CreateFails(t) ==
  /\ pc[t] = "create"
  /\ ret' = [ret EXCEPT ![t] = "nofence"]
  /\ Goto(t, "sent")
  /\ UNCHANGED <<device, private, manager, objects, obj, seen, seqno, isr, worker>>

NoFence(t) ==
  /\ pc[t] = "nofence"
  /\ cmdbuf_mutex' = Unlocked(t)
  /\ seqno' = [seqno EXCEPT ![t] = 0]
  /\ Goto(t, "idle")
  /\ UNCHANGED <<device, marker_seq, fence_queue_waiters, manager, objects,
                 obj, ret, seen, isr, worker>>

-----------------------------------------------------------------------------
\* A thread that holds a reference on obj[t] ("have").

\* ttm_base_object_lookup of a handle and vmw_fence_obj_reference.
LookupFence(t) ==
  /\ pc[t] = "idle" /\ t \notin closed /\ t # PowerThread
  /\ \E f \in Fences :
       /\ Live(f) /\ fence[f].handle
       /\ fence' = [fence EXCEPT ![f].refs = @ + 1]
       /\ obj' = [obj EXCEPT ![t] = f]
  /\ Goto(t, "have")
  /\ UNCHANGED <<device, private, manager, action, closed, ret, seen, seqno, isr, worker>>

\* vmw_fence_obj_unreference of the thread's own reference.
PutFence(t) ==
  /\ pc[t] = "have" /\ t # PowerThread
  /\ fence' = Unreference(fence, obj[t])
  /\ fence_list' = ListAfterUnreference(obj[t])
  /\ obj' = [obj EXCEPT ![t] = NoOne]
  /\ Goto(t, "idle")
  /\ UNCHANGED <<device, private, seqno_valid, goal_irq_on, goal_irq_mutex, fifo_down,
                 work, action, closed, ret, seen, seqno, isr, worker>>

\* The last reference to a handle goes: vmw_user_fence_base_release.
DropHandle(f) ==
  /\ Live(f) /\ fence[f].handle
  /\ fence' = [Unreference(fence, f) EXCEPT ![f].handle = FALSE]
  /\ fence_list' = ListAfterUnreference(f)
  /\ UNCHANGED <<device, private, seqno_valid, goal_irq_on, goal_irq_mutex, fifo_down,
                 work, action, closed, control>>

\* vmw_fence_obj_signaled(obj[t]): an update if the fence is not signaled yet.
Query(t) ==
  /\ pc[t] = "have" /\ t # PowerThread /\ ~fence[obj[t]].signaled
  /\ ret' = [ret EXCEPT ![t] = "have"]
  /\ Goto(t, "read")
  /\ UNCHANGED <<device, private, manager, objects, obj, seen, seqno, isr, worker>>

-----------------------------------------------------------------------------
\* Events: vmw_event_fence_action_queue and vmw_fence_obj_add_action.

\* Seeded fault: the new action takes no reference.
NewAction_NoReference(t, state, event) ==
  /\ pc[t] = "have" /\ t # PowerThread
  /\ goal_irq_mutex = NoOne
  /\ \E a \in Actions :
       /\ action[a].state = "free"
       /\ action' = [action EXCEPT ![a] = [state |-> state, fence |-> obj[t],
                                           file |-> t, event |-> event]]
  /\ UNCHANGED fence

\* The new action holds a reference on its fence and is on its file's list.
NewAction(t, state, event) ==
  /\ pc[t] = "have" /\ t # PowerThread
  /\ goal_irq_mutex = NoOne
  /\ \E a \in Actions :
       /\ action[a].state = "free"
       /\ action' = [action EXCEPT ![a] = [state |-> state, fence |-> obj[t],
                                           file |-> t, event |-> event]]
  /\ fence' = [fence EXCEPT ![obj[t]].refs = @ + 1]

\* The fence has signaled: the action is performed at once.
AddToSignaled(t) ==
  /\ NewAction(t, "cleanup", "sent")
  /\ fence[obj[t]].signaled
  /\ UNCHANGED <<device, private, manager, closed, control>>

\* vmw_fence_goal_check_locked(f): is the goal to become the fence's number?
GoalCheck(f) == ~ (seqno_valid /\ Passed(FENCE_GOAL, fence[f].seqno))

\* It has not: the action waits, and the goal may have to move, in which case
\* goal_irq_mutex is held until the interrupt is on and an update has run.
AddToUnsignaled(t) ==
  /\ NewAction(t, "attached", "pending")
  /\ ~fence[obj[t]].signaled
  /\ IF GoalCheck(obj[t])
       THEN /\ FENCE_GOAL' = fence[obj[t]].seqno
            /\ seqno_valid' = TRUE
            /\ goal_irq_mutex' = t
            /\ Goto(t, "goalirq")
       ELSE UNCHANGED <<FENCE_GOAL, seqno_valid, goal_irq_mutex, pc>>
  /\ UNCHANGED <<commands, FENCE, irq_status, irq_mask, private, fence_list, goal_irq_on,
                 fifo_down, work, closed, Locals>>

\* vmw_goal_waiter_add clears a stale status bit before it unmasks the
\* interrupt; then vmw_fences_update looks whether the goal has passed already.
GoalIrqOn(t) ==
  /\ pc[t] = "goalirq"
  /\ goal_irq_on' = TRUE
  /\ IF goal_irq_on THEN UNCHANGED <<irq_status, irq_mask>>
       ELSE /\ irq_status' = irq_status \ {"FENCE_GOAL"}
            /\ irq_mask' = irq_mask \cup {"FENCE_GOAL"}
  /\ ret' = [ret EXCEPT ![t] = "added"]
  /\ Goto(t, "read")
  /\ UNCHANGED <<commands, FENCE, FENCE_GOAL, private, fence_list, seqno_valid,
                 goal_irq_mutex, fifo_down, work, objects, obj, seen, seqno, isr, worker>>

AddDone(t) ==
  /\ pc[t] = "added"
  /\ goal_irq_mutex' = NoOne
  /\ Goto(t, "have")
  /\ UNCHANGED <<device, private, fence_list, seqno_valid, goal_irq_on, fifo_down, work,
                 objects, obj, ret, seen, seqno, isr, worker>>

-----------------------------------------------------------------------------
\* vmw_fence_obj_wait(obj[t]): thread t has found the fence unsignaled in a
\* first vmw_fence_obj_signaled ("waitadd"), switches the ANY_FENCE interrupt
\* on and looks again ("waitcheck") each time fence->queue is woken.

BeginWait(t) ==
  /\ pc[t] = "have" /\ t \in MayWait \ {PowerThread} /\ ~fence[obj[t]].signaled
  /\ ret' = [ret EXCEPT ![t] = "waitadd"]
  /\ Goto(t, "read")
  /\ UNCHANGED <<device, private, manager, objects, obj, seen, seqno, isr, worker>>

\* vmw_seqno_waiter_add, if the update has not signaled the fence.
WaiterAdd(t) ==
  /\ pc[t] = "waitadd" /\ ~fence[obj[t]].signaled
  /\ fence_queue_waiters' = fence_queue_waiters + 1
  /\ IF fence_queue_waiters > 0 THEN UNCHANGED <<irq_status, irq_mask>>
       ELSE /\ irq_status' = irq_status \ {"ANY_FENCE"}
            /\ irq_mask' = irq_mask \cup {"ANY_FENCE"}
  /\ ret' = [ret EXCEPT ![t] = "waitcheck"]
  /\ Goto(t, "read")
  /\ UNCHANGED <<commands, FENCE, FENCE_GOAL, marker_seq, cmdbuf_mutex,
                 manager, objects, obj, seen, seqno, isr, worker>>

WaitNotNeeded(t) ==
  /\ pc[t] = "waitadd" /\ fence[obj[t]].signaled
  /\ Goto(t, "have")
  /\ UNCHANGED <<device, private, manager, objects, Locals>>

\* The condition of wait_event_timeout: true, or go to sleep.
WaitCheck(t) ==
  /\ pc[t] = "waitcheck"
  /\ Goto(t, IF fence[obj[t]].signaled THEN "waitdone" ELSE "asleep")
  /\ UNCHANGED <<device, private, manager, objects, Locals>>

\* fence->queue is woken by the step that signals the fence.
WaitWoken(t) ==
  /\ pc[t] = "asleep" /\ fence[obj[t]].signaled
  /\ Goto(t, "waitdone")
  /\ UNCHANGED <<device, private, manager, objects, Locals>>

WaitTimeout(t) ==
  /\ pc[t] = "asleep"
  /\ Goto(t, "waitdone")
  /\ UNCHANGED <<device, private, manager, objects, Locals>>

\* vmw_seqno_waiter_remove
WaiterRemove(t) ==
  /\ pc[t] = "waitdone"
  /\ fence_queue_waiters' = fence_queue_waiters - 1
  /\ irq_mask' = IF fence_queue_waiters = 1 THEN irq_mask \ {"ANY_FENCE"} ELSE irq_mask
  /\ Goto(t, "have")
  /\ UNCHANGED <<commands, FENCE, FENCE_GOAL, irq_status, marker_seq,
                 cmdbuf_mutex, manager, objects, Locals>>

-----------------------------------------------------------------------------
\* vmw_event_fence_fpriv_gone: the thread's file is being closed.

BeginClose(t) ==
  /\ pc[t] = "idle" /\ t \notin closed /\ t # PowerThread
  /\ closed' = closed \cup {t}
  /\ Goto(t, "closing")
  /\ UNCHANGED <<device, private, manager, fence, action, Locals>>

PendingEvents(t) == {a \in Actions : action[a].file = t /\ action[a].event = "pending"}

\* One event of the file's fence_events list, in a critical section of its own.
CloseEvent(t) ==
  /\ pc[t] = "closing"
  /\ \E a \in PendingEvents(t) : action' = [action EXCEPT ![a].event = "destroyed"]
  /\ UNCHANGED <<device, private, manager, fence, closed, control>>

EndClose(t) ==
  /\ pc[t] = "closing" /\ PendingEvents(t) = {}
  /\ Goto(t, "idle")
  /\ UNCHANGED <<device, private, manager, objects, Locals>>

-----------------------------------------------------------------------------
\* vmw_fence_work_func

PrivateList == {a \in Actions : action[a].state = "private"}

\* Take the cleanup list over, at first or again, and note whether the goal is in use.
WorkSplice ==
  /\ worker.pc = "splice" \/ (worker.pc = "idle" /\ work)
  /\ work' = IF worker.pc = "idle" THEN FALSE ELSE work
  /\ goal_irq_mutex = NoOne /\ goal_irq_mutex' = Worker
  /\ action' = [a \in Actions |-> IF a \in CleanupList
                                    THEN [action[a] EXCEPT !.state = "private"]
                                    ELSE action[a]]
  /\ worker' = [pc |-> "goalirq", valid |-> seqno_valid]
  /\ UNCHANGED <<device, private, fence_list, seqno_valid, goal_irq_on, fifo_down,
                 fence, closed, pc, obj, ret, seen, seqno, isr>>

\* Seeded faults: the interrupt goes off whether the goal is in use or not, or
\* the spliced actions are forgotten.
WorkGoalIrqOff_Always ==
  /\ worker.pc = "goalirq"
  /\ goal_irq_on' = FALSE
  /\ irq_mask' = irq_mask \ {"FENCE_GOAL"}
  /\ goal_irq_mutex' = NoOne
  /\ worker' = [pc |-> IF PrivateList = {} THEN "idle" ELSE "cleanup", valid |-> FALSE]
  /\ UNCHANGED <<commands, FENCE, FENCE_GOAL, irq_status, private, fence_list, seqno_valid,
                 fifo_down, work, objects, pc, obj, ret, seen, seqno, isr>>

WorkGoalIrqOff_Forgets ==
  /\ worker.pc = "goalirq"
  /\ IF ~worker.valid /\ goal_irq_on
       THEN /\ goal_irq_on' = FALSE
            /\ irq_mask' = irq_mask \ {"FENCE_GOAL"}
       ELSE UNCHANGED <<goal_irq_on, irq_mask>>
  /\ goal_irq_mutex' = NoOne
  /\ worker' = [pc |-> "idle", valid |-> FALSE]
  /\ UNCHANGED <<commands, FENCE, FENCE_GOAL, irq_status, private, fence_list, seqno_valid,
                 fifo_down, work, objects, pc, obj, ret, seen, seqno, isr>>

\* vmw_goal_waiter_remove if it is not.
WorkGoalIrqOff ==
  /\ worker.pc = "goalirq"
  /\ IF ~worker.valid /\ goal_irq_on
       THEN /\ goal_irq_on' = FALSE
            /\ irq_mask' = irq_mask \ {"FENCE_GOAL"}
       ELSE UNCHANGED <<goal_irq_on, irq_mask>>
  /\ goal_irq_mutex' = NoOne
  /\ worker' = [pc |-> IF PrivateList = {} THEN "idle" ELSE "cleanup", valid |-> FALSE]
  /\ UNCHANGED <<commands, FENCE, FENCE_GOAL, irq_status, private, fence_list, seqno_valid,
                 fifo_down, work, objects, pc, obj, ret, seen, seqno, isr>>

\* vmw_event_fence_action_cleanup of one action; after the last, start over.
WorkCleanup ==
  /\ worker.pc = "cleanup"
  /\ \E a \in PrivateList :
       /\ action' = [action EXCEPT ![a] = [@ EXCEPT !.state = "done", !.fence = NoOne]]
       /\ fence' = Unreference(fence, action[a].fence)
       /\ fence_list' = ListAfterUnreference(action[a].fence)
       /\ worker' = [worker EXCEPT !.pc = IF PrivateList = {a} THEN "splice" ELSE "cleanup"]
  /\ UNCHANGED <<device, private, seqno_valid, goal_irq_on, goal_irq_mutex, fifo_down, work,
                 closed, pc, obj, ret, seen, seqno, isr>>

-----------------------------------------------------------------------------
\* The device and its interrupt.

\* svga_reg.h, SVGA_CMD_FENCE: copy the number to the register, interrupt if
\* it equals the goal.  Only enabled interrupts raise a status bit.
DeviceFence ==
  /\ commands # <<>>
  /\ FENCE' = Head(commands)
  /\ commands' = Tail(commands)
  /\ irq_status' = irq_status \cup
       {i \in irq_mask : i = "FENCE_GOAL" => Head(commands) = FENCE_GOAL}
  /\ UNCHANGED <<FENCE_GOAL, irq_mask, private, manager, objects, control>>

\* vmw_irq_handler reads the status and applies irq_mask under irq_lock.  The
\* line is shared, so a status that is no longer unmasked is seen as well.
IrqRead ==
  /\ pc[Isr] = "idle" /\ irq_status # {}
  /\ isr' = [status |-> irq_status, masked |-> irq_status \cap irq_mask]
  /\ Goto(Isr, "ack")
  /\ UNCHANGED <<device, private, manager, objects, obj, ret, seen, seqno, worker>>

\* It acknowledges what it read after the lock is released.
IrqAck ==
  /\ pc[Isr] = "ack"
  /\ irq_status' = irq_status \ isr.status
  /\ isr' = [status |-> {}, masked |-> {}]
  /\ Goto(Isr, IF isr.masked = {} THEN "idle" ELSE "read")
  /\ UNCHANGED <<commands, FENCE, FENCE_GOAL, irq_mask, private, manager, objects,
                 obj, ret, seen, seqno, worker>>

-----------------------------------------------------------------------------
\* vmw_fence_fifo_down and vmw_fence_manager_takedown, by the PowerThread.

FifoDown(t) ==
  /\ t = PowerThread /\ pc[t] = "idle" /\ ~fifo_down
  /\ fifo_down' = TRUE
  /\ Goto(t, "down")
  /\ UNCHANGED <<device, private, fence_list, seqno_valid, goal_irq_on, goal_irq_mutex,
                 work, objects, Locals>>

\* Take a reference on the last fence of the list and call vmw_fence_obj_wait
\* for it; the wait ends in "have".
DownNext(t) ==
  /\ t = PowerThread /\ pc[t] = "down"
  /\ IF fence_list = <<>>
       THEN Goto(t, "idle") /\ UNCHANGED <<fence, obj, ret>>
       ELSE LET f == fence_list[Len(fence_list)] IN
              /\ fence' = [fence EXCEPT ![f].refs = @ + 1]
              /\ obj' = [obj EXCEPT ![t] = f]
              /\ ret' = [ret EXCEPT ![t] = "waitadd"]
              /\ Goto(t, "read")
  /\ UNCHANGED <<device, private, manager, action, closed, seen, seqno, isr, worker>>

\* The wait timed out: signal the fence by force.  fman->lock is not held.
DownForce(t) ==
  /\ t = PowerThread /\ pc[t] = "have" /\ ~fence[obj[t]].signaled
  /\ fence_list' = Without(fence_list, obj[t])
  /\ fence' = [fence EXCEPT ![obj[t]].signaled = TRUE, ![obj[t]].forced = TRUE]
  /\ action' = Perform({obj[t]})
  /\ UNCHANGED <<device, private, seqno_valid, goal_irq_on, goal_irq_mutex, fifo_down, work,
                 closed, control>>

DownPut(t) ==
  /\ t = PowerThread /\ pc[t] = "have" /\ fence[obj[t]].signaled
  /\ fence' = Unreference(fence, obj[t])
  /\ fence_list' = ListAfterUnreference(obj[t])
  /\ obj' = [obj EXCEPT ![t] = NoOne]
  /\ Goto(t, "down")
  /\ UNCHANGED <<device, private, seqno_valid, goal_irq_on, goal_irq_mutex, fifo_down, work,
                 action, closed, ret, seen, seqno, isr, worker>>

\* Driver unload: every file is closed and cancel_work_sync has waited for a
\* running work item and dropped a queued one.
Takedown(t) ==
  /\ t = PowerThread /\ pc[t] = "idle" /\ fifo_down
  /\ \A u \in Threads \ {t} : u \in closed /\ pc[u] = "idle"
  /\ worker.pc = "idle"
  /\ work' = FALSE
  /\ Goto(t, "gone")
  /\ UNCHANGED <<device, private, fence_list, seqno_valid, goal_irq_on, goal_irq_mutex,
                 fifo_down, objects, Locals>>

-----------------------------------------------------------------------------
Update(c) == ReadFence(c) \/ UpdateLocked(c) \/ RereadFence(c)

\* A call made by user-space; nothing obliges a client to make one.
Call(t) ==
  \/ SendFence(t) \/ LookupFence(t) \/ Query(t) \/ BeginWait(t)
  \/ AddToSignaled(t) \/ AddToUnsignaled(t)
  \/ BeginClose(t) \/ FifoDown(t) \/ Takedown(t)

\* A step of a call under way.
Continue(t) ==
  \/ UpdateSeqno(t) \/ CreateFence(t) \/ CreateFails(t) \/ NoFence(t) \/ PutFence(t)
  \/ GoalIrqOn(t) \/ AddDone(t)
  \/ WaiterAdd(t) \/ WaitNotNeeded(t) \/ WaitCheck(t) \/ WaitWoken(t)
  \/ WaitTimeout(t) \/ WaiterRemove(t)
  \/ CloseEvent(t) \/ EndClose(t)
  \/ DownNext(t) \/ DownForce(t) \/ DownPut(t)

Irq == IrqRead \/ IrqAck
Work == WorkSplice \/ WorkGoalIrqOff \/ WorkCleanup

Next ==
  \/ \E t \in Threads : Call(t) \/ Continue(t)
  \/ \E c \in Contexts : Update(c)
  \/ \E f \in Fences : DropHandle(f)
  \/ Irq \/ Work \/ DeviceFence

\* Calls that have begun are scheduled, the device makes progress, an asserted
\* interrupt is delivered and a scheduled work item runs.  Nobody has to call.
Fairness ==
  /\ \A t \in Threads : WF_vars(Continue(t))
  /\ \A c \in Contexts : WF_vars(Update(c))
  /\ WF_vars(irq_status \cap irq_mask # {} /\ IrqRead)
  /\ WF_vars(IrqAck) /\ WF_vars(Work) /\ WF_vars(DeviceFence)

Spec == Init /\ [][Next]_vars
FairSpec == Spec /\ Fairness

-----------------------------------------------------------------------------
FenceRecord == [state : {"free", "live", "freed"}, seqno : Seqnos, refs : Nat,
                handle : BOOLEAN, signaled : BOOLEAN, forced : BOOLEAN]
ActionRecord == [state : {"free", "attached", "cleanup", "private", "done"},
                 fence : Fences \cup {NoOne}, file : Threads \cup {NoOne},
                 event : {"none", "pending", "sent", "destroyed"}]
Labels == {"idle", "sent", "create", "nofence", "have", "goalirq", "added",
           "read", "update", "reread", "waitadd", "waitcheck", "asleep", "waitdone",
           "closing", "down", "gone", "ack"}
Interrupts == {"ANY_FENCE", "FENCE_GOAL"}

TypeOK ==
  /\ commands \in Seq(Seqnos) /\ FENCE \in Seqnos /\ FENCE_GOAL \in Seqnos
  /\ irq_status \subseteq Interrupts /\ irq_mask \subseteq Interrupts
  /\ marker_seq \in Seqnos
  /\ cmdbuf_mutex \in Threads \cup {NoOne} /\ fence_queue_waiters \in Nat
  /\ fence_list \in Seq(Fences) /\ seqno_valid \in BOOLEAN /\ goal_irq_on \in BOOLEAN
  /\ goal_irq_mutex \in Threads \cup {Worker, NoOne}
  /\ fifo_down \in BOOLEAN /\ work \in BOOLEAN
  /\ fence \in [Fences -> FenceRecord] /\ action \in [Actions -> ActionRecord]
  /\ closed \subseteq Threads
  /\ pc \in [Contexts -> Labels] /\ ret \in [Contexts -> Labels]
  /\ obj \in [Threads -> Fences \cup {NoOne}]
  /\ seen \in [Contexts -> Seqnos] /\ seqno \in [Threads -> Seqnos]
  /\ isr \in [status : SUBSET Interrupts, masked : SUBSET Interrupts]
  /\ worker \in [pc : {"idle", "splice", "goalirq", "cleanup"}, valid : BOOLEAN]

\* A fence is signaled only when the device has executed its command, unless
\* vmw_fence_fifo_down gave up on the device: no client sees its buffers idle
\* too early, whatever register value an update was holding.
SignaledHasPassed ==
  \A f \in Fences : Live(f) /\ fence[f].signaled /\ ~fence[f].forced =>
    Passed(FENCE, fence[f].seqno)

\* kref: the counter of a live fence equals the references that exist, and no
\* thread or action still points to a freed fence ("a referenced pointer to
\* the fence to keep it alive while action hangs on it").
Holders(f) ==
  Cardinality({t \in Threads : obj[t] = f}) + Cardinality({a \in Actions : action[a].fence = f})
    + IF fence[f].handle THEN 1 ELSE 0
RefsAreHolders ==
  \A f \in Fences : fence[f].refs = Holders(f) /\ (Live(f) <=> Holders(f) > 0)

\* "The fence goal seqno irq is on as long as there are unsignaled fence
\* objects with actions attached to them": add_action, the update of another
\* thread or the interrupt, and the work item that switches the interrupt off
\* never leave an action waiting with the goal invalid or the irq masked.
GoalIrqArmed ==
  (\E a \in Actions : action[a].state = "attached") =>
    /\ seqno_valid
    /\ \/ goal_irq_on /\ "FENCE_GOAL" \in irq_mask
       \/ goal_irq_mutex \in Threads /\ pc[goal_irq_mutex] = "goalirq"

\* While it is valid the goal is the number of a listed fence with an action:
\* the device is never left to wait for a number that nobody emits again.
GoalNamesAction ==
  seqno_valid /\ ~fifo_down =>
    \E i \in DOMAIN fence_list :
      Attached(fence_list[i]) # {} /\ fence[fence_list[i]].seqno = FENCE_GOAL

\* The device raises the goal interrupt for a fence that somebody waits for, as
\* long as somebody does (vmw_fence_goal_check_locked, vmw_fence_goal_new_locked,
\* vmw_fence_work_func).
GoalWatchesAction == GoalIrqArmed /\ GoalNamesAction

\* Fences signal in the order of their numbers: vmw_fences_update stops at the
\* first fence that has not passed, which is right only because cmdbuf_mutex
\* keeps fence_list in the order in which the commands were emitted.
SignaledInOrder ==
  \A f, g \in Fences :
    Live(f) /\ Live(g) /\ fence[g].signaled /\ ~fence[g].forced
      /\ Passed(fence[g].seqno, fence[f].seqno) => fence[f].signaled

\* An event goes to its file at most once, when the action's fence has signaled,
\* and never after vmw_event_fence_fpriv_gone has finished with the file: the
\* update that sends it races with the close that destroys it.
FileGone(t) == t \in closed /\ pc[t] = "idle"
EventsSentProperly ==
  [][\A a \in Actions :
       action'[a].event # action[a].event =>
         /\ action[a].event \in {"none", "pending"}
         /\ action'[a].event = "sent" =>
              fence'[action'[a].fence].signaled /\ ~FileGone(action'[a].file)]_vars

\* No update leaves an action behind whose fence had passed in the register
\* value it used, in whatever order updates, submissions and attachments run:
\* the walk over fence_list stops early, and the goal interrupt has been spent.
UpdatePerformsPassed ==
  [][\A c \in Contexts : pc[c] = "update" /\ pc'[c] # "update" =>
       \A a \in Actions : action'[a].state = "attached" =>
         ~Passed(seen[c], fence[action[a].fence].seqno)]_vars

\* The work item cleans up every action that was performed when it was
\* scheduled, so that its fence can be freed; only the takedown of the manager
\* cancels it.
WorkCleansUp ==
  \A a \in Actions :
    (action[a].state = "cleanup" /\ work)
    ~> (action[a].state = "done" \/ \E t \in Threads : pc[t] = "gone")
=============================================================================
