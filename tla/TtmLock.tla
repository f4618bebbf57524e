------------------------------- MODULE TtmLock -------------------------------
(***************************************************************************)
(* The TTM lock of ttm/ttm_lock.c: a read/write lock with two further      *)
(* exclusive modes, "vt" and "suspend", built from a counter rw, a word of *)
(* flags, one spinlock and one wait queue.  The driver has two kinds of    *)
(* lock: dev_priv->reservation_sem (read, write and suspend takers) and    *)
(* the lock of every vmw_master (read and vt takers).                      *)
(*                                                                         *)
(* One action is one critical section of lock->lock.  A taker inside       *)
(* wait_event() is "trying" while the scheduler may run its condition and  *)
(* "asleep" between a failed evaluation and the next wake_up_all().        *)
(***************************************************************************)
EXTENDS Integers, FiniteSets

CONSTANTS
  Readers,      \* threads that take the lock with ttm_read_lock
  Writers,      \* threads that take it with ttm_write_lock
  Vters,        \* threads that take it with ttm_vt_lock
  Suspenders    \* threads that take it with ttm_suspend_lock

Threads == Readers \cup Writers \cup Vters \cup Suspenders

(***************************************************************************)
(* Every call site asks for one mode, so a thread has one role.  The       *)
(* callers of ttm_vt_lock hold drm's master_mutex and a suspended system   *)
(* does not suspend again, so each of these modes has one taker at a time. *)
(***************************************************************************)
ASSUME RolesAssumption ==
  /\ \A t \in Readers : t \notin Writers \cup Vters \cup Suspenders
  /\ \A t \in Writers : t \notin Vters \cup Suspenders
  /\ \A t \in Vters : t \notin Suspenders
  /\ \A t, u \in Vters : t = u
  /\ \A t, u \in Suspenders : t = u
ASSUME FiniteAssumption == IsFiniteSet(Threads)

WritePending   == "TTM_WRITE_LOCK_PENDING"
VtPending      == "TTM_VT_LOCK_PENDING"
SuspendPending == "TTM_SUSPEND_LOCK_PENDING"
VtLock         == "TTM_VT_LOCK"
SuspendLock    == "TTM_SUSPEND_LOCK"
Flags == {WritePending, VtPending, SuspendPending, VtLock, SuspendLock}

VARIABLES
  rw,           \* lock->rw: number of readers, or -1 for a writer
  flags,        \* lock->flags
  kill_takers,  \* lock->kill_takers
  signalled,    \* the threads with a signal pending
  pc,           \* what each thread is doing
  vt_base       \* the vt holder's base object exists (lock->base)

vars == <<rw, flags, kill_takers, signalled, pc, vt_base>>

PcValues ==
  {"idle",      \* does not hold the lock and does not want it
   "trying",    \* in wait_event, about to evaluate the condition
   "asleep",    \* in wait_event, put to sleep by a failed evaluation
   "withdraw",  \* an interrupted writer or vt taker about to undo PENDING
   "read", "write", "vtinit", "vt", "suspend"}  \* holds the lock

Init ==
  /\ rw = 0
  /\ flags = {}
  /\ kill_takers \in BOOLEAN
  /\ signalled = {}
  /\ pc = [t \in Threads |-> "idle"]
  /\ vt_base = FALSE

-----------------------------------------------------------------------------
\* wake_up_all(&lock->queue), applied to the pc's a step leaves behind.
WakeUpAll(p) == [t \in Threads |-> IF p[t] = "asleep" THEN "trying" ELSE p[t]]

\* A taker enters wait_event(): it is going to evaluate the condition.
Request(t) ==
  /\ pc[t] = "idle"
  /\ pc' = [pc EXCEPT ![t] = "trying"]
  /\ UNCHANGED <<rw, flags, kill_takers, signalled, vt_base>>

\* The evaluation fails: the taker sleeps until somebody wakes the queue.
FallAsleep(t) == pc' = [pc EXCEPT ![t] = "asleep"]

\* kill_takers: the taker gets lock->signal and the evaluation fails.
TryKilled(t) ==
  /\ t \in Readers \cup Writers
  /\ pc[t] = "trying"
  /\ kill_takers
  /\ signalled' = signalled \cup {t}
  /\ FallAsleep(t)
  /\ UNCHANGED <<rw, flags, kill_takers, vt_base>>

\* Seeded fault: a reader heeds the holders' flags only.
TryRead_IgnoresPending(t) ==
  /\ t \in Readers
  /\ pc[t] = "trying"
  /\ ~kill_takers
  /\ IF rw >= 0 /\ flags \cap {VtLock, SuspendLock} = {}
       THEN /\ rw' = rw + 1
            /\ pc' = [pc EXCEPT ![t] = "read"]
       ELSE FallAsleep(t) /\ UNCHANGED rw
  /\ UNCHANGED <<flags, kill_takers, signalled, vt_base>>

\* __ttm_read_lock
TryRead(t) ==
  /\ t \in Readers
  /\ pc[t] = "trying"
  /\ ~kill_takers
  /\ IF rw >= 0 /\ flags = {}
       THEN /\ rw' = rw + 1
            /\ pc' = [pc EXCEPT ![t] = "read"]
       ELSE FallAsleep(t) /\ UNCHANGED rw
  /\ UNCHANGED <<flags, kill_takers, signalled, vt_base>>

\* Seeded fault: a writer heeds the holders' flags only.
TryWrite_IgnoresPending(t) ==
  /\ t \in Writers
  /\ pc[t] = "trying"
  /\ ~kill_takers
  /\ IF rw = 0 /\ flags \cap {VtLock, SuspendLock} = {}
       THEN /\ rw' = -1
            /\ flags' = flags \ {WritePending}
            /\ pc' = [pc EXCEPT ![t] = "write"]
       ELSE /\ flags' = flags \cup {WritePending}
            /\ FallAsleep(t)
            /\ UNCHANGED rw
  /\ UNCHANGED <<kill_takers, signalled, vt_base>>

\* __ttm_write_lock
TryWrite(t) ==
  /\ t \in Writers
  /\ pc[t] = "trying"
  /\ ~kill_takers
  /\ IF rw = 0 /\ flags \subseteq {WritePending}
       THEN /\ rw' = -1
            /\ flags' = flags \ {WritePending}
            /\ pc' = [pc EXCEPT ![t] = "write"]
       ELSE /\ flags' = flags \cup {WritePending}
            /\ FallAsleep(t)
            /\ UNCHANGED rw
  /\ UNCHANGED <<kill_takers, signalled, vt_base>>

\* __ttm_vt_lock and __ttm_suspend_lock: both only look at rw.
TryExclusive(t, pending, held, next) ==
  /\ pc[t] = "trying"
  /\ IF rw = 0
       THEN /\ flags' = (flags \ {pending}) \cup {held}
            /\ pc' = [pc EXCEPT ![t] = next]
       ELSE /\ flags' = flags \cup {pending}
            /\ FallAsleep(t)
  /\ UNCHANGED <<rw, kill_takers, signalled, vt_base>>

TryVt(t) == t \in Vters /\ TryExclusive(t, VtPending, VtLock, "vtinit")
TrySuspend(t) ==
  t \in Suspenders /\ TryExclusive(t, SuspendPending, SuspendLock, "suspend")

-----------------------------------------------------------------------------
\* A signal reaches a taker that waits interruptibly: it stops waiting.  A
\* reader just returns -ERESTARTSYS, the others have PENDING to clear first.
\* A suspend taker uses wait_event() and cannot be interrupted.
Interrupt(t) ==
  /\ t \in Readers \cup Writers \cup Vters
  /\ pc[t] = "asleep"
  /\ pc' = [pc EXCEPT ![t] = IF t \in Readers THEN "idle" ELSE "withdraw"]
  /\ signalled' = signalled \ {t}
  /\ UNCHANGED <<rw, flags, kill_takers, vt_base>>

\* Seeded faults: the error path leaves the PENDING bit, or wakes nobody.
Withdraw_LeavesPending(t) ==
  /\ pc[t] = "withdraw"
  /\ pc' = WakeUpAll([pc EXCEPT ![t] = "idle"])
  /\ UNCHANGED <<rw, flags, kill_takers, signalled, vt_base>>

Withdraw_WakesNobody(t) ==
  /\ pc[t] = "withdraw"
  /\ flags' = flags \ {IF t \in Writers THEN WritePending ELSE VtPending}
  /\ pc' = [pc EXCEPT ![t] = "idle"]
  /\ UNCHANGED <<rw, kill_takers, signalled, vt_base>>

\* The error path of ttm_write_lock and ttm_vt_lock: the PENDING bit is
\* shared by all waiters of the mode, so all of them are made to look again.
Withdraw(t) ==
  /\ pc[t] = "withdraw"
  /\ flags' = flags \ {IF t \in Writers THEN WritePending ELSE VtPending}
  /\ pc' = WakeUpAll([pc EXCEPT ![t] = "idle"])
  /\ UNCHANGED <<rw, kill_takers, signalled, vt_base>>

-----------------------------------------------------------------------------
\* ttm_read_unlock: only the last reader wakes the queue.
ReadUnlock(t) ==
  /\ pc[t] = "read"
  /\ rw' = rw - 1
  /\ pc' = IF rw = 1 THEN WakeUpAll([pc EXCEPT ![t] = "idle"])
                     ELSE [pc EXCEPT ![t] = "idle"]
  /\ UNCHANGED <<flags, kill_takers, signalled, vt_base>>

\* Seeded fault: the writer's unlock counts down as a reader's does.
WriteUnlock_CountsDown(t) ==
  /\ pc[t] = "write"
  /\ rw' = rw - 1
  /\ pc' = WakeUpAll([pc EXCEPT ![t] = "idle"])
  /\ UNCHANGED <<flags, kill_takers, signalled, vt_base>>

\* ttm_write_unlock
WriteUnlock(t) ==
  /\ pc[t] = "write"
  /\ rw' = 0
  /\ pc' = WakeUpAll([pc EXCEPT ![t] = "idle"])
  /\ UNCHANGED <<flags, kill_takers, signalled, vt_base>>

\* Seeded fault: the downgraded writer is not counted as a reader.
Downgrade_Uncounted(t) ==
  /\ pc[t] = "write"
  /\ rw' = 0
  /\ pc' = WakeUpAll([pc EXCEPT ![t] = "read"])
  /\ UNCHANGED <<flags, kill_takers, signalled, vt_base>>

\* ttm_write_lock_downgrade: the writer goes on as a reader.
Downgrade(t) ==
  /\ pc[t] = "write"
  /\ rw' = 1
  /\ pc' = WakeUpAll([pc EXCEPT ![t] = "read"])
  /\ UNCHANGED <<flags, kill_takers, signalled, vt_base>>

\* __ttm_vt_unlock and ttm_suspend_unlock
ClearHeld(t, held) ==
  /\ flags' = flags \ {held}
  /\ pc' = WakeUpAll([pc EXCEPT ![t] = "idle"])

SuspendUnlock(t) ==
  /\ pc[t] = "suspend"
  /\ ClearHeld(t, SuspendLock)
  /\ UNCHANGED <<rw, kill_takers, signalled, vt_base>>

\* The tail of ttm_vt_lock: the base object whose destructor unlocks.
VtBaseInit(t) ==
  /\ pc[t] = "vtinit"
  /\ vt_base' = TRUE
  /\ pc' = [pc EXCEPT ![t] = "vt"]
  /\ UNCHANGED <<rw, flags, kill_takers, signalled>>

\* ... and its failure, which gives the lock up again.
VtBaseFail(t) ==
  /\ pc[t] = "vtinit"
  /\ ClearHeld(t, VtLock)
  /\ UNCHANGED <<rw, kill_takers, signalled, vt_base>>

\* ttm_vt_unlock, or the death of the holder's file: the last reference to
\* the base object goes and ttm_vt_lock_remove unlocks.
VtUnlock(t) ==
  /\ pc[t] = "vt"
  /\ vt_base' = FALSE
  /\ ClearHeld(t, VtLock)
  /\ UNCHANGED <<rw, kill_takers, signalled>>

\* ttm_lock_set_kill, called without the spinlock.
SetKill(val) ==
  /\ kill_takers # val
  /\ kill_takers' = val
  /\ UNCHANGED <<rw, flags, signalled, pc, vt_base>>

-----------------------------------------------------------------------------
Try(t) ==
  TryKilled(t) \/ TryRead(t) \/ TryWrite(t) \/ TryVt(t) \/ TrySuspend(t)

Release(t) ==
  \/ ReadUnlock(t) \/ WriteUnlock(t) \/ SuspendUnlock(t)
  \/ VtBaseInit(t) \/ VtBaseFail(t) \/ VtUnlock(t)

Next ==
  \/ \E t \in Threads :
       Request(t) \/ Try(t) \/ Interrupt(t) \/ Withdraw(t)
       \/ Release(t) \/ Downgrade(t)
  \/ \E val \in BOOLEAN : SetKill(val)

\* A runnable thread is scheduled, holders leave their critical sections, and
\* a thread with a signal pending does not sleep on.
Fairness ==
  \A t \in Threads :
    /\ WF_vars(Try(t))
    /\ WF_vars(Release(t))
    /\ WF_vars(Withdraw(t))
    /\ WF_vars(t \in signalled /\ Interrupt(t))

Spec == Init /\ [][Next]_vars
FairSpec == Spec /\ Fairness

-----------------------------------------------------------------------------
TypeOK ==
  /\ rw \in Nat \cup {-1}
  /\ flags \subseteq Flags
  /\ kill_takers \in BOOLEAN
  /\ signalled \subseteq Threads
  /\ pc \in [Threads -> PcValues]
  /\ vt_base \in BOOLEAN

In(S) == {t \in Threads : pc[t] \in S}

\* ttm_lock.h promises a read-write lock with two more exclusive modes: the
\* counter and flag word describe who holds it, whatever order takers,
\* interrupted takers and releases run in.  A stray rw = 0 or a flag cleared
\* by the wrong thread lets two incompatible holders in.
MutualExclusion ==
  /\ \A t, u \in In({"write"}) : t = u
  /\ In({"write"}) # {} => In({"read", "vtinit", "vt", "suspend"}) = {}
  /\ In({"read"}) # {} => In({"vtinit", "vt", "suspend"}) = {}

\* A PENDING bit shuts new readers out, so it may only be set while a taker
\* of that mode is still in its wait: a bit left behind by a taker that was
\* interrupted or granted the lock would block readers for ever.
PendingHasWaiter ==
  LET Waiting(S) == \E t \in S : pc[t] \in {"trying", "asleep", "withdraw"}
  IN /\ WritePending \in flags => Waiting(Writers)
     /\ VtPending \in flags => Waiting(Vters)
     /\ SuspendPending \in flags => Waiting(Suspenders)

\* A thread sleeps only while its condition is false: every step that makes a
\* condition true also wakes the queue.  (kill_takers does not: a taker that
\* was killed sleeps until its signal interrupts it.)
NoLostWakeup ==
  \A t \in Threads \ signalled :
    pc[t] = "asleep" =>
      /\ t \in Readers => rw < 0 \/ flags # {}
      /\ t \in Writers => rw # 0 \/ ~(flags \subseteq {WritePending})
      /\ t \in Vters \cup Suspenders => rw # 0

\* Waiting exclusive takers are not overtaken: no step admits a reader while
\* a writer, vt or suspend taker that nobody interrupted or killed is asleep,
\* although one interrupted writer clears the bit all writers share.
NoReaderOvertakes ==
  [][(\E r \in Readers : pc[r] # "read" /\ pc'[r] = "read" /\ pc[r] # "write")
       => \A t \in Threads \ (Readers \cup signalled) : pc[t] # "asleep"]_vars

\* A suspend taker gets the lock in the end: its PENDING bit keeps readers and
\* writers out until the holders have left.  ttm_suspend_lock cannot be
\* interrupted and the system's suspend hangs with it.
SuspendGranted ==
  \A t \in Suspenders : pc[t] = "trying" ~> pc[t] = "suspend"
=============================================================================
