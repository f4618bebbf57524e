---------------------------- MODULE TtmLockProof ----------------------------
(***************************************************************************)
(* Proofs about TtmLock for any number of readers and writers.             *)
(*                                                                         *)
(* MutualExclusion is not inductive: it says nothing about rw and flags,   *)
(* which is all that a taker looks at.  LockWord adds what the two fields  *)
(* say about the holders, and HoldersHaveRoles who can be a holder.        *)
(***************************************************************************)
EXTENDS TtmLock, FiniteSetTheorems, TLAPS

\* TypeOK but for the range of rw, which only LockWord knows.
FieldTypes ==
  /\ rw \in Int
  /\ flags \subseteq Flags
  /\ kill_takers \in BOOLEAN
  /\ signalled \subseteq Threads
  /\ pc \in [Threads -> PcValues]
  /\ vt_base \in BOOLEAN

\* Threads get into a place of the code only through the call of their role.
HoldersHaveRoles ==
  \A t \in Threads :
    /\ pc[t] = "read" => t \in Readers \cup Writers
    /\ pc[t] = "write" => t \in Writers
    /\ pc[t] \in {"vtinit", "vt"} => t \in Vters
    /\ pc[t] = "suspend" => t \in Suspenders
    /\ pc[t] = "withdraw" => t \in Writers \cup Vters

Exclusive == {"vtinit", "vt", "suspend"}
Reading == In({"read"})

\* rw counts the readers, or is -1 for the one writer, and the flags tell
\* whether a vt or a suspend taker holds the lock.
LockWord ==
  /\ (\A t \in Threads : pc[t] # "write") => rw = Cardinality(Reading)
  /\ \A t \in Threads : pc[t] = "write" =>
       /\ rw = -1
       /\ \A u \in Threads : u # t => pc[u] \notin {"read", "write"} \cup Exclusive
  /\ \A t, u \in Threads : pc[t] = "read" => pc[u] \notin Exclusive
  /\ VtLock \in flags <=> \E t \in Threads : pc[t] \in {"vtinit", "vt"}
  /\ SuspendLock \in flags <=> \E t \in Threads : pc[t] = "suspend"

\* A sleeper that nobody signalled still has its PENDING bit, or a writer is
\* in, who will wake it.
SleepersPending ==
  \A t \in Threads \ signalled : pc[t] = "asleep" =>
    /\ t \in Writers => WritePending \in flags \/ rw = -1
    /\ t \in Vters => VtPending \in flags
    /\ t \in Suspenders => SuspendPending \in flags

IInv == FieldTypes /\ HoldersHaveRoles /\ LockWord

-----------------------------------------------------------------------------
\* What becomes of the others when thread t moves to place b, with or without
\* a wake_up_all: a sleeper may have been woken, nobody else has moved.
LEMMA Moved ==
  ASSUME NEW t \in Threads, NEW b \in PcValues, pc \in [Threads -> PcValues],
         \/ pc' = [pc EXCEPT ![t] = b]
         \/ pc' = WakeUpAll([pc EXCEPT ![t] = b]) /\ b # "asleep"
  PROVE  /\ pc' \in [Threads -> PcValues]
         /\ pc'[t] = b
         /\ \A u \in Threads \ {t} :
              /\ pc'[u] = pc[u] \/ (pc[u] = "asleep" /\ pc'[u] = "trying")
  BY DEF WakeUpAll, PcValues

\* wake_up_all leaves nobody asleep.
LEMMA NobodyAsleep ==
  ASSUME NEW t \in Threads, NEW b \in PcValues, pc \in [Threads -> PcValues],
         pc' = WakeUpAll([pc EXCEPT ![t] = b])
  PROVE  \A u \in Threads : pc'[u] # "asleep"
  BY DEF WakeUpAll, PcValues

\* ttm_lock.c: the fields keep their types whatever the callers do.
LEMMA TypeStep == FieldTypes /\ [Next]_vars => FieldTypes'
<1> SUFFICES ASSUME FieldTypes, [Next]_vars PROVE FieldTypes'
  OBVIOUS
<1>1. CASE UNCHANGED vars
  BY <1>1 DEF FieldTypes, vars
<1>2. ASSUME NEW t \in Threads, Request(t) PROVE FieldTypes'
  BY <1>2 DEF FieldTypes, Request, PcValues
<1>3. ASSUME NEW t \in Threads, TryKilled(t) PROVE FieldTypes'
  BY <1>3 DEF FieldTypes, TryKilled, FallAsleep, PcValues
<1>4. ASSUME NEW t \in Threads, TryRead(t) PROVE FieldTypes'
  BY <1>4 DEF FieldTypes, TryRead, FallAsleep, PcValues
<1>5. ASSUME NEW t \in Threads, TryWrite(t) PROVE FieldTypes'
  BY <1>5 DEF FieldTypes, TryWrite, FallAsleep, PcValues, Flags
<1>6. ASSUME NEW t \in Threads, TryVt(t) \/ TrySuspend(t) PROVE FieldTypes'
  BY <1>6 DEF FieldTypes, TryVt, TrySuspend, TryExclusive, FallAsleep, PcValues, Flags
<1>7. ASSUME NEW t \in Threads, Interrupt(t) PROVE FieldTypes'
  BY <1>7 DEF FieldTypes, Interrupt, PcValues
<1>8. ASSUME NEW t \in Threads, Withdraw(t) PROVE FieldTypes'
  BY <1>8 DEF FieldTypes, Withdraw, WakeUpAll, PcValues
<1>9. ASSUME NEW t \in Threads, ReadUnlock(t) PROVE FieldTypes'
  BY <1>9 DEF FieldTypes, ReadUnlock, WakeUpAll, PcValues
<1>10. ASSUME NEW t \in Threads, WriteUnlock(t) \/ Downgrade(t) PROVE FieldTypes'
  BY <1>10 DEF FieldTypes, WriteUnlock, Downgrade, WakeUpAll, PcValues
<1>11. ASSUME NEW t \in Threads, SuspendUnlock(t) \/ VtBaseFail(t) \/ VtUnlock(t)
       PROVE FieldTypes'
  BY <1>11 DEF FieldTypes, SuspendUnlock, VtBaseFail, VtUnlock, ClearHeld, WakeUpAll, PcValues
<1>12. ASSUME NEW t \in Threads, VtBaseInit(t) PROVE FieldTypes'
  BY <1>12 DEF FieldTypes, VtBaseInit, PcValues
<1>13. ASSUME NEW val \in BOOLEAN, SetKill(val) PROVE FieldTypes'
  BY <1>13 DEF FieldTypes, SetKill
<1>14. QED
  BY <1>1, <1>2, <1>3, <1>4, <1>5, <1>6, <1>7, <1>8, <1>9, <1>10, <1>11, <1>12, <1>13
     DEF Next, Try, Release

-----------------------------------------------------------------------------
\* A thread gets to a place of its role only, whoever wakes it.
LEMMA RolesStep == FieldTypes /\ HoldersHaveRoles /\ [Next]_vars => HoldersHaveRoles'
<1> SUFFICES ASSUME FieldTypes, HoldersHaveRoles, [Next]_vars PROVE HoldersHaveRoles'
  OBVIOUS
<1> USE DEF FieldTypes, HoldersHaveRoles, PcValues
<1>1. CASE UNCHANGED vars
  BY <1>1 DEF vars
<1>2. ASSUME NEW t \in Threads, Request(t) \/ VtBaseInit(t) PROVE HoldersHaveRoles'
  BY <1>2 DEF Request, VtBaseInit
<1>3. ASSUME NEW t \in Threads, Try(t) PROVE HoldersHaveRoles'
  BY <1>3 DEF Try, TryKilled, TryRead, TryWrite, TryVt, TrySuspend, TryExclusive, FallAsleep
<1>4. ASSUME NEW t \in Threads, Interrupt(t) PROVE HoldersHaveRoles'
  BY <1>4 DEF Interrupt
<1>5. ASSUME NEW t \in Threads,
             Withdraw(t) \/ ReadUnlock(t) \/ WriteUnlock(t) \/ SuspendUnlock(t)
             \/ VtBaseFail(t) \/ VtUnlock(t)
      PROVE HoldersHaveRoles'
  <2>1. \/ pc' = [pc EXCEPT ![t] = "idle"]
        \/ pc' = WakeUpAll([pc EXCEPT ![t] = "idle"])
    BY <1>5 DEF Withdraw, ReadUnlock, WriteUnlock, SuspendUnlock, VtBaseFail, VtUnlock, ClearHeld
  <2>2. QED
    BY <2>1, Moved
<1>6. ASSUME NEW t \in Threads, Downgrade(t) PROVE HoldersHaveRoles'
  <2>1. pc' = WakeUpAll([pc EXCEPT ![t] = "read"]) /\ t \in Writers
    BY <1>6 DEF Downgrade
  <2>2. QED
    BY <2>1, Moved
<1>7. ASSUME NEW val \in BOOLEAN, SetKill(val) PROVE HoldersHaveRoles'
  BY <1>7 DEF SetKill
<1>8. QED
  BY <1>1, <1>2, <1>3, <1>4, <1>5, <1>6, <1>7 DEF Next, Release

-----------------------------------------------------------------------------
\* The readers are finitely many, so that rw can count them.
LEMMA ReadingFinite ==
  IsFiniteSet(Reading) /\ Cardinality(Reading) \in Nat
                       /\ (Cardinality(Reading) = 0 <=> Reading = {})
  BY FiniteAssumption, FS_Subset, FS_CardinalityType, FS_EmptySet DEF Reading, In

\* As long as nobody starts or stops reading, the count is the same.
LEMMA SameReaders ==
  ASSUME \A u \in Threads : pc'[u] = "read" <=> pc[u] = "read"
  PROVE  Reading' = Reading
  BY DEF Reading, In

\* A step that gives nobody the lock and takes it from nobody keeps LockWord.
LEMMA NoHolderChanges ==
  ASSUME LockWord, rw' = rw,
         (VtLock \in flags') <=> (VtLock \in flags),
         (SuspendLock \in flags') <=> (SuspendLock \in flags),
         \A u \in Threads, h \in {"read", "write"} \cup Exclusive : pc'[u] = h <=> pc[u] = h
  PROVE  LockWord'
<1>1. Reading' = Reading
  BY SameReaders
<1>2. QED
  BY <1>1 DEF LockWord, Exclusive

\* lock->rw and lock->flags keep telling who holds the lock.
LEMMA LockWordStep == FieldTypes /\ HoldersHaveRoles /\ LockWord /\ [Next]_vars => LockWord'
<1> SUFFICES ASSUME FieldTypes, HoldersHaveRoles, LockWord, [Next]_vars PROVE LockWord'
  OBVIOUS
<1> pc \in [Threads -> PcValues] /\ rw \in Int
  BY DEF FieldTypes
<1>1. CASE UNCHANGED vars
  BY <1>1, NoHolderChanges DEF vars
<1>2. ASSUME NEW t \in Threads, Request(t) \/ TryKilled(t) \/ Interrupt(t) PROVE LockWord'
  BY <1>2, NoHolderChanges DEF Request, TryKilled, FallAsleep, Interrupt, PcValues, Exclusive
<1>3. ASSUME NEW t \in Threads, TryRead(t) PROVE LockWord'
  <2>1. CASE rw >= 0 /\ flags = {}
    <3>1. /\ rw' = rw + 1 /\ flags' = flags
          /\ pc' = [pc EXCEPT ![t] = "read"] /\ pc[t] = "trying"
      BY <1>3, <2>1 DEF TryRead
    <3>2. \A u \in Threads : pc[u] \notin {"write"} \cup Exclusive
      <4>1. \A u \in Threads : pc[u] # "write"
        BY <2>1 DEF LockWord
      <4>2. VtLock \notin flags /\ SuspendLock \notin flags
        BY <2>1
      <4>3. \A u \in Threads : pc[u] \notin {"vtinit", "vt"}
        BY <4>2, Zenon DEF LockWord
      <4>4. \A u \in Threads : pc[u] # "suspend"
        BY <4>2, Zenon DEF LockWord
      <4>5. QED
        BY <4>1, <4>3, <4>4 DEF Exclusive
    <3>3. Reading' = Reading \cup {t} /\ t \notin Reading
      BY <3>1 DEF Reading, In
    <3>4. Cardinality(Reading') = rw + 1
      <4>1. rw = Cardinality(Reading)
        BY <3>2 DEF LockWord
      <4>2. Cardinality(Reading \cup {t}) = Cardinality(Reading) + 1
        BY <3>3, ReadingFinite, FS_AddElement
      <4>3. QED
        BY <3>3, <4>1, <4>2
    <3>5. QED
      BY <3>1, <3>2, <3>4, <2>1 DEF LockWord, Exclusive, PcValues
  <2>2. CASE ~(rw >= 0 /\ flags = {})
    BY <1>3, <2>2, NoHolderChanges DEF TryRead, FallAsleep, Exclusive
  <2>3. QED
    BY <2>1, <2>2
<1>4. ASSUME NEW t \in Threads, TryWrite(t) PROVE LockWord'
  <2>1. CASE rw = 0 /\ flags \subseteq {WritePending}
    <3>1. /\ rw' = -1 /\ flags' = flags \ {WritePending}
          /\ pc' = [pc EXCEPT ![t] = "write"] /\ pc[t] = "trying"
      BY <1>4, <2>1 DEF TryWrite
    <3>2. VtLock \notin flags /\ SuspendLock \notin flags
      BY <2>1 DEF VtLock, SuspendLock, WritePending
    <3>3. \A u \in Threads : pc[u] \notin {"read", "write"} \cup Exclusive
      <4>1. \A u \in Threads : pc[u] \notin {"write"} \cup Exclusive
        BY <2>1, <3>2 DEF LockWord, Exclusive
      <4>2. Reading = {}
        BY <4>1, <2>1, ReadingFinite DEF LockWord
      <4>3. QED
        BY <4>1, <4>2 DEF Reading, In
    <3>4. QED
      BY <3>1, <3>2, <3>3 DEF LockWord, Exclusive, PcValues
  <2>2. CASE ~(rw = 0 /\ flags \subseteq {WritePending})
    <3>1. rw' = rw /\ flags' = flags \cup {WritePending} /\ pc[t] = "trying"
          /\ pc' = [pc EXCEPT ![t] = "asleep"]
      BY <1>4, <2>2 DEF TryWrite, FallAsleep
    <3>2. QED
      BY <3>1, NoHolderChanges DEF VtLock, SuspendLock, WritePending, Exclusive
  <2>3. QED
    BY <2>1, <2>2
<1>5. ASSUME NEW t \in Threads, TryVt(t) \/ TrySuspend(t) PROVE LockWord'
  <2>1. CASE rw = 0
    <3>1. \A u \in Threads : pc[u] \notin {"read", "write"}
      <4>1. \A u \in Threads : pc[u] # "write"
        BY <2>1 DEF LockWord
      <4>2. Reading = {}
        BY <4>1, <2>1, ReadingFinite DEF LockWord
      <4>3. QED
        BY <4>1, <4>2 DEF Reading, In
    <3>2. \A u \in Threads : pc'[u] \notin {"read", "write"}
      BY <3>1, <2>1, <1>5 DEF TryVt, TrySuspend, TryExclusive
    <3>3. Reading' = Reading
      BY <3>1, <3>2, SameReaders
    <3>4. CASE TryVt(t)
      BY <3>1, <3>2, <3>3, <3>4, <2>1
         DEF TryVt, TryExclusive, LockWord, Exclusive, VtLock, VtPending, SuspendLock, PcValues
    <3>5. CASE TrySuspend(t)
      BY <3>1, <3>2, <3>3, <3>5, <2>1
         DEF TrySuspend, TryExclusive, LockWord, Exclusive, VtLock, SuspendPending, SuspendLock,
             PcValues
    <3>6. QED
      BY <1>5, <3>4, <3>5
  <2>2. CASE rw # 0
    BY <1>5, <2>2, NoHolderChanges
       DEF TryVt, TrySuspend, TryExclusive, FallAsleep, VtLock, SuspendLock, VtPending,
           SuspendPending, Exclusive
  <2>3. QED
    BY <2>1, <2>2
<1>6. ASSUME NEW t \in Threads, Withdraw(t) PROVE LockWord'
  <2>1. pc[t] = "withdraw" /\ rw' = rw /\ pc' = WakeUpAll([pc EXCEPT ![t] = "idle"])
    BY <1>6 DEF Withdraw
  <2>2. \A u \in Threads, h \in {"read", "write"} \cup Exclusive : pc'[u] = h <=> pc[u] = h
    BY <2>1, Moved DEF PcValues, Exclusive
  <2>3. QED
    BY <1>6, <2>1, <2>2, NoHolderChanges
       DEF Withdraw, VtLock, SuspendLock, VtPending, WritePending
<1>7. ASSUME NEW t \in Threads, ReadUnlock(t) PROVE LockWord'
  <2>1. /\ pc[t] = "read" /\ rw' = rw - 1 /\ flags' = flags
        /\ \/ pc' = [pc EXCEPT ![t] = "idle"]
           \/ pc' = WakeUpAll([pc EXCEPT ![t] = "idle"])
    BY <1>7 DEF ReadUnlock
  <2>2. pc'[t] = "idle" /\ \A u \in Threads \ {t} :
          \A h \in {"read", "write"} \cup Exclusive : pc'[u] = h <=> pc[u] = h
    BY <2>1, Moved DEF PcValues, Exclusive
  <2>3. \A u \in Threads : pc[u] \notin {"write"} \cup Exclusive
    BY <2>1 DEF LockWord, Exclusive
  <2>4. Reading' = Reading \ {t} /\ t \in Reading
    BY <2>1, <2>2 DEF Reading, In
  <2>5. Cardinality(Reading') = rw - 1
    BY <2>3, <2>4, ReadingFinite, FS_RemoveElement DEF LockWord
  <2>6. \A u \in Threads : pc'[u] \notin {"write"} \cup Exclusive
    BY <2>2, <2>3 DEF Exclusive
  <2>7. QED
    BY <2>1, <2>3, <2>5, <2>6 DEF LockWord, Exclusive
<1>8. ASSUME NEW t \in Threads, WriteUnlock(t) PROVE LockWord'
  <2>1. pc[t] = "write" /\ rw' = 0 /\ flags' = flags
        /\ pc' = WakeUpAll([pc EXCEPT ![t] = "idle"])
    BY <1>8 DEF WriteUnlock
  <2>2. pc'[t] = "idle" /\ \A u \in Threads \ {t} :
          \A h \in {"read", "write"} \cup Exclusive : pc'[u] = h <=> pc[u] = h
    BY <2>1, Moved DEF PcValues, Exclusive
  <2>3. \A u \in Threads \ {t} : pc[u] \notin {"read", "write"} \cup Exclusive
    BY <2>1 DEF LockWord
  <2>4. \A u \in Threads : pc'[u] \notin {"read", "write"} \cup Exclusive
    BY <2>2, <2>3 DEF Exclusive
  <2>5. Reading' = {}
    BY <2>4 DEF Reading, In
  <2>6. QED
    BY <2>1, <2>3, <2>4, <2>5, FS_EmptySet DEF LockWord, Exclusive
<1>9. ASSUME NEW t \in Threads, Downgrade(t) PROVE LockWord'
  <2>1. pc[t] = "write" /\ rw' = 1 /\ flags' = flags
        /\ pc' = WakeUpAll([pc EXCEPT ![t] = "read"])
    BY <1>9 DEF Downgrade
  <2>2. pc'[t] = "read" /\ \A u \in Threads \ {t} :
          \A h \in {"read", "write"} \cup Exclusive : pc'[u] = h <=> pc[u] = h
    BY <2>1, Moved DEF PcValues, Exclusive
  <2>3. \A u \in Threads \ {t} : pc[u] \notin {"read", "write"} \cup Exclusive
    BY <2>1 DEF LockWord
  <2>4. \A u \in Threads \ {t} : pc'[u] \notin {"read", "write"} \cup Exclusive
    BY <2>2, <2>3 DEF Exclusive
  <2>5. Reading' = {t}
    BY <2>2, <2>4 DEF Reading, In
  <2>6. Cardinality(Reading') = 1
    BY <2>5, FS_Singleton
  <2>7. QED
    BY <2>1, <2>2, <2>3, <2>4, <2>6 DEF LockWord, Exclusive
<1>10. ASSUME NEW t \in Threads, SuspendUnlock(t) \/ VtBaseFail(t) \/ VtUnlock(t)
       PROVE LockWord'
  <2>1. /\ pc[t] \in Exclusive /\ rw' = rw
        /\ pc' = WakeUpAll([pc EXCEPT ![t] = "idle"])
    BY <1>10 DEF SuspendUnlock, VtBaseFail, VtUnlock, ClearHeld, Exclusive
  <2>2. pc'[t] = "idle" /\ \A u \in Threads \ {t} :
          \A h \in {"read", "write"} \cup Exclusive : pc'[u] = h <=> pc[u] = h
    BY <2>1, Moved DEF PcValues, Exclusive
  <2>3. \A u \in Threads : pc'[u] = "read" <=> pc[u] = "read"
    BY <2>1, <2>2 DEF Exclusive
  <2>4. Reading' = Reading
    BY <2>3, SameReaders
  <2>5. \A u \in Threads \ {t} : pc[t] = "suspend" => pc[u] # "suspend"
    BY RolesAssumption DEF HoldersHaveRoles
  <2>6. \A u \in Threads \ {t} : pc[t] \in {"vt", "vtinit"} => pc[u] \notin {"vt", "vtinit"}
    BY RolesAssumption DEF HoldersHaveRoles
  <2>7. \/ pc[t] = "suspend" /\ flags' = flags \ {SuspendLock}
        \/ pc[t] \in {"vt", "vtinit"} /\ flags' = flags \ {VtLock}
    BY <1>10 DEF SuspendUnlock, VtBaseFail, VtUnlock, ClearHeld
  <2>8. (VtLock \in flags') <=> \E u \in Threads : pc'[u] \in {"vtinit", "vt"}
    BY <2>2, <2>6, <2>7 DEF LockWord, VtLock, SuspendLock, Exclusive
  <2>9. (SuspendLock \in flags') <=> \E u \in Threads : pc'[u] = "suspend"
    BY <2>2, <2>5, <2>7 DEF LockWord, VtLock, SuspendLock, Exclusive
  <2>10. /\ rw' = rw /\ Cardinality(Reading') = Cardinality(Reading)
         /\ \A u \in Threads : pc[u] # "write" /\ pc'[u] # "write"
    BY <2>1, <2>2, <2>4 DEF LockWord, Exclusive
  <2>11. \A u \in Threads : pc'[u] \notin {"read", "write"}
    BY <2>1, <2>2, <2>10 DEF LockWord, Exclusive
  <2>12. QED
    BY <2>8, <2>9, <2>10, <2>11 DEF LockWord
<1>11. ASSUME NEW t \in Threads, VtBaseInit(t) PROVE LockWord'
  <2>1. pc[t] = "vtinit" /\ pc' = [pc EXCEPT ![t] = "vt"] /\ rw' = rw /\ flags' = flags
    BY <1>11 DEF VtBaseInit
  <2>2. \A u \in Threads : pc'[u] = "read" <=> pc[u] = "read"
    BY <2>1
  <2>3. Reading' = Reading
    BY <2>2, SameReaders
  <2>4. QED
    BY <2>1, <2>3 DEF LockWord, Exclusive
<1>12. ASSUME NEW val \in BOOLEAN, SetKill(val) PROVE LockWord'
  BY <1>12, NoHolderChanges DEF SetKill
<1>13. QED
  BY <1>1, <1>2, <1>3, <1>4, <1>5, <1>6, <1>7, <1>8, <1>9, <1>10, <1>11, <1>12
     DEF Next, Try, Release

\* IInv holds at first ...
LEMMA IInvInit == Init => IInv
<1> SUFFICES ASSUME Init PROVE IInv
  OBVIOUS
<1>1. FieldTypes
  <2>1. pc \in [Threads -> PcValues]
    BY DEF Init, PcValues
  <2>2. rw \in Int
    BY DEF Init
  <2>3. vt_base \in BOOLEAN
    BY Zenon DEF Init
  <2>4. flags \subseteq Flags /\ signalled \subseteq Threads /\ kill_takers \in BOOLEAN
    BY Zenon DEF Init
  <2>5. QED
    BY <2>1, <2>2, <2>3, <2>4 DEF FieldTypes
<1>2. HoldersHaveRoles
  BY DEF Init, HoldersHaveRoles
<1>3. LockWord
  <2>1. Reading = {}
    BY DEF Init, Reading, In
  <2>2. QED
    BY <2>1, FS_EmptySet DEF Init, LockWord, Exclusive
<1>4. QED
  BY <1>1, <1>2, <1>3 DEF IInv

\* ... and for ever.
LEMMA IInvHolds == Spec => []IInv
<1>1. IInv /\ [Next]_vars => IInv'
  BY TypeStep, RolesStep, LockWordStep DEF IInv
<1>2. QED
  BY <1>1, IInvInit, PTL DEF Spec

\* Type correctness: rw never counts below a writer's -1.
THEOREM TypeCorrect == Spec => []TypeOK
<1>1. ASSUME IInv PROVE TypeOK
  <2>1. CASE \A t \in Threads : pc[t] # "write"
    BY <1>1, <2>1, ReadingFinite DEF IInv, LockWord, FieldTypes, TypeOK
  <2>2. CASE \E t \in Threads : pc[t] = "write"
    BY <1>1, <2>2 DEF IInv, LockWord, FieldTypes, TypeOK
  <2>3. QED
    BY <2>1, <2>2
<1>2. QED
  BY <1>1, IInvHolds, PTL

\* ttm_lock.h's promise: writers exclude everybody, vt and suspend takers
\* exclude readers and writers, in every interleaving of any number of takers.
THEOREM MutuallyExclusive == Spec => []MutualExclusion
<1>1. IInv => MutualExclusion
  BY DEF IInv, LockWord, Exclusive, MutualExclusion, In
<1>2. QED
  BY <1>1, IInvHolds, PTL

-----------------------------------------------------------------------------
\* PENDING bits.
WaitingPcs == {"trying", "asleep", "withdraw"}

\* A waiter other than the thread that moves goes on waiting.
LEMMA OthersGoOnWaiting ==
  ASSUME NEW t \in Threads, NEW b \in PcValues, pc \in [Threads -> PcValues],
         \/ pc' = [pc EXCEPT ![t] = b]
         \/ pc' = WakeUpAll([pc EXCEPT ![t] = b]) /\ b # "asleep"
  PROVE  \A u \in Threads \ {t} : pc[u] \in WaitingPcs => pc'[u] \in WaitingPcs
  BY Moved DEF WaitingPcs

\* The step of a thread that did not wait, or waits on, and sets no bit.
LEMMA PendingKept ==
  ASSUME PendingHasWaiter, flags' \subseteq flags,
         \A u \in Threads \ Readers : pc[u] \in WaitingPcs => pc'[u] \in WaitingPcs,
         RolesAssumption
  PROVE  PendingHasWaiter'
  BY DEF PendingHasWaiter, WaitingPcs, Threads

\* Each step keeps a waiter behind every PENDING bit it leaves set.
LEMMA PendingStep == IInv /\ PendingHasWaiter /\ [Next]_vars => PendingHasWaiter'
<1> SUFFICES ASSUME IInv, PendingHasWaiter, [Next]_vars PROVE PendingHasWaiter'
  OBVIOUS
<1> pc \in [Threads -> PcValues]
  BY DEF IInv, FieldTypes
<1> USE RolesAssumption
<1>1. CASE UNCHANGED vars
  BY <1>1, PendingKept DEF vars
<1>2. ASSUME NEW t \in Threads, Request(t) \/ TryKilled(t) PROVE PendingHasWaiter'
  BY <1>2, PendingKept DEF Request, TryKilled, FallAsleep, WaitingPcs
<1>3. ASSUME NEW t \in Threads, Interrupt(t) PROVE PendingHasWaiter'
  BY <1>3, PendingKept DEF Interrupt, WaitingPcs
<1>4. ASSUME NEW t \in Threads, TryRead(t) PROVE PendingHasWaiter'
  BY <1>4, PendingKept DEF TryRead, FallAsleep, WaitingPcs
<1>5. ASSUME NEW t \in Threads, TryWrite(t) PROVE PendingHasWaiter'
  <2>1. \A u \in Threads \ {t} : pc'[u] = pc[u]
    BY <1>5 DEF TryWrite, FallAsleep
  <2>2. t \in Writers /\ t \notin Vters /\ t \notin Suspenders
    BY <1>5 DEF TryWrite
  <2>3. \/ flags' = flags \ {WritePending}
        \/ flags' = flags \cup {WritePending} /\ pc'[t] = "asleep"
    BY <1>5 DEF TryWrite, FallAsleep
  <2>4. QED
    BY <2>1, <2>2, <2>3
       DEF PendingHasWaiter, WritePending, VtPending, SuspendPending, Threads
<1>6. ASSUME NEW t \in Threads, TryVt(t) PROVE PendingHasWaiter'
  <2>1. \A u \in Threads \ {t} : pc'[u] = pc[u]
    BY <1>6 DEF TryVt, TryExclusive, FallAsleep
  <2>2. t \in Vters /\ t \notin Writers /\ t \notin Suspenders
    BY <1>6 DEF TryVt
  <2>3. \/ flags' = (flags \ {VtPending}) \cup {VtLock}
        \/ flags' = flags \cup {VtPending} /\ pc'[t] = "asleep"
    BY <1>6 DEF TryVt, TryExclusive, FallAsleep
  <2>4. QED
    BY <2>1, <2>2, <2>3
       DEF PendingHasWaiter, WritePending, VtPending, SuspendPending, VtLock, Threads
<1>7. ASSUME NEW t \in Threads, TrySuspend(t) PROVE PendingHasWaiter'
  <2>1. \A u \in Threads \ {t} : pc'[u] = pc[u]
    BY <1>7 DEF TrySuspend, TryExclusive, FallAsleep
  <2>2. t \in Suspenders /\ t \notin Writers /\ t \notin Vters
    BY <1>7 DEF TrySuspend
  <2>3. \/ flags' = (flags \ {SuspendPending}) \cup {SuspendLock}
        \/ flags' = flags \cup {SuspendPending} /\ pc'[t] = "asleep"
    BY <1>7 DEF TrySuspend, TryExclusive, FallAsleep
  <2>4. QED
    BY <2>1, <2>2, <2>3
       DEF PendingHasWaiter, WritePending, VtPending, SuspendPending, SuspendLock, Threads
<1>8. ASSUME NEW t \in Threads, Withdraw(t) PROVE PendingHasWaiter'
  <2>1. \A u \in Threads \ {t} : pc[u] \in WaitingPcs => pc'[u] \in WaitingPcs
    BY <1>8, OthersGoOnWaiting DEF Withdraw, PcValues
  <2>2. t \in Writers \cup Vters
    BY <1>8 DEF IInv, HoldersHaveRoles, Withdraw
  <2>3. \/ t \in Writers /\ flags' = flags \ {WritePending}
        \/ t \in Vters /\ flags' = flags \ {VtPending}
    BY <1>8, <2>2 DEF Withdraw
  <2>4. QED
    BY <2>1, <2>3
       DEF PendingHasWaiter, WaitingPcs, WritePending, VtPending, SuspendPending, Threads
<1>9. ASSUME NEW t \in Threads, Release(t) \/ Downgrade(t) PROVE PendingHasWaiter'
  <2>1. pc[t] \notin WaitingPcs /\ flags' \subseteq flags
    BY <1>9 DEF Release, ReadUnlock, WriteUnlock, SuspendUnlock, VtBaseInit, VtBaseFail, VtUnlock,
                Downgrade, ClearHeld, WaitingPcs
  <2>2. \E b \in {"idle", "read", "vt"} : \/ pc' = [pc EXCEPT ![t] = b]
                                          \/ pc' = WakeUpAll([pc EXCEPT ![t] = b])
    BY <1>9 DEF Release, ReadUnlock, WriteUnlock, SuspendUnlock, VtBaseInit, VtBaseFail, VtUnlock,
                Downgrade, ClearHeld
  <2>3. \A u \in Threads \ {t} : pc[u] \in WaitingPcs => pc'[u] \in WaitingPcs
    BY <2>2, OthersGoOnWaiting DEF PcValues
  <2>4. QED
    BY <2>1, <2>3, PendingKept
<1>10. ASSUME NEW val \in BOOLEAN, SetKill(val) PROVE PendingHasWaiter'
  BY <1>10, PendingKept DEF SetKill
<1>11. QED
  BY <1>1, <1>2, <1>3, <1>4, <1>5, <1>6, <1>7, <1>8, <1>9, <1>10 DEF Next, Try

\* ttm_write_lock, ttm_vt_lock: an interrupted or granted taker leaves no
\* PENDING bit behind that would shut readers out for ever.
THEOREM PendingAlwaysHasWaiter == Spec => []PendingHasWaiter
<1>1. Init => PendingHasWaiter
  BY DEF Init, PendingHasWaiter
<1>2. QED
  BY <1>1, IInvHolds, PendingStep, PTL DEF Spec

-----------------------------------------------------------------------------
\* Sleepers.
SleepInv == NoLostWakeup /\ SleepersPending

\* A step that puts nobody to sleep and changes neither field keeps SleepInv.
LEMMA SleepKept ==
  ASSUME SleepInv, rw' = rw, flags' = flags,
         \A u \in Threads : pc'[u] = "asleep" /\ u \notin signalled' =>
           pc[u] = "asleep" /\ u \notin signalled
  PROVE  SleepInv'
  BY DEF SleepInv, NoLostWakeup, SleepersPending

\* No step lets anybody sleep on once the condition he waits for is true.
LEMMA SleepStep == IInv /\ SleepInv /\ [Next]_vars => SleepInv'
<1> SUFFICES ASSUME IInv, SleepInv, [Next]_vars PROVE SleepInv'
  OBVIOUS
<1> pc \in [Threads -> PcValues] /\ rw \in Int /\ flags \subseteq Flags
  BY DEF IInv, FieldTypes
<1> USE DEF SleepInv
<1>1. CASE UNCHANGED vars
  BY <1>1, SleepKept DEF vars
<1>2. ASSUME NEW t \in Threads,
             Request(t) \/ TryKilled(t) \/ Interrupt(t) \/ VtBaseInit(t)
      PROVE SleepInv'
  BY <1>2, SleepKept DEF Request, TryKilled, FallAsleep, Interrupt, VtBaseInit
<1>3. ASSUME NEW t \in Threads, TryRead(t) PROVE SleepInv'
  <2>1. t \in Readers /\ t \notin Writers /\ t \notin Vters /\ t \notin Suspenders
    BY <1>3, RolesAssumption DEF TryRead
  <2>2. flags' = flags /\ signalled' = signalled /\ \A u \in Threads \ {t} : pc'[u] = pc[u]
    BY <1>3 DEF TryRead, FallAsleep
  <2>3. \/ rw >= 0 /\ flags = {} /\ rw' = rw + 1 /\ pc'[t] = "read"
        \/ (rw < 0 \/ flags # {}) /\ rw' = rw /\ pc'[t] = "asleep"
    BY <1>3 DEF TryRead, FallAsleep
  <2>4. NoLostWakeup'
    BY <2>1, <2>2, <2>3 DEF NoLostWakeup
  <2>5. SleepersPending'
    BY <2>1, <2>2, <2>3 DEF SleepersPending
  <2>6. QED
    BY <2>4, <2>5
<1>4. ASSUME NEW t \in Threads, TryWrite(t) PROVE SleepInv'
  <2>1. t \in Writers /\ t \notin Readers /\ t \notin Vters /\ t \notin Suspenders
    BY <1>4, RolesAssumption DEF TryWrite
  <2>2. signalled' = signalled /\ \A u \in Threads \ {t} : pc'[u] = pc[u]
    BY <1>4 DEF TryWrite, FallAsleep
  <2>3. CASE rw = 0 /\ flags \subseteq {WritePending}
    <3>1. rw' = -1 /\ pc'[t] = "write"
      BY <1>4, <2>3 DEF TryWrite
    <3>2. VtPending \notin flags /\ SuspendPending \notin flags
      BY <2>3 DEF VtPending, SuspendPending, WritePending
    <3>3. QED
      BY <2>1, <2>2, <3>1, <3>2 DEF NoLostWakeup, SleepersPending
  <2>4. CASE ~(rw = 0 /\ flags \subseteq {WritePending})
    <3>1. rw' = rw /\ flags' = flags \cup {WritePending} /\ pc'[t] = "asleep"
      BY <1>4, <2>4 DEF TryWrite, FallAsleep
    <3>2. NoLostWakeup'
      BY <2>1, <2>2, <2>4, <3>1 DEF NoLostWakeup
    <3>3. SleepersPending'
      BY <2>1, <2>2, <3>1 DEF SleepersPending
    <3>4. QED
      BY <3>2, <3>3
  <2>5. QED
    BY <2>3, <2>4
<1>5. ASSUME NEW t \in Threads, TryVt(t) \/ TrySuspend(t) PROVE SleepInv'
  <2>1. t \notin Readers /\ t \notin Writers
    BY <1>5, RolesAssumption DEF TryVt, TrySuspend
  <2>2. signalled' = signalled /\ \A u \in Threads \ {t} : pc'[u] = pc[u]
    BY <1>5 DEF TryVt, TrySuspend, TryExclusive, FallAsleep
  <2>3. CASE rw = 0
    <3>1. /\ rw' = rw /\ pc'[t] # "asleep"
          /\ \E held \in {VtLock, SuspendLock} : held \in flags'
          /\ WritePending \in flags => WritePending \in flags'
      BY <1>5, <2>3
         DEF TryVt, TrySuspend, TryExclusive, VtPending, SuspendPending, WritePending
    <3>2. ~(flags' \subseteq {WritePending}) /\ flags' # {}
      BY <3>1 DEF VtLock, SuspendLock, WritePending
    <3>3. QED
      BY <2>1, <2>2, <2>3, <3>1, <3>2 DEF NoLostWakeup, SleepersPending
  <2>4. CASE rw # 0
    <3>1. /\ rw' = rw /\ flags \subseteq flags' /\ pc'[t] = "asleep"
          /\ t \in Vters => VtPending \in flags'
          /\ t \in Suspenders => SuspendPending \in flags'
      BY <1>5, <2>4, RolesAssumption DEF TryVt, TrySuspend, TryExclusive, FallAsleep
    <3>2. QED
      BY <2>1, <2>2, <2>4, <3>1 DEF NoLostWakeup, SleepersPending
  <2>5. QED
    BY <2>3, <2>4
<1>6. ASSUME NEW t \in Threads, ReadUnlock(t) PROVE SleepInv'
  <2>1. CASE rw = 1
    <3>1. pc' = WakeUpAll([pc EXCEPT ![t] = "idle"])
      BY <1>6, <2>1 DEF ReadUnlock
    <3>2. QED
      BY <3>1, NobodyAsleep DEF NoLostWakeup, SleepersPending, PcValues
  <2>2. CASE rw # 1
    <3>1. /\ rw' = rw - 1 /\ flags' = flags /\ signalled' = signalled
          /\ pc' = [pc EXCEPT ![t] = "idle"] /\ pc[t] = "read"
      BY <1>6, <2>2 DEF ReadUnlock
    <3>2. rw = Cardinality(Reading)
      BY <3>1 DEF IInv, LockWord
    <3>3. rw > 1
      BY <2>2, <3>1, <3>2, ReadingFinite DEF Reading, In
    <3>4. QED
      BY <3>1, <3>3 DEF NoLostWakeup, SleepersPending
  <2>3. QED
    BY <2>1, <2>2
<1>7. ASSUME NEW t \in Threads,
             Withdraw(t) \/ WriteUnlock(t) \/ Downgrade(t) \/ SuspendUnlock(t)
             \/ VtBaseFail(t) \/ VtUnlock(t)
      PROVE SleepInv'
  <2>1. \E b \in {"idle", "read"} : pc' = WakeUpAll([pc EXCEPT ![t] = b])
    BY <1>7 DEF Withdraw, WriteUnlock, Downgrade, SuspendUnlock, VtBaseFail, VtUnlock, ClearHeld
  <2>2. \A u \in Threads : pc'[u] # "asleep"
    BY <2>1, NobodyAsleep DEF PcValues
  <2>3. QED
    BY <2>2 DEF NoLostWakeup, SleepersPending
<1>8. ASSUME NEW val \in BOOLEAN, SetKill(val) PROVE SleepInv'
  BY <1>8, SleepKept DEF SetKill
<1>9. QED
  BY <1>1, <1>2, <1>3, <1>4, <1>5, <1>6, <1>7, <1>8 DEF Next, Try, Release

\* SleepInv is an invariant of the lock.
LEMMA SleepInvHolds == Spec => []SleepInv
<1>1. Init => SleepInv
  BY DEF Init, SleepInv, NoLostWakeup, SleepersPending
<1>2. QED
  BY <1>1, IInvHolds, SleepStep, PTL DEF Spec

\* Every critical section that makes the condition of a sleeper true ends in
\* wake_up_all: nobody misses a wakeup.
THEOREM NoWakeupIsLost == Spec => []NoLostWakeup
<1>1. SleepInv => NoLostWakeup
  BY DEF SleepInv
<1>2. QED
  BY <1>1, SleepInvHolds, PTL

-----------------------------------------------------------------------------
\* __ttm_read_lock admits no reader past a writer, vt or suspend taker who sleeps.
OvertakeStep ==
  (\E r \in Readers : pc[r] # "read" /\ pc'[r] = "read" /\ pc[r] # "write")
    => \A t \in Threads \ (Readers \cup signalled) : pc[t] # "asleep"

\* A reader that comes to hold the lock was admitted by __ttm_read_lock.
LEMMA OnlyTryReadAdmits ==
  ASSUME IInv, [Next]_vars, NEW r \in Readers, pc[r] \notin {"read", "write"}, pc'[r] = "read"
  PROVE  rw >= 0 /\ flags = {}
<1> pc \in [Threads -> PcValues] /\ r \in Threads
  BY DEF IInv, FieldTypes, Threads
<1>1. CASE UNCHANGED vars
  BY <1>1 DEF vars
<1>2. ASSUME NEW t \in Threads, TryRead(t) PROVE rw >= 0 /\ flags = {}
  BY <1>2 DEF TryRead, FallAsleep
<1>3. ASSUME NEW t \in Threads,
             Request(t) \/ TryKilled(t) \/ TryWrite(t) \/ TryVt(t) \/ TrySuspend(t)
             \/ Interrupt(t) \/ VtBaseInit(t)
      PROVE FALSE
  BY <1>3 DEF Request, TryKilled, TryWrite, TryVt, TrySuspend, TryExclusive, FallAsleep,
              Interrupt, VtBaseInit
<1>4. ASSUME NEW t \in Threads,
             Withdraw(t) \/ ReadUnlock(t) \/ WriteUnlock(t) \/ SuspendUnlock(t)
             \/ VtBaseFail(t) \/ VtUnlock(t)
      PROVE FALSE
  <2>1. \/ pc' = [pc EXCEPT ![t] = "idle"]
        \/ pc' = WakeUpAll([pc EXCEPT ![t] = "idle"])
    BY <1>4 DEF Withdraw, ReadUnlock, WriteUnlock, SuspendUnlock, VtBaseFail, VtUnlock, ClearHeld
  <2>2. QED
    BY <2>1, Moved DEF PcValues
<1>5. ASSUME NEW t \in Threads, Downgrade(t) PROVE FALSE
  <2>1. pc' = WakeUpAll([pc EXCEPT ![t] = "read"]) /\ pc[t] = "write"
    BY <1>5 DEF Downgrade
  <2>2. QED
    BY <2>1, Moved DEF PcValues
<1>6. ASSUME NEW val \in BOOLEAN, SetKill(val) PROVE FALSE
  BY <1>6 DEF SetKill
<1>7. QED
  BY <1>1, <1>2, <1>3, <1>4, <1>5, <1>6 DEF Next, Try, Release

\* Waiting exclusive takers are not overtaken by new readers.
THEOREM ReadersDoNotOvertake == Spec => NoReaderOvertakes
<1>1. IInv /\ SleepInv /\ [Next]_vars => OvertakeStep
  <2> SUFFICES ASSUME IInv, SleepInv, [Next]_vars,
                      NEW r \in Readers, pc[r] \notin {"read", "write"}, pc'[r] = "read",
                      NEW t \in Threads \ (Readers \cup signalled), pc[t] = "asleep"
               PROVE  FALSE
    BY DEF OvertakeStep
  <2>1. rw >= 0 /\ flags = {}
    BY OnlyTryReadAdmits
  <2>2. rw \in Int
    BY DEF IInv, FieldTypes
  <2>3. t \in Writers \cup Vters \cup Suspenders
    BY DEF Threads
  <2>4. QED
    BY <2>1, <2>2, <2>3 DEF SleepInv, SleepersPending
<1>2. QED
  BY <1>1, IInvHolds, SleepInvHolds, PTL DEF Spec, NoReaderOvertakes, OvertakeStep
=============================================================================
