---------------------------- MODULE TtmObjectProof ----------------------------
(***************************************************************************)
(* Proofs about TtmObject for any number of files, buffers, threads,       *)
(* reference objects and dma-bufs, with careful clients.                   *)
(*                                                                         *)
(* Every count is the number of those who hold it (Counted): a step of a   *)
(* thread moves that thread, or one object, in or out of a few of those    *)
(* sets.  A reference object may be added without a look at the count of   *)
(* its base object, so the invariant says why the object is alive then: an *)
(* allocation and a grab are of a handle that stays, the backup of a       *)
(* surface has one (Knows, BufferOK).                                      *)
(***************************************************************************)
EXTENDS TtmObject, FiniteSetTheorems, TLAPS

\* Clients keep the handles they may still need.
Careful ==
  /\ IsFiniteSet(Objs) /\ IsFiniteSet(Threads) /\ IsFiniteSet(Refs) /\ IsFiniteSet(Dmabufs)
  /\ Disciplined

-----------------------------------------------------------------------------
\* The threads.

ThreadType ==
  [op : Ops, pc : Steps, file : Files \cup {NULL}, obj : Objs \cup {NULL}, type : RefTypes,
   ref : Refs \cup {NULL}, dma : Dmabufs \cup {NULL}, ret : {"ok", "new", "existed", "error"}]

\* Steps of ttm_ref_object_add.
Adding == {"ref_find", "ref_insert"}
Dropping == {"base_put", "base_release"}
Heir == {"dma_buf_put", "dma_release", "prime_put", "prime_release"}

\* The steps of each call.
InCall(w) ==
  \/ w.op = "idle" /\ w.pc = "idle"
  \/ w.op = "alloc" /\ w.pc \in Adding \cup Dropping \cup {"inited", "bo_put"}
  \/ w.op \in {"define", "name"} /\ w.pc \in Dropping
  \/ w.op = "unref" /\ w.pc \in Dropping \cup {"ref_obj_release", "ref_clear", "ref_free"}
  \/ w.op = "close" /\ w.pc \in Dropping \cup {"ref_obj_release", "ref_clear", "ref_free", "close"}
  \/ w.op = "use" /\ w.pc \in Dropping \cup {"lookup", "lookup_load", "oops", "lookup_get"}
  \/ /\ w.op = "grab"
     /\ w.pc \in Adding \cup Dropping \cup {"lookup", "lookup_load", "oops", "lookup_get", "bo_get",
                                            "write_grab", "grabbed", "bo_put"}
  \/ w.op = "backup" /\ w.pc \in Adding
  \/ /\ w.op = "export"
     /\ w.pc \in Dropping \cup Heir \cup {"lookup", "lookup_load", "oops", "lookup_get", "export",
                                          "dma_buf_fd"}
  \/ w.op = "export_new" /\ w.pc \in Heir \cup {"dma_buf_fd"}
  \/ w.op = "import" /\ w.pc \in Adding \cup Heir
  \/ w.op = "close_fd" /\ w.pc \in Heir

\* A call that needs its file open.
OfFile(w) == w.op \notin {"idle", "close", "close_fd"}

BaseType ==
  [st : {"none", "live", "dead", "leaked"}, kref : Nat, tfile : Files \cup {NULL},
   shareable : BOOLEAN, hashed : BOOLEAN, dma_buf : Dmabufs \cup {NULL}]

PreInit(w) == w.op = "alloc" /\ w.pc \in Adding \cup {"inited"}

\* The call takes a reference to its buffer object at bo_get.
HoldsBo(w) ==
  \/ w.op = "alloc"
  \/ w.op = "grab" /\ w.pc \in Adding \cup Dropping \cup {"write_grab", "grabbed", "bo_put"}

\* The call has found the handle, which it may use again.
Relies(w) ==
  \/ w.op = "grab" /\ w.pc \in Adding \cup Dropping \cup {"lookup_load", "lookup_get", "bo_get",
                                                          "write_grab"}
  \/ w.op = "alloc" /\ w.pc = "inited" /\ w.ret # "error"

FreesRef(w) == w.op \in {"unref", "close"} /\ w.pc # "close"

HoldsDma(w) == w.pc \in {"dma_buf_fd", "dma_buf_put"} \/ (w.op = "import" /\ w.pc \in Adding)

\* The local variables are set when they are used.
Local(w) ==
  /\ InCall(w)
  /\ w.op = "idle" => w = Idle
  /\ w.op = "close_fd" => w.file = NULL
  /\ w.op \notin {"idle", "close_fd"} => w.file \in Files
  /\ w.pc \notin {"idle", "close"} => w.obj \in Objs
  /\ w.op # "grab" => w.type = "usage"
  /\ w.op = "grab" /\ w.pc \in Adding \cup {"grabbed"} => w.type = "synccpu_write"
  /\ w.pc = "grabbed" => w.ret # "ok"
  /\ w.pc = "lookup_load" \/ FreesRef(w) => w.ref \in Refs
  /\ HoldsDma(w) \/ w.pc = "dma_release" => w.dma \in Dmabufs

HasHandle(f, o) == Find(f, o, "usage") # {}

\* What a thread in state w knows of what it points to.
Knows(w) ==
  /\ OfFile(w) => tf[w.file].open
  /\ w.op = "close" => ~tf[w.file].open
  /\ PreInit(w) => base[w.obj].st = "live" /\ bo[w.obj].backup = NULL
  /\ Relies(w) => HasHandle(w.file, w.obj)
  /\ w.op = "backup" => bo[w.obj].backup # NULL
  /\ w.pc = "lookup_load" => ref[w.ref].obj \in {w.obj, NULL}
  /\ FreesRef(w) => ref[w.ref].st = "gone"
  /\ w.pc \in {"ref_obj_release", "ref_clear"} => ref[w.ref].obj = w.obj
  /\ FreesRef(w) /\ w.pc \notin {"ref_obj_release", "ref_clear"} => ref[w.ref].obj = NULL
  /\ HoldsDma(w) \/ w.pc = "dma_release" => dma[w.dma].obj = w.obj
  /\ w.pc = "dma_release" => dma[w.dma].f_count = 0
  /\ w.pc \in {"base_release", "prime_release"} => base[w.obj].st = "live" /\ base[w.obj].kref = 0

\* What only one thread does at a time.
Apart(w, x) ==
  /\ FreesRef(w) /\ FreesRef(x) => w.ref # x.ref
  /\ w.pc = "dma_release" /\ x.pc = "dma_release" => w.dma # x.dma
  /\ (/\ w.pc \in {"base_release", "prime_release"}
      /\ x.pc \in {"base_release", "prime_release"}) => w.obj # x.obj
  /\ PreInit(w) /\ PreInit(x) => w.obj # x.obj
  /\ w.op = "close" => w.file # x.file

-----------------------------------------------------------------------------
\* The objects.

Closing(f) == \E t \in Threads : th[t].op = "close" /\ th[t].file = f
Held(f) == tf[f].open \/ Closing(f)

\* A buffer and its base object live and die together; the surface of which it is
\* the backup was made by a file that has the handle.
BufferOK(o) ==
  /\ base[o].st = "none" => base[o] = NoBase /\ bo[o].kref = 0
  /\ base[o].st = "live" => base[o].hashed /\ base[o].tfile \in Files
  /\ base[o].st = "dead" => base[o].kref = 0 /\ ~base[o].hashed /\ base[o].tfile = NULL
  /\ base[o].st = "leaked" => ~base[o].hashed /\ base[o].tfile \in Files
  /\ bo[o].kref = 0 => base[o].st = "none" /\ bo[o] = NoBo
  /\ bo[o].backup # NULL => tf[bo[o].backup].open /\ HasHandle(bo[o].backup, o)

RefOK(r) ==
  /\ ref[r].st = "free" => ref[r] = NoRef
  /\ ref[r].st = "hashed" => /\ ref[r].tfile \in Files /\ ref[r].key \in Objs
                             /\ ref[r].obj = ref[r].key /\ ref[r].kref > 0
                             /\ Held(ref[r].tfile)

DmaOK(d) ==
  /\ dma[d].st = "none" => dma[d] = NoDma
  /\ dma[d].st = "live" => dma[d].obj \in Objs

-----------------------------------------------------------------------------
\* The counts.

RefsTo(o) == {r \in Refs : ref[r].obj = o}
DmaOf(o) == {d \in Dmabufs : dma[d].obj = o}
WriterRefs(o) == {r \in Refs : ref[r].st = "hashed" /\ ref[r].key = o /\ ref[r].type = "synccpu_write"}
Writers(o) == {t \in Threads : th[t].obj = o /\ (At(t, "ref_obj_release") \/ Grabbing(t))}
BoHolders(o) == {t \in Threads : th[t].obj = o /\ HoldsBo(th[t])}
DmaHolders(d) == {t \in Threads : th[t].dma = d /\ HoldsDma(th[t])}
ObjsOf(f) == {o \in Objs : base[o].tfile = f}
RefsUsed == {r \in Refs : ref[r].st # "free"}
DmaUsed == {d \in Dmabufs : dma[d].st # "none"}

BaseCounted(o) ==
  base[o].kref = Cardinality(RefsTo(o)) + Cardinality(DmaOf(o)) + Cardinality(Owners(o))
                 + Cardinality(Heirs(o)) + (IF base[o].st = "leaked" THEN 1 ELSE 0)

BoCounted(o) ==
  bo[o].kref = (IF base[o].st \in {"live", "leaked"} THEN 1 ELSE 0)
               + (IF bo[o].backup # NULL THEN 1 ELSE 0) + Cardinality(BoHolders(o))

WritersCounted(o) == bo[o].cpu_writers = Cardinality(WriterRefs(o)) + Cardinality(Writers(o))

DmaCounted(d) ==
  dma[d].st = "live" => dma[d].f_count = dma[d].fds + Cardinality(DmaHolders(d))

FileCounted(f) == tf[f].kref = Cardinality(ObjsOf(f)) + (IF Held(f) THEN 1 ELSE 0)

Counted ==
  /\ \A o \in Objs : BaseCounted(o) /\ BoCounted(o) /\ WritersCounted(o)
  /\ \A d \in Dmabufs : DmaCounted(d)
  /\ \A f \in Files : FileCounted(f)
  /\ mem = Cardinality(RefsUsed) + Cardinality(DmaUsed)

DmabufNamed(o) ==
  /\ base[o].dma_buf # NULL => dma[base[o].dma_buf].obj = o
  /\ \A d \in Dmabufs : dma[d].obj = o /\ dma[d].f_count # 0 => base[o].dma_buf = d

IInv ==
  /\ TypeOK
  /\ \A t \in Threads : Local(th[t]) /\ Knows(th[t])
  /\ \A t, u \in Threads : t # u => Apart(th[t], th[u])
  /\ \A o \in Objs : BufferOK(o) /\ DmabufNamed(o)
  /\ \A r \in Refs : RefOK(r)
  /\ \A d \in Dmabufs : DmaOK(d)
  /\ Counted

-----------------------------------------------------------------------------
(* Sets and their sizes. *)

\* R is S but for x.
Moves(S, R, x) ==
  /\ Cardinality(S) \in Nat /\ Cardinality(R) \in Nat
  /\ Cardinality(R) = Cardinality(S) + (IF x \in R THEN 1 ELSE 0) - (IF x \in S THEN 1 ELSE 0)
  /\ x \in S => Cardinality(S) > 0

LEMMA OneMoves ==
  ASSUME NEW S, NEW R, NEW x, IsFiniteSet(S), IsFiniteSet(R), S \ {x} = R \ {x}
  PROVE  Moves(S, R, x)
<1>1. ASSUME NEW T, IsFiniteSet(T)
      PROVE  /\ Cardinality(T) \in Nat /\ Cardinality(T \ {x}) \in Nat
             /\ Cardinality(T) = Cardinality(T \ {x}) + (IF x \in T THEN 1 ELSE 0)
  <2>1. Cardinality(T) \in Nat /\ Cardinality(T \ {x}) \in Nat
    BY <1>1, FS_RemoveElement, FS_CardinalityType
  <2>2. Cardinality(T \ {x}) = IF x \in T THEN Cardinality(T) - 1 ELSE Cardinality(T)
    BY <1>1, FS_RemoveElement
  <2>3. QED
    BY <2>1, <2>2
<1>2. /\ Cardinality(S) \in Nat /\ Cardinality(S \ {x}) \in Nat
      /\ Cardinality(S) = Cardinality(S \ {x}) + (IF x \in S THEN 1 ELSE 0)
  BY <1>1
<1>3. /\ Cardinality(R) \in Nat /\ Cardinality(R \ {x}) \in Nat
      /\ Cardinality(R) = Cardinality(R \ {x}) + (IF x \in R THEN 1 ELSE 0)
  BY <1>1
<1>4. QED
  BY <1>2, <1>3 DEF Moves

LEMMA SameSize ==
  ASSUME NEW S, NEW R, NEW x, Moves(S, R, x), x \in R <=> x \in S
  PROVE  Cardinality(R) = Cardinality(S)
BY DEF Moves

\* The sets that are counted have a size.
LEMMA Finite ==
  ASSUME Careful
  PROVE  /\ \A o : /\ IsFiniteSet(RefsTo(o)) /\ IsFiniteSet(DmaOf(o)) /\ IsFiniteSet(Owners(o))
                   /\ IsFiniteSet(Heirs(o)) /\ IsFiniteSet(WriterRefs(o)) /\ IsFiniteSet(Writers(o))
                   /\ IsFiniteSet(BoHolders(o))
         /\ \A d : IsFiniteSet(DmaHolders(d))
         /\ \A f : IsFiniteSet(ObjsOf(f))
         /\ IsFiniteSet(RefsUsed) /\ IsFiniteSet(DmaUsed)
<1>1. ASSUME NEW o
      PROVE  /\ RefsTo(o) \subseteq Refs /\ DmaOf(o) \subseteq Dmabufs /\ Owners(o) \subseteq Threads
             /\ Heirs(o) \subseteq Threads /\ WriterRefs(o) \subseteq Refs
             /\ Writers(o) \subseteq Threads /\ BoHolders(o) \subseteq Threads
             /\ DmaHolders(o) \subseteq Threads /\ ObjsOf(o) \subseteq Objs
  BY DEF RefsTo, DmaOf, Owners, Heirs, WriterRefs, Writers, BoHolders, DmaHolders, ObjsOf
<1>2. RefsUsed \subseteq Refs /\ DmaUsed \subseteq Dmabufs
  BY DEF RefsUsed, DmaUsed
<1>3. QED
  BY <1>1, <1>2, FS_Subset DEF Careful

\* The sets of threads change by the thread that makes the step ...
LEMMA ThreadMoves ==
  ASSUME Careful, NEW t, \A u \in Threads \ {t} : th'[u] = th[u]
  PROVE  /\ \A o : /\ Moves(Owners(o), Owners(o)', t) /\ Moves(Heirs(o), Heirs(o)', t)
                   /\ Moves(Writers(o), Writers(o)', t) /\ Moves(BoHolders(o), BoHolders(o)', t)
         /\ \A d : Moves(DmaHolders(d), DmaHolders(d)', t)
<1>2. ASSUME NEW o PROVE Owners(o) \ {t} = Owners(o)' \ {t} /\ Heirs(o) \ {t} = Heirs(o)' \ {t}
  BY DEF Owners, Heirs, Owns, At
<1>3. ASSUME NEW o PROVE Writers(o) \ {t} = Writers(o)' \ {t} /\ BoHolders(o) \ {t} = BoHolders(o)' \ {t}
  BY DEF Writers, BoHolders, Grabbing, At
<1>4. ASSUME NEW d PROVE DmaHolders(d) \ {t} = DmaHolders(d)' \ {t}
  BY DEF DmaHolders
<1>5. ASSUME NEW o
      PROVE  /\ IsFiniteSet(Owners(o)) /\ IsFiniteSet(Heirs(o)) /\ IsFiniteSet(Writers(o))
             /\ IsFiniteSet(BoHolders(o)) /\ IsFiniteSet(DmaHolders(o))
             /\ IsFiniteSet(Owners(o)') /\ IsFiniteSet(Heirs(o)') /\ IsFiniteSet(Writers(o)')
             /\ IsFiniteSet(BoHolders(o)') /\ IsFiniteSet(DmaHolders(o)')
  <2>1. /\ Owners(o)' \subseteq Threads /\ Heirs(o)' \subseteq Threads /\ Writers(o)' \subseteq Threads
        /\ BoHolders(o)' \subseteq Threads /\ DmaHolders(o)' \subseteq Threads
    BY DEF Owners, Heirs, Writers, BoHolders, DmaHolders
  <2>2. QED
    BY <2>1, Finite, FS_Subset DEF Careful
<1>6. QED
  BY <1>2, <1>3, <1>4, <1>5, OneMoves

\* ... those of reference objects by the one it changes ...
LEMMA RefMoves ==
  ASSUME Careful, NEW r,
         \A q \in Refs \ {r} : /\ ref'[q].obj = ref[q].obj /\ ref'[q].st = ref[q].st
                               /\ ref'[q].key = ref[q].key /\ ref'[q].type = ref[q].type
  PROVE  /\ \A o : Moves(RefsTo(o), RefsTo(o)', r) /\ Moves(WriterRefs(o), WriterRefs(o)', r)
         /\ Moves(RefsUsed, RefsUsed', r)
<1>1. ASSUME NEW o PROVE /\ RefsTo(o) \ {r} = RefsTo(o)' \ {r}
                         /\ WriterRefs(o) \ {r} = WriterRefs(o)' \ {r}
  BY DEF RefsTo, WriterRefs
<1>2. RefsUsed \ {r} = RefsUsed' \ {r}
  BY DEF RefsUsed
<1>3. ASSUME NEW o PROVE /\ IsFiniteSet(RefsTo(o)) /\ IsFiniteSet(WriterRefs(o))
                         /\ IsFiniteSet(RefsTo(o)') /\ IsFiniteSet(WriterRefs(o)')
  <2>1. RefsTo(o)' \subseteq Refs /\ WriterRefs(o)' \subseteq Refs
    BY DEF RefsTo, WriterRefs
  <2>2. QED
    BY <2>1, Finite, FS_Subset DEF Careful
<1>4. IsFiniteSet(RefsUsed) /\ IsFiniteSet(RefsUsed')
  <2>1. RefsUsed' \subseteq Refs
    BY DEF RefsUsed
  <2>2. QED
    BY <2>1, Finite, FS_Subset DEF Careful
<1>5. QED
  BY <1>1, <1>2, <1>3, <1>4, OneMoves

\* ... those of dma-bufs by the one it changes ...
LEMMA DmaMoves ==
  ASSUME Careful, NEW d,
         \A e \in Dmabufs \ {d} : dma'[e].obj = dma[e].obj /\ dma'[e].st = dma[e].st
  PROVE  /\ \A o : Moves(DmaOf(o), DmaOf(o)', d)
         /\ Moves(DmaUsed, DmaUsed', d)
<1>1. ASSUME NEW o PROVE DmaOf(o) \ {d} = DmaOf(o)' \ {d}
  BY DEF DmaOf
<1>2. DmaUsed \ {d} = DmaUsed' \ {d}
  BY DEF DmaUsed
<1>3. ASSUME NEW o PROVE IsFiniteSet(DmaOf(o)) /\ IsFiniteSet(DmaOf(o)')
  <2>1. DmaOf(o)' \subseteq Dmabufs
    BY DEF DmaOf
  <2>2. QED
    BY <2>1, Finite, FS_Subset DEF Careful
<1>4. IsFiniteSet(DmaUsed) /\ IsFiniteSet(DmaUsed')
  <2>1. DmaUsed' \subseteq Dmabufs
    BY DEF DmaUsed
  <2>2. QED
    BY <2>1, Finite, FS_Subset DEF Careful
<1>5. QED
  BY <1>1, <1>2, <1>3, <1>4, OneMoves

\* ... and those of objects by the one it changes.
LEMMA ObjMoves ==
  ASSUME Careful, NEW o, \A p \in Objs \ {o} : base'[p].tfile = base[p].tfile
  PROVE  \A f : Moves(ObjsOf(f), ObjsOf(f)', o)
<1>1. ASSUME NEW f PROVE ObjsOf(f) \ {o} = ObjsOf(f)' \ {o}
  BY DEF ObjsOf
<1>2. ASSUME NEW f PROVE IsFiniteSet(ObjsOf(f)) /\ IsFiniteSet(ObjsOf(f)')
  <2>1. ObjsOf(f)' \subseteq Objs
    BY DEF ObjsOf
  <2>2. QED
    BY <2>1, Finite, FS_Subset DEF Careful
<1>3. QED
  BY <1>1, <1>2, OneMoves

-----------------------------------------------------------------------------
(* The steps. *)

Writes(t) == At(t, "ref_obj_release") \/ Grabbing(t)

\* Thread t is one of those that an object counts.
Owes(t) == Owns(t) \/ At(t, "prime_put") \/ Writes(t) \/ HoldsBo(th[t])

\* A thread takes a step: only its own state is to be looked at.
LEMMA Together ==
  ASSUME Careful, IInv, NEW t \in Threads, \A u \in Threads \ {t} : th'[u] = th[u],
         TypeOK', Local(th'[t]), \A u \in Threads : Knows(th[u])',
         \A u \in Threads \ {t} : Apart(th'[t], th[u]) /\ Apart(th[u], th'[t]),
         \A o \in Objs : BufferOK(o)' /\ DmabufNamed(o)',
         \A r \in Refs : RefOK(r)', \A d \in Dmabufs : DmaOK(d)', Counted'
  PROVE  IInv'
<1>1. ASSUME NEW u \in Threads PROVE Local(th'[u])
  <2>1. CASE u = t
    BY <2>1
  <2>2. CASE u # t
    BY <2>2 DEF IInv
  <2>3. QED
    BY <2>1, <2>2
<1>2. ASSUME NEW u \in Threads, NEW v \in Threads, u # v PROVE Apart(th'[u], th'[v])
  <2>1. CASE u = t
    BY <1>2, <2>1
  <2>2. CASE v = t
    BY <1>2, <2>2
  <2>3. CASE u # t /\ v # t
    BY <1>2, <2>3 DEF IInv
  <2>4. QED
    BY <2>1, <2>2, <2>3
<1>3. ASSUME NEW u \in Threads PROVE (Local(th[u]) /\ Knows(th[u]))'
  BY <1>1
<1>4. ASSUME NEW u \in Threads, NEW v \in Threads, u # v PROVE Apart(th[u], th[v])'
  BY <1>2, <1>4
<1>5. QED
  BY <1>3, <1>4 DEF IInv

\* A thread that changes nothing but its own state, and moves into or out of none
\* of the sets that are counted.
LEMMA ThreadOnly ==
  ASSUME Careful, IInv, NEW t \in Threads, \A u \in Threads \ {t} : th'[u] = th[u],
         th' \in [Threads -> ThreadType], UNCHANGED <<base, bo, ref, dma, tf, mem>>,
         Local(th'[t]), Knows(th'[t]),
         \A u \in Threads \ {t} : Apart(th'[t], th[u]) /\ Apart(th[u], th'[t]),
         th[t].op # "close", th'[t].op # "close",
         Owns(t)' <=> Owns(t), At(t, "prime_put")' <=> At(t, "prime_put"),
         Writes(t)' <=> Writes(t), HoldsBo(th'[t]) <=> HoldsBo(th[t]),
         HoldsDma(th'[t]) <=> HoldsDma(th[t]),
         th'[t].obj = th[t].obj \/ ~Owes(t), th'[t].dma = th[t].dma \/ ~HoldsDma(th[t])
  PROVE  IInv'
<1>1. TypeOK'
  BY DEF IInv, TypeOK, ThreadType
<1>2. ASSUME NEW f PROVE /\ Held(f)' <=> Held(f)
                         /\ \A o : HasHandle(f, o)' <=> HasHandle(f, o)
  <2>1. Closing(f)' <=> Closing(f)
    BY DEF Closing
  <2>2. QED
    BY <2>1 DEF Held, HasHandle, Find
<1>3. ASSUME NEW u \in Threads PROVE Knows(th[u])'
  <2>1. CASE u = t
    BY <1>2, <2>1 DEF Knows
  <2>2. CASE u # t
    <3>1. th'[u] = th[u] /\ Knows(th[u])
      BY <2>2 DEF IInv
    <3>2. QED
      BY <1>2, <3>1 DEF Knows
  <2>3. QED
    BY <2>1, <2>2
<1>4. ASSUME NEW o \in Objs PROVE BufferOK(o)' /\ DmabufNamed(o)'
  BY <1>2 DEF IInv, BufferOK, DmabufNamed
<1>5. ASSUME NEW r \in Refs PROVE RefOK(r)'
  BY <1>2 DEF IInv, RefOK
<1>6. ASSUME NEW d \in Dmabufs PROVE DmaOK(d)'
  BY DEF IInv, DmaOK
<1>7. Counted'
  <2>1. ASSUME NEW o
        PROVE  /\ Cardinality(Owners(o)') = Cardinality(Owners(o))
               /\ Cardinality(Heirs(o)') = Cardinality(Heirs(o))
               /\ Cardinality(Writers(o)') = Cardinality(Writers(o))
               /\ Cardinality(BoHolders(o)') = Cardinality(BoHolders(o))
    <3>1. t \in Owners(o)' <=> t \in Owners(o)
      BY DEF Owners, Owes
    <3>2. t \in Heirs(o)' <=> t \in Heirs(o)
      BY DEF Heirs, Owes
    <3>3. t \in Writers(o)' <=> t \in Writers(o)
      BY DEF Writers, Writes, Owes
    <3>4. t \in BoHolders(o)' <=> t \in BoHolders(o)
      BY DEF BoHolders, Owes
    <3>5. /\ Moves(Owners(o), Owners(o)', t) /\ Moves(Heirs(o), Heirs(o)', t)
          /\ Moves(Writers(o), Writers(o)', t) /\ Moves(BoHolders(o), BoHolders(o)', t)
      BY ThreadMoves
    <3>6. QED
      BY <3>1, <3>2, <3>3, <3>4, <3>5, SameSize
  <2>2. ASSUME NEW d PROVE Cardinality(DmaHolders(d)') = Cardinality(DmaHolders(d))
    <3>1. t \in DmaHolders(d)' <=> t \in DmaHolders(d)
      BY DEF DmaHolders
    <3>2. QED
      BY <3>1, ThreadMoves, SameSize
  <2>3. \A o : /\ RefsTo(o)' = RefsTo(o) /\ DmaOf(o)' = DmaOf(o) /\ WriterRefs(o)' = WriterRefs(o)
               /\ ObjsOf(o)' = ObjsOf(o) /\ RefsUsed' = RefsUsed /\ DmaUsed' = DmaUsed
    BY DEF RefsTo, DmaOf, WriterRefs, ObjsOf, RefsUsed, DmaUsed
  <2>4. ASSUME NEW o \in Objs PROVE BaseCounted(o)' /\ BoCounted(o)' /\ WritersCounted(o)'
    BY <2>1, <2>3 DEF IInv, Counted, BaseCounted, BoCounted, WritersCounted
  <2>5. ASSUME NEW d \in Dmabufs PROVE DmaCounted(d)'
    BY <2>2 DEF IInv, Counted, DmaCounted
  <2>6. ASSUME NEW f \in Files PROVE FileCounted(f)'
    BY <1>2, <2>3 DEF IInv, Counted, FileCounted
  <2>7. mem' = Cardinality(RefsUsed)' + Cardinality(DmaUsed)'
    BY <2>3 DEF IInv, Counted
  <2>8. QED
    BY <2>4, <2>5, <2>6, <2>7 DEF Counted
<1>8. QED
  BY <1>1, <1>3, <1>4, <1>5, <1>6, <1>7, Together

\* What the invariant says of the thread that makes a step.
LEMMA Here ==
  ASSUME IInv, NEW t \in Threads
  PROVE  /\ th[t] \in ThreadType /\ Local(th[t]) /\ Knows(th[t])
         /\ th \in [Threads -> ThreadType]
         /\ th[t].pc = "idle" => th[t] = Idle
BY DEF IInv, TypeOK, ThreadType, Local, InCall, Adding, Dropping, Heir

\* A call that looks its object up, or has it from a surface, begins.
LEMMA BeginInv ==
  ASSUME Careful, IInv, NEW t \in Threads, NEW f \in Files, NEW o \in Objs,
         \/ Use(t, f, o) \/ vmw_user_dmabuf_synccpu_grab(t, f, o)
         \/ vmw_user_dmabuf_reference(t, f, o) \/ ttm_prime_handle_to_fd(t, f, o)
  PROVE  IInv'
<1>1. PICK op \in {"use", "grab", "backup", "export"} :
        /\ Enter(t, op, f, o, IF op = "backup" THEN "ref_find" ELSE "lookup")
        /\ op = "backup" => bo[o].backup # NULL
  BY DEF Use, vmw_user_dmabuf_synccpu_grab, vmw_user_dmabuf_reference, ttm_prime_handle_to_fd
<1>2. tf[f].open /\ UNCHANGED <<base, bo, ref, dma, tf, mem>>
  BY DEF Use, vmw_user_dmabuf_synccpu_grab, vmw_user_dmabuf_reference, ttm_prime_handle_to_fd
<1>3. th[t] = Idle /\ th \in [Threads -> ThreadType]
  BY <1>1, Here DEF Enter, At
<1>4. PICK pc : /\ pc = (IF op = "backup" THEN "ref_find" ELSE "lookup")
                /\ th' = [th EXCEPT ![t] = [Idle EXCEPT !.op = op, !.file = f, !.obj = o, !.pc = pc]]
  BY <1>1 DEF Enter
<1>5. /\ th' \in [Threads -> ThreadType] /\ \A u \in Threads \ {t} : th'[u] = th[u]
      /\ th'[t].op = op /\ th'[t].pc = pc /\ th'[t].file = f /\ th'[t].obj = o
      /\ th'[t].type = "usage"
  <2>1. pc \in Steps /\ op \in Ops
    BY <1>4 DEF Steps, Ops
  <2>2. [Idle EXCEPT !.op = op, !.file = f, !.obj = o, !.pc = pc] \in ThreadType
    BY <2>1 DEF ThreadType, Idle, RefTypes
  <2>3. QED
    BY <1>3, <1>4, <2>2 DEF Idle
<1>6. Local(th'[t])
  BY <1>4, <1>5 DEF Local, InCall, FreesRef, HoldsDma, Adding
<1>7. Knows(th'[t])
  BY <1>1, <1>2, <1>4, <1>5 DEF Knows, OfFile, PreInit, Relies, FreesRef, HoldsDma, Adding, Dropping
<1>8. ASSUME NEW u \in Threads \ {t} PROVE Apart(th'[t], th[u]) /\ Apart(th[u], th'[t])
  <2>1. th[u].op = "close" => th[u].file # f
    BY <1>2 DEF IInv, Knows
  <2>2. QED
    BY <1>4, <1>5, <2>1 DEF Apart, PreInit, FreesRef, Adding
<1>9. /\ ~Owes(t) /\ ~Owes(t)' /\ ~HoldsDma(th[t]) /\ ~HoldsDma(th'[t])
  BY <1>3, <1>4, <1>5 DEF Idle, Owes, Owns, At, Writes, Grabbing, HoldsBo, HoldsDma, Adding, Dropping
<1>11. th[t].op # "close" /\ th'[t].op # "close"
  BY <1>3, <1>5 DEF Idle
<1>12. QED
  BY <1>2, <1>5, <1>6, <1>7, <1>8, <1>9, <1>11, ThreadOnly DEF Owes

\* A thread without a call knows nothing.
LEMMA IdleIs ==
  ASSUME IInv
  PROVE  /\ Idle \in ThreadType /\ Local(Idle) /\ Knows(Idle)
         /\ \A u \in Threads : Apart(Idle, th[u]) /\ Apart(th[u], Idle)
<1>1. Idle \in ThreadType /\ Local(Idle)
  BY DEF Idle, ThreadType, Ops, Steps, RefTypes, Local, InCall, FreesRef, HoldsDma
<1>2. Knows(Idle)
  BY DEF Idle, Knows, OfFile, PreInit, Relies, FreesRef, HoldsDma
<1>3. ASSUME NEW u \in Threads PROVE Apart(Idle, th[u]) /\ Apart(th[u], Idle)
  <2>1. th[u].op = "close" => th[u].file # NULL
    BY Here, ObjectAssumption DEF Local
  <2>2. QED
    BY <2>1 DEF Idle, Apart, PreInit, FreesRef
<1>4. QED
  BY <1>1, <1>2, <1>3

\* The object is looked up, or not found.
LEMMA LookupInv ==
  ASSUME Careful, IInv, NEW t \in Threads, Lookup(t) \/ LookupLoad(t)
  PROVE  IInv'
<1>1. /\ th[t].pc \in {"lookup", "lookup_load"} /\ th[t].op \in {"use", "grab", "export"}
      /\ th[t] \in ThreadType /\ Local(th[t]) /\ Knows(th[t]) /\ th \in [Threads -> ThreadType]
  BY Here DEF Lookup, LookupLoad, At, Local, InCall, Adding, Dropping, Heir
<1>2. UNCHANGED <<base, bo, ref, dma, tf, mem>>
  BY DEF Lookup, LookupLoad
<1>3. CASE th' = [th EXCEPT ![t] = Idle]
  <2>1. /\ th' \in [Threads -> ThreadType] /\ \A u \in Threads \ {t} : th'[u] = th[u]
        /\ th'[t] = Idle
    BY <1>1, <1>3, IdleIs
  <2>2. /\ ~Owes(t) /\ ~Owes(t)' /\ ~HoldsDma(th[t]) /\ ~HoldsDma(th'[t])
    BY <1>1, <2>1 DEF Idle, Owes, Owns, At, Writes, Grabbing, HoldsBo, HoldsDma, Adding, Dropping
  <2>3. th[t].op # "close" /\ th'[t].op # "close"
    BY <1>1, <2>1 DEF Idle
  <2>4. QED
    BY <1>2, <2>1, <2>2, <2>3, IdleIs, ThreadOnly DEF Owes
<1>4. CASE \E pc, r : /\ th' = [th EXCEPT ![t].ref = r, ![t].pc = pc]
                      /\ \/ /\ pc = "lookup_load" /\ th[t].pc = "lookup"
                            /\ r \in Find(th[t].file, th[t].obj, "usage")
                         \/ pc \in {"oops", "lookup_get"} /\ th[t].pc = "lookup_load"
                            /\ r \in Refs \cup {NULL}
  <2>1. PICK pc, r : /\ th' = [th EXCEPT ![t].ref = r, ![t].pc = pc]
                     /\ \/ /\ pc = "lookup_load" /\ th[t].pc = "lookup"
                           /\ r \in Find(th[t].file, th[t].obj, "usage")
                        \/ pc \in {"oops", "lookup_get"} /\ th[t].pc = "lookup_load"
                           /\ r \in Refs \cup {NULL}
    BY <1>4
  <2>2. PICK w \in ThreadType : w = [th[t] EXCEPT !.ref = r, !.pc = pc]
    BY <1>1, <2>1 DEF ThreadType, Find, Steps
  <2>3. /\ th' \in [Threads -> ThreadType] /\ \A u \in Threads \ {t} : th'[u] = th[u]
        /\ th'[t] = w
    BY <1>1, <2>1, <2>2
  <2>4. /\ w.op = th[t].op /\ w.file = th[t].file /\ w.obj = th[t].obj /\ w.type = th[t].type
        /\ w.dma = th[t].dma /\ w.pc = pc /\ w.ref = r
    BY <1>1, <2>2 DEF ThreadType
  <2>5. Local(w)
    BY <1>1, <2>1, <2>4 DEF Local, InCall, FreesRef, HoldsDma, Find, Adding, Dropping, Heir
  <2>6. Knows(w)
    <3>1. pc = "lookup_load" => ref[r].obj = th[t].obj /\ HasHandle(th[t].file, th[t].obj)
      BY <2>1 DEF IInv, RefOK, Find, HasHandle
    <3>2. QED
      BY <1>1, <2>1, <2>4, <3>1 DEF Knows, OfFile, PreInit, Relies, FreesRef, HoldsDma, Adding, Dropping
  <2>7. ASSUME NEW u \in Threads \ {t} PROVE Apart(w, th[u]) /\ Apart(th[u], w)
    BY <1>1, <2>1, <2>4 DEF IInv, Apart, PreInit, FreesRef, Adding
  <2>8. /\ ~Owes(t) /\ ~Owes(t)' /\ ~HoldsDma(th[t]) /\ ~HoldsDma(th'[t])
    BY <1>1, <2>1, <2>3, <2>4 DEF Owes, Owns, At, Writes, Grabbing, HoldsBo, HoldsDma, Adding, Dropping
  <2>9. QED
    BY <1>1, <1>2, <2>3, <2>4, <2>5, <2>6, <2>7, <2>8, ThreadOnly DEF Owes
<1>5. CASE Lookup(t)
  BY <1>3, <1>4, <1>5 DEF Lookup, Continue, Then, At
<1>6. CASE LookupLoad(t)
  <2>1. th[t].pc = "lookup_load" /\ th[t].ref \in Refs
    BY <1>1, <1>6 DEF LookupLoad, At, Local
  <2>2. QED
    BY <1>4, <1>6, <2>1 DEF LookupLoad
<1>7. QED
  BY <1>5, <1>6

\* ttm_ref_object_add fails, or goes on without having changed anything.
LEMMA AddFailsInv ==
  ASSUME Careful, IInv, NEW t \in Threads, RefFind(t) \/ RefInsert(t),
         UNCHANGED <<base, bo, ref, dma, tf, mem>>,
         \/ Return(t, "error") \/ Continue(t, "ref_insert") \/ Continue(t, "ref_find")
  PROVE  IInv'
<1>1. /\ th[t].pc \in Adding /\ th[t].op \in {"alloc", "grab", "import", "backup"}
      /\ th[t] \in ThreadType /\ Local(th[t]) /\ Knows(th[t]) /\ th \in [Threads -> ThreadType]
  BY Here DEF RefFind, RefInsert, At, Local, InCall, Adding, Dropping, Heir
<1>2. CASE th[t].op = "backup" /\ Return(t, "error")
  <2>1. th' = [th EXCEPT ![t] = Idle]
    BY <1>2 DEF Return, AfterAdd
  <2>2. /\ th' \in [Threads -> ThreadType] /\ \A u \in Threads \ {t} : th'[u] = th[u]
        /\ th'[t] = Idle
    BY <1>1, <2>1, IdleIs
  <2>3. /\ ~Owes(t) /\ ~Owes(t)' /\ ~HoldsDma(th[t]) /\ ~HoldsDma(th'[t])
    BY <1>1, <1>2, <2>2 DEF Idle, Owes, Owns, At, Writes, Grabbing, HoldsBo, HoldsDma, Adding, Dropping
  <2>4. th[t].op # "close" /\ th'[t].op # "close"
    BY <1>1, <2>2 DEF Idle
  <2>5. QED
    BY <2>2, <2>3, <2>4, IdleIs, ThreadOnly DEF Owes
<1>3. CASE ~(th[t].op = "backup" /\ Return(t, "error"))
  <2>1. PICK pc, ret : /\ th' = [th EXCEPT ![t].pc = pc, ![t].ret = ret]
                       /\ \/ pc \in Adding /\ ret = th[t].ret
                          \/ /\ th[t].op = "alloc" /\ pc = "inited" /\ ret = "error"
                          \/ /\ th[t].op = "grab" /\ pc = "grabbed" /\ ret = "error"
                          \/ /\ th[t].op = "import" /\ pc = "dma_buf_put" /\ ret = "error"
    <3>1. CASE Return(t, "error")
      BY <1>1, <1>3, <3>1 DEF Return, AfterAdd
    <3>2. CASE Continue(t, "ref_insert")
      <4>1. th' = [th EXCEPT ![t].pc = "ref_insert", ![t].ret = th[t].ret]
        BY <1>1, <3>2 DEF Continue, Then, ThreadType
      <4>2. QED
        BY <4>1 DEF Adding
    <3>3. CASE Continue(t, "ref_find")
      <4>1. th' = [th EXCEPT ![t].pc = "ref_find", ![t].ret = th[t].ret]
        BY <1>1, <3>3 DEF Continue, Then, ThreadType
      <4>2. QED
        BY <4>1 DEF Adding
    <3>4. QED
      BY <3>1, <3>2, <3>3
  <2>2. pc \in Steps /\ ret \in {"ok", "new", "existed", "error"}
    BY <1>1, <2>1 DEF ThreadType, Steps, Adding
  <2>3. PICK w \in ThreadType : w = [th[t] EXCEPT !.pc = pc, !.ret = ret]
    BY <1>1, <2>2 DEF ThreadType
  <2>4. /\ th' \in [Threads -> ThreadType] /\ \A u \in Threads \ {t} : th'[u] = th[u]
        /\ th'[t] = w
    BY <1>1, <2>1, <2>3
  <2>5. /\ w.op = th[t].op /\ w.file = th[t].file /\ w.obj = th[t].obj /\ w.type = th[t].type
        /\ w.dma = th[t].dma /\ w.ref = th[t].ref /\ w.pc = pc /\ w.ret = ret
    BY <1>1, <2>3 DEF ThreadType
  <2>6. Local(w)
    BY <1>1, <2>1, <2>5 DEF Local, InCall, FreesRef, HoldsDma, Adding, Dropping, Heir
  <2>7. Knows(w)
    BY <1>1, <2>1, <2>5 DEF Knows, OfFile, PreInit, Relies, FreesRef, HoldsDma, Adding, Dropping
  <2>8. ASSUME NEW u \in Threads \ {t} PROVE Apart(w, th[u]) /\ Apart(th[u], w)
    <3>1. Apart(th[t], th[u]) /\ Apart(th[u], th[t])
      BY DEF IInv
    <3>2. QED
      BY <1>1, <2>1, <2>5, <3>1 DEF Apart, PreInit, FreesRef, Adding
  <2>9. /\ Owns(t)' <=> Owns(t)
        /\ HoldsBo(w) <=> HoldsBo(th[t])
        /\ HoldsDma(w) <=> HoldsDma(th[t])
    BY <1>1, <2>1, <2>4, <2>5 DEF Owns, HoldsBo, HoldsDma, Adding, Dropping
  <2>10. /\ ~At(t, "prime_put")' /\ ~At(t, "prime_put")
         /\ Writes(t)' <=> Writes(t)
    BY <1>1, <2>1, <2>4, <2>5 DEF Writes, Grabbing, At, Adding
  <2>11. QED
    BY <1>1, <2>4, <2>5, <2>6, <2>7, <2>8, <2>9, <2>10, ThreadOnly
<1>4. QED
  BY <1>2, <1>3

\* The base object that has been found is being released.
LEMMA LookupFailsInv ==
  ASSUME Careful, IInv, NEW t \in Threads, LookupGet(t), base' = base, Continue(t, "idle")
  PROVE  IInv'
<1>1. /\ th[t].pc = "lookup_get" /\ th[t].op \in {"use", "grab", "export"}
      /\ th \in [Threads -> ThreadType]
  BY Here DEF LookupGet, At, Local, InCall, Adding, Dropping, Heir
<1>2. th' = [th EXCEPT ![t] = Idle] /\ UNCHANGED <<base, bo, ref, dma, tf, mem>>
  BY DEF LookupGet, Continue, Then
<1>3. /\ th' \in [Threads -> ThreadType] /\ \A u \in Threads \ {t} : th'[u] = th[u]
      /\ th'[t] = Idle
  BY <1>1, <1>2, IdleIs
<1>4. /\ ~Owes(t) /\ ~Owes(t)' /\ ~HoldsDma(th[t]) /\ ~HoldsDma(th'[t])
  BY <1>1, <1>3 DEF Idle, Owes, Owns, At, Writes, Grabbing, HoldsBo, HoldsDma, Adding, Dropping
<1>5. th[t].op # "close" /\ th'[t].op # "close"
  BY <1>1, <1>3 DEF Idle
<1>6. QED
  BY <1>2, <1>3, <1>4, <1>5, IdleIs, ThreadOnly DEF Owes

LEMMA GoesOn ==
  ASSUME th \in [Threads -> ThreadType], NEW t \in Threads, NEW s \in Steps, Continue(t, s)
  PROVE  /\ th' \in [Threads -> ThreadType] /\ \A u \in Threads \ {t} : th'[u] = th[u]
         /\ s = "idle" => th'[t] = Idle
         /\ s # "idle" => /\ th'[t].op = th[t].op /\ th'[t].pc = s /\ th'[t].file = th[t].file
                          /\ th'[t].obj = th[t].obj /\ th'[t].type = th[t].type
                          /\ th'[t].ref = th[t].ref /\ th'[t].dma = th[t].dma
                          /\ th'[t].ret = th[t].ret
<1>1. CASE s = "idle"
  <2>1. th' = [th EXCEPT ![t] = Idle] /\ Idle \in ThreadType
    BY <1>1 DEF Continue, Then, Idle, ThreadType, Ops, Steps, RefTypes
  <2>2. QED
    BY <1>1, <2>1
<1>2. CASE s # "idle"
  <2>1. PICK w \in ThreadType : w = [th[t] EXCEPT !.pc = s]
    BY DEF ThreadType
  <2>2. th' = [th EXCEPT ![t] = w]
    BY <1>2, <2>1 DEF Continue, Then
  <2>3. /\ w.op = th[t].op /\ w.pc = s /\ w.file = th[t].file /\ w.obj = th[t].obj
        /\ w.type = th[t].type /\ w.ref = th[t].ref /\ w.dma = th[t].dma /\ w.ret = th[t].ret
    BY <2>1 DEF ThreadType
  <2>4. QED
    BY <1>2, <2>2, <2>3
<1>3. QED
  BY <1>1, <1>2

\* A thread that goes on with its call, without becoming the one to release
\* something, stays apart from the others.
LEMMA StillApart ==
  ASSUME IInv, NEW t \in Threads, NEW w,
         w = Idle \/ /\ w.op = th[t].op /\ w.file = th[t].file /\ w.obj = th[t].obj
                     /\ w.ref = th[t].ref /\ w.dma = th[t].dma
                     /\ FreesRef(w) => FreesRef(th[t]),
         PreInit(w) => PreInit(th[t]),
         w.pc \notin {"dma_release", "base_release", "prime_release"}
  PROVE  \A u \in Threads \ {t} : Apart(w, th[u]) /\ Apart(th[u], w)
<1>1. CASE w = Idle
  BY <1>1, IdleIs
<1>2. CASE w # Idle
  <2>1. ASSUME NEW u \in Threads \ {t} PROVE Apart(th[t], th[u]) /\ Apart(th[u], th[t])
    BY DEF IInv
  <2>2. QED
    BY <1>2, <2>1 DEF Apart
<1>3. QED
  BY <1>1, <1>2

\* What a thread knows stays true when what it points to stays as it is.
LEMMA KnowsStays ==
  ASSUME IInv, NEW u \in Threads, th'[u] = th[u],
         OfFile(th[u]) \/ th[u].op = "close" => tf'[th[u].file].open = tf[th[u].file].open,
         PreInit(th[u]) => /\ base'[th[u].obj].st = base[th[u].obj].st
                           /\ bo'[th[u].obj].backup = bo[th[u].obj].backup,
         Relies(th[u]) => HasHandle(th[u].file, th[u].obj)',
         th[u].op = "backup" => bo'[th[u].obj].backup # NULL,
         th[u].pc = "lookup_load" => ref'[th[u].ref].obj \in {ref[th[u].ref].obj, NULL},
         FreesRef(th[u]) => ref'[th[u].ref] = ref[th[u].ref],
         HoldsDma(th[u]) \/ th[u].pc = "dma_release" =>
           dma'[th[u].dma].obj = dma[th[u].dma].obj,
         th[u].pc = "dma_release" => dma'[th[u].dma].f_count = dma[th[u].dma].f_count,
         th[u].pc \in {"base_release", "prime_release"} =>
           base'[th[u].obj].st = "live" /\ base'[th[u].obj].kref = 0
  PROVE  Knows(th[u])'
<1>1. Knows(th[u]) /\ Local(th[u])
  BY DEF IInv
<1>2. th[u].pc \in {"ref_obj_release", "ref_clear"} => FreesRef(th[u])
  BY <1>1 DEF Local, InCall, FreesRef, Adding, Dropping, Heir
<1>3. Relies(th[u])' => HasHandle(th[u].file, th[u].obj)'
  BY DEF Relies
<1>4. /\ OfFile(th[u])' => tf'[th'[u].file].open
      /\ th'[u].op = "close" => ~tf'[th'[u].file].open
      /\ PreInit(th[u])' => base'[th'[u].obj].st = "live" /\ bo'[th'[u].obj].backup = NULL
      /\ th'[u].op = "backup" => bo'[th'[u].obj].backup # NULL
  BY <1>1 DEF Knows, OfFile, PreInit
<1>5. /\ th'[u].pc = "lookup_load" => ref'[th'[u].ref].obj \in {th'[u].obj, NULL}
      /\ FreesRef(th[u])' => ref'[th'[u].ref].st = "gone"
      /\ th'[u].pc \in {"ref_obj_release", "ref_clear"} => ref'[th'[u].ref].obj = th'[u].obj
      /\ FreesRef(th[u])' /\ th'[u].pc \notin {"ref_obj_release", "ref_clear"} =>
           ref'[th'[u].ref].obj = NULL
  BY <1>1, <1>2 DEF Knows, FreesRef
<1>6. /\ HoldsDma(th[u])' \/ th'[u].pc = "dma_release" => dma'[th'[u].dma].obj = th'[u].obj
      /\ th'[u].pc = "dma_release" => dma'[th'[u].dma].f_count = 0
      /\ th'[u].pc \in {"base_release", "prime_release"} =>
           base'[th'[u].obj].st = "live" /\ base'[th'[u].obj].kref = 0
  BY <1>1 DEF Knows, HoldsDma
<1>7. QED
  BY <1>3, <1>4, <1>5, <1>6 DEF Knows

\* The count of one base object changes, with the thread's references to it.
LEMMA BaseStep ==
  ASSUME Careful, IInv, NEW t \in Threads, \A u \in Threads \ {t} : th'[u] = th[u],
         th' \in [Threads -> ThreadType], UNCHANGED <<bo, ref, dma, tf, mem>>,
         NEW o \in Objs, NEW k \in Nat, base' = [base EXCEPT ![o].kref = k], base[o].kref > 0,
         Local(th'[t]), Knows(th[t])',
         \A u \in Threads \ {t} : Apart(th'[t], th[u]) /\ Apart(th[u], th'[t]),
         th[t].op # "close" <=> th'[t].op # "close", th'[t].op = "close" => th'[t].file = th[t].file,
         \A x : (IF t \in Owners(x)' THEN 1 ELSE 0) + (IF t \in Heirs(x)' THEN 1 ELSE 0)
                = (IF t \in Owners(x) THEN 1 ELSE 0) + (IF t \in Heirs(x) THEN 1 ELSE 0)
                  + (IF x = o THEN k - base[o].kref ELSE 0),
         Writes(t)' <=> Writes(t), HoldsBo(th'[t]) <=> HoldsBo(th[t]),
         HoldsDma(th'[t]) <=> HoldsDma(th[t]),
         th'[t].obj = th[t].obj \/ ~(Writes(t) \/ HoldsBo(th[t])),
         th'[t].dma = th[t].dma \/ ~HoldsDma(th[t])
  PROVE  IInv'
<1>1. /\ \A x \in Objs : /\ base'[x].st = base[x].st /\ base'[x].tfile = base[x].tfile
                         /\ base'[x].hashed = base[x].hashed /\ base'[x].dma_buf = base[x].dma_buf
                         /\ x # o => base'[x] = base[x]
      /\ base'[o].kref = k
  BY DEF IInv, TypeOK
<1>2. base[o].st \in {"live", "leaked"}
  BY DEF IInv, TypeOK, BufferOK, NoBase
<1>3. TypeOK'
  <2>1. base \in [Objs -> BaseType]
    BY DEF IInv, TypeOK, BaseType
  <2>2. PICK b \in BaseType : b = [base[o] EXCEPT !.kref = k]
    BY <2>1 DEF BaseType
  <2>3. base' \in [Objs -> BaseType]
    BY <2>1, <2>2
  <2>4. QED
    BY <2>3 DEF IInv, TypeOK, ThreadType, BaseType
<1>4. ASSUME NEW f PROVE /\ Held(f)' <=> Held(f)
                         /\ \A x : HasHandle(f, x)' <=> HasHandle(f, x)
  <2>1. Closing(f)' <=> Closing(f)
    BY DEF Closing
  <2>2. QED
    BY <2>1 DEF Held, HasHandle, Find
<1>5. ASSUME NEW u \in Threads PROVE Knows(th[u])'
  <2>1. CASE u = t
    BY <2>1
  <2>2. CASE u # t
    <3>1. th'[u] = th[u] /\ Knows(th[u]) /\ Local(th[u])
      BY <2>2 DEF IInv
    <3>2. th[u].pc \in {"base_release", "prime_release"} => th[u].obj \in Objs /\ th[u].obj # o
      BY <3>1 DEF Knows, Local
    <3>3. PreInit(th[u]) => th[u].obj \in Objs
      BY <3>1 DEF Local, PreInit, Adding
    <3>4. /\ th[u].pc \in {"base_release", "prime_release"} =>
               base'[th[u].obj].st = "live" /\ base'[th[u].obj].kref = 0
          /\ PreInit(th[u]) => base'[th[u].obj].st = base[th[u].obj].st
      BY <1>1, <3>1, <3>2, <3>3 DEF Knows
    <3>5. Relies(th[u]) => HasHandle(th[u].file, th[u].obj)'
      BY <1>4, <3>1 DEF Knows
    <3>6. th[u].op = "backup" => bo[th[u].obj].backup # NULL
      BY <3>1 DEF Knows
    <3>7. QED
      BY <3>1, <3>4, <3>5, <3>6, KnowsStays
  <2>3. QED
    BY <2>1, <2>2
<1>6. ASSUME NEW x \in Objs PROVE BufferOK(x)' /\ DmabufNamed(x)'
  <2>1. BufferOK(x) /\ DmabufNamed(x)
    BY DEF IInv
  <2>2. BufferOK(x)'
    <3>1. bo[x].backup # NULL => tf[bo[x].backup].open /\ HasHandle(bo[x].backup, x)'
      BY <1>4, <2>1 DEF BufferOK
    <3>2. CASE x = o
      <4>1. /\ base'[x].st = base[x].st /\ base'[x].tfile = base[x].tfile
            /\ base'[x].hashed = base[x].hashed /\ base[x].st \in {"live", "leaked"}
        BY <1>1, <1>2, <3>2
      <4>2. /\ base'[x].st # "none" /\ base'[x].st # "dead" /\ bo[x].kref # 0
        BY <2>1, <4>1 DEF BufferOK
      <4>3. QED
        BY <2>1, <3>1, <4>1, <4>2 DEF BufferOK
    <3>3. CASE x # o
      BY <1>1, <2>1, <3>1, <3>3 DEF BufferOK
    <3>4. QED
      BY <3>2, <3>3
  <2>3. DmabufNamed(x)'
    BY <1>1, <2>1 DEF DmabufNamed
  <2>4. QED
    BY <2>2, <2>3
<1>7. ASSUME NEW r \in Refs PROVE RefOK(r)'
  BY <1>4 DEF IInv, RefOK
<1>8. ASSUME NEW d \in Dmabufs PROVE DmaOK(d)'
  BY DEF IInv, DmaOK
<1>9. Counted'
  <2>1. ASSUME NEW x
        PROVE  /\ Cardinality(Writers(x)') = Cardinality(Writers(x))
               /\ Cardinality(BoHolders(x)') = Cardinality(BoHolders(x))
    <3>1. t \in Writers(x)' <=> t \in Writers(x)
      BY DEF Writers, Writes
    <3>2. t \in BoHolders(x)' <=> t \in BoHolders(x)
      BY DEF BoHolders
    <3>3. Moves(Writers(x), Writers(x)', t) /\ Moves(BoHolders(x), BoHolders(x)', t)
      BY ThreadMoves
    <3>4. QED
      BY <3>1, <3>2, <3>3, SameSize
  <2>2. ASSUME NEW d PROVE Cardinality(DmaHolders(d)') = Cardinality(DmaHolders(d))
    <3>1. t \in DmaHolders(d)' <=> t \in DmaHolders(d)
      BY DEF DmaHolders
    <3>2. QED
      BY <3>1, ThreadMoves, SameSize
  <2>3. ASSUME NEW x
        PROVE  /\ RefsTo(x)' = RefsTo(x) /\ DmaOf(x)' = DmaOf(x) /\ WriterRefs(x)' = WriterRefs(x)
               /\ ObjsOf(x)' = ObjsOf(x) /\ RefsUsed' = RefsUsed /\ DmaUsed' = DmaUsed
    BY <1>1 DEF RefsTo, DmaOf, WriterRefs, ObjsOf, RefsUsed, DmaUsed
  <2>4. ASSUME NEW x \in Objs PROVE BaseCounted(x)'
    <3>1. Moves(Owners(x), Owners(x)', t) /\ Moves(Heirs(x), Heirs(x)', t) /\ BaseCounted(x)
      BY ThreadMoves DEF IInv, Counted
    <3>2. Cardinality(RefsTo(x)) \in Nat /\ Cardinality(DmaOf(x)) \in Nat /\ base[x].kref \in Nat
      BY Finite, FS_CardinalityType DEF IInv, TypeOK
    <3>3. QED
      BY <1>1, <2>3, <3>1, <3>2 DEF BaseCounted, Moves
  <2>5. ASSUME NEW x \in Objs PROVE BoCounted(x)' /\ WritersCounted(x)'
    BY <1>1, <2>1, <2>3 DEF IInv, Counted, BoCounted, WritersCounted
  <2>6. ASSUME NEW d \in Dmabufs PROVE DmaCounted(d)'
    BY <2>2 DEF IInv, Counted, DmaCounted
  <2>7. ASSUME NEW f \in Files PROVE FileCounted(f)'
    BY <1>4, <2>3 DEF IInv, Counted, FileCounted
  <2>8. mem' = Cardinality(RefsUsed)' + Cardinality(DmaUsed)'
    BY <2>3 DEF IInv, Counted
  <2>9. QED
    BY <2>4, <2>5, <2>6, <2>7, <2>8 DEF Counted
<1>10. QED
  BY <1>3, <1>5, <1>6, <1>7, <1>8, <1>9, Together

\* A reference to the object is taken while there is one.
LEMMA LookupGetInv ==
  ASSUME Careful, IInv, NEW t \in Threads, LookupGet(t)
  PROVE  IInv'
<1>1. /\ th[t].pc = "lookup_get" /\ th[t].op \in {"use", "grab", "export"} /\ th[t].obj \in Objs
      /\ th \in [Threads -> ThreadType] /\ Local(th[t]) /\ Knows(th[t])
  BY Here DEF LookupGet, At, Local, InCall, Adding, Dropping, Heir
<1>2. CASE base' = base /\ Continue(t, "idle")
  BY <1>2, LookupFailsInv
<1>3. CASE /\ base[th[t].obj].kref > 0
           /\ base' = [base EXCEPT ![th[t].obj].kref = @ + 1]
           /\ Continue(t, AfterLookup(t))
  <2>1. PICK s \in {"base_put", "bo_get", "export"} :
          /\ s = AfterLookup(t)
          /\ \/ th[t].op = "use" /\ s = "base_put"
             \/ th[t].op = "grab" /\ s = "bo_get"
             \/ th[t].op = "export" /\ s = "export"
    BY <1>1 DEF AfterLookup
  <2>2. Continue(t, s) /\ s \in Steps /\ s # "idle"
    BY <1>3, <2>1 DEF Steps
  <2>3. /\ th' \in [Threads -> ThreadType] /\ \A u \in Threads \ {t} : th'[u] = th[u]
        /\ th'[t].op = th[t].op /\ th'[t].pc = s /\ th'[t].file = th[t].file
        /\ th'[t].obj = th[t].obj /\ th'[t].type = th[t].type
        /\ th'[t].ref = th[t].ref /\ th'[t].dma = th[t].dma
    BY <1>1, <2>2, GoesOn
  <2>4. Local(th'[t])
    BY <1>1, <2>1, <2>3 DEF Local, InCall, FreesRef, HoldsDma, Adding, Dropping, Heir
  <2>5. UNCHANGED <<bo, ref, dma, tf, mem>>
    BY DEF LookupGet
  <2>6. Knows(th[t])'
    <3>1. HasHandle(th[t].file, th[t].obj)' <=> HasHandle(th[t].file, th[t].obj)
      BY <2>3, <2>5 DEF HasHandle, Find
    <3>2. QED
      BY <1>1, <2>1, <2>3, <2>5, <3>1 DEF Knows, OfFile, PreInit, Relies, FreesRef, HoldsDma,
         Adding, Dropping
  <2>7. \A u \in Threads \ {t} : Apart(th'[t], th[u]) /\ Apart(th[u], th'[t])
    BY <1>1, <2>1, <2>3, StillApart DEF FreesRef, PreInit, Adding
  <2>8. PICK o \in Objs : o = th[t].obj
    BY <1>1
  <2>9. base[o].kref \in Nat
    BY DEF IInv, TypeOK
  <2>10. PICK k \in Nat : k = base[o].kref + 1
    BY <2>9
  <2>11. base' = [base EXCEPT ![o].kref = k]
    BY <1>3, <2>8, <2>10
  <2>12. /\ ~Owns(t) /\ Owns(t)' /\ ~At(t, "prime_put") /\ ~At(t, "prime_put")'
         /\ ~Writes(t) /\ ~Writes(t)' /\ ~HoldsBo(th[t]) /\ ~HoldsBo(th'[t])
         /\ ~HoldsDma(th[t]) /\ ~HoldsDma(th'[t])
    BY <1>1, <2>1, <2>3 DEF Owns, At, Writes, Grabbing, HoldsBo, HoldsDma, Adding, Dropping
  <2>13. \A x : (IF t \in Owners(x)' THEN 1 ELSE 0) + (IF t \in Heirs(x)' THEN 1 ELSE 0)
                = (IF t \in Owners(x) THEN 1 ELSE 0) + (IF t \in Heirs(x) THEN 1 ELSE 0)
                  + (IF x = o THEN k - base[o].kref ELSE 0)
    BY <2>3, <2>8, <2>9, <2>10, <2>12 DEF Owners, Heirs
  <2>14. /\ base[o].kref > 0 /\ th[t].op # "close" /\ th'[t].op # "close"
         /\ th'[t].obj = th[t].obj /\ th'[t].dma = th[t].dma
    BY <1>1, <1>3, <2>3, <2>8
  <2>15. QED
    BY <1>1, <2>3, <2>4, <2>5, <2>6, <2>7, <2>11, <2>12, <2>13, <2>14, BaseStep
<1>4. QED
  BY <1>2, <1>3 DEF LookupGet

LEMMA LookupForRefInv ==
  ASSUME Careful, IInv, NEW t \in Threads, NEW f \in Files, NEW o \in Objs, LookupForRef(t, f, o)
  PROVE  IInv'
<1>1. /\ th[t] = Idle /\ th \in [Threads -> ThreadType]
      /\ tf[f].open /\ base[o].kref > 0 /\ UNCHANGED <<bo, ref, dma, tf, mem>>
      /\ base' = [base EXCEPT ![o].kref = @ + 1]
  BY Here DEF LookupForRef, Enter, At, Visible
<1>2. PICK w \in ThreadType :
        w = [Idle EXCEPT !.op = "name", !.file = f, !.obj = o, !.pc = "base_put"]
  BY DEF ThreadType, Idle, Ops, Steps, RefTypes
<1>3. /\ th' \in [Threads -> ThreadType] /\ \A u \in Threads \ {t} : th'[u] = th[u]
      /\ th'[t] = w
  BY <1>1, <1>2 DEF LookupForRef, Enter
<1>4. /\ w.op = "name" /\ w.pc = "base_put" /\ w.file = f /\ w.obj = o /\ w.type = "usage"
      /\ w.dma = NULL
  BY <1>2 DEF Idle
<1>5. Local(w)
  BY <1>4 DEF Local, InCall, FreesRef, HoldsDma, Adding, Dropping
<1>6. Knows(th[t])'
  BY <1>1, <1>3, <1>4 DEF Knows, OfFile, PreInit, Relies, FreesRef, HoldsDma, Adding, Dropping
<1>7. ASSUME NEW u \in Threads \ {t} PROVE Apart(w, th[u]) /\ Apart(th[u], w)
  <2>1. th[u].op = "close" => th[u].file # f
    BY <1>1 DEF IInv, Knows
  <2>2. QED
    BY <1>4, <2>1 DEF Apart, PreInit, FreesRef
<1>8. base[o].kref \in Nat
  BY DEF IInv, TypeOK
<1>9. PICK k \in Nat : k = base[o].kref + 1
  BY <1>8
<1>10. base' = [base EXCEPT ![o].kref = k]
  BY <1>1, <1>9
<1>11. /\ ~Owns(t) /\ Owns(t)' /\ ~At(t, "prime_put") /\ ~At(t, "prime_put")'
       /\ ~Writes(t) /\ ~Writes(t)' /\ ~HoldsBo(th[t]) /\ ~HoldsBo(w)
       /\ ~HoldsDma(th[t]) /\ ~HoldsDma(w)
  BY <1>1, <1>3, <1>4 DEF Idle, Owns, At, Writes, Grabbing, HoldsBo, HoldsDma, Adding, Dropping
<1>12. \A x : (IF t \in Owners(x)' THEN 1 ELSE 0) + (IF t \in Heirs(x)' THEN 1 ELSE 0)
              = (IF t \in Owners(x) THEN 1 ELSE 0) + (IF t \in Heirs(x) THEN 1 ELSE 0)
                + (IF x = o THEN k - base[o].kref ELSE 0)
  BY <1>3, <1>4, <1>8, <1>9, <1>11 DEF Owners, Heirs
<1>13. th[t].op # "close" /\ w.op # "close"
  BY <1>1, <1>4 DEF Idle
<1>14. QED
  BY <1>1, <1>3, <1>5, <1>6, <1>7, <1>10, <1>11, <1>12, <1>13, BaseStep

\* A reference to the object is dropped; the last one is the thread's own or the
\* dma-buf's, and the thread that has dropped it is the one to release the object.
LEMMA BasePutInv ==
  ASSUME Careful, IInv, NEW t \in Threads, ttm_base_object_unref(t)
  PROVE  IInv'
<1>1. /\ th[t].pc \in {"base_put", "prime_put"} /\ th[t].obj \in Objs
      /\ th \in [Threads -> ThreadType] /\ Local(th[t]) /\ Knows(th[t]) /\ InCall(th[t])
      /\ UNCHANGED <<bo, ref, dma, tf, mem>>
  BY Here DEF ttm_base_object_unref, At, Local
<1>2. PICK o \in Objs : o = th[t].obj
  BY <1>1
<1>3. t \in Owners(o) \/ t \in Heirs(o)
  BY <1>1, <1>2 DEF Owners, Heirs, Owns, At
<1>4. /\ base[o].kref \in Nat /\ base[o].kref > 0
      /\ base[o].kref = 1 => base[o].st # "leaked"
  <2>1. Moves(Owners(o), Owners(o), t) /\ Moves(Heirs(o), Heirs(o), t) /\ BaseCounted(o)
    BY Finite, OneMoves DEF IInv, Counted
  <2>2. Cardinality(RefsTo(o)) \in Nat /\ Cardinality(DmaOf(o)) \in Nat /\ base[o].kref \in Nat
    BY Finite, FS_CardinalityType DEF IInv, TypeOK
  <2>3. Cardinality(Owners(o)) + Cardinality(Heirs(o)) > 0
    BY <1>3, <2>1 DEF Moves
  <2>4. QED
    BY <2>1, <2>2, <2>3 DEF Moves, BaseCounted
<1>5. PICK k \in Nat : k = base[o].kref - 1
  BY <1>4
<1>6. base' = [base EXCEPT ![o].kref = k]
  BY <1>2, <1>5 DEF ttm_base_object_unref
<1>7. PICK s : /\ Continue(t, s)
               /\ \/ base[o].kref # 1 /\ s = AfterPut(t)
                  \/ base[o].kref = 1 /\ th[t].pc = "base_put" /\ s = "base_release"
                  \/ base[o].kref = 1 /\ th[t].pc = "prime_put" /\ s = "prime_release"
  <2>1. CASE base[o].kref # 1
    BY <1>2, <2>1 DEF ttm_base_object_unref
  <2>2. CASE base[o].kref = 1
    BY <1>1, <1>2, <2>2 DEF ttm_base_object_unref, At
  <2>3. QED
    BY <2>1, <2>2
<1>8. \/ th[t].pc = "base_put" /\ th[t].op \in {"unref", "close"} /\ s = "ref_free"
      \/ th[t].pc = "base_put" /\ th[t].op = "alloc" /\ s = "bo_put"
      \/ th[t].pc = "base_put" /\ th[t].op = "grab" /\ s = "write_grab"
      \/ th[t].pc = "base_put" /\ th[t].op \in {"define", "name", "use", "export"} /\ s = "idle"
      \/ th[t].pc = "prime_put" /\ th[t].op = "export" /\ s = "base_put"
      \/ th[t].pc = "prime_put" /\ th[t].op \in {"export_new", "import", "close_fd"} /\ s = "idle"
      \/ base[o].kref = 1 /\ th[t].pc = "base_put" /\ s = "base_release"
      \/ base[o].kref = 1 /\ th[t].pc = "prime_put" /\ s = "prime_release"
  BY <1>1, <1>7 DEF AfterPut, AfterPrime, InCall, Adding, Dropping, Heir
<1>9. s \in Steps
  BY <1>8 DEF Steps
<1>10. /\ th' \in [Threads -> ThreadType] /\ \A u \in Threads \ {t} : th'[u] = th[u]
       /\ s = "idle" => th'[t] = Idle
       /\ s # "idle" => /\ th'[t].op = th[t].op /\ th'[t].pc = s /\ th'[t].file = th[t].file
                        /\ th'[t].obj = th[t].obj /\ th'[t].type = th[t].type
                        /\ th'[t].ref = th[t].ref /\ th'[t].dma = th[t].dma
                        /\ th'[t].ret = th[t].ret
  BY <1>1, <1>7, <1>9, GoesOn
<1>11. Local(th'[t])
  <2>1. CASE s = "idle"
    BY <1>10, <2>1, IdleIs
  <2>2. CASE s # "idle"
    BY <1>1, <1>8, <1>10, <2>2 DEF Local, InCall, FreesRef, HoldsDma, Adding, Dropping, Heir
  <2>3. QED
    BY <2>1, <2>2
<1>12. Knows(th[t])'
  <2>1. CASE s = "idle"
    BY <1>10, <2>1 DEF Knows, Idle, OfFile, PreInit, Relies, FreesRef, HoldsDma
  <2>2. CASE s # "idle"
    <3>1. HasHandle(th[t].file, th[t].obj)' <=> HasHandle(th[t].file, th[t].obj)
      BY <1>1, <1>10, <2>2 DEF HasHandle, Find
    <3>2. s \in {"base_release", "prime_release"} => base'[o].st = "live" /\ base'[o].kref = 0
      BY <1>4, <1>5, <1>6, <1>8 DEF IInv, TypeOK, BufferOK, NoBase
    <3>3. QED
      BY <1>1, <1>2, <1>8, <1>10, <2>2, <3>1, <3>2 DEF Knows, OfFile, PreInit, Relies, FreesRef,
         HoldsDma, Adding, Dropping
  <2>3. QED
    BY <2>1, <2>2
<1>13. ASSUME NEW u \in Threads \ {t} PROVE Apart(th'[t], th[u]) /\ Apart(th[u], th'[t])
  <2>1. CASE s \in {"base_release", "prime_release"}
    <3>1. /\ Apart(th[t], th[u]) /\ Apart(th[u], th[t])
          /\ th[u].pc \in {"base_release", "prime_release"} => base[th[u].obj].kref = 0
      BY DEF IInv, Knows
    <3>2. QED
      BY <1>1, <1>2, <1>4, <1>8, <1>10, <2>1, <3>1 DEF Apart, FreesRef, PreInit, Adding
  <2>2. CASE s \notin {"base_release", "prime_release"}
    <3>1. /\ PreInit(th'[t]) => PreInit(th[t])
          /\ th'[t].pc \notin {"dma_release", "base_release", "prime_release"}
          /\ s # "idle" => (FreesRef(th'[t]) => FreesRef(th[t]))
      BY <1>1, <1>8, <1>10, <2>2 DEF PreInit, FreesRef, Adding, Idle
    <3>2. QED
      BY <1>10, <3>1, StillApart
  <2>3. QED
    BY <2>1, <2>2
<1>14. /\ Writes(t)' <=> Writes(t)
       /\ HoldsBo(th'[t]) <=> HoldsBo(th[t])
       /\ HoldsDma(th'[t]) <=> HoldsDma(th[t])
       /\ th[t].op # "close" <=> th'[t].op # "close"
       /\ s = "idle" => ~Writes(t) /\ ~HoldsBo(th[t]) /\ ~HoldsDma(th[t])
  <2>1. CASE s = "idle"
    BY <1>1, <1>8, <1>10, <2>1 DEF Idle, At, Writes, Grabbing, HoldsBo, HoldsDma, Adding, Dropping
  <2>2. CASE s # "idle"
    BY <1>1, <1>8, <1>10, <2>2 DEF At, Writes, Grabbing, HoldsBo, HoldsDma, Adding, Dropping
  <2>3. QED
    BY <2>1, <2>2
<1>15. \A x : (IF t \in Owners(x)' THEN 1 ELSE 0) + (IF t \in Heirs(x)' THEN 1 ELSE 0)
              = (IF t \in Owners(x) THEN 1 ELSE 0) + (IF t \in Heirs(x) THEN 1 ELSE 0)
                + (IF x = o THEN k - base[o].kref ELSE 0)
  <2>1. k - base[o].kref = -1
    BY <1>4, <1>5
  <2>2. CASE th[t].pc = "base_put"
    <3>1. Owns(t) /\ ~At(t, "prime_put") /\ ~Owns(t)' /\ ~At(t, "prime_put")'
      BY <1>1, <1>8, <1>10, <2>2 DEF Owns, At, Idle
    <3>2. QED
      BY <1>2, <2>1, <3>1 DEF Owners, Heirs
  <2>3. CASE th[t].pc = "prime_put" /\ th[t].op = "export"
    <3>1. Owns(t) /\ At(t, "prime_put") /\ Owns(t)' /\ ~At(t, "prime_put")' /\ th'[t].obj = th[t].obj
      BY <1>1, <1>8, <1>10, <2>3 DEF Owns, At
    <3>2. QED
      BY <1>2, <2>1, <3>1 DEF Owners, Heirs
  <2>4. CASE th[t].pc = "prime_put" /\ th[t].op # "export"
    <3>1. ~Owns(t) /\ At(t, "prime_put") /\ ~Owns(t)' /\ ~At(t, "prime_put")'
      BY <1>1, <1>8, <1>10, <2>4 DEF Owns, At, Idle, InCall, Heir, Adding, Dropping
    <3>2. QED
      BY <1>2, <2>1, <3>1 DEF Owners, Heirs
  <2>5. QED
    BY <1>1, <2>2, <2>3, <2>4
<1>16. th'[t].op = "close" => th'[t].file = th[t].file
  BY <1>10 DEF Idle
<1>17. /\ th'[t].obj = th[t].obj \/ ~(Writes(t) \/ HoldsBo(th[t]))
       /\ th'[t].dma = th[t].dma \/ ~HoldsDma(th[t])
  BY <1>10, <1>14
<1>18. QED
  BY <1>1, <1>4, <1>6, <1>10, <1>11, <1>12, <1>13, <1>14, <1>15, <1>16, <1>17, BaseStep

\* Whoever refers to a base object keeps it and its buffer.
LEMMA BaseAlive ==
  ASSUME Careful, IInv, NEW o \in Objs,
         \/ \E t \in Threads : t \in Owners(o) \/ t \in Heirs(o)
         \/ \E r \in Refs : ref[r].obj = o
         \/ \E d \in Dmabufs : dma[d].obj = o
  PROVE  /\ base[o].kref \in Nat /\ base[o].kref > 0
         /\ base[o].st \in {"live", "leaked"} /\ bo[o].kref \in Nat /\ bo[o].kref > 0
<1>1. BaseCounted(o) /\ base[o].kref \in Nat /\ bo[o].kref \in Nat
  BY DEF IInv, Counted, TypeOK
<1>2. /\ \A t : Moves(Owners(o), Owners(o), t) /\ Moves(Heirs(o), Heirs(o), t)
      /\ \A r : Moves(RefsTo(o), RefsTo(o), r) /\ Moves(DmaOf(o), DmaOf(o), r)
  BY Finite, OneMoves
<1>3. /\ Cardinality(Owners(o)) \in Nat /\ Cardinality(Heirs(o)) \in Nat
      /\ Cardinality(RefsTo(o)) \in Nat /\ Cardinality(DmaOf(o)) \in Nat
  BY <1>2 DEF Moves
<1>4. ASSUME \E t \in Threads : t \in Owners(o) \/ t \in Heirs(o) PROVE base[o].kref > 0
  <2>1. Cardinality(Owners(o)) > 0 \/ Cardinality(Heirs(o)) > 0
    BY <1>2, <1>4 DEF Moves
  <2>2. QED
    BY <1>1, <1>3, <2>1 DEF BaseCounted
<1>5. ASSUME \E r \in Refs : ref[r].obj = o PROVE base[o].kref > 0
  <2>1. \E r : r \in RefsTo(o)
    BY <1>5 DEF RefsTo
  <2>2. Cardinality(RefsTo(o)) > 0
    BY <1>2, <2>1 DEF Moves
  <2>3. QED
    BY <1>1, <1>3, <2>2 DEF BaseCounted
<1>6. ASSUME \E d \in Dmabufs : dma[d].obj = o PROVE base[o].kref > 0
  <2>1. \E d : d \in DmaOf(o)
    BY <1>6 DEF DmaOf
  <2>2. Cardinality(DmaOf(o)) > 0
    BY <1>2, <2>1 DEF Moves
  <2>3. QED
    BY <1>1, <1>3, <2>2 DEF BaseCounted
<1>7. base[o].kref > 0
  BY <1>4, <1>5, <1>6
<1>8. base[o].st \in {"live", "leaked"} /\ bo[o].kref # 0
  BY <1>7 DEF IInv, TypeOK, BufferOK, NoBase
<1>9. QED
  BY <1>1, <1>7, <1>8

\* The counts of one buffer object change, with the thread's place in them.
LEMMA BoStep ==
  ASSUME Careful, IInv, NEW t \in Threads, \A u \in Threads \ {t} : th'[u] = th[u],
         th' \in [Threads -> ThreadType], UNCHANGED <<base, ref, dma, tf, mem>>,
         NEW o \in Objs, NEW k \in Nat, NEW n \in Nat,
         bo' = [bo EXCEPT ![o].kref = k, ![o].cpu_writers = n], bo[o].kref > 0, k > 0,
         Local(th'[t]), Knows(th[t])',
         \A u \in Threads \ {t} : Apart(th'[t], th[u]) /\ Apart(th[u], th'[t]),
         th'[t].op = th[t].op, th'[t].file = th[t].file, th'[t].dma = th[t].dma,
         th[t].obj = o, th'[t].obj = o,
         (IF HoldsBo(th'[t]) THEN 1 ELSE 0) = (IF HoldsBo(th[t]) THEN 1 ELSE 0) + (k - bo[o].kref),
         (IF Writes(t)' THEN 1 ELSE 0) = (IF Writes(t) THEN 1 ELSE 0) + (n - bo[o].cpu_writers),
         Owns(t)' <=> Owns(t), ~At(t, "prime_put"), ~At(t, "prime_put")',
         HoldsDma(th'[t]) <=> HoldsDma(th[t])
  PROVE  IInv'
<1>1. /\ \A x \in Objs : bo'[x].backup = bo[x].backup /\ (x # o => bo'[x] = bo[x])
      /\ bo'[o].kref = k /\ bo'[o].cpu_writers = n
  BY DEF IInv, TypeOK
<1>2. TypeOK'
  <2>1. bo \in [Objs -> [kref : Nat, cpu_writers : Nat, backup : Files \cup {NULL}]]
    BY DEF IInv, TypeOK
  <2>2. bo' \in [Objs -> [kref : Nat, cpu_writers : Nat, backup : Files \cup {NULL}]]
    BY <2>1
  <2>3. QED
    BY <2>2 DEF IInv, TypeOK, ThreadType
<1>3. ASSUME NEW f PROVE /\ Held(f)' <=> Held(f)
                         /\ \A x : HasHandle(f, x)' <=> HasHandle(f, x)
  <2>1. Closing(f)' <=> Closing(f)
    BY DEF Closing
  <2>2. QED
    BY <2>1 DEF Held, HasHandle, Find
<1>4. ASSUME NEW u \in Threads PROVE Knows(th[u])'
  <2>1. CASE u = t
    BY <2>1
  <2>2. CASE u # t
    <3>1. th'[u] = th[u] /\ Knows(th[u]) /\ Local(th[u])
      BY <2>2 DEF IInv
    <3>2. th[u].op = "backup" => bo'[th[u].obj].backup # NULL
      BY <1>1, <3>1 DEF Knows, Local, InCall, Adding
    <3>3. Relies(th[u]) => HasHandle(th[u].file, th[u].obj)'
      BY <1>3, <3>1 DEF Knows
    <3>4. th[u].pc \in {"base_release", "prime_release"} =>
            base'[th[u].obj].st = "live" /\ base'[th[u].obj].kref = 0
      BY <3>1 DEF Knows
    <3>5. PreInit(th[u]) => bo'[th[u].obj].backup = bo[th[u].obj].backup
      BY <1>1, <3>1 DEF Local, PreInit, Adding
    <3>6. QED
      BY <3>1, <3>2, <3>3, <3>4, <3>5, KnowsStays
  <2>3. QED
    BY <2>1, <2>2
<1>5. ASSUME NEW x \in Objs PROVE BufferOK(x)' /\ DmabufNamed(x)'
  <2>1. BufferOK(x) /\ DmabufNamed(x)
    BY DEF IInv
  <2>2. BufferOK(x)'
    <3>1. CASE x = o
      <4>1. /\ bo'[x].kref = k /\ bo'[x].kref # 0 /\ bo'[x].backup = bo[x].backup
            /\ base[x].st # "none"
        <5>1. k # 0 /\ bo[o].kref # 0
          OBVIOUS
        <5>2. base[x].st # "none"
          BY <2>1, <3>1, <5>1 DEF BufferOK
        <5>3. QED
          BY <1>1, <3>1, <5>1, <5>2
      <4>2. QED
        BY <1>3, <2>1, <4>1 DEF BufferOK
    <3>2. CASE x # o
      BY <1>1, <1>3, <2>1, <3>2 DEF BufferOK
    <3>3. QED
      BY <3>1, <3>2
  <2>3. DmabufNamed(x)'
    BY <2>1 DEF DmabufNamed
  <2>4. QED
    BY <2>2, <2>3
<1>6. ASSUME NEW r \in Refs PROVE RefOK(r)'
  BY <1>3 DEF IInv, RefOK
<1>7. ASSUME NEW d \in Dmabufs PROVE DmaOK(d)'
  BY DEF IInv, DmaOK
<1>8. Counted'
  <2>1. ASSUME NEW x
        PROVE  /\ Cardinality(Owners(x)') = Cardinality(Owners(x))
               /\ Cardinality(Heirs(x)') = Cardinality(Heirs(x))
    <3>1. t \in Owners(x)' <=> t \in Owners(x)
      BY DEF Owners
    <3>2. t \in Heirs(x)' <=> t \in Heirs(x)
      BY DEF Heirs
    <3>3. Moves(Owners(x), Owners(x)', t) /\ Moves(Heirs(x), Heirs(x)', t)
      BY ThreadMoves
    <3>4. QED
      BY <3>1, <3>2, <3>3, SameSize
  <2>2. ASSUME NEW d PROVE Cardinality(DmaHolders(d)') = Cardinality(DmaHolders(d))
    <3>1. t \in DmaHolders(d)' <=> t \in DmaHolders(d)
      BY DEF DmaHolders
    <3>2. QED
      BY <3>1, ThreadMoves, SameSize
  <2>3. ASSUME NEW x
        PROVE  /\ RefsTo(x)' = RefsTo(x) /\ DmaOf(x)' = DmaOf(x) /\ WriterRefs(x)' = WriterRefs(x)
               /\ ObjsOf(x)' = ObjsOf(x) /\ RefsUsed' = RefsUsed /\ DmaUsed' = DmaUsed
    BY DEF RefsTo, DmaOf, WriterRefs, ObjsOf, RefsUsed, DmaUsed
  <2>4. ASSUME NEW x \in Objs PROVE BaseCounted(x)'
    BY <2>1, <2>3 DEF IInv, Counted, BaseCounted
  <2>5. ASSUME NEW x \in Objs PROVE BoCounted(x)'
    <3>1. Moves(BoHolders(x), BoHolders(x)', t) /\ BoCounted(x) /\ bo[x].kref \in Nat
      BY ThreadMoves DEF IInv, Counted, TypeOK
    <3>2. /\ t \in BoHolders(x) <=> x = o /\ HoldsBo(th[t])
          /\ t \in BoHolders(x)' <=> x = o /\ HoldsBo(th'[t])
      BY DEF BoHolders
    <3>3. CASE x = o
      <4>1. Cardinality(BoHolders(x)') = Cardinality(BoHolders(x)) + (k - bo[x].kref)
        BY <3>1, <3>2, <3>3 DEF Moves
      <4>2. Cardinality(BoHolders(x)) \in Nat /\ bo'[x].kref = k /\ bo'[x].backup = bo[x].backup
        BY <1>1, <3>1, <3>3 DEF Moves
      <4>3. QED
        BY <3>1, <4>1, <4>2 DEF BoCounted
    <3>4. CASE x # o
      <4>1. Cardinality(BoHolders(x)') = Cardinality(BoHolders(x)) /\ bo'[x] = bo[x]
        <5>1. t \notin BoHolders(x) /\ t \notin BoHolders(x)'
          BY <3>2, <3>4
        <5>2. QED
          BY <1>1, <3>1, <3>4, <5>1, SameSize
      <4>2. QED
        BY <3>1, <4>1 DEF BoCounted
    <3>5. QED
      BY <3>3, <3>4
  <2>6. ASSUME NEW x \in Objs PROVE WritersCounted(x)'
    <3>1. Moves(Writers(x), Writers(x)', t) /\ WritersCounted(x) /\ bo[x].cpu_writers \in Nat
      BY ThreadMoves DEF IInv, Counted, TypeOK
    <3>2. /\ t \in Writers(x) <=> x = o /\ Writes(t)
          /\ t \in Writers(x)' <=> x = o /\ Writes(t)'
      BY DEF Writers, Writes
    <3>3. Cardinality(WriterRefs(x)) \in Nat
      BY Finite, FS_CardinalityType
    <3>4. CASE x = o
      <4>1. Cardinality(Writers(x)') = Cardinality(Writers(x)) + (n - bo[x].cpu_writers)
        BY <3>1, <3>2, <3>4 DEF Moves
      <4>2. Cardinality(Writers(x)) \in Nat /\ bo'[x].cpu_writers = n
        BY <1>1, <3>1, <3>4 DEF Moves
      <4>3. QED
        BY <2>3, <3>1, <3>3, <4>1, <4>2 DEF WritersCounted
    <3>5. CASE x # o
      <4>1. Cardinality(Writers(x)') = Cardinality(Writers(x)) /\ bo'[x] = bo[x]
        <5>1. t \notin Writers(x) /\ t \notin Writers(x)'
          BY <3>2, <3>5
        <5>2. QED
          BY <1>1, <3>1, <3>5, <5>1, SameSize
      <4>2. QED
        BY <2>3, <3>1, <4>1 DEF WritersCounted
    <3>6. QED
      BY <3>4, <3>5
  <2>7. ASSUME NEW d \in Dmabufs PROVE DmaCounted(d)'
    BY <2>2 DEF IInv, Counted, DmaCounted
  <2>8. ASSUME NEW f \in Files PROVE FileCounted(f)'
    BY <1>3, <2>3 DEF IInv, Counted, FileCounted
  <2>9. mem' = Cardinality(RefsUsed)' + Cardinality(DmaUsed)'
    BY <2>3 DEF IInv, Counted
  <2>10. QED
    BY <2>4, <2>5, <2>6, <2>7, <2>8, <2>9 DEF Counted
<1>9. QED
  BY <1>2, <1>4, <1>5, <1>6, <1>7, <1>8, Together

\* A thread that holds the buffer object keeps it, and one that keeps submissions
\* out is counted.
LEMMA BoAlive ==
  ASSUME Careful, IInv, NEW t \in Threads, NEW o \in Objs, th[t].obj = o
  PROVE  /\ bo[o].kref \in Nat /\ bo[o].cpu_writers \in Nat
         /\ HoldsBo(th[t]) => bo[o].kref > 0
         /\ Writes(t) => bo[o].cpu_writers > 0
<1>1. /\ bo[o].kref \in Nat /\ bo[o].cpu_writers \in Nat
      /\ BoCounted(o) /\ WritersCounted(o)
  BY DEF IInv, TypeOK, Counted
<1>2. /\ Moves(BoHolders(o), BoHolders(o), t) /\ Moves(Writers(o), Writers(o), t)
      /\ Cardinality(WriterRefs(o)) \in Nat
  BY Finite, OneMoves, FS_CardinalityType
<1>3. ASSUME HoldsBo(th[t]) PROVE bo[o].kref > 0
  <2>1. t \in BoHolders(o)
    BY <1>3 DEF BoHolders
  <2>2. Cardinality(BoHolders(o)) \in Nat /\ Cardinality(BoHolders(o)) > 0
    BY <1>2, <2>1 DEF Moves
  <2>3. QED
    BY <1>1, <2>2 DEF BoCounted
<1>4. ASSUME Writes(t) PROVE bo[o].cpu_writers > 0
  <2>1. t \in Writers(o)
    BY <1>4 DEF Writers, Writes
  <2>2. Cardinality(Writers(o)) \in Nat /\ Cardinality(Writers(o)) > 0
    BY <1>2, <2>1 DEF Moves
  <2>3. QED
    BY <1>1, <1>2, <2>2 DEF WritersCounted
<1>5. QED
  BY <1>1, <1>3, <1>4

\* The reference to the base object is exchanged for one to the buffer object.
LEMMA BoGetInv ==
  ASSUME Careful, IInv, NEW t \in Threads, BoGet(t)
  PROVE  IInv'
<1>1. /\ th[t].pc = "bo_get" /\ th[t].op = "grab" /\ th[t].obj \in Objs
      /\ th \in [Threads -> ThreadType] /\ Local(th[t]) /\ Knows(th[t])
      /\ UNCHANGED <<base, ref, dma, tf, mem>> /\ Continue(t, "base_put")
  BY Here DEF BoGet, At, Local, InCall, Adding, Dropping, Heir
<1>2. PICK o \in Objs : o = th[t].obj
  BY <1>1
<1>3. /\ th' \in [Threads -> ThreadType] /\ \A u \in Threads \ {t} : th'[u] = th[u]
      /\ th'[t].op = th[t].op /\ th'[t].pc = "base_put" /\ th'[t].file = th[t].file
      /\ th'[t].obj = th[t].obj /\ th'[t].type = th[t].type
      /\ th'[t].ref = th[t].ref /\ th'[t].dma = th[t].dma
  BY <1>1, GoesOn DEF Steps
<1>4. bo[o].kref > 0 /\ bo[o].kref \in Nat /\ bo[o].cpu_writers \in Nat
  <2>1. t \in Owners(o)
    BY <1>1, <1>2 DEF Owners, Owns
  <2>2. QED
    BY <1>2, <2>1, BaseAlive, BoAlive
<1>5. PICK k \in Nat, n \in Nat : k = bo[o].kref + 1 /\ n = bo[o].cpu_writers
  BY <1>4
<1>6. bo' = [bo EXCEPT ![o].kref = k, ![o].cpu_writers = n]
  BY <1>2, <1>5 DEF BoGet, IInv, TypeOK
<1>7. Local(th'[t])
  BY <1>1, <1>3 DEF Local, InCall, FreesRef, HoldsDma, Adding, Dropping
<1>8. Knows(th[t])'
  <2>1. HasHandle(th[t].file, th[t].obj)' <=> HasHandle(th[t].file, th[t].obj)
    BY <1>1, <1>3 DEF HasHandle, Find
  <2>2. QED
    BY <1>1, <1>3, <2>1 DEF Knows, OfFile, PreInit, Relies, FreesRef, HoldsDma, Adding, Dropping
<1>9. \A u \in Threads \ {t} : Apart(th'[t], th[u]) /\ Apart(th[u], th'[t])
  BY <1>1, <1>3, StillApart DEF FreesRef, PreInit
<1>10. /\ Owns(t) /\ Owns(t)' /\ ~At(t, "prime_put") /\ ~At(t, "prime_put")'
       /\ ~Writes(t) /\ ~Writes(t)' /\ ~HoldsBo(th[t]) /\ HoldsBo(th'[t])
       /\ ~HoldsDma(th[t]) /\ ~HoldsDma(th'[t])
  BY <1>1, <1>3 DEF Owns, At, Writes, Grabbing, HoldsBo, HoldsDma, Adding, Dropping
<1>11. /\ k > 0 /\ k - bo[o].kref = 1 /\ n - bo[o].cpu_writers = 0
  BY <1>4, <1>5
<1>12. /\ (IF HoldsBo(th'[t]) THEN 1 ELSE 0) = (IF HoldsBo(th[t]) THEN 1 ELSE 0) + (k - bo[o].kref)
      /\ (IF Writes(t)' THEN 1 ELSE 0) = (IF Writes(t) THEN 1 ELSE 0) + (n - bo[o].cpu_writers)
  BY <1>10, <1>11
<1>13. th[t].obj = o /\ th'[t].obj = o /\ th'[t].op = th[t].op /\ th'[t].file = th[t].file
      /\ th'[t].dma = th[t].dma
  BY <1>2, <1>3
<1>14. QED
  BY <1>1, <1>2, <1>3, <1>4, <1>6, <1>7, <1>8, <1>9, <1>10, <1>11, <1>12, <1>13, BoStep

\* Submissions are kept out, or the grab fails.
LEMMA WriteGrabInv ==
  ASSUME Careful, IInv, NEW t \in Threads, WriteGrab(t)
  PROVE  IInv'
<1>1. /\ th[t].pc = "write_grab" /\ th[t].op = "grab" /\ th[t].obj \in Objs
      /\ th \in [Threads -> ThreadType] /\ Local(th[t]) /\ Knows(th[t])
      /\ UNCHANGED <<base, ref, dma, tf, mem>>
  BY Here DEF WriteGrab, At, Local, InCall, Adding, Dropping, Heir
<1>2. CASE /\ bo' = [bo EXCEPT ![th[t].obj].cpu_writers = @ + 1]
           /\ th' = [th EXCEPT ![t].pc = "ref_find", ![t].type = "synccpu_write"]
  <2>1. PICK o \in Objs : o = th[t].obj
    BY <1>1
  <2>2. PICK w \in ThreadType : w = [th[t] EXCEPT !.pc = "ref_find", !.type = "synccpu_write"]
    <3>1. "ref_find" \in Steps /\ "synccpu_write" \in RefTypes
      BY DEF Steps, RefTypes
    <3>2. th[t] \in ThreadType
      BY <1>1
    <3>3. [th[t] EXCEPT !.pc = "ref_find", !.type = "synccpu_write"] \in ThreadType
      BY <3>1, <3>2 DEF ThreadType
    <3>4. QED
      BY <3>3
  <2>3. /\ th' \in [Threads -> ThreadType] /\ \A u \in Threads \ {t} : th'[u] = th[u]
        /\ th'[t] = w
    BY <1>1, <1>2, <2>2
  <2>4. /\ w.op = th[t].op /\ w.pc = "ref_find" /\ w.file = th[t].file /\ w.obj = th[t].obj
        /\ w.type = "synccpu_write" /\ w.ref = th[t].ref /\ w.dma = th[t].dma
    BY <1>1, <2>2 DEF ThreadType
  <2>5. Local(w)
    BY <1>1, <2>4 DEF Local, InCall, FreesRef, HoldsDma, Adding, Dropping
  <2>6. Knows(th[t])'
    <3>1. HasHandle(th[t].file, th[t].obj)' <=> HasHandle(th[t].file, th[t].obj)
      BY <1>1, <2>3, <2>4 DEF HasHandle, Find
    <3>2. QED
      BY <1>1, <2>3, <2>4, <3>1 DEF Knows, OfFile, PreInit, Relies, FreesRef, HoldsDma, Adding, Dropping
  <2>7. \A u \in Threads \ {t} : Apart(w, th[u]) /\ Apart(th[u], w)
    BY <1>1, <2>4, StillApart DEF FreesRef, PreInit
  <2>8. /\ ~Owns(t) /\ ~Owns(t)' /\ ~At(t, "prime_put") /\ ~At(t, "prime_put")'
        /\ ~Writes(t) /\ Writes(t)' /\ HoldsBo(th[t]) /\ HoldsBo(w)
        /\ ~HoldsDma(th[t]) /\ ~HoldsDma(w)
    BY <1>1, <2>3, <2>4 DEF Owns, At, Writes, Grabbing, HoldsBo, HoldsDma, Adding, Dropping
  <2>9. bo[o].kref > 0 /\ bo[o].kref \in Nat /\ bo[o].cpu_writers \in Nat
    BY <2>1, <2>8, BoAlive
  <2>10. PICK k \in Nat, n \in Nat : k = bo[o].kref /\ n = bo[o].cpu_writers + 1
    BY <2>9
  <2>11. bo' = [bo EXCEPT ![o].kref = k, ![o].cpu_writers = n]
    BY <1>2, <2>1, <2>10 DEF IInv, TypeOK
  <2>12. /\ k > 0 /\ k - bo[o].kref = 0 /\ n - bo[o].cpu_writers = 1
    BY <2>9, <2>10
  <2>13. /\ (IF HoldsBo(w) THEN 1 ELSE 0) = (IF HoldsBo(th[t]) THEN 1 ELSE 0) + (k - bo[o].kref)
        /\ (IF Writes(t)' THEN 1 ELSE 0) = (IF Writes(t) THEN 1 ELSE 0) + (n - bo[o].cpu_writers)
    BY <2>8, <2>12
  <2>14. th[t].obj = o /\ th'[t].obj = o /\ th'[t].op = th[t].op /\ th'[t].file = th[t].file
        /\ th'[t].dma = th[t].dma
    BY <2>1, <2>3, <2>4
  <2>15. QED
    BY <1>1, <2>1, <2>3, <2>4, <2>5, <2>6, <2>7, <2>8, <2>9, <2>11, <2>12, <2>13, <2>14, BoStep
<1>3. CASE bo' = bo /\ Continue(t, "bo_put")
  <2>1. /\ th' \in [Threads -> ThreadType] /\ \A u \in Threads \ {t} : th'[u] = th[u]
        /\ th'[t].op = th[t].op /\ th'[t].pc = "bo_put" /\ th'[t].file = th[t].file
        /\ th'[t].obj = th[t].obj /\ th'[t].type = th[t].type
        /\ th'[t].ref = th[t].ref /\ th'[t].dma = th[t].dma
    BY <1>1, <1>3, GoesOn DEF Steps
  <2>2. Local(th'[t])
    BY <1>1, <2>1 DEF Local, InCall, FreesRef, HoldsDma, Adding, Dropping
  <2>3. Knows(th'[t])
    BY <1>1, <2>1 DEF Knows, OfFile, PreInit, Relies, FreesRef, HoldsDma, Adding, Dropping
  <2>4. \A u \in Threads \ {t} : Apart(th'[t], th[u]) /\ Apart(th[u], th'[t])
    BY <1>1, <2>1, StillApart DEF FreesRef, PreInit
  <2>5. /\ ~Owns(t) /\ ~Owns(t)' /\ ~At(t, "prime_put") /\ ~At(t, "prime_put")'
        /\ ~Writes(t) /\ ~Writes(t)' /\ HoldsBo(th[t]) /\ HoldsBo(th'[t])
        /\ ~HoldsDma(th[t]) /\ ~HoldsDma(th'[t])
    BY <1>1, <2>1 DEF Owns, At, Writes, Grabbing, HoldsBo, HoldsDma, Adding, Dropping
  <2>6. QED
    BY <1>1, <1>3, <2>1, <2>2, <2>3, <2>4, <2>5, ThreadOnly
<1>4. QED
  BY <1>2, <1>3 DEF WriteGrab

\* A grab that has added no reference object is undone.
LEMMA GrabbedInv ==
  ASSUME Careful, IInv, NEW t \in Threads, Grabbed(t)
  PROVE  IInv'
<1>1. /\ th[t].pc = "grabbed" /\ th[t].op = "grab" /\ th[t].obj \in Objs
      /\ th \in [Threads -> ThreadType] /\ Local(th[t]) /\ Knows(th[t])
      /\ UNCHANGED <<base, ref, dma, tf, mem>> /\ Continue(t, "bo_put")
  BY Here DEF Grabbed, At, Local, InCall, Adding, Dropping, Heir
<1>2. PICK o \in Objs : o = th[t].obj
  BY <1>1
<1>3. /\ th' \in [Threads -> ThreadType] /\ \A u \in Threads \ {t} : th'[u] = th[u]
      /\ th'[t].op = th[t].op /\ th'[t].pc = "bo_put" /\ th'[t].file = th[t].file
      /\ th'[t].obj = th[t].obj /\ th'[t].type = th[t].type
      /\ th'[t].ref = th[t].ref /\ th'[t].dma = th[t].dma
  BY <1>1, GoesOn DEF Steps
<1>4. /\ ~Owns(t) /\ ~Owns(t)' /\ ~At(t, "prime_put") /\ ~At(t, "prime_put")'
      /\ ~Writes(t)' /\ HoldsBo(th[t]) /\ HoldsBo(th'[t])
      /\ ~HoldsDma(th[t]) /\ ~HoldsDma(th'[t])
  BY <1>1, <1>3 DEF Owns, At, Writes, Grabbing, HoldsBo, HoldsDma, Adding, Dropping
<1>5. Writes(t) <=> GrabUndone(t)
  BY <1>1 DEF Writes, Grabbing, GrabUndone, At, Local, ThreadType
<1>6. /\ bo[o].kref > 0 /\ bo[o].kref \in Nat /\ bo[o].cpu_writers \in Nat
      /\ Writes(t) => bo[o].cpu_writers > 0
  BY <1>2, <1>4, BoAlive
<1>7. PICK k \in Nat, n \in Nat :
        k = bo[o].kref /\ n = bo[o].cpu_writers - (IF Writes(t) THEN 1 ELSE 0)
  BY <1>6
<1>8. bo' = [bo EXCEPT ![o].kref = k, ![o].cpu_writers = n]
  <2>1. CASE Writes(t)
    BY <1>2, <1>5, <1>6, <1>7, <2>1 DEF Grabbed, IInv, TypeOK
  <2>2. CASE ~Writes(t)
    <3>1. bo' = bo /\ k = bo[o].kref /\ n = bo[o].cpu_writers
      BY <1>5, <1>6, <1>7, <2>2 DEF Grabbed
    <3>2. QED
      BY <3>1 DEF IInv, TypeOK
  <2>3. QED
    BY <2>1, <2>2
<1>9. Local(th'[t])
  BY <1>1, <1>3 DEF Local, InCall, FreesRef, HoldsDma, Adding, Dropping
<1>10. Knows(th[t])'
  BY <1>1, <1>3 DEF Knows, OfFile, PreInit, Relies, FreesRef, HoldsDma, Adding, Dropping
<1>11. \A u \in Threads \ {t} : Apart(th'[t], th[u]) /\ Apart(th[u], th'[t])
  BY <1>1, <1>3, StillApart DEF FreesRef, PreInit
<1>12. /\ k > 0 /\ k - bo[o].kref = 0 /\ n - bo[o].cpu_writers = (IF Writes(t) THEN -1 ELSE 0)
  BY <1>6, <1>7
<1>13. /\ (IF HoldsBo(th'[t]) THEN 1 ELSE 0) = (IF HoldsBo(th[t]) THEN 1 ELSE 0) + (k - bo[o].kref)
      /\ (IF Writes(t)' THEN 1 ELSE 0) = (IF Writes(t) THEN 1 ELSE 0) + (n - bo[o].cpu_writers)
  BY <1>4, <1>12
<1>14. th[t].obj = o /\ th'[t].obj = o /\ th'[t].op = th[t].op /\ th'[t].file = th[t].file
      /\ th'[t].dma = th[t].dma
  BY <1>2, <1>3
<1>15. QED
  BY <1>1, <1>2, <1>3, <1>4, <1>6, <1>8, <1>9, <1>10, <1>11, <1>12, <1>13, <1>14, BoStep

\* The release of the reference object of a grab lets submissions in.
LEMMA RefObjReleaseInv ==
  ASSUME Careful, IInv, NEW t \in Threads, RefObjRelease(t)
  PROVE  IInv'
<1>1. /\ th[t].pc = "ref_obj_release" /\ th[t].op \in {"unref", "close"} /\ th[t].obj \in Objs
      /\ th \in [Threads -> ThreadType] /\ Local(th[t]) /\ Knows(th[t])
      /\ UNCHANGED <<base, ref, dma, tf, mem>> /\ Continue(t, "ref_clear")
  BY Here DEF RefObjRelease, At, Local, InCall, Adding, Dropping, Heir
<1>2. PICK o \in Objs : o = th[t].obj
  BY <1>1
<1>3. /\ th' \in [Threads -> ThreadType] /\ \A u \in Threads \ {t} : th'[u] = th[u]
      /\ th'[t].op = th[t].op /\ th'[t].pc = "ref_clear" /\ th'[t].file = th[t].file
      /\ th'[t].obj = th[t].obj /\ th'[t].type = th[t].type
      /\ th'[t].ref = th[t].ref /\ th'[t].dma = th[t].dma
  BY <1>1, GoesOn DEF Steps
<1>4. /\ ~Owns(t) /\ ~Owns(t)' /\ ~At(t, "prime_put") /\ ~At(t, "prime_put")'
      /\ Writes(t) /\ ~Writes(t)' /\ ~HoldsBo(th[t]) /\ ~HoldsBo(th'[t])
      /\ ~HoldsDma(th[t]) /\ ~HoldsDma(th'[t])
  BY <1>1, <1>3 DEF Owns, At, Writes, Grabbing, HoldsBo, HoldsDma, Adding, Dropping
<1>5. bo[o].kref > 0 /\ bo[o].kref \in Nat
  <2>1. th[t].ref \in Refs /\ ref[th[t].ref].obj = o
    BY <1>1, <1>2 DEF Local, Knows, FreesRef
  <2>2. QED
    BY <2>1, BaseAlive
<1>6. bo[o].cpu_writers \in Nat /\ bo[o].cpu_writers > 0
  BY <1>2, <1>4, BoAlive
<1>7. PICK k \in Nat, n \in Nat : k = bo[o].kref /\ n = bo[o].cpu_writers - 1
  BY <1>5, <1>6
<1>8. bo' = [bo EXCEPT ![o].kref = k, ![o].cpu_writers = n]
  BY <1>2, <1>7 DEF RefObjRelease, IInv, TypeOK
<1>9. Local(th'[t])
  BY <1>1, <1>3 DEF Local, InCall, FreesRef, HoldsDma, Adding, Dropping
<1>10. Knows(th[t])'
  BY <1>1, <1>3 DEF Knows, OfFile, PreInit, Relies, FreesRef, HoldsDma, Adding, Dropping
<1>11. \A u \in Threads \ {t} : Apart(th'[t], th[u]) /\ Apart(th[u], th'[t])
  BY <1>1, <1>3, StillApart DEF FreesRef, PreInit
<1>12. /\ k > 0 /\ k - bo[o].kref = 0 /\ n - bo[o].cpu_writers = -1
  BY <1>5, <1>6, <1>7
<1>13. /\ (IF HoldsBo(th'[t]) THEN 1 ELSE 0) = (IF HoldsBo(th[t]) THEN 1 ELSE 0) + (k - bo[o].kref)
      /\ (IF Writes(t)' THEN 1 ELSE 0) = (IF Writes(t) THEN 1 ELSE 0) + (n - bo[o].cpu_writers)
  BY <1>4, <1>12
<1>14. th[t].obj = o /\ th'[t].obj = o /\ th'[t].op = th[t].op /\ th'[t].file = th[t].file
      /\ th'[t].dma = th[t].dma
  BY <1>2, <1>3
<1>15. QED
  BY <1>1, <1>2, <1>3, <1>4, <1>5, <1>8, <1>9, <1>10, <1>11, <1>12, <1>13, <1>14, BoStep

-----------------------------------------------------------------------------
(* Steps that change more than one of the variables. *)

\* A dma-buf that is not there is not held.
LEMMA DmaEven ==
  ASSUME Careful, IInv, NEW d \in Dmabufs
  PROVE  /\ dma[d].f_count \in Nat /\ dma[d].fds \in Nat /\ Cardinality(DmaHolders(d)) \in Nat
         /\ dma[d].f_count = dma[d].fds + Cardinality(DmaHolders(d))
<1>1. dma[d].f_count \in Nat /\ dma[d].fds \in Nat /\ dma[d].st \in {"none", "live"}
  BY ObjectAssumption DEF IInv, TypeOK
<1>2. Cardinality(DmaHolders(d)) \in Nat
  BY Finite, FS_CardinalityType
<1>3. CASE dma[d].st = "live"
  BY <1>1, <1>2, <1>3 DEF IInv, Counted, DmaCounted
<1>4. CASE dma[d].st = "none"
  <2>1. dma[d] = NoDma
    BY <1>4 DEF IInv, DmaOK
  <2>2. ASSUME NEW u \in Threads, u \in DmaHolders(d) PROVE FALSE
    <3>1. HoldsDma(th[u]) /\ th[u].dma = d /\ Local(th[u]) /\ Knows(th[u])
      BY <2>2 DEF DmaHolders, IInv
    <3>2. th[u].obj \in Objs /\ dma[d].obj = th[u].obj
      BY <3>1 DEF Local, Knows, HoldsDma, Adding
    <3>3. QED
      BY <2>1, <3>2, ObjectAssumption DEF NoDma
  <2>3. DmaHolders(d) = {}
    BY <2>2 DEF DmaHolders
  <2>4. QED
    BY <1>1, <2>1, <2>3, FS_EmptySet DEF NoDma
<1>5. QED
  BY <1>1, <1>3, <1>4

N(b) == IF b THEN 1 ELSE 0

\* The counts change as the thread, the reference object, the dma-buf and the
\* object that the step changes enter or leave what is counted.
BaseMove(x, t, r, d) ==
  base'[x].kref = base[x].kref + (N(t \in Owners(x)') - N(t \in Owners(x)))
                  + (N(t \in Heirs(x)') - N(t \in Heirs(x)))
                  + (N(r \in RefsTo(x)') - N(r \in RefsTo(x)))
                  + (N(d \in DmaOf(x)') - N(d \in DmaOf(x)))
                  + (N(base'[x].st = "leaked") - N(base[x].st = "leaked"))

BoMove(x, t) ==
  bo'[x].kref = bo[x].kref + (N(t \in BoHolders(x)') - N(t \in BoHolders(x)))
                + (N(base'[x].st \in {"live", "leaked"}) - N(base[x].st \in {"live", "leaked"}))
                + (N(bo'[x].backup # NULL) - N(bo[x].backup # NULL))

WritersMove(x, t, r) ==
  bo'[x].cpu_writers = bo[x].cpu_writers + (N(t \in Writers(x)') - N(t \in Writers(x)))
                       + (N(r \in WriterRefs(x)') - N(r \in WriterRefs(x)))

DmaMove(d, t) ==
  dma'[d].st = "live" =>
    dma'[d].f_count = dma[d].f_count + (dma'[d].fds - dma[d].fds)
                      + (N(t \in DmaHolders(d)') - N(t \in DmaHolders(d)))

FileMove(f, o) ==
  tf'[f].kref = tf[f].kref + (N(o \in ObjsOf(f)') - N(o \in ObjsOf(f))) + (N(Held(f)') - N(Held(f)))

MemMove(r, d) ==
  mem' = mem + (N(r \in RefsUsed') - N(r \in RefsUsed)) + (N(d \in DmaUsed') - N(d \in DmaUsed))

LEMMA CountsMove ==
  ASSUME Careful, IInv, TypeOK', NEW t, \A u \in Threads \ {t} : th'[u] = th[u],
         NEW r, \A q \in Refs \ {r} : /\ ref'[q].obj = ref[q].obj /\ ref'[q].st = ref[q].st
                                      /\ ref'[q].key = ref[q].key /\ ref'[q].type = ref[q].type,
         NEW d, \A e \in Dmabufs \ {d} : dma'[e].obj = dma[e].obj /\ dma'[e].st = dma[e].st,
         NEW o, \A p \in Objs \ {o} : base'[p].tfile = base[p].tfile,
         \A x \in Objs : BaseMove(x, t, r, d) /\ BoMove(x, t) /\ WritersMove(x, t, r),
         \A e \in Dmabufs : DmaMove(e, t), \A f \in Files : FileMove(f, o), MemMove(r, d)
  PROVE  Counted'
<1>1. ASSUME NEW x \in Objs PROVE BaseCounted(x)'
  <2>1. /\ Moves(Owners(x), Owners(x)', t) /\ Moves(Heirs(x), Heirs(x)', t)
        /\ Moves(RefsTo(x), RefsTo(x)', r) /\ Moves(DmaOf(x), DmaOf(x)', d)
    BY ThreadMoves, RefMoves, DmaMoves
  <2>2. BaseMove(x, t, r, d) /\ BaseCounted(x) /\ base[x].kref \in Nat
    BY DEF IInv, Counted, TypeOK
  <2>3. QED
    BY <2>1, <2>2 DEF BaseMove, BaseCounted, Moves, N
<1>2. ASSUME NEW x \in Objs PROVE BoCounted(x)'
  <2>1. Moves(BoHolders(x), BoHolders(x)', t)
    BY ThreadMoves
  <2>2. BoMove(x, t) /\ BoCounted(x) /\ bo[x].kref \in Nat
    BY DEF IInv, Counted, TypeOK
  <2>3. QED
    BY <2>1, <2>2 DEF BoMove, BoCounted, Moves, N
<1>3. ASSUME NEW x \in Objs PROVE WritersCounted(x)'
  <2>1. Moves(Writers(x), Writers(x)', t) /\ Moves(WriterRefs(x), WriterRefs(x)', r)
    BY ThreadMoves, RefMoves
  <2>2. WritersMove(x, t, r) /\ WritersCounted(x) /\ bo[x].cpu_writers \in Nat
    BY DEF IInv, Counted, TypeOK
  <2>3. QED
    BY <2>1, <2>2 DEF WritersMove, WritersCounted, Moves, N
<1>4. ASSUME NEW e \in Dmabufs PROVE DmaCounted(e)'
  <2>1. Moves(DmaHolders(e), DmaHolders(e)', t) /\ DmaMove(e, t)
    BY ThreadMoves
  <2>2. dma'[e].fds \in Nat
    BY ObjectAssumption DEF TypeOK
  <2>3. QED
    BY <2>1, <2>2, DmaEven DEF DmaMove, DmaCounted, Moves, N
<1>5. ASSUME NEW f \in Files PROVE FileCounted(f)'
  <2>1. Moves(ObjsOf(f), ObjsOf(f)', o) /\ FileMove(f, o)
    BY ObjMoves
  <2>2. FileCounted(f) /\ tf[f].kref \in Nat
    BY DEF IInv, Counted, TypeOK
  <2>3. QED
    BY <2>1, <2>2 DEF FileMove, FileCounted, Moves, N
<1>6. mem' = Cardinality(RefsUsed)' + Cardinality(DmaUsed)'
  <2>1. Moves(RefsUsed, RefsUsed', r) /\ Moves(DmaUsed, DmaUsed', d)
    BY RefMoves, DmaMoves
  <2>2. MemMove(r, d) /\ mem = Cardinality(RefsUsed) + Cardinality(DmaUsed) /\ mem \in Nat
    BY DEF IInv, Counted, TypeOK
  <2>3. QED
    BY <2>1, <2>2 DEF MemMove, Moves, N
<1>7. QED
  BY <1>1, <1>2, <1>3, <1>4, <1>5, <1>6 DEF Counted

\* A step that is none of a thread's.
LEMMA Still ==
  ASSUME IInv, th' = th, TypeOK', \A u \in Threads : Knows(th[u])',
         \A o \in Objs : BufferOK(o)' /\ DmabufNamed(o)',
         \A r \in Refs : RefOK(r)', \A d \in Dmabufs : DmaOK(d)', Counted'
  PROVE  IInv'
<1>1. ASSUME NEW u \in Threads PROVE (Local(th[u]) /\ Knows(th[u]))'
  BY DEF IInv
<1>2. ASSUME NEW u \in Threads, NEW v \in Threads, u # v PROVE Apart(th[u], th[v])'
  BY <1>2 DEF IInv
<1>3. QED
  BY <1>1, <1>2 DEF IInv

\* What is counted among what does not change.
LEMMA Unmoved ==
  /\ ref' = ref => /\ RefsUsed' = RefsUsed
                   /\ \A x : /\ RefsTo(x)' = RefsTo(x) /\ WriterRefs(x)' = WriterRefs(x)
                             /\ \A f : HasHandle(f, x)' <=> HasHandle(f, x)
  /\ dma' = dma => DmaUsed' = DmaUsed /\ \A x : DmaOf(x)' = DmaOf(x)
  /\ base' = base => \A f : ObjsOf(f)' = ObjsOf(f)
  /\ th' = th => /\ \A x : /\ Owners(x)' = Owners(x) /\ Heirs(x)' = Heirs(x)
                           /\ Writers(x)' = Writers(x) /\ BoHolders(x)' = BoHolders(x)
                 /\ \A d : DmaHolders(d)' = DmaHolders(d)
                 /\ \A f : Closing(f)' <=> Closing(f)
<1>1. ASSUME ref' = ref
      PROVE  /\ RefsUsed' = RefsUsed
             /\ \A x : /\ RefsTo(x)' = RefsTo(x) /\ WriterRefs(x)' = WriterRefs(x)
                       /\ \A f : HasHandle(f, x)' <=> HasHandle(f, x)
  BY <1>1 DEF RefsUsed, RefsTo, WriterRefs, HasHandle, Find
<1>2. ASSUME dma' = dma PROVE DmaUsed' = DmaUsed /\ \A x : DmaOf(x)' = DmaOf(x)
  BY <1>2 DEF DmaUsed, DmaOf
<1>3. ASSUME base' = base PROVE \A f : ObjsOf(f)' = ObjsOf(f)
  BY <1>3 DEF ObjsOf
<1>4. ASSUME th' = th
      PROVE  /\ \A x : /\ Owners(x)' = Owners(x) /\ Heirs(x)' = Heirs(x)
                       /\ Writers(x)' = Writers(x) /\ BoHolders(x)' = BoHolders(x)
             /\ \A d : DmaHolders(d)' = DmaHolders(d)
             /\ \A f : Closing(f)' <=> Closing(f)
  <2>1. ASSUME NEW x PROVE Owners(x)' = Owners(x) /\ Heirs(x)' = Heirs(x)
    BY <1>4 DEF Owners, Heirs, Owns, At
  <2>2. ASSUME NEW x PROVE Writers(x)' = Writers(x) /\ BoHolders(x)' = BoHolders(x)
    BY <1>4 DEF Writers, BoHolders, Grabbing, At
  <2>3. ASSUME NEW d PROVE (DmaHolders(d)' = DmaHolders(d)) /\ (Closing(d)' <=> Closing(d))
    BY <1>4 DEF DmaHolders, Closing
  <2>4. QED
    BY <2>1, <2>2, <2>3
<1>5. QED
  BY <1>1, <1>2, <1>3, <1>4

\* The places of a thread in the sets that are counted.
LEMMA Places ==
  ASSUME NEW t \in Threads, NEW x
  PROVE  /\ t \in Owners(x) <=> th[t].obj = x /\ Owns(t)
         /\ t \in Heirs(x) <=> th[t].obj = x /\ At(t, "prime_put")
         /\ t \in Writers(x) <=> th[t].obj = x /\ Writes(t)
         /\ t \in BoHolders(x) <=> th[t].obj = x /\ HoldsBo(th[t])
         /\ t \in DmaHolders(x) <=> th[t].dma = x /\ HoldsDma(th[t])
         /\ t \in Owners(x)' <=> th'[t].obj = x /\ Owns(t)'
         /\ t \in Heirs(x)' <=> th'[t].obj = x /\ At(t, "prime_put")'
         /\ t \in Writers(x)' <=> th'[t].obj = x /\ Writes(t)'
         /\ t \in BoHolders(x)' <=> th'[t].obj = x /\ HoldsBo(th'[t])
         /\ t \in DmaHolders(x)' <=> th'[t].dma = x /\ HoldsDma(th'[t])
BY DEF Owners, Heirs, Writers, Writes, BoHolders, DmaHolders

\* A file is made.
LEMMA FileInitInv ==
  ASSUME Careful, IInv, NEW f \in Files, ttm_object_file_init(f)
  PROVE  IInv'
<1>1. /\ ~tf[f].open /\ tf[f].kref = 0 /\ tf' = [tf EXCEPT ![f] = [open |-> TRUE, kref |-> 1]]
      /\ UNCHANGED <<base, bo, ref, dma, th, mem>>
  BY DEF ttm_object_file_init
<1>2. /\ tf'[f].open /\ tf'[f].kref = 1 /\ \A g \in Files \ {f} : tf'[g] = tf[g]
  BY <1>1 DEF IInv, TypeOK
<1>3. ~Held(f)
  <2>1. FileCounted(f) /\ Cardinality(ObjsOf(f)) \in Nat
    BY Finite, FS_CardinalityType DEF IInv, Counted
  <2>2. QED
    BY <1>1, <2>1 DEF FileCounted
<1>4. /\ Held(f)' /\ \A g \in Files \ {f} : Held(g)' <=> Held(g)
  BY <1>1, <1>2, Unmoved DEF Held
<1>5. TypeOK'
  <2>1. tf' \in [Files -> [open : BOOLEAN, kref : Nat]]
    BY <1>1 DEF IInv, TypeOK
  <2>2. QED
    BY <1>1, <2>1 DEF IInv, TypeOK
<1>6. ASSUME NEW u \in Threads PROVE Knows(th[u])'
  <2>1. Knows(th[u]) /\ Local(th[u])
    BY DEF IInv
  <2>2. OfFile(th[u]) \/ th[u].op = "close" => th[u].file \in Files /\ th[u].file # f
    BY <1>1, <1>3, <2>1 DEF Knows, Local, OfFile, Held, Closing
  <2>3. /\ OfFile(th[u]) \/ th[u].op = "close" => tf'[th[u].file].open = tf[th[u].file].open
        /\ Relies(th[u]) => HasHandle(th[u].file, th[u].obj)'
    BY <1>1, <1>2, <2>1, <2>2, Unmoved DEF Knows
  <2>4. th[u].op = "backup" => bo[th[u].obj].backup # NULL
    BY <2>1 DEF Knows
  <2>5. /\ th[u].pc \in {"base_release", "prime_release"} =>
             base[th[u].obj].st = "live" /\ base[th[u].obj].kref = 0
        /\ th'[u] = th[u] /\ base' = base /\ bo' = bo /\ ref' = ref /\ dma' = dma
    BY <1>1, <2>1 DEF Knows
  <2>6. QED
    BY <2>3, <2>4, <2>5, KnowsStays
<1>7. ASSUME NEW o \in Objs PROVE BufferOK(o)' /\ DmabufNamed(o)'
  <2>1. BufferOK(o) /\ DmabufNamed(o)
    BY DEF IInv
  <2>2. bo[o].backup # NULL => bo[o].backup \in Files /\ tf'[bo[o].backup].open
    BY <1>2, <2>1 DEF IInv, TypeOK, BufferOK
  <2>3. QED
    BY <1>1, <2>1, <2>2, Unmoved DEF BufferOK, DmabufNamed
<1>8. ASSUME NEW r \in Refs PROVE RefOK(r)'
  <2>1. \A g \in Files : Held(g) => Held(g)'
    BY <1>4
  <2>2. RefOK(r) /\ ref'[r] = ref[r]
    BY <1>1 DEF IInv
  <2>3. QED
    BY <2>1, <2>2 DEF RefOK
<1>9. ASSUME NEW d \in Dmabufs PROVE DmaOK(d)'
  BY <1>1 DEF IInv, DmaOK
<1>10. Counted'
  <2>1. ASSUME NEW x \in Objs
        PROVE  BaseMove(x, NULL, NULL, NULL) /\ BoMove(x, NULL) /\ WritersMove(x, NULL, NULL)
    <3>1. base[x].kref \in Nat /\ bo[x].kref \in Nat /\ bo[x].cpu_writers \in Nat
      BY DEF IInv, TypeOK
    <3>2. QED
      BY <1>1, <3>1, Unmoved DEF BaseMove, BoMove, WritersMove, N
  <2>2. ASSUME NEW e \in Dmabufs PROVE DmaMove(e, NULL)
    BY <1>1, DmaEven, Unmoved DEF DmaMove, N
  <2>3. ASSUME NEW g \in Files PROVE FileMove(g, NULL)
    <3>1. tf[g].kref \in Nat /\ ObjsOf(g)' = ObjsOf(g)
      BY <1>1, Unmoved DEF IInv, TypeOK
    <3>2. CASE g = f
      BY <1>1, <1>2, <1>3, <1>4, <3>1, <3>2 DEF FileMove, N
    <3>3. CASE g # f
      BY <1>2, <1>4, <3>1, <3>3 DEF FileMove, N
    <3>4. QED
      BY <3>2, <3>3
  <2>4. MemMove(NULL, NULL)
    BY <1>1, Unmoved DEF MemMove, N, IInv, TypeOK
  <2>5. QED
    BY <1>1, <1>5, <2>1, <2>2, <2>3, <2>4, CountsMove
<1>11. QED
  BY <1>1, <1>5, <1>6, <1>7, <1>8, <1>9, <1>10, Still

\* A buffer that was not there has no holders.
LEMMA NoneIsEmpty ==
  ASSUME Careful, IInv, NEW o \in Objs, base[o].kref = 0
  PROVE  /\ \A t \in Threads : t \notin Owners(o) /\ t \notin Heirs(o)
         /\ \A r \in Refs : ref[r].obj # o
         /\ \A d \in Dmabufs : dma[d].obj # o
BY BaseAlive

\* A buffer is allocated.
LEMMA AllocInv ==
  ASSUME Careful, IInv, NEW t \in Threads, NEW f \in Files, NEW o \in Objs, NEW share \in BOOLEAN,
         vmw_user_dmabuf_alloc(t, f, o, share)
  PROVE  IInv'
<1>1. /\ th[t] = Idle /\ th \in [Threads -> ThreadType] /\ tf[f].open /\ base[o].st = "none"
      /\ UNCHANGED <<ref, dma, mem>>
  BY Here DEF vmw_user_dmabuf_alloc, Enter, At
<1>2. PICK w \in ThreadType :
        w = [Idle EXCEPT !.op = "alloc", !.file = f, !.obj = o, !.pc = "ref_find"]
  BY DEF ThreadType, Idle, Ops, Steps, RefTypes
<1>3. /\ th' \in [Threads -> ThreadType] /\ \A u \in Threads \ {t} : th'[u] = th[u]
      /\ th'[t] = w
  BY <1>1, <1>2 DEF vmw_user_dmabuf_alloc, Enter
<1>4. /\ w.op = "alloc" /\ w.pc = "ref_find" /\ w.file = f /\ w.obj = o /\ w.type = "usage"
      /\ w.dma = NULL
  BY <1>2 DEF Idle
<1>5. /\ base[o] = NoBase /\ bo[o] = NoBo
      /\ base[o].kref = 0 /\ base[o].tfile = NULL /\ base[o].dma_buf = NULL
      /\ bo[o].kref = 0 /\ bo[o].cpu_writers = 0 /\ bo[o].backup = NULL
  <2>1. BufferOK(o)
    BY DEF IInv
  <2>2. base[o] = NoBase /\ bo[o] = NoBo
    BY <1>1, <2>1 DEF BufferOK
  <2>3. QED
    BY <2>2 DEF NoBase, NoBo
<1>6. PICK b \in BaseType :
        b = [NoBase EXCEPT !.st = "live", !.kref = 1, !.tfile = f, !.shareable = share, !.hashed = TRUE]
  BY DEF BaseType, NoBase
<1>7. /\ b.st = "live" /\ b.kref = 1 /\ b.tfile = f /\ b.hashed /\ b.dma_buf = NULL
  BY <1>6 DEF NoBase
<1>8. base' = [base EXCEPT ![o] = b] /\ bo' = [bo EXCEPT ![o] = [NoBo EXCEPT !.kref = 2]]
  BY <1>6 DEF vmw_user_dmabuf_alloc
<1>9. tf' = [tf EXCEPT ![f].kref = @ + 1]
  BY DEF vmw_user_dmabuf_alloc, ttm_object_file_ref
<1>10. /\ base \in [Objs -> BaseType]
       /\ bo \in [Objs -> [kref : Nat, cpu_writers : Nat, backup : Files \cup {NULL}]]
       /\ tf \in [Files -> [open : BOOLEAN, kref : Nat]]
  BY DEF IInv, TypeOK, BaseType
<1>11. /\ base'[o] = b /\ \A x \in Objs \ {o} : base'[x] = base[x] /\ bo'[x] = bo[x]
       /\ bo'[o].kref = 2 /\ bo'[o].cpu_writers = 0 /\ bo'[o].backup = NULL
       /\ tf'[f].kref = tf[f].kref + 1 /\ \A g \in Files : tf'[g].open = tf[g].open
       /\ \A g \in Files \ {f} : tf'[g] = tf[g]
  BY <1>8, <1>9, <1>10 DEF NoBo
<1>12. TypeOK'
  <2>1. bo' \in [Objs -> [kref : Nat, cpu_writers : Nat, backup : Files \cup {NULL}]]
    BY <1>8, <1>10 DEF NoBo
  <2>2. base' \in [Objs -> BaseType] /\ tf' \in [Files -> [open : BOOLEAN, kref : Nat]]
    BY <1>8, <1>9, <1>10
  <2>3. QED
    BY <1>1, <1>3, <2>1, <2>2 DEF IInv, TypeOK, BaseType, ThreadType
<1>13. Local(w)
  BY <1>4 DEF Local, InCall, FreesRef, HoldsDma, Adding, Dropping
<1>14. ASSUME NEW u \in Threads PROVE Knows(th[u])'
  <2>1. CASE u = t
    BY <1>1, <1>3, <1>4, <1>7, <1>11, <2>1 DEF Knows, OfFile, PreInit, Relies, FreesRef, HoldsDma,
       Adding, Dropping
  <2>2. CASE u # t
    <3>1. th'[u] = th[u] /\ Knows(th[u]) /\ Local(th[u])
      BY <1>3, <2>2 DEF IInv
    <3>2. /\ PreInit(th[u]) => th[u].obj \in Objs /\ th[u].obj # o
          /\ th[u].op = "backup" => th[u].obj \in Objs /\ th[u].obj # o
          /\ th[u].pc \in {"base_release", "prime_release"} => th[u].obj \in Objs /\ th[u].obj # o
      BY <1>1, <1>5, <3>1 DEF Knows, Local, InCall, PreInit, Adding
    <3>3. OfFile(th[u]) \/ th[u].op = "close" => th[u].file \in Files
      BY <3>1 DEF Local, OfFile
    <3>4. /\ PreInit(th[u]) => /\ base'[th[u].obj].st = base[th[u].obj].st
                               /\ bo'[th[u].obj].backup = bo[th[u].obj].backup
          /\ th[u].op = "backup" => bo'[th[u].obj].backup # NULL
          /\ th[u].pc \in {"base_release", "prime_release"} =>
               base'[th[u].obj].st = "live" /\ base'[th[u].obj].kref = 0
      BY <1>11, <3>1, <3>2 DEF Knows
    <3>5. /\ OfFile(th[u]) \/ th[u].op = "close" => tf'[th[u].file].open = tf[th[u].file].open
          /\ Relies(th[u]) => HasHandle(th[u].file, th[u].obj)'
      BY <1>1, <1>11, <3>1, <3>3, Unmoved DEF Knows
    <3>6. QED
      BY <1>1, <3>1, <3>4, <3>5, KnowsStays
  <2>3. QED
    BY <2>1, <2>2
<1>15. ASSUME NEW u \in Threads \ {t} PROVE Apart(w, th[u]) /\ Apart(th[u], w)
  <2>1. /\ th[u].op = "close" => th[u].file # f
        /\ PreInit(th[u]) => th[u].obj # o
    BY <1>1 DEF IInv, Knows
  <2>2. QED
    BY <1>4, <2>1 DEF Apart, FreesRef
<1>16. \A g : Held(g)' <=> Held(g)
  <2>1. ASSUME NEW g PROVE Closing(g)' <=> Closing(g)
    <3>1. \A u \in Threads : th'[u].op = "close" <=> th[u].op = "close"
      BY <1>1, <1>3, <1>4 DEF Idle
    <3>2. \A u \in Threads : th'[u].op = "close" => th'[u].file = th[u].file
      BY <1>3, <1>4
    <3>3. QED
      BY <3>1, <3>2 DEF Closing
  <2>2. \A g : tf'[g].open <=> tf[g].open
    BY <1>9, <1>11
  <2>3. QED
    BY <2>1, <2>2 DEF Held
<1>17. ASSUME NEW x \in Objs PROVE BufferOK(x)' /\ DmabufNamed(x)'
  <2>1. BufferOK(x) /\ DmabufNamed(x)
    BY DEF IInv
  <2>2. CASE x = o
    <3>1. \A d \in Dmabufs : dma'[d].obj # o
      BY <1>1, <1>5, NoneIsEmpty
    <3>2. QED
      BY <1>7, <1>11, <2>2, <3>1 DEF BufferOK, DmabufNamed
  <2>3. CASE x # o
    <3>1. bo[x].backup # NULL => bo[x].backup \in Files
      BY <1>10
    <3>2. base'[x] = base[x] /\ bo'[x] = bo[x]
      BY <1>11, <2>3
    <3>3. QED
      BY <1>1, <1>11, <2>1, <3>1, <3>2, Unmoved DEF BufferOK, DmabufNamed
  <2>4. QED
    BY <2>2, <2>3
<1>18. ASSUME NEW r \in Refs PROVE RefOK(r)'
  BY <1>1, <1>16 DEF IInv, RefOK
<1>19. ASSUME NEW d \in Dmabufs PROVE DmaOK(d)'
  BY <1>1 DEF IInv, DmaOK
<1>20. Counted'
  <2>1. /\ ~Owns(t) /\ Owns(t)' /\ ~At(t, "prime_put") /\ ~At(t, "prime_put")'
        /\ ~Writes(t) /\ ~Writes(t)' /\ ~HoldsBo(th[t]) /\ HoldsBo(th'[t])
        /\ ~HoldsDma(th[t]) /\ ~HoldsDma(th'[t]) /\ th'[t].obj = o
    BY <1>1, <1>3, <1>4 DEF Idle, Owns, At, Writes, Grabbing, HoldsBo, HoldsDma, Adding, Dropping
  <2>2. ASSUME NEW x \in Objs
        PROVE  BaseMove(x, t, NULL, NULL) /\ BoMove(x, t) /\ WritersMove(x, t, NULL)
    <3>1. base[x].kref \in Nat /\ bo[x].kref \in Nat /\ bo[x].cpu_writers \in Nat
      BY DEF IInv, TypeOK
    <3>2. /\ RefsTo(x)' = RefsTo(x) /\ WriterRefs(x)' = WriterRefs(x) /\ DmaOf(x)' = DmaOf(x)
      BY <1>1, Unmoved
    <3>3. CASE x = o
      BY <1>1, <1>5, <1>7, <1>11, <2>1, <3>1, <3>2, <3>3, Places DEF BaseMove, BoMove, WritersMove, N
    <3>4. CASE x # o
      <4>1. base'[x] = base[x] /\ bo'[x] = bo[x]
        BY <1>11, <3>4
      <4>2. QED
        BY <2>1, <3>1, <3>2, <3>4, <4>1, Places DEF BaseMove, BoMove, WritersMove, N
    <3>5. QED
      BY <3>3, <3>4
  <2>3. ASSUME NEW e \in Dmabufs PROVE DmaMove(e, t)
    BY <1>1, <2>1, DmaEven, Places DEF DmaMove, N
  <2>4. ASSUME NEW g \in Files PROVE FileMove(g, o)
    <3>1. /\ tf[g].kref \in Nat /\ (Held(g)' <=> Held(g)) /\ g # NULL
          /\ o \notin ObjsOf(g) /\ (o \in ObjsOf(g)' <=> g = f)
      BY <1>5, <1>7, <1>10, <1>11, <1>16, ObjectAssumption DEF ObjsOf
    <3>2. QED
      BY <1>11, <3>1 DEF FileMove, N
  <2>5. MemMove(NULL, NULL)
    BY <1>1, Unmoved DEF MemMove, N, IInv, TypeOK
  <2>6. \A x \in Objs \ {o} : base'[x].tfile = base[x].tfile
    BY <1>11
  <2>7. QED
    BY <1>1, <1>3, <1>12, <2>2, <2>3, <2>4, <2>5, <2>6, CountsMove
<1>21. QED
  BY <1>3, <1>12, <1>13, <1>14, <1>15, <1>17, <1>18, <1>19, <1>20, Together

BoType == [kref : Nat, cpu_writers : Nat, backup : Files \cup {NULL}]

\* The files that are held stay held when no file is closed or released.
LEMMA HeldStays ==
  ASSUME NEW t \in Threads, \A u \in Threads \ {t} : th'[u] = th[u],
         th'[t].op = "close" <=> th[t].op = "close", th'[t].op = "close" => th'[t].file = th[t].file,
         \A g : tf'[g].open <=> tf[g].open
  PROVE  \A g : Held(g)' <=> Held(g)
<1>1. ASSUME NEW g PROVE Closing(g)' <=> Closing(g)
  <2>1. \A u \in Threads : th'[u].op = "close" <=> th[u].op = "close"
    OBVIOUS
  <2>2. \A u \in Threads : th'[u].op = "close" => th'[u].file = th[u].file
    OBVIOUS
  <2>3. QED
    BY <2>1, <2>2 DEF Closing
<1>2. QED
  BY <1>1 DEF Held

\* The last reference to a buffer object is the base object's, the surface's, or
\* that of one call.
LEMMA LastBo ==
  ASSUME Careful, IInv, NEW o \in Objs, bo[o].kref = 1
  PROVE  /\ base[o].st \in {"live", "leaked"} => bo[o].backup = NULL /\ BoHolders(o) = {}
         /\ bo[o].backup # NULL => base[o].st = "dead" /\ BoHolders(o) = {}
         /\ \A t \in BoHolders(o) : /\ base[o].st = "dead" /\ bo[o].backup = NULL
                                    /\ BoHolders(o) = {t}
<1>1. /\ BoCounted(o) /\ BufferOK(o) /\ IsFiniteSet(BoHolders(o)) /\ Cardinality(BoHolders(o)) \in Nat
      /\ base[o].st \in {"none", "live", "dead", "leaked"}
  BY Finite, FS_CardinalityType DEF IInv, Counted, TypeOK
<1>2. base[o].st # "none"
  BY <1>1 DEF BufferOK
<1>3. /\ base[o].st \in {"live", "leaked"} => bo[o].backup = NULL /\ Cardinality(BoHolders(o)) = 0
      /\ bo[o].backup # NULL => base[o].st = "dead" /\ Cardinality(BoHolders(o)) = 0
      /\ Cardinality(BoHolders(o)) \in {0, 1}
      /\ Cardinality(BoHolders(o)) = 1 => base[o].st = "dead" /\ bo[o].backup = NULL
  BY <1>1, <1>2 DEF BoCounted
<1>4. Cardinality(BoHolders(o)) = 0 => BoHolders(o) = {}
  BY <1>1, FS_EmptySet
<1>5. ASSUME NEW t \in BoHolders(o)
      PROVE  Cardinality(BoHolders(o)) = 1 /\ BoHolders(o) = {t}
  <2>1. Cardinality(BoHolders(o)) = 1
    BY <1>3, <1>4
  <2>2. IsFiniteSet(BoHolders(o) \ {t}) /\ Cardinality(BoHolders(o) \ {t}) = 0
    BY <1>1, <2>1, FS_RemoveElement
  <2>3. BoHolders(o) \ {t} = {}
    BY <2>2, FS_EmptySet
  <2>4. QED
    BY <2>1, <2>3
<1>6. QED
  BY <1>3, <1>4, <1>5

\* Nobody keeps submissions out by a buffer whose last reference is dropped.
LEMMA BoPutIs ==
  ASSUME Careful, IInv, NEW o \in Objs, bo[o].kref > 0,
         bo[o].kref = 1 => /\ base[o].kref = 0
                           /\ \A u \in BoHolders(o) : ~Writes(u)
  PROVE  /\ BoPut(o) \in [Objs -> BoType] /\ \A x \in Objs \ {o} : BoPut(o)[x] = bo[x]
         /\ BoPut(o)[o].kref = bo[o].kref - 1 /\ BoPut(o)[o].cpu_writers = bo[o].cpu_writers
         /\ bo[o].kref # 1 => BoPut(o)[o].backup = bo[o].backup
         /\ bo[o].kref = 1 => BoPut(o)[o] = NoBo
         /\ bo[o] \in BoType
<1>1. bo \in [Objs -> BoType] /\ bo[o] \in BoType
  BY DEF IInv, TypeOK, BoType
<1>2. CASE bo[o].kref = 1
  <2>1. WriterRefs(o) = {}
    BY <1>2, NoneIsEmpty DEF WriterRefs, IInv, RefOK
  <2>2. ASSUME NEW u \in Threads, u \in Writers(o) PROVE FALSE
    <3>1. th[u].obj = o /\ Writes(u) /\ Local(th[u]) /\ Knows(th[u])
      BY <2>2 DEF Writers, Writes, IInv
    <3>2. CASE At(u, "ref_obj_release")
      <4>1. th[u].ref \in Refs /\ ref[th[u].ref].obj = o
        BY <3>1, <3>2 DEF At, Local, Knows, InCall, FreesRef, Adding, Dropping, Heir
      <4>2. QED
        BY <1>2, <4>1, NoneIsEmpty
    <3>3. CASE Grabbing(u)
      <4>1. u \in BoHolders(o)
        BY <3>1, <3>3 DEF Grabbing, BoHolders, HoldsBo, At, Adding
      <4>2. QED
        BY <1>2, <3>1, <4>1
    <3>4. QED
      BY <3>1, <3>2, <3>3 DEF Writes
  <2>3. Writers(o) = {}
    BY <2>2 DEF Writers
  <2>4. bo[o].cpu_writers = 0
    <3>1. WritersCounted(o)
      BY DEF IInv, Counted
    <3>2. Cardinality(WriterRefs(o)) = 0 /\ Cardinality(Writers(o)) = 0
      BY <2>1, <2>3, FS_EmptySet
    <3>3. QED
      BY <3>1, <3>2 DEF WritersCounted
  <2>5. BoPut(o) = [bo EXCEPT ![o] = NoBo]
    BY <1>2 DEF BoPut, BoFreed
  <2>6. QED
    BY <1>1, <1>2, <2>4, <2>5 DEF NoBo, BoType
<1>3. CASE bo[o].kref # 1
  <2>1. PICK b \in BoType : b = [bo[o] EXCEPT !.kref = @ - 1]
    <3>1. bo[o].kref - 1 \in Nat
      BY <1>1 DEF BoType
    <3>2. [bo[o] EXCEPT !.kref = @ - 1] \in BoType
      BY <1>1, <3>1 DEF BoType
    <3>3. QED
      BY <3>2
  <2>2. BoPut(o) = [bo EXCEPT ![o] = b]
    <3>1. ~BoFreed(o)
      BY <1>3 DEF BoFreed
    <3>2. [bo[o] EXCEPT !.kref = @ - 1] = (IF BoFreed(o) THEN NoBo ELSE [bo[o] EXCEPT !.kref = @ - 1])
      BY <3>1
    <3>3. QED
      BY <2>1, <3>2 DEF BoPut
  <2>3. b.kref = bo[o].kref - 1 /\ b.cpu_writers = bo[o].cpu_writers /\ b.backup = bo[o].backup
    BY <1>1, <2>1 DEF BoType
  <2>4. QED
    BY <1>1, <1>3, <2>2, <2>3
<1>4. QED
  BY <1>2, <1>3

\* When the buffer of a dead base object goes, the base object goes with it.
LEMMA BaseGoes ==
  ASSUME Careful, IInv, NEW o \in Objs, bo[o].kref = 1 => base[o].st = "dead",
         base' = [base EXCEPT ![o] = IF BoFreed(o) THEN NoBase ELSE @]
  PROVE  /\ base' \in [Objs -> BaseType] /\ \A x \in Objs \ {o} : base'[x] = base[x]
         /\ base'[o].kref = base[o].kref /\ base'[o].tfile = base[o].tfile
         /\ bo[o].kref # 1 => base'[o] = base[o]
         /\ bo[o].kref = 1 => base'[o] = NoBase /\ base[o].kref = 0
         /\ base'[o].st = "leaked" <=> base[o].st = "leaked"
         /\ base'[o].st \in {"live", "leaked"} <=> base[o].st \in {"live", "leaked"}
<1>1. base \in [Objs -> BaseType] /\ BufferOK(o)
  BY DEF IInv, TypeOK, BaseType
<1>2. CASE bo[o].kref = 1
  <2>1. base' = [base EXCEPT ![o] = NoBase]
    BY <1>2 DEF BoFreed
  <2>2. base[o].kref = 0 /\ base[o].tfile = NULL /\ base[o].st = "dead"
    BY <1>1, <1>2 DEF BufferOK
  <2>3. NoBase \in BaseType /\ NoBase.kref = 0 /\ NoBase.tfile = NULL /\ NoBase.st = "none"
    BY DEF BaseType, NoBase
  <2>4. QED
    BY <1>1, <1>2, <2>1, <2>2, <2>3
<1>3. CASE bo[o].kref # 1
  BY <1>1, <1>3 DEF BoFreed
<1>4. QED
  BY <1>2, <1>3

\* A surface gives up its backup.
LEMMA SurfaceDestroyedInv ==
  ASSUME Careful, IInv, NEW o \in Objs, SurfaceDestroyed(o)
  PROVE  IInv'
<1>1. /\ bo[o].backup # NULL /\ \A t \in Threads : ~(th[t].op = "backup" /\ th[t].obj = o)
      /\ bo' = [BoPut(o) EXCEPT ![o].backup = NULL]
      /\ base' = [base EXCEPT ![o] = IF BoFreed(o) THEN NoBase ELSE @]
      /\ UNCHANGED <<ref, dma, tf, th, mem>>
  BY DEF SurfaceDestroyed
<1>2. bo[o].kref > 0 /\ bo[o].kref \in Nat
  <2>1. BufferOK(o) /\ bo[o].kref \in Nat
    BY DEF IInv, TypeOK
  <2>2. bo[o].kref # 0
    BY <1>1, <2>1 DEF BufferOK, NoBo
  <2>3. QED
    BY <2>1, <2>2
<1>3. bo[o].kref = 1 => base[o].st = "dead" /\ BoHolders(o) = {}
  BY <1>1, LastBo
<1>4. /\ base' \in [Objs -> BaseType] /\ \A x \in Objs \ {o} : base'[x] = base[x]
      /\ base'[o].kref = base[o].kref /\ base'[o].tfile = base[o].tfile
      /\ bo[o].kref # 1 => base'[o] = base[o]
      /\ bo[o].kref = 1 => base'[o] = NoBase /\ base[o].kref = 0
      /\ base'[o].st = "leaked" <=> base[o].st = "leaked"
      /\ base'[o].st \in {"live", "leaked"} <=> base[o].st \in {"live", "leaked"}
  BY <1>1, <1>3, BaseGoes
<1>5. /\ BoPut(o) \in [Objs -> BoType] /\ \A x \in Objs \ {o} : BoPut(o)[x] = bo[x]
      /\ BoPut(o)[o].kref = bo[o].kref - 1 /\ BoPut(o)[o].cpu_writers = bo[o].cpu_writers
      /\ bo[o].kref = 1 => BoPut(o)[o] = NoBo
  BY <1>2, <1>3, <1>4, BoPutIs
<1>6. /\ bo' \in [Objs -> BoType] /\ \A x \in Objs \ {o} : bo'[x] = bo[x]
      /\ bo'[o].kref = bo[o].kref - 1 /\ bo'[o].cpu_writers = bo[o].cpu_writers
      /\ bo'[o].backup = NULL
      /\ bo[o].kref = 1 => bo'[o] = NoBo
  <2>1. PICK b \in BoType : b = [BoPut(o)[o] EXCEPT !.backup = NULL]
    BY <1>5 DEF BoType
  <2>2. bo' = [BoPut(o) EXCEPT ![o] = b]
    BY <1>1, <1>5, <2>1
  <2>3. /\ b.kref = BoPut(o)[o].kref /\ b.cpu_writers = BoPut(o)[o].cpu_writers /\ b.backup = NULL
    BY <1>5, <2>1 DEF BoType
  <2>4. BoPut(o)[o] = NoBo => b = NoBo
    BY <2>1 DEF NoBo
  <2>5. QED
    BY <1>5, <2>2, <2>3, <2>4
<1>7. TypeOK'
  BY <1>1, <1>4, <1>6 DEF IInv, TypeOK, BaseType, BoType
<1>8. ASSUME NEW u \in Threads PROVE Knows(th[u])'
  <2>1. Knows(th[u]) /\ Local(th[u])
    BY DEF IInv
  <2>2. /\ PreInit(th[u]) => th[u].obj \in Objs /\ th[u].obj # o
        /\ th[u].op = "backup" => th[u].obj \in Objs /\ th[u].obj # o
        /\ th[u].pc \in {"base_release", "prime_release"} => th[u].obj \in Objs
    BY <1>1, <2>1 DEF Knows, Local, InCall, PreInit, Adding
  <2>3. /\ PreInit(th[u]) => /\ base'[th[u].obj].st = base[th[u].obj].st
                             /\ bo'[th[u].obj].backup = bo[th[u].obj].backup
        /\ th[u].op = "backup" => bo'[th[u].obj].backup # NULL
    BY <1>4, <1>6, <2>1, <2>2 DEF Knows
  <2>4. ASSUME th[u].pc \in {"base_release", "prime_release"}
        PROVE  base'[th[u].obj].st = "live" /\ base'[th[u].obj].kref = 0
    <3>1. base[th[u].obj].st = "live" /\ base[th[u].obj].kref = 0
      BY <2>1, <2>4 DEF Knows
    <3>2. base'[th[u].obj] = base[th[u].obj]
      BY <1>3, <1>4, <2>2, <2>4, <3>1
    <3>3. QED
      BY <3>1, <3>2
  <2>5. Relies(th[u]) => HasHandle(th[u].file, th[u].obj)'
    BY <1>1, <2>1, Unmoved DEF Knows
  <2>6. QED
    BY <1>1, <2>1, <2>3, <2>4, <2>5, KnowsStays
<1>9. \A f : Held(f)' <=> Held(f)
  BY <1>1, Unmoved DEF Held
<1>10. ASSUME NEW x \in Objs PROVE BufferOK(x)' /\ DmabufNamed(x)'
  <2>1. BufferOK(x) /\ DmabufNamed(x)
    BY DEF IInv
  <2>2. CASE x = o /\ bo[o].kref = 1
    <3>1. \A d \in Dmabufs : dma'[d].obj # o
      BY <1>1, <1>4, <2>2, NoneIsEmpty
    <3>2. base'[o] = NoBase /\ bo'[o] = NoBo
      BY <1>4, <1>6, <2>2
    <3>3. QED
      BY <2>2, <3>1, <3>2 DEF BufferOK, DmabufNamed, NoBase, NoBo
  <2>3. CASE x = o /\ bo[o].kref # 1
    <3>1. bo'[o].kref # 0 /\ bo[o].kref # 0
      BY <1>2, <1>6, <2>3
    <3>2. base'[o] = base[o] /\ bo'[o].backup = NULL
      BY <1>4, <1>6, <2>3
    <3>3. QED
      BY <1>1, <2>1, <2>3, <3>1, <3>2 DEF BufferOK, DmabufNamed
  <2>4. CASE x # o
    <3>1. base'[x] = base[x] /\ bo'[x] = bo[x]
      BY <1>4, <1>6, <2>4
    <3>2. QED
      BY <1>1, <2>1, <3>1, Unmoved DEF BufferOK, DmabufNamed
  <2>5. QED
    BY <2>2, <2>3, <2>4
<1>11. ASSUME NEW r \in Refs PROVE RefOK(r)'
  BY <1>1, <1>9 DEF IInv, RefOK
<1>12. ASSUME NEW d \in Dmabufs PROVE DmaOK(d)'
  BY <1>1 DEF IInv, DmaOK
<1>13. Counted'
  <2>1. ASSUME NEW x \in Objs
        PROVE  BaseMove(x, NULL, NULL, NULL) /\ BoMove(x, NULL) /\ WritersMove(x, NULL, NULL)
    <3>1. base[x].kref \in Nat /\ bo[x].kref \in Nat /\ bo[x].cpu_writers \in Nat
      BY DEF IInv, TypeOK
    <3>2. /\ RefsTo(x)' = RefsTo(x) /\ WriterRefs(x)' = WriterRefs(x) /\ DmaOf(x)' = DmaOf(x)
          /\ Owners(x)' = Owners(x) /\ Heirs(x)' = Heirs(x)
          /\ Writers(x)' = Writers(x) /\ BoHolders(x)' = BoHolders(x)
      BY <1>1, Unmoved
    <3>3. CASE x = o
      BY <1>1, <1>4, <1>6, <3>1, <3>2, <3>3 DEF BaseMove, BoMove, WritersMove, N
    <3>4. CASE x # o
      <4>1. base'[x] = base[x] /\ bo'[x] = bo[x]
        BY <1>4, <1>6, <3>4
      <4>2. QED
        BY <3>1, <3>2, <4>1 DEF BaseMove, BoMove, WritersMove, N
    <3>5. QED
      BY <3>3, <3>4
  <2>2. ASSUME NEW e \in Dmabufs PROVE DmaMove(e, NULL)
    BY <1>1, DmaEven, Unmoved DEF DmaMove, N
  <2>3. ASSUME NEW g \in Files PROVE FileMove(g, o)
    <3>1. /\ tf[g].kref \in Nat /\ (Held(g)' <=> Held(g))
          /\ (o \in ObjsOf(g)' <=> o \in ObjsOf(g))
      BY <1>4, <1>9 DEF ObjsOf, IInv, TypeOK
    <3>2. QED
      BY <1>1, <3>1 DEF FileMove, N
  <2>4. MemMove(NULL, NULL)
    BY <1>1, Unmoved DEF MemMove, N, IInv, TypeOK
  <2>5. \A x \in Objs \ {o} : base'[x].tfile = base[x].tfile
    BY <1>4
  <2>6. QED
    BY <1>1, <1>7, <2>1, <2>2, <2>3, <2>4, <2>5, CountsMove
<1>14. QED
  BY <1>1, <1>7, <1>8, <1>10, <1>11, <1>12, <1>13, Still

\* A call gives up its reference to the buffer object.
LEMMA UnreferenceInv ==
  ASSUME Careful, IInv, NEW t \in Threads, vmw_dmabuf_unreference(t)
  PROVE  IInv'
<1>1. /\ th[t].pc = "bo_put" /\ th[t].op \in {"alloc", "grab"} /\ th[t].obj \in Objs
      /\ th \in [Threads -> ThreadType] /\ UNCHANGED <<ref, dma, tf, mem>>
      /\ Continue(t, "idle")
  BY Here DEF vmw_dmabuf_unreference, At, Local, InCall, Adding, Dropping, Heir
<1>2. PICK o \in Objs : o = th[t].obj
  BY <1>1
<1>3. /\ bo' = BoPut(o) /\ base' = [base EXCEPT ![o] = IF BoFreed(o) THEN NoBase ELSE @]
  BY <1>2 DEF vmw_dmabuf_unreference
<1>4. /\ th' \in [Threads -> ThreadType] /\ \A u \in Threads \ {t} : th'[u] = th[u]
      /\ th'[t] = Idle
  BY <1>1, GoesOn DEF Steps
<1>5. /\ ~Owns(t) /\ ~Owns(t)' /\ ~At(t, "prime_put") /\ ~At(t, "prime_put")'
      /\ ~Writes(t) /\ ~Writes(t)' /\ HoldsBo(th[t]) /\ ~HoldsBo(th'[t])
      /\ ~HoldsDma(th[t]) /\ ~HoldsDma(th'[t])
  BY <1>1, <1>4 DEF Idle, Owns, At, Writes, Grabbing, HoldsBo, HoldsDma, Adding, Dropping
<1>6. bo[o].kref > 0 /\ bo[o].kref \in Nat
  BY <1>2, <1>5, BoAlive
<1>7. bo[o].kref = 1 => base[o].st = "dead" /\ bo[o].backup = NULL /\ BoHolders(o) = {t}
  <2>1. t \in BoHolders(o)
    BY <1>2, <1>5 DEF BoHolders
  <2>2. QED
    BY <2>1, LastBo
<1>8. /\ base' \in [Objs -> BaseType] /\ \A x \in Objs \ {o} : base'[x] = base[x]
      /\ base'[o].kref = base[o].kref /\ base'[o].tfile = base[o].tfile
      /\ bo[o].kref # 1 => base'[o] = base[o]
      /\ bo[o].kref = 1 => base'[o] = NoBase /\ base[o].kref = 0
      /\ base'[o].st = "leaked" <=> base[o].st = "leaked"
      /\ base'[o].st \in {"live", "leaked"} <=> base[o].st \in {"live", "leaked"}
  BY <1>3, <1>7, BaseGoes
<1>9. /\ bo' \in [Objs -> BoType] /\ \A x \in Objs \ {o} : bo'[x] = bo[x]
      /\ bo'[o].kref = bo[o].kref - 1 /\ bo'[o].cpu_writers = bo[o].cpu_writers
      /\ bo[o].kref # 1 => bo'[o].backup = bo[o].backup
      /\ bo[o].kref = 1 => bo'[o] = NoBo
  BY <1>3, <1>5, <1>6, <1>7, <1>8, BoPutIs
<1>10. bo'[o].backup = bo[o].backup
  BY <1>7, <1>9 DEF NoBo
<1>11. TypeOK'
  BY <1>1, <1>4, <1>8, <1>9 DEF IInv, TypeOK, BaseType, BoType, ThreadType
<1>12. ASSUME NEW u \in Threads PROVE Knows(th[u])'
  <2>1. CASE u = t
    BY <1>4, <2>1 DEF Idle, Knows, OfFile, PreInit, Relies, FreesRef, HoldsDma
  <2>2. CASE u # t
    <3>1. th'[u] = th[u] /\ Knows(th[u]) /\ Local(th[u])
      BY <1>4, <2>2 DEF IInv
    <3>2. /\ PreInit(th[u]) => th[u].obj \in Objs
          /\ th[u].op = "backup" => th[u].obj \in Objs
          /\ th[u].pc \in {"base_release", "prime_release"} => th[u].obj \in Objs
      BY <3>1 DEF Local, InCall, PreInit, Adding
    <3>3. base[th[u].obj].st = "live" /\ th[u].obj \in Objs => base'[th[u].obj] = base[th[u].obj]
      BY <1>7, <1>8
    <3>4. th[u].obj \in Objs => bo'[th[u].obj].backup = bo[th[u].obj].backup
      BY <1>9, <1>10
    <3>5. /\ PreInit(th[u]) => /\ base'[th[u].obj].st = base[th[u].obj].st
                               /\ bo'[th[u].obj].backup = bo[th[u].obj].backup
          /\ th[u].op = "backup" => bo'[th[u].obj].backup # NULL
          /\ th[u].pc \in {"base_release", "prime_release"} =>
               base'[th[u].obj].st = "live" /\ base'[th[u].obj].kref = 0
      BY <3>1, <3>2, <3>3, <3>4 DEF Knows
    <3>6. Relies(th[u]) => HasHandle(th[u].file, th[u].obj)'
      BY <1>1, <3>1, Unmoved DEF Knows
    <3>7. QED
      BY <1>1, <3>1, <3>5, <3>6, KnowsStays
  <2>3. QED
    BY <2>1, <2>2
<1>13. \A f : Held(f)' <=> Held(f)
  BY <1>1, <1>4, HeldStays DEF Idle
<1>14. ASSUME NEW x \in Objs PROVE BufferOK(x)' /\ DmabufNamed(x)'
  <2>1. BufferOK(x) /\ DmabufNamed(x)
    BY DEF IInv
  <2>2. CASE x = o /\ bo[o].kref = 1
    <3>1. \A d \in Dmabufs : dma'[d].obj # o
      BY <1>1, <1>8, <2>2, NoneIsEmpty
    <3>2. base'[o] = NoBase /\ bo'[o] = NoBo
      BY <1>8, <1>9, <2>2
    <3>3. QED
      BY <2>2, <3>1, <3>2 DEF BufferOK, DmabufNamed, NoBase, NoBo
  <2>3. CASE x = o /\ bo[o].kref # 1
    <3>1. bo'[o].kref # 0 /\ bo[o].kref # 0
      BY <1>6, <1>9, <2>3
    <3>2. base'[o] = base[o] /\ bo'[o].backup = bo[o].backup
      BY <1>8, <1>9, <2>3
    <3>3. QED
      BY <1>1, <2>1, <2>3, <3>1, <3>2, Unmoved DEF BufferOK, DmabufNamed
  <2>4. CASE x # o
    <3>1. base'[x] = base[x] /\ bo'[x] = bo[x]
      BY <1>8, <1>9, <2>4
    <3>2. QED
      BY <1>1, <2>1, <3>1, Unmoved DEF BufferOK, DmabufNamed
  <2>5. QED
    BY <2>2, <2>3, <2>4
<1>15. ASSUME NEW r \in Refs PROVE RefOK(r)'
  BY <1>1, <1>13 DEF IInv, RefOK
<1>16. ASSUME NEW d \in Dmabufs PROVE DmaOK(d)'
  BY <1>1 DEF IInv, DmaOK
<1>17. Counted'
  <2>1. ASSUME NEW x \in Objs
        PROVE  BaseMove(x, t, NULL, NULL) /\ BoMove(x, t) /\ WritersMove(x, t, NULL)
    <3>1. base[x].kref \in Nat /\ bo[x].kref \in Nat /\ bo[x].cpu_writers \in Nat
      BY DEF IInv, TypeOK
    <3>2. /\ RefsTo(x)' = RefsTo(x) /\ WriterRefs(x)' = WriterRefs(x) /\ DmaOf(x)' = DmaOf(x)
      BY <1>1, Unmoved
    <3>3. CASE x = o
      <4>1. BaseMove(x, t, NULL, NULL)
        BY <1>5, <1>8, <3>1, <3>2, <3>3, Places DEF BaseMove, N
      <4>2. BoMove(x, t)
        BY <1>2, <1>5, <1>8, <1>9, <1>10, <3>1, <3>3, Places DEF BoMove, N
      <4>3. WritersMove(x, t, NULL)
        BY <1>5, <1>9, <3>1, <3>2, <3>3, Places DEF WritersMove, N
      <4>4. QED
        BY <4>1, <4>2, <4>3
    <3>4. CASE x # o
      <4>1. base'[x] = base[x] /\ bo'[x] = bo[x]
        BY <1>8, <1>9, <3>4
      <4>2. QED
        BY <1>2, <1>5, <3>1, <3>2, <3>4, <4>1, Places DEF BaseMove, BoMove, WritersMove, N
    <3>5. QED
      BY <3>3, <3>4
  <2>2. ASSUME NEW e \in Dmabufs PROVE DmaMove(e, t)
    BY <1>1, <1>5, DmaEven, Places DEF DmaMove, N
  <2>3. ASSUME NEW g \in Files PROVE FileMove(g, o)
    <3>1. /\ tf[g].kref \in Nat /\ (Held(g)' <=> Held(g))
          /\ (o \in ObjsOf(g)' <=> o \in ObjsOf(g))
      BY <1>8, <1>13 DEF ObjsOf, IInv, TypeOK
    <3>2. QED
      BY <1>1, <3>1 DEF FileMove, N
  <2>4. MemMove(NULL, NULL)
    BY <1>1, Unmoved DEF MemMove, N, IInv, TypeOK
  <2>5. \A x \in Objs \ {o} : base'[x].tfile = base[x].tfile
    BY <1>8
  <2>6. QED
    BY <1>1, <1>4, <1>11, <2>1, <2>2, <2>3, <2>4, <2>5, CountsMove
<1>18. Local(th'[t]) /\ \A u \in Threads \ {t} : Apart(th'[t], th[u]) /\ Apart(th[u], th'[t])
  BY <1>4, IdleIs
<1>19. QED
  BY <1>4, <1>11, <1>12, <1>14, <1>15, <1>16, <1>17, <1>18, Together

\* A base object without references is released.
LEMMA ReleaseInv ==
  ASSUME Careful, IInv, NEW t \in Threads, ttm_release_base(t)
  PROVE  IInv'
<1>1. /\ th[t].pc \in {"base_release", "prime_release"} /\ th[t].obj \in Objs
      /\ th \in [Threads -> ThreadType] /\ Local(th[t]) /\ Knows(th[t]) /\ InCall(th[t])
      /\ UNCHANGED <<ref, dma, mem>> /\ Continue(t, AfterPut(t))
  BY Here DEF ttm_release_base, Releasing, Local
<1>2. PICK o \in Objs : o = th[t].obj
  BY <1>1
<1>3. /\ base[o].st = "live" /\ base[o].kref = 0 /\ base[o].tfile \in Files
      /\ BufferOK(o) /\ base \in [Objs -> BaseType] /\ tf \in [Files -> [open : BOOLEAN, kref : Nat]]
  BY <1>1, <1>2 DEF Knows, IInv, BufferOK, TypeOK, BaseType
<1>4. PICK g \in Files : g = base[o].tfile
  BY <1>3
<1>5. /\ \A u \in Threads : u \notin Owners(o) /\ u \notin Heirs(o)
      /\ \A d \in Dmabufs : dma[d].obj # o
  BY <1>3, NoneIsEmpty
<1>6. th[t].pc = "prime_release" => th[t].op \in {"export_new", "import", "close_fd"}
  <2>1. ~Owns(t)
    BY <1>2, <1>5, Places
  <2>2. QED
    BY <1>1, <2>1 DEF Owns, InCall, Adding, Dropping, Heir
<1>7. PICK s : /\ s = AfterPut(t)
               /\ \/ th[t].pc = "base_release" /\ th[t].op \in {"unref", "close"} /\ s = "ref_free"
                  \/ th[t].pc = "base_release" /\ th[t].op = "alloc" /\ s = "bo_put"
                  \/ th[t].pc = "base_release" /\ th[t].op = "grab" /\ s = "write_grab"
                  \/ th[t].pc = "base_release" /\ th[t].op \in {"define", "name", "use", "export"}
                     /\ s = "idle"
                  \/ th[t].pc = "prime_release" /\ th[t].op \in {"export_new", "import", "close_fd"}
                     /\ s = "idle"
  BY <1>1, <1>6 DEF AfterPut, AfterPrime, InCall, Adding, Dropping, Heir
<1>8. Continue(t, s) /\ s \in Steps
  BY <1>1, <1>7 DEF Steps
<1>9. /\ th' \in [Threads -> ThreadType] /\ \A u \in Threads \ {t} : th'[u] = th[u]
      /\ s = "idle" => th'[t] = Idle
      /\ s # "idle" => /\ th'[t].op = th[t].op /\ th'[t].pc = s /\ th'[t].file = th[t].file
                       /\ th'[t].obj = th[t].obj /\ th'[t].type = th[t].type
                       /\ th'[t].ref = th[t].ref /\ th'[t].dma = th[t].dma
                       /\ th'[t].ret = th[t].ret
  BY <1>1, <1>8, GoesOn
<1>10. /\ ~Owns(t) /\ ~Owns(t)' /\ ~At(t, "prime_put") /\ ~At(t, "prime_put")'
       /\ ~Writes(t) /\ ~Writes(t)' /\ (HoldsBo(th'[t]) <=> HoldsBo(th[t]))
       /\ ~HoldsDma(th[t]) /\ ~HoldsDma(th'[t])
       /\ s = "idle" => ~HoldsBo(th[t])
  <2>1. CASE s = "idle"
    BY <1>1, <1>7, <1>9, <2>1 DEF Idle, Owns, At, Writes, Grabbing, HoldsBo, HoldsDma, Adding, Dropping
  <2>2. CASE s # "idle"
    BY <1>1, <1>7, <1>9, <2>2 DEF Owns, At, Writes, Grabbing, HoldsBo, HoldsDma, Adding, Dropping
  <2>3. QED
    BY <2>1, <2>2
<1>11. bo[o].kref > 0 /\ bo[o].kref \in Nat
  BY <1>3 DEF BufferOK, IInv, TypeOK
<1>12. bo[o].kref = 1 => bo[o].backup = NULL /\ BoHolders(o) = {}
  BY <1>3, LastBo
<1>13. /\ BoPut(o) \in [Objs -> BoType] /\ \A x \in Objs \ {o} : BoPut(o)[x] = bo[x]
       /\ BoPut(o)[o].kref = bo[o].kref - 1 /\ BoPut(o)[o].cpu_writers = bo[o].cpu_writers
       /\ bo[o].kref # 1 => BoPut(o)[o].backup = bo[o].backup
       /\ bo[o].kref = 1 => BoPut(o)[o] = NoBo
  BY <1>3, <1>11, <1>12, BoPutIs
<1>14. /\ bo' = BoPut(o) /\ bo'[o].backup = bo[o].backup
  BY <1>2, <1>12, <1>13 DEF ttm_release_base, NoBo
<1>15. PICK b \in BaseType : b = [base[o] EXCEPT !.st = "dead", !.hashed = FALSE, !.tfile = NULL]
  BY <1>3 DEF BaseType
<1>16. /\ b.st = "dead" /\ ~b.hashed /\ b.tfile = NULL /\ b.kref = 0 /\ b.dma_buf = base[o].dma_buf
  BY <1>3, <1>15 DEF BaseType
<1>17. base' = [base EXCEPT ![o] = IF bo[o].kref = 1 THEN NoBase ELSE b]
  BY <1>2, <1>15 DEF ttm_release_base, BoFreed
<1>18. /\ base' \in [Objs -> BaseType] /\ \A x \in Objs \ {o} : base'[x] = base[x]
       /\ base'[o].kref = 0 /\ base'[o].tfile = NULL /\ base'[o].st \in {"none", "dead"}
       /\ bo[o].kref = 1 => base'[o] = NoBase
       /\ bo[o].kref # 1 => base'[o] = b
  <2>1. NoBase \in BaseType /\ NoBase.kref = 0 /\ NoBase.tfile = NULL /\ NoBase.st = "none"
    BY DEF NoBase, BaseType
  <2>2. QED
    BY <1>3, <1>16, <1>17, <2>1
<1>19. tf[g].kref > 0 /\ tf[g].kref \in Nat
  <2>1. Moves(ObjsOf(g), ObjsOf(g), o) /\ o \in ObjsOf(g) /\ FileCounted(g)
    BY <1>4, Finite, OneMoves DEF ObjsOf, IInv, Counted
  <2>2. QED
    BY <1>3, <2>1 DEF Moves, FileCounted
<1>20. /\ tf' \in [Files -> [open : BOOLEAN, kref : Nat]] /\ tf'[g].kref = tf[g].kref - 1
       /\ \A f \in Files : tf'[f].open = tf[f].open
       /\ \A f \in Files \ {g} : tf'[f] = tf[f]
  <2>1. tf' = [f \in Files |-> IF f = g THEN [tf[f] EXCEPT !.kref = @ - 1] ELSE tf[f]]
    BY <1>2, <1>4 DEF ttm_release_base
  <2>2. PICK q \in [open : BOOLEAN, kref : Nat] : q = [tf[g] EXCEPT !.kref = @ - 1]
    <3>1. tf[g].kref - 1 \in Nat
      BY <1>19
    <3>2. QED
      BY <1>3, <3>1
  <2>3. q.open = tf[g].open /\ q.kref = tf[g].kref - 1
    BY <1>3, <2>2
  <2>4. QED
    BY <1>3, <2>1, <2>2, <2>3
<1>21. TypeOK'
  BY <1>1, <1>9, <1>13, <1>14, <1>18, <1>20 DEF IInv, TypeOK, BaseType, BoType, ThreadType
<1>22. Local(th'[t])
  <2>1. CASE s = "idle"
    BY <1>9, <2>1, IdleIs
  <2>2. CASE s # "idle"
    BY <1>1, <1>7, <1>9, <2>2 DEF Local, InCall, FreesRef, HoldsDma, Adding, Dropping, Heir
  <2>3. QED
    BY <2>1, <2>2
<1>23. ASSUME NEW u \in Threads PROVE Knows(th[u])'
  <2>1. CASE u = t /\ s = "idle"
    BY <1>9, <2>1 DEF Idle, Knows, OfFile, PreInit, Relies, FreesRef, HoldsDma
  <2>2. CASE u = t /\ s # "idle"
    <3>1. HasHandle(th[t].file, th[t].obj)' <=> HasHandle(th[t].file, th[t].obj)
      BY <1>1, <1>9, <2>2, Unmoved
    <3>2. OfFile(th[t]) \/ th[t].op = "close" => tf'[th[t].file].open = tf[th[t].file].open
      BY <1>1, <1>20 DEF Local, OfFile
    <3>3. QED
      BY <1>1, <1>7, <1>9, <2>2, <3>1, <3>2 DEF Knows, OfFile, PreInit, Relies, FreesRef,
         HoldsDma, Adding, Dropping
  <2>3. CASE u # t
    <3>1. th'[u] = th[u] /\ Knows(th[u]) /\ Local(th[u]) /\ Apart(th[t], th[u])
      BY <1>9, <2>3 DEF IInv
    <3>2. /\ PreInit(th[u]) => th[u].obj \in Objs /\ th[u].obj # o
          /\ th[u].op = "backup" => th[u].obj \in Objs
          /\ th[u].pc \in {"base_release", "prime_release"} => th[u].obj \in Objs /\ th[u].obj # o
      <4>1. PreInit(th[u]) => Owns(u)
        BY DEF PreInit, Owns, Adding
      <4>2. th[u].obj = o => ~Owns(u)
        BY <1>5, Places
      <4>3. QED
        BY <1>1, <1>2, <3>1, <4>1, <4>2 DEF Local, InCall, PreInit, Adding, Apart
    <3>3. \A x \in Objs : bo'[x].backup = bo[x].backup
      BY <1>13, <1>14
    <3>4. /\ PreInit(th[u]) => /\ base'[th[u].obj].st = base[th[u].obj].st
                               /\ bo'[th[u].obj].backup = bo[th[u].obj].backup
          /\ th[u].op = "backup" => bo'[th[u].obj].backup # NULL
          /\ th[u].pc \in {"base_release", "prime_release"} =>
               base'[th[u].obj].st = "live" /\ base'[th[u].obj].kref = 0
      BY <1>18, <3>1, <3>2, <3>3 DEF Knows
    <3>5. OfFile(th[u]) \/ th[u].op = "close" => tf'[th[u].file].open = tf[th[u].file].open
      BY <1>20, <3>1 DEF Local, OfFile
    <3>6. Relies(th[u]) => HasHandle(th[u].file, th[u].obj)'
      BY <1>1, <3>1, Unmoved DEF Knows
    <3>7. QED
      BY <1>1, <3>1, <3>4, <3>5, <3>6, KnowsStays
  <2>4. QED
    BY <2>1, <2>2, <2>3
<1>24. ASSUME NEW u \in Threads \ {t} PROVE Apart(th'[t], th[u]) /\ Apart(th[u], th'[t])
  <2>1. /\ PreInit(th'[t]) => PreInit(th[t])
        /\ th'[t].pc \notin {"dma_release", "base_release", "prime_release"}
        /\ s # "idle" => (FreesRef(th'[t]) => FreesRef(th[t]))
    BY <1>1, <1>7, <1>9 DEF PreInit, FreesRef, Adding, Idle
  <2>2. QED
    BY <1>9, <2>1, StillApart
<1>25. \A f \in Files : Held(f)' <=> Held(f)
  <2>1. /\ th'[t].op = "close" <=> th[t].op = "close"
        /\ th'[t].op = "close" => th'[t].file = th[t].file
    BY <1>7, <1>9 DEF Idle
  <2>2. ASSUME NEW f \in Files PROVE Closing(f)' <=> Closing(f)
    <3>1. \A u \in Threads : th'[u].op = "close" <=> th[u].op = "close"
      BY <1>9, <2>1
    <3>2. \A u \in Threads : th'[u].op = "close" => th'[u].file = th[u].file
      BY <1>9, <2>1
    <3>3. QED
      BY <3>1, <3>2 DEF Closing
  <2>3. QED
    BY <1>20, <2>2 DEF Held
<1>26. ASSUME NEW x \in Objs PROVE BufferOK(x)' /\ DmabufNamed(x)'
  <2>1. BufferOK(x) /\ DmabufNamed(x) /\ bo[x].backup \in Files \cup {NULL}
    BY DEF IInv, TypeOK
  <2>2. CASE x = o /\ bo[o].kref = 1
    <3>1. base'[o] = NoBase /\ bo'[o] = NoBo
      BY <1>13, <1>14, <1>18, <2>2
    <3>2. QED
      BY <1>1, <1>5, <2>2, <3>1 DEF BufferOK, DmabufNamed, NoBase, NoBo
  <2>3. CASE x = o /\ bo[o].kref # 1
    <3>1. bo'[o].kref # 0
      BY <1>11, <1>13, <1>14, <2>3
    <3>2. base'[o] = b /\ bo'[o].backup = bo[o].backup
      BY <1>14, <1>18, <2>3
    <3>3. QED
      BY <1>1, <1>16, <1>20, <2>1, <2>3, <3>1, <3>2, Unmoved DEF BufferOK, DmabufNamed
  <2>4. CASE x # o
    <3>1. base'[x] = base[x] /\ bo'[x] = bo[x]
      BY <1>13, <1>14, <1>18, <2>4
    <3>2. dma' = dma /\ (\A f : HasHandle(f, x)' <=> HasHandle(f, x))
      BY <1>1, Unmoved
    <3>3. bo[x].backup # NULL => tf'[bo[x].backup].open = tf[bo[x].backup].open
      BY <1>20, <2>1
    <3>4. BufferOK(x)'
      BY <2>1, <3>1, <3>2, <3>3 DEF BufferOK
    <3>5. DmabufNamed(x)'
      BY <2>1, <3>1, <3>2 DEF DmabufNamed
    <3>6. QED
      BY <3>4, <3>5
  <2>5. QED
    BY <2>2, <2>3, <2>4
<1>27. ASSUME NEW r \in Refs PROVE RefOK(r)'
  BY <1>1, <1>25 DEF IInv, RefOK
<1>28. ASSUME NEW d \in Dmabufs PROVE DmaOK(d)'
  BY <1>1 DEF IInv, DmaOK
<1>29. Counted'
  <2>1. ASSUME NEW x \in Objs
        PROVE  BaseMove(x, t, NULL, NULL) /\ BoMove(x, t) /\ WritersMove(x, t, NULL)
    <3>1. base[x].kref \in Nat /\ bo[x].kref \in Nat /\ bo[x].cpu_writers \in Nat
      BY DEF IInv, TypeOK
    <3>2. /\ RefsTo(x)' = RefsTo(x) /\ WriterRefs(x)' = WriterRefs(x) /\ DmaOf(x)' = DmaOf(x)
      BY <1>1, Unmoved
    <3>3. t \in BoHolders(x)' <=> t \in BoHolders(x)
      BY <1>9, <1>10, Places
    <3>4. CASE x = o
      <4>1. BaseMove(x, t, NULL, NULL)
        BY <1>3, <1>10, <1>18, <3>1, <3>2, <3>4, Places DEF BaseMove, N
      <4>2. BoMove(x, t)
        BY <1>3, <1>13, <1>14, <1>18, <3>1, <3>3, <3>4 DEF BoMove, N
      <4>3. WritersMove(x, t, NULL)
        BY <1>10, <1>13, <1>14, <3>1, <3>2, <3>4, Places DEF WritersMove, N
      <4>4. QED
        BY <4>1, <4>2, <4>3
    <3>5. CASE x # o
      <4>1. base'[x] = base[x] /\ bo'[x] = bo[x]
        BY <1>13, <1>14, <1>18, <3>5
      <4>2. QED
        BY <1>10, <3>1, <3>2, <3>3, <4>1, Places DEF BaseMove, BoMove, WritersMove, N
    <3>6. QED
      BY <3>4, <3>5
  <2>2. ASSUME NEW e \in Dmabufs PROVE DmaMove(e, t)
    BY <1>1, <1>10, DmaEven, Places DEF DmaMove, N
  <2>3. ASSUME NEW f \in Files PROVE FileMove(f, o)
    <3>1. /\ tf[f].kref \in Nat /\ (Held(f)' <=> Held(f)) /\ f # NULL
          /\ o \notin ObjsOf(f)' /\ (o \in ObjsOf(f) <=> f = g)
      BY <1>3, <1>4, <1>18, <1>25, ObjectAssumption DEF ObjsOf
    <3>2. QED
      BY <1>20, <3>1 DEF FileMove, N
  <2>4. MemMove(NULL, NULL)
    BY <1>1, Unmoved DEF MemMove, N, IInv, TypeOK
  <2>5. \A x \in Objs \ {o} : base'[x].tfile = base[x].tfile
    BY <1>18
  <2>6. QED
    BY <1>1, <1>9, <1>21, <2>1, <2>2, <2>3, <2>4, <2>5, CountsMove
<1>30. QED
  BY <1>9, <1>21, <1>22, <1>23, <1>24, <1>26, <1>27, <1>28, <1>29, Together

\* ttm_base_object_init is over: the new object stays, as a buffer or as the
\* backup of a surface, or what was done for it is undone in part.
LEMMA BaseInitedInv ==
  ASSUME Careful, IInv, NEW t \in Threads, BaseInited(t)
  PROVE  IInv'
<1>1. /\ th[t].pc = "inited" /\ th[t].op = "alloc" /\ th[t].obj \in Objs /\ th[t].file \in Files
      /\ th \in [Threads -> ThreadType] /\ Local(th[t]) /\ Knows(th[t])
      /\ UNCHANGED <<ref, dma, tf, mem>>
  BY Here DEF BaseInited, At, Local, InCall, Adding, Dropping, Heir
<1>2. PICK o \in Objs : o = th[t].obj
  BY <1>1
<1>3. PICK f \in Files : f = th[t].file
  BY <1>1
<1>4. /\ Owns(t) /\ ~At(t, "prime_put") /\ ~Writes(t) /\ HoldsBo(th[t]) /\ ~HoldsDma(th[t])
      /\ PreInit(th[t])
  BY <1>1 DEF Owns, At, Writes, Grabbing, HoldsBo, HoldsDma, PreInit, Adding
<1>5. /\ base[o].st = "live" /\ bo[o].backup = NULL /\ base \in [Objs -> BaseType]
      /\ bo \in [Objs -> BoType] /\ bo[o] \in BoType /\ BufferOK(o) /\ tf[f].open
      /\ base[o].tfile \in Files /\ base[o].kref > 0 /\ base[o].kref \in Nat
  <2>1. base[o].st = "live" /\ bo[o].backup = NULL /\ tf[f].open
    BY <1>1, <1>2, <1>3, <1>4 DEF Knows, OfFile
  <2>2. t \in Owners(o)
    BY <1>2, <1>4, Places
  <2>3. /\ BufferOK(o) /\ base \in [Objs -> BaseType] /\ bo \in [Objs -> BoType]
    BY DEF IInv, TypeOK, BaseType, BoType
  <2>4. QED
    BY <2>1, <2>2, <2>3, BaseAlive DEF BufferOK
<1>6. bo[o].kref > 1 /\ bo[o].kref \in Nat
  <2>1. Moves(BoHolders(o), BoHolders(o), t) /\ t \in BoHolders(o) /\ BoCounted(o)
    BY <1>2, <1>4, Finite, OneMoves, Places DEF IInv, Counted
  <2>2. QED
    BY <1>5, <2>1 DEF Moves, BoCounted, BoType
<1>7. ASSUME NEW u \in Threads \ {t}
      PROVE  /\ PreInit(th[u]) => th[u].obj \in Objs /\ th[u].obj # o
             /\ th[u].pc \in {"base_release", "prime_release"} => th[u].obj \in Objs /\ th[u].obj # o
             /\ th[u].op = "backup" => th[u].obj \in Objs
             /\ Knows(th[u]) /\ Local(th[u])
  <2>1. Apart(th[t], th[u]) /\ Knows(th[u]) /\ Local(th[u])
    BY DEF IInv
  <2>2. QED
    BY <1>2, <1>4, <1>5, <2>1 DEF Apart, Local, Knows, PreInit, InCall, Adding
<1>8. CASE th[t].ret # "error" /\ Continue(t, "base_put") /\ bo' = bo /\ base' = base
  <2>1. /\ th' \in [Threads -> ThreadType] /\ \A u \in Threads \ {t} : th'[u] = th[u]
        /\ th'[t].op = th[t].op /\ th'[t].pc = "base_put" /\ th'[t].file = th[t].file
        /\ th'[t].obj = th[t].obj /\ th'[t].type = th[t].type
        /\ th'[t].ref = th[t].ref /\ th'[t].dma = th[t].dma
    BY <1>1, <1>8, GoesOn DEF Steps
  <2>2. Local(th'[t])
    BY <1>1, <2>1 DEF Local, InCall, FreesRef, HoldsDma, Adding, Dropping
  <2>3. Knows(th'[t])
    BY <1>1, <2>1 DEF Knows, OfFile, PreInit, Relies, FreesRef, HoldsDma, Adding, Dropping
  <2>4. \A u \in Threads \ {t} : Apart(th'[t], th[u]) /\ Apart(th[u], th'[t])
    BY <1>1, <2>1, StillApart DEF FreesRef, PreInit, Adding
  <2>5. /\ Owns(t)' /\ ~At(t, "prime_put")' /\ ~Writes(t)' /\ HoldsBo(th'[t]) /\ ~HoldsDma(th'[t])
    BY <1>1, <2>1 DEF Owns, At, Writes, Grabbing, HoldsBo, HoldsDma, Adding
  <2>6. QED
    BY <1>1, <1>4, <1>8, <2>1, <2>2, <2>3, <2>4, <2>5, ThreadOnly
<1>9. ASSUME th' \in [Threads -> ThreadType], \A u \in Threads \ {t} : th'[u] = th[u],
             Local(th'[t]), Knows(th[t])', th'[t].op # "close",
             \A u \in Threads \ {t} : Apart(th'[t], th[u]) /\ Apart(th[u], th'[t]),
             base' \in [Objs -> BaseType], \A x \in Objs \ {o} : base'[x] = base[x],
             base'[o].kref = base[o].kref, base'[o].tfile = base[o].tfile,
             base'[o].dma_buf = base[o].dma_buf,
             bo' \in [Objs -> BoType], \A x \in Objs \ {o} : bo'[x] = bo[x],
             bo'[o].cpu_writers = bo[o].cpu_writers,
             BufferOK(o)', \A x \in Objs : BaseMove(x, t, NULL, NULL) /\ BoMove(x, t),
             ~Writes(t)', ~HoldsDma(th'[t])
      PROVE  IInv'
  <2>1. TypeOK'
    BY <1>1, <1>9 DEF IInv, TypeOK, BaseType, BoType, ThreadType
  <2>2. ASSUME NEW u \in Threads PROVE Knows(th[u])'
    <3>1. CASE u = t
      BY <1>9, <3>1
    <3>2. CASE u # t
      <4>1. /\ PreInit(th[u]) => /\ base'[th[u].obj].st = base[th[u].obj].st
                                 /\ bo'[th[u].obj].backup = bo[th[u].obj].backup
            /\ th[u].pc \in {"base_release", "prime_release"} =>
                 base'[th[u].obj].st = "live" /\ base'[th[u].obj].kref = 0
        BY <1>7, <1>9, <3>2 DEF Knows
      <4>2. th[u].op = "backup" => bo'[th[u].obj].backup # NULL
        BY <1>5, <1>7, <1>9, <3>2 DEF Knows
      <4>3. Relies(th[u]) => HasHandle(th[u].file, th[u].obj)'
        <5>1. th'[u] = th[u] /\ Knows(th[u])
          BY <1>7, <1>9, <3>2
        <5>2. QED
          BY <1>1, <5>1, Unmoved DEF Knows
      <4>4. QED
        BY <1>1, <1>9, <3>2, <4>1, <4>2, <4>3, KnowsStays
    <3>3. QED
      BY <3>1, <3>2
  <2>3. \A g : Held(g)' <=> Held(g)
    BY <1>1, <1>9, HeldStays
  <2>4. ASSUME NEW x \in Objs PROVE BufferOK(x)' /\ DmabufNamed(x)'
    <3>1. BufferOK(x) /\ DmabufNamed(x)
      BY DEF IInv
    <3>2. CASE x = o
      BY <1>1, <1>9, <3>1, <3>2 DEF DmabufNamed
    <3>3. CASE x # o
      <4>1. base'[x] = base[x] /\ bo'[x] = bo[x]
        BY <1>9, <3>3
      <4>2. QED
        BY <1>1, <3>1, <4>1, Unmoved DEF BufferOK, DmabufNamed
    <3>4. QED
      BY <3>2, <3>3
  <2>5. ASSUME NEW r \in Refs PROVE RefOK(r)'
    BY <1>1, <2>3 DEF IInv, RefOK
  <2>6. ASSUME NEW d \in Dmabufs PROVE DmaOK(d)'
    BY <1>1 DEF IInv, DmaOK
  <2>7. Counted'
    <3>1. ASSUME NEW x \in Objs PROVE WritersMove(x, t, NULL)
      <4>1. bo'[x].cpu_writers = bo[x].cpu_writers /\ bo[x].cpu_writers \in Nat
        BY <1>9 DEF IInv, TypeOK
      <4>2. QED
        BY <1>1, <1>4, <1>9, <4>1, Places, Unmoved DEF WritersMove, N
    <3>2. ASSUME NEW e \in Dmabufs PROVE DmaMove(e, t)
      BY <1>1, <1>4, <1>9, DmaEven, Places DEF DmaMove, N
    <3>3. ASSUME NEW g \in Files PROVE FileMove(g, o)
      <4>1. /\ tf[g].kref \in Nat /\ (Held(g)' <=> Held(g))
            /\ (o \in ObjsOf(g)' <=> o \in ObjsOf(g))
        BY <1>9, <2>3 DEF ObjsOf, IInv, TypeOK
      <4>2. QED
        BY <1>1, <4>1 DEF FileMove, N
    <3>4. MemMove(NULL, NULL)
      BY <1>1, Unmoved DEF MemMove, N, IInv, TypeOK
    <3>5. \A x \in Objs \ {o} : base'[x].tfile = base[x].tfile
      BY <1>9
    <3>6. QED
      BY <1>1, <1>9, <2>1, <3>1, <3>2, <3>3, <3>4, <3>5, CountsMove
  <2>8. QED
    BY <1>9, <2>1, <2>2, <2>4, <2>5, <2>6, <2>7, Together
<1>10. CASE /\ base' = [base EXCEPT ![o].hashed = FALSE, ![o].st = "leaked"]
            /\ bo' = BoPut(o) /\ Continue(t, "idle")
  <2>1. /\ th' \in [Threads -> ThreadType] /\ \A u \in Threads \ {t} : th'[u] = th[u]
        /\ th'[t] = Idle
    BY <1>1, <1>10, GoesOn DEF Steps
  <2>2. /\ Local(th'[t]) /\ th'[t].op # "close"
        /\ \A u \in Threads \ {t} : Apart(th'[t], th[u]) /\ Apart(th[u], th'[t])
    BY <2>1, IdleIs DEF Idle
  <2>3. Knows(th[t])'
    BY <2>1 DEF Idle, Knows, OfFile, PreInit, Relies, FreesRef, HoldsDma
  <2>4. /\ ~Owns(t)' /\ ~At(t, "prime_put")' /\ ~Writes(t)' /\ ~HoldsBo(th'[t]) /\ ~HoldsDma(th'[t])
    BY <2>1 DEF Idle, Owns, At, Writes, Grabbing, HoldsBo, HoldsDma, Adding
  <2>5. PICK b \in BaseType : b = [base[o] EXCEPT !.hashed = FALSE, !.st = "leaked"]
    BY <1>5 DEF BaseType
  <2>6. /\ b.st = "leaked" /\ ~b.hashed /\ b.kref = base[o].kref /\ b.tfile = base[o].tfile
        /\ b.dma_buf = base[o].dma_buf
    BY <1>5, <2>5 DEF BaseType
  <2>7. base' = [base EXCEPT ![o] = b]
    BY <1>5, <1>10, <2>5
  <2>8. /\ base' \in [Objs -> BaseType] /\ base'[o] = b /\ \A x \in Objs \ {o} : base'[x] = base[x]
    BY <1>5, <2>7
  <2>9. /\ bo' \in [Objs -> BoType] /\ \A x \in Objs \ {o} : bo'[x] = bo[x]
        /\ bo'[o].kref = bo[o].kref - 1 /\ bo'[o].cpu_writers = bo[o].cpu_writers
        /\ bo'[o].backup = NULL
    BY <1>5, <1>6, <1>10, BoPutIs
  <2>10. BufferOK(o)'
    <3>1. bo'[o].kref # 0
      BY <1>6, <2>9
    <3>2. QED
      BY <1>5, <2>6, <2>8, <2>9, <3>1 DEF BufferOK
  <2>11. ASSUME NEW x \in Objs PROVE BaseMove(x, t, NULL, NULL) /\ BoMove(x, t)
    <3>1. /\ base[x].kref \in Nat /\ bo[x].kref \in Nat
          /\ RefsTo(x)' = RefsTo(x) /\ DmaOf(x)' = DmaOf(x)
      BY <1>1, Unmoved DEF IInv, TypeOK
    <3>2. CASE x = o
      <4>1. BaseMove(x, t, NULL, NULL)
        BY <1>2, <1>4, <1>5, <2>4, <2>6, <2>8, <3>1, <3>2, Places DEF BaseMove, N
      <4>2. BoMove(x, t)
        BY <1>2, <1>4, <1>5, <2>4, <2>6, <2>8, <2>9, <3>1, <3>2, Places DEF BoMove, N
      <4>3. QED
        BY <4>1, <4>2
    <3>3. CASE x # o
      <4>1. base'[x] = base[x] /\ bo'[x] = bo[x]
        BY <2>8, <2>9, <3>3
      <4>2. QED
        BY <1>2, <1>4, <2>4, <3>1, <3>3, <4>1, Places DEF BaseMove, BoMove, N
    <3>4. QED
      BY <3>2, <3>3
  <2>12. QED
    BY <1>9, <2>1, <2>2, <2>3, <2>4, <2>6, <2>8, <2>9, <2>10, <2>11
<1>11. CASE /\ th[t].ret # "error" /\ base' = base
            /\ th' = [th EXCEPT ![t].op = "define", ![t].pc = "base_put"]
            /\ bo' = [bo EXCEPT ![o].backup = f]
  <2>1. PICK w \in ThreadType : w = [th[t] EXCEPT !.op = "define", !.pc = "base_put"]
    <3>1. "define" \in Ops /\ "base_put" \in Steps /\ th[t] \in ThreadType
      BY <1>1 DEF Ops, Steps
    <3>2. [th[t] EXCEPT !.op = "define", !.pc = "base_put"] \in ThreadType
      BY <3>1 DEF ThreadType
    <3>3. QED
      BY <3>2
  <2>2. /\ th' \in [Threads -> ThreadType] /\ \A u \in Threads \ {t} : th'[u] = th[u]
        /\ th'[t] = w
    BY <1>1, <1>11, <2>1
  <2>3. /\ w.op = "define" /\ w.pc = "base_put" /\ w.file = th[t].file /\ w.obj = th[t].obj
        /\ w.type = th[t].type /\ w.ref = th[t].ref /\ w.dma = th[t].dma
    BY <1>1, <2>1 DEF ThreadType
  <2>4. Local(w)
    BY <1>1, <2>3 DEF Local, InCall, FreesRef, HoldsDma, Adding, Dropping
  <2>5. Knows(th[t])'
    BY <1>1, <2>2, <2>3 DEF Knows, OfFile, PreInit, Relies, FreesRef, HoldsDma, Adding, Dropping
  <2>6. ASSUME NEW u \in Threads \ {t} PROVE Apart(w, th[u]) /\ Apart(th[u], w)
    <3>1. Apart(th[u], th[t])
      BY DEF IInv
    <3>2. QED
      BY <2>3, <3>1 DEF Apart, FreesRef, PreInit
  <2>7. /\ Owns(t)' /\ ~At(t, "prime_put")' /\ ~Writes(t)' /\ ~HoldsBo(w) /\ ~HoldsDma(w)
    BY <2>2, <2>3 DEF Owns, At, Writes, Grabbing, HoldsBo, HoldsDma, Adding
  <2>8. /\ bo' \in [Objs -> BoType] /\ \A x \in Objs \ {o} : bo'[x] = bo[x]
        /\ bo'[o].kref = bo[o].kref /\ bo'[o].cpu_writers = bo[o].cpu_writers
        /\ bo'[o].backup = f
    BY <1>5, <1>11 DEF BoType
  <2>9. BufferOK(o)'
    <3>1. bo[o].kref # 0
      BY <1>6
    <3>2. HasHandle(f, o)' <=> HasHandle(f, o)
      BY <1>1, Unmoved
    <3>3. HasHandle(f, o)
      BY <1>1, <1>2, <1>3, <1>11 DEF Knows, Relies
    <3>4. QED
      BY <1>1, <1>5, <1>11, <2>8, <3>1, <3>2, <3>3 DEF BufferOK
  <2>10. ASSUME NEW x \in Objs PROVE BaseMove(x, t, NULL, NULL) /\ BoMove(x, t)
    <3>1. /\ base[x].kref \in Nat /\ bo[x].kref \in Nat
          /\ RefsTo(x)' = RefsTo(x) /\ DmaOf(x)' = DmaOf(x)
      BY <1>1, Unmoved DEF IInv, TypeOK
    <3>2. BaseMove(x, t, NULL, NULL)
      BY <1>2, <1>4, <1>11, <2>2, <2>3, <2>7, <3>1, Places DEF BaseMove, N
    <3>3. BoMove(x, t)
      <4>1. CASE x = o
        BY <1>2, <1>4, <1>5, <1>11, <2>2, <2>7, <2>8, <3>1, <4>1, ObjectAssumption, Places DEF BoMove, N
      <4>2. CASE x # o
        BY <1>2, <1>4, <1>11, <2>2, <2>7, <2>8, <3>1, <4>2, Places DEF BoMove, N
      <4>3. QED
        BY <4>1, <4>2
    <3>4. QED
      BY <3>2, <3>3
  <2>11. w.op # "close"
    BY <2>3
  <2>12. QED
    BY <1>5, <1>9, <1>11, <2>2, <2>4, <2>5, <2>6, <2>7, <2>8, <2>9, <2>10, <2>11
<1>12. QED
  BY <1>2, <1>3, <1>8, <1>10, <1>11 DEF BaseInited

-----------------------------------------------------------------------------
(* Reference objects. *)

RefType ==
  [st : {"free", "hashed", "gone"}, tfile : Files \cup {NULL}, key : Objs \cup {NULL},
   type : RefTypes, kref : 0..MaxDup, obj : Objs \cup {NULL}]

\* Only the counts of reference objects change, and the state of the thread, which
\* moves into or out of none of the sets that are counted.
LEMMA RefCountStep ==
  ASSUME Careful, IInv, NEW t \in Threads, \A u \in Threads \ {t} : th'[u] = th[u],
         th' \in [Threads -> ThreadType], UNCHANGED <<base, bo, dma, tf, mem>>,
         ref' \in [Refs -> RefType],
         \A q \in Refs : /\ ref'[q].st = ref[q].st /\ ref'[q].tfile = ref[q].tfile
                         /\ ref'[q].key = ref[q].key /\ ref'[q].type = ref[q].type
                         /\ ref'[q].obj = ref[q].obj
                         /\ ref[q].st # "hashed" => ref'[q] = ref[q]
                         /\ ref[q].st = "hashed" => ref'[q].kref > 0,
         Local(th'[t]), Knows(th[t])',
         \A u \in Threads \ {t} : Apart(th'[t], th[u]) /\ Apart(th[u], th'[t]),
         th[t].op # "close", th'[t].op # "close",
         Owns(t)' <=> Owns(t), At(t, "prime_put")' <=> At(t, "prime_put"),
         Writes(t)' <=> Writes(t), HoldsBo(th'[t]) <=> HoldsBo(th[t]),
         HoldsDma(th'[t]) <=> HoldsDma(th[t]),
         th'[t].obj = th[t].obj \/ ~Owes(t), th'[t].dma = th[t].dma \/ ~HoldsDma(th[t])
  PROVE  IInv'
<1>1. TypeOK'
  BY DEF IInv, TypeOK, ThreadType, RefType
<1>2. /\ RefsUsed' = RefsUsed
      /\ \A x : RefsTo(x)' = RefsTo(x) /\ WriterRefs(x)' = WriterRefs(x)
      /\ \A f, x : HasHandle(f, x)' <=> HasHandle(f, x)
  <2>1. RefsUsed' = RefsUsed
    BY DEF RefsUsed
  <2>2. ASSUME NEW x PROVE RefsTo(x)' = RefsTo(x) /\ WriterRefs(x)' = WriterRefs(x)
    BY DEF RefsTo, WriterRefs
  <2>3. ASSUME NEW f, NEW x PROVE HasHandle(f, x)' <=> HasHandle(f, x)
    <3>1. Find(f, x, "usage")' = Find(f, x, "usage")
      BY DEF Find
    <3>2. QED
      BY <3>1 DEF HasHandle
  <2>4. QED
    BY <2>1, <2>2, <2>3
<1>3. \A f : Held(f)' <=> Held(f)
  BY HeldStays
<1>4. ASSUME NEW u \in Threads PROVE Knows(th[u])'
  <2>1. CASE u = t
    BY <2>1
  <2>2. CASE u # t
    <3>1. th'[u] = th[u] /\ Knows(th[u]) /\ Local(th[u])
      BY <2>2 DEF IInv
    <3>2. th[u].pc = "lookup_load" \/ FreesRef(th[u]) => th[u].ref \in Refs
      BY <3>1 DEF Local
    <3>3. FreesRef(th[u]) => ref'[th[u].ref] = ref[th[u].ref]
      BY <3>1, <3>2 DEF Knows
    <3>4. th[u].pc = "lookup_load" => ref'[th[u].ref].obj = ref[th[u].ref].obj
      BY <3>2
    <3>5. Relies(th[u]) => HasHandle(th[u].file, th[u].obj)'
      BY <1>2, <3>1 DEF Knows
    <3>6. /\ th[u].op = "backup" => bo[th[u].obj].backup # NULL
          /\ th[u].pc \in {"base_release", "prime_release"} =>
               base[th[u].obj].st = "live" /\ base[th[u].obj].kref = 0
      BY <3>1 DEF Knows
    <3>7. QED
      BY <3>1, <3>3, <3>4, <3>5, <3>6, KnowsStays
  <2>3. QED
    BY <2>1, <2>2
<1>5. ASSUME NEW o \in Objs PROVE BufferOK(o)' /\ DmabufNamed(o)'
  BY <1>2 DEF IInv, BufferOK, DmabufNamed
<1>6. ASSUME NEW r \in Refs PROVE RefOK(r)'
  <2>1. RefOK(r)
    BY DEF IInv
  <2>2. CASE ref[r].st = "hashed"
    BY <1>3, <2>1, <2>2 DEF RefOK
  <2>3. CASE ref[r].st # "hashed"
    BY <2>1, <2>3 DEF RefOK
  <2>4. QED
    BY <2>2, <2>3
<1>7. ASSUME NEW d \in Dmabufs PROVE DmaOK(d)'
  BY DEF IInv, DmaOK
<1>8. Counted'
  <2>1. ASSUME NEW x \in Objs
        PROVE  BaseMove(x, t, NULL, NULL) /\ BoMove(x, t) /\ WritersMove(x, t, NULL)
    <3>1. base[x].kref \in Nat /\ bo[x].kref \in Nat /\ bo[x].cpu_writers \in Nat
      BY DEF IInv, TypeOK
    <3>2. /\ t \in Owners(x)' <=> t \in Owners(x)
          /\ t \in Heirs(x)' <=> t \in Heirs(x)
          /\ t \in Writers(x)' <=> t \in Writers(x)
          /\ t \in BoHolders(x)' <=> t \in BoHolders(x)
      BY Places DEF Owes
    <3>3. RefsTo(x)' = RefsTo(x) /\ WriterRefs(x)' = WriterRefs(x) /\ DmaOf(x)' = DmaOf(x)
      BY <1>2, Unmoved
    <3>4. BaseMove(x, t, NULL, NULL)
      BY <3>1, <3>2, <3>3 DEF BaseMove, N
    <3>5. BoMove(x, t)
      BY <3>1, <3>2 DEF BoMove, N
    <3>6. WritersMove(x, t, NULL)
      BY <3>1, <3>2, <3>3 DEF WritersMove, N
    <3>7. QED
      BY <3>4, <3>5, <3>6
  <2>2. ASSUME NEW e \in Dmabufs PROVE DmaMove(e, t)
    <3>1. t \in DmaHolders(e)' <=> t \in DmaHolders(e)
      BY Places
    <3>2. QED
      BY <3>1, DmaEven DEF DmaMove, N
  <2>3. ASSUME NEW g \in Files PROVE FileMove(g, NULL)
    <3>1. /\ tf[g].kref \in Nat /\ (Held(g)' <=> Held(g)) /\ ObjsOf(g)' = ObjsOf(g)
      BY <1>3, Unmoved DEF IInv, TypeOK
    <3>2. QED
      BY <3>1 DEF FileMove, N
  <2>4. MemMove(NULL, NULL)
    BY <1>2, Unmoved DEF MemMove, N, IInv, TypeOK
  <2>5. QED
    BY <1>1, <2>1, <2>2, <2>3, <2>4, CountsMove
<1>9. QED
  BY <1>1, <1>4, <1>5, <1>6, <1>7, <1>8, Together

\* ttm_ref_object_add finds a reference object.
LEMMA RefFoundInv ==
  ASSUME Careful, IInv, NEW t \in Threads, RefFind(t), Return(t, "existed"),
         Find(th[t].file, th[t].obj, th[t].type) # {},
         \A r \in Find(th[t].file, th[t].obj, th[t].type) : ref[r].kref < MaxDup,
         ref' = [r \in Refs |-> IF r \in Find(th[t].file, th[t].obj, th[t].type)
                                THEN [ref[r] EXCEPT !.kref = @ + 1] ELSE ref[r]]
  PROVE  IInv'
<1>1. /\ th[t].pc = "ref_find" /\ th[t].op \in {"alloc", "grab", "import", "backup"}
      /\ th[t] \in ThreadType /\ Local(th[t]) /\ Knows(th[t]) /\ th \in [Threads -> ThreadType]
      /\ UNCHANGED <<base, bo, dma, tf, mem>>
  BY Here DEF RefFind, At, Local, InCall, Adding, Dropping, Heir
<1>2. PICK F : /\ F = Find(th[t].file, th[t].obj, th[t].type)
               /\ \A r \in F : r \in Refs /\ ref[r].st = "hashed" /\ ref[r].kref < MaxDup
  BY DEF Find
<1>3. /\ ref' \in [Refs -> RefType]
      /\ \A q \in Refs : /\ ref'[q].st = ref[q].st /\ ref'[q].tfile = ref[q].tfile
                         /\ ref'[q].key = ref[q].key /\ ref'[q].type = ref[q].type
                         /\ ref'[q].obj = ref[q].obj
                         /\ ref[q].st # "hashed" => ref'[q] = ref[q]
                         /\ ref[q].st = "hashed" => ref'[q].kref > 0
  <2>1. ref \in [Refs -> RefType]
    BY DEF IInv, TypeOK, RefType
  <2>2. ASSUME NEW q \in Refs
        PROVE  /\ ref'[q] \in RefType
               /\ ref'[q].st = ref[q].st /\ ref'[q].tfile = ref[q].tfile
               /\ ref'[q].key = ref[q].key /\ ref'[q].type = ref[q].type
               /\ ref'[q].obj = ref[q].obj
               /\ ref[q].st # "hashed" => ref'[q] = ref[q]
               /\ ref[q].st = "hashed" => ref'[q].kref > 0
    <3>1. RefOK(q) /\ ref[q] \in RefType /\ ref[q].kref \in Nat /\ MaxDup \in Nat
      BY <2>1, ObjectAssumption DEF IInv, RefType
    <3>2. CASE q \in F
      <4>1. ref'[q] = [ref[q] EXCEPT !.kref = @ + 1]
        BY <1>2, <3>2
      <4>2. ref[q].kref + 1 \in 0..MaxDup /\ ref[q].kref + 1 > 0
        BY <1>2, <3>1, <3>2
      <4>3. QED
        BY <1>2, <3>1, <3>2, <4>1, <4>2 DEF RefType
    <3>3. CASE q \notin F
      <4>1. ref'[q] = ref[q]
        BY <1>2, <3>3
      <4>2. QED
        BY <3>1, <4>1 DEF RefOK
    <3>4. QED
      BY <3>2, <3>3
  <2>3. QED
    BY <2>1, <2>2
<1>4. CASE th[t].op = "backup"
  <2>1. th' = [th EXCEPT ![t] = Idle]
    BY <1>4 DEF Return, AfterAdd
  <2>2. /\ th' \in [Threads -> ThreadType] /\ \A u \in Threads \ {t} : th'[u] = th[u]
        /\ th'[t] = Idle
    BY <1>1, <2>1, IdleIs
  <2>3. /\ ~Owes(t) /\ ~Owes(t)' /\ ~HoldsDma(th[t]) /\ ~HoldsDma(th'[t])
    BY <1>1, <1>4, <2>2 DEF Idle, Owes, Owns, At, Writes, Grabbing, HoldsBo, HoldsDma, Adding, Dropping
  <2>4. th[t].op # "close" /\ th'[t].op # "close"
    BY <1>1, <2>2 DEF Idle
  <2>5. Knows(th[t])'
    BY <2>2 DEF Idle, Knows, OfFile, PreInit, Relies, FreesRef, HoldsDma
  <2>6. QED
    BY <1>1, <1>3, <2>2, <2>3, <2>4, <2>5, IdleIs, RefCountStep DEF Owes
<1>5. CASE th[t].op # "backup"
  <2>1. PICK pc \in {"inited", "grabbed", "dma_buf_put"} :
          /\ th' = [th EXCEPT ![t].pc = pc, ![t].ret = "existed"]
          /\ \/ th[t].op = "alloc" /\ pc = "inited"
             \/ th[t].op = "grab" /\ pc = "grabbed"
             \/ th[t].op = "import" /\ pc = "dma_buf_put"
    BY <1>1, <1>5 DEF Return, AfterAdd
  <2>2. PICK w \in ThreadType : w = [th[t] EXCEPT !.pc = pc, !.ret = "existed"]
    BY <1>1, <2>1 DEF ThreadType, Steps
  <2>3. /\ th' \in [Threads -> ThreadType] /\ \A u \in Threads \ {t} : th'[u] = th[u]
        /\ th'[t] = w
    BY <1>1, <2>1, <2>2
  <2>4. /\ w.op = th[t].op /\ w.file = th[t].file /\ w.obj = th[t].obj /\ w.type = th[t].type
        /\ w.dma = th[t].dma /\ w.ref = th[t].ref /\ w.pc = pc /\ w.ret = "existed"
    BY <1>1, <2>2 DEF ThreadType
  <2>5. Local(w)
    BY <1>1, <2>1, <2>4 DEF Local, InCall, FreesRef, HoldsDma, Adding, Dropping, Heir
  <2>6. Knows(th[t])'
    <3>1. th[t].op = "alloc" => HasHandle(th[t].file, th[t].obj)'
      <4>1. Find(th[t].file, th[t].obj, "usage")' = Find(th[t].file, th[t].obj, "usage")
        BY <1>3, <2>3, <2>4 DEF Find
      <4>2. QED
        BY <1>1, <4>1 DEF HasHandle, Local
    <3>2. QED
      BY <1>1, <2>1, <2>3, <2>4, <3>1 DEF Knows, OfFile, PreInit, Relies, FreesRef, HoldsDma,
         Adding, Dropping
  <2>7. ASSUME NEW u \in Threads \ {t} PROVE Apart(w, th[u]) /\ Apart(th[u], w)
    <3>1. Apart(th[t], th[u]) /\ Apart(th[u], th[t])
      BY DEF IInv
    <3>2. QED
      BY <1>1, <2>1, <2>4, <3>1 DEF Apart, PreInit, FreesRef, Adding
  <2>8. /\ Owns(t)' <=> Owns(t)
        /\ HoldsBo(w) <=> HoldsBo(th[t])
        /\ HoldsDma(w) <=> HoldsDma(th[t])
    BY <1>1, <2>1, <2>3, <2>4 DEF Owns, HoldsBo, HoldsDma, Adding, Dropping
  <2>9. /\ ~At(t, "prime_put")' /\ ~At(t, "prime_put")
        /\ Writes(t)' <=> Writes(t)
    BY <1>1, <2>1, <2>3, <2>4 DEF Writes, Grabbing, At, Adding
  <2>10. QED
    BY <1>1, <1>3, <2>3, <2>4, <2>5, <2>6, <2>7, <2>8, <2>9, RefCountStep
<1>6. QED
  BY <1>4, <1>5

\* A handle is there until the last reference object of it goes.
LEMMA OtherHandles ==
  ASSUME NEW r \in Refs, \A q \in Refs \ {r} : ref'[q] = ref[q], NEW f, NEW x,
         ref[r].tfile # f \/ ref[r].key # x \/ ref[r].type # "usage" \/ ref[r].st # "hashed",
         HasHandle(f, x)
  PROVE  HasHandle(f, x)'
<1>1. PICK q \in Refs : /\ ref[q].st = "hashed" /\ ref[q].tfile = f /\ ref[q].key = x
                        /\ ref[q].type = "usage"
  BY DEF HasHandle, Find
<1>2. q # r /\ ref'[q] = ref[q]
  BY <1>1
<1>3. QED
  BY <1>1, <1>2 DEF HasHandle, Find

\* A reference object leaves the hash, and the thread goes on to release it.
LEMMA UnlinkInv ==
  ASSUME Careful, IInv, NEW t \in Threads, NEW r \in Refs, NEW w \in ThreadType,
         ref[r].st = "hashed", Unlink(r), th' = [th EXCEPT ![t] = w],
         UNCHANGED <<base, bo, dma, tf, mem>>,
         \/ th[t] = Idle /\ w.op = "unref" /\ tf[w.file].open
         \/ th[t].op = "close" /\ th[t].pc = "close" /\ w.op = "close",
         w.op = "close" => w.file = th[t].file,
         w.file \in Files, w.pc = ReleaseStep(r), w.ref = r, w.obj = ref[r].key, w.type = "usage",
         \A u \in Threads \ {t} : Relies(th[u]) => HasHandle(th[u].file, th[u].obj)',
         \A x \in Objs : bo[x].backup # NULL => HasHandle(bo[x].backup, x)'
  PROVE  IInv'
<1>1. /\ th \in [Threads -> ThreadType] /\ Knows(th[t])
      /\ ref \in [Refs -> RefType] /\ RefOK(r)
  BY Here DEF IInv, TypeOK, RefType
<1>2. PICK o \in Objs : o = ref[r].key
  BY <1>1 DEF RefOK
<1>3. /\ th' \in [Threads -> ThreadType] /\ \A u \in Threads \ {t} : th'[u] = th[u]
      /\ th'[t] = w
  BY <1>1
<1>4. PICK q \in RefType : q = [ref[r] EXCEPT !.st = "gone", !.kref = 0]
  <2>1. 0 \in 0..MaxDup
    BY ObjectAssumption
  <2>2. ref[r] \in RefType
    BY <1>1
  <2>3. [ref[r] EXCEPT !.st = "gone", !.kref = 0] \in RefType
    BY <2>1, <2>2 DEF RefType
  <2>4. QED
    BY <2>3
<1>5. /\ q.st = "gone" /\ q.tfile = ref[r].tfile /\ q.key = ref[r].key /\ q.type = ref[r].type
      /\ q.obj = ref[r].obj /\ q.kref = 0
  BY <1>1, <1>4 DEF RefType
<1>6. ref' = [ref EXCEPT ![r] = q]
  BY <1>1, <1>4 DEF Unlink
<1>7. /\ ref' \in [Refs -> RefType] /\ ref'[r] = q /\ \A p \in Refs \ {r} : ref'[p] = ref[p]
  BY <1>1, <1>6
<1>8. /\ ref[r].obj = o
      /\ \/ ref[r].type = "usage" /\ w.pc = "ref_clear"
         \/ ref[r].type = "synccpu_write" /\ w.pc = "ref_obj_release"
  BY <1>1, <1>2 DEF RefOK, ReleaseStep, RefType, RefTypes
<1>9. TypeOK'
  BY <1>3, <1>7 DEF IInv, TypeOK, RefType, ThreadType
<1>10. Local(w)
  BY <1>2, <1>8 DEF Local, InCall, FreesRef, HoldsDma, Adding, Dropping, Heir
<1>11. Knows(th[t])'
  <2>1. /\ OfFile(w) => tf'[w.file].open
        /\ w.op = "close" => ~tf'[w.file].open
    BY <1>1 DEF OfFile, Knows
  <2>2. QED
    BY <1>2, <1>3, <1>5, <1>7, <1>8, <2>1 DEF Knows, PreInit, Relies, FreesRef, HoldsDma,
       Adding, Dropping
<1>12. ASSUME NEW u \in Threads \ {t}
       PROVE  /\ th'[u] = th[u] /\ Knows(th[u]) /\ Local(th[u])
              /\ FreesRef(th[u]) => th[u].ref \in Refs /\ th[u].ref # r
              /\ th[u].pc = "lookup_load" => th[u].ref \in Refs
  <2>1. th'[u] = th[u] /\ Knows(th[u]) /\ Local(th[u])
    BY <1>3 DEF IInv
  <2>2. QED
    BY <2>1 DEF Knows, Local
<1>13. ASSUME NEW u \in Threads PROVE Knows(th[u])'
  <2>1. CASE u = t
    BY <1>11, <2>1
  <2>2. CASE u # t
    <3>1. /\ th'[u] = th[u] /\ Knows(th[u])
          /\ FreesRef(th[u]) => ref'[th[u].ref] = ref[th[u].ref]
          /\ th[u].pc = "lookup_load" => ref'[th[u].ref].obj = ref[th[u].ref].obj
      BY <1>5, <1>7, <1>12, <2>2
    <3>2. /\ th[u].op = "backup" => bo[th[u].obj].backup # NULL
          /\ th[u].pc \in {"base_release", "prime_release"} =>
               base[th[u].obj].st = "live" /\ base[th[u].obj].kref = 0
      BY <3>1 DEF Knows
    <3>3. Relies(th[u]) => HasHandle(th[u].file, th[u].obj)'
      BY <2>2
    <3>4. QED
      BY <3>1, <3>2, <3>3, KnowsStays
  <2>3. QED
    BY <2>1, <2>2
<1>14. ASSUME NEW u \in Threads \ {t} PROVE Apart(w, th[u]) /\ Apart(th[u], w)
  <2>1. /\ th[u].op = "close" => th[u].file # w.file
        /\ w.op = "close" => w.file # th[u].file
    <3>1. CASE w.op = "unref"
      BY <1>12, <3>1 DEF Knows
    <3>2. CASE w.op = "close"
      <4>1. Apart(th[t], th[u]) /\ Apart(th[u], th[t])
        BY DEF IInv
      <4>2. QED
        BY <3>2, <4>1 DEF Apart, Idle
    <3>3. QED
      BY <3>1, <3>2
  <2>2. QED
    BY <1>8, <1>12, <2>1 DEF Apart, PreInit
<1>15. \A f : Held(f)' <=> Held(f)
  BY <1>3, HeldStays DEF Idle
<1>16. ASSUME NEW x \in Objs PROVE BufferOK(x)' /\ DmabufNamed(x)'
  BY DEF IInv, BufferOK, DmabufNamed
<1>17. ASSUME NEW p \in Refs PROVE RefOK(p)'
  <2>1. CASE p = r
    BY <1>5, <1>7, <2>1 DEF RefOK
  <2>2. CASE p # r
    BY <1>7, <1>15, <2>2 DEF IInv, RefOK
  <2>3. QED
    BY <2>1, <2>2
<1>18. ASSUME NEW d \in Dmabufs PROVE DmaOK(d)'
  BY DEF IInv, DmaOK
<1>19. Counted'
  <2>1. /\ ~Owns(t) /\ ~Owns(t)' /\ ~At(t, "prime_put") /\ ~At(t, "prime_put")'
        /\ ~Writes(t) /\ (Writes(t)' <=> ref[r].type = "synccpu_write")
        /\ ~HoldsBo(th[t]) /\ ~HoldsBo(th'[t]) /\ ~HoldsDma(th[t]) /\ ~HoldsDma(th'[t])
        /\ th'[t].obj = o
    BY <1>2, <1>3, <1>8 DEF Idle, Owns, At, Writes, Grabbing, HoldsBo, HoldsDma, Adding, Dropping
  <2>2. ASSUME NEW x \in Objs PROVE BaseMove(x, t, r, NULL) /\ BoMove(x, t) /\ WritersMove(x, t, r)
    <3>1. /\ base[x].kref \in Nat /\ bo[x].kref \in Nat /\ bo[x].cpu_writers \in Nat
          /\ DmaOf(x)' = DmaOf(x)
      BY Unmoved DEF IInv, TypeOK
    <3>2. /\ r \in RefsTo(x)' <=> r \in RefsTo(x)
          /\ r \notin WriterRefs(x)'
          /\ r \in WriterRefs(x) <=> x = o /\ ref[r].type = "synccpu_write"
      BY <1>2, <1>5, <1>7 DEF RefsTo, WriterRefs
    <3>3. BaseMove(x, t, r, NULL)
      BY <2>1, <3>1, <3>2, Places DEF BaseMove, N
    <3>4. BoMove(x, t)
      BY <2>1, <3>1, Places DEF BoMove, N
    <3>5. WritersMove(x, t, r)
      BY <2>1, <3>1, <3>2, Places DEF WritersMove, N
    <3>6. QED
      BY <3>3, <3>4, <3>5
  <2>3. ASSUME NEW e \in Dmabufs PROVE DmaMove(e, t)
    BY <2>1, DmaEven, Places DEF DmaMove, N
  <2>4. ASSUME NEW g \in Files PROVE FileMove(g, NULL)
    <3>1. /\ tf[g].kref \in Nat /\ (Held(g)' <=> Held(g)) /\ ObjsOf(g)' = ObjsOf(g)
      BY <1>15, Unmoved DEF IInv, TypeOK
    <3>2. QED
      BY <3>1 DEF FileMove, N
  <2>5. MemMove(r, NULL)
    <3>1. (r \in RefsUsed' <=> r \in RefsUsed) /\ DmaUsed' = DmaUsed
      BY <1>5, <1>7, Unmoved DEF RefsUsed
    <3>2. QED
      BY <3>1 DEF MemMove, N, IInv, TypeOK
  <2>6. QED
    BY <1>3, <1>7, <1>9, <2>2, <2>3, <2>4, <2>5, CountsMove
<1>20. QED
  BY <1>3, <1>9, <1>10, <1>13, <1>14, <1>16, <1>17, <1>18, <1>19, Together

\* A handle is given up, or one of the references to it.
LEMMA UnrefInv ==
  ASSUME Careful, IInv, NEW t \in Threads, NEW f \in Files, NEW o \in Objs, NEW type \in RefTypes,
         ttm_ref_object_base_unref(t, f, o, type)
  PROVE  IInv'
<1>1. /\ th[t] = Idle /\ th \in [Threads -> ThreadType] /\ tf[f].open
      /\ UNCHANGED <<base, bo, dma, tf, mem>>
      /\ type = "usage" => MayDrop(f, o)
  BY Here DEF ttm_ref_object_base_unref, At
<1>2. PICK r \in Find(f, o, type) :
        IF ref[r].kref > 1
        THEN ref' = [ref EXCEPT ![r].kref = @ - 1] /\ th' = th
        ELSE /\ Unlink(r)
             /\ th' = [th EXCEPT ![t] = [Idle EXCEPT !.op = "unref", !.file = f, !.obj = o, !.ref = r,
                                                     !.pc = ReleaseStep(r)]]
  BY DEF ttm_ref_object_base_unref
<1>3. /\ r \in Refs /\ ref[r].st = "hashed" /\ ref[r].tfile = f /\ ref[r].key = o /\ ref[r].type = type
      /\ ref \in [Refs -> RefType]
  BY <1>2 DEF Find, IInv, TypeOK, RefType
<1>4. CASE ref[r].kref > 1
  <2>1. ref' = [ref EXCEPT ![r].kref = @ - 1] /\ th' = th
    BY <1>2, <1>4
  <2>2. PICK q \in RefType : q = [ref[r] EXCEPT !.kref = @ - 1]
    <3>1. ref[r].kref - 1 \in 0..MaxDup
      BY <1>3, <1>4, ObjectAssumption DEF RefType
    <3>2. [ref[r] EXCEPT !.kref = @ - 1] \in RefType
      BY <1>3, <3>1 DEF RefType
    <3>3. QED
      BY <3>2
  <2>3. /\ q.st = ref[r].st /\ q.tfile = ref[r].tfile /\ q.key = ref[r].key
        /\ q.type = ref[r].type /\ q.obj = ref[r].obj /\ q.kref > 0
    BY <1>3, <1>4, <2>2, ObjectAssumption DEF RefType
  <2>4. ref' = [ref EXCEPT ![r] = q]
    BY <1>3, <2>1, <2>2
  <2>5. /\ ref' \in [Refs -> RefType]
        /\ \A p \in Refs : /\ ref'[p].st = ref[p].st /\ ref'[p].tfile = ref[p].tfile
                           /\ ref'[p].key = ref[p].key /\ ref'[p].type = ref[p].type
                           /\ ref'[p].obj = ref[p].obj
                           /\ ref[p].st # "hashed" => ref'[p] = ref[p]
                           /\ ref[p].st = "hashed" => ref'[p].kref > 0
    <3>1. \A p \in Refs : ref[p].st = "hashed" => ref[p].kref > 0
      BY DEF IInv, RefOK
    <3>2. QED
      BY <1>3, <2>3, <2>4, <3>1
  <2>6. /\ Local(th'[t]) /\ th[t].op # "close" /\ th'[t].op # "close"
        /\ \A u \in Threads \ {t} : Apart(th'[t], th[u]) /\ Apart(th[u], th'[t])
    BY <1>1, <2>1, IdleIs DEF Idle
  <2>7. Knows(th[t])'
    BY <1>1, <2>1 DEF Idle, Knows, OfFile, PreInit, Relies, FreesRef, HoldsDma
  <2>8. /\ Owns(t)' <=> Owns(t)
        /\ At(t, "prime_put")' <=> At(t, "prime_put")
        /\ Writes(t)' <=> Writes(t)
    BY <2>1 DEF Owns, At, Writes, Grabbing
  <2>9. QED
    BY <1>1, <2>1, <2>5, <2>6, <2>7, <2>8, RefCountStep
<1>5. CASE ~(ref[r].kref > 1)
  <2>1. /\ Unlink(r)
        /\ th' = [th EXCEPT ![t] = [Idle EXCEPT !.op = "unref", !.file = f, !.obj = o, !.ref = r,
                                                !.pc = ReleaseStep(r)]]
    BY <1>2, <1>5
  <2>2. PICK w \in ThreadType : w = [Idle EXCEPT !.op = "unref", !.file = f, !.obj = o, !.ref = r,
                                                 !.pc = ReleaseStep(r)]
    <3>1. ReleaseStep(r) \in Steps /\ "unref" \in Ops
      BY DEF ReleaseStep, Steps, Ops
    <3>2. QED
      BY <1>3, <3>1 DEF ThreadType, Idle, RefTypes
  <2>3. /\ w.op = "unref" /\ w.file = f /\ w.obj = o /\ w.ref = r /\ w.pc = ReleaseStep(r)
        /\ w.type = "usage"
    BY <2>2 DEF Idle
  <2>4. \A p \in Refs \ {r} : ref'[p] = ref[p]
    BY <1>3, <2>1 DEF Unlink
  <2>5. ASSUME NEW u \in Threads \ {t}, Relies(th[u]) PROVE HasHandle(th[u].file, th[u].obj)'
    <3>1. HasHandle(th[u].file, th[u].obj) /\ th[u].op \in {"alloc", "grab"} /\ th'[u] = th[u]
      BY <1>1, <2>1, <2>5 DEF IInv, Knows, Relies
    <3>2. type = "usage" => ~(th[u].file = f /\ th[u].obj = o)
      BY <1>1, <3>1 DEF MayDrop, Careful
    <3>3. HasHandle(th[u].file, th[u].obj) => HasHandle(th[u].file, th[u].obj)'
      <4>1. PICK g : g = th[u].file
        OBVIOUS
      <4>2. PICK x : x = th[u].obj
        OBVIOUS
      <4>3. HasHandle(g, x) => HasHandle(g, x)'
        BY <1>3, <2>4, <3>2, <4>1, <4>2, OtherHandles
      <4>4. QED
        BY <3>1, <4>1, <4>2, <4>3
    <3>4. QED
      BY <3>1, <3>3
  <2>6. ASSUME NEW x \in Objs, bo[x].backup # NULL PROVE HasHandle(bo[x].backup, x)'
    <3>1. PICK g : g = bo[x].backup
      OBVIOUS
    <3>2. HasHandle(g, x)
      BY <2>6, <3>1 DEF IInv, BufferOK
    <3>3. type = "usage" => ~(g = f /\ x = o)
      BY <1>1, <3>1 DEF MayDrop, Careful
    <3>4. HasHandle(g, x)'
      BY <1>3, <2>4, <3>2, <3>3, OtherHandles
    <3>5. QED
      BY <1>1, <3>1, <3>4
  <2>7. th' = [th EXCEPT ![t] = w]
    BY <2>1, <2>2
  <2>8. w.op # "close" /\ w.file \in Files /\ w.obj = ref[r].key /\ tf[w.file].open
    BY <1>1, <1>3, <2>3
  <2>9. /\ \A u \in Threads \ {t} : Relies(th[u]) => HasHandle(th[u].file, th[u].obj)'
        /\ \A x \in Objs : bo[x].backup # NULL => HasHandle(bo[x].backup, x)'
    BY <2>5, <2>6
  <2>10. QED
    BY <1>1, <1>3, <2>1, <2>3, <2>7, <2>8, <2>9, UnlinkInv
<1>6. QED
  BY <1>4, <1>5

\* ttm_object_file_release: every reference object of the file is released, then
\* the file itself.
LEMMA FileReleaseInv ==
  ASSUME Careful, IInv, NEW t \in Threads, ttm_object_file_release(t)
  PROVE  IInv'
<1>1. /\ th[t].pc = "close" /\ th[t].op = "close" /\ th[t].file \in Files
      /\ th[t] \in ThreadType /\ Local(th[t]) /\ Knows(th[t]) /\ th \in [Threads -> ThreadType]
      /\ UNCHANGED <<base, bo, dma, mem>>
  BY Here DEF ttm_object_file_release, At, Local, InCall, Adding, Dropping, Heir
<1>2. PICK f \in Files : f = th[t].file
  BY <1>1
<1>3. ~tf[f].open /\ tf \in [Files -> [open : BOOLEAN, kref : Nat]]
  BY <1>1, <1>2 DEF Knows, IInv, TypeOK
<1>4. ASSUME NEW u \in Threads \ {t}
      PROVE  /\ Knows(th[u]) /\ Local(th[u])
             /\ OfFile(th[u]) \/ th[u].op = "close" => th[u].file \in Files /\ th[u].file # f
  <2>1. Knows(th[u]) /\ Local(th[u]) /\ Apart(th[u], th[t])
    BY DEF IInv
  <2>2. QED
    BY <1>1, <1>2, <1>3, <2>1 DEF Knows, Local, OfFile, Apart
<1>5. ASSUME NEW x \in Objs, bo[x].backup # NULL
      PROVE  bo[x].backup \in Files /\ bo[x].backup # f /\ HasHandle(bo[x].backup, x)
             /\ tf[bo[x].backup].open
  BY <1>3, <1>5 DEF IInv, BufferOK, TypeOK
<1>6. CASE \E r \in Refs : /\ ref[r].st = "hashed" /\ ref[r].tfile = f
                           /\ Unlink(r) /\ tf' = tf
                           /\ th' = [th EXCEPT ![t].obj = ref[r].key, ![t].ref = r,
                                               ![t].pc = ReleaseStep(r)]
  <2>1. PICK r \in Refs : /\ ref[r].st = "hashed" /\ ref[r].tfile = f
                          /\ Unlink(r) /\ tf' = tf
                          /\ th' = [th EXCEPT ![t].obj = ref[r].key, ![t].ref = r,
                                              ![t].pc = ReleaseStep(r)]
    BY <1>6
  <2>2. PICK w \in ThreadType : w = [th[t] EXCEPT !.obj = ref[r].key, !.ref = r, !.pc = ReleaseStep(r)]
    <3>1. ReleaseStep(r) \in Steps /\ ref[r].key \in Objs
      BY <2>1 DEF ReleaseStep, Steps, IInv, RefOK
    <3>2. [th[t] EXCEPT !.obj = ref[r].key, !.ref = r, !.pc = ReleaseStep(r)] \in ThreadType
      BY <1>1, <3>1 DEF ThreadType
    <3>3. QED
      BY <3>2
  <2>3. /\ w.op = "close" /\ w.file = th[t].file /\ w.obj = ref[r].key /\ w.ref = r
        /\ w.pc = ReleaseStep(r) /\ w.type = "usage"
    BY <1>1, <2>2 DEF ThreadType, Local
  <2>4. th' = [th EXCEPT ![t] = w]
    BY <1>1, <2>1, <2>2
  <2>5. /\ \A p \in Refs \ {r} : ref'[p] = ref[p]
        /\ \A u \in Threads \ {t} : th'[u] = th[u]
    BY <1>1, <2>1, <2>4 DEF Unlink, IInv, TypeOK
  <2>6. ASSUME NEW u \in Threads \ {t}, Relies(th[u]) PROVE HasHandle(th[u].file, th[u].obj)'
    <3>1. PICK g : g = th[u].file
      OBVIOUS
    <3>2. PICK x : x = th[u].obj
      OBVIOUS
    <3>3. HasHandle(g, x) /\ g # f
      BY <1>4, <2>6, <3>1, <3>2 DEF Knows, Relies, OfFile
    <3>4. HasHandle(g, x)'
      BY <2>1, <2>5, <3>3, OtherHandles
    <3>5. QED
      BY <2>5, <3>1, <3>2, <3>4
  <2>7. ASSUME NEW x \in Objs, bo[x].backup # NULL PROVE HasHandle(bo[x].backup, x)'
    <3>1. PICK g : g = bo[x].backup
      OBVIOUS
    <3>2. HasHandle(g, x)'
      BY <1>5, <2>1, <2>5, <2>7, <3>1, OtherHandles
    <3>3. QED
      BY <1>1, <3>1, <3>2
  <2>8. QED
    BY <1>1, <2>1, <2>3, <2>4, <2>6, <2>7, UnlinkInv
<1>7. CASE /\ {r \in Refs : ref[r].st = "hashed" /\ ref[r].tfile = f} = {}
           /\ Continue(t, "idle") /\ tf' = [tf EXCEPT ![f].kref = @ - 1] /\ ref' = ref
  <2>1. /\ th' \in [Threads -> ThreadType] /\ \A u \in Threads \ {t} : th'[u] = th[u]
        /\ th'[t] = Idle
    BY <1>1, <1>7, GoesOn DEF Steps
  <2>2. /\ ~Owns(t) /\ ~Owns(t)' /\ ~At(t, "prime_put") /\ ~At(t, "prime_put")'
        /\ ~Writes(t) /\ ~Writes(t)' /\ ~HoldsBo(th[t]) /\ ~HoldsBo(th'[t])
        /\ ~HoldsDma(th[t]) /\ ~HoldsDma(th'[t])
    BY <1>1, <2>1 DEF Idle, Owns, At, Writes, Grabbing, HoldsBo, HoldsDma, Adding, Dropping
  <2>3. Held(f) /\ tf[f].kref \in Nat /\ tf[f].kref > 0
    <3>1. Held(f)
      BY <1>1, <1>2 DEF Held, Closing
    <3>2. FileCounted(f) /\ Cardinality(ObjsOf(f)) \in Nat
      BY Finite, FS_CardinalityType DEF IInv, Counted
    <3>3. QED
      BY <3>1, <3>2, <1>3 DEF FileCounted
  <2>4. /\ tf' \in [Files -> [open : BOOLEAN, kref : Nat]] /\ tf'[f].kref = tf[f].kref - 1
        /\ \A g \in Files : tf'[g].open = tf[g].open
        /\ \A g \in Files \ {f} : tf'[g] = tf[g]
    <3>1. PICK q \in [open : BOOLEAN, kref : Nat] : q = [tf[f] EXCEPT !.kref = @ - 1]
      <4>1. tf[f].kref - 1 \in Nat
        BY <2>3
      <4>2. QED
        BY <1>3, <4>1
    <3>2. q.open = tf[f].open /\ q.kref = tf[f].kref - 1
      BY <1>3, <3>1
    <3>3. tf' = [tf EXCEPT ![f] = q]
      BY <1>3, <1>7, <3>1
    <3>4. QED
      BY <1>3, <3>2, <3>3
  <2>5. ~Held(f)' /\ \A g \in Files \ {f} : Held(g)' <=> Held(g)
    <3>1. ~Closing(f)'
      BY <1>4, <2>1 DEF Closing, Idle
    <3>2. ASSUME NEW g \in Files \ {f} PROVE Closing(g)' <=> Closing(g)
      <4>1. \A u \in Threads : th[u].op = "close" /\ th[u].file = g => u # t
        BY <1>2
      <4>2. \A u \in Threads : th'[u].op = "close" => u # t
        BY <2>1 DEF Idle
      <4>3. QED
        BY <2>1, <4>1, <4>2 DEF Closing
    <3>3. QED
      BY <1>3, <2>4, <3>1, <3>2 DEF Held
  <2>6. TypeOK'
    BY <1>1, <1>7, <2>1, <2>4 DEF IInv, TypeOK, ThreadType
  <2>7. ASSUME NEW u \in Threads PROVE Knows(th[u])'
    <3>1. CASE u = t
      BY <2>1, <3>1 DEF Idle, Knows, OfFile, PreInit, Relies, FreesRef, HoldsDma
    <3>2. CASE u # t
      <4>1. /\ th'[u] = th[u] /\ Knows(th[u])
            /\ OfFile(th[u]) \/ th[u].op = "close" => tf'[th[u].file].open = tf[th[u].file].open
        BY <1>4, <2>1, <2>4, <3>2
      <4>2. /\ th[u].op = "backup" => bo[th[u].obj].backup # NULL
            /\ th[u].pc \in {"base_release", "prime_release"} =>
                 base[th[u].obj].st = "live" /\ base[th[u].obj].kref = 0
        BY <4>1 DEF Knows
      <4>3. Relies(th[u]) => HasHandle(th[u].file, th[u].obj)'
        BY <1>7, <4>1, Unmoved DEF Knows
      <4>4. QED
        BY <1>1, <1>7, <4>1, <4>2, <4>3, KnowsStays
    <3>3. QED
      BY <3>1, <3>2
  <2>8. ASSUME NEW x \in Objs PROVE BufferOK(x)' /\ DmabufNamed(x)'
    <3>1. BufferOK(x) /\ DmabufNamed(x)
      BY DEF IInv
    <3>2. bo[x].backup # NULL => tf'[bo[x].backup].open /\ HasHandle(bo[x].backup, x)'
      BY <1>1, <1>5, <1>7, <2>4, Unmoved
    <3>3. QED
      BY <1>1, <3>1, <3>2 DEF BufferOK, DmabufNamed
  <2>9. ASSUME NEW r \in Refs PROVE RefOK(r)'
    <3>1. RefOK(r) /\ ref'[r] = ref[r] /\ (ref[r].st = "hashed" => ref[r].tfile # f)
      BY <1>7 DEF IInv
    <3>2. QED
      BY <2>5, <3>1 DEF RefOK
  <2>10. ASSUME NEW d \in Dmabufs PROVE DmaOK(d)'
    BY <1>1 DEF IInv, DmaOK
  <2>11. Counted'
    <3>1. ASSUME NEW x \in Objs
          PROVE  BaseMove(x, t, NULL, NULL) /\ BoMove(x, t) /\ WritersMove(x, t, NULL)
      <4>1. base[x].kref \in Nat /\ bo[x].kref \in Nat /\ bo[x].cpu_writers \in Nat
        BY DEF IInv, TypeOK
      <4>2. /\ RefsTo(x)' = RefsTo(x) /\ WriterRefs(x)' = WriterRefs(x) /\ DmaOf(x)' = DmaOf(x)
        BY <1>1, <1>7, Unmoved
      <4>3. QED
        BY <1>1, <2>2, <4>1, <4>2, Places DEF BaseMove, BoMove, WritersMove, N
    <3>2. ASSUME NEW e \in Dmabufs PROVE DmaMove(e, t)
      BY <1>1, <2>2, DmaEven, Places DEF DmaMove, N
    <3>3. ASSUME NEW g \in Files PROVE FileMove(g, NULL)
      <4>1. tf[g].kref \in Nat /\ ObjsOf(g)' = ObjsOf(g)
        BY <1>1, Unmoved DEF IInv, TypeOK
      <4>2. CASE g = f
        BY <2>3, <2>4, <2>5, <4>1, <4>2 DEF FileMove, N
      <4>3. CASE g # f
        BY <2>4, <2>5, <4>1, <4>3 DEF FileMove, N
      <4>4. QED
        BY <4>2, <4>3
    <3>4. MemMove(NULL, NULL)
      BY <1>1, <1>7, Unmoved DEF MemMove, N, IInv, TypeOK
    <3>5. QED
      BY <1>1, <1>7, <2>1, <2>6, <3>1, <3>2, <3>3, <3>4, CountsMove
  <2>12. Local(th'[t]) /\ \A u \in Threads \ {t} : Apart(th'[t], th[u]) /\ Apart(th[u], th'[t])
    BY <2>1, IdleIs
  <2>13. QED
    BY <2>1, <2>6, <2>7, <2>8, <2>9, <2>10, <2>11, <2>12, Together
<1>8. QED
  BY Zenon, <1>2, <1>6, <1>7 DEF ttm_object_file_release

\* A reference object that has left the hash changes, and the thread that releases it.
LEMMA GoneRefStep ==
  ASSUME Careful, IInv, NEW t \in Threads, NEW r \in Refs, NEW q \in RefType,
         FreesRef(th[t]), th[t].ref = r,
         ref' = [ref EXCEPT ![r] = q], q.st # "hashed", q.obj = NULL, q.st = "free" => q = NoRef,
         mem' = mem + (IF q.st = "free" THEN -1 ELSE 0),
         UNCHANGED <<base, bo, dma, tf>>,
         \A u \in Threads \ {t} : th'[u] = th[u], th' \in [Threads -> ThreadType],
         Local(th'[t]), Knows(th[t])',
         \A u \in Threads \ {t} : Apart(th'[t], th[u]) /\ Apart(th[u], th'[t]),
         th'[t].op = "close" <=> th[t].op = "close", th'[t].op = "close" => th'[t].file = th[t].file,
         th'[t].obj = th[t].obj \/ ~Owns(t)', ~Owns(t),
         Owns(t)' <=> ref[r].obj # NULL, ref[r].obj # NULL => ref[r].obj = th[t].obj,
         ~At(t, "prime_put"), ~At(t, "prime_put")', ~Writes(t), ~Writes(t)',
         ~HoldsBo(th[t]), ~HoldsBo(th'[t]), ~HoldsDma(th[t]), ~HoldsDma(th'[t])
  PROVE  IInv'
<1>1. ref \in [Refs -> RefType] /\ ref[r].st = "gone" /\ mem \in Nat
  BY DEF IInv, TypeOK, RefType, Knows
<1>2. /\ ref' \in [Refs -> RefType] /\ ref'[r] = q /\ \A p \in Refs \ {r} : ref'[p] = ref[p]
  BY <1>1
<1>3. mem' \in Nat
  <2>1. Moves(RefsUsed, RefsUsed, r) /\ Moves(DmaUsed, DmaUsed, r) /\ r \in RefsUsed
    BY <1>1, Finite, OneMoves DEF RefsUsed
  <2>2. mem > 0
    BY <2>1 DEF Moves, IInv, Counted
  <2>3. QED
    BY <1>1, <2>2
<1>4. TypeOK'
  BY <1>2, <1>3 DEF IInv, TypeOK, RefType, ThreadType
<1>5. \A f, x : HasHandle(f, x) => HasHandle(f, x)'
  BY <1>1, <1>2, OtherHandles
<1>6. ASSUME NEW u \in Threads PROVE Knows(th[u])'
  <2>1. CASE u = t
    BY <2>1
  <2>2. CASE u # t
    <3>1. th'[u] = th[u] /\ Knows(th[u]) /\ Local(th[u]) /\ Apart(th[t], th[u])
      BY <2>2 DEF IInv
    <3>2. FreesRef(th[u]) => th[u].ref \in Refs /\ th[u].ref # r
      BY <3>1 DEF Local, Apart
    <3>3. th[u].pc = "lookup_load" => th[u].ref \in Refs
      BY <3>1 DEF Local
    <3>4. /\ FreesRef(th[u]) => ref'[th[u].ref] = ref[th[u].ref]
          /\ th[u].pc = "lookup_load" => ref'[th[u].ref].obj \in {ref[th[u].ref].obj, NULL}
      BY <1>2, <3>2, <3>3
    <3>5. /\ th[u].op = "backup" => bo[th[u].obj].backup # NULL
          /\ th[u].pc \in {"base_release", "prime_release"} =>
               base[th[u].obj].st = "live" /\ base[th[u].obj].kref = 0
      BY <3>1 DEF Knows
    <3>6. Relies(th[u]) => HasHandle(th[u].file, th[u].obj)'
      BY <1>5, <3>1 DEF Knows
    <3>7. QED
      BY <3>1, <3>4, <3>5, <3>6, KnowsStays
  <2>3. QED
    BY <2>1, <2>2
<1>7. \A f : Held(f)' <=> Held(f)
  BY HeldStays
<1>8. ASSUME NEW x \in Objs PROVE BufferOK(x)' /\ DmabufNamed(x)'
  BY <1>5 DEF IInv, BufferOK, DmabufNamed
<1>9. ASSUME NEW p \in Refs PROVE RefOK(p)'
  <2>1. CASE p = r
    BY <1>2, <2>1 DEF RefOK
  <2>2. CASE p # r
    BY <1>2, <1>7, <2>2 DEF IInv, RefOK
  <2>3. QED
    BY <2>1, <2>2
<1>10. ASSUME NEW d \in Dmabufs PROVE DmaOK(d)'
  BY DEF IInv, DmaOK
<1>11. Counted'
  <2>1. ASSUME NEW x \in Objs PROVE BaseMove(x, t, r, NULL) /\ BoMove(x, t) /\ WritersMove(x, t, r)
    <3>1. /\ base[x].kref \in Nat /\ bo[x].kref \in Nat /\ bo[x].cpu_writers \in Nat
          /\ DmaOf(x)' = DmaOf(x) /\ x # NULL
      BY Unmoved, ObjectAssumption DEF IInv, TypeOK
    <3>2. /\ r \notin RefsTo(x)' /\ (r \in RefsTo(x) <=> ref[r].obj = x)
          /\ r \notin WriterRefs(x)' /\ r \notin WriterRefs(x)
      BY <1>1, <1>2, <3>1 DEF RefsTo, WriterRefs
    <3>3. t \in Owners(x)' <=> r \in RefsTo(x)
      BY <3>1, <3>2, Places
    <3>4. BaseMove(x, t, r, NULL)
      BY <3>1, <3>2, <3>3, Places DEF BaseMove, N
    <3>5. BoMove(x, t)
      BY <3>1, Places DEF BoMove, N
    <3>6. WritersMove(x, t, r)
      BY <3>1, <3>2, Places DEF WritersMove, N
    <3>7. QED
      BY <3>4, <3>5, <3>6
  <2>2. ASSUME NEW e \in Dmabufs PROVE DmaMove(e, t)
    BY DmaEven, Places DEF DmaMove, N
  <2>3. ASSUME NEW g \in Files PROVE FileMove(g, NULL)
    <3>1. /\ tf[g].kref \in Nat /\ (Held(g)' <=> Held(g)) /\ ObjsOf(g)' = ObjsOf(g)
      BY <1>7, Unmoved DEF IInv, TypeOK
    <3>2. QED
      BY <3>1 DEF FileMove, N
  <2>4. MemMove(r, NULL)
    <3>1. r \in RefsUsed /\ (r \in RefsUsed' <=> q.st # "free") /\ DmaUsed' = DmaUsed
      BY <1>1, <1>2, Unmoved DEF RefsUsed
    <3>2. QED
      BY <1>1, <3>1 DEF MemMove, N
  <2>5. QED
    BY <1>2, <1>4, <2>1, <2>2, <2>3, <2>4, CountsMove
<1>12. QED
  BY <1>4, <1>6, <1>8, <1>9, <1>10, <1>11, Together

\* The reference to the base object goes from the reference object to the thread.
LEMMA RefClearInv ==
  ASSUME Careful, IInv, NEW t \in Threads, RefClear(t)
  PROVE  IInv'
<1>1. /\ th[t].pc = "ref_clear" /\ th[t].op \in {"unref", "close"} /\ th[t].obj \in Objs
      /\ th[t].ref \in Refs /\ FreesRef(th[t])
      /\ th \in [Threads -> ThreadType] /\ Local(th[t]) /\ Knows(th[t])
      /\ UNCHANGED <<base, bo, dma, tf, mem>> /\ Continue(t, "base_put")
  BY Here DEF RefClear, At, Local, InCall, FreesRef, Adding, Dropping, Heir
<1>2. PICK r \in Refs : r = th[t].ref
  BY <1>1
<1>3. /\ th' \in [Threads -> ThreadType] /\ \A u \in Threads \ {t} : th'[u] = th[u]
      /\ th'[t].op = th[t].op /\ th'[t].pc = "base_put" /\ th'[t].file = th[t].file
      /\ th'[t].obj = th[t].obj /\ th'[t].type = th[t].type
      /\ th'[t].ref = th[t].ref /\ th'[t].dma = th[t].dma
  BY <1>1, GoesOn DEF Steps
<1>4. /\ ref \in [Refs -> RefType] /\ ref[r].st = "gone" /\ ref[r].obj = th[t].obj
  BY <1>1, <1>2 DEF Knows, IInv, TypeOK, RefType
<1>5. PICK q \in RefType : q = [ref[r] EXCEPT !.obj = NULL]
  BY <1>4 DEF RefType
<1>6. q.st = "gone" /\ q.obj = NULL
  BY <1>4, <1>5 DEF RefType
<1>7. ref' = [ref EXCEPT ![r] = q]
  BY <1>2, <1>4, <1>5 DEF RefClear
<1>8. Local(th'[t])
  BY <1>1, <1>3 DEF Local, InCall, FreesRef, HoldsDma, Adding, Dropping
<1>9. Knows(th[t])'
  <2>1. ref'[r] = q
    BY <1>4, <1>7
  <2>2. QED
    BY <1>1, <1>2, <1>3, <1>6, <2>1 DEF Knows, OfFile, PreInit, Relies, FreesRef, HoldsDma, Adding, Dropping
<1>10. \A u \in Threads \ {t} : Apart(th'[t], th[u]) /\ Apart(th[u], th'[t])
  BY <1>1, <1>3, StillApart DEF FreesRef, PreInit
<1>11. /\ ~Owns(t) /\ Owns(t)' /\ ~At(t, "prime_put") /\ ~At(t, "prime_put")'
       /\ ~Writes(t) /\ ~Writes(t)' /\ ~HoldsBo(th[t]) /\ ~HoldsBo(th'[t])
       /\ ~HoldsDma(th[t]) /\ ~HoldsDma(th'[t])
  BY <1>1, <1>3 DEF Owns, At, Writes, Grabbing, HoldsBo, HoldsDma, Adding, Dropping
<1>12. /\ ref[r].obj # NULL /\ mem' = mem + (IF q.st = "free" THEN -1 ELSE 0) /\ q.st # "hashed"
       /\ q.st # "free" /\ th[t].ref = r
  BY <1>1, <1>2, <1>4, <1>6, ObjectAssumption DEF IInv, TypeOK
<1>13. QED
  BY <1>1, <1>3, <1>4, <1>6, <1>7, <1>8, <1>9, <1>10, <1>11, <1>12, GoneRefStep

\* A released reference object is freed.
LEMMA RefFreeInv ==
  ASSUME Careful, IInv, NEW t \in Threads, RefFree(t)
  PROVE  IInv'
<1>1. /\ th[t].pc = "ref_free" /\ th[t].op \in {"unref", "close"} /\ th[t].obj \in Objs
      /\ th[t].ref \in Refs /\ FreesRef(th[t]) /\ th[t] \in ThreadType
      /\ th \in [Threads -> ThreadType] /\ Local(th[t]) /\ Knows(th[t])
      /\ UNCHANGED <<base, bo, dma, tf>> /\ mem' = mem - 1
  BY Here DEF RefFree, At, Local, InCall, FreesRef, Adding, Dropping, Heir
<1>2. PICK r \in Refs : r = th[t].ref
  BY <1>1
<1>3. ref[r].obj = NULL
  BY <1>1, <1>2 DEF Knows
<1>4. /\ NoRef \in RefType /\ NoRef.st = "free" /\ NoRef.obj = NULL
  BY ObjectAssumption DEF NoRef, RefType, RefTypes
<1>5. PICK w \in ThreadType :
        /\ th' = [th EXCEPT ![t] = w]
        /\ \/ w = Idle /\ th[t].op = "unref"
           \/ w = [th[t] EXCEPT !.pc = "close", !.ref = NULL] /\ th[t].op = "close"
  <2>1. CASE th[t].op = "unref"
    <3>1. th' = [th EXCEPT ![t] = Idle]
      BY <2>1 DEF RefFree
    <3>2. QED
      BY <2>1, <3>1, IdleIs
  <2>2. CASE th[t].op = "close"
    <3>1. th' = [th EXCEPT ![t] = [th[t] EXCEPT !.pc = "close", !.ref = NULL]]
      BY <1>1, <2>2 DEF RefFree
    <3>2. [th[t] EXCEPT !.pc = "close", !.ref = NULL] \in ThreadType
      BY <1>1 DEF ThreadType, Steps
    <3>3. QED
      BY <2>2, <3>1, <3>2
  <2>3. QED
    BY <1>1, <2>1, <2>2
<1>6. /\ th' \in [Threads -> ThreadType] /\ \A u \in Threads \ {t} : th'[u] = th[u]
      /\ th'[t] = w
  BY <1>1, <1>5
<1>7. \/ w = Idle /\ th[t].op = "unref"
      \/ /\ w.op = "close" /\ th[t].op = "close" /\ w.pc = "close" /\ w.file = th[t].file
         /\ w.type = th[t].type /\ w.obj = th[t].obj
  BY <1>1, <1>5 DEF ThreadType
<1>8. Local(w)
  <2>1. CASE w = Idle
    BY <2>1, IdleIs
  <2>2. CASE w.op = "close"
    BY <1>1, <1>7, <2>2 DEF Idle, Local, InCall, FreesRef, HoldsDma, Adding, Dropping
  <2>3. QED
    BY <1>7, <2>1, <2>2
<1>9. Knows(th[t])'
  <2>1. CASE w = Idle
    BY <1>6, <2>1 DEF Idle, Knows, OfFile, PreInit, Relies, FreesRef, HoldsDma
  <2>2. CASE w.op = "close"
    BY <1>1, <1>6, <1>7, <2>2 DEF Idle, Knows, OfFile, PreInit, Relies, FreesRef, HoldsDma,
       Adding, Dropping
  <2>3. QED
    BY <1>7, <2>1, <2>2
<1>10. ASSUME NEW u \in Threads \ {t} PROVE Apart(w, th[u]) /\ Apart(th[u], w)
  <2>1. CASE w = Idle
    BY <2>1, IdleIs
  <2>2. CASE w.op = "close"
    <3>1. Apart(th[t], th[u]) /\ Apart(th[u], th[t])
      BY DEF IInv
    <3>2. QED
      BY <1>7, <2>2, <3>1 DEF Apart, Idle, FreesRef, PreInit
  <2>3. QED
    BY <1>7, <2>1, <2>2
<1>11. /\ ~Owns(t) /\ ~Owns(t)' /\ ~At(t, "prime_put") /\ ~At(t, "prime_put")'
       /\ ~Writes(t) /\ ~Writes(t)' /\ ~HoldsBo(th[t]) /\ ~HoldsBo(w)
       /\ ~HoldsDma(th[t]) /\ ~HoldsDma(w)
  <2>1. CASE w = Idle
    BY <1>1, <1>6, <2>1 DEF Idle, Owns, At, Writes, Grabbing, HoldsBo, HoldsDma, Adding, Dropping
  <2>2. CASE w.op = "close"
    BY <1>1, <1>6, <1>7, <2>2 DEF Idle, Owns, At, Writes, Grabbing, HoldsBo, HoldsDma, Adding, Dropping
  <2>3. QED
    BY <1>7, <2>1, <2>2
<1>12. /\ w.op = "close" <=> th[t].op = "close"
       /\ w.op = "close" => w.file = th[t].file
  BY <1>7 DEF Idle
<1>13. mem' = mem + (IF NoRef.st = "free" THEN -1 ELSE 0)
  BY <1>1, <1>4 DEF IInv, TypeOK
<1>14. ref' = [ref EXCEPT ![r] = NoRef]
  BY <1>2 DEF RefFree
<1>15. QED
  BY <1>1, <1>2, <1>3, <1>4, <1>6, <1>8, <1>9, <1>10, <1>11, <1>12, <1>13, <1>14, GoneRefStep

-----------------------------------------------------------------------------
(* Dma-bufs. *)

DmaType == [st : {"none", "live"}, obj : Objs \cup {NULL}, f_count : Nat, fds : 0..MaxFds]

\* A dma-buf that somebody holds is there.
LEMMA DmaAlive ==
  ASSUME Careful, IInv, NEW d \in Dmabufs,
         \/ \E t \in Threads : th[t].dma = d /\ HoldsDma(th[t])
         \/ dma[d].fds > 0
         \/ dma[d].f_count # 0
  PROVE  dma[d].f_count > 0 /\ dma[d].st = "live" /\ dma[d].obj \in Objs
<1>1. /\ dma[d].f_count \in Nat /\ dma[d].fds \in Nat /\ Cardinality(DmaHolders(d)) \in Nat
      /\ dma[d].f_count = dma[d].fds + Cardinality(DmaHolders(d))
  BY DmaEven
<1>2. ASSUME \E t \in Threads : th[t].dma = d /\ HoldsDma(th[t]) PROVE Cardinality(DmaHolders(d)) > 0
  <2>1. PICK t \in Threads : t \in DmaHolders(d)
    BY <1>2 DEF DmaHolders
  <2>2. Moves(DmaHolders(d), DmaHolders(d), t)
    BY Finite, OneMoves
  <2>3. QED
    BY <2>1, <2>2 DEF Moves
<1>3. dma[d].f_count > 0
  BY <1>1, <1>2
<1>4. dma[d].st # "none"
  BY <1>3 DEF IInv, DmaOK, NoDma
<1>5. dma[d].st = "live"
  BY <1>4 DEF IInv, TypeOK
<1>6. QED
  BY <1>3, <1>5 DEF IInv, DmaOK

\* The references to one dma-buf change, with the thread's and the descriptors.
LEMMA DmaStep ==
  ASSUME Careful, IInv, NEW t \in Threads, \A u \in Threads \ {t} : th'[u] = th[u],
         th' \in [Threads -> ThreadType], UNCHANGED <<base, bo, ref, tf, mem>>,
         NEW d \in Dmabufs, NEW e \in DmaType, dma' = [dma EXCEPT ![d] = e],
         e.st = dma[d].st, e.obj = dma[d].obj, dma[d].f_count > 0,
         Local(th'[t]), Knows(th[t])',
         \A u \in Threads \ {t} : Apart(th'[t], th[u]) /\ Apart(th[u], th'[t]),
         th[t].op # "close", th'[t].op # "close",
         Owns(t)' <=> Owns(t), th'[t].obj = th[t].obj \/ ~Owns(t),
         ~At(t, "prime_put"), ~At(t, "prime_put")', ~Writes(t), ~Writes(t)',
         ~HoldsBo(th[t]), ~HoldsBo(th'[t]),
         HoldsDma(th[t]) => th[t].dma = d, HoldsDma(th'[t]) => th'[t].dma = d,
         e.f_count = dma[d].f_count + (e.fds - dma[d].fds)
                     + (N(HoldsDma(th'[t])) - N(HoldsDma(th[t])))
  PROVE  IInv'
<1>1. dma \in [Dmabufs -> DmaType]
  BY DEF IInv, TypeOK, DmaType
<1>2. e.f_count \in Nat /\ e.fds \in Nat
  BY ObjectAssumption DEF DmaType
<1>3. /\ dma' \in [Dmabufs -> DmaType] /\ dma'[d] = e /\ \A c \in Dmabufs \ {d} : dma'[c] = dma[c]
  BY <1>1
<1>4. \A c \in Dmabufs : dma'[c].obj = dma[c].obj /\ dma'[c].st = dma[c].st
  BY <1>3
<1>5. TypeOK'
  BY <1>3 DEF IInv, TypeOK, DmaType, ThreadType
<1>6. ASSUME NEW u \in Threads PROVE Knows(th[u])'
  <2>1. CASE u = t
    BY <2>1
  <2>2. CASE u # t
    <3>1. th'[u] = th[u] /\ Knows(th[u]) /\ Local(th[u])
      BY <2>2 DEF IInv
    <3>2. HoldsDma(th[u]) \/ th[u].pc = "dma_release" =>
            th[u].dma \in Dmabufs /\ dma'[th[u].dma].obj = dma[th[u].dma].obj
      BY <1>4, <3>1 DEF Local
    <3>3. th[u].pc = "dma_release" => dma'[th[u].dma].f_count = dma[th[u].dma].f_count
      BY <1>3, <3>1, <3>2 DEF Knows
    <3>4. /\ Relies(th[u]) => HasHandle(th[u].file, th[u].obj)'
          /\ th[u].op = "backup" => bo[th[u].obj].backup # NULL
          /\ th[u].pc \in {"base_release", "prime_release"} =>
               base[th[u].obj].st = "live" /\ base[th[u].obj].kref = 0
      BY <3>1, Unmoved DEF Knows
    <3>5. QED
      BY <3>1, <3>2, <3>3, <3>4, KnowsStays
  <2>3. QED
    BY <2>1, <2>2
<1>7. \A f : Held(f)' <=> Held(f)
  BY HeldStays
<1>8. ASSUME NEW x \in Objs PROVE BufferOK(x)' /\ DmabufNamed(x)'
  <2>1. BufferOK(x) /\ DmabufNamed(x) /\ base[x].dma_buf \in Dmabufs \cup {NULL}
    BY DEF IInv, TypeOK
  <2>2. BufferOK(x)'
    BY <2>1, Unmoved DEF BufferOK
  <2>3. \A c \in Dmabufs : dma'[c].f_count # 0 => dma[c].f_count # 0
    BY <1>3
  <2>4. DmabufNamed(x)'
    BY <1>4, <2>1, <2>3 DEF DmabufNamed
  <2>5. QED
    BY <2>2, <2>4
<1>9. ASSUME NEW r \in Refs PROVE RefOK(r)'
  BY <1>7 DEF IInv, RefOK
<1>10. ASSUME NEW c \in Dmabufs PROVE DmaOK(c)'
  <2>1. CASE c = d
    <3>1. dma[d].st = "live" /\ dma[d].obj \in Objs
      BY DmaAlive
    <3>2. QED
      BY <1>3, <2>1, <3>1 DEF DmaOK
  <2>2. CASE c # d
    BY <1>3, <2>2 DEF IInv, DmaOK
  <2>3. QED
    BY <2>1, <2>2
<1>11. Counted'
  <2>1. ASSUME NEW x \in Objs
        PROVE  BaseMove(x, t, NULL, d) /\ BoMove(x, t) /\ WritersMove(x, t, NULL)
    <3>1. /\ base[x].kref \in Nat /\ bo[x].kref \in Nat /\ bo[x].cpu_writers \in Nat
          /\ RefsTo(x)' = RefsTo(x) /\ WriterRefs(x)' = WriterRefs(x)
      BY Unmoved DEF IInv, TypeOK
    <3>2. d \in DmaOf(x)' <=> d \in DmaOf(x)
      BY <1>4 DEF DmaOf
    <3>3. t \in Owners(x)' <=> t \in Owners(x)
      BY Places
    <3>4. BaseMove(x, t, NULL, d)
      BY <3>1, <3>2, <3>3, Places DEF BaseMove, N
    <3>5. BoMove(x, t)
      BY <3>1, Places DEF BoMove, N
    <3>6. WritersMove(x, t, NULL)
      BY <3>1, Places DEF WritersMove, N
    <3>7. QED
      BY <3>4, <3>5, <3>6
  <2>2. ASSUME NEW c \in Dmabufs PROVE DmaMove(c, t)
    <3>1. CASE c = d
      <4>1. /\ t \in DmaHolders(d) <=> HoldsDma(th[t])
            /\ t \in DmaHolders(d)' <=> HoldsDma(th'[t])
        BY Places
      <4>2. dma[d].f_count \in Nat /\ dma[d].fds \in Nat
        BY DmaEven
      <4>3. QED
        BY <1>2, <1>3, <3>1, <4>1, <4>2 DEF DmaMove, N
    <3>2. CASE c # d
      <4>1. t \notin DmaHolders(c) /\ t \notin DmaHolders(c)' /\ dma'[c] = dma[c]
        BY <1>3, <3>2, Places
      <4>2. dma[c].f_count \in Nat /\ dma[c].fds \in Nat
        BY DmaEven
      <4>3. QED
        BY <4>1, <4>2 DEF DmaMove, N
    <3>3. QED
      BY <3>1, <3>2
  <2>3. ASSUME NEW g \in Files PROVE FileMove(g, NULL)
    <3>1. /\ tf[g].kref \in Nat /\ (Held(g)' <=> Held(g)) /\ ObjsOf(g)' = ObjsOf(g)
      BY <1>7, Unmoved DEF IInv, TypeOK
    <3>2. QED
      BY <3>1 DEF FileMove, N
  <2>4. MemMove(NULL, d)
    <3>1. (d \in DmaUsed' <=> d \in DmaUsed) /\ RefsUsed' = RefsUsed /\ mem \in Nat
      BY <1>4, Unmoved DEF DmaUsed, IInv, TypeOK
    <3>2. QED
      BY <3>1 DEF MemMove, N
  <2>5. QED
    BY <1>4, <1>5, <2>1, <2>2, <2>3, <2>4, CountsMove
<1>12. QED
  BY <1>5, <1>6, <1>8, <1>9, <1>10, <1>11, Together

\* The export fails, or goes on with the dma-buf of the object.
LEMMA ExportOldInv ==
  ASSUME Careful, IInv, NEW t \in Threads, Export(t), UNCHANGED <<base, mem>>
  PROVE  IInv'
<1>1. /\ th[t].pc = "export" /\ th[t].op = "export" /\ th[t].obj \in Objs
      /\ th \in [Threads -> ThreadType] /\ th[t] \in ThreadType /\ Local(th[t]) /\ Knows(th[t])
      /\ UNCHANGED <<base, bo, ref, tf, mem>>
  BY Here DEF Export, At, Local, InCall, Adding, Dropping, Heir
<1>2. /\ Owns(t) /\ ~At(t, "prime_put") /\ ~Writes(t) /\ ~HoldsBo(th[t]) /\ ~HoldsDma(th[t])
  BY <1>1 DEF Owns, At, Writes, Grabbing, HoldsBo, HoldsDma
<1>3. CASE Continue(t, "base_put") /\ dma' = dma
  <2>1. /\ th' \in [Threads -> ThreadType] /\ \A u \in Threads \ {t} : th'[u] = th[u]
        /\ th'[t].op = th[t].op /\ th'[t].pc = "base_put" /\ th'[t].file = th[t].file
        /\ th'[t].obj = th[t].obj /\ th'[t].type = th[t].type
        /\ th'[t].ref = th[t].ref /\ th'[t].dma = th[t].dma
    BY <1>1, <1>3, GoesOn DEF Steps
  <2>2. Local(th'[t])
    BY <1>1, <2>1 DEF Local, InCall, FreesRef, HoldsDma, Adding, Dropping
  <2>3. Knows(th'[t])
    BY <1>1, <2>1 DEF Knows, OfFile, PreInit, Relies, FreesRef, HoldsDma, Adding, Dropping
  <2>4. \A u \in Threads \ {t} : Apart(th'[t], th[u]) /\ Apart(th[u], th'[t])
    BY <1>1, <2>1, StillApart DEF FreesRef, PreInit
  <2>5. /\ Owns(t)' /\ ~At(t, "prime_put")' /\ ~Writes(t)' /\ ~HoldsBo(th'[t]) /\ ~HoldsDma(th'[t])
    BY <1>1, <2>1 DEF Owns, At, Writes, Grabbing, HoldsBo, HoldsDma
  <2>6. QED
    BY <1>1, <1>2, <1>3, <2>1, <2>2, <2>3, <2>4, <2>5, ThreadOnly
<1>4. CASE ~(Continue(t, "base_put") /\ dma' = dma)
  <2>1. /\ Reusable(th[t].obj) /\ dma' = Get(base[th[t].obj].dma_buf)
        /\ th' = [th EXCEPT ![t].dma = base[th[t].obj].dma_buf, ![t].pc = "dma_buf_fd"]
    <3>1. \/ Continue(t, "base_put") /\ dma' = dma
          \/ /\ Reusable(th[t].obj) /\ dma' = Get(base[th[t].obj].dma_buf)
             /\ th' = [th EXCEPT ![t].dma = base[th[t].obj].dma_buf, ![t].pc = "dma_buf_fd"]
          \/ mem' = mem + 1
      BY Zenon DEF Export
    <3>2. mem' # mem + 1
      BY <1>1 DEF IInv, TypeOK
    <3>3. QED
      BY <1>4, <3>1, <3>2
  <2>2. PICK d \in Dmabufs : d = base[th[t].obj].dma_buf
    BY <1>1, <2>1 DEF Reusable, IInv, TypeOK
  <2>3. dma[d].f_count # 0 /\ dma[d].obj = th[t].obj
    BY <1>1, <2>1, <2>2 DEF Reusable, Doomed, IInv, DmabufNamed
  <2>4. dma[d].f_count > 0 /\ dma \in [Dmabufs -> DmaType]
    BY <2>3, DmaAlive DEF IInv, TypeOK, DmaType
  <2>5. PICK e \in DmaType : e = [dma[d] EXCEPT !.f_count = dma[d].f_count + 1]
    <3>1. PICK k \in Nat : k = dma[d].f_count + 1
      BY DmaEven
    <3>2. dma[d] \in DmaType
      BY <2>4
    <3>3. [dma[d] EXCEPT !.f_count = k] \in DmaType
      BY <3>2 DEF DmaType
    <3>4. QED
      BY <3>1, <3>3
  <2>6. /\ e.st = dma[d].st /\ e.obj = dma[d].obj /\ e.fds = dma[d].fds
        /\ e.f_count = dma[d].f_count + 1 /\ dma' = [dma EXCEPT ![d] = e]
    BY <2>1, <2>2, <2>4, <2>5 DEF DmaType, Get
  <2>7. PICK w \in ThreadType : w = [th[t] EXCEPT !.dma = d, !.pc = "dma_buf_fd"]
    BY <1>1 DEF ThreadType, Steps
  <2>8. /\ th' \in [Threads -> ThreadType] /\ \A u \in Threads \ {t} : th'[u] = th[u]
        /\ th'[t] = w
    BY <1>1, <2>1, <2>2, <2>7
  <2>9. /\ w.op = "export" /\ w.pc = "dma_buf_fd" /\ w.file = th[t].file /\ w.obj = th[t].obj
        /\ w.type = th[t].type /\ w.ref = th[t].ref /\ w.dma = d
    BY <1>1, <2>7 DEF ThreadType
  <2>10. Local(w)
    BY <1>1, <2>9 DEF Local, InCall, FreesRef, HoldsDma, Adding, Dropping
  <2>11. Knows(th[t])'
    <3>1. dma'[d] = e
      BY <2>4, <2>6
    <3>2. QED
      BY <1>1, <2>3, <2>6, <2>8, <2>9, <3>1 DEF Knows, OfFile, PreInit, Relies, FreesRef, HoldsDma,
         Adding, Dropping
  <2>12. ASSUME NEW u \in Threads \ {t} PROVE Apart(w, th[u]) /\ Apart(th[u], w)
    <3>1. Apart(th[t], th[u]) /\ Apart(th[u], th[t])
      BY DEF IInv
    <3>2. QED
      BY <1>1, <2>9, <3>1 DEF Apart, FreesRef, PreInit
  <2>13. /\ Owns(t)' /\ ~At(t, "prime_put")' /\ ~Writes(t)' /\ ~HoldsBo(w) /\ HoldsDma(w)
    BY <2>8, <2>9 DEF Owns, At, Writes, Grabbing, HoldsBo, HoldsDma
  <2>14. e.f_count = dma[d].f_count + (e.fds - dma[d].fds) + (N(HoldsDma(w)) - N(HoldsDma(th[t])))
    BY <1>2, <2>6, <2>13, DmaEven DEF N
  <2>15. QED
    BY <1>1, <1>2, <2>4, <2>6, <2>8, <2>9, <2>10, <2>11, <2>12, <2>13, <2>14, DmaStep
<1>5. QED
  BY <1>3, <1>4

\* The descriptor gets the reference, or there is none.
LEMMA DmaBufFdInv ==
  ASSUME Careful, IInv, NEW t \in Threads, DmaBufFd(t)
  PROVE  IInv'
<1>1. /\ th[t].pc = "dma_buf_fd" /\ th[t].op \in {"export", "export_new"} /\ th[t].obj \in Objs
      /\ th[t].dma \in Dmabufs
      /\ th \in [Threads -> ThreadType] /\ th[t] \in ThreadType /\ Local(th[t]) /\ Knows(th[t])
      /\ UNCHANGED <<base, bo, ref, tf, mem>>
  BY Here DEF DmaBufFd, At, Local, InCall, HoldsDma, Adding, Dropping, Heir
<1>2. /\ ~At(t, "prime_put") /\ ~Writes(t) /\ ~HoldsBo(th[t]) /\ HoldsDma(th[t])
      /\ Owns(t) <=> th[t].op = "export"
  BY <1>1 DEF Owns, At, Writes, Grabbing, HoldsBo, HoldsDma
<1>3. PICK d \in Dmabufs : d = th[t].dma
  BY <1>1
<1>4. dma[d].f_count > 0 /\ dma \in [Dmabufs -> DmaType]
  BY <1>2, <1>3, DmaAlive DEF IInv, TypeOK, DmaType
<1>5. CASE dma' = dma /\ Continue(t, "dma_buf_put")
  <2>1. /\ th' \in [Threads -> ThreadType] /\ \A u \in Threads \ {t} : th'[u] = th[u]
        /\ th'[t].op = th[t].op /\ th'[t].pc = "dma_buf_put" /\ th'[t].file = th[t].file
        /\ th'[t].obj = th[t].obj /\ th'[t].type = th[t].type
        /\ th'[t].ref = th[t].ref /\ th'[t].dma = th[t].dma
    BY <1>1, <1>5, GoesOn DEF Steps
  <2>2. Local(th'[t])
    BY <1>1, <2>1 DEF Local, InCall, FreesRef, HoldsDma, Adding, Dropping, Heir
  <2>3. Knows(th'[t])
    BY <1>1, <1>2, <2>1 DEF Knows, OfFile, PreInit, Relies, FreesRef, HoldsDma, Adding, Dropping
  <2>4. \A u \in Threads \ {t} : Apart(th'[t], th[u]) /\ Apart(th[u], th'[t])
    BY <1>1, <2>1, StillApart DEF FreesRef, PreInit
  <2>5. /\ ~At(t, "prime_put")' /\ ~Writes(t)' /\ ~HoldsBo(th'[t]) /\ HoldsDma(th'[t])
        /\ Owns(t)' <=> th[t].op = "export"
    BY <1>1, <2>1 DEF Owns, At, Writes, Grabbing, HoldsBo, HoldsDma
  <2>6. QED
    BY <1>1, <1>2, <1>5, <2>1, <2>2, <2>3, <2>4, <2>5, ThreadOnly
<1>6. CASE /\ dma[d].fds < MaxFds /\ dma' = [dma EXCEPT ![d].fds = @ + 1]
           /\ Continue(t, AfterPrime(t))
  <2>1. dma[d].fds + 1 \in 0..MaxFds
    BY <1>4, <1>6, ObjectAssumption DEF DmaType
  <2>2. PICK e \in DmaType : e = [dma[d] EXCEPT !.fds = dma[d].fds + 1]
    BY <1>4, <2>1 DEF DmaType
  <2>3. /\ e.st = dma[d].st /\ e.obj = dma[d].obj /\ e.fds = dma[d].fds + 1
        /\ e.f_count = dma[d].f_count /\ dma' = [dma EXCEPT ![d] = e]
    BY <1>4, <1>6, <2>2 DEF DmaType
  <2>4. PICK s \in {"base_put", "idle"} : /\ s = AfterPrime(t) /\ Continue(t, s)
                                          /\ s = "base_put" <=> th[t].op = "export"
    BY <1>6 DEF AfterPrime
  <2>5. /\ th' \in [Threads -> ThreadType] /\ \A u \in Threads \ {t} : th'[u] = th[u]
        /\ s = "idle" => th'[t] = Idle
        /\ s # "idle" => /\ th'[t].op = th[t].op /\ th'[t].pc = s /\ th'[t].file = th[t].file
                         /\ th'[t].obj = th[t].obj /\ th'[t].type = th[t].type
                         /\ th'[t].ref = th[t].ref /\ th'[t].dma = th[t].dma
                         /\ th'[t].ret = th[t].ret
    BY <1>1, <2>4, GoesOn DEF Steps
  <2>6. Local(th'[t])
    <3>1. CASE s = "idle"
      BY <2>5, <3>1, IdleIs
    <3>2. CASE s = "base_put"
      BY <1>1, <2>4, <2>5, <3>2 DEF Local, InCall, FreesRef, HoldsDma, Adding, Dropping
    <3>3. QED
      BY <3>1, <3>2
  <2>7. Knows(th[t])'
    <3>1. CASE s = "idle"
      BY <2>5, <3>1 DEF Idle, Knows, OfFile, PreInit, Relies, FreesRef, HoldsDma
    <3>2. CASE s = "base_put"
      BY <1>1, <2>4, <2>5, <3>2 DEF Knows, OfFile, PreInit, Relies, FreesRef, HoldsDma, Adding, Dropping
    <3>3. QED
      BY <3>1, <3>2
  <2>8. \A u \in Threads \ {t} : Apart(th'[t], th[u]) /\ Apart(th[u], th'[t])
    <3>1. CASE s = "idle"
      BY <2>5, <3>1, IdleIs
    <3>2. CASE s = "base_put"
      BY <1>1, <2>4, <2>5, <3>2, StillApart DEF FreesRef, PreInit
    <3>3. QED
      BY <3>1, <3>2
  <2>9. /\ ~At(t, "prime_put")' /\ ~Writes(t)' /\ ~HoldsBo(th'[t]) /\ ~HoldsDma(th'[t])
        /\ Owns(t)' <=> th[t].op = "export"
        /\ th'[t].op # "close" /\ (th'[t].obj = th[t].obj \/ ~Owns(t))
    <3>1. CASE s = "idle"
      BY <1>2, <2>4, <2>5, <3>1 DEF Idle, Owns, At, Writes, Grabbing, HoldsBo, HoldsDma, Adding
    <3>2. CASE s = "base_put"
      BY <1>1, <2>4, <2>5, <3>2 DEF Owns, At, Writes, Grabbing, HoldsBo, HoldsDma, Adding
    <3>3. QED
      BY <3>1, <3>2
  <2>10. e.f_count = dma[d].f_count + (e.fds - dma[d].fds) + (N(HoldsDma(th'[t])) - N(HoldsDma(th[t])))
    BY <1>2, <2>3, <2>9, DmaEven DEF N
  <2>11. QED
    BY <1>1, <1>2, <1>3, <1>4, <2>3, <2>5, <2>6, <2>7, <2>8, <2>9, <2>10, DmaStep
<1>7. QED
  BY <1>3, <1>5, <1>6 DEF DmaBufFd

\* A descriptor is closed.
LEMMA CloseFdInv ==
  ASSUME Careful, IInv, NEW t \in Threads, NEW d \in Dmabufs, CloseFd(t, d)
  PROVE  IInv'
<1>1. /\ th[t] = Idle /\ th \in [Threads -> ThreadType] /\ dma[d].fds > 0
      /\ UNCHANGED <<base, bo, ref, tf, mem>>
  BY Here DEF CloseFd, At
<1>2. /\ dma[d].f_count > 0 /\ dma \in [Dmabufs -> DmaType] /\ dma[d] \in DmaType
  BY <1>1, DmaAlive DEF IInv, TypeOK, DmaType
<1>3. PICK o \in Objs : o = dma[d].obj
  BY <1>1, DmaAlive
<1>4. /\ dma[d].f_count \in Nat /\ dma[d].fds \in 0..MaxFds /\ MaxFds \in Nat
  BY <1>2, ObjectAssumption DEF DmaType
<1>5. /\ ~Owns(t) /\ ~At(t, "prime_put") /\ ~Writes(t) /\ ~HoldsBo(th[t]) /\ ~HoldsDma(th[t])
      /\ th[t].op # "close"
  BY <1>1 DEF Idle, Owns, At, Writes, Grabbing, HoldsBo, HoldsDma
<1>6. PICK n \in 0..MaxFds : n = dma[d].fds - 1
  BY <1>1, <1>4
<1>7. PICK e \in DmaType : e = [dma[d] EXCEPT !.fds = n]
  BY <1>2 DEF DmaType
<1>8. dma' = [dma EXCEPT ![d] = [dma[d] EXCEPT !.fds = n]]
  BY <1>6, <1>2 DEF CloseFd
<1>9. /\ e.st = dma[d].st /\ e.obj = dma[d].obj /\ e.fds = n
      /\ e.f_count = dma[d].f_count /\ dma' = [dma EXCEPT ![d] = e]
  BY <1>2, <1>7, <1>8 DEF DmaType
<1>10. PICK w \in ThreadType : w = [Idle EXCEPT !.op = "close_fd", !.obj = o, !.dma = d, !.pc = "dma_buf_put"]
  BY DEF Idle, ThreadType, Ops, Steps, RefTypes
<1>11. /\ th' \in [Threads -> ThreadType] /\ \A u \in Threads \ {t} : th'[u] = th[u]
      /\ th'[t] = w
  BY <1>1, <1>3, <1>10 DEF CloseFd
<1>12. /\ w.op = "close_fd" /\ w.pc = "dma_buf_put" /\ w.file = NULL /\ w.obj = o
      /\ w.type = "usage" /\ w.dma = d
  BY <1>10 DEF Idle
<1>13. Local(w)
  BY <1>12 DEF Local, InCall, FreesRef, HoldsDma, Adding, Dropping, Heir
<1>14. Knows(th[t])'
  <2>1. dma'[d] = e
    BY <1>2, <1>9
  <2>2. QED
    BY <1>3, <1>9, <1>11, <1>12, <2>1 DEF Knows, OfFile, PreInit, Relies, FreesRef, HoldsDma
<1>15. ASSUME NEW u \in Threads \ {t} PROVE Apart(w, th[u]) /\ Apart(th[u], w)
  <2>1. th[u].op = "close" => th[u].file # NULL
    BY Here, ObjectAssumption DEF Local
  <2>2. QED
    BY <1>12, <2>1 DEF Apart, PreInit, FreesRef
<1>16. /\ ~Owns(t)' /\ ~At(t, "prime_put")' /\ ~Writes(t)' /\ ~HoldsBo(w) /\ HoldsDma(w)
  BY <1>11, <1>12 DEF Owns, At, Writes, Grabbing, HoldsBo, HoldsDma
<1>17. e.f_count = dma[d].f_count + (e.fds - dma[d].fds) + (N(HoldsDma(w)) - N(HoldsDma(th[t])))
  BY <1>4, <1>5, <1>6, <1>9, <1>16 DEF N
<1>18. QED
  BY <1>1, <1>2, <1>5, <1>9, <1>11, <1>12, <1>13, <1>14, <1>15, <1>16, <1>17, DmaStep

\* A descriptor is turned into a handle.
LEMMA FromFdInv ==
  ASSUME Careful, IInv, NEW t \in Threads, NEW d \in Dmabufs, NEW f \in Files,
         ttm_prime_fd_to_handle(t, f, d)
  PROVE  IInv'
<1>1. /\ th[t] = Idle /\ th \in [Threads -> ThreadType] /\ dma[d].fds > 0
      /\ UNCHANGED <<base, bo, ref, tf, mem>>
  BY Here DEF ttm_prime_fd_to_handle, At
<1>2. /\ dma[d].f_count > 0 /\ dma \in [Dmabufs -> DmaType] /\ dma[d] \in DmaType
  BY <1>1, DmaAlive DEF IInv, TypeOK, DmaType
<1>3. PICK o \in Objs : o = dma[d].obj
  BY <1>1, DmaAlive
<1>4. /\ dma[d].f_count \in Nat /\ dma[d].fds \in 0..MaxFds /\ MaxFds \in Nat
  BY <1>2, ObjectAssumption DEF DmaType
<1>5. /\ ~Owns(t) /\ ~At(t, "prime_put") /\ ~Writes(t) /\ ~HoldsBo(th[t]) /\ ~HoldsDma(th[t])
      /\ th[t].op # "close"
  BY <1>1 DEF Idle, Owns, At, Writes, Grabbing, HoldsBo, HoldsDma
<1>6. PICK k \in Nat : k = dma[d].f_count + 1
  BY <1>4
<1>7. PICK e \in DmaType : e = [dma[d] EXCEPT !.f_count = k]
  BY <1>2 DEF DmaType
<1>8. dma' = [dma EXCEPT ![d] = [dma[d] EXCEPT !.f_count = k]]
  BY <1>6, <1>2 DEF ttm_prime_fd_to_handle, Get
<1>9. /\ e.st = dma[d].st /\ e.obj = dma[d].obj /\ e.fds = dma[d].fds
      /\ e.f_count = k /\ dma' = [dma EXCEPT ![d] = e]
  BY <1>2, <1>7, <1>8 DEF DmaType
<1>10. PICK w \in ThreadType : w = [Idle EXCEPT !.op = "import", !.file = f, !.obj = o, !.dma = d,
                                               !.pc = "ref_find"]
  BY DEF Idle, ThreadType, Ops, Steps, RefTypes
<1>11. /\ th' \in [Threads -> ThreadType] /\ \A u \in Threads \ {t} : th'[u] = th[u]
      /\ th'[t] = w /\ tf[f].open
  BY <1>1, <1>3, <1>10 DEF ttm_prime_fd_to_handle
<1>12. /\ w.op = "import" /\ w.pc = "ref_find" /\ w.file = f /\ w.obj = o
      /\ w.type = "usage" /\ w.dma = d
  BY <1>10 DEF Idle
<1>13. Local(w)
  BY <1>12 DEF Local, InCall, FreesRef, HoldsDma, Adding, Dropping, Heir
<1>14. Knows(th[t])'
  <2>1. dma'[d] = e
    BY <1>2, <1>9
  <2>2. QED
    BY <1>1, <1>3, <1>9, <1>11, <1>12, <2>1 DEF Knows, OfFile, PreInit, Relies, FreesRef, HoldsDma, Adding
<1>15. ASSUME NEW u \in Threads \ {t} PROVE Apart(w, th[u]) /\ Apart(th[u], w)
  <2>1. th[u].op = "close" => th[u].file # f
    BY <1>11 DEF IInv, Knows
  <2>2. QED
    BY <1>12, <2>1 DEF Apart, PreInit, FreesRef, Adding
<1>16. /\ ~Owns(t)' /\ ~At(t, "prime_put")' /\ ~Writes(t)' /\ ~HoldsBo(w) /\ HoldsDma(w)
  BY <1>11, <1>12 DEF Owns, At, Writes, Grabbing, HoldsBo, HoldsDma, Adding
<1>17. e.f_count = dma[d].f_count + (e.fds - dma[d].fds) + (N(HoldsDma(w)) - N(HoldsDma(th[t])))
  BY <1>4, <1>5, <1>6, <1>9, <1>16 DEF N
<1>18. /\ Local(th'[t]) /\ \A u \in Threads \ {t} : Apart(th'[t], th[u]) /\ Apart(th[u], th'[t])
       /\ ~HoldsBo(th'[t]) /\ th'[t].op # "close" /\ (HoldsDma(th'[t]) => th'[t].dma = d)
       /\ e.f_count = dma[d].f_count + (e.fds - dma[d].fds) + (N(HoldsDma(th'[t])) - N(HoldsDma(th[t])))
  BY <1>11, <1>12, <1>13, <1>15, <1>16, <1>17
<1>19. QED
  BY <1>1, <1>2, <1>5, <1>9, <1>11, <1>14, <1>16, <1>18, DmaStep

\* A reference to a dma-buf is dropped; one thread drops the last.
LEMMA DmaBufPutInv ==
  ASSUME Careful, IInv, NEW t \in Threads, DmaBufPut(t)
  PROVE  IInv'
<1>1. /\ th[t].pc = "dma_buf_put" /\ th[t].op \in {"export", "export_new", "import", "close_fd"}
      /\ th[t].obj \in Objs /\ th[t].dma \in Dmabufs
      /\ th \in [Threads -> ThreadType] /\ th[t] \in ThreadType /\ Local(th[t]) /\ Knows(th[t])
      /\ UNCHANGED <<base, bo, ref, tf, mem>>
  BY Here DEF DmaBufPut, At, Local, InCall, HoldsDma, Adding, Dropping, Heir
<1>2. /\ ~At(t, "prime_put") /\ ~Writes(t) /\ ~HoldsBo(th[t]) /\ HoldsDma(th[t])
      /\ Owns(t) <=> th[t].op = "export"
  BY <1>1 DEF Owns, At, Writes, Grabbing, HoldsBo, HoldsDma
<1>3. PICK d \in Dmabufs : d = th[t].dma
  BY <1>1
<1>4. dma[d].f_count > 0 /\ dma \in [Dmabufs -> DmaType] /\ dma[d].f_count \in Nat
      /\ dma[d].fds \in Nat /\ dma[d] \in DmaType
  BY <1>2, <1>3, DmaAlive, DmaEven DEF IInv, TypeOK, DmaType
<1>5. PICK k \in Nat : k = dma[d].f_count - 1
  BY <1>4
<1>6. PICK e \in DmaType : e = [dma[d] EXCEPT !.f_count = k]
  BY <1>4 DEF DmaType
<1>7. dma' = [dma EXCEPT ![d] = [dma[d] EXCEPT !.f_count = k]]
  BY <1>3, <1>4, <1>5 DEF DmaBufPut
<1>8. /\ e.st = dma[d].st /\ e.obj = dma[d].obj /\ e.fds = dma[d].fds
      /\ e.f_count = k /\ dma' = [dma EXCEPT ![d] = e]
  BY <1>4, <1>6, <1>7 DEF DmaType
<1>9. PICK s \in {"dma_release", "base_put", "idle"} :
        /\ Continue(t, s)
        /\ s = "dma_release" => k = 0
        /\ s = "base_put" => th[t].op = "export"
        /\ s = "idle" => th[t].op # "export"
  BY <1>3, <1>4, <1>5 DEF DmaBufPut, AfterPrime
<1>10. /\ th' \in [Threads -> ThreadType] /\ \A u \in Threads \ {t} : th'[u] = th[u]
       /\ s = "idle" => th'[t] = Idle
       /\ s # "idle" => /\ th'[t].op = th[t].op /\ th'[t].pc = s /\ th'[t].file = th[t].file
                        /\ th'[t].obj = th[t].obj /\ th'[t].type = th[t].type
                        /\ th'[t].ref = th[t].ref /\ th'[t].dma = th[t].dma
                        /\ th'[t].ret = th[t].ret
  BY <1>1, <1>9, GoesOn DEF Steps
<1>11. dma'[d] = e
  BY <1>4, <1>8
<1>12. Local(th'[t])
  <2>1. CASE s = "idle"
    BY <1>10, <2>1, IdleIs
  <2>2. CASE s # "idle"
    BY <1>1, <1>9, <1>10, <2>2 DEF Local, InCall, FreesRef, HoldsDma, Adding, Dropping, Heir
  <2>3. QED
    BY <2>1, <2>2
<1>13. Knows(th[t])'
  <2>1. CASE s = "idle"
    BY <1>10, <2>1 DEF Idle, Knows, OfFile, PreInit, Relies, FreesRef, HoldsDma
  <2>2. CASE s = "base_put"
    BY <1>1, <1>9, <1>10, <2>2 DEF Knows, OfFile, PreInit, Relies, FreesRef, HoldsDma, Adding, Dropping
  <2>3. CASE s = "dma_release"
    <3>1. dma[d].obj = th[t].obj
      BY <1>1, <1>2, <1>3 DEF Knows
    <3>2. QED
      BY <1>1, <1>3, <1>8, <1>9, <1>10, <1>11, <2>3, <3>1 DEF Knows, OfFile, PreInit, Relies, FreesRef,
         HoldsDma, Adding, Dropping
  <2>4. QED
    BY <2>1, <2>2, <2>3
<1>14. ASSUME NEW u \in Threads \ {t} PROVE Apart(th'[t], th[u]) /\ Apart(th[u], th'[t])
  <2>1. CASE s = "idle"
    BY <1>10, <2>1, IdleIs
  <2>2. CASE s # "idle"
    <3>1. Apart(th[t], th[u]) /\ Apart(th[u], th[t]) /\ Knows(th[u])
      BY DEF IInv
    <3>2. th[u].pc = "dma_release" => th[u].dma # d
      BY <1>4, <3>1 DEF Knows
    <3>3. QED
      BY <1>1, <1>3, <1>9, <1>10, <2>2, <3>1, <3>2 DEF Apart, FreesRef, PreInit
  <2>3. QED
    BY <2>1, <2>2
<1>15. /\ ~At(t, "prime_put")' /\ ~Writes(t)' /\ ~HoldsBo(th'[t]) /\ ~HoldsDma(th'[t])
       /\ Owns(t)' <=> Owns(t)
       /\ th[t].op # "close" /\ th'[t].op # "close" /\ (th'[t].obj = th[t].obj \/ ~Owns(t))
  <2>1. CASE s = "idle"
    BY <1>1, <1>2, <1>9, <1>10, <2>1 DEF Idle, Owns, At, Writes, Grabbing, HoldsBo, HoldsDma, Adding
  <2>2. CASE s # "idle"
    BY <1>1, <1>2, <1>9, <1>10, <2>2 DEF Owns, At, Writes, Grabbing, HoldsBo, HoldsDma, Adding
  <2>3. QED
    BY <2>1, <2>2
<1>16. e.f_count = dma[d].f_count + (e.fds - dma[d].fds) + (N(HoldsDma(th'[t])) - N(HoldsDma(th[t])))
  BY <1>2, <1>4, <1>5, <1>8, <1>15 DEF N
<1>17. QED
  BY <1>1, <1>2, <1>3, <1>4, <1>8, <1>10, <1>12, <1>13, <1>14, <1>15, <1>16, DmaStep

\* An object gets a dma-buf, or loses it.
LEMMA DmaObjStep ==
  ASSUME Careful, IInv, NEW t \in Threads, \A u \in Threads \ {t} : th'[u] = th[u],
         th' \in [Threads -> ThreadType], UNCHANGED <<bo, ref, tf>>,
         NEW d \in Dmabufs, NEW e \in DmaType, dma' = [dma EXCEPT ![d] = e],
         NEW o \in Objs, NEW n \in Dmabufs \cup {NULL}, base' = [base EXCEPT ![o].dma_buf = n],
         base[o].st # "none", dma[d].obj \in {o, NULL}, e.obj \in {o, NULL},
         e.st = "none" => e = NoDma, e.st = "live" => e.obj = o,
         \A u \in Threads \ {t} : ~(th[u].dma = d /\ (HoldsDma(th[u]) \/ th[u].pc = "dma_release")),
         mem' \in Nat, mem' = mem + (N(e.st # "none") - N(dma[d].st # "none")),
         Local(th'[t]), Knows(th[t])', DmabufNamed(o)',
         \A u \in Threads \ {t} : Apart(th'[t], th[u]) /\ Apart(th[u], th'[t]),
         th[t].op # "close", th'[t].op # "close", th[t].obj = o, th'[t].obj = o,
         N(Owns(t)') + N(At(t, "prime_put")') + N(e.obj = o)
           = N(Owns(t)) + N(At(t, "prime_put")) + N(dma[d].obj = o),
         ~Writes(t), ~Writes(t)', ~HoldsBo(th[t]), ~HoldsBo(th'[t]),
         HoldsDma(th[t]) => th[t].dma = d, HoldsDma(th'[t]) => th'[t].dma = d,
         DmaMove(d, t)
  PROVE  IInv'
<1>1. dma \in [Dmabufs -> DmaType] /\ base \in [Objs -> BaseType]
  BY DEF IInv, TypeOK, DmaType, BaseType
<1>2. PICK b \in BaseType : b = [base[o] EXCEPT !.dma_buf = n]
  BY <1>1 DEF BaseType
<1>3. /\ b.st = base[o].st /\ b.kref = base[o].kref /\ b.tfile = base[o].tfile
      /\ b.hashed = base[o].hashed
  BY <1>1, <1>2 DEF BaseType
<1>4. base' = [base EXCEPT ![o] = b]
  BY <1>1, <1>2
<1>5. /\ dma' \in [Dmabufs -> DmaType] /\ dma'[d] = e /\ \A c \in Dmabufs \ {d} : dma'[c] = dma[c]
      /\ base' \in [Objs -> BaseType] /\ base'[o] = b /\ \A x \in Objs \ {o} : base'[x] = base[x]
  BY <1>1, <1>4
<1>6. \A x \in Objs : /\ base'[x].st = base[x].st /\ base'[x].kref = base[x].kref
                      /\ base'[x].tfile = base[x].tfile /\ base'[x].hashed = base[x].hashed
  BY <1>3, <1>5
<1>7. TypeOK'
  BY <1>5 DEF IInv, TypeOK, DmaType, BaseType, ThreadType
<1>8. ASSUME NEW u \in Threads PROVE Knows(th[u])'
  <2>1. CASE u = t
    BY <2>1
  <2>2. CASE u # t
    <3>1. th'[u] = th[u] /\ Knows(th[u]) /\ Local(th[u])
      BY <2>2 DEF IInv
    <3>2. HoldsDma(th[u]) \/ th[u].pc = "dma_release" =>
            th[u].dma \in Dmabufs /\ dma'[th[u].dma] = dma[th[u].dma]
      BY <1>5, <2>2, <3>1 DEF Local
    <3>3. /\ PreInit(th[u]) => th[u].obj \in Objs
          /\ th[u].pc \in {"base_release", "prime_release"} => th[u].obj \in Objs
      BY <3>1 DEF Local, PreInit, Adding
    <3>4. /\ Relies(th[u]) => HasHandle(th[u].file, th[u].obj)'
          /\ th[u].op = "backup" => bo[th[u].obj].backup # NULL
          /\ PreInit(th[u]) => base'[th[u].obj].st = base[th[u].obj].st
          /\ th[u].pc \in {"base_release", "prime_release"} =>
               base'[th[u].obj].st = "live" /\ base'[th[u].obj].kref = 0
      BY <1>6, <3>1, <3>3, Unmoved DEF Knows
    <3>5. QED
      BY <3>1, <3>2, <3>4, KnowsStays
  <2>3. QED
    BY <2>1, <2>2
<1>9. \A f : Held(f)' <=> Held(f)
  BY HeldStays
<1>10. ASSUME NEW x \in Objs PROVE BufferOK(x)' /\ DmabufNamed(x)'
  <2>1. BufferOK(x) /\ DmabufNamed(x)
    BY DEF IInv
  <2>2. CASE x = o
    <3>1. BufferOK(o)'
      BY <1>3, <1>5, <2>1, <2>2, Unmoved DEF BufferOK
    <3>2. QED
      BY <2>2, <3>1
  <2>3. CASE x # o
    <3>1. base'[x] = base[x] /\ x # NULL /\ base[x].dma_buf \in Dmabufs \cup {NULL}
      BY <1>1, <1>5, <2>3, ObjectAssumption DEF BaseType
    <3>2. BufferOK(x)'
      BY <2>1, <3>1, Unmoved DEF BufferOK
    <3>3. DmabufNamed(x)'
      BY <1>5, <2>1, <2>3, <3>1 DEF DmabufNamed
    <3>4. QED
      BY <3>2, <3>3
  <2>4. QED
    BY <2>2, <2>3
<1>11. ASSUME NEW r \in Refs PROVE RefOK(r)'
  BY <1>9 DEF IInv, RefOK
<1>12. ASSUME NEW c \in Dmabufs PROVE DmaOK(c)'
  <2>1. CASE c = d
    BY <1>5, <2>1 DEF DmaOK
  <2>2. CASE c # d
    BY <1>5, <2>2 DEF IInv, DmaOK
  <2>3. QED
    BY <2>1, <2>2
<1>13. Counted'
  <2>1. ASSUME NEW x \in Objs
        PROVE  BaseMove(x, t, NULL, d) /\ BoMove(x, t) /\ WritersMove(x, t, NULL)
    <3>1. /\ base[x].kref \in Nat /\ bo[x].kref \in Nat /\ bo[x].cpu_writers \in Nat
          /\ RefsTo(x)' = RefsTo(x) /\ WriterRefs(x)' = WriterRefs(x) /\ x # NULL
      BY Unmoved, ObjectAssumption DEF IInv, TypeOK
    <3>2. (d \in DmaOf(x)' <=> e.obj = x) /\ (d \in DmaOf(x) <=> dma[d].obj = x)
      BY <1>5 DEF DmaOf
    <3>3. BaseMove(x, t, NULL, d)
      <4>1. CASE x = o
        <5>1. /\ t \in Owners(o) <=> Owns(t)
              /\ t \in Heirs(o) <=> At(t, "prime_put")
              /\ t \in Owners(o)' <=> Owns(t)'
              /\ t \in Heirs(o)' <=> At(t, "prime_put")'
          BY Places
        <5>2. QED
          BY <1>6, <3>1, <3>2, <4>1, <5>1 DEF BaseMove, N
      <4>2. CASE x # o
        BY <1>6, <3>1, <3>2, <4>2, Places DEF BaseMove, N
      <4>3. QED
        BY <4>1, <4>2
    <3>4. BoMove(x, t)
      BY <1>6, <3>1, Places DEF BoMove, N
    <3>5. WritersMove(x, t, NULL)
      BY <3>1, Places DEF WritersMove, N
    <3>6. QED
      BY <3>3, <3>4, <3>5
  <2>2. ASSUME NEW c \in Dmabufs PROVE DmaMove(c, t)
    <3>1. CASE c = d
      BY <3>1
    <3>2. CASE c # d
      <4>1. t \notin DmaHolders(c) /\ t \notin DmaHolders(c)' /\ dma'[c] = dma[c]
        BY <1>5, <3>2, Places
      <4>2. dma[c].f_count \in Nat /\ dma[c].fds \in Nat
        BY DmaEven
      <4>3. QED
        BY <4>1, <4>2 DEF DmaMove, N
    <3>3. QED
      BY <3>1, <3>2
  <2>3. ASSUME NEW g \in Files PROVE FileMove(g, NULL)
    <3>1. /\ tf[g].kref \in Nat /\ (Held(g)' <=> Held(g))
      BY <1>9 DEF IInv, TypeOK
    <3>2. NULL \notin ObjsOf(g) /\ NULL \notin ObjsOf(g)'
      BY ObjectAssumption DEF ObjsOf
    <3>3. QED
      BY <3>1, <3>2 DEF FileMove, N
  <2>4. MemMove(NULL, d)
    <3>1. (d \in DmaUsed' <=> e.st # "none") /\ (d \in DmaUsed <=> dma[d].st # "none")
      BY <1>5 DEF DmaUsed
    <3>2. RefsUsed' = RefsUsed /\ mem \in Nat
      BY Unmoved DEF IInv, TypeOK
    <3>3. QED
      BY <3>1, <3>2 DEF MemMove, N
  <2>5. \A c \in Dmabufs \ {d} : dma'[c].obj = dma[c].obj /\ dma'[c].st = dma[c].st
    BY <1>5
  <2>6. QED
    BY <1>6, <1>7, <2>1, <2>2, <2>3, <2>4, <2>5, CountsMove
<1>14. QED
  BY <1>7, <1>8, <1>10, <1>11, <1>12, <1>13, Together

LEMMA SomeIs ==
  ASSUME NEW S, S # {}
  PROVE  SomeOf(S) \in S
BY DEF SomeOf

\* The reference of the export goes to a new dma-buf.
LEMMA ExportNewInv ==
  ASSUME Careful, IInv, NEW t \in Threads, Export(t), mem' = mem + 1
  PROVE  IInv'
<1>1. /\ th[t].pc = "export" /\ th[t].op = "export" /\ th[t].obj \in Objs
      /\ th \in [Threads -> ThreadType] /\ th[t] \in ThreadType /\ Local(th[t]) /\ Knows(th[t])
      /\ UNCHANGED <<bo, ref, tf>> /\ mem \in Nat
  <2>1. /\ th[t].pc = "export" /\ th[t].op = "export" /\ th[t].obj \in Objs
        /\ th \in [Threads -> ThreadType] /\ th[t] \in ThreadType /\ Local(th[t]) /\ Knows(th[t])
        /\ UNCHANGED <<bo, ref, tf>>
    <3>1. th[t].pc = "export" /\ UNCHANGED <<bo, ref, tf>>
      BY Zenon DEF Export, At
    <3>2. QED
      BY <3>1, Here DEF Local, InCall, Adding, Dropping, Heir
  <2>2. mem \in Nat
    BY DEF IInv, TypeOK
  <2>3. QED
    BY <2>1, <2>2
<1>2. /\ Owns(t) /\ ~At(t, "prime_put") /\ ~Writes(t) /\ ~HoldsBo(th[t]) /\ ~HoldsDma(th[t])
  BY <1>1 DEF Owns, At, Writes, Grabbing, HoldsBo, HoldsDma
<1>3. PICK o \in Objs : o = th[t].obj
  BY <1>1
<1>4. PICK S : S = {d \in Dmabufs : dma[d].st = "none"}
  OBVIOUS
<1>5. /\ ~Reusable(o) /\ S # {}
      /\ dma' = [dma EXCEPT ![SomeOf(S)] = [st |-> "live", obj |-> o, f_count |-> 1, fds |-> 0]]
      /\ base' = [base EXCEPT ![o].dma_buf = SomeOf(S)]
      /\ th' = [th EXCEPT ![t].dma = SomeOf(S), ![t].op = "export_new", ![t].pc = "dma_buf_fd"]
  <2>1. mem' # mem
    BY <1>1
  <2>2. QED
    BY <1>3, <1>4, <2>1, Zenon DEF Export, NewDmaOp
<1>6. PICK d \in S : d = SomeOf(S)
  BY <1>5, SomeIs
<1>7. /\ d \in Dmabufs /\ dma[d] = NoDma
  BY <1>4, <1>6 DEF IInv, DmaOK
<1>8. dma[d].st = "none" /\ dma[d].obj = NULL /\ dma[d].f_count = 0 /\ dma[d].fds = 0
  BY <1>7 DEF NoDma
<1>9. PICK e \in DmaType : e = [st |-> "live", obj |-> o, f_count |-> 1, fds |-> 0]
  <2>1. 0 \in 0..MaxFds /\ 1 \in Nat
    BY ObjectAssumption
  <2>2. [st |-> "live", obj |-> o, f_count |-> 1, fds |-> 0] \in DmaType
    BY <2>1 DEF DmaType
  <2>3. QED
    BY <2>2
<1>10. /\ e.st = "live" /\ e.obj = o /\ e.f_count = 1 /\ e.fds = 0
       /\ dma' = [dma EXCEPT ![d] = e] /\ base' = [base EXCEPT ![o].dma_buf = d]
  BY <1>5, <1>6, <1>9
<1>11. PICK w \in ThreadType : w = [th[t] EXCEPT !.dma = d, !.op = "export_new", !.pc = "dma_buf_fd"]
  BY <1>1, <1>7 DEF ThreadType, Steps, Ops
<1>12. /\ th' \in [Threads -> ThreadType] /\ \A u \in Threads \ {t} : th'[u] = th[u]
       /\ th'[t] = w
  BY <1>1, <1>5, <1>6, <1>11
<1>13. /\ w.op = "export_new" /\ w.pc = "dma_buf_fd" /\ w.file = th[t].file /\ w.obj = o
       /\ w.type = th[t].type /\ w.ref = th[t].ref /\ w.dma = d
  BY <1>1, <1>3, <1>11 DEF ThreadType
<1>14. base[o].st \in {"live", "leaked"}
  <2>1. t \in Owners(o)
    BY <1>2, <1>3, Places
  <2>2. QED
    BY <2>1, BaseAlive
<1>15. /\ dma'[d] = e /\ \A c \in Dmabufs \ {d} : dma'[c] = dma[c]
       /\ base'[o].dma_buf = d
  <2>1. dma \in [Dmabufs -> DmaType] /\ base \in [Objs -> BaseType]
    BY DEF IInv, TypeOK, DmaType, BaseType
  <2>2. QED
    BY <1>7, <1>10, <2>1 DEF BaseType
<1>16. ASSUME NEW u \in Threads \ {t}
       PROVE  ~(th[u].dma = d /\ (HoldsDma(th[u]) \/ th[u].pc = "dma_release"))
  <2>1. Local(th[u]) /\ Knows(th[u])
    BY DEF IInv
  <2>2. HoldsDma(th[u]) \/ th[u].pc = "dma_release" => dma[th[u].dma].obj \in Objs
    BY <2>1 DEF Local, Knows, HoldsDma, Adding
  <2>3. QED
    BY <1>8, <2>2, ObjectAssumption
<1>17. Local(w)
  BY <1>1, <1>7, <1>13 DEF Local, InCall, FreesRef, HoldsDma, Adding, Dropping
<1>18. Knows(th[t])'
  BY <1>1, <1>10, <1>12, <1>13, <1>15 DEF Knows, OfFile, PreInit, Relies, FreesRef, HoldsDma,
     Adding, Dropping
<1>19. ASSUME NEW u \in Threads \ {t} PROVE Apart(w, th[u]) /\ Apart(th[u], w)
  <2>1. Apart(th[t], th[u]) /\ Apart(th[u], th[t])
    BY DEF IInv
  <2>2. QED
    BY <1>1, <1>13, <2>1 DEF Apart, FreesRef, PreInit
<1>20. DmabufNamed(o)'
  <2>1. ASSUME NEW c \in Dmabufs, dma'[c].obj = o, dma'[c].f_count # 0 PROVE c = d
    <3>1. CASE c # d
      <4>1. base[o].dma_buf = c /\ dma[c].f_count # 0
        BY <1>15, <2>1, <3>1 DEF IInv, DmabufNamed
      <4>2. QED
        BY <1>5, <4>1, ObjectAssumption DEF Reusable, Doomed
    <3>2. QED
      BY <3>1
  <2>2. QED
    BY <1>10, <1>15, <2>1 DEF DmabufNamed
<1>21. /\ ~Owns(t)' /\ ~At(t, "prime_put")' /\ ~Writes(t)' /\ ~HoldsBo(th'[t]) /\ HoldsDma(th'[t])
  BY <1>12, <1>13 DEF Owns, At, Writes, Grabbing, HoldsBo, HoldsDma
<1>22. DmaMove(d, t)
  <2>1. t \in DmaHolders(d)' /\ t \notin DmaHolders(d)
    BY <1>2, <1>12, <1>13, <1>21, Places
  <2>2. QED
    BY <1>8, <1>10, <1>15, <2>1 DEF DmaMove, N
<1>23. /\ mem' \in Nat /\ mem' = mem + (N(e.st # "none") - N(dma[d].st # "none"))
       /\ N(Owns(t)') + N(At(t, "prime_put")') + N(e.obj = o)
            = N(Owns(t)) + N(At(t, "prime_put")) + N(dma[d].obj = o)
       /\ o # NULL
  BY <1>1, <1>2, <1>8, <1>10, <1>21, ObjectAssumption DEF N
<1>24. /\ base[o].st # "none" /\ dma[d].obj \in {o, NULL} /\ e.obj \in {o, NULL}
       /\ e.st = "none" => e = NoDma
       /\ e.st = "live" => e.obj = o
  BY <1>8, <1>10, <1>14
<1>25. /\ Local(th'[t]) /\ \A u \in Threads \ {t} : Apart(th'[t], th[u]) /\ Apart(th[u], th'[t])
       /\ th[t].op # "close" /\ th'[t].op # "close" /\ th[t].obj = o /\ th'[t].obj = o
       /\ HoldsDma(th[t]) => th[t].dma = d
       /\ HoldsDma(th'[t]) => th'[t].dma = d
  BY <1>1, <1>2, <1>3, <1>12, <1>13, <1>17, <1>19
<1>26. PICK n \in Dmabufs \cup {NULL} : base' = [base EXCEPT ![o].dma_buf = n]
  BY <1>7, <1>10
<1>27. d \in Dmabufs /\ dma' = [dma EXCEPT ![d] = e]
  BY <1>7, <1>10
<1>28. QED
  BY <1>1, <1>2, <1>12, <1>16, <1>18, <1>20, <1>21, <1>22, <1>23, <1>24, <1>25, <1>26, <1>27, DmaObjStep

\* The object forgets the dma-buf, whose reference goes to the thread.
LEMMA DmaReleaseInv ==
  ASSUME Careful, IInv, NEW t \in Threads, ttm_prime_dmabuf_release(t)
  PROVE  IInv'
<1>1. /\ th[t].pc = "dma_release" /\ th[t].op \in {"export", "export_new", "import", "close_fd"}
      /\ th[t].obj \in Objs /\ th[t].dma \in Dmabufs
      /\ th \in [Threads -> ThreadType] /\ th[t] \in ThreadType /\ Local(th[t]) /\ Knows(th[t])
      /\ UNCHANGED <<bo, ref, tf>> /\ mem' = mem - 1 /\ mem \in Nat /\ Continue(t, "prime_put")
  BY Here DEF ttm_prime_dmabuf_release, At, Local, InCall, Adding, Dropping, Heir, IInv, TypeOK
<1>2. PICK d \in Dmabufs, o \in Objs : d = th[t].dma /\ o = th[t].obj
  BY <1>1
<1>3. dma[d].obj = o /\ dma[d].f_count = 0
  BY <1>1, <1>2 DEF Knows
<1>4. /\ ~At(t, "prime_put") /\ ~Writes(t) /\ ~HoldsBo(th[t]) /\ ~HoldsDma(th[t])
      /\ Owns(t) <=> th[t].op = "export"
  BY <1>1 DEF Owns, At, Writes, Grabbing, HoldsBo, HoldsDma, Adding
<1>5. /\ th' \in [Threads -> ThreadType] /\ \A u \in Threads \ {t} : th'[u] = th[u]
      /\ th'[t].op = th[t].op /\ th'[t].pc = "prime_put" /\ th'[t].file = th[t].file
      /\ th'[t].obj = th[t].obj /\ th'[t].type = th[t].type
      /\ th'[t].ref = th[t].ref /\ th'[t].dma = th[t].dma
  BY <1>1, GoesOn DEF Steps
<1>6. PICK n \in Dmabufs \cup {NULL} :
        /\ n = (IF base[o].dma_buf = d THEN NULL ELSE base[o].dma_buf)
        /\ base' = [base EXCEPT ![o].dma_buf = n]
  <2>1. base[o].dma_buf \in Dmabufs \cup {NULL}
    BY DEF IInv, TypeOK
  <2>2. QED
    BY <1>2, <1>3, <2>1 DEF ttm_prime_dmabuf_release, DmabufForgotten
<1>7. /\ NoDma \in DmaType /\ NoDma.st = "none" /\ NoDma.obj = NULL
  BY ObjectAssumption DEF NoDma, DmaType
<1>8. dma' = [dma EXCEPT ![d] = NoDma]
  BY <1>2 DEF ttm_prime_dmabuf_release
<1>9. dma[d].st = "live" /\ o # NULL
  BY <1>3, ObjectAssumption DEF IInv, TypeOK, DmaOK, NoDma
<1>10. base[o].st \in {"live", "leaked"}
  BY <1>3, BaseAlive
<1>11. /\ dma'[d] = NoDma /\ \A c \in Dmabufs \ {d} : dma'[c] = dma[c]
       /\ base'[o].dma_buf = n
  <2>1. dma \in [Dmabufs -> DmaType] /\ base \in [Objs -> BaseType]
    BY DEF IInv, TypeOK, DmaType, BaseType
  <2>2. QED
    BY <1>6, <1>8, <2>1 DEF BaseType
<1>12. ASSUME NEW u \in Threads \ {t}
       PROVE  ~(th[u].dma = d /\ (HoldsDma(th[u]) \/ th[u].pc = "dma_release"))
  <2>1. th[u].pc = "dma_release" => th[u].dma # d
    BY <1>1, <1>2 DEF IInv, Apart
  <2>2. ~(th[u].dma = d /\ HoldsDma(th[u]))
    <3>1. \A k : k = 0 => ~(k > 0)
      OBVIOUS
    <3>2. QED
      BY <1>3, <3>1, DmaAlive
  <2>3. QED
    BY <2>1, <2>2
<1>13. mem > 0
  <2>1. Moves(RefsUsed, RefsUsed, d) /\ Moves(DmaUsed, DmaUsed, d) /\ d \in DmaUsed
    BY <1>9, Finite, OneMoves DEF DmaUsed
  <2>2. QED
    BY <1>1, <2>1 DEF Moves, IInv, Counted
<1>14. Local(th'[t])
  BY <1>1, <1>5 DEF Local, InCall, FreesRef, HoldsDma, Adding, Dropping, Heir
<1>15. Knows(th[t])'
  BY <1>1, <1>5 DEF Knows, OfFile, PreInit, Relies, FreesRef, HoldsDma, Adding, Dropping
<1>16. \A u \in Threads \ {t} : Apart(th'[t], th[u]) /\ Apart(th[u], th'[t])
  BY <1>1, <1>5, StillApart DEF FreesRef, PreInit
<1>17. DmabufNamed(o)'
  <2>1. DmabufNamed(o)
    BY DEF IInv
  <2>2. n # NULL => n \in Dmabufs \ {d} /\ dma[n].obj = o
    BY <1>6, <2>1 DEF DmabufNamed
  <2>3. ASSUME NEW c \in Dmabufs, dma'[c].obj = o, dma'[c].f_count # 0 PROVE n = c
    <3>1. c # d
      BY <1>7, <1>9, <1>11, <2>3
    <3>2. QED
      BY <1>6, <1>11, <2>1, <2>3, <3>1 DEF DmabufNamed
  <2>4. QED
    BY <1>11, <2>2, <2>3 DEF DmabufNamed
<1>18. /\ At(t, "prime_put")' /\ ~Writes(t)' /\ ~HoldsBo(th'[t]) /\ ~HoldsDma(th'[t])
       /\ Owns(t)' <=> Owns(t)
  BY <1>1, <1>4, <1>5 DEF Owns, At, Writes, Grabbing, HoldsBo, HoldsDma, Adding
<1>19. DmaMove(d, t)
  BY <1>7, <1>11 DEF DmaMove
<1>20. /\ mem' \in Nat /\ mem' = mem + (N(NoDma.st # "none") - N(dma[d].st # "none"))
       /\ N(Owns(t)') + N(At(t, "prime_put")') + N(NoDma.obj = o)
            = N(Owns(t)) + N(At(t, "prime_put")) + N(dma[d].obj = o)
  BY <1>1, <1>3, <1>4, <1>7, <1>9, <1>13, <1>18 DEF N
<1>21. /\ base[o].st # "none" /\ dma[d].obj \in {o, NULL} /\ NoDma.obj \in {o, NULL}
       /\ NoDma.st = "live" => NoDma.obj = o
  BY <1>3, <1>7, <1>10
<1>22. /\ th[t].op # "close" /\ th'[t].op # "close" /\ th[t].obj = o /\ th'[t].obj = o
       /\ HoldsDma(th[t]) => th[t].dma = d
       /\ HoldsDma(th'[t]) => th'[t].dma = d
  BY <1>1, <1>2, <1>4, <1>5, <1>18
<1>23. QED
  BY <1>1, <1>4, <1>5, <1>6, <1>7, <1>8, <1>12, <1>14, <1>15, <1>16, <1>17, <1>18, <1>19, <1>20, <1>21,
     <1>22, DmaObjStep

-----------------------------------------------------------------------------
(* The last of the steps. *)

\* A file is closed that no call uses, and no surface with a buffer of its own.
LEMMA CloseInv ==
  ASSUME Careful, IInv, NEW t \in Threads, NEW f \in Files, Close(t, f)
  PROVE  IInv'
<1>1. /\ th[t] = Idle /\ th \in [Threads -> ThreadType] /\ tf[f].open /\ ~Calling(f)
      /\ \A o \in Objs : MayDrop(f, o)
      /\ UNCHANGED <<base, bo, ref, dma, mem>>
  BY Here DEF Close, Enter, At
<1>2. PICK w \in ThreadType :
        w = [Idle EXCEPT !.op = "close", !.file = f, !.obj = NULL, !.pc = "close"]
  BY DEF Idle, ThreadType, Ops, Steps, RefTypes
<1>3. /\ th' \in [Threads -> ThreadType] /\ \A u \in Threads \ {t} : th'[u] = th[u]
      /\ th'[t] = w
  BY <1>1, <1>2 DEF Close, Enter
<1>4. w.op = "close" /\ w.pc = "close" /\ w.file = f /\ w.obj = NULL /\ w.type = "usage"
  BY <1>2 DEF Idle
<1>5. /\ ~tf'[f].open /\ tf'[f].kref = tf[f].kref /\ \A g \in Files \ {f} : tf'[g] = tf[g]
      /\ tf' \in [Files -> [open : BOOLEAN, kref : Nat]]
  <2>1. tf \in [Files -> [open : BOOLEAN, kref : Nat]]
    BY DEF IInv, TypeOK
  <2>2. PICK v \in [open : BOOLEAN, kref : Nat] : v = [tf[f] EXCEPT !.open = FALSE]
    BY <2>1
  <2>3. ~v.open /\ v.kref = tf[f].kref
    BY <2>1, <2>2
  <2>4. tf' = [tf EXCEPT ![f] = v]
    BY <2>1, <2>2 DEF Close
  <2>5. QED
    BY <2>1, <2>3, <2>4
<1>6. ASSUME NEW u \in Threads, th[u].op # "idle" PROVE th[u].file # f
  <2>1. th[u].pc # "idle"
    BY <1>6 DEF IInv, Local, InCall, Adding, Dropping, Heir
  <2>2. QED
    BY <1>1, <2>1 DEF Calling, At
<1>7. Held(f) /\ Held(f)' /\ \A g \in Files \ {f} : Held(g)' <=> Held(g)
  <2>1. Held(f)'
    BY <1>3, <1>4 DEF Held, Closing
  <2>2. ASSUME NEW g \in Files \ {f} PROVE Closing(g)' <=> Closing(g)
    <3>1. ASSUME NEW u \in Threads
          PROVE  th'[u].op = "close" /\ th'[u].file = g <=> th[u].op = "close" /\ th[u].file = g
      <4>1. CASE u = t
        BY <1>1, <1>3, <1>4, <4>1 DEF Idle
      <4>2. CASE u # t
        BY <1>3, <4>2
      <4>3. QED
        BY <4>1, <4>2
    <3>2. QED
      BY <3>1 DEF Closing
  <2>3. QED
    BY <1>1, <1>5, <2>1, <2>2 DEF Held
<1>8. TypeOK'
  BY <1>1, <1>3, <1>5 DEF IInv, TypeOK, ThreadType
<1>9. Local(w)
  BY <1>4 DEF Local, InCall, FreesRef, HoldsDma
<1>10. ASSUME NEW u \in Threads PROVE Knows(th[u])'
  <2>1. CASE u = t
    BY <1>3, <1>4, <1>5, <2>1 DEF Knows, OfFile, PreInit, Relies, FreesRef, HoldsDma
  <2>2. CASE u # t
    <3>1. th'[u] = th[u] /\ Knows(th[u]) /\ Local(th[u])
      BY <1>3, <2>2 DEF IInv
    <3>2. OfFile(th[u]) \/ th[u].op = "close" => th[u].file \in Files /\ th[u].file # f
      BY <1>6, <3>1 DEF Local, OfFile
    <3>3. /\ OfFile(th[u]) \/ th[u].op = "close" => tf'[th[u].file].open = tf[th[u].file].open
          /\ Relies(th[u]) => HasHandle(th[u].file, th[u].obj)'
      BY <1>1, <1>5, <3>1, <3>2, Unmoved DEF Knows
    <3>4. QED
      BY <1>1, <3>1, <3>3, KnowsStays DEF Knows
  <2>3. QED
    BY <2>1, <2>2
<1>11. ASSUME NEW u \in Threads \ {t} PROVE Apart(w, th[u]) /\ Apart(th[u], w)
  <2>1. th[u].file # f
    <3>1. th[u].op = "idle" => th[u].file = NULL
      BY DEF IInv, Local, Idle
    <3>2. QED
      BY <1>6, <3>1, ObjectAssumption
  <2>2. QED
    BY <1>4, <2>1 DEF Apart, PreInit, FreesRef
<1>12. ASSUME NEW x \in Objs PROVE BufferOK(x)' /\ DmabufNamed(x)'
  <2>1. BufferOK(x) /\ DmabufNamed(x) /\ bo[x].backup \in Files \cup {NULL}
    BY DEF IInv, TypeOK
  <2>2. bo[x].backup # f
    BY <1>1 DEF MayDrop, Careful
  <2>3. bo[x].backup # NULL => tf'[bo[x].backup].open
    BY <1>5, <2>1, <2>2 DEF BufferOK
  <2>4. QED
    BY <1>1, <2>1, <2>3, Unmoved DEF BufferOK, DmabufNamed
<1>13. ASSUME NEW r \in Refs PROVE RefOK(r)'
  <2>1. \A g \in Files : Held(g) => Held(g)'
    BY <1>7
  <2>2. RefOK(r) /\ ref'[r] = ref[r]
    BY <1>1 DEF IInv
  <2>3. QED
    BY <2>1, <2>2 DEF RefOK
<1>14. ASSUME NEW d \in Dmabufs PROVE DmaOK(d)'
  BY <1>1 DEF IInv, DmaOK
<1>15. Counted'
  <2>1. /\ ~Owns(t) /\ ~Owns(t)' /\ ~At(t, "prime_put") /\ ~At(t, "prime_put")'
        /\ ~Writes(t) /\ ~Writes(t)' /\ ~HoldsBo(th[t]) /\ ~HoldsBo(th'[t])
        /\ ~HoldsDma(th[t]) /\ ~HoldsDma(th'[t])
    BY <1>1, <1>3, <1>4 DEF Idle, Owns, At, Writes, Grabbing, HoldsBo, HoldsDma
  <2>2. ASSUME NEW x \in Objs
        PROVE  BaseMove(x, t, NULL, NULL) /\ BoMove(x, t) /\ WritersMove(x, t, NULL)
    <3>1. /\ base[x].kref \in Nat /\ bo[x].kref \in Nat /\ bo[x].cpu_writers \in Nat
          /\ RefsTo(x)' = RefsTo(x) /\ WriterRefs(x)' = WriterRefs(x) /\ DmaOf(x)' = DmaOf(x)
          /\ base'[x] = base[x] /\ bo'[x] = bo[x]
      BY <1>1, Unmoved DEF IInv, TypeOK
    <3>2. BaseMove(x, t, NULL, NULL)
      BY <2>1, <3>1, Places DEF BaseMove, N
    <3>3. BoMove(x, t) /\ WritersMove(x, t, NULL)
      BY <2>1, <3>1, Places DEF BoMove, WritersMove, N
    <3>4. QED
      BY <3>2, <3>3
  <2>3. ASSUME NEW e \in Dmabufs PROVE DmaMove(e, t)
    BY <1>1, <2>1, DmaEven, Places DEF DmaMove, N
  <2>4. ASSUME NEW g \in Files PROVE FileMove(g, NULL)
    <3>1. /\ tf[g].kref \in Nat /\ tf'[g].kref = tf[g].kref
          /\ ObjsOf(g)' = ObjsOf(g)
          /\ Held(g)' <=> Held(g)
      BY <1>1, <1>5, <1>7, Unmoved DEF IInv, TypeOK
    <3>2. QED
      BY <3>1 DEF FileMove, N
  <2>5. MemMove(NULL, NULL)
    BY <1>1, Unmoved DEF MemMove, N, IInv, TypeOK
  <2>6. QED
    BY <1>1, <1>3, <1>8, <2>2, <2>3, <2>4, <2>5, CountsMove
<1>16. QED
  BY <1>3, <1>8, <1>9, <1>10, <1>11, <1>12, <1>13, <1>14, <1>15, Together

\* A thread that adds a reference object has, or can find, what keeps its base
\* object alive.
LEMMA AddedAlive ==
  ASSUME Careful, IInv, NEW t \in Threads, th[t].pc = "ref_insert", NEW o \in Objs, o = th[t].obj
  PROVE  base[o].kref \in Nat /\ base[o].kref > 0 /\ base[o].st \in {"live", "leaked"}
<1>1. th[t].op \in {"alloc", "grab", "import", "backup"} /\ Local(th[t]) /\ Knows(th[t])
  BY Here DEF Local, InCall, Adding, Dropping, Heir
<1>2. ASSUME NEW f, HasHandle(f, o) PROVE \E r \in Refs : ref[r].obj = o
  BY <1>2 DEF HasHandle, Find, IInv, RefOK
<1>3. CASE th[t].op = "alloc"
  <2>1. t \in Owners(o)
    BY <1>3, Places DEF Owns
  <2>2. QED
    BY <2>1, BaseAlive
<1>4. CASE th[t].op = "grab"
  <2>1. HasHandle(th[t].file, o)
    BY <1>1, <1>4 DEF Knows, Relies, Adding
  <2>2. QED
    BY <1>2, <2>1, BaseAlive
<1>5. CASE th[t].op = "import"
  <2>1. th[t].dma \in Dmabufs /\ dma[th[t].dma].obj = o
    BY <1>1, <1>5 DEF Local, Knows, HoldsDma, Adding
  <2>2. QED
    BY <2>1, BaseAlive
<1>6. CASE th[t].op = "backup"
  <2>1. HasHandle(bo[o].backup, o)
    BY <1>1, <1>6 DEF Knows, IInv, BufferOK
  <2>2. QED
    BY <1>2, <2>1, BaseAlive
<1>7. QED
  BY <1>1, <1>3, <1>4, <1>5, <1>6

\* A new reference object takes a reference to the base object.
LEMMA RefInsertInv ==
  ASSUME Careful, IInv, NEW t \in Threads, RefInsert(t), mem' = mem + 1
  PROVE  IInv'
<1>1. /\ th[t].pc = "ref_insert" /\ th[t].op \in {"alloc", "grab", "import", "backup"}
      /\ th[t] \in ThreadType /\ Local(th[t]) /\ Knows(th[t]) /\ th \in [Threads -> ThreadType]
      /\ th[t].obj \in Objs /\ th[t].file \in Files /\ tf[th[t].file].open
      /\ th[t].type = (IF th[t].op = "grab" THEN "synccpu_write" ELSE "usage")
      /\ UNCHANGED <<bo, dma, tf>>
  <2>1. th[t].pc = "ref_insert" /\ UNCHANGED <<bo, dma, tf>>
    BY DEF RefInsert, At
  <2>2. th[t].op \in {"alloc", "grab", "import", "backup"} /\ Local(th[t]) /\ Knows(th[t])
    BY <2>1, Here DEF Local, InCall, Adding, Dropping, Heir
  <2>3. QED
    BY <2>1, <2>2, Here DEF Local, Knows, OfFile, Adding
<1>2. PICK o \in Objs, f \in Files : o = th[t].obj /\ f = th[t].file
  BY <1>1
<1>3. PICK S : S = Unused
  OBVIOUS
<1>4. /\ S # {} /\ Return(t, "new")
      /\ ref' = [ref EXCEPT ![SomeOf(S)] =
                   [st |-> "hashed", tfile |-> f, key |-> o, type |-> th[t].type, kref |-> 1, obj |-> o]]
      /\ base' = [base EXCEPT ![o].kref = @ + 1]
  <2>1. mem' # mem
    BY DEF IInv, TypeOK
  <2>2. QED
    BY <1>2, <1>3, <2>1, Zenon DEF RefInsert
<1>5. PICK r \in S : r = SomeOf(S)
  BY <1>4, SomeIs
<1>6. r \in Refs /\ ref[r] = NoRef /\ \A u \in Threads : th[u].ref # r
  BY <1>3, <1>5 DEF Unused, IInv, RefOK
<1>7. ref[r].st = "free" /\ ref[r].obj = NULL /\ ref[r].key = NULL
  BY <1>6 DEF NoRef
<1>8. PICK q \in RefType :
        q = [st |-> "hashed", tfile |-> f, key |-> o, type |-> th[t].type, kref |-> 1, obj |-> o]
  <2>1. 1 \in 0..MaxDup /\ th[t].type \in RefTypes
    BY <1>1, ObjectAssumption DEF RefTypes
  <2>2. [st |-> "hashed", tfile |-> f, key |-> o, type |-> th[t].type, kref |-> 1, obj |-> o] \in RefType
    BY <2>1 DEF RefType
  <2>3. QED
    BY <2>2
<1>9. /\ q.st = "hashed" /\ q.tfile = f /\ q.key = o /\ q.type = th[t].type /\ q.kref = 1 /\ q.obj = o
      /\ ref' = [ref EXCEPT ![r] = q]
  BY <1>4, <1>5, <1>8
<1>10. base[o].kref \in Nat /\ base[o].kref > 0 /\ base[o].st \in {"live", "leaked"}
  BY <1>1, <1>2, AddedAlive
<1>11. /\ base \in [Objs -> BaseType] /\ ref \in [Refs -> RefType] /\ mem \in Nat
  BY DEF IInv, TypeOK, BaseType, RefType
<1>12. PICK b \in BaseType : b = [base[o] EXCEPT !.kref = base[o].kref + 1]
  <2>1. PICK k \in Nat : k = base[o].kref + 1
    BY <1>10
  <2>2. [base[o] EXCEPT !.kref = k] \in BaseType
    BY <1>11 DEF BaseType
  <2>3. QED
    BY <2>1, <2>2
<1>13. /\ b.st = base[o].st /\ b.kref = base[o].kref + 1 /\ b.tfile = base[o].tfile
       /\ b.hashed = base[o].hashed /\ b.dma_buf = base[o].dma_buf
       /\ base' = [base EXCEPT ![o] = b]
  BY <1>4, <1>11, <1>12 DEF BaseType
<1>14. /\ ref' \in [Refs -> RefType] /\ ref'[r] = q /\ \A p \in Refs \ {r} : ref'[p] = ref[p]
       /\ base' \in [Objs -> BaseType] /\ base'[o] = b /\ \A x \in Objs \ {o} : base'[x] = base[x]
  BY <1>6, <1>9, <1>11, <1>13
<1>15. \A x \in Objs : /\ base'[x].st = base[x].st /\ base'[x].tfile = base[x].tfile
                       /\ base'[x].hashed = base[x].hashed /\ base'[x].dma_buf = base[x].dma_buf
  BY <1>13, <1>14
<1>16. PICK w \in ThreadType :
         /\ th' = [th EXCEPT ![t] = w]
         /\ \/ w = Idle /\ th[t].op = "backup"
            \/ /\ w.op = th[t].op /\ w.file = f /\ w.obj = o /\ w.type = th[t].type
               /\ w.ref = th[t].ref /\ w.dma = th[t].dma /\ w.ret = "new"
               /\ \/ th[t].op = "alloc" /\ w.pc = "inited"
                  \/ th[t].op = "grab" /\ w.pc = "grabbed"
                  \/ th[t].op = "import" /\ w.pc = "dma_buf_put"
  <2>1. CASE th[t].op = "backup"
    <3>1. th' = [th EXCEPT ![t] = Idle]
      BY <1>4, <2>1 DEF Return, AfterAdd
    <3>2. QED
      BY <2>1, <3>1, IdleIs
  <2>2. CASE th[t].op # "backup"
    <3>1. PICK pc \in {"inited", "grabbed", "dma_buf_put"} :
            /\ th' = [th EXCEPT ![t] = [th[t] EXCEPT !.pc = pc, !.ret = "new"]]
            /\ \/ th[t].op = "alloc" /\ pc = "inited"
               \/ th[t].op = "grab" /\ pc = "grabbed"
               \/ th[t].op = "import" /\ pc = "dma_buf_put"
      BY <1>1, <1>4, <2>2 DEF Return, AfterAdd
    <3>2. PICK w \in ThreadType : w = [th[t] EXCEPT !.pc = pc, !.ret = "new"]
      BY <1>1, <3>1 DEF ThreadType, Steps
    <3>3. /\ w.op = th[t].op /\ w.file = f /\ w.obj = o /\ w.type = th[t].type
          /\ w.ref = th[t].ref /\ w.dma = th[t].dma /\ w.ret = "new" /\ w.pc = pc
      BY <1>1, <1>2, <3>2 DEF ThreadType
    <3>4. QED
      BY <3>1, <3>2, <3>3
  <2>3. QED
    BY <2>1, <2>2
<1>17. /\ th' \in [Threads -> ThreadType] /\ \A u \in Threads \ {t} : th'[u] = th[u]
       /\ th'[t] = w
  BY <1>1, <1>16
<1>18. TypeOK'
  <2>1. mem' \in Nat
    BY <1>11
  <2>2. QED
    BY <1>1, <1>14, <1>17, <2>1 DEF IInv, TypeOK, BaseType, RefType, ThreadType
<1>19. \A g, x : HasHandle(g, x) => HasHandle(g, x)'
  BY <1>6, <1>7, <1>14, OtherHandles
<1>20. Local(w)
  <2>1. CASE w = Idle
    BY <2>1, IdleIs
  <2>2. CASE w # Idle
    BY <1>1, <1>2, <1>16, <2>2 DEF Local, InCall, FreesRef, HoldsDma, Adding, Dropping, Heir
  <2>3. QED
    BY <2>1, <2>2
<1>21. Knows(th[t])'
  <2>1. CASE w = Idle
    BY <1>17, <2>1 DEF Idle, Knows, OfFile, PreInit, Relies, FreesRef, HoldsDma
  <2>2. CASE w # Idle
    <3>1. th[t].op = "alloc" => HasHandle(f, o)'
      BY <1>1, <1>6, <1>9, <1>14 DEF HasHandle, Find
    <3>2. th[t].op = "alloc" => base'[o].st = "live" /\ bo[o].backup = NULL
      BY <1>1, <1>2, <1>15 DEF Knows, PreInit, Adding
    <3>3. th[t].op = "import" => dma[th[t].dma].obj = o
      BY <1>1, <1>2 DEF Knows, HoldsDma, Adding
    <3>4. QED
      BY <1>1, <1>2, <1>16, <1>17, <2>2, <3>1, <3>2, <3>3 DEF Knows, OfFile, PreInit, Relies, FreesRef,
         HoldsDma, Adding, Dropping
  <2>3. QED
    BY <2>1, <2>2
<1>22. ASSUME NEW u \in Threads PROVE Knows(th[u])'
  <2>1. CASE u = t
    BY <1>21, <2>1
  <2>2. CASE u # t
    <3>1. th'[u] = th[u] /\ Knows(th[u]) /\ Local(th[u])
      BY <1>17, <2>2 DEF IInv
    <3>2. /\ FreesRef(th[u]) => th[u].ref \in Refs \ {r}
          /\ th[u].pc = "lookup_load" => th[u].ref \in Refs \ {r}
      BY <1>6, <3>1 DEF Local
    <3>3. /\ FreesRef(th[u]) => ref'[th[u].ref] = ref[th[u].ref]
          /\ th[u].pc = "lookup_load" => ref'[th[u].ref].obj = ref[th[u].ref].obj
      BY <1>14, <3>2
    <3>4. /\ PreInit(th[u]) => th[u].obj \in Objs
          /\ th[u].pc \in {"base_release", "prime_release"} => th[u].obj \in Objs
      BY <3>1 DEF Local, PreInit, Adding
    <3>5. th[u].pc \in {"base_release", "prime_release"} => th[u].obj # o
      BY <1>10, <3>1 DEF Knows
    <3>6. /\ PreInit(th[u]) => base'[th[u].obj].st = base[th[u].obj].st
          /\ th[u].op = "backup" => bo[th[u].obj].backup # NULL
          /\ th[u].pc \in {"base_release", "prime_release"} =>
               base'[th[u].obj].st = "live" /\ base'[th[u].obj].kref = 0
      BY <1>14, <1>15, <3>1, <3>4, <3>5 DEF Knows
    <3>7. Relies(th[u]) => HasHandle(th[u].file, th[u].obj)'
      BY <1>19, <3>1 DEF Knows
    <3>8. QED
      BY <1>1, <3>1, <3>3, <3>6, <3>7, KnowsStays
  <2>3. QED
    BY <2>1, <2>2
<1>23. ASSUME NEW u \in Threads \ {t} PROVE Apart(w, th[u]) /\ Apart(th[u], w)
  <2>1. CASE w = Idle
    BY <2>1, IdleIs
  <2>2. CASE w # Idle
    <3>1. Apart(th[t], th[u]) /\ Apart(th[u], th[t])
      BY DEF IInv
    <3>2. QED
      BY <1>1, <1>2, <1>16, <2>2, <3>1 DEF Apart, PreInit, FreesRef, Adding
  <2>3. QED
    BY <2>1, <2>2
<1>24. th[t].op # "close" /\ w.op # "close"
  BY <1>1, <1>16 DEF Idle
<1>25. \A g : Held(g)' <=> Held(g)
  BY <1>1, <1>17, <1>24, HeldStays
<1>26. ASSUME NEW x \in Objs PROVE BufferOK(x)' /\ DmabufNamed(x)'
  <2>1. BufferOK(x) /\ DmabufNamed(x)
    BY DEF IInv
  <2>2. BufferOK(x)'
    <3>1. CASE x = o
      BY <1>1, <1>10, <1>13, <1>14, <1>19, <2>1, <3>1 DEF BufferOK
    <3>2. CASE x # o
      <4>1. base'[x] = base[x]
        BY <1>14, <3>2
      <4>2. QED
        BY <1>1, <1>19, <2>1, <4>1 DEF BufferOK
    <3>3. QED
      BY <3>1, <3>2
  <2>3. DmabufNamed(x)'
    BY <1>1, <1>15, <2>1 DEF DmabufNamed
  <2>4. QED
    BY <2>2, <2>3
<1>27. ASSUME NEW p \in Refs PROVE RefOK(p)'
  <2>1. CASE p = r
    <3>1. Held(f)'
      BY <1>1, <1>2, <1>25 DEF Held
    <3>2. QED
      BY <1>2, <1>9, <1>14, <2>1, <3>1 DEF RefOK
  <2>2. CASE p # r
    BY <1>14, <1>25, <2>2 DEF IInv, RefOK
  <2>3. QED
    BY <2>1, <2>2
<1>28. ASSUME NEW d \in Dmabufs PROVE DmaOK(d)'
  BY <1>1 DEF IInv, DmaOK
<1>29. Counted'
  <2>1. /\ Owns(t)' <=> Owns(t)
        /\ ~At(t, "prime_put") /\ ~At(t, "prime_put")'
        /\ HoldsBo(w) <=> HoldsBo(th[t])
        /\ HoldsDma(w) <=> HoldsDma(th[t])
        /\ ~Writes(t)' /\ (Writes(t) <=> th[t].op = "grab")
        /\ w.obj = o \/ ~Owes(t)
        /\ w.dma = th[t].dma \/ ~HoldsDma(th[t])
    <3>1. CASE w = Idle
      BY <1>1, <1>16, <1>17, <3>1 DEF Idle, Owes, Owns, At, Writes, Grabbing, HoldsBo, HoldsDma, Adding, Dropping
    <3>2. CASE w # Idle
      BY <1>1, <1>16, <1>17, <3>2 DEF Owns, At, Writes, Grabbing, HoldsBo, HoldsDma, Adding, Dropping
    <3>3. QED
      BY <3>1, <3>2
  <2>2. ASSUME NEW x \in Objs PROVE BaseMove(x, t, r, NULL) /\ BoMove(x, t) /\ WritersMove(x, t, r)
    <3>1. /\ base[x].kref \in Nat /\ bo[x].kref \in Nat /\ bo[x].cpu_writers \in Nat
          /\ DmaOf(x)' = DmaOf(x) /\ x # NULL
      BY <1>1, Unmoved, ObjectAssumption DEF IInv, TypeOK
    <3>2. /\ r \notin RefsTo(x) /\ r \notin WriterRefs(x)
          /\ r \in RefsTo(x)' <=> x = o
          /\ r \in WriterRefs(x)' <=> x = o /\ th[t].op = "grab"
      BY <1>1, <1>6, <1>7, <1>9, <1>14, <3>1 DEF RefsTo, WriterRefs
    <3>3. /\ t \in Owners(x)' <=> t \in Owners(x)
          /\ t \notin Heirs(x) /\ t \notin Heirs(x)'
          /\ t \in BoHolders(x)' <=> t \in BoHolders(x)
          /\ t \notin Writers(x)'
          /\ t \in Writers(x) <=> x = o /\ th[t].op = "grab"
      BY <1>2, <1>17, <2>1, Places DEF Owes
    <3>4. BaseMove(x, t, r, NULL)
      <4>1. CASE x = o
        BY <1>13, <1>14, <3>1, <3>2, <3>3, <4>1 DEF BaseMove, N
      <4>2. CASE x # o
        <5>1. base'[x] = base[x]
          BY <1>14, <4>2
        <5>2. QED
          BY <3>1, <3>2, <3>3, <4>2, <5>1 DEF BaseMove, N
      <4>3. QED
        BY <4>1, <4>2
    <3>5. BoMove(x, t)
      BY <1>1, <1>15, <3>1, <3>3 DEF BoMove, N
    <3>6. WritersMove(x, t, r)
      BY <1>1, <3>1, <3>2, <3>3 DEF WritersMove, N
    <3>7. QED
      BY <3>4, <3>5, <3>6
  <2>3. ASSUME NEW e \in Dmabufs PROVE DmaMove(e, t)
    <3>1. t \in DmaHolders(e)' <=> t \in DmaHolders(e)
      BY <1>17, <2>1, Places
    <3>2. QED
      BY <1>1, <3>1, DmaEven DEF DmaMove, N
  <2>4. ASSUME NEW g \in Files PROVE FileMove(g, NULL)
    <3>1. /\ tf[g].kref \in Nat /\ (Held(g)' <=> Held(g))
      BY <1>25 DEF IInv, TypeOK
    <3>2. NULL \notin ObjsOf(g) /\ NULL \notin ObjsOf(g)'
      BY ObjectAssumption DEF ObjsOf
    <3>3. QED
      BY <1>1, <3>1, <3>2 DEF FileMove, N
  <2>5. MemMove(r, NULL)
    <3>1. r \in RefsUsed' /\ r \notin RefsUsed /\ DmaUsed' = DmaUsed
      BY <1>1, <1>6, <1>7, <1>9, <1>14, Unmoved DEF RefsUsed
    <3>2. QED
      BY <1>11, <3>1 DEF MemMove, N
  <2>6. QED
    BY <1>1, <1>14, <1>15, <1>17, <1>18, <2>2, <2>3, <2>4, <2>5, CountsMove
<1>30. QED
  BY <1>17, <1>18, <1>20, <1>22, <1>23, <1>26, <1>27, <1>28, <1>29, Together

\* Nobody is in a call, and nothing is there.
LEMMA InitInv ==
  ASSUME Careful, Init
  PROVE  IInv
<1>1. /\ \A o \in Objs : base[o] = NoBase /\ bo[o] = NoBo
      /\ \A r \in Refs : ref[r] = NoRef
      /\ \A d \in Dmabufs : dma[d] = NoDma
      /\ \A f \in Files : ~tf[f].open /\ tf[f].kref = 0
      /\ \A t \in Threads : th[t] = Idle
      /\ mem = 0
  BY DEF Init
<1>2. TypeOK
  <2>1. /\ NoBase \in BaseType /\ NoBo \in BoType /\ NoRef \in RefType /\ NoDma \in DmaType
        /\ Idle \in ThreadType
    <3>1. 0 \in 0..MaxDup /\ 0 \in 0..MaxFds
      BY ObjectAssumption
    <3>2. NoBase \in BaseType /\ NoBo \in BoType
      BY DEF NoBase, NoBo, BaseType, BoType
    <3>3. NoRef \in RefType /\ NoDma \in DmaType
      BY <3>1 DEF NoRef, NoDma, RefType, DmaType, RefTypes
    <3>4. Idle \in ThreadType
      BY DEF Idle, ThreadType, Ops, Steps, RefTypes
    <3>5. QED
      BY <3>2, <3>3, <3>4
  <2>2. /\ base \in [Objs -> BaseType] /\ bo \in [Objs -> BoType] /\ ref \in [Refs -> RefType]
        /\ dma \in [Dmabufs -> DmaType] /\ th \in [Threads -> ThreadType]
    BY <2>1 DEF Init
  <2>3. tf \in [Files -> [open : BOOLEAN, kref : Nat]] /\ mem \in Nat
    BY DEF Init
  <2>4. QED
    BY <2>2, <2>3 DEF TypeOK, BaseType, BoType, RefType, DmaType, ThreadType
<1>3. ASSUME NEW t \in Threads PROVE Local(th[t]) /\ Knows(th[t])
  <2>1. th[t] = Idle
    BY <1>1
  <2>2. Local(Idle) /\ Knows(Idle)
    BY DEF Idle, Local, InCall, FreesRef, HoldsDma, Knows, OfFile, PreInit, Relies
  <2>3. QED
    BY <2>1, <2>2
<1>4. ASSUME NEW t \in Threads, NEW u \in Threads PROVE Apart(th[t], th[u])
  <2>1. th[t] = Idle /\ th[u] = Idle
    BY <1>1
  <2>2. Apart(Idle, Idle)
    BY DEF Idle, Apart, PreInit, FreesRef
  <2>3. QED
    BY <2>1, <2>2
<1>5. ASSUME NEW o \in Objs PROVE BufferOK(o) /\ DmabufNamed(o)
  <2>1. base[o] = NoBase /\ bo[o] = NoBo /\ o # NULL
    BY <1>1, ObjectAssumption
  <2>2. /\ base[o].st = "none" /\ base[o].dma_buf = NULL
        /\ bo[o].kref = 0 /\ bo[o].backup = NULL
    BY <2>1 DEF NoBase, NoBo
  <2>3. BufferOK(o)
    BY <2>1, <2>2, "none" # "live", "none" # "dead", "none" # "leaked" DEF BufferOK
  <2>4. \A d \in Dmabufs : dma[d].obj = NULL
    BY <1>1 DEF NoDma
  <2>5. DmabufNamed(o)
    BY <2>1, <2>2, <2>4 DEF DmabufNamed
  <2>6. QED
    BY <2>3, <2>5
<1>6. ASSUME NEW r \in Refs PROVE RefOK(r)
  BY <1>1 DEF RefOK, NoRef
<1>7. ASSUME NEW d \in Dmabufs PROVE DmaOK(d)
  BY <1>1 DEF DmaOK, NoDma
<1>8. Counted
  <2>1. Cardinality({}) = 0
    BY FS_EmptySet
  <2>2. ASSUME NEW o \in Objs PROVE BaseCounted(o) /\ BoCounted(o) /\ WritersCounted(o)
    <3>1. o # NULL /\ base[o] = NoBase /\ bo[o] = NoBo
      BY <1>1, ObjectAssumption
    <3>2. RefsTo(o) = {} /\ WriterRefs(o) = {}
      BY <1>1, <3>1 DEF RefsTo, WriterRefs, NoRef
    <3>3. DmaOf(o) = {}
      BY <1>1, <3>1 DEF DmaOf, NoDma
    <3>4. Owners(o) = {} /\ Heirs(o) = {} /\ Writers(o) = {} /\ BoHolders(o) = {}
      BY <1>1, <3>1 DEF Owners, Heirs, Writers, BoHolders, Idle
    <3>5. QED
      BY <2>1, <3>1, <3>2, <3>3, <3>4 DEF BaseCounted, BoCounted, WritersCounted, NoBase, NoBo
  <2>3. ASSUME NEW d \in Dmabufs PROVE DmaCounted(d)
    BY <1>1 DEF DmaCounted, NoDma
  <2>4. ASSUME NEW f \in Files PROVE FileCounted(f)
    <3>1. f # NULL /\ ~Held(f)
      BY <1>1, ObjectAssumption DEF Held, Closing, Idle
    <3>2. ObjsOf(f) = {}
      BY <1>1, <3>1 DEF ObjsOf, NoBase
    <3>3. QED
      BY <1>1, <2>1, <3>1, <3>2 DEF FileCounted
  <2>5. mem = Cardinality(RefsUsed) + Cardinality(DmaUsed)
    <3>1. RefsUsed = {} /\ DmaUsed = {}
      BY <1>1 DEF RefsUsed, DmaUsed, NoRef, NoDma
    <3>2. QED
      BY <1>1, <2>1, <3>1
  <2>6. QED
    BY <2>2, <2>3, <2>4, <2>5 DEF Counted
<1>9. QED
  BY <1>2, <1>3, <1>4, <1>5, <1>6, <1>7, <1>8 DEF IInv

\* The cases of ttm_ref_object_add.
LEMMA AddInv ==
  ASSUME Careful, IInv, NEW t \in Threads, RefFind(t) \/ RefInsert(t)
  PROVE  IInv'
<1>1. CASE RefFind(t)
  <2>1. UNCHANGED <<base, bo, dma, tf, mem>>
    BY <1>1, Zenon DEF RefFind
  <2>2. PICK F : F = Find(th[t].file, th[t].obj, th[t].type)
    OBVIOUS
  <2>3. \/ ref' = ref /\ (Return(t, "error") \/ Continue(t, "ref_insert"))
        \/ /\ F # {} /\ \A r \in F : ref[r].kref < MaxDup
           /\ ref' = [r \in Refs |-> IF r \in F THEN [ref[r] EXCEPT !.kref = @ + 1] ELSE ref[r]]
           /\ Return(t, "existed")
    BY <1>1, <2>2, Zenon DEF RefFind
  <2>4. CASE ref' = ref /\ (Return(t, "error") \/ Continue(t, "ref_insert"))
    BY <1>1, <2>1, <2>4, AddFailsInv
  <2>5. CASE /\ F # {} /\ \A r \in F : ref[r].kref < MaxDup
             /\ ref' = [r \in Refs |-> IF r \in F THEN [ref[r] EXCEPT !.kref = @ + 1] ELSE ref[r]]
             /\ Return(t, "existed")
    BY <1>1, <2>2, <2>5, RefFoundInv
  <2>6. QED
    BY <2>3, <2>4, <2>5
<1>2. CASE RefInsert(t)
  <2>1. /\ UNCHANGED <<bo, dma, tf>>
        /\ \/ /\ Return(t, "error") \/ Continue(t, "ref_find")
              /\ UNCHANGED <<ref, base, mem>>
           \/ mem' = mem + 1
    BY <1>2, Zenon DEF RefInsert
  <2>2. CASE mem' = mem + 1
    BY <1>2, <2>2, RefInsertInv
  <2>3. CASE (Return(t, "error") \/ Continue(t, "ref_find")) /\ UNCHANGED <<ref, base, mem>>
    BY <1>2, <2>1, <2>3, AddFailsInv
  <2>4. QED
    BY <2>1, <2>2, <2>3
<1>3. QED
  BY <1>1, <1>2

\* The cases of the export.
LEMMA ExportInv ==
  ASSUME Careful, IInv, NEW t \in Threads, Export(t)
  PROVE  IInv'
<1>1. UNCHANGED <<base, mem>> \/ mem' = mem + 1
  BY Zenon DEF Export
<1>2. QED
  BY <1>1, ExportOldInv, ExportNewInv

LEMMA NextInv ==
  ASSUME Careful, IInv, [Next]_vars
  PROVE  IInv'
<1>1. ASSUME NEW t \in Threads, Step(t) PROVE IInv'
  <2>1. CASE BaseInited(t)
    BY <2>1, BaseInitedInv
  <2>2. CASE ttm_base_object_unref(t)
    BY <2>2, BasePutInv
  <2>3. CASE ttm_release_base(t)
    BY <2>3, ReleaseInv
  <2>4. CASE vmw_dmabuf_unreference(t)
    BY <2>4, UnreferenceInv
  <2>5. CASE RefFind(t) \/ RefInsert(t)
    BY <2>5, AddInv
  <2>6. CASE RefObjRelease(t)
    BY <2>6, RefObjReleaseInv
  <2>7. CASE RefClear(t)
    BY <2>7, RefClearInv
  <2>8. CASE RefFree(t)
    BY <2>8, RefFreeInv
  <2>9. CASE ttm_object_file_release(t)
    BY <2>9, FileReleaseInv
  <2>10. CASE Lookup(t) \/ LookupLoad(t)
    BY <2>10, LookupInv
  <2>11. CASE LookupGet(t)
    BY <2>11, LookupGetInv
  <2>12. CASE BoGet(t)
    BY <2>12, BoGetInv
  <2>13. CASE WriteGrab(t)
    BY <2>13, WriteGrabInv
  <2>14. CASE Grabbed(t)
    BY <2>14, GrabbedInv
  <2>15. CASE Export(t)
    BY <2>15, ExportInv
  <2>16. CASE DmaBufFd(t)
    BY <2>16, DmaBufFdInv
  <2>17. CASE DmaBufPut(t)
    BY <2>17, DmaBufPutInv
  <2>18. CASE ttm_prime_dmabuf_release(t)
    BY <2>18, DmaReleaseInv
  <2>19. QED
    BY <1>1, <2>1, <2>2, <2>3, <2>4, <2>5, <2>6, <2>7, <2>8, <2>9, <2>10, <2>11, <2>12, <2>13, <2>14,
       <2>15, <2>16, <2>17, <2>18 DEF Step
<1>2. ASSUME NEW t \in Threads, Call(t) PROVE IInv'
  <2>1. ASSUME NEW f \in Files, NEW o \in Objs, NEW share \in BOOLEAN,
               vmw_user_dmabuf_alloc(t, f, o, share)
        PROVE  IInv'
    BY <2>1, AllocInv
  <2>2. ASSUME NEW f \in Files, NEW o \in Objs, NEW type \in RefTypes,
               ttm_ref_object_base_unref(t, f, o, type)
        PROVE  IInv'
    BY <2>2, UnrefInv
  <2>3. ASSUME NEW f \in Files, NEW o \in Objs,
               \/ Use(t, f, o) \/ vmw_user_dmabuf_synccpu_grab(t, f, o)
               \/ vmw_user_dmabuf_reference(t, f, o) \/ ttm_prime_handle_to_fd(t, f, o)
        PROVE  IInv'
    BY <2>3, BeginInv
  <2>4. ASSUME NEW f \in Files, NEW o \in Objs, LookupForRef(t, f, o) PROVE IInv'
    BY <2>4, LookupForRefInv
  <2>5. ASSUME NEW f \in Files, Close(t, f) PROVE IInv'
    BY <2>5, CloseInv
  <2>6. ASSUME NEW d \in Dmabufs, CloseFd(t, d) PROVE IInv'
    BY <2>6, CloseFdInv
  <2>7. ASSUME NEW d \in Dmabufs, NEW f \in Files, ttm_prime_fd_to_handle(t, f, d) PROVE IInv'
    BY <2>7, FromFdInv
  <2>8. QED
    BY <1>2, <2>1, <2>2, <2>3, <2>4, <2>5, <2>6, <2>7, Zenon DEF Call
<1>3. ASSUME NEW f \in Files, ttm_object_file_init(f) PROVE IInv'
  BY <1>3, FileInitInv
<1>4. ASSUME NEW o \in Objs, SurfaceDestroyed(o) PROVE IInv'
  BY <1>4, SurfaceDestroyedInv
<1>5. CASE UNCHANGED vars
  <2>1. UNCHANGED <<base, bo, ref, dma, tf, mem>> /\ th' = th
    BY <1>5 DEF vars
  <2>2. TypeOK'
    BY <2>1 DEF IInv, TypeOK
  <2>3. \A f : Held(f)' <=> Held(f)
    BY <2>1, Unmoved DEF Held
  <2>4. ASSUME NEW u \in Threads PROVE Knows(th[u])'
    <3>1. Knows(th[u]) /\ th'[u] = th[u]
      BY <2>1 DEF IInv
    <3>2. Relies(th[u]) => HasHandle(th[u].file, th[u].obj)'
      BY <2>1, <3>1, Unmoved DEF Knows
    <3>3. QED
      BY <2>1, <3>1, <3>2, KnowsStays DEF Knows
  <2>5. ASSUME NEW o \in Objs PROVE BufferOK(o)' /\ DmabufNamed(o)'
    BY <2>1, Unmoved DEF IInv, BufferOK, DmabufNamed
  <2>6. ASSUME NEW r \in Refs PROVE RefOK(r)'
    BY <2>1, <2>3 DEF IInv, RefOK
  <2>7. ASSUME NEW d \in Dmabufs PROVE DmaOK(d)'
    BY <2>1 DEF IInv, DmaOK
  <2>8. Counted'
    <3>1. Counted
      BY DEF IInv
    <3>2. /\ \A x : /\ Owners(x)' = Owners(x) /\ Heirs(x)' = Heirs(x) /\ Writers(x)' = Writers(x)
                    /\ BoHolders(x)' = BoHolders(x) /\ DmaHolders(x)' = DmaHolders(x)
                    /\ RefsTo(x)' = RefsTo(x) /\ WriterRefs(x)' = WriterRefs(x)
                    /\ DmaOf(x)' = DmaOf(x) /\ ObjsOf(x)' = ObjsOf(x)
          /\ RefsUsed' = RefsUsed /\ DmaUsed' = DmaUsed
      BY <2>1, Unmoved
    <3>3. QED
      BY <2>1, <2>3, <3>1, <3>2 DEF Counted, BaseCounted, BoCounted, WritersCounted, DmaCounted, FileCounted
  <2>9. QED
    BY <2>1, <2>2, <2>4, <2>5, <2>6, <2>7, <2>8, Still
<1>6. QED
  BY <1>1, <1>2, <1>3, <1>4, <1>5 DEF Next

\* Whatever calls the threads make, in whatever order their critical sections and
\* atomic operations come (ttm_object.c): every count is the number of those who
\* hold it, and each thread knows why what it uses is there.
THEOREM Invariant == ASSUME Careful PROVE Spec => []IInv
<1>1. Init => IInv
  BY InitInv
<1>2. IInv /\ [Next]_vars => IInv'
  BY NextInv
<1>3. QED
  BY <1>1, <1>2, PTL DEF Spec

\* Objects, reference objects, dma-bufs, files and calls keep their types; no
\* count of ttm_object.c goes below zero.
THEOREM TypeCorrect == ASSUME Careful PROVE Spec => []TypeOK
<1>1. IInv => TypeOK
  BY DEF IInv
<1>2. QED
  BY <1>1, Invariant, PTL

\* The count of a base object is the number of reference objects, dma-bufs and
\* calls that will drop a reference (ttm_base_object_unref), exactly once.
THEOREM BaseRefcount == ASSUME Careful PROVE Spec => []RefcountIsHolders
<1>1. IInv => RefcountIsHolders
  BY DEF IInv, Counted, BaseCounted, RefcountIsHolders, RefsTo, DmaOf
<1>2. QED
  BY <1>1, Invariant, PTL

\* A base object on which ttm_release_base runs, or has run, is referenced no more.
THEOREM NotRevived == ASSUME Careful PROVE Spec => []ReleasedForGood
<1>1. IInv => ReleasedForGood
  BY DEF IInv, Knows, Releasing, BufferOK, ReleasedForGood
<1>2. QED
  BY <1>1, Invariant, PTL

\* cpu_writers counts the grabs of vmw_user_dmabuf_synccpu_ioctl that have a
\* reference object, and those that will be undone.
THEOREM WritersCount == ASSUME Careful PROVE Spec => []WritersAreGrabs
<1>1. IInv => WritersAreGrabs
  BY DEF IInv, Counted, WritersCounted, WritersAreGrabs, WriterRefs, Writers
<1>2. QED
  BY <1>1, Invariant, PTL

\* prime->dma_buf names the dma-buf of the object that can still be had, and
\* nothing when the object is released (ttm_prime_refcount_release).
THEOREM DmabufKnown == ASSUME Careful PROVE Spec => []DmabufIsKnown
<1>1. ASSUME Careful, IInv PROVE DmabufIsKnown
  <2>1. ASSUME NEW o \in Objs, NEW t \in Threads, Releasing(t), th[t].obj = o
        PROVE  base[o].dma_buf = NULL
    <3>1. base[o].kref = 0
      BY <1>1, <2>1 DEF IInv, Knows, Releasing
    <3>2. \A d \in Dmabufs : dma[d].obj # o
      BY <1>1, <3>1, NoneIsEmpty
    <3>3. QED
      BY <1>1, <3>2 DEF IInv, TypeOK, DmabufNamed
  <2>2. QED
    BY <1>1, <2>1 DEF IInv, DmabufNamed, Doomed, DmabufIsKnown
<1>2. QED
  BY <1>1, Invariant, PTL

\* A file lives until it is closed and the last object made with it is released
\* (ttm_object_file_ref, ttm_release_base), and a closed one has no handles.
THEOREM FilesLive == ASSUME Careful PROVE Spec => []FilesOutliveObjects
<1>1. IInv => FilesOutliveObjects
  <2>1. ASSUME IInv, NEW f \in Files PROVE FileCounted(f) /\ \A r \in Refs : RefOK(r)
    BY <2>1 DEF IInv, Counted
  <2>2. QED
    BY <2>1 DEF FileCounted, RefOK, Held, Closing, ObjsOf, FilesOutliveObjects
<1>2. QED
  BY <1>1, Invariant, PTL
=============================================================================
