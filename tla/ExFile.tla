------------------------------- MODULE ExFile -------------------------------
(***************************************************************************)
(* The auto-extending, partially memory-mapped file of                    *)
(* src/src/fs/iwexfile.c (struct IWFS_EXT_IMPL) shared by several threads. *)
(*                                                                         *)
(* State of the implementation:                                            *)
(*   fsize  impl->fsize                                                    *)
(*   slots  the MMAPSLOTs of impl->mmslots, as a function from a slot's    *)
(*          off to [maxlen, len, mmap, next, prev]; next and prev are the  *)
(*          offs of the linked slots (a slot is identified by its off)     *)
(*   mmslots  impl->mmslots: the off of the head slot, or NULL             *)
(*   rsctx  impl->rspolicy_ctx (NULL, or prev_sz of the Fibonacci policy)  *)
(*   lock   impl->rwlock: the writer and the set of readers                *)
(* State of the operating system the code relies on:                       *)
(*   dsize  the size of the file on disk (set by iwp_ftruncate)            *)
(*   maps   the live mappings, a bag of regions [off, len] (mmap/munmap)   *)
(* State of the calling threads:                                           *)
(*   pc     the operation each thread is in and where it is               *)
(*   io     the byte ranges the current read/write/copy of a thread moved, *)
(*          each through a mapping (memcpy/memmove) or positional I/O      *)
(*   nfaults  the number of failed system calls so far                     *)
(*                                                                         *)
(* Offsets and sizes are in bytes; PSIZE is kept small so that rounding   *)
(* is visible.  Every _lw function of the code runs inside one step of    *)
(* the thread holding the write lock; only lock hand-overs split calls.   *)
(***************************************************************************)
EXTENDS Integers, FiniteSets, Sequences, SequencesExt, Bags, ResizePolicy

CONSTANTS
  Threads, NoThread,   \* calling threads; NoThread is a model value
  MAP_FAILED,          \* a pointer value that is not a mapping (and NULL)
  MAXOFF,              \* impl->maxoff (0: unlimited), already page aligned
  WRITABLE,            \* impl->omode & IWFS_OWRITE
  RSPOLICY,            \* "default" | "fibo" | "mul"
  FAULTS,              \* calls that may fail: "ftruncate", "mmap", "munmap", "calloc"
  MAX_FAULTS,          \* bound on the number of failed system calls
  InitSizes,           \* page-aligned sizes the file may have when opened
  IoReqs,              \* [off, siz] arguments of read and write
  TruncSizes,          \* arguments of truncate
  EnsureSizes,         \* arguments of ensure_size
  MmapReqs,            \* [off, maxlen] arguments of add_mmap
  SlotOffs,            \* off arguments of remove_mmap and acquire_mmap
  CopyReqs             \* [off, siz, noff] arguments of copy

ASSUME NoThread \notin Threads
ASSUME MAXOFF \in Nat /\ MAXOFF % PSIZE = 0 /\ MAXOFF <= OFF_T_MAX
ASSUME RSPOLICY \in {"default", "fibo", "mul"}
ASSUME FAULTS \subseteq {"ftruncate", "mmap", "munmap", "calloc"}
ASSUME \A s \in InitSizes : s % PSIZE = 0 /\ (MAXOFF > 0 => s <= MAXOFF)

VARIABLES fsize, dsize, slots, mmslots, maps, rsctx, lock, pc, io, nfaults

vars == <<fsize, dsize, slots, mmslots, maps, rsctx, lock, pc, io, nfaults>>
impl == <<fsize, dsize, slots, mmslots, maps, rsctx>>

Offsets == 0 .. OFF_T_MAX
Region == [off : Offsets, len : 1 .. OFF_T_MAX]
Ptr == Region \cup {NULL, MAP_FAILED}
Link == Offsets \cup {NULL}
Slot == [maxlen : 1 .. OFF_T_MAX, len : 0 .. OFF_T_MAX, mmap : Ptr,
         next : Link, prev : Link]
RC == {"OK", "READONLY", "MAXOFF", "RESIZE_POLICY_FAIL", "ERRNO",
       "NOT_ALIGNED", "OUT_OF_BOUNDS", "MMAP_OVERLAP", "NOT_MMAPED"}
Idle == [op |-> "idle", at |-> "idle", off |-> 0, siz |-> 0, noff |-> 0,
         ptr |-> NULL, rc |-> "OK"]

MinOf(a, b) == IF a <= b THEN a ELSE b
Live(mp) == BagToSet(mp)
SortedOffs(sl) == SetToSortSeq(DOMAIN sl, <)
NoSlots == [o \in {} |-> NULL]

(***************************************************************************)
(* The implementation state threaded through an _lw function: the         *)
(* variables it may change, the return code, and the one system call      *)
(* chosen to fail in this step (fault, consumed when it fires), and the   *)
(* write bit of impl->omode and what impl->fh is: the descriptor of the   *)
(* file ("file"), no open descriptor ("bad") or that of another file.     *)
(***************************************************************************)
NoFault == [call |-> "none", off |-> -1]
Faults == {NoFault} \cup
          IF nfaults < MAX_FAULTS
          THEN [call : FAULTS, off : {-1} \cup Offsets] ELSE {}
Cur(fault) == [fsize |-> fsize, dsize |-> dsize, slots |-> slots, mmslots |-> mmslots,
               maps |-> maps, rsctx |-> rsctx, rc |-> "OK",
               fault |-> fault, fired |-> FALSE,
               omode |-> WRITABLE, fh |-> "file"]
Fails(st, call, o) == st.fault.call = call /\ st.fault.off = o
Fire(st) == [st EXCEPT !.fault = NoFault, !.fired = TRUE]
Fail(st, rc) == [st EXCEPT !.rc = IF st.rc = "OK" THEN rc ELSE st.rc]

\* iwp_ftruncate(impl->fh, n): ftruncate rejects a negative length (EINVAL)
\* and a descriptor that is not open (EBADF), and resizes whichever file
\* the descriptor is open on.
FTruncate(st, n) ==
  IF n < 0 \/ st.fh = "bad" THEN [st |-> st, ok |-> FALSE]
  ELSE IF Fails(st, "ftruncate", -1) THEN [st |-> Fire(st), ok |-> FALSE]
  ELSE [st |-> [st EXCEPT !.dsize = IF st.fh = "file" THEN n ELSE @], ok |-> TRUE]

\* munmap(p, len) of the slot at o: a pointer that is not a live mapping
\* (MAP_FAILED) is rejected with EINVAL; a failed munmap leaves the
\* mapping in place.
MUnmap(st, o, p) ==
  IF p \notin Live(st.maps) THEN [st |-> st, ok |-> FALSE]
  ELSE IF Fails(st, "munmap", o) THEN [st |-> Fire(st), ok |-> FALSE]
  ELSE [st |-> [st EXCEPT !.maps = @ (-) SetToBag({p})], ok |-> TRUE]

\* mmap(0, nlen, prot, MAP_SHARED, fh, o).
MMap(st, o, nlen) ==
  IF Fails(st, "mmap", o) THEN [st |-> Fire(st), ptr |-> MAP_FAILED]
  ELSE LET p == [off |-> o, len |-> nlen]
       IN  [st |-> [st EXCEPT !.maps = @ (+) SetToBag({p})], ptr |-> p]

\* Variant of InitSlotLw that never shrinks a mapping (a slip in the
\* "nlen == s->len" early return), for checking that SlotsRealised sees it.
InitSlotLwNoShrink(st, o, s) ==
  LET nlen == IF o >= st.fsize THEN 0 ELSE MinOf(s.maxlen, st.fsize - o)
      m    == MMap(st, o, nlen)
  IN  IF nlen <= s.len THEN [st |-> st, s |-> s, ok |-> TRUE]
      ELSE [st |-> m.st, s |-> [s EXCEPT !.len = nlen, !.mmap = m.ptr],
            ok |-> m.ptr # MAP_FAILED]

\* _exfile_initmmap_slot_lw: bring the mapping of slot s (at offset o) in
\* line with st.fsize.  Note that len is set before mmap is called and is
\* left at nlen when mmap fails.
InitSlotLw(st, o, s) ==
  LET nlen == IF o >= st.fsize THEN 0 ELSE MinOf(s.maxlen, st.fsize - o)
      u    == IF s.len > 0 THEN MUnmap(st, o, s.mmap) ELSE [st |-> st, ok |-> TRUE]
      s0   == [s EXCEPT !.len = 0]
      m    == MMap(u.st, o, nlen)
  IN  IF nlen = s.len THEN [st |-> st, s |-> s, ok |-> TRUE]
      ELSE IF ~u.ok THEN [st |-> u.st, s |-> s0, ok |-> FALSE]
      ELSE IF nlen = 0 THEN [st |-> u.st, s |-> s0, ok |-> TRUE]
      ELSE [st |-> m.st, s |-> [s0 EXCEPT !.len = nlen, !.mmap = m.ptr],
            ok |-> m.ptr # MAP_FAILED]

\* _exfile_initmmap_lw: the slots in list order, stopping at the first error.
RECURSIVE InitFrom(_, _)
InitFrom(st, offs) ==
  IF offs = <<>> THEN [st |-> st, ok |-> TRUE]
  ELSE LET o  == Head(offs)
           r  == InitSlotLw(st, o, st.slots[o])
           st2 == [r.st EXCEPT !.slots[o] = r.s]
       IN  IF r.ok THEN InitFrom(st2, Tail(offs)) ELSE [st |-> st2, ok |-> FALSE]
InitMmapLw(st) == InitFrom(st, SortedOffs(st.slots))

\* Variant of TruncFail that re-initialises the slots but forgets to
\* restore the old size.
TruncFailKeepSize(st, old) ==
  LET r == InitMmapLw(st) IN Fail(r.st, "ERRNO")

\* Variant of TruncFail that assigns the rc of the re-initialisation
\* (rc = _exfile_initmmap_lw(f)) instead of keeping the ftruncate error.
TruncFailOverwrite(st, old) ==
  LET r == InitMmapLw([st EXCEPT !.fsize = old])
  IN  IF r.ok THEN r.st ELSE Fail(r.st, "ERRNO")

\* The truncfail label of _exfile_truncate_lw: restore the old size and
\* re-initialise the slots, keeping the first error.
TruncFail(st, old) ==
  LET r == InitMmapLw([st EXCEPT !.fsize = old]) IN Fail(r.st, "ERRNO")

\* off_t arithmetic: a value wrapped into the two's complement range whose
\* largest value is OFF_T_MAX (signed overflow wraps in the build).
OffT(x) == ((x + OFF_T_MAX + 1) % (2 * (OFF_T_MAX + 1))) - (OFF_T_MAX + 1)

\* IW_ROUNDUP(size, impl->psize) on an off_t: size + psize - 1 may wrap.
RoundUpOffT(size) == RoundDown(OffT(size + PSIZE - 1), PSIZE)

\* _exfile_truncate_lw.  Growing sets fsize, extends the file, then maps;
\* shrinking sets fsize, unmaps, then cuts the file.
TruncateLw(st, size) ==
  LET old == st.fsize
      nsz == RoundUpOffT(size)
      gft == FTruncate([st EXCEPT !.fsize = nsz], nsz)
      gin == InitMmapLw(gft.st)
      sin == InitMmapLw([st EXCEPT !.fsize = nsz])
      sft == FTruncate(sin.st, nsz)
  IN  IF old = size \/ old = nsz THEN st
      ELSE IF ~st.omode THEN Fail(st, "READONLY")
      ELSE IF old < nsz /\ MAXOFF > 0 /\ nsz > MAXOFF THEN Fail(st, "MAXOFF")
      ELSE IF old < nsz
           THEN IF ~gft.ok THEN TruncFail(gft.st, old)
                ELSE IF gin.ok THEN gin.st ELSE Fail(gin.st, "ERRNO")
      ELSE IF ~sin.ok THEN TruncFail(sin.st, old)
      ELSE IF ~sft.ok THEN TruncFail(sft.st, old)
      ELSE sft.st

\* _exfile_ensure_size_lw: ask the policy, validate, clamp to maxoff, and
\* truncate.  The policy context is updated even when its answer is refused.
EnsureSizeLw(st, sz) ==
  LET nomem == CallsCalloc(RSPOLICY, st.rsctx) /\ Fails(st, "calloc", -1)
      p     == ApplyPolicy(RSPOLICY, sz, st.fsize, st.rsctx, nomem)
      st1   == [(IF nomem THEN Fire(st) ELSE st) EXCEPT !.rsctx = p.ctx]
  IN  IF st.fsize >= sz THEN st
      ELSE IF ~Acceptable(sz, p.size) THEN Fail(st1, "RESIZE_POLICY_FAIL")
      ELSE IF MAXOFF > 0 /\ p.size > MAXOFF
           THEN IF MAXOFF < sz THEN Fail(st1, "MAXOFF") ELSE TruncateLw(st1, MAXOFF)
      ELSE TruncateLw(st1, p.size)

(***************************************************************************)
(* The slot registry.                                                      *)
(***************************************************************************)

\* IW_RANGES_OVERLAP(s->off, e1, ns->off, e2) on half-open ranges.
RangesOverlap(a1, a2, b1, b2) == a1 < b2 /\ b1 < a2

\* The offs of the slots met following next from s, at most n of them; a
\* dangling link ends the walk after the slot it names.
RECURSIVE Chain(_, _, _)
Chain(sl, s, n) ==
  IF s = NULL \/ n = 0 THEN <<>>
  ELSE IF s \notin DOMAIN sl THEN <<s>>
  ELSE <<s>> \o Chain(sl, sl[s].next, n - 1)

\* The list from impl->mmslots, one step longer than a well-formed list
\* can be, so that a cycle shows.
List(st) == Chain(st.slots, st.mmslots, Cardinality(DOMAIN st.slots) + 1)

\* Variant of AddWalk with the break test placed before the overlap test:
\* the first slot above the new one is never compared.
RECURSIVE AddWalkAfterBreak(_, _, _, _)
AddWalkAfterBreak(sl, ss, off, e2) ==
  IF ss = <<>> THEN [ovl |-> FALSE, at |-> NULL]
  ELSE LET s == Head(ss) IN
       IF off < s THEN [ovl |-> FALSE, at |-> s]
       ELSE IF RangesOverlap(s, s + sl[s].maxlen, off, e2) THEN [ovl |-> TRUE, at |-> s]
       ELSE AddWalkAfterBreak(sl, Tail(ss), off, e2)

\* The insertion loop of _exfile_add_mmap over the list ss: the first slot
\* that overlaps [off, e2) (MMAP_OVERLAP), or the first one above off, to
\* insert before, or NULL to insert at the end.
RECURSIVE AddWalk(_, _, _, _)
AddWalk(sl, ss, off, e2) ==
  IF ss = <<>> THEN [ovl |-> FALSE, at |-> NULL]
  ELSE LET s == Head(ss) IN
       IF RangesOverlap(s, s + sl[s].maxlen, off, e2) THEN [ovl |-> TRUE, at |-> s]
       ELSE IF off < s THEN [ovl |-> FALSE, at |-> s]
       ELSE AddWalk(sl, Tail(ss), off, e2)

\* Variant of LinkSlot that does not cut the old tail's next when the new
\* slot becomes the head.
LinkSlotNoTailCut(st, off, ns, at) ==
  LET h  == st.mmslots
      sl == st.slots
      l0 == sl @@ (off :> [ns EXCEPT !.next = at, !.prev = sl[at].prev])
      l1 == [l0 EXCEPT ![sl[at].prev].next = off]
      l2 == [l1 EXCEPT ![at].prev = off]
      t  == sl[h].prev
      e0 == sl @@ (off :> [ns EXCEPT !.next = NULL, !.prev = t])
      e1 == [e0 EXCEPT ![t].next = off]
  IN  IF h = NULL THEN [st EXCEPT !.slots = sl @@ (off :> [ns EXCEPT !.prev = off]), !.mmslots = off]
      ELSE IF at # NULL THEN [st EXCEPT !.slots = l2, !.mmslots = IF at = h THEN off ELSE h]
      ELSE [st EXCEPT !.slots = [e1 EXCEPT ![h].prev = off]]

\* The linking of _exfile_add_mmap: the first slot becomes the head, its
\* prev pointing to itself; otherwise ns goes before the slot at, or after
\* the tail (head->prev), and head->prev always names the tail, whose next
\* is 0.
LinkSlot(st, off, ns, at) ==
  LET h  == st.mmslots
      sl == st.slots
      l0 == sl @@ (off :> [ns EXCEPT !.next = at, !.prev = sl[at].prev])
      l1 == [l0 EXCEPT ![sl[at].prev].next = off]
      l2 == [l1 EXCEPT ![at].prev = off]
      l3 == IF at = h THEN [l2 EXCEPT ![l0[off].prev].next = NULL] ELSE l2
      t  == sl[h].prev
      e0 == sl @@ (off :> [ns EXCEPT !.next = NULL, !.prev = t])
      e1 == [e0 EXCEPT ![t].next = off]
  IN  IF h = NULL THEN [st EXCEPT !.slots = sl @@ (off :> [ns EXCEPT !.prev = off]), !.mmslots = off]
      ELSE IF at # NULL THEN [st EXCEPT !.slots = l3, !.mmslots = IF at = h THEN off ELSE h]
      ELSE [st EXCEPT !.slots = [e1 EXCEPT ![h].prev = off]]

\* Variant of UnlinkSlot whose middle case does not set s->next->prev.
UnlinkSlotMiddleNoPrev(st, off) ==
  LET h  == st.mmslots
      sl == st.slots
      s  == sl[off]
      u  == IF off = h
            THEN IF s.next # NULL THEN [sl EXCEPT ![s.next].prev = s.prev] ELSE sl
            ELSE IF sl[h].prev = off
            THEN [[sl EXCEPT ![s.prev].next = NULL] EXCEPT ![h].prev = s.prev]
            ELSE [sl EXCEPT ![s.prev].next = s.next]
  IN  [st EXCEPT !.slots = [o \in DOMAIN u \ {off} |-> u[o]],
                 !.mmslots = IF off = h THEN s.next ELSE h]

\* The unlinking of _exfile_remove_mmap_wl (head, tail, middle) and the
\* free of the slot.
UnlinkSlot(st, off) ==
  LET h  == st.mmslots
      sl == st.slots
      s  == sl[off]
      u  == IF off = h
            THEN IF s.next # NULL THEN [sl EXCEPT ![s.next].prev = s.prev] ELSE sl
            ELSE IF sl[h].prev = off
            THEN [[sl EXCEPT ![s.prev].next = NULL] EXCEPT ![h].prev = s.prev]
            ELSE [[sl EXCEPT ![s.prev].next = s.next] EXCEPT ![s.next].prev = s.prev]
  IN  [st EXCEPT !.slots = [o \in DOMAIN u \ {off} |-> u[o]],
                 !.mmslots = IF off = h THEN s.next ELSE h]

\* Variant of AddMmapLw without the saturation against OFF_T_MAX.
AddMmapLwUnsaturated(st, off, maxlen) ==
  LET m2 == RoundUp(maxlen, PSIZE)
      r  == InitSlotLw(st, off, [maxlen |-> m2, len |-> 0, mmap |-> NULL,
                                 next |-> NULL, prev |-> NULL])
      w  == AddWalk(st.slots, List(st), off, off + m2)
  IN  IF off % PSIZE # 0 THEN Fail(st, "NOT_ALIGNED")
      ELSE IF ~r.ok THEN Fail(r.st, "ERRNO")
      ELSE IF w.ovl THEN Fail(r.st, "MMAP_OVERLAP")
      ELSE LinkSlot(r.st, off, r.s, w.at)

\* _exfile_add_mmap: align and saturate maxlen, realise the new slot, then
\* test it against the existing slots and link it in.  On an error the new
\* slot is freed; its mapping, if one was made, is not unmapped.
AddMmapLw(st, off, maxlen) ==
  LET m1  == IF OFF_T_MAX - off < maxlen THEN OFF_T_MAX - off ELSE maxlen
      tmp == RoundUp(m1, PSIZE)
      m2  == IF tmp < m1 \/ OFF_T_MAX - off < tmp THEN RoundDown(m1, PSIZE) ELSE tmp
      r   == InitSlotLw(st, off, [maxlen |-> m2, len |-> 0, mmap |-> NULL,
                                  next |-> NULL, prev |-> NULL])
      w   == AddWalk(st.slots, List(st), off, off + m2)
  IN  IF off % PSIZE # 0 THEN Fail(st, "NOT_ALIGNED")
      ELSE IF m2 = 0 THEN Fail(st, "OUT_OF_BOUNDS")
      ELSE IF ~r.ok THEN Fail(r.st, "ERRNO")
      ELSE IF w.ovl THEN Fail(r.st, "MMAP_OVERLAP")
      ELSE LinkSlot(r.st, off, r.s, w.at)

\* Variant of RemoveMmapWl that unlinks and frees the slot but never
\* calls munmap.
RemoveMmapWlKeepMapping(st, off) ==
  IF off \notin Range(List(st)) THEN Fail(st, "NOT_MMAPED")
  ELSE UnlinkSlot(st, off)

\* _exfile_remove_mmap_wl: find the slot along the list, unlink it, then unmap it if it is mapped;
\* the slot is freed even when munmap fails.
RemoveMmapWl(st, off) ==
  LET s  == st.slots[off]
      st1 == UnlinkSlot(st, off)
      u  == MUnmap(st1, off, s.mmap)
  IN  IF off \notin Range(List(st)) THEN Fail(st, "NOT_MMAPED")
      ELSE IF s.len = 0 THEN st1
      ELSE IF u.ok THEN u.st ELSE Fail(u.st, "ERRNO")

(***************************************************************************)
(* The interval walk shared by _exfile_read and _exfile_write: each byte   *)
(* range [lo, hi) goes through positional I/O (kind "pos") or a memcpy at *)
(* ptr + (lo - slot off) (kind "mem").  Positional calls move every byte  *)
(* they are asked for (the file is never shorter than fsize).             *)
(***************************************************************************)
Seg(kind, ptr, base, lo, hi) == [kind |-> kind, ptr |-> ptr, base |-> base, lo |-> lo, hi |-> hi]

\* Variant of Walk whose gap write forgets "off = off + *sp".
RECURSIVE WalkNoAdvance(_, _, _, _, _)
WalkNoAdvance(sl, offs, off, rp, acc) ==
  IF offs = <<>> \/ rp <= 0 \/ sl[Head(offs)].len = 0 \/ rp + off <= Head(offs)
  THEN IF rp > 0 THEN acc \cup {Seg("pos", NULL, off, off, off + rp)} ELSE acc
  ELSE LET o   == Head(offs)
           s   == sl[o]
           gap == IF o > off THEN MinOf(rp, o - off) ELSE 0
           off1 == off
           rp1  == rp - gap
           mem == IF rp1 > 0 /\ o <= off1 /\ o + s.len > off1
                  THEN MinOf(rp1, o + s.len - off1) ELSE 0
           acc1 == acc \cup (IF gap > 0 THEN {Seg("pos", NULL, off, off, off1)} ELSE {})
                       \cup (IF mem > 0 THEN {Seg("mem", s.mmap, o, off1, off1 + mem)} ELSE {})
       IN  WalkNoAdvance(sl, Tail(offs), off1 + mem, rp1 - mem, acc1)

RECURSIVE Walk(_, _, _, _, _)
Walk(sl, offs, off, rp, acc) ==
  IF offs = <<>> \/ rp <= 0 \/ sl[Head(offs)].len = 0 \/ rp + off <= Head(offs)
  THEN IF rp > 0 THEN acc \cup {Seg("pos", NULL, off, off, off + rp)} ELSE acc
  ELSE LET o   == Head(offs)
           s   == sl[o]
           gap == IF o > off THEN MinOf(rp, o - off) ELSE 0
           off1 == off + gap
           rp1  == rp - gap
           mem == IF rp1 > 0 /\ o <= off1 /\ o + s.len > off1
                  THEN MinOf(rp1, o + s.len - off1) ELSE 0
           acc1 == acc \cup (IF gap > 0 THEN {Seg("pos", NULL, off, off, off1)} ELSE {})
                       \cup (IF mem > 0 THEN {Seg("mem", s.mmap, o, off1, off1 + mem)} ELSE {})
       IN  Walk(sl, Tail(offs), off1 + mem, rp1 - mem, acc1)

\* The byte count _exfile_read moves: short at end of file.
ReadLen(off, siz, fsz) == IF off + siz > fsz THEN fsz - off ELSE siz
ReadIO(off, siz) == Walk(slots, SortedOffs(slots), off, ReadLen(off, siz, fsize), {})
WriteIO(sl, off, siz) == Walk(sl, SortedOffs(sl), off, siz, {})

(***************************************************************************)
(* Threads.  A call that starts by taking a lock is one step from idle    *)
(* when the lock is free; the write path's lock upgrade and the release   *)
(* of the lock are steps of their own, so other threads run in between.   *)
(***************************************************************************)
RFree == lock.writer = NoThread
WFree == lock.writer = NoThread /\ lock.readers = {}
AddReader(t) == lock' = [lock EXCEPT !.readers = @ \cup {t}]
\* _exfile_unlock / _exfile_unlock2: pthread_rwlock_unlock releases whichever
\* lock the calling thread holds.
Unlocked(t) == [writer |-> IF lock.writer = t THEN NoThread ELSE lock.writer,
                readers |-> lock.readers \ {t}]
Call(op, at, off, siz, noff, ptr, rc) ==
  [op |-> op, at |-> at, off |-> off, siz |-> siz, noff |-> noff, ptr |-> ptr, rc |-> rc]
Apply(st) ==
  /\ fsize' = st.fsize
  /\ dsize' = st.dsize
  /\ slots' = st.slots
  /\ mmslots' = st.mmslots
  /\ maps' = st.maps
  /\ rsctx' = st.rsctx
  /\ nfaults' = nfaults + (IF st.fired THEN 1 ELSE 0)
\* A chosen failure must happen in the step; otherwise it is no failure.
Faulted(fault, st) == fault = NoFault \/ st.fired

\* _exfile_write up to its first lock: the maxoff test comes before the
\* lock (a request past maxoff returns IWFS_ERROR_MAXOFF and changes
\* nothing); under the read lock a write that fits is done at once.
WriteBegin(t, r) ==
  /\ pc[t].op = "idle" /\ RFree
  /\ MAXOFF = 0 \/ r.off + r.siz <= MAXOFF
  /\ AddReader(t)
  /\ IF r.off + r.siz > fsize
     THEN /\ pc' = [pc EXCEPT ![t] = Call("write", "upgrade", r.off, r.siz, 0, NULL, "OK")]
          /\ UNCHANGED io
     ELSE /\ pc' = [pc EXCEPT ![t] = Call("write", "finish", r.off, r.siz, 0, NULL, "OK")]
          /\ io' = [io EXCEPT ![t] = WriteIO(slots, r.off, r.siz)]
  /\ UNCHANGED <<impl, nfaults>>

\* _exfile_ensure_size up to its first lock.
EnsureBegin(t, sz) ==
  /\ pc[t].op = "idle" /\ RFree
  /\ AddReader(t)
  /\ pc' = [pc EXCEPT ![t] = Call("ensure", IF fsize >= sz THEN "finish" ELSE "upgrade",
                                  0, sz, 0, NULL, "OK")]
  /\ UNCHANGED <<impl, io, nfaults>>

\* Variant of Upgrade that forgets _exfile_unlock2 before _exfile_wlock.
UpgradeKeepsLock(t) ==
  /\ pc[t].at = "upgrade"
  /\ pc' = [pc EXCEPT ![t].at = "wlock"]
  /\ UNCHANGED <<impl, lock, io, nfaults>>

\* The upgrade of _exfile_write and _exfile_ensure_size: drop the read lock.
Upgrade(t) ==
  /\ pc[t].at = "upgrade"
  /\ lock' = Unlocked(t)
  /\ pc' = [pc EXCEPT ![t].at = "wlock"]
  /\ UNCHANGED <<impl, io, nfaults>>

\* ... then take the write lock (_exfile_wlock) ...
WLock(t) ==
  /\ pc[t].at = "wlock" /\ WFree
  /\ lock' = [lock EXCEPT !.writer = t]
  /\ pc' = [pc EXCEPT ![t].at = "grow"]
  /\ UNCHANGED <<impl, io, nfaults>>

\* ... re-test the size and grow the file with _exfile_ensure_size_lw; a
\* write then walks the slots under the write lock.
Grow(t) ==
  /\ pc[t].at = "grow"
  /\ \E fault \in Faults :
     \E st \in {IF pc[t].off + pc[t].siz > fsize
                THEN EnsureSizeLw(Cur(fault), pc[t].off + pc[t].siz)
                ELSE Cur(fault)} :
           /\ Faulted(fault, st)
           /\ Apply(st)
           /\ pc' = [pc EXCEPT ![t].at = "finish", ![t].rc = st.rc]
           /\ io' = IF pc[t].op = "write" /\ st.rc = "OK"
                    THEN [io EXCEPT ![t] = WriteIO(st.slots, pc[t].off, pc[t].siz)]
                    ELSE io
  /\ UNCHANGED lock

\* _exfile_read: the whole walk under the read lock.
ReadBegin(t, r) ==
  /\ pc[t].op = "idle" /\ RFree
  /\ AddReader(t)
  /\ pc' = [pc EXCEPT ![t] = Call("read", "finish", r.off, r.siz, 0, NULL, "OK")]
  /\ io' = [io EXCEPT ![t] = ReadIO(r.off, r.siz)]
  /\ UNCHANGED <<impl, nfaults>>

\* Variant of WriteLocked that takes the read lock instead of the write lock.
WriteLockedShared(t, op, off, siz, res) ==
  /\ pc[t].op = "idle" /\ RFree
  /\ lock' = [lock EXCEPT !.writer = t]
  /\ \E fault \in Faults :
     \E st \in {res[fault]} :
       /\ Faulted(fault, st)
       /\ Apply(st)
       /\ pc' = [pc EXCEPT ![t] = Call(op, "finish", off, siz, 0, NULL, st.rc)]
  /\ UNCHANGED io

\* _exfile_truncate, _exfile_add_mmap, _exfile_remove_mmap: the _lw body
\* runs under the write lock; res[fault] is its result when fault is
\* injected.
WriteLocked(t, op, off, siz, res) ==
  /\ pc[t].op = "idle" /\ WFree
  /\ lock' = [lock EXCEPT !.writer = t]
  /\ \E fault \in Faults :
     \E st \in {res[fault]} :
       /\ Faulted(fault, st)
       /\ Apply(st)
       /\ pc' = [pc EXCEPT ![t] = Call(op, "finish", off, siz, 0, NULL, st.rc)]
  /\ UNCHANGED io

Truncate(t, sz) ==
  WriteLocked(t, "truncate", 0, sz, [f \in Faults |-> TruncateLw(Cur(f), sz)])
AddMmap(t, r) ==
  WriteLocked(t, "add_mmap", r.off, r.maxlen, [f \in Faults |-> AddMmapLw(Cur(f), r.off, r.maxlen)])
\* Variant of RemoveMmap that takes _exfile_rlock instead of _exfile_wlock.
RemoveMmapShared(t, o) ==
  WriteLockedShared(t, "remove_mmap", o, 0, [f \in Faults |-> RemoveMmapWl(Cur(f), o)])
RemoveMmap(t, o) ==
  WriteLocked(t, "remove_mmap", o, 0, [f \in Faults |-> RemoveMmapWl(Cur(f), o)])

\* Variant of Acquire that omits the "if (s->len)" test.
AcquireUnrealised(t, o) ==
  LET ok == o \in DOMAIN slots IN
  /\ pc[t].op = "idle" /\ RFree
  /\ AddReader(t)
  /\ pc' = [pc EXCEPT ![t] = Call("acquire", "held", o, 0, 0,
                                  IF ok THEN slots[o].mmap ELSE NULL,
                                  IF ok THEN "OK" ELSE "NOT_MMAPED")]
  /\ UNCHANGED <<impl, io, nfaults>>

\* _exfile_acquire_mmap: returns holding the read lock, also when the slot
\* is missing or unmapped (IWFS_ERROR_NOT_MMAPED).
Acquire(t, o) ==
  LET ok == o \in DOMAIN slots /\ slots[o].len > 0 IN
  /\ pc[t].op = "idle" /\ RFree
  /\ AddReader(t)
  /\ pc' = [pc EXCEPT ![t] = Call("acquire", "held", o, 0, 0,
                                  IF ok THEN slots[o].mmap ELSE NULL,
                                  IF ok THEN "OK" ELSE "NOT_MMAPED")]
  /\ UNCHANGED <<impl, io, nfaults>>

\* A call that only reads under the read lock and returns through Finish.
ReadLocked(t, op, off, ptr, rc) ==
  /\ pc[t].op = "idle" /\ RFree
  /\ AddReader(t)
  /\ pc' = [pc EXCEPT ![t] = Call(op, "finish", off, 0, 0, ptr, rc)]
  /\ UNCHANGED <<impl, io, nfaults>>
Realised(o) == o \in DOMAIN slots /\ slots[o].len > 0

\* Variant of Probe that walks the slot list without _exfile_rlock.
ProbeUnlocked(t, o) ==
  /\ pc[t].op = "idle"
  /\ pc' = [pc EXCEPT ![t] = Call("probe", "finish", o, 0, 0,
                                  IF Realised(o) THEN slots[o].mmap ELSE NULL,
                                  IF Realised(o) THEN "OK" ELSE "NOT_MMAPED")]
  /\ UNCHANGED <<impl, lock, io, nfaults>>

\* _exfile_probe_mmap: the lookup of acquire_mmap, but the pointer (even
\* MAP_FAILED left by a failed mmap) is returned after the unlock.
Probe(t, o) ==
  ReadLocked(t, "probe", o, IF Realised(o) THEN slots[o].mmap ELSE NULL,
             IF Realised(o) THEN "OK" ELSE "NOT_MMAPED")

\* _exfile_sync_mmap: msync of one realised slot whose pointer is neither
\* NULL nor MAP_FAILED; otherwise the loop runs off the list.
SyncMmap(t, o) ==
  ReadLocked(t, "sync_mmap", o, NULL,
             IF Realised(o) /\ slots[o].mmap \notin {NULL, MAP_FAILED}
             THEN "OK" ELSE "NOT_MMAPED")

\* _exfile_sync (msync of every mapped slot, then the backend's sync) and
\* _exfile_state (fsize and the backend's state): read-locked, no change.
Sync(t) == ReadLocked(t, "sync", 0, NULL, "OK")
State(t) == ReadLocked(t, "state", 0, NULL, "OK")

\* _exfile_release_mmap: the caller drops the lock acquire_mmap left held.
Release(t) ==
  /\ pc[t].at = "held"
  /\ lock' = Unlocked(t)
  /\ pc' = [pc EXCEPT ![t] = Idle]
  /\ UNCHANGED <<impl, io, nfaults>>

\* Variant of Copy that tests the slot's maxlen instead of its len.
CopyByMaxlen(t, c) ==
  LET first == IF DOMAIN slots = {} THEN -1 ELSE SortedOffs(slots)[1]
      s     == slots[first]
      inmap == first = 0 /\ s.mmap # NULL /\ s.maxlen >= c.noff + c.siz
  IN
  /\ pc[t].op = "idle" /\ RFree
  /\ AddReader(t)
  /\ IF inmap
     THEN \E fault \in Faults :
          \E st \in {EnsureSizeLw(Cur(fault), c.noff + c.siz)} :
            /\ Faulted(fault, st)
            /\ Apply(st)
            /\ IF st.rc = "OK"
               THEN /\ pc' = [pc EXCEPT ![t] = Call("copy", "finish", c.off, c.siz, c.noff, NULL, "OK")]
                    /\ io' = [io EXCEPT ![t] =
                                {Seg("mem", s.mmap, 0, c.off, c.off + c.siz),
                                 Seg("mem", s.mmap, 0, c.noff, c.noff + c.siz)}]
               ELSE /\ pc' = [pc EXCEPT ![t] = Idle]
                    /\ UNCHANGED io
     ELSE /\ pc' = [pc EXCEPT ![t] = Call("copy", "finish", c.off, c.siz, c.noff, NULL, "OK")]
          /\ io' = [io EXCEPT ![t] = {Seg("pos", NULL, c.off, c.off, c.off + c.siz),
                                      Seg("pos", NULL, c.noff, c.noff, c.noff + c.siz)}]
          /\ UNCHANGED <<impl, nfaults>>

\* _exfile_copy under the read lock: when the first slot is at 0 and its
\* length covers noff + siz, _exfile_ensure_size_lw and a memmove inside
\* the mapping; otherwise the positional copy.  An error of ensure_size_lw
\* returns without unlocking (RCRET).
Copy(t, c) ==
  LET first == IF DOMAIN slots = {} THEN -1 ELSE SortedOffs(slots)[1]
      s     == slots[first]
      inmap == first = 0 /\ s.mmap # NULL /\ s.len >= c.noff + c.siz
  IN
  /\ pc[t].op = "idle" /\ RFree
  /\ AddReader(t)
  /\ IF inmap
     THEN \E fault \in Faults :
          \E st \in {EnsureSizeLw(Cur(fault), c.noff + c.siz)} :
            /\ Faulted(fault, st)
            /\ Apply(st)
            /\ IF st.rc = "OK"
               THEN /\ pc' = [pc EXCEPT ![t] = Call("copy", "finish", c.off, c.siz, c.noff, NULL, "OK")]
                    /\ io' = [io EXCEPT ![t] =
                                {Seg("mem", s.mmap, 0, c.off, c.off + c.siz),
                                 Seg("mem", s.mmap, 0, c.noff, c.noff + c.siz)}]
               ELSE /\ pc' = [pc EXCEPT ![t] = Idle]
                    /\ UNCHANGED io
     ELSE /\ pc' = [pc EXCEPT ![t] = Call("copy", "finish", c.off, c.siz, c.noff, NULL, "OK")]
          /\ io' = [io EXCEPT ![t] = {Seg("pos", NULL, c.off, c.off, c.off + c.siz),
                                      Seg("pos", NULL, c.noff, c.noff, c.noff + c.siz)}]
          /\ UNCHANGED <<impl, nfaults>>

\* The unlock at the end of every call that does not keep its lock.
Finish(t) ==
  /\ pc[t].at = "finish"
  /\ lock' = Unlocked(t)
  /\ pc' = [pc EXCEPT ![t] = Idle]
  /\ io' = [io EXCEPT ![t] = {}]
  /\ UNCHANGED <<impl, nfaults>>

Init ==
  /\ fsize \in InitSizes
  /\ dsize = fsize
  /\ slots = NoSlots
  /\ mmslots = NULL
  /\ maps = EmptyBag
  /\ rsctx = NULL
  /\ lock = [writer |-> NoThread, readers |-> {}]
  /\ pc = [t \in Threads |-> Idle]
  /\ io = [t \in Threads |-> {}]
  /\ nfaults = 0

Next ==
  \E t \in Threads :
    \/ \E r \in IoReqs : WriteBegin(t, r) \/ ReadBegin(t, r)
    \/ \E sz \in EnsureSizes : EnsureBegin(t, sz)
    \/ Upgrade(t)
    \/ WLock(t)
    \/ Grow(t)
    \/ \E sz \in TruncSizes : Truncate(t, sz)
    \/ \E r \in MmapReqs : AddMmap(t, r)
    \/ \E o \in SlotOffs : RemoveMmap(t, o) \/ Acquire(t, o) \/ Probe(t, o) \/ SyncMmap(t, o)
    \/ Sync(t) \/ State(t)
    \/ Release(t)
    \/ \E c \in CopyReqs : Copy(t, c)
    \/ Finish(t)

\* Taking the write lock is only intermittently possible, so it is
\* strongly fair; the other steps of a started call are weakly fair.
\* Release assumes callers of acquire_mmap do call release_mmap.
Fairness ==
  \A t \in Threads : /\ WF_vars(Upgrade(t)) /\ WF_vars(Finish(t))
                     /\ WF_vars(Release(t)) /\ WF_vars(Grow(t))
                     /\ SF_vars(WLock(t))

Spec == Init /\ [][Next]_vars /\ Fairness

(***************************************************************************)
(* Properties.                                                             *)
(***************************************************************************)
ExpectedLen(o, fsz) == IF o >= fsz THEN 0 ELSE MinOf(slots[o].maxlen, fsz - o)

TypeOK ==
  /\ fsize \in Offsets /\ dsize \in Offsets /\ rsctx \in Offsets \cup {NULL} /\ mmslots \in Link
  /\ DOMAIN slots \subseteq Offsets
  /\ \A o \in DOMAIN slots : slots[o] \in Slot /\ o + slots[o].maxlen <= OFF_T_MAX
  /\ IsABag(maps) /\ Live(maps) \subseteq Region
  /\ lock \in [writer : Threads \cup {NoThread}, readers : SUBSET Threads]
  /\ \A t \in Threads : pc[t].rc \in RC /\ pc[t].ptr \in Ptr
  /\ nfaults \in 0 .. MAX_FAULTS

\* A byte range moved by a memcpy/memmove lies inside a live mapping of its
\* slot and inside the file on disk; every range lies inside fsize.
SegSafe(g) ==
  /\ g.lo < g.hi /\ g.hi <= fsize
  /\ g.kind = "mem" =>
       /\ g.ptr \in Live(maps) /\ g.ptr.off = g.base
       /\ g.base <= g.lo /\ g.hi <= g.base + g.ptr.len /\ g.hi <= dsize

\* The ranges of a walk cover the request [off, off + n) exactly once.
Partition(segs, off, n) ==
  /\ \A g \in segs : off <= g.lo /\ g.hi <= off + n
  /\ \A x \in off .. off + n - 1 : \E g \in segs : g.lo <= x /\ x < g.hi
  /\ \A g, h \in segs : g # h => g.hi <= h.lo \/ h.hi <= g.lo

\* IOSafe: every read and write that _exfile_read/_exfile_write finished
\* moved each requested byte exactly once, through memcpy only inside a
\* live mapping backed by the file, never past fsize.  It relates the walk
\* over the slot list to the realised slots, the mappings, the file size
\* and the lock upgrade of the write path.
IOSafe ==
  \A t \in Threads :
    pc[t].op \in {"read", "write"} /\ pc[t].at = "finish" /\ pc[t].rc = "OK" =>
      LET n == IF pc[t].op = "write" THEN pc[t].siz
               ELSE ReadLen(pc[t].off, pc[t].siz, fsize)
      IN  /\ \A g \in io[t] : SegSafe(g)
          /\ Partition(io[t], pc[t].off, IF n < 0 THEN 0 ELSE n)

\* CopySafe: the memmove of _exfile_copy reads and writes only inside the
\* mapping of the first slot (spec 4.7: the slot covers both the source and
\* the destination range).  The positional copy is the backend's.
CopySafe ==
  \A t \in Threads : pc[t].op = "copy" =>
    \A g \in io[t] : g.kind = "mem" => SegSafe(g)

\* SlotsRealised: every slot is mapped exactly as
\* _exfile_initmmap_slot_lw would map it for the current fsize (spec
\* invariant 3), whatever truncations, failed ftruncates and restores
\* happened before.
SlotsRealised ==
  \A o \in DOMAIN slots :
      LET n == ExpectedLen(o, fsize) IN
      /\ slots[o].len = n
      /\ n > 0 => slots[o].mmap = [off |-> o, len |-> n] /\ slots[o].mmap \in Live(maps)

\* SlotListConsistent: following next from impl->mmslots visits every slot
\* once, in ascending off order, and ends in 0; each slot's prev is the
\* one before it, and the head's prev is the tail.  add_mmap relies on
\* this to find where to insert and remove_mmap_wl to tell head, tail and
\* middle apart.
SlotListConsistent ==
  LET l == List([slots |-> slots, mmslots |-> mmslots]) IN
  /\ l = SortedOffs(slots)
  /\ \A i \in 1 .. Len(l) : slots[l[i]].prev = l[IF i = 1 THEN Len(l) ELSE i - 1]

\* SlotsDisjoint: the [off, off + maxlen) ranges of the slots never overlap
\* (the test in _exfile_add_mmap).
SlotsDisjoint ==
  \A a, b \in DOMAIN slots :
    a # b => ~RangesOverlap(a, a + slots[a].maxlen, b, b + slots[b].maxlen)

\* SizeConsistent: impl->fsize is the size of the file on disk, a page
\* multiple, within maxoff, after any sequence of successful or failed
\* truncations and growths.
SizeConsistent ==
  /\ fsize = dsize /\ fsize % PSIZE = 0
  /\ MAXOFF > 0 => fsize <= MAXOFF

\* NoLeakedMapping: every live mapping is the mapping of a slot.
NoLeakedMapping ==
  \A p \in Live(maps) :
    CopiesIn(p, maps) = Cardinality({o \in DOMAIN slots : slots[o].len > 0 /\ slots[o].mmap = p})

\* AcquiredStable: the pointer acquire_mmap handed out stays the live
\* mapping of its slot until release_mmap, and the pointer probe_mmap
\* looked up stays so until its _exfile_unlock2 (after which spec 4.9
\* leaves it to the caller's own synchronisation).
AcquiredStable ==
  \A t \in Threads :
    (pc[t].at = "held" \/ pc[t].op = "probe") /\ pc[t].ptr # NULL =>
      /\ pc[t].off \in DOMAIN slots /\ slots[pc[t].off].mmap = pc[t].ptr
      /\ pc[t].ptr \in Live(maps)

\* ExclusiveMutation: the size, the slots and the mappings change only in a
\* step after which one thread holds the write lock and nobody reads.
ExclusiveMutation ==
  [][impl' # impl => lock'.writer # NoThread /\ lock'.readers = {}]_vars

\* FailedTruncateKeepsSize: a truncate that returns an error leaves fsize as
\* it was (spec section 8).
FailedTruncateKeepsSize ==
  [][\A t \in Threads :
       pc[t].op = "idle" /\ pc'[t].op = "truncate" /\ pc'[t].rc # "OK" => fsize' = fsize]_vars

\* PolicyHonoured: with a valid policy context (for the multiplier policy
\* dn > 0 and n >= dn), no write or ensure_size fails with
\* RESIZE_POLICY_FAIL: the built-in policies answer at least the request,
\* page-aligned (spec 4.1, next = round_up(req * n / dn, psize)).
PolicyHonoured == \A t \in Threads : pc[t].rc # "RESIZE_POLICY_FAIL"

\* EnsuredSize: an ensure_size(sz) that returns success leaves the file at
\* least sz long, and no other thread can shrink it before the call
\* returns: whether it took the fast path under the read lock or grew the
\* file after the upgrade (_exfile_ensure_size, the lock dropped between
\* the size test and _exfile_wlock), and whatever ftruncate failure the
\* growth met on the way (spec 4.4).
EnsuredSize ==
  \A t \in Threads :
    pc[t].op = "ensure" /\ pc[t].at = "finish" /\ pc[t].rc = "OK" => fsize >= pc[t].siz

\* CallsReturn: every call eventually returns.
CallsReturn == \A t \in Threads : pc[t].op # "idle" ~> pc[t].op = "idle"
=============================================================================
