----------------------------- MODULE ExFileLife -----------------------------
(***************************************************************************)
(* The life cycle of an extendable file around the calls of ExFile:       *)
(* iwfs_exfile_open and _exfile_close (src/src/fs/iwexfile.c).            *)
(*   life  "unopened" before a successful open (f->impl == 0),            *)
(*         "open", and "closed" after close freed impl and its lock       *)
(*   handles  backend files (impl->file) opened by iwfs_file_open and not *)
(*         closed, over all opens of the instance                         *)
(*   fstate whether impl->omode and impl->fh of the open instance come    *)
(*         from a successful impl->file.state ("valid") or from the       *)
(*         uninitialised IWFS_FILE_STATE it left behind ("garbage")       *)
(* Before open, dsize is the size of the existing file on disk, which     *)
(* need not be a page multiple.  Calls of ExFile run only while the file  *)
(* is open with a valid fstate; what the calls do with a garbage omode    *)
(* and fh is not modelled.                                                *)
(***************************************************************************)
EXTENDS ExFile

CONSTANTS
  DiskSizes,   \* sizes the file may have on disk when it is opened
  OpenSizes,   \* opts->initial_size
  OpenFaults   \* calls of open that may fail: "init", "initlocks",
               \* "file_open", "fstat", "state"

ASSUME OpenFaults \subseteq {"init", "initlocks", "file_open", "fstat", "state"}

VARIABLES life, handles, fstate

lvars == <<vars, life, handles, fstate>>

LifeInit ==
  /\ life = "unopened"
  /\ handles = 0
  /\ fstate = "none"
  /\ dsize \in DiskSizes
  /\ fsize = 0
  /\ slots = NoSlots
  /\ mmslots = NULL
  /\ maps = EmptyBag
  /\ rsctx = NULL
  /\ lock = [writer |-> NoThread, readers |-> {}]
  /\ pc = [t \in Threads |-> Idle]
  /\ io = [t \in Threads |-> {}]
  /\ nfaults = 0

\* Variant of OpenLw that grows the file to initial_size itself, without
\* the page rounding of _exfile_truncate_lw.
OpenLwUnrounded(st, isz) ==
  IF st.fsize < isz THEN [st EXCEPT !.fsize = isz, !.dsize = isz] ELSE st

\* The size checks of iwfs_exfile_open on an impl whose fsize is the size
\* iwp_fstat reported: grow to initial_size if smaller, otherwise, for an
\* unaligned size, _exfile_truncate_lw(f, impl->fsize).
OpenLw(st, isz) ==
  IF st.fsize < isz THEN TruncateLw(st, isz)
  ELSE IF st.fsize % PSIZE # 0 THEN TruncateLw(st, st.fsize)
  ELSE st

\* The call of iwfs_exfile_open that fails, if any, limited by MAX_FAULTS.
OpenFault == {"none"} \cup IF nfaults < MAX_FAULTS THEN OpenFaults ELSE {}

\* iwfs_exfile_init, _exfile_initlocks and iwfs_file_open fail before the
\* backend file is open; fstat and state fail after it.
FailsBeforeFile(bf) == bf \in {"init", "initlocks", "file_open"}

\* impl->omode and impl->fh after impl->file.state: what it reported, or,
\* when it failed, whatever the uninitialised fstate on the stack holds.
StateResult(bf) ==
  IF bf = "state" THEN [omode : BOOLEAN, fh : {"file", "bad", "other"}]
  ELSE {[omode |-> WRITABLE, fh |-> "file"]}

\* iwfs_exfile_open, also of an instance closed before (open memsets f and
\* callocs a new impl with no slots and the caller's NULL policy context).
\* The rc of state() is overwritten by the rc of a _exfile_truncate_lw that
\* follows it; a failure frees impl (and its lock) but neither closes the
\* backend file nor undoes a truncation.
Open(isz) ==
  /\ life \in {"unopened", "closed"}
  /\ \E bf \in OpenFault, fault \in Faults :
     \E fs \in StateResult(bf) :
     \E st \in {OpenLw([Cur(fault) EXCEPT !.fsize = dsize, !.slots = NoSlots,
                                           !.mmslots = NULL, !.rsctx = NULL,
                                           !.omode = fs.omode, !.fh = fs.fh], isz)} :
       LET trunc == dsize < isz \/ dsize % PSIZE # 0
           rc    == IF FailsBeforeFile(bf) \/ bf = "fstat" THEN "ERRNO"
                    ELSE IF trunc THEN st.rc
                    ELSE IF bf = "state" THEN "ERRNO" ELSE "OK"
       IN  /\ bf = "none" \/ fault = NoFault
           /\ Faulted(fault, st)
           /\ handles' = handles + IF FailsBeforeFile(bf) THEN 0 ELSE 1
           /\ IF rc = "OK"
              THEN /\ Apply([st EXCEPT !.fired = @ \/ bf # "none"])
                   /\ life' = "open"
                   /\ fstate' = IF bf = "state" THEN "garbage" ELSE "valid"
              ELSE /\ dsize' = IF trunc /\ bf \in {"none", "state"} THEN st.dsize ELSE dsize
                   /\ nfaults' = nfaults + (IF st.fired \/ bf # "none" THEN 1 ELSE 0)
                   /\ UNCHANGED <<fsize, slots, mmslots, maps, rsctx, life, fstate>>
  /\ UNCHANGED <<lock, pc, io>>

\* _exfile_close up to its _exfile_wlock.
CloseBegin(t) ==
  /\ life = "open" /\ pc[t].op = "idle" /\ WFree
  /\ lock' = [lock EXCEPT !.writer = t]
  /\ pc' = [pc EXCEPT ![t] = Call("close", "closing", 0, 0, 0, NULL, "OK")]
  /\ UNCHANGED <<impl, io, nfaults, life, handles, fstate>>

\* Variant of RemoveAll that stops at the first failed removal.
RECURSIVE RemoveAllStopAtError(_, _)
RemoveAllStopAtError(st, offs) ==
  IF offs = <<>> \/ st.rc # "OK" THEN st
  ELSE RemoveAllStopAtError(RemoveMmapWl(st, Head(offs)), Tail(offs))

\* The loop of _exfile_close: _exfile_remove_mmap_wl on every slot,
\* keeping the first error.
RECURSIVE RemoveAll(_, _)
RemoveAll(st, offs) ==
  IF offs = <<>> THEN st ELSE RemoveAll(RemoveMmapWl(st, Head(offs)), Tail(offs))

\* _exfile_destroylocks after the close's _exfile_unlock2: the rwlock is
\* destroyed and freed.  No call reaches it while life = "closed" (the
\* "!f->impl" test comes first), and the next open makes a new, free one,
\* so the destroyed lock is recorded as free.
DestroyLocks == lock' = [writer |-> NoThread, readers |-> {}]

\* The rest of _exfile_close: remove every slot, close the backend file,
\* f->impl = 0, the policy's req = -1 call frees its context, then unlock,
\* destroy the lock, free.
CloseEnd(t) ==
  /\ pc[t].at = "closing"
  /\ \E fault \in Faults :
     \E st \in {RemoveAll(Cur(fault), List(Cur(fault)))} :
       /\ Faulted(fault, st)
       /\ Apply([st EXCEPT !.rsctx = NULL])
       /\ pc' = [pc EXCEPT ![t] = Idle]
  /\ DestroyLocks
  /\ life' = "closed"
  /\ handles' = handles - 1
  /\ UNCHANGED <<io, fstate>>

\* A writer between _exfile_unlock2 and _exfile_wlock after close: the
\* "!f->impl" test of _exfile_wlock returns IW_ERROR_INVALID_STATE.
WLockClosed(t) ==
  /\ life = "closed" /\ pc[t].at = "wlock"
  /\ pc' = [pc EXCEPT ![t] = Idle]
  /\ UNCHANGED <<impl, lock, io, nfaults, life, handles, fstate>>

LifeNext ==
  \/ \E isz \in OpenSizes : Open(isz)
  \/ \E t \in Threads : CloseBegin(t) \/ CloseEnd(t) \/ WLockClosed(t)
  \/ life = "open" /\ fstate = "valid" /\ Next /\ UNCHANGED <<life, handles, fstate>>

LifeSpec == LifeInit /\ [][LifeNext]_lvars

(***************************************************************************)
(* Properties.                                                             *)
(***************************************************************************)

\* OpenSizeConsistent: an open instance has a page-aligned fsize equal to
\* the size on disk, within maxoff (spec 8: "for every open instance fsize
\* is a multiple of psize"), whatever size the file had when iwfs_exfile_open
\* found it.
OpenSizeConsistent == life = "open" => SizeConsistent

\* OpenAllOrNothing: iwfs_exfile_open either returns an initialised
\* instance, whose omode and fh are the backend's (spec 4.10: state
\* reports them), or fails leaving nothing open; the instance holds one
\* backend file exactly while it is open, so a failed open and a close
\* leave none (spec 4.11: close closes the backend).
OpenAllOrNothing ==
  /\ handles = IF life = "open" THEN 1 ELSE 0
  /\ life = "open" => fstate = "valid"

\* CloseUnmapsSlots: the step in which _exfile_close frees impl unmaps the
\* mapping of every slot except those whose munmap failed in this step,
\* and nothing else (mappings leaked earlier by add_mmap are out of its
\* reach): close keeps removing slots after a failed removal (IWRC, not
\* RCGO) and loses only the mapping that could not be unmapped.
SlotMapCount(p) == Cardinality({o \in DOMAIN slots : slots[o].len > 0 /\ slots[o].mmap = p})
Missed(p) == SlotMapCount(p) - (CopiesIn(p, maps) - CopiesIn(p, maps'))
CloseUnmapsSlots ==
  [][life = "open" /\ life' = "closed" =>
       /\ BagToSet(maps') \subseteq BagToSet(maps)
       /\ \A p \in BagToSet(maps) : Missed(p) >= 0
       /\ MapThenSumSet(Missed, BagToSet(maps)) = nfaults' - nfaults]_lvars

\* NoCallSpansClose: close never frees impl and its rwlock while another
\* thread is inside a call that will still lock it (a writer between the
\* unlock2 and the wlock of its upgrade may already have passed the
\* "!f->impl" test and be waiting on the lock close destroys).
NoCallSpansClose ==
  [][\A t \in Threads :
       life = "open" /\ life' = "closed" => pc[t].at # "wlock"]_lvars
=============================================================================
