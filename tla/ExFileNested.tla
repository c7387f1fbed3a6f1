---------------------------- MODULE ExFileNested ----------------------------
(***************************************************************************)
(* A caller that calls write between acquire_mmap and release_mmap, as    *)
(* the interface allows (spec 4.9 only says the lock is retained).  The   *)
(* nested _exfile_rlock of _exfile_write succeeds: the thread already     *)
(* holds the read lock, and the default rwlock is recursive for readers.  *)
(* A write that fits is done under it and changes no modelled state.  A   *)
(* write that must grow calls _exfile_unlock2, which drops only the       *)
(* nested hold, so the thread is still a reader when it calls             *)
(* _exfile_wlock.                                                          *)
(***************************************************************************)
EXTENDS ExFile

\* _exfile_write called by a thread inside acquire_mmap/release_mmap, for
\* a request past the end of the file: rlock, end > fsize, unlock2.  The
\* outer read hold stays, so lock.readers still contains t.
HeldWrite(t, r) ==
  /\ pc[t].at = "held"
  /\ MAXOFF = 0 \/ r.off + r.siz <= MAXOFF
  /\ RFree
  /\ r.off + r.siz > fsize
  /\ pc' = [pc EXCEPT ![t].at = "nested_wlock", ![t].siz = r.siz, ![t].noff = r.off]
  /\ UNCHANGED <<impl, lock, io, nfaults>>

\* _exfile_wlock of the nested write: pthread_rwlock_wrlock waits until
\* no thread holds the lock, the caller itself included.
NestedWLock(t) ==
  /\ pc[t].at = "nested_wlock" /\ WFree
  /\ lock' = [lock EXCEPT !.writer = t]
  /\ pc' = [pc EXCEPT ![t].at = "nested_grow"]
  /\ UNCHANGED <<impl, io, nfaults>>

NestedNext ==
  \/ Next
  \/ \E t \in Threads : NestedWLock(t) \/ \E r \in IoReqs : HeldWrite(t, r)

\* The caller is as fair as in Spec, and the nested write lock as fair as
\* the outer one.
NestedSpec == Init /\ [][NestedNext]_vars /\ Fairness
              /\ \A t \in Threads : SF_vars(NestedWLock(t))
=============================================================================
