---------------------------- MODULE MCExFileLife ----------------------------
(***************************************************************************)
(* Model-checking instance of ExFileLife: files of 0, 2 or 3 bytes on     *)
(* disk opened with initial_size 0 or 3, two threads, off_t up to 7 so    *)
(* that slots at 0, 2 and 4 fit and remove_mmap(2) unlinks a middle one;  *)
(* the slots do not overlap (the add_mmap leak is the subject of          *)
(* MCExFileLeak.cfg).                                                     *)
(***************************************************************************)
EXTENDS ExFileLife

LifeIoReqs == {[off |-> 1, siz |-> 2]}
LifeTruncSizes == {1}
LifeEnsureSizes == {3}
LifeMmapReqs == {[off |-> 0, maxlen |-> 1], [off |-> 2, maxlen |-> 2], [off |-> 4, maxlen |-> 4]}
LifeSlotOffs == {2}
LifeCopyReqs == {[off |-> 0, siz |-> 2, noff |-> 2]}
LifeMul == [n |-> 1, dn |-> 1]

\* Adding the same region twice leaks a mapping each time (add_mmap); stop
\* at two copies of a region.
LifeMapsBound == \A p \in BagToSet(maps) : CopiesIn(p, maps) <= 2
=============================================================================
