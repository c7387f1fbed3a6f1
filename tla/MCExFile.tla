------------------------------ MODULE MCExFile ------------------------------
(***************************************************************************)
(* Model-checking instance of ExFile: pages of PSIZE = 2 bytes, offsets   *)
(* up to OFF_T_MAX = 5, two threads.  The argument sets are chosen so that *)
(* every branch of the code is taken: unaligned and saturating add_mmap,   *)
(* overlapping and adjacent slots, writes that fit, that grow the file    *)
(* and that cross slot boundaries, reads past the end, shrink and grow.   *)
(***************************************************************************)
EXTENDS ExFileRefinement

MCIoReqs == {[off |-> 1, siz |-> 2], [off |-> 2, siz |-> 2]}
\* -1 rounds to 0; 5 = OFF_T_MAX rounds past it and wraps to -6.
MCTruncSizes == {-1, 1, 4, 5}
MCEnsureSizes == {3}
MCMmapReqs == {[off |-> 0, maxlen |-> 1], [off |-> 2, maxlen |-> 4], [off |-> 0, maxlen |-> 3]}
MCSlotOffs == {0, 2}
MCCopyReqs == {[off |-> 2, siz |-> 2, noff |-> 0], [off |-> 0, siz |-> 2, noff |-> 2]}
MCMul == [n |-> 1, dn |-> 1]
\* A valid multiplier context whose ratio is 1 but whose dn exceeds 1.
MCMulEven == [n |-> 2, dn |-> 2]

\* Smaller slot argument sets for the liveness check (its writes and
\* truncates are those of the safety check).
LiveMmapReqs == {[off |-> 0, maxlen |-> 1]}
LiveSlotOffs == {0}

\* add_mmap leaks a mapping on every overlap failure, so the bag of live
\* mappings is unbounded; exploration stops at MaxMapCopies copies of one
\* region (the first leak is what the properties are about).
MaxMapCopies == 2
MapsBound == \A p \in BagToSet(maps) : CopiesIn(p, maps) <= MaxMapCopies
=============================================================================
