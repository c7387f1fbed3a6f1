--------------------------- MODULE MCExFileNested ---------------------------
(* ExFileNested with the argument sets of the liveness run of MCExFile. *)
EXTENDS ExFileNested

MCMul == [n |-> 1, dn |-> 1]
NestIoReqs == {[off |-> 1, siz |-> 2]}
NestMmapReqs == {[off |-> 0, maxlen |-> 1]}
NestSlotOffs == {0}
NestTruncSizes == {1}
NestEnsureSizes == {3}
NestCopyReqs == {[off |-> 0, siz |-> 2, noff |-> 2]}
=============================================================================
