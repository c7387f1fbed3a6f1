------------------------- MODULE ExFileRefinement -------------------------
(***************************************************************************)
(* ExFile implements ExFileAbstract: the abstract size is impl->fsize,    *)
(* the windows are the slots' offsets and (page-rounded) maxlen, and a    *)
(* thread pins a window while it is between a successful acquire_mmap and *)
(* its release_mmap.                                                       *)
(***************************************************************************)
EXTENDS ExFile

NoPin == -1

PinOf(t) == IF pc[t].at = "held" /\ pc[t].ptr # NULL THEN pc[t].off ELSE NoPin

Abs == INSTANCE ExFileAbstract
         WITH size <- fsize,
              windows <- [o \in DOMAIN slots |-> slots[o].maxlen],
              pins <- [t \in Threads |-> PinOf(t)]

\* ExFileRefines: every behaviour of the threads running the code is a
\* behaviour of the abstract file: the size stays aligned and within
\* maxoff, add_mmap only opens disjoint aligned windows, and nothing
\* resizes or removes while an acquire_mmap pointer is held.
ExFileRefines == Abs!ASpec
=============================================================================
