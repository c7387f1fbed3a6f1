--------------------------- MODULE ExFileAbstract ---------------------------
(***************************************************************************)
(* What the extendable file promises its callers (spec sections 3-5),     *)
(* without locks, slots or system calls:                                   *)
(*   size     the file size: a page multiple, within maxoff               *)
(*   windows  the mmap windows: a function from a window's offset to its  *)
(*            maximal length; windows are page aligned and disjoint       *)
(*   pins     for each thread, the offset of the window whose mapping it  *)
(*            holds from acquire_mmap until release_mmap, or NoPin        *)
(* While any thread holds a window's mapping, neither the size nor the    *)
(* windows change, so the pointer it holds stays valid.  Reads, writes    *)
(* that fit and failed calls are stuttering steps.                        *)
(***************************************************************************)
EXTENDS Integers, TLC

CONSTANTS Threads, NoPin, PSIZE, OFF_T_MAX, MAXOFF

VARIABLES size, windows, pins

avars == <<size, windows, pins>>

Sizes == {n \in 0 .. OFF_T_MAX : n % PSIZE = 0 /\ (MAXOFF > 0 => n <= MAXOFF)}
Span(o, m) == o .. o + m - 1
Fits(o, m) == o % PSIZE = 0 /\ m > 0 /\ m % PSIZE = 0 /\ o + m <= OFF_T_MAX
Unpinned == \A t \in Threads : pins[t] = NoPin

AInit ==
  /\ size \in Sizes
  /\ windows = [o \in {} |-> 0]
  /\ pins = [t \in Threads |-> NoPin]

\* truncate, ensure_size and a growing write set a new size.
Resize(n) ==
  /\ Unpinned /\ size' = n
  /\ UNCHANGED <<windows, pins>>

\* add_mmap opens a window disjoint from every other one.
AddWindow(o, m) ==
  /\ Unpinned /\ Fits(o, m) /\ o \notin DOMAIN windows
  /\ \A w \in DOMAIN windows : Span(o, m) \cap Span(w, windows[w]) = {}
  /\ windows' = windows @@ (o :> m)
  /\ UNCHANGED <<size, pins>>

\* remove_mmap closes a window.
RemoveWindow(o) ==
  /\ Unpinned /\ o \in DOMAIN windows
  /\ windows' = [w \in DOMAIN windows \ {o} |-> windows[w]]
  /\ UNCHANGED <<size, pins>>

\* acquire_mmap hands out the mapping of a window that covers file bytes.
Pin(t, o) ==
  /\ pins[t] = NoPin /\ o \in DOMAIN windows /\ o < size
  /\ pins' = [pins EXCEPT ![t] = o]
  /\ UNCHANGED <<size, windows>>

\* release_mmap.
Unpin(t) ==
  /\ pins[t] # NoPin
  /\ pins' = [pins EXCEPT ![t] = NoPin]
  /\ UNCHANGED <<size, windows>>

ANext ==
  \/ \E n \in Sizes : Resize(n)
  \/ \E o \in 0 .. OFF_T_MAX, m \in 1 .. OFF_T_MAX : AddWindow(o, m)
  \/ \E o \in DOMAIN windows : RemoveWindow(o)
  \/ \E t \in Threads : Unpin(t) \/ \E o \in DOMAIN windows : Pin(t, o)

ASpec == AInit /\ [][ANext]_avars
=============================================================================
