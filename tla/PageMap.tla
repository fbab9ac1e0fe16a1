------------------------------ MODULE PageMap ------------------------------
(***************************************************************************)
(* What the kernel promises about a range of pages, whatever structure     *)
(* keeps it: a map from page numbers to states, the effect of tagging a    *)
(* range, and the answers a search for free pages may give.  The interval  *)
(* tree of MemoryState.tla implements it, and Mapping.tla uses two such    *)
(* maps, one of frames and one of virtual pages.  Addresses are counted in *)
(* pages throughout, so page 0 is address 0.                               *)
(***************************************************************************)
EXTENDS Integers

Free     == "Free"
Reserved == "Reserved"
Used     == "Used"

\* MemoryState::RangeState without Branch, which only marks inner tree nodes.
RangeState == {Free, Reserved, Used}

\* The pages of [lo, hi).
PageRange(lo, hi) == lo .. hi - 1

\* A mutant: a Reserved page is tagged like any other.
TaggedOverReserved(map, lo, hi, s) ==
  [p \in DOMAIN map |-> IF p \in PageRange(lo, hi) THEN s ELSE map[p]]

\* MemoryState::TagRange: every page of [lo, hi) takes state s, except that a
\* Reserved page keeps its state.
Tagged(map, lo, hi, s) ==
  [p \in DOMAIN map |->
     IF p \in PageRange(lo, hi) /\ map[p] # Reserved THEN s ELSE map[p]]

\* [lo, lo + size) lies inside the map and is free.
IsFreeBlock(map, lo, size) ==
  \A p \in PageRange(lo, lo + size) : p \in DOMAIN map /\ map[p] = Free

\* MemoryState::FindMinimumSizeFreeBlock: 0 means "nothing found", so a block
\* that starts at address 0 is never an answer.
FindResults(map, size) ==
  {0} \cup {lo \in DOMAIN map : lo > 0 /\ IsFreeBlock(map, lo, size)}
=============================================================================
