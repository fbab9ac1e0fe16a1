----------------------------- MODULE PageState -----------------------------
(***************************************************************************)
(* The abstract specification of one MemoryState instance: pages that are  *)
(* tagged range by range.                                                  *)
(***************************************************************************)
EXTENDS PageMap

CONSTANT HighestAddress     \* number of pages tracked

VARIABLE state              \* page -> RangeState

Pages == PageRange(0, HighestAddress)

TypeOK == state \in [Pages -> RangeState]

\* MemoryState::Init: one free range.
Init == state = [p \in Pages |-> Free]

\* MemoryState::TagRange on a non-empty range inside the tracked space.
TagRange(lo, hi, s) == state' = Tagged(state, lo, hi, s)

Next ==
  \E lo \in Pages, hi \in 1 .. HighestAddress, s \in RangeState :
     lo < hi /\ TagRange(lo, hi, s)

Spec == Init /\ [][Next]_state
=============================================================================
