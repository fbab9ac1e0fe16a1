---------------------------- MODULE MemoryState ----------------------------
(***************************************************************************)
(* The interval tree in which the kernel tracks the state of physical and  *)
(* of virtual pages (class MemoryState).  A leaf covers the range from its *)
(* parent's lower bound to its own Address and holds the range's state; a  *)
(* branch holds the address dividing its children and caches how much of   *)
(* its range is free and the largest free leaf below it.  TagRange splits  *)
(* and merges leaves, FindMinimumSizeFreeBlock follows the caches.         *)
(*                                                                         *)
(* Every _ASSERTF of the code is kept: one that fails stops the kernel for *)
(* good, which is the state asserted = TRUE.  Addresses are in pages.      *)
(***************************************************************************)
EXTENDS PageMap, FiniteSetsExt

CONSTANTS HighestAddress,   \* upper bound of the tracked space, in pages
          MinRange          \* length of the shortest range callers tag

ASSUME HighestAddressAssumption == HighestAddress \in Nat \ {0}
ASSUME MinRangeAssumption == MinRange \in {0, 1}

VARIABLES StateRoot,        \* the tree
          UsedBranches,     \* nodes taken from the branch pool
          UsedLeaves,       \* nodes taken from the leaf pool
          asserted          \* an assertion has failed, the kernel has stopped

vars == <<StateRoot, UsedBranches, UsedLeaves, asserted>>

Branch == "Branch"

LeafNode(address, s) == [State |-> s, Address |-> address]

BranchNode(mid, left, right, remaining, largest) ==
  [State |-> Branch, Address |-> mid, Left |-> left, Right |-> right,
   Remaining |-> remaining, Largest |-> largest]

IsBranch(node) == node.State = Branch

-----------------------------------------------------------------------------
(* The caches of a branch.                                                 *)

GetRemaining(node, outerLow, outerHigh) ==
  CASE IsBranch(node)     -> node.Remaining
    [] node.State = Free  -> outerHigh - outerLow
    [] OTHER              -> 0

GetLargestFree(node, outerLow, outerHigh) ==
  CASE IsBranch(node)     -> node.Largest
    [] node.State = Free  -> outerHigh - outerLow
    [] OTHER              -> 0

\* What a call of the recursion returns: the node that replaces the one it was
\* given, by how much it moved the two usage counters, and whether every
\* assertion on its way held.
Result(node, branches, leaves, ok) ==
  [node |-> node, branches |-> branches, leaves |-> leaves, ok |-> ok]

Failed(node) == Result(node, 0, 0, FALSE)

\* Mutants of UpdateNode: the counters lose a leaf, the right leaf is never given
\* back, the right child is forgotten in the cache.
UpdateNodeDropsNewLeaf(branch, outerLow, outerHigh) ==
  IF ~IsBranch(branch.Right) /\ branch.Left.State = branch.Right.State
  THEN Result(LeafNode(outerHigh, branch.Left.State), -1, -2, TRUE)
  ELSE Result([branch EXCEPT
                 !.Remaining = GetRemaining(branch.Left, outerLow, branch.Address)
                   + GetRemaining(branch.Right, branch.Address, outerHigh),
                 !.Largest = Max({GetLargestFree(branch.Left, outerLow, branch.Address),
                   GetLargestFree(branch.Right, branch.Address, outerHigh)})],
              0, 0, TRUE)

UpdateNodeKeepsRightLeaf(branch, outerLow, outerHigh) ==
  LET u == UpdateNodeDropsNewLeaf(branch, outerLow, outerHigh)
  IN  IF u.leaves = 0 THEN u ELSE [u EXCEPT !.leaves = 0]

UpdateNodeLargestOfLeft(branch, outerLow, outerHigh) ==
  LET u == UpdateNodeDropsNewLeaf(branch, outerLow, outerHigh)
  IN  IF u.leaves # 0 THEN [u EXCEPT !.leaves = -1]
      ELSE [u EXCEPT !.node.Largest =
              GetLargestFree(branch.Left, outerLow, branch.Address)]

\* Two leaf children in the same state become one leaf (one leaf taken from the
\* pool, the branch and both children given back); otherwise the caches of the
\* branch are computed again from its children.
UpdateNode(branch, outerLow, outerHigh) ==
  LET mid   == branch.Address
      left  == branch.Left
      right == branch.Right
  IN  IF ~IsBranch(right) /\ left.State = right.State
      THEN Result(LeafNode(outerHigh, left.State), -1, -1, TRUE)
      ELSE Result(BranchNode(mid, left, right,
                    GetRemaining(left, outerLow, mid)
                      + GetRemaining(right, mid, outerHigh),
                    Max({GetLargestFree(left, outerLow, mid),
                         GetLargestFree(right, mid, outerHigh)})),
                  0, 0, outerHigh > outerLow)

-----------------------------------------------------------------------------
(* TagRangeInternal, its three cases as operators of their own.            *)

RECURSIVE TagRangeInternal(_, _, _, _, _, _)

\* A branch: tag the part of the range below the dividing address in the left
\* child and the part above it in the right one, then update the branch.
TagBranch(cur, low, high, s, outerLow, outerHigh) ==
  LET mid == cur.Address
      l == IF low < mid
           THEN TagRangeInternal(cur.Left, low, Min({high, mid}), s, outerLow, mid)
           ELSE Result(cur.Left, 0, 0, TRUE)
      r == IF low >= mid \/ high > mid
           THEN TagRangeInternal(cur.Right, Max({low, mid}), high, s, mid, outerHigh)
           ELSE Result(cur.Right, 0, 0, TRUE)
      u == UpdateNode([cur EXCEPT !.Left = l.node, !.Right = r.node],
                      outerLow, outerHigh)
  IN  IF outerLow <= mid /\ mid < outerHigh /\ l.ok /\ r.ok /\ u.ok
      THEN Result(u.node, l.branches + r.branches + u.branches,
                  l.leaves + r.leaves + u.leaves, TRUE)
      ELSE Failed(cur)

\* A leaf of which only a part changes: split it where the range begins, or
\* where it ends if it begins with the leaf, and tag the range in the half
\* that holds it.  One branch and two leaves are taken, the old leaf returned.
SplitLeaf(cur, low, high, target, outerLow, outerHigh) ==
  LET mid   == IF low = outerLow THEN high ELSE low
      left  == LeafNode(mid, cur.State)
      right == LeafNode(cur.Address, cur.State)
      toLeft  == low < mid /\ high <= mid
      toRight == low >= mid /\ high > mid
      t == IF toLeft THEN TagRangeInternal(left, low, high, target, outerLow, mid)
           ELSE TagRangeInternal(right, low, high, target, mid, cur.Address)
      newLeft  == IF toLeft THEN t.node ELSE left
      newRight == IF toLeft THEN right ELSE t.node
      merges == ~IsBranch(newRight) /\ newLeft.State = newRight.State
      u == UpdateNode(BranchNode(mid, newLeft, newRight, 0, 0), outerLow, outerHigh)
  IN  IF /\ outerLow < mid
         /\ cur.Address = outerHigh
         /\ toLeft \/ (toRight /\ mid < cur.Address)
         /\ t.ok /\ ~merges /\ u.ok
      THEN Result(u.node, 1 + t.branches, 1 + t.leaves, TRUE)
      ELSE Failed(cur)

\* Mutants of TagLeaf: a leaf already in the state asked for is split all the
\* same; a Reserved leaf takes the state it is tagged with.
TagLeafAlwaysSplits(cur, low, high, s, outerLow, outerHigh) ==
  LET target == IF cur.State = Reserved THEN Reserved ELSE s
  IN  IF low = outerLow /\ high = cur.Address
      THEN Result(LeafNode(cur.Address, target), 0, 0, TRUE)
      ELSE SplitLeaf(cur, low, high, target, outerLow, outerHigh)

TagLeafOverReserved(cur, low, high, s, outerLow, outerHigh) ==
  IF low = outerLow /\ high = cur.Address
  THEN Result(LeafNode(cur.Address, s), 0, 0, TRUE)
  ELSE IF cur.State = s THEN Result(cur, 0, 0, TRUE)
  ELSE SplitLeaf(cur, low, high, s, outerLow, outerHigh)

\* A leaf.  A Reserved leaf stays Reserved whatever it is tagged with.
TagLeaf(cur, low, high, s, outerLow, outerHigh) ==
  LET target == IF cur.State = Reserved THEN Reserved ELSE s
      exact  == low = outerLow /\ high = cur.Address
  IN  IF ~(cur.Address >= low /\ cur.Address >= high) THEN Failed(cur)
      ELSE IF exact THEN Result(LeafNode(cur.Address, target), 0, 0, TRUE)
      ELSE IF cur.State = target THEN Result(cur, 0, 0, TRUE)
      ELSE SplitLeaf(cur, low, high, target, outerLow, outerHigh)

TagRangeInternal(cur, low, high, s, outerLow, outerHigh) ==
  IF ~(outerHigh > outerLow /\ outerLow <= low /\ high <= outerHigh)
  THEN Failed(cur)
  ELSE IF IsBranch(cur) THEN TagBranch(cur, low, high, s, outerLow, outerHigh)
  ELSE TagLeaf(cur, low, high, s, outerLow, outerHigh)

-----------------------------------------------------------------------------
(* The two queries.                                                        *)

RECURSIVE FindMinimumSizeFreeBlockInternal(_, _, _, _)

\* Mutants of the search: the right child is tried only when the left one looks
\* too small; a leaf one page short is accepted.
FindStopsAtLeft(cur, minSize, outerLow, outerHigh) ==
  IF IsBranch(cur)
  THEN IF GetLargestFree(cur.Left, outerLow, cur.Address) >= minSize
       THEN FindMinimumSizeFreeBlockInternal(cur.Left, minSize, outerLow, cur.Address)
       ELSE IF GetLargestFree(cur.Right, cur.Address, outerHigh) >= minSize
       THEN FindMinimumSizeFreeBlockInternal(cur.Right, minSize, cur.Address, outerHigh)
       ELSE 0
  ELSE IF cur.State = Free /\ cur.Address - outerLow >= minSize THEN outerLow ELSE 0

\* The left child is searched before the right one, each only when its largest
\* free leaf is long enough.  0 is the failure, also when a leaf that starts at
\* address 0 is the one found.
FindMinimumSizeFreeBlockInternal(cur, minSize, outerLow, outerHigh) ==
  LET mid == cur.Address
      inLeft ==
        IF GetLargestFree(cur.Left, outerLow, mid) >= minSize
        THEN FindMinimumSizeFreeBlockInternal(cur.Left, minSize, outerLow, mid)
        ELSE 0
      inRight ==
        IF GetLargestFree(cur.Right, mid, outerHigh) >= minSize
        THEN FindMinimumSizeFreeBlockInternal(cur.Right, minSize, mid, outerHigh)
        ELSE 0
  IN  IF IsBranch(cur) THEN (IF inLeft # 0 THEN inLeft ELSE inRight)
      ELSE IF GetLargestFree(cur, outerLow, cur.Address) >= minSize /\ cur.State = Free
      THEN outerLow
      ELSE 0

FindMinimumSizeFreeBlock(minSize) ==
  FindMinimumSizeFreeBlockInternal(StateRoot, minSize, 0, HighestAddress)

RECURSIVE GetPageStateInternal(_, _)
GetPageStateInternal(cur, address) ==
  IF IsBranch(cur)
  THEN GetPageStateInternal(IF address < cur.Address THEN cur.Left ELSE cur.Right,
                            address)
  ELSE cur.State

GetPageState(address) == GetPageStateInternal(StateRoot, address)

-----------------------------------------------------------------------------
(* The behaviour.                                                          *)

\* The root starts as a free leaf that is taken from the branch pool.
Init ==
  /\ StateRoot = LeafNode(HighestAddress, Free)
  /\ UsedBranches = 1
  /\ UsedLeaves = 0
  /\ asserted = FALSE

TagRange(low, high, s) ==
  LET t == TagRangeInternal(StateRoot, low, high, s, 0, HighestAddress)
  IN  /\ ~asserted
      /\ StateRoot' = t.node
      /\ UsedBranches' = UsedBranches + t.branches
      /\ UsedLeaves' = UsedLeaves + t.leaves
      /\ asserted' = ~t.ok

Next ==
  \E low, high \in 0 .. HighestAddress, s \in RangeState :
     low + MinRange <= high /\ TagRange(low, high, s)

Spec == Init /\ [][Next]_vars
-----------------------------------------------------------------------------
(* Properties.                                                             *)

\* The ranges the leaves of a tree cover, with their states.
RECURSIVE Leaves(_, _, _)
Leaves(node, outerLow, outerHigh) ==
  IF IsBranch(node)
  THEN Leaves(node.Left, outerLow, node.Address)
         \cup Leaves(node.Right, node.Address, outerHigh)
  ELSE {[low |-> outerLow, high |-> outerHigh, state |-> node.State]}

AllLeaves == Leaves(StateRoot, 0, HighestAddress)
FreeLeaves == {l \in AllLeaves : l.state = Free}

\* P(branch, low, high) at every branch of the tree.
RECURSIVE EveryBranch(_, _, _, _)
EveryBranch(P(_, _, _), node, outerLow, outerHigh) ==
  IsBranch(node) =>
    /\ P(node, outerLow, outerHigh)
    /\ EveryBranch(P, node.Left, outerLow, node.Address)
    /\ EveryBranch(P, node.Right, node.Address, outerHigh)

\* No assertion of the tree code fires for a non-empty range inside the tracked
\* space: "Requested address is out of range", "About to create zero block",
\* "Right block should touch the outer bound", "Incorrect branch state",
\* "About to perform unexpected state merge" and the others.
NoAssertionFires == ~asserted

\* What the search prunes with is exact: at every branch Remaining is the number
\* of free pages of its range and Largest the length of its longest free leaf,
\* after splits and merges anywhere below it.
CachesExact ==
  LET Exact(b, low, high) ==
        /\ b.Remaining = Cardinality({p \in PageRange(low, high) : GetPageState(p) = Free})
        /\ b.Largest = Max({0} \cup {l.high - l.low :
                            l \in {f \in FreeLeaves : low <= f.low /\ f.high <= high}})
  IN  EveryBranch(Exact, StateRoot, 0, HighestAddress)

\* The nodes in use are the nodes of the tree: none is lost when leaves split and
\* merge.  The first root is a leaf in a branch slot, hence the constant.
NodesAccounted ==
  LET leaves == Cardinality(AllLeaves)
  IN  UsedLeaves = leaves - 1 /\ UsedBranches = leaves

\* A search answers the lowest free leaf, of those not starting at address 0,
\* that is long enough, and 0 only when there is none: the caches never hide it.
FindsFirstFit ==
  \A size \in 1 .. HighestAddress :
    LET fits == {l.low : l \in {f \in FreeLeaves : f.low > 0 /\ f.high - f.low >= size}}
    IN  FindMinimumSizeFreeBlock(size) = IF fits = {} THEN 0 ELSE Min(fits)

\* The tree implements the abstract page map.
Abstract == INSTANCE PageState
              WITH state <- [p \in PageRange(0, HighestAddress) |-> GetPageState(p)]

\* Every TagRange changes exactly the pages of its range, except Reserved ones,
\* whatever the shape of the tree.
ImplementsPageState == Abstract!Spec

=============================================================================
