-------------------------- MODULE PageTablesProofs --------------------------
(***************************************************************************)
(* Page tables keep one role, callers their memory, and translations are   *)
(* the ones asked for, for tables, blocks and memories of any size.        *)
(*                                                                         *)
(* Three observations carry the proof.  Both searches are first fit and    *)
(* nothing is given back, so memory is given out from the bottom up        *)
(* (Contiguous).  Tables are therefore used in the order of their pages:   *)
(* what is linked lies below the free list, and the free list below the    *)
(* block that comes after it (Ordered).  And a refill leaves enough tables *)
(* for the calls it makes itself (PoolSuffices), so that it never runs     *)
(* inside another.                                                         *)
(***************************************************************************)
EXTENDS PageTables, SequenceTheorems, TLAPS

DirOf(page) == page \div FanOut
SlotOf(page) == page % FanOut

\* The pages below top have been given out, and the frames that go with them.
Contiguous(top) ==
  /\ top \in FanOut .. NumPages /\ FirstFrame + (top - FanOut) <= NumPages
  /\ given \in [Pages -> Nat]
  /\ \A v \in Pages :
       given[v] = IF v \in 1 .. StaticTables THEN v
                  ELSE IF v \in FanOut .. top - 1 THEN FirstFrame + (v - FanOut)
                  ELSE Null

-----------------------------------------------------------------------------
(* Pages, directory entries and slots.                                     *)

LEMMA Sizes ==
  /\ FanOut \in Nat /\ FanOut >= 2 /\ NumDirs \in Nat /\ NumDirs >= 1 /\ BlockSize \in Nat /\ BlockSize >= 1
  /\ MaxAlloc \in Nat /\ MaxAlloc >= 1 /\ StaticTables \in 1 .. FanOut - 1 /\ FirstFrame \in Nat /\ FirstFrame >= FanOut
  /\ NumPages \in Nat /\ NumPages >= FanOut
  <1>1. /\ FanOut \in Nat \ {0} /\ NumDirs \in Nat \ {0} /\ BlockSize \in Nat \ {0} /\ MaxAlloc \in Nat \ {0}
        /\ StaticTables \in 1 .. FanOut - 1 /\ FirstFrame \in FanOut .. NumPages
    BY TableAssumption
  <1>2. FanOut * NumDirs \in Nat /\ FanOut * NumDirs >= FanOut
    BY <1>1
  <1> QED
    BY <1>1, <1>2 DEF NumPages

LEMMA Placed ==
  ASSUME NEW p \in Pages
  PROVE  DirOf(p) \in Dirs /\ SlotOf(p) \in Slots /\ p \in Nat
  <1>1. FanOut \in Nat /\ FanOut >= 2 /\ NumDirs \in Nat /\ p \in Nat /\ p < FanOut * NumDirs
    BY Sizes DEF Pages, NumPages
  <1>2. p \div FanOut \in Nat /\ p \div FanOut < NumDirs /\ p % FanOut \in 0 .. FanOut - 1
    BY <1>1
  <1> QED
    BY <1>1, <1>2 DEF DirOf, SlotOf, Dirs, Slots

LEMMA SamePlace ==
  ASSUME NEW p \in Pages, NEW q \in Pages, DirOf(p) = DirOf(q), SlotOf(p) = SlotOf(q)
  PROVE  p = q
  <1>1. FanOut \in Nat /\ FanOut >= 2 /\ p \in Nat /\ q \in Nat
    BY Sizes DEF Pages
  <1>2. p = FanOut * (p \div FanOut) + (p % FanOut) /\ q = FanOut * (q \div FanOut) + (q % FanOut)
    BY <1>1
  <1> QED
    BY <1>2 DEF DirOf, SlotOf

LEMMA DirGrows ==
  ASSUME NEW p \in Nat, NEW q \in Nat, p <= q
  PROVE  DirOf(p) \in Nat /\ DirOf(q) \in Nat /\ DirOf(p) <= DirOf(q)
  BY Sizes DEF DirOf

LEMMA DirNext ==
  ASSUME NEW p \in Nat
  PROVE  DirOf(p + 1) <= DirOf(p) + 1
  BY Sizes DEF DirOf

LEMMA DirSpan ==
  ASSUME NEW p \in Nat, NEW n \in Nat, n >= 1
  PROVE  DirOf(p + n - 1) <= DirOf(p) + (n - 1) \div FanOut + 1
  <1>1. PICK m \in Nat : m = n - 1
    OBVIOUS
  <1>2. FanOut \in Nat /\ FanOut >= 2
    BY Sizes
  <1>3. (p + m) \div FanOut <= p \div FanOut + m \div FanOut + 1
    <2>1. PICK a \in Nat, b \in 0 .. FanOut - 1 : p = FanOut * a + b
      <3>1. p \div FanOut \in Nat /\ p % FanOut \in 0 .. FanOut - 1 /\ p = FanOut * (p \div FanOut) + (p % FanOut)
        BY <1>2
      <3> QED
        BY <3>1
    <2>2. PICK c \in Nat, d \in 0 .. FanOut - 1 : m = FanOut * c + d
      <3>1. m \div FanOut \in Nat /\ m % FanOut \in 0 .. FanOut - 1 /\ m = FanOut * (m \div FanOut) + (m % FanOut)
        BY <1>2
      <3> QED
        BY <3>1
    <2>3. p \div FanOut = a /\ m \div FanOut = c
      BY <1>2, <2>1, <2>2
    <2>4. p + m < FanOut * (a + c + 2)
      BY <1>2, <2>1, <2>2
    <2>5. (p + m) \div FanOut < a + c + 2
      BY <1>2, <2>4
    <2> QED
      BY <1>2, <2>3, <2>5
  <1>4. p + n - 1 = p + m
    BY <1>1
  <1> QED
    BY <1>1, <1>3, <1>4 DEF DirOf

-----------------------------------------------------------------------------
(* Giving memory out.                                                      *)

\* First fit finds the first page that was never given, and the frame that goes
\* with it.
LEMMA FirstFitIsTop ==
  ASSUME NEW top, Contiguous(top), NEW size \in Nat \ {0}, Fits(size)
  PROVE  /\ top + size <= NumPages /\ FirstFrame + (top - FanOut) + size <= NumPages
         /\ FirstFit(FreeVirtual, size) = top
         /\ FirstFit(FreePhysical, size) = FirstFrame + (top - FanOut)
  <1>1. /\ top \in FanOut .. NumPages /\ FirstFrame + (top - FanOut) <= NumPages
        /\ \A v \in Pages :
             given[v] = IF v \in 1 .. StaticTables THEN v
                        ELSE IF v \in FanOut .. top - 1 THEN FirstFrame + (v - FanOut)
                        ELSE Null
    BY DEF Contiguous
  <1>2. PICK bottom : bottom = FirstFrame + (top - FanOut)
    OBVIOUS
  <1>3. top \in Nat /\ bottom \in Nat /\ bottom >= FirstFrame /\ top >= FanOut
    BY <1>1, <1>2, Sizes
  <1>4. ASSUME NEW b \in Nat, b < top PROVE ~FreeVirtual(b, size)
    <2> SUFFICES ASSUME FreeVirtual(b, size) PROVE FALSE
      OBVIOUS
    <2>1. b >= FanOut /\ b \in b .. b + size - 1 /\ b \in Pages
      BY <1>3, <1>4, Sizes, <1>1 DEF FreeVirtual, Pages
    <2>2. given[b] = Null
      BY <2>1 DEF FreeVirtual
    <2>3. given[b] = FirstFrame + (b - FanOut)
      BY <1>1, <1>3, <1>4, <2>1, Sizes
    <2> QED
      BY <2>1, <2>2, <2>3, Sizes DEF Null
  <1>5. ASSUME NEW b \in Nat, b < bottom PROVE ~FreePhysical(b, size)
    <2> SUFFICES ASSUME FreePhysical(b, size) PROVE FALSE
      OBVIOUS
    <2>1. b >= FirstFrame /\ b \in b .. b + size - 1
      BY <1>3, <1>5 DEF FreePhysical
    <2>2. PICK v : v = b - FirstFrame + FanOut
      OBVIOUS
    <2>3. v \in FanOut .. top - 1 /\ v \in Pages /\ FirstFrame + (v - FanOut) = b /\ v \notin 1 .. StaticTables
      BY <1>1, <1>2, <1>3, <1>5, <2>1, <2>2, Sizes DEF Pages
    <2>4. given[v] = b
      BY <1>1, <2>3
    <2> QED
      BY <2>1, <2>3, <2>4 DEF FreePhysical
  <1>6. top + size <= NumPages /\ FreeVirtual(top, size) /\ top \in Pages
    <2>1. PICK v \in Pages : FreeVirtual(v, size)
      BY DEF Fits
    <2>2. v \in Nat /\ v >= top /\ v + size <= NumPages
      BY <1>3, <1>4, <2>1, Sizes DEF Pages, FreeVirtual
    <2>3. top + size <= NumPages /\ top \in Pages
      BY <1>3, <2>2, Sizes DEF Pages
    <2>4. ASSUME NEW u \in top .. top + size - 1 PROVE given[u] = Null
      <3>1. u \in Pages /\ u \notin 1 .. StaticTables /\ u \notin FanOut .. top - 1
        BY <1>3, <2>3, Sizes DEF Pages
      <3> QED
        BY <1>1, <3>1
    <2> QED
      BY <1>3, <2>3, <2>4 DEF FreeVirtual
  <1>7. bottom + size <= NumPages /\ FreePhysical(bottom, size) /\ bottom \in Pages
    <2>1. PICK f \in Pages : FreePhysical(f, size)
      BY DEF Fits
    <2>2. f \in Nat /\ f >= bottom /\ f + size <= NumPages
      BY <1>3, <1>5, <2>1, Sizes DEF Pages, FreePhysical
    <2>3. bottom + size <= NumPages /\ bottom \in Pages
      BY <1>3, <2>2, Sizes DEF Pages
    <2>4. ASSUME NEW g \in bottom .. bottom + size - 1, NEW v \in Pages PROVE given[v] # g
      <3>1. g >= FanOut /\ g >= bottom /\ g \in Nat /\ v \in Nat
        BY <1>3, Sizes DEF Pages
      <3>2. CASE v \in 1 .. StaticTables
        BY <1>1, <3>1, <3>2, Sizes
      <3>3. CASE v \notin 1 .. StaticTables /\ v \in FanOut .. top - 1
        <4>1. given[v] = FirstFrame + (v - FanOut) /\ v < top
          BY <1>1, <1>3, <3>3
        <4> QED
          BY <1>2, <1>3, <3>1, <4>1, Sizes
      <3>4. CASE v \notin 1 .. StaticTables /\ v \notin FanOut .. top - 1
        <4>1. given[v] = 0
          BY <1>1, <3>4 DEF Null
        <4> QED
          BY <3>1, <4>1, Sizes
      <3> QED
        BY <3>2, <3>3, <3>4
    <2> QED
      BY <1>3, <2>3, <2>4 DEF FreePhysical
  <1>8. FirstFit(FreeVirtual, size) = top
    <2>1. \A c \in 0 .. top - 1 : ~FreeVirtual(c, size)
      BY <1>3, <1>4
    <2>2. ASSUME NEW b \in Pages, FreeVirtual(b, size), \A c \in 0 .. b - 1 : ~FreeVirtual(c, size) PROVE b = top
      <3>1. b \in Nat
        BY Sizes DEF Pages
      <3>2. b >= top
        BY <1>3, <1>4, <2>2, <3>1
      <3>3. ~(b > top)
        BY <1>3, <1>6, <2>2, <3>1
      <3> QED
        BY <1>3, <3>1, <3>2, <3>3
    <2> QED
      BY <1>6, <2>1, <2>2 DEF FirstFit
  <1>9. FirstFit(FreePhysical, size) = bottom
    <2>1. \A c \in 0 .. bottom - 1 : ~FreePhysical(c, size)
      BY <1>3, <1>5
    <2>2. ASSUME NEW b \in Pages, FreePhysical(b, size), \A c \in 0 .. b - 1 : ~FreePhysical(c, size) PROVE b = bottom
      <3>1. b \in Nat
        BY Sizes DEF Pages
      <3>2. b >= bottom
        BY <1>3, <1>5, <2>2, <3>1
      <3>3. ~(b > bottom)
        BY <1>3, <1>7, <2>2, <3>1
      <3> QED
        BY <1>3, <3>1, <3>2, <3>3
    <2> QED
      BY <1>7, <2>1, <2>2 DEF FirstFit
  <1> QED
    BY <1>2, <1>6, <1>7, <1>8, <1>9

LEMMA GiveDoes ==
  ASSUME NEW top, Contiguous(top), NEW size \in Nat \ {0}, NEW from, Give(size, from)
  PROVE  /\ FirstFit(FreeVirtual, size) = top /\ top + size \in FanOut .. NumPages
         /\ Contiguous(top + size)'
         /\ held' = IF from = "Caller" THEN held \cup (top .. top + size - 1) ELSE held
         /\ \A v \in Pages : given[v] # Null => given'[v] = given[v]
  <1>1. /\ top + size <= NumPages /\ FirstFrame + (top - FanOut) + size <= NumPages
        /\ FirstFit(FreeVirtual, size) = top
        /\ FirstFit(FreePhysical, size) = FirstFrame + (top - FanOut)
    BY FirstFitIsTop DEF Give
  <1>2. /\ top \in FanOut .. NumPages /\ FirstFrame + (top - FanOut) <= NumPages /\ given \in [Pages -> Nat]
        /\ \A v \in Pages :
             given[v] = IF v \in 1 .. StaticTables THEN v
                        ELSE IF v \in FanOut .. top - 1 THEN FirstFrame + (v - FanOut)
                        ELSE Null
    BY DEF Contiguous
  <1>3. PICK bottom : bottom = FirstFrame + (top - FanOut)
    OBVIOUS
  <1>4. /\ given' = [u \in Pages |-> IF u \in top .. top + size - 1 THEN bottom + (u - top) ELSE given[u]]
        /\ held' = IF from = "Caller" THEN held \cup (top .. top + size - 1) ELSE held
    BY <1>1, <1>3 DEF Give
  <1>5. top \in Nat /\ top >= FanOut /\ bottom \in Nat
    BY <1>2, <1>3, Sizes
  <1>t. PICK t : t = top + size
    OBVIOUS
  <1>6. \A u \in Pages : u \in Nat
    BY Sizes DEF Pages
  <1>7. given' \in [Pages -> Nat]
    BY <1>2, <1>4, <1>5, <1>6
  <1>8. ASSUME NEW v \in Pages
        PROVE  given'[v] = IF v \in 1 .. StaticTables THEN v
                           ELSE IF v \in FanOut .. t - 1 THEN FirstFrame + (v - FanOut)
                           ELSE Null
    <2>0. v \in Nat
      BY <1>6
    <2>1. CASE v \in top .. top + size - 1
      <3>1. v \notin 1 .. StaticTables /\ v \in FanOut .. t - 1
        BY <1>5, <1>t, <2>0, <2>1, Sizes
      <3>2. bottom + (v - top) = FirstFrame + (v - FanOut)
        BY <1>3, <1>5, <2>0, Sizes
      <3> QED
        BY <1>4, <2>1, <3>1, <3>2
    <2>2. CASE v \notin top .. top + size - 1
      <3>1. given'[v] = given[v]
        BY <1>4, <2>2
      <3>2. v \in FanOut .. t - 1 <=> v \in FanOut .. top - 1
        BY <1>5, <1>t, <2>0, <2>2, Sizes
      <3> QED
        BY <1>2, <3>1, <3>2
    <2> QED
      BY <2>1, <2>2
  <1>9. t \in FanOut .. NumPages /\ FirstFrame + (t - FanOut) <= NumPages
    BY <1>1, <1>5, <1>t, Sizes
  <1>10. ASSUME NEW v \in Pages, given[v] # Null PROVE given'[v] = given[v]
    <2>1. v \notin top .. top + size - 1
      <3>1. ASSUME v \in top .. top + size - 1 PROVE FALSE
        <4>1. v \in Nat /\ v \notin 1 .. StaticTables /\ v \notin FanOut .. top - 1
          BY <1>5, <1>6, <3>1, Sizes
        <4> QED
          BY <1>2, <1>10, <4>1
      <3> QED
        BY <3>1
    <2> QED
      BY <1>4, <2>1
  <1>11. Contiguous(t)'
    BY <1>7, <1>8, <1>9 DEF Contiguous
  <1> QED
    BY <1>1, <1>4, <1>9, <1>10, <1>11, <1>t

-----------------------------------------------------------------------------
(* The invariant.                                                          *)

Remaining(c) == c.base + c.done .. c.base + c.size - 1

TypeOK ==
  /\ dir \in [Dirs -> Pages] /\ tables \in [Pages -> [Slots -> Nat]]
  /\ pool \in Seq(Nat) /\ nextBlock \in Nat /\ calls \in Seq(Call)

\* A caller's MapPages, or the first block's; inside the former at most one more,
\* for the block or the page that its refill allocates.
Shape ==
  /\ Len(calls) <= 2
  /\ Len(calls) >= 1 =>
       /\ calls[1].from = IF nextBlock = Null THEN "Block" ELSE "Caller"
       /\ calls[1].refill # "No" => nextBlock # Null /\ calls[1].done < calls[1].size
  /\ Len(calls) = 1 => calls[1].refill # "Block"
  /\ Len(calls) = 2 =>
       /\ calls[2].refill = "No"
       /\ \/ calls[1].refill = "Block" /\ calls[2].from = "Block"
          \/ calls[1].refill = "Ready" /\ calls[2].from = "Spare"

\* Everything in progress or held lies in what was given out.
Ranges(top) ==
  /\ \A i \in 1 .. Len(calls) :
       /\ calls[i].base >= FanOut /\ calls[i].base + calls[i].size <= top
       /\ calls[i].done <= calls[i].size
       /\ calls[i].from = "Block" => calls[i].size = BlockSize
  /\ held \subseteq FanOut .. top - 1
  /\ nextBlock # Null => nextBlock >= FanOut /\ nextBlock + BlockSize <= top

\* Tables below the mark may be in use: it is the block that waits to become the
\* free list, or the one being mapped to succeed it.
BlockInProgress == Len(calls) >= 1 /\ calls[Len(calls)].from = "Block"
Mark ==
  IF BlockInProgress THEN calls[Len(calls)].base
  ELSE IF nextBlock = Null THEN FanOut ELSE nextBlock

PoolOrdered ==
  \A i \in 1 .. Len(pool) : pool[i] >= 1 /\ pool[i] < Mark /\ pool[i] = pool[1] + i - 1
DirOrdered ==
  /\ \A d \in Dirs : dir[d] < Mark /\ (dir[d] # Null => \A i \in 1 .. Len(pool) : dir[d] < pool[i])
  /\ \A d, e \in Dirs : dir[d] = dir[e] /\ d # e => dir[d] = Null

TablesGiven ==
  /\ \A i \in 1 .. Len(pool) : pool[i] \in Pages /\ given[pool[i]] # Null
  /\ \A d \in Dirs : dir[d] # Null => given[dir[d]] # Null

\* The tables that the rest of a call can still take.
Need(c) ==
  IF c.done = c.size THEN 0
  ELSE DirOf(c.base + c.size - 1) - DirOf(c.base + c.done)
         + (IF dir[DirOf(c.base + c.done)] = Null THEN 1 ELSE 0)

PoolSuffices ==
  /\ Len(calls) = 1 => /\ calls[1].refill = "Ready" => Len(pool) >= 1
                       /\ calls[1].refill = "Spare" => Len(pool) >= 2
  /\ \A c \in Call :
       Len(calls) = 2 /\ calls[2] = c => Need(c) + (IF c.from = "Block" THEN 2 ELSE 1) <= Len(pool)

HeldMapped ==
  \A v \in held : GetPhysicalAddress(v) = given[v] \/ (Len(calls) >= 1 /\ v \in Remaining(calls[1]))

\* The directory entry that a refill will be stored into has nothing of a caller's
\* to lose but what its own call will map.
NothingToLose(c) ==
  /\ \A v \in held : DirOf(v) = DirOf(c.base + c.done) => v \in Remaining(c)
  /\ c.done > 0 => DirOf(c.base) # DirOf(c.base + c.done)
Pending == Len(calls) >= 1 /\ calls[1].refill # "No" => NothingToLose(calls[1])

BaseMapped ==
  \A i \in 1 .. Len(calls), v \in Pages :
    calls[i].base = v /\ calls[i].done > 0 => GetPhysicalAddress(v) = given[v]

GivenInOrder == \E top \in FanOut .. NumPages : Contiguous(top) /\ Ranges(top)

Inv ==
  /\ TypeOK /\ Shape /\ GivenInOrder /\ PoolOrdered /\ DirOrdered /\ TablesGiven /\ PoolSuffices
  /\ NoStrayTranslation /\ HeldMapped /\ Pending /\ BaseMapped

-----------------------------------------------------------------------------
(* Entries written.                                                        *)

LEMMA Translation ==
  ASSUME NEW v
  PROVE  GetPhysicalAddress(v) = IF dir[DirOf(v)] = Null THEN Null ELSE tables[dir[DirOf(v)]][SlotOf(v)]
  BY DEF GetPhysicalAddress, DirOf, SlotOf

LEMMA TranslationNext ==
  ASSUME NEW v
  PROVE  GetPhysicalAddress(v)' = IF dir'[DirOf(v)] = Null THEN Null ELSE tables'[dir'[DirOf(v)]][SlotOf(v)]
  BY DEF GetPhysicalAddress, DirOf, SlotOf

\* Page p is entered into its table, and nothing else changes.
Entered(p) ==
  /\ given' = given
  /\ GetPhysicalAddress(p)' = given[p]
  /\ \A v \in Pages : v # p => GetPhysicalAddress(v)' = GetPhysicalAddress(v)

LEMMA WriteEnters ==
  ASSUME TypeOK, DirOrdered, given \in [Pages -> Nat], NEW p \in Pages, NEW t, t = dir[DirOf(p)], t # Null,
         tables' = [tables EXCEPT ![t] = Written(@, p)], dir' = dir, given' = given
  PROVE  Entered(p)
  <1>1. DirOf(p) \in Dirs /\ SlotOf(p) \in Slots /\ t \in Pages /\ tables[t] \in [Slots -> Nat]
    BY Placed DEF TypeOK
  <1>2. tables' = [tables EXCEPT ![t] = [tables[t] EXCEPT ![SlotOf(p)] = given[p]]]
    BY <1>1 DEF Written, SlotOf, TypeOK
  <1>3. /\ tables'[t] = [tables[t] EXCEPT ![SlotOf(p)] = given[p]]
        /\ \A u \in Pages : u # t => tables'[u] = tables[u]
    BY <1>1, <1>2 DEF TypeOK
  <1>4. tables'[t][SlotOf(p)] = given[p] /\ \A s \in Slots : s # SlotOf(p) => tables'[t][s] = tables[t][s]
    BY <1>1, <1>3
  <1>5. GetPhysicalAddress(p)' = given[p]
    BY <1>4, TranslationNext
  <1>6. ASSUME NEW v \in Pages, v # p PROVE GetPhysicalAddress(v)' = GetPhysicalAddress(v)
    <2>1. DirOf(v) \in Dirs /\ SlotOf(v) \in Slots
      BY Placed
    <2>2. CASE dir[DirOf(v)] = Null
      BY <2>2, Translation, TranslationNext
    <2>3. CASE dir[DirOf(v)] # Null /\ dir[DirOf(v)] # t
      <3>1. dir[DirOf(v)] \in Pages
        BY <2>1 DEF TypeOK
      <3> QED
        BY <1>3, <2>3, <3>1, Translation, TranslationNext
    <2>4. CASE dir[DirOf(v)] = t
      <3>1. DirOf(v) = DirOf(p)
        BY <1>1, <2>1, <2>4 DEF DirOrdered
      <3>2. SlotOf(v) # SlotOf(p)
        BY <1>6, <3>1, SamePlace
      <3> QED
        BY <1>4, <2>1, <2>4, <3>2, Translation, TranslationNext
    <2> QED
      BY <2>2, <2>3, <2>4
  <1> QED
    BY <1>5, <1>6 DEF Entered

\* A cleared table is put in; what its directory entry held before is lost.
LEMMA LinkEnters ==
  ASSUME TypeOK, given \in [Pages -> Nat], NEW p \in Pages, NEW t \in Pages, t # Null, \A d \in Dirs : dir[d] # t,
         dir' = [dir EXCEPT ![DirOf(p)] = t],
         tables' = [tables EXCEPT ![t] = Written([s \in Slots |-> Null], p)], given' = given
  PROVE  /\ GetPhysicalAddress(p)' = given[p]
         /\ \A v \in Pages : v # p /\ DirOf(v) = DirOf(p) => GetPhysicalAddress(v)' = Null
         /\ \A v \in Pages : DirOf(v) # DirOf(p) => GetPhysicalAddress(v)' = GetPhysicalAddress(v)
         /\ dir[DirOf(p)] = Null => Entered(p)
  <1>1. DirOf(p) \in Dirs /\ SlotOf(p) \in Slots
    BY Placed
  <1>2. /\ dir'[DirOf(p)] = t /\ \A d \in Dirs : d # DirOf(p) => dir'[d] = dir[d]
    BY <1>1 DEF TypeOK
  <1>3. /\ tables'[t] = [[s \in Slots |-> Null] EXCEPT ![SlotOf(p)] = given[p]]
        /\ \A u \in Pages : u # t => tables'[u] = tables[u]
    BY <1>1 DEF TypeOK, Written, SlotOf
  <1>4. tables'[t][SlotOf(p)] = given[p] /\ \A s \in Slots : s # SlotOf(p) => tables'[t][s] = Null
    BY <1>1, <1>3
  <1>5. GetPhysicalAddress(p)' = given[p]
    BY <1>2, <1>4, TranslationNext
  <1>6. ASSUME NEW v \in Pages, v # p, DirOf(v) = DirOf(p) PROVE GetPhysicalAddress(v)' = Null
    <2>1. SlotOf(v) \in Slots /\ SlotOf(v) # SlotOf(p)
      BY <1>6, Placed, SamePlace
    <2> QED
      BY <1>2, <1>4, <1>6, <2>1, TranslationNext
  <1>7. ASSUME NEW v \in Pages, DirOf(v) # DirOf(p) PROVE GetPhysicalAddress(v)' = GetPhysicalAddress(v)
    <2>1. DirOf(v) \in Dirs /\ dir'[DirOf(v)] = dir[DirOf(v)] /\ dir[DirOf(v)] \in Pages /\ dir[DirOf(v)] # t
      BY <1>2, <1>7, Placed DEF TypeOK
    <2>2. tables'[dir[DirOf(v)]] = tables[dir[DirOf(v)]]
      BY <1>3, <2>1
    <2> QED
      BY <2>1, <2>2, Translation, TranslationNext
  <1>8. ASSUME dir[DirOf(p)] = Null PROVE Entered(p)
    <2>1. ASSUME NEW v \in Pages, DirOf(v) = DirOf(p) PROVE GetPhysicalAddress(v) = Null
      BY <1>8, <2>1, Translation
    <2> QED
      BY <1>5, <1>6, <1>7, <2>1 DEF Entered
  <1> QED
    BY <1>5, <1>6, <1>7, <1>8

-----------------------------------------------------------------------------
(* The stack of calls.                                                     *)

LEMMA CallFields ==
  ASSUME NEW c \in Call
  PROVE  c.base \in Nat /\ c.base \in Pages /\ c.size \in Nat /\ c.size >= 1 /\ c.done \in Nat
  BY Sizes DEF Call, Pages

LEMMA Replaced ==
  ASSUME NEW s \in Seq(Call), Len(s) >= 1, NEW c \in Call
  PROVE  /\ Append(Front(s), c) \in Seq(Call) /\ Len(Append(Front(s), c)) = Len(s)
         /\ Append(Front(s), c)[Len(s)] = c
         /\ \A i \in 1 .. Len(s) - 1 : Append(Front(s), c)[i] = s[i]
  <1>1. PICK n \in Nat : n = Len(s)
    OBVIOUS
  <1>2. PICK f : f = Front(s)
    OBVIOUS
  <1>3. f \in Seq(Call) /\ Len(f) = n - 1 /\ \A i \in 1 .. n - 1 : f[i] = s[i]
    BY <1>1, <1>2 DEF Front
  <1>4. Append(f, c) \in Seq(Call) /\ Len(Append(f, c)) = n /\ Append(f, c)[n] = c
    BY <1>1, <1>3
  <1>5. \A i \in 1 .. n - 1 : Append(f, c)[i] = s[i]
    BY <1>1, <1>3
  <1> QED
    BY <1>1, <1>2, <1>4, <1>5

LEMMA Popped ==
  ASSUME NEW s \in Seq(Call), Len(s) >= 1
  PROVE  /\ Front(s) \in Seq(Call) /\ Len(Front(s)) = Len(s) - 1
         /\ \A i \in 1 .. Len(s) - 1 : Front(s)[i] = s[i]
  <1>1. PICK n \in Nat : n = Len(s)
    OBVIOUS
  <1>2. PICK f : f = Front(s)
    OBVIOUS
  <1>3. f \in Seq(Call) /\ Len(f) = n - 1 /\ \A i \in 1 .. n - 1 : f[i] = s[i]
    BY <1>1, <1>2 DEF Front
  <1> QED
    BY <1>1, <1>2, <1>3

LEMMA TopIs ==
  ASSUME TypeOK, Len(calls) >= 1
  PROVE  Top = calls[Len(calls)] /\ Top \in Call
  BY DEF TypeOK, Top, Last

LEMMA NotEmpty == ASSUME TypeOK PROVE calls # <<>> <=> Len(calls) >= 1
  BY DEF TypeOK

\* The top call has done one page more.
LEMMA AdvancedCalls ==
  ASSUME TypeOK, Len(calls) >= 1, calls' = WithTop(Advanced(Top))
  PROVE  /\ calls' \in Seq(Call) /\ Len(calls') = Len(calls)
         /\ \A i \in 1 .. Len(calls) : /\ calls'[i].base = calls[i].base /\ calls'[i].size = calls[i].size
                                       /\ calls'[i].from = calls[i].from
         /\ calls'[Len(calls)].done = calls[Len(calls)].done + 1 /\ calls'[Len(calls)].refill = "No"
         /\ \A i \in 1 .. Len(calls) - 1 : calls'[i] = calls[i]
  <1>1. PICK c : c = Top
    OBVIOUS
  <1>2. c = calls[Len(calls)] /\ c \in Call
    BY <1>1, TopIs
  <1>3. PICK d : d = Advanced(c)
    OBVIOUS
  <1>4. d \in Call /\ d.base = c.base /\ d.size = c.size /\ d.from = c.from /\ d.done = c.done + 1 /\ d.refill = "No"
    <2>1. PICK k \in Nat : k = c.done
      BY <1>2 DEF Call
    <2>2. d = [c EXCEPT !.done = k + 1, !.refill = "No"]
      BY <1>3, <2>1 DEF Advanced
    <2>3. k + 1 \in Nat
      OBVIOUS
    <2>4. d.base = c.base /\ d.size = c.size /\ d.from = c.from /\ d.done = k + 1 /\ d.refill = "No"
      BY <1>2, <2>2 DEF Call
    <2>5. d \in Call
      BY <1>2, <2>2, <2>3 DEF Call
    <2> QED
      BY <2>1, <2>4, <2>5
  <1>5. calls' = Append(Front(calls), d)
    BY <1>1, <1>3 DEF WithTop
  <1>6. /\ calls' \in Seq(Call) /\ Len(calls') = Len(calls) /\ calls'[Len(calls)] = d
        /\ \A i \in 1 .. Len(calls) - 1 : calls'[i] = calls[i]
    BY <1>4, <1>5, Replaced DEF TypeOK
  <1>7. \A i \in 1 .. Len(calls) : i = Len(calls) \/ i \in 1 .. Len(calls) - 1
    BY DEF TypeOK
  <1> QED
    BY <1>2, <1>4, <1>6, <1>7

-----------------------------------------------------------------------------
(* One page of the loop.                                                   *)

LEMMA RemainingIs ==
  ASSUME NEW c \in Call, NEW v
  PROVE  v \in Remaining(c) <=> v \in Nat /\ c.base + c.done <= v /\ v < c.base + c.size
  BY CallFields DEF Remaining

LEMMA Depth ==
  ASSUME Inv, Len(calls) >= 1
  PROVE  Len(calls) \in {1, 2} /\ 1 \in 1 .. Len(calls) /\ Len(calls) \in 1 .. Len(calls)
  <1>1. PICK n : n = Len(calls)
    OBVIOUS
  <1>2. n \in Nat /\ n >= 1 /\ n <= 2
    BY <1>1 DEF Inv, TypeOK, Shape
  <1>3. n \in {1, 2} /\ 1 \in 1 .. n /\ n \in 1 .. n
    BY <1>2
  <1> QED
    BY <1>1, <1>3

LEMMA WorkingPage ==
  ASSUME Inv, Len(calls) >= 1, NEW c, c = calls[Len(calls)], c.done < c.size
  PROVE  /\ c \in Call /\ c.base + c.done \in Pages /\ given \in [Pages -> Nat]
         /\ given[c.base + c.done] # Null /\ given[c.base] # Null /\ NextPage = c.base + c.done
  <1>1. c \in Call /\ Top = c
    BY TopIs DEF Inv
  <1>2. PICK top \in FanOut .. NumPages : Contiguous(top) /\ Ranges(top)
    BY DEF Inv, GivenInOrder
  <1>3. c.base >= FanOut /\ c.base + c.size <= top
    BY <1>2 DEF Ranges, Inv, TypeOK
  <1>4. c.base \in Nat /\ c.size \in Nat /\ c.done \in Nat
    BY <1>1, CallFields
  <1>5. ASSUME NEW v \in c.base .. c.base + c.size - 1 PROVE v \in Pages /\ given[v] # Null
    <2>1. v \in Nat /\ v >= FanOut /\ v < top /\ top <= NumPages
      BY <1>2, <1>3, <1>4, Sizes
    <2>2. v \in Pages /\ v \in FanOut .. top - 1 /\ v \notin 1 .. StaticTables
      BY <1>2, <2>1, Sizes DEF Pages
    <2>3. given[v] = FirstFrame + (v - FanOut)
      BY <1>2, <2>2 DEF Contiguous
    <2> QED
      BY <2>1, <2>2, <2>3, Sizes DEF Null
  <1>6. c.base + c.done \in c.base .. c.base + c.size - 1 /\ c.base \in c.base .. c.base + c.size - 1
    BY <1>4
  <1> QED
    BY <1>1, <1>2, <1>5, <1>6 DEF Contiguous, NextPage

LEMMA HeldGiven ==
  ASSUME Inv, NEW v \in held
  PROVE  v \in Pages /\ given[v] # Null
  <1>1. PICK top \in FanOut .. NumPages : Contiguous(top) /\ Ranges(top)
    BY DEF Inv, GivenInOrder
  <1>2. v \in FanOut .. top - 1
    BY <1>1 DEF Ranges
  <1>3. v \in Pages /\ v \notin 1 .. StaticTables /\ v \in Nat /\ v >= FanOut
    BY <1>1, <1>2, Sizes DEF Pages
  <1>4. given[v] = FirstFrame + (v - FanOut)
    BY <1>1, <1>2, <1>3 DEF Contiguous
  <1> QED
    BY <1>3, <1>4, Sizes DEF Null

LEMMA AdvanceShape ==
  ASSUME Inv, Len(calls) >= 1, calls' = WithTop(Advanced(Top)), Top.done < Top.size,
         Top.refill = "No" \/ Len(calls) = 1, nextBlock' = nextBlock, given' = given, held' = held
  PROVE  Shape' /\ GivenInOrder' /\ Mark' = Mark
  <1>1. /\ calls' \in Seq(Call) /\ Len(calls') = Len(calls)
        /\ \A i \in 1 .. Len(calls) : /\ calls'[i].base = calls[i].base /\ calls'[i].size = calls[i].size
                                      /\ calls'[i].from = calls[i].from
        /\ calls'[Len(calls)].done = calls[Len(calls)].done + 1 /\ calls'[Len(calls)].refill = "No"
        /\ \A i \in 1 .. Len(calls) - 1 : calls'[i] = calls[i]
    BY AdvancedCalls DEF Inv
  <1>2. Top = calls[Len(calls)] /\ Top \in Call
    BY TopIs DEF Inv
  <1>3. Len(calls) \in {1, 2}
    BY Depth
  <1>4. Shape'
    <2>1. CASE Len(calls) = 1
      BY <1>1, <2>1 DEF Shape, Inv
    <2>2. CASE Len(calls) = 2
      <3>1. calls'[1] = calls[1] /\ calls'[2].from = calls[2].from /\ calls'[2].refill = "No" /\ Len(calls') = 2
        BY <1>1, <2>2
      <3> QED
        BY <2>2, <3>1 DEF Shape, Inv
    <2> QED
      BY <1>3, <2>1, <2>2
  <1>5. GivenInOrder'
    <2>1. PICK top \in FanOut .. NumPages : Contiguous(top) /\ Ranges(top)
      BY DEF Inv, GivenInOrder
    <2>2. Contiguous(top)'
      BY <2>1 DEF Contiguous
    <2>3. ASSUME NEW i \in 1 .. Len(calls)
          PROVE  /\ calls'[i].base >= FanOut /\ calls'[i].base + calls'[i].size <= top
                 /\ calls'[i].done <= calls'[i].size
                 /\ calls'[i].from = "Block" => calls'[i].size = BlockSize
      <3>1. /\ calls[i].base >= FanOut /\ calls[i].base + calls[i].size <= top
            /\ calls[i].done <= calls[i].size
            /\ calls[i].from = "Block" => calls[i].size = BlockSize
        BY <2>1 DEF Ranges
      <3>2. calls'[i].done <= calls'[i].size
        <4>1. CASE i = Len(calls)
          <5>1. PICK a \in Nat, b \in Nat : a = calls[i].done /\ b = calls[i].size
            BY <1>2, <4>1, CallFields
          <5>2. a < b
            BY <1>2, <4>1, <5>1
          <5>3. a + 1 <= b
            BY <5>2
          <5> QED
            BY <1>1, <4>1, <5>1, <5>3
        <4>2. CASE i # Len(calls)
          <5>1. i \in 1 .. Len(calls) - 1
            BY <4>2 DEF Inv, TypeOK
          <5> QED
            BY <1>1, <3>1, <5>1
        <4> QED
          BY <4>1, <4>2
      <3> QED
        BY <1>1, <3>1, <3>2
    <2>4. Ranges(top)'
      BY <1>1, <2>1, <2>3 DEF Ranges
    <2> QED
      BY <2>2, <2>4 DEF GivenInOrder
  <1>6. Mark' = Mark
    <2>1. Len(calls) \in 1 .. Len(calls)
      BY <1>3
    <2> QED
      BY <1>1, <2>1 DEF Mark, BlockInProgress
  <1> QED
    BY <1>4, <1>5, <1>6

LEMMA EnteredKeeps ==
  ASSUME Inv, Len(calls) >= 1, calls' = WithTop(Advanced(Top)), Top.done < Top.size, held' = held,
         NEW p, p = NextPage, Entered(p)
  PROVE  NoStrayTranslation' /\ HeldMapped' /\ Pending' /\ BaseMapped'
  <1>1. /\ calls' \in Seq(Call) /\ Len(calls') = Len(calls)
        /\ \A i \in 1 .. Len(calls) : /\ calls'[i].base = calls[i].base /\ calls'[i].size = calls[i].size
                                      /\ calls'[i].from = calls[i].from
        /\ calls'[Len(calls)].done = calls[Len(calls)].done + 1 /\ calls'[Len(calls)].refill = "No"
        /\ \A i \in 1 .. Len(calls) - 1 : calls'[i] = calls[i]
    BY AdvancedCalls DEF Inv
  <1>2. PICK c : c = calls[Len(calls)]
    OBVIOUS
  <1>3. Top = c /\ c.done < c.size
    BY <1>2, TopIs DEF Inv
  <1>4. p = c.base + c.done
    BY <1>2, <1>3, WorkingPage
  <1>5. c \in Call /\ p \in Pages
    BY <1>2, <1>3, <1>4, WorkingPage
  <1>6. given' = given /\ GetPhysicalAddress(p)' = given[p]
    BY <1>5 DEF Entered
  <1>7. ASSUME NEW v \in Pages, v # p PROVE GetPhysicalAddress(v)' = GetPhysicalAddress(v)
    BY <1>5, <1>7 DEF Entered
  <1>8. Len(calls) \in {1, 2}
    BY Depth
  <1>9. NoStrayTranslation'
    BY <1>6, <1>7 DEF NoStrayTranslation, Inv
  <1>10. ASSUME NEW v \in held
         PROVE  GetPhysicalAddress(v)' = given'[v] \/ (Len(calls') >= 1 /\ v \in Remaining(calls'[1]))
    <2>1. CASE v = p
      BY <1>6, <2>1
    <2>2. CASE v # p
      <3>1. v \in Pages
        BY HeldGiven
      <3>2. GetPhysicalAddress(v)' = GetPhysicalAddress(v)
        BY <1>7, <2>2, <3>1
      <3>3. CASE GetPhysicalAddress(v) = given[v]
        BY <1>6, <3>2, <3>3
      <3>4. CASE v \in Remaining(calls[1])
        <4>1. CASE Len(calls) = 1
          <5>1. c = calls[1] /\ calls'[1].base = c.base /\ calls'[1].size = c.size /\ calls'[1].done = c.done + 1
            BY <1>1, <1>2, <4>1
          <5>2. v \in Nat /\ p <= v /\ v < c.base + c.size
            BY <1>4, <1>5, <3>4, <5>1, RemainingIs
          <5>3. c.base + (c.done + 1) <= v
            BY <1>4, <1>5, <2>2, <5>2, CallFields
          <5>4. v \in calls'[1].base + calls'[1].done .. calls'[1].base + calls'[1].size - 1
            BY <1>5, <5>1, <5>2, <5>3, CallFields
          <5> QED
            BY <1>1, <4>1, <5>4 DEF Remaining
        <4>2. CASE Len(calls) = 2
          BY <1>1, <3>4, <4>2
        <4> QED
          BY <1>8, <4>1, <4>2
      <3> QED
        BY <3>3, <3>4 DEF Inv, HeldMapped
    <2> QED
      BY <2>1, <2>2
  <1>11. HeldMapped'
    BY <1>10 DEF HeldMapped
  <1>12. Pending'
    <2>1. CASE Len(calls) = 1
      BY <1>1, <2>1 DEF Pending
    <2>2. CASE Len(calls) = 2
      <3>1. calls'[1] = calls[1] /\ Len(calls') = 2
        BY <1>1, <2>2
      <3> QED
        BY <2>2, <3>1 DEF Inv, Pending, NothingToLose
    <2> QED
      BY <1>8, <2>1, <2>2
  <1>13. ASSUME NEW i \in 1 .. Len(calls), NEW b \in Pages, calls'[i].base = b, calls'[i].done > 0
         PROVE  GetPhysicalAddress(b)' = given[b]
    <2>1. calls[i].base = b
      BY <1>1, <1>13
    <2>3. b # p => GetPhysicalAddress(b) = given[b]
      <3>1. CASE i = Len(calls)
        <4>1. b # p => c.done > 0
          BY <1>2, <1>4, <1>5, <2>1, <3>1, CallFields
        <4> QED
          BY <1>2, <2>1, <3>1, <4>1 DEF Inv, BaseMapped
      <3>2. CASE i # Len(calls)
        <4>1. i \in 1 .. Len(calls) - 1
          BY <3>2 DEF Inv, TypeOK
        <4> QED
          BY <1>1, <1>13, <2>1, <4>1 DEF Inv, BaseMapped
      <3> QED
        BY <3>1, <3>2
    <2> QED
      BY <1>6, <1>7, <2>3
  <1>14. BaseMapped'
    BY <1>1, <1>6, <1>13 DEF BaseMapped
  <1> QED
    BY <1>9, <1>11, <1>12, <1>14

\* The store after a refill, over whatever the directory entry holds by now.
LEMMA OverwriteKeeps ==
  ASSUME Inv, Len(calls) = 1, calls[1].refill = "Ready", calls' = WithTop(Advanced(Top)), held' = held, given' = given,
         NEW p, p = NextPage, GetPhysicalAddress(p)' = given[p],
         \A v \in Pages : v # p /\ DirOf(v) = DirOf(p) => GetPhysicalAddress(v)' = Null,
         \A v \in Pages : DirOf(v) # DirOf(p) => GetPhysicalAddress(v)' = GetPhysicalAddress(v)
  PROVE  NoStrayTranslation' /\ HeldMapped' /\ Pending' /\ BaseMapped'
  <1>1. /\ calls' \in Seq(Call) /\ Len(calls') = 1
        /\ calls'[1].base = calls[1].base /\ calls'[1].size = calls[1].size
        /\ calls'[1].done = calls[1].done + 1 /\ calls'[1].refill = "No"
    BY AdvancedCalls DEF Inv
  <1>2. PICK c : c = calls[1]
    OBVIOUS
  <1>3. c.done < c.size
    BY <1>2 DEF Inv, Shape
  <1>4. p = c.base + c.done /\ p \in Pages /\ c \in Call
    BY <1>2, <1>3, WorkingPage
  <1>9. NoStrayTranslation'
    <2>1. ASSUME NEW v \in Pages PROVE GetPhysicalAddress(v)' \in {Null, given[v]}
      <3>1. CASE v = p
        BY <3>1
      <3>2. CASE v # p /\ DirOf(v) = DirOf(p)
        BY <3>2
      <3>3. CASE DirOf(v) # DirOf(p)
        BY <3>3 DEF Inv, NoStrayTranslation
      <3> QED
        BY <3>1, <3>2, <3>3
    <2> QED
      BY <2>1 DEF NoStrayTranslation
  <1>10. ASSUME NEW v \in held
         PROVE  GetPhysicalAddress(v)' = given[v] \/ v \in Remaining(calls'[1])
    <2>1. v \in Pages
      BY HeldGiven
    <2>2. CASE v = p
      BY <2>2
    <2>3. CASE v # p /\ v \in Remaining(c)
      <3>1. v \in Nat /\ p <= v /\ v < c.base + c.size
        BY <1>4, <2>3, RemainingIs
      <3>2. c.base + (c.done + 1) <= v
        BY <1>4, <2>3, <3>1, CallFields
      <3>3. v \in calls'[1].base + calls'[1].done .. calls'[1].base + calls'[1].size - 1
        BY <1>1, <1>2, <1>4, <3>1, <3>2, CallFields
      <3> QED
        BY <3>3 DEF Remaining
    <2>4. CASE v \notin Remaining(c)
      <3>1. DirOf(v) # DirOf(p)
        BY <1>2, <1>4, <2>4 DEF Inv, Pending, NothingToLose
      <3>2. GetPhysicalAddress(v) = given[v]
        BY <1>2, <2>4 DEF Inv, HeldMapped
      <3> QED
        BY <2>1, <3>1, <3>2
    <2> QED
      BY <2>2, <2>3, <2>4
  <1>11. HeldMapped'
    BY <1>1, <1>10 DEF HeldMapped
  <1>12. Pending'
    BY <1>1 DEF Pending
  <1>13. ASSUME NEW b \in Pages, calls'[1].base = b
         PROVE  GetPhysicalAddress(b)' = given[b]
    <2>1. c.base = b
      BY <1>1, <1>2, <1>13
    <2>2. CASE c.done = 0
      BY <1>4, <2>1, <2>2, CallFields
    <2>3. CASE c.done > 0
      <3>1. DirOf(b) # DirOf(p)
        BY <1>2, <1>4, <2>1, <2>3 DEF Inv, Pending, NothingToLose
      <3>2. GetPhysicalAddress(b) = given[b]
        BY <1>2, <2>1, <2>3 DEF Inv, BaseMapped
      <3> QED
        BY <3>1, <3>2
    <2> QED
      BY <1>4, <2>2, <2>3, CallFields
  <1>14. BaseMapped'
    <2>1. \A i \in 1 .. Len(calls') : i = 1
      BY <1>1
    <2> QED
      BY <1>13, <2>1 DEF BaseMapped
  <1> QED
    BY <1>9, <1>11, <1>12, <1>14

\* A page more of a call takes a table if there is none, and no more.
LEMMA NeedAfter ==
  ASSUME NEW c \in Call, NEW c2 \in Call, c2.base = c.base, c2.size = c.size, c2.done = c.done + 1, c.done < c.size,
         dir'[DirOf(c.base + c.done)] # Null
  PROVE  Need(c2)' <= DirOf(c.base + c.size - 1) - DirOf(c.base + c.done)
  <1>1. PICK p \in Nat, q \in Nat : p = c.base + c.done /\ q = c.base + c.size - 1
    BY CallFields
  <1>2. p <= q
    BY <1>1, CallFields
  <1>3. DirOf(p) \in Nat /\ DirOf(q) \in Nat /\ DirOf(p) <= DirOf(q)
    BY <1>2, DirGrows
  <1>4. CASE c.done + 1 = c.size
    <2>1. Need(c2)' = 0
      BY <1>4 DEF Need
    <2> QED
      BY <1>1, <1>3, <2>1
  <1>5. CASE c.done + 1 # c.size
    <2>1. c2.base + c2.done = p + 1 /\ c2.base + c2.size - 1 = q
      BY <1>1, CallFields
    <2>2. Need(c2)' = DirOf(q) - DirOf(p + 1) + (IF dir'[DirOf(p + 1)] = Null THEN 1 ELSE 0)
      BY <1>5, <2>1 DEF Need
    <2>3. DirOf(p + 1) <= DirOf(p) + 1 /\ DirOf(p) <= DirOf(p + 1) /\ DirOf(p + 1) \in Nat
      BY DirNext, DirGrows
    <2>4. CASE DirOf(p + 1) = DirOf(p)
      <3>1. Need(c2)' = DirOf(q) - DirOf(p) + 0
        BY <1>1, <2>2, <2>4
      <3> QED
        BY <1>1, <1>3, <3>1
    <2>5. CASE DirOf(p + 1) # DirOf(p)
      <3>1. DirOf(p + 1) = DirOf(p) + 1
        BY <1>3, <2>3, <2>5
      <3> QED
        BY <1>1, <1>3, <2>2, <3>1
    <2> QED
      BY <2>4, <2>5
  <1> QED
    BY <1>4, <1>5

LEMMA NeedIs ==
  ASSUME NEW c \in Call, c.done < c.size
  PROVE  /\ Need(c) = DirOf(c.base + c.size - 1) - DirOf(c.base + c.done)
                        + (IF dir[DirOf(c.base + c.done)] = Null THEN 1 ELSE 0)
         /\ DirOf(c.base + c.size - 1) - DirOf(c.base + c.done) \in Nat
  <1>1. PICK p \in Nat, q \in Nat : p = c.base + c.done /\ q = c.base + c.size - 1
    BY CallFields
  <1>2. p <= q
    BY <1>1, CallFields
  <1>3. DirOf(p) \in Nat /\ DirOf(q) \in Nat /\ DirOf(p) <= DirOf(q)
    BY <1>2, DirGrows
  <1>4. c.done # c.size
    BY CallFields
  <1> QED
    BY <1>1, <1>3, <1>4 DEF Need

LEMMA NeedInt ==
  ASSUME NEW c \in Call
  PROVE  Need(c) \in Int /\ Need(c)' \in Int
  <1>1. PICK x \in Nat, y \in Nat : x = DirOf(c.base + c.size - 1) /\ y = DirOf(c.base + c.done)
    <2>1. c.base + c.size - 1 \in Nat /\ c.base + c.done \in Nat
      BY CallFields
    <2> QED
      BY <2>1, DirGrows
  <1> QED
    BY <1>1 DEF Need

LEMMA SameKeepsInv ==
  ASSUME Inv, UNCHANGED <<dir, tables, pool, nextBlock, given, held, calls>>
  PROVE  Inv'
  <1>1. TypeOK' /\ Shape' /\ Mark' = Mark
    BY DEF Inv, TypeOK, Shape, Mark, BlockInProgress
  <1>2. GivenInOrder'
    <2>1. PICK top \in FanOut .. NumPages : Contiguous(top) /\ Ranges(top)
      BY DEF Inv, GivenInOrder
    <2>2. Contiguous(top)' /\ Ranges(top)'
      BY <2>1 DEF Contiguous, Ranges
    <2> QED
      BY <2>2 DEF GivenInOrder
  <1>3. PoolOrdered' /\ DirOrdered' /\ TablesGiven'
    BY <1>1 DEF Inv, PoolOrdered, DirOrdered, TablesGiven
  <1>4. \A v \in Pages : GetPhysicalAddress(v)' = GetPhysicalAddress(v)
    BY DEF GetPhysicalAddress
  <1>5. \A c \in Call : Need(c)' = Need(c)
    BY DEF Need
  <1>6. PoolSuffices'
    BY <1>5 DEF Inv, PoolSuffices
  <1>7. NoStrayTranslation' /\ BaseMapped'
    BY <1>4 DEF Inv, NoStrayTranslation, BaseMapped
  <1>8. HeldMapped'
    BY <1>4, HeldGiven DEF Inv, HeldMapped
  <1>9. Pending'
    BY DEF Inv, Pending, NothingToLose
  <1> QED
    BY <1>1, <1>2, <1>3, <1>6, <1>7, <1>8, <1>9 DEF Inv

LEMMA WriteEntryKeepsInv ==
  ASSUME Inv, WriteEntry
  PROVE  Inv'
  <1>1. Len(calls) >= 1 /\ Top.done < Top.size /\ Top.refill = "No" /\ dir[DirOf(NextPage)] # Null
    BY NotEmpty DEF WriteEntry, Working, TableMissing, DirOf, Inv
  <1>2. CASE UNCHANGED <<tables, calls>>
    BY <1>2, SameKeepsInv DEF WriteEntry
  <1>3. CASE /\ tables' = [tables EXCEPT ![dir[DirOf(NextPage)]] = Written(@, NextPage)]
             /\ calls' = WithTop(Advanced(Top))
    <2>1. UNCHANGED <<dir, pool, nextBlock, given, held>>
      BY DEF WriteEntry
    <2>2. PICK c : c = calls[Len(calls)]
      OBVIOUS
    <2>3. Top = c /\ c.done < c.size /\ c \in Call
      BY <1>1, <2>2, TopIs DEF Inv
    <2>4. PICK p : p = NextPage
      OBVIOUS
    <2>5. p = c.base + c.done /\ p \in Pages /\ given \in [Pages -> Nat]
      BY <1>1, <2>2, <2>3, <2>4, WorkingPage
    <2>6. PICK t : t = dir[DirOf(p)]
      OBVIOUS
    <2>7. t # Null /\ t \in Pages /\ tables' = [tables EXCEPT ![t] = Written(@, p)]
      BY <1>1, <1>3, <2>4, <2>5, <2>6, Placed DEF Inv, TypeOK
    <2>8. Entered(p)
      BY <2>1, <2>5, <2>6, <2>7, WriteEnters DEF Inv
    <2>9. NoStrayTranslation' /\ HeldMapped' /\ Pending' /\ BaseMapped'
      BY <1>1, <1>3, <2>1, <2>4, <2>8, EnteredKeeps
    <2>10. Shape' /\ GivenInOrder' /\ Mark' = Mark
      BY <1>1, <1>3, <2>1, AdvanceShape
    <2>11. TypeOK'
      <3>1. tables' \in [Pages -> [Slots -> Nat]]
        <4>1. Written(tables[t], p) \in [Slots -> Nat]
          BY <2>5, <2>7, Placed DEF Written, Inv, TypeOK
        <4> QED
          BY <2>7, <4>1 DEF Inv, TypeOK
      <3>2. calls' \in Seq(Call)
        BY <1>1, <1>3, AdvancedCalls DEF Inv
      <3> QED
        BY <2>1, <3>1, <3>2 DEF Inv, TypeOK
    <2>12. PoolOrdered' /\ DirOrdered' /\ TablesGiven'
      BY <2>1, <2>10 DEF Inv, PoolOrdered, DirOrdered, TablesGiven
    <2>13. PoolSuffices'
      <3>1. /\ Len(calls') = Len(calls) /\ calls'[Len(calls)].refill = "No"
            /\ calls'[Len(calls)].base = c.base /\ calls'[Len(calls)].size = c.size
            /\ calls'[Len(calls)].done = c.done + 1 /\ calls'[Len(calls)].from = c.from
        BY <1>1, <1>3, <2>2, AdvancedCalls, Depth DEF Inv
      <3>2. ASSUME NEW c2 \in Call, Len(calls) = 2, calls'[2] = c2
            PROVE  Need(c2)' + (IF c2.from = "Block" THEN 2 ELSE 1) <= Len(pool)
        <4>1. Need(c2)' <= DirOf(c.base + c.size - 1) - DirOf(c.base + c.done)
          <5>1. c2.base = c.base /\ c2.size = c.size /\ c2.done = c.done + 1
            BY <3>1, <3>2
          <5>2. dir'[DirOf(c.base + c.done)] # Null
            BY <2>1, <2>5, <2>6, <2>7
          <5> QED
            BY <2>3, <5>1, <5>2, NeedAfter
        <4>2. Need(c) = DirOf(c.base + c.size - 1) - DirOf(c.base + c.done) + 0
          BY <2>3, <2>5, <2>6, <2>7, NeedIs
        <4>3. Need(c) + (IF c.from = "Block" THEN 2 ELSE 1) <= Len(pool)
          BY <2>2, <2>3, <3>2 DEF Inv, PoolSuffices
        <4>4. PICK a : a = DirOf(c.base + c.size - 1) - DirOf(c.base + c.done)
          OBVIOUS
        <4>5. a \in Nat
          BY <2>3, <4>4, NeedIs
        <4>6. Need(c) = a /\ Need(c2)' <= a
          BY <4>1, <4>2, <4>4, <4>5
        <4>7. c2.from = c.from
          BY <3>1, <3>2
        <4>8. Need(c2)' \in Int
          BY NeedInt
        <4>9. Len(pool) \in Nat
          BY DEF Inv, TypeOK
        <4> QED
          BY <4>3, <4>5, <4>6, <4>7, <4>8, <4>9
      <3>3. Len(calls) = 1 => calls'[1].refill = "No"
        BY <3>1
      <3> QED
        BY <2>1, <3>1, <3>2, <3>3 DEF PoolSuffices
    <2> QED
      BY <2>9, <2>10, <2>11, <2>12, <2>13 DEF Inv
  <1> QED
    BY <1>2, <1>3 DEF WriteEntry, DirOf

LEMMA NewTableKeepsInv ==
  ASSUME Inv, NewTable
  PROVE  Inv'
  <1>1. /\ Len(calls) >= 1 /\ Top.done < Top.size /\ pool # <<>>
        /\ Top.refill = "Ready" \/ (Top.refill = "No" /\ dir[DirOf(NextPage)] = Null)
    BY NotEmpty DEF NewTable, Working, TableMissing, DirOf, Inv
  <1>2. CASE UNCHANGED <<dir, tables, pool, calls>>
    BY <1>2, SameKeepsInv DEF NewTable
  <1>3. CASE LinkTable(Head(pool)) /\ calls' = WithTop(Advanced(Top))
    <2>1. UNCHANGED <<nextBlock, given, held>>
      BY DEF NewTable
    <2>2. PICK c : c = calls[Len(calls)]
      OBVIOUS
    <2>3. Top = c /\ c.done < c.size /\ c \in Call
      BY <1>1, <2>2, TopIs DEF Inv
    <2>4. PICK p : p = NextPage
      OBVIOUS
    <2>5. p = c.base + c.done /\ p \in Pages /\ given \in [Pages -> Nat]
      BY <1>1, <2>2, <2>3, <2>4, WorkingPage
    <2>6. PICK t : t = pool[1]
      OBVIOUS
    <2>a. PICK m \in Nat : m = Len(pool)
      BY DEF Inv, TypeOK
    <2>b. m >= 1 /\ 1 \in 1 .. m
      BY <1>1, <2>a DEF Inv, TypeOK
    <2>7. /\ dir' = [dir EXCEPT ![DirOf(p)] = t] /\ pool' = Tail(pool)
          /\ tables' = [tables EXCEPT ![t] = Written([s \in Slots |-> Null], p)]
      BY <1>3, <2>4, <2>6 DEF LinkTable, DirOf
    <2>8. t \in Pages /\ t \in Nat /\ t >= 1 /\ t # Null /\ t < Mark /\ given[t] # Null
      BY <2>6, <2>a, <2>b, Sizes DEF Inv, PoolOrdered, TablesGiven, Null, Pages
    <2>9. ASSUME NEW d \in Dirs PROVE dir[d] # t /\ dir[d] \in Nat
      <3>1. dir[d] \in Nat
        BY Sizes DEF Inv, TypeOK, Pages
      <3>2. dir[d] # Null => dir[d] < t
        BY <2>6, <2>a, <2>b DEF Inv, DirOrdered
      <3> QED
        BY <2>8, <3>1, <3>2
    <2>10. /\ GetPhysicalAddress(p)' = given[p]
           /\ \A v \in Pages : v # p /\ DirOf(v) = DirOf(p) => GetPhysicalAddress(v)' = Null
           /\ \A v \in Pages : DirOf(v) # DirOf(p) => GetPhysicalAddress(v)' = GetPhysicalAddress(v)
           /\ dir[DirOf(p)] = Null => Entered(p)
      BY <2>1, <2>5, <2>7, <2>8, <2>9, LinkEnters DEF Inv
    <2>11. Len(calls) \in {1, 2} /\ (Top.refill = "No" \/ Len(calls) = 1)
      BY <1>1, <2>2, <2>3, Depth DEF Inv, Shape
    <2>12. NoStrayTranslation' /\ HeldMapped' /\ Pending' /\ BaseMapped'
      <3>1. CASE Top.refill = "No"
        <4>1. Entered(p)
          BY <1>1, <2>4, <2>10, <3>1
        <4> QED
          BY <1>1, <1>3, <2>1, <2>4, <4>1, EnteredKeeps
      <3>2. CASE Top.refill # "No"
        <4>1. Len(calls) = 1 /\ calls[1].refill = "Ready"
          BY <1>1, <2>2, <2>3, <2>11, <3>2
        <4> QED
          BY <1>3, <2>1, <2>4, <2>10, <4>1, OverwriteKeeps
      <3> QED
        BY <3>1, <3>2
    <2>13. Shape' /\ GivenInOrder' /\ Mark' = Mark
      BY <1>1, <1>3, <2>1, <2>11, AdvanceShape
    <2>14. /\ pool' \in Seq(Nat) /\ Len(pool') = m - 1 /\ \A i \in 1 .. m - 1 : pool'[i] = pool[i + 1]
      BY <1>1, <2>7, <2>a DEF Inv, TypeOK
    <2>15. TypeOK'
      <3>1. tables' \in [Pages -> [Slots -> Nat]]
        <4>1. Written([s \in Slots |-> Null], p) \in [Slots -> Nat]
          BY <2>5, <2>7, Placed DEF Written, Null
        <4> QED
          BY <2>7, <4>1 DEF Inv, TypeOK
      <3>2. calls' \in Seq(Call)
        BY <1>1, <1>3, AdvancedCalls DEF Inv
      <3>3. dir' \in [Dirs -> Pages]
        BY <2>7, <2>8 DEF Inv, TypeOK
      <3> QED
        BY <2>1, <2>14, <3>1, <3>2, <3>3 DEF Inv, TypeOK
    <2>16. ASSUME NEW i \in 1 .. m - 1
           PROVE  /\ pool'[i] >= 1 /\ pool'[i] < Mark /\ pool'[i] = t + i /\ pool'[i] \in Nat
                  /\ pool'[i] \in Pages /\ given[pool'[i]] # Null /\ i + 1 \in 1 .. m
      <3>1. i + 1 \in 1 .. m /\ i \in Nat
        OBVIOUS
      <3>2. pool[i + 1] >= 1 /\ pool[i + 1] < Mark /\ pool[i + 1] = t + (i + 1) - 1
        BY <2>6, <2>a, <3>1 DEF Inv, PoolOrdered
      <3>3. pool[i + 1] \in Pages /\ given[pool[i + 1]] # Null
        BY <2>a, <3>1 DEF Inv, TablesGiven
      <3> QED
        BY <2>8, <2>14, <3>1, <3>2, <3>3
    <2>17. PoolOrdered'
      <3>1. ASSUME NEW i \in 1 .. m - 1 PROVE pool'[i] = pool'[1] + i - 1
        <4>1. 1 \in 1 .. m - 1
          OBVIOUS
        <4>2. pool'[1] = t + 1 /\ pool'[i] = t + i
          BY <2>16, <4>1
        <4> QED
          BY <2>8, <4>2
      <3> QED
        BY <2>13, <2>14, <2>16, <3>1 DEF PoolOrdered
    <2>18. DirOf(p) \in Dirs /\ dir'[DirOf(p)] = t /\ \A d \in Dirs : d # DirOf(p) => dir'[d] = dir[d]
      BY <2>5, <2>7, Placed DEF Inv, TypeOK
    <2>19. DirOrdered'
      <3>1. ASSUME NEW d \in Dirs
            PROVE  dir'[d] < Mark /\ (dir'[d] # Null => \A i \in 1 .. m - 1 : dir'[d] < pool'[i])
        <4>1. CASE d = DirOf(p)
          BY <2>8, <2>16, <2>18, <4>1
        <4>2. CASE d # DirOf(p)
          <5>1. dir'[d] = dir[d] /\ dir[d] < Mark
            BY <2>18, <4>2 DEF Inv, DirOrdered
          <5>2. ASSUME dir[d] # Null, NEW i \in 1 .. m - 1 PROVE dir[d] < pool'[i]
            BY <2>14, <2>16, <2>a, <5>2 DEF Inv, DirOrdered
          <5> QED
            BY <5>1, <5>2
        <4> QED
          BY <4>1, <4>2
      <3>2. ASSUME NEW d \in Dirs, NEW e \in Dirs, dir'[d] = dir'[e], d # e PROVE dir'[d] = Null
        <4>1. d # DirOf(p) /\ e # DirOf(p)
          BY <2>9, <2>18, <3>2
        <4> QED
          BY <2>18, <3>2, <4>1 DEF Inv, DirOrdered
      <3> QED
        BY <2>13, <2>14, <3>1, <3>2 DEF DirOrdered
    <2>20. TablesGiven'
      <3>1. ASSUME NEW d \in Dirs, dir'[d] # Null PROVE given[dir'[d]] # Null
        BY <2>8, <2>18, <3>1 DEF Inv, TablesGiven
      <3> QED
        BY <2>1, <2>14, <2>16, <3>1 DEF TablesGiven
    <2>21. PoolSuffices'
      <3>1. /\ Len(calls') = Len(calls) /\ calls'[Len(calls)].refill = "No"
            /\ calls'[Len(calls)].base = c.base /\ calls'[Len(calls)].size = c.size
            /\ calls'[Len(calls)].done = c.done + 1 /\ calls'[Len(calls)].from = c.from
        BY <1>1, <1>3, <2>2, AdvancedCalls, Depth DEF Inv
      <3>2. ASSUME NEW c2 \in Call, Len(calls) = 2, calls'[2] = c2
            PROVE  Need(c2)' + (IF c2.from = "Block" THEN 2 ELSE 1) <= m - 1
        <4>0. dir[DirOf(p)] = Null
          BY <1>1, <2>3, <2>4, <2>11, <3>2
        <4>1. Need(c2)' <= DirOf(c.base + c.size - 1) - DirOf(c.base + c.done)
          <5>1. c2.base = c.base /\ c2.size = c.size /\ c2.done = c.done + 1
            BY <3>1, <3>2
          <5>2. dir'[DirOf(c.base + c.done)] # Null
            BY <2>5, <2>8, <2>18
          <5> QED
            BY <2>3, <5>1, <5>2, NeedAfter
        <4>2. Need(c) = DirOf(c.base + c.size - 1) - DirOf(c.base + c.done) + 1
          BY <2>3, <2>5, <4>0, NeedIs
        <4>3. Need(c) + (IF c.from = "Block" THEN 2 ELSE 1) <= m
          BY <2>2, <2>3, <2>a, <3>2 DEF Inv, PoolSuffices
        <4>4. PICK a : a = DirOf(c.base + c.size - 1) - DirOf(c.base + c.done)
          OBVIOUS
        <4>5. a \in Nat
          BY <2>3, <4>4, NeedIs
        <4>6. Need(c) = a + 1 /\ Need(c2)' <= a
          BY <4>1, <4>2, <4>4
        <4>7. c2.from = c.from
          BY <3>1, <3>2
        <4>8. Need(c2)' \in Int
          BY NeedInt
        <4> QED
          BY <4>3, <4>5, <4>6, <4>7, <4>8
      <3>3. Len(calls) = 1 => calls'[1].refill = "No"
        BY <3>1
      <3> QED
        BY <2>14, <3>1, <3>2, <3>3 DEF PoolSuffices
    <2> QED
      BY <2>12, <2>13, <2>15, <2>17, <2>19, <2>20, <2>21 DEF Inv
  <1> QED
    BY <1>2, <1>3 DEF NewTable

-----------------------------------------------------------------------------
(* Allocations.                                                            *)

LEMMA GiveKeeps ==
  ASSUME Inv, NEW top, Contiguous(top), NEW size \in Nat \ {0}, NEW from, Give(size, from), dir' = dir, tables' = tables
  PROVE  /\ \A v \in Pages : GetPhysicalAddress(v)' = GetPhysicalAddress(v)
         /\ \A v \in Pages : given[v] # Null => given'[v] = given[v]
         /\ NoStrayTranslation'
  <1>1. \A v \in Pages : GetPhysicalAddress(v)' = GetPhysicalAddress(v)
    BY DEF GetPhysicalAddress
  <1>2. \A v \in Pages : given[v] # Null => given'[v] = given[v]
    BY GiveDoes
  <1>3. NoStrayTranslation'
    BY <1>1, <1>2 DEF Inv, NoStrayTranslation
  <1> QED
    BY <1>1, <1>2, <1>3

NewCall(base, size, from) == [base |-> base, size |-> size, done |-> 0, from |-> from, refill |-> "No"]

LEMMA NewCallIs ==
  ASSUME NEW top \in FanOut .. NumPages, NEW size \in Nat \ {0}, top + size <= NumPages,
         NEW from \in {"Caller", "Block", "Spare"}
  PROVE  /\ NewCall(top, size, from) \in Call
         /\ \A v : v \in Remaining(NewCall(top, size, from)) <=> v \in top .. top + size - 1
  <1>1. top \in Pages /\ top \in Nat
    BY Sizes DEF Pages
  <1>2. NewCall(top, size, from) \in Call
    BY <1>1 DEF NewCall, Call
  <1> QED
    BY <1>1, <1>2 DEF NewCall, Remaining

\* Outside any call.
LEMMA StartKeepsInv ==
  ASSUME Inv, calls = <<>>, NEW size \in Nat \ {0}, NEW from, from = IF nextBlock = Null THEN "Block" ELSE "Caller",
         from = "Block" => size = BlockSize, Give(size, from), calls' = Pushed(calls, size, from),
         UNCHANGED <<dir, tables, pool, nextBlock>>
  PROVE  Inv'
  <1>0. PICK top \in FanOut .. NumPages : Contiguous(top) /\ Ranges(top)
    BY DEF Inv, GivenInOrder
  <1>1. /\ FirstFit(FreeVirtual, size) = top /\ top + size \in FanOut .. NumPages
        /\ Contiguous(top + size)'
        /\ held' = IF from = "Caller" THEN held \cup (top .. top + size - 1) ELSE held
    BY <1>0, GiveDoes
  <1>2. /\ \A v \in Pages : GetPhysicalAddress(v)' = GetPhysicalAddress(v)
        /\ \A v \in Pages : given[v] # Null => given'[v] = given[v]
        /\ NoStrayTranslation'
    BY <1>0, GiveKeeps
  <1>3. PICK c : c = NewCall(top, size, from)
    OBVIOUS
  <1>4. /\ c \in Call /\ \A v : v \in Remaining(c) <=> v \in top .. top + size - 1
        /\ c.base = top /\ c.size = size /\ c.done = 0 /\ c.from = from /\ c.refill = "No"
    <2>1. from \in {"Caller", "Block", "Spare"} /\ top + size <= NumPages
      BY <1>1
    <2> QED
      BY <1>3, <2>1, NewCallIs DEF NewCall
  <1>5. calls' \in Seq(Call) /\ Len(calls') = 1 /\ calls'[1] = c
    <2>1. calls' = Append(<<>>, c)
      BY <1>1, <1>3 DEF Pushed, NewCall
    <2>2. calls \in Seq(Call) /\ Len(calls) = 0
      BY DEF Inv, TypeOK
    <2> QED
      <3>1. PICK s : s = calls
        OBVIOUS
      <3>2. s \in Seq(Call) /\ Len(s) = 0
        BY <2>2, <3>1
      <3>3. Append(s, c) \in Seq(Call) /\ Len(Append(s, c)) = Len(s) + 1 /\ Append(s, c)[Len(s) + 1] = c
        BY <1>4, <3>2, AppendProperties
      <3>4. calls' = Append(s, c)
        BY <2>1, <3>1
      <3>5. Len(s) + 1 = 1
        BY <3>2
      <3>6. PICK r : r = Append(s, c)
        OBVIOUS
      <3>7. r \in Seq(Call) /\ Len(r) = 1 /\ r[1] = c
        BY <3>3, <3>5, <3>6
      <3> QED
        BY <3>4, <3>6, <3>7
  <1>6. TypeOK' /\ Shape'
    BY <1>4, <1>5 DEF Inv, TypeOK, Shape
  <1>7. Len(calls) = 0 /\ top \in Nat /\ top >= FanOut
    BY <1>0, Sizes
  <1>8. GivenInOrder'
    <2>1. PICK t : t = top + size
      OBVIOUS
    <2>2. t \in FanOut .. NumPages /\ Contiguous(t)' /\ t >= top /\ t \in Nat
      BY <1>1, <1>7, <2>1, Sizes
    <2>3. held' \subseteq FanOut .. t - 1
      <3>1. held \subseteq FanOut .. top - 1
        BY <1>0 DEF Ranges
      <3> QED
        BY <1>1, <1>7, <2>1, <2>2, <3>1, Sizes
    <2>4. ASSUME NEW i \in 1 .. Len(calls')
          PROVE  /\ calls'[i].base >= FanOut /\ calls'[i].base + calls'[i].size <= t /\ calls'[i].done <= calls'[i].size
                 /\ calls'[i].from = "Block" => calls'[i].size = BlockSize
      <3>1. calls'[i] = c
        BY <1>5
      <3> QED
        BY <1>4, <1>7, <2>1, <2>2, <3>1
    <2>5. nextBlock # Null => nextBlock >= FanOut /\ nextBlock + BlockSize <= t
      <3>1. nextBlock # Null => nextBlock >= FanOut /\ nextBlock + BlockSize <= top
        BY <1>0 DEF Ranges
      <3> QED
        BY <1>7, <2>2, <3>1, Sizes DEF Inv, TypeOK
    <2>6. Ranges(t)'
      BY <2>3, <2>4, <2>5 DEF Ranges
    <2> QED
      BY <2>2, <2>6 DEF GivenInOrder
  <1>9. Mark \in Nat /\ Mark' \in Nat /\ Mark <= Mark'
    <2>1. Mark = IF nextBlock = Null THEN FanOut ELSE nextBlock
      BY <1>7 DEF Mark, BlockInProgress
    <2>2. Mark' = IF nextBlock = Null THEN top ELSE nextBlock
      BY <1>4, <1>5 DEF Mark, BlockInProgress
    <2> QED
      BY <1>7, <2>1, <2>2, Sizes DEF Inv, TypeOK
  <1>10. PoolOrdered'
    <2>1. ASSUME NEW i \in 1 .. Len(pool) PROVE pool[i] >= 1 /\ pool[i] < Mark' /\ pool[i] = pool[1] + i - 1
      <3>1. pool[i] \in Nat
        BY DEF Inv, TypeOK
      <3>2. pool[i] >= 1 /\ pool[i] < Mark /\ pool[i] = pool[1] + i - 1
        BY DEF Inv, PoolOrdered
      <3> QED
        BY <1>9, <3>1, <3>2
    <2> QED
      BY <2>1 DEF PoolOrdered
  <1>11. DirOrdered'
    <2>1. ASSUME NEW d \in Dirs PROVE dir[d] < Mark'
      <3>1. dir[d] \in Nat /\ dir[d] < Mark
        BY Sizes DEF Inv, TypeOK, DirOrdered, Pages
      <3> QED
        BY <1>9, <3>1
    <2> QED
      BY <2>1 DEF Inv, DirOrdered
  <1>12. TablesGiven'
    BY <1>2 DEF Inv, TablesGiven, TypeOK
  <1>13. PoolSuffices'
    BY <1>4, <1>5 DEF PoolSuffices
  <1>14. HeldMapped'
    <2>1. ASSUME NEW v \in held' PROVE GetPhysicalAddress(v)' = given'[v] \/ v \in Remaining(c)
      <3>1. CASE v \in held
        <4>1. v \in Pages /\ given[v] # Null
          BY <3>1, HeldGiven
        <4>2. GetPhysicalAddress(v) = given[v]
          BY <1>7, <3>1 DEF Inv, HeldMapped
        <4> QED
          BY <1>2, <4>1, <4>2
      <3>2. CASE v \in top .. top + size - 1
        BY <1>4, <3>2
      <3> QED
        BY <1>1, <3>1, <3>2
    <2> QED
      BY <1>5, <2>1 DEF HeldMapped
  <1>15. Pending'
    BY <1>4, <1>5 DEF Pending
  <1>16. BaseMapped'
    <2>1. \A i \in 1 .. Len(calls') : calls'[i].done = 0
      BY <1>4, <1>5
    <2> QED
      BY <2>1 DEF BaseMapped
  <1> QED
    BY <1>2, <1>6, <1>8, <1>10, <1>11, <1>12, <1>13, <1>14, <1>15, <1>16 DEF Inv

\* The waiting call, with its refill one stage further.
LEMMA WaitingCall ==
  ASSUME Inv, Len(calls) = 1, NEW r \in {"Block", "Spare", "Ready"}
  PROVE  /\ Top = calls[1] /\ WithTop([Top EXCEPT !.refill = r]) \in Seq(Call) /\ Len(WithTop([Top EXCEPT !.refill = r])) = 1
         /\ WithTop([Top EXCEPT !.refill = r])[1] = [calls[1] EXCEPT !.refill = r]
         /\ [calls[1] EXCEPT !.refill = r] \in Call
  <1>1. Top = calls[1] /\ calls[1] \in Call
    BY TopIs DEF Inv
  <1>2. PICK c : c = [calls[1] EXCEPT !.refill = r]
    OBVIOUS
  <1>3. c \in Call
    BY <1>1, <1>2 DEF Call
  <1>4. WithTop(c) \in Seq(Call) /\ Len(WithTop(c)) = Len(calls) /\ WithTop(c)[Len(calls)] = c
    <2>1. calls \in Seq(Call) /\ Len(calls) >= 1
      BY DEF Inv, TypeOK
    <2>2. /\ Append(Front(calls), c) \in Seq(Call) /\ Len(Append(Front(calls), c)) = Len(calls)
          /\ Append(Front(calls), c)[Len(calls)] = c
      BY <1>3, <2>1, Replaced
    <2> QED
      BY <2>2 DEF WithTop
  <1> QED
    BY <1>1, <1>2, <1>3, <1>4

LEMMA SameRange ==
  ASSUME NEW c \in Call, NEW r, NEW d, d = [c EXCEPT !.refill = r]
  PROVE  /\ d.base = c.base /\ d.size = c.size /\ d.done = c.done /\ d.from = c.from /\ d.refill = r
         /\ Remaining(d) = Remaining(c)
  <1>1. d.base = c.base /\ d.size = c.size /\ d.done = c.done /\ d.from = c.from /\ d.refill = r
    BY DEF Call
  <1> QED
    BY <1>1 DEF Remaining

\* A refill allocates: its call goes on top of the one that waits for it.
LEMMA NestKeeps ==
  ASSUME Inv, Len(calls) = 1, nextBlock # Null, nextBlock' = nextBlock, calls[1].done < calls[1].size,
         NEW r \in {"Block", "Ready"}, NothingToLose(calls[1]),
         NEW size \in Nat \ {0}, NEW from, from = IF r = "Block" THEN "Block" ELSE "Spare",
         from = "Block" => size = BlockSize, Give(size, from),
         calls' = Pushed(WithTop([Top EXCEPT !.refill = r]), size, from), dir' = dir, tables' = tables
  PROVE  /\ Shape' /\ GivenInOrder' /\ NoStrayTranslation' /\ HeldMapped' /\ Pending' /\ BaseMapped'
         /\ calls' \in Seq(Call) /\ Len(calls') = 2 /\ \A v \in Pages : given[v] # Null => given'[v] = given[v]
         /\ \E top \in FanOut .. NumPages :
              calls'[2] = NewCall(top, size, from) /\ nextBlock + BlockSize <= top /\ Contiguous(top)
  <1>0. PICK top \in FanOut .. NumPages : Contiguous(top) /\ Ranges(top)
    BY DEF Inv, GivenInOrder
  <1>1. /\ FirstFit(FreeVirtual, size) = top /\ top + size \in FanOut .. NumPages
        /\ Contiguous(top + size)' /\ held' = held
    BY <1>0, GiveDoes
  <1>2. /\ \A v \in Pages : GetPhysicalAddress(v)' = GetPhysicalAddress(v)
        /\ \A v \in Pages : given[v] # Null => given'[v] = given[v]
        /\ NoStrayTranslation'
    BY <1>0, GiveKeeps
  <1>3. PICK c, d : c = NewCall(top, size, from) /\ d = [calls[1] EXCEPT !.refill = r]
    OBVIOUS
  <1>4. c \in Call /\ c.base = top /\ c.size = size /\ c.done = 0 /\ c.from = from /\ c.refill = "No"
    <2>1. from \in {"Caller", "Block", "Spare"} /\ top + size <= NumPages
      BY <1>1
    <2> QED
      BY <1>3, <2>1, NewCallIs DEF NewCall
  <1>5. calls[1] \in Call
    BY TopIs DEF Inv
  <1>6. /\ d \in Call /\ d.base = calls[1].base /\ d.size = calls[1].size /\ d.done = calls[1].done
        /\ d.from = calls[1].from /\ d.refill = r /\ Remaining(d) = Remaining(calls[1])
    <2>1. d \in Call
      BY <1>3, WaitingCall
    <2>2. PICK e \in Call : e = calls[1]
      BY <1>5
    <2>3. d = [e EXCEPT !.refill = r]
      BY <1>3, <2>2
    <2>4. /\ d.base = e.base /\ d.size = e.size /\ d.done = e.done /\ d.from = e.from /\ d.refill = r
          /\ Remaining(d) = Remaining(e)
      BY <2>3, SameRange
    <2> QED
      BY <2>1, <2>2, <2>4
  <1>7. calls' \in Seq(Call) /\ Len(calls') = 2 /\ calls'[1] = d /\ calls'[2] = c
    <2>1. PICK s : s = WithTop([Top EXCEPT !.refill = r])
      OBVIOUS
    <2>2. s \in Seq(Call) /\ Len(s) = 1 /\ s[1] = d
      BY <1>3, <2>1, WaitingCall
    <2>3. calls' = Append(s, c)
      BY <1>1, <1>3, <2>1 DEF Pushed, NewCall
    <2>4. PICK t : t = Append(s, c)
      OBVIOUS
    <2>5. t \in Seq(Call) /\ Len(t) = Len(s) + 1 /\ t[1] = s[1] /\ t[Len(s) + 1] = c
      <3>1. 1 \in 1 .. Len(s)
        BY <2>2
      <3>2. /\ Append(s, c) \in Seq(Call) /\ Len(Append(s, c)) = Len(s) + 1 /\ Append(s, c)[Len(s) + 1] = c
            /\ \A i \in 1 .. Len(s) : Append(s, c)[i] = s[i]
        <4>1. c \in Call /\ s \in Seq(Call)
          BY <1>4, <2>2
        <4> QED
          BY <4>1, AppendProperties
      <3> QED
        BY <2>4, <3>1, <3>2
    <2>6. t \in Seq(Call) /\ Len(t) = 2 /\ t[1] = d /\ t[2] = c
      BY <2>2, <2>5
    <2> QED
      BY <2>3, <2>4, <2>6
  <1>8. \A i \in 1 .. Len(calls') : i \in {1, 2}
    <2>1. \A i \in 1 .. 2 : i \in {1, 2}
      OBVIOUS
    <2> QED
      BY <1>7, <2>1
  <1>9. top \in Nat /\ top >= FanOut /\ nextBlock >= FanOut /\ nextBlock + BlockSize <= top
    BY <1>0, Sizes DEF Ranges
  <1>10. Shape'
    <2>1. calls[1].from = "Caller"
      BY DEF Inv, Shape
    <2>2. /\ calls'[1].from = "Caller" /\ calls'[1].refill = r /\ calls'[1].done < calls'[1].size
          /\ calls'[2].from = from /\ calls'[2].refill = "No"
      BY <1>4, <1>6, <1>7, <2>1
    <2>3. \/ calls'[1].refill = "Block" /\ calls'[2].from = "Block"
          \/ calls'[1].refill = "Ready" /\ calls'[2].from = "Spare"
      BY <2>2
    <2>4. Len(calls') <= 2 /\ Len(calls') # 1
      <3>1. PICK k : k = Len(calls')
        OBVIOUS
      <3>2. k = 2
        BY <1>7, <3>1
      <3>3. k <= 2 /\ k # 1
        BY <3>2
      <3> QED
        BY <3>1, <3>3
    <2>5. nextBlock' # Null
      OBVIOUS
    <2> QED
      BY <2>2, <2>3, <2>4, <2>5 DEF Shape
  <1>11. GivenInOrder'
    <2>1. PICK t : t = top + size
      OBVIOUS
    <2>2. t \in FanOut .. NumPages /\ Contiguous(t)' /\ t >= top /\ t \in Nat
      BY <1>1, <1>9, <2>1, Sizes
    <2>3. held \subseteq FanOut .. t - 1
      <3>1. held \subseteq FanOut .. top - 1
        BY <1>0 DEF Ranges
      <3> QED
        BY <1>9, <2>1, <2>2, <3>1, Sizes
    <2>4. /\ d.base >= FanOut /\ d.base + d.size <= t /\ d.done <= d.size
          /\ d.from = "Block" => d.size = BlockSize
      <3>1. /\ calls[1].base >= FanOut /\ calls[1].base + calls[1].size <= top /\ calls[1].done <= calls[1].size
            /\ calls[1].from = "Block" => calls[1].size = BlockSize
        BY <1>0 DEF Ranges
      <3>2. calls[1].base + calls[1].size \in Nat
        BY <1>5, CallFields
      <3> QED
        BY <1>6, <1>9, <2>2, <3>1, <3>2
    <2>5. /\ c.base >= FanOut /\ c.base + c.size <= t /\ c.done <= c.size
          /\ c.from = "Block" => c.size = BlockSize
      BY <1>4, <1>9, <2>1, <2>2
    <2>6. nextBlock >= FanOut /\ nextBlock + BlockSize <= t
      BY <1>9, <2>2, Sizes DEF Inv, TypeOK
    <2>7. Ranges(t)'
      BY <1>1, <1>7, <1>8, <2>3, <2>4, <2>5, <2>6 DEF Ranges
    <2> QED
      BY <2>2, <2>7 DEF GivenInOrder
  <1>12. HeldMapped'
    <2>1. ASSUME NEW v \in held PROVE GetPhysicalAddress(v)' = given'[v] \/ v \in Remaining(d)
      <3>1. v \in Pages /\ given[v] # Null
        BY HeldGiven
      <3>2. GetPhysicalAddress(v) = given[v] \/ v \in Remaining(calls[1])
        BY DEF Inv, HeldMapped
      <3> QED
        BY <1>2, <1>6, <3>1, <3>2
    <2> QED
      BY <1>1, <1>7, <2>1 DEF HeldMapped
  <1>13. Pending'
    BY <1>1, <1>6, <1>7 DEF Pending, NothingToLose
  <1>14. BaseMapped'
    <2>1. ASSUME NEW i \in 1 .. Len(calls'), NEW v \in Pages, calls'[i].base = v, calls'[i].done > 0
          PROVE  GetPhysicalAddress(v)' = given'[v]
      <3>1. i = 1
        BY <1>4, <1>7, <1>8, <2>1
      <3>2. calls[1].base = v /\ calls[1].done > 0
        BY <1>6, <1>7, <2>1, <3>1
      <3>3. GetPhysicalAddress(v) = given[v]
        BY <3>2 DEF Inv, BaseMapped
      <3>4. given[v] # Null
        <4>1. given[calls[1].base] # Null
          BY WorkingPage
        <4> QED
          BY <3>2, <4>1
      <3> QED
        BY <1>2, <3>3, <3>4
    <2> QED
      BY <2>1 DEF BaseMapped
  <1>15. \E t \in FanOut .. NumPages :
              calls'[2] = NewCall(t, size, from) /\ nextBlock + BlockSize <= t /\ Contiguous(t)
    BY <1>0, <1>3, <1>7, <1>9
  <1> QED
    BY <1>2, <1>7, <1>10, <1>11, <1>12, <1>13, <1>14, <1>15

LEMMA NeedOfNew ==
  ASSUME NEW top \in Nat, NEW size \in Nat \ {0}, NEW from, NEW c \in Call, c = NewCall(top, size, from)
  PROVE  Need(c)' <= (size - 1) \div FanOut + 2 /\ (size - 1) \div FanOut \in Nat
  <1>1. c.base + c.done = top /\ c.base + c.size - 1 = top + size - 1 /\ c.done # c.size
    BY DEF NewCall
  <1>2. PICK x, y : x = DirOf(top) /\ y = DirOf(top + size - 1)
    OBVIOUS
  <1>3. x \in Nat /\ y \in Nat
    BY <1>2, DirGrows
  <1>4. PICK z : z = (size - 1) \div FanOut
    OBVIOUS
  <1>5. z \in Nat
    BY <1>4, Sizes
  <1>6. y <= x + z + 1
    BY <1>2, <1>4, DirSpan
  <1>7. Need(c)' = y - x + (IF dir'[x] = Null THEN 1 ELSE 0)
    BY <1>1, <1>2 DEF Need
  <1> QED
    BY <1>3, <1>4, <1>5, <1>6, <1>7

\* A refill finds itself outside any other.
LEMMA RefillKeepsInv ==
  ASSUME Inv, Refill
  PROVE  Inv'
  <1>1. /\ Len(calls) >= 1 /\ Top.done < Top.size /\ pool = <<>> /\ Top.refill = "No" /\ dir[DirOf(NextPage)] = Null
    BY NotEmpty DEF Refill, Working, TableMissing, DirOf, Inv
  <1>2. CASE UNCHANGED <<pool, given, held, calls>>
    BY <1>2, SameKeepsInv DEF Refill
  <1>3. CASE /\ \A t \in ToSet(TablesOfBlock(nextBlock)) : IsMapped(t)
             /\ pool' = TablesOfBlock(nextBlock)
             /\ Give(BlockSize, "Block")
             /\ calls' = Pushed(WithTop([Top EXCEPT !.refill = "Block"]), BlockSize, "Block")
    <2>1. UNCHANGED <<dir, tables, nextBlock>>
      BY DEF Refill
    <2>2. Len(calls) = 1
      <3> SUFFICES ASSUME Len(calls) = 2 PROVE FALSE
        BY <1>1, Depth
      <3>1. PICK c : c = calls[Len(calls)]
        OBVIOUS
      <3>2. Top = c /\ c.done < c.size /\ c \in Call
        BY <1>1, <3>1, TopIs DEF Inv
      <3>3. NextPage = c.base + c.done
        BY <1>1, <3>1, <3>2, WorkingPage
      <3>4. PICK a : a = DirOf(c.base + c.size - 1) - DirOf(c.base + c.done)
        OBVIOUS
      <3>5. Need(c) = a + 1 /\ a \in Nat
        BY <1>1, <3>2, <3>3, <3>4, NeedIs
      <3>6. Need(c) + (IF c.from = "Block" THEN 2 ELSE 1) <= 0
        <4>1. Len(pool) = 0
          BY <1>1
        <4> QED
          BY <3>1, <3>2, <4>1 DEF Inv, PoolSuffices
      <3> QED
        BY <3>5, <3>6
    <2>3. nextBlock # Null
      <3> SUFFICES ASSUME nextBlock = 0 PROVE FALSE
        BY DEF Null
      <3>1. 1 \in 1 .. BlockSize /\ 0 + 1 - 1 = 0
        BY Sizes
      <3>2. TablesOfBlock(0)[1] = 0 /\ 1 \in DOMAIN TablesOfBlock(0)
        BY <3>1 DEF TablesOfBlock
      <3>3. 0 \in ToSet(TablesOfBlock(nextBlock))
        BY <3>2 DEF ToSet
      <3>4. IsMapped(0)
        BY <1>3, <3>3
      <3> QED
        BY <3>4 DEF IsMapped, Null
    <2>4. PICK c : c = calls[1]
      OBVIOUS
    <2>5. Top = c /\ c.done < c.size /\ c \in Call /\ NextPage = c.base + c.done /\ given[c.base] # Null /\ c.base \in Pages
      BY <1>1, <2>2, <2>4, TopIs, WorkingPage, CallFields DEF Inv
    <2>6. ASSUME NEW v \in Pages, given[v] # Null, DirOf(v) = DirOf(c.base + c.done)
          PROVE  GetPhysicalAddress(v) # given[v]
      BY <1>1, <2>5, <2>6, Translation
    <2>7. NothingToLose(c)
      <3>1. ASSUME NEW v \in held, DirOf(v) = DirOf(c.base + c.done) PROVE v \in Remaining(c)
        <4>1. GetPhysicalAddress(v) # given[v]
          BY <2>6, <3>1, HeldGiven
        <4> QED
          BY <2>4, <4>1 DEF Inv, HeldMapped
      <3>2. ASSUME c.done > 0 PROVE DirOf(c.base) # DirOf(c.base + c.done)
        <4>1. 1 \in 1 .. Len(calls)
          BY <1>1, Depth
        <4>2. GetPhysicalAddress(c.base) = given[c.base]
          BY <2>4, <2>5, <3>2, <4>1 DEF Inv, BaseMapped
        <4> QED
          BY <2>5, <2>6, <4>2
      <3> QED
        BY <3>1, <3>2 DEF NothingToLose
    <2>8. /\ Shape' /\ GivenInOrder' /\ NoStrayTranslation' /\ HeldMapped' /\ Pending' /\ BaseMapped'
          /\ calls' \in Seq(Call) /\ Len(calls') = 2 /\ \A v \in Pages : given[v] # Null => given'[v] = given[v]
          /\ \E top \in FanOut .. NumPages :
               calls'[2] = NewCall(top, BlockSize, "Block") /\ nextBlock + BlockSize <= top /\ Contiguous(top)
      <3>1. BlockSize \in Nat \ {0} /\ NothingToLose(calls[1]) /\ calls[1].done < calls[1].size
        BY <2>4, <2>5, <2>7, Sizes
      <3>2. PICK r \in {"Block", "Ready"} : r = "Block"
        OBVIOUS
      <3>3. calls' = Pushed(WithTop([Top EXCEPT !.refill = r]), BlockSize, "Block")
        BY <1>3, <3>2
      <3>4. "Block" = IF r = "Block" THEN "Block" ELSE "Spare"
        BY <3>2
      <3> QED
        BY <1>3, <2>1, <2>2, <2>3, <3>1, <3>3, <3>4, NestKeeps
    <2>9. PICK top \in FanOut .. NumPages :
               calls'[2] = NewCall(top, BlockSize, "Block") /\ nextBlock + BlockSize <= top /\ Contiguous(top)
      BY <2>8
    <2>10. nextBlock \in Nat /\ nextBlock >= 1 /\ top \in Nat /\ nextBlock >= FanOut
      BY <2>3, <2>9, Sizes DEF Inv, TypeOK, Null, GivenInOrder, Ranges
    <2>11. pool' \in Seq(Nat) /\ Len(pool') = BlockSize /\ \A i \in 1 .. BlockSize : pool'[i] = nextBlock + i - 1
      <3>0. PICK q : q = pool'
        OBVIOUS
      <3>1. PICK b \in Nat : b = BlockSize
        BY Sizes
      <3>2. q = [i \in 1 .. b |-> nextBlock + i - 1]
        BY <1>3, <3>0, <3>1 DEF TablesOfBlock
      <3>3. \A i \in 1 .. b : nextBlock + i - 1 \in Nat
        BY <2>10
      <3>4. q \in [1 .. b -> Nat]
        BY <3>2, <3>3
      <3>5. q \in Seq(Nat) /\ Len(q) = b
        BY <3>1, <3>4
      <3>6. \A i \in 1 .. b : q[i] = nextBlock + i - 1
        BY <3>2
      <3> QED
        BY <3>0, <3>1, <3>5, <3>6
    <2>12. TypeOK'
      BY <2>1, <2>8, <2>11 DEF Inv, TypeOK
    <2>13. Mark' = top /\ Mark = nextBlock
      <3>1. Mark' = top
        BY <2>8, <2>9 DEF Mark, BlockInProgress, NewCall
      <3>2. calls[1].from = "Caller"
        BY <1>1, <2>3 DEF Inv, Shape
      <3> QED
        BY <2>2, <2>3, <3>1, <3>2 DEF Mark, BlockInProgress
    <2>14. ASSUME NEW i \in 1 .. BlockSize
           PROVE  pool'[i] \in Nat /\ pool'[i] >= nextBlock /\ pool'[i] < top /\ pool'[i] = nextBlock + i - 1
      BY <2>9, <2>10, <2>11, Sizes
    <2>15. PoolOrdered'
      <3>1. 1 \in 1 .. BlockSize
        BY Sizes
      <3>2. pool'[1] = nextBlock
        BY <2>10, <2>14, <3>1
      <3>3. \A i \in 1 .. BlockSize : pool'[i] >= 1 /\ pool'[i] < top /\ pool'[i] = pool'[1] + i - 1
        BY <2>10, <2>14, <3>2
      <3> QED
        BY <2>11, <2>13, <3>3 DEF PoolOrdered
    <2>16. DirOrdered'
      <3>1. ASSUME NEW d \in Dirs PROVE dir[d] \in Nat /\ dir[d] < nextBlock
        BY <2>13, Sizes DEF Inv, TypeOK, DirOrdered, Pages
      <3>2. \A d \in Dirs : dir[d] < top /\ \A i \in 1 .. BlockSize : dir[d] < pool'[i]
        BY <2>9, <2>10, <2>14, <3>1, Sizes
      <3> QED
        BY <2>1, <2>11, <2>13, <3>2 DEF Inv, DirOrdered
    <2>17. TablesGiven'
      <3>1. ASSUME NEW i \in 1 .. BlockSize PROVE pool'[i] \in Pages /\ given[pool'[i]] # Null
        <4>1. PICK t \in Nat : t = pool'[i]
          BY <2>14
        <4>2. t \in Pages /\ t \in FanOut .. top - 1 /\ t \notin 1 .. StaticTables
          BY <2>9, <2>10, <2>14, <4>1, Sizes DEF Pages
        <4>3. given[t] = FirstFrame + (t - FanOut)
          BY <2>9, <4>2 DEF Contiguous
        <4>4. given[t] # Null
          BY <2>10, <4>2, <4>3, Sizes DEF Null
        <4> QED
          BY <4>1, <4>2, <4>4
      <3>2. \A i \in 1 .. BlockSize : given'[pool'[i]] # Null
        BY <2>8, <3>1
      <3>3. \A d \in Dirs : dir[d] # Null => given'[dir[d]] # Null
        BY <2>8 DEF Inv, TablesGiven, TypeOK
      <3> QED
        BY <2>1, <2>11, <3>1, <3>2, <3>3 DEF TablesGiven
    <2>18. PoolSuffices'
      <3>1. ASSUME NEW e \in Call, calls'[2] = e PROVE Need(e)' + (IF e.from = "Block" THEN 2 ELSE 1) <= BlockSize
        <4>1. PICK b \in Nat \ {0} : b = BlockSize
          BY Sizes
        <4>2. e = NewCall(top, b, "Block")
          BY <2>9, <3>1, <4>1
        <4>3. Need(e)' <= (b - 1) \div FanOut + 2 /\ (b - 1) \div FanOut \in Nat
          BY <2>10, <4>2, NeedOfNew
        <4>4. (b - 1) \div FanOut + 4 <= b
          BY <4>1, BlockAssumption
        <4>5. Need(e)' \in Int
          BY NeedInt
        <4>6. e.from = "Block"
          BY <4>2 DEF NewCall
        <4> QED
          BY <4>1, <4>3, <4>4, <4>5, <4>6
      <3> QED
        BY <2>8, <2>11, <3>1 DEF PoolSuffices
    <2> QED
      BY <2>8, <2>12, <2>15, <2>16, <2>17, <2>18 DEF Inv
  <1> QED
    BY <1>2, <1>3 DEF Refill

\* The waiting call goes on alone; the block in progress, if any, is remembered.
LEMMA ResumeKeepsInv ==
  ASSUME Inv, Len(calls) >= 1, nextBlock # Null, UNCHANGED <<dir, tables, pool, given, held>>,
         NEW d \in Call, calls' \in Seq(Call), Len(calls') = 1, calls'[1] = d,
         d.base = calls[1].base, d.size = calls[1].size, d.done = calls[1].done, d.from = calls[1].from,
         d.refill # "Block", d.refill # "No" => calls[1].refill # "No",
         d.refill = "Ready" => Len(pool) >= 1, d.refill = "Spare" => Len(pool) >= 2,
         nextBlock' = Mark \/ nextBlock' = nextBlock, Mark' = Mark
  PROVE  Inv'
  <1>1. 1 \in 1 .. Len(calls)
    BY Depth
  <1>2. PICK n : n = Len(calls)
    OBVIOUS
  <1>3. n \in 1 .. Len(calls)
    BY <1>2, Depth
  <1>4. \A i \in 1 .. Len(calls') : i = 1
    OBVIOUS
  <1>5. PICK top \in FanOut .. NumPages : Contiguous(top) /\ Ranges(top)
    BY DEF Inv, GivenInOrder
  <1>6. nextBlock' \in Nat /\ nextBlock' >= FanOut /\ nextBlock' + BlockSize <= top
    <2>1. nextBlock \in Nat /\ nextBlock >= FanOut /\ nextBlock + BlockSize <= top
      BY <1>5 DEF Inv, TypeOK, Ranges
    <2>2. CASE nextBlock' = Mark /\ BlockInProgress
      <3>1. PICK c : c = calls[n]
        OBVIOUS
      <3>2. c \in Call /\ c.base >= FanOut /\ c.base + c.size <= top /\ (c.from = "Block" => c.size = BlockSize)
        BY <1>3, <1>5, <3>1 DEF Ranges, Inv, TypeOK
      <3>3. nextBlock' = c.base /\ c.from = "Block"
        BY <1>2, <2>2, <3>1 DEF Mark, BlockInProgress
      <3> QED
        BY <3>2, <3>3, CallFields
    <2>3. CASE nextBlock' = nextBlock
      BY <2>1, <2>3
    <2> QED
      BY <2>2, <2>3 DEF Mark
  <1>7. TypeOK'
    BY <1>6 DEF Inv, TypeOK
  <1>8. nextBlock' # Null
    BY <1>6, Sizes DEF Null
  <1>9. Shape'
    <2>1. calls[1].from = "Caller" /\ (calls[1].refill # "No" => calls[1].done < calls[1].size)
      BY DEF Inv, Shape
    <2>2. Len(calls') <= 2 /\ Len(calls') # 2
      <3>1. PICK k : k = Len(calls')
        OBVIOUS
      <3>2. k = 1
        BY <3>1
      <3>3. k <= 2 /\ k # 2
        BY <3>2
      <3> QED
        BY <3>1, <3>3
    <2> QED
      BY <1>8, <2>1, <2>2 DEF Shape
  <1>10. GivenInOrder'
    <2>1. Contiguous(top)'
      BY <1>5 DEF Contiguous
    <2>2. /\ calls[1].base >= FanOut /\ calls[1].base + calls[1].size <= top /\ calls[1].done <= calls[1].size
          /\ calls[1].from = "Block" => calls[1].size = BlockSize
      BY <1>1, <1>5 DEF Ranges
    <2>3. Ranges(top)'
      BY <1>4, <1>5, <1>6, <2>2 DEF Ranges
    <2> QED
      BY <2>1, <2>3 DEF GivenInOrder
  <1>11. PoolOrdered' /\ DirOrdered' /\ TablesGiven'
    BY DEF Inv, PoolOrdered, DirOrdered, TablesGiven
  <1>12. \A v \in Pages : GetPhysicalAddress(v)' = GetPhysicalAddress(v)
    BY DEF GetPhysicalAddress
  <1>13. PoolSuffices'
    BY DEF PoolSuffices
  <1>14. NoStrayTranslation'
    BY <1>12 DEF Inv, NoStrayTranslation
  <1>15. BaseMapped'
    BY <1>1, <1>4, <1>12 DEF Inv, BaseMapped
  <1>16. Remaining(d) = Remaining(calls[1])
    BY DEF Remaining
  <1>17. HeldMapped'
    BY <1>12, <1>16, HeldGiven DEF Inv, HeldMapped
  <1>18. Pending'
    BY <1>16 DEF Inv, Pending, NothingToLose
  <1> QED
    BY <1>7, <1>9, <1>10, <1>11, <1>13, <1>14, <1>15, <1>17, <1>18 DEF Inv

LEMMA InitDynamicKeepsInv ==
  ASSUME Inv, InitDynamic
  PROVE  Inv'
  <1>1. Len(calls) >= 1 /\ Top.refill = "Spare" /\ UNCHANGED <<dir, tables, pool, nextBlock, faulted>>
    BY NotEmpty DEF Inv, InitDynamic
  <1>2. Len(calls) = 1 /\ Top = calls[1]
    <2>1. Top = calls[Len(calls)]
      BY <1>1, TopIs DEF Inv
    <2>2. Len(calls) # 2
      BY <1>1, <2>1 DEF Inv, Shape
    <2> QED
      BY <1>1, <2>1, <2>2, Depth
  <1>3. PICK c \in Call : c = calls[1]
    BY <1>2, TopIs DEF Inv
  <1>4. /\ nextBlock # Null /\ c.done < c.size /\ c.from = "Caller" /\ NothingToLose(calls[1]) /\ Len(pool) >= 2
        /\ c.refill = "Spare"
    <2>1. c.refill = "Spare"
      BY <1>1, <1>2, <1>3
    <2> QED
      BY <1>2, <1>3, <2>1 DEF Inv, Shape, Pending, PoolSuffices
  <1>5. Mark = nextBlock
    BY <1>2, <1>3, <1>4 DEF Mark, BlockInProgress
  <1>6. PICK r \in {"Block", "Ready"} : r = "Ready"
    OBVIOUS
  <1>7. CASE Give(1, "Spare") /\ calls' = Pushed(WithTop([Top EXCEPT !.refill = "Ready"]), 1, "Spare")
    <2>1. /\ Shape' /\ GivenInOrder' /\ NoStrayTranslation' /\ HeldMapped' /\ Pending' /\ BaseMapped'
          /\ calls' \in Seq(Call) /\ Len(calls') = 2 /\ \A v \in Pages : given[v] # Null => given'[v] = given[v]
          /\ \E top \in FanOut .. NumPages :
               calls'[2] = NewCall(top, 1, "Spare") /\ nextBlock + BlockSize <= top /\ Contiguous(top)
      <3>1. 1 \in Nat \ {0} /\ calls[1].done < calls[1].size /\ nextBlock' = nextBlock
        BY <1>1, <1>3, <1>4
      <3>2. calls' = Pushed(WithTop([Top EXCEPT !.refill = r]), 1, "Spare")
        BY <1>6, <1>7
      <3>3. "Spare" = IF r = "Block" THEN "Block" ELSE "Spare"
        BY <1>6
      <3>4. dir' = dir /\ tables' = tables
        BY <1>1
      <3> QED
        BY <1>2, <1>4, <1>7, <3>1, <3>2, <3>3, <3>4, NestKeeps
    <2>2. PICK top \in FanOut .. NumPages : calls'[2] = NewCall(top, 1, "Spare")
      BY <2>1
    <2>3. top \in Nat
      BY Sizes
    <2>4. PICK e : e = calls'[2]
      OBVIOUS
    <2>5. e.base = top /\ e.size = 1 /\ e.done = 0 /\ e.from = "Spare"
      BY <2>2, <2>4 DEF NewCall
    <2>6. Mark' = Mark
      <3>1. Mark' = nextBlock
        BY <1>1, <1>4, <2>1, <2>4, <2>5 DEF Mark, BlockInProgress
      <3> QED
        BY <1>5, <3>1
    <2>7. TypeOK'
      BY <1>1, <2>1 DEF Inv, TypeOK
    <2>8. PoolOrdered' /\ DirOrdered'
      BY <1>1, <2>6 DEF Inv, PoolOrdered, DirOrdered
    <2>9. TablesGiven'
      <3>1. ASSUME NEW i \in 1 .. Len(pool) PROVE pool[i] \in Pages /\ given'[pool[i]] # Null
        BY <2>1 DEF Inv, TablesGiven
      <3>2. \A d \in Dirs : dir[d] # Null => given'[dir[d]] # Null
        BY <2>1 DEF Inv, TablesGiven, TypeOK
      <3> QED
        BY <1>1, <3>1, <3>2 DEF TablesGiven
    <2>10. Need(e)' <= 1 /\ Need(e)' \in Int
      <3>1. PICK x : x = DirOf(top)
        OBVIOUS
      <3>2. x \in Nat
        BY <2>3, <3>1, DirGrows
      <3>3. e.base + e.size - 1 = top /\ e.base + e.done = top /\ e.done # e.size
        BY <2>3, <2>5
      <3>4. Need(e)' = x - x + (IF dir'[x] = Null THEN 1 ELSE 0)
        BY <3>1, <3>3 DEF Need
      <3> QED
        BY <3>2, <3>4
    <2>11. PoolSuffices'
      <3>1. ASSUME NEW f \in Call, calls'[2] = f PROVE Need(f)' + (IF f.from = "Block" THEN 2 ELSE 1) <= Len(pool)
        <4>1. f = e
          BY <2>4, <3>1
        <4>2. PICK m : m = Len(pool)
          OBVIOUS
        <4>3. m \in Nat /\ m >= 2
          BY <1>4, <4>2 DEF Inv, TypeOK
        <4>4. Need(f)' <= 1 /\ Need(f)' \in Int /\ f.from = "Spare"
          BY <2>5, <2>10, <4>1
        <4>5. Need(f)' + 1 <= m
          BY <4>3, <4>4
        <4> QED
          BY <4>2, <4>4, <4>5
      <3> QED
        BY <1>1, <2>1, <3>1 DEF PoolSuffices
    <2> QED
      BY <2>1, <2>7, <2>8, <2>9, <2>11 DEF Inv
  <1>8. CASE calls' = WithTop([Top EXCEPT !.refill = "Ready"]) /\ UNCHANGED <<given, held>>
    <2>1. PICK d : d = [c EXCEPT !.refill = "Ready"]
      OBVIOUS
    <2>2. d.base = c.base /\ d.size = c.size /\ d.done = c.done /\ d.from = c.from /\ d.refill = "Ready"
      BY <2>1, SameRange
    <2>3. calls' \in Seq(Call) /\ Len(calls') = 1 /\ calls'[1] = d /\ d \in Call
      BY <1>2, <1>3, <1>8, <2>1, WaitingCall
    <2>4. Mark' = Mark
      <3>1. Mark' = nextBlock
        BY <1>1, <1>4, <2>2, <2>3 DEF Mark, BlockInProgress
      <3> QED
        BY <1>5, <3>1
    <2>5. Len(pool) >= 1
      <3>1. PICK m : m = Len(pool)
        OBVIOUS
      <3>2. m \in Nat /\ m >= 2
        BY <1>4, <3>1 DEF Inv, TypeOK
      <3>3. m >= 1
        BY <3>2
      <3> QED
        BY <3>1, <3>3
    <2>6. /\ d.base = calls[1].base /\ d.size = calls[1].size /\ d.done = calls[1].done /\ d.from = calls[1].from
          /\ d.refill # "Block" /\ d.refill # "Spare" /\ calls[1].refill # "No"
      BY <1>3, <1>4, <2>2
    <2> QED
      BY <1>1, <1>4, <1>8, <2>3, <2>4, <2>5, <2>6, ResumeKeepsInv
  <1> QED
    BY <1>7, <1>8 DEF InitDynamic

\* A call inside another returns: its work is done, and the refill goes on.
LEMMA NestedReturnKeepsInv ==
  ASSUME Inv, Return, Len(calls) = 2
  PROVE  Inv'
  <1>1. UNCHANGED <<dir, tables, pool, given, held>> /\ Top.done = Top.size
    BY DEF Return
  <1>2. PICK c \in Call, b \in Call : c = calls[2] /\ b = calls[1]
    <2>0. calls \in Seq(Call)
      BY DEF Inv, TypeOK
    <2>1. \A i \in 1 .. Len(calls) : calls[i] \in Call
      BY <2>0
    <2>2. 1 \in 1 .. 2 /\ 2 \in 1 .. 2
      OBVIOUS
    <2>3. calls[1] \in Call /\ calls[2] \in Call
      BY <2>1, <2>2
    <2> QED
      BY <2>3
  <1>3. Top = c /\ c.done = c.size
    <2>1. Top = calls[Len(calls)]
      BY TopIs DEF Inv
    <2> QED
      BY <1>1, <1>2, <2>1
  <1>4. /\ c.refill = "No" /\ nextBlock # Null
        /\ \/ b.refill = "Block" /\ c.from = "Block"
           \/ b.refill = "Ready" /\ c.from = "Spare"
        /\ b.from = "Caller"
    <2>1. 2 >= 1
      OBVIOUS
    <2> QED
      BY <1>2, <2>1 DEF Inv, Shape
  <1>5. PICK rest : rest = Front(calls)
    OBVIOUS
  <1>6. rest \in Seq(Call) /\ Len(rest) = 1 /\ rest[1] = b /\ rest # <<>>
    <2>1. calls \in Seq(Call) /\ Len(calls) >= 1
      BY DEF Inv, TypeOK
    <2>2. rest \in Seq(Call) /\ Len(rest) = 2 - 1 /\ \A i \in 1 .. 2 - 1 : rest[i] = calls[i]
      BY <1>5, <2>1, Popped
    <2>3. 2 - 1 = 1 /\ 1 \in 1 .. 2 - 1
      OBVIOUS
    <2>4. Len(rest) = 1 /\ rest[1] = b
      BY <1>2, <2>2, <2>3
    <2>5. rest # <<>>
      BY <2>4
    <2> QED
      BY <2>2, <2>4, <2>5
  <1>7. Last(rest) = b
    BY <1>6 DEF Last
  <1>8. PICK m : m = Len(pool)
    OBVIOUS
  <1>9. m \in Nat /\ (IF c.from = "Block" THEN 2 ELSE 1) <= m
    <2>1. m \in Nat
      BY <1>8 DEF Inv, TypeOK
    <2>2. Need(c) + (IF c.from = "Block" THEN 2 ELSE 1) <= m
      BY <1>2, <1>8 DEF Inv, PoolSuffices
    <2>3. Need(c) = 0
      BY <1>3 DEF Need
    <2> QED
      BY <2>1, <2>2, <2>3
  <1>10. Mark = IF c.from = "Block" THEN c.base ELSE nextBlock
    <2>1. Mark = IF c.from = "Block" THEN calls[2].base ELSE nextBlock
      BY <1>2, <1>4 DEF Mark, BlockInProgress
    <2> QED
      BY <1>2, <2>1
  <1>11. nextBlock' = Mark
    BY <1>3, <1>10 DEF Return, ReturnedBlock
  <1>12. nextBlock' # Null
    <2>1. PICK top \in FanOut .. NumPages : Ranges(top)
      BY DEF Inv, GivenInOrder
    <2>2. 2 \in 1 .. 2
      OBVIOUS
    <2>3. c.base >= FanOut
      BY <1>2, <2>1, <2>2 DEF Ranges
    <2> QED
      BY <1>4, <1>10, <1>11, <2>3, CallFields, Sizes DEF Null
  <1>13. CASE b.refill = "Block"
    <2>1. PICK d : d = [b EXCEPT !.refill = "Spare"]
      OBVIOUS
    <2>2. d.base = b.base /\ d.size = b.size /\ d.done = b.done /\ d.from = b.from /\ d.refill = "Spare"
      BY <2>1, SameRange
    <2>3. d \in Call
      BY <2>1 DEF Call
    <2>4. calls' = Append(Front(rest), d)
      BY <1>5, <1>6, <1>7, <1>13, <2>1 DEF Return
    <2>5. calls' \in Seq(Call) /\ Len(calls') = 1 /\ calls'[1] = d
      <3>1. Len(rest) >= 1
        BY <1>6
      <3>2. PICK s : s = Append(Front(rest), d)
        OBVIOUS
      <3>3. s \in Seq(Call) /\ Len(s) = Len(rest) /\ s[Len(rest)] = d
        BY <1>6, <2>3, <3>1, <3>2, Replaced
      <3>4. s \in Seq(Call) /\ Len(s) = 1 /\ s[1] = d
        BY <1>6, <3>3
      <3> QED
        BY <2>4, <3>2, <3>4
    <2>6. Mark' = Mark
      <3>1. Mark' = nextBlock'
        BY <1>4, <1>12, <2>2, <2>5 DEF Mark, BlockInProgress
      <3> QED
        BY <1>11, <3>1
    <2>7. Len(pool) >= 2
      BY <1>4, <1>8, <1>9, <1>13
    <2>8. Len(calls) >= 1
      OBVIOUS
    <2>9. /\ d.base = calls[1].base /\ d.size = calls[1].size /\ d.done = calls[1].done /\ d.from = calls[1].from
          /\ d.refill # "Block" /\ d.refill # "Ready" /\ calls[1].refill # "No"
      BY <1>2, <1>13, <2>2
    <2> QED
      BY <1>1, <1>4, <1>11, <2>3, <2>5, <2>6, <2>7, <2>8, <2>9, ResumeKeepsInv
  <1>14. CASE b.refill = "Ready"
    <2>1. calls' = rest
      BY <1>5, <1>7, <1>14 DEF Return
    <2>2. calls' \in Seq(Call) /\ Len(calls') = 1 /\ calls'[1] = b
      BY <1>6, <2>1
    <2>3. Mark' = Mark
      <3>1. Mark' = nextBlock'
        BY <1>4, <1>12, <2>2 DEF Mark, BlockInProgress
      <3> QED
        BY <1>11, <3>1
    <2>4. Len(pool) >= 1
      BY <1>4, <1>8, <1>9, <1>14
    <2>5. Len(calls) >= 1
      OBVIOUS
    <2>6. /\ b.base = calls[1].base /\ b.size = calls[1].size /\ b.done = calls[1].done /\ b.from = calls[1].from
          /\ b.refill # "Block" /\ b.refill # "Spare" /\ calls[1].refill # "No"
      BY <1>2, <1>14
    <2> QED
      BY <1>1, <1>4, <1>11, <2>2, <2>3, <2>4, <2>5, <2>6, ResumeKeepsInv
  <1> QED
    BY <1>4, <1>13, <1>14

\* The outermost call returns: everything a caller holds is mapped.
LEMMA OuterReturnKeepsInv ==
  ASSUME Inv, Return, Len(calls) = 1
  PROVE  Inv'
  <1>1. UNCHANGED <<dir, tables, pool, given, held>> /\ Top.done = Top.size
    BY DEF Return
  <1>2. PICK c \in Call : c = calls[1]
    BY TopIs DEF Inv
  <1>3. Top = c /\ c.done = c.size
    <2>1. Top = calls[Len(calls)]
      BY TopIs DEF Inv
    <2> QED
      BY <1>1, <1>2, <2>1
  <1>4. calls' = <<>>
    <2>1. PICK rest : rest = Front(calls)
      OBVIOUS
    <2>2. calls \in Seq(Call) /\ Len(calls) >= 1
      BY DEF Inv, TypeOK
    <2>3. rest \in Seq(Call) /\ Len(rest) = 1 - 1
      BY <2>1, <2>2, Popped
    <2>4. rest = <<>>
      BY <2>3
    <2> QED
      BY <2>1, <2>4 DEF Return
  <1>5. calls' \in Seq(Call) /\ Len(calls') = 0
    BY <1>4
  <1>6. PICK top \in FanOut .. NumPages : Contiguous(top) /\ Ranges(top)
    BY DEF Inv, GivenInOrder
  <1>7. c.base >= FanOut /\ c.base + c.size <= top /\ (c.from = "Block" => c.size = BlockSize) /\ c.base \in Nat
    BY <1>2, <1>6, CallFields DEF Ranges
  <1>8. c.from = IF nextBlock = Null THEN "Block" ELSE "Caller"
    BY <1>2 DEF Inv, Shape
  <1>9. nextBlock' = IF nextBlock = Null THEN c.base ELSE nextBlock
    BY <1>3, <1>8 DEF Return, ReturnedBlock
  <1>10. nextBlock' \in Nat /\ nextBlock' # Null /\ nextBlock' >= FanOut /\ nextBlock' + BlockSize <= top
    BY <1>6, <1>7, <1>8, <1>9, Sizes DEF Null, Inv, TypeOK, Ranges
  <1>11. Mark' = Mark
    <2>1. Mark' = nextBlock'
      BY <1>5, <1>10 DEF Mark, BlockInProgress
    <2>2. Mark = IF nextBlock = Null THEN c.base ELSE nextBlock
      BY <1>2, <1>8 DEF Mark, BlockInProgress
    <2> QED
      BY <1>9, <2>1, <2>2
  <1>12. TypeOK' /\ Shape'
    BY <1>1, <1>5, <1>10 DEF Inv, TypeOK, Shape
  <1>13. \A i \in 1 .. Len(calls') : FALSE
    BY <1>5
  <1>14. GivenInOrder'
    <2>1. Contiguous(top)'
      BY <1>1, <1>6 DEF Contiguous
    <2>2. Ranges(top)'
      BY <1>1, <1>6, <1>10, <1>13 DEF Ranges
    <2> QED
      BY <2>1, <2>2 DEF GivenInOrder
  <1>15. PoolOrdered' /\ DirOrdered' /\ TablesGiven'
    BY <1>1, <1>11 DEF Inv, PoolOrdered, DirOrdered, TablesGiven
  <1>16. \A v \in Pages : GetPhysicalAddress(v)' = GetPhysicalAddress(v)
    BY <1>1 DEF GetPhysicalAddress
  <1>17. PoolSuffices' /\ Pending' /\ BaseMapped'
    BY <1>5, <1>13 DEF PoolSuffices, Pending, BaseMapped
  <1>18. NoStrayTranslation'
    BY <1>1, <1>16 DEF Inv, NoStrayTranslation
  <1>19. HeldMapped'
    <2>1. \A v : v \notin Remaining(c)
      BY <1>3, RemainingIs, CallFields
    <2> QED
      BY <1>1, <1>2, <1>16, <2>1, HeldGiven DEF Inv, HeldMapped
  <1> QED
    BY <1>12, <1>14, <1>15, <1>17, <1>18, <1>19 DEF Inv

LEMMA ReturnKeepsInv ==
  ASSUME Inv, Return
  PROVE  Inv'
  <1>1. Len(calls) >= 1
    BY NotEmpty DEF Inv, Return
  <1> QED
    BY <1>1, Depth, NestedReturnKeepsInv, OuterReturnKeepsInv

-----------------------------------------------------------------------------
(* The invariant.                                                          *)

LEMMA InitInv == Init => Inv
  <1> SUFFICES ASSUME Init PROVE Inv
    OBVIOUS
  <1> DEFINE inside(v) == v \in 1 .. StaticTables
  <1>1. calls = <<>> /\ Len(calls) = 0 /\ calls \in Seq(Call) /\ held = {} /\ nextBlock = Null
    BY DEF Init
  <1>2. PICK n \in Nat : n = StaticTables - 1
    BY Sizes
  <1>3. n + 1 < FanOut /\ n + 1 = StaticTables /\ FanOut <= NumPages
    BY <1>2, Sizes
  <1>4. pool = [i \in 1 .. n |-> i + 1]
    BY <1>2 DEF Init
  <1>5. pool \in Seq(Nat) /\ Len(pool) = n /\ \A i \in 1 .. n : pool[i] = i + 1
    <2>1. pool \in [1 .. n -> Nat]
      BY <1>4
    <2> QED
      BY <1>4, <2>1
  <1>6. \A d \in Dirs : dir[d] = IF d = 0 THEN 1 ELSE Null
    BY DEF Init
  <1>7. 1 \in Pages /\ 0 \in Pages /\ 0 \in Dirs /\ 0 \in Nat
    BY Sizes DEF Pages, Dirs
  <1>8. dir \in [Dirs -> Pages]
    BY <1>7 DEF Init, Null
  <1>9. \A t \in Pages : \A s \in Slots : tables[t][s] = IF t = 1 /\ inside(s) THEN s ELSE Null
    BY DEF Init
  <1>10. tables \in [Pages -> [Slots -> Nat]]
    <2>1. Slots \subseteq Nat
      BY Sizes DEF Slots
    <2> QED
      BY <2>1 DEF Init, Null
  <1>11. TypeOK
    BY <1>1, <1>5, <1>8, <1>10 DEF TypeOK, Null
  <1>12. given \in [Pages -> Nat] /\ \A v \in Pages : given[v] = IF inside(v) THEN v ELSE Null
    BY Sizes DEF Init, Null, Pages
  <1>13. Shape
    BY <1>1 DEF Shape
  <1>14. \A i \in 1 .. Len(calls) : FALSE
    BY <1>1
  <1>15. GivenInOrder
    <2>1. FanOut \in FanOut .. NumPages /\ FirstFrame + (FanOut - FanOut) <= NumPages
      BY Sizes, TableAssumption
    <2>2. \A v : v \notin FanOut .. FanOut - 1
      BY Sizes
    <2>3. Contiguous(FanOut)
      BY <1>12, <2>1, <2>2 DEF Contiguous
    <2>4. Ranges(FanOut)
      BY <1>1, <1>14 DEF Ranges
    <2> QED
      BY <2>1, <2>3, <2>4 DEF GivenInOrder
  <1>16. Mark = FanOut
    BY <1>1 DEF Mark, BlockInProgress
  <1>17. PoolOrdered
    <2>1. \A i \in 1 .. n : pool[i] >= 1 /\ pool[i] < FanOut /\ pool[i] = pool[1] + i - 1
      <3>1. ASSUME NEW i \in 1 .. n PROVE pool[i] = i + 1 /\ pool[1] = 2
        BY <1>5
      <3> QED
        BY <1>3, <3>1, Sizes
    <2> QED
      BY <1>5, <1>16, <2>1 DEF PoolOrdered
  <1>18. DirOrdered
    <2>1. ASSUME NEW d \in Dirs PROVE dir[d] < FanOut /\ (dir[d] # Null => dir[d] = 1 /\ d = 0)
      BY <1>6, Sizes DEF Null
    <2>2. \A i \in 1 .. n : 1 < pool[i]
      BY <1>5
    <2> QED
      BY <1>5, <1>16, <2>1, <2>2 DEF DirOrdered
  <1>19. TablesGiven
    <2>1. ASSUME NEW v \in 1 .. n + 1 PROVE v \in Pages /\ given[v] # Null
      <3>1. v \in Pages /\ inside(v) /\ v # 0
        BY <1>3, Sizes DEF Pages
      <3> QED
        BY <1>12, <3>1 DEF Null
    <2>2. 1 \in 1 .. n + 1 /\ \A i \in 1 .. n : i + 1 \in 1 .. n + 1
      OBVIOUS
    <2>3. \A i \in 1 .. n : pool[i] \in Pages /\ given[pool[i]] # Null
      BY <1>5, <2>1, <2>2
    <2>4. \A d \in Dirs : dir[d] # Null => given[dir[d]] # Null
      BY <1>6, <2>1, <2>2
    <2> QED
      BY <1>5, <2>3, <2>4 DEF TablesGiven
  <1>20. PoolSuffices /\ HeldMapped /\ Pending /\ BaseMapped
    BY <1>1, <1>14 DEF PoolSuffices, HeldMapped, Pending, BaseMapped
  <1>21. NoStrayTranslation
    <2>1. ASSUME NEW v \in Pages PROVE GetPhysicalAddress(v) \in {Null, given[v]}
      <3>1. DirOf(v) \in Dirs /\ SlotOf(v) \in Slots /\ v \in Nat
        BY Placed
      <3>2. CASE DirOf(v) # 0
        BY <1>6, <3>1, <3>2, Translation
      <3>3. CASE DirOf(v) = 0
        <4>1. GetPhysicalAddress(v) = tables[1][SlotOf(v)]
          BY <1>6, <1>7, <3>3, Translation DEF Null
        <4>2. SlotOf(v) = v
          <5>1. v = FanOut * (v \div FanOut) + (v % FanOut)
            BY <3>1, Sizes
          <5> QED
            BY <3>1, <3>3, <5>1, Sizes DEF DirOf, SlotOf
        <4>3. tables[1][v] = IF inside(v) THEN v ELSE Null
          BY <1>7, <1>9, <3>1, <4>2
        <4> QED
          BY <1>12, <4>1, <4>2, <4>3
      <3> QED
        BY <3>2, <3>3
    <2> QED
      BY <2>1 DEF NoStrayTranslation
  <1> QED
    BY <1>11, <1>13, <1>15, <1>17, <1>18, <1>19, <1>20, <1>21 DEF Inv

LEMMA NextKeepsInv == Inv /\ [Next]_vars => Inv'
  <1> SUFFICES ASSUME Inv, [Next]_vars PROVE Inv'
    OBVIOUS
  <1>1. CASE InitVirtualMemory
    <2>1. /\ calls = <<>> /\ nextBlock = Null /\ Give(BlockSize, "Block") /\ calls' = Pushed(calls, BlockSize, "Block")
          /\ UNCHANGED <<dir, tables, pool, nextBlock>>
      BY <1>1 DEF InitVirtualMemory
    <2>2. BlockSize \in Nat \ {0}
      BY Sizes
    <2>3. PICK from : from = "Block"
      OBVIOUS
    <2> QED
      BY <2>1, <2>2, <2>3, StartKeepsInv
  <1>2. ASSUME NEW size \in 1 .. MaxAlloc, VirtualAlloc(size) PROVE Inv'
    <2>1. /\ calls = <<>> /\ nextBlock # Null /\ Give(size, "Caller") /\ calls' = Pushed(calls, size, "Caller")
          /\ UNCHANGED <<dir, tables, pool, nextBlock>>
      BY <1>2 DEF VirtualAlloc
    <2>2. size \in Nat \ {0}
      BY Sizes
    <2>3. PICK from : from = "Caller"
      OBVIOUS
    <2> QED
      BY <2>1, <2>2, <2>3, StartKeepsInv
  <1>3. CASE WriteEntry
    BY <1>3, WriteEntryKeepsInv
  <1>4. CASE NewTable
    BY <1>4, NewTableKeepsInv
  <1>5. CASE Refill
    BY <1>5, RefillKeepsInv
  <1>6. CASE InitDynamic
    BY <1>6, InitDynamicKeepsInv
  <1>7. CASE Return
    BY <1>7, ReturnKeepsInv
  <1>8. CASE UNCHANGED vars
    BY <1>8, SameKeepsInv DEF vars
  <1> QED
    BY <1>1, <1>2, <1>3, <1>4, <1>5, <1>6, <1>7, <1>8 DEF Next

\* In every state the invariant above holds.
THEOREM AlwaysInv == Spec => []Inv
  <1>1. Init => Inv
    BY InitInv
  <1>2. Inv /\ [Next]_vars => Inv'
    BY NextKeepsInv
  <1> QED
    BY <1>1, <1>2, PTL DEF Spec

-----------------------------------------------------------------------------
(* What follows from it.                                                   *)

LEMMA RolesFollow == Inv => TablesHaveOneRole
  <1> SUFFICES ASSUME Inv PROVE TablesHaveOneRole
    OBVIOUS
  <1>1. pool \in Seq(Nat) /\ DOMAIN pool = 1 .. Len(pool)
    BY DEF Inv, TypeOK
  <1>2. \A i \in 1 .. Len(pool) : pool[i] \in Nat /\ pool[i] >= 1 /\ pool[i] < Mark /\ pool[i] = pool[1] + i - 1
    BY DEF Inv, PoolOrdered, TypeOK
  <1>3. \A t \in ToSet(pool) : \E i \in 1 .. Len(pool) : t = pool[i]
    BY <1>1 DEF ToSet
  <1>4. IsInjective(pool)
    <2>1. ASSUME NEW i \in 1 .. Len(pool), NEW j \in 1 .. Len(pool), pool[i] = pool[j] PROVE i = j
      <3>1. PICK k : k = pool[1]
        OBVIOUS
      <3>2. k + i - 1 = k + j - 1 /\ k \in Nat
        <4>1. 1 \in 1 .. Len(pool)
          BY <1>1
        <4> QED
          BY <1>2, <2>1, <3>1, <4>1
      <3> QED
        BY <1>1, <3>2
    <2> QED
      BY <1>1, <2>1 DEF IsInjective
  <1>5. \A d \in Dirs : dir[d] \notin ToSet(pool)
    <2>1. ASSUME NEW d \in Dirs, NEW i \in 1 .. Len(pool) PROVE dir[d] # pool[i]
      <3>1. CASE dir[d] = Null
        BY <1>2, <3>1 DEF Null
      <3>2. CASE dir[d] # Null
        <4>1. dir[d] < pool[i] /\ dir[d] \in Nat
          BY <3>2, Sizes DEF Inv, DirOrdered, TypeOK, Pages
        <4> QED
          BY <1>2, <4>1
      <3> QED
        BY <3>1, <3>2
    <2> QED
      BY <1>3, <2>1
  <1>6. ASSUME ~Refilling, NEW t \in Pages, Waiting(t) PROVE t \notin ToSet(pool) /\ \A d \in Dirs : dir[d] # t
    <2>1. nextBlock # Null /\ t \in ToSet(TablesOfBlock(nextBlock)) /\ nextBlock \in Nat
      BY <1>6 DEF Waiting, Inv, TypeOK
    <2>2. PICK i \in 1 .. BlockSize : t = nextBlock + i - 1
      BY <2>1 DEF ToSet, TablesOfBlock
    <2>3. t \in Nat /\ t >= nextBlock
      BY <2>1, <2>2, Sizes
    <2>4. Mark = nextBlock
      <3>1. CASE Len(calls) >= 1
        <4>1. 1 \in DOMAIN calls
          BY <3>1 DEF Inv, TypeOK
        <4>2. calls[1].refill = "No"
          BY <1>6, <4>1 DEF Refilling
        <4>3. Len(calls) # 2
          BY <4>2 DEF Inv, Shape
        <4>4. Len(calls) = 1
          BY <3>1, <4>3, Depth
        <4>5. calls[1].from = "Caller"
          BY <2>1, <3>1 DEF Inv, Shape
        <4> QED
          BY <2>1, <4>4, <4>5 DEF Mark, BlockInProgress
      <3>2. CASE ~(Len(calls) >= 1)
        BY <2>1, <3>2 DEF Mark, BlockInProgress
      <3> QED
        BY <3>1, <3>2
    <2>5. \A j \in 1 .. Len(pool) : pool[j] # t
      BY <1>2, <2>1, <2>3, <2>4
    <2>6. ASSUME NEW d \in Dirs PROVE dir[d] # t
      <3>1. dir[d] \in Nat /\ dir[d] < nextBlock
        BY <2>4, Sizes DEF Inv, DirOrdered, TypeOK, Pages
      <3> QED
        BY <2>1, <2>3, <3>1
    <2> QED
      BY <1>3, <2>5, <2>6
  <1> QED
    BY <1>4, <1>5, <1>6 DEF Inv, DirOrdered, TablesHaveOneRole

LEMMA MemoryFollows == Inv => CallersKeepTheirMemory
  <1> SUFFICES ASSUME Inv, NEW v \in held
               PROVE  \/ IsMapped(v)
                      \/ \E i \in DOMAIN calls : v \in Remaining(calls[i])
    BY DEF CallersKeepTheirMemory, Remaining
  <1>1. v # Null
    <2>1. PICK top \in FanOut .. NumPages : Ranges(top)
      BY DEF Inv, GivenInOrder
    <2>2. v \in FanOut .. top - 1
      BY <2>1 DEF Ranges
    <2> QED
      BY <2>1, <2>2, Sizes DEF Null
  <1>2. CASE GetPhysicalAddress(v) = given[v]
    BY <1>1, <1>2 DEF IsMapped
  <1>3. CASE Len(calls) >= 1 /\ v \in Remaining(calls[1])
    <2>1. 1 \in DOMAIN calls
      BY <1>3 DEF Inv, TypeOK
    <2> QED
      BY <1>3, <2>1
  <1> QED
    BY <1>2, <1>3 DEF Inv, HeldMapped

\* No table page is ever linked twice, listed twice, or linked while it is listed
\* or waits in the next block: for every size of tables, blocks and memory, and
\* however a refill's own allocations interleave with the call it interrupts.
THEOREM EveryTableHasOneRole == Spec => []TablesHaveOneRole
  <1>1. Inv => TablesHaveOneRole
    BY RolesFollow
  <1> QED
    BY <1>1, AlwaysInv, PTL

\* What VirtualAlloc returned to a caller stays mapped to its frames, through
\* every refill that later calls make, also when the store after a refill goes
\* over an entry that the refill's own calls put in.
THEOREM CallersMemoryStays == Spec => []CallersKeepTheirMemory
  <1>1. Inv => CallersKeepTheirMemory
    BY MemoryFollows
  <1> QED
    BY <1>1, AlwaysInv, PTL

\* The kernel's tables never translate a page to a frame that was not given to it.
THEOREM TranslationsWereAskedFor == Spec => []NoStrayTranslation
  <1>1. Inv => NoStrayTranslation
    BY DEF Inv
  <1> QED
    BY <1>1, AlwaysInv, PTL

\* Frames are given once.  A table that lies in the frame of its own number is
\* then the only one the processor can find under it, and it reads the entries
\* that the code wrote.
LEMMA HardwareFollows ==
  ASSUME Inv, NEW v \in Pages, GetPhysicalAddress(v) # Null, TableInPlace(v)
  PROVE  HardwareWalk(v) = GetPhysicalAddress(v)
  <1>1. PICK top \in FanOut .. NumPages : Contiguous(top)
    BY DEF Inv, GivenInOrder
  <1>2. ASSUME NEW s \in Pages, NEW t \in Pages, given[s] = given[t], given[t] # Null
        PROVE  s = t
    <2>1. \A u \in Pages : u \in Nat
      BY DEF Pages
    <2>2. \A u \in Pages : given[u] # Null =>
            \/ u \in 1 .. StaticTables /\ given[u] = u /\ given[u] < FanOut
            \/ u \in FanOut .. top - 1 /\ given[u] = FirstFrame + (u - FanOut) /\ given[u] >= FanOut
      BY <1>1, <2>1, Sizes DEF Contiguous
    <2> QED
      BY <1>2, <2>1, <2>2, Sizes
  <1>3. PICK link : link = dir[DirOf(v)]
    OBVIOUS
  <1>4. link # Null /\ GetPhysicalAddress(v) = tables[link][SlotOf(v)]
    BY <1>3, Translation
  <1>5. link \in Pages /\ given[link] = link
    <2>1. DirOf(v) \in Dirs
      BY Placed
    <2>2. link \in Pages
      BY <1>3, <1>4, <2>1 DEF Inv, TypeOK, TablesGiven
    <2> QED
      BY <1>3, <2>2 DEF TableInPlace, DirOf
  <1>6. PICK there : there = {t \in Pages : given[t] = link}
    OBVIOUS
  <1>7. link \in there /\ \A t \in there : t = link
    BY <1>2, <1>4, <1>5, <1>6
  <1>8. (CHOOSE t \in there : TRUE) = link
    BY <1>7
  <1>9. HardwareWalk(v) = tables[CHOOSE t \in there : TRUE][v % FanOut]
    BY <1>3, <1>4, <1>6, <1>7 DEF HardwareWalk, DirOf
  <1> QED
    BY <1>4, <1>8, <1>9 DEF SlotOf

LEMMA WriteFollows == Inv => FirstPageReached
  <1> SUFFICES ASSUME Inv, NEW i \in DOMAIN calls, calls[i].done = calls[i].size
               PROVE  /\ GetPhysicalAddress(calls[i].base) = given[calls[i].base]
                      /\ TableInPlace(calls[i].base) =>
                           HardwareWalk(calls[i].base) = given[calls[i].base]
    BY DEF FirstPageReached
  <1>1. calls \in Seq(Call)
    BY DEF Inv, TypeOK
  <1>2. PICK c : c = calls[i]
    OBVIOUS
  <1>3. i \in 1 .. Len(calls) /\ c \in Call
    BY <1>1, <1>2
  <1>4. c.done > 0 /\ c.base \in Pages /\ c.base \in Nat /\ c.size \in Nat /\ c.size >= 1
    BY <1>2, <1>3, CallFields
  <1>5. GetPhysicalAddress(c.base) = given[c.base]
    BY <1>2, <1>3, <1>4 DEF Inv, BaseMapped
  <1>6. given[c.base] # Null
    <2>1. PICK top \in FanOut .. NumPages : Contiguous(top) /\ Ranges(top)
      BY DEF Inv, GivenInOrder
    <2>2. c.base >= FanOut /\ c.base + c.size <= top
      BY <1>2, <1>3, <2>1 DEF Ranges
    <2>3. c.base \in FanOut .. top - 1 /\ c.base \notin 1 .. StaticTables
      BY <1>4, <2>1, <2>2, Sizes
    <2>4. given[c.base] = FirstFrame + (c.base - FanOut)
      BY <1>4, <2>1, <2>3 DEF Contiguous
    <2> QED
      BY <1>4, <2>2, <2>4, Sizes DEF Null
  <1> QED
    BY <1>2, <1>4, <1>5, <1>6, HardwareFollows

\* Wherever memory begins above the kernel's tables, the write that VirtualAlloc
\* makes to what it returns finds its frame in the tables the code wrote, and on
\* the processor too if the table it goes through is where its number says.
\* Without a hole that is every table.
THEOREM FirstPageIsReached == Spec => []FirstPageReached
  <1>1. Inv => FirstPageReached
    BY WriteFollows
  <1> QED
    BY <1>1, AlwaysInv, PTL

=============================================================================
