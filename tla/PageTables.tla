----------------------------- MODULE PageTables -----------------------------
(***************************************************************************)
(* How MapPages finds the page tables it writes into.  A missing table     *)
(* comes from a free list; an empty list is refilled from a block that was *)
(* allocated in advance, and the refill allocates the next such block with *)
(* VirtualAlloc.  That call maps pages, so it runs MapPages inside the     *)
(* MapPages that found its table missing.                                  *)
(*                                                                         *)
(* Two levels stand for the four: a directory entry that is present points *)
(* to a table of Slots.  A table is known by its virtual page, which is    *)
(* what the code stores and follows; the processor follows the same number *)
(* as a frame.  Searches of both page maps are first fit, and nothing is   *)
(* given back: FreePML4Page has no caller.  The pages of the kernel image  *)
(* that hold the static tables are pages 1 .. StaticTables, mapped one to  *)
(* one by the first of them.                                               *)
(*                                                                         *)
(* The tables are those the code writes.  Where the processor would no     *)
(* longer find one, the code is lost; the model goes on, and so has every  *)
(* state the code can be in up to there, and more.                         *)
(***************************************************************************)
EXTENDS Integers, SequencesExt

CONSTANTS FanOut,         \* entries of a table (512)
          NumDirs,        \* entries of the directory
          StaticTables,   \* STATIC_PAGE_ENTRIES (2048)
          BlockSize,      \* NextPagingBlockSize (4096), tables of one block
          FirstFrame,     \* first free frame: above FanOut if there is a hole
          MaxAlloc        \* bound on the pages of one VirtualAlloc

NumPages == FanOut * NumDirs
Pages  == 0 .. NumPages - 1
Dirs   == 0 .. NumDirs - 1
Slots  == 0 .. FanOut - 1
Null   == 0               \* no table, no frame, a null pointer

ASSUME TableAssumption ==
  /\ {FanOut, NumDirs, BlockSize, MaxAlloc} \subseteq Nat \ {0}
  /\ StaticTables \in 1 .. FanOut - 1
  /\ FirstFrame \in FanOut .. NumPages

\* A block holds the tables its own refill takes: those of the next block, which
\* may begin and end inside a table's range, one for the page of InitDynamic, and
\* the one that was asked for.  In the code 4096 against 8 + 3.
ASSUME BlockAssumption == (BlockSize - 1) \div FanOut + 4 <= BlockSize

VARIABLES dir,            \* directory entry -> table, or Null
          tables,         \* table -> slot -> frame, or Null
          pool,           \* PagingFreePageHead: the free list, head first
          nextBlock,      \* NextFreePageTableEntriesBlock
          given,          \* page -> the frame the page maps gave it, or Null
          held,           \* pages that callers outside this module allocated
          calls,          \* the MapPages calls in progress, innermost last
          faulted         \* the kernel touched a page that is not mapped

vars == <<dir, tables, pool, nextBlock, given, held, calls, faulted>>

\* One MapPages call: the block asked for, the pages done, who asked, and how
\* far the refill that its next page needs has come.
Call == [base : Pages, size : Nat \ {0}, done : Nat,
         from : {"Caller", "Block", "Spare"},
         refill : {"No", "Block", "Spare", "Ready"}]

-----------------------------------------------------------------------------
(* Address translation.                                                    *)

\* The code's walk, GetPhysicalAddress: table pointers are virtual pages.
GetPhysicalAddress(page) ==
  LET table == dir[page \div FanOut]
  IN  IF table = Null THEN Null ELSE tables[table][page % FanOut]

\* The processor's walk: the same pointers are frames, and what a frame that
\* holds no table translates to is unknown, here never the right answer.
HardwareWalk(page) ==
  LET link == dir[page \div FanOut]
      there == {t \in Pages : given[t] = link}
  IN  IF link = Null \/ there = {} THEN Null
      ELSE tables[CHOOSE t \in there : TRUE][page % FanOut]

IsMapped(page) == page # Null /\ GetPhysicalAddress(page) = given[page]

-----------------------------------------------------------------------------
(* Allocation: both searches are first fit over what was never given.      *)

FreeVirtual(base, size) ==
  base + size <= NumPages /\ base >= FanOut
    /\ \A v \in base .. base + size - 1 : given[v] = Null

FreePhysical(base, size) ==
  base + size <= NumPages /\ base >= FirstFrame
    /\ \A f \in base .. base + size - 1 : \A v \in Pages : given[v] # f

Fits(size) ==
  /\ {v \in Pages : FreeVirtual(v, size)} # {}
  /\ {f \in Pages : FreePhysical(f, size)} # {}

FirstFit(Holds(_, _), size) ==
  CHOOSE b \in Pages : Holds(b, size) /\ \A c \in 0 .. b - 1 : ~Holds(c, size)

\* What VirtualAlloc tags, and the MapPages call it makes.
Give(size, from) ==
  LET v == FirstFit(FreeVirtual, size)
      f == FirstFit(FreePhysical, size)
  IN  /\ Fits(size)
      /\ given' = [u \in Pages |->
                     IF u \in v .. v + size - 1 THEN f + (u - v) ELSE given[u]]
      /\ held' = IF from = "Caller" THEN held \cup (v .. v + size - 1) ELSE held

Pushed(stack, size, from) ==
  Append(stack, [base |-> FirstFit(FreeVirtual, size), size |-> size, done |-> 0,
                 from |-> from, refill |-> "No"])

Top == Last(calls)
WithTop(c) == Append(Front(calls), c)

\* A caller of VirtualAlloc, outside any MapPages.
VirtualAlloc(size) ==
  /\ calls = <<>> /\ nextBlock # Null
  /\ Give(size, "Caller")
  /\ calls' = Pushed(calls, size, "Caller")
  /\ UNCHANGED <<dir, tables, pool, nextBlock, faulted>>

\* InitVirtualMemory allocates the first block before anyone else allocates.
InitVirtualMemory ==
  /\ calls = <<>> /\ nextBlock = Null
  /\ Give(BlockSize, "Block")
  /\ calls' = Pushed(calls, BlockSize, "Block")
  /\ UNCHANGED <<dir, tables, pool, nextBlock, faulted>>

-----------------------------------------------------------------------------
(* MapPages, one page of its loop at a time.                               *)

NextPage == Top.base + Top.done

Working == calls # <<>> /\ Top.done < Top.size

TableMissing == dir[NextPage \div FanOut] = Null

Written(content, page) == [content EXCEPT ![page % FanOut] = given[page]]

Advanced(c) == [c EXCEPT !.done = @ + 1, !.refill = "No"]

\* The table is there.
WriteEntry ==
  /\ Working /\ Top.refill = "No" /\ ~TableMissing
  /\ LET table == dir[NextPage \div FanOut]
     IN  IF IsMapped(table)
         THEN /\ tables' = [tables EXCEPT ![table] = Written(@, NextPage)]
              /\ calls' = WithTop(Advanced(Top))
              /\ UNCHANGED faulted
         ELSE faulted' = TRUE /\ UNCHANGED <<tables, calls>>
  /\ UNCHANGED <<dir, pool, nextBlock, given, held>>

\* A mutant: the table stays on the free list.
LinkTableKeepsIt(table) ==
  /\ pool' = pool
  /\ dir' = [dir EXCEPT ![NextPage \div FanOut] = table]
  /\ tables' = [tables EXCEPT ![table] = Written([s \in Slots |-> Null], NextPage)]

\* A mutant: the new table is cleared after its entry was written.
LinkTableClearsLate(table) ==
  /\ pool' = Tail(pool)
  /\ dir' = [dir EXCEPT ![NextPage \div FanOut] = table]
  /\ tables' = [tables EXCEPT ![table] = [s \in Slots |-> Null]]

\* The end of GetPML4FreePage and the store of its result.
LinkTable(table) ==
  /\ pool' = Tail(pool)
  /\ dir' = [dir EXCEPT ![NextPage \div FanOut] = table]
  /\ tables' = [tables EXCEPT ![table] = Written([s \in Slots |-> Null], NextPage)]

\* The table is missing and the list has one.  After a refill the entry is not
\* looked at again: the store goes over whatever the nested calls put there.
NewTable ==
  /\ Working /\ pool # <<>>
  /\ Top.refill = "Ready" \/ (Top.refill = "No" /\ TableMissing)
  /\ IF IsMapped(Head(pool))
     THEN /\ LinkTable(Head(pool))
          /\ calls' = WithTop(Advanced(Top))
          /\ UNCHANGED faulted
     ELSE faulted' = TRUE /\ UNCHANGED <<dir, tables, pool, calls>>
  /\ UNCHANGED <<nextBlock, given, held>>

\* The block as a free list, lowest page first.
TablesOfBlock(block) == [i \in 1 .. BlockSize |-> block + i - 1]

\* GetPML4FreePage with an empty list: the waiting block becomes the list and
\* VirtualAlloc is called for the next one.  Linking writes to every page of the
\* list, and the next block is cleared without a look at what was returned.
Refill ==
  /\ Working /\ Top.refill = "No" /\ TableMissing /\ pool = <<>>
  /\ IF /\ Fits(BlockSize)
        /\ \A t \in ToSet(TablesOfBlock(nextBlock)) : IsMapped(t)
     THEN /\ pool' = TablesOfBlock(nextBlock)
          /\ Give(BlockSize, "Block")
          /\ calls' = Pushed(WithTop([Top EXCEPT !.refill = "Block"]), BlockSize, "Block")
          /\ UNCHANGED faulted
     ELSE faulted' = TRUE /\ UNCHANGED <<pool, given, held, calls>>
  /\ UNCHANGED <<dir, tables, nextBlock>>

\* AllocateNextFreePageTableEntries goes on to InitDynamic, where rpmalloc may
\* have to map a page for the trees' spare nodes or may find room at hand.
InitDynamic ==
  /\ calls # <<>> /\ Top.refill = "Spare"
  /\ \/ /\ Give(1, "Spare")
        /\ calls' = Pushed(WithTop([Top EXCEPT !.refill = "Ready"]), 1, "Spare")
     \/ /\ calls' = WithTop([Top EXCEPT !.refill = "Ready"])
        /\ UNCHANGED <<given, held>>
  /\ UNCHANGED <<dir, tables, pool, nextBlock, faulted>>

\* A mutant: only the first block is remembered.
ReturnedBlockOnce(c) == IF c.from = "Block" /\ nextBlock = Null THEN c.base ELSE nextBlock

ReturnedBlock(c) == IF c.from = "Block" THEN c.base ELSE nextBlock

\* MapPages is done.  The block is remembered only now, and the call that waits
\* for its refill goes on.
Return ==
  /\ calls # <<>> /\ Top.done = Top.size
  /\ nextBlock' = ReturnedBlock(Top)
  /\ calls' = LET rest == Front(calls)
              IN  IF rest # <<>> /\ Last(rest).refill = "Block"
                  THEN Append(Front(rest), [Last(rest) EXCEPT !.refill = "Spare"])
                  ELSE rest
  /\ UNCHANGED <<dir, tables, pool, given, held, faulted>>

-----------------------------------------------------------------------------
Init ==
  /\ dir = [d \in Dirs |-> IF d = 0 THEN 1 ELSE Null]
  /\ tables = [t \in Pages |-> [s \in Slots |->
                 IF t = 1 /\ s \in 1 .. StaticTables THEN s ELSE Null]]
  /\ pool = [i \in 1 .. StaticTables - 1 |-> i + 1]
  /\ nextBlock = Null
  /\ given = [v \in Pages |-> IF v \in 1 .. StaticTables THEN v ELSE Null]
  /\ held = {} /\ calls = <<>> /\ faulted = FALSE

Next ==
  /\ ~faulted
  /\ \/ InitVirtualMemory
     \/ \E size \in 1 .. MaxAlloc : VirtualAlloc(size)
     \/ WriteEntry
     \/ NewTable
     \/ Refill
     \/ InitDynamic
     \/ Return

Spec == Init /\ [][Next]_vars

-----------------------------------------------------------------------------
Waiting(t) == nextBlock # Null /\ t \in ToSet(TablesOfBlock(nextBlock))
Refilling == \E i \in DOMAIN calls : calls[i].refill # "No"

\* A table page has one role at a time: linked from one directory entry, or once
\* on the free list, or (between refills) in the block that waits to become the
\* list.  Were it two at once, two regions of memory would share their mappings.
TablesHaveOneRole ==
  /\ \A d, e \in Dirs : dir[d] = dir[e] /\ d # e => dir[d] = Null
  /\ IsInjective(pool)
  /\ \A d \in Dirs : dir[d] \notin ToSet(pool)
  /\ ~Refilling => \A t \in Pages :
       Waiting(t) => t \notin ToSet(pool) /\ \A d \in Dirs : dir[d] # t

\* What a caller of VirtualAlloc was given stays mapped to the frames it was
\* given, whatever tables later calls and their refills put in.
CallersKeepTheirMemory ==
  \A v \in held :
    \/ IsMapped(v)
    \/ \E i \in DOMAIN calls :
         v \in calls[i].base + calls[i].done .. calls[i].base + calls[i].size - 1

\* A translation is never one that no allocation made: a table that is reused
\* or linked anew carries nothing over.
NoStrayTranslation ==
  \A v \in Pages : GetPhysicalAddress(v) \in {Null, given[v]}

\* The processor follows the number that the code stored, and it is the table's
\* page.
TableInPlace(page) == given[dir[page \div FanOut]] = dir[page \div FanOut]

\* VirtualAlloc writes to the first page of what it returns: through whatever the
\* refills of the call put in, the code's walk finds the frame it was given, and
\* so does the processor unless the table on the way lies in a frame of another
\* number, as every table of a block does where memory has a hole below it.
FirstPageReached ==
  \A i \in DOMAIN calls :
    calls[i].done = calls[i].size =>
      /\ GetPhysicalAddress(calls[i].base) = given[calls[i].base]
      /\ TableInPlace(calls[i].base) =>
           HardwareWalk(calls[i].base) = given[calls[i].base]
=============================================================================
