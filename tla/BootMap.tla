------------------------------ MODULE BootMap -------------------------------
(***************************************************************************)
(* BuildPML4: from the firmware's array of memory descriptors to the page  *)
(* maps and tables that the rest of the kernel starts with.  The array may *)
(* be in any order and may leave holes; its entries do not overlap.  The   *)
(* first loop maps what is in use, the second walks up through memory and  *)
(* reserves the holes, and last comes the framebuffer, which usually lies  *)
(* in one of them.                                                         *)
(***************************************************************************)
EXTENDS PageMap, Sequences

CONSTANTS NumFrames,      \* end of the last descriptor
          NumPages,       \* virtual pages
          MaxEntries      \* bound on the descriptors in the array

ASSUME BootMapAssumption ==
  {NumFrames, NumPages, MaxEntries} \subseteq Nat \ {0} /\ NumFrames <= NumPages

Frames == PageRange(0, NumFrames)
Pages  == PageRange(0, NumPages)

VARIABLES map,            \* memoryLayout.Map
          framebuffer,    \* frames of the framebuffer, [start, pages]
          physical, virtual, pte, regions, asserted,   \* as in Mapping.tla
          pc,             \* "Map", "Gaps", "Framebuffer" or "Done"
          entry,          \* index of the loop in progress
          StartP          \* how far the search for holes has come

maps == <<physical, virtual, pte, regions, asserted>>
vars == <<map, framebuffer, maps, pc, entry, StartP>>

\* The page maps and tables, once R, U and G are what they were built from.
\* Nothing has been allocated yet, so what Mapping says of that is left out.
Mapping(R, U, G) ==
  INSTANCE Mapping WITH
    BootReserved <- R, BootUsed <- U, Gaps <- G,
    SpanSize <- 16, Sizes <- {}, MaxRegions <- 0,
    orphaned <- {}, abandoned <- {}, astray <- FALSE

\* MapPages needs none of them.
MapPages(page, frame, size, s) ==
  Mapping({}, {}, {})!MapPages(page, frame, size, "User", s)

\* Descriptor types by what the code makes of them: free (conventional memory
\* and the boot services'), reserved (firmware's, at run time too), the rest.
Kinds == {Free, Reserved, Used}

Descriptor == [PhysicalStart : Frames, NumberOfPages : 1 .. NumFrames, kind : Kinds]

End(d) == d.PhysicalStart + d.NumberOfPages
FramesOf(d) == PageRange(d.PhysicalStart, End(d))

\* The arrays the firmware may hand over.
Arrays ==
  {a \in UNION {[1 .. n -> {d \in Descriptor : End(d) <= NumFrames}] : n \in 1 .. MaxEntries} :
     /\ \A i, j \in DOMAIN a : i # j => FramesOf(a[i]) \cap FramesOf(a[j]) = {}
     /\ \E i \in DOMAIN a : End(a[i]) = NumFrames}

Described(kinds) == UNION {FramesOf(map[i]) : i \in {j \in DOMAIN map : map[j].kind \in kinds}}
Holes == Frames \ Described(Kinds)

-----------------------------------------------------------------------------
\* A mutant: runtime and ACPI memory is mapped as if it were ordinary memory.
NewStateAlwaysUsed(d) == Used

NewState(d) == IF d.kind = Reserved THEN Reserved ELSE Used

\* One descriptor; free memory is left unmapped.
MapDescriptor ==
  /\ pc = "Map" /\ entry \in DOMAIN map
  /\ LET d == map[entry] IN
     IF d.kind = Free THEN UNCHANGED maps
     ELSE /\ MapPages(d.PhysicalStart, d.PhysicalStart, d.NumberOfPages, NewState(d))
          /\ UNCHANGED regions
  /\ entry' = entry + 1
  /\ UNCHANGED <<map, framebuffer, pc, StartP>>

MapDone ==
  /\ pc = "Map" /\ entry \notin DOMAIN map
  /\ pc' = "Gaps"
  /\ UNCHANGED <<map, framebuffer, maps, entry, StartP>>

StartsAt(p) == {i \in DOMAIN map : map[i].PhysicalStart = p}

\* A mutant: free descriptors are passed over.
StartsAboveMapped(p) ==
  {map[i].PhysicalStart : i \in {j \in DOMAIN map : map[j].kind # Free}} \cap {q \in Frames : q > p}

StartsAbove(p) == {map[i].PhysicalStart : i \in DOMAIN map} \cap {q \in Frames : q > p}

\* A descriptor starts here: go to its end.
SkipDescriptor ==
  /\ pc = "Gaps" /\ StartP # NumFrames /\ StartsAt(StartP) # {}
  /\ \E i \in StartsAt(StartP) :
       (\A j \in StartsAt(StartP) : i <= j) /\ StartP' = End(map[i])
  /\ UNCHANGED <<map, framebuffer, maps, pc, entry>>

\* None does: reserve everything up to the next one.
ReserveGap ==
  /\ pc = "Gaps" /\ StartP # NumFrames /\ StartsAt(StartP) = {}
  /\ IF StartsAbove(StartP) = {}
     THEN asserted' = TRUE /\ UNCHANGED <<physical, StartP>>
     ELSE \E lowest \in StartsAbove(StartP) :
            /\ \A q \in StartsAbove(StartP) : lowest <= q
            /\ physical' = Tagged(physical, StartP, lowest, Reserved)
            /\ StartP' = lowest
            /\ UNCHANGED asserted
  /\ UNCHANGED <<map, framebuffer, virtual, pte, regions, pc, entry>>

GapsDone ==
  /\ pc = "Gaps" /\ StartP = NumFrames
  /\ pc' = "Framebuffer"
  /\ UNCHANGED <<map, framebuffer, maps, entry, StartP>>

MapFramebuffer ==
  /\ pc = "Framebuffer" /\ pc' = "Done"
  /\ MapPages(framebuffer.start, framebuffer.start, framebuffer.pages, Reserved)
  /\ UNCHANGED <<map, framebuffer, regions, entry, StartP>>

-----------------------------------------------------------------------------
\* The framebuffer is a device: in a hole or in reserved memory.
Init ==
  /\ map \in Arrays
  /\ framebuffer \in [start : Frames, pages : 1 .. 2]
  /\ PageRange(framebuffer.start, framebuffer.start + framebuffer.pages)
       \subseteq Described({Reserved}) \cup Holes
  /\ physical = [f \in Frames |-> Free]
  /\ virtual = [v \in Pages |-> Free]
  /\ pte = [v \in Pages |-> [frame |-> 0, present |-> FALSE, user |-> FALSE]]
  /\ regions = {} /\ asserted = FALSE
  /\ pc = "Map" /\ entry = 1 /\ StartP = 0

Next ==
  /\ ~asserted
  /\ \/ MapDescriptor
     \/ MapDone
     \/ SkipDescriptor
     \/ ReserveGap
     \/ GapsDone
     \/ MapFramebuffer

Spec == Init /\ [][Next]_vars /\ WF_vars(Next)

-----------------------------------------------------------------------------
\* The walk over the holes meets the end of memory whatever the order of the
\* array, and the assertion that it cannot miss a descriptor holds.
Completes == <>(pc = "Done") /\ []~asserted

\* What BuildPML4 leaves behind is what the memory manager starts from: the
\* initial state of Mapping.tla for this machine's memory.
EstablishesMapping ==
  LET screen == PageRange(framebuffer.start, framebuffer.start + framebuffer.pages) IN
  pc = "Done" =>
    \E R \in SUBSET Frames : R = Described({Reserved}) \cup screen /\
    \E U \in SUBSET Frames : U = Described({Used}) /\
    \E G \in SUBSET Frames : G = Holes \ screen /\ Mapping(R, U, G)!Init
=============================================================================
