------------------------------ MODULE Mapping ------------------------------
(***************************************************************************)
(* Virtual memory as the rest of the kernel sees it: VirtualAlloc,         *)
(* VirtualFree, VirtualProtect and PhysicalAlloc, each of which ends in    *)
(* MapPages.  MapPages tags the same range in both page maps and rewrites  *)
(* one page-table entry per page.  The kernel keeps no record of what it   *)
(* handed out; a caller keeps a pointer and a size (a thread stack, an ELF *)
(* image, a TLS block, a span of rpmalloc) and gives back what it holds.   *)
(* Those pairs are the variable regions.  A user program can also have new *)
(* memory mapped over pages it holds (mmap at an address), and rpmalloc    *)
(* gives a block back span by span.                                        *)
(*                                                                         *)
(* The page maps are the abstract ones of PageMap.tla, which the trees of  *)
(* MemoryState.tla implement.  The four levels of tables are one function  *)
(* from virtual pages to entries.  Addresses are in pages; the kernel runs *)
(* one thread and no interrupt handler maps memory, so a call is one step. *)
(***************************************************************************)
EXTENDS PageMap, FiniteSets

CONSTANTS NumFrames,      \* physical pages tracked
          NumPages,       \* virtual pages tracked
          BootReserved,   \* frames mapped at boot, identity, and Reserved
          BootUsed,       \* frames mapped at boot, identity, and Used
          Gaps,           \* frames the firmware map does not describe
          SpanSize,       \* _memory_span_size in pages (16)
          Sizes,          \* bound: the numbers of pages callers ask for
          MaxRegions      \* bound on what callers hold at a time

Frames == PageRange(0, NumFrames)
Pages  == PageRange(0, NumPages)

ASSUME SizesAssumption == NumFrames \in Nat \ {0} /\ NumPages \in Nat /\ NumFrames <= NumPages
ASSUME BootAssumption ==
  /\ BootReserved \subseteq Frames /\ BootUsed \subseteq Frames /\ Gaps \subseteq Frames
  /\ BootReserved \cap BootUsed = {} /\ BootReserved \cap Gaps = {}
  /\ BootUsed \cap Gaps = {}

ASSUME SizesAskedAssumption == Sizes \subseteq 1 .. NumFrames

\* More than one page, _memory_map_granularity, or RPMallocMap would not pad.
ASSUME SpanAssumption == SpanSize \in Nat \ {0, 1}

VARIABLES physical,       \* PhysicalMemoryState: frame -> RangeState
          virtual,        \* VirtualMemoryState: page -> RangeState
          pte,            \* page -> page-table entry
          regions,        \* the (base, size) pairs callers hold
          asserted,       \* an assertion has failed, the kernel has stopped
          orphaned,       \* history: frames whose page mmap mapped elsewhere
          abandoned,      \* history: pages that a released heap block left mapped
          astray          \* history: a call has gone to frames not its pages'

history == <<orphaned, abandoned, astray>>
vars == <<physical, virtual, pte, regions, asserted, history>>

Kernel == "Kernel"
User   == "User"
Keep   == "Keep"
PrivilegeLevel == {Kernel, User}     \* what an allocation may ask for

INVALID_ADDRESS == -1

Entry  == [frame : Frames, present : BOOLEAN, user : BOOLEAN]

\* A region also carries the first of the frames it was given, where in it the
\* aligned part of a heap block begins (0 if it is none), and the pages of that
\* part already given back.
Region == [base : Pages, size : 1 .. NumPages, frame : Frames,
           privilege : PrivilegeLevel, offset : 0 .. SpanSize, gone : SUBSET Pages]

PagesOf(r) == PageRange(r.base, r.base + r.size) \ r.gone

-----------------------------------------------------------------------------
(* pml4.cpp                                                                *)

GetPhysicalAddress(page) ==
  IF pte[page].present THEN pte[page].frame ELSE INVALID_ADDRESS

\* Mutants of NewEntry: unmapping leaves the entry present; the loop has moved on
\* to the next frame; the user bit is not kept when the page is protected anew.
NewEntryStaysPresent(old, frame, privilege, s) ==
  [frame |-> frame, present |-> TRUE, user |-> privilege = User]

NewEntryIsNext(old, frame, privilege, s) ==
  [frame   |-> frame + 1,
   present |-> s # Free,
   user    |-> s # Free /\ \/ privilege = User
                           \/ privilege = Keep /\ old.present /\ old.user]

NewEntryForgetsUser(old, frame, privilege, s) ==
  [frame |-> frame, present |-> s # Free, user |-> s # Free /\ privilege = User]

\* The entry MapPages writes.  The user bit is asked for, or kept if the page
\* was present with it.  Nothing reads the frame of an entry that is not present.
NewEntry(old, frame, privilege, s) ==
  [frame   |-> IF s = Free THEN 0 ELSE frame,
   present |-> s # Free,
   user    |-> s # Free /\ \/ privilege = User
                           \/ privilege = Keep /\ old.present /\ old.user]

\* What MapPages and the two TagRange calls in it assert of their arguments.
Mappable(page, frame, size) ==
  /\ frame # INVALID_ADDRESS
  /\ size > 0
  /\ frame + size <= NumFrames
  /\ page + size <= NumPages

\* A mutant: the frames are not tagged.
MapPagesForgetsFrames(page, frame, size, privilege, s) ==
  /\ Mappable(page, frame, size)
  /\ virtual' = Tagged(virtual, page, page + size, s)
  /\ pte' = [u \in Pages |->
               IF u \in PageRange(page, page + size)
               THEN NewEntry(pte[u], frame + (u - page), privilege, s)
               ELSE pte[u]]
  /\ UNCHANGED <<physical, asserted>>

MapPages(page, frame, size, privilege, s) ==
  \/ /\ Mappable(page, frame, size)
     /\ physical' = Tagged(physical, frame, frame + size, s)
     /\ virtual' = Tagged(virtual, page, page + size, s)
     /\ pte' = [u \in Pages |->
                  IF u \in PageRange(page, page + size)
                  THEN NewEntry(pte[u], frame + (u - page), privilege, s)
                  ELSE pte[u]]
     /\ UNCHANGED asserted
  \/ /\ ~Mappable(page, frame, size)
     /\ asserted' = TRUE
     /\ UNCHANGED <<physical, virtual, pte>>

-----------------------------------------------------------------------------
(* The callers' interface.  The virtual search is taken to succeed: there  *)
(* are 2^36 virtual pages, far more than there is memory to map.           *)

\* What a caller holds once it has been given pages.
Given(page, frame, size, privilege, offset) ==
  [base |-> page, size |-> size, frame |-> frame, privilege |-> privilege,
   offset |-> offset, gone |-> {}]

\* What is used of a padded block begins at the first multiple of the span size
\* after its start.
Offset(page, padding) == IF padding = 0 THEN 0 ELSE padding - (page % SpanSize)

\* A fresh block of frames at a fresh block of pages.  When no frames are found
\* the call returns null and changes nothing.
Allocate(size, privilege, padding) ==
  /\ \E frame \in FindResults(physical, size) \ {0},
        page \in FindResults(virtual, size) \ {0} :
       /\ MapPages(page, frame, size, privilege, Used)
       /\ regions' = regions \cup {Given(page, frame, size, privilege, Offset(page, padding))}
  /\ UNCHANGED history

VirtualAlloc(size, privilege) == Allocate(size, privilege, 0)

\* The caller names the frames: device registers and firmware tables, which
\* were reserved at boot.  Only the kernel's own code asks.
PhysicalAlloc(frame, size, privilege) ==
  /\ \A f \in PageRange(frame, frame + size) : f \in Frames /\ physical[f] = Reserved
  /\ \E page \in FindResults(virtual, size) \ {0} :
       /\ MapPages(page, frame, size, privilege, Used)
       /\ regions' = regions \cup {Given(page, frame, size, privilege, 0)}
  /\ UNCHANGED history

\* VirtualFree and VirtualProtect look up the frame of the first page alone.
Consecutive(page, size) ==
  \A v \in PageRange(page, page + size) :
    v \in Pages /\ pte[v].frame = pte[page].frame + (v - page)

\* The body of VirtualFree and PhysicalFree, which are the same function: the
\* frames freed follow the first page's.
Unmap(page, size) ==
  /\ MapPages(page, GetPhysicalAddress(page), size, Kernel, Free)
  /\ astray' = (astray \/ ~Consecutive(page, size))

\* A mutant: the pages are unmapped but their owner still holds them.
VirtualFreeKeepsRegion(r) ==
  /\ r.offset = 0
  /\ Unmap(r.base, r.size)
  /\ UNCHANGED <<regions, orphaned, abandoned>>

\* Callers other than the heap give back the whole of what they were given.
VirtualFree(r) ==
  /\ r.offset = 0
  /\ Unmap(r.base, r.size)
  /\ regions' = regions \ {r}
  /\ UNCHANGED <<orphaned, abandoned>>

\* Maps the pages again, over the same frames, to change their protection.
VirtualProtect(r, page, size) ==
  /\ PageRange(page, page + size) \subseteq PagesOf(r)
  /\ MapPages(page, GetPhysicalAddress(page), size, Keep, Used)
  /\ astray' = (astray \/ ~Consecutive(page, size))
  /\ UNCHANGED <<regions, orphaned, abandoned>>

\* sys_memory_map at an address, which a program gives within its own memory:
\* every page there must be mapped already, or the call fails and changes nothing.
\* The pages get new frames.  Nobody looks whether any were found: 0 is then
\* taken for the first of them.
MemoryMap(page, size) ==
  /\ \A v \in PageRange(page, page + size) :
       /\ \E r \in regions : r.privilege = User /\ v \in PagesOf(r)
       /\ GetPhysicalAddress(v) # INVALID_ADDRESS
  /\ \E frame \in FindResults(physical, size) :
       /\ MapPages(page, frame, size, User, Used)
       /\ astray' = (astray \/ frame = 0)
  /\ orphaned' = orphaned \cup {pte[v].frame : v \in PageRange(page, page + size)}
  /\ UNCHANGED <<regions, abandoned>>

-----------------------------------------------------------------------------
(* The heap (malloc.cpp) and what rpmalloc does with a block of spans.     *)

\* A block that may hold spans is one span longer than asked for.
RPMallocMap(size) ==
  LET padding == IF size >= SpanSize THEN SpanSize ELSE 0
  IN  Allocate(size + padding, Kernel, padding)

SpanStart(r) == r.base + r.offset
SpanPages(r) == r.size - SpanSize     \* the pages asked for

\* A mutant: the address is not moved back to where the block begins.
RPMallocUnmapInPlace(page, size, offset, release) == Unmap(page, size)

\* The address is moved back by the padding; of release, which grows by it, only
\* that it is not 0 matters: the pages given back are size.
RPMallocUnmap(page, size, offset, release) ==
  Unmap(IF release # 0 THEN page - offset ELSE page, size)

\* Some spans, not the first, are given back before the rest.
UnmapSubspans(r, page, size) ==
  /\ r.offset # 0
  /\ SpanStart(r) < page /\ (page - SpanStart(r)) % SpanSize = 0
  /\ size % SpanSize = 0 /\ page + size <= SpanStart(r) + SpanPages(r)
  /\ PageRange(page, page + size) \subseteq PagesOf(r)
  /\ RPMallocUnmap(page, size, 0, 0)
  /\ regions' = (regions \ {r}) \cup {[r EXCEPT !.gone = @ \cup PageRange(page, page + size)]}
  /\ UNCHANGED <<orphaned, abandoned>>

\* What stays mapped when the last size pages of a block are given back: as many
\* pages of the span as were freed before its start, and the padding's rest.
LeftBehind(r, size) ==
  PageRange(r.base + size, SpanStart(r) + size)
    \cup PageRange(SpanStart(r) + SpanPages(r), r.base + r.size)

\* Everything else has been given back: the rest goes, and the whole block with
\* it.  Nobody knows of its pages from then on.
ReleaseSpans(r, size) ==
  /\ r.offset # 0 /\ size <= SpanPages(r)
  /\ PageRange(SpanStart(r), SpanStart(r) + size) \cap r.gone = {}
  /\ PageRange(SpanStart(r) + size, SpanStart(r) + SpanPages(r)) \subseteq r.gone
  /\ RPMallocUnmap(SpanStart(r), size, r.offset, SpanPages(r))
  /\ regions' = regions \ {r}
  /\ abandoned' = abandoned \cup LeftBehind(r, size)
  /\ UNCHANGED orphaned

-----------------------------------------------------------------------------
\* What BuildPML4 leaves behind.
Init ==
  /\ physical = [f \in Frames |->
       IF f \in BootReserved \cup Gaps THEN Reserved
       ELSE IF f \in BootUsed THEN Used ELSE Free]
  /\ virtual = [v \in Pages |->
       IF v \in BootReserved THEN Reserved
       ELSE IF v \in BootUsed THEN Used ELSE Free]
  /\ pte = [v \in Pages |->
       LET mapped == v \in BootReserved \cup BootUsed
       IN  [frame |-> IF mapped THEN v ELSE 0, present |-> mapped, user |-> mapped]]
  /\ regions = {}
  /\ asserted = FALSE
  /\ orphaned = {} /\ abandoned = {} /\ astray = FALSE

Next ==
  /\ ~asserted /\ ~astray
  /\ \/ /\ Cardinality(regions) < MaxRegions
        /\ \/ \E size \in Sizes, privilege \in PrivilegeLevel : VirtualAlloc(size, privilege)
           \/ \E frame \in Frames, size \in Sizes : PhysicalAlloc(frame, size, Kernel)
           \/ \E size \in Sizes : RPMallocMap(size)
     \/ \E r \in regions : VirtualFree(r)
     \/ \E r \in regions, page \in Pages, size \in 1 .. NumFrames :
          VirtualProtect(r, page, size)
     \/ \E page \in Pages, size \in 1 .. NumFrames : MemoryMap(page, size)
     \/ \E r \in regions, page \in Pages, size \in 1 .. NumFrames :
          UnmapSubspans(r, page, size)
     \/ \E r \in regions, size \in 1 .. NumFrames : ReleaseSpans(r, size)

Spec == Init /\ [][Next]_vars

-----------------------------------------------------------------------------
(* Properties.                                                             *)

TypeOK ==
  /\ physical \in [Frames -> RangeState]
  /\ virtual \in [Pages -> RangeState]
  /\ pte \in [Pages -> Entry]
  /\ regions \subseteq Region
  /\ asserted \in BOOLEAN
  /\ orphaned \subseteq Frames /\ abandoned \subseteq Pages /\ astray \in BOOLEAN

\* The model ends with the first call that goes to frames other than its pages':
\* giving back or protecting a range that mmap has mapped in part to new frames,
\* or an mmap that found no frames.  From there the code frees and maps memory of
\* others, and what is said of frames is said up to that call.

\* No range handed to MapPages makes it, or TagRange, assert: in particular a
\* pointer that is given back is always still mapped, and so is the start of a
\* heap block to which RPMallocUnmap goes back.
NoAssertionFires == asserted => astray

\* A translation never outlives its page or its frame: whatever is mapped is
\* free in neither map, so no later search can hand it out.
MappedIsNotFree ==
  ~astray =>
    \A v \in Pages : pte[v].present =>
      virtual[v] # Free /\ physical[pte[v].frame] # Free

\* Two pages share a frame only if it is a reserved one (device registers,
\* firmware tables), never allocated memory.
NoSharedFrames ==
  ~astray =>
    \A u, v \in Pages :
      pte[u].present /\ pte[v].present /\ pte[u].frame = pte[v].frame /\ u # v
        => physical[pte[u].frame] = Reserved

\* What each caller holds is its own, stays mapped, and carries the privilege it
\* was allocated with through later changes of protection.  Its pages map the
\* consecutive frames it was given, but for those of a program's memory that mmap
\* has mapped anew, whose frames are orphaned.
RegionsIntact ==
  /\ \A r \in regions :
       /\ r.base + r.size <= NumPages
       /\ \A v \in PagesOf(r) :
            /\ pte[v].present
            /\ pte[v].user = (r.privilege = User)
            /\ virtual[v] = Used
  /\ \A r, q \in regions : r # q => PagesOf(r) \cap PagesOf(q) = {}
  /\ ~astray =>
       \A r \in regions : \A v \in PagesOf(r) :
         LET frame == r.frame + (v - r.base)
         IN  pte[v].frame = frame \/ (r.privilege = User /\ frame \in orphaned)

\* Memory is lost in two ways and no other.  A Used page is the kernel's own
\* image, or held by a caller, or left over by the release of a heap block; a Used
\* frame is mapped by some page, or mmap has mapped its page elsewhere.
NothingElseLeaks ==
  ~astray =>
    /\ \A v \in Pages :
         virtual[v] = Used =>
           v \in BootUsed \cup abandoned \/ \E r \in regions : v \in PagesOf(r)
    /\ \A f \in Frames :
         physical[f] = Used =>
           f \in orphaned \/ \E v \in Pages : pte[v].present /\ pte[v].frame = f

\* A frame reserved at boot stays reserved through every map, unmap and change
\* of protection.
ReservedFramesStay ==
  [][\A f \in Frames : physical[f] = Reserved => physical'[f] = Reserved]_vars

\* "The unmap is for an entire span range as returned by a previous call to
\* memory_map and [...] the entire range should be released": when a caller lets
\* go of a region, all of its pages are free.
EntireRangeReleased ==
  [][\A r \in regions :
       (\E q \in regions' : q.base = r.base)
         \/ \A v \in PagesOf(r) : virtual'[v] = Free]_vars
=============================================================================
