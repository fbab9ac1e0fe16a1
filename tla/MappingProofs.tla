--------------------------- MODULE MappingProofs ---------------------------
(***************************************************************************)
(* The safety of virtual memory, for any number of frames and pages, any   *)
(* layout the firmware reports and any sequence of calls.  The invariants  *)
(* of Mapping.tla are inductive together, none of the three main ones is   *)
(* so alone: freeing a region keeps MappedIsNotFree only because no other  *)
(* page maps its frames (NoSharedFrames), and RPMallocUnmap finds the      *)
(* start of a heap block only because nothing before the pages it is given *)
(* has been unmapped (RegionsIntact, GoneInSpans).                         *)
(***************************************************************************)
EXTENDS Mapping, TLAPS

\* What has been given back of a heap block lies in its aligned part; nothing is
\* given back of other regions before the whole is.
GoneInSpans ==
  \A r \in regions : \A v \in r.gone : r.offset # 0 /\ SpanStart(r) <= v

IInv ==
  /\ TypeOK
  /\ NoAssertionFires
  /\ MappedIsNotFree
  /\ NoSharedFrames
  /\ RegionsIntact
  /\ GoneInSpans

-----------------------------------------------------------------------------
(* The operators.                                                          *)

LEMMA FrameSearch ==
  ASSUME physical \in [Frames -> RangeState],
         NEW size \in Nat \ {0},
         NEW frame \in FindResults(physical, size) \ {0}
  PROVE  /\ frame \in Frames /\ frame + size <= NumFrames
         /\ \A f \in PageRange(frame, frame + size) : f \in Frames /\ physical[f] = Free
<1>1. /\ frame \in Frames
      /\ \A f \in PageRange(frame, frame + size) : f \in Frames /\ physical[f] = Free
  BY SizesAssumption DEF FindResults, IsFreeBlock
<1>2. frame + size - 1 \in PageRange(frame, frame + size)
  BY <1>1, SizesAssumption DEF PageRange, Frames
<1>3. frame + size - 1 \in Frames
  BY <1>1, <1>2
<1> QED
  BY <1>1, <1>3, SizesAssumption DEF PageRange, Frames

LEMMA PageSearch ==
  ASSUME virtual \in [Pages -> RangeState],
         NEW size \in Nat \ {0},
         NEW page \in FindResults(virtual, size) \ {0}
  PROVE  /\ page \in Pages /\ page + size <= NumPages
         /\ \A v \in PageRange(page, page + size) : v \in Pages /\ virtual[v] = Free
<1>1. /\ page \in Pages
      /\ \A v \in PageRange(page, page + size) : v \in Pages /\ virtual[v] = Free
  BY SizesAssumption DEF FindResults, IsFreeBlock
<1>2. page + size - 1 \in PageRange(page, page + size)
  BY <1>1, SizesAssumption DEF PageRange, Pages
<1>3. page + size - 1 \in Pages
  BY <1>1, <1>2
<1> QED
  BY <1>1, <1>3, SizesAssumption DEF PageRange, Pages

\* A legal MapPages asserts nothing, keeps the types, and its effect on each
\* frame and page is the one written here.
LEMMA MapPagesEffect ==
  ASSUME TypeOK,
         NEW page \in Pages, NEW frame \in Frames, NEW size \in Nat \ {0},
         page + size <= NumPages, frame + size <= NumFrames,
         NEW privilege, NEW s \in RangeState,
         MapPages(page, frame, size, privilege, s)
  PROVE  /\ asserted' = asserted
         /\ physical' \in [Frames -> RangeState]
         /\ virtual' \in [Pages -> RangeState]
         /\ pte' \in [Pages -> Entry]
         /\ \A f \in Frames :
              physical'[f] = IF frame <= f /\ f < frame + size /\ physical[f] # Reserved
                             THEN s ELSE physical[f]
         /\ \A v \in Pages :
              virtual'[v] = IF page <= v /\ v < page + size /\ virtual[v] # Reserved
                            THEN s ELSE virtual[v]
         /\ \A v \in Pages : page <= v /\ v < page + size =>
              /\ frame + (v - page) \in Frames
              /\ pte'[v] = NewEntry(pte[v], frame + (v - page), privilege, s)
         /\ \A v \in Pages : ~(page <= v /\ v < page + size) => pte'[v] = pte[v]
<1>1. Mappable(page, frame, size)
  BY SizesAssumption DEF Mappable, INVALID_ADDRESS, Frames, PageRange
<1>2. /\ physical' = Tagged(physical, frame, frame + size, s)
      /\ virtual' = Tagged(virtual, page, page + size, s)
      /\ pte' = [u \in Pages |->
                  IF u \in PageRange(page, page + size)
                  THEN NewEntry(pte[u], frame + (u - page), privilege, s)
                  ELSE pte[u]]
      /\ asserted' = asserted
  BY <1>1 DEF MapPages
<1>3. /\ physical' \in [Frames -> RangeState]
      /\ \A f \in Frames :
           physical'[f] = IF frame <= f /\ f < frame + size /\ physical[f] # Reserved
                          THEN s ELSE physical[f]
  BY <1>2, SizesAssumption DEF TypeOK, Tagged, Frames, PageRange
<1>4. /\ virtual' \in [Pages -> RangeState]
      /\ \A v \in Pages :
           virtual'[v] = IF page <= v /\ v < page + size /\ virtual[v] # Reserved
                         THEN s ELSE virtual[v]
  BY <1>2, SizesAssumption DEF TypeOK, Tagged, Pages, PageRange
<1>5. \A v \in Pages : page <= v /\ v < page + size =>
        /\ frame + (v - page) \in Frames
        /\ pte'[v] = NewEntry(pte[v], frame + (v - page), privilege, s)
  BY <1>2, SizesAssumption DEF Frames, Pages, PageRange
<1>6. \A v \in Pages : ~(page <= v /\ v < page + size) => pte'[v] = pte[v]
  BY <1>2, SizesAssumption DEF Pages, PageRange
<1>7. pte' \in [Pages -> Entry]
  <2>0. 0 \in Frames
    BY SizesAssumption DEF Frames, PageRange
  <2>1. \A v \in Pages, f \in Frames : NewEntry(pte[v], f, privilege, s) \in Entry
    BY <2>0 DEF NewEntry, Entry
  <2>2. \A v \in Pages : pte'[v] \in Entry
    BY <2>1, <1>5, <1>6 DEF TypeOK
  <2> QED
    BY <2>2, <1>2
<1> QED
  BY <1>2, <1>3, <1>4, <1>5, <1>6, <1>7

\* Even a MapPages that asserts, or maps frames it should not, touches no page but
\* those it is asked to map.
LEMMA MapPagesAnyway ==
  ASSUME TypeOK,
         NEW page \in Pages, NEW frame \in Frames, NEW size \in Nat \ {0},
         page + size <= NumPages,
         NEW privilege, NEW s \in RangeState,
         MapPages(page, frame, size, privilege, s)
  PROVE  /\ asserted' \in BOOLEAN
         /\ physical' \in [Frames -> RangeState]
         /\ virtual' \in [Pages -> RangeState]
         /\ pte' \in [Pages -> Entry]
         /\ \A v \in Pages : ~(page <= v /\ v < page + size) =>
              pte'[v] = pte[v] /\ virtual'[v] = virtual[v]
         /\ \A v \in Pages : page <= v /\ v < page + size =>
              \/ pte'[v] = pte[v] /\ virtual'[v] = virtual[v]
              \/ /\ \E f \in Frames : pte'[v] = NewEntry(pte[v], f, privilege, s)
                 /\ virtual'[v] = IF virtual[v] # Reserved THEN s ELSE virtual[v]
<1>1. CASE frame + size <= NumFrames
  <2>1. /\ asserted' = asserted
        /\ physical' \in [Frames -> RangeState]
        /\ virtual' \in [Pages -> RangeState]
        /\ pte' \in [Pages -> Entry]
        /\ \A v \in Pages :
             virtual'[v] = IF page <= v /\ v < page + size /\ virtual[v] # Reserved
                           THEN s ELSE virtual[v]
        /\ \A v \in Pages : page <= v /\ v < page + size =>
             /\ frame + (v - page) \in Frames
             /\ pte'[v] = NewEntry(pte[v], frame + (v - page), privilege, s)
        /\ \A v \in Pages : ~(page <= v /\ v < page + size) => pte'[v] = pte[v]
    BY <1>1, MapPagesEffect
  <2> QED
    BY <2>1 DEF TypeOK
<1>2. CASE ~(frame + size <= NumFrames)
  <2>1. ~Mappable(page, frame, size)
    BY <1>2 DEF Mappable
  <2>2. asserted' = TRUE /\ UNCHANGED <<physical, virtual, pte>>
    BY <2>1 DEF MapPages
  <2> QED
    BY <2>2 DEF TypeOK
<1> QED
  BY <1>1, <1>2

\* A region lies within the pages; what is held of it is mapped.
LEMMA RegionIs ==
  ASSUME IInv, NEW r \in regions
  PROVE  /\ r \in Region
         /\ r.base \in Pages /\ r.base \in Nat
         /\ r.size \in Nat \ {0} /\ r.size <= NumPages /\ r.base + r.size <= NumPages
         /\ r.frame \in Frames /\ r.privilege \in PrivilegeLevel
         /\ r.offset \in Nat /\ r.offset <= SpanSize
         /\ \A v \in PagesOf(r) :
              /\ v \in Pages /\ v \in Nat /\ r.base <= v /\ v < r.base + r.size /\ v \notin r.gone
              /\ pte[v].present /\ pte[v].user = (r.privilege = User) /\ virtual[v] = Used
         /\ \A v \in Nat : r.base <= v /\ v < r.base + r.size /\ v \notin r.gone => v \in PagesOf(r)
<1>1. /\ r \in Region
      /\ r.base \in Pages /\ r.base \in Nat
      /\ r.size \in Nat \ {0} /\ r.size <= NumPages /\ r.base + r.size <= NumPages
      /\ r.frame \in Frames /\ r.privilege \in PrivilegeLevel
      /\ r.offset \in Nat /\ r.offset <= SpanSize
  BY SizesAssumption, SpanAssumption DEF IInv, TypeOK, RegionsIntact, Region, Pages, PageRange
<1>2. \A v \in PagesOf(r) :
        v \in Pages /\ v \in Nat /\ r.base <= v /\ v < r.base + r.size /\ v \notin r.gone
  BY <1>1, SizesAssumption DEF PagesOf, Pages, PageRange
<1>3. \A v \in PagesOf(r) :
        pte[v].present /\ pte[v].user = (r.privilege = User) /\ virtual[v] = Used
  BY DEF IInv, RegionsIntact
<1>4. \A v \in Nat : r.base <= v /\ v < r.base + r.size /\ v \notin r.gone => v \in PagesOf(r)
  BY <1>1 DEF PagesOf, PageRange
<1> QED
  BY <1>1, <1>2, <1>3, <1>4

\* Its frames are those it was given, but where mmap has changed them.
LEMMA RegionFrames ==
  ASSUME IInv, ~astray, NEW r \in regions, NEW v \in PagesOf(r)
  PROVE  \/ pte[v].frame = r.frame + (v - r.base)
         \/ r.privilege = User /\ r.frame + (v - r.base) \in orphaned
  BY DEF IInv, RegionsIntact

\* A range held by callers lies within the pages, and its first page has a frame.
LEMMA RangeIs ==
  ASSUME IInv, NEW page \in Pages, NEW size \in Nat \ {0},
         \A v \in PageRange(page, page + size) : \E r \in regions : v \in PagesOf(r)
  PROVE  /\ page \in Nat /\ page + size <= NumPages
         /\ pte[page].present /\ GetPhysicalAddress(page) = pte[page].frame
         /\ pte[page].frame \in Frames
         /\ \A v \in Pages : page <= v /\ v < page + size => \E r \in regions : v \in PagesOf(r)
         /\ \A v \in Pages : v \in PageRange(page, page + size) <=> page <= v /\ v < page + size
         /\ PageRange(page, page + size) \subseteq Pages
<1>1. page \in Nat
  BY DEF Pages, PageRange
<1>2. \A v : v \in PageRange(page, page + size) <=> v \in Int /\ page <= v /\ v < page + size
  BY <1>1 DEF PageRange
<1>3. \A v \in Pages : v \in Nat
  BY DEF Pages, PageRange
<1>4. page \in PageRange(page, page + size) /\ page + size - 1 \in PageRange(page, page + size)
  BY <1>1, <1>2
<1>5. PageRange(page, page + size) \subseteq Pages
  BY RegionIs
<1>6. page + size <= NumPages
  <2>1. page + size - 1 \in Pages
    BY <1>4, <1>5
  <2> QED
    BY <2>1, <1>1, SizesAssumption DEF Pages, PageRange
<1>7. pte[page].present
  BY <1>4, RegionIs
<1>8. pte[page].frame \in Frames
  BY DEF IInv, TypeOK, Entry
<1>9. GetPhysicalAddress(page) = pte[page].frame
  BY <1>7 DEF GetPhysicalAddress
<1> QED
  BY <1>1, <1>2, <1>3, <1>5, <1>6, <1>7, <1>8, <1>9

\* A range mapped to consecutive frames: all of them are frames.
LEMMA ConsecutiveFrames ==
  ASSUME IInv, NEW page \in Pages, NEW size \in Nat \ {0}, Consecutive(page, size)
  PROVE  /\ pte[page].frame \in Frames /\ pte[page].frame + size <= NumFrames
         /\ \A v \in Pages : page <= v /\ v < page + size =>
              pte[v].frame = pte[page].frame + (v - page)
<1>1. page \in Nat
  BY DEF Pages, PageRange
<1>2. \A v : v \in PageRange(page, page + size) <=> v \in Int /\ page <= v /\ v < page + size
  BY <1>1 DEF PageRange
<1>3. \A v \in Pages : v \in Int /\ pte[v].frame \in Frames
  BY DEF IInv, TypeOK, Entry, Pages, PageRange
<1>4. \A v \in PageRange(page, page + size) : v \in Pages /\ pte[v].frame = pte[page].frame + (v - page)
  BY DEF Consecutive
<1>5. PICK last \in Int : last = page + size - 1
  BY <1>1
<1>6. last \in Pages /\ pte[last].frame = pte[page].frame + (last - page)
  BY <1>1, <1>2, <1>4, <1>5
<1>7. pte[page].frame + size <= NumFrames
  BY <1>1, <1>3, <1>5, <1>6, SizesAssumption DEF Frames, PageRange
<1> QED
  BY <1>2, <1>3, <1>4, <1>7

-----------------------------------------------------------------------------
LEMMA InitIInv == Init => IInv
<1> SUFFICES ASSUME Init PROVE IInv
  OBVIOUS
<1>1. Frames \subseteq Pages
  BY SizesAssumption DEF Frames, Pages, PageRange
<1>2. 0 \in Frames
  BY SizesAssumption DEF Frames, PageRange
<1>3. TypeOK
  <2>1. physical \in [Frames -> RangeState]
    BY DEF Init, RangeState
  <2>2. virtual \in [Pages -> RangeState]
    BY DEF Init, RangeState
  <2>3. pte \in [Pages -> Entry]
    BY <1>2, BootAssumption DEF Init, Entry
  <2> QED
    BY <2>1, <2>2, <2>3 DEF TypeOK, Init
<1>4. \A v \in Pages : pte[v].present =>
        /\ v \in BootReserved \cup BootUsed /\ pte[v].frame = v
  BY DEF Init
<1>5. MappedIsNotFree
  BY <1>4, BootAssumption DEF MappedIsNotFree, Init, Free, Reserved, Used
<1>6. NoSharedFrames
  BY <1>4 DEF NoSharedFrames
<1> QED
  BY <1>3, <1>5, <1>6 DEF IInv, NoAssertionFires, RegionsIntact, GoneInSpans, Init

-----------------------------------------------------------------------------
(* Mapping new frames: free ones (VirtualAlloc, mmap at an address, the    *)
(* heap) or reserved ones (PhysicalAlloc), at whatever pages.              *)

\* What MapPages does to pages that get such frames.
FreshEffect(page, frame, size, privilege) ==
  /\ asserted' = FALSE
  /\ physical' \in [Frames -> RangeState]
  /\ virtual' \in [Pages -> RangeState]
  /\ pte' \in [Pages -> Entry]
  /\ MappedIsNotFree' /\ NoSharedFrames'
  /\ \A v \in Pages : page <= v /\ v < page + size =>
       /\ pte'[v].present /\ pte'[v].frame = frame + (v - page)
       /\ pte'[v].user = (privilege = User)
       /\ virtual[v] # Reserved => virtual'[v] = Used
  /\ \A v \in Pages : ~(page <= v /\ v < page + size) =>
       pte'[v] = pte[v] /\ virtual'[v] = virtual[v]

LEMMA FreshFrames ==
  ASSUME IInv, ~astray, ~asserted,
         NEW page \in Pages, NEW frame \in Frames, NEW size \in Nat \ {0},
         page + size <= NumPages, frame + size <= NumFrames,
         NEW privilege \in PrivilegeLevel,
         \A f \in Frames : frame <= f /\ f < frame + size => physical[f] \in {Free, Reserved},
         MapPages(page, frame, size, privilege, Used)
  PROVE  FreshEffect(page, frame, size, privilege)
<1> DEFINE In(v) == page <= v /\ v < page + size
<1>1. /\ asserted' = asserted
      /\ physical' \in [Frames -> RangeState]
      /\ virtual' \in [Pages -> RangeState]
      /\ pte' \in [Pages -> Entry]
      /\ \A f \in Frames :
           physical'[f] = IF frame <= f /\ f < frame + size /\ physical[f] # Reserved
                          THEN Used ELSE physical[f]
      /\ \A v \in Pages :
           virtual'[v] = IF In(v) /\ virtual[v] # Reserved THEN Used ELSE virtual[v]
      /\ \A v \in Pages : In(v) =>
           /\ frame + (v - page) \in Frames
           /\ pte'[v] = NewEntry(pte[v], frame + (v - page), privilege, Used)
      /\ \A v \in Pages : ~In(v) => pte'[v] = pte[v]
  BY MapPagesEffect DEF IInv, RangeState
<1>2. /\ Pages \subseteq Int /\ Frames \subseteq Int
      /\ Free # Reserved /\ Free # Used /\ Used # Reserved
  BY SizesAssumption DEF Pages, Frames, PageRange, Free, Reserved, Used
<1>3. \A v \in Pages : pte[v].present =>
        /\ virtual[v] # Free
        /\ pte[v].frame \in Frames /\ physical[pte[v].frame] # Free
  BY DEF IInv, MappedIsNotFree, TypeOK, Entry
<1>4. \A v \in Pages : In(v) =>
        /\ pte'[v].present /\ pte'[v].frame = frame + (v - page)
        /\ pte'[v].user = (privilege = User)
        /\ virtual'[v] # Free
        /\ virtual[v] # Reserved => virtual'[v] = Used
  <2>1. privilege # Keep
    BY DEF PrivilegeLevel, Kernel, User, Keep
  <2>2. \A old, f : LET e == NewEntry(old, f, privilege, Used)
                    IN  e.present /\ e.frame = f /\ e.user = (privilege = User)
    BY <2>1, <1>2 DEF NewEntry
  <2>3. \A v \in Pages : In(v) => virtual'[v] # Free /\ (virtual[v] # Reserved => virtual'[v] = Used)
    BY <1>1, <1>2
  <2> QED
    BY <2>2, <2>3, <1>1
<1>5. \A f \in Frames : /\ physical[f] = Reserved => physical'[f] = Reserved
                        /\ physical[f] # Free => physical'[f] # Free
                        /\ frame <= f /\ f < frame + size => physical'[f] # Free
  BY <1>1, <1>2
<1>6. MappedIsNotFree'
  <2> SUFFICES ASSUME NEW v \in Pages, pte'[v].present
               PROVE  virtual'[v] # Free /\ physical'[pte'[v].frame] # Free
    BY DEF MappedIsNotFree
  <2>1. CASE In(v)
    BY <2>1, <1>1, <1>2, <1>4, <1>5
  <2>2. CASE ~In(v)
    BY <2>2, <1>1, <1>3, <1>5
  <2> QED
    BY <2>1, <2>2
<1>7. NoSharedFrames'
  <2> SUFFICES ASSUME NEW u \in Pages, NEW v \in Pages, pte'[u].present, pte'[v].present,
                      pte'[u].frame = pte'[v].frame, u # v
               PROVE  physical'[pte'[u].frame] = Reserved
    BY DEF NoSharedFrames
  <2>1. CASE In(u) /\ In(v)
    BY <2>1, <1>2, <1>4
  <2>2. CASE ~In(u) /\ ~In(v)
    BY <2>2, <1>1, <1>3, <1>5 DEF IInv, NoSharedFrames
  <2>3. ASSUME NEW x \in Pages, NEW y \in Pages, In(x), ~In(y),
               pte'[y].present, pte'[x].frame = pte'[y].frame
        PROVE  physical'[pte'[x].frame] = Reserved
    <3>1. pte[y].present /\ pte'[x].frame = pte[y].frame
      BY <2>3, <1>1
    <3>2. frame <= pte[y].frame /\ pte[y].frame < frame + size
      BY <3>1, <2>3, <1>2, <1>4
    <3>3. physical[pte[y].frame] = Reserved
      BY <3>1, <3>2, <1>3
    <3> QED
      BY <3>1, <3>3, <1>3, <1>5
  <2> QED
    BY <2>1, <2>2, <2>3
<1> QED
  BY <1>1, <1>4, <1>6, <1>7 DEF FreshEffect

\* At pages that were free, for a caller that holds them from now on.
LEMMA MapFresh ==
  ASSUME IInv, ~astray, ~asserted,
         NEW page \in Pages, NEW frame \in Frames, NEW size \in Nat \ {0},
         page + size <= NumPages, frame + size <= NumFrames,
         NEW privilege \in PrivilegeLevel, NEW offset \in 0 .. SpanSize,
         \A v \in Pages : page <= v /\ v < page + size => virtual[v] = Free,
         \A f \in Frames : frame <= f /\ f < frame + size => physical[f] \in {Free, Reserved},
         MapPages(page, frame, size, privilege, Used),
         regions' = regions \cup {Given(page, frame, size, privilege, offset)},
         UNCHANGED history
  PROVE  IInv'
<1>1. /\ asserted' = FALSE
      /\ physical' \in [Frames -> RangeState]
      /\ virtual' \in [Pages -> RangeState]
      /\ pte' \in [Pages -> Entry]
      /\ MappedIsNotFree' /\ NoSharedFrames'
      /\ \A v \in Pages : page <= v /\ v < page + size =>
           /\ pte'[v].present /\ pte'[v].frame = frame + (v - page)
           /\ pte'[v].user = (privilege = User)
           /\ virtual[v] # Reserved => virtual'[v] = Used
      /\ \A v \in Pages : ~(page <= v /\ v < page + size) =>
           pte'[v] = pte[v] /\ virtual'[v] = virtual[v]
  <2>1. FreshEffect(page, frame, size, privilege)
    BY FreshFrames
  <2> QED
    BY <2>1 DEF FreshEffect
<1> DEFINE In(v) == page <= v /\ v < page + size
<1>2. Free # Reserved /\ Free # Used
  BY DEF Free, Reserved, Used
<1>3. PICK new : new = Given(page, frame, size, privilege, offset)
  OBVIOUS
<1>4. /\ new.base = page /\ new.size = size /\ new.frame = frame
      /\ new.privilege = privilege /\ new.offset = offset /\ new.gone = {}
  BY <1>3 DEF Given
<1>5. new \in Region
  BY <1>3, SizesAssumption DEF Given, Region, Pages, PageRange
<1>6. \A r \in regions' : r \in regions \/ r = new
  BY <1>3
<1>7. /\ \A v \in PagesOf(new) : v \in Pages /\ In(v)
      /\ new.base + new.size <= NumPages
  BY <1>4, SizesAssumption DEF PagesOf, PageRange, Pages
<1>8. TypeOK'
  BY <1>1, <1>3, <1>5 DEF TypeOK, IInv, history
<1>9. \A r \in regions : \A v \in PagesOf(r) :
        v \in Pages /\ ~In(v) /\ pte'[v] = pte[v] /\ virtual'[v] = virtual[v]
  <2> TAKE r \in regions
  <2>1. \A v \in PagesOf(r) : v \in Pages /\ virtual[v] = Used
    BY RegionIs
  <2> QED
    BY <2>1, <1>1, <1>2
<1>10. RegionsIntact'
  <2>1. \A r \in regions' :
          /\ r.base + r.size <= NumPages
          /\ \A v \in PagesOf(r) :
               pte'[v].present /\ pte'[v].user = (r.privilege = User) /\ virtual'[v] = Used
    <3> TAKE r \in regions'
    <3>1. CASE r \in regions
      <4>1. /\ r.base + r.size <= NumPages
            /\ \A v \in PagesOf(r) :
                 pte[v].present /\ pte[v].user = (r.privilege = User) /\ virtual[v] = Used
        BY <3>1, RegionIs
      <4> QED
        BY <3>1, <4>1, <1>9
    <3>2. CASE r = new
      BY <3>2, <1>1, <1>2, <1>4, <1>7
    <3> QED
      BY <3>1, <3>2, <1>6
  <2>2. \A r, q \in regions' : r # q => PagesOf(r) \cap PagesOf(q) = {}
    <3>1. \A r, q \in regions : r # q => PagesOf(r) \cap PagesOf(q) = {}
      BY DEF IInv, RegionsIntact
    <3>2. \A r \in regions : PagesOf(r) \cap PagesOf(new) = {}
      BY <1>7, <1>9
    <3> QED
      BY <3>1, <3>2, <1>6
  <2>3. \A r \in regions' : \A v \in PagesOf(r) :
          \/ pte'[v].frame = r.frame + (v - r.base)
          \/ r.privilege = User /\ r.frame + (v - r.base) \in orphaned
    <3> TAKE r \in regions'
    <3>1. CASE r \in regions
      <4>1. \A v \in PagesOf(r) :
              \/ pte[v].frame = r.frame + (v - r.base)
              \/ r.privilege = User /\ r.frame + (v - r.base) \in orphaned
        BY <3>1 DEF IInv, RegionsIntact
      <4> QED
        BY <3>1, <4>1, <1>9
    <3>2. CASE r = new
      BY <3>2, <1>1, <1>4, <1>7
    <3> QED
      BY <3>1, <3>2, <1>6
  <2> QED
    BY <2>1, <2>2, <2>3 DEF RegionsIntact, PagesOf, history
<1>11. GoneInSpans'
  BY <1>4, <1>6 DEF GoneInSpans, SpanStart, IInv
<1> QED
  BY <1>1, <1>8, <1>10, <1>11 DEF IInv, NoAssertionFires

-----------------------------------------------------------------------------
(* What the ways to allocate have in common.                               *)

\* The aligned part of a padded block begins inside the padding.
LEMMA OffsetIs ==
  ASSUME NEW page \in Nat, NEW padding \in {0, SpanSize}
  PROVE  Offset(page, padding) \in 0 .. SpanSize
<1>1. SpanSize \in Nat \ {0}
  BY SpanAssumption
<1>2. page % SpanSize \in 0 .. SpanSize - 1
  BY <1>1
<1> QED
  BY <1>1, <1>2 DEF Offset

\* Every allocation finds free pages, and frames that nobody maps.
LEMMA AllocationIsFresh ==
  ASSUME IInv, NEW size \in Nat \ {0}, NEW privilege \in PrivilegeLevel,
         \/ \E padding \in {0, SpanSize} : Allocate(size, privilege, padding)
         \/ \E frame \in Frames : PhysicalAlloc(frame, size, privilege)
  PROVE  \E page \in Pages, frame \in Frames, offset \in 0 .. SpanSize :
           /\ page + size <= NumPages /\ frame + size <= NumFrames
           /\ \A v \in Pages : page <= v /\ v < page + size => virtual[v] = Free
           /\ \A f \in Frames : frame <= f /\ f < frame + size => physical[f] \in {Free, Reserved}
           /\ MapPages(page, frame, size, privilege, Used)
           /\ regions' = regions \cup {Given(page, frame, size, privilege, offset)}
           /\ UNCHANGED history
<1>1. ASSUME NEW padding \in {0, SpanSize}, Allocate(size, privilege, padding)
      PROVE  \E page \in Pages, frame \in Frames, offset \in 0 .. SpanSize :
               /\ page + size <= NumPages /\ frame + size <= NumFrames
               /\ \A v \in Pages : page <= v /\ v < page + size => virtual[v] = Free
               /\ \A f \in Frames : frame <= f /\ f < frame + size => physical[f] \in {Free, Reserved}
               /\ MapPages(page, frame, size, privilege, Used)
               /\ regions' = regions \cup {Given(page, frame, size, privilege, offset)}
               /\ UNCHANGED history
  <2>1. PICK frame \in FindResults(physical, size) \ {0},
             page \in FindResults(virtual, size) \ {0} :
               /\ MapPages(page, frame, size, privilege, Used)
               /\ regions' = regions \cup
                    {Given(page, frame, size, privilege, Offset(page, padding))}
               /\ UNCHANGED history
    BY <1>1 DEF Allocate
  <2>2. /\ frame \in Frames /\ frame + size <= NumFrames
        /\ \A f \in PageRange(frame, frame + size) : f \in Frames /\ physical[f] = Free
    BY FrameSearch DEF IInv, TypeOK
  <2>3. /\ page \in Pages /\ page + size <= NumPages
        /\ \A v \in PageRange(page, page + size) : v \in Pages /\ virtual[v] = Free
    BY PageSearch DEF IInv, TypeOK
  <2>4. \A f \in Frames : frame <= f /\ f < frame + size => physical[f] \in {Free, Reserved}
    BY <2>2, SizesAssumption DEF Frames, PageRange
  <2>5. \A v \in Pages : page <= v /\ v < page + size => virtual[v] = Free
    BY <2>3, SizesAssumption DEF Pages, PageRange
  <2>6. PICK offset \in 0 .. SpanSize : offset = Offset(page, padding)
    BY <2>3, OffsetIs DEF Pages, PageRange
  <2> QED
    BY <2>1, <2>2, <2>3, <2>4, <2>5, <2>6
<1>2. ASSUME NEW frame \in Frames, PhysicalAlloc(frame, size, privilege)
      PROVE  \E page \in Pages, offset \in 0 .. SpanSize :
               /\ page + size <= NumPages /\ frame + size <= NumFrames
               /\ \A v \in Pages : page <= v /\ v < page + size => virtual[v] = Free
               /\ \A f \in Frames : frame <= f /\ f < frame + size => physical[f] \in {Free, Reserved}
               /\ MapPages(page, frame, size, privilege, Used)
               /\ regions' = regions \cup {Given(page, frame, size, privilege, offset)}
               /\ UNCHANGED history
  <2>1. PICK page \in FindResults(virtual, size) \ {0} :
          /\ MapPages(page, frame, size, privilege, Used)
          /\ regions' = regions \cup {Given(page, frame, size, privilege, 0)}
          /\ UNCHANGED history
    BY <1>2 DEF PhysicalAlloc
  <2>2. \A f \in PageRange(frame, frame + size) : f \in Frames /\ physical[f] = Reserved
    BY <1>2 DEF PhysicalAlloc
  <2>3. frame + size - 1 \in Frames
    BY <2>2, SizesAssumption DEF Frames, PageRange
  <2>4. frame + size <= NumFrames
    BY <2>3, SizesAssumption DEF Frames, PageRange
  <2>5. /\ page \in Pages /\ page + size <= NumPages
        /\ \A v \in PageRange(page, page + size) : v \in Pages /\ virtual[v] = Free
    BY PageSearch DEF IInv, TypeOK
  <2>6. \A f \in Frames : frame <= f /\ f < frame + size => physical[f] \in {Free, Reserved}
    BY <2>2, SizesAssumption DEF Frames, PageRange
  <2>7. \A v \in Pages : page <= v /\ v < page + size => virtual[v] = Free
    BY <2>5, SizesAssumption DEF Pages, PageRange
  <2>8. 0 \in 0 .. SpanSize
    BY SpanAssumption
  <2> QED
    BY <2>1, <2>4, <2>5, <2>6, <2>7, <2>8
<1> QED
  BY <1>1, <1>2

\* The allocations of Next are such.
LEMMA NextAllocates ==
  ASSUME NEW size \in Sizes,
         \/ \E privilege \in PrivilegeLevel : VirtualAlloc(size, privilege)
         \/ \E frame \in Frames : PhysicalAlloc(frame, size, Kernel)
         \/ RPMallocMap(size)
  PROVE  \E n \in Nat \ {0}, privilege \in PrivilegeLevel :
           \/ \E padding \in {0, SpanSize} : Allocate(n, privilege, padding)
           \/ \E frame \in Frames : PhysicalAlloc(frame, n, privilege)
<1>1. size \in Nat \ {0} /\ SpanSize \in Nat
  BY SizesAskedAssumption, SizesAssumption, SpanAssumption
<1>2. Kernel \in PrivilegeLevel
  BY DEF PrivilegeLevel
<1>3. CASE RPMallocMap(size)
  <2>1. PICK padding \in {0, SpanSize} : Allocate(size + padding, Kernel, padding)
    BY <1>3 DEF RPMallocMap
  <2>2. PICK n \in Nat \ {0} : n = size + padding
    BY <1>1
  <2> QED
    BY <1>2, <2>1, <2>2
<1> QED
  BY <1>1, <1>2, <1>3 DEF VirtualAlloc

-----------------------------------------------------------------------------
(* mmap at an address.                                                     *)

LEMMA MemoryMapStep ==
  ASSUME IInv, ~astray, ~asserted,
         NEW page \in Pages, NEW size \in Nat \ {0}, MemoryMap(page, size)
  PROVE  IInv'
<1> DEFINE In(v) == page <= v /\ v < page + size
<1>1. \A v \in PageRange(page, page + size) :
        \E r \in regions : r.privilege = User /\ v \in PagesOf(r)
  BY DEF MemoryMap
<1>2. /\ page \in Nat /\ page + size <= NumPages
      /\ \A v \in Pages : v \in PageRange(page, page + size) <=> In(v)
      /\ PageRange(page, page + size) \subseteq Pages
  BY <1>1, RangeIs
<1>3. /\ orphaned' = orphaned \cup {pte[v].frame : v \in PageRange(page, page + size)}
      /\ regions' = regions /\ abandoned' = abandoned
  BY DEF MemoryMap
<1>4. PICK frame \in FindResults(physical, size) :
        MapPages(page, frame, size, User, Used) /\ astray' = (astray \/ frame = 0)
  BY DEF MemoryMap
<1>5. \A v \in Pages : pte[v].frame \in Frames
  BY DEF IInv, TypeOK, Entry
<1>6. orphaned' \subseteq Frames
  BY <1>2, <1>3, <1>5 DEF IInv, TypeOK
<1>7. astray' \in BOOLEAN
  BY <1>4
\* Whatever frames are found, the pages are a user's afterwards.
<1>8. /\ asserted' \in BOOLEAN
      /\ physical' \in [Frames -> RangeState]
      /\ virtual' \in [Pages -> RangeState]
      /\ pte' \in [Pages -> Entry]
      /\ \A v \in Pages : ~In(v) => pte'[v] = pte[v] /\ virtual'[v] = virtual[v]
      /\ \A v \in Pages : In(v) =>
           \/ pte'[v] = pte[v] /\ virtual'[v] = virtual[v]
           \/ /\ \E f \in Frames : pte'[v] = NewEntry(pte[v], f, User, Used)
              /\ virtual'[v] = IF virtual[v] # Reserved THEN Used ELSE virtual[v]
  <2>1. 0 \in Frames
    BY SizesAssumption DEF Frames, PageRange
  <2>2. frame \in Frames
    BY <2>1 DEF FindResults, IInv, TypeOK
  <2>3. Used \in RangeState
    BY DEF RangeState
  <2>4. TypeOK
    BY DEF IInv
  <2> QED
    BY <1>2, <1>4, <2>2, <2>3, <2>4, MapPagesAnyway
<1>9. TypeOK'
  BY <1>3, <1>6, <1>7, <1>8 DEF TypeOK, IInv
<1>10. ASSUME NEW r \in regions
       PROVE  /\ r.base + r.size <= NumPages
              /\ \A v \in PagesOf(r) :
                   pte'[v].present /\ pte'[v].user = (r.privilege = User) /\ virtual'[v] = Used
  <2>1. /\ r.base + r.size <= NumPages
        /\ \A v \in PagesOf(r) :
             /\ v \in Pages
             /\ pte[v].present /\ pte[v].user = (r.privilege = User) /\ virtual[v] = Used
    BY RegionIs
  <2>2. \A old, f : LET e == NewEntry(old, f, User, Used) IN e.present /\ e.user = TRUE
    BY DEF NewEntry, Used, Free
  <2>3. Used # Reserved
    BY DEF Used, Reserved
  <2>4. ASSUME NEW v \in PagesOf(r), In(v)
        PROVE  pte'[v].present /\ pte'[v].user = (r.privilege = User) /\ virtual'[v] = Used
    <3>1. PICK q \in regions : q.privilege = User /\ v \in PagesOf(q)
      BY <1>1, <1>2, <2>1, <2>4
    <3>2. q = r
      BY <3>1 DEF IInv, RegionsIntact
    <3> QED
      <4>1. v \in Pages /\ pte[v].present /\ pte[v].user = (r.privilege = User) /\ virtual[v] = Used
        BY <2>1
      <4>2. CASE pte'[v] = pte[v] /\ virtual'[v] = virtual[v]
        BY <4>1, <4>2
      <4>3. CASE /\ \E f \in Frames : pte'[v] = NewEntry(pte[v], f, User, Used)
                 /\ virtual'[v] = IF virtual[v] # Reserved THEN Used ELSE virtual[v]
        <5>1. pte'[v].present /\ pte'[v].user = TRUE
          BY <4>3, <2>2
        <5>2. virtual'[v] = Used
          BY <4>1, <4>3
        <5>3. (r.privilege = User) = TRUE
          BY <3>1, <3>2
        <5> QED
          BY <5>1, <5>2, <5>3
      <4> QED
        BY <1>8, <2>4, <4>1, <4>2, <4>3
  <2> QED
    BY <1>8, <2>1, <2>4
<1>11. \A r, q \in regions : r # q => PagesOf(r) \cap PagesOf(q) = {}
  BY DEF IInv, RegionsIntact
<1>12. GoneInSpans'
  BY <1>3 DEF IInv, GoneInSpans, SpanStart
<1>13. CASE frame = 0
  <2>1. astray'
    BY <1>4, <1>13
  <2> QED
    BY <2>1, <1>3, <1>9, <1>10, <1>11, <1>12
       DEF IInv, NoAssertionFires, MappedIsNotFree, NoSharedFrames, RegionsIntact, PagesOf
<1>14. CASE frame # 0
  <2>1. /\ frame \in Frames /\ frame + size <= NumFrames
        /\ \A f \in PageRange(frame, frame + size) : f \in Frames /\ physical[f] = Free
    BY <1>14, FrameSearch DEF IInv, TypeOK
  <2>2. \A f \in Frames : frame <= f /\ f < frame + size => physical[f] \in {Free, Reserved}
    BY <2>1, SizesAssumption DEF Frames, PageRange
  <2>3. PICK privilege \in PrivilegeLevel : MapPages(page, frame, size, privilege, Used)
    BY <1>4 DEF PrivilegeLevel
  <2>4. /\ asserted' = FALSE
        /\ MappedIsNotFree' /\ NoSharedFrames'
        /\ \A v \in Pages : ~In(v) => pte'[v] = pte[v] /\ virtual'[v] = virtual[v]
    <3>1. FreshEffect(page, frame, size, privilege)
      BY <1>2, <2>1, <2>2, <2>3, FreshFrames
    <3> QED
      BY <3>1 DEF FreshEffect
  <2>5. \A r \in regions : \A v \in PagesOf(r) :
          \/ pte'[v].frame = r.frame + (v - r.base)
          \/ r.privilege = User /\ r.frame + (v - r.base) \in orphaned'
    <3> SUFFICES ASSUME NEW r \in regions, NEW v \in PagesOf(r)
                 PROVE  \/ pte'[v].frame = r.frame + (v - r.base)
                        \/ r.privilege = User /\ r.frame + (v - r.base) \in orphaned'
      OBVIOUS
    <3>1. v \in Pages
      BY RegionIs
    <3>2. \/ pte[v].frame = r.frame + (v - r.base)
          \/ r.privilege = User /\ r.frame + (v - r.base) \in orphaned
      BY DEF IInv, RegionsIntact
    <3>3. CASE ~In(v)
      BY <1>3, <2>4, <3>1, <3>2, <3>3
    <3>4. CASE In(v)
      <4>1. PICK q \in regions : q.privilege = User /\ v \in PagesOf(q)
        BY <1>1, <1>2, <3>1, <3>4
      <4>2. q = r
        BY <4>1 DEF IInv, RegionsIntact
      <4>3. pte[v].frame \in orphaned'
        BY <1>2, <1>3, <3>1, <3>4
      <4> QED
        BY <1>3, <3>2, <4>1, <4>2, <4>3
    <3> QED
      BY <3>3, <3>4
  <2> QED
    BY <2>4, <2>5, <1>3, <1>9, <1>10, <1>11, <1>12
       DEF IInv, NoAssertionFires, RegionsIntact, PagesOf
<1> QED
  BY <1>13, <1>14

-----------------------------------------------------------------------------
(* Giving back.  The pages unmapped are all held in one region, of which   *)
(* the rest is kept (a heap block) or let go.                              *)

Shrunk(r, page, size) == [r EXCEPT !.gone = @ \cup PageRange(page, page + size)]

LEMMA ShrunkIs ==
  ASSUME IInv, NEW r \in regions, NEW page, NEW size, PageRange(page, page + size) \subseteq Pages,
         NEW q, q = Shrunk(r, page, size)
  PROVE  /\ q \in Region /\ q.base = r.base /\ q.size = r.size /\ q.frame = r.frame
         /\ q.privilege = r.privilege /\ q.offset = r.offset
         /\ q.gone = r.gone \cup PageRange(page, page + size)
         /\ PagesOf(q) = PagesOf(r) \ PageRange(page, page + size)
<1>1. r \in [base : Pages, size : 1 .. NumPages, frame : Frames,
             privilege : PrivilegeLevel, offset : 0 .. SpanSize, gone : SUBSET Pages]
  BY DEF IInv, TypeOK, Region
<1>2. PICK G \in SUBSET Pages : G = r.gone \cup PageRange(page, page + size)
  BY <1>1
<1>3. q = [r EXCEPT !.gone = G]
  BY <1>2 DEF Shrunk
<1>4. /\ q \in Region /\ q.base = r.base /\ q.size = r.size /\ q.frame = r.frame
      /\ q.privilege = r.privilege /\ q.offset = r.offset /\ q.gone = G
  BY <1>1, <1>3 DEF Region
<1>5. PagesOf(q) = PagesOf(r) \ PageRange(page, page + size)
  BY <1>2, <1>4 DEF PagesOf
<1> QED
  BY <1>2, <1>4, <1>5

\* Whatever frames are freed, no page that is still held is touched.
LEMMA UnmapKeepsRegions ==
  ASSUME IInv, ~astray, ~asserted,
         NEW r \in regions, NEW page \in Pages, NEW size \in Nat \ {0},
         PageRange(page, page + size) \subseteq PagesOf(r),
         Unmap(page, size),
         \A q \in regions' : q \in regions \ {r} \/ q = Shrunk(r, page, size),
         orphaned' = orphaned, abandoned' \subseteq Pages
  PROVE  /\ TypeOK'
         /\ \A q \in regions' :
              /\ q.base + q.size <= NumPages
              /\ \A v \in PagesOf(q) :
                   /\ v \in Pages /\ ~(page <= v /\ v < page + size)
                   /\ pte'[v] = pte[v]
                   /\ pte'[v].present /\ pte'[v].user = (q.privilege = User) /\ virtual'[v] = Used
                   /\ \/ pte'[v].frame = q.frame + (v - q.base)
                      \/ q.privilege = User /\ q.frame + (v - q.base) \in orphaned'
         /\ \A p, q \in regions' : p # q => PagesOf(p) \cap PagesOf(q) = {}
<1> DEFINE In(v) == page <= v /\ v < page + size
<1>1. /\ page \in Nat /\ page + size <= NumPages
      /\ GetPhysicalAddress(page) = pte[page].frame /\ pte[page].frame \in Frames
      /\ \A v \in Pages : v \in PageRange(page, page + size) <=> In(v)
      /\ PageRange(page, page + size) \subseteq Pages
  BY RangeIs
<1>2. MapPages(page, pte[page].frame, size, Kernel, Free) /\ astray' \in BOOLEAN
  BY <1>1 DEF Unmap
<1>3. /\ asserted' \in BOOLEAN
      /\ physical' \in [Frames -> RangeState]
      /\ virtual' \in [Pages -> RangeState]
      /\ pte' \in [Pages -> Entry]
      /\ \A v \in Pages : ~In(v) => pte'[v] = pte[v] /\ virtual'[v] = virtual[v]
  <2>1. TypeOK /\ Free \in RangeState
    BY DEF IInv, RangeState
  <2> QED
    BY <1>1, <1>2, <2>1, MapPagesAnyway
<1>4. PICK s : s = Shrunk(r, page, size)
  OBVIOUS
<1>5. /\ s \in Region /\ s.base = r.base /\ s.size = r.size /\ s.frame = r.frame
      /\ s.privilege = r.privilege
      /\ PagesOf(s) = PagesOf(r) \ PageRange(page, page + size)
  BY <1>1, <1>4, ShrunkIs
<1>6. \A q \in regions' : q \in Region
  BY <1>4, <1>5 DEF IInv, TypeOK
<1>7. TypeOK'
  BY <1>2, <1>3, <1>6 DEF TypeOK, IInv
<1>8. ASSUME NEW q \in regions'
      PROVE  \E o \in regions :
               /\ q.base = o.base /\ q.size = o.size /\ q.frame = o.frame /\ q.privilege = o.privilege
               /\ PagesOf(q) \subseteq PagesOf(o)
               /\ \A v \in PagesOf(q) : v \notin PageRange(page, page + size)
               /\ (o # r /\ q = o) \/ (o = r /\ q = s)
  <2>1. CASE q \in regions \ {r}
    <3>1. PagesOf(q) \cap PagesOf(r) = {}
      BY <2>1 DEF IInv, RegionsIntact
    <3> QED
      BY <2>1, <3>1
  <2>2. CASE q = s
    BY <2>2, <1>5
  <2> QED
    BY <1>4, <2>1, <2>2
<1>9. ASSUME NEW q \in regions'
      PROVE  /\ q.base + q.size <= NumPages
             /\ \A v \in PagesOf(q) :
                  /\ v \in Pages /\ ~In(v)
                  /\ pte'[v] = pte[v]
                  /\ pte'[v].present /\ pte'[v].user = (q.privilege = User) /\ virtual'[v] = Used
                  /\ \/ pte'[v].frame = q.frame + (v - q.base)
                     \/ q.privilege = User /\ q.frame + (v - q.base) \in orphaned'
  <2>1. PICK o \in regions :
          /\ q.base = o.base /\ q.size = o.size /\ q.frame = o.frame /\ q.privilege = o.privilege
          /\ PagesOf(q) \subseteq PagesOf(o)
          /\ \A v \in PagesOf(q) : v \notin PageRange(page, page + size)
    BY <1>8
  <2>2. /\ o.base + o.size <= NumPages
        /\ \A v \in PagesOf(o) :
             /\ v \in Pages
             /\ pte[v].present /\ pte[v].user = (o.privilege = User) /\ virtual[v] = Used
    BY RegionIs
  <2>3. \A v \in PagesOf(o) : \/ pte[v].frame = o.frame + (v - o.base)
                              \/ o.privilege = User /\ o.frame + (v - o.base) \in orphaned
    BY RegionFrames
  <2>4. \A v \in PagesOf(q) : v \in Pages /\ ~In(v) /\ pte'[v] = pte[v] /\ virtual'[v] = virtual[v]
    BY <1>1, <1>3, <2>1, <2>2
  <2> QED
    BY <2>1, <2>2, <2>3, <2>4
<1>10. ASSUME NEW p \in regions', NEW q \in regions', p # q
       PROVE  PagesOf(p) \cap PagesOf(q) = {}
  <2>1. PICK o1 \in regions : PagesOf(p) \subseteq PagesOf(o1) /\ ((o1 # r /\ p = o1) \/ (o1 = r /\ p = s))
    BY <1>8
  <2>2. PICK o2 \in regions : PagesOf(q) \subseteq PagesOf(o2) /\ ((o2 # r /\ q = o2) \/ (o2 = r /\ q = s))
    BY <1>8
  <2>3. o1 # o2
    BY <1>10, <2>1, <2>2
  <2>4. PagesOf(o1) \cap PagesOf(o2) = {}
    BY <2>3 DEF IInv, RegionsIntact
  <2> QED
    BY <2>1, <2>2, <2>4
<1> QED
  BY <1>7, <1>9, <1>10

\* If the frames are the pages', they are freed with them and no others.
LEMMA UnmapFrees ==
  ASSUME IInv, ~astray, ~asserted,
         NEW r \in regions, NEW page \in Pages, NEW size \in Nat \ {0},
         PageRange(page, page + size) \subseteq PagesOf(r),
         Unmap(page, size), Consecutive(page, size)
  PROVE  /\ asserted' = FALSE
         /\ MappedIsNotFree' /\ NoSharedFrames'
         /\ \A v \in Pages : page <= v /\ v < page + size =>
              /\ virtual'[v] # Used
              /\ pte[v].frame \in Frames /\ physical'[pte[v].frame] # Used
         /\ \A v \in Pages : ~(page <= v /\ v < page + size) =>
              pte'[v] = pte[v] /\ virtual'[v] = virtual[v]
         /\ \A f \in Frames : physical'[f] = Used => physical[f] = Used
<1> DEFINE In(v) == page <= v /\ v < page + size
<1>1. /\ page \in Nat /\ page + size <= NumPages
      /\ GetPhysicalAddress(page) = pte[page].frame
      /\ \A v \in Pages : v \in PageRange(page, page + size) <=> In(v)
  BY RangeIs
<1>2. PICK frame \in Frames : frame = pte[page].frame
  BY RangeIs
<1>3. /\ frame + size <= NumFrames
      /\ \A v \in Pages : In(v) => pte[v].frame = frame + (v - page)
  BY <1>2, ConsecutiveFrames
<1>4. MapPages(page, frame, size, Kernel, Free)
  BY <1>1, <1>2 DEF Unmap
<1>5. /\ asserted' = asserted
      /\ \A f \in Frames :
           physical'[f] = IF frame <= f /\ f < frame + size /\ physical[f] # Reserved
                          THEN Free ELSE physical[f]
      /\ \A v \in Pages :
           virtual'[v] = IF In(v) /\ virtual[v] # Reserved THEN Free ELSE virtual[v]
      /\ \A v \in Pages : In(v) =>
           pte'[v] = NewEntry(pte[v], frame + (v - page), Kernel, Free)
      /\ \A v \in Pages : ~In(v) => pte'[v] = pte[v]
  <2>1. TypeOK /\ Free \in RangeState
    BY DEF IInv, RangeState
  <2> QED
    BY <1>1, <1>3, <1>4, <2>1, MapPagesEffect
<1>6. /\ Pages \subseteq Nat /\ Frames \subseteq Nat
      /\ Free # Reserved /\ Free # Used /\ Used # Reserved
  BY SizesAssumption DEF Pages, Frames, PageRange, Free, Reserved, Used
<1>7. \A v \in Pages : In(v) => ~pte'[v].present
  <2>1. \A old, f : ~NewEntry(old, f, Kernel, Free).present
    BY DEF NewEntry
  <2> QED
    BY <2>1, <1>5
<1>8. \A v \in Pages : pte'[v].present => ~In(v) /\ pte'[v] = pte[v] /\ pte[v].present
  BY <1>5, <1>7
<1>9. \A v \in Pages : In(v) => pte[v].present
  <2>1. \A v \in PagesOf(r) : pte[v].present
    BY RegionIs
  <2> QED
    BY <1>1, <2>1
<1>10. MappedIsNotFree'
  <2> SUFFICES ASSUME NEW v \in Pages, pte'[v].present
               PROVE  virtual'[v] # Free /\ physical'[pte'[v].frame] # Free
    BY DEF MappedIsNotFree
  <2>1. /\ ~In(v) /\ pte'[v] = pte[v] /\ pte[v].present /\ pte[v].frame \in Frames
        /\ virtual[v] # Free /\ physical[pte[v].frame] # Free
    BY <1>8 DEF IInv, MappedIsNotFree, TypeOK, Entry
  <2>2. CASE frame <= pte[v].frame /\ pte[v].frame < frame + size
    \* Another page maps one of the frames freed: then the frame is reserved.
    <3>1. PICK f \in Frames : f = pte[v].frame
      BY <2>1
    <3>2. f \in Int /\ frame \in Int /\ page \in Int /\ size \in Int /\ page >= 0
      BY <1>1, <1>6
    <3>3. frame <= f /\ f < frame + size
      BY <3>1, <2>2
    <3>4. PICK u \in Int : u = page + (f - frame)
      BY <3>2
    <3>5. page <= u /\ u < page + size /\ u - page = f - frame
      BY <3>2, <3>3, <3>4
    <3>6. u \in Pages
      BY <3>2, <3>5, <1>1, SizesAssumption DEF Pages, PageRange
    <3>7. pte[u].present /\ pte[u].frame = frame + (u - page)
      BY <3>5, <3>6, <1>3, <1>9
    <3>8. pte[u].frame = pte[v].frame
      BY <3>1, <3>2, <3>5, <3>7
    <3>9. u # v
      BY <3>5, <2>1
    <3>10. physical[pte[v].frame] = Reserved
      BY <3>6, <3>7, <3>8, <3>9, <2>1 DEF IInv, NoSharedFrames
    <3> QED
      BY <3>10, <2>1, <1>5, <1>6
  <2>3. CASE ~(frame <= pte[v].frame /\ pte[v].frame < frame + size)
    BY <2>1, <2>3, <1>5
  <2> QED
    BY <2>2, <2>3
<1>11. NoSharedFrames'
  <2> SUFFICES ASSUME NEW u \in Pages, NEW v \in Pages, pte'[u].present, pte'[v].present,
                      pte'[u].frame = pte'[v].frame, u # v
               PROVE  physical'[pte'[u].frame] = Reserved
    BY DEF NoSharedFrames
  <2>1. pte[u].frame \in Frames /\ physical[pte[u].frame] = Reserved /\ pte'[u] = pte[u]
    BY <1>8 DEF IInv, NoSharedFrames, TypeOK, Entry
  <2> QED
    BY <2>1, <1>5
<1>12. ASSUME NEW v \in Pages, In(v)
       PROVE  virtual'[v] # Used /\ pte[v].frame \in Frames /\ physical'[pte[v].frame] # Used
  <2>1. pte[v].frame \in Frames
    BY DEF IInv, TypeOK, Entry
  <2>2. frame <= pte[v].frame /\ pte[v].frame < frame + size
    BY <1>1, <1>3, <1>6, <1>12
  <2>3. virtual'[v] # Used
    BY <1>5, <1>6, <1>12
  <2> QED
    BY <1>5, <1>6, <2>1, <2>2, <2>3
<1>13. \A f \in Frames : physical'[f] = Used => physical[f] = Used
  BY <1>5, <1>6
<1>14. \A v \in Pages : ~In(v) => pte'[v] = pte[v] /\ virtual'[v] = virtual[v]
  BY <1>5
<1> QED
  BY <1>5, <1>10, <1>11, <1>12, <1>13, <1>14

LEMMA UnmapStep ==
  ASSUME IInv, ~astray, ~asserted,
         NEW r \in regions, NEW page \in Pages, NEW size \in Nat \ {0},
         PageRange(page, page + size) \subseteq PagesOf(r),
         Unmap(page, size),
         \A q \in regions' : q \in regions \ {r} \/ q = Shrunk(r, page, size),
         orphaned' = orphaned, abandoned' \subseteq Pages, GoneInSpans'
  PROVE  IInv'
<1>1. TypeOK' /\ RegionsIntact'
  BY UnmapKeepsRegions DEF RegionsIntact, PagesOf
<1>2. CASE Consecutive(page, size)
  <2>1. asserted' = FALSE /\ MappedIsNotFree' /\ NoSharedFrames'
    BY <1>2, UnmapFrees
  <2> QED
    BY <1>1, <2>1 DEF IInv, NoAssertionFires
<1>3. CASE ~Consecutive(page, size)
  <2>1. astray'
    BY <1>3 DEF Unmap
  <2> QED
    BY <1>1, <2>1 DEF IInv, NoAssertionFires, MappedIsNotFree, NoSharedFrames
<1> QED
  BY <1>2, <1>3

\* The whole of a region that is no block of spans.
LEMMA WholeRegion ==
  ASSUME IInv, NEW r \in regions, r.offset = 0
  PROVE  /\ r.base \in Pages /\ r.size \in Nat \ {0}
         /\ PageRange(r.base, r.base + r.size) = PagesOf(r)
<1>1. r.gone = {}
  BY RegionIs DEF IInv, GoneInSpans
<1> QED
  BY <1>1, RegionIs DEF PagesOf

LEMMA VirtualFreeStep ==
  ASSUME IInv, ~astray, ~asserted, NEW r \in regions, VirtualFree(r)
  PROVE  IInv'
<1>1. PICK page \in Pages, size \in Nat \ {0} : page = r.base /\ size = r.size
  BY RegionIs
<1>2. PageRange(page, page + size) \subseteq PagesOf(r)
  BY <1>1, WholeRegion DEF VirtualFree
<1>3. /\ Unmap(page, size) /\ regions' = regions \ {r}
      /\ orphaned' = orphaned /\ abandoned' = abandoned
  BY <1>1 DEF VirtualFree
<1>4. abandoned' \subseteq Pages
  BY <1>3 DEF IInv, TypeOK
<1>5. GoneInSpans'
  BY <1>3 DEF IInv, GoneInSpans, SpanStart
<1> QED
  BY <1>2, <1>3, <1>4, <1>5, UnmapStep

LEMMA UnmapSubspansStep ==
  ASSUME IInv, ~astray, ~asserted,
         NEW r \in regions, NEW page \in Pages, NEW size \in Nat \ {0}, UnmapSubspans(r, page, size)
  PROVE  IInv'
<1>1. PageRange(page, page + size) \subseteq PagesOf(r)
  BY DEF UnmapSubspans
<1>2. /\ Unmap(page, size) /\ regions' = (regions \ {r}) \cup {Shrunk(r, page, size)}
      /\ orphaned' = orphaned /\ abandoned' = abandoned
  BY DEF UnmapSubspans, RPMallocUnmap, Shrunk
<1>3. abandoned' \subseteq Pages
  BY <1>2 DEF IInv, TypeOK
<1>4. PICK q : q = Shrunk(r, page, size)
  OBVIOUS
<1>5. PageRange(page, page + size) \subseteq Pages /\ page \in Nat
  BY <1>1, RangeIs
<1>6. /\ q.offset = r.offset /\ q.base = r.base
      /\ q.gone = r.gone \cup PageRange(page, page + size)
  BY <1>4, <1>5, ShrunkIs
<1>7. r.offset # 0 /\ SpanStart(r) < page
  BY DEF UnmapSubspans
<1>8. \A v \in PageRange(page, page + size) : SpanStart(r) <= v
  BY <1>5, <1>7, RegionIs DEF PageRange, SpanStart
<1>9. \A v \in q.gone : q.offset # 0 /\ SpanStart(q) <= v
  BY <1>6, <1>7, <1>8 DEF IInv, GoneInSpans, SpanStart
<1>10. GoneInSpans'
  BY <1>2, <1>4, <1>9 DEF IInv, GoneInSpans, SpanStart
<1> QED
  BY <1>1, <1>2, <1>3, <1>10, UnmapStep

\* What RPMallocUnmap goes back to is the start of the block, and nothing from
\* there to the end of what it gives back has been given back before.
LEMMA ReleaseRange ==
  ASSUME IInv, NEW r \in regions, NEW size \in Nat \ {0}, ReleaseSpans(r, size)
  PROVE  /\ Unmap(r.base, size)
         /\ r.base + size <= r.base + r.size
         /\ PageRange(r.base, r.base + size) \subseteq PagesOf(r)
         /\ LeftBehind(r, size) \subseteq Pages
<1>1. /\ r.base \in Pages /\ r.base \in Nat
      /\ r.size \in Nat \ {0} /\ r.base + r.size <= NumPages
      /\ r.offset \in Nat /\ r.offset <= SpanSize
      /\ \A v \in Nat : r.base <= v /\ v < r.base + r.size /\ v \notin r.gone => v \in PagesOf(r)
  BY RegionIs
<1>2. /\ SpanSize \in Nat \ {0}
      /\ SpanStart(r) = r.base + r.offset /\ SpanPages(r) = r.size - SpanSize
  BY SpanAssumption DEF SpanStart, SpanPages
<1>3. /\ size <= SpanPages(r)
      /\ PageRange(SpanStart(r), SpanStart(r) + size) \cap r.gone = {}
      /\ RPMallocUnmap(SpanStart(r), size, r.offset, SpanPages(r))
  BY DEF ReleaseSpans
<1>4. Unmap(r.base, size)
  <2>1. SpanPages(r) # 0
    BY <1>1, <1>2, <1>3
  <2>2. SpanStart(r) - r.offset = r.base
    BY <1>1, <1>2
  <2> QED
    BY <1>3, <2>1, <2>2 DEF RPMallocUnmap
<1>5. PageRange(r.base, r.base + size) \subseteq PagesOf(r)
  <2> SUFFICES ASSUME NEW v \in PageRange(r.base, r.base + size)
               PROVE  v \in PagesOf(r)
    OBVIOUS
  <2>1. v \in Nat /\ r.base <= v /\ v < r.base + size
    BY <1>1 DEF PageRange
  <2>2. v < r.base + r.size
    BY <1>1, <1>2, <1>3, <2>1
  <2>3. v \notin r.gone
    <3> SUFFICES ASSUME v \in r.gone PROVE FALSE
      OBVIOUS
    <3>1. SpanStart(r) <= v
      BY DEF IInv, GoneInSpans
    <3>2. v \in PageRange(SpanStart(r), SpanStart(r) + size)
      BY <1>1, <1>2, <2>1, <3>1 DEF PageRange
    <3> QED
      BY <1>3, <3>2
  <2> QED
    BY <1>1, <2>1, <2>2, <2>3
<1>6. LeftBehind(r, size) \subseteq Pages
  <2> SUFFICES ASSUME NEW v \in LeftBehind(r, size) PROVE v \in Pages
    OBVIOUS
  <2>1. v \in Int /\ r.base <= v /\ v < r.base + r.size
    BY <1>1, <1>2, <1>3 DEF LeftBehind, PageRange
  <2> QED
    BY <1>1, <2>1, SizesAssumption DEF Pages, PageRange
<1> QED
  BY <1>1, <1>2, <1>3, <1>4, <1>5, <1>6

LEMMA ReleaseSpansStep ==
  ASSUME IInv, ~astray, ~asserted, NEW r \in regions, NEW size \in Nat \ {0}, ReleaseSpans(r, size)
  PROVE  IInv'
<1>1. PICK page \in Pages : page = r.base
  BY RegionIs
<1>2. /\ Unmap(page, size) /\ PageRange(page, page + size) \subseteq PagesOf(r)
      /\ LeftBehind(r, size) \subseteq Pages
  BY <1>1, ReleaseRange
<1>3. /\ regions' = regions \ {r} /\ orphaned' = orphaned
      /\ abandoned' = abandoned \cup LeftBehind(r, size)
  BY DEF ReleaseSpans
<1>4. abandoned' \subseteq Pages
  BY <1>2, <1>3 DEF IInv, TypeOK
<1>5. GoneInSpans'
  BY <1>3 DEF IInv, GoneInSpans, SpanStart
<1> QED
  BY <1>2, <1>3, <1>4, <1>5, UnmapStep

-----------------------------------------------------------------------------
(* Changing the protection of part of a region.                            *)

\* Whatever frames are written, what is held stays mapped at its privilege.
LEMMA ProtectKeepsPages ==
  ASSUME IInv, ~astray, ~asserted,
         NEW r \in regions, NEW page \in Pages, NEW size \in Nat \ {0}, VirtualProtect(r, page, size)
  PROVE  /\ TypeOK' /\ GoneInSpans'
         /\ \A q \in regions : \A v \in PagesOf(q) :
              pte'[v].present /\ pte'[v].user = (q.privilege = User) /\ virtual'[v] = Used
<1> DEFINE In(v) == page <= v /\ v < page + size
<1>1. /\ page + size <= NumPages
      /\ GetPhysicalAddress(page) = pte[page].frame /\ pte[page].frame \in Frames
  BY RangeIs DEF VirtualProtect
<1>2. /\ MapPages(page, pte[page].frame, size, Keep, Used)
      /\ regions' = regions /\ orphaned' = orphaned /\ abandoned' = abandoned
      /\ astray' \in BOOLEAN
  BY <1>1 DEF VirtualProtect
<1>3. /\ asserted' \in BOOLEAN
      /\ physical' \in [Frames -> RangeState]
      /\ virtual' \in [Pages -> RangeState]
      /\ pte' \in [Pages -> Entry]
      /\ \A v \in Pages : ~In(v) => pte'[v] = pte[v] /\ virtual'[v] = virtual[v]
      /\ \A v \in Pages : In(v) =>
           \/ pte'[v] = pte[v] /\ virtual'[v] = virtual[v]
           \/ /\ \E f \in Frames : pte'[v] = NewEntry(pte[v], f, Keep, Used)
              /\ virtual'[v] = IF virtual[v] # Reserved THEN Used ELSE virtual[v]
  <2>1. TypeOK /\ Used \in RangeState
    BY DEF IInv, RangeState
  <2> QED
    BY <1>1, <1>2, <2>1, MapPagesAnyway
<1>4. TypeOK' /\ GoneInSpans'
  BY <1>2, <1>3 DEF IInv, TypeOK, GoneInSpans, SpanStart
<1>5. ASSUME NEW q \in regions, NEW v \in PagesOf(q)
      PROVE  pte'[v].present /\ pte'[v].user = (q.privilege = User) /\ virtual'[v] = Used
  <2>1. v \in Pages /\ pte[v].present /\ pte[v].user = (q.privilege = User) /\ virtual[v] = Used
    BY RegionIs
  <2>2. CASE pte'[v] = pte[v] /\ virtual'[v] = virtual[v]
    BY <2>1, <2>2
  <2>3. ASSUME NEW f \in Frames, pte'[v] = NewEntry(pte[v], f, Keep, Used),
               virtual'[v] = IF virtual[v] # Reserved THEN Used ELSE virtual[v]
        PROVE  pte'[v].present /\ pte'[v].user = (q.privilege = User) /\ virtual'[v] = Used
    <3>1. virtual'[v] = Used
      BY <2>1, <2>3
    <3>2. pte'[v].present /\ pte'[v].user = (pte[v].present /\ pte[v].user)
      <4>1. \A old : LET e == NewEntry(old, f, Keep, Used)
                     IN  e.present /\ e.user = (old.present /\ old.user)
        <5>1. Used # Free
          BY DEF Used, Free
        <5> QED
          BY <5>1 DEF NewEntry, Keep, User
      <4> QED
        BY <2>3, <4>1
    <3>3. pte[v].user \in BOOLEAN
      BY <2>1 DEF IInv, TypeOK, Entry
    <3>4. (pte[v].present /\ pte[v].user) = pte[v].user
      BY <2>1, <3>3
    <3> QED
      BY <2>1, <3>1, <3>2, <3>4
  <2> QED
    BY <1>3, <2>1, <2>2, <2>3
<1> QED
  BY <1>4, <1>5

\* If the frames are the pages', nothing changes frame or becomes free.
LEMMA ProtectKeepsFrames ==
  ASSUME IInv, ~astray, ~asserted,
         NEW r \in regions, NEW page \in Pages, NEW size \in Nat \ {0}, VirtualProtect(r, page, size),
         Consecutive(page, size)
  PROVE  /\ asserted' = FALSE
         /\ \A v \in Pages : /\ pte'[v].present = pte[v].present
                             /\ pte'[v].frame = pte[v].frame /\ pte[v].frame \in Frames
                             /\ virtual'[v] = virtual[v]
         /\ \A f \in Frames :
              \/ physical'[f] = physical[f]
              \/ /\ physical'[f] = Used /\ physical[f] # Reserved
                 /\ \E v \in Pages : pte[v].present /\ pte[v].frame = f
<1> DEFINE In(v) == page <= v /\ v < page + size
<1>1. /\ page \in Nat /\ page + size <= NumPages
      /\ GetPhysicalAddress(page) = pte[page].frame
      /\ \A v \in Pages : v \in PageRange(page, page + size) <=> In(v)
  BY RangeIs DEF VirtualProtect
<1>2. PICK frame \in Frames : frame = pte[page].frame
  BY RangeIs DEF VirtualProtect
<1>3. /\ frame + size <= NumFrames
      /\ \A v \in Pages : In(v) => pte[v].frame = frame + (v - page)
  BY <1>2, ConsecutiveFrames
<1>4. MapPages(page, frame, size, Keep, Used)
  BY <1>1, <1>2 DEF VirtualProtect
<1>5. /\ asserted' = asserted
      /\ \A f \in Frames :
           physical'[f] = IF frame <= f /\ f < frame + size /\ physical[f] # Reserved
                          THEN Used ELSE physical[f]
      /\ \A v \in Pages :
           virtual'[v] = IF In(v) /\ virtual[v] # Reserved THEN Used ELSE virtual[v]
      /\ \A v \in Pages : In(v) =>
           pte'[v] = NewEntry(pte[v], frame + (v - page), Keep, Used)
      /\ \A v \in Pages : ~In(v) => pte'[v] = pte[v]
      /\ pte' \in [Pages -> Entry]
  BY <1>1, <1>3, <1>4, MapPagesEffect DEF IInv, RangeState
<1>6. \A v \in Pages : In(v) => pte[v].present /\ virtual[v] = Used
  <2>1. \A v \in PagesOf(r) : pte[v].present /\ virtual[v] = Used
    BY RegionIs
  <2> QED
    BY <1>1, <2>1 DEF VirtualProtect
<1>7. ASSUME NEW v \in Pages
      PROVE  /\ pte'[v].present = pte[v].present
             /\ pte'[v].frame = pte[v].frame /\ pte[v].frame \in Frames
             /\ virtual'[v] = virtual[v]
  <2>1. pte[v].frame \in Frames /\ pte[v].present \in BOOLEAN /\ pte'[v].present \in BOOLEAN
    BY <1>5 DEF IInv, TypeOK, Entry
  <2>2. CASE In(v)
    <3>1. pte'[v] = NewEntry(pte[v], pte[v].frame, Keep, Used)
      BY <1>3, <1>5, <2>2
    <3>2. pte'[v].present /\ pte'[v].frame = pte[v].frame
      <4>1. \A old, f : /\ NewEntry(old, f, Keep, Used).present
                        /\ NewEntry(old, f, Keep, Used).frame = f
        BY DEF NewEntry, Used, Free
      <4> QED
        BY <3>1, <4>1
    <3>3. pte[v].present /\ virtual[v] = Used
      BY <1>6, <2>2
    <3>4. pte'[v].present = pte[v].present
      BY <2>1, <3>2, <3>3
    <3>5. virtual'[v] = virtual[v]
      BY <1>5, <2>2, <3>3
    <3> QED
      BY <2>1, <3>2, <3>4, <3>5
  <2>3. CASE ~In(v)
    BY <1>5, <2>1, <2>3
  <2> QED
    BY <2>2, <2>3
<1>8. ASSUME NEW f \in Frames, frame <= f, f < frame + size
      PROVE  \E v \in Pages : pte[v].present /\ pte[v].frame = f
  <2>1. f \in Int /\ frame \in Int /\ page \in Int /\ size \in Int /\ page >= 0
    BY <1>1, SizesAssumption DEF Frames, PageRange
  <2>2. PICK u \in Int : u = page + (f - frame)
    BY <2>1
  <2>3. In(u) /\ frame + (u - page) = f
    BY <1>8, <2>1, <2>2
  <2>4. u \in Pages
    BY <2>1, <2>3, <1>1, SizesAssumption DEF Pages, PageRange
  <2> QED
    BY <1>3, <1>6, <2>3, <2>4
<1> QED
  BY <1>5, <1>7, <1>8

LEMMA VirtualProtectStep ==
  ASSUME IInv, ~astray, ~asserted,
         NEW r \in regions, NEW page \in Pages, NEW size \in Nat \ {0}, VirtualProtect(r, page, size)
  PROVE  IInv'
<1>1. TypeOK' /\ GoneInSpans'
  BY ProtectKeepsPages
<1>2. regions' = regions /\ orphaned' = orphaned
  BY DEF VirtualProtect
<1>3. /\ \A q \in regions :
           /\ q.base + q.size <= NumPages
           /\ \A v \in PagesOf(q) :
                pte'[v].present /\ pte'[v].user = (q.privilege = User) /\ virtual'[v] = Used
      /\ \A p, q \in regions : p # q => PagesOf(p) \cap PagesOf(q) = {}
  BY RegionIs, ProtectKeepsPages DEF IInv, RegionsIntact
<1>4. CASE ~Consecutive(page, size)
  <2>1. astray'
    BY <1>4 DEF VirtualProtect
  <2> QED
    BY <1>1, <1>2, <1>3, <2>1
       DEF IInv, NoAssertionFires, MappedIsNotFree, NoSharedFrames, RegionsIntact, PagesOf
<1>5. CASE Consecutive(page, size)
  <2>1. /\ asserted' = FALSE
        /\ \A v \in Pages : /\ pte'[v].present = pte[v].present
                            /\ pte'[v].frame = pte[v].frame /\ pte[v].frame \in Frames
                            /\ virtual'[v] = virtual[v]
        /\ \A f \in Frames :
             \/ physical'[f] = physical[f]
             \/ /\ physical'[f] = Used /\ physical[f] # Reserved
                /\ \E v \in Pages : pte[v].present /\ pte[v].frame = f
    BY <1>5, ProtectKeepsFrames
  <2>2. Used # Free
    BY DEF Used, Free
  <2>3. MappedIsNotFree'
    BY <2>1, <2>2 DEF IInv, MappedIsNotFree
  <2>4. NoSharedFrames'
    BY <2>1 DEF IInv, NoSharedFrames
  <2>5. \A q \in regions : \A v \in PagesOf(q) :
          \/ pte'[v].frame = q.frame + (v - q.base)
          \/ q.privilege = User /\ q.frame + (v - q.base) \in orphaned
    <3> TAKE q \in regions
    <3> TAKE v \in PagesOf(q)
    <3>1. v \in Pages
      BY RegionIs
    <3> QED
      BY <2>1, <3>1, RegionFrames
  <2> QED
    BY <1>1, <1>2, <1>3, <2>1, <2>3, <2>4, <2>5
       DEF IInv, NoAssertionFires, RegionsIntact, PagesOf
<1> QED
  BY <1>4, <1>5

-----------------------------------------------------------------------------
(* Nothing else leaks.  An operation keeps NothingElseLeaks if the pages   *)
(* it leaves Used are accounted for and no frame it leaves Used loses the  *)
(* page that maps it without being orphaned.                               *)

\* Frames mapped anew have their page.
LEMMA FreshFramesAreMapped ==
  ASSUME IInv, ~astray, ~asserted,
         NEW page \in Pages, NEW frame \in Frames, NEW size \in Nat \ {0},
         page + size <= NumPages, frame + size <= NumFrames,
         NEW privilege \in PrivilegeLevel,
         \A f \in Frames : frame <= f /\ f < frame + size => physical[f] \in {Free, Reserved},
         MapPages(page, frame, size, privilege, Used)
  PROVE  \A f \in Frames : physical'[f] = Used =>
           \/ physical[f] = Used
           \/ \E v \in Pages : pte'[v].present /\ pte'[v].frame = f
<1>1. \A f \in Frames :
        physical'[f] = IF frame <= f /\ f < frame + size /\ physical[f] # Reserved
                       THEN Used ELSE physical[f]
  BY MapPagesEffect DEF IInv, RangeState
<1>2. /\ asserted' = FALSE
      /\ physical' \in [Frames -> RangeState]
      /\ virtual' \in [Pages -> RangeState]
      /\ pte' \in [Pages -> Entry]
      /\ MappedIsNotFree' /\ NoSharedFrames'
      /\ \A v \in Pages : page <= v /\ v < page + size =>
           /\ pte'[v].present /\ pte'[v].frame = frame + (v - page)
           /\ pte'[v].user = (privilege = User)
           /\ virtual[v] # Reserved => virtual'[v] = Used
      /\ \A v \in Pages : ~(page <= v /\ v < page + size) => pte'[v] = pte[v] /\ virtual'[v] = virtual[v]
  <2>1. FreshEffect(page, frame, size, privilege)
    BY FreshFrames
  <2> QED
    BY <2>1 DEF FreshEffect
<1>3. ASSUME NEW f \in Frames, frame <= f, f < frame + size
      PROVE  \E v \in Pages : pte'[v].present /\ pte'[v].frame = f
  <2>1. f \in Int /\ frame \in Int /\ page \in Int /\ size \in Int /\ page >= 0
    BY SizesAssumption DEF Pages, Frames, PageRange
  <2>2. PICK u \in Int : u = page + (f - frame)
    BY <2>1
  <2>3. page <= u /\ u < page + size /\ frame + (u - page) = f
    BY <1>3, <2>1, <2>2
  <2>4. u \in Pages
    BY <2>1, <2>3, SizesAssumption DEF Pages, PageRange
  <2> QED
    BY <1>2, <2>3, <2>4
<1> QED
  BY <1>1, <1>3

LEMMA AllocLeaksNothing ==
  ASSUME IInv, NothingElseLeaks, ~astray, ~asserted,
         NEW page \in Pages, NEW frame \in Frames, NEW size \in Nat \ {0},
         page + size <= NumPages, frame + size <= NumFrames,
         NEW privilege \in PrivilegeLevel, NEW offset,
         \A v \in Pages : page <= v /\ v < page + size => virtual[v] = Free,
         \A f \in Frames : frame <= f /\ f < frame + size => physical[f] \in {Free, Reserved},
         MapPages(page, frame, size, privilege, Used),
         regions' = regions \cup {Given(page, frame, size, privilege, offset)},
         UNCHANGED history
  PROVE  NothingElseLeaks'
<1> DEFINE In(v) == page <= v /\ v < page + size
<1>1. /\ asserted' = FALSE
      /\ physical' \in [Frames -> RangeState]
      /\ virtual' \in [Pages -> RangeState]
      /\ pte' \in [Pages -> Entry]
      /\ MappedIsNotFree' /\ NoSharedFrames'
      /\ \A v \in Pages : page <= v /\ v < page + size =>
           /\ pte'[v].present /\ pte'[v].frame = frame + (v - page)
           /\ pte'[v].user = (privilege = User)
           /\ virtual[v] # Reserved => virtual'[v] = Used
      /\ \A v \in Pages : ~(page <= v /\ v < page + size) => pte'[v] = pte[v] /\ virtual'[v] = virtual[v]
  <2>1. FreshEffect(page, frame, size, privilege)
    BY FreshFrames
  <2> QED
    BY <2>1 DEF FreshEffect
<1>2. PICK new : new = Given(page, frame, size, privilege, offset)
  OBVIOUS
<1>3. \A v \in Pages : In(v) => v \in PagesOf(new)
  <2>1. new.base = page /\ new.size = size /\ new.gone = {}
    BY <1>2 DEF Given
  <2> QED
    BY <2>1, SizesAssumption DEF PagesOf, PageRange, Pages
<1>4. \A v \in Pages : pte[v].present => ~In(v)
  BY DEF IInv, MappedIsNotFree
<1>5. ASSUME NEW v \in Pages, virtual'[v] = Used
      PROVE  v \in BootUsed \cup abandoned \/ \E r \in regions' : v \in PagesOf(r)
  <2>1. CASE In(v)
    BY <2>1, <1>2, <1>3
  <2>2. CASE ~In(v)
    BY <2>2, <1>5, <1>1 DEF NothingElseLeaks
  <2> QED
    BY <2>1, <2>2
<1>6. ASSUME NEW f \in Frames, physical'[f] = Used
      PROVE  f \in orphaned \/ \E v \in Pages : pte'[v].present /\ pte'[v].frame = f
  <2>1. CASE physical[f] = Used
    BY <2>1, <1>1, <1>4 DEF NothingElseLeaks
  <2> QED
    BY <2>1, <1>6, FreshFramesAreMapped
<1> QED
  BY <1>5, <1>6 DEF NothingElseLeaks, PagesOf, history

LEMMA MemoryMapLeaksOrphans ==
  ASSUME IInv, NothingElseLeaks, ~astray, ~asserted,
         NEW page \in Pages, NEW size \in Nat \ {0}, MemoryMap(page, size)
  PROVE  NothingElseLeaks'
<1> DEFINE In(v) == page <= v /\ v < page + size
<1> SUFFICES ASSUME ~astray' PROVE NothingElseLeaks'
  BY DEF NothingElseLeaks
<1>1. \A v \in PageRange(page, page + size) :
        \E r \in regions : r.privilege = User /\ v \in PagesOf(r)
  BY DEF MemoryMap
<1>2. /\ page + size <= NumPages
      /\ \A v \in Pages : v \in PageRange(page, page + size) <=> In(v)
  BY <1>1, RangeIs
<1>3. /\ orphaned' = orphaned \cup {pte[v].frame : v \in PageRange(page, page + size)}
      /\ regions' = regions /\ abandoned' = abandoned
  BY DEF MemoryMap
<1>4. PICK frame \in FindResults(physical, size) :
        MapPages(page, frame, size, User, Used) /\ frame # 0
  BY DEF MemoryMap
<1>5. /\ frame \in Frames /\ frame + size <= NumFrames
      /\ \A f \in PageRange(frame, frame + size) : f \in Frames /\ physical[f] = Free
  BY <1>4, FrameSearch DEF IInv, TypeOK
<1>6. \A f \in Frames : frame <= f /\ f < frame + size => physical[f] \in {Free, Reserved}
  BY <1>5, SizesAssumption DEF Frames, PageRange
<1>7. PICK privilege \in PrivilegeLevel : MapPages(page, frame, size, privilege, Used)
  BY <1>4 DEF PrivilegeLevel
<1>8. \A v \in Pages : ~In(v) => pte'[v] = pte[v] /\ virtual'[v] = virtual[v]
  <2>1. FreshEffect(page, frame, size, privilege)
    BY <1>2, <1>5, <1>6, <1>7, FreshFrames
  <2> QED
    BY <2>1 DEF FreshEffect
<1>9. ASSUME NEW v \in Pages, virtual'[v] = Used
      PROVE  v \in BootUsed \cup abandoned \/ \E r \in regions : v \in PagesOf(r)
  <2>1. CASE In(v)
    BY <2>1, <1>1, <1>2
  <2>2. CASE ~In(v)
    BY <2>2, <1>8, <1>9 DEF NothingElseLeaks
  <2> QED
    BY <2>1, <2>2
<1>10. ASSUME NEW f \in Frames, physical'[f] = Used
       PROVE  f \in orphaned' \/ \E v \in Pages : pte'[v].present /\ pte'[v].frame = f
  <2>1. CASE physical[f] = Used
    <3>1. CASE f \in orphaned
      BY <3>1, <1>3
    <3>2. ASSUME NEW v \in Pages, pte[v].present, pte[v].frame = f
          PROVE  f \in orphaned' \/ \E w \in Pages : pte'[w].present /\ pte'[w].frame = f
      <4>1. CASE In(v)
        BY <4>1, <3>2, <1>2, <1>3
      <4>2. CASE ~In(v)
        BY <4>2, <3>2, <1>8
      <4> QED
        BY <4>1, <4>2
    <3> QED
      BY <2>1, <3>1, <3>2 DEF NothingElseLeaks
  <2> QED
    BY <2>1, <1>2, <1>5, <1>6, <1>7, <1>10, FreshFramesAreMapped
<1> QED
  BY <1>3, <1>9, <1>10 DEF NothingElseLeaks, PagesOf

LEMMA UnmapLeaksNothing ==
  ASSUME IInv, NothingElseLeaks, ~astray, ~asserted,
         NEW r \in regions, NEW page \in Pages, NEW size \in Nat \ {0},
         PageRange(page, page + size) \subseteq PagesOf(r),
         Unmap(page, size),
         regions \ {r} \subseteq regions', orphaned' = orphaned, abandoned \subseteq abandoned',
         \A v \in PagesOf(r) \ PageRange(page, page + size) :
           v \in abandoned' \/ \E q \in regions' : v \in PagesOf(q)
  PROVE  NothingElseLeaks'
<1> DEFINE In(v) == page <= v /\ v < page + size
<1> SUFFICES ASSUME ~astray' PROVE NothingElseLeaks'
  BY DEF NothingElseLeaks
<1>1. Consecutive(page, size)
  BY DEF Unmap
<1>2. \A v \in Pages : v \in PageRange(page, page + size) <=> In(v)
  BY RangeIs
<1>3. /\ \A v \in Pages : In(v) =>
           /\ virtual'[v] # Used
           /\ pte[v].frame \in Frames /\ physical'[pte[v].frame] # Used
      /\ \A v \in Pages : ~In(v) => pte'[v] = pte[v] /\ virtual'[v] = virtual[v]
      /\ \A f \in Frames : physical'[f] = Used => physical[f] = Used
  BY <1>1, UnmapFrees
<1>4. ASSUME NEW v \in Pages, virtual'[v] = Used
      PROVE  v \in BootUsed \cup abandoned' \/ \E q \in regions' : v \in PagesOf(q)
  <2>1. ~In(v) /\ virtual[v] = Used
    BY <1>3, <1>4
  <2>2. CASE v \in PagesOf(r)
    BY <1>2, <2>1, <2>2
  <2>3. CASE v \notin PagesOf(r)
    BY <2>1, <2>3 DEF NothingElseLeaks
  <2> QED
    BY <2>2, <2>3
<1>5. ASSUME NEW f \in Frames, physical'[f] = Used
      PROVE  f \in orphaned \/ \E v \in Pages : pte'[v].present /\ pte'[v].frame = f
  <2>1. CASE f \in orphaned
    BY <2>1
  <2>2. ASSUME NEW v \in Pages, pte[v].present, pte[v].frame = f
        PROVE  pte'[v].present /\ pte'[v].frame = f
    BY <1>3, <1>5, <2>2
  <2> QED
    BY <1>3, <1>5, <2>1, <2>2 DEF NothingElseLeaks
<1> QED
  BY <1>4, <1>5 DEF NothingElseLeaks, PagesOf

LEMMA FreeLeaksNothing ==
  ASSUME IInv, NothingElseLeaks, ~astray, ~asserted, NEW r \in regions, VirtualFree(r)
  PROVE  NothingElseLeaks'
<1>1. PICK page \in Pages, size \in Nat \ {0} : page = r.base /\ size = r.size
  BY RegionIs
<1>2. PageRange(page, page + size) = PagesOf(r)
  BY <1>1, WholeRegion DEF VirtualFree
<1>3. /\ Unmap(page, size) /\ regions' = regions \ {r}
      /\ orphaned' = orphaned /\ abandoned' = abandoned
  BY <1>1 DEF VirtualFree
<1> QED
  BY <1>2, <1>3, UnmapLeaksNothing

LEMMA SubspansLeakNothing ==
  ASSUME IInv, NothingElseLeaks, ~astray, ~asserted,
         NEW r \in regions, NEW page \in Pages, NEW size \in Nat \ {0}, UnmapSubspans(r, page, size)
  PROVE  NothingElseLeaks'
<1>1. PageRange(page, page + size) \subseteq PagesOf(r)
  BY DEF UnmapSubspans
<1>2. PICK q : q = Shrunk(r, page, size)
  OBVIOUS
<1>3. /\ Unmap(page, size) /\ regions' = (regions \ {r}) \cup {q}
      /\ orphaned' = orphaned /\ abandoned' = abandoned
  BY <1>2 DEF UnmapSubspans, RPMallocUnmap, Shrunk
<1>4. PageRange(page, page + size) \subseteq Pages
  BY <1>1, RangeIs
<1>5. PagesOf(q) = PagesOf(r) \ PageRange(page, page + size)
  BY <1>2, <1>4, ShrunkIs
<1> QED
  BY <1>1, <1>3, <1>5, UnmapLeaksNothing

\* Of a heap block released, what stays mapped is what LeftBehind says.
LEMMA ReleaseLeaksTheRest ==
  ASSUME IInv, NothingElseLeaks, ~astray, ~asserted,
         NEW r \in regions, NEW size \in Nat \ {0}, ReleaseSpans(r, size)
  PROVE  NothingElseLeaks'
<1>1. PICK page \in Pages : page = r.base
  BY RegionIs
<1>2. Unmap(page, size) /\ PageRange(page, page + size) \subseteq PagesOf(r)
  BY <1>1, ReleaseRange
<1>3. /\ regions' = regions \ {r} /\ orphaned' = orphaned
      /\ abandoned' = abandoned \cup LeftBehind(r, size)
      /\ PageRange(SpanStart(r) + size, SpanStart(r) + SpanPages(r)) \subseteq r.gone
  BY DEF ReleaseSpans
<1>4. ASSUME NEW v \in PagesOf(r) \ PageRange(page, page + size)
      PROVE  v \in LeftBehind(r, size)
  <2>1. /\ r.base \in Nat /\ r.size \in Nat /\ r.offset \in Nat
        /\ v \in Nat /\ r.base <= v /\ v < r.base + r.size /\ v \notin r.gone
    BY RegionIs
  <2>2. r.base + size <= v
    BY <1>1, <1>4, <2>1 DEF PageRange
  <2>3. SpanStart(r) \in Nat /\ SpanPages(r) \in Int
    BY <2>1, SpanAssumption DEF SpanStart, SpanPages
  <2>4. v < SpanStart(r) + size \/ SpanStart(r) + SpanPages(r) <= v
    BY <1>3, <2>1, <2>3 DEF PageRange
  <2> QED
    BY <2>1, <2>2, <2>3, <2>4 DEF LeftBehind, PageRange
<1> QED
  BY <1>2, <1>3, <1>4, UnmapLeaksNothing

LEMMA ProtectLeaksNothing ==
  ASSUME IInv, NothingElseLeaks, ~astray, ~asserted,
         NEW r \in regions, NEW page \in Pages, NEW size \in Nat \ {0}, VirtualProtect(r, page, size)
  PROVE  NothingElseLeaks'
<1> SUFFICES ASSUME ~astray' PROVE NothingElseLeaks'
  BY DEF NothingElseLeaks
<1>1. /\ Consecutive(page, size)
      /\ regions' = regions /\ orphaned' = orphaned /\ abandoned' = abandoned
  BY DEF VirtualProtect
<1>2. /\ \A v \in Pages : /\ pte'[v].present = pte[v].present
                          /\ pte'[v].frame = pte[v].frame
                          /\ virtual'[v] = virtual[v]
      /\ \A f \in Frames :
           \/ physical'[f] = physical[f]
           \/ /\ physical'[f] = Used /\ physical[f] # Reserved
              /\ \E v \in Pages : pte[v].present /\ pte[v].frame = f
  BY <1>1, ProtectKeepsFrames
<1> QED
  BY <1>1, <1>2 DEF NothingElseLeaks, PagesOf

-----------------------------------------------------------------------------
(* The theorems.                                                           *)

\* What an allocation of Next comes to.
LEMMA NextAllocation ==
  ASSUME IInv, ~astray, ~asserted, NEW size \in Sizes,
         \/ \E privilege \in PrivilegeLevel : VirtualAlloc(size, privilege)
         \/ \E frame \in Frames : PhysicalAlloc(frame, size, Kernel)
         \/ RPMallocMap(size)
  PROVE  IInv' /\ (NothingElseLeaks => NothingElseLeaks')
<1>1. PICK n \in Nat \ {0}, privilege \in PrivilegeLevel :
        \/ \E padding \in {0, SpanSize} : Allocate(n, privilege, padding)
        \/ \E frame \in Frames : PhysicalAlloc(frame, n, privilege)
  BY NextAllocates
<1>2. PICK page \in Pages, frame \in Frames, offset \in 0 .. SpanSize :
        /\ page + n <= NumPages /\ frame + n <= NumFrames
        /\ \A v \in Pages : page <= v /\ v < page + n => virtual[v] = Free
        /\ \A f \in Frames : frame <= f /\ f < frame + n => physical[f] \in {Free, Reserved}
        /\ MapPages(page, frame, n, privilege, Used)
        /\ regions' = regions \cup {Given(page, frame, n, privilege, offset)}
        /\ UNCHANGED history
  BY <1>1, AllocationIsFresh
<1>3. IInv'
  BY <1>2, MapFresh
<1>4. ASSUME NothingElseLeaks PROVE NothingElseLeaks'
  BY <1>2, <1>4, AllocLeaksNothing
<1> QED
  BY <1>3, <1>4

LEMMA NextIInv ==
  /\ IInv /\ [Next]_vars => IInv'
  /\ IInv /\ NothingElseLeaks /\ [Next]_vars => NothingElseLeaks'
<1> SUFFICES ASSUME IInv, [Next]_vars PROVE IInv' /\ (NothingElseLeaks => NothingElseLeaks')
  OBVIOUS
<1>1. CASE UNCHANGED vars
  <2>1. IInv'
    BY <1>1 DEF vars, history, IInv, TypeOK, NoAssertionFires, MappedIsNotFree, NoSharedFrames,
                RegionsIntact, PagesOf, GoneInSpans, SpanStart
  <2>2. NothingElseLeaks => NothingElseLeaks'
    BY <1>1 DEF vars, history, NothingElseLeaks, PagesOf
  <2> QED
    BY <2>1, <2>2
<1>2. CASE Next
  <2>1. ~astray /\ ~asserted
    BY <1>2 DEF Next
  <2>2. \A n \in 1 .. NumFrames : n \in Nat \ {0}
    OBVIOUS
  <2>3. ASSUME NEW size \in Sizes,
               \/ \E privilege \in PrivilegeLevel : VirtualAlloc(size, privilege)
               \/ \E frame \in Frames : PhysicalAlloc(frame, size, Kernel)
               \/ RPMallocMap(size)
        PROVE  IInv' /\ (NothingElseLeaks => NothingElseLeaks')
    BY <2>1, <2>3, NextAllocation
  <2>4. ASSUME NEW r \in regions, VirtualFree(r)
        PROVE  IInv' /\ (NothingElseLeaks => NothingElseLeaks')
    BY <2>1, <2>4, VirtualFreeStep, FreeLeaksNothing
  <2>5. ASSUME NEW r \in regions, NEW page \in Pages, NEW size \in 1 .. NumFrames, VirtualProtect(r, page, size)
        PROVE  IInv' /\ (NothingElseLeaks => NothingElseLeaks')
    BY <2>1, <2>2, <2>5, VirtualProtectStep, ProtectLeaksNothing
  <2>6. ASSUME NEW page \in Pages, NEW size \in 1 .. NumFrames, MemoryMap(page, size)
        PROVE  IInv' /\ (NothingElseLeaks => NothingElseLeaks')
    BY <2>1, <2>2, <2>6, MemoryMapStep, MemoryMapLeaksOrphans
  <2>7. ASSUME NEW r \in regions, NEW page \in Pages, NEW size \in 1 .. NumFrames, UnmapSubspans(r, page, size)
        PROVE  IInv' /\ (NothingElseLeaks => NothingElseLeaks')
    BY <2>1, <2>2, <2>7, UnmapSubspansStep, SubspansLeakNothing
  <2>8. ASSUME NEW r \in regions, NEW size \in 1 .. NumFrames, ReleaseSpans(r, size)
        PROVE  IInv' /\ (NothingElseLeaks => NothingElseLeaks')
    BY <2>1, <2>2, <2>8, ReleaseSpansStep, ReleaseLeaksTheRest
  <2> QED
    BY <1>2, <2>3, <2>4, <2>5, <2>6, <2>7, <2>8 DEF Next
<1> QED
  BY <1>1, <1>2

LEMMA SpecIInv == Spec => []IInv
  BY InitIInv, NextIInv, PTL DEF Spec

\* Type correctness, for every machine and every sequence of calls.
THEOREM TypeCorrect == Spec => []TypeOK
<1>1. IInv => TypeOK
  BY DEF IInv
<1> QED
  BY <1>1, SpecIInv, PTL

\* VirtualFree and VirtualProtect never find the first page of what they are
\* given unmapped, RPMallocUnmap always goes back to a page that is mapped, and no
\* range reaches TagRange out of bounds, until a call goes to frames not its pages'.
THEOREM NeverAsserts == Spec => []NoAssertionFires
<1>1. IInv => NoAssertionFires
  BY DEF IInv
<1> QED
  BY <1>1, SpecIInv, PTL

\* No translation outlives its page or its frame, up to the same call.
THEOREM NoDanglingTranslation == Spec => []MappedIsNotFree
<1>1. IInv => MappedIsNotFree
  BY DEF IInv
<1> QED
  BY <1>1, SpecIInv, PTL

\* Allocated memory is never mapped twice, up to the same call.
THEOREM AllocationsDisjoint == Spec => []NoSharedFrames
<1>1. IInv => NoSharedFrames
  BY DEF IInv
<1> QED
  BY <1>1, SpecIInv, PTL

\* Every caller's region stays mapped, its own and at its privilege, whatever the
\* calls; and every page of it keeps the frame it was given, unless mmap at an
\* address has mapped the page anew.
THEOREM RegionsStayIntact == Spec => []RegionsIntact
<1>1. IInv => RegionsIntact
  BY DEF IInv
<1> QED
  BY <1>1, SpecIInv, PTL

\* Memory is lost to the frames that mmap at an address replaces and to the pages
\* that the release of a heap block leaves mapped, and to nothing else.
THEOREM NothingElseIsLost == Spec => []NothingElseLeaks
<1>1. Init => NothingElseLeaks
  <2> SUFFICES ASSUME Init PROVE NothingElseLeaks
    OBVIOUS
  <2>1. ASSUME NEW v \in Pages, virtual[v] = Used
        PROVE  v \in BootUsed
    BY <2>1 DEF Init, Free, Reserved, Used
  <2>2. ASSUME NEW f \in Frames, physical[f] = Used
        PROVE  \E v \in Pages : pte[v].present /\ pte[v].frame = f
    <3>1. f \in BootUsed
      BY <2>2 DEF Init, Free, Reserved, Used
    <3>2. f \in Pages
      BY SizesAssumption DEF Frames, Pages, PageRange
    <3>3. pte[f] = [frame |-> f, present |-> TRUE, user |-> TRUE]
      BY <3>1, <3>2 DEF Init
    <3> QED
      BY <3>2, <3>3
  <2> QED
    BY <2>1, <2>2 DEF NothingElseLeaks
<1> QED
  BY <1>1, NextIInv, SpecIInv, PTL DEF Spec

\* Whatever MapPages is asked to do, it leaves a Reserved frame Reserved.
LEMMA MapPagesKeepsReserved ==
  ASSUME TypeOK, NEW page, NEW frame, NEW size, NEW privilege, NEW s,
         MapPages(page, frame, size, privilege, s)
  PROVE  \A f \in Frames : physical[f] = Reserved => physical'[f] = Reserved
<1>1. DOMAIN physical = Frames
  BY DEF TypeOK
<1>2. CASE physical' = Tagged(physical, frame, frame + size, s)
  BY <1>1, <1>2 DEF Tagged
<1>3. CASE UNCHANGED physical
  BY <1>3
<1> QED
  BY <1>2, <1>3 DEF MapPages

\* No map, unmap or change of protection turns a frame reserved at boot (device
\* registers, firmware tables) into memory that can be allocated.
THEOREM ReservedStays == Spec => ReservedFramesStay
<1>1. IInv /\ [Next]_vars =>
        [\A f \in Frames : physical[f] = Reserved => physical'[f] = Reserved]_vars
  <2> SUFFICES ASSUME IInv, Next
               PROVE  \A f \in Frames : physical[f] = Reserved => physical'[f] = Reserved
    OBVIOUS
  <2>1. TypeOK
    BY DEF IInv
  <2>2. PICK page, frame, size, privilege, s : MapPages(page, frame, size, privilege, s)
    BY DEF Next, VirtualAlloc, RPMallocMap, Allocate, PhysicalAlloc, Unmap, VirtualFree,
           VirtualProtect, MemoryMap, RPMallocUnmap, UnmapSubspans, ReleaseSpans
  <2> QED
    BY <2>1, <2>2, MapPagesKeepsReserved
<1> QED
  BY <1>1, SpecIInv, PTL DEF Spec, ReservedFramesStay
=============================================================================
