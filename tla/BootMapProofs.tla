---------------------------- MODULE BootMapProofs ---------------------------
(***************************************************************************)
(* BuildPML4 leaves the initial state of Mapping for every memory and      *)
(* every array of descriptors.  At each step the maps and tables are those *)
(* of a machine whose reserved, used and missing frames are the ones that  *)
(* the loops have passed (Built); the walk over the holes always stands    *)
(* between two descriptors (Boundary), so that what it reserves is a hole  *)
(* and no hole is passed over.                                             *)
(***************************************************************************)
EXTENDS BootMap, TLAPS

\* The frames of descriptors that the first loop has been at.
Passed(kind) ==
  {f \in Frames : \E i \in DOMAIN map : i < entry /\ map[i].kind = kind /\ f \in FramesOf(map[i])}
Screen == PageRange(framebuffer.start, framebuffer.start + framebuffer.pages)
Shown  == IF pc = "Done" THEN Screen ELSE {}

PhysicalState(R, U, G) == [f \in Frames |-> IF f \in R \cup G THEN Reserved ELSE IF f \in U THEN Used ELSE Free]
VirtualState(R, U) == [v \in Pages |-> IF v \in R THEN Reserved ELSE IF v \in U THEN Used ELSE Free]
EntryOf(v, mapped) == [frame |-> IF mapped THEN v ELSE 0, present |-> mapped, user |-> mapped]
Entries(R, U) == [v \in Pages |-> EntryOf(v, v \in R \/ v \in U)]

Built(R, U, G) ==
  physical = PhysicalState(R, U, G) /\ virtual = VirtualState(R, U) /\ pte = Entries(R, U)

BuiltNext(R, U, G) ==
  physical' = PhysicalState(R, U, G) /\ virtual' = VirtualState(R, U) /\ pte' = Entries(R, U)

HandedOver ==
  /\ map \in Arrays /\ framebuffer \in [start : Frames, pages : 1 .. 2]
  /\ Screen \subseteq Described({Reserved}) \cup Holes

Progress ==
  /\ pc \in {"Map", "Gaps", "Framebuffer", "Done"}
  /\ entry \in Nat \ {0} /\ (entry = 1 \/ entry - 1 \in DOMAIN map)
  /\ pc # "Map" => entry \notin DOMAIN map
  /\ StartP \in 0 .. NumFrames /\ (pc = "Map" => StartP = 0)
  /\ pc \in {"Framebuffer", "Done"} => StartP = NumFrames

Boundary == \A i \in DOMAIN map : End(map[i]) <= StartP \/ map[i].PhysicalStart >= StartP

Inv ==
  /\ HandedOver /\ Progress /\ Boundary
  /\ regions = {} /\ asserted = FALSE
  /\ Built(Passed(Reserved) \cup Shown, Passed(Used), {h \in Holes : h < StartP} \ Shown)

-----------------------------------------------------------------------------
(* Descriptors.                                                            *)

LEMMA Sizes == NumFrames \in Nat /\ NumFrames >= 1 /\ NumPages \in Nat /\ NumFrames <= NumPages
  BY BootMapAssumption

LEMMA ArrayIs ==
  ASSUME map \in Arrays
  PROVE  /\ \E n \in Nat : DOMAIN map = 1 .. n
         /\ \A i \in DOMAIN map : map[i] \in Descriptor /\ End(map[i]) <= NumFrames
         /\ \A i, j \in DOMAIN map : i # j => FramesOf(map[i]) \cap FramesOf(map[j]) = {}
         /\ \E i \in DOMAIN map : End(map[i]) = NumFrames
  <1>1. PICK n \in 1 .. MaxEntries : map \in [1 .. n -> {d \in Descriptor : End(d) <= NumFrames}]
    BY DEF Arrays
  <1>2. n \in Nat /\ DOMAIN map = 1 .. n
    BY <1>1, BootMapAssumption
  <1>3. \A i \in DOMAIN map : map[i] \in Descriptor /\ End(map[i]) <= NumFrames
    BY <1>1
  <1> QED
    BY <1>2, <1>3 DEF Arrays

LEMMA DescriptorIs ==
  ASSUME NEW d \in Descriptor, End(d) <= NumFrames
  PROVE  /\ d.PhysicalStart \in Nat /\ d.NumberOfPages \in Nat \ {0} /\ End(d) = d.PhysicalStart + d.NumberOfPages
         /\ End(d) \in Nat /\ End(d) > d.PhysicalStart /\ d.kind \in Kinds
         /\ FramesOf(d) \subseteq Frames /\ FramesOf(d) = PageRange(d.PhysicalStart, d.PhysicalStart + d.NumberOfPages)
         /\ \A f : f \in FramesOf(d) <=> f \in Nat /\ d.PhysicalStart <= f /\ f < End(d)
  <1>1. /\ d.PhysicalStart \in Nat /\ d.NumberOfPages \in Nat \ {0} /\ End(d) = d.PhysicalStart + d.NumberOfPages
        /\ d.kind \in Kinds
    BY Sizes DEF Descriptor, Frames, PageRange, End
  <1>2. End(d) \in Nat /\ End(d) > d.PhysicalStart
    BY <1>1
  <1>3. \A f : f \in FramesOf(d) <=> f \in Nat /\ d.PhysicalStart <= f /\ f < End(d)
    BY <1>1, <1>2 DEF FramesOf, PageRange
  <1>4. FramesOf(d) \subseteq Frames
    BY <1>1, <1>2, <1>3, Sizes DEF Frames, PageRange
  <1>5. FramesOf(d) = PageRange(d.PhysicalStart, d.PhysicalStart + d.NumberOfPages)
    BY <1>1 DEF FramesOf
  <1> QED
    BY <1>1, <1>2, <1>3, <1>4, <1>5

LEMMA DescribedIs ==
  ASSUME NEW kinds, NEW f
  PROVE  f \in Described(kinds) <=> \E i \in DOMAIN map : map[i].kind \in kinds /\ f \in FramesOf(map[i])
  BY DEF Described

LEMMA HolesAre ==
  ASSUME map \in Arrays, NEW f
  PROVE  f \in Holes <=> f \in Frames /\ \A i \in DOMAIN map : f \notin FramesOf(map[i])
  <1>1. \A i \in DOMAIN map : map[i].kind \in Kinds
    BY ArrayIs, DescriptorIs
  <1> QED
    BY <1>1, DescribedIs DEF Holes

-----------------------------------------------------------------------------
(* MapPages on a map under construction.                                   *)

\* What a range mapped as s adds to the frames that are reserved, used or missing.
Adds(s, range, R, U, G, R2, U2, G2) ==
  /\ s = Used => range \cap (R \cup G) = {} /\ R2 = R /\ U2 = U \cup range /\ G2 = G
  /\ s = Reserved => range \cap U = {} /\ R2 = R \cup range /\ U2 = U /\ G2 = G \ range

LEMMA MapPagesDoes ==
  ASSUME NEW R, NEW U, NEW G, Built(R, U, G), asserted = FALSE,
         NEW start \in Nat, NEW n \in Nat \ {0}, start + n <= NumFrames, NEW s \in {Used, Reserved},
         MapPages(start, start, n, s),
         NEW range, range = PageRange(start, start + n), NEW R2, NEW U2, NEW G2,
         Adds(s, range, R, U, G, R2, U2, G2)
  PROVE  asserted' = FALSE /\ BuiltNext(R2, U2, G2)
  <1>0. /\ s = Used => range \cap (R \cup G) = {} /\ R2 = R /\ U2 = U \cup range /\ G2 = G
        /\ s = Reserved => range \cap U = {} /\ R2 = R \cup range /\ U2 = U /\ G2 = G \ range
    BY DEF Adds
  <1>1. start # -1 /\ n > 0 /\ start + n <= NumPages
    BY Sizes
  <1>2. /\ physical' = Tagged(physical, start, start + n, s)
        /\ virtual' = Tagged(virtual, start, start + n, s)
        /\ pte' = [u \in Pages |->
                     IF u \in range
                     THEN [frame |-> IF s = Free THEN 0 ELSE start + (u - start),
                           present |-> s # Free, user |-> s # Free]
                     ELSE pte[u]]
        /\ asserted' = asserted
    BY <1>1 DEF MapPages, Mapping!MapPages, Mapping!Mappable, Mapping!INVALID_ADDRESS, Mapping!NewEntry, Mapping!User,
                Mapping!Pages, Mapping!Tagged, Mapping!PageRange, Mapping!Reserved, Mapping!Free,
                Pages, Tagged, PageRange, Reserved, Free
  <1>3. s # Free /\ (s = Used \/ s = Reserved) /\ Used # Reserved
    BY DEF Used, Reserved, Free
  <1>4. physical' = PhysicalState(R2, U2, G2)
    <2>1. DOMAIN physical = Frames /\ physical = PhysicalState(R, U, G)
      BY DEF Built, PhysicalState
    <2>2. physical' = [f \in Frames |-> IF f \in range /\ physical[f] # Reserved THEN s ELSE physical[f]]
      BY <1>2, <2>1 DEF Tagged
    <2>3. ASSUME NEW f \in Frames PROVE physical'[f] = PhysicalState(R2, U2, G2)[f]
      <3>1. physical'[f] = IF f \in range /\ physical[f] # Reserved THEN s ELSE physical[f]
        BY <2>2
      <3>2. physical[f] = IF f \in R \/ f \in G THEN Reserved ELSE IF f \in U THEN Used ELSE Free
        BY <2>1 DEF PhysicalState
      <3>3. PhysicalState(R2, U2, G2)[f] = IF f \in R2 \/ f \in G2 THEN Reserved ELSE IF f \in U2 THEN Used ELSE Free
        BY DEF PhysicalState
      <3>4. CASE s = Used
        BY <1>0, <1>3, <3>1, <3>2, <3>3, <3>4 DEF Used, Reserved, Free
      <3>5. CASE s = Reserved
        BY <1>0, <1>3, <3>1, <3>2, <3>3, <3>5 DEF Used, Reserved, Free
      <3> QED
        BY <1>3, <3>4, <3>5
    <2>4. physical' = [f \in Frames |-> physical'[f]]
      BY <2>2
    <2>5. PhysicalState(R2, U2, G2) = [f \in Frames |-> PhysicalState(R2, U2, G2)[f]]
      BY DEF PhysicalState
    <2> QED
      BY <2>3, <2>4, <2>5
  <1>5. virtual' = VirtualState(R2, U2)
    <2>1. DOMAIN virtual = Pages /\ virtual = VirtualState(R, U)
      BY DEF Built, VirtualState
    <2>2. virtual' = [v \in Pages |-> IF v \in range /\ virtual[v] # Reserved THEN s ELSE virtual[v]]
      BY <1>2, <2>1 DEF Tagged
    <2>3. ASSUME NEW v \in Pages PROVE virtual'[v] = VirtualState(R2, U2)[v]
      <3>1. virtual'[v] = IF v \in range /\ virtual[v] # Reserved THEN s ELSE virtual[v]
        BY <2>2
      <3>2. virtual[v] = IF v \in R THEN Reserved ELSE IF v \in U THEN Used ELSE Free
        BY <2>1 DEF VirtualState
      <3>3. VirtualState(R2, U2)[v] = IF v \in R2 THEN Reserved ELSE IF v \in U2 THEN Used ELSE Free
        BY DEF VirtualState
      <3>4. CASE s = Used
        BY <1>0, <1>3, <3>1, <3>2, <3>3, <3>4 DEF Used, Reserved, Free
      <3>5. CASE s = Reserved
        BY <1>0, <1>3, <3>1, <3>2, <3>3, <3>5 DEF Used, Reserved, Free
      <3> QED
        BY <1>3, <3>4, <3>5
    <2>4. virtual' = [v \in Pages |-> virtual'[v]]
      BY <2>2
    <2>5. VirtualState(R2, U2) = [v \in Pages |-> VirtualState(R2, U2)[v]]
      BY DEF VirtualState
    <2> QED
      BY <2>3, <2>4, <2>5
  <1>6. pte' = Entries(R2, U2)
    <2>1. ASSUME NEW v \in Pages PROVE pte'[v] = EntryOf(v, v \in R2 \/ v \in U2)
      <3>1. CASE v \in range
        <4>1. v \in R2 \/ v \in U2
          BY <1>0, <1>3, <3>1
        <4>2. v \in Int /\ start + (v - start) = v
          BY Sizes DEF Pages, PageRange
        <4>3. pte'[v] = [frame |-> v, present |-> TRUE, user |-> TRUE]
          BY <1>2, <1>3, <3>1, <4>2
        <4> QED
          BY <4>1, <4>3 DEF EntryOf
      <3>2. CASE v \notin range
        <4>1. pte'[v] = pte[v] /\ pte[v] = EntryOf(v, v \in R \/ v \in U)
          BY <1>2, <3>2 DEF Built, Entries
        <4>2. (v \in R \/ v \in U) <=> (v \in R2 \/ v \in U2)
          BY <1>0, <1>3, <3>2
        <4> QED
          BY <4>1, <4>2 DEF EntryOf
      <3> QED
        BY <3>1, <3>2
    <2>2. pte' = [v \in Pages |-> pte'[v]]
      BY <1>2
    <2> QED
      BY <2>1, <2>2 DEF Entries
  <1> QED
    BY <1>2, <1>4, <1>5, <1>6 DEF BuiltNext

-----------------------------------------------------------------------------
(* The steps.                                                              *)

LEMMA Unchanged ==
  ASSUME Inv, UNCHANGED <<map, framebuffer>>
  PROVE  HandedOver' /\ Holes' = Holes /\ Screen' = Screen
  <1>1. Holes' = Holes /\ Screen' = Screen /\ Described({Reserved})' = Described({Reserved})
    BY DEF Holes, Screen, Described
  <1> QED
    BY <1>1 DEF Inv, HandedOver

\* Frames are in one descriptor only.
LEMMA PassedAre ==
  ASSUME map \in Arrays, NEW i \in DOMAIN map, ~(i < entry), NEW f \in FramesOf(map[i])
  PROVE  f \notin Passed(Used) /\ f \notin Passed(Reserved) /\ f \notin Holes /\ f \in Frames
  <1>1. f \in Frames
    BY ArrayIs, DescriptorIs
  <1>2. ASSUME NEW j \in DOMAIN map, j < entry PROVE f \notin FramesOf(map[j])
    BY <1>2, ArrayIs
  <1> QED
    BY <1>1, <1>2, HolesAre DEF Passed

LEMMA MapDescriptorKeepsInv ==
  ASSUME Inv, MapDescriptor
  PROVE  Inv'
  <1>1. pc = "Map" /\ entry \in DOMAIN map /\ entry' = entry + 1 /\ UNCHANGED <<map, framebuffer, pc, StartP>>
    BY DEF MapDescriptor
  <1>2. entry \in Nat \ {0} /\ StartP = 0 /\ map \in Arrays /\ DOMAIN map \subseteq Nat
    <2>1. map \in Arrays
      BY DEF Inv, HandedOver
    <2>2. DOMAIN map \subseteq Nat
      BY <2>1, ArrayIs
    <2> QED
      BY <1>1, <2>1, <2>2 DEF Inv, Progress
  <1>3. HandedOver' /\ Holes' = Holes
    BY <1>1, Unchanged
  <1>4. Progress'
    <2>1. entry' \in Nat \ {0} /\ entry' - 1 = entry
      BY <1>1, <1>2
    <2> QED
      BY <1>1, <1>2, <2>1 DEF Inv, Progress
  <1>5. Boundary'
    BY <1>1 DEF Inv, Boundary, End
  <1>6. PICK d : d = map[entry]
    OBVIOUS
  <1>7. d \in Descriptor /\ End(d) <= NumFrames
    BY <1>1, <1>2, <1>6, ArrayIs
  <1>8. \A i \in DOMAIN map : i < entry' <=> (i < entry \/ i = entry)
    BY <1>1, <1>2
  <1>9. ASSUME NEW kind PROVE Passed(kind)' = IF d.kind = kind THEN Passed(kind) \cup FramesOf(d) ELSE Passed(kind)
    <2>1. \A f : f \in Passed(kind)' <=> f \in Passed(kind) \/ (d.kind = kind /\ f \in FramesOf(d))
      <3>1. FramesOf(d) \subseteq Frames
        BY <1>7, DescriptorIs
      <3>2. \A f : f \in Passed(kind)' <=> /\ f \in Frames
                                          /\ \E i \in DOMAIN map : i < entry' /\ map[i].kind = kind /\ f \in FramesOf(map[i])
        BY <1>1 DEF Passed, FramesOf, End
      <3> QED
        BY <1>1, <1>6, <1>8, <3>1, <3>2 DEF Passed
    <2> QED
      BY <2>1
  <1>10. Shown = {} /\ Shown' = {}
    BY <1>1 DEF Shown
  <1>11. {h \in Holes : h < StartP} \ Shown = {} /\ ({h \in Holes : h < StartP} \ Shown)' = {}
    <2>1. \A h \in Holes : ~(h < 0)
      BY Sizes DEF Holes, Frames, PageRange
    <2> QED
      BY <1>1, <1>2, <1>3, <2>1
  <1>12. Built(Passed(Reserved), Passed(Used), {}) /\ asserted = FALSE /\ regions = {}
    <2>1. Passed(Reserved) \cup Shown = Passed(Reserved)
      BY <1>10
    <2> QED
      BY <1>11, <2>1 DEF Inv
  <1>13. SUFFICES /\ asserted' = FALSE /\ regions' = {}
                  /\ physical' = PhysicalState(Passed(Reserved)', Passed(Used)', {})
                  /\ virtual' = VirtualState(Passed(Reserved)', Passed(Used)')
                  /\ pte' = Entries(Passed(Reserved)', Passed(Used)')
    <2>1. (Passed(Reserved) \cup Shown)' = Passed(Reserved)'
      BY <1>10
    <2>2. Built(Passed(Reserved) \cup Shown, Passed(Used), {h \in Holes : h < StartP} \ Shown)'
      BY <1>11, <1>13, <2>1 DEF Built
    <2> QED
      BY <1>3, <1>4, <1>5, <1>13, <2>2 DEF Inv
  <1>14. CASE d.kind = Free
    <2>1. UNCHANGED maps
      BY <1>6, <1>14 DEF MapDescriptor
    <2>2. Passed(Reserved)' = Passed(Reserved) /\ Passed(Used)' = Passed(Used)
      BY <1>9, <1>14 DEF Free, Reserved, Used
    <2> QED
      BY <1>12, <2>1, <2>2 DEF maps, Built
  <1>15. CASE d.kind # Free
    <2>1. MapPages(d.PhysicalStart, d.PhysicalStart, d.NumberOfPages, NewState(d)) /\ regions' = regions
      BY <1>6, <1>15 DEF MapDescriptor
    <2>2. PICK s : s = NewState(d)
      OBVIOUS
    <2>3. s = d.kind /\ s \in {Used, Reserved}
      BY <1>7, <1>15, <2>2, DescriptorIs DEF NewState, Kinds
    <2>4. /\ d.PhysicalStart \in Nat /\ d.NumberOfPages \in Nat \ {0} /\ d.PhysicalStart + d.NumberOfPages <= NumFrames
          /\ FramesOf(d) = PageRange(d.PhysicalStart, d.PhysicalStart + d.NumberOfPages)
      BY <1>7, DescriptorIs
    <2>5. \A f \in FramesOf(d) : f \notin Passed(Used) /\ f \notin Passed(Reserved)
      BY <1>1, <1>2, <1>6, PassedAre
    <2>6. PICK R, U, R2, U2, G, range :
            /\ R = Passed(Reserved) /\ U = Passed(Used) /\ R2 = Passed(Reserved)' /\ U2 = Passed(Used)'
            /\ G = {} /\ range = FramesOf(d)
      OBVIOUS
    <2>7. s = Used => range \cap (R \cup G) = {} /\ R2 = R /\ U2 = U \cup range /\ G = G
      BY <1>9, <2>3, <2>5, <2>6 DEF Reserved, Used
    <2>8. s = Reserved => range \cap U = {} /\ R2 = R \cup range /\ U2 = U /\ G = G \ range
      BY <1>9, <2>3, <2>5, <2>6 DEF Reserved, Used
    <2>9. PICK start \in Nat, n \in Nat \ {0} : start = d.PhysicalStart /\ n = d.NumberOfPages
      BY <2>4
    <2>10. /\ Built(R, U, G) /\ MapPages(start, start, n, s) /\ start + n <= NumFrames
           /\ range = PageRange(start, start + n) /\ asserted = FALSE
      BY <1>12, <2>1, <2>2, <2>4, <2>6, <2>9
    <2>11. asserted' = FALSE /\ BuiltNext(R2, U2, G)
      <3>1. Adds(s, range, R, U, G, R2, U2, G)
        BY <2>7, <2>8 DEF Adds
      <3> QED
        BY <2>3, <2>10, <3>1, MapPagesDoes
    <2> QED
      BY <1>12, <2>1, <2>6, <2>11 DEF BuiltNext
  <1> QED
    BY <1>14, <1>15

LEMMA MapDoneKeepsInv ==
  ASSUME Inv, MapDone
  PROVE  Inv'
  <1>1. /\ pc = "Map" /\ entry \notin DOMAIN map /\ pc' = "Gaps"
        /\ UNCHANGED <<map, framebuffer, physical, virtual, pte, regions, asserted, entry, StartP>>
    BY DEF MapDone, maps
  <1>2. HandedOver' /\ Progress' /\ Boundary'
    BY <1>1, Unchanged DEF Inv, Progress, Boundary, End
  <1>3. /\ (Passed(Reserved) \cup Shown)' = Passed(Reserved) \cup Shown /\ Passed(Used)' = Passed(Used)
        /\ ({h \in Holes : h < StartP} \ Shown)' = {h \in Holes : h < StartP} \ Shown
    <2>1. Shown = {} /\ Shown' = {} /\ Holes' = Holes
      BY <1>1, Unchanged DEF Shown
    <2>2. Passed(Reserved)' = Passed(Reserved) /\ Passed(Used)' = Passed(Used)
      BY <1>1 DEF Passed, FramesOf, End
    <2> QED
      BY <1>1, <2>1, <2>2
  <1>4. Built(Passed(Reserved) \cup Shown, Passed(Used), {h \in Holes : h < StartP} \ Shown)'
    BY <1>1, <1>3 DEF Inv, Built
  <1> QED
    BY <1>1, <1>2, <1>4 DEF Inv

\* The walk is in the second loop: nothing but holes changes.
LEMMA GapsKeeps ==
  ASSUME Inv, pc = "Gaps", UNCHANGED <<map, framebuffer, virtual, pte, regions, asserted, entry>>, pc' # "Done",
         Progress', Boundary', physical' = PhysicalState(Passed(Reserved), Passed(Used), {h \in Holes : h < StartP'})
  PROVE  Inv'
  <1>1. HandedOver' /\ Holes' = Holes
    BY Unchanged
  <1>2. Shown = {} /\ Shown' = {}
    BY DEF Shown
  <1>3. Passed(Reserved)' = Passed(Reserved) /\ Passed(Used)' = Passed(Used)
    BY DEF Passed, FramesOf, End
  <1>4. /\ (Passed(Reserved) \cup Shown)' = Passed(Reserved) /\ Passed(Reserved) \cup Shown = Passed(Reserved)
        /\ ({h \in Holes : h < StartP} \ Shown)' = {h \in Holes : h < StartP'}
    BY <1>1, <1>2, <1>3
  <1>5. Built(Passed(Reserved) \cup Shown, Passed(Used), {h \in Holes : h < StartP} \ Shown)'
    BY <1>3, <1>4 DEF Inv, Built
  <1> QED
    BY <1>1, <1>5 DEF Inv

LEMMA GapsState ==
  ASSUME Inv, pc # "Done"
  PROVE  physical = PhysicalState(Passed(Reserved), Passed(Used), {h \in Holes : h < StartP})
  <1>1. Passed(Reserved) \cup Shown = Passed(Reserved) /\ {h \in Holes : h < StartP} \ Shown = {h \in Holes : h < StartP}
    BY DEF Shown
  <1> QED
    BY <1>1 DEF Inv, Built

\* Between two descriptors the walk stands at the start of one or in a hole.
LEMMA DescriptorAhead ==
  ASSUME Inv, NEW i \in DOMAIN map
  PROVE  /\ map[i] \in Descriptor /\ End(map[i]) <= NumFrames /\ map \in Arrays
         /\ map[i].PhysicalStart \in Nat /\ End(map[i]) \in Nat /\ map[i].PhysicalStart < End(map[i])
         /\ \A f : f \in FramesOf(map[i]) <=> f \in Nat /\ map[i].PhysicalStart <= f /\ f < End(map[i])
         /\ End(map[i]) <= StartP \/ map[i].PhysicalStart >= StartP
  <1>1. map \in Arrays /\ (End(map[i]) <= StartP \/ map[i].PhysicalStart >= StartP)
    BY DEF Inv, HandedOver, Boundary
  <1>2. map[i] \in Descriptor /\ End(map[i]) <= NumFrames
    BY <1>1, ArrayIs
  <1> QED
    BY <1>1, <1>2, DescriptorIs

LEMMA SkipDescriptorKeepsInv ==
  ASSUME Inv, SkipDescriptor
  PROVE  Inv'
  <1>1. /\ pc = "Gaps" /\ pc' = pc
        /\ UNCHANGED <<map, framebuffer, physical, virtual, pte, regions, asserted, entry>>
    BY DEF SkipDescriptor, maps
  <1>2. PICK i \in DOMAIN map : map[i].PhysicalStart = StartP /\ StartP' = End(map[i])
    BY DEF SkipDescriptor, StartsAt
  <1>3. StartP \in Nat /\ StartP' \in Nat /\ StartP < StartP' /\ StartP' <= NumFrames
    BY <1>2, DescriptorAhead
  <1>4. Progress'
    BY <1>1, <1>3, Sizes DEF Inv, Progress
  <1>5. Boundary'
    <2>1. ASSUME NEW j \in DOMAIN map PROVE End(map[j]) <= StartP' \/ map[j].PhysicalStart >= StartP'
      <3> SUFFICES ASSUME map[j].PhysicalStart < StartP', End(map[j]) > StartP' PROVE FALSE
        BY <1>3, DescriptorAhead
      <3>1. PICK s : s = map[j].PhysicalStart
        OBVIOUS
      <3>2. s \in Nat /\ s >= StartP /\ s < End(map[i]) /\ s \in FramesOf(map[j])
        BY <1>2, <1>3, <3>1, DescriptorAhead
      <3>3. s \in FramesOf(map[i])
        BY <1>2, <3>2, DescriptorAhead
      <3>4. j # i
        BY <1>2, <1>3
      <3>5. FramesOf(map[i]) \cap FramesOf(map[j]) = {}
        BY <3>4, ArrayIs, DescriptorAhead
      <3> QED
        BY <3>2, <3>3, <3>5
    <2> QED
      BY <1>1, <2>1 DEF Boundary, End
  <1>6. {h \in Holes : h < StartP'} = {h \in Holes : h < StartP}
    <2>1. ASSUME NEW h \in Holes, h < StartP' PROVE h < StartP
      <3>1. h \in Nat /\ h \notin FramesOf(map[i])
        BY <2>1, HolesAre, DescriptorAhead, Sizes DEF Frames, PageRange
      <3> QED
        BY <1>2, <1>3, <2>1, <3>1, DescriptorAhead
    <2>2. ASSUME NEW h \in Holes, h < StartP PROVE h < StartP'
      <3>1. h \in Nat
        BY <2>2, HolesAre, DescriptorAhead, Sizes DEF Frames, PageRange
      <3> QED
        BY <1>3, <2>2, <3>1
    <2> QED
      BY <2>1, <2>2
  <1> QED
    BY <1>1, <1>4, <1>5, <1>6, GapsKeeps, GapsState

LEMMA ReserveGapKeepsInv ==
  ASSUME Inv, ReserveGap
  PROVE  Inv'
  <1>1. /\ pc = "Gaps" /\ pc' = pc /\ StartP # NumFrames /\ StartsAt(StartP) = {}
        /\ UNCHANGED <<map, framebuffer, virtual, pte, regions, entry>>
    BY DEF ReserveGap
  <1>2. StartP \in Nat /\ StartP < NumFrames /\ map \in Arrays
    BY <1>1, Sizes DEF Inv, Progress, HandedOver
  <1>3. \A i \in DOMAIN map : map[i].PhysicalStart # StartP
    BY <1>1 DEF StartsAt
  <1>4. ASSUME NEW i \in DOMAIN map, map[i].PhysicalStart >= StartP PROVE map[i].PhysicalStart \in StartsAbove(StartP)
    <2>1. map[i].PhysicalStart \in Frames /\ map[i].PhysicalStart > StartP
      BY <1>2, <1>3, <1>4, DescriptorAhead, Sizes DEF Frames, PageRange
    <2> QED
      BY <2>1 DEF StartsAbove
  <1>5. StartsAbove(StartP) # {}
    <2>1. PICK i \in DOMAIN map : End(map[i]) = NumFrames
      BY <1>2, ArrayIs
    <2>2. map[i].PhysicalStart >= StartP
      BY <1>2, <2>1, DescriptorAhead, Sizes
    <2> QED
      BY <1>4, <2>2
  <1>6. PICK lowest \in StartsAbove(StartP) :
          /\ \A q \in StartsAbove(StartP) : lowest <= q
          /\ physical' = Tagged(physical, StartP, lowest, Reserved)
          /\ StartP' = lowest /\ asserted' = asserted
    BY <1>5 DEF ReserveGap
  <1>7. lowest \in Nat /\ lowest > StartP /\ lowest < NumFrames
    BY <1>2, <1>6, Sizes DEF StartsAbove, Frames, PageRange
  <1>8. Progress'
    BY <1>1, <1>6, <1>7, Sizes DEF Inv, Progress
  <1>9. ASSUME NEW i \in DOMAIN map PROVE End(map[i]) <= StartP \/ map[i].PhysicalStart >= lowest
    BY <1>4, <1>6, DescriptorAhead
  <1>10. Boundary'
    <2>1. \A i \in DOMAIN map : End(map[i]) <= lowest \/ map[i].PhysicalStart >= lowest
      BY <1>2, <1>7, <1>9, DescriptorAhead
    <2> QED
      BY <1>1, <1>6, <2>1 DEF Boundary, End
  <1>11. ASSUME NEW f \in Frames
         PROVE  f \in {h \in Holes : h < lowest} <=> f \in {h \in Holes : h < StartP} \/ f \in PageRange(StartP, lowest)
    <2>1. f \in Nat
      BY Sizes DEF Frames, PageRange
    <2>2. f \in PageRange(StartP, lowest) <=> StartP <= f /\ f < lowest
      BY <1>2, <1>7, <2>1 DEF PageRange
    <2>3. ASSUME StartP <= f, f < lowest PROVE f \in Holes
      <3>1. \A i \in DOMAIN map : f \notin FramesOf(map[i])
        BY <1>2, <1>7, <1>9, <2>1, <2>3, DescriptorAhead
      <3> QED
        BY <1>2, <3>1, HolesAre
    <2>4. f < lowest <=> f < StartP \/ (StartP <= f /\ f < lowest)
      BY <1>2, <1>7, <2>1
    <2> QED
      BY <2>2, <2>3, <2>4
  <1>12. physical' = PhysicalState(Passed(Reserved), Passed(Used), {h \in Holes : h < lowest})
    <2>1. PICK R, U, G, G2 : /\ R = Passed(Reserved) /\ U = Passed(Used)
                             /\ G = {h \in Holes : h < StartP} /\ G2 = {h \in Holes : h < lowest}
      OBVIOUS
    <2>2. physical = PhysicalState(R, U, G)
      BY <1>1, <2>1, GapsState
    <2>3. physical' = [f \in Frames |-> IF f \in PageRange(StartP, lowest) /\ physical[f] # Reserved THEN Reserved ELSE physical[f]]
      BY <1>6, <2>2 DEF Tagged, PhysicalState
    <2>4. ASSUME NEW f \in Frames PROVE physical'[f] = PhysicalState(R, U, G2)[f]
      <3>1. f \in G2 <=> f \in G \/ f \in PageRange(StartP, lowest)
        BY <1>11, <2>1
      <3>2. physical'[f] = IF f \in PageRange(StartP, lowest) /\ physical[f] # Reserved THEN Reserved ELSE physical[f]
        BY <2>3
      <3>3. physical[f] = IF f \in R \/ f \in G THEN Reserved ELSE IF f \in U THEN Used ELSE Free
        BY <2>2 DEF PhysicalState
      <3>4. PhysicalState(R, U, G2)[f] = IF f \in R \/ f \in G2 THEN Reserved ELSE IF f \in U THEN Used ELSE Free
        BY DEF PhysicalState
      <3> QED
        BY <3>1, <3>2, <3>3, <3>4
    <2>5. physical' = [f \in Frames |-> physical'[f]]
      BY <2>3
    <2>6. PhysicalState(R, U, G2) = [f \in Frames |-> PhysicalState(R, U, G2)[f]]
      BY DEF PhysicalState
    <2>7. physical' = PhysicalState(R, U, G2)
      BY <2>4, <2>5, <2>6
    <2> QED
      BY <2>1, <2>7
  <1> QED
    BY <1>1, <1>6, <1>8, <1>10, <1>12, GapsKeeps

LEMMA GapsDoneKeepsInv ==
  ASSUME Inv, GapsDone
  PROVE  Inv'
  <1>1. /\ pc = "Gaps" /\ pc' = "Framebuffer" /\ StartP = NumFrames
        /\ UNCHANGED <<map, framebuffer, physical, virtual, pte, regions, asserted, entry, StartP>>
    BY DEF GapsDone, maps
  <1>2. Progress' /\ Boundary'
    BY <1>1 DEF Inv, Progress, Boundary, End
  <1> QED
    BY <1>1, <1>2, GapsKeeps, GapsState

\* Once both loops are over, all is passed.
LEMMA AllPassed ==
  ASSUME Inv, pc \in {"Framebuffer", "Done"}
  PROVE  /\ Passed(Reserved) = Described({Reserved}) /\ Passed(Used) = Described({Used})
         /\ {h \in Holes : h < StartP} = Holes
  <1>1. map \in Arrays /\ StartP = NumFrames /\ entry \in Nat \ {0} /\ (entry = 1 \/ entry - 1 \in DOMAIN map)
        /\ entry \notin DOMAIN map
    BY DEF Inv, HandedOver, Progress
  <1>2. \A i \in DOMAIN map : i < entry
    <2>1. PICK n \in Nat : DOMAIN map = 1 .. n
      BY <1>1, ArrayIs
    <2> QED
      BY <1>1, <2>1
  <1>3. ASSUME NEW kind PROVE Passed(kind) = Described({kind})
    <2>1. \A f : f \in Passed(kind) <=> f \in Described({kind})
      <3>1. \A i \in DOMAIN map : FramesOf(map[i]) \subseteq Frames
        BY <1>1, ArrayIs, DescriptorIs
      <3> QED
        BY <1>2, <3>1, DescribedIs DEF Passed
    <2> QED
      BY <2>1
  <1>4. \A h \in Holes : h < StartP
    BY <1>1, HolesAre, Sizes DEF Frames, PageRange
  <1> QED
    BY <1>3, <1>4

\* A device is nowhere the kernel or its data are.
LEMMA ScreenIs ==
  ASSUME Inv
  PROVE  /\ framebuffer.start \in Nat /\ framebuffer.pages \in Nat \ {0}
         /\ framebuffer.start + framebuffer.pages <= NumFrames
         /\ Screen \cap Described({Used}) = {} /\ Screen \subseteq Frames
  <1>1. map \in Arrays /\ framebuffer \in [start : Frames, pages : 1 .. 2] /\ Screen \subseteq Described({Reserved}) \cup Holes
    BY DEF Inv, HandedOver
  <1>2. framebuffer.start \in Nat /\ framebuffer.pages \in Nat \ {0}
    BY <1>1, Sizes DEF Frames, PageRange
  <1>3. Screen \subseteq Frames
    <2>1. \A f \in Described({Reserved}) : f \in Frames
      BY <1>1, DescribedIs, ArrayIs, DescriptorIs
    <2> QED
      BY <1>1, <2>1, HolesAre
  <1>4. framebuffer.start + framebuffer.pages <= NumFrames
    <2>1. PICK s \in Nat, n \in Nat \ {0} : s = framebuffer.start /\ n = framebuffer.pages
      BY <1>2
    <2>2. s + n - 1 \in Screen
      BY <2>1 DEF Screen, PageRange
    <2>3. s + n - 1 < NumFrames
      BY <1>3, <2>2, Sizes DEF Frames, PageRange
    <2> QED
      BY <2>1, <2>3, Sizes
  <1>5. ASSUME NEW f \in Screen, f \in Described({Used}) PROVE FALSE
    <2>1. PICK i \in DOMAIN map : map[i].kind = Used /\ f \in FramesOf(map[i])
      BY <1>5, DescribedIs
    <2>2. f \notin Holes
      BY <1>1, <2>1, HolesAre
    <2>3. PICK j \in DOMAIN map : map[j].kind = Reserved /\ f \in FramesOf(map[j])
      BY <1>1, <1>5, <2>2, DescribedIs
    <2>4. i # j
      BY <2>1, <2>3 DEF Used, Reserved
    <2> QED
      BY <1>1, <2>1, <2>3, <2>4, ArrayIs
  <1> QED
    BY <1>2, <1>3, <1>4, <1>5

LEMMA MapFramebufferKeepsInv ==
  ASSUME Inv, MapFramebuffer
  PROVE  Inv'
  <1>1. /\ pc = "Framebuffer" /\ pc' = "Done" /\ UNCHANGED <<map, framebuffer, regions, entry, StartP>>
        /\ MapPages(framebuffer.start, framebuffer.start, framebuffer.pages, Reserved)
    BY DEF MapFramebuffer
  <1>2. HandedOver' /\ Holes' = Holes /\ Screen' = Screen
    BY <1>1, Unchanged
  <1>3. Progress' /\ Boundary'
    BY <1>1 DEF Inv, Progress, Boundary, End
  <1>4. Shown = {} /\ Shown' = Screen
    BY <1>1, <1>2 DEF Shown
  <1>5. Passed(Reserved)' = Passed(Reserved) /\ Passed(Used)' = Passed(Used)
    BY <1>1 DEF Passed, FramesOf, End
  <1>6. PICK R, U, G, R2, G2, range :
          /\ R = Passed(Reserved) /\ U = Passed(Used) /\ G = {h \in Holes : h < StartP}
          /\ range = Screen /\ R2 = R \cup range /\ G2 = G \ range
    OBVIOUS
  <1>7. Built(R, U, G) /\ asserted = FALSE /\ regions = {}
    <2>1. Passed(Reserved) \cup Shown = R /\ {h \in Holes : h < StartP} \ Shown = G
      BY <1>4, <1>6
    <2> QED
      BY <1>6, <2>1 DEF Inv
  <1>8. PICK start \in Nat, n \in Nat \ {0} : start = framebuffer.start /\ n = framebuffer.pages
    BY ScreenIs
  <1>9. PICK s \in {Used, Reserved} : s = Reserved
    OBVIOUS
  <1>10. MapPages(start, start, n, s) /\ start + n <= NumFrames /\ range = PageRange(start, start + n)
    BY <1>1, <1>6, <1>8, <1>9, ScreenIs DEF Screen
  <1>11. Adds(s, range, R, U, G, R2, U, G2)
    <2>1. range \cap U = {}
      BY <1>1, <1>6, AllPassed, ScreenIs
    <2> QED
      BY <1>6, <1>9, <2>1 DEF Adds, Used, Reserved
  <1>12. asserted' = FALSE /\ BuiltNext(R2, U, G2)
    BY <1>7, <1>10, <1>11, MapPagesDoes
  <1>13. /\ (Passed(Reserved) \cup Shown)' = R2 /\ Passed(Used)' = U
         /\ ({h \in Holes : h < StartP} \ Shown)' = G2
    BY <1>1, <1>2, <1>4, <1>5, <1>6
  <1>14. Built(Passed(Reserved) \cup Shown, Passed(Used), {h \in Holes : h < StartP} \ Shown)'
    BY <1>12, <1>13 DEF Built, BuiltNext
  <1> QED
    BY <1>1, <1>2, <1>3, <1>7, <1>12, <1>14 DEF Inv

-----------------------------------------------------------------------------
(* The invariant, and what follows from it.                                *)

LEMMA InitInv == Init => Inv
  <1> SUFFICES ASSUME Init PROVE Inv
    OBVIOUS
  <1>1. HandedOver
    BY DEF Init, HandedOver, Screen
  <1>2. map \in Arrays
    BY <1>1 DEF HandedOver
  <1>3. PICK k \in Nat : DOMAIN map = 1 .. k
    BY <1>2, ArrayIs
  <1>4. Progress
    BY Sizes DEF Init, Progress
  <1>5. Boundary
    <2>1. \A i \in DOMAIN map : map[i].PhysicalStart >= 0
      BY <1>2, ArrayIs, DescriptorIs
    <2> QED
      BY <2>1 DEF Init, Boundary
  <1>6. \A i \in DOMAIN map : ~(i < entry)
    BY <1>3 DEF Init
  <1>7. /\ Passed(Reserved) \cup Shown = {} /\ Passed(Used) = {}
        /\ {h \in Holes : h < StartP} \ Shown = {}
    <2>1. \A h \in Holes : ~(h < 0)
      BY Sizes DEF Holes, Frames, PageRange
    <2>2. Shown = {} /\ StartP = 0
      BY DEF Shown, Init
    <2> QED
      BY <1>6, <2>1, <2>2 DEF Passed
  <1>8. Built({}, {}, {})
    <2>1. physical = PhysicalState({}, {}, {})
      BY DEF Init, PhysicalState
    <2>2. virtual = VirtualState({}, {})
      BY DEF Init, VirtualState
    <2>3. pte = Entries({}, {})
      BY DEF Init, Entries, EntryOf
    <2> QED
      BY <2>1, <2>2, <2>3 DEF Built
  <1>9. Built(Passed(Reserved) \cup Shown, Passed(Used), {h \in Holes : h < StartP} \ Shown)
    BY <1>7, <1>8
  <1> QED
    BY <1>1, <1>4, <1>5, <1>9 DEF Inv, Init

LEMMA NextKeepsInv == Inv /\ [Next]_vars => Inv'
  <1> SUFFICES ASSUME Inv, [Next]_vars PROVE Inv'
    OBVIOUS
  <1>1. CASE UNCHANGED vars
    <2>1. UNCHANGED <<map, framebuffer, physical, virtual, pte, regions, asserted, pc, entry, StartP>>
      BY <1>1 DEF vars, maps
    <2>2. HandedOver' /\ Progress' /\ Boundary' /\ Holes' = Holes /\ Screen' = Screen
      BY <2>1, Unchanged DEF Inv, Progress, Boundary, End
    <2>3. Shown' = Shown
      BY <2>1, <2>2 DEF Shown
    <2>4. Passed(Reserved)' = Passed(Reserved) /\ Passed(Used)' = Passed(Used)
      BY <2>1 DEF Passed, FramesOf, End
    <2>5. /\ (Passed(Reserved) \cup Shown)' = Passed(Reserved) \cup Shown
          /\ ({h \in Holes : h < StartP} \ Shown)' = {h \in Holes : h < StartP} \ Shown
      BY <2>1, <2>2, <2>3, <2>4
    <2>6. Built(Passed(Reserved) \cup Shown, Passed(Used), {h \in Holes : h < StartP} \ Shown)'
      BY <2>1, <2>4, <2>5 DEF Inv, Built
    <2> QED
      BY <2>1, <2>2, <2>6 DEF Inv
  <1> QED
    BY <1>1, MapDescriptorKeepsInv, MapDoneKeepsInv, SkipDescriptorKeepsInv, ReserveGapKeepsInv, GapsDoneKeepsInv,
       MapFramebufferKeepsInv DEF Next

\* In every state the invariant above holds.
THEOREM AlwaysInv == Spec => []Inv
  <1>1. Init => Inv
    BY InitInv
  <1>2. Inv /\ [Next]_vars => Inv'
    BY NextKeepsInv
  <1> QED
    BY <1>1, <1>2, PTL DEF Spec

\* What was built is what Mapping starts from.
LEMMA BuiltIsInit ==
  ASSUME NEW R, NEW U, NEW G, Built(R, U, G), regions = {}, asserted = FALSE
  PROVE  Mapping(R, U, G)!Init
  <1>1. physical = [f \in Frames |-> IF f \in R \cup G THEN Reserved ELSE IF f \in U THEN Used ELSE Free]
    BY DEF Built, PhysicalState
  <1>2. virtual = [v \in Pages |-> IF v \in R THEN Reserved ELSE IF v \in U THEN Used ELSE Free]
    BY DEF Built, VirtualState
  <1>3. pte = [v \in Pages |-> [frame |-> IF v \in R \cup U THEN v ELSE 0, present |-> v \in R \cup U, user |-> v \in R \cup U]]
    <2>1. \A v \in Pages : (v \in R \/ v \in U) = (v \in R \cup U)
      OBVIOUS
    <2> QED
      BY <2>1 DEF Built, Entries, EntryOf
  <1> QED
    BY <1>1, <1>2, <1>3 DEF Mapping!Init, Mapping!Frames, Mapping!Pages, Mapping!PageRange, Mapping!Reserved, Mapping!Used,
       Mapping!Free, Frames, Pages, PageRange, Reserved, Used, Free

\* The reserved frames, the used ones and those that do not exist, once all is done.
LEMMA DoneBuilt ==
  ASSUME Inv, pc = "Done"
  PROVE  /\ Built(Described({Reserved}) \cup Screen, Described({Used}), Holes \ Screen)
         /\ Described({Reserved}) \cup Screen \subseteq Frames /\ Described({Used}) \subseteq Frames
         /\ Holes \ Screen \subseteq Frames
         /\ (Described({Reserved}) \cup Screen) \cap Described({Used}) = {}
         /\ (Described({Reserved}) \cup Screen) \cap (Holes \ Screen) = {}
         /\ Described({Used}) \cap (Holes \ Screen) = {}
  <1>1. map \in Arrays
    BY DEF Inv, HandedOver
  <1>2. Shown = Screen
    BY DEF Shown
  <1>3. Built(Described({Reserved}) \cup Screen, Described({Used}), Holes \ Screen)
    BY <1>2, AllPassed DEF Inv
  <1>4. \A kind : \A f \in Described({kind}) : f \in Frames /\ f \notin Holes
    BY <1>1, DescribedIs, HolesAre, ArrayIs, DescriptorIs
  <1>5. ASSUME NEW f \in Described({Reserved}), f \in Described({Used}) PROVE FALSE
    <2>1. PICK i \in DOMAIN map : map[i].kind = Used /\ f \in FramesOf(map[i])
      BY <1>5, DescribedIs
    <2>2. PICK j \in DOMAIN map : map[j].kind = Reserved /\ f \in FramesOf(map[j])
      BY <1>5, DescribedIs
    <2>3. i # j
      BY <2>1, <2>2 DEF Used, Reserved
    <2> QED
      BY <1>1, <2>1, <2>2, <2>3, ArrayIs
  <1>6. Holes \subseteq Frames
    BY DEF Holes
  <1> QED
    BY <1>3, <1>4, <1>5, <1>6, ScreenIs

LEMMA DoneIsMapping == Inv => EstablishesMapping
  <1> SUFFICES ASSUME Inv, pc = "Done" PROVE EstablishesMapping
    BY DEF EstablishesMapping
  <1>1. PICK R, U, G : R = Described({Reserved}) \cup Screen /\ U = Described({Used}) /\ G = Holes \ Screen
    OBVIOUS
  <1>2. Built(R, U, G) /\ R \in SUBSET Frames /\ U \in SUBSET Frames /\ G \in SUBSET Frames
    BY <1>1, DoneBuilt
  <1>3. regions = {} /\ asserted = FALSE
    BY DEF Inv
  <1>4. Mapping(R, U, G)!Init
    BY <1>2, <1>3, BuiltIsInit
  <1> QED
    BY <1>1, <1>2, <1>4 DEF EstablishesMapping, Screen

\* BootAssumption of Mapping, for the frames that this boot found.
MeetsBootAssumption ==
  LET R == Described({Reserved}) \cup Screen
      U == Described({Used})
      G == Holes \ Screen
  IN  pc = "Done" => /\ R \subseteq Frames /\ U \subseteq Frames /\ G \subseteq Frames
                     /\ R \cap U = {} /\ R \cap G = {} /\ U \cap G = {}

\* BuildPML4 hands over the initial state of Mapping, for memory of any size and
\* any number of descriptors in any order, with any holes between them.
THEOREM BootBuildsMapping == Spec => []EstablishesMapping
  <1>1. Inv => EstablishesMapping
    BY DoneIsMapping
  <1> QED
    BY <1>1, AlwaysInv, PTL

\* And what it hands over satisfies what the theorems of MappingProofs assume of
\* a machine, so that they hold of every machine that boots.
THEOREM BootMeetsAssumption == Spec => []MeetsBootAssumption
  <1>1. Inv => MeetsBootAssumption
    BY DoneBuilt DEF MeetsBootAssumption
  <1> QED
    BY <1>1, AlwaysInv, PTL

\* No assertion of BuildPML4 or of the MapPages it calls fails; above all the one
\* that there is a descriptor above every hole.
THEOREM BootNeverAsserts == Spec => []~asserted
  <1>1. Inv => ~asserted
    BY DEF Inv
  <1> QED
    BY <1>1, AlwaysInv, PTL

=============================================================================
