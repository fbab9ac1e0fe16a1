----------------------------- MODULE FilesProofs ----------------------------
(***************************************************************************)
(* The file system calls with any files, paths, sizes and offsets, and a   *)
(* table of any size a handle has bits for.                                *)
(***************************************************************************)
EXTENDS Files, SequenceTheorems, WellFoundedInduction, TLAPS

Mount(root, volume) == [root |-> root, volume |-> volume]
FatRoot  == Mount(<<Empty, Empty>>, "fat")
ProcRoot == Mount(<<Empty, "proc", Empty>>, "proc")
DevRoot  == Mount(<<Empty, "dev", Empty>>, "dev")

Roots == {<<"stdin">>, <<"stdout">>, <<"stderr">>, <<"keyboard">>, <<Empty, Empty>>,
          <<Empty, "proc", Empty>>, <<Empty, "dev", Empty>>} \cup CdRomRoots
Entry == [root : Roots, volume : {"stdio", "proc", "dev", "cdrom", "fat"}]
Table == [0 .. 7 -> Seq(Entry)]

\* What InitFS leaves, and no call changes: a page for each number of slashes.
Mounted(table) ==
    /\ table \in Table
    /\ Len(table[0]) = 4
    /\ \A i \in 1 .. 4 : table[0][i].volume = "stdio" /\ Len(table[0][i].root) = 1
    /\ Len(table[1]) = 1 /\ table[1][1] = FatRoot
    /\ Len(table[2]) = 2 /\ table[2][1] = ProcRoot /\ table[2][2] = DevRoot
    /\ \A k \in 3 .. 6 : \A i \in 1 .. Len(table[k]) : Last(table[k][i].root) = "0"
    /\ Len(table[7]) = 0

FileNumbers == 0 .. 2^21 - 1
FatHandle(i) == 2^28 + 2 * i
ProcHandle == 2^29
DevHandle == 2^29 + 2^25

-----------------------------------------------------------------------------
(* The bits of a handle.                                                   *)

LEMMA Powers == /\ 2^21 = 2097152 /\ 2^25 = 33554432 /\ 2^28 = 268435456
                /\ 2^29 = 536870912 /\ 2^30 = 1073741824
  BY SMT

LEMMA HandleBits ==
  /\ \A i \in FileNumbers : /\ SegmentsOf(FatHandle(i)) = 1 /\ VolumeOf(FatHandle(i)) = 0
                              /\ FileOf(FatHandle(i)) = i
                              /\ FatHandle(i) \in 4 .. 2^29 - 1
  /\ SegmentsOf(ProcHandle) = 2 /\ VolumeOf(ProcHandle) = 0
  /\ SegmentsOf(DevHandle) = 2 /\ VolumeOf(DevHandle) = 1
  /\ \A h \in 0 .. 3 : SegmentsOf(h) = 0 /\ VolumeOf(h) = 0
  /\ SegmentsOf(-2) = 7
  <1>1. ASSUME NEW i \in FileNumbers
        PROVE  /\ SegmentsOf(FatHandle(i)) = 1 /\ VolumeOf(FatHandle(i)) = 0
               /\ FileOf(FatHandle(i)) = i /\ FatHandle(i) \in 4 .. 2^29 - 1
    BY Powers, SMT DEF Bits, SegmentsOf, VolumeOf, FileOf, FatHandle, FileNumbers
  <1>2. /\ SegmentsOf(ProcHandle) = 2 /\ VolumeOf(ProcHandle) = 0
        /\ SegmentsOf(DevHandle) = 2 /\ VolumeOf(DevHandle) = 1
    BY Powers, SMT DEF Bits, SegmentsOf, VolumeOf, ProcHandle, DevHandle
  <1>3. \A h \in 0 .. 3 : SegmentsOf(h) = 0 /\ VolumeOf(h) = 0
    BY Powers, SMT DEF Bits, SegmentsOf, VolumeOf
  <1>4. SegmentsOf(-2) = 7
    BY Powers, SMT DEF Bits, SegmentsOf
  <1> QED
    BY <1>1, <1>2, <1>3, <1>4

\* Where BreakPath's handles come from.
LEMMA BrokenHandles ==
  Handle(1, 0, 0) = FatHandle(0) /\ Handle(2, 0, 0) = ProcHandle /\ Handle(2, 1, 0) = DevHandle
  BY Powers, SMT DEF Handle, FatHandle, ProcHandle, DevHandle

-----------------------------------------------------------------------------
(* The mount table.                                                        *)

Added(t, u, d, entry) ==
    /\ u \in Table
    /\ Len(u[d]) = Len(t[d]) + 1 /\ u[d][Len(t[d]) + 1] = entry
    /\ \A i \in 1 .. Len(t[d]) : u[d][i] = t[d][i]
    /\ \A k \in 0 .. 7 : k # d => u[k] = t[k]

\* Mounting appends to one page and leaves the others alone.
LEMMA MountAppends ==
  ASSUME NEW t \in Table, NEW root \in Roots,
         NEW volume \in {"stdio", "proc", "dev", "cdrom", "fat"}, NEW d \in 0 .. 7,
         VolumeHashPath(root) = d, Len(t[d]) < 170
  PROVE  Added(t, MountVolume(t, volume, root), d, Mount(root, volume))
  <1>1. Mount(root, volume) \in Entry
    BY DEF Mount, Entry
  <1>2. MountVolume(t, volume, root) = [t EXCEPT ![d] = Append(t[d], Mount(root, volume))]
    BY DEF MountVolume, Mount, VOLUMES_PER_PAGE
  <1>3. t[d] \in Seq(Entry)
    BY DEF Table
  <1> DEFINE s == Append(t[d], Mount(root, volume))
  <1>4. /\ s \in Seq(Entry) /\ Len(s) = Len(t[d]) + 1 /\ s[Len(t[d]) + 1] = Mount(root, volume)
        /\ \A i \in 1 .. Len(t[d]) : s[i] = t[d][i]
    BY <1>1, <1>3
  <1>5. MountVolume(t, volume, root) = [t EXCEPT ![d] = s]
    BY <1>2
  <1> HIDE DEF s
  <1> QED
    BY <1>4, <1>5 DEF Table, Added

\* The pages of the roots the kernel mounts.
LEMMA RootPages ==
  /\ \A name : Len(<<name>>) = 1 /\ VolumeHashPath(<<name>>) = 0
  /\ VolumeHashPath(<<Empty, Empty>>) = 1
  /\ \A name : VolumeHashPath(<<Empty, name, Empty>>) = 2
  /\ \A root \in CdRomRoots : VolumeHashPath(root) \in 3 .. 4 /\ Last(root) = "0"
  <1>1. ASSUME NEW name PROVE Len(<<name>>) = 1 /\ VolumeHashPath(<<name>>) = 0
    BY DEF VolumeHashPath, MAX_SEGMENTS
  <1>2. VolumeHashPath(<<Empty, Empty>>) = 1
    BY DEF VolumeHashPath, MAX_SEGMENTS
  <1>3. ASSUME NEW name PROVE VolumeHashPath(<<Empty, name, Empty>>) = 2
    BY DEF VolumeHashPath, MAX_SEGMENTS
  <1>4. ASSUME NEW root \in CdRomRoots PROVE VolumeHashPath(root) \in 3 .. 4 /\ Last(root) = "0"
    <2>1. CASE root = <<Empty, "device", "cdrom", "0">>
      BY <2>1 DEF VolumeHashPath, MAX_SEGMENTS, Last
    <2>2. CASE root = <<"?", "?", "device", "cdrom", "0">>
      BY <2>2 DEF VolumeHashPath, MAX_SEGMENTS, Last
    <2> QED
      BY <2>1, <2>2 DEF CdRomRoots
  <1> QED
    BY <1>1, <1>2, <1>3, <1>4

\* InitFS, mount by mount.
LEMMA InitMounted == ASSUME NEW root \in CdRomRoots PROVE Mounted(InitFS(root))
  <1> DEFINE t0 == InitializeVolumeSystem
             t1 == MountVolume(t0, "stdio", <<"stdin">>)
             t2 == MountVolume(t1, "stdio", <<"stdout">>)
             t3 == MountVolume(t2, "stdio", <<"stderr">>)
             t4 == MountVolume(t3, "stdio", <<"keyboard">>)
             t5 == MountVolume(t4, "proc", <<Empty, "proc", Empty>>)
             t6 == MountVolume(t5, "dev", <<Empty, "dev", Empty>>)
             t7 == MountVolume(t6, "cdrom", root)
             t8 == MountVolume(t7, "fat", <<Empty, Empty>>)
             d  == VolumeHashPath(root)
  <1>1. InitFS(root) = t8
    BY DEF InitFS, MountFatVolume, CdRomMount, InitializeDeviceVolumes,
           InitializeSpecialProcVolumes, InitializeStdioVolumes
  <1>2. t0 \in Table /\ \A k \in 0 .. 7 : Len(t0[k]) = 0
    BY DEF InitializeVolumeSystem, MAX_SEGMENTS, Table
  <1>3. /\ <<"stdin">> \in Roots /\ <<"stdout">> \in Roots /\ <<"stderr">> \in Roots
        /\ <<"keyboard">> \in Roots /\ <<Empty, "proc", Empty>> \in Roots
        /\ <<Empty, "dev", Empty>> \in Roots /\ root \in Roots /\ <<Empty, Empty>> \in Roots
        /\ d \in 3 .. 4 /\ Last(root) = "0"
    BY RootPages DEF Roots
  <1> HIDE DEF t0, t1, t2, t3, t4, t5, t6, t7, t8, d
  <1>4. /\ t1 \in Table /\ Len(t1[0]) = 1 /\ t1[0][1] = Mount(<<"stdin">>, "stdio")
        /\ \A k \in 1 .. 7 : Len(t1[k]) = 0
    <2>1. Added(t0, t1, 0, Mount(<<"stdin">>, "stdio"))
      BY <1>2, <1>3, RootPages, MountAppends DEF t1
    <2> QED
      BY <1>2, <1>3, <2>1 DEF Added
  <1>5. /\ t2 \in Table /\ Len(t2[0]) = 2
        /\ t2[0][1] = Mount(<<"stdin">>, "stdio") /\ t2[0][2] = Mount(<<"stdout">>, "stdio")
        /\ \A k \in 1 .. 7 : Len(t2[k]) = 0
    <2>1. Added(t1, t2, 0, Mount(<<"stdout">>, "stdio"))
      BY <1>4, <1>3, RootPages, MountAppends DEF t2
    <2> QED
      BY <1>4, <1>3, <2>1 DEF Added
  <1>6. /\ t3 \in Table /\ Len(t3[0]) = 3
        /\ t3[0][1] = Mount(<<"stdin">>, "stdio") /\ t3[0][2] = Mount(<<"stdout">>, "stdio")
        /\ t3[0][3] = Mount(<<"stderr">>, "stdio")
        /\ \A k \in 1 .. 7 : Len(t3[k]) = 0
    <2>1. Added(t2, t3, 0, Mount(<<"stderr">>, "stdio"))
      <3>1. t2 \in Table /\ Len(t2[0]) < 170 /\ VolumeHashPath(<<"stderr">>) = 0
        BY <1>5, RootPages
      <3> QED
        BY <1>3, <3>1, MountAppends DEF t3
    <2> QED
      BY <1>5, <1>3, <2>1 DEF Added
  <1>7. /\ t4 \in Table /\ Len(t4[0]) = 4
        /\ t4[0][1] = Mount(<<"stdin">>, "stdio") /\ t4[0][2] = Mount(<<"stdout">>, "stdio")
        /\ t4[0][3] = Mount(<<"stderr">>, "stdio") /\ t4[0][4] = Mount(<<"keyboard">>, "stdio")
        /\ \A k \in 1 .. 7 : Len(t4[k]) = 0
    <2>1. Added(t3, t4, 0, Mount(<<"keyboard">>, "stdio"))
      <3>1. t3 \in Table /\ Len(t3[0]) < 170 /\ VolumeHashPath(<<"keyboard">>) = 0
        BY <1>6, RootPages
      <3> QED
        BY <1>3, <3>1, MountAppends DEF t4
    <2> QED
      BY <1>6, <1>3, <2>1 DEF Added
  <1>8. /\ t5 \in Table /\ t5[0] = t4[0] /\ Len(t5[2]) = 1 /\ t5[2][1] = ProcRoot
        /\ \A k \in {1} \cup 3 .. 7 : Len(t5[k]) = 0
    <2>1. Added(t4, t5, 2, ProcRoot)
      BY <1>7, <1>3, RootPages, MountAppends DEF t5, ProcRoot
    <2> QED
      BY <1>7, <1>3, <2>1 DEF Added
  <1>9. /\ t6 \in Table /\ t6[0] = t4[0]
        /\ Len(t6[2]) = 2 /\ t6[2][1] = ProcRoot /\ t6[2][2] = DevRoot
        /\ \A k \in {1} \cup 3 .. 7 : Len(t6[k]) = 0
    <2>1. Added(t5, t6, 2, DevRoot)
      BY <1>8, <1>3, RootPages, MountAppends DEF t6, DevRoot
    <2> QED
      BY <1>8, <1>3, <2>1 DEF Added
  <1>10. /\ t7 \in Table /\ t7[0] = t4[0] /\ t7[2] = t6[2] /\ Len(t7[1]) = 0
         /\ Len(t7[d]) = 1 /\ t7[d][1] = Mount(root, "cdrom")
         /\ \A k \in 3 .. 7 : k # d => Len(t7[k]) = 0
    <2>1. Added(t6, t7, d, Mount(root, "cdrom"))
      BY <1>9, <1>3, RootPages, MountAppends DEF t7, d
    <2> QED
      BY <1>9, <1>3, <2>1 DEF Added
  <1>11. /\ t8 \in Table /\ t8[0] = t4[0] /\ t8[2] = t6[2] /\ Len(t8[1]) = 1 /\ t8[1][1] = FatRoot
         /\ \A k \in 3 .. 7 : t8[k] = t7[k]
    <2>1. Added(t7, t8, 1, FatRoot)
      BY <1>10, <1>3, RootPages, MountAppends DEF t8, FatRoot
    <2> QED
      BY <1>10, <1>3, <2>1 DEF Added
  <1>12. \A i \in 1 .. 4 : t8[0][i].volume = "stdio" /\ Len(t8[0][i].root) = 1
    BY <1>7, <1>11, RootPages DEF Mount
  <1>13. \A k \in 3 .. 6 : \A i \in 1 .. Len(t8[k]) : Last(t8[k][i].root) = "0"
    BY <1>3, <1>10, <1>11 DEF Mount
  <1> QED
    BY <1>1, <1>3, <1>7, <1>9, <1>10, <1>11, <1>12, <1>13 DEF Mounted

\* Where the handles that programs can have lead.
LEMMA Lookup ==
  ASSUME Mounted(volumes)
  PROVE  /\ \A i \in FileNumbers : GetVolumeIndex(FatHandle(i)) = FatRoot
         /\ GetVolumeIndex(ProcHandle) = ProcRoot /\ GetVolumeIndex(DevHandle) = DevRoot
         /\ \A h \in 0 .. 3 : GetVolumeIndex(h).volume = "stdio"
         /\ GetVolumeIndex(-2) = NoVolume
  <1>0. \A h, k, n : SegmentsOf(h) = k /\ VolumeOf(h) = n =>
           GetVolumeIndex(h) = IF n < Len(volumes[k]) THEN volumes[k][n + 1] ELSE NoVolume
    BY DEF GetVolumeIndex
  <1>1. ASSUME NEW i \in FileNumbers PROVE GetVolumeIndex(FatHandle(i)) = FatRoot
    <2>1. SegmentsOf(FatHandle(i)) = 1 /\ VolumeOf(FatHandle(i)) = 0
      BY HandleBits
    <2>2. Len(volumes[1]) = 1 /\ volumes[1][1] = FatRoot
      BY DEF Mounted
    <2> QED
      BY <1>0, <2>1, <2>2
  <1>2. GetVolumeIndex(ProcHandle) = ProcRoot /\ GetVolumeIndex(DevHandle) = DevRoot
    <2>1. /\ SegmentsOf(ProcHandle) = 2 /\ VolumeOf(ProcHandle) = 0
          /\ SegmentsOf(DevHandle) = 2 /\ VolumeOf(DevHandle) = 1
      BY HandleBits
    <2>2. Len(volumes[2]) = 2 /\ volumes[2][1] = ProcRoot /\ volumes[2][2] = DevRoot
      BY DEF Mounted
    <2> QED
      BY <1>0, <2>1, <2>2
  <1>4. ASSUME NEW h \in 0 .. 3 PROVE GetVolumeIndex(h).volume = "stdio"
    <2>1. SegmentsOf(h) = 0 /\ VolumeOf(h) = 0
      BY HandleBits
    <2>2. Len(volumes[0]) = 4 /\ volumes[0][1].volume = "stdio"
      BY DEF Mounted
    <2> QED
      BY <1>0, <2>1, <2>2
  <1>5. GetVolumeIndex(-2) = NoVolume
    <2>1. VolumeOf(-2) \in Nat
      BY Powers, SMT DEF VolumeOf, Bits
    <2>2. SegmentsOf(-2) = 7
      BY HandleBits
    <2>3. Len(volumes[7]) = 0
      BY DEF Mounted
    <2> QED
      BY <1>0, <2>1, <2>2, <2>3
  <1> QED
    BY <1>1, <1>2, <1>4, <1>5

-----------------------------------------------------------------------------
(* Paths.                                                                  *)

Good(path) == path \in Seq(Name) /\ Len(path) \in 1 .. 8

\* Below the root of a special volume, or only below that of the disc.
Below(path, name) == Len(path) >= 3 /\ path[1] = Empty /\ path[2] = name
OnDisc(path) == /\ Len(path) >= 2 /\ path[1] = Empty
                /\ ~Below(path, "proc") /\ ~Below(path, "dev")

\* The entries of page k that a path starts with.
Slots(path, k) == {i \in 1 .. Len(volumes[k]) : volumes[k][i].root = Append(SubSeq(path, 1, k), Empty)}

LEMMA GoodPaths == ASSUME NEW path \in Paths PROVE Good(SkipDot(path))
  <1>1. path \in Seq(Name) /\ Len(path) \in 1 .. 8 /\ Empty \in Name
    BY FilesAssumption DEF MAX_SEGMENTS
  <1>2. CASE path[1] = "."
    <2>1. Tail(path) \in Seq(Name) /\ Len(Tail(path)) = Len(path) - 1
      BY <1>1
    <2>2. <<Empty>> \in Seq(Name) /\ Len(<<Empty>>) = 1
      BY <1>1
    <2>3. /\ <<Empty>> \o Tail(path) \in Seq(Name)
          /\ Len(<<Empty>> \o Tail(path)) = 1 + Len(Tail(path))
      BY <2>1, <2>2, ConcatProperties
    <2> QED
      BY <1>1, <1>2, <2>1, <2>3 DEF SkipDot, Good
  <1>3. CASE path[1] # "."
    BY <1>1, <1>3 DEF SkipDot, Good
  <1> QED
    BY <1>2, <1>3

\* The first k names of a path, and an empty one.
LEMMA FirstNames ==
  ASSUME NEW path, Good(path), NEW k \in 1 .. Len(path)
  PROVE  /\ SubSeq(path, 1, k) \in Seq(Name) /\ Len(SubSeq(path, 1, k)) = k
         /\ \A i \in 1 .. k : SubSeq(path, 1, k)[i] = path[i]
         /\ Append(SubSeq(path, 1, k), Empty) \in Seq(Name)
         /\ Len(Append(SubSeq(path, 1, k), Empty)) = k + 1
         /\ \A i \in 1 .. k : Append(SubSeq(path, 1, k), Empty)[i] = path[i]
         /\ Append(SubSeq(path, 1, k), Empty)[k + 1] = Empty
  <1>1. path \in Seq(Name) /\ k \in Nat /\ Empty \in Name /\ \A i \in 1 .. k : path[i] \in Name
    BY FilesAssumption DEF Good
  <1>2. /\ SubSeq(path, 1, k) \in Seq(Name) /\ Len(SubSeq(path, 1, k)) = IF 1 <= k THEN k - 1 + 1 ELSE 0
        /\ \A i \in 1 .. k - 1 + 1 : SubSeq(path, 1, k)[i] = path[1 + i - 1]
    BY <1>1, SubSeqProperties
  <1>3. PICK s : s = SubSeq(path, 1, k)
    OBVIOUS
  <1>4. s \in Seq(Name) /\ Len(s) = k /\ \A i \in 1 .. k : s[i] = path[i]
    BY <1>1, <1>2, <1>3
  <1>5. /\ Append(s, Empty) \in Seq(Name) /\ Len(Append(s, Empty)) = k + 1
        /\ \A i \in 1 .. k : Append(s, Empty)[i] = s[i]
        /\ Append(s, Empty)[k + 1] = Empty
    BY <1>1, <1>4
  <1> QED
    BY <1>3, <1>4, <1>5

LEMMA Literals == Empty # "0" /\ Empty # "proc" /\ Empty # "dev" /\ "proc" # "dev"
  BY DEF Empty

\* Which mounts a path starts with.
LEMMA SlotsOnDisc ==
  ASSUME Mounted(volumes), NEW path, Good(path), Len(path) >= 2
  PROVE  Slots(path, 1) = IF path[1] = Empty THEN {1} ELSE {}
  <1>1. Len(volumes[1]) = 1 /\ volumes[1][1].root = <<Empty, Empty>>
    BY DEF Mounted, FatRoot, Mount
  <1>2. PICK s : s = Append(SubSeq(path, 1, 1), Empty)
    OBVIOUS
  <1>3. s \in Seq(Name) /\ Len(s) = 2 /\ s[1] = path[1] /\ s[2] = Empty
    <2>1. 1 \in 1 .. Len(path)
      BY DEF Good
    <2>2. /\ s \in Seq(Name) /\ Len(s) = 1 + 1 /\ s[1 + 1] = Empty
          /\ \A i \in 1 .. 1 : s[i] = path[i]
      BY <1>2, <2>1, FirstNames
    <2> QED
      BY <2>2
  <1>4. <<Empty, Empty>> \in Seq(Name)
    BY FilesAssumption
  <1>5. <<Empty, Empty>> = s <=> path[1] = Empty
    <2>1. ASSUME path[1] = Empty PROVE <<Empty, Empty>> = s
      BY <1>3, <1>4, <2>1, SeqEqual
    <2> QED
      BY <1>3, <2>1
  <1>6. Slots(path, 1) = {i \in 1 .. 1 : volumes[1][i].root = s}
    BY <1>1, <1>2 DEF Slots
  <1>7. volumes[1][1].root = s <=> path[1] = Empty
    BY <1>1, <1>5
  <1> QED
    BY <1>6, <1>7

LEMMA SlotsSpecial ==
  ASSUME Mounted(volumes), NEW path, Good(path), Len(path) >= 3
  PROVE  Slots(path, 2) = IF Below(path, "proc") THEN {1} ELSE IF Below(path, "dev") THEN {2} ELSE {}
  <1>1. /\ Len(volumes[2]) = 2 /\ volumes[2][1].root = <<Empty, "proc", Empty>>
        /\ volumes[2][2].root = <<Empty, "dev", Empty>>
    BY DEF Mounted, ProcRoot, DevRoot, Mount
  <1>2. PICK s : s = Append(SubSeq(path, 1, 2), Empty)
    OBVIOUS
  <1>3. s \in Seq(Name) /\ Len(s) = 3 /\ s[1] = path[1] /\ s[2] = path[2] /\ s[3] = Empty
    BY <1>2, FirstNames DEF Good
  <1>4. path[2] \in Name /\ Empty \in Name
    BY FilesAssumption DEF Good
  <1>5. ASSUME NEW name PROVE <<Empty, name, Empty>> = s <=> Below(path, name)
    <2>1. ASSUME path[1] = Empty, path[2] = name PROVE <<Empty, name, Empty>> = s
      <3>1. <<Empty, name, Empty>> \in Seq(Name)
        BY <1>4, <2>1
      <3> QED
        BY <1>3, <2>1, <3>1, SeqEqual
    <2> QED
      BY <1>3, <2>1 DEF Below
  <1>6. ~(Below(path, "proc") /\ Below(path, "dev"))
    BY Literals DEF Below
  <1>7. Slots(path, 2) = {i \in 1 .. 2 : volumes[2][i].root = s}
    BY <1>1, <1>2 DEF Slots
  <1>8. (volumes[2][1].root = s <=> Below(path, "proc")) /\ (volumes[2][2].root = s <=> Below(path, "dev"))
    BY <1>1, <1>5
  <1> QED
    BY <1>6, <1>7, <1>8

LEMMA SlotsDeep ==
  ASSUME Mounted(volumes), NEW path, Good(path), NEW k \in 3 .. Len(path) - 1
  PROVE  Slots(path, k) = {}
  <1>1. k \in 3 .. 7 /\ k \in 1 .. Len(path)
    <2>1. PICK n : n = Len(path)
      OBVIOUS
    <2>2. n \in 1 .. 8 /\ k \in 3 .. n - 1
      BY <2>1 DEF Good
    <2>3. k \in 3 .. 7 /\ k \in 1 .. n
      BY <2>2
    <2> QED
      BY <2>1, <2>3
  <1>2. CASE k = 7
    BY <1>2 DEF Mounted, Slots
  <1>3. CASE k # 7
    <2>1. SUFFICES ASSUME NEW i \in Slots(path, k) PROVE FALSE
      OBVIOUS
    <2>2. Last(volumes[k][i].root) = "0"
      BY <1>1, <1>3 DEF Mounted, Slots
    <2>3. PICK s : s = Append(SubSeq(path, 1, k), Empty)
      OBVIOUS
    <2>4. Len(s) = k + 1 /\ s[k + 1] = Empty
      BY <1>1, <2>3, FirstNames
    <2>5. Last(s) = Empty
      BY <2>4 DEF Last
    <2>6. volumes[k][i].root = s
      BY <2>3 DEF Slots
    <2> QED
      BY <2>2, <2>5, <2>6, Literals
  <1> QED
    BY <1>2, <1>3

LEMMA MaxOfFew == Max({1}) = 1 /\ Max({2}) = 2 /\ Max({1, 2}) = 2
  BY DEF Max

\* BreakPath's results, for the mounts of InitFS.
Broken(handle, path, k) ==
    BreakPath(path) = [handle |-> handle, rest |-> <<Empty>> \o SubSeq(path, k + 1, Len(path))]

LEMMA BreakPathCases ==
  ASSUME Mounted(volumes), NEW path, Good(path)
  PROVE  \/ BreakPath(path) = [handle |-> 0, rest |-> path]
         \/ OnDisc(path) /\ Broken(FatHandle(0), path, 1)
         \/ Below(path, "proc") /\ Broken(ProcHandle, path, 2)
         \/ Below(path, "dev") /\ Broken(DevHandle, path, 2)
  <1> DEFINE matches == {k \in 1 .. Len(path) - 1 : Slots(path, k) # {}}
  <1>1. BreakPath(path) =
          IF matches = {} THEN [handle |-> 0, rest |-> path]
          ELSE [handle |-> Handle(Max(matches), Max(Slots(path, Max(matches))) - 1, 0),
                rest   |-> <<Empty>> \o SubSeq(path, Max(matches) + 1, Len(path))]
    BY DEF BreakPath, Slots
  <1>2. PICK n : n = Len(path)
    OBVIOUS
  <1>3. n \in 1 .. 8
    BY <1>2 DEF Good
  <1>4. \A k \in 3 .. n - 1 : Slots(path, k) = {}
    BY <1>2, SlotsDeep
  <1>5. n >= 2 => Slots(path, 1) = IF path[1] = Empty THEN {1} ELSE {}
    BY <1>2, SlotsOnDisc
  <1>6. n >= 3 => Slots(path, 2) = IF Below(path, "proc") THEN {1} ELSE IF Below(path, "dev") THEN {2} ELSE {}
    BY <1>2, SlotsSpecial
  <1>7. matches = {k \in 1 .. n - 1 : Slots(path, k) # {}}
    BY <1>2
  <1> HIDE DEF matches
  <1>8. CASE Below(path, "proc")
    <2>1. n >= 3 /\ path[1] = Empty
      BY <1>2, <1>8 DEF Below
    <2>2. matches = {1, 2} /\ Slots(path, 2) = {1}
      BY <1>3, <1>4, <1>5, <1>6, <1>7, <1>8, <2>1
    <2>3. Max(matches) = 2 /\ Max(Slots(path, 2)) - 1 = 0 /\ matches # {}
      BY <2>2, MaxOfFew
    <2>4. Broken(Handle(2, 0, 0), path, 2)
      BY <1>1, <2>3 DEF Broken
    <2> QED
      BY <1>8, <2>4, BrokenHandles
  <1>9. CASE Below(path, "dev")
    <2>1. n >= 3 /\ path[1] = Empty /\ ~Below(path, "proc")
      BY <1>2, <1>9, Literals DEF Below
    <2>2. matches = {1, 2} /\ Slots(path, 2) = {2}
      BY <1>3, <1>4, <1>5, <1>6, <1>7, <1>9, <2>1
    <2>3. Max(matches) = 2 /\ Max(Slots(path, 2)) - 1 = 1 /\ matches # {}
      BY <2>2, MaxOfFew
    <2>4. Broken(Handle(2, 1, 0), path, 2)
      BY <1>1, <2>3 DEF Broken
    <2> QED
      BY <1>9, <2>4, BrokenHandles
  <1>10. CASE OnDisc(path)
    <2>1. n >= 2 /\ path[1] = Empty /\ ~Below(path, "proc") /\ ~Below(path, "dev")
      BY <1>2, <1>10 DEF OnDisc
    <2>2. matches = {1} /\ Slots(path, 1) = {1}
      BY <1>3, <1>4, <1>5, <1>6, <1>7, <2>1
    <2>3. Max(matches) = 1 /\ Max(Slots(path, 1)) - 1 = 0 /\ matches # {}
      BY <2>2, MaxOfFew
    <2>4. Broken(Handle(1, 0, 0), path, 1)
      BY <1>1, <2>3 DEF Broken
    <2> QED
      BY <1>10, <2>4, BrokenHandles
  <1>11. CASE ~(n >= 2 /\ path[1] = Empty)
    <2>1. ~Below(path, "proc") /\ ~Below(path, "dev")
      BY <1>2, <1>3, <1>11 DEF Below
    <2>2. matches = {}
      BY <1>3, <1>4, <1>5, <1>6, <1>7, <1>11, <2>1
    <2> QED
      BY <1>1, <2>2
  <1> QED
    BY <1>2, <1>8, <1>9, <1>10, <1>11 DEF OnDisc

\* What BreakPath leaves of a path: all of it on the disc, or what follows
\* the root of the volume.
LEMMA WholePath ==
  ASSUME NEW path, Good(path), OnDisc(path)
  PROVE  <<Empty>> \o SubSeq(path, 2, Len(path)) = path
  <1>1. PICK n : n = Len(path)
    OBVIOUS
  <1>2. n \in 2 .. 8 /\ path \in Seq(Name) /\ path[1] = Empty /\ Empty \in Name
    BY <1>1, FilesAssumption DEF Good, OnDisc
  <1>3. PICK s : s = SubSeq(path, 2, n)
    OBVIOUS
  <1>4. s \in Seq(Name) /\ Len(s) = n - 1 /\ \A i \in 1 .. n - 1 : s[i] = path[i + 1]
    <2>1. \A i \in 2 .. n : path[i] \in Name
      BY <1>1, <1>2
    <2>2. /\ s \in Seq(Name) /\ Len(s) = IF 2 <= n THEN n - 2 + 1 ELSE 0
          /\ \A i \in 1 .. n - 2 + 1 : s[i] = path[2 + i - 1]
      BY <1>2, <1>3, <2>1, SubSeqProperties
    <2> QED
      BY <1>2, <2>2
  <1>5. PICK e : e = <<Empty>>
    OBVIOUS
  <1>6. e \in Seq(Name) /\ Len(e) = 1 /\ e[1] = Empty
    BY <1>2, <1>5
  <1>7. PICK c : c = e \o s
    OBVIOUS
  <1>8. /\ c \in Seq(Name) /\ Len(c) = Len(e) + Len(s)
        /\ \A i \in 1 .. Len(e) + Len(s) : c[i] = IF i <= Len(e) THEN e[i] ELSE s[i - Len(e)]
    BY <1>4, <1>6, <1>7, ConcatProperties
  <1>9. Len(c) = n /\ \A i \in 1 .. n : c[i] = IF i <= 1 THEN e[i] ELSE s[i - 1]
    BY <1>2, <1>4, <1>6, <1>8
  <1>10. \A i \in 1 .. n : c[i] = path[i]
    <2>1. ASSUME NEW i \in 2 .. n PROVE s[i - 1] = path[i]
      <3>1. i - 1 \in 1 .. n - 1 /\ (i - 1) + 1 = i
        BY <1>2
      <3> QED
        BY <1>4, <3>1
    <2> QED
      BY <1>2, <1>6, <1>9, <2>1
  <1>11. c = path
    BY <1>1, <1>2, <1>8, <1>9, <1>10, SeqEqual
  <1> QED
    BY <1>1, <1>3, <1>5, <1>7, <1>11

-----------------------------------------------------------------------------
(* Opening.                                                                *)

LEMMA MinInSet ==
  ASSUME NEW T, T \subseteq Nat, T # {}
  PROVE  Min(T) \in T
  <1> DEFINE R == OpToRel(<, Nat)
  <1>1. IsWellFoundedOn(R, Nat)
    BY NatLessThanWellFounded
  <1>2. PICK x \in T : \A y \in Nat : <<y, x>> \in R => ~(y \in T)
    BY <1>1, WFMin
  <1>3. \A y \in T : x <= y
    <2>1. \A y \in Nat : y < x => <<y, x>> \in R
      BY DEF OpToRel
    <2> HIDE DEF R
    <2>2. SUFFICES ASSUME NEW y \in T, ~(x <= y) PROVE FALSE
      OBVIOUS
    <2>3. x \in Nat /\ y \in Nat /\ y < x
      BY <2>2
    <2> QED
      BY <1>2, <2>1, <2>3
  <1> QED
    BY <1>3 DEF Min

Fresh(path) == [file |-> path, tell |-> 0]

\* What an open can come to.
Failed(o)         == ~o.open /\ o.table = FileHandles /\ o.handle \in {0, 3, -ENOENT}
OpensProc(o, path) == o.open /\ o.table = FileHandles /\ o.handle = ProcHandle /\ Below(path, "proc")
OpensDev(o, path)  == o.open /\ o.table = FileHandles /\ o.handle = DevHandle /\ Below(path, "dev")
OpensFile(o, path, m) ==
    /\ o.open /\ m \in FreeEntries /\ OnDisc(path) /\ path \in DOMAIN FileSize
    /\ o.table = [FileHandles EXCEPT ![m] = Fresh(path)] /\ o.handle = FatHandle(m)

LEMMA OpenResults ==
  ASSUME Mounted(volumes), NEW path, Good(path)
  PROVE  LET o == VolumeOpenHandle(path)
         IN  Failed(o) \/ OpensProc(o, path) \/ OpensDev(o, path) \/ \E m \in FreeEntries : OpensFile(o, path, m)
  <1>0. \A handle : /\ ~NotOpened(handle).open /\ NotOpened(handle).table = FileHandles
                    /\ NotOpened(handle).handle = handle
    BY DEF NotOpened
  <1>a. ASSUME NEW handle, NEW rest, BreakPath(path) = [handle |-> handle, rest |-> rest]
        PROVE  /\ GetVolumeIndex(handle).volume = "proc" =>
                      VolumeOpenHandle(path) = SpecialProc_OpenHandle(handle, rest)
               /\ GetVolumeIndex(handle).volume = "dev" =>
                      VolumeOpenHandle(path) = Device_OpenHandle(handle, rest)
               /\ GetVolumeIndex(handle).volume = "fat" =>
                      VolumeOpenHandle(path) = FatVolume_OpenHandle(handle, rest)
    BY <1>a DEF VolumeOpenHandle
  <1>1. CASE BreakPath(path) = [handle |-> 0, rest |-> path]
    <2>1. GetVolumeIndex(0).volume = "stdio"
      BY Lookup
    <2>2. VolumeOpenHandle(path) = StandardIO_OpenHandle(path)
      BY <1>1, <2>1 DEF VolumeOpenHandle
    <2> QED
      BY <1>0, <2>2 DEF StandardIO_OpenHandle, Failed
  <1>2. CASE Below(path, "proc") /\ Broken(ProcHandle, path, 2)
    <2>1. GetVolumeIndex(ProcHandle).volume = "proc"
      BY Lookup DEF ProcRoot, Mount
    <2>2. PICK rest : VolumeOpenHandle(path) = SpecialProc_OpenHandle(ProcHandle, rest)
      BY <1>a, <1>2, <2>1 DEF Broken
    <2> QED
      BY <1>0, <1>2, <2>2 DEF SpecialProc_OpenHandle, NotOpened, Failed, OpensProc
  <1>3. CASE Below(path, "dev") /\ Broken(DevHandle, path, 2)
    <2>1. GetVolumeIndex(DevHandle).volume = "dev"
      BY Lookup DEF DevRoot, Mount
    <2>2. PICK rest : VolumeOpenHandle(path) = Device_OpenHandle(DevHandle, rest)
      BY <1>a, <1>3, <2>1 DEF Broken
    <2> QED
      BY <1>0, <1>3, <2>2 DEF Device_OpenHandle, FramebufferVolume_OpenHandle, NotOpened, Failed, OpensDev
  <1>4. CASE OnDisc(path) /\ Broken(FatHandle(0), path, 1)
    <2>1. GetVolumeIndex(FatHandle(0)).volume = "fat"
      <3>1. 0 \in FileNumbers
        BY Powers, SMT DEF FileNumbers
      <3> QED
        BY <3>1, Lookup DEF FatRoot, Mount
    <2>2. VolumeOpenHandle(path) = FatVolume_OpenHandle(FatHandle(0), path)
      <3>1. BreakPath(path) = [handle |-> FatHandle(0), rest |-> path]
        BY <1>4, WholePath DEF Broken
      <3> QED
        BY <1>a, <2>1, <3>1
    <2>3. CASE FreeEntries = {} \/ ~f_open(path)
      BY <1>0, <2>2, <2>3 DEF FatVolume_OpenHandle, Failed
    <2>4. CASE FreeEntries # {} /\ f_open(path)
      <3>1. FreeEntries \subseteq Nat
        BY DEF FreeEntries
      <3>2. Min(FreeEntries) \in FreeEntries /\ Min(FreeEntries) \in Nat
        BY <2>4, <3>1, MinInSet
      <3>3. FatHandle(0) + Min(FreeEntries) * 2 = FatHandle(Min(FreeEntries))
        BY <3>2, Powers, SMT DEF FatHandle
      <3>4. OpensFile(VolumeOpenHandle(path), path, Min(FreeEntries))
        BY <1>4, <2>2, <2>4, <3>2, <3>3 DEF FatVolume_OpenHandle, f_open, OpensFile, Fresh
      <3> QED
        BY <3>2, <3>4
    <2> QED
      BY <2>3, <2>4
  <1> QED
    BY <1>1, <1>2, <1>3, <1>4, BreakPathCases

-----------------------------------------------------------------------------
(* The inductive invariant.                                                *)

Entries == 0 .. MAX_FILE_HANDLES - 1
FIL     == [file : {p \in DOMAIN FileSize : p # <<>>}, tell : Nat]
HeldFil == [path : Seq(Name), pos : Nat \cup {Unknown}]

TypeInv ==
    /\ Mounted(volumes)
    /\ FileHandles \in [Entries -> FIL \cup {NoFile}]
    /\ held \in [DOMAIN held -> HeldFil]
    /\ dropped \in SUBSET Entries

\* No file is read past its end.
WithinFiles ==
    \A m \in Entries : FileHandles[m] # NoFile => FileHandles[m].tell <= FileSize[FileHandles[m].file]

\* A handle shows the volume that its path leads to.
HandleKinds ==
    \A h \in DOMAIN held : \/ h = ProcHandle /\ Below(held[h].path, "proc")
                           \/ h = DevHandle /\ Below(held[h].path, "dev")
                           \/ OnDisc(held[h].path) /\ \E m \in Entries : h = FatHandle(m)

\* Behind the handle of a file there is that file, at the position known of
\* it, and sys_open did not drop it; an entry in use has an owner.
Backed(m) ==
    /\ FileHandles[m] # NoFile /\ m \notin dropped
    /\ FileHandles[m].file = held[FatHandle(m)].path
    /\ held[FatHandle(m)].pos # Unknown => FileHandles[m].tell = held[FatHandle(m)].pos
HeldBacked == \A m \in Entries : FatHandle(m) \in DOMAIN held => Backed(m)
Kept       == \A m \in dropped : FileHandles[m] # NoFile
Owned      == \A m \in Entries : FileHandles[m] # NoFile => m \in dropped \/ FatHandle(m) \in DOMAIN held

Inv == TypeInv /\ WithinFiles /\ HandleKinds /\ HeldBacked /\ Kept /\ Owned

LEMMA FatHandles ==
  ASSUME NEW m \in Entries
  PROVE  /\ m \in FileNumbers /\ FileOf(FatHandle(m)) = m
         /\ FatHandle(m) # ProcHandle /\ FatHandle(m) # DevHandle /\ FatHandle(m) \notin 0 .. 3 \cup {-ENOENT}
  <1>1. m \in FileNumbers
    BY FilesAssumption, Powers, SMT DEF Entries, FileNumbers
  <1>2. FileOf(FatHandle(m)) = m /\ FatHandle(m) \in 4 .. 2^29 - 1
    BY <1>1, HandleBits
  <1>3. /\ FatHandle(m) # ProcHandle /\ FatHandle(m) # DevHandle
        /\ FatHandle(m) \notin 0 .. 3 \cup {-ENOENT}
    <2>1. PICK x : x = FatHandle(m)
      OBVIOUS
    <2>2. x \in 4 .. 2^29 - 1
      BY <1>2, <2>1
    <2>3. x # 2^29 /\ x # 2^29 + 2^25 /\ x \notin 0 .. 3 \cup {-2}
      BY <2>2, Powers, SMT
    <2> QED
      BY <2>1, <2>3, SMT DEF ProcHandle, DevHandle, ENOENT
  <1> QED
    BY <1>1, <1>2, <1>3

\* Two handles of files are the same for the same entry only.
LEMMA FatHandlesDiffer ==
  ASSUME NEW m \in Entries, NEW n \in Entries, FatHandle(m) = FatHandle(n)
  PROVE  m = n
  <1>1. FileOf(FatHandle(m)) = m /\ FileOf(FatHandle(n)) = n
    BY FatHandles
  <1> QED
    BY <1>1

\* The handles that lead to a volume with files on it.
LEMMA FatVolumes ==
  ASSUME Mounted(volumes)
  PROVE  /\ \A m \in Entries : GetVolumeIndex(FatHandle(m)).volume = "fat"
         /\ GetVolumeIndex(ProcHandle).volume = "proc" /\ GetVolumeIndex(DevHandle).volume = "dev"
         /\ \A h \in 0 .. 3 : GetVolumeIndex(h).volume = "stdio"
         /\ GetVolumeIndex(-ENOENT).volume = "null"
  <1>1. ASSUME NEW m \in Entries PROVE GetVolumeIndex(FatHandle(m)).volume = "fat"
    <2>1. m \in FileNumbers
      BY FatHandles
    <2> QED
      BY <2>1, Lookup DEF FatRoot, Mount
  <1>2. GetVolumeIndex(ProcHandle).volume = "proc" /\ GetVolumeIndex(DevHandle).volume = "dev"
    BY Lookup DEF ProcRoot, DevRoot, Mount
  <1>3. \A h \in 0 .. 3 : GetVolumeIndex(h).volume = "stdio"
    BY Lookup
  <1>4. GetVolumeIndex(-ENOENT).volume = "null"
    BY Lookup DEF NoVolume, ENOENT
  <1> QED
    BY <1>1, <1>2, <1>3, <1>4

IsFileHandle(h, m) == m \in Entries /\ h = FatHandle(m) /\ h \in DOMAIN held /\ IsFat(h) /\ FileOf(h) = m
OtherHandle(h) == ~IsFat(h) /\ \A m \in Entries : h # FatHandle(m)

LEMMA UsableHandles ==
  ASSUME Inv, NEW h \in Usable
  PROVE  OtherHandle(h) \/ \E m \in Entries : IsFileHandle(h, m)
  <1>1. Mounted(volumes)
    BY DEF Inv, TypeInv
  <1>2. CASE h \in 0 .. 3
    BY <1>1, <1>2, FatVolumes, FatHandles DEF OtherHandle, IsFat
  <1>3. CASE h = -ENOENT
    BY <1>1, <1>3, FatVolumes, FatHandles DEF OtherHandle, IsFat
  <1>4. CASE h = ProcHandle \/ h = DevHandle
    BY <1>1, <1>4, FatVolumes, FatHandles DEF OtherHandle, IsFat
  <1>5. CASE \E m \in Entries : h = FatHandle(m) /\ h \in DOMAIN held
    BY <1>1, <1>5, FatVolumes, FatHandles DEF IsFileHandle, IsFat
  <1>6. h \in DOMAIN held => h = ProcHandle \/ h = DevHandle \/ \E m \in Entries : h = FatHandle(m)
    BY DEF Inv, HandleKinds
  <1> QED
    BY <1>2, <1>3, <1>4, <1>5, <1>6 DEF Usable

LEMMA InitInv == Init => Inv
  <1> SUFFICES ASSUME Init PROVE Inv
    OBVIOUS
  <1>1. Mounted(volumes)
    BY InitMounted DEF Init
  <1>2. FileHandles \in [Entries -> FIL \cup {NoFile}] /\ \A m \in Entries : FileHandles[m] = NoFile
    BY DEF Init, Entries
  <1>3. DOMAIN held = {} /\ held \in [DOMAIN held -> HeldFil] /\ dropped = {}
    BY DEF Init
  <1> QED
    BY <1>1, <1>2, <1>3 DEF Inv, TypeInv, WithinFiles, HandleKinds, HeldBacked, Kept, Owned

-----------------------------------------------------------------------------
(* What the calls do to the table and to what programs hold.               *)

LEMMA NothingChanges ==
  ASSUME Inv, UNCHANGED <<volumes, FileHandles, held, dropped>>
  PROVE  Inv'
  BY DEF Inv, TypeInv, WithinFiles, HandleKinds, HeldBacked, Backed, Kept, Owned

Gives(h, path) ==
    held' = [k \in DOMAIN held \cup {h} |-> IF k = h THEN [path |-> path, pos |-> 0] ELSE held[k]]

\* A new handle is added to what is held.
LEMMA HeldAfterGive ==
  ASSUME Inv, NEW h, NEW path, Good(path), Gives(h, path)
  PROVE  /\ held' \in [DOMAIN held' -> HeldFil] /\ DOMAIN held' = DOMAIN held \cup {h}
         /\ held'[h].path = path /\ held'[h].pos = 0 /\ \A k \in DOMAIN held : k # h => held'[k] = held[k]
  <1>1. held \in [DOMAIN held -> HeldFil] /\ [path |-> path, pos |-> 0] \in HeldFil
    BY DEF Inv, TypeInv, HeldFil, Good
  <1> QED
    BY <1>1 DEF Gives

LEMMA SpecialGiven ==
  ASSUME Inv, NEW h, NEW path, Good(path), Gives(h, path), UNCHANGED <<volumes, FileHandles, dropped>>,
         \/ h = ProcHandle /\ Below(path, "proc")
         \/ h = DevHandle /\ Below(path, "dev")
  PROVE  Inv'
  <1>1. /\ held' \in [DOMAIN held' -> HeldFil] /\ DOMAIN held' = DOMAIN held \cup {h}
        /\ held'[h].path = path /\ \A k \in DOMAIN held : k # h => held'[k] = held[k]
    BY HeldAfterGive
  <1>2. \A m \in Entries : FatHandle(m) # h
    BY FatHandles
  <1>3. TypeInv' /\ WithinFiles' /\ Kept'
    BY <1>1 DEF Inv, TypeInv, WithinFiles, Kept
  <1>4. HandleKinds'
    BY <1>1 DEF Inv, HandleKinds
  <1>5. HeldBacked' /\ Owned'
    BY <1>1, <1>2 DEF Inv, HeldBacked, Backed, Owned
  <1> QED
    BY <1>3, <1>4, <1>5 DEF Inv

\* A free entry takes a file that was opened.
Fills(m, path) ==
    /\ m \in FreeEntries /\ OnDisc(path) /\ path \in DOMAIN FileSize
    /\ FileHandles' = [FileHandles EXCEPT ![m] = Fresh(path)]

LEMMA TableAfterFill ==
  ASSUME Inv, NEW path, Good(path), NEW m, Fills(m, path)
  PROVE  /\ m \in Entries /\ FileHandles[m] = NoFile
         /\ FileHandles' \in [Entries -> FIL \cup {NoFile}]
         /\ FileHandles'[m] # NoFile /\ FileHandles'[m].file = path /\ FileHandles'[m].tell = 0
         /\ \A i \in Entries : i # m => FileHandles'[i] = FileHandles[i]
         /\ WithinFiles' /\ m \notin dropped /\ FatHandle(m) \notin DOMAIN held
  <1>1. m \in Entries /\ FileHandles[m] = NoFile
    BY DEF Fills, FreeEntries, Entries
  <1>2. path # <<>>
    BY DEF Fills, OnDisc
  <1>3. Fresh(path) \in FIL /\ Fresh(path) # NoFile /\ Fresh(path).file = path /\ Fresh(path).tell = 0
    BY <1>2 DEF Fills, Fresh, FIL, NoFile
  <1>4. FileHandles \in [Entries -> FIL \cup {NoFile}]
    BY DEF Inv, TypeInv
  <1>5. /\ FileHandles' \in [Entries -> FIL \cup {NoFile}] /\ FileHandles'[m] = Fresh(path)
        /\ \A i \in Entries : i # m => FileHandles'[i] = FileHandles[i]
    BY <1>1, <1>3, <1>4 DEF Fills
  <1>6. FileSize[path] \in Nat
    BY FilesAssumption DEF Fills
  <1>7. WithinFiles'
    BY <1>3, <1>5, <1>6 DEF Inv, WithinFiles
  <1>8. m \notin dropped /\ FatHandle(m) \notin DOMAIN held
    BY <1>1 DEF Inv, Kept, HeldBacked, Backed
  <1> QED
    BY <1>1, <1>3, <1>5, <1>7, <1>8

LEMMA FileGiven ==
  ASSUME Inv, NEW path, Good(path), NEW m, Fills(m, path), Gives(FatHandle(m), path),
         UNCHANGED <<volumes, dropped>>
  PROVE  Inv'
  <1>1. /\ held' \in [DOMAIN held' -> HeldFil] /\ DOMAIN held' = DOMAIN held \cup {FatHandle(m)}
        /\ held'[FatHandle(m)].path = path /\ held'[FatHandle(m)].pos = 0
        /\ \A k \in DOMAIN held : k # FatHandle(m) => held'[k] = held[k]
    BY HeldAfterGive
  <1>2. /\ m \in Entries /\ FileHandles' \in [Entries -> FIL \cup {NoFile}]
        /\ FileHandles'[m] # NoFile /\ FileHandles'[m].file = path /\ FileHandles'[m].tell = 0
        /\ \A i \in Entries : i # m => FileHandles'[i] = FileHandles[i]
        /\ WithinFiles' /\ m \notin dropped
    BY TableAfterFill
  <1>3. \A i \in Entries : i # m => FatHandle(i) # FatHandle(m)
    BY <1>2, FatHandlesDiffer
  <1>4. TypeInv'
    BY <1>1, <1>2 DEF Inv, TypeInv
  <1>5. Kept'
    BY <1>2 DEF Inv, TypeInv, Kept
  <1>6. HandleKinds'
    BY <1>1, <1>2 DEF Inv, HandleKinds, Fills
  <1>7. HeldBacked'
    <2>1. SUFFICES ASSUME NEW i \in Entries, FatHandle(i) \in DOMAIN held' PROVE Backed(i)'
      BY DEF HeldBacked
    <2>2. CASE i = m
      BY <1>1, <1>2, <2>2 DEF Backed
    <2>3. CASE i # m
      <3>1. FatHandle(i) \in DOMAIN held /\ held'[FatHandle(i)] = held[FatHandle(i)]
        BY <1>1, <1>3, <2>1, <2>3
      <3>2. Backed(i)
        BY <3>1 DEF Inv, HeldBacked
      <3> QED
        BY <1>2, <2>3, <3>1, <3>2 DEF Backed
    <2> QED
      BY <2>2, <2>3
  <1>8. Owned'
    BY <1>1, <1>2 DEF Inv, Owned
  <1> QED
    BY <1>2, <1>4, <1>5, <1>6, <1>7, <1>8 DEF Inv

LEMMA FileDropped ==
  ASSUME Inv, NEW path, Good(path), NEW m, Fills(m, path), dropped' = dropped \cup {m},
         UNCHANGED <<volumes, held>>
  PROVE  Inv'
  <1>1. /\ m \in Entries /\ FileHandles' \in [Entries -> FIL \cup {NoFile}] /\ FileHandles'[m] # NoFile
        /\ \A i \in Entries : i # m => FileHandles'[i] = FileHandles[i]
        /\ WithinFiles' /\ FatHandle(m) \notin DOMAIN held
    BY TableAfterFill
  <1>2. TypeInv'
    BY <1>1 DEF Inv, TypeInv
  <1>3. Kept'
    BY <1>1 DEF Inv, TypeInv, Kept
  <1>4. HandleKinds'
    BY DEF Inv, HandleKinds
  <1>5. HeldBacked'
    <2>1. SUFFICES ASSUME NEW i \in Entries, FatHandle(i) \in DOMAIN held PROVE Backed(i)'
      BY DEF HeldBacked
    <2>2. i # m /\ Backed(i)
      BY <1>1, <2>1 DEF Inv, HeldBacked
    <2> QED
      BY <1>1, <2>2 DEF Backed
  <1>6. Owned'
    BY <1>1 DEF Inv, Owned
  <1> QED
    BY <1>1, <1>2, <1>3, <1>4, <1>5, <1>6 DEF Inv

Forgets(h) == held' = [k \in DOMAIN held \ {h} |-> held[k]]

LEMMA HeldAfterForget ==
  ASSUME Inv, NEW h, Forgets(h)
  PROVE  /\ held' \in [DOMAIN held' -> HeldFil] /\ DOMAIN held' = DOMAIN held \ {h}
         /\ \A k \in DOMAIN held' : held'[k] = held[k]
  <1>1. held \in [DOMAIN held -> HeldFil]
    BY DEF Inv, TypeInv
  <1> QED
    BY <1>1 DEF Forgets

\* Closing anything but a file.
LEMMA OtherForgotten ==
  ASSUME Inv, NEW h, Forgets(h), \A m \in Entries : h # FatHandle(m),
         UNCHANGED <<volumes, FileHandles, dropped>>
  PROVE  Inv'
  <1>1. /\ held' \in [DOMAIN held' -> HeldFil] /\ DOMAIN held' = DOMAIN held \ {h}
        /\ \A k \in DOMAIN held' : held'[k] = held[k]
    BY HeldAfterForget
  <1>2. TypeInv' /\ WithinFiles' /\ Kept'
    BY <1>1 DEF Inv, TypeInv, WithinFiles, Kept
  <1>3. HandleKinds'
    BY <1>1 DEF Inv, HandleKinds
  <1>4. HeldBacked'
    BY <1>1 DEF Inv, HeldBacked, Backed
  <1>5. Owned'
    BY <1>1 DEF Inv, Owned
  <1> QED
    BY <1>2, <1>3, <1>4, <1>5 DEF Inv

\* Closing a file.
LEMMA FileForgotten ==
  ASSUME Inv, NEW m \in Entries, FatHandle(m) \in DOMAIN held, Forgets(FatHandle(m)),
         FileHandles' = [FileHandles EXCEPT ![m] = NoFile], UNCHANGED <<volumes, dropped>>
  PROVE  Inv'
  <1>1. /\ held' \in [DOMAIN held' -> HeldFil] /\ DOMAIN held' = DOMAIN held \ {FatHandle(m)}
        /\ \A k \in DOMAIN held' : held'[k] = held[k]
    BY HeldAfterForget
  <1>2. FileHandles \in [Entries -> FIL \cup {NoFile}]
    BY DEF Inv, TypeInv
  <1>3. /\ FileHandles' \in [Entries -> FIL \cup {NoFile}] /\ FileHandles'[m] = NoFile
        /\ \A i \in Entries : i # m => FileHandles'[i] = FileHandles[i]
    BY <1>2
  <1>4. m \notin dropped
    BY DEF Inv, HeldBacked, Backed
  <1>5. TypeInv'
    BY <1>1, <1>3 DEF Inv, TypeInv
  <1>6. WithinFiles'
    BY <1>3 DEF Inv, WithinFiles
  <1>7. Kept'
    BY <1>3, <1>4 DEF Inv, TypeInv, Kept
  <1>8. HandleKinds'
    BY <1>1 DEF Inv, HandleKinds
  <1>9. HeldBacked'
    <2>1. SUFFICES ASSUME NEW i \in Entries, FatHandle(i) \in DOMAIN held' PROVE Backed(i)'
      BY DEF HeldBacked
    <2>2. i # m /\ Backed(i) /\ held'[FatHandle(i)] = held[FatHandle(i)]
      BY <1>1, <2>1 DEF Inv, HeldBacked
    <2> QED
      BY <1>3, <2>2 DEF Backed
  <1>10. Owned'
    <2>1. \A i \in Entries : i # m => FatHandle(i) # FatHandle(m)
      BY FatHandlesDiffer
    <2> QED
      BY <1>1, <1>3, <2>1 DEF Inv, Owned
  <1> QED
    BY <1>5, <1>6, <1>7, <1>8, <1>9, <1>10 DEF Inv

At(fil, t) == [fil EXCEPT !.tell = t]

\* A file is moved, by a program that knows where to or no longer does.
LEMMA FileMoved ==
  ASSUME Inv, NEW m \in Entries, FatHandle(m) \in DOMAIN held,
         NEW t \in 0 .. FileSize[FileHandles[m].file], NEW known \in Nat \cup {Unknown},
         known # Unknown => known = t,
         FileHandles' = [FileHandles EXCEPT ![m] = At(FileHandles[m], t)],
         held' = [held EXCEPT ![FatHandle(m)].pos = known],
         UNCHANGED <<volumes, dropped>>
  PROVE  Inv'
  <1>1. FileHandles \in [Entries -> FIL \cup {NoFile}] /\ held \in [DOMAIN held -> HeldFil]
    BY DEF Inv, TypeInv
  <1>2. Backed(m)
    BY DEF Inv, HeldBacked
  <1>3. FileHandles[m] \in FIL /\ FileSize[FileHandles[m].file] \in Nat
    BY <1>1, <1>2, FilesAssumption DEF Backed, FIL
  <1>4. /\ At(FileHandles[m], t) \in FIL /\ At(FileHandles[m], t).file = FileHandles[m].file
        /\ At(FileHandles[m], t).tell = t
    BY <1>3 DEF At, FIL
  <1>5. At(FileHandles[m], t) # NoFile
    BY <1>4 DEF FIL, NoFile
  <1>6. /\ FileHandles' \in [Entries -> FIL \cup {NoFile}] /\ FileHandles'[m] = At(FileHandles[m], t)
        /\ \A i \in Entries : i # m => FileHandles'[i] = FileHandles[i]
    BY <1>1, <1>4
  <1>7. /\ held' \in [DOMAIN held' -> HeldFil] /\ DOMAIN held' = DOMAIN held
        /\ held'[FatHandle(m)].path = held[FatHandle(m)].path /\ held'[FatHandle(m)].pos = known
        /\ \A k \in DOMAIN held : held'[k].path = held[k].path
        /\ \A k \in DOMAIN held : k # FatHandle(m) => held'[k] = held[k]
    BY <1>1 DEF HeldFil
  <1>8. TypeInv'
    BY <1>6, <1>7 DEF Inv, TypeInv
  <1>9. WithinFiles'
    BY <1>3, <1>4, <1>6 DEF Inv, WithinFiles
  <1>10. Kept'
    BY <1>5, <1>6 DEF Inv, TypeInv, Kept
  <1>11. HandleKinds'
    BY <1>7 DEF Inv, HandleKinds
  <1>12. HeldBacked'
    <2>1. SUFFICES ASSUME NEW i \in Entries, FatHandle(i) \in DOMAIN held PROVE Backed(i)'
      BY <1>7 DEF HeldBacked
    <2>2. CASE i = m
      BY <1>2, <1>4, <1>5, <1>6, <1>7, <2>2 DEF Backed
    <2>3. CASE i # m
      <3>1. Backed(i) /\ FatHandle(i) # FatHandle(m)
        BY <2>1, <2>3, FatHandlesDiffer DEF Inv, HeldBacked
      <3> QED
        BY <1>6, <1>7, <2>1, <2>3, <3>1 DEF Backed
    <2> QED
      BY <2>2, <2>3
  <1>13. Owned'
    <2>1. m \in dropped \/ FatHandle(m) \in DOMAIN held
      OBVIOUS
    <2> QED
      BY <1>6, <1>7, <2>1 DEF Inv, Owned
  <1> QED
    BY <1>8, <1>9, <1>10, <1>11, <1>12, <1>13 DEF Inv

-----------------------------------------------------------------------------
(* The calls that open.                                                    *)

OpenedRecord(o) == \E h, t, f, b : o = [handle |-> h, table |-> t, fb |-> f, open |-> b]

LEMMA OpenIsRecord == ASSUME NEW path PROVE OpenedRecord(VolumeOpenHandle(path))
  <1>1. \A h : OpenedRecord(NotOpened(h))
    BY DEF OpenedRecord, NotOpened
  <1>2. \A p : OpenedRecord(StandardIO_OpenHandle(p))
    BY <1>1 DEF StandardIO_OpenHandle
  <1>3. \A h, p : OpenedRecord(SpecialProc_OpenHandle(h, p))
    BY <1>1 DEF SpecialProc_OpenHandle, OpenedRecord, NotOpened
  <1>4. \A h, p : OpenedRecord(Device_OpenHandle(h, p))
    BY <1>1 DEF Device_OpenHandle, FramebufferVolume_OpenHandle, OpenedRecord, NotOpened
  <1>5. \A h, p : OpenedRecord(FatVolume_OpenHandle(h, p))
    BY <1>1 DEF FatVolume_OpenHandle, OpenedRecord
  <1> QED
    BY <1>1, <1>2, <1>3, <1>4, <1>5 DEF VolumeOpenHandle

LEMMA OpenKeepsInv ==
  ASSUME Inv, NEW path \in Paths, sys_open(path)
  PROVE  Inv'
  <1>1. PICK o : o = VolumeOpenHandle(SkipDot(path))
    OBVIOUS
  <1>2. /\ FileHandles' = o.table /\ UNCHANGED <<volumes, held>>
        /\ dropped' = IF o.open /\ IsFat(o.handle) THEN dropped \cup {FileOf(o.handle)} ELSE dropped
    BY <1>1 DEF sys_open, Opened
  <1>3. Mounted(volumes) /\ Good(SkipDot(path))
    BY GoodPaths DEF Inv, TypeInv
  <1>4. CASE Failed(o)
    BY <1>2, <1>4, NothingChanges DEF Failed
  <1>5. CASE OpensProc(o, SkipDot(path)) \/ OpensDev(o, SkipDot(path))
    <2>1. FileHandles' = FileHandles /\ ~IsFat(o.handle)
      BY <1>2, <1>3, <1>5, FatVolumes DEF OpensProc, OpensDev, IsFat
    <2> QED
      BY <1>2, <2>1, NothingChanges
  <1>6. ASSUME NEW m \in FreeEntries, OpensFile(o, SkipDot(path), m) PROVE Inv'
    <2>1. m \in Entries
      BY DEF FreeEntries, Entries
    <2>2. o.open /\ IsFat(o.handle) /\ FileOf(o.handle) = m
      BY <1>3, <1>6, <2>1, FatVolumes, FatHandles DEF OpensFile, IsFat
    <2>3. Fills(m, SkipDot(path)) /\ dropped' = dropped \cup {m}
      BY <1>2, <1>6, <2>2 DEF OpensFile, Fills
    <2> QED
      BY <1>2, <1>3, <2>3, FileDropped
  <1> QED
    BY <1>1, <1>3, <1>4, <1>5, <1>6, OpenResults

LEMMA OpenatKeepsInv ==
  ASSUME Inv, NEW path \in Paths, sys_openat(path)
  PROVE  Inv'
  <1>1. PICK o : o = VolumeOpenHandle(SkipDot(path))
    OBVIOUS
  <1>2. /\ FileHandles' = o.table /\ UNCHANGED <<volumes, dropped>>
        /\ IF o.open THEN Gives(o.handle, SkipDot(path)) ELSE UNCHANGED held
    BY <1>1 DEF sys_openat, Opened, Gives
  <1>3. Mounted(volumes) /\ Good(SkipDot(path))
    BY GoodPaths DEF Inv, TypeInv
  <1>4. CASE Failed(o)
    BY <1>2, <1>4, NothingChanges DEF Failed
  <1>5. CASE OpensProc(o, SkipDot(path)) \/ OpensDev(o, SkipDot(path))
    <2>1. /\ o.open /\ o.table = FileHandles
          /\ \/ o.handle = ProcHandle /\ Below(SkipDot(path), "proc")
             \/ o.handle = DevHandle /\ Below(SkipDot(path), "dev")
      BY <1>5 DEF OpensProc, OpensDev
    <2>2. Gives(o.handle, SkipDot(path)) /\ UNCHANGED <<volumes, FileHandles, dropped>>
      BY <1>2, <2>1
    <2> QED
      BY <1>3, <2>1, <2>2, SpecialGiven
  <1>6. ASSUME NEW m \in FreeEntries, OpensFile(o, SkipDot(path), m) PROVE Inv'
    <2>1. Fills(m, SkipDot(path)) /\ Gives(FatHandle(m), SkipDot(path))
      BY <1>2, <1>6 DEF OpensFile, Fills
    <2> QED
      BY <1>2, <1>3, <2>1, FileGiven
  <1> QED
    BY <1>1, <1>3, <1>4, <1>5, <1>6, OpenResults

\* What access opens it closes: the table is as it was.
LEMMA AccessKeepsInv ==
  ASSUME Inv, NEW path \in Paths, sys_access(path)
  PROVE  Inv'
  <1>1. PICK o : o = VolumeOpenHandle(SkipDot(path))
    OBVIOUS
  <1>2. PICK c : c = VolumeCloseHandle(o.table, o.fb, o.handle)
    OBVIOUS
  <1>3. OpenedRecord(o)
    BY <1>1, OpenIsRecord
  <1>4. UNCHANGED <<volumes, held, dropped>> /\ FileHandles' = IF o.handle = 0 THEN o.table ELSE c.table
    BY <1>1, <1>2, <1>3 DEF sys_access, Opened, OpenedRecord
  <1>5. c.table = IF IsFat(o.handle) THEN [o.table EXCEPT ![FileOf(o.handle)] = NoFile] ELSE o.table
    BY <1>2 DEF VolumeCloseHandle, FatVolume_CloseHandle, IsFat
  <1>6. Mounted(volumes) /\ Good(SkipDot(path))
    BY GoodPaths DEF Inv, TypeInv
  <1>7. CASE Failed(o)
    <2>1. ~IsFat(o.handle)
      BY <1>6, <1>7, FatVolumes DEF Failed, IsFat
    <2> QED
      BY <1>4, <1>5, <1>7, <2>1, NothingChanges DEF Failed
  <1>8. CASE OpensProc(o, SkipDot(path)) \/ OpensDev(o, SkipDot(path))
    <2>1. o.table = FileHandles /\ ~IsFat(o.handle)
      BY <1>6, <1>8, FatVolumes DEF OpensProc, OpensDev, IsFat
    <2> QED
      BY <1>4, <1>5, <2>1, NothingChanges
  <1>9. ASSUME NEW m \in FreeEntries, OpensFile(o, SkipDot(path), m) PROVE Inv'
    <2>1. m \in Entries /\ FileHandles[m] = NoFile
      BY DEF FreeEntries, Entries
    <2>2. IsFat(o.handle) /\ FileOf(o.handle) = m /\ o.handle # 0
      BY <1>6, <1>9, <2>1, FatVolumes, FatHandles DEF OpensFile, IsFat
    <2>3. FileHandles' = [[FileHandles EXCEPT ![m] = Fresh(SkipDot(path))] EXCEPT ![m] = NoFile]
      BY <1>4, <1>5, <1>9, <2>2 DEF OpensFile
    <2>4. FileHandles \in [Entries -> FIL \cup {NoFile}]
      BY DEF Inv, TypeInv
    <2>5. FileHandles' = FileHandles
      BY <2>1, <2>3, <2>4
    <2> QED
      BY <1>4, <2>5, NothingChanges
  <1> QED
    BY <1>1, <1>6, <1>7, <1>8, <1>9, OpenResults

-----------------------------------------------------------------------------
(* The calls with a handle.                                                *)

LEMMA CloseKeepsInv ==
  ASSUME Inv, NEW h \in Usable, sys_close(h)
  PROVE  Inv'
  <1>1. /\ FileHandles' = IF IsFat(h) THEN [FileHandles EXCEPT ![FileOf(h)] = NoFile] ELSE FileHandles
        /\ Forgets(h) /\ UNCHANGED <<volumes, dropped>>
    BY DEF sys_close, VolumeCloseHandle, FatVolume_CloseHandle, IsFat, Forgets
  <1>2. CASE OtherHandle(h)
    BY <1>1, <1>2, OtherForgotten DEF OtherHandle
  <1>3. ASSUME NEW m \in Entries, IsFileHandle(h, m) PROVE Inv'
    <2>1. /\ FatHandle(m) \in DOMAIN held /\ Forgets(FatHandle(m))
          /\ FileHandles' = [FileHandles EXCEPT ![m] = NoFile]
      BY <1>1, <1>3 DEF IsFileHandle
    <2> QED
      BY <1>1, <2>1, FileForgotten
  <1> QED
    BY <1>2, <1>3, UsableHandles

\* A result that leaves the table alone.
Keeps(results) == \A r \in results : r.table = FileHandles

LEMMA Returned ==
  /\ \A v : Returns(v).table = FileHandles /\ Returns(v).ret = v /\ Returns(v).halt = FALSE
  /\ Stops.table = FileHandles
  BY DEF Returns, Stops

LEMMA OtherResultsKeep ==
  ASSUME NEW h, ~IsFat(h), NEW size \in Nat, NEW offset
  PROVE  Keeps(VolumeRead(h, offset, size)) /\ \A origin : Keeps(VolumeSeek(h, offset, origin))
  <1>1. GetVolumeIndex(h).volume # "fat"
    BY DEF IsFat
  <1>2. Keeps(StandardIO_Read(h, size))
    BY Returned DEF StandardIO_Read, StandardInputVolume_Read, Keeps
  <1>3. Keeps(SpecialProc_Read(offset, size))
    BY Returned DEF SpecialProc_Read, Keeps
  <1>4. Keeps(Device_Read) /\ Keeps(Device_Seek) /\ Keeps({Returns(-EINVAL)})
    BY Returned DEF Device_Read, Device_Seek, FramebufferVolume_Read, FramebufferVolume_Seek, Keeps
  <1>5. Keeps(VolumeRead(h, offset, size))
    BY <1>1, <1>2, <1>3, <1>4 DEF VolumeRead
  <1>6. ASSUME NEW origin PROVE Keeps(VolumeSeek(h, offset, origin))
    BY <1>1, <1>4 DEF VolumeSeek
  <1> QED
    BY <1>5, <1>6

LEMMA WritesKeep ==
  ASSUME NEW h, NEW size
  PROVE  Keeps(VolumeWrite(h, size))
  <1>1. Keeps(StandardIO_Write(h, size)) /\ Keeps(Device_Write(size)) /\ Keeps(FatVolume_Write(h, size))
    BY Returned DEF StandardIO_Write, Device_Write, FramebufferVolume_Write, FatVolume_Write, Keeps
  <1>2. Keeps({Stops}) /\ Keeps({Returns(-EINVAL)})
    BY Returned DEF Keeps
  <1> QED
    BY <1>1, <1>2 DEF VolumeWrite

LEMMA SizesKeep ==
  ASSUME NEW h
  PROVE  Keeps(VolumeGetSize(h))
  <1>1. Keeps(Device_GetSize) /\ Keeps(FatVolume_GetSize(h)) /\ Keeps({Stops}) /\ Keeps({Returns(-EINVAL)})
    BY Returned DEF Device_GetSize, FramebufferVolume_GetSize, FatVolume_GetSize, Keeps
  <1> QED
    BY <1>1 DEF VolumeGetSize

LEMMA CommandsKeep ==
  ASSUME NEW h, NEW command
  PROVE  Keeps({VolumeCommand(h, command)})
  BY Returned DEF VolumeCommand, Device_Command, FramebufferVolume_Command, Keeps

\* A call that keeps the table and tells its caller nothing of a position.
LEMMA KeptTransfer ==
  ASSUME Inv, NEW results, Keeps(results), Transfer(results, SamePosition)
  PROVE  Inv'
  <1>1. UNCHANGED <<volumes, FileHandles, held, dropped>>
    BY DEF Transfer, SamePosition, Keeps
  <1> QED
    BY <1>1, NothingChanges

\* The file behind a handle.
LEMMA OpenFile ==
  ASSUME Inv, NEW m \in Entries, NEW h, IsFileHandle(h, m)
  PROVE  /\ FileHandles[m] # NoFile /\ FileHandles[m] \in FIL
         /\ f_size(FileHandles[m]) \in Nat /\ FileHandles[m].tell \in 0 .. f_size(FileHandles[m])
         /\ held[h] \in HeldFil /\ held[h].path = FileHandles[m].file
         /\ held[h].pos # Unknown => held[h].pos = FileHandles[m].tell
  <1>1. Backed(m) /\ h \in DOMAIN held /\ h = FatHandle(m)
    BY DEF Inv, HeldBacked, IsFileHandle
  <1>2. FileHandles[m] \in FIL /\ held[h] \in HeldFil
    BY <1>1 DEF Inv, TypeInv, Backed
  <1>3. FileHandles[m].file \in DOMAIN FileSize /\ FileHandles[m].tell \in Nat
    BY <1>2 DEF FIL
  <1>4. FileSize[FileHandles[m].file] \in Nat /\ FileHandles[m].tell <= FileSize[FileHandles[m].file]
    BY <1>1, <1>3, FilesAssumption DEF Inv, WithinFiles, Backed
  <1> QED
    BY <1>1, <1>2, <1>3, <1>4 DEF f_size, Backed

\* f_lseek and f_read only move a file, and never past its end.
LEMMA FatFs ==
  ASSUME NEW fil \in FIL, f_size(fil) \in Nat, fil.tell \in 0 .. f_size(fil)
  PROVE  /\ \A ofs \in Int : LET t == IF ofs < 0 \/ ofs > f_size(fil) THEN f_size(fil) ELSE ofs
                             IN  f_lseek(fil, ofs) = At(fil, t) /\ t \in 0 .. f_size(fil)
         /\ \A size \in Nat : LET n == f_readable(fil, size)
                              IN  /\ f_read(fil, size) = At(fil, fil.tell + n)
                                  /\ n \in Nat /\ fil.tell + n \in 0 .. f_size(fil)
  <1>1. ASSUME NEW ofs \in Int
        PROVE  LET t == IF ofs < 0 \/ ofs > f_size(fil) THEN f_size(fil) ELSE ofs
               IN  f_lseek(fil, ofs) = At(fil, t) /\ t \in 0 .. f_size(fil)
    BY DEF f_lseek, At
  <1>2. ASSUME NEW size \in Nat
        PROVE  /\ f_readable(fil, size) \in Nat
               /\ fil.tell + f_readable(fil, size) \in 0 .. f_size(fil)
    BY DEF f_readable
  <1>3. ASSUME NEW size \in Nat PROVE f_read(fil, size) = At(fil, fil.tell + f_readable(fil, size))
    BY DEF f_read, At
  <1> QED
    BY <1>1, <1>2, <1>3

LEMMA Moved ==
  ASSUME NEW fil \in FIL, NEW t \in Nat
  PROVE  /\ At(fil, t) \in FIL /\ At(fil, t).tell = t /\ f_size(At(fil, t)) = f_size(fil)
         /\ \A u \in Nat : At(At(fil, t), u) = At(fil, u)
         /\ At(fil, fil.tell) = fil
  <1>1. At(fil, t) \in FIL /\ At(fil, t).tell = t /\ At(fil, t).file = fil.file
    BY DEF At, FIL
  <1>2. f_size(At(fil, t)) = f_size(fil)
    BY <1>1 DEF f_size
  <1>3. fil = [file |-> fil.file, tell |-> fil.tell]
    BY DEF FIL
  <1>4. ASSUME NEW u \in Nat PROVE At(At(fil, t), u) = At(fil, u)
    BY <1>3 DEF At
  <1>5. At(fil, fil.tell) = fil
    BY <1>3 DEF At
  <1> QED
    BY <1>1, <1>2, <1>4, <1>5

\* A positioned read ends by seeking back.
LEMMA SeeksBack ==
  ASSUME NEW fil \in FIL, f_size(fil) \in Nat, fil.tell \in 0 .. f_size(fil),
         NEW offset \in Int, NEW size \in Nat
  PROVE  f_lseek(f_read(f_lseek(fil, offset), size), fil.tell) = fil
  <1>1. PICK t : f_lseek(fil, offset) = At(fil, t) /\ t \in 0 .. f_size(fil)
    BY FatFs
  <1>2. t \in Nat
    BY <1>1
  <1>3. At(fil, t) \in FIL /\ At(fil, t).tell = t /\ f_size(At(fil, t)) = f_size(fil)
    BY <1>2, Moved
  <1>4. PICK u : f_read(At(fil, t), size) = At(At(fil, t), u) /\ u \in 0 .. f_size(fil)
    <2>1. PICK fi : fi = At(fil, t)
      OBVIOUS
    <2>2. fi \in FIL /\ f_size(fi) \in Nat /\ fi.tell \in 0 .. f_size(fi)
      BY <1>1, <1>3, <2>1
    <2>3. /\ f_read(fi, size) = At(fi, fi.tell + f_readable(fi, size))
          /\ fi.tell + f_readable(fi, size) \in 0 .. f_size(fi)
      BY <2>2, FatFs
    <2> QED
      BY <1>3, <2>1, <2>3
  <1>5. u \in Nat
    BY <1>4
  <1>6. At(At(fil, t), u) = At(fil, u)
    BY <1>2, <1>5, Moved
  <1>7. PICK end : end = At(fil, u)
    OBVIOUS
  <1>8. end \in FIL /\ end.tell = u /\ f_size(end) = f_size(fil)
    BY <1>5, <1>7, Moved
  <1>9. f_lseek(end, fil.tell) = At(end, fil.tell)
    <2>1. fil.tell \in Int /\ ~(fil.tell < 0 \/ fil.tell > f_size(end))
      BY <1>8
    <2> QED
      BY <2>1 DEF f_lseek, At
  <1>10. fil.tell \in Nat
    OBVIOUS
  <1>11. At(end, fil.tell) = fil
    BY <1>5, <1>7, <1>10, Moved
  <1> QED
    BY <1>1, <1>4, <1>6, <1>7, <1>9, <1>11

LEMMA PreadKeepsInv ==
  ASSUME Inv, NEW h \in Usable, NEW size \in Sizes, NEW offset \in Offsets, offset # AllOnes,
         sys_pread64(h, size, offset)
  PROVE  Inv'
  <1>1. size \in Nat /\ offset \in Int /\ Transfer(VolumeRead(h, offset, size), SamePosition)
    BY FilesAssumption DEF sys_pread64
  <1>2. CASE OtherHandle(h)
    BY <1>1, <1>2, OtherResultsKeep, KeptTransfer DEF OtherHandle
  <1>3. ASSUME NEW m \in Entries, IsFileHandle(h, m) PROVE Inv'
    <2>1. PICK fil : fil = FileHandles[m]
      OBVIOUS
    <2>2. fil # NoFile /\ fil \in FIL /\ f_size(fil) \in Nat /\ fil.tell \in 0 .. f_size(fil)
      BY <1>3, <2>1, OpenFile
    <2>3. f_lseek(f_read(f_lseek(fil, offset), size), fil.tell) = fil
      BY <1>1, <2>2, SeeksBack
    <2>4. VolumeRead(h, offset, size) = FatVolume_Read(h, offset, size) /\ FileOf(h) = m
      BY <1>3 DEF IsFileHandle, IsFat, VolumeRead
    <2>5. FileHandles \in [Entries -> FIL \cup {NoFile}]
      BY DEF Inv, TypeInv
    <2>6. [FileHandles EXCEPT ![m] = fil] = FileHandles
      BY <2>1, <2>5
    <2>7. ASSUME NEW v PROVE [Returns(v) EXCEPT !.table[m] = fil].table = [FileHandles EXCEPT ![m] = fil]
      BY DEF Returns
    <2>8. Keeps(FatVolume_Read(h, offset, size))
      <3>1. ASSUME NEW r \in FatVolume_Read(h, offset, size)
            PROVE  \/ r = Returns(0) \/ r = Stops
                   \/ \E v : r = [Returns(v) EXCEPT !.table[m] =
                                     f_lseek(f_read(f_lseek(fil, offset), size), fil.tell)]
        BY <2>1, <2>4 DEF FatVolume_Read
      <3>2. ASSUME NEW r \in FatVolume_Read(h, offset, size) PROVE r.table = FileHandles
        <4>1. CASE r = Returns(0) \/ r = Stops
          BY <4>1, Returned
        <4>2. ASSUME NEW v, r = [Returns(v) EXCEPT !.table[m] =
                                    f_lseek(f_read(f_lseek(fil, offset), size), fil.tell)]
              PROVE  r.table = FileHandles
          <5>1. r = [Returns(v) EXCEPT !.table[m] = fil]
            BY <2>3, <4>2
          <5> QED
            BY <2>6, <2>7, <5>1
        <4> QED
          BY <3>1, <4>1, <4>2
      <3> QED
        BY <3>2 DEF Keeps
    <2> QED
      BY <1>1, <2>4, <2>8, KeptTransfer
  <1> QED
    BY <1>2, <1>3, UsableHandles

\* Nothing is told when nothing moved.
LEMMA SamePos ==
  ASSUME NEW f, NEW D, f \in [D -> HeldFil], NEW h \in D
  PROVE  [f EXCEPT ![h].pos = f[h].pos] = f
  <1>1. f[h] \in HeldFil
    OBVIOUS
  <1>2. [f[h] EXCEPT !.pos = f[h].pos] = f[h]
    BY <1>1 DEF HeldFil
  <1> QED
    BY <1>2

LEMMA ReadKeepsInv ==
  ASSUME Inv, NEW h \in Usable, NEW size \in Sizes, sys_read(h, size)
  PROVE  Inv'
  <1>1. size \in Nat
    BY FilesAssumption
  <1>2. PICK r \in VolumeRead(h, AllOnes, size) :
          /\ FileHandles' = r.table /\ UNCHANGED <<volumes, dropped>>
          /\ held' = IF h \in DOMAIN held /\ IsFat(h) /\ ~r.halt /\ held[h].pos # Unknown
                     THEN [held EXCEPT ![h].pos = held[h].pos + r.ret] ELSE held
    BY DEF sys_read, Transfer
  <1>3. CASE OtherHandle(h)
    <2>1. FileHandles' = FileHandles /\ held' = held
      BY <1>1, <1>2, <1>3, OtherResultsKeep DEF OtherHandle, Keeps
    <2> QED
      BY <1>2, <2>1, NothingChanges
  <1>4. ASSUME NEW m \in Entries, IsFileHandle(h, m) PROVE Inv'
    <2>1. PICK fil : fil = FileHandles[m]
      OBVIOUS
    <2>2. /\ fil # NoFile /\ fil \in FIL /\ f_size(fil) \in Nat /\ fil.tell \in 0 .. f_size(fil)
          /\ held[h] \in HeldFil /\ held[h].path = fil.file /\ (held[h].pos # Unknown => held[h].pos = fil.tell)
      BY <1>4, <2>1, OpenFile
    <2>3. VolumeRead(h, AllOnes, size) = FatVolume_Read(h, AllOnes, size) /\ FileOf(h) = m
      BY <1>4 DEF IsFileHandle, IsFat, VolumeRead
    <2>4. held \in [DOMAIN held -> HeldFil] /\ h \in DOMAIN held /\ IsFat(h) /\ h = FatHandle(m)
      BY <1>4 DEF Inv, TypeInv, IsFileHandle
    <2>5. [held EXCEPT ![h].pos = held[h].pos] = held
      BY <2>4, SamePos
    <2>6. held[h].pos \in Nat \cup {Unknown}
      BY <2>2 DEF HeldFil
    <2>7. CASE size = 0
      <3>1. r = Returns(0)
        BY <1>2, <2>3, <2>7 DEF FatVolume_Read
      <3>2. FileHandles' = FileHandles /\ r.ret = 0
        BY <1>2, <3>1, Returned
      <3>3. held[h].pos # Unknown => held[h].pos + 0 = held[h].pos
        BY <2>6
      <3>4. held' = held
        BY <1>2, <2>5, <3>2, <3>3
      <3> QED
        BY <1>2, <3>2, <3>4, NothingChanges
    <2>8. CASE size # 0
      <3>1. PICK n : n = f_readable(fil, size)
        OBVIOUS
      <3>2. f_read(fil, size) = At(fil, fil.tell + n) /\ n \in Nat /\ fil.tell + n \in 0 .. f_size(fil)
        BY <1>1, <2>2, <3>1, FatFs
      <3>3. r = [Returns(n) EXCEPT !.table[m] = f_read(fil, size)]
        BY <1>2, <2>1, <2>2, <2>3, <2>8, <3>1 DEF FatVolume_Read
      <3>4. r.table = [FileHandles EXCEPT ![m] = f_read(fil, size)] /\ r.ret = n /\ r.halt = FALSE
        BY <3>3 DEF Returns
      <3>5. PICK known : known = IF held[h].pos # Unknown THEN held[h].pos + n ELSE Unknown
        OBVIOUS
      <3>6. held' = [held EXCEPT ![h].pos = known]
        BY <1>2, <2>4, <2>5, <3>4, <3>5
      <3>7. known \in Nat \cup {Unknown} /\ (known # Unknown => known = fil.tell + n)
        BY <2>2, <2>6, <3>2, <3>5
      <3>8. PICK t : t = fil.tell + n
        OBVIOUS
      <3>9. t \in 0 .. FileSize[FileHandles[m].file] /\ (known # Unknown => known = t)
        BY <2>1, <3>2, <3>7, <3>8 DEF f_size
      <3>10. FileHandles' = [FileHandles EXCEPT ![m] = At(FileHandles[m], t)]
        BY <1>2, <2>1, <3>2, <3>4, <3>8
      <3> QED
        BY <1>2, <2>4, <3>6, <3>7, <3>9, <3>10, FileMoved
    <2> QED
      BY <2>7, <2>8
  <1> QED
    BY <1>3, <1>4, UsableHandles

\* Where a seek goes, and what it returns.
Goes(m, r, to, t) ==
    /\ r.table = [FileHandles EXCEPT ![m] = At(FileHandles[m], t)] /\ r.ret = to /\ r.halt = FALSE

LEMMA SeekResults ==
  ASSUME Inv, NEW m \in Entries, NEW h, IsFileHandle(h, m), NEW offset \in Int,
         NEW origin \in {"Set", "Current", "End"}, NEW r \in VolumeSeek(h, offset, origin)
  PROVE  \E t \in 0 .. f_size(FileHandles[m]), to \in Int :
            Goes(m, r, to, t) /\ (to \in 0 .. f_size(FileHandles[m]) => t = to)
  <1>1. PICK fil : fil = FileHandles[m]
    OBVIOUS
  <1>2. fil # NoFile /\ fil \in FIL /\ f_size(fil) \in Nat /\ fil.tell \in 0 .. f_size(fil)
    BY <1>1, OpenFile
  <1>3. r \in FatVolume_Seek(h, offset, origin) /\ FileOf(h) = m
    BY DEF IsFileHandle, IsFat, VolumeSeek
  <1>4. ASSUME NEW ofs \in Int, NEW to, r = [Returns(to) EXCEPT !.table[m] = f_lseek(fil, ofs)]
        PROVE  \E t \in 0 .. f_size(fil) :
                  /\ Goes(m, r, to, t) /\ f_lseek(fil, ofs) = At(fil, t)
                  /\ ofs \in 0 .. f_size(fil) => t = ofs
    <2>1. PICK t : /\ t = IF ofs < 0 \/ ofs > f_size(fil) THEN f_size(fil) ELSE ofs
                   /\ f_lseek(fil, ofs) = At(fil, t) /\ t \in 0 .. f_size(fil)
      BY <1>2, FatFs
    <2>2. r.table = [FileHandles EXCEPT ![m] = f_lseek(fil, ofs)] /\ r.ret = to /\ r.halt = FALSE
      BY <1>4 DEF Returns
    <2>3. ofs \in 0 .. f_size(fil) => t = ofs
      BY <1>2, <2>1
    <2> QED
      BY <1>1, <2>1, <2>2, <2>3 DEF Goes
  <1>5. CASE origin = "Set"
    <2>1. r = [Returns(f_lseek(fil, offset).tell) EXCEPT !.table[m] = f_lseek(fil, offset)]
      BY <1>1, <1>2, <1>3, <1>5 DEF FatVolume_Seek
    <2>2. PICK t \in 0 .. f_size(fil) :
             Goes(m, r, f_lseek(fil, offset).tell, t) /\ f_lseek(fil, offset) = At(fil, t)
      BY <1>4, <2>1
    <2>3. f_lseek(fil, offset).tell = t
      BY <1>2, <2>2, Moved
    <2> QED
      BY <1>1, <1>2, <2>2, <2>3
  <1>6. CASE origin = "Current"
    <2>1. PICK to : to = fil.tell + offset
      OBVIOUS
    <2>2. to \in Int
      BY <1>2, <2>1
    <2>3. r = [Returns(to) EXCEPT !.table[m] = f_lseek(fil, to)]
      BY <1>1, <1>2, <1>3, <1>6, <2>1 DEF FatVolume_Seek
    <2> QED
      BY <1>1, <1>4, <2>2, <2>3
  <1>7. CASE origin = "End"
    <2>1. PICK to : to = f_size(fil) - offset
      OBVIOUS
    <2>2. to \in Int
      BY <1>2, <2>1
    <2>3. r = [Returns(to) EXCEPT !.table[m] = f_lseek(fil, to)]
      BY <1>1, <1>2, <1>3, <1>7, <2>1 DEF FatVolume_Seek
    <2> QED
      BY <1>1, <1>4, <2>2, <2>3
  <1> QED
    BY <1>5, <1>6, <1>7

LEMMA LseekKeepsInv ==
  ASSUME Inv, NEW h \in Usable, NEW offset \in Offsets, NEW origin \in {"Set", "Current", "End"},
         sys_lseek(h, offset, origin)
  PROVE  Inv'
  <1>1. offset \in Int
    BY FilesAssumption
  <1>2. PICK r \in VolumeSeek(h, offset, origin) :
          /\ FileHandles' = r.table /\ UNCHANGED <<volumes, dropped>>
          /\ held' = IF h \in DOMAIN held /\ IsFat(h) /\ ~r.halt
                     THEN [held EXCEPT ![h].pos =
                              IF r.ret \in 0 .. FileSize[held[h].path] THEN r.ret ELSE Unknown]
                     ELSE held
    BY DEF sys_lseek, Transfer
  <1>3. CASE OtherHandle(h)
    <2>1. FileHandles' = FileHandles /\ held' = held
      BY <1>2, <1>3, OtherResultsKeep DEF OtherHandle, Keeps
    <2> QED
      BY <1>2, <2>1, NothingChanges
  <1>4. ASSUME NEW m \in Entries, IsFileHandle(h, m) PROVE Inv'
    <2>1. PICK t \in 0 .. f_size(FileHandles[m]), to \in Int :
             Goes(m, r, to, t) /\ (to \in 0 .. f_size(FileHandles[m]) => t = to)
      BY <1>1, <1>2, <1>4, SeekResults
    <2>2. /\ held[h].path = FileHandles[m].file /\ f_size(FileHandles[m]) \in Nat
          /\ f_size(FileHandles[m]) = FileSize[FileHandles[m].file]
      BY <1>4, OpenFile DEF f_size
    <2>3. h \in DOMAIN held /\ IsFat(h) /\ h = FatHandle(m)
      BY <1>4 DEF IsFileHandle
    <2>4. PICK known : known = IF to \in 0 .. f_size(FileHandles[m]) THEN to ELSE Unknown
      OBVIOUS
    <2>5. known \in Nat \cup {Unknown} /\ (known # Unknown => known = t)
      BY <2>1, <2>2, <2>4
    <2>6. held' = [held EXCEPT ![FatHandle(m)].pos = known]
      BY <1>2, <2>1, <2>2, <2>3, <2>4 DEF Goes
    <2>7. FileHandles' = [FileHandles EXCEPT ![m] = At(FileHandles[m], t)]
      BY <1>2, <2>1 DEF Goes
    <2> QED
      BY <1>2, <2>1, <2>2, <2>3, <2>5, <2>6, <2>7, FileMoved
  <1> QED
    BY <1>3, <1>4, UsableHandles

LEMMA NextKeepsInv == Inv /\ [Next]_vars => Inv'
  <1> SUFFICES ASSUME Inv, [Next]_vars PROVE Inv'
    OBVIOUS
  <1>1. ASSUME NEW path \in Paths, sys_open(path) \/ sys_openat(path) \/ sys_access(path) PROVE Inv'
    BY <1>1, OpenKeepsInv, OpenatKeepsInv, AccessKeepsInv
  <1>2. ASSUME NEW h \in Usable, sys_close(h) PROVE Inv'
    BY <1>2, CloseKeepsInv
  <1>3. ASSUME NEW h \in Usable, NEW size \in Sizes, sys_read(h, size) PROVE Inv'
    BY <1>3, ReadKeepsInv
  <1>4. ASSUME NEW h \in Usable, NEW size \in Sizes, sys_write(h, size) PROVE Inv'
    BY <1>4, WritesKeep, KeptTransfer DEF sys_write
  <1>5. ASSUME NEW h \in Usable, NEW size1 \in Sizes, NEW size2 \in Sizes, sys_writev(h, size1, size2)
        PROVE  Inv'
    <2>1. PICK results :
             /\ results = {IF a.halt \/ b.halt THEN Stops ELSE Returns(a.ret + b.ret) :
                              a \in VolumeWrite(h, size1), b \in VolumeWrite(h, size2)}
             /\ Transfer(results, SamePosition)
      BY <1>5 DEF sys_writev
    <2>2. Keeps(results)
      BY <2>1, Returned DEF Keeps
    <2> QED
      BY <2>1, <2>2, KeptTransfer
  <1>6. ASSUME NEW h \in Usable, NEW size \in Sizes, NEW offset \in Offsets, offset # AllOnes,
               sys_pread64(h, size, offset)
        PROVE  Inv'
    BY <1>6, PreadKeepsInv
  <1>7. ASSUME NEW h \in Usable, NEW offset \in Offsets, NEW origin \in {"Set", "Current", "End"},
               sys_lseek(h, offset, origin)
        PROVE  Inv'
    BY <1>7, LseekKeepsInv
  <1>8. ASSUME NEW h \in Usable, NEW command, sys_ioctl(h, command) PROVE Inv'
    BY <1>8, CommandsKeep, KeptTransfer DEF sys_ioctl
  <1>9. ASSUME NEW h \in Usable, sys_newfstatat(h) PROVE Inv'
    <2>1. PICK results :
             /\ results = {IF r.halt THEN r ELSE Returns(IF r.ret < 0 THEN r.ret ELSE 0) : r \in VolumeGetSize(h)}
             /\ Transfer(results, SamePosition)
      BY <1>9 DEF sys_newfstatat
    <2>2. Keeps(results)
      BY <2>1, Returned, SizesKeep DEF Keeps
    <2> QED
      BY <2>1, <2>2, KeptTransfer
  <1>10. CASE UNCHANGED vars
    BY <1>10, NothingChanges DEF vars
  <1>11. CASE OpenCall
    BY <1>1, <1>11 DEF OpenCall
  <1>12. CASE HandleCall
    BY <1>2, <1>3, <1>4, <1>5, <1>6, <1>7, <1>8, <1>9, <1>12 DEF HandleCall
  <1> QED
    BY <1>10, <1>11, <1>12 DEF Next

LEMMA AlwaysInv == Spec => []Inv
  BY InitInv, NextKeepsInv, PTL DEF Spec

-----------------------------------------------------------------------------
(* The properties.                                                         *)

LEMMA HeldHandles ==
  ASSUME Inv, NEW h \in DOMAIN held
  PROVE  IF IsFat(h) THEN \E m \in Entries : IsFileHandle(h, m) ELSE \A m \in Entries : h # FatHandle(m)
  <1>1. h \in Usable
    BY DEF Usable
  <1> QED
    BY <1>1, UsableHandles DEF OtherHandle, IsFileHandle

(* The position of every open file is the one its program was last told,   *)
(* with any files, sizes and offsets, and any number of programs.          *)
THEOREM PositionsAreReported == Spec => []PositionsAsReported
  <1>1. ASSUME Inv PROVE PositionsAsReported
    <2>1. SUFFICES ASSUME NEW h \in DOMAIN held, IsFat(h)
                   PROVE  /\ FileHandles[FileOf(h)].file = held[h].path
                          /\ held[h].pos # Unknown => FileHandles[FileOf(h)].tell = held[h].pos
      BY DEF PositionsAsReported
    <2>2. PICK m \in Entries : IsFileHandle(h, m)
      BY <1>1, <2>1, HeldHandles
    <2> QED
      BY <1>1, <2>2, OpenFile DEF IsFileHandle
  <1> QED
    BY <1>1, AlwaysInv, PTL

(* No entry of the table of files is lost and none is given up while its   *)
(* handle is held, for a table of any size.                                *)
THEOREM EntriesAccounted == Spec => []TableAccounted
  <1>1. ASSUME Inv PROVE TableAccounted
    <2> DEFINE used == {i \in DOMAIN FileHandles : FileHandles[i] # NoFile}
               mine == {FileOf(h) : h \in {k \in DOMAIN held : IsFat(k)}}
    <2>1. DOMAIN FileHandles = Entries /\ dropped \subseteq Entries
      BY <1>1 DEF Inv, TypeInv
    <2>2. ASSUME NEW m PROVE m \in mine <=> m \in Entries /\ FatHandle(m) \in DOMAIN held
      <3>1. ASSUME m \in mine PROVE m \in Entries /\ FatHandle(m) \in DOMAIN held
        <4>1. PICK h \in DOMAIN held : IsFat(h) /\ m = FileOf(h)
          BY <3>1
        <4>2. PICK n \in Entries : IsFileHandle(h, n)
          BY <1>1, <4>1, HeldHandles
        <4> QED
          BY <4>1, <4>2 DEF IsFileHandle
      <3>2. ASSUME m \in Entries, FatHandle(m) \in DOMAIN held PROVE m \in mine
        <4>1. IsFat(FatHandle(m)) /\ FileOf(FatHandle(m)) = m
          BY <1>1, <3>2, HeldHandles, FatHandles
        <4> QED
          BY <3>2, <4>1
      <3> QED
        BY <3>1, <3>2
    <2> HIDE DEF mine
    <2>3. used \subseteq mine \cup dropped
      BY <1>1, <2>1, <2>2 DEF Inv, Owned
    <2>4. mine \subseteq used /\ mine \cap dropped = {}
      BY <1>1, <2>1, <2>2 DEF Inv, HeldBacked, Backed
    <2>5. dropped \subseteq used
      BY <1>1, <2>1 DEF Inv, Kept
    <2>6. used = mine \cup dropped /\ mine \cap dropped = {}
      BY <2>3, <2>4, <2>5
    <2> QED
      BY <2>6 DEF TableAccounted, mine
  <1> QED
    BY <1>1, AlwaysInv, PTL

\* A root with one name is one that a path starts with when the path goes on
\* below it.
LEMMA RootOfName ==
  ASSUME NEW path, path \in Seq(Name), NEW name
  PROVE  IsStrictPrefix(Front(<<Empty, name, Empty>>), path) <=> Below(path, name)
  <1> DEFINE S == {Empty, name}
  <1>1. PICK f : f = Front(<<Empty, name, Empty>>)
    OBVIOUS
  <1>2. f \in Seq(S) /\ Len(f) = 2 /\ f[1] = Empty /\ f[2] = name
    <2>1. PICK r : r = <<Empty, name, Empty>>
      OBVIOUS
    <2>2. Len(r) = 3 /\ r[1] = Empty /\ r[2] = name /\ f = SubSeq(r, 1, 2)
      BY <1>1, <2>1 DEF Front
    <2>3. \A i \in 1 .. 2 : r[i] \in S
      BY <2>2
    <2>4. /\ SubSeq(r, 1, 2) \in Seq(S) /\ Len(SubSeq(r, 1, 2)) = IF 1 <= 2 THEN 2 - 1 + 1 ELSE 0
          /\ \A i \in 1 .. 2 - 1 + 1 : SubSeq(r, 1, 2)[i] = r[1 + i - 1]
      BY <2>3, SubSeqProperties
    <2> QED
      BY <2>2, <2>4
  <1>3. PICK s : s = SubSeq(f, 1, 2)
    OBVIOUS
  <1>4. s \in Seq(S) /\ Len(s) = 2 /\ s[1] = Empty /\ s[2] = name
    <2>1. \A i \in 1 .. 2 : f[i] \in S
      BY <1>2
    <2>2. /\ s \in Seq(S) /\ Len(s) = IF 1 <= 2 THEN 2 - 1 + 1 ELSE 0
          /\ \A i \in 1 .. 2 - 1 + 1 : s[i] = f[1 + i - 1]
      BY <1>3, <2>1, SubSeqProperties
    <2> QED
      BY <1>2, <2>2
  <1>5. IsStrictPrefix(f, path) <=> Len(path) >= 2 /\ s = SubSeq(path, 1, 2) /\ f # path
    BY <1>2, <1>3 DEF IsStrictPrefix, IsPrefix
  <1>6. Empty \in Name
    BY FilesAssumption
  <1>7. ASSUME Len(path) >= 2
        PROVE  /\ SubSeq(path, 1, 2) \in Seq(Name) /\ Len(SubSeq(path, 1, 2)) = 2
               /\ SubSeq(path, 1, 2)[1] = path[1] /\ SubSeq(path, 1, 2)[2] = path[2]
    <2>1. \A i \in 1 .. 2 : path[i] \in Name
      BY <1>7
    <2>2. /\ SubSeq(path, 1, 2) \in Seq(Name) /\ Len(SubSeq(path, 1, 2)) = IF 1 <= 2 THEN 2 - 1 + 1 ELSE 0
          /\ \A i \in 1 .. 2 - 1 + 1 : SubSeq(path, 1, 2)[i] = path[1 + i - 1]
      BY <2>1, SubSeqProperties
    <2> QED
      BY <2>2
  <1> HIDE DEF S
  <1>n. Len(path) \in Nat /\ \A n \in Nat : (n >= 3 => n # 2) /\ (n >= 2 /\ n # 2 => n >= 3)
    OBVIOUS
  <1>8. ASSUME Below(path, name) PROVE IsStrictPrefix(f, path)
    <2>1. Len(path) >= 3 /\ path[1] = Empty /\ path[2] = name /\ name \in Name
      BY <1>8 DEF Below
    <2>2. s \in Seq(Name)
      <3>1. \A i \in 1 .. 2 : f[i] \in Name
        BY <1>2, <1>6, <2>1
      <3> QED
        BY <1>3, <3>1, SubSeqProperties
    <2>3. s = SubSeq(path, 1, 2)
      <3>1. PICK g : g = SubSeq(path, 1, 2)
        OBVIOUS
      <3>2. g \in Seq(Name) /\ Len(g) = 2 /\ g[1] = Empty /\ g[2] = name
        BY <1>7, <2>1, <3>1
      <3> QED
        BY <1>4, <2>2, <3>1, <3>2, SeqEqual
    <2>4. f # path
      <3>1. Len(path) # 2
        BY <1>n, <2>1
      <3> QED
        BY <1>2, <3>1
    <2> QED
      BY <1>5, <2>1, <2>3, <2>4
  <1>9. ASSUME IsStrictPrefix(f, path) PROVE Below(path, name)
    <2>1. Len(path) >= 2 /\ path[1] = Empty /\ path[2] = name
      BY <1>4, <1>5, <1>7, <1>9
    <2>2. CASE Len(path) = 2
      <3>1. f \in Seq(Name)
        BY <1>2, <1>6, <2>1 DEF S
      <3>2. f = path
        BY <1>2, <2>1, <2>2, <3>1, SeqEqual
      <3> QED
        BY <1>5, <1>9, <3>2
    <2>3. CASE Len(path) # 2
      <3>1. Len(path) >= 3
        BY <1>n, <2>1, <2>3
      <3> QED
        BY <2>1, <3>1 DEF Below
    <2> QED
      BY <2>2, <2>3
  <1> QED
    BY <1>1, <1>8, <1>9

LEMMA RootOfDisc ==
  ASSUME NEW path, path \in Seq(Name), Len(path) >= 2, path[1] = Empty
  PROVE  IsStrictPrefix(Front(<<Empty, Empty>>), path)
  <1>1. PICK f : f = Front(<<Empty, Empty>>)
    OBVIOUS
  <1>2. Empty \in Name
    BY FilesAssumption
  <1>3. f \in Seq(Name) /\ Len(f) = 1 /\ f[1] = Empty
    <2>1. PICK r : r = <<Empty, Empty>>
      OBVIOUS
    <2>2. Len(r) = 2 /\ r[1] = Empty /\ f = SubSeq(r, 1, 1)
      BY <1>1, <2>1 DEF Front
    <2>3. \A i \in 1 .. 1 : r[i] \in Name
      BY <1>2, <2>2
    <2>4. /\ SubSeq(r, 1, 1) \in Seq(Name) /\ Len(SubSeq(r, 1, 1)) = IF 1 <= 1 THEN 1 - 1 + 1 ELSE 0
          /\ \A i \in 1 .. 1 - 1 + 1 : SubSeq(r, 1, 1)[i] = r[1 + i - 1]
      BY <2>3, SubSeqProperties
    <2> QED
      BY <2>2, <2>4
  <1>4. ASSUME NEW p, p \in Seq(Name), Len(p) >= 1, p[1] = Empty
        PROVE  SubSeq(p, 1, 1) \in Seq(Name) /\ Len(SubSeq(p, 1, 1)) = 1 /\ SubSeq(p, 1, 1)[1] = Empty
    <2>1. \A i \in 1 .. 1 : p[i] \in Name
      BY <1>2, <1>4
    <2>2. /\ SubSeq(p, 1, 1) \in Seq(Name) /\ Len(SubSeq(p, 1, 1)) = IF 1 <= 1 THEN 1 - 1 + 1 ELSE 0
          /\ \A i \in 1 .. 1 - 1 + 1 : SubSeq(p, 1, 1)[i] = p[1 + i - 1]
      BY <2>1, SubSeqProperties
    <2> QED
      BY <1>4, <2>2
  <1>5. SubSeq(f, 1, 1) = SubSeq(path, 1, 1)
    <2>1. PICK s, g : s = SubSeq(f, 1, 1) /\ g = SubSeq(path, 1, 1)
      OBVIOUS
    <2>2. /\ s \in Seq(Name) /\ Len(s) = 1 /\ s[1] = Empty
          /\ g \in Seq(Name) /\ Len(g) = 1 /\ g[1] = Empty
      BY <1>3, <1>4, <2>1
    <2> QED
      BY <2>1, <2>2, SeqEqual
  <1>6. Len(path) >= 1 /\ Len(path) # 1
    <2>1. Len(path) \in Nat /\ \A n \in Nat : n >= 2 => n >= 1 /\ n # 1
      OBVIOUS
    <2> QED
      BY <2>1
  <1> QED
    BY <1>1, <1>3, <1>5, <1>6 DEF IsStrictPrefix, IsPrefix

\* The mounts with a path below them.
Under(path) == {v \in UNION {Range(volumes[d]) : d \in DOMAIN volumes} :
                  /\ Len(v.root) > 1 /\ Last(v.root) = Empty
                  /\ IsStrictPrefix(Front(v.root), path)}

LEMMA MountsUnder ==
  ASSUME Mounted(volumes), NEW path, path \in Seq(Name)
  PROVE  /\ Under(path) \subseteq {FatRoot, ProcRoot, DevRoot}
         /\ ProcRoot \in Under(path) <=> Below(path, "proc")
         /\ DevRoot \in Under(path) <=> Below(path, "dev")
         /\ OnDisc(path) => FatRoot \in Under(path)
  <1>1. DOMAIN volumes = 0 .. 7 /\ \A d \in 0 .. 7 : volumes[d] \in Seq(Entry)
    BY DEF Mounted, Table
  <1>2. ASSUME NEW v PROVE v \in UNION {Range(volumes[d]) : d \in DOMAIN volumes}
                           <=> \E d \in 0 .. 7 : \E i \in 1 .. Len(volumes[d]) : v = volumes[d][i]
    <2>1. ASSUME NEW d \in 0 .. 7 PROVE v \in Range(volumes[d]) <=> \E i \in 1 .. Len(volumes[d]) : v = volumes[d][i]
      <3>1. DOMAIN volumes[d] = 1 .. Len(volumes[d])
        BY <1>1
      <3> QED
        BY <3>1 DEF Range
    <2> QED
      BY <1>1, <2>1
  <1>3. ASSUME NEW v \in Under(path) PROVE v \in {FatRoot, ProcRoot, DevRoot}
    <2>0. PICK d \in 0 .. 7 : \E i \in 1 .. Len(volumes[d]) : v = volumes[d][i]
      BY <1>2, <1>3 DEF Under
    <2>1. PICK i \in 1 .. Len(volumes[d]) : v = volumes[d][i]
      BY <2>0
    <2>2. Len(v.root) > 1 /\ Last(v.root) = Empty
      BY <1>3 DEF Under
    <2>3. CASE d = 0
      <3>1. i \in 1 .. 4 /\ v = volumes[0][i]
        BY <2>1, <2>3 DEF Mounted
      <3>2. Len(v.root) = 1
        BY <3>1 DEF Mounted
      <3> QED
        BY <2>2, <3>2
    <2>4. CASE d = 1
      BY <2>1, <2>4 DEF Mounted
    <2>5. CASE d = 2
      BY <2>1, <2>5 DEF Mounted
    <2>6. CASE d \in 3 .. 6
      BY <2>1, <2>2, <2>6, Literals DEF Mounted
    <2>7. CASE d = 7
      BY <2>1, <2>7 DEF Mounted
    <2> QED
      BY <2>3, <2>4, <2>5, <2>6, <2>7
  <1>4. /\ FatRoot \in UNION {Range(volumes[d]) : d \in DOMAIN volumes}
        /\ ProcRoot \in UNION {Range(volumes[d]) : d \in DOMAIN volumes}
        /\ DevRoot \in UNION {Range(volumes[d]) : d \in DOMAIN volumes}
    <2>1. /\ Len(volumes[1]) = 1 /\ volumes[1][1] = FatRoot
          /\ Len(volumes[2]) = 2 /\ volumes[2][1] = ProcRoot /\ volumes[2][2] = DevRoot
      BY DEF Mounted
    <2>2. 1 \in 1 .. Len(volumes[1]) /\ 1 \in 1 .. Len(volumes[2]) /\ 2 \in 1 .. Len(volumes[2])
      BY <2>1
    <2>3. 1 \in 0 .. 7 /\ 2 \in 0 .. 7
      OBVIOUS
    <2> QED
      BY <1>2, <2>1, <2>2, <2>3
  <1>5. /\ FatRoot.root = <<Empty, Empty>> /\ ProcRoot.root = <<Empty, "proc", Empty>>
        /\ DevRoot.root = <<Empty, "dev", Empty>>
    BY DEF FatRoot, ProcRoot, DevRoot, Mount
  <1>6. ASSUME NEW name PROVE Len(<<Empty, name, Empty>>) > 1 /\ Last(<<Empty, name, Empty>>) = Empty
    BY DEF Last
  <1>7. Len(<<Empty, Empty>>) > 1 /\ Last(<<Empty, Empty>>) = Empty
    BY DEF Last
  <1>8. ProcRoot \in Under(path) <=> Below(path, "proc")
    BY <1>4, <1>5, <1>6, RootOfName DEF Under
  <1>9. DevRoot \in Under(path) <=> Below(path, "dev")
    BY <1>4, <1>5, <1>6, RootOfName DEF Under
  <1>10. OnDisc(path) => FatRoot \in Under(path)
    BY <1>4, <1>5, <1>7, RootOfDisc DEF Under, OnDisc
  <1> QED
    BY <1>3, <1>8, <1>9, <1>10

(* Every handle in a program's hands leads back to the deepest volume      *)
(* mounted on the path it was opened with, whatever the files are called.  *)
THEOREM HandlesAreFaithful == Spec => []HandlesLeadBack
  <1>1. ASSUME Inv PROVE HandlesLeadBack
    <2>1. SUFFICES ASSUME NEW h \in DOMAIN held
                   PROVE  /\ h \in 4 .. 2^30 + (2^30 - 1)
                          /\ GetVolumeIndex(h) \in Under(held[h].path)
                          /\ \A v \in Under(held[h].path) : Len(v.root) <= Len(GetVolumeIndex(h).root)
      BY DEF HandlesLeadBack, Under
    <2>2. Mounted(volumes) /\ held[h] \in HeldFil
      BY <1>1 DEF Inv, TypeInv
    <2>3. PICK path : path = held[h].path
      OBVIOUS
    <2>4. path \in Seq(Name)
      BY <2>2, <2>3 DEF HeldFil
    <2>5. /\ Under(path) \subseteq {FatRoot, ProcRoot, DevRoot}
          /\ ProcRoot \in Under(path) <=> Below(path, "proc")
          /\ DevRoot \in Under(path) <=> Below(path, "dev")
          /\ OnDisc(path) => FatRoot \in Under(path)
      BY <2>2, <2>4, MountsUnder
    <2>6. Len(FatRoot.root) = 2 /\ Len(ProcRoot.root) = 3 /\ Len(DevRoot.root) = 3
      BY DEF FatRoot, ProcRoot, DevRoot, Mount
    <2>a. ASSUME NEW v \in {FatRoot, ProcRoot, DevRoot}
          PROVE  Len(v.root) <= Len(ProcRoot.root) /\ Len(v.root) <= Len(DevRoot.root)
      <3>1. Len(v.root) = 2 \/ Len(v.root) = 3
        BY <2>6
      <3>2. PICK n : n = Len(v.root)
        OBVIOUS
      <3>3. n = 2 \/ n = 3
        BY <3>1, <3>2
      <3>4. n <= 3
        BY <3>3
      <3> QED
        BY <2>6, <3>2, <3>4
    <2>7. CASE h = ProcHandle /\ Below(path, "proc")
      <3>1. GetVolumeIndex(h) = ProcRoot
        BY <2>2, <2>7, Lookup
      <3>2. h \in 4 .. 2^30 + (2^30 - 1)
        BY <2>7, Powers, SMT DEF ProcHandle
      <3>3. \A v \in Under(path) : Len(v.root) <= Len(ProcRoot.root)
        BY <2>5, <2>a
      <3>4. ProcRoot \in Under(path)
        BY <2>5, <2>7
      <3> QED
        BY <2>3, <3>1, <3>2, <3>3, <3>4
    <2>8. CASE h = DevHandle /\ Below(path, "dev")
      <3>1. GetVolumeIndex(h) = DevRoot
        BY <2>2, <2>8, Lookup
      <3>2. h \in 4 .. 2^30 + (2^30 - 1)
        BY <2>8, Powers, SMT DEF DevHandle
      <3>3. \A v \in Under(path) : Len(v.root) <= Len(DevRoot.root)
        BY <2>5, <2>a
      <3>4. DevRoot \in Under(path)
        BY <2>5, <2>8
      <3> QED
        BY <2>3, <3>1, <3>2, <3>3, <3>4
    <2>9. ASSUME NEW m \in Entries, h = FatHandle(m), OnDisc(path)
          PROVE  /\ h \in 4 .. 2^30 + (2^30 - 1)
                 /\ GetVolumeIndex(h) \in Under(path)
                 /\ \A v \in Under(path) : Len(v.root) <= Len(GetVolumeIndex(h).root)
      <3>1. m \in FileNumbers
        BY FatHandles
      <3>2. GetVolumeIndex(h) = FatRoot
        BY <2>2, <2>9, <3>1, Lookup
      <3>3. h \in 4 .. 2^29 - 1
        BY <2>9, <3>1, HandleBits
      <3>4. h \in 4 .. 2^30 + (2^30 - 1)
        BY <3>3, Powers, SMT
      <3>5. ProcRoot \notin Under(path) /\ DevRoot \notin Under(path) /\ FatRoot \in Under(path)
        BY <2>5, <2>9 DEF OnDisc
      <3> QED
        BY <2>5, <2>6, <3>2, <3>4, <3>5
    <2> QED
      BY <1>1, <2>3, <2>7, <2>8, <2>9 DEF Inv, HandleKinds
  <1> QED
    BY <1>1, AlwaysInv, PTL
=============================================================================
