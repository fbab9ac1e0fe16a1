-------------------------------- MODULE Files -------------------------------
(***************************************************************************)
(* Volumes and the file system calls: the mount table and BreakPath, the   *)
(* number a handle is, the dispatch through GetVolumeIndex, and the five   *)
(* kinds of volume (standard streams, /proc/, /dev/ with its framebuffer,  *)
(* FAT and CD-ROM) behind sys_open to sys_lseek.  There is one table of    *)
(* handles for all programs, and a system call is not interrupted by       *)
(* another one, so that each call is one step.                             *)
(*                                                                         *)
(* A path is the sequence of names between its slashes: "/dev/fb0" is      *)
(* <<"", "dev", "fb0">> and "/dev/" is <<"", "dev", "">>.                  *)
(***************************************************************************)
EXTENDS Integers, Sequences, FiniteSets, FiniteSetsExt, SequencesExt

CONSTANTS
    Paths,              \* the paths programs ask for
    FileSize,           \* path -> size, of the files on the FAT volume
    MAX_FILE_HANDLES,   \* 512 in the code
    Sizes,              \* the byte counts of a transfer
    Offsets,            \* the offsets of lseek and pread64
    MaxBuffers          \* framebuffers allocated (a bound)

MAX_SEGMENTS == 8
VOLUMES_PER_PAGE == 170
EINVAL == 22
ENOENT == 2
AllOnes == -1           \* ~0ULL, and (int)~0ULL
Name == STRING          \* what stands between two slashes,
Empty == ""             \* or before the first, or after the last
NoFile == [file |-> <<>>, tell |-> 0]
Unknown == -1

ASSUME FilesAssumption ==
    /\ MAX_FILE_HANDLES \in 1..2^21 /\ MaxBuffers \in Nat   \* a handle has 21 bits for it
    /\ Empty \in Name /\ Paths \subseteq Seq(Name)
    /\ \A p \in Paths : Len(p) \in 1..MAX_SEGMENTS
    /\ \A p \in DOMAIN FileSize : FileSize[p] \in Nat
    /\ Sizes \subseteq Nat /\ Offsets \subseteq Int

VARIABLES
    volumes,        \* VolumeIndices: number of slashes -> [root, volume] mounted there
    FileHandles,    \* the FIL of each open file: its file and its f_tell
    fb,             \* FrameBufferMemory: set or null; blocks of it allocated; and
                    \* whether the range at address 0 has been freed instead
    ret,            \* what the last call returned
    halted,         \* a null function, a null FIL or an assertion stopped the kernel
    held,           \* ghost: handles programs have been given, with the path they
                    \* asked for and the position they were last told of
    dropped         \* ghost: entries whose handle sys_open did not hand out
vars == <<volumes, FileHandles, fb, ret, halted, held, dropped>>

-----------------------------------------------------------------------------
(* Handles and the mount table.                                            *)

\* FileHandleMask: sign 1 bit, file 21, page 3, volume 3, segments 3.
Handle(segments, index, file) == segments * 2^28 + index * 2^25 + file * 2
\* The 31 bits of the mask, of a handle or of an error taken for one.
Bits(h)       == IF h < 0 THEN h + 2^30 + 2^30 ELSE h
SegmentsOf(h) == Bits(h) \div 2^28
VolumeOf(h)   == (Bits(h) \div 2^25) % 8
FileOf(h)     == (Bits(h) \div 2) % 2^21

NoVolume == [root |-> <<>>, volume |-> "null"]

GetVolumeIndex(h) ==
    LET page == volumes[SegmentsOf(h)]
    IN  IF VolumeOf(h) < Len(page) THEN page[VolumeOf(h) + 1] ELSE NoVolume

\* Slashes of a root path; more than MAX_SEGMENTS are clipped.
VolumeHashPath(root) ==
    IF Len(root) - 1 > MAX_SEGMENTS THEN MAX_SEGMENTS - 1 ELSE Len(root) - 1

\* Nothing is ever unmounted, so that the first empty slot is the next one.
MountVolume(table, volume, root) ==
    IF Len(table[VolumeHashPath(root)]) < VOLUMES_PER_PAGE
    THEN [table EXCEPT ![VolumeHashPath(root)] = Append(@, [root |-> root, volume |-> volume])]
    ELSE table

InitializeVolumeSystem == [depth \in 0..MAX_SEGMENTS - 1 |-> <<>>]

InitializeStdioVolumes(table) ==
    LET mount(t, name) == MountVolume(t, "stdio", <<name>>)
    IN  mount(mount(mount(mount(table, "stdin"), "stdout"), "stderr"), "keyboard")

InitializeSpecialProcVolumes(table) == MountVolume(table, "proc", <<Empty, "proc", Empty>>)
InitializeDeviceVolumes(table)      == MountVolume(table, "dev", <<Empty, "dev", Empty>>)

\* The root path is appended to an array that is not initialized: garbage may
\* precede it.
CdRomRoots == {<<Empty, "device", "cdrom", "0">>, <<"?", "?", "device", "cdrom", "0">>}
CdRomMount(table, root) == MountVolume(table, "cdrom", root)
MountFatVolume(table)   == MountVolume(table, "fat", <<Empty, Empty>>)

InitFS(root) ==
    MountFatVolume(CdRomMount(InitializeDeviceVolumes(InitializeSpecialProcVolumes(
        InitializeStdioVolumes(InitializeVolumeSystem))), root))

\* The mount with the most slashes that the path starts with (of several
\* with the same root the last), and the path from its final slash on.
BreakPath(path) ==
    LET slots(k) == {i \in 1..Len(volumes[k]) :
                        volumes[k][i].root = Append(SubSeq(path, 1, k), Empty)}
        matches  == {k \in 1..Len(path) - 1 : slots(k) # {}}
    IN  IF matches = {} THEN [handle |-> 0, rest |-> path]
        ELSE LET k == Max(matches)
             IN  [handle |-> Handle(k, Max(slots(k)) - 1, 0),
                  rest   |-> <<Empty>> \o SubSeq(path, k + 1, Len(path))]

-----------------------------------------------------------------------------
(* FatFs, as the volume uses it: files are opened for reading only.        *)

f_open(path)     == path \in DOMAIN FileSize
f_size(fil)      == FileSize[fil.file]
\* The offset is unsigned, and clipped to the size of a file open for reading.
f_lseek(fil, ofs) ==
    [fil EXCEPT !.tell = IF ofs < 0 \/ ofs > f_size(fil) THEN f_size(fil) ELSE ofs]
f_readable(fil, size) == IF fil.tell + size > f_size(fil) THEN f_size(fil) - fil.tell ELSE size
f_read(fil, size) == [fil EXCEPT !.tell = @ + f_readable(fil, size)]

-----------------------------------------------------------------------------
(* Opening.  The result is the handle, the state, and whether it is open.  *)

NotOpened(handle) == [handle |-> handle, table |-> FileHandles, fb |-> fb, open |-> FALSE]

StandardIO_OpenHandle(path) ==
    NotOpened(IF path[1] \in {"k", "keyboard"} THEN 3 ELSE 0)

SpecialProc_OpenHandle(volumeHandle, path) ==
    IF path = <<Empty, "sys", "kernel", "osrelease">>
    THEN [NotOpened(volumeHandle) EXCEPT !.open = TRUE]
    ELSE NotOpened(-ENOENT)

\* Every open replaces FrameBufferMemory by a new block.
FramebufferVolume_OpenHandle(volumeHandle) ==
    [NotOpened(volumeHandle) EXCEPT
        !.open = TRUE, !.fb.set = TRUE, !.fb.blocks = @ + 1]

Device_OpenHandle(volumeHandle, path) ==
    IF path = <<Empty, "fb0">>
    THEN FramebufferVolume_OpenHandle(volumeHandle)
    ELSE NotOpened(-ENOENT)

FreeEntries == {i \in 0..MAX_FILE_HANDLES - 1 : FileHandles[i] = NoFile}

\* A failed open that forgets to give its entry back.
FatVolume_OpenHandleKeepsEntry(volumeHandle, path) ==
    IF FreeEntries = {} THEN NotOpened(0)
    ELSE [handle |-> IF f_open(path) THEN volumeHandle + Min(FreeEntries) * 2 ELSE 0,
          table  |-> [FileHandles EXCEPT ![Min(FreeEntries)] = [file |-> path, tell |-> 0]],
          fb     |-> fb, open |-> f_open(path)]

\* A handle made without the volume's bits.
FatVolume_OpenHandleNoVolume(volumeHandle, path) ==
    IF FreeEntries = {} \/ ~f_open(path) THEN NotOpened(0)
    ELSE [handle |-> Min(FreeEntries) * 2,
          table  |-> [FileHandles EXCEPT ![Min(FreeEntries)] = [file |-> path, tell |-> 0]],
          fb     |-> fb, open |-> TRUE]

FatVolume_OpenHandle(volumeHandle, path) ==
    IF FreeEntries = {} \/ ~f_open(path) THEN NotOpened(0)
    ELSE [handle |-> volumeHandle + Min(FreeEntries) * 2,
          table  |-> [FileHandles EXCEPT ![Min(FreeEntries)] = [file |-> path, tell |-> 0]],
          fb     |-> fb, open |-> TRUE]

VolumeOpenHandle(path) ==
    LET broken == BreakPath(path)
        volume == GetVolumeIndex(broken.handle).volume
    IN  CASE volume = "stdio" -> StandardIO_OpenHandle(broken.rest)
          [] volume = "proc"  -> SpecialProc_OpenHandle(broken.handle, broken.rest)
          [] volume = "dev"   -> Device_OpenHandle(broken.handle, broken.rest)
          [] volume = "fat"   -> FatVolume_OpenHandle(broken.handle, broken.rest)
          [] OTHER            -> NotOpened(-EINVAL)

-----------------------------------------------------------------------------
(* Closing.                                                                *)

\* A second close, with FrameBufferMemory null, frees the range at address 0.
FramebufferVolume_CloseHandle(f) ==
    IF f.set THEN [f EXCEPT !.set = FALSE, !.blocks = @ - 1]
             ELSE [f EXCEPT !.zeroFreed = TRUE]

Device_CloseHandle(f) == FramebufferVolume_CloseHandle(f)

FatVolume_CloseHandle(table, h) == [table EXCEPT ![FileOf(h)] = NoFile]

VolumeCloseHandle(table, f, h) ==
    LET volume == GetVolumeIndex(h).volume
    IN  [table |-> IF volume = "fat" THEN FatVolume_CloseHandle(table, h) ELSE table,
         fb    |-> IF volume = "dev" THEN Device_CloseHandle(f) ELSE f]

-----------------------------------------------------------------------------
(* Reading, writing and seeking.  A result is what is returned, the table, *)
(* and whether the kernel stops.                                           *)

Returns(value) == [ret |-> value, table |-> FileHandles, halt |-> FALSE]
Stops          == [Returns(0) EXCEPT !.halt = TRUE]

\* What is waiting on standard input is Input's matter: any part of the size.
StandardInputVolume_Read(h, size) ==
    IF size = 0 THEN {Returns(0)}
    ELSE {Returns(n) : n \in (IF h = 0 THEN 1 ELSE 0)..size}

\* The functions of streams 1 and 2 are null.
StandardIO_Read(h, size) ==
    IF h \in {0, 3} THEN StandardInputVolume_Read(h, size)
    ELSE IF h \in {1, 2} THEN {Stops} ELSE {Returns(AllOnes)}

StandardIO_Write(h, size) ==
    IF h \in {1, 2} THEN {Returns(size)}
    ELSE IF h \in {0, 3} THEN {Stops} ELSE {Returns(AllOnes)}

\* The text is "dev".  sys_read's offset is the byte before it, and an offset
\* past it is not checked: the length is whatever is found there.
SpecialProc_Read(offset, size) ==
    {Returns(Min({left, size})) : left \in
        CASE offset \in 0..3   -> {3 - offset}
          [] offset = AllOnes  -> {0, 4}
          [] OTHER             -> 0..size}

\* A positioned read that leaves the file where it stopped.
FatVolume_ReadKeepsPosition(h, offset, size) ==
    LET fil == FileHandles[FileOf(h)]
        at  == IF offset = AllOnes THEN fil ELSE f_lseek(fil, offset)
    IN  IF size = 0 THEN {Returns(0)}
        ELSE IF fil = NoFile \/ (offset # AllOnes /\ offset < 0) THEN {Stops}
        ELSE {[Returns(f_readable(at, size)) EXCEPT !.table[FileOf(h)] = f_read(at, size)]}

FatVolume_Read(h, offset, size) ==
    LET fil == FileHandles[FileOf(h)]
        at  == IF offset = AllOnes THEN fil ELSE f_lseek(fil, offset)
        end == f_read(at, size)
    IN  IF size = 0 THEN {Returns(0)}
        ELSE IF fil = NoFile \/ (offset # AllOnes /\ offset < 0) THEN {Stops}
        ELSE {[Returns(f_readable(at, size)) EXCEPT
                !.table[FileOf(h)] = IF offset = AllOnes THEN end ELSE f_lseek(end, fil.tell)]}

\* f_write refuses a file that is open for reading.
FatVolume_Write(h, size) ==
    IF size # 0 /\ FileHandles[FileOf(h)] = NoFile THEN {Stops} ELSE {Returns(0)}

FatVolume_GetSize(h) ==
    IF FileHandles[FileOf(h)] = NoFile THEN {Stops} ELSE {Returns(f_size(FileHandles[FileOf(h)]))}

FatVolume_Seek(h, offset, origin) ==
    LET fil == FileHandles[FileOf(h)]
        to(where, value) == [Returns(value) EXCEPT !.table[FileOf(h)] = f_lseek(fil, where)]
    IN  IF fil = NoFile THEN {Stops}
        ELSE CASE origin = "Set"     -> {to(offset, f_lseek(fil, offset).tell)}
               [] origin = "Current" -> {to(fil.tell + offset, fil.tell + offset)}
               [] origin = "End"     -> {to(f_size(fil) - offset, f_size(fil) - offset)}

FramebufferVolume_Command(command) ==
    Returns(IF command \in {"FBIOGET_VSCREENINFO", "FBIOGET_FSCREENINFO"} THEN 0 ELSE -EINVAL)

FramebufferVolume_Read        == {Returns(0)}
FramebufferVolume_Write(size) == {Returns(size)}
FramebufferVolume_GetSize     == {Returns(-EINVAL)}
FramebufferVolume_Seek        == {Returns(-EINVAL)}

\* /dev/ has one entry, the framebuffer, and passes every operation on to it.
Device_Read             == FramebufferVolume_Read
Device_Write(size)      == FramebufferVolume_Write(size)
Device_GetSize          == FramebufferVolume_GetSize
Device_Seek             == FramebufferVolume_Seek
Device_Command(command) == FramebufferVolume_Command(command)

VolumeRead(h, offset, size) ==
    LET volume == GetVolumeIndex(h).volume
    IN  CASE volume = "stdio" -> StandardIO_Read(h, size)
          [] volume = "proc"  -> SpecialProc_Read(offset, size)
          [] volume = "dev"   -> Device_Read
          [] volume = "fat"   -> FatVolume_Read(h, offset, size)
          [] OTHER            -> {Returns(-EINVAL)}

VolumeWrite(h, size) ==
    LET volume == GetVolumeIndex(h).volume
    IN  CASE volume = "stdio" -> StandardIO_Write(h, size)
          [] volume = "proc"  -> {Stops}
          [] volume = "dev"   -> Device_Write(size)
          [] volume = "fat"   -> FatVolume_Write(h, size)
          [] OTHER            -> {Returns(-EINVAL)}

VolumeGetSize(h) ==
    LET volume == GetVolumeIndex(h).volume
    IN  CASE volume = "proc" -> {Stops}
          [] volume = "dev"  -> Device_GetSize
          [] volume = "fat"  -> FatVolume_GetSize(h)
          [] OTHER           -> {Returns(-EINVAL)}

VolumeSeek(h, offset, origin) ==
    LET volume == GetVolumeIndex(h).volume
    IN  CASE volume = "dev" -> Device_Seek
          [] volume = "fat" -> FatVolume_Seek(h, offset, origin)
          [] OTHER          -> {Returns(-EINVAL)}

VolumeCommand(h, command) ==
    IF GetVolumeIndex(h).volume = "dev" THEN Device_Command(command)
    ELSE Returns(-EINVAL)

-----------------------------------------------------------------------------
(* The system calls.                                                       *)

\* What programs pass: the standard streams, an error taken for a handle,
\* and handles they have been given and have not closed.
Usable == 0..3 \cup {-ENOENT} \cup DOMAIN held

IsFat(h) == GetVolumeIndex(h).volume = "fat"

Init ==
    /\ \E root \in CdRomRoots : volumes = InitFS(root)
    /\ FileHandles = [i \in 0..MAX_FILE_HANDLES - 1 |-> NoFile]
    /\ fb = [set |-> FALSE, blocks |-> 0, zeroFreed |-> FALSE]
    /\ ret = 0 /\ halted = FALSE
    /\ held = <<>> /\ dropped = {}

\* A leading dot is skipped, so that "./a" is "/a".
SkipDot(path) == IF path[1] = "." THEN <<Empty>> \o Tail(path) ELSE path

\* A path the framebuffer's bound still allows.
Allowed(path) == fb.blocks < MaxBuffers \/ SkipDot(path) # <<Empty, "dev", "fb0">>

Opened(o) == /\ FileHandles' = o.table /\ fb' = o.fb
             /\ UNCHANGED <<volumes, halted>>

\* The handle is not returned: the caller gets 0.
sys_open(path) ==
    LET o == VolumeOpenHandle(SkipDot(path))
    IN  /\ Opened(o)
        /\ ret' = IF o.handle = 0 THEN -ENOENT ELSE 0
        /\ dropped' = IF o.open /\ IsFat(o.handle) THEN dropped \cup {FileOf(o.handle)} ELSE dropped
        /\ UNCHANGED held

\* The handle is unsigned, so that the test for an error is never true.
sys_openat(path) ==
    LET o == VolumeOpenHandle(SkipDot(path))
    IN  /\ Opened(o)
        /\ ret' = o.handle
        /\ held' = IF o.open
                   THEN [h \in DOMAIN held \cup {o.handle} |->
                            IF h = o.handle THEN [path |-> SkipDot(path), pos |-> 0] ELSE held[h]]
                   ELSE held
        /\ UNCHANGED dropped

sys_access(path) ==
    LET o == VolumeOpenHandle(SkipDot(path))
        c == VolumeCloseHandle(o.table, o.fb, o.handle)
    IN  /\ IF o.handle = 0 THEN Opened(o) ELSE Opened([o EXCEPT !.table = c.table, !.fb = c.fb])
        /\ ret' = IF o.handle = 0 THEN -ENOENT ELSE 0
        /\ UNCHANGED <<held, dropped>>

sys_close(h) ==
    LET c == VolumeCloseHandle(FileHandles, fb, h)
    IN  /\ FileHandles' = c.table /\ fb' = c.fb
        /\ ret' = 0
        /\ held' = [k \in DOMAIN held \ {h} |-> held[k]]
        /\ UNCHANGED <<volumes, halted, dropped>>

\* Whatever a call does to the table, with what the caller makes of its result.
Transfer(results, told(_)) ==
    \E r \in results :
        /\ FileHandles' = r.table /\ halted' = r.halt
        /\ ret' = IF r.halt THEN ret ELSE r.ret
        /\ held' = told(r)
        /\ UNCHANGED <<volumes, fb, dropped>>

SamePosition(r) == held

\* The position moves by what was read.
sys_read(h, size) ==
    LET told(r) == IF h \in DOMAIN held /\ IsFat(h) /\ ~r.halt /\ held[h].pos # Unknown
                   THEN [held EXCEPT ![h].pos = @ + r.ret] ELSE held
    IN  Transfer(VolumeRead(h, AllOnes, size), told)

sys_pread64(h, size, offset) == Transfer(VolumeRead(h, offset, size), SamePosition)

sys_write(h, size) == Transfer(VolumeWrite(h, size), SamePosition)

\* Two buffers: the second is written whatever the first write returned.
sys_writev(h, size1, size2) ==
    LET both == {IF a.halt \/ b.halt THEN Stops ELSE Returns(a.ret + b.ret) :
                    a \in VolumeWrite(h, size1), b \in VolumeWrite(h, size2)}
    IN  Transfer(both, SamePosition)

\* It takes the size of its directory argument, and never the path's.
sys_newfstatat(h) ==
    LET stat == {IF r.halt THEN r ELSE Returns(IF r.ret < 0 THEN r.ret ELSE 0) : r \in VolumeGetSize(h)}
    IN  Transfer(stat, SamePosition)

sys_ioctl(h, command) == Transfer({VolumeCommand(h, command)}, SamePosition)

\* The caller takes the position it is told, if that is within the file.
sys_lseek(h, offset, origin) ==
    LET told(r) == IF h \in DOMAIN held /\ IsFat(h) /\ ~r.halt
                   THEN [held EXCEPT ![h].pos =
                            IF r.ret \in 0..FileSize[held[h].path] THEN r.ret ELSE Unknown]
                   ELSE held
    IN  Transfer(VolumeSeek(h, offset, origin), told)

OpenCall ==
    \E path \in Paths :
        /\ ~halted /\ Allowed(path)
        /\ sys_open(path) \/ sys_openat(path) \/ sys_access(path)

HandleCall ==
    /\ ~halted
    /\ \E h \in Usable :
        \/ sys_close(h)
        \/ \E size \in Sizes : sys_read(h, size) \/ sys_write(h, size)
        \/ \E size1, size2 \in Sizes : sys_writev(h, size1, size2)
        \/ \E size \in Sizes, offset \in Offsets : offset # AllOnes /\ sys_pread64(h, size, offset)
        \/ \E offset \in Offsets, origin \in {"Set", "Current", "End"} : sys_lseek(h, offset, origin)
        \/ \E command \in {"FBIOGET_VSCREENINFO", "FBIOGET_FSCREENINFO", "other"} : sys_ioctl(h, command)
        \/ sys_newfstatat(h)

Next == OpenCall \/ HandleCall
Spec == Init /\ [][Next]_vars

-----------------------------------------------------------------------------
(* Properties.                                                             *)

(* The position of every file that is open is the one its program was last *)
(* told: what lseek returned, or 0, and the bytes read since, whatever was *)
(* read at a position of its own in between (diskio.cpp, FatVolume_Read    *)
(* and FatVolume_Seek).  After a seek past either end nothing is said.     *)
PositionsAsReported ==
    \A h \in DOMAIN held :
        IsFat(h) =>
            /\ FileHandles[FileOf(h)].file = held[h].path
            /\ held[h].pos # Unknown => FileHandles[FileOf(h)].tell = held[h].pos

(* An entry of the table of files is in use exactly when a program holds   *)
(* its handle, or sys_open took it and returned 0 in its place: no failed  *)
(* open, access or close keeps or gives up one (diskio.cpp).               *)
TableAccounted ==
    LET used == {i \in DOMAIN FileHandles : FileHandles[i] # NoFile}
        mine == {FileOf(h) : h \in {k \in DOMAIN held : IsFat(k)}}
    IN  used = mine \cup dropped /\ mine \cap dropped = {}

(* A handle that was handed out is a positive int that is not one of the   *)
(* standard streams, and it leads back to the volume mounted deepest on    *)
(* the path it was opened with (volume.cpp, BreakPath, GetVolumeIndex).    *)
HandlesLeadBack ==
    \A h \in DOMAIN held :
        LET under == {v \in UNION {Range(volumes[d]) : d \in DOMAIN volumes} :
                        /\ Len(v.root) > 1 /\ Last(v.root) = Empty
                        /\ IsStrictPrefix(Front(v.root), held[h].path)}
        IN  /\ h \in 4..2^30 + (2^30 - 1)
            /\ GetVolumeIndex(h) \in under
            /\ \A v \in under : Len(v.root) <= Len(GetVolumeIndex(h).root)
=============================================================================
