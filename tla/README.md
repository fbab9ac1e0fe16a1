# A verification development of Enkel

Enkel is a small operating system kernel for x86-64 machines that boot by UEFI
(C++ and some assembly). This directory holds TLA+ modules that model its core,
the configurations that check them with TLC, and proofs that TLAPS checks.
Paths below are relative to `src/` of the repository; `PROJECT.json` maps each
definition to the lines it models.

## The system

One processor runs the kernel and at most one chain of user programs; the other
processors are started and then halt. There is no scheduler and there are no
kernel threads. What runs concurrently is therefore: the mainline with the
keyboard interrupt; the boot processor with those it starts; the driver with the
disc controller and the drive; and functions that are re-entered from within
themselves. A failed assertion stops the kernel.

| part | state | operations | talks to | correct if |
|---|---|---|---|---|
| page state trees `src/kernel/memory/state.*` | two interval trees (frames, virtual pages), pools of nodes | `TagRange`, `FindMinimumSizeFreeBlock`, `GetPageState` | used by allocation; takes nodes from the heap | implements a map from pages to states; caches exact; no node lost |
| allocation `memory/virtual.cpp`, `physical.cpp` | none of its own | `VirtualAlloc/Free/Protect`, `PhysicalAlloc/Free` | trees, page tables | what a caller holds is mapped, its own, and comes back whole |
| page tables `memory/pml4.cpp` | four levels of tables, a free list, a spare block | `MapPages`, `GetPhysicalAddress`, `BuildPML4` | re-enters allocation to refill its list | tables have one role; translations are what was asked for |
| heap glue `init/malloc.cpp` | rpmalloc's spans | map, unmap | allocation | returns what it took |
| standard input `fs/volumes/stdio.cpp`, `ring_buffer.h` | ring buffer without a lock | push, pop, clear, blocking read | keyboard interrupt; shell; `read` system call | a queue; readers wake |
| keyboard `devices/keyboard.*` | modifier state, prefix | interrupt handler | ring buffer, console | modifiers follow keys; text is what was meant |
| shell `kernel.cpp` | line buffer | read a line, run a program | input, processes | a line is what was typed |
| processor start-up `init/apic.cpp`, `ap.asmb` | trampoline page, `APSignal`, `CoreIndex`, one stack | start each processor, wait | memory, HPET, local APIC | all come online, none disturbs another |
| user mode `user_mode/*.asm`, `init/interrupts.cpp`, `gdt.cpp` | one saved stack pointer, GS, FS, flags | enter, system call, interrupt, return | processes, keyboard interrupt | each side sees its own context |
| processes, ELF, TLS `process/`, `user_mode/elf.cpp`, `tls.cpp` | current process, table of binaries, images | create, execute, exit, `brk`, `mmap` | allocation, volumes | nothing in use is freed, nothing is kept, a program finds its arguments |
| volumes `fs/volume.cpp`, `fs/volumes/`, `fs/fat/` | mount table, open files, positions | mount, open, read, seek, close | system calls, SATA, input | a handle reaches the file it was opened for |
| SATA, CD-ROM `devices/ahci/` | registers of controller and ports, one buffer | reset, set up, issue, poll | volumes; the controller and the drive | no address of the firmware is used, data are the ones asked for, waits end |
| ACPI layer, time, console, fonts, panic, strings, boot loader | | | | not modelled, see below |

The hard behaviours: re-entrancy (page tables and trees both allocate from
what they implement), the unlocked buffer against the interrupt, `hlt` after a
look at it, processors that share a stack, interrupts between `swapgs` and
`sysretq`, one slot and one stack for nested programs, hardware that acts
between two register accesses, caches in tree nodes, and states that only a long
sequence of calls reaches. `hazards` in `PROJECT.json` lists each at its line
with the properties that cover it, or why none does.

## Modules

Memory:

* `PageMap` – what a range of pages is: states, the effect of a tag, and the
  answers a search may give. No state of its own.
* `PageState` – abstract specification of one tree: a map tagged range by range.
* `MemoryState` – the tree itself, with the recursion of `TagRangeInternal`,
  merging, the cached sums and the counts of nodes taken. Nodes are values, so
  aliasing of nodes is outside it. Implements `PageState` by reading the tree
  out as a map; `FindsFirstFit` compares its search with `PageMap`'s.
* `Mapping` – allocation over two `PageMap`s, a function of page-table entries,
  and the regions callers hold. The kernel has no list of regions: the variable
  stands for the pointers that stacks, images, TLS blocks and spans keep. One
  action per entry point: `VirtualAlloc`, `PhysicalAlloc`, `VirtualFree` (and its twin `PhysicalFree`),
  `VirtualProtect`, `mmap` at an address (`MemoryMap`), which maps new frames over
  pages that a program holds, and the heap's `RPMallocMap` and `RPMallocUnmap` as
  rpmalloc calls them: padded blocks, given back span by span (`UnmapSubspans`)
  and released at last (`ReleaseSpans`). Three histories record what the code
  forgets: `orphaned` frames, `abandoned` pages, and `astray`, that a call has
  gone to frames which are not its pages'. `MCMapping` gives it a machine with a
  kernel image, a device and six free frames.
* `PageTables` – inside `MapPages`: the loop page by page with a stack of calls,
  the free list of tables and its refill, which runs another `MapPages`; two
  levels stand for four. `GetPhysicalAddress` follows table pointers as virtual
  addresses, `HardwareWalk` as frames. Memory may have a hole below its first free
  frame, above which the two part.
* `BootMap` – `BuildPML4` over every array of descriptors. Its result is
  required to be the initial state of `Mapping`, which closes the chain from the
  firmware's map to the allocation theorems.

Input:

* `InputQueue` – abstract specification: a bounded queue from which a reader
  copies and then removes, and which the shell may empty.
* `Input` – the ring buffer with the reader's steps split at each access to
  `Head`, `Tail` and `IsFull`, the interrupt between any two, `sti`/`hlt`, the
  shell's line loop and a program that reads or exits. Implements `InputQueue`.
* `Keyboard` – scan codes to columns of the layout, one interrupt per byte.

Processors and programs:

* `ApStartup` – `InitAPs` against the processors it starts, each with the steps
  of `APEntryFunction`; `MCApStartup` gives a list with the boot processor
  inside it.
* `UserMode` – `ScheduleProcess`, `SwitchToUserMode`, the dispatcher, the stubs
  with `MaybeSwapGS`, and `ReturnToKernel`, as registers, selectors and stacks. A
  step is the run of instructions between two points where an interrupt matters;
  the keyboard's trap gate leaves interrupts enabled, so that frames nest.
  FS is loaded as the code does it, with the word that is found at the base
  (`Word`), if one is there (`HoldsAddress`). The ghost `ownFS` records what a
  program's base was last set to. The model ends when an exit returns to a program
  instead of the shell: the frame it returns to is below the one that system calls
  of the inner program have used.
* `Process` – creation, nested execution and exit over numbered regions and heap
  blocks: the table of binaries that keeps pointers to freed blocks, images that
  are kept, the interpreter's handle, the start block on the stack word by word,
  and thread-local storage: where its data lie and are copied from, and the words
  of its header before and after `FillUnique`. `MCProcess` has a static program, a
  dynamic one with its interpreter, one whose interpreter is missing, and one with
  a word of thread-local data.
* `Files` – the mount table, `BreakPath`, the bits of a handle, the operations of
  each kind of volume, and the system calls on top of them; a file is a path
  and a position. Names are strings, of which the empty one is what `BreakPath`
  finds before a slash; a handle is a number, and `Bits` takes it apart as the code
  does. `MCFiles` gives the paths, one of them a file of the disc called `/proc`.
* `Ahci` – the driver as a program counter over its register accesses; firmware,
  controller, link and drive are actors of their own. A port is one record, and
  each access is an operator on it. The data are sectors, so that a buffer
  says where its contents come from.

Theorems are in modules of their own: `MappingProofs`, `BootMapProofs`,
`PageTablesProofs`, `InputProofs`, `ApStartupProofs`, `UserModeProofs`, `FilesProofs`
and `AhciProofs`, each of which extends what it is about; `InputProofs` holds the
proofs about `Input` and `Keyboard`, `UserModeProofs` those about `UserMode` and
`Process`, whose names are kept apart for that.

## Runs

Sizes are small but each makes the interesting cases happen.

| run | shows | bounds |
|---|---|---|
| `memory_state` | every sequence of non-empty tags: no assertion fires, caches exact, nodes accounted for, first-fit answers, `PageState` implemented | 5 pages: trees up to four splits deep, every overlap of a range with two neighbours |
| `mapping` | types, no assertion, mapped is never free, frames not shared, regions intact, memory lost in two named ways only, reserved stays reserved, up to the first call that goes astray | 8 frames and pages, of which 6 are free: what a heap block of two spans (2 pages each, 16 in the code) takes with its padding, at an odd and an even start; sizes 1 and 4; 2 regions |
| `heap_release` | finding: of a heap block that is released, a span's worth of pages or more stays mapped for ever | as `mapping` |
| `page_tables` | with first-fit, above a hole, tables are never shared, callers keep their memory, no stray translation; the first page of an allocation is found, by the processor too where its table is in place | 4 entries per table, a hole of two frames, 9 tables, blocks of 4: at least one refill inside another call; memory runs out at the end, so deadlock is not checked |
| `boot_map` | ends for every order of up to 3 descriptors and leaves `Mapping!Init` | 5 frames, 6 pages; ends, so deadlock is not checked |
| `input` | the ring implements the queue; a reader is not left asleep for good | 3 slots, so it is full, empty and wrapped in every order; line of 4; reads of up to 3; `Burst` 1 |
| `keyboard` | modifiers follow keys, text is what was meant | 6 keys, 4 bytes in flight |
| `ap_startup` | sentinel, trampoline, indices, all cores online | 6 processors |
| `user_mode` | with keys at every instruction that matters, programs and kernel see their own context and the shell gets back | 3 keys: one on top of another on top of a third; 2 programs; two exceptions; a blocking call, `execve`, `exit`, `arch_prctl` to a block that holds its own address, another one, or none, and a number without a handler |
| `process` | what runs is not freed, the shell's footprint is what it kept, programs start in clean images, and find arguments and the header of thread-local storage | 9 regions, 5 heap blocks, table of 4 (16 in the code): a block is used again while an entry points to it, and a program starts itself; 1 `mmap` |
| `files` | positions are the ones reported, the table is accounted for, handles lead back to their volume | 2 entries (512 in the code), so the table fills; eleven paths on every volume; transfers of 0 to 2; one framebuffer; some calls stop the kernel, so deadlock is not checked |
| `ahci` | only the driver's addresses are used, a read delivers what was asked for or nothing, boot and commands end | 2 ports (32 in the code) with anything on them, 2 sectors of the volume to one of the disc (4), 3 sectors, 2 reads: the second finds what the first left in the buffer; while a command is in progress it may fail at any time and the link may be lost |

`Burst` bounds the keyboard's interrupts during one operation of the reader (a
few instructions to a few hundred; a keyboard sends a byte in about a
millisecond). With 1 the buffer is a queue. With 2 it is not: if the interrupt
fills the buffer after `PopElements` has moved `Tail` and before it clears
`IsFull`, a full buffer counts as empty, and `ImplementsInputQueue` fails.
`MaxWire`, `MaxRead`, `MaxAlloc`, `MaxEntries`, `MaxLength`, `MaxCount`,
`MaxReads`, `MaxInterrupts`, `MaxDepth`, `MaxMaps` and `MaxBuffers` bound what is
in flight, asked for, listed or repeated. In `Input` the shell's line buffer can
be overrun (`kernel.cpp:165`); the model stops there, so its run does not check
deadlock. `user_mode`, `process` and `ahci` stop at a bound or when the kernel halts.

`heap_release` is expected to violate its property; `findings` in `PROJECT.json`
quotes the line it contradicts.

## Assumptions about the environment

* The kernel maps memory from its mainline only, so a call in `Mapping` is one
  step; the search for virtual pages succeeds (2^36 of them).
* Callers give back the whole of what they were given, the heap spans of a block
  and then its rest (which is how rpmalloc calls `memory_unmap`), and protect
  ranges inside it; a program gives `mmap` addresses of its own memory only;
  `PhysicalAlloc` is called for memory that was reserved at boot.
* The firmware's descriptors are disjoint and not empty, and the framebuffer is
  in a hole or in reserved memory below the end of the last descriptor.
* Addresses are in pages; caching, writable and executable bits are left out.
* A processor accepts one of two startup IPIs, and every listed one exists.
* The right control key is not on the keyboard of the run. Its state is looked up
  as `Standard[ControlRight]`, past the array's end (`keyboard.h:118`); with
  `ControlRight` among `KeysUsed`, `PrintsWhatWasMeant` fails. The byte found
  there is taken to be zero; a non-zero one would stop all printing.
* A program does not change the word at its FS base once it has set the base.
* Programs use handles they have been given, and a system call is not entered
  from within another but by a nested program.
* FatFs, opened for reading, clips a position to the end of the file and reads
  what there is.
* A drive that completes a command without an error has transferred all of it;
  an error either takes the command off the list or stops the port; no link
  error is pending when the controller is reset; the drive raises neither of the
  status bits `SDBS` and `DMPS` that the loops also look at.

## Fairness

`Input`: the mainline runs, and a key that is down comes up again, which raises
an interrupt. Nothing else wakes a reader that sleeps: `InitApic` masks the
legacy controller with the timer (`apic.cpp:396`) and `InitKeyboard` unmasks the
keyboard alone. Nobody has to type; a program need not read or exit. A key whose
press *and* release fall between the look at the buffer and the `hlt` would
leave the reader asleep until the next key; `Burst` excludes it.
`BootMap`: its single thread runs. `ApStartup`: started processors run, and so
does the boot processor. `Ahci`: the driver polls on; the firmware releases the
controller it is asked for; a reset ends; the running bits follow the start bits,
which the AHCI specification bounds by half a second; a drive that works on a
command goes on, if only to fail. Nobody has to read, no link has to fail, and no
drive has to send its signature. Everything else is safety only.

## Proofs

`MappingProofs` proves, for any number of frames and pages and any boot layout,
that `Spec` implies always `TypeOK`, `NoAssertionFires`, `MappedIsNotFree`,
`NoSharedFrames`, `RegionsIntact` and `NothingElseLeaks`, and that every step
satisfies `ReservedFramesStay`. The assumptions are `SizesAssumption`,
`SizesAskedAssumption`, `SpanAssumption` and `BootAssumption` of `Mapping`.

None of the invariants is inductive alone. `VirtualFree` frees the frames that
follow the first page's; that these are the ones its pages map is part of
`RegionsIntact`, and that nobody else maps them is `NoSharedFrames`; that a
fresh allocation takes nobody's frames is `MappedIsNotFree`. `RPMallocUnmap`
goes back from the pages it is given to the start of the block; that this is still
mapped rests on `GoneInSpans`, by which nothing in front of the spans has been
given back. The inductive invariant is their conjunction with the types.
`mmap` at an address breaks the first of these: the region's frames are no longer
consecutive, and `RegionsIntact` says only that each page has the frame it was
given or a new one whose predecessor is orphaned. A later free or change of
protection across such a page goes to other frames than its pages', and so does
an `mmap` that finds no frames. `astray` records that call; what is said of
frames is said up to it, and what is said of pages, of the privilege of regions
and of who holds what is said in the state after it as well, where the model
ends. One lemma says what `MapPages`
does to every page when its arguments are sound, one per action that they are;
each action then preserves the conjuncts one by one. `NothingElseLeaks` is
kept by each action in a state of that invariant: a used frame loses its page only
when that page is given back, and then the frame is one of those freed, or when
`mmap` maps the page anew, and then it is orphaned; a used page loses its holder
only when it is freed or `ReleaseSpans` leaves it behind.
`ReservedFramesStay` needs the types alone.

`ApStartupProofs` proves, for any list of processors in which no id occurs
twice, `TypeOK`, `NoAssertionFires`, `TrampolineIntact` and `IndicesDistinct` of
`ApStartup` from `ProcessorAssumption`. The invariant passes a baton: at most one
processor is between its INIT and its signal, it is the one `InitAPs` is
starting, the signal is true exactly when that one has halted, and a processor
whose turn has not come is off. From it follow the values of the stack slot and
that `CoreIndex` is the number of indices taken.

`BootMapProofs` proves, for memory of any size and any array of descriptors, that
`BuildPML4` ends in the initial state of `Mapping` (`EstablishesMapping`), that the
frames it found satisfy `BootAssumption`, and that it never asserts. With
`MappingProofs` this covers the way from the firmware's map to the last allocation.
`BootMapAssumption` asks for at least as many virtual pages as frames. The
invariant says that at each step the maps and tables are those of a machine whose
reserved, used and missing frames are the ones passed so far (`Built`), and that
the walk over the holes stands between two descriptors (`Boundary`): what it
reserves is then a hole, and the last descriptor is above it as long as it has not
reached the end. That the walk reaches the end is liveness and stays with TLC.

`PageTablesProofs` proves, for tables, blocks and memories of any size, the four
invariants of `PageTables`. Three observations carry it. Both searches are first
fit and nothing is given back, so memory is given out from the bottom up
(`Contiguous`). Tables are therefore used in the order of their pages: what is
linked lies below the free list, and the free list below the block that comes
after it (`PoolOrdered`, `DirOrdered`), from which one role per table follows. And a
refill leaves enough tables for the calls it makes itself (`PoolSuffices`), so that
no refill runs inside another. The last needs a block to be large enough for the
tables of its successor and three more, `BlockAssumption`: 4096 against 11 in the
code. `CallersKeepTheirMemory` was the delicate one: after a refill the directory
entry is not looked at again, and the store goes over what the refill's own calls
may have linked there. `Pending` says why no caller loses by it: the entry was
empty when the refill began, so all that callers hold under it is still to be
mapped by the call that waits; what is lost is the mapping of the refill's own
pages. `FirstPageIsReached` holds wherever free memory begins: the code's walk finds
the frame of the page that `VirtualAlloc` writes to, and the processor's walk, which
takes the pointers for frames, is the code's if the table on the way lies in the
frame of its own number. Without a hole below the first free frame that is every
table; above one it is the static tables only, so that what the kernel writes
through a table of a block goes elsewhere on the processor.

`InputProofs` proves that `Input` implements `InputQueue` for a buffer of any size
and reads of any length: the initial states map to the queue's, and each step to a
step of the queue or a stutter, one lemma per action. The hypothesis is
`OneInterrupt`, at most one interrupt of the keyboard during an operation; with
two the refinement is false, as said above. The invariant says where `isFull`
may be stale, that what the reader found is still there when it takes it, and how
much room is left for interrupts before the flag is reset (`ResetInTime`).

It also proves both invariants of `Keyboard`, for any set of keys and any number
of bytes on the wire. `ModifiersFollowKeys` speaks of an empty wire only, and
`PrintsWhatWasMeant` of the byte at its front; neither says anything of the bytes
behind. The invariant does: there is a sequence of key states, one more than there
are bytes, that begins with the kernel's and ends with one that shows the keys held
down; handling each byte leads from one to the next, and prints what the byte
meant. A key puts a byte and a state at the end, an interrupt takes the first of
each. `PrintsMeant` is about keyboards whose right control key is not used
(`NoRightControl`), as in the run.

`UserModeProofs` proves the three invariants of `UserMode` for any number of
keys, programs, exceptions and calls. An interrupt saves neither GS nor FS: what
they hold is a function of the place that the code at the bottom of the stack of
frames has reached and of how far the first stub on top of it has come
(`Segments`); the stubs above that one never change them. What an `iretq` restores
is what the interrupt found (`Frames`). What FS holds is the word at the base, not
the base: `FSLoaded` says that whenever the user's FS is loaded there was an
address to load, since otherwise the exception in ring 0 has stopped the machine.

It also proves `RunningMemoryLive`, `ShellFootprint` and `StartsClean` of `Process`,
for any programs, arguments, amount of memory and number of programs run, from
`ShapesAssumption` and the hypothesis `InterpretersStandAlone`: what a program
names as its interpreter names none itself. `CreateProcess` loads one level only;
a chain of two would start the inner interpreter without its own and keep its
image and handle, which `kept` does not count. The three have one inductive invariant,
`ProcessInv`. Its first part is about the kernel alone (`Sound`): a block of the
heap holds a binary that is complete, counted once, found in the table and alone
with its name and its image; or the remains of one whose interpreter was missing,
whose count has wrapped; or nothing that has a program's name, which is why the
table may keep pointing to it. Its second part accounts for what is left behind
(`Tally`, `Remembers`): every complete binary is an interpreted program that has
run or the one the running program runs in. So a program that needs no
interpreter, and every interpreter, is loaded afresh unless the caller runs in
it, which is `StartsClean`, and what exit gives back is what creation had
taken, which is `ShellFootprint`. Each operation is first reduced to what it can come
to (`LoadIs`, `CreateBegins`, `CreateFails`, `RunIs`, `DestroyTally`), and the
actions then have a short proof each.

`FilesProofs` proves the three invariants of `Files` for any files, paths, sizes
and offsets and a table of any size a handle has bits for. Its invariant says what
`InitFS` mounts and in which slots, so that the bits of a handle lead to one volume;
which kinds of handle there are; and that each held handle of the disc has an entry
of its own. The first attempt failed for a reason: `HandlesLeadBack` took the root
of a handle's volume to be a prefix of the path and could not exclude a file
`/proc` of the disc, whose path is not under `/proc/` but equals its beginning. The
property now speaks of strict prefixes, and the run has such a file.

`AhciProofs` proves, for any number of ports with anything attached to them and
from `AhciAssumption`, that `BasesAreDrivers` always holds. It is not inductive:
a port that receives nothing now could be about to, and a write of the driver
could start it. The invariant adds that reception is not even asked for
without the driver's address (`InUseHasBases`), that at every place from which
the driver starts a port or issues a command it has written the addresses of
that port (`Owned`), and that the reset leaves all ports quiet until the
controller is enabled (`Quiet`, `Phase`). Each register access is an operator,
and either starts nothing (`Tame`) or is made on a port with its addresses; one
lemma for each of the two kinds covers all steps. The stray write of `ST` in
`CdromPort::Initialize` (`cdrom.cpp:244`) is of the first kind, which is why it
does no harm. A second invariant gives
`ReadsDeliverWhatWasAsked`: what was asked of the drive is a function of the read in
progress (`Asked`), the buffer holds as much of it as the transfer has filled
(`Filled`), and an answer without an error means that all of it is there
(`Answered`); what earlier commands left in the buffer is never part of it.

Only model-checked: the trees of `MemoryState` and their refinement of `PageState`
(recursive operators); `ProgramFindsItsStart` (its strings are placed by sums over
sequences, which are folds and need induction over data); and liveness, which
the prover does not handle.

## What the models leave out, and what they showed on the way

These are places where the code is narrower than it looks. No run is about them
unless one is named; each is at its line so that it can be looked at.

Memory and start-up: a tag of an empty range asserts (`state.cpp:156`). The
refill of the page tables inside a call leaves its next block unmapped, and
tables are linked by an address that is taken for physical, which first-fit over
memory without holes makes equal (`pml4.cpp:255`). With a hole the processor does
not find the tables of the first block, and everything mapped through them is lost
to it; `PageTables` goes on there, with the states the code would reach if it were
not. `AcpiOsUnmapMemory` rounds one
page too far (`acpi_os_interface.cpp:821`). A boot processor whose id is not 0
is compared unshifted and would reset itself (`apic.cpp:351`). `mmap` at an address
leaves the old frames allocated, and takes frame 0 when none are found
(`syscalls.cpp:292`): `orphaned` and `astray` of `Mapping`. The check before it that
the comment calls one for available pages (`syscalls.cpp:283`) asks for mapped
ones. A heap block that is released keeps a span of its pages and what its padding
moved (`heap_release`). A heap that finds no memory, and a mapping of no pages, stop
the kernel (`malloc.cpp`, `pml4.cpp`); neither is in `Mapping`.

User mode and programs: call numbers of 400 and above are not in the table but
below its limit (`dispatcher.asm:42`). The table of binaries has 16 entries and no
check. A failed load leaves its stack allocated; a program with an interpreter
runs again in the image it left, and its handle stays open; a program whose entry
was freed and used again unloads another's image. `ShellFootprint` and
`StartsClean` state exactly what is kept and who is exempt. The alignment of the
stack pointer at entry depends on the number of arguments. An exit from a nested
program returns to the frame of the one that started it, over which the inner
program's system calls have been pushed; both `UserMode` and `Process` end there,
and the null `GCurrentProcess` that the outer one's next `brk` would follow
(`process.cpp:45`) is outside them. A program with eight bytes of thread-local data
or more does not start: `FillUnique` (`process.cpp:116`) is given the address above
the data and overwrites the header's self pointer, and `LoadFS` then loads a value
that is no address. Initial data are copied from the address the file names, without
the offset the image was loaded with (`elf.cpp:373`, `tls.cpp:102`), so that where
anything is mapped there a program with less finds other bytes than its own.

Files: `sys_open` returns 0 and keeps its entry, and `openat` of a missing file
returns 0, which is standard input. `access` takes the volume's error for a
handle. `SEEK_END` subtracts its offset; `SEEK_CUR` past the end reports what it
did not do. `pread64` at -1 reads at the current position, at another negative
offset asserts. Reading from streams 1 and 2, writing to 0, 3 or `/proc/` calls a null
function. Text of `/proc/` is read from the byte before it. A second
close of the framebuffer frees the range at address 0, a second open keeps the
first. A handle has three bits for the volume of a depth, and a path with eight
slashes leaves the table (`volume.cpp:40`, `:64`).

SATA: the size of the command lists is computed from the bit mask of ports
(`sata.cpp:132`). A link error that is pending at the reset of a port is waited for
but only cleared after the wait (`sata.cpp:196`, `:216`), which then does not end;
the link of the model is lost only with a command in progress, and no reset follows
one, so that `WaitsEnd` says nothing of it. A drive counts as active by the bit that
says it is there, not by its power state (`ahci.h:23`). A port that stopped with an error is not
restarted, so the next command on it hangs; `WaitsEnd` is stated for the others.
`CdromVolume_Read` asks for one sector more than it needs, which fails at the end of the
disc, and `disk_read` reports success whatever was read. `ReadToc` and
`UnmountVolume` have no callers, and `ReadSectorsSATA` cannot be reached from the CD-ROM.

## Not modelled

* ACPI OS layer: it forwards to the allocators and the configuration ports; its
  locks, semaphores and threads are stubs without state in this port.
* Time: the waits of the timer and the calibration are about a clock that no
  module has.
* Node pool: the trees' refill from the heap, which allocates through the trees,
  needs tree, heap and `Mapping` in one module; the tree is already the largest.
* Console, fonts, textures, panic, strings: drawing and formatting, with no state
  that a property tells apart.
* Boot loader: runs once under the firmware; its result is the input of `BootMap`.
* Sample programs and vendored code.

## Plan

Done: memory with its boot and page tables; input; processor start-up; user mode,
processes, files and the disc; and the proofs of all safety invariants of these
but the ones listed as only model-checked.

Left, each for the reason given above: the start of a program by induction over its
strings, the trees as recursive functions that a proof could speak of, and the
node pool together with the heap that refills it.
