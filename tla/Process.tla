------------------------------ MODULE Process -------------------------------
(***************************************************************************)
(* Programs as the shell and execve run them: CreateProcess with the ELF   *)
(* loader, the thread-local storage and the initial stack; brk and mmap    *)
(* while the program runs; exit and DestroyProcess.  Nothing else runs in  *)
(* the kernel meanwhile, so that each of these is one step.                *)
(*                                                                         *)
(* A region is one VirtualAlloc, named by a number.  An ElfBinary is a     *)
(* numbered block of the heap, whose number is used again once it is freed *)
(* while the table of binaries keeps pointing to it.                       *)
(***************************************************************************)
EXTENDS Integers, Sequences, FiniteSets, FiniteSetsExt, SequencesExt

CONSTANTS
    Programs,       \* name -> [interp, tdata, tbss, align] of the files there are
    Names,          \* the names programs are asked for by
    Arguments,      \* the argument vectors: [args, env], sequences of lengths
    Regions,        \* VirtualAlloc's regions (a bound)
    Heap,           \* blocks of the heap for an ElfBinary (a bound)
    TableSize,      \* entries allocated for GELFBinaries: 16 in the code
    MaxMaps,        \* mmap calls in one behaviour (a bound)
    PAGE_SIZE, BreakSize

NO_INTERP == "none"
FREE == "free"
GARBAGE == "garbage"
NULL == 0

ASSUME ShapesAssumption ==
    /\ \A n \in DOMAIN Programs :
          /\ Programs[n].tdata \in Nat /\ Programs[n].tbss \in Nat
          /\ Programs[n].align \in Nat
    /\ {GARBAGE, NO_INTERP} \cap DOMAIN Programs = {}
    /\ Regions \subseteq Nat \ {NULL} /\ IsFiniteSet(Regions)
    /\ Heap \subseteq Nat \ {NULL} /\ IsFiniteSet(Heap)
    /\ TableSize \in Nat /\ PAGE_SIZE \in Nat \ {0} /\ BreakSize \in Nat

VARIABLES
    kernel,     \* [memory, elf, table, handles], see below
    procs,      \* the processes created and not destroyed, outermost first
    current,    \* GCurrentProcess: an index of procs, or NULL
    mode,       \* "shell", "user", or why the kernel cannot go on
    kept, failed, maps  \* ghosts: what has been left allocated, and why
processVars == <<kernel, procs, current, mode, kept, failed, maps>>

\* kernel.memory: region -> FREE or what it was allocated for;
\* kernel.elf: block -> ElfBinary, with interp for the open handle of its
\* interpreter; kernel.table: GELFBinaries;
\* kernel.handles: file handles that are open.

-----------------------------------------------------------------------------
(* Memory.                                                                 *)

FirstFree(memory) == Min({r \in Regions : memory[r] = FREE})

VirtualAlloc(k, use) ==
    LET r == FirstFree(k.memory)
    IN  [k |-> [k EXCEPT !.memory[r] = use], r |-> r]

VirtualFree(k, r) == [k EXCEPT !.memory[r] = FREE]

AlignSize(size, align) ==
    IF align = 0 THEN 0 ELSE ((size + align - 1) \div align) * align

-----------------------------------------------------------------------------
(* Thread-local storage: <tdata> <tbss> and, from FSBase, the TLSData.     *)

WordSize == 8

\* The words of a TLSData, from FSBase upwards.
TLSData == <<"Self", "Reserved0", "Reserved1", "Reserved2", "Reserved3", "StackCanary">>

\* The initial data is copied from the address that the file has for it, which
\* is not where the image was loaded.
CreateTLS(p) ==
    LET tdata == AlignSize(p.tdata, p.align)
        aligned == AlignSize(p.tbss, p.align)
        tbss == IF aligned = 0 /\ tdata = 0 THEN PAGE_SIZE ELSE aligned
        high == AlignSize(tdata + tbss, PAGE_SIZE)
    IN  [tdata |-> <<high - (tdata + tbss), high - tbss>>,
         copied |-> IF tdata = 0 THEN "nothing" ELSE "p_vaddr",
         tbss |-> <<high - tbss, high>>,
         FSBase |-> high, header |-> TLSData,
         size |-> high + PAGE_SIZE]

\* FillUnique, called with FSBase: whole words over the TLSData.
FillUnique(tls, bytes) ==
    [tls EXCEPT !.header =
        [i \in DOMAIN TLSData |-> IF i <= bytes \div WordSize THEN "Unique" ELSE TLSData[i]]]

\* What a program that is run from this file finds at its FS base.
StartThread(name) ==
    FillUnique(CreateTLS(Programs[name]), Programs[name].tdata + Programs[name].tbss)

-----------------------------------------------------------------------------
(* The ELF loader.                                                         *)

Blank == [name |-> GARBAGE, interp |-> NO_INTERP, image |-> NULL, refs |-> 0,
          live |-> FALSE, clean |-> FALSE]

\* RefCount is unsigned: 0 wraps to a count that will not be 0 again.
Wrapped == 2^30
Decrement(n) == IF n = 0 THEN Wrapped ELSE n - 1

\* A mutant: a freed entry of the table can still be found by its name.
UnloadElfKeepsName(k, o) ==
    LET refs == Decrement(k.elf[o].refs)
    IN  IF refs # 0 THEN [k EXCEPT !.elf[o].refs = refs]
        ELSE VirtualFree([k EXCEPT !.elf[o].refs = 0], k.elf[o].image)

\* UnloadElf: rpfree threads its list of free blocks through the first bytes
\* of the block, which hold the name; the table keeps the pointer.
UnloadElf(k, o) ==
    LET refs == Decrement(k.elf[o].refs)
    IN  IF refs # 0 THEN [k EXCEPT !.elf[o].refs = refs]
        ELSE VirtualFree([k EXCEPT !.elf[o] = [@ EXCEPT !.refs = 0, !.live = FALSE,
                                                        !.name = GARBAGE]],
                         k.elf[o].image)

Loaded(k, name) == {i \in DOMAIN k.table : k.elf[k.table[i]].name = name}

\* A new object, with a name and nothing else yet.
NewBinary(k, o, name) ==
    [k EXCEPT !.elf[o] = [Blank EXCEPT !.name = name, !.live = TRUE, !.clean = TRUE]]

\* Its interpreter's handle and its image, its reference and its entry.
LinkBinary(k, o, interp, image) ==
    [k EXCEPT !.elf[o] = [@ EXCEPT !.interp = interp, !.image = image, !.refs = 1],
              !.table = Append(@, o),
              !.handles = IF interp = NO_INTERP THEN @ ELSE @ + 1]

\* LoadElfFromMemory: an entry of that name, as it is; or a new object, image
\* and entry.  A missing interpreter unloads the object before it has a
\* reference or an address, which frees nothing.
LoadElfFromMemory(k, name) ==
    IF Loaded(k, name) # {}
    THEN [k |-> k, o |-> k.table[Min(Loaded(k, name))]]
    ELSE LET o == Min({b \in Heap : ~k.elf[b].live})
             a == VirtualAlloc(k, "image")
             interp == Programs[name].interp
             named == NewBinary(a.k, o, name)
         IN  IF interp = NO_INTERP \/ interp \in DOMAIN Programs
             THEN [k |-> LinkBinary(named, o, interp, a.r), o |-> o]
             ELSE [k |-> UnloadElf(named, o), o |-> NULL]

\* LoadElfFromHandle reads the file to a buffer of its own first.
LoadElfFromHandle(k, name) ==
    LET buffer == VirtualAlloc(k, "buffer")
        binary == LoadElfFromMemory(buffer.k, name)
    IN  [k |-> VirtualFree(binary.k, buffer.r), o |-> binary.o]

\* LoadElf opens the file, and closes it again.
LoadElf(k, name) ==
    IF name \notin DOMAIN Programs THEN [k |-> k, o |-> NULL]
    ELSE LoadElfFromHandle(k, name)

-----------------------------------------------------------------------------
(* The initial stack, in bytes below its top.                              *)

AT_NULL == 0
AT_PHDR == 3
AT_PHENT == 4
AT_PHNUM == 5
AT_PAGESZ == 6
AT_BASE == 7
AT_ENTRY == 9
AT_RANDOM == 25
Value == 100    \* the second word of any pair

\* WriteProcessAuxVectors, from the highest address down.
AuxEntries(sub) ==
    <<AT_NULL, AT_PAGESZ, AT_RANDOM, AT_ENTRY, AT_BASE>>
    \o (IF sub THEN <<>> ELSE <<AT_PAGESZ>>)
    \o <<AT_PHNUM, AT_PHENT, AT_PHDR>>

\* A mutant: the room left for the vector does not know of the one entry more
\* that a program without an interpreter has.
AuxSizeShort(sub) == 16 * Len(AuxEntries(TRUE))

\* The dry run.
AuxSize(sub) == 16 * Len(AuxEntries(sub))

Sum(s) == FoldSeq(LAMBDA x, acc : x + acc, 0, s)
Room(strings) == Sum(strings) + Len(strings)

\* Where each string starts: environment first, then the arguments.
StringsAt(a) ==
    LET all == a.env \o a.args
    IN  [i \in DOMAIN all |-> -8 - Room(SubSeq(all, 1, i))]

StackLayout(a, sub) ==
    LET block == AlignSize(Room(a.env) + Room(a.args), 16)
        auxTop == -8 - block
        auxLow == auxTop - AuxSize(sub)
        envp == auxLow - 8 * (Len(a.env) + 1)
        argv == auxLow - 8 * (Len(a.env) + Len(a.args) + 2)
        s == StringsAt(a)
        entries == AuxEntries(sub)
    IN  [rsp |-> argv - 8,
         words |-> {<<-8, 0>>, <<argv - 8, Len(a.args)>>}
             \cup {<<argv + 8 * (i - 1), s[Len(a.env) + i]>> : i \in DOMAIN a.args}
             \cup {<<argv + 8 * Len(a.args), 0>>, <<envp + 8 * Len(a.env), 0>>}
             \cup {<<envp + 8 * (i - 1), s[i]>> : i \in DOMAIN a.env}
             \cup {<<auxTop - 16 * i, entries[i]>> : i \in DOMAIN entries}
             \cup {<<auxTop - 16 * i + 8, Value>> : i \in DOMAIN entries}]

-----------------------------------------------------------------------------
(* Processes.                                                              *)

\* CreateProcess up to ScheduleProcess.  When the program cannot be loaded
\* the stack stays allocated and nothing points to it.
CreateProcess(k, name, a) ==
    LET stack == VirtualAlloc(k, "stack")
        first == LoadElf(stack.k, name)
        interp == first.k.elf[first.o].interp
        dynamic == interp # NO_INTERP
        second == IF dynamic THEN LoadElfFromHandle(first.k, interp) ELSE first
        tls == VirtualAlloc(second.k, "tls")
    IN  IF first.o = NULL THEN [k |-> first.k, p |-> <<>>]
        ELSE [k |-> tls.k,
              p |-> <<[name |-> name, stack |-> stack.r, tls |-> tls.r,
                       Binary |-> second.o,
                       SubBinary |-> IF dynamic THEN first.o ELSE NULL,
                       thread |-> StartThread(IF dynamic THEN interp ELSE name),
                       arguments |-> a, ProgramBreak |-> 0,
                       clean |-> second.k.elf[second.o].clean,
                       mine |-> {}]>>]

\* A mutant: the record goes, the thread-local storage stays.
DestroyProcessNoTLS(k, p) == UnloadElf(VirtualFree(k, p.stack), p.Binary)

\* A mutant: the binary stays loaded.
DestroyProcessKeepsBinary(k, p) == VirtualFree(VirtualFree(k, p.stack), p.tls)

\* DestroyProcess: the stack, the thread-local storage and one binary.
DestroyProcess(k, p) ==
    UnloadElf(VirtualFree(VirtualFree(k, p.stack), p.tls), p.Binary)

ProcessInit ==
    /\ kernel = [memory |-> [r \in Regions |-> FREE],
                 elf |-> [b \in Heap \cup {NULL} |-> Blank],
                 table |-> <<>>, handles |-> 0]
    /\ procs = <<>> /\ current = NULL /\ mode = "shell"
    /\ kept = {} /\ failed = [load |-> 0, interp |-> 0] /\ maps = 0

\* The program runs in its images, and may change them.
Used(k, p) ==
    [k EXCEPT !.elf = [b \in DOMAIN k.elf |->
        IF b \in {p.Binary, p.SubBinary} THEN [k.elf[b] EXCEPT !.clean = FALSE]
        ELSE k.elf[b]]]

\* How a program starts that was created.  An entry past the end of the table
\* of binaries ends the model.  So does a program whose interpreter is missing,
\* asked for again when an old entry of the table points to what is left of it:
\* it starts at address 0.  The copy of the initial thread-local data faults
\* where nothing is mapped at that address; and LoadFS takes the word at FSBase
\* for an address, which the words of FillUnique are not.
Outcomes(k, p) ==
    IF Len(k.table) > TableSize THEN {"overrun"}
    ELSE IF k.elf[p.Binary].image = NULL \/ p.thread.header[1] # "Self" THEN {"faulted"}
    ELSE {"user"} \cup (IF p.thread.copied = "nothing" THEN {} ELSE {"faulted"})

\* RunProgram, from the shell or from sys_execve, as far as the program's
\* first instruction or a failure, which is not reported to the caller.
RunProgram(name, a) ==
    LET made == CreateProcess(kernel, name, a)
    IN  /\ Cardinality({r \in Regions : kernel.memory[r] = FREE}) >= 5
        /\ Cardinality({b \in Heap : ~kernel.elf[b].live}) >= 2
        /\ procs' = procs \o made.p
        /\ IF made.p = <<>>
           THEN /\ kernel' = made.k
                /\ failed' = IF name \in DOMAIN Programs
                             THEN [failed EXCEPT !.interp = @ + 1]
                             ELSE [failed EXCEPT !.load = @ + 1]
                /\ UNCHANGED <<current, mode, kept>>
           ELSE /\ kernel' = Used(made.k, made.p[1])
                /\ current' = Len(procs) + 1
                /\ mode' \in Outcomes(made.k, made.p[1])
                /\ kept' = IF made.p[1].SubBinary = NULL THEN kept
                           ELSE kept \cup {name}
                /\ UNCHANGED failed
        /\ UNCHANGED maps

Shell ==
    /\ mode = "shell"
    /\ \E name \in Names, a \in Arguments : RunProgram(name, a)

sys_execve ==
    /\ mode = "user" /\ Len(procs) = 1
    /\ \E name \in Names, a \in Arguments : RunProgram(name, a)

Running == procs[current]

\* sys_exit: back in ScheduleProcess, then RunProgram.  A program that was
\* started by another exits to a stack that its own system calls have
\* written over (UserMode.tla), and the kernel is lost.
sys_exit ==
    /\ mode = "user"
    /\ current' = NULL
    /\ IF Len(procs) = 1
       THEN /\ kernel' = DestroyProcess(kernel, Running)
            /\ procs' = <<>> /\ mode' = "shell"
       ELSE /\ mode' = "lost" /\ UNCHANGED <<kernel, procs>>
    /\ UNCHANGED <<kept, failed, maps>>

\* sys_brk, with the break relative to ProgramBreakLow.
sys_brk ==
    /\ mode = "user"
    /\ \E newBreak \in {0, BreakSize, BreakSize + 1} :
          /\ procs' = IF newBreak \in 1 .. BreakSize
                      THEN [procs EXCEPT ![current].ProgramBreak = newBreak]
                      ELSE procs
          /\ mode' = IF newBreak > BreakSize THEN "asserted" ELSE mode
    /\ UNCHANGED <<kernel, current, kept, failed, maps>>

\* sys_memory_map: at an address only what is mapped already is given new
\* frames, the old ones staying in use; then, for the framebuffer or a
\* descriptor that is no file, no memory is allocated.
sys_memory_map ==
    /\ mode = "user" /\ maps < MaxMaps
    /\ \E address \in {NULL} \cup Running.mine,
          fd \in {"anonymous", "file", "framebuffer", "stdin"} :
          /\ maps' = maps + 1
          /\ IF fd \in {"anonymous", "file"} /\ address = NULL
             THEN LET a == VirtualAlloc(kernel, "mmap")
                  IN  /\ \E r \in Regions : kernel.memory[r] = FREE
                      /\ kernel' = a.k
                      /\ procs' = [procs EXCEPT ![current].mine = @ \cup {a.r}]
             ELSE UNCHANGED <<kernel, procs>>
    /\ UNCHANGED <<current, mode, kept, failed>>

ProcessNext == Shell \/ sys_execve \/ sys_exit \/ sys_brk \/ sys_memory_map

ProcessSpec == ProcessInit /\ [][ProcessNext]_processVars

-----------------------------------------------------------------------------
Elf(o) == kernel.elf[o]

\* The memory of a running program is its own: its stack, thread-local
\* storage, images and mappings are allocated, each as what it is, no two of
\* them are one region, and GCurrentProcess is that program.  The loader finds
\* a freed entry of its table by name only if freeing leaves the name there.
RunningMemoryLive ==
    LET p == procs[Len(procs)]
    IN  mode = "user" =>
            /\ current = Len(procs)
            /\ kernel.memory[p.stack] = "stack" /\ kernel.memory[p.tls] = "tls"
            /\ \A o \in {p.Binary, p.SubBinary} \ {NULL} :
                  Elf(o).live /\ kernel.memory[Elf(o).image] = "image"
            /\ \A r \in p.mine : kernel.memory[r] = "mmap"
            /\ p.SubBinary # NULL => Elf(p.Binary).image # Elf(p.SubBinary).image

InUse(use) == {r \in Regions : kernel.memory[r] = use}

\* What is left when the shell has the machine: for each interpreted program
\* that has ever run its image and the open handle of its interpreter, for
\* each program not found a stack, for each interpreter not found a stack and
\* an image, and what programs mapped.  Nothing else, however many programs
\* have run.
ShellFootprint ==
    mode = "shell" =>
        /\ Cardinality(InUse("image")) = Cardinality(kept) + failed.interp
        /\ Cardinality(InUse("stack")) = failed.load + failed.interp
        /\ InUse("tls") = {} /\ InUse("buffer") = {}
        /\ kernel.handles = Cardinality(kept)

\* Every interpreter, and every program that needs none, starts in an image
\* no program has run in, unless the program that started it runs in it too.
StartsClean ==
    mode = "user" => \A i \in DOMAIN procs :
        procs[i].clean \/ \E j \in 1 .. i - 1 : procs[j].Binary = procs[i].Binary

\* The words at an address of the start block: one, if no two were written
\* to one place.
WordsAt(layout, address) == {w[2] : w \in {v \in layout.words : v[1] = address}}

\* argc, the arguments, a null, the environment, a null, and a vector of pairs
\* up to AT_NULL, read upwards from the stack pointer as start-up code does;
\* below the strings they point to.
StackReadable(a, s) ==
    LET argv == s.rsp + 8
        envp == argv + 8 * (Len(a.args) + 1)
        auxv == envp + 8 * (Len(a.env) + 1)
        strings == StringsAt(a)
        tags == ToSet(AuxEntries(FALSE)) \ {AT_NULL}
    IN  /\ WordsAt(s, s.rsp) = {Len(a.args)}
        /\ \A n \in DOMAIN a.args :
              WordsAt(s, argv + 8 * (n - 1)) = {strings[Len(a.env) + n]}
        /\ \A n \in DOMAIN a.env : WordsAt(s, envp + 8 * (n - 1)) = {strings[n]}
        /\ WordsAt(s, envp - 8) = {0} /\ WordsAt(s, auxv - 8) = {0}
        /\ \E n \in 3 .. 9 :
              /\ WordsAt(s, auxv + 16 * n) = {AT_NULL}
              /\ \A m \in 0 .. n - 1 : \E tag \in tags : WordsAt(s, auxv + 16 * m) = {tag}
        /\ \A n \in DOMAIN strings, w \in s.words :
              w[1] < -8 => w[1] + 8 <= strings[n]

\* The block that FSBase points to begins with its own address and has its
\* canary, thread-local variables end below it, and both are inside the
\* allocation.  What the initial data holds is not said.
ThreadReadable(t) ==
    /\ t.header = TLSData
    /\ 0 <= t.tdata[1] /\ t.tdata[2] = t.tbss[1] /\ t.tbss[2] = t.FSBase
    /\ t.FSBase + WordSize * Len(t.header) <= t.size

\* A program that has just been started finds its arguments, environment and auxiliary
\* vector where its start-up code looks for them, and a whole thread block at its
\* FS base.  Programs with a word or more of thread-local variables are not
\* among them: they do not start.
ProgramFindsItsStart ==
    mode = "user" /\ Last(procs).ProgramBreak = 0 =>
        LET p == Last(procs)
        IN  /\ StackReadable(p.arguments, StackLayout(p.arguments, p.SubBinary # NULL))
            /\ ThreadReadable(p.thread)
=============================================================================
