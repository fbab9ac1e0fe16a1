------------------------------ MODULE UserMode ------------------------------
(***************************************************************************)
(* Entering and leaving user mode on the boot processor: ScheduleProcess   *)
(* and SwitchToUserMode, the system call dispatcher, the interrupt stubs   *)
(* with MaybeSwapGS, and ReturnToKernel.  A step is the run of             *)
(* instructions between two points where an interrupt makes a difference.  *)
(* The keyboard is the only interrupt that is enabled once the shell runs. *)
(* Its gate is a trap gate, which leaves interrupts enabled, so that the   *)
(* next key can arrive as soon as the controller has been told of the end  *)
(* of this one, on top of a stub that has not returned yet.                *)
(***************************************************************************)
EXTENDS Integers, Sequences, TLC

CONSTANTS
    MaxInterrupts,  \* keys pressed in one behaviour (a bound)
    MaxDepth,       \* programs started by programs (a bound)
    Vectors,        \* the exceptions a program may raise
    Calls           \* the system call numbers a program may use

ASSUME BoundsAssumption == MaxInterrupts \in Nat /\ MaxDepth \in Nat \ {0} /\ Calls \subseteq Nat

VARIABLES
    pc,         \* where the interrupted-last code is
    frames,     \* the interrupt frames above it, oldest first
    rsp,        \* the stack in use: <<"kernel", d>> holds the frame of
                \* SwitchToUserMode for program d, <<"user", d>> its own stack
    cs, ss,     \* selectors
    intFlag,    \* RFLAGS.IF
    gs,         \* GS base and the base swapgs exchanges it with
    fs,         \* FS base
    userFS,     \* GUserEnvironment->FSBase
    slot,       \* what [gs:32] in the kernel's environment points to: a stack
                \* and the flags SwitchToUserMode pushed there
    sysTop,     \* whose dispatcher frame is at the top of the syscall stack
    call,       \* the function the dispatcher has called
    depth,      \* programs started and not yet left
    inService,  \* the interrupt controller waits for an end of interrupt
    count,      \* interrupts so far
    ownFS,      \* ghost: what each program has set its FS base to
    halted

machine == <<rsp, cs, ss, intFlag, gs, fs>>
vars == <<pc, frames, machine, userFS, slot, sysTop, call, depth, inService, count,
          ownFS, halted>>

KERNEL == "GKernelEnvironment"
USER == "GUserEnvironment"
NONE == "none"
KeyboardVector == 33

-----------------------------------------------------------------------------
(* The descriptor table and the selectors made from it.                    *)

GDT == <<[Privilege |-> 0, Executable |-> TRUE],     \* 1 kernel code
         [Privilege |-> 0, Executable |-> FALSE],    \* 2 kernel data
         [Privilege |-> 0, Executable |-> FALSE],    \* 3 null, base for sysret
         [Privilege |-> 3, Executable |-> FALSE],    \* 4 user data
         [Privilege |-> 3, Executable |-> TRUE]>>    \* 5 user code

KernelCode == 8 * 1
KernelData == 8 * 2
UserData == 8 * 4 + 3
UserCode == 8 * 5 + 3

\* IA32_STAR: what syscall loads, and what sysret loads relative to Star48.
STAR == [kernelCS |-> 8 * 1, userStar |-> 8 * 3]
SysretCS == STAR.userStar + 16 + 3
SysretSS == STAR.userStar + 8 + 3

Descriptor(selector) == GDT[selector \div 8]
Ring(selector) == selector % 4

-----------------------------------------------------------------------------
(* The interrupt table: gates, handlers, and what a handler does.          *)

\* Callback gates and most exceptions are trap gates, which leave RFLAGS.IF
\* as it is; these three are interrupt gates, which clear it.
Gate(v) == IF v \in {13, 32, 255} THEN "InterruptGate"
           ELSE IF v \in 0 .. 69 THEN "TrapGate" ELSE "NotPresent"

\* The exceptions whose handlers print and come back; the others stop.
Returns(v) == \/ v \in {0, 7, 10, 16, 17, 18, 19, 20, 21}
              \/ v = KeyboardVector

\* Only handlers reached through a callback end with OutPort(0x20, 0x20).
EndOfInterrupt(v) == v = KeyboardVector

-----------------------------------------------------------------------------
(* The instructions that the paths share.                                  *)

\* What a program's FS base can be, by what is found there.  ScheduleProcess
\* sets it to a block whose first word is its own address ("TLS"), or was when
\* FillUnique ran over it ("filled"), which leaves no address there.
\* A program sets it to a block of its own that is made likewise ("own"), to
\* one whose first word is some other address ("pointer"), or to where nothing
\* is mapped ("unmapped").  The program does not change the word later.
Word(base) == IF base[1] = "pointer" THEN <<"elsewhere", base[2]>> ELSE base
HoldsAddress(base) == base[1] \notin {"filled", "unmapped"}

\* LoadFS: FS is set to the word at the address that [gs:0] holds.  For the
\* kernel that is the address itself.  If there is no word, or it is no
\* address, the exception stops the machine.
LoadFS(env) ==
    IF env = KERNEL \/ (env = USER /\ HoldsAddress(userFS))
    THEN /\ fs' = IF env = KERNEL THEN KERNEL ELSE Word(userFS)
         /\ UNCHANGED halted
    ELSE halted' = TRUE /\ UNCHANGED fs

SwapGS == gs' = <<gs[2], gs[1]>>

At(point) == pc = point /\ frames = <<>> /\ ~halted

-----------------------------------------------------------------------------
(* Starting a program.                                                     *)

Init ==
    /\ pc = "shell" /\ frames = <<>>
    /\ rsp = <<"kernel", 0>> /\ cs = KernelCode /\ ss = KernelData /\ intFlag = TRUE
    /\ gs = <<KERNEL, NONE>> /\ fs = KERNEL
    /\ userFS = NONE /\ slot = [rsp |-> <<"none", 0>>, intFlag |-> FALSE]
    /\ sysTop = 0 /\ call = NONE
    /\ depth = 0 /\ inService = FALSE /\ count = 0
    /\ ownFS = [d \in 1 .. MaxDepth |-> NONE]
    /\ halted = FALSE

\* ScheduleProcess, called by the shell, or by a program through execve: set
\* the FS base the program will get and the base swapgs will exchange.
ScheduleProcess ==
    /\ At("shell") \/ (At("handler") /\ call = "sys_execve")
    /\ depth < MaxDepth
    /\ depth' = depth + 1
    /\ userFS' \in {<<"TLS", depth + 1>>, <<"filled", depth + 1>>}
    /\ ownFS' = [ownFS EXCEPT ![depth + 1] = userFS']
    /\ gs' = <<gs[1], USER>>
    /\ pc' = "call"
    /\ UNCHANGED <<frames, rsp, cs, ss, intFlag, fs, slot, sysTop, call, inService, count, halted>>

\* A mutant: the slot is written after swapgs, to the user's environment.
SaveKernelStackLate ==
    /\ At("call")
    /\ rsp' = <<"kernel", depth>>
    /\ pc' = "switch"
    /\ UNCHANGED <<frames, cs, ss, intFlag, gs, fs, userFS, slot, sysTop, call, depth,
                   inService, count, ownFS, halted>>

\* SwitchToUserMode: push registers and flags; store where they are in the
\* one slot of the kernel's environment.
SaveKernelStack ==
    /\ At("call")
    /\ rsp' = <<"kernel", depth>>
    /\ slot' = [rsp |-> rsp', intFlag |-> intFlag]
    /\ pc' = "switch"
    /\ UNCHANGED <<frames, cs, ss, intFlag, gs, fs, userFS, sysTop, call, depth,
                   inService, count, ownFS, halted>>

\* The rest of it: swapgs, LoadFS, iretq to flags with interrupts enabled.
SwitchGS ==
    /\ At("switch")
    /\ SwapGS
    /\ pc' = "switchFS"
    /\ UNCHANGED <<frames, rsp, cs, ss, intFlag, fs, userFS, slot, sysTop, call, depth,
                   inService, count, ownFS, halted>>

SwitchFS ==
    /\ At("switchFS")
    /\ LoadFS(gs[1])
    /\ pc' = "iretq"
    /\ UNCHANGED <<frames, rsp, cs, ss, intFlag, gs, userFS, slot, sysTop, call, depth,
                   inService, count, ownFS>>

EnterUserMode ==
    /\ At("iretq")
    /\ rsp' = <<"user", depth>> /\ cs' = UserCode /\ ss' = UserData
    /\ intFlag' = TRUE
    /\ pc' = "user"
    /\ UNCHANGED <<frames, gs, fs, userFS, slot, sysTop, call, depth, inService, count,
                   ownFS, halted>>

-----------------------------------------------------------------------------
(* System calls.                                                           *)

\* SyscallTable, in three parts; the rest of its entries are not implemented,
\* which like most calls prints or computes something and returns.
LowCalls ==
    0 :> "sys_read" @@ 1 :> "sys_write" @@ 2 :> "sys_open" @@ 3 :> "sys_close"
    @@ 8 :> "sys_lseek" @@ 9 :> "sys_memory_map" @@ 10 :> "sys_mprotect"
    @@ 12 :> "sys_brk" @@ 16 :> "sys_ioctl" @@ 17 :> "sys_pread64"
    @@ 20 :> "sys_writev" @@ 21 :> "sys_access" @@ 39 :> "sys_getpid"
    @@ 59 :> "sys_execve" @@ 60 :> "sys_exit" @@ 63 :> "sys_uname"
    @@ 79 :> "sys_getcwd" @@ 96 :> "sys_gettimeofday"
MiddleCalls ==
    158 :> "sys_arch_prctl" @@ 218 :> "sys_set_tid_address"
    @@ 228 :> "sys_clock_gettime" @@ 230 :> "sys_clock_nanosleep"
    @@ 231 :> "sys_exit" @@ 257 :> "sys_openat" @@ 262 :> "sys_newfstatat"
HighCalls ==
    273 :> "sys_dummy" @@ 302 :> "sys_prlimit64" @@ 318 :> "sys_getrandom"
    @@ 334 :> "sys_dummy"
SYSCALL_MAX == 400
SyscallTable ==
    LowCalls @@ MiddleCalls @@ HighCalls
    @@ [n \in 0 .. SYSCALL_MAX - 1 |-> "sys_not_implemented"]

\* The dispatcher compares the number with the size of the table.
Dispatch(n) == IF n < SYSCALL_MAX THEN SyscallTable[n] ELSE "[sys_not_implemented]"

\* A mutant: the handler runs on the program's FS base.
SyscallDispatcherNoFS ==
    /\ At("user")
    /\ intFlag' = FALSE /\ cs' = STAR.kernelCS /\ ss' = STAR.kernelCS + 8
    /\ SwapGS
    /\ rsp' = <<"syscall", depth>> /\ sysTop' = depth
    /\ \E n \in Calls : call' = Dispatch(n)
    /\ pc' = "handler"
    /\ UNCHANGED <<frames, fs, userFS, slot, depth, inService, count, ownFS, halted>>

\* syscall and the dispatcher's prologue.  IA32_FMASK clears RFLAGS.IF, so
\* nothing interrupts it.  It always starts at the top of the syscall stack.
SyscallDispatcher ==
    /\ At("user")
    /\ intFlag' = FALSE /\ cs' = STAR.kernelCS /\ ss' = STAR.kernelCS + 8
    /\ SwapGS /\ LoadFS(gs'[1])
    /\ rsp' = <<"syscall", depth>> /\ sysTop' = depth
    /\ \E n \in Calls : call' = Dispatch(n)
    /\ pc' = "handler"
    /\ UNCHANGED <<frames, userFS, slot, depth, inService, count, ownFS>>

\* For a number past the table the dispatcher puts the address of the function
\* sys_not_implemented in r12 and calls [r12], the address that its first
\* instructions spell, which is not mapped.
UnknownSyscall ==
    /\ At("handler") /\ call = "[sys_not_implemented]"
    /\ halted' = TRUE
    /\ UNCHANGED <<pc, frames, machine, userFS, slot, sysTop, call, depth, inService, count,
                   ownFS>>

\* A handler that does its work and returns.
HandlerReturns ==
    /\ At("handler") /\ call \notin {"sys_exit", "[sys_not_implemented]"}
    /\ pc' = "restore"
    /\ UNCHANGED <<frames, machine, userFS, slot, sysTop, call, depth, inService, count,
                   ownFS, halted>>

\* arch_prctl(ARCH_SET_FS): only the memory LoadFS reads changes.
SetFS ==
    /\ At("handler") /\ call = "sys_arch_prctl"
    /\ userFS' \in {"own", "pointer", "unmapped"} \X {depth}
    /\ ownFS' = [ownFS EXCEPT ![depth] = userFS']
    /\ pc' = "restore"
    /\ UNCHANGED <<frames, machine, slot, sysTop, call, depth, inService, count,
                   halted>>

\* A read of standard input with nothing there: sti, hlt.  Interrupts stay
\* enabled for the rest of the call.
ReadBlocks ==
    /\ (At("handler") /\ call = "sys_read") \/ At("woken")
    /\ intFlag' = TRUE
    /\ pc' = "halt"
    /\ UNCHANGED <<frames, rsp, cs, ss, gs, fs, userFS, slot, sysTop, call, depth,
                   inService, count, ownFS, halted>>

ReadReturns ==
    /\ At("woken")
    /\ pc' = "restore"
    /\ UNCHANGED <<frames, machine, userFS, slot, sysTop, call, depth, inService, count,
                   ownFS, halted>>

\* The way back, interruptible from popfq on: popfq, pop rsp, swapgs,
\* LoadFS, sysret.  The stack pointer popped is the one at the top of the
\* syscall stack, whoever stored it there.
Popfq ==
    /\ At("restore")
    /\ intFlag' = TRUE
    /\ pc' = "popRsp"
    /\ UNCHANGED <<frames, rsp, cs, ss, gs, fs, userFS, slot, sysTop, call, depth,
                   inService, count, ownFS, halted>>

PopRsp ==
    /\ At("popRsp")
    /\ rsp' = <<"user", sysTop>>
    /\ pc' = "userGS"
    /\ UNCHANGED <<frames, cs, ss, intFlag, gs, fs, userFS, slot, sysTop, call, depth,
                   inService, count, ownFS, halted>>

UserGS ==
    /\ At("userGS")
    /\ SwapGS
    /\ pc' = "userFS"
    /\ UNCHANGED <<frames, rsp, cs, ss, intFlag, fs, userFS, slot, sysTop, call, depth,
                   inService, count, ownFS, halted>>

UserFSLoad ==
    /\ At("userFS")
    /\ LoadFS(gs[1])
    /\ pc' = "sysret"
    /\ UNCHANGED <<frames, rsp, cs, ss, intFlag, gs, userFS, slot, sysTop, call, depth,
                   inService, count, ownFS>>

Sysret ==
    /\ At("sysret")
    /\ cs' = SysretCS /\ ss' = SysretSS
    /\ pc' = "user"
    /\ UNCHANGED <<frames, rsp, intFlag, gs, fs, userFS, slot, sysTop, call, depth,
                   inService, count, ownFS, halted>>

\* sys_exit: ReturnToKernel takes the stack pointer from the slot and pops
\* flags and registers, which returns from SwitchToUserMode.
ReturnToKernel ==
    /\ At("handler") /\ call = "sys_exit"
    /\ rsp' = slot.rsp /\ intFlag' = slot.intFlag
    /\ pc' = "returned"
    /\ UNCHANGED <<frames, cs, ss, gs, fs, userFS, slot, sysTop, call, depth, inService,
                   count, ownFS, halted>>

\* The end of ScheduleProcess, and the return to the shell.  A program that
\* was started by another returns into frames of sys_execve, at the top of the
\* syscall stack, which its own system calls have written over: the kernel is
\* lost, and the model ends.
Rescheduled ==
    /\ At("returned")
    /\ IF depth = 1
       THEN /\ cs' = KernelCode /\ ss' = KernelData
            /\ gs' = <<KERNEL, gs[2]>> /\ fs' = KERNEL
            /\ rsp' = <<"kernel", rsp[2] - 1>>
            /\ depth' = 0 /\ pc' = "shell" /\ UNCHANGED <<intFlag, halted>>
       ELSE halted' = TRUE /\ UNCHANGED <<pc, machine, depth>>
    /\ UNCHANGED <<frames, userFS, slot, sysTop, call, inService, count, ownFS>>

-----------------------------------------------------------------------------
(* Interrupts and exceptions.                                              *)

Push(v) ==
    /\ frames' = Append(frames, [v |-> v, cs |-> cs, ss |-> ss, rsp |-> rsp,
                                 intFlag |-> intFlag, step |-> "entry"])
    /\ rsp' = IF Ring(cs) = 3 THEN <<"Rsp0", 0>> ELSE rsp
    /\ cs' = KernelCode /\ ss' = KernelData
    /\ intFlag' = (intFlag /\ Gate(v) = "TrapGate")
    /\ UNCHANGED <<pc, gs, fs, userFS, slot, sysTop, call, depth, ownFS, halted>>

\* A key: interrupts are enabled and the controller has no other in service.
Interrupt ==
    /\ ~halted /\ intFlag /\ ~inService
    /\ count < MaxInterrupts
    /\ count' = count + 1 /\ inService' = TRUE
    /\ Push(KeyboardVector)

Exception ==
    /\ At("user")
    /\ \E v \in Vectors : Push(v)
    /\ UNCHANGED <<inService, count>>

Top == frames[Len(frames)]
InStub(step) == frames # <<>> /\ Top.step = step /\ ~halted
Step(next) == frames' = [frames EXCEPT ![Len(frames)].step = next]

\* A mutant: only the entry looks at the interrupted code segment.
MaybeSwapGSAlwaysBack ==
    /\ \/ /\ InStub("entry")
          /\ Step(IF Ring(Top.cs) = 3 THEN "entryFS" ELSE "body")
          /\ IF Ring(Top.cs) = 3 THEN SwapGS ELSE UNCHANGED gs
       \/ /\ InStub("done")
          /\ Step("doneFS")
          /\ SwapGS
    /\ UNCHANGED <<pc, rsp, cs, ss, intFlag, fs, userFS, slot, sysTop, call, depth,
                   inService, count, ownFS, halted>>

\* MaybeSwapGS looks at the interrupted code segment, before the handler and
\* again after it.
MaybeSwapGS ==
    /\ \/ /\ InStub("entry")
          /\ Step(IF Ring(Top.cs) = 3 THEN "entryFS" ELSE "body")
       \/ /\ InStub("done")
          /\ Step(IF Ring(Top.cs) = 3 THEN "doneFS" ELSE "iret")
    /\ IF Ring(Top.cs) = 3 THEN SwapGS ELSE UNCHANGED gs
    /\ UNCHANGED <<pc, rsp, cs, ss, intFlag, fs, userFS, slot, sysTop, call, depth,
                   inService, count, ownFS, halted>>

StubLoadFS ==
    /\ \/ InStub("entryFS") /\ Step("body")
       \/ InStub("doneFS") /\ Step("iret")
    /\ LoadFS(gs[1])
    /\ UNCHANGED <<pc, rsp, cs, ss, intFlag, gs, userFS, slot, sysTop, call, depth,
                   inService, count, ownFS>>

\* ISR_Int_...: an exception that stops the machine, one that prints and
\* returns, or the callback of a device and the end of interrupt.
Handler ==
    /\ InStub("body")
    /\ halted' = ~Returns(Top.v)
    /\ inService' = (inService /\ ~EndOfInterrupt(Top.v))
    /\ Step("done")
    /\ UNCHANGED <<pc, machine, userFS, slot, sysTop, call, depth, count, ownFS>>

\* iretq.  An interrupt ends the hlt it found the processor in.
IRet ==
    /\ InStub("iret")
    /\ rsp' = Top.rsp /\ cs' = Top.cs /\ ss' = Top.ss /\ intFlag' = Top.intFlag
    /\ frames' = SubSeq(frames, 1, Len(frames) - 1)
    /\ pc' = IF Len(frames) = 1 /\ pc = "halt" THEN "woken" ELSE pc
    /\ UNCHANGED <<gs, fs, userFS, slot, sysTop, call, depth, inService, count, ownFS, halted>>

-----------------------------------------------------------------------------
Next ==
    \/ ScheduleProcess \/ SaveKernelStack \/ SwitchGS \/ SwitchFS \/ EnterUserMode
    \/ SyscallDispatcher \/ UnknownSyscall \/ HandlerReturns \/ SetFS \/ ReadBlocks \/ ReadReturns
    \/ Popfq \/ PopRsp \/ UserGS \/ UserFSLoad \/ Sysret
    \/ ReturnToKernel \/ Rescheduled
    \/ Interrupt \/ Exception \/ MaybeSwapGS \/ StubLoadFS \/ Handler \/ IRet

Spec == Init /\ [][Next]_vars

-----------------------------------------------------------------------------
\* A program runs on its own stack, with its own GS, at ring 3 with interrupts
\* enabled, however many keys interrupted it or the kernel on its way to and
\* from it, even between swapgs and sysret; and its FS base is the word at the
\* address that was last set for it: that address itself, if the block there is
\* made as thread blocks are.  With no address there it does not run at all.
UserSeesOwnContext ==
    At("user") =>
        /\ gs = <<USER, KERNEL>>
        /\ HoldsAddress(ownFS[depth]) /\ fs = Word(ownFS[depth])
        /\ rsp = <<"user", depth>> /\ intFlag
        /\ Ring(cs) = 3 /\ Descriptor(cs).Privilege = 3 /\ Descriptor(cs).Executable
        /\ Ring(ss) = 3 /\ Descriptor(ss).Privilege = 3

KernelContext == gs[1] = KERNEL /\ fs = KERNEL

\* The code that has the user's GS or FS while it runs in ring 0: the ends of
\* SwitchToUserMode and of the dispatcher, and the ends of a stub that
\* interrupted a program.
Exposed ==
    \/ pc \in {"switchFS", "iretq", "userFS", "sysret"}
    \/ \E i \in 1 .. Len(frames) - 1 :
          /\ Ring(frames[i].cs) = 3
          /\ frames[i].step \in {"entry", "entryFS", "doneFS", "iret"}

\* System calls run in the kernel's environment on the syscall stack, and so
\* does every interrupt handler in the kernel's environment, unless it
\* interrupted one of the places above; and no program ever runs on a stack
\* the kernel uses.
KernelSeesKernelContext ==
    /\ At("handler") \/ At("woken") => KernelContext /\ rsp = <<"syscall", depth>>
    /\ InStub("body") /\ ~Exposed => KernelContext
    /\ InStub("body") => rsp[1] # "user" \/ pc \in {"userGS", "userFS", "sysret"}

\* When a program exits the shell continues on its own stack frame, in its
\* own environment, with interrupts enabled.
ShellGetsBack ==
    At("shell") =>
        KernelContext /\ rsp = <<"kernel", 0>> /\ intFlag /\ cs = KernelCode
=============================================================================
