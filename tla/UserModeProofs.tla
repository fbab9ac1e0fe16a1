--------------------------- MODULE UserModeProofs ---------------------------
(***************************************************************************)
(* Entering and leaving user mode with any number of keys, programs,       *)
(* exceptions and system calls.  GS and FS are not saved by an interrupt:  *)
(* what they hold is a function of the place the code at the bottom is at  *)
(* and of how far the first stub on top of it has come (GSIsKernels,       *)
(* FSIsKernels); stubs on top of a stub never change them.  What an iretq  *)
(* restores is what the interrupt found (Frames).                          *)
(*                                                                         *)
(* Below it, the programs that run there, for any programs, arguments and  *)
(* sizes: a kernel is reasoned about by its parts (Kern), each operation   *)
(* is shown to keep heap, table and memory in agreement (Sound), loading   *)
(* is reduced to what it can come to (Loads, Gets, Ruins), and what is     *)
(* allocated is counted against what has run and failed (Tally,            *)
(* Remembers).  ProcessInv is the invariant.                               *)
(***************************************************************************)
EXTENDS UserMode, Process, FiniteSetTheorems, SequenceTheorems, WellFoundedInduction, TLAPS

Places == {"shell", "call", "switch", "switchFS", "iretq", "user", "handler", "halt", "woken",
           "restore", "popRsp", "userGS", "userFS", "sysret", "returned"}
Steps  == {"entry", "entryFS", "body", "done", "doneFS", "iret"}
Stacks == {"none", "kernel", "user", "syscall", "Rsp0"} \X Int
Saved  == {"none", "kernel"} \X Int
Bases  == {<<KERNEL, NONE>>, <<KERNEL, USER>>, <<USER, KERNEL>>}
Frame == [v : Vectors \cup {KeyboardVector}, cs : {KernelCode, UserCode},
          ss : {KernelData, UserData}, rsp : Stacks, intFlag : BOOLEAN, step : Steps]

TypeOK ==
    /\ pc \in Places /\ frames \in Seq(Frame)
    /\ rsp \in Stacks /\ cs \in {KernelCode, UserCode} /\ ss \in {KernelData, UserData}
    /\ intFlag \in BOOLEAN
    /\ gs \in Bases
    /\ slot.rsp \in Saved /\ slot.intFlag \in BOOLEAN
    /\ sysTop \in Int /\ depth \in 0 .. MaxDepth
    /\ DOMAIN ownFS = 1 .. MaxDepth
    /\ halted \in BOOLEAN

\* The context of the code at the bottom: the registers, or what the first
\* interrupt saved of them.
Bottom == IF frames = <<>> THEN [cs |-> cs, ss |-> ss, rsp |-> rsp, intFlag |-> intFlag]
          ELSE [cs |-> frames[1].cs, ss |-> frames[1].ss, rsp |-> frames[1].rsp,
                intFlag |-> frames[1].intFlag]

InSyscall == {"handler", "halt", "woken", "restore", "popRsp"}
Leaving   == {"popRsp", "userGS", "userFS", "sysret", "user"}

\* Selectors, stack and interrupt flag of the code at the bottom, by its place.
BottomByPlace ==
    /\ pc = "shell" <=> depth = 0
    /\ Bottom.cs = (IF pc = "user" THEN UserCode ELSE KernelCode)
    /\ Bottom.ss = (IF pc = "user" THEN UserData ELSE KernelData)
    /\ pc \in InSyscall => Bottom.rsp = <<"syscall", depth>>
    /\ Bottom.rsp[1] = "user" <=> pc \in {"userGS", "userFS", "sysret", "user"}
    /\ pc \in Leaving => Bottom.intFlag

\* One program inside the other, each with its own frame in the slot, on its
\* own stack.
Nested ==
    /\ pc = "shell" => Bottom.rsp = <<"kernel", 0>> /\ Bottom.intFlag
    /\ pc = "call" /\ depth = 1 => Bottom.intFlag
    /\ pc \in {"userGS", "userFS", "sysret", "user"} => Bottom.rsp = <<"user", depth>>
    /\ pc = "returned" => Bottom.rsp = <<"kernel", depth>> /\ (depth = 1 => Bottom.intFlag)
    /\ pc \in InSyscall => sysTop = depth
    /\ pc \notin {"shell", "call"} => slot.rsp = <<"kernel", depth>>
    /\ pc \notin {"shell", "call"} /\ depth = 1 => slot.intFlag
    /\ depth > 0 => userFS = ownFS[depth]

\* The stack a stub runs on.
StubRsp == IF pc = "user" THEN <<"Rsp0", 0>> ELSE Bottom.rsp

\* Stubs run in the kernel's segments, and those on top of others have found
\* them there; only the first can have interrupted a program.
Frames ==
    /\ frames # <<>> => cs = KernelCode /\ ss = KernelData /\ rsp = StubRsp
    /\ \A i \in 2 .. Len(frames) :
          frames[i].cs = KernelCode /\ frames[i].ss = KernelData /\ frames[i].rsp = StubRsp
    /\ \A i \in 1 .. Len(frames) :
          i > 1 \/ pc # "user" => frames[i].step \notin {"entryFS", "doneFS"}

\* The first stub has interrupted a program and is at one of these steps.
FirstStubAt(steps) == pc = "user" /\ frames # <<>> /\ frames[1].step \in steps

GSIsKernels == \/ pc \notin {"switchFS", "iretq", "userFS", "sysret", "user"}
               \/ FirstStubAt({"entryFS", "body", "done"})
FSIsKernels == \/ pc \notin {"iretq", "sysret", "user"}
               \/ FirstStubAt({"body", "done", "doneFS"})

\* FS holds what the last LoadFS was to load.
FSLoaded == IF FSIsKernels THEN fs = KERNEL
            ELSE HoldsAddress(userFS) /\ fs = Word(userFS)

Segments ==
    /\ gs = <<KERNEL, NONE>> => pc = "shell"
    /\ gs[1] = (IF GSIsKernels THEN KERNEL ELSE USER)
    /\ ~halted => FSLoaded

Inv == TypeOK /\ BottomByPlace /\ Nested /\ Frames /\ Segments

-----------------------------------------------------------------------------
(* The selectors are numbers, two of each.                                 *)

LEMMA Selectors ==
  /\ KernelCode = 8 /\ KernelData = 16 /\ UserCode = 43 /\ UserData = 35
  /\ SysretCS = UserCode /\ SysretSS = UserData
  /\ STAR.kernelCS = KernelCode /\ STAR.kernelCS + 8 = KernelData
  /\ Ring(KernelCode) = 0 /\ Ring(UserCode) = 3 /\ Ring(UserData) = 3
  /\ Descriptor(UserCode).Privilege = 3 /\ Descriptor(UserCode).Executable
  /\ Descriptor(UserData).Privilege = 3
  BY DEF KernelCode, KernelData, UserCode, UserData, SysretCS, SysretSS, STAR, Ring, Descriptor, GDT

\* The environments have different names.
LEMMA Environments == KERNEL # USER /\ KERNEL # NONE /\ USER # NONE
  BY DEF KERNEL, USER, NONE

\* The shell has started no program yet.
LEMMA InitInv == Init => Inv
  <1> SUFFICES ASSUME Init PROVE Inv
    OBVIOUS
  <1>1. TypeOK
    <2>1. gs \in Bases
      BY DEF Init, Bases
    <2>2. slot.rsp \in Saved /\ slot.intFlag \in BOOLEAN /\ rsp \in Stacks
      BY DEF Init, Stacks, Saved
    <2>3. /\ pc \in Places /\ frames \in Seq(Frame) /\ intFlag \in BOOLEAN
          /\ cs \in {KernelCode, UserCode} /\ ss \in {KernelData, UserData}
      BY DEF Init, Places
    <2>4. sysTop \in Int /\ depth \in 0 .. MaxDepth
      BY BoundsAssumption DEF Init
    <2>5. DOMAIN ownFS = 1 .. MaxDepth
      BY DEF Init
    <2>6. halted \in BOOLEAN
      BY DEF Init
    <2> QED
      BY <2>1, <2>2, <2>3, <2>4, <2>5, <2>6 DEF TypeOK
  <1>2. BottomByPlace /\ Nested /\ Frames
    BY Selectors DEF Init, BottomByPlace, Bottom, Nested, Frames, InSyscall, Leaving
  <1>3. Segments
    BY Environments DEF Init, Segments, FSLoaded, FSIsKernels, GSIsKernels
  <1> QED
    BY <1>1, <1>2, <1>3 DEF Inv

-----------------------------------------------------------------------------
(* Steps of the code at the bottom: no interrupt is in progress.           *)

\* A program is started.
LEMMA StartSteps ==
  ASSUME Inv, ScheduleProcess \/ SaveKernelStack \/ SwitchGS \/ SwitchFS \/ EnterUserMode
  PROVE  Inv'
  <1> USE Selectors, Environments, BoundsAssumption
      DEF At, SwapGS, LoadFS, machine, Inv, TypeOK, BottomByPlace, Bottom, Nested, Frames, StubRsp,
          Segments, FSLoaded, FSIsKernels, GSIsKernels, FirstStubAt, Places, Stacks, Saved, Bases, InSyscall, Leaving
  <1>1. CASE ScheduleProcess
    BY <1>1 DEF ScheduleProcess
  <1>2. CASE SaveKernelStack
    BY <1>2 DEF SaveKernelStack
  <1>3. CASE SwitchGS
    BY <1>3 DEF SwitchGS
  <1>4. CASE SwitchFS
    <2>1. gs[1] = USER /\ gs' = gs /\ halted' \in BOOLEAN
      BY <1>4 DEF SwitchFS
    <2>2. \/ HoldsAddress(userFS) /\ fs' = Word(userFS)
          \/ halted'
      BY <1>4, <2>1 DEF SwitchFS
    <2>3. TypeOK'
      BY <1>4, <2>1 DEF SwitchFS
    <2>4. BottomByPlace' /\ Nested' /\ Frames'
      BY <1>4, <2>1 DEF SwitchFS
    <2>5. Segments'
      BY <1>4, <2>1, <2>2 DEF SwitchFS
    <2> QED
      BY <2>3, <2>4, <2>5
  <1>5. CASE EnterUserMode
    BY <1>5 DEF EnterUserMode
  <1> QED
    BY <1>1, <1>2, <1>3, <1>4, <1>5

\* A program calls the kernel, which returns to it.
LEMMA SyscallSteps ==
  ASSUME Inv,
         \/ SyscallDispatcher \/ UnknownSyscall \/ HandlerReturns \/ SetFS \/ ReadBlocks
         \/ ReadReturns \/ Popfq \/ PopRsp \/ UserGS \/ UserFSLoad \/ Sysret
  PROVE  Inv'
  <1> USE Selectors, Environments, BoundsAssumption
      DEF At, SwapGS, LoadFS, machine, Inv, TypeOK, BottomByPlace, Bottom, Nested, Frames, StubRsp,
          Segments, FSLoaded, FSIsKernels, GSIsKernels, FirstStubAt, Places, Stacks, Saved, Bases, InSyscall, Leaving
  <1>1. CASE SyscallDispatcher
    <2>1. gs = <<USER, KERNEL>> /\ gs' = <<KERNEL, USER>> /\ fs' = KERNEL
      BY <1>1 DEF SyscallDispatcher
    <2>2. TypeOK'
      <3>1. gs' \in Bases
        BY <2>1
      <3>2. slot'.rsp \in Saved /\ slot'.intFlag \in BOOLEAN /\ rsp' \in Stacks
        BY <1>1 DEF SyscallDispatcher
      <3>3. /\ pc' \in Places /\ frames' \in Seq(Frame) /\ intFlag' \in BOOLEAN
            /\ cs' \in {KernelCode, UserCode} /\ ss' \in {KernelData, UserData}
        BY <1>1 DEF SyscallDispatcher
      <3>4. /\ sysTop' \in Int /\ depth' \in 0 .. MaxDepth /\ DOMAIN ownFS' = 1 .. MaxDepth
            /\ halted' \in BOOLEAN
        BY <1>1 DEF SyscallDispatcher
      <3> HIDE DEF Places, Stacks, Saved, Bases
      <3> QED
        BY <3>1, <3>2, <3>3, <3>4 DEF TypeOK
    <2>3. BottomByPlace' /\ Nested' /\ Frames'
      BY <1>1, <2>1, <2>2 DEF SyscallDispatcher
    <2>4. Segments'
      BY <1>1, <2>1 DEF SyscallDispatcher
    <2> QED
      BY <2>2, <2>3, <2>4
  <1>2. CASE UnknownSyscall
    BY <1>2 DEF UnknownSyscall
  <1>3. CASE HandlerReturns
    BY <1>3 DEF HandlerReturns
  <1>4. CASE SetFS
    BY <1>4 DEF SetFS
  <1>5. CASE ReadBlocks
    BY <1>5 DEF ReadBlocks
  <1>6. CASE ReadReturns
    BY <1>6 DEF ReadReturns
  <1>7. CASE Popfq
    BY <1>7 DEF Popfq
  <1>8. CASE PopRsp
    BY <1>8 DEF PopRsp
  <1>9. CASE UserGS
    BY <1>9 DEF UserGS
  <1>10. CASE UserFSLoad
    <2>1. gs[1] = USER /\ gs' = gs /\ halted' \in BOOLEAN
      BY <1>10 DEF UserFSLoad
    <2>2. \/ HoldsAddress(userFS) /\ fs' = Word(userFS)
          \/ halted'
      BY <1>10, <2>1 DEF UserFSLoad
    <2>3. TypeOK'
      BY <1>10, <2>1 DEF UserFSLoad
    <2>4. BottomByPlace' /\ Nested' /\ Frames'
      BY <1>10, <2>1 DEF UserFSLoad
    <2>5. Segments'
      BY <1>10, <2>1, <2>2 DEF UserFSLoad
    <2> QED
      BY <2>3, <2>4, <2>5
  <1>11. CASE Sysret
    BY <1>11 DEF Sysret
  <1> QED
    BY <1>1, <1>2, <1>3, <1>4, <1>5, <1>6, <1>7, <1>8, <1>9, <1>10, <1>11

\* A program exits.
LEMMA ExitSteps ==
  ASSUME Inv, ReturnToKernel \/ Rescheduled
  PROVE  Inv'
  <1> USE Selectors, Environments, BoundsAssumption
      DEF At, SwapGS, LoadFS, machine, Inv, TypeOK, BottomByPlace, Bottom, Nested, Frames, StubRsp,
          Segments, FSLoaded, FSIsKernels, GSIsKernels, FirstStubAt, Places, Stacks, Saved, Bases, InSyscall, Leaving
  <1>1. CASE ReturnToKernel
    BY <1>1 DEF ReturnToKernel
  <1>2. CASE Rescheduled
    <2>1. gs' = <<KERNEL, USER>> /\ fs' = KERNEL
      BY <1>2 DEF Rescheduled
    <2>2. TypeOK'
      <3>1. gs' \in Bases
        BY <2>1
      <3>2. slot'.rsp \in Saved /\ slot'.intFlag \in BOOLEAN /\ rsp' \in Stacks
        BY <1>2 DEF Rescheduled
      <3>3. /\ pc' \in Places /\ frames' \in Seq(Frame) /\ intFlag' \in BOOLEAN
            /\ cs' \in {KernelCode, UserCode} /\ ss' \in {KernelData, UserData}
        BY <1>2 DEF Rescheduled
      <3>4. sysTop' \in Int /\ depth' \in 0 .. MaxDepth
        BY <1>2 DEF Rescheduled
      <3>5. DOMAIN ownFS' = 1 .. MaxDepth
        BY <1>2 DEF Rescheduled
      <3>6. halted' \in BOOLEAN
        BY <1>2 DEF Rescheduled
      <3> HIDE DEF Places, Stacks, Saved, Bases
      <3> QED
        BY <3>1, <3>2, <3>3, <3>4, <3>5, <3>6 DEF TypeOK
    <2>3. BottomByPlace'
      BY <1>2, <2>1, <2>2 DEF Rescheduled
    <2>4. Nested'
      BY <1>2, <2>1, <2>2 DEF Rescheduled
    <2>5. Frames' /\ Segments'
      BY <1>2, <2>1 DEF Rescheduled
    <2> QED
      BY <2>2, <2>3, <2>4, <2>5
  <1> QED
    BY <1>1, <1>2

-----------------------------------------------------------------------------
(* Steps of the stubs.                                                     *)

\* What an interrupt does to the bottom and to the frames below the new one.
LEMMA PushKeeps ==
  ASSUME Inv, NEW v \in Vectors \cup {KeyboardVector}, Push(v)
  PROVE  /\ frames' \in Seq(Frame) /\ Len(frames') = Len(frames) + 1 /\ frames' # <<>>
         /\ \A i \in 1 .. Len(frames) : frames'[i] = frames[i]
         /\ frames'[Len(frames) + 1] = [v |-> v, cs |-> cs, ss |-> ss, rsp |-> rsp,
                                        intFlag |-> intFlag, step |-> "entry"]
         /\ Bottom' = Bottom
  <1> DEFINE f == [v |-> v, cs |-> cs, ss |-> ss, rsp |-> rsp, intFlag |-> intFlag, step |-> "entry"]
  <1>1. f \in Frame /\ frames \in Seq(Frame) /\ frames' = Append(frames, f)
    BY DEF Inv, TypeOK, Push, Frame, Steps
  <1> HIDE DEF f
  <1>2. /\ frames' \in Seq(Frame) /\ Len(frames') = Len(frames) + 1 /\ frames' # <<>>
        /\ \A i \in 1 .. Len(frames) : frames'[i] = frames[i]
        /\ frames'[Len(frames) + 1] = f
    BY <1>1
  <1>3. Bottom' = Bottom
    <2>1. CASE frames = <<>>
      BY <1>2, <2>1 DEF Bottom, f
    <2>2. CASE frames # <<>>
      <3>1. 1 \in 1 .. Len(frames)
        BY <1>1, <2>2
      <3> QED
        BY <1>2, <2>2, <3>1 DEF Bottom
    <2> QED
      BY <2>1, <2>2
  <1> QED
    BY <1>2, <1>3 DEF f

\* A stub that goes on to its next step changes nothing else of the frames.
LEMMA StepKeeps ==
  ASSUME Inv, frames # <<>>, NEW next \in Steps, Step(next)
  PROVE  /\ frames' \in Seq(Frame) /\ Len(frames') = Len(frames) /\ frames' # <<>>
         /\ Len(frames) \in 1 .. Len(frames)
         /\ \A i \in 1 .. Len(frames) : 
              /\ i # Len(frames) => frames'[i] = frames[i]
              /\ frames'[i].cs = frames[i].cs /\ frames'[i].ss = frames[i].ss
              /\ frames'[i].rsp = frames[i].rsp /\ frames'[i].intFlag = frames[i].intFlag
         /\ frames'[Len(frames)].step = next
         /\ Bottom' = Bottom
  <1>1. frames \in Seq(Frame) /\ Len(frames) \in 1 .. Len(frames)
    BY DEF Inv, TypeOK
  <1>2. frames[Len(frames)] \in Frame
    BY <1>1
  <1> DEFINE f == [frames[Len(frames)] EXCEPT !.step = next]
  <1>3. /\ f \in Frame /\ f.step = next
        /\ f.cs = frames[Len(frames)].cs /\ f.ss = frames[Len(frames)].ss
        /\ f.rsp = frames[Len(frames)].rsp /\ f.intFlag = frames[Len(frames)].intFlag
    BY <1>2 DEF Frame
  <1>4. frames' = [frames EXCEPT ![Len(frames)] = f]
    BY DEF Step
  <1> HIDE DEF f
  <1>5. /\ frames' \in Seq(Frame) /\ Len(frames') = Len(frames) /\ frames' # <<>>
        /\ \A i \in 1 .. Len(frames) : i # Len(frames) => frames'[i] = frames[i]
        /\ frames'[Len(frames)] = f
    BY <1>1, <1>3, <1>4
  <1>6. \A i \in 1 .. Len(frames) :
              /\ frames'[i].cs = frames[i].cs /\ frames'[i].ss = frames[i].ss
              /\ frames'[i].rsp = frames[i].rsp /\ frames'[i].intFlag = frames[i].intFlag
    BY <1>1, <1>3, <1>5
  <1>7. Bottom' = Bottom
    BY <1>1, <1>5, <1>6 DEF Bottom
  <1> QED
    BY <1>1, <1>3, <1>5, <1>6, <1>7

\* An interrupt or an exception arrives.
LEMMA PushInv ==
  ASSUME Inv, NEW v \in Vectors \cup {KeyboardVector}, Push(v)
  PROVE  Inv'
  <1>1. /\ frames' \in Seq(Frame) /\ Len(frames') = Len(frames) + 1 /\ frames' # <<>>
        /\ \A i \in 1 .. Len(frames) : frames'[i] = frames[i]
        /\ frames'[Len(frames) + 1] = [v |-> v, cs |-> cs, ss |-> ss, rsp |-> rsp,
                                       intFlag |-> intFlag, step |-> "entry"]
        /\ Bottom' = Bottom
    BY PushKeeps
  <1>2. /\ cs' = KernelCode /\ ss' = KernelData /\ intFlag' \in BOOLEAN
        /\ rsp' = IF Ring(cs) = 3 THEN <<"Rsp0", 0>> ELSE rsp
        /\ UNCHANGED <<pc, gs, fs, userFS, slot, sysTop, call, depth, ownFS, halted>>
    BY DEF Push
  <1>3. frames \in Seq(Frame) /\ (frames = <<>> <=> Len(frames) = 0) /\ Len(frames) \in Nat
    BY DEF Inv, TypeOK
  <1>4. TypeOK'
    <2>1. rsp' \in Stacks
      BY <1>2 DEF Inv, TypeOK, Stacks
    <2> QED
      BY <1>1, <1>2, <2>1 DEF Inv, TypeOK
  <1>5. BottomByPlace' /\ Nested'
    BY <1>1, <1>2 DEF Inv, BottomByPlace, Nested
  <1>6. StubRsp' = StubRsp
    BY <1>1, <1>2 DEF StubRsp
  <1>7. rsp' = StubRsp
    BY <1>2, Selectors DEF StubRsp, Inv, Bottom, BottomByPlace, Frames
  <1>8. Frames'
    <2>1. CASE frames = <<>>
      BY <1>1, <1>2, <1>3, <1>6, <1>7, <2>1 DEF Frames
    <2>2. CASE frames # <<>>
      <3>1. cs = KernelCode /\ ss = KernelData /\ rsp = StubRsp
        BY <2>2 DEF Inv, Frames
      <3> QED
        BY <1>1, <1>2, <1>3, <1>6, <1>7, <2>2, <3>1 DEF Inv, Frames
    <2> QED
      BY <2>1, <2>2
  <1>9. (GSIsKernels' <=> GSIsKernels) /\ (FSIsKernels' <=> FSIsKernels)
    <2>1. CASE frames = <<>>
      BY <1>1, <1>2, <1>3, <2>1 DEF GSIsKernels, FSIsKernels, FirstStubAt
    <2>2. CASE frames # <<>>
      BY <1>1, <1>2, <1>3, <2>2 DEF GSIsKernels, FSIsKernels, FirstStubAt
    <2> QED
      BY <2>1, <2>2
  <1>10. Segments'
    BY <1>2, <1>9 DEF Inv, Segments, FSLoaded
  <1> QED
    BY <1>4, <1>5, <1>8, <1>10 DEF Inv

\* A stub goes on to its next step: what remains to be shown of such a step
\* is what it does to GS and FS.
LEMMA StepInv ==
  ASSUME Inv, frames # <<>>, NEW next \in Steps, Step(next),
         Len(frames) > 1 \/ pc # "user" => next \notin {"entryFS", "doneFS"},
         UNCHANGED <<pc, rsp, cs, ss, intFlag, userFS, slot, sysTop, depth, ownFS>>,
         halted' \in BOOLEAN, gs' \in Bases, Segments'
  PROVE  Inv'
  <1>1. /\ frames' \in Seq(Frame) /\ Len(frames') = Len(frames) /\ frames' # <<>>
        /\ Len(frames) \in 1 .. Len(frames)
        /\ \A i \in 1 .. Len(frames) : 
             /\ i # Len(frames) => frames'[i] = frames[i]
             /\ frames'[i].cs = frames[i].cs /\ frames'[i].ss = frames[i].ss
             /\ frames'[i].rsp = frames[i].rsp /\ frames'[i].intFlag = frames[i].intFlag
        /\ frames'[Len(frames)].step = next
        /\ Bottom' = Bottom
    BY StepKeeps
  <1>2. TypeOK'
    BY <1>1 DEF Inv, TypeOK
  <1>3. BottomByPlace' /\ Nested'
    BY <1>1 DEF Inv, BottomByPlace, Nested
  <1>4. StubRsp' = StubRsp
    BY <1>1 DEF StubRsp
  <1>5. Frames'
    <2>1. \A i \in 2 .. Len(frames') :
             frames'[i].cs = KernelCode /\ frames'[i].ss = KernelData /\ frames'[i].rsp = StubRsp'
      BY <1>1, <1>4 DEF Inv, Frames
    <2>2. ASSUME NEW i \in 1 .. Len(frames'), i > 1 \/ pc' # "user"
          PROVE  frames'[i].step \notin {"entryFS", "doneFS"}
      <3>1. CASE i = Len(frames)
        BY <1>1, <2>2, <3>1
      <3>2. CASE i # Len(frames)
        BY <1>1, <2>2, <3>2 DEF Inv, Frames
      <3> QED
        BY <3>1, <3>2
    <2>3. cs' = KernelCode /\ ss' = KernelData /\ rsp' = StubRsp'
      BY <1>4 DEF Inv, Frames
    <2> QED
      BY <2>1, <2>2, <2>3 DEF Frames
  <1> QED
    BY <1>2, <1>3, <1>5 DEF Inv

\* Either there is one stub or there are more.
LEMMA OneOrMore == \A n \in Nat : n >= 1 => (n = 1 <=> ~(n > 1))
  OBVIOUS

\* The first stub is the one on top, and has interrupted a program.
First == Len(frames) = 1 /\ pc = "user"

\* Which stubs found the program's code segment.
LEMMA TopSegment ==
  ASSUME Inv, frames # <<>>
  PROVE  Len(frames) \in Nat /\ Len(frames) >= 1 /\ (Ring(Top.cs) = 3 <=> First)
  <1>1. frames \in Seq(Frame) /\ Len(frames) \in Nat /\ Len(frames) >= 1
    BY DEF Inv, TypeOK
  <1>2. CASE Len(frames) = 1
    BY <1>1, <1>2, Selectors DEF Inv, BottomByPlace, Bottom, First, Top
  <1>3. CASE Len(frames) > 1
    BY <1>1, <1>3, Selectors DEF Inv, Frames, First, Top
  <1> QED
    BY <1>1, <1>2, <1>3

\* The stubs that are not the first leave GS and FS as they are.
LEMMA OtherStubs ==
  ASSUME Inv, frames # <<>>, ~halted, NEW next \in Steps, Step(next), ~First,
         UNCHANGED <<pc, gs, fs, userFS>>
  PROVE  Segments'
  <1>1. Len(frames) \in Nat /\ Len(frames) >= 1
    BY TopSegment
  <1>2. ASSUME pc = "user" PROVE frames'[1] = frames[1]
    <2>1. 1 \in 1 .. Len(frames) /\ 1 # Len(frames)
      BY <1>1, <1>2 DEF First
    <2> QED
      BY <2>1, StepKeeps
  <1>3. frames' # <<>>
    BY StepKeeps
  <1>4. (GSIsKernels' <=> GSIsKernels) /\ (FSIsKernels' <=> FSIsKernels)
    BY <1>2, <1>3 DEF GSIsKernels, FSIsKernels, FirstStubAt
  <1> QED
    BY <1>4 DEF Inv, Segments, FSLoaded

\* The stubs of the keyboard and of the exceptions, before and after the handler.
LEMMA StubSteps ==
  ASSUME Inv, MaybeSwapGS \/ StubLoadFS \/ Handler
  PROVE  Inv'
  <1>1. frames # <<>> /\ frames \in Seq(Frame) /\ gs \in Bases /\ ~halted
    BY DEF MaybeSwapGS, StubLoadFS, Handler, InStub, Inv, TypeOK
  <1>2. Ring(Top.cs) = 3 <=> First
    BY <1>1, TopSegment
  <1>8. Len(frames) \in Nat /\ Len(frames) >= 1
    BY <1>1, TopSegment
  <1>3. ASSUME First PROVE Top = frames[1] /\ Len(frames) = 1 /\ pc = "user"
    BY <1>3 DEF First, Top
  <1>4. Segments
    BY DEF Inv
  <1>5. CASE MaybeSwapGS
    <2> DEFINE next == IF Top.step = "entry" THEN IF First THEN "entryFS" ELSE "body"
                                             ELSE IF First THEN "doneFS" ELSE "iret"
    <2>1. Top.step \in {"entry", "done"} /\ Step(next) /\ next \in Steps
      <3>1. next \in Steps
        BY DEF Steps
      <3>2. CASE InStub("entry") /\ Step(IF Ring(Top.cs) = 3 THEN "entryFS" ELSE "body")
        BY <1>2, <3>1, <3>2 DEF InStub
      <3>3. CASE InStub("done") /\ Step(IF Ring(Top.cs) = 3 THEN "doneFS" ELSE "iret")
        BY <1>2, <3>1, <3>3 DEF InStub
      <3> QED
        BY <1>5, <3>2, <3>3 DEF MaybeSwapGS
    <2>2. /\ UNCHANGED <<pc, rsp, cs, ss, intFlag, fs, userFS, slot, sysTop, depth, ownFS, halted>>
          /\ First => gs' = <<gs[2], gs[1]>>
          /\ ~First => gs' = gs
      BY <1>2, <1>5 DEF MaybeSwapGS, SwapGS
    <2>3. frames' # <<>> /\ frames'[Len(frames)].step = next
      BY <1>1, <2>1, StepKeeps
    <2>4. CASE First
      <3>1. pc = "user" /\ frames[1].step = Top.step /\ frames'[1].step = next
        BY <1>3, <2>3, <2>4
      <3>2. gs # <<KERNEL, NONE>>
        BY <1>4, <3>1 DEF Segments
      <3>3. gs' = (IF Top.step = "entry" THEN <<KERNEL, USER>> ELSE <<USER, KERNEL>>)
        BY <1>1, <1>4, <2>1, <2>2, <2>4, <3>1, <3>2, Environments
        DEF Segments, FSLoaded, GSIsKernels, FirstStubAt, Bases
      <3>4. gs' \in Bases
        BY <3>3 DEF Bases
      <3>5. Segments'
        BY <1>1, <1>4, <2>1, <2>2, <2>3, <2>4, <3>1, <3>3, Environments
        DEF Segments, FSLoaded, GSIsKernels, FSIsKernels, FirstStubAt
      <3>6. ~(Len(frames) > 1 \/ pc # "user") /\ halted' \in BOOLEAN
        BY <1>3, <1>8, <2>2, <2>4, OneOrMore DEF Inv, TypeOK
      <3> HIDE DEF next
      <3> QED
        BY <1>1, <2>1, <2>2, <3>4, <3>5, <3>6, StepInv
    <2>5. CASE ~First
      <3>1. Segments'
        BY <1>1, <2>1, <2>2, <2>5, OtherStubs
      <3>2. next \notin {"entryFS", "doneFS"}
        BY <2>5
      <3>3. gs' \in Bases /\ halted' \in BOOLEAN
        BY <1>1, <2>2, <2>5 DEF Inv, TypeOK
      <3> HIDE DEF next
      <3> QED
        BY <1>1, <2>1, <2>2, <3>1, <3>2, <3>3, StepInv
    <2> QED
      BY <2>4, <2>5
  <1>6. CASE StubLoadFS
    <2>1. First
      <3>1. Len(frames) \in 1 .. Len(frames)
        BY <1>8
      <3>2. Top.step \in {"entryFS", "doneFS"}
        BY <1>6 DEF StubLoadFS, InStub
      <3>3. ~(Len(frames) > 1) /\ pc = "user"
        BY <3>1, <3>2 DEF Inv, Frames, Top
      <3>4. Len(frames) = 1
        BY <1>8, <3>3, OneOrMore
      <3> QED
        BY <3>3, <3>4 DEF First
    <2> DEFINE next == IF Top.step = "entryFS" THEN "body" ELSE "iret"
    <2>2. Top.step \in {"entryFS", "doneFS"} /\ Step(next) /\ next \in Steps
      <3>1. next \in Steps
        BY DEF Steps
      <3> QED
        BY <1>6, <3>1 DEF StubLoadFS, InStub
    <2>3. /\ UNCHANGED <<pc, rsp, cs, ss, intFlag, gs, userFS, slot, sysTop, depth, ownFS>>
          /\ LoadFS(gs[1]) /\ halted' \in BOOLEAN
      BY <1>6 DEF StubLoadFS, LoadFS, Inv, TypeOK
    <2>4. frames' # <<>> /\ frames'[Len(frames)].step = next
      BY <1>1, <2>2, StepKeeps
    <2>5. pc = "user" /\ frames[1].step = Top.step /\ frames'[1].step = next
      BY <1>3, <2>1, <2>4
    <2>6. Segments'
      BY <1>1, <1>4, <2>2, <2>3, <2>4, <2>5, Environments
      DEF Segments, FSLoaded, GSIsKernels, FSIsKernels, FirstStubAt, LoadFS
    <2> QED
      BY <1>1, <1>3, <2>1, <2>2, <2>3, <2>6, StepInv DEF Inv, TypeOK
  <1>7. CASE Handler
    <2>1. Top.step = "body" /\ Step("done") /\ "done" \in Steps
      BY <1>7 DEF Handler, InStub, Steps
    <2>2. UNCHANGED <<pc, rsp, cs, ss, intFlag, gs, fs, userFS, slot, sysTop, depth, ownFS>>
      BY <1>7 DEF Handler, machine
    <2>3. halted' \in BOOLEAN
      BY <1>7 DEF Handler
    <2>4. frames' # <<>> /\ frames'[Len(frames)].step = "done"
      BY <1>1, <2>1, StepKeeps
    <2>5. Segments'
      <3>1. CASE First
        BY <1>1, <1>3, <1>4, <2>1, <2>2, <2>4, <3>1
        DEF Segments, FSLoaded, GSIsKernels, FSIsKernels, FirstStubAt
      <3>2. CASE ~First
        BY <1>1, <2>1, <2>2, <3>2, OtherStubs
      <3> QED
        BY <3>1, <3>2
    <2> QED
      BY <1>1, <2>1, <2>2, <2>3, <2>5, StepInv
  <1> QED
    BY <1>5, <1>6, <1>7

\* An iretq restores what its interrupt found.
LEMMA IRetInv ==
  ASSUME Inv, IRet
  PROVE  Inv'
  <1>1. frames # <<>> /\ frames \in Seq(Frame) /\ Top.step = "iret"
    BY DEF IRet, InStub, Inv, TypeOK
  <1>2. Len(frames) \in Nat /\ Len(frames) >= 1
    BY <1>1, TopSegment
  <1>3. /\ frames' \in Seq(Frame) /\ Len(frames') = Len(frames) - 1
        /\ \A i \in 1 .. Len(frames') : frames'[i] = frames[i]
    <2>1. \A i \in 1 .. Len(frames) - 1 : frames[i] \in Frame
      BY <1>1, <1>2
    <2>2. frames' = SubSeq(frames, 1, Len(frames) - 1) /\ Len(frames) - 1 \in Int
      BY <1>2 DEF IRet
    <2>3. /\ frames' \in Seq(Frame)
          /\ Len(frames') = IF 1 <= Len(frames) - 1 THEN Len(frames) - 1 - 1 + 1 ELSE 0
          /\ \A i \in 1 .. Len(frames) - 1 - 1 + 1 : frames'[i] = frames[1 + i - 1]
      BY <2>1, <2>2, SubSeqProperties
    <2> DEFINE n == Len(frames)
    <2>4. n \in Nat /\ n >= 1
      BY <1>2
    <2>5. /\ Len(frames') = IF 1 <= n - 1 THEN n - 1 - 1 + 1 ELSE 0
          /\ \A i \in 1 .. n - 1 - 1 + 1 : frames'[i] = frames[1 + i - 1]
      BY <2>3
    <2> HIDE DEF n
    <2>6. Len(frames') = n - 1
      BY <2>4, <2>5
    <2>7. \A i \in 1 .. n - 1 : frames'[i] = frames[i]
      BY <2>4, <2>5
    <2> QED
      BY <2>3, <2>6, <2>7 DEF n
  <1>4. Top \in Frame
    BY <1>1, <1>2 DEF Top
  <1>5. /\ rsp' = Top.rsp /\ cs' = Top.cs /\ ss' = Top.ss /\ intFlag' = Top.intFlag
        /\ pc' = IF Len(frames) = 1 /\ pc = "halt" THEN "woken" ELSE pc
        /\ UNCHANGED <<gs, fs, userFS, slot, sysTop, call, depth, inService, count, ownFS, halted>>
    BY DEF IRet
  <1>6. TypeOK'
    <2>1. rsp' \in Stacks /\ cs' \in {KernelCode, UserCode} /\ ss' \in {KernelData, UserData}
          /\ intFlag' \in BOOLEAN
      BY <1>4, <1>5 DEF Frame
    <2>2. pc' \in Places
      BY <1>5 DEF Inv, TypeOK, Places
    <2> QED
      BY <1>3, <1>5, <2>1, <2>2 DEF Inv, TypeOK
  <1>7. Bottom' = Bottom
    <2>1. CASE Len(frames) = 1
      <3>1. frames' = <<>> /\ Top = frames[1]
        BY <1>3, <2>1 DEF Top
      <3> QED
        BY <1>1, <1>5, <3>1 DEF Bottom
    <2>2. CASE Len(frames) > 1
      <3>1. frames' # <<>> /\ frames'[1] = frames[1]
        BY <1>2, <1>3, <2>2
      <3> QED
        BY <1>1, <3>1 DEF Bottom
    <2> QED
      BY <1>2, <2>1, <2>2
  <1>8. BottomByPlace'
    BY <1>5, <1>7 DEF Inv, BottomByPlace, InSyscall, Leaving
  <1>9. Nested'
    BY <1>5, <1>7 DEF Inv, Nested, InSyscall
  <1>10. StubRsp' = StubRsp /\ (pc' = "user" <=> pc = "user")
    BY <1>5, <1>7 DEF StubRsp
  <1>11. Frames' /\ Segments'
    <2>1. CASE Len(frames) = 1
      <3>1. frames' = <<>> /\ Top = frames[1]
        BY <1>3, <2>1 DEF Top
      <3>2. Frames'
        BY <3>1 DEF Frames
      <3>3. Segments'
        BY <1>1, <1>5, <3>1 DEF Inv, Segments, FSLoaded, GSIsKernels, FSIsKernels, FirstStubAt
      <3> QED
        BY <3>2, <3>3
    <2>2. CASE Len(frames) > 1
      <3>1. frames' # <<>> /\ frames'[1] = frames[1] /\ pc' = pc
        BY <1>2, <1>3, <1>5, <2>2
      <3>2. cs' = KernelCode /\ ss' = KernelData /\ rsp' = StubRsp'
        BY <1>2, <1>5, <1>10, <2>2 DEF Inv, Frames, Top
      <3>3. Frames'
        BY <1>2, <1>3, <1>10, <2>2, <3>1, <3>2 DEF Inv, Frames
      <3>4. Segments'
        BY <1>1, <1>5, <3>1 DEF Inv, Segments, FSLoaded, GSIsKernels, FSIsKernels, FirstStubAt
      <3> QED
        BY <3>3, <3>4
    <2> QED
      BY <1>2, <2>1, <2>2
  <1> QED
    BY <1>6, <1>8, <1>9, <1>11 DEF Inv

-----------------------------------------------------------------------------
LEMMA NextInv == Inv /\ [Next]_vars => Inv'
  <1> SUFFICES ASSUME Inv, [Next]_vars PROVE Inv'
    OBVIOUS
  <1>1. CASE ScheduleProcess \/ SaveKernelStack \/ SwitchGS \/ SwitchFS \/ EnterUserMode
    BY <1>1, StartSteps
  <1>2. CASE \/ SyscallDispatcher \/ UnknownSyscall \/ HandlerReturns \/ SetFS \/ ReadBlocks
             \/ ReadReturns \/ Popfq \/ PopRsp \/ UserGS \/ UserFSLoad \/ Sysret
    BY <1>2, SyscallSteps
  <1>3. CASE ReturnToKernel \/ Rescheduled
    BY <1>3, ExitSteps
  <1>4. CASE Interrupt
    BY <1>4, PushInv DEF Interrupt
  <1>5. CASE Exception
    BY <1>5, PushInv DEF Exception
  <1>6. CASE MaybeSwapGS \/ StubLoadFS \/ Handler
    BY <1>6, StubSteps
  <1>7. CASE IRet
    BY <1>7, IRetInv
  <1>8. CASE UNCHANGED vars
    BY <1>8 DEF vars, machine, Inv, TypeOK, BottomByPlace, Bottom, Nested, Frames, StubRsp,
                Segments, FSLoaded, FSIsKernels, GSIsKernels, FirstStubAt
  <1> QED
    BY <1>1, <1>2, <1>3, <1>4, <1>5, <1>6, <1>7, <1>8 DEF Next

LEMMA InvHolds == Spec => []Inv
  BY InitInv, NextInv, PTL DEF Spec

\* What the place at the bottom says of a program that is running.
LEMMA InvOwnContext == Inv => UserSeesOwnContext
  <1> SUFFICES ASSUME Inv, At("user") PROVE UserSeesOwnContext
    BY DEF UserSeesOwnContext
  <1>1. pc = "user" /\ frames = <<>> /\ depth > 0
    BY DEF At, Inv, TypeOK, BottomByPlace
  <1>2. cs = UserCode /\ ss = UserData /\ intFlag /\ rsp = <<"user", depth>> /\ userFS = ownFS[depth]
    BY <1>1 DEF Inv, BottomByPlace, Bottom, Nested, Leaving
  <1>3. gs = <<USER, KERNEL>> /\ HoldsAddress(userFS) /\ fs = Word(userFS)
    BY <1>1, Environments
    DEF At, Inv, TypeOK, Bases, Segments, FSLoaded, GSIsKernels, FSIsKernels, FirstStubAt
  <1> QED
    BY <1>2, <1>3, Selectors DEF UserSeesOwnContext

\* What the place at the bottom and the first stub say of kernel code.
LEMMA InvKernelContext == Inv => KernelSeesKernelContext
  <1> SUFFICES ASSUME Inv PROVE KernelSeesKernelContext
    OBVIOUS
  <1>1. ASSUME At("handler") \/ At("woken")
        PROVE  KernelContext /\ rsp = <<"syscall", depth>>
    BY <1>1 DEF At, KernelContext, Inv, BottomByPlace, Bottom, InSyscall, Segments,
                FSLoaded, GSIsKernels, FSIsKernels
  <1>2. ASSUME InStub("body"), ~Exposed
        PROVE  KernelContext
    <2>1. frames # <<>> /\ Top.step = "body" /\ frames \in Seq(Frame) /\ ~halted
      BY <1>2 DEF InStub, Inv, TypeOK
    <2>2. Len(frames) \in Nat /\ Len(frames) >= 1
      BY <2>1, TopSegment
    <2>3. pc \notin {"switchFS", "iretq", "userFS", "sysret"}
      BY <1>2 DEF Exposed
    <2>4. CASE pc # "user"
      BY <2>1, <2>3, <2>4 DEF Inv, Segments, FSLoaded, GSIsKernels, FSIsKernels, KernelContext
    <2>5. CASE pc = "user"
      <3>1. Ring(frames[1].cs) = 3
        BY <2>1, <2>5, Selectors DEF Inv, BottomByPlace, Bottom
      <3>2. frames[1].step \in {"body", "done"}
        <4>1. CASE Len(frames) = 1
          BY <2>1, <4>1 DEF Top
        <4>2. CASE Len(frames) > 1
          <5>1. 1 \in 1 .. Len(frames) - 1 /\ 1 \in 1 .. Len(frames)
            BY <2>2, <4>2
          <5>2. frames[1].step \in Steps
            <6>1. frames[1] \in Frame
              BY <2>1, <5>1
            <6> QED
              BY <6>1 DEF Frame
          <5> QED
            BY <1>2, <3>1, <5>1, <5>2 DEF Exposed, Steps
        <4> QED
          BY <2>2, <4>1, <4>2, OneOrMore
      <3> QED
        BY <2>1, <2>5, <3>2 DEF Inv, Segments, FSLoaded, GSIsKernels, FSIsKernels, FirstStubAt, KernelContext
    <2> QED
      BY <2>4, <2>5
  <1>3. ASSUME InStub("body")
        PROVE  rsp[1] # "user" \/ pc \in {"userGS", "userFS", "sysret"}
    <2>1. rsp = StubRsp
      BY <1>3 DEF InStub, Inv, Frames
    <2> QED
      BY <2>1 DEF StubRsp, Inv, BottomByPlace
  <1> QED
    BY <1>1, <1>2, <1>3 DEF KernelSeesKernelContext

\* What the place at the bottom says of the shell.
LEMMA InvShellGetsBack == Inv => ShellGetsBack
  BY DEF Inv, BottomByPlace, Bottom, Nested, Segments, FSLoaded, GSIsKernels, FSIsKernels,
         ShellGetsBack, KernelContext, At

\* swapgs and LoadFS are paired on every path: a program runs with its own
\* stack, GS, selectors and interrupt flag, and with the word at its own FS base
\* as FS, for any number of programs, system calls, exceptions and keys,
\* wherever the keys arrive and however deep their stubs nest.
THEOREM ProgramRunsInItsContext == Spec => []UserSeesOwnContext
  BY InvHolds, InvOwnContext, PTL

\* System calls and interrupt handlers run in the kernel's environment unless
\* they interrupted the code between a swapgs and the change of ring, and no
\* handler runs on a program's stack except the one the dispatcher has popped.
THEOREM KernelRunsInItsContext == Spec => []KernelSeesKernelContext
  BY InvHolds, InvKernelContext, PTL

\* ReturnToKernel gives the shell its stack frame, environment and interrupt
\* flag back after any program that started no other.
THEOREM ExitReturnsToShell == Spec => []ShellGetsBack
  BY InvHolds, InvShellGetsBack, PTL

-----------------------------------------------------------------------------
(* Processes (Process.tla).                                                *)

\* An interpreter does not name one itself: CreateProcess loads one level.
InterpretersStandAlone ==
    \A n \in DOMAIN Programs :
        Programs[n].interp \in DOMAIN Programs =>
            Programs[Programs[n].interp].interp = NO_INTERP

\* The interpreter a program names is there, if it names one.
Complete(n) == Programs[n].interp = NO_INTERP \/ Programs[n].interp \in DOMAIN Programs

Uses == {FREE, "stack", "tls", "image", "buffer", "mmap"}
Binaries == [name : DOMAIN Programs \cup {GARBAGE}, interp : DOMAIN Programs \cup {NO_INTERP},
             image : Regions \cup {NULL}, refs : Nat, live : BOOLEAN, clean : BOOLEAN]

Typed(m, e, t, h) ==
    /\ m \in [Regions -> Uses] /\ e \in [Heap \cup {NULL} -> Binaries]
    /\ t \in Seq(Heap) /\ h \in Nat

\* A block of the heap holds a binary that is loaded and found in the table, one
\* that UnloadElf did not free because its count wrapped, or nothing of a name.
Whole(m, e, t, b) ==
    /\ e[b].refs = 1
    /\ e[b].image \in Regions /\ m[e[b].image] = "image"
    /\ e[b].interp = Programs[e[b].name].interp
    /\ \E i \in DOMAIN t : t[i] = b

Wreck(e, b) == e[b].image = NULL /\ e[b].interp = NO_INTERP

Block(m, e, t, b) ==
    IF e[b].live
    THEN /\ e[b].name \in DOMAIN Programs
         /\ IF Complete(e[b].name) THEN Whole(m, e, t, b) ELSE Wreck(e, b)
    ELSE e[b].name = GARBAGE

\* No program is loaded twice, and no two binaries have one image.
Apart(e, b, c) ==
    b # c /\ e[b].live /\ e[c].live /\ Complete(e[b].name) =>
        e[b].name # e[c].name /\ e[b].image # e[c].image

Sound(m, e, t, h) ==
    /\ Typed(m, e, t, h)
    /\ \A b \in Heap : Block(m, e, t, b)
    /\ \A b \in Heap, c \in Heap : Apart(e, b, c)
    /\ e[NULL].image = NULL

-----------------------------------------------------------------------------
(* The operators, on a kernel given by its parts.                          *)

\* The function f, with x at a.
Put(f, a, x) == [f EXCEPT ![a] = x]

Kern(m, e, t, h) == [memory |-> m, elf |-> e, table |-> t, handles |-> h]

LEMMA KernParts ==
  ASSUME NEW m, NEW e, NEW t, NEW h
  PROVE  /\ Kern(m, e, t, h).memory = m /\ Kern(m, e, t, h).elf = e
         /\ Kern(m, e, t, h).table = t /\ Kern(m, e, t, h).handles = h
BY DEF Kern, Put

LEMMA KernEqual ==
  ASSUME NEW m, NEW e, NEW t, NEW h, NEW m2, NEW e2, NEW t2, NEW h2,
         Kern(m, e, t, h) = Kern(m2, e2, t2, h2)
  PROVE  m = m2 /\ e = e2 /\ t = t2 /\ h = h2
BY KernParts

\* The lowest of some numbers is one of them.
LEMMA LowestIsOne ==
  ASSUME NEW T, T \subseteq Nat, T # {}
  PROVE  Min(T) \in T
<1> DEFINE R == OpToRel(<, Nat)
<1>1. IsWellFoundedOn(R, Nat)
  BY NatLessThanWellFounded
<1>2. PICK x \in T : \A y \in Nat : <<y, x>> \in R => ~(y \in T)
  BY <1>1, WFMin
<1>3. \A y \in Nat : y < x => <<y, x>> \in R
  BY DEF OpToRel
<1> HIDE DEF R
<1>4. ASSUME NEW y \in T, ~(x <= y) PROVE FALSE
  <2>1. x \in Nat /\ y \in Nat /\ y < x
    BY <1>4
  <2> QED
    BY <1>2, <1>3, <2>1
<1> QED
  BY <1>4 DEF Min

FreeRegions(m) == {r \in Regions : m[r] = FREE}
FreeBlocks(e) == {b \in Heap : ~e[b].live}

AllocsTo(m, e, t, h, use, r) ==
    /\ VirtualAlloc(Kern(m, e, t, h), use).k = Kern(Put(m, r, use), e, t, h)
    /\ VirtualAlloc(Kern(m, e, t, h), use).r = r

\* VirtualAlloc takes a free region, if there is one.
LEMMA AllocIs ==
  ASSUME NEW m, NEW e, NEW t, NEW h, NEW use, FreeRegions(m) # {}
  PROVE  \E r \in Regions : m[r] = FREE /\ AllocsTo(m, e, t, h, use, r)
<1>1. PICK r : r = FirstFree(m)
  OBVIOUS
<1>2. r \in FreeRegions(m)
  <2>1. FreeRegions(m) \subseteq Nat
    BY ShapesAssumption DEF FreeRegions
  <2>2. r = Min(FreeRegions(m))
    BY <1>1 DEF FirstFree, FreeRegions
  <2> QED
    BY <2>1, <2>2, LowestIsOne
<1>3. FirstFree(Kern(m, e, t, h).memory) = r
  BY <1>1, KernParts
<1>4. [Kern(m, e, t, h) EXCEPT !.memory[r] = use] = Kern(Put(m, r, use), e, t, h)
  BY DEF Kern, Put
<1> QED
  BY <1>2, <1>3, <1>4 DEF VirtualAlloc, FreeRegions, AllocsTo

LEMMA FreeIs ==
  ASSUME NEW m, NEW e, NEW t, NEW h, NEW r
  PROVE  VirtualFree(Kern(m, e, t, h), r) = Kern(Put(m, r, FREE), e, t, h)
BY DEF Kern, Put, VirtualFree

\* The parts of a binary.
Bin(n, i, g, f, l, c) ==
    [name |-> n, interp |-> i, image |-> g, refs |-> f, live |-> l, clean |-> c]

LEMMA BinParts ==
  ASSUME NEW n, NEW i, NEW g, NEW f, NEW l, NEW c
  PROVE  /\ Bin(n, i, g, f, l, c).name = n /\ Bin(n, i, g, f, l, c).interp = i
         /\ Bin(n, i, g, f, l, c).image = g /\ Bin(n, i, g, f, l, c).refs = f
         /\ Bin(n, i, g, f, l, c).live = l /\ Bin(n, i, g, f, l, c).clean = c
BY DEF Bin

LEMMA BinaryIsBin ==
  ASSUME NEW x \in Binaries
  PROVE  x = Bin(x.name, x.interp, x.image, x.refs, x.live, x.clean)
BY DEF Binaries, Bin

\* What a binary is when it has been freed.
Dead(x) == Bin(GARBAGE, x.interp, x.image, 0, FALSE, x.clean)

\* Unloading the last reference frees image and block.
LEMMA UnloadIs ==
  ASSUME NEW m, NEW e \in [Heap \cup {NULL} -> Binaries], NEW t, NEW h, NEW o \in Heap,
         e[o].refs = 1
  PROVE  UnloadElf(Kern(m, e, t, h), o) =
           Kern(Put(m, e[o].image, FREE), Put(e, o, Dead(e[o])), t, h)
<1>1. PICK x \in Binaries : x = e[o]
  OBVIOUS
<1>2. PICK y : y = [x EXCEPT !.refs = 0, !.live = FALSE, !.name = GARBAGE]
  OBVIOUS
<1>3. y = Bin(GARBAGE, x.interp, x.image, 0, FALSE, x.clean)
  <2>1. PICK n, i, g, f, l, c : x = Bin(n, i, g, f, l, c)
    BY BinaryIsBin
  <2>2. x.interp = i /\ x.image = g /\ x.clean = c
    BY <2>1, BinParts
  <2>3. \A z, b, u : [x EXCEPT !.refs = z, !.live = b, !.name = u] = Bin(u, i, g, z, b, c)
    <3>1. TAKE z, b, u
    <3>2. PICK x1 : x1 = [x EXCEPT !.refs = z]
      OBVIOUS
    <3>3. x1 = Bin(n, i, g, z, l, c)
      BY <2>1, <3>2 DEF Bin
    <3>4. PICK x2 : x2 = [x1 EXCEPT !.live = b]
      OBVIOUS
    <3>5. x2 = Bin(n, i, g, z, b, c)
      BY <3>3, <3>4 DEF Bin
    <3>6. [x2 EXCEPT !.name = u] = Bin(u, i, g, z, b, c)
      BY <3>5 DEF Bin
    <3> QED
      BY <3>2, <3>4, <3>6
  <2>4. y = Bin(GARBAGE, i, g, 0, FALSE, c)
    BY <1>2, <2>3
  <2> QED
    BY <2>2, <2>4
<1>4. PICK e2 : e2 = Put(e, o, y)
  OBVIOUS
<1>5. [Kern(m, e, t, h) EXCEPT !.elf[o] = [@ EXCEPT !.refs = 0, !.live = FALSE,
                                                    !.name = GARBAGE]] = Kern(m, e2, t, h)
  <2>1. PICK k : k = Kern(m, e, t, h)
    OBVIOUS
  <2>2. [k EXCEPT !.elf[o] = [@ EXCEPT !.refs = 0, !.live = FALSE, !.name = GARBAGE]] =
        [k EXCEPT !.elf[o] = y]
    BY <1>1, <1>2, <2>1 DEF Kern, Put
  <2>3. [k EXCEPT !.elf[o] = y] = Kern(m, e2, t, h)
    BY <1>4, <2>1 DEF Kern, Put
  <2> QED
    BY <2>1, <2>2, <2>3
<1>6. Decrement(x.refs) = 0
  BY <1>1 DEF Decrement
<1>7. UnloadElf(Kern(m, e, t, h), o) = VirtualFree(Kern(m, e2, t, h), x.image)
  BY <1>1, <1>5, <1>6, KernParts DEF UnloadElf
<1>8. VirtualFree(Kern(m, e2, t, h), x.image) = Kern(Put(m, x.image, FREE), e2, t, h)
  BY FreeIs
<1> QED
  BY <1>1, <1>3, <1>4, <1>7, <1>8 DEF Dead

Fresh(n) == Bin(n, NO_INTERP, NULL, 0, TRUE, TRUE)
Image(n, i, r) == Bin(n, i, r, 1, TRUE, TRUE)
Wreckage(n) == Bin(n, NO_INTERP, NULL, Wrapped, TRUE, TRUE)

\* What loading n comes to: an entry of the table that has the name; or a new
\* binary with an image of its own; or, for want of its interpreter, the wreck
\* of one.
Finds(m, e, t, h, n, l) ==
    \E i \in DOMAIN t : e[t[i]].name = n /\ l = [k |-> Kern(m, e, t, h), o |-> t[i]]

Makes(m, e, t, h, n, l, r, o) ==
    /\ r \in Regions /\ m[r] = FREE /\ o \in Heap /\ ~e[o].live
    /\ Complete(n)
    /\ l = [k |-> Kern(Put(m, r, "image"), Put(e, o, Image(n, Programs[n].interp, r)),
                       Append(t, o), IF Programs[n].interp = NO_INTERP THEN h ELSE h + 1),
            o |-> o]

Wrecks(m, e, t, h, n, l, r, o) ==
    /\ r \in Regions /\ m[r] = FREE /\ o \in Heap /\ ~e[o].live
    /\ ~Complete(n)
    /\ l = [k |-> Kern(Put(m, r, "image"), Put(e, o, Wreckage(n)), t, h),
            o |-> NULL]

Loads(m, e, t, h, n, l) ==
    \/ Finds(m, e, t, h, n, l)
    \/ /\ \A i \in DOMAIN t : e[t[i]].name # n
       /\ \E r, o : Makes(m, e, t, h, n, l, r, o) \/ Wrecks(m, e, t, h, n, l, r, o)

LEMMA WrappedNotZero == Wrapped # 0 /\ Wrapped \in Nat
BY DEF Wrapped

\* The entry found is the first of that name.
LEMMA LoadFinds ==
  ASSUME NEW m, NEW e, NEW t \in Seq(Heap), NEW h, NEW n,
         Loaded(Kern(m, e, t, h), n) # {}
  PROVE  Finds(m, e, t, h, n, LoadElfFromMemory(Kern(m, e, t, h), n))
<1>1. PICK L : L = Loaded(Kern(m, e, t, h), n)
  OBVIOUS
<1>2. L = {i \in DOMAIN t : e[t[i]].name = n}
  BY <1>1, KernParts DEF Loaded
<1>3. DOMAIN t \subseteq Nat
  OBVIOUS
<1>4. Min(L) \in L
  BY <1>1, <1>2, <1>3, LowestIsOne
<1>5. LoadElfFromMemory(Kern(m, e, t, h), n) = [k |-> Kern(m, e, t, h), o |-> t[Min(L)]]
  BY <1>1, KernParts DEF LoadElfFromMemory
<1> QED
  BY <1>2, <1>4, <1>5 DEF Finds

\* The object, before its interpreter is looked for.
LEMMA Named ==
  ASSUME NEW m, NEW e, NEW t, NEW h, NEW n, NEW o,
         NEW e1, e1 = Put(e, o, Fresh(n))
  PROVE  NewBinary(Kern(m, e, t, h), o, n) = Kern(m, e1, t, h)
<1>1. \A u, v, w : [Blank EXCEPT !.name = u, !.live = v, !.clean = w] =
                     Bin(u, NO_INTERP, NULL, 0, v, w)
  <2>1. TAKE u, v, w
  <2>2. PICK x : x = Blank
    OBVIOUS
  <2>3. PICK x1 : x1 = [x EXCEPT !.name = u]
    OBVIOUS
  <2>4. x1 = Bin(u, NO_INTERP, NULL, 0, FALSE, FALSE)
    BY <2>2, <2>3 DEF Blank, Bin
  <2>5. PICK x2 : x2 = [x1 EXCEPT !.live = v]
    OBVIOUS
  <2>6. x2 = Bin(u, NO_INTERP, NULL, 0, v, FALSE)
    BY <2>4, <2>5 DEF Bin
  <2>7. [x2 EXCEPT !.clean = w] = Bin(u, NO_INTERP, NULL, 0, v, w)
    BY <2>6 DEF Bin
  <2> QED
    BY <2>2, <2>3, <2>5, <2>7
<1>2. PICK y : y = [Blank EXCEPT !.name = n, !.live = TRUE, !.clean = TRUE]
  OBVIOUS
<1>3. y = Fresh(n)
  BY <1>1, <1>2 DEF Fresh
<1>4. [Kern(m, e, t, h) EXCEPT !.elf[o] = y] = Kern(m, Put(e, o, y), t, h)
  BY DEF Kern, Put
<1> QED
  BY <1>2, <1>3, <1>4 DEF NewBinary

\* The object, once it is loaded.
LEMMA Linked ==
  ASSUME NEW m, NEW e, NEW t, NEW h, NEW o \in DOMAIN e, NEW n, NEW interp, NEW r,
         e[o] = Fresh(n),
         NEW e2, e2 = Put(e, o, Image(n, interp, r))
  PROVE  LinkBinary(Kern(m, e, t, h), o, interp, r) =
         Kern(m, e2, Append(t, o), IF interp = NO_INTERP THEN h ELSE h + 1)
<1>1. PICK x : x = e[o]
  OBVIOUS
<1>2. PICK y : y = [x EXCEPT !.interp = interp, !.image = r, !.refs = 1]
  OBVIOUS
<1>3. y = Image(n, interp, r)
  <2>1. PICK z, p : z = 0 /\ p = TRUE /\ x = Bin(n, NO_INTERP, NULL, z, p, p)
    BY <1>1 DEF Fresh
  <2>2. \A f : [x EXCEPT !.interp = interp, !.image = r, !.refs = f] =
                 Bin(n, interp, r, f, p, p)
    <3>1. TAKE f
    <3>2. PICK x1 : x1 = [x EXCEPT !.interp = interp]
      OBVIOUS
    <3>3. x1 = Bin(n, interp, NULL, z, p, p)
      BY <2>1, <3>2 DEF Bin
    <3>4. PICK x2 : x2 = [x1 EXCEPT !.image = r]
      OBVIOUS
    <3>5. x2 = Bin(n, interp, r, z, p, p)
      BY <3>3, <3>4 DEF Bin
    <3>6. [x2 EXCEPT !.refs = f] = Bin(n, interp, r, f, p, p)
      BY <3>5 DEF Bin
    <3> QED
      BY <3>2, <3>4, <3>6
  <2> QED
    BY <1>2, <2>1, <2>2 DEF Image
<1>4. PICK k : k = Kern(m, e, t, h)
  OBVIOUS
<1>5. k.elf = e /\ k.table = t /\ k.handles = h
  BY <1>4, KernParts
<1>6. PICK t2, h2 : t2 = Append(t, o) /\ h2 = IF interp = NO_INTERP THEN h ELSE h + 1
  OBVIOUS
<1>7. PICK k1 : k1 = [k EXCEPT !.elf[o] = y]
  OBVIOUS
<1>8. k1 = Kern(m, Put(e, o, y), t, h)
  BY <1>4, <1>7 DEF Kern, Put
<1>9. PICK k2 : k2 = [k1 EXCEPT !.table = t2]
  OBVIOUS
<1>10. k2 = Kern(m, Put(e, o, y), t2, h)
  BY <1>8, <1>9 DEF Kern, Put
<1>11. [k2 EXCEPT !.handles = h2] = Kern(m, Put(e, o, y), t2, h2)
  BY <1>10 DEF Kern, Put
<1>12. LinkBinary(k, o, interp, r) = [k EXCEPT !.elf[o] = y, !.table = t2, !.handles = h2]
  BY <1>1, <1>2, <1>5, <1>6 DEF LinkBinary
<1>13. [k EXCEPT !.elf[o] = y, !.table = t2, !.handles = h2] = [k2 EXCEPT !.handles = h2]
  BY <1>7, <1>9
<1> QED
  BY <1>3, <1>4, <1>6, <1>11, <1>12, <1>13

\* The object, when UnloadElf has found no reference to drop.
LEMMA Unlinked ==
  ASSUME NEW m, NEW e, NEW t, NEW h, NEW o \in DOMAIN e, NEW n,
         e[o] = Fresh(n),
         NEW e2, e2 = Put(e, o, Wreckage(n))
  PROVE  UnloadElf(Kern(m, e, t, h), o) = Kern(m, e2, t, h)
<1>1. PICK x : x = e[o]
  OBVIOUS
<1>2. PICK w : w = Wrapped
  OBVIOUS
<1>3. PICK y : y = [x EXCEPT !.refs = w]
  OBVIOUS
<1>4. y = Wreckage(n)
  <2>1. PICK z, p : z = 0 /\ p = TRUE /\ x = Bin(n, NO_INTERP, NULL, z, p, p)
    BY <1>1 DEF Fresh
  <2>2. y = Bin(n, NO_INTERP, NULL, w, p, p)
    BY <1>3, <2>1 DEF Bin
  <2> QED
    BY <1>2, <2>1, <2>2 DEF Wreckage
<1>5. PICK k : k = Kern(m, e, t, h)
  OBVIOUS
<1>6. k.elf = e
  BY <1>5, KernParts
<1>7. x.refs = 0
  BY <1>1 DEF Fresh, Bin
<1>8. Decrement(k.elf[o].refs) = w
  BY <1>1, <1>2, <1>6, <1>7 DEF Decrement
<1>9. UnloadElf(k, o) = [k EXCEPT !.elf[o].refs = w]
  BY <1>2, <1>8, WrappedNotZero DEF UnloadElf
<1>10. [k EXCEPT !.elf[o].refs = w] = [k EXCEPT !.elf[o] = y]
  BY <1>1, <1>3, <1>5 DEF Kern, Put
<1>11. [k EXCEPT !.elf[o] = y] = Kern(m, Put(e, o, y), t, h)
  BY <1>5 DEF Kern, Put
<1> QED
  BY <1>4, <1>5, <1>9, <1>10, <1>11

\* Without an entry of that name a new object is made, or wrecked.
LEMMA LoadMakes ==
  ASSUME NEW m \in [Regions -> Uses], NEW e \in [Heap \cup {NULL} -> Binaries],
         NEW t \in Seq(Heap), NEW h \in Nat, NEW n \in DOMAIN Programs,
         FreeRegions(m) # {}, FreeBlocks(e) # {},
         Loaded(Kern(m, e, t, h), n) = {}
  PROVE  \E r, o : LET l == LoadElfFromMemory(Kern(m, e, t, h), n)
                   IN  Makes(m, e, t, h, n, l, r, o) \/ Wrecks(m, e, t, h, n, l, r, o)
<1>1. PICK o : o = Min(FreeBlocks(e))
  OBVIOUS
<1>2. o \in Heap /\ ~e[o].live
  <2>1. FreeBlocks(e) \subseteq Nat
    BY ShapesAssumption DEF FreeBlocks
  <2> QED
    BY <1>1, <2>1, LowestIsOne DEF FreeBlocks
<1>3. PICK k : k = Kern(m, e, t, h)
  OBVIOUS
<1>4. PICK r \in Regions : m[r] = FREE /\ AllocsTo(m, e, t, h, "image", r)
  BY AllocIs
<1>5. PICK m2 : m2 = Put(m, r, "image")
  OBVIOUS
<1>6. VirtualAlloc(k, "image").k = Kern(m2, e, t, h) /\ VirtualAlloc(k, "image").r = r
  BY <1>3, <1>4, <1>5 DEF AllocsTo
<1>7. PICK e1 : e1 = Put(e, o, Fresh(n))
  OBVIOUS
<1>8. PICK named : named = Kern(m2, e1, t, h)
  OBVIOUS
<1>9. PICK interp : interp = Programs[n].interp
  OBVIOUS
<1>10. NewBinary(VirtualAlloc(k, "image").k, o, n) = named
  <2>1. NewBinary(Kern(m2, e, t, h), o, n) = Kern(m2, e1, t, h)
    BY <1>2, <1>7, Named
  <2> QED
    BY <1>6, <1>8, <2>1
<1>11. Min({b \in Heap : ~k.elf[b].live}) = o
  <2>1. k.elf = e
    BY <1>3, KernParts
  <2>2. {b \in Heap : ~k.elf[b].live} = FreeBlocks(e)
    BY <2>1 DEF FreeBlocks
  <2> QED
    BY <1>1, <2>2
<1>12. /\ o \in DOMAIN e1 /\ e1[o] = Fresh(n)
       /\ \A x : Put(e1, o, x) = Put(e, o, x)
  BY <1>2, <1>7 DEF Put
<1>13. CASE Complete(n)
  <2>1. LoadElfFromMemory(k, n) = [k |-> LinkBinary(named, o, interp, r), o |-> o]
    BY <1>3, <1>6, <1>9, <1>10, <1>11, <1>13 DEF LoadElfFromMemory, Complete
  <2>2. PICK e2 : e2 = Put(e1, o, Image(n, interp, r))
    OBVIOUS
  <2>3. LinkBinary(Kern(m2, e1, t, h), o, interp, r) =
        Kern(m2, e2, Append(t, o), IF interp = NO_INTERP THEN h ELSE h + 1)
    BY <1>12, <2>2, Linked
  <2>4. e2 = Put(e, o, Image(n, interp, r))
    BY <1>9, <1>12, <2>2
  <2>5. Makes(m, e, t, h, n, LoadElfFromMemory(k, n), r, o)
    BY <1>2, <1>4, <1>5, <1>8, <1>9, <1>13, <2>1, <2>3, <2>4 DEF Makes
  <2> QED
    BY <1>3, <2>5
<1>14. CASE ~Complete(n)
  <2>1. LoadElfFromMemory(k, n) = [k |-> UnloadElf(named, o), o |-> NULL]
    BY <1>3, <1>6, <1>9, <1>10, <1>11, <1>14 DEF LoadElfFromMemory, Complete
  <2>2. PICK e2 : e2 = Put(e1, o, Wreckage(n))
    OBVIOUS
  <2>3. UnloadElf(Kern(m2, e1, t, h), o) = Kern(m2, e2, t, h)
    BY <1>12, <2>2, Unlinked
  <2>4. e2 = Put(e, o, Wreckage(n))
    BY <1>12, <2>2
  <2>5. Wrecks(m, e, t, h, n, LoadElfFromMemory(k, n), r, o)
    BY <1>2, <1>4, <1>5, <1>8, <1>14, <2>1, <2>3, <2>4 DEF Wrecks
  <2> QED
    BY <1>3, <2>5
<1> QED
  BY <1>13, <1>14

LEMMA LoadIs ==
  ASSUME NEW m \in [Regions -> Uses], NEW e \in [Heap \cup {NULL} -> Binaries],
         NEW t \in Seq(Heap), NEW h \in Nat, NEW n \in DOMAIN Programs,
         FreeRegions(m) # {}, FreeBlocks(e) # {}
  PROVE  Loads(m, e, t, h, n, LoadElfFromMemory(Kern(m, e, t, h), n))
<1>1. CASE Loaded(Kern(m, e, t, h), n) # {}
  BY <1>1, LoadFinds DEF Loads
<1>2. CASE Loaded(Kern(m, e, t, h), n) = {}
  <2>1. \A i \in DOMAIN t : e[t[i]].name # n
    <3>1. Loaded(Kern(m, e, t, h), n) = {i \in DOMAIN t : e[t[i]].name = n}
      BY KernParts DEF Loaded
    <3> QED
      BY <1>2, <3>1
  <2> QED
    BY <1>2, <2>1, LoadMakes DEF Loads
<1> QED
  BY <1>1, <1>2

\* The buffer of the file is gone again: what LoadElfFromHandle comes to is
\* what LoadElfFromMemory would have come to without it.
LEMMA HandleIs ==
  ASSUME NEW m \in [Regions -> Uses], NEW e \in [Heap \cup {NULL} -> Binaries],
         NEW t \in Seq(Heap), NEW h \in Nat, NEW n \in DOMAIN Programs,
         \A r \in Regions : FreeRegions(m) # {r}, FreeRegions(m) # {}, FreeBlocks(e) # {}
  PROVE  Loads(m, e, t, h, n, LoadElfFromHandle(Kern(m, e, t, h), n))
<1>1. PICK b \in Regions : m[b] = FREE /\ AllocsTo(m, e, t, h, "buffer", b)
  BY AllocIs
<1>2. PICK m1 : m1 = Put(m, b, "buffer")
  OBVIOUS
<1>3. /\ m1 \in [Regions -> Uses] /\ m1[b] # FREE
      /\ \A r \in Regions : r # b => m1[r] = m[r]
  BY <1>2 DEF Put, Uses, FREE
<1>4. FreeRegions(m1) # {}
  <2>1. PICK r \in FreeRegions(m) : r # b
    OBVIOUS
  <2> QED
    BY <1>3, <2>1 DEF FreeRegions
<1>5. PICK l : l = LoadElfFromMemory(Kern(m1, e, t, h), n)
  OBVIOUS
<1>6. Loads(m1, e, t, h, n, l)
  BY <1>3, <1>4, <1>5, LoadIs
<1>7. PICK k : k = Kern(m, e, t, h)
  OBVIOUS
<1>8. PICK g : g = LoadElfFromHandle(k, n)
  OBVIOUS
<1>9. g = [k |-> VirtualFree(l.k, b), o |-> l.o]
  BY <1>1, <1>2, <1>5, <1>7, <1>8 DEF LoadElfFromHandle, AllocsTo
<1>10. CASE Finds(m1, e, t, h, n, l)
  <2>1. PICK i \in DOMAIN t : e[t[i]].name = n /\ l = [k |-> Kern(m1, e, t, h), o |-> t[i]]
    BY <1>10 DEF Finds
  <2>2. VirtualFree(Kern(m1, e, t, h), b) = Kern(Put(m1, b, FREE), e, t, h)
    BY FreeIs
  <2>3. Put(m1, b, FREE) = m
    BY <1>1, <1>2 DEF Put
  <2>4. g = [k |-> Kern(m, e, t, h), o |-> t[i]]
    BY <1>9, <2>1, <2>2, <2>3
  <2> QED
    BY <1>7, <1>8, <2>1, <2>4 DEF Loads, Finds
<1>11. ASSUME NEW r, NEW o, Makes(m1, e, t, h, n, l, r, o) \/ Wrecks(m1, e, t, h, n, l, r, o)
       PROVE  Makes(m, e, t, h, n, g, r, o) \/ Wrecks(m, e, t, h, n, g, r, o)
  <2>1. r \in Regions /\ r # b /\ m[r] = FREE
    BY <1>3, <1>11 DEF Makes, Wrecks
  <2>2. Put(Put(m1, r, "image"), b, FREE) = Put(m, r, "image")
    BY <1>1, <1>2, <2>1 DEF Put
  <2>3. PICK e2, t2, h2, p : l = [k |-> Kern(Put(m1, r, "image"), e2, t2, h2), o |-> p]
    BY <1>11 DEF Makes, Wrecks
  <2>4. VirtualFree(Kern(Put(m1, r, "image"), e2, t2, h2), b) = Kern(Put(m, r, "image"), e2, t2, h2)
    BY <2>2, FreeIs
  <2>5. g = [k |-> Kern(Put(m, r, "image"), e2, t2, h2), o |-> p]
    BY <1>9, <2>3, <2>4
  <2>6. CASE Makes(m1, e, t, h, n, l, r, o)
    <3>1. PICK h3 : h3 = IF Programs[n].interp = NO_INTERP THEN h ELSE h + 1
      OBVIOUS
    <3>2. PICK e3, t3 : e3 = Put(e, o, Image(n, Programs[n].interp, r)) /\ t3 = Append(t, o)
      OBVIOUS
    <3>3. Kern(Put(m1, r, "image"), e2, t2, h2) = Kern(Put(m1, r, "image"), e3, t3, h3) /\ p = o
      BY <2>3, <2>6, <3>1, <3>2 DEF Makes
    <3>4. e2 = e3 /\ t2 = t3 /\ h2 = h3
      BY <3>3, KernEqual
    <3> QED
      BY <2>1, <2>5, <2>6, <3>1, <3>2, <3>3, <3>4 DEF Makes
  <2>7. CASE Wrecks(m1, e, t, h, n, l, r, o)
    <3>1. Kern(Put(m1, r, "image"), e2, t2, h2) =
            Kern(Put(m1, r, "image"), Put(e, o, Wreckage(n)), t, h) /\ p = NULL
      BY <2>3, <2>7 DEF Wrecks
    <3>2. e2 = Put(e, o, Wreckage(n)) /\ t2 = t /\ h2 = h
      BY <3>1, KernEqual
    <3> QED
      BY <2>1, <2>5, <2>7, <3>1, <3>2 DEF Wrecks
  <2> QED
    BY <1>11, <2>6, <2>7
<1> QED
  BY <1>6, <1>7, <1>8, <1>10, <1>11 DEF Loads

-----------------------------------------------------------------------------
(* Each operation keeps the heap, the table and the images consistent.     *)

\* A region that is free becomes something.
LEMMA AllocSound ==
  ASSUME NEW m, NEW e, NEW t, NEW h, Sound(m, e, t, h),
         NEW r \in Regions, m[r] = FREE, NEW use \in Uses
  PROVE  Sound(Put(m, r, use), e, t, h)
<1>1. PICK m2 : m2 = Put(m, r, use)
  OBVIOUS
<1>0. m \in [Regions -> Uses]
  BY DEF Sound, Typed
<1>2. m2 \in [Regions -> Uses] /\ \A x \in Regions : x # r => m2[x] = m[x]
  BY <1>0, <1>1 DEF Put
<1>3. ASSUME NEW b \in Heap PROVE Block(m2, e, t, b)
  <2>1. Block(m, e, t, b)
    BY DEF Sound
  <2>2. Whole(m, e, t, b) => Whole(m2, e, t, b)
    BY <1>2 DEF Whole, FREE
  <2> QED
    BY <2>1, <2>2 DEF Block
<1> QED
  BY <1>1, <1>2, <1>3 DEF Sound, Typed

\* A region that is no image becomes free.
LEMMA FreeSound ==
  ASSUME NEW m, NEW e, NEW t, NEW h, Sound(m, e, t, h),
         NEW r \in Regions, m[r] # "image"
  PROVE  Sound(Put(m, r, FREE), e, t, h)
<1>1. PICK m2 : m2 = Put(m, r, FREE)
  OBVIOUS
<1>2. FREE \in Uses /\ m \in [Regions -> Uses]
  BY DEF Uses, Sound, Typed
<1>3. m2 \in [Regions -> Uses] /\ \A x \in Regions : x # r => m2[x] = m[x]
  BY <1>1, <1>2 DEF Put
<1>4. ASSUME NEW b \in Heap PROVE Block(m2, e, t, b)
  <2>1. Block(m, e, t, b)
    BY DEF Sound
  <2>2. Whole(m, e, t, b) => Whole(m2, e, t, b)
    BY <1>3 DEF Whole
  <2> QED
    BY <2>1, <2>2 DEF Block
<1> QED
  BY <1>1, <1>3, <1>4 DEF Sound, Typed

\* The blocks differ at most in who has run in them.
SameBut(e, e2) ==
    \A b \in Heap \cup {NULL} :
        /\ e2[b].name = e[b].name /\ e2[b].interp = e[b].interp /\ e2[b].image = e[b].image
        /\ e2[b].refs = e[b].refs /\ e2[b].live = e[b].live

LEMMA UsedSound ==
  ASSUME NEW m, NEW e, NEW t, NEW h, Sound(m, e, t, h),
         NEW e2 \in [Heap \cup {NULL} -> Binaries], SameBut(e, e2)
  PROVE  Sound(m, e2, t, h)
<1>1. ASSUME NEW b \in Heap PROVE Block(m, e2, t, b)
  <2>1. Block(m, e, t, b)
    BY DEF Sound
  <2>2. Whole(m, e, t, b) => Whole(m, e2, t, b)
    BY DEF Whole, SameBut
  <2>3. Wreck(e, b) => Wreck(e2, b)
    BY DEF Wreck, SameBut
  <2> QED
    BY <2>1, <2>2, <2>3 DEF Block, SameBut
<1>2. ASSUME NEW b \in Heap, NEW c \in Heap PROVE Apart(e2, b, c)
  <2>1. Apart(e, b, c)
    BY DEF Sound
  <2> QED
    BY <2>1 DEF Apart, SameBut
<1>3. e2[NULL].image = NULL
  BY DEF Sound, SameBut
<1>4. Typed(m, e2, t, h)
  BY DEF Sound, Typed
<1> QED
  BY <1>1, <1>2, <1>3, <1>4 DEF Sound

\* A binary in the table can be found by its name.
LEMMA WholeIsFound ==
  ASSUME NEW m, NEW e, NEW t, NEW h, Sound(m, e, t, h), NEW b \in Heap,
         e[b].live, Complete(e[b].name)
  PROVE  Whole(m, e, t, b) /\ \E i \in DOMAIN t : t[i] = b
BY DEF Sound, Block, Whole

\* A new binary, of a name the table does not have.
LEMMA MakesSound ==
  ASSUME NEW m, NEW e, NEW t, NEW h, Sound(m, e, t, h), NEW n \in DOMAIN Programs,
         NEW r \in Regions, m[r] = FREE, NEW o \in Heap, ~e[o].live, Complete(n),
         \A i \in DOMAIN t : e[t[i]].name # n, NEW h2 \in Nat
  PROVE  Sound(Put(m, r, "image"), Put(e, o, Image(n, Programs[n].interp, r)), Append(t, o), h2)
<1>1. PICK x : x = Image(n, Programs[n].interp, r)
  OBVIOUS
<1>2. x \in Binaries
  <2>1. Programs[n].interp \in DOMAIN Programs \cup {NO_INTERP}
    BY DEF Complete
  <2> QED
    BY <1>1, <2>1 DEF Binaries, Image, Bin
<1>3. /\ x.name = n /\ x.interp = Programs[n].interp /\ x.image = r
      /\ x.refs = 1 /\ x.live = TRUE
  BY <1>1 DEF Image, Bin
<1>4. Typed(m, e, t, h)
  BY DEF Sound
<1>5. PICK m2, e2, t2 : m2 = Put(m, r, "image") /\ e2 = Put(e, o, x) /\ t2 = Append(t, o)
  OBVIOUS
<1>6. m2 \in [Regions -> Uses] /\ m2[r] = "image" /\ \A y \in Regions : y # r => m2[y] = m[y]
  <2>1. "image" \in Uses /\ m \in [Regions -> Uses]
    BY <1>4 DEF Uses, Typed
  <2> QED
    BY <1>5, <2>1 DEF Put
<1>7. /\ e2 \in [Heap \cup {NULL} -> Binaries] /\ e2[o] = x
      /\ \A b \in Heap \cup {NULL} : b # o => e2[b] = e[b]
  <2>1. e \in [Heap \cup {NULL} -> Binaries]
    BY <1>4 DEF Typed
  <2> QED
    BY <1>2, <1>5, <2>1 DEF Put
<1>8. t2 \in Seq(Heap) /\ (\A i \in DOMAIN t : i \in DOMAIN t2 /\ t2[i] = t[i])
      /\ \E i \in DOMAIN t2 : t2[i] = o
  <2>1. t \in Seq(Heap)
    BY <1>4 DEF Typed
  <2>2. PICK l \in Nat : l = Len(t)
    BY <2>1, LenProperties
  <2>3. t2 \in Seq(Heap) /\ Len(t2) = l + 1 /\ t2[l + 1] = o /\ \A i \in 1 .. l : t2[i] = t[i]
    BY <1>5, <2>1, <2>2, AppendProperties
  <2>4. DOMAIN t = 1 .. l /\ DOMAIN t2 = 1 .. l + 1
    BY <2>1, <2>2, <2>3, LenProperties
  <2> QED
    BY <2>2, <2>3, <2>4
<1>9. ASSUME NEW b \in Heap, b # o PROVE Block(m2, e2, t2, b)
  <2>1. Block(m, e, t, b)
    BY DEF Sound
  <2>2. e2[b] = e[b]
    BY <1>7, <1>9
  <2>3. Whole(m, e, t, b) => Whole(m2, e2, t2, b)
    BY <1>6, <1>8, <2>2 DEF Whole, FREE
  <2> QED
    BY <2>1, <2>2, <2>3 DEF Block, Wreck
<1>10. Block(m2, e2, t2, o)
  BY <1>3, <1>6, <1>7, <1>8 DEF Block, Whole
<1>11. ASSUME NEW c \in Heap, c # o, e[c].live PROVE e[c].name # n /\ e[c].image # r
  <2>1. Block(m, e, t, c)
    BY DEF Sound
  <2>2. CASE Complete(e[c].name)
    BY <1>11, <2>2, WholeIsFound DEF Whole, FREE
  <2>3. CASE ~Complete(e[c].name)
    <3>1. e[c].image = NULL
      BY <1>11, <2>1, <2>3 DEF Block, Wreck
    <3> QED
      BY <2>3, <3>1, ShapesAssumption
  <2> QED
    BY <2>2, <2>3
<1>12. ASSUME NEW b \in Heap, NEW c \in Heap PROVE Apart(e2, b, c)
  <2>1. Apart(e, b, c)
    BY DEF Sound
  <2>2. CASE b # o /\ c # o
    BY <1>7, <2>1, <2>2 DEF Apart
  <2>3. CASE b = o /\ c # o
    BY <1>3, <1>7, <1>11, <2>3 DEF Apart
  <2>4. CASE b # o /\ c = o
    BY <1>3, <1>7, <1>11, <2>4 DEF Apart
  <2> QED
    BY <2>2, <2>3, <2>4 DEF Apart
<1>13. e2[NULL].image = NULL
  BY <1>7, ShapesAssumption DEF Sound
<1> QED
  BY <1>1, <1>4, <1>5, <1>6, <1>7, <1>8, <1>9, <1>10, <1>12, <1>13 DEF Sound, Typed

\* What is left of a binary whose interpreter is missing.
LEMMA WrecksSound ==
  ASSUME NEW m, NEW e, NEW t, NEW h, Sound(m, e, t, h), NEW n \in DOMAIN Programs,
         NEW r \in Regions, m[r] = FREE, NEW o \in Heap, ~e[o].live, ~Complete(n)
  PROVE  Sound(Put(m, r, "image"), Put(e, o, Wreckage(n)), t, h)
<1>1. PICK x : x = Wreckage(n)
  OBVIOUS
<1>2. /\ x \in Binaries /\ x.name = n /\ x.interp = NO_INTERP /\ x.image = NULL
      /\ x.live = TRUE
  BY <1>1, WrappedNotZero DEF Binaries, Wreckage, Bin
<1>3. Typed(m, e, t, h)
  BY DEF Sound
<1>4. PICK m2, e2 : m2 = Put(m, r, "image") /\ e2 = Put(e, o, x)
  OBVIOUS
<1>5. m2 \in [Regions -> Uses] /\ \A y \in Regions : y # r => m2[y] = m[y]
  <2>1. "image" \in Uses /\ m \in [Regions -> Uses]
    BY <1>3 DEF Uses, Typed
  <2> QED
    BY <1>4, <2>1 DEF Put
<1>6. /\ e2 \in [Heap \cup {NULL} -> Binaries] /\ e2[o] = x
      /\ \A b \in Heap \cup {NULL} : b # o => e2[b] = e[b]
  <2>1. e \in [Heap \cup {NULL} -> Binaries]
    BY <1>3 DEF Typed
  <2> QED
    BY <1>2, <1>4, <2>1 DEF Put
<1>7. ASSUME NEW b \in Heap, b # o PROVE Block(m2, e2, t, b)
  <2>1. Block(m, e, t, b)
    BY DEF Sound
  <2>2. e2[b] = e[b]
    BY <1>6, <1>7
  <2>3. Whole(m, e, t, b) => Whole(m2, e2, t, b)
    BY <1>5, <2>2 DEF Whole, FREE
  <2> QED
    BY <2>1, <2>2, <2>3 DEF Block, Wreck
<1>8. Block(m2, e2, t, o)
  BY <1>2, <1>6 DEF Block, Wreck
<1>9. ASSUME NEW b \in Heap, NEW c \in Heap PROVE Apart(e2, b, c)
  <2>1. Apart(e, b, c)
    BY DEF Sound
  <2>2. CASE b # o /\ c # o
    BY <1>6, <2>1, <2>2 DEF Apart
  <2>3. CASE b = o
    BY <1>2, <1>6, <2>3 DEF Apart
  <2>4. CASE b # o /\ c = o
    <3>1. ASSUME e[b].live, Complete(e[b].name) PROVE e[b].name # n /\ e[b].image # NULL
      BY <3>1, WholeIsFound, ShapesAssumption DEF Whole
    <3> QED
      BY <1>2, <1>6, <2>4, <3>1 DEF Apart
  <2> QED
    BY <2>2, <2>3, <2>4
<1>10. e2[NULL].image = NULL
  BY <1>6, ShapesAssumption DEF Sound
<1> QED
  BY <1>1, <1>3, <1>4, <1>5, <1>6, <1>7, <1>8, <1>9, <1>10 DEF Sound, Typed

LEMMA UnloadSound ==
  ASSUME NEW m, NEW e, NEW t, NEW h, Sound(m, e, t, h), NEW o \in Heap,
         e[o].live, Complete(e[o].name)
  PROVE  Sound(Put(m, e[o].image, FREE), Put(e, o, Dead(e[o])), t, h)
<1>1. PICK r, x : r = e[o].image /\ x = Dead(e[o])
  OBVIOUS
<1>2. Typed(m, e, t, h)
  BY DEF Sound
<1>3. x \in Binaries /\ x.name = GARBAGE /\ x.live = FALSE
  <2>1. PICK y \in Binaries : y = e[o]
    BY <1>2 DEF Typed
  <2>2. Bin(GARBAGE, y.interp, y.image, 0, FALSE, y.clean) \in Binaries
    BY DEF Binaries, Bin
  <2>3. x = Bin(GARBAGE, y.interp, y.image, 0, FALSE, y.clean)
    BY <1>1, <2>1 DEF Dead
  <2>4. x.name = GARBAGE /\ x.live = FALSE
    BY <2>3 DEF Bin
  <2> QED
    BY <2>2, <2>3, <2>4
<1>4. PICK m2, e2 : m2 = Put(m, r, FREE) /\ e2 = Put(e, o, x)
  OBVIOUS
<1>5. m2 \in [Regions -> Uses] /\ \A y \in Regions : y # r => m2[y] = m[y]
  <2>1. FREE \in Uses /\ m \in [Regions -> Uses]
    BY <1>2 DEF Uses, Typed
  <2> QED
    BY <1>4, <2>1 DEF Put
<1>6. /\ e2 \in [Heap \cup {NULL} -> Binaries] /\ e2[o] = x
      /\ \A b \in Heap \cup {NULL} : b # o => e2[b] = e[b]
  <2>1. e \in [Heap \cup {NULL} -> Binaries]
    BY <1>2 DEF Typed
  <2> QED
    BY <1>3, <1>4, <2>1 DEF Put
<1>7. ASSUME NEW b \in Heap, b # o PROVE Block(m2, e2, t, b)
  <2>1. Block(m, e, t, b) /\ Apart(e, o, b)
    BY DEF Sound
  <2>2. e2[b] = e[b]
    BY <1>6, <1>7
  <2>3. e[b].live => e[b].image # r
    BY <1>1, <1>7, <2>1 DEF Apart
  <2>4. e[b].live /\ Whole(m, e, t, b) => Whole(m2, e2, t, b)
    BY <1>5, <2>2, <2>3 DEF Whole
  <2> QED
    BY <2>1, <2>2, <2>4 DEF Block, Wreck
<1>8. Block(m2, e2, t, o)
  BY <1>3, <1>6 DEF Block
<1>9. ASSUME NEW b \in Heap, NEW c \in Heap PROVE Apart(e2, b, c)
  <2>1. Apart(e, b, c)
    BY DEF Sound
  <2> QED
    BY <1>3, <1>6, <2>1 DEF Apart
<1>10. e2[NULL].image = NULL
  BY <1>6, ShapesAssumption DEF Sound
<1> QED
  BY <1>1, <1>2, <1>4, <1>5, <1>6, <1>7, <1>8, <1>9, <1>10 DEF Sound, Typed

-----------------------------------------------------------------------------
(* What is allocated, counted.                                             *)

Held(m, use) == {r \in Regions : m[r] = use}
Num(m, use) == Cardinality(Held(m, use))

LEMMA HeldFinite ==
  ASSUME NEW m, NEW use
  PROVE  IsFiniteSet(Held(m, use)) /\ Num(m, use) \in Nat
<1>1. IsFiniteSet(Held(m, use))
  <2>1. Held(m, use) \subseteq Regions
    BY DEF Held
  <2>2. IsFiniteSet(Regions)
    BY ShapesAssumption
  <2> QED
    BY <2>1, <2>2, FS_Subset
<1> QED
  BY <1>1, FS_CardinalityType DEF Num

\* Nothing is held of the other uses but what was.
Others(m, m2, use) == \A u : u # use /\ u # FREE => Held(m2, u) = Held(m, u)

LEMMA TakeCount ==
  ASSUME NEW m \in [Regions -> Uses], NEW r \in Regions, m[r] = FREE,
         NEW use \in Uses, use # FREE, NEW m2, m2 = Put(m, r, use)
  PROVE  /\ m2 \in [Regions -> Uses] /\ m2[r] = use /\ Others(m, m2, use)
         /\ Held(m2, use) = Held(m, use) \cup {r}
         /\ Num(m2, use) = Num(m, use) + 1 /\ Num(m2, FREE) = Num(m, FREE) - 1
<1>1. m2 \in [Regions -> Uses] /\ m2[r] = use /\ \A x \in Regions : x # r => m2[x] = m[x]
  BY DEF Put
<1>2. /\ Held(m2, use) = Held(m, use) \cup {r} /\ r \notin Held(m, use)
      /\ Held(m2, FREE) = Held(m, FREE) \ {r} /\ r \in Held(m, FREE)
  BY <1>1 DEF Held
<1>3. Num(m2, use) = Num(m, use) + 1
  BY <1>2, HeldFinite, FS_AddElement DEF Num
<1>4. Num(m2, FREE) = Num(m, FREE) - 1
  BY <1>2, HeldFinite, FS_RemoveElement DEF Num
<1>5. Others(m, m2, use)
  BY <1>1 DEF Others, Held
<1> QED
  BY <1>1, <1>2, <1>3, <1>4, <1>5

LEMMA DropCount ==
  ASSUME NEW m \in [Regions -> Uses], NEW r \in Regions,
         NEW use, m[r] = use, use # FREE, NEW m2, m2 = Put(m, r, FREE)
  PROVE  /\ m2 \in [Regions -> Uses] /\ Others(m, m2, use)
         /\ Held(m2, use) = Held(m, use) \ {r}
         /\ Num(m2, use) = Num(m, use) - 1
<1>1. m2 \in [Regions -> Uses] /\ m2[r] = FREE /\ \A x \in Regions : x # r => m2[x] = m[x]
  <2>1. FREE \in Uses
    BY DEF Uses
  <2> QED
    BY <2>1 DEF Put
<1>2. Held(m2, use) = Held(m, use) \ {r} /\ r \in Held(m, use)
  BY <1>1 DEF Held
<1>3. Num(m2, use) = Num(m, use) - 1
  BY <1>2, HeldFinite, FS_RemoveElement DEF Num
<1>4. Others(m, m2, use)
  BY <1>1 DEF Others, Held
<1> QED
  BY <1>1, <1>2, <1>3, <1>4

\* What is allocated stays what it is, and so does every binary.
Grows(m, e, m2, e2) ==
    /\ \A r \in Regions : m[r] # FREE => m2[r] = m[r]
    /\ \A b \in Heap : e[b].live => e2[b] = e[b]

LEMMA GrowsOn ==
  ASSUME NEW m, NEW e, NEW m2, NEW e2, NEW m3, NEW e3,
         Grows(m, e, m2, e2), Grows(m2, e2, m3, e3)
  PROVE  Grows(m, e, m3, e3)
BY DEF Grows

LEMMA TakeGrows ==
  ASSUME NEW m \in [Regions -> Uses], NEW r \in Regions, m[r] = FREE, NEW use,
         NEW e
  PROVE  Grows(m, e, Put(m, r, use), e)
BY DEF Grows, Put

\* A binary that loading n comes to, when it is complete: one that is there
\* already, or a new one, which no program has run in.
Same(m, e, h, m2, e2, h2, o) == e[o].live /\ m2 = m /\ e2 = e /\ h2 = h

New(m, e, h, m2, e2, h2, n, o) ==
    /\ ~e[o].live /\ e2[o].clean
    /\ \A b \in Heap : e[b].live => e[b].name # n
    /\ \A b \in Heap : b # o => e2[b] = e[b]
    /\ Others(m, m2, "image")
    /\ Num(m2, "image") = Num(m, "image") + 1 /\ Num(m2, FREE) = Num(m, FREE) - 1
    /\ h2 = IF Programs[n].interp = NO_INTERP THEN h ELSE h + 1

Gets(m, e, h, m2, e2, t2, h2, n, o) ==
    /\ Sound(m2, e2, t2, h2) /\ Grows(m, e, m2, e2)
    /\ o \in Heap /\ e2[o].live /\ e2[o].name = n
    /\ Same(m, e, h, m2, e2, h2, o) \/ New(m, e, h, m2, e2, h2, n, o)

LEMMA LoadGets ==
  ASSUME NEW m, NEW e, NEW t, NEW h, Sound(m, e, t, h), NEW n \in DOMAIN Programs,
         Complete(n), NEW l, Loads(m, e, t, h, n, l)
  PROVE  \E m2, e2, t2, h2, o :
            /\ l = [k |-> Kern(m2, e2, t2, h2), o |-> o]
            /\ Gets(m, e, h, m2, e2, t2, h2, n, o)
<1>1. CASE Finds(m, e, t, h, n, l)
  <2>1. PICK i \in DOMAIN t : e[t[i]].name = n /\ l = [k |-> Kern(m, e, t, h), o |-> t[i]]
    BY <1>1 DEF Finds
  <2>2. PICK o : o = t[i]
    OBVIOUS
  <2>3. o \in Heap
    BY <2>2 DEF Sound, Typed
  <2>4. e[o].live
    <3>1. Block(m, e, t, o)
      BY <2>3 DEF Sound
    <3> QED
      BY <2>1, <2>2, <3>1, ShapesAssumption DEF Block
  <2>5. Grows(m, e, m, e)
    BY DEF Grows
  <2>6. Gets(m, e, h, m, e, t, h, n, o)
    BY <2>1, <2>2, <2>3, <2>4, <2>5 DEF Gets, Same
  <2> QED
    BY <2>1, <2>2, <2>6
<1>2. ASSUME NEW r, NEW o, Makes(m, e, t, h, n, l, r, o), \A i \in DOMAIN t : e[t[i]].name # n
      PROVE  \E m2, e2, t2, h2, p :
                /\ l = [k |-> Kern(m2, e2, t2, h2), o |-> p]
                /\ Gets(m, e, h, m2, e2, t2, h2, n, p)
  <2>1. r \in Regions /\ m[r] = FREE /\ o \in Heap /\ ~e[o].live
    BY <1>2 DEF Makes
  <2>2. PICK x : x = Image(n, Programs[n].interp, r)
    OBVIOUS
  <2>3. PICK m2, e2, t2 : m2 = Put(m, r, "image") /\ e2 = Put(e, o, x) /\ t2 = Append(t, o)
    OBVIOUS
  <2>4. PICK h2 : h2 = IF Programs[n].interp = NO_INTERP THEN h ELSE h + 1
    OBVIOUS
  <2>5. l = [k |-> Kern(m2, e2, t2, h2), o |-> o]
    BY <1>2, <2>2, <2>3, <2>4 DEF Makes
  <2>6. m \in [Regions -> Uses] /\ e \in [Heap \cup {NULL} -> Binaries] /\ h \in Nat
    BY DEF Sound, Typed
  <2>7. h2 \in Nat
    BY <2>4, <2>6
  <2>8. Sound(m2, e2, t2, h2)
    BY <1>2, <2>1, <2>2, <2>3, <2>7, MakesSound
  <2>9. e2[o] = x /\ \A b \in Heap : b # o => e2[b] = e[b]
    BY <2>1, <2>3, <2>6 DEF Put
  <2>10. x.live /\ x.clean /\ x.name = n
    BY <2>2 DEF Image, Bin
  <2>11. Grows(m, e, m2, e2)
    <3>1. \A y \in Regions : m[y] # FREE => m2[y] = m[y]
      BY <2>1, <2>3, <2>6 DEF Put
    <3> QED
      BY <2>1, <2>9, <3>1 DEF Grows
  <2>12. ASSUME NEW b \in Heap, e[b].live PROVE e[b].name # n
    <3>1. CASE Complete(e[b].name)
      BY <1>2, <2>12, <3>1, WholeIsFound
    <3> QED
      BY <3>1
  <2>13. /\ Others(m, m2, "image")
         /\ Num(m2, "image") = Num(m, "image") + 1 /\ Num(m2, FREE) = Num(m, FREE) - 1
    <3>1. "image" \in Uses /\ "image" # FREE
      BY DEF Uses, FREE
    <3> QED
      BY <2>1, <2>3, <2>6, <3>1, TakeCount
  <2>14. New(m, e, h, m2, e2, h2, n, o)
    BY <2>1, <2>4, <2>9, <2>10, <2>12, <2>13 DEF New
  <2> QED
    BY <2>1, <2>5, <2>8, <2>9, <2>10, <2>11, <2>14 DEF Gets
<1> QED
  BY <1>1, <1>2 DEF Loads, Wrecks

\* Without its interpreter, a program is found as a wreck, or becomes one.
Ruins(m, e, t, h, m2, e2) ==
    /\ Sound(m2, e2, t, h) /\ Grows(m, e, m2, e2)
    /\ \A b \in Heap : e2[b].live /\ Complete(e2[b].name) => e2[b] = e[b]
    /\ Others(m, m2, "image")
    /\ Num(m2, "image") = Num(m, "image") + 1

LEMMA LoadRuins ==
  ASSUME NEW m, NEW e, NEW t, NEW h, Sound(m, e, t, h), NEW n \in DOMAIN Programs,
         ~Complete(n), NEW l, Loads(m, e, t, h, n, l)
  PROVE  \/ \E o \in Heap : /\ l = [k |-> Kern(m, e, t, h), o |-> o]
                            /\ e[o].image = NULL /\ e[o].interp = NO_INTERP
         \/ \E m2, e2 : /\ l = [k |-> Kern(m2, e2, t, h), o |-> NULL]
                        /\ Ruins(m, e, t, h, m2, e2)
<1>1. CASE Finds(m, e, t, h, n, l)
  <2>1. PICK i \in DOMAIN t : e[t[i]].name = n /\ l = [k |-> Kern(m, e, t, h), o |-> t[i]]
    BY <1>1 DEF Finds
  <2>2. PICK o : o = t[i]
    OBVIOUS
  <2>3. o \in Heap
    BY <2>2 DEF Sound, Typed
  <2>4. Block(m, e, t, o)
    BY <2>3 DEF Sound
  <2>5. Wreck(e, o)
    BY <2>1, <2>2, <2>4, ShapesAssumption DEF Block
  <2> QED
    BY <2>1, <2>2, <2>3, <2>5 DEF Wreck
<1>2. ASSUME NEW r, NEW o, Wrecks(m, e, t, h, n, l, r, o)
      PROVE  \E m2, e2 : /\ l = [k |-> Kern(m2, e2, t, h), o |-> NULL]
                         /\ Ruins(m, e, t, h, m2, e2)
  <2>1. r \in Regions /\ m[r] = FREE /\ o \in Heap /\ ~e[o].live
    BY <1>2 DEF Wrecks
  <2>2. PICK m2, e2 : m2 = Put(m, r, "image") /\ e2 = Put(e, o, Wreckage(n))
    OBVIOUS
  <2>3. l = [k |-> Kern(m2, e2, t, h), o |-> NULL]
    BY <1>2, <2>2 DEF Wrecks
  <2>4. m \in [Regions -> Uses] /\ e \in [Heap \cup {NULL} -> Binaries]
    BY DEF Sound, Typed
  <2>5. Sound(m2, e2, t, h)
    BY <2>1, <2>2, WrecksSound
  <2>6. e2[o] = Wreckage(n) /\ \A b \in Heap : b # o => e2[b] = e[b]
    BY <2>1, <2>2, <2>4 DEF Put
  <2>7. Grows(m, e, m2, e2)
    <3>1. \A y \in Regions : m[y] # FREE => m2[y] = m[y]
      BY <2>1, <2>2, <2>4 DEF Put
    <3> QED
      BY <2>1, <2>6, <3>1 DEF Grows
  <2>8. \A b \in Heap : e2[b].live /\ Complete(e2[b].name) => e2[b] = e[b]
    <3>1. Wreckage(n).name = n
      BY DEF Wreckage, Bin
    <3> QED
      BY <2>6, <3>1
  <2>9. Others(m, m2, "image") /\ Num(m2, "image") = Num(m, "image") + 1
    <3>1. "image" \in Uses /\ "image" # FREE
      BY DEF Uses, FREE
    <3> QED
      BY <2>1, <2>2, <2>4, <3>1, TakeCount
  <2> QED
    BY <2>3, <2>5, <2>7, <2>8, <2>9 DEF Ruins
<1> QED
  BY <1>1, <1>2 DEF Loads, Makes

LEMMA ManyFree ==
  ASSUME NEW m, Num(m, FREE) >= 1
  PROVE  FreeRegions(m) # {} /\ (Num(m, FREE) >= 2 => \A r : FreeRegions(m) # {r})
<1>1. Num(m, FREE) = Cardinality(FreeRegions(m))
  BY DEF Num, Held, FreeRegions
<1>2. Cardinality({}) = 0
  BY FS_EmptySet
<1>3. \A r : Cardinality({r}) = 1
  BY FS_Singleton
<1>4. FreeRegions(m) # {}
  BY <1>1, <1>2
<1>5. ASSUME NEW r, Num(m, FREE) >= 2, FreeRegions(m) = {r} PROVE FALSE
  BY <1>1, <1>3, <1>5
<1> QED
  BY <1>4, <1>5

-----------------------------------------------------------------------------
(* Creating a process.                                                     *)

Proc(name, stack, tls, binary, sub, thread, a, clean) ==
    [name |-> name, stack |-> stack, tls |-> tls, Binary |-> binary, SubBinary |-> sub,
     thread |-> thread, arguments |-> a, ProgramBreak |-> 0, clean |-> clean, mine |-> {}]

LEMMA CreateStops ==
  ASSUME NEW k, NEW name, NEW a, NEW first,
         first = LoadElf(VirtualAlloc(k, "stack").k, name), first.o = NULL
  PROVE  CreateProcess(k, name, a) = [k |-> first.k, p |-> <<>>]
BY DEF CreateProcess

LEMMA CreateAlone ==
  ASSUME NEW k, NEW name, NEW a, NEW first, NEW o, NEW tls,
         first = LoadElf(VirtualAlloc(k, "stack").k, name),
         first.o = o, o # NULL, first.k.elf[o].interp = NO_INTERP,
         tls = VirtualAlloc(first.k, "tls")
  PROVE  CreateProcess(k, name, a) =
           [k |-> tls.k, p |-> <<Proc(name, VirtualAlloc(k, "stack").r, tls.r, o, NULL,
                                      StartThread(name), a, first.k.elf[o].clean)>>]
BY DEF CreateProcess, Proc

LEMMA CreateLinked ==
  ASSUME NEW k, NEW name, NEW a, NEW first, NEW s, NEW interp, NEW second, NEW tls,
         first = LoadElf(VirtualAlloc(k, "stack").k, name),
         first.o = s, s # NULL, first.k.elf[s].interp = interp, interp # NO_INTERP,
         second = LoadElfFromHandle(first.k, interp),
         tls = VirtualAlloc(second.k, "tls")
  PROVE  CreateProcess(k, name, a) =
           [k |-> tls.k, p |-> <<Proc(name, VirtualAlloc(k, "stack").r, tls.r, second.o, s,
                                      StartThread(interp), a, second.k.elf[second.o].clean)>>]
BY DEF CreateProcess, Proc

\* What VirtualAlloc leaves.
Takes(m, e, t, h, use, r, m2) ==
    /\ r \in Regions /\ m[r] = FREE /\ m2[r] = use
    /\ AllocsTo(m, e, t, h, use, r) /\ m2 = Put(m, r, use)
    /\ Sound(m2, e, t, h) /\ Grows(m, e, m2, e)
    /\ Others(m, m2, use) /\ Held(m2, use) = Held(m, use) \cup {r}
    /\ Num(m2, use) = Num(m, use) + 1 /\ Num(m2, FREE) = Num(m, FREE) - 1

LEMMA Taken ==
  ASSUME NEW m, NEW e, NEW t, NEW h, Sound(m, e, t, h), Num(m, FREE) >= 1,
         NEW use \in Uses, use # FREE
  PROVE  \E r, m2 : Takes(m, e, t, h, use, r, m2)
<1>1. FreeRegions(m) # {}
  BY ManyFree
<1>2. PICK r \in Regions : m[r] = FREE /\ AllocsTo(m, e, t, h, use, r)
  BY <1>1, AllocIs
<1>3. PICK m2 : m2 = Put(m, r, use)
  OBVIOUS
<1>4. Sound(m2, e, t, h)
  BY <1>2, <1>3, AllocSound
<1>5. m \in [Regions -> Uses]
  BY DEF Sound, Typed
<1>6. Grows(m, e, m2, e)
  BY <1>2, <1>3, <1>5, TakeGrows
<1>7. /\ m2[r] = use /\ Others(m, m2, use) /\ Held(m2, use) = Held(m, use) \cup {r}
      /\ Num(m2, use) = Num(m, use) + 1 /\ Num(m2, FREE) = Num(m, FREE) - 1
  BY <1>2, <1>3, <1>5, TakeCount
<1> QED
  BY <1>2, <1>3, <1>4, <1>6, <1>7 DEF Takes

\* A program's own memory.
Owned(m, e, p) ==
    /\ p.stack \in Regions /\ p.tls \in Regions
    /\ m[p.stack] = "stack" /\ m[p.tls] = "tls"
    /\ p.Binary \in Heap /\ e[p.Binary].live /\ Complete(e[p.Binary].name)
    /\ e[p.Binary].interp = NO_INTERP
    /\ p.SubBinary # NULL => /\ p.SubBinary \in Heap /\ e[p.SubBinary].live
                             /\ e[p.SubBinary].interp # NO_INTERP
    /\ p.mine \subseteq Regions /\ \A r \in p.mine : m[r] = "mmap"

\* The image a program is to run in, o, is new, and its own, sub, may be.
Fills(m, e, h, m2, e2, h2, name, o, sub) ==
    /\ ~e[o].live
    /\ \/ /\ sub = NULL \/ e[sub].live
          /\ Num(m2, "image") = Num(m, "image") + 1 /\ h2 = h
          /\ \A b \in Heap : b # o => e2[b] = e[b]
       \/ /\ sub # NULL /\ \A b \in Heap : e[b].live => e[b].name # name
          /\ Num(m2, "image") = Num(m, "image") + 2 /\ h2 = h + 1
          /\ \A b \in Heap : b # o /\ b # sub => e2[b] = e[b]

\* The binaries of a program.
Links(e, name, o, sub) ==
    /\ o \in Heap /\ e[o].live /\ Complete(e[o].name) /\ e[o].interp = NO_INTERP
    /\ sub # NULL =>
          /\ sub \in Heap /\ e[sub].live /\ e[sub].interp # NO_INTERP /\ e[sub].name = name
          /\ name \in DOMAIN Programs /\ Programs[name].interp \in DOMAIN Programs

\* After the images are loaded, before the thread-local storage.
Readied(m, e, h, m2, e2, t2, h2, name, o, sub) ==
    /\ Sound(m2, e2, t2, h2) /\ Grows(m, e, m2, e2) /\ Others(m, m2, "image")
    /\ Num(m2, FREE) >= 1
    /\ Links(e2, name, o, sub)
    /\ e[o].live \/ (e2[o].clean /\ Fills(m, e, h, m2, e2, h2, name, o, sub))

\* All that is known of a process: what CreateProcess gave it, its break and
\* its mappings.
Bound(p, b, s) ==
    [name |-> p.name, stack |-> p.stack, tls |-> p.tls, Binary |-> p.Binary,
     SubBinary |-> p.SubBinary, thread |-> p.thread, arguments |-> p.arguments,
     ProgramBreak |-> b, clean |-> p.clean, mine |-> s]

IsProcess(p) == p = Bound(p, p.ProgramBreak, p.mine)

Began(m, e, h, m2, e2, t2, h2, name, p) ==
    /\ IsProcess(p) /\ Sound(m2, e2, t2, h2) /\ Grows(m, e, m2, e2) /\ Owned(m2, e2, p)
    /\ Links(e2, name, p.Binary, p.SubBinary)
    /\ Held(m2, "tls") = Held(m, "tls") \cup {p.tls}
    /\ Held(m2, "buffer") = Held(m, "buffer") /\ Num(m2, "stack") = Num(m, "stack") + 1
    /\ \/ e[p.Binary].live
       \/ p.clean /\ Fills(m, e, h, m2, e2, h2, name, p.Binary, p.SubBinary)

\* The stack before, the thread-local storage after.
LEMMA ReadyBegins ==
  ASSUME NEW m, NEW e, NEW t, NEW h, NEW r, NEW m1, Takes(m, e, t, h, "stack", r, m1),
         NEW m2, NEW e2, NEW t2, NEW h2, NEW name, NEW o, NEW sub,
         Readied(m1, e, h, m2, e2, t2, h2, name, o, sub),
         NEW s, NEW m3, Takes(m2, e2, t2, h2, "tls", s, m3),
         NEW thread, NEW a, NEW p, p = Proc(name, r, s, o, sub, thread, a, e2[o].clean)
  PROVE  Began(m, e, h, m3, e2, t2, h2, name, p)
<1>1. /\ p.stack = r /\ p.tls = s /\ p.Binary = o /\ p.SubBinary = sub
      /\ p.clean = e2[o].clean /\ p.mine = {} /\ IsProcess(p)
  BY DEF Proc, IsProcess, Bound
<1>2. Sound(m3, e2, t2, h2) /\ Grows(m, e, m1, e) /\ Grows(m1, e, m2, e2) /\ Grows(m2, e2, m3, e2)
  BY DEF Takes, Readied
<1>3. Grows(m, e, m3, e2)
  <2>1. Grows(m, e, m2, e2)
    BY <1>2, GrowsOn
  <2> QED
    BY <1>2, <2>1, GrowsOn
<1>4. Links(e2, name, o, sub)
  BY DEF Readied
<1>5. Owned(m3, e2, p)
  <2>1. r \in Regions /\ m1[r] = "stack" /\ s \in Regions /\ m3[s] = "tls"
    BY DEF Takes
  <2>2. m3[r] = "stack"
    <3>1. m2[r] = "stack"
      BY <1>2, <2>1 DEF Grows, FREE
    <3> QED
      BY <1>2, <2>1, <3>1 DEF Grows, FREE
  <2> QED
    BY <1>1, <1>4, <2>1, <2>2 DEF Owned, Links
<1>6. /\ Others(m, m1, "stack") /\ Others(m1, m2, "image") /\ Others(m2, m3, "tls")
      /\ Held(m3, "tls") = Held(m2, "tls") \cup {s}
      /\ Num(m1, "stack") = Num(m, "stack") + 1
  BY DEF Takes, Readied
<1>7. Held(m3, "tls") = Held(m, "tls") \cup {s}
  BY <1>6 DEF Others, FREE
<1>8. Held(m3, "buffer") = Held(m, "buffer")
  BY <1>6 DEF Others, FREE
<1>9. Num(m3, "stack") = Num(m, "stack") + 1
  BY <1>6 DEF Others, FREE, Num
<1>10. Num(m3, "image") = Num(m2, "image") /\ Num(m1, "image") = Num(m, "image")
  BY <1>6 DEF Others, FREE, Num
<1>11. ASSUME ~e[o].live PROVE e2[o].clean /\ Fills(m, e, h, m3, e2, h2, name, o, sub)
  <2>1. e2[o].clean /\ Fills(m1, e, h, m2, e2, h2, name, o, sub)
    BY <1>11 DEF Readied
  <2> QED
    BY <1>10, <2>1 DEF Fills
<1> QED
  BY <1>1, <1>2, <1>3, <1>4, <1>5, <1>7, <1>8, <1>9, <1>11 DEF Began

Room2(m, e) ==
    Num(m, FREE) >= 5 /\ FreeBlocks(e) # {} /\ \A b : FreeBlocks(e) # {b}

\* LoadElfFromHandle, of a program that has its interpreter or needs none.
LEMMA HandleGets ==
  ASSUME NEW m, NEW e, NEW t, NEW h, Sound(m, e, t, h), NEW n \in DOMAIN Programs,
         Complete(n), Num(m, FREE) >= 2, FreeBlocks(e) # {}
  PROVE  \E m2, e2, t2, h2, o :
            /\ LoadElfFromHandle(Kern(m, e, t, h), n) = [k |-> Kern(m2, e2, t2, h2), o |-> o]
            /\ Gets(m, e, h, m2, e2, t2, h2, n, o)
<1>1. /\ m \in [Regions -> Uses] /\ e \in [Heap \cup {NULL} -> Binaries]
      /\ t \in Seq(Heap) /\ h \in Nat
  BY DEF Sound, Typed
<1>2. Num(m, FREE) >= 1
  BY HeldFinite
<1>3. FreeRegions(m) # {} /\ \A r \in Regions : FreeRegions(m) # {r}
  BY <1>2, ManyFree
<1>4. PICK l : l = LoadElfFromHandle(Kern(m, e, t, h), n)
  OBVIOUS
<1>5. Loads(m, e, t, h, n, l)
  BY <1>1, <1>3, <1>4, HandleIs
<1> QED
  BY <1>4, <1>5, LoadGets

\* What loading does to the number of free regions, and the other uses.
LEMMA GetsCounts ==
  ASSUME NEW m, NEW e, NEW h, NEW m2, NEW e2, NEW t2, NEW h2, NEW n, NEW o,
         Gets(m, e, h, m2, e2, t2, h2, n, o)
  PROVE  Others(m, m2, "image") /\ Num(m2, FREE) >= Num(m, FREE) - 1
<1>1. CASE Same(m, e, h, m2, e2, h2, o)
  <2>1. m2 = m
    BY <1>1 DEF Same
  <2>2. Num(m, FREE) \in Nat
    BY HeldFinite
  <2> QED
    BY <2>1, <2>2 DEF Others
<1>2. CASE New(m, e, h, m2, e2, h2, n, o)
  <2>1. Num(m, FREE) \in Nat /\ Others(m, m2, "image") /\ Num(m2, FREE) = Num(m, FREE) - 1
    BY <1>2, HeldFinite DEF New
  <2> QED
    BY <2>1
<1> QED
  BY <1>1, <1>2 DEF Gets

\* The interpreter that a loaded program names.
LEMMA InterpIs ==
  ASSUME NEW m, NEW e, NEW t, NEW h, Sound(m, e, t, h), NEW o \in Heap,
         e[o].live, Complete(e[o].name)
  PROVE  e[o].interp = Programs[e[o].name].interp /\ e[o].name \in DOMAIN Programs
BY DEF Sound, Block, Whole

\* A program that needs no interpreter.
LEMMA AloneReady ==
  ASSUME NEW m, NEW e, NEW h, NEW m2, NEW e2, NEW t2, NEW h2, NEW n \in DOMAIN Programs,
         NEW o, Gets(m, e, h, m2, e2, t2, h2, n, o), Num(m, FREE) >= 4,
         Programs[n].interp = NO_INTERP
  PROVE  Readied(m, e, h, m2, e2, t2, h2, n, o, NULL)
<1>1. Sound(m2, e2, t2, h2) /\ Grows(m, e, m2, e2) /\ o \in Heap /\ e2[o].live /\ e2[o].name = n
  BY DEF Gets
<1>2. Others(m, m2, "image") /\ Num(m2, FREE) >= 1
  <2>1. Num(m, FREE) \in Nat /\ Num(m2, FREE) \in Nat
    BY HeldFinite
  <2> QED
    BY <2>1, GetsCounts
<1>3. Links(e2, n, o, NULL)
  <2>1. Complete(e2[o].name)
    BY <1>1 DEF Complete
  <2> QED
    BY <1>1, <2>1, InterpIs DEF Links
<1>4. ASSUME ~e[o].live PROVE e2[o].clean /\ Fills(m, e, h, m2, e2, h2, n, o, NULL)
  <2>1. New(m, e, h, m2, e2, h2, n, o)
    BY <1>4 DEF Gets, Same
  <2> QED
    BY <1>4, <2>1 DEF New, Fills
<1> QED
  BY <1>1, <1>2, <1>3, <1>4 DEF Readied

\* A program and its interpreter.
LEMMA LinkedReady ==
  ASSUME InterpretersStandAlone,
         NEW m, NEW e, NEW h, NEW n \in DOMAIN Programs, Programs[n].interp \in DOMAIN Programs,
         NEW m2, NEW e2, NEW t2, NEW h2, NEW s, Gets(m, e, h, m2, e2, t2, h2, n, s),
         NEW i, i = Programs[n].interp,
         NEW m3, NEW e3, NEW t3, NEW h3, NEW o, Gets(m2, e2, h2, m3, e3, t3, h3, i, o),
         Num(m, FREE) >= 4
  PROVE  Readied(m, e, h, m3, e3, t3, h3, n, o, s)
<1>1. /\ Sound(m2, e2, t2, h2) /\ Grows(m, e, m2, e2) /\ s \in Heap
      /\ e2[s].live /\ e2[s].name = n
  BY DEF Gets
<1>2. /\ Sound(m3, e3, t3, h3) /\ Grows(m2, e2, m3, e3) /\ o \in Heap
      /\ e3[o].live /\ e3[o].name = i
  BY DEF Gets
<1>3. Programs[i].interp = NO_INTERP /\ i # NO_INTERP
  BY ShapesAssumption DEF InterpretersStandAlone
<1>4. Complete(n) /\ Complete(i)
  BY <1>3 DEF Complete
<1>5. e3[s] = e2[s]
  BY <1>1, <1>2 DEF Grows
<1>6. Links(e3, n, o, s)
  <2>1. e3[o].interp = NO_INTERP
    BY <1>2, <1>3, <1>4, InterpIs
  <2>2. e2[s].interp = i
    BY <1>1, <1>4, InterpIs
  <2> QED
    BY <1>1, <1>2, <1>3, <1>4, <1>5, <2>1, <2>2 DEF Links
<1>7. Grows(m, e, m3, e3)
  BY <1>1, <1>2, GrowsOn
<1>8. Others(m, m3, "image") /\ Num(m3, FREE) >= 1
  <2>1. Num(m, FREE) \in Nat /\ Num(m2, FREE) \in Nat /\ Num(m3, FREE) \in Nat
    BY HeldFinite
  <2>2. Others(m, m2, "image") /\ Num(m2, FREE) >= Num(m, FREE) - 1
    BY GetsCounts
  <2>3. Others(m2, m3, "image") /\ Num(m3, FREE) >= Num(m2, FREE) - 1
    BY GetsCounts
  <2>4. Others(m, m3, "image")
    BY <2>2, <2>3 DEF Others
  <2> QED
    BY <2>1, <2>2, <2>3, <2>4
<1>9. s # o
  BY <1>1, <1>2, <1>3, <1>5
<1>10. ASSUME ~e[o].live PROVE e3[o].clean /\ Fills(m, e, h, m3, e3, h3, n, o, s)
  <2>1. ~e2[o].live
    <3>1. CASE Same(m, e, h, m2, e2, h2, s)
      BY <1>10, <3>1 DEF Same
    <3>2. CASE New(m, e, h, m2, e2, h2, n, s)
      BY <1>2, <1>9, <1>10, <3>2 DEF New
    <3> QED
      BY <3>1, <3>2 DEF Gets
  <2>2. New(m2, e2, h2, m3, e3, h3, i, o)
    BY <2>1 DEF Gets, Same
  <2>3. e3[o].clean /\ h3 = h2 /\ Num(m3, "image") = Num(m2, "image") + 1
    BY <1>3, <2>2 DEF New
  <2>4. \A b \in Heap : b # o => e3[b] = e2[b]
    BY <2>2 DEF New
  <2>5. CASE Same(m, e, h, m2, e2, h2, s)
    BY <1>10, <2>3, <2>4, <2>5 DEF Same, Fills
  <2>6. CASE New(m, e, h, m2, e2, h2, n, s)
    <3>1. s # NULL
      BY <1>1, ShapesAssumption
    <3>2. Num(m2, "image") = Num(m, "image") + 1 /\ h2 = h + 1
      BY <1>3, <2>6, ShapesAssumption DEF New
    <3>3. Num(m, "image") \in Nat
      BY HeldFinite
    <3>4. Num(m3, "image") = Num(m, "image") + 2
      BY <2>3, <3>2, <3>3
    <3>5. /\ \A b \in Heap : e[b].live => e[b].name # n
          /\ \A b \in Heap : b # o /\ b # s => e3[b] = e[b]
      BY <2>4, <2>6 DEF New
    <3> QED
      BY <1>10, <2>3, <3>1, <3>2, <3>4, <3>5 DEF Fills
  <2> QED
    BY <2>5, <2>6 DEF Gets
<1> QED
  BY <1>2, <1>6, <1>7, <1>8, <1>10 DEF Readied

\* A program whose interpreter is there, or that needs none, begins.
LEMMA CreateBegins ==
  ASSUME InterpretersStandAlone,
         NEW m, NEW e, NEW t, NEW h, Sound(m, e, t, h), Room2(m, e),
         NEW name \in DOMAIN Programs, Complete(name), NEW a
  PROVE  \E m2, e2, t2, h2, p :
            /\ CreateProcess(Kern(m, e, t, h), name, a) = [k |-> Kern(m2, e2, t2, h2), p |-> <<p>>]
            /\ Began(m, e, h, m2, e2, t2, h2, name, p)
<1>1. Num(m, FREE) \in Nat /\ Num(m, FREE) >= 5
  BY HeldFinite DEF Room2
<1>2. /\ "stack" \in Uses /\ "stack" # FREE /\ "tls" \in Uses /\ "tls" # FREE
  BY DEF Uses, FREE
<1>3. PICK r, m1 : Takes(m, e, t, h, "stack", r, m1)
  BY <1>1, <1>2, Taken
<1>4. Sound(m1, e, t, h) /\ Num(m1, FREE) >= 4 /\ AllocsTo(m, e, t, h, "stack", r)
      /\ m1 = Put(m, r, "stack")
  BY <1>1, <1>3 DEF Takes
<1>5. PICK m2, e2, t2, h2, s :
         /\ LoadElfFromHandle(Kern(m1, e, t, h), name) = [k |-> Kern(m2, e2, t2, h2), o |-> s]
         /\ Gets(m1, e, h, m2, e2, t2, h2, name, s)
  <2>1. Num(m1, FREE) \in Nat
    BY HeldFinite
  <2>2. Num(m1, FREE) >= 2
    BY <1>4, <2>1
  <2> QED
    BY <1>4, <2>2, HandleGets DEF Room2
<1>6. PICK k : k = Kern(m, e, t, h)
  OBVIOUS
<1>7. VirtualAlloc(k, "stack").k = Kern(m1, e, t, h) /\ VirtualAlloc(k, "stack").r = r
  BY <1>4, <1>6 DEF AllocsTo
<1>8. PICK first : first = LoadElf(VirtualAlloc(k, "stack").k, name)
  OBVIOUS
<1>9. first = [k |-> Kern(m2, e2, t2, h2), o |-> s]
  BY <1>5, <1>7, <1>8 DEF LoadElf
<1>10. first.k = Kern(m2, e2, t2, h2) /\ first.o = s /\ first.k.elf = e2
  BY <1>9, KernParts
<1>11. Sound(m2, e2, t2, h2) /\ s \in Heap /\ e2[s].live /\ e2[s].name = name
  BY <1>5 DEF Gets
<1>12. s # NULL
  BY <1>11, ShapesAssumption
<1>13. e2[s].interp = Programs[name].interp
  BY <1>11, InterpIs
<1>14. CASE Programs[name].interp = NO_INTERP
  <2>1. Readied(m1, e, h, m2, e2, t2, h2, name, s, NULL)
    BY <1>4, <1>5, <1>14, AloneReady
  <2>2. PICK y, m3 : Takes(m2, e2, t2, h2, "tls", y, m3)
    BY <1>2, <2>1, Taken DEF Readied
  <2>3. PICK tls : tls = VirtualAlloc(first.k, "tls")
    OBVIOUS
  <2>4. tls.k = Kern(m3, e2, t2, h2) /\ tls.r = y
    BY <1>10, <2>2, <2>3 DEF Takes, AllocsTo
  <2>5. PICK p : p = Proc(name, r, y, s, NULL, StartThread(name), a, e2[s].clean)
    OBVIOUS
  <2>6. CreateProcess(k, name, a) = [k |-> tls.k, p |-> <<Proc(name, VirtualAlloc(k, "stack").r,
                                        tls.r, s, NULL, StartThread(name), a, first.k.elf[s].clean)>>]
    BY <1>8, <1>10, <1>12, <1>13, <1>14, <2>3, CreateAlone
  <2>7. CreateProcess(k, name, a) = [k |-> Kern(m3, e2, t2, h2), p |-> <<p>>]
    BY <1>7, <1>10, <2>4, <2>5, <2>6
  <2>8. Began(m, e, h, m3, e2, t2, h2, name, p)
    BY <1>3, <2>1, <2>2, <2>5, ReadyBegins
  <2> QED
    BY <1>6, <2>7, <2>8
<1>15. CASE Programs[name].interp # NO_INTERP
  <2>1. PICK i : i = Programs[name].interp
    OBVIOUS
  <2>2. i \in DOMAIN Programs /\ i # NO_INTERP
    BY <1>15, <2>1 DEF Complete
  <2>3. Complete(i)
    BY <2>1, <2>2 DEF InterpretersStandAlone, Complete
  <2>4. FreeBlocks(e2) # {}
    <3>1. CASE Same(m1, e, h, m2, e2, h2, s)
      BY <3>1 DEF Same, Room2
    <3>2. CASE New(m1, e, h, m2, e2, h2, name, s)
      <4>1. PICK b \in FreeBlocks(e) : b # s
        BY DEF Room2
      <4>2. e2[b] = e[b]
        BY <3>2, <4>1 DEF New, FreeBlocks
      <4> QED
        BY <4>1, <4>2 DEF FreeBlocks
    <3> QED
      BY <1>5, <3>1, <3>2 DEF Gets
  <2>5. Num(m2, FREE) >= 2
    <3>1. Num(m1, FREE) \in Nat /\ Num(m2, FREE) \in Nat
      BY HeldFinite
    <3>2. Num(m2, FREE) >= Num(m1, FREE) - 1
      BY <1>5, GetsCounts
    <3> QED
      BY <1>4, <3>1, <3>2
  <2>6. PICK m3, e3, t3, h3, o :
           /\ LoadElfFromHandle(Kern(m2, e2, t2, h2), i) = [k |-> Kern(m3, e3, t3, h3), o |-> o]
           /\ Gets(m2, e2, h2, m3, e3, t3, h3, i, o)
    BY <1>11, <2>2, <2>3, <2>4, <2>5, HandleGets
  <2>7. Readied(m1, e, h, m3, e3, t3, h3, name, o, s)
    BY <1>4, <1>5, <2>1, <2>2, <2>6, LinkedReady
  <2>8. PICK y, m4 : Takes(m3, e3, t3, h3, "tls", y, m4)
    BY <1>2, <2>7, Taken DEF Readied
  <2>9. PICK second : second = LoadElfFromHandle(first.k, i)
    OBVIOUS
  <2>10. second = [k |-> Kern(m3, e3, t3, h3), o |-> o]
    BY <1>10, <2>6, <2>9
  <2>11. second.k = Kern(m3, e3, t3, h3) /\ second.o = o /\ second.k.elf = e3
    BY <2>10, KernParts
  <2>12. PICK tls : tls = VirtualAlloc(second.k, "tls")
    OBVIOUS
  <2>13. tls.k = Kern(m4, e3, t3, h3) /\ tls.r = y
    BY <2>8, <2>11, <2>12 DEF Takes, AllocsTo
  <2>14. PICK p : p = Proc(name, r, y, o, s, StartThread(i), a, e3[o].clean)
    OBVIOUS
  <2>15. CreateProcess(k, name, a) = [k |-> tls.k, p |-> <<Proc(name, VirtualAlloc(k, "stack").r,
                     tls.r, second.o, s, StartThread(i), a, second.k.elf[second.o].clean)>>]
    BY <1>8, <1>10, <1>12, <1>13, <2>1, <2>2, <2>9, <2>12, CreateLinked
  <2>16. CreateProcess(k, name, a) = [k |-> Kern(m4, e3, t3, h3), p |-> <<p>>]
    BY <1>7, <2>11, <2>13, <2>14, <2>15
  <2>17. Began(m, e, h, m4, e3, t3, h3, name, p)
    BY <1>3, <2>7, <2>8, <2>14, ReadyBegins
  <2> QED
    BY <1>6, <2>16, <2>17
<1> QED
  BY <1>14, <1>15

\* What is left of a program that could not be loaded.
Failed(m, e, t, h, m2, e2, name) ==
    /\ Sound(m2, e2, t, h) /\ Grows(m, e, m2, e2)
    /\ \A b \in Heap : e2[b].live /\ Complete(e2[b].name) => e2[b] = e[b]
    /\ Held(m2, "tls") = Held(m, "tls") /\ Held(m2, "buffer") = Held(m, "buffer")
    /\ Num(m2, "stack") = Num(m, "stack") + 1
    /\ Num(m2, "image") = Num(m, "image") + (IF name \in DOMAIN Programs THEN 1 ELSE 0)

\* Any other program leaves its stack, or starts at address 0.
LEMMA CreateFails ==
  ASSUME NEW m, NEW e, NEW t, NEW h, Sound(m, e, t, h), Room2(m, e),
         NEW name, name \in DOMAIN Programs => ~Complete(name), NEW a
  PROVE  LET c == CreateProcess(Kern(m, e, t, h), name, a)
         IN  \/ \E p : c.p = <<p>> /\ c.k.elf[p.Binary].image = NULL
             \/ \E m2, e2 : /\ c = [k |-> Kern(m2, e2, t, h), p |-> <<>>]
                            /\ Failed(m, e, t, h, m2, e2, name)
<1>1. Num(m, FREE) \in Nat /\ Num(m, FREE) >= 5
  BY HeldFinite DEF Room2
<1>2. /\ "stack" \in Uses /\ "stack" # FREE /\ "tls" \in Uses /\ "tls" # FREE
  BY DEF Uses, FREE
<1>3. PICK r, m1 : Takes(m, e, t, h, "stack", r, m1)
  BY <1>1, <1>2, Taken
<1>4. Sound(m1, e, t, h) /\ Num(m1, FREE) >= 4 /\ AllocsTo(m, e, t, h, "stack", r)
      /\ m1 = Put(m, r, "stack")
  BY <1>1, <1>3 DEF Takes
<1>5. PICK k, c : k = Kern(m, e, t, h) /\ c = CreateProcess(k, name, a)
  OBVIOUS
<1>6. VirtualAlloc(k, "stack").k = Kern(m1, e, t, h)
  BY <1>4, <1>5 DEF AllocsTo
<1>7. PICK first : first = LoadElf(VirtualAlloc(k, "stack").k, name)
  OBVIOUS
<1>8. CASE name \notin DOMAIN Programs
  <2>1. first.k = Kern(m1, e, t, h) /\ first.o = NULL
    BY <1>6, <1>7, <1>8 DEF LoadElf
  <2>2. c = [k |-> Kern(m1, e, t, h), p |-> <<>>]
    BY <1>5, <1>7, <2>1, CreateStops
  <2>3. Failed(m, e, t, h, m1, e, name)
    <3>1. Num(m1, "image") = Num(m, "image") /\ Num(m, "image") \in Nat
      BY <1>3, HeldFinite DEF Takes, Others, Num, FREE
    <3>2. Held(m1, "tls") = Held(m, "tls") /\ Held(m1, "buffer") = Held(m, "buffer")
      BY <1>3 DEF Takes, Others, FREE
    <3>3. Num(m1, "image") = Num(m, "image") + (IF name \in DOMAIN Programs THEN 1 ELSE 0)
      BY <1>8, <3>1
    <3> QED
      BY <1>3, <3>2, <3>3 DEF Takes, Failed
  <2> QED
    BY <1>5, <2>2, <2>3
<1>9. CASE name \in DOMAIN Programs
  <2>1. /\ m1 \in [Regions -> Uses] /\ e \in [Heap \cup {NULL} -> Binaries]
        /\ t \in Seq(Heap) /\ h \in Nat
    BY <1>4 DEF Sound, Typed
  <2>2. Num(m1, FREE) >= 1 /\ Num(m1, FREE) >= 2
    BY <1>4, HeldFinite
  <2>3. FreeRegions(m1) # {} /\ \A b \in Regions : FreeRegions(m1) # {b}
    BY <2>2, ManyFree
  <2>4. first = LoadElfFromHandle(Kern(m1, e, t, h), name)
    BY <1>6, <1>7, <1>9 DEF LoadElf
  <2>5. Loads(m1, e, t, h, name, first)
    BY <1>9, <2>1, <2>3, <2>4, HandleIs DEF Room2
  <2>6. ASSUME NEW o \in Heap, first = [k |-> Kern(m1, e, t, h), o |-> o],
               e[o].image = NULL, e[o].interp = NO_INTERP
        PROVE  \E p : c.p = <<p>> /\ c.k.elf[p.Binary].image = NULL
    <3>1. first.o = o /\ o # NULL /\ first.k = Kern(m1, e, t, h) /\ first.k.elf = e
      BY <2>6, KernParts, ShapesAssumption
    <3>2. PICK y, m2 : Takes(m1, e, t, h, "tls", y, m2)
      BY <1>2, <1>4, <2>2, Taken
    <3>3. PICK tls : tls = VirtualAlloc(first.k, "tls")
      OBVIOUS
    <3>4. tls.k = Kern(m2, e, t, h)
      BY <3>1, <3>2, <3>3 DEF Takes, AllocsTo
    <3>5. PICK p : p = Proc(name, VirtualAlloc(k, "stack").r, tls.r, o, NULL, StartThread(name), a,
                            first.k.elf[o].clean)
      OBVIOUS
    <3>6. c = [k |-> tls.k, p |-> <<p>>]
      BY <1>5, <1>7, <2>6, <3>1, <3>3, <3>5, CreateAlone
    <3>7. p.Binary = o
      BY <3>5 DEF Proc
    <3>8. c.k.elf = e
      BY <3>4, <3>6, KernParts
    <3> QED
      BY <2>6, <3>6, <3>7, <3>8
  <2>7. ASSUME NEW m2, NEW e2, first = [k |-> Kern(m2, e2, t, h), o |-> NULL],
               Ruins(m1, e, t, h, m2, e2)
        PROVE  /\ c = [k |-> Kern(m2, e2, t, h), p |-> <<>>]
               /\ Failed(m, e, t, h, m2, e2, name)
    <3>1. c = [k |-> Kern(m2, e2, t, h), p |-> <<>>]
      BY <1>5, <1>7, <2>7, CreateStops
    <3>2. Grows(m, e, m2, e2)
      BY <1>3, <2>7, GrowsOn DEF Takes, Ruins
    <3>3. Others(m, m1, "stack") /\ Others(m1, m2, "image")
      BY <1>3, <2>7 DEF Takes, Ruins
    <3>4. Held(m2, "tls") = Held(m, "tls") /\ Held(m2, "buffer") = Held(m, "buffer")
      BY <3>3 DEF Others, FREE
    <3>5. Num(m2, "stack") = Num(m, "stack") + 1
      BY <1>3, <3>3 DEF Takes, Others, Num, FREE
    <3>6. Num(m2, "image") = Num(m, "image") + 1
      BY <2>7, <3>3 DEF Ruins, Others, Num, FREE
    <3> QED
      BY <1>9, <2>7, <3>1, <3>2, <3>4, <3>5, <3>6 DEF Failed, Ruins
  <2>8. ~Complete(name)
    BY <1>9
  <2> QED
    BY <1>4, <1>5, <1>9, <2>5, <2>6, <2>7, <2>8, LoadRuins
<1> QED
  BY <1>8, <1>9

-----------------------------------------------------------------------------
(* What is left of programs that have run.                                 *)

\* What is allocated when n programs have been started and not destroyed.
Tally(m, h, n, kp, fl) ==
    /\ Num(m, "image") = Cardinality(kp) + fl.interp + n
    /\ Num(m, "stack") = fl.load + fl.interp + n
    /\ Held(m, "buffer") = {}
    /\ h = Cardinality(kp)

\* The interpreted programs that have run are loaded, and of the others that
\* have what they need only those in run.
Remembers(e, run, kp, fl) ==
    /\ IsFiniteSet(kp) /\ fl \in [load : Nat, interp : Nat]
    /\ \A n \in kp : /\ n \in DOMAIN Programs /\ Programs[n].interp \in DOMAIN Programs
                     /\ \E b \in Heap : e[b].live /\ e[b].name = n
    /\ \A b \in Heap : e[b].live /\ Complete(e[b].name) /\ b \notin run => e[b].name \in kp

\* A program without an interpreter is loaded only as long as it runs.
LEMMA AloneRuns ==
  ASSUME NEW m, NEW e, NEW t, NEW h, Sound(m, e, t, h), NEW run, NEW kp, NEW fl,
         Remembers(e, run, kp, fl), NEW o \in Heap, e[o].live, Complete(e[o].name),
         e[o].interp = NO_INTERP
  PROVE  o \in run
<1>1. e[o].interp = Programs[e[o].name].interp
  BY InterpIs
<1>2. NO_INTERP \notin DOMAIN Programs
  BY ShapesAssumption
<1> QED
  BY <1>1, <1>2 DEF Remembers

\* A program that fails to load adds its stack, and an image if it was read.
LEMMA FailTally ==
  ASSUME NEW m, NEW e, NEW t, NEW h, NEW n \in Nat, NEW run, NEW kp, NEW fl,
         Tally(m, h, n, kp, fl), Remembers(e, run, kp, fl),
         NEW m2, NEW e2, NEW name, Failed(m, e, t, h, m2, e2, name),
         NEW fl2, fl2 = IF name \in DOMAIN Programs THEN [fl EXCEPT !.interp = @ + 1]
                        ELSE [fl EXCEPT !.load = @ + 1]
  PROVE  Tally(m2, h, n, kp, fl2) /\ Remembers(e2, run, kp, fl2)
<1>1. fl \in [load : Nat, interp : Nat] /\ fl.load \in Nat /\ fl.interp \in Nat
  BY DEF Remembers
<1>2. Cardinality(kp) \in Nat
  BY FS_CardinalityType DEF Remembers
<1>3. fl2 \in [load : Nat, interp : Nat]
  BY <1>1
<1>4. Tally(m2, h, n, kp, fl2)
  <2>1. CASE name \in DOMAIN Programs
    <3>1. fl2.load = fl.load /\ fl2.interp = fl.interp + 1
      BY <1>1, <2>1
    <3>2. Num(m2, "image") = Num(m, "image") + 1 /\ Num(m2, "stack") = Num(m, "stack") + 1
      BY <2>1 DEF Failed
    <3> QED
      BY <1>1, <1>2, <3>1, <3>2 DEF Tally, Failed
  <2>2. CASE name \notin DOMAIN Programs
    <3>1. fl2.load = fl.load + 1 /\ fl2.interp = fl.interp
      BY <1>1, <2>2
    <3>2. Num(m2, "image") = Num(m, "image") /\ Num(m2, "stack") = Num(m, "stack") + 1
      BY <1>1, <1>2, <2>2 DEF Failed, Tally
    <3> QED
      BY <1>1, <1>2, <3>1, <3>2 DEF Tally, Failed
  <2> QED
    BY <2>1, <2>2
<1>5. ASSUME NEW b \in Heap, e2[b].live, Complete(e2[b].name), b \notin run
      PROVE  e2[b].name \in kp
  BY <1>5 DEF Failed, Remembers
<1>6. ASSUME NEW x \in kp PROVE \E b \in Heap : e2[b].live /\ e2[b].name = x
  BY DEF Failed, Grows, Remembers
<1> QED
  BY <1>3, <1>4, <1>5, <1>6 DEF Remembers

\* A program that begins at the shell adds its own, and is remembered if it
\* is interpreted.
LEMMA BeginTally ==
  ASSUME NEW m, NEW e, NEW t, NEW h, Sound(m, e, t, h), NEW kp, NEW fl,
         Tally(m, h, 0, kp, fl), Remembers(e, {}, kp, fl),
         NEW m2, NEW e2, NEW t2, NEW h2, NEW name, NEW p,
         Began(m, e, h, m2, e2, t2, h2, name, p),
         NEW kp2, kp2 = IF p.SubBinary = NULL THEN kp ELSE kp \cup {name}
  PROVE  /\ Tally(m2, h2, 1, kp2, fl) /\ Remembers(e2, {p.Binary}, kp2, fl) /\ p.clean
<1>1. PICK o, sub : o = p.Binary /\ sub = p.SubBinary
  OBVIOUS
<1>2. Grows(m, e, m2, e2) /\ Links(e2, name, o, sub) /\ Sound(m2, e2, t2, h2)
  BY <1>1 DEF Began
<1>3. ~e[o].live
  <2>1. ASSUME e[o].live PROVE FALSE
    <3>1. e2[o] = e[o]
      BY <1>2, <2>1 DEF Grows, Links
    <3> QED
      BY <1>2, <2>1, <3>1, AloneRuns DEF Links
  <2> QED
    BY <2>1
<1>4. p.clean /\ Fills(m, e, h, m2, e2, h2, name, o, sub)
  BY <1>1, <1>3 DEF Began
<1>5. fl \in [load : Nat, interp : Nat] /\ fl.load \in Nat /\ fl.interp \in Nat
  BY DEF Remembers
<1>6. Cardinality(kp) \in Nat /\ IsFiniteSet(kp)
  BY FS_CardinalityType DEF Remembers
<1>7. Num(m2, "stack") = fl.load + fl.interp + 1 /\ Held(m2, "buffer") = {}
  BY <1>5 DEF Began, Tally
<1>8. sub # NULL => /\ sub \in Heap /\ e2[sub].live /\ e2[sub].name = name
                    /\ name \in DOMAIN Programs /\ Programs[name].interp \in DOMAIN Programs
  BY <1>2 DEF Links
<1>9. IsFiniteSet(kp2)
  BY <1>6, FS_AddElement
<1>10. ASSUME NEW x \in kp2
       PROVE  /\ x \in DOMAIN Programs /\ Programs[x].interp \in DOMAIN Programs
              /\ \E b \in Heap : e2[b].live /\ e2[b].name = x
  <2>1. CASE x \in kp
    <3>1. PICK b \in Heap : e[b].live /\ e[b].name = x
      BY <2>1 DEF Remembers
    <3>2. e2[b] = e[b]
      BY <1>2, <3>1 DEF Grows
    <3> QED
      BY <2>1, <3>1, <3>2 DEF Remembers
  <2>2. CASE x \notin kp
    BY <1>1, <1>8, <1>10, <2>2
  <2> QED
    BY <2>1, <2>2
<1>11. CASE /\ sub = NULL \/ e[sub].live
            /\ Num(m2, "image") = Num(m, "image") + 1 /\ h2 = h
            /\ \A b \in Heap : b # o => e2[b] = e[b]
  <2>1. kp2 = kp
    <3>1. CASE sub = NULL
      BY <1>1, <3>1
    <3>2. CASE sub # NULL /\ e[sub].live
      <4>1. e2[sub] = e[sub]
        BY <1>2, <1>8, <3>2 DEF Grows
      <4>2. Complete(name)
        BY <1>8, <3>2 DEF Complete
      <4>3. name \in kp
        BY <1>8, <3>2, <4>1, <4>2 DEF Remembers
      <4> QED
        BY <4>3
    <3> QED
      BY <1>11, <3>1, <3>2
  <2>2. Tally(m2, h2, 1, kp2, fl)
    <3>1. Num(m2, "image") = Num(m, "image") + 1 /\ h2 = h
      BY <1>11
    <3>2. Num(m, "image") = Cardinality(kp) + fl.interp + 0 /\ h = Cardinality(kp)
      BY DEF Tally
    <3>3. Num(m2, "image") = Cardinality(kp) + fl.interp + 1 /\ h2 = Cardinality(kp)
      BY <1>5, <1>6, <3>1, <3>2
    <3> QED
      BY <1>7, <2>1, <3>3 DEF Tally
  <2>3. \A b \in Heap : e2[b].live /\ Complete(e2[b].name) /\ b \notin {o} => e2[b].name \in kp2
    BY <1>11, <2>1 DEF Remembers
  <2> QED
    BY <1>1, <1>4, <1>5, <1>9, <1>10, <2>2, <2>3 DEF Remembers
<1>12. CASE /\ sub # NULL /\ \A b \in Heap : e[b].live => e[b].name # name
            /\ Num(m2, "image") = Num(m, "image") + 2 /\ h2 = h + 1
            /\ \A b \in Heap : b # o /\ b # sub => e2[b] = e[b]
  <2>1. name \notin kp
    BY <1>12 DEF Remembers
  <2>2. kp2 = kp \cup {name}
    BY <1>1, <1>12
  <2>3. Cardinality(kp2) = Cardinality(kp) + 1
    BY <1>6, <2>1, <2>2, FS_AddElement
  <2>4. Tally(m2, h2, 1, kp2, fl)
    BY <1>5, <1>6, <1>7, <1>12, <2>3 DEF Tally
  <2>5. \A b \in Heap : e2[b].live /\ Complete(e2[b].name) /\ b \notin {o} => e2[b].name \in kp2
    BY <1>8, <1>12, <2>2 DEF Remembers
  <2> QED
    BY <1>1, <1>4, <1>5, <1>9, <1>10, <2>4, <2>5 DEF Remembers
<1> QED
  BY <1>4, <1>11, <1>12 DEF Fills

\* Running in them changes nothing of this.
LEMMA UsedKeeps ==
  ASSUME NEW e, NEW e2, SameBut(e, e2)
  PROVE  /\ \A run, kp, fl : Remembers(e, run, kp, fl) => Remembers(e2, run, kp, fl)
         /\ \A m, p : Owned(m, e, p) => Owned(m, e2, p)
<1>1. \A b \in Heap : e2[b].live = e[b].live /\ e2[b].name = e[b].name /\ e2[b].interp = e[b].interp
  BY DEF SameBut
<1>2. ASSUME NEW run, NEW kp, NEW fl, Remembers(e, run, kp, fl) PROVE Remembers(e2, run, kp, fl)
  BY <1>1, <1>2 DEF Remembers
<1>3. ASSUME NEW m, NEW p, Owned(m, e, p) PROVE Owned(m, e2, p)
  BY <1>1, <1>3 DEF Owned
<1> QED
  BY <1>2, <1>3

\* DestroyProcess takes back what the program had.
LEMMA DestroyTally ==
  ASSUME NEW m, NEW e, NEW t, NEW h, Sound(m, e, t, h), NEW kp, NEW fl, NEW p,
         Owned(m, e, p), Tally(m, h, 1, kp, fl), Remembers(e, {p.Binary}, kp, fl),
         Held(m, "tls") = {p.tls}
  PROVE  \E m2, e2 : /\ DestroyProcess(Kern(m, e, t, h), p) = Kern(m2, e2, t, h)
                     /\ Sound(m2, e2, t, h) /\ Held(m2, "tls") = {}
                     /\ Tally(m2, h, 0, kp, fl) /\ Remembers(e2, {}, kp, fl)
<1>1. PICK o, r, s : o = p.Binary /\ r = p.stack /\ s = p.tls
  OBVIOUS
<1>2. /\ r \in Regions /\ m[r] = "stack" /\ s \in Regions /\ m[s] = "tls" /\ o \in Heap
      /\ e[o].live /\ Complete(e[o].name) /\ e[o].interp = NO_INTERP
  BY <1>1 DEF Owned
<1>3. e[o].refs = 1 /\ e[o].image \in Regions /\ m[e[o].image] = "image"
  BY <1>2, WholeIsFound DEF Whole
<1>4. PICK i, x : i = e[o].image /\ x = Dead(e[o])
  OBVIOUS
<1>5. PICK m1 : m1 = Put(m, r, FREE)
  OBVIOUS
<1>6. PICK m2 : m2 = Put(m1, s, FREE)
  OBVIOUS
<1>7. PICK m3, e3 : m3 = Put(m2, i, FREE) /\ e3 = Put(e, o, x)
  OBVIOUS
<1>8. m \in [Regions -> Uses] /\ e \in [Heap \cup {NULL} -> Binaries]
  BY DEF Sound, Typed
<1>9. m1 \in [Regions -> Uses] /\ m1[s] = "tls" /\ m1[i] = "image"
  <2>1. FREE \in Uses
    BY DEF Uses
  <2> QED
    BY <1>2, <1>3, <1>4, <1>5, <1>8, <2>1 DEF Put
<1>10. m2 \in [Regions -> Uses] /\ m2[i] = "image"
  <2>1. FREE \in Uses
    BY DEF Uses
  <2> QED
    BY <1>3, <1>4, <1>6, <1>9, <2>1 DEF Put
<1>11. Sound(m1, e, t, h)
  BY <1>2, <1>5, FreeSound
<1>12. Sound(m2, e, t, h)
  BY <1>2, <1>6, <1>9, <1>11, FreeSound
<1>13. Sound(m3, e3, t, h)
  BY <1>2, <1>4, <1>7, <1>12, UnloadSound
<1>14. DestroyProcess(Kern(m, e, t, h), p) = Kern(m3, e3, t, h)
  <2>1. VirtualFree(Kern(m, e, t, h), r) = Kern(m1, e, t, h)
    BY <1>5, FreeIs
  <2>2. VirtualFree(Kern(m1, e, t, h), s) = Kern(m2, e, t, h)
    BY <1>6, FreeIs
  <2>3. UnloadElf(Kern(m2, e, t, h), o) = Kern(m3, e3, t, h)
    BY <1>2, <1>3, <1>4, <1>7, <1>8, UnloadIs
  <2> QED
    BY <1>1, <2>1, <2>2, <2>3 DEF DestroyProcess
<1>15. "stack" # FREE /\ "tls" # FREE /\ "image" # FREE
  BY DEF FREE
<1>16. Others(m, m1, "stack") /\ Num(m1, "stack") = Num(m, "stack") - 1
  BY <1>2, <1>5, <1>8, <1>15, DropCount
<1>17. Others(m1, m2, "tls") /\ Held(m2, "tls") = Held(m1, "tls") \ {s}
  BY <1>2, <1>6, <1>9, <1>15, DropCount
<1>18. Others(m2, m3, "image") /\ Num(m3, "image") = Num(m2, "image") - 1
  BY <1>3, <1>4, <1>7, <1>10, <1>15, DropCount
<1>19. Held(m3, "tls") = {}
  <2>1. Held(m1, "tls") = {s} /\ Held(m3, "tls") = Held(m2, "tls")
    BY <1>1, <1>15, <1>16, <1>18 DEF Others
  <2> QED
    BY <1>17, <2>1
<1>20. Held(m3, "buffer") = {}
  <2>1. "buffer" # FREE
    BY DEF FREE
  <2> QED
    BY <1>16, <1>17, <1>18, <2>1 DEF Others, Tally
<1>21. Tally(m3, h, 0, kp, fl)
  <2>1. Cardinality(kp) \in Nat /\ fl.load \in Nat /\ fl.interp \in Nat
    BY FS_CardinalityType DEF Remembers
  <2>2. Num(m3, "stack") = Num(m, "stack") - 1
    BY <1>15, <1>16, <1>17, <1>18 DEF Others, Num
  <2>3. Num(m3, "image") = Num(m, "image") - 1
    BY <1>15, <1>16, <1>17, <1>18 DEF Others, Num
  <2>4. /\ Num(m, "image") = Cardinality(kp) + fl.interp + 1
        /\ Num(m, "stack") = fl.load + fl.interp + 1 /\ h = Cardinality(kp)
    BY DEF Tally
  <2> QED
    BY <1>20, <2>1, <2>2, <2>3, <2>4 DEF Tally
<1>22. x.live = FALSE
  BY <1>4 DEF Dead, Bin
<1>23. e3[o] = x /\ \A b \in Heap : b # o => e3[b] = e[b]
  BY <1>2, <1>7, <1>8 DEF Put
<1>24. ASSUME NEW n \in kp PROVE \E b \in Heap : e3[b].live /\ e3[b].name = n
  <2>1. PICK b \in Heap : e[b].live /\ e[b].name = n
    BY DEF Remembers
  <2>2. Programs[n].interp # NO_INTERP
    BY ShapesAssumption DEF Remembers
  <2>3. b # o
    BY <1>2, <2>1, <2>2, InterpIs
  <2> QED
    BY <1>23, <2>1, <2>3
<1>25. ASSUME NEW b \in Heap, e3[b].live, Complete(e3[b].name) PROVE e3[b].name \in kp
  <2>1. b # o
    BY <1>22, <1>23, <1>25
  <2> QED
    BY <1>1, <1>23, <1>25, <2>1 DEF Remembers
<1>26. Remembers(e3, {}, kp, fl)
  BY <1>24, <1>25 DEF Remembers
<1> QED
  BY <1>13, <1>14, <1>19, <1>21, <1>26

-----------------------------------------------------------------------------
(* The invariant.                                                          *)

KernelInv(k) ==
    /\ k = Kern(k.memory, k.elf, k.table, k.handles)
    /\ Sound(k.memory, k.elf, k.table, k.handles)

ShellInv ==
    /\ procs = <<>>
    /\ Tally(kernel.memory, kernel.handles, 0, kept, failed)
    /\ Remembers(kernel.elf, {}, kept, failed)
    /\ Held(kernel.memory, "tls") = {}

\* A program from the shell.
FirstRuns(p) ==
    /\ procs = <<p>> /\ current = 1
    /\ IsProcess(p) /\ Owned(kernel.memory, kernel.elf, p) /\ p.clean
    /\ Tally(kernel.memory, kernel.handles, 1, kept, failed)
    /\ Remembers(kernel.elf, {p.Binary}, kept, failed)
    /\ Held(kernel.memory, "tls") = {p.tls}

\* One that it has started in its turn.
SecondRuns(p, q) ==
    /\ procs = <<p, q>> /\ current = 2
    /\ IsProcess(q) /\ Owned(kernel.memory, kernel.elf, q)
    /\ p.clean /\ (q.clean \/ q.Binary = p.Binary)

ProcessInv ==
    /\ mode \in {"shell", "user"} => KernelInv(kernel)
    /\ mode = "shell" => ShellInv
    /\ mode = "user" => \/ \E p : FirstRuns(p)
                        \/ \E p, q : SecondRuns(p, q)

LEMMA KernInv ==
  ASSUME NEW m, NEW e, NEW t, NEW h, Sound(m, e, t, h), NEW k, k = Kern(m, e, t, h)
  PROVE  KernelInv(k) /\ k.memory = m /\ k.elf = e /\ k.table = t /\ k.handles = h
BY KernParts DEF KernelInv

\* The program has begun and may change its images.
LEMMA UsedIs ==
  ASSUME NEW m, NEW e \in [Heap \cup {NULL} -> Binaries], NEW t, NEW h, NEW p
  PROVE  \E e2 \in [Heap \cup {NULL} -> Binaries] :
            SameBut(e, e2) /\ Used(Kern(m, e, t, h), p) = Kern(m, e2, t, h)
<1>1. PICK e2 : e2 = [b \in DOMAIN e |-> IF b \in {p.Binary, p.SubBinary}
                                        THEN [e[b] EXCEPT !.clean = FALSE] ELSE e[b]]
  OBVIOUS
<1>2. ASSUME NEW x \in Binaries, NEW y, y = [x EXCEPT !.clean = FALSE]
      PROVE  /\ y \in Binaries /\ y.name = x.name /\ y.interp = x.interp
             /\ y.image = x.image /\ y.refs = x.refs /\ y.live = x.live
  BY <1>2 DEF Binaries
<1>3. e2 \in [Heap \cup {NULL} -> Binaries]
  BY <1>1, <1>2
<1>4. SameBut(e, e2)
  BY <1>1, <1>2 DEF SameBut
<1>5. PICK k : k = Kern(m, e, t, h)
  OBVIOUS
<1>6. k.elf = e
  BY <1>5, KernParts
<1>7. Used(k, p) = [k EXCEPT !.elf = e2]
  BY <1>1, <1>6 DEF Used
<1>8. [k EXCEPT !.elf = e2] = Kern(m, e2, t, h)
  BY <1>5 DEF Kern
<1> QED
  BY <1>3, <1>4, <1>5, <1>7, <1>8

\* RunProgram ends in a failure, in the end of the model, or in the program.
RunFails(m, e, t, h, name, m2, e2) ==
    /\ kernel' = Kern(m2, e2, t, h) /\ Failed(m, e, t, h, m2, e2, name)
    /\ failed' = IF name \in DOMAIN Programs THEN [failed EXCEPT !.interp = @ + 1]
                 ELSE [failed EXCEPT !.load = @ + 1]
    /\ procs' = procs /\ UNCHANGED <<current, mode, kept>>

RunBegins(m, e, t, h, name, m2, e2, t2, h2, e3, p) ==
    /\ Began(m, e, h, m2, e2, t2, h2, name, p)
    /\ SameBut(e2, e3) /\ Sound(m2, e3, t2, h2) /\ kernel' = Kern(m2, e3, t2, h2)
    /\ kept' = IF p.SubBinary = NULL THEN kept ELSE kept \cup {name}
    /\ procs' = procs \o <<p>> /\ current' = Len(procs) + 1
    /\ mode' # "shell" /\ UNCHANGED failed

LEMMA RunIs ==
  ASSUME InterpretersStandAlone,
         NEW m, NEW e, NEW t, NEW h, kernel = Kern(m, e, t, h), Sound(m, e, t, h),
         NEW name, NEW a, RunProgram(name, a)
  PROVE  \/ \E m2, e2 : RunFails(m, e, t, h, name, m2, e2)
         \/ mode' \notin {"shell", "user"}
         \/ \E m2, e2, t2, h2, e3, p : RunBegins(m, e, t, h, name, m2, e2, t2, h2, e3, p)
<1>1. PICK made : made = CreateProcess(kernel, name, a)
  OBVIOUS
<1>2. Room2(m, e)
  <2>1. kernel.memory = m /\ kernel.elf = e
    BY KernParts
  <2>2. Cardinality(Held(m, FREE)) >= 5 /\ Cardinality(FreeBlocks(e)) >= 2
    BY <2>1 DEF RunProgram, Held, FreeBlocks
  <2>3. Cardinality({}) = 0 /\ \A b : Cardinality({b}) = 1
    BY FS_EmptySet, FS_Singleton
  <2>4. FreeBlocks(e) # {} /\ \A b : FreeBlocks(e) # {b}
    <3>1. PICK n, s : n = Cardinality(FreeBlocks(e)) /\ s = FreeBlocks(e)
      OBVIOUS
    <3>2. n >= 2 /\ n = Cardinality(s)
      BY <2>2, <3>1
    <3>3. s # {}
      BY <2>3, <3>2
    <3>4. ASSUME NEW b, s = {b} PROVE FALSE
      <4>1. n = 1
        BY <2>3, <3>2, <3>4
      <4> QED
        BY <3>2, <4>1
    <3> QED
      BY <3>1, <3>3, <3>4
  <2> QED
    BY <2>2, <2>4 DEF Room2, Num
<1>3. CASE name \in DOMAIN Programs /\ Complete(name)
  <2>1. PICK m2, e2, t2, h2, p :
           /\ made = [k |-> Kern(m2, e2, t2, h2), p |-> <<p>>]
           /\ Began(m, e, h, m2, e2, t2, h2, name, p)
    <3>1. PICK m2, e2, t2, h2, p :
             /\ CreateProcess(Kern(m, e, t, h), name, a) = [k |-> Kern(m2, e2, t2, h2), p |-> <<p>>]
             /\ Began(m, e, h, m2, e2, t2, h2, name, p)
      BY <1>2, <1>3, CreateBegins
    <3>2. made = [k |-> Kern(m2, e2, t2, h2), p |-> <<p>>]
      BY <1>1, <3>1
    <3> QED
      BY <3>1, <3>2
  <2>2. made.p # <<>> /\ made.p[1] = p /\ made.k = Kern(m2, e2, t2, h2)
    BY <2>1
  <2>3. e2 \in [Heap \cup {NULL} -> Binaries] /\ Sound(m2, e2, t2, h2)
    BY <2>1 DEF Began, Sound, Typed
  <2>4. PICK e3 \in [Heap \cup {NULL} -> Binaries] :
           SameBut(e2, e3) /\ Used(Kern(m2, e2, t2, h2), p) = Kern(m2, e3, t2, h2)
    BY <2>3, UsedIs
  <2>5. Sound(m2, e3, t2, h2)
    BY <2>3, <2>4, UsedSound
  <2>6. kernel' = Kern(m2, e3, t2, h2)
    BY <1>1, <2>2, <2>4 DEF RunProgram
  <2>7. /\ kept' = IF p.SubBinary = NULL THEN kept ELSE kept \cup {name}
        /\ procs' = procs \o <<p>> /\ current' = Len(procs) + 1
        /\ mode' # "shell" /\ UNCHANGED failed
    <3>1. made.p = <<p>>
      BY <2>1
    <3>2. mode' \in Outcomes(made.k, p)
      BY <1>1, <2>2 DEF RunProgram
    <3>3. mode' # "shell"
      BY <3>2 DEF Outcomes
    <3> QED
      BY <1>1, <2>2, <3>1, <3>3 DEF RunProgram
  <2> QED
    BY <2>1, <2>4, <2>5, <2>6, <2>7 DEF RunBegins
<1>4. CASE ~(name \in DOMAIN Programs /\ Complete(name))
  <2>1. \/ \E p : made.p = <<p>> /\ made.k.elf[p.Binary].image = NULL
        \/ \E m2, e2 : /\ made = [k |-> Kern(m2, e2, t, h), p |-> <<>>]
                       /\ Failed(m, e, t, h, m2, e2, name)
    BY <1>1, <1>2, <1>4, CreateFails
  <2>2. ASSUME NEW p, made.p = <<p>>, made.k.elf[p.Binary].image = NULL
        PROVE  mode' \notin {"shell", "user"}
    <3>1. made.p # <<>> /\ made.p[1] = p
      BY <2>2
    <3>2. mode' \in Outcomes(made.k, p)
      BY <1>1, <3>1 DEF RunProgram
    <3> QED
      BY <2>2, <3>2 DEF Outcomes
  <2>3. ASSUME NEW m2, NEW e2, made = [k |-> Kern(m2, e2, t, h), p |-> <<>>],
               Failed(m, e, t, h, m2, e2, name)
        PROVE  RunFails(m, e, t, h, name, m2, e2) \/ mode' \notin {"shell", "user"}
    <3>1. made.p = <<>> /\ made.k = Kern(m2, e2, t, h)
      BY <2>3
    <3>2. procs' = procs \o <<>> /\ kernel' = Kern(m2, e2, t, h)
      BY <1>1, <3>1 DEF RunProgram
    <3>3. /\ failed' = IF name \in DOMAIN Programs THEN [failed EXCEPT !.interp = @ + 1]
                       ELSE [failed EXCEPT !.load = @ + 1]
          /\ UNCHANGED <<current, mode, kept>>
      BY <1>1, <3>1 DEF RunProgram
    <3> QED
      BY <2>3, <3>2, <3>3 DEF RunFails
  <2> QED
    BY <2>1, <2>2, <2>3
<1> QED
  BY <1>3, <1>4

LEMMA OwnedGrows ==
  ASSUME NEW m, NEW e, NEW m2, NEW e2, Grows(m, e, m2, e2), NEW p, Owned(m, e, p)
  PROVE  Owned(m2, e2, p)
<1>1. /\ "stack" # FREE /\ "tls" # FREE /\ "mmap" # FREE
  BY DEF FREE
<1>2. m2[p.stack] = "stack" /\ m2[p.tls] = "tls" /\ \A r \in p.mine : m2[r] = "mmap"
  BY <1>1 DEF Owned, Grows
<1>3. e2[p.Binary] = e[p.Binary] /\ (p.SubBinary # NULL => e2[p.SubBinary] = e[p.SubBinary])
  BY DEF Owned, Grows
<1> QED
  BY <1>2, <1>3 DEF Owned

LEMMA JoinOne ==
  ASSUME NEW p, NEW q
  PROVE  /\ <<>> \o <<p>> = <<p>> /\ <<p>> \o <<q>> = <<p, q>>
         /\ <<p>> # <<>> /\ <<p, q>> # <<>>
         /\ Len(<<>>) = 0 /\ Len(<<p>>) = 1 /\ Len(<<p, q>>) = 2
<1>1. <<>> \o <<p>> = <<p>> /\ <<p>> # <<>> /\ <<p, q>> # <<>>
  OBVIOUS
<1>2. <<p>> \o <<q>> = <<p, q>>
  <2>1. PICK S : S = {p, q}
    OBVIOUS
  <2>2. <<p>> \in Seq(S) /\ <<q>> \in Seq(S) /\ <<p, q>> \in Seq(S)
    BY <2>1
  <2>3. Len(<<p>>) = 1 /\ Len(<<q>>) = 1 /\ <<p>>[1] = p /\ <<q>>[1] = q
    OBVIOUS
  <2>4. PICK a, b, c : a = <<p>> /\ b = <<q>> /\ c = a \o b
    OBVIOUS
  <2>5. a \in Seq(S) /\ b \in Seq(S) /\ Len(a) = 1 /\ Len(b) = 1 /\ a[1] = p /\ b[1] = q
    BY <2>2, <2>3, <2>4, Zenon
  <2>6. c \in Seq(S) /\ Len(c) = 2 /\ c[1] = p /\ c[2] = q
    BY <2>4, <2>5, ConcatProperties
  <2>7. PICK w : w = <<p, q>>
    OBVIOUS
  <2>8. w \in Seq(S) /\ Len(w) = 2 /\ w[1] = p /\ w[2] = q
    BY <2>2, <2>7
  <2>9. c = w
    BY <2>6, <2>8, SeqEqual
  <2> QED
    BY <2>4, <2>7, <2>9
<1>3. Len(<<>>) = 0 /\ Len(<<p>>) = 1 /\ Len(<<p, q>>) = 2
  OBVIOUS
<1> QED
  BY <1>1, <1>2, <1>3

LEMMA BeganOwned ==
  ASSUME NEW m, NEW e, NEW t, NEW h, NEW name, NEW m2, NEW e2, NEW t2, NEW h2, NEW e3, NEW p,
         RunBegins(m, e, t, h, name, m2, e2, t2, h2, e3, p)
  PROVE  /\ Owned(m2, e3, p) /\ IsProcess(p) /\ KernelInv(kernel')
         /\ kernel'.memory = m2 /\ kernel'.elf = e3 /\ kernel'.handles = h2
<1>1. Owned(m2, e2, p) /\ SameBut(e2, e3) /\ IsProcess(p)
  BY DEF RunBegins, Began
<1>2. Owned(m2, e3, p)
  BY <1>1, UsedKeeps
<1>3. Sound(m2, e3, t2, h2) /\ kernel' = Kern(m2, e3, t2, h2)
  BY DEF RunBegins
<1> QED
  BY <1>1, <1>2, <1>3, KernInv

LEMMA ShellStep ==
  ASSUME InterpretersStandAlone, ProcessInv, Shell
  PROVE  ProcessInv'
<1>1. PICK name, a : RunProgram(name, a)
  BY DEF Shell
<1>2. mode = "shell" /\ ShellInv /\ KernelInv(kernel)
  BY DEF Shell, ProcessInv
<1>3. PICK m, e, t, h : /\ kernel = Kern(m, e, t, h) /\ Sound(m, e, t, h)
                        /\ kernel.memory = m /\ kernel.elf = e /\ kernel.handles = h
  BY <1>2 DEF KernelInv
<1>4. Tally(m, h, 0, kept, failed) /\ Remembers(e, {}, kept, failed) /\ Held(m, "tls") = {}
      /\ procs = <<>>
  BY <1>2, <1>3 DEF ShellInv
<1>5. ASSUME NEW m2, NEW e2, RunFails(m, e, t, h, name, m2, e2) PROVE ProcessInv'
  <2>1. Sound(m2, e2, t, h) /\ kernel' = Kern(m2, e2, t, h) /\ Failed(m, e, t, h, m2, e2, name)
    BY <1>5 DEF RunFails, Failed
  <2>2. KernelInv(kernel)' /\ kernel'.memory = m2 /\ kernel'.elf = e2 /\ kernel'.handles = h
    BY <2>1, KernInv DEF KernelInv
  <2>3. Tally(m2, h, 0, kept, failed') /\ Remembers(e2, {}, kept, failed')
    BY <1>4, <1>5, <2>1, FailTally DEF RunFails
  <2>4. Held(m2, "tls") = {}
    BY <1>4, <2>1 DEF Failed
  <2>5. procs' = <<>> /\ kept' = kept /\ mode' = "shell"
    BY <1>2, <1>4, <1>5 DEF RunFails
  <2>6. ShellInv'
    BY <2>2, <2>3, <2>4, <2>5 DEF ShellInv
  <2> QED
    BY <2>2, <2>5, <2>6 DEF ProcessInv
<1>6. ASSUME NEW m2, NEW e2, NEW t2, NEW h2, NEW e3, NEW p,
             RunBegins(m, e, t, h, name, m2, e2, t2, h2, e3, p)
      PROVE  ProcessInv'
  <2>1. /\ Owned(m2, e3, p) /\ IsProcess(p) /\ KernelInv(kernel')
        /\ kernel'.memory = m2 /\ kernel'.elf = e3 /\ kernel'.handles = h2
    BY <1>6, BeganOwned
  <2>2. Began(m, e, h, m2, e2, t2, h2, name, p) /\ SameBut(e2, e3)
        /\ kept' = IF p.SubBinary = NULL THEN kept ELSE kept \cup {name}
    BY <1>6 DEF RunBegins
  <2>3. /\ Tally(m2, h2, 1, kept', failed) /\ Remembers(e2, {p.Binary}, kept', failed)
        /\ p.clean
    BY <1>3, <1>4, <2>2, BeginTally
  <2>4. Remembers(e3, {p.Binary}, kept', failed)
    BY <2>2, <2>3, UsedKeeps
  <2>5. Held(m2, "tls") = {p.tls}
    BY <1>4, <2>2 DEF Began
  <2>6. procs' = <<p>> /\ current' = 1 /\ mode' # "shell" /\ failed' = failed
    <3>1. procs' = <<>> \o <<p>> /\ current' = Len(<<>>) + 1
      BY <1>4, <1>6 DEF RunBegins
    <3>2. Len(<<>>) = 0
      BY JoinOne
    <3>3. mode' # "shell" /\ failed' = failed
      BY <1>6 DEF RunBegins
    <3> QED
      BY <3>1, <3>2, <3>3, JoinOne
  <2>7. FirstRuns(p)'
    BY <2>1, <2>3, <2>4, <2>5, <2>6 DEF FirstRuns
  <2> QED
    BY <2>1, <2>6, <2>7 DEF ProcessInv
<1>7. CASE mode' \notin {"shell", "user"}
  BY <1>7 DEF ProcessInv
<1> QED
  BY <1>1, <1>3, <1>5, <1>6, <1>7, RunIs

LEMMA ExecveStep ==
  ASSUME InterpretersStandAlone, ProcessInv, sys_execve
  PROVE  ProcessInv'
<1>1. PICK name, a : RunProgram(name, a)
  BY DEF sys_execve
<1>2. mode = "user" /\ KernelInv(kernel) /\ Len(procs) = 1
  BY DEF sys_execve, ProcessInv
<1>3. PICK p : FirstRuns(p)
  <2>1. ASSUME NEW p, NEW q, SecondRuns(p, q) PROVE FALSE
    BY <1>2, <2>1, JoinOne DEF SecondRuns
  <2> QED
    BY <1>2, <2>1 DEF ProcessInv
<1>4. PICK m, e, t, h : /\ kernel = Kern(m, e, t, h) /\ Sound(m, e, t, h)
                        /\ kernel.memory = m /\ kernel.elf = e /\ kernel.handles = h
  BY <1>2 DEF KernelInv
<1>5. /\ Tally(m, h, 1, kept, failed) /\ Remembers(e, {p.Binary}, kept, failed)
      /\ Held(m, "tls") = {p.tls} /\ procs = <<p>> /\ current = 1 /\ p.clean
      /\ Owned(m, e, p) /\ IsProcess(p)
  BY <1>3, <1>4 DEF FirstRuns
<1>6. ASSUME NEW m2, NEW e2, RunFails(m, e, t, h, name, m2, e2) PROVE ProcessInv'
  <2>1. Sound(m2, e2, t, h) /\ kernel' = Kern(m2, e2, t, h) /\ Failed(m, e, t, h, m2, e2, name)
    BY <1>6 DEF RunFails, Failed
  <2>2. KernelInv(kernel)' /\ kernel'.memory = m2 /\ kernel'.elf = e2 /\ kernel'.handles = h
    BY <2>1, KernInv DEF KernelInv
  <2>3. Tally(m2, h, 1, kept, failed') /\ Remembers(e2, {p.Binary}, kept, failed')
    <3>1. PICK n : n = 1
      OBVIOUS
    <3>2. PICK run : run = {p.Binary}
      OBVIOUS
    <3>3. n \in Nat
      BY <3>1
    <3>4. Tally(m, h, n, kept, failed) /\ Remembers(e, run, kept, failed)
      BY <1>5, <3>1, <3>2
    <3>5. Tally(m2, h, n, kept, failed') /\ Remembers(e2, run, kept, failed')
      BY <1>6, <2>1, <3>3, <3>4, FailTally DEF RunFails
    <3> QED
      BY <3>1, <3>2, <3>5
  <2>4. Held(m2, "tls") = {p.tls} /\ Grows(m, e, m2, e2)
    BY <1>5, <2>1 DEF Failed
  <2>5. Owned(m2, e2, p)
    BY <1>5, <2>4, OwnedGrows
  <2>6. procs' = <<p>> /\ current' = 1 /\ kept' = kept /\ mode' = "user"
    BY <1>2, <1>5, <1>6 DEF RunFails
  <2>7. FirstRuns(p)'
    BY <1>5, <2>2, <2>3, <2>4, <2>5, <2>6 DEF FirstRuns
  <2> QED
    BY <2>2, <2>6, <2>7 DEF ProcessInv
<1>7. ASSUME NEW m2, NEW e2, NEW t2, NEW h2, NEW e3, NEW q,
             RunBegins(m, e, t, h, name, m2, e2, t2, h2, e3, q)
      PROVE  ProcessInv'
  <2>1. /\ Owned(m2, e3, q) /\ IsProcess(q) /\ KernelInv(kernel')
        /\ kernel'.memory = m2 /\ kernel'.elf = e3 /\ kernel'.handles = h2
    BY <1>7, BeganOwned
  <2>2. Began(m, e, h, m2, e2, t2, h2, name, q)
    BY <1>7 DEF RunBegins
  <2>3. q.clean \/ q.Binary = p.Binary
    <3>1. CASE e[q.Binary].live
      <4>1. Grows(m, e, m2, e2) /\ Links(e2, name, q.Binary, q.SubBinary)
        BY <2>2 DEF Began
      <4>2. e2[q.Binary] = e[q.Binary]
        BY <3>1, <4>1 DEF Grows, Links
      <4>3. q.Binary \in {p.Binary}
        BY <1>4, <1>5, <3>1, <4>1, <4>2, AloneRuns DEF Links
      <4> QED
        BY <4>3
    <3> QED
      BY <2>2, <3>1 DEF Began
  <2>4. procs' = <<p, q>> /\ current' = 2 /\ mode' # "shell"
    <3>1. procs' = <<p>> \o <<q>> /\ current' = Len(<<p>>) + 1 /\ mode' # "shell"
      BY <1>5, <1>7 DEF RunBegins
    <3>2. Len(<<p>>) = 1
      BY JoinOne
    <3> QED
      BY <3>1, <3>2, JoinOne
  <2>5. SecondRuns(p, q)'
    BY <1>5, <2>1, <2>3, <2>4 DEF SecondRuns
  <2> QED
    BY <2>1, <2>4, <2>5 DEF ProcessInv
<1>8. CASE mode' \notin {"shell", "user"}
  BY <1>8 DEF ProcessInv
<1> QED
  BY <1>1, <1>4, <1>6, <1>7, <1>8, RunIs

LEMMA ExitStep ==
  ASSUME ProcessInv, sys_exit
  PROVE  ProcessInv'
<1>1. mode = "user" /\ KernelInv(kernel)
  BY DEF sys_exit, ProcessInv
<1>2. CASE mode' = "lost"
  BY <1>2 DEF ProcessInv
<1>3. CASE Len(procs) = 1
  <2>1. PICK p : FirstRuns(p)
    <3>1. ASSUME NEW p, NEW q, SecondRuns(p, q) PROVE FALSE
      BY <1>3, <3>1, JoinOne DEF SecondRuns
    <3> QED
      BY <1>1, <3>1 DEF ProcessInv
  <2>2. PICK m, e, t, h : /\ kernel = Kern(m, e, t, h) /\ Sound(m, e, t, h)
                          /\ kernel.memory = m /\ kernel.elf = e /\ kernel.handles = h
    BY <1>1 DEF KernelInv
  <2>3. /\ Tally(m, h, 1, kept, failed) /\ Remembers(e, {p.Binary}, kept, failed)
        /\ Held(m, "tls") = {p.tls} /\ procs = <<p>> /\ current = 1 /\ Owned(m, e, p)
    BY <2>1, <2>2 DEF FirstRuns
  <2>4. PICK m2, e2 : /\ DestroyProcess(Kern(m, e, t, h), p) = Kern(m2, e2, t, h)
                      /\ Sound(m2, e2, t, h) /\ Held(m2, "tls") = {}
                      /\ Tally(m2, h, 0, kept, failed) /\ Remembers(e2, {}, kept, failed)
    BY <2>2, <2>3, DestroyTally
  <2>5. Running = p
    BY <2>3 DEF Running
  <2>6. kernel' = Kern(m2, e2, t, h)
    BY <1>3, <2>2, <2>4, <2>5 DEF sys_exit
  <2>7. KernelInv(kernel)' /\ kernel'.memory = m2 /\ kernel'.elf = e2 /\ kernel'.handles = h
    BY <2>4, <2>6, KernInv DEF KernelInv
  <2>8. procs' = <<>> /\ mode' = "shell" /\ kept' = kept /\ failed' = failed
    BY <1>3 DEF sys_exit
  <2>9. ShellInv'
    BY <2>4, <2>7, <2>8 DEF ShellInv
  <2> QED
    BY <2>7, <2>8, <2>9 DEF ProcessInv
<1> QED
  BY <1>2, <1>3 DEF sys_exit

\* Another break or other mappings: the rest of the process is as it was.
LEMMA BoundKeeps ==
  ASSUME NEW p, NEW b, NEW s, NEW p2, p2 = Bound(p, b, s)
  PROVE  /\ IsProcess(p2) /\ p2.Binary = p.Binary /\ p2.SubBinary = p.SubBinary
         /\ p2.stack = p.stack /\ p2.tls = p.tls /\ p2.clean = p.clean /\ p2.mine = s
BY DEF Bound, IsProcess

LEMMA BoundIs ==
  ASSUME NEW p, IsProcess(p), NEW b, NEW s
  PROVE  /\ [p EXCEPT !.ProgramBreak = b] = Bound(p, b, p.mine)
         /\ [p EXCEPT !.mine = s] = Bound(p, p.ProgramBreak, s)
<1>1. PICK u1, u2, u3, u4, u5, u6, u7, u8, u9, u10 :
         p = [name |-> u1, stack |-> u2, tls |-> u3, Binary |-> u4, SubBinary |-> u5,
              thread |-> u6, arguments |-> u7, ProgramBreak |-> u8, clean |-> u9, mine |-> u10]
  BY DEF IsProcess, Bound
<1> QED
  BY <1>1 DEF Bound

\* The last process, changed.
LEMMA LastIs ==
  ASSUME NEW p, NEW q, NEW x
  PROVE  Put(<<p>>, 1, x) = <<x>> /\ Put(<<p, q>>, 2, x) = <<p, x>>
BY DEF Put

\* What a running program keeps while its memory grows and its mappings do.
LEMMA MoreRuns ==
  ASSUME ProcessInv, mode = "user", mode' = "user", kept' = kept, failed' = failed,
         current' = current,
         NEW m, NEW e, NEW t, NEW h, kernel = Kern(m, e, t, h), Sound(m, e, t, h),
         NEW m2, kernel' = Kern(m2, e, t, h), Sound(m2, e, t, h), Grows(m, e, m2, e),
         Held(m2, "image") = Held(m, "image"), Held(m2, "stack") = Held(m, "stack"),
         Held(m2, "tls") = Held(m, "tls"), Held(m2, "buffer") = Held(m, "buffer"),
         NEW b, NEW s, s \subseteq Regions, \A r \in s : m2[r] = "mmap",
         NEW x, x = Bound(Running, b, s), procs' = Put(procs, current, x)
  PROVE  ProcessInv'
<1>1. kernel.memory = m /\ kernel.elf = e /\ kernel.handles = h
  BY KernParts
<1>2. KernelInv(kernel)' /\ kernel'.memory = m2 /\ kernel'.elf = e /\ kernel'.handles = h
  BY KernInv DEF KernelInv
<1>3. ASSUME NEW p, Running = p, Owned(m, e, p)
      PROVE  /\ Owned(m2, e, x) /\ IsProcess(x) /\ x.clean = p.clean /\ x.Binary = p.Binary
             /\ x.tls = p.tls
  <2>1. /\ IsProcess(x) /\ x.Binary = p.Binary /\ x.SubBinary = p.SubBinary
        /\ x.stack = p.stack /\ x.tls = p.tls /\ x.clean = p.clean /\ x.mine = s
    BY <1>3, BoundKeeps
  <2>2. Owned(m2, e, p)
    BY <1>3, OwnedGrows
  <2>3. Owned(m2, e, x)
    BY <2>1, <2>2 DEF Owned
  <2> QED
    BY <2>1, <2>3
<1>4. ASSUME NEW p, FirstRuns(p) PROVE FirstRuns(x)'
  <2>1. /\ procs = <<p>> /\ current = 1 /\ Owned(m, e, p) /\ p.clean
        /\ Tally(m, h, 1, kept, failed) /\ Remembers(e, {p.Binary}, kept, failed)
        /\ Held(m, "tls") = {p.tls}
    BY <1>1, <1>4 DEF FirstRuns
  <2>2. Running = p
    BY <2>1 DEF Running
  <2>3. /\ Owned(m2, e, x) /\ IsProcess(x) /\ x.clean = p.clean /\ x.Binary = p.Binary
        /\ x.tls = p.tls
    BY <1>3, <2>1, <2>2
  <2>4. Tally(m2, h, 1, kept, failed)
    BY <2>1 DEF Tally, Num
  <2>5. procs' = <<x>>
    BY <2>1, LastIs
  <2> QED
    BY <1>2, <2>1, <2>3, <2>4, <2>5 DEF FirstRuns
<1>5. ASSUME NEW p, NEW q, SecondRuns(p, q) PROVE SecondRuns(p, x)'
  <2>1. /\ procs = <<p, q>> /\ current = 2 /\ Owned(m, e, q) /\ p.clean
        /\ (q.clean \/ q.Binary = p.Binary)
    BY <1>1, <1>5 DEF SecondRuns
  <2>2. Running = q
    BY <2>1 DEF Running
  <2>3. /\ Owned(m2, e, x) /\ IsProcess(x) /\ x.clean = q.clean /\ x.Binary = q.Binary
    BY <1>3, <2>1, <2>2
  <2>4. procs' = <<p, x>>
    BY <2>1, LastIs
  <2> QED
    BY <1>2, <2>1, <2>3, <2>4 DEF SecondRuns
<1> QED
  BY <1>2, <1>4, <1>5 DEF ProcessInv

LEMMA RunningIs ==
  ASSUME ProcessInv, mode = "user"
  PROVE  /\ IsProcess(Running) /\ Owned(kernel.memory, kernel.elf, Running)
         /\ Running = procs[Len(procs)] /\ current = Len(procs)
<1>1. ASSUME NEW p, FirstRuns(p)
      PROVE  /\ IsProcess(Running) /\ Owned(kernel.memory, kernel.elf, Running)
             /\ Running = procs[Len(procs)] /\ current = Len(procs)
  <2>1. procs = <<p>> /\ current = 1 /\ Len(<<p>>) = 1 /\ <<p>>[1] = p
    BY <1>1, JoinOne DEF FirstRuns
  <2>2. Running = p /\ Len(procs) = 1
    BY <2>1 DEF Running
  <2> QED
    BY <1>1, <2>1, <2>2 DEF FirstRuns
<1>2. ASSUME NEW p, NEW q, SecondRuns(p, q)
      PROVE  /\ IsProcess(Running) /\ Owned(kernel.memory, kernel.elf, Running)
             /\ Running = procs[Len(procs)] /\ current = Len(procs)
  <2>1. procs = <<p, q>> /\ current = 2 /\ Len(<<p, q>>) = 2 /\ <<p, q>>[2] = q
    BY <1>2, JoinOne DEF SecondRuns
  <2>2. Running = q /\ Len(procs) = 2
    BY <2>1 DEF Running
  <2> QED
    BY <1>2, <2>1, <2>2 DEF SecondRuns
<1> QED
  BY <1>1, <1>2 DEF ProcessInv

LEMMA Idles ==
  ASSUME ProcessInv, UNCHANGED <<kernel, procs, current, mode, kept, failed>>
  PROVE  ProcessInv'
<1>1. /\ kernel' = kernel /\ procs' = procs /\ current' = current /\ mode' = mode
      /\ kept' = kept /\ failed' = failed
  OBVIOUS
<1>2. ShellInv => ShellInv'
  BY <1>1 DEF ShellInv
<1>3. \A p : FirstRuns(p) => FirstRuns(p)'
  BY <1>1 DEF FirstRuns
<1>4. \A p, q : SecondRuns(p, q) => SecondRuns(p, q)'
  BY <1>1 DEF SecondRuns
<1>5. KernelInv(kernel) => KernelInv(kernel)'
  BY <1>1 DEF KernelInv
<1> QED
  BY <1>1, <1>2, <1>3, <1>4, <1>5 DEF ProcessInv

LEMMA BrkStep ==
  ASSUME ProcessInv, sys_brk
  PROVE  ProcessInv'
<1>1. PICK b \in {0, BreakSize, BreakSize + 1} :
         /\ procs' = IF b \in 1 .. BreakSize
                     THEN [procs EXCEPT ![current].ProgramBreak = b] ELSE procs
         /\ mode' = IF b > BreakSize THEN "asserted" ELSE mode
  BY DEF sys_brk
<1>2. mode = "user" /\ kernel' = kernel /\ current' = current /\ kept' = kept /\ failed' = failed
  BY DEF sys_brk
<1>3. CASE b > BreakSize
  <2>1. mode' = "asserted"
    BY <1>1, <1>3
  <2> QED
    BY <2>1 DEF ProcessInv
<1>4. CASE ~(b > BreakSize) /\ b \notin 1 .. BreakSize
  <2>1. procs' = procs /\ mode' = mode
    BY <1>1, <1>4
  <2> QED
    BY <1>2, <2>1, Idles
<1>5. CASE ~(b > BreakSize) /\ b \in 1 .. BreakSize
  <2>1. mode' = "user" /\ procs' = [procs EXCEPT ![current].ProgramBreak = b]
    BY <1>1, <1>2, <1>5
  <2>2. IsProcess(Running) /\ Owned(kernel.memory, kernel.elf, Running)
    BY <1>2, RunningIs
  <2>3. PICK p, x : p = Running /\ x = [p EXCEPT !.ProgramBreak = b]
    OBVIOUS
  <2>4. x = Bound(p, b, p.mine)
    BY <2>2, <2>3, BoundIs
  <2>5. procs' = Put(procs, current, x)
    BY <2>1, <2>3 DEF Running, Put
  <2>6. PICK m, e, t, h : /\ kernel = Kern(m, e, t, h) /\ Sound(m, e, t, h)
                          /\ kernel.memory = m /\ kernel.elf = e
    BY <1>2 DEF KernelInv, ProcessInv
  <2>7. kernel' = Kern(m, e, t, h) /\ Grows(m, e, m, e)
    BY <1>2, <2>6 DEF Grows
  <2>8. p.mine \subseteq Regions /\ \A r \in p.mine : m[r] = "mmap"
    BY <2>2, <2>3, <2>6 DEF Owned
  <2>9. x = Bound(Running, b, p.mine)
    BY <2>3, <2>4
  <2> QED
    BY <1>2, <2>1, <2>5, <2>6, <2>7, <2>8, <2>9, MoreRuns
<1> QED
  BY <1>3, <1>4, <1>5

LEMMA MapStep ==
  ASSUME ProcessInv, sys_memory_map
  PROVE  ProcessInv'
<1>1. PICK address \in {NULL} \cup Running.mine,
           fd \in {"anonymous", "file", "framebuffer", "stdin"} :
         IF fd \in {"anonymous", "file"} /\ address = NULL
         THEN LET a == VirtualAlloc(kernel, "mmap")
              IN  /\ \E r \in Regions : kernel.memory[r] = FREE
                  /\ kernel' = a.k
                  /\ procs' = [procs EXCEPT ![current].mine = @ \cup {a.r}]
         ELSE UNCHANGED <<kernel, procs>>
  BY DEF sys_memory_map
<1>2. mode = "user" /\ current' = current /\ mode' = mode /\ kept' = kept /\ failed' = failed
  BY DEF sys_memory_map
<1>3. CASE ~(fd \in {"anonymous", "file"} /\ address = NULL)
  <2>1. kernel' = kernel /\ procs' = procs
    BY <1>1, <1>3
  <2> QED
    BY <1>2, <2>1, Idles
<1>4. CASE fd \in {"anonymous", "file"} /\ address = NULL
  <2>1. PICK a : a = VirtualAlloc(kernel, "mmap")
    OBVIOUS
  <2>2. /\ \E r \in Regions : kernel.memory[r] = FREE
        /\ kernel' = a.k
        /\ procs' = [procs EXCEPT ![current].mine = @ \cup {a.r}]
    BY <1>1, <1>4, <2>1
  <2>3. IsProcess(Running) /\ Owned(kernel.memory, kernel.elf, Running)
    BY <1>2, RunningIs
  <2>4. PICK m, e, t, h : /\ kernel = Kern(m, e, t, h) /\ Sound(m, e, t, h)
                          /\ kernel.memory = m /\ kernel.elf = e
    BY <1>2 DEF KernelInv, ProcessInv
  <2>5. Num(m, FREE) >= 1
    <3>1. Held(m, FREE) # {}
      BY <2>2, <2>4 DEF Held
    <3>2. PICK S, n : S = Held(m, FREE) /\ n = Cardinality(S)
      OBVIOUS
    <3>3. IsFiniteSet(S) /\ n \in Nat /\ S # {}
      BY <3>1, <3>2, HeldFinite, FS_CardinalityType
    <3>4. n # 0
      BY <3>2, <3>3, FS_EmptySet
    <3>5. n >= 1
      BY <3>3, <3>4
    <3> QED
      BY <3>2, <3>5 DEF Num
  <2>6. "mmap" \in Uses /\ "mmap" # FREE
    BY DEF Uses, FREE
  <2>7. PICK r, m2 : Takes(m, e, t, h, "mmap", r, m2)
    BY <2>4, <2>5, <2>6, Taken
  <2>8. a.k = Kern(m2, e, t, h) /\ a.r = r
    BY <2>1, <2>4, <2>7 DEF Takes, AllocsTo
  <2>9. PICK p, s, x : p = Running /\ s = p.mine \cup {r} /\ x = [p EXCEPT !.mine = s]
    OBVIOUS
  <2>10. x = Bound(p, p.ProgramBreak, s)
    BY <2>3, <2>9, BoundIs
  <2>11. procs' = Put(procs, current, x)
    BY <2>2, <2>8, <2>9 DEF Running, Put
  <2>12. Sound(m2, e, t, h) /\ Grows(m, e, m2, e) /\ r \in Regions /\ m2[r] = "mmap"
    BY <2>7 DEF Takes
  <2>13. /\ Held(m2, "image") = Held(m, "image") /\ Held(m2, "stack") = Held(m, "stack")
         /\ Held(m2, "tls") = Held(m, "tls") /\ Held(m2, "buffer") = Held(m, "buffer")
    BY <2>7 DEF Takes, Others, FREE
  <2>14. s \subseteq Regions /\ \A y \in s : m2[y] = "mmap"
    <3>1. p.mine \subseteq Regions /\ \A y \in p.mine : m[y] = "mmap"
      BY <2>3, <2>4, <2>9 DEF Owned
    <3>2. \A y \in p.mine : m2[y] = "mmap"
      BY <2>6, <2>12, <3>1 DEF Grows
    <3> QED
      BY <2>9, <2>12, <3>1, <3>2
  <2>15. kernel' = Kern(m2, e, t, h) /\ x = Bound(Running, p.ProgramBreak, s)
    BY <2>2, <2>8, <2>9, <2>10
  <2> QED
    BY <1>2, <2>4, <2>11, <2>12, <2>13, <2>14, <2>15, MoreRuns
<1> QED
  BY <1>3, <1>4

LEMMA ProcessInitInv ==
  ASSUME ProcessInit
  PROVE  ProcessInv
<1>1. PICK m, e, t, h : /\ m = [r \in Regions |-> FREE] /\ e = [b \in Heap \cup {NULL} |-> Blank]
                        /\ t = <<>> /\ h = 0
  OBVIOUS
<1>2. kernel = Kern(m, e, t, h)
  BY <1>1 DEF ProcessInit, Kern
<1>3. Blank \in Binaries /\ Blank.name = GARBAGE /\ Blank.live = FALSE /\ Blank.image = NULL
  BY DEF Blank, Binaries
<1>4. Typed(m, e, t, h)
  BY <1>1, <1>3 DEF Typed, Uses
<1>5. Sound(m, e, t, h)
  <2>1. \A b \in Heap \cup {NULL} : e[b] = Blank
    BY <1>1
  <2>2. \A b \in Heap : Block(m, e, t, b)
    BY <1>3, <2>1 DEF Block
  <2>3. \A b \in Heap, c \in Heap : Apart(e, b, c)
    BY <1>3, <2>1 DEF Apart
  <2> QED
    BY <1>3, <1>4, <2>1, <2>2, <2>3 DEF Sound
<1>6. KernelInv(kernel) /\ kernel.memory = m /\ kernel.elf = e /\ kernel.handles = h
  BY <1>2, <1>5, KernInv
<1>7. \A use : use # FREE => Held(m, use) = {}
  BY <1>1 DEF Held
<1>8. /\ procs = <<>> /\ kept = {} /\ failed = [load |-> 0, interp |-> 0] /\ mode = "shell"
  BY DEF ProcessInit
<1>9. Cardinality({}) = 0 /\ IsFiniteSet({})
  BY FS_EmptySet
<1>10. Tally(m, h, 0, kept, failed)
  <2>1. Held(m, "image") = {} /\ Held(m, "stack") = {} /\ Held(m, "buffer") = {}
    BY <1>7 DEF FREE
  <2>2. failed.load = 0 /\ failed.interp = 0 /\ Cardinality(kept) = 0
    BY <1>8, <1>9
  <2>3. Num(m, "image") = 0 /\ Num(m, "stack") = 0
    BY <1>9, <2>1 DEF Num
  <2> QED
    BY <1>1, <2>1, <2>2, <2>3 DEF Tally
<1>11. Remembers(e, {}, kept, failed)
  BY <1>1, <1>3, <1>8, <1>9 DEF Remembers
<1>12. Held(m, "tls") = {}
  BY <1>7 DEF FREE
<1>13. ShellInv
  BY <1>6, <1>8, <1>10, <1>11, <1>12 DEF ShellInv
<1> QED
  BY <1>6, <1>8, <1>13 DEF ProcessInv

LEMMA ProcessStep ==
  ASSUME InterpretersStandAlone, ProcessInv, [ProcessNext]_processVars
  PROVE  ProcessInv'
<1>1. CASE Shell
  BY <1>1, ShellStep
<1>2. CASE sys_execve
  BY <1>2, ExecveStep
<1>3. CASE sys_exit
  BY <1>3, ExitStep
<1>4. CASE sys_brk
  BY <1>4, BrkStep
<1>5. CASE sys_memory_map
  BY <1>5, MapStep
<1>6. CASE UNCHANGED processVars
  BY <1>6, Idles DEF processVars
<1> QED
  BY <1>1, <1>2, <1>3, <1>4, <1>5, <1>6 DEF ProcessNext

\* A running program's memory is what it should be.
LEMMA InvMemory ==
  ASSUME ProcessInv
  PROVE  RunningMemoryLive
<1>1. SUFFICES ASSUME mode = "user"
               PROVE  LET p == procs[Len(procs)]
                      IN  /\ current = Len(procs)
                          /\ kernel.memory[p.stack] = "stack" /\ kernel.memory[p.tls] = "tls"
                          /\ \A o \in {p.Binary, p.SubBinary} \ {NULL} :
                                Elf(o).live /\ kernel.memory[Elf(o).image] = "image"
                          /\ \A r \in p.mine : kernel.memory[r] = "mmap"
                          /\ p.SubBinary # NULL =>
                                Elf(p.Binary).image # Elf(p.SubBinary).image
  BY DEF RunningMemoryLive
<1>2. PICK p : p = procs[Len(procs)]
  OBVIOUS
<1>3. current = Len(procs) /\ Owned(kernel.memory, kernel.elf, p)
  BY <1>1, <1>2, RunningIs
<1>4. PICK m, e, t, h : Sound(m, e, t, h) /\ kernel.memory = m /\ kernel.elf = e
  BY <1>1 DEF ProcessInv, KernelInv
<1>5. PICK o, s : o = p.Binary /\ s = p.SubBinary
  OBVIOUS
<1>6. /\ o \in Heap /\ e[o].live /\ Complete(e[o].name) /\ e[o].interp = NO_INTERP
      /\ s # NULL => s \in Heap /\ e[s].live /\ e[s].interp # NO_INTERP
  BY <1>3, <1>4, <1>5 DEF Owned
<1>7. m[e[o].image] = "image"
  BY <1>4, <1>6, WholeIsFound DEF Whole
<1>8. ASSUME s # NULL
      PROVE  m[e[s].image] = "image" /\ e[o].image # e[s].image
  <2>1. Block(m, e, t, s) /\ Apart(e, o, s)
    BY <1>4, <1>6, <1>8 DEF Sound
  <2>2. m[e[s].image] = "image"
    BY <1>6, <1>8, <2>1 DEF Block, Whole, Wreck
  <2> QED
    BY <1>6, <1>8, <2>1, <2>2 DEF Apart
<1>9. \A b \in {o, s} \ {NULL} : Elf(b).live /\ kernel.memory[Elf(b).image] = "image"
  BY <1>4, <1>6, <1>7, <1>8 DEF Elf
<1> QED
  BY <1>2, <1>3, <1>4, <1>5, <1>8, <1>9 DEF Owned, Elf

LEMMA InvFootprint ==
  ASSUME ProcessInv
  PROVE  ShellFootprint
<1>1. SUFFICES ASSUME mode = "shell"
               PROVE  /\ Cardinality(InUse("image")) = Cardinality(kept) + failed.interp
                      /\ Cardinality(InUse("stack")) = failed.load + failed.interp
                      /\ InUse("tls") = {} /\ InUse("buffer") = {}
                      /\ kernel.handles = Cardinality(kept)
  BY DEF ShellFootprint
<1>2. ShellInv
  BY <1>1 DEF ProcessInv
<1>3. \A use : InUse(use) = Held(kernel.memory, use)
  BY DEF InUse, Held
<1>4. Cardinality(kept) \in Nat /\ failed.load \in Nat /\ failed.interp \in Nat
  BY <1>2, FS_CardinalityType DEF ShellInv, Remembers
<1>5. /\ Num(kernel.memory, "image") = Cardinality(kept) + failed.interp + 0
      /\ Num(kernel.memory, "stack") = failed.load + failed.interp + 0
      /\ Held(kernel.memory, "buffer") = {} /\ Held(kernel.memory, "tls") = {}
      /\ kernel.handles = Cardinality(kept)
  BY <1>2 DEF ShellInv, Tally
<1>6. /\ Cardinality(InUse("image")) = Num(kernel.memory, "image")
      /\ Cardinality(InUse("stack")) = Num(kernel.memory, "stack")
  BY <1>3 DEF Num
<1>7. InUse("tls") = {} /\ InUse("buffer") = {}
  BY <1>3, <1>5
<1> QED
  BY <1>4, <1>5, <1>6, <1>7

LEMMA InvClean ==
  ASSUME ProcessInv
  PROVE  StartsClean
<1>1. SUFFICES ASSUME mode = "user", NEW i \in DOMAIN procs
               PROVE  procs[i].clean \/ \E j \in 1 .. i - 1 : procs[j].Binary = procs[i].Binary
  BY DEF StartsClean
<1>2. ASSUME NEW p, FirstRuns(p) PROVE procs[i].clean
  <2>1. procs = <<p>> /\ p.clean
    BY <1>2 DEF FirstRuns
  <2> QED
    BY <2>1
<1>3. ASSUME NEW p, NEW q, SecondRuns(p, q)
      PROVE  procs[i].clean \/ \E j \in 1 .. i - 1 : procs[j].Binary = procs[i].Binary
  <2>1. procs = <<p, q>> /\ p.clean /\ (q.clean \/ q.Binary = p.Binary)
    BY <1>3 DEF SecondRuns
  <2>2. i \in 1 .. 2 /\ procs[1] = p /\ procs[2] = q
    BY <2>1
  <2>3. CASE i = 1
    BY <2>1, <2>2, <2>3
  <2>4. CASE i = 2 /\ ~q.clean
    <3>1. 1 \in 1 .. i - 1
      BY <2>4
    <3> QED
      BY <2>1, <2>2, <2>4, <3>1
  <2>5. CASE i = 2 /\ q.clean
    BY <2>2, <2>5
  <2> QED
    BY <2>2, <2>3, <2>4, <2>5
<1> QED
  BY <1>1, <1>2, <1>3 DEF ProcessInv

\* The state between two steps: the kernel's heap, table and memory agree, and
\* what is allocated is what the ghosts account for, and the running program's.
THEOREM ProcessInvariant ==
  ASSUME InterpretersStandAlone
  PROVE  ProcessSpec => []ProcessInv
<1>1. ProcessInit => ProcessInv
  BY ProcessInitInv
<1>2. ProcessInv /\ [ProcessNext]_processVars => ProcessInv'
  BY ProcessStep
<1> QED
  BY <1>1, <1>2, PTL DEF ProcessSpec

\* Whatever programs there are, whichever have run or failed before: the stack,
\* the thread-local storage, the images and the mappings of the program that runs
\* are allocated as what they are, apart, and GCurrentProcess is that program
\* (CreateProcess, DestroyProcess, LoadElfFromMemory, UnloadElf).
THEOREM ProcessKeepsMemory ==
  ASSUME InterpretersStandAlone
  PROVE  ProcessSpec => []RunningMemoryLive
<1>1. ProcessInv => RunningMemoryLive
  BY InvMemory
<1> QED
  BY <1>1, ProcessInvariant, PTL

\* Between programs only what the code forgets stays allocated: an image and a
\* handle for each interpreted program that has run, a stack for each that was not
\* found, and both for each whose interpreter was missing.
THEOREM ProcessFootprint ==
  ASSUME InterpretersStandAlone
  PROVE  ProcessSpec => []ShellFootprint
<1>1. ProcessInv => ShellFootprint
  BY InvFootprint
<1> QED
  BY <1>1, ProcessInvariant, PTL

\* No program starts in an image that another has run in, but for the one that
\* its caller runs in (LoadElf finds only what is still loaded).
THEOREM ProcessStartsClean ==
  ASSUME InterpretersStandAlone
  PROVE  ProcessSpec => []StartsClean
<1>1. ProcessInv => StartsClean
  BY InvClean
<1> QED
  BY <1>1, ProcessInvariant, PTL
=============================================================================
