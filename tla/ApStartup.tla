----------------------------- MODULE ApStartup ------------------------------
(***************************************************************************)
(* InitAPs: the boot processor starts the others one after the other.  It  *)
(* writes a trampoline to a fixed page, sends INIT and two startup IPIs to *)
(* one processor and spins until that processor sets APSignal.  What is    *)
(* not per processor is shared by all of them: the trampoline with its     *)
(* block of data, one stack, and the counter CoreIndex.  TestValue below   *)
(* is a local of APEntryFunction; every processor has it at the same       *)
(* address, for they all start with the same stack pointer.                *)
(***************************************************************************)
EXTENDS Naturals, Sequences, FiniteSets

CONSTANTS ProcessorIds,   \* the APIC ids in the order the MADT lists them
          BspId           \* the boot processor's

ASSUME ProcessorAssumption ==
  /\ ProcessorIds \in Seq(0 .. 255)
  /\ \A i, j \in DOMAIN ProcessorIds : ProcessorIds[i] = ProcessorIds[j] => i = j
  /\ BspId \in {ProcessorIds[i] : i \in DOMAIN ProcessorIds}

APs == {ProcessorIds[i] : i \in DOMAIN ProcessorIds} \ {BspId}

\* The id register holds the id in its top byte, and is kept as it was read.
BSPId == BspId * 16777216

VARIABLES pc,             \* where InitAPs is
          processor,      \* its loop counter, from 1
          trampoline,     \* "Stale", "Template" (placeholders), "Filled"
          APSignal, CoreIndex,
          ap,             \* processor -> where it is
          TestValue,      \* the slot on the shared stack
          loaded,         \* processor -> CoreIndex as it read it
          NewCoreIndex,   \* processor -> the index it took, or none yet
          asserted        \* "Sentinel mismatch"

bsp    == <<pc, processor, trampoline>>
core   == <<TestValue, loaded, NewCoreIndex, asserted>>
vars   == <<bsp, APSignal, CoreIndex, ap, core>>

NoIndex == Cardinality(APs) + 1
Target == ProcessorIds[processor]

Starting == {"Trampoline", "Store", "Increment", "Compare", "Load", "Take", "Signal"}

-----------------------------------------------------------------------------
(* The boot processor.                                                     *)

Goto(place) == pc' = place /\ UNCHANGED processor

\* The loop's head.
NextProcessor ==
  /\ pc = "Loop"
  /\ IF processor > Len(ProcessorIds) THEN Goto("Done")
     ELSE IF Target = BSPId THEN processor' = processor + 1 /\ UNCHANGED pc
     ELSE Goto("Fill")
  /\ trampoline' = IF pc' = "Fill" THEN "Template" ELSE trampoline
  /\ UNCHANGED <<APSignal, CoreIndex, ap, core>>

\* The data block gets the stack, the tables and the entry point.
FillTrampoline ==
  /\ pc = "Fill"
  /\ Goto("Init")
  /\ trampoline' = "Filled"
  /\ UNCHANGED <<APSignal, CoreIndex, ap, core>>

\* INIT is asserted and withdrawn.  The processor that sends it to itself starts
\* again from the firmware.
SendInit ==
  /\ pc = "Init"
  /\ IF Target = BspId
     THEN Goto("Restarted") /\ UNCHANGED ap
     ELSE Goto("Clear") /\ ap' = [ap EXCEPT ![Target] = "WaitForSipi"]
  /\ UNCHANGED <<trampoline, APSignal, CoreIndex, core>>

\* A mutant: the last processor's signal stays set.
ClearSignalOnce ==
  /\ pc = "Clear"
  /\ Goto("Sipi1")
  /\ UNCHANGED <<trampoline, APSignal, CoreIndex, ap, core>>

ClearSignal ==
  /\ pc = "Clear"
  /\ Goto("Sipi1")
  /\ APSignal' = FALSE
  /\ UNCHANGED <<trampoline, CoreIndex, ap, core>>

\* A processor that waits for a startup IPI may not be ready for the first, but
\* takes the second; a processor that runs ignores it.
Delivered(p) ==
  \/ ap[p] = "WaitForSipi" /\ ap' = [ap EXCEPT ![p] = "Trampoline"]
  \/ pc = "Sipi1" /\ UNCHANGED ap
  \/ ap[p] # "WaitForSipi" /\ UNCHANGED ap

\* A mutant: the signal is cleared once both IPIs are out.
SendSipiThenClear ==
  /\ pc \in {"Sipi1", "Sipi2"}
  /\ Goto(IF pc = "Sipi1" THEN "Sipi2" ELSE "Wait")
  /\ Delivered(Target)
  /\ APSignal' = IF pc = "Sipi2" THEN FALSE ELSE APSignal
  /\ UNCHANGED <<trampoline, CoreIndex, core>>

SendSipi ==
  /\ pc \in {"Sipi1", "Sipi2"}
  /\ Goto(IF pc = "Sipi1" THEN "Sipi2" ELSE "Wait")
  /\ Delivered(Target)
  /\ UNCHANGED <<trampoline, APSignal, CoreIndex, core>>

\* A mutant: the signal is not waited for.
SignalSeenAlways == TRUE

SignalSeen == APSignal

WaitForSignal ==
  /\ pc = "Wait" /\ SignalSeen
  /\ pc' = "Loop" /\ processor' = processor + 1
  /\ UNCHANGED <<trampoline, APSignal, CoreIndex, ap, core>>

InitAPs ==
  NextProcessor \/ FillTrampoline \/ SendInit \/ ClearSignal \/ SendSipi \/ WaitForSignal

-----------------------------------------------------------------------------
(* Another processor: ap.asmb, then APEntryFunction.                       *)

Step(p, from, to) == ap[p] = from /\ ap' = [ap EXCEPT ![p] = to]

\* Out of the trampoline, whose data it has read bit by bit.
LeaveTrampoline(p) ==
  /\ Step(p, "Trampoline", "Store")
  /\ UNCHANGED <<bsp, APSignal, CoreIndex, core>>

StoreSentinel(p) ==
  /\ Step(p, "Store", "Increment")
  /\ TestValue' = 0
  /\ UNCHANGED <<bsp, APSignal, CoreIndex, loaded, NewCoreIndex, asserted>>

IncrementSentinel(p) ==
  /\ Step(p, "Increment", "Compare")
  /\ TestValue' = TestValue + 1
  /\ UNCHANGED <<bsp, APSignal, CoreIndex, loaded, NewCoreIndex, asserted>>

CompareSentinel(p) ==
  /\ Step(p, "Compare", "Load")
  /\ asserted' = (asserted \/ TestValue # 1)
  /\ UNCHANGED <<bsp, APSignal, CoreIndex, TestValue, loaded, NewCoreIndex>>

\* CoreIndex++ is not atomic.
LoadIndex(p) ==
  /\ Step(p, "Load", "Take")
  /\ loaded' = [loaded EXCEPT ![p] = CoreIndex]
  /\ UNCHANGED <<bsp, APSignal, CoreIndex, TestValue, NewCoreIndex, asserted>>

\* A mutant: ++CoreIndex.
TakeIndexAfter(p) ==
  /\ Step(p, "Take", "Signal")
  /\ CoreIndex' = loaded[p] + 1
  /\ NewCoreIndex' = [NewCoreIndex EXCEPT ![p] = loaded[p] + 1]
  /\ UNCHANGED <<bsp, APSignal, TestValue, loaded, asserted>>

TakeIndex(p) ==
  /\ Step(p, "Take", "Signal")
  /\ CoreIndex' = loaded[p] + 1
  /\ NewCoreIndex' = [NewCoreIndex EXCEPT ![p] = loaded[p]]
  /\ UNCHANGED <<bsp, APSignal, TestValue, loaded, asserted>>

Signal(p) ==
  /\ Step(p, "Signal", "Halted")
  /\ APSignal' = TRUE
  /\ UNCHANGED <<bsp, CoreIndex, core>>

APEntryFunction(p) ==
  StoreSentinel(p) \/ IncrementSentinel(p) \/ CompareSentinel(p)
    \/ LoadIndex(p) \/ TakeIndex(p) \/ Signal(p)

-----------------------------------------------------------------------------
Init ==
  /\ pc = "Loop" /\ processor = 1 /\ trampoline = "Stale"
  /\ APSignal = FALSE /\ CoreIndex = 0
  /\ ap = [p \in APs |-> "Off"]
  /\ TestValue = 0 /\ loaded = [p \in APs |-> 0]
  /\ NewCoreIndex = [p \in APs |-> NoIndex]
  /\ asserted = FALSE

Next ==
  \/ InitAPs
  \/ \E p \in APs : LeaveTrampoline(p) \/ APEntryFunction(p)

\* Every processor that has been started runs.
Fairness ==
  /\ WF_vars(InitAPs)
  /\ \A p \in APs : WF_vars(LeaveTrampoline(p) \/ APEntryFunction(p))

Spec == Init /\ [][Next]_vars /\ Fairness

-----------------------------------------------------------------------------
TypeOK ==
  /\ pc \in {"Loop", "Fill", "Init", "Clear", "Sipi1", "Sipi2", "Wait", "Done", "Restarted"}
  /\ processor \in 1 .. Len(ProcessorIds) + 1
  /\ trampoline \in {"Stale", "Template", "Filled"}
  /\ APSignal \in BOOLEAN /\ CoreIndex \in 0 .. Cardinality(APs)
  /\ ap \in [APs -> {"Off", "WaitForSipi", "Halted"} \cup Starting]
  /\ TestValue \in Nat /\ loaded \in [APs -> 0 .. Cardinality(APs)]
  /\ NewCoreIndex \in [APs -> (0 .. Cardinality(APs) - 1) \cup {NoIndex}]
  /\ asserted \in BOOLEAN

\* The sentinel is on a stack that all processors share; it never mismatches,
\* because no two of them are in APEntryFunction before their signal at once.
NoAssertionFires == ~asserted

\* No processor runs in the trampoline while it is written for the next one.
TrampolineIntact ==
  \A p \in APs : ap[p] = "Trampoline" => trampoline = "Filled"

\* Processors take different indices, as CoreIndex++ alone would not ensure, and
\* leave no number out.
IndicesDistinct ==
  LET taken == {p \in APs : NewCoreIndex[p] # NoIndex} IN
  /\ \A p, q \in taken : p # q => NewCoreIndex[p] # NewCoreIndex[q]
  /\ \A p \in taken : NewCoreIndex[p] < Cardinality(taken)

\* "All AP cores online": the boot processor gets past its loop, which has no
\* time limit, with every processor signalled.
AllCoresOnline ==
  <>[](pc = "Done" /\ \A p \in APs : ap[p] = "Halted")

=============================================================================
