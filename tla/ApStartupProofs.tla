-------------------------- MODULE ApStartupProofs --------------------------
(***************************************************************************)
(* The start of the other processors is safe for any number of them and    *)
(* any order of the MADT.  The argument is that of a baton: at most one    *)
(* processor is between its INIT and its signal, the one InitAPs is        *)
(* starting, so what all of them share (the trampoline, the stack slot,    *)
(* CoreIndex) has one user at a time.  The signal is what hands it on, so  *)
(* it must be true exactly when the processor being started has halted.    *)
(***************************************************************************)
EXTENDS ApStartup, FiniteSetTheorems, SequenceTheorems, TLAPS

Active == {"WaitForSipi"} \cup Starting
Handshake == {"Clear", "Sipi1", "Sipi2", "Wait"}
Taken == {p \in APs : NewCoreIndex[p] # NoIndex}

\* InitAPs: which processor it handles, and whether the trampoline is ready.
BspInv ==
  /\ pc \in {"Fill", "Init"} \cup Handshake => processor \in DOMAIN ProcessorIds
  /\ pc \in {"Init"} \cup Handshake => trampoline = "Filled"
  /\ pc \in Handshake => Target \in APs

\* The baton.
OneAtATime ==
  /\ \A p \in APs : ap[p] \in Active => pc \in Handshake /\ p = Target
  /\ pc = "Clear" => ap[Target] = "WaitForSipi"
  /\ pc \in Handshake \ {"Clear"} => (APSignal = TRUE <=> ap[Target] = "Halted")

\* A processor whose turn has not come is off.
TurnToCome ==
  \A i \in DOMAIN ProcessorIds :
    ProcessorIds[i] \in APs /\ (i > processor \/ (i = processor /\ pc \notin Handshake))
      => ap[ProcessorIds[i]] = "Off"

\* What the processor that runs has found in the shared state.
Sentinel ==
  /\ ~asserted
  /\ \A p \in APs : /\ ap[p] = "Increment" => TestValue = 0
                    /\ ap[p] = "Compare" => TestValue = 1

\* CoreIndex counts the processors that have taken an index.
Counting ==
  /\ CoreIndex = Cardinality(Taken)
  /\ \A p \in APs : /\ p \in Taken <=> ap[p] \in {"Signal", "Halted"}
                    /\ ap[p] = "Take" => loaded[p] = CoreIndex
  /\ \A p \in Taken : NewCoreIndex[p] < CoreIndex
  /\ \A p, q \in Taken : p # q => NewCoreIndex[p] # NewCoreIndex[q]

IInv == TypeOK /\ BspInv /\ OneAtATime /\ TurnToCome /\ Sentinel /\ Counting
-----------------------------------------------------------------------------
(* The processors.                                                         *)

LEMMA Processors ==
  /\ Len(ProcessorIds) \in Nat /\ DOMAIN ProcessorIds = 1 .. Len(ProcessorIds)
  /\ \A i \in DOMAIN ProcessorIds : ProcessorIds[i] = BspId \/ ProcessorIds[i] \in APs
  /\ BspId \notin APs
  /\ IsFiniteSet(APs) /\ Cardinality(APs) \in Nat
<1>1. ProcessorIds \in Seq(0 .. 255)
  BY ProcessorAssumption
<1>2. Len(ProcessorIds) \in Nat /\ DOMAIN ProcessorIds = 1 .. Len(ProcessorIds)
  BY <1>1
<1>3. \A i \in 1 .. Len(ProcessorIds) : ProcessorIds[i] \in 0 .. 255
  BY <1>1, ElementOfSeq
<1>4. APs \in SUBSET Nat /\ \A p \in APs : p <= 255
  <2>1. \A p \in APs : \E i \in 1 .. Len(ProcessorIds) : p = ProcessorIds[i]
    BY <1>2 DEF APs
  <2>2. ASSUME NEW p \in APs PROVE p \in Nat /\ p <= 255
    <3>1. PICK i \in 1 .. Len(ProcessorIds) : p = ProcessorIds[i]
      BY <2>1
    <3>2. p \in 0 .. 255
      BY <3>1, <1>3
    <3> QED
      BY <3>2
  <2> QED
    BY <2>2
<1>5. IsFiniteSet(APs)
  BY <1>4, FS_BoundedSetOfNaturals
<1> QED
  BY <1>2, <1>5, FS_CardinalityType DEF APs

\* Which subsets of the processors an index can still be found for.
LEMMA TakenSize ==
  /\ \A S \in SUBSET APs : /\ IsFiniteSet(S) /\ Cardinality(S) \in 0 .. Cardinality(APs)
                           /\ S # APs => Cardinality(S) < Cardinality(APs)
  /\ \A S \in SUBSET APs, p \in APs : p \notin S => Cardinality(S \cup {p}) = Cardinality(S) + 1
<1>1. ASSUME NEW S \in SUBSET APs
      PROVE  /\ IsFiniteSet(S) /\ Cardinality(S) \in 0 .. Cardinality(APs)
             /\ S # APs => Cardinality(S) < Cardinality(APs)
  <2>1. /\ IsFiniteSet(S) /\ Cardinality(S) <= Cardinality(APs)
        /\ Cardinality(APs) = Cardinality(S) => APs = S
    BY Processors, FS_Subset
  <2>2. Cardinality(S) \in Nat
    BY <2>1, FS_CardinalityType
  <2> QED
    BY <2>1, <2>2, Processors
<1>2. ASSUME NEW S \in SUBSET APs, NEW p \in APs, p \notin S
      PROVE  Cardinality(S \cup {p}) = Cardinality(S) + 1
  BY <1>1, <1>2, FS_AddElement
<1> QED
  BY <1>1, <1>2

-----------------------------------------------------------------------------
LEMMA InitIInv == Init => IInv
<1> SUFFICES ASSUME Init PROVE IInv
  OBVIOUS
<1>1. Taken = {}
  BY DEF Init, Taken
<1>2. CoreIndex = Cardinality(Taken)
  BY <1>1, FS_EmptySet DEF Init
<1>3. TypeOK
  <2>1. processor \in 1 .. Len(ProcessorIds) + 1 /\ CoreIndex \in 0 .. Cardinality(APs)
    BY Processors DEF Init
  <2>2. /\ ap \in [APs -> {"Off", "WaitForSipi", "Halted"} \cup Starting]
        /\ loaded \in [APs -> 0 .. Cardinality(APs)]
        /\ NewCoreIndex \in [APs -> (0 .. Cardinality(APs) - 1) \cup {NoIndex}]
    BY Processors DEF Init
  <2> QED
    BY <2>1, <2>2 DEF Init, TypeOK
<1>4. BspInv /\ OneAtATime /\ TurnToCome /\ Sentinel
  BY DEF Init, BspInv, OneAtATime, TurnToCome, Sentinel, Handshake, Active, Starting
<1>5. Counting
  BY <1>1, <1>2 DEF Init, Counting
<1> QED
  BY <1>3, <1>4, <1>5 DEF IInv

-----------------------------------------------------------------------------
(* The steps of InitAPs.                                                   *)

LEMMA BspStep == IInv /\ InitAPs => IInv'
<1> SUFFICES ASSUME IInv, InitAPs PROVE IInv'
  OBVIOUS
<1> USE DEF IInv
<1>1. UNCHANGED core /\ CoreIndex' = CoreIndex
  BY DEF InitAPs, NextProcessor, FillTrampoline, SendInit, ClearSignal, SendSipi, WaitForSignal
<1>2. ASSUME \A p \in APs : ap[p] \in {"Signal", "Halted", "Take", "Increment", "Compare"}
                              \/ ap'[p] \in {"Signal", "Halted", "Take", "Increment", "Compare"}
                              => ap'[p] = ap[p]
      PROVE  Sentinel' /\ Counting'
  BY <1>1, <1>2 DEF Sentinel, Counting, Taken, core
<1>3. CASE NextProcessor
  <2>1. ap' = ap /\ APSignal' = APSignal /\ pc = "Loop"
    BY <1>3 DEF NextProcessor
  <2>2. Sentinel' /\ Counting'
    BY <2>1, <1>2
  <2>3. CASE processor > Len(ProcessorIds)
    BY <2>1, <2>2, <2>3, <1>1, <1>3, Processors
       DEF NextProcessor, Goto, TypeOK, BspInv, OneAtATime, TurnToCome, Handshake, core
  <2>4. CASE processor <= Len(ProcessorIds) /\ Target = BSPId
    BY <2>1, <2>2, <2>4, <1>1, <1>3, Processors
       DEF NextProcessor, Goto, TypeOK, BspInv, OneAtATime, TurnToCome, Handshake, core
  <2>5. CASE processor <= Len(ProcessorIds) /\ Target # BSPId
    BY <2>1, <2>2, <2>5, <1>1, <1>3, Processors
       DEF NextProcessor, Goto, TypeOK, BspInv, OneAtATime, TurnToCome, Handshake, core, Target
  <2> QED
    BY <2>3, <2>4, <2>5, Processors DEF TypeOK
<1>4. CASE FillTrampoline
  <2>1. Sentinel' /\ Counting'
    BY <1>2, <1>4 DEF FillTrampoline
  <2> QED
    BY <2>1, <1>1, <1>4
       DEF FillTrampoline, Goto, TypeOK, BspInv, OneAtATime, TurnToCome, Handshake, core
<1>5. CASE SendInit
  <2>1. processor \in DOMAIN ProcessorIds /\ trampoline = "Filled" /\ pc = "Init"
        /\ trampoline' = trampoline /\ APSignal' = APSignal /\ processor' = processor
    BY <1>5 DEF SendInit, BspInv, Goto
  <2>2. CASE Target = BspId
    <3>1. Sentinel' /\ Counting'
      BY <2>2, <1>2, <1>5 DEF SendInit
    <3> QED
      BY <3>1, <2>1, <2>2, <1>1, <1>5
         DEF SendInit, Goto, TypeOK, BspInv, OneAtATime, TurnToCome, Handshake, core
  <2>3. CASE Target # BspId
    <3>1. Target \in APs /\ ap[Target] = "Off" /\ Target' = Target
      BY <2>1, <2>3, Processors DEF Target, TurnToCome, Handshake
    <3>2. /\ pc' = "Clear" /\ ap' \in [APs -> {"Off", "WaitForSipi", "Halted"} \cup Starting]
          /\ ap'[Target] = "WaitForSipi"
          /\ \A p \in APs : p # Target => ap'[p] = ap[p]
      BY <3>1, <2>3, <1>5 DEF SendInit, Goto, TypeOK
    <3>3. Sentinel' /\ Counting'
      BY <3>1, <3>2, <1>2
    <3>4. TypeOK'
      BY <3>2, <2>1, <1>1 DEF TypeOK, core
    <3>5. BspInv'
      BY <3>1, <3>2, <2>1 DEF BspInv, Handshake
    <3>6. OneAtATime'
      BY <3>1, <3>2, <2>1 DEF OneAtATime, Handshake
    <3>7. TurnToCome'
      <4> SUFFICES ASSUME NEW i \in DOMAIN ProcessorIds, ProcessorIds[i] \in APs, i > processor
                   PROVE  ap'[ProcessorIds[i]] = "Off"
        BY <3>2, <2>1 DEF TurnToCome, Handshake
      <4>1. ProcessorIds[i] # Target
        BY <2>1, Processors, ProcessorAssumption DEF Target
      <4> QED
        BY <4>1, <3>2 DEF TurnToCome
    <3> QED
      BY <3>3, <3>4, <3>5, <3>6, <3>7
  <2> QED
    BY <2>2, <2>3
<1>6. CASE ClearSignal
  <2>1. Sentinel' /\ Counting'
    BY <1>2, <1>6 DEF ClearSignal
  <2> QED
    BY <2>1, <1>1, <1>6
       DEF ClearSignal, Goto, TypeOK, BspInv, OneAtATime, TurnToCome, Handshake, core, Target
<1>7. CASE SendSipi
  <2>1. /\ pc \in {"Sipi1", "Sipi2"} /\ pc' \in {"Sipi2", "Wait"} /\ Target \in APs
        /\ processor' = processor /\ trampoline' = trampoline /\ APSignal' = APSignal
        /\ Target' = Target
    BY <1>7 DEF SendSipi, Goto, BspInv, Handshake, Target
  <2>2. \/ ap' = ap
        \/ ap[Target] = "WaitForSipi" /\ ap' = [ap EXCEPT ![Target] = "Trampoline"]
    BY <1>7 DEF SendSipi, Delivered
  <2>3. /\ ap' \in [APs -> {"Off", "WaitForSipi", "Halted"} \cup Starting]
        /\ \A p \in APs : p # Target => ap'[p] = ap[p]
        /\ \/ ap'[Target] = ap[Target]
           \/ ap[Target] = "WaitForSipi" /\ ap'[Target] = "Trampoline"
    BY <2>1, <2>2 DEF TypeOK, Starting
  <2>4. Sentinel' /\ Counting'
    BY <2>1, <2>3, <1>2
  <2>5. TypeOK'
    BY <2>1, <2>3, <1>1 DEF TypeOK, core
  <2>6. BspInv'
    BY <2>1 DEF BspInv, Handshake
  <2>7. OneAtATime'
    BY <2>1, <2>3 DEF OneAtATime, Handshake, Active, Starting
  <2>8. TurnToCome'
    BY <2>1, <2>3 DEF TurnToCome, Handshake
  <2> QED
    BY <2>4, <2>5, <2>6, <2>7, <2>8
<1>8. CASE WaitForSignal
  <2>1. /\ pc = "Wait" /\ APSignal = TRUE /\ pc' = "Loop" /\ processor' = processor + 1
        /\ trampoline' = trampoline /\ APSignal' = APSignal /\ ap' = ap
    BY <1>8 DEF WaitForSignal, SignalSeen, TypeOK
  <2>2. processor \in 1 .. Len(ProcessorIds) /\ Target \in APs /\ ap[Target] = "Halted"
    BY <2>1, Processors DEF BspInv, OneAtATime, Handshake
  <2>3. \A p \in APs : ap[p] \notin Active
    BY <2>2 DEF OneAtATime, Active, Starting
  <2>4. Sentinel' /\ Counting'
    BY <2>1, <1>2
  <2>5. TypeOK'
    BY <2>1, <2>2, <1>1, Processors DEF TypeOK, core
  <2>6. BspInv' /\ OneAtATime'
    BY <2>1, <2>3 DEF BspInv, OneAtATime, Handshake
  <2>7. TurnToCome'
    BY <2>1, <2>2, Processors DEF TurnToCome, Handshake
  <2> QED
    BY <2>4, <2>5, <2>6, <2>7
<1> QED
  BY <1>3, <1>4, <1>5, <1>6, <1>7, <1>8 DEF InitAPs

-----------------------------------------------------------------------------
(* The steps of another processor.                                         *)

LEMMA ApStep ==
  ASSUME IInv, NEW p \in APs, LeaveTrampoline(p) \/ APEntryFunction(p)
  PROVE  IInv'
<1> USE DEF IInv
<1>1. bsp' = bsp /\ Target' = Target
  BY DEF LeaveTrampoline, APEntryFunction, StoreSentinel, IncrementSentinel,
         CompareSentinel, LoadIndex, TakeIndex, Signal, bsp, Target
<1>2. BspInv'
  BY <1>1 DEF BspInv, bsp
<1>3. /\ ap[p] \in Starting /\ \A q \in APs : q # p => ap'[q] = ap[q]
      /\ ap' \in [APs -> {"Off", "WaitForSipi", "Halted"} \cup Starting]
      /\ ap'[p] \notin {"Off", "WaitForSipi"}
  BY DEF LeaveTrampoline, APEntryFunction, StoreSentinel, IncrementSentinel,
         CompareSentinel, LoadIndex, TakeIndex, Signal, Step, TypeOK, Starting
<1>4. /\ pc \in Handshake \ {"Clear"} /\ p = Target /\ APSignal = FALSE
      /\ \A q \in APs : q # p => ap[q] \notin Active
  BY <1>1, <1>3 DEF OneAtATime, Active, Starting, TypeOK
<1>5. pc' = pc /\ processor' = processor /\ trampoline' = trampoline
  BY <1>1 DEF bsp
<1>6. TurnToCome'
  <2>1. ap[p] # "Off"
    BY <1>3 DEF Starting
  <2> QED
    BY <2>1, <1>3, <1>5 DEF TurnToCome
<1>7. ASSUME APSignal' = APSignal, ap'[p] # "Halted"
      PROVE  OneAtATime'
  BY <1>1, <1>3, <1>4, <1>5, <1>7 DEF OneAtATime, Active, Starting
<1>8. ASSUME UNCHANGED <<CoreIndex, NewCoreIndex, loaded>>,
             ap[p] \notin {"Take", "Signal"}, ap'[p] \notin {"Take", "Signal", "Halted"}
      PROVE  Counting'
  BY <1>3, <1>8 DEF Counting, Taken, Starting
<1>9. CASE LeaveTrampoline(p)
  <2>1. /\ ap[p] = "Trampoline" /\ ap'[p] = "Store"
        /\ UNCHANGED <<APSignal, CoreIndex, core>>
    BY <1>9 DEF LeaveTrampoline, Step, TypeOK
  <2>2. TypeOK'
    BY <2>1, <1>3, <1>5 DEF TypeOK, core
  <2>3. Sentinel'
    BY <2>1, <1>3 DEF Sentinel, core
  <2> QED
    BY <2>1, <2>2, <2>3, <1>2, <1>6, <1>7, <1>8 DEF core
<1>10. CASE StoreSentinel(p)
  <2>1. /\ ap[p] = "Store" /\ ap'[p] = "Increment" /\ TestValue' = 0
        /\ UNCHANGED <<APSignal, CoreIndex, loaded, NewCoreIndex, asserted>>
    BY <1>10 DEF StoreSentinel, Step, TypeOK
  <2>2. TypeOK'
    BY <2>1, <1>3, <1>5 DEF TypeOK
  <2>3. Sentinel'
    BY <2>1, <1>3, <1>4 DEF Sentinel, Active, Starting
  <2> QED
    BY <2>1, <2>2, <2>3, <1>2, <1>6, <1>7, <1>8
<1>11. CASE IncrementSentinel(p)
  <2>1. /\ ap[p] = "Increment" /\ ap'[p] = "Compare" /\ TestValue' = TestValue + 1
        /\ UNCHANGED <<APSignal, CoreIndex, loaded, NewCoreIndex, asserted>>
    BY <1>11 DEF IncrementSentinel, Step, TypeOK
  <2>2. TypeOK'
    BY <2>1, <1>3, <1>5 DEF TypeOK
  <2>3. Sentinel'
    BY <2>1, <1>3, <1>4 DEF Sentinel, Active, Starting
  <2> QED
    BY <2>1, <2>2, <2>3, <1>2, <1>6, <1>7, <1>8
<1>12. CASE CompareSentinel(p)
  <2>1. /\ ap[p] = "Compare" /\ ap'[p] = "Load" /\ TestValue = 1
        /\ UNCHANGED <<APSignal, CoreIndex, TestValue, loaded, NewCoreIndex>>
    BY <1>12 DEF CompareSentinel, Step, TypeOK, Sentinel
  <2>2. asserted' \in BOOLEAN /\ ~asserted'
    BY <2>1, <1>12 DEF CompareSentinel, Sentinel
  <2>3. TypeOK'
    BY <2>1, <2>2, <1>3, <1>5 DEF TypeOK
  <2>4. Sentinel'
    BY <2>1, <2>2, <1>3 DEF Sentinel
  <2> QED
    BY <2>1, <2>3, <2>4, <1>2, <1>6, <1>7, <1>8
<1>13. CASE LoadIndex(p)
  <2>1. /\ ap[p] = "Load" /\ ap'[p] = "Take"
        /\ loaded' \in [APs -> 0 .. Cardinality(APs)] /\ loaded'[p] = CoreIndex
        /\ \A q \in APs : q # p => loaded'[q] = loaded[q]
        /\ UNCHANGED <<APSignal, CoreIndex, TestValue, NewCoreIndex, asserted>>
    BY <1>13 DEF LoadIndex, Step, TypeOK
  <2>2. TypeOK'
    BY <2>1, <1>3, <1>5 DEF TypeOK
  <2>3. Sentinel'
    BY <2>1, <1>3 DEF Sentinel
  <2>4. Counting'
    BY <2>1, <1>3 DEF Counting, Taken
  <2> QED
    BY <2>1, <2>2, <2>3, <2>4, <1>2, <1>6, <1>7
<1>14. CASE TakeIndex(p)
  <2>1. /\ ap[p] = "Take" /\ ap'[p] = "Signal" /\ loaded[p] = CoreIndex
        /\ CoreIndex' = CoreIndex + 1
        /\ UNCHANGED <<APSignal, TestValue, loaded, asserted>>
    BY <1>14 DEF TakeIndex, Step, TypeOK, Counting
  <2>2. p \notin Taken /\ Taken \in SUBSET APs
    BY <2>1 DEF Counting, Taken
  <2>3. CoreIndex \in 0 .. Cardinality(APs) - 1
    <3>1. Cardinality(Taken) \in 0 .. Cardinality(APs) /\ Cardinality(Taken) < Cardinality(APs)
      BY <2>2, TakenSize
    <3> QED
      BY <3>1, Processors DEF Counting
  <2>4. /\ NewCoreIndex'[p] = CoreIndex
        /\ \A q \in APs : q # p => NewCoreIndex'[q] = NewCoreIndex[q]
        /\ NewCoreIndex' \in [APs -> (0 .. Cardinality(APs) - 1) \cup {NoIndex}]
    BY <2>1, <2>3, <1>14 DEF TakeIndex, TypeOK
  <2>5. CoreIndex # NoIndex
    BY <2>3, Processors DEF NoIndex
  <2>6. Taken' = Taken \cup {p}
    BY <2>2, <2>4, <2>5 DEF Taken, NoIndex
  <2>7. TypeOK'
    <3>1. CoreIndex' \in 0 .. Cardinality(APs)
      BY <2>1, <2>3, Processors
    <3> QED
      BY <3>1, <2>1, <2>4, <1>3, <1>5 DEF TypeOK, NoIndex
  <2>8. Sentinel'
    BY <2>1, <1>3 DEF Sentinel
  <2>9. Counting'
    <3>1. CoreIndex' = Cardinality(Taken')
      BY <2>1, <2>2, <2>6, TakenSize DEF Counting
    <3>2. \A q \in APs : /\ q \in Taken' <=> ap'[q] \in {"Signal", "Halted"}
                         /\ ap'[q] = "Take" => loaded'[q] = CoreIndex'
      BY <2>1, <2>6, <1>3, <1>4 DEF Counting, Active, Starting
    <3>3. \A q \in Taken : NewCoreIndex[q] < CoreIndex /\ NewCoreIndex'[q] = NewCoreIndex[q]
      BY <2>2, <2>4 DEF Counting
    <3>4. \A q \in Taken : NewCoreIndex[q] \in Int
      BY Processors DEF TypeOK, Taken
    <3>5. \A q \in Taken' : NewCoreIndex'[q] < CoreIndex'
      BY <3>3, <3>4, <2>1, <2>3, <2>4, <2>6, Processors
    <3>6. \A q, r \in Taken' : q # r => NewCoreIndex'[q] # NewCoreIndex'[r]
      BY <3>3, <3>4, <2>3, <2>4, <2>6 DEF Counting
    <3> QED
      BY <3>1, <3>2, <3>5, <3>6 DEF Counting
  <2> QED
    BY <2>1, <2>7, <2>8, <2>9, <1>2, <1>6, <1>7
<1>15. CASE Signal(p)
  <2>1. /\ ap[p] = "Signal" /\ ap'[p] = "Halted" /\ APSignal' = TRUE
        /\ UNCHANGED <<CoreIndex, core>>
    BY <1>15 DEF Signal, Step, TypeOK
  <2>2. TypeOK'
    BY <2>1, <1>3, <1>5 DEF TypeOK, core
  <2>3. Sentinel'
    BY <2>1, <1>3 DEF Sentinel, core
  <2>4. Counting'
    BY <2>1, <1>3 DEF Counting, Taken, core
  <2>5. OneAtATime'
    BY <2>1, <1>1, <1>3, <1>4, <1>5 DEF OneAtATime, Active, Starting
  <2> QED
    BY <2>2, <2>3, <2>4, <2>5, <1>2, <1>6
<1> QED
  BY <1>9, <1>10, <1>11, <1>12, <1>13, <1>14, <1>15 DEF APEntryFunction

-----------------------------------------------------------------------------
(* The theorems.                                                           *)

LEMMA SpecIInv == Spec => []IInv
<1>1. IInv /\ UNCHANGED vars => IInv'
  BY DEF vars, bsp, core, IInv, TypeOK, BspInv, OneAtATime, TurnToCome, Sentinel, Counting,
         Taken, Target
<1>2. IInv /\ [Next]_vars => IInv'
  BY <1>1, BspStep, ApStep DEF Next
<1> QED
  BY <1>2, InitIInv, PTL DEF Spec

\* Type correctness, for any number of processors and any order of the MADT.
THEOREM TypeCorrect == Spec => []TypeOK
<1>1. IInv => TypeOK
  BY DEF IInv
<1> QED
  BY <1>1, SpecIInv, PTL

\* "Sentinel mismatch" never fires, although the sentinel lies on a stack that
\* all processors share.
THEOREM SentinelHolds == Spec => []NoAssertionFires
<1>1. IInv => NoAssertionFires
  BY DEF IInv, Sentinel, NoAssertionFires
<1> QED
  BY <1>1, SpecIInv, PTL

\* InitAPs never writes the trampoline while a processor runs in it.
THEOREM TrampolineSafe == Spec => []TrampolineIntact
<1>1. IInv => TrampolineIntact
  BY DEF IInv, BspInv, OneAtATime, TrampolineIntact, Active, Starting
<1> QED
  BY <1>1, SpecIInv, PTL

\* The unprotected CoreIndex++ gives every processor an index of its own, and
\* the indices given are the first ones.
THEOREM IndicesUnique == Spec => []IndicesDistinct
<1>1. IInv => IndicesDistinct
  BY DEF IInv, Counting, Taken, IndicesDistinct
<1> QED
  BY <1>1, SpecIInv, PTL
=============================================================================
