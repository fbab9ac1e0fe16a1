------------------------------ MODULE AhciProofs ----------------------------
(***************************************************************************)
(* For every number of ports, whatever is attached to them and whatever    *)
(* the drives do, the controller works only with addresses of the driver.  *)
(* The addresses of a port are the driver's from the step that writes them *)
(* on; what has to be shown is that nothing has made the controller use    *)
(* them before: FIS reception is off from the reset on (Quiet), and neither*)
(* it nor a command is switched on but past that step (Owned).             *)
(*                                                                         *)
(* And a read delivers the sectors it was asked for: the buffer holds as   *)
(* much of them as the command in progress has transferred (Filled).       *)
(***************************************************************************)
EXTENDS Ahci, TLAPS

Register ==
    [kind : Kinds, Signature : {"zero", "ones", "ata", "atapi"},
     ST : BOOLEAN, FRE : BOOLEAN, CR : BOOLEAN, FR : BOOLEAN,
     CommandListBase : {"firmware", "driver"}, FISBase : {"firmware", "driver"},
     CommandIssue : SUBSET {0, 1}, InterruptStatus : SUBSET {"TFES", "SDBS", "DMPS"},
     TaskFileError : BOOLEAN, SATAError : BOOLEAN, stuck : BOOLEAN]

Early == {"bus", "handoff", "reset", "resetting"}
Based == {"power", "settle", "restart", "check", "start", "issue", "wait", "idle"}
Places == Early \cup Based \cup {"stop", "stopping", "setup", "bases", "mount", "absent", "halted"}

TypeOK ==
    /\ hba \in [boh : BOOLEAN, bios : BOOLEAN, os : BOOLEAN, HR : BOOLEAN, AE : BOOLEAN]
    /\ port \in [Ports -> Register]
    /\ pc \in Places /\ after \in {"setup", "power"}
    /\ cur \in Ports /\ slot \in {0, 1}
    /\ enabled \in [Ports -> BOOLEAN]

\* The controller is enabled once the early places are behind.
Phase ==
    /\ hba.AE <=> pc \notin Early
    /\ hba.HR => pc = "resetting"
    /\ pc \in Early => after = "setup"

\* Between the end of its reset and its being enabled nothing is running.
Quiet ==
    pc = "resetting" /\ ~hba.HR =>
        \A p \in Ports : ~port[p].FRE /\ ~port[p].FR /\ port[p].CommandIssue = {}

HasBases(p) == port[p].CommandListBase = "driver" /\ port[p].FISBase = "driver"

\* The driver is past the step that writes the addresses of the port it works on.
Owned ==
    /\ (pc \in Based \/ (pc \in {"stop", "stopping"} /\ after = "power")) => HasBases(cur)
    /\ \A p \in Ports : enabled[p] => HasBases(p)

\* Reception runs, or has been asked for, or commands are issued, only there.
InUseHasBases ==
    hba.AE => \A p \in Ports :
        /\ port[p].FR \/ port[p].FRE => port[p].FISBase = "driver"
        /\ port[p].CommandIssue # {} => port[p].CommandListBase = "driver"

Inv == TypeOK /\ Phase /\ Quiet /\ Owned /\ InUseHasBases

-----------------------------------------------------------------------------

\* Every initial state satisfies the invariant: nothing is enabled yet.
LEMMA InitInv == Init => Inv
  <1> SUFFICES ASSUME Init PROVE Inv
    OBVIOUS
  <1>1. TypeOK
    BY AhciAssumption DEF Init, TypeOK, Register, HBAPort, Ports, Places, Early
  <1>2. Phase /\ Quiet /\ Owned /\ InUseHasBases
    BY <1>1 DEF Init, TypeOK, Phase, Quiet, Owned, InUseHasBases, Early, Based
  <1> QED
    BY <1>1, <1>2 DEF Inv

-----------------------------------------------------------------------------
(* What the accesses to a port's registers do.                             *)

\* A register r that takes the place of s keeps its addresses, and starts nothing.
Tame(r, s) ==
    /\ r.CommandListBase = s.CommandListBase /\ r.FISBase = s.FISBase
    /\ r.FR \/ r.FRE => s.FR \/ s.FRE
    /\ r.CommandIssue # {} => s.CommandIssue # {}

\* Stopping an engine, the stray write of ST, clearing the status, and all that
\* the controller and the drive do on their own.
LEMMA TameAccesses ==
  ASSUME NEW r \in Register, NEW s \in {0, 1}, NEW stays \in BOOLEAN
  PROVE  /\ Stop(r) \in Register /\ Tame(Stop(r), r)
         /\ WriteCommand(r) \in Register /\ Tame(WriteCommand(r), r)
         /\ Clear(r) \in Register /\ Tame(Clear(r), r)
         /\ FollowST(r) \in Register /\ Tame(FollowST(r), r)
         /\ FollowFRE(r) \in Register /\ Tame(FollowFRE(r), r)
         /\ Sign(r) \in Register /\ Tame(Sign(r), r)
         /\ Complete(r, s) \in Register /\ Tame(Complete(r, s), r)
         /\ Fail(r, s, stays) \in Register /\ Tame(Fail(r, s, stays), r)
         /\ LoseLink(r) \in Register /\ Tame(LoseLink(r), r)
  <1>1. Stop(r) \in Register /\ Tame(Stop(r), r)
    BY DEF Stop, Register, Tame
  <1>2. WriteCommand(r) \in Register /\ Tame(WriteCommand(r), r)
    BY DEF WriteCommand, Register, Tame
  <1>3. Clear(r) \in Register /\ Tame(Clear(r), r)
    BY DEF Clear, Register, Tame
  <1>4. FollowST(r) \in Register /\ Tame(FollowST(r), r)
    BY DEF FollowST, Register, Tame
  <1>5. FollowFRE(r) \in Register /\ Tame(FollowFRE(r), r)
    BY DEF FollowFRE, Register, Tame
  <1>6. Sign(r) \in Register /\ Tame(Sign(r), r)
    BY DEF Sign, Register, Tame
  <1>7. Complete(r, s) \in Register /\ Tame(Complete(r, s), r)
    BY DEF Complete, Register, Tame
  <1>8. Fail(r, s, stays) \in Register /\ Tame(Fail(r, s, stays), r)
    BY DEF Fail, Register, Tame
  <1>9. LoseLink(r) \in Register /\ Tame(LoseLink(r), r)
    BY DEF LoseLink, Register, Tame
  <1> QED
    BY <1>1, <1>2, <1>3, <1>4, <1>5, <1>6, <1>7, <1>8, <1>9

\* Writing the addresses, and what is only done to a port that has them.
LEMMA OwningAccesses ==
  ASSUME NEW r \in Register, NEW s \in {0, 1}
  PROVE  /\ SetBases(r) \in Register
         /\ SetBases(r).CommandListBase = "driver" /\ SetBases(r).FISBase = "driver"
         /\ PowerOn(r) \in Register
         /\ PowerOn(r).CommandListBase = r.CommandListBase /\ PowerOn(r).FISBase = r.FISBase
         /\ Restart(r) \in Register
         /\ Restart(r).CommandListBase = r.CommandListBase /\ Restart(r).FISBase = r.FISBase
         /\ Issue(r, s) \in Register
         /\ Issue(r, s).CommandListBase = r.CommandListBase /\ Issue(r, s).FISBase = r.FISBase
  BY DEF SetBases, PowerOn, Restart, Issue, Register

\* A reset stops all.
LEMMA ResetAccess ==
  ASSUME NEW r \in Register
  PROVE  /\ Reset(r) \in Register
         /\ Reset(r).CommandListBase = r.CommandListBase /\ Reset(r).FISBase = r.FISBase
         /\ ~Reset(r).FRE /\ ~Reset(r).FR /\ Reset(r).CommandIssue = {}
  BY DEF Reset, Register

\* A tame access to any port, at any time, keeps the invariant, as long as the
\* driver does not go on to a place that needs the addresses.
LEMMA TameStep ==
  ASSUME Inv, NEW p \in Ports, NEW r \in Register, Tame(r, port[p]),
         port' = [port EXCEPT ![p] = r],
         UNCHANGED <<hba, after, cur, slot, enabled>>,
         \/ pc' = pc
         \/ pc = "stop" /\ pc' = "stopping"
         \/ pc = "setup" /\ pc' = "bases"
         \/ pc = "start" /\ pc' = "issue"
  PROVE  Inv'
  <1>1. TypeOK' /\ Phase'
    BY DEF Inv, TypeOK, Phase, Places, Early, Based
  <1>2. \A q \in Ports : Tame(port'[q], port[q])
    BY DEF Inv, TypeOK, Tame
  <1>3. Quiet' /\ Owned' /\ InUseHasBases'
    BY <1>1, <1>2 DEF Inv, TypeOK, Phase, Quiet, Owned, InUseHasBases, HasBases, Tame, Early, Based
  <1> QED
    BY <1>1, <1>3 DEF Inv

\* An access to the port the driver works on that leaves it with the driver's
\* addresses keeps the invariant, once the controller has been enabled.
LEMMA OwningStep ==
  ASSUME Inv, NEW r \in Register, r.CommandListBase = "driver", r.FISBase = "driver",
         port' = [port EXCEPT ![cur] = r],
         pc \notin Early, pc' \in Places \ Early, after' \in {"setup", "power"},
         UNCHANGED <<hba, cur, slot, enabled>>
  PROVE  Inv'
  <1>1. TypeOK' /\ Phase'
    BY DEF Inv, TypeOK, Phase, Places, Early, Based
  <1>2. port'[cur] = r /\ \A q \in Ports : q # cur => port'[q] = port[q]
    BY DEF Inv, TypeOK
  <1>3. HasBases(cur)' /\ \A q \in Ports : HasBases(q) => HasBases(q)'
    BY <1>2 DEF Inv, TypeOK, HasBases
  <1>4. Quiet' /\ Owned' /\ InUseHasBases'
    BY <1>1, <1>2, <1>3 DEF Inv, TypeOK, Phase, Quiet, Owned, InUseHasBases, HasBases, Early, Based
  <1> QED
    BY <1>1, <1>4 DEF Inv

-----------------------------------------------------------------------------
(* One lemma per part of the next-state relation.                          *)

\* The steps of the boot before the ports, with the reset itself.
LEMMA EarlySteps ==
  ASSUME Inv, SataBus_Initialize \/ HandoffDone \/ ResetHBA \/ HBAReady \/ FirmwareReleases
  PROVE  Inv'
  <1> USE DEF Inv, driver
  <1>1. CASE SataBus_Initialize
    BY <1>1 DEF SataBus_Initialize, TypeOK, Phase, Quiet, Owned, InUseHasBases, HasBases, Early, Based, Places
  <1>2. CASE HandoffDone
    BY <1>2 DEF HandoffDone, TypeOK, Phase, Quiet, Owned, InUseHasBases, HasBases, Early, Based, Places
  <1>3. CASE ResetHBA
    BY <1>3 DEF ResetHBA, TypeOK, Phase, Quiet, Owned, InUseHasBases, HasBases, Early, Based, Places
  <1>4. CASE HBAReady
    BY <1>4 DEF HBAReady, TypeOK, Phase, Quiet, Owned, InUseHasBases, HasBases, Early, Based, Places
  <1>5. CASE FirmwareReleases
    BY <1>5 DEF FirmwareReleases, TypeOK, Phase, Quiet, Owned, InUseHasBases, HasBases, Early, Based, Places
  <1> QED
    BY <1>1, <1>2, <1>3, <1>4, <1>5

\* The reset of the controller stops every port.
LEMMA ResetStep ==
  ASSUME Inv, HBAResets PROVE Inv'
  <1> USE DEF driver
  <1>1. \A p \in Ports : port'[p] = Reset(port[p]) /\ port[p] \in Register
    BY DEF Inv, HBAResets, TypeOK
  <1>2. TypeOK' /\ Phase'
    BY <1>1, ResetAccess DEF Inv, HBAResets, TypeOK, Phase, Early
  <1>3. \A p \in Ports : /\ port'[p].CommandListBase = port[p].CommandListBase
                         /\ port'[p].FISBase = port[p].FISBase
                         /\ ~port'[p].FRE /\ ~port'[p].FR /\ port'[p].CommandIssue = {}
    BY <1>1, ResetAccess
  <1>4. Quiet' /\ Owned' /\ InUseHasBases'
    BY <1>2, <1>3 DEF Inv, HBAResets, TypeOK, Phase, Quiet, Owned, InUseHasBases, HasBases
  <1> QED
    BY <1>2, <1>4 DEF Inv

\* A port is stopped, given its addresses and started again.
LEMMA PortSteps ==
  ASSUME Inv,
         \/ StopCommandEngine \/ EngineStopped \/ InitializeCommand \/ InitializeBases
         \/ ResetPort \/ PortSettled \/ PortRestarted
  PROVE  Inv'
  <1> USE DEF driver
  <1>0. cur \in Ports /\ port[cur] \in Register
    BY DEF Inv, TypeOK
  <1>1. CASE StopCommandEngine
    BY <1>0, <1>1, TameAccesses, TameStep DEF StopCommandEngine
  <1>2. CASE EngineStopped
    BY <1>2 DEF EngineStopped, Inv, TypeOK, Phase, Quiet, Owned, InUseHasBases, HasBases, Early, Based, Places
  <1>3. CASE InitializeCommand
    BY <1>0, <1>3, TameAccesses, TameStep DEF InitializeCommand
  <1>4. CASE InitializeBases
    BY <1>0, <1>4, OwningAccesses, OwningStep DEF InitializeBases, Early, Places
  <1>5. CASE ResetPort
    <2>1. HasBases(cur)
      BY <1>5 DEF ResetPort, Inv, Owned, Based
    <2> QED
      BY <1>0, <1>5, <2>1, OwningAccesses, OwningStep DEF ResetPort, HasBases, Inv, TypeOK, Early, Based, Places
  <1>6. CASE PortSettled
    BY <1>6 DEF PortSettled, Inv, TypeOK, Phase, Quiet, Owned, InUseHasBases, HasBases, Early, Based, Places
  <1>7. CASE PortRestarted
    <2>1. HasBases(cur)
      BY <1>7 DEF PortRestarted, Inv, Owned, Based
    <2> QED
      BY <1>0, <1>7, <2>1, OwningAccesses, OwningStep DEF PortRestarted, HasBases, Inv, TypeOK, Early, Based, Places
  <1> QED
    BY <1>1, <1>2, <1>3, <1>4, <1>5, <1>6, <1>7

\* The driver goes on to the next port, or to the mount.
LEMMA NextPortStep ==
  ASSUME Inv, NextPort, pc \notin Early, UNCHANGED <<hba, port, slot>>,
         enabled' \in [Ports -> BOOLEAN],
         \A p \in Ports : enabled'[p] => HasBases(p)
  PROVE  Inv'
  BY AhciAssumption DEF Inv, NextPort, TypeOK, Ports, Phase, Quiet, Owned, InUseHasBases, HasBases, Early, Based, Places

\* A port is looked at, its drive identified, and the volume mounted.
LEMMA DriveSteps ==
  ASSUME Inv, CheckPort \/ IdentifyDrive \/ CdRomDevice_Initialize
  PROVE  Inv'
  <1>1. CASE CheckPort
    <2>1. CASE IsATAPI(cur) /\ IpmActive(cur) /\ DetPresent(cur)
      BY <1>1, <2>1 DEF CheckPort, Inv, data, TypeOK, Phase, Quiet, Owned, InUseHasBases, HasBases, Early, Based, Places
    <2>2. CASE ~(IsATAPI(cur) /\ IpmActive(cur) /\ DetPresent(cur))
      BY <1>1, <2>2, NextPortStep DEF CheckPort, Inv, TypeOK, Owned, Early
    <2> QED
      BY <2>1, <2>2
  <1>2. CASE IdentifyDrive
    <2>1. CASE Broken
      BY <1>2, <2>1 DEF IdentifyDrive, Inv, data, TypeOK, Phase, Quiet, Owned, InUseHasBases, HasBases, Early, Based, Places
    <2>2. CASE ~Broken
      <3>1. enabled' \in [Ports -> BOOLEAN] /\ \A p \in Ports : enabled'[p] => HasBases(p)
        BY <1>2, <2>2 DEF IdentifyDrive, Inv, TypeOK, Owned, Based
      <3> QED
        BY <1>2, <2>2, <3>1, NextPortStep DEF IdentifyDrive, Early
    <2> QED
      BY <2>1, <2>2
  <1>3. CASE CdRomDevice_Initialize
    BY <1>3, AhciAssumption DEF CdRomDevice_Initialize, IsActive, Inv, data, TypeOK, Phase, Quiet, Owned, InUseHasBases, HasBases, Early, Based, Places
  <1> QED
    BY <1>1, <1>2, <1>3

\* A command is issued: the status is cleared, then the slot set.
LEMMA StartingStep ==
  ASSUME Inv, Starting PROVE Inv'
  <1>0. cur \in Ports /\ port[cur] \in Register /\ slot \in {0, 1} /\ HasBases(cur)
    BY DEF Inv, TypeOK, Starting, Owned, Based
  <1>1. CASE pc = "start"
    BY <1>0, <1>1, TameAccesses, TameStep DEF Starting, StartCommand, driver
  <1>2. CASE pc = "issue"
    BY <1>0, <1>2, OwningAccesses, OwningStep
       DEF Starting, StartCommand, driver, HasBases, Inv, TypeOK, Early, Based, Places
  <1> QED
    BY <1>1, <1>2 DEF Starting

\* A read is asked for, and ends.  No register is written.
LEMMA ReadSteps ==
  ASSUME Inv, disk_read \/ ReadToc \/ CommandEnds
  PROVE  Inv'
  <1>1. CASE disk_read \/ ReadToc
    <2>1. /\ pc = "idle" /\ pc' = "start" /\ slot' \in {0, 1}
          /\ UNCHANGED <<hba, port, after, cur, enabled>>
      BY <1>1 DEF disk_read, ReadToc, CdromVolume_Read, Prepare, ReadSectors, ReadSectorsCD, ReadSectorsSATA
    <2> QED
      BY <2>1 DEF Inv, TypeOK, Phase, Quiet, Owned, InUseHasBases, HasBases, Early, Based, Places
  <1>2. CASE CommandEnds
    <2>1. /\ pc = "wait" /\ pc' \in {"idle", "halted"}
          /\ UNCHANGED <<hba, port, after, cur, slot, enabled>>
      BY <1>2 DEF CommandEnds
    <2> QED
      BY <2>1 DEF Inv, TypeOK, Phase, Quiet, Owned, InUseHasBases, HasBases, Early, Based, Places
  <1> QED
    BY <1>1, <1>2

\* What the controller and the drives do on their own is tame.
LEMMA DeviceSteps ==
  ASSUME Inv,
         \/ \E p \in Ports : EngineFollows(p) \/ PostsSignature(p)
         \/ Transfers \/ Completes \/ Fails \/ LinkError
  PROVE  Inv'
  <1> USE DEF driver
  <1>0. /\ cur \in Ports /\ slot \in {0, 1}
        /\ \A p \in Ports : port[p] \in Register
    BY DEF Inv, TypeOK
  <1>1. ASSUME NEW p \in Ports, EngineFollows(p) PROVE Inv'
    BY <1>0, <1>1, TameAccesses, TameStep DEF EngineFollows
  <1>2. ASSUME NEW p \in Ports, PostsSignature(p) PROVE Inv'
    BY <1>0, <1>2, TameAccesses, TameStep DEF PostsSignature
  <1>3. CASE Transfers
    BY <1>3 DEF Transfers, Inv, TypeOK, Phase, Quiet, Owned, InUseHasBases, HasBases
  <1>4. CASE Completes
    BY <1>0, <1>4, TameAccesses, TameStep DEF Completes
  <1>5. CASE Fails
    <2>1. PICK stays \in BOOLEAN : port' = [port EXCEPT ![cur] = Fail(@, slot, stays)]
      BY <1>5 DEF Fails
    <2> QED
      BY <1>0, <1>5, <2>1, TameAccesses, TameStep DEF Fails
  <1>6. CASE LinkError
    BY <1>0, <1>6, TameAccesses, TameStep DEF LinkError
  <1> QED
    BY <1>1, <1>2, <1>3, <1>4, <1>5, <1>6

\* Every step keeps the invariant.
LEMMA NextInv == Inv /\ [Next]_vars => Inv'
  <1> SUFFICES ASSUME Inv, [Next]_vars PROVE Inv'
    OBVIOUS
  <1>1. CASE UNCHANGED vars
    BY <1>1 DEF vars, Inv, TypeOK, Phase, Quiet, Owned, InUseHasBases, HasBases
  <1>2. CASE Next
    BY <1>2, EarlySteps, ResetStep, PortSteps, DriveSteps, StartingStep, ReadSteps, DeviceSteps
       DEF Next, Driver, Controller, Drive
  <1> QED
    BY <1>1, <1>2

-----------------------------------------------------------------------------

(* Whatever the number of ports, what is attached to them and what the     *)
(* drives do, the controller receives nothing and takes up no command      *)
(* through an address of the firmware once it has been reset (cdrom.cpp,   *)
(* CdromPort::Initialize; sata.cpp, ResetPort).                            *)
THEOREM AddressesAreDrivers == Spec => []BasesAreDrivers
  <1>1. Inv => BasesAreDrivers
    BY DEF Inv, InUseHasBases, BasesAreDrivers
  <1> QED
    BY <1>1, InitInv, NextInv, PTL DEF Spec

-----------------------------------------------------------------------------
(* What a read delivers.  All reads share one buffer, and nothing looks at *)
(* it but the byte count of the command: a read is right because a command *)
(* that has left the list without an error has transferred all its sectors *)
(* (Answered), and as many sectors of the buffer hold what it asked for    *)
(* (Filled) as it has transferred.                                         *)

Commanding == {"start", "issue", "wait"}
Command == [kind : {"none", "identify", "packet", "dma", "toc"}, lba : Nat, count : Nat]

DataType ==
    /\ command \in [{0, 1} -> Command] /\ prdbc \in Nat /\ temp \in Seq(Int)
    /\ request \in [offset : Nat, size : Nat]

\* The boot drive is still the one that was found; it never becomes another.
Mounted == (pc = "idle" \/ (pc \in Commanding /\ command[slot].kind # "identify")) => IsATAPI(CdPort)

\* The command in progress is for the sectors around the request.
Asked ==
    pc \in Commanding =>
        /\ command[slot].kind \in {"identify", "packet", "toc"}
        /\ command[slot].kind = "toc" => request.size = 0
        /\ command[slot].kind = "packet" =>
              /\ command[slot].lba = StartSector(request.offset)
              /\ command[slot].count = 1 + SectorCount(request.offset, request.size)
              /\ command[slot].count * SectorUnits <= Len(temp)

Filled ==
    pc \in Commanding /\ command[slot].kind = "packet" =>
        /\ prdbc <= command[slot].count
        /\ \A i \in 1 .. prdbc * SectorUnits : temp[i] = command[slot].lba * SectorUnits + i - 1

Answered ==
    pc = "wait" /\ command[slot].kind = "packet"
      /\ slot \notin port[cur].CommandIssue /\ ~port[cur].TaskFileError
    => prdbc = command[slot].count

\* What has been delivered is right at all times, not only between reads.
Delivered ==
    /\ Len(buffer) \in {0, request.size}
    /\ \A i \in DOMAIN buffer : buffer[i] = request.offset + i - 1

DataInv == DataType /\ Mounted /\ Asked /\ Filled /\ Answered /\ Delivered

\* Arithmetic of sectors and units.
LEMMA Units ==
  ASSUME NEW offset \in Nat, NEW size \in Nat
  PROVE  /\ StartSector(offset) \in Nat
         /\ StartSector(offset) * SectorUnits \in Nat
         /\ StartSector(offset) * SectorUnits <= offset
         /\ SectorCount(offset, size) \in Nat
         /\ (1 + SectorCount(offset, size)) * SectorUnits
              >= SectorUnits + offset + size - StartSector(offset) * SectorUnits
  <1> DEFINE a == offset \div SectorUnits
             b == (offset + size + SectorUnits - 1) \div SectorUnits
  <1>1. a \in Nat /\ a * SectorUnits \in Nat /\ a * SectorUnits <= offset
    BY AhciAssumption
  <1>2. b \in Nat /\ b >= a /\ b * SectorUnits >= offset + size
    BY AhciAssumption
  <1>3. (1 + (b - a)) * SectorUnits = SectorUnits + b * SectorUnits - a * SectorUnits
    <2> HIDE DEF a, b
    <2> QED
      BY <1>1, <1>2, AhciAssumption
  <1>4. StartSector(offset) = a /\ SectorCount(offset, size) = b - a
    BY DEF StartSector, SectorCount
  <1>5. b * SectorUnits \in Int
    BY <1>2, AhciAssumption
  <1> HIDE DEF a, b
  <1> QED
    BY <1>1, <1>2, <1>3, <1>4, <1>5, AhciAssumption

\* One sector more.
LEMMA NextSector ==
  ASSUME NEW n \in Nat, NEW m \in Nat, n < m
  PROVE  /\ n * SectorUnits \in Nat /\ (n + 1) * SectorUnits = n * SectorUnits + SectorUnits
         /\ m * SectorUnits \in Nat /\ (n + 1) * SectorUnits <= m * SectorUnits
  BY AhciAssumption

\* No access but the first FIS changes a signature.
LEMMA Signatures ==
  ASSUME NEW r \in Register, NEW s \in {0, 1}, NEW stays \in BOOLEAN
  PROVE  /\ Stop(r).Signature = r.Signature /\ WriteCommand(r).Signature = r.Signature
         /\ SetBases(r).Signature = r.Signature /\ PowerOn(r).Signature = r.Signature
         /\ Restart(r).Signature = r.Signature /\ Clear(r).Signature = r.Signature
         /\ Issue(r, s).Signature = r.Signature /\ Reset(r).Signature = r.Signature
         /\ FollowST(r).Signature = r.Signature /\ FollowFRE(r).Signature = r.Signature
         /\ Complete(r, s).Signature = r.Signature /\ Fail(r, s, stays).Signature = r.Signature
         /\ LoseLink(r).Signature = r.Signature
  BY DEF Stop, WriteCommand, SetBases, PowerOn, Restart, Clear, Issue, Reset, FollowST, FollowFRE,
         Complete, Fail, LoseLink, Register

\* What becomes of the list of commands and of the error while a command is waited for.
LEMMA Lists ==
  ASSUME NEW r \in Register, NEW s \in {0, 1}, NEW stays \in BOOLEAN
  PROVE  /\ FollowST(r).CommandIssue = r.CommandIssue /\ FollowST(r).TaskFileError = r.TaskFileError
         /\ FollowFRE(r).CommandIssue = r.CommandIssue /\ FollowFRE(r).TaskFileError = r.TaskFileError
         /\ Sign(r).CommandIssue = r.CommandIssue /\ Sign(r).TaskFileError = r.TaskFileError
         /\ LoseLink(r).CommandIssue = r.CommandIssue /\ LoseLink(r).TaskFileError = r.TaskFileError
         /\ s \in Issue(r, s).CommandIssue /\ Fail(r, s, stays).TaskFileError
  BY DEF FollowST, FollowFRE, Sign, LoseLink, Issue, Fail, Register

\* A step that leaves the data alone keeps what is known of it, if it does
\* not come to a place that claims more and no command leaves the list.
LEMMA IdleData ==
  ASSUME Inv, DataInv, UNCHANGED <<prdbc, temp, request, buffer>>,
         command' \in [{0, 1} -> Command],
         \/ pc' \notin Commanding /\ pc' # "idle"
         \/ /\ pc' = "idle" /\ IsATAPI(CdPort)'
         \/ /\ pc \in Commanding /\ pc' \in Commanding /\ UNCHANGED <<slot, command>>
            /\ IsATAPI(CdPort) => IsATAPI(CdPort)'
            /\ Answered'
         \/ pc' \in Commanding /\ pc' # "wait" /\ command'[slot'].kind = "identify"
  PROVE  DataInv'
  <1>1. DataType' /\ Delivered'
    BY DEF DataInv, DataType, Delivered
  <1>2. Mounted' /\ Asked' /\ Filled' /\ Answered'
    BY DEF DataInv, Mounted, Asked, Filled, Answered, Commanding
  <1> QED
    BY <1>1, <1>2 DEF DataInv

\* The steps of the boot: no read has been asked for.
LEMMA BootData ==
  ASSUME Inv, DataInv,
         \/ SataBus_Initialize \/ HandoffDone \/ ResetHBA \/ HBAReady \/ StopCommandEngine
         \/ EngineStopped \/ InitializeCommand \/ InitializeBases \/ ResetPort \/ PortSettled
         \/ PortRestarted \/ CheckPort \/ IdentifyDrive \/ CdRomDevice_Initialize
  PROVE  DataInv'
  <1> USE DEF driver, data
  <1>0. command \in [{0, 1} -> Command] /\ after \in {"setup", "power"}
    BY DEF DataInv, DataType, Inv, TypeOK
  <1>1. CASE \/ SataBus_Initialize \/ HandoffDone \/ ResetHBA \/ HBAReady \/ StopCommandEngine
             \/ EngineStopped \/ InitializeCommand \/ ResetPort \/ PortSettled \/ PortRestarted
    <2>1. UNCHANGED <<prdbc, temp, request, buffer, command>> /\ pc' \notin Commanding /\ pc' # "idle"
      BY <1>0, <1>1 DEF SataBus_Initialize, HandoffDone, ResetHBA, HBAReady, StopCommandEngine,
        EngineStopped, InitializeCommand, ResetPort, PortSettled, PortRestarted, Commanding
    <2> QED
      BY <1>0, <2>1, IdleData
  <1>2. CASE InitializeBases
    <2>1. command' \in [{0, 1} -> Command]
      BY <1>0, <1>2 DEF InitializeBases, NoCommand, Command
    <2> QED
      BY <1>2, <2>1, IdleData DEF InitializeBases, Commanding
  <1>3. CASE CheckPort
    <2>1. CASE IsATAPI(cur) /\ IpmActive(cur) /\ DetPresent(cur)
      <3>1. /\ command' = [command EXCEPT ![0] = IdentifyCommand] /\ slot' = 0 /\ prdbc' = 0
            /\ pc' = "start" /\ UNCHANGED <<temp, request, buffer>>
        BY <1>3, <2>1 DEF CheckPort
      <3>2. command' \in [{0, 1} -> Command] /\ command'[slot'].kind = "identify"
        BY <1>0, <3>1 DEF IdentifyCommand, Command
      <3>3. DataType' /\ Delivered'
        BY <3>1, <3>2 DEF DataInv, DataType, Delivered
      <3>4. Mounted' /\ Asked' /\ Filled' /\ Answered'
        BY <3>1, <3>2 DEF Mounted, Asked, Filled, Answered
      <3> QED
        BY <3>3, <3>4 DEF DataInv
    <2>2. CASE ~(IsATAPI(cur) /\ IpmActive(cur) /\ DetPresent(cur))
      <3>1. UNCHANGED <<prdbc, temp, request, buffer, command>> /\ pc' \in {"stop", "mount"}
        BY <1>3, <2>2 DEF CheckPort, NextPort
      <3> QED
        BY <1>0, <3>1, IdleData DEF Commanding
    <2> QED
      BY <2>1, <2>2
  <1>4. CASE IdentifyDrive
    <2>1. UNCHANGED <<prdbc, temp, request, buffer, command>> /\ pc' \in {"stop", "mount", "halted"}
      BY <1>4 DEF IdentifyDrive, NextPort
    <2> QED
      BY <1>0, <2>1, IdleData DEF Commanding
  <1>5. CASE CdRomDevice_Initialize
    <2>1. /\ UNCHANGED <<prdbc, temp, request, buffer, command, port>>
          /\ (pc' = "idle" /\ IsATAPI(CdPort)) \/ pc' = "absent"
      BY <1>5 DEF CdRomDevice_Initialize, IsActive
    <2>2. IsATAPI(CdPort)' <=> IsATAPI(CdPort)
      BY <2>1 DEF IsATAPI
    <2> QED
      BY <1>0, <2>1, <2>2, IdleData DEF Commanding
  <1> QED
    BY <1>1, <1>2, <1>3, <1>4, <1>5

\* An access to one port leaves the data alone, and the boot drive the boot drive.
LEMMA AccessData ==
  ASSUME Inv, DataInv, UNCHANGED <<prdbc, temp, request, buffer, command, slot, cur>>,
         NEW p \in Ports, NEW r \in Register, port' = [port EXCEPT ![p] = r],
         r.Signature = port[p].Signature \/ port[p].Signature = "ones",
         \/ pc' = pc
         \/ pc \in Commanding /\ pc' \in Commanding,
         Answered'
  PROVE  DataInv'
  <1>1. port'[p] = r /\ \A q \in Ports : q # p => port'[q] = port[q]
    BY DEF Inv, TypeOK
  <1>2. CdPort \in Ports
    BY AhciAssumption
  <1>3. IsATAPI(CdPort) => IsATAPI(CdPort)'
    <2>1. CASE CdPort = p
      BY <1>1, <2>1 DEF IsATAPI
    <2>2. CASE CdPort # p
      BY <1>1, <1>2, <2>2 DEF IsATAPI
    <2> QED
      BY <2>1, <2>2
  <1>4. command' \in [{0, 1} -> Command] /\ (pc = "idle" => IsATAPI(CdPort))
    BY DEF DataInv, DataType, Mounted
  <1> QED
    BY <1>3, <1>4, IdleData

\* A command is issued.
LEMMA StartingData ==
  ASSUME Inv, DataInv, Starting
  PROVE  DataInv'
  <1> USE DEF driver
  <1>0. cur \in Ports /\ port[cur] \in Register /\ slot \in {0, 1} /\ port \in [Ports -> Register]
    BY DEF Inv, TypeOK
  <1>1. CASE pc = "start"
    <2>1. port' = [port EXCEPT ![cur] = Clear(port[cur])] /\ pc' = "issue"
      BY <1>1 DEF Starting, StartCommand
    <2>2. Answered'
      BY <2>1 DEF Answered
    <2> QED
      BY <1>0, <1>1, <2>1, <2>2, TameAccesses, Signatures, AccessData DEF Starting, Commanding
  <1>2. CASE pc = "issue"
    <2>1. port' = [port EXCEPT ![cur] = Issue(port[cur], slot)] /\ pc' = "wait" /\ UNCHANGED <<cur, slot>>
      BY <1>2 DEF Starting, StartCommand
    <2>2. slot' \in port'[cur'].CommandIssue
      BY <1>0, <2>1, Lists
    <2>3. Answered'
      BY <2>2 DEF Answered
    <2> QED
      BY <1>0, <1>2, <2>1, <2>3, OwningAccesses, Signatures, AccessData DEF Starting, Commanding
  <1> QED
    BY <1>1, <1>2 DEF Starting

\* The controller and the drives, but for the transfer.
LEMMA DeviceData ==
  ASSUME Inv, DataInv,
         \/ FirmwareReleases \/ HBAResets \/ \E p \in Ports : EngineFollows(p) \/ PostsSignature(p)
         \/ Completes \/ Fails \/ LinkError
  PROVE  DataInv'
  <1> USE DEF driver
  <1>0. /\ cur \in Ports /\ slot \in {0, 1} /\ port \in [Ports -> Register]
        /\ \A p \in Ports : port[p] \in Register
    BY DEF Inv, TypeOK
  <1>1. CASE FirmwareReleases
    BY <1>1 DEF FirmwareReleases, DataInv, DataType, Mounted, Asked, Filled, Answered, Delivered, IsATAPI
  <1>2. CASE HBAResets
    <2>1. pc' = "resetting" /\ UNCHANGED <<prdbc, temp, request, buffer, command>>
      BY <1>2 DEF HBAResets, Inv, Phase
    <2> QED
      BY <2>1, IdleData DEF Commanding, DataInv, DataType
  \* An access that changes neither the list nor the error.
  <1>3. ASSUME NEW p \in Ports, NEW r \in Register, port' = [port EXCEPT ![p] = r],
               r.CommandIssue = port[p].CommandIssue, r.TaskFileError = port[p].TaskFileError,
               UNCHANGED <<pc, prdbc, command, slot, cur>>
        PROVE  Answered'
    <2>1. /\ port'[cur].CommandIssue = port[cur].CommandIssue
          /\ port'[cur].TaskFileError = port[cur].TaskFileError
      BY <1>0, <1>3
    <2> QED
      BY <1>3, <2>1 DEF DataInv, Answered
  <1>4. ASSUME NEW p \in Ports, EngineFollows(p) PROVE DataInv'
    <2>1. CASE port' = [port EXCEPT ![p] = FollowST(@)]
      BY <1>0, <1>3, <1>4, <2>1, TameAccesses, Signatures, Lists, AccessData DEF EngineFollows
    <2>2. CASE port' = [port EXCEPT ![p] = FollowFRE(@)]
      BY <1>0, <1>3, <1>4, <2>2, TameAccesses, Signatures, Lists, AccessData DEF EngineFollows
    <2> QED
      BY <1>4, <2>1, <2>2 DEF EngineFollows
  <1>5. ASSUME NEW p \in Ports, PostsSignature(p) PROVE DataInv'
    BY <1>0, <1>3, <1>5, TameAccesses, Lists, AccessData DEF PostsSignature
  <1>6. CASE Completes
    <2>1. prdbc' = command'[slot'].count /\ port' = [port EXCEPT ![cur] = Complete(port[cur], slot)]
      BY <1>6 DEF Completes
    <2>2. Answered'
      BY <2>1 DEF Answered
    <2> QED
      BY <1>0, <1>6, <2>1, <2>2, TameAccesses, Signatures, AccessData DEF Completes
  <1>7. CASE Fails
    <2>1. PICK stays \in BOOLEAN : port' = [port EXCEPT ![cur] = Fail(port[cur], slot, stays)]
      BY <1>7 DEF Fails
    <2>2. cur' = cur /\ port'[cur'].TaskFileError
      BY <1>0, <1>7, <2>1, Lists DEF Fails
    <2>3. Answered'
      BY <2>2 DEF Answered
    <2> QED
      BY <1>0, <1>7, <2>1, <2>3, TameAccesses, Signatures, AccessData DEF Fails
  <1>8. CASE LinkError
    BY <1>0, <1>3, <1>8, TameAccesses, Signatures, Lists, AccessData DEF LinkError
  <1> QED
    BY <1>1, <1>2, <1>4, <1>5, <1>6, <1>7, <1>8

\* The drive transfers the next sector to its place in the buffer.
LEMMA TransferData ==
  ASSUME Inv, DataInv, Transfers
  PROVE  DataInv'
  <1>0. /\ command \in [{0, 1} -> Command] /\ prdbc \in Nat /\ temp \in Seq(Int) /\ slot \in {0, 1}
        /\ command[slot] \in Command
    BY DEF DataInv, DataType, Inv, TypeOK
  <1>1. /\ slot \in port[cur].CommandIssue /\ prdbc < command[slot].count /\ prdbc' = prdbc + 1
        /\ UNCHANGED <<port, pc, cur, command, slot, request, buffer>>
    BY DEF Transfers, Working
  <1> DEFINE c == command[slot]
             base == c.lba * SectorUnits
             low == prdbc * SectorUnits
             high == (prdbc + 1) * SectorUnits
  <1>2. c.lba \in Nat /\ c.count \in Nat /\ base \in Nat
    BY <1>0, AhciAssumption DEF Command
  <1>3. low \in Nat /\ high = low + SectorUnits /\ high <= c.count * SectorUnits /\ high \in Nat
    <2>1. prdbc \in Nat /\ c.count \in Nat /\ prdbc < c.count
      BY <1>0, <1>1, <1>2
    <2> HIDE DEF c
    <2> QED
      BY <2>1, NextSector, AhciAssumption
  <1>4. CASE c.kind # "packet"
    <2>1. temp' = temp
      BY <1>4 DEF Transfers
    <2>2. DataType' /\ Delivered'
      BY <1>0, <1>1, <2>1 DEF DataInv, DataType, Delivered
    <2>3. Mounted' /\ Asked' /\ Filled' /\ Answered'
      BY <1>1, <1>4, <2>1 DEF DataInv, Mounted, Asked, Filled, Answered, IsATAPI
    <2> QED
      BY <2>2, <2>3 DEF DataInv
  <1>5. CASE c.kind = "packet"
    <2>1. temp' = [i \in 1 .. Len(temp) |-> IF i - 1 \in low .. high - 1 THEN base + i - 1 ELSE temp[i]]
      BY <1>5 DEF Transfers
    <2> HIDE DEF base, low, high
    <2>2. temp' \in Seq(Int) /\ Len(temp') = Len(temp)
      BY <1>0, <1>2, <1>3, <2>1
    <2>3. \A i \in 1 .. Len(temp) : temp'[i] = IF i - 1 \in low .. high - 1 THEN base + i - 1 ELSE temp[i]
      BY <2>1
    <2>4. DataType' /\ Delivered'
      BY <1>0, <1>1, <2>2 DEF DataInv, DataType, Delivered
    <2>5. Mounted' /\ Asked' /\ Answered'
      BY <1>1, <2>2 DEF DataInv, Mounted, Asked, Answered, IsATAPI
    <2>6. ASSUME pc \in Commanding
          PROVE  prdbc' <= c.count /\ \A i \in 1 .. high : temp'[i] = base + i - 1
      <3>1. /\ c.count * SectorUnits <= Len(temp) 
            /\ \A i \in 1 .. low : temp[i] = base + i - 1
        BY <1>5, <2>6 DEF DataInv, Asked, Filled, base, low
      <3>2. Len(temp) \in Nat /\ c.count * SectorUnits \in Nat
        BY <1>0, <1>2, AhciAssumption
      <3>3. ASSUME NEW i \in 1 .. high PROVE temp'[i] = base + i - 1
        <4>1. i \in 1 .. Len(temp) /\ (i - 1 \in low .. high - 1 \/ i \in 1 .. low)
          BY <1>3, <3>1, <3>2
        <4> QED
          BY <2>3, <3>1, <4>1
      <3> QED
        BY <1>0, <1>1, <1>2, <3>3
    <2>7. Filled'
      BY <1>1, <1>5, <2>6 DEF Filled, base, high
    <2> QED
      BY <2>4, <2>5, <2>7 DEF DataInv
  <1> QED
    BY <1>4, <1>5

\* A read is asked for, and ends.
LEMMA ReadData ==
  ASSUME Inv, DataInv, disk_read \/ ReadToc \/ CommandEnds
  PROVE  DataInv'
  <1>0. /\ command \in [{0, 1} -> Command] /\ prdbc \in Nat /\ temp \in Seq(Int) /\ slot \in {0, 1}
        /\ request.offset \in Nat /\ request.size \in Nat
    BY DEF DataInv, DataType, Inv, TypeOK
  <1>1. CASE disk_read
    <2>1. PICK offset \in Nat, size \in Nat :
            /\ request' = [offset |-> offset, size |-> size] /\ buffer' = <<>>
            /\ CdromVolume_Read(offset, size)
      BY <1>1, AhciAssumption DEF disk_read
    <2> DEFINE lba == StartSector(offset)
               count == 1 + SectorCount(offset, size)
               length == count * SectorUnits
    <2>2. lba \in Nat /\ count \in Nat /\ length \in Nat
      <3>1. lba \in Nat /\ count \in Nat
        BY Units
      <3> HIDE DEF count
      <3> QED
        BY <3>1, AhciAssumption
    <2>3. IsATAPI(CdPort) /\ pc = "idle"
      BY <1>1 DEF disk_read, DataInv, Mounted
    <2>4. /\ slot' = 1 /\ prdbc' = 0 /\ pc' = "start" /\ UNCHANGED port
          /\ command' = [command EXCEPT ![1] = [kind |-> "packet", lba |-> lba, count |-> count]]
          /\ temp' = IF Len(temp) < length THEN [i \in 1 .. length |-> Garbage] ELSE temp
      BY <2>1, <2>3 DEF CdromVolume_Read, Prepare, ReadSectors, ReadSectorsCD
    <2> HIDE DEF lba, count, length
    <2>5. temp' \in Seq(Int) /\ length <= Len(temp')
      BY <1>0, <2>2, <2>4 DEF Garbage
    <2>6. /\ command' \in [{0, 1} -> Command] /\ command'[slot'].kind = "packet"
          /\ command'[slot'].lba = lba /\ command'[slot'].count = count
      BY <1>0, <2>2, <2>4 DEF Command
    <2>7. DataType' /\ Delivered'
      BY <2>1, <2>4, <2>5, <2>6 DEF DataType, Delivered
    <2>8. Mounted' /\ Answered'
      BY <2>3, <2>4 DEF Mounted, Answered, IsATAPI
    <2>9. Asked'
      BY <2>1, <2>5, <2>6 DEF Asked, lba, count, length
    <2>10. Filled'
      <3>1. 0 * SectorUnits = 0
        BY AhciAssumption
      <3> QED
        BY <2>2, <2>4, <2>6, <3>1 DEF Filled
    <2> QED
      BY <2>7, <2>8, <2>9, <2>10 DEF DataInv
  <1>2. CASE ReadToc
    <2>1. /\ slot' = 0 /\ prdbc' = 0 /\ pc' = "start" /\ UNCHANGED <<port, temp>>
          /\ command' = [command EXCEPT ![0] = [kind |-> "toc", lba |-> 0, count |-> 1]]
          /\ request' = [offset |-> 0, size |-> 0] /\ buffer' = <<>>
      BY <1>2 DEF ReadToc, Prepare
    <2>2. IsATAPI(CdPort)
      BY <1>2 DEF ReadToc, DataInv, Mounted
    <2>3. command' \in [{0, 1} -> Command] /\ command'[slot'].kind = "toc"
      BY <1>0, <2>1 DEF Command
    <2>4. DataType' /\ Delivered'
      BY <1>0, <2>1, <2>3 DEF DataType, Delivered
    <2>5. Mounted' /\ Asked' /\ Filled' /\ Answered'
      BY <2>1, <2>2, <2>3 DEF Mounted, Asked, Filled, Answered, IsATAPI
    <2> QED
      BY <2>4, <2>5 DEF DataInv
  <1>3. CASE CommandEnds
    <2> DEFINE c == command[slot]
               read == CommandResult * SectorUnits
               size == IF read < request.size THEN read ELSE request.size
               base == StartSector(request.offset) * SectorUnits
               start == request.offset - base
    <2>1. /\ UNCHANGED <<port, command, slot, prdbc, temp, request>>
          /\ pc = "wait" /\ c.kind # "identify"
          /\ \/ pc' = "halted" /\ buffer' = buffer
             \/ pc' = "idle" /\ buffer' = [i \in 1 .. size |-> temp[start + i]]
      BY <1>3 DEF CommandEnds
    <2>2. DataType'
      BY <2>1 DEF DataInv, DataType
    <2>3. Mounted' /\ Asked' /\ Filled' /\ Answered'
      BY <2>1 DEF DataInv, Mounted, Asked, Filled, Answered, IsATAPI, Commanding
    <2>4. Delivered'
      <3>1. CASE buffer' = buffer
        BY <2>1, <3>1 DEF DataInv, Delivered
      <3>2. CASE buffer' = [i \in 1 .. size |-> temp[start + i]]
        <4>1. CASE size = 0
          BY <2>1, <3>2, <4>1 DEF Delivered
        <4>2. CASE size # 0
          <5>1. CommandResult # 0 /\ request.size # 0 /\ ~Failed /\ ~Refused
            <6>1. CommandResult \in Nat
              BY <1>0 DEF CommandResult
            <6>2. read \in Nat /\ (CommandResult = 0 => read = 0)
              BY <6>1, AhciAssumption
            <6>3. CommandResult # 0 /\ request.size # 0
              <7> HIDE DEF read
              <7> QED
                BY <1>0, <4>2, <6>2
            <6> QED
              BY <6>3 DEF CommandResult
          <5>2. /\ CommandResult = prdbc /\ slot \notin port[cur].CommandIssue
                /\ ~port[cur].TaskFileError
            BY <1>3, <5>1 DEF CommandResult, CommandEnds, Refused, Busy
          <5>3. c.kind = "packet"
            BY <2>1, <5>1 DEF DataInv, Asked, Commanding
          <5>4. prdbc = c.count
            BY <2>1, <5>2, <5>3 DEF DataInv, Answered
          <5>5. /\ c.lba * SectorUnits = base
                /\ c.count * SectorUnits >= SectorUnits + request.offset + request.size - base
            BY <1>0, <2>1, <5>3, Units DEF DataInv, Asked, Commanding
          <5>6. \A i \in 1 .. c.count * SectorUnits : temp[i] = base + i - 1
            BY <2>1, <5>3, <5>4, <5>5 DEF DataInv, Filled, Commanding
          <5>7. base \in Nat /\ base <= request.offset
            BY <1>0, Units
          <5>8. read = c.count * SectorUnits /\ read \in Nat
            BY <1>0, <5>2, <5>4, AhciAssumption
          <5> HIDE DEF base, read
          <5>9. size = request.size /\ start \in Nat /\ start + request.size <= read
            <6>1. read >= SectorUnits + request.offset + request.size - base
              BY <5>5, <5>8
            <6>2. start \in Nat /\ start + request.size <= read
              <7>1. read \in Nat /\ SectorUnits \in Nat
                BY <5>8, AhciAssumption
              <7> QED
                BY <1>0, <5>7, <6>1, <7>1
            <6>3. ~(read < request.size)
              <7> HIDE DEF start
              <7> QED
                BY <1>0, <5>8, <6>2
            <6> QED
              BY <6>2, <6>3
          <5>10. ASSUME NEW i \in 1 .. request.size PROVE temp[start + i] = request.offset + i - 1
            <6>1. start + i \in 1 .. read
              BY <1>0, <5>8, <5>9
            <6>2. temp[start + i] = base + (start + i) - 1
              BY <5>6, <5>8, <6>1
            <6> QED
              BY <1>0, <5>7, <6>2
          <5> HIDE DEF size, start
          <5> QED
            BY <1>0, <2>1, <3>2, <5>9, <5>10 DEF Delivered
        <4> QED
          BY <4>1, <4>2
      <3> QED
        BY <2>1, <3>1, <3>2
    <2> QED
      BY <2>2, <2>3, <2>4 DEF DataInv
  <1> QED
    BY <1>1, <1>2, <1>3

\* Every step keeps what is known of the data.
LEMMA NextData == Inv /\ DataInv /\ [Next]_vars => DataInv'
  <1> SUFFICES ASSUME Inv, DataInv, [Next]_vars PROVE DataInv'
    OBVIOUS
  <1>1. CASE UNCHANGED vars
    BY <1>1 DEF vars, DataInv, DataType, Mounted, Asked, Filled, Answered, Delivered, IsATAPI
  <1>2. CASE Next
    BY <1>2, BootData, StartingData, DeviceData, TransferData, ReadData
       DEF Next, Driver, Controller, Drive
  <1> QED
    BY <1>1, <1>2

(* For any geometry of the disc, any size of request and any errors of the *)
(* drive, a read delivers the units that were asked for or nothing, though *)
(* all reads share one buffer and no read clears it (cdrom.cpp,            *)
(* CdromVolume_Read, ReadSectorsCD; sata.cpp, the loops that wait).        *)
THEOREM ReadsDeliverWhatWasAsked == Spec => []ReadsOwnData
  <1>1. Init => DataInv
    <2> SUFFICES ASSUME Init PROVE DataInv
      OBVIOUS
    <2>1. DataType
      BY DEF Init, DataType, NoCommand, Command
    <2>2. Mounted /\ Asked /\ Filled /\ Answered /\ Delivered
      BY DEF Init, Mounted, Asked, Filled, Answered, Delivered, Commanding
    <2> QED
      BY <2>1, <2>2 DEF DataInv
  <1>2. DataInv => ReadsOwnData
    BY DEF DataInv, Delivered, ReadsOwnData
  <1> QED
    BY <1>1, <1>2, InitInv, NextInv, NextData, PTL DEF Spec
=============================================================================
