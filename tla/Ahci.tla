-------------------------------- MODULE Ahci --------------------------------
(***************************************************************************)
(* The SATA driver and the CD-ROM it boots from: the hand-over from the    *)
(* firmware and the reset of the controller, the set-up and reset of each  *)
(* port, the commands and how their end is waited for, and the reads of    *)
(* the FAT volume that arrive through CdromVolume_Read.  The driver polls; *)
(* the controller and the drive are the other actors, and act between any  *)
(* two accesses of the driver to their registers.                          *)
(*                                                                         *)
(* The unit of data is one sector of the FAT volume, 512 bytes.            *)
(***************************************************************************)
EXTENDS Integers, Sequences, FiniteSets

CONSTANTS
    LastPort,           \* ports 0..LastPort are set up; 31 in the code
    CdPort,             \* the port the firmware's device path names
    Kinds,              \* what may be attached to a port
    SectorUnits,        \* 2048 / 512 = 4 in the code
    PartitionStart,     \* GCDPartitionStartSector: 33 in the code
    DiscSectors,        \* sectors of the disc
    MaxCount,           \* sectors FatFs asks for at once (a bound)
    MaxReads            \* commands to the drive after the boot (a bound)

Ports == 0..LastPort
Garbage == -1

ASSUME AhciAssumption ==
    /\ LastPort \in Nat /\ CdPort \in Ports
    /\ Kinds \subseteq {"none", "ata", "atapi"}
    /\ SectorUnits \in Nat \ {0} /\ PartitionStart \in Nat /\ DiscSectors \in Nat
    /\ MaxCount \in Nat \ {0} /\ MaxReads \in Nat

VARIABLES
    hba,        \* controller: who owns it, HR and AE
    port,       \* registers of each port
    pc, after,  \* the driver, and where it goes on once an engine has stopped
    cur,        \* the port the driver works on
    command,    \* CommandTables: the command in each slot
    slot,       \* the slot in use
    prdbc,      \* PRDByteCount of that slot, in sectors of the disc
    enabled,    \* IsEnabled of each port
    identify,   \* identify buffers allocated
    temp,       \* GTempCDRomBuffer: position -> unit of the disc, or Garbage
    request,    \* what disk_read has asked for
    buffer,     \* what has been copied to the caller
    reads       \* commands so far (a bound)
vars == <<hba, port, pc, after, cur, command, slot, prdbc, enabled, identify,
          temp, request, buffer, reads>>

driver == <<after, cur, command, slot, prdbc, enabled, identify, temp, request, buffer, reads>>
data   == <<temp, request, buffer, reads>>

-----------------------------------------------------------------------------
(* Registers.                                                              *)

\* HBACommandTable and its header: what a slot asks the drive for.
NoCommand == [kind |-> "none", lba |-> 0, count |-> 0]

HBAPort(kind, sig) ==
    [kind |-> kind, Signature |-> sig, ST |-> TRUE, FRE |-> TRUE, CR |-> TRUE, FR |-> TRUE,
     CommandListBase |-> "firmware", FISBase |-> "firmware",
     CommandIssue |-> {}, InterruptStatus |-> {}, TaskFileError |-> FALSE, SATAError |-> FALSE,
     stuck |-> FALSE]   \* an error has stopped the port, which takes a restart to clear

\* DET, the low bits of SATAStatus: 3 with a drive, which may be asleep.
SATAStatus(p) == IF port[p].kind = "none" THEN 0 ELSE 3
DetPresent(p) == SATAStatus(p) % 4 # 0
\* The mask is bit 0, which is DET's and not the power state's.
IpmActive(p)  == SATAStatus(p) % 2 = 1
IsATAPI(p)    == port[p].Signature = "atapi"
IsActive(p)   == enabled[p] /\ IsATAPI(p) /\ IpmActive(p) /\ DetPresent(p)

Init ==
    /\ \E boh \in BOOLEAN : hba = [boh |-> boh, bios |-> boh, os |-> FALSE, HR |-> FALSE, AE |-> FALSE]
    /\ \E kinds \in [Ports -> Kinds], absent \in {"zero", "ones"} :
          port = [p \in Ports |-> HBAPort(kinds[p], IF kinds[p] = "none" THEN absent ELSE "ones")]
    /\ pc = "bus" /\ after = "setup" /\ cur = 0
    /\ command = [s \in {0, 1} |-> NoCommand]
    /\ slot = 0 /\ prdbc = 0
    /\ enabled = [p \in Ports |-> FALSE] /\ identify = 0
    /\ temp = <<>>
    /\ request = [offset |-> 0, size |-> 0] /\ buffer = <<>> /\ reads = 0

-----------------------------------------------------------------------------
(* The controller.                                                         *)

SataBus_Initialize ==
    /\ pc = "bus"
    /\ hba' = [hba EXCEPT !.os = hba.boh]
    /\ pc' = IF hba.boh THEN "handoff" ELSE "reset"
    /\ UNCHANGED <<port, driver>>

HandoffDone ==
    /\ pc = "handoff" /\ ~hba.bios
    /\ pc' = "reset"
    /\ UNCHANGED <<hba, port, driver>>

ResetHBA ==
    /\ pc = "reset"
    /\ hba' = [hba EXCEPT !.HR = TRUE]
    /\ pc' = "resetting"
    /\ UNCHANGED <<port, driver>>

\* AHCI is enabled and the ports are set up one after the other.
HBAReady ==
    /\ pc = "resetting" /\ ~hba.HR
    /\ hba' = [hba EXCEPT !.AE = TRUE]
    /\ pc' = "stop"
    /\ UNCHANGED <<port, driver>>

-----------------------------------------------------------------------------
(* A port.                                                                 *)

\* Clearing ST empties the list of issued commands.
Stop(register) == [register EXCEPT !.ST = FALSE, !.FRE = FALSE, !.CommandIssue = {}, !.stuck = FALSE]

StopCommandEngine ==
    /\ pc = "stop"
    /\ port' = [port EXCEPT ![cur] = Stop(@)]
    /\ pc' = "stopping"
    /\ UNCHANGED <<hba, driver>>

EngineStopped ==
    /\ pc = "stopping" /\ ~port[cur].FR /\ ~port[cur].CR
    /\ pc' = after
    /\ UNCHANGED <<hba, port, driver>>

\* The mask taken with the bit that is FRE as well.
WriteCommandWithFRE(register) == [register EXCEPT !.ST = TRUE, !.FRE = TRUE]

\* The mask is that of a PCI command register: its bit 0, I/O space, is ST here.
WriteCommand(register) == [register EXCEPT !.ST = TRUE]

InitializeCommand ==
    /\ pc = "setup"
    /\ port' = [port EXCEPT ![cur] = WriteCommand(@)]
    /\ pc' = "bases"
    /\ UNCHANGED <<hba, driver>>

\* Command list, received FIS and the tables of all slots.
SetBases(register) == [register EXCEPT !.CommandListBase = "driver", !.FISBase = "driver"]

InitializeBases ==
    /\ pc = "bases"
    /\ port' = [port EXCEPT ![cur] = SetBases(@)]
    /\ command' = [s \in DOMAIN command |-> NoCommand]
    /\ pc' = "stop" /\ after' = "power"
    /\ UNCHANGED <<hba, cur, slot, prdbc, enabled, identify, data>>

\* ResetPort, once it has stopped the engine.  Power and spin-up are left out.
PowerOn(register) == [register EXCEPT !.InterruptStatus = {}, !.ST = FALSE, !.FRE = TRUE]

ResetPort ==
    /\ pc = "power"
    /\ port' = [port EXCEPT ![cur] = PowerOn(@)]
    /\ pc' = "settle"
    /\ UNCHANGED <<hba, driver>>

Settled == ~((port[cur].CR /\ DetPresent(cur)) \/ port[cur].SATAError)

\* A signature of 0 ends the reset with the engine stopped.
PortSettled ==
    /\ pc = "settle" /\ Settled
    /\ pc' = IF port[cur].Signature = "zero" THEN "check" ELSE "restart"
    /\ UNCHANGED <<hba, port, driver>>

\* The link error is cleared and the engine started (StartCommandEngine).
Restart(register) == [register EXCEPT !.SATAError = FALSE, !.FRE = TRUE, !.ST = TRUE]

PortRestarted ==
    /\ pc = "restart" /\ Settled
    /\ port' = [port EXCEPT ![cur] = Restart(@)]
    /\ pc' = "check"
    /\ UNCHANGED <<hba, driver>>

NextPort == IF cur < LastPort THEN pc' = "stop" /\ after' = "setup" /\ cur' = cur + 1
                              ELSE pc' = "mount" /\ UNCHANGED <<after, cur>>

IdentifyCommand == [kind |-> "identify", lba |-> 0, count |-> 1]

\* A drive is identified if its signature says that it is one and it answers.
CheckPort ==
    /\ pc = "check"
    /\ IF IsATAPI(cur) /\ IpmActive(cur) /\ DetPresent(cur)
       THEN /\ command' = [command EXCEPT ![0] = IdentifyCommand]
            /\ slot' = 0 /\ prdbc' = 0 /\ identify' = identify + 1
            /\ pc' = "start" /\ UNCHANGED <<after, cur>>
       ELSE NextPort /\ UNCHANGED <<command, slot, prdbc, identify>>
    /\ UNCHANGED <<hba, port, enabled, data>>

\* The volume is mounted if the boot drive is active.
CdRomDevice_Initialize ==
    /\ pc = "mount"
    /\ cur' = CdPort
    /\ pc' = IF IsActive(CdPort) THEN "idle" ELSE "absent"
    /\ UNCHANGED <<hba, port, after, command, slot, prdbc, enabled, identify, data>>

-----------------------------------------------------------------------------
(* Commands.                                                               *)

Clear(register) == [register EXCEPT !.InterruptStatus = {}]
Issue(register, s) == [register EXCEPT !.CommandIssue = @ \cup {s}]

\* The old status cleared only after the command has been issued.
StartCommandLate(step) ==
    port' = [port EXCEPT ![cur] = IF step = "start" THEN Issue(@, slot) ELSE Clear(@)]

\* Two writes: the old status is cleared, and the command issued.
StartCommand(step) ==
    port' = [port EXCEPT ![cur] = IF step = "start" THEN Clear(@) ELSE Issue(@, slot)]

Starting ==
    /\ pc \in {"start", "issue"}
    /\ StartCommand(pc)
    /\ pc' = IF pc = "start" THEN "issue" ELSE "wait"
    /\ UNCHANGED <<hba, driver>>

Busy == slot \in port[cur].CommandIssue \/ port[cur].InterruptStatus \cap {"SDBS", "DMPS"} # {}

\* The loop's two ways out, and what is looked at after it.
Failed   == Busy /\ "TFES" \in port[cur].InterruptStatus
Refused  == ~Busy /\ port[cur].TaskFileError
Broken   == ~Busy /\ port[cur].SATAError

\* Identify asserts that there is no link error before it looks at the result.
IdentifyDrive ==
    /\ pc = "wait" /\ command[slot].kind = "identify" /\ (Failed \/ ~Busy)
    /\ IF Broken THEN pc' = "halted" /\ UNCHANGED <<after, cur, enabled, identify>>
       ELSE /\ NextPort
            /\ IF Failed \/ Refused \/ ~port[cur].CR
               THEN UNCHANGED <<enabled, identify>>
               ELSE enabled' = [enabled EXCEPT ![cur] = TRUE] /\ identify' = identify - 1
    /\ UNCHANGED <<hba, port, command, slot, prdbc, data>>

\* Only the interrupt status is looked at.
CommandResultLoopOnly == IF Failed THEN 0 ELSE prdbc

\* Sectors transferred, or 0 if there was an error.
CommandResult == IF Failed \/ Refused THEN 0 ELSE prdbc

\* The slot and command of a read, by the kind of drive.
ReadSectorsCD(lba, count)   == [slot |-> 1, command |-> [kind |-> "packet", lba |-> lba, count |-> count]]
ReadSectorsSATA(lba, count) == [slot |-> 0, command |-> [kind |-> "dma", lba |-> lba, count |-> count]]
ReadSectors(lba, count) ==
    IF IsATAPI(CdPort) THEN ReadSectorsCD(lba, count) ELSE ReadSectorsSATA(lba, count)

Prepare(c) ==
    /\ slot' = c.slot /\ command' = [command EXCEPT ![c.slot] = c.command] /\ prdbc' = 0
    /\ pc' = "start"
    /\ reads < MaxReads /\ reads' = reads + 1
    /\ UNCHANGED <<hba, port, after, cur, enabled, identify>>

StartSector(offset)       == offset \div SectorUnits
SectorCount(offset, size) == (offset + size + SectorUnits - 1) \div SectorUnits - StartSector(offset)

\* One sector more than the request needs is always read.
CdromVolume_Read(offset, size) ==
    LET count  == 1 + SectorCount(offset, size)
        length == count * SectorUnits
    IN  /\ Prepare(ReadSectors(StartSector(offset), count))
        /\ temp' = IF Len(temp) < length THEN [i \in 1..length |-> Garbage] ELSE temp

disk_read ==
    /\ pc = "idle"
    /\ \E count \in 1..MaxCount, sector \in 0..(DiscSectors - PartitionStart) * SectorUnits - 1 :
        LET offset == PartitionStart * SectorUnits + sector
        IN  /\ offset + count <= DiscSectors * SectorUnits
            /\ request' = [offset |-> offset, size |-> count]
            /\ buffer' = <<>>
            /\ CdromVolume_Read(offset, count)

ReadToc ==
    /\ pc = "idle"
    /\ Prepare([slot |-> 0, command |-> [kind |-> "toc", lba |-> 0, count |-> 1]])
    /\ request' = [offset |-> 0, size |-> 0] /\ buffer' = <<>>
    /\ UNCHANGED temp

\* The result is copied from the temporary buffer; disk_read reports success
\* whatever its length.
CommandEnds ==
    /\ pc = "wait" /\ command[slot].kind # "identify" /\ (Failed \/ ~Busy)
    /\ IF ~Failed /\ ~Refused /\ Broken
       THEN pc' = "halted" /\ UNCHANGED buffer
       ELSE LET read  == CommandResult * SectorUnits
                size  == IF read < request.size THEN read ELSE request.size
                start == request.offset - StartSector(request.offset) * SectorUnits
            IN  pc' = "idle" /\ buffer' = [i \in 1..size |-> temp[start + i]]
    /\ UNCHANGED <<hba, port, after, cur, command, slot, prdbc, enabled, identify, temp, request, reads>>

-----------------------------------------------------------------------------
(* The firmware, the controller and the drive.                             *)

FirmwareReleases ==
    /\ hba.os /\ hba.bios
    /\ hba' = [hba EXCEPT !.bios = FALSE]
    /\ UNCHANGED <<port, pc, driver>>

Reset(register) == [register EXCEPT !.ST = FALSE, !.FRE = FALSE, !.CR = FALSE, !.FR = FALSE,
                                   !.CommandIssue = {}]

HBAResets ==
    /\ hba.HR
    /\ hba' = [hba EXCEPT !.HR = FALSE]
    /\ port' = [p \in Ports |-> Reset(port[p])]
    /\ UNCHANGED <<pc, driver>>

\* The running bits follow the start bits in their own time.
FollowST(register)  == [register EXCEPT !.CR = register.ST]
FollowFRE(register) == [register EXCEPT !.FR = register.FRE]

EngineFollows(p) ==
    /\ \/ port[p].CR # port[p].ST /\ port' = [port EXCEPT ![p] = FollowST(@)]
       \/ port[p].FR # port[p].FRE /\ port' = [port EXCEPT ![p] = FollowFRE(@)]
    /\ UNCHANGED <<hba, pc, driver>>

\* The first FIS a drive sends is its signature; it needs FR.
Sign(register) == [register EXCEPT !.Signature = IF register.kind = "ata" THEN "ata" ELSE "atapi"]

PostsSignature(p) ==
    /\ port[p].FR /\ port[p].Signature = "ones" /\ DetPresent(p)
    /\ port' = [port EXCEPT ![p] = Sign(@)]
    /\ UNCHANGED <<hba, pc, driver>>

\* The drive has a command and is not stopped by an error.
Working == slot \in port[cur].CommandIssue /\ port[cur].CR /\ ~port[cur].stuck

Transfers ==
    /\ Working /\ prdbc < command[slot].count
    /\ command[slot].kind = "packet" => command[slot].lba + prdbc < DiscSectors
    /\ prdbc' = prdbc + 1
    /\ temp' = IF command[slot].kind # "packet" THEN temp
               ELSE [i \in 1..Len(temp) |->
                       IF i - 1 \in prdbc * SectorUnits..(prdbc + 1) * SectorUnits - 1
                       THEN command[slot].lba * SectorUnits + i - 1 ELSE temp[i]]
    /\ UNCHANGED <<hba, port, pc, after, cur, command, slot, enabled, identify, request, buffer, reads>>

Complete(register, s) == [register EXCEPT !.CommandIssue = @ \ {s}, !.TaskFileError = FALSE]

Completes ==
    /\ Working /\ prdbc = command[slot].count
    /\ port' = [port EXCEPT ![cur] = Complete(@, slot)]
    /\ UNCHANGED <<hba, pc, driver>>

\* An error is reported in the task file and the status; the command is taken
\* off the list, or stays on it and the port stops.
Fail(register, s, stays) ==
    [register EXCEPT !.TaskFileError = TRUE, !.InterruptStatus = @ \cup {"TFES"},
                     !.CommandIssue = IF stays THEN @ ELSE @ \ {s}, !.stuck = stays]

Fails ==
    /\ Working
    /\ \E stays \in BOOLEAN : port' = [port EXCEPT ![cur] = Fail(@, slot, stays)]
    /\ UNCHANGED <<hba, pc, driver>>

LoseLink(register) == [register EXCEPT !.SATAError = TRUE]

LinkError ==
    /\ Working /\ ~port[cur].SATAError
    /\ port' = [port EXCEPT ![cur] = LoseLink(@)]
    /\ UNCHANGED <<hba, pc, driver>>

Driver ==
    \/ SataBus_Initialize \/ HandoffDone \/ ResetHBA \/ HBAReady
    \/ StopCommandEngine \/ EngineStopped \/ InitializeCommand \/ InitializeBases
    \/ ResetPort \/ PortSettled \/ PortRestarted \/ CheckPort
    \/ CdRomDevice_Initialize \/ Starting \/ IdentifyDrive \/ CommandEnds

Drive == Transfers \/ Completes \/ Fails
Controller == FirmwareReleases \/ HBAResets \/ \E p \in Ports : EngineFollows(p)

Next ==
    \/ Driver \/ disk_read \/ ReadToc
    \/ Controller \/ Drive \/ LinkError \/ \E p \in Ports : PostsSignature(p)

\* A processor that polls goes on; the controller and the drive do what they
\* have been told, if only to fail.  Reads are not fair: nobody has to ask.
Fairness ==
    /\ WF_vars(Driver) /\ WF_vars(Drive)
    /\ WF_vars(FirmwareReleases) /\ WF_vars(HBAResets)
    /\ \A p \in Ports : WF_vars(EngineFollows(p))

Spec == Init /\ [][Next]_vars /\ Fairness

-----------------------------------------------------------------------------
(* Properties.                                                             *)

(* Once the controller has been reset it never receives a FIS or takes up  *)
(* a command through an address the firmware left in the port's registers, *)
(* although ST is set before the new addresses are (cdrom.cpp,             *)
(* CdromPort::Initialize; sata.cpp, ResetPort).                            *)
BasesAreDrivers ==
    \A p \in Ports :
        hba.AE => /\ port[p].FR => port[p].FISBase = "driver"
                  /\ port[p].CommandIssue # {} => port[p].CommandListBase = "driver"

(* A read of the disc delivers all that was asked for, from where it was   *)
(* asked for, or nothing: not what an earlier read left in the buffer that *)
(* all reads share (cdrom.cpp, CdromVolume_Read, ReadSectorsCD).           *)
ReadsOwnData ==
    pc = "idle" =>
        /\ Len(buffer) \in {0, request.size}
        /\ \A i \in DOMAIN buffer : buffer[i] = request.offset + i - 1

(* The boot comes to the end of the ports, and a command that is given to  *)
(* a port that no earlier error has stopped is answered, with an error at  *)
(* the worst: no status is cleared before it has been seen (cdrom.cpp,     *)
(* StartCommand and the loops that wait).                                  *)
WaitsEnd ==
    (pc \in {"bus", "start"} /\ ~port[cur].stuck) ~> pc \in {"idle", "absent", "halted"}
=============================================================================
