------------------------------ MODULE IdeProbe ------------------------------
(***************************************************************************)
(* What init_ide_dev of drv/ide.c finds on one controller, and how a block *)
(* of a device that it found is addressed afterwards.                      *)
(*                                                                         *)
(* The devices are external (ATA/ATAPI-4).  They answer when they like or  *)
(* never; device 0 answers for a device 1 that is not there, with its own  *)
(* signature and a status of its choice, but executes no command for it.   *)
(* wait4ctrl, which module Ide has poll by poll, is one step here: it may  *)
(* report that it expired at any time, since what it returns is cut to a   *)
(* byte, and that it did not only when it saw what it waits for.           *)
(***************************************************************************)
EXTENDS Integers, FiniteSetsExt

CONSTANTS
  Attachable,    \* what a device may be: "none", "ata", "atapi"
  Geometries,    \* what an ATA device may report of itself
  BYTE           \* 2^8; a word is BYTE * BYTE

Positions == {0, 1}    \* MASTER and SLAVE
WORD == BYTE * BYTE

\* IDENTIFY reports in words; total: the blocks of the disk, those that its
\* cylinders have among them.
ASSUME ProbeAssumption ==
  /\ BYTE \in Nat \ {0}
  /\ Attachable \subseteq {"none", "ata", "atapi"}
  /\ \A g \in Geometries :
       /\ g \in [lba : BOOLEAN, cylinders : 0 .. WORD - 1, heads : Nat, sectors : Nat,
                 total : Nat]
       /\ ~g.lba => g.heads * g.sectors * g.cylinders <= g.total

VARIABLES
  attached, geometry,   \* what is on the cable
  selected,             \* the DEV bit of the drive register
  srst,                 \* the SRST bit of the control register
  status,               \* status[j]: of the device at j
  identifying,          \* identifying[j]: it executes IDENTIFY
  devices,              \* controllers[i].devices
  dev, step             \* the position that is probed, and how far

cable == <<attached, geometry>>
bus == <<selected, srst, status, identifying>>
probe == <<cable, bus, devices, dev, step>>

\* An ATAPI device leaves the words that describe a disk at 0.
NoGeometry == [lba |-> FALSE, cylinders |-> 0, heads |-> 0, sectors |-> 0, total |-> 0]
Unknown == [present |-> FALSE, atapi |-> FALSE, lba |-> FALSE, heads |-> 0, sectors |-> 0,
            capacity |-> 0]

ProbeTypeOK ==
  /\ attached \in [Positions -> {"none", "ata", "atapi"}]
  /\ geometry \in [Positions -> Geometries \cup {NoGeometry}]
  /\ selected \in Positions /\ srst \in BOOLEAN
  /\ status \in [Positions -> SUBSET {"BSY", "DRDY", "DRQ", "ERR"}]
  /\ identifying \in [Positions -> BOOLEAN]
  /\ devices \in [Positions -> [present : BOOLEAN, atapi : BOOLEAN, lba : BOOLEAN,
                                heads : Nat, sectors : Nat, capacity : Nat]]
  /\ dev \in Positions
  /\ step \in {"detect", "reset", "release", "resetting", "select", "selected", "type",
               "identify", "collect", "up"}

Idle(kind) == IF kind = "ata" THEN {"DRDY"} ELSE {}

ProbeInit ==
  /\ attached \in [Positions -> Attachable]
  /\ \E g \in Geometries :
       geometry = [j \in Positions |-> IF attached[j] = "ata" THEN g ELSE NoGeometry]
  /\ selected = 0 /\ srst = FALSE
  /\ status = [j \in Positions |-> Idle(attached[j])]
  /\ identifying = [j \in Positions |-> FALSE]
  /\ devices = [j \in Positions |-> Unknown]
  /\ dev = 0 /\ step = "detect"

-----------------------------------------------------------------------------
(* The devices.                                                            *)

There(j) == attached[j] # "none"

\* Who answers, with its registers, when j is selected; nobody without a
\* device 0, unless it is device 1.
Answers(j) == IF There(j) THEN j ELSE 0
Answered(j) == There(Answers(j))

\* The status that inb may return.
Seen(s) ==
  IF There(selected) THEN s = status[selected]
  ELSE IF There(0) THEN s \in {{}, {"DRDY"}}
  ELSE s = {"BSY", "DRDY", "DRQ", "ERR"}

DeviceReady(j) ==
  /\ "BSY" \in status[j] /\ ~srst /\ There(j)
  /\ status' = [status EXCEPT ![j] = IF identifying[j] THEN {"DRDY", "DRQ"}
                                     ELSE Idle(attached[j])]
  /\ UNCHANGED <<cable, selected, srst, identifying, devices, dev, step>>

DeviceAborts(j) ==
  /\ "BSY" \in status[j] /\ ~srst /\ identifying[j]
  /\ status' = [status EXCEPT ![j] = {"DRDY", "ERR"}]
  /\ identifying' = [identifying EXCEPT ![j] = FALSE]
  /\ UNCHANGED <<cable, selected, srst, devices, dev, step>>

-----------------------------------------------------------------------------
(* identify_ide_dev, with reset_ctrl and select_dev.                       *)

At(s) == step = s
Goto(s) == step' = s /\ UNCHANGED dev

\* It returns, and init_ide_dev goes on to the next device.
Return == IF dev = 0 THEN dev' = 1 /\ step' = "detect" ELSE step' = "up" /\ UNCHANGED dev

Set(field, value) == [devices EXCEPT ![dev] = [@ EXCEPT ![field] = value]]

\* The register that has to hold what was written to it; while BSY is set it
\* need not.
Detect ==
  /\ At("detect")
  /\ devices' = Set("present", FALSE)
  /\ \/ Answered(selected) /\ Goto("reset")
     \/ (~Answered(selected) \/ "BSY" \in status[Answers(selected)]) /\ Return
  /\ UNCHANGED <<cable, bus>>

\* SRST is set: every device is busy, unless it is slower than one poll, in
\* which case SRST stays set.  Device 0 is selected.
Reset ==
  /\ At("reset")
  /\ srst' = TRUE /\ selected' = 0
  /\ identifying' = [j \in Positions |-> FALSE]
  /\ status' = [j \in Positions |-> IF There(j) THEN {"BSY"} ELSE {}]
  /\ Goto("release") \/ Return
  /\ UNCHANGED <<cable, devices>>

Release ==
  /\ At("release")
  /\ srst' = FALSE
  /\ Goto("resetting")
  /\ UNCHANGED <<cable, selected, status, identifying, devices>>

ResetWait ==
  /\ At("resetting")
  /\ \/ \E s \in SUBSET {"BSY", "DRDY", "DRQ", "ERR"} :
          Seen(s) /\ "BSY" \notin s /\ Goto("select")
     \/ Return
  /\ UNCHANGED <<cable, bus, devices>>

\* The two halves of select_dev.
Select ==
  /\ At("select")
  /\ \E s \in SUBSET {"BSY", "DRDY", "DRQ", "ERR"} :
       /\ Seen(s)
       /\ IF s \cap {"BSY", "DRQ"} = {} THEN selected' = dev /\ Goto("selected")
                                         ELSE UNCHANGED selected /\ Return
  /\ UNCHANGED <<cable, srst, status, identifying, devices>>

Selected ==
  /\ At("selected")
  /\ \E s \in SUBSET {"BSY", "DRDY", "DRQ", "ERR"} :
       /\ Seen(s)
       /\ IF s \cap {"BSY", "DRQ"} = {} THEN Goto("type") ELSE Return
  /\ UNCHANGED <<cable, bus, devices>>

\* The signature that a reset leaves in the registers of who answers.
Type ==
  /\ At("type")
  /\ \E s \in SUBSET {"BSY", "DRDY", "DRQ", "ERR"} :
       /\ Seen(s)
       /\ LET kind == attached[Answers(selected)]
          IN IF kind = "atapi" \/ s # {}
             THEN /\ devices' = [Set("present", TRUE) EXCEPT ![dev].atapi = (kind = "atapi")]
                  /\ Goto("identify")
             ELSE UNCHANGED devices /\ Return
  /\ UNCHANGED <<cable, bus>>

\* IDENTIFY, or IDENTIFY PACKET, to the selected device.
Identify ==
  /\ At("identify")
  /\ IF There(selected)
     THEN /\ status' = [status EXCEPT ![selected] = {"BSY"}]
          /\ identifying' = [identifying EXCEPT ![selected] = TRUE]
     ELSE UNCHANGED <<status, identifying>>
  /\ Goto("collect")
  /\ UNCHANGED <<cable, selected, srst, devices>>

\* The capacity: of the words 60 and 61, which have it for LBA, the low one.
Capacity(g) == IF g.lba THEN g.total % WORD ELSE g.heads * g.sectors * g.cylinders

Described(g) ==
  [devices EXCEPT ![dev] = [@ EXCEPT !.lba = g.lba, !.heads = g.heads, !.sectors = g.sectors,
                                     !.capacity = Capacity(g)]]

\* Mutant: a device that does not answer IDENTIFY stays present.
Collect_Trusting ==
  /\ At("collect")
  /\ \/ /\ "DRQ" \in status[selected]
        /\ devices' = Described(geometry[selected])
        /\ status' = [status EXCEPT ![selected] = Idle(attached[selected])]
        /\ identifying' = [identifying EXCEPT ![selected] = FALSE]
     \/ UNCHANGED <<devices, status, identifying>>
  /\ Return
  /\ UNCHANGED <<cable, selected, srst>>

\* DRQ without BSY and ERR: the data is read.  Else the device is not there.
Collect ==
  /\ At("collect")
  /\ \/ /\ "DRQ" \in status[selected]
        /\ devices' = Described(geometry[selected])
        /\ status' = [status EXCEPT ![selected] = Idle(attached[selected])]
        /\ identifying' = [identifying EXCEPT ![selected] = FALSE]
     \/ devices' = Set("present", FALSE) /\ UNCHANGED <<status, identifying>>
  /\ Return
  /\ UNCHANGED <<cable, selected, srst>>

identify_ide_dev ==
  \/ Detect \/ Reset \/ Release \/ ResetWait \/ Select \/ Selected \/ Type \/ Identify \/ Collect

ProbeNext ==
  \/ identify_ide_dev
  \/ \E j \in Positions : DeviceReady(j) \/ DeviceAborts(j)

Up == step = "up"

-----------------------------------------------------------------------------
(* How ide_rw_blks addresses a block.                                      *)

\* The registers written for a block of device d.
Address(d, block) ==
  IF d.lba
  THEN [lba |-> TRUE, sc |-> block % BYTE, cl |-> (block \div BYTE) % BYTE,
        ch |-> (block \div WORD) % BYTE, hd |-> (block \div (WORD * BYTE)) % 16]
  ELSE LET cyl == block \div (d.heads * d.sectors)
           tmp == block % (d.heads * d.sectors)
       IN [lba |-> FALSE, sc |-> (tmp % d.sectors) + 1, cl |-> cyl % BYTE,
           ch |-> (cyl \div BYTE) % BYTE, hd |-> tmp \div d.sectors]

\* The block that a disk of geometry g takes the registers for; sector 0 does
\* not exist.
NoBlock == -1
BlockAt(g, a) ==
  LET cyl == a.cl + BYTE * a.ch
  IN IF a.lba THEN a.sc + BYTE * cyl + WORD * BYTE * a.hd
     ELSE IF a.sc \in 1 .. g.sectors THEN (cyl * g.heads + a.hd) * g.sectors + a.sc - 1
     ELSE NoBlock

-----------------------------------------------------------------------------
(* Properties.                                                             *)

\* A device recorded as present is there and of the kind recorded: device 0
\* answering in the place of device 1 is found out by IDENTIFY at the latest.
PresentIsThere ==
  Up => \A j \in Positions :
          devices[j].present => There(j) /\ devices[j].atapi = (attached[j] = "atapi")

\* Every block that passes the test of the capacity is a block of the disk,
\* and the registers written for it address that block, with CHS and with
\* LBA; of a larger disk the 16 bits kept of the capacity hide a part.
AddressIsTheBlock ==
  Up => \A j \in Positions :
          LET d == devices[j]
              g == geometry[j]
          IN d.present /\ ~d.atapi =>
               \A block \in 0 .. d.capacity - 1 :
                 /\ block < g.total
                 /\ BlockAt(g, Address(d, block)) = block

\* The types, and what the readers of the disk rely on.
DisksInv == ProbeTypeOK /\ PresentIsThere /\ AddressIsTheBlock

\* The probe comes to its end whatever the devices do.
ProbeEnds == <>Up
=============================================================================
