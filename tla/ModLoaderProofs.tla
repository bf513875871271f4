-------------------------- MODULE ModLoaderProofs --------------------------
(***************************************************************************)
(* What the probe of module IdeProbe finds, and that it lasts while module *)
(* ModLoader reads the disk it found: for any devices on the cable, and    *)
(* any disks among them that report of themselves as IDENTIFY can.  Then   *)
(* that ld_mod loads XMOD.ELF from it, wherever it is on the disk, unless  *)
(* a block that the disk has could not be read.                            *)
(***************************************************************************)
EXTENDS ModLoader, TLAPS

-----------------------------------------------------------------------------
(* The probe.                                                              *)

\* The position that is probed, from IDENTIFY on.
InIdentify == step \in {"identify", "collect"}

\* Who has DRQ set or executes IDENTIFY is there.
CableInv ==
  /\ \A j \in Positions : "DRQ" \in status[j] \/ identifying[j] => There(j)
  /\ step \in {"selected", "type", "identify", "collect"} => selected = dev

\* A device taken for present is the one that is there, with its geometry; while it
\* is identified it may still be device 0 that answered for it.
Known(j) ==
  LET d == devices[j]
      g == geometry[j]
  IN d.present =>
       /\ There(j) /\ d.atapi = (attached[j] = "atapi")
       /\ d.lba = g.lba /\ d.heads = g.heads /\ d.sectors = g.sectors
       /\ d.capacity = Capacity(g)

DevicesInv ==
  \A j \in Positions :
    IF j = dev /\ InIdentify THEN devices[j].atapi = (attached[Answers(j)] = "atapi")
    ELSE IF j = dev /\ ~At("detect") /\ ~Up THEN ~devices[j].present
    ELSE Known(j)

ProbeInv == ProbeTypeOK /\ CableInv /\ DevicesInv

LEMMA WordFacts == BYTE \in Nat \ {0} /\ WORD \in Nat \ {0}
<1>1. \A b \in Nat \ {0} : b * b \in Nat \ {0}
  OBVIOUS
<1> QED BY <1>1, ProbeAssumption DEF WORD

\* What the probe keeps of a disk is a device.
LEMMA CapacityInNat ==
  ASSUME NEW g \in Geometries \cup {NoGeometry}
  PROVE  /\ g.lba \in BOOLEAN /\ g.heads \in Nat /\ g.sectors \in Nat
         /\ Capacity(g) \in Nat
<1>1. /\ g.lba \in BOOLEAN /\ g.cylinders \in Nat /\ g.heads \in Nat /\ g.sectors \in Nat
      /\ g.total \in Nat
  <2>1. CASE g \in Geometries
    BY <2>1, ProbeAssumption, WordFacts
  <2>2. CASE g = NoGeometry
    BY <2>2 DEF NoGeometry
  <2> QED BY <2>1, <2>2
<1>2. WORD \in Nat \ {0}
  BY WordFacts
<1>3. g.heads * g.sectors * g.cylinders \in Nat
  BY <1>1
<1>4. g.total % WORD \in Nat
  BY <1>1, <1>2
<1> QED BY <1>1, <1>3, <1>4 DEF Capacity

LEMMA ProbeInitSound == ProbeInit => ProbeInv
<1> SUFFICES ASSUME ProbeInit PROVE ProbeInv
  OBVIOUS
<1>1. ProbeTypeOK
  BY ProbeAssumption DEF ProbeInit, ProbeTypeOK, Positions, Idle, Unknown
<1>2. CableInv
  BY DEF ProbeInit, CableInv, Positions, Idle
<1>3. DevicesInv
  BY DEF ProbeInit, DevicesInv, Positions, Unknown, Known, InIdentify, At
<1> QED BY <1>1, <1>2, <1>3 DEF ProbeInv

\* The devices change nothing that the probe has found.
LEMMA DevicesStep ==
  ASSUME ProbeInv, NEW j \in Positions, DeviceReady(j) \/ DeviceAborts(j)
  PROVE  ProbeInv'
<1>1. There(j) /\ UNCHANGED <<cable, selected, srst, devices, dev, step>>
  BY DEF DeviceReady, DeviceAborts, ProbeInv, ProbeTypeOK, CableInv, cable
<1>2. \E s \in SUBSET {"BSY", "DRDY", "DRQ", "ERR"} : status' = [status EXCEPT ![j] = s]
  BY DEF DeviceReady, DeviceAborts, Idle
<1>3. ProbeTypeOK'
  <2>1. status' \in [Positions -> SUBSET {"BSY", "DRDY", "DRQ", "ERR"}]
    BY <1>2 DEF ProbeInv, ProbeTypeOK
  <2>2. identifying' \in [Positions -> BOOLEAN]
    BY DEF DeviceReady, DeviceAborts, ProbeInv, ProbeTypeOK
  <2> QED BY <1>1, <2>1, <2>2 DEF ProbeInv, ProbeTypeOK, cable
<1>4. CableInv'
  <2>1. \A p \in Positions \ {j} : status'[p] = status[p] /\ identifying'[p] = identifying[p]
    BY DEF DeviceReady, DeviceAborts, ProbeInv, ProbeTypeOK
  <2> QED BY <1>1, <2>1 DEF ProbeInv, CableInv, There, cable
<1>5. DevicesInv'
  BY <1>1 DEF ProbeInv, DevicesInv, Known, InIdentify, Answers, There, At, Up, cable
<1> QED BY <1>3, <1>4, <1>5 DEF ProbeInv

Device == [present : BOOLEAN, atapi : BOOLEAN, lba : BOOLEAN, heads : Nat, sectors : Nat,
           capacity : Nat]

\* A store to present.
LEMMA PresentSet ==
  ASSUME ProbeTypeOK, NEW v \in BOOLEAN
  PROVE  /\ Set("present", v) \in [Positions -> Device]
         /\ Set("present", v)[dev].present = v
         /\ \A j \in Positions \ {dev} : Set("present", v)[j] = devices[j]
<1>1. devices[dev] \in Device /\ dev \in Positions
  BY DEF ProbeTypeOK, Device
<1>2. ASSUME NEW d \in Device PROVE [d EXCEPT !["present"] = v] \in Device /\ [d EXCEPT !["present"] = v].present = v
  BY <1>2 DEF Device
<1> QED BY <1>1, <1>2 DEF Set, ProbeTypeOK, Device

\* A step of the probe in front of IDENTIFY, by which the device is not yet
\* present, or not any more when the probe returns.
Early == Detect \/ Reset \/ Release \/ ResetWait \/ Select \/ Selected

LEMMA EarlyStep ==
  ASSUME ProbeInv, Early
  PROVE  ProbeInv'
<1> USE DEF ProbeInv
<1>1. /\ UNCHANGED cable /\ dev \in Positions /\ ~InIdentify /\ ~Up
      /\ step \in {"detect", "reset", "release", "resetting", "select", "selected"}
  BY DEF Early, Detect, Reset, Release, ResetWait, Select, Selected, InIdentify, Up, At, ProbeTypeOK, bus
<1>2. /\ status' \in [Positions -> SUBSET {"BSY", "DRDY", "DRQ", "ERR"}]
      /\ identifying' \in [Positions -> BOOLEAN]
      /\ selected' \in Positions /\ srst' \in BOOLEAN
      /\ \A j \in Positions : "DRQ" \in status'[j] \/ identifying'[j] => There(j)
  <2>1. CASE Reset
    BY <2>1 DEF Reset, ProbeTypeOK, There, Positions
  <2>2. CASE Detect \/ Release \/ ResetWait \/ Select \/ Selected
    <3>1. UNCHANGED <<status, identifying>>
      BY <2>2 DEF Detect, Release, ResetWait, Select, Selected, bus
    <3>2. selected' \in Positions /\ srst' \in BOOLEAN
      BY <2>2 DEF Detect, Release, ResetWait, Select, Selected, bus, ProbeTypeOK
    <3> QED BY <3>1, <3>2 DEF ProbeTypeOK, CableInv
  <2> QED BY <2>1, <2>2 DEF Early
<1>3. \/ Return
      \/ UNCHANGED dev /\ step' \in {"reset", "release", "resetting", "select"}
      \/ UNCHANGED dev /\ step' \in {"selected", "type"} /\ selected' = dev
  BY DEF Early, Detect, Reset, Release, ResetWait, Select, Selected, Goto, At, CableInv, bus
<1>4. /\ devices' = devices \/ devices' = Set("present", FALSE)
      /\ ~devices'[dev].present
  BY <1>1 DEF Early, Detect, Reset, Release, ResetWait, Select, Selected, DevicesInv, Set, ProbeTypeOK, bus, At, Up, InIdentify
<1>5. ProbeTypeOK'
  <2>1. devices' \in [Positions -> Device]
    BY <1>4, PresentSet DEF ProbeTypeOK, Device
  <2>2. dev' \in Positions /\ step' \in {"detect", "reset", "release", "resetting", "select", "selected", "type", "identify", "collect", "up"}
    BY <1>1, <1>3 DEF Return, Positions
  <2> QED BY <1>1, <1>2, <2>1, <2>2 DEF ProbeTypeOK, cable, Device
<1>6. CableInv'
  BY <1>1, <1>2, <1>3 DEF CableInv, cable, Return, There
<1>7. DevicesInv'
  <2>1. \A j \in Positions : devices'[j].present => j # dev /\ devices'[j] = devices[j] /\ Known(j)
    BY <1>1, <1>4 DEF DevicesInv, Set, ProbeTypeOK
  <2>2. \A j \in Positions : Known(j)'
    BY <1>1, <2>1 DEF Known, There, cable
  <2>3. ~InIdentify'
    BY <1>3 DEF InIdentify, Return
  <2>4. UNCHANGED dev => ~devices'[dev'].present
    BY <1>4
  <2>5. ~UNCHANGED dev => At("detect")'
    BY <1>3 DEF Return, At
  <2> QED BY <2>2, <2>3, <2>4, <2>5 DEF DevicesInv
<1> QED BY <1>5, <1>6, <1>7

\* The signature, which device 0 may give for device 1.
LEMMA TypeStep ==
  ASSUME ProbeInv, Type
  PROVE  ProbeInv'
<1> USE DEF ProbeInv
<1>1. selected = dev /\ dev \in Positions /\ UNCHANGED <<cable, bus>> /\ At("type")
  BY DEF Type, CableInv, At, ProbeTypeOK
<1>2. CASE UNCHANGED devices /\ Return
  <2>1. ProbeTypeOK' /\ CableInv'
    BY <1>1, <1>2 DEF ProbeTypeOK, CableInv, There, cable, bus, Return, Positions
  <2>2. \A j \in Positions : Known(j) /\ Known(j)'
    BY <1>1, <1>2 DEF Known, DevicesInv, At, Up, InIdentify, There, cable
  <2> QED BY <1>1, <1>2, <2>1, <2>2 DEF DevicesInv, InIdentify, At, Up, Return, Positions
<1>3. CASE /\ devices' = [Set("present", TRUE) EXCEPT ![dev].atapi = (attached[Answers(selected)] = "atapi")]
           /\ Goto("identify")
  <2>1. ProbeTypeOK' /\ CableInv'
    <3>1. devices' \in [Positions -> Device]
      <4>1. Set("present", TRUE) \in [Positions -> Device]
        BY PresentSet
      <4>2. ASSUME NEW d \in Device, NEW v \in BOOLEAN PROVE [d EXCEPT !.atapi = v] \in Device
        BY <4>2 DEF Device
      <4> QED BY <1>1, <1>3, <4>1, <4>2
    <3>2. UNCHANGED <<attached, geometry, selected, srst, status, identifying, dev>> /\ step' = "identify"
      BY <1>1, <1>3 DEF cable, bus, Goto
    <3> QED BY <1>1, <3>1, <3>2 DEF ProbeTypeOK, CableInv, There, Device
  <2>2. devices'[dev].atapi = (attached[Answers(dev)] = "atapi")
    BY <1>1, <1>3 DEF Set, ProbeTypeOK
  <2>3. \A j \in Positions \ {dev} : Known(j)'
    BY <1>1, <1>3 DEF Known, DevicesInv, There, Set, ProbeTypeOK, cable
  <2> QED BY <1>1, <1>3, <2>1, <2>2, <2>3 DEF DevicesInv, InIdentify, Goto, Answers, There, cable
<1> QED BY <1>2, <1>3 DEF Type

LEMMA IdentifyStep ==
  ASSUME ProbeInv, Identify
  PROVE  ProbeInv'
<1> USE DEF ProbeInv
<1>1. At("identify") /\ UNCHANGED <<cable, selected, srst, devices, dev>> /\ step' = "collect"
  BY DEF Identify, Goto
<1>2. /\ status' \in [Positions -> SUBSET {"BSY", "DRDY", "DRQ", "ERR"}]
      /\ identifying' \in [Positions -> BOOLEAN]
      /\ \A j \in Positions : "DRQ" \in status'[j] \/ identifying'[j] => There(j)
  <2>1. CASE UNCHANGED <<status, identifying>>
    BY <2>1 DEF ProbeTypeOK, CableInv
  <2>2. CASE There(selected) /\ status' = [status EXCEPT ![selected] = {"BSY"}]
             /\ identifying' = [identifying EXCEPT ![selected] = TRUE]
    BY <2>2 DEF ProbeTypeOK, CableInv
  <2> QED BY <2>1, <2>2 DEF Identify
<1>3. ProbeTypeOK' /\ CableInv'
  BY <1>1, <1>2 DEF ProbeTypeOK, CableInv, There, cable, At
<1> QED BY <1>1, <1>3 DEF DevicesInv, InIdentify, At, Up, Known, Answers, There, cable

\* IDENTIFY tells the device that is there from the one that answered for it.
LEMMA CollectStep ==
  ASSUME ProbeInv, Collect
  PROVE  ProbeInv'
<1> USE DEF ProbeInv
<1> DEFINE g == geometry[dev]
<1>1. selected = dev /\ dev \in Positions /\ UNCHANGED <<cable, selected, srst>> /\ Return /\ At("collect")
  BY DEF Collect, CableInv, At, ProbeTypeOK
<1>2. devices[dev].atapi = (attached[Answers(dev)] = "atapi")
  BY <1>1 DEF DevicesInv, InIdentify, At
<1>3. /\ \/ There(dev) /\ devices' = Described(g)
         \/ devices' = Set("present", FALSE)
      /\ status' \in [Positions -> SUBSET {"BSY", "DRDY", "DRQ", "ERR"}]
      /\ identifying' \in [Positions -> BOOLEAN]
      /\ \A j \in Positions : "DRQ" \in status'[j] \/ identifying'[j] => There(j)
  <2>1. CASE /\ "DRQ" \in status[selected] /\ devices' = Described(geometry[selected])
             /\ status' = [status EXCEPT ![selected] = Idle(attached[selected])]
             /\ identifying' = [identifying EXCEPT ![selected] = FALSE]
    BY <1>1, <2>1 DEF CableInv, ProbeTypeOK, Idle
  <2>2. CASE devices' = Set("present", FALSE) /\ UNCHANGED <<status, identifying>>
    BY <2>2 DEF CableInv, ProbeTypeOK
  <2> QED BY <2>1, <2>2 DEF Collect
<1>4. g.lba \in BOOLEAN /\ g.heads \in Nat /\ g.sectors \in Nat /\ Capacity(g) \in Nat
  BY <1>1, CapacityInNat DEF ProbeTypeOK
<1>5. devices' \in [Positions -> Device]
  <2>1. ASSUME NEW d \in Device
        PROVE  [d EXCEPT !.lba = g.lba, !.heads = g.heads, !.sectors = g.sectors,
                         !.capacity = Capacity(g)] \in Device
    <3> HIDE DEF g
    <3>1. g.lba \in BOOLEAN /\ g.heads \in Nat /\ g.sectors \in Nat /\ Capacity(g) \in Nat
      BY <1>4
    <3> QED BY <2>1, <3>1 DEF Device
  <2>2. devices \in [Positions -> Device]
    BY DEF ProbeTypeOK, Device
  <2>3. Described(g) \in [Positions -> Device]
    BY <1>1, <2>1, <2>2 DEF Described
  <2> QED BY <1>3, <2>3, PresentSet
<1>6. ProbeTypeOK'
  BY <1>1, <1>3, <1>5 DEF ProbeTypeOK, Return, cable, Positions, Device
<1>7. CableInv'
  BY <1>1, <1>3 DEF CableInv, Return, There, cable
<1>8. ASSUME NEW j \in Positions PROVE Known(j)'
  <2>1. CASE j # dev
    BY <1>1, <1>3, <2>1 DEF Known, DevicesInv, Described, Set, ProbeTypeOK, There, cable
  <2>2. CASE j = dev /\ devices' = Set("present", FALSE)
    BY <1>1, <2>2 DEF Known, Set, ProbeTypeOK
  <2>3. CASE j = dev /\ There(dev) /\ devices' = Described(g)
    <3>1. /\ devices'[j].atapi = devices[j].atapi /\ devices'[j].lba = g.lba
          /\ devices'[j].heads = g.heads /\ devices'[j].sectors = g.sectors
          /\ devices'[j].capacity = Capacity(g)
      BY <1>1, <2>3 DEF Described, ProbeTypeOK
    <3>2. geometry' = geometry /\ attached' = attached /\ Answers(dev) = dev
      BY <1>1, <2>3 DEF cable, Answers
    <3> QED BY <1>2, <2>3, <3>1, <3>2 DEF Known, There
  <2> QED BY <1>3, <2>1, <2>2, <2>3
<1> QED BY <1>1, <1>6, <1>7, <1>8 DEF DevicesInv, Return, InIdentify, At, Up, Positions

LEMMA ProbeStep == ProbeInv /\ ProbeNext => ProbeInv'
BY DevicesStep, EarlyStep, TypeStep, IdentifyStep, CollectStep
DEF ProbeNext, identify_ide_dev, Early

-----------------------------------------------------------------------------
(* The addresses of blocks.                                                *)

LEMMA Division ==
  ASSUME NEW a \in Nat, NEW b \in Nat \ {0}
  PROVE  a \div b \in Nat /\ a % b \in 0 .. b - 1 /\ a = b * (a \div b) + (a % b)
OBVIOUS

LEMMA ByteDivision ==
  \A a \in Nat : a \div BYTE \in Nat /\ a % BYTE \in Nat /\ a = BYTE * (a \div BYTE) + (a % BYTE)
<1> SUFFICES ASSUME NEW a \in Nat
             PROVE  a \div BYTE \in Nat /\ a % BYTE \in Nat /\ a = BYTE * (a \div BYTE) + (a % BYTE)
  OBVIOUS
<1>1. BYTE \in Nat \ {0}
  BY WordFacts
<1>2. a % BYTE \in 0 .. BYTE - 1
  BY <1>1, Division
<1>3. a \div BYTE \in Nat /\ a = BYTE * (a \div BYTE) + (a % BYTE)
  BY <1>1, Division
<1> QED BY <1>1, <1>2, <1>3

\* What is left of a word below a product of two numbers.
LEMMA QuotientBelow ==
  ASSUME NEW a \in Nat, NEW b \in Nat \ {0}, NEW c \in Nat, a < b * c
  PROVE  a \div b < c
<1>1. a = b * (a \div b) + (a % b) /\ a \div b \in Nat /\ a % b \in Nat
  BY Division
<1> DEFINE q == a \div b
<1> HIDE DEF q
<1>2. q \in Nat /\ b * q <= a
  BY <1>1 DEF q
<1>3. SUFFICES ASSUME q >= c PROVE FALSE
  BY <1>2 DEF q
<1>4. b * q >= b * c
  BY <1>2, <1>3
<1> QED BY <1>2, <1>4

LEMMA LbaAddressesTheBlock ==
  ASSUME NEW d, NEW g, d.lba, NEW block \in Nat, block < WORD
  PROVE  BlockAt(g, Address(d, block)) = block
<1> DEFINE q == block \div BYTE
<1>1. q \in Nat /\ block % BYTE \in Nat /\ block = BYTE * q + (block % BYTE)
  BY Division, WordFacts
<1>2. q < BYTE
  BY QuotientBelow, WordFacts DEF WORD
<1>3. q % BYTE = q
  BY <1>1, <1>2, WordFacts
<1>4. block \div WORD = 0 /\ block \div (WORD * BYTE) = 0
  <2>1. WORD * BYTE \in Nat \ {0} /\ block < WORD * BYTE
    <3>1. \A w, b \in Nat \ {0} : w * b \in Nat \ {0} /\ w <= w * b
      OBVIOUS
    <3> QED BY <3>1, WordFacts
  <2>2. ASSUME NEW w \in Nat \ {0}, block < w PROVE block \div w = 0
    BY <2>2
  <2> QED BY <2>1, <2>2, WordFacts
<1>5. 0 % BYTE = 0 /\ 0 % 16 = 0
  BY WordFacts
<1>6. Address(d, block) = [lba |-> TRUE, sc |-> block % BYTE, cl |-> q, ch |-> 0, hd |-> 0]
  BY <1>3, <1>4, <1>5 DEF Address
<1> HIDE DEF q
<1>7. BlockAt(g, Address(d, block)) = (block % BYTE) + BYTE * (q + BYTE * 0) + WORD * BYTE * 0
  BY <1>6 DEF BlockAt
<1>8. BYTE * 0 = 0 /\ WORD * BYTE * 0 = 0
  BY WordFacts
<1>9. BYTE * q \in Nat
  BY <1>1, WordFacts
<1> QED BY <1>1, <1>7, <1>8, <1>9, WordFacts

LEMMA ChsAddressesTheBlock ==
  ASSUME NEW d, ~d.lba, NEW g, d.heads = g.heads, d.sectors = g.sectors,
         g.heads \in Nat, g.sectors \in Nat, g.cylinders \in 0 .. WORD - 1,
         NEW block \in Nat, block < g.heads * g.sectors * g.cylinders
  PROVE  BlockAt(g, Address(d, block)) = block
<1> DEFINE h == g.heads
           s == g.sectors
           track == h * s
           cyl == block \div track
           tmp == block % track
<1>0. /\ h \in Nat /\ s \in Nat /\ g.cylinders \in Nat /\ track \in Nat
      /\ block < track * g.cylinders /\ g.cylinders < WORD
  BY WordFacts
<1>1. h # 0 /\ s # 0 /\ track \in Nat \ {0}
  <2> HIDE DEF h, s
  <2>1. track * g.cylinders > 0
    BY <1>0
  <2>2. track # 0
    <3> HIDE DEF track
    <3> QED BY <1>0, <2>1
  <2> QED BY <1>0, <2>2
<1>2. /\ cyl \in Nat /\ tmp \in 0 .. track - 1 /\ block = track * cyl + tmp
  <2> HIDE DEF track
  <2> QED BY <1>0, <1>1, Division
<1>11. cyl \in Nat /\ tmp \in Nat /\ s \in Nat \ {0}
  <2> HIDE DEF track
  <2> QED BY <1>0, <1>1, <1>2
<1>3. cyl < g.cylinders
  <2> HIDE DEF track
  <2> QED BY <1>0, <1>1, QuotientBelow
<1>4. /\ tmp \div s \in Nat /\ tmp % s \in 0 .. s - 1
      /\ tmp = s * (tmp \div s) + (tmp % s)
  <2> HIDE DEF s, tmp
  <2> QED BY <1>11, Division
<1> DEFINE ch == cyl \div BYTE
<1>5. /\ ch \in Nat /\ cyl % BYTE \in Nat /\ cyl = BYTE * ch + (cyl % BYTE) /\ ch % BYTE = ch
  <2> HIDE DEF cyl
  <2>1. ch \in Nat /\ cyl % BYTE \in Nat /\ cyl = BYTE * ch + (cyl % BYTE)
    BY <1>11, ByteDivision
  <2>2. ch < BYTE
    <3>1. cyl < BYTE * BYTE
      BY <1>0, <1>3, <1>11, WordFacts DEF WORD
    <3> QED BY <1>11, <3>1, WordFacts, QuotientBelow
  <2> HIDE DEF ch
  <2> QED BY <2>1, <2>2, WordFacts
<1>6. Address(d, block) = [lba |-> FALSE, sc |-> (tmp % s) + 1, cl |-> cyl % BYTE,
                           ch |-> ch, hd |-> tmp \div s]
  BY <1>5 DEF Address
<1> HIDE DEF cyl, tmp, ch
<1>7. BlockAt(g, Address(d, block)) =
        (((cyl % BYTE) + BYTE * ch) * h + (tmp \div s)) * s + ((tmp % s) + 1) - 1
  BY <1>0, <1>1, <1>4, <1>6 DEF BlockAt
<1> DEFINE head == tmp \div s
           rest == tmp % s
<1>8. head \in Nat /\ rest \in Nat /\ tmp = s * head + rest
  BY <1>4
<1>9. BlockAt(g, Address(d, block)) = (cyl * h + head) * s + rest
  <2>1. (cyl % BYTE) + BYTE * ch = cyl
    BY <1>5, WordFacts
  <2>2. (cyl * h + head) * s \in Nat
    <3> HIDE DEF h, s, head
    <3> QED BY <1>0, <1>2, <1>8
  <2> HIDE DEF h, s
  <2> QED BY <1>7, <2>1, <2>2, <1>8
<1> HIDE DEF h, s, head, rest
<1>10. (cyl * h + head) * s + rest = (h * s) * cyl + (s * head + rest)
  BY <1>0, <1>2, <1>8
<1> QED BY <1>2, <1>8, <1>9, <1>10 DEF track

\* Whatever a disk reports of itself, a block below its capacity is one of the
\* disk, and is the one that the registers address.
LEMMA KnownIsAddressed ==
  ASSUME ProbeTypeOK, CableInv, NEW j \in Positions, Known(j), devices[j].present, ~devices[j].atapi,
         NEW block \in 0 .. devices[j].capacity - 1
  PROVE  /\ block < geometry[j].total
         /\ BlockAt(geometry[j], Address(devices[j], block)) = block
<1> DEFINE d == devices[j]
           g == geometry[j]
<1>1. /\ d.lba = g.lba /\ d.heads = g.heads /\ d.sectors = g.sectors /\ d.capacity = Capacity(g)
      /\ g \in Geometries \cup {NoGeometry}
  BY DEF Known, ProbeTypeOK
<1> HIDE DEF d, g
<1>2. block \in Nat /\ block < Capacity(g) /\ Capacity(g) \in Nat
  BY <1>1, CapacityInNat DEF d
<1>3. g \in Geometries
  <2>1. Capacity(NoGeometry) = 0
    BY DEF Capacity, NoGeometry
  <2> QED BY <1>1, <1>2, <2>1
<1>4. /\ g \in [lba : BOOLEAN, cylinders : 0 .. WORD - 1, heads : Nat, sectors : Nat, total : Nat]
      /\ ~g.lba => g.heads * g.sectors * g.cylinders <= g.total
  BY <1>3, ProbeAssumption
<1>5. CASE g.lba
  <2>1. Capacity(g) = g.total % WORD /\ g.total \in Nat
    BY <1>4, <1>5 DEF Capacity
  <2>2. g.total % WORD < WORD /\ g.total % WORD <= g.total
    BY <2>1, WordFacts
  <2>3. block < WORD /\ block < g.total
    BY <1>2, <2>1, <2>2, WordFacts
  <2>4. BlockAt(g, Address(d, block)) = block
    BY <1>1, <1>2, <1>5, <2>3, LbaAddressesTheBlock
  <2> QED BY <2>3, <2>4 DEF d, g
<1>6. CASE ~g.lba
  <2>1. Capacity(g) = g.heads * g.sectors * g.cylinders /\ g.total \in Nat
    BY <1>4, <1>6 DEF Capacity
  <2>2. block < g.total
    BY <1>2, <1>4, <1>6, <2>1
  <2>3. g.heads \in Nat /\ g.sectors \in Nat /\ g.cylinders \in 0 .. WORD - 1
    BY <1>4
  <2>4. BlockAt(g, Address(d, block)) = block
    BY <1>1, <1>2, <1>6, <2>1, <2>3, ChsAddressesTheBlock
  <2> QED BY <2>2, <2>4 DEF d, g
<1> QED BY <1>5, <1>6

-----------------------------------------------------------------------------
(* The disks, for all of the loading.                                      *)

LEMMA LoaderKeepsProbe == ProbeInv /\ [Next]_vars => ProbeInv'
<1> SUFFICES ASSUME ProbeInv, [Next]_vars PROVE ProbeInv'
  OBVIOUS
<1>1. CASE ProbeNext
  BY <1>1, ProbeStep
<1>2. CASE UNCHANGED probe
  BY <1>2 DEF ProbeInv, ProbeTypeOK, CableInv, DevicesInv, probe, cable, bus, There, Known,
              InIdentify, Answers, At, Up
<1>3. Next => ProbeNext \/ UNCHANGED probe
  BY DEF Next, ld_mod, sys_ld_mod, AltF12, Tick, get_root_ent_bname, ReadCluster,
         fat_next_tabent, ReadRest, LayStart, LayHeader, LayEnd, Elsewhere
<1> QED BY <1>1, <1>2, <1>3 DEF vars

\* Only what is there is taken for a disk, and every block number that passes
\* the test of its capacity reaches that block, by LBA and by cylinders: for all
\* disks, and any devices on the cable, however they answer.
THEOREM ModLoaderDisksInv == Spec => []DisksInv
<1>1. Init => ProbeInv
  BY ProbeInitSound DEF Init
<1>2. ProbeInv => DisksInv
  <2> SUFFICES ASSUME ProbeInv PROVE DisksInv
    OBVIOUS
  <2>1. Up => \A j \in Positions : Known(j)
    BY DEF ProbeInv, DevicesInv, Up, At, InIdentify
  <2>2. PresentIsThere
    BY <2>1 DEF PresentIsThere, Known
  <2>3. AddressIsTheBlock
    BY <2>1, KnownIsAddressed DEF AddressIsTheBlock, ProbeInv
  <2> QED BY <2>2, <2>3 DEF DisksInv, ProbeInv
<1> QED BY <1>1, <1>2, LoaderKeepsProbe, PTL DEF Spec

-----------------------------------------------------------------------------
(* The loading of the xmod.                                                *)

xmod == layout.file
firstPh == PhFirst(xmod)

\* The layouts that Init admits: a chain ends with the xmod.
Cut(l) == [l EXCEPT !.chain = SubSeq(@, 1, (Len(l.file) + CLUS_SIZE - 1) \div CLUS_SIZE)]

Words == {LowHigh(n) : n \in 0 .. WORD - 1}

\* The disk behind an ATA device, and what the buffers and counters hold.
LoaderTypes ==
  /\ \A j \in Positions : attached[j] = "ata" => geometry[j] \in Geometries
  /\ layout \in {Cut(l) : l \in Layouts}
  /\ at \in {"user", "search", "read", "next", "headers", "lay", "loaded"}
  /\ i \in Nat /\ rent.clus \in Words /\ rent.size \in Words
  /\ ent_nr \in -1 .. WORD - 1
  /\ phAddr \in 0 .. MEM_SIZE - 1
  /\ failed \in BOOLEAN /\ schedule \in {"sched0", "XModPhyAddr"} /\ outcome \in {"runs", "wild"}
  /\ mem \in [0 .. MEM_SIZE - 1 -> {Junk} \cup {xmod[n] : n \in DOMAIN xmod}]

\* How many headers have been laid out.
seen == phAddr - (firstPh - 1)

\* Also after reads that failed, and left clusters anywhere: the first cluster is
\* that of the file or none of it, so that the elf header is the one of the xmod
\* or junk, and no more headers are looked at than it says.
InPlace ==
  /\ mem[0] \in {Junk, xmod[1]}
  /\ at \in {"read", "next"} /\ i = 0 => \A k \in DOMAIN layout.chain : layout.chain[k] = ent_nr => k = 1
  /\ at = "lay" => mem[0] = xmod[1] /\ seen \in 0 .. PhNr(xmod) /\ seen <= i

Loaded(n) == \A a \in 0 .. n - 1 : mem[a] = xmod[a + 1]
InMemory(ph) == \A k \in 0 .. ph.filesz - 1 : mem[ph.vaddr + k] = xmod[ph.offset + k + 1]
Followed == layout.chain # <<>> /\ ent_nr = IF i < Len(layout.chain) THEN layout.chain[i + 1] ELSE EOF

\* No read failed so far, and the file is there.
Good == ~failed /\ FileThere

GoodSoFar ==
  Good =>
    /\ at = "search" => i <= layout.pos
    /\ at \in {"read", "next"} =>
         /\ Followed
         /\ rent = RootEntry(layout.name, Head(layout.chain), Len(xmod))
         /\ IF at = "read" THEN i <= nblk /\ Loaded(i * CLUS_SIZE)
                           ELSE i < nblk /\ Loaded((i + 1) * CLUS_SIZE)
    /\ at \in {"headers", "lay"} => Loaded(Len(xmod))
    /\ at = "lay" =>
         /\ seen = i \/ (seen < PhNr(xmod) /\ PhType(xmod, firstPh + seen) = 0)
         /\ \A n \in firstPh .. firstPh + seen - 1 : PhType(xmod, n) # 0 /\ InMemory(Header(xmod, n))
    /\ at = "loaded" => \A ph \in Headers : InMemory(ph)
    /\ outcome = "wild" => at = "user"

LoaderStateInv == LoaderTypes /\ InPlace /\ GoodSoFar

\* The least of one number, and of one and two.
LEMMA MinOf == ASSUME NEW a \in Nat PROVE Min({a}) = a
BY DEF Min

LEMMA Min12 == Min({1, 2}) = 1
BY DEF Min

\* mem2num of two bytes, low byte first. The fold in its definition is the
\* function that calls itself on the set of indices without the least; w is such a
\* function, so that the one that CHOOSE takes is one as well.
LEMMA Mem2NumIs ==
  ASSUME NEW a \in Nat, NEW b \in Nat, BYTE \in Nat
  PROVE  mem2num(<<a, b>>) = a + b * BYTE
<1> DEFINE it(g) == [s \in SUBSET {1, 2} |->
             IF s = {} THEN 0
             ELSE <<a, b>>[Min(s)] + g[s \ {Min(s)}] * BYTE]
          iter == CHOOSE g : g = it(g)
          w == [s \in SUBSET {1, 2} |->
             IF s = {} THEN 0
             ELSE IF s = {1} THEN a ELSE IF s = {2} THEN b ELSE a + b * BYTE]
<1>0. DOMAIN <<a, b>> = {1, 2} /\ <<a, b>>[1] = a /\ <<a, b>>[2] = b
  OBVIOUS
<1>1. mem2num(<<a, b>>) = iter[{1, 2}]
  <2> HIDE DEF w
  <2> QED BY <1>0, Zenon DEF mem2num, FoldRight, MapThenFoldSet
<1>2. w = it(w)
  <2>1. \A s \in SUBSET {1, 2} : s = {} \/ s = {1} \/ s = {2} \/ s = {1, 2}
    OBVIOUS
  <2>2. Min({1}) = 1 /\ Min({2}) = 2 /\ Min({1, 2}) = 1
    BY MinOf, Min12
  <2>3. w[{}] = 0 /\ w[{1}] = a /\ w[{2}] = b /\ w[{1, 2}] = a + b * BYTE
    OBVIOUS
  <2>4. {1} \ {1} = {} /\ {2} \ {2} = {} /\ {1, 2} \ {1} = {2}
    OBVIOUS
  <2>5. a + 0 * BYTE = a /\ b + 0 * BYTE = b
    OBVIOUS
  <2> HIDE DEF w
  <2>6. /\ it(w)[{}] = 0 /\ it(w)[{1}] = a /\ it(w)[{2}] = b
        /\ it(w)[{1, 2}] = a + b * BYTE
    <3>1. it(w)[{}] = 0
      OBVIOUS
    <3>2. \A s \in SUBSET {1, 2} : s # {} => it(w)[s] = <<a, b>>[Min(s)] + w[s \ {Min(s)}] * BYTE
      OBVIOUS
    <3>3. {1} # {} /\ {2} # {} /\ {1, 2} # {}
      OBVIOUS
    <3> HIDE DEF it
    <3>4. it(w)[{1}] = <<a, b>>[1] + w[{}] * BYTE
      BY <2>2, <2>4, <3>2, <3>3
    <3>5. it(w)[{2}] = <<a, b>>[2] + w[{}] * BYTE
      BY <2>2, <2>4, <3>2, <3>3
    <3>6. it(w)[{1, 2}] = <<a, b>>[1] + w[{2}] * BYTE
      BY <2>2, <2>4, <3>2, <3>3
    <3> QED BY <1>0, <2>3, <2>5, <3>1, <3>4, <3>5, <3>6
  <2>7. \A s \in SUBSET {1, 2} : w[s] = it(w)[s]
    <3> HIDE DEF it
    <3> QED BY <2>1, <2>3, <2>6
  <2>8. w = [s \in SUBSET {1, 2} |-> w[s]] /\ it(w) = [s \in SUBSET {1, 2} |-> it(w)[s]]
    BY DEF w
  <2> HIDE DEF it
  <2> QED BY <2>7, <2>8
<1>3. iter = it(iter)
  <2> HIDE DEF it, w
  <2>1. \E g : g = it(g)
    BY <1>2
  <2> QED BY <2>1, Zenon
<1>4. iter[{2}] = b /\ iter[{1, 2}] = a + b * BYTE
  <2> HIDE DEF iter
  <2>1. \A s \in SUBSET {1, 2} : iter[s] = IF s = {} THEN 0 ELSE <<a, b>>[Min(s)] + iter[s \ {Min(s)}] * BYTE
    BY <1>3
  <2>2. Min({2}) = 2 /\ Min({1, 2}) = 1
    BY MinOf, Min12
  <2>3. {2} \ {2} = {} /\ {1, 2} \ {1} = {2}
    OBVIOUS
  <2>4. {1, 2} # {} /\ {2} # {}
    OBVIOUS
  <2>5. iter[{}] = 0
    BY <2>1
  <2>6. iter[{2}] = b
    <3>1. iter[{2}] = b + iter[{}] * BYTE
      BY <1>0, <2>1, <2>2, <2>3, <2>4
    <3> QED BY <2>5, <3>1
  <2>7. iter[{1, 2}] = a + b * BYTE
    BY <1>0, <2>1, <2>2, <2>3, <2>4, <2>6
  <2> QED BY <2>6, <2>7
<1> QED BY <1>1, <1>4

\* Numbers of two bytes.
LEMMA NumberIs ==
  ASSUME NEW b \in [1 .. 2 -> Nat]
  PROVE  mem2num(b) = Number(b) /\ Number(b) \in Nat
<1>1. b = <<b[1], b[2]>>
  OBVIOUS
<1>2. b[1] \in Nat /\ b[2] \in Nat /\ BYTE \in Nat
  BY WordFacts
<1>3. mem2num(<<b[1], b[2]>>) = b[1] + b[2] * BYTE
  BY <1>2, Mem2NumIs
<1> QED BY <1>1, <1>2, <1>3 DEF Number

\* A number in two bytes is that number for mem2num,
LEMMA WordIs ==
  ASSUME NEW n \in Nat
  PROVE  mem2num(LowHigh(n)) = n /\ LowHigh(n) \in [1 .. 2 -> Nat]
<1>1. n \div BYTE \in Nat /\ n % BYTE \in Nat /\ n = BYTE * (n \div BYTE) + (n % BYTE) /\ BYTE \in Nat
  BY ByteDivision, WordFacts
<1> DEFINE q == n \div BYTE
           r == n % BYTE
<1>2. q \in Nat /\ r \in Nat /\ n = BYTE * q + r
  BY <1>1
<1>3. LowHigh(n) = <<r, q>>
  BY DEF LowHigh
<1> HIDE DEF q, r
<1>4. mem2num(<<r, q>>) = r + q * BYTE
  BY <1>1, <1>2, Mem2NumIs
<1>5. <<r, q>> \in [1 .. 2 -> Nat]
  BY <1>2
<1>6. r + q * BYTE = BYTE * q + r
  BY <1>1, <1>2
<1> QED BY <1>2, <1>3, <1>4, <1>5, <1>6

\* and two bytes are a word.
LEMMA WordsAre ==
  ASSUME NEW w \in Words
  PROVE  mem2num(w) \in 0 .. WORD - 1
<1>1. PICK n \in 0 .. WORD - 1 : w = LowHigh(n)
  BY DEF Words
<1> QED BY <1>1, WordIs, WordFacts

\* Names: cmpfname compares with all the fields of an entry.
LEMMA MaxOf == ASSUME NEW a \in Nat PROVE Max({a, 0}) = a
BY DEF Max

\* cmpfname accepts an entry if and only if all its fields are those of the name.
LEMMA CmpfnameIs ==
  ASSUME NEW d \in DOMAIN mod_name, d <= NAME_LEN, Len(mod_name) <= d + EXT_LEN,
         \A k \in DOMAIN mod_name : mod_name[k] = "." <=> k = d,
         NEW T, NEW buf \in [1 .. NAME_LEN + EXT_LEN -> T]
  PROVE  cmpfname(mod_name, buf) <=> buf = SplitAt(d)
<1> DEFINE dots == {k \in 1 .. NAME_LEN : Char(mod_name, k) = "."}
           name == SubSeq(mod_name, 1, d - 1)
           ext == SubSeq(mod_name, d + 1, Len(mod_name))
<1>1. /\ NAME_LEN \in Nat /\ EXT_LEN \in Nat /\ mod_name \in Seq(STRING) /\ d \in 1 .. Len(mod_name)
      /\ Len(mod_name) \in Nat
  BY NameAssumption
<1>2. dots = {d}
  BY <1>1 DEF Char
<1>3. Min(dots) = d
  BY <1>1, <1>2, MinOf
<1>4. (IF Len(mod_name) > d + EXT_LEN THEN EXT_LEN ELSE Max({Len(mod_name) - d, 0})) = Len(mod_name) - d
  BY SMTT(30), <1>1, MaxOf
<1>5. cmpfname(mod_name, buf) <=>
        /\ \A k \in 1 .. d - 1 : Char(mod_name, k) = buf[k]
        /\ \A k \in d .. NAME_LEN : buf[k] = " "
        /\ \A k \in 1 .. Len(mod_name) - d : Char(mod_name, d + k) = buf[NAME_LEN + k]
        /\ \A k \in Len(mod_name) - d + 1 .. EXT_LEN : buf[NAME_LEN + k] = " "
  <2>1. dots # {} /\ d - 1 + 1 = d
    BY <1>1, <1>2
  <2> HIDE DEF dots
  <2>2. cmpfname(mod_name, buf) <=>
          LET stop == d - 1
              extlen == Len(mod_name) - d
          IN /\ \A k \in 1 .. stop : Char(mod_name, k) = buf[k]
             /\ \A k \in stop + 1 .. NAME_LEN : buf[k] = " "
             /\ \A k \in 1 .. extlen : Char(mod_name, d + k) = buf[NAME_LEN + k]
             /\ \A k \in extlen + 1 .. EXT_LEN : buf[NAME_LEN + k] = " "
    <3>1. cmpfname(mod_name, buf) <=>
            LET stop == IF dots = {} THEN NAME_LEN ELSE Min(dots) - 1
                e == IF dots = {} THEN NAME_LEN ELSE Min(dots)
                extlen == IF Len(mod_name) > e + EXT_LEN THEN EXT_LEN ELSE Max({Len(mod_name) - e, 0})
            IN /\ \A k \in 1 .. stop : Char(mod_name, k) = buf[k]
               /\ \A k \in stop + 1 .. NAME_LEN : buf[k] = " "
               /\ \A k \in 1 .. extlen : Char(mod_name, e + k) = buf[NAME_LEN + k]
               /\ \A k \in extlen + 1 .. EXT_LEN : buf[NAME_LEN + k] = " "
      BY Zenon DEF cmpfname, dots
    <3> QED BY <1>3, <1>4, <2>1, <3>1
  <2> QED BY <1>1, <2>1, <2>2
<1>6. /\ Len(name) = d - 1 /\ \A k \in 1 .. d - 1 : name[k] = mod_name[k]
      /\ Len(ext) = Len(mod_name) - d /\ \A k \in 1 .. Len(mod_name) - d : ext[k] = mod_name[d + k]
  BY SMTT(30), <1>1
<1> HIDE DEF name, ext
<1>7. SplitAt(d) = [k \in 1 .. NAME_LEN + EXT_LEN |->
                      IF k <= Len(name) THEN name[k]
                      ELSE IF k > NAME_LEN /\ k - NAME_LEN <= Len(ext) THEN ext[k - NAME_LEN] ELSE " "]
  BY DEF SplitAt, Padded, name, ext
<1>8. buf = SplitAt(d) <=> \A k \in 1 .. NAME_LEN + EXT_LEN : buf[k] = SplitAt(d)[k]
  BY <1>7
<1>9. /\ \A k \in 1 .. d - 1 : SplitAt(d)[k] = mod_name[k]
      /\ \A k \in d .. NAME_LEN : SplitAt(d)[k] = " "
      /\ \A k \in 1 .. Len(mod_name) - d : SplitAt(d)[NAME_LEN + k] = mod_name[d + k]
      /\ \A k \in Len(mod_name) - d + 1 .. EXT_LEN : SplitAt(d)[NAME_LEN + k] = " "
  <2>1. ASSUME NEW k \in 1 .. d - 1 PROVE SplitAt(d)[k] = mod_name[k]
    <3>1. k \in 1 .. NAME_LEN + EXT_LEN /\ k <= Len(name)
      BY <1>1, <1>6
    <3> QED BY <1>6, <1>7, <3>1
  <2>2. ASSUME NEW k \in d .. NAME_LEN PROVE SplitAt(d)[k] = " "
    <3>1. k \in 1 .. NAME_LEN + EXT_LEN /\ ~(k <= Len(name)) /\ ~(k > NAME_LEN)
      BY <1>1, <1>6
    <3> QED BY <1>7, <3>1
  <2>3. ASSUME NEW k \in 1 .. Len(mod_name) - d PROVE SplitAt(d)[NAME_LEN + k] = mod_name[d + k]
    <3>1. /\ NAME_LEN + k \in 1 .. NAME_LEN + EXT_LEN /\ ~(NAME_LEN + k <= Len(name))
          /\ NAME_LEN + k > NAME_LEN /\ (NAME_LEN + k) - NAME_LEN = k /\ k <= Len(ext)
      BY SMTT(30), <1>1, <1>6
    <3> QED BY <1>6, <1>7, <3>1
  <2>4. ASSUME NEW k \in Len(mod_name) - d + 1 .. EXT_LEN PROVE SplitAt(d)[NAME_LEN + k] = " "
    <3>1. /\ NAME_LEN + k \in 1 .. NAME_LEN + EXT_LEN /\ ~(NAME_LEN + k <= Len(name))
          /\ (NAME_LEN + k) - NAME_LEN = k /\ ~(k <= Len(ext))
      BY SMTT(30), <1>1, <1>6
    <3> QED BY <1>7, <3>1
  <2> QED BY <2>1, <2>2, <2>3, <2>4
<1>10. /\ \A k \in 1 .. d - 1 : Char(mod_name, k) = mod_name[k]
       /\ \A k \in 1 .. Len(mod_name) - d : Char(mod_name, d + k) = mod_name[d + k]
  BY <1>1 DEF Char
<1>11. ASSUME cmpfname(mod_name, buf), NEW k \in 1 .. NAME_LEN + EXT_LEN PROVE buf[k] = SplitAt(d)[k]
  <2>1. CASE k < d
    <3>1. k \in 1 .. d - 1
      BY <1>1, <2>1
    <3> QED BY <1>5, <1>9, <1>10, <1>11, <3>1
  <2>2. CASE k \in d .. NAME_LEN
    BY <1>5, <1>9, <1>11, <2>2
  <2>3. CASE k > NAME_LEN
    <3>1. PICK m \in 1 .. EXT_LEN : k = NAME_LEN + m
      <4>1. k - NAME_LEN \in 1 .. EXT_LEN /\ k = NAME_LEN + (k - NAME_LEN)
        BY <1>1, <2>3
      <4> QED BY <4>1
    <3>2. m \in 1 .. Len(mod_name) - d \/ m \in Len(mod_name) - d + 1 .. EXT_LEN
      BY <1>1
    <3> QED BY <1>5, <1>9, <1>10, <1>11, <3>1, <3>2
  <2> QED BY <1>1, <2>1, <2>2, <2>3
<1>12. ASSUME \A k \in 1 .. NAME_LEN + EXT_LEN : buf[k] = SplitAt(d)[k] PROVE cmpfname(mod_name, buf)
  <2>1. /\ \A k \in 1 .. NAME_LEN : k \in 1 .. NAME_LEN + EXT_LEN
        /\ \A k \in 1 .. EXT_LEN : NAME_LEN + k \in 1 .. NAME_LEN + EXT_LEN
        /\ 1 .. d - 1 \subseteq 1 .. NAME_LEN /\ d .. NAME_LEN \subseteq 1 .. NAME_LEN
        /\ 1 .. Len(mod_name) - d \subseteq 1 .. EXT_LEN
        /\ Len(mod_name) - d + 1 .. EXT_LEN \subseteq 1 .. EXT_LEN
    BY <1>1
  <2>2. \A k \in 1 .. d - 1 : Char(mod_name, k) = buf[k]
    BY <1>9, <1>10, <1>12, <2>1
  <2>3. \A k \in d .. NAME_LEN : buf[k] = " "
    BY <1>9, <1>12, <2>1
  <2>4. \A k \in 1 .. Len(mod_name) - d : Char(mod_name, d + k) = buf[NAME_LEN + k]
    BY <1>9, <1>10, <1>12, <2>1
  <2>5. \A k \in Len(mod_name) - d + 1 .. EXT_LEN : buf[NAME_LEN + k] = " "
    BY <1>9, <1>12, <2>1
  <2> QED BY <1>5, <2>2, <2>3, <2>4, <2>5
<1> QED BY <1>8, <1>11, <1>12

\* What the assumptions say of the layout that there is.
ChainFacts ==
  /\ layout.chain \in Seq(2 .. EOF - 1) /\ layout.chain # <<>>
  /\ (Len(layout.chain) - 1) * CLUS_SIZE < Len(xmod) /\ Len(xmod) <= Len(layout.chain) * CLUS_SIZE
  /\ \A j, k \in DOMAIN layout.chain : layout.chain[j] = layout.chain[k] => j = k
  /\ \A k \in DOMAIN layout.chain :
       /\ (2 * layout.chain[k]) \div BLOCK_SIZE + 1 < FAT_ROOT_BEG
       /\ \A g \in Geometries : FAT_DATA_BEG + layout.chain[k] - 2 < Capacity(g)

FileFacts ==
  /\ xmod \in Seq(Units)
  /\ Len(xmod) \in 1 .. WORD - 1 /\ Len(xmod) < MEM_SIZE
  /\ xmod[1].kind = "elf" /\ Len(xmod[1].v) = 3 /\ Number(xmod[1].v[2]) = 1
  /\ \A n \in firstPh .. firstPh + PhNr(xmod) - 1 :
       n \in DOMAIN xmod /\ xmod[n].kind = "ph" /\ Len(xmod[n].v) = 4
  /\ \A n \in DOMAIN xmod : xmod[n].kind = "ph" => n \in firstPh .. firstPh + PhNr(xmod) - 1
  /\ \A ph \in Segments(xmod) :
       /\ ph.offset + ph.filesz <= Len(xmod)
       /\ \A a \in Target(ph) : Len(xmod) <= a /\ a < MEM_SIZE
  /\ Headers \subseteq Segments(xmod)
  /\ \A ph, qh \in Headers :
       \A a \in Target(ph) \cap Target(qh) : a - ph.vaddr + ph.offset = a - qh.vaddr + qh.offset
  /\ \E ph \in Headers :
       XModPhyAddr \in Target(ph) /\ xmod[XModPhyAddr - ph.vaddr + ph.offset + 1] = Entry

\* The clusters that a file takes.
LEMMA CeilingIs ==
  ASSUME NEW n \in Nat \ {0}, NEW c \in Nat \ {0}
  PROVE  LET q == (n + c - 1) \div c
         IN q \in Nat \ {0} /\ (q - 1) * c < n /\ n <= q * c
<1> DEFINE q == (n + c - 1) \div c
           r == (n + c - 1) % c
<1>1. q \in Nat /\ r \in 0 .. c - 1 /\ n + c - 1 = c * q + r
  <2>1. n + c - 1 \in Nat
    OBVIOUS
  <2> QED BY <2>1, Division
<1> HIDE DEF q, r
<1>2. c * q > n - 1 /\ c * q <= n + c - 1
  BY <1>1
<1>3. q # 0
  BY <1>1, <1>2
<1>4. (q - 1) * c = c * q - c /\ q * c = c * q
  BY <1>1
<1> QED BY <1>1, <1>2, <1>3, <1>4 DEF q

\* Any layout that Init admits has them.
LEMMA LayoutFacts ==
  ASSUME layout \in {Cut(l) : l \in Layouts}
  PROVE  ChainFacts /\ FileFacts /\ layout.pos \in 0 .. FAT_ROOT_ENT_CNT - 1
<1>1. PICK l \in Layouts : layout = Cut(l)
  OBVIOUS
<1> DEFINE n == (Len(l.file) + CLUS_SIZE - 1) \div CLUS_SIZE
<1>2. /\ layout.file = l.file /\ layout.pos = l.pos /\ layout.name = l.name
      /\ layout.chain = SubSeq(l.chain, 1, n)
  <2>1. \E F, C, P, N : l \in [file : F, chain : C, pos : P, name : N]
    BY LayoutAssumption
  <2> QED BY <1>1, <2>1 DEF Cut
<1>3. FileFacts
  <2>1. xmod = l.file /\ firstPh = PhFirst(l.file) /\ Headers = HeadersOf(l.file) /\ xmod \in Seq(Units)
    BY <1>2, LayoutAssumption DEF Headers, xmod, firstPh
  <2>2. Table(xmod) = firstPh .. firstPh + PhNr(xmod) - 1
    BY DEF Table, firstPh
  <2>3. Headers \subseteq Segments(xmod)
    <3>1. PhFirst(xmod) \in Nat
      <4>1. 1 \in DOMAIN xmod /\ Len(xmod[1].v) = 3 /\ xmod \in Seq(Units)
        BY <2>1, FileAssumption
      <4>2. xmod[1] \in Units
        BY <4>1
      <4>3. xmod[1].v \in Seq([1 .. 2 -> Bytes]) /\ 1 \in DOMAIN xmod[1].v
        BY <4>1, <4>2 DEF Units
      <4>4. xmod[1].v[1] \in [1 .. 2 -> Bytes]
        BY <4>3
      <4>5. xmod[1].v[1] \in [1 .. 2 -> Nat]
        BY <4>4, WordFacts DEF Bytes
      <4> QED BY <4>5, NumberIs DEF PhFirst
    <3>2. \A m \in Table(xmod) : m \in PhFirst(xmod) .. m
      BY <2>2, <3>1 DEF firstPh
    <3> QED BY <2>1, <3>2 DEF HeadersOf, Segments
  <2> QED BY <2>1, <2>2, <2>3, FileAssumption DEF FileFacts
<1>4. l.pos \in 0 .. FAT_ROOT_ENT_CNT - 1 /\ l.chain \in Seq(2 .. EOF - 1) /\ CLUS_SIZE * Len(l.chain) >= Len(l.file)
      /\ Len(l.file) \in Nat \ {0} /\ CLUS_SIZE \in Nat \ {0}
  <2>1. l.pos \in 0 .. FAT_ROOT_ENT_CNT - 1 /\ l.chain \in Seq(2 .. EOF - 1) /\ CLUS_SIZE * Len(l.chain) >= Len(l.file)
    BY LayoutAssumption
  <2>2. Len(l.file) \in 1 .. WORD - 1
    BY FileAssumption
  <2>3. CLUS_SIZE \in 1 .. WORD - 2
    BY ModLoaderAssumption
  <2> QED BY <2>1, <2>2, <2>3, WordFacts
<1>5. n \in Nat \ {0} /\ (n - 1) * CLUS_SIZE < Len(l.file) /\ Len(l.file) <= n * CLUS_SIZE
  BY <1>4, CeilingIs
<1> HIDE DEF n
<1>6. n <= Len(l.chain)
  <2>1. SUFFICES ASSUME n > Len(l.chain) PROVE FALSE
    BY <1>4, <1>5
  <2>2. (n - 1) * CLUS_SIZE >= Len(l.chain) * CLUS_SIZE
    <3>1. \A a, b \in Nat : a >= b => a * CLUS_SIZE >= b * CLUS_SIZE
      BY <1>4
    <3>2. n - 1 \in Nat /\ n - 1 >= Len(l.chain) /\ Len(l.chain) \in Nat
      BY <1>4, <1>5, <2>1
    <3> QED BY <3>1, <3>2
  <2>3. Len(l.chain) * CLUS_SIZE = CLUS_SIZE * Len(l.chain)
    BY <1>4
  <2> QED BY <1>4, <1>5, <2>2, <2>3
<1>7. /\ layout.chain \in Seq(2 .. EOF - 1) /\ Len(layout.chain) = n
      /\ \A k \in 1 .. n : layout.chain[k] = l.chain[k] /\ k \in DOMAIN l.chain
  <2>1. ASSUME NEW S, NEW s \in Seq(S), NEW m \in Nat, m <= Len(s)
        PROVE  /\ SubSeq(s, 1, m) \in Seq(S) /\ Len(SubSeq(s, 1, m)) = m
               /\ \A k \in 1 .. m : SubSeq(s, 1, m)[k] = s[k] /\ k \in DOMAIN s
    BY <2>1
  <2>2. l.chain \in Seq(2 .. EOF - 1) /\ n \in Nat /\ n <= Len(l.chain)
    BY <1>4, <1>5, <1>6
  <2>3. /\ SubSeq(l.chain, 1, n) \in Seq(2 .. EOF - 1) /\ Len(SubSeq(l.chain, 1, n)) = n
        /\ \A k \in 1 .. n : SubSeq(l.chain, 1, n)[k] = l.chain[k] /\ k \in DOMAIN l.chain
    BY <2>1, <2>2, Zenon
  <2> QED BY <1>2, <2>3
<1>8. DOMAIN layout.chain = 1 .. n /\ layout.chain # <<>>
  BY <1>5, <1>7
<1>9. ChainFacts
  BY <1>2, <1>4, <1>5, <1>7, <1>8, LayoutAssumption DEF ChainFacts, xmod
<1> QED BY <1>2, <1>3, <1>4, <1>9

\* What a header in front of the first PT_NULL says.
LEMMA HeaderFacts ==
  ASSUME FileFacts, NEW n \in firstPh .. firstPh + PhNr(xmod) - 1
  PROVE  /\ n \in DOMAIN xmod /\ xmod[n].kind = "ph"
         /\ Header(xmod, n) \in [offset : Nat, vaddr : Nat, filesz : Nat]
         /\ PH(xmod[n]) = [type |-> PhType(xmod, n), offset |-> Header(xmod, n).offset,
                           vaddr |-> Header(xmod, n).vaddr, filesz |-> Header(xmod, n).filesz]
<1>1. n \in DOMAIN xmod /\ Len(xmod[n].v) = 4 /\ xmod[n].v \in Seq([1 .. 2 -> Bytes])
  <2>1. n \in DOMAIN xmod /\ Len(xmod[n].v) = 4 /\ xmod \in Seq(Units)
    BY DEF FileFacts
  <2>2. xmod[n] \in Units
    BY <2>1
  <2> QED BY <2>1, <2>2 DEF Units
<1>2. Bytes \subseteq Nat
  BY WordFacts DEF Bytes
<1>3. \A k \in 1 .. 4 : xmod[n].v[k] \in [1 .. 2 -> Nat]
  <2>1. \A k \in 1 .. 4 : xmod[n].v[k] \in [1 .. 2 -> Bytes]
    BY <1>1
  <2> QED BY <1>2, <2>1
<1>4. \A k \in 1 .. 4 : mem2num(xmod[n].v[k]) = Number(xmod[n].v[k]) /\ Number(xmod[n].v[k]) \in Nat
  BY <1>3, NumberIs
<1> QED BY <1>1, <1>4 DEF PH, Header, PhType, FileFacts

\* What the elf header says: the program headers follow one another in the file.
LEMMA ElfFacts ==
  ASSUME FileFacts
  PROVE  /\ phOffset(xmod[1]) = firstPh - 1 /\ phSize(xmod[1]) = 1 /\ phNr(xmod[1]) = PhNr(xmod)
         /\ firstPh \in Nat \ {0} /\ PhNr(xmod) \in Nat /\ firstPh + PhNr(xmod) - 1 <= Len(xmod)
         /\ PhNr(xmod) # 0
<1>1. 1 \in DOMAIN xmod /\ Len(xmod[1].v) = 3 /\ xmod[1].v \in Seq([1 .. 2 -> Bytes])
  <2>1. 1 \in DOMAIN xmod /\ Len(xmod[1].v) = 3 /\ xmod \in Seq(Units)
    BY DEF FileFacts
  <2>2. xmod[1] \in Units
    BY <2>1
  <2> QED BY <2>1, <2>2 DEF Units
<1>2. Bytes \subseteq Nat
  BY WordFacts DEF Bytes
<1>3. \A k \in 1 .. 3 : xmod[1].v[k] \in [1 .. 2 -> Nat]
  <2>1. \A k \in 1 .. 3 : xmod[1].v[k] \in [1 .. 2 -> Bytes]
    BY <1>1
  <2> QED BY <1>2, <2>1
<1>4. \A k \in 1 .. 3 : mem2num(xmod[1].v[k]) = Number(xmod[1].v[k]) /\ Number(xmod[1].v[k]) \in Nat
  BY <1>3, NumberIs
<1>5. firstPh \in Nat \ {0} /\ PhNr(xmod) \in Nat
  BY <1>4 DEF firstPh, PhFirst, PhNr
<1>6. PhNr(xmod) # 0
  <2>1. Headers # {}
    BY DEF FileFacts
  <2>2. Headers # {} => firstPh .. firstPh + PhNr(xmod) - 1 # {}
    BY DEF Headers, HeadersOf, Table, firstPh, xmod
  <2> QED BY <1>5, <2>1, <2>2
<1>7. firstPh + PhNr(xmod) - 1 \in DOMAIN xmod
  BY <1>5, <1>6 DEF FileFacts
<1>8. firstPh = Number(xmod[1].v[1]) + 1 /\ PhNr(xmod) = Number(xmod[1].v[3])
  BY DEF firstPh, PhFirst, PhNr
<1>9. phOffset(xmod[1]) = Number(xmod[1].v[1]) /\ phSize(xmod[1]) = Number(xmod[1].v[2])
      /\ phNr(xmod[1]) = Number(xmod[1].v[3])
  BY <1>4 DEF phOffset, phSize, phNr
<1>10. Number(xmod[1].v[2]) = 1 /\ DOMAIN xmod = 1 .. Len(xmod)
  BY DEF FileFacts
<1>11. Number(xmod[1].v[1]) \in Nat
  BY <1>4
<1> QED BY <1>5, <1>6, <1>7, <1>8, <1>9, <1>10, <1>11

-----------------------------------------------------------------------------
(* What the blocks of the disk hold for their readers.                     *)

\* The n-th entry of the directory.
EntryAt(n) ==
  IF n = layout.pos THEN RootEntry(layout.name, Head(layout.chain), Len(xmod))
  ELSE IF n + 1 \in DOMAIN Others THEN RootEntry(Others[n + 1], 0, 1) ELSE NoEntry

\* Where fat_root_ent looks for an entry is that entry.
LEMMA DirectoryIs ==
  ASSUME NEW b \in Nat, NEW n \in Nat
  PROVE  /\ RootBlock(layout, b)[n % ENTS_PER_BLOCK] = EntryAt(b * ENTS_PER_BLOCK + (n % ENTS_PER_BLOCK))
         /\ RootBlock(layout, n \div ENTS_PER_BLOCK)[n % ENTS_PER_BLOCK] = EntryAt(n)
<1> DEFINE s == n % ENTS_PER_BLOCK
           q == n \div ENTS_PER_BLOCK
<1>1. /\ q \in Nat /\ s \in 0 .. ENTS_PER_BLOCK - 1 /\ n = ENTS_PER_BLOCK * q + s
      /\ ENTS_PER_BLOCK \in Nat
  BY Division, ModLoaderAssumption
<1> HIDE DEF s, q
<1>2. ASSUME NEW c \in Nat PROVE RootBlock(layout, c)[s] = EntryAt(c * ENTS_PER_BLOCK + s)
  BY <1>1 DEF RootBlock, EntryAt, xmod
<1>3. q * ENTS_PER_BLOCK + s = n
  BY <1>1
<1>4. RootBlock(layout, b)[s] = EntryAt(b * ENTS_PER_BLOCK + s)
  BY <1>2
<1>5. RootBlock(layout, q)[s] = EntryAt(n)
  BY <1>1, <1>2, <1>3
<1> QED BY <1>4, <1>5 DEF s, q

\* A cluster of the file, the last one perhaps in part, and any other block.
LEMMA ClusterIs ==
  ASSUME ChainFacts, NEW k \in DOMAIN layout.chain, NEW u \in 0 .. CLUS_SIZE - 1
  PROVE  DataBlock(layout, layout.chain[k])[u] =
           IF (k - 1) * CLUS_SIZE + u + 1 <= Len(xmod) THEN xmod[(k - 1) * CLUS_SIZE + u + 1] ELSE Junk
<1>1. (CHOOSE j \in DOMAIN layout.chain : layout.chain[j] = layout.chain[k]) = k
  BY DEF ChainFacts
<1> QED BY <1>1 DEF DataBlock, xmod

\* A block that is not of the file has nothing of it.
LEMMA NoClusterIs ==
  ASSUME NEW ent, \A k \in DOMAIN layout.chain : layout.chain[k] # ent, NEW u \in 0 .. CLUS_SIZE - 1
  PROVE  DataBlock(layout, ent)[u] = Junk
BY DEF DataBlock

\* What follows in the chain.
LEMMA NextIs ==
  ASSUME ChainFacts, NEW k \in DOMAIN layout.chain
  PROVE  NextInChain(layout, layout.chain[k]) = IF k < Len(layout.chain) THEN layout.chain[k + 1] ELSE EOF
<1>1. DOMAIN layout.chain = 1 .. Len(layout.chain) /\ Len(layout.chain) \in Nat
  BY DEF ChainFacts
<1>2. CASE k < Len(layout.chain)
  <2>1. k \in 1 .. Len(layout.chain) - 1
    BY <1>1, <1>2
  <2>2. \A j \in 1 .. Len(layout.chain) - 1 : layout.chain[j] = layout.chain[k] => j = k
    BY SMTT(30), <1>1 DEF ChainFacts
  <2>3. (CHOOSE j \in 1 .. Len(layout.chain) - 1 : layout.chain[j] = layout.chain[k]) = k
    BY <2>1, <2>2
  <2>4. 1 + k = k + 1
    BY <1>1
  <2> QED BY <1>2, <2>1, <2>3, <2>4 DEF NextInChain
<1>3. CASE ~(k < Len(layout.chain))
  <2>1. ~\E j \in 1 .. Len(layout.chain) - 1 : layout.chain[j] = layout.chain[k]
    BY <1>1, <1>3 DEF ChainFacts
  <2> QED BY <1>3, <2>1 DEF NextInChain
<1> QED BY <1>2, <1>3

\* Nothing follows what is not in the chain.
LEMMA NoNextIs ==
  ASSUME ChainFacts, NEW ent, \A k \in DOMAIN layout.chain : layout.chain[k] # ent
  PROVE  NextInChain(layout, ent) = EOF
<1>1. DOMAIN layout.chain = 1 .. Len(layout.chain) /\ Len(layout.chain) \in Nat
  BY DEF ChainFacts
<1> QED BY <1>1 DEF NextInChain

\* The end of a chain is no cluster.
LEMMA EofIs == EOF \in Nat /\ EOF = WORD - 1 /\ EOF >= 2
BY WordFacts, ModLoaderAssumption DEF EOF

\* Whatever follows, or ends the chain, fits in an entry of the FAT.
LEMMA NextIsWord ==
  ASSUME ChainFacts, NEW ent
  PROVE  NextInChain(layout, ent) \in 0 .. WORD - 1
<1>1. CASE \A k \in DOMAIN layout.chain : layout.chain[k] # ent
  BY <1>1, NoNextIs, EofIs
<1>2. CASE \E k \in DOMAIN layout.chain : layout.chain[k] = ent
  <2>1. PICK k \in DOMAIN layout.chain : layout.chain[k] = ent
    BY <1>2
  <2>2. DOMAIN layout.chain = 1 .. Len(layout.chain) /\ Len(layout.chain) \in Nat
        /\ \A j \in DOMAIN layout.chain : layout.chain[j] \in 2 .. EOF - 1
    <3>1. ASSUME NEW S, NEW s \in Seq(S)
          PROVE  DOMAIN s = 1 .. Len(s) /\ Len(s) \in Nat /\ \A j \in DOMAIN s : s[j] \in S
      OBVIOUS
    <3> QED BY <3>1, Zenon DEF ChainFacts
  <2>3. k < Len(layout.chain) => layout.chain[k + 1] \in 2 .. EOF - 1
    BY <2>1, <2>2
  <2> QED BY <2>1, <2>3, NextIs, EofIs
<1> QED BY <1>1, <1>2

\* The entry of the FAT, whose two bytes are in one block.
LEMMA TableIs ==
  ASSUME ChainFacts, NEW ent \in Nat
  PROVE  LET ri == (ent * 2) % BLOCK_SIZE
             c == FatBlock(layout, (ent * 2) \div BLOCK_SIZE)
         IN mem2num(<<c[ri], c[ri + 1]>>) = NextInChain(layout, ent)
<1> DEFINE ri == (ent * 2) % BLOCK_SIZE
           q == (ent * 2) \div BLOCK_SIZE
           next == NextInChain(layout, ent)
<1>1. /\ BLOCK_SIZE \in Nat \ {0} /\ BLOCK_SIZE % 2 = 0 /\ ent * 2 \in Nat
  BY ModLoaderAssumption
<1>2. q \in Nat /\ ri \in 0 .. BLOCK_SIZE - 1 /\ ent * 2 = BLOCK_SIZE * q + ri
  BY <1>1, Division
<1> HIDE DEF ri, q
<1>3. PICK h \in Nat : BLOCK_SIZE = 2 * h
  <2>1. BLOCK_SIZE = 2 * (BLOCK_SIZE \div 2) /\ BLOCK_SIZE \div 2 \in Nat
    BY <1>1
  <2> QED BY <2>1
<1>4. q * BLOCK_SIZE + ri = 2 * ent /\ q * BLOCK_SIZE + (ri + 1) = 2 * ent + 1
  BY <1>1, <1>2
<1>5. ri = 2 * (ent - h * q) /\ h * q \in Nat
  <2>1. BLOCK_SIZE * q = 2 * (h * q) /\ h * q \in Nat
    BY <1>2, <1>3
  <2> QED BY <1>2, <2>1
<1>6. ri % 2 = 0 /\ (ri + 1) % 2 = 1 /\ ri + 1 \in 0 .. BLOCK_SIZE - 1
  <2>1. PICK m \in Int : ri = 2 * m
    BY <1>5
  <2> QED BY <1>2, <1>3, <2>1
<1>7. (2 * ent) \div 2 = ent /\ (2 * ent + 1) \div 2 = ent
  OBVIOUS
<1>8. FatBlock(layout, q)[ri] = LowHigh(next)[1] /\ FatBlock(layout, q)[ri + 1] = LowHigh(next)[2]
  <2>1. \A k \in 0 .. BLOCK_SIZE - 1 : FatBlock(layout, q)[k] =
          LowHigh(NextInChain(layout, (q * BLOCK_SIZE + k) \div 2))[1 + (k % 2)]
    BY DEF FatBlock
  <2> QED BY <1>2, <1>4, <1>6, <1>7, <2>1
<1>9. next \in Nat
  BY NextIsWord, WordFacts
<1> HIDE DEF next
<1>10. LowHigh(next) = <<LowHigh(next)[1], LowHigh(next)[2]>>
  BY DEF LowHigh
<1>11. mem2num(LowHigh(next)) = next
  BY <1>9, WordIs
<1> QED BY <1>8, <1>10, <1>11 DEF ri, q, next

\* A block that can be read is the one asked for,
LEMMA OnDiskIs ==
  ASSUME ProbeInv, Up, NEW b, Readable(b)
  PROVE  OnDisk(b) = b
<1>1. 0 \in Positions /\ Known(0)
  BY DEF ProbeInv, DevicesInv, Up, At, InIdentify, Positions
<1> QED BY <1>1, KnownIsAddressed DEF Readable, OnDisk, ProbeInv

\* and one that every disk has is not refused.
LEMMA NotRefused ==
  ASSUME ProbeInv, Up, LoaderTypes, NEW b \in Nat, \A g \in Geometries : b < Capacity(g), ReadFails(b)
  PROVE  failed'
<1>1. 0 \in Positions /\ Known(0)
  BY DEF ProbeInv, DevicesInv, Up, At, InIdentify, Positions
<1>2. SUFFICES ASSUME devices[0].present, ~devices[0].atapi PROVE b \in 0 .. devices[0].capacity - 1
  BY <1>1 DEF ReadFails
<1>3. attached[0] = "ata"
  BY <1>1, <1>2 DEF Known, There, ProbeInv, ProbeTypeOK
<1>4. geometry[0] \in Geometries /\ devices[0].capacity = Capacity(geometry[0])
  BY <1>1, <1>2, <1>3 DEF Known, LoaderTypes
<1>5. Capacity(geometry[0]) \in Nat
  BY <1>4, CapacityInNat
<1> QED BY <1>4, <1>5

\* The clusters of the chain.
LEMMA ChainElements ==
  ASSUME ChainFacts
  PROVE  /\ DOMAIN layout.chain = 1 .. Len(layout.chain) /\ Len(layout.chain) \in Nat \ {0}
         /\ \A k \in DOMAIN layout.chain :
              /\ layout.chain[k] \in Nat /\ layout.chain[k] >= 2 /\ layout.chain[k] # EOF
              /\ layout.chain[k] # 0 /\ layout.chain[k] # -1
<1>1. ASSUME NEW S, NEW s \in Seq(S), s # <<>>
      PROVE  DOMAIN s = 1 .. Len(s) /\ Len(s) \in Nat \ {0} /\ \A j \in DOMAIN s : s[j] \in S
  BY <1>1
<1>2. DOMAIN layout.chain = 1 .. Len(layout.chain) /\ Len(layout.chain) \in Nat \ {0}
      /\ \A j \in DOMAIN layout.chain : layout.chain[j] \in 2 .. EOF - 1
  BY <1>1, Zenon DEF ChainFacts
<1> QED BY <1>2, EofIs

\* The blocks that hold the directory, the chain and the file.
LEMMA OnEveryDisk ==
  ASSUME ChainFacts, NEW g \in Geometries
  PROVE  /\ \A n \in 0 .. FAT_ROOT_ENT_CNT - 1 :
              FAT_ROOT_BEG + (n \div ENTS_PER_BLOCK) \in Nat /\ FAT_ROOT_BEG + (n \div ENTS_PER_BLOCK) < Capacity(g)
         /\ \A k \in DOMAIN layout.chain :
              /\ data_clus_offset(layout.chain[k]) \in Nat /\ data_clus_offset(layout.chain[k]) < Capacity(g)
              /\ (layout.chain[k] * 2) \div BLOCK_SIZE + 1 \in Nat
              /\ (layout.chain[k] * 2) \div BLOCK_SIZE + 1 < Capacity(g)
<1>1. /\ FAT_ROOT_BEG \in Nat /\ FAT_DATA_BEG \in Nat /\ BLOCK_SIZE \in Nat \ {0} /\ ENTS_PER_BLOCK \in Nat \ {0}
      /\ FAT_ROOT_ENT_CNT \in Nat \ {0}
      /\ \A n \in 0 .. FAT_ROOT_ENT_CNT - 1 : FAT_ROOT_BEG + (n \div ENTS_PER_BLOCK) < FAT_DATA_BEG
  BY ModLoaderAssumption
<1>2. Capacity(g) \in Nat
  BY CapacityInNat
<1>3. \A k \in DOMAIN layout.chain : layout.chain[k] \in Nat /\ layout.chain[k] >= 2
  <2>1. ASSUME NEW S, NEW s \in Seq(S) PROVE \A j \in DOMAIN s : s[j] \in S
    OBVIOUS
  <2>2. \A k \in DOMAIN layout.chain : layout.chain[k] \in 2 .. EOF - 1
    BY <2>1, Zenon DEF ChainFacts
  <2> QED BY <2>2, EofIs
<1>4. \A k \in DOMAIN layout.chain :
        /\ (2 * layout.chain[k]) \div BLOCK_SIZE + 1 < FAT_ROOT_BEG
        /\ FAT_DATA_BEG + layout.chain[k] - 2 < Capacity(g)
  BY DEF ChainFacts
<1>5. ASSUME NEW k \in DOMAIN layout.chain
      PROVE  /\ data_clus_offset(layout.chain[k]) \in Nat /\ data_clus_offset(layout.chain[k]) < Capacity(g)
             /\ (layout.chain[k] * 2) \div BLOCK_SIZE + 1 \in Nat
             /\ (layout.chain[k] * 2) \div BLOCK_SIZE + 1 < FAT_ROOT_BEG
             /\ FAT_DATA_BEG < Capacity(g)
  <2>1. layout.chain[k] \in Nat /\ layout.chain[k] >= 2 /\ 2 * layout.chain[k] = layout.chain[k] * 2
    BY <1>3
  <2>2. (layout.chain[k] * 2) \div BLOCK_SIZE \in Nat
    <3>1. layout.chain[k] * 2 \in Nat
      BY <2>1
    <3> QED BY <1>1, <3>1, Division
  <2> QED BY <1>1, <1>2, <1>4, <2>1, <2>2 DEF data_clus_offset
<1>6. 1 \in DOMAIN layout.chain
  BY DEF ChainFacts
<1>7. FAT_DATA_BEG < Capacity(g)
  BY <1>5, <1>6
<1>8. ASSUME NEW n \in 0 .. FAT_ROOT_ENT_CNT - 1
      PROVE  FAT_ROOT_BEG + (n \div ENTS_PER_BLOCK) \in Nat
  BY <1>1, Division
<1>9. FAT_ROOT_BEG < FAT_DATA_BEG
  <2>1. 0 \div ENTS_PER_BLOCK = 0 /\ 0 \in 0 .. FAT_ROOT_ENT_CNT - 1
    BY <1>1
  <2> QED BY <1>1, <2>1
<1> QED BY SMTT(30), <1>1, <1>2, <1>5, <1>7, <1>8, <1>9

-----------------------------------------------------------------------------
(* The steps of the system call.                                           *)

\* The file stays as it is.
LEMMA SameFile ==
  ASSUME layout' = layout
  PROVE  /\ xmod' = xmod /\ firstPh' = firstPh /\ Headers' = Headers /\ FileThere' = FileThere
BY DEF xmod, firstPh, Headers, FileThere

\* Nothing is loaded at first.
LEMMA LoaderInit == Init => LoaderStateInv
<1> SUFFICES ASSUME Init PROVE LoaderStateInv
  OBVIOUS
<1>1. layout \in {Cut(l) : l \in Layouts}
  BY DEF Init, Cut
<1>2. FileFacts
  BY <1>1, LayoutFacts
<1>3. \A j \in Positions : attached[j] = "ata" => geometry[j] \in Geometries
  BY DEF Init, ProbeInit
<1>4. rent.clus \in Words /\ rent.size \in Words /\ ent_nr \in -1 .. WORD - 1
  BY WordFacts DEF Init, Words, NoEntry, RootEntry
<1>5. MEM_SIZE \in Nat /\ 0 \in 0 .. MEM_SIZE - 1
  BY ModLoaderAssumption
<1>6. LoaderTypes
  BY <1>1, <1>3, <1>4, <1>5 DEF LoaderTypes, Init
<1>7. InPlace
  BY <1>2, <1>5 DEF InPlace, Init, FileFacts
<1>8. GoodSoFar
  BY DEF GoodSoFar, Init
<1> QED BY <1>6, <1>7, <1>8 DEF LoaderStateInv

\* The probe, and ld_mod entered.
LEMMA ProbeKeepsLoader ==
  ASSUME LoaderStateInv, ProbeNext, UNCHANGED <<layout, loader, schedule, outcome>>
  PROVE  LoaderStateInv'
<1>1. UNCHANGED cable
  BY DEF ProbeNext, identify_ide_dev, Detect, Reset, Release, ResetWait, Select, Selected, Type, Identify,
         Collect, DeviceReady, DeviceAborts
<1>2. /\ xmod' = xmod /\ firstPh' = firstPh /\ Headers' = Headers /\ FileThere' = FileThere /\ seen' = seen
      /\ nblk' = nblk
  BY SameFile DEF loader, seen, nblk, nbytes
<1>3. LoaderTypes'
  BY <1>1, <1>2 DEF LoaderStateInv, LoaderTypes, loader, cable
<1>4. InPlace'
  BY <1>1, <1>2 DEF LoaderStateInv, InPlace, loader
<1>5. GoodSoFar'
  BY <1>1, <1>2 DEF LoaderStateInv, GoodSoFar, Good, loader, Followed, Loaded, InMemory
<1> QED BY <1>3, <1>4, <1>5 DEF LoaderStateInv

\* ld_mod entered: the search starts.
LEMMA CallStep ==
  ASSUME LoaderStateInv, ld_mod
  PROVE  LoaderStateInv'
<1>1. /\ layout' = layout /\ UNCHANGED <<probe, rent, ent_nr, phAddr, mem, failed, outcome, schedule>>
      /\ at' = "search" /\ i' = 0 /\ outcome = "runs"
  BY DEF ld_mod, Elsewhere, In, Running
<1>2. xmod' = xmod /\ firstPh' = firstPh /\ Headers' = Headers /\ FileThere' = FileThere
  BY <1>1, SameFile
<1>3. LoaderTypes'
  BY <1>1, <1>2 DEF LoaderStateInv, LoaderTypes, probe, cable
<1>4. InPlace'
  BY <1>1, <1>2 DEF LoaderStateInv, InPlace
<1>5. 0 <= layout.pos
  <2>1. layout.pos \in 0 .. FAT_ROOT_ENT_CNT - 1
    BY LayoutFacts DEF LoaderStateInv, LoaderTypes
  <2> QED BY <2>1, ModLoaderAssumption
<1>6. GoodSoFar'
  BY <1>1, <1>2, <1>5 DEF GoodSoFar
<1> QED BY <1>3, <1>4, <1>6 DEF LoaderStateInv

\* Of the names in the directory, only that of the file is the one asked for.
LEMMA NameFound ==
  ASSUME FileThere, layout \in {Cut(l) : l \in Layouts}, NEW n \in Nat
  PROVE  cmpfname(mod_name, EntryAt(n).name) <=> n = layout.pos
<1>1. PICK d \in DOMAIN mod_name :
        /\ d <= NAME_LEN /\ Len(mod_name) <= d + EXT_LEN
        /\ \A k \in DOMAIN mod_name : mod_name[k] = "." <=> k = d
        /\ \A m \in DOMAIN Others : Others[m] # SplitAt(d)
  BY NameAssumption
<1>2. layout.name = SplitAt(d)
  BY <1>1 DEF FileThere
<1>3. /\ NAME_LEN \in Nat /\ EXT_LEN \in Nat /\ d \in 1 .. NAME_LEN + EXT_LEN /\ d > d - 1 /\ d <= NAME_LEN
      /\ mod_name \in Seq(STRING) /\ d \in 1 .. Len(mod_name) /\ Len(mod_name) \in Nat
  BY <1>1, NameAssumption
<1> DEFINE Fields == 1 .. NAME_LEN + EXT_LEN
<1>4. layout.name \in [Fields -> STRING]
  <2>1. PICK l \in Layouts : layout = Cut(l)
    OBVIOUS
  <2>2. l.name \in [Fields -> STRING] /\ layout.name = l.name
    <3>1. \E F, C, P, N : l \in [file : F, chain : C, pos : P, name : N]
      BY LayoutAssumption
    <3>2. layout.name = l.name
      BY <2>1, <3>1 DEF Cut
    <3> QED BY <3>2, LayoutAssumption
  <2> QED BY <2>2
<1>5. ASSUME NEW T, NEW buf \in [Fields -> T] PROVE cmpfname(mod_name, buf) <=> buf = SplitAt(d)
  BY <1>1, CmpfnameIs
<1>6. CASE n = layout.pos
  BY <1>2, <1>4, <1>5, <1>6 DEF EntryAt, RootEntry
<1>7. CASE n # layout.pos /\ n + 1 \in DOMAIN Others
  <2>1. Others[n + 1] \in [Fields -> STRING] /\ EntryAt(n).name = Others[n + 1]
    BY <1>7, NameAssumption DEF EntryAt, RootEntry
  <2> QED BY <1>1, <1>5, <1>7, <2>1
<1>8. CASE n # layout.pos /\ n + 1 \notin DOMAIN Others
  <2>1. EntryAt(n).name = [k \in Fields |-> "NUL"]
    BY <1>8 DEF EntryAt, NoEntry, RootEntry
  <2>2. SplitAt(d)[d] = " "
    <3> DEFINE name == SubSeq(mod_name, 1, d - 1)
               ext == SubSeq(mod_name, d + 1, Len(mod_name))
    <3>1. Len(name) = d - 1
      BY <1>3
    <3> HIDE DEF name, ext
    <3>2. SplitAt(d)[d] = IF d <= Len(name) THEN name[d]
                          ELSE IF d > NAME_LEN /\ d - NAME_LEN <= Len(ext) THEN ext[d - NAME_LEN] ELSE " "
      BY <1>3 DEF SplitAt, Padded, name, ext
    <3>3. ~(d <= Len(name)) /\ ~(d > NAME_LEN)
      BY <1>3, <3>1
    <3> QED BY <3>2, <3>3
  <2>3. EntryAt(n).name[d] = "NUL"
    BY <1>3, <2>1
  <2>4. EntryAt(n).name # SplitAt(d)
    BY <2>2, <2>3
  <2>5. EntryAt(n).name \in [Fields -> {"NUL"}]
    BY <2>1
  <2> QED BY <1>5, <1>8, <2>4, <2>5
<1> QED BY <1>6, <1>7, <1>8

\* A failure is not forgotten.
LEMMA FailedGrows ==
  ASSUME LoaderStateInv, NEW b, ReadFails(b)
  PROVE  failed' \in BOOLEAN /\ (failed => failed')
BY Zenon DEF ReadFails

\* The fields of an entry that is found: a chain to start with and a size.
LEMMA EntryWords ==
  ASSUME ChainFacts, FileFacts, NEW n
  PROVE  /\ EntryAt(n).clus \in Words /\ EntryAt(n).size \in Words
         /\ mem2num(EntryAt(n).clus) \in -1 .. WORD - 1
         /\ \A k \in DOMAIN layout.chain : layout.chain[k] = mem2num(EntryAt(n).clus) => k = 1
         /\ 1 \in DOMAIN layout.chain /\ mem2num(LowHigh(Head(layout.chain))) = layout.chain[1]
         /\ mem2num(LowHigh(Len(xmod))) = Len(xmod) /\ Len(xmod) \in Nat
<1>1. \A k \in DOMAIN layout.chain : layout.chain[k] \in 2 .. EOF - 1
  <2>1. ASSUME NEW S, NEW s \in Seq(S) PROVE \A j \in DOMAIN s : s[j] \in S
    OBVIOUS
  <2> QED BY <2>1, Zenon DEF ChainFacts
<1>2. 1 \in DOMAIN layout.chain /\ Head(layout.chain) = layout.chain[1]
  BY DEF ChainFacts
<1>3. /\ EOF = WORD - 1 /\ EOF \in Nat /\ EOF >= 2 /\ WORD \in Nat
      /\ \A k \in DOMAIN layout.chain : layout.chain[k] \in Nat /\ layout.chain[k] \in 0 .. WORD - 1 /\ layout.chain[k] >= 2
  BY <1>1, EofIs, WordFacts
<1>4. Len(xmod) \in Nat /\ Len(xmod) \in 0 .. WORD - 1
  BY <1>3 DEF FileFacts
<1>5. \A m \in 0 .. WORD - 1 : LowHigh(m) \in Words /\ mem2num(LowHigh(m)) = m
  BY WordIs DEF Words
<1>6. PICK c \in 0 .. WORD - 1, z \in 0 .. WORD - 1 :
        /\ EntryAt(n).clus = LowHigh(c) /\ EntryAt(n).size = LowHigh(z)
        /\ c = Head(layout.chain) \/ c = 0
  BY <1>2, <1>3, <1>4 DEF EntryAt, RootEntry, NoEntry
<1>7. \A k \in DOMAIN layout.chain : layout.chain[k] = c => k = 1
  BY <1>2, <1>3, <1>6 DEF ChainFacts
<1>8. c \in -1 .. WORD - 1
  BY <1>3
<1> QED BY <1>2, <1>3, <1>4, <1>5, <1>6, <1>7, <1>8

\* One entry of the directory.
LEMMA SearchStep ==
  ASSUME ProbeInv, LoaderStateInv, get_root_ent_bname
  PROVE  LoaderStateInv'
<1>1. /\ layout' = layout /\ UNCHANGED <<probe, phAddr, mem, outcome, schedule>>
      /\ at = "search" /\ Up /\ outcome = "runs"
  BY DEF get_root_ent_bname, Elsewhere, In, Running
<1>2. xmod' = xmod /\ firstPh' = firstPh /\ Headers' = Headers /\ FileThere' = FileThere
  BY <1>1, SameFile
<1>3. /\ ChainFacts /\ FileFacts /\ layout.pos \in 0 .. FAT_ROOT_ENT_CNT - 1 /\ FAT_ROOT_ENT_CNT \in Nat
      /\ ENTS_PER_BLOCK \in Nat \ {0} /\ i \in Nat
  BY LayoutFacts, ModLoaderAssumption DEF LoaderStateInv, LoaderTypes
<1>4. EntryAt(layout.pos) = RootEntry(layout.name, Head(layout.chain), Len(xmod))
  BY DEF EntryAt
<1>5. NoEntry.clus \in Words /\ NoEntry.size \in Words /\ mem2num(NoEntry.clus) = 0
  <2>1. 0 \in 0 .. WORD - 1
    BY WordFacts
  <2> QED BY <2>1, WordIs DEF NoEntry, RootEntry, Words
<1>6. \A k \in DOMAIN layout.chain : layout.chain[k] # 0 /\ layout.chain[k] # -1
  <2>1. \A k \in DOMAIN layout.chain : layout.chain[k] \in 2 .. EOF - 1
    <3>1. ASSUME NEW S, NEW s \in Seq(S) PROVE \A j \in DOMAIN s : s[j] \in S
      OBVIOUS
    <3> QED BY <1>3, <3>1, Zenon DEF ChainFacts
  <2> QED BY <2>1, EofIs
<1>7. CASE i = FAT_ROOT_ENT_CNT
  <2>1. /\ rent' \in {NoEntry, RootEntry(NoEntry.name, 0, CLUS_SIZE + 1)} /\ ent_nr' = -1
        /\ at' = "read" /\ i' = 0 /\ failed' = failed
    BY <1>7 DEF get_root_ent_bname, SearchEnds
  <2>2. rent'.clus \in Words /\ rent'.size \in Words
    <3>1. 0 \in 0 .. WORD - 1 /\ CLUS_SIZE + 1 \in 0 .. WORD - 1
      BY WordFacts, ModLoaderAssumption
    <3> QED BY <1>5, <2>1, <3>1 DEF RootEntry, Words
  <2>3. LoaderTypes'
    BY <1>1, <1>2, <2>1, <2>2, WordFacts DEF LoaderStateInv, LoaderTypes, probe, cable
  <2>4. InPlace'
    BY <1>1, <1>2, <1>6, <2>1 DEF LoaderStateInv, InPlace
  <2>5. ~Good'
    BY <1>1, <1>2, <1>3, <1>7, <2>1 DEF LoaderStateInv, GoodSoFar, Good
  <2> QED BY <2>3, <2>4, <2>5 DEF LoaderStateInv, GoodSoFar
<1>8. CASE i # FAT_ROOT_ENT_CNT
  <2>1. PICK ent \in UNION {{NoEntry}, {RootBlock(layout, b)[i % ENTS_PER_BLOCK] : b \in 0 .. RootBlocks - 1}} :
          /\ \/ /\ \E c \in RootAt(FAT_ROOT_BEG + i \div ENTS_PER_BLOCK) : ent = c[i % ENTS_PER_BLOCK]
                /\ UNCHANGED failed
             \/ ReadFails(FAT_ROOT_BEG + i \div ENTS_PER_BLOCK)
          /\ IF cmpfname(mod_name, ent.name) THEN SearchFound(ent)
             ELSE i' = i + 1 /\ UNCHANGED <<rent, ent_nr, at>>
    BY <1>8 DEF get_root_ent_bname
  <2>2. /\ ent.clus \in Words /\ ent.size \in Words /\ mem2num(ent.clus) \in -1 .. WORD - 1
        /\ \A k \in DOMAIN layout.chain : layout.chain[k] = mem2num(ent.clus) => k = 1
    <3>1. CASE ent = NoEntry
      <4>1. 0 \in -1 .. WORD - 1
        BY WordFacts
      <4> QED BY <1>5, <1>6, <3>1, <4>1
    <3>2. CASE \E b \in 0 .. RootBlocks - 1 : ent = RootBlock(layout, b)[i % ENTS_PER_BLOCK]
      <4>1. PICK b \in 0 .. RootBlocks - 1 : ent = RootBlock(layout, b)[i % ENTS_PER_BLOCK]
        BY <3>2
      <4>2. b \in Nat
        OBVIOUS
      <4>3. \E n : ent = EntryAt(n)
        BY <1>3, <4>1, <4>2, DirectoryIs
      <4> QED BY <1>3, <4>3, EntryWords
    <3> QED BY <2>1, <3>1, <3>2
  <2>3. failed' \in BOOLEAN /\ (failed => failed')
    <3>1. failed \in BOOLEAN
      BY DEF LoaderStateInv, LoaderTypes
    <3> QED BY <2>1, <3>1, FailedGrows
  <2>4. LoaderTypes'
    BY <1>1, <1>2, <1>3, <2>1, <2>2, <2>3 DEF LoaderStateInv, LoaderTypes, probe, cable, SearchFound
  <2>5. InPlace'
    <3>1. CASE cmpfname(mod_name, ent.name)
      BY <1>1, <1>2, <2>1, <2>2, <3>1 DEF LoaderStateInv, InPlace, SearchFound
    <3>2. CASE ~cmpfname(mod_name, ent.name)
      BY <1>1, <1>2, <2>1, <3>2 DEF LoaderStateInv, InPlace
    <3> QED BY <3>1, <3>2
  <2>6. GoodSoFar'
    <3>1. SUFFICES ASSUME Good' PROVE GoodSoFar'
      BY DEF GoodSoFar
    <3>2. ~failed /\ ~failed' /\ FileThere /\ i <= layout.pos /\ i \in 0 .. FAT_ROOT_ENT_CNT - 1
      BY <1>1, <1>2, <1>3, <2>3, <3>1 DEF LoaderStateInv, GoodSoFar, Good
    <3>3. ent = EntryAt(i)
      <4>1. PICK b : b = FAT_ROOT_BEG + (i \div ENTS_PER_BLOCK)
        OBVIOUS
      <4>2. ~ReadFails(b)
        <5>1. \A g \in Geometries : b \in Nat /\ b < Capacity(g)
          BY <1>3, <3>2, <4>1, OnEveryDisk
        <5>2. b \in Nat
          <6>1. i \div ENTS_PER_BLOCK \in Nat
            BY <1>3, Division
          <6>2. FAT_ROOT_BEG \in Nat
            BY ModLoaderAssumption
          <6> QED BY <4>1, <6>1, <6>2
        <5> QED BY <1>1, <3>2, <5>1, <5>2, NotRefused DEF LoaderStateInv
      <4>3. PICK c \in RootAt(b) : ent = c[i % ENTS_PER_BLOCK]
        BY <2>1, <4>1, <4>2
      <4>4. Readable(b) /\ c = RootBlock(layout, OnDisk(b) - FAT_ROOT_BEG)
        BY <4>3 DEF RootAt
      <4>5. OnDisk(b) - FAT_ROOT_BEG = i \div ENTS_PER_BLOCK
        <5>1. OnDisk(b) = b
          BY <1>1, <4>4, OnDiskIs
        <5>2. i \div ENTS_PER_BLOCK \in Nat /\ FAT_ROOT_BEG \in Nat
          BY <1>3, Division, ModLoaderAssumption
        <5> QED BY <4>1, <5>1, <5>2
      <4> QED BY <1>3, <4>3, <4>4, <4>5, DirectoryIs
    <3>4. cmpfname(mod_name, ent.name) <=> i = layout.pos
      BY <1>3, <3>2, <3>3, NameFound DEF LoaderStateInv, LoaderTypes
    <3>5. CASE i = layout.pos
      <4>1. /\ rent' = RootEntry(layout.name, Head(layout.chain), Len(xmod)) /\ ent_nr' = layout.chain[1]
            /\ at' = "read" /\ i' = 0
        <5>1. mem2num(ent.clus) = layout.chain[1]
          BY <1>3, <1>4, <3>3, <3>5, EntryWords DEF RootEntry
        <5> QED BY <1>4, <2>1, <3>3, <3>4, <3>5, <5>1 DEF SearchFound
      <4>2. Followed'
        <5>1. layout.chain # <<>> /\ 0 < Len(layout.chain)
          BY <1>3 DEF ChainFacts
        <5> QED BY <1>1, <4>1, <5>1 DEF Followed
      <4>3. nblk' \in Nat
        <5>1. nbytes' = Len(xmod)
          BY <1>3, <4>1, EntryWords DEF nbytes, RootEntry
        <5>2. Len(xmod) \in Nat /\ CLUS_SIZE \in Nat \ {0}
          <6>1. CLUS_SIZE \in 1 .. WORD - 2
            BY ModLoaderAssumption
          <6> QED BY <1>3, <6>1, WordFacts DEF FileFacts
        <5> QED BY <5>1, <5>2, Division DEF nblk
      <4>4. 0 <= nblk' /\ 0 * CLUS_SIZE = 0
        BY <4>3, ModLoaderAssumption, WordFacts
      <4>5. Loaded(i * CLUS_SIZE)'
        BY <4>1, <4>4 DEF Loaded
      <4> QED BY <1>1, <1>2, <3>2, <4>1, <4>2, <4>4, <4>5 DEF GoodSoFar
    <3>6. CASE i # layout.pos
      <4>1. i' = i + 1 /\ i + 1 <= layout.pos /\ at' = "search"
        BY <1>1, <1>3, <2>1, <3>2, <3>4, <3>6
      <4> QED BY <1>1, <4>1 DEF GoodSoFar
    <3> QED BY <3>5, <3>6
  <2> QED BY <2>4, <2>5, <2>6 DEF LoaderStateInv
<1> QED BY <1>7, <1>8

\* What a cluster read is, if it can be.
LEMMA ClusterRead ==
  ASSUME ProbeInv, Up, NEW ent \in Int, NEW c \in ClusterAt(data_clus_offset(ent))
  PROVE  c = DataBlock(layout, ent)
<1>1. /\ Readable(data_clus_offset(ent))
      /\ c = DataBlock(layout, OnDisk(data_clus_offset(ent)) - FAT_DATA_BEG + 2)
  BY DEF ClusterAt
<1>2. OnDisk(data_clus_offset(ent)) = data_clus_offset(ent)
  BY <1>1, OnDiskIs
<1>3. FAT_DATA_BEG \in Nat
  BY ModLoaderAssumption
<1>4. OnDisk(data_clus_offset(ent)) - FAT_DATA_BEG + 2 = ent
  BY <1>2, <1>3 DEF data_clus_offset
<1> QED BY <1>1, <1>4

\* What comes of it to memory.
LEMMA StoredIs ==
  ASSUME ChainFacts, FileFacts, LoaderTypes, InPlace, at \in {"read", "next"}, NEW n \in 0 .. CLUS_SIZE,
         NEW c, \/ c = DataBlock(layout, ent_nr)
                \/ \A u \in 0 .. CLUS_SIZE - 1 : c[u] = Junk
  PROVE  /\ Stored(c, n) \in [0 .. MEM_SIZE - 1 -> {Junk} \cup {xmod[m] : m \in DOMAIN xmod}]
         /\ Stored(c, n)[0] \in {Junk, xmod[1]}
         /\ \A a \in 0 .. MEM_SIZE - 1 : a < i * CLUS_SIZE => Stored(c, n)[a] = mem[a]
         /\ \A k \in DOMAIN layout.chain : c = DataBlock(layout, ent_nr) /\ k = i + 1 /\ layout.chain[k] = ent_nr =>
              \A a \in i * CLUS_SIZE .. i * CLUS_SIZE + n - 1 : a < Len(xmod) => Stored(c, n)[a] = xmod[a + 1]
<1> DEFINE base == i * CLUS_SIZE
<1>1. /\ i \in Nat /\ CLUS_SIZE \in Nat \ {0} /\ DOMAIN mem = 0 .. MEM_SIZE - 1 /\ base \in Nat
      /\ Len(xmod) \in Nat /\ DOMAIN xmod = 1 .. Len(xmod) /\ Len(xmod) < MEM_SIZE /\ MEM_SIZE \in Nat
  <2>1. CLUS_SIZE \in 1 .. WORD - 2 /\ MEM_SIZE \in Nat
    BY ModLoaderAssumption
  <2>2. CLUS_SIZE \in Nat \ {0}
    BY <2>1, WordFacts
  <2>3. i \in Nat /\ DOMAIN mem = 0 .. MEM_SIZE - 1
    BY DEF LoaderTypes
  <2>4. base \in Nat
    BY <2>2, <2>3
  <2> QED BY <2>1, <2>2, <2>3, <2>4 DEF FileFacts
<1> HIDE DEF base
<1>2. ASSUME NEW a \in 0 .. MEM_SIZE - 1
      PROVE  Stored(c, n)[a] = IF a \in base .. base + n - 1 THEN c[a - base] ELSE mem[a]
  BY <1>1 DEF Stored, base
<1>3. ASSUME NEW a \in base .. base + n - 1
      PROVE  /\ a - base \in 0 .. CLUS_SIZE - 1
             /\ c[a - base] \in {Junk} \cup {xmod[m] : m \in DOMAIN xmod}
             /\ \A k \in DOMAIN layout.chain : c = DataBlock(layout, ent_nr) /\ k = i + 1 /\ layout.chain[k] = ent_nr
                  /\ a < Len(xmod) => c[a - base] = xmod[a + 1]
             /\ c[a - base] = Junk \/ \E k \in DOMAIN layout.chain :
                  layout.chain[k] = ent_nr /\ (k = i + 1 => c[a - base] \in {Junk, xmod[a + 1]})
  <2>1. a - base \in 0 .. CLUS_SIZE - 1 /\ a \in Nat
    BY <1>1
  <2>2. ASSUME NEW k \in DOMAIN layout.chain, c = DataBlock(layout, ent_nr), layout.chain[k] = ent_nr
        PROVE  /\ c[a - base] \in {Junk} \cup {xmod[m] : m \in DOMAIN xmod}
               /\ k = i + 1 => c[a - base] = IF a < Len(xmod) THEN xmod[a + 1] ELSE Junk
    <3> DEFINE m == (k - 1) * CLUS_SIZE + (a - base) + 1
    <3>1. c[a - base] = IF m <= Len(xmod) THEN xmod[m] ELSE Junk
      BY <2>1, <2>2, ClusterIs
    <3>2. m \in Nat \ {0}
      <4>1. k - 1 \in Nat
        BY ChainElements
      <4>2. (k - 1) * CLUS_SIZE \in Nat
        BY <1>1, <4>1
      <4> QED BY <2>1, <4>2
    <3>3. k = i + 1 => m = a + 1
      <4>1. k = i + 1 => (k - 1) * CLUS_SIZE = base
        BY <1>1 DEF base
      <4> QED BY <1>1, <2>1, <4>1
    <3> HIDE DEF m
    <3>4. a + 1 <= Len(xmod) <=> a < Len(xmod)
      BY <1>1, <2>1
    <3> QED BY <1>1, <3>1, <3>2, <3>3, <3>4
  <2>3. ASSUME \A u \in 0 .. CLUS_SIZE - 1 : c[u] = Junk
        PROVE  c[a - base] = Junk
    BY <2>1, <2>3
  <2>4. ASSUME c = DataBlock(layout, ent_nr), \A k \in DOMAIN layout.chain : layout.chain[k] # ent_nr
        PROVE  c[a - base] = Junk
    BY <2>1, <2>4, NoClusterIs
  <2>5. c[a - base] = Junk \/ \E k \in DOMAIN layout.chain : c = DataBlock(layout, ent_nr) /\ layout.chain[k] = ent_nr
    BY <2>3, <2>4
  <2>6. c[a - base] \in {Junk} \cup {xmod[m] : m \in DOMAIN xmod}
    BY <2>2, <2>5
  <2>7. ASSUME NEW k \in DOMAIN layout.chain, c = DataBlock(layout, ent_nr), k = i + 1, layout.chain[k] = ent_nr,
               a < Len(xmod)
        PROVE  c[a - base] = xmod[a + 1]
    BY <2>2, <2>7
  <2>8. c[a - base] = Junk \/ \E k \in DOMAIN layout.chain :
          layout.chain[k] = ent_nr /\ (k = i + 1 => c[a - base] \in {Junk, xmod[a + 1]})
    BY <2>2, <2>5
  <2> QED BY <2>1, <2>6, <2>7, <2>8
<1>4. mem \in [0 .. MEM_SIZE - 1 -> {Junk} \cup {xmod[m] : m \in DOMAIN xmod}]
  BY DEF LoaderTypes
<1>5. Stored(c, n) \in [0 .. MEM_SIZE - 1 -> {Junk} \cup {xmod[m] : m \in DOMAIN xmod}]
  <2>1. Stored(c, n) = [a \in 0 .. MEM_SIZE - 1 |-> Stored(c, n)[a]]
    BY <1>1 DEF Stored
  <2>2. ASSUME NEW a \in 0 .. MEM_SIZE - 1 PROVE Stored(c, n)[a] \in {Junk} \cup {xmod[m] : m \in DOMAIN xmod}
    BY <1>2, <1>3, <1>4
  <2> QED BY <2>1, <2>2
<1>6. 0 \in 0 .. MEM_SIZE - 1
  BY <1>1
<1>7. Stored(c, n)[0] \in {Junk, xmod[1]}
  <2>1. CASE 0 \in base .. base + n - 1
    <3>1. base = 0
      BY <1>1, <2>1
    <3>2. i = 0
      BY <1>1, <3>1 DEF base
    <3>3. \A k \in DOMAIN layout.chain : layout.chain[k] = ent_nr => k = i + 1
      BY <3>2 DEF InPlace
    <3>4. c[0 - base] \in {Junk, xmod[0 + 1]}
      BY <1>3, <2>1, <3>3
    <3> QED BY <1>2, <1>6, <2>1, <3>4
  <2>2. CASE 0 \notin base .. base + n - 1
    BY <1>2, <1>6, <2>2 DEF InPlace
  <2> QED BY <2>1, <2>2
<1>8. ASSUME NEW a \in 0 .. MEM_SIZE - 1, a < base PROVE Stored(c, n)[a] = mem[a]
  <2>1. a \notin base .. base + n - 1
    BY <1>1, <1>8
  <2> QED BY <1>2, <2>1
<1>9. ASSUME NEW k \in DOMAIN layout.chain, c = DataBlock(layout, ent_nr), k = i + 1, layout.chain[k] = ent_nr,
             NEW a \in base .. base + n - 1, a < Len(xmod)
      PROVE  Stored(c, n)[a] = xmod[a + 1]
  <2>1. a \in 0 .. MEM_SIZE - 1
    BY <1>1, <1>9
  <2> QED BY <1>2, <1>3, <1>9, <2>1
<1> QED BY <1>5, <1>7, <1>8, <1>9 DEF base

\* The clusters of a file: nblk whole ones and, if anything is left, one more.
LEMMA ClustersAre ==
  ASSUME ChainFacts, FileFacts
  PROVE  LET q == Len(xmod) \div CLUS_SIZE
             r == Len(xmod) % CLUS_SIZE
         IN /\ q \in Nat /\ r \in 0 .. CLUS_SIZE - 1 /\ Len(xmod) = q * CLUS_SIZE + r
            /\ q <= Len(layout.chain) /\ (r # 0 => q < Len(layout.chain))
            /\ \A k \in Nat : k < q => (k + 1) * CLUS_SIZE <= Len(xmod)
<1> DEFINE q == Len(xmod) \div CLUS_SIZE
           r == Len(xmod) % CLUS_SIZE
           n == Len(layout.chain)
<1>1. CLUS_SIZE \in Nat \ {0} /\ Len(xmod) \in Nat
  <2>1. CLUS_SIZE \in 1 .. WORD - 2 /\ Len(xmod) \in 1 .. WORD - 1
    BY ModLoaderAssumption DEF FileFacts
  <2> QED BY <2>1, WordFacts
<1>2. q \in Nat /\ r \in 0 .. CLUS_SIZE - 1 /\ Len(xmod) = CLUS_SIZE * q + r
  BY <1>1, Division
<1>3. n \in Nat /\ Len(xmod) <= n * CLUS_SIZE
  BY DEF ChainFacts
<1> HIDE DEF q, r, n
<1>4. CLUS_SIZE * q = q * CLUS_SIZE
  BY <1>1, <1>2
<1>5. \A a, b \in Nat : a >= b + 1 => a * CLUS_SIZE >= b * CLUS_SIZE + CLUS_SIZE
  BY <1>1
<1>6. q <= n
  <2>1. SUFFICES ASSUME q >= n + 1 PROVE FALSE
    BY <1>2, <1>3
  <2>2. q * CLUS_SIZE >= n * CLUS_SIZE + CLUS_SIZE /\ n * CLUS_SIZE \in Nat
    BY <1>1, <1>2, <1>3, <1>5, <2>1
  <2> QED BY <1>1, <1>2, <1>3, <1>4, <2>2
<1>7. r # 0 => q < n
  BY <1>1, <1>2, <1>3, <1>4, <1>6
<1>8. ASSUME NEW k \in Nat, k < q PROVE (k + 1) * CLUS_SIZE <= Len(xmod)
  <2>1. k * CLUS_SIZE + CLUS_SIZE <= q * CLUS_SIZE /\ (k + 1) * CLUS_SIZE = k * CLUS_SIZE + CLUS_SIZE
        /\ k * CLUS_SIZE \in Nat /\ q * CLUS_SIZE \in Nat
    BY <1>1, <1>2, <1>5, <1>8
  <2> QED BY <1>1, <1>2, <1>4, <2>1
<1> QED BY <1>2, <1>4, <1>6, <1>7, <1>8 DEF q, r, n

\* The size in the entry is that of the file.
LEMMA GoodSize ==
  ASSUME ChainFacts, FileFacts, rent = RootEntry(layout.name, Head(layout.chain), Len(xmod))
  PROVE  nbytes = Len(xmod) /\ nblk = Len(xmod) \div CLUS_SIZE /\ rbytes = Len(xmod) % CLUS_SIZE
<1>1. mem2num(LowHigh(Len(xmod))) = Len(xmod)
  BY EntryWords
<1>2. nbytes = Len(xmod)
  BY <1>1 DEF nbytes, RootEntry
<1> QED BY <1>2 DEF nblk, rbytes

\* A whole cluster.
LEMMA ReadClusterStep ==
  ASSUME ProbeInv, LoaderStateInv, ReadCluster
  PROVE  LoaderStateInv'
<1>1. /\ layout' = layout /\ UNCHANGED <<probe, i, rent, ent_nr, phAddr, outcome, schedule>>
      /\ at = "read" /\ at' = "next" /\ Up /\ outcome = "runs" /\ i < nblk
  BY DEF ReadCluster, Elsewhere, In, Running
<1>2. xmod' = xmod /\ firstPh' = firstPh /\ Headers' = Headers /\ FileThere' = FileThere /\ nblk' = nblk
  BY <1>1, SameFile DEF nblk, nbytes
<1>3. /\ ChainFacts /\ FileFacts /\ LoaderTypes /\ InPlace /\ i \in Nat /\ ent_nr \in Int
      /\ CLUS_SIZE \in Nat \ {0} /\ CLUS_SIZE \in 0 .. CLUS_SIZE
  <2>1. CLUS_SIZE \in 1 .. WORD - 2
    BY ModLoaderAssumption
  <2>2. ent_nr \in -1 .. WORD - 1
    BY DEF LoaderStateInv, LoaderTypes
  <2> QED BY <2>1, <2>2, LayoutFacts, WordFacts DEF LoaderStateInv, LoaderTypes
<1>4. \/ \E c : c = DataBlock(layout, ent_nr) /\ mem' = Stored(c, CLUS_SIZE) /\ failed' = failed
      \/ ReadFails(data_clus_offset(ent_nr)) /\ mem' = mem
  BY <1>1, <1>3, ClusterRead DEF ReadCluster
<1>5. failed' \in BOOLEAN /\ (failed => failed')
  BY <1>3, <1>4, FailedGrows DEF LoaderTypes
<1>6. /\ mem' \in [0 .. MEM_SIZE - 1 -> {Junk} \cup {xmod[m] : m \in DOMAIN xmod}]
      /\ mem'[0] \in {Junk, xmod[1]}
  <2>1. CASE mem' = mem
    BY <1>3, <2>1 DEF LoaderTypes, InPlace
  <2>2. ASSUME NEW c, c = DataBlock(layout, ent_nr), mem' = Stored(c, CLUS_SIZE)
        PROVE  /\ mem' \in [0 .. MEM_SIZE - 1 -> {Junk} \cup {xmod[m] : m \in DOMAIN xmod}]
               /\ mem'[0] \in {Junk, xmod[1]}
    BY <1>1, <1>3, <2>2, StoredIs
  <2> QED BY <1>4, <2>1, <2>2
<1>7. LoaderTypes'
  BY <1>1, <1>2, <1>3, <1>5, <1>6 DEF LoaderTypes, probe, cable
<1>8. InPlace'
  BY <1>1, <1>2, <1>3, <1>6 DEF InPlace
<1>9. GoodSoFar'
  <2>1. SUFFICES ASSUME Good' PROVE GoodSoFar'
    BY DEF GoodSoFar
  <2>2. Good /\ ~failed'
    BY <1>2, <1>5, <2>1 DEF Good
  <2>3. /\ Followed /\ rent = RootEntry(layout.name, Head(layout.chain), Len(xmod)) /\ Loaded(i * CLUS_SIZE)
    BY <1>1, <2>2 DEF LoaderStateInv, GoodSoFar
  <2>4. i < Len(layout.chain) /\ i + 1 \in DOMAIN layout.chain /\ layout.chain[i + 1] = ent_nr
        /\ (i + 1) * CLUS_SIZE <= Len(xmod)
    <3>1. i < Len(xmod) \div CLUS_SIZE
      BY <1>1, <1>3, <2>3, GoodSize
    <3>2. /\ Len(xmod) \div CLUS_SIZE \in Nat /\ Len(xmod) \div CLUS_SIZE <= Len(layout.chain)
          /\ (i + 1) * CLUS_SIZE <= Len(xmod)
      BY <1>3, <3>1, ClustersAre
    <3>3. Len(layout.chain) \in Nat /\ DOMAIN layout.chain = 1 .. Len(layout.chain)
      BY <1>3 DEF ChainFacts
    <3>4. i < Len(layout.chain)
      BY <1>3, <3>1, <3>2, <3>3
    <3> QED BY <1>3, <2>3, <3>2, <3>3, <3>4 DEF Followed
  <2>5. ~ReadFails(data_clus_offset(ent_nr))
    <3>1. data_clus_offset(ent_nr) \in Nat
      <4>1. FAT_DATA_BEG \in Nat
        BY ModLoaderAssumption
      <4>2. layout.chain[i + 1] \in Nat /\ layout.chain[i + 1] >= 2
        BY <1>3, <2>4, ChainElements
      <4> QED BY <2>4, <4>1, <4>2 DEF data_clus_offset
    <3>2. \A g \in Geometries : data_clus_offset(ent_nr) < Capacity(g)
      BY <1>3, <2>4, OnEveryDisk
    <3> QED BY <1>1, <1>3, <2>2, <3>1, <3>2, NotRefused
  <2>6. PICK c : c = DataBlock(layout, ent_nr) /\ mem' = Stored(c, CLUS_SIZE)
    BY <1>4, <2>5
  <2>7. Loaded((i + 1) * CLUS_SIZE)'
    <3>1. ASSUME NEW a \in 0 .. (i + 1) * CLUS_SIZE - 1 PROVE mem'[a] = xmod[a + 1]
      <4> DEFINE base == i * CLUS_SIZE
      <4>1. base \in Nat /\ (i + 1) * CLUS_SIZE = base + CLUS_SIZE
        BY <1>3
      <4>2. Len(xmod) \in Nat /\ Len(xmod) < MEM_SIZE /\ MEM_SIZE \in Nat
        BY <1>3, ModLoaderAssumption DEF FileFacts
      <4>3. \A b \in 0 .. base - 1 : mem[b] = xmod[b + 1]
        BY <2>3 DEF Loaded
      <4>4. /\ \A b \in 0 .. MEM_SIZE - 1 : b < base => mem'[b] = mem[b]
            /\ \A b \in base .. base + CLUS_SIZE - 1 : b < Len(xmod) => mem'[b] = xmod[b + 1]
        BY <1>1, <1>3, <2>4, <2>6, StoredIs
      <4> HIDE DEF base
      <4>5. a < Len(xmod) /\ a \in Nat
        BY <1>3, <2>4, <4>1, <4>2
      <4>6. CASE a < base
        BY <4>1, <4>2, <4>3, <4>4, <4>5, <4>6
      <4>7. CASE a >= base
        BY <1>3, <4>1, <4>2, <4>4, <4>5, <4>7
      <4> QED BY <4>1, <4>5, <4>6, <4>7
    <3> QED BY <1>1, <1>2, <3>1 DEF Loaded
  <2>8. Followed'
    BY <1>1, <2>3 DEF Followed
  <2> QED BY <1>1, <1>2, <2>3, <2>7, <2>8 DEF GoodSoFar
<1> QED BY <1>7, <1>8, <1>9 DEF LoaderStateInv

\* The entry of the FAT for a cluster.
LEMMA NextStep ==
  ASSUME ProbeInv, LoaderStateInv, fat_next_tabent
  PROVE  LoaderStateInv'
<1>1. /\ layout' = layout /\ UNCHANGED <<probe, rent, phAddr, mem, outcome, schedule>>
      /\ at = "next" /\ at' = "read" /\ i' = i + 1 /\ Up /\ outcome = "runs"
  BY DEF fat_next_tabent, Elsewhere, In, Running
<1>2. xmod' = xmod /\ firstPh' = firstPh /\ Headers' = Headers /\ FileThere' = FileThere /\ nblk' = nblk
  BY <1>1, SameFile DEF nblk, nbytes
<1>3. ChainFacts /\ FileFacts /\ LoaderTypes /\ InPlace /\ i \in Nat /\ ent_nr \in -1 .. WORD - 1 /\ WORD \in Nat
  BY LayoutFacts, WordFacts DEF LoaderStateInv, LoaderTypes
<1> DEFINE b == (ent_nr * 2) \div BLOCK_SIZE
<1>4. \/ ent_nr \in Nat /\ ent_nr' = NextInChain(layout, ent_nr) /\ failed' = failed
      \/ ent_nr' \in Stale(ent_nr) /\ IF ent_nr < 0 THEN failed' = failed ELSE ReadFails(b + 1)
  <2> HIDE DEF b
  <2>1. ASSUME ent_nr >= 0, NEW c \in FatAt(b + 1),
               ent_nr' = mem2num(<<c[(ent_nr * 2) % BLOCK_SIZE], c[((ent_nr * 2) % BLOCK_SIZE) + 1]>>)
        PROVE  ent_nr \in Nat /\ ent_nr' = NextInChain(layout, ent_nr)
    <3>1. Readable(b + 1) /\ c = FatBlock(layout, OnDisk(b + 1) - 1)
      BY <2>1 DEF FatAt
    <3>2. OnDisk(b + 1) = b + 1
      BY <1>1, <3>1, OnDiskIs
    <3>3. ent_nr \in Nat /\ b \in Nat
      <4>1. ent_nr \in Nat
        BY <1>3, <2>1
      <4>2. ent_nr * 2 \in Nat /\ BLOCK_SIZE \in Nat \ {0}
        BY <4>1, ModLoaderAssumption
      <4> QED BY <4>1, <4>2, Division DEF b
    <3>4. OnDisk(b + 1) - 1 = b
      BY <3>2, <3>3
    <3>5. c = FatBlock(layout, b)
      BY <3>1, <3>4, Zenon
    <3> QED BY <1>3, <2>1, <3>3, <3>5, TableIs DEF b
  <2>2. \/ /\ ent_nr >= 0
           /\ \E c \in FatAt(b + 1) :
                ent_nr' = mem2num(<<c[(ent_nr * 2) % BLOCK_SIZE], c[((ent_nr * 2) % BLOCK_SIZE) + 1]>>)
           /\ UNCHANGED failed
        \/ /\ IF ent_nr < 0 THEN UNCHANGED failed ELSE ReadFails(b + 1)
           /\ ent_nr' \in Stale(ent_nr)
    BY DEF fat_next_tabent, b
  <2> QED BY <2>1, <2>2
<1> HIDE DEF b
<1>5. failed' \in BOOLEAN /\ (failed => failed')
  BY <1>3, <1>4, FailedGrows DEF LoaderTypes
<1>6. ent_nr' \in -1 .. WORD - 1
  <2>1. 0 \in -1 .. WORD - 1 /\ EOF \in -1 .. WORD - 1
    BY EofIs, WordFacts
  <2>2. \A e : NextInChain(layout, e) \in 0 .. WORD - 1
    BY <1>3, NextIsWord
  <2> QED BY <1>3, <1>4, <2>1, <2>2 DEF Stale
<1>7. LoaderTypes'
  BY <1>1, <1>2, <1>3, <1>5, <1>6 DEF LoaderTypes, probe, cable
<1>8. i' # 0
  BY <1>1, <1>3
<1>9. InPlace'
  BY <1>1, <1>2, <1>3, <1>8 DEF InPlace
<1>10. GoodSoFar'
  <2>1. SUFFICES ASSUME Good' PROVE GoodSoFar'
    BY DEF GoodSoFar
  <2>2. Good /\ ~failed'
    BY <1>2, <1>5, <2>1 DEF Good
  <2>3. /\ Followed /\ rent = RootEntry(layout.name, Head(layout.chain), Len(xmod)) /\ Loaded((i + 1) * CLUS_SIZE)
        /\ i < nblk
    BY <1>1, <2>2 DEF LoaderStateInv, GoodSoFar
  <2>4. /\ nblk \in Nat /\ nblk <= Len(layout.chain)
    BY <1>3, <2>3, GoodSize, ClustersAre
  <2>5. i < Len(layout.chain) /\ i + 1 \in DOMAIN layout.chain /\ layout.chain[i + 1] = ent_nr /\ ent_nr >= 0
    BY <1>3, <2>3, <2>4, ChainElements DEF Followed
  <2>6. ~ReadFails(b + 1)
    <3>1. b + 1 \in Nat
      <4>1. ent_nr * 2 \in Nat /\ BLOCK_SIZE \in Nat \ {0}
        BY <1>3, <2>5, ModLoaderAssumption
      <4> QED BY <4>1, Division DEF b
    <3>2. \A g \in Geometries : b + 1 < Capacity(g)
      BY <1>3, <2>5, OnEveryDisk DEF b
    <3> QED BY <1>1, <1>3, <2>2, <3>1, <3>2, NotRefused
  <2>7. ent_nr' = NextInChain(layout, layout.chain[i + 1])
    BY <1>3, <1>4, <2>5, <2>6
  <2>8. ent_nr' = IF i + 1 < Len(layout.chain) THEN layout.chain[i + 1 + 1] ELSE EOF
    BY <1>3, <2>5, <2>7, NextIs
  <2>9. Followed'
    BY <1>1, <2>3, <2>8 DEF Followed
  <2>10. i' <= nblk'
    BY <1>1, <1>2, <1>3, <2>3, <2>4
  <2>11. Loaded(i * CLUS_SIZE)'
    BY <1>1, <1>2, <2>3 DEF Loaded
  <2> QED BY <1>1, <1>2, <2>3, <2>9, <2>10, <2>11 DEF GoodSoFar
<1> QED BY <1>7, <1>9, <1>10 DEF LoaderStateInv

\* What is left of the file.
LEMMA ReadRestStep ==
  ASSUME ProbeInv, LoaderStateInv, ReadRest
  PROVE  LoaderStateInv'
<1>1. /\ layout' = layout /\ UNCHANGED <<probe, i, rent, ent_nr, phAddr, outcome, schedule>>
      /\ at = "read" /\ at' = "headers" /\ Up /\ outcome = "runs" /\ i >= nblk
  BY DEF ReadRest, Elsewhere, In, Running
<1>2. xmod' = xmod /\ firstPh' = firstPh /\ Headers' = Headers /\ FileThere' = FileThere /\ nblk' = nblk
  BY <1>1, SameFile DEF nblk, nbytes
<1>3. /\ ChainFacts /\ FileFacts /\ LoaderTypes /\ InPlace /\ i \in Nat /\ ent_nr \in Int
      /\ CLUS_SIZE \in Nat \ {0} /\ rbytes \in 0 .. CLUS_SIZE
  <2>1. CLUS_SIZE \in 1 .. WORD - 2
    BY ModLoaderAssumption
  <2>2. ent_nr \in -1 .. WORD - 1 /\ rent.size \in Words /\ i \in Nat
    BY DEF LoaderStateInv, LoaderTypes
  <2>3. nbytes \in Nat
    BY <2>2, WordsAre, WordFacts DEF nbytes
  <2>4. CLUS_SIZE \in Nat \ {0}
    BY <2>1, WordFacts
  <2>5. rbytes \in 0 .. CLUS_SIZE
    BY <2>3, <2>4, Division DEF rbytes
  <2> QED BY <2>2, <2>4, <2>5, LayoutFacts, WordFacts DEF LoaderStateInv, LoaderTypes
<1>4. \/ rbytes = 0 /\ mem' = mem /\ failed' = failed
      \/ \E c : c = DataBlock(layout, ent_nr) /\ mem' = Stored(c, rbytes) /\ failed' = failed
      \/ /\ ReadFails(data_clus_offset(ent_nr)) /\ rbytes # 0
         /\ \E c : mem' = Stored(c, rbytes) /\ \A u \in 0 .. CLUS_SIZE - 1 : c[u] = Junk
  <2>1. CASE rbytes = 0
    BY <2>1 DEF ReadRest
  <2>2. CASE rbytes # 0
    <3>1. \/ /\ \E c \in ClusterAt(data_clus_offset(ent_nr)) : mem' = Stored(c, rbytes)
             /\ UNCHANGED failed
          \/ /\ ReadFails(data_clus_offset(ent_nr))
             /\ mem' = Stored([u \in 0 .. CLUS_SIZE - 1 |-> Junk], rbytes)
      BY <2>2 DEF ReadRest
    <3>2. \A u \in 0 .. CLUS_SIZE - 1 : [w \in 0 .. CLUS_SIZE - 1 |-> Junk][u] = Junk
      OBVIOUS
    <3> QED BY <1>1, <1>3, <2>2, <3>1, <3>2, ClusterRead
  <2> QED BY <2>1, <2>2
<1>5. failed' \in BOOLEAN /\ (failed => failed')
  BY <1>3, <1>4, FailedGrows DEF LoaderTypes
<1>6. /\ mem' \in [0 .. MEM_SIZE - 1 -> {Junk} \cup {xmod[m] : m \in DOMAIN xmod}]
      /\ mem'[0] \in {Junk, xmod[1]}
  <2>1. CASE mem' = mem
    BY <1>3, <2>1 DEF LoaderTypes, InPlace
  <2>2. CASE \E c : mem' = Stored(c, rbytes) /\ \/ c = DataBlock(layout, ent_nr)
                                                \/ \A u \in 0 .. CLUS_SIZE - 1 : c[u] = Junk
    BY <1>1, <1>3, <2>2, StoredIs
  <2> QED BY <1>4, <2>1, <2>2
<1>7. LoaderTypes'
  BY <1>1, <1>2, <1>3, <1>5, <1>6 DEF LoaderTypes, probe, cable
<1>8. InPlace'
  BY <1>1, <1>2, <1>3, <1>6 DEF InPlace
<1>9. GoodSoFar'
  <2>1. SUFFICES ASSUME Good' PROVE GoodSoFar'
    BY DEF GoodSoFar
  <2>2. Good /\ ~failed'
    BY <1>2, <1>5, <2>1 DEF Good
  <2>3. /\ Followed /\ rent = RootEntry(layout.name, Head(layout.chain), Len(xmod)) /\ Loaded(i * CLUS_SIZE)
        /\ i <= nblk
    BY <1>1, <2>2 DEF LoaderStateInv, GoodSoFar
  <2>4. /\ nblk \in Nat /\ i = nblk /\ Len(xmod) = i * CLUS_SIZE + rbytes
        /\ rbytes # 0 => i < Len(layout.chain)
    <3>1. nblk = Len(xmod) \div CLUS_SIZE /\ rbytes = Len(xmod) % CLUS_SIZE
      BY <1>3, <2>3, GoodSize
    <3>2. nblk \in Nat /\ Len(xmod) = nblk * CLUS_SIZE + rbytes /\ (rbytes # 0 => nblk < Len(layout.chain))
      BY <1>3, <3>1, ClustersAre
    <3>3. i = nblk
      BY <1>1, <1>3, <2>3, <3>2
    <3> QED BY <3>2, <3>3
  <2>5. Loaded(Len(xmod))'
    <3>1. CASE rbytes = 0
      <4>1. i * CLUS_SIZE \in Nat
        BY <1>3
      <4>2. Len(xmod) = i * CLUS_SIZE
        BY <2>4, <3>1, <4>1
      <4>3. mem' = mem
        <5>1. ASSUME NEW c, mem' = Stored(c, 0) PROVE mem' = mem
          <6>1. DOMAIN mem = 0 .. MEM_SIZE - 1 /\ mem = [a \in DOMAIN mem |-> mem[a]]
            BY <1>3 DEF LoaderTypes
          <6>2. i * CLUS_SIZE .. i * CLUS_SIZE + 0 - 1 = {}
            BY <4>1
          <6> QED BY <5>1, <6>1, <6>2 DEF Stored
        <5> QED BY <1>4, <3>1, <5>1
      <4> QED BY <1>2, <2>3, <4>2, <4>3 DEF Loaded
    <3>2. CASE rbytes # 0
      <4>1. i + 1 \in DOMAIN layout.chain /\ layout.chain[i + 1] = ent_nr
        BY <1>3, <2>3, <2>4, <3>2, ChainElements DEF Followed
      <4>2. ~ReadFails(data_clus_offset(ent_nr))
        <5>1. data_clus_offset(ent_nr) \in Nat
          <6>1. FAT_DATA_BEG \in Nat
            BY ModLoaderAssumption
          <6>2. layout.chain[i + 1] \in Nat /\ layout.chain[i + 1] >= 2
            BY <1>3, <4>1, ChainElements
          <6> QED BY <4>1, <6>1, <6>2 DEF data_clus_offset
        <5>2. \A g \in Geometries : data_clus_offset(ent_nr) < Capacity(g)
          BY <1>3, <4>1, OnEveryDisk
        <5> QED BY <1>1, <1>3, <2>2, <5>1, <5>2, NotRefused
      <4>3. PICK c : c = DataBlock(layout, ent_nr) /\ mem' = Stored(c, rbytes)
        BY <1>4, <3>2, <4>2
      <4>4. ASSUME NEW a \in 0 .. Len(xmod) - 1 PROVE mem'[a] = xmod[a + 1]
        <5> DEFINE base == i * CLUS_SIZE
        <5>1. base \in Nat /\ Len(xmod) = base + rbytes
          BY <1>3, <2>4
        <5>2. Len(xmod) \in Nat /\ Len(xmod) < MEM_SIZE /\ MEM_SIZE \in Nat
          BY <1>3, ModLoaderAssumption DEF FileFacts
        <5>3. \A b \in 0 .. base - 1 : mem[b] = xmod[b + 1]
          BY <2>3 DEF Loaded
        <5>4. /\ \A b \in 0 .. MEM_SIZE - 1 : b < base => mem'[b] = mem[b]
              /\ \A b \in base .. base + rbytes - 1 : b < Len(xmod) => mem'[b] = xmod[b + 1]
          BY <1>1, <1>3, <4>1, <4>3, StoredIs
        <5> HIDE DEF base
        <5>5. a < Len(xmod) /\ a \in Nat
          BY <5>2
        <5>6. CASE a < base
          BY <5>1, <5>2, <5>3, <5>4, <5>5, <5>6
        <5>7. CASE a >= base
          BY <1>3, <5>1, <5>2, <5>4, <5>5, <5>7
        <5> QED BY <5>1, <5>5, <5>6, <5>7
      <4> QED BY <1>2, <4>4 DEF Loaded
    <3> QED BY <3>1, <3>2
  <2> QED BY <1>1, <1>2, <2>5 DEF GoodSoFar
<1> QED BY <1>7, <1>8, <1>9 DEF LoaderStateInv

\* The file is in memory, wherever it is loaded.
LEMMA FileSize ==
  ASSUME FileFacts
  PROVE  /\ Len(xmod) \in Nat \ {0} /\ Len(xmod) < MEM_SIZE /\ MEM_SIZE \in Nat /\ 0 \in 0 .. Len(xmod) - 1
         /\ DOMAIN xmod = 1 .. Len(xmod)
<1>1. Len(xmod) \in 1 .. WORD - 1 /\ xmod \in Seq(Units) /\ Len(xmod) < MEM_SIZE
  BY DEF FileFacts
<1>2. MEM_SIZE \in Nat
  BY ModLoaderAssumption
<1>3. Len(xmod) \in Nat /\ DOMAIN xmod = 1 .. Len(xmod)
  BY <1>1
<1> QED BY <1>1, <1>2, <1>3, WordFacts

\* xmod_lay2dst finds the header of the file, if anything.
LEMMA LayStartStep ==
  ASSUME LoaderStateInv, LayStart
  PROVE  LoaderStateInv'
<1>1. /\ layout' = layout /\ UNCHANGED <<probe, rent, ent_nr, mem, failed, schedule>>
      /\ at = "headers" /\ outcome = "runs"
  BY DEF LayStart, Elsewhere, In, Running
<1>2. xmod' = xmod /\ firstPh' = firstPh /\ Headers' = Headers /\ FileThere' = FileThere
  BY <1>1, SameFile
<1>3. FileFacts /\ LoaderTypes /\ InPlace
  BY LayoutFacts DEF LoaderStateInv, LoaderTypes
<1>4. 0 \in 0 .. Len(xmod) - 1 /\ Len(xmod) < MEM_SIZE /\ MEM_SIZE \in Nat /\ Len(xmod) \in Nat
  BY <1>3, FileSize
<1>5. mem[0] = Junk \/ mem[0] = xmod[1]
  BY <1>3, <1>4 DEF InPlace
<1>6. CASE mem[0].kind = "elf"
  <2>1. mem[0] = xmod[1]
    BY <1>5, <1>6 DEF Junk, Unit
  <2>2. phAddr' = firstPh - 1 /\ at' = "lay" /\ i' = 0 /\ outcome' = outcome
    BY <1>3, <1>6, <2>1, ElfFacts DEF LayStart
  <2>3. firstPh \in Nat \ {0} /\ PhNr(xmod) \in Nat /\ firstPh + PhNr(xmod) - 1 <= Len(xmod)
    BY <1>3, ElfFacts
  <2>4. seen' = 0
    BY <1>2, <2>2, <2>3 DEF seen
  <2>5. phAddr' \in 0 .. MEM_SIZE - 1
    BY <1>4, <2>2, <2>3
  <2>6. LoaderTypes'
    BY <1>1, <1>2, <1>3, <2>2, <2>5 DEF LoaderTypes, probe, cable
  <2>7. firstPh' .. firstPh' + seen' - 1 = {}
    BY <1>2, <2>3, <2>4
  <2>8. InPlace'
    BY <1>1, <1>2, <1>3, <2>1, <2>2, <2>3, <2>4, <2>7 DEF InPlace
  <2>9. Good' => Good /\ Loaded(Len(xmod))'
    BY <1>1, <1>2 DEF LoaderStateInv, GoodSoFar, Good, Loaded
  <2>10. GoodSoFar'
    BY <1>1, <1>2, <2>2, <2>4, <2>7, <2>9 DEF GoodSoFar
  <2> QED BY <2>6, <2>8, <2>10 DEF LoaderStateInv
<1>7. CASE mem[0].kind # "elf"
  <2>1. outcome' = "wild" /\ UNCHANGED <<phAddr, at, i>>
    BY <1>7 DEF LayStart
  <2>2. LoaderTypes'
    BY <1>1, <1>2, <1>3, <2>1 DEF LoaderTypes, probe, cable
  <2>3. InPlace'
    BY <1>1, <1>2, <1>3, <2>1 DEF InPlace
  <2>4. ~Good'
    <3>1. SUFFICES ASSUME Good' PROVE FALSE
      OBVIOUS
    <3>2. Loaded(Len(xmod))
      BY <1>1, <1>2, <3>1 DEF LoaderStateInv, GoodSoFar, Good
    <3>3. mem[0] = xmod[0 + 1]
      BY <1>4, <3>2 DEF Loaded
    <3>4. xmod[0 + 1].kind = "elf"
      BY <1>3 DEF FileFacts
    <3> QED BY <1>7, <3>3, <3>4
  <2> QED BY <2>2, <2>3, <2>4 DEF LoaderStateInv, GoodSoFar
<1> QED BY <1>6, <1>7

\* A segment laid out: it comes from the file, to behind it, and where an earlier
\* one is it has the same.
LEMMA LaidIs ==
  ASSUME FileFacts, LoaderTypes, NEW ph \in Segments(xmod), ph \in [offset : Nat, vaddr : Nat, filesz : Nat]
  PROVE  /\ Laid(mem, ph) \in [0 .. MEM_SIZE - 1 -> {Junk} \cup {xmod[n] : n \in DOMAIN xmod}]
         /\ \A a \in 0 .. Len(xmod) - 1 : Laid(mem, ph)[a] = mem[a]
         /\ Loaded(Len(xmod)) =>
              /\ \A k \in 0 .. ph.filesz - 1 : Laid(mem, ph)[ph.vaddr + k] = xmod[ph.offset + k + 1]
              /\ \A qh \in Headers : qh \in [offset : Nat, vaddr : Nat, filesz : Nat] /\ ph \in Headers /\ InMemory(qh) =>
                   \A k \in 0 .. qh.filesz - 1 : Laid(mem, ph)[qh.vaddr + k] = xmod[qh.offset + k + 1]
<1>1. /\ DOMAIN mem = 0 .. MEM_SIZE - 1 /\ MEM_SIZE \in Nat /\ Len(xmod) \in Nat /\ Len(xmod) < MEM_SIZE
      /\ mem \in [0 .. MEM_SIZE - 1 -> {Junk} \cup {xmod[n] : n \in DOMAIN xmod}]
      /\ DOMAIN xmod = 1 .. Len(xmod)
  BY FileSize DEF LoaderTypes
<1>2. /\ ph.offset \in Nat /\ ph.vaddr \in Nat /\ ph.filesz \in Nat /\ ph.offset + ph.filesz <= Len(xmod)
      /\ \A a \in Target(ph) : Len(xmod) <= a /\ a < MEM_SIZE
  BY DEF FileFacts
<1>3. \A a \in 0 .. MEM_SIZE - 1 :
        Laid(mem, ph)[a] = IF a \in Target(ph) THEN mem[ph.offset + (a - ph.vaddr)] ELSE mem[a]
  BY <1>1 DEF Laid, Target
<1>4. ASSUME NEW a \in Target(ph)
      PROVE  ph.offset + (a - ph.vaddr) \in 0 .. Len(xmod) - 1 /\ a \in 0 .. MEM_SIZE - 1
  BY <1>1, <1>2 DEF Target
<1>5. Laid(mem, ph) \in [0 .. MEM_SIZE - 1 -> {Junk} \cup {xmod[n] : n \in DOMAIN xmod}]
  <2>1. Laid(mem, ph) = [a \in 0 .. MEM_SIZE - 1 |-> Laid(mem, ph)[a]]
    BY <1>1 DEF Laid
  <2>2. \A a \in 0 .. Len(xmod) - 1 : a \in 0 .. MEM_SIZE - 1
    BY <1>1
  <2>3. \A a \in 0 .. MEM_SIZE - 1 : Laid(mem, ph)[a] \in {Junk} \cup {xmod[n] : n \in DOMAIN xmod}
    BY <1>1, <1>3, <1>4, <2>2
  <2> QED BY <2>1, <2>3
<1>6. ASSUME NEW a \in 0 .. Len(xmod) - 1 PROVE Laid(mem, ph)[a] = mem[a]
  <2>1. a \notin Target(ph) /\ a \in 0 .. MEM_SIZE - 1
    BY <1>1, <1>2
  <2> QED BY <1>3, <2>1
<1>7. ASSUME Loaded(Len(xmod)), NEW a \in Target(ph)
      PROVE  Laid(mem, ph)[a] = xmod[ph.offset + (a - ph.vaddr) + 1]
  BY <1>3, <1>4, <1>7 DEF Loaded
<1>8. ASSUME Loaded(Len(xmod)), NEW k \in 0 .. ph.filesz - 1
      PROVE  Laid(mem, ph)[ph.vaddr + k] = xmod[ph.offset + k + 1]
  <2>1. ph.vaddr + k \in Target(ph) /\ ph.offset + ((ph.vaddr + k) - ph.vaddr) + 1 = ph.offset + k + 1
    BY <1>2 DEF Target
  <2> QED BY <1>7, <1>8, <2>1
<1>9. ASSUME Loaded(Len(xmod)), ph \in Headers, NEW qh \in Headers, qh \in [offset : Nat, vaddr : Nat, filesz : Nat], InMemory(qh),
             NEW k \in 0 .. qh.filesz - 1
      PROVE  Laid(mem, ph)[qh.vaddr + k] = xmod[qh.offset + k + 1]
  <2> DEFINE a == qh.vaddr + k
  <2>1. /\ qh.offset \in Nat /\ qh.vaddr \in Nat /\ qh.filesz \in Nat /\ k \in Nat
        /\ a \in Target(qh) /\ a \in Nat
    BY <1>9 DEF Target
  <2>2. a < MEM_SIZE
    BY <1>9, <2>1 DEF FileFacts
  <2>3. mem[a] = xmod[qh.offset + k + 1]
    BY <1>9 DEF InMemory
  <2>4. CASE a \in Target(ph)
    <3>1. a - ph.vaddr + ph.offset = a - qh.vaddr + qh.offset
      BY <1>9, <2>1, <2>4 DEF FileFacts
    <3>2. ph.offset + (a - ph.vaddr) + 1 = qh.offset + k + 1
      BY SMTT(30), <1>2, <2>1, <3>1
    <3> HIDE DEF a
    <3>3. Laid(mem, ph)[a] = xmod[qh.offset + k + 1]
      BY <1>7, <1>9, <2>4, <3>2
    <3> QED BY <3>3 DEF a
  <2>5. CASE a \notin Target(ph)
    <3>1. a \in 0 .. MEM_SIZE - 1
      BY <1>1, <2>1, <2>2
    <3> QED BY <1>3, <2>3, <2>5, <3>1
  <2> QED BY <2>4, <2>5
<1> QED BY <1>5, <1>6, <1>8, <1>9

\* One header.
LEMMA LayHeaderStep ==
  ASSUME LoaderStateInv, LayHeader
  PROVE  LoaderStateInv'
<1>1. /\ layout' = layout /\ UNCHANGED <<probe, at, rent, ent_nr, failed, schedule>>
      /\ at = "lay" /\ outcome = "runs" /\ i' = i + 1
  BY DEF LayHeader, Elsewhere, In, Running
<1>2. xmod' = xmod /\ firstPh' = firstPh /\ Headers' = Headers /\ FileThere' = FileThere
  BY <1>1, SameFile
<1>3. FileFacts /\ LoaderTypes /\ InPlace /\ i \in Nat
  BY LayoutFacts DEF LoaderStateInv, LoaderTypes
<1>4. mem[0] = xmod[1] /\ seen \in 0 .. PhNr(xmod) /\ seen <= i
  BY <1>1, <1>3 DEF InPlace
<1>5. /\ phSize(mem[0]) = 1 /\ phNr(mem[0]) = PhNr(xmod) /\ firstPh \in Nat \ {0} /\ PhNr(xmod) \in Nat
      /\ firstPh + PhNr(xmod) - 1 <= Len(xmod)
  BY <1>3, <1>4, ElfFacts
<1>6. i < PhNr(xmod) /\ seen < PhNr(xmod) /\ seen \in Nat
  BY <1>3, <1>4, <1>5 DEF LayHeader
<1> DEFINE n == firstPh + seen
<1>7. /\ n = phAddr + 1 /\ n \in firstPh .. firstPh + PhNr(xmod) - 1 /\ phAddr \in Nat
      /\ n \in Nat
  BY <1>3, <1>5, <1>6 DEF seen, LoaderTypes
<1>8. /\ Len(xmod) \in Nat /\ Len(xmod) < MEM_SIZE /\ MEM_SIZE \in Nat /\ phAddr \in 0 .. Len(xmod) - 1
      /\ 0 \in 0 .. Len(xmod) - 1
  BY <1>3, <1>5, <1>7, FileSize
<1> HIDE DEF n
<1>9. Loaded(Len(xmod)) => mem[phAddr] = xmod[n] /\ xmod[n].kind = "ph"
  BY <1>3, <1>7, <1>8, HeaderFacts DEF Loaded
<1>10. Good' => /\ Loaded(Len(xmod))
                /\ seen = i \/ PhType(xmod, n) = 0
                /\ \A m \in firstPh .. firstPh + seen - 1 : PhType(xmod, m) # 0 /\ InMemory(Header(xmod, m))
  BY <1>1, <1>2 DEF LoaderStateInv, GoodSoFar, Good, n
<1>11. CASE mem[phAddr].kind # "ph"
  <2>1. outcome' = "wild" /\ UNCHANGED <<phAddr, mem>>
    BY <1>11 DEF LayHeader
  <2>2. seen' = seen
    BY <1>2, <2>1 DEF seen
  <2>3. LoaderTypes'
    BY <1>1, <1>2, <1>3, <2>1 DEF LoaderTypes, probe, cable
  <2>4. InPlace'
    BY <1>1, <1>2, <1>3, <1>4, <1>6, <2>1, <2>2 DEF InPlace
  <2>5. ~Good'
    BY <1>9, <1>10, <1>11
  <2> QED BY <2>3, <2>4, <2>5 DEF LoaderStateInv, GoodSoFar
<1>12. CASE mem[phAddr].kind = "ph"
  <2>1. outcome' = outcome
    BY <1>12 DEF LayHeader
  <2>2. PICK m \in firstPh .. firstPh + PhNr(xmod) - 1 : mem[phAddr] = xmod[m]
    <3>1. mem[phAddr] \in {Junk} \cup {xmod[k] : k \in DOMAIN xmod}
      BY <1>3, <1>7, <1>8 DEF LoaderTypes
    <3>2. mem[phAddr] # Junk
      BY <1>12 DEF Junk, Unit
    <3> QED BY <1>3, <1>12, <3>1, <3>2 DEF FileFacts
  <2>3. /\ Header(xmod, m) \in [offset : Nat, vaddr : Nat, filesz : Nat]
        /\ PH(mem[phAddr]) = [type |-> PhType(xmod, m), offset |-> Header(xmod, m).offset,
                              vaddr |-> Header(xmod, m).vaddr, filesz |-> Header(xmod, m).filesz]
    BY <1>3, <2>2, HeaderFacts
  <2>4. /\ Header(xmod, n) \in [offset : Nat, vaddr : Nat, filesz : Nat]
        /\ PH(xmod[n]) = [type |-> PhType(xmod, n), offset |-> Header(xmod, n).offset,
                          vaddr |-> Header(xmod, n).vaddr, filesz |-> Header(xmod, n).filesz]
    BY <1>3, <1>7, HeaderFacts
  <2>5. Good' => PhType(xmod, m) = PhType(xmod, n) /\ Header(xmod, m) = Header(xmod, n)
    <3>1. SUFFICES ASSUME Good' PROVE PhType(xmod, m) = PhType(xmod, n) /\ Header(xmod, m) = Header(xmod, n)
      OBVIOUS
    <3>2. PH(mem[phAddr]) = PH(xmod[n])
      BY <1>9, <1>10, <3>1
    <3> QED BY <2>3, <2>4, <3>2
  <2>6. CASE PhType(xmod, m) = 0
    <3>1. UNCHANGED <<phAddr, mem>>
      BY <1>12, <2>3, <2>6 DEF LayHeader
    <3>2. seen' = seen
      BY <1>2, <3>1 DEF seen
    <3>3. LoaderTypes'
      BY <1>1, <1>2, <1>3, <2>1, <3>1 DEF LoaderTypes, probe, cable
    <3>4. InPlace'
      BY <1>1, <1>2, <1>3, <1>4, <1>6, <3>1, <3>2 DEF InPlace
    <3>5. GoodSoFar'
      <4>1. SUFFICES ASSUME Good' PROVE GoodSoFar'
        BY DEF GoodSoFar
      <4>2. Loaded(Len(xmod))'
        BY <1>2, <1>10, <3>1, <4>1 DEF Loaded
      <4>3. seen' < PhNr(xmod) /\ PhType(xmod, firstPh + seen') = 0
        BY <1>6, <2>5, <2>6, <3>2, <4>1 DEF n
      <4>4. \A k \in firstPh .. firstPh + seen' - 1 : PhType(xmod, k) # 0 /\ InMemory(Header(xmod, k))'
        BY <1>2, <1>10, <3>1, <3>2, <4>1 DEF InMemory, Header
      <4> QED BY <1>1, <1>2, <2>1, <4>2, <4>3, <4>4 DEF GoodSoFar
    <3> QED BY <3>3, <3>4, <3>5 DEF LoaderStateInv
  <2>7. CASE PhType(xmod, m) # 0
    <3> DEFINE hd == Header(xmod, m)
    <3>1. Laid(mem, PH(mem[phAddr])) = Laid(mem, hd)
      BY <2>3 DEF Laid
    <3>2. mem' = Laid(mem, hd) /\ phAddr' = phAddr + 1
      <4>1. PH(mem[phAddr]).type # 0
        BY <2>3, <2>7
      <4> QED BY <1>5, <1>12, <3>1, <4>1 DEF LayHeader
    <3>3. hd \in Segments(xmod)
      BY <2>7 DEF Segments, Table, firstPh
    <3> HIDE DEF hd
    <3>4. hd \in [offset : Nat, vaddr : Nat, filesz : Nat]
      BY <2>3 DEF hd
    <3>5. seen' = seen + 1
      BY <1>2, <1>5, <1>7, <3>2 DEF seen
    <3>6. phAddr' \in 0 .. MEM_SIZE - 1
      BY <1>8, <3>2
    <3>7. /\ mem' \in [0 .. MEM_SIZE - 1 -> {Junk} \cup {xmod[k] : k \in DOMAIN xmod}]
          /\ \A a \in 0 .. Len(xmod) - 1 : mem'[a] = mem[a]
      BY <1>3, <3>2, <3>3, <3>4, LaidIs
    <3>8. LoaderTypes'
      BY <1>1, <1>2, <1>3, <2>1, <3>6, <3>7 DEF LoaderTypes, probe, cable
    <3>9. InPlace'
      <4>1. seen' \in 0 .. PhNr(xmod) /\ seen' <= i'
        BY <1>1, <1>3, <1>4, <1>5, <1>6, <3>5
      <4>2. mem'[0] = xmod[1]
        BY <1>4, <1>8, <3>7
      <4> QED BY <1>1, <1>2, <1>3, <4>1, <4>2 DEF InPlace
    <3>10. GoodSoFar'
      <4>1. SUFFICES ASSUME Good' PROVE GoodSoFar'
        BY DEF GoodSoFar
      <4>2. /\ Loaded(Len(xmod)) /\ seen = i /\ hd = Header(xmod, n)
            /\ \A k \in firstPh .. firstPh + seen - 1 : PhType(xmod, k) # 0 /\ InMemory(Header(xmod, k))
        BY <1>10, <2>5, <2>7, <4>1 DEF hd
      <4>3. \A k \in firstPh .. n : PhType(xmod, k) # 0
        <5>1. \A k \in firstPh .. n : k = n \/ k \in firstPh .. firstPh + seen - 1
          BY <1>5, <1>6 DEF n
        <5> QED BY <2>5, <2>7, <4>1, <4>2, <5>1
      <4>4. Loaded(Len(xmod))'
        BY <1>2, <3>7, <4>2 DEF Loaded
      <4>5. ASSUME NEW k \in firstPh .. n
            PROVE  Header(xmod, k) \in Headers /\ Header(xmod, k) \in [offset : Nat, vaddr : Nat, filesz : Nat]
        <5>1. k \in firstPh .. firstPh + PhNr(xmod) - 1 /\ \A q \in firstPh .. k : q \in firstPh .. n
          BY <1>5, <1>7
        <5>2. Header(xmod, k) \in [offset : Nat, vaddr : Nat, filesz : Nat]
          BY <1>3, <5>1, HeaderFacts
        <5> QED BY <4>3, <5>1, <5>2 DEF Headers, HeadersOf, Table, firstPh, xmod
      <4>6. hd \in Headers
        BY <1>5, <1>6, <1>7, <4>2, <4>5
      <4>7. ASSUME NEW k \in firstPh .. n PROVE InMemory(Header(xmod, k))'
        <5> DEFINE qh == Header(xmod, k)
        <5>1. qh \in Headers /\ qh \in [offset : Nat, vaddr : Nat, filesz : Nat]
          BY <4>5
        <5>2. qh = hd \/ InMemory(qh)
          <6>1. k = n \/ k \in firstPh .. firstPh + seen - 1
            BY <1>5, <1>6 DEF n
          <6> QED BY <4>2, <6>1
        <5>3. qh' = qh
          BY <1>2 DEF Header
        <5> HIDE DEF qh
        <5>4. \A q \in 0 .. qh.filesz - 1 : mem'[qh.vaddr + q] = xmod[qh.offset + q + 1]
          <6>1. CASE qh = hd
            BY <1>3, <3>2, <3>3, <3>4, <4>2, <6>1, LaidIs
          <6>2. CASE InMemory(qh)
            BY <1>3, <3>2, <3>3, <3>4, <4>2, <4>6, <5>1, <6>2, LaidIs
          <6> QED BY <5>2, <6>1, <6>2
        <5> QED BY <1>2, <5>3, <5>4 DEF InMemory, qh
      <4>8. firstPh + seen' - 1 = n /\ seen' = i'
        BY <1>1, <1>3, <1>5, <1>6, <3>5, <4>2 DEF n
      <4> QED BY <1>1, <1>2, <2>1, <4>3, <4>4, <4>7, <4>8 DEF GoodSoFar
    <3> QED BY <3>8, <3>9, <3>10 DEF LoaderStateInv
  <2> QED BY <2>6, <2>7
<1> QED BY <1>11, <1>12

\* The file is made of units.
LEMMA UnitsAre ==
  ASSUME FileFacts
  PROVE  \A n \in DOMAIN xmod : xmod[n] \in Units
<1>1. ASSUME NEW S, NEW s \in Seq(S) PROVE \A n \in DOMAIN s : s[n] \in S
  OBVIOUS
<1> QED BY <1>1, Zenon DEF FileFacts

\* All headers laid out: with what failed before, or each segment of the file.
LEMMA LayEndStep ==
  ASSUME LoaderStateInv, LayEnd
  PROVE  LoaderStateInv'
<1>1. /\ layout' = layout /\ UNCHANGED <<probe, i, rent, ent_nr, phAddr, mem, failed, outcome, schedule>>
      /\ at = "lay" /\ at' = "loaded" /\ outcome = "runs"
  BY DEF LayEnd, Elsewhere, In, Running
<1>2. xmod' = xmod /\ firstPh' = firstPh /\ Headers' = Headers /\ FileThere' = FileThere
  BY <1>1, SameFile
<1>3. FileFacts /\ LoaderTypes /\ InPlace /\ i \in Nat
  BY LayoutFacts DEF LoaderStateInv, LoaderTypes
<1>4. LoaderTypes'
  BY <1>1, <1>2, <1>3 DEF LoaderTypes, probe, cable
<1>5. InPlace'
  BY <1>1, <1>2, <1>3 DEF InPlace
<1>6. GoodSoFar'
  <2>1. SUFFICES ASSUME Good' PROVE GoodSoFar'
    BY DEF GoodSoFar
  <2>2. /\ \A m \in firstPh .. firstPh + seen - 1 : InMemory(Header(xmod, m))
        /\ seen = i \/ PhType(xmod, firstPh + seen) = 0
    BY <1>1, <1>2, <2>1 DEF LoaderStateInv, GoodSoFar, Good
  <2>3. /\ i >= PhNr(xmod) /\ firstPh \in Nat \ {0} /\ PhNr(xmod) \in Nat /\ seen \in 0 .. PhNr(xmod)
    BY <1>1, <1>3, ElfFacts DEF InPlace, LayEnd
  <2>4. ASSUME NEW ph \in Headers PROVE InMemory(ph)'
    <3>1. PICK m \in firstPh .. firstPh + PhNr(xmod) - 1 :
            ph = Header(xmod, m) /\ \A k \in firstPh .. m : PhType(xmod, k) # 0
      BY <2>4 DEF Headers, HeadersOf, Table, firstPh, xmod
    <3>2. m \in firstPh .. firstPh + seen - 1
      <4>1. CASE seen = i
        BY <1>3, <2>3, <4>1
      <4>2. CASE PhType(xmod, firstPh + seen) = 0
        <5>1. SUFFICES ASSUME m >= firstPh + seen PROVE FALSE
          BY <2>3
        <5>2. firstPh + seen \in firstPh .. m
          BY <2>3, <5>1
        <5> QED BY <3>1, <4>2, <5>2
      <4> QED BY <2>2, <4>1, <4>2
    <3>3. InMemory(ph)
      BY <2>2, <3>1, <3>2
    <3> QED BY <1>1, <1>2, <3>3 DEF InMemory
  <2>5. \A ph \in Headers : InMemory(ph)'
    BY <2>4
  <2> QED BY <1>1, <1>2, <2>5 DEF GoodSoFar, InMemory
<1> QED BY <1>4, <1>5, <1>6 DEF LoaderStateInv

-----------------------------------------------------------------------------
(* Alt+F12 and the clock.                                                  *)

\* Alt+F12 makes the clock call XModPhyAddr, and touches nothing of the loader;
LEMMA AltF12Step ==
  ASSUME LoaderStateInv, AltF12
  PROVE  LoaderStateInv'
<1>1. /\ UNCHANGED <<probe, layout, loader, outcome>> /\ schedule' \in {"sched0", "XModPhyAddr"}
  BY DEF AltF12
<1>2. /\ xmod' = xmod /\ firstPh' = firstPh /\ Headers' = Headers /\ FileThere' = FileThere /\ seen' = seen
      /\ nblk' = nblk
  BY <1>1, SameFile DEF loader, seen, nblk, nbytes
<1>3. LoaderTypes'
  BY <1>1, <1>2 DEF LoaderStateInv, LoaderTypes, loader, probe, cable
<1>4. InPlace'
  BY <1>1, <1>2 DEF LoaderStateInv, InPlace, loader
<1>5. GoodSoFar'
  BY <1>1, <1>2 DEF LoaderStateInv, GoodSoFar, Good, loader, Followed, Loaded, InMemory
<1> QED BY <1>3, <1>4, <1>5 DEF LoaderStateInv

\* when the clock calls it, the entry point of the xmod is there.
LEMMA TickStep ==
  ASSUME LoaderStateInv, Tick
  PROVE  LoaderStateInv'
<1>1. /\ UNCHANGED <<probe, layout, loader, schedule>> /\ at \in {"user", "loaded"}
      /\ outcome' = IF mem[XModPhyAddr] = Entry THEN "runs" ELSE "wild"
  BY DEF Tick, InUser
<1>2. /\ xmod' = xmod /\ firstPh' = firstPh /\ Headers' = Headers /\ FileThere' = FileThere /\ seen' = seen
      /\ nblk' = nblk
  BY <1>1, SameFile DEF loader, seen, nblk, nbytes
<1>3. LoaderTypes'
  BY <1>1, <1>2 DEF LoaderStateInv, LoaderTypes, loader, probe, cable
<1>4. InPlace'
  BY <1>1, <1>2 DEF LoaderStateInv, InPlace, loader
<1>5. Good /\ at = "loaded" => mem[XModPhyAddr] = Entry
  <2>1. SUFFICES ASSUME Good, at = "loaded" PROVE mem[XModPhyAddr] = Entry
    OBVIOUS
  <2>2. FileFacts
    BY LayoutFacts DEF LoaderStateInv, LoaderTypes
  <2>3. PICK ph \in Headers : XModPhyAddr \in Target(ph) /\ xmod[XModPhyAddr - ph.vaddr + ph.offset + 1] = Entry
    BY <2>2 DEF FileFacts
  <2>4. PICK m \in firstPh .. firstPh + PhNr(xmod) - 1 : ph = Header(xmod, m)
    BY <2>3 DEF Headers, HeadersOf, Table, firstPh, xmod
  <2>5. ph.offset \in Nat /\ ph.vaddr \in Nat /\ ph.filesz \in Nat
    <3>1. ph \in [offset : Nat, vaddr : Nat, filesz : Nat]
      BY <2>2, <2>4, HeaderFacts
    <3> QED BY <3>1
  <2>6. InMemory(ph)
    BY <2>1 DEF LoaderStateInv, GoodSoFar
  <2>7. XModPhyAddr \in Nat
    BY ModLoaderAssumption
  <2> DEFINE k == XModPhyAddr - ph.vaddr
  <2>8. k \in 0 .. ph.filesz - 1 /\ ph.vaddr + k = XModPhyAddr /\ ph.offset + k + 1 = XModPhyAddr - ph.vaddr + ph.offset + 1
    BY <2>3, <2>5, <2>7 DEF Target
  <2> HIDE DEF k
  <2>9. mem[ph.vaddr + k] = xmod[ph.offset + k + 1]
    BY <2>6, <2>8 DEF InMemory
  <2> QED BY <2>3, <2>8, <2>9
<1>6. GoodSoFar'
  BY <1>1, <1>2, <1>5 DEF LoaderStateInv, GoodSoFar, Good, loader, Followed, Loaded, InMemory
<1> QED BY <1>3, <1>4, <1>6 DEF LoaderStateInv

\* A step that changes nothing.
LEMMA LoaderStutters ==
  ASSUME LoaderStateInv, UNCHANGED vars
  PROVE  LoaderStateInv'
<1>1. /\ xmod' = xmod /\ firstPh' = firstPh /\ Headers' = Headers /\ FileThere' = FileThere /\ seen' = seen
      /\ nblk' = nblk /\ UNCHANGED <<probe, layout, loader, schedule, outcome>>
  BY SameFile DEF vars, loader, seen, nblk, nbytes
<1>2. LoaderTypes'
  BY <1>1 DEF LoaderStateInv, LoaderTypes, loader, probe, cable
<1>3. InPlace'
  BY <1>1 DEF LoaderStateInv, InPlace, loader
<1>4. GoodSoFar'
  BY <1>1 DEF LoaderStateInv, GoodSoFar, Good, loader, Followed, Loaded, InMemory
<1> QED BY <1>2, <1>3, <1>4 DEF LoaderStateInv

-----------------------------------------------------------------------------
(* The theorems of the loader.                                             *)

\* Every step keeps the invariant of the system call.
LEMMA LoaderStep == ProbeInv /\ LoaderStateInv /\ [Next]_vars => LoaderStateInv'
BY ProbeKeepsLoader, CallStep, SearchStep, ReadClusterStep, NextStep, ReadRestStep, LayStartStep,
   LayHeaderStep, LayEndStep, AltF12Step, TickStep, LoaderStutters
DEF Next, sys_ld_mod

\* The inductive invariant of the system call, with that of the probe.
THEOREM ModLoaderSafety == Spec => [](ProbeInv /\ LoaderStateInv)
<1>1. Init => ProbeInv /\ LoaderStateInv
  BY ProbeInitSound, LoaderInit DEF Init
<1>2. ProbeInv /\ LoaderStateInv /\ [Next]_vars => (ProbeInv /\ LoaderStateInv)'
  BY LoaderKeepsProbe, LoaderStep
<1> QED BY <1>1, <1>2, PTL DEF Spec

\* When no read failed, every segment of XMOD.ELF is where its header wants it
\* after ld_mod, for any file, wherever its clusters are, and whatever else is
\* in the directory.
THEOREM ModLoaderLoaded == Spec => []LoaderInv
<1>1. LoaderStateInv => LoaderInv
  <2> SUFFICES ASSUME LoaderStateInv PROVE LoaderInv
    OBVIOUS
  <2>1. LoaderTypes /\ FileFacts
    BY LayoutFacts DEF LoaderStateInv, LoaderTypes
  <2>2. mem2num(rent.clus) \in 0 .. WORD - 1 /\ mem2num(rent.size) \in 0 .. WORD - 1
    BY <2>1, WordsAre DEF LoaderTypes
  <2>3. ASSUME NEW a \in 0 .. MEM_SIZE - 1 PROVE mem[a].kind \in {"junk", "elf", "ph", "code"}
    <3>1. mem[a] \in {Junk} \cup {xmod[n] : n \in DOMAIN xmod}
      BY <2>1 DEF LoaderTypes
    <3>2. \A n \in DOMAIN xmod : xmod[n] \in Units
      BY <2>1, UnitsAre
    <3>3. CASE mem[a] = Junk
      BY <3>3 DEF Junk, Unit
    <3>4. CASE mem[a] \in Units
      BY <3>4 DEF Units
    <3> QED BY <3>1, <3>2, <3>3, <3>4
  <2>4. DOMAIN mem = 0 .. MEM_SIZE - 1
    BY <2>1 DEF LoaderTypes
  <2>5. TypeOK
    BY <2>1, <2>2, <2>3, <2>4 DEF TypeOK, LoaderTypes
  <2>6. LoadedRight
    BY DEF LoadedRight, LoaderStateInv, GoodSoFar, Good, InMemory, xmod
  <2> QED BY <2>5, <2>6 DEF LoaderInv
<1> QED BY <1>1, ModLoaderSafety, PTL

\* Nothing runs wild without a failed read, with the file there, after ld_mod.
THEOREM ModLoaderWild == Spec => []WildOnlyAfterFailure
<1>1. LoaderStateInv => WildOnlyAfterFailure
  BY DEF LoaderStateInv, GoodSoFar, Good, WildOnlyAfterFailure, LoaderTypes
<1> QED BY <1>1, ModLoaderSafety, PTL
=============================================================================
