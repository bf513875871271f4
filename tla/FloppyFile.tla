------------------------------ MODULE FloppyFile ------------------------------
(***************************************************************************)
(* How boot/boot.S loads LOADER.BIN and boot/loader.S loads KERNEL.BIN:    *)
(* the same code twice, with another name and other addresses.  A file is  *)
(* looked for in the root directory of a FAT12 floppy and read sector by   *)
(* sector, along its chain in the FAT.  The BIOS reads (int 13h); a read   *)
(* may fail, whereupon it is made again.                                   *)
(*                                                                         *)
(* Memory below 1 MB is counted in units of half a sector, the grain of    *)
(* the addresses that the two programs use; a unit of it holds <<n, h>>,   *)
(* half h of sector n of the floppy, or Nothing that is known.             *)
(***************************************************************************)
EXTENDS Integers, Sequences

CONSTANTS
  BytsPerSec, SecPerTrk, NumHeads, Cylinders, NumFATs, FATSz, RootDirSectors, EntsPerSec,
  SEG,                \* units of a segment: what the 16 bits of %bx reach
  LOW,                \* units of memory
  FileName,           \* the file that is looked for
  Base, Offset,       \* where it is read to
  FatBase             \* and where the sectors of the FAT are

VARIABLES
  floppy,                     \* history: what is on it
  at,                         \* "root", "file", "fat", "loaded" or "none"
  wRootDirSizeForLoop,        \* sectors of the root directory that are left
  wSectorNo,                  \* the one to read next
  ent,                        \* the FAT index saved on the stack
  bx,                         \* where in the segment the next sector comes to
  low                         \* memory

fileVars == <<at, wRootDirSizeForLoop, wSectorNo, ent, bx, low>>

Nothing == <<-1, 0>>
Nibble == 16
EOF == Nibble * Nibble * Nibble - 1

-----------------------------------------------------------------------------
(* What is on a floppy: per file its place in the root directory, the      *)
(* chain of its clusters and the number that ends the chain.  A name that  *)
(* is not there is at a place beyond the directory's end.                  *)

SecNoOfFAT1 == 1
SecNoOfRootDir == SecNoOfFAT1 + NumFATs * FATSz
FirstDataSector == SecNoOfRootDir + RootDirSectors
DeltaSecNo == SecNoOfFAT1 + NumFATs * FATSz - 2

\* The sector in which the k-th piece of a file is.
SectorOf(f, k) == FirstDataSector + floppy[f].chain[k] - 2

Links == UNION {{<<f, k>> : k \in DOMAIN floppy[f].chain} : f \in DOMAIN floppy}

LinksWith(c) == {l \in Links : floppy[l[1]].chain[l[2]] = c}

Successor(c) ==
  LET l == CHOOSE x \in LinksWith(c) : TRUE
      chain == floppy[l[1]].chain
  IN IF c = 0 THEN EOF - Nibble + 1            \* the media descriptor
     ELSE IF LinksWith(c) = {} THEN 0
     ELSE IF l[2] = Len(chain) THEN floppy[l[1]].end ELSE chain[l[2] + 1]

\* Two entries of three digits each are in three bytes.
FatByte(k) ==
  LET even == Successor(2 * (k \div 3))
      odd == Successor(2 * (k \div 3) + 1)
  IN CASE k % 3 = 0 -> even % (Nibble * Nibble)
       [] k % 3 = 1 -> even \div (Nibble * Nibble) + Nibble * (odd % Nibble)
       [] OTHER -> odd \div Nibble

\* Byte o of sector n, read as a piece of a FAT.
ByteOf(n, o) ==
  IF n \in SecNoOfFAT1 .. SecNoOfRootDir - 1 THEN FatByte(((n - SecNoOfFAT1) % FATSz) * BytsPerSec + o) ELSE 0

\* The files of which sector n of the root directory has the entry.
EntriesOf(n) == {f \in DOMAIN floppy : n = SecNoOfRootDir + floppy[f].pos \div EntsPerSec}

FirstCluster(f) == IF floppy[f].chain = <<>> THEN 0 ELSE Head(floppy[f].chain)

\* A floppy in order: no cluster is in two chains or twice in one, each has its
\* entry in the FAT, and a chain ends with 0xfff or the number of no sector.
NoSector(c) == FirstDataSector + c - 2 >= Cylinders * NumHeads * SecPerTrk
WellFormed(disk) ==
  \A f \in DOMAIN disk :
    /\ disk[f].pos \in Nat
    /\ disk[f].chain \in Seq(2 .. EOF - 1)
    /\ disk[f].end \in 2 .. EOF /\ (disk[f].end = EOF \/ NoSector(disk[f].end))
    /\ \A k \in DOMAIN disk[f].chain :
         /\ (3 * disk[f].chain[k]) \div 2 + 1 < FATSz * BytsPerSec
         /\ \A g \in DOMAIN disk : \A j \in DOMAIN disk[g].chain :
              disk[f].chain[k] = disk[g].chain[j] => f = g /\ k = j

-----------------------------------------------------------------------------
(* The BIOS, which is told cylinder, head and sector.                      *)

OnFloppy(chs, n) ==
  chs.cylinder < Cylinders /\ chs.head < NumHeads /\ chs.sector - 1 + n <= SecPerTrk

Transferred(chs, n, to) ==
  LET first == (chs.cylinder * NumHeads + chs.head) * SecPerTrk + chs.sector - 1
  IN [u \in DOMAIN low |->
        IF u \in to .. to + 2 * n - 1 THEN <<first + (u - to) \div 2, (u - to) % 2>> ELSE low[u]]

\* A read that fails leaves there what it likes.
Garbled(n, to) == [u \in DOMAIN low |-> IF u \in to .. to + 2 * n - 1 THEN Nothing ELSE low[u]]

-----------------------------------------------------------------------------
(* The code.                                                               *)

\* Mutant: a side after the other, as many formats have it.
ChsOf_SideBySide(ax) ==
  [cylinder |-> (ax \div SecPerTrk) % Cylinders, head |-> (ax \div SecPerTrk) \div Cylinders,
   sector |-> (ax % SecPerTrk) + 1]

ChsOf(ax) ==
  [cylinder |-> (ax \div SecPerTrk) \div 2, head |-> (ax \div SecPerTrk) % 2, sector |-> (ax % SecPerTrk) + 1]

\* Mutant: the carry flag is not looked at.
ReadSector_Once(ax, cl, to) ==
  \/ OnFloppy(ChsOf(ax), cl) /\ low' = Transferred(ChsOf(ax), cl, to)
  \/ low' = Garbled(cl, to)

\* Read cl sectors from ax: what is done when it comes to an end.
ReadSector(ax, cl, to) == OnFloppy(ChsOf(ax), cl) /\ low' = Transferred(ChsOf(ax), cl, to)

\* Where the reading of a sector is at: LABEL_SEARCH_IN_ROOT_DIR_BEGIN,
\* LABEL_GOON_LOADING_FILE, GetFATEntry.
SectorToRead == CASE at = "root" -> wSectorNo [] at = "file" -> ent + RootDirSectors + DeltaSecNo
                  [] OTHER -> SecNoOfFAT1 + ((3 * ent) \div 2) \div BytsPerSec
SectorsToRead == IF at = "fat" THEN 2 ELSE 1
ReadTo == CASE at = "root" -> Base + Offset [] at = "file" -> Base + bx [] OTHER -> FatBase
Reading == (at = "root" /\ wRootDirSizeForLoop # 0) \/ at \in {"file", "fat"}

\* The carry flag is set: back to GoOnReading.
GoOnReading ==
  /\ Reading
  /\ low' = Garbled(SectorsToRead, ReadTo)
  /\ UNCHANGED <<at, wRootDirSizeForLoop, wSectorNo, ent, bx>>

Start ==
  /\ at' = "root" /\ wRootDirSizeForLoop' = RootDirSectors /\ wSectorNo' = SecNoOfRootDir
  /\ ent' = 0 /\ bx' = Offset

\* A sector of the root directory has been read and its entries are compared
\* with the name.
SearchInRootDir ==
  /\ at = "root" /\ wRootDirSizeForLoop # 0
  /\ wRootDirSizeForLoop' = wRootDirSizeForLoop - 1
  /\ ReadSector(SectorToRead, 1, ReadTo)
  /\ IF FileName \in EntriesOf(low'[Base + Offset][1])
     THEN at' = "file" /\ ent' = FirstCluster(FileName) /\ bx' = Offset /\ UNCHANGED wSectorNo
     ELSE wSectorNo' = wSectorNo + 1 /\ UNCHANGED <<at, ent, bx>>

\* "No LOADER", "No KERNEL": jmp .
NoFile ==
  /\ at = "root" /\ wRootDirSizeForLoop = 0
  /\ at' = "none"
  /\ UNCHANGED <<wRootDirSizeForLoop, wSectorNo, ent, bx, low>>

ReadOfFile ==
  /\ at = "file"
  /\ ReadSector(SectorToRead, 1, ReadTo)
  /\ at' = "fat"
  /\ UNCHANGED <<wRootDirSizeForLoop, wSectorNo, ent, bx>>

\* Mutant: the other half of the word.
GetFATEntry_Swapped(mem) ==
  LET offset == (3 * ent) \div 2
      Byte(o) == ByteOf(mem[FatBase + 2 * (o \div BytsPerSec)][1], o % BytsPerSec)
      word == Byte(offset % BytsPerSec) + Nibble * Nibble * Byte((offset % BytsPerSec) + 1)
  IN (IF (3 * ent) % 2 = 1 THEN word ELSE word \div Nibble) % (EOF + 1)

\* Entry ent of the FAT, of which two sectors are at FatBase: three digits of
\* the four in the two bytes at 3 * ent / 2.
GetFATEntry(mem) ==
  LET offset == (3 * ent) \div 2
      Byte(o) == ByteOf(mem[FatBase + 2 * (o \div BytsPerSec)][1], o % BytsPerSec)
      word == Byte(offset % BytsPerSec) + Nibble * Nibble * Byte((offset % BytsPerSec) + 1)
  IN (IF (3 * ent) % 2 = 1 THEN word \div Nibble ELSE word) % (EOF + 1)

\* The FAT tells where the file goes on.  Any number but the greatest is taken
\* for a cluster, and %bx has 16 bits.
FollowChain ==
  /\ at = "fat"
  /\ ReadSector(SectorToRead, 2, ReadTo)
  /\ IF GetFATEntry(low') = EOF THEN at' = "loaded" /\ UNCHANGED <<ent, bx>>
     ELSE at' = "file" /\ ent' = GetFATEntry(low') /\ bx' = (bx + 2) % SEG
  /\ UNCHANGED <<wRootDirSizeForLoop, wSectorNo>>

Progress == SearchInRootDir \/ NoFile \/ ReadOfFile \/ FollowChain

-----------------------------------------------------------------------------
(* What is expected of it.                                                 *)

\* The file is in memory, as it is on the floppy.
InMemory(mem) ==
  \A k \in DOMAIN floppy[FileName].chain, h \in 0 .. 1 :
    mem[Base + Offset + 2 * (k - 1) + h] = <<SectorOf(FileName, k), h>>

InRootDir == floppy[FileName].pos < RootDirSectors * EntsPerSec
FitsSegment == Offset + 2 * Len(floppy[FileName].chain) <= SEG
=============================================================================
