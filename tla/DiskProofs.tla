----------------------------- MODULE DiskProofs -----------------------------
(***************************************************************************)
(* The two programs that read disks: the driver of the hard disk, module   *)
(* Ide, and what starts the machine from a floppy, module Startup.         *)
(*                                                                         *)
(* For every disk, timeout and width, ide_rw_blks gives the mutex back on  *)
(* every path, commands only a disk at rest, and does not report success   *)
(* for a read without the block.                                           *)
(*                                                                         *)
(* For every geometry, layout of memory, floppy and map of the BIOS that   *)
(* the assumptions of module Startup admit, boot.S and loader.S find what  *)
(* is in the root directory, load it whole, map the memory and lay out the *)
(* kernel where it is linked.                                              *)
(***************************************************************************)
EXTENDS Ide, Startup, WellFoundedInduction, TLAPS

-----------------------------------------------------------------------------
(* Ide.                                                                    *)

\* What the disk offers is what it was asked for.
OfferIsGood ==
  /\ "DRQ" \in status => "BSY" \notin status
  /\ "DRQ" \in status /\ command.type = "IO_READ" => data_reg = disk[command.block]

\* How far the disk is, as the driver can rely on it.
DriverKnows ==
  /\ pc \notin {"return", "fail"}
       => request.nblocks = 1 /\ request.block \in Blocks
  /\ pc = "command" => status \cap {"BSY", "DRQ"} = {}
  /\ pc \in {"wait", "waited", "write", "sleep", "check", "copy"} => command = request
  /\ pc = "waited" /\ timeout # 0 => "BSY" \notin status
  /\ pc \in {"wait", "waited"} /\ request.type = "IO_READ"
       => "BSY" \in status \/ "DRQ" \in status \/ "ERR" \in status
  /\ pc = "wait" => timeout > 0
  /\ pc = "write" => request.type = "IO_WRITE"
  /\ pc = "copy" => request.type = "IO_READ"
  /\ pc \in {"sleep", "check", "copy"} /\ request.type = "IO_READ" => status = {"DRQ"}

\* A disk that is busy was given a command for a block it has.
BusyWithABlock == "BSY" \in status => command.block \in Blocks

\* The block that was read is the one on the disk, and no write that could
\* change it is on its way.
ReadKept ==
  request.type = "IO_READ" /\ (pc = "unlock" \/ (pc = "return" /\ result = "nblocks"))
    => buffer = disk[request.block] /\ "BSY" \notin status

IdeInv ==
  TypeOK /\ MutexBalanced /\ OfferIsGood /\ DriverKnows /\ BusyWithABlock /\ ReadKept

-----------------------------------------------------------------------------
\* What P and V do to an unsigned value: one less or one more, around UINT.
LEMMA SemaphoreArithmetic ==
  ASSUME NEW v \in 0 .. UINT - 1
  PROVE  /\ ksema_p(v) = IF v = 0 THEN UINT - 1 ELSE v - 1
         /\ ksema_v(v) = IF v = UINT - 1 THEN 0 ELSE v + 1
BY IdeAssumption DEF ksema_p, ksema_v

\* A wait that ran out is reported as such, whatever the width.
LEMMA ZeroIsZero == 0 % BYTE = 0
BY IdeAssumption

\* The disk's steps keep the invariant at every point of the driver.
LEMMA DiskKeepsInv ==
  ASSUME IdeInv, DiskFails \/ DiskOffers \/ DiskWrites
  PROVE  IdeInv'
<1> USE DEF IdeInv, TypeOK, MutexBalanced, OfferIsGood, DriverKnows, BusyWithABlock, ReadKept, driver
<1>1. CASE DiskFails
  BY <1>1 DEF DiskFails
<1>2. CASE DiskOffers
  BY <1>2 DEF DiskOffers
<1>3. CASE DiskWrites
  BY <1>3 DEF DiskWrites
<1> QED BY <1>1, <1>2, <1>3

\* A status register with DRQ and nothing else.
LEMMA OnlyDRQ ==
  ASSUME NEW S, S \subseteq {"BSY", "DRQ", "ERR"}, "BSY" \notin S, "ERR" \notin S, "DRQ" \in S
  PROVE  S = {"DRQ"}
OBVIOUS

\* The driver's steps do.
LEMMA DriverKeepsInv ==
  ASSUME IdeInv, ide_rw_blks \/ \E r \in Requests : Enter(r)
  PROVE  IdeInv'
<1> USE IdeAssumption
    DEF IdeInv, TypeOK, MutexBalanced, OfferIsGood, DriverKnows, BusyWithABlock, ReadKept,
        device, Goto, Requests, Blocks
<1>1. ASSUME NEW r \in Requests, Enter(r) PROVE IdeInv'
  BY <1>1 DEF Enter, Return
<1>2. CASE Lock
  BY <1>2, SemaphoreArithmetic DEF Lock
<1>3. CASE select_dev
  <2>1. pc' = "command" \/ pc' = "fail"
    BY <1>3 DEF select_dev
  <2>2. pc' = "command" => status \cap {"BSY", "DRQ"} = {}
    BY <1>3 DEF select_dev
  <2> QED BY <1>3, <2>1, <2>2 DEF select_dev
<1>4. CASE Command
  BY <1>4 DEF Command
<1>5. CASE wait4ctrl
  <2>1. CASE "BSY" \notin status
    BY <1>5, <2>1 DEF wait4ctrl
  <2>2. CASE "BSY" \in status /\ timeout = 1
    BY <1>5, <2>2 DEF wait4ctrl
  <2>3. CASE "BSY" \in status /\ timeout # 1
    BY <1>5, <2>3 DEF wait4ctrl
  <2> QED BY <2>1, <2>2, <2>3
<1>6. CASE CheckWait
  <2>1. CASE pc' = "fail"
    BY <1>6, <2>1 DEF CheckWait
  <2>2. CASE pc' # "fail"
    <3>1. timeout # 0
      BY <1>6, <2>2, ZeroIsZero DEF CheckWait, Returned
    <3>2. "BSY" \notin status /\ "ERR" \notin status
      BY <1>6, <2>2, <3>1 DEF CheckWait, ErrSeen
    <3>3. pc' = IF request.type = "IO_WRITE" THEN "write" ELSE "sleep"
      BY <1>6, <2>2 DEF CheckWait
    <3>4. request.type = "IO_READ" => status = {"DRQ"}
      <4>1. pc = "waited" /\ status \subseteq {"BSY", "DRQ", "ERR"}
        BY <1>6 DEF CheckWait
      <4>2. request.type = "IO_READ" => "DRQ" \in status
        BY <3>2, <4>1
      <4>3. ASSUME "DRQ" \in status PROVE status = {"DRQ"}
        BY <3>2, <4>1, <4>3, OnlyDRQ
      <4> QED BY <4>2, <4>3
    <3> QED BY <1>6, <3>2, <3>3, <3>4 DEF CheckWait
  <2> QED BY <2>1, <2>2
<1>7. CASE WriteData
  <2>1. request.type # "IO_READ"
    BY <1>7 DEF WriteData
  <2> QED BY <1>7, <2>1 DEF WriteData
<1>8. CASE Sleep
  BY <1>8, SemaphoreArithmetic DEF Sleep
<1>9. CASE Check
  BY <1>9 DEF Check, ErrSeen
<1>10. CASE Copy
  BY <1>10 DEF Copy
<1>11. CASE Unlock
  BY <1>11, SemaphoreArithmetic DEF Unlock, Return
<1> QED
  BY <1>1, <1>2, <1>3, <1>4, <1>5, <1>6, <1>7, <1>8, <1>9, <1>10, <1>11 DEF ide_rw_blks

-----------------------------------------------------------------------------
LEMMA IdeInvariant == Spec => []IdeInv
<1>1. Init => IdeInv
  BY IdeAssumption
     DEF Init, IdeInv, TypeOK, MutexBalanced, OfferIsGood, DriverKnows, BusyWithABlock,
         ReadKept, Requests, Blocks
<1>2. IdeInv /\ [Next]_vars => IdeInv'
  <2>1. CASE Next
    BY <2>1, DiskKeepsInv, DriverKeepsInv DEF Next
  <2>2. CASE UNCHANGED vars
    BY <2>2 DEF vars, device, driver, IdeInv, TypeOK, MutexBalanced, OfferIsGood,
                DriverKnows, BusyWithABlock, ReadKept
  <2> QED BY <2>1, <2>2
<1> QED BY <1>1, <1>2, PTL DEF Spec

\* ide_rw_blks gives the mutex back on every path, the errors included.
THEOREM IdeMutexBalanced == Spec => []MutexBalanced
<1>1. IdeInv => MutexBalanced
  BY DEF IdeInv
<1> QED BY <1>1, IdeInvariant, PTL

\* A read does not report success without the block it was asked for, for any
\* disk that follows the protocol, however slow, and any timeout.
THEOREM IdeReadReturnsTheBlock == Spec => []ReadReturnsTheBlock
<1>1. IdeInv => ReadReturnsTheBlock
  BY DEF IdeInv, ReadKept, ReadReturnsTheBlock
<1> QED BY <1>1, IdeInvariant, PTL

\* The disk is commanded only when it is neither busy nor in a transfer.
THEOREM IdeCommandsAtRest == Spec => NoCommandInTransfer
<1>1. IdeInv /\ [Next]_vars => [Command => status \cap {"BSY", "DRQ"} = {}]_vars
  BY DEF IdeInv, DriverKnows, Command, Goto
<1> QED BY <1>1, IdeInvariant, PTL DEF Spec, NoCommandInTransfer

-----------------------------------------------------------------------------
(* Startup: the invariant.                                                 *)

\* The two files, where each is read to, and where the FAT is read to for it.
Files == {"LOADER", "KERNEL"}
BaseOf(x) == IF x = "LOADER" THEN BaseOfLoader ELSE BaseOfKernelFile
OffsetOf(x) == IF x = "LOADER" THEN OffsetOfLoader ELSE 0
FatOf(x) == BaseOf(x) - FAT_ROOM

\* The pieces of file x: a sector each.
LenOf(x) == Len(floppy[x].chain)

\* The first n pieces of file x are in memory.
PiecesRead(x, n) ==
  \A k \in 1 .. n : \A h \in 0 .. 1 :
    low[BaseOf(x) + OffsetOf(x) + 2 * (k - 1) + h] = <<Boot!SectorOf(x, k), h>>

\* Pieces up to n fit in the segment; or else its first piece has been written over.
UpTo(x, n) == OffsetOf(x) + 2 * n <= SEG
WrittenOver(x) == low[BaseOf(x) + OffsetOf(x)] # <<Boot!SectorOf(x, 1), 0>>

\* Piece j is the one to read.
AtPiece(x, j) ==
  j \in 1 .. LenOf(x) /\ ent = floppy[x].chain[j] /\ bx = (OffsetOf(x) + 2 * (j - 1)) % SEG

\* Of file x the pieces before n are in memory, or it is spoilt.
ReadBefore(x, n) ==
  \E j \in 1 .. LenOf(x) :
    /\ AtPiece(x, j)
    /\ UpTo(x, j) => PiecesRead(x, j - n)
    /\ ~UpTo(x, j - n) => WrittenOver(x)

\* An empty file: the cluster to read is 0.
NoChain(x) == floppy[x].chain = <<>> /\ ent = 0

\* What holds at each point of the search for file x and of its reading.
Reads(x) ==
  /\ at = "root" =>
       /\ wSectorNo = Boot!SecNoOfRootDir + (RootDirSectors - wRootDirSizeForLoop)
       /\ floppy[x].pos \div EntsPerSec >= RootDirSectors - wRootDirSizeForLoop
  /\ at = "none" => ~(floppy[x].pos < RootDirSectors * EntsPerSec)
  /\ at \in {"file", "fat", "loaded"} => floppy[x].pos < RootDirSectors * EntsPerSec
  /\ at = "file" => Boot!NoSector(ent) \/ NoChain(x) \/ ReadBefore(x, 1)
  /\ at = "fat" => NoChain(x) \/ ReadBefore(x, 0)
  /\ at = "loaded" =>
       /\ LenOf(x) # 0
       /\ UpTo(x, LenOf(x)) => PiecesRead(x, LenOf(x))
       /\ ~UpTo(x, LenOf(x)) => WrittenOver(x)

\* The types of the variables of a file's loading.
MemoryTypes ==
  /\ DOMAIN low = 0 .. LOW - 1
  /\ \A u \in DOMAIN low : low[u] = Boot!Nothing \/ low[u] \in Nat \X {0, 1}
FileTypes ==
  /\ at \in {"root", "file", "fat", "loaded", "none"}
  /\ wRootDirSizeForLoop \in 0 .. RootDirSectors
  /\ wSectorNo \in Boot!SecNoOfRootDir .. Boot!FirstDataSector
  /\ ent \in 0 .. Boot!EOF - 1 /\ bx \in 0 .. SEG - 1

\* What stays true of file x while it is looked for and read.
FileOK(x) == FileTypes /\ MemoryTypes /\ Reads(x) /\ (x = "KERNEL" => bx % 2 = 0)

\* The loader reads the kernel and does not lose itself.
FilesInv ==
  /\ stage = "boot" => FileOK("LOADER")
  /\ stage # "boot" => FileOK("KERNEL") /\ PiecesRead("LOADER", LenOf("LOADER"))
  /\ stage \notin {"boot", "memchk", "loader"} => at = "loaded"

\* The types of the variables that no file is loaded with.
OtherTypes ==
  /\ floppy \in Floppies /\ e820 \in MemoryMaps /\ stage \in Stages
  /\ asked \in 0 .. Len(e820.list) /\ dwMCRNumber \in 0 .. asked
  /\ dwMemSize \in 0 .. WORD - 1 /\ a20 \in BOOLEAN
  /\ DOMAIN high = 2 * MB .. HIGH - 1
  /\ \A c \in DOMAIN high : high[c].kind \in {"blank", "frame", "low"}
  /\ ecx \in 0 .. Len(phdr) /\ esi \in 0 .. Len(phdr) + 1

\* The parts of the loader that run in protected mode.
Protected == {"meminfo", "paging", "initkernel", "segments", "kernel"}

\* The loader has all of the map, or none of it.
AskedInv ==
  IF e820.cf
  THEN /\ stage \in {"loader", "meminfo"} => dwMCRNumber = 0
       /\ stage \notin {"paging", "initkernel", "segments", "kernel"}
  ELSE /\ dwMCRNumber = asked
       /\ stage = "boot" => asked = 0
       /\ stage = "memchk" => asked < Len(e820.list)
       /\ stage \notin {"boot", "memchk"} => asked # 0

\* The size of the memory is the greatest of the ends.
SizeInv ==
  stage \in {"paging", "initkernel", "segments", "kernel"} =>
    dwMemSize \in Ends(e820.list) \cup {0} /\ \A e \in Ends(e820.list) : e <= dwMemSize

\* What the entries that the loader writes have in cell c.
InTables(c) ==
  LET n == Tables(dwMemSize)
  IN /\ c - PageDirBase \in 0 .. n - 1 => high[c] = Frame(PageTblBase \div PAGE + (c - PageDirBase))
     /\ c - PageTblBase \in 0 .. n * PAGE - 1 => high[c] = Frame(c - PageTblBase)

\* The tables are in order as far as the kernel does not come to lie on them.
TablesInv ==
  /\ stage \in Protected => a20
  /\ stage \in {"initkernel", "segments", "kernel"} => \A c \in DOMAIN high : c < KernelEntryPoint => InTables(c)

\* Unit u of the kernel's file.
KernelUnit(u) == <<Boot!SectorOf("KERNEL", u \div 2 + 1), u % 2>>

\* The segments before the header that comes next are where they are linked.
CopiedInv ==
  /\ stage = "segments" => esi + ecx = Len(phdr) + 1 /\ ecx # 0
  /\ stage = "kernel" => esi = Len(phdr) + 1
  /\ stage \in {"segments", "kernel"} =>
       /\ HeadersThere
       /\ \A n \in Copied(phdr) : n < esi =>
            \A c \in Target(phdr[n]) : high[c] = Cell("low", KernelUnit(c - phdr[n].vaddr + phdr[n].offset))

\* The inductive invariant.
StartupInv ==
  OtherTypes /\ FilesInv /\ AskedInv /\ SizeInv /\ TablesInv /\ CopiedInv /\ WildOnlyIf

-----------------------------------------------------------------------------
\* Quotient and remainder.
LEMMA Division ==
  ASSUME NEW a \in Nat, NEW b \in Nat \ {0}
  PROVE  /\ a \div b \in Nat /\ a % b \in 0 .. b - 1
         /\ a = b * (a \div b) + (a % b)
OBVIOUS

\* The cylinder, head and sector that ReadSector computes are those of the
\* sector it was asked for.
LEMMA ChsIsLinear ==
  ASSUME NEW ax \in Nat
  PROVE  LET chs == Boot!ChsOf(ax)
         IN (chs.cylinder * NumHeads + chs.head) * SecPerTrk + chs.sector - 1 = ax
<1> DEFINE q == ax \div SecPerTrk
<1>1. q \in Nat /\ ax = SecPerTrk * q + (ax % SecPerTrk) /\ ax % SecPerTrk \in Nat
  BY GeometryAssumption, Division
<1>2. (q \div 2) * 2 + (q % 2) = q
  BY <1>1
<1> QED BY GeometryAssumption, <1>1, <1>2 DEF Boot!ChsOf

\* No more than is on the floppy is read.
LEMMA NotBeyondTheEnd ==
  ASSUME NEW ax \in Nat, Boot!OnFloppy(Boot!ChsOf(ax), 1)
  PROVE  ax < Cylinders * NumHeads * SecPerTrk
<1> DEFINE q == ax \div SecPerTrk
<1>1. q \in Nat /\ ax = SecPerTrk * q + (ax % SecPerTrk) /\ ax % SecPerTrk \in 0 .. SecPerTrk - 1
  BY GeometryAssumption, Division
<1>2. q \div 2 < Cylinders
  BY DEF Boot!OnFloppy, Boot!ChsOf
<1>3. q + 1 <= Cylinders * 2
  BY GeometryAssumption, <1>1, <1>2
<1>4. SecPerTrk * (q + 1) <= SecPerTrk * (Cylinders * 2)
  <2> DEFINE d == Cylinders * 2 - (q + 1)
  <2>1. d \in Nat /\ Cylinders * 2 = (q + 1) + d
    BY GeometryAssumption, <1>1, <1>3
  <2>2. SecPerTrk * d >= 0
    BY GeometryAssumption, <2>1
  <2>3. SecPerTrk * ((q + 1) + d) = SecPerTrk * (q + 1) + SecPerTrk * d
    BY GeometryAssumption, <2>1, <1>1
  <2> QED BY GeometryAssumption, <1>1, <2>1, <2>2, <2>3
<1>5. SecPerTrk * (q + 1) = SecPerTrk * q + SecPerTrk
  BY GeometryAssumption, <1>1
<1>6. SecPerTrk * (Cylinders * 2) = Cylinders * NumHeads * SecPerTrk
  BY GeometryAssumption
<1> QED BY GeometryAssumption, <1>1, <1>4, <1>5, <1>6

\* What Boot!ReadSector leaves in memory.
LEMMA ReadSectorReads ==
  ASSUME NEW ax \in Nat, NEW cl \in Nat, NEW to \in Nat, NEW u \in DOMAIN low,
         Boot!ReadSector(ax, cl, to)
  PROVE  /\ u \in to .. to + 2 * cl - 1 => low'[u] = <<ax + ((u - to) \div 2), (u - to) % 2>>
         /\ u \notin to .. to + 2 * cl - 1 => low'[u] = low[u]
BY ChsIsLinear DEF Boot!ReadSector, Boot!Transferred

-----------------------------------------------------------------------------
\* The number that ends a chain has three digits.
LEMMA EOFIs == Boot!EOF = 4095 /\ Boot!Nibble = 16
BY DEF Boot!EOF, Boot!Nibble

\* A link of a chain names a file and a place in it.
LEMMA LinksAre ==
  ASSUME NEW l \in Boot!Links
  PROVE  /\ l[1] \in DOMAIN floppy /\ l[2] \in DOMAIN floppy[l[1]].chain
         /\ l = <<l[1], l[2]>>
BY DEF Boot!Links

\* Entries of the FAT: those of chains are neither 0 nor the last number.
LEMMA Entries ==
  ASSUME NEW v
  PROVE  /\ v \in 2 .. Boot!EOF => v \in 0 .. Boot!EOF
         /\ v \in 2 .. Boot!EOF - 1 => v \in 2 .. Boot!EOF /\ v # 0 /\ v # Boot!EOF /\ v \in Nat
         /\ v \in 2 .. Boot!EOF /\ v # Boot!EOF => v \in 0 .. Boot!EOF - 1
<1>1. ASSUME v \in 2 .. Boot!EOF PROVE v \in 0 .. Boot!EOF
  BY <1>1, EOFIs
<1>2. ASSUME v \in 2 .. Boot!EOF - 1 PROVE v \in 2 .. Boot!EOF /\ v # 0 /\ v # Boot!EOF /\ v \in Nat
  <2>1. Boot!EOF \in Int
    BY EOFIs
  <2>2. v \in Int /\ 2 <= v /\ v <= Boot!EOF - 1
    BY <1>2, <2>1
  <2> HIDE <1>2
  <2> QED BY <2>1, <2>2
<1>3. ASSUME v \in 2 .. Boot!EOF, v # Boot!EOF PROVE v \in 0 .. Boot!EOF - 1
  <2>1. Boot!EOF \in Int
    BY EOFIs
  <2>2. v \in Int /\ 2 <= v /\ v <= Boot!EOF /\ v # Boot!EOF
    BY <1>3, <2>1
  <2> HIDE <1>3
  <2> QED BY <2>1, <2>2
<1> QED BY <1>1, <1>2, <1>3

\* The elements of a sequence.
LEMMA ElementOfSeq ==
  ASSUME NEW S, NEW c \in Seq(S)
  PROVE  Len(c) \in Nat /\ DOMAIN c = 1 .. Len(c) /\ \A k \in DOMAIN c : c[k] \in S
OBVIOUS

\* The chain of a file on a floppy in order.
LEMMA WellFormedChain ==
  ASSUME Boot!WellFormed(floppy), NEW f \in DOMAIN floppy
  PROVE  /\ floppy[f].end \in 2 .. Boot!EOF
         /\ Len(floppy[f].chain) \in Nat
         /\ DOMAIN floppy[f].chain = 1 .. Len(floppy[f].chain)
         /\ \A k \in DOMAIN floppy[f].chain : floppy[f].chain[k] \in 2 .. Boot!EOF - 1
<1>1. floppy[f].end \in 2 .. Boot!EOF /\ floppy[f].chain \in Seq(2 .. Boot!EOF - 1)
  BY DEF Boot!WellFormed
<1> QED BY <1>1, ElementOfSeq

\* An entry has three digits.
LEMMA SuccessorInRange ==
  ASSUME Boot!WellFormed(floppy), NEW c \in Nat
  PROVE  Boot!Successor(c) \in 0 .. Boot!EOF
<1> DEFINE l == CHOOSE x \in Boot!LinksWith(c) : TRUE
<1>1. CASE c = 0
  BY <1>1, EOFIs DEF Boot!Successor
<1>2. CASE c # 0 /\ Boot!LinksWith(c) = {}
  BY <1>2, EOFIs DEF Boot!Successor
<1>3. CASE c # 0 /\ Boot!LinksWith(c) # {}
  <2>1. l \in Boot!LinksWith(c)
    BY <1>3
  <2>2. l[1] \in DOMAIN floppy /\ l[2] \in DOMAIN floppy[l[1]].chain
    BY <2>1, LinksAre DEF Boot!LinksWith
  <2> DEFINE chain == floppy[l[1]].chain
  <2>3. Boot!Successor(c) = IF l[2] = Len(chain) THEN floppy[l[1]].end ELSE chain[l[2] + 1]
    BY <1>3 DEF Boot!Successor
  <2>4. l[2] # Len(chain) => l[2] + 1 \in DOMAIN chain
    BY <2>2, WellFormedChain
  <2>5. floppy[l[1]].end \in 0 .. Boot!EOF
    BY <2>2, WellFormedChain, Entries
  <2>6. \A k \in DOMAIN chain : chain[k] \in 0 .. Boot!EOF
    BY <2>2, WellFormedChain, Entries
  <2> HIDE DEF chain, l
  <2> QED BY <2>3, <2>4, <2>5, <2>6
<1> QED BY <1>1, <1>2, <1>3

\* The entry of a cluster of a chain is the next one.
LEMMA SuccessorFollowsChain ==
  ASSUME Boot!WellFormed(floppy), NEW f \in DOMAIN floppy, NEW k \in DOMAIN floppy[f].chain
  PROVE  Boot!Successor(floppy[f].chain[k]) =
           IF k = Len(floppy[f].chain) THEN floppy[f].end ELSE floppy[f].chain[k + 1]
<1> DEFINE c == floppy[f].chain[k]
           l == CHOOSE x \in Boot!LinksWith(c) : TRUE
<1>1. c \in 2 .. Boot!EOF - 1
  BY WellFormedChain
<1>2. <<f, k>> \in Boot!LinksWith(c)
  BY DEF Boot!LinksWith, Boot!Links
<1>3. l \in Boot!LinksWith(c)
  BY <1>2
<1>4. l \in Boot!Links /\ floppy[l[1]].chain[l[2]] = c
  BY <1>3 DEF Boot!LinksWith
<1>5. l[1] = f /\ l[2] = k
  <2>1. l[1] \in DOMAIN floppy /\ l[2] \in DOMAIN floppy[l[1]].chain
    BY <1>4, LinksAre
  <2> HIDE DEF l
  <2>2. \A g \in DOMAIN floppy : \A j \in DOMAIN floppy[g].chain :
          floppy[f].chain[k] = floppy[g].chain[j] => f = g /\ k = j
    BY DEF Boot!WellFormed
  <2> QED BY <1>4, <2>1, <2>2
<1>6. Boot!LinksWith(c) # {}
  BY <1>2
<1> HIDE DEF l
<1>8. c # 0
  BY <1>1, Entries
<1>7. Boot!Successor(c) = IF l[2] = Len(floppy[l[1]].chain) THEN floppy[l[1]].end ELSE floppy[l[1]].chain[l[2] + 1]
  BY <1>8, <1>6 DEF Boot!Successor, l
<1> QED BY <1>5, <1>7
-----------------------------------------------------------------------------
(* The two programs load a file by the same code.                          *)

\* The steps of loading file x, as both programs make them.
FatEntry(fat) ==
  LET offset == (3 * ent) \div 2
      Byte(o) == Boot!ByteOf(low'[fat + 2 * (o \div BytsPerSec)][1], o % BytsPerSec)
      word == Byte(offset % BytsPerSec) + Boot!Nibble * Boot!Nibble * Byte((offset % BytsPerSec) + 1)
  IN (IF (3 * ent) % 2 = 1 THEN word \div Boot!Nibble ELSE word) % (Boot!EOF + 1)

SearchOf(x) ==
  /\ at = "root" /\ wRootDirSizeForLoop # 0
  /\ wRootDirSizeForLoop' = wRootDirSizeForLoop - 1
  /\ Boot!ReadSector(wSectorNo, 1, BaseOf(x) + OffsetOf(x))
  /\ IF x \in Boot!EntriesOf(low'[BaseOf(x) + OffsetOf(x)][1])
     THEN at' = "file" /\ ent' = Boot!FirstCluster(x) /\ bx' = OffsetOf(x) /\ UNCHANGED wSectorNo
     ELSE wSectorNo' = wSectorNo + 1 /\ UNCHANGED <<at, ent, bx>>

NoFileOf(x) ==
  /\ at = "root" /\ wRootDirSizeForLoop = 0
  /\ at' = "none"
  /\ UNCHANGED <<wRootDirSizeForLoop, wSectorNo, ent, bx, low>>

ReadOf(x) ==
  /\ at = "file"
  /\ Boot!ReadSector(ent + RootDirSectors + Boot!DeltaSecNo, 1, BaseOf(x) + bx)
  /\ at' = "fat"
  /\ UNCHANGED <<wRootDirSizeForLoop, wSectorNo, ent, bx>>

FollowOf(x) ==
  /\ at = "fat"
  /\ Boot!ReadSector(1 + ((3 * ent) \div 2) \div BytsPerSec, 2, FatOf(x))
  /\ IF FatEntry(FatOf(x)) = Boot!EOF THEN at' = "loaded" /\ UNCHANGED <<ent, bx>>
     ELSE at' = "file" /\ ent' = FatEntry(FatOf(x)) /\ bx' = (bx + 2) % SEG
  /\ UNCHANGED <<wRootDirSizeForLoop, wSectorNo>>

RereadOf(x) ==
  /\ \/ at = "root" /\ low' = Boot!Garbled(1, BaseOf(x) + OffsetOf(x))
     \/ at = "file" /\ low' = Boot!Garbled(1, BaseOf(x) + bx)
     \/ at = "fat" /\ low' = Boot!Garbled(2, FatOf(x))
  /\ UNCHANGED <<at, wRootDirSizeForLoop, wSectorNo, ent, bx>>

\* Both programs know the same floppy: its numbers, ...
LEMMA LoaderConstants ==
  /\ Loader!Nibble = Boot!Nibble /\ Loader!EOF = Boot!EOF
  /\ Loader!SecNoOfRootDir = Boot!SecNoOfRootDir /\ Loader!FirstDataSector = Boot!FirstDataSector
  /\ Loader!DeltaSecNo = Boot!DeltaSecNo /\ Loader!SecNoOfFAT1 = 1 /\ Boot!SecNoOfFAT1 = 1
BY DEF Loader!Nibble, Boot!Nibble, Loader!EOF, Boot!EOF, Loader!SecNoOfRootDir, Boot!SecNoOfRootDir,
       Loader!FirstDataSector, Boot!FirstDataSector, Loader!DeltaSecNo, Boot!DeltaSecNo,
       Loader!SecNoOfFAT1, Boot!SecNoOfFAT1

\* ... what a read of it does, ...
LEMMA LoaderReads ==
  ASSUME NEW ax, NEW cl, NEW to
  PROVE  /\ Loader!ReadSector(ax, cl, to) <=> Boot!ReadSector(ax, cl, to)
         /\ Loader!Garbled(cl, to) = Boot!Garbled(cl, to)
<1>1. Loader!ChsOf(ax) = Boot!ChsOf(ax)
  BY DEF Loader!ChsOf, Boot!ChsOf
<1>2. Loader!Transferred(Boot!ChsOf(ax), cl, to) = Boot!Transferred(Boot!ChsOf(ax), cl, to)
  BY DEF Loader!Transferred, Boot!Transferred
<1>3. Loader!OnFloppy(Boot!ChsOf(ax), cl) <=> Boot!OnFloppy(Boot!ChsOf(ax), cl)
  BY DEF Loader!OnFloppy, Boot!OnFloppy
<1>4. Loader!Garbled(cl, to) = Boot!Garbled(cl, to)
  BY DEF Loader!Garbled, Boot!Garbled, Loader!Nothing, Boot!Nothing
<1> QED BY <1>1, <1>2, <1>3, <1>4 DEF Loader!ReadSector, Boot!ReadSector

\* ... the sectors of its files, ...
LEMMA LoaderSectors ==
  /\ \A f, k : Loader!SectorOf(f, k) = Boot!SectorOf(f, k)
  /\ \A n : Loader!EntriesOf(n) = Boot!EntriesOf(n)
  /\ \A f : Loader!FirstCluster(f) = Boot!FirstCluster(f)
BY LoaderConstants DEF Loader!SectorOf, Boot!SectorOf, Loader!EntriesOf, Boot!EntriesOf,
   Loader!FirstCluster, Boot!FirstCluster

\* ... the bytes of its FAT ...
LEMMA LoaderBytes == \A n, o : Loader!ByteOf(n, o) = Boot!ByteOf(n, o)
<1>1. Loader!Links = Boot!Links
  BY DEF Loader!Links, Boot!Links
<1>2. \A c : Loader!LinksWith(c) = Boot!LinksWith(c)
  BY <1>1 DEF Loader!LinksWith, Boot!LinksWith
<1>3. ASSUME NEW c PROVE Loader!Successor(c) = Boot!Successor(c)
  <2>1. (CHOOSE x \in Loader!LinksWith(c) : TRUE) = (CHOOSE x \in Boot!LinksWith(c) : TRUE)
    BY <1>2
  <2> QED BY <2>1, <1>2, LoaderConstants DEF Loader!Successor, Boot!Successor
<1>4. \A k : Loader!FatByte(k) = Boot!FatByte(k)
  BY <1>3, LoaderConstants DEF Loader!FatByte, Boot!FatByte
<1> QED BY <1>4, LoaderConstants DEF Loader!ByteOf, Boot!ByteOf

\* ... and the entries that GetFATEntry makes of them.
LEMMA FatOfLoader ==
  /\ Boot!GetFATEntry(low') = FatEntry(FatOf("LOADER"))
  /\ Loader!GetFATEntry(low') = FatEntry(FatOf("KERNEL"))
<1>1. Boot!GetFATEntry(low') = FatEntry(FatOf("LOADER"))
  BY DEF Boot!GetFATEntry, FatEntry, FatOf, BaseOf
<1>2. Loader!GetFATEntry(low') = FatEntry(FatOf("KERNEL"))
  BY LoaderBytes, LoaderConstants DEF Loader!GetFATEntry, FatEntry, FatOf, BaseOf
<1> QED BY <1>1, <1>2

\* The steps of boot.S are those of loading LOADER.BIN, ...
LEMMA BootSteps ==
  /\ BootSearch => SearchOf("LOADER")
  /\ BootNoLoader => NoFileOf("LOADER")
  /\ BootRead => ReadOf("LOADER")
  /\ BootFAT => FollowOf("LOADER")
  /\ BootRereads => RereadOf("LOADER")
<1>1. BootSearch => SearchOf("LOADER")
  BY DEF BootSearch, Boot!SearchInRootDir, SearchOf, Boot!SectorToRead, Boot!ReadTo, BaseOf, OffsetOf
<1>2. BootNoLoader => NoFileOf("LOADER")
  BY DEF BootNoLoader, Boot!NoFile, NoFileOf
<1>3. BootRead => ReadOf("LOADER")
  BY DEF BootRead, Boot!ReadOfFile, ReadOf, Boot!SectorToRead, Boot!ReadTo, BaseOf
<1>4. BootFAT => FollowOf("LOADER")
  BY FatOfLoader, LoaderConstants DEF BootFAT, Boot!FollowChain, FollowOf, Boot!SectorToRead, Boot!ReadTo, BaseOf, FatOf
<1>5. BootRereads => RereadOf("LOADER")
  BY DEF BootRereads, Boot!GoOnReading, Boot!Reading, RereadOf, Boot!SectorsToRead, Boot!ReadTo, BaseOf, OffsetOf, FatOf
<1> QED BY <1>1, <1>2, <1>3, <1>4, <1>5

\* ... and those of loader.S the same of loading KERNEL.BIN.
LEMMA LoaderSteps ==
  /\ LoaderSearch => SearchOf("KERNEL")
  /\ LoaderNoKernel => NoFileOf("KERNEL")
  /\ LoaderRead => ReadOf("KERNEL")
  /\ LoaderFAT => FollowOf("KERNEL")
  /\ LoaderRereads => RereadOf("KERNEL")
<1>1. LoaderSearch => SearchOf("KERNEL")
  BY LoaderReads, LoaderSectors
  DEF LoaderSearch, Loader!SearchInRootDir, SearchOf, Loader!SectorToRead, Loader!ReadTo, BaseOf, OffsetOf
<1>2. LoaderNoKernel => NoFileOf("KERNEL")
  BY DEF LoaderNoKernel, Loader!NoFile, NoFileOf
<1>3. LoaderRead => ReadOf("KERNEL")
  BY LoaderReads, LoaderConstants DEF LoaderRead, Loader!ReadOfFile, ReadOf, Loader!SectorToRead, Loader!ReadTo, BaseOf
<1>4. LoaderFAT => FollowOf("KERNEL")
  BY FatOfLoader, LoaderReads, LoaderConstants
  DEF LoaderFAT, Loader!FollowChain, FollowOf, Loader!SectorToRead, Loader!ReadTo, BaseOf, FatOf
<1>5. LoaderRereads => RereadOf("KERNEL")
  BY LoaderReads
  DEF LoaderRereads, Loader!GoOnReading, Loader!Reading, RereadOf, Loader!SectorsToRead, Loader!ReadTo, BaseOf, OffsetOf, FatOf
<1> QED BY <1>1, <1>2, <1>3, <1>4, <1>5

-----------------------------------------------------------------------------
(* What GetFATEntry computes.                                              *)

\* A multiple is at least a step behind a smaller one.
LEMMA Multiples ==
  ASSUME NEW b \in Nat, NEW p \in Nat, NEW q \in Nat, p < q
  PROVE  b * p + b <= b * q
<1> DEFINE d == q - p - 1
<1>1. d \in Nat /\ q = p + 1 + d
  OBVIOUS
<1>2. b * d \in Nat
  BY <1>1
<1>3. b * (p + 1 + d) = b * p + b + b * d
  BY <1>1
<1> QED BY <1>1, <1>2, <1>3

\* There is only one quotient and remainder.
LEMMA DivisionIs ==
  ASSUME NEW a \in Nat, NEW b \in Nat \ {0}, NEW q \in Nat, NEW r \in 0 .. b - 1, a = b * q + r
  PROVE  a \div b = q /\ a % b = r
<1> DEFINE d == a \div b
           m == a % b
<1>1. d \in Nat /\ m \in 0 .. b - 1 /\ a = b * d + m
  BY Division
<1> HIDE DEF d, m
<1>2. b * d \in Nat /\ b * q \in Nat
  BY <1>1
<1>3. ~ d < q
  BY <1>1, <1>2, Multiples
<1>4. ~ q < d
  BY <1>1, <1>2, Multiples
<1>5. d = q
  BY <1>1, <1>3, <1>4
<1>6. m = r
  BY <1>1, <1>2, <1>5
<1> QED BY <1>5, <1>6 DEF d, m

\* The byte o bytes on from the beginning of the sector with byte n.
LEMMA ByteNearBy ==
  ASSUME NEW n \in Nat, NEW i \in 0 .. 1, NEW b \in Nat \ {0}
  PROVE  LET o == (n % b) + i
         IN /\ o \div b \in 0 .. 1
            /\ (n + i) \div b = n \div b + o \div b
            /\ (n + i) % b = o % b
<1> DEFINE q == n \div b
           r == n % b
           o == r + i
<1>1. q \in Nat /\ r \in 0 .. b - 1 /\ n = b * q + r
  BY Division
<1>2. b * q \in Nat /\ b * (q + 1) = b * q + b
  BY <1>1
<1>3. o \in Nat /\ b * 0 = 0 /\ b * 1 = b
  BY <1>1
<1> HIDE DEF q, r
<1>4. CASE o < b
  <2>1. o \div b = 0 /\ o % b = o
    BY <1>3, <1>4, DivisionIs, 0 \in Nat, o \in 0 .. b - 1
  <2>2. n + i = b * q + o
    BY <1>1, <1>2
  <2>3. (n + i) \div b = q /\ (n + i) % b = o
    BY <2>2, <1>1, <1>3, <1>4, DivisionIs, o \in 0 .. b - 1, n + i \in Nat
  <2> QED BY <1>1, <2>1, <2>3 DEF q, r
<1>5. CASE ~ o < b
  <2>1. o = b
    BY <1>1, <1>5
  <2>2. o \div b = 1 /\ o % b = 0
    BY <1>3, <2>1, DivisionIs, 0 \in 0 .. b - 1, o = b * 1 + 0, 1 \in Nat
  <2>3. n + i = b * (q + 1) + 0
    BY <1>1, <1>2, <2>1
  <2>4. (n + i) \div b = q + 1 /\ (n + i) % b = 0
    BY <2>3, <1>1, DivisionIs, 0 \in 0 .. b - 1, n + i \in Nat, q + 1 \in Nat
  <2> QED BY <1>1, <2>2, <2>4 DEF q, r
<1> QED BY <1>4, <1>5

\* Byte n of the FAT is where division by the size of a sector says.
LEMMA ByteOfFAT ==
  ASSUME NEW n \in Nat, n < FATSz * BytsPerSec
  PROVE  Boot!ByteOf(1 + n \div BytsPerSec, n % BytsPerSec) = Boot!FatByte(n)
<1> DEFINE b == BytsPerSec
           q == n \div b
           r == n % b
<1>1. b \in Nat \ {0} /\ FATSz \in Nat \ {0} /\ NumFATs \in Nat \ {0} /\ n < b * FATSz
  BY GeometryAssumption
<1>2. q \in Nat /\ r \in 0 .. b - 1 /\ n = b * q + r
  BY Division, <1>1
<1> HIDE DEF q, r, b
<1>3. q < FATSz
  <2> SUFFICES ASSUME ~ q < FATSz PROVE FALSE
    OBVIOUS
  <2>1. q = FATSz => b * FATSz <= b * q
    BY <1>1
  <2>2. FATSz < q => b * FATSz + b <= b * q
    BY <1>1, <1>2, Multiples
  <2>3. b * FATSz \in Nat /\ b * q \in Nat
    BY <1>1, <1>2
  <2> QED BY <1>1, <1>2, <2>1, <2>2, <2>3
<1>4. q % FATSz = q
  BY <1>1, <1>2, <1>3
<1>5. FATSz <= NumFATs * FATSz
  <2>1. NumFATs = 1 => FATSz <= NumFATs * FATSz
    BY <1>1
  <2>2. 1 < NumFATs => FATSz * 1 + FATSz <= FATSz * NumFATs
    BY <1>1, Multiples
  <2> QED BY <1>1, <2>1, <2>2
<1>6. NumFATs * FATSz \in Nat /\ Boot!SecNoOfFAT1 = 1
  BY <1>1 DEF Boot!SecNoOfFAT1
<1>7. (1 + q) \in Boot!SecNoOfFAT1 .. Boot!SecNoOfRootDir - 1
  BY <1>1, <1>2, <1>3, <1>5, <1>6 DEF Boot!SecNoOfRootDir
<1>8. q * b + r = n /\ (1 + q) - 1 = q
  BY <1>1, <1>2
<1>9. Boot!ByteOf(1 + q, r) = Boot!FatByte((((1 + q) - Boot!SecNoOfFAT1) % FATSz) * b + r)
  BY <1>7 DEF Boot!ByteOf, b
<1> QED BY <1>4, <1>6, <1>8, <1>9 DEF q, r, b

\* Where the entry of a cluster begins, the word that is there, and the three of
\* its digits that are the entry.
ByteAt(e) == (3 * e) \div 2
WordAt(o) == Boot!FatByte(o) + 256 * Boot!FatByte(o + 1)
DigitsOf(e, w) == (IF (3 * e) % 2 = 1 THEN w \div 16 ELSE w) % 4096

\* The two bytes at 3 * e / 2 have the entry of e.
LEMMA EntryInBytes ==
  ASSUME NEW e \in Nat, Boot!WellFormed(floppy)
  PROVE  DigitsOf(e, WordAt(ByteAt(e))) = Boot!Successor(e)
<1> DEFINE offset == ByteAt(e)
<1>1. PICK m \in Nat : e = 2 * m \/ e = 2 * m + 1
  <2>1. e \div 2 \in Nat /\ (e = 2 * (e \div 2) \/ e = 2 * (e \div 2) + 1)
    OBVIOUS
  <2> QED BY <2>1
<1>0. 2 * m \in Nat /\ 2 * m + 1 \in Nat /\ 0 .. Boot!EOF = 0 .. 4095
  BY EOFIs
<1>a. Boot!Successor(2 * m) \in 0 .. Boot!EOF
  BY <1>0, SuccessorInRange
<1>b. Boot!Successor(2 * m + 1) \in 0 .. Boot!EOF
  BY <1>0, SuccessorInRange
<1>c. PICK even \in 0 .. 4095 : even = Boot!Successor(2 * m)
  BY <1>0, <1>a
<1>2. PICK odd \in 0 .. 4095 : odd = Boot!Successor(2 * m + 1)
  BY <1>0, <1>b
<1>3. Boot!FatByte(3 * m) = even % 256
  <2>1. (3 * m) % 3 = 0 /\ (3 * m) \div 3 = m
    BY <1>1
  <2> QED BY <2>1, <1>c, <1>2, EOFIs DEF Boot!FatByte
<1>4. Boot!FatByte(3 * m + 1) = even \div 256 + 16 * (odd % 16)
  <2>1. (3 * m + 1) % 3 = 1 /\ (3 * m + 1) \div 3 = m
    BY <1>1
  <2> QED BY <2>1, <1>c, <1>2, EOFIs DEF Boot!FatByte
<1>5. Boot!FatByte(3 * m + 2) = odd \div 16
  <2>1. (3 * m + 2) % 3 = 2 /\ (3 * m + 2) \div 3 = m
    BY <1>1
  <2> QED BY <2>1, <1>c, <1>2, EOFIs DEF Boot!FatByte
<1>6. CASE e = 2 * m
  <2>1. offset = 3 * m /\ offset + 1 = 3 * m + 1 /\ (3 * e) % 2 = 0
    BY <1>6 DEF ByteAt
  <2> HIDE DEF offset
  <2>2. ((even % 256) + 256 * (even \div 256 + 16 * (odd % 16))) % 4096 = even
    OBVIOUS
  <2>3. even = Boot!Successor(e)
    BY <1>6, <1>c
  <2>4. Boot!FatByte(offset) = even % 256 /\ Boot!FatByte(offset + 1) = even \div 256 + 16 * (odd % 16)
    BY <1>3, <1>4, <2>1
  <2>5. DigitsOf(e, WordAt(offset)) = WordAt(offset) % 4096
    BY <2>1 DEF DigitsOf
  <2> QED BY <2>2, <2>3, <2>4, <2>5 DEF WordAt, offset
<1>7. CASE e = 2 * m + 1
  <2>1. offset = 3 * m + 1 /\ offset + 1 = 3 * m + 2 /\ (3 * e) % 2 = 1
    BY <1>7 DEF ByteAt
  <2> HIDE DEF offset
  <2>2. (((even \div 256 + 16 * (odd % 16)) + 256 * (odd \div 16)) \div 16) % 4096 = odd
    OBVIOUS
  <2>3. odd = Boot!Successor(e)
    BY <1>7, <1>2
  <2>4. Boot!FatByte(offset) = even \div 256 + 16 * (odd % 16) /\ Boot!FatByte(offset + 1) = odd \div 16
    BY <1>4, <1>5, <2>1
  <2>5. DigitsOf(e, WordAt(offset)) = (WordAt(offset) \div 16) % 4096
    BY <2>1 DEF DigitsOf
  <2> QED BY <2>2, <2>3, <2>4, <2>5 DEF WordAt, offset
<1> QED BY <1>1, <1>6, <1>7

\* Two sectors that were read.
LEMMA TwoSectorsRead ==
  ASSUME NEW ax \in Nat, NEW to \in Nat, NEW u \in DOMAIN low, u \in to .. to + 3,
         Boot!ReadSector(ax, 2, to)
  PROVE  low'[u] = <<ax + ((u - to) \div 2), (u - to) % 2>>
<1>1. u \in to .. to + 2 * 2 - 1 /\ 2 \in Nat
  OBVIOUS
<1> QED BY <1>1, ReadSectorReads

\* GetFATEntry returns the entry, wherever in its sectors it is.
LEMMA GetFATEntryIs ==
  ASSUME Boot!WellFormed(floppy), DOMAIN low = 0 .. LOW - 1, ent \in Nat,
         (3 * ent) \div 2 + 1 < FATSz * BytsPerSec,
         NEW fat \in Nat, fat + 3 < LOW,
         Boot!ReadSector(1 + ((3 * ent) \div 2) \div BytsPerSec, 2, fat)
  PROVE  FatEntry(fat) = Boot!Successor(ent)
<1> DEFINE offset == (3 * ent) \div 2
           s == 1 + offset \div BytsPerSec
           Byte(o) == Boot!ByteOf(low'[fat + 2 * (o \div BytsPerSec)][1], o % BytsPerSec)
<1>1. offset \in Nat /\ BytsPerSec \in Nat \ {0} /\ offset + 1 < FATSz * BytsPerSec
  BY GeometryAssumption
<1>2. s \in Nat
  <2>1. offset \div BytsPerSec \in Nat
    <3> HIDE DEF offset
    <3> QED BY <1>1, Division
  <2> QED BY <2>1
<1>3. FATSz * BytsPerSec \in Nat
  BY GeometryAssumption
<1>4. \A i \in 0 .. 1 : low'[fat + 2 * i][1] = s + i
  <2> TAKE i \in 0 .. 1
  <2> DEFINE u == fat + 2 * i
  <2>1. u \in DOMAIN low /\ u \in fat .. fat + 3 /\ (u - fat) \div 2 = i
    BY LayoutAssumption
  <2>2. Boot!ReadSector(s, 2, fat)
    OBVIOUS
  <2> HIDE DEF s, u
  <2>3. low'[u] = <<s + ((u - fat) \div 2), (u - fat) % 2>>
    BY <1>2, <2>1, <2>2, TwoSectorsRead, Zenon
  <2>4. low'[u] = <<s + i, (u - fat) % 2>>
    BY <2>1, <2>3
  <2> QED BY <2>4 DEF u
<1>5. \A i \in 0 .. 1 : Byte((offset % BytsPerSec) + i) = Boot!FatByte(offset + i)
  <2> TAKE i \in 0 .. 1
  <2> DEFINE o == (offset % BytsPerSec) + i
  <2>1. /\ o \div BytsPerSec \in 0 .. 1
        /\ (offset + i) \div BytsPerSec = offset \div BytsPerSec + o \div BytsPerSec
        /\ (offset + i) % BytsPerSec = o % BytsPerSec
    BY <1>1, ByteNearBy
  <2>2. low'[fat + 2 * (o \div BytsPerSec)][1] = s + o \div BytsPerSec
    BY <1>4, <2>1
  <2>3. offset \div BytsPerSec \in Nat
    BY <1>1, Division
  <2>4. s + o \div BytsPerSec = 1 + (offset + i) \div BytsPerSec
    BY <2>1, <2>3
  <2>5. offset + i \in Nat /\ offset + i < FATSz * BytsPerSec
    BY <1>1, <1>3
  <2> QED BY <2>1, <2>2, <2>4, <2>5, ByteOfFAT
<1>6. Byte(offset % BytsPerSec) = Boot!FatByte(offset)
  <2>1. (offset % BytsPerSec) + 0 = offset % BytsPerSec /\ offset + 0 = offset
    BY <1>1, Division
  <2> QED BY <1>5, <2>1, 0 \in 0 .. 1
<1>7. Byte((offset % BytsPerSec) + 1) = Boot!FatByte(offset + 1)
  BY <1>5
<1> DEFINE word == Byte(offset % BytsPerSec) + 256 * Byte((offset % BytsPerSec) + 1)
<1>8. Boot!Nibble * Boot!Nibble = 256 /\ Boot!EOF + 1 = 4096 /\ Boot!Nibble = 16
  BY EOFIs
<1>9. FatEntry(fat) = DigitsOf(ent, word)
  BY <1>8 DEF FatEntry, DigitsOf
<1>10. word = WordAt(ByteAt(ent))
  BY <1>6, <1>7 DEF WordAt, ByteAt
<1> HIDE DEF word
<1> QED BY <1>9, <1>10, EntryInBytes

-----------------------------------------------------------------------------
(* Loading a file.                                                         *)

\* A bound of a quotient is one of the dividend.
LEMMA QuotientBelow ==
  ASSUME NEW n \in Nat, NEW b \in Nat \ {0}, NEW q \in Nat
  PROVE  n \div b < q <=> n < q * b
<1> DEFINE d == n \div b
           r == n % b
<1>1. d \in Nat /\ r \in 0 .. b - 1 /\ n = b * d + r
  BY Division
<1> HIDE DEF d, r
<1>2. b * d \in Nat /\ b * q \in Nat /\ q * b = b * q
  BY <1>1
<1>3. d < q => b * d + b <= b * q
  BY <1>1, Multiples
<1>4. q < d => b * q + b <= b * d
  BY <1>1, Multiples
<1>5. d = q => b * d = b * q
  OBVIOUS
<1> QED BY <1>1, <1>2, <1>3, <1>4, <1>5 DEF d

\* Where a file, its segment and its FAT lie in memory.
LEMMA FilePlaces ==
  ASSUME NEW x \in Files
  PROVE  /\ BaseOf(x) \in Nat /\ OffsetOf(x) \in 0 .. SEG - 1 /\ FatOf(x) \in Nat
         /\ FatOf(x) + 3 < BaseOf(x) /\ BaseOf(x) + SEG <= LOW
         /\ x = "KERNEL" => BaseOf(x) + SEG <= BaseOfLoader
         /\ LOW \in Nat /\ SEG \in Nat \ {0}
<1>1. CASE x = "LOADER"
  BY <1>1, LayoutAssumption DEF BaseOf, OffsetOf, FatOf
<1>2. CASE x = "KERNEL"
  BY <1>2, LayoutAssumption DEF BaseOf, OffsetOf, FatOf
<1> QED BY <1>1, <1>2 DEF Files

\* A file of the floppy.
LEMMA FloppyIs ==
  ASSUME floppy \in Floppies, NEW x \in Files
  PROVE  /\ DOMAIN floppy = Files /\ x \in DOMAIN floppy
         /\ Boot!WellFormed(floppy)
         /\ floppy[x].pos \in Nat
         /\ LenOf(x) \in Nat /\ DOMAIN floppy[x].chain = 1 .. LenOf(x)
         /\ \A k \in 1 .. LenOf(x) : floppy[x].chain[k] \in 2 .. Boot!EOF - 1
         /\ floppy[x].chain = <<>> <=> LenOf(x) = 0
         /\ floppy[x].end \in 2 .. Boot!EOF
         /\ floppy[x].end = Boot!EOF \/ Boot!NoSector(floppy[x].end)
         /\ x = "LOADER" => UpTo(x, LenOf(x))
<1>1. DOMAIN floppy = Files /\ Boot!WellFormed(floppy) /\ OffsetOfLoader + 2 * Len(floppy["LOADER"].chain) <= SEG
  BY FloppyAssumption DEF Files
<1>2. x \in DOMAIN floppy
  BY <1>1
<1>3. floppy[x].pos \in Nat /\ (floppy[x].end = Boot!EOF \/ Boot!NoSector(floppy[x].end))
  BY <1>1, <1>2 DEF Boot!WellFormed
<1>4. floppy[x].chain \in Seq(2 .. Boot!EOF - 1)
  BY <1>1, <1>2 DEF Boot!WellFormed
<1>5. floppy[x].chain = <<>> <=> LenOf(x) = 0
  <2> HIDE <1>1
  <2> QED BY <1>4 DEF LenOf
<1>6. x = "LOADER" => UpTo(x, LenOf(x))
  BY <1>1 DEF UpTo, LenOf, OffsetOf
<1> QED BY <1>1, <1>2, <1>3, <1>5, <1>6, WellFormedChain DEF LenOf

\* Where the root directory and the data are.
LEMMA SectorNumbers ==
  /\ Boot!SecNoOfRootDir \in Nat /\ Boot!FirstDataSector = Boot!SecNoOfRootDir + RootDirSectors
  /\ Boot!FirstDataSector \in Nat
  /\ RootDirSectors + Boot!DeltaSecNo = Boot!FirstDataSector - 2
  /\ Boot!FirstDataSector >= 2
<1>1. NumFATs * FATSz \in Nat /\ NumFATs * FATSz >= 1
  BY GeometryAssumption
<1> QED BY <1>1, GeometryAssumption
  DEF Boot!SecNoOfRootDir, Boot!FirstDataSector, Boot!DeltaSecNo, Boot!SecNoOfFAT1

\* What reading cl sectors does to memory.
LEMMA ReadChanges ==
  ASSUME MemoryTypes, NEW ax \in Nat, NEW cl \in 1 .. 2, NEW to \in Nat, Boot!ReadSector(ax, cl, to)
  PROVE  /\ MemoryTypes'
         /\ \A u \in 0 .. LOW - 1 : u \notin to .. to + 2 * cl - 1 => low'[u] = low[u]
         /\ to \in 0 .. LOW - 1 => low'[to] = <<ax, 0>>
         /\ to + 1 \in 0 .. LOW - 1 => low'[to + 1] = <<ax, 1>>
<1>1. DOMAIN low' = 0 .. LOW - 1
  BY DEF Boot!ReadSector, Boot!Transferred, MemoryTypes
<1>2. \A u \in 0 .. LOW - 1 :
        /\ u \in to .. to + 2 * cl - 1 => low'[u] = <<ax + ((u - to) \div 2), (u - to) % 2>>
        /\ u \notin to .. to + 2 * cl - 1 => low'[u] = low[u]
  <2> TAKE u \in 0 .. LOW - 1
  <2>1. u \in DOMAIN low /\ cl \in Nat
    BY DEF MemoryTypes
  <2> QED BY <2>1, ReadSectorReads
<1>3. to \in 0 .. LOW - 1 => low'[to] = <<ax, 0>>
  <2>1. to \in to .. to + 2 * cl - 1 /\ ax + ((to - to) \div 2) = ax /\ (to - to) % 2 = 0
    OBVIOUS
  <2> QED BY <1>2, <2>1
<1>4. to + 1 \in 0 .. LOW - 1 => low'[to + 1] = <<ax, 1>>
  <2>1. to + 1 \in to .. to + 2 * cl - 1 /\ ax + (((to + 1) - to) \div 2) = ax /\ ((to + 1) - to) % 2 = 1
    OBVIOUS
  <2> QED BY <1>2, <2>1
<1>5. ASSUME NEW u \in 0 .. LOW - 1
      PROVE  low'[u] = Boot!Nothing \/ low'[u] \in Nat \X {0, 1}
  <2>1. u \in to .. to + 2 * cl - 1 => ax + ((u - to) \div 2) \in Nat /\ (u - to) % 2 \in {0, 1}
    OBVIOUS
  <2>2. u \in to .. to + 2 * cl - 1 => <<ax + ((u - to) \div 2), (u - to) % 2>> \in Nat \X {0, 1}
    BY <2>1
  <2>3. low[u] = Boot!Nothing \/ low[u] \in Nat \X {0, 1}
    BY DEF MemoryTypes
  <2> QED BY <1>2, <2>2, <2>3
<1>6. MemoryTypes'
  BY <1>1, <1>5 DEF MemoryTypes, Boot!Nothing
<1> QED BY <1>2, <1>3, <1>4, <1>6

\* A read that fails spoils no more than one that does not.
LEMMA GarbledChanges ==
  ASSUME MemoryTypes, NEW cl \in 1 .. 2, NEW to \in Nat, low' = Boot!Garbled(cl, to)
  PROVE  /\ MemoryTypes'
         /\ \A u \in 0 .. LOW - 1 :
              /\ u \notin to .. to + 2 * cl - 1 => low'[u] = low[u]
              /\ u \in to .. to + 2 * cl - 1 => low'[u] = Boot!Nothing
BY DEF Boot!Garbled, MemoryTypes, Boot!Nothing

\* A file of a floppy that does not change.
LEMMA DiskSame ==
  ASSUME UNCHANGED floppy, NEW x
  PROVE  /\ LenOf(x)' = LenOf(x)
         /\ \A k : Boot!SectorOf(x, k)' = Boot!SectorOf(x, k)
         /\ \A n : UpTo(x, n)' <=> UpTo(x, n)
BY DEF LenOf, Boot!SectorOf, UpTo

\* A sector that is read is on the floppy.
LEMMA ReadOnFloppy ==
  ASSUME NEW c \in Nat, NEW to, Boot!ReadSector(c + RootDirSectors + Boot!DeltaSecNo, 1, to)
  PROVE  ~Boot!NoSector(c)
<1> DEFINE ax == c + RootDirSectors + Boot!DeltaSecNo
<1>1. ax \in Nat /\ ax = Boot!FirstDataSector + c - 2
  BY SectorNumbers, GeometryAssumption DEF Boot!DeltaSecNo, Boot!SecNoOfFAT1
<1>2. Boot!OnFloppy(Boot!ChsOf(ax), 1)
  BY DEF Boot!ReadSector
<1> HIDE DEF ax
<1>3. ax < Cylinders * NumHeads * SecPerTrk
  BY <1>1, <1>2, NotBeyondTheEnd
<1>4. Cylinders * NumHeads * SecPerTrk \in Nat
  BY GeometryAssumption
<1> QED BY <1>1, <1>3, <1>4 DEF Boot!NoSector

\* A remainder of what is small enough is the whole.
LEMMA LinearIn ==
  ASSUME NEW n \in Nat, NEW s \in Nat \ {0}
  PROVE  /\ n < s => n % s = n
         /\ n % s \in 0 .. s - 1
<1>1. n % s \in 0 .. s - 1
  BY Division
<1>2. ASSUME n < s PROVE n % s = n
  <2>1. n \in 0 .. s - 1 /\ n = s * 0 + n
    BY <1>2
  <2> QED BY <2>1, 0 \in Nat, DivisionIs
<1> QED BY <1>1, <1>2

\* Nothing behind the segment that the kernel is read to changes.
BehindKept(x) == x = "KERNEL" => \A u \in 0 .. LOW - 1 : u >= BaseOfLoader => low'[u] = low[u]

\* A sector of the root directory that has been searched: the file is found in
\* it just when its entry is there.
LEMMA SearchKeeps ==
  ASSUME NEW x \in Files, floppy \in Floppies, UNCHANGED floppy, FileOK(x), SearchOf(x)
  PROVE  FileOK(x)' /\ BehindKept(x)
<1> DEFINE to == BaseOf(x) + OffsetOf(x)
           done == RootDirSectors - wRootDirSizeForLoop
           place == floppy[x].pos \div EntsPerSec
<1>1. /\ at = "root" /\ wRootDirSizeForLoop \in 1 .. RootDirSectors
      /\ wRootDirSizeForLoop' = wRootDirSizeForLoop - 1
      /\ RootDirSectors \in Nat /\ EntsPerSec \in Nat \ {0}
  BY GeometryAssumption DEF SearchOf, FileOK, FileTypes
<1>2. done \in 0 .. RootDirSectors - 1
  BY <1>1
<1>3. wSectorNo = Boot!SecNoOfRootDir + done /\ place >= done
  BY <1>1 DEF FileOK, Reads
<1>4. floppy[x].pos \in Nat /\ place \in Nat
  BY FloppyIs, <1>1, Division
<1>5. /\ to \in Nat /\ to \in 0 .. LOW - 1 /\ to \notin {} /\ wSectorNo \in Nat
      /\ x = "KERNEL" => to + 1 < BaseOfLoader
  <2>1. to \in Nat /\ to \in 0 .. LOW - 1
    BY FilePlaces
  <2>2. wSectorNo \in Nat
    BY <1>2, <1>3, SectorNumbers
  <2>3. x = "KERNEL" => to + 1 < BaseOfLoader
    BY LayoutAssumption DEF BaseOf, OffsetOf
  <2> QED BY <2>1, <2>2, <2>3
<1>6. Boot!ReadSector(wSectorNo, 1, to) /\ MemoryTypes /\ 1 \in 1 .. 2
  BY DEF SearchOf, FileOK
<1> HIDE DEF to
<1>7. /\ MemoryTypes' /\ low'[to] = <<wSectorNo, 0>>
      /\ \A u \in 0 .. LOW - 1 : u \notin to .. to + 2 * 1 - 1 => low'[u] = low[u]
  BY <1>5, <1>6, ReadChanges
<1>8. BehindKept(x)
  <2> SUFFICES ASSUME x = "KERNEL", NEW u \in 0 .. LOW - 1, u >= BaseOfLoader
               PROVE  low'[u] = low[u]
    BY DEF BehindKept
  <2>1. u \notin to .. to + 2 * 1 - 1
    BY <1>5, LayoutAssumption
  <2> QED BY <1>7, <2>1
<1>9. x \in Boot!EntriesOf(low'[to][1]) <=> place = done
  <2>1. low'[to][1] = wSectorNo
    BY <1>7
  <2>2. x \in Boot!EntriesOf(wSectorNo) <=> wSectorNo = Boot!SecNoOfRootDir + place
    BY FloppyIs DEF Boot!EntriesOf
  <2> QED BY <1>2, <1>3, <1>4, <2>1, <2>2, SectorNumbers
<1>10. CASE place = done
  <2>1. at' = "file" /\ ent' = Boot!FirstCluster(x) /\ bx' = OffsetOf(x) /\ wSectorNo' = wSectorNo
    BY <1>9, <1>10 DEF SearchOf, to
  <2>2. floppy[x].pos < RootDirSectors * EntsPerSec
    <3>1. place < RootDirSectors
      BY <1>1, <1>2, <1>10
    <3> QED BY <1>1, <1>4, <3>1, QuotientBelow
  <2>3. LenOf(x) = 0 => floppy[x].chain = <<>> /\ ent' = 0
    BY <2>1, FloppyIs DEF Boot!FirstCluster
  <2>4. LenOf(x) # 0 => ent' = floppy[x].chain[1] /\ ent' \in 2 .. Boot!EOF - 1 /\ 1 \in 1 .. LenOf(x)
    BY <2>1, FloppyIs DEF Boot!FirstCluster
  <2>5. ent' \in 0 .. Boot!EOF - 1
    <3>1. LenOf(x) = 0 => ent' \in 0 .. Boot!EOF - 1
      BY <2>3, EOFIs
    <3>2. LenOf(x) # 0 => ent' \in 0 .. Boot!EOF - 1
      BY <2>4, EOFIs
    <3> QED BY <3>1, <3>2
  <2>6. FileTypes'
    BY <1>1, <2>1, <2>5, FilePlaces DEF FileTypes, FileOK
  <2>7. ASSUME LenOf(x) # 0 PROVE ReadBefore(x, 1)'
    <3>1. AtPiece(x, 1)'
      <4>1. (OffsetOf(x) + 2 * (1 - 1)) % SEG = OffsetOf(x)
        <5>1. OffsetOf(x) + 2 * (1 - 1) = OffsetOf(x) /\ OffsetOf(x) \in Nat /\ OffsetOf(x) < SEG /\ SEG \in Nat \ {0}
          BY FilePlaces
        <5> QED BY <5>1, LinearIn
      <4> QED BY <2>1, <2>4, <2>7, <4>1, DiskSame DEF AtPiece
    <3>2. PiecesRead(x, 1 - 1)'
      BY DEF PiecesRead
    <3>3. UpTo(x, 1 - 1)'
      BY FilePlaces DEF UpTo
    <3> QED BY <2>4, <2>7, <3>1, <3>2, <3>3, DiskSame DEF ReadBefore
  <2>8. LenOf(x) = 0 => NoChain(x)'
    BY <2>3 DEF NoChain
  <2>9. Reads(x)'
    BY <2>1, <2>2, <2>7, <2>8 DEF Reads
  <2>10. x = "KERNEL" => bx' % 2 = 0
    BY <2>1 DEF OffsetOf
  <2> QED BY <1>7, <1>8, <2>6, <2>9, <2>10 DEF FileOK
<1>11. CASE place # done
  <2>1. at' = at /\ ent' = ent /\ bx' = bx /\ wSectorNo' = wSectorNo + 1
    BY <1>9, <1>11 DEF SearchOf, to
  <2>2. RootDirSectors - wRootDirSizeForLoop' = done + 1
    BY <1>1
  <2>3. FileTypes'
    BY <1>1, <1>2, <1>3, <2>1, SectorNumbers DEF FileTypes, FileOK
  <2>4. wSectorNo' = Boot!SecNoOfRootDir + (done + 1) /\ place >= done + 1
    BY <1>2, <1>3, <1>4, <1>11, <2>1, SectorNumbers
  <2>5. Reads(x)'
    BY <1>1, <2>1, <2>2, <2>4 DEF Reads
  <2> QED BY <1>7, <1>8, <2>1, <2>3, <2>5 DEF FileOK
<1> QED BY <1>10, <1>11

\* When all of the root directory has been searched the file is not in it.
LEMMA NoFileKeeps ==
  ASSUME NEW x \in Files, floppy \in Floppies, UNCHANGED floppy, FileOK(x), NoFileOf(x)
  PROVE  FileOK(x)' /\ BehindKept(x)
<1>1. ~(floppy[x].pos < RootDirSectors * EntsPerSec)
  <2>1. floppy[x].pos \div EntsPerSec >= RootDirSectors
    BY GeometryAssumption DEF FileOK, Reads, NoFileOf
  <2>2. floppy[x].pos \in Nat /\ floppy[x].pos \div EntsPerSec \in Nat
    BY FloppyIs, GeometryAssumption, Division
  <2> QED BY <2>1, <2>2, QuotientBelow, GeometryAssumption
<1> QED BY <1>1 DEF FileOK, Reads, NoFileOf, FileTypes, MemoryTypes, BehindKept

\* A sector is in a chain only once.
LEMMA ChainOnce ==
  ASSUME floppy \in Floppies, NEW x \in Files, NEW j \in 1 .. LenOf(x), NEW k \in 1 .. LenOf(x),
         Boot!SectorOf(x, j) = Boot!SectorOf(x, k)
  PROVE  j = k
<1>1. floppy[x].chain[j] \in Int /\ floppy[x].chain[k] \in Int
  <2>1. floppy[x].chain[j] \in 2 .. Boot!EOF - 1 /\ floppy[x].chain[k] \in 2 .. Boot!EOF - 1
    BY FloppyIs
  <2> QED BY <2>1, Entries
<1>2. floppy[x].chain[j] = floppy[x].chain[k]
  BY <1>1, SectorNumbers DEF Boot!SectorOf
<1>3. j \in DOMAIN floppy[x].chain /\ k \in DOMAIN floppy[x].chain /\ x \in DOMAIN floppy
  BY FloppyIs
<1> QED BY <1>2, <1>3, FloppyIs DEF Boot!WellFormed

\* The place of a piece that fits.
LEMMA PieceFits ==
  ASSUME NEW x \in Files, NEW n \in Nat, UpTo(x, n), NEW k \in 1 .. n, NEW h \in 0 .. 1
  PROVE  LET u == BaseOf(x) + OffsetOf(x) + 2 * (k - 1) + h
         IN /\ u \in 0 .. LOW - 1 /\ u >= BaseOf(x)
            /\ u <= BaseOf(x) + OffsetOf(x) + 2 * n - 1 /\ u < BaseOf(x) + SEG
BY FilePlaces DEF UpTo

\* Pieces that nothing is written to stay in memory.
LEMMA PiecesKept ==
  ASSUME NEW x \in Files, NEW n \in Nat, UpTo(x, n), PiecesRead(x, n), UNCHANGED floppy,
         \A u \in 0 .. LOW - 1 : u >= BaseOf(x) /\ u <= BaseOf(x) + OffsetOf(x) + 2 * n - 1 => low'[u] = low[u]
  PROVE  PiecesRead(x, n)'
<1> SUFFICES ASSUME NEW k \in 1 .. n, NEW h \in 0 .. 1
             PROVE  low'[BaseOf(x) + OffsetOf(x) + 2 * (k - 1) + h] = <<Boot!SectorOf(x, k)', h>>
  BY DEF PiecesRead
<1> DEFINE u == BaseOf(x) + OffsetOf(x) + 2 * (k - 1) + h
<1>1. u \in 0 .. LOW - 1 /\ u >= BaseOf(x) /\ u <= BaseOf(x) + OffsetOf(x) + 2 * n - 1
  BY PieceFits
<1>2. low[u] = <<Boot!SectorOf(x, k), h>>
  BY DEF PiecesRead
<1> HIDE DEF u
<1>3. low'[u] = <<Boot!SectorOf(x, k)', h>>
  BY <1>1, <1>2, DiskSame
<1> QED BY <1>3 DEF u

\* The reading of a piece: behind those before it while they fit in the
\* segment, over the first one when they do not.
LEMMA ReadKeeps ==
  ASSUME NEW x \in Files, floppy \in Floppies, UNCHANGED floppy, FileOK(x), ReadOf(x)
  PROVE  FileOK(x)' /\ BehindKept(x)
<1> DEFINE to == BaseOf(x) + bx
           ax == ent + RootDirSectors + Boot!DeltaSecNo
<1>1. /\ at = "file" /\ at' = "fat"
      /\ UNCHANGED <<wRootDirSizeForLoop, wSectorNo, ent, bx>>
      /\ Boot!ReadSector(ax, 1, to)
  BY DEF ReadOf
<1>2. ent \in Nat /\ bx \in 0 .. SEG - 1 /\ MemoryTypes
  BY EOFIs DEF FileOK, FileTypes
<1>3. to \in Nat /\ to \in 0 .. LOW - 1 /\ 1 \in 1 .. 2
  BY <1>2, FilePlaces
<1>4. ax \in Nat /\ ax = Boot!FirstDataSector + ent - 2
  BY <1>2, SectorNumbers, GeometryAssumption DEF Boot!DeltaSecNo, Boot!SecNoOfFAT1
<1>5. ~Boot!NoSector(ent)
  BY <1>1, <1>2, ReadOnFloppy
<1> HIDE DEF to, ax
<1>6. /\ MemoryTypes' /\ low'[to] = <<ax, 0>>
      /\ to + 1 \in 0 .. LOW - 1 => low'[to + 1] = <<ax, 1>>
      /\ \A u \in 0 .. LOW - 1 : u \notin to .. to + 2 * 1 - 1 => low'[u] = low[u]
  BY <1>1, <1>2, <1>3, <1>4, ReadChanges
<1>7. BehindKept(x)
  <2> SUFFICES ASSUME x = "KERNEL", NEW u \in 0 .. LOW - 1, u >= BaseOfLoader
               PROVE  low'[u] = low[u]
    BY DEF BehindKept
  <2>1. bx % 2 = 0 /\ SEG % 2 = 0 /\ SEG \in Nat /\ BaseOf(x) \in Nat /\ BaseOf(x) + SEG <= BaseOfLoader /\ BaseOfLoader \in Nat
    BY FilePlaces, LayoutAssumption DEF FileOK
  <2>2. bx <= SEG - 2
    BY <1>2, <2>1
  <2>3. u \notin to .. to + 2 * 1 - 1
    BY <1>2, <2>1, <2>2 DEF to
  <2> QED BY <1>6, <2>3
<1>8. FileTypes' /\ (x = "KERNEL" => bx' % 2 = 0)
  BY <1>1 DEF FileOK, FileTypes
<1>9. NoChain(x) => NoChain(x)'
  BY <1>1 DEF NoChain
<1>10. ASSUME ReadBefore(x, 1) PROVE ReadBefore(x, 0)'
  <2>1. PICK j \in 1 .. LenOf(x) :
          /\ AtPiece(x, j)
          /\ UpTo(x, j) => PiecesRead(x, j - 1)
          /\ ~UpTo(x, j - 1) => WrittenOver(x)
    BY <1>10 DEF ReadBefore
  <2>2. LenOf(x) \in Nat /\ j \in Nat /\ j >= 1
    BY FloppyIs
  <2>3. AtPiece(x, j)' /\ j \in 1 .. LenOf(x)'
    BY <1>1, <2>1, DiskSame DEF AtPiece
  <2>4. ax = Boot!SectorOf(x, j)
    BY <1>4, <2>1 DEF AtPiece, Boot!SectorOf
  <2>5. bx = (OffsetOf(x) + 2 * (j - 1)) % SEG /\ OffsetOf(x) + 2 * (j - 1) \in Nat /\ SEG \in Nat \ {0}
    BY <2>1, <2>2, FilePlaces DEF AtPiece
  <2>6. ASSUME UpTo(x, j) PROVE PiecesRead(x, j)'
    <3>1. bx = OffsetOf(x) + 2 * (j - 1) /\ to = BaseOf(x) + OffsetOf(x) + 2 * (j - 1)
      <4>1. OffsetOf(x) + 2 * (j - 1) < SEG
        BY <2>2, <2>6, FilePlaces DEF UpTo
      <4>2. bx = OffsetOf(x) + 2 * (j - 1)
        BY <2>5, <4>1, LinearIn
      <4> QED BY <2>2, <4>2, FilePlaces DEF to
    <3>2. to + 1 \in 0 .. LOW - 1
      BY <2>2, <2>6, <3>1, FilePlaces DEF UpTo
    <3>3. PiecesRead(x, j - 1)'
      <4>1. j - 1 \in Nat /\ UpTo(x, j - 1)
        BY <2>2, <2>6, FilePlaces DEF UpTo
      <4>2. ASSUME NEW u \in 0 .. LOW - 1, u <= BaseOf(x) + OffsetOf(x) + 2 * (j - 1) - 1
            PROVE  low'[u] = low[u]
        <5>1. u \notin to .. to + 2 * 1 - 1
          BY <2>2, <3>1, <4>2, FilePlaces
        <5> QED BY <1>6, <5>1
      <4> QED BY <2>1, <2>6, <4>1, <4>2, PiecesKept
    <3>4. ASSUME NEW k \in 1 .. j, NEW h \in 0 .. 1
          PROVE  low'[BaseOf(x) + OffsetOf(x) + 2 * (k - 1) + h] = <<Boot!SectorOf(x, k)', h>>
      <4>1. CASE k # j
        BY <2>2, <3>3, <4>1, k \in 1 .. j - 1 DEF PiecesRead
      <4>2. CASE k = j
        <5>1. low'[to + h] = <<ax, h>>
          <6>1. CASE h = 0
            BY <1>3, <1>6, <6>1
          <6>2. CASE h = 1
            BY <1>6, <3>2, <6>2
          <6> QED BY <6>1, <6>2
        <5>2. Boot!SectorOf(x, k)' = ax
          BY <2>4, <4>2, DiskSame
        <5> QED BY <3>1, <4>2, <5>1, <5>2
      <4> QED BY <4>1, <4>2
    <3> QED BY <3>4 DEF PiecesRead
  <2>7. ASSUME ~UpTo(x, j) PROVE WrittenOver(x)'
    <3>1. x = "KERNEL"
      <4>1. x # "LOADER"
        <5> SUFFICES ASSUME x = "LOADER" PROVE FALSE
          OBVIOUS
        <5>1. UpTo(x, LenOf(x)) /\ j <= LenOf(x)
          BY FloppyIs
        <5> QED BY <2>2, <2>7, <5>1, FilePlaces DEF UpTo
      <4> QED BY <4>1 DEF Files
    <3>2. OffsetOf(x) = 0 /\ BaseOf(x) \in 0 .. LOW - 1
      BY <3>1, FilePlaces DEF OffsetOf
    <3>3. WrittenOver(x)' <=> low'[BaseOf(x)] # <<Boot!SectorOf(x, 1), 0>>
      BY <3>2, DiskSame, BaseOf(x) + 0 = BaseOf(x) DEF WrittenOver
    <3>4. WrittenOver(x) <=> low[BaseOf(x)] # <<Boot!SectorOf(x, 1), 0>>
      BY <3>2, BaseOf(x) + 0 = BaseOf(x) DEF WrittenOver
    <3>5. j # 1
      <4>1. SEG >= 2
        BY <2>5, LayoutAssumption
      <4> QED BY <2>7, <3>2, <4>1 DEF UpTo
    <3>6. CASE bx = 0
      <4>1. low'[BaseOf(x)] = <<Boot!SectorOf(x, j), 0>>
        BY <1>6, <2>4, <3>2, <3>6 DEF to
      <4>2. Boot!SectorOf(x, j) # Boot!SectorOf(x, 1)
        BY <2>2, <3>5, ChainOnce, 1 \in 1 .. LenOf(x)
      <4> QED BY <3>3, <4>1, <4>2
    <3>7. CASE bx # 0
      <4>1. BaseOf(x) \notin to .. to + 2 * 1 - 1
        BY <1>2, <3>2, <3>7 DEF to
      <4>2. low'[BaseOf(x)] = low[BaseOf(x)]
        BY <1>6, <3>2, <4>1
      <4>3. ~UpTo(x, j - 1)
        <5> SUFFICES ASSUME UpTo(x, j - 1) PROVE FALSE
          OBVIOUS
        <5>1. 2 * (j - 1) <= SEG /\ ~(2 * j <= SEG) /\ SEG % 2 = 0
          BY <2>2, <2>7, <3>2, LayoutAssumption DEF UpTo
        <5>2. SEG = 2 * (j - 1)
          BY <2>2, <2>5, <5>1
        <5>3. bx = SEG % SEG
          BY <2>2, <2>5, <3>2, <5>2
        <5>4. SEG % SEG = 0
          BY <2>5, DivisionIs, SEG = SEG * 1 + 0, 1 \in Nat, 0 \in 0 .. SEG - 1
        <5> QED BY <3>7, <5>3, <5>4
      <4> QED BY <2>1, <3>3, <3>4, <4>2, <4>3
    <3> QED BY <3>6, <3>7
  <2>8. j - 0 = j
    BY <2>2
  <2> QED BY <2>3, <2>6, <2>7, <2>8, DiskSame DEF ReadBefore
<1>11. Reads(x)'
  <2>1. NoChain(x) \/ ReadBefore(x, 1)
    BY <1>1, <1>5 DEF FileOK, Reads
  <2>2. floppy[x].pos < RootDirSectors * EntsPerSec
    BY <1>1 DEF FileOK, Reads
  <2> QED BY <1>1, <1>9, <1>10, <2>1, <2>2 DEF Reads
<1> QED BY <1>6, <1>7, <1>8, <1>11 DEF FileOK

\* A sum that is cut to 16 or 32 bits may be cut before as well.
LEMMA AddAndWrap ==
  ASSUME NEW a \in Nat, NEW b \in Nat, NEW s \in Nat \ {0}
  PROVE  ((a % s) + b) % s = (a + b) % s
<1> DEFINE q == a \div s
           r == a % s
           p == (r + b) \div s
           m == (r + b) % s
<1>1. q \in Nat /\ r \in 0 .. s - 1 /\ a = s * q + r
  BY Division
<1> HIDE DEF q, r
<1>2. p \in Nat /\ m \in 0 .. s - 1 /\ r + b = s * p + m
  BY <1>1, r + b \in Nat, Division
<1> HIDE DEF p, m
<1>3. s * (q + p) = s * q + s * p /\ s * q \in Nat /\ s * p \in Nat
  BY <1>1, <1>2
<1>4. a + b = s * (q + p) + m
  BY <1>1, <1>2, <1>3
<1>5. (a + b) % s = m
  <2> DEFINE z == a + b
             d == q + p
  <2>1. z \in Nat /\ d \in Nat /\ z = s * d + m
    BY <1>1, <1>2, <1>4
  <2> HIDE DEF z, d
  <2>2. z % s = m
    BY <1>2, <2>1, DivisionIs
  <2> QED BY <2>2 DEF z
<1> QED BY <1>5 DEF m, r

\* What is even stays so when it is cut.
LEMMA EvenWraps ==
  ASSUME NEW a \in Nat, NEW s \in Nat \ {0}, a % 2 = 0, s % 2 = 0
  PROVE  (a % s) % 2 = 0
<1> DEFINE q == a \div s
           r == a % s
           t == s \div 2
<1>1. q \in Nat /\ r \in 0 .. s - 1 /\ a = s * q + r
  BY Division
<1>2. t \in Nat /\ s = 2 * t
  OBVIOUS
<1> HIDE DEF q, r, t
<1>3. (2 * t) * q = 2 * (t * q) /\ t * q \in Nat
  BY <1>1, <1>2
<1>4. a = 2 * (t * q) + r
  BY <1>1, <1>2, <1>3
<1>5. r % 2 = 0
  <2> DEFINE z == t * q
  <2>1. z \in Nat /\ a = 2 * z + r
    BY <1>3, <1>4
  <2> HIDE DEF z
  <2> QED BY <2>1, <1>1
<1> QED BY <1>5 DEF r

\* The entry of the FAT leads to the next piece, or out of the loop when the
\* last one is in memory.
LEMMA FollowKeeps ==
  ASSUME NEW x \in Files, floppy \in Floppies, UNCHANGED floppy, FileOK(x), FollowOf(x)
  PROVE  FileOK(x)' /\ BehindKept(x)
<1> DEFINE n == LenOf(x)
           next == Boot!Successor(ent)
<1>1. /\ at = "fat" /\ UNCHANGED <<wRootDirSizeForLoop, wSectorNo>>
      /\ Boot!ReadSector(1 + ((3 * ent) \div 2) \div BytsPerSec, 2, FatOf(x))
  BY DEF FollowOf
<1>2. ent \in Nat /\ bx \in 0 .. SEG - 1 /\ MemoryTypes /\ FatOf(x) \in Nat /\ n \in Nat
  <2>1. ent \in Nat
    BY EOFIs DEF FileOK, FileTypes
  <2>2. bx \in 0 .. SEG - 1 /\ MemoryTypes
    BY DEF FileOK, FileTypes
  <2> QED BY <2>1, <2>2, FilePlaces, FloppyIs
<1>3. NoChain(x) \/ ReadBefore(x, 0)
  BY <1>1 DEF FileOK, Reads
<1>4. /\ MemoryTypes'
      /\ \A u \in 0 .. LOW - 1 : u >= BaseOf(x) => low'[u] = low[u]
  <2>1. 1 + ((3 * ent) \div 2) \div BytsPerSec \in Nat
    <3>1. (3 * ent) \div 2 \in Nat
      BY <1>2
    <3>2. ((3 * ent) \div 2) \div BytsPerSec \in Nat
      BY <3>1, GeometryAssumption, Division
    <3> QED BY <3>2
  <2>2. /\ MemoryTypes'
        /\ \A u \in 0 .. LOW - 1 : u \notin FatOf(x) .. FatOf(x) + 2 * 2 - 1 => low'[u] = low[u]
    BY <1>1, <1>2, <2>1, ReadChanges, 2 \in 1 .. 2
  <2> QED BY <2>2, FilePlaces
<1>5. BehindKept(x)
  <2> SUFFICES ASSUME x = "KERNEL", NEW u \in 0 .. LOW - 1, u >= BaseOfLoader
               PROVE  low'[u] = low[u]
    BY DEF BehindKept
  <2> QED BY <1>4, FilePlaces, LayoutAssumption
<1>6. ASSUME NEW k \in Nat, UpTo(x, k), PiecesRead(x, k) PROVE PiecesRead(x, k)'
  BY <1>4, <1>6, PiecesKept
<1>7. WrittenOver(x) => WrittenOver(x)'
  <2>1. BaseOf(x) + OffsetOf(x) \in 0 .. LOW - 1 /\ BaseOf(x) + OffsetOf(x) >= BaseOf(x)
    BY FilePlaces
  <2> QED BY <1>4, <2>1, DiskSame DEF WrittenOver
<1>8. (3 * ent) \div 2 + 1 < FATSz * BytsPerSec
  <2>1. CASE NoChain(x)
    BY <2>1, GeometryAssumption DEF NoChain
  <2>2. CASE ReadBefore(x, 0)
    <3>1. PICK j \in 1 .. n : ent = floppy[x].chain[j]
      BY <2>2 DEF ReadBefore, AtPiece
    <3> QED BY <3>1, FloppyIs DEF Boot!WellFormed
  <2> QED BY <1>3, <2>1, <2>2
<1>9. FatEntry(FatOf(x)) = next
  <2>1. FatOf(x) + 3 < LOW /\ DOMAIN low = 0 .. LOW - 1 /\ Boot!WellFormed(floppy)
    BY <1>2, FilePlaces, FloppyIs DEF MemoryTypes
  <2> QED BY <1>1, <1>2, <1>8, <2>1, GetFATEntryIs
<1> HIDE DEF next
<1>10. IF next = Boot!EOF THEN at' = "loaded" /\ UNCHANGED <<ent, bx>>
       ELSE at' = "file" /\ ent' = next /\ bx' = (bx + 2) % SEG
  BY <1>9 DEF FollowOf
<1>11. floppy[x].pos < RootDirSectors * EntsPerSec
  BY <1>1 DEF FileOK, Reads
<1>12. bx' \in 0 .. SEG - 1 /\ (x = "KERNEL" => bx' % 2 = 0)
  <2>1. bx + 2 \in Nat /\ SEG \in Nat \ {0}
    BY <1>2, FilePlaces
  <2>2. (bx + 2) % SEG \in 0 .. SEG - 1
    BY <2>1, LinearIn
  <2>3. bx % 2 = 0 => ((bx + 2) % SEG) % 2 = 0
    BY <1>2, <2>1, EvenWraps, LayoutAssumption, bx % 2 = 0 => (bx + 2) % 2 = 0
  <2> QED BY <1>2, <1>10, <2>2, <2>3 DEF FileOK
<1>13. ASSUME next = Boot!EOF \/ next \in 0 .. Boot!EOF - 1, Reads(x)'
       PROVE  FileOK(x)' /\ BehindKept(x)
  <2>1. ent' \in 0 .. Boot!EOF - 1
    BY <1>10, <1>13 DEF FileOK, FileTypes
  <2>2. FileTypes'
    BY <1>1, <1>10, <1>12, <2>1 DEF FileTypes, FileOK
  <2> QED BY <1>4, <1>5, <1>12, <1>13, <2>2 DEF FileOK
<1>14. CASE NoChain(x)
  <2>1. next = Boot!EOF - Boot!Nibble + 1
    BY <1>14 DEF next, NoChain, Boot!Successor
  <2>2. next # Boot!EOF /\ next \in 0 .. Boot!EOF - 1
    BY <2>1, EOFIs
  <2>3. Boot!NoSector(next)
    BY <2>1, FloppyAssumption
  <2>4. Boot!NoSector(ent)'
    BY <1>10, <2>2, <2>3 DEF Boot!NoSector, Boot!FirstDataSector, Boot!SecNoOfRootDir, Boot!SecNoOfFAT1
  <2>5. Reads(x)'
    BY <1>10, <1>11, <2>2, <2>4 DEF Reads
  <2> QED BY <1>13, <2>2, <2>5
<1>15. CASE ReadBefore(x, 0)
  <2>1. PICK j \in 1 .. n :
          /\ AtPiece(x, j)
          /\ UpTo(x, j) => PiecesRead(x, j)
          /\ ~UpTo(x, j) => WrittenOver(x)
    <3>1. \A j \in 1 .. n : j - 0 = j
      BY <1>2
    <3> QED BY <1>15, <3>1 DEF ReadBefore
  <2>2. ent = floppy[x].chain[j] /\ j \in Nat /\ j >= 1
    BY <1>2, <2>1 DEF AtPiece
  <2>3. next = IF j = n THEN floppy[x].end ELSE floppy[x].chain[j + 1]
    <3>1. x \in DOMAIN floppy /\ Boot!WellFormed(floppy) /\ j \in DOMAIN floppy[x].chain
      BY FloppyIs
    <3> QED BY <2>2, <3>1, SuccessorFollowsChain DEF next, LenOf
  <2>4. (UpTo(x, j) => PiecesRead(x, j)') /\ (~UpTo(x, j) => WrittenOver(x)')
    BY <1>6, <1>7, <2>1, <2>2
  <2>5. CASE next = Boot!EOF
    <3>1. j = n
      <4> SUFFICES ASSUME j # n PROVE FALSE
        OBVIOUS
      <4>1. next \in 2 .. Boot!EOF - 1
        BY <1>2, <2>2, <2>3, FloppyIs, j + 1 \in 1 .. n
      <4> QED BY <2>5, <4>1, Entries
    <3>2. Reads(x)'
      <4>1. LenOf(x)' # 0 /\ LenOf(x)' = j
        BY <2>2, <3>1, DiskSame
      <4>2. (UpTo(x, LenOf(x)) => PiecesRead(x, LenOf(x)))' /\ (~UpTo(x, LenOf(x)) => WrittenOver(x))'
        BY <2>4, <4>1, DiskSame DEF PiecesRead
      <4> QED BY <1>10, <1>11, <2>5, <4>1, <4>2 DEF Reads
    <3> QED BY <1>13, <2>5, <3>2
  <2>6. CASE next # Boot!EOF /\ j = n
    <3>1. next = floppy[x].end /\ next \in 2 .. Boot!EOF
      BY <2>3, <2>6, FloppyIs
    <3>2. Boot!NoSector(next) /\ next \in 0 .. Boot!EOF - 1
      <4>1. Boot!NoSector(next)
        BY <2>6, <3>1, FloppyIs
      <4>2. next \in 0 .. Boot!EOF - 1
        BY <2>6, <3>1, Entries
      <4> QED BY <4>1, <4>2
    <3>3. Boot!NoSector(ent)'
      BY <1>10, <2>6, <3>2 DEF Boot!NoSector, Boot!FirstDataSector, Boot!SecNoOfRootDir, Boot!SecNoOfFAT1
    <3>4. Reads(x)'
      BY <1>10, <1>11, <2>6, <3>3 DEF Reads
    <3> QED BY <1>13, <3>2, <3>4
  <2>7. CASE next # Boot!EOF /\ j # n
    <3>1. j + 1 \in 1 .. n /\ next = floppy[x].chain[j + 1]
      BY <1>2, <2>2, <2>3, <2>7
    <3>2. next \in 2 .. Boot!EOF - 1
      BY <3>1, FloppyIs
    <3>3. next \in 0 .. Boot!EOF - 1
      BY <3>2, EOFIs
    <3>4. bx' = (OffsetOf(x) + 2 * ((j + 1) - 1)) % SEG
      <4>1. bx = (OffsetOf(x) + 2 * (j - 1)) % SEG /\ OffsetOf(x) + 2 * (j - 1) \in Nat /\ SEG \in Nat \ {0}
        BY <2>1, <2>2, FilePlaces DEF AtPiece
      <4>2. (OffsetOf(x) + 2 * (j - 1)) + 2 = OffsetOf(x) + 2 * ((j + 1) - 1)
        BY <2>2, FilePlaces
      <4>3. (((OffsetOf(x) + 2 * (j - 1)) % SEG) + 2) % SEG = ((OffsetOf(x) + 2 * (j - 1)) + 2) % SEG
        BY <4>1, AddAndWrap
      <4> QED BY <1>10, <2>7, <4>1, <4>2, <4>3
    <3>5. AtPiece(x, j + 1)'
      BY <1>10, <2>7, <3>1, <3>4, DiskSame DEF AtPiece
    <3>6. (j + 1) - 1 = j /\ (UpTo(x, j + 1) => UpTo(x, j))
      BY <2>2, FilePlaces DEF UpTo
    <3>7. (UpTo(x, j + 1) => PiecesRead(x, (j + 1) - 1))' /\ (~UpTo(x, (j + 1) - 1) => WrittenOver(x))'
      BY <2>4, <3>6, DiskSame
    <3>8. ReadBefore(x, 1)'
      BY <3>1, <3>5, <3>7, DiskSame DEF ReadBefore
    <3>9. Reads(x)'
      BY <1>10, <1>11, <2>7, <3>8 DEF Reads
    <3> QED BY <1>13, <3>3, <3>9
  <2> QED BY <2>5, <2>6, <2>7
<1> QED BY <1>3, <1>14, <1>15

\* A piece is in a sector.
LEMMA SectorIsNat ==
  ASSUME floppy \in Floppies, NEW x \in Files, NEW k \in 1 .. LenOf(x)
  PROVE  Boot!SectorOf(x, k) \in Nat
<1>1. floppy[x].chain[k] \in 2 .. Boot!EOF - 1
  BY FloppyIs
<1>2. floppy[x].chain[k] \in Nat
  BY <1>1, Entries
<1> QED BY <1>2, SectorNumbers DEF Boot!SectorOf

\* A read that fails spoils nothing that the next one does not write.
LEMMA RereadKeeps ==
  ASSUME NEW x \in Files, floppy \in Floppies, UNCHANGED floppy, FileOK(x), RereadOf(x)
  PROVE  FileOK(x)' /\ BehindKept(x)
<1>1. UNCHANGED <<at, wRootDirSizeForLoop, wSectorNo, ent, bx>>
  BY DEF RereadOf
<1>2. FileTypes' /\ (x = "KERNEL" => bx' % 2 = 0)
  BY <1>1 DEF FileOK, FileTypes
<1>3. bx \in 0 .. SEG - 1 /\ MemoryTypes
  BY DEF FileOK, FileTypes
<1>4. SUFFICES ASSUME NEW cl \in 1 .. 2, NEW to \in Nat, low' = Boot!Garbled(cl, to),
                      \/ at = "root" /\ cl = 1 /\ to = BaseOf(x) + OffsetOf(x)
                      \/ at = "file" /\ cl = 1 /\ to = BaseOf(x) + bx
                      \/ at = "fat" /\ cl = 2 /\ to = FatOf(x)
               PROVE  FileOK(x)' /\ BehindKept(x)
  <2>1. BaseOf(x) + OffsetOf(x) \in Nat /\ BaseOf(x) + bx \in Nat /\ FatOf(x) \in Nat
    BY <1>3, FilePlaces
  <2> QED BY <2>1, <1>4, 1 \in 1 .. 2, 2 \in 1 .. 2 DEF RereadOf
<1>5. /\ MemoryTypes'
      /\ \A u \in 0 .. LOW - 1 :
           /\ u \notin to .. to + 2 * cl - 1 => low'[u] = low[u]
           /\ low'[u] = low[u] \/ low'[u] = Boot!Nothing
  BY <1>3, <1>4, GarbledChanges
<1>6. BehindKept(x)
  <2> SUFFICES ASSUME x = "KERNEL", NEW u \in 0 .. LOW - 1, u >= BaseOfLoader
               PROVE  low'[u] = low[u]
    BY DEF BehindKept
  <2>1. /\ bx % 2 = 0 /\ SEG % 2 = 0 /\ SEG \in Nat \ {0} /\ BaseOf(x) \in Nat
        /\ BaseOf(x) + SEG <= BaseOfLoader /\ BaseOfLoader \in Nat
        /\ OffsetOf(x) = 0 /\ FatOf(x) + 3 < BaseOf(x)
    BY FilePlaces, LayoutAssumption DEF FileOK, OffsetOf
  <2>2. bx <= SEG - 2 /\ SEG >= 2
    BY <1>3, <2>1
  <2>3. to + 2 * cl - 1 < BaseOfLoader
    BY <1>3, <1>4, <2>1, <2>2
  <2> QED BY <1>5, <2>1, <2>3
<1>7. ASSUME LenOf(x) # 0, WrittenOver(x) PROVE WrittenOver(x)'
  <2>1. BaseOf(x) + OffsetOf(x) \in 0 .. LOW - 1
    BY FilePlaces
  <2>2. Boot!SectorOf(x, 1) \in Nat
    BY <1>7, SectorIsNat, FloppyIs, 1 \in 1 .. LenOf(x)
  <2>3. Boot!Nothing # <<Boot!SectorOf(x, 1), 0>>
    BY <2>2 DEF Boot!Nothing
  <2> QED BY <1>5, <1>7, <2>1, <2>3, DiskSame DEF WrittenOver
<1>8. NoChain(x) => NoChain(x)'
  BY <1>1 DEF NoChain
<1>9. Boot!NoSector(ent) => Boot!NoSector(ent)'
  BY <1>1 DEF Boot!NoSector, Boot!FirstDataSector, Boot!SecNoOfRootDir, Boot!SecNoOfFAT1
<1>10. CASE at = "root"
  BY <1>1, <1>2, <1>5, <1>6, <1>10 DEF FileOK, Reads
<1>11. CASE at = "file"
  <2>1. ASSUME ReadBefore(x, 1) PROVE ReadBefore(x, 1)'
    <3>1. PICK j \in 1 .. LenOf(x) :
            /\ AtPiece(x, j)
            /\ UpTo(x, j) => PiecesRead(x, j - 1)
            /\ ~UpTo(x, j - 1) => WrittenOver(x)
      BY <2>1 DEF ReadBefore
    <3>2. LenOf(x) \in Nat /\ j \in Nat /\ j >= 1
      BY FloppyIs
    <3>3. AtPiece(x, j)' /\ j \in 1 .. LenOf(x)'
      BY <1>1, <3>1, DiskSame DEF AtPiece
    <3>4. ASSUME UpTo(x, j) PROVE PiecesRead(x, j - 1)'
      <4>1. j - 1 \in Nat /\ UpTo(x, j - 1) /\ OffsetOf(x) + 2 * (j - 1) \in Nat
            /\ OffsetOf(x) + 2 * (j - 1) < SEG /\ SEG \in Nat \ {0}
        BY <3>2, <3>4, FilePlaces DEF UpTo
      <4>2. bx = OffsetOf(x) + 2 * (j - 1)
        BY <3>1, <4>1, LinearIn DEF AtPiece
      <4>3. to = BaseOf(x) + (OffsetOf(x) + 2 * (j - 1)) /\ cl = 1
        BY <1>4, <1>11, <4>2
      <4>4. ASSUME NEW u \in 0 .. LOW - 1, u <= BaseOf(x) + OffsetOf(x) + 2 * (j - 1) - 1
            PROVE  low'[u] = low[u]
        <5>1. u \notin to .. to + 2 * cl - 1
          BY <3>2, <4>3, <4>4, FilePlaces
        <5> QED BY <1>5, <5>1
      <4> QED BY <3>1, <3>4, <4>1, <4>4, PiecesKept
    <3>5. ~UpTo(x, j - 1) => WrittenOver(x)'
      BY <1>7, <3>1, <3>2
    <3> QED BY <3>3, <3>4, <3>5, DiskSame DEF ReadBefore
  <2> QED BY <1>1, <1>2, <1>5, <1>6, <1>8, <1>9, <1>11, <2>1 DEF FileOK, Reads
<1>12. CASE at = "fat"
  <2>1. \A u \in 0 .. LOW - 1 : u >= BaseOf(x) => low'[u] = low[u]
    <3>1. to + 2 * cl - 1 < BaseOf(x) /\ BaseOf(x) \in Nat
      BY <1>4, <1>12, FilePlaces
    <3> QED BY <1>5, <3>1
  <2>2. ASSUME ReadBefore(x, 0) PROVE ReadBefore(x, 0)'
    <3>1. PICK j \in 1 .. LenOf(x) :
            /\ AtPiece(x, j)
            /\ UpTo(x, j) => PiecesRead(x, j - 0)
            /\ ~UpTo(x, j - 0) => WrittenOver(x)
      BY <2>2 DEF ReadBefore
    <3>2. LenOf(x) \in Nat /\ j \in Nat /\ j >= 1 /\ j - 0 = j
      BY FloppyIs
    <3>3. AtPiece(x, j)' /\ j \in 1 .. LenOf(x)'
      BY <1>1, <3>1, DiskSame DEF AtPiece
    <3>4. ASSUME UpTo(x, j) PROVE PiecesRead(x, j - 0)'
      <4>1. PiecesRead(x, j)
        BY <3>1, <3>2, <3>4
      <4>2. PiecesRead(x, j)'
        BY <2>1, <3>2, <3>4, <4>1, PiecesKept
      <4> QED BY <3>2, <4>2
    <3>5. ~UpTo(x, j - 0) => WrittenOver(x)'
      BY <1>7, <3>1, <3>2
    <3> QED BY <3>3, <3>4, <3>5, DiskSame DEF ReadBefore
  <2> QED BY <1>1, <1>2, <1>5, <1>6, <1>8, <1>12, <2>2 DEF FileOK, Reads
<1> QED BY <1>4, <1>10, <1>11, <1>12

\* Each step of the loading of a file keeps it in order.
LEMMA LoadingKeeps ==
  ASSUME NEW x \in Files, floppy \in Floppies, UNCHANGED floppy, FileOK(x),
         SearchOf(x) \/ NoFileOf(x) \/ ReadOf(x) \/ FollowOf(x) \/ RereadOf(x)
  PROVE  FileOK(x)' /\ BehindKept(x)
BY SearchKeeps, NoFileKeeps, ReadKeeps, FollowKeeps, RereadKeeps

\* The loading begins.
LEMMA LoadingBegins ==
  ASSUME NEW x \in Files, floppy \in Floppies, MemoryTypes, at = "root",
         wRootDirSizeForLoop = RootDirSectors, wSectorNo = Boot!SecNoOfRootDir,
         ent = 0, bx = OffsetOf(x)
  PROVE  FileOK(x)
<1>1. FileTypes
  BY FilePlaces, SectorNumbers, EOFIs, GeometryAssumption DEF FileTypes
<1>2. floppy[x].pos \div EntsPerSec \in Nat
  BY FloppyIs, GeometryAssumption, Division
<1>3. Reads(x)
  BY <1>2, SectorNumbers, GeometryAssumption DEF Reads
<1>4. x = "KERNEL" => bx % 2 = 0
  BY DEF OffsetOf
<1> QED BY <1>1, <1>3, <1>4 DEF FileOK

-----------------------------------------------------------------------------
(* Memory and its tables.                                                  *)

\* The greater number has the greater quotient.
LEMMA DivMonotone ==
  ASSUME NEW a \in Nat, NEW b \in Nat, NEW p \in Nat \ {0}, a <= b
  PROVE  a \div p <= b \div p
<1> DEFINE q == b \div p
           t == a \div p
<1>1. q \in Nat /\ t \in Nat
  BY Division
<1>2. b < (q + 1) * p
  BY <1>1, QuotientBelow, q + 1 \in Nat, q < q + 1
<1>3. (q + 1) * p \in Nat
  BY <1>1
<1>4. a < (q + 1) * p
  <2> DEFINE z == (q + 1) * p
  <2>1. z \in Nat /\ b < z
    BY <1>2, <1>3
  <2> HIDE DEF z
  <2> QED BY <2>1
<1>5. t < q + 1
  BY <1>1, <1>4, QuotientBelow, q + 1 \in Nat
<1> HIDE DEF q, t
<1>6. t <= q
  BY <1>1, <1>5
<1> QED BY <1>6 DEF q, t

\* There are tables enough for all pages of the memory, the last one with one,
\* and entries enough in the directory.
LEMMA TablesAre ==
  ASSUME NEW size \in Nat \ {0}
  PROVE  /\ Tables(size) = (size - 1) \div PAGE + 1
         /\ Tables(size) \in Nat \ {0}
         /\ size <= WORD - 1 => Tables(size) <= PAGE
         /\ \A q \in Nat : q < size => q \div PAGE < Tables(size)
<1> DEFINE p == PAGE
           d == size \div p
           r == size % p
<1>1. p \in Nat \ {0} /\ WORD = p * p
  BY PagingAssumption
<1>2. d \in Nat /\ r \in 0 .. p - 1 /\ size = p * d + r
  BY <1>1, Division
<1>3. Tables(size) = d + (IF r = 0 THEN 0 ELSE 1)
  BY DEF Tables
<1> HIDE DEF d, r, p
<1>4. (size - 1) \div p = IF r = 0 THEN d - 1 ELSE d
  <2>1. CASE r = 0
    <3>1. d # 0
      BY <1>1, <1>2, <2>1
    <3>2. d - 1 \in Nat /\ p * d = p * (d - 1) + p
      BY <1>1, <1>2, <3>1
    <3>3. p * (d - 1) \in Nat
      BY <1>1, <3>2
    <3>4. size - 1 = p * (d - 1) + (p - 1) /\ p - 1 \in 0 .. p - 1 /\ size - 1 \in Nat
      BY <1>1, <1>2, <2>1, <3>2, <3>3
    <3> QED BY <1>1, <2>1, <3>2, <3>4, DivisionIs
  <2>2. CASE r # 0
    <3>1. p * d \in Nat
      BY <1>1, <1>2
    <3>2. size - 1 = p * d + (r - 1) /\ r - 1 \in 0 .. p - 1 /\ size - 1 \in Nat
      BY <1>1, <1>2, <2>2, <3>1
    <3> QED BY <1>1, <1>2, <2>2, <3>2, DivisionIs
  <2> QED BY <2>1, <2>2
<1>5. Tables(size) = (size - 1) \div p + 1 /\ (size - 1) \div p \in Nat
  <2>1. size - 1 \in Nat
    OBVIOUS
  <2>2. (size - 1) \div p \in Nat
    BY <1>1, <2>1, Division
  <2> QED BY <1>2, <1>3, <1>4, <2>2
<1>6. ASSUME size <= WORD - 1 PROVE Tables(size) <= PAGE
  <2>1. size - 1 < p * p /\ size - 1 \in Nat
    <3>1. p * p \in Nat
      BY <1>1
    <3> QED BY <1>1, <1>6, <3>1
  <2>2. (size - 1) \div p < p
    BY <1>1, <2>1, QuotientBelow
  <2> QED BY <1>1, <1>5, <2>2 DEF p
<1>7. ASSUME NEW q \in Nat, q < size PROVE q \div PAGE < Tables(size)
  <2>1. q <= size - 1 /\ size - 1 \in Nat
    BY <1>7
  <2>2. q \div p <= (size - 1) \div p /\ q \div p \in Nat
    BY <1>1, <2>1, DivMonotone, Division
  <2> QED BY <1>5, <2>2 DEF p
<1> QED BY <1>5, <1>6, <1>7 DEF p

\* Where the directory and the tables are.
LEMMA TablesPlaces ==
  /\ PAGE \in Nat \ {0} /\ PageDirBase \in Nat /\ PageTblBase \in Nat
  /\ PageTblBase = PageDirBase + PAGE /\ PageDirBase >= 2 * MB /\ MB \in Nat
  /\ (PageTblBase \div PAGE) * PAGE = PageTblBase /\ PageTblBase \div PAGE \in Nat
  /\ KernelEntryPoint \in Nat /\ HIGH \in Nat
<1> DEFINE d == PageDirBase \div PAGE
<1>1. /\ PAGE \in Nat \ {0} /\ PageDirBase \in Nat /\ PageTblBase = PageDirBase + PAGE
      /\ PageDirBase % PAGE = 0 /\ PageDirBase >= 2 * MB /\ MB \in Nat
      /\ KernelEntryPoint \in Nat /\ HIGH \in Nat
  BY PagingAssumption
<1>2. d \in Nat /\ PageDirBase = PAGE * d
  <2>1. d \in Nat /\ PageDirBase = PAGE * d + (PageDirBase % PAGE)
    BY <1>1, Division
  <2>2. PAGE * d \in Nat
    BY <1>1, <2>1
  <2> QED BY <1>1, <2>1, <2>2
<1> HIDE DEF d
<1>3. PageTblBase = PAGE * (d + 1) + 0 /\ PageTblBase \in Nat
  BY <1>1, <1>2
<1>4. PageTblBase \div PAGE = d + 1
  BY <1>1, <1>2, <1>3, DivisionIs, d + 1 \in Nat, 0 \in 0 .. PAGE - 1
<1>5. (d + 1) * PAGE = PAGE * (d + 1)
  BY <1>1, <1>2
<1> QED BY <1>1, <1>2, <1>3, <1>4, <1>5

\* With the A20 line open there is a cell for each address.
LEMMA LineIsOpen ==
  ASSUME a20 = TRUE
  PROVE  /\ \A c : Line(c) = c
         /\ \A c : At(high, c) = IF c \in DOMAIN high THEN high[c] ELSE Blank
BY DEF Line, At

\* An address is that of its page and the place in the page; so is that of an
\* entry of the tables.
LEMMA PageIs ==
  ASSUME NEW q \in Nat
  PROVE  /\ q \div PAGE \in Nat /\ q % PAGE \in 0 .. PAGE - 1
         /\ (PageTblBase \div PAGE + q \div PAGE) * PAGE + (q % PAGE) = PageTblBase + q
         /\ (q \div PAGE) * PAGE + (q % PAGE) = q
<1> DEFINE d == q \div PAGE
           r == q % PAGE
           t == PageTblBase \div PAGE
<1>1. PAGE \in Nat \ {0} /\ t \in Nat /\ t * PAGE = PageTblBase /\ PageTblBase \in Nat
  BY TablesPlaces
<1>2. d \in Nat /\ r \in 0 .. PAGE - 1 /\ q = PAGE * d + r
  BY <1>1, Division
<1> HIDE DEF d, r, t
<1>3. (t + d) * PAGE = t * PAGE + PAGE * d /\ d * PAGE = PAGE * d /\ PAGE * d \in Nat
  BY <1>1, <1>2
<1>4. (t + d) * PAGE + r = PageTblBase + q /\ d * PAGE + r = q
  BY <1>1, <1>2, <1>3
<1> QED BY <1>2, <1>4 DEF d, r, t

\* A page that has an entry in the tables, which the kernel does not overwrite, is
\* mapped to itself.
LEMMA WalksToItself ==
  ASSUME a20 = TRUE, DOMAIN high = 2 * MB .. HIGH - 1, KernelEntryPoint <= HIGH,
         dwMemSize \in 1 .. WORD - 1,
         \A c \in DOMAIN high : c < KernelEntryPoint => InTables(c),
         NEW q \in Nat, q \div PAGE <= (dwMemSize - 1) \div PAGE, PageTblBase + q < KernelEntryPoint
  PROVE  Walk(high, q) = q
<1> DEFINE n == Tables(dwMemSize)
           d == q \div PAGE
           t == PageTblBase \div PAGE
<1>1. n \in Nat \ {0} /\ n <= PAGE /\ d < n
  <2>1. dwMemSize \in Nat \ {0} /\ dwMemSize <= WORD - 1
    <3>1. WORD \in Nat
      BY PagingAssumption
    <3> QED BY <3>1
  <2>2. n = (dwMemSize - 1) \div PAGE + 1 /\ n \in Nat \ {0} /\ n <= PAGE
    BY <2>1, TablesAre
  <2>3. d \in Nat /\ (dwMemSize - 1) \div PAGE \in Nat
    BY <2>1, PageIs, TablesPlaces, Division, dwMemSize - 1 \in Nat
  <2>4. d <= (dwMemSize - 1) \div PAGE
    OBVIOUS
  <2> HIDE DEF d, n
  <2> QED BY <2>2, <2>3, <2>4
<1>2. d \in Nat /\ q % PAGE \in 0 .. PAGE - 1 /\ (t + d) * PAGE + (q % PAGE) = PageTblBase + q
  BY PageIs
<1> HIDE DEF n, d, t
<1>3. At(high, PageDirBase + d) = Frame(t + d)
  <2>1. PageDirBase + d \in 2 * MB .. HIGH - 1 /\ PageDirBase + d < KernelEntryPoint
    BY <1>1, <1>2, TablesPlaces
  <2>2. (PageDirBase + d) - PageDirBase = d
    BY <1>2, TablesPlaces
  <2>3. d \in 0 .. n - 1
    BY <1>1, <1>2
  <2>4. InTables(PageDirBase + d)
    BY <2>1
  <2>5. high[PageDirBase + d] = Frame(t + d)
    BY <2>2, <2>3, <2>4 DEF InTables, n, t
  <2> QED BY <2>1, <2>5, LineIsOpen
<1>4. At(high, PageTblBase + q) = Frame(q)
  <2>1. PageTblBase + q \in 2 * MB .. HIGH - 1 /\ PageTblBase + q < KernelEntryPoint
    BY TablesPlaces
  <2>2. (PageTblBase + q) - PageTblBase = q
    BY TablesPlaces
  <2>3. q \in 0 .. n * PAGE - 1
    <3>1. PAGE \in Nat \ {0} /\ n * PAGE \in Nat
      BY <1>1, TablesPlaces
    <3>2. q < n * PAGE
      BY <1>1, <3>1, QuotientBelow DEF d
    <3> QED BY <3>1, <3>2
  <2>4. InTables(PageTblBase + q)
    BY <2>1
  <2>5. high[PageTblBase + q] = Frame(q)
    BY <2>2, <2>3, <2>4 DEF InTables, n
  <2> QED BY <2>1, <2>5, LineIsOpen
<1>5. Frame(t + d).v[1] = t + d /\ Frame(q).v[1] = q /\ Frame(t + d).kind = "frame" /\ Frame(q).kind = "frame"
  BY DEF Frame, Cell
<1>6. At(high, Frame(t + d).v[1] * PAGE + (q % PAGE)) = Frame(q)
  BY <1>2, <1>4, <1>5
<1> QED BY <1>3, <1>5, <1>6 DEF Walk, d

\* The greatest number of a set that has a bound.
LEMMA MaxIs ==
  ASSUME NEW S, NEW b \in Nat, S \subseteq 0 .. b, S # {}
  PROVE  Max(S) \in S /\ \A e \in S : e <= Max(S)
<1> DEFINE Below == {n \in Nat : \E e \in S : e = b - n}
<1>1. Below # {}
  <2>1. PICK e \in S : TRUE
    OBVIOUS
  <2>2. b - e \in Nat /\ b - (b - e) = e
    OBVIOUS
  <2> QED BY <2>2
<1>2. Below \subseteq Nat
  OBVIOUS
<1> HIDE DEF Below
<1>3. \E m \in Below : \A k \in Below : ~ (<<k, m>> \in OpToRel(<, Nat))
  BY <1>1, <1>2, NatLessThanWellFounded, WFMin
<1>4. PICK m \in Below : \A k \in Below : ~ (k < m)
  BY <1>2, <1>3 DEF OpToRel
<1>5. m \in Nat /\ b - m \in S
  BY <1>2, <1>4 DEF Below
<1>6. ASSUME NEW e \in S PROVE b - m >= e
  <2>1. b - e \in Nat /\ b - (b - e) = e
    OBVIOUS
  <2>2. b - e \in Below
    BY <2>1 DEF Below
  <2>3. ~ (b - e < m)
    BY <1>4, <2>2
  <2> QED BY <1>5, <2>1, <2>3
<1>7. \E x \in S : \A y \in S : x >= y
  BY <1>5, <1>6
<1>8. Max(S) \in S /\ \A y \in S : Max(S) >= y
  BY <1>7 DEF Max
<1> DEFINE top == Max(S)
<1>9. top \in S /\ \A y \in S : top >= y
  BY <1>8
<1> HIDE DEF top
<1>10. \A e \in S : e <= top
  BY <1>9
<1> QED BY <1>9, <1>10 DEF top

\* The greatest number of a set of one.
LEMMA SingletonMax ==
  ASSUME NEW n \in Int
  PROVE  Max({n}) = n
BY DEF Max

\* The ends of the ranges.
EndOf(range) == ((range.base % WORD) + (range.length % WORD)) % WORD

\* 4 GB are some pages.
LEMMA WordIs == WORD \in Nat \ {0}
<1>1. PAGE * PAGE \in Nat /\ PAGE * PAGE # 0
  BY PagingAssumption
<1> QED BY <1>1, PagingAssumption

\* The ends that the loader finds are numbers of 32 bits, one for each range of
\* memory.
LEMMA EndsAre ==
  ASSUME e820 \in MemoryMaps
  PROVE  /\ Ends(e820.list) = {EndOf(e820.list[k]) : k \in Usable(e820.list)}
         /\ Ends(e820.list) \subseteq 0 .. WORD - 1
         /\ Len(e820.list) \in Nat /\ DOMAIN e820.list = 1 .. Len(e820.list)
         /\ \A k \in DOMAIN e820.list : e820.list[k].base \in Nat /\ e820.list[k].length \in Nat
         /\ UsableBelow4G(e820.list) \subseteq Usable(e820.list) /\ Usable(e820.list) \subseteq DOMAIN e820.list
<1>1. e820.list \in Seq([base : Nat, length : Nat, type : Nat])
  BY MapAssumption
<1>2. /\ Len(e820.list) \in Nat /\ DOMAIN e820.list = 1 .. Len(e820.list)
      /\ \A k \in DOMAIN e820.list : e820.list[k] \in [base : Nat, length : Nat, type : Nat]
  BY <1>1, ElementOfSeq
<1>3. Ends(e820.list) = {EndOf(e820.list[k]) : k \in Usable(e820.list)}
  BY DEF Ends, EndOf
<1>4. ASSUME NEW range \in [base : Nat, length : Nat, type : Nat]
      PROVE  EndOf(range) \in 0 .. WORD - 1
  <2>1. range.base % WORD \in Nat /\ range.length % WORD \in Nat
    BY WordIs, LinearIn
  <2> QED BY <2>1, WordIs, LinearIn DEF EndOf
<1>5. Ends(e820.list) \subseteq 0 .. WORD - 1
  <2> SUFFICES ASSUME NEW e \in Ends(e820.list) PROVE e \in 0 .. WORD - 1
    OBVIOUS
  <2>1. PICK k \in DOMAIN e820.list : e = EndOf(e820.list[k])
    BY <1>3 DEF Usable
  <2> QED BY <1>2, <1>4, <2>1
<1> QED BY <1>2, <1>3, <1>5 DEF Usable, UsableBelow4G

\* So may both that are added.
LEMMA SumsWrap ==
  ASSUME NEW a \in Nat, NEW b \in Nat, NEW s \in Nat \ {0}
  PROVE  ((a % s) + (b % s)) % s = (a + b) % s
<1> DEFINE r == b % s
<1>1. r \in 0 .. s - 1
  BY Division
<1> HIDE DEF r
<1>2. r \in Nat /\ a + r = r + a /\ a + b = b + a
  BY <1>1
<1>3. ((a % s) + r) % s = (a + r) % s
  BY <1>2, AddAndWrap
<1>4. (r + a) % s = (b + a) % s
  BY AddAndWrap DEF r
<1> QED BY <1>2, <1>3, <1>4 DEF r

\* Where a range of the map ends, without a limit and in 32 bits.
FullEnd(range) == range.base + range.length
WrappedEnd(range) == (range.base + range.length) % WORD

\* The end that the loader computes is the end in 32 bits.
LEMMA EndOfRange ==
  ASSUME NEW range, range.base \in Nat, range.length \in Nat
  PROVE  /\ FullEnd(range) \in Nat
         /\ EndOf(range) = WrappedEnd(range)
         /\ FullEnd(range) < WORD => EndOf(range) = FullEnd(range)
<1> DEFINE a == range.base
           b == range.length
<1> HIDE DEF a, b
<1>1. a \in Nat /\ b \in Nat
  BY DEF a, b
<1>2. ((a % WORD) + (b % WORD)) % WORD = (a + b) % WORD
  BY <1>1, WordIs, SumsWrap
<1>3. EndOf(range) = WrappedEnd(range)
  BY <1>2 DEF EndOf, WrappedEnd, a, b
<1>4. FullEnd(range) = a + b /\ WrappedEnd(range) = (a + b) % WORD /\ a + b \in Nat
  BY <1>1 DEF FullEnd, WrappedEnd, a, b
<1>5. a + b < WORD => (a + b) % WORD = a + b
  BY <1>4, WordIs, LinearIn
<1> QED BY <1>3, <1>4, <1>5

\* The end of a range of memory below 4 GB is one of those that the loader finds.
LEMMA EndsBelow4G ==
  ASSUME e820 \in MemoryMaps, ~e820.cf, NEW n \in UsableBelow4G(e820.list)
  PROVE  FullEnd(e820.list[n]) \in Ends(e820.list) /\ EndOf(e820.list[n]) = FullEnd(e820.list[n])
<1>1. n \in Usable(e820.list) /\ n \in DOMAIN e820.list
  BY EndsAre
<1>2. FullEnd(e820.list[n]) < WORD
  BY MapAssumption DEF FullEnd
<1>3. EndOf(e820.list[n]) = FullEnd(e820.list[n])
  BY <1>1, <1>2, EndsAre, EndOfRange
<1> QED BY <1>1, <1>3, EndsAre

\* The headers of the kernel, by the assumption on it.
LEMMA HeadersAre ==
  ASSUME floppy \in Floppies
  PROVE  /\ Len(phdr) \in Nat \ {0} /\ DOMAIN phdr = 1 .. Len(phdr)
         /\ \A n \in DOMAIN phdr : phdr[n].offset \in Nat /\ phdr[n].vaddr \in Nat /\ phdr[n].filesz \in Nat
         /\ \E n \in Copied(phdr) : KernelEntryPoint \in Target(phdr[n])
         /\ \A n \in Copied(phdr) :
              /\ n \in DOMAIN phdr /\ phdr[n].type # 0
              /\ LenOf("KERNEL") # 0 => phdr[n].offset + phdr[n].filesz <= 2 * LenOf("KERNEL")
              /\ \A c \in Target(phdr[n]) :
                   /\ c \in Nat /\ KernelEntryPoint <= c /\ c < HIGH /\ PageTblBase + c \div PAGE < KernelEntryPoint
                   /\ \A m \in Copied(phdr) :
                        c \in Target(phdr[m]) => c - phdr[n].vaddr + phdr[n].offset = c - phdr[m].vaddr + phdr[m].offset
<1>1. phdr \in Seq([type : Nat, offset : Nat, vaddr : Nat, filesz : Nat]) /\ phdr # <<>>
  BY KernelAssumption DEF phdr
<1>2. /\ Len(phdr) \in Nat \ {0} /\ DOMAIN phdr = 1 .. Len(phdr)
      /\ \A n \in DOMAIN phdr : phdr[n] \in [type : Nat, offset : Nat, vaddr : Nat, filesz : Nat]
  <2> DEFINE h == phdr
  <2> HIDE DEF h
  <2>1. h \in Seq([type : Nat, offset : Nat, vaddr : Nat, filesz : Nat]) /\ h # <<>>
    BY <1>1 DEF h
  <2>2. Len(h) # 0
    BY <2>1
  <2> QED BY <2>1, <2>2, ElementOfSeq DEF h
<1>3. \A n \in DOMAIN phdr : phdr[n].offset \in Nat /\ phdr[n].vaddr \in Nat /\ phdr[n].filesz \in Nat
  BY <1>2
<1>4. \E n \in Copied(phdr) : KernelEntryPoint \in Target(phdr[n])
  BY KernelAssumption DEF phdr
<1>5. ASSUME NEW n \in Copied(phdr)
      PROVE  /\ n \in DOMAIN phdr /\ phdr[n].type # 0
             /\ floppy["KERNEL"].chain = <<>> \/ phdr[n].offset + phdr[n].filesz <= 2 * LenOf("KERNEL")
             /\ \A c \in Target(phdr[n]) :
                  /\ KernelEntryPoint <= c /\ c < HIGH /\ PageTblBase + c \div PAGE < KernelEntryPoint
                  /\ \A m \in Copied(phdr) :
                       c \in Target(phdr[m]) => c - phdr[n].vaddr + phdr[n].offset = c - phdr[m].vaddr + phdr[m].offset
  <2>1. n \in DOMAIN phdr /\ phdr[n].type # 0
    BY DEF Copied
  <2> QED BY <2>1, KernelAssumption DEF phdr, LenOf
<1>6. floppy["KERNEL"].chain = <<>> <=> LenOf("KERNEL") = 0
  BY FloppyIs DEF Files
<1>7. ASSUME NEW n \in Copied(phdr), NEW c \in Target(phdr[n]) PROVE c \in Nat
  BY <1>3, <1>5, <1>7 DEF Target
<1> QED BY <1>2, <1>3, <1>4, <1>5, <1>6, <1>7

-----------------------------------------------------------------------------
(* The invariant.                                                          *)

\* What is true of the files while neither floppy nor low memory change, ...
LEMMA FilesSame ==
  ASSUME UNCHANGED <<floppy, fileVars>>, NEW x
  PROVE  /\ FileOK(x)' <=> FileOK(x)
         /\ \A n : PiecesRead(x, n)' <=> PiecesRead(x, n)
         /\ LenOf(x)' = LenOf(x)
         /\ HeadersThere' <=> HeadersThere
         /\ phdr' = phdr
         /\ \A u : KernelUnit(u)' = KernelUnit(u)
<1>1. UNCHANGED <<floppy, at, wRootDirSizeForLoop, wSectorNo, ent, bx, low>>
  BY DEF fileVars
<1>2. /\ \A n : PiecesRead(x, n)' <=> PiecesRead(x, n)
      /\ LenOf(x)' = LenOf(x) /\ (\A n : UpTo(x, n)' <=> UpTo(x, n)) /\ (WrittenOver(x)' <=> WrittenOver(x))
      /\ \A n : AtPiece(x, n)' <=> AtPiece(x, n)
  BY <1>1, DiskSame DEF PiecesRead, WrittenOver, AtPiece
<1>3. (\A n : ReadBefore(x, n)' <=> ReadBefore(x, n)) /\ (NoChain(x)' <=> NoChain(x))
  BY <1>1, <1>2 DEF ReadBefore, NoChain
<1>4. Boot!NoSector(ent)' <=> Boot!NoSector(ent)
  BY <1>1 DEF Boot!NoSector, Boot!FirstDataSector, Boot!SecNoOfRootDir, Boot!SecNoOfFAT1
<1>5. Reads(x)' <=> Reads(x)
  BY <1>1, <1>2, <1>3, <1>4 DEF Reads
<1>6. (FileTypes' <=> FileTypes) /\ (MemoryTypes' <=> MemoryTypes)
  BY <1>1 DEF FileTypes, MemoryTypes
<1>7. (HeadersThere' <=> HeadersThere) /\ phdr' = phdr
  BY <1>1 DEF HeadersThere, phdr, Loader!SectorOf
<1>8. \A u : KernelUnit(u)' = KernelUnit(u)
  BY <1>1, DiskSame DEF KernelUnit
<1> QED BY <1>1, <1>2, <1>5, <1>6, <1>7, <1>8 DEF FileOK

\* ... and of the loading, once the loader runs.
LEMMA FilesInvSame ==
  ASSUME UNCHANGED <<floppy, fileVars>>, FilesInv, stage # "boot", stage' # "boot",
         stage' \notin {"boot", "memchk", "loader"} => at = "loaded"
  PROVE  FilesInv'
<1>1. FileOK("KERNEL")' /\ LenOf("LOADER")' = LenOf("LOADER") /\ PiecesRead("LOADER", LenOf("LOADER"))'
  BY FilesSame DEF FilesInv
<1>2. at' = at
  BY DEF fileVars
<1> QED BY <1>1, <1>2 DEF FilesInv

\* It holds at the start.
LEMMA InitOK == StartupInit => StartupInv
<1> SUFFICES ASSUME StartupInit PROVE StartupInv
  OBVIOUS
<1> USE DEF StartupInit
<1>1. MemoryTypes
  BY DEF MemoryTypes
<1>2. FileOK("LOADER")
  BY <1>1, LoadingBegins DEF Files, OffsetOf
<1>3. OtherTypes
  <2>1. Len(phdr) \in Nat /\ Len(e820.list) \in Nat /\ WORD \in Nat \ {0}
    BY HeadersAre, EndsAre, WordIs
  <2>2. /\ asked \in 0 .. Len(e820.list) /\ dwMCRNumber \in 0 .. asked
        /\ dwMemSize \in 0 .. WORD - 1
        /\ ecx \in 0 .. Len(phdr) /\ esi \in 0 .. Len(phdr) + 1
    BY <2>1
  <2>3. DOMAIN high = 2 * MB .. HIGH - 1 /\ \A c \in DOMAIN high : high[c].kind \in {"blank", "frame", "low"}
    BY OldMemoryAssumption DEF Blank, Frame, Cell
  <2> QED BY <2>2, <2>3 DEF OtherTypes, Stages
<1>4. FilesInv /\ AskedInv /\ SizeInv /\ TablesInv /\ CopiedInv /\ WildOnlyIf
  BY <1>2 DEF FilesInv, AskedInv, SizeInv, TablesInv, CopiedInv, WildOnlyIf, Protected
<1> QED BY <1>3, <1>4 DEF StartupInv

\* While a file is loaded.
LEMMA OthersSame ==
  ASSUME StartupInv, UNCHANGED <<floppy, stage, memory>>, stage \in {"boot", "loader"}
  PROVE  OtherTypes' /\ AskedInv' /\ SizeInv' /\ TablesInv' /\ CopiedInv' /\ WildOnlyIf'
<1>1. UNCHANGED <<floppy, stage, e820, asked, dwMCRNumber, dwMemSize, a20, high, ecx, esi>> /\ phdr' = phdr
  BY DEF memory, phdr
<1>2. OtherTypes' /\ AskedInv'
  BY <1>1 DEF StartupInv, OtherTypes, AskedInv
<1>3. SizeInv' /\ TablesInv' /\ CopiedInv' /\ WildOnlyIf'
  BY <1>1 DEF StartupInv, SizeInv, TablesInv, CopiedInv, WildOnlyIf, Protected
<1> QED BY <1>2, <1>3

\* The boot sector keeps the invariant, ...
LEMMA BootLoads ==
  ASSUME StartupInv, BootSearch \/ BootNoLoader \/ BootRead \/ BootFAT \/ BootRereads
  PROVE  StartupInv'
<1>1. stage = "boot" /\ UNCHANGED <<floppy, stage, memory>>
  BY DEF BootSearch, BootNoLoader, BootRead, BootFAT, BootRereads, OfBoot
<1>2. FileOK("LOADER") /\ floppy \in Floppies
  BY <1>1 DEF StartupInv, FilesInv, OtherTypes
<1>3. SearchOf("LOADER") \/ NoFileOf("LOADER") \/ ReadOf("LOADER") \/ FollowOf("LOADER") \/ RereadOf("LOADER")
  BY BootSteps
<1>4. FileOK("LOADER")'
  BY <1>1, <1>2, <1>3, LoadingKeeps DEF Files
<1>5. FilesInv'
  BY <1>1, <1>4 DEF FilesInv
<1> QED BY <1>1, <1>5, OthersSame DEF StartupInv

\* ... the loader does while it reads the kernel, which does not reach the
\* loader itself, ...
LEMMA LoaderLoads ==
  ASSUME StartupInv, LoaderSearch \/ LoaderNoKernel \/ LoaderRead \/ LoaderFAT \/ LoaderRereads
  PROVE  StartupInv'
<1>1. stage = "loader" /\ UNCHANGED <<floppy, stage, memory>>
  BY DEF LoaderSearch, LoaderNoKernel, LoaderRead, LoaderFAT, LoaderRereads, OfLoader
<1>2. FileOK("KERNEL") /\ PiecesRead("LOADER", LenOf("LOADER")) /\ floppy \in Floppies
  BY <1>1 DEF StartupInv, FilesInv, OtherTypes
<1>3. SearchOf("KERNEL") \/ NoFileOf("KERNEL") \/ ReadOf("KERNEL") \/ FollowOf("KERNEL") \/ RereadOf("KERNEL")
  BY LoaderSteps
<1>4. FileOK("KERNEL")' /\ BehindKept("KERNEL")
  BY <1>1, <1>2, <1>3, LoadingKeeps DEF Files
<1>5. PiecesRead("LOADER", LenOf("LOADER"))'
  <2>1. LenOf("LOADER") \in Nat /\ UpTo("LOADER", LenOf("LOADER"))
    BY <1>2, FloppyIs DEF Files
  <2>2. \A u \in 0 .. LOW - 1 : u >= BaseOf("LOADER") => low'[u] = low[u]
    BY <1>4 DEF BehindKept, BaseOf
  <2>3. PiecesRead("LOADER", LenOf("LOADER"))' <=> \A n : n = LenOf("LOADER") => PiecesRead("LOADER", n)'
    BY <1>1, DiskSame
  <2>4. \A n : n = LenOf("LOADER") => PiecesRead("LOADER", n)'
    BY <1>1, <1>2, <2>1, <2>2, PiecesKept DEF Files
  <2> QED BY <2>3, <2>4
<1>6. FilesInv'
  BY <1>1, <1>4, <1>5 DEF FilesInv
<1> QED BY <1>1, <1>6, OthersSame DEF StartupInv

\* ... and so does the jump from one to the other.
LEMMA JumpOK ==
  ASSUME StartupInv, JumpToLoader
  PROVE  StartupInv'
<1>1. /\ stage = "boot" /\ at = "loaded" /\ stage' = "memchk"
      /\ UNCHANGED <<floppy, low, e820, asked, dwMCRNumber, dwMemSize, a20, high, ecx, esi>> /\ phdr' = phdr
  BY DEF JumpToLoader, memory, phdr
<1>2. FileOK("LOADER") /\ floppy \in Floppies /\ "LOADER" \in Files /\ "KERNEL" \in Files
  BY <1>1 DEF StartupInv, FilesInv, OtherTypes, Files
<1>3. PiecesRead("LOADER", LenOf("LOADER"))
  BY <1>1, <1>2, FloppyIs DEF FileOK, Reads
<1>4. FileOK("KERNEL")'
  <2>1. /\ at' = "root" /\ wRootDirSizeForLoop' = RootDirSectors /\ wSectorNo' = Boot!SecNoOfRootDir
        /\ ent' = 0 /\ bx' = OffsetOf("KERNEL")
    BY LoaderConstants DEF JumpToLoader, Loader!Start, OffsetOf
  <2>2. MemoryTypes' /\ floppy' \in Floppies
    BY <1>1, <1>2 DEF FileOK, MemoryTypes
  <2>3. Boot!SecNoOfRootDir' = Boot!SecNoOfRootDir
    BY DEF Boot!SecNoOfRootDir, Boot!SecNoOfFAT1
  <2>4. FileTypes'
    BY <1>2, <2>1, <2>3, FilePlaces, SectorNumbers, EOFIs, GeometryAssumption DEF FileTypes
  <2>5. floppy["KERNEL"].pos \div EntsPerSec \in Nat
    BY <1>2, FloppyIs, GeometryAssumption, Division
  <2>6. Reads("KERNEL")'
    BY <1>1, <2>1, <2>3, <2>5, SectorNumbers, GeometryAssumption DEF Reads
  <2> QED BY <2>1, <2>2, <2>4, <2>6 DEF FileOK, OffsetOf
<1>5. FilesInv'
  <2>1. PiecesRead("LOADER", LenOf("LOADER"))'
    BY <1>1, <1>3, DiskSame DEF PiecesRead
  <2> QED BY <1>1, <1>4, <2>1 DEF FilesInv
<1>6. OtherTypes'
  BY <1>1 DEF StartupInv, OtherTypes, Stages
<1>7. AskedInv'
  <2>1. ~e820.cf => Len(e820.list) \in Nat \ {0}
    <3>1. e820 \in MemoryMaps
      BY DEF StartupInv, OtherTypes
    <3>2. e820.list \in Seq([base : Nat, length : Nat, type : Nat]) /\ (~e820.cf => e820.list # <<>>)
      BY <3>1, MapAssumption
    <3> DEFINE l == e820.list
    <3> HIDE DEF l
    <3>3. l \in Seq([base : Nat, length : Nat, type : Nat]) => Len(l) \in Nat /\ (l # <<>> => Len(l) # 0)
      OBVIOUS
    <3> QED BY <3>2, <3>3 DEF l
  <2> QED BY <1>1, <2>1 DEF StartupInv, AskedInv
<1>8. SizeInv' /\ TablesInv' /\ CopiedInv' /\ WildOnlyIf'
  BY <1>1 DEF StartupInv, SizeInv, TablesInv, CopiedInv, WildOnlyIf, Protected
<1> QED BY <1>5, <1>6, <1>7, <1>8 DEF StartupInv

\* The map is asked for: all of it, or what was got is forgotten.
LEMMA MemChkOK ==
  ASSUME StartupInv, MemChk
  PROVE  StartupInv'
<1>1. /\ stage = "memchk" /\ stage' \in {"memchk", "loader"}
      /\ UNCHANGED <<floppy, fileVars, e820, dwMemSize, a20, high, ecx, esi>> /\ phdr' = phdr
  BY DEF MemChk, phdr
<1>2. asked \in 0 .. Len(e820.list) /\ dwMCRNumber \in 0 .. asked /\ Len(e820.list) \in Nat
  BY EndsAre DEF StartupInv, OtherTypes
<1>3. FilesInv'
  BY <1>1, FilesInvSame DEF StartupInv
<1>4. OtherTypes'
  BY <1>1, <1>2 DEF StartupInv, OtherTypes, Stages, MemChk
<1>5. AskedInv'
  BY <1>1, <1>2 DEF StartupInv, AskedInv, MemChk
<1>6. SizeInv' /\ TablesInv' /\ CopiedInv' /\ WildOnlyIf'
  BY <1>1 DEF StartupInv, SizeInv, TablesInv, CopiedInv, WildOnlyIf, Protected
<1> QED BY <1>3, <1>4, <1>5, <1>6 DEF StartupInv

\* Protected mode, with the line open.
LEMMA EnterOK ==
  ASSUME StartupInv, EnterProtectedMode
  PROVE  StartupInv'
<1>1. /\ stage = "loader" /\ at = "loaded" /\ stage' = "meminfo" /\ a20' = TRUE
      /\ UNCHANGED <<floppy, fileVars, e820, asked, dwMCRNumber, dwMemSize, high, ecx, esi>> /\ phdr' = phdr
  BY DEF EnterProtectedMode, phdr
<1>2. FilesInv'
  BY <1>1, FilesInvSame DEF StartupInv
<1>3. OtherTypes' /\ AskedInv'
  BY <1>1 DEF StartupInv, OtherTypes, Stages, AskedInv
<1>4. SizeInv' /\ TablesInv' /\ CopiedInv' /\ WildOnlyIf'
  BY <1>1 DEF StartupInv, SizeInv, TablesInv, CopiedInv, WildOnlyIf, Protected
<1> QED BY <1>2, <1>3, <1>4 DEF StartupInv

\* The greatest of the ends is found.
LEMMA DispMemInfoOK ==
  ASSUME StartupInv, DispMemInfo
  PROVE  StartupInv'
<1>1. /\ stage = "meminfo" /\ stage' \in {"wild", "paging"}
      /\ UNCHANGED <<floppy, fileVars, e820, asked, dwMCRNumber, a20, high, ecx, esi>> /\ phdr' = phdr
  BY DEF DispMemInfo, phdr
<1>2. FilesInv'
  BY <1>1, FilesInvSame DEF StartupInv, FilesInv
<1>3. stage' = "paging" => dwMemSize' = Max(Ends(e820.list) \cup {0})
  BY <1>1 DEF DispMemInfo
<1>4. /\ Max(Ends(e820.list) \cup {0}) \in Ends(e820.list) \cup {0}
      /\ \A e \in Ends(e820.list) : e <= Max(Ends(e820.list) \cup {0})
      /\ Max(Ends(e820.list) \cup {0}) \in 0 .. WORD - 1
  <2> DEFINE S == Ends(e820.list) \cup {0}
  <2>1. S \subseteq 0 .. WORD - 1 /\ S # {} /\ WORD - 1 \in Nat
    BY EndsAre, WordIs DEF StartupInv, OtherTypes
  <2> HIDE DEF S
  <2>2. Max(S) \in S /\ \A e \in S : e <= Max(S)
    BY <2>1, MaxIs
  <2>3. Max(S) \in 0 .. WORD - 1
    BY <2>1, <2>2
  <2> QED BY <2>2, <2>3 DEF S
<1>5. OtherTypes'
  <2>1. dwMemSize' \in 0 .. WORD - 1
    BY <1>1, <1>3, <1>4 DEF StartupInv, OtherTypes, DispMemInfo
  <2> QED BY <1>1, <2>1 DEF StartupInv, OtherTypes, Stages
<1>6. stage' = "wild" <=> dwMCRNumber = 0
  BY DEF DispMemInfo
<1>7. e820.cf \in BOOLEAN /\ (~e820.cf => dwMCRNumber = asked /\ asked # 0) /\ (e820.cf => dwMCRNumber = 0)
  BY <1>1, MapAssumption DEF StartupInv, AskedInv, OtherTypes
<1>8. AskedInv'
  BY <1>1, <1>6, <1>7 DEF AskedInv
<1>9. SizeInv'
  BY <1>1, <1>3, <1>4 DEF SizeInv
<1>10. TablesInv' /\ CopiedInv'
  BY <1>1 DEF StartupInv, TablesInv, CopiedInv, Protected
<1>11. WildOnlyIf'
  BY <1>1, <1>6, <1>7 DEF WildOnlyIf
<1> QED BY <1>2, <1>5, <1>8, <1>9, <1>10, <1>11 DEF StartupInv

\* The memory that the BIOS names is enough for the kernel.
LEMMA EnoughMemory ==
  ASSUME floppy \in Floppies, e820 \in MemoryMaps, ~e820.cf, dwMemSize \in 0 .. WORD - 1,
         \A e \in Ends(e820.list) : e <= dwMemSize
  PROVE  /\ dwMemSize \in 1 .. WORD - 1
         /\ \A n \in Copied(phdr) : \A c \in Target(phdr[n]) : c \div PAGE < dwMemSize
<1>1. PICK e \in Ends(e820.list) : \A n \in Copied(phdr) : \A c \in Target(phdr[n]) : c \div PAGE < e
  <2>1. PICK k \in UsableBelow4G(e820.list) :
          \A n \in Copied(phdr) : \A c \in Target(phdr[n]) : c \div PAGE < FullEnd(e820.list[k])
    BY MapAssumption DEF phdr, FullEnd
  <2> QED BY <2>1, EndsBelow4G
<1>2. e \in Nat /\ e <= dwMemSize /\ dwMemSize \in Nat
  <2>1. e \in 0 .. WORD - 1
    BY EndsAre
  <2> QED BY <2>1, WordIs
<1>3. ASSUME NEW n \in Copied(phdr), NEW c \in Target(phdr[n]) PROVE c \div PAGE < dwMemSize /\ c \div PAGE \in Nat
  <2>1. c \in Nat
    BY HeadersAre
  <2>2. c \div PAGE \in Nat
    BY <2>1, TablesPlaces, Division
  <2>3. c \div PAGE < e
    BY <1>1
  <2> QED BY <1>2, <2>2, <2>3
<1>4. PICK n \in Copied(phdr) : KernelEntryPoint \in Target(phdr[n])
  BY HeadersAre
<1>5. dwMemSize # 0
  <2>1. KernelEntryPoint \div PAGE < dwMemSize /\ KernelEntryPoint \div PAGE \in Nat
    BY <1>3, <1>4
  <2> QED BY <1>2, <2>1
<1>6. dwMemSize \in 1 .. WORD - 1
  BY <1>5, WordIs
<1> QED BY <1>3, <1>6

\* The tables lie below the kernel, and the kernel in memory.
LEMMA KernelPlaces ==
  ASSUME floppy \in Floppies
  PROVE  PageTblBase <= KernelEntryPoint /\ KernelEntryPoint <= HIGH
<1>1. PICK n \in Copied(phdr) : KernelEntryPoint \in Target(phdr[n])
  BY HeadersAre
<1>2. KernelEntryPoint < HIGH /\ PageTblBase + KernelEntryPoint \div PAGE < KernelEntryPoint
  BY <1>1, HeadersAre
<1>3. KernelEntryPoint \div PAGE \in Nat
  BY TablesPlaces, Division
<1> QED BY <1>2, <1>3, TablesPlaces

\* The tables are written, whatever was there before.
LEMMA SetupPagingOK ==
  ASSUME StartupInv, SetupPaging
  PROVE  StartupInv'
<1> DEFINE n == Tables(dwMemSize)
           Directory(mem) == [c \in DOMAIN mem |->
             IF \E k \in 0 .. n - 1 : Line(PageDirBase + k) = c THEN Frame(PageTblBase \div PAGE + (c - PageDirBase))
             ELSE mem[c]]
           PageTables(mem) == [c \in DOMAIN mem |->
             IF \E k \in 0 .. n * PAGE - 1 : Line(PageTblBase + k) = c
             THEN Frame(Max({k \in 0 .. n * PAGE - 1 : Line(PageTblBase + k) = c})) ELSE mem[c]]
<1>1. /\ stage = "paging"
      /\ UNCHANGED <<floppy, fileVars, e820, asked, dwMCRNumber, dwMemSize, a20, ecx, esi>> /\ phdr' = phdr
  BY DEF SetupPaging, phdr
<1>2. ~e820.cf /\ a20 = TRUE /\ dwMemSize \in 1 .. WORD - 1 /\ floppy \in Floppies
  <2>1. ~e820.cf
    BY <1>1 DEF StartupInv, AskedInv
  <2>2. a20 = TRUE
    BY <1>1 DEF StartupInv, TablesInv, Protected, OtherTypes
  <2> QED BY <1>1, <2>1, <2>2, EnoughMemory DEF StartupInv, OtherTypes, SizeInv
<1>3. n \in Nat \ {0} /\ n <= PAGE
  BY <1>2, TablesAre, WordIs
<1>4. stage' = "initkernel" /\ high' = PageTables(Directory(high))
  BY <1>1, <1>3 DEF SetupPaging
<1>5. DOMAIN high = 2 * MB .. HIGH - 1
  BY DEF StartupInv, OtherTypes
<1>6. PAGE \in Nat \ {0} /\ n * PAGE \in Nat
  BY <1>3, TablesPlaces
<1> HIDE DEF n
<1>7. DOMAIN high' = DOMAIN high
  BY <1>4
<1>8. ASSUME NEW c \in DOMAIN high, c - PageTblBase \in 0 .. n * PAGE - 1
      PROVE  high'[c] = Frame(c - PageTblBase)
  <2>1. {k \in 0 .. n * PAGE - 1 : Line(PageTblBase + k) = c} = {c - PageTblBase}
    <3>1. c \in Int /\ PageTblBase \in Int
      BY <1>5, TablesPlaces
    <3>2. \A k \in 0 .. n * PAGE - 1 : Line(PageTblBase + k) = PageTblBase + k
      BY <1>2, LineIsOpen
    <3>3. \A k \in Int : PageTblBase + k = c <=> k = c - PageTblBase
      BY <3>1
    <3> QED BY <1>8, <3>2, <3>3
  <2>2. Max({k \in 0 .. n * PAGE - 1 : Line(PageTblBase + k) = c}) = c - PageTblBase
    BY <1>8, <2>1, SingletonMax
  <2>3. \E k \in 0 .. n * PAGE - 1 : Line(PageTblBase + k) = c
    BY <2>1
  <2>4. DOMAIN Directory(high) = DOMAIN high
    OBVIOUS
  <2> HIDE DEF Directory
  <2>5. high'[c] = IF \E k \in 0 .. n * PAGE - 1 : Line(PageTblBase + k) = c
                   THEN Frame(Max({k \in 0 .. n * PAGE - 1 : Line(PageTblBase + k) = c})) ELSE Directory(high)[c]
    BY <1>4, <2>4
  <2> QED BY <2>2, <2>3, <2>5
<1>9. ASSUME NEW c \in DOMAIN high, c < PageTblBase, c - PageDirBase \in 0 .. n - 1
      PROVE  high'[c] = Frame(PageTblBase \div PAGE + (c - PageDirBase))
  <2>1. ~\E k \in 0 .. n * PAGE - 1 : Line(PageTblBase + k) = c
    <3>1. c \in Int /\ PageTblBase \in Int
      BY <1>5, TablesPlaces
    <3>2. \A k \in Nat : PageTblBase + k # c
      BY <1>9, <3>1
    <3> QED BY <1>2, <3>2, LineIsOpen
  <2>2. high'[c] = Directory(high)[c]
    BY <1>4, <2>1
  <2>3. \E k \in 0 .. n - 1 : Line(PageDirBase + k) = c
    <3>1. c \in Int /\ PageDirBase \in Int /\ n \in Int
      BY <1>3, <1>5, TablesPlaces
    <3>2. \A k \in 0 .. n - 1 : Line(PageDirBase + k) = PageDirBase + k
      BY <1>2, LineIsOpen
    <3>3. PageDirBase + (c - PageDirBase) = c
      BY <3>1
    <3> QED BY <1>9, <3>2, <3>3
  <2> QED BY <1>5, <2>2, <2>3
<1>10. ASSUME NEW c \in DOMAIN high PROVE InTables(c)' /\ high'[c].kind \in {"blank", "frame", "low"}
  <2>1. c \in Int
    BY <1>5
  <2>2. c - PageDirBase \in 0 .. PAGE - 1 => c < PageTblBase
    BY <2>1, TablesPlaces
  <2>3. c - PageDirBase \in 0 .. n - 1 => high'[c] = Frame(PageTblBase \div PAGE + (c - PageDirBase))
    <3>1. c - PageDirBase \in 0 .. n - 1 => c - PageDirBase \in 0 .. PAGE - 1
      BY <1>3, <1>6, <2>1, TablesPlaces
    <3> QED BY <1>9, <2>2, <3>1
  <2>4. Tables(dwMemSize)' = n
    BY <1>1 DEF n, Tables
  <2>5. InTables(c)'
    BY <1>8, <2>3, <2>4 DEF InTables
  <2>6. high'[c].kind \in {"blank", "frame", "low"}
    <3>1. (\E v : high'[c] = Frame(v)) \/ high'[c] = high[c]
      BY <1>4
    <3>2. (\A v : Frame(v).kind = "frame") /\ high[c].kind \in {"blank", "frame", "low"}
      BY DEF Frame, Cell, StartupInv, OtherTypes
    <3> QED BY <3>1, <3>2
  <2> QED BY <2>5, <2>6
<1>11. FilesInv'
  BY <1>1, <1>4, FilesInvSame DEF StartupInv, FilesInv
<1>12. OtherTypes'
  BY <1>1, <1>4, <1>7, <1>10 DEF StartupInv, OtherTypes, Stages
<1>13. AskedInv' /\ SizeInv' /\ CopiedInv' /\ WildOnlyIf'
  BY <1>1, <1>2, <1>4 DEF StartupInv, AskedInv, SizeInv, CopiedInv, WildOnlyIf
<1>14. TablesInv'
  BY <1>1, <1>2, <1>4, <1>7, <1>10 DEF TablesInv, Protected
<1> QED BY <1>11, <1>12, <1>13, <1>14 DEF StartupInv

\* The headers are where the file was loaded unless the end of it is.
LEMMA HeadersInFile ==
  ASSUME floppy \in Floppies, FileOK("KERNEL"), at = "loaded"
  PROVE  /\ HeadersThere <=> Loader!FitsSegment
         /\ LenOf("KERNEL") # 0
         /\ HeadersThere => \A u \in 0 .. 2 * LenOf("KERNEL") - 1 : low[BaseOfKernelFile + u] = KernelUnit(u)
<1> DEFINE n == LenOf("KERNEL")
<1>1. n \in Nat /\ n # 0 /\ (UpTo("KERNEL", n) => PiecesRead("KERNEL", n)) /\ (~UpTo("KERNEL", n) => WrittenOver("KERNEL"))
  BY FloppyIs DEF FileOK, Reads, Files
<1>2. Loader!FitsSegment <=> UpTo("KERNEL", n)
  BY DEF Loader!FitsSegment, UpTo, OffsetOf, LenOf
<1>3. BaseOfKernelFile \in Nat /\ BaseOf("KERNEL") = BaseOfKernelFile /\ OffsetOf("KERNEL") = 0
  BY LayoutAssumption DEF BaseOf, OffsetOf
<1>4. HeadersThere <=> low[BaseOfKernelFile] = <<Boot!SectorOf("KERNEL", 1), 0>>
  BY LoaderSectors DEF HeadersThere
<1>5. WrittenOver("KERNEL") <=> low[BaseOfKernelFile] # <<Boot!SectorOf("KERNEL", 1), 0>>
  BY <1>3, BaseOfKernelFile + 0 = BaseOfKernelFile DEF WrittenOver
<1> HIDE DEF n
<1>6. ASSUME PiecesRead("KERNEL", n), NEW u \in 0 .. 2 * n - 1
      PROVE  low[BaseOfKernelFile + u] = KernelUnit(u)
  <2> DEFINE k == u \div 2 + 1
             h == u % 2
  <2>1. k \in 1 .. n /\ h \in 0 .. 1 /\ u = 2 * (k - 1) + h
    BY <1>1
  <2>2. low[BaseOf("KERNEL") + OffsetOf("KERNEL") + 2 * (k - 1) + h] = <<Boot!SectorOf("KERNEL", k), h>>
    BY <1>6, <2>1 DEF PiecesRead
  <2> HIDE DEF k, h
  <2>3. BaseOf("KERNEL") + OffsetOf("KERNEL") + 2 * (k - 1) + h = BaseOfKernelFile + u
    BY <1>3, <2>1
  <2> QED BY <2>2, <2>3 DEF KernelUnit, k, h
<1>7. PiecesRead("KERNEL", n) => HeadersThere
  <2> SUFFICES ASSUME PiecesRead("KERNEL", n) PROVE HeadersThere
    OBVIOUS
  <2>1. low[BaseOfKernelFile + 0] = KernelUnit(0)
    BY <1>1, <1>6, 0 \in 0 .. 2 * n - 1
  <2>2. KernelUnit(0) = <<Boot!SectorOf("KERNEL", 1), 0>>
    BY 0 \div 2 + 1 = 1, 0 % 2 = 0 DEF KernelUnit
  <2> QED BY <1>3, <1>4, <2>1, <2>2, BaseOfKernelFile + 0 = BaseOfKernelFile
<1> QED BY <1>1, <1>2, <1>4, <1>5, <1>6, <1>7 DEF n

\* The headers are found, unless the kernel was too long for its segment.
LEMMA InitKernelOK ==
  ASSUME StartupInv, InitKernel
  PROVE  StartupInv'
<1>1. /\ stage = "initkernel" /\ stage' \in {"segments", "wild"}
      /\ UNCHANGED <<floppy, fileVars, e820, asked, dwMCRNumber, dwMemSize, a20, high>> /\ phdr' = phdr
  BY DEF InitKernel, phdr
<1>2. floppy \in Floppies /\ FileOK("KERNEL") /\ at = "loaded" /\ ~e820.cf
  BY <1>1 DEF StartupInv, OtherTypes, FilesInv, AskedInv
<1>3. Len(phdr) \in Nat \ {0}
  BY <1>2, HeadersAre
<1>4. /\ stage' = "segments" => ecx' = Len(phdr) /\ esi' = 1 /\ HeadersThere
      /\ stage' = "wild" => UNCHANGED <<ecx, esi>> /\ ~HeadersThere
  BY DEF InitKernel
<1>5. FilesInv'
  BY <1>1, FilesInvSame DEF StartupInv, FilesInv
<1>6. OtherTypes'
  <2>1. ecx' \in 0 .. Len(phdr) /\ esi' \in 0 .. Len(phdr) + 1
    BY <1>1, <1>3, <1>4 DEF StartupInv, OtherTypes
  <2> QED BY <1>1, <2>1 DEF StartupInv, OtherTypes, Stages
<1>7. AskedInv' /\ SizeInv' /\ TablesInv'
  <2>1. \A c : InTables(c)' <=> InTables(c)
    BY <1>1 DEF InTables, Tables
  <2> QED BY <1>1, <1>2, <2>1 DEF StartupInv, AskedInv, SizeInv, TablesInv, Protected
<1>8. CopiedInv'
  <2>1. HeadersThere' <=> HeadersThere
    BY <1>1, FilesSame
  <2>2. Copied(phdr)' = Copied(phdr) /\ \A m \in Copied(phdr) : ~(m < 1)
    <3>1. \A m \in Copied(phdr) : m \in 1 .. Len(phdr)
      BY <1>2, HeadersAre
    <3> QED BY <1>1, <1>3, <3>1 DEF Copied
  <2> QED BY <1>1, <1>3, <1>4, <2>1, <2>2 DEF CopiedInv
<1>9. WildOnlyIf'
  <2>1. Loader!FitsSegment' <=> Loader!FitsSegment
    BY <1>1 DEF Loader!FitsSegment
  <2> QED BY <1>2, <1>4, <2>1, HeadersInFile DEF WildOnlyIf
<1> QED BY <1>5, <1>6, <1>7, <1>8, <1>9 DEF StartupInv

\* Where a segment is linked, its pages are mapped to themselves.
LEMMA SegmentMapped ==
  ASSUME StartupInv, stage = "segments", NEW m \in Copied(phdr), NEW c \in Target(phdr[m])
  PROVE  /\ Walk(high, c \div PAGE) = c \div PAGE
         /\ c \div PAGE \in 2 * (MB \div PAGE) .. HIGH \div PAGE
         /\ Line(Walk(high, c \div PAGE) * PAGE + (c % PAGE)) = c
<1>1. /\ floppy \in Floppies /\ e820 \in MemoryMaps /\ ~e820.cf /\ a20 = TRUE /\ dwMemSize \in 0 .. WORD - 1
      /\ \A e \in Ends(e820.list) : e <= dwMemSize
      /\ DOMAIN high = 2 * MB .. HIGH - 1 /\ \A d \in DOMAIN high : d < KernelEntryPoint => InTables(d)
  BY DEF StartupInv, OtherTypes, AskedInv, TablesInv, SizeInv, Protected
<1>2. dwMemSize \in 1 .. WORD - 1 /\ c \div PAGE < dwMemSize
  BY <1>1, EnoughMemory
<1>3. c \in Nat /\ KernelEntryPoint <= c /\ c < HIGH /\ PageTblBase + c \div PAGE < KernelEntryPoint
  BY <1>1, HeadersAre
<1>4. c \div PAGE \in Nat /\ (c \div PAGE) * PAGE + (c % PAGE) = c
  BY <1>3, PageIs
<1>5. Walk(high, c \div PAGE) = c \div PAGE
  <2>1. c \div PAGE <= dwMemSize - 1 /\ dwMemSize - 1 \in Nat
    BY <1>2, <1>4, WordIs
  <2>2. (c \div PAGE) \div PAGE <= (dwMemSize - 1) \div PAGE
    BY <1>4, <2>1, DivMonotone, TablesPlaces
  <2> QED BY <1>1, <1>2, <1>3, <1>4, <2>2, WalksToItself, KernelPlaces
<1>6. c \div PAGE \in 2 * (MB \div PAGE) .. HIGH \div PAGE
  <2> DEFINE q == c \div PAGE
             d == MB \div PAGE
  <2>1. PAGE \in Nat \ {0} /\ MB \in Nat /\ HIGH \in Nat /\ c >= 2 * MB
    BY <1>1, <1>3, TablesPlaces, KernelPlaces
  <2>7. d \in Nat /\ MB % PAGE \in 0 .. PAGE - 1 /\ MB = PAGE * d + (MB % PAGE)
    BY <2>1, Division
  <2>2. d \in Nat /\ MB % PAGE \in Nat /\ MB = PAGE * d + (MB % PAGE)
    <3> HIDE DEF d
    <3> DEFINE r == MB % PAGE
    <3> HIDE DEF r
    <3>1. r \in 0 .. PAGE - 1 => r \in Nat
      BY <2>1
    <3> QED BY <2>7, <3>1 DEF r
  <2> HIDE DEF d
  <2>3. PAGE * d \in Nat /\ (2 * d) * PAGE = 2 * (PAGE * d) /\ 2 * d \in Nat
    BY <2>1, <2>2
  <2>4. ~(c < (2 * d) * PAGE)
    BY <1>3, <2>1, <2>2, <2>3
  <2>5. ~(q < 2 * d)
    BY <1>3, <2>1, <2>3, <2>4, QuotientBelow
  <2>6. q <= HIGH \div PAGE /\ HIGH \div PAGE \in Nat
    BY <1>3, <2>1, DivMonotone, Division, c <= HIGH
  <2> QED BY <1>4, <2>3, <2>5, <2>6 DEF d
<1>7. Line(Walk(high, c \div PAGE) * PAGE + (c % PAGE)) = c
  BY <1>1, <1>4, <1>5, LineIsOpen
<1> QED BY <1>5, <1>6, <1>7

\* What a segment's copying leaves in memory.
LEMMA SegmentCopied ==
  ASSUME StartupInv, stage = "segments", NEW m \in Copied(phdr)
  PROVE  LET hdr == phdr[m]
             copy == MemCpy(hdr.vaddr, BaseOfKernelFile + hdr.offset, hdr.filesz)
         IN /\ Mapped(hdr.vaddr, hdr.filesz)
            /\ DOMAIN copy = DOMAIN high
            /\ \A c \in DOMAIN high :
                 copy[c] = IF c \in Target(hdr) THEN Cell("low", KernelUnit(c - hdr.vaddr + hdr.offset)) ELSE high[c]
<1> DEFINE dst == phdr[m].vaddr
           src == BaseOfKernelFile + phdr[m].offset
           n == phdr[m].filesz
           To(k) == Line(Walk(high, (dst + k) \div PAGE) * PAGE + ((dst + k) % PAGE))
           copy == MemCpy(dst, src, n)
<1>1. floppy \in Floppies /\ FileOK("KERNEL") /\ at = "loaded" /\ HeadersThere /\ DOMAIN high = 2 * MB .. HIGH - 1
  BY DEF StartupInv, OtherTypes, FilesInv, CopiedInv
<1>2. dst \in Nat /\ n \in Nat /\ phdr[m].offset \in Nat /\ BaseOfKernelFile \in Nat /\ MB \in Nat /\ HIGH \in Nat
  BY <1>1, HeadersAre, LayoutAssumption, TablesPlaces
<1>3. /\ Target(phdr[m]) = dst .. dst + n - 1
      /\ phdr[m].offset + n <= 2 * LenOf("KERNEL")
  <2>1. LenOf("KERNEL") # 0
    BY <1>1, HeadersInFile
  <2> QED BY <1>1, <2>1, HeadersAre DEF Target
<1> HIDE DEF dst, n
<1>4. \A k \in 0 .. n - 1 : dst + k \in Target(phdr[m])
  BY <1>2, <1>3
<1>5. Mapped(dst, n)
  BY <1>4, SegmentMapped DEF Mapped
<1>6. \A k \in 0 .. n - 1 : To(k) = dst + k
  BY <1>4, SegmentMapped
<1>7. copy = [c \in DOMAIN high |->
                IF \E k \in 0 .. n - 1 : To(k) = c
                THEN Cell("low", low[src + CHOOSE k \in 0 .. n - 1 : To(k) = c]) ELSE high[c]]
  BY DEF MemCpy
<1> HIDE DEF To, copy, src
<1>8. DOMAIN copy = DOMAIN high
  BY <1>7
<1>9. ASSUME NEW c \in DOMAIN high, c \in Target(phdr[m])
      PROVE  copy[c] = Cell("low", KernelUnit(c - dst + phdr[m].offset))
  <2> DEFINE i == c - dst
             j == CHOOSE k \in 0 .. n - 1 : To(k) = c
  <2>1. i \in 0 .. n - 1 /\ dst + i = c
    BY <1>1, <1>2, <1>3, <1>9
  <2>2. To(i) = c
    BY <1>6, <2>1
  <2>3. j \in 0 .. n - 1 /\ To(j) = c
    BY <2>1, <2>2
  <2> HIDE DEF i, j
  <2>4. dst + j = c
    BY <1>6, <2>3
  <2>5. j = i
    BY <1>2, <2>1, <2>3, <2>4
  <2>6. copy[c] = Cell("low", low[src + j])
    BY <1>7, <2>1, <2>2 DEF j
  <2>7. src + i = BaseOfKernelFile + (i + phdr[m].offset) /\ i + phdr[m].offset \in 0 .. 2 * LenOf("KERNEL") - 1
    <3> DEFINE o == phdr[m].offset
               l == LenOf("KERNEL")
    <3>1. l \in Nat
      BY <1>1, FloppyIs DEF Files
    <3>2. o \in Nat /\ o + n <= 2 * l /\ src = BaseOfKernelFile + o
      BY <1>2, <1>3 DEF src
    <3> HIDE DEF o, l
    <3>3. src + i = BaseOfKernelFile + (i + o) /\ i + o \in 0 .. 2 * l - 1
      BY <1>2, <2>1, <3>1, <3>2
    <3> QED BY <3>3 DEF o, l
  <2>8. low[src + i] = KernelUnit(i + phdr[m].offset)
    BY <1>1, <2>7, HeadersInFile
  <2> QED BY <2>5, <2>6, <2>8 DEF i
<1>10. ASSUME NEW c \in DOMAIN high, c \notin Target(phdr[m])
       PROVE  copy[c] = high[c]
  <2>1. ~\E k \in 0 .. n - 1 : To(k) = c
    BY <1>4, <1>6, <1>10
  <2> QED BY <1>7, <2>1
<1> QED BY <1>5, <1>8, <1>9, <1>10 DEF dst, n, copy, src

\* A segment is copied to where it is linked: over no table that maps the
\* kernel, and over no other segment but with what is there already.
LEMMA CopySegmentOK ==
  ASSUME StartupInv, CopySegment
  PROVE  StartupInv'
<1>1. /\ stage = "segments" /\ esi' = esi + 1 /\ ecx' = ecx - 1
      /\ UNCHANGED <<floppy, fileVars, e820, asked, dwMCRNumber, dwMemSize, a20>> /\ phdr' = phdr
  BY DEF CopySegment, NextHeader, phdr
<1>2. /\ floppy \in Floppies /\ FileOK("KERNEL") /\ at = "loaded" /\ ~e820.cf /\ HeadersThere
      /\ DOMAIN high = 2 * MB .. HIGH - 1
  BY <1>1 DEF StartupInv, OtherTypes, FilesInv, AskedInv, CopiedInv
<1>3. Len(phdr) \in Nat \ {0} /\ DOMAIN phdr = 1 .. Len(phdr)
  BY <1>2, HeadersAre
<1>4. ecx \in 1 .. Len(phdr) /\ esi \in 1 .. Len(phdr) /\ esi + ecx = Len(phdr) + 1
  BY <1>1, <1>3 DEF StartupInv, OtherTypes, CopiedInv
<1>5. phdr[esi].type # 0 => esi \in Copied(phdr)
  BY <1>3, <1>4 DEF Copied
<1>6. /\ stage' = IF ecx' = 0 THEN "kernel" ELSE "segments"
      /\ high' = IF phdr[esi].type = 0 THEN high
                 ELSE MemCpy(phdr[esi].vaddr, BaseOfKernelFile + phdr[esi].offset, phdr[esi].filesz)
  <2>1. phdr[esi].type # 0 => Mapped(phdr[esi].vaddr, phdr[esi].filesz)
    BY <1>1, <1>5, SegmentCopied
  <2> QED BY <1>1, <2>1 DEF CopySegment
<1>7. /\ DOMAIN high' = DOMAIN high
      /\ \A c \in DOMAIN high :
           \/ high'[c] = high[c] /\ (phdr[esi].type # 0 => c \notin Target(phdr[esi]))
           \/ /\ phdr[esi].type # 0 /\ c \in Target(phdr[esi])
              /\ high'[c] = Cell("low", KernelUnit(c - phdr[esi].vaddr + phdr[esi].offset))
  <2>1. CASE phdr[esi].type = 0
    BY <1>6, <2>1
  <2>2. CASE phdr[esi].type # 0
    BY <1>1, <1>5, <1>6, <2>2, SegmentCopied
  <2> QED BY <2>1, <2>2
<1>8. FilesInv'
  BY <1>1, <1>2, <1>6, FilesInvSame DEF StartupInv
<1>9. OtherTypes'
  <2>1. ecx' \in 0 .. Len(phdr) /\ esi' \in 0 .. Len(phdr) + 1
    BY <1>1, <1>3, <1>4
  <2>2. \A c \in DOMAIN high : high'[c].kind \in {"blank", "frame", "low"}
    BY <1>7 DEF StartupInv, OtherTypes, Cell
  <2> QED BY <1>1, <1>6, <1>7, <2>1, <2>2 DEF StartupInv, OtherTypes, Stages
<1>10. AskedInv' /\ SizeInv' /\ WildOnlyIf'
  BY <1>1, <1>2, <1>6 DEF StartupInv, AskedInv, SizeInv, WildOnlyIf
<1>11. TablesInv'
  <2>1. ASSUME NEW c \in DOMAIN high, c < KernelEntryPoint PROVE InTables(c)'
    <3>1. phdr[esi].type # 0 => c \notin Target(phdr[esi])
      <4> SUFFICES ASSUME phdr[esi].type # 0, c \in Target(phdr[esi]) PROVE FALSE
        OBVIOUS
      <4>1. KernelEntryPoint <= c /\ c \in Nat
        BY <1>2, <1>5, HeadersAre
      <4> QED BY <2>1, <4>1, TablesPlaces
    <3>2. high'[c] = high[c]
      BY <1>7, <3>1
    <3>3. InTables(c)
      BY <1>1, <2>1 DEF StartupInv, TablesInv
    <3> QED BY <1>1, <3>2, <3>3 DEF InTables, Tables
  <2>2. a20'
    BY <1>1 DEF StartupInv, TablesInv, Protected
  <2> QED BY <1>6, <1>7, <2>1, <2>2 DEF TablesInv, Protected
<1>12. CopiedInv'
  <2>1. HeadersThere' /\ Copied(phdr)' = Copied(phdr) /\ \A u : KernelUnit(u)' = KernelUnit(u)
    BY <1>1, <1>2, FilesSame DEF Copied
  <2>2. ASSUME NEW m \in Copied(phdr), m < esi + 1, NEW c \in Target(phdr[m])
        PROVE  high'[c] = Cell("low", KernelUnit(c - phdr[m].vaddr + phdr[m].offset))
    <3>1. c \in DOMAIN high
      <4>1. c \in Nat /\ KernelEntryPoint <= c /\ c < HIGH
        BY <1>2, HeadersAre
      <4> QED BY <1>2, <4>1, KernelPlaces, TablesPlaces
    <3>2. m \in 1 .. Len(phdr)
      BY <1>3, <2>2 DEF Copied
    <3>3. CASE high'[c] = high[c] /\ (phdr[esi].type # 0 => c \notin Target(phdr[esi]))
      <4>1. m # esi
        BY <2>2, <3>3, HeadersAre, <1>2
      <4>2. m < esi
        BY <1>3, <1>4, <2>2, <3>2, <4>1
      <4> QED BY <1>1, <2>2, <3>3, <4>2 DEF StartupInv, CopiedInv
    <3>4. CASE /\ phdr[esi].type # 0 /\ c \in Target(phdr[esi])
               /\ high'[c] = Cell("low", KernelUnit(c - phdr[esi].vaddr + phdr[esi].offset))
      <4>1. c - phdr[m].vaddr + phdr[m].offset = c - phdr[esi].vaddr + phdr[esi].offset
        BY <1>2, <1>5, <2>2, <3>4, HeadersAre
      <4> QED BY <3>4, <4>1
    <3> QED BY <1>7, <3>1, <3>3, <3>4
  <2>3. /\ stage' = "segments" => esi' + ecx' = Len(phdr) + 1 /\ ecx' # 0
        /\ stage' = "kernel" => esi' = Len(phdr) + 1
    BY <1>1, <1>3, <1>4, <1>6
  <2> QED BY <1>1, <1>6, <2>1, <2>2, <2>3 DEF CopiedInv
<1> QED BY <1>8, <1>9, <1>10, <1>11, <1>12 DEF StartupInv

\* What changes nothing keeps it.
LEMMA StutterOK ==
  ASSUME StartupInv, UNCHANGED startupVars
  PROVE  StartupInv'
<1>1. /\ UNCHANGED <<floppy, fileVars>> /\ UNCHANGED <<stage, memory>>
      /\ UNCHANGED <<e820, asked, dwMCRNumber, dwMemSize, a20, high, ecx, esi>>
  BY DEF startupVars, memory
<1>2. FilesInv'
  <2>1. /\ FileOK("LOADER")' <=> FileOK("LOADER")
        /\ FileOK("KERNEL")' <=> FileOK("KERNEL")
        /\ PiecesRead("LOADER", LenOf("LOADER"))' <=> PiecesRead("LOADER", LenOf("LOADER"))
    <3>1. \A n : PiecesRead("LOADER", n)' <=> PiecesRead("LOADER", n)
      BY <1>1, FilesSame
    <3>2. LenOf("LOADER")' = LenOf("LOADER")
      BY <1>1, FilesSame
    <3> QED BY <1>1, FilesSame, <3>1, <3>2 DEF PiecesRead
  <2>2. at' = at
    BY <1>1 DEF fileVars
  <2> QED BY <1>1, <2>1, <2>2 DEF StartupInv, FilesInv
<1>3. phdr' = phdr /\ (HeadersThere' <=> HeadersThere) /\ (\A u : KernelUnit(u)' = KernelUnit(u))
  BY <1>1, FilesSame
<1>4. OtherTypes' /\ AskedInv' /\ SizeInv'
  BY <1>1, <1>3 DEF StartupInv, OtherTypes, AskedInv, SizeInv
<1>5. TablesInv'
  <2>1. \A c : InTables(c)' <=> InTables(c)
    BY <1>1 DEF InTables, Tables
  <2> QED BY <1>1, <2>1 DEF StartupInv, TablesInv
<1>6. CopiedInv'
  BY <1>1, <1>3 DEF StartupInv, CopiedInv, Copied
<1>7. WildOnlyIf'
  BY <1>1 DEF StartupInv, WildOnlyIf, Loader!FitsSegment
<1> QED BY <1>2, <1>4, <1>5, <1>6, <1>7 DEF StartupInv

\* Every step keeps the invariant.
LEMMA StepOK ==
  ASSUME StartupInv, [StartupNext]_startupVars
  PROVE  StartupInv'
<1>1. CASE BootSearch \/ BootNoLoader \/ BootRead \/ BootFAT \/ BootRereads
  BY <1>1, BootLoads
<1>2. CASE LoaderSearch \/ LoaderNoKernel \/ LoaderRead \/ LoaderFAT \/ LoaderRereads
  BY <1>2, LoaderLoads
<1>3. CASE JumpToLoader
  BY <1>3, JumpOK
<1>4. CASE MemChk
  BY <1>4, MemChkOK
<1>5. CASE EnterProtectedMode
  BY <1>5, EnterOK
<1>6. CASE DispMemInfo
  BY <1>6, DispMemInfoOK
<1>7. CASE SetupPaging
  BY <1>7, SetupPagingOK
<1>8. CASE InitKernel
  BY <1>8, InitKernelOK
<1>9. CASE CopySegment
  BY <1>9, CopySegmentOK
<1>10. CASE UNCHANGED startupVars
  BY <1>10, StutterOK
<1> QED BY <1>1, <1>2, <1>3, <1>4, <1>5, <1>6, <1>7, <1>8, <1>9, <1>10 DEF StartupNext, Step

\* The two programs keep the floppy, the memory and each other in order.
THEOREM StartupSafety == StartupSpec => []StartupInv
<1>1. StartupInv /\ [StartupNext]_startupVars => StartupInv'
  BY StepOK
<1> QED BY InitOK, <1>1, PTL DEF StartupSpec

-----------------------------------------------------------------------------
(* What follows from it.                                                   *)

\* The file that is being loaded, or was loaded last.
LEMMA FileOKs ==
  ASSUME StartupInv
  PROVE  /\ floppy \in Floppies /\ FileTypes /\ MemoryTypes
         /\ IF stage = "boot" THEN FileOK("LOADER") ELSE FileOK("KERNEL")
BY DEF StartupInv, FilesInv, FileOK, OtherTypes

\* The search of the root directory finds LOADER.BIN and KERNEL.BIN wherever
\* they are in it, and says that they are not there only when that is the truth;
\* and the variables keep their types (boot.S:73-137, loader.S:114-167).
THEOREM StartupSearch == StartupSpec => []SearchInv
<1>1. ASSUME StartupInv PROVE SearchInv
  <2>1. StartupTypeOK
    BY <1>1, FileOKs DEF StartupInv, OtherTypes, StartupTypeOK, FileTypes, MemoryTypes
  <2>2. ASSUME stage = "boot"
        PROVE  (at = "none" => ~Boot!InRootDir) /\ (at \in {"file", "fat", "loaded"} => Boot!InRootDir)
    BY <1>1, <2>2, FileOKs DEF FileOK, Reads, Boot!InRootDir
  <2>3. ASSUME stage = "loader"
        PROVE  (at = "none" => ~Loader!InRootDir) /\ (at \in {"file", "fat", "loaded"} => Loader!InRootDir)
    BY <1>1, <2>3, FileOKs DEF FileOK, Reads, Loader!InRootDir
  <2> QED BY <2>1, <2>2, <2>3 DEF SearchInv, FoundIfThere
<1> QED BY StartupSafety, <1>1, PTL

\* A file of which all pieces were read is in memory.
LEMMA PiecesInMemory ==
  ASSUME floppy \in Floppies
  PROVE  /\ PiecesRead("LOADER", LenOf("LOADER")) => Boot!InMemory(low)
         /\ PiecesRead("KERNEL", LenOf("KERNEL")) => Loader!InMemory(low)
<1>1. \A x \in Files : DOMAIN floppy[x].chain = 1 .. LenOf(x)
  BY FloppyIs
<1>2. ASSUME PiecesRead("LOADER", LenOf("LOADER")) PROVE Boot!InMemory(low)
  BY <1>1, <1>2 DEF PiecesRead, Boot!InMemory, BaseOf, OffsetOf, Files
<1>3. ASSUME PiecesRead("KERNEL", LenOf("KERNEL")) PROVE Loader!InMemory(low)
  BY <1>1, <1>3, LoaderSectors DEF PiecesRead, Loader!InMemory, BaseOf, OffsetOf, Files
<1> QED BY <1>2, <1>3

\* Control goes to the loader only when all of LOADER.BIN is in memory, it stays
\* there, and all of KERNEL.BIN is, if it fits in its segment, when the loader
\* goes on (boot.S:154-184, loader.S:188-209).
THEOREM StartupLoadedWhole == StartupSpec => []LoadedWhole
<1>1. ASSUME StartupInv PROVE LoadedWhole
  <2>1. ASSUME stage # "boot" \/ at = "loaded" PROVE Boot!InMemory(low)
    <3>1. CASE stage # "boot"
      BY <1>1, <3>1, FileOKs, PiecesInMemory DEF StartupInv, FilesInv
    <3>2. CASE stage = "boot"
      <4>1. UpTo("LOADER", LenOf("LOADER"))
        BY <1>1, FileOKs, FloppyIs DEF Files
      <4> QED BY <1>1, <2>1, <3>2, <4>1, FileOKs, PiecesInMemory DEF FileOK, Reads
    <3> QED BY <3>1, <3>2
  <2>2. ASSUME Loaded, Loader!FitsSegment PROVE Loader!InMemory(low)
    <3>1. stage # "boot" /\ at = "loaded"
      BY <1>1, <2>2 DEF Loaded, StartupInv, FilesInv
    <3>2. UpTo("KERNEL", LenOf("KERNEL"))
      BY <2>2 DEF Loader!FitsSegment, UpTo, OffsetOf, LenOf
    <3> QED BY <1>1, <3>1, <3>2, FileOKs, PiecesInMemory DEF FileOK, Reads
  <2> QED BY <2>1, <2>2 DEF LoadedWhole
<1> QED BY StartupSafety, <1>1, PTL

\* Nothing but a BIOS that ends the map with the carry flag, or a kernel longer
\* than its segment, makes the machine run wild (loader.S:88-108, 188-209).
THEOREM StartupWildOnlyIf == StartupSpec => []WildOnlyIf
<1>1. StartupInv => WildOnlyIf
  BY DEF StartupInv
<1> QED BY StartupSafety, <1>1, PTL

\* When the kernel starts each of its segments is where it is linked, and the
\* entry is in one of them (loader.S:550-592).
THEOREM StartupKernelLaidOut == StartupSpec => []KernelLaidOut
<1>1. ASSUME StartupInv PROVE KernelLaidOut
  <2> SUFFICES ASSUME stage = "kernel" PROVE KernelLaidOut
    BY DEF KernelLaidOut
  <2>1. floppy \in Floppies /\ esi = Len(phdr) + 1
    BY <1>1 DEF StartupInv, OtherTypes, CopiedInv
  <2>2. ASSUME NEW m \in Copied(phdr), NEW c \in Target(phdr[m])
        PROVE  high[c] = Cell("low", KernelUnit(c - phdr[m].vaddr + phdr[m].offset))
    <3>1. Len(phdr) \in Nat /\ m \in 1 .. Len(phdr)
      BY <2>1, HeadersAre
    <3>2. m < esi
      BY <2>1, <3>1
    <3> QED BY <1>1, <3>2 DEF StartupInv, CopiedInv
  <2>3. ASSUME NEW m \in SegmentsOf(phdr), NEW k \in 0 .. phdr[m].filesz - 1
        PROVE  high[phdr[m].vaddr + k] = Cell("low", FileUnit(phdr[m].offset + k))
    <3>1. m \in Copied(phdr)
      BY DEF SegmentsOf, Copied
    <3>2. m \in DOMAIN phdr /\ phdr[m].offset \in Nat /\ phdr[m].vaddr \in Nat /\ phdr[m].filesz \in Nat
      BY <2>1, <3>1, HeadersAre
    <3> DEFINE v == phdr[m].vaddr
               o == phdr[m].offset
               n == phdr[m].filesz
    <3>3. Target(phdr[m]) = v .. v + n - 1
      BY DEF Target
    <3> HIDE DEF v, o, n
    <3>4. v \in Nat /\ o \in Nat /\ n \in Nat /\ k \in 0 .. n - 1
      BY <3>2 DEF v, o, n
    <3> DEFINE c == v + k
    <3>5. c \in v .. v + n - 1 /\ c - v + o = o + k
      BY <3>4
    <3>6. \A a \in v .. v + n - 1 : high[a] = Cell("low", KernelUnit(a - v + o))
      BY <2>2, <3>1, <3>3 DEF v, o
    <3> HIDE DEF c
    <3>7. high[c] = Cell("low", KernelUnit(o + k))
      BY <3>5, <3>6, Zenon
    <3>8. KernelUnit(o + k) = FileUnit(o + k)
      BY LoaderSectors DEF KernelUnit, FileUnit
    <3> QED BY <3>7, <3>8 DEF c, v, o
  <2>4. high[KernelEntryPoint].kind = "low"
    <3>1. PICK m \in Copied(phdr) : KernelEntryPoint \in Target(phdr[m])
      BY <2>1, HeadersAre
    <3>2. \E u : high[KernelEntryPoint] = Cell("low", u)
      BY <2>2, <3>1
    <3> QED BY <3>2 DEF Cell
  <2> QED BY <2>3, <2>4 DEF KernelLaidOut
<1> QED BY StartupSafety, <1>1, PTL

\* The size that the loader finds is not less than where the memory below 4 GB
\* ends, and no more if there is none beyond.
LEMMA TopIs ==
  ASSUME e820 \in MemoryMaps, ~e820.cf, dwMemSize \in Ends(e820.list) \cup {0},
         \A e \in Ends(e820.list) : e <= dwMemSize
  PROVE  /\ Top \in Nat /\ Top <= dwMemSize
         /\ Usable(e820.list) = UsableBelow4G(e820.list) => Top = dwMemSize
<1> DEFINE S == {FullEnd(e820.list[n]) : n \in UsableBelow4G(e820.list)} \cup {0}
           m == Max(S)
<1>1. Top = m
  BY DEF Top, FullEnd
<1>2. Ends(e820.list) = {EndOf(e820.list[k]) : k \in Usable(e820.list)} /\ Ends(e820.list) \subseteq 0 .. WORD - 1
  BY EndsAre
<1>3. dwMemSize \in Nat /\ WORD - 1 \in Nat
  BY <1>2, WordIs
<1>4. S \subseteq Ends(e820.list) \cup {0} /\ S # {}
  BY EndsBelow4G
<1>5. S \subseteq 0 .. WORD - 1
  BY <1>2, <1>3, <1>4
<1>6. Usable(e820.list) = UsableBelow4G(e820.list) => dwMemSize \in S
  BY <1>2, EndsBelow4G
<1> HIDE DEF S
<1>7. m \in S /\ \A s \in S : s <= m
  BY <1>3, <1>4, <1>5, MaxIs
<1> HIDE DEF m
<1>8. m \in Nat /\ m <= dwMemSize
  BY <1>3, <1>4, <1>5, <1>7
<1>9. dwMemSize \in S => m = dwMemSize
  BY <1>3, <1>7, <1>8
<1> QED BY <1>1, <1>6, <1>8, <1>9

\* When the kernel starts, the size found covers the memory below 4 GB, and each
\* page of that is mapped to itself, whatever memory held at the start and
\* whatever there is beyond 4 GB (loader.S:447-453, 489-543).
THEOREM StartupMapsMemory == StartupSpec => []MapsMemory
<1>1. ASSUME StartupInv PROVE MapsMemory
  <2> SUFFICES ASSUME stage = "kernel" PROVE MapsMemory
    BY DEF MapsMemory
  <2>1. /\ floppy \in Floppies /\ e820 \in MemoryMaps /\ ~e820.cf /\ a20 = TRUE
        /\ dwMemSize \in Ends(e820.list) \cup {0} /\ dwMemSize \in 0 .. WORD - 1
        /\ \A e \in Ends(e820.list) : e <= dwMemSize
        /\ DOMAIN high = 2 * MB .. HIGH - 1 /\ \A c \in DOMAIN high : c < KernelEntryPoint => InTables(c)
    BY <1>1 DEF StartupInv, OtherTypes, AskedInv, TablesInv, SizeInv, Protected
  <2>2. /\ Top \in Nat /\ Top <= dwMemSize /\ dwMemSize \in 1 .. WORD - 1
        /\ Usable(e820.list) = UsableBelow4G(e820.list) => dwMemSize = Top
    BY <2>1, TopIs, EnoughMemory
  <2>3. ASSUME NEW q \in 0 .. WORD - 1, q \div PAGE <= (Top - 1) \div PAGE, q < KernelEntryPoint - PageTblBase
        PROVE  Walk(high, q) = q
    <3>1. q \in Nat /\ PageTblBase + q < KernelEntryPoint /\ q \div PAGE \in Nat
      <4>1. q \in Nat /\ PageTblBase + q < KernelEntryPoint
        BY <2>3, TablesPlaces, WordIs
      <4> QED BY <4>1, PageIs
    <3>2. Top # 0
      <4> SUFFICES ASSUME Top = 0 PROVE FALSE
        OBVIOUS
      <4> DEFINE d == (-1) \div PAGE
                 r == (-1) % PAGE
      <4>1. PAGE \in Nat \ {0} /\ d \in Int /\ r \in 0 .. PAGE - 1 /\ -1 = PAGE * d + r
        BY TablesPlaces
      <4>2. (Top - 1) \div PAGE = d
        BY Top - 1 = -1
      <4> HIDE DEF d, r
      <4>3. d < 0
        <5> SUFFICES ASSUME d \in Nat PROVE FALSE
          BY <4>1
        <5>1. PAGE * d \in Nat
          BY <4>1
        <5> QED BY <4>1, <5>1
      <4> QED BY <2>3, <3>1, <4>1, <4>2, <4>3
    <3>3. Top - 1 \in Nat /\ dwMemSize - 1 \in Nat /\ Top - 1 <= dwMemSize - 1
      BY <2>2, <3>2, WordIs
    <3>4. /\ (Top - 1) \div PAGE <= (dwMemSize - 1) \div PAGE
          /\ (Top - 1) \div PAGE \in Nat /\ (dwMemSize - 1) \div PAGE \in Nat
      BY <3>3, DivMonotone, Division, TablesPlaces
    <3>5. q \div PAGE <= (dwMemSize - 1) \div PAGE
      <4> DEFINE a == q \div PAGE
                 b == (Top - 1) \div PAGE
                 c == (dwMemSize - 1) \div PAGE
      <4>1. a \in Nat /\ b \in Nat /\ c \in Nat /\ a <= b /\ b <= c
        BY <2>3, <3>1, <3>4
      <4> HIDE DEF a, b, c
      <4>2. a <= c
        BY <4>1
      <4> QED BY <4>2 DEF a, c
    <3> QED BY <2>1, <2>2, <3>1, <3>5, WalksToItself, KernelPlaces
  <2>4. dwMemSize >= Top
    BY <2>2, WordIs
  <2> QED BY <2>2, <2>3, <2>4 DEF MapsMemory
<1> QED BY StartupSafety, <1>1, PTL
=============================================================================
