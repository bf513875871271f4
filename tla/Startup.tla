------------------------------- MODULE Startup -------------------------------
(***************************************************************************)
(* From the BIOS to the kernel.  boot/boot.S loads LOADER.BIN and jumps to *)
(* it; boot/loader.S asks the BIOS for the map of the memory, loads        *)
(* KERNEL.BIN, opens the A20 line and enters protected mode, finds the     *)
(* size of the memory, sets up paging, copies the segments of the kernel   *)
(* to where they are linked and jumps there.                               *)
(*                                                                         *)
(* Memory above 1 MB is counted in cells of four bytes, PAGE of which are  *)
(* a page, a page table or the page directory; memory below it as in       *)
(* module FloppyFile, and the kernel's segments in units of that: a unit   *)
(* is copied to a cell.  Sizes and addresses in the BIOS's map are in      *)
(* pages, WORD of which are 4 GB.  The messages are left out.              *)
(***************************************************************************)
EXTENDS Integers, Sequences, FiniteSetsExt

CONSTANTS
  BytsPerSec, SecPerTrk, NumHeads, Cylinders, NumFATs, FATSz, RootDirSectors, EntsPerSec,
  SEG, LOW,
  FAT_ROOM,                      \* units between a file and the FAT's sectors
  BaseOfKernelFile, BaseOfLoader, OffsetOfLoader,
  PAGE, MB, WORD, HIGH,          \* cells of a page, of 1 MB, pages of 4 GB, cells of memory
  PageDirBase, PageTblBase, KernelEntryPoint,
  Floppies, MemoryMaps,          \* what may be on the floppy, what the BIOS may answer
  OldMemory                      \* what memory from 2 MB on may hold at the start

\* The floppy: two sides, as ReadSector takes for granted.
ASSUME GeometryAssumption ==
  /\ BytsPerSec \in Nat \ {0} /\ SecPerTrk \in Nat \ {0} /\ NumHeads = 2 /\ Cylinders \in Nat
  /\ NumFATs \in Nat \ {0} /\ FATSz \in Nat \ {0} /\ FATSz * BytsPerSec >= 3
  /\ RootDirSectors \in Nat /\ EntsPerSec \in Nat \ {0}

\* The loader lies behind the segment it reads the kernel to, and two sectors of
\* a FAT fit before either.
ASSUME LayoutAssumption ==
  /\ SEG \in Nat \ {0} /\ SEG % 2 = 0 /\ LOW \in Nat /\ FAT_ROOM \in Nat /\ FAT_ROOM >= 4
  /\ BaseOfKernelFile \in Nat /\ FAT_ROOM <= BaseOfKernelFile
  /\ BaseOfLoader \in Nat /\ OffsetOfLoader \in 0 .. SEG - 1
  /\ BaseOfKernelFile + SEG <= BaseOfLoader /\ BaseOfLoader + SEG <= LOW

\* Paging: a table has as many entries as the directory.
ASSUME PagingAssumption ==
  /\ PAGE \in Nat \ {0} /\ WORD = PAGE * PAGE
  /\ MB \in Nat /\ HIGH \in Nat /\ KernelEntryPoint \in Nat
  /\ PageDirBase \in Nat /\ PageDirBase >= 2 * MB /\ PageDirBase % PAGE = 0
  /\ PageTblBase = PageDirBase + PAGE

VARIABLES
  floppy, at, wRootDirSizeForLoop, wSectorNo, ent, bx, low,      \* see module FloppyFile
  e820,              \* history: what the BIOS knows of the memory
  stage,             \* what runs: the two programs by their parts, or "wild"
  asked,             \* how often the BIOS has been asked for the map
  dwMCRNumber, dwMemSize,
  a20,               \* whether the line is open
  high,              \* memory from 1 MB on
  ecx, esi           \* program headers left, and the one that comes next

memory == <<e820, asked, dwMCRNumber, dwMemSize, a20, high, ecx, esi>>
fileVars == <<at, wRootDirSizeForLoop, wSectorNo, ent, bx, low>>
startupVars == <<floppy, fileVars, stage, memory>>

Boot == INSTANCE FloppyFile
          WITH FileName <- "LOADER", Base <- BaseOfLoader, Offset <- OffsetOfLoader,
               FatBase <- BaseOfLoader - FAT_ROOM
Loader == INSTANCE FloppyFile
            WITH FileName <- "KERNEL", Base <- BaseOfKernelFile, Offset <- 0,
                 FatBase <- BaseOfKernelFile - FAT_ROOM

\* A floppy in order, with a loader that fits in its segment.
ASSUME FloppyAssumption ==
  /\ Boot!NoSector(Boot!EOF - Boot!Nibble + 1)
  /\ \A f \in Floppies :
       /\ DOMAIN f = {"LOADER", "KERNEL"}
       /\ Boot!WellFormed(f)
       /\ OffsetOfLoader + 2 * Len(f["LOADER"].chain) <= SEG

Cell(kind, v) == [kind |-> kind, v |-> v]
Blank == Cell("blank", <<0, 0>>)
Frame(n) == Cell("frame", <<n, 0>>)        \* an entry of a table: present, of frame n

\* Nobody clears memory, and after a reset it may hold anything, such as the
\* tables of an earlier start: as an entry, each word is not present, or
\* present and of some frame.
ASSUME OldMemoryAssumption ==
  \A m \in OldMemory :
    /\ DOMAIN m = 2 * MB .. HIGH - 1
    /\ \A c \in DOMAIN m : m[c] = Blank \/ \E n \in 0 .. WORD - 1 : m[c] = Frame(n)

StartupInit ==
  /\ floppy \in Floppies /\ e820 \in MemoryMaps
  /\ stage = "boot"
  /\ at = "root" /\ wRootDirSizeForLoop = RootDirSectors /\ wSectorNo = Boot!SecNoOfRootDir
  /\ ent = 0 /\ bx = OffsetOfLoader
  /\ low = [u \in 0 .. LOW - 1 |-> Boot!Nothing]
  /\ asked = 0 /\ dwMCRNumber = 0 /\ dwMemSize = 0 /\ a20 = FALSE /\ ecx = 0 /\ esi = 0
  /\ high \in OldMemory

-----------------------------------------------------------------------------
(* boot.S *)

OfBoot == stage = "boot" /\ UNCHANGED <<floppy, stage, memory>>

BootSearch == Boot!SearchInRootDir /\ OfBoot
BootNoLoader == Boot!NoFile /\ OfBoot
BootRead == Boot!ReadOfFile /\ OfBoot
BootFAT == Boot!FollowChain /\ OfBoot
BootRereads == Boot!GoOnReading /\ OfBoot

\* jmp $BaseOfLoader, $OffsetOfLoader; the loader comes with variables of its
\* own.
JumpToLoader ==
  /\ stage = "boot" /\ at = "loaded"
  /\ stage' = "memchk"
  /\ Loader!Start
  /\ UNCHANGED <<floppy, low, memory>>

-----------------------------------------------------------------------------
(* loader.S, real mode *)

\* int 15h, %eax = 0xe820: a range, and 0 in %ebx with the last one; or, at
\* the end too with some BIOSes, the carry flag.
MemChk ==
  /\ stage = "memchk"
  /\ IF asked = Len(e820.list)
     THEN dwMCRNumber' = 0 /\ stage' = "loader" /\ UNCHANGED asked
     ELSE /\ asked' = asked + 1 /\ dwMCRNumber' = dwMCRNumber + 1
          /\ stage' = IF asked + 1 = Len(e820.list) /\ ~e820.cf THEN "loader" ELSE stage
  /\ UNCHANGED <<floppy, fileVars, e820, dwMemSize, a20, high, ecx, esi>>

OfLoader == stage = "loader" /\ UNCHANGED <<floppy, stage, memory>>

LoaderSearch == Loader!SearchInRootDir /\ OfLoader
LoaderNoKernel == Loader!NoFile /\ OfLoader
LoaderRead == Loader!ReadOfFile /\ OfLoader
LoaderFAT == Loader!FollowChain /\ OfLoader
LoaderRereads == Loader!GoOnReading /\ OfLoader

\* Mutant: the A20 line is left as it is.
EnterProtectedMode_A20Shut ==
  /\ stage = "loader" /\ at = "loaded"
  /\ stage' = "meminfo"
  /\ UNCHANGED <<floppy, fileVars, e820, asked, dwMCRNumber, dwMemSize, a20, high, ecx, esi>>

\* The motor is stopped, interrupts are off, and the A20 line is opened.
EnterProtectedMode ==
  /\ stage = "loader" /\ at = "loaded"
  /\ stage' = "meminfo"
  /\ a20' = TRUE
  /\ UNCHANGED <<floppy, fileVars, e820, asked, dwMCRNumber, dwMemSize, high, ecx, esi>>

-----------------------------------------------------------------------------
(* loader.S, protected mode *)

Line(c) == IF ~a20 /\ (c \div MB) % 2 = 1 THEN c - MB ELSE c

At(mem, c) == IF Line(c) \in DOMAIN mem THEN mem[Line(c)] ELSE Blank

\* The frame of page p by the tables in memory, or -1.
Walk(mem, p) ==
  LET pde == At(mem, PageDirBase + p \div PAGE)
      pte == At(mem, pde.v[1] * PAGE + (p % PAGE))
  IN IF pde.kind = "frame" /\ pte.kind = "frame" THEN pte.v[1] ELSE -1

\* The usable memory that 32 bits reach ends at Top.
Usable(list) == {n \in DOMAIN list : list[n].type = 1}
UsableBelow4G(list) == {n \in Usable(list) : list[n].base < WORD}
Top == Max({e820.list[n].base + e820.list[n].length : n \in UsableBelow4G(e820.list)} \cup {0})

\* Where usable memory ends, in 32 bits: of base and length only the low
\* halves are added.
Ends(list) ==
  {((list[k].base % WORD) + (list[k].length % WORD)) % WORD : k \in Usable(list)}

\* The addresses that the loader copies a segment of the kernel to.
Copied(hdrs) == {n \in DOMAIN hdrs : hdrs[n].type # 0}
Target(hdr) == hdr.vaddr .. hdr.vaddr + hdr.filesz - 1

\* A kernel in order: its segments are of the file and linked behind the tables
\* that map them, to memory that the machine has, one of them to the entry; what
\* two of them have in common is the same part of the file.
ASSUME KernelAssumption ==
  \A f \in Floppies :
    LET hdrs == f["KERNEL"].phdr
    IN /\ hdrs # <<>>
       /\ hdrs \in Seq([type : Nat, offset : Nat, vaddr : Nat, filesz : Nat])
       /\ \E n \in Copied(hdrs) : KernelEntryPoint \in Target(hdrs[n])
       /\ \A n \in Copied(hdrs) :
            /\ f["KERNEL"].chain = <<>> \/ hdrs[n].offset + hdrs[n].filesz <= 2 * Len(f["KERNEL"].chain)
            /\ \A c \in Target(hdrs[n]) :
                 /\ KernelEntryPoint <= c /\ c < HIGH
                 /\ PageTblBase + c \div PAGE < KernelEntryPoint
                 /\ \A m \in Copied(hdrs) :
                      c \in Target(hdrs[m]) => c - hdrs[n].vaddr + hdrs[n].offset = c - hdrs[m].vaddr + hdrs[m].offset

\* A map that the BIOS ends well has memory where the kernel goes, and no usable
\* range reaches across 4 GB, where the ROM is.  Beyond it there may be any.
ASSUME MapAssumption ==
  \A m \in MemoryMaps :
    /\ m.cf \in BOOLEAN
    /\ m.list \in Seq([base : Nat, length : Nat, type : Nat])
    /\ ~m.cf =>
         /\ m.list # <<>>
         /\ \E n \in UsableBelow4G(m.list) :
              \A f \in Floppies : \A h \in Copied(f["KERNEL"].phdr) : \A c \in Target(f["KERNEL"].phdr[h]) :
                c \div PAGE < m.list[n].base + m.list[n].length
         /\ \A n \in UsableBelow4G(m.list) : m.list[n].base + m.list[n].length < WORD

\* The greatest of the ends.  With no range at all the loop counts from 2^32.
DispMemInfo ==
  /\ stage = "meminfo"
  /\ IF dwMCRNumber = 0 THEN stage' = "wild" /\ UNCHANGED dwMemSize
     ELSE stage' = "paging" /\ dwMemSize' = Max(Ends(e820.list) \cup {0})
  /\ UNCHANGED <<floppy, fileVars, e820, asked, dwMCRNumber, a20, high, ecx, esi>>

\* Mutant: a remainder gets no table.
Tables_RoundedDown(size) == size \div PAGE

\* Tables for all of the memory: PAGE entries each map PAGE pages.
Tables(size) == (size \div PAGE) + (IF size % PAGE = 0 THEN 0 ELSE 1)

\* The directory, then the tables, to which nobody sets a limit.
SetupPaging ==
  LET n == Tables(dwMemSize)
      Directory(mem) == [c \in DOMAIN mem |->
        IF \E k \in 0 .. n - 1 : Line(PageDirBase + k) = c THEN Frame(PageTblBase \div PAGE + (c - PageDirBase))
        ELSE mem[c]]
      PageTables(mem) == [c \in DOMAIN mem |->
        IF \E k \in 0 .. n * PAGE - 1 : Line(PageTblBase + k) = c
        THEN Frame(Max({k \in 0 .. n * PAGE - 1 : Line(PageTblBase + k) = c})) ELSE mem[c]]
  IN /\ stage = "paging"
     /\ IF n = 0 THEN stage' = "wild" /\ UNCHANGED high
        ELSE stage' = "initkernel" /\ high' = PageTables(Directory(high))
     /\ UNCHANGED <<floppy, fileVars, e820, asked, dwMCRNumber, dwMemSize, a20, ecx, esi>>

\* n units from src in low memory to the cells from dst on, through the tables.
MemCpy(dst, src, n) ==
  LET To(k) == Line(Walk(high, (dst + k) \div PAGE) * PAGE + ((dst + k) % PAGE))
  IN [c \in DOMAIN high |->
        IF \E k \in 0 .. n - 1 : To(k) = c
        THEN Cell("low", low[src + CHOOSE k \in 0 .. n - 1 : To(k) = c]) ELSE high[c]]

Mapped(dst, n) == \A k \in 0 .. n - 1 : Walk(high, (dst + k) \div PAGE) \in 2 * (MB \div PAGE) .. HIGH \div PAGE

\* The headers of the kernel, if they are where the file was loaded.
HeadersThere == low[BaseOfKernelFile] = <<Loader!SectorOf("KERNEL", 1), 0>>
phdr == floppy["KERNEL"].phdr

\* %ecx = e_phnum, %esi = e_phoff, of whatever is where the file was loaded.
InitKernel ==
  /\ stage = "initkernel"
  /\ IF HeadersThere THEN stage' = "segments" /\ ecx' = Len(phdr) /\ esi' = 1
     ELSE stage' = "wild" /\ UNCHANGED <<ecx, esi>>
  /\ UNCHANGED <<floppy, fileVars, e820, asked, dwMCRNumber, dwMemSize, a20, high>>

\* Mutant: a header of type 0 is not stepped over.
NextHeader_Stuck == IF phdr[esi].type = 0 THEN esi ELSE esi + 1

\* .NoAction: the step to the next header is made in both cases.
NextHeader == esi + 1

\* A turn of the loop .IKBegin, and the jump after the last.
CopySegment ==
  LET p == phdr[esi]
  IN /\ stage = "segments"
     /\ esi' = NextHeader /\ ecx' = ecx - 1
     /\ IF p.type # 0 /\ ~Mapped(p.vaddr, p.filesz)
        THEN stage' = "wild" /\ UNCHANGED high
        ELSE /\ high' = IF p.type = 0 THEN high ELSE MemCpy(p.vaddr, BaseOfKernelFile + p.offset, p.filesz)
             /\ stage' = IF ecx' = 0 THEN "kernel" ELSE stage
     /\ UNCHANGED <<floppy, fileVars, e820, asked, dwMCRNumber, dwMemSize, a20>>

-----------------------------------------------------------------------------
Step ==
  \/ BootSearch \/ BootNoLoader \/ BootRead \/ BootFAT \/ JumpToLoader
  \/ MemChk
  \/ LoaderSearch \/ LoaderNoKernel \/ LoaderRead \/ LoaderFAT
  \/ EnterProtectedMode \/ DispMemInfo \/ SetupPaging
  \/ InitKernel \/ CopySegment

StartupNext == Step \/ BootRereads \/ LoaderRereads

\* The machine goes on, and a sector that can be read is read in the end.
StartupSpec == StartupInit /\ [][StartupNext]_startupVars /\ WF_startupVars(Step)

-----------------------------------------------------------------------------
(* Properties.                                                             *)

Stages == {"boot", "memchk", "loader", "meminfo", "paging", "initkernel", "segments", "kernel", "wild"}
Loaded == stage \in Stages \ {"boot", "memchk", "loader"} \/ (stage = "loader" /\ at = "loaded")

StartupTypeOK ==
  /\ floppy \in Floppies /\ e820 \in MemoryMaps /\ stage \in Stages
  /\ at \in {"root", "file", "fat", "loaded", "none"}
  /\ wRootDirSizeForLoop \in 0 .. RootDirSectors
  /\ wSectorNo \in Boot!SecNoOfRootDir .. Boot!FirstDataSector
  /\ ent \in 0 .. Boot!EOF - 1 /\ bx \in 0 .. SEG - 1
  /\ \A u \in DOMAIN low : low[u] = Boot!Nothing \/ low[u] \in Nat \X {0, 1}
  /\ asked \in 0 .. Len(e820.list) /\ dwMCRNumber \in 0 .. asked
  /\ dwMemSize \in 0 .. WORD - 1 /\ a20 \in BOOLEAN
  /\ \A c \in DOMAIN high : high[c].kind \in {"blank", "frame", "low"}
  /\ ecx \in 0 .. Len(phdr) /\ esi \in 0 .. Len(phdr) + 1

\* Control goes to the loader, and on to the code that copies the kernel, only
\* when all of the file is in memory and nothing else; and the loader is not
\* overwritten by what it loads, however long that is.  A kernel that does not
\* fit in a segment is overwritten by its own end (boot.S:154-184,
\* loader.S:188-209).
LoadedWhole ==
  /\ (stage # "boot" \/ at = "loaded") => Boot!InMemory(low)
  /\ (Loaded /\ Loader!FitsSegment) => Loader!InMemory(low)

\* The search of the root directory finds a file in any of its sectors, and
\* "No LOADER" or "No KERNEL" is the truth (boot.S:73-137, loader.S:114-167).
FoundIfThere ==
  /\ stage = "boot" => (at = "none" => ~Boot!InRootDir) /\ (at \in {"file", "fat", "loaded"} => Boot!InRootDir)
  /\ stage = "loader" => (at = "none" => ~Loader!InRootDir) /\ (at \in {"file", "fat", "loaded"} => Loader!InRootDir)

\* The search is right, and everything is of its type.
SearchInv == StartupTypeOK /\ FoundIfThere

\* When the kernel starts, the size found is where the memory that 32 bits reach
\* ends, in whatever order the BIOS names its ranges and whatever it names
\* besides; with ranges beyond 4 GB, of whose ends the low halves count, it may
\* be more, but is not less.  Each page of that memory, and of a last table that
\* is not full, is mapped to itself: as long as the tables end below the kernel,
\* which in a machine of more than 1020 MB comes to lie on the rest
\* (loader.S:447-453, 489-543).  Of the pages behind them nothing is said: the
\* rest of the directory is what memory held before.
MapsMemory ==
  stage = "kernel" =>
    /\ dwMemSize >= Top
    /\ Usable(e820.list) = UsableBelow4G(e820.list) => dwMemSize = Top
    /\ \A p \in 0 .. WORD - 1 :
         p \div PAGE <= (Top - 1) \div PAGE /\ p < KernelEntryPoint - PageTblBase => Walk(high, p) = p

\* When the kernel starts, every segment of its file is where it is linked,
\* and there is code at the entry (loader.S:550-592, 415).
SegmentsOf(hdrs) == {n \in DOMAIN hdrs : hdrs[n].type = 1}
FileUnit(u) == <<Loader!SectorOf("KERNEL", u \div 2 + 1), u % 2>>
KernelLaidOut ==
  stage = "kernel" =>
    /\ \A n \in SegmentsOf(phdr) : \A k \in 0 .. phdr[n].filesz - 1 :
         high[phdr[n].vaddr + k] = Cell("low", FileUnit(phdr[n].offset + k))
    /\ high[KernelEntryPoint].kind = "low"

\* The machine runs wild only if the BIOS answers a question for the map with
\* the carry flag, or the kernel is longer than a segment.
WildOnlyIf == stage = "wild" => e820.cf \/ ~Loader!FitsSegment

\* A floppy with both files, neither empty, with 0xfff at the end of their
\* chains (no other number that FAT12 allows there will do), and a map that
\* the BIOS ends with 0 in %ebx, start the kernel; without a LOADER.BIN the
\* boot sector comes to an end too.
Bootable ==
  /\ \A f \in DOMAIN floppy : floppy[f].chain # <<>> /\ floppy[f].end = Boot!EOF
  /\ Boot!InRootDir /\ Loader!InRootDir /\ Loader!FitsSegment
  /\ ~e820.cf
Starts == (Bootable => <>(stage = "kernel")) /\ (~Boot!InRootDir => <>(at = "none"))
=============================================================================
