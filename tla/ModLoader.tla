------------------------------ MODULE ModLoader ------------------------------
(***************************************************************************)
(* The system call ld_mod, which TestA makes first of all: find XMOD.ELF   *)
(* in the root directory of the disk (fs/fatroot.c, fatcmpfname.c), read   *)
(* it along its FAT chain (fatrdfile.c, fattabe.c, fatrdclus.c), lay out   *)
(* its segments (module/manmod.c); and Alt+F12 of kernel/tty.c, after      *)
(* which the clock calls whatever is at XModPhyAddr.                       *)
(*                                                                         *)
(* The disk is the one that module IdeProbe finds at position 0.  A read   *)
(* has the block asked for or fails, as module Ide shows, and every result *)
(* of a read is ignored: a buffer that it left alone, uninitialised on the *)
(* stack, holds what another block has in that place, or junk.             *)
(*                                                                         *)
(* A cluster is a block of CLUS_SIZE units, a unit of a file being a       *)
(* header, a program header or a piece of a segment; numbers are kept as   *)
(* bytes, low byte first.                                                  *)
(***************************************************************************)
EXTENDS IdeProbe, SequencesExt

CONSTANTS
  FAT_ROOT_BEG, FAT_DATA_BEG,   \* blocks where root directory and data start
  FAT_ROOT_ENT_CNT,             \* entries of the root directory
  ENTS_PER_BLOCK,               \* 16 of them in a block
  BLOCK_SIZE,                   \* bytes of a block, of the FAT that is
  CLUS_SIZE,                    \* units of a block, of a file that is
  NAME_LEN, EXT_LEN,            \* 8 and 3
  mod_name,                     \* "XMOD.ELF"
  XModPhyAddr,                  \* where it is linked to start
  MEM_SIZE,                     \* units of memory; the file is loaded from 0 on
  Layouts,                      \* what the file may be, its name, its place in the root
                                \* directory, and clusters for it
  Others                        \* names that the other entries of the root have

\* The directory lies between the FAT and the clusters.
ASSUME ModLoaderAssumption ==
  /\ FAT_ROOT_ENT_CNT \in Nat \ {0} /\ ENTS_PER_BLOCK \in Nat \ {0}
  /\ BLOCK_SIZE \in Nat \ {0} /\ BLOCK_SIZE % 2 = 0 /\ CLUS_SIZE \in 1 .. WORD - 2
  /\ FAT_ROOT_BEG \in Nat \ {0} /\ FAT_DATA_BEG \in Nat
  /\ \A b \in 0 .. FAT_ROOT_ENT_CNT - 1 : FAT_ROOT_BEG + b \div ENTS_PER_BLOCK < FAT_DATA_BEG
  /\ MEM_SIZE \in Nat /\ XModPhyAddr \in 0 .. MEM_SIZE - 1

\* A name in 8.3 in the fields of an entry.
Padded(name, ext) ==
  [k \in 1 .. NAME_LEN + EXT_LEN |->
     IF k <= Len(name) THEN name[k]
     ELSE IF k > NAME_LEN /\ k - NAME_LEN <= Len(ext) THEN ext[k - NAME_LEN] ELSE " "]
SplitAt(d) == Padded(SubSeq(mod_name, 1, d - 1), SubSeq(mod_name, d + 1, Len(mod_name)))

\* The name asked for has one dot, with what fits in the fields of an entry on
\* either side, and no other entry has it.
ASSUME NameAssumption ==
  /\ NAME_LEN \in Nat /\ EXT_LEN \in Nat /\ mod_name \in Seq(STRING)
  /\ Others \in Seq([1 .. NAME_LEN + EXT_LEN -> STRING])
  /\ \E d \in DOMAIN mod_name :
       /\ d <= NAME_LEN /\ Len(mod_name) <= d + EXT_LEN
       /\ \A k \in DOMAIN mod_name : mod_name[k] = "." <=> k = d
       /\ \A n \in DOMAIN Others : Others[n] # SplitAt(d)

VARIABLES
  layout,      \* history: the file, its chain and its place in the root directory
  at,          \* how far the system call is
  i,           \* the counter of its current loop
  rent,        \* the root entry found
  ent_nr,      \* the cluster to read next
  phAddr,      \* where the next program header is taken from
  mem,         \* the memory that the file and its segments come to
  failed,      \* history: the disk failed to read a block that it has
  schedule,    \* which scheduler the clock calls
  outcome      \* "runs", or the machine does what nobody wrote

loader == <<at, i, rent, ent_nr, phAddr, mem, failed>>
vars == <<probe, layout, loader, schedule, outcome>>

-----------------------------------------------------------------------------
(* What is on the disk.                                                    *)

LowHigh(n) == <<n % BYTE, n \div BYTE>>
Unit(kind, v) == [kind |-> kind, v |-> v]
Junk == Unit("junk", <<>>)
Entry == Unit("code", <<LowHigh(1)>>)
EOF == WORD - 1

Number(bytes) == bytes[1] + BYTE * bytes[2]

\* The program headers of a file, those in front of the first PT_NULL, and those
\* of any other type.
PhFirst(f) == Number(f[1].v[1]) + 1
PhNr(f) == Number(f[1].v[3])
PhType(f, n) == Number(f[n].v[1])
Header(f, n) == [offset |-> Number(f[n].v[2]), vaddr |-> Number(f[n].v[3]), filesz |-> Number(f[n].v[4])]
Table(f) == PhFirst(f) .. PhFirst(f) + PhNr(f) - 1
HeadersOf(f) ==
  {Header(f, n) : n \in {m \in Table(f) : \A k \in PhFirst(f) .. m : PhType(f, k) # 0}}
Segments(f) == {Header(f, n) : n \in {m \in Table(f) : PhType(f, m) # 0}}
Target(ph) == ph.vaddr .. ph.vaddr + ph.filesz - 1

\* Each file has a chain on every disk, with no cluster twice.
Bytes == 0 .. BYTE - 1
Units == [kind : {"elf", "ph", "code"}, v : Seq([1 .. 2 -> Bytes])]
ASSUME LayoutAssumption ==
  \A l \in Layouts :
    /\ l \in [file : Seq(Units), chain : Seq(2 .. EOF - 1), pos : 0 .. FAT_ROOT_ENT_CNT - 1,
              name : [1 .. NAME_LEN + EXT_LEN -> STRING]]
    /\ CLUS_SIZE * Len(l.chain) >= Len(l.file)
    /\ \A j, k \in DOMAIN l.chain : l.chain[j] = l.chain[k] => j = k
    /\ \A k \in DOMAIN l.chain :
         /\ (2 * l.chain[k]) \div BLOCK_SIZE + 1 < FAT_ROOT_BEG
         /\ \A g \in Geometries : FAT_DATA_BEG + l.chain[k] - 2 < Capacity(g)

\* XMOD.ELF as the linker makes it: segments of the file, linked behind the place
\* that the file is loaded to, and its start among them.
ASSUME FileAssumption ==
  \A l \in Layouts :
    LET f == l.file
    IN /\ Len(f) \in 1 .. WORD - 1 /\ Len(f) < MEM_SIZE
       /\ f[1].kind = "elf" /\ Len(f[1].v) = 3 /\ Number(f[1].v[2]) = 1
       /\ Table(f) = {n \in DOMAIN f : f[n].kind = "ph"}
       /\ \A n \in Table(f) : Len(f[n].v) = 4
       /\ \A ph \in Segments(f) :
            /\ ph.offset + ph.filesz <= Len(f)
            /\ \A a \in Target(ph) : Len(f) <= a /\ a < MEM_SIZE
       /\ \A ph, qh \in HeadersOf(f) :
            \A a \in Target(ph) \cap Target(qh) : a - ph.vaddr + ph.offset = a - qh.vaddr + qh.offset
       /\ \E ph \in HeadersOf(f) :
            XModPhyAddr \in Target(ph) /\ f[XModPhyAddr - ph.vaddr + ph.offset + 1] = Entry

RootEntry(name, clus, size) == [name |-> name, clus |-> LowHigh(clus), size |-> LowHigh(size)]
NoEntry == RootEntry([k \in 1 .. NAME_LEN + EXT_LEN |-> "NUL"], 0, 0)

RootBlocks == (FAT_ROOT_ENT_CNT + ENTS_PER_BLOCK - 1) \div ENTS_PER_BLOCK

\* What a block holds for a reader who takes it for a piece of the directory,
\* of the FAT or of a file.
RootBlock(l, b) ==
  [s \in 0 .. ENTS_PER_BLOCK - 1 |->
     LET n == b * ENTS_PER_BLOCK + s
     IN IF n = l.pos THEN RootEntry(l.name, Head(l.chain), Len(l.file))
        ELSE IF n + 1 \in DOMAIN Others THEN RootEntry(Others[n + 1], 0, 1) ELSE NoEntry]

NextInChain(l, ent) ==
  IF \E k \in 1 .. Len(l.chain) - 1 : l.chain[k] = ent
  THEN l.chain[1 + CHOOSE k \in 1 .. Len(l.chain) - 1 : l.chain[k] = ent] ELSE EOF

FatBlock(l, b) ==
  [k \in 0 .. BLOCK_SIZE - 1 |->
     LowHigh(NextInChain(l, (b * BLOCK_SIZE + k) \div 2))[1 + (k % 2)]]

DataBlock(l, ent) ==
  [u \in 0 .. CLUS_SIZE - 1 |->
     IF \E k \in DOMAIN l.chain : l.chain[k] = ent
     THEN LET n == ((CHOOSE k \in DOMAIN l.chain : l.chain[k] = ent) - 1) * CLUS_SIZE + u + 1
          IN IF n <= Len(l.file) THEN l.file[n] ELSE Junk
     ELSE Junk]

-----------------------------------------------------------------------------
(* The code.                                                               *)

\* Little-endian bytes; also how fat_fsize and the readers of cluster numbers
\* put theirs together.
mem2num(buf) == FoldRight(LAMBDA b, res : b + res * BYTE, buf, 0)

Char(name, k) == IF k <= Len(name) THEN name[k] ELSE "NUL"

\* Mutant: the rest of the name is not looked at.
cmpfname_Prefix(name, buf) ==
  LET dots == {k \in 1 .. NAME_LEN : Char(name, k) = "."}
      stop == IF dots = {} THEN NAME_LEN ELSE Min(dots) - 1
      ext == IF dots = {} THEN NAME_LEN ELSE Min(dots)
      extlen == IF Len(name) > ext + EXT_LEN THEN EXT_LEN ELSE Max({Len(name) - ext, 0})
  IN /\ \A k \in 1 .. stop : Char(name, k) = buf[k]
     /\ \A k \in 1 .. extlen : Char(name, ext + k) = buf[NAME_LEN + k]

\* name up to its dot, if there is one in the first NAME_LEN characters (the
\* loop does not see a dot behind them), against the padded fields of buf.
cmpfname(name, buf) ==
  LET dots == {k \in 1 .. NAME_LEN : Char(name, k) = "."}
      stop == IF dots = {} THEN NAME_LEN ELSE Min(dots) - 1
      ext == IF dots = {} THEN NAME_LEN ELSE Min(dots)
      extlen == IF Len(name) > ext + EXT_LEN THEN EXT_LEN ELSE Max({Len(name) - ext, 0})
  IN /\ \A k \in 1 .. stop : Char(name, k) = buf[k]
     /\ \A k \in stop + 1 .. NAME_LEN : buf[k] = " "
     /\ \A k \in 1 .. extlen : Char(name, ext + k) = buf[NAME_LEN + k]
     /\ \A k \in extlen + 1 .. EXT_LEN : buf[NAME_LEN + k] = " "

\* ide_rblks(0, b, 1, buf) as its callers see it: what the block holds for
\* them, or FALSE, whereupon buf is as it was.
Readable(b) == LET d == devices[0] IN d.present /\ ~d.atapi /\ b \in 0 .. d.capacity - 1
OnDisk(b) == BlockAt(geometry[0], Address(devices[0], b))

RootAt(b) == IF Readable(b) THEN {RootBlock(layout, OnDisk(b) - FAT_ROOT_BEG)} ELSE {}
FatAt(b) == IF Readable(b) THEN {FatBlock(layout, OnDisk(b) - 1)} ELSE {}
ClusterAt(b) == IF Readable(b) THEN {DataBlock(layout, OnDisk(b) - FAT_DATA_BEG + 2)} ELSE {}

\* A block beyond the capacity of a disk is refused before it is asked.
ReadFails(b) ==
  LET d == devices[0]
  IN failed' = (failed \/ ~(d.present /\ ~d.atapi /\ b \notin 0 .. d.capacity - 1))

Running == outcome = "runs" /\ Up
In(a) == Running /\ at = a
Elsewhere == UNCHANGED <<probe, layout, schedule>>

ld_mod ==
  /\ In("user")
  /\ at' = "search" /\ i' = 0
  /\ UNCHANGED <<rent, ent_nr, phAddr, mem, failed, outcome>> /\ Elsewhere

SearchFound(ent) ==
  /\ rent' = ent
  /\ ent_nr' = mem2num(ent.clus)
  /\ at' = "read" /\ i' = 0

\* Not found: rbuf of xmod_ld2mem is uninitialised, and the cluster is -1.
SearchEnds ==
  /\ rent' \in {NoEntry, RootEntry(NoEntry.name, 0, CLUS_SIZE + 1)}
  /\ ent_nr' = -1
  /\ at' = "read" /\ i' = 0

\* Mutant: an entry that could not be read is read again.
get_root_ent_bname_Retries ==
  /\ In("search")
  /\ IF i = FAT_ROOT_ENT_CNT THEN SearchEnds /\ UNCHANGED failed
     ELSE \/ /\ \E c \in RootAt(FAT_ROOT_BEG + i \div ENTS_PER_BLOCK) :
                  LET ent == c[i % ENTS_PER_BLOCK]
                  IN IF cmpfname(mod_name, ent.name) THEN SearchFound(ent)
                     ELSE i' = i + 1 /\ UNCHANGED <<rent, ent_nr, at>>
             /\ UNCHANGED failed
          \/ ReadFails(FAT_ROOT_BEG + i \div ENTS_PER_BLOCK) /\ UNCHANGED <<i, rent, ent_nr, at>>
  /\ UNCHANGED <<phAddr, mem, outcome>> /\ Elsewhere

\* One iteration of get_root_ent_bname.  What a failed read leaves in buf is
\* the same slot of a block read before, or junk.
get_root_ent_bname ==
  /\ In("search")
  /\ IF i = FAT_ROOT_ENT_CNT THEN SearchEnds /\ UNCHANGED failed
     ELSE \E ent \in UNION {{NoEntry}, {RootBlock(layout, b)[i % ENTS_PER_BLOCK] :
                                          b \in 0 .. RootBlocks - 1}} :
            /\ \/ /\ \E c \in RootAt(FAT_ROOT_BEG + i \div ENTS_PER_BLOCK) :
                       ent = c[i % ENTS_PER_BLOCK]
                  /\ UNCHANGED failed
               \/ ReadFails(FAT_ROOT_BEG + i \div ENTS_PER_BLOCK)
            /\ IF cmpfname(mod_name, ent.name) THEN SearchFound(ent)
               ELSE i' = i + 1 /\ UNCHANGED <<rent, ent_nr, at>>
  /\ UNCHANGED <<phAddr, mem, outcome>> /\ Elsewhere

nbytes == mem2num(rent.size)
nblk == nbytes \div CLUS_SIZE
rbytes == nbytes % CLUS_SIZE
data_clus_offset(ent) == FAT_DATA_BEG + ent - 2

\* The first n units of the i-th cluster of the file are stored.
Stored(c, n) ==
  [a \in DOMAIN mem |-> IF a \in i * CLUS_SIZE .. i * CLUS_SIZE + n - 1
                        THEN c[a - i * CLUS_SIZE] ELSE mem[a]]

\* The loop of fat_rdfile: a whole cluster to where it belongs,
ReadCluster ==
  /\ In("read") /\ i < nblk
  /\ \/ /\ \E c \in ClusterAt(data_clus_offset(ent_nr)) : mem' = Stored(c, CLUS_SIZE)
        /\ UNCHANGED failed
     \/ ReadFails(data_clus_offset(ent_nr)) /\ UNCHANGED mem
  /\ at' = "next"
  /\ UNCHANGED <<i, rent, ent_nr, phAddr, outcome>> /\ Elsewhere

\* and the next entry of the chain, asked for even behind the last cluster; an
\* even number of bytes to a block, so that no entry straddles two.  What a failed
\* read leaves in buf is the same slot of another block of the FAT, or junk; for
\* the cluster -1 the bytes taken are in front of buf.
Stale(ent) ==
  {0, EOF} \cup {NextInChain(layout, e) :
                   e \in {f \in 0 .. EOF : f % (BLOCK_SIZE \div 2) = ent % (BLOCK_SIZE \div 2)}}

fat_next_tabent ==
  /\ In("next")
  /\ LET bytes == ent_nr * 2
         ri == bytes % BLOCK_SIZE
     IN \/ /\ ent_nr >= 0
           /\ \E c \in FatAt(bytes \div BLOCK_SIZE + 1) :
                ent_nr' = mem2num(<<c[ri], c[ri + 1]>>)
           /\ UNCHANGED failed
        \/ /\ IF ent_nr < 0 THEN UNCHANGED failed ELSE ReadFails(bytes \div BLOCK_SIZE + 1)
           /\ ent_nr' \in Stale(ent_nr)
  /\ at' = "read" /\ i' = i + 1
  /\ UNCHANGED <<rent, phAddr, mem, outcome>> /\ Elsewhere

\* Mutant: the rest is read only if there is nothing in front of it.
ReadRest_OnlyAlone ==
  /\ In("read") /\ i >= nblk
  /\ IF rbytes = 0 \/ nblk > 0 THEN UNCHANGED <<mem, failed>>
     ELSE \/ /\ \E c \in ClusterAt(data_clus_offset(ent_nr)) : mem' = Stored(c, rbytes)
             /\ UNCHANGED failed
          \/ /\ ReadFails(data_clus_offset(ent_nr))
             /\ mem' = Stored([u \in 0 .. CLUS_SIZE - 1 |-> Junk], rbytes)
  /\ at' = "headers"
  /\ UNCHANGED <<i, rent, ent_nr, phAddr, outcome>> /\ Elsewhere

\* The rest, through a buffer.
ReadRest ==
  /\ In("read") /\ i >= nblk
  /\ IF rbytes = 0 THEN UNCHANGED <<mem, failed>>
     ELSE \/ /\ \E c \in ClusterAt(data_clus_offset(ent_nr)) : mem' = Stored(c, rbytes)
             /\ UNCHANGED failed
          \/ /\ ReadFails(data_clus_offset(ent_nr))
             /\ mem' = Stored([u \in 0 .. CLUS_SIZE - 1 |-> Junk], rbytes)
  /\ at' = "headers"
  /\ UNCHANGED <<i, rent, ent_nr, phAddr, outcome>> /\ Elsewhere

\* xmod_lay2dst up to its loop.  What follows when no header was read copies
\* anything anywhere.
phOffset(hdr) == mem2num(hdr.v[1])
phSize(hdr) == mem2num(hdr.v[2])
phNr(hdr) == mem2num(hdr.v[3])

LayStart ==
  /\ In("headers")
  /\ IF mem[0].kind = "elf"
     THEN phAddr' = phOffset(mem[0]) /\ at' = "lay" /\ i' = 0 /\ UNCHANGED outcome
     ELSE outcome' = "wild" /\ UNCHANGED <<phAddr, at, i>>
  /\ UNCHANGED <<rent, ent_nr, mem, failed>> /\ Elsewhere

PH(u) == [type |-> mem2num(u.v[1]), offset |-> mem2num(u.v[2]), vaddr |-> mem2num(u.v[3]),
          filesz |-> mem2num(u.v[4])]

Laid(m, ph) ==
  [a \in DOMAIN m |-> IF a \in ph.vaddr .. ph.vaddr + ph.filesz - 1
                      THEN m[ph.offset + (a - ph.vaddr)] ELSE m[a]]

\* One iteration: at a PT_NULL the continue goes past the step to the next
\* header, so that the same one is seen until the loop ends.
LayHeader ==
  /\ In("lay") /\ i < phNr(mem[0])
  /\ IF mem[phAddr].kind # "ph" THEN outcome' = "wild" /\ UNCHANGED <<phAddr, mem>>
     ELSE LET ph == PH(mem[phAddr])
          IN /\ mem' = IF ph.type = 0 THEN mem ELSE Laid(mem, ph)
             /\ phAddr' = IF ph.type = 0 THEN phAddr ELSE phAddr + phSize(mem[0])
             /\ UNCHANGED outcome
  /\ i' = i + 1
  /\ UNCHANGED <<at, rent, ent_nr, failed>> /\ Elsewhere

LayEnd ==
  /\ In("lay") /\ i >= phNr(mem[0])
  /\ at' = "loaded"
  /\ UNCHANGED <<i, rent, ent_nr, phAddr, mem, failed, outcome>> /\ Elsewhere

sys_ld_mod ==
  \/ get_root_ent_bname \/ ReadCluster \/ fat_next_tabent \/ ReadRest
  \/ LayStart \/ LayHeader \/ LayEnd

InUser == Running /\ at \in {"user", "loaded"}

\* task_tty and the clock: neither runs another process within a system call.
AltF12 ==
  /\ InUser
  /\ schedule' = IF schedule # "sched0" THEN "sched0" ELSE "XModPhyAddr"
  /\ UNCHANGED <<probe, layout, loader, outcome>>

\* The clock calls schedule; at XModPhyAddr it finds xmodint.S or not.
Tick ==
  /\ InUser /\ schedule = "XModPhyAddr"
  /\ outcome' = IF mem[XModPhyAddr] = Entry THEN "runs" ELSE "wild"
  /\ UNCHANGED <<probe, layout, loader, schedule>>

Init ==
  /\ ProbeInit
  /\ \E l \in Layouts :
       layout = [l EXCEPT !.chain = SubSeq(@, 1, (Len(l.file) + CLUS_SIZE - 1) \div CLUS_SIZE)]
  /\ at = "user" /\ i = 0 /\ rent = NoEntry /\ ent_nr = 0 /\ phAddr = 0
  /\ mem = [a \in 0 .. MEM_SIZE - 1 |-> Junk]
  /\ failed = FALSE /\ schedule = "sched0" /\ outcome = "runs"

Probing == identify_ide_dev /\ UNCHANGED <<layout, loader, schedule, outcome>>

\* What the devices do behind the probe is in the reads that fail.
Next ==
  \/ ProbeNext /\ ~Up /\ UNCHANGED <<layout, loader, schedule, outcome>>
  \/ ld_mod \/ sys_ld_mod
  \/ AltF12 \/ Tick

\* The kernel executes; the devices need not answer, nor need anybody press
\* Alt+F12.
Spec == Init /\ [][Next]_vars /\ WF_vars(Probing) /\ WF_vars(sys_ld_mod)

-----------------------------------------------------------------------------
(* Properties.                                                             *)

TypeOK ==
  /\ at \in {"user", "search", "read", "next", "headers", "lay", "loaded"}
  /\ i \in Nat
  /\ mem2num(rent.clus) \in 0 .. WORD - 1 /\ mem2num(rent.size) \in 0 .. WORD - 1
  /\ ent_nr \in -1 .. WORD - 1
  /\ phAddr \in 0 .. MEM_SIZE - 1
  /\ \A a \in 0 .. MEM_SIZE - 1 : mem[a].kind \in {"junk", "elf", "ph", "code"}
  /\ DOMAIN mem = 0 .. MEM_SIZE - 1
  /\ failed \in BOOLEAN
  /\ schedule \in {"sched0", "XModPhyAddr"}
  /\ outcome \in {"runs", "wild"}

\* XMOD.ELF is in the root directory, under the name in 8.3 that kenos asks for.
FileThere == \E d \in DOMAIN mod_name : mod_name[d] = "." /\ layout.name = SplitAt(d)

Headers == HeadersOf(layout.file)

\* When no read failed, what ld_mod leaves in memory is every segment of the
\* file where its header wants it: whatever other names the directory has,
\* however the clusters are scattered, and wherever in a block, of the
\* directory, of the FAT or of the file, the last one needed is.  The headers
\* behind a PT_NULL are not laid out.
LoadedRight ==
  at = "loaded" /\ ~failed /\ FileThere =>
    \A ph \in Headers : \A k \in 0 .. ph.filesz - 1 :
      mem[ph.vaddr + k] = layout.file[ph.offset + k + 1]

LoaderInv == TypeOK /\ LoadedRight

\* Neither ld_mod nor the clock runs into memory that is not what it takes it
\* for, except after a read that failed unnoticed, without the file, or by
\* Alt+F12 pressed before ld_mod.
WildOnlyAfterFailure == outcome = "wild" => failed \/ ~FileThere \/ at = "user"

\* The probe comes to its end, and the system call comes back or runs wild,
\* whatever the disk does, although nothing looks at the ends of chains: the
\* size of the file bounds it.
LoadReturns == ProbeEnds /\ (at = "search" ~> at = "loaded" \/ outcome = "wild")
=============================================================================
