---------------------------- MODULE MCModLoader ----------------------------
EXTENDS ModLoader

Disks == {[lba |-> TRUE, cylinders |-> 0, heads |-> 0, sectors |-> 0, total |-> WORD + 13],
          [lba |-> FALSE, cylinders |-> 4, heads |-> 2, sectors |-> 2, total |-> 16]}

Numbers(s) == [k \in DOMAIN s |-> LowHigh(s[k])]
Elf(nr) == Unit("elf", Numbers(<<1, 1, nr>>))
Load(offset, vaddr, filesz) == Unit("ph", Numbers(<<1, offset, vaddr, filesz>>))
Stack == Unit("ph", Numbers(<<7, 0, 0, 0>>))
Null == Unit("ph", Numbers(<<0, 0, 0, 0>>))
Code(n) == Unit("code", <<LowHigh(n)>>)

\* An odd number of units, with the header that ld adds for the stack; two
\* segments in whole clusters; a header behind a PT_NULL.
OneSegment == <<Elf(2), Load(3, XModPhyAddr, 2), Stack, Entry, Code(2)>>
TwoSegments == <<Elf(2), Load(3, XModPhyAddr, 1), Load(4, 8, 4), Entry, Code(2), Code(3),
                 Code(4), Code(5)>>
BehindNull == <<Elf(3), Load(4, XModPhyAddr, 1), Null, Load(5, 9, 1), Entry, Code(2)>>

XM_E == <<"X", "M", ".", "E">>
Name == <<"X", "M", " ", "E", " ">>
Longer == <<"X", "M", "O", "E", " ">>
LongerExt == <<"X", "M", " ", "E", "L">>
Names == <<Longer, LongerExt>>

InOrder == <<2, 3, 4, 5>>
Scattered == <<7, 3, 6, 2>>
Holding(file, chain, pos, name) == [file |-> file, chain |-> chain, pos |-> pos, name |-> name]

\* The last one has no XMOD.ELF.
Contents ==
  {Holding(OneSegment, InOrder, 0, Name), Holding(TwoSegments, Scattered, 2, Name),
   Holding(BehindNull, Scattered, 3, Name), Holding(OneSegment, InOrder, 1, Longer)}
=============================================================================
