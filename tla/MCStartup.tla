------------------------------ MODULE MCStartup ------------------------------
EXTENDS Startup

File(pos, chain, end, hdrs) == [pos |-> pos, chain |-> chain, end |-> end, phdr |-> hdrs]
Header(type, offset, vaddr, filesz) == [type |-> type, offset |-> offset, vaddr |-> vaddr, filesz |-> filesz]

\* Code and data; and with a header that means nothing between them.
Plain == <<Header(1, 1, 96, 2), Header(1, 4, 99, 1)>>
WithNull == <<Header(1, 1, 96, 3), Header(0, 0, 0, 0), Header(1, 5, 101, 1)>>

\* Cluster 2 and cluster 5 have their entries across the end of a sector, the
\* one at an even, the other at an odd place.
EndMark == 4095
NoLink == <<>>
TheFloppies ==
  { [LOADER |-> File(lp, <<2, 6>>, EndMark, NoLink), KERNEL |-> File(kp, <<5, 3, 4>>, EndMark, hdrs)]
      : lp \in {0, 3, 4}, kp \in {1, 2, 5}, hdrs \in {Plain, WithNull} }
  \cup
  { [LOADER |-> File(1, <<5>>, EndMark, NoLink), KERNEL |-> File(2, chain, end, Plain)]
      : chain \in {<<>>, <<6, 2, 7>>, <<4, 3, 2, 7>>, <<2, 3, 4, 6, 7>>}, end \in {EndMark, EndMark - 7} }

Range3(base, length, type) == [base |-> base, length |-> length, type |-> type]
Low == Range3(0, 1, 1)
Rom == Range3(2, 1, 2)
Maps ==
  { [list |-> <<Low, Rom, Range3(3, n, 1), Range3(60, top, 2)>>, cf |-> FALSE] : top \in {3, 4}, n \in {10, 13, 17, 26} }
  \cup { [list |-> <<Range3(3, 12, 1), Low, Rom, Range3(64, n, 1)>>, cf |-> FALSE] : n \in {5, 20, 40} }
  \cup { [list |-> <<Low, Range3(3, 12, 1)>>, cf |-> TRUE], [list |-> <<>>, cf |-> TRUE] }

\* Nothing, and entries that all lead to a page of memory that holds more of them.
OldMemories == { [c \in 2 * MB .. HIGH - 1 |-> Blank], [c \in 2 * MB .. HIGH - 1 |-> Frame(14)] }
=============================================================================
