--------------------------------- MODULE Pic ---------------------------------
(***************************************************************************)
(* The two 8259 interrupt controllers and the code that programs them:     *)
(* init_8259A and put_irq_handler (kernel/i8259.c), disable_irq and        *)
(* enable_irq (lib/klib.S), and the beginning and the end of hwint_master  *)
(* and hwint_slave (kernel/kernel.S).                                      *)
(*                                                                         *)
(* The slave raises line CASCADE of the master.  The lower a line the      *)
(* higher its priority; a chip lets a line through if no line of the same  *)
(* or a higher priority is in service.  This module has the operations;    *)
(* module Traps says when they happen.                                     *)
(***************************************************************************)
EXTENDS Integers, FiniteSetsExt

VARIABLES
  irr,         \* irr[c]: the requests latched in chip c
  imr,         \* imr[c]: the lines masked, INT_M_CTLMASK and INT_S_CTLMASK
  isr,         \* isr[c]: the lines in service
  irq_table    \* the handler of each line

chips == <<irr, imr, isr>>
pic == <<chips, irq_table>>

MASTER == 0
SLAVE == 1
CASCADE == 2
Chips == {MASTER, SLAVE}
NR_IRQ == 16
Lines == 0 .. NR_IRQ - 1
ChipOf(irq) == irq \div 8
BitOf(irq) == irq % 8
AllBits == 0 .. 7

Handlers ==
  {"spurious_irq", "clock_handler", "keyboard_handler", "pri_ide_handler", "sec_ide_handler"}

PicTypeOK ==
  /\ irr \in [Chips -> SUBSET AllBits]
  /\ imr \in [Chips -> SUBSET AllBits]
  /\ isr \in [Chips -> SUBSET AllBits]
  /\ irq_table \in [Lines -> Handlers]

-----------------------------------------------------------------------------
(* The chips.                                                              *)

\* A device raises its line.
Raise(irq) ==
  /\ BitOf(irq) \notin irr[ChipOf(irq)]
  /\ irr' = [irr EXCEPT ![ChipOf(irq)] = @ \cup {BitOf(irq)}]
  /\ UNCHANGED <<imr, isr, irq_table>>

LetThrough(c, requests) ==
  {b \in requests \ imr[c] : \A s \in isr[c] : b < s}

SlaveRequests == LetThrough(SLAVE, irr[SLAVE])
MasterRequests ==
  LetThrough(MASTER, irr[MASTER] \cup IF SlaveRequests = {} THEN {} ELSE {CASCADE})

\* The line whose interrupt the CPU takes: its request becomes service, at the
\* master and, if it came through the cascade, at the slave.
Acknowledge(irq) ==
  /\ MasterRequests # {}
  /\ LET m == Min(MasterRequests)
         s == IF m = CASCADE THEN Min(SlaveRequests) ELSE 0
     IN /\ irq = IF m = CASCADE THEN 8 + s ELSE m
        /\ isr' = [c \in Chips |-> isr[c] \cup (IF c = MASTER THEN {m}
                                                ELSE IF m = CASCADE THEN {s} ELSE {})]
        /\ irr' = [irr EXCEPT ![ChipOf(irq)] = @ \ {BitOf(irq)}]
  /\ UNCHANGED <<imr, irq_table>>

\* The non-specific end of interrupt ends the service of the highest priority.
AfterEOI(c) == IF isr[c] = {} THEN {} ELSE isr[c] \ {Min(isr[c])}

-----------------------------------------------------------------------------
(* The code.                                                               *)

\* The initialisation words clear both chips; then every line is masked and
\* has spurious_irq for its handler.
init_8259A ==
  /\ irr' = [c \in Chips |-> {}]
  /\ isr' = [c \in Chips |-> {}]
  /\ imr' = [c \in Chips |-> AllBits]
  /\ irq_table' = [irq \in Lines |-> "spurious_irq"]

\* Both branches of disable_irq test the mask of the master, and disable_8
\* writes what it read there, with the bit set, to the mask of the slave.
Disabled(masks, irq) ==
  IF BitOf(irq) \in masks[MASTER] THEN masks
  ELSE [masks EXCEPT ![ChipOf(irq)] = masks[MASTER] \cup {BitOf(irq)}]

\* Mutant: the line of the slave opens the cascade with it.
Enabled_WithCascade(masks, irq) ==
  [c \in Chips |-> IF ChipOf(irq) = c THEN masks[c] \ {BitOf(irq)}
                   ELSE IF c = MASTER THEN masks[c] \ {CASCADE} ELSE masks[c]]

Enabled(masks, irq) == [masks EXCEPT ![ChipOf(irq)] = @ \ {BitOf(irq)}]

disable_irq(irq) == imr' = Disabled(imr, irq) /\ UNCHANGED <<irr, isr>>
enable_irq(irq) == imr' = Enabled(imr, irq) /\ UNCHANGED <<irr, isr>>

\* hwint_master and hwint_slave from save to sti: the line is masked at its
\* chip and the service ends, at the chip of the line only.
hwint_begin(irq) ==
  /\ imr' = [imr EXCEPT ![ChipOf(irq)] = @ \cup {BitOf(irq)}]
  /\ isr' = [isr EXCEPT ![ChipOf(irq)] = AfterEOI(ChipOf(irq))]
  /\ UNCHANGED <<irr, irq_table>>

\* From cli to ret: the line is let in again, enabled before or not.
hwint_end(irq) ==
  /\ imr' = [imr EXCEPT ![ChipOf(irq)] = @ \ {BitOf(irq)}]
  /\ UNCHANGED <<irr, isr, irq_table>>
=============================================================================
