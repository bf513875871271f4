------------------------------- MODULE Machine -------------------------------
(***************************************************************************)
(* What the kernel multiplexes: the registers of a process, and what one   *)
(* instruction of its program does to them.  Process TTY is task_tty       *)
(* (ring 1, IOPL 1: it may clear IF); the others are TestA, TestB, TestC   *)
(* (ring 3), which compute and make system calls.                          *)
(***************************************************************************)
EXTENDS SchedOps

CONSTANTS
  Irqs,       \* the request lines of the master 8259 that are wired
  UserEips,   \* where a ring 3 program can be
  TickWrap    \* ticks is counted modulo TickWrap (2^32 in the kernel)

CLOCK == 0
KEYBOARD == 1
TTY == 0

ASSUME IrqsAssumption == Irqs \subseteq 0 .. 7 /\ {CLOCK, KEYBOARD} \subseteq Irqs
ASSUME UserEipsAssumption == UserEips # {}
ASSUME TickWrapAssumption == TickWrap \in Nat \ {0}

\* task_tty by where it is in its own code: about to call put_irq_handler,
\* then enable_irq, in its for loop, and between the disable_int and the
\* enable_int of get_byte_from_kb_buf (or of set_video_start_addr).
TtyEips == {"put_irq_handler", "enable_irq", "loop", "disable_int"}

Contexts ==
  [eip : TtyEips \cup UserEips, eax : 0 .. TickWrap - 1, iflag : BOOLEAN]

\* STACK_FRAME as kenos_main fills it: both values of eflags have IF set.
FirstContext(p) ==
  [eip   |-> IF p = TTY THEN "put_irq_handler" ELSE CHOOSE e \in UserEips : TRUE,
   eax   |-> 0,
   iflag |-> TRUE]

TtyInstruction(c, d) ==
  \/ c.eip = "put_irq_handler" /\ d = [c EXCEPT !.eip = "enable_irq"]
  \/ c.eip = "enable_irq" /\ d = [c EXCEPT !.eip = "loop"]
  \/ c.eip = "loop" /\ d = [c EXCEPT !.eip = "disable_int", !.iflag = FALSE]
  \/ c.eip = "disable_int" /\ d = [c EXCEPT !.eip = "loop", !.iflag = TRUE]

UserInstruction(c, d) == \E e \in UserEips : d = [c EXCEPT !.eip = e]

Instruction(p, c, d) ==
  IF p = TTY THEN TtyInstruction(c, d) ELSE UserInstruction(c, d)
=============================================================================
