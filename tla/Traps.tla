-------------------------------- MODULE Traps --------------------------------
(***************************************************************************)
(* From _start of the kernel to the programs, and every way back in: the   *)
(* tables that cstart and init_prot fill (kernel/start.c, protect.c), what *)
(* kenos_main does before restart (kernel/main.c), interrupts through the  *)
(* two 8259s of module Pic, the exceptions, and the int instruction.       *)
(*                                                                         *)
(* The CPU is external: it finds a gate in the IDT, checks the privileges, *)
(* and pushes.  An exception prints and halts with IF clear, and so is the *)
(* end of a behaviour.  Glitch is an interrupt whose request has gone when *)
(* the CPU acknowledges it, which the master reports as its line 7.        *)
(***************************************************************************)
EXTENDS Pic, Sequences

CONSTANTS
  NR_TASKS, NR_PROCS,
  Wired,         \* the lines that a device is on
  MaxGlitches,   \* how many glitches there are
  SoftVectors    \* n of the int n that processes execute

ASSUME TrapsAssumption ==
  /\ NR_TASKS \in Nat \ {0} /\ NR_PROCS \in Nat
  /\ Wired \subseteq Lines \ {CASCADE} /\ MaxGlitches \in Nat /\ SoftVectors \subseteq 0 .. 255

VARIABLES
  main,        \* how far _start and kenos_main are
  tty,         \* how far task_tty is in init_keyboard
  gdt, idt,    \* the tables of the kernel
  gdtr, idtr,  \* which tables the CPU uses
  tr,          \* the descriptor of its TSS
  ldts,        \* the LDT of each process, in proc_table
  current,     \* p_proc_ready, to whose frame tss.esp0 points
  insys,       \* a system call is open
  hwints,      \* the hwint routines open, innermost last
  iflag,       \* IF
  glitches,
  outcome,     \* of the machine: it runs, it halted, or the CPU found no way on
  happened,    \* history: the exception that halted it, as the CPU raised it
  reported     \* the arguments of exception_handler

boot == <<main, gdt, idt, gdtr, idtr, tr, ldts>>
cpu == <<current, insys, hwints, iflag>>
end == <<outcome, happened, reported>>
vars == <<pic, boot, tty, cpu, glitches, end>>

Procs == 0 .. NR_TASKS + NR_PROCS - 1
INDEX_FLAT_C == 1
INDEX_FLAT_RW == 2
INDEX_VIDEO == 3
INDEX_TSS == 4
INDEX_LDT_FIRST == 5
Privilege(p) == IF p < NR_TASKS THEN 1 ELSE 3

\* A descriptor: for the table of which process it is, if for one.
Desc(type, dpl, of) == [type |-> type, dpl |-> dpl, of |-> of]
Absent == Desc("none", 0, 0)
Descs == [type : {"code", "data", "TSS", "LDT", "none"}, dpl : 0 .. 3, of : Nat]
Indices == 0 .. INDEX_LDT_FIRST + NR_TASKS + NR_PROCS
LoaderGdt ==
  [i \in Indices |-> CASE i = INDEX_FLAT_C -> Desc("code", 0, 0)
                       [] i = INDEX_FLAT_RW -> Desc("data", 0, 0)
                       [] i = INDEX_VIDEO -> Desc("data", 3, 0)
                       [] OTHER -> Absent]

Exceptions == 0 .. 14 \cup {16}
INT_VECTOR_IRQ0 == 32
INT_VECTOR_SYS_CALL == 144
\* All that the CPU is made to look at.
Vectors == Exceptions \cup INT_VECTOR_IRQ0 .. INT_VECTOR_IRQ0 + 15 \cup {INT_VECTOR_SYS_CALL} \cup SoftVectors
Gate(handler, n, dpl) == [handler |-> handler, n |-> n, dpl |-> dpl]
NoGate == Gate("none", 0, 0)
Gates == [handler : {"exception", "hwint", "sys_call", "none"}, n : Nat, dpl : 0 .. 3]

\* The values of the stack that have to be told apart.  NoErr is what the
\* stubs push for an error code, 0xFFFFFFFF.
NoErr == -1
EIP == 1000
EFLAGS == 2000 + IF iflag THEN 512 ELSE 0
Older == 3000
Reports == [vec_no : Int, err_code : Int, eip : Int, cs : Int, eflags : Int]
NoReport == [vec_no |-> 0, err_code |-> 0, eip |-> 0, cs |-> 0, eflags |-> 0]

\* What _start, cstart, init_prot and kenos_main do, in this order.
Steps ==
  << [op |-> "cstart"], [op |-> "gates"], [op |-> "descriptors"], [op |-> "load_tables"],
     [op |-> "ltr"],
     [op |-> "put", irq |-> 14, handler |-> "pri_ide_handler"],
     [op |-> "put", irq |-> 15, handler |-> "sec_ide_handler"],
     [op |-> "enable", irq |-> 14], [op |-> "enable", irq |-> 15],
     [op |-> "proc_table"],
     [op |-> "put", irq |-> 0, handler |-> "clock_handler"],
     [op |-> "enable", irq |-> 0],
     [op |-> "restart"] >>

TypeOK ==
  /\ PicTypeOK
  /\ main \in 1 .. Len(Steps) + 1
  /\ tty \in {"disable", "store", "enable", "loop"}
  /\ \A i \in Indices : gdt[i] \in Descs
  /\ \A v \in Vectors : idt[v] \in Gates
  /\ gdtr \in {"loader", "kernel"} /\ idtr \in {"bios", "kernel"}
  /\ tr \in {"none", "kernel"}
  /\ \A p \in Procs : \A i \in {0, 1} : ldts[p][i] \in Descs
  /\ current \in Procs
  /\ insys \in BOOLEAN /\ iflag \in BOOLEAN
  /\ \A i \in 1 .. Len(hwints) :
       hwints[i] \in [irq : Lines, pc : {"begin", "call", "end"}, handler : Handlers]
  /\ glitches \in 0 .. MaxGlitches
  /\ outcome \in {"runs", "halted", "lost"}
  /\ happened \in Reports /\ reported \in Reports

\* What the loader leaves: IF clear, its own GDT, the 8259s as the BIOS uses
\* them.
Init ==
  /\ irr = [c \in Chips |-> {}] /\ imr = [c \in Chips |-> {}] /\ isr = [c \in Chips |-> {}]
  /\ irq_table = [irq \in Lines |-> "spurious_irq"]
  /\ main = 1 /\ tty = "disable"
  /\ gdt = [i \in Indices |-> Absent] /\ idt = [v \in Vectors |-> NoGate]
  /\ gdtr = "loader" /\ idtr = "bios" /\ tr = "none"
  /\ ldts = [p \in Procs |-> [i \in {0, 1} |-> Absent]]
  /\ current = 0 /\ insys = FALSE /\ hwints = <<>> /\ iflag = FALSE
  /\ glitches = 0
  /\ outcome = "runs" /\ happened = NoReport /\ reported = NoReport

-----------------------------------------------------------------------------
(* The way up.  IF is clear, so that nothing comes in between.             *)

Step(op) == outcome = "runs" /\ main <= Len(Steps) /\ Steps[main].op = op /\ main' = main + 1

Cstart ==
  /\ Step("cstart")
  /\ gdt' = LoaderGdt
  /\ UNCHANGED <<pic, tty, idt, gdtr, idtr, tr, ldts, cpu, glitches, end>>

\* The handler and the privilege init_idt_desc is given for each vector.
IdtEntry(v) ==
  CASE v \in Exceptions -> Gate("exception", v, IF v \in {3, 4} THEN 3 ELSE 0)
    [] v \in INT_VECTOR_IRQ0 .. INT_VECTOR_IRQ0 + 15 -> Gate("hwint", v - INT_VECTOR_IRQ0, 0)
    [] v = INT_VECTOR_SYS_CALL -> Gate("sys_call", 0, 3)
    [] OTHER -> NoGate

\* init_prot: the 8259s and the gates,
InitGates ==
  /\ Step("gates")
  /\ init_8259A
  /\ idt' = [v \in Vectors |-> IdtEntry(v)]
  /\ UNCHANGED <<tty, gdt, gdtr, idtr, tr, ldts, cpu, glitches, end>>

\* Mutant: the loop ends one process early.
InitDescriptors_OneShort ==
  /\ Step("descriptors")
  /\ gdt' = [i \in Indices |->
       CASE i = INDEX_TSS -> Desc("TSS", 0, 0)
         [] i \in INDEX_LDT_FIRST .. INDEX_LDT_FIRST + NR_TASKS + NR_PROCS - 2 ->
              Desc("LDT", 0, i - INDEX_LDT_FIRST)
         [] OTHER -> gdt[i]]
  /\ UNCHANGED <<pic, tty, idt, gdtr, idtr, tr, ldts, cpu, glitches, end>>

\* then the descriptors of the TSS and of the LDT of each process.
InitDescriptors ==
  /\ Step("descriptors")
  /\ gdt' = [i \in Indices |->
       CASE i = INDEX_TSS -> Desc("TSS", 0, 0)
         [] i \in INDEX_LDT_FIRST .. INDEX_LDT_FIRST + NR_TASKS + NR_PROCS - 1 ->
              Desc("LDT", 0, i - INDEX_LDT_FIRST)
         [] OTHER -> gdt[i]]
  /\ UNCHANGED <<pic, tty, idt, gdtr, idtr, tr, ldts, cpu, glitches, end>>

Active(i) == IF gdtr = "kernel" THEN gdt[i] ELSE LoaderGdt[i]

\* lgdt, lidt and the jump that loads CS.
LoadTables ==
  /\ Step("load_tables")
  /\ gdtr' = "kernel" /\ idtr' = "kernel"
  /\ outcome' = IF gdt[INDEX_FLAT_C].type = "code" THEN "runs" ELSE "lost"
  /\ UNCHANGED <<pic, tty, gdt, idt, tr, ldts, cpu, glitches, happened, reported>>

Ltr ==
  /\ Step("ltr")
  /\ tr' = "kernel"
  /\ outcome' = IF Active(INDEX_TSS).type = "TSS" THEN "runs" ELSE "lost"
  /\ UNCHANGED <<pic, tty, gdt, idt, gdtr, idtr, ldts, cpu, glitches, happened, reported>>

\* put_irq_handler, and enable_irq, of init_ide_dev and init_clock.
PutIrqHandler ==
  /\ Step("put")
  /\ disable_irq(Steps[main].irq)
  /\ irq_table' = [irq_table EXCEPT ![Steps[main].irq] = Steps[main].handler]
  /\ UNCHANGED <<tty, gdt, idt, gdtr, idtr, tr, ldts, cpu, glitches, end>>

EnableIrq ==
  /\ Step("enable")
  /\ enable_irq(Steps[main].irq)
  /\ UNCHANGED <<irq_table, tty, gdt, idt, gdtr, idtr, tr, ldts, cpu, glitches, end>>

\* The loop of kenos_main, as far as segments are concerned: copies of the
\* descriptors of the kernel, with type and DPL stored over.
FillProcTable ==
  /\ Step("proc_table")
  /\ ldts' = [p \in Procs |-> [i \in {0, 1} |->
       IF i = 0 THEN Desc("code", Privilege(p), gdt[INDEX_FLAT_C].of)
       ELSE Desc("data", Privilege(p), gdt[INDEX_FLAT_RW].of)]]
  /\ UNCHANGED <<pic, tty, gdt, idt, gdtr, idtr, tr, cpu, glitches, end>>

\* The selectors that restart loads for p, with its RPL, are good: the LDT is
\* its own, CS and SS have its privilege, GS (the video memory) admits it.
Loadable(p) ==
  /\ Active(INDEX_LDT_FIRST + p) = Desc("LDT", 0, p)
  /\ ldts[p][0] = Desc("code", Privilege(p), 0)
  /\ ldts[p][1] = Desc("data", Privilege(p), 0)
  /\ Active(INDEX_VIDEO).dpl >= Privilege(p)

\* restart, to process p: its registers have IF set.
restart(p) ==
  /\ current' = p
  /\ iflag' = TRUE
  /\ outcome' = IF Loadable(p) THEN "runs" ELSE "lost"

FirstRestart ==
  /\ Step("restart")
  /\ restart(0)
  /\ UNCHANGED <<pic, tty, gdt, idt, gdtr, idtr, tr, ldts, insys, hwints, glitches,
                 happened, reported>>

-----------------------------------------------------------------------------
(* The CPU.                                                                *)

Running == outcome = "runs" /\ main > Len(Steps)
InProcess == Running /\ hwints = <<>> /\ ~insys
CPL == IF InProcess THEN Privilege(current) ELSE 0

\* The exceptions for which the CPU pushes an error code.
HasError == {8, 10, 11, 12, 13, 14}
Pushed(v, err) ==
  <<Older, EFLAGS, CPL, EIP>> \o IF v \in HasError THEN <<err>> ELSE <<>>

\* Mutant: a dummy error code for a fault that has one.
Stub_PageFaultToo(v) == IF v \in HasError \ {14} THEN <<v>> ELSE <<NoErr, v>>

\* What the stub of an exception pushes.
Stub(v) == IF v \in {8, 10, 11, 12, 13, 14} THEN <<v>> ELSE <<NoErr, v>>

\* Exception v comes through the gate of vector n; exception_handler finds its
\* arguments on the stack; then hlt.
Halt(v, n, err) ==
  /\ outcome' = "halted"
  /\ happened' = [vec_no |-> v, err_code |-> IF v \in HasError THEN err ELSE NoErr,
                  eip |-> EIP, cs |-> CPL, eflags |-> EFLAGS]
  /\ LET s == Pushed(v, err) \o Stub(n)
         top == Len(s)
     IN reported' = [vec_no |-> s[top], err_code |-> s[top - 1], eip |-> s[top - 2],
                     cs |-> s[top - 3], eflags |-> s[top - 4]]

\* An exception, wherever the CPU is: the gate has to be there, and a stack.
Exception(v, err) ==
  /\ Running
  /\ IF idtr = "kernel" /\ idt[v].handler = "exception" /\ (CPL > 0 => tr = "kernel")
     THEN Halt(v, idt[v].n, err)
     ELSE outcome' = "lost" /\ UNCHANGED <<happened, reported>>
  /\ UNCHANGED <<pic, boot, tty, cpu, glitches>>

\* int v, by a process: a gate that it may use, or the exception #GP.
SoftInt(v) ==
  /\ InProcess
  /\ LET g == idt[v]
         admitted == g.handler # "none" /\ g.dpl >= CPL
     IN /\ insys' = (admitted /\ g.handler = "sys_call")
        /\ hwints' = IF admitted /\ g.handler = "hwint"
                     THEN <<[irq |-> g.n, pc |-> "begin", handler |-> "spurious_irq"]>> ELSE <<>>
        /\ iflag' = IF hwints' = <<>> THEN iflag ELSE FALSE
        /\ IF admitted /\ g.handler # "exception" THEN UNCHANGED end
           ELSE IF admitted THEN Halt(v, g.n, 0)
           ELSE Halt(13, idt[13].n, 8 * v + 2)
  /\ UNCHANGED <<pic, boot, tty, current, glitches>>

\* The system call, with interrupts on, returns.
SysReturn ==
  /\ Running /\ insys /\ hwints = <<>>
  /\ insys' = FALSE
  /\ restart(current)
  /\ UNCHANGED <<pic, boot, tty, hwints, glitches, happened, reported>>

\* The gate of the line leads to its routine.
Enter(irq) ==
  LET g == idt[INT_VECTOR_IRQ0 + irq]
  IN /\ hwints' = Append(hwints, [irq |-> g.n, pc |-> "begin", handler |-> "spurious_irq"])
     /\ iflag' = FALSE

Interrupt(irq) ==
  /\ Running /\ iflag
  /\ Acknowledge(irq)
  /\ Enter(irq)
  /\ UNCHANGED <<boot, tty, current, insys, glitches, end>>

Glitch ==
  /\ Running /\ iflag /\ glitches < MaxGlitches
  /\ glitches' = glitches + 1
  /\ Enter(7)
  /\ UNCHANGED <<pic, boot, tty, current, insys, end>>

-----------------------------------------------------------------------------
(* hwint_master and hwint_slave.                                           *)

Top == hwints[Len(hwints)]
TopIs(pc) == Running /\ hwints # <<>> /\ Top.pc = pc

HwintBegin ==
  /\ TopIs("begin")
  /\ hwint_begin(Top.irq)
  /\ hwints' = [hwints EXCEPT ![Len(hwints)].pc = "call"]
  /\ iflag' = TRUE
  /\ UNCHANGED <<boot, tty, current, insys, glitches, end>>

\* The handler that the table holds by now runs.
HwintCall ==
  /\ TopIs("call")
  /\ hwints' = [hwints EXCEPT ![Len(hwints)] =
                  [irq |-> Top.irq, pc |-> "end", handler |-> irq_table[Top.irq]]]
  /\ UNCHANGED <<pic, boot, tty, current, insys, iflag, glitches, end>>

\* Back to where the interrupt came in; the clock may have chosen another
\* process, if it came in a process.
HwintEnd ==
  /\ TopIs("end")
  /\ hwint_end(Top.irq)
  /\ hwints' = SubSeq(hwints, 1, Len(hwints) - 1)
  /\ IF hwints' = <<>> /\ ~insys
     THEN \E p \in IF Top.irq = 0 THEN Procs ELSE {current} : restart(p)
     ELSE iflag' = TRUE /\ UNCHANGED <<current, outcome>>
  /\ UNCHANGED <<boot, tty, insys, glitches, happened, reported>>

-----------------------------------------------------------------------------
(* task_tty registers the keyboard, with interrupts on.                    *)

TtyStep(from, to) == InProcess /\ current = 0 /\ tty = from /\ tty' = to

\* Mutant: the line is enabled before its handler is in the table.
InitKeyboard_EnabledFirst ==
  /\ \/ /\ TtyStep("disable", "store") /\ enable_irq(1) /\ UNCHANGED irq_table
     \/ /\ TtyStep("store", "enable")
        /\ irq_table' = [irq_table EXCEPT ![1] = "keyboard_handler"]
        /\ UNCHANGED chips
     \/ /\ TtyStep("enable", "loop") /\ enable_irq(1) /\ UNCHANGED irq_table
  /\ UNCHANGED <<boot, cpu, glitches, end>>

InitKeyboard ==
  /\ \/ /\ TtyStep("disable", "store") /\ disable_irq(1) /\ UNCHANGED irq_table
     \/ /\ TtyStep("store", "enable")
        /\ irq_table' = [irq_table EXCEPT ![1] = "keyboard_handler"]
        /\ UNCHANGED chips
     \/ /\ TtyStep("enable", "loop") /\ enable_irq(1) /\ UNCHANGED irq_table
  /\ UNCHANGED <<boot, cpu, glitches, end>>

DeviceRaises(irq) ==
  /\ Running
  /\ Raise(irq)
  /\ UNCHANGED <<boot, tty, cpu, glitches, end>>

Boot ==
  \/ Cstart \/ InitGates \/ InitDescriptors \/ LoadTables \/ Ltr
  \/ PutIrqHandler \/ EnableIrq \/ FillProcTable \/ FirstRestart

Next ==
  \/ Boot
  \/ \E irq \in Wired : DeviceRaises(irq) \/ Interrupt(irq)
  \/ Glitch
  \/ HwintBegin \/ HwintCall \/ HwintEnd
  \/ InitKeyboard
  \/ SysReturn
  \/ \E v \in SoftVectors : SoftInt(v)
  \/ \E v \in Exceptions, err \in {0, 1} : Exception(v, err)

Spec == Init /\ [][Next]_vars

-----------------------------------------------------------------------------
(* Properties.                                                             *)

\* The CPU finds every descriptor and every gate that it is made to use: CS,
\* LDTR, TR and the segment registers of a process are loaded only after an
\* entry of the right kind and privilege is there, and so is a gate and a
\* stack for each exception that can come in a process or in the kernel.
NoBadDescriptor == outcome # "lost"

\* What exception_handler prints is the exception that happened and where:
\* each stub pushes a dummy error code exactly where the CPU pushes none.
ReportsWhatHappened == outcome = "halted" => reported = happened

\* A line is masked at its own chip while its routine is open and until it is
\* enabled, and at no other time, although one disable_irq looks at the mask
\* of the other chip.  A glitch leaves line 7 unmasked, enabled or not.
Opened(irq) ==
  IF irq = 1 THEN tty = "loop"
  ELSE \E i \in 1 .. main - 1 : Steps[i].op = "enable" /\ Steps[i].irq = irq
Masked(irq) == BitOf(irq) \in imr[ChipOf(irq)]
MasksMatchLines ==
  main > 2 =>
    \A irq \in Lines \ {7} :
      Masked(irq) <=> ~Opened(irq) \/ \E i \in 1 .. Len(hwints) :
                                        hwints[i].irq = irq /\ hwints[i].pc # "begin"

\* Whenever interrupts are on no chip has a line in service, so that any line
\* that is enabled can interrupt: the one EOI of hwint_slave is enough only
\* because the cascade stays masked.
NothingHeldInService == iflag => \A c \in Chips : isr[c] = {}

\* The two facts that every interrupt routine relies on, about chips, stack
\* and tables of the types stated.
PicInv == TypeOK /\ MasksMatchLines /\ NothingHeldInService

\* The lines that kenos enables reach the handler put for them, and what
\* reaches spurious_irq is the line that a glitch shows.
RightHandler ==
  \A i \in 1 .. Len(hwints) :
    hwints[i].pc = "end" =>
      hwints[i].handler = CASE hwints[i].irq = 0 -> "clock_handler"
                            [] hwints[i].irq = 1 -> "keyboard_handler"
                            [] OTHER -> "spurious_irq"
=============================================================================
