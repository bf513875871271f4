------------------------------- MODULE Kernel -------------------------------
(***************************************************************************)
(* The low half of kenos: interrupt entry and exit, system calls, the      *)
(* clock and the process switch (kernel/kernel.S, clock.c, proc.c,         *)
(* i8259.c, syscall.S), running the programs of Machine.                   *)
(*                                                                         *)
(* One CPU executes; an action is what it does between two points at which *)
(* an interrupt could come in.  While IF is clear no interrupt does, so a  *)
(* stretch of instructions under cli is one action.                        *)
(***************************************************************************)
EXTENDS Machine, Sequences, FiniteSets

VARIABLES
  cpu,          \* registers of the CPU; in the kernel only its IF matters
  frames,       \* what save and the hwint macros pushed, innermost last
  k_reenter,    \* -1 in a process, 0 in the kernel, more when nested
  tss_esp0,     \* the process whose regs tss.esp0 points at the end of
  p_proc_ready, \* the process that restart resumes
  regs,         \* regs[p]: proc_table[p].regs
  proc_ticks,   \* proc_ticks[p]: proc_table[p].ticks
  schedule,     \* the pointer, by the name of the function it points to
  ticks,        \* clock interrupts so far, modulo TickWrap
  irq_table,    \* irq_table[irq]
  sys,          \* the system call being served: what sys_call pushed, and EAX
  mask,         \* 8259: the set bits of the mask register
  irr,          \* 8259: requests latched
  isr           \* 8259: requests in service, until EOI

kstack == <<frames, k_reenter>>
procs == <<regs, tss_esp0, p_proc_ready>>
sched == <<proc_ticks, schedule, ticks>>
pic == <<mask, irr, isr>>
vars == <<cpu, kstack, procs, sched, irq_table, sys, pic>>

SYS_VECTOR == 144        \* INT_VECTOR_SYS_CALL

\* The code an interrupt frame can be executing with IF set ...
Open ==
  {"clock_handler", "k_reenter_test", "keyboard_handler", "spurious_irq",
   "handled", "sys_xxx", "sys_done"}

\* ... and with IF clear: after save, and at the ret that follows cli.
Closed == {"saved", "ret"}

Frames ==
  [vector : Irqs \cup {SYS_VECTOR}, pc : Open \cup Closed,
   retaddr : {"restart", "restart_reenter"}]

SysCalls == {"get_ticks", "other"}

TypeOK ==
  /\ cpu \in Contexts
  /\ frames \in Seq(Frames)
  /\ k_reenter \in Int
  /\ tss_esp0 \in Procs
  /\ p_proc_ready \in Procs
  /\ regs \in [Procs -> Contexts]
  /\ proc_ticks \in [Procs -> Int]
  /\ schedule \in {"sched0", "xsched01"}
  /\ ticks \in 0 .. TickWrap - 1
  /\ irq_table \in [Irqs -> {"clock_handler", "keyboard_handler", "spurious_irq"}]
  /\ sys \in [nr : SysCalls, caller : Procs, eax : 0 .. TickWrap - 1]
  /\ mask \subseteq Irqs
  /\ irr \subseteq Irqs
  /\ isr \subseteq Irqs

\* What the restart() at the end of kenos_main leaves: TTY is about to run,
\* the clock has its handler and is the only line enabled.
Init ==
  /\ cpu = FirstContext(TTY)
  /\ frames = <<>>
  /\ k_reenter = -1
  /\ tss_esp0 = 0
  /\ p_proc_ready = 0
  /\ regs = [p \in Procs |-> FirstContext(p)]
  /\ proc_ticks = Priority
  /\ schedule = "sched0"
  /\ ticks = 0
  /\ irq_table = [irq \in Irqs |-> IF irq = CLOCK THEN "clock_handler" ELSE "spurious_irq"]
  /\ sys = [nr |-> "other", caller |-> 0, eax |-> 0]
  /\ mask = Irqs \ {CLOCK}
  /\ irr = {}
  /\ isr = {}

-----------------------------------------------------------------------------
(* The devices and the 8259.                                               *)

InProcess == frames = <<>>
Running(p) == InProcess /\ tss_esp0 = p

\* A device raises its line.  A line already latched takes no second request.
Raise(irq) ==
  /\ irr' = irr \cup {irq}
  /\ UNCHANGED <<cpu, kstack, procs, sched, irq_table, sys, mask, isr>>

\* The 8259 interrupts the CPU with the first line that is latched and not
\* masked, unless one of the same or a higher priority is in service.
Requests(irq) ==
  /\ cpu.iflag
  /\ irq \in irr \ mask
  /\ \A other \in irr \ mask : irq <= other
  /\ \A served \in isr : irq < served

-----------------------------------------------------------------------------
(* Into the kernel and out of it.                                          *)

Top == frames[Len(frames)]
TopIs(pc) == frames # <<>> /\ Top.pc = pc
Goto(pc) == frames' = [frames EXCEPT ![Len(frames)].pc = pc]

\* What save leaves under the handler: the way back that fits the depth.
NewFrame(vector, depth) ==
  [vector |-> vector, pc |-> "saved",
   retaddr |-> IF depth = 0 THEN "restart" ELSE "restart_reenter"]

\* The gate clears IF and pushes where it came from, at tss.esp0 when that
\* was a process; save pushes the rest, counts the entry and moves an
\* outermost one to the empty kernel stack.
Save(vector) ==
  /\ k_reenter' = k_reenter + 1
  /\ cpu' = [cpu EXCEPT !.iflag = FALSE]
  /\ IF InProcess THEN regs' = [regs EXCEPT ![tss_esp0] = cpu] ELSE UNCHANGED regs
  /\ frames' = IF k_reenter' = 0 THEN <<NewFrame(vector, k_reenter')>>
                                 ELSE Append(frames, NewFrame(vector, k_reenter'))

Interrupt(irq) ==
  /\ Requests(irq)
  /\ irr' = irr \ {irq}
  /\ isr' = isr \cup {irq}
  /\ Save(irq)
  /\ UNCHANGED <<tss_esp0, p_proc_ready, sched, irq_table, sys, mask>>

\* Mutant: the outermost return forgets tss.esp0.
Restart_KeepsEsp0 ==
  /\ TopIs("ret") /\ Top.retaddr = "restart"
  /\ cpu' = regs[p_proc_ready]
  /\ frames' = <<>>
  /\ k_reenter' = k_reenter - 1
  /\ UNCHANGED <<procs, sched, irq_table, sys, pic>>

\* restart: the frame of p_proc_ready becomes the stack and is popped, and
\* the next entry from user mode will push at its end.
Restart ==
  /\ TopIs("ret") /\ Top.retaddr = "restart"
  /\ cpu' = regs[p_proc_ready]
  /\ tss_esp0' = p_proc_ready
  /\ frames' = <<>>
  /\ k_reenter' = k_reenter - 1
  /\ UNCHANGED <<regs, p_proc_ready, sched, irq_table, sys, pic>>

\* Mutant: the nested return does not count down.
RestartReenter_KeepsCount ==
  /\ TopIs("ret") /\ Top.retaddr = "restart_reenter"
  /\ frames' = SubSeq(frames, 1, Len(frames) - 1)
  /\ cpu' = [cpu EXCEPT !.iflag = TRUE]
  /\ UNCHANGED <<k_reenter, procs, sched, irq_table, sys, pic>>

\* restart_reenter: back into the kernel code that was interrupted, which
\* had IF set.
RestartReenter ==
  /\ TopIs("ret") /\ Top.retaddr = "restart_reenter"
  /\ frames' = SubSeq(frames, 1, Len(frames) - 1)
  /\ k_reenter' = k_reenter - 1
  /\ cpu' = [cpu EXCEPT !.iflag = TRUE]
  /\ UNCHANGED <<procs, sched, irq_table, sys, pic>>

-----------------------------------------------------------------------------
(* hwint_master.                                                           *)

\* Mutants: the line is not masked while its handler runs, and
\* no EOI is sent.
HwintEnter_NoMask ==
  /\ TopIs("saved") /\ Top.vector \in Irqs
  /\ isr' = isr \ {irq \in isr : \A other \in isr : irq <= other}
  /\ cpu' = [cpu EXCEPT !.iflag = TRUE]
  /\ Goto(irq_table[Top.vector])
  /\ UNCHANGED <<k_reenter, procs, sched, irq_table, sys, mask, irr>>

HwintEnter_NoEOI ==
  /\ TopIs("saved") /\ Top.vector \in Irqs
  /\ mask' = mask \cup {Top.vector}
  /\ cpu' = [cpu EXCEPT !.iflag = TRUE]
  /\ Goto(irq_table[Top.vector])
  /\ UNCHANGED <<k_reenter, procs, sched, irq_table, sys, isr, irr>>

\* The line is masked, a non-specific EOI ends the service of the highest
\* priority, IF is set and the handler of the line called.
HwintEnter ==
  /\ TopIs("saved") /\ Top.vector \in Irqs
  /\ mask' = mask \cup {Top.vector}
  /\ isr' = isr \ {irq \in isr : \A other \in isr : irq <= other}
  /\ cpu' = [cpu EXCEPT !.iflag = TRUE]
  /\ Goto(irq_table[Top.vector])
  /\ UNCHANGED <<k_reenter, procs, sched, irq_table, sys, irr>>

HwintLeave ==
  /\ TopIs("handled")
  /\ cpu' = [cpu EXCEPT !.iflag = FALSE]
  /\ mask' = mask \ {Top.vector}
  /\ Goto("ret")
  /\ UNCHANGED <<k_reenter, procs, sched, irq_table, sys, irr, isr>>

\* keyboard_handler and spurious_irq leave this module's state alone.
OtherHandler ==
  /\ TopIs("keyboard_handler") \/ TopIs("spurious_irq")
  /\ Goto("handled")
  /\ UNCHANGED <<cpu, k_reenter, procs, sched, irq_table, sys, pic>>

-----------------------------------------------------------------------------
(* clock_handler.                                                          *)

ClockCharge ==
  /\ TopIs("clock_handler")
  /\ ticks' = (ticks + 1) % TickWrap
  /\ proc_ticks' = [proc_ticks EXCEPT ![p_proc_ready] = SpendTick(@)]
  /\ Goto("k_reenter_test")
  /\ UNCHANGED <<cpu, k_reenter, procs, schedule, irq_table, sys, pic>>

\* Mutant: the first return is forgotten.
MayKeepRunning_WhenNested == proc_ticks[p_proc_ready] > 0

\* The two early returns.
MayKeepRunning == k_reenter # 0 \/ proc_ticks[p_proc_ready] > 0

ClockReturn ==
  /\ TopIs("k_reenter_test")
  /\ MayKeepRunning
  /\ Goto("handled")
  /\ UNCHANGED <<cpu, k_reenter, procs, sched, irq_table, sys, pic>>

\* Mutant: the running process alone is refilled.
ClockSchedule_RefillsItself ==
  /\ TopIs("k_reenter_test")
  /\ ~MayKeepRunning
  /\ proc_ticks' = [proc_ticks EXCEPT ![p_proc_ready] = Priority[p_proc_ready]]
  /\ p_proc_ready' = Best(proc_ticks')
  /\ Goto("handled")
  /\ UNCHANGED <<cpu, k_reenter, regs, tss_esp0, schedule, ticks, irq_table, sys, pic>>

\* schedule(proc_table, &p_proc_ready), as SchedLoop shows it to behave.
ClockSchedule ==
  /\ TopIs("k_reenter_test")
  /\ ~MayKeepRunning
  /\ proc_ticks' =
       Filled(proc_ticks, IF schedule = "sched0" THEN sched0Quota ELSE xsched01Quota)
  /\ p_proc_ready' = Best(proc_ticks')
  /\ Goto("handled")
  /\ UNCHANGED <<cpu, k_reenter, regs, tss_esp0, schedule, ticks, irq_table, sys, pic>>

-----------------------------------------------------------------------------
(* System calls.                                                           *)

\* A ring 3 program puts the number in EAX and executes int 0x90.
SysCall ==
  /\ InProcess
  /\ tss_esp0 # TTY
  /\ Save(SYS_VECTOR)
  /\ \E nr \in SysCalls : sys' = [sys EXCEPT !.nr = nr]
  /\ UNCHANGED <<tss_esp0, p_proc_ready, sched, irq_table, pic>>

\* sys_call pushes p_proc_ready for sys_write and only then lets the
\* interrupts in.
SysEnter ==
  /\ TopIs("saved") /\ Top.vector = SYS_VECTOR
  /\ sys' = [sys EXCEPT !.caller = p_proc_ready]
  /\ cpu' = [cpu EXCEPT !.iflag = TRUE]
  /\ Goto("sys_xxx")
  /\ UNCHANGED <<k_reenter, procs, sched, irq_table, pic>>

\* The function of sys_call_table returns: sys_get_ticks the count, the
\* others that the programs call, sys_write and sys_ld_mod, 0.
SysRun ==
  /\ TopIs("sys_xxx")
  /\ sys' = [sys EXCEPT !.eax = IF sys.nr = "get_ticks" THEN ticks ELSE 0]
  /\ Goto("sys_done")
  /\ UNCHANGED <<cpu, k_reenter, procs, sched, irq_table, pic>>

\* The result goes to EAX in the frame that ESI has pointed at since save.
SysStore ==
  /\ TopIs("sys_done")
  /\ regs' = [regs EXCEPT ![tss_esp0].eax = sys.eax]
  /\ cpu' = [cpu EXCEPT !.iflag = FALSE]
  /\ Goto("ret")
  /\ UNCHANGED <<k_reenter, tss_esp0, p_proc_ready, sched, irq_table, sys, pic>>

-----------------------------------------------------------------------------
(* The processes.                                                          *)

UserStep ==
  /\ InProcess /\ tss_esp0 # TTY
  /\ \E c \in Contexts : UserInstruction(cpu, c) /\ cpu' = c
  /\ UNCHANGED <<kstack, procs, sched, irq_table, sys, pic>>

\* task_tty calls put_irq_handler: the line is masked and its entry set.  A
\* clock interrupt between the two finds nothing that reads the entry.
PutIrqHandler ==
  /\ mask' = mask \cup {KEYBOARD}
  /\ irq_table' = [irq_table EXCEPT ![KEYBOARD] = "keyboard_handler"]

EnableIrq ==
  /\ mask' = mask \ {KEYBOARD}
  /\ UNCHANGED irq_table

TtyStep ==
  /\ Running(TTY)
  /\ \E c \in Contexts : TtyInstruction(cpu, c) /\ cpu' = c
  /\ CASE cpu.eip = "put_irq_handler" -> PutIrqHandler
       [] cpu.eip = "enable_irq" -> EnableIrq
       [] OTHER -> UNCHANGED <<irq_table, mask>>
  /\ UNCHANGED <<kstack, procs, sched, sys, irr, isr>>

\* Alt+F12 in in_process.
SwitchScheduler ==
  /\ Running(TTY) /\ cpu.eip = "loop"
  /\ schedule' = IF schedule = "sched0" THEN "xsched01" ELSE "sched0"
  /\ UNCHANGED <<cpu, kstack, procs, proc_ticks, ticks, irq_table, sys, pic>>

-----------------------------------------------------------------------------
\* What the CPU does in the kernel, interrupts apart.
KernelStep ==
  \/ HwintEnter \/ HwintLeave \/ OtherHandler
  \/ ClockCharge \/ ClockReturn \/ ClockSchedule
  \/ SysEnter \/ SysRun \/ SysStore
  \/ Restart \/ RestartReenter

ProcessStep == SysCall \/ UserStep \/ TtyStep \/ SwitchScheduler

Next ==
  \/ \E irq \in Irqs : Raise(irq) \/ Interrupt(irq)
  \/ KernelStep
  \/ ProcessStep

Spec == Init /\ [][Next]_vars

\* The clock ticks; a latched line that is let in again and again is taken;
\* every level of the kernel stack gets to execute between the interrupts that
\* nest on it; TTY executes when it has the CPU.  Nothing is said of where a
\* tick finds the CPU, nor that a program ever leaves off calling.
Fairness ==
  /\ WF_vars(Raise(CLOCK))
  /\ \A irq \in Irqs : SF_vars(Interrupt(irq))
  /\ \A depth \in 1 .. Cardinality(Irqs) + 1 :
       SF_vars(KernelStep /\ Len(frames) = depth)
  /\ SF_vars(TtyStep)

FairSpec == Spec /\ Fairness

-----------------------------------------------------------------------------
(* Properties.                                                             *)

\* k_reenter, on which the clock decides whether it may switch and save where
\* the stack is, counts the frames on the kernel stack less one, and exactly
\* the outermost frame returns through restart.
NestingCounted ==
  /\ k_reenter = Len(frames) - 1
  /\ \A i \in 1 .. Len(frames) :
       frames[i].retaddr = IF i = 1 THEN "restart" ELSE "restart_reenter"

\* No interrupt nests in its own handler and a system call is only ever the
\* outermost frame, so the 2 KB kernel stack holds one frame per line and one
\* more at most.
NoSelfNesting ==
  /\ \A i, j \in 1 .. Len(frames) :
       i # j => frames[i].vector # frames[j].vector
  /\ \A i \in 2 .. Len(frames) : frames[i].vector # SYS_VECTOR

\* The registers of p, wherever they are, and whether they say that task_tty
\* is past its enable_irq.
Context(p) == IF Running(p) THEN cpu ELSE regs[p]
Enabled == {CLOCK} \cup
  IF Context(TTY).eip \in {"loop", "disable_int"} THEN {KEYBOARD} ELSE {}

\* A line is masked while its handler is open, or because nobody has enabled
\* it yet, and at no other time: no order of the read-modify-writes of the
\* mask register loses a line or lets it in too early.
MaskMatchesHandlers ==
  mask = (Irqs \ Enabled) \cup
         {irq \in Irqs : \E i \in 1 .. Len(frames) :
                           frames[i].vector = irq /\ frames[i].pc \in Open}

\* No interrupt finds the default handler: every line that gets through has
\* had its entry of irq_table set.
NoSpuriousHandler == \A i \in 1 .. Len(frames) : frames[i].pc # "spurious_irq"

\* Between an entry to the kernel and the return to a process, p_proc_ready
\* is the process that was interrupted, except after an outermost clock
\* interrupt has called schedule: so a system call runs to its end with the
\* process that made it current, whatever interrupts nest in it, and
\* sys_write writes to the terminal of its caller.
ReadyIsPinned ==
  /\ p_proc_ready # tss_esp0 =>
       /\ ~InProcess
       /\ frames[1].vector = CLOCK
       /\ frames[1].pc \in {"handled", "ret"}
  /\ ~InProcess /\ frames[1].pc \in {"sys_xxx", "sys_done"} =>
       sys.caller = tss_esp0

\* The process that an outermost clock interrupt is about to resume has
\* ticks left, although a tick charged inside a system call may have spent
\* the last one of any process.
ResumedHasTicks ==
  ~InProcess /\ frames[1].vector = CLOCK /\ frames[1].pc \in {"handled", "ret"}
    => proc_ticks[p_proc_ready] > 0

\* IF is set in the kernel exactly between the sti of an entry and the cli
\* before its ret, in every frame an interrupt was let into, and in every
\* process but for the critical sections of task_tty ...
IfMatchesCode ==
  /\ \A i \in 1 .. Len(frames) - 1 : frames[i].pc \in Open
  /\ ~InProcess => (cpu.iflag <=> Top.pc \in Open)
  /\ InProcess => (cpu.iflag <=> ~(tss_esp0 = TTY /\ cpu.eip = "disable_int"))

\* ... which nothing preempts, so every saved EFLAGS has it set.
CriticalSectionHolds ==
  /\ \A p \in Procs : regs[p].iflag
  /\ Context(TTY).eip = "disable_int" => Running(TTY)

\* A frame runs the code of its vector, and its line is one that is enabled.
FramesRunTheirCode ==
  \A i \in 1 .. Len(frames) :
    IF frames[i].vector = SYS_VECTOR
      THEN frames[i].pc \in {"saved", "sys_xxx", "sys_done", "ret"}
      ELSE /\ frames[i].vector \in Enabled
           /\ frames[i].pc \notin {"sys_xxx", "sys_done"}
           /\ frames[i].pc \in {"clock_handler", "k_reenter_test"} =>
                frames[i].vector = CLOCK
           /\ frames[i].pc = "keyboard_handler" => frames[i].vector # CLOCK

\* irq_table has been filled in as far as task_tty has come.
TableMatchesTty ==
  /\ Context(TTY).eip \in TtyEips
  /\ irq_table = [irq \in Irqs |->
       CASE irq = CLOCK -> "clock_handler"
         [] irq = KEYBOARD /\ Context(TTY).eip # "put_irq_handler" -> "keyboard_handler"
         [] OTHER -> "spurious_irq"]

\* The inductive invariant behind the safety properties.
KernelInv ==
  /\ NestingCounted
  /\ IfMatchesCode
  /\ CriticalSectionHolds
  /\ FramesRunTheirCode
  /\ TableMatchesTty
  /\ NoSelfNesting
  /\ MaskMatchesHandlers
  /\ NoSpuriousHandler
  /\ ReadyIsPinned

\* Registers survive every interleaving of interrupts, system calls and
\* switches: each process runs as on a processor of its own.
Waiting ==
  IF ~InProcess /\ frames[1].vector = SYS_VECTOR /\ frames[1].pc # "ret"
    THEN {tss_esp0}
    ELSE {}

VCPU == INSTANCE VirtualCPU WITH
  vcpu <- [p \in Procs |-> Context(p)], waiting <- Waiting

ImplementsVirtualCPU == VCPU!Spec

\* The clock handler keeps the promises of Scheduling although ticks nest in
\* system calls and the scheduler is exchanged while it is in use.
Abs == INSTANCE Scheduling WITH ticks <- proc_ticks, p_ready <- p_proc_ready

ImplementsScheduling == Abs!Spec

\* The clock interrupt being served came from a process, or from kernel code.
OutermostTick == Len(frames) = 1 /\ Top.vector = CLOCK
NestedTick == Len(frames) > 1 /\ Top.vector = CLOCK

\* Every process gets the CPU again and again, for all that the rest call and
\* are interrupted, unless from some moment on each tick falls inside the
\* kernel, where it is charged and cannot switch (clock.c:25-28).  A process
\* that starves is starved in no other way.
StarvedOnlyByNesting ==
  \A p \in Procs : []<>Running(p) \/ (<>[]~OutermostTick /\ []<>NestedTick)

\* A keystroke is served in the end: wherever the ticks fall once task_tty has
\* enabled the line, and before that if it gets to run again.
KeyboardServed ==
  /\ (KEYBOARD \in irr /\ KEYBOARD \in Enabled) ~> KEYBOARD \notin irr
  /\ []<>OutermostTick => (KEYBOARD \in irr ~> KEYBOARD \notin irr)
=============================================================================
