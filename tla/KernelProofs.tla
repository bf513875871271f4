---------------------------- MODULE KernelProofs ----------------------------
(***************************************************************************)
(* The safety of module Kernel for every number of processes, every table  *)
(* of priorities and every set of interrupt lines that includes the clock  *)
(* and the keyboard; and that it implements the two abstract               *)
(* specifications: its clock is a Scheduling, and its processes each run   *)
(* on a VirtualCPU.                                                        *)
(***************************************************************************)
EXTENDS Kernel, SequenceTheorems, WellFoundedInduction, TLAPS

-----------------------------------------------------------------------------
(* What the operators of SchedOps return, for every table of processes.    *)

\* Every quota is an integer, and neither scheduler refills with nothing.
LEMMA QuotaType ==
  /\ Quotas \subseteq [Procs -> Int]
  /\ \A quota \in Quotas : \E p \in Procs : quota[p] > 0
<1>1. Quotas \subseteq [Procs -> Int]
  BY PriorityAssumption DEF Quotas, sched0Quota, xsched01Quota, Procs
<1>2. PICK p \in Procs : Priority[p] >= 5
  BY RefillAssumption
<1>3. Priority[p] \in Int /\ sched0Quota[p] > 0 /\ xsched01Quota[p] > 0
  BY <1>2, PriorityAssumption DEF sched0Quota, xsched01Quota
<1> QED BY <1>1, <1>2, <1>3 DEF Quotas

\* After a refill, if it takes one, the scan has a process to find.
LEMMA FilledProperties ==
  ASSUME NEW t \in [Procs -> Int], NEW quota \in Quotas
  PROVE  Filled(t, quota) \in [Procs -> Int] /\ ~Exhausted(Filled(t, quota))
<1>1. quota \in [Procs -> Int] /\ \E p \in Procs : quota[p] > 0
  BY QuotaType
<1>2. ~Exhausted(quota)
  BY <1>1 DEF Exhausted
<1> QED BY <1>1, <1>2 DEF Filled

\* Entry p is the first of the greatest counts among the entries below n.
FirstOfGreatest(t, n, p) ==
  \A q \in 0 .. n - 1 : t[q] < t[p] \/ (t[q] = t[p] /\ p <= q)

\* One more entry is either greater than all before it or changes nothing.
LEMMA MaximumExtends ==
  ASSUME NEW t \in [Procs -> Int], NEW n \in Nat, 0 < n, n < N,
         NEW p \in 0 .. n - 1, FirstOfGreatest(t, n, p)
  PROVE  \E r \in 0 .. n : FirstOfGreatest(t, n + 1, r)
<1> USE NAssumption
<1>1. \A q \in 0 .. n : t[q] \in Int
  BY DEF Procs
<1>2. \A q \in 0 .. n : q \in 0 .. n - 1 \/ q = n
  OBVIOUS
<1>3. CASE t[n] > t[p]
  <2>1. FirstOfGreatest(t, n + 1, n)
    BY <1>1, <1>2, <1>3 DEF FirstOfGreatest
  <2> QED BY <2>1
<1>4. CASE ~(t[n] > t[p])
  <2>1. FirstOfGreatest(t, n + 1, p)
    BY <1>1, <1>2, <1>4 DEF FirstOfGreatest
  <2> QED BY <2>1
<1> QED BY <1>3, <1>4

\* So every non-empty prefix of the process table has such an entry: the
\* shortest one without it would extend one that has it.
LEMMA PrefixHasMaximum ==
  ASSUME NEW t \in [Procs -> Int], NEW n \in 1 .. N
  PROVE  \E p \in 0 .. n - 1 : FirstOfGreatest(t, n, p)
<1> DEFINE Good(m) == \E p \in 0 .. m - 1 : FirstOfGreatest(t, m, p)
           Bad == {m \in 1 .. N : ~Good(m)}
<1> HIDE DEF Good
<1>1. SUFFICES ASSUME Bad # {} PROVE FALSE
  BY DEF Good
<1>2. Bad \subseteq Nat
  BY NAssumption
<1>3. \E m \in Bad : \A k \in Bad : ~ (<<k, m>> \in OpToRel(<, Nat))
  BY <1>1, <1>2, NatLessThanWellFounded, WFMin
<1>4. PICK m \in Bad : \A k \in Bad : ~ (k < m)
  BY <1>2, <1>3 DEF OpToRel
<1>5. Good(1)
  BY NAssumption DEF Good, FirstOfGreatest, Procs
<1>6. m \in 2 .. N
  BY <1>4, <1>5, NAssumption
<1>7. Good(m - 1)
  BY <1>4, <1>6, NAssumption
<1>8. PICK p \in 0 .. (m - 1) - 1 : FirstOfGreatest(t, m - 1, p)
  BY <1>7 DEF Good
<1>9. \E r \in 0 .. m - 1 : FirstOfGreatest(t, (m - 1) + 1, r)
  BY <1>6, <1>8, MaximumExtends, NAssumption
<1>10. Good(m)
  BY <1>6, <1>9, NAssumption DEF Good
<1> QED BY <1>4, <1>10

\* When some process has ticks left, Best is the first of those with most.
LEMMA BestExists ==
  ASSUME NEW t \in [Procs -> Int], ~Exhausted(t)
  PROVE  Best(t) \in Procs /\ IsBest(t, Best(t))
<1>1. PICK p \in 0 .. N - 1 : FirstOfGreatest(t, N, p)
  BY PrefixHasMaximum, NAssumption
<1>2. PICK r \in Procs : t[r] > 0
  BY DEF Exhausted
<1>3. p \in Procs /\ IsBest(t, p)
  BY <1>1, <1>2 DEF IsBest, FirstOfGreatest, Procs
<1> QED BY <1>3 DEF Best

-----------------------------------------------------------------------------
(* The kernel stack.                                                       *)

\* Goto changes the pc of the innermost frame and nothing else of the stack.
LEMMA GotoProperties ==
  ASSUME frames \in Seq(Frames), frames # <<>>,
         NEW pc \in Open \cup Closed, Goto(pc)
  PROVE  /\ frames' \in Seq(Frames)
         /\ frames' # <<>>
         /\ Len(frames') = Len(frames)
         /\ Len(frames) \in Nat \ {0}
         /\ \A i \in 1 .. Len(frames) :
              /\ frames[i] \in Frames
              /\ frames'[i].vector = frames[i].vector
              /\ frames'[i].retaddr = frames[i].retaddr
              /\ frames'[i].pc = IF i = Len(frames) THEN pc ELSE frames[i].pc
<1> DEFINE e == [frames[Len(frames)] EXCEPT !.pc = pc]
<1>1. Len(frames) \in Nat \ {0} /\ \A i \in 1 .. Len(frames) : frames[i] \in Frames
  BY EmptySeq, LenProperties, ElementOfSeq
<1>2. e \in Frames
  BY <1>1 DEF Frames
<1>3. frames' = [frames EXCEPT ![Len(frames)] = e]
  BY DEF Goto
<1>4. /\ frames' \in Seq(Frames)
      /\ Len(frames') = Len(frames)
      /\ \A i \in 1 .. Len(frames) :
           frames'[i] = IF i = Len(frames) THEN e ELSE frames[i]
  BY <1>1, <1>2, <1>3, ExceptSeq
<1>5. /\ e.pc = pc
      /\ e.vector = frames[Len(frames)].vector
      /\ e.retaddr = frames[Len(frames)].retaddr
  BY <1>1 DEF Frames
<1>6. frames' # <<>>
  BY <1>1, <1>4, EmptySeq
<1> QED BY <1>1, <1>4, <1>5, <1>6

\* The innermost frame is a frame.
LEMMA TopProperties ==
  ASSUME frames \in Seq(Frames), frames # <<>>
  PROVE  Len(frames) \in Nat \ {0} /\ Top \in Frames /\ Top = frames[Len(frames)]
  BY EmptySeq, LenProperties, ElementOfSeq DEF Top

\* While k_reenter counts the frames, save pushes one more, and returns to
\* restart from the outermost only.
LEMMA SaveProperties ==
  ASSUME frames \in Seq(Frames), k_reenter = Len(frames) - 1,
         NEW vector \in Irqs \cup {SYS_VECTOR}, Save(vector)
  PROVE  /\ frames' \in Seq(Frames)
         /\ Len(frames) \in Nat
         /\ Len(frames') = Len(frames) + 1
         /\ \A i \in 1 .. Len(frames) : frames'[i] = frames[i]
         /\ frames'[Len(frames')].vector = vector
         /\ frames'[Len(frames')].pc = "saved"
         /\ frames'[Len(frames')].retaddr =
              IF Len(frames') = 1 THEN "restart" ELSE "restart_reenter"
<1> DEFINE new == NewFrame(vector, k_reenter')
<1>1. /\ new \in Frames
      /\ new.vector = vector
      /\ new.pc = "saved"
      /\ new.retaddr = IF k_reenter' = 0 THEN "restart" ELSE "restart_reenter"
  BY DEF NewFrame, Frames, Closed
<1>2. Len(frames) \in Nat /\ (Len(frames) = 0 <=> frames = <<>>)
  BY LenProperties, EmptySeq
<1>3. frames' = IF k_reenter' = 0 THEN <<new>> ELSE Append(frames, new)
  BY DEF Save
<1>4. k_reenter' = Len(frames)
  BY <1>2 DEF Save
<1> HIDE DEF new
<1>5. frames' = Append(frames, new)
  <2>1. CASE k_reenter' = 0
    <3>1. frames = <<>>
      BY <1>2, <1>4, <2>1
    <3> QED BY <1>3, <2>1, <3>1
  <2>2. CASE k_reenter' # 0
    BY <1>3, <2>2
  <2> QED BY <2>1, <2>2
<1>6. /\ Append(frames, new) \in Seq(Frames)
      /\ Len(Append(frames, new)) = Len(frames) + 1
      /\ \A i \in 1 .. Len(frames) : Append(frames, new)[i] = frames[i]
      /\ Append(frames, new)[Len(frames) + 1] = new
  BY <1>1, AppendProperties
<1> QED BY <1>1, <1>2, <1>4, <1>5, <1>6

\* A nested return pops one frame.
LEMMA PopProperties ==
  ASSUME frames \in Seq(Frames), frames # <<>>,
         frames' = SubSeq(frames, 1, Len(frames) - 1)
  PROVE  /\ frames' \in Seq(Frames)
         /\ Len(frames) \in Nat \ {0}
         /\ Len(frames') = Len(frames) - 1
         /\ \A i \in 1 .. Len(frames) - 1 : frames'[i] = frames[i]
<1>1. Len(frames) \in Nat \ {0} /\ \A i \in 1 .. Len(frames) : frames[i] \in Frames
  BY EmptySeq, LenProperties, ElementOfSeq
<1>2. \A i \in 1 .. Len(frames) - 1 : frames[i] \in Frames
  BY <1>1
<1>3. /\ SubSeq(frames, 1, Len(frames) - 1) \in Seq(Frames)
      /\ Len(SubSeq(frames, 1, Len(frames) - 1)) =
           IF 1 <= Len(frames) - 1 THEN (Len(frames) - 1) - 1 + 1 ELSE 0
      /\ \A i \in 1 .. (Len(frames) - 1) - 1 + 1 :
           SubSeq(frames, 1, Len(frames) - 1)[i] = frames[1 + i - 1]
  BY <1>1, <1>2, SubSeqProperties
<1> DEFINE l == Len(frames)
           t == SubSeq(frames, 1, l - 1)
<1>4. Len(t) = l - 1
  <2>1. Len(t) = IF 1 <= l - 1 THEN (l - 1) - 1 + 1 ELSE 0
    BY <1>3
  <2>2. l \in Nat \ {0}
    BY <1>1
  <2> HIDE DEF l, t
  <2> QED BY <2>1, <2>2
<1>5. \A i \in 1 .. Len(frames) - 1 :
        i \in 1 .. (Len(frames) - 1) - 1 + 1 /\ 1 + i - 1 = i
  BY <1>1
<1> QED BY <1>1, <1>3, <1>4, <1>5
-----------------------------------------------------------------------------
(* Types.                                                                  *)

\* The registers that one instruction leaves are registers.
LEMMA FirstContextType == \A p \in Procs : FirstContext(p) \in Contexts
  BY UserEipsAssumption, TickWrapAssumption DEF FirstContext, Contexts, TtyEips

\* Changes of a single register keep a context a context.
LEMMA ContextExcept ==
  ASSUME NEW c \in Contexts
  PROVE  /\ \A b \in BOOLEAN : [c EXCEPT !.iflag = b] \in Contexts
         /\ \A r \in 0 .. TickWrap - 1 : [c EXCEPT !.eax = r] \in Contexts
  BY DEF Contexts

\* Every variable of the kernel keeps its type; in particular p_proc_ready
\* and tss.esp0 always point into proc_table.
THEOREM KernelTypeOK == Spec => []TypeOK
<1>1. Init => TypeOK
  <2> SUFFICES ASSUME Init PROVE TypeOK
    OBVIOUS
  <2>1. cpu \in Contexts /\ regs \in [Procs -> Contexts]
    BY FirstContextType, NAssumption DEF Init, Procs, TTY
  <2>2. frames \in Seq(Frames)
    BY EmptySeq DEF Init
  <2> QED
    BY <2>1, <2>2, NAssumption, PriorityAssumption, TickWrapAssumption
    DEF Init, TypeOK, Procs, SysCalls
<1>2. TypeOK /\ [Next]_vars => TypeOK'
  <2> SUFFICES ASSUME TypeOK, [Next]_vars PROVE TypeOK'
    OBVIOUS
  <2> USE DEF TypeOK, kstack, procs, sched, pic
  <2>1. ASSUME NEW irq \in Irqs, Raise(irq) PROVE TypeOK'
    BY <2>1 DEF Raise
  <2>2. ASSUME NEW vector \in Irqs \cup {SYS_VECTOR}, Save(vector)
        PROVE  frames' \in Seq(Frames) /\ k_reenter' \in Int
               /\ cpu' \in Contexts /\ regs' \in [Procs -> Contexts]
    <3>1. NewFrame(vector, k_reenter') \in Frames
      BY DEF NewFrame, Frames, Closed
    <3>2. frames' \in Seq(Frames)
      BY <2>2, <3>1, AppendProperties DEF Save
    <3>3. [cpu EXCEPT !.iflag = FALSE] \in Contexts
      BY ContextExcept
    <3>4. k_reenter' \in Int
      BY <2>2 DEF Save
    <3>5. cpu' \in Contexts
      BY <2>2, <3>3 DEF Save
    <3>6. regs' \in [Procs -> Contexts]
      BY <2>2 DEF Save
    <3> QED BY <3>2, <3>4, <3>5, <3>6
  <2>3. ASSUME NEW irq \in Irqs, Interrupt(irq) PROVE TypeOK'
    BY <2>2, <2>3 DEF Interrupt
  <2>4. CASE HwintEnter
    <3>1. irq_table[Top.vector] \in Open
      BY <2>4 DEF HwintEnter, Open
    <3>2. frames' \in Seq(Frames)
      BY <2>4, <3>1, GotoProperties DEF HwintEnter, TopIs
    <3> QED BY <2>4, <3>2, ContextExcept DEF HwintEnter
  <2>5. CASE HwintLeave
    <3>1. frames' \in Seq(Frames)
      BY <2>5, GotoProperties DEF HwintLeave, TopIs, Closed
    <3> QED BY <2>5, <3>1, ContextExcept DEF HwintLeave
  <2>6. CASE OtherHandler
    <3>1. frames' \in Seq(Frames)
      BY <2>6, GotoProperties DEF OtherHandler, TopIs, Open
    <3> QED BY <2>6, <3>1 DEF OtherHandler
  <2>7. CASE ClockCharge
    <3>1. frames' \in Seq(Frames)
      BY <2>7, GotoProperties DEF ClockCharge, TopIs, Open
    <3> QED
      BY <2>7, <3>1, TickWrapAssumption, FloorAssumption DEF ClockCharge, SpendTick
  <2>8. CASE ClockReturn
    <3>1. frames' \in Seq(Frames)
      BY <2>8, GotoProperties DEF ClockReturn, TopIs, Open
    <3> QED BY <2>8, <3>1 DEF ClockReturn
  <2>9. CASE ClockSchedule
    <3>1. frames' \in Seq(Frames)
      BY <2>9, GotoProperties DEF ClockSchedule, TopIs, Open
    <3>2. PICK quota \in Quotas : proc_ticks' = Filled(proc_ticks, quota)
      BY <2>9 DEF ClockSchedule, Quotas
    <3>3. proc_ticks' \in [Procs -> Int] /\ Best(proc_ticks') \in Procs
      BY <3>2, FilledProperties, BestExists
    <3> QED BY <2>9, <3>1, <3>3 DEF ClockSchedule
  <2>10. CASE SysEnter
    <3>1. frames' \in Seq(Frames)
      BY <2>10, GotoProperties DEF SysEnter, TopIs, Open
    <3> QED BY <2>10, <3>1, ContextExcept DEF SysEnter
  <2>11. CASE SysRun
    <3>1. frames' \in Seq(Frames)
      BY <2>11, GotoProperties DEF SysRun, TopIs, Open
    <3>2. (IF sys.nr = "get_ticks" THEN ticks ELSE 0) \in 0 .. TickWrap - 1
      BY TickWrapAssumption
    <3> QED BY <2>11, <3>1, <3>2 DEF SysRun
  <2>12. CASE SysStore
    <3>1. frames' \in Seq(Frames)
      BY <2>12, GotoProperties DEF SysStore, TopIs, Closed
    <3> QED BY <2>12, <3>1, ContextExcept DEF SysStore
  <2>13. CASE Restart
    BY <2>13, EmptySeq DEF Restart
  <2>14. CASE RestartReenter
    <3>1. frames' \in Seq(Frames)
      BY <2>14, PopProperties DEF RestartReenter, TopIs
    <3>2. [cpu EXCEPT !.iflag = TRUE] \in Contexts
      BY ContextExcept
    <3> QED BY <2>14, <3>1, <3>2 DEF RestartReenter
  <2>15. CASE SysCall
    BY <2>2, <2>15 DEF SysCall
  <2>16. CASE UserStep
    BY <2>16 DEF UserStep
  <2>17. CASE TtyStep
    BY <2>17, IrqsAssumption DEF TtyStep, PutIrqHandler, EnableIrq
  <2>18. CASE SwitchScheduler
    BY <2>18 DEF SwitchScheduler
  <2>19. CASE UNCHANGED vars
    BY <2>19 DEF vars
  <2> QED
    BY <2>1, <2>3, <2>4, <2>5, <2>6, <2>7, <2>8, <2>9, <2>10, <2>11, <2>12,
       <2>13, <2>14, <2>15, <2>16, <2>17, <2>18, <2>19
    DEF Next, KernelStep, ProcessStep
<1> QED BY <1>1, <1>2, PTL DEF Spec
-----------------------------------------------------------------------------
(* The inductive invariant.                                                *)

\* While the kernel's steps leave the registers of TTY and the table alone,
\* the same lines stay enabled.
LEMMA EnabledInKernel ==
  ASSUME TypeOK, TableMatchesTty, ~InProcess, ~InProcess',
         regs'[TTY].eip = regs[TTY].eip, UNCHANGED irq_table
  PROVE  /\ Context(TTY)'.eip = Context(TTY).eip
         /\ Enabled' = Enabled
         /\ TableMatchesTty'
<1>1. Context(TTY) = regs[TTY] /\ Context(TTY)' = regs'[TTY]
  BY DEF Context, Running
<1>2. Context(TTY)'.eip = Context(TTY).eip
  BY <1>1
<1> QED BY <1>2 DEF Enabled, TableMatchesTty

\* What Goto cannot disturb.
LEMMA GotoKeepsNesting ==
  ASSUME TypeOK, NestingCounted, NoSelfNesting, frames # <<>>,
         NEW pc \in Open \cup Closed, Goto(pc), UNCHANGED k_reenter
  PROVE  NestingCounted' /\ NoSelfNesting'
<1>1. /\ Len(frames') = Len(frames)
      /\ Len(frames) \in Nat \ {0}
      /\ \A i \in 1 .. Len(frames) :
           /\ frames'[i].vector = frames[i].vector
           /\ frames'[i].retaddr = frames[i].retaddr
  BY GotoProperties DEF TypeOK
<1>2. NestingCounted'
  BY <1>1 DEF NestingCounted
<1>3. NoSelfNesting'
  BY <1>1 DEF NoSelfNesting
<1> QED BY <1>2, <1>3

\* A step from code with IF set to code with IF set, of the innermost frame.
LEMMA StepInOpenCode ==
  ASSUME TypeOK, KernelInv, frames # <<>>, Top.pc \in Open,
         NEW pc \in Open, pc \notin {"spurious_irq", "keyboard_handler"}, Goto(pc),
         pc \in {"sys_xxx", "sys_done"} <=> Top.pc \in {"sys_xxx", "sys_done"},
         pc \in {"clock_handler", "k_reenter_test"} =>
           Top.pc \in {"clock_handler", "k_reenter_test"},
         UNCHANGED <<cpu, k_reenter, regs, tss_esp0, irq_table, mask>>,
         ReadyIsPinned'
  PROVE  KernelInv'
<1>1. NestingCounted' /\ NoSelfNesting'
  BY GotoKeepsNesting DEF KernelInv
<1>2. /\ ~InProcess
      /\ ~InProcess'
      /\ Top = frames[Len(frames)]
      /\ Top' = frames'[Len(frames')]
  BY GotoProperties DEF InProcess, TypeOK, Top
<1>3. Context(TTY)'.eip = Context(TTY).eip /\ Enabled' = Enabled /\ TableMatchesTty'
  BY <1>2, EnabledInKernel DEF KernelInv
<1>4. /\ Len(frames') = Len(frames)
      /\ Len(frames) \in Nat \ {0}
      /\ \A i \in 1 .. Len(frames) :
           /\ frames'[i].vector = frames[i].vector
           /\ frames'[i].pc = IF i = Len(frames) THEN pc ELSE frames[i].pc
           /\ frames'[i].pc \in Open <=> frames[i].pc \in Open
  BY <1>2, GotoProperties DEF TypeOK
<1>5. IfMatchesCode' /\ CriticalSectionHolds'
  <2>1. IfMatchesCode'
    BY <1>2, <1>4 DEF KernelInv, IfMatchesCode
  <2>2. Context(TTY).eip # "disable_int"
    BY <1>2 DEF KernelInv, CriticalSectionHolds, Running
  <2> QED BY <1>3, <2>1, <2>2 DEF KernelInv, CriticalSectionHolds
<1>6. FramesRunTheirCode'
  <2> SUFFICES ASSUME NEW i \in 1 .. Len(frames)
      PROVE  IF frames'[i].vector = SYS_VECTOR
               THEN frames'[i].pc \in {"saved", "sys_xxx", "sys_done", "ret"}
               ELSE /\ frames'[i].vector \in Enabled
                    /\ frames'[i].pc \notin {"sys_xxx", "sys_done"}
                    /\ frames'[i].pc \in {"clock_handler", "k_reenter_test"} =>
                         frames'[i].vector = CLOCK
                    /\ frames'[i].pc = "keyboard_handler" => frames'[i].vector # CLOCK
    BY <1>3, <1>4 DEF FramesRunTheirCode
  <2>1. /\ frames'[i].vector = frames[i].vector
        /\ frames'[i].pc = IF i = Len(frames) THEN pc ELSE frames[i].pc
    BY <1>4
  <2>2. IF frames[i].vector = SYS_VECTOR
          THEN frames[i].pc \in {"saved", "sys_xxx", "sys_done", "ret"}
          ELSE /\ frames[i].vector \in Enabled
               /\ frames[i].pc \notin {"sys_xxx", "sys_done"}
               /\ frames[i].pc \in {"clock_handler", "k_reenter_test"} =>
                    frames[i].vector = CLOCK
               /\ frames[i].pc = "keyboard_handler" => frames[i].vector # CLOCK
    BY DEF KernelInv, FramesRunTheirCode
  <2>3. CASE i = Len(frames)
    <3>1. frames[i] = Top /\ frames'[i].pc = pc
      BY <1>2, <2>1, <2>3
    <3> QED BY <2>1, <2>2, <3>1 DEF Open
  <2>4. CASE i # Len(frames)
    BY <2>1, <2>2, <2>4
  <2> QED BY <2>3, <2>4
<1>7. MaskMatchesHandlers'
  BY <1>3, <1>4 DEF KernelInv, MaskMatchesHandlers
<1>8. NoSpuriousHandler'
  BY <1>4 DEF KernelInv, NoSpuriousHandler
<1> QED BY <1>1, <1>3, <1>5, <1>6, <1>7, <1>8 DEF KernelInv
\* KernelInv reads no more variables than these.
LEMMA KernelInvReads ==
  ASSUME KernelInv,
         UNCHANGED <<cpu, frames, k_reenter, tss_esp0, p_proc_ready, regs,
                     irq_table, sys, mask>>
  PROVE  KernelInv'
  BY DEF KernelInv, NestingCounted, IfMatchesCode, CriticalSectionHolds,
         FramesRunTheirCode,
         TableMatchesTty, NoSelfNesting, MaskMatchesHandlers, NoSpuriousHandler,
         ReadyIsPinned, Enabled, Context, Running, InProcess, Top

\* An entry: IF was set, so every frame below is in open code, and if it is
\* an interrupt its line was let through, so it has no frame yet.
LEMMA EntryKeepsInv ==
  ASSUME TypeOK, KernelInv, cpu.iflag,
         NEW vector \in Irqs \cup {SYS_VECTOR}, Save(vector),
         vector = SYS_VECTOR => InProcess /\ tss_esp0 # TTY,
         vector # SYS_VECTOR => vector \notin mask,
         UNCHANGED <<tss_esp0, p_proc_ready, irq_table, mask>>,
         sys'.caller = sys.caller
  PROVE  KernelInv'
<1> DEFINE n == Len(frames)
<1>1. /\ n \in Nat
      /\ Len(frames') = n + 1
      /\ \A i \in 1 .. n : frames'[i] = frames[i]
      /\ frames'[n + 1].vector = vector
      /\ frames'[n + 1].pc = "saved"
      /\ frames'[n + 1].retaddr = IF n = 0 THEN "restart" ELSE "restart_reenter"
      /\ frames' \in Seq(Frames)
  <2>1. k_reenter = n - 1 /\ frames \in Seq(Frames)
    BY DEF TypeOK, KernelInv, NestingCounted
  <2>2. /\ frames' \in Seq(Frames)
        /\ n \in Nat
        /\ Len(frames') = n + 1
        /\ \A i \in 1 .. n : frames'[i] = frames[i]
        /\ frames'[Len(frames')].vector = vector
        /\ frames'[Len(frames')].pc = "saved"
        /\ frames'[Len(frames')].retaddr =
             IF Len(frames') = 1 THEN "restart" ELSE "restart_reenter"
    BY <2>1, SaveProperties
  <2> HIDE DEF n
  <2>3. n + 1 = 1 <=> n = 0
    BY <2>2
  <2> QED BY <2>2, <2>3
<1>2. /\ (InProcess <=> n = 0)
      /\ ~InProcess'
      /\ \A i \in 1 .. n : frames[i].pc \in Open
  BY <1>1, EmptySeq DEF TypeOK, InProcess, KernelInv, IfMatchesCode, Top
<1>3. "saved" \notin Open /\ SYS_VECTOR \notin Irqs /\ CLOCK \in Irqs
  BY IrqsAssumption DEF Open, SYS_VECTOR
<1>4. /\ Context(TTY)' = Context(TTY)
      /\ Enabled' = Enabled
      /\ TableMatchesTty'
  <2>1. Context(TTY)' = Context(TTY)
    <3>1. Context(TTY)' = regs'[TTY]
      BY <1>2 DEF Context, Running
    <3>2. regs \in [Procs -> Contexts] /\ TTY \in Procs
      BY NAssumption DEF TypeOK, Procs, TTY
    <3>3. CASE InProcess
      <4>1. regs' = [regs EXCEPT ![tss_esp0] = cpu]
        BY <3>3 DEF Save
      <4> QED BY <3>1, <3>2, <3>3, <4>1 DEF Context, Running
    <3>4. CASE ~InProcess
      <4>1. regs' = regs
        BY <3>4 DEF Save
      <4> QED BY <3>1, <3>4, <4>1 DEF Context, Running
    <3> QED BY <3>3, <3>4
  <2> QED BY <2>1 DEF Enabled, TableMatchesTty, KernelInv
<1>5. cpu'.iflag = FALSE
  BY DEF Save, TypeOK, Contexts
<1>6. NestingCounted'
  BY <1>1 DEF Save, KernelInv, NestingCounted
<1>7. NoSelfNesting'
  <2>1. \A i \in 1 .. n : frames[i].vector # vector
    <3>1. CASE vector = SYS_VECTOR
      BY <1>1, <1>2, <3>1
    <3>2. CASE vector # SYS_VECTOR
      BY <1>2, <3>2 DEF KernelInv, MaskMatchesHandlers
    <3> QED BY <3>1, <3>2
  <2>2. n # 0 => vector # SYS_VECTOR
    BY <1>2
  <2> QED BY <1>1, <2>1, <2>2 DEF KernelInv, NoSelfNesting
<1>8. IfMatchesCode' /\ CriticalSectionHolds'
  <2>1. Top'.pc = "saved"
    BY <1>1 DEF Top
  <2>2. IfMatchesCode'
    BY <1>1, <1>2, <1>3, <1>5, <2>1 DEF IfMatchesCode
  <2>3. \A p \in Procs : regs'[p].iflag
    BY DEF Save, TypeOK, KernelInv, CriticalSectionHolds
  <2>4. Context(TTY).eip # "disable_int"
    BY DEF KernelInv, IfMatchesCode, CriticalSectionHolds, Context, Running
  <2> QED BY <1>4, <2>2, <2>3, <2>4 DEF CriticalSectionHolds
<1>9. FramesRunTheirCode'
  <2>1. vector # SYS_VECTOR => vector \in Enabled
    BY DEF KernelInv, MaskMatchesHandlers
  <2>2. \A i \in 1 .. n + 1 : i \in 1 .. n \/ i = n + 1
    BY <1>1
  <2> QED BY <1>1, <1>4, <2>1, <2>2 DEF KernelInv, FramesRunTheirCode
<1>10. MaskMatchesHandlers'
  BY <1>1, <1>3, <1>4 DEF KernelInv, MaskMatchesHandlers
<1>11. NoSpuriousHandler'
  BY <1>1 DEF KernelInv, NoSpuriousHandler
<1>12. ReadyIsPinned'
  BY <1>1, <1>2 DEF KernelInv, ReadyIsPinned
<1> QED
  BY <1>4, <1>6, <1>7, <1>8, <1>9, <1>10, <1>11, <1>12 DEF KernelInv
\* A step of the innermost frame that leaves IF as the code it reaches has it
\* and the mask as that frame needs it.
LEMMA GotoKeepsInv ==
  ASSUME TypeOK, KernelInv, frames # <<>>,
         NEW pc \in Open \cup Closed, pc # "spurious_irq", Goto(pc),
         UNCHANGED <<k_reenter, tss_esp0, irq_table>>,
         regs'[TTY].eip = regs[TTY].eip, \A p \in Procs : regs'[p].iflag,
         cpu'.iflag <=> pc \in Open,
         Top.vector = SYS_VECTOR => pc \in {"sys_xxx", "sys_done", "ret"},
         Top.vector # SYS_VECTOR => pc \notin {"sys_xxx", "sys_done"},
         pc \in {"clock_handler", "k_reenter_test"} => Top.vector = CLOCK,
         pc = "keyboard_handler" => Top.vector # CLOCK,
         mask' = IF pc \in Open THEN mask \cup ({Top.vector} \cap Irqs)
                                ELSE mask \ {Top.vector},
         ReadyIsPinned'
  PROVE  KernelInv'
<1> DEFINE n == Len(frames)
<1>1. NestingCounted' /\ NoSelfNesting'
  BY GotoKeepsNesting DEF KernelInv
<1>2. ~InProcess /\ ~InProcess' /\ Top = frames[n] /\ Top' = frames'[n]
  BY GotoProperties DEF InProcess, TypeOK, Top
<1>3. Context(TTY)'.eip = Context(TTY).eip /\ Enabled' = Enabled /\ TableMatchesTty'
  BY <1>2, EnabledInKernel DEF KernelInv
<1>4. /\ Len(frames') = n
      /\ n \in Nat \ {0}
      /\ \A i \in 1 .. n :
           /\ frames'[i].vector = frames[i].vector
           /\ frames'[i].pc = IF i = n THEN pc ELSE frames[i].pc
  BY GotoProperties DEF TypeOK
<1>5. IfMatchesCode' /\ CriticalSectionHolds'
  <2>1. IfMatchesCode'
    BY <1>2, <1>4 DEF KernelInv, IfMatchesCode
  <2>2. Context(TTY).eip # "disable_int"
    BY <1>2 DEF KernelInv, CriticalSectionHolds, Running
  <2> QED BY <1>3, <2>1, <2>2 DEF KernelInv, CriticalSectionHolds
<1>6. FramesRunTheirCode'
  BY <1>2, <1>3, <1>4 DEF KernelInv, FramesRunTheirCode
<1>7. MaskMatchesHandlers'
  <2>1. \A i \in 1 .. n : i # n => frames[i].vector # Top.vector
    BY <1>2, <1>4 DEF KernelInv, NoSelfNesting
  <2>2. Top.vector \in Irqs => Top.vector \in Enabled
    BY <1>2, <1>4, IrqsAssumption DEF KernelInv, FramesRunTheirCode, SYS_VECTOR
  <2>3. CASE pc \in Open
    BY <1>2, <1>3, <1>4, <2>1, <2>2, <2>3 DEF KernelInv, MaskMatchesHandlers
  <2>4. CASE pc \notin Open
    BY <1>2, <1>3, <1>4, <2>1, <2>2, <2>4 DEF KernelInv, MaskMatchesHandlers
  <2> QED BY <2>3, <2>4
<1>8. NoSpuriousHandler'
  BY <1>4 DEF KernelInv, NoSpuriousHandler
<1> QED BY <1>1, <1>3, <1>5, <1>6, <1>7, <1>8 DEF KernelInv

\* Who is ready and who called stay as they are unless the clock handler is
\* the outermost frame.
LEMMA GotoKeepsReady ==
  ASSUME TypeOK, ReadyIsPinned, FramesRunTheirCode, frames # <<>>,
         NEW pc \in Open \cup Closed, Goto(pc),
         UNCHANGED <<tss_esp0, p_proc_ready>>, sys'.caller = sys.caller,
         pc \in {"sys_xxx", "sys_done"} => Top.pc \in {"sys_xxx", "sys_done"},
         Top.pc = "handled" => pc = "ret",
         Top.pc # "ret"
  PROVE  ReadyIsPinned'
<1>1. /\ Len(frames) \in Nat \ {0}
      /\ frames' # <<>>
      /\ \A i \in 1 .. Len(frames) :
           /\ frames'[i].vector = frames[i].vector
           /\ frames'[i].pc = IF i = Len(frames) THEN pc ELSE frames[i].pc
  BY GotoProperties DEF TypeOK
<1>2. Top = frames[Len(frames)]
  BY DEF Top
<1> QED BY <1>1, <1>2 DEF ReadyIsPinned, InProcess
\* The two ways out of the kernel.
LEMMA RestartKeepsInv ==
  ASSUME TypeOK, KernelInv, Restart
  PROVE  KernelInv'
<1> USE DEF Restart, TopIs
<1>1. /\ Len(frames) = 1
      /\ frames' = <<>>
      /\ Len(frames') = 0
      /\ Top = frames[1]
  <2>1. Len(frames) \in Nat \ {0} /\ Top = frames[Len(frames)]
    BY TopProperties DEF TypeOK
  <2>2. Len(frames) \in 1 .. Len(frames)
    BY <2>1
  <2>3. Top.retaddr = IF Len(frames) = 1 THEN "restart" ELSE "restart_reenter"
    BY <2>1, <2>2 DEF KernelInv, NestingCounted
  <2>4. Len(frames) = 1
    BY <2>3
  <2>5. frames' = <<>> /\ Len(frames') = 0
    BY EmptySeq
  <2> QED BY <2>1, <2>4, <2>5
<1>2. ~InProcess /\ InProcess'
  BY DEF InProcess
<1>3. /\ Context(TTY)' = Context(TTY)
      /\ Enabled' = Enabled
      /\ TableMatchesTty'
  <2>1. Context(TTY)' = Context(TTY)
    BY <1>2 DEF Context, Running, procs
  <2> QED BY <2>1 DEF Enabled, TableMatchesTty, KernelInv
<1>4. NestingCounted' /\ NoSelfNesting' /\ NoSpuriousHandler'
  BY <1>1 DEF KernelInv, NestingCounted, NoSelfNesting, NoSpuriousHandler
<1>5. IfMatchesCode' /\ CriticalSectionHolds'
  <2>1. cpu'.iflag
    BY DEF TypeOK, KernelInv, CriticalSectionHolds
  <2>2. Context(TTY).eip # "disable_int"
    BY <1>2 DEF KernelInv, CriticalSectionHolds, Running
  <2>3. ~(tss_esp0' = TTY /\ cpu'.eip = "disable_int")
    BY <1>2, <2>2 DEF Context, Running
  <2>4. IfMatchesCode'
    BY <1>1, <1>2, <2>1, <2>3 DEF IfMatchesCode
  <2> QED BY <1>3, <2>2, <2>4 DEF KernelInv, CriticalSectionHolds, procs
<1>6. FramesRunTheirCode'
  BY <1>1 DEF FramesRunTheirCode
<1>7. MaskMatchesHandlers'
  BY <1>1, <1>3 DEF KernelInv, MaskMatchesHandlers, pic, Open
<1>8. ReadyIsPinned'
  BY <1>2 DEF ReadyIsPinned
<1> QED BY <1>3, <1>4, <1>5, <1>6, <1>7, <1>8 DEF KernelInv

LEMMA RestartReenterKeepsInv ==
  ASSUME TypeOK, KernelInv, RestartReenter
  PROVE  KernelInv'
<1> DEFINE n == Len(frames)
<1> USE DEF RestartReenter, TopIs, procs
<1>1. /\ n \in Nat \ {0}
      /\ Len(frames') = n - 1
      /\ \A i \in 1 .. n - 1 : frames'[i] = frames[i]
      /\ frames' \in Seq(Frames)
      /\ Top = frames[n]
  BY PopProperties DEF TypeOK, Top
<1>2. n # 1
  BY <1>1 DEF KernelInv, NestingCounted
<1>3. ~InProcess /\ ~InProcess' /\ Top' = frames[n - 1]
  <2>1. frames' # <<>>
    <3>1. Len(frames') # 0
      BY <1>1, <1>2
    <3> QED BY <3>1, EmptySeq
  <2>2. Top' = frames'[Len(frames')]
    BY DEF Top
  <2> QED BY <1>1, <1>2, <2>1, <2>2 DEF InProcess
<1>4. Context(TTY)'.eip = Context(TTY).eip /\ Enabled' = Enabled /\ TableMatchesTty'
  BY <1>3, EnabledInKernel DEF KernelInv
<1>5. NestingCounted' /\ NoSelfNesting' /\ NoSpuriousHandler'
  <2>0. \A i \in 1 .. n - 1 : i \in 1 .. n
    BY <1>1
  <2>1. NestingCounted'
    <3>1. k_reenter' = (n - 1) - 1
      BY <1>1 DEF KernelInv, NestingCounted
    <3> QED BY <1>1, <2>0, <3>1 DEF KernelInv, NestingCounted
  <2>2. NoSelfNesting'
    <3>1. \A i, j \in 1 .. n - 1 : i # j => frames'[i].vector # frames'[j].vector
      BY <1>1, <2>0 DEF KernelInv, NoSelfNesting
    <3>2. \A i \in 2 .. n - 1 : frames'[i].vector # SYS_VECTOR
      <4>1. \A i \in 2 .. n - 1 : i \in 2 .. n /\ i \in 1 .. n - 1
        BY <1>1
      <4> QED BY <1>1, <4>1 DEF KernelInv, NoSelfNesting
    <3> QED BY <1>1, <3>1, <3>2 DEF NoSelfNesting
  <2>3. NoSpuriousHandler'
    BY <1>1 DEF KernelInv, NoSpuriousHandler
  <2> QED BY <2>1, <2>2, <2>3
<1>6. IfMatchesCode' /\ CriticalSectionHolds'
  <2>1. cpu'.iflag /\ frames[n - 1].pc \in Open
    BY <1>1, <1>2, SMTT(30) DEF KernelInv, IfMatchesCode, TypeOK, Contexts
  <2>2. IfMatchesCode'
    BY <1>1, <1>3, <2>1 DEF KernelInv, IfMatchesCode
  <2>3. Context(TTY).eip # "disable_int"
    BY <1>3 DEF KernelInv, CriticalSectionHolds, Running
  <2> QED BY <1>4, <2>2, <2>3 DEF KernelInv, CriticalSectionHolds
<1>7. FramesRunTheirCode'
  BY <1>1, <1>4 DEF KernelInv, FramesRunTheirCode
<1>8. MaskMatchesHandlers'
  BY <1>1, <1>4 DEF KernelInv, MaskMatchesHandlers, pic, Open
<1>9. ReadyIsPinned'
  BY <1>1, <1>2, <1>3 DEF KernelInv, ReadyIsPinned
<1> QED BY <1>4, <1>5, <1>6, <1>7, <1>8, <1>9 DEF KernelInv
-----------------------------------------------------------------------------
(* Steps of a process.                                                     *)

\* In a process there are no frames, so all that counts is where task_tty is.
LEMMA ProcessKeepsInv ==
  ASSUME TypeOK, KernelInv, InProcess,
         UNCHANGED <<frames, k_reenter, tss_esp0, p_proc_ready, regs>>,
         cpu'.iflag <=> ~(tss_esp0 = TTY /\ cpu'.eip = "disable_int"),
         Context(TTY)'.eip = "disable_int" => Running(TTY),
         TableMatchesTty',
         mask' = Irqs \ Enabled'
  PROVE  KernelInv'
<1>1. InProcess' /\ Len(frames') = 0 /\ Len(frames) = 0
  BY EmptySeq DEF InProcess
<1>2. NestingCounted' /\ NoSelfNesting' /\ NoSpuriousHandler'
  BY <1>1 DEF KernelInv, NestingCounted, NoSelfNesting, NoSpuriousHandler
<1>3. IfMatchesCode' /\ CriticalSectionHolds'
  <2>1. IfMatchesCode'
    BY <1>1 DEF IfMatchesCode
  <2>2. Running(TTY)' <=> Running(TTY)
    BY <1>1 DEF Running
  <2> QED BY <2>1, <2>2 DEF KernelInv, CriticalSectionHolds
<1>4. FramesRunTheirCode'
  BY <1>1 DEF FramesRunTheirCode
<1>5. MaskMatchesHandlers'
  BY <1>1 DEF MaskMatchesHandlers
<1>6. ReadyIsPinned'
  BY <1>1 DEF KernelInv, ReadyIsPinned, InProcess
<1> QED BY <1>2, <1>3, <1>4, <1>5, <1>6 DEF KernelInv

\* A ring 3 instruction cannot touch IF.
LEMMA UserStepKeepsInv ==
  ASSUME TypeOK, KernelInv, UserStep
  PROVE  KernelInv'
<1> USE DEF UserStep, kstack, procs, pic
<1>1. PICK e \in UserEips : cpu' = [cpu EXCEPT !.eip = e]
  BY DEF UserInstruction
<1>2. cpu'.iflag = cpu.iflag
  BY <1>1 DEF TypeOK, Contexts
<1>3. /\ Context(TTY)' = Context(TTY)
      /\ Enabled' = Enabled
      /\ TableMatchesTty'
  <2>1. Context(TTY)' = Context(TTY)
    BY DEF Context, Running, InProcess
  <2> QED BY <2>1 DEF Enabled, TableMatchesTty, KernelInv
<1>4. Context(TTY).eip # "disable_int"
  BY DEF KernelInv, CriticalSectionHolds, Running
<1>5. cpu'.iflag <=> ~(tss_esp0 = TTY /\ cpu'.eip = "disable_int")
  BY <1>2 DEF KernelInv, IfMatchesCode
<1>6. mask' = Irqs \ Enabled'
  <2>1. Len(frames) = 0
    BY EmptySeq DEF InProcess
  <2> QED BY <1>3, <2>1 DEF KernelInv, MaskMatchesHandlers
<1> QED BY <1>3, <1>4, <1>5, <1>6, ProcessKeepsInv

\* An instruction of task_tty: the table is filled in before the line is
\* enabled, and IF comes back with the end of the critical section.
LEMMA TtyStepKeepsInv ==
  ASSUME TypeOK, KernelInv, TtyStep
  PROVE  KernelInv'
<1> USE DEF TtyStep, kstack, procs
<1>1. /\ InProcess /\ InProcess' /\ Running(TTY) /\ Running(TTY)'
      /\ Context(TTY) = cpu /\ Context(TTY)' = cpu'
      /\ tss_esp0 = TTY
  BY DEF Running, InProcess, Context
<1>2. TtyInstruction(cpu, cpu')
  OBVIOUS
<1>3. /\ mask = Irqs \ Enabled
      /\ TableMatchesTty
      /\ cpu.iflag <=> cpu.eip # "disable_int"
  <2>1. Len(frames) = 0
    BY <1>1, EmptySeq DEF InProcess
  <2> QED BY <1>1, <2>1 DEF KernelInv, MaskMatchesHandlers, IfMatchesCode
<1>4. cpu \in Contexts
  BY DEF TypeOK
<1>5. CASE cpu.eip = "put_irq_handler"
  <2>1. cpu'.eip = "enable_irq" /\ cpu'.iflag = cpu.iflag
    BY <1>2, <1>4, <1>5 DEF TtyInstruction, Contexts
  <2>2. /\ mask' = mask \cup {KEYBOARD}
        /\ irq_table' = [irq_table EXCEPT ![KEYBOARD] = "keyboard_handler"]
    BY <1>5 DEF PutIrqHandler
  <2>3. Enabled = {CLOCK} /\ Enabled' = {CLOCK}
    BY <1>1, <1>5, <2>1 DEF Enabled
  <2>4. mask' = Irqs \ Enabled'
    BY <1>3, <2>2, <2>3, IrqsAssumption DEF CLOCK, KEYBOARD
  <2>5. TableMatchesTty'
    BY <1>1, <1>3, <1>5, <2>1, <2>2, IrqsAssumption
    DEF TableMatchesTty, TtyEips, CLOCK, KEYBOARD
  <2> QED BY <1>1, <1>3, <1>5, <2>1, <2>4, <2>5, ProcessKeepsInv
<1>6. CASE cpu.eip = "enable_irq"
  <2>1. cpu'.eip = "loop" /\ cpu'.iflag = cpu.iflag
    BY <1>2, <1>4, <1>6 DEF TtyInstruction, Contexts
  <2>2. mask' = mask \ {KEYBOARD} /\ irq_table' = irq_table
    BY <1>6 DEF EnableIrq
  <2>3. Enabled = {CLOCK} /\ Enabled' = {CLOCK, KEYBOARD}
    BY <1>1, <1>6, <2>1 DEF Enabled
  <2>4. mask' = Irqs \ Enabled'
    BY <1>3, <2>2, <2>3
  <2>5. TableMatchesTty'
    BY <1>1, <1>3, <1>6, <2>1, <2>2 DEF TableMatchesTty, TtyEips
  <2> QED BY <1>1, <1>3, <1>6, <2>1, <2>4, <2>5, ProcessKeepsInv
<1>7. CASE cpu.eip = "loop" \/ cpu.eip = "disable_int"
  <2>1. /\ cpu'.eip \in {"loop", "disable_int"}
        /\ cpu'.iflag <=> cpu'.eip # "disable_int"
    BY <1>2, <1>4, <1>7 DEF TtyInstruction, Contexts
  <2>2. mask' = mask /\ irq_table' = irq_table
    BY <1>7
  <2>3. Enabled' = Enabled
    BY <1>1, <1>7, <2>1 DEF Enabled
  <2>4. mask' = Irqs \ Enabled'
    BY <1>3, <2>2, <2>3
  <2>5. TableMatchesTty'
    BY <1>1, <1>3, <1>7, <2>1, <2>2 DEF TableMatchesTty, TtyEips
  <2> QED BY <1>1, <2>1, <2>4, <2>5, ProcessKeepsInv
<1> QED BY <1>2, <1>5, <1>6, <1>7 DEF TtyInstruction
-----------------------------------------------------------------------------
(* Safety.                                                                 *)

\* One way the tests of the steps below become facts about the innermost
\* frame.
LEMMA TopRunsItsCode ==
  ASSUME TypeOK, KernelInv, frames # <<>>
  PROVE  /\ Top.vector = SYS_VECTOR =>
              Top.pc \in {"saved", "sys_xxx", "sys_done", "ret"}
         /\ Top.vector # SYS_VECTOR =>
              /\ Top.vector \in Enabled
              /\ Top.pc \notin {"sys_xxx", "sys_done"}
              /\ Top.pc \in {"clock_handler", "k_reenter_test"} => Top.vector = CLOCK
              /\ Top.pc = "keyboard_handler" => Top.vector # CLOCK
         /\ Top.vector \in Irqs \cup {SYS_VECTOR}
         /\ SYS_VECTOR \notin Irqs
<1>1. Len(frames) \in 1 .. Len(frames) /\ Top = frames[Len(frames)] /\ Top \in Frames
  BY TopProperties DEF TypeOK
<1>2. SYS_VECTOR \notin Irqs
  BY IrqsAssumption DEF SYS_VECTOR
<1> QED BY <1>1, <1>2 DEF KernelInv, FramesRunTheirCode, Frames

\* The first state satisfies the invariant.
LEMMA InitKernelInv == Init => KernelInv
<1> SUFFICES ASSUME Init PROVE KernelInv
  OBVIOUS
<1> USE DEF Init
<1>1. InProcess /\ Len(frames) = 0 /\ Running(TTY)
  BY EmptySeq DEF InProcess, Running, TTY
<1>2. cpu = [eip |-> "put_irq_handler", eax |-> 0, iflag |-> TRUE] /\ Context(TTY) = cpu
  BY <1>1 DEF FirstContext, Context
<1>3. Enabled = {CLOCK}
  BY <1>2 DEF Enabled
<1>4. IfMatchesCode /\ CriticalSectionHolds
  <2>1. \A p \in Procs : regs[p].iflag
    BY DEF FirstContext
  <2> QED BY <1>1, <1>2, <2>1 DEF IfMatchesCode, CriticalSectionHolds
<1>5. TableMatchesTty
  BY <1>2 DEF TableMatchesTty, TtyEips
<1>6. MaskMatchesHandlers
  BY <1>1, <1>3 DEF MaskMatchesHandlers
<1>7. NestingCounted /\ NoSelfNesting /\ NoSpuriousHandler /\ FramesRunTheirCode
  BY <1>1 DEF NestingCounted, NoSelfNesting, NoSpuriousHandler, FramesRunTheirCode
<1>8. ReadyIsPinned
  BY <1>1 DEF ReadyIsPinned
<1> QED BY <1>4, <1>5, <1>6, <1>7, <1>8 DEF KernelInv

\* The handler of a line that has a frame is not the default one.
LEMMA HwintEnterKeepsInv ==
  ASSUME TypeOK, KernelInv, HwintEnter
  PROVE  KernelInv'
<1> USE DEF HwintEnter, TopIs, procs
<1> DEFINE pc == irq_table[Top.vector]
<1>1. Top.vector \in Enabled /\ Top.vector # SYS_VECTOR
  BY TopRunsItsCode
<1>2. /\ pc \in {"clock_handler", "keyboard_handler"}
      /\ pc = "clock_handler" => Top.vector = CLOCK
      /\ pc = "keyboard_handler" => Top.vector # CLOCK
  BY <1>1 DEF KernelInv, TableMatchesTty, Enabled, CLOCK, KEYBOARD
<1>3. pc \in Open
  BY <1>2 DEF Open
<1>4. cpu'.iflag
  BY DEF TypeOK, Contexts
<1> HIDE DEF pc
<1>5. Goto(pc)
  BY DEF pc
<1>6. ReadyIsPinned'
  BY <1>2, <1>3, <1>5, GotoKeepsReady DEF KernelInv
<1>7. mask' = IF pc \in Open THEN mask \cup ({Top.vector} \cap Irqs)
                             ELSE mask \ {Top.vector}
  BY <1>3
<1>8. regs' = regs /\ tss_esp0' = tss_esp0 /\ k_reenter' = k_reenter /\ irq_table' = irq_table
  OBVIOUS
<1>9. \A p \in Procs : regs'[p].iflag
  BY <1>8 DEF KernelInv, CriticalSectionHolds
<1> QED BY <1>1, <1>2, <1>3, <1>4, <1>5, <1>6, <1>7, <1>8, <1>9, GotoKeepsInv

LEMMA HwintLeaveKeepsInv ==
  ASSUME TypeOK, KernelInv, HwintLeave
  PROVE  KernelInv'
<1> USE DEF HwintLeave, TopIs, procs
<1>1. "ret" \in Closed /\ "ret" \notin Open
  BY DEF Open, Closed
<1>2. ReadyIsPinned'
  BY <1>1, GotoKeepsReady DEF KernelInv
<1>3. ~cpu'.iflag
  BY DEF TypeOK, Contexts
<1>4. \A p \in Procs : regs'[p].iflag
  BY DEF KernelInv, CriticalSectionHolds
<1>5. Top.vector # SYS_VECTOR
  BY TopRunsItsCode
<1> QED BY <1>1, <1>2, <1>3, <1>4, <1>5, GotoKeepsInv

LEMMA SysEnterKeepsInv ==
  ASSUME TypeOK, KernelInv, SysEnter
  PROVE  KernelInv'
<1> USE DEF SysEnter, TopIs, procs
<1>1. "sys_xxx" \in Open
  BY DEF Open
<1>2. SYS_VECTOR \notin Irqs
  BY TopRunsItsCode
<1>3. /\ Len(frames) = 1
      /\ Top = frames[1]
      /\ frames' # <<>>
      /\ frames'[1].pc = "sys_xxx"
  <2>1. Len(frames) \in Nat \ {0} /\ Top = frames[Len(frames)]
    BY TopProperties DEF TypeOK
  <2>2. Len(frames) = 1
    <3>1. \A l \in Nat \ {0} : l # 1 => l \in 2 .. l
      OBVIOUS
    <3> QED BY <2>1, <3>1 DEF KernelInv, NoSelfNesting
  <2> QED BY <1>1, <2>1, <2>2, GotoProperties DEF TypeOK
<1>4. ReadyIsPinned'
  <2>1. p_proc_ready = tss_esp0
    BY <1>3 DEF KernelInv, ReadyIsPinned
  <2>2. sys'.caller = p_proc_ready
    BY DEF TypeOK
  <2> QED BY <2>1, <2>2 DEF ReadyIsPinned
<1>5. cpu'.iflag
  BY DEF TypeOK, Contexts
<1>6. \A p \in Procs : regs'[p].iflag
  BY DEF KernelInv, CriticalSectionHolds
<1>7. mask' = mask \cup ({Top.vector} \cap Irqs)
  BY <1>2 DEF pic
<1> QED BY <1>1, <1>4, <1>5, <1>6, <1>7, GotoKeepsInv

LEMMA SysStoreKeepsInv ==
  ASSUME TypeOK, KernelInv, SysStore
  PROVE  KernelInv'
<1> USE DEF SysStore, TopIs
<1>1. "ret" \in Closed /\ "ret" \notin Open
  BY DEF Open, Closed
<1>2. Top.vector = SYS_VECTOR /\ SYS_VECTOR \notin Irqs
  BY TopRunsItsCode
<1>3. ReadyIsPinned'
  BY <1>1, GotoKeepsReady DEF KernelInv
<1>4. ~cpu'.iflag
  BY DEF TypeOK, Contexts
<1>5. /\ regs'[TTY].eip = regs[TTY].eip
      /\ \A p \in Procs : regs'[p].iflag
  BY NAssumption DEF TypeOK, KernelInv, CriticalSectionHolds, Contexts, Procs, TTY
<1>6. mask' = mask \ {Top.vector}
  BY <1>2 DEF pic, TypeOK
<1> QED BY <1>1, <1>2, <1>3, <1>4, <1>5, <1>6, GotoKeepsInv

\* Code that stays open: both handlers, and the function of a system call.
LEMMA OpenStepsKeepInv ==
  ASSUME TypeOK, KernelInv,
         OtherHandler \/ ClockCharge \/ ClockReturn \/ SysRun
  PROVE  KernelInv'
<1> USE DEF TopIs, procs, pic, sched
<1>1. CASE OtherHandler
  <2>1. Top.pc \in {"keyboard_handler", "spurious_irq"} /\ frames # <<>> /\ Goto("handled")
    BY <1>1 DEF OtherHandler
  <2>2. UNCHANGED <<cpu, k_reenter, regs, tss_esp0, p_proc_ready, irq_table, mask, sys>>
    BY <1>1 DEF OtherHandler
  <2>3. ReadyIsPinned'
    BY <2>1, <2>2, GotoKeepsReady DEF KernelInv, Open
  <2> QED BY <2>1, <2>2, <2>3, StepInOpenCode DEF Open
<1>2. CASE ClockCharge
  <2>1. Top.pc = "clock_handler" /\ frames # <<>> /\ Goto("k_reenter_test")
    BY <1>2 DEF ClockCharge
  <2>2. UNCHANGED <<cpu, k_reenter, regs, tss_esp0, p_proc_ready, irq_table, mask, sys>>
    BY <1>2 DEF ClockCharge
  <2>3. ReadyIsPinned'
    BY <2>1, <2>2, GotoKeepsReady DEF KernelInv, Open
  <2> QED BY <2>1, <2>2, <2>3, StepInOpenCode DEF Open
<1>3. CASE ClockReturn
  <2>1. Top.pc = "k_reenter_test" /\ frames # <<>> /\ Goto("handled")
    BY <1>3 DEF ClockReturn
  <2>2. UNCHANGED <<cpu, k_reenter, regs, tss_esp0, p_proc_ready, irq_table, mask, sys>>
    BY <1>3 DEF ClockReturn
  <2>3. ReadyIsPinned'
    BY <2>1, <2>2, GotoKeepsReady DEF KernelInv, Open
  <2> QED BY <2>1, <2>2, <2>3, StepInOpenCode DEF Open
<1>4. CASE SysRun
  <2>1. Top.pc = "sys_xxx" /\ frames # <<>> /\ Goto("sys_done")
    BY <1>4 DEF SysRun
  <2>2. UNCHANGED <<cpu, k_reenter, regs, tss_esp0, p_proc_ready, irq_table, mask>>
    BY <1>4 DEF SysRun
  <2>3. sys'.caller = sys.caller
    BY <1>4 DEF SysRun, TypeOK
  <2>4. ReadyIsPinned'
    BY <2>1, <2>2, <2>3, GotoKeepsReady DEF KernelInv, Open
  <2> QED BY <2>1, <2>2, <2>4, StepInOpenCode DEF Open
<1> QED BY <1>1, <1>2, <1>3, <1>4

\* Only the outermost clock interrupt chooses another process.
LEMMA ClockScheduleKeepsInv ==
  ASSUME TypeOK, KernelInv, ClockSchedule
  PROVE  KernelInv'
<1> USE DEF ClockSchedule, TopIs, pic
<1>1. "k_reenter_test" \in Open /\ "handled" \in Open
  BY DEF Open
<1>2. Top.vector = CLOCK
  BY TopRunsItsCode DEF SYS_VECTOR, CLOCK
<1>3. /\ Len(frames) = 1
      /\ frames' # <<>>
      /\ frames'[1].vector = CLOCK
      /\ frames'[1].pc = "handled"
  <2>1. Len(frames) \in Nat \ {0} /\ Top = frames[Len(frames)]
    BY TopProperties DEF TypeOK
  <2>2. Len(frames) = 1
    BY <2>1 DEF KernelInv, NestingCounted, MayKeepRunning
  <2> QED BY <1>1, <1>2, <2>1, <2>2, GotoProperties DEF TypeOK
<1>4. ReadyIsPinned'
  BY <1>3 DEF ReadyIsPinned, InProcess
<1> QED BY <1>1, <1>4, StepInOpenCode

\* The kernel is safe: the invariant holds in every state of every run.
THEOREM KernelSafety == Spec => []KernelInv
<1>1. Init => KernelInv
  BY InitKernelInv
<1>2. TypeOK /\ KernelInv /\ [Next]_vars => KernelInv'
  <2> SUFFICES ASSUME TypeOK, KernelInv, [Next]_vars PROVE KernelInv'
    OBVIOUS
  <2> USE DEF kstack, procs, sched, pic
  <2>1. ASSUME NEW irq \in Irqs, Raise(irq) PROVE KernelInv'
    BY <2>1, KernelInvReads DEF Raise
  <2>2. ASSUME NEW irq \in Irqs, Interrupt(irq) PROVE KernelInv'
    <3>1. irq # SYS_VECTOR
      BY IrqsAssumption DEF SYS_VECTOR
    <3> QED BY <2>2, <3>1, EntryKeepsInv DEF Interrupt, Requests
  <2>3. CASE SysCall
    <3>1. cpu.iflag
      BY <2>3 DEF SysCall, KernelInv, IfMatchesCode
    <3>2. sys'.caller = sys.caller
      BY <2>3 DEF SysCall, TypeOK
    <3> QED BY <2>3, <3>1, <3>2, EntryKeepsInv DEF SysCall
  <2>4. CASE SwitchScheduler
    BY <2>4, KernelInvReads DEF SwitchScheduler
  <2>5. CASE UNCHANGED vars
    BY <2>5, KernelInvReads DEF vars
  <2> QED
    BY <2>1, <2>2, <2>3, <2>4, <2>5, HwintEnterKeepsInv, HwintLeaveKeepsInv,
       OpenStepsKeepInv, ClockScheduleKeepsInv, SysEnterKeepsInv,
       SysStoreKeepsInv, RestartKeepsInv, RestartReenterKeepsInv,
       UserStepKeepsInv, TtyStepKeepsInv
    DEF Next, KernelStep, ProcessStep
<1> QED BY <1>1, <1>2, KernelTypeOK, PTL DEF Spec

\* The five promises behind the invariant: the nesting is counted, no handler
\* nests in itself, the mask register agrees with the open handlers, no line
\* gets through without its handler, and nothing but an outermost clock
\* interrupt changes who is ready.
COROLLARY KernelPromises ==
  Spec => [](/\ NestingCounted /\ NoSelfNesting /\ MaskMatchesHandlers
             /\ NoSpuriousHandler /\ ReadyIsPinned)
<1>1. KernelInv => /\ NestingCounted /\ NoSelfNesting /\ MaskMatchesHandlers
                   /\ NoSpuriousHandler /\ ReadyIsPinned
  BY DEF KernelInv
<1> QED BY <1>1, KernelSafety, PTL

\* No handler is entered again before it has returned, although handlers run
\* with interrupts on.
COROLLARY KernelNoSelfNesting == Spec => []NoSelfNesting
BY KernelPromises, PTL

-----------------------------------------------------------------------------
(* The clock.                                                              *)

\* Nothing runs under a clock interrupt but another line, so what its handler
\* read of the tick counts stays true until it returns.
LEMMA ResumedHasTicksStep ==
  ASSUME TypeOK, KernelInv, KernelInv', ResumedHasTicks, [Next]_vars
  PROVE  ResumedHasTicks'
<1> USE DEF kstack, procs, sched, pic, TopIs
<1> SUFFICES ASSUME frames' # <<>>, frames'[1].vector = CLOCK,
                    frames'[1].pc \in {"handled", "ret"}
             PROVE  proc_ticks'[p_proc_ready'] > 0
  BY DEF ResumedHasTicks, InProcess
<1>1. ASSUME frames # <<>>, frames[1].vector = CLOCK, frames[1].pc \in {"handled", "ret"},
             UNCHANGED <<proc_ticks, p_proc_ready>>
      PROVE  proc_ticks'[p_proc_ready'] > 0
  BY <1>1 DEF ResumedHasTicks, InProcess
<1>2. ASSUME frames # <<>>,
             NEW pc \in Open \cup Closed, Goto(pc)
      PROVE  /\ Len(frames) \in Nat \ {0}
             /\ Top = frames[Len(frames)]
             /\ frames[1].vector = CLOCK
             /\ Len(frames) = 1 => /\ Top = frames[1]
                                   /\ frames'[1].pc = pc
                                   /\ k_reenter = 0
             /\ Len(frames) # 1 => /\ frames[1].pc \in {"handled", "ret"}
                                   /\ Top.vector # CLOCK
  <2>1. /\ Len(frames) \in Nat \ {0}
        /\ \A i \in 1 .. Len(frames) :
             /\ frames'[i].vector = frames[i].vector
             /\ frames'[i].pc = IF i = Len(frames) THEN pc ELSE frames[i].pc
    BY <1>2, GotoProperties DEF TypeOK
  <2>2. Top = frames[Len(frames)]
    BY DEF Top
  <2>3. k_reenter = Len(frames) - 1
    BY DEF KernelInv, NestingCounted
  <2>4. 1 \in 1 .. Len(frames) /\ Len(frames) \in 1 .. Len(frames)
    BY <2>1
  <2>5. frames[1].vector = CLOCK
    BY <2>1, <2>4
  <2>6. Len(frames) # 1 => Top.vector # CLOCK
    BY <2>2, <2>4, <2>5 DEF KernelInv, NoSelfNesting
  <2> QED BY <2>1, <2>2, <2>3, <2>4, <2>5, <2>6
<1>3. ASSUME NEW vector \in Irqs \cup {SYS_VECTOR}, Save(vector),
             UNCHANGED <<proc_ticks, p_proc_ready>>
      PROVE  proc_ticks'[p_proc_ready'] > 0
  <2>1. k_reenter = Len(frames) - 1 /\ frames \in Seq(Frames)
    BY DEF KernelInv, NestingCounted, TypeOK
  <2>2. /\ Len(frames) \in Nat
        /\ Len(frames') = Len(frames) + 1
        /\ \A i \in 1 .. Len(frames) : frames'[i] = frames[i]
        /\ frames'[Len(frames')].pc = "saved"
    BY <1>3, <2>1, SaveProperties
  <2>3. Len(frames) # 0
    BY <2>2
  <2>4. frames # <<>> /\ frames'[1] = frames[1]
    BY <2>2, <2>3, EmptySeq
  <2> QED BY <1>1, <1>3, <2>4
<1>4. CASE HwintEnter \/ HwintLeave \/ OtherHandler
  <2>1. frames # <<>> /\ UNCHANGED <<proc_ticks, p_proc_ready>>
    BY <1>4 DEF HwintEnter, HwintLeave, OtherHandler
  <2>2. PICK pc \in Open \cup Closed : Goto(pc)
    BY <1>4 DEF HwintEnter, HwintLeave, OtherHandler, Open, Closed, TypeOK
  <2>3. frames[1].pc \in {"handled", "ret"}
    <3>1. CASE HwintEnter
      <4>1. irq_table[CLOCK] = "clock_handler"
        BY IrqsAssumption DEF KernelInv, TableMatchesTty, CLOCK, KEYBOARD
      <4>2. CASE Len(frames) = 1
        <5>1. Top.vector = CLOCK
          BY <1>2, <2>1, <2>2, <4>2
        <5>2. Goto("clock_handler")
          BY <3>1, <4>1, <5>1 DEF HwintEnter
        <5>3. frames'[1].pc = "clock_handler"
          BY <1>2, <2>1, <4>2, <5>2 DEF Open
        <5> QED BY <5>3
      <4> QED BY <1>2, <2>1, <2>2, <4>2
    <3>2. CASE HwintLeave
      BY <1>2, <2>1, <2>2, <3>2 DEF HwintLeave
    <3>3. CASE OtherHandler
      <4>1. Top.vector # CLOCK
        <5>1. Top.pc = "keyboard_handler" => Top.vector # CLOCK
          BY <2>1, TopRunsItsCode DEF CLOCK, SYS_VECTOR
        <5>2. Top.pc # "spurious_irq"
          <6>1. Len(frames) \in 1 .. Len(frames) /\ Top = frames[Len(frames)]
            BY <2>1, TopProperties DEF TypeOK
          <6> QED BY <6>1 DEF KernelInv, NoSpuriousHandler
        <5> QED BY <3>3, <5>1, <5>2 DEF OtherHandler
      <4> QED BY <1>2, <2>1, <2>2, <4>1
    <3> QED BY <1>4, <3>1, <3>2, <3>3
  <2> QED BY <1>1, <1>2, <2>1, <2>2, <2>3
<1>5. CASE ClockCharge
  <2>1. frames # <<>> /\ Goto("k_reenter_test") /\ Top.pc = "clock_handler"
    BY <1>5 DEF ClockCharge
  <2>2. Top.vector = CLOCK
    BY <2>1, TopRunsItsCode DEF CLOCK, SYS_VECTOR
  <2>3. Len(frames) = 1 => frames'[1].pc = "k_reenter_test"
    BY <1>2, <2>1 DEF Open
  <2> QED BY <1>2, <2>1, <2>2, <2>3 DEF Open
<1>6. CASE ClockReturn
  <2>1. /\ frames # <<>> /\ Goto("handled") /\ Top.pc = "k_reenter_test"
        /\ MayKeepRunning /\ UNCHANGED <<proc_ticks, p_proc_ready>>
    BY <1>6 DEF ClockReturn
  <2>2. Top.vector = CLOCK
    BY <2>1, TopRunsItsCode DEF CLOCK, SYS_VECTOR
  <2>3. k_reenter = 0
    BY <1>2, <2>1, <2>2 DEF Open
  <2> QED BY <2>1, <2>3 DEF MayKeepRunning
<1>7. CASE ClockSchedule
  <2>1. PICK quota \in Quotas : proc_ticks' = Filled(proc_ticks, quota)
    BY <1>7 DEF ClockSchedule, Quotas
  <2>2. proc_ticks' \in [Procs -> Int] /\ ~Exhausted(proc_ticks')
    BY <2>1, FilledProperties DEF TypeOK
  <2> QED BY <1>7, <2>2, BestExists DEF ClockSchedule, IsBest
<1>8. CASE SysEnter \/ SysRun \/ SysStore
  <2>1. frames # <<>> /\ UNCHANGED <<proc_ticks, p_proc_ready>>
    BY <1>8 DEF SysEnter, SysRun, SysStore
  <2>2. PICK pc \in Open \cup Closed : Goto(pc)
    BY <1>8 DEF SysEnter, SysRun, SysStore, Open, Closed
  <2>3. Top.vector = SYS_VECTOR
    BY <1>8, TopRunsItsCode DEF SysEnter, SysRun, SysStore
  <2>4. Top.vector # CLOCK
    BY <2>3 DEF CLOCK, SYS_VECTOR
  <2> QED BY <1>1, <1>2, <2>1, <2>2, <2>4
<1>9. CASE Restart
  BY <1>9 DEF Restart
<1>10. CASE RestartReenter
  <2>1. /\ frames # <<>> /\ UNCHANGED <<proc_ticks, p_proc_ready>>
        /\ frames' = SubSeq(frames, 1, Len(frames) - 1)
    BY <1>10 DEF RestartReenter
  <2>2. /\ Len(frames) \in Nat \ {0}
        /\ Len(frames') = Len(frames) - 1
        /\ \A i \in 1 .. Len(frames) - 1 : frames'[i] = frames[i]
    BY <2>1, PopProperties DEF TypeOK
  <2>3. Len(frames') # 0 \/ frames' = <<>>
    BY <2>1, PopProperties, EmptySeq DEF TypeOK
  <2>4. frames'[1] = frames[1]
    BY <2>2, <2>3
  <2> QED BY <1>1, <2>1, <2>4
<1>11. CASE UNCHANGED <<frames, proc_ticks, p_proc_ready>>
  BY <1>1, <1>11
<1> QED
  <2>1. ASSUME NEW irq \in Irqs, Interrupt(irq) PROVE proc_ticks'[p_proc_ready'] > 0
    BY <1>3, <2>1 DEF Interrupt
  <2>2. ASSUME NEW irq \in Irqs, Raise(irq) PROVE proc_ticks'[p_proc_ready'] > 0
    BY <1>11, <2>2 DEF Raise
  <2>3. CASE SysCall
    BY <1>3, <2>3 DEF SysCall
  <2>4. CASE UserStep \/ TtyStep \/ SwitchScheduler \/ UNCHANGED vars
    BY <1>11, <2>4 DEF UserStep, TtyStep, SwitchScheduler, vars
  <2> QED
    BY <1>4, <1>5, <1>6, <1>7, <1>8, <1>9, <1>10, <2>1, <2>2, <2>3, <2>4
    DEF Next, KernelStep, ProcessStep

\* Whomever an outermost clock interrupt resumes can pay for its next tick.
THEOREM KernelResumedHasTicks == Spec => []ResumedHasTicks
<1>1. Init => ResumedHasTicks
  BY DEF Init, ResumedHasTicks, InProcess
<1> QED BY <1>1, ResumedHasTicksStep, KernelTypeOK, KernelSafety, PTL DEF Spec

-----------------------------------------------------------------------------
(* Scheduling.                                                             *)

\* SchedOps as Scheduling sees it through the instance is SchedOps itself.
LEMMA SameSchedOps ==
  /\ \A t : Abs!Best(t) = Best(t) /\ Abs!SpendTick(t) = SpendTick(t)
  /\ \A t, q : Abs!Filled(t, q) = Filled(t, q)
  /\ Abs!Quotas = Quotas
  BY DEF Abs!Best, Best, Abs!IsBest, IsBest, Abs!SpendTick, SpendTick,
         Abs!Filled, Filled, Abs!Exhausted, Exhausted, Abs!Quotas, Quotas,
         Abs!sched0Quota, sched0Quota, Abs!xsched01Quota, xsched01Quota,
         Abs!Procs, Procs

\* However ticks nest in system calls, every one is charged to the process
\* that is current, and the current process is replaced only when it has
\* spent its ticks, by one that has most.
THEOREM KernelRefinesScheduling == Spec => ImplementsScheduling
<1>1. Init => Abs!Init
  BY DEF Init, Abs!Init
<1>2. TypeOK /\ [Next]_vars => [Abs!Next]_Abs!svars
  <2> SUFFICES ASSUME TypeOK, [Next]_vars PROVE [Abs!Next]_Abs!svars
    OBVIOUS
  <2> USE DEF Abs!svars
  <2>1. CASE ClockCharge
    BY <2>1, SameSchedOps DEF ClockCharge, procs, Abs!Next, Abs!Charge
  <2>2. CASE ClockSchedule
    <3>1. PICK quota \in Quotas : proc_ticks' = Filled(proc_ticks, quota)
      BY <2>2 DEF ClockSchedule, Quotas
    <3>2. proc_ticks[p_proc_ready] <= 0
      BY <2>2 DEF ClockSchedule, MayKeepRunning, TypeOK
    <3> QED
      BY <2>2, <3>1, <3>2, SameSchedOps DEF ClockSchedule, Abs!Next, Abs!Switch
  <2>3. CASE UNCHANGED <<proc_ticks, p_proc_ready>>
    BY <2>3
  <2> QED
    BY <2>1, <2>2, <2>3
    DEF Next, KernelStep, ProcessStep, vars, procs, sched, Raise, Interrupt,
        HwintEnter, HwintLeave, OtherHandler, ClockReturn, SysCall, SysEnter,
        SysRun, SysStore, Restart, RestartReenter, UserStep, TtyStep,
        SwitchScheduler
<1> QED
  BY <1>1, <1>2, KernelTypeOK, PTL DEF Spec, ImplementsScheduling, Abs!Spec

-----------------------------------------------------------------------------
(* VirtualCPU.                                                             *)

\* Machine as VirtualCPU sees it through the instance is Machine itself.
LEMMA SameMachine ==
  /\ VCPU!Procs = Procs
  /\ VCPU!Contexts = Contexts
  /\ \A p : VCPU!FirstContext(p) = FirstContext(p)
  /\ \A p, c, d : VCPU!Instruction(p, c, d) = Instruction(p, c, d)
  /\ VCPU!TTY = TTY
  BY DEF VCPU!Procs, Procs, VCPU!Contexts, Contexts, VCPU!TtyEips, TtyEips,
         VCPU!FirstContext, FirstContext, VCPU!TTY, TTY,
         VCPU!Instruction, Instruction, VCPU!TtyInstruction, TtyInstruction,
         VCPU!UserInstruction, UserInstruction

\* The registers of all processes, as VirtualCPU has them.
Registers == [p \in Procs |-> Context(p)]

\* What a step of the kernel has to leave for VirtualCPU to see a stutter.
LEMMA KernelStutters ==
  ASSUME \A p \in Procs : Context(p)' = Context(p), Waiting' = Waiting
  PROVE  [VCPU!Next]_VCPU!vvars
<1>1. Registers' = Registers
  BY DEF Registers
<1> QED BY <1>1 DEF Registers, VCPU!vvars

\* A step of the innermost frame that is not the answer to a system call.
LEMMA GotoStutters ==
  ASSUME TypeOK, KernelInv, frames # <<>>,
         NEW pc \in Open \cup Closed, Goto(pc),
         Top.vector = SYS_VECTOR => pc # "ret" /\ Top.pc # "ret",
         UNCHANGED <<regs, tss_esp0>>
  PROVE  [VCPU!Next]_VCPU!vvars
<1>1. /\ Len(frames) \in Nat \ {0}
      /\ frames' # <<>>
      /\ \A i \in 1 .. Len(frames) :
           /\ frames'[i].vector = frames[i].vector
           /\ frames'[i].pc = IF i = Len(frames) THEN pc ELSE frames[i].pc
  BY GotoProperties DEF TypeOK
<1>2. Top = frames[Len(frames)] /\ 1 \in 1 .. Len(frames)
  BY <1>1 DEF Top
<1>3. Waiting' = Waiting
  BY <1>1, <1>2 DEF Waiting, InProcess
<1>4. \A p \in Procs : Context(p)' = Context(p)
  BY <1>1 DEF Context, Running, InProcess
<1> QED BY <1>3, <1>4, KernelStutters

\* The registers saved on an entry are those of the process that ran.
LEMMA SaveKeepsContexts ==
  ASSUME TypeOK, KernelInv, NEW vector \in Irqs \cup {SYS_VECTOR}, Save(vector),
         UNCHANGED tss_esp0
  PROVE  /\ \A p \in Procs : Context(p)' = Context(p)
         /\ frames' # <<>>
         /\ InProcess => frames'[1].vector = vector /\ frames'[1].pc = "saved"
         /\ ~InProcess => frames'[1] = frames[1]
<1>1. k_reenter = Len(frames) - 1 /\ frames \in Seq(Frames)
  BY DEF KernelInv, NestingCounted, TypeOK
<1>2. /\ Len(frames) \in Nat
      /\ Len(frames') = Len(frames) + 1
      /\ \A i \in 1 .. Len(frames) : frames'[i] = frames[i]
      /\ frames'[Len(frames')].vector = vector
      /\ frames'[Len(frames')].pc = "saved"
      /\ frames' \in Seq(Frames)
  BY <1>1, SaveProperties
<1>3. InProcess <=> Len(frames) = 0
  BY <1>1, EmptySeq DEF InProcess
<1>4. frames' # <<>>
  <2>1. Len(frames') # 0
    BY <1>2
  <2> QED BY <2>1, EmptySeq
<1>5. \A p \in Procs : Context(p)' = Context(p)
  BY <1>4 DEF Save, Context, Running, InProcess, TypeOK
<1> QED BY <1>2, <1>3, <1>4, <1>5

\* The interrupts, and the kernel but for the answer to a system call.
LEMMA InterruptsStutter ==
  ASSUME TypeOK, KernelInv,
         \/ \E irq \in Irqs : Raise(irq) \/ Interrupt(irq)
         \/ HwintEnter \/ HwintLeave \/ OtherHandler
         \/ ClockCharge \/ ClockReturn \/ ClockSchedule
         \/ SysEnter \/ SysRun
         \/ SwitchScheduler
         \/ UNCHANGED vars
  PROVE  [VCPU!Next]_VCPU!vvars
<1> USE DEF kstack, procs, TopIs
<1>1. ASSUME UNCHANGED <<cpu, frames, regs, tss_esp0>> PROVE [VCPU!Next]_VCPU!vvars
  <2>1. Waiting' = Waiting /\ \A p \in Procs : Context(p)' = Context(p)
    BY <1>1 DEF Waiting, Context, Running, InProcess
  <2> QED BY <2>1, KernelStutters
<1>2. ASSUME NEW irq \in Irqs, Interrupt(irq) PROVE [VCPU!Next]_VCPU!vvars
  <2>1. irq # SYS_VECTOR
    BY IrqsAssumption DEF SYS_VECTOR
  <2>2. /\ \A p \in Procs : Context(p)' = Context(p)
        /\ frames' # <<>>
        /\ InProcess => frames'[1].vector = irq
        /\ ~InProcess => frames'[1] = frames[1]
    BY <1>2, SaveKeepsContexts DEF Interrupt
  <2>3. Waiting' = Waiting
    BY <1>2, <2>1, <2>2 DEF Interrupt, Waiting, InProcess
  <2> QED BY <2>2, <2>3, KernelStutters
<1>3. CASE HwintEnter \/ HwintLeave \/ OtherHandler
  <2>1. frames # <<>> /\ UNCHANGED <<regs, tss_esp0>> /\ Top.vector # SYS_VECTOR
    BY <1>3, TopRunsItsCode DEF HwintEnter, HwintLeave, OtherHandler
  <2>2. PICK pc \in Open \cup Closed : Goto(pc)
    BY <1>3 DEF HwintEnter, HwintLeave, OtherHandler, Open, Closed, TypeOK
  <2> QED BY <2>1, <2>2, GotoStutters
<1>4. CASE ClockCharge \/ ClockReturn \/ ClockSchedule
  <2>1. frames # <<>> /\ UNCHANGED <<regs, tss_esp0>> /\ Top.vector # SYS_VECTOR
    BY <1>4, TopRunsItsCode DEF ClockCharge, ClockReturn, ClockSchedule
  <2>2. PICK pc \in Open \cup Closed : Goto(pc)
    BY <1>4 DEF ClockCharge, ClockReturn, ClockSchedule, Open
  <2> QED BY <2>1, <2>2, GotoStutters
<1>5. CASE SysEnter \/ SysRun
  <2>1. frames # <<>> /\ UNCHANGED <<regs, tss_esp0>> /\ Top.pc # "ret"
    BY <1>5 DEF SysEnter, SysRun
  <2>2. PICK pc \in Open : Goto(pc) /\ pc # "ret"
    BY <1>5 DEF SysEnter, SysRun, Open
  <2> QED BY <2>1, <2>2, GotoStutters
<1> QED
  BY <1>1, <1>2, <1>3, <1>4, <1>5 DEF Raise, SwitchScheduler, vars

\* The ways back: to a process, whose registers the CPU gets, and to the code
\* of the frame below.
LEMMA ReturnsStutter ==
  ASSUME TypeOK, KernelInv, Restart \/ RestartReenter
  PROVE  [VCPU!Next]_VCPU!vvars
<1> USE DEF kstack, procs, TopIs
<1>1. CASE Restart
  <2>1. Len(frames) \in Nat \ {0} /\ Top = frames[Len(frames)]
    BY <1>1, TopProperties DEF TypeOK, Restart
  <2>2. Len(frames) = 1
    <3>1. Len(frames) \in 1 .. Len(frames) /\ Top.retaddr = "restart"
      BY <1>1, <2>1 DEF Restart
    <3>2. Top.retaddr = IF Len(frames) = 1 THEN "restart" ELSE "restart_reenter"
      BY <2>1, <3>1 DEF KernelInv, NestingCounted
    <3> QED BY <3>1, <3>2
  <2>3. frames # <<>> /\ frames' = <<>> /\ frames[1].pc = "ret"
    BY <1>1, <2>1, <2>2 DEF Restart
  <2>4. Waiting' = Waiting
    BY <2>3 DEF Waiting, InProcess
  <2>5. \A p \in Procs : Context(p)' = Context(p)
    BY <1>1, <2>3 DEF Context, Running, InProcess, Restart
  <2> QED BY <2>4, <2>5, KernelStutters
<1>2. CASE RestartReenter
  <2>1. /\ Len(frames) \in Nat \ {0}
        /\ Len(frames') = Len(frames) - 1
        /\ \A i \in 1 .. Len(frames) - 1 : frames'[i] = frames[i]
        /\ frames' \in Seq(Frames)
    BY <1>2, PopProperties DEF TypeOK, RestartReenter
  <2>2. Len(frames) # 1
    <3>1. Top = frames[Len(frames)]
      BY DEF Top
    <3> QED BY <1>2, <2>1, <3>1 DEF KernelInv, NestingCounted, RestartReenter
  <2>3. frames # <<>> /\ frames' # <<>> /\ frames'[1] = frames[1]
    <3>1. Len(frames') # 0 /\ 1 \in 1 .. Len(frames) - 1
      BY <2>1, <2>2
    <3> QED BY <1>2, <2>1, <3>1, EmptySeq DEF RestartReenter
  <2>4. Waiting' = Waiting
    BY <1>2, <2>3 DEF Waiting, InProcess, RestartReenter
  <2>5. \A p \in Procs : Context(p)' = Context(p)
    BY <1>2, <2>3 DEF Context, Running, InProcess, RestartReenter
  <2> QED BY <2>4, <2>5, KernelStutters
<1> QED BY <1>1, <1>2

\* int 0x90 is the question ...
LEMMA SysCallAsks ==
  ASSUME TypeOK, KernelInv, SysCall
  PROVE  VCPU!Next
<1>1. /\ \A p \in Procs : Context(p)' = Context(p)
      /\ frames' # <<>>
      /\ frames'[1].vector = SYS_VECTOR
      /\ frames'[1].pc = "saved"
  BY SaveKeepsContexts DEF SysCall
<1>2. Waiting = {} /\ Waiting' = {tss_esp0}
  BY <1>1 DEF SysCall, Waiting, InProcess
<1>3. Registers' = Registers
  BY <1>1 DEF Registers
<1>4. tss_esp0 \in VCPU!Procs /\ tss_esp0 # VCPU!TTY
  BY SameMachine DEF TypeOK, SysCall
<1>5. VCPU!Ask(tss_esp0)
  BY <1>2, <1>3, <1>4 DEF VCPU!Ask, Registers
<1> QED BY <1>4, <1>5 DEF VCPU!Next

\* ... and the store to EAX in its frame the answer.
LEMMA SysStoreAnswers ==
  ASSUME TypeOK, KernelInv, SysStore
  PROVE  VCPU!Next
<1> USE DEF SysStore, TopIs
<1>1. Top.vector = SYS_VECTOR
  BY TopRunsItsCode
<1>2. Len(frames) = 1 /\ Top = frames[1]
  <2>1. Len(frames) \in Nat \ {0} /\ Top = frames[Len(frames)]
    BY TopProperties DEF TypeOK
  <2>2. \A l \in Nat \ {0} : l # 1 => l \in 2 .. l
    OBVIOUS
  <2> QED BY <1>1, <2>1, <2>2 DEF KernelInv, NoSelfNesting
<1>3. frames' # <<>> /\ frames'[1].pc = "ret"
  BY <1>2, GotoProperties DEF TypeOK, Closed
<1>4. Waiting = {tss_esp0} /\ Waiting' = {}
  BY <1>1, <1>2, <1>3 DEF Waiting, InProcess
<1>5. sys.eax \in 0 .. TickWrap - 1
  BY DEF TypeOK
<1>6. Registers' = [Registers EXCEPT ![tss_esp0].eax = sys.eax]
  <2>1. Registers = regs /\ Registers' = regs'
    BY <1>3 DEF Registers, Context, Running, InProcess, TypeOK
  <2> QED BY <2>1
<1>7. tss_esp0 \in VCPU!Procs
  BY SameMachine DEF TypeOK
<1>8. VCPU!Answer(tss_esp0)
  BY <1>4, <1>5, <1>6 DEF VCPU!Answer, Registers
<1> QED BY <1>7, <1>8 DEF VCPU!Next

\* A process executes its own instructions, one at a time.
LEMMA ProcessExecutes ==
  ASSUME TypeOK, KernelInv, UserStep \/ TtyStep
  PROVE  VCPU!Next
<1> USE DEF kstack, procs
<1>1. /\ InProcess /\ InProcess'
      /\ UNCHANGED <<regs, tss_esp0>>
      /\ tss_esp0 \in Procs
      /\ cpu' \in Contexts
      /\ Instruction(tss_esp0, cpu, cpu')
  BY DEF UserStep, TtyStep, Running, InProcess, TypeOK, Instruction
<1>2. Waiting = {} /\ Waiting' = {}
  BY <1>1 DEF Waiting
<1>3. Registers[tss_esp0] = cpu /\ Registers' = [Registers EXCEPT ![tss_esp0] = cpu']
  BY <1>1 DEF Registers, Context, Running
<1>4. VCPU!Execute(tss_esp0)
  BY <1>1, <1>2, <1>3, SameMachine DEF VCPU!Execute, Registers
<1> QED BY <1>1, <1>4, SameMachine DEF VCPU!Next

\* No interrupt, system call or switch changes a register that a process
\* could see, except the EAX of the one that asked.
THEOREM KernelRefinesVirtualCPU == Spec => ImplementsVirtualCPU
<1>1. Init => VCPU!Init
  <2> SUFFICES ASSUME Init PROVE VCPU!Init
    OBVIOUS
  <2>1. Waiting = {}
    BY DEF Init, Waiting, InProcess
  <2>2. Registers = [p \in Procs |-> FirstContext(p)]
    BY DEF Init, Registers, Context, Running, TTY
  <2> QED BY <2>1, <2>2, SameMachine DEF VCPU!Init, Registers
<1>2. TypeOK /\ KernelInv /\ [Next]_vars => [VCPU!Next]_VCPU!vvars
  BY InterruptsStutter, ReturnsStutter, SysCallAsks, SysStoreAnswers, ProcessExecutes
  DEF Next, KernelStep, ProcessStep
<1> QED
  BY <1>1, <1>2, KernelTypeOK, KernelSafety, PTL
  DEF Spec, ImplementsVirtualCPU, VCPU!Spec
=============================================================================
