---------------------------- MODULE TrapsProofs ----------------------------
(***************************************************************************)
(* For every number of tasks and programs, every set of wired lines and of *)
(* int instructions, and any number of glitches: the CPU finds what it is  *)
(* made to look up, the masks are what the lines need, each line finds its *)
(* handler, and an exception is reported as it happened.                   *)
(***************************************************************************)
EXTENDS Traps, SequenceTheorems, TLAPS

\* The tables as they are once they are filled.
KernelGdt ==
  [i \in Indices |->
    CASE i = INDEX_TSS -> Desc("TSS", 0, 0)
      [] i \in INDEX_LDT_FIRST .. INDEX_LDT_FIRST + NR_TASKS + NR_PROCS - 1 -> Desc("LDT", 0, i - INDEX_LDT_FIRST)
      [] OTHER -> LoaderGdt[i]]
KernelIdt == [v \in Vectors |-> IdtEntry(v)]
KernelLdts ==
  [p \in Procs |-> [i \in {0, 1} |->
    IF i = 0 THEN Desc("code", Privilege(p), 0) ELSE Desc("data", Privilege(p), 0)]]
NoLdts == [p \in Procs |-> [i \in {0, 1} |-> Absent]]

\* Each of them is what it is to be from its step on.
TablesSoFar ==
  /\ gdt = IF main = 1 THEN [i \in Indices |-> Absent] ELSE IF main \in 2 .. 3 THEN LoaderGdt ELSE KernelGdt
  /\ idt = IF main > 2 THEN KernelIdt ELSE [v \in Vectors |-> NoGate]
  /\ gdtr = IF main > 4 THEN "kernel" ELSE "loader"
  /\ idtr = IF main > 4 THEN "kernel" ELSE "bios"
  /\ tr = IF main > 5 THEN "kernel" ELSE "none"
  /\ ldts = IF main > 10 THEN KernelLdts ELSE NoLdts

HandlerOf(irq) ==
  CASE irq = 14 /\ main > 6 -> "pri_ide_handler"
    [] irq = 15 /\ main > 7 -> "sec_ide_handler"
    [] irq = 0 /\ main > 11 -> "clock_handler"
    [] irq = 1 /\ tty \in {"enable", "loop"} -> "keyboard_handler"
    [] OTHER -> "spurious_irq"
HandlersSoFar == irq_table = [irq \in Lines |-> HandlerOf(irq)]

\* Nothing comes in before the first restart.
QuietBefore ==
  main <= 13 =>
    /\ hwints = <<>> /\ ~insys /\ outcome = "runs" /\ tty = "disable"
    /\ main > 2 => 7 \in imr[MASTER]

\* IF is clear between the gate and sti of the innermost routine.
IfMatchesRoutines ==
  iflag <=> main = 14 /\ (hwints = <<>> \/ hwints[Len(hwints)].pc # "begin")

\* The clock and the keyboard, at most once each, and glitches are open.
HwInts == [irq : {0, 1, 7}, pc : {"begin", "call", "end"}, handler : Handlers]
RoutinesOpen ==
  /\ hwints \in Seq(HwInts)
  /\ \A i \in 1 .. Len(hwints) :
       /\ hwints[i].irq = 1 => tty = "loop"
       /\ i # Len(hwints) => hwints[i].pc # "begin"
       /\ \A j \in 1 .. Len(hwints) : i # j /\ hwints[i].irq = hwints[j].irq => hwints[i].irq = 7

\* Only the line whose routine has not yet sent its EOI is in service.
InService ==
  /\ isr[SLAVE] = {}
  /\ \/ isr[MASTER] = {}
     \/ /\ hwints # <<>> /\ hwints[Len(hwints)].pc = "begin"
        /\ isr[MASTER] = {hwints[Len(hwints)].irq}

Outcome == outcome \in {"runs", "halted"}

TrapsInv ==
  /\ PicTypeOK /\ main \in 1 .. 14 /\ tty \in {"disable", "store", "enable", "loop"}
  /\ current \in Procs /\ insys \in BOOLEAN /\ iflag \in BOOLEAN /\ glitches \in 0 .. MaxGlitches
  /\ happened \in Reports /\ reported \in Reports
  /\ TablesSoFar /\ HandlersSoFar /\ QuietBefore /\ IfMatchesRoutines /\ RoutinesOpen /\ InService
  /\ Outcome /\ MasksMatchLines /\ RightHandler /\ ReportsWhatHappened

-----------------------------------------------------------------------------
(* Facts about the operators.                                              *)

\* The steps of the way up, looked up one by one.
LEMMA StepsAre ==
  /\ Len(Steps) = 13
  /\ Steps[1].op = "cstart" /\ Steps[2].op = "gates" /\ Steps[3].op = "descriptors"
  /\ Steps[4].op = "load_tables" /\ Steps[5].op = "ltr"
  /\ Steps[6] = [op |-> "put", irq |-> 14, handler |-> "pri_ide_handler"]
  /\ Steps[7] = [op |-> "put", irq |-> 15, handler |-> "sec_ide_handler"]
  /\ Steps[8] = [op |-> "enable", irq |-> 14] /\ Steps[9] = [op |-> "enable", irq |-> 15]
  /\ Steps[10].op = "proc_table"
  /\ Steps[11] = [op |-> "put", irq |-> 0, handler |-> "clock_handler"]
  /\ Steps[12] = [op |-> "enable", irq |-> 0] /\ Steps[13].op = "restart"
BY DEF Steps

\* A step that is named is where it is in the list.
LEMMA StepIsAt ==
  ASSUME main \in 1 .. 14, NEW op, Step(op)
  PROVE  /\ outcome = "runs" /\ main \in 1 .. 13 /\ main' = main + 1
         /\ op = "cstart" => main = 1
         /\ op = "gates" => main = 2
         /\ op = "descriptors" => main = 3
         /\ op = "load_tables" => main = 4
         /\ op = "ltr" => main = 5
         /\ op = "put" => main \in {6, 7, 11}
         /\ op = "enable" => main \in {8, 9, 12}
         /\ op = "proc_table" => main = 10
         /\ op = "restart" => main = 13
<1>1. main \in 1 .. 13 /\ Steps[main].op = op /\ main' = main + 1 /\ outcome = "runs"
  BY StepsAre DEF Step
<1>2. \/ main = 1 \/ main = 2 \/ main = 3 \/ main = 4 \/ main = 5 \/ main = 6 \/ main = 7 \/ main = 8
      \/ main = 9 \/ main = 10 \/ main = 11 \/ main = 12 \/ main = 13
  BY <1>1
<1>3. /\ Steps[6].op = "put" /\ Steps[7].op = "put" /\ Steps[8].op = "enable" /\ Steps[9].op = "enable"
      /\ Steps[11].op = "put" /\ Steps[12].op = "enable"
  BY StepsAre
<1> QED BY <1>1, <1>2, <1>3, StepsAre

\* Which lines are enabled when the way up has come to step m and task_tty to t.
OpenAt(m, t, irq) ==
  IF irq = 1 THEN t = "loop" ELSE (irq = 14 /\ m > 8) \/ (irq = 15 /\ m > 9) \/ (irq = 0 /\ m > 12)

LEMMA EnabledByStep ==
  ASSUME NEW m \in 1 .. 14, NEW irq \in Lines \ {1}, NEW t
  PROVE  (\E i \in 1 .. m - 1 : Steps[i].op = "enable" /\ Steps[i].irq = irq) <=> OpenAt(m, t, irq)
<1> DEFINE E(i) == Steps[i].op = "enable" /\ Steps[i].irq = irq
<1>1. \A i \in 1 .. 13 : E(i) <=> (i = 8 /\ irq = 14) \/ (i = 9 /\ irq = 15) \/ (i = 12 /\ irq = 0)
  <2> SUFFICES ASSUME NEW i \in 1 .. 13
               PROVE  E(i) <=> (i = 8 /\ irq = 14) \/ (i = 9 /\ irq = 15) \/ (i = 12 /\ irq = 0)
    OBVIOUS
  <2>1. \/ i = 1 \/ i = 2 \/ i = 3 \/ i = 4 \/ i = 5 \/ i = 6 \/ i = 7 \/ i = 8
        \/ i = 9 \/ i = 10 \/ i = 11 \/ i = 12 \/ i = 13
    OBVIOUS
  <2>2. /\ Steps[6].op = "put" /\ Steps[7].op = "put" /\ Steps[11].op = "put"
        /\ Steps[8].op = "enable" /\ Steps[9].op = "enable" /\ Steps[12].op = "enable"
        /\ Steps[8].irq = 14 /\ Steps[9].irq = 15 /\ Steps[12].irq = 0
    BY StepsAre
  <2> QED BY <2>1, <2>2, StepsAre
<1> HIDE DEF E
<1>2. (\E i \in 1 .. m - 1 : E(i)) <=> (irq = 14 /\ m > 8) \/ (irq = 15 /\ m > 9) \/ (irq = 0 /\ m > 12)
  <2>1. \A i \in 1 .. m - 1 : i \in 1 .. 13
    OBVIOUS
  <2>2. \A i \in 1 .. 13 : i \in 1 .. m - 1 <=> i < m
    OBVIOUS
  <2> QED BY <1>1, <2>1, <2>2
<1> QED BY <1>2 DEF OpenAt, E

\* The same in a state, and in the next one.
LEMMA OpenedIs ==
  /\ main \in 1 .. 14 => \A irq \in Lines : Opened(irq) <=> OpenAt(main, tty, irq)
  /\ main' \in 1 .. 14 => \A irq \in Lines : Opened(irq)' <=> OpenAt(main', tty', irq)
<1>1. ASSUME main \in 1 .. 14, NEW irq \in Lines
      PROVE  Opened(irq) <=> OpenAt(main, tty, irq)
  <2>1. CASE irq = 1 BY <2>1 DEF Opened, OpenAt
  <2>2. CASE irq # 1 BY <1>1, <2>2, EnabledByStep DEF Opened
  <2> QED BY <2>1, <2>2
<1>2. ASSUME main' \in 1 .. 14, NEW irq \in Lines
      PROVE  Opened(irq)' <=> OpenAt(main', tty', irq)
  <2>1. CASE irq = 1 BY <2>1 DEF Opened, OpenAt
  <2>2. CASE irq # 1 BY <1>2, <2>2, EnabledByStep DEF Opened
  <2> QED BY <2>1, <2>2
<1> QED BY <1>1, <1>2

\* Lines 0 to 7 are those of the master, 8 to 15 those of the slave.
LEMMA ChipsAndBits ==
  \A irq \in Lines :
    /\ irq < 8 => ChipOf(irq) = MASTER /\ BitOf(irq) = irq
    /\ irq >= 8 => ChipOf(irq) = SLAVE /\ BitOf(irq) = irq - 8
    /\ ChipOf(irq) \in Chips /\ BitOf(irq) \in AllBits
BY DEF Lines, NR_IRQ, ChipOf, BitOf, MASTER, SLAVE, Chips, AllBits

\* A set of bits that is not empty has a least one.
LEMMA MinIsIn ==
  ASSUME NEW S \in SUBSET AllBits, S # {}
  PROVE  Min(S) \in S
<1>1. \E x \in S : \A y \in S : x =< y
  <2>1. CASE 0 \in S BY <2>1 DEF AllBits
  <2>2. CASE 0 \notin S /\ 1 \in S BY <2>2 DEF AllBits
  <2>3. CASE S \cap {0, 1} = {} /\ 2 \in S BY <2>3 DEF AllBits
  <2>4. CASE S \cap {0, 1, 2} = {} /\ 3 \in S BY <2>4 DEF AllBits
  <2>5. CASE S \cap {0, 1, 2, 3} = {} /\ 4 \in S BY <2>5 DEF AllBits
  <2>6. CASE S \cap {0, 1, 2, 3, 4} = {} /\ 5 \in S BY <2>6 DEF AllBits
  <2>7. CASE S \cap {0, 1, 2, 3, 4, 5} = {} /\ 6 \in S BY <2>7 DEF AllBits
  <2>8. CASE S \cap {0, 1, 2, 3, 4, 5, 6} = {}
    <3>1. PICK x \in S : x \in AllBits
      OBVIOUS
    <3>2. \A y \in S : y = 7
      BY <2>8 DEF AllBits
    <3> QED BY <3>1, <3>2
  <2> QED BY <2>1, <2>2, <2>3, <2>4, <2>5, <2>6, <2>7, <2>8
<1> QED BY <1>1 DEF Min

\* The end of the only service leaves none.
LEMMA EOIEndsIt ==
  ASSUME NEW c \in Chips, isr \in [Chips -> SUBSET AllBits], NEW b \in AllBits, isr[c] = {} \/ isr[c] = {b}
  PROVE  AfterEOI(c) = {}
<1>1. CASE isr[c] = {}
  BY <1>1 DEF AfterEOI
<1>2. CASE isr[c] = {b}
  <2>1. Min({b}) = b
    BY MinIsIn DEF AllBits
  <2> QED BY <1>2, <2>1 DEF AfterEOI
<1> QED BY <1>1, <1>2

\* The descriptors of the loader stay in place.
LEMMA FlatDescriptors ==
  /\ KernelGdt[INDEX_FLAT_C] = Desc("code", 0, 0)
  /\ KernelGdt[INDEX_FLAT_RW] = Desc("data", 0, 0)
  /\ KernelGdt[INDEX_VIDEO] = Desc("data", 3, 0)
  /\ KernelGdt[INDEX_TSS] = Desc("TSS", 0, 0)
<1>1. 1 .. 4 \subseteq Indices /\ \A i \in 1 .. 4 : i \notin 5 .. 5 + NR_TASKS + NR_PROCS - 1
  BY TrapsAssumption DEF Indices, INDEX_LDT_FIRST
<1>2. \A i \in 1 .. 3 : KernelGdt[i] = LoaderGdt[i]
  BY <1>1 DEF KernelGdt, INDEX_LDT_FIRST, INDEX_TSS
<1>3. KernelGdt[4] = Desc("TSS", 0, 0)
  <2>1. 4 \in Indices /\ INDEX_TSS = 4
    BY <1>1 DEF INDEX_TSS
  <2>2. KernelGdt[INDEX_TSS] = Desc("TSS", 0, 0)
    BY <2>1, <1>1 DEF KernelGdt, Desc, INDEX_LDT_FIRST
  <2> QED BY <2>1, <2>2
<1>4. LoaderGdt[1] = Desc("code", 0, 0) /\ LoaderGdt[2] = Desc("data", 0, 0) /\ LoaderGdt[3] = Desc("data", 3, 0)
  BY <1>1 DEF LoaderGdt, INDEX_FLAT_C, INDEX_FLAT_RW, INDEX_VIDEO
<1> QED BY <1>2, <1>3, <1>4 DEF INDEX_FLAT_C, INDEX_FLAT_RW, INDEX_VIDEO, INDEX_TSS

\* Each process that restart may be given can be loaded once the way up is
\* behind.
LEMMA AllLoadable ==
  ASSUME main = 14 \/ main = 13, TablesSoFar, NEW p \in Procs
  PROVE  Loadable(p)
<1>1. gdt = KernelGdt /\ gdtr = "kernel" /\ ldts = KernelLdts
  BY DEF TablesSoFar
<1>2. p \in Nat /\ INDEX_LDT_FIRST + p \in INDEX_LDT_FIRST .. INDEX_LDT_FIRST + NR_TASKS + NR_PROCS - 1
  BY TrapsAssumption DEF Procs, INDEX_LDT_FIRST
<1>3. INDEX_LDT_FIRST + p \in Indices /\ INDEX_LDT_FIRST + p # INDEX_TSS /\ INDEX_LDT_FIRST + p - INDEX_LDT_FIRST = p
  BY <1>2, TrapsAssumption DEF Indices, INDEX_LDT_FIRST, INDEX_TSS
<1>4. gdt[INDEX_LDT_FIRST + p] = Desc("LDT", 0, p)
  <2> DEFINE i == INDEX_LDT_FIRST + p
  <2>1. i \in Indices /\ i # INDEX_TSS /\ i \in INDEX_LDT_FIRST .. INDEX_LDT_FIRST + NR_TASKS + NR_PROCS - 1
    BY <1>2, <1>3
  <2>2. i - INDEX_LDT_FIRST = p
    BY <1>2 DEF INDEX_LDT_FIRST
  <2> HIDE DEF i
  <2>3. KernelGdt[i] = Desc("LDT", 0, i - INDEX_LDT_FIRST)
    BY <2>1 DEF KernelGdt
  <2> QED BY <1>1, <2>2, <2>3 DEF i
<1>5. gdt[INDEX_VIDEO] = Desc("data", 3, 0)
  BY <1>1, FlatDescriptors
<1>6. Privilege(p) \in {1, 3}
  BY DEF Privilege
<1> QED BY <1>1, <1>4, <1>5, <1>6 DEF Loadable, Active, KernelLdts, Desc

\* The stub of an exception completes what the CPU pushed to one frame.
LEMMA HaltReports ==
  ASSUME NEW v \in Exceptions, NEW err \in Int, Halt(v, v, err)
  PROVE  outcome' = "halted" /\ reported' = happened' /\ happened' \in Reports
<1> DEFINE s == Pushed(v, err) \o Stub(v)
           e == IF v \in HasError THEN err ELSE NoErr
           cpu4 == <<Older, EFLAGS, CPL, EIP>>
           code == IF v \in HasError THEN <<err>> ELSE <<>>
<1>a. /\ v \in Int /\ e \in Int /\ EIP \in Int /\ CPL \in Int /\ EFLAGS \in Int /\ Older \in Int
      /\ NoErr \in Int
  BY DEF Exceptions, NoErr, EIP, CPL, EFLAGS, Privilege, Older
<1>b. /\ cpu4 \in Seq(Int) /\ Len(cpu4) = 4
      /\ cpu4[2] = EFLAGS /\ cpu4[3] = CPL /\ cpu4[4] = EIP
  BY <1>a
<1>c. code \in Seq(Int) /\ Len(code) = IF v \in HasError THEN 1 ELSE 0
  BY <1>a
<1>d. Pushed(v, err) = cpu4 \o code
  BY DEF Pushed
<1>e. Stub(v) \in Seq(Int) /\ Len(Stub(v)) = IF v \in HasError THEN 1 ELSE 2
  BY <1>a DEF Stub, HasError
<1>f. Stub(v)[Len(Stub(v))] = v /\ (v \notin HasError => Stub(v)[1] = NoErr)
  BY DEF Stub, HasError
<1>g. v \in HasError => code[1] = err
  OBVIOUS
<1>1. Len(s) = 6 /\ s[6] = v /\ s[5] = e /\ s[4] = EIP /\ s[3] = CPL /\ s[2] = EFLAGS
  <2> HIDE DEF cpu4, code
  <2>1. /\ cpu4 \o code \in Seq(Int)
        /\ Len(cpu4 \o code) = Len(cpu4) + Len(code)
        /\ \A i \in 1 .. Len(cpu4) + Len(code) :
             (cpu4 \o code)[i] = IF i <= Len(cpu4) THEN cpu4[i] ELSE code[i - Len(cpu4)]
    BY <1>b, <1>c, ConcatProperties
  <2> DEFINE p == Pushed(v, err)
  <2>2. /\ p \in Seq(Int)
        /\ Len(p) = IF v \in HasError THEN 5 ELSE 4
        /\ p[2] = EFLAGS /\ p[3] = CPL /\ p[4] = EIP /\ (v \in HasError => p[5] = err)
    BY <1>b, <1>c, <1>d, <1>g, <2>1
  <2> HIDE DEF p
  <2> DEFINE t == Stub(v)
  <2>3. t \in Seq(Int) /\ Len(t) = (IF v \in HasError THEN 1 ELSE 2) /\ t[Len(t)] = v /\ (v \notin HasError => t[1] = NoErr)
    BY <1>e, <1>f
  <2> HIDE DEF t
  <2>4. /\ Len(p \o t) = Len(p) + Len(t)
        /\ \A i \in 1 .. Len(p) + Len(t) :
             (p \o t)[i] = IF i <= Len(p) THEN p[i] ELSE t[i - Len(p)]
    BY <2>2, <2>3, ConcatProperties
  <2>5. s = p \o t
    BY DEF p, t
  <2> HIDE DEF s, e
  <2>6. CASE v \in HasError
    <3>1. Len(p) = 5 /\ Len(t) = 1 /\ e = err
      BY <2>2, <2>3, <2>6 DEF e
    <3>2. Len(s) = 6 /\ \A i \in 1 .. 6 : s[i] = IF i <= 5 THEN p[i] ELSE t[i - 5]
      BY <2>4, <2>5, <3>1
    <3>3. s[2] = p[2] /\ s[3] = p[3] /\ s[4] = p[4] /\ s[5] = p[5] /\ s[6] = t[1]
      BY <3>2
    <3> QED BY <2>2, <2>3, <2>6, <3>1, <3>2, <3>3
  <2>7. CASE v \notin HasError
    <3>1. Len(p) = 4 /\ Len(t) = 2 /\ e = NoErr
      BY <2>2, <2>3, <2>7 DEF e
    <3>2. Len(s) = 6 /\ \A i \in 1 .. 6 : s[i] = IF i <= 4 THEN p[i] ELSE t[i - 4]
      BY <2>4, <2>5, <3>1
    <3>3. s[2] = p[2] /\ s[3] = p[3] /\ s[4] = p[4] /\ s[5] = t[1] /\ s[6] = t[2]
      BY <3>2
    <3> QED BY <2>2, <2>3, <2>7, <3>1, <3>2, <3>3
  <2> QED BY <2>6, <2>7
<1>2. /\ outcome' = "halted"
      /\ happened' = [vec_no |-> v, err_code |-> e, eip |-> EIP, cs |-> CPL, eflags |-> EFLAGS]
  BY DEF Halt
<1>3. reported' = [vec_no |-> s[Len(s)], err_code |-> s[Len(s) - 1], eip |-> s[Len(s) - 2],
                   cs |-> s[Len(s) - 3], eflags |-> s[Len(s) - 4]]
  BY DEF Halt
<1>5. reported' = happened'
  <2> HIDE DEF s, e
  <2> QED BY <1>1, <1>2, <1>3
<1> QED BY <1>2, <1>a, <1>5 DEF Reports

\* The gates, after init_prot.
LEMMA GatesAre ==
  ASSUME idt = KernelIdt, NEW v \in Vectors
  PROVE  /\ v \in Exceptions => idt[v].handler = "exception" /\ idt[v].n = v
         /\ v \in 32 .. 47 => idt[v].handler = "hwint" /\ idt[v].n = v - 32 /\ idt[v].dpl = 0
         /\ v = 144 => idt[v].handler = "sys_call"
         /\ v \notin Exceptions \cup 32 .. 47 \cup {144} => idt[v].handler = "none"
<1>1. idt[v] = IdtEntry(v)
  BY DEF KernelIdt
<1>2. CASE v \in Exceptions
  <2>1. v \notin 32 .. 47 /\ v # 144
    BY <1>2 DEF Exceptions
  <2>2. v \notin INT_VECTOR_IRQ0 .. INT_VECTOR_IRQ0 + 15 /\ v # INT_VECTOR_SYS_CALL
    BY <2>1 DEF INT_VECTOR_IRQ0, INT_VECTOR_SYS_CALL
  <2> DEFINE dpl == IF v \in {3, 4} THEN 3 ELSE 0
  <2>3. IdtEntry(v) = Gate("exception", v, dpl)
    BY <1>2, <2>2, Zenon DEF IdtEntry
  <2> HIDE DEF dpl
  <2> QED BY <1>1, <1>2, <2>1, <2>3 DEF Gate
<1>3. CASE v \in 32 .. 47
  <2>1. v \notin Exceptions /\ v # 144 /\ v # INT_VECTOR_SYS_CALL /\ v \in INT_VECTOR_IRQ0 .. INT_VECTOR_IRQ0 + 15
    BY <1>3 DEF Exceptions, INT_VECTOR_IRQ0, INT_VECTOR_SYS_CALL
  <2>2. IdtEntry(v) = Gate("hwint", v - INT_VECTOR_IRQ0, 0)
    BY <2>1, Zenon DEF IdtEntry
  <2> QED BY <1>1, <1>3, <2>1, <2>2 DEF Gate, INT_VECTOR_IRQ0
<1>4. CASE v = 144
  <2>1. IdtEntry(v) = Gate("sys_call", 0, 3) /\ v \notin 32 .. 47 /\ v \notin Exceptions
    BY <1>4 DEF IdtEntry, Exceptions, INT_VECTOR_IRQ0, INT_VECTOR_SYS_CALL
  <2> QED BY <1>1, <1>4, <2>1 DEF Gate
<1>5. CASE v \notin Exceptions \cup 32 .. 47 \cup {144}
  <2>1. IdtEntry(v) = NoGate
    BY <1>5 DEF IdtEntry, INT_VECTOR_IRQ0, INT_VECTOR_SYS_CALL
  <2> QED BY <1>1, <1>5, <2>1 DEF NoGate, Gate
<1> QED BY <1>2, <1>3, <1>4, <1>5

-----------------------------------------------------------------------------
(* The way up.                                                             *)

\* The part of the invariant that no step before restart touches.
LEMMA OnTheWay ==
  ASSUME TrapsInv, NEW op, Step(op), op # "restart", main < 13,
         UNCHANGED <<tty, cpu, glitches, happened, reported>>, outcome' = "runs",
         PicTypeOK', TablesSoFar', HandlersSoFar', InService',
         main' > 2 => 7 \in imr'[MASTER],
         main' > 2 => \A irq \in Lines \ {7} : Masked(irq)' <=> ~OpenAt(main', tty', irq)
  PROVE  TrapsInv'
<1>1. main \in 1 .. 12 /\ main' = main + 1 /\ main' \in 1 .. 13
  BY StepIsAt DEF TrapsInv
<1>2. hwints = <<>> /\ hwints' = <<>> /\ ~insys /\ ~insys' /\ tty = "disable" /\ tty' = "disable" /\ ~iflag /\ ~iflag'
  BY <1>1 DEF TrapsInv, QuietBefore, IfMatchesRoutines, cpu
<1>3. 1 .. Len(hwints') = {}
  BY <1>2
<1>4. QuietBefore' /\ IfMatchesRoutines' /\ RightHandler' /\ Outcome'
  BY <1>1, <1>2, <1>3 DEF QuietBefore, IfMatchesRoutines, RightHandler, Outcome
<1>5. RoutinesOpen'
  BY <1>2, <1>3 DEF RoutinesOpen
<1>6. MasksMatchLines'
  BY <1>1, <1>3, OpenedIs DEF MasksMatchLines
<1>7. ReportsWhatHappened'
  BY DEF ReportsWhatHappened
<1> QED BY <1>1, <1>2, <1>4, <1>5, <1>6, <1>7 DEF TrapsInv, cpu

LEMMA CstartKeepsInv == ASSUME TrapsInv, Cstart PROVE TrapsInv'
<1>1. Step("cstart") /\ main = 1 /\ main' = 2 /\ outcome = "runs"
  BY StepIsAt DEF Cstart, TrapsInv
<1>2. TablesSoFar'
  BY <1>1 DEF Cstart, TrapsInv, TablesSoFar, NoLdts
<1>3. PicTypeOK' /\ HandlersSoFar' /\ InService'
  <2>1. UNCHANGED <<pic, cpu, tty>>
    BY DEF Cstart
  <2>2. HandlersSoFar'
    BY <1>1, <2>1 DEF TrapsInv, HandlersSoFar, HandlerOf, pic
  <2> QED BY <2>1, <2>2 DEF TrapsInv, PicTypeOK, InService, pic, chips, cpu
<1> QED BY <1>1, <1>2, <1>3, OnTheWay DEF Cstart, end

LEMMA InitGatesKeepsInv == ASSUME TrapsInv, InitGates PROVE TrapsInv'
<1>1. Step("gates") /\ main = 2 /\ main' = 3 /\ outcome = "runs" /\ tty' = "disable"
  BY StepIsAt DEF InitGates, TrapsInv, QuietBefore
<1>2. TablesSoFar'
  BY <1>1 DEF InitGates, TrapsInv, TablesSoFar, KernelIdt
<1>3. PicTypeOK' /\ InService' /\ \A c \in Chips : imr'[c] = AllBits
  BY DEF InitGates, init_8259A, PicTypeOK, InService, Chips, MASTER, SLAVE, Handlers
<1>4. HandlersSoFar'
  BY <1>1 DEF InitGates, init_8259A, HandlersSoFar, HandlerOf
<1>5. 7 \in imr'[MASTER] /\ \A irq \in Lines : Masked(irq)' /\ ~OpenAt(main', tty', irq)
  BY <1>1, <1>3, ChipsAndBits DEF Masked, OpenAt, AllBits, Chips, MASTER
<1> QED BY <1>1, <1>2, <1>3, <1>4, <1>5, OnTheWay DEF InitGates, end

\* Steps that leave the two chips and their table alone.
LEMMA PicAlone ==
  ASSUME TrapsInv, NEW op, Step(op), op \in {"descriptors", "load_tables", "ltr", "proc_table"},
         UNCHANGED <<pic, tty, cpu>>
  PROVE  /\ PicTypeOK' /\ HandlersSoFar' /\ InService'
         /\ main' > 2 => 7 \in imr'[MASTER]
         /\ main' > 2 => \A irq \in Lines \ {7} : Masked(irq)' <=> ~OpenAt(main', tty', irq)
<1>1. main \in {3, 4, 5, 10} /\ main' = main + 1
  BY StepIsAt DEF TrapsInv
<1>2. hwints = <<>> /\ 7 \in imr[MASTER] /\ 1 .. Len(hwints) = {}
  BY <1>1 DEF TrapsInv, QuietBefore
<1>3. \A irq \in Lines : OpenAt(main', tty', irq) <=> OpenAt(main, tty, irq)
  BY <1>1 DEF OpenAt
<1>4. \A irq \in Lines \ {7} : Masked(irq) <=> ~OpenAt(main, tty, irq)
  BY <1>1, <1>2, OpenedIs DEF TrapsInv, MasksMatchLines
<1>5. HandlersSoFar'
  BY <1>1 DEF TrapsInv, HandlersSoFar, HandlerOf, pic
<1> QED BY <1>2, <1>3, <1>4, <1>5 DEF TrapsInv, PicTypeOK, InService, Masked, pic, chips, cpu

LEMMA InitDescriptorsKeepsInv == ASSUME TrapsInv, InitDescriptors PROVE TrapsInv'
<1>1. Step("descriptors") /\ main = 3 /\ main' = 4 /\ outcome = "runs"
  BY StepIsAt DEF InitDescriptors, TrapsInv
<1>2. gdt = LoaderGdt
  BY <1>1 DEF TrapsInv, TablesSoFar
<1>3. gdt' = KernelGdt
  BY <1>2 DEF InitDescriptors, KernelGdt
<1>4. TablesSoFar'
  BY <1>1, <1>3 DEF InitDescriptors, TrapsInv, TablesSoFar
<1> QED BY <1>1, <1>4, PicAlone, OnTheWay DEF InitDescriptors, end

LEMMA LoadTablesKeepsInv == ASSUME TrapsInv, LoadTables PROVE TrapsInv'
<1>1. Step("load_tables") /\ main = 4 /\ main' = 5 /\ outcome = "runs"
  BY StepIsAt DEF LoadTables, TrapsInv
<1>2. gdt[INDEX_FLAT_C].type = "code"
  BY <1>1, FlatDescriptors DEF TrapsInv, TablesSoFar, Desc
<1>3. TablesSoFar'
  BY <1>1 DEF LoadTables, TrapsInv, TablesSoFar
<1> QED BY <1>1, <1>2, <1>3, PicAlone, OnTheWay DEF LoadTables

LEMMA LtrKeepsInv == ASSUME TrapsInv, Ltr PROVE TrapsInv'
<1>1. Step("ltr") /\ main = 5 /\ main' = 6 /\ outcome = "runs"
  BY StepIsAt DEF Ltr, TrapsInv
<1>2. Active(INDEX_TSS).type = "TSS"
  BY <1>1, FlatDescriptors DEF TrapsInv, TablesSoFar, Desc, Active
<1>3. TablesSoFar'
  BY <1>1 DEF Ltr, TrapsInv, TablesSoFar
<1> QED BY <1>1, <1>2, <1>3, PicAlone, OnTheWay DEF Ltr

LEMMA FillProcTableKeepsInv == ASSUME TrapsInv, FillProcTable PROVE TrapsInv'
<1>1. Step("proc_table") /\ main = 10 /\ main' = 11 /\ outcome = "runs"
  BY StepIsAt DEF FillProcTable, TrapsInv
<1>2. gdt[INDEX_FLAT_C] = Desc("code", 0, 0) /\ gdt[INDEX_FLAT_RW] = Desc("data", 0, 0)
  BY <1>1, FlatDescriptors DEF TrapsInv, TablesSoFar
<1>3. ldts' = KernelLdts
  BY <1>2 DEF FillProcTable, KernelLdts, Desc
<1>4. TablesSoFar'
  BY <1>1, <1>3 DEF FillProcTable, TrapsInv, TablesSoFar
<1> QED BY <1>1, <1>4, PicAlone, OnTheWay DEF FillProcTable, end

LEMMA PutIrqHandlerKeepsInv == ASSUME TrapsInv, PutIrqHandler PROVE TrapsInv'
<1> DEFINE irq == Steps[main].irq
           handler == Steps[main].handler
<1>1. Step("put") /\ main \in {6, 7, 11} /\ main' = main + 1 /\ outcome = "runs" /\ UNCHANGED tty
  BY StepIsAt DEF PutIrqHandler, TrapsInv
<1>2. /\ main = 6 => irq = 14 /\ handler = "pri_ide_handler"
      /\ main = 7 => irq = 15 /\ handler = "sec_ide_handler"
      /\ main = 11 => irq = 0 /\ handler = "clock_handler"
  BY StepsAre
<1>3. irq_table' = [irq_table EXCEPT ![irq] = handler] /\ disable_irq(irq)
  BY DEF PutIrqHandler
<1>4. irq \in Lines /\ handler \in Handlers
  BY <1>1, <1>2 DEF Lines, NR_IRQ, Handlers
<1> HIDE DEF irq, handler
<1>5. hwints = <<>> /\ tty = "disable" /\ 7 \in imr[MASTER] /\ 1 .. Len(hwints) = {}
  BY <1>1 DEF TrapsInv, QuietBefore
<1>6. \A l \in Lines \ {7} : Masked(l) <=> ~OpenAt(main, tty, l)
  BY <1>1, <1>5, OpenedIs DEF TrapsInv, MasksMatchLines
<1>7. BitOf(irq) \in imr[MASTER]
  <2>1. BitOf(irq) \in {0, 6, 7}
    BY <1>1, <1>2, <1>4, ChipsAndBits DEF Lines, NR_IRQ
  <2>2. main = 11 \/ BitOf(irq) # 0
    BY <1>1, <1>2, <1>4, ChipsAndBits
  <2>3. 6 \in imr[MASTER]
    BY <1>5, <1>6, ChipsAndBits DEF Masked, OpenAt, Lines, NR_IRQ
  <2>4. main = 11 => 0 \in imr[MASTER]
    BY <1>5, <1>6, ChipsAndBits DEF Masked, OpenAt, Lines, NR_IRQ
  <2> QED BY <1>5, <2>1, <2>2, <2>3, <2>4
<1>8. UNCHANGED chips
  BY <1>3, <1>7 DEF disable_irq, Disabled, chips
<1>9. \A l \in Lines : OpenAt(main', tty', l) <=> OpenAt(main, tty, l)
  BY <1>1 DEF OpenAt
<1>10. \A l \in Lines : Masked(l)' <=> Masked(l)
  BY <1>8 DEF Masked, chips
<1>11. HandlersSoFar'
  <2>1. irq_table = [l \in Lines |-> HandlerOf(l)]
    BY DEF TrapsInv, HandlersSoFar
  <2>2. \A l \in Lines : HandlerOf(l)' = IF l = irq THEN handler ELSE HandlerOf(l)
    BY <1>1, <1>2, <1>5 DEF HandlerOf
  <2> QED BY <1>3, <1>4, <2>1, <2>2 DEF HandlersSoFar
<1>12. PicTypeOK'
  BY <1>3, <1>4, <1>8 DEF TrapsInv, PicTypeOK, chips
<1>13. TablesSoFar'
  BY <1>1 DEF PutIrqHandler, TrapsInv, TablesSoFar
<1>14. InService'
  BY <1>8 DEF PutIrqHandler, TrapsInv, InService, chips, cpu
<1> QED BY <1>1, <1>5, <1>6, <1>8, <1>9, <1>10, <1>11, <1>12, <1>13, <1>14, OnTheWay DEF PutIrqHandler, end, chips

LEMMA EnableIrqKeepsInv == ASSUME TrapsInv, EnableIrq PROVE TrapsInv'
<1> DEFINE irq == Steps[main].irq
<1>1. Step("enable") /\ main \in {8, 9, 12} /\ main' = main + 1 /\ outcome = "runs" /\ UNCHANGED tty
  BY StepIsAt DEF EnableIrq, TrapsInv
<1>2. /\ main = 8 => irq = 14
      /\ main = 9 => irq = 15
      /\ main = 12 => irq = 0
  BY StepsAre
<1>3. imr' = [imr EXCEPT ![ChipOf(irq)] = @ \ {BitOf(irq)}] /\ UNCHANGED <<irr, isr, irq_table>>
  BY DEF EnableIrq, enable_irq, Enabled
<1>4. irq \in Lines
  BY <1>1, <1>2 DEF Lines, NR_IRQ
<1> HIDE DEF irq
<1>5. hwints = <<>> /\ tty = "disable" /\ 7 \in imr[MASTER] /\ 1 .. Len(hwints) = {}
  BY <1>1 DEF TrapsInv, QuietBefore
<1>6. \A l \in Lines \ {7} : Masked(l) <=> ~OpenAt(main, tty, l)
  BY <1>1, <1>5, OpenedIs DEF TrapsInv, MasksMatchLines
<1>7. PicTypeOK' /\ imr \in [Chips -> SUBSET AllBits]
  BY <1>3, <1>4, ChipsAndBits DEF TrapsInv, PicTypeOK
<1>8. \A l \in Lines : Masked(l)' <=> Masked(l) /\ l # irq
  BY <1>3, <1>4, <1>7, ChipsAndBits DEF Masked, Chips, MASTER, SLAVE, Lines, NR_IRQ
<1>9. \A l \in Lines : OpenAt(main', tty', l) <=> OpenAt(main, tty, l) \/ l = irq
  BY <1>1, <1>2, <1>5 DEF OpenAt
<1>10. 7 \in imr'[MASTER]
  BY <1>1, <1>2, <1>3, <1>4, <1>5, <1>7, ChipsAndBits DEF Chips, MASTER, SLAVE
<1>11. HandlersSoFar'
  BY <1>1, <1>3 DEF TrapsInv, HandlersSoFar, HandlerOf
<1>12. TablesSoFar'
  BY <1>1 DEF EnableIrq, TrapsInv, TablesSoFar
<1>13. InService'
  BY <1>3 DEF EnableIrq, TrapsInv, InService, cpu
<1> QED BY <1>1, <1>6, <1>7, <1>8, <1>9, <1>10, <1>11, <1>12, <1>13, OnTheWay DEF EnableIrq, end

LEMMA FirstRestartKeepsInv == ASSUME TrapsInv, FirstRestart PROVE TrapsInv'
<1>1. main = 13 /\ main' = 14 /\ outcome = "runs"
  BY StepIsAt DEF FirstRestart, TrapsInv
<1>2. hwints = <<>> /\ ~insys /\ tty = "disable" /\ 1 .. Len(hwints) = {}
  BY <1>1 DEF TrapsInv, QuietBefore
<1>3. 0 \in Procs
  BY TrapsAssumption DEF Procs
<1>4. outcome' = "runs" /\ iflag' = TRUE /\ current' = 0
  BY <1>1, <1>3, AllLoadable DEF FirstRestart, restart, TrapsInv
<1>5. TablesSoFar' /\ HandlersSoFar'
  BY <1>1 DEF FirstRestart, TrapsInv, TablesSoFar, HandlersSoFar, HandlerOf, pic
<1>6. MasksMatchLines'
  <2>1. \A irq \in Lines : OpenAt(main', tty', irq) <=> OpenAt(main, tty, irq)
    BY <1>1 DEF FirstRestart, OpenAt
  <2>2. \A irq \in Lines \ {7} : Masked(irq) <=> ~OpenAt(main, tty, irq)
    BY <1>1, <1>2, OpenedIs DEF TrapsInv, MasksMatchLines
  <2> QED BY <1>1, <1>2, <2>1, <2>2, OpenedIs DEF FirstRestart, MasksMatchLines, Masked, pic, chips
<1> QED BY <1>1, <1>2, <1>3, <1>4, <1>5, <1>6
        DEF FirstRestart, TrapsInv, PicTypeOK, QuietBefore, IfMatchesRoutines, RoutinesOpen, InService, Outcome,
            RightHandler, ReportsWhatHappened, pic, chips

-----------------------------------------------------------------------------
(* After the first restart.                                                *)

\* The tables that the CPU uses from then on.
LEMMA Up ==
  ASSUME TrapsInv, Running
  PROVE  /\ main = 14 /\ outcome = "runs" /\ idt = KernelIdt
         /\ gdtr = "kernel" /\ idtr = "kernel" /\ tr = "kernel"
BY StepsAre DEF TrapsInv, Running, TablesSoFar

\* The routines that are open, one by one.
LEMMA RoutinesAre ==
  ASSUME RoutinesOpen
  PROVE  /\ Len(hwints) \in Nat /\ (Len(hwints) = 0 <=> hwints = <<>>)
         /\ \A i \in 1 .. Len(hwints) :
              /\ hwints[i] \in HwInts
              /\ hwints[i].irq \in {0, 1, 7} /\ hwints[i].pc \in {"begin", "call", "end"}
<1>1. Len(hwints) \in Nat /\ (Len(hwints) = 0 <=> hwints = <<>>)
  BY LenProperties, EmptySeq DEF RoutinesOpen
<1>2. \A i \in 1 .. Len(hwints) : hwints[i] \in HwInts
  BY ElementOfSeq DEF RoutinesOpen
<1> QED BY <1>1, <1>2 DEF HwInts

\* With IF set every open routine is past its sti, and nothing is in service.
LEMMA IfSet ==
  ASSUME TrapsInv, iflag
  PROVE  /\ main = 14
         /\ \A i \in 1 .. Len(hwints) : hwints[i].pc # "begin"
         /\ isr[MASTER] = {} /\ isr[SLAVE] = {}
<1>1. main = 14 /\ (hwints = <<>> \/ hwints[Len(hwints)].pc # "begin")
  BY DEF TrapsInv, IfMatchesRoutines
<1>2. RoutinesOpen /\ InService
  BY DEF TrapsInv
<1>3. \A i \in 1 .. Len(hwints) : hwints[i].pc # "begin"
  BY <1>1, <1>2, RoutinesAre DEF RoutinesOpen
<1> QED BY <1>1, <1>2, <1>3 DEF InService

\* Which lines are masked then.
LEMMA MasksUp ==
  ASSUME TrapsInv, main = 14
  PROVE  \A irq \in Lines \ {7} :
           Masked(irq) <=> ~OpenAt(14, tty, irq) \/ \E i \in 1 .. Len(hwints) :
                                                     hwints[i].irq = irq /\ hwints[i].pc # "begin"
BY OpenedIs DEF TrapsInv, MasksMatchLines

\* Only a line that is enabled and whose routine is not open is acknowledged,
\* or line 7.
LEMMA AcknowledgedLines ==
  ASSUME TrapsInv, iflag, NEW irq, Acknowledge(irq)
  PROVE  /\ irq \in {0, 1, 7}
         /\ irq = 1 => tty = "loop"
         /\ irq # 7 => \A i \in 1 .. Len(hwints) : hwints[i].irq # irq
         /\ isr'[MASTER] = {irq} /\ isr'[SLAVE] = {}
         /\ PicTypeOK' /\ UNCHANGED <<imr, irq_table>>
<1> DEFINE m == Min(MasterRequests)
<1>1. PicTypeOK /\ main = 14 /\ isr[MASTER] = {} /\ isr[SLAVE] = {}
  BY IfSet DEF TrapsInv
<1>2. MasterRequests \in SUBSET AllBits /\ MasterRequests # {} /\ MasterRequests \cap imr[MASTER] = {}
  BY <1>1 DEF MasterRequests, LetThrough, PicTypeOK, Acknowledge, Chips, MASTER, SLAVE, CASCADE, AllBits
<1>3. m \in AllBits /\ m \notin imr[MASTER]
  BY <1>2, MinIsIn
<1>4. m \in Lines /\ ChipOf(m) = MASTER /\ BitOf(m) = m
  BY <1>3, ChipsAndBits DEF AllBits, Lines, NR_IRQ
<1>5. m # 7 => OpenAt(14, tty, m) /\ \A i \in 1 .. Len(hwints) : hwints[i].irq # m
  BY <1>1, <1>3, <1>4, MasksUp, IfSet DEF Masked
<1>6. m \in {0, 1, 7} /\ (m = 1 => tty = "loop")
  BY <1>3, <1>5 DEF OpenAt, AllBits
<1>7. m # CASCADE
  BY <1>6 DEF CASCADE
<1> HIDE DEF m
<1>8. /\ irq = m
      /\ isr' = [c \in Chips |-> isr[c] \cup IF c = MASTER THEN {m} ELSE {}]
      /\ irr' = [irr EXCEPT ![ChipOf(irq)] = @ \ {BitOf(irq)}]
      /\ UNCHANGED <<imr, irq_table>>
  BY <1>7 DEF Acknowledge, m
<1>9. isr'[MASTER] = {irq} /\ isr'[SLAVE] = {}
  BY <1>1, <1>8 DEF Chips, MASTER, SLAVE
<1>10. PicTypeOK'
  BY <1>1, <1>3, <1>4, <1>8 DEF PicTypeOK, Chips, MASTER, SLAVE
<1> QED BY <1>5, <1>6, <1>8, <1>9, <1>10

\* The gate of a line: its routine begins, with IF clear.
LEMMA EnterBegins ==
  ASSUME TrapsInv, Running, iflag, NEW irq \in {0, 1, 7}, Enter(irq), UNCHANGED <<main, tty>>,
         irq = 1 => tty = "loop",
         irq # 7 => \A i \in 1 .. Len(hwints) : hwints[i].irq # irq
  PROVE  /\ RoutinesOpen' /\ IfMatchesRoutines'
         /\ Len(hwints) \in Nat /\ Len(hwints') = Len(hwints) + 1 /\ hwints' # <<>>
         /\ \A i \in 1 .. Len(hwints) : hwints'[i] = hwints[i]
         /\ hwints'[Len(hwints')].irq = irq /\ hwints'[Len(hwints')].pc = "begin"
<1> DEFINE new == [irq |-> irq, pc |-> "begin", handler |-> "spurious_irq"]
<1>1. 32 + irq \in Vectors /\ 32 + irq \in 32 .. 47 /\ 32 + irq - 32 = irq
  BY DEF Vectors, INT_VECTOR_IRQ0
<1>2. idt[32 + irq].n = irq
  BY <1>1, Up, GatesAre
<1>3. hwints' = Append(hwints, new) /\ ~iflag'
  BY <1>2 DEF Enter, INT_VECTOR_IRQ0
<1>4. new \in HwInts /\ new.irq = irq /\ new.pc = "begin"
  BY DEF HwInts, Handlers
<1> HIDE DEF new
<1>5. RoutinesOpen /\ hwints \in Seq(HwInts) /\ Len(hwints) \in Nat
  BY RoutinesAre DEF TrapsInv, RoutinesOpen
<1>6. /\ hwints' \in Seq(HwInts) /\ hwints' # <<>> /\ Len(hwints') = Len(hwints) + 1
      /\ \A i \in 1 .. Len(hwints) : hwints'[i] = hwints[i]
      /\ hwints'[Len(hwints) + 1] = new
  BY <1>3, <1>4, <1>5, AppendProperties
<1>7. \A i \in 1 .. Len(hwints) : hwints[i].pc # "begin"
  BY IfSet
<1>8. \A i \in 1 .. Len(hwints') : i \in 1 .. Len(hwints) \/ i = Len(hwints) + 1
  BY <1>5, <1>6
<1>9. RoutinesOpen'
  <2> SUFFICES ASSUME NEW i \in 1 .. Len(hwints')
               PROVE  /\ hwints'[i].irq = 1 => tty' = "loop"
                      /\ i # Len(hwints') => hwints'[i].pc # "begin"
                      /\ \A j \in 1 .. Len(hwints') :
                           i # j /\ hwints'[i].irq = hwints'[j].irq => hwints'[i].irq = 7
    BY <1>6 DEF RoutinesOpen
  <2>1. CASE i \in 1 .. Len(hwints)
    BY <1>4, <1>5, <1>6, <1>7, <1>8, <2>1 DEF RoutinesOpen
  <2>2. CASE i = Len(hwints) + 1
    BY <1>4, <1>5, <1>6, <1>7, <1>8, <2>2 DEF RoutinesOpen
  <2> QED BY <1>8, <2>1, <2>2
<1>10. IfMatchesRoutines'
  BY <1>3, <1>4, <1>6 DEF IfMatchesRoutines
<1> QED BY <1>4, <1>5, <1>6, <1>9, <1>10

\* A routine that begins changes nothing of what the masks and the handlers
\* called so far depend on.
LEMMA BeginKeepsInv ==
  ASSUME TrapsInv, Running, iflag, NEW irq \in {0, 1, 7}, Enter(irq),
         irq = 1 => tty = "loop",
         irq # 7 => \A i \in 1 .. Len(hwints) : hwints[i].irq # irq,
         UNCHANGED <<boot, tty, current, insys, end, imr, irq_table>>,
         PicTypeOK', glitches' \in 0 .. MaxGlitches,
         isr'[SLAVE] = {}, isr'[MASTER] = {} \/ isr'[MASTER] = {irq}
  PROVE  TrapsInv'
<1>1. UNCHANGED <<main, tty, insys, imr, irq_table>> /\ main = 14 /\ outcome' = "runs"
  BY Up DEF boot, end
<1>2. /\ RoutinesOpen' /\ IfMatchesRoutines'
      /\ Len(hwints) \in Nat /\ Len(hwints') = Len(hwints) + 1 /\ hwints' # <<>>
      /\ \A i \in 1 .. Len(hwints) : hwints'[i] = hwints[i]
      /\ hwints'[Len(hwints')].irq = irq /\ hwints'[Len(hwints')].pc = "begin"
  BY <1>1, EnterBegins
<1>3. \A i \in 1 .. Len(hwints') : i \in 1 .. Len(hwints) \/ i = Len(hwints')
  BY <1>2
<1>4. 1 .. Len(hwints) \subseteq 1 .. Len(hwints')
  BY <1>2
<1>5. MasksMatchLines'
  <2> SUFFICES ASSUME NEW l \in Lines \ {7}
               PROVE  Masked(l)' <=> ~Opened(l)' \/ \E i \in 1 .. Len(hwints') :
                                                     hwints'[i].irq = l /\ hwints'[i].pc # "begin"
    BY DEF MasksMatchLines
  <2>1. Masked(l)' <=> Masked(l)
    BY <1>1 DEF Masked
  <2>2. Opened(l)' <=> OpenAt(14, tty, l)
    BY <1>1, OpenedIs
  <2>3. (\E i \in 1 .. Len(hwints') : hwints'[i].irq = l /\ hwints'[i].pc # "begin")
          <=> \E i \in 1 .. Len(hwints) : hwints[i].irq = l /\ hwints[i].pc # "begin"
    BY <1>2, <1>3, <1>4
  <2> QED BY <1>1, <2>1, <2>2, <2>3, MasksUp
<1>6. RightHandler'
  BY <1>2, <1>3 DEF TrapsInv, RightHandler
<1>7. TablesSoFar' /\ HandlersSoFar'
  BY <1>1 DEF TrapsInv, TablesSoFar, HandlersSoFar, HandlerOf, boot
<1>8. InService'
  BY <1>2 DEF InService
<1>9. iflag' \in BOOLEAN
  BY DEF Enter
<1> QED BY <1>1, <1>2, <1>5, <1>6, <1>7, <1>8, <1>9
        DEF TrapsInv, QuietBefore, Outcome, ReportsWhatHappened, end

LEMMA InterruptKeepsInv == ASSUME TrapsInv, NEW irq, Interrupt(irq) PROVE TrapsInv'
<1>1. Running /\ iflag /\ Acknowledge(irq) /\ Enter(irq)
      /\ UNCHANGED <<boot, tty, current, insys, glitches, end>>
  BY DEF Interrupt
<1>2. glitches' \in 0 .. MaxGlitches
  BY <1>1 DEF TrapsInv
<1> QED BY <1>1, <1>2, AcknowledgedLines, BeginKeepsInv

LEMMA GlitchKeepsInv == ASSUME TrapsInv, Glitch PROVE TrapsInv'
<1>1. Running /\ iflag /\ Enter(7) /\ UNCHANGED <<pic, boot, tty, current, insys, end>>
  BY DEF Glitch
<1>2. glitches' \in 0 .. MaxGlitches
  BY TrapsAssumption DEF Glitch, TrapsInv
<1>3. PicTypeOK' /\ isr'[MASTER] = {} /\ isr'[SLAVE] = {}
  BY <1>1, IfSet DEF TrapsInv, PicTypeOK, pic, chips
<1> QED BY <1>1, <1>2, <1>3, BeginKeepsInv DEF pic, chips

\* The innermost routine goes on to pc, with handler h called if it is past
\* the call.
LEMMA TopGoesOn ==
  ASSUME RoutinesOpen, hwints # <<>>, NEW e \in HwInts, e.irq = hwints[Len(hwints)].irq,
         e.pc # "begin", hwints' = [hwints EXCEPT ![Len(hwints)] = e], UNCHANGED tty
  PROVE  /\ RoutinesOpen' /\ hwints' # <<>>
         /\ Len(hwints) \in Nat \ {0} /\ Len(hwints') = Len(hwints)
         /\ \A i \in 1 .. Len(hwints) : hwints'[i] = IF i = Len(hwints) THEN e ELSE hwints[i]
<1>1. Len(hwints) \in Nat \ {0} /\ hwints \in Seq(HwInts)
  BY RoutinesAre DEF RoutinesOpen
<1>2. /\ hwints' \in Seq(HwInts) /\ Len(hwints') = Len(hwints)
      /\ \A i \in 1 .. Len(hwints) : hwints'[i] = IF i = Len(hwints) THEN e ELSE hwints[i]
  BY <1>1, ExceptSeq
<1>3. hwints' # <<>>
  BY <1>1, <1>2, EmptySeq
<1>4. \A i \in 1 .. Len(hwints) : hwints'[i].irq = hwints[i].irq /\ (i # Len(hwints) => hwints'[i].pc = hwints[i].pc)
  BY <1>2
<1>5. RoutinesOpen'
  <2> SUFFICES ASSUME NEW i \in 1 .. Len(hwints)
               PROVE  /\ hwints'[i].irq = 1 => tty' = "loop"
                      /\ i # Len(hwints) => hwints'[i].pc # "begin"
                      /\ \A j \in 1 .. Len(hwints) :
                           i # j /\ hwints'[i].irq = hwints'[j].irq => hwints'[i].irq = 7
    BY <1>2 DEF RoutinesOpen
  <2> QED BY <1>4 DEF RoutinesOpen
<1> QED BY <1>1, <1>2, <1>3, <1>5

LEMMA HwintBeginKeepsInv == ASSUME TrapsInv, HwintBegin PROVE TrapsInv'
<1> DEFINE n == Len(hwints)
           irq == hwints[n].irq
           e == [hwints[n] EXCEPT !.pc = "call"]
<1>1. /\ Running /\ hwints # <<>> /\ hwints[n].pc = "begin" /\ hwint_begin(irq) /\ iflag' = TRUE
      /\ hwints' = [hwints EXCEPT ![n] = e]
      /\ UNCHANGED <<boot, tty, current, insys, glitches, end>>
  BY DEF HwintBegin, TopIs, Top
<1>2. main = 14 /\ outcome = "runs" /\ RoutinesOpen /\ PicTypeOK /\ InService
  BY <1>1, Up DEF TrapsInv
<1>3. n \in Nat \ {0} /\ hwints[n] \in HwInts /\ irq \in {0, 1, 7}
  BY <1>1, <1>2, RoutinesAre
<1>4. e \in HwInts /\ e.irq = irq /\ e.pc = "call"
  BY <1>3 DEF HwInts
<1> HIDE DEF e
<1>5. /\ RoutinesOpen' /\ hwints' # <<>> /\ Len(hwints') = n
      /\ \A i \in 1 .. n : hwints'[i] = IF i = n THEN e ELSE hwints[i]
  BY <1>1, <1>2, <1>4, TopGoesOn
<1>6. irq \in Lines /\ ChipOf(irq) = MASTER /\ BitOf(irq) = irq /\ irq \in AllBits
  BY <1>3, ChipsAndBits DEF Lines, NR_IRQ, AllBits
<1>7. AfterEOI(MASTER) = {}
  <2>1. MASTER \in Chips /\ isr \in [Chips -> SUBSET AllBits] /\ (isr[MASTER] = {} \/ isr[MASTER] = {irq})
    BY <1>2 DEF InService, PicTypeOK, Chips
  <2> QED BY <1>6, <2>1, EOIEndsIt
<1>8. /\ imr' = [imr EXCEPT ![MASTER] = @ \cup {irq}]
      /\ isr' = [isr EXCEPT ![MASTER] = {}]
      /\ UNCHANGED <<irr, irq_table>>
  BY <1>1, <1>6, <1>7 DEF hwint_begin
<1>9. PicTypeOK' /\ InService'
  BY <1>2, <1>6, <1>8 DEF PicTypeOK, InService, Chips, MASTER, SLAVE
<1>10. IfMatchesRoutines'
  BY <1>1, <1>2, <1>3, <1>4, <1>5 DEF IfMatchesRoutines, boot
<1> HIDE DEF irq
<1>11. MasksMatchLines'
  <2> SUFFICES ASSUME NEW l \in Lines \ {7}
               PROVE  Masked(l)' <=> ~Opened(l)' \/ \E i \in 1 .. Len(hwints') :
                                                     hwints'[i].irq = l /\ hwints'[i].pc # "begin"
    BY DEF MasksMatchLines
  <2>1. Masked(l)' <=> Masked(l) \/ l = irq
    BY <1>2, <1>6, <1>8, ChipsAndBits DEF Masked, PicTypeOK, Chips, MASTER, SLAVE, Lines, NR_IRQ
  <2>2. Opened(l)' <=> OpenAt(14, tty, l)
    BY <1>1, <1>2, OpenedIs DEF boot
  <2>3. (\E i \in 1 .. Len(hwints') : hwints'[i].irq = l /\ hwints'[i].pc # "begin")
          <=> l = irq \/ \E i \in 1 .. n : hwints[i].irq = l /\ hwints[i].pc # "begin"
    <3>1. n \in 1 .. n /\ hwints[n].irq = irq /\ hwints'[n].irq = irq /\ hwints'[n].pc # "begin"
      BY <1>3, <1>4, <1>5 DEF irq
    <3>2. \A i \in 1 .. n : i # n => hwints'[i] = hwints[i]
      BY <1>5
    <3>3. \A i \in 1 .. n : (hwints'[i].irq = l /\ hwints'[i].pc # "begin")
                            <=> (i = n /\ l = irq) \/ (hwints[i].irq = l /\ hwints[i].pc # "begin")
      BY <1>1, <3>1, <3>2
    <3> QED BY <1>5, <3>1, <3>3
  <2> QED BY <1>2, <2>1, <2>2, <2>3, MasksUp
<1>12. RightHandler'
  BY <1>4, <1>5 DEF TrapsInv, RightHandler
<1>13. TablesSoFar' /\ HandlersSoFar'
  BY <1>1, <1>8 DEF TrapsInv, TablesSoFar, HandlersSoFar, HandlerOf, boot
<1> QED BY <1>1, <1>2, <1>5, <1>9, <1>10, <1>11, <1>12, <1>13
        DEF TrapsInv, QuietBefore, Outcome, ReportsWhatHappened, end, boot

LEMMA HwintCallKeepsInv == ASSUME TrapsInv, HwintCall PROVE TrapsInv'
<1> DEFINE n == Len(hwints)
           irq == hwints[n].irq
           e == [irq |-> irq, pc |-> "end", handler |-> irq_table[irq]]
<1>1. /\ Running /\ hwints # <<>> /\ hwints[n].pc = "call"
      /\ hwints' = [hwints EXCEPT ![n] = e]
      /\ UNCHANGED <<pic, boot, tty, current, insys, iflag, glitches, end>>
  BY DEF HwintCall, TopIs, Top
<1>2. main = 14 /\ outcome = "runs" /\ RoutinesOpen /\ PicTypeOK /\ InService
  BY <1>1, Up DEF TrapsInv
<1>3. n \in Nat \ {0} /\ hwints[n] \in HwInts /\ irq \in {0, 1, 7} /\ irq \in Lines
  BY <1>1, <1>2, RoutinesAre DEF Lines, NR_IRQ
<1>4. irq_table[irq] = CASE irq = 0 -> "clock_handler" [] irq = 1 -> "keyboard_handler" [] OTHER -> "spurious_irq"
  <2>1. irq = 1 => tty = "loop"
    BY <1>2, <1>3 DEF RoutinesOpen
  <2>2. irq_table[irq] = HandlerOf(irq)
    BY <1>3 DEF TrapsInv, HandlersSoFar
  <2> HIDE DEF irq
  <2> QED BY <1>2, <1>3, <2>1, <2>2 DEF HandlerOf
<1>5. e \in HwInts /\ e.irq = irq /\ e.pc = "end" /\ e.handler = irq_table[irq]
  <2>1. irq_table[irq] \in Handlers
    BY <1>2, <1>3 DEF PicTypeOK
  <2> QED BY <1>3, <2>1 DEF HwInts
<1> HIDE DEF e
<1>6. /\ RoutinesOpen' /\ hwints' # <<>> /\ Len(hwints') = n
      /\ \A i \in 1 .. n : hwints'[i] = IF i = n THEN e ELSE hwints[i]
  BY <1>1, <1>2, <1>5, TopGoesOn
<1>7. IfMatchesRoutines'
  <2>1. hwints'[Len(hwints')].pc # "begin"
    BY <1>3, <1>5, <1>6
  <2> QED BY <1>1, <1>2, <1>6, <2>1 DEF TrapsInv, IfMatchesRoutines, boot
<1>8. MasksMatchLines'
  <2> SUFFICES ASSUME NEW l \in Lines \ {7}
               PROVE  Masked(l)' <=> ~Opened(l)' \/ \E i \in 1 .. Len(hwints') :
                                                     hwints'[i].irq = l /\ hwints'[i].pc # "begin"
    BY DEF MasksMatchLines
  <2>1. Masked(l)' <=> Masked(l)
    BY <1>1 DEF Masked, pic, chips
  <2>2. Opened(l)' <=> OpenAt(14, tty, l)
    BY <1>1, <1>2, OpenedIs DEF boot
  <2>3. \A i \in 1 .. n : hwints'[i].irq = hwints[i].irq /\ (hwints'[i].pc # "begin" <=> hwints[i].pc # "begin")
    BY <1>1, <1>5, <1>6
  <2> QED BY <1>2, <1>6, <2>1, <2>2, <2>3, MasksUp
<1>9. RightHandler'
  <2> SUFFICES ASSUME NEW i \in 1 .. n, hwints'[i].pc = "end"
               PROVE  hwints'[i].handler = CASE hwints'[i].irq = 0 -> "clock_handler"
                                             [] hwints'[i].irq = 1 -> "keyboard_handler"
                                             [] OTHER -> "spurious_irq"
    BY <1>6 DEF RightHandler
  <2>1. CASE i = n
    BY <1>4, <1>5, <1>6, <2>1
  <2>2. CASE i # n
    BY <1>6, <2>2 DEF TrapsInv, RightHandler
  <2> QED BY <2>1, <2>2
<1>10. TablesSoFar' /\ HandlersSoFar'
  BY <1>1 DEF TrapsInv, TablesSoFar, HandlersSoFar, HandlerOf, boot, pic
<1>11. InService'
  BY <1>1, <1>2 DEF InService, pic, chips
<1> QED BY <1>1, <1>2, <1>6, <1>7, <1>8, <1>9, <1>10, <1>11
        DEF TrapsInv, PicTypeOK, QuietBefore, Outcome, ReportsWhatHappened, end, boot, pic, chips

\* The innermost routine is gone.
LEMMA TopReturns ==
  ASSUME RoutinesOpen, hwints # <<>>, hwints' = SubSeq(hwints, 1, Len(hwints) - 1), UNCHANGED tty
  PROVE  /\ RoutinesOpen'
         /\ Len(hwints) \in Nat \ {0} /\ Len(hwints') = Len(hwints) - 1
         /\ \A i \in 1 .. Len(hwints) - 1 : hwints'[i] = hwints[i]
         /\ hwints' = <<>> \/ hwints'[Len(hwints')].pc # "begin"
<1> DEFINE n == Len(hwints)
<1>1. n \in Nat \ {0} /\ \A i \in 1 .. n - 1 : hwints[i] \in HwInts
  BY RoutinesAre
<1>2. n - 1 \in Int /\ 1 \in Int
  BY <1>1
<1>3. /\ hwints' \in Seq(HwInts)
      /\ Len(hwints') = IF 1 <= n - 1 THEN (n - 1) - 1 + 1 ELSE 0
      /\ \A i \in 1 .. (n - 1) - 1 + 1 : hwints'[i] = hwints[1 + i - 1]
  BY <1>1, <1>2, SubSeqProperties
<1>4. Len(hwints') = n - 1
  <2> HIDE DEF n
  <2> QED BY <1>1, <1>3
<1>5. \A i \in 1 .. n - 1 : i \in 1 .. (n - 1) - 1 + 1 /\ 1 + i - 1 = i
  BY <1>1
<1>6. \A i \in 1 .. n - 1 : hwints'[i] = hwints[i]
  BY <1>3, <1>5
<1>7. \A i \in 1 .. n - 1 : i \in 1 .. n /\ i # n
  BY <1>1
<1>8. RoutinesOpen'
  <2> SUFFICES ASSUME NEW i \in 1 .. n - 1
               PROVE  /\ hwints'[i].irq = 1 => tty' = "loop"
                      /\ i # n - 1 => hwints'[i].pc # "begin"
                      /\ \A j \in 1 .. n - 1 :
                           i # j /\ hwints'[i].irq = hwints'[j].irq => hwints'[i].irq = 7
    BY <1>3, <1>4 DEF RoutinesOpen
  <2> QED BY <1>6, <1>7 DEF RoutinesOpen
<1>9. hwints' = <<>> \/ hwints'[Len(hwints')].pc # "begin"
  <2>1. CASE n - 1 = 0
    BY <1>3, <1>4, <2>1, EmptySeq
  <2>2. CASE n - 1 # 0
    <3>1. n - 1 \in 1 .. n - 1
      <4>1. n \in Nat \ {0}
        BY <1>1
      <4> HIDE DEF n
      <4> QED BY <4>1, <2>2
    <3> QED BY <1>4, <1>6, <1>7, <3>1 DEF RoutinesOpen
  <2> QED BY <2>1, <2>2
<1> QED BY <1>1, <1>4, <1>6, <1>8, <1>9

LEMMA HwintEndKeepsInv == ASSUME TrapsInv, HwintEnd PROVE TrapsInv'
<1> DEFINE n == Len(hwints)
           irq == hwints[n].irq
<1>1. /\ Running /\ hwints # <<>> /\ hwints[n].pc = "end" /\ hwint_end(irq)
      /\ hwints' = SubSeq(hwints, 1, n - 1)
      /\ UNCHANGED <<boot, tty, insys, glitches, happened, reported>>
  BY DEF HwintEnd, TopIs, Top
<1>2. main = 14 /\ outcome = "runs" /\ RoutinesOpen /\ PicTypeOK /\ InService /\ current \in Procs /\ UNCHANGED main
  BY <1>1, Up DEF TrapsInv, boot
<1>3. n \in Nat \ {0} /\ hwints[n] \in HwInts /\ irq \in {0, 1, 7}
  BY <1>1, <1>2, RoutinesAre
<1>4. iflag' = TRUE /\ outcome' = "runs" /\ current' \in Procs
  <2>1. CASE hwints' = <<>> /\ ~insys
    <3>1. PICK p \in IF Top.irq = 0 THEN Procs ELSE {current} : restart(p)
      BY <2>1 DEF HwintEnd
    <3>2. p \in Procs
      BY <1>2, <3>1
    <3> QED BY <1>2, <3>1, <3>2, AllLoadable DEF restart, TrapsInv
  <2>2. CASE ~(hwints' = <<>> /\ ~insys)
    BY <1>2, <2>2 DEF HwintEnd
  <2> QED BY <2>1, <2>2
<1>5. /\ RoutinesOpen' /\ Len(hwints') = n - 1
      /\ \A i \in 1 .. n - 1 : hwints'[i] = hwints[i]
      /\ hwints' = <<>> \/ hwints'[Len(hwints')].pc # "begin"
  BY <1>1, <1>2, TopReturns
<1>6. irq \in Lines /\ ChipOf(irq) = MASTER /\ BitOf(irq) = irq /\ irq \in AllBits
  BY <1>3, ChipsAndBits DEF Lines, NR_IRQ, AllBits
<1>7. imr' = [imr EXCEPT ![MASTER] = @ \ {irq}] /\ UNCHANGED <<irr, isr, irq_table>>
  BY <1>1, <1>6 DEF hwint_end
<1>8. PicTypeOK'
  BY <1>2, <1>6, <1>7 DEF PicTypeOK, Chips, MASTER, SLAVE
<1>9. InService'
  BY <1>1, <1>2, <1>7 DEF InService
<1>10. IfMatchesRoutines'
  BY <1>2, <1>4, <1>5 DEF IfMatchesRoutines
<1>11. irq = 1 => tty = "loop"
  BY <1>2, <1>3 DEF RoutinesOpen
<1>12. \A i \in 1 .. n - 1 : irq # 7 => hwints[i].irq # irq
  BY <1>2, <1>3 DEF RoutinesOpen
<1> HIDE DEF irq
<1>13. MasksMatchLines'
  <2> SUFFICES ASSUME NEW l \in Lines \ {7}
               PROVE  Masked(l)' <=> ~Opened(l)' \/ \E i \in 1 .. Len(hwints') :
                                                     hwints'[i].irq = l /\ hwints'[i].pc # "begin"
    BY DEF MasksMatchLines
  <2>1. Masked(l)' <=> Masked(l) /\ l # irq
    BY <1>2, <1>6, <1>7, ChipsAndBits DEF Masked, PicTypeOK, Chips, MASTER, SLAVE, Lines, NR_IRQ
  <2>2. Opened(l)' <=> OpenAt(14, tty, l)
    BY <1>1, <1>2, OpenedIs
  <2>3. (\E i \in 1 .. Len(hwints') : hwints'[i].irq = l /\ hwints'[i].pc # "begin")
          <=> \E i \in 1 .. n - 1 : hwints[i].irq = l /\ hwints[i].pc # "begin"
    BY <1>5
  <2>4. Masked(l) <=> ~OpenAt(14, tty, l) \/ \E i \in 1 .. n : hwints[i].irq = l /\ hwints[i].pc # "begin"
    BY <1>2, MasksUp
  <2>5. CASE l = irq
    <3>1. OpenAt(14, tty, l)
      BY <1>3, <1>11, <2>5 DEF OpenAt, irq
    <3> QED BY <1>12, <2>1, <2>2, <2>3, <2>5, <3>1
  <2>6. CASE l # irq
    <3>1. \A i \in 1 .. n : i \in 1 .. n - 1 \/ i = n
      BY <1>3
    <3>2. 1 .. n - 1 \subseteq 1 .. n
      BY <1>3
    <3>3. hwints[n].irq # l
      BY <2>6 DEF irq
    <3> QED BY <2>1, <2>2, <2>3, <2>4, <2>6, <3>1, <3>2, <3>3
  <2> QED BY <2>5, <2>6
<1>14. RightHandler'
  <2>1. 1 .. n - 1 \subseteq 1 .. n
    BY <1>3
  <2> QED BY <1>5, <2>1 DEF TrapsInv, RightHandler
<1>15. TablesSoFar' /\ HandlersSoFar'
  BY <1>1, <1>7 DEF TrapsInv, TablesSoFar, HandlersSoFar, HandlerOf, boot
<1> QED BY <1>1, <1>2, <1>4, <1>5, <1>8, <1>9, <1>10, <1>13, <1>14, <1>15
        DEF TrapsInv, QuietBefore, Outcome, ReportsWhatHappened

\* A device may raise its line at any time.
LEMMA DeviceRaisesKeepsInv == ASSUME TrapsInv, NEW irq \in Wired, DeviceRaises(irq) PROVE TrapsInv'
<1>1. irq \in Lines /\ irr' = [irr EXCEPT ![ChipOf(irq)] = @ \cup {BitOf(irq)}]
      /\ UNCHANGED <<imr, isr, irq_table, boot, tty, cpu, glitches, end>>
  BY TrapsAssumption DEF DeviceRaises, Raise
<1>2. PicTypeOK'
  BY <1>1, ChipsAndBits DEF TrapsInv, PicTypeOK
<1>3. MasksMatchLines'
  BY <1>1 DEF TrapsInv, MasksMatchLines, Masked, Opened, boot, cpu
<1>4. TablesSoFar' /\ HandlersSoFar'
  BY <1>1 DEF TrapsInv, TablesSoFar, HandlersSoFar, HandlerOf, boot
<1>5. QuietBefore' /\ IfMatchesRoutines' /\ RoutinesOpen' /\ InService'
  BY <1>1 DEF TrapsInv, QuietBefore, IfMatchesRoutines, RoutinesOpen, InService, boot, cpu, end
<1>6. RightHandler' /\ ReportsWhatHappened' /\ Outcome'
  BY <1>1 DEF TrapsInv, RightHandler, ReportsWhatHappened, Outcome, cpu, end
<1> QED BY <1>1, <1>2, <1>3, <1>4, <1>5, <1>6 DEF TrapsInv, boot, cpu, end

\* An exception, and an int instruction, leave the chips alone; the machine
\* goes on, or halts with a report.
LEMMA SoftwareKeepsInv ==
  ASSUME TrapsInv, Running, UNCHANGED <<pic, boot, tty, current, hwints, glitches>>,
         insys' \in BOOLEAN, iflag' <=> iflag, iflag' \in BOOLEAN,
         \/ outcome' = "runs" /\ UNCHANGED <<happened, reported>>
         \/ outcome' = "halted" /\ reported' = happened' /\ happened' \in Reports
  PROVE  TrapsInv'
<1>1. main = 14 /\ outcome = "runs"
  BY Up
<1>2. PicTypeOK' /\ MasksMatchLines'
  BY DEF TrapsInv, PicTypeOK, MasksMatchLines, Masked, Opened, pic, chips, boot
<1>3. TablesSoFar' /\ HandlersSoFar'
  BY DEF TrapsInv, TablesSoFar, HandlersSoFar, HandlerOf, pic, boot
<1>4. QuietBefore' /\ IfMatchesRoutines'
  BY <1>1 DEF TrapsInv, QuietBefore, IfMatchesRoutines, boot
<1>5. RoutinesOpen' /\ InService' /\ RightHandler'
  BY DEF TrapsInv, RoutinesOpen, InService, RightHandler, pic, chips
<1>6. ReportsWhatHappened' /\ Outcome'
  BY <1>1 DEF TrapsInv, ReportsWhatHappened, Outcome
<1> QED BY <1>1, <1>2, <1>3, <1>4, <1>5, <1>6 DEF TrapsInv, boot

LEMMA ExceptionKeepsInv ==
  ASSUME TrapsInv, NEW v \in Exceptions, NEW err \in {0, 1}, Exception(v, err)
  PROVE  TrapsInv'
<1>1. Running /\ UNCHANGED <<pic, boot, tty, cpu, glitches>>
  BY DEF Exception
<1>2. v \in Vectors
  BY DEF Vectors
<1>3. idt[v].handler = "exception" /\ idt[v].n = v
  BY <1>1, <1>2, Up, GatesAre
<1>4. Halt(v, v, err)
  BY <1>1, <1>3, Up DEF Exception
<1>5. outcome' = "halted" /\ reported' = happened' /\ happened' \in Reports
  BY <1>4, HaltReports
<1>6. UNCHANGED <<current, hwints, insys, iflag>> /\ insys' \in BOOLEAN /\ iflag' \in BOOLEAN
  BY <1>1 DEF TrapsInv, cpu
<1> QED BY <1>1, <1>5, <1>6, SoftwareKeepsInv

LEMMA SoftIntKeepsInv == ASSUME TrapsInv, NEW v \in SoftVectors, SoftInt(v) PROVE TrapsInv'
<1> DEFINE g == idt[v]
           admitted == g.handler # "none" /\ g.dpl >= CPL
<1>1. /\ Running /\ hwints = <<>> /\ UNCHANGED <<pic, boot, tty, current, glitches>>
      /\ insys' = (admitted /\ g.handler = "sys_call")
      /\ hwints' = IF admitted /\ g.handler = "hwint"
                   THEN <<[irq |-> g.n, pc |-> "begin", handler |-> "spurious_irq"]>> ELSE <<>>
      /\ iflag' = IF hwints' = <<>> THEN iflag ELSE FALSE
      /\ IF admitted /\ g.handler # "exception" THEN UNCHANGED end
         ELSE IF admitted THEN Halt(v, g.n, 0)
         ELSE Halt(13, idt[13].n, 8 * v + 2)
  BY DEF SoftInt, InProcess
<1>2. CPL \in {1, 3}
  BY DEF SoftInt, CPL, Privilege
<1>3. v \in Vectors /\ 13 \in Vectors /\ v \in Nat /\ 13 \in Exceptions
  BY TrapsAssumption DEF Vectors, Exceptions
<1>4. idt[13].n = 13
  BY <1>1, <1>3, Up, GatesAre
<1>5. /\ g.handler \in {"exception", "hwint", "sys_call", "none"}
      /\ g.handler = "hwint" => g.dpl = 0
      /\ g.handler = "exception" => v \in Exceptions /\ g.n = v
  <2>1. idt = KernelIdt
    BY <1>1, Up
  <2> QED BY <1>3, <2>1, GatesAre
<1> HIDE DEF g
<1>6. ~(admitted /\ g.handler = "hwint")
  BY <1>2, <1>5
<1>7. hwints' = hwints /\ iflag' = iflag /\ insys' \in BOOLEAN /\ iflag' \in BOOLEAN
  BY <1>1, <1>6 DEF TrapsInv
<1>8. \/ outcome' = "runs" /\ UNCHANGED <<happened, reported>>
      \/ outcome' = "halted" /\ reported' = happened' /\ happened' \in Reports
  <2>1. CASE admitted /\ g.handler # "exception"
    <3>1. UNCHANGED end /\ outcome = "runs"
      BY <1>1, <2>1, Up
    <3> QED BY <3>1 DEF end
  <2>2. CASE admitted /\ g.handler = "exception"
    <3>1. v \in Exceptions /\ Halt(v, v, 0)
      BY <1>1, <1>5, <2>2
    <3> QED BY <3>1, HaltReports
  <2>3. CASE ~admitted
    <3>1. Halt(13, 13, 8 * v + 2) /\ 8 * v + 2 \in Int
      BY <1>1, <1>3, <1>4, <2>3
    <3> QED BY <1>3, <3>1, HaltReports
  <2> QED BY <2>1, <2>2, <2>3
<1> QED BY <1>1, <1>7, <1>8, SoftwareKeepsInv

LEMMA SysReturnKeepsInv == ASSUME TrapsInv, SysReturn PROVE TrapsInv'
<1>1. /\ Running /\ hwints = <<>> /\ insys' = FALSE /\ restart(current)
      /\ UNCHANGED <<pic, boot, tty, hwints, glitches, happened, reported>>
  BY DEF SysReturn
<1>2. main = 14 /\ current \in Procs /\ TablesSoFar
  BY <1>1, Up DEF TrapsInv
<1>3. outcome' = "runs" /\ iflag' = TRUE /\ current' = current
  BY <1>1, <1>2, AllLoadable DEF restart
<1>4. iflag
  BY <1>1, <1>2 DEF TrapsInv, IfMatchesRoutines
<1> QED BY <1>1, <1>3, <1>4, SoftwareKeepsInv

\* init_keyboard: its line is masked until its handler is in the table.
LEMMA InitKeyboardKeepsInv == ASSUME TrapsInv, InitKeyboard PROVE TrapsInv'
<1>1. UNCHANGED <<boot, cpu, glitches, end>> /\ InProcess
  BY DEF InitKeyboard, TtyStep
<1>2. hwints = <<>> /\ 1 .. Len(hwints) = {} /\ main = 14 /\ PicTypeOK
  BY <1>1, Up DEF InProcess, TrapsInv
<1>3. UNCHANGED <<hwints, main, insys, iflag, current, outcome, happened, reported, gdt, idt, gdtr, idtr, tr, ldts>>
  BY <1>1 DEF boot, cpu, end
<1>4. 1 \in Lines /\ ChipOf(1) = MASTER /\ BitOf(1) = 1
  BY ChipsAndBits DEF Lines, NR_IRQ
<1>5. \A l \in Lines \ {7} : Masked(l) <=> ~OpenAt(14, tty, l)
  BY <1>2, MasksUp
<1>6. /\ UNCHANGED <<irr, isr>> /\ PicTypeOK' /\ HandlersSoFar'
      /\ \A l \in Lines \ {7} : Masked(l)' <=> ~OpenAt(14, tty', l)
      /\ tty' \in {"disable", "store", "enable", "loop"}
  <2>1. CASE TtyStep("disable", "store") /\ disable_irq(1) /\ UNCHANGED irq_table
    <3>1. tty = "disable" /\ tty' = "store"
      BY <2>1 DEF TtyStep
    <3>2. 1 \in imr[MASTER]
      BY <1>4, <1>5, <3>1 DEF Masked, OpenAt
    <3>3. UNCHANGED chips
      BY <1>4, <2>1, <3>2 DEF disable_irq, Disabled, chips
    <3>4. \A l \in Lines : OpenAt(14, tty', l) <=> OpenAt(14, tty, l)
      BY <3>1 DEF OpenAt
    <3>5. HandlersSoFar'
      BY <1>3, <2>1, <3>1 DEF TrapsInv, HandlersSoFar, HandlerOf
    <3> QED BY <1>2, <1>5, <2>1, <3>1, <3>3, <3>4, <3>5 DEF PicTypeOK, Masked, chips
  <2>2. CASE TtyStep("store", "enable") /\ irq_table' = [irq_table EXCEPT ![1] = "keyboard_handler"] /\ UNCHANGED chips
    <3>1. tty = "store" /\ tty' = "enable"
      BY <2>2 DEF TtyStep
    <3>2. \A l \in Lines : OpenAt(14, tty', l) <=> OpenAt(14, tty, l)
      BY <3>1 DEF OpenAt
    <3>3. \A l \in Lines : HandlerOf(l)' = IF l = 1 THEN "keyboard_handler" ELSE HandlerOf(l)
      BY <1>3, <3>1 DEF HandlerOf
    <3>4. HandlersSoFar'
      BY <2>2, <3>3 DEF TrapsInv, HandlersSoFar
    <3>5. PicTypeOK'
      BY <1>2, <2>2 DEF PicTypeOK, chips, Handlers
    <3> QED BY <1>5, <2>2, <3>1, <3>2, <3>4, <3>5 DEF Masked, chips
  <2>3. CASE TtyStep("enable", "loop") /\ enable_irq(1) /\ UNCHANGED irq_table
    <3>1. tty = "enable" /\ tty' = "loop"
      BY <2>3 DEF TtyStep
    <3>2. imr' = [imr EXCEPT ![MASTER] = @ \ {1}] /\ UNCHANGED <<irr, isr>>
      BY <1>4, <2>3 DEF enable_irq, Enabled
    <3>3. PicTypeOK'
      BY <1>2, <2>3, <3>2 DEF PicTypeOK, Chips, MASTER, SLAVE
    <3>4. \A l \in Lines : Masked(l)' <=> Masked(l) /\ l # 1
      BY <1>2, <3>2, ChipsAndBits DEF Masked, PicTypeOK, Chips, MASTER, SLAVE, Lines, NR_IRQ
    <3>5. \A l \in Lines : OpenAt(14, tty', l) <=> OpenAt(14, tty, l) \/ l = 1
      BY <3>1 DEF OpenAt
    <3>6. HandlersSoFar'
      BY <1>3, <2>3, <3>1 DEF TrapsInv, HandlersSoFar, HandlerOf
    <3> QED BY <1>5, <3>1, <3>2, <3>3, <3>4, <3>5, <3>6
  <2> QED BY <2>1, <2>2, <2>3 DEF InitKeyboard
<1>7. MasksMatchLines'
  BY <1>2, <1>3, <1>6, OpenedIs DEF MasksMatchLines
<1>8. TablesSoFar'
  BY <1>3 DEF TrapsInv, TablesSoFar
<1>9. QuietBefore' /\ IfMatchesRoutines' /\ InService' /\ RightHandler'
  BY <1>2, <1>3, <1>6 DEF TrapsInv, QuietBefore, IfMatchesRoutines, InService, RightHandler
<1>10. RoutinesOpen'
  BY <1>2, <1>3 DEF TrapsInv, RoutinesOpen
<1> QED BY <1>1, <1>3, <1>6, <1>7, <1>8, <1>9, <1>10 DEF TrapsInv, Outcome, ReportsWhatHappened

-----------------------------------------------------------------------------
(* The theorems.                                                           *)

LEMMA InitInv == Init => TrapsInv
<1> SUFFICES ASSUME Init PROVE TrapsInv
  OBVIOUS
<1>1. PicTypeOK /\ InService
  BY DEF Init, PicTypeOK, InService, Chips, MASTER, SLAVE, AllBits, Handlers
<1>2. TablesSoFar
  BY DEF Init, TablesSoFar, NoLdts
<1>3. HandlersSoFar
  BY DEF Init, HandlersSoFar, HandlerOf
<1>4. hwints = <<>> /\ 1 .. Len(hwints) = {} /\ main = 1
  BY DEF Init
<1>5. RoutinesOpen /\ RightHandler /\ MasksMatchLines /\ QuietBefore /\ IfMatchesRoutines
  BY <1>4 DEF Init, RoutinesOpen, RightHandler, MasksMatchLines, QuietBefore, IfMatchesRoutines
<1>6. current \in Procs /\ glitches \in 0 .. MaxGlitches
  BY TrapsAssumption DEF Init, Procs
<1>7. NoReport \in Reports
  BY DEF NoReport, Reports
<1>8. /\ tty \in {"disable", "store", "enable", "loop"} /\ main \in 1 .. 14
      /\ insys \in BOOLEAN /\ iflag \in BOOLEAN
  <2>1. tty \in {"disable", "store", "enable", "loop"} /\ main \in 1 .. 14
    BY DEF Init
  <2>2. insys \in BOOLEAN /\ iflag \in BOOLEAN
    BY Zenon DEF Init
  <2> QED BY <2>1, <2>2
<1>9. Outcome /\ ReportsWhatHappened
  BY DEF Init, Outcome, ReportsWhatHappened
<1>10. happened \in Reports /\ reported \in Reports
  BY <1>7 DEF Init
<1> QED BY <1>1, <1>2, <1>3, <1>5, <1>6, <1>8, <1>9, <1>10 DEF TrapsInv

LEMMA NextKeepsInv == TrapsInv /\ [Next]_vars => TrapsInv'
<1> SUFFICES ASSUME TrapsInv, [Next]_vars PROVE TrapsInv'
  OBVIOUS
<1>1. CASE Boot
  BY <1>1, CstartKeepsInv, InitGatesKeepsInv, InitDescriptorsKeepsInv, LoadTablesKeepsInv, LtrKeepsInv,
     PutIrqHandlerKeepsInv, EnableIrqKeepsInv, FillProcTableKeepsInv, FirstRestartKeepsInv DEF Boot
<1>2. CASE \E irq \in Wired : DeviceRaises(irq) \/ Interrupt(irq)
  BY <1>2, DeviceRaisesKeepsInv, InterruptKeepsInv
<1>3. CASE Glitch \/ HwintBegin \/ HwintCall \/ HwintEnd
  BY <1>3, GlitchKeepsInv, HwintBeginKeepsInv, HwintCallKeepsInv, HwintEndKeepsInv
<1>4. CASE InitKeyboard \/ SysReturn
  BY <1>4, InitKeyboardKeepsInv, SysReturnKeepsInv
<1>5. CASE \E v \in SoftVectors : SoftInt(v)
  BY <1>5, SoftIntKeepsInv
<1>6. CASE \E v \in Exceptions, err \in {0, 1} : Exception(v, err)
  BY <1>6, ExceptionKeepsInv
<1>7. CASE UNCHANGED vars
  <2>1. UNCHANGED <<irr, imr, isr, irq_table, main, tty, gdt, idt, gdtr, idtr, tr, ldts, current, insys,
                    hwints, iflag, glitches, outcome, happened, reported>>
    BY <1>7 DEF vars, pic, chips, boot, cpu, end
  <2>2. PicTypeOK' /\ MasksMatchLines'
    BY <2>1 DEF TrapsInv, PicTypeOK, MasksMatchLines, Masked, Opened
  <2>3. TablesSoFar' /\ HandlersSoFar'
    BY <2>1 DEF TrapsInv, TablesSoFar, HandlersSoFar, HandlerOf
  <2>4. QuietBefore' /\ IfMatchesRoutines' /\ RoutinesOpen' /\ InService'
    BY <2>1 DEF TrapsInv, QuietBefore, IfMatchesRoutines, RoutinesOpen, InService
  <2>5. RightHandler' /\ ReportsWhatHappened' /\ Outcome'
    BY <2>1 DEF TrapsInv, RightHandler, ReportsWhatHappened, Outcome
  <2> QED BY <2>1, <2>2, <2>3, <2>4, <2>5 DEF TrapsInv
<1> QED BY <1>1, <1>2, <1>3, <1>4, <1>5, <1>6, <1>7 DEF Next

\* The inductive invariant says all that the invariants of the runs do.
LEMMA InvImplies == TrapsInv => PicInv /\ NoBadDescriptor /\ RightHandler /\ ReportsWhatHappened
<1> SUFFICES ASSUME TrapsInv PROVE PicInv /\ NoBadDescriptor
  BY DEF TrapsInv
<1>1. \A t \in {"code", "data", "TSS", "LDT", "none"}, d \in 0 .. 3, o \in Nat : Desc(t, d, o) \in Descs
  BY DEF Desc, Descs
<1>2. Absent \in Descs /\ \A i \in Indices : LoaderGdt[i] \in Descs
  <2>1. \A i \in Indices : LoaderGdt[i] \in {Desc("code", 0, 0), Desc("data", 0, 0), Desc("data", 3, 0), Absent}
    BY DEF LoaderGdt, INDEX_FLAT_C, INDEX_FLAT_RW, INDEX_VIDEO
  <2>2. Absent = Desc("none", 0, 0)
    BY DEF Absent
  <2> QED BY <1>1, <2>1, <2>2
<1>3. \A i \in Indices : KernelGdt[i] \in Descs
  <2> SUFFICES ASSUME NEW i \in Indices PROVE KernelGdt[i] \in Descs
    OBVIOUS
  <2>1. i \in Nat
    BY TrapsAssumption DEF Indices
  <2>2. CASE i = INDEX_TSS
    BY <1>1, <2>2, FlatDescriptors
  <2>3. CASE i # INDEX_TSS /\ i \in INDEX_LDT_FIRST .. INDEX_LDT_FIRST + NR_TASKS + NR_PROCS - 1
    <3>1. KernelGdt[i] = Desc("LDT", 0, i - INDEX_LDT_FIRST)
      BY <2>3 DEF KernelGdt
    <3>2. i - INDEX_LDT_FIRST \in Nat
      BY <2>1, <2>3, TrapsAssumption DEF INDEX_LDT_FIRST
    <3> QED BY <1>1, <3>1, <3>2
  <2>4. CASE i # INDEX_TSS /\ i \notin INDEX_LDT_FIRST .. INDEX_LDT_FIRST + NR_TASKS + NR_PROCS - 1
    <3>1. KernelGdt[i] = LoaderGdt[i]
      BY <2>4 DEF KernelGdt
    <3> QED BY <1>2, <3>1
  <2> QED BY <2>2, <2>3, <2>4
<1>4. \A i \in Indices : gdt[i] \in Descs
  BY <1>2, <1>3 DEF TrapsInv, TablesSoFar
<1>5. \A v \in Vectors : idt[v] \in Gates
  <2> SUFFICES ASSUME NEW v \in Vectors PROVE idt[v] \in Gates
    OBVIOUS
  <2>1. v \in Nat
    BY TrapsAssumption DEF Vectors, Exceptions, INT_VECTOR_IRQ0, INT_VECTOR_SYS_CALL
  <2>2. \A h \in {"exception", "hwint", "sys_call", "none"}, n \in Nat, d \in 0 .. 3 : Gate(h, n, d) \in Gates
    BY DEF Gate, Gates
  <2>3. NoGate \in Gates
    BY <2>2 DEF NoGate
  <2>4. IdtEntry(v) \in Gates
    <3>1. IdtEntry(v) \in {Gate("exception", v, IF v \in {3, 4} THEN 3 ELSE 0), Gate("hwint", v - INT_VECTOR_IRQ0, 0),
                          Gate("sys_call", 0, 3), NoGate}
      BY DEF IdtEntry
    <3>2. CASE v \in INT_VECTOR_IRQ0 .. INT_VECTOR_IRQ0 + 15
      <4>1. v - INT_VECTOR_IRQ0 \in Nat
        BY <2>1, <3>2 DEF INT_VECTOR_IRQ0
      <4>2. (IF v \in {3, 4} THEN 3 ELSE 0) \in 0 .. 3
        OBVIOUS
      <4> QED BY <2>1, <2>2, <2>3, <3>1, <4>1, <4>2
    <3>3. CASE v \notin INT_VECTOR_IRQ0 .. INT_VECTOR_IRQ0 + 15
      <4>1. IdtEntry(v) \in {Gate("exception", v, IF v \in {3, 4} THEN 3 ELSE 0), Gate("sys_call", 0, 3), NoGate}
        BY <3>3 DEF IdtEntry
      <4>2. (IF v \in {3, 4} THEN 3 ELSE 0) \in 0 .. 3
        OBVIOUS
      <4> QED BY <2>1, <2>2, <2>3, <4>1, <4>2
    <3> QED BY <3>2, <3>3
  <2>5. idt = KernelIdt \/ idt = [w \in Vectors |-> NoGate]
    BY DEF TrapsInv, TablesSoFar
  <2> QED BY <2>3, <2>4, <2>5 DEF KernelIdt
<1>6. \A p \in Procs : \A i \in {0, 1} : ldts[p][i] \in Descs
  <2>1. \A p \in Procs : Privilege(p) \in 0 .. 3
    BY DEF Privilege
  <2>2. \A p \in Procs : \A i \in {0, 1} : KernelLdts[p][i] \in Descs /\ NoLdts[p][i] \in Descs
    BY <1>1, <1>2, <2>1 DEF KernelLdts, NoLdts
  <2> QED BY <2>2 DEF TrapsInv, TablesSoFar
<1>7. \A i \in 1 .. Len(hwints) :
        hwints[i] \in [irq : Lines, pc : {"begin", "call", "end"}, handler : Handlers]
  BY RoutinesAre DEF TrapsInv, HwInts, Lines, NR_IRQ
<1>8. main \in 1 .. Len(Steps) + 1
  BY StepsAre DEF TrapsInv
<1>9. gdtr \in {"loader", "kernel"} /\ idtr \in {"bios", "kernel"} /\ tr \in {"none", "kernel"}
  BY DEF TrapsInv, TablesSoFar
<1>10. TypeOK
  BY <1>4, <1>5, <1>6, <1>7, <1>8, <1>9 DEF TypeOK, TrapsInv, Outcome
<1>11. NothingHeldInService
  BY IfSet DEF NothingHeldInService, Chips, MASTER, SLAVE
<1> QED BY <1>10, <1>11 DEF TrapsInv, PicInv, NoBadDescriptor, Outcome

\* From the first instruction of the kernel on, and for every set of devices:
\* a line is masked at its own chip exactly while it has to be, and nothing
\* stays in service that would keep interrupts out.
THEOREM TrapsPicInv == Spec => []PicInv
<1>1. TrapsInv => PicInv
  BY InvImplies
<1> QED BY <1>1, InitInv, NextKeepsInv, PTL DEF Spec

\* The CPU never looks up a descriptor or a gate that is not there, on the way
\* up, in a process or in the kernel.
THEOREM TrapsNoBadDescriptor == Spec => []NoBadDescriptor
<1>1. TrapsInv => NoBadDescriptor
  BY InvImplies
<1> QED BY <1>1, InitInv, NextKeepsInv, PTL DEF Spec

\* Each line that comes through finds the handler put for it, however the
\* routines nest.
THEOREM TrapsRightHandler == Spec => []RightHandler
<1>1. TrapsInv => RightHandler
  BY InvImplies
<1> QED BY <1>1, InitInv, NextKeepsInv, PTL DEF Spec

\* An exception is reported with the vector, the error code and the place that
\* the CPU had for it.
THEOREM TrapsReportsWhatHappened == Spec => []ReportsWhatHappened
<1>1. TrapsInv => ReportsWhatHappened
  BY InvImplies
<1> QED BY <1>1, InitInv, NextKeepsInv, PTL DEF Spec
=============================================================================
