# kenos in TLA+

kenos is a small x86 kernel of the Tinix family: one CPU, a clock and a keyboard,
one ring 1 task (the TTY), three ring 3 programs, a FAT disk read by polling, and
a scheduler that can be exchanged while it runs for one loaded from disk
(`XMOD.ELF`). This directory specifies it: TLA+ modules that follow the source, TLC
configurations that check them on small instances, and TLAPS proofs that need no
instance.

    tlc -workers 2 -config MCKernel.cfg MCKernel
    tlapm KernelProofs.tla

## The system

| component | state | operations | what makes it correct |
|---|---|---|---|
| Interrupt entry and exit (`kernel/kernel.S`) | kernel stack, `k_reenter`, `tss.esp0`, the frame in each `proc_table[p].regs` | `save`, `hwint_master`, `sys_call`, `restart`, `restart_reenter` | the depth is counted exactly; processes cannot see an interrupt; bounded nesting |
| Interrupt controller (`kernel/i8259.c`, `lib/klib.S`) | masks, latched and in-service lines of both 8259s, `irq_table` | request, EOI, `put_irq_handler`, `enable_irq`, `disable_irq` | no line is lost or let in early; no handler nests in itself; a line finds its own handler |
| Protected mode set-up (`kernel/start.c`, `kernel/protect.c`) | GDT, IDT, TSS, the LDTs, the registers of the CPU that hold them | `_start`, `cstart`, `init_prot`, the exception stubs, `exception_handler` | whatever the CPU looks up is there and is what the code takes it for |
| Clock (`kernel/clock.c`) | `ticks`, `proc_table[p].ticks`, `p_proc_ready` | `clock_handler`, `milli_delay` | switches happen only outside the kernel and only when the quota is spent |
| Schedulers (`kernel/proc.c`, `module/xsched01.c`) | the loop of `sched0` / `xsched01`, the pointer `schedule` | the call, Alt+F12 | the first process with most ticks is chosen; the loop ends; nobody starves |
| System calls (`kernel/syscall.S`, `kernel/global.c`) | the arguments `sys_call` pushed | `get_ticks`, `write`, `ld_mod`, ... | the result reaches EAX of the caller and nothing else of anybody |
| Keyboard (`kernel/keyboard.c`) | ring buffer of 32 bytes, shift and lock keys | `keyboard_handler`, `keyboard_read` | bytes are read in order; sequences are not torn |
| TTY (`kernel/tty.c`) | three input queues of 256 keys, current console | `task_tty`, `in_process`, `sys_write` | keys are echoed in order on the console they were typed on |
| Console (`kernel/console.c`) | cursor, start of the visible part | `out_char`, `scroll_screen`, `select_console`, `flush` | the cursor stays in the console's memory and on its screen |
| Semaphores (`kernel/ksync.c`) | `value` | `ksema_p`, `ksema_v`, `kmutex_lock`, `kmutex_unlock` | mutual exclusion; P waits |
| IDE driver (`drv/ide.c`) | two controllers with mutex and semaphore, four devices | detection, `ide_rw_blks`, the two handlers | a read returns the block asked for or an error |
| FAT (`fs/`) | none (the disk) | directory lookup, next cluster, read file | the file that has the name, its clusters in order |
| Module loader (`module/manmod.c`) | the image at its fixed address | `sys_ld_mod` | every loadable segment is where it is linked |
| Boot sector and loader (`boot/`) | registers, memory below 1 MB, the page tables | find and load a file (twice), memory map, A20, paging, the kernel's ELF segments | the kernel starts whole, where it is linked, on tables that map memory to itself |
| Library (`lib/`) | none | `itoa`, `mem2num`, `vsprintf`, string functions | the functions' values |

How they interact: devices raise lines of the 8259, which interrupts the CPU
whenever IF is set, in a process or in the kernel; `hwint_master` and `sys_call`
nest through `save` and the counter `k_reenter`; the clock handler calls the
scheduler through `schedule`, which stores to `p_proc_ready`, which `restart`
loads; the keyboard handler fills a buffer that task_tty drains under `cli`;
task_tty and the programs' `write` share the consoles; `ld_mod` goes through the FAT
reader and the IDE driver and overwrites the code that `schedule` may point to. Before
all that, the boot sector loads the loader and the loader the kernel, which replaces the
loader's tables by its own.

What is hard: everything above is one thread of control with interrupts in the
middle of it. The kernel is not preemptive, and only two variables say so
(`k_reenter`, `p_proc_ready`); entries are counted rather than linked; handlers run
with interrupts on, kept out of themselves by a read-modify-write of the mask; a
tick in the kernel charges the current process without being able to replace it. The
rest is hard in an older way: BIOS, disks and FAT answer what they like, results of reads
are ignored, and addresses and counts are cut to the width of a register.
`PROJECT.json` lists these hazards line by line.

## The modules

    SchedOps ── SchedLoop ──────── MCSchedLoop
       │  └──── Scheduling            SchedLoopProofs
       └─ Machine ── Kernel ──────── MCKernel
                └─── VirtualCPU       KernelProofs

    LossyFifo ── KbBuffer ──────── MCKbBuffer      KbBufferProofs
                 Keyboard ──────── MCKeyboard      KeyboardProofs
                 Ide ───────────── MCIde           DiskProofs
    Terminal ─── Console ───────── MCConsole       ConsoleProofs
    Pic ──────── Traps ─────────── MCTraps, TrapsProofs
    IdeProbe ─── ModLoader ─────── MCModLoader     ModLoaderProofs
    FloppyFile ─ Startup ───────── MCStartup       DiskProofs

**SchedOps** is the arithmetic the schedulers share: `Best` is the first process
with the greatest positive tick count, `Filled` the refill. `sched0` refills with
`priority`, `xsched01` with `priority / 5`.

**SchedLoop** is `clock_handler` calling `sched0` or `xsched01`, one action per
iteration: `Tick` charges, `Call` enters, `Scan`/`ScanEnd` and `Refill`/`RefillEnd`
are the two `for` loops inside `while (0 == greatest_ticks)`. `*p_ready` is written
by the scan as it goes, as in C.

**Scheduling** is the abstract scheduler: a tick is paid for by the process that
was current; the current process is replaced only once it has spent its ticks, by
the best one, after a refill if nobody has any. Both SchedLoop and Kernel are shown
to implement it.

**Machine** is what the kernel multiplexes: a process' registers (where it is, EAX,
IF) and what an instruction does to them. task_tty is the one program that can
clear IF (IOPL 1). It registers the keyboard, then enters its loop, in which
`get_byte_from_kb_buf`, `set_cursor` and `set_video_start_addr` put `cli` and `sti`
around a few instructions. The other programs compute and make system calls.

**VirtualCPU** is what a process is promised: a processor of its own, on which only
its own instructions change a register, except that a system call suspends it and
changes EAX.

**Kernel** is the kernel. One action is what the CPU does between two points at
which an interrupt could come in, so code under `cli` is one action:

| action | code |
|---|---|
| `Raise`, `Interrupt` | the device and the 8259 (external); the gate, `save` |
| `HwintEnter`, `HwintLeave` | `hwint_master` up to `sti` and the call; from `cli` to `ret` |
| `ClockCharge`, `ClockReturn`, `ClockSchedule` | `clock_handler`: the two decrements; its early returns; the call of `schedule` |
| `OtherHandler` | `keyboard_handler`, `spurious_irq` (nothing of this module's state) |
| `SysCall`, `SysEnter`, `SysRun`, `SysStore` | `int $0x90` and `save`; up to `sti`; the function of `sys_call_table`; EAX to the frame, `cli` |
| `Restart`, `RestartReenter` | the two ways back |
| `UserStep`, `TtyStep`, `SwitchScheduler` | the programs; `init_keyboard`; Alt+F12 in `in_process` |

The kernel stack is the sequence `frames`: of each level the vector, where its code
is, and the return address that `save` pushed, which is decided by `k_reenter` as in
the code and not by the length of the sequence. When `save` believes it is outermost
it moves the stack pointer to the empty kernel stack, so the model starts a new
sequence: if `k_reenter` were wrong a live stack would be lost. Registers of an
interrupted process go to the process whose frame `tss.esp0` points to, whichever
process is running: that these are the same is a property, not an assumption. The
scheduler is one step here, which is what SchedLoop justifies.

**LossyFifo** is what the keyboard's input buffer promises: bytes come out in the
order they went in, each once, and one is lost only when the buffer is full.

**KbBuffer** is `kb_in` at the level of loads and stores: `keyboard_handler` as one
action (Kernel shows that it does not nest in itself and that no process runs while
it is open), against `get_byte_from_kb_buf` as `Wait`, `DisableInt`, `Read`, `LoadCount`,
`StoreCount` and `EnableInt`. `keyboard_handler` needs IF, so an interrupt can come
between any two of these that are not under `cli`. The queue of LossyFifo is the
slots from `p_tail` on, as many as `Waiting` says.

**Keyboard** is everything from the keys to `in_process`, over the FIFO that KbBuffer
implements. The person, the keyboard with its LEDs and the 8042 are external: `Press`
(also the repetition of a key), `Release`, `KeyboardObeys`. `keyboard_read` is one action
for each byte that it gets, because it can wait for each: `MustGetMore` says whether
it does, `Analyze` is everything after the last one. `set_leds` is two actions, one for
each byte written; `kb_ack` does not wait (`kb_read =! KB_ACK` is 0), so that the answers
of the keyboard arrive among the scan codes, between the whole codes of two presses or
releases: Keyboard takes for granted that a keyboard finishes a code of several bytes before it
answers, and one that did not would tear the code as a dropped byte does. `make` is not set on the way of Pause and is
a nondeterministic choice there. `typed` and `toggled` are history: what the keys pressed
so far owe to `in_process`, computed from the keys that are down (`Meaning`), not from
codes.

**Ide** is one disk, `ide_rw_blks` and the semaphores under it. Its actions are the
stretches of the function between which the disk can change its status register:
`Enter`, `Lock`, `select_dev`, `Command`, one `wait4ctrl` per poll, `CheckWait`, `WriteData`,
`Sleep`, `Check`, `Copy`, `Unlock`. The disk (`DiskOffers`, `DiskWrites`, `DiskFails`) takes as
long as it likes, fails, or never answers. `ksema_p` is as compiled: it decrements modulo
`UINT` and never fails. `ide_handler` is no action: its line is at the slave, and nothing
enables the cascade, so no interrupt of a disk is ever delivered.

**Terminal** is what a console promises to those who write on it: its text is what was
written, one character after the other, as far as there is room.

**Console** is task_tty from `in_process` on, and `sys_write`. Both end in `out_char`, so its
actions (`Test`, `Cell`, `Load`, `Store`, `Erase`, `Loop`, `scroll_screen`, `ScrollLoad`, `ScrollStore`,
`flush`) take the process as a parameter, and `ctx` holds where each process is. A program
can enter while task_tty is anywhere, and task_tty stands still until it is out again
(`HasCPU`), which is what Kernel's `ReadyIsPinned` says of system calls. Addresses are
those of the source: console n begins at `n * con_v_mem_size`, and its neighbour where
it ends. The text of a console in Terminal is the cells up to the cursor, which makes
the store of the cursor the moment at which a character is written.

**Pic** is both 8259s with their cascade and the code that programs them, for Traps to say
when it happens. `Disabled` is `disable_irq` as compiled: it tests the mask of the master
also for a line of the slave, and writes to the slave what it read of the master.
`hwint_begin` and `hwint_end` are what `hwint_master` and `hwint_slave` do around the call of the
handler; the end of interrupt goes to the chip of the line only.

**Traps** is the CPU's tables and every way into the kernel. From `_start` to `restart` each
action is a step that replaces a table or a register (`cstart_sgdt`, `lgdt`, `init_8259A`,
`init_idt`, `ltr`, ..., in the order of `Steps`); after that the CPU takes interrupts, exceptions
at any instruction of a process or of the kernel, `int n` by a program, and
one kind of surprise, a request that has gone when it is acknowledged (`Glitch`, which
the master reports as its line 7). `TtyStep` is `init_keyboard` and the beginning of `task_tty`.
Kernel assumes a valid GDT, IDT and TSS; this is the module that looks.

**IdeProbe** is `init_ide_dev`: detection, software reset, signature, IDENTIFY, and the
arithmetic on its answer, against two positions of a cable that hold a disk, an ATAPI
device or nothing; device 0 answers in the name of a device 1 that is not there.
`wait4ctrl` is one step, which may report that it expired at any time (the disagreement
ide_timeout below). `Address` and `BlockAt` are what `ide_rw_blks` makes of a block number, and
what the disk takes it for, with LBA and with cylinders.

**ModLoader** extends IdeProbe by the system call `ld_mod` on the disk that was found: the
search of the root directory block by block, `cmpfname`, the chain, the reads, and
`xmod_lay2dst` header by header. A read has the block asked for or fails, as module Ide
shows; a failure is ignored, as in the code, and what is then in a buffer of the stack is the
same place of another block of that kind, or junk. `AltF12` and `Tick` may come in at each point, after which the clock calls
what is at `XModPhyAddr`, whatever it is.

**FloppyFile** is the code that `boot.S` and `loader.S` have in common: look for a name in the
root directory of a FAT12 floppy, read the file sector by sector along its chain, with
entries of 12 bits that may lie across the end of a sector. A read that fails leaves
anything in memory and is made again.

**Startup** instantiates FloppyFile twice, as the boot sector loading `LOADER.BIN` and as the
loader loading `KERNEL.BIN` into the same memory, and goes on with what the loader does
after that: memory map, A20, `DispMemInfo`, `SetupPaging`, `InitKernel`.

The **MC** modules are instantiated by the configurations. The definitions marked
`Mutant` belong to no specification: each is a definition as a plausible bug would
change it, kept to show that the property named with it in `PROJECT.json` can fail.

## The runs

**sched_loop** (MCSchedLoop.cfg): four processes with priorities 15, 5, 10, 10: the
order, the tie and the smallest refill of 315, 5, 105, 105, with a fifth of each
still positive. Either scheduler may serve each call. `LoopInv` are the loop
invariants; `ImplementsScheduling` says that neither the candidates the scan leaves
in `*p_ready` nor a half-done refill ever shows as a choice; `CallReturns` that the
`while` ends; `NoStarvation` that every process is chosen again and again.

**kernel_safety** (MCKernel.cfg): TTY and one program, clock and keyboard, two
instruction addresses and two values of EAX so that a register lost or swapped
shows. Depth 3 (a system call, and both lines nested in it in either order) is the
most that the lines allow, so nesting is not cut. It checks that no handler nests in
itself (`NoSelfNesting`); that `p_proc_ready` changes under no one but an outermost clock
interrupt (`ReadyIsPinned`); that Kernel implements VirtualCPU and Scheduling; and
`KernelInv`, the inductive invariant of the proofs, of which the parts that say something of
their own are `NestingCounted` (`k_reenter` counts the frames), `MaskMatchesHandlers` (a line
is masked exactly while its handler is open or before it is enabled) and
`NoSpuriousHandler` (no enabled line meets `spurious_irq`).

**kernel_liveness** (MCKernelLive.cfg): three processes, so that a scheduler could
alternate between two and forget the third; registers not told apart.
`StarvedOnlyByNesting`: every process runs again and again, unless from some moment on each
tick comes nested in the kernel; the exception is real, as TLC shows with a program that calls
again and again and is in a call at each tick. `KeyboardServed`: a keystroke latched in the 8259 is
served, wherever the ticks fall once task_tty has enabled the line; before that, if ticks still
find the CPU outside the kernel, for else task_tty need not get to it.

**kb_buffer** (MCKbBuffer.cfg): three slots and two bytes, with an interrupt at every
point where IF is set. `RingInv` ties the two pointers to the count; `ImplementsFifo` is
the refinement of LossyFifo, in which the drop of a byte is allowed only when full.

**keyboard** (MCKeyboard.cfg): a key of the number pad with the lock and the shift that it
depends on, a modifier with E0, PrintScreen and Pause, pressed, repeated and released in
every order. `KeyboardInv` compares what the driver remembers with the keys
(`ModifiersMatchKeys`) and with the LEDs (`LedsShowLocks`) once all codes are read; `NothingLost`
and `TypedInOrder` compare
what reaches `in_process` with what was typed; `ReadReturns` says that a call of
`keyboard_read` ends, so that task_tty gets to its consoles. None of them promises anything
after a byte was dropped: a torn sequence may be taken for anything, a modifier may stay
set, and the call waits for the rest of the sequence until more keys are pressed.

**ide** (MCIde.cfg): two blocks, two contents, reads and writes one after another on a disk
that is in any state the one before has left. `ReadReturnsTheBlock`: success means the
block asked for is in the buffer, although neither DRQ nor an interrupt is waited for.
`MutexBalanced`: every path, of the five that return behind the lock, unlocks.
`NoCommandInTransfer`: a request that timed out is not followed by a command to a disk
still busy with it. `RequestReturns`: a silent disk does not hang the system.

**console** (MCConsole.cfg): keys are echoed on both consoles, with changes between them
in any round, while a program writes on console 1; but not both on one console
at once (`ApartSpec`), for which see console_shared. `ImplementsTerminal` says that
each console gets the text written on it; `InConsole` that neither cursor nor screen
leaves the console's memory; `NoKeyDropped` that a queue is empty again when the next
key is read, so the 256 entries of `in_buf` never fill; `ScreenFollowsSelection` that an echo
does not bring the old console back; `OutCharReturns` that the scroll loop ends.

**traps** (MCTraps.cfg): the clock, the keyboard and both disks raise their lines, which the
code enables or not. `NoBadDescriptor`: no selector, gate, TSS or LDT that the CPU is made to
use is missing or of the wrong kind, at any step of the start. `ReportsWhatHappened`: an
exception that halts the machine is printed with its own vector, error code and place,
although half of the vectors push an error code and half do not. `PicInv`: masks are
those of the lines enabled less the open routines (`MasksMatchLines`), and no end of interrupt
is forgotten (`NothingHeldInService`), although the slave's is sent to one chip only, because
no line of the slave comes through. `RightHandler`: each line that the CPU takes finds the handler of
its device, from the first instruction with IF set.

**modload** (MCModLoader.cfg): every pair of devices, four layouts of the disk's root directory and
file, every read may fail. `DisksInv`: a position is taken for a disk only if there
is one, and each block number reaches that block, by LBA or by cylinders. `LoaderInv`: unless a
read failed (`LoadedRight`), each segment of `XMOD.ELF` is where it is linked when the call returns.
`WildOnlyAfterFailure`: the machine runs wild only if a read failed, the file is not there, or Alt+F12 came
before `ld_mod` was through. `LoadReturns`: the probe and the call end, on whatever a failed read left.

**startup** (MCStartup.cfg): files in each sector of the directory and past its end, chains
forwards, backwards, empty and longer than a segment, FAT entries across sectors, memory
maps in any order, with ranges beyond 4 GB whose low halves end below and above the memory, or ended by
the carry flag; and memory that is blank at the start or full of present entries. `SearchInv`: "No LOADER" and "No KERNEL" are the truth. `LoadedWhole`: a program is
jumped to only when all of its file is in memory, and the loader survives what it
loads. `MapsMemory`: the size found covers the memory below 4 GB, exactly if there is none
beyond, and each page of it is mapped to itself. `KernelLaidOut`: the
segments are where they are linked. `WildOnlyIf` and `Starts`: a bootable floppy starts the
kernel, and what can prevent it.

### Disagreements

Two runs end in a violation; each is a disagreement of the code with its own comments.

**console_shared**: task_tty tests the cursor against the end of the console's memory, loses
the CPU, and moves the cursor when a program has used the last cell. The cursor is then
outside of the console, and the loop that scrolls until it is on the screen never
ends: in task_tty, or in the kernel when the program writes next. TestA writes on the
console that is selected when kenos starts. The other races of the same kind (a scroll
past the end, a backspace before the beginning, a character lost) have the same cause, so
that the properties of run console are stated for consoles with one kind of writer.

**ide_timeout**: `wait4ctrl` returns the polls left, an unsigned long of up to 30000000,
as a `t_8`. One disk in 256 that answers in time answers when a multiple of 256 polls are
left, and is reported as timed out. The block it offers is not read, DRQ stays set, and
`select_dev` refuses every later request.

Met on the way, in the models as the code has them:

- The right Alt key sets and clears `alt_l` (`case ALT_R: alt_l = make`), so that letting it
  go while the left one is down forgets the left one. `alt_r` is never set.
- The driver is to sleep until the interrupt handler increments `io_sema`. The value is
  unsigned, so the test for `< 0` in `ksema_p` never holds, and the driver goes on at once,
  having made `io_sema` wrap. This is what keeps kenos alive, as the interrupt would never
  come: the mutant `Sleep_Signed`, with the test working, violates `RequestReturns`.
- The page directory is said to be at 0x00100000; `addr.h` has 0x200000.
- `continue` in `xmod_lay2dst` skips the step to the next header, so what follows a `PT_NULL`
  header is never laid out (`BehindNull` of MCModLoader). `InitKernel` of the loader has the
  step in both branches.
- A base name of 8 characters is never found: `cmpfname` looks for the dot behind it.
- Only 0xfff ends a chain for the boot programs; FAT12 allows 0xff8 to 0xffe as well.
- A BIOS that ends the memory map with the carry flag leaves 0 ranges, and the loop over them
  counts from 2^32. The buffer for the map has room for 12 ranges, and nobody counts.
- A kernel file longer than 64 KB overwrites its own beginning, as `%bx` wraps. The page tables of
  a machine with more than 1020 MB reach the kernel, which then comes to lie on them.
- `hwint_master` unmasks its line when it returns, enabled before or not: after a glitch line 7 is open,
  with `spurious_irq` behind it.
- `flush` takes the screen for whatever a program prints, selected or not
  (console.c:204); `ScreenFollowsSelection` is for echoes.

### Bounds

- `Floor`: a process in debt is counted down to `Floor` and no further. The code
  compares ticks with 0 and with positive ticks only, so debts are indistinguishable;
  the saturated system is bisimilar to the real one. `Floor = 0` loses the difference
  between spent and overdrawn, so sched_loop has `Floor = -1`. The wrap of a signed
  32-bit count after 2^31 ticks in the kernel is not modelled.
- `Priority`: scaled down. A refill matters at its order, its ties and at whether a
  fifth of it is zero. `RefillAssumption` (some priority is at least 5) is the
  condition under which `xsched01` ends; kenos_main satisfies it.
- `TickWrap`: `ticks` is counted modulo 2 (2^32 in the kernel). Its value matters
  here only as something that must reach EAX.
- `UserEips`, `Irqs`: two addresses tell a restored program counter from a lost one;
  the clock and the keyboard are the lines that kenos enables on the master.

- `KB_IN_BYTES`: 32 in kenos. KbBuffer needs two slots for the pointers to differ and a
  third for them to wrap apart; its proof is for every size. In Keyboard it is 6, so
  that Pause (6 bytes) after another byte overflows.
- `MaxPending`: no key is touched while that many bytes are on their way: two codes can
  be mixed with acknowledgements, more are only longer queues of the same. After a drop
  nothing is promised except by the type invariant, and one byte at a time is enough.
- `Keys`: each kind of code (one byte, E0, E0 with shift codes, E1) and of meaning (modifier,
  lock, number pad). `MakeCode` and `keymap` list more, letters under Caps Lock for one, which
  other instances can use; the remaining keys differ in their value only.
- Console: rows of 2 cells, 1 of 2 rows visible, and a cell left over between consoles, for
  80, 25 of 68 and 21 in kenos; every row can be scrolled to, and the memory fills up.
  `TTY_IN_BYTES` is 2 of 256; the queue holds at most one key. A character, a backspace and
  a new line are the three branches of `out_char`. In console_shared 2 of 3 rows are visible.
- Traps: one task and two programs, so that LDT and privilege differ; the two lines that are
  enabled and the two of the disks; one glitch, after which line 7 stays open, which a second
  does not change; of the int instructions each kind of gate, and one vector without.
- ModLoader: bytes of 4 values, so that block numbers and sizes need two; a FAT of four
  blocks, a root directory of two, so that both loops have a second turn; names of 3 + 2.
  The layouts differ in what the code looks at: an odd number of units, headers of each type,
  segments of one and more clusters, chains in and out of order, similar names before it.
- Startup: sectors of 4 bytes, in which entries of 12 bits straddle as in those of 512; a floppy with
  two tracks on two sides; a segment of 4 sectors; a page of 8 entries, so that 4 GB are 64 pages and
  the three tables that fit below the kernel (255 in kenos) can be exceeded.
- `ATA_TIMEOUT`, `BYTE`, `UINT`: 6 polls and bytes of 4 values for 30000000 and 256: as
  in kenos the timeout is not a multiple of the byte, and a multiple is met on the way
  down. The proofs are for all values with the first property.

### Fairness

Safety uses none. For liveness (`FairSpec` of Kernel):

- each level of the kernel stack gets to execute between the interrupts that nest on
  it (strong fairness per depth): a handler takes far less than a tick;
- a latched interrupt that is let in again and again is taken, as a CPU takes it at the first
  instruction with IF set; task_tty executes when it has the CPU;
- ticks keep coming. Nothing is assumed of where they find the CPU: the code guarantees nothing
  there, and a program in `milli_delay`, which is a loop of `get_ticks` calls (clock.c:49-54),
  spends most of its time inside the kernel. If all ticks from some moment on fall inside
  calls, the process that has the CPU keeps it and only its `ticks` go down. This is how the code
  is, and `StarvedOnlyByNesting` says that it is the only way to starve.

The modules above Kernel take for granted that this does not happen to task_tty:
Console assumes that a program inside `out_char` goes on, and strong fairness of task_tty,
which a program that writes again and again stops again and again; Keyboard assumes weak fairness
of the keyboard (it takes what the 8042 has for it), of the interrupt, which `KeyboardServed` gives,
and of task_tty. So `OutCharReturns` and `ReadReturns` are about a machine whose ticks go on finding
the CPU outside the kernel. Ide assumes weak fairness of the driver, which has the CPU as Kernel's
system calls have; nothing is assumed of the disk.

ModLoader assumes weak fairness of the probe and of the system call, which has the CPU;
nothing of devices, and nobody need press a key. Startup assumes weak fairness of everything
but the failure of a read: a sector that can be read is read in the end. Traps has no liveness
property.

SchedLoop assumes weak fairness of the tick, of the call (once a process is spent it
stays so until the call happens, for which an outermost tick has to come: its `NoStarvation` is about
the schedulers, not about where ticks fall) and of the loop's steps.

## The proofs

For every number of processes, every table of priorities that satisfies
`RefillAssumption`, every set of master lines with the clock and the keyboard, and
every `TickWrap` and `Floor`. The assumptions on the constants are the named ASSUMEs
of SchedOps, Machine, KbBuffer, Keyboard, Ide, Traps, Console, IdeProbe, Startup and
ModLoader; nothing else
is assumed.

- **SchedLoopProofs**: `BestIsUnique`; `SchedLoopTypeOK`, `SchedLoopInvariant`, and
  `SchedLoopRefines`: under the mapping `AbsTicks`/`AbsReady` a call is Scheduling's
  `Switch` taken on entry, and every iteration a stutter, because what the loops still
  have to write is a function of the state that they preserve.
- **KernelProofs**: `BestExists`: the scan of a table finds a first maximum, the one place that
  needs induction; it is done with the well-foundedness of `<` on the table's prefixes, since
  a prefix without a maximum would extend one that has it. `KernelTypeOK`; `KernelSafety`,
  the invariance of `KernelInv`; `KernelPromises`, its consequences, and `KernelNoSelfNesting`, one of them;
  `KernelResumedHasTicks`: who is resumed by an outermost tick that replaced the current
  process has ticks; the refinements `KernelRefinesScheduling` and `KernelRefinesVirtualCPU`.
- **KbBufferProofs**: `KbBufferInvariant` and `KbBufferRefinesFifo`, for every set of bytes
  and every `KB_IN_BYTES` > 0. `RingInv` is inductive together with `CriticalSection`, which
  says that IF is clear from `DisableInt` to `EnableInt`; without it the handler could count
  a byte between the load and the store of `count--`. The refinement maps `Read` to `Get`, the
  handler to `Put`, and everything else to a stutter, the store of the count included.
- **KeyboardProofs**: `KeyboardNothingLost`, for every set of keys that the module knows and every
  size of `kb_in`; `KeyboardSafety` and `KeyboardTypedInOrder`, for every such set without the right
  Alt key, with which they are false (`case ALT_R: alt_l = make`, see what the checks met on the
  way, above). The bytes that this call has got, those in `kb_in` and those to come are one
  stream, `got \o queue \o line`, and the invariant (`SoundInv`) says that it is a chain of
  pieces (`Chain`): each is the whole code of a press or a release, or an acknowledgement, with
  the modifiers, the locks and the number of events before and after it and the event that
  it owes. The first piece starts at what the driver remembers, the last one ends at what the
  keys are. A press adds a piece at the end, built from the keys that are down; the byte that
  completes a code takes the first away, and `PieceRead` says that `keyboard_read` has then done
  what the piece says; `ReadsToTheEnd`, that it reads neither less nor more, as no code of any
  key is the start of another. That the pieces are in order is said of every two of them and
  not along the chain, so nothing needs induction over its length. `DriverInv` is about the
  other direction: the keyboard takes each byte of `set_leds` for what it was written as
  (`LedsInTurn`), although nobody waits for the acknowledgements (`KeyboardLeds`).
- **DiskProofs**, of Ide: `IdeMutexBalanced`, `IdeReadReturnsTheBlock`, `IdeCommandsAtRest`, for every disk
  size, content, timeout and width. The inductive invariant adds to them what the driver may
  conclude from where it is (`DriverKnows`): past the test of what `wait4ctrl` returned, BSY
  is clear, and past the first test of ERR a disk told to read has DRQ set and nothing
  else; what it offers is the block of its last command (`OfferIsGood`).
- **DiskProofs**, of Startup: `StartupSearch`, `StartupLoadedWhole`, `StartupWildOnlyIf`,
  `StartupMapsMemory` and `StartupKernelLaidOut`, the invariants of the run startup, for every
  geometry of a floppy with two sides, every layout of low memory and every size of a page that
  the assumptions of Startup admit, any floppy in order with any chains, any map of the BIOS, and
memory that holds anything at the start (`OldMemoryAssumption`): nobody clears it, and `SetupPaging`
stores only as many entries of the directory as there are tables. So the rest of the directory is
what an earlier start or the BIOS left, a stray access behind the last table need not fault, and
`MapsMemory` says nothing of it.
  `StartupSafety` is the inductive invariant behind all five.

  The two programs load a file by the same code, so both are shown to make the steps of one
  loading of file x (`BootSteps`, `LoaderSteps`), and `LoadingKeeps` is proved once, step by step.
  While a file is read the invariant (`Reads`) knows which piece of the chain is next, that the
  pieces before it are in memory as long as they fit in the segment, and that when they do not the
  first piece has been written over and stays so: no sector is twice in a chain. That makes
  `HeadersInFile` an equivalence, on which `WildOnlyIf` rests: the headers of the kernel are where
  the file was loaded just when it fits. `GetFATEntryIs` says that the next piece is
  the one that the FAT names, wherever in two sectors its 12 bits lie, and `ChsIsLinear` that the
  sector of the BIOS is the one asked for. What the kernel's loading keeps of memory, failed
  reads included, is all of the loader, as a segment with an even %bx ends below it
  (`BehindKept`).

  In protected mode the invariant has the directory and the tables cell by cell as far as
  they lie below the kernel (`InTables`), hence a page that is mapped at all is mapped to
  itself (`WalksToItself`), hence `MemCpy` writes where a segment is linked (`SegmentCopied`) and
  not over the tables that it goes through; what a later segment writes where an earlier one is
  must be the same part of the file. The size of the memory is the greatest end in 32 bits
  (`SizeInv`), which is not below the end of memory (`TopIs`), as sums of remainders are remainders
  of sums, and is that end if nothing lies beyond 4 GB; a range there may have a greater one in its
  low half, and then there are tables for memory that is not there.

  What is assumed. `GeometryAssumption`: two heads, as ReadSector divides by 2, and a FAT and a
  directory with something in them. `LayoutAssumption`: the segments of addr.h, at 0x80000 and
  0x90000, do not overlap, and the two sectors of the FAT that are read at a time fit in the 4 KB
  that GetFATEntry takes below them. `PagingAssumption`: a table has as many entries as the
  directory, which is at 2 MB, or higher, and aligned. `FloppyAssumption`: the floppy is a FAT12
  file system in order, whose chains end with 0xfff or with the number of a cluster that is not
  there, and LOADER.BIN, little more than its stack of 4 KB, fits in its segment.
  `KernelAssumption`: KERNEL.BIN is what the linker makes with x86_ker.ld: segments of the file,
  linked at 0x300000, which is behind the tables that map them, one of them with the entry.
  `MapAssumption`: the machine has memory where the kernel goes, and no usable range of the map
  reaches across 4 GB, where a PC has its ROM; beyond there may be any. `OldMemoryAssumption`: a word
  of memory is, as an entry of a table, not present or present and of some frame. Each of them is
  evaluated by TLC on run startup.
- **TrapsProofs**: `TrapsPicInv`, `TrapsNoBadDescriptor`, `TrapsRightHandler` and
  `TrapsReportsWhatHappened`, for every number of tasks and programs, every set of wired lines
  and of `int n`, and any number of glitches. In `TrapsInv` the tables are functions of how
  far `main` has come (`TablesSoFar`, `HandlersSoFar`), so that every descriptor, gate and
  handler the CPU looks up is known. That the masks are what the lines need is not
  inductive alone: the end of a routine must not unmask a line that another open routine
  still has masked, so at most one routine is open for the clock and for the keyboard
  (`RoutinesOpen`); a second one is kept out because IF is clear exactly while the innermost
  routine is before its `sti` (`IfMatchesRoutines`); only that routine's line is still in
  service (`InService`); and no line of the slave comes in, as the cascade is never enabled.
- **ConsoleProofs**: for every number of consoles and programs, every size of the screen, of
  the video memory and of the queues. `ConsoleNoKeyDropped` and `ConsoleScreenFollows` hold of
  `Spec`: whatever the programs print and wherever. `KeysInv`, their inductive invariant, says
  that a key is in a queue only between `put_key` and `tty_do_write` of the same round, and
  that task_tty is inside `out_char` or `scroll_screen` for the console in use only.
  `ConsoleInConsole` and `ConsoleRefinesTerminal` hold of `ApartSpec`, the steps after which no
  program is in `out_char` for the console that task_tty is busy with; without that they are
  false (run console_shared). Neither is inductive. `MemoryInv` adds what a call relies on
  between a test and the store that it guards (`CallKnows`): the cursor is where `p_vmem`
  points and still fits, the register holds what is in memory, the scroll is still allowed;
  that behind the cursor of each console is nothing but blanks and the one character that is
  just being written (`BlankBeyond`), or a new line would bring old text back; and that the
  window starts at a row. Calls in progress at the same time are for different consoles, and
  the parts of different consoles are disjoint (`RegionsApart`, from the product
  `n * con_v_mem_size`), so no step disturbs what another call knows. The refinement maps the
  store of the cursor to Terminal's `OutChar` and all else to a stutter.
  It showed an assumption that was missing: the memory of a console must have room for its
  number, or it starts with the cursor outside.
- **ModLoaderProofs**: `ModLoaderDisksInv`, for any devices at either position and all disks that
  `ProbeAssumption` allows, which is what 16-bit words of IDENTIFY can say. `ProbeInv` follows
  the device that is probed: it is not present up to `Type`, from there on its kind is that of
  whoever answers, and DRQ after IDENTIFY says that this is itself. That the registers
  reach the block is two lemmas on division with products of variables
  (`LbaAddressesTheBlock`, `ChsAddressesTheBlock`), for every size of a byte.
  Then `ModLoaderLoaded` (`LoaderInv`) and `ModLoaderWild` (`WildOnlyAfterFailure`), for every
  `XMOD.ELF`, chain, directory and name that the assumptions below admit. `LoadedRight` only speaks
  of the end; `LoaderStateInv` is what holds on the way, in three parts. `LoaderTypes` is what
  buffers and counters may hold, whatever was read or not. `GoodSoFar` follows the call as long as
  no read failed: the search has not passed the file, after `i` clusters the first `i` of the file
  are in memory and `ent_nr` is the next of the chain or its end, the headers seen are laid out.
  `InPlace` holds after failures as well, when the call goes on along whatever chain a failed read
  of the FAT left, so that memory holds clusters of the file in any order, or junk: the first
  cluster is that of the file or none of it, so the elf header in memory is the file's or
  `LayStart` runs wild, and the loop over headers is bounded by it. What is taken for a header is
  then a header of the file, perhaps another one, whose segment spares the file in memory.
  The lemmas below it say what the code's functions make of any data. `CmpfnameIs`:
  `cmpfname` accepts an entry if and only if its fields are those of the name. `Mem2NumIs`:
  `mem2num` of two bytes is the number; its fold is a CHOOSE of a function, and the proof gives such a
  function. `TableIs`: the bytes taken from a block of the FAT are the next cluster.
  `LaidIs`: laying out a segment keeps the file, and the segments laid out before.
  What is assumed. `NameAssumption`: the name has one dot, fits the fields of an entry, and no other
  entry has it. `LayoutAssumption`: the chain is long enough, has no cluster twice, its entries lie in the
  FAT, and its clusters in the part of the disk that the 16 bits kept of its capacity show, as a block
  beyond is refused. `FileAssumption`: the file is what the linker makes with `x86_mod.ld`, elf header and
  program headers in the file, segments that come from the file and are linked behind the
  place it is loaded to (0x30400, for 0x7e00), the first instruction at `XModPhyAddr`.
  TLC evaluates them all for the layouts of the run modload.

The argument of `KernelSafety`: none of its properties is inductive alone. That a
second interrupt cannot nest in its own handler needs the line to be masked
(`MaskMatchesHandlers`) whenever IF is set with its frame on the stack; that needs to
know in which code IF is set (`IfMatchesCode`: every frame below the innermost is
past its `sti`); that the mask bit cleared on the way out is not one that another
frame still needs is `NoSelfNesting` again. Which lines are enabled depends on how far
task_tty has come, so `TableMatchesTty` and `FramesRunTheirCode` tie the table and the
frames to its program counter, and `CriticalSectionHolds` says that its `cli` sections
are never left half-way. `ReadyIsPinned` needs `NestingCounted`: `k_reenter = 0` in
the clock handler means that its frame is the only one.

Only model-checked: the liveness properties (`CallReturns`, `NoStarvation`, `StarvedOnlyByNesting`,
`KeyboardServed`, `ReadReturns`, `RequestReturns`, `OutCharReturns`, `LoadReturns`, `Starts`), which are
out of the prover's reach. Every invariant and every action property that a passing run checks is a theorem.

## Not modelled

- The general registers beyond EAX. In particular `disp_str` and `disp_color_str`
  change ESI, in which `sys_call` keeps the address of the frame; the system calls that
  the programs make print only on the error paths of the disk.
- `sys_hd_xxx`, `sys_get_hd_info` and `sys_sw_sched` are never called, and `hd.c` is an older
  driver behind the first two. `ide_handler` is never run, as the cascade stays masked.
- Of the IDE driver: more than one block per request (every caller passes one: moving all of
  them after one wait, ide.c:446, and the sum that overflows, ide.c:351, are reached by nobody),
  the strings of IDENTIFY and the print-outs, which only delay.
- `milli_delay`, whose result only delays, and the programming of the 8253.
- The cursor that the CRT controller blinks, and the order of the bytes of its registers,
  which are written under `cli`.
- The bodies of TestA, TestB and TestC beyond which calls they make.
- What the boot programs and the exception handler print, `vsprintf`, `itoa` and the string
  functions, and the tools that build the image.
- Effects across modules that neither has alone: the LDTs and frames that Traps fills are not
  those that Kernel switches between, and `SwitchScheduler` of Kernel takes `xsched01` to
  be in memory, of which ModLoader says when it is.

## Plan

What is left, in the order in which it would say most:

1. The segments that the kernel loads and the LDTs and frames that `main` fills, in one module
   with Kernel, so that what Traps and Startup establish is what Kernel starts from.
2. ESI across a system call that prints, the one hazard without a property.
