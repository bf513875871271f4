------------------------------ MODULE Console -------------------------------
(***************************************************************************)
(* The consoles: task_tty (kernel/tty.c), which echoes keys, the programs, *)
(* whose write ends in sys_write, and out_char, scroll_screen and flush    *)
(* (kernel/console.c), which both run.                                     *)
(*                                                                         *)
(* task_tty can lose the CPU between any two instructions but those under  *)
(* cli.  A system call is not switched away from (module Kernel), so that  *)
(* task_tty stands still while a program is in sys_write; the code they    *)
(* share is one set of actions for both.  One action reads or writes       *)
(* fields of a CONSOLE once; `cursor++` and the like are a load and a      *)
(* store.  Of the CRT controller only which console it shows is kept.      *)
(***************************************************************************)
EXTENDS Integers, Sequences

CONSTANTS
  NR_CONSOLES,
  SCREEN_WIDTH,   \* cells of a row
  SCREEN_SIZE,    \* cells of the screen
  ConMemSize,     \* con_v_mem_size: cells of the video memory for a console
  TTY_IN_BYTES,   \* size of an input queue
  Programs,       \* processes other than task_tty, which is process 0
  NrTty,          \* NrTty[p]: p_proc->nr_tty
  Typed,          \* characters of the keys that are used
  FKeys,          \* n where Alt+F(n+1) is used
  Printed         \* characters the programs print

TTY == 0
Actors == {TTY} \cup Programs
Consoles == 0 .. NR_CONSOLES - 1
Space == " "

v_mem_limit == (ConMemSize \div SCREEN_WIDTH) * SCREEN_WIDTH
Original(n) == n * ConMemSize
Cells == 0 .. NR_CONSOLES * ConMemSize - 1

ASSUME ConsoleAssumption ==
  /\ NR_CONSOLES \in Nat \ {0} /\ TTY_IN_BYTES \in Nat \ {0}
  /\ SCREEN_WIDTH \in Nat \ {0} /\ SCREEN_SIZE \in Nat \ {0}
  /\ SCREEN_SIZE % SCREEN_WIDTH = 0
  /\ ConMemSize \in Nat /\ SCREEN_SIZE <= v_mem_limit
  /\ v_mem_limit > 2                   \* room for the number of a console
  /\ TTY \notin Programs
  /\ NrTty \in [Programs -> Consoles]
  /\ FKeys \subseteq Nat

VARIABLES
  vmem,                \* the character of each cell of the video memory
  cursor,              \* cursor[n]: console_table[n].cursor
  current_start_addr,  \* where the visible part of each console starts
  nr_current_console,
  shown,               \* the console on the screen
  in_buf,              \* the input queue of each TTY
  p_tty,               \* the TTY whose turn it is in the loop of task_tty
  ctx                  \* where each process is in this code, and its locals

memory == <<vmem, cursor, current_start_addr>>
tty == <<nr_current_console, in_buf, p_tty>>
vars == <<memory, tty, shown, ctx>>

Chars == Typed \cup Printed \cup {Space, "#"}
Scrolls == {"SCROLL_SCREEN_UP", "SCROLL_SCREEN_DOWN"}

\* con, ch: the arguments of out_char; p_vmem its local; loaded: a register;
\* dir: the argument of scroll_screen; ret: where flush goes on.
Contexts ==
  [pc : {"idle", "read", "write", "test", "cell", "load", "store", "erase", "loop",
         "scroll", "scroll_load", "scroll_store", "flush"},
   con : Consoles, ch : Chars, p_vmem : Int, loaded : Int, dir : Scrolls,
   ret : {"loop", "write", "end"}]

TypeOK ==
  /\ vmem \in [Cells -> Chars]
  /\ cursor \in [Consoles -> Nat]
  /\ current_start_addr \in [Consoles -> Nat]
  /\ nr_current_console \in Consoles
  /\ shown \in Consoles
  /\ \A n \in Consoles : in_buf[n] \in Seq(Typed) /\ Len(in_buf[n]) <= TTY_IN_BYTES
  /\ p_tty \in Consoles
  /\ ctx \in [Actors -> Contexts]

AtRest(w) ==
  [pc |-> IF w = TTY THEN "read" ELSE "idle", con |-> 0, ch |-> Space, p_vmem |-> 0,
   loaded |-> 0, dir |-> "SCROLL_SCREEN_DOWN", ret |-> "end"]

\* What init_tty and select_console(0) leave: the messages of the boot are on
\* the first console, here as spaces, and the number of each on the others.
Init ==
  /\ vmem = [a \in Cells |->
               IF \E n \in Consoles \ {0} : a \in {Original(n), Original(n) + 1}
               THEN "#" ELSE Space]
  /\ \E pos \in 0 .. SCREEN_SIZE - 1 :
       cursor = [n \in Consoles |-> IF n = 0 THEN pos ELSE Original(n) + 2]
  /\ current_start_addr = [n \in Consoles |-> Original(n)]
  /\ nr_current_console = 0
  /\ shown = 0
  /\ in_buf = [n \in Consoles |-> <<>>]
  /\ p_tty = 0
  /\ ctx = [w \in Actors |-> AtRest(w)]

\* The CPU is w's: no other process is inside a system call.
HasCPU(w) == \A p \in Programs \ {w} : ctx[p].pc = "idle"

\* w goes on at pc, with some locals changed.
Goto(w, pc) == ctx' = [ctx EXCEPT ![w].pc = pc]
At(w, pc) == HasCPU(w) /\ ctx[w].pc = pc

-----------------------------------------------------------------------------
(* kernel/tty.c                                                            *)

\* Mutant: a key is left in the queue until another comes.
TtyDoWrite_LeavesOne ==
  /\ At(TTY, "write")
  /\ IF Len(in_buf[p_tty]) > 1
     THEN /\ in_buf' = [in_buf EXCEPT ![p_tty] = Tail(@)]
          /\ ctx' = [ctx EXCEPT ![TTY] = [@ EXCEPT !.pc = "test", !.con = p_tty,
                       !.ch = Head(in_buf[p_tty]), !.p_vmem = cursor[p_tty], !.ret = "end"]]
          /\ UNCHANGED p_tty
     ELSE /\ p_tty' = (p_tty + 1) % NR_CONSOLES
          /\ Goto(TTY, "read")
          /\ UNCHANGED in_buf
  /\ UNCHANGED <<memory, shown, nr_current_console>>

\* tty_do_write: a key from the queue goes to out_char, whose first load of
\* the cursor is for p_vmem.
tty_do_write ==
  /\ At(TTY, "write")
  /\ IF in_buf[p_tty] # <<>>
     THEN /\ in_buf' = [in_buf EXCEPT ![p_tty] = Tail(@)]
          /\ ctx' = [ctx EXCEPT ![TTY] = [@ EXCEPT !.pc = "test", !.con = p_tty,
                       !.ch = Head(in_buf[p_tty]), !.p_vmem = cursor[p_tty], !.ret = "end"]]
          /\ UNCHANGED p_tty
     ELSE /\ p_tty' = (p_tty + 1) % NR_CONSOLES
          /\ Goto(TTY, "read")
          /\ UNCHANGED in_buf
  /\ UNCHANGED <<memory, shown, nr_current_console>>

\* tty_do_read when this is not the console in use, or keyboard_read without
\* a key that means something to in_process.
NoKey ==
  /\ At(TTY, "read")
  /\ Goto(TTY, "write")
  /\ UNCHANGED <<memory, shown, tty>>

ReadsKeyboard == At(TTY, "read") /\ p_tty = nr_current_console

\* put_key
PutKey(ch) ==
  /\ ReadsKeyboard
  /\ in_buf' = IF Len(in_buf[p_tty]) < TTY_IN_BYTES
               THEN [in_buf EXCEPT ![p_tty] = Append(@, ch)] ELSE in_buf
  /\ Goto(TTY, "write")
  /\ UNCHANGED <<memory, shown, nr_current_console, p_tty>>

\* Shift + Up, Shift + Down
ScrollKey(dir) ==
  /\ ReadsKeyboard
  /\ ctx' = [ctx EXCEPT ![TTY] = [@ EXCEPT !.pc = "scroll", !.con = p_tty, !.dir = dir,
                                           !.ret = "write"]]
  /\ UNCHANGED <<memory, shown, tty>>

\* Mutant: the console is selected for the keyboard only.
SelectConsole_NoFlush(n) ==
  /\ ReadsKeyboard
  /\ nr_current_console' = IF n \in Consoles THEN n ELSE nr_current_console
  /\ Goto(TTY, "write")
  /\ UNCHANGED <<memory, shown, in_buf, p_tty>>

\* Alt + F(n+1), select_console
SelectConsole(n) ==
  /\ ReadsKeyboard
  /\ IF n \in Consoles
     THEN /\ nr_current_console' = n
          /\ ctx' = [ctx EXCEPT ![TTY] = [@ EXCEPT !.pc = "flush", !.con = n, !.ret = "write"]]
     ELSE /\ Goto(TTY, "write")
          /\ UNCHANGED nr_current_console
  /\ UNCHANGED <<memory, shown, in_buf, p_tty>>

\* sys_write and tty_write, one character at a time.
sys_write(p, ch) ==
  /\ p # TTY
  /\ At(p, "idle")
  /\ ctx' = [ctx EXCEPT ![p] = [@ EXCEPT !.pc = "test", !.con = NrTty[p], !.ch = ch,
                                         !.p_vmem = cursor[NrTty[p]], !.ret = "end"]]
  /\ UNCHANGED <<memory, shown, tty>>

-----------------------------------------------------------------------------
(* kernel/console.c: out_char, by the process w                            *)

\* Mutant: the last cell is written, and the cursor leaves the memory.
Fits_LastCell(n, ch) ==
  LET pos == cursor[n] - Original(n)
  IN CASE ch = "NL" -> pos < v_mem_limit - SCREEN_WIDTH
       [] ch = "BS" -> pos > 0
       [] OTHER -> pos < v_mem_limit

\* The tests in the three cases of the switch.
Fits(n, ch) ==
  LET pos == cursor[n] - Original(n)
  IN CASE ch = "NL" -> pos < v_mem_limit - SCREEN_WIDTH
       [] ch = "BS" -> pos > 0
       [] OTHER -> pos < v_mem_limit - 1

\* Where the cursor goes from c.
Moved(n, c, ch) ==
  CASE ch = "NL" -> Original(n) + SCREEN_WIDTH * ((c - Original(n)) \div SCREEN_WIDTH + 1)
    [] ch = "BS" -> c - 1
    [] OTHER -> c + 1

Test(w) ==
  /\ At(w, "test")
  /\ Goto(w, IF ~Fits(ctx[w].con, ctx[w].ch) THEN "loop"
             ELSE IF ctx[w].ch \in {"NL", "BS"} THEN "load" ELSE "cell")
  /\ UNCHANGED <<memory, shown, tty>>

\* The character is stored where the cursor was when out_char began.
Cell(w) ==
  /\ At(w, "cell")
  /\ vmem' = [vmem EXCEPT ![ctx[w].p_vmem] = ctx[w].ch]
  /\ Goto(w, "load")
  /\ UNCHANGED <<cursor, current_start_addr, shown, tty>>

Load(w) ==
  /\ At(w, "load")
  /\ ctx' = [ctx EXCEPT ![w].pc = "store", ![w].loaded = cursor[ctx[w].con]]
  /\ UNCHANGED <<memory, shown, tty>>

Store(w) ==
  /\ At(w, "store")
  /\ cursor' = [cursor EXCEPT ![ctx[w].con] = Moved(ctx[w].con, ctx[w].loaded, ctx[w].ch)]
  /\ Goto(w, IF ctx[w].ch = "BS" THEN "erase" ELSE "loop")
  /\ UNCHANGED <<vmem, current_start_addr, shown, tty>>

\* Mutant: the character stays.
Erase_Not(w) ==
  /\ At(w, "erase")
  /\ Goto(w, "loop")
  /\ UNCHANGED <<memory, shown, tty>>

Erase(w) ==
  /\ At(w, "erase")
  /\ vmem' = [vmem EXCEPT ![ctx[w].p_vmem - 1] = Space]
  /\ Goto(w, "loop")
  /\ UNCHANGED <<cursor, current_start_addr, shown, tty>>

\* while (p_con->cursor >= p_con->current_start_addr + SCREEN_SIZE)
Loop(w) ==
  /\ At(w, "loop")
  /\ LET n == ctx[w].con
     IN ctx' = [ctx EXCEPT ![w] =
          IF cursor[n] >= current_start_addr[n] + SCREEN_SIZE
          THEN [@ EXCEPT !.pc = "scroll", !.dir = "SCROLL_SCREEN_DOWN", !.ret = "loop"]
          ELSE [@ EXCEPT !.pc = "flush", !.ret = "end"]]
  /\ UNCHANGED <<memory, shown, tty>>

-----------------------------------------------------------------------------
(* scroll_screen and flush                                                 *)

\* Mutant: the start is not held back at either end.
MayScroll_Always(n, dir) == TRUE

MayScroll(n, dir) ==
  IF dir = "SCROLL_SCREEN_UP"
  THEN current_start_addr[n] > Original(n)
  ELSE current_start_addr[n] + SCREEN_SIZE < Original(n) + v_mem_limit

scroll_screen(w) ==
  /\ At(w, "scroll")
  /\ Goto(w, IF MayScroll(ctx[w].con, ctx[w].dir) THEN "scroll_load" ELSE "flush")
  /\ UNCHANGED <<memory, shown, tty>>

ScrollLoad(w) ==
  /\ At(w, "scroll_load")
  /\ ctx' = [ctx EXCEPT ![w].pc = "scroll_store",
                        ![w].loaded = current_start_addr[ctx[w].con]]
  /\ UNCHANGED <<memory, shown, tty>>

ScrollStore(w) ==
  /\ At(w, "scroll_store")
  /\ current_start_addr' = [current_start_addr EXCEPT ![ctx[w].con] =
       IF ctx[w].dir = "SCROLL_SCREEN_UP" THEN ctx[w].loaded - SCREEN_WIDTH
                                          ELSE ctx[w].loaded + SCREEN_WIDTH]
  /\ Goto(w, "flush")
  /\ UNCHANGED <<vmem, cursor, shown, tty>>

\* flush: whichever console it is for is then the one on the screen.  At the
\* end of out_char task_tty goes on with the next TTY, a program returns.
flush(w) ==
  /\ At(w, "flush")
  /\ shown' = ctx[w].con
  /\ ctx' = [ctx EXCEPT ![w] = IF @.ret = "end" THEN AtRest(w)
                               ELSE [@ EXCEPT !.pc = ctx[w].ret]]
  /\ p_tty' = IF w = TTY /\ ctx[w].ret = "end" THEN (p_tty + 1) % NR_CONSOLES ELSE p_tty
  /\ UNCHANGED <<memory, nr_current_console, in_buf>>

out_char(w) ==
  \/ Test(w) \/ Cell(w) \/ Load(w) \/ Store(w) \/ Erase(w) \/ Loop(w)
  \/ scroll_screen(w) \/ ScrollLoad(w) \/ ScrollStore(w) \/ flush(w)

in_process ==
  \/ \E ch \in Typed : PutKey(ch)
  \/ \E dir \in Scrolls : ScrollKey(dir)
  \/ \E n \in FKeys : SelectConsole(n)

TaskTty == in_process \/ NoKey \/ tty_do_write \/ out_char(TTY)

Next ==
  \/ TaskTty
  \/ \E p \in Programs : out_char(p) \/ \E ch \in Printed : sys_write(p, ch)

Spec == Init /\ [][Next]_vars

\* A system call executes to its end, and task_tty runs again and again, as it
\* does unless each tick falls inside the kernel (module Kernel,
\* StarvedOnlyByNesting).
Fairness == SF_vars(TaskTty) /\ \A p \in Programs : WF_vars(out_char(p))

-----------------------------------------------------------------------------
(* Properties.  Those about the memory hold as long as no program writes   *)
(* on a console in the middle of an echo of task_tty on it: task_tty can   *)
(* be switched away from between any test in out_char or scroll_screen and *)
(* what it guards.                                                         *)

Apart ==
  \A p \in Programs : ctx[p].pc # "idle" => ctx[TTY].pc \in {"read", "write"} \/ ctx[TTY].con # ctx[p].con

\* The behaviours that keep to that.
ApartSpec == Init /\ [][Next /\ Apart']_vars

\* The cursor of a console is in the console's part of the video memory.
CursorInConsole ==
  \A n \in Consoles : cursor[n] \in Original(n) .. Original(n) + v_mem_limit - 1

\* So is the whole screen that shows it.
WindowInConsole ==
  \A n \in Consoles :
    /\ current_start_addr[n] >= Original(n)
    /\ current_start_addr[n] + SCREEN_SIZE <= Original(n) + v_mem_limit

\* What a console shows and where it writes is its own memory, whatever the
\* other consoles do.
InConsole == TypeOK /\ CursorInConsole /\ WindowInConsole

\* put_key never finds a queue full: a key is taken out of it in the round in
\* which it came, whichever console is selected meanwhile.
NoKeyDropped == ctx[TTY].pc = "read" => \A n \in Consoles : in_buf[n] = <<>>

\* The screen shows the console that the keys go to, or one that a program
\* writes on, but not another: what is echoed after a change of consoles is
\* for the new one.
ScreenFollowsSelection ==
  ctx[TTY].pc = "read" => shown \in {nr_current_console} \cup {NrTty[p] : p \in Programs}

\* The text on each console is what was written there, although task_tty is
\* interrupted in the middle of out_char, programs write on other consoles
\* and the next console begins where one ends.
Text(n) == [i \in 1 .. cursor[n] - Original(n) |-> vmem[Original(n) + i - 1]]

Writers == INSTANCE Terminal WITH
  Blank <- Space,
  Limit <- v_mem_limit,
  Width <- SCREEN_WIDTH,
  text <- [n \in Consoles |-> Text(n)]

ImplementsTerminal == Writers!TerminalSpec

\* out_char comes to its end: the loop that scrolls until the cursor is on
\* the screen does not wait for a scroll that scroll_screen refuses.
OutCharReturns ==
  \A w \in Actors :
    ctx[w].pc \notin {"idle", "read", "write"} ~> ctx[w].pc \in {"idle", "read", "write"}
=============================================================================
