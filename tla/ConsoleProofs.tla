---------------------------- MODULE ConsoleProofs ----------------------------
(***************************************************************************)
(* The safety of module Console, and that it implements Terminal, for any  *)
(* number of consoles and programs, any size of the screen, the video      *)
(* memory and the queues, and any keys.                                    *)
(*                                                                         *)
(* KeysInv is kept by every step of Next.  MemoryInv is kept by those that *)
(* keep to Apart: it says of a call that what it has tested and loaded is  *)
(* still so when it stores.                                                *)
(***************************************************************************)
EXTENDS Console, SequenceTheorems, TLAPS

Busy(w) == ctx[w].pc \notin {"idle", "read", "write"}
TtyAt(pcs) == ctx[TTY].pc \in pcs

-----------------------------------------------------------------------------
(* The keys and the screen, whatever the programs do.                      *)

RoughTypes ==
  /\ cursor \in [Consoles -> Int]
  /\ current_start_addr \in [Consoles -> Int]
  /\ nr_current_console \in Consoles
  /\ shown \in Consoles
  /\ in_buf \in [Consoles -> Seq(Typed)]
  /\ p_tty \in Consoles
  /\ ctx \in [Actors -> Contexts]

\* Who is where in the code, and what for.
Roles ==
  /\ ctx[TTY].pc # "idle"
  /\ \A p \in Programs :
       /\ ctx[p].pc \notin {"read", "write"}
       /\ Busy(p) => ctx[p].con = NrTty[p] /\ ctx[p].ret # "write"

\* There is a key in a queue only between put_key and tty_do_write of the
\* same round, and only one, and in that of the console in use.
KeysOnTheirWay ==
  /\ ~TtyAt({"write"}) => \A n \in Consoles : in_buf[n] = <<>>
  /\ \A n \in Consoles : n # p_tty => in_buf[n] = <<>>
  /\ Len(in_buf[p_tty]) <= 1
  /\ in_buf[p_tty] # <<>> => p_tty = nr_current_console

\* task_tty is in this code for the console in use only, and what the screen
\* shows is what should be there, or will be once flush is done.
TtyServesSelection ==
  /\ Busy(TTY) => ctx[TTY].con = nr_current_console
  /\ shown \in {nr_current_console} \cup {NrTty[p] : p \in Programs} \/ TtyAt({"flush"})

KeysInv == RoughTypes /\ Roles /\ KeysOnTheirWay /\ TtyServesSelection

-----------------------------------------------------------------------------
(* The memory, as long as programs and echoes keep apart.                  *)

\* At most one program is in a system call.
OneProgram == \A p, q \in Programs : p # q => ctx[p].pc = "idle" \/ ctx[q].pc = "idle"

\* Cursor and window of a console are in it, and the window begins with a row.
ConsoleSound(n) ==
  /\ cursor[n] \in Original(n) .. Original(n) + v_mem_limit - 1
  /\ \E k \in 0 .. v_mem_limit : current_start_addr[n] = Original(n) + k * SCREEN_WIDTH
  /\ current_start_addr[n] + SCREEN_SIZE <= Original(n) + v_mem_limit

\* The cell at the cursor is written before the cursor moves on, and erased
\* after it has moved back.
InTheMiddle(w) ==
  \/ ctx[w].pc = "erase"
  \/ ctx[w].pc \in {"load", "store"} /\ ctx[w].ch \notin {"NL", "BS"}

\* Behind the cursor everything is blank but what is in the middle of it.
BlankBeyond(n) ==
  \A a \in cursor[n] .. Original(n) + v_mem_limit - 1 :
    vmem[a] # Space => a = cursor[n] /\ \E w \in Actors : ctx[w].con = n /\ InTheMiddle(w)

\* What has been tested still holds, and what has been loaded is still there.
CallKnows(w) ==
  LET n == ctx[w].con
  IN /\ ctx[w].pc \in {"test", "cell", "load", "store"} => ctx[w].p_vmem = cursor[n]
     /\ ctx[w].pc \in {"cell", "load", "store"} => Fits(n, ctx[w].ch)
     /\ ctx[w].pc = "cell" => ctx[w].ch \notin {"NL", "BS"}
     /\ ctx[w].pc \in {"load", "store"} /\ ctx[w].ch \notin {"NL", "BS"} => vmem[cursor[n]] = ctx[w].ch
     /\ ctx[w].pc = "store" => ctx[w].loaded = cursor[n]
     /\ ctx[w].pc = "erase" => ctx[w].p_vmem = cursor[n] + 1
     /\ ctx[w].pc \in {"scroll_load", "scroll_store"} => MayScroll(n, ctx[w].dir)
     /\ ctx[w].pc = "scroll_store" => ctx[w].loaded = current_start_addr[n]

MemoryInv ==
  /\ KeysInv /\ vmem \in [Cells -> Chars] /\ OneProgram /\ Apart
  /\ \A n \in Consoles : ConsoleSound(n) /\ BlankBeyond(n)
  /\ \A w \in Actors : CallKnows(w)

-----------------------------------------------------------------------------
(* Facts about the parts.                                                  *)

LEMMA ActorFacts == TTY \in Actors /\ Programs \subseteq Actors /\ TTY \notin Programs
BY ConsoleAssumption DEF Actors

LEMMA ConsoleFacts ==
  /\ Consoles \subseteq Nat /\ 0 \in Consoles
  /\ \A n \in Consoles : (n + 1) % NR_CONSOLES \in Consoles
<1>1. NR_CONSOLES \in Nat \ {0}
  BY ConsoleAssumption
<1>2. ASSUME NEW n \in Consoles PROVE (n + 1) % NR_CONSOLES \in Consoles
  <2>1. (n + 1) % NR_CONSOLES \in 0 .. NR_CONSOLES - 1
    BY <1>1 DEF Consoles
  <2> QED BY <2>1 DEF Consoles
<1> QED BY <1>1, <1>2 DEF Consoles

LEMMA SizeFacts ==
  /\ SCREEN_WIDTH \in Nat \ {0} /\ SCREEN_SIZE \in Nat \ {0} /\ ConMemSize \in Nat
  /\ \A n \in Consoles : Original(n) \in Nat
<1>1. ASSUME NEW n \in Nat, NEW m \in Nat PROVE n * m \in Nat
  BY <1>1
<1> QED BY <1>1, ConsoleAssumption, ConsoleFacts DEF Original

\* What a context is made of.
LEMMA ContextFields ==
  ASSUME NEW c \in Contexts
  PROVE  /\ c.con \in Consoles /\ c.ch \in Chars /\ c.p_vmem \in Int /\ c.loaded \in Int
         /\ c.dir \in Scrolls /\ c.ret \in {"loop", "write", "end"}
BY DEF Contexts

LEMMA AtRestIsContext == \A w : AtRest(w) \in Contexts
BY ConsoleFacts DEF AtRest, Contexts, Chars, Scrolls

LEMMA GotoIsContext ==
  ASSUME NEW c \in Contexts,
         NEW pc \in {"idle", "read", "write", "test", "cell", "load", "store", "erase", "loop",
                     "scroll", "scroll_load", "scroll_store", "flush"}
  PROVE  [c EXCEPT !.pc = pc] \in Contexts
BY DEF Contexts

\* A step of w changes the context of w only.
LEMMA OthersStay ==
  ASSUME NEW w \in Actors, NEW c, ctx \in [Actors -> Contexts], ctx' = [ctx EXCEPT ![w] = c]
  PROVE  ctx'[w] = c /\ \A v \in Actors \ {w} : ctx'[v] = ctx[v]
OBVIOUS

\* A step within the code: all of out_char and scroll_screen but its end.
InCode(w) ==
  \/ Test(w) \/ Cell(w) \/ Load(w) \/ Store(w) \/ Erase(w) \/ Loop(w)
  \/ scroll_screen(w) \/ ScrollLoad(w) \/ ScrollStore(w)

\* It keeps to the console it was called for.
LEMMA InCodeStep ==
  ASSUME RoughTypes, NEW w \in Actors, InCode(w)
  PROVE  /\ UNCHANGED <<tty, shown>>
         /\ RoughTypes'
         /\ Busy(w) /\ ctx[w].pc # "flush" /\ Busy(w)'
         /\ \A v \in Actors \ {w} : ctx'[v] = ctx[v]
         /\ ctx'[w].con = ctx[w].con /\ ctx'[w].ch = ctx[w].ch /\ ctx'[w].p_vmem = ctx[w].p_vmem
         /\ ctx'[w].ret \in {ctx[w].ret, "loop", "end"}
<1> DEFINE Step(c) ==
      /\ ctx' = [ctx EXCEPT ![w] = c] /\ c \in Contexts
      /\ c.con = ctx[w].con /\ c.ch = ctx[w].ch /\ c.p_vmem = ctx[w].p_vmem
      /\ c.ret \in {ctx[w].ret, "loop", "end"} /\ c.pc \notin {"idle", "read", "write"}
<1>1. ctx[w] \in Contexts /\ ctx[w].con \in Consoles
  BY ContextFields DEF RoughTypes
<1>2. UNCHANGED <<tty, shown>>
  BY DEF InCode, Test, Cell, Load, Store, Erase, Loop, scroll_screen, ScrollLoad, ScrollStore
<1>3. Busy(w) /\ ctx[w].pc # "flush"
  BY DEF InCode, Test, Cell, Load, Store, Erase, Loop, scroll_screen, ScrollLoad, ScrollStore,
         At, Busy
<1>4. \E c : Step(c)
  <2>1. ASSUME NEW pc \in {"cell", "load", "erase", "loop", "scroll_load", "flush"},
               ctx' = [ctx EXCEPT ![w].pc = pc]
        PROVE  \E c : Step(c)
    <3>1. [ctx[w] EXCEPT !.pc = pc] \in Contexts
      BY <1>1, GotoIsContext
    <3>2. Step([ctx[w] EXCEPT !.pc = pc])
      BY <1>1, <2>1, <3>1 DEF Contexts
    <3> QED BY <3>2
  <2>2. ASSUME NEW pc \in {"store", "scroll_store"}, NEW x \in Int,
               ctx' = [ctx EXCEPT ![w].pc = pc, ![w].loaded = x]
        PROVE  \E c : Step(c)
    <3>1. Step([ctx[w] EXCEPT !.pc = pc, !.loaded = x])
      BY <1>1, <2>2 DEF Contexts, RoughTypes
    <3> QED BY <3>1
  <2>3. CASE Test(w)
    BY <2>1, <2>3 DEF Test, Goto
  <2>4. CASE Cell(w)
    BY <2>1, <2>4 DEF Cell, Goto
  <2>5. CASE Load(w)
    BY <1>1, <2>2, <2>5 DEF Load, RoughTypes
  <2>6. CASE Store(w)
    BY <2>1, <2>6 DEF Store, Goto
  <2>7. CASE Erase(w)
    BY <2>1, <2>7 DEF Erase, Goto
  <2>8. CASE Loop(w)
    <3> DEFINE c == IF cursor[ctx[w].con] >= current_start_addr[ctx[w].con] + SCREEN_SIZE
                    THEN [ctx[w] EXCEPT !.pc = "scroll", !.dir = "SCROLL_SCREEN_DOWN", !.ret = "loop"]
                    ELSE [ctx[w] EXCEPT !.pc = "flush", !.ret = "end"]
    <3>1. ctx' = [ctx EXCEPT ![w] = c]
      BY <2>8 DEF Loop
    <3>2. c \in Contexts /\ c.con = ctx[w].con /\ c.ch = ctx[w].ch /\ c.p_vmem = ctx[w].p_vmem
          /\ c.ret \in {"loop", "end"} /\ c.pc \notin {"idle", "read", "write"}
      BY <1>1 DEF Contexts, Scrolls
    <3> QED BY <3>1, <3>2
  <2>9. CASE scroll_screen(w)
    BY <2>1, <2>9 DEF scroll_screen, Goto
  <2>10. CASE ScrollLoad(w)
    BY <1>1, <2>2, <2>10 DEF ScrollLoad, RoughTypes
  <2>11. CASE ScrollStore(w)
    BY <2>1, <2>11 DEF ScrollStore, Goto
  <2> QED BY <2>3, <2>4, <2>5, <2>6, <2>7, <2>8, <2>9, <2>10, <2>11 DEF InCode
<1>5. cursor' \in [Consoles -> Int] /\ current_start_addr' \in [Consoles -> Int]
  <2>1. CASE Store(w)
    <3>1. ctx[w].loaded \in Int
      BY <1>1, ContextFields
    <3>2. Moved(ctx[w].con, ctx[w].loaded, ctx[w].ch) \in Int
      <4>1. SCREEN_WIDTH \in Nat \ {0} /\ Original(ctx[w].con) \in Nat
        BY <1>1, SizeFacts
      <4>2. (ctx[w].loaded - Original(ctx[w].con)) \div SCREEN_WIDTH \in Int
        BY <3>1, <4>1
      <4> QED BY <3>1, <4>1, <4>2 DEF Moved
    <3> QED BY <1>1, <2>1, <3>2 DEF Store, RoughTypes
  <2>2. CASE ScrollStore(w)
    <3>1. ctx[w].loaded \in Int /\ SCREEN_WIDTH \in Int
      BY <1>1, ContextFields, ConsoleAssumption
    <3> QED BY <1>1, <2>2, <3>1, SMTT(30) DEF ScrollStore, RoughTypes
  <2>3. CASE ~Store(w) /\ ~ScrollStore(w)
    BY <2>3 DEF InCode, Test, Cell, Load, Erase, Loop, scroll_screen, ScrollLoad, RoughTypes, memory
  <2> QED BY <2>1, <2>2, <2>3
<1>6. PICK c : Step(c)
  BY <1>4
<1> HIDE DEF Step
<1>7. ctx' = [ctx EXCEPT ![w] = c] /\ c \in Contexts
  BY <1>6 DEF Step
<1>8. ctx'[w] = c /\ \A v \in Actors \ {w} : ctx'[v] = ctx[v]
  BY <1>7, OthersStay DEF RoughTypes
<1>9. RoughTypes'
  BY <1>2, <1>5, <1>7 DEF RoughTypes, tty
<1> QED BY <1>2, <1>3, <1>6, <1>8, <1>9 DEF Step, Busy

\* The end of scroll_screen, and of out_char.
LEMMA FlushStep ==
  ASSUME RoughTypes, NEW w \in Actors, flush(w)
  PROVE  /\ UNCHANGED <<memory, nr_current_console, in_buf>>
         /\ RoughTypes'
         /\ ctx[w].pc = "flush" /\ shown' = ctx[w].con
         /\ \A v \in Actors \ {w} : ctx'[v] = ctx[v]
         /\ IF ctx[w].ret = "end"
            THEN ctx'[w] = AtRest(w) /\ p_tty' \in {p_tty, (p_tty + 1) % NR_CONSOLES} /\ (w # TTY => p_tty' = p_tty)
            ELSE /\ ctx'[w].pc = ctx[w].ret /\ UNCHANGED p_tty
                 /\ ctx'[w].con = ctx[w].con /\ ctx'[w].ret = ctx[w].ret /\ ctx'[w].ch = ctx[w].ch
<1> DEFINE c == IF ctx[w].ret = "end" THEN AtRest(w) ELSE [ctx[w] EXCEPT !.pc = ctx[w].ret]
<1>1. ctx[w] \in Contexts /\ ctx[w].ret \in {"loop", "write", "end"}
  BY ContextFields DEF RoughTypes
<1>2. c \in Contexts
  BY <1>1, AtRestIsContext, GotoIsContext
<1>3. ctx' = [ctx EXCEPT ![w] = c]
  BY DEF flush
<1>4. ctx'[w] = c /\ \A v \in Actors \ {w} : ctx'[v] = ctx[v]
  BY <1>3, OthersStay DEF RoughTypes
<1>5. ctx[w].ret # "end" =>
        /\ c.pc = ctx[w].ret /\ c.con = ctx[w].con /\ c.ret = ctx[w].ret /\ c.ch = ctx[w].ch
  BY <1>1 DEF Contexts
<1>6. ctx' \in [Actors -> Contexts]
  BY <1>2, <1>3 DEF RoughTypes
<1>7. p_tty' \in Consoles
  BY ConsoleFacts DEF flush, RoughTypes
<1>8. UNCHANGED <<memory, nr_current_console, in_buf>>
  BY DEF flush
<1>9. RoughTypes'
  <2>1. shown' \in Consoles
    BY <1>1, ContextFields DEF flush
  <2> QED BY <1>6, <1>7, <1>8, <2>1 DEF RoughTypes, memory
<1>10. ctx[w].pc = "flush" /\ shown' = ctx[w].con
  BY DEF flush, At
<1>11. p_tty' = IF w = TTY /\ ctx[w].ret = "end" THEN (p_tty + 1) % NR_CONSOLES ELSE p_tty
  BY DEF flush
<1> HIDE DEF c
<1>12. CASE ctx[w].ret = "end"
  <2>1. ctx'[w] = AtRest(w)
    BY <1>4, <1>12 DEF c
  <2> QED BY <1>4, <1>8, <1>9, <1>10, <1>11, <1>12, <2>1
<1>13. CASE ctx[w].ret # "end"
  BY <1>4, <1>5, <1>8, <1>9, <1>10, <1>11, <1>13
<1> QED BY <1>12, <1>13

\* in_process and tty_do_write: task_tty enters the code, or goes on.
TtySteps == in_process \/ NoKey \/ tty_do_write
LEMMA TtyStep ==
  ASSUME RoughTypes, TtySteps
  PROVE  /\ UNCHANGED <<memory, shown>>
         /\ RoughTypes'
         /\ ctx' = [ctx EXCEPT ![TTY] = ctx'[TTY]]
         /\ \A v \in Actors \ {TTY} : ctx'[v] = ctx[v]
         /\ \/ /\ TtyAt({"read"}) /\ ctx'[TTY].pc = "write" /\ UNCHANGED <<p_tty, nr_current_console>>
               /\ \/ UNCHANGED in_buf
                  \/ /\ p_tty = nr_current_console
                     /\ \E ch \in Typed : in_buf' = [in_buf EXCEPT ![p_tty] = Append(@, ch)]
            \/ /\ TtyAt({"read"}) /\ UNCHANGED <<in_buf, p_tty>>
               /\ \/ ctx'[TTY].pc = "scroll" /\ p_tty = nr_current_console /\ UNCHANGED nr_current_console
                  \/ ctx'[TTY].pc = "flush" /\ nr_current_console' \in Consoles
               /\ ctx'[TTY].con = nr_current_console' /\ ctx'[TTY].ret = "write"
            \/ /\ TtyAt({"write"}) /\ in_buf[p_tty] # <<>> /\ UNCHANGED <<p_tty, nr_current_console>>
               /\ in_buf' = [in_buf EXCEPT ![p_tty] = Tail(@)]
               /\ ctx'[TTY].pc = "test" /\ ctx'[TTY].con = p_tty /\ ctx'[TTY].ret = "end"
               /\ ctx'[TTY].p_vmem = cursor[p_tty] /\ ctx'[TTY].ch = Head(in_buf[p_tty])
            \/ /\ TtyAt({"write"}) /\ in_buf[p_tty] = <<>> /\ UNCHANGED <<in_buf, nr_current_console>>
               /\ p_tty' = (p_tty + 1) % NR_CONSOLES
               /\ ctx'[TTY].pc = "read"
<1> USE ActorFacts
<1> DEFINE c0 == ctx[TTY]
<1>1. c0 \in Contexts /\ p_tty \in Consoles /\ nr_current_console \in Consoles
  BY DEF RoughTypes
<1>2. ASSUME NEW c \in Contexts, ctx' = [ctx EXCEPT ![TTY] = c]
      PROVE  /\ ctx' \in [Actors -> Contexts] /\ ctx'[TTY] = c
             /\ ctx' = [ctx EXCEPT ![TTY] = ctx'[TTY]]
             /\ \A v \in Actors \ {TTY} : ctx'[v] = ctx[v]
  BY <1>2, OthersStay DEF RoughTypes
<1>3. ASSUME NEW pc \in {"read", "write"}, Goto(TTY, pc)
      PROVE  /\ ctx' \in [Actors -> Contexts] /\ ctx'[TTY].pc = pc
             /\ ctx' = [ctx EXCEPT ![TTY] = ctx'[TTY]]
             /\ \A v \in Actors \ {TTY} : ctx'[v] = ctx[v]
  <2> DEFINE c == [c0 EXCEPT !.pc = pc]
  <2>1. c \in Contexts
    BY <1>1, GotoIsContext
  <2>2. c.pc = pc
    BY <1>1 DEF Contexts
  <2>3. ctx' = [ctx EXCEPT ![TTY] = c]
    BY <1>3 DEF Goto
  <2> HIDE DEF c
  <2> QED BY <1>2, <2>1, <2>2, <2>3
<1>4. CASE NoKey
  BY <1>3, <1>4 DEF NoKey, At, TtyAt, RoughTypes, tty, memory
<1>5. ASSUME NEW ch \in Typed, PutKey(ch)
      PROVE  /\ in_buf' \in [Consoles -> Seq(Typed)]
             /\ \/ UNCHANGED in_buf
                \/ in_buf' = [in_buf EXCEPT ![p_tty] = Append(@, ch)]
  BY <1>1, <1>5 DEF PutKey, RoughTypes
<1>6. CASE \E ch \in Typed : PutKey(ch)
  BY <1>3, <1>5, <1>6 DEF PutKey, ReadsKeyboard, At, TtyAt, RoughTypes, memory
<1>7. CASE \E dir \in Scrolls : ScrollKey(dir)
  <2>1. PICK dir \in Scrolls : ScrollKey(dir)
    BY <1>7
  <2> DEFINE c == [c0 EXCEPT !.pc = "scroll", !.con = p_tty, !.dir = dir, !.ret = "write"]
  <2>2. c \in Contexts /\ c.pc = "scroll" /\ c.con = p_tty /\ c.ret = "write"
    BY <1>1 DEF Contexts
  <2>3. ctx' = [ctx EXCEPT ![TTY] = c]
    BY <2>1 DEF ScrollKey
  <2> HIDE DEF c
  <2> QED BY <1>2, <2>1, <2>2, <2>3 DEF ScrollKey, ReadsKeyboard, At, TtyAt, RoughTypes, tty, memory
<1>8. CASE \E n \in FKeys : SelectConsole(n)
  <2>1. PICK n \in FKeys : SelectConsole(n)
    BY <1>8
  <2>2. CASE n \in Consoles
    <3> DEFINE c == [c0 EXCEPT !.pc = "flush", !.con = n, !.ret = "write"]
    <3>1. c \in Contexts /\ c.pc = "flush" /\ c.con = n /\ c.ret = "write"
      BY <1>1, <2>2 DEF Contexts
    <3>2. ctx' = [ctx EXCEPT ![TTY] = c]
      BY <2>1, <2>2 DEF SelectConsole
    <3> HIDE DEF c
    <3> QED BY <1>2, <2>1, <2>2, <3>1, <3>2 DEF SelectConsole, ReadsKeyboard, At, TtyAt, RoughTypes, memory
  <2>3. CASE n \notin Consoles
    BY <1>3, <2>1, <2>3 DEF SelectConsole, ReadsKeyboard, At, TtyAt, RoughTypes, memory
  <2> QED BY <2>2, <2>3
<1>9. CASE tty_do_write
  <2>1. CASE in_buf[p_tty] # <<>>
    <3> DEFINE c == [c0 EXCEPT !.pc = "test", !.con = p_tty, !.ch = Head(in_buf[p_tty]),
                               !.p_vmem = cursor[p_tty], !.ret = "end"]
    <3>1. in_buf[p_tty] \in Seq(Typed) /\ cursor[p_tty] \in Int
      BY <1>1 DEF RoughTypes
    <3>2. Head(in_buf[p_tty]) \in Chars /\ Tail(in_buf[p_tty]) \in Seq(Typed)
      BY <2>1, <3>1 DEF Chars
    <3>3. c \in Contexts /\ c.pc = "test" /\ c.con = p_tty /\ c.ret = "end" /\ c.p_vmem = cursor[p_tty]
          /\ c.ch = Head(in_buf[p_tty])
      BY <1>1, <3>1, <3>2 DEF Contexts
    <3>4. ctx' = [ctx EXCEPT ![TTY] = c] /\ in_buf' = [in_buf EXCEPT ![p_tty] = Tail(@)]
      BY <1>9, <2>1 DEF tty_do_write
    <3>5. in_buf' \in [Consoles -> Seq(Typed)]
      BY <3>2, <3>4 DEF RoughTypes
    <3> HIDE DEF c
    <3> QED BY <1>2, <1>9, <2>1, <3>3, <3>4, <3>5 DEF tty_do_write, At, TtyAt, RoughTypes, memory
  <2>2. CASE in_buf[p_tty] = <<>>
    BY <1>1, <1>3, <1>9, <2>2, ConsoleFacts DEF tty_do_write, At, TtyAt, RoughTypes, memory
  <2> QED BY <2>1, <2>2
<1> QED BY <1>4, <1>6, <1>7, <1>8, <1>9 DEF TtySteps, in_process

\* A system call enters the code.
LEMMA WriteStep ==
  ASSUME RoughTypes, NEW p \in Programs, NEW ch \in Printed, sys_write(p, ch)
  PROVE  /\ UNCHANGED <<memory, shown, tty>>
         /\ RoughTypes'
         /\ \A v \in Actors \ {p} : ctx'[v] = ctx[v]
         /\ HasCPU(p) /\ ctx[p].pc = "idle"
         /\ ctx'[p].pc = "test" /\ ctx'[p].con = NrTty[p] /\ ctx'[p].ret = "end" /\ ctx'[p].ch = ch
         /\ ctx'[p].p_vmem = cursor[NrTty[p]]
<1> DEFINE c == [ctx[p] EXCEPT !.pc = "test", !.con = NrTty[p], !.ch = ch,
                               !.p_vmem = cursor[NrTty[p]], !.ret = "end"]
<1>1. p \in Actors /\ NrTty[p] \in Consoles /\ ctx[p] \in Contexts
  BY ActorFacts, ConsoleAssumption DEF RoughTypes
<1>2. cursor[NrTty[p]] \in Int /\ ch \in Chars
  BY <1>1 DEF RoughTypes, Chars
<1>3. c \in Contexts /\ c.pc = "test" /\ c.con = NrTty[p] /\ c.ret = "end" /\ c.ch = ch
      /\ c.p_vmem = cursor[NrTty[p]]
  BY <1>1, <1>2 DEF Contexts
<1>4. ctx' = [ctx EXCEPT ![p] = c]
  BY DEF sys_write
<1> HIDE DEF c
<1>5. ctx' \in [Actors -> Contexts]
  BY <1>1, <1>3, <1>4 DEF RoughTypes
<1>6. ctx'[p] = c /\ \A v \in Actors \ {p} : ctx'[v] = ctx[v]
  BY <1>1, <1>4, OthersStay DEF RoughTypes
<1>7. UNCHANGED <<memory, shown, tty>> /\ At(p, "idle")
  BY DEF sys_write
<1> QED BY <1>3, <1>5, <1>6, <1>7 DEF RoughTypes, memory, tty, At

-----------------------------------------------------------------------------
(* The keys and the screen.                                                *)

LEMMA KeysInit == Init => KeysInv
<1> SUFFICES ASSUME Init PROVE KeysInv
  OBVIOUS
<1> USE DEF Init
<1>1. RoughTypes
  <2>1. \A n \in Consoles : Original(n) \in Int /\ Original(n) + 2 \in Int
    BY SizeFacts
  <2>2. cursor \in [Consoles -> Int]
    BY <2>1, SizeFacts
  <2>3. current_start_addr \in [Consoles -> Int]
    BY <2>1
  <2>4. in_buf \in [Consoles -> Seq(Typed)]
    OBVIOUS
  <2> QED BY <2>2, <2>3, <2>4, ConsoleFacts, AtRestIsContext DEF RoughTypes
<1>2. Roles /\ ~Busy(TTY)
  BY ActorFacts DEF Roles, Busy, AtRest
<1>3. KeysOnTheirWay
  BY ConsoleFacts DEF KeysOnTheirWay
<1> QED BY <1>1, <1>2, <1>3 DEF KeysInv, TtyServesSelection

LEMMA KeysByCode ==
  ASSUME KeysInv, NEW w \in Actors, InCode(w)
  PROVE  KeysInv'
<1>1. /\ UNCHANGED <<tty, shown>>
      /\ RoughTypes'
      /\ Busy(w) /\ ctx[w].pc # "flush" /\ Busy(w)'
      /\ \A v \in Actors \ {w} : ctx'[v] = ctx[v]
      /\ ctx'[w].con = ctx[w].con
      /\ ctx'[w].ret \in {ctx[w].ret, "loop", "end"}
  BY InCodeStep DEF KeysInv
<1>2. Roles'
  BY <1>1, ActorFacts DEF KeysInv, Roles, Busy
<1>3. KeysOnTheirWay'
  BY <1>1, ActorFacts DEF KeysInv, KeysOnTheirWay, TtyAt, Busy, tty
<1>4. TtyServesSelection'
  BY <1>1, ActorFacts DEF KeysInv, TtyServesSelection, TtyAt, Busy, tty
<1> QED BY <1>1, <1>2, <1>3, <1>4 DEF KeysInv

LEMMA KeysByFlush ==
  ASSUME KeysInv, NEW w \in Actors, flush(w)
  PROVE  KeysInv'
<1>1. /\ UNCHANGED <<memory, nr_current_console, in_buf>>
      /\ RoughTypes'
      /\ ctx[w].pc = "flush" /\ shown' = ctx[w].con
      /\ \A v \in Actors \ {w} : ctx'[v] = ctx[v]
      /\ ctx[w].ret = "end" => ctx'[w] = AtRest(w)
      /\ ctx[w].ret # "end" => ctx'[w].pc = ctx[w].ret /\ ctx'[w].con = ctx[w].con /\ ctx'[w].ret = ctx[w].ret
  BY FlushStep DEF KeysInv
<1>2. ctx[w].ret \in {"loop", "write", "end"}
  BY ContextFields DEF KeysInv, RoughTypes
<1>3. Roles'
  BY <1>1, <1>2, ActorFacts DEF KeysInv, Roles, Busy, AtRest
<1>4. p_tty' = p_tty \/ (TtyAt({"flush"}) /\ ~TtyAt({"write"})')
  <2>1. (w # TTY \/ ctx[w].ret # "end") => p_tty' = p_tty
    BY FlushStep DEF KeysInv
  <2> QED BY <1>1, <2>1 DEF TtyAt, AtRest
<1>5. KeysOnTheirWay'
  <2>1. CASE w = TTY
    <3>1. \A n \in Consoles : in_buf'[n] = <<>>
      BY <1>1, <2>1 DEF KeysInv, KeysOnTheirWay, TtyAt
    <3> QED BY <1>1, <3>1 DEF KeysOnTheirWay, RoughTypes
  <2>2. CASE w # TTY
    <3>1. p_tty' = p_tty /\ ctx'[TTY] = ctx[TTY]
      BY <1>1, <2>2, ActorFacts, FlushStep DEF KeysInv
    <3> QED BY <1>1, <3>1 DEF KeysInv, KeysOnTheirWay, TtyAt
  <2> QED BY <2>1, <2>2
<1>6. TtyServesSelection'
  <2>1. CASE w = TTY
    BY <1>1, <1>2, <2>1 DEF KeysInv, TtyServesSelection, Busy, AtRest
  <2>2. CASE w # TTY
    <3>1. w \in Programs /\ ctx'[TTY] = ctx[TTY] /\ ctx[w].con = NrTty[w]
      BY <1>1, <2>2, ActorFacts DEF Actors, KeysInv, Roles, Busy
    <3> QED BY <1>1, <3>1 DEF KeysInv, TtyServesSelection, TtyAt, Busy
  <2> QED BY <2>1, <2>2
<1> QED BY <1>1, <1>3, <1>5, <1>6 DEF KeysInv

LEMMA KeysByTty ==
  ASSUME KeysInv, TtySteps
  PROVE  KeysInv'
<1> USE DEF KeysInv
<1>1. UNCHANGED <<memory, shown>> /\ RoughTypes' /\ \A v \in Actors \ {TTY} : ctx'[v] = ctx[v]
  BY TtyStep
<1>2. ASSUME ctx'[TTY].pc # "idle" PROVE Roles'
  BY <1>1, <1>2, ActorFacts DEF Roles, Busy
<1>3. in_buf[p_tty] \in Seq(Typed) /\ p_tty \in Consoles /\ in_buf \in [Consoles -> Seq(Typed)]
  BY DEF RoughTypes
<1>4. CASE /\ TtyAt({"read"}) /\ ctx'[TTY].pc = "write" /\ UNCHANGED <<p_tty, nr_current_console>>
           /\ \/ UNCHANGED in_buf
              \/ /\ p_tty = nr_current_console
                 /\ \E ch \in Typed : in_buf' = [in_buf EXCEPT ![p_tty] = Append(@, ch)]
  <2>1. \A n \in Consoles : in_buf[n] = <<>>
    BY <1>4 DEF KeysOnTheirWay, TtyAt
  <2>2. KeysOnTheirWay'
    <3>1. CASE UNCHANGED in_buf
      BY <1>3, <1>4, <2>1, <3>1 DEF KeysOnTheirWay, TtyAt
    <3>2. CASE p_tty = nr_current_console /\ \E ch \in Typed : in_buf' = [in_buf EXCEPT ![p_tty] = Append(@, ch)]
      <4>1. PICK ch \in Typed : in_buf' = [in_buf EXCEPT ![p_tty] = Append(@, ch)]
        BY <3>2
      <4>2. in_buf'[p_tty] = Append(in_buf[p_tty], ch) /\ \A n \in Consoles \ {p_tty} : in_buf'[n] = <<>>
        BY <1>3, <2>1, <4>1
      <4>3. Len(Append(in_buf[p_tty], ch)) = Len(in_buf[p_tty]) + 1 /\ Len(in_buf[p_tty]) = 0
        BY <1>3, <2>1
      <4> QED BY <1>4, <3>2, <4>2, <4>3 DEF KeysOnTheirWay, TtyAt
    <3> QED BY <1>4, <3>1, <3>2
  <2>3. TtyServesSelection'
    BY <1>1, <1>4 DEF TtyServesSelection, TtyAt, Busy
  <2> QED BY <1>1, <1>2, <1>4, <2>2, <2>3
<1>5. CASE /\ TtyAt({"read"}) /\ UNCHANGED <<in_buf, p_tty>>
           /\ \/ ctx'[TTY].pc = "scroll" /\ p_tty = nr_current_console /\ UNCHANGED nr_current_console
              \/ ctx'[TTY].pc = "flush" /\ nr_current_console' \in Consoles
           /\ ctx'[TTY].con = nr_current_console' /\ ctx'[TTY].ret = "write"
  <2>1. \A n \in Consoles : in_buf[n] = <<>>
    BY <1>5 DEF KeysOnTheirWay, TtyAt
  <2>2. KeysOnTheirWay'
    BY <1>3, <1>5, <2>1 DEF KeysOnTheirWay
  <2>3. TtyServesSelection'
    BY <1>1, <1>5 DEF TtyServesSelection, TtyAt, Busy
  <2> QED BY <1>1, <1>2, <1>5, <2>2, <2>3
<1>6. CASE /\ TtyAt({"write"}) /\ in_buf[p_tty] # <<>> /\ UNCHANGED <<p_tty, nr_current_console>>
           /\ in_buf' = [in_buf EXCEPT ![p_tty] = Tail(@)]
           /\ ctx'[TTY].pc = "test" /\ ctx'[TTY].con = p_tty /\ ctx'[TTY].ret = "end"
  <2>1. p_tty = nr_current_console /\ Len(in_buf[p_tty]) <= 1
    BY <1>6 DEF KeysOnTheirWay
  <2>2. Tail(in_buf[p_tty]) = <<>>
    BY <1>3, <1>6, <2>1
  <2>3. \A n \in Consoles : in_buf'[n] = <<>>
    BY <1>3, <1>6, <2>2 DEF KeysOnTheirWay
  <2>4. KeysOnTheirWay'
    BY <1>3, <1>6, <2>3 DEF KeysOnTheirWay
  <2>5. TtyServesSelection'
    BY <1>1, <1>6, <2>1 DEF TtyServesSelection, TtyAt, Busy
  <2> QED BY <1>1, <1>2, <1>6, <2>4, <2>5
<1>7. CASE /\ TtyAt({"write"}) /\ in_buf[p_tty] = <<>> /\ UNCHANGED <<in_buf, nr_current_console>>
           /\ ctx'[TTY].pc = "read"
  <2>1. \A n \in Consoles : in_buf'[n] = <<>>
    BY <1>7 DEF KeysOnTheirWay
  <2>2. p_tty' \in Consoles
    BY <1>1 DEF RoughTypes
  <2>3. KeysOnTheirWay'
    BY <2>1, <2>2 DEF KeysOnTheirWay
  <2>4. TtyServesSelection'
    BY <1>1, <1>7 DEF TtyServesSelection, TtyAt, Busy
  <2> QED BY <1>1, <1>2, <1>7, <2>3, <2>4
<1> QED BY <1>4, <1>5, <1>6, <1>7, TtyStep

LEMMA KeysByWrite ==
  ASSUME KeysInv, NEW p \in Programs, NEW ch \in Printed, sys_write(p, ch)
  PROVE  KeysInv'
<1> USE DEF KeysInv
<1>1. /\ UNCHANGED <<memory, shown, tty>>
      /\ RoughTypes'
      /\ \A v \in Actors \ {p} : ctx'[v] = ctx[v]
      /\ ctx'[p].pc = "test" /\ ctx'[p].con = NrTty[p] /\ ctx'[p].ret = "end"
  BY WriteStep
<1>2. ctx'[TTY] = ctx[TTY]
  BY <1>1, ActorFacts
<1>3. Roles'
  BY <1>1, <1>2, ActorFacts DEF Roles, Busy
<1>4. KeysOnTheirWay' /\ TtyServesSelection'
  BY <1>1, <1>2 DEF KeysOnTheirWay, TtyServesSelection, TtyAt, Busy, tty
<1> QED BY <1>1, <1>3, <1>4

\* The steps of Next, as the lemmas have them.
LEMMA StepsOfNext ==
  ASSUME Next
  PROVE  \/ TtySteps
         \/ \E w \in Actors : InCode(w) \/ flush(w)
         \/ \E p \in Programs : \E ch \in Printed : sys_write(p, ch)
BY ActorFacts DEF Next, TaskTty, TtySteps, out_char, InCode

\* A key is in a queue only between put_key and tty_do_write of the same
\* round, task_tty works for the console in use, and a program in sys_write
\* for its own.
THEOREM ConsoleKeysInv == Spec => []KeysInv
<1>1. Init => KeysInv
  BY KeysInit
<1>2. KeysInv /\ [Next]_vars => KeysInv'
  <2> SUFFICES ASSUME KeysInv, [Next]_vars PROVE KeysInv'
    OBVIOUS
  <2>1. CASE Next
    BY <2>1, StepsOfNext, KeysByTty, KeysByCode, KeysByFlush, KeysByWrite
  <2>2. CASE UNCHANGED vars
    BY <2>2 DEF vars, memory, tty, KeysInv, RoughTypes, Roles, KeysOnTheirWay, TtyServesSelection,
                TtyAt, Busy
  <2> QED BY <2>1, <2>2
<1> QED BY <1>1, <1>2, PTL DEF Spec

\* put_key never finds a queue full, so that no key that keyboard_read has
\* made is dropped: whatever the programs print meanwhile.
THEOREM ConsoleNoKeyDropped == Spec => []NoKeyDropped
<1>1. KeysInv => NoKeyDropped
  BY DEF KeysInv, KeysOnTheirWay, NoKeyDropped, TtyAt
<1> QED BY <1>1, ConsoleKeysInv, PTL

\* Between two keys the screen shows the console the keys go to, or one that
\* a program has written on.
THEOREM ConsoleScreenFollows == Spec => []ScreenFollowsSelection
<1>1. KeysInv => ScreenFollowsSelection
  BY DEF KeysInv, TtyServesSelection, ScreenFollowsSelection, TtyAt
<1> QED BY <1>1, ConsoleKeysInv, PTL

-----------------------------------------------------------------------------
(* Rows and regions.                                                       *)

LEMMA Division ==
  ASSUME NEW a \in Nat, NEW b \in Nat \ {0}
  PROVE  a \div b \in Nat /\ a % b \in 0 .. b - 1 /\ a = b * (a \div b) + (a % b)
OBVIOUS

LEMMA Products ==
  ASSUME NEW a \in Nat, NEW b \in Nat, NEW d \in Nat, a <= b
  PROVE  a * d \in Nat /\ b * d \in Nat /\ a * d <= b * d
<1>1. PICK e \in Nat : b = a + e
  <2>1. b - a \in Nat /\ b = a + (b - a)
    OBVIOUS
  <2> QED BY <2>1
<1>2. b * d = a * d + e * d /\ a * d \in Nat /\ e * d \in Nat
  BY <1>1
<1> QED BY <1>1, <1>2

\* Fewer rows are fewer cells, and the other way round.
LEMMA FewerRows ==
  ASSUME NEW a \in Nat, NEW b \in Nat, a * SCREEN_WIDTH < b * SCREEN_WIDTH
  PROVE  a + 1 <= b /\ (a + 1) * SCREEN_WIDTH = a * SCREEN_WIDTH + SCREEN_WIDTH
         /\ (a + 1) * SCREEN_WIDTH <= b * SCREEN_WIDTH
<1>1. ~(b <= a)
  BY Products, SizeFacts
<1>2. a + 1 <= b
  BY <1>1
<1>3. (a + 1) * SCREEN_WIDTH = a * SCREEN_WIDTH + SCREEN_WIDTH
  BY SizeFacts
<1> QED BY <1>2, <1>3, Products, SizeFacts

\* The screen and the memory of a console consist of rows.
Rows == SCREEN_SIZE \div SCREEN_WIDTH
RowsOfConsole == ConMemSize \div SCREEN_WIDTH
LEMMA SizesInRows ==
  /\ Rows \in Nat /\ SCREEN_SIZE = Rows * SCREEN_WIDTH
  /\ RowsOfConsole \in Nat /\ v_mem_limit = RowsOfConsole * SCREEN_WIDTH
  /\ v_mem_limit \in Nat /\ v_mem_limit <= ConMemSize
  /\ SCREEN_SIZE <= v_mem_limit /\ SCREEN_WIDTH <= SCREEN_SIZE /\ v_mem_limit > 2
<1>1. Rows \in Nat /\ SCREEN_SIZE = SCREEN_WIDTH * Rows
  <2>1. SCREEN_SIZE = SCREEN_WIDTH * Rows + (SCREEN_SIZE % SCREEN_WIDTH) /\ Rows \in Nat
    BY Division, SizeFacts DEF Rows
  <2>2. SCREEN_SIZE % SCREEN_WIDTH = 0
    BY ConsoleAssumption
  <2> QED BY <2>1, <2>2, SizeFacts
<1>2. /\ RowsOfConsole \in Nat /\ ConMemSize % SCREEN_WIDTH \in Nat
      /\ ConMemSize = SCREEN_WIDTH * RowsOfConsole + (ConMemSize % SCREEN_WIDTH)
  BY Division, SizeFacts DEF RowsOfConsole
<1>3. v_mem_limit = RowsOfConsole * SCREEN_WIDTH
  BY DEF v_mem_limit, RowsOfConsole
<1>4. v_mem_limit \in Nat
  BY <1>2, <1>3, Products, SizeFacts
<1>5. v_mem_limit <= ConMemSize
  <2>1. SCREEN_WIDTH * RowsOfConsole = RowsOfConsole * SCREEN_WIDTH
    BY <1>2, SizeFacts
  <2> HIDE DEF RowsOfConsole
  <2> QED BY <1>2, <1>3, <1>4, <2>1
<1>6. SCREEN_SIZE <= v_mem_limit /\ v_mem_limit > 2
  BY ConsoleAssumption
<1>7. SCREEN_WIDTH <= SCREEN_SIZE
  <2>1. Rows # 0
    BY <1>1, SizeFacts
  <2>2. 1 * SCREEN_WIDTH <= Rows * SCREEN_WIDTH
    BY <1>1, <2>1, Products, SizeFacts
  <2> QED BY <1>1, <2>2, SizeFacts
<1> QED BY <1>1, <1>2, <1>3, <1>4, <1>5, <1>6, <1>7, SizeFacts

Region(n) == Original(n) .. Original(n) + v_mem_limit - 1

\* What is one console's is no other's.
LEMMA RegionsApart ==
  ASSUME NEW m \in Consoles, NEW n \in Consoles, NEW a \in Region(m), a \in Region(n)
  PROVE  m = n
<1>1. ASSUME NEW i \in Consoles, NEW j \in Consoles, i < j, a \in Region(i), a \in Region(j)
      PROVE  FALSE
  <2>1. (i + 1) * ConMemSize <= j * ConMemSize
    BY <1>1, ConsoleFacts, Products, SizeFacts
  <2>2. (i + 1) * ConMemSize = i * ConMemSize + ConMemSize
    BY ConsoleFacts, SizeFacts
  <2>3. Original(i) + ConMemSize <= Original(j)
    BY <2>1, <2>2 DEF Original
  <2>4. Original(i) \in Nat /\ Original(j) \in Nat
    BY SizeFacts
  <2> QED BY <1>1, <2>3, <2>4, SizesInRows, SizeFacts DEF Region
<1>2. m \in Nat /\ n \in Nat
  BY ConsoleFacts
<1> QED BY <1>1, <1>2

LEMMA RegionInCells ==
  ASSUME NEW n \in Consoles
  PROVE  Region(n) \subseteq Cells
<1>1. n \in Nat /\ n + 1 <= NR_CONSOLES /\ NR_CONSOLES \in Nat
  BY ConsoleAssumption DEF Consoles
<1>2. (n + 1) * ConMemSize <= NR_CONSOLES * ConMemSize
  BY <1>1, Products, SizeFacts
<1>3. (n + 1) * ConMemSize = n * ConMemSize + ConMemSize
  BY <1>1, SizeFacts
<1>4. NR_CONSOLES * ConMemSize \in Nat
  BY <1>1, Products, SizeFacts
<1>5. Original(n) \in Nat /\ Original(n) + ConMemSize <= NR_CONSOLES * ConMemSize
  BY <1>2, <1>3, SizeFacts DEF Original
<1> QED BY <1>4, <1>5, SizesInRows, SizeFacts DEF Region, Cells

\* A newline goes to the start of the next row, which is there.
LEMMA NextRow ==
  ASSUME NEW pos \in Nat
  PROVE  LET next == SCREEN_WIDTH * (pos \div SCREEN_WIDTH + 1)
         IN /\ next = pos + (SCREEN_WIDTH - (pos % SCREEN_WIDTH)) /\ SCREEN_WIDTH - (pos % SCREEN_WIDTH) \in Nat \ {0}
            /\ pos < v_mem_limit - SCREEN_WIDTH => next <= v_mem_limit - 1
<1> DEFINE q == pos \div SCREEN_WIDTH
<1>1. q \in Nat /\ pos % SCREEN_WIDTH \in 0 .. SCREEN_WIDTH - 1 /\ pos = SCREEN_WIDTH * q + (pos % SCREEN_WIDTH)
  BY Division, SizeFacts
<1>2. SCREEN_WIDTH * (q + 1) = SCREEN_WIDTH * q + SCREEN_WIDTH /\ SCREEN_WIDTH * q \in Nat
  BY <1>1, SizeFacts
<1>3. SCREEN_WIDTH * q = q * SCREEN_WIDTH
  BY <1>1, SizeFacts
<1>4. ASSUME pos < v_mem_limit - SCREEN_WIDTH PROVE SCREEN_WIDTH * (q + 1) <= v_mem_limit - 1
  <2>1. (q + 1) * SCREEN_WIDTH < RowsOfConsole * SCREEN_WIDTH
    BY <1>1, <1>2, <1>3, <1>4, SizesInRows, SizeFacts
  <2> QED BY <1>1, <1>2, <1>3, <2>1, SizesInRows, SizeFacts
<1> DEFINE r == pos % SCREEN_WIDTH
           x == SCREEN_WIDTH * q
<1>5. x \in Nat /\ r \in 0 .. SCREEN_WIDTH - 1 /\ pos = x + r /\ SCREEN_WIDTH * (q + 1) = x + SCREEN_WIDTH
  BY <1>1, <1>2
<1> HIDE DEF r, x
<1>6. x + SCREEN_WIDTH = pos + (SCREEN_WIDTH - r) /\ SCREEN_WIDTH - r \in Nat \ {0}
  BY <1>5, SizeFacts
<1> QED BY <1>4, <1>5, <1>6 DEF r

-----------------------------------------------------------------------------
(* The memory: what does not concern the step.                             *)

\* Two calls at a time are for two consoles.
LEMMA CallsApart ==
  ASSUME MemoryInv, NEW w \in Actors, NEW v \in Actors, w # v, Busy(w), Busy(v)
  PROVE  ctx[w].con # ctx[v].con
<1>1. ASSUME NEW p \in Programs, Busy(p), Busy(TTY) PROVE ctx[p].con # ctx[TTY].con
  BY <1>1 DEF MemoryInv, Apart, Busy
<1>2. ASSUME NEW p \in Programs, NEW q \in Programs, p # q, Busy(p), Busy(q) PROVE FALSE
  BY <1>2 DEF MemoryInv, OneProgram, Busy
<1> QED BY <1>1, <1>2 DEF Actors

LEMMA MemoryFacts ==
  ASSUME MemoryInv
  PROVE  /\ RoughTypes /\ vmem \in [Cells -> Chars]
         /\ \A n \in Consoles : cursor[n] \in Region(n) /\ cursor[n] \in Int
         /\ \A w \in Actors : ctx[w] \in Contexts /\ ctx[w].con \in Consoles
<1>1. RoughTypes
  BY DEF MemoryInv, KeysInv
<1>2. \A w \in Actors : ctx[w] \in Contexts /\ ctx[w].con \in Consoles
  BY <1>1, ContextFields DEF RoughTypes
<1> QED BY <1>1, <1>2, SizeFacts, SizesInRows DEF MemoryInv, ConsoleSound, Region, RoughTypes

\* Who writes in one console's memory leaves the others alone.
LEMMA OtherConsoles ==
  ASSUME MemoryInv, NEW w \in Actors, Busy(w),
         \A v \in Actors \ {w} : ctx'[v] = ctx[v],
         ctx'[w].con = ctx[w].con,
         \A m \in Consoles \ {ctx[w].con} :
           cursor'[m] = cursor[m] /\ current_start_addr'[m] = current_start_addr[m],
         \A a \in Cells : a \notin Region(ctx[w].con) => vmem'[a] = vmem[a]
  PROVE  /\ \A m \in Consoles \ {ctx[w].con} : ConsoleSound(m)' /\ BlankBeyond(m)'
         /\ \A v \in Actors \ {w} : CallKnows(v)'
<1> DEFINE n == ctx[w].con
<1>1. n \in Consoles
  BY MemoryFacts
<1>2. ASSUME NEW m \in Consoles \ {n}
      PROVE  /\ \A a \in Region(m) : vmem'[a] = vmem[a]
             /\ cursor'[m] = cursor[m] /\ current_start_addr'[m] = current_start_addr[m]
  BY <1>1, RegionsApart, RegionInCells
<1>3. ASSUME NEW m \in Consoles \ {n} PROVE ConsoleSound(m)'
  <2>1. ConsoleSound(m)
    BY DEF MemoryInv
  <2> QED BY <1>2, <2>1 DEF ConsoleSound
<1>4. ASSUME NEW m \in Consoles \ {n} PROVE BlankBeyond(m)'
  <2>1. BlankBeyond(m) /\ cursor[m] \in Region(m)
    BY MemoryFacts DEF MemoryInv
  <2>2. SUFFICES ASSUME NEW a \in cursor[m] .. Original(m) + v_mem_limit - 1, vmem'[a] # Space
                 PROVE  a = cursor[m] /\ \E v \in Actors : ctx'[v].con = m /\ InTheMiddle(v)'
    BY <1>2 DEF BlankBeyond
  <2>3. a \in Region(m)
    BY <2>1, SizeFacts, SizesInRows DEF Region
  <2>4. vmem[a] # Space
    BY <1>2, <2>2, <2>3
  <2>5. a = cursor[m]
    BY <2>1, <2>4 DEF BlankBeyond
  <2>6. PICK v \in Actors : ctx[v].con = m /\ InTheMiddle(v)
    BY <2>1, <2>4 DEF BlankBeyond
  <2>7. v # w
    BY <2>6
  <2>8. InTheMiddle(v)' /\ ctx'[v].con = m
    BY <2>6, <2>7 DEF InTheMiddle
  <2> QED BY <2>5, <2>8
<1>5. ASSUME NEW v \in Actors \ {w} PROVE CallKnows(v)'
  <2>1. CASE ~Busy(v)
    BY <2>1 DEF CallKnows, Busy
  <2>2. CASE Busy(v)
    <3> DEFINE k == ctx[v].con
    <3>1. k \in Consoles \ {n}
      BY <2>2, CallsApart, MemoryFacts
    <3>2. CallKnows(v)
      BY DEF MemoryInv
    <3>3. cursor[k] \in Region(k)
      BY <3>1, MemoryFacts
    <3>4. ctx'[v] = ctx[v] /\ cursor'[k] = cursor[k] /\ current_start_addr'[k] = current_start_addr[k]
          /\ vmem'[cursor[k]] = vmem[cursor[k]]
      BY <1>2, <3>1, <3>3
    <3>5. Fits(k, ctx[v].ch) => Fits(k, ctx[v].ch)'
      BY <3>4 DEF Fits
    <3>6. MayScroll(k, ctx[v].dir) => MayScroll(k, ctx[v].dir)'
      BY <3>4 DEF MayScroll
    <3> QED BY <3>2, <3>4, <3>5, <3>6 DEF CallKnows
  <2> QED BY <2>1, <2>2
<1> QED BY <1>3, <1>4, <1>5

\* Nor does who writes nothing change anything for the others.
LEMMA NothingWritten ==
  ASSUME MemoryInv, NEW w \in Actors, ~InTheMiddle(w),
         \A v \in Actors \ {w} : ctx'[v] = ctx[v], UNCHANGED memory
  PROVE  /\ vmem' \in [Cells -> Chars]
         /\ \A m \in Consoles : ConsoleSound(m)' /\ BlankBeyond(m)'
         /\ \A v \in Actors \ {w} : CallKnows(v)'
<1> USE DEF memory
<1>1. ASSUME NEW m \in Consoles PROVE ConsoleSound(m)'
  BY DEF MemoryInv, ConsoleSound
<1>2. ASSUME NEW m \in Consoles PROVE BlankBeyond(m)'
  <2>1. BlankBeyond(m)
    BY DEF MemoryInv
  <2>2. SUFFICES ASSUME NEW a \in cursor[m] .. Original(m) + v_mem_limit - 1, vmem[a] # Space
                 PROVE  a = cursor[m] /\ \E v \in Actors : ctx'[v].con = m /\ InTheMiddle(v)'
    BY DEF BlankBeyond
  <2>3. a = cursor[m]
    BY <2>1, <2>2 DEF BlankBeyond
  <2>4. PICK v \in Actors : ctx[v].con = m /\ InTheMiddle(v)
    BY <2>1, <2>2 DEF BlankBeyond
  <2>5. v # w
    BY <2>4
  <2> QED BY <2>3, <2>4, <2>5 DEF InTheMiddle
<1>3. ASSUME NEW v \in Actors \ {w} PROVE CallKnows(v)'
  <2>1. CallKnows(v) /\ ctx'[v] = ctx[v]
    BY DEF MemoryInv
  <2>2. Fits(ctx[v].con, ctx[v].ch) => Fits(ctx[v].con, ctx[v].ch)'
    BY <2>1 DEF Fits
  <2>3. MayScroll(ctx[v].con, ctx[v].dir) => MayScroll(ctx[v].con, ctx[v].dir)'
    BY <2>1 DEF MayScroll
  <2> QED BY <2>1, <2>2, <2>3 DEF CallKnows
<1> QED BY <1>1, <1>2, <1>3 DEF MemoryInv

-----------------------------------------------------------------------------
(* The memory: the steps within the code.                                  *)

\* What such a step has to show for its own console and call.
OwnPart(w) ==
  /\ vmem' \in [Cells -> Chars]
  /\ \A m \in Consoles \ {ctx[w].con} :
       cursor'[m] = cursor[m] /\ current_start_addr'[m] = current_start_addr[m]
  /\ \A a \in Cells : a \notin Region(ctx[w].con) => vmem'[a] = vmem[a]
  /\ ConsoleSound(ctx[w].con)' /\ BlankBeyond(ctx[w].con)' /\ CallKnows(w)'

\* Steps that only look at the memory.
LEMMA LookingKeepsOwn ==
  ASSUME MemoryInv, NEW w \in Actors, InCode(w), UNCHANGED memory, CallKnows(w)',
         InTheMiddle(w) => InTheMiddle(w)'
  PROVE  OwnPart(w)
<1> DEFINE n == ctx[w].con
<1>1. n \in Consoles /\ ctx'[w].con = n /\ \A v \in Actors \ {w} : ctx'[v] = ctx[v]
  BY MemoryFacts, InCodeStep
<1>2. ConsoleSound(n)'
  BY <1>1 DEF MemoryInv, ConsoleSound, memory
<1>3. BlankBeyond(n)'
  <2>1. BlankBeyond(n)
    BY <1>1 DEF MemoryInv
  <2>2. SUFFICES ASSUME NEW a \in cursor[n] .. Original(n) + v_mem_limit - 1, vmem[a] # Space
                 PROVE  a = cursor[n] /\ \E v \in Actors : ctx'[v].con = n /\ InTheMiddle(v)'
    BY <1>1 DEF BlankBeyond, memory
  <2>3. PICK v \in Actors : a = cursor[n] /\ ctx[v].con = n /\ InTheMiddle(v)
    BY <2>1, <2>2 DEF BlankBeyond
  <2>4. CASE v = w
    BY <1>1, <2>3, <2>4
  <2>5. CASE v # w
    BY <1>1, <2>3, <2>5 DEF InTheMiddle
  <2> QED BY <2>4, <2>5
<1> QED BY <1>2, <1>3, MemoryFacts DEF OwnPart, memory

LEMMA TestKeepsOwn ==
  ASSUME MemoryInv, NEW w \in Actors, Test(w)
  PROVE  OwnPart(w)
<1> DEFINE n == ctx[w].con
<1>1. InCode(w) /\ ctx[w].pc = "test" /\ UNCHANGED memory
  BY DEF InCode, Test, At
<1>2. ctx'[w].con = n /\ ctx'[w].ch = ctx[w].ch /\ ctx'[w].p_vmem = ctx[w].p_vmem
  BY <1>1, MemoryFacts, InCodeStep
<1>3. ctx'[w].pc = IF ~Fits(n, ctx[w].ch) THEN "loop" ELSE IF ctx[w].ch \in {"NL", "BS"} THEN "load" ELSE "cell"
  BY MemoryFacts DEF Test, Goto, RoughTypes, Contexts
<1>4. ctx[w].p_vmem = cursor[n]
  BY <1>1 DEF MemoryInv, CallKnows
<1>5. Fits(n, ctx[w].ch) => Fits(n, ctx[w].ch)'
  BY <1>1, <1>2 DEF Fits, memory
<1>6. CallKnows(w)'
  BY <1>1, <1>2, <1>3, <1>4, <1>5 DEF CallKnows, memory
<1> QED BY <1>1, <1>6, LookingKeepsOwn DEF InTheMiddle

LEMMA LoadKeepsOwn ==
  ASSUME MemoryInv, NEW w \in Actors, Load(w)
  PROVE  OwnPart(w)
<1> DEFINE n == ctx[w].con
<1>1. InCode(w) /\ ctx[w].pc = "load" /\ UNCHANGED memory
  BY DEF InCode, Load, At
<1>2. ctx'[w].con = n /\ ctx'[w].ch = ctx[w].ch /\ ctx'[w].p_vmem = ctx[w].p_vmem
  BY <1>1, MemoryFacts, InCodeStep
<1>3. ctx'[w].pc = "store" /\ ctx'[w].loaded = cursor[n]
  BY MemoryFacts DEF Load, RoughTypes, Contexts
<1>4. ctx[w].p_vmem = cursor[n] /\ Fits(n, ctx[w].ch) /\ (ctx[w].ch \notin {"NL", "BS"} => vmem[cursor[n]] = ctx[w].ch)
  BY <1>1 DEF MemoryInv, CallKnows
<1>5. Fits(n, ctx[w].ch) => Fits(n, ctx[w].ch)'
  BY <1>1, <1>2 DEF Fits, memory
<1>6. CallKnows(w)'
  BY <1>1, <1>2, <1>3, <1>4, <1>5 DEF CallKnows, memory
<1> QED BY <1>1, <1>2, <1>3, <1>6, LookingKeepsOwn DEF InTheMiddle

LEMMA LoopKeepsOwn ==
  ASSUME MemoryInv, NEW w \in Actors, Loop(w) \/ scroll_screen(w) \/ ScrollLoad(w)
  PROVE  OwnPart(w)
<1> DEFINE n == ctx[w].con
<1>1. InCode(w) /\ ctx[w].pc \in {"loop", "scroll", "scroll_load"} /\ UNCHANGED memory
  BY DEF InCode, Loop, scroll_screen, ScrollLoad, At
<1>2. ctx'[w].con = n
  BY <1>1, MemoryFacts, InCodeStep
<1>3. CASE Loop(w)
  <2>1. ctx'[w].pc \in {"scroll", "flush"}
    BY <1>3, MemoryFacts DEF Loop, RoughTypes, Contexts
  <2>2. CallKnows(w)'
    BY <2>1 DEF CallKnows
  <2> QED BY <1>1, <1>3, <2>2, LookingKeepsOwn DEF InTheMiddle, Loop, At
<1>4. CASE scroll_screen(w)
  <2>1. ctx'[w].dir = ctx[w].dir /\ ctx'[w].pc = IF MayScroll(n, ctx[w].dir) THEN "scroll_load" ELSE "flush"
    BY <1>4, MemoryFacts DEF scroll_screen, Goto, RoughTypes, Contexts
  <2>2. MayScroll(n, ctx[w].dir) => MayScroll(n, ctx[w].dir)'
    BY <1>1, <1>2, <2>1 DEF MayScroll, memory
  <2>3. CallKnows(w)'
    BY <1>2, <2>1, <2>2 DEF CallKnows
  <2> QED BY <1>1, <2>3, LookingKeepsOwn DEF InTheMiddle
<1>5. CASE ScrollLoad(w)
  <2>1. ctx'[w].dir = ctx[w].dir /\ ctx'[w].pc = "scroll_store" /\ ctx'[w].loaded = current_start_addr[n]
    BY <1>5, MemoryFacts DEF ScrollLoad, RoughTypes, Contexts
  <2>2. MayScroll(n, ctx[w].dir)
    BY <1>5 DEF MemoryInv, CallKnows, ScrollLoad, At
  <2>3. MayScroll(n, ctx[w].dir) => MayScroll(n, ctx[w].dir)'
    BY <1>1, <1>2, <2>1 DEF MayScroll, memory
  <2>4. CallKnows(w)'
    BY <1>1, <1>2, <2>1, <2>2, <2>3 DEF CallKnows, memory
  <2> QED BY <1>1, <2>4, LookingKeepsOwn DEF InTheMiddle
<1> QED BY <1>3, <1>4, <1>5

\* The character comes to where the cursor is.
LEMMA CellKeepsOwn ==
  ASSUME MemoryInv, NEW w \in Actors, Cell(w)
  PROVE  OwnPart(w)
<1> DEFINE n == ctx[w].con
           c == cursor[n]
<1>1. InCode(w) /\ ctx[w].pc = "cell" /\ UNCHANGED <<cursor, current_start_addr>>
  BY DEF InCode, Cell, At
<1>2. ctx'[w].con = n /\ ctx'[w].ch = ctx[w].ch /\ ctx'[w].p_vmem = ctx[w].p_vmem
  BY <1>1, MemoryFacts, InCodeStep
<1>3. ctx'[w].pc = "load"
  BY MemoryFacts DEF Cell, Goto, RoughTypes, Contexts
<1>4. ctx[w].p_vmem = c /\ Fits(n, ctx[w].ch) /\ ctx[w].ch \notin {"NL", "BS"}
  BY <1>1 DEF MemoryInv, CallKnows
<1>5. n \in Consoles /\ c \in Region(n) /\ c \in Int /\ c \in Cells /\ ctx[w].ch \in Chars
  BY MemoryFacts, ContextFields, RegionInCells
<1>6. vmem' = [vmem EXCEPT ![c] = ctx[w].ch]
  BY <1>4 DEF Cell
<1>7. vmem' \in [Cells -> Chars] /\ vmem'[c] = ctx[w].ch /\ \A a \in Cells \ {c} : vmem'[a] = vmem[a]
  BY <1>5, <1>6, MemoryFacts
<1>8. Fits(n, ctx[w].ch)'
  BY <1>1, <1>2, <1>4 DEF Fits
<1>9. CallKnows(w)'
  BY <1>1, <1>2, <1>3, <1>4, <1>7, <1>8 DEF CallKnows
<1>10. ConsoleSound(n)'
  BY <1>1, <1>2, <1>5 DEF MemoryInv, ConsoleSound
<1>11. BlankBeyond(n)'
  <2>1. BlankBeyond(n)
    BY <1>5 DEF MemoryInv
  <2>2. SUFFICES ASSUME NEW a \in c .. Original(n) + v_mem_limit - 1, vmem'[a] # Space
                 PROVE  a = c /\ \E v \in Actors : ctx'[v].con = n /\ InTheMiddle(v)'
    BY <1>1, <1>2 DEF BlankBeyond
  <2>3. a = c
    <3>1. a \in Region(n) /\ a \in Cells
      BY <1>5, SizeFacts, SizesInRows, RegionInCells DEF Region
    <3>2. a # c => vmem[a] # Space
      BY <1>7, <2>2, <3>1
    <3> QED BY <2>1, <3>2 DEF BlankBeyond
  <2>4. InTheMiddle(w)'
    BY <1>2, <1>3, <1>4 DEF InTheMiddle
  <2> QED BY <1>2, <2>3, <2>4
<1> QED BY <1>1, <1>5, <1>7, <1>9, <1>10, <1>11 DEF OwnPart

\* Where the cursor goes when the test was passed.
LEMMA MovedInRegion ==
  ASSUME NEW n \in Consoles, NEW ch, cursor[n] \in Region(n), Fits(n, ch)
  PROVE  LET c == cursor[n]
         IN /\ Moved(n, c, ch) \in Region(n)
            /\ ch = "BS" => Moved(n, c, ch) = c - 1
            /\ ch = "NL" => /\ Moved(n, c, ch) = c + (SCREEN_WIDTH - ((c - Original(n)) % SCREEN_WIDTH))
                            /\ SCREEN_WIDTH - ((c - Original(n)) % SCREEN_WIDTH) \in Nat \ {0}
            /\ ch \notin {"BS", "NL"} => Moved(n, c, ch) = c + 1
<1> DEFINE c == cursor[n]
           pos == c - Original(n)
           next == SCREEN_WIDTH * (pos \div SCREEN_WIDTH + 1)
           gap == SCREEN_WIDTH - (pos % SCREEN_WIDTH)
<1>1. c \in Int /\ Original(n) \in Nat /\ pos \in Nat /\ pos <= v_mem_limit - 1
  BY SizeFacts, SizesInRows DEF Region
<1>2. CASE ch = "NL"
  <2>1. pos < v_mem_limit - SCREEN_WIDTH
    BY <1>2 DEF Fits
  <2>2. next = pos + gap /\ gap \in Nat \ {0} /\ next <= v_mem_limit - 1
    BY <1>1, <2>1, NextRow
  <2>3. Moved(n, c, ch) = Original(n) + next
    BY <1>2 DEF Moved
  <2> HIDE DEF next, gap
  <2>4. Original(n) + next = c + gap
    BY <1>1, <2>2
  <2>5. Original(n) + next \in Region(n)
    BY <1>1, <2>2, SizesInRows DEF Region
  <2> QED BY <1>2, <2>2, <2>3, <2>4, <2>5 DEF gap
<1>3. CASE ch = "BS"
  <2>1. pos > 0 /\ Moved(n, c, ch) = c - 1
    BY <1>3 DEF Fits, Moved
  <2> QED BY <1>1, <1>3, <2>1, SizesInRows DEF Region
<1>4. CASE ch \notin {"BS", "NL"}
  <2>1. pos < v_mem_limit - 1 /\ Moved(n, c, ch) = c + 1
    BY <1>4 DEF Fits, Moved
  <2> QED BY <1>1, <1>4, <2>1, SizesInRows DEF Region
<1> QED BY <1>2, <1>3, <1>4

\* The cursor moves over what has been written, to before what will be erased,
\* or to the next row.
LEMMA StoreKeepsOwn ==
  ASSUME MemoryInv, NEW w \in Actors, Store(w)
  PROVE  OwnPart(w)
<1> DEFINE n == ctx[w].con
           c == cursor[n]
           ch == ctx[w].ch
           next == Moved(n, c, ch)
<1>1. InCode(w) /\ ctx[w].pc = "store" /\ UNCHANGED <<vmem, current_start_addr>>
  BY DEF InCode, Store, At
<1>2. ctx'[w].con = n /\ ctx'[w].ch = ch /\ ctx'[w].p_vmem = ctx[w].p_vmem /\ Busy(w)
  BY <1>1, MemoryFacts, InCodeStep
<1>3. ctx'[w].pc = IF ch = "BS" THEN "erase" ELSE "loop"
  BY MemoryFacts DEF Store, Goto, RoughTypes, Contexts
<1>4. ctx[w].p_vmem = c /\ Fits(n, ch) /\ ctx[w].loaded = c
  BY <1>1 DEF MemoryInv, CallKnows
<1>5. n \in Consoles /\ c \in Region(n) /\ c \in Int /\ cursor \in [Consoles -> Int]
  BY MemoryFacts DEF RoughTypes
<1>6. cursor' = [cursor EXCEPT ![n] = next]
  BY <1>4 DEF Store
<1>7. next \in Region(n) /\ (ch = "BS" => next = c - 1) /\ (ch # "BS" => next > c)
  BY <1>4, <1>5, MovedInRegion, SizeFacts
<1>8. next \in Int
  BY <1>5, <1>7, SizeFacts, SizesInRows DEF Region
<1> HIDE DEF next
<1>9. cursor'[n] = next /\ \A m \in Consoles \ {n} : cursor'[m] = cursor[m]
  BY <1>5, <1>6
<1>10. ConsoleSound(n)'
  BY <1>1, <1>2, <1>5, <1>7, <1>9 DEF MemoryInv, ConsoleSound, Region
<1>11. CallKnows(w)'
  BY <1>2, <1>3, <1>4, <1>5, <1>7, <1>9 DEF CallKnows
<1>12. BlankBeyond(n)'
  <2>1. BlankBeyond(n)
    BY <1>5 DEF MemoryInv
  <2>2. SUFFICES ASSUME NEW a \in next .. Original(n) + v_mem_limit - 1, vmem[a] # Space
                 PROVE  a = next /\ \E v \in Actors : ctx'[v].con = n /\ InTheMiddle(v)'
    BY <1>1, <1>2, <1>9 DEF BlankBeyond
  <2>3. a \in Int /\ a >= next
    BY <1>5, <1>7, SizeFacts, SizesInRows DEF Region
  <2>4. CASE a >= c
    <3>1. PICK v \in Actors : a = c /\ ctx[v].con = n /\ InTheMiddle(v)
      BY <1>5, <2>1, <2>2, <2>4 DEF BlankBeyond
    <3>2. ch = "BS"
      BY <1>5, <1>7, <1>8, <2>3, <3>1
    <3>3. ~InTheMiddle(w)
      BY <1>1, <3>2 DEF InTheMiddle
    <3>4. v # w /\ Busy(v)
      BY <3>1, <3>3 DEF InTheMiddle, Busy
    <3> QED BY <1>2, <3>1, <3>4, CallsApart
  <2>5. CASE a < c
    <3>1. ch = "BS" /\ a = next
      BY <1>5, <1>7, <1>8, <2>3, <2>5
    <3>2. InTheMiddle(w)'
      BY <1>3, <3>1 DEF InTheMiddle
    <3> QED BY <1>2, <3>1, <3>2
  <2> QED BY <1>5, <2>3, <2>4, <2>5
<1> QED BY <1>1, <1>9, <1>10, <1>11, <1>12, MemoryFacts DEF OwnPart

LEMMA EraseKeepsOwn ==
  ASSUME MemoryInv, NEW w \in Actors, Erase(w)
  PROVE  OwnPart(w)
<1> DEFINE n == ctx[w].con
           c == cursor[n]
<1>1. InCode(w) /\ ctx[w].pc = "erase" /\ UNCHANGED <<cursor, current_start_addr>>
  BY DEF InCode, Erase, At
<1>2. ctx'[w].con = n
  BY <1>1, MemoryFacts, InCodeStep
<1>3. ctx'[w].pc = "loop"
  BY MemoryFacts DEF Erase, Goto, RoughTypes, Contexts
<1>4. n \in Consoles /\ c \in Region(n) /\ c \in Int /\ c \in Cells
  BY MemoryFacts, RegionInCells
<1>5. ctx[w].p_vmem - 1 = c
  BY <1>1, <1>4 DEF MemoryInv, CallKnows
<1>6. vmem' = [vmem EXCEPT ![c] = Space]
  BY <1>5 DEF Erase
<1>7. vmem' \in [Cells -> Chars] /\ vmem'[c] = Space /\ \A a \in Cells \ {c} : vmem'[a] = vmem[a]
  BY <1>4, <1>6, MemoryFacts DEF Chars
<1>8. CallKnows(w)'
  BY <1>3 DEF CallKnows
<1>9. ConsoleSound(n)'
  BY <1>1, <1>2, <1>4 DEF MemoryInv, ConsoleSound
<1>10. BlankBeyond(n)'
  <2>1. BlankBeyond(n)
    BY <1>4 DEF MemoryInv
  <2>2. SUFFICES ASSUME NEW a \in c .. Original(n) + v_mem_limit - 1, vmem'[a] # Space
                 PROVE  FALSE
    BY <1>1, <1>2 DEF BlankBeyond
  <2>3. a \in Cells
    BY <1>4, SizeFacts, SizesInRows, RegionInCells DEF Region
  <2>4. a # c /\ vmem[a] # Space
    BY <1>7, <2>2, <2>3
  <2> QED BY <2>1, <2>4 DEF BlankBeyond
<1> QED BY <1>1, <1>4, <1>7, <1>8, <1>9, <1>10 DEF OwnPart

\* The window moves by a row, between the first and the last.
LEMMA ScrollStoreKeepsOwn ==
  ASSUME MemoryInv, NEW w \in Actors, ScrollStore(w)
  PROVE  OwnPart(w)
<1> DEFINE n == ctx[w].con
           start == current_start_addr[n]
<1>1. InCode(w) /\ ctx[w].pc = "scroll_store" /\ UNCHANGED <<vmem, cursor>>
  BY DEF InCode, ScrollStore, At
<1>2. ctx'[w].con = n /\ \A v \in Actors \ {w} : ctx'[v] = ctx[v]
  BY <1>1, MemoryFacts, InCodeStep
<1>3. ctx'[w].pc = "flush"
  BY MemoryFacts DEF ScrollStore, Goto, RoughTypes, Contexts
<1>4. n \in Consoles /\ ctx[w].loaded = start /\ MayScroll(n, ctx[w].dir) /\ Original(n) \in Nat
  BY <1>1, MemoryFacts, SizeFacts DEF MemoryInv, CallKnows
<1>5. /\ current_start_addr'[n] = IF ctx[w].dir = "SCROLL_SCREEN_UP" THEN start - SCREEN_WIDTH ELSE start + SCREEN_WIDTH
      /\ \A m \in Consoles \ {n} : current_start_addr'[m] = current_start_addr[m]
  BY <1>4, MemoryFacts DEF ScrollStore, RoughTypes
<1>6. PICK k \in 0 .. v_mem_limit : start = Original(n) + k * SCREEN_WIDTH
  BY <1>4 DEF MemoryInv, ConsoleSound
<1>7. k \in Nat /\ k * SCREEN_WIDTH \in Nat
  BY Products, SizeFacts, SizesInRows
<1>8. ConsoleSound(n)'
  <2>1. ConsoleSound(n) /\ cursor'[n] = cursor[n]
    BY <1>1, <1>4 DEF MemoryInv
  <2>2. CASE ctx[w].dir = "SCROLL_SCREEN_UP"
    <3>1. 0 * SCREEN_WIDTH < k * SCREEN_WIDTH
      BY <1>4, <1>6, <1>7, <2>2, SizeFacts DEF MayScroll
    <3>2. k >= 1 /\ k - 1 \in 0 .. v_mem_limit
      BY <1>7, <3>1, FewerRows, SizesInRows
    <3>3. (k - 1) * SCREEN_WIDTH = k * SCREEN_WIDTH - SCREEN_WIDTH
      BY <1>7, SizeFacts
    <3>4. current_start_addr'[n] = Original(n) + (k - 1) * SCREEN_WIDTH
      BY <1>4, <1>5, <1>6, <1>7, <2>2, <3>3, SizeFacts
    <3>5. current_start_addr'[n] + SCREEN_SIZE <= Original(n) + v_mem_limit
      BY <1>4, <1>6, <1>7, <2>1, <3>3, <3>4, SizeFacts, SizesInRows DEF ConsoleSound
    <3> QED BY <1>2, <2>1, <3>2, <3>4, <3>5 DEF ConsoleSound
  <2>3. CASE ctx[w].dir # "SCROLL_SCREEN_UP"
    <3>1. start + SCREEN_SIZE < Original(n) + v_mem_limit
      BY <1>4, <2>3 DEF MayScroll
    <3>2. (k + Rows) * SCREEN_WIDTH = k * SCREEN_WIDTH + Rows * SCREEN_WIDTH /\ k + Rows \in Nat
      BY <1>7, SizesInRows, SizeFacts
    <3>3. (k + Rows) * SCREEN_WIDTH < RowsOfConsole * SCREEN_WIDTH
      BY <1>4, <1>6, <1>7, <3>1, <3>2, SizesInRows, SizeFacts
    <3>4. (k + Rows) * SCREEN_WIDTH + SCREEN_WIDTH <= v_mem_limit
      BY <3>2, <3>3, FewerRows, SizesInRows
    <3>5. (k + 1) * SCREEN_WIDTH = k * SCREEN_WIDTH + SCREEN_WIDTH
      BY <1>7, SizeFacts
    <3>6. current_start_addr'[n] = Original(n) + (k + 1) * SCREEN_WIDTH
      BY <1>4, <1>5, <1>6, <1>7, <2>3, <3>5, SizeFacts
    <3>7. current_start_addr'[n] + SCREEN_SIZE <= Original(n) + v_mem_limit
      BY <1>4, <1>7, <3>2, <3>4, <3>5, <3>6, SizesInRows, SizeFacts
    <3>8. k + 1 \in 0 .. v_mem_limit
      <4>1. 1 <= SCREEN_WIDTH /\ (k + 1) * 1 <= (k + 1) * SCREEN_WIDTH
        BY <1>7, SizeFacts
      <4>2. (k + 1) * SCREEN_WIDTH <= v_mem_limit
        BY <1>7, <3>2, <3>4, <3>5, SizesInRows, SizeFacts
      <4> QED BY <1>7, <4>1, <4>2, SizesInRows, SizeFacts
    <3> QED BY <1>2, <2>1, <3>6, <3>7, <3>8 DEF ConsoleSound
  <2> QED BY <2>2, <2>3
<1>9. CallKnows(w)'
  BY <1>3 DEF CallKnows
<1>10. BlankBeyond(n)'
  <2>1. BlankBeyond(n)
    BY <1>4 DEF MemoryInv
  <2>2. SUFFICES ASSUME NEW a \in cursor[n] .. Original(n) + v_mem_limit - 1, vmem[a] # Space
                 PROVE  a = cursor[n] /\ \E v \in Actors : ctx'[v].con = n /\ InTheMiddle(v)'
    BY <1>1, <1>2 DEF BlankBeyond
  <2>3. PICK v \in Actors : a = cursor[n] /\ ctx[v].con = n /\ InTheMiddle(v)
    BY <2>1, <2>2 DEF BlankBeyond
  <2>4. v # w
    BY <1>1, <2>3 DEF InTheMiddle
  <2> QED BY <1>2, <2>3, <2>4 DEF InTheMiddle
<1> QED BY <1>1, <1>5, <1>8, <1>9, <1>10, MemoryFacts DEF OwnPart

-----------------------------------------------------------------------------
(* The memory: all steps.                                                  *)

LEMMA CodeKeepsOwn ==
  ASSUME MemoryInv, NEW w \in Actors, InCode(w)
  PROVE  OwnPart(w)
BY TestKeepsOwn, CellKeepsOwn, LoadKeepsOwn, StoreKeepsOwn, EraseKeepsOwn, LoopKeepsOwn,
   ScrollStoreKeepsOwn DEF InCode

LEMMA MemoryByCode ==
  ASSUME MemoryInv, NEW w \in Actors, InCode(w), Apart'
  PROVE  MemoryInv'
<1> DEFINE n == ctx[w].con
<1>1. OwnPart(w) /\ KeysInv'
  BY CodeKeepsOwn, KeysByCode DEF MemoryInv
<1>2. Busy(w) /\ ctx'[w].con = n /\ \A v \in Actors \ {w} : ctx'[v] = ctx[v]
  BY MemoryFacts, InCodeStep
<1>3. /\ \A m \in Consoles \ {n} : ConsoleSound(m)' /\ BlankBeyond(m)'
      /\ \A v \in Actors \ {w} : CallKnows(v)'
  BY <1>1, <1>2, OtherConsoles DEF OwnPart
<1>4. \A m \in Consoles : m = n => ConsoleSound(m)' /\ BlankBeyond(m)'
  BY <1>1, <1>2 DEF OwnPart
<1>5. \A m \in Consoles : ConsoleSound(m)' /\ BlankBeyond(m)'
  BY <1>3, <1>4
<1>6. OneProgram'
  BY <1>2, ActorFacts DEF MemoryInv, OneProgram, Busy
<1> QED BY <1>1, <1>3, <1>5, <1>6 DEF MemoryInv, OwnPart

LEMMA MemoryByOthers ==
  ASSUME MemoryInv, Apart',
         NEW w \in Actors, flush(w) \/ (w = TTY /\ TtySteps) \/ \E ch \in Printed : w \in Programs /\ sys_write(w, ch)
  PROVE  MemoryInv'
<1> USE ActorFacts
<1>1. RoughTypes
  BY MemoryFacts
<1>2. CASE flush(w)
  <2>1. /\ UNCHANGED memory /\ ctx[w].pc = "flush"
        /\ \A v \in Actors \ {w} : ctx'[v] = ctx[v]
        /\ ctx[w].ret = "end" => ctx'[w] = AtRest(w)
        /\ ctx[w].ret # "end" => ctx'[w].pc = ctx[w].ret
    BY <1>1, <1>2, FlushStep
  <2>2. ctx'[w].pc \in {"loop", "write", "read", "idle"} /\ (w \in Programs => ctx[w].pc # "idle")
    BY <2>1, MemoryFacts, ContextFields DEF AtRest
  <2>3. CallKnows(w)'
    BY <2>2 DEF CallKnows
  <2>4. OneProgram'
    BY <2>1, <2>2 DEF MemoryInv, OneProgram
  <2>5. KeysInv'
    BY <1>2, KeysByFlush DEF MemoryInv
  <2> QED BY <2>1, <2>3, <2>4, <2>5, NothingWritten DEF MemoryInv, InTheMiddle
<1>3. CASE w = TTY /\ TtySteps
  <2>1. UNCHANGED memory /\ (\A v \in Actors \ {TTY} : ctx'[v] = ctx[v]) /\ ctx[TTY].pc \in {"read", "write"}
    BY <1>1, <1>3, TtyStep DEF TtyAt
  <2>2. CallKnows(TTY)'
    <3>1. CASE ctx'[TTY].pc \in {"read", "write", "scroll", "flush"}
      BY <3>1 DEF CallKnows
    <3>2. CASE ctx'[TTY].pc = "test" /\ ctx'[TTY].con = p_tty /\ ctx'[TTY].p_vmem = cursor[p_tty]
      BY <2>1, <3>2 DEF CallKnows, memory
    <3> QED BY <1>1, <1>3, <3>1, <3>2, TtyStep
  <2>3. OneProgram'
    BY <2>1 DEF MemoryInv, OneProgram
  <2>4. KeysInv'
    BY <1>3, KeysByTty DEF MemoryInv
  <2> QED BY <1>3, <2>1, <2>2, <2>3, <2>4, NothingWritten DEF MemoryInv, InTheMiddle
<1>4. CASE \E ch \in Printed : w \in Programs /\ sys_write(w, ch)
  <2>1. PICK ch \in Printed : w \in Programs /\ sys_write(w, ch)
    BY <1>4
  <2>2. /\ UNCHANGED memory
        /\ \A v \in Actors \ {w} : ctx'[v] = ctx[v]
        /\ HasCPU(w) /\ ctx[w].pc = "idle"
        /\ ctx'[w].pc = "test" /\ ctx'[w].con = NrTty[w] /\ ctx'[w].p_vmem = cursor[NrTty[w]]
    BY <1>1, <2>1, WriteStep
  <2>3. CallKnows(w)'
    BY <2>2 DEF CallKnows, memory
  <2>4. OneProgram'
    BY <2>1, <2>2 DEF OneProgram, HasCPU
  <2>5. KeysInv'
    BY <2>1, KeysByWrite DEF MemoryInv
  <2> QED BY <2>2, <2>3, <2>4, <2>5, NothingWritten DEF MemoryInv, InTheMiddle
<1> QED BY <1>2, <1>3, <1>4

LEMMA MemoryInit == Init => MemoryInv
<1> SUFFICES ASSUME Init PROVE MemoryInv
  OBVIOUS
<1>1. \A w \in Actors : ctx[w].pc \in {"idle", "read"} /\ (w # TTY => ctx[w].pc = "idle")
  BY DEF Init, AtRest
<1>2. vmem \in [Cells -> Chars]
  BY DEF Init, Chars
<1>3. PICK pos \in 0 .. SCREEN_SIZE - 1 :
        cursor = [n \in Consoles |-> IF n = 0 THEN pos ELSE Original(n) + 2]
  BY DEF Init
<1>4. ASSUME NEW n \in Consoles PROVE ConsoleSound(n)
  <2>1. n = 0 => Original(n) = 0
    BY SizeFacts DEF Original
  <2>2. cursor[n] \in Original(n) .. Original(n) + v_mem_limit - 1
    BY <1>3, <2>1, SizeFacts, SizesInRows
  <2>3. current_start_addr[n] = Original(n) /\ Original(n) = Original(n) + 0 * SCREEN_WIDTH
    BY SizeFacts DEF Init
  <2> QED BY <2>2, <2>3, SizeFacts, SizesInRows DEF ConsoleSound
<1>5. ASSUME NEW n \in Consoles PROVE BlankBeyond(n)
  <2>1. SUFFICES ASSUME NEW a \in cursor[n] .. Original(n) + v_mem_limit - 1 PROVE vmem[a] = Space
    BY DEF BlankBeyond
  <2>2. a \in Region(n) /\ a \in Cells /\ a \in Int
    BY <1>4, SizeFacts, SizesInRows, RegionInCells DEF ConsoleSound, Region
  <2>3. SUFFICES ASSUME NEW m \in Consoles \ {0}, a \in {Original(m), Original(m) + 1} PROVE FALSE
    BY <2>2 DEF Init
  <2>4. a \in Region(m)
    BY <2>3, SizeFacts, SizesInRows DEF Region
  <2>5. m = n
    BY <2>2, <2>4, RegionsApart
  <2>6. cursor[n] = Original(n) + 2
    BY <1>3, <2>5
  <2> QED BY <2>2, <2>3, <2>5, <2>6, SizeFacts
<1>6. \A w \in Actors : CallKnows(w)
  BY <1>1 DEF CallKnows
<1>7. OneProgram /\ Apart
  BY <1>1, ActorFacts DEF OneProgram, Apart
<1> QED BY <1>2, <1>4, <1>5, <1>6, <1>7, KeysInit DEF MemoryInv

LEMMA MemoryStep == MemoryInv /\ [Next /\ Apart']_vars => MemoryInv'
<1> SUFFICES ASSUME MemoryInv, [Next /\ Apart']_vars PROVE MemoryInv'
  OBVIOUS
<1>1. CASE Next /\ Apart'
  BY <1>1, StepsOfNext, ActorFacts, MemoryByCode, MemoryByOthers
<1>2. CASE UNCHANGED vars
  <2> USE <1>2 DEF vars, memory, tty
  <2>1. KeysInv'
    BY DEF MemoryInv, KeysInv, RoughTypes, Roles, KeysOnTheirWay, TtyServesSelection, TtyAt, Busy
  <2>2. \A n \in Consoles : ConsoleSound(n)' /\ BlankBeyond(n)'
    BY DEF MemoryInv, ConsoleSound, BlankBeyond, InTheMiddle
  <2>3. \A w \in Actors : CallKnows(w)'
    BY DEF MemoryInv, CallKnows, Fits, MayScroll
  <2> QED BY <2>1, <2>2, <2>3 DEF MemoryInv, OneProgram, Apart
<1> QED BY <1>1, <1>2

\* What out_char and scroll_screen have tested and loaded holds until they
\* store, and behind the cursor of a console there is nothing but blanks.
THEOREM ConsoleMemoryInv == ApartSpec => []MemoryInv
BY MemoryInit, MemoryStep, PTL DEF ApartSpec

\* Cursor and window of every console stay in its part of the video memory,
\* with every variable in its type: whatever is typed, scrolled, selected and
\* printed, for every number of programs, consoles and rows.
THEOREM ConsoleInConsole == ApartSpec => []InConsole
<1>1. MemoryInv => InConsole
  <2> SUFFICES ASSUME MemoryInv PROVE InConsole
    OBVIOUS
  <2>1. CursorInConsole
    BY DEF MemoryInv, ConsoleSound, CursorInConsole
  <2>2. WindowInConsole
    <3> SUFFICES ASSUME NEW n \in Consoles
                 PROVE  /\ current_start_addr[n] >= Original(n)
                        /\ current_start_addr[n] + SCREEN_SIZE <= Original(n) + v_mem_limit
      BY DEF WindowInConsole
    <3>1. PICK k \in 0 .. v_mem_limit : current_start_addr[n] = Original(n) + k * SCREEN_WIDTH
      BY DEF MemoryInv, ConsoleSound
    <3>2. k * SCREEN_WIDTH \in Nat
      BY Products, SizeFacts, SizesInRows
    <3> QED BY <3>1, <3>2, SizeFacts DEF MemoryInv, ConsoleSound
  <2>3. TypeOK
    <3>1. RoughTypes /\ vmem \in [Cells -> Chars]
      BY MemoryFacts
    <3>2. ASSUME NEW n \in Consoles PROVE cursor[n] \in Nat /\ current_start_addr[n] \in Nat
      <4>1. Original(n) \in Nat /\ cursor[n] \in Int /\ current_start_addr[n] \in Int
        BY <3>1, SizeFacts DEF RoughTypes
      <4> QED BY <2>1, <2>2, <4>1, SizesInRows DEF CursorInConsole, WindowInConsole
    <3>3. cursor \in [Consoles -> Nat] /\ current_start_addr \in [Consoles -> Nat]
      BY <3>1, <3>2 DEF RoughTypes
    <3>4. \A n \in Consoles : in_buf[n] \in Seq(Typed) /\ Len(in_buf[n]) <= TTY_IN_BYTES
      <4>1. KeysOnTheirWay /\ TTY_IN_BYTES \in Nat \ {0}
        BY ConsoleAssumption DEF MemoryInv, KeysInv
      <4>2. \A n \in Consoles : n = p_tty \/ Len(in_buf[n]) = 0
        BY <4>1 DEF KeysOnTheirWay
      <4>3. \A n \in Consoles : in_buf[n] \in Seq(Typed) /\ Len(in_buf[n]) \in Nat
        BY <3>1 DEF RoughTypes
      <4>4. Len(in_buf[p_tty]) <= 1
        BY <4>1 DEF KeysOnTheirWay
      <4> QED BY <4>1, <4>2, <4>3, <4>4
    <3> QED BY <3>1, <3>3, <3>4 DEF TypeOK, RoughTypes
  <2> QED BY <2>1, <2>2, <2>3 DEF InConsole
<1> QED BY <1>1, ConsoleMemoryInv, PTL

-----------------------------------------------------------------------------
(* The text.                                                               *)

TextOf(mem, n, len) == [i \in 1 .. len |-> mem[Original(n) + i - 1]]

LEMMA TextIsSeq ==
  ASSUME NEW mem \in [Cells -> Chars], NEW n \in Consoles, NEW len \in 0 .. v_mem_limit
  PROVE  /\ TextOf(mem, n, len) \in Seq(Chars) /\ Len(TextOf(mem, n, len)) = len
         /\ \A i \in 1 .. len : TextOf(mem, n, len)[i] = mem[Original(n) + i - 1]
<1>1. \A i \in 1 .. len : mem[Original(n) + i - 1] \in Chars
  <2> SUFFICES ASSUME NEW i \in 1 .. len PROVE Original(n) + i - 1 \in Cells
    OBVIOUS
  <2>1. Original(n) + i - 1 \in Region(n)
    BY SizeFacts, SizesInRows DEF Region
  <2> QED BY <2>1, RegionInCells
<1>2. len \in Nat
  BY SizesInRows
<1> QED BY <1>1, <1>2 DEF TextOf

\* What a character, a backspace and a newline do to it.
LEMMA TextAppended ==
  ASSUME NEW mem \in [Cells -> Chars], NEW n \in Consoles, NEW len \in 0 .. v_mem_limit - 1
  PROVE  TextOf(mem, n, len + 1) = Append(TextOf(mem, n, len), mem[Original(n) + len])
<1> DEFINE t == TextOf(mem, n, len)
           u == TextOf(mem, n, len + 1)
           e == mem[Original(n) + len]
<1>1. len \in 0 .. v_mem_limit /\ len + 1 \in 0 .. v_mem_limit
  BY SizesInRows
<1>2. t \in Seq(Chars) /\ Len(t) = len /\ \A i \in 1 .. len : t[i] = mem[Original(n) + i - 1]
  BY <1>1, TextIsSeq
<1>3. u \in Seq(Chars) /\ Len(u) = len + 1 /\ \A i \in 1 .. len + 1 : u[i] = mem[Original(n) + i - 1]
  BY <1>1, TextIsSeq
<1>4. u[len + 1] = e
  <2>1. len + 1 \in 1 .. len + 1 /\ Original(n) + (len + 1) - 1 = Original(n) + len
    BY <1>1, SizeFacts
  <2> QED BY <1>3, <2>1
<1>5. e \in Chars
  <2>1. Original(n) + len \in Region(n)
    BY SizeFacts, SizesInRows DEF Region
  <2> QED BY <2>1, RegionInCells
<1> HIDE DEF t, u, e
<1>6. Append(t, e) \in Seq(Chars) /\ Len(Append(t, e)) = len + 1
      /\ (\A i \in 1 .. len : Append(t, e)[i] = t[i]) /\ Append(t, e)[len + 1] = e
  BY <1>2, <1>5, AppendProperties
<1>7. \A i \in 1 .. len + 1 : u[i] = Append(t, e)[i]
  <2> SUFFICES ASSUME NEW i \in 1 .. len + 1 PROVE u[i] = Append(t, e)[i]
    OBVIOUS
  <2>1. CASE i = len + 1
    BY <1>4, <1>6, <2>1
  <2>2. CASE i # len + 1
    BY <1>1, <1>2, <1>3, <1>6, <2>2
  <2> QED BY <2>1, <2>2
<1> QED BY <1>3, <1>6, <1>7, SeqEqual DEF t, u, e

LEMMA TextShortened ==
  ASSUME NEW mem \in [Cells -> Chars], NEW n \in Consoles, NEW len \in 1 .. v_mem_limit
  PROVE  TextOf(mem, n, len - 1) = SubSeq(TextOf(mem, n, len), 1, len - 1)
<1> DEFINE t == TextOf(mem, n, len)
           u == TextOf(mem, n, len - 1)
<1>1. len \in 0 .. v_mem_limit /\ len - 1 \in 0 .. v_mem_limit
  BY SizesInRows
<1>2. t \in Seq(Chars) /\ Len(t) = len /\ \A i \in 1 .. len : t[i] = mem[Original(n) + i - 1]
  BY <1>1, TextIsSeq
<1>3. u \in Seq(Chars) /\ Len(u) = len - 1 /\ \A i \in 1 .. len - 1 : u[i] = mem[Original(n) + i - 1]
  BY <1>1, TextIsSeq
<1> HIDE DEF t, u
<1>4. \A i \in 1 .. len - 1 : t[i] \in Chars
  BY <1>1, <1>2
<1>5. SubSeq(t, 1, len - 1) \in Seq(Chars)
      /\ Len(SubSeq(t, 1, len - 1)) = (IF 1 <= len - 1 THEN len - 1 - 1 + 1 ELSE 0)
      /\ \A i \in 1 .. len - 1 - 1 + 1 : SubSeq(t, 1, len - 1)[i] = t[1 + i - 1]
  BY <1>1, <1>4, SubSeqProperties
<1>6. Len(SubSeq(t, 1, len - 1)) = len - 1 /\ \A i \in 1 .. len - 1 : u[i] = SubSeq(t, 1, len - 1)[i]
  BY <1>1, <1>2, <1>3, <1>5
<1> QED BY <1>3, <1>5, <1>6, SeqEqual DEF t, u

LEMMA TextExtended ==
  ASSUME NEW mem \in [Cells -> Chars], NEW n \in Consoles, NEW len \in Nat, NEW gap \in Nat,
         len + gap <= v_mem_limit, \A i \in len .. len + gap - 1 : mem[Original(n) + i] = Space
  PROVE  TextOf(mem, n, len + gap) = TextOf(mem, n, len) \o [i \in 1 .. gap |-> Space]
<1> DEFINE t == TextOf(mem, n, len)
           u == TextOf(mem, n, len + gap)
           b == [i \in 1 .. gap |-> Space]
<1>1. len \in 0 .. v_mem_limit /\ len + gap \in 0 .. v_mem_limit
  BY SizesInRows
<1>2. t \in Seq(Chars) /\ Len(t) = len /\ \A i \in 1 .. len : t[i] = mem[Original(n) + i - 1]
  BY <1>1, TextIsSeq
<1>3. u \in Seq(Chars) /\ Len(u) = len + gap /\ \A i \in 1 .. len + gap : u[i] = mem[Original(n) + i - 1]
  BY <1>1, TextIsSeq
<1>4. b \in Seq(Chars) /\ Len(b) = gap /\ \A i \in 1 .. gap : b[i] = Space
  BY DEF Chars
<1> HIDE DEF t, u, b
<1>5. /\ t \o b \in Seq(Chars) /\ Len(t \o b) = len + gap
      /\ \A i \in 1 .. len + gap : (t \o b)[i] = IF i <= len THEN t[i] ELSE b[i - len]
  <2>1. Len(t \o b) = len + gap
    BY <1>2, <1>4, ConcatProperties
  <2>2. t \o b \in Seq(Chars)
    BY <1>2, <1>4, ConcatProperties
  <2>3. \A i \in 1 .. len + gap : (t \o b)[i] = IF i <= len THEN t[i] ELSE b[i - len]
    BY <1>2, <1>4, ConcatProperties
  <2> QED BY <2>1, <2>2, <2>3
<1> DEFINE tb == t \o b
<1> HIDE DEF tb
<1>6. \A i \in 1 .. len + gap : u[i] = tb[i]
  <2>0. \A i \in 1 .. len + gap : tb[i] = IF i <= len THEN t[i] ELSE b[i - len]
    BY <1>5 DEF tb
  <2> SUFFICES ASSUME NEW i \in 1 .. len + gap PROVE u[i] = tb[i]
    OBVIOUS
  <2>1. CASE i <= len
    <3>1. i \in 1 .. len
      BY <2>1
    <3>2. tb[i] = t[i]
      BY <2>0, <2>1
    <3>3. t[i] = mem[Original(n) + i - 1]
      BY <1>2, <3>1
    <3>4. u[i] = mem[Original(n) + i - 1]
      BY <1>3
    <3> QED BY <3>2, <3>3, <3>4
  <2>2. CASE i > len
    <3>1. i - 1 \in len .. len + gap - 1 /\ i - len \in 1 .. gap /\ Original(n) + i - 1 = Original(n) + (i - 1)
      BY <2>2, SizeFacts
    <3>2. mem[Original(n) + (i - 1)] = Space
      BY <3>1
    <3>3. u[i] = Space
      BY <1>3, <3>1, <3>2
    <3>4. tb[i] = b[i - len]
      BY <2>0, <2>2
    <3> QED BY <1>4, <3>1, <3>3, <3>4
  <2> QED BY <2>1, <2>2
<1> QED BY <1>3, <1>5, <1>6, SeqEqual DEF t, u, b, tb

LEMMA TextIs ==
  ASSUME MemoryInv, NEW n \in Consoles
  PROVE  /\ Text(n) = TextOf(vmem, n, cursor[n] - Original(n))
         /\ cursor[n] - Original(n) \in 0 .. v_mem_limit - 1
         /\ Len(Text(n)) = cursor[n] - Original(n)
<1>1. Text(n) = TextOf(vmem, n, cursor[n] - Original(n))
  BY DEF Text, TextOf
<1>2. cursor[n] - Original(n) \in 0 .. v_mem_limit - 1
  BY MemoryFacts, SizeFacts, SizesInRows DEF Region
<1> QED BY <1>1, <1>2, TextIsSeq, MemoryFacts, SizesInRows, SMTT(30)

\* A console keeps its text if the cells in front of its cursor stay.
LEMMA TextStays ==
  ASSUME MemoryInv, NEW n \in Consoles, cursor'[n] = cursor[n],
         \A a \in Region(n) : a < cursor[n] => vmem'[a] = vmem[a]
  PROVE  Text(n)' = Text(n)
<1>1. cursor[n] \in Region(n) /\ cursor[n] \in Int /\ Original(n) \in Nat
  BY MemoryFacts, SizeFacts
<1>2. ASSUME NEW i \in 1 .. cursor[n] - Original(n)
      PROVE  vmem'[Original(n) + i - 1] = vmem[Original(n) + i - 1]
  <2>1. Original(n) + i - 1 \in Region(n) /\ Original(n) + i - 1 < cursor[n]
    BY <1>1, SizesInRows DEF Region
  <2> QED BY <2>1
<1> QED BY <1>2 DEF Text

\* A store of the cursor is the moment at which the character is written.
LEMMA StoreWrites ==
  ASSUME MemoryInv, NEW w \in Actors, Store(w)
  PROVE  Text(ctx[w].con)' = Writers!Written(Text(ctx[w].con), ctx[w].ch)
<1> DEFINE n == ctx[w].con
           ch == ctx[w].ch
           c == cursor[n]
           pos == c - Original(n)
           next == Moved(n, c, ch)
           gap == SCREEN_WIDTH - (pos % SCREEN_WIDTH)
<1>1. n \in Consoles /\ ctx[w].pc = "store"
  BY MemoryFacts DEF Store, At
<1>2. Fits(n, ch) /\ ctx[w].loaded = c /\ (ch \notin {"NL", "BS"} => vmem[c] = ch)
  BY <1>1 DEF MemoryInv, CallKnows
<1>3. ctx'[w].con = n
  BY MemoryFacts, InCodeStep DEF InCode
<1>4. vmem' = vmem /\ cursor'[n] = next
  BY <1>1, <1>2, MemoryFacts DEF Store, RoughTypes
<1>5. Text(n)' = TextOf(vmem, n, next - Original(n))
  BY <1>3, <1>4 DEF Text, TextOf
<1>6. Text(n) = TextOf(vmem, n, pos) /\ pos \in 0 .. v_mem_limit - 1 /\ Len(Text(n)) = pos
  BY <1>1, TextIs
<1>7. vmem \in [Cells -> Chars] /\ c \in Int /\ Original(n) \in Nat /\ c = Original(n) + pos
  BY <1>1, MemoryFacts, SizeFacts
<1>8. /\ next \in Region(n)
      /\ ch = "BS" => next = c - 1
      /\ ch = "NL" => next = c + gap /\ gap \in Nat \ {0}
      /\ ch \notin {"BS", "NL"} => next = c + 1
  BY <1>1, <1>2, MovedInRegion, MemoryFacts
<1> HIDE DEF next, gap
<1>8a. /\ v_mem_limit \in Nat /\ next \in Int /\ pos \in Int
       /\ next - Original(n) \in 0 .. v_mem_limit - 1
  BY <1>6, <1>7, <1>8, SizesInRows, SMTT(30) DEF Region
<1> DEFINE to == next - Original(n)
<1>8b. /\ to \in 0 .. v_mem_limit - 1
       /\ ch = "BS" => to = pos - 1
       /\ ch = "NL" => to = pos + gap /\ gap \in Nat \ {0}
  <2>1. to \in 0 .. v_mem_limit - 1
    BY <1>8a
  <2>2. ch = "BS" => to = pos - 1
    BY <1>7, <1>8, <1>8a
  <2>3. ch = "NL" => to = pos + gap /\ gap \in Nat \ {0}
    BY <1>7, <1>8, <1>8a
  <2> QED BY <2>1, <2>2, <2>3
<1>8c. pos \in 0 .. v_mem_limit - 1 /\ v_mem_limit \in Nat
  BY <1>6, <1>8a
<1>9. CASE ch = "BS"
  <2>1. pos \in 1 .. v_mem_limit /\ next - Original(n) = pos - 1
    <3> HIDE DEF pos
    <3>1. to = pos - 1 /\ to \in 0 .. v_mem_limit - 1
      BY <1>9, <1>8b
    <3> HIDE DEF to
    <3>2. pos \in 1 .. v_mem_limit
      BY <3>1, <1>8c
    <3> QED BY <3>1, <3>2 DEF to
  <2>2. TextOf(vmem, n, pos - 1) = SubSeq(TextOf(vmem, n, pos), 1, pos - 1)
    BY <1>1, <1>7, <2>1, TextShortened
  <2> QED BY <1>5, <1>6, <1>9, <2>1, <2>2 DEF Writers!Written, Writers!Backspace
<1>10. CASE ch = "NL"
  <2>1. pos \in Nat /\ gap \in Nat /\ pos + gap <= v_mem_limit /\ next - Original(n) = pos + gap
    <3> HIDE DEF pos
    <3>1. to = pos + gap /\ to \in 0 .. v_mem_limit - 1 /\ gap \in Nat
      BY <1>10, <1>8b
    <3> HIDE DEF to
    <3>2. pos \in Nat /\ pos + gap <= v_mem_limit
      BY <3>1, <1>8c
    <3> QED BY <3>1, <3>2 DEF to
  <2>2. pos < v_mem_limit - SCREEN_WIDTH
    BY <1>2, <1>10 DEF Fits
  <2>3. ASSUME NEW i \in pos .. pos + gap - 1 PROVE vmem[Original(n) + i] = Space
    <3>1. BlankBeyond(n) /\ Original(n) + i \in c .. Original(n) + v_mem_limit - 1
      <4>1. BlankBeyond(n)
        BY <1>1 DEF MemoryInv
      <4>2. Original(n) + i \in c .. Original(n) + v_mem_limit - 1
        <5> HIDE DEF pos, c
        <5>1. i \in Int /\ pos <= i /\ i <= v_mem_limit - 1
          BY <2>1, <1>8c
        <5> QED BY <5>1, <1>7, <1>8c
      <4> QED BY <4>1, <4>2
    <3>2. ASSUME NEW v \in Actors, ctx[v].con = n, InTheMiddle(v) PROVE FALSE
      <4>1. v # w /\ Busy(v) /\ Busy(w)
        BY <1>1, <1>10, <3>2 DEF InTheMiddle, Busy
      <4> QED BY <3>2, <4>1, CallsApart
    <3> QED BY <3>1, <3>2 DEF BlankBeyond
  <2>4. TextOf(vmem, n, pos + gap) = TextOf(vmem, n, pos) \o [i \in 1 .. gap |-> Space]
    <3> HIDE DEF n, pos
    <3>1. pos \in Nat /\ gap \in Nat /\ pos + gap <= v_mem_limit
      BY <2>1
    <3>2. vmem \in [Cells -> Chars] /\ n \in Consoles
      BY <1>1, <1>7
    <3> QED BY <2>3, <3>1, <3>2, TextExtended
  <2>5. Writers!Written(Text(n), ch) = Writers!Newline(Text(n))
    BY <1>10 DEF Writers!Written
  <2>6. Writers!Newline(Text(n)) = Text(n) \o [i \in 1 .. gap |-> Space]
    BY <1>6, <2>2 DEF Writers!Newline, gap
  <2> QED BY <1>5, <1>6, <2>1, <2>4, <2>5, <2>6
<1>11. CASE ch \notin {"BS", "NL"}
  <2>1. next - Original(n) = pos + 1
    BY <1>7, <1>8, <1>11
  <2>2. pos < v_mem_limit - 1 /\ Original(n) + pos = c /\ vmem[c] = ch
    BY <1>2, <1>7, <1>11 DEF Fits
  <2>3. TextOf(vmem, n, pos + 1) = Append(TextOf(vmem, n, pos), ch)
    BY <1>1, <1>6, <1>7, <2>2, TextAppended
  <2>4. Writers!Written(Text(n), ch) = Append(Text(n), ch)
    BY <1>6, <1>11, <2>2 DEF Writers!Written
  <2> QED BY <1>5, <1>6, <2>1, <2>3, <2>4
<1> QED BY <1>9, <1>10, <1>11

\* What Terminal sees of the memory.
texts == [n \in Consoles |-> Text(n)]

\* A step of out_char or scroll_screen writes one character or leaves all text.
LEMMA CodeWritesText ==
  ASSUME MemoryInv, NEW w \in Actors, InCode(w)
  PROVE  Writers!TerminalNext \/ texts' = texts
<1> DEFINE n == ctx[w].con
<1>1. n \in Consoles /\ ctx[w].ch \in Chars /\ OwnPart(w)
  BY MemoryFacts, ContextFields, CodeKeepsOwn
<1>2. ASSUME NEW m \in Consoles \ {n} PROVE Text(m)' = Text(m)
  <2>1. cursor'[m] = cursor[m] /\ \A a \in Region(m) : vmem'[a] = vmem[a]
    BY <1>1, RegionsApart, RegionInCells DEF OwnPart
  <2> QED BY <2>1, TextStays
<1>3. CASE Store(w)
  <2>1. ctx'[w].con = n
    BY <1>3, MemoryFacts, InCodeStep DEF InCode
  <2>2. texts' = [texts EXCEPT ![n] = Writers!Written(@, ctx[w].ch)]
    BY <1>1, <1>2, <1>3, <2>1, StoreWrites DEF texts
  <2> QED BY <1>1, <2>2 DEF Writers!TerminalNext, Writers!OutChar, texts
<1>4. CASE ~Store(w)
  <2>1. cursor' = cursor
    BY <1>4 DEF InCode, Test, Cell, Load, Erase, Loop, scroll_screen, ScrollLoad, ScrollStore, memory
  <2>2. ASSUME NEW a \in Region(n), a < cursor[n] PROVE vmem'[a] = vmem[a]
    <3>1. a \in Cells /\ a \in Int /\ cursor[n] \in Int
      BY <1>1, RegionInCells, MemoryFacts, SizeFacts, SizesInRows DEF Region
    <3>2. CASE Cell(w)
      <4>1. ctx[w].p_vmem = cursor[n]
        BY <3>2 DEF MemoryInv, CallKnows, Cell, At
      <4> QED BY <2>2, <3>1, <3>2, <4>1, MemoryFacts DEF Cell
    <3>3. CASE Erase(w)
      <4>1. ctx[w].p_vmem - 1 = cursor[n]
        BY <3>1, <3>3 DEF MemoryInv, CallKnows, Erase, At
      <4> QED BY <2>2, <3>1, <3>3, <4>1, MemoryFacts DEF Erase
    <3>4. CASE ~Cell(w) /\ ~Erase(w)
      BY <1>4, <3>4 DEF InCode, Test, Load, Loop, scroll_screen, ScrollLoad, ScrollStore, memory
    <3> QED BY <3>2, <3>3, <3>4
  <2>3. \A m \in Consoles : m = n => Text(m)' = Text(m)
    BY <1>1, <2>1, <2>2, TextStays
  <2> QED BY <1>2, <2>3 DEF texts
<1> QED BY <1>3, <1>4

\* The text of each console is what was written on it, one character after
\* the other, although the code that writes it can be interrupted anywhere.
THEOREM ConsoleRefinesTerminal == ApartSpec => ImplementsTerminal
<1>1. MemoryInv /\ [Next /\ Apart']_vars => [Writers!TerminalNext]_texts
  <2> SUFFICES ASSUME MemoryInv, [Next /\ Apart']_vars
               PROVE  Writers!TerminalNext \/ texts' = texts
    OBVIOUS
  <2>1. CASE \E w \in Actors : InCode(w)
    BY <2>1, CodeWritesText
  <2>2. ASSUME UNCHANGED memory PROVE texts' = texts
    BY <2>2 DEF memory, texts, Text
  <2>3. CASE UNCHANGED vars
    BY <2>2, <2>3 DEF vars
  <2>4. CASE TtySteps \/ (\E w \in Actors : flush(w)) \/ \E p \in Programs : \E ch \in Printed : sys_write(p, ch)
    BY <2>2, <2>4, MemoryFacts, TtyStep, FlushStep, WriteStep
  <2> QED BY <2>1, <2>3, <2>4, StepsOfNext
<1>2. ImplementsTerminal <=> [][Writers!TerminalNext]_texts
  BY DEF ImplementsTerminal, Writers!TerminalSpec, texts
<1> QED BY <1>1, <1>2, ConsoleMemoryInv, PTL DEF ApartSpec
=============================================================================
