------------------------------ MODULE Keyboard ------------------------------
(***************************************************************************)
(* From the keys to in_process: the keyboard and its controller, the       *)
(* interrupt that stores scan codes, and keyboard_read of task_tty that    *)
(* makes keys of them (kernel/keyboard.c, include/keymap.h).               *)
(*                                                                         *)
(* kb_in is the LossyFifo that module KbBuffer implements.  A call of      *)
(* keyboard_read is told by the bytes it has got so far, since it decides  *)
(* from them alone whether to wait for another.  Booleans of the source    *)
(* that belong together are a set: the names of those that are TRUE.       *)
(***************************************************************************)
EXTENDS Naturals, Sequences, SequencesExt

CONSTANTS
  KB_IN_BYTES,  \* the size of kb_in
  Keys,         \* the keys that are used
  MaxPending    \* bound: no key is touched while as many bytes are on their
                \* way, or, once a byte was dropped, while any is

VARIABLES
  held,         \* the keys that are down
  line,         \* bytes the keyboard has still to send
  ibf,          \* the byte the controller has still to give the keyboard, if any
  expects,      \* what the keyboard takes the next byte for
  leds,         \* its LEDs
  queue,        \* kb_in
  got,          \* the bytes this call of keyboard_read has got
  mods,         \* shift_l ... alt_r
  locks,        \* caps_lock, num_lock, scroll_lock
  event,        \* what keyboard_read is about to pass on
  pc,           \* where task_tty is in keyboard_read
  dropped,      \* history: a byte was lost
  typed,        \* history: the events the keys pressed so far owe, until then
  toggled       \* history: the locks as the presses leave them

keyboard == <<held, line, ibf, expects, leds>>
driver == <<got, mods, locks, event, pc>>
history == <<dropped, typed, toggled>>
vars == <<keyboard, queue, driver, history>>

-----------------------------------------------------------------------------
(* Scan code set 1, as the appendix of keymap.h has it.                    *)

KB_ACK == \hFA
LED_CODE == \hED
FLAG_BREAK == \h80

PauseBreak == <<\hE1, \h1D, \h45, \hE1, \h9D, \hC5>>
PrintScreen == <<\hE0, \h2A, \hE0, \h37>>
PrintScreenReleased == <<\hE0, \hB7, \hE0, \hAA>>

MakeCode ==
  [A |-> <<\h1E>>, ENTER |-> <<\h1C>>, F12 |-> <<\h58>>,
   L_SHFT |-> <<\h2A>>, R_SHFT |-> <<\h36>>, L_CTRL |-> <<\h1D>>, R_CTRL |-> <<\hE0, \h1D>>,
   L_ALT |-> <<\h38>>, R_ALT |-> <<\hE0, \h38>>,
   CAPS |-> <<\h3A>>, NUM |-> <<\h45>>, SCROLL |-> <<\h46>>,
   U_ARROW |-> <<\hE0, \h48>>, KP_8 |-> <<\h48>>, KP_EN |-> <<\hE0, \h1C>>,
   PRTSCRN |-> PrintScreen, PAUSE |-> PauseBreak]

BreakCode(k) ==
  CASE k = "PRTSCRN" -> PrintScreenReleased
    [] k = "PAUSE" -> <<>>
    [] OTHER -> [MakeCode[k] EXCEPT ![Len(MakeCode[k])] = @ + FLAG_BREAK]

ASSUME KeyboardAssumption ==
  /\ KB_IN_BYTES \in Nat \ {0}
  /\ Keys \subseteq DOMAIN MakeCode

\* The rows of keymap that these keys have, in columns plain, Shift, E0.
keymap(row) ==
  CASE row = \h1E -> <<"a", "A", "0">>
    [] row = \h1C -> <<"ENTER", "ENTER", "PAD_ENTER">>
    [] row = \h58 -> <<"F12", "F12", "0">>
    [] row = \h2A -> <<"SHIFT_L", "SHIFT_L", "0">>
    [] row = \h36 -> <<"SHIFT_R", "SHIFT_R", "0">>
    [] row = \h1D -> <<"CTRL_L", "CTRL_L", "CTRL_R">>
    [] row = \h38 -> <<"ALT_L", "ALT_L", "ALT_R">>
    [] row = \h3A -> <<"CAPS_LOCK", "CAPS_LOCK", "0">>
    [] row = \h45 -> <<"NUM_LOCK", "NUM_LOCK", "0">>
    [] row = \h46 -> <<"SCROLL_LOCK", "SCROLL_LOCK", "0">>
    [] row = \h48 -> <<"PAD_8", "8", "UP">>
    [] OTHER -> <<"0", "0", "0">>

\* What a modifier key sets and a lock key toggles.  The case of ALT_R names
\* alt_l.
ModifierOf ==
  [SHIFT_L |-> "shift_l", SHIFT_R |-> "shift_r", CTRL_L |-> "ctrl_l",
   CTRL_R |-> "ctrl_r", ALT_L |-> "alt_l", ALT_R |-> "alt_l"]
LockOf ==
  [CAPS_LOCK |-> "caps_lock", NUM_LOCK |-> "num_lock", SCROLL_LOCK |-> "scroll_lock"]

LedBits(on) ==
  (IF "caps_lock" \in on THEN 4 ELSE 0) + (IF "num_lock" \in on THEN 2 ELSE 0)
    + (IF "scroll_lock" \in on THEN 1 ELSE 0)

Flip(S, x) == IF x \in S THEN S \ {x} ELSE S \cup {x}

-----------------------------------------------------------------------------
Modifiers == {"shift_l", "shift_r", "ctrl_l", "ctrl_r", "alt_l", "alt_r"}
Locks == {"caps_lock", "num_lock", "scroll_lock"}
KeyValues ==
  {"a", "A", "0", "8", "ENTER", "F12", "UP", "PAD_8", "PAD_ENTER", "PRINTSCREEN", "PAUSEBREAK"}
    \cup DOMAIN ModifierOf \cup DOMAIN LockOf
Events == [key : KeyValues, pad : BOOLEAN, flags : SUBSET Modifiers]

TypeOK ==
  /\ held \subseteq Keys
  /\ line \in Seq(0 .. 255)
  /\ ibf \in Seq(0 .. 255) /\ Len(ibf) <= 1
  /\ expects \in {"command", "leds"}
  /\ leds \in 0 .. 7
  /\ queue \in Seq(0 .. 255) /\ Len(queue) <= KB_IN_BYTES
  /\ got \in Seq(0 .. 255) /\ Len(got) <= 5
  /\ mods \subseteq Modifiers
  /\ locks \subseteq Locks
  /\ event \in Events
  /\ pc \in {"read", "LED_CODE", "leds", "in_process"}
  /\ dropped \in BOOLEAN
  /\ typed \in Seq(Events)
  /\ toggled \subseteq Locks

NoEvent == [key |-> "0", pad |-> FALSE, flags |-> {}]

\* What init_keyboard leaves.  Its two kb_acks may have read the answers of
\* the keyboard, or come before them.
Init ==
  /\ held = {}
  /\ line \in {<<>>, <<KB_ACK>>, <<KB_ACK, KB_ACK>>}
  /\ ibf = <<>>
  /\ expects = "command"
  /\ leds = LedBits({"num_lock"})
  /\ queue = <<>>
  /\ got = <<>>
  /\ mods = {}
  /\ locks = {"num_lock"}
  /\ event = NoEvent
  /\ pc = "read"
  /\ dropped = FALSE
  /\ typed = <<>>
  /\ toggled = {"num_lock"}

-----------------------------------------------------------------------------
(* The person at the keyboard, the keyboard and its controller.            *)

FlagOf ==
  [L_SHFT |-> "shift_l", R_SHFT |-> "shift_r", L_CTRL |-> "ctrl_l",
   R_CTRL |-> "ctrl_r", L_ALT |-> "alt_l", R_ALT |-> "alt_r"]

\* The value of keyboard.h of a key whose own does not depend on others.
ValueOf ==
  [L_SHFT |-> "SHIFT_L", R_SHFT |-> "SHIFT_R", L_CTRL |-> "CTRL_L", R_CTRL |-> "CTRL_R",
   L_ALT |-> "ALT_L", R_ALT |-> "ALT_R", CAPS |-> "CAPS_LOCK", NUM |-> "NUM_LOCK",
   SCROLL |-> "SCROLL_LOCK", ENTER |-> "ENTER", KP_EN |-> "ENTER", U_ARROW |-> "UP",
   F12 |-> "F12", PRTSCRN |-> "PRINTSCREEN"]

\* What a press of k means: the symbol on the key, and the modifiers down.
Meaning(k, down) ==
  LET shift == down \cap {"L_SHFT", "R_SHFT"} # {}
      key ==
        CASE k = "A" -> IF shift # ("caps_lock" \in toggled) THEN "A" ELSE "a"
          [] k = "KP_8" -> IF shift \/ "num_lock" \in toggled THEN "8" ELSE "UP"
          [] OTHER -> ValueOf[k]
  IN [key |-> key, pad |-> k = "KP_EN" \/ (k = "KP_8" /\ ~shift),
      flags |-> {FlagOf[m] : m \in down \cap DOMAIN FlagOf}]

Room == Len(line) + Len(queue) < IF dropped THEN 1 ELSE MaxPending

\* A press, or the repetition of a key held down.  PAUSE means nothing to
\* in_process.
Press(k) ==
  /\ Room
  /\ held' = held \cup {k}
  /\ line' = line \o MakeCode[k]
  /\ typed' = IF k = "PAUSE" \/ dropped THEN typed ELSE Append(typed, Meaning(k, held'))
  /\ toggled' = CASE k = "CAPS" -> Flip(toggled, "caps_lock")
                  [] k = "NUM" -> Flip(toggled, "num_lock")
                  [] k = "SCROLL" -> Flip(toggled, "scroll_lock")
                  [] OTHER -> toggled
  /\ UNCHANGED <<ibf, expects, leds, queue, driver, dropped>>

Release(k) ==
  /\ Room
  /\ k \in held
  /\ held' = held \ {k}
  /\ line' = line \o BreakCode(k)
  /\ UNCHANGED <<ibf, expects, leds, queue, driver, history>>

\* The keyboard gets the byte the driver wrote, and acknowledges it when it has
\* sent the codes of the keys before: never inside of one.
KeyboardObeys ==
  /\ ibf # <<>>
  /\ ibf' = <<>>
  /\ IF expects = "leds" THEN leds' = ibf[1] /\ expects' = "command"
                         ELSE expects' = "leds" /\ UNCHANGED leds
  /\ line' = Append(line, KB_ACK)
  /\ UNCHANGED <<held, queue, driver, history>>

-----------------------------------------------------------------------------
(* kernel/keyboard.c                                                       *)

\* Mutant: one slot is never used.
KeyboardHandler_KeepsASlot ==
  /\ line # <<>>
  /\ line' = Tail(line)
  /\ queue' = IF Len(queue) < KB_IN_BYTES - 1 THEN Append(queue, Head(line)) ELSE queue
  /\ dropped' = (dropped \/ Len(queue) = KB_IN_BYTES)
  /\ typed' = IF dropped' THEN <<>> ELSE typed
  /\ UNCHANGED <<held, ibf, expects, leds, driver, toggled>>

\* A byte arrives and interrupts.
keyboard_handler ==
  /\ line # <<>>
  /\ line' = Tail(line)
  /\ queue' = IF Len(queue) < KB_IN_BYTES THEN Append(queue, Head(line)) ELSE queue
  /\ dropped' = (dropped \/ Len(queue) = KB_IN_BYTES)
  /\ typed' = IF dropped' THEN <<>> ELSE typed
  /\ UNCHANGED <<held, ibf, expects, leds, driver, toggled>>

\* Mutant: the shift code in front of PrintScreen is taken for a key.
MustGetMore_NoPrintScreen(bytes) ==
  bytes = <<\hE0>> \/ IsStrictPrefix(bytes, PauseBreak)

\* Mutant: the loop over Pause's codes runs once too often.
MustGetMore_PastPause(bytes) ==
  \/ bytes = PauseBreak
  \/ \E s \in {PauseBreak, PrintScreen, PrintScreenReleased} : IsStrictPrefix(bytes, s)

\* keyboard_read waits for another byte as long as what it has could become
\* one of the three long sequences; <<E0>> is the start of two of them.
MustGetMore(bytes) ==
  \E s \in {PauseBreak, PrintScreen, PrintScreenReleased} : IsStrictPrefix(bytes, s)

\* code_with_E0 and scan_code when it waits no more.
CodeWithE0(bytes) ==
  Len(bytes) > 1 /\ bytes[1] = \hE0 /\ bytes[Len(bytes) - 1] = \hE0
ScanCode(bytes) == IF bytes[1] = \hE1 THEN \hE1 ELSE Last(bytes)

\* The switch over the keys of the number pad.
NumPad(key) ==
  CASE key = "PAD_ENTER" -> "ENTER"
    [] key = "PAD_8" -> IF "num_lock" \in locks THEN "8" ELSE "UP"
    [] OTHER -> key

\* The end of keyboard_read: a break code is ignored, the flags are added and
\* the key goes to in_process, after set_leds if the key is a lock's.
Report(key, make) ==
  IF make
  THEN /\ event' = [key |-> NumPad(key), pad |-> key \in {"PAD_8", "PAD_ENTER"}, flags |-> mods']
       /\ pc' = IF key \in DOMAIN LockOf THEN "LED_CODE" ELSE "in_process"
  ELSE UNCHANGED <<event, pc>>

\* Mutant: a modifier that comes up is overlooked.
Apply_IgnoresBreak(key, make) ==
  /\ mods' = IF key \in DOMAIN ModifierOf /\ make THEN mods \cup {ModifierOf[key]} ELSE mods
  /\ locks' = IF make /\ key \in DOMAIN LockOf THEN Flip(locks, LockOf[key]) ELSE locks

\* The switch over the modifiers and the locks.
Apply(key, make) ==
  /\ mods' = IF key \notin DOMAIN ModifierOf THEN mods
             ELSE IF make THEN mods \cup {ModifierOf[key]} ELSE mods \ {ModifierOf[key]}
  /\ locks' = IF make /\ key \in DOMAIN LockOf THEN Flip(locks, LockOf[key]) ELSE locks

\* A sequence that is none of the three long ones: its key from keymap.
Decode(bytes) ==
  LET make == ScanCode(bytes) < FLAG_BREAK
      row == keymap(ScanCode(bytes) % FLAG_BREAK)
      shift == mods \cap {"shift_l", "shift_r"} # {}
      caps == shift # ("caps_lock" \in locks /\ row[1] = "a")
      key == IF CodeWithE0(bytes) THEN row[3] ELSE IF caps THEN row[2] ELSE row[1]
  IN Apply(key, make) /\ Report(key, make)

\* Nothing sets `make` on the way of Pause: its value is what the stack holds.
Analyze(bytes) ==
  CASE bytes = PauseBreak ->
         UNCHANGED <<mods, locks>> /\ \E make \in BOOLEAN : Report("PAUSEBREAK", make)
    [] bytes = PrintScreen -> UNCHANGED <<mods, locks>> /\ Report("PRINTSCREEN", TRUE)
    [] bytes = PrintScreenReleased -> UNCHANGED <<mods, locks>> /\ Report("PRINTSCREEN", FALSE)
    [] OTHER -> Decode(bytes)

\* keyboard_read gets a byte and goes on to the next point where it waits.
keyboard_read ==
  /\ pc = "read"
  /\ queue # <<>>
  /\ queue' = Tail(queue)
  /\ LET bytes == Append(got, Head(queue))
     IN IF MustGetMore(bytes)
        THEN got' = bytes /\ UNCHANGED <<mods, locks, event, pc>>
        ELSE got' = <<>> /\ Analyze(bytes)
  /\ UNCHANGED <<keyboard, history>>

\* kb_wait, a byte, kb_ack; twice.  kb_ack reads the port once, whatever is
\* there (`kb_read =! KB_ACK` is 0): the acknowledgements end up in kb_in.
set_leds ==
  /\ ibf = <<>>
  /\ \/ pc = "LED_CODE" /\ ibf' = <<LED_CODE>> /\ pc' = "leds"
     \/ pc = "leds" /\ ibf' = <<LedBits(locks)>> /\ pc' = "in_process"
  /\ UNCHANGED <<held, line, expects, leds, queue, got, mods, locks, event, history>>

\* in_process takes the event.
in_process ==
  /\ pc = "in_process"
  /\ pc' = "read"
  /\ event' = NoEvent
  /\ typed' = IF event.key = "PAUSEBREAK" \/ typed = <<>> THEN typed ELSE Tail(typed)
  /\ UNCHANGED <<keyboard, queue, got, mods, locks, dropped, toggled>>

TaskTty == keyboard_read \/ set_leds \/ in_process

Next ==
  \/ \E k \in Keys : Press(k) \/ Release(k)
  \/ KeyboardObeys
  \/ keyboard_handler
  \/ TaskTty

Spec == Init /\ [][Next]_vars

\* The hardware passes its bytes on, and task_tty executes: module Kernel shows
\* that it runs again and again, unless each tick falls inside the kernel.
FairSpec ==
  Spec /\ WF_vars(KeyboardObeys) /\ WF_vars(keyboard_handler) /\ WF_vars(TaskTty)

-----------------------------------------------------------------------------
(* Properties.  Once a byte has been dropped a sequence is torn and nothing *)
(* below is promised.                                                       *)

Quiet == line = <<>> /\ queue = <<>> /\ got = <<>> /\ pc = "read" /\ ~dropped

\* shift_l ... ctrl_r are those of the keys held down once all their codes are
\* read, whatever was pressed with them, repeated or let go in which order.
ModifiersMatchKeys == Quiet => mods = {FlagOf[k] : k \in held \cap DOMAIN FlagOf}

\* The LEDs come to show caps_lock, num_lock and scroll_lock, although the
\* driver does not wait for the acknowledgement between the two bytes.
LedsShowLocks == Quiet /\ ibf = <<>> => leds = LedBits(locks)

\* What the driver remembers is in its types, and is what the keys and the
\* LEDs of the keyboard are.
KeyboardInv == TypeOK /\ ModifiersMatchKeys /\ LedsShowLocks

\* No key is lost while no byte is.
NothingLost == Quiet => typed = <<>>

\* What reaches in_process is what was typed, in that order, with the symbol
\* and the modifiers as they were when the key went down; the acknowledgements
\* of set_leds among the codes, the shift codes of PrintScreen and the random
\* `make` of Pause do not show.
TypedInOrder ==
  [][in_process /\ event.key # "PAUSEBREAK" /\ ~dropped
       => typed # <<>> /\ event = Head(typed)]_vars

\* A call of keyboard_read comes to its end: task_tty, which has the consoles
\* to serve too, waits neither for a byte that does not come nor for the
\* keyboard's acknowledgement.
ReadReturns ==
  (got # <<>> \/ pc # "read") ~> (dropped \/ (got = <<>> /\ pc = "read"))
=============================================================================
