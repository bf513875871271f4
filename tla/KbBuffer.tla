------------------------------ MODULE KbBuffer ------------------------------
(***************************************************************************)
(* kb_in, the ring buffer of kernel/keyboard.c between keyboard_handler    *)
(* and get_byte_from_kb_buf, at the level of the loads and stores that an  *)
(* interrupt can come between.  kb_in.count is written by both.            *)
(*                                                                         *)
(* keyboard_handler is one action: while it runs no process does (module   *)
(* Kernel: a nested clock interrupt does not switch) and it does not nest  *)
(* in itself.  The kernel is compiled without optimisation, so that every  *)
(* access in the source is one to memory and `count--` is a load, a        *)
(* subtraction and a store.                                                *)
(***************************************************************************)
EXTENDS Naturals, Sequences

CONSTANTS
  Bytes,         \* scan codes
  KB_IN_BYTES    \* the size of the buffer

ASSUME KbBufferAssumption ==
  /\ KB_IN_BYTES \in Nat \ {0}
  /\ 0 \in Bytes

VARIABLES
  buf,           \* kb_in.buf
  p_head,        \* kb_in.p_head - kb_in.buf: where the next byte goes
  p_tail,        \* kb_in.p_tail - kb_in.buf: the byte to be read next
  count,         \* kb_in.count
  pc,            \* where task_tty is in get_byte_from_kb_buf
  loaded,        \* the register `count--` works in
  scan_code,     \* the byte read
  iflag          \* IF of task_tty

kb_in == <<buf, p_head, p_tail, count>>
vars == <<kb_in, pc, loaded, scan_code, iflag>>

Slots == 0 .. KB_IN_BYTES - 1

TypeOK ==
  /\ buf \in [Slots -> Bytes]
  /\ p_head \in Slots
  /\ p_tail \in Slots
  /\ count \in 0 .. KB_IN_BYTES
  /\ pc \in {"out", "wait", "cli", "read", "load", "store", "sti"}
  /\ loaded \in 0 .. KB_IN_BYTES
  /\ scan_code \in Bytes
  /\ iflag \in BOOLEAN

\* What init_keyboard leaves.
Init ==
  /\ buf = [i \in Slots |-> 0]
  /\ p_head = 0
  /\ p_tail = 0
  /\ count = 0
  /\ pc = "out"
  /\ loaded = 0
  /\ scan_code = 0
  /\ iflag = TRUE

-----------------------------------------------------------------------------
\* p++, and back to the start of the buffer at its end.
Advance(p) == IF p + 1 = KB_IN_BYTES THEN 0 ELSE p + 1

\* Mutant: a byte too many is stored.
KeyboardHandler_Overfills(byte) ==
  /\ iflag
  /\ IF count <= KB_IN_BYTES
     THEN /\ buf' = [buf EXCEPT ![p_head] = byte]
          /\ p_head' = Advance(p_head)
          /\ count' = count + 1
     ELSE UNCHANGED <<buf, p_head, count>>
  /\ UNCHANGED <<p_tail, pc, loaded, scan_code, iflag>>

\* The interrupt of a byte that arrives: it is stored, or dropped when the
\* buffer is full.
keyboard_handler(byte) ==
  /\ iflag
  /\ IF count < KB_IN_BYTES
     THEN /\ buf' = [buf EXCEPT ![p_head] = byte]
          /\ p_head' = Advance(p_head)
          /\ count' = count + 1
     ELSE UNCHANGED <<buf, p_head, count>>
  /\ UNCHANGED <<p_tail, pc, loaded, scan_code, iflag>>

-----------------------------------------------------------------------------
(* get_byte_from_kb_buf                                                    *)

Goto(from, to) == pc = from /\ pc' = to

\* keyboard_read calls, the first time in each call only with count > 0.
Call ==
  /\ Goto("out", "wait")
  /\ UNCHANGED <<kb_in, loaded, scan_code, iflag>>

\* while (kb_in.count <= 0) {}
Wait ==
  /\ count > 0
  /\ Goto("wait", "cli")
  /\ UNCHANGED <<kb_in, loaded, scan_code, iflag>>

\* Mutant: interrupts stay enabled.
DisableInt_Not ==
  /\ Goto("cli", "read")
  /\ UNCHANGED <<kb_in, loaded, scan_code, iflag>>

DisableInt ==
  /\ Goto("cli", "read")
  /\ iflag' = FALSE
  /\ UNCHANGED <<kb_in, loaded, scan_code>>

Read ==
  /\ Goto("read", "load")
  /\ scan_code' = buf[p_tail]
  /\ p_tail' = Advance(p_tail)
  /\ UNCHANGED <<buf, p_head, count, loaded, iflag>>

LoadCount ==
  /\ Goto("load", "store")
  /\ loaded' = count
  /\ UNCHANGED <<kb_in, scan_code, iflag>>

StoreCount ==
  /\ Goto("store", "sti")
  /\ count' = loaded - 1
  /\ UNCHANGED <<buf, p_head, p_tail, loaded, scan_code, iflag>>

EnableInt ==
  /\ Goto("sti", "out")
  /\ iflag' = TRUE
  /\ UNCHANGED <<kb_in, loaded, scan_code>>

get_byte_from_kb_buf ==
  Wait \/ DisableInt \/ Read \/ LoadCount \/ StoreCount \/ EnableInt

Next ==
  \/ \E byte \in Bytes : keyboard_handler(byte)
  \/ Call
  \/ get_byte_from_kb_buf

Spec == Init /\ [][Next]_vars

-----------------------------------------------------------------------------
(* Properties.                                                             *)

\* How many bytes wait: one has been taken before count says so.
Waiting == IF pc \in {"load", "store"} THEN count - 1 ELSE count

\* The slot of the i-th of them.
SlotOf(i) ==
  IF p_tail + i <= KB_IN_BYTES THEN p_tail + i - 1 ELSE p_tail + i - 1 - KB_IN_BYTES

\* The three of kb_in's fields that say how much is in it agree whenever an
\* interrupt can look at them, and a byte is only taken when there is one.
RingInv ==
  /\ p_head = IF p_tail + Waiting < KB_IN_BYTES
              THEN p_tail + Waiting
              ELSE p_tail + Waiting - KB_IN_BYTES
  /\ pc \in {"cli", "read", "load", "store"} => count > 0
  /\ pc = "store" => loaded = count

\* The buffer is a FIFO that drops a byte only when KB_IN_BYTES wait: the
\* wrap of the two pointers, the handler that comes while task_tty waits and
\* the count they both write lose nothing, repeat nothing and reorder nothing.
Fifo == INSTANCE LossyFifo WITH
  Capacity <- KB_IN_BYTES,
  queue <- [i \in 1 .. Waiting |-> buf[SlotOf(i)]],
  taken <- scan_code

ImplementsFifo == Fifo!FifoSpec
=============================================================================
