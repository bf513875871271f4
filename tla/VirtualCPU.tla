----------------------------- MODULE VirtualCPU -----------------------------
(***************************************************************************)
(* What a process is promised: a processor of its own.  Its registers are  *)
(* changed by its own instructions alone, and a system call suspends it    *)
(* until the kernel answers, in EAX and nowhere else.  Neither the other   *)
(* processes nor the interrupts can be seen.                               *)
(***************************************************************************)
EXTENDS Machine

VARIABLES
  vcpu,     \* vcpu[p]: the registers of process p
  waiting   \* the processes inside a system call

vvars == <<vcpu, waiting>>

Init ==
  /\ vcpu = [p \in Procs |-> FirstContext(p)]
  /\ waiting = {}

Execute(p) ==
  /\ p \notin waiting
  /\ \E c \in Contexts :
       /\ Instruction(p, vcpu[p], c)
       /\ vcpu' = [vcpu EXCEPT ![p] = c]
  /\ UNCHANGED waiting

Ask(p) ==
  /\ p \notin waiting \cup {TTY}
  /\ waiting' = waiting \cup {p}
  /\ UNCHANGED vcpu

Answer(p) ==
  /\ p \in waiting
  /\ waiting' = waiting \ {p}
  /\ \E r \in 0 .. TickWrap - 1 : vcpu' = [vcpu EXCEPT ![p].eax = r]

Next == \E p \in Procs : Execute(p) \/ Ask(p) \/ Answer(p)

Spec == Init /\ [][Next]_vvars
=============================================================================
