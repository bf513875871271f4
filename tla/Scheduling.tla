----------------------------- MODULE Scheduling -----------------------------
(***************************************************************************)
(* What the clock and the scheduler promise, without their loops: the      *)
(* running process pays for every tick, it is replaced only once its ticks *)
(* are spent, its successor has the most ticks left, and quotas are        *)
(* renewed only when nobody has any left.                                  *)
(***************************************************************************)
EXTENDS SchedOps

VARIABLES
  ticks,    \* ticks[p]: proc_table[p].ticks
  p_ready   \* p_proc_ready

svars == <<ticks, p_ready>>

Init ==
  /\ ticks = Priority
  /\ p_ready = 0

\* One clock interrupt is charged to the process that was running.
Charge ==
  /\ ticks' = [ticks EXCEPT ![p_ready] = SpendTick(@)]
  /\ UNCHANGED p_ready

\* The running process has no ticks left and the scheduler names the next.
Switch ==
  /\ ticks[p_ready] <= 0
  /\ \E quota \in Quotas : ticks' = Filled(ticks, quota)
  /\ p_ready' = Best(ticks')

Next == Charge \/ Switch

Spec == Init /\ [][Next]_svars
=============================================================================
