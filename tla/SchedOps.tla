------------------------------ MODULE SchedOps ------------------------------
(***************************************************************************)
(* The arithmetic of the two schedulers of kenos: sched0 (kernel/proc.c)   *)
(* and xsched01 (module/xsched01.c).  Both pick the first process with the *)
(* most ticks left and, when no process has any, refill every process      *)
(* first; they differ in the refill alone.                                 *)
(***************************************************************************)
EXTENDS Integers

CONSTANTS
  N,         \* NR_TASKS + NR_PROCS, the entries of proc_table
  Priority,  \* Priority[p]: proc_table[p].priority
  Floor      \* where the model stops counting a process' debt of ticks

Procs == 0 .. N - 1

ASSUME NAssumption == N \in Nat \ {0}
ASSUME PriorityAssumption == Priority \in [Procs -> Nat \ {0}]
\* xsched01 would look for a process for ever if a fifth of each were zero.
ASSUME RefillAssumption == \E p \in Procs : Priority[p] >= 5
ASSUME FloorAssumption == Floor \in Int /\ Floor <= 0

\* What a scheduler writes to proc->ticks when it refills (C division of
\* positive numbers).
sched0Quota == Priority
xsched01Quota == [p \in Procs |-> Priority[p] \div 5]

\* The values of the pointer `schedule`, each named for the quota it refills.
Quotas == {sched0Quota, xsched01Quota}

\* p->ticks--.  The code compares ticks with 0 and with other positive ticks
\* only, so counts below Floor behave alike and the model stops there.
SpendTick(t) == IF t > Floor THEN t - 1 ELSE t

\* The scan leaves *p_ready at the first of the processes with most ticks.
IsBest(t, p) ==
  /\ t[p] > 0
  /\ \A q \in Procs : t[q] < t[p] \/ (t[q] = t[p] /\ p <= q)

Best(t) == CHOOSE p \in Procs : IsBest(t, p)

Exhausted(t) == \A p \in Procs : t[p] <= 0

\* The ticks a scan that finds a process runs on.
Filled(t, quota) == IF Exhausted(t) THEN quota ELSE t
=============================================================================
