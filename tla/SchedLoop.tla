----------------------------- MODULE SchedLoop ------------------------------
(***************************************************************************)
(* clock_handler calling sched0 or xsched01, one step per iteration of     *)
(* their loops.  In C the two functions are one text but for the value     *)
(* they refill with, which `quota` holds during a call.  No other process  *)
(* or handler touches proc_table meanwhile (module Kernel shows why), so   *)
(* the loop is the only thread here.                                       *)
(***************************************************************************)
EXTENDS SchedOps

VARIABLES
  pc,              \* "idle" outside a call, else the loop being run
  ticks,           \* proc_table[p].ticks
  p_ready,         \* *p_ready, i.e. p_proc_ready
  greatest_ticks,  \* the local variable
  p,               \* the loop index
  quota            \* what this call's scheduler refills with

vars == <<pc, ticks, p_ready, greatest_ticks, p, quota>>

TypeOK ==
  /\ pc \in {"idle", "scan", "refill"}
  /\ ticks \in [Procs -> Int]
  /\ p_ready \in Procs
  /\ greatest_ticks \in Nat
  /\ p \in 0 .. N
  /\ quota \in Quotas

Init ==
  /\ pc = "idle"
  /\ ticks = Priority
  /\ p_ready = 0
  /\ greatest_ticks = 0
  /\ p = 0
  /\ quota = sched0Quota

-----------------------------------------------------------------------------
\* clock_handler up to its returns: the tick is charged.  With k_reenter # 0
\* it returns whatever is left, so a process can go below zero.
Tick ==
  /\ pc = "idle"
  /\ ticks' = [ticks EXCEPT ![p_ready] = SpendTick(@)]
  /\ UNCHANGED <<pc, p_ready, greatest_ticks, p, quota>>

\* Mutant: the call made while the process has ticks left.
Call_TooEarly ==
  /\ pc = "idle"
  /\ pc' = "scan"
  /\ \E q \in Quotas : quota' = q
  /\ greatest_ticks' = 0
  /\ p' = 0
  /\ UNCHANGED <<ticks, p_ready>>

\* clock_handler calls schedule(): either function may be behind the pointer.
Call ==
  /\ pc = "idle"
  /\ ticks[p_ready] <= 0
  /\ pc' = "scan"
  /\ \E q \in Quotas : quota' = q
  /\ greatest_ticks' = 0
  /\ p' = 0
  /\ UNCHANGED <<ticks, p_ready>>

\* Mutant: >= in the comparison.
Scan_TiesToTheLast ==
  /\ pc = "scan"
  /\ p < N
  /\ p' = p + 1
  /\ IF ticks[p] >= greatest_ticks /\ ticks[p] > 0
       THEN greatest_ticks' = ticks[p] /\ p_ready' = p
       ELSE UNCHANGED <<greatest_ticks, p_ready>>
  /\ UNCHANGED <<pc, ticks, quota>>

\* The body of the first for.
Scan ==
  /\ pc = "scan"
  /\ p < N
  /\ p' = p + 1
  /\ IF ticks[p] > greatest_ticks
       THEN greatest_ticks' = ticks[p] /\ p_ready' = p
       ELSE UNCHANGED <<greatest_ticks, p_ready>>
  /\ UNCHANGED <<pc, ticks, quota>>

\* The first for ends; while (0 == greatest_ticks) decides what follows.
ScanEnd ==
  /\ pc = "scan"
  /\ p = N
  /\ pc' = IF greatest_ticks = 0 THEN "refill" ELSE "idle"
  /\ p' = 0
  /\ UNCHANGED <<ticks, p_ready, greatest_ticks, quota>>

\* Mutants: a process in debt is passed over by the refill, and the refill
\* adds nothing.
Refill_OnlyAtZero ==
  /\ pc = "refill"
  /\ p < N
  /\ ticks' = IF ticks[p] = 0 THEN [ticks EXCEPT ![p] = quota[p]] ELSE ticks
  /\ p' = p + 1
  /\ UNCHANGED <<pc, p_ready, greatest_ticks, quota>>

Refill_Nothing ==
  /\ pc = "refill"
  /\ p < N
  /\ p' = p + 1
  /\ UNCHANGED <<pc, ticks, p_ready, greatest_ticks, quota>>

\* The body of the second for.
Refill ==
  /\ pc = "refill"
  /\ p < N
  /\ ticks' = [ticks EXCEPT ![p] = quota[p]]
  /\ p' = p + 1
  /\ UNCHANGED <<pc, p_ready, greatest_ticks, quota>>

\* The second for ends and the while goes round again.
RefillEnd ==
  /\ pc = "refill"
  /\ p = N
  /\ pc' = "scan"
  /\ p' = 0
  /\ UNCHANGED <<ticks, p_ready, greatest_ticks, quota>>

Loop == Scan \/ ScanEnd \/ Refill \/ RefillEnd

Next == Tick \/ Call \/ Loop

\* The clock ticks for ever, a tick of an exhausted process finds the kernel
\* in user mode in the end, and the CPU executes the loop.
Fairness ==
  /\ WF_vars(Tick)
  /\ WF_vars(Call)
  /\ WF_vars(Loop)

Spec == Init /\ [][Next]_vars

FairSpec == Spec /\ Fairness

-----------------------------------------------------------------------------
\* The loop invariants of the two fors of sched0: the scan so far has found
\* the first of the greatest positive tick counts, and the refill so far has
\* renewed every process behind the index.
LoopInv ==
  /\ pc = "scan" =>
       /\ \A q \in Procs : q < p => ticks[q] <= greatest_ticks
       /\ greatest_ticks > 0 =>
            /\ p_ready < p
            /\ ticks[p_ready] = greatest_ticks
            /\ \A q \in Procs : q < p_ready => ticks[q] < greatest_ticks
  /\ pc = "refill" =>
       /\ \A q \in Procs : q < p => ticks[q] = quota[q]
       /\ greatest_ticks = 0

\* The call seen as one step taken on entry: what its loops still have to
\* write is a function of the state.
AbsTicks ==
  CASE pc = "idle"   -> ticks
    [] pc = "scan"   -> Filled(ticks, quota)
    [] pc = "refill" -> quota

AbsReady == IF pc = "idle" THEN p_ready ELSE Best(AbsTicks)

Abs == INSTANCE Scheduling WITH ticks <- AbsTicks, p_ready <- AbsReady

\* sched0 and xsched01, loop by loop, do what Scheduling promises: the
\* candidates that the scan stores to *p_ready on its way, and the half-done
\* refill, never show as a choice of the scheduler.
ImplementsScheduling == Abs!Spec

\* schedule() returns: clock_handler runs with the clock masked, so a loop
\* that never ends (no positive refill) would stop the machine.
CallReturns == pc # "idle" ~> pc = "idle"

\* Every process gets the CPU again and again, whichever of the two
\* schedulers each call runs.
NoStarvation == \A q \in Procs : []<>(pc = "idle" /\ p_ready = q)
=============================================================================
