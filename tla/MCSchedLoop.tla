---------------------------- MODULE MCSchedLoop -----------------------------
EXTENDS SchedLoop, TLC

\* The table of kenos_main (315, 5, 105, 105) scaled down: the same order,
\* the same tie, and a fifth of each still positive.
MCPriority == 0 :> 15 @@ 1 :> 5 @@ 2 :> 10 @@ 3 :> 10

\* One tick of debt: enough to tell an overdrawn process from a spent one.
MCFloor == -1
=============================================================================
