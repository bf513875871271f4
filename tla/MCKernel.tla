------------------------------ MODULE MCKernel ------------------------------
EXTENDS Kernel, TLC

\* TTY the favourite and TestA with the least, as in kenos_main; a fifth of
\* TestA's ticks is still one.
MCPriority2 == 0 :> 10 @@ 1 :> 5
MCPriority3 == 0 :> 10 @@ 1 :> 5 @@ 2 :> 5
MCFloor == 0
=============================================================================
