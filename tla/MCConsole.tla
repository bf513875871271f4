----------------------------- MODULE MCConsole ------------------------------
EXTENDS Console

\* TestB and TestC of kenos: nr_tty = 1.
OnConsole1 == [p \in Programs |-> 1]

\* TestA: nr_tty = 0, the console that is selected first.
OnConsole0 == [p \in Programs |-> 0]

\* As the CPU is shared.
FairApartSpec == ApartSpec /\ Fairness
=============================================================================
