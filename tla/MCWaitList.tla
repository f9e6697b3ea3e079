---------------------------- MODULE MCWaitList ----------------------------
(* A wait list used as a semaphore (sema) and one used with broadcasts (bcast).*)
EXTENDS WaitList, TLC

CONSTANTS sema, bcast, ta, tb

Tasklets == Permutations(Tasklet)
=============================================================================
