----------------------------- MODULE UserHeapMC -----------------------------
(* Instances of UserHeap for TLC; the constants are in the cfgs.           *)
EXTENDS UserHeap

\* The slots of the process table are only names for address spaces.
Slots == Permutations(Pids)
=============================================================================
