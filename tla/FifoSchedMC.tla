---------------------------- MODULE FifoSchedMC -----------------------------
(* Instances of FifoSched for TLC; the constants are in the cfg files.     *)
EXTENDS FifoSched
=============================================================================
