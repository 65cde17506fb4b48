--------------------------- MODULE TrapContextMC ----------------------------
(* Instances of TrapContext for TLC, one cfg per stage and question.       *)
EXTENDS TrapContext
=============================================================================
