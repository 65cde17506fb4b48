----------------------------- MODULE FreeListMC -----------------------------
(* Instances of FreeListClients for TLC; the constants are in the cfgs.    *)
EXTENDS FreeListClients
=============================================================================
