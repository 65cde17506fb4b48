---------------------------- MODULE LotterySchedMC --------------------------
(* Instances of LotterySched for TLC; the constants are in the cfg files.  *)
EXTENDS LotterySched
=============================================================================
