---------------------------- MODULE DiskDaemonMC ----------------------------
(* DiskDaemon for model checking: a block has two bytes, one of them with   *)
(* its sign set.                                                            *)
EXTENDS DiskDaemon

MCContents == {<<-1, 10>>, <<90, -128>>}
MCDamage   == {48, 70, 13}
=============================================================================
