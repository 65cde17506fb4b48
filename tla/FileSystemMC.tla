---------------------------- MODULE FileSystemMC ----------------------------
(* FileSystem for model checking: names can be exchanged.                  *)
EXTENDS FileSystem

NameSymmetry == Permutations(Names)
=============================================================================
