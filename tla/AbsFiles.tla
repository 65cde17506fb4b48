------------------------------ MODULE AbsFiles ------------------------------
(***************************************************************************)
(* What the stage 9 file system promises of its disk: a file is on it      *)
(* whole, with the bytes that were written to it and no others, or not at  *)
(* all, and a file appears or vanishes on its own.  A file that is deleted *)
(* is going: sooner or later it is gone, and a machine that stops before   *)
(* that has it again.                                                      *)
(***************************************************************************)
EXTENDS Naturals, Sequences

CONSTANTS Names, DISKBLOCKLEN, Absent

VARIABLES store,        \* the files a restart would find
          going         \* those of them that are deleted

\* A byte is known by the file it was written to.
Own(n) == UNION {[1 .. k -> {n}] : k \in 0 .. DISKBLOCKLEN}

FilesInit == store = [n \in Names |-> Absent] /\ going = {}

Delete(n) == /\ store[n] # Absent
             /\ going' = going \cup {n} /\ UNCHANGED store

\* One file that is going is gone.
Remove(n) == /\ n \in going
             /\ store' = [store EXCEPT ![n] = Absent] /\ going' = going \ {n}

\* All that are going are gone, and perhaps one is new.
Left    == [n \in Names |-> IF n \in going THEN Absent ELSE store[n]]
Sweep   == store' = Left /\ going' = {}
Save(n) == /\ Left[n] = Absent
           /\ \E content \in Own(n) : store' = [Left EXCEPT ![n] = content]
           /\ going' = {}

\* The machine starts again.
Start == going' = {} /\ UNCHANGED store

FilesNext == \/ Sweep \/ Start
             \/ \E n \in Names : Delete(n) \/ Remove(n) \/ Save(n)
FilesSpec == FilesInit /\ [][FilesNext]_<<store, going>>
=============================================================================
