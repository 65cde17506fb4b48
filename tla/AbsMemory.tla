------------------------------ MODULE AbsMemory -----------------------------
(***************************************************************************)
(* What dynamic memory promises its owners: a block is a set of cells that *)
(* is as large as was asked for, belongs to nobody else, and stays as it   *)
(* is until its owner gives it back or goes away with all its blocks.      *)
(***************************************************************************)
EXTENDS Integers, FiniteSets, Functions

CONSTANT Owners

VARIABLE owned          \* for an owner and an address: what was asked for, and the cells

CellsIn == UNION {owned[k].cells : k \in DOMAIN owned}

MemoryInit == owned = <<>>

\* The block at address a of owner o: new, of cells that nobody has.
Allocate(o) ==
    \E k \in DOMAIN owned' \ DOMAIN owned :
        /\ k[1] = o
        /\ owned' = [j \in DOMAIN owned \cup {k} |-> IF j = k THEN owned'[k] ELSE owned[j]]
        /\ Cardinality(owned'[k].cells) >= owned'[k].asked
        /\ owned'[k].cells \cap CellsIn = {}

Release(o) ==
    \E k \in DOMAIN owned : k[1] = o /\ owned' = Restrict(owned, DOMAIN owned \ {k})

\* The owner is gone.
Reap(o) == owned' = Restrict(owned, {k \in DOMAIN owned : k[1] # o})

MemoryNext == \E o \in Owners : Allocate(o) \/ Release(o) \/ Reap(o)

MemorySpec == MemoryInit /\ [][MemoryNext]_owned
=============================================================================
