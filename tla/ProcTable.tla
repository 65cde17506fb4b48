------------------------------ MODULE ProcTable -----------------------------
(***************************************************************************)
(* The process table proctab as the kernel's process manager sees it       *)
(* (include/proc.h): slots, their states, and the search for a free slot.  *)
(***************************************************************************)
EXTENDS Integers

CONSTANT NPROC          \* number of slots of the process table

ASSUME NPROCAssumption == NPROC \in Nat \ {0}

PRFREE  == 0
PRCURR  == 1
PRSUSP  == 2
PRREADY == 3
States  == {PRFREE, PRCURR, PRSUSP, PRREADY}

SYSERR   == -1
EMPTY    == -2
NULLPROC == 0
Pids     == 0 .. NPROC - 1

isbadpid(pid, st) == pid \notin Pids \/ st[pid] = PRFREE

\* newpid() that takes the next slot without looking at its state (faulty).
newpid_Unchecked(p, st, nextpid) == p = (nextpid + 1) % NPROC

\* newpid() returns p: the first free slot after nextpid, in rotation.  When no
\* slot is free it returns SYSERR, with nextpid back where it was.
newpid(p, st, nextpid) ==
    \E k \in 1 .. NPROC :
        /\ p = (nextpid + k) % NPROC
        /\ st[p] = PRFREE
        /\ \A j \in 1 .. k - 1 : st[(nextpid + j) % NPROC] # PRFREE
=============================================================================
