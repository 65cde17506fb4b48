----------------------------- MODULE ReadyQueue -----------------------------
(***************************************************************************)
(* The process queue table of the kernel (system/queue.c, include/queue.h) *)
(* restricted to the one queue the kernel creates, readylist.  Queues are  *)
(* intrusive: entry p of queuetab belongs to process p, and one pair of    *)
(* entries, HEAD and TAIL, belongs to the list itself.  A process          *)
(* therefore has one pair of links, whatever the number of times it was    *)
(* inserted, and every operation below is the same list of array writes    *)
(* as the C code, in the same order.                                       *)
(*                                                                         *)
(* The operators are pure: they take the table (qt) and the process states *)
(* (st) and return the new table.                                          *)
(***************************************************************************)
EXTENDS ProcTable, Sequences, FiniteSets

\* newqueue() numbers the queue entries from NPROC, so readylist, the first
\* and only queue, has these two.
HEAD    == NPROC
TAIL    == NPROC + 1
Entries == Pids \cup {HEAD, TAIL}
Links   == Entries \cup {EMPTY}
Table   == [Entries -> [next : Links, prev : Links]]

\* The zeroed table of the C runtime, with the links newqueue() sets.
newqueue == [e \in Entries |->
               CASE e = HEAD -> [next |-> TAIL, prev |-> EMPTY]
                 [] e = TAIL -> [next |-> EMPTY, prev |-> HEAD]
                 [] OTHER    -> [next |-> 0, prev |-> 0]]

firstid(qt)  == qt[HEAD].next
nonempty(qt) == firstid(qt) < NPROC

-----------------------------------------------------------------------------
(* Faulty variants of the operations, for the sensitivity checks.          *)

\* enqueue that forgets to move the tail's back link.
enqueue_StaleTail(qt, st, pid) ==
    IF isbadpid(pid, st) THEN qt
    ELSE [qt EXCEPT ![pid] = [next |-> TAIL, prev |-> qt[TAIL].prev],
                    ![qt[TAIL].prev].next = pid]

\* enqueue at the head of the list.
enqueue_AtHead(qt, st, pid) ==
    IF isbadpid(pid, st) THEN qt
    ELSE [qt EXCEPT ![pid] = [next |-> qt[HEAD].next, prev |-> HEAD],
                    ![qt[HEAD].next].prev = pid,
                    ![HEAD].next = pid]

\* remove that repairs only the forward link.
remove_OneWay(qt, st, pid) ==
    IF isbadpid(pid, st) THEN qt
    ELSE [qt EXCEPT ![qt[pid].prev].next = qt[pid].next]

\* remove that writes the wrong link of the two.
remove_WrongLink(qt, st, pid) ==
    IF isbadpid(pid, st) THEN qt
    ELSE [qt EXCEPT ![qt[pid].prev].next = qt[pid].prev,
                    ![qt[pid].next].prev = qt[pid].next]

-----------------------------------------------------------------------------
(* The operations.                                                         *)

\* enqueue(pid, readylist).  The updates of EXCEPT happen in this order, which
\* matters when pid is already the last process of the list.
enqueue(qt, st, pid) ==
    IF isbadpid(pid, st) THEN qt
    ELSE [qt EXCEPT ![pid] = [next |-> TAIL, prev |-> qt[TAIL].prev],
                    ![qt[TAIL].prev].next = pid,
                    ![TAIL].prev = pid]

\* remove(pid): unlink from the neighbours, leaving pid's own links as they are.
remove(qt, st, pid) ==
    IF isbadpid(pid, st) THEN qt
    ELSE [qt EXCEPT ![qt[pid].prev].next = qt[pid].next,
                    ![qt[pid].next].prev = qt[pid].prev]

\* dequeue(readylist): what it returns, and the table it leaves.
dequeued(qt) == IF nonempty(qt) THEN firstid(qt) ELSE EMPTY

dequeue(qt, st) ==
    IF nonempty(qt)
    THEN [remove(qt, st, firstid(qt)) EXCEPT
             ![firstid(qt)] = [next |-> firstid(qt), prev |-> firstid(qt)]]
    ELSE qt

-----------------------------------------------------------------------------
(* Reading the list.                                                       *)

\* The first n + 1 entries met from HEAD along the next links, stopping at TAIL.
Hops(qt) ==
    LET hop[n \in 0 .. NPROC + 1] ==
            IF n = 0 THEN HEAD
            ELSE IF hop[n - 1] \in Pids \cup {HEAD} THEN qt[hop[n - 1]].next
            ELSE hop[n - 1]
    IN  hop

\* The processes of the list.
Listed(qt) == {Hops(qt)[n] : n \in 1 .. NPROC} \cap Pids

\* First to last: as many steps from HEAD as there are processes.
ReadySeq(qt) == [n \in 1 .. Cardinality(Listed(qt)) |-> Hops(qt)[n]]

\* Following next from HEAD reaches TAIL; a list that met a process twice would
\* never leave the cycle.
WellFormed(qt) == Hops(qt)[NPROC + 1] = TAIL

\* The links and the set of members agree, in both directions: next is a
\* bijection from members and HEAD to members and TAIL whose inverse is prev.
Linked(qt, members) ==
    /\ \A e \in members \cup {HEAD} :
          qt[e].next \in members \cup {TAIL} /\ qt[qt[e].next].prev = e
    /\ \A e \in members \cup {TAIL} :
          qt[e].prev \in members \cup {HEAD} /\ qt[qt[e].prev].next = e
=============================================================================
