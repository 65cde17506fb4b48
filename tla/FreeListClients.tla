-------------------------- MODULE FreeListClients ---------------------------
(***************************************************************************)
(* Processes that take blocks from the free list of FreeList and give them *)
(* back in any order, as the shell's test command does, which never writes *)
(* to a block it has, on a machine that may stop and start again at any    *)
(* moment.  The calls of fileCreate() and fileDelete() are in FileSystem.  *)
(***************************************************************************)
EXTENDS FreeList

CONSTANTS MaxHeld,      \* bound: blocks out of the list at one time
          MaxStops      \* bound: restarts

ASSUME ClientAssumption == MaxHeld \in Nat /\ MaxStops \in Nat

VARIABLES held,         \* the blocks the clients have
          stops

cvars == <<flvars, held, stops>>

Busy(p) == call[p].pc # "idle"
Calls   == {p \in Procs : Busy(p)}

CInit == Init /\ held = {} /\ stops = 0

Get(p) == /\ Cardinality(held) + Cardinality(Calls) < MaxHeld
          /\ GetCall(p)
          /\ UNCHANGED <<held, stops>>

Free(p) == /\ \E b \in held : FreeCall(p, b) /\ held' = held \ {b}
           /\ UNCHANGED stops

\* The call returns.  A block that sbFreeBlock() refused stays with its owner.
Return(p) ==
    LET b == call[p].arg IN
    /\ call[p].pc = "done"
    /\ call' = [call EXCEPT ![p] = Idle]
    /\ held' = held \cup ({b} \cap Blocks)
    /\ UNCHANGED <<memvars, freelock, diskvars, stops>>

Work(p) == Step(p) /\ UNCHANGED <<held, stops>>

\* The machine stops and starts.  What the disk does not list is in use.  What
\* a stop inside HalfWritten leaves is not followed.
CRestart == /\ stops < MaxStops /\ ~ HalfWritten
            /\ stops' = stops + 1
            /\ sbOpen
            /\ held' = Blocks \ Range(DiskList)

CNext == CRestart \/ \E p \in Procs : Get(p) \/ Free(p) \/ Return(p) \/ Work(p)

CSpec == CInit /\ [][CNext]_cvars

\* The disk answers, a process that may run runs, and the semaphore serves its
\* waiters in the order they came.
CFairness == \A p \in Procs :
    /\ WF_cvars((seek(p) \/ write(p)) /\ UNCHANGED <<held, stops>>)
    /\ WF_cvars(Return(p))
    /\ SF_cvars(Acquire(p) /\ UNCHANGED <<held, stops>>)
CFairSpec == CSpec /\ CFairness

-----------------------------------------------------------------------------
InHand(p) == {call[p].arg} \cap Blocks

\* Every variable has its type: links stay within the nodes, the locks and the
\* disk position within their values.
TypeOK ==
    /\ freelst \in {NULL} \cup Nodes /\ heap \subseteq Nodes /\ swz \subseteq Nodes \cup {SUPER}
    /\ \A n \in heap : node[n].blocknum \in Blocks /\ Len(node[n].free) <= FREEBLOCKMAX
    /\ freelock \in {0, 1} /\ pos \in 0 .. DISKBLOCKTOTAL - 1
    /\ dsuper \in {NULL} \cup Blocks /\ held \subseteq Blocks
    /\ \A p \in Procs : call[p].pc \in {"idle", "wait", "seek", "write", "done", "wild"}

\* Whoever works on the list works on collectors that are in it: the pointer it
\* read is neither freed nor a block number that was about to be written.
NoStray == \A p \in Procs : call[p].pc # "wild"

\* The machine can stop at any moment outside HalfWritten: the list on disk can
\* be read and names no block that someone uses.
CrashSafe ==
    HalfWritten \/ (DiskSound /\ IsInjective(DiskList) /\ Range(DiskList) \cap held = {})

\* With the lock free the disk has, collector by collector, what memory has.
DiskMatches ==
    freelock = 1 =>
      /\ DiskChain = [i \in DOMAIN Collectors |-> node[Collectors[i]].blocknum]
      /\ \A i \in DOMAIN Collectors : dfbc[DiskChain[i]].free = node[Collectors[i]].free

\* Every call of sbGetBlock() and sbFreeBlock() returns.
CallsReturn == \A p \in Procs : Busy(p) ~> ~ Busy(p)

\* The free list is a pool: a block is refused only when none is available, and
\* a restart keeps what was free free and what was used used.
Pool == INSTANCE AbsPool WITH
    avail <- Range(MemList) \ UNION {InHand(p) : p \in {q \in Procs : Linking(q)}},
    used  <- held,
    hand  <- [p \in Procs |-> call[p].arg],
    Empty <- 0, Refused <- SYSERR
PoolSpec == Pool!PoolSpec
=============================================================================
