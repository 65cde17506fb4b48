------------------------------ MODULE FreeList ------------------------------
(***************************************************************************)
(* The list of free disk blocks of the stage 9 file system, in memory and  *)
(* on disk (src/xinu-hw9/file/sbInit.c, sbOpen.c, sbGetBlock.c,            *)
(* sbFreeBlock.c).  The list is a chain of collector nodes, each a disk    *)
(* block itself that names up to FREEBLOCKMAX more.  Before a node or the  *)
(* superblock is written its pointers are replaced by block numbers        *)
(* ("swizzled") and put back afterwards.                                   *)
(*                                                                         *)
(* Processes interleave at every point where a call can block: the         *)
(* semaphore, the seek and the write.  The semaphore, malloc() and the     *)
(* disk driver are only in a binary archive and are modelled from their    *)
(* use.  Whoever follows a pointer that is not one stops in "wild".        *)
(***************************************************************************)
EXTENDS Integers, FiniteSets, SequencesExt

CONSTANTS Procs,
          DISKBLOCKTOTAL,       \* blocks of the disk: superblock, directory, the rest
          FREEBLOCKMAX,         \* blocks a collector node names at most
          NNODES,               \* collector nodes malloc() has room for
          MayFail,              \* whether a write can return SYSERR
          DirtyMalloc           \* whether malloc() returns used memory as it is

ASSUME LayoutAssumption ==
    /\ DISKBLOCKTOTAL \in Nat /\ DISKBLOCKTOTAL > 3
    /\ FREEBLOCKMAX \in Nat \ {0}
    /\ (DISKBLOCKTOTAL - 2) % (FREEBLOCKMAX + 1) # 0    \* 256 and 61 in the source
    /\ NNODES \in Nat /\ NNODES >= (DISKBLOCKTOTAL - 2) \div (FREEBLOCKMAX + 1) + 1
    /\ MayFail \in BOOLEAN /\ DirtyMalloc \in BOOLEAN

VARIABLES freelst,      \* sb_freelst
          node,         \* the collector nodes in memory
          heap,         \* those malloc() has handed out
          swz,          \* the structures that hold block numbers instead of pointers
          freelock,     \* sb_freelock
          pos,          \* the position of the disk
          dsuper,       \* sb_freelst in the superblock on disk
          dfbc,         \* the other blocks on disk
          call          \* how far every process is in sbGetBlock() or sbFreeBlock()

memvars  == <<freelst, node, heap, swz>>
diskvars == <<pos, dsuper, dfbc>>
flvars   == <<freelst, node, heap, swz, freelock, pos, dsuper, dfbc, call>>

NULL   == 0
SYSERR == -1
Wild   == -1                    \* a word that is not a pointer
SUPERBLOCKNUM == 0
Nodes  == 1 .. NNODES
SUPER  == NNODES + 1            \* the superblock, as something to write
Blocks == (SUPERBLOCKNUM + 2) .. (DISKBLOCKTOTAL - 1)

NoNode == [blocknum |-> 0, free |-> <<>>, next |-> Wild]
NoFbc  == [free |-> <<>>, next |-> Wild]        \* a block that is not a collector
Idle   == [op |-> "none", pc |-> "idle", fbc |-> NULL, arg |-> 0,
           todo |-> <<>>, drop |-> NULL]

-----------------------------------------------------------------------------
(* Chains of collectors, in memory and on disk.                            *)

\* The entries met from start on along next, one for each entry there is.
Chain(start, next) ==
    LET limit == Cardinality(DOMAIN next)
        at[k \in 0 .. limit] == IF k = 0 THEN start
                                ELSE LET prev == at[k - 1]
                                     IN IF prev \in DOMAIN next THEN next[prev] ELSE prev
    IN [i \in 1 .. Cardinality({k \in 0 .. limit - 1 : at[k] \in DOMAIN next}) |-> at[i - 1]]

\* A chain that ends where it says and nowhere else.
Sound(start, next) ==
    LET c == Chain(start, next)
    IN IsInjective(c) /\ NULL = IF c = <<>> THEN start ELSE next[Last(c)]

MemNext    == [n \in heap |-> node[n].next]
Collectors == Chain(freelst, MemNext)
MemList    == FlattenSeq([i \in DOMAIN Collectors |->
                  <<node[Collectors[i]].blocknum>> \o node[Collectors[i]].free])

DiskNext   == [b \in {x \in DOMAIN dfbc : dfbc[x] # NoFbc} |-> dfbc[b].next]
DiskChain  == Chain(dsuper, DiskNext)
DiskList   == FlattenSeq([i \in DOMAIN DiskChain |-> <<DiskChain[i]>> \o dfbc[DiskChain[i]].free])
DiskSound  == Sound(dsuper, DiskNext)

-----------------------------------------------------------------------------
(* A disk that was never used: sbInit() cuts it into collectors followed   *)
(* by the blocks they name.                                                *)

FirstFbc == {b \in Blocks : (b - 2) % (FREEBLOCKMAX + 1) = 0}
InitFbc(b) ==
    LET last == b + FREEBLOCKMAX
    IN [free |-> [i \in 1 .. IF last < DISKBLOCKTOTAL THEN FREEBLOCKMAX
                             ELSE DISKBLOCKTOTAL - 1 - b |-> b + i],
        next |-> IF last + 1 < DISKBLOCKTOTAL THEN last + 1 ELSE NULL]

sbInit ==
    /\ dsuper = SUPERBLOCKNUM + 2
    /\ dfbc = [b \in 1 .. DISKBLOCKTOTAL - 1 |-> IF b \in FirstFbc THEN InitFbc(b) ELSE NoFbc]

\* sbOpenFreeList(): the collectors on disk in newly allocated nodes.
Opened(n) == LET b == DiskChain[n]
             IN [blocknum |-> b, free |-> dfbc[b].free,
                 next |-> IF n < Len(DiskChain) THEN n + 1 ELSE NULL]

Init == /\ sbInit
        /\ heap = 1 .. Len(DiskChain)
        /\ freelst = 1
        /\ node = [n \in Nodes |-> IF n \in heap THEN Opened(n) ELSE NoNode]
        /\ swz = {} /\ freelock = 1 /\ pos = SUPERBLOCKNUM + 1
        /\ call = [p \in Procs |-> Idle]

\* A restart with a disk whose list can be read.
sbOpen ==
    /\ DiskSound /\ Len(DiskChain) <= NNODES
    /\ heap' = 1 .. Len(DiskChain)
    /\ freelst' = IF DiskChain = <<>> THEN NULL ELSE 1
    /\ node' = [n \in Nodes |-> IF n \in heap' THEN Opened(n) ELSE NoNode]
    /\ swz' = {} /\ freelock' = 1 /\ pos' = SUPERBLOCKNUM + 1
    /\ call' = [p \in Procs |-> Idle]
    /\ UNCHANGED <<dsuper, dfbc>>

-----------------------------------------------------------------------------
(* What a process reads when it follows a pointer.                         *)

ReadHead == IF SUPER \in swz /\ freelst # NULL THEN Wild ELSE freelst
ReadNext(n) == IF node[n].next = NULL THEN NULL
               ELSE IF n \in swz \/ node[n].next \notin heap THEN Wild
               ELSE node[n].next
Usable(n) == n \in heap /\ ReadNext(n) # Wild

\* Faulty: does not wait for the lock.
Locked_NoWait(p, rec, todo) ==
    /\ freelock' = 0
    /\ call' = [call EXCEPT ![p] = [rec EXCEPT !.pc = "seek", !.todo = todo]]
    /\ swz' = swz \cup {Head(todo)}

\* The lock is taken, the structures of todo are to be written one by one.
Locked(p, rec, todo) ==
    /\ freelock = 1 /\ freelock' = 0
    /\ call' = [call EXCEPT ![p] = [rec EXCEPT !.pc = "seek", !.todo = todo]]
    /\ swz' = swz \cup {Head(todo)}

Stray(p) == /\ freelock = 1 /\ freelock' = 0
            /\ call' = [call EXCEPT ![p].pc = "wild"]
            /\ UNCHANGED <<freelst, node, heap, swz>>

Target(t) == IF t = SUPER THEN SUPERBLOCKNUM ELSE node[t].blocknum

seek(p) ==
    /\ call[p].pc = "seek"
    /\ pos' = Target(Head(call[p].todo))
    /\ call' = [call EXCEPT ![p].pc = "write"]
    /\ UNCHANGED <<freelst, node, heap, swz, freelock, dsuper, dfbc>>

BlockOf(n) == IF n \in heap THEN node[n].blocknum ELSE NULL
Image(t)   == IF t = SUPER THEN NoFbc
              ELSE [free |-> node[t].free, next |-> BlockOf(node[t].next)]

\* Faulty: returns without signal().
write_KeepsLock(p) ==
    LET t == Head(call[p].todo) IN
    /\ call[p].pc = "write" /\ Tail(call[p].todo) = <<>>
    /\ dfbc' = [dfbc EXCEPT ![pos] = Image(t)]
    /\ call' = [call EXCEPT ![p] = [Idle EXCEPT !.op = call[p].op, !.pc = "done"]]
    /\ swz' = swz \ {t}
    /\ UNCHANGED <<freelst, node, heap, freelock, pos, dsuper>>

\* The structure goes to wherever the disk is, and gets its pointers back.
write(p) ==
    LET t == Head(call[p].todo) rest == Tail(call[p].todo) IN
    /\ call[p].pc = "write"
    /\ IF pos = SUPERBLOCKNUM
       THEN dsuper' = (IF t = SUPER THEN BlockOf(freelst) ELSE Wild) /\ UNCHANGED dfbc
       ELSE dfbc' = [dfbc EXCEPT ![pos] = Image(t)] /\ UNCHANGED dsuper
    /\ IF rest # <<>>
       THEN /\ call' = [call EXCEPT ![p].todo = rest,
                             ![p].pc = IF Usable(Head(rest)) THEN "seek" ELSE "wild"]
            /\ swz' = (swz \ {t}) \cup {Head(rest)}
            /\ UNCHANGED <<node, heap, freelock>>
       ELSE /\ call' = [call EXCEPT ![p] = [Idle EXCEPT !.op = call[p].op, !.pc = "done",
                            !.arg = IF call[p].op = "get" THEN call[p].arg ELSE 0]]
            /\ swz' = swz \ {t}
            /\ heap' = heap \ {call[p].drop}
            /\ node' = [n \in Nodes |-> IF n = call[p].drop THEN NoNode ELSE node[n]]
            /\ freelock' = 1
    /\ UNCHANGED <<freelst, pos>>

\* The driver refuses: pointers stay swizzled, and sbGetBlock() keeps the lock.
writeFails(p) ==
    /\ MayFail /\ call[p].pc = "write"
    /\ freelock' = IF call[p].op = "get" THEN freelock ELSE 1
    /\ call' = [call EXCEPT ![p] = [Idle EXCEPT !.op = call[p].op, !.pc = "done", !.arg = SYSERR]]
    /\ UNCHANGED <<freelst, node, heap, swz, diskvars>>

-----------------------------------------------------------------------------
(* sbGetBlock()                                                            *)

\* Lines 28 to 36: the head is read before the lock is taken.
GetCall(p) ==
    /\ call[p].pc = "idle"
    /\ call' = [call EXCEPT ![p] = IF ReadHead = NULL
                    THEN [Idle EXCEPT !.op = "get", !.pc = "done", !.arg = SYSERR]
                    ELSE [Idle EXCEPT !.op = "get", !.pc = "wait", !.fbc = ReadHead]]
    /\ UNCHANGED <<memvars, freelock, diskvars>>

Getting(p) == call[p].pc = "wait" /\ call[p].op = "get"

\* Faulty: the collector is not written.
GetPop_NoWrite(p) ==
    LET f == call[p].fbc IN
    /\ Getting(p) /\ Usable(f) /\ node[f].free # <<>> /\ freelock = 1
    /\ call' = [call EXCEPT ![p].pc = "done", ![p].arg = Last(node[f].free)]
    /\ node' = [node EXCEPT ![f].free = Front(@)]
    /\ UNCHANGED <<freelst, heap, swz, freelock, diskvars>>

\* Lines 38 to 62: the last block the collector names.
GetPop(p) ==
    LET f == call[p].fbc IN
    /\ Getting(p) /\ Usable(f) /\ node[f].free # <<>>
    /\ Locked(p, [call[p] EXCEPT !.arg = Last(node[f].free)], <<f>>)
    /\ node' = [node EXCEPT ![f].free = Front(@)]
    /\ UNCHANGED <<freelst, heap, diskvars>>

\* Faulty: with only the collector left there is nothing to give out.
GetLast_Refuses(p) ==
    LET f == call[p].fbc IN
    /\ Getting(p) /\ Usable(f) /\ node[f].free = <<>> /\ node[f].next = NULL
    /\ freelock = 1
    /\ call' = [call EXCEPT ![p].pc = "done", ![p].arg = SYSERR]
    /\ UNCHANGED <<memvars, freelock, diskvars>>

\* Lines 68 to 84: the block of the only collector; the list is then empty.
GetLast(p) ==
    LET f == call[p].fbc IN
    /\ Getting(p) /\ Usable(f) /\ node[f].free = <<>> /\ node[f].next = NULL
    /\ Locked(p, [call[p] EXCEPT !.arg = node[f].blocknum, !.drop = f], <<SUPER>>)
    /\ freelst' = NULL
    /\ UNCHANGED <<node, heap, diskvars>>

\* Faulty: fbc_next is not taken over from the node that goes.
GetMerge_KeepsLink(p) ==
    LET f == call[p].fbc  g == node[f].next IN
    /\ Getting(p) /\ Usable(f) /\ node[f].free = <<>> /\ node[f].next # NULL /\ Usable(g)
    /\ Locked(p, [call[p] EXCEPT !.arg = node[g].blocknum], <<f>>)
    /\ node' = [node EXCEPT ![f].free = node[g].free, ![g] = NoNode]
    /\ heap' = heap \ {g}
    /\ UNCHANGED <<freelst, diskvars>>

\* Lines 87 to 113: the block of the second collector, whose names move up.
GetMerge(p) ==
    LET f == call[p].fbc  g == node[f].next IN
    /\ Getting(p) /\ Usable(f) /\ node[f].free = <<>> /\ node[f].next # NULL /\ Usable(g)
    /\ Locked(p, [call[p] EXCEPT !.arg = node[g].blocknum], <<f>>)
    /\ node' = [node EXCEPT ![f].free = node[g].free, ![f].next = node[g].next, ![g] = NoNode]
    /\ heap' = heap \ {g}
    /\ UNCHANGED <<freelst, diskvars>>

GetStray(p) ==
    LET f == call[p].fbc IN
    /\ Getting(p)
    /\ Usable(f) => (node[f].free = <<>> /\ node[f].next # NULL /\ ~ Usable(node[f].next))
    /\ Stray(p) /\ UNCHANGED diskvars

-----------------------------------------------------------------------------
(* sbFreeBlock()                                                           *)

\* Lines 82 to 90.
FreeCall(p, block) ==
    /\ call[p].pc = "idle"
    /\ call' = [call EXCEPT ![p] = IF block <= 0 \/ block > DISKBLOCKTOTAL
                    THEN [Idle EXCEPT !.op = "free", !.pc = "done", !.arg = SYSERR]
                    ELSE [Idle EXCEPT !.op = "free", !.pc = "wait", !.arg = block]]
    /\ UNCHANGED <<memvars, freelock, diskvars>>

Freeing(p) == call[p].pc = "wait" /\ call[p].op = "free"
malloc == Min(Nodes \ heap)     \* the first that is free
Fresh(block, next) == [blocknum |-> block, free |-> <<>>, next |-> next]

\* Lines 96 to 116: the list is empty; fbc_next is what malloc() left there.
FreeFirst(p) ==
    /\ Freeing(p) /\ ReadHead = NULL /\ Nodes # heap
    /\ Locked(p, call[p], <<SUPER, malloc>>)
    /\ \E garbage \in {NULL} \cup (IF DirtyMalloc THEN {Wild} ELSE {}) :
           node' = [node EXCEPT ![malloc] = Fresh(call[p].arg, garbage)]
    /\ heap' = heap \cup {malloc}
    /\ freelst' = malloc
    /\ UNCHANGED diskvars

Tail_fbc   == Last(Collectors)
ListIntact == ReadHead \in heap /\ \A i \in DOMAIN Collectors : Usable(Collectors[i])
\* Faulty: > where the source has >=.
TailFull_OffByOne == Len(node[Tail_fbc].free) \in {0, FREEBLOCKMAX + 1}
TailFull   == Len(node[Tail_fbc].free) \in {0, FREEBLOCKMAX}

\* Faulty: the new collector is not linked.
FreeNew_NoLink(p) ==
    /\ Freeing(p) /\ ListIntact /\ TailFull /\ Nodes # heap
    /\ Locked(p, call[p], <<Tail_fbc, malloc>>)
    /\ node' = [node EXCEPT ![malloc] = Fresh(call[p].arg, NULL)]
    /\ heap' = heap \cup {malloc}
    /\ UNCHANGED <<freelst, diskvars>>

\* Faulty: the new collector is not written.
FreeNew_OnlyTail(p) ==
    /\ Freeing(p) /\ ListIntact /\ TailFull /\ Nodes # heap
    /\ Locked(p, call[p], <<Tail_fbc>>)
    /\ node' = [node EXCEPT ![malloc] = Fresh(call[p].arg, NULL), ![Tail_fbc].next = malloc]
    /\ heap' = heap \cup {malloc}
    /\ UNCHANGED <<freelst, diskvars>>

\* Lines 126 to 153: the block becomes a collector behind the last one.
FreeNew(p) ==
    /\ Freeing(p) /\ ListIntact /\ TailFull /\ Nodes # heap
    /\ Locked(p, call[p], <<Tail_fbc, malloc>>)
    /\ node' = [node EXCEPT ![malloc] = Fresh(call[p].arg, NULL), ![Tail_fbc].next = malloc]
    /\ heap' = heap \cup {malloc}
    /\ UNCHANGED <<freelst, diskvars>>

\* Lines 128 to 132: no memory for it.
FreeNoMemory(p) ==
    /\ Freeing(p) /\ ListIntact /\ TailFull /\ Nodes = heap
    /\ freelock = 1
    /\ call' = [call EXCEPT ![p].pc = "done"]
    /\ UNCHANGED <<memvars, freelock, diskvars>>

\* Faulty: writes the first collector instead of the changed one.
FreeAppend_WritesHead(p) ==
    /\ Freeing(p) /\ ListIntact /\ ~ TailFull
    /\ Locked(p, call[p], <<freelst>>)
    /\ node' = [node EXCEPT ![Tail_fbc].free = Append(@, call[p].arg)]
    /\ UNCHANGED <<freelst, heap, diskvars>>

\* Lines 158 to 168: the last collector has room for it.
FreeAppend(p) ==
    /\ Freeing(p) /\ ListIntact /\ ~ TailFull
    /\ Locked(p, call[p], <<Tail_fbc>>)
    /\ node' = [node EXCEPT ![Tail_fbc].free = Append(@, call[p].arg)]
    /\ UNCHANGED <<freelst, heap, diskvars>>

FreeStray(p) ==
    /\ Freeing(p) /\ IF ReadHead = NULL THEN Nodes = heap ELSE ~ ListIntact
    /\ Stray(p) /\ UNCHANGED diskvars

\* A call goes on: it gets the lock, or its next disk request is served.
Acquire(p) == \/ GetPop(p) \/ GetLast(p) \/ GetMerge(p) \/ GetStray(p)
              \/ FreeFirst(p) \/ FreeNew(p) \/ FreeNoMemory(p) \/ FreeAppend(p) \/ FreeStray(p)
Step(p)    == Acquire(p) \/ seek(p) \/ write(p) \/ writeFails(p)

\* sbFreeBlock() has linked the block in memory and is writing.
Linking(p) == call[p].op = "free" /\ call[p].pc \in {"seek", "write"}
\* Between its two writes: the first already points to the block that only the
\* second makes a collector.
HalfLinked(p) == /\ Linking(p)
                 /\ Len(call[p].todo) = 1
                 /\ Target(call[p].todo[1]) = call[p].arg
HalfWritten   == \E p \in Procs : HalfLinked(p)

\* The disk is still where a call has put it when the call writes: nobody seeks
\* between the two (seek() and write() of swizzle() and swizzleSuperBlock()).
WritesOnTarget == \A p \in Procs : call[p].pc = "write" => pos = Target(Head(call[p].todo))
=============================================================================
