------------------------------ MODULE UserHeap ------------------------------
(***************************************************************************)
(* The heaps of user processes (stage 8): getmem(), freemem(), malloc()    *)
(* and free() on the free list behind PROCHEAPVADDR, which incheap() makes *)
(* longer.  A process is not preempted in this stage, so each call is one  *)
(* step.  Addresses count units of half a memblk; a page has PAGE_SIZE of  *)
(* them, and a uint wraps at UINT.                                         *)
(***************************************************************************)
EXTENDS Paging

CONSTANTS PAGE_SIZE, UINT,
          SIZES,                \* the sizes processes ask for, 0 is refused at once
          MaxBlocks             \* bound: blocks in use at one time

MEMBLK  == 2                    \* sizeof(struct memblock)
MEMHEAD == 4                    \* sizeof(struct memhead)
BASE    == PROCHEAPVADDR * PAGE_SIZE + MEMHEAD

ASSUME HeapAssumption ==
    /\ PAGE_SIZE \in Nat /\ PAGE_SIZE > MEMHEAD /\ PAGE_SIZE % MEMBLK = 0
    /\ UINT \in Nat \ {0} /\ SIZES \subseteq Nat \ {0}
    /\ MaxBlocks \in Nat

VARIABLES mh,           \* head, as the list of blocks, and length of every memhead
          alloc         \* the blocks a process has: where, how long, what it asked for

vars == <<pagevars, mh, alloc>>

uint(x)      == x % UINT
roundup(x, k) == ((x + k - 1) \div k) * k
roundmb_None(x) == x                    \* faulty
roundmb(x)   == roundup(x, MEMBLK)
Blk(base, len) == [base |-> base, len |-> len]
End(b)       == b.base + b.len

-----------------------------------------------------------------------------
(* getmem()                                                                *)

Fits(list, n) == {i \in DOMAIN list : list[i].len >= n}

\* Faulty: the head of the list keeps its full length.
Take_NoSplit(h, i, n) ==
    [free |-> RemoveAt(h.free, i), length |-> h.length - n]

\* Block i gives its first n units; a rest that can hold a memblk takes its place.
\* The length of what is given is written last, over that of the rest if n is 0.
Take(h, i, n) ==
    LET b    == h.free[i]
        rest == IF n = 0 THEN 0 ELSE b.len - n IN
    IF b.len - n >= MEMBLK
    THEN [free |-> [h.free EXCEPT ![i] = Blk(b.base + n, rest)], length |-> h.length - n]
    ELSE [free |-> RemoveAt(h.free, i), length |-> h.length - b.len]

\* The new pages become the head of the list, whatever is free in front of them.
Extended(h, vtop, n) ==
    LET size == uint(roundup(n, PAGE_SIZE)) IN
    [free |-> <<Blk(vtop * PAGE_SIZE, size)>> \o h.free, length |-> h.length + size]

Keep(p, base, len, asked) ==
    alloc' = [alloc EXCEPT ![p] = @ \cup {[base |-> base, len |-> len, asked |-> asked]}]

\* getmem(nbytes): the first block that fits, else new pages; SYSERR leaves what
\* incheap() did.  What nbytes wraps to is what is looked for: if that is 0 and
\* nothing is free, the write behind the heap that would follow is left out.
getmem(p, nbytes) ==
    LET n == uint(roundmb(uint(nbytes)))
        h == mh[p]
        i == Min(Fits(h.free, n))
        x == incheap(p, roundup(n, PAGE_SIZE) \div PAGE_SIZE)
    IN \/ /\ uint(nbytes) = 0
          /\ UNCHANGED <<ram, bound, mh, alloc>>
       \/ /\ uint(nbytes) # 0 /\ Fits(h.free, n) # {}
          /\ mh' = [mh EXCEPT ![p] = Take(h, i, n)]
          /\ Keep(p, h.free[i].base, n, nbytes)
          /\ UNCHANGED <<ram, bound>>
       \/ /\ uint(nbytes) # 0 /\ Fits(h.free, n) = {} /\ n # 0
          /\ ram' = x.ram /\ bound' = x.bound
          /\ IF x.ok
             THEN /\ mh' = [mh EXCEPT ![p] = Take(Extended(h, x.vtop, n), 1, n)]
                  /\ Keep(p, x.vtop * PAGE_SIZE, n, nbytes)
             ELSE UNCHANGED <<mh, alloc>>

\* A process that was given no unit at all has a memblk of the free list for its
\* own: what it writes there, and does next, is not followed.
Running(p) == Alive /\ p \in Live /\ \A b \in alloc[p] : b.len # 0
HasRoom    == Cardinality(UNION {{<<p, b>> : b \in alloc[p]} : p \in Pids}) < MaxBlocks

Getmem(p, size) ==
    /\ Running(p) /\ HasRoom
    /\ getmem(p, size)
    /\ UNCHANGED proc

\* malloc(): a block with a header that holds its length.
Malloc(p, size) ==
    /\ Running(p) /\ HasRoom
    /\ getmem(p, MEMBLK + size)
    /\ UNCHANGED proc

-----------------------------------------------------------------------------
(* freemem()                                                               *)

\* The block between the k-th of the list and the next, joined to both if it can be.
Inserted(list, k, block) ==
    LET joinsPrev == k > 0 /\ End(list[k]) = block.base
        front  == IF joinsPrev THEN Blk(list[k].base, list[k].len + block.len) ELSE block
        joinsNext == k < Len(list) /\ End(front) = list[k + 1].base
        merged == IF joinsNext THEN Blk(front.base, front.len + list[k + 1].len) ELSE front
    IN SubSeq(list, 1, IF joinsPrev THEN k - 1 ELSE k) \o <<merged>>
       \o SubSeq(list, IF joinsNext THEN k + 2 ELSE k + 1, Len(list))

\* The traversal goes past the blocks with smaller addresses and stops at the
\* first that is not.
Passed(list, block) ==
    CHOOSE k \in 0 .. Len(list) :
        /\ \A i \in 1 .. k : list[i].base < block.base
        /\ k < Len(list) => list[k + 1].base >= block.base

Overlaps(list, k, block) ==
    \/ k > 0 /\ End(list[k]) > block.base
    \/ k < Len(list) /\ End(block) > list[k + 1].base

freemem(p, b) ==
    LET h     == mh[p]
        block == Blk(b.base, uint(roundmb(uint(b.asked))))
        k     == Passed(h.free, block)
    IN mh' = IF uint(b.asked) = 0 \/ Overlaps(h.free, k, block) THEN mh
             ELSE [mh EXCEPT ![p] = [free |-> Inserted(h.free, k, block),
                                                 length |-> h.length + block.len]]

\* freemem() and free(): the process gives back a block it has, with what it asked for.
Free(p) ==
    /\ Running(p)
    /\ \E b \in alloc[p] : freemem(p, b) /\ alloc' = [alloc EXCEPT ![p] = @ \ {b}]
    /\ UNCHANGED pagevars

-----------------------------------------------------------------------------
(* Processes come and go with their heaps.                                 *)

NoHeap   == [free |-> <<>>, length |-> 0]
heapinit == [free |-> <<Blk(BASE, PAGE_SIZE - MEMHEAD)>>, length |-> PAGE_SIZE - MEMHEAD]

Create(p) == /\ create(p)
             /\ mh' = IF ram'.wild THEN mh ELSE [mh EXCEPT ![p] = heapinit]
             /\ UNCHANGED alloc

Kill(p) == /\ kill(p)
           /\ mh' = [mh EXCEPT ![p] = NoHeap]
           /\ alloc' = [alloc EXCEPT ![p] = {}]

Init == /\ PInit
        /\ mh = [p \in Pids |-> NoHeap]
        /\ alloc = [p \in Pids |-> {}]

Next == \/ createFails /\ UNCHANGED <<mh, alloc>>
        \/ \E p \in Pids : \/ Create(p) \/ Kill(p) \/ Free(p)
                           \/ \E size \in SIZES : Getmem(p, size) \/ Malloc(p, size)

Spec == Init /\ [][Next]_vars

-----------------------------------------------------------------------------
(* Properties                                                              *)

\* Type invariant: the page list holds pages, every process has an address space
\* of its own slot's, blocks lie on memblk boundaries.
TypeOK ==
    /\ ToSet(ram.free) \subseteq Frames /\ DOMAIN ram.mem = Frames /\ ram.wild \in BOOLEAN
    /\ \A p \in Live : {proc[p].pagetable, proc[p].stkbase, proc[p].swaparea} \subseteq Frames
    /\ bound \in [Pids -> {0} \cup PROCHEAPVADDR + 1 .. PROCSTACKVADDR]
    /\ \A p \in Live : \A i \in DOMAIN mh[p].free :
           mh[p].free[i].base % MEMBLK = 0 /\ mh[p].free[i].len % MEMBLK = 0

HeapPages(p) == PROCHEAPVADDR .. bound[p] - 1
Leaves(m, t) == {m[t][i] : i \in DOMAIN m[t]}
UserPtes(p)  == {e \in UNION {Leaves(ram.mem, t) : t \in Level0(ram.mem, proc[p].pagetable)} :
                     "U" \in e.attr}
Writable(p)  == {e.pa : e \in {x \in UserPtes(p) : "W" \in x.attr}}
PagesOf(p)   == Tables(ram.mem, proc[p].pagetable) \cup (Writable(p) \ {UART_BASE})
KernelPages  == Tables(ram.mem, _kernpgtbl)
FreePages    == ToSet(ram.free)

\* Every page of memory has one owner: the list of free pages, the kernel's
\* tables, or one process, as a table or as a page it can write, never both; so no
\* process can write a table, a page of another process, or the kernel's image.
OneOwner ==
    Alive =>
        /\ IsInjective(ram.free)
        /\ KernelPages \cap FreePages = {}
        /\ \A p, q \in Live : p # q => PagesOf(p) \cap PagesOf(q) = {}
        /\ \A p \in Live : /\ PagesOf(p) \cap (KernelPages \cup FreePages) = {}
                           /\ Tables(ram.mem, proc[p].pagetable) \cap Writable(p) = {}
                           /\ Writable(p) \subseteq Frames \cup {UART_BASE}

\* The addresses a process has been promised are there: every page of its heap up
\* to bound, its stack and its swap area are mapped, to different pages, writable.
\* A failure of incheap() in the middle must not move bound.
HeapBacked ==
    Alive => \A p \in Live :
        LET vs == HeapPages(p) \cup {PROCSTACKVADDR, SWAPAREAVADDR}
            pt == proc[p].pagetable
        IN /\ \A v \in vs : Mapped(ram.mem, pt, v) /\ Walk(ram.mem, pt, v).attr = RW \cup U
           /\ \A v, w \in vs : Walk(ram.mem, pt, v).pa = Walk(ram.mem, pt, w).pa => v = w
           /\ Walk(ram.mem, pt, SWAPAREAVADDR).pa = proc[p].swaparea
           /\ Walk(ram.mem, pt, PROCSTACKVADDR).pa = proc[p].stkbase

Span(b)   == b.base .. End(b) - 1
FreeOf(p) == ToSet(mh[p].free)
BlocksOf(p) == FreeOf(p) \cup alloc[p]

\* Splitting, extending and joining lose no unit of a heap and count none twice:
\* free blocks and blocks in use tile the heap from its base to its bound, and
\* the memhead's length is the number of units that are free.
HeapTiled ==
    Alive => \A p \in Live :
        /\ UNION {Span(b) : b \in BlocksOf(p)} = BASE .. bound[p] * PAGE_SIZE - 1
        /\ \A b, c \in BlocksOf(p) : b # c => Span(b) \cap Span(c) = {}
        /\ IsInjective(mh[p].free)
        /\ mh[p].length = Cardinality(UNION {Span(b) : b \in FreeOf(p)})

\* Each unit of a block in memory, as the hardware finds it.
Cells(p, b) == {<<Walk(ram.mem, proc[p].pagetable, a \div PAGE_SIZE).pa, a % PAGE_SIZE>> :
                    a \in Span(b)}
Held  == UNION {{<<p, b>> : b \in alloc[p]} : p \in Live}
owned == [k \in {<<x[1], x[2].base>> : x \in Held} |->
              LET b == CHOOSE y \in alloc[k[1]] : y.base = k[2]
              IN [asked |-> b.asked, cells |-> Cells(k[1], b)]]

Abs == INSTANCE AbsMemory WITH Owners <- Pids

\* A process's blocks are pieces of physical memory that stay where they are, at
\* least as large as what was asked for, and never shared with another block,
\* whatever this and other processes allocate, free, extend or leave behind.
MemorySpec == Abs!MemorySpec
=============================================================================
