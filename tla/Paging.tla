------------------------------- MODULE Paging -------------------------------
(***************************************************************************)
(* Physical pages and page tables (stages 7 and 8): pgalloc() and          *)
(* pgInit(), mapPage() over three levels, the kernel's address space, and  *)
(* the pages of a process from create() to kill().                         *)
(* An address is the number of its page; a table has Fan entries, 512 in   *)
(* the source, and the layout of memory is given by the constants.         *)
(***************************************************************************)
EXTENDS Integers, FiniteSets, SequencesExt

CONSTANTS Pids,                         \* slots of the process table for user processes
          Fan0, Fan1,                   \* entries of a table of level 0 and of level 1
          UART_BASE, PLIC_BASE, TIMER_BASE,
          start, ctxsws, interrupte, datas,     \* the parts of the kernel's image
          memheap, maxaddr,             \* first and last page of free memory
          PROCHEAPVADDR, PROCSTACKVADDR, SWAPAREAVADDR

ASSUME LayoutAssumption ==
    /\ Fan0 \in Nat \ {0} /\ Fan1 \in Nat \ {0}
    /\ {start, ctxsws, interrupte, datas, memheap, maxaddr} \subseteq Nat
    /\ {PROCHEAPVADDR, PROCSTACKVADDR, SWAPAREAVADDR} \subseteq Nat
    /\ \A b \in {UART_BASE, PLIC_BASE, TIMER_BASE} : b \in Nat /\ b < start
    /\ start < ctxsws /\ ctxsws < interrupte
    /\ interrupte < datas /\ datas < memheap /\ memheap <= maxaddr
    /\ maxaddr < PROCHEAPVADDR /\ PROCHEAPVADDR < PROCSTACKVADDR
    /\ PROCSTACKVADDR < SWAPAREAVADDR

VARIABLES ram,          \* pgfreelist, what the pages hold as tables, and whether the
                        \* kernel has followed a pointer to nowhere and is dead
          proc,         \* pagetable, stkbase and swaparea of every process
          bound         \* memhead.bound, in the first page of the heap of every process

pagevars == <<ram, proc, bound>>

SYSERR == -1
Frames == memheap .. maxaddr
Blank  == <<>>                          \* a page after bzero(): no entry is valid
NoProc == [live |-> FALSE]

\* PTE_R, PTE_W, PTE_X and PTE_U; a table entry that points to a table has none.
RW == {"R", "W"}   RX == {"R", "X"}   U == {"U"}
Pte(pa, attr) == [pa |-> pa, attr |-> attr]
PX(level, v)  == CASE level = 2 -> v \div (Fan0 * Fan1)
                   [] level = 1 -> (v \div Fan0) % Fan1
                   [] level = 0 -> v % Fan0

-----------------------------------------------------------------------------
(* The list of free pages.                                                 *)

pgtop(r) == IF r.free = <<>> THEN SYSERR ELSE Head(r.free)

pgalloc(r) == IF r.free = <<>> THEN r
              ELSE [r EXCEPT !.free = Tail(@), !.mem[Head(r.free)] = Blank]

pgfree(r, addr) == [r EXCEPT !.free = <<addr>> \o @]

\* Pages are pushed from the lowest to the highest.
pgfreerange(r, first, last) ==
    LET pushed[k \in 0 .. last - first + 1] ==
            IF k = 0 THEN r ELSE pgfree(pushed[k - 1], first + k - 1)
    IN pushed[last - first + 1]

pgInit == pgfreerange([free |-> <<>>, mem |-> [f \in Frames |-> Blank], wild |-> FALSE],
                      memheap, maxaddr)

-----------------------------------------------------------------------------
(* Page tables.                                                            *)

\* Entry i of a table is written.
Entered(t, i, e) == [j \in DOMAIN t \cup {i} |-> IF j = i THEN e ELSE t[j]]

\* One level down in table t.  SYSERR is not the NULL mapPage() looks for: it is
\* entered like a table, and the next access through it is the kernel's last.
NextTable(r, t, i) ==
    IF r.wild \/ t \notin Frames THEN [ram |-> [r EXCEPT !.wild = TRUE], at |-> SYSERR]
    ELSE IF i \in DOMAIN r.mem[t] THEN [ram |-> r, at |-> r.mem[t][i].pa]
    ELSE [ram |-> [pgalloc(r) EXCEPT !.mem[t] = Entered(@, i, Pte(pgtop(r), {}))], at |-> pgtop(r)]

mapPage(r, root, v, pa, attr) ==
    LET l1 == NextTable(r, root, PX(2, v))
        l0 == NextTable(l1.ram, l1.at, PX(1, v))
    IN IF r.wild THEN r
       ELSE IF l0.at \notin Frames THEN [l0.ram EXCEPT !.wild = TRUE]
       ELSE [l0.ram EXCEPT !.mem[l0.at] = Entered(@, PX(0, v), Pte(pa, attr))]

mapAddressRange(r, root, v, pa, length, attr) ==
    LET mapped[k \in 0 .. length] ==
            IF k = 0 THEN r
            ELSE mapPage(mapped[k - 1], root, v + k - 1, pa + k - 1, attr)
    IN IF r.wild THEN r ELSE mapped[length]

\* The entry the hardware finds for page v, and the tables on the way.
Mapped(m, root, v) ==
    /\ PX(2, v) \in DOMAIN m[root]
    /\ PX(1, v) \in DOMAIN m[m[root][PX(2, v)].pa]
    /\ PX(0, v) \in DOMAIN m[m[m[root][PX(2, v)].pa][PX(1, v)].pa]
Walk(m, root, v) == m[m[m[root][PX(2, v)].pa][PX(1, v)].pa][PX(0, v)]
Below(m, t)      == {m[t][i].pa : i \in DOMAIN m[t]}
Level1(m, root)  == Below(m, root)
Level0(m, root)  == UNION {Below(m, t) : t \in Level1(m, root)}
Tables(m, root)  == {root} \cup Level1(m, root) \cup Level0(m, root)

-----------------------------------------------------------------------------
(* Address spaces.  The parts of the image lie at their own addresses; the *)
(* result of mapAddressRange() is not looked at.                           *)

Identity(r, root, ranges) ==
    LET mapped[k \in 0 .. Len(ranges)] ==
            IF k = 0 THEN r
            ELSE LET x == ranges[k] IN mapAddressRange(mapped[k - 1], root, x[1], x[1], x[2], x[3])
    IN mapped[Len(ranges)]

KernRanges == << <<UART_BASE, 1, RW>>, <<PLIC_BASE, 1, RW>>, <<TIMER_BASE, 1, RW>>,
                 <<start, ctxsws - start, RX>>, <<ctxsws, 2, RX>>,
                 <<interrupte, datas - interrupte, RX>>, <<datas, memheap - datas, RW>>,
                 <<memheap, maxaddr - memheap + 1, RW>> >>

\* Faulty: the kernel's globals can be written by the process.
UserRanges_DataWritable ==
    << <<UART_BASE, 1, RW \cup U>>, <<start, ctxsws - start, RX \cup U>>, <<ctxsws, 2, RX>>,
       <<interrupte, datas - interrupte, RX \cup U>>, <<datas, memheap - datas, RW \cup U>> >>
UserRanges ==
    << <<UART_BASE, 1, RW \cup U>>, <<start, ctxsws - start, RX \cup U>>, <<ctxsws, 2, RX>>,
       <<interrupte, datas - interrupte, RX \cup U>>, <<datas, memheap - datas, {"R"} \cup U>> >>

_kernpgtbl  == pgtop(pgInit)
vm_kerninit == Identity(pgalloc(pgInit), _kernpgtbl, KernRanges)

\* The stack, the page of heapinit(), and the swap area, which is written at once.
vm_userinit(r, stack) ==
    LET root == pgtop(r)
        s1 == Identity(pgalloc(r), root, UserRanges)
        s2 == mapPage(s1, root, PROCSTACKVADDR, stack, RW \cup U)
        s3 == mapPage(pgalloc(s2), root, PROCHEAPVADDR, pgtop(s2), RW \cup U)
        s4 == mapPage(pgalloc(s3), root, SWAPAREAVADDR, pgtop(s3), RW \cup U)
    IN [ram |-> IF pgtop(s3) = SYSERR THEN [s3 EXCEPT !.wild = TRUE] ELSE s4,
        pagetable |-> root, swaparea |-> pgtop(s3)]

-----------------------------------------------------------------------------
(* Processes.                                                              *)

Live  == {p \in Pids : proc[p].live}
Alive == ~ ram.wild

PInit == /\ ram = vm_kerninit
         /\ proc = [p \in Pids |-> NoProc]
         /\ bound = [p \in Pids |-> 0]

\* create(): a page for the stack, a slot, an address space.
create(p) ==
    /\ Alive /\ p \notin Live /\ pgtop(ram) # SYSERR
    /\ LET u == vm_userinit(pgalloc(ram), pgtop(ram)) IN
       /\ ram' = u.ram
       /\ IF u.ram.wild THEN UNCHANGED <<proc, bound>>
          ELSE /\ proc' = [proc EXCEPT ![p] = [live |-> TRUE, pagetable |-> u.pagetable,
                               stkbase |-> pgtop(ram), swaparea |-> u.swaparea]]
               /\ bound' = [bound EXCEPT ![p] = PROCHEAPVADDR + 1]

\* No page, or no slot: the page taken for the stack is not given back.
createFails ==
    /\ Alive /\ (pgtop(ram) = SYSERR \/ Live = Pids)
    /\ ram' = pgalloc(ram)
    /\ UNCHANGED <<proc, bound>>

\* kill(): the slot is free, none of the pages is; what they hold is out of reach.
kill(p) ==
    /\ Alive /\ p \in Live
    /\ proc' = [proc EXCEPT ![p] = NoProc]
    /\ bound' = [bound EXCEPT ![p] = 0]
    /\ UNCHANGED ram

-----------------------------------------------------------------------------
(* incheap()                                                               *)

\* One page more for the process, if there is one.
GrowPage(p, g, v) ==
    IF ~ g.ok \/ pgtop(g.ram) = SYSERR THEN [g EXCEPT !.ok = FALSE]
    ELSE [g EXCEPT !.ram = mapPage(pgalloc(g.ram), proc[p].pagetable, v, pgtop(g.ram), RW \cup U)]

\* Faulty: begins with the page that holds the heap's end.
Grow_OnePageBack(p, pages) ==
    LET grown[k \in 0 .. pages + 1] ==
            IF k = 0 THEN [ram |-> ram, ok |-> TRUE]
            ELSE GrowPage(p, grown[k - 1], bound[p] + k - 2)
    IN grown[pages + 1]

\* Pages are mapped one by one, until there is none left.
Grow(p, pages) ==
    LET grown[k \in 0 .. pages] ==
            IF k = 0 THEN [ram |-> ram, ok |-> TRUE]
            ELSE GrowPage(p, grown[k - 1], bound[p] + k - 1)
    IN grown[pages]

\* Faulty: bound moves although a page is missing.
incheap_NoCheck(p, pages) ==
    IF bound[p] + pages > PROCSTACKVADDR
    THEN [ram |-> ram, ok |-> FALSE, vtop |-> SYSERR, bound |-> bound]
    ELSE LET g == Grow(p, pages) IN
         [ram |-> g.ram, ok |-> g.ok /\ ~ g.ram.wild, vtop |-> bound[p],
          bound |-> [bound EXCEPT ![p] = @ + pages]]

\* bound moves only when every page is there; what was mapped before stays.
incheap(p, pages) ==
    IF bound[p] + pages > PROCSTACKVADDR
    THEN [ram |-> ram, ok |-> FALSE, vtop |-> SYSERR, bound |-> bound]
    ELSE LET g == Grow(p, pages) IN
         [ram |-> g.ram, ok |-> g.ok /\ ~ g.ram.wild, vtop |-> bound[p],
          bound |-> IF g.ok /\ ~ g.ram.wild THEN [bound EXCEPT ![p] = @ + pages]
                    ELSE bound]
=============================================================================
