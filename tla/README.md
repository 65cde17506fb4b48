# Verification project for the COSC 3250 Embedded Xinu kernels

The repository holds seven stages of one teaching operating system, Embedded
Xinu for RISC-V (`src/xinu-hw3` to `src/xinu-hw8`), and a file system for the
MIPS version (`src/xinu-hw9`). Each stage contains the kernel of the previous
one and adds a part: console, processes, traps and system calls, lottery
scheduling with clock preemption, paging, a user heap, files. `queue.c` and
`ready.c` are the same in stages 4 to 8, `kill.c` in stages 5 to 8, the lottery
`resched.c` in stages 6 to 8; a module models the first stage in which a part
is in its final form and says so in its header.

## 1. Inventory

| Part | Code | State | Operations |
|---|---|---|---|
| Process table, FIFO scheduler | hw5 `create.c ready.c resched.c kill.c initialize.c` | `proctab`, `currpid`, `numproc`, `nextpid` of `newpid()` | `create`, `newpid`, `ready`, `resched`, `kill`, `nulluser` |
| Queue table | hw5 `queue.c queue.h` | `queuetab`, `readylist` | `newqueue`, `enqueue`, `dequeue`, `remove` |
| Lottery scheduler, clock | hw6 `resched.c clkhandler.c clkinit.c random.c` | the above, `tickets`, `preempt`, `clkticks` | `resched`, `pickWin`, `totalTickets`, `random`, `clkhandler` |
| Traps, system calls, context switch | hw5-8 `interrupt.S dispatch.c ctxsw.S syscall_dispatch.c` | saved registers, `sepc`, kernel stack, swap area | `interrupt`, `dispatch`, `ctxsw`, `sc_*` |
| Pages and page tables | hw7-8 `pgalloc.c pgfree.c map.c vm_userinit.c vm_kerninit.c` | `pgfreelist`, page tables | `pgalloc`, `pgfree`, `mapPage`, `mapAddressRange`, `vm_userinit` |
| User heap | hw8 `getmem.c freemem.c malloc.c free.c incheap.c heapinit.c` | `memhead`, free list, heap pages | `getmem`, `freemem`, `malloc`, `free`, `incheap` |
| File system | hw9 `file/*.c` | superblock, free list, directory: in memory and on disk | `sbOpen`, `sbInit`, `sbGetBlock`, `sbFreeBlock`, `fileCreate`, `fileOpen`, `fileClose`, `fileDelete`, `fileGetChar`, `filePutChar`, `fileSeek` |
| Disk daemon | hw9 `device/disk/xinu-disk.c` | the disk file | handshake, block read, block write |
| Console | hw3 `kprintf.c` | unget buffer, UART | `kgetc`, `kungetc`, `kcheckc`, `kputc` |

How they interact. Process 0 runs `nulluser()`, which initialises everything,
runs `xmain()` (the tests), creates the null process and kills itself. It is
kernel code and calls the kernel directly. All other processes run in user
mode and reach the kernel by a trap: `interrupt.S` saves the registers and calls
`dispatch()`, which calls a system call (yield, kill, putc, getc, incheap) or,
from stage 6 on, the clock handler. Every switch of process goes through
`resched()` and `ctxsw()`. The scheduler and `kill()` share `proctab` and the
ready list; the heap extends itself through the `incheap` system call, which
takes pages from the page list `create()` also takes from; the file system
calls share the free list, the directory and the position of one disk.

What is hard. The kernels of stages 4 to 8 run with interrupts off, so a call
into the kernel is atomic and what can go wrong is a long sequence of legal
calls, an intrusive list and a table that have to agree, a failure half-way, and
from stage 6 on a clock that takes the processor between any two instructions
of a user process. The stage 9 functions block in the disk driver and in
semaphores; there processes interleave inside the functions and the machine can
stop between two disk writes. Nothing is tested but by hand, from menus. The
list of hazards, each at its line, is in `PROJECT.json`.

What makes each part correct:

- *Schedulers*: exactly one process runs; the ready list and the `PRREADY`
  states agree; no process is lost or linked twice; `numproc` (on which
  `xmain()` waits) is exact; something can always run after boot; the FIFO
  order is round robin; every ticket of the lottery counts; a quantum ends.
- *Traps*: a process leaves the kernel with the registers, stack and program
  counter it came with, apart from the result.
- *Pages*: a page has one owner; a mapping reaches a page that was allocated for
  it; pages come back.
- *Heap*: free and allocated blocks tile the heap; a block is memory of its own
  from `malloc()` to `free()`, whatever pages are mapped meanwhile.
- *Files*: a block is in the free list, or belongs to one file, or to the
  metadata, in memory and after a restart; a file is on disk whole or not at all;
  the locks are released.
- *Disk daemon*: the disk holds the bytes the driver wrote; a driver that restarts
  finds the daemon again.

## 2. Plan

In this order, the most important behaviour first. All of it is done; the last
item says what one could go on with.

1. `ProcTable`, `ReadyQueue`, `FifoSched` with `AbsSched`; `LotterySched` with
   `AbsLottery`; their proofs.
2. `FreeList` with `AbsPool`, and `FreeListClients`, which composes it with
   processes and restarts.
3. `TrapContext` and its proofs.
4. `Paging` and, on top of it, `UserHeap` with `AbsMemory`: pages, address spaces,
   `incheap`, `getmem`, `freemem`.
5. `FileSystem` with `AbsFiles`, on top of `FreeList`: the directory, open files and
   the shell commands that use them.
6. `DiskCodec` and `DiskDaemon`, and their proofs up to `DataKept`.
7. That `FifoSched` implements `AbsSched`, which needs the order of the ready list as an
   explicit sequence; `UserHeapProofs` up to `HeapTiled`; `FreeListProofs`, all safety
   properties of the free list up to `PoolSpec`.
8. `OneOwner`, `HeapBacked` and `MemorySpec` of pages and heaps, for which a page table of
   three levels has to be a tree; `OwnBlocks`, `OwnBlocksOnDisk`, `ReadsBack` and `FilesSpec`
   of the files, on top of what is proved of the free list.
9. Left: the files with several shells. `OwnBlocks` does not hold for any two
   (`files_shared`), so a theorem would have to say what shells may not do to each other's
   files, and that the last collector is never given out.

## 3. Modules

### ProcTable, ReadyQueue

`ProcTable` has the states of a process, `isbadpid()` and `newpid()`. `ReadyQueue`
is the queue table as the code has it: an array with one pair of links per
process and one pair for each end of the only queue, `readylist`. The operations
are pure operators over a table and the process states and make the array
writes of the C code in its order, so that a second `enqueue()` of a process, or a
`remove()` of one that is not linked, does to the table what it does in the
kernel. `ReadySeq`, `Listed`, `WellFormed` and `Linked` read the table; they are
recursive functions or quantifiers, never RECURSIVE operators, so that they can
be used in proofs.

### FifoSched (stage 5)

One variable per kernel variable: `state`, `queuetab`, `currpid`, `numproc`,
`nextpid`; `stacks` counts the calls of `getstk()`, which moves one pointer and
takes nothing back; `mainpc` and `prnull` are where process 0 is in `nulluser()`
and what `create(nullproc)` returned. The kernel functions `create`, `resched`,
`ready`, `kill` are operators that state what the whole call does. The actions are
their callers: process 0 inside `xmain()` (create, ready with and without
rescheduling, resched, kill of another process, in any order), the three steps
that end `nulluser()`, and the yield and kill of a user process. `xmain()` may
stop at any point, so the runs cover a full table, no stacks left, and a system
without a null process.

`AbsSched` is the same system as one running process and a sequence: `RoundRobin`
says that `FifoSched` implements it, with `ReadySeq(queuetab)` as the sequence.

### LotterySched (stage 6)

As `FifoSched`, with `tickets`, `preempt` and the clock. `resched()` draws among the
`PRREADY` entries of `proctab` and then dequeues the head of the ready list,
which is often another process. The list therefore drifts away from the states,
and the module keeps both, because what the code relies on
has to hold all the same: `LinksInTable`, and `DrawsAmongReady`, the refinement of
`AbsLottery`, a scheduler with a set of ready processes and no list at all.
`random()` is the set of values it can return. When nothing is ready,
`random(0)` is a remainder by zero; `pickWin()` then returns `NPROC`, and the
write of `PRCURR` falls behind the table.

### FreeList, FreeListClients (stage 9)

`FreeList` has the list of free disk blocks twice: in memory (`freelst`, `node`, and
`heap`, the nodes `malloc()` has handed out) and on disk (`dsuper`, `dfbc`). `pos` is
the one position of the disk, `freelock` the value of `sb_freelock`. Before the code
writes a structure it overwrites its pointers with block numbers and puts them
back afterwards; `swz` is the set of structures in that state.

The code in `src/` calls `wait()`, `seek()`, `write()` and `malloc()` of a kernel
that is only a binary archive; they are modelled from their use. A process can be
suspended in each of them but `malloc()`, so a call is the sequence

    GetCall | FreeCall   up to wait(sb_freelock): the guards, and for sbGetBlock()
                         the head of the list, read before the lock is taken
    GetPop, GetLast, GetMerge | FreeFirst, FreeNew, FreeAppend, FreeNoMemory
                         from the wait to the first seek: the change in memory
    seek, write          for every structure in todo; the last write unswizzles,
                         frees the node of a collector that was given out and
                         signals the lock; or writeFails, an error return

`call[p]` holds the program counter and the locals of process `p`. A process that
follows a pointer that is not one (a freed node, a block number, a word `malloc()`
left) is put in the state `wild`, where it stays with the lock: what it would do
is undefined. `Init` is `sbInit()` on an unused disk followed by `sbOpen()`;
`sbOpen` is a start with a disk that was used, in all states in which its list
can be read (`CrashSafe` says that this is all states but one window, `HalfWritten`).

`FreeListClients` adds processes that get and free blocks in any order, as the `test`
command of the shell does, which never writes to a block it got, and `CRestart`. (Owners
that write to their blocks are in `FileSystem`.) A restart gives to the clients whatever the
disk does not list. It is not enabled inside `HalfWritten`, between the two writes of
`sbFreeBlock()` that make a collector: what such a stop leaves is not a list of free blocks
(section 6), and nothing the code does with it afterwards is looked at. `AbsPool` is what
they rely on: a set of available and a set of used blocks, and what each call has in its
hands (`call[p].arg`: a block, none, or the refusal it is about to return). `PoolSpec` is
the refinement: a block is refused only when the pool is empty, and a restart keeps the free
blocks free and the used ones used.

### TrapContext (stages 5 to 8)

What the processor and the kernel keep of a process: `pc`, `regs` and `sepc` of the
processor; `frame`, where `interrupt.S` saves the registers (on the stack in stages
5 to 7, in the swap area in stage 8); `kstack`, the locals `program_counter` and
`ppcb` of the activation of `dispatch()` that a process left when it was switched
out. The stages differ in three places, which are constants: what is added to the
program counter after a system call (`Words`: `program_counter+4` is 8 instructions
further in stages 5 to 7, because `program_counter` is a `ulong *`), whether
the clock preempts (`Clock`), and whether all processes trap onto one kernel stack
(`SharedStack`, stage 7). Everything from a trap to the next instruction in user
mode is one action, as the kernel runs with interrupts off: `Ecall` (a call that
returns), `Yield`, `Exit`, `Tick`, `Fault`; `User` is an instruction of the process.
`Leave` has the three ways out of the kernel: a process that never ran, one that
made a system call, one that was interrupted. `want` is a history variable, the
state each process ought to find when it runs again. Which process runs next
is any that is alive, since this is the schedulers' matter.

The registers are `a0`, which the kernel changes, and the rest as one value, the
process whose registers they are. Arguments and results are one value each.

### Paging, UserHeap (stages 7 and 8)

An address is the number of its page; the layout of memory and the fan-out of the
tables are constants, so that a walk has the three levels of the hardware's with
few entries. `ram` is the list of free pages, what each page holds as a table, and
whether the kernel has followed a pointer to nowhere (`wild`): `mapPage()` tests a
new table for `NULL` where `pgalloc()` fails with `SYSERR`, so a table that could not
be had is entered like one, and the next access through it is the last. `proc` and
`bound` are what the PCB and the heap's first page keep of a process. `create`,
`createFails`, `kill` and `incheap` are the whole calls: the pages `create()` takes
for stack, tables, heap and swap area, none of which `kill()` gives back, and those
`incheap()` has mapped when it fails half-way.

`UserHeap` adds the free list of each heap as a sequence of blocks, in list order, and
the length the memhead counts. `getmem` is first fit with its split, and otherwise
`incheap()` and the new pages in front of the list; `freemem` has the traversal, the
two overlap tests and the two joins of the code. `Malloc` and `Free` are the library
functions on top. Processes ask for what they like, free what they have, are
created and killed. Addresses count units of half a `memblk`, and a `uint` wraps
at `UINT`.

`AbsMemory` is what dynamic memory promises: a block is a set of cells as large as
was asked for and shared with nobody. The refinement maps a block to physical
cells *through the page tables*, so a page that `incheap()` maps over another, or
to two processes, breaks `MemorySpec` although every list looks right.

### FileSystem (stage 9)

`FileSystem` EXTENDS `FreeList` by the directory: `filetab` in memory, `ddir` and
`dfile` on disk, `dirlock`, and `proc[p]`, how far a process is in its command. Every
process is a shell that runs `cat`, `cat >` and `delete`, and each of these is the
sequence of file calls the command makes, cut where a call can block:

    Command, fileOpen, fileOpenRead                   all three commands
    fileSeek, fileGetChar                             cat
    fileCreate, fileCreateGet, (sbGetBlock), fileCreateGot, filePutChar, Tilde,
    fileClose, fileCloseWrite, DirSeek, DirWrite      cat >
    fileDelete, (sbFreeBlock), fileDeleteFreed, DirSeek, DirWrite    delete

The steps in brackets are those of `FreeList` (`ListStep`); the write of a free list
lands on a directory or a file if that is where the disk stands. A byte is the name of
the file it was written to, so that a byte of another file, or of an earlier use of the
block (`Junk`), is told apart. `Stored` is what a write of the directory puts on disk,
`Loaded` what `sbOpenDirectory()` makes of it.

`AbsFiles` is the promise. `store` has of each name the whole file a restart would find,
or nothing; `going` are the files that are deleted. A file that is going is gone sooner or
later, and until then a machine that stops and starts has it again, whole. `FilesSpec` maps
the disk to it along `DiskFiles`, the files of the directory on disk. A deleted file leaves
`DiskFiles` at the write with which `sbFreeBlock()` links its block: from there to `DirWrite` it is
`Freed`, its block in the free list on disk and its entry still in the directory there. A
restart in that window finds a block with two owners (`fileDelete()` frees first and
writes the directory after). What that leads to is not followed: `Restart` is not enabled
while a file is `Freed`. It is at every other moment of a delete, among them while the list is
being changed in memory and before the block is linked on disk. That exception is the
code's, not a bound.

`DirSeek` and `DirWrite` follow `sb_dirlst`, which `swizzleSuperBlock()` replaces by a block
number while it writes the superblock (`SUPER \in swz`); whoever follows it then is `wild`.

### DiskCodec, DiskDaemon (stage 9, on the host)

`DiskCodec` is the hexadecimal code of the lines, with signed chars. `DiskDaemon` has
the daemon's `pc` in `diskServer()`: it sends a banner and listens (`Banner`, `Listen`) up
to `MAXTRIES` times, acknowledges, and serves line by line (`Serve`,
`writeBlockRequest`). What comes after a `W` line is taken for the block, whatever it is.
A line is its kind, a block number or checksum, and its digits; the checksum is the
exclusive or, given as the parity of each bit; `ending` is how the
driver ends its lines, which decides whether the serving loop knows its question.
The driver is a binary and modelled from what the daemon expects: it asks until it is
acknowledged, makes one request at a time, compares the checksum and may restart
anywhere. `risk` is the set of blocks whose last write was cut or came back with a
wrong checksum.

## 4. Runs

| Run | Shows | Bounds |
|---|---|---|
| `fifo_safety` | list, states, `numproc` and null process agree; round robin; a ready process is served or killed; the inductive invariant of the proofs | 4 slots, 5 stacks, 5 calls of `create` from `xmain`: slots wrap around and are reused, either resource can run out first |
| `lottery_safety` | links, the draw, the shares, `AbsLottery`; the clock ends a quantum; the inductive invariant of the proofs | 3 slots, 4 stacks, tickets 1 and 3, `RANDMAX` 5: totals above and below the range of `random()`; `QUANTUM` 2 |
| `freelist_one` | the disk list is readable at every stop; memory and disk agree; `AbsPool` | 1 process, 7 disk blocks (5 in the list), 2 names per collector, 2 nodes, 1 restart: the list is used up, refilled and extended |
| `freelist_two` | the same with two callers, that nobody follows a stale pointer, that the disk is where a write needs it, and that every call returns | 2 processes, 6 disk blocks, at most 3 blocks out of the list, 2 restarts |
| `trap_returns` | stage 8 with the clock of stage 6: registers, the result and the place behind the `ecall`; the inductive invariant of the proofs | 3 processes, a loop of 3 instructions |
| `trap_clock` | (violation) stage 6: after a tick with a switch the process goes on where another one was | 2 processes |
| `memory` | pages have one owner, promised addresses are mapped, heaps lose nothing, blocks are memory of their own (`AbsMemory`) | 2 slots, 45 pages: two address spaces and 4 pages more; 2 blocks at a time, two sizes, one rounded and one longer than half a page |
| `files_one` | blocks have one owner in memory and on disk, `cat` shows what the disk has, the disk is a store of whole files (`AbsFiles`) | 1 shell, 3 blocks, 1 name per collector, 4 names and entries, blocks of 1 byte, 6 commands, 1 restart |
| `files_two` | with two shells blocks keep one owner in memory, and every command ends | 2 shells with a name each, 4 blocks, 3 commands |
| `files_fail` | the same owner whatever fails | 1 shell, every write may fail, `malloc()` may return `NULL` or used memory, 2 blocks, 2 entries for 3 names, 5 commands |
| `files_shared` | (violation) a block is put into the free list twice | 2 shells, one name, 3 commands |
| `disk` | the disk keeps what was written and gives it back; a driver that asks is acknowledged | 2 blocks of 2 bytes, 2 contents with bytes of both signs, 2 lines before the driver, 2 writes, 2 restarts, 1 damaged digit |

Three slots are enough for a running process, one that is on the list by mistake
and one that is off it; four let a killed process leave from the front, the
middle and the end of the list. `MaxCreate` bounds the calls of `create()`; it
has to exceed `NPROC` for slots to be reused.

Five blocks with two names per collector are one full and one partly filled collector, so
each of the six ways through `sbGetBlock()` and `sbFreeBlock()` is taken (`freelist_two`,
with four, leaves out the append to a partly filled collector). Two nodes are all the first
list needs; a third collector is refused. The disk of the source has 256 blocks and 61 names
per collector (`DISKBLOCKLEN` is 256, `FREEBLOCKMAX` 256 / 4 - 3); they have the same
remainder property: 254 is no multiple of 62 (`LayoutAssumption`). `MaxHeld` bounds the
blocks out of the list: in `freelist_two` it is one less than would let a caller be given
the only collector while another waits. So `freelist_two` says what holds as long as a disk
does not fill up; what happens when it does is in section 6. Everything but the disk starts
afresh with a restart, but the blocks that are in use then hold what they held before, some
of them a collector, where at the first start none does: so `freelist_two` has two restarts.
The theorems cover any number.

Three processes are needed in `trap_returns` for one to be in the kernel while two
others go in and out.

In `memory` the pages are enough for two address spaces but not for a third after a
`kill()`, so that creating and allocating run out inside `create()`, inside a table and inside
`incheap()`; the heap may grow by six pages, and the third page of it needs
another table. A block of 5 units and one of 3 rounded to 4 split the first page
in all ways there are: an exact fit, a rest that is kept, a rest of nothing.

In `files_one` three blocks are one collector with one name and a second collector:
creating three files empties the list, deleting fills it in another order, and the
fourth `cat >` fails. Six commands are two rounds of create, delete and read of a
reused block. `files_two` keeps the shells to files of their own and the last
collector in the list; both conditions are necessary (section 6). In `files_fail` the two
blocks are one collector with one name: two `cat >` empty the list, a `delete` makes a collector
of nothing in used memory, and two more commands meet what that left behind; every one of
their writes may fail. In all of them a
block has one byte, which is the boundary of `filePutChar()` and `fileGetChar()` that
matters: written, full, read to its end.

In `disk` two bytes tell the digits of a byte and the bytes of a block apart; `MAXTRIES`
is 2, so that the daemon may give up; a third restart adds nothing that two do not have,
one in the middle of a write and one while the driver asks.

`CHECK_DEADLOCK FALSE` is set where the system can really stop: when no null process
could be created, nothing is left to run; a client that has no blocks to free, or a
shell, may have reached the bound; a kernel that went `wild` is dead; a failed write
leaves the free list locked; and a daemon that heard nothing in `MAXTRIES` lines has
gone.

Fairness. `Served` assumes that whoever has the processor goes on (`WF_vars(Next)`): stage 5
has no preemption, and the property holds only as long as running processes yield or exit.
`QuantumEnds` assumes the timer and nothing else (`WF_vars(clkhandler)`): the clock
interrupts user mode whatever the process does. `CallsReturn` assumes that the disk answers
a request and that a call that is over returns (weak fairness), and strong fairness for
taking the lock: a Xinu semaphore hands itself to its waiters in the order they came, so a
waiter is not passed over for ever. `CommandsEnd` assumes the same of both semaphores, and
that the user ends the input of `cat >` (`Tilde` is one of the steps a process takes when it
can). `Reconnects` assumes that the daemon and the line go on and that a driver without an
answer asks again; nothing is assumed of restarts, writes or noise.

Every property has a mutant in `PROJECT.json`, a plausible slip in one of the
modelled functions (the definitions with a suffix, such as `enqueue_StaleTail`),
under which the run fails.

## 5. Proofs

`FifoSchedProofs` begins with what the queue operations do to any well linked list:
`NewqueueLinked`, `EnqueueLinked`, `RemoveLinked`, `DequeueLinked`, for every table
size and every set of members. `Linked(qt, S)` says that forward and backward links
are inverse bijections over `S` and the two ends. It does not say that a walk from
`HEAD` meets `S`: a cycle beside the list is well linked too. `Ordered(qt, S)` does,
without a sequence: there is a numbering of the entries that grows along every
next link. `EnqueueOrdered`, `RemoveOrdered` and `DequeueOrdered` show that the operations
keep it (a new member takes the number of `TAIL`, which moves up by one). From it,
`FirstMember`: the member of least number comes after `HEAD`, so `dequeue()` finds a
member whenever there is one; and `ListedMembers`: a walk of `NPROC + 1` steps meets
each member once and ends at `TAIL`, by induction along the walk and because
`NPROC + 1` different processes do not fit in the table. `NatSets` has the induction, and the
existence of the walk (`Iteration`).

From there it proves, for every `NPROC > 0`, `NSTK` and `MaxCreate`:

- `TypeCorrect` (`TypeOK`), `ListMatchesStates` (`ReadyLinked`), `OneRunning`
  (`CurrUnique`), `NumprocCounts` (`NumprocExact`), all from `Invariance` (`IInv`);
- `ListWalksReady` (`ReadyIffListed`) and `SomethingRuns` (`AlwaysEligible`), from
  `RunInvariance`;
- `ImplementsRoundRobin` (`RoundRobin`): the initial state maps to that of `AbsSched` and
  every step to a step of it or a stutter.

None of the first four is inductive alone. `IInv` is their conjunction with `BootInv`, which
says what `nulluser()` relies on between its three last calls: process 0 still
runs, and the null process it created is suspended when `ready()` is called for it
and ready when process 0 goes. `IInv` is checked by TLC (`fifo_safety`) and then
proved: `InitIInv`, `NextIInv` (one step per action, one lemma per kernel
function: `ReschedPreserves`, `ReadyPreserves`, `KillselfPreserves`,
`KillotherPreserves`, `CreatePreserves`), `Invariance`. `RunInv` adds the order of the list,
and that nothing is ready when `currpid` is `EMPTY`; `IInv` does not need either, so
they are proved on top of it (`NextRunInv`). TLC does not evaluate `RunInv`, which
quantifies over all numberings; it checks what follows from it. Assumptions:
`NPROCAssumption` and `BoundsAssumption`, both evaluated by TLC.

For the refinement, `SeqInv` adds `Lists(queuetab, ReadySeq(queuetab))`: the sequence the
mapping reads off the table is the one its links spell, forward and back. Given `Linked`, a
table spells at most one sequence (`ReadySeqReads`), so that each queue operation needs to
be shown only for sequences: `enqueue()` appends to the one that was spelled, `dequeue()`
takes its head, `remove()` deletes one member wherever it is (the lemmas on `Lists`).
`ReschedServes`, `ReadyWakes`, `KillotherDestroys` and `CreateAdmits` turn this into the
steps of the abstract scheduler and `NextServes` puts them together, one step per action of
`Next`.

`LotterySchedProofs` proves, for every `NPROC > 0`, `NSTK`, `MaxCreate`, `RANDMAX > 0`,
`QUANTUM > 0` and any set of positive priorities (`NPROCAssumption`,
`LotteryAssumption`):

- `LotteryInvariance` (`LotteryInv`), and from it `LotteryTypeCorrect` (`TypeOK`),
  `LinksStayInTable` (`LinksInTable`), `LotteryOneRunning` (`CurrUnique`),
  `LotteryNumproc` (`NumprocExact`), `AlwaysDraws` (`DrawSucceeds`),
  `SharesFollowTickets` (`EveryTicketCounts`);
- `LotteryImplements` (`DrawsAmongReady`): the initial state maps to that of
  `AbsLottery`, and every step to a step of it or a stutter.

That a draw succeeds depends on three things at once: somebody is ready,
whoever is ready holds a ticket, and from the creation of the null process to
the end of process 0 the one is ready before the other goes. `LotteryInv` adds the
latter two, `TicketsHeld` and `BootInv`. Links need no more than `InTable`: each of
the three queue operations keeps it for any table that has it
(`EnqueueInTable`, `RemoveInTable`, `DequeueInTable`), whatever drifted.

The module begins with the draw: the running sums of `totalTickets()` and
`pickWin()` grow (`CounterGrows`) and are bounded by the total (`CounterBound`),
`random()` stays below it (`RandomRange`), so `pickWin()` finds a process
(`DrawFinds`), and the values it finds process `p` for are those between two
running sums, `tickets[p]` many (`Shares`). The running sum is a recursive function;
the library states induction with an operator as parameter, which the provers
cannot instantiate, so `NatSets` states it with a set (`LeastMember`, `SetInduction`),
from the well-foundedness of `<`, and derives the equations of a running sum.

`TrapContextProofs` proves, for any non-empty set of processes and any loop length,
with or without the clock, from `TrapAssumption` and `StageEight` (`Words = 1`, one
kernel stack per process):

- `RegistersSafe` (`RegistersKept`), `SyscallsReturn` (`SyscallReturnsNext`) and
  `ContextsParked` (`TrapInv`), which they rest on.

A process that runs is right only if what the kernel kept of it was; so `TrapInv`
adds `AllParked`: of every living process that does not run, `frame` holds the
registers it needs, and if it is inside a system call, its `dispatch()` on its own
stack holds its own process and the `ecall` it made. `LeaveKeeps` shows this for
a trap that ends with any process in user mode, in three cases, one per way out
of the kernel; `NextTrapInv` applies it to each action. `AllParked` says nothing of
the program counter of an interrupted process, as the code does not keep it
(`trap_clock`). The assumption is needed: with `SharedStack` the frame of
`dispatch()` is overwritten by the next trap, and TLC finds a state in which
`RegistersKept` fails; with `Words` 8 `SyscallReturnsNext` fails.

`FreeListProofs` proves in its first part, for any set of processes, any disk, any number
of nodes, with failing writes, used memory and restarts, from nothing but the `ASSUME`s
of the modules:

- `DiskStaysOnTarget` (`WritesOnTarget`) and `OneAtDisk` (`Exclusive`), both from
  `DiskInvariance` (`DiskInv`).

A call that was sent to a block finds the disk still there only if no other call moves
the disk, or the block number of the node, meanwhile; so `DiskInv` adds that a call
between seek and write is alone and has the lock. Every step either ends
with its process away from the disk (`LeavesDisk`) or at it with the lock
(`EntersDisk`); the lemmas of the calls put each action under one of the two. That a
process follows a stray pointer, or that `sbGetBlock()` keeps the lock when a write
fails, does not break it: both leave the lock taken.

The second part proves, for any layout that `LayoutAssumption` allows, any number of
nodes and restarts, and under three hypotheses:

- `ListTypeCorrect` (`TypeOK`), `PointersLead` (`NoStray`), `RestartsAreSafe` (`CrashSafe`)
  and `DiskHasTheList` (`DiskMatches`), all from `FreeListInvariance` (`FreeListInv`);
- `ImplementsPool` (`PoolSpec`): the initial state maps to that of `AbsPool` and every step to
  a step of it or a stutter.

The hypotheses are the bounds of the code's correctness, not of the proof; without each of
them the code does fail (section 6). No write fails: `sbGetBlock()` would keep the lock. `malloc()`
returns clean memory: a stray `fbc_next` would be followed. And `Roomy`: there is one caller
(`Solo`), or fewer blocks are out than the disk has: `sbGetBlock()` reads the
head of the list before it has the lock, and with several callers the last collector may
go in between. `freelist_one` is an instance of the first case, `freelist_two` of the second.

`FreeListInv` says where every block is. `Spells(start, next, c)` says that the sequence `c` is what
a walk from `start` along `next` meets, once each; `MemGood` and `DiskGood` say it of
the list in memory and the one on disk, with collectors that are `Tidy` and share no
block. `Owned`: a block is in use, in the list or in the hands of one call, and in the
last two at once only while `sbFreeBlock()` links it. `CallOK` is what a call has between its
steps (the structures it has yet to write, which of them is swizzled, the node it is about
to free), `Counted` that callers and blocks out stay below the bound, from which
`NoneLeft` and `HandsFull` conclude that the list of several callers is never empty. `Written`
says that the disk has every structure but those that are `Due`, `Settled` that no node is lost and
no pointer left a block number, and `Readable` what a restart needs, always but in
`HalfWritten`. None of them is inductive without the others: the last write of a call makes
the disk right only if the rest was written, and is harmless before only if what it links
is nobody's.

The module first shows that `Spells` determines the chain the model's recursive
functions read (`ChainReads`) and what the list of its groups has (`FlattenGives`). A step of
`sbGetBlock()` or `sbFreeBlock()` changes the list at one end (`SpellsSame`, `SpellsLonger`,
`SpellsShorter`) and what there is to write (`Acquired`, `OneToWrite`, `TwoToWrite`), and each
of the six ways through them has a lemma (`GetPopKeeps` to `FreeAppendKeeps`). For a write, the
question is what the disk lists while it has some of the structures and not the others:
`FirstWriteKeeps` and `LastWrite`; and when nothing is due it lists what memory does
(`DiskFollows`), from which `RestartKeepsList` has the list of the next start. `FirstDisk` is
`sbInit()`: the arithmetic of the groups it cuts the blocks into (`GroupNumbers`). For the
refinement `AvailIs` and `HandIs` say what the mapping reads in a state of the invariant,
and `NextPool` names, action by action, the step of the pool. TLC checks `FreeListInv`
on the instances of `freelist_one` and `freelist_two`.

The invariant has a parameter, `ListInv(used)`, the blocks that are out of the list, and the
lemmas of the calls, the disk and the restart are stated for any such set:
`FreeListClients` puts in what its clients hold, the files what entries of the
directory and half-made files hold.

`DiskDaemonProofs` begins with the code of the lines, with no assumption: for all 256
values of a signed char, `decode()` takes back what `encode()` made (`EncodeDecode`), and
all pairs of digits are what `encode()` makes of the byte they decode to
(`DecodeEncode`): different texts are different blocks, so no damage to a digit is lost
in the decoding. The lemmas split the byte into its nibbles (`NibblesOfByte`,
`ByteOfNibbles`) and a nibble into its digit (`DigitNibble`, `NibbleInjective`). Then, for
every block size, number of blocks, `MAXTRIES`, set of contents and of damage (its
`ASSUME`):

- `DiskKeepsData` (`DataKept`), from `DaemonInv`.

`DataKept` is not inductive: whether a write that ended is on the disk depends on what was
under way. `DaemonInv` says for each state of the driver what can be on the line and where
the daemon can be in answering it: nothing behind a driver that is ready, a question or its
answer behind one that reads, and, behind one that has written, the block at most one
character from what was sent (`Almost`), before or behind the daemon. What makes the last
step go through is that the checksum, the exclusive or of the bytes, tells apart two blocks
that differ in one byte (`ChecksumTells`): two bytes that differ do so in a bit
(`SumOfBits`, `BitsTell`), and one byte changes the parity of that bit over the block. A
driver that restarts in the middle of a write puts the block in `risk`; `Draining` describes
the lines the daemon may still have before it, which are at most the rest of that write. TLC
checks `DaemonInv` on the instance of `disk`.

`UserHeapProofs` proves, for every set of processes, every layout of memory and table
fan-out and every page size (`LayoutAssumption`, `HeapAssumption`), and for every set of
sizes that do not wrap, which each of the theorems has as its hypothesis `NoWrap`: a size to
which a header can be added and that can be rounded up to pages within a `uint`. The code
does not look at that, and without it `MemorySpec` is false (section 6):

- `HeapsTiled` (`HeapTiled`), from `HeapInv`;
- `HeapTypeCorrect` (`TypeOK`), `PagesOwned` (`OneOwner`) and `HeapsBacked` (`HeapBacked`), from
  `PageInv`;
- `ImplementsMemory` (`MemorySpec`): the initial state maps to that of `AbsMemory` and every
  step to a step of it or a stutter, from both invariants.

`HeapTiled` is about units of memory, the code about a list of blocks. The proof
goes from one to the other in three layers. A set of blocks has a `Cover`, the units in
them, and may be `Apart`; `AddCover` and `DropCover` say what one block more or less
does. `Holds(h, F)` says that a memhead lists exactly the blocks `F`, once each and apart,
and that its length is the size of their cover; the list is changed in one way
only, a stretch of it replaced by at most one block, which `Splice` covers and `Removal`,
`Replacement`, `Prepended` specialise. With it `TakeGives` (first fit, with and without a
rest), `ExtendedHolds` (new pages at the head) and `FreedHolds` (insertion with a join on
either side, both or none, `Join`) are proved for any list. `Tiled` adds the blocks in
use, and the actions follow.

`HeapInv` strengthens `HeapTiled` by what it needs: bases and lengths of free blocks are
even and not zero, so that a rest of a split can hold a memblk and a block freed is
rounded as it was when it was given; every block in use is of a length that does not
wrap; and `bound` is above the first page. It does not say that the list is in
address order, which is not so: new pages go to its head. Therefore `Passed` need not
find the blocks next to the one that is freed, and `FreedHolds` does not assume it; that
the overlap test of `freemem()` (`freemem.c`) never fires for a block the process has
follows all the same, from `Apart`. TLC checks `HeapInv` on the instance of `memory`.

`PageInv` is about the pages behind the heap. `Tree(m, root)` says that the tables of three
levels under a root are different pages, each entered in one place; without it a new entry for
one address could be an entry for another (`WaysPart`: one entry, one address).
`Space` says what a process has been promised: below `bound`, at the stack and at the swap
area every page is mapped, to pages of its own, none of them one of its tables. `Owned` puts
the spaces together: the kernel's tree, the free pages and the pages of each process
are apart. It is claimed while the kernel is `Alive`, as the properties are: once `mapPage()`
has entered `SYSERR` as a table and followed it, nothing is known of memory.

The proof follows the code from the inside out. `NextTable()` finds a table, takes a free
page for one, or enters `SYSERR` when there is none. `Grown(r, s, root, V, E)` says what has
become of a memory in between: tables came from the free pages only, all other pages
are as they were, addresses outside `V` lead where they led, and what is new are entries of
`E`. It composes (`GrownTwice`), so it goes through `mapPage()`, through
`mapAddressRange()` by induction on the pages, and part by part through `vm_userinit()` and
`vm_kerninit()`. The loop of `incheap()` is the same with a page taken for each address. When
it stops half-way the space has pages that were never promised, and `bound` has
not moved: so `Space` is stated up to a bound, and `SpaceLess` gives up the rest.

For `ImplementsMemory` a block is the set of cells its units lie in. Two units of a heap are two
cells, because `HeapBacked` sends two pages of the heap to two pages of memory; blocks of two
heaps have no cell in common, because `OneOwner` keeps the pages apart; and the cells
of a block stay what they are from `malloc()` to `free()`, because every step keeps the walks
of every space that was there (`PagesKept`). What a block has is what `roundmb()` made of
the request, so at least what was asked for. TLC checks `PageInv` on the instance of `memory`.

`FileSystemProofs` proves, for one shell (`Solo`), no failing writes and clean memory
(`MayFail` and `DirtyMalloc` `FALSE`), for any number of blocks, nodes, names, entries of the
directory, bytes of a block, commands and restarts:

- `BlocksAreOwned` (`OwnBlocks`) and `BlocksAreOwnedOnDisk` (`OwnBlocksOnDisk`), from
  `FilesInvariance` (`FilesInv`);

and, with memory for the buffers besides (`MemoryFull` is `FALSE`):

- `FilesReadBack` (`ReadsBack`), from `ReadsInvariance` (`Reads`);
- `ImplementsFiles` (`FilesSpec`): the initial state maps to that of `AbsFiles` and every step
  to a step of it or a stutter.

Each hypothesis is needed for the code, except that with one shell a failing write is
survived as far as `OwnBlocks` goes, which `files_fail` shows: two shells with one file give
a block back twice (`files_shared`); a write that fails in `fileClose()` leaves a file in
the directory whose bytes are not on the disk; used memory is a stray `fbc_next`; and with
no memory for a buffer `cat >` makes a second file of the same name, of which a restart
finds both. The assumptions are `FileAssumption` and, for what is read and shown,
`JunkAssumption`, both evaluated by TLC. `BlocksAreOwnedOnDisk` speaks of the files a
restart would find (`DiskFiles`): of one whose block `fileDelete()` has linked and whose
entry is still in the directory on disk it says nothing, since there the code has two owners
for the block (section 6).

`FilesInv` joins the free list's invariant to the directory. `Taken` is the set of blocks
that are neither in the list nor in the hands of a call; `ListInv(Taken)` lets every lemma
of `FreeListProofs` be used as it is. `Owning` gives each file a block of `Taken` of its
own. An entry that `fileCreate()` has just made still has the block number of the file that
was there before, and is no owner yet (`Creating`); `CommandOK` says what a command knows at
each place in its code, among it where the disk stands before a write. `Saved` says that the
directory on disk has every file that no command is working on exactly as memory has it.
That is not yet enough for a restart, which forgets memory and believes the directory on
disk; `Found` says what else that has. Each file of it is `Ready` (in memory too, and no
command is working on it), or `Leaving` (`fileDelete()` has cleared its entry and
`sbFreeBlock()` has its block and has not linked it on disk), or `Loose` (its entry is
cleared, its block was not given back, and nobody has it); and no two have one block. The
hard step is the write of `sbFreeBlock()` that links the block: `LinksWritten` shows that it
is this write, and none before, with which the block comes into the list on disk, and with
it the file stops being `Leaving`. `FoundApart` concludes that outside `HalfWritten` the
list on disk has no block of these files: for one that is `Leaving` because its block is
still to be linked (`LeavingBlock`). `RestartKeepsFiles` starts from there, so that a
restart in the middle of a delete is covered: the file is in memory again, with its block.

`Reads` adds what the bytes are. `Named` says that no two files have one name in memory,
`NamedOnDisk` the same of what a restart would find, where one that is deleted and a new one
of its name never meet, because the new one is stored by the write of the directory that
forgets the old one. `Whole` says that block and buffer of a file have its bytes, `Knows`
what a command has read or written so far. For the refinement, `FilesShow` says what
`AbsFiles` sees: under its name every file of `DiskFiles`, with its bytes, and in `going`
those that are not `Ready` (`SameIsReady`). A step that leaves that alone is a stutter
(`StoreStays`); all but four kinds are (`ReadsSteps`). `fileDelete()` makes a file going
(`DeleteIsDelete`); the write that links its block makes it gone (`ListStepIsRemove`);
`DirWrite` sweeps what else was deleted and saves one file or none (`DirWriteIsSave`); a
restart has all of them again (`RestartIsStart`). A delete that fails to give its block back
leaves the file going until the next directory is written (`DeleteFreedReads`).

The modules of the proofs that EXTEND `FreeListProofs` have the variables and constants of
`FreeListClients` in scope, `held`, `stops`, `MaxHeld` and `MaxStops`; `FileSystem` does
not use them, and no theorem on files mentions them.

`DaemonInv`, `HeapInv`, `PageInv`, `FreeListInv`, `FilesInv` and `Reads` have no run of
their own: they are defined beside their proofs, and a cfg of the instance with the
invariant in place of its properties checks them on the module of the proofs.

Only model-checked: the liveness properties (`Served`, `QuantumEnds`, `CallsReturn`,
`CommandsEnd`, `Reconnects`), which are beyond the prover; and `OwnBlocks` with two
shells (`files_two`) and with steps that fail (`files_fail`).

## 6. Findings

- `trap_clock`: `sepc` is not saved across the switch a tick causes (stage 6); a process
  that was interrupted goes on where another one trapped last.
- `files_shared`: `fileOpen()` finds an entry without the lock and `fileDelete()`, which
  takes it, does not look at the entry's state: two deletes of one file both free its
  block, which is then twice in the free list.

What bounds and hypotheses keep out. The following contradicts what the code or its comments
say, and the properties the other runs check fail on it. No cfg has these instances; the
constants that differ from the run's are given, with which TLC finds a counterexample.

- `getmem()` rounds the size up in 32 bits and does not look at it again: the last
  sizes below 2^32 wrap to 0, and the caller gets the address of a block of no length, where
  `getmem.c:19` promises the memory or `SYSERR` (`MemorySpec`; `memory` with one process,
  `SIZES` with 63 and `UINT` 64).
- `set_sepc(program_counter+4)` of stages 5 to 7 adds 32 bytes, `program_counter` being a
  `ulong *`, where `dispatch.c:36` says "increment by a word" (`SyscallReturnsNext`; `trap_returns`
  with `Words` 8).
- `sbGetBlock()` reads `sb_freelst` before it waits for the lock. When another caller is
  given the last block of that node in between, the node is freed, and the caller counts
  down in memory that is not its own (`NoStray`; `freelist_two` with 2 blocks in the list
  and `MaxHeld` 4).
- On a full disk `sbFreeBlock()` makes a collector without setting `fbc_next`: the list goes on
  into what `malloc()` left there (`NoStray`; `freelist_one` with 2 blocks in the list and
  `DirtyMalloc`).
- The disk has one position. Free list, directory and files seek and write under `sb_freelock`,
  `sb_dirlock` and no lock, so a write lands where another process has moved the disk
  (`WritesOnTarget`; `files_two`).
- `fileClose()` and `fileDelete()` follow `sb_dirlst` under `sb_dirlock`, while
  `swizzleSuperBlock()` replaces it under `sb_freelock`: a command follows a block number
  and never ends (`CommandsEnd`; `files_two` with 2 blocks in the list).
- `fileDelete()` writes the free list with the block before the directory without the file,
  in the other order than its comment has them (`fileDelete.c:18`); a machine that stops in
  between comes up with a block that is free and a file's (`OwnBlocksOnDisk` over all
  entries of the directory on disk; `files_one` with a create and a delete).

Other behaviour the models show that has no run of its own, because the repository says
nothing clear against it or it follows from one line:

- `nulluser()` kills process 0 and leaves idling to a process it creates, so a reader
  of `proc.h`, where `NULLPROC` is 0, is misled (`FifoSched`).
- `resched()` of stages 6 to 8 draws one process and dequeues another (`LotterySched`).
- An exception of a user process other than a system call returns to the same instruction without a
  report (`Fault`, `dispatch.c:38` and `:49`).
- `mapPage()` tests for `NULL` where `pgalloc()` returns `SYSERR`; `kill()` returns no
  page (`Paging`). A block freed behind an extension of the heap is not joined to
  its neighbour, since the extension stands in front of the list (`UserHeap`).
- A failing write in `sbGetBlock()` returns with the lock taken (`writeFails`). A stop
  between the two writes of `sbFreeBlock()` that make a new collector leaves a list on disk
  that leads into a block that is not one yet (`HalfWritten`). Mostly such a list cannot be
  read; but when the block still holds the collector it was before a restart, it can, and it
  names blocks that are in use or a second time in the list.
- `fileClose()` clears `DIRTY` without looking at the result of the write. `fileCreate()`
  returns the directory lock before the entry has its block, and keeps the entry when
  there is none. `cat >` takes a full memory for a file that does not exist and makes a second one
  of the same name.
- The daemon's loop knows only one of the four forms of the question, and because
  `fgets()` ends a line at the newline the second and the third can never match. At the end of its
  input it repeats its last request.

## 7. Not modelled

Formatting and printing, the registers of UART, PLIC and timer, boot assembly,
`xtrap()` (prints and stops), memory layout of the PCB and stack accounting blocks,
the polled console. The start of the daemon (pipe, fork, growing the disk file).
The error messages of `sbOpen()`, and a start with a disk whose list or directory
cannot be read. The stage 9 kernel is only in the repository as a binary archive: its
semaphores, `malloc()` and disk driver are external and modelled from their use, and the
headers of `src/xinu-hw9/include` belong to it.

Abstractions a reader should know of. A file byte `0xFF`, which `cat` reads as `SYSERR`,
does not occur. The cursor and the data of an entry after a restart are not kept,
because `fileOpen()` sets both. Process 0 has no heap of its own in `UserHeap`, and
processes are not preempted there, as stages 7 and 8 run with `PREEMPT` off. Processes
free what they have, once. No size wraps in `memory`; with one that does, what a
process does with a block of no length, or `getmem()` with a size of 0 when nothing is free, is not
followed. A line to the daemon loses no character, only blocks on their way to it are
damaged, and a damaged character is never a newline, at which `fgets()` would end the line and
the rest would be read as a request.

The map covers a small share of the repository's lines, and cannot cover much more:
half of them (9,400) are headers, with prototypes, register layouts and network formats
in place of steps, and most of the rest is the same kernel copied from stage to stage
(`queue.c`, `ready.c`, `kill.c`, `create.c`, the libraries and boot code), which is mapped
once, in the stage where it has its final form. What is left are the
manual test menus, which make the calls process 0 makes in the models, and the code
listed above.
