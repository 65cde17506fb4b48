---------------------------- MODULE TrapContext -----------------------------
(***************************************************************************)
(* What a user process finds when it comes back from the kernel: traps,    *)
(* system calls, the clock and the context switch of stages 5 to 8         *)
(* (interrupt.S, dispatch.c, ctxsw.S; line numbers of stage 6).            *)
(*                                                                         *)
(* A trap and everything the kernel does until some process runs again is  *)
(* one step, interrupts being off.  Which process that is, resched()       *)
(* decides (LotterySched); here it is any that is alive.  The stages       *)
(* differ in three ways, which are constants.  User code is a loop.        *)
(***************************************************************************)
EXTENDS Integers

CONSTANTS Procs,
          Loop,         \* the length of the loop a process runs, in instructions
          Words,        \* what set_sepc(program_counter+4) adds, in instructions:
                        \* 8 in stages 5 to 7, 1 in stage 8
          Clock,        \* whether the clock preempts: stage 6
          SharedStack   \* whether all traps use one kernel stack: stage 7

ASSUME TrapAssumption == /\ Loop \in Nat \ {0} /\ Words \in Nat
                         /\ Clock \in BOOLEAN /\ SharedStack \in BOOLEAN
                         /\ Procs # {}

VARIABLES currpid,      \* the running process, in user mode
          pc, regs,     \* of the processor: a0, and all the others together
          sepc,
          trap,         \* how a process last left user mode
          frame,        \* swaparea (stage 8) or frame on the stack: saved registers
          kstack,       \* dispatch()'s program_counter and ppcb, per kernel stack
          want          \* history: where and with what a process ought to go on

vars == <<currpid, pc, regs, sepc, trap, frame, kstack, want>>

Text == 0 .. Loop - 1
OK   == "ok"
Arg  == "arg"
State(c, r) == [pc |-> c, regs |-> r]
Regs(p, a)  == [a0 |-> a, rest |-> p]

\* create(): funcaddr, the arguments in a0 to a7 and nothing else.
Entry == 0
Started(p) == State(Entry, Regs(p, Arg))

Alive == {p \in Procs : trap[p] # "dead"}
Stack(p) == IF SharedStack THEN CHOOSE q \in Procs : TRUE ELSE p

Init == /\ currpid \in Procs
        /\ pc = Entry /\ regs = Regs(currpid, Arg) /\ sepc = Entry
        /\ trap = [p \in Procs |-> "first"]
        /\ frame = [p \in Procs |-> Regs(p, Arg)]
        /\ kstack = [p \in Procs |-> [ppcb |-> p, pc |-> Entry]]
        /\ want = [p \in Procs |-> Started(p)]

\* A user instruction; it leaves something else in a0.
User == /\ pc' = (pc + 1) % Loop
        /\ regs' = Regs(regs.rest, Arg)
        /\ want' = [want EXCEPT ![currpid] = State((@.pc + 1) % Loop, Regs(@.regs.rest, Arg))]
        /\ UNCHANGED <<currpid, sepc, trap, frame, kstack>>

-----------------------------------------------------------------------------
(* Entry: interrupt.S saves the registers, dispatch() gets sepc.           *)
Saved       == [frame EXCEPT ![currpid] = regs]
\* Faulty: dispatch() works with the program counter of the trap before.
Kept_OldPc  == [kstack EXCEPT ![Stack(currpid)].ppcb = currpid]
Kept        == [kstack EXCEPT ![Stack(currpid)] = [ppcb |-> currpid, pc |-> pc]]

\* Faulty: the result is left in the kernel.
Answer_None(q, f, k) == f
\* dispatch() after syscall_dispatch(): a0 of the caller, the next instruction.
Answer(q, f, k) == [f EXCEPT ![k[Stack(q)].ppcb] = Regs(@.rest, OK)]
\* Faulty: counts from sepc, which belongs to the last trap.
NextInstr_Last(q, k) == (pc + Words) % Loop
NextInstr(q, k) == (k[Stack(q)].pc + Words) % Loop

\* q leaves the kernel: for the first time from ctxsw(), else from dispatch() and
\* interrupt.S.  The clock handler does not touch sepc, which is that of the trap.
Leave(q, f, k, t) ==
    /\ currpid' = q
    /\ trap' = t
    /\ kstack' = k
    /\ \/ /\ t[q] = "first"
          /\ sepc' = Entry /\ frame' = f /\ regs' = Started(q).regs
       \/ /\ t[q] = "call"
          /\ sepc' = NextInstr(q, k) /\ frame' = Answer(q, f, k) /\ regs' = frame'[q]
       \/ /\ t[q] \notin {"first", "call"}
          /\ sepc' = pc /\ frame' = f /\ regs' = f[q]
    /\ pc' = sepc'

-----------------------------------------------------------------------------
Called == State((pc + 1) % Loop, Regs(regs.rest, OK))

\* A system call that returns at once: none, putc, getc.
Ecall == /\ Leave(currpid, Saved, Kept, [trap EXCEPT ![currpid] = "call"])
         /\ want' = [want EXCEPT ![currpid] = Called]

\* sc_yield(): resched() inside the system call.
Yield == /\ \E q \in Alive : Leave(q, Saved, Kept, [trap EXCEPT ![currpid] = "call"])
         /\ want' = [want EXCEPT ![currpid] = Called]

\* sc_kill(): the frames of the caller are never used again.
Exit == /\ \E q \in Alive \ {currpid} :
               Leave(q, Saved, Kept, [trap EXCEPT ![currpid] = "dead"])
        /\ UNCHANGED want

\* A tick, with the quantum over or not.
Tick == /\ Clock
        /\ \E q \in Alive : Leave(q, Saved, Kept, [trap EXCEPT ![currpid] = "interrupt"])
        /\ want' = [want EXCEPT ![currpid] = State(pc, regs)]

\* dispatch() for an exception that is no system call: only causes 9 and 11 reach
\* xtrap(), which stops the machine, and a user process raises neither; the others
\* return to where they came from.
UserFaults == {0, 1, 2, 3, 4, 5, 6, 7, 12, 13, 15}
Reported(cause) == cause > 0 /\ cause \in {9, 11}
Fault == /\ \E cause \in UserFaults : ~ Reported(cause)
         /\ Leave(currpid, Saved, Kept, [trap EXCEPT ![currpid] = "interrupt"])
         /\ want' = [want EXCEPT ![currpid] = State(pc, regs)]

Next == User \/ Ecall \/ Yield \/ Exit \/ Tick \/ Fault
Spec == Init /\ [][Next]_vars

-----------------------------------------------------------------------------
\* Every variable has its type, and a process that was killed never runs again.
TypeOK == /\ currpid \in Procs /\ trap[currpid] # "dead"
          /\ {pc, sepc} \subseteq Text
          /\ regs \in [a0 : {OK, Arg}, rest : Procs]
          /\ trap \in [Procs -> {"first", "call", "interrupt", "dead"}]
          /\ frame \in [Procs -> [a0 : {OK, Arg}, rest : Procs]]
          /\ kstack \in [Procs -> [ppcb : Procs, pc : Text]]
          /\ want \in [Procs -> [pc : Text, regs : [a0 : {OK, Arg}, rest : Procs]]]

\* Whatever other processes did meanwhile, a process comes back from the kernel
\* with its own registers, and with the result in a0 after a system call.
RegistersKept == regs = want[currpid].regs

\* After a system call a process goes on at the instruction behind the ecall.
SyscallReturnsNext == trap[currpid] = "call" => pc = want[currpid].pc

\* A process that was interrupted goes on at the instruction it was about to run.
ClockTransparent == trap[currpid] = "interrupt" => pc = want[currpid].pc

\* What the kernel keeps of a process that does not run is what it needs to go on:
\* its own registers, and after a system call its own place in dispatch().
Parked(p) ==
    /\ trap[p] = "first"     => want[p] = Started(p)
    /\ trap[p] = "call"      => /\ want[p].regs = Regs(frame[p].rest, OK)
                                /\ want[p].pc = (kstack[p].pc + 1) % Loop
                                /\ kstack[p].ppcb = p
    /\ trap[p] = "interrupt" => want[p].regs = frame[p]
AllParked == \A p \in Alive \ {currpid} : Parked(p)

\* The invariant of the proofs.
TrapInv == TypeOK /\ AllParked /\ RegistersKept /\ SyscallReturnsNext
=============================================================================
