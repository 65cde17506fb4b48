---------------------------- MODULE LotterySched ----------------------------
(***************************************************************************)
(* The preemptive lottery scheduler of stage 6 (xinu-hw6).  resched()      *)
(* draws a ticket among the processes whose state is PRREADY and runs its  *)
(* owner; it then takes the first process off the ready list, which need   *)
(* not be the one it runs.  The clock interrupt calls resched() every      *)
(* QUANTUM ticks of a user process; kernel code, process 0 included, runs  *)
(* with interrupts off.  Stages 7 and 8 have the same resched() without    *)
(* the clock.                                                              *)
(***************************************************************************)
EXTENDS ReadyQueue, FiniteSets

CONSTANTS NSTK,         \* stacks between the kernel image and the top of memory
          MaxCreate,    \* how many times main may call create()
          Priorities,   \* the tickets main gives to processes
          RANDMAX,      \* random() draws from the upper 16 bits of its seed
          QUANTUM       \* clock ticks until preemption

ASSUME LotteryAssumption == /\ NSTK \in Nat /\ MaxCreate \in Nat
                            /\ Priorities \subseteq Nat \ {0}
                            /\ RANDMAX \in Nat \ {0}
                            /\ QUANTUM \in Nat \ {0}

VARIABLES state,        \* proctab[].state
          tickets,      \* proctab[].tickets
          queuetab,     \* links of the ready list
          currpid,      \* the running process; NPROC once pickWin() found none
          numproc,      \* number of live processes
          nextpid,      \* static of newpid(), where its last search stopped
          stacks,       \* calls of getstk(); stacks are never given back
          mainpc,       \* where process 0 is inside nulluser()
          prnull,       \* what create() returned for nullproc(), or NotYet
          preempt       \* ticks left of the quantum

vars == <<state, tickets, queuetab, currpid, numproc, nextpid, stacks, mainpc,
          prnull, preempt>>

NotYet  == -3           \* create(nullproc) not called yet; no return value
MainPcs == {"xmain", "ready", "kill", "gone"}

TypeOK == /\ state \in [Pids -> States]
          /\ tickets \in [Pids -> Nat]
          /\ queuetab \in Table
          /\ currpid \in Pids \cup {NPROC}
          /\ numproc \in Int
          /\ nextpid \in Pids
          /\ stacks \in 0 .. MaxCreate + 1
          /\ mainpc \in MainPcs
          /\ prnull \in Pids \cup {SYSERR, NotYet}
          /\ preempt \in 1 .. QUANTUM

\* sysinit() and clkinit()
Init == /\ state = [p \in Pids |-> IF p = NULLPROC THEN PRCURR ELSE PRFREE]
        /\ tickets = [p \in Pids |-> IF p = NULLPROC THEN 1 ELSE 0]
        /\ queuetab = newqueue
        /\ currpid = NULLPROC
        /\ numproc = 1
        /\ nextpid = 0
        /\ stacks = 0
        /\ mainpc = "xmain"
        /\ prnull = NotYet
        /\ preempt = QUANTUM

-----------------------------------------------------------------------------
(* The draw.                                                               *)

\* The tickets of the ready processes 0 .. i, for each i: the running sum of
\* both totalTickets() and pickWin().
counter(st) ==
    LET sum[i \in Pids] == (IF i = 0 THEN 0 ELSE sum[i - 1])
                           + (IF st[i] = PRREADY THEN tickets[i] ELSE 0)
    IN  sum

totalTickets(st) == counter(st)[NPROC - 1]

\* random(max) that can return max (faulty).
random_Inclusive(max) == {r % (max + 1) : r \in 0 .. RANDMAX - 1}

\* The values random(max) can return.  The remainder by zero is the dividend
\* on this processor.
random(max) == IF max = 0 THEN 0 .. RANDMAX - 1 ELSE {r % max : r \in 0 .. RANDMAX - 1}

\* pickWin() that stops at a process of any state (faulty).
pickWin_AnyState(i, st, winner) ==
    \/ /\ i \in Pids
       /\ counter(st)[i] > winner
    \/ /\ i = NPROC
       /\ counter(st)[NPROC - 1] <= winner

\* pickWin() that compares with >= (faulty).
pickWin_OffByOne(i, st, winner) ==
    \/ /\ i \in Pids
       /\ st[i] = PRREADY
       /\ counter(st)[i] >= winner
       /\ \A j \in 0 .. i - 1 : st[j] = PRREADY => counter(st)[j] < winner
    \/ /\ i = NPROC
       /\ \A j \in Pids : st[j] = PRREADY => counter(st)[j] < winner

\* pickWin() returns i when random() returned winner: the first ready process
\* whose running sum exceeds it, NPROC when there is none.
pickWin(i, st, winner) ==
    \/ /\ i \in Pids
       /\ st[i] = PRREADY
       /\ counter(st)[i] > winner
       /\ \A j \in 0 .. i - 1 : st[j] = PRREADY => counter(st)[j] <= winner
    \/ /\ i = NPROC
       /\ \A j \in Pids : st[j] = PRREADY => counter(st)[j] <= winner

-----------------------------------------------------------------------------
(* Faulty variants, for the sensitivity checks.                            *)

\* resched() that does not start a new quantum.
resched_SameQuantum(st, qt) ==
    LET again == st[currpid] = PRCURR
        st1   == IF again THEN [st EXCEPT ![currpid] = PRREADY] ELSE st
        qt1   == IF again THEN enqueue(qt, st1, currpid) ELSE qt
    IN  \E winner \in random(totalTickets(st1)) :
           /\ \E i \in Pids \cup {NPROC} : pickWin(i, st1, winner) /\ currpid' = i
           /\ queuetab' = dequeue(qt1, st1)
           /\ state' = [p \in Pids |-> IF p = currpid' THEN PRCURR ELSE st1[p]]
           /\ UNCHANGED preempt

\* nulluser() that never makes the null process ready.
ReadyNull_Skips == /\ mainpc = "ready"
                   /\ mainpc' = "kill"
                   /\ UNCHANGED <<state, tickets, queuetab, currpid, numproc, nextpid,
                                  stacks, prnull, preempt>>

-----------------------------------------------------------------------------
(* The kernel functions.                                                   *)

\* create(..., priority, ...) returns r.  The stack is taken before the slot,
\* and kept when there is no slot; a slot found without a stack moves nextpid.
create(r, priority) ==
    /\ stacks' = stacks + 1
    /\ \/ /\ \A p \in Pids : state[p] # PRFREE
          /\ r = SYSERR
          /\ UNCHANGED <<state, tickets, numproc, nextpid>>
       \/ \E p \in Pids :
             /\ newpid(p, state, nextpid)
             /\ nextpid' = p
             /\ IF stacks < NSTK
                THEN /\ r = p
                     /\ numproc' = numproc + 1
                     /\ state' = [state EXCEPT ![p] = PRSUSP]
                     /\ tickets' = [tickets EXCEPT ![p] = priority]
                ELSE r = SYSERR /\ UNCHANGED <<state, tickets, numproc>>

\* resched(), entered with the process states st and the table qt.  NPROC, the
\* index pickWin() falls off the table with, is no process: the write of
\* PRCURR lands behind proctab and nothing is left to run.
resched(st, qt) ==
    LET again == st[currpid] = PRCURR
        st1   == IF again THEN [st EXCEPT ![currpid] = PRREADY] ELSE st
        qt1   == IF again THEN enqueue(qt, st1, currpid) ELSE qt
    IN  \E winner \in random(totalTickets(st1)) :
           /\ \E i \in Pids \cup {NPROC} : pickWin(i, st1, winner) /\ currpid' = i
           /\ queuetab' = dequeue(qt1, st1)
           /\ state' = [p \in Pids |-> IF p = currpid' THEN PRCURR ELSE st1[p]]
           /\ preempt' = QUANTUM

\* ready(pid, resch)
ready(pid, resch) ==
    LET st1 == [state EXCEPT ![pid] = PRREADY]
        qt1 == enqueue(queuetab, st1, pid)
    IN  IF resch THEN resched(st1, qt1)
        ELSE state' = st1 /\ queuetab' = qt1 /\ UNCHANGED <<currpid, preempt>>

\* kill(currpid)
killself == /\ numproc' = numproc - 1
            /\ resched([state EXCEPT ![currpid] = PRFREE], queuetab)

\* kill(pid) of a process that is not running
killother(pid) ==
    /\ numproc' = numproc - 1
    /\ state' = [state EXCEPT ![pid] = PRFREE]
    /\ queuetab' = IF state[pid] = PRREADY THEN remove(queuetab, state, pid)
                   ELSE queuetab
    /\ UNCHANGED <<currpid, preempt>>

-----------------------------------------------------------------------------
(* Process 0: xmain(), then the end of nulluser().                         *)

MainRuns == currpid = NULLPROC /\ mainpc = "xmain"

MainCreate == /\ MainRuns
              /\ stacks < MaxCreate
              /\ \E r \in Pids \cup {SYSERR}, t \in Priorities : create(r, t)
              /\ UNCHANGED <<queuetab, currpid, mainpc, prnull, preempt>>

\* Callers of ready() pass a process they just created.
MainReady(p, resch) == /\ MainRuns
                       /\ state[p] = PRSUSP
                       /\ ready(p, resch)
                       /\ UNCHANGED <<tickets, numproc, nextpid, stacks, mainpc, prnull>>

MainResched == /\ MainRuns
               /\ resched(state, queuetab)
               /\ UNCHANGED <<tickets, numproc, nextpid, stacks, mainpc, prnull>>

MainKill(p) == /\ MainRuns
               /\ p # NULLPROC
               /\ ~isbadpid(p, state)
               /\ killother(p)
               /\ UNCHANGED <<tickets, nextpid, stacks, mainpc, prnull>>

\* xmain() returned: create(nullproc) with one ticket, then ready() of what it
\* returned, which refuses SYSERR, then kill(0).  Nothing runs in between.
CreateNull == /\ MainRuns
              /\ \E r \in Pids \cup {SYSERR} : create(r, 1) /\ prnull' = r
              /\ mainpc' = "ready"
              /\ UNCHANGED <<queuetab, currpid, preempt>>

ReadyNull == /\ mainpc = "ready"
             /\ mainpc' = "kill"
             /\ IF prnull = SYSERR THEN UNCHANGED <<state, queuetab, currpid, preempt>>
                ELSE ready(prnull, FALSE)
             /\ UNCHANGED <<tickets, numproc, nextpid, stacks, prnull>>

KillMain == /\ mainpc = "kill"
            /\ mainpc' = "gone"
            /\ killself
            /\ UNCHANGED <<tickets, nextpid, stacks, prnull>>

-----------------------------------------------------------------------------
(* The other processes, in user mode.                                      *)

UserRuns == currpid \in Pids \ {NULLPROC}

UserYield == /\ UserRuns
             /\ resched(state, queuetab)
             /\ UNCHANGED <<tickets, numproc, nextpid, stacks, mainpc, prnull>>

\* user_kill(), called by the process or by userret() when it returns;
\* nullproc() does neither.
UserKill == /\ UserRuns
            /\ currpid # prnull
            /\ killself
            /\ UNCHANGED <<tickets, nextpid, stacks, mainpc, prnull>>

\* clkhandler(), with the conversion of ticks to seconds left out.
clkhandler == /\ UserRuns
              /\ IF preempt - 1 <= 0 THEN resched(state, queuetab)
                 ELSE preempt' = preempt - 1 /\ UNCHANGED <<state, queuetab, currpid>>
              /\ UNCHANGED <<tickets, numproc, nextpid, stacks, mainpc, prnull>>

Next == \/ MainCreate
        \/ \E p \in Pids : \/ MainReady(p, TRUE)
                           \/ MainReady(p, FALSE)
                           \/ MainKill(p)
        \/ MainResched
        \/ CreateNull
        \/ ReadyNull
        \/ KillMain
        \/ UserYield
        \/ UserKill
        \/ clkhandler

Spec == Init /\ [][Next]_vars

\* The timer keeps interrupting whoever is in user mode; no user process is
\* assumed to make a system call.
FairSpec == Spec /\ WF_vars(clkhandler)

-----------------------------------------------------------------------------
(* Properties.                                                             *)

InState(s) == {p \in Pids : state[p] = s}

\* Although the list and the states drift apart, the links never lead out of
\* the table: whatever a process's entry holds, enqueue(), remove() and
\* dequeue() write inside queuetab.
InTable(qt) == /\ \A p \in Pids : /\ qt[p].next \in Pids \cup {TAIL}
                                   /\ qt[p].prev \in Pids \cup {HEAD}
               /\ qt[HEAD].next \in Pids \cup {TAIL}
               /\ qt[TAIL].prev \in Pids \cup {HEAD}
LinksInTable == InTable(queuetab)

\* The process that owns the processor is the only one marked PRCURR.
CurrUnique == InState(PRCURR) = {currpid} \cap Pids

\* numproc, on which xmain() waits, counts the slots in use.
NumprocExact == numproc = Cardinality(Pids \ InState(PRFREE))

\* The draw always finds a process, from boot on, unless the null process
\* could not be created; and the null process stays running or ready.
DrawSucceeds ==
    \/ prnull = SYSERR
    \/ /\ currpid \in Pids
       /\ prnull \in Pids /\ mainpc \in {"kill", "gone"}
             => state[prnull] \in {PRCURR, PRREADY}

\* What nulluser() relies on between its last three calls, and what it leaves: until
\* process 0 is gone it can run, the null process is suspended when ready() is
\* called for it, and running or ready ever after.
BootInv ==
    /\ mainpc = "xmain" => prnull = NotYet /\ stacks <= MaxCreate
    /\ mainpc \in {"ready", "kill"} => currpid = NULLPROC
    /\ mainpc # "gone" => state[NULLPROC] \in {PRCURR, PRREADY}
    /\ mainpc # "xmain" => prnull # NotYet /\ prnull # NULLPROC
    /\ prnull \in Pids => /\ mainpc = "ready" => state[prnull] = PRSUSP
                          /\ mainpc \in {"kill", "gone"}
                                => state[prnull] \in {PRCURR, PRREADY}

\* Nobody who can be drawn is without a ticket.
TicketsHeld == \A p \in Pids \ InState(PRFREE) : tickets[p] > 0

\* The inductive invariant of the proofs.
LotteryInv == /\ TypeOK /\ LinksInTable /\ CurrUnique /\ NumprocExact
              /\ BootInv /\ TicketsHeld /\ DrawSucceeds

\* While all tickets fit the range of random(), every ready process can win
\* the next draw, and the share of the draws it wins is its share of tickets.
EveryTicketCounts ==
    totalTickets(state) \in 1 .. RANDMAX =>
        \A p \in InState(PRREADY) :
            Cardinality({w \in random(totalTickets(state)) : pickWin(p, state, w)})
              = tickets[p]

\* A user process that has used part of its quantum does not keep the
\* processor past the end of it, even if it never calls the kernel.
QuantumEnds == UserRuns /\ preempt < QUANTUM ~> preempt = QUANTUM

\* Whatever the list holds, the scheduler behaves as one that draws from the
\* set of ready processes.
Abs == INSTANCE AbsLottery WITH Procs <- Pids, Main <- NULLPROC, NoProc <- NPROC,
                                run <- currpid, runnable <- InState(PRREADY),
                                parked <- InState(PRSUSP)
DrawsAmongReady == Abs!AbsSpec
=============================================================================
