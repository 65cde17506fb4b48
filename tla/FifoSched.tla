------------------------------ MODULE FifoSched -----------------------------
(***************************************************************************)
(* The process manager and round-robin scheduler of stage 5 (xinu-hw5):    *)
(* create, ready, resched, kill, the system calls yield and kill, and      *)
(* nulluser(), which boots as process 0, runs xmain(), creates the null    *)
(* process and kills itself.                                               *)
(*                                                                         *)
(* The kernel runs with interrupts off, so every call into it is one step. *)
(* Between two calls the only thing that moves is the process that has the *)
(* processor; process 0 (main) is kernel code and calls the kernel         *)
(* directly, the others trap into it.                                      *)
(***************************************************************************)
EXTENDS ReadyQueue, FiniteSets

CONSTANTS NSTK,         \* stacks between the kernel image and the top of memory
          MaxCreate     \* how many times main may call create()

ASSUME BoundsAssumption == NSTK \in Nat /\ MaxCreate \in Nat

VARIABLES state,        \* proctab[].state
          queuetab,     \* links of the ready list
          currpid,      \* the running process; EMPTY once resched() found none
          numproc,      \* number of live processes
          nextpid,      \* static of newpid(), where its last search stopped
          stacks,       \* calls of getstk(); stacks are never given back
          mainpc,       \* where process 0 is inside nulluser()
          prnull        \* what create() returned for nullproc(), or NotYet

vars == <<state, queuetab, currpid, numproc, nextpid, stacks, mainpc, prnull>>

NotYet  == -3           \* create(nullproc) not called yet; no return value
MainPcs == {"xmain", "ready", "kill", "gone"}

TypeOK == /\ state \in [Pids -> States]
          /\ queuetab \in Table
          /\ currpid \in Pids \cup {EMPTY}
          /\ numproc \in Int
          /\ nextpid \in Pids
          /\ stacks \in 0 .. MaxCreate + 1
          /\ mainpc \in MainPcs
          /\ prnull \in Pids \cup {SYSERR, NotYet}

\* sysinit()
Init == /\ state = [p \in Pids |-> IF p = NULLPROC THEN PRCURR ELSE PRFREE]
        /\ queuetab = newqueue
        /\ currpid = NULLPROC
        /\ numproc = 1
        /\ nextpid = 0
        /\ stacks = 0
        /\ mainpc = "xmain"
        /\ prnull = NotYet

-----------------------------------------------------------------------------
(* Faulty variants, for the sensitivity checks.                            *)

\* resched() that forgets to requeue the current process.
resched_RequeuesNever(st, qt) ==
    LET st1 == [st EXCEPT ![currpid] = IF @ = PRCURR THEN PRREADY ELSE @]
    IN  /\ currpid' = dequeued(qt)
        /\ state' = [p \in Pids |-> IF p = dequeued(qt) THEN PRCURR ELSE st1[p]]
        /\ queuetab' = dequeue(qt, st1)

\* kill() that frees the slot of a ready process and leaves it on the list.
killother_Unlisted(pid) ==
    /\ numproc' = numproc - 1
    /\ state' = [state EXCEPT ![pid] = PRFREE]
    /\ UNCHANGED <<queuetab, currpid>>

-----------------------------------------------------------------------------
(* The kernel functions.                                                   *)

\* create() returns r.  The stack is taken before the slot, and kept when
\* there is no slot; a slot found without a stack moves nextpid.
create(r) ==
    /\ stacks' = stacks + 1
    /\ \/ /\ \A p \in Pids : state[p] # PRFREE
          /\ r = SYSERR
          /\ UNCHANGED <<state, numproc, nextpid>>
       \/ \E p \in Pids :
             /\ newpid(p, state, nextpid)
             /\ nextpid' = p
             /\ IF stacks < NSTK
                THEN /\ r = p
                     /\ numproc' = numproc + 1
                     /\ state' = [state EXCEPT ![p] = PRSUSP]
                ELSE r = SYSERR /\ UNCHANGED <<state, numproc>>

\* resched(), entered with the process states st and the table qt.  With an
\* empty list the C code indexes proctab with EMPTY: the write lands outside
\* the table and no process is left to run.
resched(st, qt) ==
    LET again == st[currpid] = PRCURR
        st1   == IF again THEN [st EXCEPT ![currpid] = PRREADY] ELSE st
        qt1   == IF again THEN enqueue(qt, st1, currpid) ELSE qt
    IN  /\ currpid' = dequeued(qt1)
        /\ state' = [p \in Pids |-> IF p = dequeued(qt1) THEN PRCURR ELSE st1[p]]
        /\ queuetab' = dequeue(qt1, st1)

\* ready(pid, resch)
ready(pid, resch) ==
    LET st1 == [state EXCEPT ![pid] = PRREADY]
        qt1 == enqueue(queuetab, st1, pid)
    IN  IF resch THEN resched(st1, qt1)
        ELSE state' = st1 /\ queuetab' = qt1 /\ UNCHANGED currpid

\* kill(currpid)
killself == /\ numproc' = numproc - 1
            /\ resched([state EXCEPT ![currpid] = PRFREE], queuetab)

\* kill(pid) of a process that is not running
killother(pid) ==
    /\ numproc' = numproc - 1
    /\ state' = [state EXCEPT ![pid] = PRFREE]
    /\ queuetab' = IF state[pid] = PRREADY THEN remove(queuetab, state, pid)
                   ELSE queuetab
    /\ UNCHANGED currpid

-----------------------------------------------------------------------------
(* Process 0: xmain(), then the end of nulluser().                         *)

MainRuns == currpid = NULLPROC /\ mainpc = "xmain"

MainCreate == /\ MainRuns
              /\ stacks < MaxCreate
              /\ \E r \in Pids \cup {SYSERR} : create(r)
              /\ UNCHANGED <<queuetab, currpid, mainpc, prnull>>

\* Callers of ready() pass a process they just created.
MainReady(p, resch) == /\ MainRuns
                       /\ state[p] = PRSUSP
                       /\ ready(p, resch)
                       /\ UNCHANGED <<numproc, nextpid, stacks, mainpc, prnull>>

MainResched == /\ MainRuns
               /\ resched(state, queuetab)
               /\ UNCHANGED <<numproc, nextpid, stacks, mainpc, prnull>>

MainKill(p) == /\ MainRuns
               /\ p # NULLPROC
               /\ ~isbadpid(p, state)
               /\ killother(p)
               /\ UNCHANGED <<nextpid, stacks, mainpc, prnull>>

\* xmain() returned: create(nullproc), then ready() of what it returned, which
\* refuses SYSERR, then kill(0).  Nothing else runs between the three.
CreateNull == /\ MainRuns
              /\ \E r \in Pids \cup {SYSERR} : create(r) /\ prnull' = r
              /\ mainpc' = "ready"
              /\ UNCHANGED <<queuetab, currpid>>

ReadyNull == /\ mainpc = "ready"
             /\ mainpc' = "kill"
             /\ IF prnull = SYSERR THEN UNCHANGED <<state, queuetab, currpid>>
                ELSE ready(prnull, FALSE)
             /\ UNCHANGED <<numproc, nextpid, stacks, prnull>>

KillMain == /\ mainpc = "kill"
            /\ mainpc' = "gone"
            /\ killself
            /\ UNCHANGED <<nextpid, stacks, prnull>>

-----------------------------------------------------------------------------
(* The other processes.                                                    *)

UserRuns == currpid \in Pids \ {NULLPROC}

UserYield == /\ UserRuns
             /\ resched(state, queuetab)
             /\ UNCHANGED <<numproc, nextpid, stacks, mainpc, prnull>>

\* user_kill(), called by the process or by userret() when it returns;
\* nullproc() does neither.
UserKill == /\ UserRuns
            /\ currpid # prnull
            /\ killself
            /\ UNCHANGED <<nextpid, stacks, mainpc, prnull>>

Next == \/ MainCreate
        \/ \E p \in Pids : \/ MainReady(p, TRUE)
                           \/ MainReady(p, FALSE)
                           \/ MainKill(p)
        \/ MainResched
        \/ CreateNull
        \/ ReadyNull
        \/ KillMain
        \/ UserYield
        \/ UserKill

Spec     == Init /\ [][Next]_vars
FairSpec == Spec /\ WF_vars(Next)

-----------------------------------------------------------------------------
(* Properties.                                                             *)

InState(s) == {p \in Pids : state[p] = s}

\* Following the links of the ready list meets exactly the processes whose
\* state is PRREADY, each once ("PRREADY: process is on ready queue", and the
\* third invariant of queue.h), through every mix of enqueue, dequeue and
\* the unlinking of a killed process.
ReadyIffListed == WellFormed(queuetab) /\ Listed(queuetab) = InState(PRREADY)

\* The doubly linked structure behind it: forward and backward links are
\* inverse to each other over the ready processes.
ReadyLinked == Linked(queuetab, InState(PRREADY))

\* The running process is the one and only PRCURR process: resched() marks the
\* process it switches to and no other.
CurrUnique == InState(PRCURR) = IF currpid = EMPTY THEN {} ELSE {currpid}

\* numproc, on which xmain() waits, counts the slots in use, whatever way
\* processes came and went.
NumprocExact == numproc = Cardinality(Pids \ InState(PRFREE))

\* Once nulluser() has given up the processor there is always something to
\* run, unless the null process could not be created; and the null process
\* itself never leaves the running or ready state.
AlwaysEligible ==
    mainpc = "gone" =>
        IF prnull = SYSERR THEN currpid = EMPTY => InState(PRREADY) = {}
        ELSE /\ currpid \in Pids
             /\ state[prnull] \in {PRCURR, PRREADY}

\* What nulluser() relies on from one kernel call to the next: process 0 holds
\* the processor until it kills itself, and the null process it created is
\* suspended when ready() is called for it and can run when process 0 goes.
BootInv ==
    /\ mainpc = "xmain" => stacks <= MaxCreate
    /\ mainpc \in {"ready", "kill"} => currpid = NULLPROC
    /\ mainpc \in {"xmain", "ready", "kill"} => prnull # NULLPROC
    /\ mainpc = "xmain" <=> prnull = NotYet
    /\ mainpc = "ready" /\ prnull # SYSERR => state[prnull] = PRSUSP
    /\ mainpc = "kill"  /\ prnull # SYSERR => state[prnull] = PRREADY
    /\ mainpc = "gone"  /\ prnull # SYSERR => state[prnull] \in {PRCURR, PRREADY}

\* The inductive invariant: together these survive every kernel call, and none
\* of ReadyLinked, CurrUnique and NumprocExact does without the others.
IInv == TypeOK /\ ReadyLinked /\ CurrUnique /\ NumprocExact /\ BootInv

\* A ready process is eventually served (or killed) as long as the running
\* ones keep yielding or exiting.
Served == \A p \in Pids : state[p] = PRREADY ~> state[p] \in {PRCURR, PRFREE}

\* The list and the states together are a round-robin queue.
Abs == INSTANCE AbsSched WITH Procs <- Pids, Main <- NULLPROC, NoProc <- EMPTY,
                              run <- currpid, rq <- ReadySeq(queuetab),
                              parked <- InState(PRSUSP)
RoundRobin == Abs!AbsSpec
=============================================================================
