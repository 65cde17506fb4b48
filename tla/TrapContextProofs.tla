------------------------- MODULE TrapContextProofs --------------------------
(***************************************************************************)
(* For any number of processes: with a kernel stack per process, a process *)
(* comes back from the kernel with its registers, and where set_sepc()     *)
(* adds one instruction it comes back behind its system call.              *)
(***************************************************************************)
EXTENDS TrapContext, TLAPS

\* The kernel of stage 8, with or without a clock.
StageEight == Words = 1 /\ ~ SharedStack

USE TrapAssumption

Regfile == [a0 : {OK, Arg}, rest : Procs]

\* The program counter wraps inside the loop.
LEMMA WrapInText == ASSUME NEW n \in Nat PROVE n % Loop \in Text
  BY DEF Text

\* A process's registers are a register file.
LEMMA RegsTyped == ASSUME NEW p \in Procs, NEW a \in {OK, Arg} PROVE Regs(p, a) \in Regfile
  BY DEF Regs, Regfile

\* The invariant holds at the start.
LEMMA InitTrapInv == Init => TrapInv
<1> SUFFICES ASSUME Init PROVE TrapInv
  OBVIOUS
<1>1. Entry \in Text
  BY DEF Text, Entry
<1>2. \A p \in Procs : Regs(p, Arg) \in Regfile
  BY RegsTyped
<1>3. currpid \in Alive
  BY DEF Init, Alive
<1>4. TypeOK
  BY <1>1, <1>2, <1>3 DEF Init, TypeOK, Regfile, Started, State
<1>5. AllParked /\ RegistersKept /\ SyscallReturnsNext
  BY DEF Init, AllParked, Parked, Alive, RegistersKept, SyscallReturnsNext, Started, State
<1> QED BY <1>4, <1>5 DEF TrapInv

\* An instruction in user mode preserves the invariant.
LEMMA UserKeeps == TrapInv /\ User => TrapInv'
<1> SUFFICES ASSUME TrapInv, User PROVE TrapInv'
  OBVIOUS
<1> USE DEF TrapInv, User, State
<1>1. /\ want[currpid].pc \in Text /\ pc \in Text /\ currpid \in Procs
  BY DEF TypeOK, Alive
<1>2. /\ (pc + 1) % Loop \in Text /\ (want[currpid].pc + 1) % Loop \in Text
  <2> HIDE DEF TrapInv, User
  <2>1. /\ want[currpid].pc + 1 \in Nat /\ pc + 1 \in Nat
    BY <1>1 DEF Text
  <2> QED BY <2>1, WrapInText
<1>3. regs' \in Regfile /\ Regs(want[currpid].regs.rest, Arg) \in Regfile
  BY <1>1 DEF TypeOK, Regfile, Regs
<1>4. /\ want'[currpid] = State((want[currpid].pc + 1) % Loop, Regs(want[currpid].regs.rest, Arg))
      /\ \A p \in Procs \ {currpid} : want'[p] = want[p]
  BY <1>1 DEF TypeOK
<1>5. want' \in [Procs -> [pc : Text, regs : Regfile]]
  BY <1>1, <1>2, <1>3 DEF TypeOK, Regfile
<1>6. TypeOK'
  BY <1>1, <1>2, <1>3, <1>5 DEF TypeOK, Alive, Regfile
<1>7. AllParked'
  BY <1>4 DEF AllParked, Parked, Alive, Started
<1>8. RegistersKept' /\ SyscallReturnsNext'
  BY <1>4 DEF RegistersKept, SyscallReturnsNext
<1> QED BY <1>6, <1>7, <1>8

\* A trap of the running process that ends with q in user mode.
LEMMA LeaveKeeps ==
  ASSUME StageEight, TrapInv,
         NEW kind \in {"call", "interrupt", "dead"}, NEW q \in Procs,
         q = currpid => kind # "dead", trap[q] # "dead",
         Leave(q, Saved, Kept, [trap EXCEPT ![currpid] = kind]),
         kind = "call" => want' = [want EXCEPT ![currpid] = Called],
         kind = "interrupt" => want' = [want EXCEPT ![currpid] = State(pc, regs)],
         kind = "dead" => want' = want
  PROVE  TrapInv'
<1> USE DEF TrapInv, State
<1> DEFINE r == currpid
           t == [trap EXCEPT ![r] = kind]
<1>1. r \in Procs /\ pc \in Text /\ regs \in Regfile
  BY DEF TypeOK, Alive, Regfile
<1>2. /\ Saved \in [Procs -> Regfile] /\ Saved[r] = regs
      /\ \A p \in Procs \ {r} : Saved[p] = frame[p]
  BY <1>1 DEF Saved, TypeOK, Regfile
<1>3. /\ Kept \in [Procs -> [ppcb : Procs, pc : Text]]
      /\ Kept[r] = [ppcb |-> r, pc |-> pc]
      /\ \A p \in Procs \ {r} : Kept[p] = kstack[p]
  BY <1>1 DEF Kept, Stack, TypeOK, StageEight
<1>4. /\ t \in [Procs -> {"first", "call", "interrupt", "dead"}] /\ t[r] = kind
      /\ \A p \in Procs \ {r} : t[p] = trap[p]
  BY <1>1 DEF TypeOK
<1>5. (pc + 1) % Loop \in Text
  BY <1>1, WrapInText DEF Text
<1>6. Called \in [pc : Text, regs : Regfile] /\ State(pc, regs) \in [pc : Text, regs : Regfile]
  BY <1>1, <1>5 DEF Called, Regfile, Regs
<1>7. /\ want' \in [Procs -> [pc : Text, regs : Regfile]]
      /\ kind = "call" => want'[r] = Called
      /\ kind = "interrupt" => want'[r] = State(pc, regs)
      /\ \A p \in Procs \ {r} : want'[p] = want[p]
  BY <1>1, <1>6 DEF TypeOK, Regfile
\* What the kernel keeps after the trap and before q leaves.
<1>8. \A p \in Procs :
        /\ t[p] = "first"     => want'[p] = Started(p)
        /\ t[p] = "call"      => /\ want'[p].regs = Regs(Saved[p].rest, OK)
                                 /\ want'[p].pc = (Kept[p].pc + 1) % Loop
                                 /\ Kept[p].ppcb = p
        /\ t[p] = "interrupt" => want'[p].regs = Saved[p]
  <2> SUFFICES ASSUME NEW p \in Procs
               PROVE /\ t[p] = "first"     => want'[p] = Started(p)
                     /\ t[p] = "call"      => /\ want'[p].regs = Regs(Saved[p].rest, OK)
                                              /\ want'[p].pc = (Kept[p].pc + 1) % Loop
                                              /\ Kept[p].ppcb = p
                     /\ t[p] = "interrupt" => want'[p].regs = Saved[p]
    OBVIOUS
  <2>1. CASE p = r
    BY <2>1, <1>2, <1>3, <1>4, <1>7 DEF Called
  <2>2. CASE p # r
    <3>1. trap[p] # "dead" => Parked(p)
      BY <2>2 DEF AllParked, Alive
    <3> QED BY <2>2, <3>1, <1>2, <1>3, <1>4, <1>7 DEF Parked
  <2> QED BY <2>1, <2>2
<1>9. /\ currpid' = q /\ trap' = t /\ kstack' = Kept /\ pc' = sepc'
      /\ t[q] # "dead"
  BY <1>1, <1>4 DEF Leave
<1>10. Stack(q) = q
  BY DEF Stack, StageEight
<1>11. /\ frame' \in [Procs -> Regfile] /\ regs' \in Regfile /\ sepc' \in Text
       /\ \A p \in Procs \ {q} : frame'[p] = Saved[p]
       /\ regs' = want'[q].regs
       /\ t[q] = "call" => sepc' = want'[q].pc
  <2>1. CASE t[q] = "first"
    <3>1. frame' = Saved /\ regs' = Started(q).regs /\ sepc' = Entry
      BY <2>1 DEF Leave
    <3>2. Started(q).regs \in Regfile /\ Entry \in Text
      BY RegsTyped DEF Started, Entry, Text
    <3> QED BY <2>1, <3>1, <3>2, <1>2, <1>8
  <2>2. CASE t[q] = "call"
    <3>1. frame' = Answer(q, Saved, Kept) /\ regs' = frame'[q] /\ sepc' = NextInstr(q, Kept)
      BY <2>2 DEF Leave
    <3>2. Kept[q].ppcb = q /\ Kept[q].pc \in Text
      BY <2>2, <1>8, <1>3
    <3>3. frame' = [Saved EXCEPT ![q] = Regs(Saved[q].rest, OK)]
      BY <3>1, <3>2, <1>10 DEF Answer
    <3>4. Regs(Saved[q].rest, OK) \in Regfile
      BY <1>2 DEF Regfile, Regs
    <3>5. frame'[q] = Regs(Saved[q].rest, OK) /\ frame' \in [Procs -> Regfile]
      BY <3>3, <3>4, <1>2
    <3>6. sepc' = (Kept[q].pc + 1) % Loop /\ sepc' \in Text
      BY <3>1, <3>2, <1>10, WrapInText DEF NextInstr, StageEight, Text
    <3> QED BY <2>2, <3>1, <3>3, <3>4, <3>5, <3>6, <1>2, <1>8
  <2>3. CASE t[q] = "interrupt"
    <3>1. frame' = Saved /\ regs' = Saved[q] /\ sepc' = pc
      BY <2>3 DEF Leave
    <3> QED BY <2>3, <3>1, <1>1, <1>2, <1>8
  <2> QED BY <2>1, <2>2, <2>3, <1>4, <1>9
<1>12. TypeOK'
  BY <1>3, <1>4, <1>7, <1>9, <1>11 DEF TypeOK, Alive, Regfile
<1>13. AllParked'
  BY <1>8, <1>9, <1>11 DEF AllParked, Parked, Alive, Started
<1>14. RegistersKept' /\ SyscallReturnsNext'
  BY <1>9, <1>11 DEF RegistersKept, SyscallReturnsNext
<1> QED BY <1>12, <1>13, <1>14

\* Every action of stage 8 preserves the invariant.
LEMMA NextTrapInv == StageEight /\ TrapInv /\ [Next]_vars => TrapInv'
<1> SUFFICES ASSUME StageEight, TrapInv, [Next]_vars PROVE TrapInv'
  OBVIOUS
<1>0. currpid \in Procs /\ trap[currpid] # "dead"
  BY DEF TrapInv, TypeOK, Alive
<1>1. CASE User
  BY <1>1, UserKeeps
<1>2. CASE Ecall
  BY <1>2, <1>0, LeaveKeeps DEF Ecall
<1>3. CASE Yield
  <2>1. PICK q \in Alive : Leave(q, Saved, Kept, [trap EXCEPT ![currpid] = "call"])
    BY <1>3 DEF Yield
  <2> QED BY <1>3, <2>1, <1>0, LeaveKeeps DEF Yield, Alive
<1>4. CASE Exit
  <2>1. PICK q \in Alive \ {currpid} : Leave(q, Saved, Kept, [trap EXCEPT ![currpid] = "dead"])
    BY <1>4 DEF Exit
  <2> QED BY <1>4, <2>1, <1>0, LeaveKeeps DEF Exit, Alive
<1>5. CASE Tick
  <2>1. PICK q \in Alive : Leave(q, Saved, Kept, [trap EXCEPT ![currpid] = "interrupt"])
    BY <1>5 DEF Tick
  <2> QED BY <1>5, <2>1, <1>0, LeaveKeeps DEF Tick, Alive
<1>6. CASE Fault
  BY <1>6, <1>0, LeaveKeeps DEF Fault
<1>7. CASE UNCHANGED vars
  BY <1>7 DEF vars, TrapInv, TypeOK, AllParked, Parked, Alive, Started, State,
              RegistersKept, SyscallReturnsNext
<1> QED BY <1>1, <1>2, <1>3, <1>4, <1>5, <1>6, <1>7 DEF Next

\* The inductive invariant holds throughout: what the kernel keeps of a process that
\* does not run is what it needs to go on.
THEOREM ContextsParked == ASSUME StageEight PROVE Spec => []TrapInv
<1>1. Init => TrapInv
  BY InitTrapInv
<1>2. TrapInv /\ [Next]_vars => TrapInv'
  BY NextTrapInv
<1> QED BY <1>1, <1>2, PTL DEF Spec

\* A process leaves the kernel of stage 8 with the registers it entered with and the
\* result of its system call in a0.
THEOREM RegistersSafe == ASSUME StageEight PROVE Spec => []RegistersKept
<1>1. TrapInv => RegistersKept
  BY DEF TrapInv
<1> QED BY <1>1, ContextsParked, PTL

\* A system call of stage 8 returns to the instruction behind its ecall.
THEOREM SyscallsReturn == ASSUME StageEight PROVE Spec => []SyscallReturnsNext
<1>1. TrapInv => SyscallReturnsNext
  BY DEF TrapInv
<1> QED BY <1>1, ContextsParked, PTL
=============================================================================
