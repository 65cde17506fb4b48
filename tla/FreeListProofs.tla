--------------------------- MODULE FreeListProofs ---------------------------
(***************************************************************************)
(* Theorems about FreeListClients, for any number of processes, blocks and *)
(* nodes.  One caller at a time is at the disk, and the disk stays where   *)
(* that caller put it, whatever fails.  And when no write fails: the list  *)
(* in memory and the one on disk have the blocks that nobody uses, nobody  *)
(* follows a stray pointer, a restart finds what it needs, and the whole   *)
(* is the pool of AbsPool.  The second part rests on FreeListInv, below.   *)
(***************************************************************************)
EXTENDS FreeListClients, NatSets, FiniteSetTheorems, TLAPS

\* A call that has taken the lock and not given it back yet.
AtDisk(p) == call[p].pc \in {"seek", "write"}

CallFields == {"op", "pc", "fbc", "arg", "todo", "drop"}
CallsTyped == DOMAIN call = Procs /\ \A p \in Procs : DOMAIN call[p] = CallFields

Exclusive == \A p \in Procs : AtDisk(p) =>
                 freelock = 0 /\ \A q \in Procs : AtDisk(q) => q = p

\* WritesOnTarget is not inductive alone: a second call in the functions
\* could move the disk or the node.  The lock keeps it out.
DiskInv == CallsTyped /\ Exclusive /\ WritesOnTarget

\* What a step of process p does to the calls of the others: nothing.
OthersStay(p) == /\ DOMAIN call' = Procs
                 /\ \A q \in Procs \ {p} : call'[q] = call[q]

\* A call that is not at the disk afterwards takes nothing from the others, if
\* only the caller at the disk moves the disk, changes nodes or gives the lock back.
LEMMA LeavesDisk ==
  ASSUME DiskInv, NEW p \in Procs, OthersStay(p), DOMAIN call'[p] = CallFields,
         ~ AtDisk(p)',
         \/ AtDisk(p)
         \/ UNCHANGED <<pos, node>> /\ (freelock' = freelock \/ freelock = 1)
  PROVE  DiskInv'
<1>1. CallsTyped'
  BY DEF DiskInv, CallsTyped, OthersStay
<1>2. \A q \in Procs : AtDisk(q)' => q # p /\ call'[q] = call[q] /\ AtDisk(q)
  BY DEF AtDisk, OthersStay
<1>3. CASE AtDisk(p)
  <2>1. \A q \in Procs : ~ AtDisk(q)'
    BY <1>2, <1>3 DEF DiskInv, Exclusive
  <2>. QED  BY <1>1, <2>1 DEF DiskInv, Exclusive, WritesOnTarget, AtDisk
<1>4. CASE UNCHANGED <<pos, node>> /\ (freelock' = freelock \/ freelock = 1)
  <2>1. Exclusive'
    BY <1>2, <1>4 DEF DiskInv, Exclusive
  <2>2. WritesOnTarget'
    BY <1>2, <1>4 DEF DiskInv, WritesOnTarget, AtDisk, Target
  <2>. QED  BY <1>1, <2>1, <2>2 DEF DiskInv
<1>. QED  BY <1>3, <1>4

\* A call that is at the disk afterwards and was alone with the lock, or has
\* just taken it.
LEMMA EntersDisk ==
  ASSUME DiskInv, NEW p \in Procs, OthersStay(p), DOMAIN call'[p] = CallFields,
         AtDisk(p) \/ freelock = 1, freelock' = 0,
         (call[p].pc = "write" => pos = Target(Head(call[p].todo)))'
  PROVE  DiskInv'
<1>1. CallsTyped'
  BY DEF DiskInv, CallsTyped, OthersStay
<1>2. \A q \in Procs : AtDisk(q)' => q = p
  BY DEF DiskInv, Exclusive, AtDisk, OthersStay
<1>3. Exclusive'
  BY <1>2 DEF Exclusive
<1>4. WritesOnTarget'
  BY <1>2 DEF WritesOnTarget, AtDisk
<1>. QED  BY <1>1, <1>3, <1>4 DEF DiskInv

-----------------------------------------------------------------------------
(* Fields that are set keep a call a call.                                 *)

LEMMA SetPc ==
  ASSUME CallsTyped, NEW p \in Procs, NEW v, call' = [call EXCEPT ![p].pc = v]
  PROVE  OthersStay(p) /\ DOMAIN call'[p] = CallFields /\ call'[p].pc = v
                       /\ call'[p].todo = call[p].todo
<1>1. DOMAIN call = Procs /\ DOMAIN call[p] = CallFields
  BY DEF CallsTyped
<1>2. OthersStay(p) /\ call'[p] = [call[p] EXCEPT !.pc = v]
  BY <1>1, Zenon DEF OthersStay
<1>3. DOMAIN call'[p] = CallFields /\ call'[p].pc = v
  BY <1>1, <1>2, Zenon DEF CallFields
<1>4. call'[p].todo = call[p].todo
  BY <1>1, <1>2, Zenon DEF CallFields
<1>. QED  BY <1>2, <1>3, <1>4

LEMMA SetCall ==
  ASSUME CallsTyped, NEW p \in Procs, NEW rec, call' = [call EXCEPT ![p] = rec]
  PROVE  OthersStay(p) /\ call'[p] = rec
BY Zenon DEF CallsTyped, OthersStay

LEMMA SetArg ==
  ASSUME NEW rec, DOMAIN rec = CallFields, NEW v, NEW w
  PROVE  /\ DOMAIN [rec EXCEPT !.arg = v] = CallFields
         /\ DOMAIN [rec EXCEPT !.arg = v, !.drop = w] = CallFields
BY Zenon DEF CallFields

LEMMA SetTodo ==
  ASSUME NEW rec, DOMAIN rec = CallFields, NEW v, NEW w
  PROVE  LET c == [rec EXCEPT !.pc = v, !.todo = w]
         IN DOMAIN c = CallFields /\ c.pc = v /\ c.todo = w
BY Zenon DEF CallFields

LEMMA IdleCall ==
  /\ DOMAIN Idle = CallFields /\ Idle.pc = "idle"
  /\ \A op, pc, arg, fbc :
        /\ LET c == [Idle EXCEPT !.op = op, !.pc = pc, !.arg = arg]
           IN DOMAIN c = CallFields /\ c.pc = pc
        /\ LET c == [Idle EXCEPT !.op = op, !.pc = pc, !.fbc = fbc]
           IN DOMAIN c = CallFields /\ c.pc = pc
BY DEF Idle, CallFields

-----------------------------------------------------------------------------
(* The steps of a call.                                                    *)

LEMMA LockedKeeps ==
  ASSUME DiskInv, NEW p \in Procs, NEW rec, NEW todo, DOMAIN rec = CallFields,
         Locked(p, rec, todo)
  PROVE  DiskInv'
<1> DEFINE c == [rec EXCEPT !.pc = "seek", !.todo = todo]
<1>1. call' = [call EXCEPT ![p] = c] /\ freelock = 1 /\ freelock' = 0
  BY DEF Locked
<1>2. DOMAIN c = CallFields /\ c.pc = "seek"
  BY SetTodo
<1> HIDE DEF c
<1>3. OthersStay(p) /\ call'[p] = c
  BY <1>1, SetCall DEF DiskInv
<1>. QED  BY <1>1, <1>2, <1>3, EntersDisk

LEMMA StrayKeeps ==
  ASSUME DiskInv, NEW p \in Procs, Stray(p), UNCHANGED diskvars
  PROVE  DiskInv'
<1>1. OthersStay(p) /\ DOMAIN call'[p] = CallFields /\ call'[p].pc = "wild"
  BY SetPc DEF DiskInv, Stray
<1>2. UNCHANGED <<pos, node>> /\ freelock = 1
  BY DEF Stray, diskvars
<1>. QED  BY <1>1, <1>2, LeavesDisk DEF AtDisk

LEMMA AcquireKeeps ==
  ASSUME DiskInv, NEW p \in Procs, Acquire(p)
  PROVE  DiskInv'
<1>1. DOMAIN call[p] = CallFields
  BY DEF DiskInv, CallsTyped
<1>2. CASE GetPop(p)
  BY <1>1, <1>2, LockedKeeps, SetArg DEF GetPop
<1>3. CASE GetLast(p)
  BY <1>1, <1>3, LockedKeeps, SetArg DEF GetLast
<1>4. CASE GetMerge(p)
  BY <1>1, <1>4, LockedKeeps, SetArg DEF GetMerge
<1>5. CASE FreeFirst(p) \/ FreeNew(p) \/ FreeAppend(p)
  BY <1>1, <1>5, LockedKeeps DEF FreeFirst, FreeNew, FreeAppend
<1>6. CASE GetStray(p) \/ FreeStray(p)
  BY <1>6, StrayKeeps DEF GetStray, FreeStray
<1>7. CASE FreeNoMemory(p)
  <2>1. OthersStay(p) /\ DOMAIN call'[p] = CallFields /\ call'[p].pc = "done"
    BY <1>7, SetPc DEF DiskInv, FreeNoMemory
  <2>2. UNCHANGED <<pos, node, freelock>>
    BY <1>7 DEF FreeNoMemory, memvars, diskvars
  <2>. QED  BY <2>1, <2>2, LeavesDisk DEF AtDisk
<1>. QED  BY <1>2, <1>3, <1>4, <1>5, <1>6, <1>7 DEF Acquire

LEMMA SeekKeeps ==
  ASSUME DiskInv, NEW p \in Procs, seek(p)
  PROVE  DiskInv'
<1>1. /\ OthersStay(p) /\ DOMAIN call'[p] = CallFields
      /\ call'[p].pc = "write" /\ call'[p].todo = call[p].todo
  BY SetPc DEF DiskInv, seek
<1>2. AtDisk(p) /\ freelock' = 0
  BY DEF seek, AtDisk, DiskInv, Exclusive
<1>3. (pos = Target(Head(call[p].todo)))'
  BY <1>1 DEF seek, Target
<1>. QED  BY <1>1, <1>2, <1>3, EntersDisk

\* The next structure is written, or the call is over.
LEMMA WriteKeeps ==
  ASSUME DiskInv, NEW p \in Procs, write(p)
  PROVE  DiskInv'
<1> DEFINE rest == Tail(call[p].todo)
           next == IF Usable(Head(rest)) THEN "seek" ELSE "wild"
<1>1. AtDisk(p) /\ freelock = 0
  BY DEF write, AtDisk, DiskInv, Exclusive
<1>2. CASE rest # <<>>
  <2>1. call' = [call EXCEPT ![p].todo = rest, ![p].pc = next] /\ freelock' = freelock
    BY <1>2 DEF write
  <2>2. next \in {"seek", "wild"}
    OBVIOUS
  <2> HIDE DEF rest, next
  <2>3. DOMAIN call = Procs /\ DOMAIN call[p] = CallFields
    BY DEF DiskInv, CallsTyped
  <2>4. OthersStay(p) /\ call'[p] = [call[p] EXCEPT !.todo = rest, !.pc = next]
    BY <2>1, <2>3, Zenon DEF OthersStay
  <2>5. DOMAIN call'[p] = CallFields /\ call'[p].pc = next
    BY <2>3, <2>4, Zenon DEF CallFields
  <2>6. CASE next = "seek"
    BY <1>1, <2>1, <2>4, <2>5, <2>6, EntersDisk
  <2>7. CASE next = "wild"
    BY <1>1, <2>4, <2>5, <2>7, LeavesDisk DEF AtDisk
  <2>. QED  BY <2>2, <2>6, <2>7
<1>3. CASE rest = <<>>
  <2> DEFINE c == [Idle EXCEPT !.op = call[p].op, !.pc = "done",
                               !.arg = IF call[p].op = "get" THEN call[p].arg ELSE 0]
  <2>1. call' = [call EXCEPT ![p] = c]
    BY <1>3 DEF write
  <2>2. DOMAIN c = CallFields /\ c.pc = "done"
    BY IdleCall
  <2> HIDE DEF c
  <2>3. OthersStay(p) /\ call'[p] = c
    BY <2>1, SetCall DEF DiskInv
  <2>. QED  BY <1>1, <2>2, <2>3, LeavesDisk DEF AtDisk
<1>. QED  BY <1>2, <1>3

LEMMA WriteFailsKeeps ==
  ASSUME DiskInv, NEW p \in Procs, writeFails(p)
  PROVE  DiskInv'
<1> DEFINE c == [Idle EXCEPT !.op = call[p].op, !.pc = "done", !.arg = SYSERR]
<1>1. AtDisk(p) /\ call' = [call EXCEPT ![p] = c]
  BY DEF writeFails, AtDisk
<1>2. DOMAIN c = CallFields /\ c.pc = "done"
  BY IdleCall
<1> HIDE DEF c
<1>3. OthersStay(p) /\ call'[p] = c
  BY <1>1, SetCall DEF DiskInv
<1>. QED  BY <1>1, <1>2, <1>3, LeavesDisk DEF AtDisk

-----------------------------------------------------------------------------
(* The clients.                                                            *)

\* A call begins, with a refusal or in front of the lock.
LEMMA BeginKeeps ==
  ASSUME DiskInv, NEW p \in Procs, NEW c, DOMAIN c = CallFields,
         c.pc \in {"done", "wait", "idle"}, call' = [call EXCEPT ![p] = c],
         UNCHANGED <<pos, node, freelock>>
  PROVE  DiskInv'
<1>1. OthersStay(p) /\ call'[p] = c
  BY SetCall DEF DiskInv
<1>. QED  BY <1>1, LeavesDisk DEF AtDisk

LEMMA ClientKeeps ==
  ASSUME DiskInv, NEW p \in Procs, Get(p) \/ Free(p) \/ Return(p)
  PROVE  DiskInv'
<1>1. CASE Get(p)
  <2> DEFINE c == IF ReadHead = NULL
                  THEN [Idle EXCEPT !.op = "get", !.pc = "done", !.arg = SYSERR]
                  ELSE [Idle EXCEPT !.op = "get", !.pc = "wait", !.fbc = ReadHead]
  <2>1. call' = [call EXCEPT ![p] = c] /\ UNCHANGED <<pos, node, freelock>>
    BY <1>1 DEF Get, GetCall, memvars, diskvars
  <2>2. DOMAIN c = CallFields /\ c.pc \in {"done", "wait", "idle"}
    BY IdleCall
  <2> HIDE DEF c
  <2>. QED  BY <2>1, <2>2, BeginKeeps
<1>2. CASE Free(p)
  <2>1. PICK b \in held : FreeCall(p, b)
    BY <1>2 DEF Free
  <2> DEFINE c == IF b <= 0 \/ b > DISKBLOCKTOTAL
                  THEN [Idle EXCEPT !.op = "free", !.pc = "done", !.arg = SYSERR]
                  ELSE [Idle EXCEPT !.op = "free", !.pc = "wait", !.arg = b]
  <2>2. call' = [call EXCEPT ![p] = c] /\ UNCHANGED <<pos, node, freelock>>
    BY <2>1 DEF FreeCall, memvars, diskvars
  <2>3. DOMAIN c = CallFields /\ c.pc \in {"done", "wait", "idle"}
    BY IdleCall
  <2> HIDE DEF c
  <2>. QED  BY <2>2, <2>3, BeginKeeps
<1>3. CASE Return(p)
  BY <1>3, BeginKeeps, IdleCall DEF Return, memvars, diskvars
<1>. QED  BY <1>1, <1>2, <1>3

\* After a start every call is idle.
LEMMA FreshCalls ==
  ASSUME NEW calls, calls = [p \in Procs |-> Idle]
  PROVE  /\ DOMAIN calls = Procs
         /\ \A p \in Procs : DOMAIN calls[p] = CallFields /\ calls[p].pc = "idle"
BY IdleCall

LEMMA InitDiskInv == CInit => DiskInv
<1> SUFFICES ASSUME CInit PROVE DiskInv
  OBVIOUS
<1>1. call = [p \in Procs |-> Idle]
  BY DEF CInit, Init
<1>. QED  BY <1>1, FreshCalls DEF DiskInv, CallsTyped, Exclusive, WritesOnTarget, AtDisk

LEMMA RestartKeeps == ASSUME CRestart PROVE DiskInv'
<1>1. call' = [p \in Procs |-> Idle]
  BY DEF CRestart, sbOpen
<1>. QED  BY <1>1, FreshCalls DEF DiskInv, CallsTyped, Exclusive, WritesOnTarget, AtDisk

LEMMA NextDiskInv == DiskInv /\ [CNext]_cvars => DiskInv'
<1> SUFFICES ASSUME DiskInv, [CNext]_cvars PROVE DiskInv'
  OBVIOUS
<1>1. CASE UNCHANGED cvars
  BY <1>1 DEF cvars, flvars, DiskInv, CallsTyped, Exclusive, WritesOnTarget, AtDisk, Target
<1>2. CASE CRestart
  BY <1>2, RestartKeeps
<1>3. ASSUME NEW p \in Procs, Get(p) \/ Free(p) \/ Return(p) \/ Work(p) PROVE DiskInv'
  <2>1. CASE Work(p)
    BY <2>1, AcquireKeeps, SeekKeeps, WriteKeeps, WriteFailsKeeps DEF Work, Step
  <2>. QED  BY <1>3, <2>1, ClientKeeps
<1>. QED  BY <1>1, <1>2, <1>3 DEF CNext

THEOREM DiskInvariance == CSpec => []DiskInv
BY InitDiskInv, NextDiskInv, PTL DEF CSpec

\* One caller at a time is at the disk, and it has the lock (sbGetBlock.c and
\* sbFreeBlock.c, between wait() and signal()): also when a write fails, when a
\* pointer goes astray and when the machine restarts.
THEOREM OneAtDisk == CSpec => []Exclusive
<1>1. DiskInv => Exclusive
  BY DEF DiskInv
<1>. QED  BY <1>1, DiskInvariance, PTL

\* The disk is still where a call has put it when the call writes, and the node
\* it writes is still the one it was sent to (sbFreeBlock.c:23 to 46).
THEOREM DiskStaysOnTarget == CSpec => []WritesOnTarget
<1>1. DiskInv => WritesOnTarget
  BY DEF DiskInv
<1>. QED  BY <1>1, DiskInvariance, PTL

-----------------------------------------------------------------------------
(* Chains and lists of groups, whatever they link.                         *)

\* The i-th entry of a chain; behind the last is NULL.
Nth(c, i) == IF i \in DOMAIN c THEN c[i] ELSE NULL

\* next leads from start through c, each entry once, and ends.
Spells(start, next, c) ==
    /\ c \in Seq(DOMAIN next) /\ IsInjective(c)
    /\ start = Nth(c, 1)
    /\ \A i \in DOMAIN c : next[c[i]] = Nth(c, i + 1)

LEMMA LengthBound ==
  ASSUME NEW S, IsFiniteSet(S), NEW c \in Seq(S), IsInjective(c)
  PROVE  Len(c) <= Cardinality(S)
<1>1. Len(c) \in Nat /\ c \in [1 .. Len(c) -> S] /\ DOMAIN c = 1 .. Len(c)
  BY LenProperties
<1>2. c \in Injection(1 .. Len(c), S)
  BY <1>1 DEF Injection, IsInjective
<1>3. Cardinality(1 .. Len(c)) <= Cardinality(S)
  BY <1>2, FS_Injection
<1>4. \A n \in Nat : Cardinality(1 .. n) = n
  BY FS_Interval
<1> QED BY <1>1, <1>3, <1>4

\* A chain that is spelled by a sequence is that sequence, and sound.
LEMMA ChainReads ==
  ASSUME NEW start, NEW next, IsFiniteSet(DOMAIN next), NULL \notin DOMAIN next,
         NEW c, Spells(start, next, c)
  PROVE  Chain(start, next) = c /\ Sound(start, next)
<1> DEFINE limit == Cardinality(DOMAIN next)
           n     == Len(c)
           T     == DOMAIN next \cup {next[x] : x \in DOMAIN next} \cup {start}
           step  == [x \in T |-> IF x \in DOMAIN next THEN next[x] ELSE x]
           at    == CHOOSE f : f = [k \in 0 .. limit |->
                                      IF k = 0 THEN start
                                      ELSE IF f[k - 1] \in DOMAIN next THEN next[f[k - 1]]
                                           ELSE f[k - 1]]
           met   == {k \in 0 .. limit - 1 : at[k] \in DOMAIN next}
<1>1. /\ c \in Seq(DOMAIN next) /\ IsInjective(c) /\ start = Nth(c, 1)
      /\ \A i \in DOMAIN c : next[c[i]] = Nth(c, i + 1)
  BY DEF Spells
<1>2. n \in Nat /\ DOMAIN c = 1 .. n /\ c \in [1 .. n -> DOMAIN next]
  BY <1>1, LenProperties
<1>3. limit \in Nat /\ n <= limit
  BY <1>1, LengthBound, FS_CardinalityType
<1>4. Chain(start, next) = [i \in 1 .. Cardinality(met) |-> at[i - 1]]
  BY Zenon DEF Chain
<1>5. at = [k \in 0 .. limit |-> IF k = 0 THEN start
                                 ELSE IF at[k - 1] \in DOMAIN next THEN next[at[k - 1]]
                                      ELSE at[k - 1]]
  <2>1. step \in [T -> T] /\ start \in T
    OBVIOUS
  <2>2. PICK f \in [0 .. limit -> T] : Walks(f, step, start, limit)
    <3> HIDE DEF T, step, limit
    <3> QED BY <1>3, <2>1, Iteration
  <2> DEFINE g == [k \in 0 .. limit |-> IF k = 0 THEN start
                                 ELSE IF f[k - 1] \in DOMAIN next THEN next[f[k - 1]]
                                      ELSE f[k - 1]]
  <2>3. \A k \in 0 .. limit : f[k] = g[k]
    <3> SUFFICES ASSUME NEW k \in 0 .. limit PROVE f[k] = g[k]
      OBVIOUS
    <3>1. CASE k = 0
      BY <3>1, <2>2 DEF Walks
    <3>2. CASE k # 0
      <4>1. k \in 1 .. limit /\ k - 1 \in 0 .. limit
        BY <3>2, <1>3
      <4> HIDE DEF limit
      <4>2. f[k] = step[f[k - 1]] /\ f[k - 1] \in T
        BY <2>2, <4>1 DEF Walks
      <4> QED BY <3>2, <4>2
    <3> QED BY <3>1, <3>2
  <2>4. f = g
    <3> HIDE DEF limit, T
    <3> QED BY <2>2, <2>3
  <2> QED BY <2>4, Zenon
<1>6. /\ at[0] = start
      /\ \A k \in 1 .. limit : at[k] = IF at[k - 1] \in DOMAIN next THEN next[at[k - 1]]
                                       ELSE at[k - 1]
  <2> HIDE DEF at, limit
  <2>1. 0 \in 0 .. limit /\ \A k \in 1 .. limit : k \in 0 .. limit /\ k # 0
    BY <1>3
  <2> QED BY <1>5, <2>1
<1> HIDE DEF at, limit
<1> DEFINE S == {k \in Nat : k \in 0 .. limit => at[k] = Nth(c, k + 1)}
<1>7. 0 \in S
  BY <1>1, <1>6
<1>8. ASSUME NEW k \in Nat, k \in S PROVE k + 1 \in S
  <2> SUFFICES ASSUME k + 1 \in 0 .. limit PROVE at[k + 1] = Nth(c, (k + 1) + 1)
    OBVIOUS
  <2>1. k \in 0 .. limit /\ k + 1 \in 1 .. limit /\ (k + 1) - 1 = k
    BY <1>3
  <2>2. /\ at[k] = Nth(c, k + 1)
        /\ at[k + 1] = IF at[k] \in DOMAIN next THEN next[at[k]] ELSE at[k]
    BY <1>6, <1>8, <2>1
  <2>3. CASE k + 1 \in 1 .. n
    BY <1>1, <1>2, <2>2, <2>3 DEF Nth
  <2>4. CASE k + 1 \notin 1 .. n
    <3>1. (k + 1) + 1 \notin 1 .. n
      BY <2>4, <1>2
    <3> QED BY <1>2, <2>2, <2>4, <3>1 DEF Nth
  <2> QED BY <2>3, <2>4
<1>9. \A k \in 0 .. limit : at[k] = Nth(c, k + 1)
  <2>1. Nat \subseteq S
    <3> HIDE DEF S
    <3> QED BY <1>7, <1>8, SetInduction
  <2> QED BY <2>1, <1>3
<1>10. met = 0 .. n - 1
  <2>1. ASSUME NEW k \in 0 .. limit - 1 PROVE at[k] \in DOMAIN next <=> k \in 0 .. n - 1
    <3>1. k \in 0 .. limit /\ at[k] = Nth(c, k + 1)
      BY <1>3, <1>9
    <3>2. k + 1 \in 1 .. n <=> k \in 0 .. n - 1
      BY <1>2
    <3> QED BY <1>2, <3>1, <3>2 DEF Nth
  <2>2. 0 .. n - 1 \subseteq 0 .. limit - 1
    BY <1>2, <1>3
  <2> HIDE DEF n
  <2> QED BY <2>1, <2>2
<1>11. Cardinality(met) = n
  <2>1. \A k \in Nat : Cardinality(0 .. k - 1) = k
    BY FS_Interval
  <2> QED BY <1>2, <1>10, <2>1
<1>12. \A i \in 1 .. n : at[i - 1] = c[i]
  <2> SUFFICES ASSUME NEW i \in 1 .. n PROVE at[i - 1] = c[i]
    OBVIOUS
  <2>1. i - 1 \in 0 .. limit /\ (i - 1) + 1 = i
    BY <1>2, <1>3
  <2> QED BY <1>2, <1>9, <2>1 DEF Nth
<1>13. Chain(start, next) = c
  <2>1. Chain(start, next) = [i \in 1 .. n |-> at[i - 1]]
    BY <1>4, <1>11
  <2> HIDE DEF n
  <2> QED BY <1>2, <1>12, <2>1
<1>14. NULL = IF c = <<>> THEN start ELSE next[Last(c)]
  <2>1. CASE c = <<>>
    <3>1. 1 \notin DOMAIN c
      BY <2>1
    <3> QED BY <1>1, <2>1, <3>1 DEF Nth
  <2>2. CASE c # <<>>
    <3>1. n \in 1 .. n /\ n + 1 \notin 1 .. n
      BY <1>1, <1>2, <2>2, EmptySeq
    <3> QED BY <1>1, <1>2, <2>2, <3>1 DEF Nth, Last
  <2> QED BY <2>1, <2>2
<1> QED BY <1>1, <1>13, <1>14 DEF Sound

\* A sequence of sequences in one: what is in it, and that nothing is in it twice.
LEMMA FlattenGives ==
  ASSUME NEW V, NEW s \in Seq(Seq(V))
  PROVE  /\ FlattenSeq(s) \in Seq(V)
         /\ Range(FlattenSeq(s)) = UNION {Range(s[i]) : i \in DOMAIN s}
         /\ (/\ \A i \in DOMAIN s : IsInjective(s[i])
             /\ \A i, j \in DOMAIN s : i # j => Range(s[i]) \cap Range(s[j]) = {})
            => IsInjective(FlattenSeq(s))
<1> DEFINE n == Len(s)
           fl == CHOOSE f : f = [i \in 1 .. n |-> IF i = 1 THEN s[i] ELSE f[i - 1] \o s[i]]
<1>1. n \in Nat /\ DOMAIN s = 1 .. n /\ s \in [1 .. n -> Seq(V)]
  BY LenProperties
<1>2. CASE n = 0
  <2>1. FlattenSeq(s) = s /\ s = <<>>
    BY <1>2, EmptySeq DEF FlattenSeq
  <2> QED BY <2>1 DEF Range, IsInjective
<1>3. CASE n # 0
  <2>1. FlattenSeq(s) = fl[n]
    BY <1>3, Zenon DEF FlattenSeq
  <2>2. fl = [i \in 1 .. n |-> IF i = 1 THEN s[i] ELSE fl[i - 1] \o s[i]]
    <3> DEFINE steps == [i \in 1 .. n - 1 |-> [w \in Seq(V) |-> w \o s[i + 1]]]
    <3>1. n - 1 \in Nat /\ \A i \in 1 .. n - 1 : i + 1 \in 1 .. n
      BY <1>1, <1>3
    <3>2. steps \in [1 .. n - 1 -> [Seq(V) -> Seq(V)]]
      BY <1>1, <3>1, ConcatProperties
    <3>3. s[1] \in Seq(V)
      BY <1>1, <1>3
    <3>4. PICK g \in [0 .. n - 1 -> Seq(V)] : Makes(g, steps, s[1], n - 1)
      <4> HIDE DEF steps, n
      <4> QED BY <3>1, <3>2, <3>3, Recurrence
    <3> DEFINE f == [i \in 1 .. n |-> g[i - 1]]
               h == [i \in 1 .. n |-> IF i = 1 THEN s[i] ELSE f[i - 1] \o s[i]]
    <3>5. ASSUME NEW i \in 1 .. n PROVE f[i] = h[i]
      <4>1. CASE i = 1
        BY <3>4, <4>1 DEF Makes
      <4>2. CASE i # 1
        <5>1. i - 1 \in 1 .. n - 1 /\ i - 1 \in 1 .. n /\ (i - 1) + 1 = i /\ i - 1 \in 0 .. n - 1
              /\ (i - 1) - 1 \in 0 .. n - 1
          BY <1>1, <4>2
        <5>2. g[i - 1] = steps[i - 1][g[(i - 1) - 1]] /\ g[(i - 1) - 1] \in Seq(V)
          BY <3>4, <5>1 DEF Makes
        <5>3. g[i - 1] = g[(i - 1) - 1] \o s[i]
          BY <5>1, <5>2
        <5> QED BY <4>2, <5>1, <5>3
      <4> QED BY <4>1, <4>2
    <3>6. f = h
      BY <3>5
    <3> HIDE DEF f, n
    <3> QED BY <3>6, Zenon
  <2> HIDE DEF fl
  <2>3. ASSUME NEW i \in 1 .. n
        PROVE  fl[i] = IF i = 1 THEN s[i] ELSE fl[i - 1] \o s[i]
    BY <2>2
  <2> DEFINE Good(w, k) ==
               /\ w \in Seq(V)
               /\ Range(w) = UNION {Range(s[i]) : i \in 1 .. k}
               /\ (/\ \A i \in DOMAIN s : IsInjective(s[i])
                   /\ \A i, j \in DOMAIN s : i # j => Range(s[i]) \cap Range(s[j]) = {})
                  => IsInjective(w)
             S == {k \in Nat : k + 1 \in 1 .. n => Good(fl[k + 1], k + 1)}
  <2>4. 0 \in S
    <3>1. 1 \in 1 .. n /\ 1 .. 1 = {1}
      BY <1>1, <1>3
    <3>2. fl[1] = s[1] /\ s[1] \in Seq(V)
      BY <1>1, <2>3, <3>1
    <3>3. Good(fl[1], 1)
      BY <1>1, <3>1, <3>2
    <3>4. 0 \in Nat /\ 0 + 1 = 1
      OBVIOUS
    <3> HIDE DEF Good
    <3> QED BY <3>3, <3>4
  <2>5. ASSUME NEW k \in Nat, k \in S PROVE k + 1 \in S
    <3>0. k + 1 \in Nat
      OBVIOUS
    <3> HIDE DEF Good
    <3> SUFFICES ASSUME (k + 1) + 1 \in 1 .. n PROVE Good(fl[(k + 1) + 1], (k + 1) + 1)
      BY <3>0
    <3> USE DEF Good
    <3> DEFINE m == k + 1
               a == fl[m]
               b == s[m + 1]
    <3>1. m \in 1 .. n /\ m + 1 \in 1 .. n /\ m + 1 # 1 /\ (m + 1) - 1 = m
          /\ 1 .. m + 1 = (1 .. m) \cup {m + 1} /\ m + 1 \notin 1 .. m
      BY <1>1
    <3>2. Good(a, m)
      BY <2>5, <3>1
    <3>3. fl[m + 1] = a \o b /\ b \in Seq(V) /\ a \in Seq(V)
      BY <1>1, <2>3, <3>1, <3>2
    <3>4. /\ a \o b \in Seq(V) /\ Len(a \o b) = Len(a) + Len(b)
          /\ \A i \in 1 .. Len(a) + Len(b) :
                (a \o b)[i] = IF i <= Len(a) THEN a[i] ELSE b[i - Len(a)]
      BY <3>3, ConcatProperties
    <3>5. Range(a \o b) = Range(a) \cup Range(b)
      BY <3>3, RangeConcatenation
    <3>6. Range(a \o b) = UNION {Range(s[i]) : i \in 1 .. m + 1}
      <4>1. UNION {Range(s[i]) : i \in 1 .. m + 1}
            = (UNION {Range(s[i]) : i \in 1 .. m}) \cup Range(s[m + 1])
        BY <3>1
      <4> QED BY <3>2, <3>5, <4>1
    <3>7. ASSUME /\ \A i \in DOMAIN s : IsInjective(s[i])
                 /\ \A i, j \in DOMAIN s : i # j => Range(s[i]) \cap Range(s[j]) = {}
          PROVE  IsInjective(a \o b)
      <4>1. IsInjective(a) /\ IsInjective(b)
        BY <1>1, <3>1, <3>2, <3>7
      <4>2. Range(a) \cap Range(b) = {}
        <5>1. \A i \in 1 .. m : i \in DOMAIN s /\ i # m + 1
          BY <1>1, <3>1
        <5>2. \A i \in 1 .. m : Range(s[i]) \cap Range(b) = {}
          BY <1>1, <3>1, <3>7, <5>1
        <5> HIDE DEF a, b, m
        <5> QED BY <3>2, <5>2
      <4>3. Len(a) \in Nat /\ Len(b) \in Nat /\ DOMAIN a = 1 .. Len(a) /\ DOMAIN b = 1 .. Len(b)
            /\ DOMAIN (a \o b) = 1 .. Len(a) + Len(b)
        BY <3>3, <3>4, LenProperties
      <4> HIDE DEF a, b, m
      <4> SUFFICES ASSUME NEW i \in 1 .. Len(a) + Len(b), NEW j \in 1 .. Len(a) + Len(b),
                          (a \o b)[i] = (a \o b)[j]
                   PROVE  i = j
        BY <4>3 DEF IsInjective
      <4>4. \A x \in 1 .. Len(a) + Len(b) :
               \/ x \in DOMAIN a /\ (a \o b)[x] = a[x] /\ a[x] \in Range(a)
               \/ /\ x - Len(a) \in DOMAIN b /\ (a \o b)[x] = b[x - Len(a)]
                  /\ b[x - Len(a)] \in Range(b)
        <5> SUFFICES ASSUME NEW x \in 1 .. Len(a) + Len(b)
                     PROVE  \/ x \in DOMAIN a /\ (a \o b)[x] = a[x] /\ a[x] \in Range(a)
                            \/ /\ x - Len(a) \in DOMAIN b /\ (a \o b)[x] = b[x - Len(a)]
                               /\ b[x - Len(a)] \in Range(b)
          OBVIOUS
        <5>1. (a \o b)[x] = IF x <= Len(a) THEN a[x] ELSE b[x - Len(a)]
          BY <3>4
        <5>2. x \in DOMAIN a \/ (~ (x <= Len(a)) /\ x - Len(a) \in DOMAIN b)
          BY <4>3
        <5>3. x \in DOMAIN a => x <= Len(a)
          BY <4>3
        <5> QED BY <5>1, <5>2, <5>3 DEF Range
      <4>5. \/ i \in DOMAIN a /\ j \in DOMAIN a /\ a[i] = a[j]
            \/ /\ i - Len(a) \in DOMAIN b /\ j - Len(a) \in DOMAIN b
               /\ b[i - Len(a)] = b[j - Len(a)]
        BY <4>2, <4>4
      <4>6. i = j \/ i - Len(a) = j - Len(a)
        BY <4>1, <4>5 DEF IsInjective
      <4> QED BY <4>3, <4>6
    <3> HIDE DEF a, b
    <3> QED BY <3>3, <3>4, <3>6, <3>7
  <2>6. n - 1 \in S /\ (n - 1) + 1 = n /\ n \in 1 .. n
    <3>1. n - 1 \in Nat /\ (n - 1) + 1 = n /\ n \in 1 .. n
      BY <1>1, <1>3
    <3>2. Nat \subseteq S
      <4> HIDE DEF S
      <4> QED BY <2>4, <2>5, SetInduction
    <3> HIDE DEF S, n
    <3> QED BY <3>1, <3>2
  <2>7. Good(fl[n], n)
    <3> HIDE DEF Good
    <3> QED BY <2>6
  <2> HIDE DEF Good
  <2> QED BY <1>1, <2>1, <2>7 DEF Good
<1> QED BY <1>2, <1>3

-----------------------------------------------------------------------------
(* The inductive invariant.                                                *)

\* One caller; or so few blocks out at one time that the list never gets empty.
Solo  == \A p, q \in Procs : p = q
Roomy == Solo \/ (IsFiniteSet(Procs) /\ MaxHeld < Cardinality(Blocks))

Fbc  == [free : Seq(Blocks), next : Int]
Node == [blocknum : Int, free : Seq(Blocks), next : Int]
Call == [op : {"none", "get", "free"}, pc : {"idle", "wait", "seek", "write", "done"},
         fbc : Int, arg : Int, todo : Seq(Nodes \cup {SUPER}), drop : Int]

Typed ==
    /\ freelst \in Int /\ node \in [Nodes -> Node] /\ heap \subseteq Nodes
    /\ swz \subseteq Nodes \cup {SUPER} /\ freelock \in {0, 1}
    /\ pos \in 0 .. DISKBLOCKTOTAL - 1 /\ dsuper \in {NULL} \cup Blocks
    /\ dfbc \in [1 .. DISKBLOCKTOTAL - 1 -> Fbc]
    /\ call \in [Procs -> Call]

\* A collector is block b and names free, every block once.
Tidy(b, free) == /\ b \in Blocks /\ free \in Seq(Blocks) /\ IsInjective(free)
                 /\ Len(free) <= FREEBLOCKMAX /\ b \notin Range(free)

\* The list in memory is the nodes c, and no block is in two of them ...
Group(n) == {node[n].blocknum} \cup Range(node[n].free)
MemGood(c) ==
    /\ Spells(freelst, MemNext, c)
    /\ \A n \in Range(c) : Tidy(node[n].blocknum, node[n].free)
    /\ \A m, n \in Range(c) : m # n => Group(m) \cap Group(n) = {}
InMem == UNION {Group(n) : n \in Range(Collectors)}

\* ... and the one on disk the blocks d.
Cut(b) == {b} \cup Range(dfbc[b].free)
DiskGood(d) ==
    /\ Spells(dsuper, DiskNext, d)
    /\ \A b \in Range(d) : Tidy(b, dfbc[b].free)
    /\ \A a, b \in Range(d) : a # b => Cut(a) \cap Cut(b) = {}
InDisk == UNION {Cut(b) : b \in Range(DiskChain)}

\* What a call has, wherever it is.
CallOK(p) ==
    LET c == call[p] todo == call[p].todo IN
    /\ c.pc = "idle" => c.op = "none" /\ c.arg = 0
    /\ c.pc # "idle" => c.op \in {"get", "free"}
    /\ Getting(p) => c.arg = 0 /\ c.fbc = freelst /\ freelst # NULL
    /\ Freeing(p) => c.arg \in Blocks
    /\ c.pc = "done" => c.arg \in Blocks \cup {SYSERR} \cup IF c.op = "get" THEN {} ELSE {0}
    /\ ~ AtDisk(p) => c.drop = NULL
    /\ AtDisk(p) =>
         /\ c.arg \in Blocks /\ swz = {Head(todo)}
         /\ Len(todo) \in {1, 2} /\ Range(todo) \subseteq Range(Collectors) \cup {SUPER}
         /\ SUPER \in Range(todo) => Solo
         /\ c.drop \notin Range(Collectors)
         /\ c.drop \in heap => node[c.drop].blocknum \in Blocks /\ node[c.drop].free = <<>>
         /\ Len(todo) = 2 => /\ c.op = "free" /\ todo[2] \in Range(Collectors)
                             /\ todo[1] # todo[2]
                             /\ node[todo[2]].blocknum = c.arg /\ node[todo[2]].next = NULL

\* Every block is used, in the list or in the hands of one call; only a block
\* that sbFreeBlock() is linking is in hand and in the list.
Owned(used) ==
    /\ used \subseteq Blocks
    /\ \A b \in Blocks : b \in used \/ b \in InMem \/ \E p \in Procs : call[p].arg = b
    /\ used \cap InMem = {}
    /\ \A p \in Procs : call[p].arg \notin used
    /\ \A p, q \in Procs : p # q /\ call[p].arg = call[q].arg => call[p].arg \notin Blocks
    /\ \A p \in Procs : call[p].arg \in Blocks => (call[p].arg \in InMem <=> Linking(p))

Counted(used) == Solo \/ (IsFiniteSet(Procs) /\ Cardinality(used) + Cardinality(Calls) <= MaxHeld)

\* What is still to be written, and that the disk has the rest.
Due == UNION {Range(call[p].todo) : p \in {q \in Procs : AtDisk(q)}}
Written ==
    /\ SUPER \in Due \/ dsuper = BlockOf(freelst)
    /\ \A n \in Range(Collectors) : n \in Due \/ dfbc[node[n].blocknum] = Image(n)
\* No node is lost, no pointer is left a block number.
Settled == /\ heap \subseteq Range(Collectors) \cup {call[p].drop : p \in Procs}
           /\ (\A p \in Procs : ~ AtDisk(p)) => swz = {}

\* A restart finds nothing that is in use, and all that is free.
Readable(used) ==
    /\ DiskGood(DiskChain) /\ InDisk \cap used = {}
    /\ \A p \in Procs : ~ AtDisk(p) => call[p].arg \notin InDisk
    /\ \A b \in InMem : b \in InDisk \/ \E p \in Procs : Linking(p) /\ call[p].arg = b

\* used: the blocks somebody has.
ListInv(used) == /\ Typed /\ MemGood(Collectors) /\ (\A p \in Procs : CallOK(p))
                 /\ Owned(used) /\ Counted(used) /\ Written /\ Settled
                 /\ HalfWritten \/ Readable(used)
FreeListInv   == ListInv(held)

-----------------------------------------------------------------------------
(* What the numbers are.                                                   *)

LEMMA Numbers ==
  /\ NULL \in Int /\ NULL \notin Nodes /\ NULL \notin Blocks /\ NULL # SUPER
  /\ Wild \in Int /\ Wild \notin Nodes /\ Wild \notin Blocks /\ Wild # NULL
  /\ SUPER \in Int /\ SUPER \notin Nodes /\ SUPER # NULL
  /\ Nodes \subseteq Int /\ Blocks \subseteq Int
  /\ Blocks \subseteq 1 .. DISKBLOCKTOTAL - 1 /\ SUPERBLOCKNUM \notin Blocks
  /\ SYSERR \notin Blocks /\ SUPERBLOCKNUM \in 0 .. DISKBLOCKTOTAL - 1
  /\ 0 \notin Blocks /\ SUPERBLOCKNUM = 0 /\ NULL = 0 /\ Wild = SYSERR /\ SYSERR \in Int
  /\ \A b \in Blocks : b \in 0 .. DISKBLOCKTOTAL - 1 /\ ~ (b <= 0 \/ b > DISKBLOCKTOTAL)
BY LayoutAssumption DEF NULL, Nodes, Blocks, Wild, SUPER, SUPERBLOCKNUM, SYSERR

LEMMA FiniteNumbers ==
  /\ IsFiniteSet(Nodes) /\ \A S \in SUBSET Nodes : IsFiniteSet(S)
  /\ IsFiniteSet(Blocks) /\ \A S \in SUBSET Blocks : IsFiniteSet(S)
  /\ \A S \in SUBSET (1 .. DISKBLOCKTOTAL - 1) : IsFiniteSet(S)
<1>1. /\ NNODES \in Int /\ DISKBLOCKTOTAL - 1 \in Int /\ SUPERBLOCKNUM + 2 \in Int
      /\ 1 \in Int
  BY LayoutAssumption DEF SUPERBLOCKNUM
<1>2. IsFiniteSet(Nodes) /\ IsFiniteSet(Blocks) /\ IsFiniteSet(1 .. DISKBLOCKTOTAL - 1)
  BY <1>1, FS_Interval DEF Nodes, Blocks
<1>3. ASSUME NEW S, IsFiniteSet(S), NEW T \in SUBSET S PROVE IsFiniteSet(T)
  BY <1>3, FS_Subset
<1> QED BY <1>2, <1>3

-----------------------------------------------------------------------------
(* Chains that change.                                                     *)

\* What is spelled is spelled as long as its own links stay.
LEMMA SpellsSame ==
  ASSUME NEW start, NEW next, NEW c, Spells(start, next, c),
         NEW next2, Range(c) \subseteq DOMAIN next2, \A x \in Range(c) : next2[x] = next[x]
  PROVE  Spells(start, next2, c)
<1>1. /\ c \in Seq(DOMAIN next) /\ IsInjective(c) /\ start = Nth(c, 1)
      /\ \A i \in DOMAIN c : next[c[i]] = Nth(c, i + 1)
  BY DEF Spells
<1>2. Len(c) \in Nat /\ DOMAIN c = 1 .. Len(c) /\ c \in [1 .. Len(c) -> DOMAIN next]
  BY <1>1, LenProperties
<1>3. \A i \in DOMAIN c : c[i] \in Range(c)
  BY DEF Range
<1>4. c \in [1 .. Len(c) -> DOMAIN next2]
  BY <1>2, <1>3
<1>5. c \in Seq(DOMAIN next2)
  BY <1>2, <1>4, SeqDef
<1> QED BY <1>1, <1>3, <1>5 DEF Spells

\* The shape of a chain.
LEMMA SpellsShape ==
  ASSUME NEW start, NEW next, NULL \notin DOMAIN next, NEW c, Spells(start, next, c)
  PROVE  /\ Len(c) \in Nat /\ DOMAIN c = 1 .. Len(c) /\ c \in Seq(DOMAIN next)
         /\ Range(c) \subseteq DOMAIN next
         /\ start = NULL <=> c = <<>>
         /\ start # NULL => start \in Range(c) /\ start = c[1] /\ 1 \in DOMAIN c
         /\ \A n \in Range(c) : next[n] \in {NULL} \cup Range(c)
         /\ c # <<>> => /\ Len(c) \in DOMAIN c /\ Last(c) = c[Len(c)] /\ Last(c) \in Range(c)
                        /\ next[Last(c)] = NULL
<1>1. /\ c \in Seq(DOMAIN next) /\ IsInjective(c) /\ start = Nth(c, 1)
      /\ \A i \in DOMAIN c : next[c[i]] = Nth(c, i + 1)
  BY DEF Spells
<1>2. Len(c) \in Nat /\ DOMAIN c = 1 .. Len(c) /\ c \in [1 .. Len(c) -> DOMAIN next]
  BY <1>1, LenProperties
<1>3. \A i \in DOMAIN c : c[i] \in Range(c) /\ c[i] \in DOMAIN next
  BY <1>2 DEF Range
<1>4. Range(c) \subseteq DOMAIN next
  BY <1>3 DEF Range
<1>5. \A n \in Range(c) : next[n] \in {NULL} \cup Range(c)
  BY <1>1, <1>3 DEF Range, Nth
<1>6. CASE c = <<>>
  <2>1. 1 \notin DOMAIN c
    BY <1>6
  <2> QED BY <1>1, <1>2, <1>4, <1>5, <1>6, <2>1 DEF Nth
<1>7. CASE c # <<>>
  <2>1. Len(c) \in DOMAIN c /\ 1 \in DOMAIN c /\ Len(c) + 1 \notin DOMAIN c
    BY <1>1, <1>2, <1>7, EmptySeq
  <2>2. next[c[Len(c)]] = NULL
    BY <1>1, <2>1 DEF Nth
  <2>3. start = c[1] /\ start \in Range(c) /\ start # NULL
    BY <1>1, <1>3, <2>1 DEF Nth
  <2>4. Last(c) = c[Len(c)]
    BY DEF Last
  <2> QED BY <1>1, <1>2, <1>3, <1>4, <1>5, <1>7, <2>1, <2>2, <2>3, <2>4
<1> QED BY <1>6, <1>7

\* One more behind the last.
LEMMA SpellsLonger ==
  ASSUME NEW start, NEW next, NULL \notin DOMAIN next, NEW c, Spells(start, next, c), c # <<>>,
         NEW m, m \notin Range(c),
         NEW next2, Range(c) \cup {m} \subseteq DOMAIN next2,
         \A x \in Range(c) : x # Last(c) => next2[x] = next[x],
         next2[Last(c)] = m, next2[m] = NULL
  PROVE  \E d : Spells(start, next2, d) /\ Range(d) = Range(c) \cup {m}
<1> DEFINE n == Len(c)
           a == Append(c, m)
<1>1. /\ c \in Seq(DOMAIN next) /\ IsInjective(c) /\ start = Nth(c, 1)
      /\ \A i \in DOMAIN c : next[c[i]] = Nth(c, i + 1)
  BY DEF Spells
<1>2. n \in Nat /\ DOMAIN c = 1 .. n /\ n \in DOMAIN c /\ Last(c) = c[n]
  BY SpellsShape
<1>3. \A i \in DOMAIN c : c[i] \in Range(c) /\ c[i] \in DOMAIN next2
  BY DEF Range
<1>4. c \in [1 .. n -> DOMAIN next2]
  BY <1>1, <1>2, <1>3, LenProperties
<1>5. c \in Seq(DOMAIN next2)
  BY <1>2, <1>4, SeqDef
<1>6. /\ a \in Seq(DOMAIN next2) /\ Len(a) = n + 1
      /\ \A i \in 1 .. n : a[i] = c[i]
      /\ a[n + 1] = m
  BY <1>5, AppendProperties
<1>7. DOMAIN a = 1 .. n + 1 /\ DOMAIN a = (DOMAIN c) \cup {n + 1} /\ n + 1 \notin DOMAIN c
  <2>1. DOMAIN a = 1 .. n + 1
    BY <1>6, LenProperties
  <2> QED BY <2>1, <1>2
<1> HIDE DEF a, n
<1>8. IsInjective(a)
  BY <1>1, <1>2, <1>3, <1>6, <1>7 DEF IsInjective
<1>9. Range(a) = Range(c) \cup {m}
  BY <1>2, <1>6, <1>7 DEF Range
<1>10. start = Nth(a, 1)
  <2>1. 1 \in DOMAIN c
    BY <1>2
  <2> QED BY <2>1, <1>1, <1>2, <1>6, <1>7 DEF Nth
<1>11. ASSUME NEW i \in DOMAIN a PROVE next2[a[i]] = Nth(a, i + 1)
  <2>1. CASE i = n + 1
    <3>1. (n + 1) + 1 \notin DOMAIN a
      BY <1>2, <1>7
    <3> QED BY <2>1, <3>1, <1>6 DEF Nth
  <2>2. CASE i = n
    BY <2>2, <1>2, <1>6, <1>7 DEF Nth
  <2>3. CASE i # n /\ i # n + 1
    <3>1. i \in DOMAIN c /\ i + 1 \in DOMAIN c /\ i + 1 \in DOMAIN a /\ c[i] # c[n]
      BY <2>3, <1>1, <1>2, <1>7 DEF IsInjective
    <3>2. next2[c[i]] = next[c[i]] /\ next[c[i]] = c[i + 1]
      BY <3>1, <1>1, <1>2, <1>3 DEF Nth
    <3>3. a[i] = c[i] /\ a[i + 1] = c[i + 1]
      BY <3>1, <1>2, <1>6
    <3> QED BY <3>1, <3>2, <3>3 DEF Nth
  <2> QED BY <2>1, <2>2, <2>3
<1>12. Spells(start, next2, a)
  BY <1>6, <1>8, <1>10, <1>11 DEF Spells
<1> QED BY <1>9, <1>12

\* The second goes, and the first takes over its link.
LEMMA SpellsShorter ==
  ASSUME NEW f, NEW next, NULL \notin DOMAIN next, NEW c, Spells(f, next, c), f # NULL,
         NEW g, next[f] = g, g # NULL,
         NEW next2, Range(c) \ {g} \subseteq DOMAIN next2,
         \A x \in Range(c) : x # f /\ x # g => next2[x] = next[x],
         next2[f] = next[g]
  PROVE  \E c2 : /\ Spells(f, next2, c2) /\ Range(c2) = Range(c) \ {g}
                 /\ f \in Range(c) /\ g \in Range(c) /\ f # g
<1> DEFINE n == Len(c)
           d == [i \in 1 .. n - 1 |-> IF i = 1 THEN f ELSE c[i + 1]]
<1>1. /\ c \in Seq(DOMAIN next) /\ IsInjective(c) /\ f = Nth(c, 1)
      /\ \A i \in DOMAIN c : next[c[i]] = Nth(c, i + 1)
  BY DEF Spells
<1>2. n \in Nat /\ DOMAIN c = 1 .. n /\ f \in Range(c) /\ f = c[1] /\ 1 \in DOMAIN c
  BY SpellsShape
<1>3. \A i \in DOMAIN c : c[i] \in Range(c)
  BY DEF Range
<1>4. 1 + 1 = 2 /\ 2 \in DOMAIN c /\ c[2] = g
  BY <1>1, <1>2 DEF Nth
<1>5. n - 1 \in Nat /\ 1 \in 1 .. n - 1 /\ \A i \in 1 .. n - 1 : i \in Nat /\ i # 0 /\ i + 1 \in DOMAIN c /\ i + 1 # 1 /\ (i = 1 \/ i + 1 # 2)
  BY <1>2, <1>4
<1> HIDE DEF n
<1>6. \A i \in 1 .. n - 1 : d[i] \in Range(c) \ {g} /\ d[i] \in DOMAIN next2 /\ (i # 1 => d[i] # f)
  <2> SUFFICES ASSUME NEW i \in 1 .. n - 1 PROVE d[i] \in Range(c) \ {g} /\ (i # 1 => d[i] # f)
    OBVIOUS
  <2>1. CASE i = 1
    <3>1. c[1] # c[2]
      BY <1>1, <1>2, <1>4 DEF IsInjective
    <3> QED BY <2>1, <3>1, <1>2, <1>4
  <2>2. CASE i # 1
    <3>1. c[i + 1] # c[2] /\ c[i + 1] # c[1] /\ c[i + 1] \in Range(c)
      BY <2>2, <1>1, <1>2, <1>3, <1>4, <1>5 DEF IsInjective
    <3> QED BY <2>2, <3>1, <1>2, <1>4
  <2> QED BY <2>1, <2>2
<1>7. d \in Seq(DOMAIN next2) /\ Len(d) = n - 1 /\ DOMAIN d = 1 .. n - 1
  <2>1. d \in [1 .. n - 1 -> DOMAIN next2]
    BY <1>6
  <2> HIDE DEF d
  <2>2. d \in Seq(DOMAIN next2) /\ Len(d) = n - 1
    BY <1>5, <2>1, FunctionIsSeq
  <2> QED BY <2>1, <2>2
<1>8. IsInjective(d)
  <2> SUFFICES ASSUME NEW i \in 1 .. n - 1, NEW j \in 1 .. n - 1, d[i] = d[j] PROVE i = j
    BY <1>7 DEF IsInjective
  <2>1. CASE i = 1 \/ j = 1
    BY <2>1, <1>6
  <2>2. CASE i # 1 /\ j # 1
    <3>1. i + 1 = j + 1
      BY <2>2, <1>1, <1>5 DEF IsInjective
    <3> QED BY <3>1, <1>5
  <2> QED BY <2>1, <2>2
<1>9. Range(d) = Range(c) \ {g}
  <2>1. ASSUME NEW x \in Range(c) \ {g} PROVE x \in Range(d)
    <3>1. PICK i \in DOMAIN c : c[i] = x
      BY DEF Range
    <3>2. CASE i = 1
      BY <3>1, <3>2, <1>2, <1>5, <1>7 DEF Range
    <3>3. CASE i # 1
      <4>1. i # 2 /\ i - 1 \in 1 .. n - 1 /\ (i - 1) + 1 = i /\ i - 1 # 1
        BY <3>1, <3>3, <1>2, <1>4
      <4>2. d[i - 1] = x
        BY <3>1, <4>1
      <4> HIDE DEF d
      <4> QED BY <4>1, <4>2, <1>7 DEF Range
    <3> QED BY <3>2, <3>3
  <2> HIDE DEF d
  <2> QED BY <2>1, <1>6, <1>7 DEF Range
<1>10. f = Nth(d, 1)
  BY <1>5, <1>7 DEF Nth
<1>11. ASSUME NEW i \in DOMAIN d PROVE next2[d[i]] = Nth(d, i + 1)
  <2>1. CASE i = 1
    <3>1. next2[d[i]] = Nth(c, 3)
      BY <2>1, <1>1, <1>4
    <3>2. 3 \in DOMAIN c <=> 2 \in DOMAIN d
      BY <1>2, <1>5, <1>7
    <3>3. 2 \in DOMAIN d => d[2] = c[3]
      BY <1>7
    <3> HIDE DEF d
    <3> QED BY <2>1, <3>1, <3>2, <3>3 DEF Nth
  <2>2. CASE i # 1
    <3>1. i \in 1 .. n - 1 /\ i + 1 \in DOMAIN c /\ i + 1 # 1
      BY <1>5, <1>7
    <3>2. d[i] = c[i + 1] /\ c[i + 1] \in Range(c)
      BY <2>2, <3>1, <1>3
    <3>3. d[i] # f /\ d[i] # g
      BY <2>2, <3>1, <1>6
    <3>4. next2[d[i]] = Nth(c, (i + 1) + 1)
      BY <3>1, <3>2, <3>3, <1>1
    <3>5. (i + 1) + 1 \in DOMAIN c <=> i + 1 \in DOMAIN d
      BY <3>1, <1>2, <1>7
    <3>6. i + 1 \in DOMAIN d => d[i + 1] = c[(i + 1) + 1]
      BY <3>1, <1>7, <1>5
    <3> HIDE DEF d
    <3> QED BY <3>4, <3>5, <3>6 DEF Nth
  <2> QED BY <2>1, <2>2
<1>12. Spells(f, next2, d)
  <2> HIDE DEF d
  <2> QED BY <1>7, <1>8, <1>10, <1>11 DEF Spells
<1>13. g \in Range(c) /\ f # g
  BY <1>1, <1>2, <1>3, <1>4 DEF IsInjective
<1> HIDE DEF d
<1> QED BY <1>2, <1>9, <1>12, <1>13

-----------------------------------------------------------------------------
(* The lists that chains of collectors make.                               *)

\* One more in front.
LEMMA InFront ==
  ASSUME NEW V, NEW x \in V, NEW r \in Seq(V)
  PROVE  /\ <<x>> \o r \in Seq(V) /\ Range(<<x>> \o r) = {x} \cup Range(r)
         /\ (IsInjective(r) /\ x \notin Range(r)) => IsInjective(<<x>> \o r)
<1> DEFINE one == <<x>>
           w   == one \o r
<1>1. one \in Seq(V)
  OBVIOUS
<1>2. Range(one) = {x} /\ Len(one) = 1 /\ one[1] = x
  BY DEF Range
<1> HIDE DEF one
<1>3. /\ w \in Seq(V) /\ Len(w) = 1 + Len(r)
      /\ \A i \in 1 .. 1 + Len(r) : w[i] = IF i <= 1 THEN one[i] ELSE r[i - 1]
  <2>1. /\ w \in Seq(V) /\ Len(w) = Len(one) + Len(r)
        /\ \A i \in 1 .. Len(one) + Len(r) : w[i] = IF i <= Len(one) THEN one[i]
                                                   ELSE r[i - Len(one)]
    BY <1>1, ConcatProperties
  <2> HIDE DEF w
  <2> QED BY <2>1, <1>2
<1>4. Range(w) = {x} \cup Range(r)
  BY <1>1, <1>2, RangeConcatenation
<1> HIDE DEF w
<1>5. Len(r) \in Nat /\ DOMAIN r = 1 .. Len(r) /\ DOMAIN w = 1 .. 1 + Len(r)
  BY <1>3, LenProperties
<1>6. ASSUME IsInjective(r), x \notin Range(r) PROVE IsInjective(w)
  <2>1. ASSUME NEW i \in 1 .. 1 + Len(r)
        PROVE  \/ i = 1 /\ w[i] = x
               \/ i - 1 \in DOMAIN r /\ w[i] = r[i - 1] /\ w[i] \in Range(r)
    <3>1. CASE i = 1
      BY <3>1, <1>2, <1>3
    <3>2. CASE i # 1
      <4>1. i - 1 \in DOMAIN r /\ ~ (i <= 1)
        BY <3>2, <1>5
      <4>2. w[i] = r[i - 1]
        BY <4>1, <1>3
      <4> QED BY <4>1, <4>2 DEF Range
    <3> QED BY <3>1, <3>2
  <2> SUFFICES ASSUME NEW i \in 1 .. 1 + Len(r), NEW j \in 1 .. 1 + Len(r), w[i] = w[j]
               PROVE  i = j
    BY <1>5 DEF IsInjective
  <2>2. (i = 1 /\ j = 1) \/ i - 1 = j - 1
    BY <2>1, <1>6 DEF IsInjective
  <2> QED BY <2>2, <1>5
<1> QED BY <1>3, <1>4, <1>6 DEF w, one

-----------------------------------------------------------------------------
(* The lists of a state.                                                   *)

LEMMA MemReads ==
  ASSUME Typed, NEW c, Spells(freelst, MemNext, c)
  PROVE  Collectors = c
<1>1. DOMAIN MemNext = heap /\ heap \in SUBSET Nodes
  BY DEF Typed, MemNext
<1>2. IsFiniteSet(DOMAIN MemNext) /\ NULL \notin DOMAIN MemNext
  BY <1>1, Numbers, FiniteNumbers
<1>3. Chain(freelst, MemNext) = c
  <2> HIDE DEF MemNext
  <2> QED BY <1>2, ChainReads
<1> QED BY <1>3 DEF Collectors

LEMMA DiskReads ==
  ASSUME DOMAIN dfbc = 1 .. DISKBLOCKTOTAL - 1, NEW d, Spells(dsuper, DiskNext, d)
  PROVE  DiskChain = d /\ DiskSound
<1>1. DOMAIN DiskNext \in SUBSET (1 .. DISKBLOCKTOTAL - 1)
  BY DEF DiskNext
<1>2. IsFiniteSet(DOMAIN DiskNext) /\ NULL \notin DOMAIN DiskNext
  BY <1>1, FiniteNumbers, LayoutAssumption DEF NULL
<1>3. Chain(dsuper, DiskNext) = d /\ Sound(dsuper, DiskNext)
  BY <1>2, ChainReads
<1> QED BY <1>3 DEF DiskChain, DiskSound

\* The shape of the list in memory.
LEMMA MemShape ==
  ASSUME Typed, NEW c, MemGood(c)
  PROVE  /\ Collectors = c /\ Spells(freelst, MemNext, c)
         /\ Len(c) \in Nat /\ DOMAIN c = 1 .. Len(c) /\ c \in [1 .. Len(c) -> Nodes]
         /\ Range(c) \subseteq heap /\ Range(c) \subseteq Nodes
         /\ freelst = NULL <=> c = <<>>
         /\ freelst # NULL => freelst \in Range(c) /\ freelst = c[1] /\ 1 \in DOMAIN c
         /\ \A n \in Range(c) : node[n].next \in {NULL} \cup Range(c)
         /\ c # <<>> => /\ Len(c) \in DOMAIN c /\ Last(c) = c[Len(c)] /\ Last(c) \in Range(c)
                        /\ node[Last(c)].next = NULL
<1>1. Spells(freelst, MemNext, c)
  BY DEF MemGood
<1>2. DOMAIN MemNext = heap /\ heap \subseteq Nodes /\ \A n \in heap : MemNext[n] = node[n].next
  BY DEF Typed, MemNext
<1>3. NULL \notin DOMAIN MemNext
  BY <1>2, Numbers
<1>4. Collectors = c
  BY <1>1, MemReads
<1> HIDE DEF MemNext
<1>5. /\ Len(c) \in Nat /\ DOMAIN c = 1 .. Len(c) /\ c \in Seq(DOMAIN MemNext)
      /\ Range(c) \subseteq DOMAIN MemNext
      /\ freelst = NULL <=> c = <<>>
      /\ freelst # NULL => freelst \in Range(c) /\ freelst = c[1] /\ 1 \in DOMAIN c
      /\ \A n \in Range(c) : MemNext[n] \in {NULL} \cup Range(c)
      /\ c # <<>> => /\ Len(c) \in DOMAIN c /\ Last(c) = c[Len(c)] /\ Last(c) \in Range(c)
                     /\ MemNext[Last(c)] = NULL
  BY <1>1, <1>3, SpellsShape
<1>6. \A i \in DOMAIN c : c[i] \in Nodes
  BY <1>2, <1>5 DEF Range
<1>7. c \in [1 .. Len(c) -> Nodes]
  BY <1>5, <1>6, LenProperties
<1> QED BY <1>1, <1>2, <1>4, <1>5, <1>7

\* What the list in memory has, every block once.
LEMMA MemListHas ==
  ASSUME Typed, MemGood(Collectors)
  PROVE  Range(MemList) = InMem /\ IsInjective(MemList)
<1> DEFINE c == Collectors
           n == Len(c)
           s == [i \in DOMAIN c |-> <<node[c[i]].blocknum>> \o node[c[i]].free]
<1>1. n \in Nat /\ DOMAIN c = 1 .. n
  BY MemShape
<1>2. ASSUME NEW i \in 1 .. n
      PROVE  s[i] \in Seq(Blocks) /\ Range(s[i]) = Group(c[i]) /\ IsInjective(s[i])
  <2>1. c[i] \in Range(c)
    BY <1>1 DEF Range
  <2>2. /\ node[c[i]].blocknum \in Blocks /\ node[c[i]].free \in Seq(Blocks)
        /\ IsInjective(node[c[i]].free) /\ node[c[i]].blocknum \notin Range(node[c[i]].free)
    BY <2>1 DEF MemGood, Tidy
  <2>3. s[i] = <<node[c[i]].blocknum>> \o node[c[i]].free
    BY <1>1
  <2> HIDE DEF s
  <2>4. /\ s[i] \in Seq(Blocks) /\ Range(s[i]) = {node[c[i]].blocknum} \cup Range(node[c[i]].free)
        /\ IsInjective(s[i])
    BY <2>2, <2>3, InFront
  <2> QED BY <2>4 DEF Group
<1>3. DOMAIN s = 1 .. n /\ s \in [1 .. n -> Seq(Blocks)]
  BY <1>1, <1>2
<1>4. MemList = FlattenSeq(s)
  BY DEF MemList
<1>5. \A i, j \in 1 .. n : i # j => Group(c[i]) \cap Group(c[j]) = {}
  <2>1. \A i \in 1 .. n : c[i] \in Range(c)
    BY <1>1 DEF Range
  <2>2. \A i, j \in 1 .. n : i # j => c[i] # c[j]
    BY <1>1 DEF MemGood, Spells, IsInjective
  <2> QED BY <2>1, <2>2 DEF MemGood
<1> HIDE DEF s, c, n
<1>6. Range(FlattenSeq(s)) = UNION {Range(s[i]) : i \in DOMAIN s} /\ IsInjective(FlattenSeq(s))
  <2>1. s \in Seq(Seq(Blocks))
    BY <1>1, <1>3, FunctionIsSeq
  <2>2. /\ \A i \in DOMAIN s : IsInjective(s[i])
        /\ \A i, j \in DOMAIN s : i # j => Range(s[i]) \cap Range(s[j]) = {}
    BY <1>2, <1>3, <1>5
  <2> QED BY <2>1, <2>2, FlattenGives
<1>7. UNION {Range(s[i]) : i \in DOMAIN s} = UNION {Group(m) : m \in Range(c)}
  <2>1. \A i \in DOMAIN s : Range(s[i]) = Group(c[i])
    BY <1>2, <1>3
  <2>2. Range(c) = {c[i] : i \in DOMAIN s}
    BY <1>1, <1>3 DEF Range
  <2> QED BY <2>1, <2>2
<1> QED BY <1>4, <1>6, <1>7 DEF InMem, c

LEMMA DiskShape ==
  ASSUME DOMAIN dfbc = 1 .. DISKBLOCKTOTAL - 1, NEW d, DiskGood(d)
  PROVE  /\ DiskChain = d /\ DiskSound /\ Spells(dsuper, DiskNext, d)
         /\ Len(d) \in Nat /\ DOMAIN d = 1 .. Len(d) /\ d \in [1 .. Len(d) -> Blocks]
         /\ Range(d) \subseteq DOMAIN DiskNext /\ Range(d) \subseteq Blocks
         /\ dsuper = NULL <=> d = <<>>
<1>1. Spells(dsuper, DiskNext, d) /\ \A b \in Range(d) : Tidy(b, dfbc[b].free)
  BY DEF DiskGood
<1>2. DiskChain = d /\ DiskSound
  BY <1>1, DiskReads
<1>3. NULL \notin DOMAIN DiskNext
  BY LayoutAssumption DEF NULL, DiskNext
<1>4. /\ Len(d) \in Nat /\ DOMAIN d = 1 .. Len(d) /\ d \in Seq(DOMAIN DiskNext)
      /\ Range(d) \subseteq DOMAIN DiskNext
      /\ dsuper = NULL <=> d = <<>>
  BY <1>1, <1>3, SpellsShape
<1>5. \A i \in DOMAIN d : d[i] \in Range(d) /\ d[i] \in Blocks
  BY <1>1 DEF Range, Tidy
<1>6. d \in [1 .. Len(d) -> Blocks]
  BY <1>4, <1>5, LenProperties
<1>7. Range(d) \subseteq Blocks
  BY <1>1 DEF Tidy
<1> QED BY <1>1, <1>2, <1>4, <1>6, <1>7

\* What the list on disk has, every block once.
LEMMA DiskListHas ==
  ASSUME Typed, DiskGood(DiskChain)
  PROVE  Range(DiskList) = InDisk /\ IsInjective(DiskList)
<1> DEFINE c == DiskChain
           n == Len(c)
           s == [i \in DOMAIN c |-> <<c[i]>> \o dfbc[c[i]].free]
<1>1. n \in Nat /\ DOMAIN c = 1 .. n
  BY DiskShape DEF Typed
<1>2. \A i \in 1 .. n : c[i] \in Range(c)
  BY <1>1 DEF Range
<1>3. ASSUME NEW i \in 1 .. n
      PROVE  s[i] \in Seq(Blocks) /\ Range(s[i]) = Cut(c[i]) /\ IsInjective(s[i])
  <2>1. Tidy(c[i], dfbc[c[i]].free)
    BY <1>2 DEF DiskGood
  <2>2. s[i] = <<c[i]>> \o dfbc[c[i]].free
    BY <1>1
  <2>3. /\ c[i] \in Blocks /\ dfbc[c[i]].free \in Seq(Blocks)
        /\ IsInjective(dfbc[c[i]].free) /\ c[i] \notin Range(dfbc[c[i]].free)
    BY <2>1 DEF Tidy
  <2> HIDE DEF s
  <2>4. /\ s[i] \in Seq(Blocks) /\ Range(s[i]) = {c[i]} \cup Range(dfbc[c[i]].free)
        /\ IsInjective(s[i])
    BY <2>2, <2>3, InFront
  <2> QED BY <2>4 DEF Cut
<1>4. DOMAIN s = 1 .. n /\ s \in [1 .. n -> Seq(Blocks)]
  BY <1>1, <1>3
<1>5. DiskList = FlattenSeq(s)
  BY DEF DiskList
<1>6. \A i, j \in 1 .. n : i # j => Cut(c[i]) \cap Cut(c[j]) = {}
  <2>1. \A i, j \in 1 .. n : i # j => c[i] # c[j]
    BY <1>1 DEF DiskGood, Spells, IsInjective
  <2> QED BY <2>1, <1>2 DEF DiskGood
<1> HIDE DEF s, c, n
<1>7. s \in Seq(Seq(Blocks))
  BY <1>1, <1>4, FunctionIsSeq
<1>8. /\ \A i \in DOMAIN s : IsInjective(s[i])
      /\ \A i, j \in DOMAIN s : i # j => Range(s[i]) \cap Range(s[j]) = {}
  BY <1>3, <1>4, <1>6
<1>9. Range(FlattenSeq(s)) = UNION {Range(s[i]) : i \in DOMAIN s} /\ IsInjective(FlattenSeq(s))
  BY <1>7, <1>8, FlattenGives
<1>10. UNION {Range(s[i]) : i \in DOMAIN s} = UNION {Cut(m) : m \in Range(c)}
  <2>1. \A i \in DOMAIN s : Range(s[i]) = Cut(c[i])
    BY <1>3, <1>4
  <2>2. Range(c) = {c[i] : i \in DOMAIN s}
    BY <1>1, <1>4 DEF Range
  <2> QED BY <2>1, <2>2
<1> QED BY <1>5, <1>9, <1>10 DEF InDisk, c

\* With everything written the disk has what memory has.
LEMMA DiskFollows ==
  ASSUME Typed, NEW c, MemGood(c), dsuper = BlockOf(freelst),
         \A n \in Range(c) : dfbc[node[n].blocknum] = Image(n)
  PROVE  /\ DiskChain = [i \in DOMAIN c |-> node[c[i]].blocknum]
         /\ \A i \in DOMAIN c : dfbc[DiskChain[i]].free = node[c[i]].free
         /\ DiskGood(DiskChain) /\ InDisk = InMem
<1> DEFINE d == [i \in DOMAIN c |-> node[c[i]].blocknum]
           n == Len(c)
<1>1. /\ Collectors = c /\ Spells(freelst, MemNext, c)
      /\ n \in Nat /\ DOMAIN c = 1 .. n /\ Range(c) \subseteq heap /\ Range(c) \subseteq Nodes
      /\ \A m \in Range(c) : node[m].next \in {NULL} \cup Range(c)
  BY MemShape
<1>2. \A m \in Range(c) : Tidy(node[m].blocknum, node[m].free)
  BY DEF MemGood
<1>3. \A i \in DOMAIN c : c[i] \in Range(c)
  BY DEF Range
<1>4. \A m \in Range(c) : BlockOf(m) = node[m].blocknum /\ node[m].blocknum \in Blocks
  BY <1>1, <1>2 DEF BlockOf, Tidy
<1>5. BlockOf(NULL) = NULL
  BY Numbers DEF BlockOf, Typed
<1>6. \A i : BlockOf(Nth(c, i)) = Nth(d, i)
  BY <1>3, <1>4, <1>5 DEF Nth
<1>7. \A m \in Range(c) : /\ dfbc[node[m].blocknum].free = node[m].free
                          /\ dfbc[node[m].blocknum].next = BlockOf(node[m].next)
  <2> SUFFICES ASSUME NEW m \in Range(c)
               PROVE  /\ dfbc[node[m].blocknum].free = node[m].free
                      /\ dfbc[node[m].blocknum].next = BlockOf(node[m].next)
    OBVIOUS
  <2>1. m # SUPER
    BY <1>1, Numbers
  <2>2. dfbc[node[m].blocknum] = Image(m)
    OBVIOUS
  <2> QED BY <2>1, <2>2 DEF Image
<1>8. \A m \in Range(c) : node[m].blocknum \in DOMAIN DiskNext
                          /\ DiskNext[node[m].blocknum] = BlockOf(node[m].next)
  <2> SUFFICES ASSUME NEW m \in Range(c)
               PROVE  node[m].blocknum \in DOMAIN DiskNext
                      /\ DiskNext[node[m].blocknum] = BlockOf(node[m].next)
    OBVIOUS
  <2>1. BlockOf(node[m].next) \in {NULL} \cup Blocks
    BY <1>1, <1>4, <1>5
  <2>2. dfbc[node[m].blocknum] # NoFbc
    BY <2>1, <1>7, Numbers DEF NoFbc
  <2>3. node[m].blocknum \in DOMAIN dfbc
    BY <1>4, Numbers DEF Typed
  <2>4. dfbc[node[m].blocknum].next = BlockOf(node[m].next)
    BY <1>7
  <2> QED BY <2>2, <2>3, <2>4 DEF DiskNext
<1>9. d \in Seq(DOMAIN DiskNext) /\ DOMAIN d = DOMAIN c /\ Len(d) = n
  <2>1. d \in [1 .. n -> DOMAIN DiskNext]
    BY <1>1, <1>3, <1>8
  <2> HIDE DEF d, n
  <2> QED BY <1>1, <2>1, FunctionIsSeq, LenProperties
<1>10. \A a, b \in Range(c) : a # b => node[a].blocknum # node[b].blocknum
  BY DEF MemGood, Group
<1>11. IsInjective(d)
  <2> SUFFICES ASSUME NEW i \in DOMAIN c, NEW j \in DOMAIN c, d[i] = d[j] PROVE i = j
    BY DEF IsInjective
  <2>1. c[i] = c[j]
    BY <1>3, <1>10
  <2> QED BY <2>1 DEF MemGood, Spells, IsInjective
<1>12. dsuper = Nth(d, 1)
  BY <1>6 DEF MemGood, Spells
<1>13. \A i \in DOMAIN d : DiskNext[d[i]] = Nth(d, i + 1)
  <2>1. \A i \in DOMAIN c : node[c[i]].next = Nth(c, i + 1)
    BY <1>1, <1>3 DEF Spells, MemNext
  <2> QED BY <2>1, <1>3, <1>6, <1>8
<1>14. Range(d) = {node[m].blocknum : m \in Range(c)}
  BY <1>3 DEF Range
<1>15. \A m \in Range(c) : Cut(node[m].blocknum) = Group(m)
  BY <1>7 DEF Cut, Group
<1>16. \A i \in DOMAIN c : dfbc[d[i]].free = node[c[i]].free
  BY <1>3, <1>7
<1> HIDE DEF d
<1>17. Spells(dsuper, DiskNext, d)
  BY <1>9, <1>11, <1>12, <1>13 DEF Spells
<1>18. \A b \in Range(d) : Tidy(b, dfbc[b].free)
  BY <1>2, <1>7, <1>14
<1>19. \A a, b \in Range(d) : a # b => Cut(a) \cap Cut(b) = {}
  BY <1>14, <1>15 DEF MemGood
<1>20. DiskGood(d) /\ DiskChain = d
  BY <1>17, <1>18, <1>19, DiskReads DEF DiskGood, Typed
<1>21. InDisk = InMem
  <2>1. UNION {Cut(b) : b \in Range(d)} = UNION {Group(m) : m \in Range(c)}
    BY <1>14, <1>15
  <2> QED BY <2>1, <1>1, <1>20 DEF InDisk, InMem
<1> QED BY <1>16, <1>20, <1>21 DEF d

-----------------------------------------------------------------------------
(* A list that has just been read from disk (sbOpenFreeList()).            *)

OpenedList ==
    /\ Len(DiskChain) <= NNODES /\ heap = 1 .. Len(DiskChain)
    /\ freelst = IF DiskChain = <<>> THEN NULL ELSE 1
    /\ node = [n \in Nodes |-> IF n \in heap THEN Opened(n) ELSE NoNode]

LEMMA OpenedTyped ==
  ASSUME dfbc \in [1 .. DISKBLOCKTOTAL - 1 -> Fbc], DiskGood(DiskChain), OpenedList
  PROVE  /\ freelst \in Int /\ node \in [Nodes -> Node] /\ heap \subseteq Nodes
         /\ \A n \in heap : /\ node[n] = Opened(n) /\ DiskChain[n] \in Range(DiskChain)
                            /\ n \in DOMAIN DiskChain /\ DiskChain[n] \in Blocks
<1> DEFINE d == DiskChain
<1>1. Len(d) \in Nat /\ DOMAIN d = 1 .. Len(d) /\ Range(d) \subseteq Blocks
  BY DiskShape
<1>2. heap \subseteq Nodes /\ heap = DOMAIN d
  BY <1>1, LayoutAssumption DEF OpenedList, Nodes
<1>3. \A n \in heap : d[n] \in Range(d) /\ d[n] \in Blocks /\ Tidy(d[n], dfbc[d[n]].free)
  BY <1>1, <1>2 DEF DiskGood, Range
<1>4. \A n \in heap : Opened(n) \in Node
  <2> SUFFICES ASSUME NEW n \in heap PROVE Opened(n) \in Node
    OBVIOUS
  <2>1. d[n] \in Int /\ dfbc[d[n]].free \in Seq(Blocks)
    BY <1>3, Numbers DEF Tidy
  <2>2. (IF n < Len(d) THEN n + 1 ELSE NULL) \in Int
    BY <1>1, <1>2, Numbers
  <2> QED BY <2>1, <2>2 DEF Opened, Node
<1>5. NoNode \in Node
  BY Numbers DEF NoNode, Node
<1>6. node \in [Nodes -> Node]
  BY <1>4, <1>5 DEF OpenedList
<1>7. freelst \in Int
  BY Numbers DEF OpenedList
<1>8. \A n \in heap : node[n] = Opened(n)
  BY <1>2 DEF OpenedList
<1> QED BY <1>2, <1>3, <1>6, <1>7, <1>8

LEMMA OpenedGood ==
  ASSUME Typed, DiskGood(DiskChain), OpenedList
  PROVE  /\ MemGood(Collectors) /\ heap = Range(Collectors) /\ InMem = InDisk
         /\ dsuper = BlockOf(freelst)
         /\ \A n \in Range(Collectors) : dfbc[node[n].blocknum] = Image(n)
<1> DEFINE d == DiskChain
           k == Len(d)
           c == [i \in 1 .. k |-> i]
<1>1. /\ Spells(dsuper, DiskNext, d) /\ k \in Nat /\ DOMAIN d = 1 .. k
      /\ Range(d) \subseteq DOMAIN DiskNext
  BY DiskShape DEF Typed
<1>2. \A n \in heap : /\ node[n] = Opened(n) /\ d[n] \in Range(d) /\ n \in 1 .. k
                      /\ d[n] \in Blocks
  BY <1>1, OpenedTyped DEF Typed
<1>3. heap = 1 .. k /\ heap \subseteq Nodes
  BY DEF OpenedList, Typed
<1>4. \A n \in heap : /\ node[n].blocknum = d[n] /\ node[n].free = dfbc[d[n]].free
                      /\ node[n].next = IF n < k THEN n + 1 ELSE NULL
  <2> SUFFICES ASSUME NEW n \in heap
               PROVE  /\ node[n].blocknum = d[n] /\ node[n].free = dfbc[d[n]].free
                      /\ node[n].next = IF n < k THEN n + 1 ELSE NULL
    OBVIOUS
  <2>1. node[n] = [blocknum |-> d[n], free |-> dfbc[d[n]].free,
                   next |-> IF n < k THEN n + 1 ELSE NULL]
    BY <1>2 DEF Opened
  <2> QED BY <2>1
<1>5. DOMAIN c = 1 .. k /\ Range(c) = heap /\ c \in Seq(heap) /\ IsInjective(c)
      /\ (c = <<>> <=> k = 0)
  <2>1. DOMAIN c = 1 .. k /\ Range(c) = heap /\ c \in [1 .. k -> heap] /\ IsInjective(c)
    BY <1>3 DEF Range, IsInjective
  <2> HIDE DEF c, k
  <2>2. c \in Seq(heap) /\ Len(c) = k
    BY <1>1, <2>1, FunctionIsSeq
  <2> QED BY <2>1, <2>2, EmptySeq
<1>6. \A i \in 1 .. k : c[i] = i
  OBVIOUS
<1>7. d = <<>> <=> k = 0
  BY <1>1, EmptySeq DEF Spells
<1> HIDE DEF c
<1>8. Spells(freelst, MemNext, c)
  <2>1. DOMAIN MemNext = heap /\ \A n \in heap : MemNext[n] = node[n].next
    BY DEF MemNext
  <2>2. freelst = Nth(c, 1)
    BY <1>1, <1>5, <1>6, <1>7 DEF Nth, OpenedList
  <2>3. ASSUME NEW i \in DOMAIN c PROVE MemNext[c[i]] = Nth(c, i + 1)
    <3>1. i \in 1 .. k /\ i \in heap
      BY <1>3, <1>5
    <3>2. MemNext[c[i]] = IF i < k THEN i + 1 ELSE NULL
      BY <3>1, <2>1, <1>4, <1>6
    <3>3. i + 1 \in DOMAIN c <=> i < k
      BY <3>1, <1>1, <1>5
    <3>4. i + 1 \in DOMAIN c => c[i + 1] = i + 1
      BY <1>5, <1>6
    <3> QED BY <3>2, <3>3, <3>4 DEF Nth
  <2> QED BY <2>1, <2>2, <2>3, <1>5 DEF Spells
<1>9. Collectors = c
  BY <1>8, MemReads
<1>10. \A n \in heap : Group(n) = Cut(d[n])
  BY <1>4 DEF Group, Cut
<1>11. MemGood(c)
  <2>1. \A n \in heap : Tidy(node[n].blocknum, node[n].free)
    BY <1>2, <1>4 DEF DiskGood
  <2>2. \A m, n \in heap : m # n => Group(m) \cap Group(n) = {}
    <3>1. \A m, n \in heap : m # n => d[m] # d[n]
      BY <1>1, <1>2 DEF Spells, IsInjective
    <3> QED BY <3>1, <1>2, <1>10 DEF DiskGood
  <2> QED BY <2>1, <2>2, <1>5, <1>8 DEF MemGood
<1>12. InMem = InDisk
  <2>1. Range(d) = {d[n] : n \in heap}
    BY <1>1, <1>3 DEF Range
  <2>2. UNION {Group(n) : n \in heap} = UNION {Cut(b) : b \in Range(d)}
    BY <2>1, <1>10
  <2> QED BY <2>2, <1>5, <1>9 DEF InMem, InDisk
<1>13. \A n \in heap : BlockOf(n) = d[n]
  BY <1>4 DEF BlockOf
<1>14. BlockOf(NULL) = NULL
  BY <1>3, Numbers DEF BlockOf
<1>15. dsuper = BlockOf(freelst)
  <2>1. dsuper = Nth(d, 1)
    BY <1>1 DEF Spells
  <2>2. 1 \in DOMAIN d <=> k # 0
    BY <1>1
  <2> QED BY <2>1, <2>2, <1>1, <1>3, <1>7, <1>13, <1>14 DEF Nth, OpenedList
<1>16. ASSUME NEW n \in heap PROVE dfbc[node[n].blocknum] = Image(n)
  <2>1. dfbc[d[n]] \in Fbc
    BY <1>2, Numbers DEF Typed
  <2>2. dfbc[d[n]].next = Nth(d, n + 1)
    BY <1>1, <1>2 DEF Spells, DiskNext
  <2>3. BlockOf(node[n].next) = Nth(d, n + 1)
    <3>1. n \in 1 .. k /\ (n < k <=> n + 1 \in DOMAIN d) /\ (n + 1 \in DOMAIN d => n + 1 \in heap)
      BY <1>1, <1>2, <1>3
    <3> QED BY <3>1, <1>4, <1>13, <1>14 DEF Nth
  <2>4. n # SUPER
    BY <1>3, Numbers
  <2>5. Image(n) = [free |-> dfbc[d[n]].free, next |-> dfbc[d[n]].next]
    BY <2>2, <2>3, <2>4, <1>4 DEF Image
  <2>6. dfbc[d[n]] = [free |-> dfbc[d[n]].free, next |-> dfbc[d[n]].next]
    BY <2>1 DEF Fbc
  <2> QED BY <2>5, <2>6, <1>4
<1> QED BY <1>5, <1>9, <1>11, <1>12, <1>15, <1>16

-----------------------------------------------------------------------------
(* The lock is free: nothing is due, and every pointer can be followed.    *)

LEMMA LockFree ==
  ASSUME NEW used, ListInv(used), DiskInv, freelock = 1
  PROVE  /\ \A p \in Procs : ~ AtDisk(p) /\ ~ Linking(p)
         /\ swz = {} /\ Due = {} /\ ~ HalfWritten /\ Readable(used)
         /\ heap = Range(Collectors)
         /\ dsuper = BlockOf(freelst)
         /\ \A n \in Range(Collectors) : dfbc[node[n].blocknum] = Image(n)
<1>1. \A p \in Procs : ~ AtDisk(p)
  BY DEF DiskInv, Exclusive
<1>2. \A p \in Procs : ~ Linking(p)
  BY <1>1 DEF AtDisk, Linking
<1>3. ~ HalfWritten
  BY <1>2 DEF HalfWritten, HalfLinked
<1>4. Due = {}
  BY <1>1 DEF Due
<1>5. swz = {}
  BY <1>1 DEF ListInv, Settled
<1>6. heap = Range(Collectors)
  <2>1. Range(Collectors) \subseteq heap /\ heap \subseteq Nodes
    BY MemShape DEF ListInv, Typed
  <2>2. \A p \in Procs : call[p].drop = NULL
    BY <1>1 DEF ListInv, CallOK
  <2>3. heap \subseteq Range(Collectors) \cup {NULL}
    BY <2>2 DEF ListInv, Settled
  <2> QED BY <2>1, <2>3, Numbers
<1>7. Readable(used)
  BY <1>3 DEF ListInv
<1>8. /\ dsuper = BlockOf(freelst)
      /\ \A n \in Range(Collectors) : dfbc[node[n].blocknum] = Image(n)
  BY <1>4 DEF ListInv, Written
<1> QED BY <1>1, <1>2, <1>3, <1>4, <1>5, <1>6, <1>7, <1>8

LEMMA Pointers ==
  ASSUME Typed, MemGood(Collectors), swz = {}
  PROVE  /\ ReadHead = freelst
         /\ \A n \in Range(Collectors) : Usable(n) /\ ReadNext(n) = node[n].next
         /\ freelst # NULL => ListIntact
<1>1. /\ Range(Collectors) \subseteq heap /\ heap \subseteq Nodes
      /\ \A n \in Range(Collectors) : node[n].next \in {NULL} \cup Range(Collectors)
      /\ freelst # NULL => freelst \in Range(Collectors)
  BY MemShape DEF Typed
<1>2. ReadHead = freelst
  BY DEF ReadHead
<1>3. \A n \in Range(Collectors) : ReadNext(n) = node[n].next /\ n \in heap
  BY <1>1 DEF ReadNext
<1>4. \A n \in Range(Collectors) : node[n].next # Wild
  BY <1>1, Numbers
<1>5. \A n \in Range(Collectors) : Usable(n)
  BY <1>3, <1>4 DEF Usable
<1>6. freelst # NULL => ListIntact
  BY <1>1, <1>2, <1>5 DEF ListIntact, Range
<1> QED BY <1>2, <1>3, <1>5, <1>6

\* One block for each call and the used ones are not more than those out.
LEMMA HandsFull ==
  ASSUME NEW used \in SUBSET Blocks, Typed, IsFiniteSet(Procs),
         NEW g \in [Calls -> Int], NEW S \in SUBSET Blocks,
         S \subseteq used \cup {g[q] : q \in Calls}
  PROVE  /\ IsFiniteSet(S) /\ Cardinality(S) \in Nat
         /\ Cardinality(S) <= Cardinality(used) + Cardinality(Calls)
<1> DEFINE T == {g[q] : q \in Calls}
<1>1. IsFiniteSet(Calls)
  <2>1. Calls \in SUBSET Procs
    BY DEF Calls
  <2> QED BY <2>1, FS_Subset
<1>2. g \in Surjection(Calls, T)
  BY DEF Surjection
<1>3. S \subseteq used \cup T
  OBVIOUS
<1> HIDE DEF T
<1>4. IsFiniteSet(T) /\ Cardinality(T) <= Cardinality(Calls)
  BY <1>1, <1>2, FS_Surjection
<1>5. IsFiniteSet(used) /\ IsFiniteSet(S)
  BY FiniteNumbers
<1>6. /\ IsFiniteSet(used \cup T)
      /\ Cardinality(used \cup T) = Cardinality(used) + Cardinality(T) - Cardinality(used \cap T)
  BY <1>4, <1>5, FS_Union
<1>7. Cardinality(used \cap T) \in Nat
  <2>1. IsFiniteSet(used \cap T)
    BY <1>5, FS_Subset
  <2> QED BY <2>1, FS_CardinalityType
<1>8. Cardinality(S) <= Cardinality(used \cup T)
  <2>1. S \in SUBSET (used \cup T)
    BY <1>3
  <2> QED BY <2>1, <1>6, FS_Subset
<1>9. /\ Cardinality(used) \in Nat /\ Cardinality(T) \in Nat /\ Cardinality(Calls) \in Nat
      /\ Cardinality(S) \in Nat
  BY <1>1, <1>4, <1>5, FS_CardinalityType
<1> QED BY <1>4, <1>5, <1>6, <1>7, <1>8, <1>9

\* If that is all there is, so is one process.
LEMMA NoneLeft ==
  ASSUME NEW used \in SUBSET Blocks, Roomy, Typed, Counted(used), NEW g \in [Calls -> Int],
         Blocks \subseteq used \cup {g[q] : q \in Calls}
  PROVE  Solo
<1> SUFFICES ASSUME ~ Solo PROVE FALSE
  OBVIOUS
<1>1. /\ IsFiniteSet(Procs) /\ MaxHeld < Cardinality(Blocks)
      /\ Cardinality(used) + Cardinality(Calls) <= MaxHeld
  BY DEF Roomy, Counted
<1>2. Cardinality(Blocks) <= Cardinality(used) + Cardinality(Calls) /\ Cardinality(Blocks) \in Nat
  <2>1. Blocks \in SUBSET Blocks
    OBVIOUS
  <2> QED BY <2>1, <1>1, HandsFull
<1>3. Cardinality(used) \in Nat /\ Cardinality(Calls) \in Nat
  <2>1. IsFiniteSet(used) /\ Calls \in SUBSET Procs
    BY FiniteNumbers DEF Calls
  <2> QED BY <2>1, <1>1, FS_Subset, FS_CardinalityType
<1> QED BY <1>1, <1>2, <1>3, ClientAssumption

-----------------------------------------------------------------------------
(* Sequences that lose or gain their last entry, and short ones.           *)

LEMMA WithoutLast ==
  ASSUME NEW V, NEW s \in Seq(V), s # <<>>, IsInjective(s)
  PROVE  /\ Front(s) \in Seq(V) /\ Len(Front(s)) = Len(s) - 1 /\ IsInjective(Front(s))
         /\ Last(s) \in V /\ Last(s) \in Range(s)
         /\ Range(Front(s)) = Range(s) \ {Last(s)} /\ Len(s) \in Nat
<1> DEFINE n == Len(s)
           w == Front(s)
<1>1. n \in Nat /\ DOMAIN s = 1 .. n /\ n \in 1 .. n
  BY EmptySeq, LenProperties
<1>2. w \in Seq(V) /\ Len(w) = n - 1 /\ \A i \in 1 .. n - 1 : w[i] = s[i]
  <2>1. w = SubSeq(s, 1, n - 1)
    BY DEF Front
  <2>2. 1 \in 1 .. n + 1 /\ n - 1 \in 1 - 1 .. n
    BY <1>1
  <2>3. /\ SubSeq(s, 1, n - 1) \in Seq(V)
        /\ Len(SubSeq(s, 1, n - 1)) = IF 1 <= n - 1 THEN (n - 1) - 1 + 1 ELSE 0
        /\ \A i \in 1 .. (n - 1) - 1 + 1 : SubSeq(s, 1, n - 1)[i] = s[1 + i - 1]
    BY <1>1, <2>2, SubSeqProperties
  <2> HIDE DEF w
  <2>4. (n - 1) - 1 + 1 = n - 1 /\ \A i \in 1 .. n - 1 : 1 + i - 1 = i
    BY <1>1
  <2>5. Len(SubSeq(s, 1, n - 1)) = n - 1
    BY <1>1, <2>3
  <2> HIDE DEF n
  <2> QED BY <2>1, <2>3, <2>4, <2>5
<1>3. DOMAIN w = 1 .. n - 1
  BY <1>2, LenProperties
<1>4. Last(s) = s[n] /\ s[n] \in V /\ s[n] \in Range(s)
  BY <1>1 DEF Last, Range
<1> HIDE DEF w, n
<1>5. \A i \in 1 .. n - 1 : i \in 1 .. n /\ i # n
  BY <1>1
<1>6. \A i \in 1 .. n : i = n \/ i \in 1 .. n - 1
  BY <1>1
<1>7. IsInjective(w)
  BY <1>1, <1>2, <1>3, <1>5 DEF IsInjective
<1>8. Range(w) = Range(s) \ {s[n]}
  BY <1>1, <1>2, <1>3, <1>5, <1>6 DEF IsInjective, Range
<1> QED BY <1>1, <1>2, <1>4, <1>7, <1>8 DEF w, n

LEMMA WithLast ==
  ASSUME NEW V, NEW s \in Seq(V), IsInjective(s), NEW x \in V, x \notin Range(s)
  PROVE  /\ Append(s, x) \in Seq(V) /\ Len(Append(s, x)) = Len(s) + 1
         /\ IsInjective(Append(s, x)) /\ Range(Append(s, x)) = Range(s) \cup {x}
         /\ Len(s) \in Nat
<1> DEFINE n == Len(s)
           w == Append(s, x)
<1>1. n \in Nat /\ DOMAIN s = 1 .. n
  BY LenProperties
<1>2. w \in Seq(V) /\ Len(w) = n + 1 /\ (\A i \in 1 .. n : w[i] = s[i]) /\ w[n + 1] = x
  BY AppendProperties
<1> HIDE DEF w
<1>3. DOMAIN w = 1 .. n + 1 /\ 1 .. n + 1 = (1 .. n) \cup {n + 1} /\ n + 1 \notin 1 .. n
  <2>1. DOMAIN w = 1 .. n + 1
    BY <1>2, LenProperties
  <2> QED BY <2>1, <1>1
<1>4. \A i \in 1 .. n : s[i] \in Range(s)
  BY <1>1 DEF Range
<1> HIDE DEF n
<1>5. IsInjective(w)
  BY <1>1, <1>2, <1>3, <1>4 DEF IsInjective
<1>6. Range(w) = Range(s) \cup {x}
  BY <1>1, <1>2, <1>3 DEF Range
<1> QED BY <1>1, <1>2, <1>5, <1>6 DEF w, n

LEMMA Short ==
  ASSUME NEW V, NEW a \in V, NEW b \in V
  PROVE  /\ <<a>> \in Seq(V) /\ Len(<<a>>) = 1 /\ Head(<<a>>) = a /\ Range(<<a>>) = {a}
         /\ <<a, b>> \in Seq(V) /\ Len(<<a, b>>) = 2 /\ Head(<<a, b>>) = a
         /\ Range(<<a, b>>) = {a, b}
<1>1. Range(<<a>>) = {a}
  BY DEF Range
<1>2. Range(<<a, b>>) = {a, b}
  <2> DEFINE w == <<a, b>>
  <2>1. DOMAIN w = {1, 2} /\ w[1] = a /\ w[2] = b
    OBVIOUS
  <2> HIDE DEF w
  <2>2. Range(w) = {a, b}
    BY <2>1 DEF Range
  <2> QED BY <2>2 DEF w
<1> QED BY <1>1, <1>2

\* What is to be written: one or two structures, the first one first.
LEMMA TodoParts ==
  ASSUME NEW V, NEW s \in Seq(V), Len(s) \in {1, 2}
  PROVE  /\ Head(s) = s[1] /\ s[1] \in V /\ s[1] \in Range(s)
         /\ Len(s) = 1 => Tail(s) = <<>> /\ Range(s) = {s[1]}
         /\ Len(s) = 2 => /\ Tail(s) # <<>> /\ Head(Tail(s)) = s[2] /\ s[2] \in V
                          /\ Tail(s) \in Seq(V) /\ Len(Tail(s)) = 1 /\ Tail(s)[1] = s[2]
                          /\ Range(s) = {s[1], s[2]} /\ Range(Tail(s)) = {s[2]}
<1>1. DOMAIN s = 1 .. Len(s)
  BY LenProperties
<1>2. s # <<>>
  BY EmptySeq
<1>3. /\ Head(s) = s[1] /\ Tail(s) \in Seq(V) /\ Len(Tail(s)) = Len(s) - 1
      /\ \A i \in 1 .. Len(Tail(s)) : Tail(s)[i] = s[i + 1]
  BY <1>2, HeadTailProperties
<1>4. s[1] \in V /\ s[1] \in Range(s)
  BY <1>1 DEF Range
<1> DEFINE t == Tail(s)
<1> HIDE DEF t
<1>5. t \in Seq(V) /\ Len(t) = Len(s) - 1 /\ (\A i \in 1 .. Len(t) : t[i] = s[i + 1])
  BY <1>3 DEF t
<1>6. CASE Len(s) = 1
  <2>1. Len(t) = 0
    BY <1>5, <1>6
  <2>2. t = <<>>
    BY <1>5, <2>1, EmptySeq
  <2>3. Range(s) = {s[1]}
    BY <1>1, <1>6 DEF Range
  <2> QED BY <1>3, <1>4, <1>6, <2>2, <2>3 DEF t
<1>7. CASE Len(s) = 2
  <2>1. Len(t) = 1 /\ t[1] = s[2] /\ DOMAIN t = 1 .. 1
    <3>1. Len(t) = 1
      BY <1>5, <1>7
    <3>2. DOMAIN t = 1 .. 1
      BY <1>5, <3>1, LenProperties
    <3> QED BY <1>5, <3>1, <3>2
  <2>2. t # <<>>
    BY <1>5, <2>1, EmptySeq
  <2>3. Head(t) = t[1]
    BY <1>5, <2>2, HeadTailProperties
  <2>4. Range(s) = {s[1], s[2]} /\ s[2] \in V
    BY <1>1, <1>7, SMTT(20) DEF Range
  <2>5. Range(t) = {t[1]}
    BY <2>1 DEF Range
  <2> QED BY <1>3, <1>4, <1>5, <1>7, <2>1, <2>2, <2>3, <2>4, <2>5 DEF t
<1> QED BY <1>6, <1>7

-----------------------------------------------------------------------------
(* Two views of a list that has changed.                                   *)

LEMMA MemReadsNext == (\A c : Typed /\ Spells(freelst, MemNext, c) => Collectors = c)'
<1>1. \A c : Typed /\ Spells(freelst, MemNext, c) => Collectors = c
  BY MemReads
<1> QED BY <1>1, PTL

\* What a node names after a step.
GroupNext(n) == {node'[n].blocknum} \cup Range(node'[n].free)

\* The list is what it should be when its chain, its nodes and their blocks are.
LEMMA NewList ==
  ASSUME Typed', NEW c, Spells(freelst', MemNext', c),
         \A n \in Range(c) : Tidy(node'[n].blocknum, node'[n].free),
         \A m, n \in Range(c) : m # n => GroupNext(m) \cap GroupNext(n) = {}
  PROVE  /\ Collectors' = c /\ MemGood(Collectors)'
         /\ InMem' = UNION {GroupNext(n) : n \in Range(c)}
<1>1. Collectors' = c
  BY MemReadsNext
<1>2. InMem' = UNION {GroupNext(n) : n \in Range(c)}
  BY <1>1 DEF InMem, Group, GroupNext
<1>3. MemGood(Collectors)'
  BY <1>1 DEF MemGood, Group, GroupNext
<1> QED BY <1>1, <1>2, <1>3

\* A node that stays, with a link to a node that stays.
LEMMA ImageStays ==
  ASSUME NEW n \in Nodes, node'[n] = node[n],
         node[n].next \in heap' <=> node[n].next \in heap,
         node[n].next \in heap => node'[node[n].next].blocknum = node[node[n].next].blocknum
  PROVE  Image(n)' = Image(n)
<1>1. n # SUPER
  BY Numbers
<1>2. BlockOf(node[n].next)' = BlockOf(node[n].next)
  BY DEF BlockOf
<1>3. Image(n)' = [free |-> node'[n].free, next |-> BlockOf(node[n].next)']
  BY <1>1 DEF Image
<1> QED BY <1>1, <1>2, <1>3 DEF Image

LEMMA DiskStays ==
  ASSUME UNCHANGED <<dsuper, dfbc>>
  PROVE  DiskChain' = DiskChain /\ InDisk' = InDisk /\ DiskGood(DiskChain)' = DiskGood(DiskChain)
<1>1. DiskNext' = DiskNext
  BY DEF DiskNext
<1>2. DiskChain' = DiskChain
  BY <1>1 DEF DiskChain
<1>3. \A b : Cut(b)' = Cut(b)
  BY DEF Cut
<1>4. InDisk' = InDisk
  BY <1>2 DEF InDisk, Cut
<1>5. DiskGood(DiskChain)' = DiskGood(DiskChain)
  BY <1>1, <1>2 DEF DiskGood, Cut
<1> QED BY <1>2, <1>4, <1>5

-----------------------------------------------------------------------------
(* Every step that takes the lock.                                         *)

\* The list loses the block that is got or gains the one that is freed, and
\* what of it the disk does not have is to be written.
LEMMA Acquired ==
  ASSUME NEW used, ListInv(used), DiskInv, freelock = 1, NEW p \in Procs, NEW r \in Call,
         call[p].pc = "wait", call' = [call EXCEPT ![p] = r], r.pc = "seek",
         r.op = call[p].op, r.op \in {"get", "free"}, r.arg \in Blocks,
         UNCHANGED <<pos, dsuper, dfbc>>,
         Typed', DiskInv', MemGood(Collectors)', CallOK(p)',
         Solo \/ freelst' = freelst,
         r.op = "get" => r.arg \in InMem /\ InMem' = InMem \ {r.arg},
         r.op = "free" => r.arg = call[p].arg /\ InMem' = InMem \cup {r.arg},
         heap' \subseteq Range(Collectors') \cup {r.drop},
         SUPER \in Range(r.todo) \/ dsuper = BlockOf(freelst)',
         \A n \in Range(Collectors') :
            n \in Range(r.todo) \/ dfbc[node'[n].blocknum] = Image(n)'
  PROVE  ListInv(used)'
<1>1. DOMAIN call = Procs /\ call'[p] = r /\ \A q \in Procs : q # p => call'[q] = call[q]
  BY DEF ListInv, Typed
<1>2. /\ \A q \in Procs : ~ AtDisk(q) /\ ~ Linking(q)
      /\ swz = {} /\ Readable(used)
  BY LockFree
<1>3. /\ AtDisk(p)' /\ (Linking(p)' <=> r.op = "free")
      /\ \A q \in Procs : q # p => ~ AtDisk(q)' /\ ~ Linking(q)'
  BY <1>1, <1>2 DEF AtDisk, Linking
<1>4. \A q \in Procs : CallOK(q)'
  <2> SUFFICES ASSUME NEW q \in Procs, q # p PROVE CallOK(q)'
    OBVIOUS
  <2>1. CallOK(q) /\ call'[q] = call[q] /\ ~ AtDisk(q) /\ ~ AtDisk(q)'
    BY <1>1, <1>2, <1>3 DEF ListInv
  <2>2. freelst' = freelst
    BY DEF Solo
  <2> QED BY <2>1, <2>2 DEF CallOK, Getting, Freeing
<1>5. \A q \in Procs : q # p => /\ (call'[q].arg \in Blocks => call'[q].arg \notin InMem)
                               /\ call'[q].arg = call[q].arg
  BY <1>1, <1>2 DEF ListInv, Owned
<1>6. Owned(used)'
  <2>1. \A b \in Blocks : b \in used \/ b \in InMem \/ \E q \in Procs : call[q].arg = b
    BY DEF ListInv, Owned
  <2>2. /\ used \cap InMem = {} /\ \A q \in Procs : call[q].arg \notin used
        /\ \A a, b \in Procs : a # b /\ call[a].arg = call[b].arg => call[a].arg \notin Blocks
    BY DEF ListInv, Owned
  <2>3. ASSUME r.op = "get" PROVE call[p].arg = 0 /\ 0 \notin Blocks
    BY <2>3, Numbers DEF ListInv, CallOK, Getting
  <2>4. \A b \in Blocks : b \in used \/ b \in InMem' \/ \E q \in Procs : call'[q].arg = b
    <3> SUFFICES ASSUME NEW b \in Blocks
                 PROVE  b \in used \/ b \in InMem' \/ \E q \in Procs : call'[q].arg = b
      OBVIOUS
    <3>1. CASE r.op = "get"
      BY <3>1, <2>1, <2>3, <1>1, <1>5
    <3>2. CASE r.op = "free"
      BY <3>2, <2>1, <1>1, <1>5
    <3> QED BY <3>1, <3>2
  <2>5. used \cap InMem' = {} /\ \A q \in Procs : call'[q].arg \notin used
    BY <2>2, <1>1, <1>5
  <2>6. \A a, b \in Procs : a # b /\ call'[a].arg = call'[b].arg => call'[a].arg \notin Blocks
    <3>1. ASSUME NEW q \in Procs, q # p, call'[q].arg = r.arg PROVE FALSE
      BY <3>1, <2>2, <1>1, <1>5
    <3> QED BY <3>1, <2>2, <1>1, <1>5
  <2>7. \A q \in Procs : call'[q].arg \in Blocks => (call'[q].arg \in InMem' <=> Linking(q)')
    <3> SUFFICES ASSUME NEW q \in Procs, call'[q].arg \in Blocks
                 PROVE  call'[q].arg \in InMem' <=> Linking(q)'
      OBVIOUS
    <3>1. CASE q = p
      BY <3>1, <1>1, <1>3
    <3>2. CASE q # p
      <4>1. call'[q].arg \notin InMem /\ ~ Linking(q)' /\ call'[q].arg = call[q].arg
        BY <3>2, <1>3, <1>5
      <4>2. r.op = "free" => call'[q].arg # r.arg
        BY <3>2, <4>1, <2>2
      <4> QED BY <4>1, <4>2
    <3> QED BY <3>1, <3>2
  <2>8. used \subseteq Blocks
    BY DEF ListInv, Owned
  <2> QED BY <2>4, <2>5, <2>6, <2>7, <2>8 DEF Owned
<1>7. Readable(used)'
  <2>1. DiskGood(DiskChain)' /\ InDisk' = InDisk
    BY <1>2, DiskStays DEF Readable
  <2>2. /\ InDisk \cap used = {} /\ \A q \in Procs : call[q].arg \notin InDisk
        /\ InMem \subseteq InDisk
    BY <1>2 DEF Readable
  <2>3. \A q \in Procs : ~ AtDisk(q)' => call'[q].arg \notin InDisk
    BY <2>2, <1>1, <1>3
  <2>4. \A b \in InMem' : b \in InDisk \/ \E q \in Procs : Linking(q)' /\ call'[q].arg = b
    <3>1. CASE r.op = "get"
      BY <3>1, <2>2
    <3>2. CASE r.op = "free"
      BY <3>2, <2>2, <1>1, <1>3
    <3> QED BY <3>1, <3>2
  <2> QED BY <2>1, <2>2, <2>3, <2>4 DEF Readable
<1>8. Counted(used)'
  <2>1. Calls' = Calls
    BY <1>1 DEF Calls, Busy
  <2> QED BY <2>1 DEF ListInv, Counted, Solo
<1>9. Written'
  <2>1. Range(r.todo) \subseteq Due'
    BY <1>1, <1>3 DEF Due
  <2> QED BY <2>1 DEF Written
<1>10. Settled'
  <2>1. heap' \subseteq Range(Collectors') \cup {call'[q].drop : q \in Procs}
    BY <1>1
  <2> QED BY <2>1, <1>3 DEF Settled
<1> QED BY <1>4, <1>6, <1>7, <1>8, <1>9, <1>10 DEF ListInv

LEMMA WithArg ==
  ASSUME NEW rec \in Call, NEW x \in Int, NEW r, r = [rec EXCEPT !.arg = x]
  PROVE  r \in Call /\ r.arg = x /\ r.op = rec.op /\ r.drop = rec.drop
BY DEF Call

\* What is known of a call that can take the lock, and of the state it leaves.
LEMMA Takes ==
  ASSUME NEW used, ListInv(used), DiskInv, NEW p \in Procs, call[p].pc = "wait",
         NEW rec \in Call, NEW todo \in Seq(Nodes \cup {SUPER}), Locked(p, rec, todo)
  PROVE  /\ freelock = 1 /\ freelock' = 0 /\ swz = {} /\ swz' = {Head(todo)}
         /\ call[p].drop = NULL /\ call \in [Procs -> Call]
         /\ \E r \in Call : /\ call' = [call EXCEPT ![p] = r]
                            /\ call'[p] = r
                            /\ r.pc = "seek" /\ r.todo = todo
                            /\ r.op = rec.op /\ r.arg = rec.arg /\ r.drop = rec.drop
<1>1. freelock = 1 /\ freelock' = 0 /\ call \in [Procs -> Call]
  BY DEF Locked, ListInv, Typed
<1>2. swz = {} /\ ~ AtDisk(p)
  BY <1>1, LockFree
<1>3. call[p].drop = NULL
  BY <1>2 DEF ListInv, CallOK
<1>4. swz' = {Head(todo)}
  BY <1>2 DEF Locked
<1> DEFINE r == [rec EXCEPT !.pc = "seek", !.todo = todo]
<1>5. call' = [call EXCEPT ![p] = r]
  BY DEF Locked
<1>6. /\ r \in Call /\ r.pc = "seek" /\ r.todo = todo
      /\ r.op = rec.op /\ r.arg = rec.arg /\ r.drop = rec.drop
  BY DEF Call
<1> HIDE DEF r
<1>7. call'[p] = r
  BY <1>1, <1>5
<1> QED BY <1>1, <1>2, <1>3, <1>4, <1>5, <1>6, <1>7

\* The call is rec now, to write t, or t and then m.
TookOne(p, rec, t) ==
    \E r \in Call : /\ call' = [call EXCEPT ![p] = r] /\ call'[p] = r
               /\ r.pc = "seek" /\ Head(r.todo) = t /\ Len(r.todo) = 1
               /\ Range(r.todo) = {t}
               /\ r.op = rec.op /\ r.arg = rec.arg /\ r.drop = rec.drop
TookTwo(p, rec, t, m) ==
    \E r \in Call : /\ call' = [call EXCEPT ![p] = r] /\ call'[p] = r
               /\ r.pc = "seek" /\ Head(r.todo) = t /\ Len(r.todo) = 2
               /\ Range(r.todo) = {t, m} /\ r.todo[1] = t /\ r.todo[2] = m
               /\ r.op = rec.op /\ r.arg = rec.arg /\ r.drop = rec.drop

LEMMA TakesOne ==
  ASSUME NEW used, ListInv(used), DiskInv, NEW p \in Procs, call[p].pc = "wait",
         NEW rec \in Call, NEW t \in Nodes \cup {SUPER}, Locked(p, rec, <<t>>)
  PROVE  /\ freelock = 1 /\ freelock' = 0 /\ swz = {} /\ swz' = {t}
         /\ call[p].drop = NULL
         /\ TookOne(p, rec, t)
<1> DEFINE todo == <<t>>
<1>1. todo \in Seq(Nodes \cup {SUPER}) /\ Head(todo) = t /\ Len(todo) = 1 /\ Range(todo) = {t}
  BY Short
<1>2. Locked(p, rec, todo)
  OBVIOUS
<1> HIDE DEF todo
<1>3. /\ freelock = 1 /\ freelock' = 0 /\ swz = {} /\ swz' = {Head(todo)}
      /\ call[p].drop = NULL
      /\ \E r \in Call : /\ call' = [call EXCEPT ![p] = r] /\ call'[p] = r
                         /\ r.pc = "seek" /\ r.todo = todo
                         /\ r.op = rec.op /\ r.arg = rec.arg /\ r.drop = rec.drop
  BY <1>1, <1>2, Takes
<1> QED BY <1>1, <1>3 DEF TookOne

LEMMA TakesTwo ==
  ASSUME NEW used, ListInv(used), DiskInv, NEW p \in Procs, call[p].pc = "wait",
         NEW rec \in Call, NEW t \in Nodes \cup {SUPER}, NEW m \in Nodes \cup {SUPER},
         Locked(p, rec, <<t, m>>)
  PROVE  /\ freelock = 1 /\ freelock' = 0 /\ swz = {} /\ swz' = {t}
         /\ call[p].drop = NULL
         /\ TookTwo(p, rec, t, m)
<1> DEFINE todo == <<t, m>>
<1>1. /\ todo \in Seq(Nodes \cup {SUPER}) /\ Head(todo) = t /\ Len(todo) = 2
      /\ Range(todo) = {t, m}
  <2> DEFINE V == Nodes \cup {SUPER}
  <2>1. t \in V /\ m \in V
    OBVIOUS
  <2> HIDE DEF V
  <2>2. /\ todo \in Seq(V) /\ Head(todo) = t /\ Len(todo) = 2
        /\ Range(todo) = {t, m}
    BY <2>1, Short, ZenonT(30)
  <2> QED BY <2>2 DEF V
<1>2. Locked(p, rec, todo) /\ todo[1] = t /\ todo[2] = m
  OBVIOUS
<1> HIDE DEF todo
<1>3. /\ freelock = 1 /\ freelock' = 0 /\ swz = {} /\ swz' = {Head(todo)}
      /\ call[p].drop = NULL
      /\ \E r \in Call : /\ call' = [call EXCEPT ![p] = r] /\ call'[p] = r
                         /\ r.pc = "seek" /\ r.todo = todo
                         /\ r.op = rec.op /\ r.arg = rec.arg /\ r.drop = rec.drop
  BY <1>1, <1>2, Takes
<1> QED BY <1>1, <1>2, <1>3 DEF TookTwo

LEMMA TypedLocked ==
  ASSUME Typed, NEW p \in Procs, NEW r \in Call, call' = [call EXCEPT ![p] = r],
         freelst' \in Int, node' \in [Nodes -> Node], heap' \subseteq Nodes,
         swz' \subseteq Nodes \cup {SUPER}, freelock' \in {0, 1},
         UNCHANGED <<pos, dsuper, dfbc>>
  PROVE  Typed'
BY DEF Typed

\* The call is at the disk with one structure to write.
LEMMA OneToWrite ==
  ASSUME NEW p \in Procs, NEW r \in Call, call'[p] = r, r.pc = "seek",
         r.op \in {"get", "free"}, r.arg \in Blocks,
         NEW t, Head(r.todo) = t, Len(r.todo) = 1, Range(r.todo) = {t}, swz' = {t},
         t \in Range(Collectors') \/ (t = SUPER /\ Solo), t = SUPER => Solo,
         r.drop \notin Range(Collectors'),
         r.drop \in heap' => node'[r.drop].blocknum \in Blocks /\ node'[r.drop].free = <<>>
  PROVE  CallOK(p)'
<1>1. AtDisk(p)'
  BY DEF AtDisk
<1>2. Range(r.todo) \subseteq Range(Collectors') \cup {SUPER} /\ (SUPER \in Range(r.todo) => Solo)
  OBVIOUS
<1> QED BY <1>1, <1>2 DEF CallOK, Getting, Freeing

\* The call is at the disk with two.
LEMMA TwoToWrite ==
  ASSUME NEW p \in Procs, NEW r \in Call, call'[p] = r, r.pc = "seek",
         r.op = "free", r.arg \in Blocks, NEW t, NEW m,
         Head(r.todo) = t, Len(r.todo) = 2, Range(r.todo) = {t, m},
         r.todo[1] = t, r.todo[2] = m, swz' = {t}, t # m, m # SUPER,
         t \in Range(Collectors') \/ (t = SUPER /\ Solo), t = SUPER => Solo,
         m \in Range(Collectors'), node'[m].blocknum = r.arg, node'[m].next = NULL,
         r.drop \notin Range(Collectors'), r.drop \notin heap'
  PROVE  CallOK(p)'
<1>1. AtDisk(p)'
  BY DEF AtDisk
<1>2. Range(r.todo) \subseteq Range(Collectors') \cup {SUPER} /\ (SUPER \in Range(r.todo) => Solo)
  OBVIOUS
<1> QED BY <1>1, <1>2 DEF CallOK, Getting, Freeing

-----------------------------------------------------------------------------
(* sbGetBlock() with the lock.                                             *)

\* What a call of sbGetBlock() finds.
LEMMA GetFinds ==
  ASSUME NEW used, ListInv(used), DiskInv, NEW p \in Procs, Getting(p), freelock = 1
  PROVE  /\ call[p].fbc = freelst /\ freelst \in Range(Collectors) /\ freelst \in Nodes
         /\ freelst \in heap /\ freelst # NULL
         /\ call[p].arg = 0 /\ call[p] \in Call /\ call[p].drop = NULL
         /\ Tidy(node[freelst].blocknum, node[freelst].free)
<1>1. call[p].fbc = freelst /\ freelst # NULL /\ call[p].arg = 0
  BY DEF ListInv, CallOK
<1>2. freelst \in Range(Collectors) /\ freelst \in Nodes /\ freelst \in heap
  BY <1>1, MemShape DEF ListInv
<1>3. Tidy(node[freelst].blocknum, node[freelst].free)
  BY <1>2 DEF ListInv, MemGood
<1>4. call[p] \in Call
  BY DEF ListInv, Typed
<1>5. call[p].drop = NULL
  BY LockFree DEF ListInv, CallOK
<1> QED BY <1>1, <1>2, <1>3, <1>4, <1>5

LEMMA GetPopKeeps ==
  ASSUME NEW used, ListInv(used), DiskInv, DiskInv', NEW p \in Procs, GetPop(p)
  PROVE  ListInv(used)'
<1> DEFINE f == freelst
           c == Collectors
           s == node[f].free
           x == Last(s)
           w == Front(s)
           rec == [call[p] EXCEPT !.arg = x]
<1>1. /\ Getting(p) /\ call[p].pc = "wait" /\ call[p].op = "get" /\ freelock = 1
      /\ UNCHANGED <<freelst, heap, pos, dsuper, dfbc>>
  BY DEF GetPop, Getting, Locked, diskvars
<1>2. /\ call[p].fbc = f /\ f \in Range(c) /\ f \in Nodes /\ f \in heap /\ call[p] \in Call
      /\ call[p].drop = NULL /\ Tidy(node[f].blocknum, s)
  BY <1>1, GetFinds
<1>3. /\ s # <<>> /\ node' = [node EXCEPT ![f].free = w] /\ Locked(p, rec, <<f>>)
  BY <1>2 DEF GetPop
<1>4. Typed /\ MemGood(c) /\ Written /\ Settled /\ node \in [Nodes -> Node]
  BY DEF ListInv, Typed
<1>5. /\ w \in Seq(Blocks) /\ Len(w) = Len(s) - 1 /\ IsInjective(w) /\ Len(s) \in Nat
      /\ x \in Blocks /\ x \in Range(s) /\ Range(w) = Range(s) \ {x}
  BY <1>2, <1>3, WithoutLast DEF Tidy
<1>6. /\ rec \in Call /\ rec.arg = x /\ rec.op = "get" /\ rec.drop = NULL
  <2>1. x \in Int /\ rec = [call[p] EXCEPT !.arg = x]
    BY <1>5, Numbers
  <2> HIDE DEF rec, x
  <2> QED BY <1>1, <1>2, <2>1, WithArg
<1> HIDE DEF rec, x, w, s, f, c
<1>7. swz = {} /\ swz' = {f} /\ freelock' = 0
  BY <1>1, <1>2, <1>3, <1>6, TakesOne
<1>8. PICK r \in Call : /\ call' = [call EXCEPT ![p] = r] /\ call'[p] = r
                        /\ r.pc = "seek" /\ Head(r.todo) = f /\ Len(r.todo) = 1
                        /\ Range(r.todo) = {f}
                        /\ r.op = "get" /\ r.arg = x /\ r.drop = NULL
  <2>1. TookOne(p, rec, f)
    <3>1. f \in Nodes \cup {SUPER} /\ Locked(p, rec, <<f>>)
      BY <1>2, <1>3
    <3> QED BY <3>1, <1>1, <1>6, TakesOne
  <2> QED BY <1>6, <2>1 DEF TookOne
<1>9. f # SUPER
  BY <1>2, Numbers
<1>10. /\ node'[f] = [node[f] EXCEPT !.free = w] /\ \A n \in Nodes \ {f} : node'[n] = node[n]
       /\ node' \in [Nodes -> Node]
       /\ node'[f].free = w /\ \A n \in Nodes : /\ node'[n].blocknum = node[n].blocknum
                                                /\ node'[n].next = node[n].next
  BY <1>2, <1>3, <1>4, <1>5 DEF Node
<1>11. Typed'
  <2>1. freelst' \in Int /\ heap' \subseteq Nodes /\ swz' \subseteq Nodes \cup {SUPER} /\ freelock' \in {0, 1}
    BY <1>1, <1>2, <1>4, <1>7 DEF Typed
  <2> QED BY <1>1, <1>4, <1>8, <1>10, <2>1, TypedLocked
<1>12. Range(c) \subseteq heap /\ heap \subseteq Nodes /\ Spells(freelst, MemNext, c)
       /\ \A n \in Range(c) : node[n].next \in {NULL} \cup Range(c)
  BY <1>4, MemShape DEF Typed
<1>13. Spells(freelst', MemNext', c)
  <2>1. DOMAIN MemNext' = heap /\ \A n \in heap : MemNext'[n] = MemNext[n]
    BY <1>1, <1>10, <1>12 DEF MemNext
  <2> QED BY <2>1, <1>1, <1>12, SpellsSame
<1>14. \A n \in Range(c) : Tidy(node'[n].blocknum, node'[n].free)
  <2>1. Tidy(node[f].blocknum, w)
    BY <1>2, <1>5, LayoutAssumption DEF Tidy
  <2>2. \A n \in Range(c) : Tidy(node[n].blocknum, node[n].free)
    BY <1>4 DEF MemGood
  <2>3. \A n \in Range(c) \ {f} : node'[n] = node[n]
    BY <1>10, <1>12
  <2> QED BY <2>1, <2>2, <2>3, <1>2, <1>10
<1>15. GroupNext(f) = Group(f) \ {x} /\ x \in Group(f) /\ \A n \in Range(c) \ {f} : GroupNext(n) = Group(n)
  <2>1. x # node[f].blocknum
    BY <1>2, <1>5 DEF Tidy
  <2>2. Group(f) = {node[f].blocknum} \cup Range(s)
    BY DEF Group, s
  <2>3. GroupNext(f) = {node[f].blocknum} \cup Range(w)
    BY <1>2, <1>10 DEF GroupNext
  <2>4. \A n \in Range(c) \ {f} : GroupNext(n) = Group(n)
    BY <1>10, <1>12 DEF Group, GroupNext
  <2> QED BY <2>1, <2>2, <2>3, <2>4, <1>5
<1>16. /\ Collectors' = c /\ MemGood(Collectors)'
       /\ InMem' = UNION {GroupNext(n) : n \in Range(c)}
  <2>1. \A m, n \in Range(c) : m # n => GroupNext(m) \cap GroupNext(n) = {}
    BY <1>4, <1>15 DEF MemGood
  <2> QED BY <2>1, <1>11, <1>13, <1>14, NewList
<1>17. InMem' = InMem \ {x} /\ x \in InMem
  <2>1. \A n \in Range(c) \ {f} : x \notin Group(n)
    BY <1>2, <1>4, <1>15 DEF MemGood
  <2>2. InMem = UNION {Group(n) : n \in Range(c)}
    BY DEF InMem, c
  <2> QED BY <2>1, <2>2, <1>2, <1>15, <1>16
<1>18. CallOK(p)'
  <2>1. r.drop \notin Range(Collectors') /\ r.drop \notin heap'
    BY <1>1, <1>8, <1>12, <1>16, Numbers
  <2> QED BY <2>1, <1>2, <1>5, <1>7, <1>8, <1>9, <1>16, OneToWrite
<1>19. \A n \in Range(Collectors') : n \in Range(r.todo) \/ dfbc[node'[n].blocknum] = Image(n)'
  <2> SUFFICES ASSUME NEW n \in Range(c), n # f PROVE dfbc[node'[n].blocknum] = Image(n)'
    BY <1>7, <1>8, <1>16
  <2>1. n \in Nodes /\ node'[n] = node[n] /\ node[n].next \in {NULL} \cup Nodes
    BY <1>10, <1>12
  <2>2. Image(n)' = Image(n)
    <3>1. node[n].next \in heap => node'[node[n].next].blocknum = node[node[n].next].blocknum
      BY <2>1, <1>10, <1>12
    <3> QED BY <2>1, <3>1, <1>1, ImageStays
  <2>3. dfbc[node[n].blocknum] = Image(n)
    BY <1>1, LockFree DEF c
  <2> QED BY <2>1, <2>2, <2>3
<1>20. dsuper = BlockOf(freelst)'
  <2>1. dsuper = BlockOf(freelst)
    BY <1>1, LockFree
  <2> QED BY <2>1, <1>1, <1>2, <1>10 DEF BlockOf, f
<1>21. heap' \subseteq Range(Collectors') \cup {r.drop}
  BY <1>1, <1>16, LockFree DEF c
<1> QED BY <1>1, <1>5, <1>8, <1>11, <1>16, <1>17, <1>18, <1>19, <1>20, <1>21, Acquired

\* No two collectors have the same next one.
LEMMA OneLink ==
  ASSUME NEW start, NEW next, NULL \notin DOMAIN next, NEW c, Spells(start, next, c),
         NEW x \in Range(c), NEW y \in Range(c), next[x] = next[y], next[x] # NULL
  PROVE  x = y
<1>1. /\ IsInjective(c) /\ \A i \in DOMAIN c : next[c[i]] = Nth(c, i + 1)
      /\ Len(c) \in Nat /\ DOMAIN c = 1 .. Len(c)
  BY SpellsShape DEF Spells
<1>2. PICK i \in DOMAIN c : c[i] = x
  BY DEF Range
<1>3. PICK j \in DOMAIN c : c[j] = y
  BY DEF Range
<1>4. Nth(c, i + 1) = Nth(c, j + 1) /\ Nth(c, i + 1) # NULL
  BY <1>1, <1>2, <1>3
<1>5. i + 1 \in DOMAIN c /\ j + 1 \in DOMAIN c /\ c[i + 1] = c[j + 1]
  BY <1>4 DEF Nth
<1>6. i + 1 = j + 1
  BY <1>1, <1>5 DEF IsInjective
<1>7. i = j
  BY <1>1, <1>6
<1> QED BY <1>2, <1>3, <1>7

\* No collector is its own next one.
LEMMA SecondOther ==
  ASSUME NEW start, NEW next, NULL \notin DOMAIN next, NEW c, Spells(start, next, c),
         NEW x \in Range(c)
  PROVE  next[x] # x
<1>1. /\ IsInjective(c) /\ \A i \in DOMAIN c : next[c[i]] = Nth(c, i + 1)
      /\ Len(c) \in Nat /\ DOMAIN c = 1 .. Len(c) /\ Range(c) \subseteq DOMAIN next
  BY SpellsShape DEF Spells
<1>2. PICK i \in DOMAIN c : c[i] = x
  BY DEF Range
<1>3. i + 1 # i
  BY <1>1
<1> QED BY <1>1, <1>2, <1>3 DEF Nth, IsInjective

\* With one block left there is one process, however many blocks are in hand.
LEMMA LastBlock ==
  ASSUME NEW used, ListInv(used), Roomy, NEW p \in Procs, Busy(p), NEW b \in Int, InMem \subseteq {b},
         call[p].arg \in {0, b}
  PROVE  Solo
<1> DEFINE g == [q \in Calls |-> IF q = p THEN b ELSE call[q].arg]
<1>1. \A q \in Procs : call[q].arg \in Int
  BY DEF ListInv, Typed, Call
<1>2. g \in [Calls -> Int] /\ p \in Calls
  BY <1>1 DEF Calls
<1>3. ASSUME NEW x \in Blocks, x \notin used PROVE \E q \in Calls : x = g[q]
  <2>1. x \in InMem \/ \E q \in Procs : call[q].arg = x
    BY <1>3 DEF ListInv, Owned
  <2>2. CASE x \in InMem
    BY <2>2, <1>2
  <2>3. ASSUME NEW q \in Procs, call[q].arg = x PROVE \E y \in Calls : x = g[y]
    <3>1. x # 0
      BY <1>3, Numbers
    <3>2. call[q].pc # "idle"
      BY <2>3, <3>1 DEF ListInv, CallOK
    <3>3. q \in Calls
      BY <3>2 DEF Calls, Busy
    <3>4. CASE q = p
      BY <3>1, <3>4, <2>3, <1>2
    <3>5. CASE q # p
      BY <3>3, <3>5, <2>3
    <3> QED BY <3>4, <3>5
  <2> QED BY <2>1, <2>2, <2>3
<1>4. Blocks \subseteq used \cup {g[q] : q \in Calls}
  <2> HIDE DEF g
  <2> QED BY <1>3
<1> HIDE DEF g
<1> QED BY <1>2, <1>4, NoneLeft DEF ListInv, Owned

LEMMA GetLastKeeps ==
  ASSUME NEW used, ListInv(used), DiskInv, DiskInv', Roomy, NEW p \in Procs, GetLast(p)
  PROVE  ListInv(used)'
<1> DEFINE f == freelst
           c == Collectors
           b == node[f].blocknum
           rec == [call[p] EXCEPT !.arg = b, !.drop = f]
<1>1. /\ Getting(p) /\ call[p].pc = "wait" /\ call[p].op = "get" /\ freelock = 1
      /\ UNCHANGED <<node, heap, pos, dsuper, dfbc>> /\ freelst' = NULL
  BY DEF GetLast, Getting, Locked, diskvars
<1>2. /\ call[p].fbc = f /\ f \in Range(c) /\ f \in Nodes /\ f \in heap /\ call[p] \in Call
      /\ call[p].arg = 0 /\ Tidy(b, node[f].free) /\ f # NULL
  BY <1>1, GetFinds
<1>3. node[f].free = <<>> /\ node[f].next = NULL /\ Locked(p, rec, <<SUPER>>)
  BY <1>2 DEF GetLast
<1>4. Typed /\ MemGood(c) /\ heap = Range(c)
  BY <1>1, LockFree DEF ListInv
<1>5. /\ rec \in Call /\ rec.arg = b /\ rec.op = "get" /\ rec.drop = f
      /\ b \in Blocks /\ b \in Int
  <2>1. b \in Int /\ b \in Blocks /\ f \in Int /\ rec = [call[p] EXCEPT !.arg = b, !.drop = f]
    BY <1>2, Numbers DEF Tidy
  <2> HIDE DEF rec, b, f
  <2> QED BY <1>1, <1>2, <2>1 DEF Call
<1> HIDE DEF rec, b, f, c
<1>6. Range(c) = {f}
  <2>1. /\ Spells(freelst, MemNext, c) /\ Len(c) \in Nat /\ DOMAIN c = 1 .. Len(c)
        /\ Range(c) \subseteq heap /\ heap \subseteq Nodes /\ f = c[1] /\ 1 \in DOMAIN c
    BY <1>2, <1>4, MemShape DEF f, Typed
  <2>2. Nth(c, 1 + 1) = NULL
    BY <2>1, <1>2, <1>3 DEF Spells, MemNext
  <2>3. \A i \in DOMAIN c : c[i] # NULL
    BY <2>1, Numbers DEF Range
  <2>4. 2 \notin DOMAIN c
    BY <2>2, <2>3 DEF Nth
  <2>5. DOMAIN c = {1}
    BY <2>1, <2>4
  <2> QED BY <2>1, <2>5 DEF Range
<1>7. InMem = {b}
  <2>1. Group(f) = {b}
    BY <1>3 DEF Group, Range, b
  <2>2. InMem = UNION {Group(n) : n \in {f}}
    BY <1>6 DEF InMem, c
  <2> QED BY <2>1, <2>2
<1>8. Solo
  <2>1. Busy(p)
    BY <1>1 DEF Busy
  <2> QED BY <2>1, <1>2, <1>5, <1>7, LastBlock
<1>9. swz = {} /\ swz' = {SUPER} /\ freelock' = 0
  BY <1>1, <1>3, <1>5, TakesOne
<1>10. PICK r \in Call : /\ call' = [call EXCEPT ![p] = r] /\ call'[p] = r
                        /\ r.pc = "seek" /\ Head(r.todo) = SUPER /\ Len(r.todo) = 1
                        /\ Range(r.todo) = {SUPER}
                        /\ r.op = "get" /\ r.arg = b /\ r.drop = f
  <2>1. TookOne(p, rec, SUPER)
    <3>1. SUPER \in Nodes \cup {SUPER} /\ Locked(p, rec, <<SUPER>>)
      BY <1>3
    <3> QED BY <3>1, <1>1, <1>5, TakesOne
  <2> QED BY <1>5, <2>1 DEF TookOne
<1>11. Typed'
  <2>1. /\ freelst' \in Int /\ heap' \subseteq Nodes /\ swz' \subseteq Nodes \cup {SUPER}
        /\ freelock' \in {0, 1} /\ node' \in [Nodes -> Node]
    BY <1>1, <1>4, <1>9, Numbers DEF Typed
  <2> QED BY <1>1, <1>4, <1>10, <2>1, TypedLocked
<1>12. Collectors' = <<>> /\ MemGood(Collectors)' /\ InMem' = {} /\ Range(Collectors') = {}
  <2> DEFINE e == <<>>
  <2>1. e \in Seq(DOMAIN MemNext') /\ DOMAIN e = {} /\ Range(e) = {}
    BY DEF Range
  <2> HIDE DEF e
  <2>2. Spells(freelst', MemNext', e)
    BY <2>1, <1>1 DEF Spells, Nth, IsInjective
  <2>3. Collectors' = e /\ MemGood(Collectors)' /\ InMem' = UNION {GroupNext(n) : n \in Range(e)}
    BY <2>1, <2>2, <1>11, NewList
  <2> QED BY <2>1, <2>3 DEF e
<1>13. CallOK(p)'
  <2>1. r.drop \in heap' => node'[r.drop].blocknum \in Blocks /\ node'[r.drop].free = <<>>
    BY <1>1, <1>3, <1>5, <1>10 DEF b
  <2> QED BY <2>1, <1>5, <1>8, <1>9, <1>10, <1>12, OneToWrite
<1>14. heap' \subseteq Range(Collectors') \cup {r.drop}
  BY <1>1, <1>4, <1>6, <1>10
<1>15. SUPER \in Range(r.todo)
  BY <1>10
<1> QED BY <1>1, <1>5, <1>7, <1>8, <1>10, <1>11, <1>12, <1>13, <1>14, <1>15, Acquired

LEMMA GetMergeKeeps ==
  ASSUME NEW used, ListInv(used), DiskInv, DiskInv', NEW p \in Procs, GetMerge(p)
  PROVE  ListInv(used)'
<1> DEFINE f == freelst
           g == node[f].next
           c == Collectors
           b == node[g].blocknum
           rec == [call[p] EXCEPT !.arg = b]
<1>1. /\ Getting(p) /\ call[p].pc = "wait" /\ call[p].op = "get" /\ freelock = 1
      /\ UNCHANGED <<freelst, pos, dsuper, dfbc>>
  BY DEF GetMerge, Getting, Locked, diskvars
<1>2. /\ call[p].fbc = f /\ f \in Range(c) /\ f \in Nodes /\ f \in heap /\ call[p] \in Call
      /\ call[p].drop = NULL /\ Tidy(node[f].blocknum, node[f].free) /\ f # NULL
  BY <1>1, GetFinds
<1>3. /\ node[f].free = <<>> /\ g # NULL /\ Locked(p, rec, <<f>>)
      /\ node' = [node EXCEPT ![f].free = node[g].free, ![f].next = node[g].next, ![g] = NoNode]
      /\ heap' = heap \ {g}
  BY <1>2 DEF GetMerge
<1>4. Typed /\ MemGood(c) /\ heap = Range(c) /\ node \in [Nodes -> Node]
  BY <1>1, LockFree DEF ListInv, Typed
<1>5. /\ Range(c) \subseteq Nodes /\ Spells(f, MemNext, c) /\ NULL \notin DOMAIN MemNext
      /\ \A n \in Range(c) : MemNext[n] = node[n].next /\ node[n].next \in {NULL} \cup Range(c)
  <2>1. /\ Range(c) \subseteq heap /\ heap \subseteq Nodes /\ Spells(freelst, MemNext, c)
        /\ \A n \in Range(c) : node[n].next \in {NULL} \cup Range(c)
    BY <1>4, MemShape DEF Typed
  <2> QED BY <2>1, Numbers DEF MemNext
<1>6. g \in Range(c) /\ f # g /\ Tidy(b, node[g].free) /\ g \in Nodes
  <2>1. g \in Range(c)
    BY <1>2, <1>3, <1>5
  <2>2. f # g
    <3>1. MemNext[f] = g
      BY <1>2, <1>5
    <3> HIDE DEF f, g, c
    <3> QED BY <1>2, <1>3, <1>5, <3>1, SecondOther
  <2>3. Tidy(b, node[g].free)
    BY <2>1, <1>4 DEF MemGood
  <2> QED BY <2>1, <2>2, <2>3, <1>5
<1>7. /\ rec \in Call /\ rec.arg = b /\ rec.op = "get" /\ rec.drop = NULL
      /\ b \in Blocks
  <2>1. b \in Int /\ b \in Blocks /\ rec = [call[p] EXCEPT !.arg = b]
    BY <1>6, Numbers DEF Tidy
  <2> HIDE DEF rec, b
  <2> QED BY <1>1, <1>2, <2>1, WithArg
<1> HIDE DEF rec, b, f, g, c
<1>8. swz = {} /\ swz' = {f} /\ freelock' = 0
  BY <1>1, <1>2, <1>3, <1>7, TakesOne
<1>9. PICK r \in Call : /\ call' = [call EXCEPT ![p] = r] /\ call'[p] = r
                        /\ r.pc = "seek" /\ Head(r.todo) = f /\ Len(r.todo) = 1
                        /\ Range(r.todo) = {f}
                        /\ r.op = "get" /\ r.arg = b /\ r.drop = NULL
  <2>1. TookOne(p, rec, f)
    <3>1. f \in Nodes \cup {SUPER} /\ Locked(p, rec, <<f>>)
      BY <1>2, <1>3
    <3> QED BY <3>1, <1>1, <1>7, TakesOne
  <2> QED BY <1>7, <2>1 DEF TookOne
<1>10. /\ node'[f].blocknum = node[f].blocknum /\ node'[f].free = node[g].free
       /\ node'[f].next = node[g].next
       /\ \A n \in Nodes \ {f, g} : node'[n] = node[n]
       /\ node' \in [Nodes -> Node]
  <2>1. node'[f] = [blocknum |-> node[f].blocknum, free |-> node[g].free, next |-> node[g].next]
    BY <1>2, <1>3, <1>4, <1>6 DEF Node
  <2>2. node'[g] = NoNode /\ \A n \in Nodes \ {f, g} : node'[n] = node[n]
    BY <1>2, <1>3, <1>4, <1>6
  <2>3. node'[f] \in Node /\ node'[g] \in Node
    BY <2>1, <2>2, <1>2, <1>4, <1>6, Numbers DEF Node, NoNode
  <2>4. node' \in [Nodes -> Node]
    <3>1. \A n \in Nodes : node'[n] \in Node
      BY <2>2, <2>3, <1>4
    <3>2. DOMAIN node' = Nodes /\ node' = [n \in Nodes |-> node'[n]]
      BY <1>3, <1>4
    <3> QED BY <3>1, <3>2
  <2> QED BY <2>1, <2>2, <2>4
<1>11. Typed'
  <2>1. freelst' \in Int /\ heap' \subseteq Nodes /\ swz' \subseteq Nodes \cup {SUPER} /\ freelock' \in {0, 1}
    BY <1>1, <1>2, <1>3, <1>4, <1>8 DEF Typed
  <2> QED BY <1>1, <1>4, <1>9, <1>10, <2>1, TypedLocked
<1>12. PICK d : Spells(f, MemNext', d) /\ Range(d) = Range(c) \ {g}
  <2>1. DOMAIN MemNext' = Range(c) \ {g} /\ \A n \in Range(c) \ {g} : MemNext'[n] = node'[n].next
    BY <1>3, <1>4 DEF MemNext
  <2>2. \A x \in Range(c) : x # f /\ x # g => MemNext'[x] = MemNext[x]
    BY <2>1, <1>5, <1>10
  <2>3. MemNext'[f] = MemNext[g] /\ MemNext[f] = g
    BY <2>1, <1>2, <1>5, <1>6, <1>10 DEF g
  <2> QED BY <2>1, <2>2, <2>3, <1>2, <1>3, <1>5, SpellsShorter
<1>13. \A n \in Range(d) : Tidy(node'[n].blocknum, node'[n].free)
  <2>1. \A n \in Range(c) : Tidy(node[n].blocknum, node[n].free)
    BY <1>4 DEF MemGood
  <2>2. Tidy(node[f].blocknum, node[g].free)
    <3>1. node[f].blocknum \notin Range(node[g].free)
      BY <1>2, <1>4, <1>6 DEF MemGood, Group
    <3> QED BY <3>1, <2>1, <1>2, <1>6 DEF Tidy
  <2> QED BY <2>1, <2>2, <1>5, <1>10, <1>12
<1>14. /\ GroupNext(f) = {node[f].blocknum} \cup Range(node[g].free)
       /\ Group(f) = {node[f].blocknum} /\ Group(g) = {b} \cup Range(node[g].free)
       /\ \A n \in Range(d) \ {f} : GroupNext(n) = Group(n)
       /\ b \notin Range(node[g].free)
  <2>1. Range(<<>>) = {}
    BY DEF Range
  <2> QED BY <2>1, <1>3, <1>5, <1>6, <1>10, <1>12 DEF Group, GroupNext, b, Tidy
<1>15. \A m, n \in Range(c) : m # n => Group(m) \cap Group(n) = {}
  BY <1>4 DEF MemGood
<1>16. f \in Range(d) /\ \A n \in Range(d) : n \in Range(c) /\ n # g
  BY <1>2, <1>6, <1>12
<1>17. \A m, n \in Range(d) : m # n => GroupNext(m) \cap GroupNext(n) = {}
  <2>1. GroupNext(f) \subseteq Group(f) \cup Group(g)
    BY <1>14
  <2>2. \A n \in Range(d) \ {f} : GroupNext(n) \cap GroupNext(f) = {}
    BY <2>1, <1>2, <1>6, <1>14, <1>15, <1>16
  <2> QED BY <2>2, <1>14, <1>15, <1>16
<1>18. /\ Collectors' = d /\ MemGood(Collectors)'
       /\ InMem' = UNION {GroupNext(n) : n \in Range(d)}
  BY <1>1, <1>11, <1>12, <1>13, <1>17, NewList DEF f
<1>19. InMem' = InMem \ {b} /\ b \in InMem
  <2>1. InMem = UNION {Group(n) : n \in Range(c)}
    BY DEF InMem, c
  <2>2. \A n \in Range(c) \ {g} : b \notin Group(n)
    BY <1>6, <1>14, <1>15
  <2>3. ASSUME NEW x PROVE x \in InMem' <=> x \in InMem \ {b}
    <3>1. x \in InMem' => x \in InMem \ {b}
      <4> SUFFICES ASSUME NEW n \in Range(d), x \in GroupNext(n) PROVE x \in InMem \ {b}
        BY <1>18
      <4>1. CASE n = f
        <5>1. x \in Group(f) \/ (x \in Group(g) /\ x # b)
          BY <4>1, <1>14
        <5> QED BY <5>1, <2>1, <2>2, <1>2, <1>6
      <4>2. CASE n # f
        BY <4>2, <2>1, <2>2, <1>14, <1>16
      <4> QED BY <4>1, <4>2
    <3>2. x \in InMem \ {b} => x \in InMem'
      <4> SUFFICES ASSUME NEW n \in Range(c), x \in Group(n), x # b PROVE x \in InMem'
        BY <2>1
      <4>1. CASE n = f \/ n = g
        BY <4>1, <1>14, <1>16, <1>18
      <4>2. CASE n # f /\ n # g
        BY <4>2, <1>12, <1>14, <1>18
      <4> QED BY <4>1, <4>2
    <3> QED BY <3>1, <3>2
  <2>4. b \in InMem
    BY <2>1, <1>6, <1>14
  <2> QED BY <2>3, <2>4
<1>20. f # SUPER
  BY <1>2, Numbers
<1>21. CallOK(p)'
  <2>1. r.drop \notin Range(Collectors') /\ r.drop \notin heap'
    BY <1>3, <1>4, <1>5, <1>9, <1>16, <1>18, Numbers
  <2> QED BY <2>1, <1>7, <1>8, <1>9, <1>16, <1>18, <1>20, OneToWrite
<1>22. \A n \in Range(Collectors') : n \in Range(r.todo) \/ dfbc[node'[n].blocknum] = Image(n)'
  <2> SUFFICES ASSUME NEW n \in Range(d), n # f PROVE dfbc[node'[n].blocknum] = Image(n)'
    BY <1>9, <1>18
  <2>1. n \in Nodes /\ n \in Range(c) /\ n # g /\ node'[n] = node[n]
    BY <1>5, <1>10, <1>16
  <2>2. node[n].next # g
    <3>1. node[n].next = g => n = f
      <4>1. MemNext[f] = g /\ MemNext[n] = node[n].next /\ g # NULL
        BY <2>1, <1>2, <1>3, <1>5 DEF g
      <4>2. /\ NULL \notin DOMAIN MemNext /\ Spells(f, MemNext, c)
            /\ f \in Range(c) /\ n \in Range(c)
        BY <2>1, <1>2, <1>5
      <4>3. MemNext[n] = MemNext[f] /\ MemNext[n] # NULL => n = f
        BY <4>2, OneLink
      <4> QED BY <4>1, <4>3
    <3> QED BY <3>1
  <2>3. node[n].next \in heap' <=> node[n].next \in heap
    BY <2>2, <1>3
  <2>4. node[n].next \in heap => node'[node[n].next].blocknum = node[node[n].next].blocknum
    BY <2>1, <2>2, <1>4, <1>5, <1>10
  <2>5. Image(n)' = Image(n)
    BY <2>1, <2>3, <2>4, ImageStays
  <2>6. dfbc[node[n].blocknum] = Image(n)
    BY <2>1, <1>1, LockFree DEF c
  <2> QED BY <2>1, <2>5, <2>6
<1>23. dsuper = BlockOf(freelst)'
  <2>1. dsuper = BlockOf(freelst)
    BY <1>1, LockFree
  <2> QED BY <2>1, <1>1, <1>2, <1>3, <1>6, <1>10 DEF BlockOf, f
<1>24. heap' \subseteq Range(Collectors') \cup {r.drop}
  BY <1>3, <1>4, <1>12, <1>18
<1> QED BY <1>1, <1>7, <1>9, <1>11, <1>18, <1>19, <1>21, <1>22, <1>23, <1>24, Acquired

-----------------------------------------------------------------------------
(* sbFreeBlock() with the lock.                                            *)

LEMMA MallocGives ==
  ASSUME Nodes # heap, heap \subseteq Nodes
  PROVE  malloc \in Nodes \ heap
<1> DEFINE S == Nodes \ heap
<1>1. S \in SUBSET Nat /\ S # {}
  <2>1. S # {}
    OBVIOUS
  <2>2. \A n \in Nodes : n \in Nat
    BY LayoutAssumption DEF Nodes
  <2> QED BY <2>1, <2>2
<1>2. PICK n \in S : \A m \in S : n <= m
  <2> HIDE DEF S
  <2> QED BY <1>1, LeastMember
<1>3. malloc = CHOOSE x \in S : \A y \in S : x <= y
  BY DEF malloc, Min
<1> HIDE DEF S
<1>4. malloc \in S
  BY <1>2, <1>3
<1> QED BY <1>4 DEF S

\* What a call of sbFreeBlock() finds.
LEMMA FreeFinds ==
  ASSUME NEW used, ListInv(used), DiskInv, NEW p \in Procs, Freeing(p), freelock = 1
  PROVE  /\ call[p] \in Call /\ call[p].pc = "wait" /\ call[p].op = "free"
         /\ call[p].arg \in Blocks /\ call[p].arg \notin InMem /\ call[p].drop = NULL
         /\ Typed /\ MemGood(Collectors) /\ heap = Range(Collectors) /\ heap \subseteq Nodes
         /\ node \in [Nodes -> Node]
         /\ ReadHead = freelst
<1>1. /\ heap = Range(Collectors) /\ swz = {} /\ ~ AtDisk(p) /\ ~ Linking(p)
  BY LockFree
<1>2. call[p].pc = "wait" /\ call[p].op = "free"
  BY DEF Freeing
<1>3. call[p].arg \in Blocks /\ call[p].drop = NULL
  BY <1>1 DEF ListInv, CallOK
<1>4. call[p].arg \notin InMem
  BY <1>1, <1>3 DEF ListInv, Owned
<1>5. ReadHead = freelst
  BY <1>1 DEF ReadHead
<1>6. Typed /\ MemGood(Collectors) /\ heap \subseteq Nodes /\ node \in [Nodes -> Node] /\ call[p] \in Call
  BY DEF ListInv, Typed
<1> QED BY <1>1, <1>2, <1>3, <1>4, <1>5, <1>6

LEMMA FreeFirstKeeps ==
  ASSUME NEW used, ListInv(used), DiskInv, DiskInv', Roomy, DirtyMalloc = FALSE,
         NEW p \in Procs, FreeFirst(p)
  PROVE  ListInv(used)'
<1> DEFINE c == Collectors
           b == call[p].arg
<1>1. /\ Freeing(p) /\ freelock = 1 /\ ReadHead = NULL /\ Nodes # heap
      /\ Locked(p, call[p], <<SUPER, malloc>>)
      /\ UNCHANGED <<pos, dsuper, dfbc>>
      /\ heap' = heap \cup {malloc} /\ freelst' = malloc
      /\ node' = [node EXCEPT ![malloc] = Fresh(b, NULL)]
  BY DEF FreeFirst, Locked, diskvars
<1>2. /\ call[p] \in Call /\ call[p].pc = "wait" /\ call[p].op = "free"
      /\ b \in Blocks /\ b \notin InMem /\ call[p].drop = NULL
      /\ Typed /\ MemGood(c) /\ heap = Range(c) /\ heap \subseteq Nodes
      /\ node \in [Nodes -> Node] /\ freelst = NULL
  BY <1>1, FreeFinds
<1>3. Range(c) = {}
  <2>1. c = <<>>
    BY <1>2, MemShape
  <2> QED BY <2>1 DEF Range
<1>4. InMem = {}
  BY <1>3 DEF InMem
<1>5. Solo
  <2>1. Busy(p) /\ b \in Int
    BY <1>2, Numbers DEF Busy
  <2> QED BY <2>1, <1>4, LastBlock
<1>6. PICK m \in Nodes \ heap : m = malloc
  BY <1>1, <1>2, MallocGives
<1>7. m \in Nodes /\ m # SUPER /\ m # NULL /\ NULL # SUPER
  BY <1>6, Numbers
<1>8. swz = {} /\ swz' = {SUPER} /\ freelock' = 0
  BY <1>1, <1>2, <1>6, TakesTwo
<1>9. PICK r \in Call : /\ call' = [call EXCEPT ![p] = r] /\ call'[p] = r
                        /\ r.pc = "seek" /\ Head(r.todo) = SUPER /\ Len(r.todo) = 2
                        /\ Range(r.todo) = {SUPER, m} /\ r.todo[1] = SUPER /\ r.todo[2] = m
                        /\ r.op = "free" /\ r.arg = b /\ r.drop = NULL
  <2>0. PICK rec \in Call : rec = call[p]
    BY <1>2
  <2>1. TookTwo(p, rec, SUPER, m)
    <3>1. SUPER \in Nodes \cup {SUPER} /\ m \in Nodes \cup {SUPER}
      BY <1>7
    <3>2. Locked(p, rec, <<SUPER, m>>)
      BY <2>0, <1>1, <1>2, <1>6
    <3>3. call[p].pc = "wait"
      BY <1>1, <1>2
    <3> QED BY <3>1, <3>2, <3>3, TakesTwo
  <2> QED BY <1>2, <2>0, <2>1 DEF TookTwo
<1> HIDE DEF c, b
<1>10. node'[m] = Fresh(b, NULL) /\ node' \in [Nodes -> Node] /\ heap' = {m} /\ freelst' = m
  <2>1. Fresh(b, NULL) \in Node
    BY <1>2, Numbers DEF Fresh, Node
  <2> QED BY <2>1, <1>1, <1>2, <1>3, <1>6
<1>11. Typed'
  <2>1. freelst' \in Int /\ heap' \subseteq Nodes /\ swz' \subseteq Nodes \cup {SUPER} /\ freelock' \in {0, 1}
    BY <1>7, <1>8, <1>10, Numbers
  <2> QED BY <1>1, <1>2, <1>9, <1>10, <2>1, TypedLocked
<1>12. /\ node'[m].blocknum = b /\ node'[m].next = NULL /\ Range(node'[m].free) = {}
       /\ Tidy(node'[m].blocknum, node'[m].free)
  <2>1. Range(<<>>) = {} /\ IsInjective(<<>>) /\ <<>> \in Seq(Blocks) /\ Len(<<>>) = 0
    BY DEF Range, IsInjective
  <2> QED BY <2>1, <1>2, <1>10, LayoutAssumption DEF Fresh, Tidy
<1>13. /\ MemGood(Collectors)' /\ InMem' = UNION {GroupNext(n) : n \in {m}}
       /\ Range(Collectors') = {m}
  <2> DEFINE d == <<m>>
  <2>1. d \in Seq({m}) /\ DOMAIN d = {1} /\ d[1] = m /\ Range(d) = {m}
    BY DEF Range
  <2> HIDE DEF d
  <2>2. DOMAIN MemNext' = {m} /\ MemNext'[m] = NULL
    BY <1>10, <1>12 DEF MemNext
  <2>3. Spells(freelst', MemNext', d)
    BY <2>1, <2>2, <1>10 DEF Spells, Nth, IsInjective
  <2>4. \A x, n \in Range(d) : x # n => GroupNext(x) \cap GroupNext(n) = {}
    BY <2>1
  <2>5. \A n \in Range(d) : Tidy(node'[n].blocknum, node'[n].free)
    BY <2>1, <1>12
  <2>6. Collectors' = d /\ MemGood(Collectors)' /\ InMem' = UNION {GroupNext(n) : n \in Range(d)}
    BY <2>3, <2>4, <2>5, <1>11, NewList
  <2> QED BY <2>1, <2>6
<1>14. InMem' = InMem \cup {b}
  BY <1>4, <1>12, <1>13 DEF GroupNext
<1>15. CallOK(p)'
  <2>1. r.drop \notin Range(Collectors') /\ r.drop \notin heap'
    BY <1>7, <1>9, <1>10, <1>13
  <2> QED BY <2>1, <1>2, <1>5, <1>7, <1>8, <1>9, <1>12, <1>13, TwoToWrite
<1>16. heap' \subseteq Range(Collectors') \cup {r.drop}
  BY <1>10, <1>13
<1>17. /\ SUPER \in Range(r.todo) /\ \A n \in Range(Collectors') : n \in Range(r.todo)
  BY <1>9, <1>13
<1> QED BY <1>1, <1>2, <1>5, <1>9, <1>11, <1>13, <1>14, <1>15, <1>16, <1>17, Acquired DEF b

\* The last collector, which a call of sbFreeBlock() extends or makes the last but one.
LEMMA TailFinds ==
  ASSUME NEW used, ListInv(used), DiskInv, NEW p \in Procs, Freeing(p), freelock = 1, ListIntact
  PROVE  /\ Tail_fbc \in Range(Collectors) /\ Tail_fbc \in Nodes /\ node[Tail_fbc].next = NULL
         /\ Tail_fbc = Last(Collectors) /\ Collectors # <<>>
         /\ freelst \in Range(Collectors) /\ Tidy(node[Tail_fbc].blocknum, node[Tail_fbc].free)
<1>1. /\ Typed /\ MemGood(Collectors) /\ heap \subseteq Nodes /\ ReadHead = freelst
      /\ heap = Range(Collectors)
  BY FreeFinds
<1>2. freelst \in Range(Collectors) /\ freelst # NULL
  BY <1>1, Numbers DEF ListIntact
<1>3. /\ Collectors # <<>> /\ Last(Collectors) \in Range(Collectors)
      /\ node[Last(Collectors)].next = NULL
  BY <1>1, <1>2, MemShape
<1>4. Tidy(node[Last(Collectors)].blocknum, node[Last(Collectors)].free)
  BY <1>1, <1>3 DEF MemGood
<1> QED BY <1>1, <1>2, <1>3, <1>4 DEF Tail_fbc

LEMMA FreeNewKeeps ==
  ASSUME NEW used, ListInv(used), DiskInv, DiskInv', NEW p \in Procs, FreeNew(p)
  PROVE  ListInv(used)'
<1> DEFINE c == Collectors
           b == call[p].arg
           t == Tail_fbc
<1>1. /\ Freeing(p) /\ freelock = 1 /\ ListIntact /\ Nodes # heap
      /\ Locked(p, call[p], <<t, malloc>>)
      /\ UNCHANGED <<freelst, pos, dsuper, dfbc>>
      /\ heap' = heap \cup {malloc}
      /\ node' = [node EXCEPT ![malloc] = Fresh(b, NULL), ![t].next = malloc]
  BY DEF FreeNew, Locked, diskvars
<1>2. /\ call[p] \in Call /\ call[p].pc = "wait" /\ call[p].op = "free"
      /\ b \in Blocks /\ b \notin InMem /\ call[p].drop = NULL
      /\ Typed /\ MemGood(c) /\ heap = Range(c) /\ heap \subseteq Nodes
      /\ node \in [Nodes -> Node]
  BY <1>1, FreeFinds
<1>3. /\ t \in Range(c) /\ t \in Nodes /\ node[t].next = NULL /\ t = Last(c) /\ c # <<>>
      /\ freelst \in Range(c)
  BY <1>1, TailFinds
<1>4. PICK m \in Nodes \ heap : m = malloc
  BY <1>1, <1>2, MallocGives
<1>5. m \in Nodes /\ m # SUPER /\ m # NULL /\ m # t /\ m \notin Range(c) /\ t # SUPER
      /\ NULL \notin Range(c)
  BY <1>2, <1>3, <1>4, Numbers
<1>6. swz = {} /\ swz' = {t} /\ freelock' = 0
  BY <1>1, <1>2, <1>3, <1>4, TakesTwo
<1> HIDE DEF c, t
<1>7. PICK r \in Call : /\ call' = [call EXCEPT ![p] = r] /\ call'[p] = r
                        /\ r.pc = "seek" /\ Head(r.todo) = t /\ Len(r.todo) = 2
                        /\ Range(r.todo) = {t, m} /\ r.todo[1] = t /\ r.todo[2] = m
                        /\ r.op = "free" /\ r.arg = b /\ r.drop = NULL
  <2>0. PICK rec \in Call : rec = call[p]
    BY <1>2
  <2>1. TookTwo(p, rec, t, m)
    <3>1. t \in Nodes \cup {SUPER} /\ m \in Nodes \cup {SUPER}
      BY <1>3, <1>4
    <3>2. Locked(p, rec, <<t, m>>)
      BY <2>0, <1>1, <1>3, <1>4
    <3>3. call[p].pc = "wait"
      BY <1>1, <1>2
    <3> QED BY <3>1, <3>2, <3>3, TakesTwo
  <2> QED BY <1>2, <2>0, <2>1 DEF TookTwo
<1> HIDE DEF b
<1>8. /\ node'[m] = Fresh(b, NULL) /\ node' \in [Nodes -> Node] /\ heap' = heap \cup {m}
      /\ node'[t].next = m /\ \A n \in Nodes \ {m} : /\ node'[n].blocknum = node[n].blocknum
                                                     /\ node'[n].free = node[n].free
      /\ \A n \in Nodes \ {m, t} : node'[n] = node[n]
  <2>1. Fresh(b, NULL) \in Node
    BY <1>2, Numbers DEF Fresh, Node
  <2>2. /\ node'[m] = Fresh(b, NULL)
        /\ node'[t] = [blocknum |-> node[t].blocknum, free |-> node[t].free, next |-> m]
        /\ \A n \in Nodes \ {m, t} : node'[n] = node[n]
    BY <1>1, <1>2, <1>3, <1>4, <1>5 DEF Node
  <2>3. node'[t] \in Node
    BY <2>2, <1>2, <1>3, <1>5, Numbers, SMTT(20) DEF Node
  <2>4. node' \in [Nodes -> Node]
    <3>1. \A n \in Nodes : node'[n] \in Node
      BY <2>1, <2>2, <2>3, <1>2
    <3>2. node' = [n \in Nodes |-> node'[n]]
      BY <1>1, <1>2
    <3> QED BY <3>1, <3>2
  <2> QED BY <2>2, <2>4, <1>1, <1>3, <1>4, <1>5
<1>9. Typed'
  <2>1. freelst' \in Int /\ heap' \subseteq Nodes /\ swz' \subseteq Nodes \cup {SUPER} /\ freelock' \in {0, 1}
    BY <1>1, <1>2, <1>3, <1>5, <1>6, <1>8 DEF Typed
  <2> QED BY <1>1, <1>2, <1>7, <1>8, <2>1, TypedLocked
<1>10. /\ node'[m].blocknum = b /\ node'[m].next = NULL /\ Range(node'[m].free) = {}
       /\ Tidy(node'[m].blocknum, node'[m].free)
  <2>1. Range(<<>>) = {} /\ IsInjective(<<>>) /\ <<>> \in Seq(Blocks) /\ Len(<<>>) = 0
    BY DEF Range, IsInjective
  <2> QED BY <2>1, <1>2, <1>8, LayoutAssumption DEF Fresh, Tidy
<1>11. Spells(freelst, MemNext, c) /\ \A n \in Range(c) : node[n].next \in {NULL} \cup Range(c)
  BY <1>2, MemShape
<1>12. PICK d : Spells(freelst', MemNext', d) /\ Range(d) = Range(c) \cup {m}
  <2>1. /\ DOMAIN MemNext' = Range(c) \cup {m} /\ DOMAIN MemNext = Range(c)
        /\ \A n \in Range(c) \cup {m} : MemNext'[n] = node'[n].next
        /\ \A n \in Range(c) : MemNext[n] = node[n].next
    BY <1>2, <1>8 DEF MemNext
  <2>2. \A x \in Range(c) : x # Last(c) => MemNext'[x] = MemNext[x]
    BY <2>1, <1>2, <1>3, <1>5, <1>8
  <2>3. MemNext'[Last(c)] = m /\ MemNext'[m] = NULL
    BY <2>1, <1>3, <1>8, <1>10
  <2>4. \E d : Spells(freelst, MemNext', d) /\ Range(d) = Range(c) \cup {m}
    <3>1. NULL \notin DOMAIN MemNext /\ Range(c) \cup {m} \subseteq DOMAIN MemNext'
      BY <2>1, <1>5
    <3>2. Spells(freelst, MemNext, c) /\ c # <<>> /\ m \notin Range(c)
      BY <1>3, <1>5, <1>11
    <3> QED BY <3>1, <3>2, <2>2, <2>3, SpellsLonger
  <2> QED BY <2>4, <1>1
<1>13. /\ GroupNext(m) = {b} /\ \A n \in Range(c) : GroupNext(n) = Group(n) /\ b \notin Group(n)
  <2>1. InMem = UNION {Group(n) : n \in Range(c)}
    BY DEF InMem, c
  <2> QED BY <2>1, <1>2, <1>5, <1>8, <1>10 DEF GroupNext, Group
<1>14. \A n \in Range(d) : Tidy(node'[n].blocknum, node'[n].free)
  <2>1. \A n \in Range(c) : Tidy(node[n].blocknum, node[n].free)
    BY <1>2 DEF MemGood
  <2> QED BY <2>1, <1>2, <1>5, <1>8, <1>10, <1>12
<1>15. \A x, n \in Range(d) : x # n => GroupNext(x) \cap GroupNext(n) = {}
  <2>1. \A x, n \in Range(c) : x # n => Group(x) \cap Group(n) = {}
    BY <1>2 DEF MemGood
  <2> QED BY <2>1, <1>12, <1>13
<1>16. Collectors' = d /\ MemGood(Collectors)' /\ InMem' = UNION {GroupNext(n) : n \in Range(d)}
  BY <1>9, <1>12, <1>14, <1>15, NewList
<1>17. InMem' = InMem \cup {b}
  <2>1. InMem = UNION {Group(n) : n \in Range(c)}
    BY DEF InMem, c
  <2> QED BY <2>1, <1>12, <1>13, <1>16
<1>18. CallOK(p)'
  <2>1. r.drop \notin Range(Collectors') /\ r.drop \notin heap'
    BY <1>2, <1>5, <1>7, <1>8, <1>12, <1>16
  <2> QED BY <2>1, <1>2, <1>3, <1>5, <1>6, <1>7, <1>10, <1>12, <1>16, TwoToWrite
<1>19. heap' \subseteq Range(Collectors') \cup {r.drop}
  BY <1>2, <1>8, <1>12, <1>16
<1>20. \A n \in Range(Collectors') : n \in Range(r.todo) \/ dfbc[node'[n].blocknum] = Image(n)'
  <2> SUFFICES ASSUME NEW n \in Range(c), n # t PROVE dfbc[node'[n].blocknum] = Image(n)'
    BY <1>7, <1>12, <1>16
  <2>1. n \in Nodes /\ n # m /\ node'[n] = node[n]
    BY <1>2, <1>5, <1>8
  <2>2. node[n].next \in heap' <=> node[n].next \in heap
    BY <1>2, <1>5, <1>8, <1>11
  <2>3. node[n].next \in heap => node'[node[n].next].blocknum = node[node[n].next].blocknum
    BY <1>2, <1>4, <1>8
  <2>4. Image(n)' = Image(n)
    BY <2>1, <2>2, <2>3, ImageStays
  <2>5. dfbc[node[n].blocknum] = Image(n)
    BY <1>1, LockFree DEF c
  <2> QED BY <2>1, <2>4, <2>5
<1>21. dsuper = BlockOf(freelst)'
  <2>1. dsuper = BlockOf(freelst)
    BY <1>1, LockFree
  <2> QED BY <2>1, <1>1, <1>2, <1>3, <1>5, <1>8 DEF BlockOf
<1> QED BY <1>1, <1>2, <1>7, <1>9, <1>16, <1>17, <1>18, <1>19, <1>20, <1>21, Acquired DEF b

LEMMA FreeAppendKeeps ==
  ASSUME NEW used, ListInv(used), DiskInv, DiskInv', NEW p \in Procs, FreeAppend(p)
  PROVE  ListInv(used)'
<1> DEFINE c == Collectors
           b == call[p].arg
           t == Tail_fbc
           s == node[t].free
           w == Append(s, b)
<1>1. /\ Freeing(p) /\ freelock = 1 /\ ListIntact /\ Len(s) # FREEBLOCKMAX
      /\ Locked(p, call[p], <<t>>)
      /\ UNCHANGED <<freelst, heap, pos, dsuper, dfbc>>
      /\ node' = [node EXCEPT ![t].free = w]
  BY DEF FreeAppend, Locked, diskvars, TailFull
<1>2. /\ call[p] \in Call /\ call[p].pc = "wait" /\ call[p].op = "free"
      /\ b \in Blocks /\ b \notin InMem /\ call[p].drop = NULL
      /\ Typed /\ MemGood(c) /\ heap = Range(c) /\ heap \subseteq Nodes
      /\ node \in [Nodes -> Node]
  BY <1>1, FreeFinds
<1>3. /\ t \in Range(c) /\ t \in Nodes /\ freelst \in Range(c) /\ Tidy(node[t].blocknum, s)
  BY <1>1, TailFinds
<1>4. InMem = UNION {Group(n) : n \in Range(c)}
  BY DEF InMem
<1>5. /\ b \notin Range(s) /\ b # node[t].blocknum
  BY <1>2, <1>3, <1>4 DEF Group
<1>6. /\ w \in Seq(Blocks) /\ Len(w) = Len(s) + 1 /\ Len(s) \in Nat
      /\ IsInjective(w) /\ Range(w) = Range(s) \cup {b}
  BY <1>2, <1>3, <1>5, WithLast DEF Tidy
<1>7. swz = {} /\ swz' = {t} /\ freelock' = 0
  BY <1>1, <1>2, <1>3, TakesOne
<1>8. PICK r \in Call : /\ call' = [call EXCEPT ![p] = r] /\ call'[p] = r
                        /\ r.pc = "seek" /\ Head(r.todo) = t /\ Len(r.todo) = 1
                        /\ Range(r.todo) = {t}
                        /\ r.op = "free" /\ r.arg = b /\ r.drop = NULL
  <2>0. PICK rec \in Call : rec = call[p]
    BY <1>2
  <2>1. TookOne(p, rec, t)
    <3>1. t \in Nodes \cup {SUPER} /\ Locked(p, rec, <<t>>)
      BY <2>0, <1>1, <1>3
    <3>2. call[p].pc = "wait"
      BY <1>1, <1>2
    <3> QED BY <3>1, <3>2, TakesOne
  <2> QED BY <1>2, <2>0, <2>1 DEF TookOne
<1> HIDE DEF c, b, t, s, w
<1>9. /\ node'[t].free = w /\ \A n \in Nodes \ {t} : node'[n] = node[n]
      /\ node' \in [Nodes -> Node]
      /\ \A n \in Nodes : node'[n].blocknum = node[n].blocknum /\ node'[n].next = node[n].next
  BY <1>1, <1>2, <1>3, <1>6 DEF Node
<1>10. Typed'
  <2>1. freelst' \in Int /\ heap' \subseteq Nodes /\ swz' \subseteq Nodes \cup {SUPER} /\ freelock' \in {0, 1}
    BY <1>1, <1>2, <1>3, <1>7 DEF Typed
  <2> QED BY <1>1, <1>2, <1>8, <1>9, <2>1, TypedLocked
<1>11. Spells(freelst, MemNext, c) /\ \A n \in Range(c) : node[n].next \in {NULL} \cup Range(c)
  BY <1>2, MemShape
<1>12. Spells(freelst', MemNext', c)
  <2>1. DOMAIN MemNext' = heap /\ \A n \in heap : MemNext'[n] = MemNext[n]
    BY <1>1, <1>2, <1>9 DEF MemNext
  <2> QED BY <2>1, <1>1, <1>2, <1>11, SpellsSame
<1>13. \A n \in Range(c) : Tidy(node'[n].blocknum, node'[n].free)
  <2>1. Tidy(node[t].blocknum, w)
    BY <1>1, <1>3, <1>5, <1>6, LayoutAssumption DEF Tidy
  <2>2. \A n \in Range(c) : Tidy(node[n].blocknum, node[n].free)
    BY <1>2 DEF MemGood
  <2> QED BY <2>1, <2>2, <1>2, <1>3, <1>9
<1>14. /\ GroupNext(t) = Group(t) \cup {b}
       /\ \A n \in Range(c) \ {t} : GroupNext(n) = Group(n)
  <2>1. Group(t) = {node[t].blocknum} \cup Range(s)
    BY DEF Group, s
  <2>2. GroupNext(t) = {node[t].blocknum} \cup Range(w)
    BY <1>3, <1>9 DEF GroupNext
  <2>3. \A n \in Range(c) \ {t} : GroupNext(n) = Group(n)
    BY <1>2, <1>9 DEF Group, GroupNext
  <2> QED BY <2>1, <2>2, <2>3, <1>6
<1>15. /\ Collectors' = c /\ MemGood(Collectors)'
       /\ InMem' = UNION {GroupNext(n) : n \in Range(c)}
  <2>1. \A x, n \in Range(c) : x # n => GroupNext(x) \cap GroupNext(n) = {}
    <3>1. \A x, n \in Range(c) : x # n => Group(x) \cap Group(n) = {}
      BY <1>2 DEF MemGood
    <3>2. \A n \in Range(c) : b \notin Group(n)
      BY <1>2, <1>4
    <3> QED BY <3>1, <3>2, <1>14
  <2> QED BY <2>1, <1>10, <1>12, <1>13, NewList
<1>16. InMem' = InMem \cup {b}
  BY <1>3, <1>4, <1>14, <1>15
<1>17. t # SUPER
  BY <1>3, Numbers
<1>18. CallOK(p)'
  <2>1. r.drop \notin Range(Collectors') /\ r.drop \notin heap'
    BY <1>1, <1>2, <1>8, <1>15, Numbers
  <2> QED BY <2>1, <1>2, <1>3, <1>7, <1>8, <1>15, <1>17, OneToWrite
<1>19. \A n \in Range(Collectors') : n \in Range(r.todo) \/ dfbc[node'[n].blocknum] = Image(n)'
  <2> SUFFICES ASSUME NEW n \in Range(c), n # t PROVE dfbc[node'[n].blocknum] = Image(n)'
    BY <1>8, <1>15
  <2>1. n \in Nodes /\ node'[n] = node[n]
    BY <1>2, <1>9
  <2>2. node[n].next \in heap => node'[node[n].next].blocknum = node[node[n].next].blocknum
    BY <1>2, <1>9
  <2>3. Image(n)' = Image(n)
    BY <2>1, <2>2, <1>1, ImageStays
  <2>4. dfbc[node[n].blocknum] = Image(n)
    BY <1>1, LockFree DEF c
  <2> QED BY <2>1, <2>3, <2>4
<1>20. dsuper = BlockOf(freelst)'
  <2>1. dsuper = BlockOf(freelst)
    BY <1>1, LockFree
  <2> QED BY <2>1, <1>1, <1>2, <1>3, <1>9 DEF BlockOf
<1>21. heap' \subseteq Range(Collectors') \cup {r.drop}
  BY <1>1, <1>2, <1>15
<1> QED BY <1>1, <1>2, <1>8, <1>10, <1>15, <1>16, <1>18, <1>19, <1>20, <1>21, Acquired DEF b

-----------------------------------------------------------------------------
(* Steps that leave the list alone.                                        *)

LEMMA MemStays ==
  ASSUME UNCHANGED <<freelst, node, heap>>
  PROVE  /\ Collectors' = Collectors /\ InMem' = InMem
         /\ MemGood(Collectors)' = MemGood(Collectors)
         /\ \A n : Image(n)' = Image(n) /\ BlockOf(n)' = BlockOf(n)
<1>1. MemNext' = MemNext
  BY DEF MemNext
<1>2. Collectors' = Collectors
  BY <1>1 DEF Collectors
<1>3. InMem' = InMem
  BY <1>2 DEF InMem, Group
<1>4. MemGood(Collectors)' = MemGood(Collectors)
  BY <1>1, <1>2 DEF MemGood, Group
<1>5. \A n : Image(n)' = Image(n) /\ BlockOf(n)' = BlockOf(n)
  BY DEF Image, BlockOf
<1> QED BY <1>2, <1>3, <1>4, <1>5

LEMMA InBlocks ==
  /\ MemGood(Collectors) => InMem \subseteq Blocks
  /\ DiskGood(DiskChain) => InDisk \subseteq Blocks /\ Range(DiskChain) \subseteq InDisk
<1>1. \A n : Tidy(node[n].blocknum, node[n].free) => Group(n) \subseteq Blocks
  <2> SUFFICES ASSUME NEW n, Tidy(node[n].blocknum, node[n].free) PROVE Group(n) \subseteq Blocks
    OBVIOUS
  <2>1. node[n].blocknum \in Blocks /\ node[n].free \in Seq(Blocks)
    BY DEF Tidy
  <2>2. Range(node[n].free) \subseteq Blocks
    BY <2>1, LenProperties DEF Range
  <2> QED BY <2>1, <2>2 DEF Group
<1>2. \A b : Tidy(b, dfbc[b].free) => Cut(b) \subseteq Blocks
  <2> SUFFICES ASSUME NEW b, Tidy(b, dfbc[b].free) PROVE Cut(b) \subseteq Blocks
    OBVIOUS
  <2>1. b \in Blocks /\ dfbc[b].free \in Seq(Blocks)
    BY DEF Tidy
  <2>2. Range(dfbc[b].free) \subseteq Blocks
    BY <2>1, LenProperties DEF Range
  <2> QED BY <2>1, <2>2 DEF Cut
<1>3. MemGood(Collectors) => InMem \subseteq Blocks
  BY <1>1 DEF MemGood, InMem
<1>4. DiskGood(DiskChain) => InDisk \subseteq Blocks
  BY <1>2 DEF DiskGood, InDisk
<1>5. Range(DiskChain) \subseteq InDisk
  BY DEF InDisk, Cut
<1> QED BY <1>3, <1>4, <1>5

LEMMA DiskReadsNext ==
  (\A d : DOMAIN dfbc = 1 .. DISKBLOCKTOTAL - 1 /\ Spells(dsuper, DiskNext, d) => DiskChain = d)'
<1>1. \A d : DOMAIN dfbc = 1 .. DISKBLOCKTOTAL - 1 /\ Spells(dsuper, DiskNext, d) => DiskChain = d
  BY DiskReads
<1> QED BY <1>1, PTL

\* A block outside the list can be overwritten.
LEMMA DiskSpared ==
  ASSUME DOMAIN dfbc = 1 .. DISKBLOCKTOTAL - 1, DiskGood(DiskChain), dsuper' = dsuper,
         NEW b, b \notin InDisk, NEW v, dfbc' = [dfbc EXCEPT ![b] = v]
  PROVE  DiskChain' = DiskChain /\ DiskGood(DiskChain)' /\ InDisk' = InDisk
<1> DEFINE d == DiskChain
<1>1. /\ Spells(dsuper, DiskNext, d) /\ Range(d) \subseteq DOMAIN DiskNext
      /\ Range(d) \subseteq Blocks
  BY DiskShape
<1>2. b \notin Range(d)
  BY InBlocks
<1> HIDE DEF d
<1>3. DOMAIN dfbc' = 1 .. DISKBLOCKTOTAL - 1 /\ \A x \in DOMAIN dfbc : x # b => dfbc'[x] = dfbc[x]
  OBVIOUS
<1>4. \A x \in Range(d) : x \in DOMAIN dfbc /\ dfbc[x] # NoFbc /\ DiskNext[x] = dfbc[x].next
  BY <1>1 DEF DiskNext
<1>5. \A x \in Range(d) : dfbc'[x] = dfbc[x]
  BY <1>2, <1>3, <1>4
<1>6. Range(d) \subseteq DOMAIN DiskNext' /\ \A x \in Range(d) : DiskNext'[x] = DiskNext[x]
  BY <1>3, <1>4, <1>5 DEF DiskNext
<1>7. Spells(dsuper', DiskNext', d)
  BY <1>1, <1>6, SpellsSame
<1>8. DiskChain' = d
  BY <1>3, <1>7, DiskReadsNext
<1>9. \A x \in Range(d) : Tidy(x, dfbc[x].free)
  BY DEF DiskGood, d
<1>10. \A x, y \in Range(d) : x # y => Cut(x) \cap Cut(y) = {}
  BY DEF DiskGood, d
<1>11. \A x \in Range(d) : Cut(x)' = Cut(x)
  BY <1>5 DEF Cut
<1>12. DiskGood(DiskChain)'
  BY <1>5, <1>7, <1>8, <1>9, <1>10, <1>11 DEF DiskGood, Cut
<1>13. InDisk' = InDisk
  BY <1>5, <1>8 DEF InDisk, Cut, d
<1> QED BY <1>8, <1>12, <1>13 DEF d

\* A step of a call that is not at the disk: the block in its hand becomes used,
\* or a used one comes into its hand.
LEMMA Outside ==
  ASSUME NEW used, NEW used2, ListInv(used), NEW p \in Procs, NEW r \in Call, call' = [call EXCEPT ![p] = r],
         ~ AtDisk(p), r.pc \notin {"seek", "write"},
         UNCHANGED <<memvars, freelock, pos, dsuper>>,
         used2 \subseteq Blocks, r.arg \notin used2,
         used2 \cup ({r.arg} \cap Blocks) = used \cup ({call[p].arg} \cap Blocks),
         \/ UNCHANGED dfbc
         \/ call[p].arg \in Blocks /\ dfbc' = [dfbc EXCEPT ![call[p].arg] = NoFbc],
         CallOK(p)', Counted(used2)'
  PROVE  ListInv(used2)'
<1> DEFINE a == call[p].arg
<1>1. /\ DOMAIN call = Procs /\ call'[p] = r /\ \A q \in Procs : q # p => call'[q] = call[q]
      /\ UNCHANGED <<freelst, node, heap, swz>>
  BY DEF ListInv, Typed, memvars
<1>2. /\ Typed /\ MemGood(Collectors) /\ Owned(used) /\ Written /\ Settled
      /\ DOMAIN dfbc = 1 .. DISKBLOCKTOTAL - 1
  BY DEF ListInv, Typed
<1>3. Typed'
  <2>1. NoFbc \in Fbc
    BY Numbers DEF NoFbc, Fbc
  <2>2. dfbc' \in [1 .. DISKBLOCKTOTAL - 1 -> Fbc]
    BY <2>1, <1>2 DEF Typed
  <2> QED BY <2>2, <1>1, <1>2 DEF Typed, memvars
<1>4. /\ Collectors' = Collectors /\ InMem' = InMem /\ MemGood(Collectors)'
      /\ \A n : Image(n)' = Image(n) /\ BlockOf(n)' = BlockOf(n)
  BY <1>1, <1>2, MemStays
<1>5. /\ ~ AtDisk(p)' /\ ~ Linking(p) /\ ~ Linking(p)'
      /\ \A q \in Procs : q # p => (AtDisk(q)' <=> AtDisk(q)) /\ (Linking(q)' <=> Linking(q))
  BY <1>1 DEF AtDisk, Linking
<1>6. a \in Blocks => a \notin InMem
  BY <1>2, <1>5 DEF Owned
<1>7. \A q \in Procs : CallOK(q)'
  <2> SUFFICES ASSUME NEW q \in Procs, q # p PROVE CallOK(q)'
    OBVIOUS
  <2>1. CallOK(q) /\ call'[q] = call[q]
    BY <1>1 DEF ListInv
  <2> QED BY <2>1, <1>1, <1>4, <1>5 DEF CallOK, Getting, Freeing
<1>8. Owned(used2)'
  <2>1. \A b \in Blocks : b \in used2 \/ b \in InMem' \/ \E q \in Procs : call'[q].arg = b
    <3> SUFFICES ASSUME NEW b \in Blocks
                 PROVE  b \in used2 \/ b \in InMem' \/ \E q \in Procs : call'[q].arg = b
      OBVIOUS
    <3>1. b \in used \/ b \in InMem \/ \E q \in Procs : call[q].arg = b
      BY <1>2 DEF Owned
    <3>2. b \in used \/ b = a => b \in used2 \/ call'[p].arg = b
      BY <1>1
    <3> QED BY <3>1, <3>2, <1>1, <1>4
  <2>2. used2 \cap InMem' = {}
    BY <1>2, <1>4, <1>6 DEF Owned
  <2>3. \A q \in Procs : q # p /\ call[q].arg \in Blocks => call[q].arg # a /\ call[q].arg \notin used
    BY <1>2 DEF Owned
  <2>4. \A q \in Procs : q # p => call'[q].arg \notin used2
    BY <2>3, <1>1
  <2>5. \A q \in Procs : q # p /\ call'[q].arg = r.arg => r.arg \notin Blocks
    BY <2>3, <1>1
  <2>6. \A x, y \in Procs : x # y /\ call'[x].arg = call'[y].arg => call'[x].arg \notin Blocks
    BY <2>5, <1>1, <1>2 DEF Owned
  <2>7. r.arg \in Blocks => r.arg \notin InMem
    BY <1>2, <1>6 DEF Owned
  <2>8. \A q \in Procs : call'[q].arg \in Blocks => (call'[q].arg \in InMem' <=> Linking(q)')
    BY <2>7, <1>1, <1>2, <1>4, <1>5 DEF Owned
  <2> QED BY <2>1, <2>2, <2>4, <2>6, <2>8, <1>1 DEF Owned
<1>9. Written'
  <2>1. Due' = Due
    <3>1. {q \in Procs : AtDisk(q)'} = {q \in Procs : AtDisk(q)}
      BY <1>5
    <3>2. \A q \in Procs : AtDisk(q) => call'[q] = call[q]
      BY <1>1
    <3> QED BY <3>1, <3>2 DEF Due
  <2>2. \A n \in Range(Collectors) : dfbc'[node[n].blocknum] = dfbc[node[n].blocknum]
    <3> SUFFICES ASSUME NEW n \in Range(Collectors)
                 PROVE  dfbc'[node[n].blocknum] = dfbc[node[n].blocknum]
      OBVIOUS
    <3>1. node[n].blocknum \in InMem
      BY DEF InMem, Group
    <3>2. a \in Blocks => node[n].blocknum # a
      BY <3>1, <1>6
    <3>3. CASE UNCHANGED dfbc
      BY <3>3
    <3>4. CASE a \in Blocks /\ dfbc' = [dfbc EXCEPT ![a] = NoFbc]
      <4>1. DOMAIN dfbc' = DOMAIN dfbc /\ \A x \in DOMAIN dfbc : x # a => dfbc'[x] = dfbc[x]
        BY <3>4
      <4>2. node[n].blocknum \in DOMAIN dfbc
        <5>1. node[n].blocknum \in Blocks
          BY <1>2 DEF MemGood, Tidy
        <5> QED BY <5>1, <1>2, Numbers
      <4> QED BY <4>1, <4>2, <3>2, <3>4
    <3> QED BY <3>3, <3>4
  <2> QED BY <2>1, <2>2, <1>1, <1>2, <1>4 DEF Written
<1>10. Settled'
  <2>1. call[p].drop = NULL /\ NULL \notin heap
    BY <1>2, Numbers DEF ListInv, CallOK, Typed
  <2>2. heap' \subseteq Range(Collectors') \cup {call'[q].drop : q \in Procs}
    BY <2>1, <1>1, <1>2, <1>4 DEF Settled
  <2>3. (\A q \in Procs : ~ AtDisk(q)') => swz' = {}
    BY <1>1, <1>2, <1>5 DEF Settled
  <2> QED BY <2>2, <2>3 DEF Settled
<1>11. CASE HalfWritten
  <2>1. PICK q \in Procs : /\ Linking(q) /\ Len(call[q].todo) = 1
                           /\ Target(call[q].todo[1]) = call[q].arg
    BY <1>11 DEF HalfWritten, HalfLinked
  <2>2. Linking(q)' /\ call'[q] = call[q]
    BY <2>1, <1>1, <1>5
  <2>3. HalfWritten'
    BY <2>1, <2>2, <1>1 DEF HalfWritten, HalfLinked, Target
  <2> QED BY <2>3, <1>3, <1>4, <1>7, <1>8, <1>9, <1>10 DEF ListInv
<1>12. CASE Readable(used)
  <2>1. /\ DiskGood(DiskChain) /\ InDisk \cap used = {} /\ a \notin InDisk
        /\ \A q \in Procs : ~ AtDisk(q) => call[q].arg \notin InDisk
        /\ \A b \in InMem : b \in InDisk \/ \E q \in Procs : Linking(q) /\ call[q].arg = b
    BY <1>12 DEF Readable
  <2>2. DiskGood(DiskChain)' /\ InDisk' = InDisk
    <3>1. CASE UNCHANGED dfbc
      BY <3>1, <2>1, DiskStays
    <3>2. CASE dfbc' = [dfbc EXCEPT ![a] = NoFbc]
      BY <3>2, <2>1, <1>2, DiskSpared
    <3> QED BY <3>1, <3>2
  <2>3. InDisk \subseteq Blocks
    BY <2>1, InBlocks
  <2>4. InDisk \cap used2 = {} /\ r.arg \notin InDisk
    BY <2>1, <2>3
  <2>5. \A q \in Procs : ~ AtDisk(q)' => call'[q].arg \notin InDisk
    BY <2>1, <2>4, <1>1, <1>5
  <2>6. \A b \in InMem' : b \in InDisk \/ \E q \in Procs : Linking(q)' /\ call'[q].arg = b
    BY <2>1, <1>1, <1>4, <1>5
  <2>7. Readable(used2)'
    BY <2>2, <2>4, <2>5, <2>6 DEF Readable
  <2> QED BY <2>7, <1>3, <1>4, <1>7, <1>8, <1>9, <1>10 DEF ListInv
<1> QED BY <1>11, <1>12 DEF ListInv

-----------------------------------------------------------------------------
(* A call begins, or returns.                                              *)

LEMMA CallsMove ==
  ASSUME call \in [Procs -> Call], NEW p \in Procs, NEW r, call' = [call EXCEPT ![p] = r]
  PROVE  /\ call'[p] = r
         /\ Calls' = IF r.pc = "idle" THEN Calls \ {p} ELSE Calls \cup {p}
<1>1. call'[p] = r /\ \A q \in Procs : q # p => call'[q] = call[q]
  OBVIOUS
<1> QED BY <1>1 DEF Calls, Busy

LEMMA SizeOf ==
  ASSUME NEW S, IsFiniteSet(S), Cardinality(S) \in Nat
  PROVE  /\ \A x : Cardinality(S \ {x}) = Cardinality(S) - (IF x \in S THEN 1 ELSE 0)
         /\ \A x : Cardinality(S \cup {x}) = Cardinality(S) + (IF x \in S THEN 0 ELSE 1)
BY FS_RemoveElement, FS_AddElement

LEMMA Sizes ==
  ASSUME NEW used \in SUBSET Blocks, Typed, IsFiniteSet(Procs)
  PROVE  /\ IsFiniteSet(used) /\ Cardinality(used) \in Nat
         /\ IsFiniteSet(Calls) /\ Cardinality(Calls) \in Nat
         /\ \A x : Cardinality(used \ {x}) = Cardinality(used) - (IF x \in used THEN 1 ELSE 0)
         /\ \A x : Cardinality(Calls \ {x}) = Cardinality(Calls) - (IF x \in Calls THEN 1 ELSE 0)
         /\ \A x : Cardinality(used \cup {x}) = Cardinality(used) + (IF x \in used THEN 0 ELSE 1)
         /\ \A x : Cardinality(Calls \cup {x}) = Cardinality(Calls) + (IF x \in Calls THEN 0 ELSE 1)
<1>1. IsFiniteSet(used)
  BY FiniteNumbers
<1>2. IsFiniteSet(Calls)
  <2>1. Calls \subseteq Procs
    BY DEF Calls
  <2> QED BY <2>1, FS_Subset
<1>3. Cardinality(used) \in Nat /\ Cardinality(Calls) \in Nat
  BY <1>1, <1>2, FS_CardinalityType
<1> QED BY <1>1, <1>2, <1>3, SizeOf

\* Only the caller of a machine with one process ever swizzles the superblock.
LEMMA HeadInSight ==
  ASSUME NEW used, ListInv(used), NEW p \in Procs, ~ AtDisk(p)
  PROVE  ReadHead = freelst
<1> SUFFICES ASSUME SUPER \in swz PROVE FALSE
  BY DEF ReadHead
<1>1. PICK q \in Procs : AtDisk(q)
  BY DEF ListInv, Settled
<1>2. /\ CallOK(q) /\ call[q].todo \in Seq(Nodes \cup {SUPER})
  BY DEF ListInv, Typed, Call
<1>3. swz = {Head(call[q].todo)} /\ Len(call[q].todo) \in {1, 2}
      /\ (SUPER \in Range(call[q].todo) => Solo)
  BY <1>1, <1>2 DEF CallOK
<1>4. Solo
  BY <1>2, <1>3, TodoParts
<1> QED BY <1>1, <1>4 DEF Solo

LEMMA GetKeeps ==
  ASSUME NEW used, ListInv(used), NEW p \in Procs, GetCall(p), Counted(used)'
  PROVE  ListInv(used)'
<1> DEFINE r == IF ReadHead = NULL
                THEN [Idle EXCEPT !.op = "get", !.pc = "done", !.arg = SYSERR]
                ELSE [Idle EXCEPT !.op = "get", !.pc = "wait", !.fbc = ReadHead]
<1>1. /\ call[p].pc = "idle" /\ call' = [call EXCEPT ![p] = r]
      /\ UNCHANGED <<memvars, freelock, pos, dsuper, dfbc>>
  BY DEF GetCall, diskvars
<1>2. ~ AtDisk(p) /\ call[p].arg = 0 /\ Typed /\ used \subseteq Blocks
  BY <1>1 DEF AtDisk, ListInv, CallOK, Owned
<1>3. ReadHead = freelst /\ freelst \in Int
  BY <1>2, HeadInSight DEF ListInv, Typed
<1>4. /\ r \in Call /\ r.pc \in {"done", "wait"} /\ r.op = "get" /\ r.drop = NULL
      /\ r.pc = "done" => r.arg = SYSERR
      /\ r.pc = "wait" => r.arg = 0 /\ r.fbc = freelst /\ freelst # NULL
      /\ r.arg \notin Blocks
  <2>1. Idle \in Call /\ SYSERR \in Int /\ 0 \notin Blocks /\ SYSERR \notin Blocks
    BY Numbers, EmptySeq DEF Idle, Call
  <2> QED BY <2>1, <1>3 DEF Idle, Call
<1> HIDE DEF r
<1>5. call'[p] = r /\ freelst' = freelst /\ Calls' = Calls \cup {p}
  BY <1>1, <1>2, <1>4, CallsMove DEF Typed, memvars
<1>6. CallOK(p)'
  BY <1>4, <1>5 DEF CallOK, Getting, Freeing, AtDisk
<1>7. used \subseteq Blocks /\ r.arg \notin used
      /\ used \cup ({r.arg} \cap Blocks) = used \cup ({call[p].arg} \cap Blocks)
  BY <1>1, <1>2, <1>4, Numbers DEF Typed
<1> QED BY <1>1, <1>2, <1>4, <1>6, <1>7, Outside

LEMMA FreeKeeps ==
  ASSUME NEW used, ListInv(used), NEW p \in Procs, NEW b \in used, FreeCall(p, b),
         Counted(used \ {b})'
  PROVE  ListInv(used \ {b})'
<1> DEFINE used2 == used \ {b}
           r     == [Idle EXCEPT !.op = "free", !.pc = "wait", !.arg = b]
<1>1. b \in Blocks /\ b \in Int /\ ~ (b <= 0 \/ b > DISKBLOCKTOTAL)
  BY Numbers DEF ListInv, Owned
<1>2. /\ call[p].pc = "idle" /\ call' = [call EXCEPT ![p] = r]
      /\ UNCHANGED <<memvars, freelock, pos, dsuper, dfbc>>
  BY <1>1 DEF FreeCall, diskvars
<1>3. ~ AtDisk(p) /\ call[p].arg = 0 /\ Typed /\ used \subseteq Blocks
  BY <1>2 DEF AtDisk, ListInv, CallOK, Owned
<1>4. r \in Call /\ r.pc = "wait" /\ r.op = "free" /\ r.drop = NULL /\ r.arg = b
  <2>1. Idle \in Call
    BY Numbers, EmptySeq DEF Idle, Call
  <2> QED BY <2>1, <1>1 DEF Idle, Call
<1> HIDE DEF r
<1>5. call'[p] = r /\ Calls' = Calls \cup {p}
  BY <1>2, <1>3, <1>4, CallsMove DEF Typed
<1>6. CallOK(p)'
  BY <1>1, <1>4, <1>5 DEF CallOK, Getting, Freeing, AtDisk
<1>7. used2 \subseteq Blocks /\ r.arg \notin used2
      /\ used2 \cup ({r.arg} \cap Blocks) = used \cup ({call[p].arg} \cap Blocks)
  BY <1>1, <1>3, <1>4, Numbers
<1> HIDE DEF used2
<1>8. ListInv(used2)'
  <2>1. Counted(used2)'
    BY DEF used2
  <2> QED BY <2>1, <1>2, <1>3, <1>4, <1>6, <1>7, Outside
<1> QED BY <1>8 DEF used2

LEMMA ReturnKeeps ==
  ASSUME NEW used, NEW used2, ListInv(used), NEW p \in Procs, call[p].pc = "done",
         call' = [call EXCEPT ![p] = Idle], UNCHANGED <<memvars, freelock, diskvars>>,
         used2 = used \cup ({call[p].arg} \cap Blocks), Counted(used2)'
  PROVE  ListInv(used2)'
<1> DEFINE b == call[p].arg
<1>1. ~ AtDisk(p) /\ Typed /\ used \subseteq Blocks
  BY DEF AtDisk, ListInv, Owned
<1>2. /\ Idle \in Call /\ Idle.pc = "idle" /\ Idle.op = "none" /\ Idle.drop = NULL
      /\ Idle.arg = 0 /\ 0 \notin Blocks
  BY Numbers, EmptySeq DEF Idle, Call
<1> HIDE DEF Idle
<1>3. call'[p] = Idle /\ Calls' = Calls \ {p} /\ p \in Calls
  BY <1>1, <1>2, CallsMove DEF Typed, Calls, Busy
<1>4. CallOK(p)'
  BY <1>2, <1>3 DEF CallOK, Getting, Freeing, AtDisk
<1>5. /\ used2 \subseteq Blocks /\ Idle.arg \notin used2
      /\ used2 \cup ({Idle.arg} \cap Blocks) = used \cup ({b} \cap Blocks)
  BY <1>1, <1>2 DEF Typed
<1>6. Idle.pc \notin {"seek", "write"} /\ UNCHANGED <<pos, dsuper, dfbc>>
  BY <1>2 DEF diskvars
<1> QED BY <1>1, <1>2, <1>4, <1>5, <1>6, Outside

LEMMA NoMemoryKeeps ==
  ASSUME NEW used, ListInv(used), NEW p \in Procs, FreeNoMemory(p)
  PROVE  ListInv(used)'
<1> DEFINE r == [call[p] EXCEPT !.pc = "done"]
<1>1. /\ call[p].pc = "wait" /\ call[p].op = "free" /\ Freeing(p)
      /\ call' = [call EXCEPT ![p].pc = "done"]
      /\ UNCHANGED <<memvars, freelock, pos, dsuper, dfbc>>
  BY DEF FreeNoMemory, Freeing, diskvars
<1>2. ~ AtDisk(p) /\ Typed /\ Counted(used) /\ Owned(used) /\ call[p] \in Call /\ call[p].arg \in Blocks
      /\ call[p].drop = NULL
  BY <1>1 DEF AtDisk, ListInv, CallOK, Typed
<1>3. /\ r \in Call /\ r.pc = "done" /\ r.op = call[p].op /\ r.drop = call[p].drop
      /\ r.arg = call[p].arg
  BY <1>2 DEF Call
<1>4. call' = [call EXCEPT ![p] = r]
  BY <1>1, Zenon
<1> HIDE DEF r
<1>5. call'[p] = r /\ Calls' = Calls
  BY <1>1, <1>2, <1>3, <1>4, CallsMove DEF Typed, Calls, Busy
<1>6. CallOK(p)'
  BY <1>1, <1>2, <1>3, <1>5 DEF CallOK, Getting, Freeing, AtDisk
<1>7. Counted(used)'
  BY <1>2, <1>5 DEF Counted
<1>8. /\ used \subseteq Blocks /\ r.arg \notin used
      /\ used \cup ({r.arg} \cap Blocks) = used \cup ({call[p].arg} \cap Blocks)
  BY <1>2, <1>3 DEF Typed, Owned
<1> QED BY <1>1, <1>2, <1>3, <1>4, <1>6, <1>7, <1>8, Outside

\* Nobody follows a pointer that is not one.
LEMMA NobodyStrays ==
  ASSUME NEW used, ListInv(used), DiskInv, NEW p \in Procs
  PROVE  ~ GetStray(p) /\ ~ FreeStray(p)
<1>1. SUFFICES ASSUME GetStray(p) \/ FreeStray(p) PROVE FALSE
  OBVIOUS
<1>2. freelock = 1 /\ Typed /\ MemGood(Collectors)
  BY <1>1 DEF GetStray, FreeStray, Stray, ListInv
<1>3. swz = {} /\ heap = Range(Collectors)
  BY <1>2, LockFree
<1>4. /\ ReadHead = freelst
      /\ \A n \in Range(Collectors) : Usable(n) /\ ReadNext(n) = node[n].next
      /\ freelst # NULL => ListIntact
  BY <1>2, <1>3, Pointers
<1>5. CASE GetStray(p)
  <2>1. call[p].fbc = freelst /\ freelst \in Range(Collectors) /\ Getting(p)
    BY <1>2, <1>5, GetFinds DEF GetStray
  <2>2. node[freelst].next # NULL /\ ~ Usable(node[freelst].next)
    BY <1>4, <1>5, <2>1 DEF GetStray
  <2>3. node[freelst].next \in Range(Collectors)
    BY <1>2, <2>1, <2>2, MemShape
  <2> QED BY <1>4, <2>2, <2>3
<1>6. CASE FreeStray(p)
  <2>1. freelst = NULL /\ Nodes = heap
    BY <1>4, <1>6 DEF FreeStray
  <2>2. Collectors = <<>>
    BY <1>2, <2>1, MemShape
  <2>3. Range(Collectors) = {}
    BY <2>2 DEF Range
  <2>4. 1 \in Nodes
    <3>1. (DISKBLOCKTOTAL - 2) \div (FREEBLOCKMAX + 1) \in Nat
      BY LayoutAssumption
    <3> QED BY <3>1, LayoutAssumption DEF Nodes
  <2> QED BY <1>3, <2>1, <2>3, <2>4
<1> QED BY <1>1, <1>5, <1>6

-----------------------------------------------------------------------------
(* The call that is at the disk.                                           *)

LEMMA DiskCall ==
  ASSUME NEW used, ListInv(used), DiskInv, NEW p \in Procs, AtDisk(p)
  PROVE  LET c == call[p] todo == call[p].todo IN
         /\ Typed /\ MemGood(Collectors) /\ c \in Call /\ freelock = 0
         /\ \A q \in Procs : q # p => ~ AtDisk(q) /\ ~ Linking(q)
         /\ Due = Range(todo) /\ swz = {todo[1]}
         /\ todo \in Seq(Nodes \cup {SUPER}) /\ Len(todo) \in {1, 2}
         /\ Head(todo) = todo[1] /\ todo[1] \in Range(todo)
         /\ Range(todo) \subseteq Range(Collectors) \cup {SUPER}
         /\ c.op \in {"get", "free"} /\ c.arg \in Blocks /\ c.drop \notin Range(Collectors)
         /\ Linking(p) <=> c.op = "free"
         /\ heap \subseteq Range(Collectors) \cup {c.drop}
         /\ Len(todo) = 1 => Tail(todo) = <<>> /\ Range(todo) = {todo[1]}
         /\ Len(todo) = 2 =>
              /\ c.op = "free" /\ todo[2] \in Range(Collectors) /\ todo[1] # todo[2]
              /\ node[todo[2]].blocknum = c.arg /\ node[todo[2]].next = NULL
              /\ Range(todo) = {todo[1], todo[2]} /\ Tail(todo) # <<>>
              /\ Head(Tail(todo)) = todo[2] /\ Tail(todo) \in Seq(Nodes \cup {SUPER})
              /\ Len(Tail(todo)) = 1 /\ Tail(todo)[1] = todo[2] /\ Range(Tail(todo)) = {todo[2]}
<1> DEFINE todo == call[p].todo
<1>1. Typed /\ MemGood(Collectors) /\ CallOK(p) /\ call[p] \in Call
  BY DEF ListInv, Typed
<1>2. freelock = 0 /\ \A q \in Procs : q # p => ~ AtDisk(q) /\ ~ Linking(q)
  BY DEF DiskInv, Exclusive, AtDisk, Linking
<1>3. todo \in Seq(Nodes \cup {SUPER}) /\ Len(todo) \in {1, 2}
  BY <1>1 DEF Call, CallOK
<1>4. /\ Head(todo) = todo[1] /\ todo[1] \in Range(todo)
      /\ Len(todo) = 1 => Tail(todo) = <<>> /\ Range(todo) = {todo[1]}
      /\ Len(todo) = 2 => /\ Tail(todo) # <<>> /\ Head(Tail(todo)) = todo[2]
                          /\ Tail(todo) \in Seq(Nodes \cup {SUPER}) /\ Len(Tail(todo)) = 1
                          /\ Tail(todo)[1] = todo[2]
                          /\ Range(todo) = {todo[1], todo[2]} /\ Range(Tail(todo)) = {todo[2]}
  <2> HIDE DEF todo
  <2> QED BY <1>3, TodoParts
<1>5. Due = Range(todo)
  <2>1. {q \in Procs : AtDisk(q)} = {p}
    BY <1>2
  <2>2. Due = UNION {Range(call[q].todo) : q \in {p}}
    BY <2>1 DEF Due
  <2> QED BY <2>2
<1>6. heap \subseteq Range(Collectors) \cup {call[p].drop}
  <2>1. \A q \in Procs : q # p => call[q].drop = NULL
    BY <1>2 DEF ListInv, CallOK
  <2>2. NULL \notin heap
    BY <1>1, Numbers DEF Typed
  <2> QED BY <2>1, <2>2 DEF ListInv, Settled
<1>7. /\ call[p].op \in {"get", "free"} /\ call[p].arg \in Blocks
      /\ call[p].drop \notin Range(Collectors) /\ swz = {Head(todo)}
      /\ Range(todo) \subseteq Range(Collectors) \cup {SUPER}
      /\ Len(todo) = 2 => /\ call[p].op = "free" /\ todo[2] \in Range(Collectors)
                          /\ todo[1] # todo[2]
                          /\ node[todo[2]].blocknum = call[p].arg /\ node[todo[2]].next = NULL
  BY <1>1 DEF CallOK, AtDisk
<1>8. Linking(p) <=> call[p].op = "free"
  BY DEF AtDisk, Linking
<1> QED BY <1>1, <1>2, <1>3, <1>4, <1>5, <1>6, <1>7, <1>8

\* Where it writes.
LEMMA Aimed ==
  ASSUME NEW used, ListInv(used), DiskInv, NEW p \in Procs, AtDisk(p)
  PROVE  LET t == call[p].todo[1] IN
         /\ Target(t) \in 0 .. DISKBLOCKTOTAL - 1
         /\ t = SUPER => Target(t) = SUPERBLOCKNUM
         /\ t # SUPER => /\ t \in Range(Collectors) /\ t \in Nodes
                         /\ Target(t) = node[t].blocknum
                         /\ Target(t) \in Blocks /\ Target(t) # SUPERBLOCKNUM
<1> DEFINE t == call[p].todo[1]
<1>1. Typed /\ MemGood(Collectors) /\ t \in Range(Collectors) \cup {SUPER}
  BY DiskCall
<1> HIDE DEF t
<1>2. t # SUPER => t \in Nodes /\ node[t].blocknum \in Blocks
  BY <1>1, MemShape DEF MemGood, Tidy
<1> QED BY <1>1, <1>2, Numbers DEF Target, t

LEMMA SeekKeepsList ==
  ASSUME NEW used, ListInv(used), DiskInv, NEW p \in Procs, seek(p)
  PROVE  ListInv(used)'
<1> DEFINE r == [call[p] EXCEPT !.pc = "write"]
           t == call[p].todo[1]
<1>1. AtDisk(p) /\ call[p].pc = "seek"
  BY DEF seek, AtDisk
<1>2. /\ call' = [call EXCEPT ![p].pc = "write"] /\ pos' = Target(t)
      /\ UNCHANGED <<freelst, node, heap, swz, freelock, dsuper, dfbc>>
  BY <1>1, DiskCall DEF seek
<1>3. Typed /\ call[p] \in Call /\ MemGood(Collectors)
  BY <1>1, DiskCall
<1>4. /\ r \in Call /\ r.pc = "write" /\ r.op = call[p].op /\ r.fbc = call[p].fbc
      /\ r.arg = call[p].arg /\ r.todo = call[p].todo /\ r.drop = call[p].drop
  BY <1>3 DEF Call
<1>5. call' = [call EXCEPT ![p] = r]
  BY <1>2, Zenon
<1> HIDE DEF r
<1>6. /\ DOMAIN call = Procs /\ call'[p] = r /\ \A q \in Procs : q # p => call'[q] = call[q]
      /\ call' \in [Procs -> Call]
  BY <1>3, <1>4, <1>5 DEF Typed
<1>7. pos' \in 0 .. DISKBLOCKTOTAL - 1
  BY <1>1, <1>2, Aimed
<1>8. Typed'
  BY <1>2, <1>3, <1>6, <1>7 DEF Typed
<1>9. /\ Collectors' = Collectors /\ InMem' = InMem /\ MemGood(Collectors)'
      /\ \A n : Image(n)' = Image(n) /\ BlockOf(n)' = BlockOf(n)
  BY <1>2, <1>3, MemStays
<1>10. \A q \in Procs : (AtDisk(q)' <=> AtDisk(q)) /\ (Linking(q)' <=> Linking(q))
                        /\ call'[q].arg = call[q].arg /\ call'[q].todo = call[q].todo
                        /\ call'[q].drop = call[q].drop
  BY <1>1, <1>4, <1>6 DEF AtDisk, Linking
<1>11. \A q \in Procs : CallOK(q)'
  <2> SUFFICES ASSUME NEW q \in Procs PROVE CallOK(q)'
    OBVIOUS
  <2>1. CallOK(q) /\ (call'[q] = call[q] \/ q = p)
    BY <1>6 DEF ListInv
  <2> QED BY <2>1, <1>1, <1>2, <1>4, <1>6, <1>9, <1>10 DEF CallOK, Getting, Freeing
<1>12. Owned(used)'
  BY <1>9, <1>10 DEF ListInv, Owned
<1>13. Counted(used)'
  <2>1. Calls' = Calls
    BY <1>1, <1>4, <1>6 DEF Calls, Busy
  <2> QED BY <2>1 DEF ListInv, Counted
<1>14. Written' /\ Settled'
  <2>1. {q \in Procs : AtDisk(q)'} = {q \in Procs : AtDisk(q)}
    BY <1>10
  <2>2. Due' = Due
    BY <2>1, <1>10 DEF Due
  <2>3. {call'[q].drop : q \in Procs} = {call[q].drop : q \in Procs}
    BY <1>10
  <2> QED BY <2>2, <2>3, <1>1, <1>2, <1>9, <1>10 DEF ListInv, Written, Settled
<1>15. HalfWritten' \/ Readable(used)'
  <2>1. CASE HalfWritten
    <3>1. \A x : Target(x)' = Target(x)
      BY <1>2 DEF Target
    <3> QED BY <2>1, <3>1, <1>10 DEF HalfWritten, HalfLinked
  <2>2. CASE Readable(used)
    <3>1. DiskGood(DiskChain)' /\ InDisk' = InDisk
      BY <2>2, <1>2, DiskStays DEF Readable
    <3> QED BY <2>2, <3>1, <1>9, <1>10 DEF Readable
  <2> QED BY <2>1, <2>2 DEF ListInv
<1> QED BY <1>8, <1>9, <1>11, <1>12, <1>13, <1>14, <1>15 DEF ListInv

\* What a write leaves on disk.
LEMMA Puts ==
  ASSUME NEW used, ListInv(used), DiskInv, NEW p \in Procs, write(p)
  PROVE  LET t == call[p].todo[1] IN
         /\ AtDisk(p) /\ UNCHANGED <<freelst, pos>>
         /\ dsuper' \in {NULL} \cup Blocks /\ dfbc' \in [1 .. DISKBLOCKTOTAL - 1 -> Fbc]
         /\ dsuper' = BlockOf(freelst) \/ (SUPER \in Due /\ t # SUPER)
         /\ \A n \in Range(Collectors) :
               dfbc'[node[n].blocknum] = Image(n) \/ (n \in Due /\ n # t)
<1> DEFINE t == call[p].todo[1]
<1>1. /\ AtDisk(p) /\ pos = Target(Head(call[p].todo)) /\ UNCHANGED <<freelst, pos>>
  BY DEF write, AtDisk, DiskInv, WritesOnTarget
<1>2. Head(call[p].todo) = t /\ Typed /\ MemGood(Collectors) /\ Written
  BY <1>1, DiskCall DEF ListInv
<1>3. /\ t = SUPER => pos = SUPERBLOCKNUM
      /\ t # SUPER => /\ t \in Range(Collectors) /\ t \in Nodes /\ pos = node[t].blocknum
                      /\ pos \in Blocks /\ pos # SUPERBLOCKNUM
  BY <1>1, <1>2, Aimed
<1>4. /\ t = SUPER => dsuper' = BlockOf(freelst) /\ UNCHANGED dfbc
      /\ t # SUPER => dfbc' = [dfbc EXCEPT ![node[t].blocknum] = Image(t)] /\ UNCHANGED dsuper
  BY <1>2, <1>3 DEF write
<1> HIDE DEF t
<1>5. BlockOf(freelst) \in {NULL} \cup Blocks
  <2>1. freelst # NULL => freelst \in Range(Collectors)
    BY <1>2, MemShape
  <2>2. NULL \notin heap
    BY <1>2, Numbers DEF Typed
  <2> QED BY <2>1, <2>2, <1>2 DEF BlockOf, MemGood, Tidy
<1>6. \A n \in Range(Collectors) : node[n].blocknum \in DOMAIN dfbc
  BY <1>2, Numbers DEF MemGood, Tidy, Typed
<1>7. CASE t = SUPER
  <2>1. \A n \in Range(Collectors) : n # t
    BY <1>2, <1>7, MemShape, Numbers
  <2> QED BY <2>1, <1>1, <1>2, <1>4, <1>5, <1>7 DEF Typed, Written, t
<1>8. CASE t # SUPER
  <2>1. Image(t) \in Fbc
    <3>1. node[t] \in Node
      BY <1>2, <1>3, <1>8 DEF Typed
    <3>2. \A n \in heap : node[n] \in Node
      BY <1>2 DEF Typed
    <3>3. \A n : BlockOf(n) \in Int
      BY <3>2, Numbers DEF BlockOf, Node
    <3> QED BY <3>1, <3>3, <1>8 DEF Image, Fbc, Node
  <2>2. /\ dfbc' \in [1 .. DISKBLOCKTOTAL - 1 -> Fbc]
        /\ dfbc'[node[t].blocknum] = Image(t)
        /\ \A x \in DOMAIN dfbc : x # node[t].blocknum => dfbc'[x] = dfbc[x]
    BY <2>1, <1>2, <1>3, <1>4, <1>6, <1>8 DEF Typed
  <2>3. \A n \in Range(Collectors) : n # t => node[n].blocknum # node[t].blocknum
    BY <1>2, <1>3, <1>8 DEF MemGood, Group
  <2>4. \A n \in Range(Collectors) :
           dfbc'[node[n].blocknum] = Image(n) \/ (n \in Due /\ n # t)
    BY <2>2, <2>3, <1>2, <1>6 DEF Written
  <2> QED BY <2>2, <2>4, <1>1, <1>2, <1>4, <1>8 DEF Typed, Written, t
<1> QED BY <1>7, <1>8

\* The first of two writes: the disk now points to a block that is none of its
\* collectors yet.
LEMMA FirstWriteKeeps ==
  ASSUME NEW used, ListInv(used), DiskInv, NEW p \in Procs, write(p),
         Tail(call[p].todo) # <<>>
  PROVE  ListInv(used)' /\ HalfWritten'
<1> DEFINE todo == call[p].todo
           t == call[p].todo[1]
           m == call[p].todo[2]
           rest == Tail(call[p].todo)
           r == [call[p] EXCEPT !.todo = rest, !.pc = "seek"]
<1>1. /\ AtDisk(p) /\ UNCHANGED <<freelst, pos>>
      /\ dsuper' \in {NULL} \cup Blocks /\ dfbc' \in [1 .. DISKBLOCKTOTAL - 1 -> Fbc]
      /\ dsuper' = BlockOf(freelst) \/ (SUPER \in Due /\ t # SUPER)
      /\ \A n \in Range(Collectors) :
            dfbc'[node[n].blocknum] = Image(n) \/ (n \in Due /\ n # t)
  BY Puts
<1>2. /\ Typed /\ MemGood(Collectors) /\ call[p] \in Call /\ freelock = 0
      /\ \A q \in Procs : q # p => ~ AtDisk(q) /\ ~ Linking(q)
      /\ Due = Range(todo) /\ swz = {t} /\ Len(todo) \in {1, 2} /\ Head(todo) = t
      /\ Len(todo) = 1 => Tail(todo) = <<>>
      /\ call[p].op \in {"get", "free"} /\ call[p].arg \in Blocks
      /\ call[p].drop \notin Range(Collectors)
      /\ Linking(p) <=> call[p].op = "free"
      /\ heap \subseteq Range(Collectors) \cup {call[p].drop}
  BY <1>1, DiskCall
<1>3. /\ call[p].op = "free" /\ m \in Range(Collectors) /\ t # m
      /\ node[m].blocknum = call[p].arg /\ node[m].next = NULL
      /\ Range(todo) = {t, m} /\ Head(rest) = m /\ rest \in Seq(Nodes \cup {SUPER})
      /\ Len(rest) = 1 /\ rest[1] = m /\ Range(rest) = {m}
  BY <1>1, <1>2, DiskCall
<1>4. m \in heap /\ m \in Nodes /\ m # SUPER
  BY <1>2, <1>3, MemShape, Numbers
<1>5. Usable(m)
  BY <1>3, <1>4, Numbers DEF Usable, ReadNext
<1>6. /\ call' = [call EXCEPT ![p].todo = rest, ![p].pc = "seek"]
      /\ swz' = (swz \ {t}) \cup {m} /\ UNCHANGED <<node, heap, freelock>>
  BY <1>2, <1>3, <1>5 DEF write
<1>7. /\ r \in Call /\ r.pc = "seek" /\ r.op = call[p].op /\ r.arg = call[p].arg
      /\ r.todo = rest /\ r.drop = call[p].drop
  BY <1>2, <1>3 DEF Call
<1>8. call' = [call EXCEPT ![p] = r]
  BY <1>6, Zenon
<1> HIDE DEF r, rest, t, m, todo
<1>9. /\ DOMAIN call = Procs /\ call'[p] = r /\ \A q \in Procs : q # p => call'[q] = call[q]
      /\ call' \in [Procs -> Call] /\ swz' = {m}
  <2>1. call \in [Procs -> Call] /\ r \in Call
    BY <1>2, <1>7 DEF Typed
  <2>2. swz' = {m}
    BY <1>2, <1>6
  <2> QED BY <1>8, <2>1, <2>2
<1>10. Typed'
  BY <1>1, <1>2, <1>4, <1>6, <1>9 DEF Typed
<1>11. /\ Collectors' = Collectors /\ InMem' = InMem /\ MemGood(Collectors)'
       /\ \A n : Image(n)' = Image(n) /\ BlockOf(n)' = BlockOf(n)
  BY <1>1, <1>2, <1>6, MemStays
<1>12. /\ AtDisk(p)' /\ Linking(p)' /\ Linking(p)
       /\ \A q \in Procs : (AtDisk(q)' <=> AtDisk(q)) /\ (Linking(q)' <=> Linking(q))
                        /\ call'[q].arg = call[q].arg /\ call'[q].drop = call[q].drop
  BY <1>1, <1>2, <1>3, <1>7, <1>9 DEF AtDisk, Linking
<1>13. \A q \in Procs : CallOK(q)'
  <2>1. ASSUME NEW q \in Procs, q # p PROVE CallOK(q)'
    <3>1. CallOK(q) /\ call'[q] = call[q] /\ ~ AtDisk(q) /\ ~ AtDisk(q)'
      BY <2>1, <1>2, <1>9, <1>12 DEF ListInv
    <3> QED BY <3>1, <1>1 DEF CallOK, Getting, Freeing
  <2>2. CallOK(p)'
    <3>1. /\ Len(r.todo) = 1 /\ Range(r.todo) = {m} /\ Head(r.todo) = m /\ m # SUPER
          /\ m \in Range(Collectors')
      <4>1. Head(rest) = m
        BY <1>3
      <4> QED BY <4>1, <1>3, <1>4, <1>7, <1>11
    <3>2. CallOK(p)
      BY DEF ListInv
    <3>3. r.drop \in heap' => node'[r.drop].blocknum \in Blocks /\ node'[r.drop].free = <<>>
      BY <3>2, <1>1, <1>6, <1>7 DEF CallOK
    <3> QED BY <3>1, <3>3, <1>2, <1>7, <1>9, <1>11 DEF CallOK, Getting, Freeing, AtDisk
  <2> QED BY <2>1, <2>2
<1>14. Owned(used)'
  BY <1>11, <1>12 DEF ListInv, Owned
<1>15. Counted(used)'
  <2>1. Calls' = Calls
    BY <1>1, <1>7, <1>9 DEF Calls, Busy, AtDisk
  <2> QED BY <2>1 DEF ListInv, Counted
<1>16. Written'
  <2>1. m \in Due' /\ Due = {t, m}
    <3>1. Range(call'[p].todo) = {m}
      BY <1>3, <1>7, <1>9
    <3> QED BY <3>1, <1>2, <1>3, <1>12 DEF Due
  <2>2. (dsuper = BlockOf(freelst))'
    BY <2>1, <1>1, <1>4, <1>11 DEF BlockOf
  <2> QED BY <2>1, <2>2, <1>1, <1>6, <1>11 DEF Written
<1>17. Settled'
  <2>1. {call'[q].drop : q \in Procs} = {call[q].drop : q \in Procs}
    BY <1>12
  <2> QED BY <2>1, <1>6, <1>11, <1>12 DEF ListInv, Settled
<1>18. HalfWritten'
  <2>1. Len(call'[p].todo) = 1 /\ call'[p].todo[1] = m /\ call'[p].arg = node'[m].blocknum
    BY <1>3, <1>6, <1>7, <1>9
  <2>2. Target(call[p].todo[1])' = call'[p].arg
    BY <2>1, <1>4 DEF Target
  <2> QED BY <2>1, <2>2, <1>12 DEF HalfWritten, HalfLinked, Target
<1> QED BY <1>10, <1>11, <1>13, <1>14, <1>15, <1>16, <1>17, <1>18 DEF ListInv

LEMMA DiskFollowsNext ==
  (Typed /\ MemGood(Collectors) /\ dsuper = BlockOf(freelst)
   /\ (\A n \in Range(Collectors) : dfbc[node[n].blocknum] = Image(n))
   => DiskGood(DiskChain) /\ InDisk = InMem)'
<1>1. Typed /\ MemGood(Collectors) /\ dsuper = BlockOf(freelst)
      /\ (\A n \in Range(Collectors) : dfbc[node[n].blocknum] = Image(n))
      => DiskGood(DiskChain) /\ InDisk = InMem
  BY DiskFollows
<1> QED BY <1>1, PTL

\* The last write: the list in memory is as it was, without the node that was
\* given back, and the disk has it.
LEMMA LastWrite ==
  ASSUME NEW used, ListInv(used), DiskInv, NEW p \in Procs, write(p),
         Tail(call[p].todo) = <<>>
  PROVE  /\ Typed' /\ Collectors' = Collectors /\ InMem' = InMem /\ MemGood(Collectors)'
         /\ heap' \subseteq Range(Collectors') /\ swz' = {}
         /\ DiskGood(DiskChain)' /\ InDisk' = InMem'
         /\ (dsuper = BlockOf(freelst))'
         /\ \A n \in Range(Collectors') : (dfbc[node[n].blocknum] = Image(n))'
         /\ call'[p] \in Call /\ call'[p].pc = "done" /\ call'[p].op = call[p].op
         /\ call'[p].arg = (IF call[p].op = "get" THEN call[p].arg ELSE 0)
         /\ call'[p].drop = NULL
         /\ \A q \in Procs : q # p => call'[q] = call[q]
<1> DEFINE t == call[p].todo[1]
           d == call[p].drop
           r == [Idle EXCEPT !.op = call[p].op, !.pc = "done",
                             !.arg = IF call[p].op = "get" THEN call[p].arg ELSE 0]
<1>1. /\ AtDisk(p) /\ UNCHANGED <<freelst, pos>>
      /\ dsuper' \in {NULL} \cup Blocks /\ dfbc' \in [1 .. DISKBLOCKTOTAL - 1 -> Fbc]
      /\ dsuper' = BlockOf(freelst) \/ (SUPER \in Due /\ t # SUPER)
      /\ \A n \in Range(Collectors) :
            dfbc'[node[n].blocknum] = Image(n) \/ (n \in Due /\ n # t)
  BY Puts
<1>2. /\ Typed /\ MemGood(Collectors) /\ call[p] \in Call
      /\ Due = {t} /\ swz = {t} /\ Head(call[p].todo) = t
      /\ d \notin Range(Collectors) /\ heap \subseteq Range(Collectors) \cup {d}
  <2>1. Len(call[p].todo) = 1
    BY <1>1, DiskCall
  <2> QED BY <2>1, <1>1, DiskCall
<1>3. /\ call' = [call EXCEPT ![p] = r] /\ swz' = swz \ {t} /\ heap' = heap \ {d}
      /\ node' = [n \in Nodes |-> IF n = d THEN NoNode ELSE node[n]] /\ freelock' = 1
  BY <1>2 DEF write
<1>4. /\ r \in Call /\ r.pc = "done" /\ r.op = call[p].op /\ r.drop = NULL
      /\ r.arg = (IF call[p].op = "get" THEN call[p].arg ELSE 0)
  <2>1. Idle \in Call /\ Idle.drop = NULL
    BY Numbers, EmptySeq DEF Idle, Call
  <2> QED BY <2>1, <1>2 DEF Idle, Call
<1> HIDE DEF r
<1>5. call'[p] = r /\ call' \in [Procs -> Call] /\ \A q \in Procs : q # p => call'[q] = call[q]
  BY <1>2, <1>3, <1>4 DEF Typed
<1>6. NoNode \in Node
  BY Numbers, EmptySeq DEF NoNode, Node
<1>7. node' \in [Nodes -> Node] /\ heap' \subseteq Nodes /\ swz' = {}
  BY <1>2, <1>3, <1>6 DEF Typed
<1>8. Typed'
  BY <1>1, <1>2, <1>3, <1>5, <1>7 DEF Typed
<1> DEFINE c == Collectors
<1>9. /\ Spells(freelst, MemNext, c) /\ Range(c) \subseteq Nodes /\ Range(c) \subseteq heap
      /\ \A n \in Range(c) : node[n].next \in {NULL} \cup Range(c)
      /\ freelst # NULL => freelst \in Range(c)
      /\ freelst = NULL <=> c = <<>>
  BY <1>2, MemShape
<1>10. \A n \in Range(c) : n \in heap' /\ node'[n] = node[n]
  BY <1>2, <1>3, <1>9
<1>11. /\ \A n \in Range(c) : Tidy(node[n].blocknum, node[n].free)
       /\ \A m, n \in Range(c) : m # n => Group(m) \cap Group(n) = {}
       /\ InMem = UNION {Group(n) : n \in Range(c)}
  BY <1>2 DEF MemGood, InMem
<1> HIDE DEF c
<1>12. Spells(freelst', MemNext', c)
  <2>1. Range(c) \subseteq DOMAIN MemNext' /\ \A n \in Range(c) : MemNext'[n] = MemNext[n]
    BY <1>9, <1>10 DEF MemNext
  <2>2. Spells(freelst, MemNext', c)
    BY <2>1, <1>9, SpellsSame
  <2> QED BY <2>2, <1>1
<1>13. \A n \in Range(c) : GroupNext(n) = Group(n)
  BY <1>10 DEF GroupNext, Group
<1>14. \A n \in Range(c) : Tidy(node'[n].blocknum, node'[n].free)
  BY <1>10, <1>11
<1>15. \A m, n \in Range(c) : m # n => GroupNext(m) \cap GroupNext(n) = {}
  BY <1>11, <1>13
<1>16. Collectors' = c /\ MemGood(Collectors)' /\ InMem' = UNION {GroupNext(n) : n \in Range(c)}
  BY <1>8, <1>12, <1>14, <1>15, NewList
<1>17. InMem' = InMem
  BY <1>11, <1>13, <1>16
<1>18. heap' \subseteq Range(Collectors')
  BY <1>2, <1>3, <1>16 DEF c
<1>19. NULL \notin heap /\ NULL \notin heap'
  BY <1>2, <1>8, Numbers DEF Typed
<1>20. \A n \in {NULL} \cup Range(c) : BlockOf(n)' = BlockOf(n)
  BY <1>9, <1>10, <1>19 DEF BlockOf
<1>21. (dsuper = BlockOf(freelst))'
  <2>1. dsuper' = BlockOf(freelst)
    BY <1>1, <1>2
  <2>2. freelst \in {NULL} \cup Range(c)
    BY <1>9
  <2> QED BY <2>1, <2>2, <1>1, <1>20 DEF BlockOf
<1>22. \A n \in Range(c) : (dfbc[node[n].blocknum] = Image(n))'
  <2> SUFFICES ASSUME NEW n \in Range(c) PROVE dfbc'[node'[n].blocknum] = Image(n)'
    OBVIOUS
  <2>1. dfbc'[node[n].blocknum] = Image(n)
    BY <1>1, <1>2 DEF c
  <2>2. BlockOf(node[n].next)' = BlockOf(node[n].next)
    BY <1>9, <1>10, <1>20 DEF BlockOf
  <2>3. n # SUPER /\ node'[n] = node[n]
    BY <1>9, <1>10, Numbers
  <2>4. Image(n)' = Image(n)
    BY <2>2, <2>3, <1>9, <1>10, <1>19 DEF Image, BlockOf
  <2> QED BY <2>1, <2>3, <2>4
<1>23. DiskGood(DiskChain)' /\ InDisk' = InMem'
  BY <1>8, <1>16, <1>21, <1>22, DiskFollowsNext
<1> QED BY <1>4, <1>5, <1>7, <1>8, <1>16, <1>17, <1>18, <1>21, <1>22, <1>23 DEF c

LEMMA LastWriteKeeps ==
  ASSUME NEW used, ListInv(used), DiskInv, NEW p \in Procs, write(p),
         Tail(call[p].todo) = <<>>
  PROVE  ListInv(used)'
<1>1. /\ Typed' /\ Collectors' = Collectors /\ InMem' = InMem /\ MemGood(Collectors)'
      /\ heap' \subseteq Range(Collectors') /\ swz' = {}
      /\ DiskGood(DiskChain)' /\ InDisk' = InMem'
      /\ (dsuper = BlockOf(freelst))'
      /\ \A n \in Range(Collectors') : (dfbc[node[n].blocknum] = Image(n))'
      /\ call'[p] \in Call /\ call'[p].pc = "done" /\ call'[p].op = call[p].op
      /\ call'[p].arg = (IF call[p].op = "get" THEN call[p].arg ELSE 0)
      /\ call'[p].drop = NULL
      /\ \A q \in Procs : q # p => call'[q] = call[q]
  BY LastWrite
<1>2. AtDisk(p) /\ freelst' = freelst
  BY DEF write, AtDisk
<1>3. /\ Typed /\ MemGood(Collectors)
      /\ \A q \in Procs : q # p => ~ AtDisk(q) /\ ~ Linking(q)
      /\ call[p].op \in {"get", "free"} /\ call[p].arg \in Blocks
      /\ Linking(p) <=> call[p].op = "free"
  BY <1>2, DiskCall
<1>4. \A q \in Procs : ~ AtDisk(q)' /\ ~ Linking(q)'
  BY <1>1, <1>3 DEF AtDisk, Linking
<1>5. \A q \in Procs : CallOK(q)'
  <2>1. ASSUME NEW q \in Procs, q # p PROVE CallOK(q)'
    <3>1. CallOK(q) /\ call'[q] = call[q] /\ ~ AtDisk(q) /\ ~ AtDisk(q)'
      BY <2>1, <1>1, <1>3, <1>4 DEF ListInv
    <3> QED BY <3>1, <1>2 DEF CallOK, Getting, Freeing
  <2>2. CallOK(p)'
    BY <1>1, <1>3, <1>4, Numbers DEF CallOK, Getting, Freeing
  <2> QED BY <2>1, <2>2
<1>6. /\ \A b \in Blocks : b \in used \/ b \in InMem \/ \E q \in Procs : call[q].arg = b
      /\ used \cap InMem = {} /\ \A q \in Procs : call[q].arg \notin used
      /\ \A a, b \in Procs : a # b /\ call[a].arg = call[b].arg => call[a].arg \notin Blocks
      /\ \A q \in Procs : call[q].arg \in Blocks => (call[q].arg \in InMem <=> Linking(q))
  BY DEF ListInv, Owned
<1>7. 0 \notin used /\ 0 \notin Blocks /\ used \subseteq Blocks
  BY <1>3, Numbers DEF ListInv, Owned
<1>8. \A q \in Procs : call'[q].arg \notin InMem \/ call'[q].arg \notin Blocks
  BY <1>1, <1>3, <1>6, <1>7
<1>9. Owned(used)'
  <2>1. \A b \in Blocks : b \in used \/ b \in InMem' \/ \E q \in Procs : call'[q].arg = b
    <3>1. call[p].arg \in InMem \/ call'[p].arg = call[p].arg
      BY <1>1, <1>3, <1>6
    <3> QED BY <3>1, <1>1, <1>6
  <2>2. \A q \in Procs : call'[q].arg \notin used
    BY <1>1, <1>6, <1>7
  <2>3. \A a, b \in Procs : a # b /\ call'[a].arg = call'[b].arg => call'[a].arg \notin Blocks
    <3>1. \A q \in Procs : call'[q].arg = call[q].arg \/ call'[q].arg \notin Blocks
      BY <1>1, <1>7
    <3> QED BY <3>1, <1>6
  <2> QED BY <2>1, <2>2, <2>3, <1>1, <1>4, <1>6, <1>7, <1>8 DEF Owned
<1>10. Counted(used)'
  <2>1. Calls' = Calls
    BY <1>1, <1>2 DEF Calls, Busy, AtDisk
  <2> QED BY <2>1 DEF ListInv, Counted
<1>11. Written' /\ Settled'
  BY <1>1, <1>4 DEF Written, Settled
<1>12. Readable(used)'
  <2>1. InMem' \subseteq Blocks
    <3>1. InMem \subseteq Blocks
      BY <1>3, InBlocks
    <3> QED BY <3>1, <1>1
  <2> QED BY <2>1, <1>1, <1>6, <1>8 DEF Readable
<1> QED BY <1>1, <1>5, <1>9, <1>10, <1>11, <1>12 DEF ListInv

LEMMA WriteKeepsList ==
  ASSUME NEW used, ListInv(used), DiskInv, NEW p \in Procs, write(p)
  PROVE  ListInv(used)'
BY FirstWriteKeeps, LastWriteKeeps

-----------------------------------------------------------------------------
(* The machine starts.                                                     *)

\* Every call is idle, and the list is read from a disk that can be read.
LEMMA Started ==
  ASSUME NEW used, Typed, DiskGood(DiskChain), OpenedList, swz = {},
         call = [p \in Procs |-> Idle], used = Blocks \ InDisk, Counted(used)
  PROVE  ListInv(used)
<1>1. /\ MemGood(Collectors) /\ heap = Range(Collectors) /\ InMem = InDisk
      /\ dsuper = BlockOf(freelst)
      /\ \A n \in Range(Collectors) : dfbc[node[n].blocknum] = Image(n)
  BY OpenedGood
<1>2. \A p \in Procs : call[p] = Idle
  OBVIOUS
<1>3. Idle.pc = "idle" /\ Idle.op = "none" /\ Idle.arg = 0 /\ Idle.drop = NULL /\ 0 \notin Blocks
  BY Numbers DEF Idle
<1> HIDE DEF Idle
<1>4. \A p \in Procs : ~ AtDisk(p) /\ ~ Linking(p) /\ call[p].arg = 0 /\ CallOK(p)
  BY <1>2, <1>3 DEF AtDisk, Linking, CallOK, Getting, Freeing
<1>5. InDisk \subseteq Blocks /\ 0 \notin used
  BY <1>3, InBlocks
<1>6. Owned(used)
  BY <1>1, <1>3, <1>4, <1>5 DEF Owned
<1>7. Written /\ Settled
  BY <1>1, <1>4 DEF Written, Settled
<1>8. Readable(used)
  BY <1>1, <1>3, <1>4, <1>5 DEF Readable
<1> QED BY <1>1, <1>4, <1>6, <1>7, <1>8 DEF ListInv

LEMMA Division ==
  ASSUME NEW a \in Nat, NEW m \in Nat \ {0}
  PROVE  /\ a \div m \in Nat /\ a % m \in 0 .. m - 1
         /\ a = m * (a \div m) + (a % m)
OBVIOUS

LEMMA Multiples ==
  ASSUME NEW m \in Nat \ {0}, NEW i \in Nat
  PROVE  (i * m) % m = 0
OBVIOUS

LEMMA Apart ==
  ASSUME NEW m \in Nat \ {0}, NEW i \in Nat, NEW j \in Nat, i < j
  PROVE  i * m + m <= j * m
<1>1. (j - i - 1) * m \in Nat
  <2>1. j - i - 1 \in Nat
    OBVIOUS
  <2> QED BY <2>1
<1>2. (j - i - 1) * m = j * m - i * m - m
  OBVIOUS
<1>3. i * m \in Nat /\ j * m \in Nat
  OBVIOUS
<1> QED BY <1>1, <1>2, <1>3

LEMMA OpenedTypedNext ==
  (dfbc \in [1 .. DISKBLOCKTOTAL - 1 -> Fbc] /\ DiskGood(DiskChain) /\ OpenedList
   => freelst \in Int /\ node \in [Nodes -> Node] /\ heap \subseteq Nodes)'
<1>1. dfbc \in [1 .. DISKBLOCKTOTAL - 1 -> Fbc] /\ DiskGood(DiskChain) /\ OpenedList
      => freelst \in Int /\ node \in [Nodes -> Node] /\ heap \subseteq Nodes
  BY OpenedTyped
<1> QED BY <1>1, PTL

LEMMA StartedNext ==
  ASSUME NEW used
  PROVE  (Typed /\ DiskGood(DiskChain) /\ OpenedList /\ swz = {}
          /\ call = [p \in Procs |-> Idle] /\ used = Blocks \ InDisk /\ Counted(used)
          => ListInv(used))'
<1>1. Typed /\ DiskGood(DiskChain) /\ OpenedList /\ swz = {}
      /\ call = [p \in Procs |-> Idle] /\ used = Blocks \ InDisk /\ Counted(used)
      => ListInv(used)
  BY Started
<1> QED BY <1>1, PTL

\* sbOpenFreeList(): what the list on disk does not have is used.
LEMMA OpenKeepsList ==
  ASSUME NEW used, Typed, DiskGood(DiskChain), sbOpen, used = Blocks \ InDisk, Counted(used)'
  PROVE  ListInv(used)'
<1>1. /\ UNCHANGED <<dsuper, dfbc>> /\ swz' = {} /\ call' = [p \in Procs |-> Idle]
      /\ freelock' = 1 /\ pos' = SUPERBLOCKNUM + 1
  BY DEF sbOpen
<1>2. DiskChain' = DiskChain /\ InDisk' = InDisk /\ DiskGood(DiskChain)'
  BY <1>1, DiskStays
<1>3. OpenedList'
  <2>1. \A n : Opened(n)' = Opened(n)
    BY <1>1, <1>2 DEF Opened
  <2> QED BY <2>1, <1>2 DEF sbOpen, OpenedList
<1>4. Typed'
  <2>1. freelst' \in Int /\ node' \in [Nodes -> Node] /\ heap' \subseteq Nodes
    <3>1. (dfbc \in [1 .. DISKBLOCKTOTAL - 1 -> Fbc] /\ DiskGood(DiskChain) /\ OpenedList
           => freelst \in Int /\ node \in [Nodes -> Node] /\ heap \subseteq Nodes)'
      BY OpenedTypedNext
    <3> QED BY <3>1, <1>1, <1>2, <1>3 DEF Typed
  <2>2. Idle \in Call
    BY Numbers, EmptySeq DEF Idle, Call
  <2>3. pos' \in 0 .. DISKBLOCKTOTAL - 1
    BY <1>1, LayoutAssumption DEF SUPERBLOCKNUM
  <2> QED BY <2>1, <2>2, <2>3, <1>1 DEF Typed
<1> QED BY <1>1, <1>2, <1>3, <1>4, StartedNext

\* The groups sbInit() cuts the disk into start this far apart, and there are
\* as many of them.
Step1   == FREEBLOCKMAX + 1
Groups  == (DISKBLOCKTOTAL - 2) \div Step1 + 1
Start(i) == 2 + (i - 1) * Step1

LEMMA GroupNumbers ==
  /\ Step1 \in Nat \ {0} /\ Groups \in Nat \ {0} /\ Groups <= NNODES
  /\ \A i \in 1 .. Groups : Start(i) \in Blocks /\ Start(i) \in FirstFbc
  /\ Start(1) = 2 /\ \A i \in 1 .. Groups : Start(i + 1) = Start(i) + Step1
  /\ \A i \in 1 .. Groups : Start(i + 1) < DISKBLOCKTOTAL <=> i < Groups
  /\ \A i, j \in 1 .. Groups : i < j => Start(i) + Step1 <= Start(j)
  /\ \A b \in Blocks : \E i \in 1 .. Groups : Start(i) <= b /\ b < Start(i) + Step1
<1> DEFINE m == Step1
           D == DISKBLOCKTOTAL
           Q == (D - 2) \div m
           R == (D - 2) % m
<1>1. m \in Nat \ {0} /\ D - 2 \in Nat /\ D \in Nat /\ Q + 1 <= NNODES /\ R # 0
      /\ NNODES \in Nat /\ m = FREEBLOCKMAX + 1
  BY LayoutAssumption DEF Step1
<1>2. Blocks = 2 .. D - 1
  BY DEF Blocks, SUPERBLOCKNUM
<1>3. Q \in Nat /\ R \in 0 .. m - 1 /\ D - 2 = m * Q + R
  <2> HIDE DEF m, D
  <2> QED BY <1>1, Division
<1>4. FirstFbc = {b \in Blocks : (b - 2) % m = 0}
  BY DEF FirstFbc, Step1
<1>5. \A i \in Int : Start(i) = 2 + (i - 1) * m
  BY DEF Start
<1>6. Groups = Q + 1
  BY DEF Groups
<1> HIDE DEF m, D, Q, R
<1>7. Groups \in Nat \ {0} /\ Groups <= NNODES
  BY <1>1, <1>3, <1>6
<1>8. \A i, j \in 1 .. Groups : i < j => Start(i) + m <= Start(j)
  <2> SUFFICES ASSUME NEW i \in 1 .. Groups, NEW j \in 1 .. Groups, i < j
               PROVE  Start(i) + m <= Start(j)
    OBVIOUS
  <2>1. i - 1 \in Nat /\ j - 1 \in Nat /\ i - 1 < j - 1 /\ i \in Int /\ j \in Int
    BY <1>7
  <2> DEFINE x == i - 1
             y == j - 1
  <2>2. x * m + m <= y * m /\ x * m \in Int /\ y * m \in Int
    <3> HIDE DEF x, y
    <3>1. x \in Nat /\ y \in Nat /\ x < y
      BY <2>1 DEF x, y
    <3> QED BY <1>1, <3>1, Apart
  <2>3. Start(i) = 2 + x * m /\ Start(j) = 2 + y * m
    BY <1>5, <2>1
  <2> HIDE DEF x, y
  <2> QED BY <1>1, <2>2, <2>3
<1>9. \A i \in 1 .. Groups : Start(i) \in 2 .. D - 1 /\ (Start(i) - 2) % m = 0
  <2> SUFFICES ASSUME NEW i \in 1 .. Groups
               PROVE  Start(i) \in 2 .. D - 1 /\ (Start(i) - 2) % m = 0
    OBVIOUS
  <2> DEFINE x == i - 1
  <2>1. x \in Nat /\ x <= Q /\ i \in Int
    BY <1>3, <1>6
  <2>2. Start(i) = 2 + x * m
    BY <1>5, <2>1
  <2> HIDE DEF x
  <2>3. x * m \in Nat /\ x * m <= m * Q
    <3>1. (Q - x) * m \in Nat
      <4>1. Q - x \in Nat
        BY <2>1, <1>3
      <4> QED BY <4>1, <1>1
    <3>2. (Q - x) * m = m * Q - x * m
      BY <1>1, <1>3, <2>1
    <3>3. x * m \in Nat /\ m * Q \in Nat
      BY <1>1, <1>3, <2>1
    <3> QED BY <3>1, <3>2, <3>3
  <2>4. (x * m) % m = 0
    BY <1>1, <2>1, Multiples
  <2>5. Start(i) - 2 = x * m
    BY <2>2, <2>3
  <2>6. R >= 1 /\ m * Q \in Nat
    BY <1>1, <1>3
  <2>7. Start(i) \in 2 .. D - 1
    BY <1>1, <1>3, <2>2, <2>3, <2>6
  <2> QED BY <2>4, <2>5, <2>7
<1>10. \A i \in 1 .. Groups : Start(i) \in Blocks /\ Start(i) \in FirstFbc
  BY <1>2, <1>4, <1>9
<1>11. \A i \in 1 .. Groups : Start(i + 1) = Start(i) + m
  <2> SUFFICES ASSUME NEW i \in 1 .. Groups PROVE Start(i + 1) = Start(i) + m
    OBVIOUS
  <2>1. Start(i + 1) = 2 + ((i + 1) - 1) * m /\ Start(i) = 2 + (i - 1) * m
    BY <1>5, <1>7
  <2>2. ((i + 1) - 1) * m = (i - 1) * m + m
    BY <1>1, <1>7
  <2>3. (i - 1) * m \in Int
    BY <1>1, <1>7
  <2> QED BY <1>1, <2>1, <2>2, <2>3
<1>12. Start(Groups + 1) = D - R + m
  <2>1. Start(Groups + 1) = 2 + ((Q + 2) - 1) * m
    BY <1>3, <1>5, <1>6
  <2>2. ((Q + 2) - 1) * m = m * Q + m /\ m * Q \in Nat
    BY <1>1, <1>3
  <2> QED BY <1>1, <1>3, <2>1, <2>2
<1>13. \A i \in 1 .. Groups : Start(i + 1) < D <=> i < Groups
  <2> SUFFICES ASSUME NEW i \in 1 .. Groups PROVE Start(i + 1) < D <=> i < Groups
    OBVIOUS
  <2>1. CASE i < Groups
    <3>1. i + 1 \in 1 .. Groups
      BY <1>7, <2>1
    <3>2. Start(i + 1) \in 2 .. D - 1
      BY <1>9, <3>1
    <3> QED BY <1>1, <2>1, <3>2
  <2>2. CASE i = Groups
    BY <1>1, <1>3, <1>12, <2>2
  <2> QED BY <1>7, <2>1, <2>2
<1>14. Start(1) = 2
  BY <1>1, <1>5
<1>15. \A b \in Blocks : \E i \in 1 .. Groups : Start(i) <= b /\ b < Start(i) + m
  <2> SUFFICES ASSUME NEW b \in 2 .. D - 1
               PROVE  \E i \in 1 .. Groups : Start(i) <= b /\ b < Start(i) + m
    BY <1>2
  <2> DEFINE q == (b - 2) \div m
             r == (b - 2) % m
             a == b - 2
  <2>1. a \in Nat
    OBVIOUS
  <2>2. q \in Nat /\ r \in 0 .. m - 1 /\ a = m * q + r
    <3>1. \A x \in Nat : x \div m \in Nat /\ x % m \in 0 .. m - 1 /\ x = m * (x \div m) + (x % m)
      BY <1>1, Division
    <3> HIDE DEF a
    <3> QED BY <2>1, <3>1 DEF a
  <2> HIDE DEF q, r
  <2>3. q <= Q
    <3> SUFFICES ASSUME q > Q PROVE FALSE
      BY <1>3, <2>2
    <3>1. Q * m + m <= q * m
      BY <1>1, <1>3, <2>2, Apart
    <3>2. Q * m = m * Q /\ q * m = m * q /\ m * Q \in Nat /\ m * q \in Nat
      BY <1>1, <1>3, <2>2
    <3> QED BY <1>1, <1>3, <2>2, <3>1, <3>2
  <2>4. q + 1 \in 1 .. Groups /\ Start(q + 1) = 2 + m * q
    <3>1. Start(q + 1) = 2 + ((q + 1) - 1) * m
      BY <1>5, <2>2
    <3>2. ((q + 1) - 1) * m = m * q
      BY <1>1, <2>2
    <3> QED BY <1>3, <1>6, <2>2, <2>3, <3>1, <3>2
  <2>5. m * q \in Nat
    BY <1>1, <2>2
  <2>6. Start(q + 1) <= b /\ b < Start(q + 1) + m
    BY <1>1, <2>2, <2>4, <2>5
  <2> QED BY <2>4, <2>6
<1> QED BY <1>1, <1>7, <1>8, <1>10, <1>11, <1>13, <1>14, <1>15 DEF m, D

LEMMA OneMultiple ==
  ASSUME NEW m \in Nat \ {0}, NEW x \in Nat, NEW y \in Nat, y <= x, x < y + m,
         x % m = 0, y % m = 0
  PROVE  x = y
<1> DEFINE q == x \div m
           r == y \div m
<1>1. q \in Nat /\ r \in Nat /\ x = m * q /\ y = m * r
  <2>1. \A a \in Nat : a \div m \in Nat /\ a % m \in 0 .. m - 1 /\ a = m * (a \div m) + (a % m)
    BY Division
  <2>2. x = m * q + (x % m) /\ y = m * r + (y % m) /\ q \in Nat /\ r \in Nat
    BY <2>1
  <2> HIDE DEF q, r
  <2>3. m * q \in Nat /\ m * r \in Nat
    BY <2>2
  <2> QED BY <2>2, <2>3
<1> HIDE DEF q, r
<1>2. m * q \in Nat /\ m * r \in Nat /\ q * m = m * q /\ r * m = m * r
  BY <1>1
<1>3. ~ (r < q)
  <2> SUFFICES ASSUME r < q PROVE FALSE
    OBVIOUS
  <2>1. r * m + m <= q * m
    BY <1>1, Apart
  <2> QED BY <1>1, <1>2, <2>1
<1>4. ~ (q < r)
  <2> SUFFICES ASSUME q < r PROVE FALSE
    OBVIOUS
  <2>1. q * m + m <= r * m
    BY <1>1, Apart
  <2> QED BY <1>1, <1>2, <2>1
<1>5. q = r
  BY <1>1, <1>3, <1>4
<1> QED BY <1>1, <1>5

LEMMA FirstCut ==
  ASSUME NEW i \in 1 .. Groups
  PROVE  LET b == Start(i) c == InitFbc(Start(i)) IN
         /\ c \in Fbc /\ c # NoFbc /\ Tidy(b, c.free)
         /\ c.next = (IF i < Groups THEN Start(i + 1) ELSE NULL)
         /\ \A x : x \in {b} \cup Range(c.free) <=> x \in Blocks /\ b <= x /\ x < b + Step1
<1> DEFINE b == Start(i)
           L == IF b + FREEBLOCKMAX < DISKBLOCKTOTAL THEN FREEBLOCKMAX
                ELSE DISKBLOCKTOTAL - 1 - b
           f == [k \in 1 .. L |-> b + k]
           nx == IF b + FREEBLOCKMAX + 1 < DISKBLOCKTOTAL THEN b + FREEBLOCKMAX + 1 ELSE NULL
<1>1. b \in Blocks /\ Start(i + 1) = b + Step1 /\ Step1 = FREEBLOCKMAX + 1
      /\ (Start(i + 1) < DISKBLOCKTOTAL <=> i < Groups)
  BY GroupNumbers DEF Step1
<1>2. Blocks = 2 .. DISKBLOCKTOTAL - 1 /\ DISKBLOCKTOTAL \in Nat /\ FREEBLOCKMAX \in Nat
  BY LayoutAssumption DEF Blocks, SUPERBLOCKNUM
<1>3. InitFbc(b) = [free |-> f, next |-> nx]
  BY Zenon DEF InitFbc
<1> HIDE DEF b
<1>4. b \in 2 .. DISKBLOCKTOTAL - 1 /\ b \in Int
  BY <1>1, <1>2
<1>5. L \in Nat /\ L <= FREEBLOCKMAX /\ b + L <= DISKBLOCKTOTAL - 1
      /\ (L = FREEBLOCKMAX \/ b + L = DISKBLOCKTOTAL - 1)
  BY <1>2, <1>4
<1>6. nx = (IF i < Groups THEN Start(i + 1) ELSE NULL) /\ nx \in Int /\ nx # Wild
  BY <1>1, <1>2, <1>4 DEF NULL, Wild
<1> HIDE DEF L, nx
<1>7. \A k \in 1 .. L : f[k] = b + k /\ b + k \in Blocks
  BY <1>2, <1>4, <1>5
<1>8. f \in Seq(Blocks) /\ Len(f) = L /\ DOMAIN f = 1 .. L
  BY <1>2, <1>4, <1>5
<1>9. IsInjective(f)
  BY <1>4, <1>5, <1>7, <1>8 DEF IsInjective
<1>10. Range(f) = {b + k : k \in 1 .. L}
  BY DEF Range
<1> HIDE DEF f
<1>11. b \notin Range(f)
  BY <1>4, <1>5, <1>10
<1>12. \A x : x \in {b} \cup Range(f) <=> x \in Blocks /\ b <= x /\ x < b + Step1
  <2>1. ASSUME NEW x, x \in {b} \cup Range(f) PROVE x \in Blocks /\ b <= x /\ x < b + Step1
    BY <2>1, <1>1, <1>2, <1>4, <1>5, <1>10
  <2>2. ASSUME NEW x \in Blocks, b <= x, x < b + Step1 PROVE x \in {b} \cup Range(f)
    <3>1. x = b \/ x - b \in 1 .. L
      BY <2>2, <1>1, <1>2, <1>4, <1>5
    <3>2. x = b + (x - b)
      BY <2>2, <1>2, <1>4
    <3> QED BY <3>1, <3>2, <1>10
  <2> QED BY <2>1, <2>2
<1>13. Tidy(b, f)
  BY <1>1, <1>5, <1>8, <1>9, <1>11 DEF Tidy
<1>14. InitFbc(b) \in Fbc /\ InitFbc(b) # NoFbc /\ InitFbc(b).free = f /\ InitFbc(b).next = nx
  BY <1>3, <1>6, <1>8 DEF Fbc, NoFbc
<1> QED BY <1>6, <1>12, <1>13, <1>14 DEF b

\* Only those blocks become collectors.
LEMMA FirstStarts ==
  ASSUME NEW b \in FirstFbc
  PROVE  \E i \in 1 .. Groups : b = Start(i)
<1> DEFINE m == Step1
<1>1. PICK i \in 1 .. Groups : Start(i) <= b /\ b < Start(i) + m
  BY GroupNumbers DEF FirstFbc
<1>2. b \in Blocks /\ (b - 2) % m = 0 /\ Start(i) \in Blocks /\ (Start(i) - 2) % m = 0
      /\ m \in Nat \ {0}
  BY GroupNumbers DEF FirstFbc, Step1
<1>3. Blocks = 2 .. DISKBLOCKTOTAL - 1 /\ DISKBLOCKTOTAL \in Nat
  BY LayoutAssumption DEF Blocks, SUPERBLOCKNUM
<1> HIDE DEF m
<1> DEFINE x == b - 2
           y == Start(i) - 2
<1>4. x \in Nat /\ y \in Nat /\ y <= x /\ x < y + m
  BY <1>1, <1>2, <1>3
<1>5. x % m = 0 /\ y % m = 0
  BY <1>2
<1>6. x = y
  <2> HIDE DEF x, y
  <2> QED BY <1>2, <1>4, <1>5, OneMultiple
<1> QED BY <1>2, <1>3, <1>6

\* sbInit() leaves a disk that can be read and has every block on its list.
LEMMA FirstDisk ==
  ASSUME sbInit
  PROVE  /\ dsuper \in Blocks /\ dfbc \in [1 .. DISKBLOCKTOTAL - 1 -> Fbc]
         /\ DiskGood(DiskChain) /\ InDisk = Blocks /\ Len(DiskChain) <= NNODES
         /\ DiskChain # <<>>
<1> DEFINE K == Groups
           d == [i \in 1 .. K |-> Start(i)]
<1>1. /\ K \in Nat \ {0} /\ K <= NNODES /\ Step1 \in Nat \ {0} /\ NNODES \in Nat
      /\ \A i \in 1 .. K : Start(i) \in Blocks /\ Start(i) \in FirstFbc
      /\ Start(1) = 2
      /\ \A i, j \in 1 .. K : i < j => Start(i) + Step1 <= Start(j)
      /\ \A i \in 1 .. K : Start(i + 1) < DISKBLOCKTOTAL <=> i < K
      /\ \A b \in Blocks : \E i \in 1 .. K : Start(i) <= b /\ b < Start(i) + Step1
  BY GroupNumbers, LayoutAssumption
<1>2. /\ Blocks \subseteq 1 .. DISKBLOCKTOTAL - 1 /\ Blocks \subseteq Int /\ NULL \notin Blocks
      /\ NoFbc \in Fbc
  BY Numbers, EmptySeq DEF NoFbc, Fbc
<1>3. \A i \in 1 .. K : /\ dfbc[Start(i)] = InitFbc(Start(i)) /\ InitFbc(Start(i)) \in Fbc
                        /\ dfbc[Start(i)] # NoFbc /\ Tidy(Start(i), dfbc[Start(i)].free)
                        /\ dfbc[Start(i)].next = (IF i < K THEN Start(i + 1) ELSE NULL)
                        /\ \A x : x \in Cut(Start(i)) <=> x \in Blocks /\ Start(i) <= x
                                                          /\ x < Start(i) + Step1
  <2> SUFFICES ASSUME NEW i \in 1 .. K
               PROVE  /\ dfbc[Start(i)] = InitFbc(Start(i)) /\ InitFbc(Start(i)) \in Fbc
                      /\ dfbc[Start(i)] # NoFbc /\ Tidy(Start(i), dfbc[Start(i)].free)
                      /\ dfbc[Start(i)].next = (IF i < K THEN Start(i + 1) ELSE NULL)
                      /\ \A x : x \in Cut(Start(i)) <=> x \in Blocks /\ Start(i) <= x
                                                        /\ x < Start(i) + Step1
    OBVIOUS
  <2>1. dfbc[Start(i)] = InitFbc(Start(i))
    BY <1>1, <1>2 DEF sbInit
  <2>2. /\ InitFbc(Start(i)) \in Fbc /\ InitFbc(Start(i)) # NoFbc
        /\ Tidy(Start(i), InitFbc(Start(i)).free)
        /\ InitFbc(Start(i)).next = (IF i < K THEN Start(i + 1) ELSE NULL)
        /\ \A x : x \in {Start(i)} \cup Range(InitFbc(Start(i)).free)
                    <=> x \in Blocks /\ Start(i) <= x /\ x < Start(i) + Step1
    BY FirstCut
  <2> QED BY <2>1, <2>2 DEF Cut
<1>4. dfbc \in [1 .. DISKBLOCKTOTAL - 1 -> Fbc]
  <2>1. \A b \in Blocks : b \in FirstFbc => \E i \in 1 .. K : b = Start(i)
    <3> SUFFICES ASSUME NEW b \in FirstFbc PROVE \E i \in 1 .. K : b = Start(i)
      OBVIOUS
    <3> QED BY FirstStarts
  <2>2. \A b \in FirstFbc : InitFbc(b) \in Fbc
    BY <2>1, <1>3 DEF FirstFbc
  <2> QED BY <2>2, <1>2 DEF sbInit
<1>5. dsuper = 2
  BY DEF sbInit, SUPERBLOCKNUM
<1> HIDE DEF K
<1>6. /\ d \in Seq(Blocks) /\ Len(d) = K /\ DOMAIN d = 1 .. K /\ Range(d) = {Start(i) : i \in 1 .. K}
      /\ \A i \in 1 .. K : d[i] = Start(i)
  <2>1. \A i \in 1 .. K : Start(i) \in Blocks
    BY <1>1
  <2>2. d \in [1 .. K -> Blocks] /\ DOMAIN d = 1 .. K /\ \A i \in 1 .. K : d[i] = Start(i)
    BY <2>1
  <2>3. K \in Nat
    BY <1>1
  <2> HIDE DEF d
  <2>4. d \in Seq(Blocks)
    BY <2>2, <2>3, SeqDef
  <2>5. Len(d) = K
    BY <2>2, <2>3, <2>4, LenProperties
  <2>6. Range(d) = {Start(i) : i \in 1 .. K}
    BY <2>2 DEF Range
  <2> QED BY <2>2, <2>4, <2>5, <2>6
<1> HIDE DEF d
<1>7. \A i, j \in 1 .. K : i # j => Start(i) # Start(j) /\ Cut(Start(i)) \cap Cut(Start(j)) = {}
  <2>1. ASSUME NEW i \in 1 .. K, NEW j \in 1 .. K, i < j
        PROVE  Start(i) # Start(j) /\ Cut(Start(i)) \cap Cut(Start(j)) = {}
    <3>1. Start(i) + Step1 <= Start(j) /\ Start(i) \in Int /\ Start(j) \in Int
      BY <1>1, <1>2, <2>1
    <3>2. \A x : x \in Cut(Start(i)) => x \in Int /\ x < Start(i) + Step1
      BY <1>2, <1>3
    <3>3. \A x : x \in Cut(Start(j)) => x \in Int /\ Start(j) <= x
      BY <1>2, <1>3
    <3> QED BY <1>1, <3>1, <3>2, <3>3
  <2>2. \A i, j \in 1 .. K : i # j => i < j \/ j < i
    BY <1>1
  <2> QED BY <2>1, <2>2
<1>8. Range(d) \subseteq DOMAIN DiskNext /\ \A i \in 1 .. K : DiskNext[Start(i)] = dfbc[Start(i)].next
  <2>1. \A i \in 1 .. K : Start(i) \in DOMAIN dfbc /\ dfbc[Start(i)] # NoFbc
    BY <1>1, <1>2, <1>3, <1>4
  <2>2. \A i \in 1 .. K : Start(i) \in DOMAIN DiskNext /\ DiskNext[Start(i)] = dfbc[Start(i)].next
    BY <2>1, Zenon DEF DiskNext
  <2> QED BY <2>2, <1>6
<1>9. Spells(dsuper, DiskNext, d)
  <2>1. d \in Seq(DOMAIN DiskNext)
    <3>1. \A i \in 1 .. K : d[i] \in DOMAIN DiskNext
      BY <1>6, <1>8
    <3> QED BY <1>1, <1>6, <3>1, SeqDef
  <2>2. IsInjective(d)
    BY <1>6, <1>7 DEF IsInjective
  <2>3. dsuper = Nth(d, 1)
    BY <1>1, <1>5, <1>6 DEF Nth
  <2>4. ASSUME NEW i \in 1 .. K PROVE DiskNext[d[i]] = Nth(d, i + 1)
    <3>1. DiskNext[d[i]] = IF i < K THEN Start(i + 1) ELSE NULL
      BY <1>3, <1>6, <1>8
    <3>2. i < K <=> i + 1 \in 1 .. K
      BY <1>1
    <3> QED BY <1>6, <3>1, <3>2 DEF Nth
  <2> QED BY <2>1, <2>2, <2>3, <2>4, <1>6 DEF Spells
<1>10. DiskGood(d)
  BY <1>3, <1>6, <1>7, <1>9 DEF DiskGood
<1>11. DiskChain = d
  BY <1>4, <1>10, DiskShape
<1>12. InDisk = Blocks
  <2>1. InDisk = UNION {Cut(b) : b \in Range(d)}
    BY <1>11 DEF InDisk
  <2>2. \A b \in Blocks : \E i \in 1 .. K : b \in Cut(Start(i))
    BY <1>1, <1>3
  <2>3. \A i \in 1 .. K : Cut(Start(i)) \subseteq Blocks
    BY <1>3
  <2> QED BY <2>1, <2>2, <2>3, <1>6
<1>13. d # <<>>
  BY <1>1, <1>6
<1>14. dsuper \in Blocks
  BY <1>1, <1>5
<1> QED BY <1>1, <1>4, <1>6, <1>10, <1>11, <1>12, <1>13, <1>14

LEMMA InitListOpened ==
  ASSUME Init
  PROVE  /\ Typed /\ DiskGood(DiskChain) /\ OpenedList /\ swz = {} /\ InDisk = Blocks
         /\ call = [p \in Procs |-> Idle]
<1>1. /\ sbInit /\ heap = 1 .. Len(DiskChain) /\ freelst = 1
      /\ node = [n \in Nodes |-> IF n \in heap THEN Opened(n) ELSE NoNode]
      /\ swz = {} /\ freelock = 1 /\ pos = SUPERBLOCKNUM + 1
      /\ call = [p \in Procs |-> Idle]
  BY DEF Init
<1>2. /\ dsuper \in Blocks /\ dfbc \in [1 .. DISKBLOCKTOTAL - 1 -> Fbc]
      /\ DiskGood(DiskChain) /\ InDisk = Blocks /\ Len(DiskChain) <= NNODES
      /\ DiskChain # <<>>
  BY <1>1, FirstDisk
<1>3. OpenedList
  BY <1>1, <1>2 DEF OpenedList
<1>4. Typed
  <2>1. freelst \in Int /\ node \in [Nodes -> Node] /\ heap \subseteq Nodes
    BY <1>2, <1>3, OpenedTyped
  <2>2. Idle \in Call
    BY Numbers, EmptySeq DEF Idle, Call
  <2>3. pos \in 0 .. DISKBLOCKTOTAL - 1
    BY <1>1, LayoutAssumption DEF SUPERBLOCKNUM
  <2> QED BY <2>1, <2>2, <2>3, <1>1, <1>2 DEF Typed
<1> QED BY <1>1, <1>2, <1>3, <1>4

LEMMA AcquireKeepsList ==
  ASSUME NEW used, Roomy, DirtyMalloc = FALSE, ListInv(used), DiskInv, DiskInv',
         NEW p \in Procs, Acquire(p)
  PROVE  ListInv(used)'
<1>1. CASE GetPop(p)
  BY <1>1, GetPopKeeps
<1>2. CASE GetLast(p)
  BY <1>2, GetLastKeeps
<1>3. CASE GetMerge(p)
  BY <1>3, GetMergeKeeps
<1>4. CASE FreeFirst(p)
  BY <1>4, FreeFirstKeeps
<1>5. CASE FreeNew(p)
  BY <1>5, FreeNewKeeps
<1>6. CASE FreeAppend(p)
  BY <1>6, FreeAppendKeeps
<1>7. CASE FreeNoMemory(p)
  BY <1>7, NoMemoryKeeps
<1>8. ~ GetStray(p) /\ ~ FreeStray(p)
  BY NobodyStrays
<1> QED BY <1>1, <1>2, <1>3, <1>4, <1>5, <1>6, <1>7, <1>8 DEF Acquire

LEMMA StutterKeepsList == ASSUME NEW used, ListInv(used), UNCHANGED flvars PROVE ListInv(used)'
<1>1. UNCHANGED <<freelst, node, heap, swz, freelock, pos, dsuper, dfbc, call>>
  BY DEF flvars
<1>2. /\ Collectors' = Collectors /\ InMem' = InMem
      /\ MemGood(Collectors)' = MemGood(Collectors)
      /\ \A n : Image(n)' = Image(n) /\ BlockOf(n)' = BlockOf(n)
  BY <1>1, MemStays
<1>3. DiskChain' = DiskChain /\ InDisk' = InDisk /\ DiskGood(DiskChain)' = DiskGood(DiskChain)
  BY <1>1, DiskStays
<1>4. Typed' /\ (\A p \in Procs : CallOK(p)') /\ Owned(used)'
  BY <1>1, <1>2 DEF ListInv, Typed, CallOK, Owned, AtDisk, Getting, Freeing, Linking
<1>5. Counted(used)' /\ Written' /\ Settled'
  BY <1>1, <1>2 DEF ListInv, Counted, Written, Settled, Calls, Busy, Due, AtDisk
<1>6. HalfWritten' \/ Readable(used)'
  BY <1>1, <1>2, <1>3 DEF ListInv, HalfWritten, HalfLinked, Readable, Linking, AtDisk, Target
<1> QED BY <1>2, <1>4, <1>5, <1>6 DEF ListInv

-----------------------------------------------------------------------------
(* The clients, who know what is used.                                     *)

\* The used blocks before a step, and after it.
LEMMA HeldBefore ==
  ASSUME FreeListInv, NEW used, used = held
  PROVE  /\ ListInv(used) /\ Typed /\ Counted(used) /\ Owned(used) /\ used \in SUBSET Blocks
         /\ \A p \in Procs : CallOK(p)
BY DEF FreeListInv, ListInv, Owned

LEMMA HeldAfter ==
  ASSUME NEW used, ListInv(used)', used = held'
  PROVE  FreeListInv'
BY DEF FreeListInv, ListInv, Owned, Counted, Readable

LEMMA InitList == ASSUME CInit, Roomy PROVE FreeListInv
<1>1. /\ Typed /\ DiskGood(DiskChain) /\ OpenedList /\ swz = {} /\ InDisk = Blocks
      /\ call = [p \in Procs |-> Idle] /\ held = {}
  BY InitListOpened DEF CInit
<1>2. Counted({})
  <2>1. Calls = {}
    BY <1>1 DEF Calls, Busy, Idle
  <2>2. Cardinality({}) = 0 /\ Cardinality(Calls) = 0
    BY <2>1, FS_EmptySet
  <2> QED BY <2>2, ClientAssumption DEF Counted, Roomy
<1>3. PICK used : used = {}
  OBVIOUS
<1>4. used = Blocks \ InDisk /\ Counted(used)
  BY <1>1, <1>2, <1>3
<1>5. ListInv(used)
  BY <1>1, <1>4, Started
<1> QED BY <1>1, <1>3, <1>5 DEF FreeListInv

LEMMA ClientGets ==
  ASSUME FreeListInv, NEW p \in Procs, Get(p)
  PROVE  FreeListInv'
<1>1. PICK used : used = held
  OBVIOUS
<1>2. /\ ListInv(used) /\ Typed /\ Counted(used) /\ used \in SUBSET Blocks
  BY <1>1, HeldBefore
<1>3. GetCall(p) /\ held' = used /\ Cardinality(used) + Cardinality(Calls) < MaxHeld
  BY <1>1 DEF Get
<1>4. Counted(used)'
  <2>1. Calls' = Calls \cup {p}
    <3> DEFINE r == IF ReadHead = NULL
                    THEN [Idle EXCEPT !.op = "get", !.pc = "done", !.arg = SYSERR]
                    ELSE [Idle EXCEPT !.op = "get", !.pc = "wait", !.fbc = ReadHead]
    <3>1. call' = [call EXCEPT ![p] = r] /\ r.pc # "idle"
      BY <1>3 DEF GetCall, Idle
    <3> HIDE DEF r
    <3> QED BY <3>1, <1>2, CallsMove DEF Typed
  <2>2. ASSUME IsFiniteSet(Procs)
        PROVE  Cardinality(used) + Cardinality(Calls') <= MaxHeld
    <3>1. /\ Cardinality(used) \in Nat /\ Cardinality(Calls) \in Nat
          /\ Cardinality(Calls \cup {p}) = Cardinality(Calls) + (IF p \in Calls THEN 0 ELSE 1)
      BY <2>2, <1>2, Sizes
    <3> QED BY <1>3, <2>1, <3>1, ClientAssumption
  <2> QED BY <2>2, <1>2 DEF Counted
<1> QED BY <1>2, <1>3, <1>4, GetKeeps, HeldAfter

LEMMA ClientFrees ==
  ASSUME FreeListInv, NEW p \in Procs, Free(p)
  PROVE  FreeListInv'
<1>1. PICK used : used = held
  OBVIOUS
<1>2. /\ ListInv(used) /\ Typed /\ Counted(used) /\ used \in SUBSET Blocks
  BY <1>1, HeldBefore
<1>3. PICK b \in used : FreeCall(p, b) /\ held' = used \ {b}
  BY <1>1 DEF Free
<1>4. Counted(used \ {b})'
  <2>1. Calls' = Calls \cup {p}
    <3> DEFINE r == IF b <= 0 \/ b > DISKBLOCKTOTAL
                    THEN [Idle EXCEPT !.op = "free", !.pc = "done", !.arg = SYSERR]
                    ELSE [Idle EXCEPT !.op = "free", !.pc = "wait", !.arg = b]
    <3>1. call' = [call EXCEPT ![p] = r] /\ r.pc # "idle"
      BY <1>3 DEF FreeCall, Idle
    <3> HIDE DEF r
    <3> QED BY <3>1, <1>2, CallsMove DEF Typed
  <2>2. ASSUME IsFiniteSet(Procs), Cardinality(used) + Cardinality(Calls) <= MaxHeld
        PROVE  Cardinality(used \ {b}) + Cardinality(Calls') <= MaxHeld
    <3>1. /\ Cardinality(used) \in Nat /\ Cardinality(Calls) \in Nat
          /\ Cardinality(Calls \cup {p}) = Cardinality(Calls) + (IF p \in Calls THEN 0 ELSE 1)
          /\ Cardinality(used \ {b}) = Cardinality(used) - (IF b \in used THEN 1 ELSE 0)
      BY <2>2, <1>2, Sizes
    <3> QED BY <2>1, <2>2, <3>1, ClientAssumption
  <2> QED BY <2>2, <1>2 DEF Counted
<1>5. ListInv(used \ {b})'
  BY <1>2, <1>3, <1>4, FreeKeeps
<1> QED BY <1>3, <1>5, HeldAfter

LEMMA ClientReturns ==
  ASSUME FreeListInv, NEW p \in Procs, Return(p)
  PROVE  FreeListInv'
<1> DEFINE b == call[p].arg
<1>1. PICK used, used2 : used = held /\ used2 = held \cup ({b} \cap Blocks)
  OBVIOUS
<1>2. /\ ListInv(used) /\ Typed /\ Counted(used) /\ used \in SUBSET Blocks
  BY <1>1, HeldBefore
<1>3. /\ call[p].pc = "done" /\ call' = [call EXCEPT ![p] = Idle]
      /\ used2 = held' /\ used2 = used \cup ({b} \cap Blocks)
      /\ UNCHANGED <<memvars, freelock, diskvars>>
  BY <1>1 DEF Return
<1>4. Calls' = Calls \ {p} /\ p \in Calls
  <2>1. Idle.pc = "idle"
    BY DEF Idle
  <2> QED BY <2>1, <1>2, <1>3, CallsMove DEF Typed, Calls, Busy
<1>5. Counted(used2)'
  <2>1. ASSUME IsFiniteSet(Procs), Cardinality(used) + Cardinality(Calls) <= MaxHeld
        PROVE  Cardinality(used2) + Cardinality(Calls') <= MaxHeld
    <3>1. /\ Cardinality(used) \in Nat /\ Cardinality(Calls) \in Nat
          /\ Cardinality(Calls \ {p}) = Cardinality(Calls) - (IF p \in Calls THEN 1 ELSE 0)
          /\ Cardinality(used \cup {b}) = Cardinality(used) + (IF b \in used THEN 0 ELSE 1)
      BY <2>1, <1>2, Sizes
    <3>2. used2 = used \/ used2 = used \cup {b}
      BY <1>3
    <3> QED BY <1>4, <2>1, <3>1, <3>2, ClientAssumption
  <2> QED BY <2>1, <1>2 DEF Counted
<1> QED BY <1>2, <1>3, <1>5, ReturnKeeps, HeldAfter

LEMMA RestartKeepsList ==
  ASSUME FreeListInv, CRestart
  PROVE  FreeListInv'
<1>1. PICK used, used2 : used = held /\ used2 = Blocks \ InDisk
  OBVIOUS
<1>2. /\ ListInv(used) /\ Typed /\ Counted(used) /\ Owned(used) /\ used \in SUBSET Blocks
      /\ \A p \in Procs : CallOK(p)
  BY <1>1, HeldBefore
<1>3. Readable(used) /\ DiskGood(DiskChain) /\ sbOpen
  BY <1>2 DEF ListInv, Readable, CRestart
<1>4. held' = used2
  BY <1>1, <1>2, <1>3, DiskListHas DEF CRestart
<1>5. Counted(used2)'
  <2>1. SUFFICES ASSUME IsFiniteSet(Procs), Cardinality(used) + Cardinality(Calls) <= MaxHeld
                 PROVE  Cardinality(used2) + Cardinality(Calls') <= MaxHeld
    BY <1>2 DEF Counted
  <2>2. Calls' = {}
    BY <1>3 DEF Calls, Busy, Idle, sbOpen
  <2> DEFINE g == [q \in Calls |-> call[q].arg]
  <2>3. g \in [Calls -> Int] /\ used2 \in SUBSET Blocks
    BY <1>1, <1>2 DEF Typed, Call, Calls
  <2>4. used2 \subseteq used \cup {g[q] : q \in Calls}
    <3> SUFFICES ASSUME NEW b \in Blocks, b \notin InDisk, b \notin used
                 PROVE  \E q \in Calls : g[q] = b
      BY <1>1
    <3>1. b \in InMem \/ \E q \in Procs : call[q].arg = b
      BY <1>2 DEF Owned
    <3>2. PICK q \in Procs : call[q].arg = b
      BY <3>1, <1>3 DEF Readable
    <3>3. q \in Calls
      BY <3>2, <1>2, Numbers DEF CallOK, Calls, Busy
    <3> QED BY <3>2, <3>3
  <2> HIDE DEF g
  <2>5. Cardinality(used2) <= Cardinality(used) + Cardinality(Calls) /\ Cardinality(used2) \in Nat
    BY <1>2, <2>1, <2>3, <2>4, HandsFull
  <2>6. Cardinality(Calls') = 0
    BY <2>2, FS_EmptySet
  <2>7. Cardinality(used) \in Nat /\ Cardinality(Calls) \in Nat
    BY <1>2, <2>1, Sizes
  <2> QED BY <2>1, <2>5, <2>6, <2>7, ClientAssumption
<1> QED BY <1>1, <1>2, <1>3, <1>4, <1>5, OpenKeepsList, HeldAfter

LEMMA NextList ==
  ASSUME MayFail = FALSE, DirtyMalloc = FALSE, Roomy
  PROVE  (FreeListInv /\ DiskInv /\ DiskInv' /\ [CNext]_cvars) => FreeListInv'
<1> SUFFICES ASSUME FreeListInv, DiskInv, DiskInv', [CNext]_cvars
             PROVE  FreeListInv'
  OBVIOUS
<1>1. PICK used : used = held
  OBVIOUS
<1>2. ListInv(used)
  BY <1>1, HeldBefore
<1>3. CASE UNCHANGED cvars
  BY <1>1, <1>2, <1>3, StutterKeepsList, HeldAfter DEF cvars
<1>4. CASE CRestart
  BY <1>4, RestartKeepsList
<1>5. ASSUME NEW p \in Procs, Get(p) \/ Free(p) \/ Return(p) \/ Work(p) PROVE FreeListInv'
  <2>1. CASE Get(p) \/ Free(p) \/ Return(p)
    BY <2>1, ClientGets, ClientFrees, ClientReturns
  <2>2. CASE Work(p)
    <3>1. held' = used /\ (Acquire(p) \/ seek(p) \/ write(p))
      BY <1>1, <2>2 DEF Work, Step, writeFails
    <3>2. ListInv(used)'
      BY <3>1, <1>2, AcquireKeepsList, SeekKeepsList, WriteKeepsList
    <3> QED BY <3>1, <3>2, HeldAfter
  <2> QED BY <1>5, <2>1, <2>2
<1> QED BY <1>3, <1>4, <1>5 DEF CNext

\* Lists, hands and clients share the blocks of the disk, and what of the list
\* is not on disk is still to be written, on a machine whose writes do not fail
\* and whose malloc() returns clean memory, with one caller or with so few blocks
\* out that the list never gets empty.
THEOREM FreeListInvariance ==
  ASSUME MayFail = FALSE, DirtyMalloc = FALSE, Roomy
  PROVE  CSpec => []FreeListInv
<1>1. CInit => FreeListInv
  BY InitList
<1>2. (FreeListInv /\ DiskInv /\ DiskInv' /\ [CNext]_cvars) => FreeListInv'
  BY NextList
<1> QED BY <1>1, <1>2, DiskInvariance, PTL DEF CSpec

-----------------------------------------------------------------------------
\* Every pointer is a node, every collector names as many blocks as it has room
\* for, the disk position is on the disk: what sbGetBlock() and sbFreeBlock()
\* need to stay inside their arrays.
THEOREM ListTypeCorrect ==
  ASSUME MayFail = FALSE, DirtyMalloc = FALSE, Roomy
  PROVE  CSpec => []TypeOK
<1>1. FreeListInv => TypeOK
  <2> SUFFICES ASSUME FreeListInv PROVE TypeOK
    OBVIOUS
  <2>1. Typed /\ MemGood(Collectors)
    BY DEF FreeListInv, ListInv
  <2>2. freelst \in {NULL} \cup Nodes
    BY <2>1, MemShape
  <2>3. \A n \in heap : node[n].blocknum \in Blocks /\ Len(node[n].free) <= FREEBLOCKMAX
    <3> SUFFICES ASSUME NEW n \in heap
                 PROVE  node[n].blocknum \in Blocks /\ Len(node[n].free) <= FREEBLOCKMAX
      OBVIOUS
    <3>1. CASE n \in Range(Collectors)
      BY <3>1, <2>1 DEF MemGood, Tidy
    <3>2. CASE n \notin Range(Collectors)
      <4>1. PICK p \in Procs : call[p].drop = n
        BY <3>2 DEF FreeListInv, ListInv, Settled
      <4>2. n # NULL
        BY <2>1, Numbers DEF Typed
      <4>3. node[n].blocknum \in Blocks /\ node[n].free = <<>>
        BY <4>1, <4>2 DEF FreeListInv, ListInv, CallOK
      <4> QED BY <4>3, LayoutAssumption
    <3> QED BY <3>1, <3>2
  <2>4. \A p \in Procs : call[p].pc \in {"idle", "wait", "seek", "write", "done", "wild"}
    BY <2>1 DEF Typed, Call
  <2>5. held \subseteq Blocks
    BY DEF FreeListInv, ListInv, Owned
  <2> QED BY <2>1, <2>2, <2>3, <2>4, <2>5 DEF TypeOK, Typed
<1> QED BY <1>1, FreeListInvariance, PTL

\* No caller follows a pointer that is freed or swizzled, although sbGetBlock()
\* reads the head before it has the lock (sbGetBlock.c:28): with one caller, or
\* with so few blocks out that the head never goes.
THEOREM PointersLead ==
  ASSUME MayFail = FALSE, DirtyMalloc = FALSE, Roomy
  PROVE  CSpec => []NoStray
<1>1. FreeListInv => NoStray
  BY DEF FreeListInv, ListInv, Typed, Call, NoStray
<1> QED BY <1>1, FreeListInvariance, PTL

\* A restart at any moment but between the two writes of sbFreeBlock() finds a
\* list that can be read, without a block twice or one that is in use.
THEOREM RestartsAreSafe ==
  ASSUME MayFail = FALSE, DirtyMalloc = FALSE, Roomy
  PROVE  CSpec => []CrashSafe
<1>1. FreeListInv => CrashSafe
  <2> SUFFICES ASSUME FreeListInv, Readable(held) PROVE CrashSafe
    BY DEF FreeListInv, ListInv, CrashSafe
  <2>1. DiskGood(DiskChain) /\ InDisk \cap held = {} /\ Typed
    BY DEF FreeListInv, ListInv, Readable
  <2>2. DiskSound
    BY <2>1, DiskShape DEF Typed
  <2>3. Range(DiskList) = InDisk /\ IsInjective(DiskList)
    BY <2>1, DiskListHas
  <2> QED BY <2>1, <2>2, <2>3 DEF CrashSafe
<1> QED BY <1>1, FreeListInvariance, PTL

\* Whenever nobody has the lock the disk has the list that memory has, collector
\* by collector: each call has written all it changed.
THEOREM DiskHasTheList ==
  ASSUME MayFail = FALSE, DirtyMalloc = FALSE, Roomy
  PROVE  CSpec => []DiskMatches
<1>1. FreeListInv /\ DiskInv => DiskMatches
  <2> SUFFICES ASSUME FreeListInv, DiskInv, freelock = 1
               PROVE  /\ DiskChain = [i \in DOMAIN Collectors |-> node[Collectors[i]].blocknum]
                      /\ \A i \in DOMAIN Collectors :
                            dfbc[DiskChain[i]].free = node[Collectors[i]].free
    BY DEF DiskMatches
  <2>1. dsuper = BlockOf(freelst)
        /\ \A n \in Range(Collectors) : dfbc[node[n].blocknum] = Image(n)
    BY LockFree DEF FreeListInv
  <2>2. Typed /\ MemGood(Collectors)
    BY DEF FreeListInv, ListInv
  <2> QED BY <2>1, <2>2, DiskFollows
<1> QED BY <1>1, FreeListInvariance, DiskInvariance, PTL

-----------------------------------------------------------------------------
(* The pool of AbsPool.                                                    *)

PoolAvail == Range(MemList) \ UNION {InHand(p) : p \in {q \in Procs : Linking(q)}}
PoolHand  == [p \in Procs |-> call[p].arg]
Others(p) == {call[q].arg : q \in Procs \ {p}}

\* What is available is what nobody has.
LEMMA AvailIs ==
  ASSUME FreeListInv
  PROVE  PoolAvail = {b \in Blocks : b \notin held /\ \A q \in Procs : call[q].arg # b}
<1>1. Typed /\ MemGood(Collectors) /\ Owned(held)
  BY DEF FreeListInv, ListInv
<1>2. Range(MemList) = InMem /\ InMem \subseteq Blocks
  BY <1>1, MemListHas, InBlocks
<1>3. \A b : b \in PoolAvail <=> b \in InMem /\ \A q \in Procs : Linking(q) => call[q].arg # b
  BY <1>2 DEF PoolAvail, InHand
<1>4. \A b \in Blocks : b \in InMem => \A q \in Procs : call[q].arg = b => Linking(q)
  BY <1>1 DEF Owned
<1>5. \A b \in Blocks : b \in InMem => b \notin held
  BY <1>1 DEF Owned
<1>6. \A b \in Blocks : b \in InMem \/ b \in held \/ \E q \in Procs : call[q].arg = b
  BY <1>1 DEF Owned
<1> QED BY <1>2, <1>3, <1>4, <1>5, <1>6

LEMMA AvailNext ==
  (FreeListInv => PoolAvail = {b \in Blocks : b \notin held /\ \A q \in Procs : call[q].arg # b})'
<1>1. FreeListInv => PoolAvail = {b \in Blocks : b \notin held /\ \A q \in Procs : call[q].arg # b}
  BY AvailIs
<1> QED BY <1>1, PTL

\* A step of p changes what p has in hand, and what it takes away or gives back.
LEMMA Moves ==
  ASSUME FreeListInv, FreeListInv', NEW p \in Procs,
         \A q \in Procs : q # p => call'[q] = call[q]
  PROVE  /\ PoolHand' = [PoolHand EXCEPT ![p] = call'[p].arg]
         /\ PoolHand[p] = call[p].arg
         /\ PoolAvail = Blocks \ (held \cup {call[p].arg} \cup Others(p))
         /\ PoolAvail' = Blocks \ (held' \cup {call'[p].arg} \cup Others(p))
         /\ call[p].arg \in Blocks => call[p].arg \notin Others(p)
         /\ call'[p].arg \in Blocks => call'[p].arg \notin Others(p) /\ call'[p].arg \notin held'
<1>1. PoolHand' = [PoolHand EXCEPT ![p] = call'[p].arg] /\ PoolHand[p] = call[p].arg
  BY DEF PoolHand
<1>2. PoolAvail = Blocks \ (held \cup {call[p].arg} \cup Others(p))
  BY AvailIs DEF Others
<1>3. PoolAvail' = Blocks \ (held' \cup {call'[p].arg} \cup Others(p))
  BY AvailNext DEF Others
<1>4. call[p].arg \in Blocks => call[p].arg \notin Others(p)
  BY DEF FreeListInv, ListInv, Owned, Others
<1>5. call'[p].arg \in Blocks => call'[p].arg \notin Others(p) /\ call'[p].arg \notin held'
  BY DEF FreeListInv, ListInv, Owned, Others
<1> QED BY <1>1, <1>2, <1>3, <1>4, <1>5

PoolStep == [Pool!PoolNext]_(Pool!poolvars)

LEMMA PoolStepIs ==
  /\ UNCHANGED <<PoolAvail, held, PoolHand>> => PoolStep
  /\ \A p \in Procs :
       /\ PoolHand[p] = 0 /\ PoolAvail = {} /\ PoolHand' = [PoolHand EXCEPT ![p] = SYSERR]
          /\ UNCHANGED <<PoolAvail, held>> => PoolStep
       /\ \A b \in PoolAvail :
            PoolHand[p] = 0 /\ PoolHand' = [PoolHand EXCEPT ![p] = b]
            /\ PoolAvail' = PoolAvail \ {b} /\ UNCHANGED held => PoolStep
       /\ \A b \in held :
            PoolHand[p] = 0 /\ PoolHand' = [PoolHand EXCEPT ![p] = b]
            /\ held' = held \ {b} /\ UNCHANGED PoolAvail => PoolStep
       /\ PoolHand[p] = SYSERR /\ PoolHand' = [PoolHand EXCEPT ![p] = 0]
          /\ UNCHANGED <<PoolAvail, held>> => PoolStep
       /\ PoolHand[p] \in Blocks /\ PoolHand' = [PoolHand EXCEPT ![p] = 0]
          /\ held' = held \cup {PoolHand[p]} /\ UNCHANGED PoolAvail => PoolStep
       /\ PoolHand[p] \in Blocks /\ PoolHand' = [PoolHand EXCEPT ![p] = 0]
          /\ PoolAvail' = PoolAvail \cup {PoolHand[p]} /\ UNCHANGED held => PoolStep
  /\ PoolHand' = [p \in Procs |-> 0] /\ PoolAvail \subseteq PoolAvail' /\ held \subseteq held'
     /\ PoolAvail' \cup held' = Blocks /\ PoolAvail' \cap held' = {} => PoolStep
<1>1. SYSERR # 0 /\ 0 \notin Blocks
  BY Numbers DEF SYSERR
<1>2. UNCHANGED <<PoolAvail, held, PoolHand>> => PoolStep
  BY DEF PoolStep, Pool!poolvars, PoolAvail, PoolHand
<1>3. ASSUME NEW p \in Procs, PoolHand[p] = 0, PoolAvail = {},
             PoolHand' = [PoolHand EXCEPT ![p] = SYSERR], UNCHANGED <<PoolAvail, held>>
      PROVE  PoolStep
  <2>1. Pool!Refuse(p)
    BY <1>3 DEF Pool!Refuse, Pool!Hold, PoolAvail, PoolHand
  <2> QED BY <2>1 DEF PoolStep, Pool!PoolNext
<1>4. ASSUME NEW p \in Procs, NEW b \in PoolAvail, PoolHand[p] = 0,
             PoolHand' = [PoolHand EXCEPT ![p] = b],
             PoolAvail' = PoolAvail \ {b}, UNCHANGED held
      PROVE  PoolStep
  <2>1. Pool!Take(p)
    BY <1>4 DEF Pool!Take, Pool!Hold, PoolAvail, PoolHand
  <2> QED BY <2>1 DEF PoolStep, Pool!PoolNext
<1>5. ASSUME NEW p \in Procs, NEW b \in held, PoolHand[p] = 0,
             PoolHand' = [PoolHand EXCEPT ![p] = b],
             held' = held \ {b}, UNCHANGED PoolAvail
      PROVE  PoolStep
  <2>1. Pool!Give(p)
    BY <1>5 DEF Pool!Give, Pool!Hold, PoolAvail, PoolHand
  <2> QED BY <2>1 DEF PoolStep, Pool!PoolNext
<1>6. ASSUME NEW p \in Procs, PoolHand' = [PoolHand EXCEPT ![p] = 0],
             \/ PoolHand[p] = SYSERR /\ UNCHANGED <<PoolAvail, held>>
             \/ /\ PoolHand[p] \in Blocks
                /\ held' = held \cup {PoolHand[p]} /\ UNCHANGED PoolAvail
             \/ /\ PoolHand[p] \in Blocks
                /\ PoolAvail' = PoolAvail \cup {PoolHand[p]} /\ UNCHANGED held
      PROVE  PoolStep
  <2>1. Pool!Open(p)
    BY <1>1, <1>6 DEF Pool!Open, PoolHand
  <2>2. Pool!Deliver(p)
    BY <1>6, <2>1 DEF Pool!Deliver, PoolAvail, PoolHand
  <2> QED BY <2>2 DEF PoolStep, Pool!PoolNext
<1>7. ASSUME PoolHand' = [p \in Procs |-> 0], PoolAvail \subseteq PoolAvail', held \subseteq held',
             PoolAvail' \cup held' = Blocks, PoolAvail' \cap held' = {}
      PROVE  PoolStep
  <2>1. Pool!Settle
    BY <1>7 DEF Pool!Settle, PoolAvail, PoolHand
  <2> QED BY <2>1 DEF PoolStep, Pool!PoolNext
<1> QED BY <1>2, <1>3, <1>4, <1>5, <1>6, <1>7

\* Steps that change neither what p has in hand nor what is held.
LEMMA StepsAside ==
  ASSUME FreeListInv, FreeListInv', NEW p \in Procs,
         \A q \in Procs : q # p => call'[q] = call[q],
         call'[p].arg = call[p].arg, UNCHANGED held
  PROVE  PoolStep
<1>1. PoolAvail' = PoolAvail
  BY Moves
<1>2. PoolHand' = PoolHand
  BY DEF PoolHand
<1> QED BY <1>1, <1>2, PoolStepIs

LEMMA StepsTake ==
  ASSUME FreeListInv, FreeListInv', NEW p \in Procs,
         \A q \in Procs : q # p => call'[q] = call[q],
         call[p].arg = 0, call'[p].arg \in Blocks, UNCHANGED held
  PROVE  PoolStep
<1> DEFINE b == call'[p].arg
<1>1. /\ PoolHand' = [PoolHand EXCEPT ![p] = b] /\ PoolHand[p] = 0
      /\ PoolAvail = Blocks \ (held \cup {0} \cup Others(p))
      /\ PoolAvail' = Blocks \ (held' \cup {b} \cup Others(p))
      /\ b \notin Others(p) /\ b \notin held' /\ b \in Blocks
  BY Moves
<1>2. 0 \notin Blocks
  BY Numbers
<1>3. b \in PoolAvail /\ PoolAvail' = PoolAvail \ {b}
  BY <1>1, <1>2
<1> HIDE DEF b
<1> QED BY <1>1, <1>3, PoolStepIs

LEMMA LockedCall ==
  ASSUME Typed, NEW p \in Procs, NEW rec \in Call, NEW todo, Locked(p, rec, todo)
  PROVE  /\ \A q \in Procs : q # p => call'[q] = call[q]
         /\ call'[p].arg = rec.arg /\ call'[p].pc = "seek"
<1> DEFINE r == [rec EXCEPT !.pc = "seek", !.todo = todo]
<1>1. call' = [call EXCEPT ![p] = r]
  BY DEF Locked
<1>2. r.arg = rec.arg /\ r.pc = "seek"
  BY DEF Call
<1> HIDE DEF r
<1>3. call'[p] = r /\ \A q \in Procs : q # p => call'[q] = call[q]
  BY <1>1 DEF Typed
<1> QED BY <1>2, <1>3

LEMMA AcquireSteps ==
  ASSUME FreeListInv, FreeListInv', DiskInv, NEW p \in Procs, Acquire(p), UNCHANGED held
  PROVE  PoolStep
<1>1. Typed /\ call[p] \in Call
  BY DEF FreeListInv, ListInv, Typed
<1>2. CASE GetPop(p) \/ GetLast(p) \/ GetMerge(p)
  <2>1. Getting(p) /\ \E rec, todo : rec \in Call /\ Locked(p, rec, todo)
    <3>1. Getting(p) /\ freelock = 1
      BY <1>2 DEF GetPop, GetLast, GetMerge, Locked
    <3>2. freelst \in Nodes /\ call[p].fbc = freelst /\ freelst \in heap
          /\ Tidy(node[freelst].blocknum, node[freelst].free)
      BY <3>1, GetFinds DEF FreeListInv
    <3> DEFINE rec == call[p]
    <3> HIDE DEF rec
    <3>3. rec \in Call
      BY <1>1 DEF rec
    <3>4. \A x \in Int : /\ [rec EXCEPT !.arg = x] \in Call
                         /\ \A y \in Int : [rec EXCEPT !.arg = x, !.drop = y] \in Call
      BY <3>3 DEF Call
    <3>5. CASE GetPop(p)
      <4>1. Last(node[freelst].free) \in Int
        <5>1. node[freelst].free \in Seq(Blocks) /\ node[freelst].free # <<>>
              /\ IsInjective(node[freelst].free)
          BY <3>2, <3>5 DEF GetPop, Tidy
        <5> QED BY <5>1, WithoutLast, Numbers
      <4>2. [rec EXCEPT !.arg = Last(node[freelst].free)] \in Call
        BY <4>1, <3>4
      <4>3. Locked(p, [rec EXCEPT !.arg = Last(node[freelst].free)], <<freelst>>)
        BY <3>2, <3>5 DEF GetPop, rec
      <4> QED BY <3>1, <4>2, <4>3
    <3>6. CASE GetLast(p)
      <4>1. node[freelst].blocknum \in Int /\ freelst \in Int
        BY <3>2, Numbers DEF Tidy
      <4>2. [rec EXCEPT !.arg = node[freelst].blocknum, !.drop = freelst] \in Call
        BY <4>1, <3>4
      <4>3. Locked(p, [rec EXCEPT !.arg = node[freelst].blocknum, !.drop = freelst], <<SUPER>>)
        BY <3>2, <3>6 DEF GetLast, rec
      <4> QED BY <3>1, <4>2, <4>3
    <3>7. CASE GetMerge(p)
      <4> DEFINE g == node[freelst].next
      <4>1. g \in heap
        BY <3>2, <3>7 DEF GetMerge, Usable
      <4>2. node[g].blocknum \in Int
        BY <4>1, <1>1 DEF Typed, Node
      <4>3. [rec EXCEPT !.arg = node[g].blocknum] \in Call
        BY <4>2, <3>4
      <4>4. Locked(p, [rec EXCEPT !.arg = node[g].blocknum], <<freelst>>)
        BY <3>2, <3>7 DEF GetMerge, rec
      <4> HIDE DEF g
      <4> QED BY <3>1, <4>3, <4>4
    <3> QED BY <1>2, <3>5, <3>6, <3>7
  <2>2. call'[p].pc = "seek" /\ \A q \in Procs : q # p => call'[q] = call[q]
    BY <2>1, <1>1, LockedCall
  <2>3. call[p].arg = 0 /\ call'[p].arg \in Blocks
    BY <2>1, <2>2 DEF FreeListInv, ListInv, CallOK, AtDisk
  <2> QED BY <2>2, <2>3, StepsTake
<1>3. CASE FreeFirst(p) \/ FreeNew(p) \/ FreeAppend(p)
  <2>1. \E todo : Locked(p, call[p], todo)
    BY <1>3, Zenon DEF FreeFirst, FreeNew, FreeAppend
  <2>2. call'[p].arg = call[p].arg /\ \A q \in Procs : q # p => call'[q] = call[q]
    BY <2>1, <1>1, LockedCall
  <2> QED BY <2>2, StepsAside
<1>4. CASE FreeNoMemory(p)
  <2>1. call' = [call EXCEPT ![p].pc = "done"]
    BY <1>4 DEF FreeNoMemory
  <2>2. call'[p].arg = call[p].arg /\ \A q \in Procs : q # p => call'[q] = call[q]
    BY <2>1, <1>1 DEF Typed, Call
  <2> QED BY <2>2, StepsAside
<1>5. ~ GetStray(p) /\ ~ FreeStray(p)
  BY NobodyStrays DEF FreeListInv
<1> QED BY <1>2, <1>3, <1>4, <1>5 DEF Acquire

LEMMA DiskSteps ==
  ASSUME FreeListInv, FreeListInv', DiskInv, NEW p \in Procs, seek(p) \/ write(p), UNCHANGED held
  PROVE  PoolStep
<1>1. Typed /\ call[p] \in Call
  BY DEF FreeListInv, ListInv, Typed
<1>2. CASE seek(p)
  <2>1. call' = [call EXCEPT ![p].pc = "write"]
    BY <1>2 DEF seek
  <2>2. call'[p].arg = call[p].arg /\ \A q \in Procs : q # p => call'[q] = call[q]
    BY <2>1, <1>1 DEF Typed, Call
  <2> QED BY <2>2, StepsAside
<1>3. CASE write(p) /\ Tail(call[p].todo) # <<>>
  <2> DEFINE rest == Tail(call[p].todo)
             next == IF Usable(Head(rest)) THEN "seek" ELSE "wild"
  <2>1. call' = [call EXCEPT ![p].todo = rest, ![p].pc = next]
    BY <1>3 DEF write
  <2> HIDE DEF rest, next
  <2>2. call'[p] = [call[p] EXCEPT !.todo = rest, !.pc = next]
        /\ \A q \in Procs : q # p => call'[q] = call[q]
    BY <2>1, <1>1, Zenon DEF Typed
  <2>3. call'[p].arg = call[p].arg
    BY <2>2, <1>1 DEF Call
  <2> QED BY <2>2, <2>3, StepsAside
<1>4. CASE write(p) /\ Tail(call[p].todo) = <<>>
  <2>1. /\ call'[p].arg = (IF call[p].op = "get" THEN call[p].arg ELSE 0)
        /\ \A q \in Procs : q # p => call'[q] = call[q]
    BY <1>4, LastWrite DEF FreeListInv
  <2>2. call[p].arg \in Blocks
    BY <1>4 DEF write, FreeListInv, ListInv, CallOK, AtDisk
  <2>3. CASE call'[p].arg = call[p].arg
    BY <2>1, <2>3, StepsAside
  <2>4. CASE call'[p].arg = 0
    <3> DEFINE b == call[p].arg
    <3>1. /\ PoolHand' = [PoolHand EXCEPT ![p] = 0] /\ PoolHand[p] = b /\ b \in Blocks
          /\ PoolAvail = Blocks \ (held \cup {b} \cup Others(p))
          /\ PoolAvail' = Blocks \ (held' \cup {0} \cup Others(p))
          /\ b \notin Others(p)
      BY <2>1, <2>2, <2>4, Moves
    <3>2. b \notin held /\ 0 \notin Blocks
      BY Numbers DEF FreeListInv, ListInv, Owned
    <3>3. PoolAvail' = PoolAvail \cup {b}
      BY <3>1, <3>2
    <3> QED BY <3>1, <3>3, PoolStepIs
  <2> QED BY <2>1, <2>3, <2>4
<1> QED BY <1>2, <1>3, <1>4

LEMMA ClientSteps ==
  ASSUME FreeListInv, FreeListInv', NEW p \in Procs, Get(p) \/ Free(p) \/ Return(p)
  PROVE  PoolStep
<1>1. Typed /\ MemGood(Collectors) /\ Owned(held) /\ CallOK(p) /\ 0 \notin Blocks /\ SYSERR \notin Blocks
      /\ SYSERR # 0
  BY Numbers DEF FreeListInv, ListInv, SYSERR
<1>2. CASE Get(p)
  <2> DEFINE r == IF ReadHead = NULL
                  THEN [Idle EXCEPT !.op = "get", !.pc = "done", !.arg = SYSERR]
                  ELSE [Idle EXCEPT !.op = "get", !.pc = "wait", !.fbc = ReadHead]
  <2>1. call[p].pc = "idle" /\ call' = [call EXCEPT ![p] = r] /\ UNCHANGED held
    BY <1>2 DEF Get, GetCall
  <2>2. r.arg = IF ReadHead = NULL THEN SYSERR ELSE 0
    BY DEF Idle
  <2> HIDE DEF r
  <2>3. /\ call'[p].arg = IF ReadHead = NULL THEN SYSERR ELSE 0
        /\ \A q \in Procs : q # p => call'[q] = call[q]
    BY <2>1, <2>2, <1>1 DEF Typed
  <2>4. call[p].arg = 0
    BY <2>1, <1>1 DEF CallOK
  <2>5. CASE ReadHead = NULL
    <3>1. freelst = NULL
      BY <2>1, <2>5, HeadInSight DEF AtDisk, FreeListInv
    <3>2. Collectors = <<>>
      BY <1>1, <3>1, MemShape
    <3>3. InMem = {}
      BY <3>2 DEF InMem, Range
    <3>4. PoolAvail = {}
      <4>1. \A b \in Blocks : b \in held \/ \E q \in Procs : call[q].arg = b
        BY <1>1, <3>3 DEF Owned
      <4> QED BY <4>1, AvailIs
    <3>5. /\ PoolHand' = [PoolHand EXCEPT ![p] = SYSERR] /\ PoolHand[p] = 0
          /\ PoolAvail' = PoolAvail
      <4>1. call'[p].arg = SYSERR
        BY <2>3, <2>5
      <4> QED BY <4>1, <1>1, <2>1, <2>3, <2>4, Moves
    <3> QED BY <2>1, <3>4, <3>5, PoolStepIs
  <2>6. CASE ReadHead # NULL
    BY <2>1, <2>3, <2>4, <2>6, StepsAside
  <2> QED BY <2>5, <2>6
<1>3. CASE Free(p)
  <2>1. PICK b \in held : FreeCall(p, b) /\ held' = held \ {b}
    BY <1>3 DEF Free
  <2> DEFINE r == [Idle EXCEPT !.op = "free", !.pc = "wait", !.arg = b]
  <2>2. b \in Blocks /\ ~ (b <= 0 \/ b > DISKBLOCKTOTAL)
    BY <1>1, <2>1, Numbers DEF Owned
  <2>3. call[p].pc = "idle" /\ call' = [call EXCEPT ![p] = r]
    BY <2>1, <2>2 DEF FreeCall
  <2>4. r.arg = b
    BY DEF Idle
  <2> HIDE DEF r
  <2>5. call'[p].arg = b /\ \A q \in Procs : q # p => call'[q] = call[q]
    BY <2>3, <2>4, <1>1 DEF Typed
  <2>6. call[p].arg = 0
    BY <2>3, <1>1 DEF CallOK
  <2>7. /\ PoolHand' = [PoolHand EXCEPT ![p] = b] /\ PoolHand[p] = 0
        /\ PoolAvail = Blocks \ (held \cup {0} \cup Others(p))
        /\ PoolAvail' = Blocks \ (held' \cup {b} \cup Others(p))
    BY <2>5, <2>6, Moves
  <2>8. PoolAvail' = PoolAvail
    BY <1>1, <2>1, <2>7
  <2> QED BY <2>1, <2>7, <2>8, PoolStepIs
<1>4. CASE Return(p)
  <2> DEFINE b == call[p].arg
  <2>1. /\ call[p].pc = "done" /\ call' = [call EXCEPT ![p] = Idle]
        /\ held' = held \cup ({b} \cap Blocks)
    BY <1>4 DEF Return
  <2>2. Idle.arg = 0
    BY DEF Idle
  <2> HIDE DEF Idle
  <2>3. call'[p].arg = 0 /\ \A q \in Procs : q # p => call'[q] = call[q]
    BY <2>1, <2>2, <1>1 DEF Typed
  <2>4. b \in Blocks \cup {SYSERR, 0}
    BY <2>1, <1>1 DEF CallOK
  <2>5. /\ PoolHand' = [PoolHand EXCEPT ![p] = 0] /\ PoolHand[p] = b
        /\ PoolAvail = Blocks \ (held \cup {b} \cup Others(p))
        /\ PoolAvail' = Blocks \ (held' \cup {0} \cup Others(p))
    BY <2>3, Moves
  <2> HIDE DEF b
  <2>6. PoolAvail' = PoolAvail
    BY <1>1, <2>1, <2>4, <2>5
  <2>7. CASE b \in Blocks
    <3>1. held' = held \cup {PoolHand[p]} /\ PoolHand[p] \in Blocks
      BY <2>1, <2>5, <2>7
    <3>2. PoolHand' = [PoolHand EXCEPT ![p] = 0] /\ UNCHANGED PoolAvail
      BY <2>5, <2>6
    <3> QED BY <3>1, <3>2, PoolStepIs
  <2>8. CASE b = SYSERR
    BY <1>1, <2>1, <2>5, <2>6, <2>8, PoolStepIs
  <2>9. CASE b = 0
    BY <1>1, <2>1, <2>3, <2>9, StepsAside DEF b
  <2> QED BY <2>4, <2>7, <2>8, <2>9
<1> QED BY <1>2, <1>3, <1>4

\* A restart returns what was in hand and takes nothing that was in use.
LEMMA RestartSteps ==
  ASSUME FreeListInv, FreeListInv', CRestart
  PROVE  PoolStep
<1>1. Typed /\ DiskGood(DiskChain) /\ Readable(held) /\ Owned(held) /\ 0 \notin Blocks
  BY Numbers DEF FreeListInv, ListInv, Readable, CRestart
<1>2. call' = [p \in Procs |-> Idle] /\ held' = Blocks \ InDisk
  BY <1>1, DiskListHas DEF CRestart, sbOpen
<1>3. \A p \in Procs : call'[p].arg = 0
  BY <1>2 DEF Idle
<1>4. PoolHand' = [p \in Procs |-> 0]
  BY <1>3 DEF PoolHand
<1>5. PoolAvail' = Blocks \ held'
  BY <1>1, <1>3, AvailNext
<1>6. held \subseteq held'
  BY <1>1, <1>2 DEF Readable, Owned
<1>7. PoolAvail \subseteq PoolAvail'
  <2> SUFFICES ASSUME NEW b \in PoolAvail PROVE b \in Blocks /\ b \in InDisk
    BY <1>2, <1>5
  <2>1. b \in Blocks /\ b \notin held /\ \A q \in Procs : call[q].arg # b
    BY AvailIs
  <2>2. b \in InMem
    BY <1>1, <2>1 DEF Owned
  <2> QED BY <1>1, <2>1, <2>2 DEF Readable
<1>8. PoolAvail' \cup held' = Blocks /\ PoolAvail' \cap held' = {}
  BY <1>2, <1>5
<1> QED BY <1>4, <1>6, <1>7, <1>8, PoolStepIs

LEMMA PoolStarts == ASSUME CInit, FreeListInv PROVE Pool!PoolInit
<1>1. call = [p \in Procs |-> Idle] /\ held = {} /\ 0 \notin Blocks
  BY Numbers DEF CInit, Init
<1>2. \A p \in Procs : call[p].arg = 0
  BY <1>1 DEF Idle
<1>3. PoolAvail = Blocks
  BY <1>1, <1>2, AvailIs
<1>4. PoolHand = [p \in Procs |-> 0]
  BY <1>2 DEF PoolHand
<1> QED BY <1>1, <1>3, <1>4 DEF Pool!PoolInit, PoolAvail, PoolHand

LEMMA NextPool ==
  (FreeListInv /\ FreeListInv' /\ DiskInv /\ [CNext]_cvars /\ MayFail = FALSE) => PoolStep
<1> SUFFICES ASSUME FreeListInv, FreeListInv', DiskInv, [CNext]_cvars, MayFail = FALSE
             PROVE  PoolStep
  OBVIOUS
<1>1. CASE UNCHANGED cvars
  <2>1. call' = call /\ held' = held
    BY <1>1 DEF cvars, flvars
  <2>2. \A q \in Procs : call'[q].arg = call[q].arg
    BY <2>1
  <2>3. PoolAvail' = PoolAvail
    <3>1. PoolAvail = {b \in Blocks : b \notin held /\ \A q \in Procs : call[q].arg # b}
      BY AvailIs
    <3>2. PoolAvail' = {b \in Blocks : b \notin held' /\ \A q \in Procs : call'[q].arg # b}
      BY AvailNext
    <3> QED BY <2>1, <2>2, <3>1, <3>2
  <2>4. PoolHand' = PoolHand
    BY <2>2 DEF PoolHand
  <2> QED BY <2>1, <2>3, <2>4, PoolStepIs
<1>2. CASE CRestart
  BY <1>2, RestartSteps
<1>3. ASSUME NEW p \in Procs, Get(p) \/ Free(p) \/ Return(p) \/ Work(p) PROVE PoolStep
  <2>1. CASE Work(p)
    <3>1. UNCHANGED held /\ (Acquire(p) \/ seek(p) \/ write(p))
      BY <2>1 DEF Work, Step, writeFails
    <3> QED BY <3>1, AcquireSteps, DiskSteps
  <2> QED BY <1>3, <2>1, ClientSteps
<1> QED BY <1>1, <1>2, <1>3 DEF CNext

\* The free list implements the pool: a block is taken from what is available,
\* refused only when nothing is, given back once, and a restart settles what was
\* in hand without taking what is in use (sbGetBlock(), sbFreeBlock() and
\* sbOpenFreeList() together).
THEOREM ImplementsPool ==
  ASSUME MayFail = FALSE, DirtyMalloc = FALSE, Roomy
  PROVE  CSpec => PoolSpec
<1>1. CInit => FreeListInv
  BY InitList
<1>2. CInit /\ FreeListInv => Pool!PoolInit
  BY PoolStarts
<1>3. FreeListInv /\ FreeListInv' /\ DiskInv /\ [CNext]_cvars
      => [Pool!PoolNext]_(Pool!poolvars)
  BY NextPool DEF PoolStep
<1> QED BY <1>1, <1>2, <1>3, FreeListInvariance, DiskInvariance, PTL
        DEF CSpec, PoolSpec, Pool!PoolSpec
=============================================================================
