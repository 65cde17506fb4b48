------------------------- MODULE LotterySchedProofs -------------------------
(***************************************************************************)
(* The safety of the lottery scheduler for every number of slots, stacks,  *)
(* tickets and ticks.  First the draw: the running sums of totalTickets()  *)
(* and pickWin(), when pickWin() finds a process, and how many of the      *)
(* values of random() pick each.  Then the scheduler, which uses of the    *)
(* draw that pickWin() returns a ready process or NPROC, and a process     *)
(* whenever one is ready.                                                  *)
(***************************************************************************)
EXTENDS LotterySched, NatSets, FiniteSetTheorems

-----------------------------------------------------------------------------
(* The draw.                                                               *)

\* Process ids are finitely many numbers; NULLPROC is one, the special values are not.
LEMMA PidFacts ==
  /\ NPROC \in Nat /\ NULLPROC \in Pids /\ NPROC \notin Pids
  /\ HEAD \notin Pids /\ TAIL \notin Pids /\ HEAD # TAIL
  /\ SYSERR \notin Pids /\ NotYet \notin Pids /\ NotYet # SYSERR
  /\ IsFiniteSet(Pids)
<1>1. IsFiniteSet(0 .. NPROC - 1)
  BY NPROCAssumption, FS_Interval
<1> QED BY <1>1, NPROCAssumption DEF NULLPROC, Pids, SYSERR, NotYet, HEAD, TAIL

\* What a process adds to the running sum.
Weight(st, i) == IF st[i] = PRREADY THEN tickets[i] ELSE 0

\* counter() is the running sum of the weights.
LEMMA CounterSums ==
  ASSUME NEW st, tickets \in [Pids -> Nat]
  PROVE  /\ counter(st) \in [Pids -> Nat]
         /\ \A i \in Pids : counter(st)[i] = (IF i = 0 THEN 0 ELSE counter(st)[i - 1])
                                             + Weight(st, i)
<1> DEFINE w == [i \in Pids |-> IF st[i] = PRREADY THEN tickets[i] ELSE 0]
           Sums(f) == f = [i \in Pids |-> (IF i = 0 THEN 0 ELSE f[i - 1])
                                          + (IF st[i] = PRREADY THEN tickets[i] ELSE 0)]
<1>1. NPROC - 1 \in Nat /\ Pids = 0 .. NPROC - 1
  BY NPROCAssumption DEF Pids
<1>2. w \in [0 .. NPROC - 1 -> Nat]
  BY <1>1
<1>3. PICK f \in [Pids -> Nat] : f = [i \in Pids |-> (IF i = 0 THEN 0 ELSE f[i - 1]) + w[i]]
  <2> HIDE DEF w
  <2>1. \E f \in [0 .. NPROC - 1 -> Nat] :
           f = [i \in 0 .. NPROC - 1 |-> (IF i = 0 THEN 0 ELSE f[i - 1]) + w[i]]
    BY <1>1, <1>2, RunningSum
  <2> QED BY <2>1, <1>1
<1>4. Sums(f)
  BY <1>3
<1>5. Sums(counter(st))
  <2>1. counter(st) = CHOOSE g : Sums(g)
    BY DEF counter
  <2> HIDE DEF Sums
  <2> QED BY <1>4, <2>1
<1> DEFINE c == counter(st)
           S == {n \in Nat : n \in Pids => c[n] \in Nat}
<1>6. /\ c = [i \in Pids |-> c[i]]
      /\ \A i \in Pids : c[i] = (IF i = 0 THEN 0 ELSE c[i - 1]) + w[i]
  <2> HIDE DEF c
  <2> QED BY <1>5 DEF c
<1> HIDE DEF c
<1>7. 0 \in S
  <2>1. 0 \in Pids
    BY <1>1
  <2>2. w[0] \in Nat
    BY <1>1, <1>2, <2>1
  <2> HIDE DEF w
  <2>3. c[0] = 0 + w[0]
    BY <1>6, <2>1
  <2> QED BY <2>2, <2>3
<1>8. ASSUME NEW n \in Nat, n \in S PROVE n + 1 \in S
  <2>1. n + 1 \in Pids => n \in Pids /\ w[n + 1] \in Nat
    BY <1>1, <1>2
  <2>2. n + 1 \in Pids => c[n + 1] = c[n] + w[n + 1]
    BY <1>6
  <2> QED BY <1>8, <2>1, <2>2
<1>9. \A i \in Pids : c[i] \in Nat
  <2>1. Nat \subseteq S
    <3> HIDE DEF S
    <3> QED BY <1>7, <1>8, SetInduction
  <2> QED BY <2>1, <1>1
<1>10. c \in [Pids -> Nat]
  BY <1>6, <1>9
<1>11. \A i \in Pids : w[i] = Weight(st, i)
  BY DEF Weight
<1> QED BY <1>6, <1>10, <1>11 DEF c

\* The running sum never falls.
LEMMA CounterGrows ==
  ASSUME NEW st, tickets \in [Pids -> Nat], NEW i \in Pids, NEW j \in Pids, i <= j
  PROVE  counter(st)[i] <= counter(st)[j]
<1> DEFINE c == counter(st)
           S == {n \in Nat : i + n \in Pids => c[i] <= c[i + n]}
<1>1. c \in [Pids -> Nat] /\ \A k \in Pids : k # 0 => c[k] = c[k - 1] + Weight(st, k)
  BY CounterSums
<1>2. Pids = 0 .. NPROC - 1 /\ NPROC \in Nat
  BY NPROCAssumption DEF Pids
<1> HIDE DEF c
<1>3. 0 \in S
  BY <1>1, <1>2
<1>4. ASSUME NEW n \in Nat, n \in S PROVE n + 1 \in S
  <2> SUFFICES ASSUME i + (n + 1) \in Pids PROVE c[i] <= c[i + (n + 1)]
    OBVIOUS
  <2>1. i + n \in Pids /\ i + (n + 1) # 0 /\ (i + (n + 1)) - 1 = i + n
    BY <1>2
  <2>2. Weight(st, i + (n + 1)) \in Nat
    BY DEF Weight
  <2>3. c[i + (n + 1)] = c[i + n] + Weight(st, i + (n + 1))
    BY <1>1, <2>1
  <2>4. c[i] <= c[i + n] /\ c[i] \in Nat /\ c[i + n] \in Nat
    BY <1>1, <1>4, <2>1
  <2> QED BY <2>2, <2>3, <2>4
<1>5. Nat \subseteq S
  <2> HIDE DEF S
  <2> QED BY <1>3, <1>4, SetInduction
<1>6. j - i \in Nat /\ i + (j - i) = j
  BY <1>2
<1> QED BY <1>5, <1>6 DEF c

\* It exceeds a number only behind a ready process whose own sum does.
LEMMA CounterBound ==
  ASSUME NEW st, tickets \in [Pids -> Nat], NEW winner \in Nat, NEW i \in Pids,
         \A j \in 0 .. i : st[j] = PRREADY => counter(st)[j] <= winner
  PROVE  counter(st)[i] <= winner
<1> DEFINE c == counter(st)
           S == {n \in Nat : n <= i => c[n] <= winner}
<1>1. /\ c \in [Pids -> Nat]
      /\ \A k \in Pids : c[k] = (IF k = 0 THEN 0 ELSE c[k - 1]) + Weight(st, k)
  BY CounterSums
<1>2. Pids = 0 .. NPROC - 1 /\ NPROC \in Nat /\ i \in 0 .. NPROC - 1
  BY NPROCAssumption DEF Pids
<1>3. \A j \in 0 .. i : st[j] = PRREADY => c[j] <= winner
  OBVIOUS
<1> HIDE DEF c
<1>4. 0 \in S
  <2>1. 0 \in Pids /\ 0 \in 0 .. i
    BY <1>2
  <2>2. c[0] = 0 + Weight(st, 0)
    BY <1>1, <2>1
  <2> QED BY <1>3, <2>1, <2>2 DEF Weight
<1>5. ASSUME NEW n \in Nat, n \in S PROVE n + 1 \in S
  <2> SUFFICES ASSUME n + 1 <= i PROVE c[n + 1] <= winner
    OBVIOUS
  <2>1. n + 1 \in Pids /\ n + 1 \in 0 .. i /\ n \in Pids /\ n + 1 # 0 /\ (n + 1) - 1 = n
    BY <1>2
  <2>2. c[n + 1] = c[n] + Weight(st, n + 1)
    BY <1>1, <2>1
  <2>3. c[n] <= winner /\ c[n] \in Nat
    BY <1>1, <1>5, <2>1, <1>2
  <2>4. CASE st[n + 1] = PRREADY
    BY <1>3, <2>1, <2>4
  <2>5. CASE st[n + 1] # PRREADY
    BY <2>2, <2>3, <2>5 DEF Weight
  <2> QED BY <2>4, <2>5
<1>6. i \in S
  <2> HIDE DEF S
  <2>1. i \in Nat
    BY <1>2
  <2> QED BY <1>4, <1>5, <2>1, SetInduction
<1> QED BY <1>6, <1>2 DEF c

-----------------------------------------------------------------------------

\* random(max) stays below max, and takes every value there as long as max is not
\* above the range of the generator.
LEMMA RandomRange ==
  ASSUME NEW max \in Nat \ {0}
  PROVE  /\ random(max) \subseteq 0 .. max - 1
         /\ max <= RANDMAX => random(max) = 0 .. max - 1
<1>1. random(max) = {r % max : r \in 0 .. RANDMAX - 1}
  BY DEF random
<1>2. \A r \in 0 .. RANDMAX - 1 : r % max \in 0 .. max - 1
  BY LotteryAssumption
<1>3. ASSUME max <= RANDMAX, NEW x \in 0 .. max - 1 PROVE x \in random(max)
  <2>1. x \in 0 .. RANDMAX - 1 /\ x % max = x
    BY <1>3, LotteryAssumption
  <2> QED BY <1>1, <2>1
<1> QED BY <1>1, <1>2, <1>3

\* Tickets of a ready process are in the total.
LEMMA TotalPositive ==
  ASSUME NEW st, tickets \in [Pids -> Nat],
         NEW p \in Pids, st[p] = PRREADY, tickets[p] > 0
  PROVE  totalTickets(st) \in Nat \ {0}
<1> DEFINE c == counter(st)
<1>1. c \in [Pids -> Nat] /\ c[p] = (IF p = 0 THEN 0 ELSE c[p - 1]) + tickets[p]
  BY CounterSums DEF Weight
<1>2. NPROC - 1 \in Pids /\ p <= NPROC - 1 /\ (p # 0 => p - 1 \in Pids)
  BY NPROCAssumption DEF Pids
<1>3. c[p] <= c[NPROC - 1]
  BY <1>2, CounterGrows
<1> HIDE DEF c
<1>4. c[p] > 0 /\ c[p] \in Nat /\ c[NPROC - 1] \in Nat
  BY <1>1, <1>2
<1> QED BY <1>3, <1>4 DEF totalTickets, c

\* Where a ready process holds a ticket, pickWin() does not fall off the table.
LEMMA DrawFinds ==
  ASSUME NEW st, tickets \in [Pids -> Nat],
         NEW p \in Pids, st[p] = PRREADY, tickets[p] > 0,
         NEW winner \in random(totalTickets(st)),
         NEW i \in Pids \cup {NPROC}, pickWin(i, st, winner)
  PROVE  i \in Pids
<1> SUFFICES ASSUME i = NPROC PROVE FALSE
  OBVIOUS
<1>1. totalTickets(st) \in Nat \ {0}
  BY TotalPositive
<1>2. winner \in Nat /\ winner < totalTickets(st)
  BY <1>1, RandomRange
<1>3. NPROC - 1 \in Pids /\ 0 .. NPROC - 1 = Pids
  BY NPROCAssumption DEF Pids
<1>4. \A j \in Pids : st[j] = PRREADY => counter(st)[j] <= winner
  BY PidFacts DEF pickWin
<1>5. counter(st)[NPROC - 1] <= winner
  BY <1>2, <1>3, <1>4, CounterBound
<1> QED BY <1>1, <1>2, <1>5 DEF totalTickets

\* The values of random() that pick a ready process are as many as its tickets.
LEMMA Shares ==
  ASSUME NEW st, tickets \in [Pids -> Nat], totalTickets(st) \in 1 .. RANDMAX,
         NEW p \in Pids, st[p] = PRREADY
  PROVE  Cardinality({w \in random(totalTickets(st)) : pickWin(p, st, w)}) = tickets[p]
<1> DEFINE c == counter(st)
           low == IF p = 0 THEN 0 ELSE c[p - 1]
           total == totalTickets(st)
           picked == {w \in random(total) : pickWin(p, st, w)}
<1>1. /\ c \in [Pids -> Nat] /\ c[p] = low + tickets[p]
  BY CounterSums DEF Weight
<1>2. /\ NPROC \in Nat /\ NPROC - 1 \in Pids /\ Pids = 0 .. NPROC - 1
      /\ p \in Nat /\ p <= NPROC - 1
      /\ p # 0 => p - 1 \in Pids
  BY NPROCAssumption DEF Pids
<1>3. low \in Nat /\ c[p] \in Nat /\ tickets[p] \in Nat
  BY <1>1, <1>2
<1>4. c[p] <= total /\ random(total) = 0 .. total - 1 /\ total \in Nat
  <2>1. c[p] <= c[NPROC - 1]
    BY <1>2, CounterGrows
  <2>2. total \in Nat \ {0} /\ total <= RANDMAX
    BY LotteryAssumption
  <2> QED BY <2>1, <2>2, RandomRange DEF totalTickets
<1>5. ASSUME NEW w \in Nat
      PROVE  (\A j \in 0 .. p - 1 : st[j] = PRREADY => c[j] <= w) <=> low <= w
  <2>1. CASE p = 0
    BY <2>1
  <2>2. CASE p # 0
    <3>1. ASSUME \A j \in 0 .. p - 1 : st[j] = PRREADY => c[j] <= w PROVE low <= w
      BY <1>2, <2>2, <3>1, CounterBound
    <3>2. ASSUME low <= w, NEW j \in 0 .. p - 1 PROVE c[j] <= w
      <4>1. j \in Pids /\ p - 1 \in Pids /\ j <= p - 1
        BY <1>2, <2>2
      <4>2. c[j] <= c[p - 1]
        BY <4>1, CounterGrows
      <4> QED BY <4>1, <4>2, <3>2, <2>2, <1>1, <1>3
    <3> QED BY <3>1, <3>2
  <2> QED BY <2>1, <2>2
<1>6. ASSUME NEW w \in Nat PROVE pickWin(p, st, w) <=> low <= w /\ w < c[p]
  <2>1. p # NPROC
    BY <1>2
  <2>2. pickWin(p, st, w) <=> /\ c[p] > w
                              /\ \A j \in 0 .. p - 1 : st[j] = PRREADY => c[j] <= w
    BY <2>1 DEF pickWin
  <2> HIDE DEF c, low
  <2> QED BY <2>2, <1>3, <1>5
<1>7. picked = low .. c[p] - 1
  <2> HIDE DEF c, low, total
  <2>1. \A w : w \in random(total) => w \in Nat
    BY <1>4
  <2>2. \A w \in low .. c[p] - 1 : w \in Nat /\ w \in random(total)
    BY <1>3, <1>4
  <2> QED BY <2>1, <2>2, <1>3, <1>6
<1>8. Cardinality(low .. c[p] - 1) = tickets[p]
  <2> HIDE DEF c, low
  <2>1. low \in Int /\ c[p] - 1 \in Int
    BY <1>3
  <2>2. Cardinality(low .. c[p] - 1) = IF low > c[p] - 1 THEN 0 ELSE (c[p] - 1) - low + 1
    BY <2>1, FS_Interval
  <2> QED BY <2>2, <1>1, <1>3
<1> QED BY <1>7, <1>8

-----------------------------------------------------------------------------
(* The scheduler.                                                          *)

\* The four process states differ.
LEMMA StatesDiffer ==
  /\ PRFREE # PRCURR /\ PRFREE # PRSUSP /\ PRFREE # PRREADY
  /\ PRCURR # PRSUSP /\ PRCURR # PRREADY /\ PRSUSP # PRREADY
  /\ States = {PRFREE, PRCURR, PRSUSP, PRREADY}
BY DEF PRFREE, PRCURR, PRSUSP, PRREADY, States

\* The slots in use, for any process states.
Live(st) == {p \in Pids : st[p] # PRFREE}

\* The slots in use are finitely many.
LEMMA LiveCount ==
  /\ Live(state) = Pids \ InState(PRFREE)
  /\ IsFiniteSet(Live(state)) /\ Cardinality(Live(state)) \in Nat
<1>1. Live(state) = Pids \ InState(PRFREE)
  BY DEF Live, InState
<1>2. IsFiniteSet(Live(state))
  BY PidFacts, FS_Subset DEF Live
<1> QED BY <1>1, <1>2, FS_CardinalityType

-----------------------------------------------------------------------------
(* The links, whatever the list holds.                                     *)

\* enqueue() of any process, listed or not, writes no link that leaves the table.
LEMMA EnqueueInTable ==
  ASSUME NEW qt \in Table, InTable(qt), NEW st, NEW pid \in Pids
  PROVE  enqueue(qt, st, pid) \in Table /\ InTable(enqueue(qt, st, pid))
<1> DEFINE last == qt[TAIL].prev
<1>1. last \in Pids \cup {HEAD}
  BY DEF InTable
<1>2. CASE isbadpid(pid, st)
  BY <1>2 DEF enqueue
<1>3. CASE ~ isbadpid(pid, st)
  <2>1. enqueue(qt, st, pid) = [qt EXCEPT ![pid] = [next |-> TAIL, prev |-> last],
                                          ![last].next = pid, ![TAIL].prev = pid]
    BY <1>3 DEF enqueue
  <2> QED BY <2>1, <1>1, PidFacts, SMTT(60) DEF InTable, Table, Entries, Links
<1> QED BY <1>2, <1>3

\* remove() of any process, listed or not, writes no link that leaves the table.
LEMMA RemoveInTable ==
  ASSUME NEW qt \in Table, InTable(qt), NEW st, NEW pid \in Pids
  PROVE  remove(qt, st, pid) \in Table /\ InTable(remove(qt, st, pid))
<1> DEFINE before == qt[pid].prev  after == qt[pid].next
<1>1. before \in Pids \cup {HEAD} /\ after \in Pids \cup {TAIL}
  BY DEF InTable
<1>2. CASE isbadpid(pid, st)
  BY <1>2 DEF remove
<1>3. CASE ~ isbadpid(pid, st)
  <2>1. remove(qt, st, pid) = [qt EXCEPT ![before].next = after, ![after].prev = before]
    BY <1>3 DEF remove
  <2> QED BY <2>1, <1>1, PidFacts, SMTT(20) DEF InTable, Table, Entries, Links
<1> QED BY <1>2, <1>3

\* dequeue() writes no link that leaves the table.
LEMMA DequeueInTable ==
  ASSUME NEW qt \in Table, InTable(qt), NEW st
  PROVE  dequeue(qt, st) \in Table /\ InTable(dequeue(qt, st))
<1>1. CASE ~ nonempty(qt)
  BY <1>1 DEF dequeue
<1>2. CASE nonempty(qt)
  <2> DEFINE f == firstid(qt)  rest == remove(qt, st, f)
  <2>1. f \in Pids
    BY <1>2, PidFacts DEF nonempty, firstid, InTable, TAIL
  <2>2. rest \in Table /\ InTable(rest)
    BY <2>1, RemoveInTable
  <2>3. dequeue(qt, st) = [rest EXCEPT ![f] = [next |-> f, prev |-> f]]
    BY <1>2 DEF dequeue
  <2> HIDE DEF f, rest
  <2> QED BY <2>1, <2>2, <2>3, PidFacts DEF InTable, Table, Entries, Links
<1> QED BY <1>1, <1>2

-----------------------------------------------------------------------------
(* The kernel functions.                                                   *)

\* Some process with a ticket is ready, or will be once it is interrupted.
Drawable(st) == /\ tickets \in [Pids -> Nat]
                /\ \E p \in Pids : st[p] \in {PRCURR, PRREADY} /\ tickets[p] > 0

\* resched() runs one process or none, and frees or allocates no slot.
LEMMA ReschedPreserves ==
  ASSUME NEW st \in [Pids -> States], NEW qt \in Table, InTable(qt), currpid \in Pids,
         {p \in Pids : st[p] = PRCURR} \subseteq {currpid},
         resched(st, qt)
  PROVE  /\ state' \in [Pids -> States] /\ queuetab' \in Table
         /\ currpid' \in Pids \cup {NPROC} /\ preempt' \in 1 .. QUANTUM
         /\ LinksInTable' /\ CurrUnique'
         /\ Live(state') = Live(st)
         /\ \A p \in Pids : st[p] \in {PRCURR, PRREADY} => state'[p] \in {PRCURR, PRREADY}
         /\ Drawable(st) => currpid' \in Pids
<1> DEFINE again == st[currpid] = PRCURR
           st1 == IF again THEN [st EXCEPT ![currpid] = PRREADY] ELSE st
           qt1 == IF again THEN enqueue(qt, st1, currpid) ELSE qt
<1>1. st1 \in [Pids -> States] /\ \A p \in Pids : st1[p] # PRCURR
  BY StatesDiffer
<1>2. qt1 \in Table /\ InTable(qt1)
  BY EnqueueInTable
<1>3. dequeue(qt1, st1) \in Table /\ InTable(dequeue(qt1, st1))
  BY <1>2, DequeueInTable
<1>4. PICK winner \in random(totalTickets(st1)), i \in Pids \cup {NPROC} :
          pickWin(i, st1, winner) /\ currpid' = i
  BY DEF resched
<1>5. i \in Pids => st1[i] = PRREADY
  BY <1>4, PidFacts DEF pickWin
<1>6. /\ state' = [p \in Pids |-> IF p = i THEN PRCURR ELSE st1[p]]
      /\ queuetab' = dequeue(qt1, st1) /\ preempt' = QUANTUM
  BY <1>4 DEF resched
<1>7. ASSUME NEW p \in Pids
      PROVE  /\ st1[p] = IF again /\ p = currpid THEN PRREADY ELSE st[p]
             /\ state'[p] = IF p = i THEN PRCURR ELSE st1[p]
             /\ p = i => st1[p] = PRREADY
  BY <1>5, <1>6
<1>8. state' \in [Pids -> States]
  BY <1>1, <1>6, StatesDiffer
<1>9. CurrUnique'
  <2>1. {p \in Pids : state'[p] = PRCURR} = {i} \cap Pids
    BY <1>1, <1>7
  <2> QED BY <2>1, <1>4 DEF CurrUnique, InState
<1>10. \A p \in Pids : /\ st[p] # PRFREE <=> state'[p] # PRFREE
                       /\ st[p] \in {PRCURR, PRREADY} => state'[p] \in {PRCURR, PRREADY}
  BY <1>7, StatesDiffer
<1>11. LinksInTable' /\ queuetab' \in Table
  BY <1>3, <1>6 DEF LinksInTable
<1>12. preempt' \in 1 .. QUANTUM
  BY <1>6, LotteryAssumption
<1>13. ASSUME Drawable(st) PROVE i \in Pids
  <2>1. PICK p \in Pids : st[p] \in {PRCURR, PRREADY} /\ tickets[p] > 0
    BY <1>13 DEF Drawable
  <2>2. st1[p] = PRREADY
    BY <2>1, <1>1, StatesDiffer
  <2> QED BY <1>4, <1>13, <2>1, <2>2, DrawFinds DEF Drawable
<1> QED BY <1>4, <1>8, <1>9, <1>10, <1>11, <1>12, <1>13 DEF Live

\* The running process is one.
LEMMA CurrDrawable ==
  ASSUME LotteryInv, currpid \in Pids
  PROVE  /\ tickets \in [Pids -> Nat] /\ tickets[currpid] > 0
         /\ state[currpid] = PRCURR /\ Drawable(state)
<1>1. tickets \in [Pids -> Nat] /\ state[currpid] = PRCURR
  BY DEF LotteryInv, TypeOK, CurrUnique, InState
<1>2. tickets[currpid] > 0
  BY <1>1, StatesDiffer DEF LotteryInv, TicketsHeld, InState
<1> QED BY <1>1, <1>2 DEF Drawable

\* ready() of a suspended process, called while another process runs.
LEMMA ReadyPreserves ==
  ASSUME LotteryInv, currpid \in Pids, NEW pid \in Pids, state[pid] = PRSUSP,
         NEW resch \in BOOLEAN, ready(pid, resch)
  PROVE  /\ state' \in [Pids -> States] /\ queuetab' \in Table
         /\ preempt' \in 1 .. QUANTUM
         /\ LinksInTable' /\ CurrUnique'
         /\ Live(state') = Live(state) /\ currpid' \in Pids
         /\ \A p \in Pids : state[p] \in {PRCURR, PRREADY} => state'[p] \in {PRCURR, PRREADY}
         /\ ~resch => currpid' = currpid /\ state' = [state EXCEPT ![pid] = PRREADY]
<1> DEFINE st1 == [state EXCEPT ![pid] = PRREADY]
           qt1 == enqueue(queuetab, st1, pid)
<1>1. /\ state \in [Pids -> States] /\ queuetab \in Table /\ InTable(queuetab)
      /\ InState(PRCURR) = {currpid} /\ preempt \in 1 .. QUANTUM
  BY DEF LotteryInv, TypeOK, LinksInTable, CurrUnique
<1>2. st1 \in [Pids -> States]
  BY <1>1, StatesDiffer
<1>3. qt1 \in Table /\ InTable(qt1)
  BY <1>1, EnqueueInTable
<1>4. {p \in Pids : st1[p] = PRCURR} = {currpid}
  BY <1>1, StatesDiffer DEF InState
<1>5. Live(st1) = Live(state)
  BY <1>1, StatesDiffer DEF Live
<1>6. CASE resch
  <2>1. resched(st1, qt1)
    BY <1>6 DEF ready
  <2>2. Drawable(st1)
    BY <1>1, <1>4, CurrDrawable DEF Drawable, InState
  <2>3. \A p \in Pids : state[p] \in {PRCURR, PRREADY} => st1[p] \in {PRCURR, PRREADY}
    BY <1>1
  <2> QED BY <1>2, <1>3, <1>4, <1>5, <1>6, <2>1, <2>2, <2>3, ReschedPreserves
<1>7. CASE ~resch
  <2>1. state' = st1 /\ queuetab' = qt1 /\ UNCHANGED <<currpid, preempt>>
    BY <1>7 DEF ready
  <2>2. LinksInTable' /\ CurrUnique'
    BY <2>1, <1>3, <1>4 DEF LinksInTable, CurrUnique, InState
  <2>3. \A p \in Pids : state[p] \in {PRCURR, PRREADY} => st1[p] \in {PRCURR, PRREADY}
    BY <1>1
  <2> QED BY <1>1, <1>2, <1>3, <1>5, <2>1, <2>2, <2>3
<1> QED BY <1>6, <1>7

\* One slot in use less, and numproc too.
LEMMA FreesOne ==
  ASSUME LotteryInv, NEW pid \in Pids, state[pid] # PRFREE,
         Live(state') = Live(state) \ {pid}, numproc' = numproc - 1
  PROVE  numproc' \in Int /\ NumprocExact'
<1>1. numproc = Cardinality(Live(state))
  BY LiveCount DEF LotteryInv, NumprocExact
<1>2. Cardinality(Live(state) \ {pid}) = Cardinality(Live(state)) - 1
  <2>1. pid \in Live(state)
    BY DEF Live
  <2> QED BY <2>1, LiveCount, FS_RemoveElement
<1>3. Live(state') = (Pids \ InState(PRFREE))'
  BY DEF Live, InState
<1> QED BY <1>1, <1>2, <1>3, LiveCount DEF NumprocExact

\* kill(currpid)
LEMMA KillselfPreserves ==
  ASSUME LotteryInv, currpid \in Pids, killself
  PROVE  /\ state' \in [Pids -> States] /\ queuetab' \in Table
         /\ currpid' \in Pids \cup {NPROC} /\ preempt' \in 1 .. QUANTUM
         /\ LinksInTable' /\ CurrUnique' /\ numproc' \in Int /\ NumprocExact'
         /\ Live(state') \subseteq Live(state)
         /\ \A p \in Pids \ {currpid} : state[p] \in {PRCURR, PRREADY} =>
               state'[p] \in {PRCURR, PRREADY} /\ currpid' \in Pids
<1> DEFINE st1 == [state EXCEPT ![currpid] = PRFREE]
<1>1. /\ state \in [Pids -> States] /\ queuetab \in Table /\ InTable(queuetab)
      /\ InState(PRCURR) = {currpid} /\ state[currpid] = PRCURR
  BY DEF LotteryInv, TypeOK, LinksInTable, CurrUnique, InState
<1>2. st1 \in [Pids -> States] /\ {p \in Pids : st1[p] = PRCURR} \subseteq {currpid}
  BY <1>1, StatesDiffer DEF InState
<1>3. resched(st1, queuetab) /\ numproc' = numproc - 1
  BY DEF killself
<1>4. /\ state' \in [Pids -> States] /\ queuetab' \in Table
      /\ currpid' \in Pids \cup {NPROC} /\ preempt' \in 1 .. QUANTUM
      /\ LinksInTable' /\ CurrUnique' /\ Live(state') = Live(st1)
      /\ \A p \in Pids : st1[p] \in {PRCURR, PRREADY} => state'[p] \in {PRCURR, PRREADY}
      /\ Drawable(st1) => currpid' \in Pids
  BY <1>1, <1>2, <1>3, ReschedPreserves
<1>5. Live(st1) = Live(state) \ {currpid}
  BY <1>1 DEF Live
<1>6. numproc' \in Int /\ NumprocExact'
  BY <1>1, <1>3, <1>4, <1>5, FreesOne, StatesDiffer
<1>7. \A p \in Pids \ {currpid} : st1[p] = state[p]
  BY <1>1
<1>8. ASSUME NEW p \in Pids \ {currpid}, state[p] \in {PRCURR, PRREADY}
      PROVE  Drawable(st1)
  <2>1. tickets \in [Pids -> Nat] /\ tickets[p] > 0
    BY <1>8, StatesDiffer DEF LotteryInv, TypeOK, TicketsHeld, InState
  <2> QED BY <1>7, <1>8, <2>1 DEF Drawable
<1> QED BY <1>4, <1>5, <1>6, <1>7, <1>8

\* kill() of a process that does not run
LEMMA KillotherPreserves ==
  ASSUME LotteryInv, currpid \in Pids, NEW pid \in Pids \ {currpid},
         state[pid] # PRFREE, killother(pid)
  PROVE  /\ state' \in [Pids -> States] /\ queuetab' \in Table
         /\ UNCHANGED <<currpid, preempt>> /\ numproc' \in Int
         /\ LinksInTable' /\ CurrUnique' /\ NumprocExact'
         /\ \A p \in Pids \ {pid} : state'[p] = state[p]
         /\ Live(state') \subseteq Live(state)
<1>1. /\ state \in [Pids -> States] /\ queuetab \in Table /\ InTable(queuetab)
      /\ InState(PRCURR) = {currpid}
  BY DEF LotteryInv, TypeOK, LinksInTable, CurrUnique
<1>2. /\ numproc' = numproc - 1 /\ UNCHANGED <<currpid, preempt>>
      /\ state' = [state EXCEPT ![pid] = PRFREE]
      /\ queuetab' = IF state[pid] = PRREADY THEN remove(queuetab, state, pid) ELSE queuetab
  BY DEF killother
<1>3. queuetab' \in Table /\ LinksInTable'
  BY <1>1, <1>2, RemoveInTable DEF LinksInTable
<1>4. state' \in [Pids -> States]
  BY <1>1, <1>2, StatesDiffer
<1>5. CurrUnique'
  <2>1. InState(PRCURR)' = {currpid}
    BY <1>1, <1>2, StatesDiffer DEF InState
  <2> QED BY <2>1, <1>2 DEF CurrUnique
<1>6. Live(state') = Live(state) \ {pid}
  BY <1>1, <1>2 DEF Live
<1>7. \A p \in Pids \ {pid} : state'[p] = state[p]
  BY <1>1, <1>2
<1> QED BY <1>2, <1>3, <1>4, <1>5, <1>6, <1>7, FreesOne

\* create() takes a free slot for a suspended process, or changes nothing but
\* the search position and the stacks.
LEMMA CreatePreserves ==
  ASSUME LotteryInv, currpid \in Pids, NEW r \in Pids \cup {SYSERR}, NEW t \in Nat \ {0},
         create(r, t), UNCHANGED <<queuetab, currpid>>
  PROVE  /\ state' \in [Pids -> States] /\ nextpid' \in Pids /\ numproc' \in Int
         /\ stacks' = stacks + 1 /\ tickets' \in [Pids -> Nat]
         /\ LinksInTable' /\ CurrUnique' /\ NumprocExact' /\ TicketsHeld'
         /\ \A p \in Pids : state[p] # PRFREE => state'[p] = state[p]
         /\ r # SYSERR => r # currpid /\ state'[r] = PRSUSP
<1>1. /\ state \in [Pids -> States] /\ numproc \in Int /\ nextpid \in Pids
      /\ tickets \in [Pids -> Nat] /\ LinksInTable /\ CurrUnique /\ NumprocExact
      /\ TicketsHeld
      /\ InState(PRCURR) = {currpid} /\ numproc = Cardinality(Live(state))
  BY LiveCount DEF LotteryInv, TypeOK, CurrUnique, NumprocExact
<1>2. LinksInTable'
  BY <1>1 DEF LinksInTable, InTable
<1>3. CASE r = SYSERR
  <2>1. UNCHANGED <<state, tickets, numproc>> /\ nextpid' \in Pids /\ stacks' = stacks + 1
    BY <1>3, <1>1, PidFacts DEF create
  <2>2. CurrUnique' /\ NumprocExact' /\ TicketsHeld'
    BY <1>1, <2>1 DEF CurrUnique, NumprocExact, TicketsHeld, InState
  <2> QED BY <1>1, <1>2, <1>3, <2>1, <2>2
<1>4. CASE r # SYSERR
  <2>1. /\ r \in Pids /\ state[r] = PRFREE /\ nextpid' = r /\ stacks' = stacks + 1
        /\ numproc' = numproc + 1 /\ state' = [state EXCEPT ![r] = PRSUSP]
        /\ tickets' = [tickets EXCEPT ![r] = t]
    BY <1>4, PidFacts DEF create, newpid
  <2>2. state' \in [Pids -> States] /\ tickets' \in [Pids -> Nat]
    BY <1>1, <2>1, StatesDiffer
  <2>3. CurrUnique' /\ r # currpid
    <3>1. InState(PRCURR)' = InState(PRCURR)
      BY <1>1, <2>1, StatesDiffer DEF InState
    <3> QED BY <1>1, <2>1, <3>1, StatesDiffer DEF CurrUnique, InState
  <2>4. Live(state') = Live(state) \cup {r} /\ r \notin Live(state)
    BY <1>1, <2>1, StatesDiffer DEF Live
  <2>5. NumprocExact'
    <3>1. Cardinality(Live(state) \cup {r}) = Cardinality(Live(state)) + 1
      BY <2>4, LiveCount, FS_AddElement
    <3>2. Live(state') = (Pids \ InState(PRFREE))'
      BY DEF Live, InState
    <3> QED BY <1>1, <2>1, <2>4, <3>1, <3>2 DEF NumprocExact
  <2>6. TicketsHeld'
    BY <1>1, <2>1, StatesDiffer DEF TicketsHeld, InState
  <2>7. \A p \in Pids : state[p] # PRFREE => state'[p] = state[p]
    BY <1>1, <2>1
  <2> QED BY <1>1, <1>2, <2>1, <2>2, <2>3, <2>5, <2>6, <2>7
<1> QED BY <1>3, <1>4

-----------------------------------------------------------------------------

\* What a step needs to keep TicketsHeld, and to make DrawSucceeds true.
LEMMA HeldBy == TicketsHeld /\ Live(state') \subseteq Live(state) /\ UNCHANGED tickets
                   => TicketsHeld'
BY DEF TicketsHeld, Live, InState

\* What is left to show of DrawSucceeds once the boot steps are known.
LEMMA DrawsIf == BootInv' /\ (prnull' = SYSERR \/ currpid' \in Pids) => DrawSucceeds'
BY DEF BootInv, DrawSucceeds

\* LotteryInv, part by part.
LEMMA LotteryInvBy ==
  /\ TypeOK' /\ LinksInTable' /\ CurrUnique' /\ NumprocExact' /\ BootInv' /\ TicketsHeld'
  /\ prnull' = SYSERR \/ currpid' \in Pids
  => LotteryInv'
BY DrawsIf DEF LotteryInv

\* sysinit() establishes the invariant.
LEMMA InitLotteryInv == Init => LotteryInv
<1> SUFFICES ASSUME Init PROVE LotteryInv
  OBVIOUS
<1>1. state = [p \in Pids |-> IF p = NULLPROC THEN PRCURR ELSE PRFREE]
  BY DEF Init
<1>2. InState(PRCURR) = {NULLPROC} /\ Pids \ InState(PRFREE) = {NULLPROC}
  BY <1>1, StatesDiffer, PidFacts DEF InState
<1>3. queuetab \in Table /\ LinksInTable
  <2>1. 0 \in Pids
    BY NPROCAssumption DEF Pids
  <2> QED BY <2>1, PidFacts DEF Init, newqueue, Table, Entries, Links, LinksInTable, InTable
<1>4. TypeOK
  BY <1>1, <1>3, PidFacts, StatesDiffer, LotteryAssumption
     DEF Init, TypeOK, MainPcs, NULLPROC
<1>5. CurrUnique
  BY <1>2, PidFacts DEF CurrUnique, Init
<1>6. NumprocExact
  BY <1>2, FS_Singleton DEF NumprocExact, Init
<1>7. BootInv
  BY <1>1, PidFacts, LotteryAssumption DEF BootInv, Init
<1>8. TicketsHeld
  BY <1>1, StatesDiffer DEF TicketsHeld, Init, InState, NULLPROC
<1>9. DrawSucceeds
  BY PidFacts DEF DrawSucceeds, Init
<1> QED BY <1>3, <1>4, <1>5, <1>6, <1>7, <1>8, <1>9 DEF LotteryInv

\* A call of resched() by process 0 in xmain(), by a process that yields, or by the
\* clock.
LEMMA SwitchKeeps ==
  ASSUME LotteryInv, resched(state, queuetab), currpid \in Pids,
         mainpc \in {"xmain", "gone"},
         UNCHANGED <<tickets, numproc, nextpid, stacks, mainpc, prnull>>
  PROVE  LotteryInv'
<1>1. /\ state \in [Pids -> States] /\ queuetab \in Table /\ InTable(queuetab)
      /\ {p \in Pids : state[p] = PRCURR} \subseteq {currpid}
  BY DEF LotteryInv, TypeOK, LinksInTable, CurrUnique, InState
<1>2. /\ state' \in [Pids -> States] /\ queuetab' \in Table
      /\ currpid' \in Pids \cup {NPROC} /\ preempt' \in 1 .. QUANTUM
      /\ LinksInTable' /\ CurrUnique' /\ Live(state') = Live(state)
      /\ \A p \in Pids : state[p] \in {PRCURR, PRREADY} => state'[p] \in {PRCURR, PRREADY}
      /\ currpid' \in Pids
  BY <1>1, CurrDrawable, ReschedPreserves
<1>3. TypeOK'
  BY <1>2 DEF LotteryInv, TypeOK
<1>4. NumprocExact'
  BY <1>2 DEF LotteryInv, NumprocExact, Live, InState
<1>5. BootInv'
  BY <1>2, PidFacts DEF LotteryInv, BootInv
<1>6. TicketsHeld'
  BY <1>2, HeldBy DEF LotteryInv
<1>7. DrawSucceeds'
  BY <1>2, <1>5, DrawsIf
<1> QED BY <1>2, <1>3, <1>4, <1>5, <1>6, <1>7 DEF LotteryInv

\* A call of kill() by process 0 at the end of nulluser(), or by a user process.
LEMMA ExitKeeps ==
  ASSUME LotteryInv, killself, currpid \in Pids, currpid # prnull,
         mainpc \in {"xmain", "kill", "gone"},
         mainpc' = IF mainpc = "kill" THEN "gone" ELSE mainpc,
         mainpc = "xmain" => currpid # NULLPROC,
         UNCHANGED <<tickets, nextpid, stacks, prnull>>
  PROVE  LotteryInv'
<1>1. /\ state' \in [Pids -> States] /\ queuetab' \in Table
      /\ currpid' \in Pids \cup {NPROC} /\ preempt' \in 1 .. QUANTUM
      /\ LinksInTable' /\ CurrUnique' /\ numproc' \in Int /\ NumprocExact'
      /\ Live(state') \subseteq Live(state)
      /\ \A p \in Pids \ {currpid} : state[p] \in {PRCURR, PRREADY} =>
            state'[p] \in {PRCURR, PRREADY} /\ currpid' \in Pids
  BY KillselfPreserves
<1>2. TypeOK'
  BY <1>1 DEF LotteryInv, TypeOK, MainPcs
<1>3. BootInv'
  BY <1>1, PidFacts DEF LotteryInv, BootInv
<1>4. TicketsHeld'
  BY <1>1, HeldBy DEF LotteryInv
<1>5. prnull = SYSERR \/ currpid' \in Pids
  <2>1. CASE mainpc = "xmain"
    BY <1>1, <2>1, PidFacts DEF LotteryInv, BootInv
  <2>2. CASE mainpc # "xmain"
    BY <1>1, <2>2 DEF LotteryInv, TypeOK, BootInv
  <2> QED BY <2>1, <2>2
<1>6. DrawSucceeds'
  BY <1>3, <1>5, DrawsIf
<1> QED BY <1>1, <1>2, <1>3, <1>4, <1>6 DEF LotteryInv

\* Every action preserves the invariant.
LEMMA NextLotteryInv == LotteryInv /\ [Next]_vars => LotteryInv'
<1> SUFFICES ASSUME LotteryInv, [Next]_vars PROVE LotteryInv'
  OBVIOUS
<1>1. /\ TypeOK /\ LinksInTable /\ CurrUnique /\ NumprocExact /\ BootInv
  BY DEF LotteryInv
<1>held. TicketsHeld
  BY DEF LotteryInv
<1>2. CASE MainCreate
  <2>1. PICK r \in Pids \cup {SYSERR}, t \in Priorities : create(r, t)
    BY <1>2 DEF MainCreate
  <2>2. /\ currpid \in Pids /\ mainpc = "xmain" /\ stacks < MaxCreate
        /\ UNCHANGED <<queuetab, currpid, mainpc, prnull, preempt>>
    BY <1>2, PidFacts DEF MainCreate, MainRuns
  <2>3. t \in Nat \ {0}
    BY LotteryAssumption
  <2>4. /\ state' \in [Pids -> States] /\ nextpid' \in Pids /\ numproc' \in Int
        /\ stacks' = stacks + 1 /\ tickets' \in [Pids -> Nat]
        /\ LinksInTable' /\ CurrUnique' /\ NumprocExact' /\ TicketsHeld'
        /\ \A p \in Pids : state[p] # PRFREE => state'[p] = state[p]
    BY <2>1, <2>2, <2>3, CreatePreserves
  <2>5. TypeOK'
    BY <1>1, <2>2, <2>4, LotteryAssumption DEF TypeOK
  <2>6. BootInv'
    BY <1>1, <2>2, <2>4, PidFacts, StatesDiffer, LotteryAssumption DEF BootInv, TypeOK
  <2> QED BY <2>2, <2>4, <2>5, <2>6, LotteryInvBy
<1>3. ASSUME NEW p \in Pids, NEW resch \in BOOLEAN, MainReady(p, resch)
      PROVE  LotteryInv'
  <2>1. /\ currpid \in Pids /\ mainpc = "xmain" /\ state[p] = PRSUSP
        /\ ready(p, resch)
        /\ UNCHANGED <<tickets, numproc, nextpid, stacks, mainpc, prnull>>
    BY <1>3, PidFacts DEF MainReady, MainRuns
  <2>2. /\ state' \in [Pids -> States] /\ queuetab' \in Table
        /\ currpid' \in Pids /\ preempt' \in 1 .. QUANTUM
        /\ LinksInTable' /\ CurrUnique' /\ Live(state') = Live(state)
        /\ \A q \in Pids : state[q] \in {PRCURR, PRREADY} => state'[q] \in {PRCURR, PRREADY}
    BY <2>1, ReadyPreserves
  <2>3. TypeOK'
    BY <1>1, <2>1, <2>2 DEF TypeOK
  <2>4. NumprocExact'
    BY <1>1, <2>1, <2>2 DEF NumprocExact, Live, InState
  <2>5. BootInv'
    BY <1>1, <2>1, <2>2, PidFacts DEF BootInv
  <2>6. TicketsHeld'
    BY <1>held, <2>1, <2>2, HeldBy
  <2> QED BY <2>2, <2>3, <2>4, <2>5, <2>6, LotteryInvBy
<1>4. ASSUME NEW p \in Pids, MainKill(p) PROVE LotteryInv'
  <2>1. /\ currpid \in Pids /\ mainpc = "xmain" /\ state[p] # PRFREE
        /\ p \in Pids \ {currpid} /\ p # NULLPROC /\ killother(p)
        /\ UNCHANGED <<tickets, nextpid, stacks, mainpc, prnull>>
    BY <1>4, PidFacts DEF MainKill, MainRuns, isbadpid
  <2>2. /\ state' \in [Pids -> States] /\ queuetab' \in Table
        /\ UNCHANGED <<currpid, preempt>> /\ numproc' \in Int
        /\ LinksInTable' /\ CurrUnique' /\ NumprocExact'
        /\ Live(state') \subseteq Live(state) /\ state'[NULLPROC] = state[NULLPROC]
    BY <2>1, KillotherPreserves, PidFacts
  <2>3. TypeOK'
    BY <1>1, <2>1, <2>2 DEF TypeOK
  <2>4. BootInv'
    BY <1>1, <2>1, <2>2, PidFacts DEF BootInv
  <2>5. TicketsHeld'
    BY <1>held, <2>1, <2>2, HeldBy
  <2> QED BY <2>1, <2>2, <2>3, <2>4, <2>5, LotteryInvBy
<1>5. CASE MainResched
  BY <1>5, SwitchKeeps, PidFacts DEF MainResched, MainRuns
<1>6. CASE CreateNull
  <2>1. PICK r \in Pids \cup {SYSERR} : create(r, 1) /\ prnull' = r
    BY <1>6 DEF CreateNull
  <2>2. /\ currpid = NULLPROC /\ mainpc = "xmain" /\ mainpc' = "ready"
        /\ UNCHANGED <<queuetab, currpid, preempt>>
    BY <1>6 DEF CreateNull, MainRuns
  <2>3. /\ state' \in [Pids -> States] /\ nextpid' \in Pids /\ numproc' \in Int
        /\ stacks' = stacks + 1 /\ tickets' \in [Pids -> Nat]
        /\ LinksInTable' /\ CurrUnique' /\ NumprocExact' /\ TicketsHeld'
        /\ \A p \in Pids : state[p] # PRFREE => state'[p] = state[p]
        /\ r # SYSERR => r # currpid /\ state'[r] = PRSUSP
    BY <2>1, <2>2, PidFacts, CreatePreserves
  <2>4. TypeOK'
    BY <1>1, <2>1, <2>2, <2>3, LotteryAssumption DEF TypeOK, BootInv, MainPcs
  <2>5. prnull' # NULLPROC /\ prnull' # NotYet
    BY <2>1, <2>2, <2>3, PidFacts
  <2>6. BootInv'
    BY <1>1, <2>1, <2>2, <2>3, <2>5, PidFacts, StatesDiffer DEF BootInv
  <2> QED BY <2>2, <2>3, <2>4, <2>6, PidFacts, LotteryInvBy
<1>7. CASE ReadyNull
  <2>1. /\ mainpc = "ready" /\ mainpc' = "kill" /\ currpid = NULLPROC
        /\ prnull # NotYet /\ prnull # NULLPROC
        /\ UNCHANGED <<tickets, numproc, nextpid, stacks, prnull>>
    BY <1>1, <1>7 DEF ReadyNull, BootInv
  <2>2. CASE prnull = SYSERR
    <3>1. UNCHANGED <<state, queuetab, currpid, preempt>>
      BY <1>7, <2>2 DEF ReadyNull
    <3>2. TypeOK'
      BY <1>1, <2>1, <3>1 DEF TypeOK, MainPcs
    <3>3. LinksInTable' /\ CurrUnique' /\ NumprocExact' /\ TicketsHeld'
      BY <1>1, <1>held, <2>1, <3>1
         DEF LinksInTable, CurrUnique, NumprocExact, TicketsHeld, InState
    <3>4. BootInv'
      BY <1>1, <2>1, <2>2, <3>1, PidFacts DEF BootInv
    <3> QED BY <2>1, <3>1, <3>2, <3>3, <3>4, PidFacts, LotteryInvBy
  <2>3. CASE prnull # SYSERR
    <3>1. /\ prnull \in Pids /\ state[prnull] = PRSUSP /\ ready(prnull, FALSE)
          /\ currpid \in Pids
      BY <1>1, <1>7, <2>1, <2>3, PidFacts DEF ReadyNull, BootInv, TypeOK
    <3>2. /\ state' \in [Pids -> States] /\ queuetab' \in Table
          /\ preempt' \in 1 .. QUANTUM
          /\ LinksInTable' /\ CurrUnique' /\ Live(state') = Live(state)
          /\ currpid' = currpid /\ state' = [state EXCEPT ![prnull] = PRREADY]
          /\ \A q \in Pids : state[q] \in {PRCURR, PRREADY} => state'[q] \in {PRCURR, PRREADY}
      BY <3>1, ReadyPreserves
    <3>3. TypeOK'
      BY <1>1, <2>1, <3>2 DEF TypeOK, MainPcs
    <3>4. NumprocExact'
      BY <1>1, <2>1, <3>2 DEF NumprocExact, Live, InState
    <3>5. state'[prnull] = PRREADY
      BY <1>1, <3>1, <3>2 DEF TypeOK
    <3>6. BootInv'
      BY <1>1, <2>1, <3>2, <3>5, PidFacts DEF BootInv
    <3>7. TicketsHeld'
      BY <1>held, <2>1, <3>2, HeldBy
    <3> QED BY <3>1, <3>2, <3>3, <3>4, <3>6, <3>7, LotteryInvBy
  <2> QED BY <2>2, <2>3
<1>8. CASE KillMain
  <2>1. currpid = NULLPROC /\ mainpc = "kill" /\ prnull # NULLPROC
    BY <1>1, <1>8 DEF KillMain, BootInv
  <2> QED BY <1>8, <2>1, ExitKeeps, PidFacts DEF KillMain
<1>9. UserRuns => currpid \in Pids /\ currpid # NULLPROC /\ mainpc \in {"xmain", "gone"}
  BY <1>1 DEF UserRuns, TypeOK, MainPcs, BootInv
<1>10. CASE UserYield
  BY <1>9, <1>10, SwitchKeeps DEF UserYield
<1>11. CASE UserKill
  BY <1>9, <1>11, ExitKeeps DEF UserKill
<1>12. CASE clkhandler
  <2>1. CASE preempt - 1 <= 0
    BY <1>9, <1>12, <2>1, SwitchKeeps DEF clkhandler
  <2>2. CASE ~ (preempt - 1 <= 0)
    <3>1. preempt' = preempt - 1
          /\ UNCHANGED <<state, queuetab, currpid, tickets, numproc, nextpid, stacks,
                         mainpc, prnull>>
      BY <1>12, <2>2 DEF clkhandler
    <3>2. preempt' \in 1 .. QUANTUM
      BY <1>1, <2>2, <3>1, LotteryAssumption DEF TypeOK
    <3> QED BY <1>1, <3>1, <3>2 DEF LotteryInv, TypeOK, LinksInTable, CurrUnique,
                                    NumprocExact, BootInv, InState, TicketsHeld, DrawSucceeds
  <2> QED BY <2>1, <2>2
<1>13. CASE UNCHANGED vars
  <2>1. UNCHANGED <<state, tickets, queuetab, currpid, numproc, nextpid, stacks,
                    mainpc, prnull, preempt>>
    BY <1>13 DEF vars
  <2> QED BY <1>1, <2>1 DEF LotteryInv, TypeOK, LinksInTable, CurrUnique,
                            NumprocExact, BootInv, InState, TicketsHeld, DrawSucceeds
<1> QED BY <1>2, <1>3, <1>4, <1>5, <1>6, <1>7, <1>8, <1>10, <1>11, <1>12, <1>13 DEF Next

-----------------------------------------------------------------------------

\* The inductive invariant holds throughout, the eligible null process included.
THEOREM LotteryInvariance == Spec => []LotteryInv
BY InitLotteryInv, NextLotteryInv, PTL DEF Spec

\* Unless the null process could not be created, resched() always finds a process,
\* and once nulluser() is done the null process can run.
THEOREM AlwaysDraws == Spec => []DrawSucceeds
<1>1. LotteryInv => DrawSucceeds
  BY DEF LotteryInv
<1> QED BY <1>1, LotteryInvariance, PTL

\* As long as the tickets fit the range of random(), a ready process is picked by as
\* many of its values as it has tickets.
THEOREM SharesFollowTickets == Spec => []EveryTicketCounts
<1>1. LotteryInv => EveryTicketCounts
  BY Shares DEF LotteryInv, TypeOK, EveryTicketCounts, InState
<1> QED BY <1>1, LotteryInvariance, PTL

\* Types, for every number of slots, stacks, tickets and ticks.
THEOREM LotteryTypeCorrect == Spec => []TypeOK
<1>1. LotteryInv => TypeOK
  BY DEF LotteryInv
<1> QED BY <1>1, LotteryInvariance, PTL

\* However far the ready list drifts away from the states, enqueue(), remove() and
\* dequeue() never write outside queuetab.
THEOREM LinksStayInTable == Spec => []LinksInTable
<1>1. LotteryInv => LinksInTable
  BY DEF LotteryInv
<1> QED BY <1>1, LotteryInvariance, PTL

\* At most one process is marked running, and it is the one that runs.
THEOREM LotteryOneRunning == Spec => []CurrUnique
<1>1. LotteryInv => CurrUnique
  BY DEF LotteryInv
<1> QED BY <1>1, LotteryInvariance, PTL

\* numproc is the number of slots in use.
THEOREM LotteryNumproc == Spec => []NumprocExact
<1>1. LotteryInv => NumprocExact
  BY DEF LotteryInv
<1> QED BY <1>1, LotteryInvariance, PTL

-----------------------------------------------------------------------------
(* The scheduler implements AbsLottery: the list plays no part in the      *)
(* choice of the next process.                                             *)

Runnable(st) == {p \in Pids : st[p] \in {PRCURR, PRREADY}}
Parked(st)   == {p \in Pids : st[p] = PRSUSP}

\* resched() draws from the running and the ready processes.
LEMMA ReschedDraws ==
  ASSUME NEW st \in [Pids -> States], NEW qt, currpid \in Pids, resched(st, qt),
         {p \in Pids : st[p] = PRCURR} \subseteq {currpid},
         tickets \in [Pids -> Nat], \A p \in Runnable(st) : tickets[p] > 0
  PROVE  Abs!Draw(Runnable(st)) /\ InState(PRSUSP)' = Parked(st)
<1> DEFINE again == st[currpid] = PRCURR
           st1 == IF again THEN [st EXCEPT ![currpid] = PRREADY] ELSE st
<1>1. PICK winner \in random(totalTickets(st1)), i \in Pids \cup {NPROC} :
          pickWin(i, st1, winner) /\ currpid' = i
  BY DEF resched
<1>2. state' = [p \in Pids |-> IF p = i THEN PRCURR ELSE st1[p]]
  BY <1>1 DEF resched
<1>3. \A p \in Pids : /\ p \in Runnable(st) <=> st1[p] = PRREADY
                      /\ st[p] = PRSUSP <=> st1[p] = PRSUSP
                      /\ st1[p] # PRCURR
  BY StatesDiffer DEF Runnable
<1>4. i \in Pids => i \in Runnable(st)
  BY <1>1, <1>3, PidFacts DEF pickWin
<1>5. Runnable(st) # {} => i \in Pids
  <2> SUFFICES ASSUME NEW p \in Runnable(st) PROVE i \in Pids
    OBVIOUS
  <2>1. p \in Pids /\ st1[p] = PRREADY /\ tickets[p] > 0
    BY <1>3 DEF Runnable
  <2> QED BY <1>1, <2>1, DrawFinds
<1>6. InState(PRREADY)' = Runnable(st) \ {i} /\ InState(PRSUSP)' = Parked(st)
  <2> HIDE DEF st1
  <2>1. \A p \in Pids : /\ state'[p] = PRREADY <=> p \in Runnable(st) /\ p # i
                        /\ state'[p] = PRSUSP <=> st[p] = PRSUSP
    BY <1>2, <1>3, <1>4, StatesDiffer
  <2> QED BY <2>1 DEF InState, Parked, Runnable
<1> QED BY <1>1, <1>4, <1>5, <1>6 DEF Abs!Draw

\* The initial state is one of AbsLottery.
LEMMA InitDraws == Init => Abs!AbsInit
<1> SUFFICES ASSUME Init PROVE Abs!AbsInit
  OBVIOUS
<1>1. InState(PRREADY) = {} /\ InState(PRSUSP) = {}
  BY StatesDiffer DEF Init, InState
<1> QED BY <1>1 DEF Init, Abs!AbsInit

\* Every step is a step of AbsLottery or changes nothing it sees.
LEMMA StepDraws == LotteryInv /\ [Next]_vars => [Abs!AbsNext]_(Abs!absvars)
<1> SUFFICES ASSUME LotteryInv, [Next]_vars PROVE [Abs!AbsNext]_(Abs!absvars)
  OBVIOUS
<1>1. /\ state \in [Pids -> States] /\ tickets \in [Pids -> Nat]
      /\ InState(PRCURR) = {currpid} \cap Pids
      /\ \A p \in Pids : state[p] # PRFREE => tickets[p] > 0
      /\ BootInv /\ prnull \in Pids \cup {SYSERR, NotYet}
  BY DEF LotteryInv, TypeOK, CurrUnique, TicketsHeld, InState
<1>run. currpid \in Pids => /\ state[currpid] = PRCURR
                            /\ Runnable(state) = InState(PRREADY) \cup {currpid}
                            /\ \A p \in Pids : state[p] = PRCURR => p = currpid
  BY <1>1 DEF InState, Runnable
<1>2. ASSUME currpid \in Pids, NEW r \in Pids \cup {SYSERR}, NEW t, create(r, t),
             UNCHANGED currpid
      PROVE  [Abs!AbsNext]_(Abs!absvars)
  <2>1. CASE UNCHANGED state
    BY <1>2, <2>1 DEF Abs!absvars, InState
  <2>2. CASE ~ UNCHANGED state
    <3>1. PICK p \in Pids : state[p] = PRFREE /\ state' = [state EXCEPT ![p] = PRSUSP]
      BY <1>2, <2>2 DEF create, newpid
    <3>2. InState(PRREADY)' = InState(PRREADY) /\ InState(PRSUSP)' = InState(PRSUSP) \cup {p}
      BY <3>1, <1>1, StatesDiffer DEF InState
    <3>3. p \notin InState(PRREADY) \cup InState(PRSUSP) \cup {currpid}
      BY <3>1, <1>2, <1>run, StatesDiffer DEF InState
    <3>4. Abs!Admit(p)
      BY <1>2, <3>2, <3>3 DEF Abs!Admit
    <3> QED BY <1>2, <3>4 DEF Abs!AbsNext
  <2> QED BY <2>1, <2>2
<1>3. ASSUME currpid \in Pids, NEW p \in Pids, state[p] = PRSUSP, NEW resch \in BOOLEAN,
             ready(p, resch)
      PROVE  Abs!AbsNext
  <2> DEFINE st1 == [state EXCEPT ![p] = PRREADY]
  <2>1. st1 \in [Pids -> States] /\ {q \in Pids : st1[q] = PRCURR} \subseteq {currpid}
    BY <1>1, <1>3, <1>run, StatesDiffer
  <2>2. p \in InState(PRSUSP) /\ Parked(st1) = InState(PRSUSP) \ {p}
        /\ {q \in Pids : st1[q] = PRREADY} = InState(PRREADY) \cup {p}
    BY <1>1, <1>3, StatesDiffer DEF InState, Parked
  <2>3. Runnable(st1) = InState(PRREADY) \cup {p, currpid}
    BY <1>1, <1>3, <1>run, StatesDiffer DEF InState, Runnable
  <2>4. \A q \in Runnable(st1) : tickets[q] > 0
    BY <1>1, <1>3, StatesDiffer DEF Runnable
  <2>5. CASE resch
    <3>1. resched(st1, enqueue(queuetab, st1, p))
      BY <1>3, <2>5 DEF ready
    <3>2. Abs!Draw(Runnable(st1)) /\ InState(PRSUSP)' = Parked(st1)
      BY <1>1, <1>3, <2>1, <2>4, <3>1, ReschedDraws
    <3> QED BY <1>3, <2>2, <2>3, <3>2 DEF Abs!AbsNext, Abs!Wake
  <2>6. CASE ~resch
    <3>1. state' = st1 /\ UNCHANGED currpid
      BY <1>3, <2>6 DEF ready
    <3>2. InState(PRSUSP)' = Parked(st1) /\ InState(PRREADY)' = {q \in Pids : st1[q] = PRREADY}
      BY <3>1 DEF InState, Parked
    <3> QED BY <1>3, <2>2, <3>1, <3>2 DEF Abs!AbsNext, Abs!Wake
  <2> QED BY <2>5, <2>6
<1>4. ASSUME currpid \in Pids, resched(state, queuetab) PROVE Abs!AbsNext
  <2>1. {q \in Pids : state[q] = PRCURR} \subseteq {currpid}
        /\ \A q \in Runnable(state) : tickets[q] > 0
    BY <1>1, <1>4, <1>run, StatesDiffer DEF Runnable
  <2>2. Abs!Draw(Runnable(state)) /\ InState(PRSUSP)' = Parked(state)
    BY <1>1, <1>4, <2>1, ReschedDraws
  <2>3. Parked(state) = InState(PRSUSP)
    BY DEF Parked, InState
  <2>4. Abs!Yield
    BY <1>4, <1>run, <2>2, <2>3 DEF Abs!Yield
  <2> QED BY <1>4, <2>4 DEF Abs!AbsNext
<1>5. ASSUME currpid \in Pids, killself PROVE Abs!AbsNext
  <2> DEFINE st1 == [state EXCEPT ![currpid] = PRFREE]
  <2>1. st1 \in [Pids -> States] /\ {q \in Pids : st1[q] = PRCURR} \subseteq {currpid}
        /\ resched(st1, queuetab)
    BY <1>1, <1>5, <1>run, StatesDiffer DEF killself
  <2>2. Runnable(st1) = InState(PRREADY) /\ Parked(st1) = InState(PRSUSP)
    BY <1>1, <1>5, <1>run, StatesDiffer DEF Runnable, Parked, InState
  <2>3. \A q \in Runnable(st1) : tickets[q] > 0
    BY <1>1, <2>2, StatesDiffer DEF InState
  <2>4. Abs!Draw(Runnable(st1)) /\ InState(PRSUSP)' = Parked(st1)
    BY <1>1, <1>5, <2>1, <2>3, ReschedDraws
  <2>5. Abs!Exit
    BY <2>2, <2>4 DEF Abs!Exit
  <2> QED BY <1>5, <2>5 DEF Abs!AbsNext
<1>6. ASSUME currpid \in Pids, NEW p \in Pids \ {currpid}, state[p] # PRFREE, killother(p)
      PROVE  Abs!AbsNext
  <2>1. state' = [state EXCEPT ![p] = PRFREE] /\ UNCHANGED currpid
    BY <1>6 DEF killother
  <2>2. InState(PRREADY)' = InState(PRREADY) \ {p} /\ InState(PRSUSP)' = InState(PRSUSP) \ {p}
    BY <2>1, <1>1, StatesDiffer DEF InState
  <2>3. p \in InState(PRREADY) \cup InState(PRSUSP)
    BY <1>1, <1>6, <1>run, StatesDiffer DEF InState
  <2>4. Abs!Destroy(p)
    BY <2>1, <2>2, <2>3 DEF Abs!Destroy
  <2> QED BY <1>6, <2>4 DEF Abs!AbsNext
<1>7. CASE MainCreate
  BY <1>2, <1>7, PidFacts DEF MainCreate, MainRuns
<1>8. ASSUME NEW p \in Pids, MainReady(p, TRUE) \/ MainReady(p, FALSE) PROVE Abs!AbsNext
  BY <1>3, <1>8, PidFacts DEF MainReady, MainRuns
<1>9. ASSUME NEW p \in Pids, MainKill(p) PROVE Abs!AbsNext
  BY <1>6, <1>9, PidFacts DEF MainKill, MainRuns, isbadpid
<1>10. CASE MainResched
  BY <1>4, <1>10, PidFacts DEF MainResched, MainRuns
<1>11. CASE CreateNull
  BY <1>2, <1>11, PidFacts DEF CreateNull, MainRuns
<1>12. CASE ReadyNull
  <2>1. CASE prnull = SYSERR
    <3>1. UNCHANGED <<state, currpid>>
      BY <1>12, <2>1 DEF ReadyNull
    <3> QED BY <3>1 DEF Abs!absvars, InState
  <2>2. CASE prnull # SYSERR
    <3>1. currpid \in Pids /\ prnull \in Pids /\ state[prnull] = PRSUSP
      BY <1>1, <1>12, <2>2, PidFacts DEF ReadyNull, BootInv
    <3>2. ready(prnull, FALSE)
      BY <1>12, <2>2 DEF ReadyNull
    <3> QED BY <1>3, <3>1, <3>2
  <2> QED BY <2>1, <2>2
<1>13. CASE KillMain
  BY <1>1, <1>5, <1>13, PidFacts DEF KillMain, BootInv
<1>14. CASE UserYield
  BY <1>4, <1>14 DEF UserYield, UserRuns
<1>15. CASE UserKill
  BY <1>5, <1>15 DEF UserKill, UserRuns
<1>16. CASE clkhandler
  <2>1. CASE preempt - 1 <= 0
    BY <1>4, <1>16, <2>1 DEF clkhandler, UserRuns
  <2>2. CASE ~ (preempt - 1 <= 0)
    BY <1>16, <2>2 DEF clkhandler, Abs!absvars, InState
  <2> QED BY <2>1, <2>2
<1>17. CASE UNCHANGED vars
  BY <1>17 DEF vars, Abs!absvars, InState
<1> QED BY <1>7, <1>8, <1>9, <1>10, <1>11, <1>12, <1>13, <1>14, <1>15, <1>16, <1>17 DEF Next

\* The scheduler draws among all processes that can run, whatever its list holds.
THEOREM LotteryImplements == Spec => DrawsAmongReady
BY InitDraws, StepDraws, LotteryInvariance, PTL DEF Spec, DrawsAmongReady, Abs!AbsSpec
=============================================================================
