--------------------------- MODULE FifoSchedProofs --------------------------
(***************************************************************************)
(* The safety of the stage 5 scheduler for every number of slots, stacks   *)
(* and created processes.                                                  *)
(*                                                                         *)
(* First what the queue operations do to a well linked list, for every     *)
(* table and every set of members: the only lemmas that reason about the   *)
(* links themselves.  Then IInv, which is inductive: the states and the    *)
(* links are carried through each kernel function by one lemma, and        *)
(* BootInv says why the calls of nulluser() find the arguments those       *)
(* lemmas need.                                                            *)
(***************************************************************************)
EXTENDS FifoSched, NatSets, FiniteSetTheorems

-----------------------------------------------------------------------------
(* The ready queue.                                                        *)

\* The empty list newqueue() makes is well linked.
LEMMA NewqueueLinked ==
  /\ newqueue \in Table
  /\ Linked(newqueue, {})
  <1>1. HEAD # TAIL /\ HEAD \notin Pids /\ TAIL \notin Pids /\ 0 \in Pids
    BY NPROCAssumption DEF HEAD, TAIL, Pids
  <1>2. newqueue[HEAD] = [next |-> TAIL, prev |-> EMPTY]
    BY <1>1 DEF newqueue, Entries
  <1>3. newqueue[TAIL] = [next |-> EMPTY, prev |-> HEAD]
    BY <1>1 DEF newqueue, Entries
  <1>4. newqueue \in Table
    BY <1>1 DEF newqueue, Table, Links, Entries
  <1>5. Linked(newqueue, {})
    BY <1>2, <1>3 DEF Linked
  <1> QED BY <1>4, <1>5

\* enqueue() of a live process that is not a member makes it one.
LEMMA EnqueueLinked ==
  ASSUME NEW qt \in Table, NEW members \in SUBSET Pids, Linked(qt, members),
         NEW st, NEW pid \in Pids \ members, st[pid] # PRFREE
  PROVE  /\ enqueue(qt, st, pid) \in Table
         /\ Linked(enqueue(qt, st, pid), members \cup {pid})
  <1> DEFINE last == qt[TAIL].prev
             new  == enqueue(qt, st, pid)
  <1>1. HEAD # TAIL /\ HEAD \notin Pids /\ TAIL \notin Pids
    BY NPROCAssumption DEF HEAD, TAIL, Pids
  <1>2. last \in members \cup {HEAD} /\ qt[last].next = TAIL
    BY DEF Linked
  <1>3. last # TAIL /\ last # pid /\ pid # TAIL /\ pid # HEAD
    BY <1>1, <1>2
  <1>4. new = [qt EXCEPT ![pid] = [next |-> TAIL, prev |-> last],
                         ![last].next = pid, ![TAIL].prev = pid]
    BY DEF enqueue, isbadpid
  <1>5. new \in Table
    BY <1>4, <1>2 DEF Table, Links, Entries
  <1>6. /\ new[pid] = [next |-> TAIL, prev |-> last]
        /\ new[last].next = pid /\ new[last].prev = qt[last].prev
        /\ new[TAIL].prev = pid /\ new[TAIL].next = qt[TAIL].next
        /\ \A e \in Entries \ {pid, last, TAIL} : new[e] = qt[e]
    BY <1>2, <1>3, <1>4 DEF Table, Entries
  <1>7. ASSUME NEW e \in members \cup {pid} \cup {HEAD}
        PROVE  new[e].next \in members \cup {pid} \cup {TAIL} /\ new[new[e].next].prev = e
    <2>1. CASE e = pid
      BY <2>1, <1>6
    <2>2. CASE e = last
      BY <2>2, <1>6
    <2>3. CASE e # pid /\ e # last
      <3>1. e \in members \cup {HEAD} /\ new[e] = qt[e]
        BY <2>3, <1>6, <1>1 DEF Entries
      <3>2. qt[e].next \in members \cup {TAIL} /\ qt[qt[e].next].prev = e
        BY <3>1 DEF Linked
      <3>3. qt[e].next # TAIL
        BY <3>2, <2>3
      <3>4. qt[e].next # pid
        BY <3>2, <3>3
      <3>5. new[qt[e].next].prev = qt[qt[e].next].prev
        BY <3>2, <3>3, <3>4, <1>6 DEF Entries
      <3> QED BY <3>1, <3>2, <3>5
    <2> QED BY <2>1, <2>2, <2>3
  <1>8. ASSUME NEW e \in members \cup {pid} \cup {TAIL}
        PROVE  new[e].prev \in members \cup {pid} \cup {HEAD} /\ new[new[e].prev].next = e
    <2>1. CASE e = TAIL
      BY <2>1, <1>6
    <2>2. CASE e = pid
      BY <2>2, <1>6, <1>2
    <2>3. CASE e # TAIL /\ e # pid
      <3>1. e \in members /\ qt[e].prev \in members \cup {HEAD} /\ qt[qt[e].prev].next = e
        BY <2>3 DEF Linked
      <3>2. new[e].prev = qt[e].prev
        BY <3>1, <2>3, <1>6 DEF Entries
      <3>3. qt[e].prev # last
        BY <3>1, <1>2, <1>1
      <3>4. new[qt[e].prev] = qt[qt[e].prev]
        BY <3>1, <3>3, <1>6, <1>1 DEF Entries
      <3> QED BY <3>1, <3>2, <3>4
    <2> QED BY <2>1, <2>2, <2>3
  <1>9. Linked(new, members \cup {pid})
    BY <1>7, <1>8 DEF Linked
  <1> QED BY <1>5, <1>9

\* remove() of a live member leaves a list of the others.
LEMMA RemoveLinked ==
  ASSUME NEW qt \in Table, NEW members \in SUBSET Pids, Linked(qt, members),
         NEW st, NEW pid \in members, st[pid] # PRFREE
  PROVE  /\ remove(qt, st, pid) \in Table
         /\ Linked(remove(qt, st, pid), members \ {pid})
  <1> DEFINE pre == qt[pid].prev
             suc == qt[pid].next
             new == remove(qt, st, pid)
  <1>1. HEAD # TAIL /\ HEAD \notin Pids /\ TAIL \notin Pids /\ pid \in Pids
    BY NPROCAssumption DEF HEAD, TAIL, Pids
  <1>2. /\ pre \in members \cup {HEAD} /\ qt[pre].next = pid
        /\ suc \in members \cup {TAIL} /\ qt[suc].prev = pid
    BY DEF Linked
  <1>3. new = [qt EXCEPT ![pre].next = suc, ![suc].prev = pre]
    BY <1>1 DEF remove, isbadpid
  <1>4. new \in Table
    BY <1>2, <1>3, SMTT(60) DEF Table, Links, Entries
  <1>5. /\ new[pre].next = suc
        /\ new[suc].prev = pre
        /\ \A e \in Entries : e # pre => new[e].next = qt[e].next
        /\ \A e \in Entries : e # suc => new[e].prev = qt[e].prev
    BY <1>2, <1>3, SMTT(60) DEF Table, Entries
  <1>6. ASSUME NEW e \in (members \ {pid}) \cup {HEAD}
        PROVE  new[e].next \in (members \ {pid}) \cup {TAIL} /\ new[new[e].next].prev = e
    <2>0. e \in Entries /\ e # pid /\ e # TAIL
      BY <1>1 DEF Entries
    <2>1. CASE e = pre
      <3>1. suc # pid
        BY <2>1, <2>0, <1>2
      <3> QED BY <2>1, <3>1, <1>5, <1>2
    <2>2. CASE e # pre
      <3>1. qt[e].next \in members \cup {TAIL} /\ qt[qt[e].next].prev = e
        BY DEF Linked
      <3>2. qt[e].next # pid /\ qt[e].next # suc
        BY <3>1, <2>2, <1>2, <2>0
      <3> QED BY <3>1, <3>2, <2>2, <2>0, <1>5 DEF Entries
    <2> QED BY <2>1, <2>2
  <1>7. ASSUME NEW e \in (members \ {pid}) \cup {TAIL}
        PROVE  new[e].prev \in (members \ {pid}) \cup {HEAD} /\ new[new[e].prev].next = e
    <2>0. e \in Entries /\ e # pid /\ e # HEAD
      BY <1>1 DEF Entries
    <2>1. CASE e = suc
      <3>1. pre # pid
        BY <2>1, <2>0, <1>2
      <3> QED BY <2>1, <3>1, <1>5, <1>2
    <2>2. CASE e # suc
      <3>1. qt[e].prev \in members \cup {HEAD} /\ qt[qt[e].prev].next = e
        BY DEF Linked
      <3>2. qt[e].prev # pid /\ qt[e].prev # pre
        BY <3>1, <2>2, <1>2, <2>0
      <3> QED BY <3>1, <3>2, <2>2, <2>0, <1>5 DEF Entries
    <2> QED BY <2>1, <2>2
  <1>8. Linked(new, members \ {pid})
    BY <1>6, <1>7 DEF Linked
  <1> QED BY <1>4, <1>8

\* dequeue() returns a live member and unlinks it, or EMPTY with an empty first
\* link and the table untouched.
LEMMA DequeueLinked ==
  ASSUME NEW qt \in Table, NEW members \in SUBSET Pids, Linked(qt, members),
         NEW st, \A p \in members : st[p] # PRFREE
  PROVE  /\ dequeue(qt, st) \in Table
         /\ dequeued(qt) \in members \cup {EMPTY}
         /\ Linked(dequeue(qt, st), members \ {dequeued(qt)})
  <1> DEFINE first == qt[HEAD].next
  <1>1. HEAD # TAIL /\ HEAD \notin Pids /\ TAIL \notin Pids /\ EMPTY \notin Pids
    BY NPROCAssumption DEF HEAD, TAIL, Pids, EMPTY
  <1>2. first \in members \cup {TAIL}
    BY DEF Linked
  <1>3. CASE first = TAIL
    <2>1. ~nonempty(qt)
      BY <1>3, NPROCAssumption DEF nonempty, firstid, TAIL
    <2>2. dequeued(qt) = EMPTY /\ dequeue(qt, st) = qt
      BY <2>1 DEF dequeued, dequeue
    <2>3. members \ {dequeued(qt)} = members
      BY <2>2, <1>1
    <2> QED BY <2>2, <2>3
  <1>4. CASE first \in members
    <2> DEFINE mid == remove(qt, st, first)
               new == dequeue(qt, st)
    <2>1. nonempty(qt)
      BY <1>4, NPROCAssumption DEF nonempty, firstid, Pids
    <2>2. dequeued(qt) = first
      BY <2>1 DEF dequeued, firstid
    <2>3. mid \in Table /\ Linked(mid, members \ {first})
      BY <1>4, RemoveLinked
    <2>4. new = [mid EXCEPT ![first] = [next |-> first, prev |-> first]]
      BY <2>1 DEF dequeue, firstid
    <2>5. first \in Entries /\ first # HEAD /\ first # TAIL
      BY <1>1, <1>4 DEF Entries
    <2>6. new \in Table
      BY <2>3, <2>4, <2>5 DEF Table, Links
    <2>7. \A e \in Entries \ {first} : new[e] = mid[e]
      BY <2>3, <2>4 DEF Table
    <2>8. (members \ {first}) \cup {HEAD, TAIL} \subseteq Entries \ {first}
      BY <2>5 DEF Entries
    <2>9. Linked(new, members \ {first})
      BY <2>3, <2>7, <2>8 DEF Linked
    <2> QED BY <1>4, <2>2, <2>6, <2>9
  <1> QED BY <1>2, <1>3, <1>4

-----------------------------------------------------------------------------
(* The list has no cycle beside it: its members and ends can be numbered   *)
(* so that every next link goes up.                                        *)

Ordered(qt, members) ==
    \E rank \in [Entries -> Nat] :
        \A e \in members \cup {HEAD} : rank[e] < rank[qt[e].next]

\* The empty list newqueue() makes is ordered.
LEMMA NewqueueOrdered == Ordered(newqueue, {})
  <1> DEFINE rank == [e \in Entries |-> IF e = TAIL THEN 1 ELSE 0]
  <1>1. HEAD # TAIL /\ HEAD \in Entries /\ TAIL \in Entries
    BY NPROCAssumption DEF HEAD, TAIL, Entries
  <1>2. newqueue[HEAD].next = TAIL
    BY <1>1 DEF newqueue
  <1>3. rank \in [Entries -> Nat] /\ rank[HEAD] < rank[newqueue[HEAD].next]
    BY <1>1, <1>2
  <1> QED BY <1>3 DEF Ordered

\* enqueue() puts the new member last.
LEMMA EnqueueOrdered ==
  ASSUME NEW qt \in Table, NEW members \in SUBSET Pids,
         Linked(qt, members), Ordered(qt, members),
         NEW st, NEW pid \in Pids \ members, st[pid] # PRFREE
  PROVE  Ordered(enqueue(qt, st, pid), members \cup {pid})
  <1> DEFINE last == qt[TAIL].prev
             new  == enqueue(qt, st, pid)
  <1>1. HEAD # TAIL /\ HEAD \notin Pids /\ TAIL \notin Pids
    BY NPROCAssumption DEF HEAD, TAIL, Pids
  <1>2. last \in members \cup {HEAD} /\ qt[last].next = TAIL
    BY DEF Linked
  <1>3. last # TAIL /\ last # pid /\ pid # TAIL /\ pid # HEAD
        /\ members \cup {pid, HEAD, TAIL} \subseteq Entries
    BY <1>1, <1>2 DEF Entries
  <1>4. /\ new[pid].next = TAIL
        /\ new[last].next = pid
        /\ \A e \in Entries \ {pid, last} : new[e].next = qt[e].next
    BY <1>2, <1>3 DEF enqueue, isbadpid, Table, Entries
  <1>5. PICK rank \in [Entries -> Nat] :
               \A e \in members \cup {HEAD} : rank[e] < rank[qt[e].next]
    BY DEF Ordered
  <1> DEFINE above == [rank EXCEPT ![pid] = rank[TAIL], ![TAIL] = rank[TAIL] + 1]
  <1>6. /\ above \in [Entries -> Nat]
        /\ above[pid] = rank[TAIL] /\ above[TAIL] = rank[TAIL] + 1
        /\ \A e \in Entries \ {pid, TAIL} : above[e] = rank[e]
    BY <1>3
  <1>7. ASSUME NEW e \in members \cup {pid} \cup {HEAD}
        PROVE  above[e] < above[new[e].next]
    <2>1. CASE e = pid
      BY <2>1, <1>3, <1>4, <1>6
    <2>2. CASE e = last
      BY <2>2, <1>2, <1>3, <1>4, <1>5, <1>6
    <2>3. CASE e # pid /\ e # last
      <3>1. e \in members \cup {HEAD} /\ e # TAIL /\ new[e].next = qt[e].next
        BY <2>3, <1>1, <1>3, <1>4
      <3>2. qt[e].next \in members \cup {TAIL} /\ qt[qt[e].next].prev = e
        BY <3>1 DEF Linked
      <3>3. qt[e].next \in members /\ qt[e].next \notin {pid, TAIL}
        BY <3>2, <2>3, <1>1
      <3> QED BY <2>3, <3>1, <3>3, <1>3, <1>5, <1>6
    <2> QED BY <2>1, <2>2, <2>3
  <1> QED BY <1>6, <1>7 DEF Ordered

\* remove() keeps the order of the members that stay.
LEMMA RemoveOrdered ==
  ASSUME NEW qt \in Table, NEW members \in SUBSET Pids,
         Linked(qt, members), Ordered(qt, members),
         NEW st, NEW pid \in members, st[pid] # PRFREE
  PROVE  Ordered(remove(qt, st, pid), members \ {pid})
  <1> DEFINE pre == qt[pid].prev
             suc == qt[pid].next
             new == remove(qt, st, pid)
  <1>1. pid \in Pids /\ members \cup {HEAD, TAIL} \subseteq Entries
        /\ pid # HEAD
    BY NPROCAssumption DEF HEAD, TAIL, Pids, Entries
  <1>2. /\ pre \in members \cup {HEAD} /\ qt[pre].next = pid
        /\ suc \in members \cup {TAIL}
    BY DEF Linked
  <1>3. /\ new[pre].next = suc
        /\ \A e \in Entries : e # pre => new[e].next = qt[e].next
    BY <1>1, <1>2 DEF remove, isbadpid, Table, Entries
  <1>4. PICK rank \in [Entries -> Nat] :
               \A e \in members \cup {HEAD} : rank[e] < rank[qt[e].next]
    BY DEF Ordered
  <1>5. rank[pre] < rank[pid] /\ rank[pid] < rank[suc]
    BY <1>2, <1>4
  <1>6. rank[pre] \in Nat /\ rank[pid] \in Nat /\ rank[suc] \in Nat
    BY <1>1, <1>2
  <1>7. ASSUME NEW e \in (members \ {pid}) \cup {HEAD}
        PROVE  rank[e] < rank[new[e].next]
    <2>1. CASE e = pre
      BY <2>1, <1>3, <1>5, <1>6
    <2>2. CASE e # pre
      BY <2>2, <1>1, <1>3, <1>4
    <2> QED BY <2>1, <2>2
  <1> QED BY <1>7 DEF Ordered

\* The first link of an ordered list with a member leads to a member: the one
\* of least rank can only come after HEAD.
LEMMA FirstMember ==
  ASSUME NEW qt \in Table, NEW members \in SUBSET Pids,
         Linked(qt, members), Ordered(qt, members), members # {}
  PROVE  qt[HEAD].next \in members
  <1>1. PICK rank \in [Entries -> Nat] :
               \A e \in members \cup {HEAD} : rank[e] < rank[qt[e].next]
    BY DEF Ordered
  <1> DEFINE ranks == {rank[e] : e \in members}
  <1>2. ranks \in SUBSET Nat /\ ranks # {}
    BY DEF Entries
  <1>3. PICK n \in ranks : \A m \in ranks : n <= m
    <2> HIDE DEF ranks
    <2> QED BY <1>2, LeastMember
  <1>4. PICK first \in members : rank[first] = n
    BY <1>3
  <1>5. qt[first].prev \in members \cup {HEAD} /\ qt[qt[first].prev].next = first
    BY DEF Linked
  <1>6. qt[first].prev \notin members
    <2>1. SUFFICES ASSUME qt[first].prev \in members PROVE FALSE
      OBVIOUS
    <2>2. rank[qt[first].prev] < rank[first]
      BY <1>1, <1>5
    <2>3. rank[first] <= rank[qt[first].prev]
      BY <2>1, <1>3, <1>4
    <2>4. rank[first] \in Nat /\ rank[qt[first].prev] \in Nat
      BY <2>1 DEF Entries
    <2> QED BY <2>2, <2>3, <2>4
  <1> QED BY <1>5, <1>6

\* dequeue() keeps the order, and finds a member whenever there is one.
LEMMA DequeueOrdered ==
  ASSUME NEW qt \in Table, NEW members \in SUBSET Pids,
         Linked(qt, members), Ordered(qt, members),
         NEW st, \A p \in members : st[p] # PRFREE
  PROVE  /\ Ordered(dequeue(qt, st), members \ {dequeued(qt)})
         /\ dequeued(qt) = EMPTY <=> members = {}
  <1> DEFINE first == qt[HEAD].next
  <1>1. HEAD # TAIL /\ HEAD \notin Pids /\ TAIL \notin Pids /\ EMPTY \notin Pids
    BY NPROCAssumption DEF HEAD, TAIL, Pids, EMPTY
  <1>2. first \in members \cup {TAIL}
    BY DEF Linked
  <1>3. CASE first = TAIL
    <2>1. ~nonempty(qt)
      BY <1>3, NPROCAssumption DEF nonempty, firstid, TAIL
    <2>2. dequeued(qt) = EMPTY /\ dequeue(qt, st) = qt
      BY <2>1 DEF dequeued, dequeue
    <2>3. members \ {dequeued(qt)} = members
      BY <2>2, <1>1
    <2>4. members = {}
      BY <1>1, <1>3, FirstMember
    <2> QED BY <2>2, <2>3, <2>4
  <1>4. CASE first \in members
    <2> DEFINE mid == remove(qt, st, first)
               new == dequeue(qt, st)
    <2>1. nonempty(qt)
      <3>1. first \in 0 .. NPROC - 1 /\ NPROC \in Nat
        BY <1>4, NPROCAssumption DEF Pids
      <3>2. firstid(qt) = first
        BY DEF firstid
      <3> HIDE DEF first
      <3>3. first < NPROC
        BY <3>1
      <3> QED BY <3>2, <3>3 DEF nonempty
    <2>2. dequeued(qt) = first /\ first # EMPTY
      BY <2>1, <1>1, <1>4 DEF dequeued, firstid
    <2>3. mid \in Table /\ Ordered(mid, members \ {first})
      BY <1>4, RemoveLinked, RemoveOrdered
    <2>4. new = [mid EXCEPT ![first] = [next |-> first, prev |-> first]]
      BY <2>1 DEF dequeue, firstid
    <2>5. (members \ {first}) \cup {HEAD} \subseteq Entries \ {first}
      BY <1>1, <1>4 DEF Entries
    <2>6. \A e \in (members \ {first}) \cup {HEAD} : new[e].next = mid[e].next
      BY <2>3, <2>4, <2>5 DEF Table
    <2>7. Ordered(new, members \ {first})
      BY <2>3, <2>6 DEF Ordered
    <2> QED BY <1>4, <2>2, <2>7
  <1> QED BY <1>2, <1>3, <1>4

-----------------------------------------------------------------------------
(* Following the list.                                                     *)

\* Hops() follows the next links, one a step, and stays at TAIL.
LEMMA HopsFollow ==
  ASSUME NEW qt \in Table, NEW members \in SUBSET Pids, Linked(qt, members)
  PROVE  /\ Hops(qt) \in [0 .. NPROC + 1 -> members \cup {HEAD, TAIL}]
         /\ Hops(qt)[0] = HEAD
         /\ \A n \in 1 .. NPROC + 1 :
               Hops(qt)[n] = IF Hops(qt)[n - 1] = TAIL THEN TAIL
                             ELSE qt[Hops(qt)[n - 1]].next
  <1> DEFINE met  == members \cup {HEAD, TAIL}
             step == [e \in met |-> IF e \in Pids \cup {HEAD} THEN qt[e].next ELSE e]
             Follows(f) == f = [n \in 0 .. NPROC + 1 |->
                                  IF n = 0 THEN HEAD
                                  ELSE IF f[n - 1] \in Pids \cup {HEAD} THEN qt[f[n - 1]].next
                                  ELSE f[n - 1]]
  <1>1. HEAD # TAIL /\ HEAD \notin Pids /\ TAIL \notin Pids /\ NPROC + 1 \in Nat
    BY NPROCAssumption DEF HEAD, TAIL, Pids
  <1>2. step \in [met -> met] /\ HEAD \in met
    BY <1>1 DEF Linked
  <1>3. PICK f \in [0 .. NPROC + 1 -> met] :
               f[0] = HEAD /\ \A n \in 1 .. NPROC + 1 : f[n] = step[f[n - 1]]
    <2> DEFINE b == NPROC + 1
    <2>1. b \in Nat /\ HEAD \in met /\ step \in [met -> met]
      BY <1>1, <1>2
    <2>2. \E f \in [0 .. b -> met] : Walks(f, step, HEAD, b)
      <3> HIDE DEF met, step, b, Follows
      <3> QED BY <2>1, Iteration
    <2>3. PICK f \in [0 .. b -> met] : Walks(f, step, HEAD, b)
      BY <2>2
    <2> QED BY <2>3 DEF Walks
  <1>4. \A n \in 0 .. NPROC + 1 : n # 0 => n - 1 \in 0 .. NPROC + 1 /\ f[n - 1] \in met
    <2> HIDE DEF met
    <2> SUFFICES ASSUME NEW n \in 0 .. NPROC + 1, n # 0
                 PROVE  n - 1 \in 0 .. NPROC + 1 /\ f[n - 1] \in met
      OBVIOUS
    <2>1. n - 1 \in 0 .. NPROC + 1
      BY <1>1
    <2> QED BY <2>1, <1>3
  <1>5. \A n \in 0 .. NPROC + 1 :
          f[n] = IF n = 0 THEN HEAD
                 ELSE IF f[n - 1] \in Pids \cup {HEAD} THEN qt[f[n - 1]].next
                 ELSE f[n - 1]
    <2> HIDE DEF met, Follows
    <2> SUFFICES ASSUME NEW n \in 0 .. NPROC + 1, n # 0
                 PROVE  f[n] = IF f[n - 1] \in Pids \cup {HEAD} THEN qt[f[n - 1]].next
                               ELSE f[n - 1]
      BY <1>3
    <2>1. f[n] = step[f[n - 1]]
      BY <1>1, <1>3
    <2> QED BY <1>4, <2>1
  <1>6. Follows(f)
    <2> DEFINE h == [n \in 0 .. NPROC + 1 |->
                       IF n = 0 THEN HEAD
                       ELSE IF f[n - 1] \in Pids \cup {HEAD} THEN qt[f[n - 1]].next
                       ELSE f[n - 1]]
    <2>1. f \in [0 .. NPROC + 1 -> met] /\ \A n \in 0 .. NPROC + 1 : f[n] = h[n]
      BY <1>3, <1>5
    <2>2. f = [n \in 0 .. NPROC + 1 |-> f[n]]
      BY <1>3
    <2>3. f = h
      BY <2>1, <2>2
    <2> QED BY <2>3
  <1> DEFINE hop == Hops(qt)
  <1>7. Follows(hop)
    <2>1. hop = CHOOSE g : Follows(g)
      BY DEF Hops
    <2> HIDE DEF Follows
    <2> QED BY <1>6, <2>1
  <1>8. /\ hop = [n \in 0 .. NPROC + 1 |-> hop[n]]
        /\ \A n \in 0 .. NPROC + 1 :
              hop[n] = IF n = 0 THEN HEAD
                       ELSE IF hop[n - 1] \in Pids \cup {HEAD} THEN qt[hop[n - 1]].next
                       ELSE hop[n - 1]
    <2> HIDE DEF hop
    <2> QED BY <1>7
  <1> HIDE DEF hop
  <1> DEFINE S == {n \in Nat : n \in 0 .. NPROC + 1 => hop[n] \in met}
  <1>9. 0 \in S
    BY <1>1, <1>8
  <1>10. ASSUME NEW n \in Nat, n \in S PROVE n + 1 \in S
    <2> SUFFICES ASSUME n + 1 \in 0 .. NPROC + 1 PROVE hop[n + 1] \in met
      OBVIOUS
    <2>1. n \in 0 .. NPROC + 1 /\ hop[n] \in met /\ (n + 1) - 1 = n
      BY <1>1, <1>10
    <2>2. hop[n + 1] = IF hop[n] \in Pids \cup {HEAD} THEN qt[hop[n]].next ELSE hop[n]
      <3> HIDE DEF met, step, Follows, S
      <3>1. n + 1 # 0 /\ hop[(n + 1) - 1] = hop[n]
        BY <2>1
      <3> QED BY <1>8, <3>1
    <2> QED BY <2>1, <2>2, <1>1 DEF Linked
  <1>11. Nat \subseteq S
    <2> HIDE DEF S
    <2> QED BY <1>9, <1>10, SetInduction
  <1>12. \A n \in 0 .. NPROC + 1 : hop[n] \in met
    BY <1>1, <1>11
  <1>13. ASSUME NEW n \in 1 .. NPROC + 1
         PROVE  hop[n] = IF hop[n - 1] = TAIL THEN TAIL ELSE qt[hop[n - 1]].next
    <2>1. n \in 0 .. NPROC + 1 /\ n # 0 /\ n - 1 \in 0 .. NPROC + 1
      BY <1>1
    <2>2. hop[n - 1] \in met
      BY <1>12, <2>1
    <2> QED BY <2>1, <2>2, <1>1, <1>8
  <1>14. hop \in [0 .. NPROC + 1 -> met] /\ hop[0] = HEAD
    <2> HIDE DEF met, step, Follows, S
    <2>1. 0 \in 0 .. NPROC + 1
      BY <1>1
    <2>2. hop[0] = HEAD
      BY <1>8, <2>1
    <2> QED BY <1>8, <1>12, <2>2
  <1> QED BY <1>13, <1>14 DEF hop

\* Following the links of an ordered list reaches TAIL after every member, each
\* met once.
LEMMA ListedMembers ==
  ASSUME NEW qt \in Table, NEW members \in SUBSET Pids,
         Linked(qt, members), Ordered(qt, members)
  PROVE  WellFormed(qt) /\ Listed(qt) = members
  <1> DEFINE hop == Hops(qt)
             met == members \cup {HEAD, TAIL}
  <1>1. HEAD # TAIL /\ HEAD \notin Pids /\ TAIL \notin Pids /\ NPROC \in Nat
        /\ met \subseteq Entries
    BY NPROCAssumption DEF HEAD, TAIL, Pids, Entries
  <1>2. /\ hop \in [0 .. NPROC + 1 -> met]
        /\ hop[0] = HEAD
        /\ \A n \in 1 .. NPROC + 1 :
              hop[n] = IF hop[n - 1] = TAIL THEN TAIL ELSE qt[hop[n - 1]].next
    BY HopsFollow
  <1>3. PICK rank \in [Entries -> Nat] :
               \A e \in members \cup {HEAD} : rank[e] < rank[qt[e].next]
    BY DEF Ordered
  <1> HIDE DEF hop
  <1>4. \A n \in 0 .. NPROC + 1 : rank[hop[n]] \in Nat
    BY <1>1, <1>2
  <1> DEFINE Up(n) == hop[n] # TAIL =>
                        \A m \in 0 .. n - 1 : hop[m] # TAIL /\ rank[hop[m]] < rank[hop[n]]
             S == {n \in Nat : n \in 0 .. NPROC + 1 => Up(n)}
  <1>5. 0 \in S
    OBVIOUS
  <1>6. ASSUME NEW n \in Nat, n \in S PROVE n + 1 \in S
    <2> SUFFICES ASSUME n + 1 \in 0 .. NPROC + 1, hop[n + 1] # TAIL,
                        NEW m \in 0 .. (n + 1) - 1
                 PROVE  hop[m] # TAIL /\ rank[hop[m]] < rank[hop[n + 1]]
      OBVIOUS
    <2>1. /\ n \in 0 .. NPROC + 1 /\ n + 1 \in 1 .. NPROC + 1 /\ (n + 1) - 1 = n
          /\ m \in 0 .. NPROC + 1 /\ (m = n \/ m \in 0 .. n - 1)
      BY <1>1
    <2>2. hop[n] # TAIL /\ hop[n + 1] = qt[hop[n]].next
      BY <1>2, <2>1
    <2>3. hop[n] \in members \cup {HEAD}
      BY <1>2, <2>1, <2>2
    <2>4. rank[hop[n]] < rank[hop[n + 1]]
      BY <1>3, <2>2, <2>3
    <2>5. CASE m = n
      BY <2>2, <2>4, <2>5
    <2>6. CASE m \in 0 .. n - 1
      <3>1. hop[m] # TAIL /\ rank[hop[m]] < rank[hop[n]]
        BY <1>6, <2>1, <2>2, <2>6
      <3>2. rank[hop[m]] \in Nat /\ rank[hop[n]] \in Nat /\ rank[hop[n + 1]] \in Nat
        BY <1>4, <2>1
      <3> QED BY <2>4, <3>1, <3>2
    <2> QED BY <2>1, <2>5, <2>6
  <1>7. \A n \in 0 .. NPROC + 1 : Up(n)
    <2>1. Nat \subseteq S
      <3> HIDE DEF S
      <3> QED BY <1>5, <1>6, SetInduction
    <2> QED BY <2>1, <1>1
  <1>8. \A n \in 1 .. NPROC + 1 : hop[n] \in members \cup {TAIL}
    <2> SUFFICES ASSUME NEW n \in 1 .. NPROC + 1 PROVE hop[n] \in members \cup {TAIL}
      OBVIOUS
    <2>1. n - 1 \in 0 .. NPROC + 1
      BY <1>1
    <2>2. hop[n - 1] \in met
      BY <1>2, <2>1
    <2> QED BY <1>2, <2>2 DEF Linked
  <1>9. hop[NPROC + 1] = TAIL
    <2> SUFFICES ASSUME hop[NPROC + 1] # TAIL PROVE FALSE
      OBVIOUS
    <2>1. NPROC + 1 \in 0 .. NPROC + 1 /\ NPROC + 1 \in 1 .. NPROC + 1
      BY <1>1
    <2>2. \A n \in 1 .. NPROC + 1 : hop[n] # TAIL
      BY <1>1, <1>7, <2>1
    <2> DEFINE g == [n \in 1 .. NPROC + 1 |-> hop[n]]
    <2>3. g \in [1 .. NPROC + 1 -> Pids]
      BY <1>8, <2>2
    <2>4. /\ IsFiniteSet(1 .. NPROC + 1) /\ Cardinality(1 .. NPROC + 1) = NPROC + 1
          /\ IsFiniteSet(Pids) /\ Cardinality(Pids) = NPROC
      BY <1>1, NPROCAssumption, FS_Interval DEF Pids
    <2>5. PICK i, j \in 1 .. NPROC + 1 : i # j /\ g[i] = g[j]
      <3> DEFINE dom == 1 .. NPROC + 1
      <3>1. Cardinality(Pids) < Cardinality(dom) /\ IsFiniteSet(dom)
            /\ IsFiniteSet(Pids) /\ g \in [dom -> Pids]
        BY <1>1, <2>3, <2>4
      <3>2. \E i, j \in dom : i # j /\ g[i] = g[j]
        <4> HIDE DEF g, dom, Up, S, met
        <4> QED BY <3>1, FS_PigeonHole
      <3> QED BY <3>2
    <2>6. hop[i] = hop[j]
      BY <2>5
    <2>7. /\ i \in 0 .. NPROC + 1 /\ j \in 0 .. NPROC + 1
          /\ i \in 0 .. j - 1 \/ j \in 0 .. i - 1
      BY <1>1, <2>5
    <2>8. rank[hop[i]] < rank[hop[j]] \/ rank[hop[j]] < rank[hop[i]]
      BY <1>7, <2>2, <2>7
    <2> QED BY <1>4, <2>6, <2>7, <2>8
  <1> DEFINE listed == {hop[n] : n \in 1 .. NPROC} \cap Pids
  <1>10. listed \subseteq members
    <2>1. \A n \in 1 .. NPROC : hop[n] \in members \cup {TAIL}
      BY <1>1, <1>8
    <2> QED BY <1>1, <2>1
  <1>11. members \subseteq listed
    <2> DEFINE missed == members \ listed
               ranks  == {rank[e] : e \in missed}
    <2> SUFFICES ASSUME missed # {} PROVE FALSE
      OBVIOUS
    <2>1. ranks \in SUBSET Nat /\ ranks # {}
      BY <1>1
    <2>2. PICK k \in ranks : \A m \in ranks : k <= m
      <3> HIDE DEF ranks
      <3> QED BY <2>1, LeastMember
    <2>3. PICK e \in missed : rank[e] = k
      BY <2>2
    <2>4. qt[e].prev \in members \cup {HEAD} /\ qt[qt[e].prev].next = e
      BY <2>3 DEF Linked
    <2>5. rank[qt[e].prev] < rank[e]
      BY <1>3, <2>4
    <2>6. qt[e].prev \notin missed
      <3>1. rank[qt[e].prev] \in Nat /\ rank[e] \in Nat
        BY <1>1, <2>4
      <3>2. qt[e].prev \in missed => rank[e] <= rank[qt[e].prev]
        BY <2>2, <2>3
      <3> QED BY <2>5, <3>1, <3>2
    <2>7. PICK n \in 0 .. NPROC : hop[n] = qt[e].prev
      BY <1>1, <1>2, <2>4, <2>6
    <2>8. n + 1 \in 1 .. NPROC + 1 /\ (n + 1) - 1 = n
      BY <1>1
    <2>9. hop[n + 1] = e
      <3>1. hop[n] # TAIL
        BY <1>1, <2>4, <2>7
      <3> QED BY <1>2, <2>4, <2>7, <2>8, <3>1
    <2>10. n + 1 # NPROC + 1
      BY <1>1, <1>9, <2>3, <2>9
    <2>11. n + 1 \in 1 .. NPROC /\ e \in Pids
      BY <1>1, <2>3, <2>8, <2>10
    <2>12. e \in listed
      BY <2>9, <2>11
    <2> QED BY <2>3, <2>12
  <1> QED BY <1>9, <1>10, <1>11 DEF WellFormed, Listed, hop
-----------------------------------------------------------------------------
(* The list as a sequence.  s is the list of qt when its links go from HEAD *)
(* through the processes of s, in their order, to TAIL, and back.          *)

\* The entry at place i of the list s, the ends included.
Spot(s, i) == IF i = 0 THEN HEAD ELSE IF i = Len(s) + 1 THEN TAIL ELSE s[i]

Lists(qt, s) ==
    /\ s \in Seq(Pids)
    /\ \A i, j \in 1 .. Len(s) : s[i] = s[j] => i = j
    /\ \A i \in 0 .. Len(s) : /\ qt[Spot(s, i)].next = Spot(s, i + 1)
                              /\ qt[Spot(s, i + 1)].prev = Spot(s, i)

\* The places of a list hold different entries.
LEMMA SpotFacts ==
  ASSUME NEW qt, NEW s, Lists(qt, s)
  PROVE  /\ Len(s) \in Nat /\ DOMAIN s = 1 .. Len(s)
         /\ Spot(s, 0) = HEAD /\ Spot(s, Len(s) + 1) = TAIL
         /\ \A i \in 1 .. Len(s) : Spot(s, i) = s[i] /\ s[i] \in Pids
         /\ \A i \in 0 .. Len(s) + 1 : Spot(s, i) \in Entries
         /\ \A i, j \in 0 .. Len(s) + 1 : Spot(s, i) = Spot(s, j) => i = j
  <1>1. HEAD # TAIL /\ HEAD \notin Pids /\ TAIL \notin Pids
    BY NPROCAssumption DEF HEAD, TAIL, Pids
  <1>2. s \in Seq(Pids) /\ \A i, j \in 1 .. Len(s) : s[i] = s[j] => i = j
    BY DEF Lists
  <1>3. Len(s) \in Nat /\ DOMAIN s = 1 .. Len(s) /\ \A i \in 1 .. Len(s) : s[i] \in Pids
    BY <1>2
  <1>4. \A i \in 1 .. Len(s) : Spot(s, i) = s[i]
    BY <1>3 DEF Spot
  <1>5. Spot(s, 0) = HEAD /\ Spot(s, Len(s) + 1) = TAIL
    BY <1>3 DEF Spot
  <1>6. \A i \in 0 .. Len(s) + 1 : i = 0 \/ i = Len(s) + 1 \/ i \in 1 .. Len(s)
    BY <1>3
  <1>7. \A i \in 0 .. Len(s) + 1 : Spot(s, i) \in Entries
    BY <1>3, <1>4, <1>5, <1>6 DEF Entries
  <1>8. \A i, j \in 0 .. Len(s) + 1 : Spot(s, i) = Spot(s, j) => i = j
    BY <1>1, <1>2, <1>3, <1>4, <1>5, <1>6
  <1> QED BY <1>3, <1>4, <1>5, <1>7, <1>8

\* The list newqueue() makes is the empty sequence.
LEMMA NewqueueLists == Lists(newqueue, <<>>)
  <1>1. HEAD # TAIL /\ HEAD \in Entries /\ TAIL \in Entries
    BY NPROCAssumption DEF HEAD, TAIL, Entries
  <1>2. newqueue[HEAD].next = TAIL /\ newqueue[TAIL].prev = HEAD
    BY <1>1 DEF newqueue
  <1>3. \A i \in 0 .. Len(<<>>) : i = 0 /\ Spot(<<>>, i) = HEAD /\ Spot(<<>>, i + 1) = TAIL
    BY DEF Spot
  <1> QED BY <1>2, <1>3 DEF Lists

\* enqueue() appends.
LEMMA EnqueueLists ==
  ASSUME NEW qt \in Table, NEW s, Lists(qt, s),
         NEW st, NEW pid \in Pids, \A i \in 1 .. Len(s) : s[i] # pid, st[pid] # PRFREE
  PROVE  /\ enqueue(qt, st, pid) \in Table
         /\ Lists(enqueue(qt, st, pid), Append(s, pid))
  <1> DEFINE n   == Len(s)
             t   == Append(s, pid)
             last == Spot(s, n)
             new == enqueue(qt, st, pid)
  <1>1. HEAD # TAIL /\ HEAD \notin Pids /\ TAIL \notin Pids
    BY NPROCAssumption DEF HEAD, TAIL, Pids
  <1>2. /\ n \in Nat
        /\ Spot(s, 0) = HEAD /\ Spot(s, n + 1) = TAIL
        /\ \A i \in 1 .. n : Spot(s, i) = s[i] /\ s[i] \in Pids
        /\ \A i \in 0 .. n + 1 : Spot(s, i) \in Entries
        /\ \A i, j \in 0 .. n + 1 : Spot(s, i) = Spot(s, j) => i = j
    BY SpotFacts
  <1>3. /\ s \in Seq(Pids) /\ \A i, j \in 1 .. n : s[i] = s[j] => i = j
        /\ \A i \in 0 .. n : qt[Spot(s, i)].next = Spot(s, i + 1)
                             /\ qt[Spot(s, i + 1)].prev = Spot(s, i)
    BY DEF Lists
  <1>4. /\ t \in Seq(Pids) /\ Len(t) = n + 1
        /\ \A i \in 1 .. n : t[i] = s[i]
        /\ t[n + 1] = pid
    BY <1>2, <1>3
  <1>5. /\ \A i \in 0 .. n : Spot(t, i) = Spot(s, i)
        /\ Spot(t, n + 1) = pid /\ Spot(t, n + 2) = TAIL
    <2>1. \A i \in 0 .. n : i = 0 \/ i \in 1 .. n
      BY <1>2
    <2>2. n + 2 # 0 /\ n + 1 # 0 /\ n + 2 = (n + 1) + 1 /\ n + 1 # (n + 1) + 1
          /\ \A i \in 1 .. n : i # 0 /\ i # (n + 1) + 1
      BY <1>2
    <2>3. Spot(t, n + 1) = pid /\ Spot(t, n + 2) = TAIL
      BY <1>4, <2>2 DEF Spot
    <2>4. \A i \in 1 .. n : Spot(t, i) = s[i]
      BY <1>4, <2>2 DEF Spot
    <2>5. Spot(t, 0) = HEAD
      BY DEF Spot
    <2> QED BY <1>2, <2>1, <2>3, <2>4, <2>5
  <1>6. \A i \in 0 .. n + 1 : Spot(s, i) # pid
    <2>1. \A i \in 0 .. n + 1 : i = 0 \/ i = n + 1 \/ i \in 1 .. n
      BY <1>2
    <2> QED BY <1>1, <1>2, <2>1
  <1>7. qt[TAIL].prev = last /\ last \in Entries /\ last # TAIL /\ last # pid
    <2>1. n \in 0 .. n /\ n \in 0 .. n + 1 /\ n + 1 \in 0 .. n + 1 /\ n # n + 1
      BY <1>2
    <2> QED BY <1>2, <1>3, <1>6, <2>1
  <1>8. /\ new[pid] = [next |-> TAIL, prev |-> last]
        /\ new[last].next = pid /\ new[last].prev = qt[last].prev
        /\ new[TAIL].prev = pid
        /\ \A e \in Entries \ {pid, last, TAIL} : new[e] = qt[e]
        /\ new \in Table
    <2>1. new = [qt EXCEPT ![pid] = [next |-> TAIL, prev |-> last],
                           ![last].next = pid, ![TAIL].prev = pid]
      BY <1>7 DEF enqueue, isbadpid
    <2>2. pid \in Entries /\ TAIL \in Entries /\ pid # TAIL
      BY <1>1 DEF Entries
    <2> HIDE DEF new, last
    <2>3. new \in Table
      BY <1>7, <2>1, <2>2 DEF Table, Links, Entries
    <2> QED BY <1>7, <2>1, <2>2, <2>3 DEF Table
  <1>9. ASSUME NEW i \in 0 .. n + 1
        PROVE  new[Spot(t, i)].next = Spot(t, i + 1) /\ new[Spot(t, i + 1)].prev = Spot(t, i)
    <2>1. CASE i = n + 1
      <3>1. i + 1 = n + 2
        BY <2>1, <1>2
      <3> QED BY <2>1, <3>1, <1>5, <1>8
    <2>2. CASE i = n
      BY <2>2, <1>2, <1>5, <1>8
    <2>3. CASE i # n /\ i # n + 1
      <3>1. i \in 0 .. n /\ i + 1 \in 0 .. n /\ i \in 0 .. n + 1 /\ i + 1 \in 0 .. n + 1
            /\ n \in 0 .. n + 1 /\ n + 1 \in 0 .. n + 1 /\ i + 1 # n + 1
        BY <2>3, <1>2
      <3>2. Spot(s, i) \in Entries \ {pid, last, TAIL}
        BY <2>3, <3>1, <1>2, <1>6
      <3>3. new[Spot(s, i + 1)].prev = qt[Spot(s, i + 1)].prev
        <4>1. CASE i + 1 = n
          BY <4>1, <1>8
        <4>2. CASE i + 1 # n
          <5>1. Spot(s, i + 1) \in Entries \ {pid, last, TAIL}
            BY <4>2, <3>1, <1>2, <1>6
          <5> QED BY <5>1, <1>8
        <4> QED BY <4>1, <4>2
      <3> QED BY <3>1, <3>2, <3>3, <1>3, <1>5, <1>8, SMTT(20)
    <2> QED BY <2>1, <2>2, <2>3
  <1>10. \A i, j \in 1 .. n + 1 : t[i] = t[j] => i = j
    <2>1. \A i \in 1 .. n + 1 : i = n + 1 \/ i \in 1 .. n
      BY <1>2
    <2> QED BY <1>3, <1>4, <2>1
  <1> HIDE DEF t, new
  <1> QED BY <1>4, <1>8, <1>9, <1>10 DEF Lists, t, new

\* s with its k-th process taken out.
Skip(s, k) == [j \in 1 .. Len(s) - 1 |-> IF j < k THEN s[j] ELSE s[j + 1]]

\* remove() of the k-th process takes it out and keeps the order of the others;
\* its own links stay as they are, and no list of the others reads them.
LEMMA RemoveLists ==
  ASSUME NEW qt \in Table, NEW s, Lists(qt, s), NEW k \in 1 .. Len(s),
         NEW st, st[s[k]] # PRFREE
  PROVE  /\ Lists(remove(qt, st, s[k]), Skip(s, k))
         /\ \A i \in 1 .. Len(Skip(s, k)) : Skip(s, k)[i] # s[k]
  <1> DEFINE n   == Len(s)
             t   == Skip(s, k)
             pid == s[k]
             pre == Spot(s, k - 1)
             suc == Spot(s, k + 1)
             new == remove(qt, st, pid)
  <1>1. /\ n \in Nat
        /\ Spot(s, 0) = HEAD /\ Spot(s, n + 1) = TAIL
        /\ \A i \in 1 .. n : Spot(s, i) = s[i] /\ s[i] \in Pids
        /\ \A i \in 0 .. n + 1 : Spot(s, i) \in Entries
        /\ \A i, j \in 0 .. n + 1 : Spot(s, i) = Spot(s, j) => i = j
    BY SpotFacts
  <1>2. /\ \A i, j \in 1 .. n : s[i] = s[j] => i = j
        /\ \A i \in 0 .. n : qt[Spot(s, i)].next = Spot(s, i + 1)
                             /\ qt[Spot(s, i + 1)].prev = Spot(s, i)
    BY DEF Lists
  <1>3. /\ n - 1 \in Nat /\ k \in 1 .. n /\ k \in 0 .. n /\ k - 1 \in 0 .. n
        /\ (k - 1) + 1 = k /\ k - 1 \in 0 .. n + 1 /\ k + 1 \in 0 .. n + 1
    BY <1>1
  <1>4. /\ t \in Seq(Pids) /\ Len(t) = n - 1
        /\ \A i \in 1 .. n - 1 : t[i] = IF i < k THEN s[i] ELSE s[i + 1]
    <2>1. \A i \in 1 .. n - 1 : i \in 1 .. n /\ i + 1 \in 1 .. n
      BY <1>1
    <2>2. t \in [1 .. n - 1 -> Pids]
      BY <1>1, <2>1 DEF Skip
    <2>3. t \in Seq(Pids) /\ Len(t) = n - 1
      <3> HIDE DEF t
      <3> QED BY <1>3, <2>2, FunctionIsSeq
    <2> QED BY <2>3 DEF Skip
  <1>5. \A i \in 0 .. n : Spot(t, i) = IF i < k THEN Spot(s, i) ELSE Spot(s, i + 1)
    <2> SUFFICES ASSUME NEW i \in 0 .. n
                 PROVE  Spot(t, i) = IF i < k THEN Spot(s, i) ELSE Spot(s, i + 1)
      OBVIOUS
    <2>1. CASE i = 0
      BY <2>1, <1>1, <1>3 DEF Spot
    <2>2. CASE i = n /\ i # 0
      <3>1. Spot(t, n) = TAIL
        BY <2>2, <1>3, <1>4 DEF Spot
      <3>2. ~ (n < k)
        BY <1>3
      <3> QED BY <2>2, <3>1, <3>2, <1>1
    <2>3. CASE i \in 1 .. n - 1
      <3>1. Spot(t, i) = t[i]
        BY <2>3, <1>4 DEF Spot
      <3>2. i \in 1 .. n /\ i + 1 \in 1 .. n
        BY <2>3, <1>3
      <3> QED BY <2>3, <3>1, <3>2, <1>1, <1>4
    <2>4. i = 0 \/ (i = n /\ i # 0) \/ i \in 1 .. n - 1
      BY <1>3
    <2> QED BY <2>1, <2>2, <2>3, <2>4
  <1>6. /\ pid \in Pids /\ Spot(s, k) = pid
        /\ qt[pid].prev = pre /\ qt[pid].next = suc
        /\ pre \in Entries /\ suc \in Entries
    <2>1. qt[Spot(s, k)].next = Spot(s, k + 1)
      BY <1>2, <1>3
    <2>2. qt[Spot(s, (k - 1) + 1)].prev = Spot(s, k - 1)
      BY <1>2, <1>3
    <2> QED BY <1>1, <1>3, <2>1, <2>2
  <1>7. /\ new[pre].next = suc /\ new[suc].prev = pre
        /\ \A e \in Entries : e # pre => new[e].next = qt[e].next
        /\ \A e \in Entries : e # suc => new[e].prev = qt[e].prev
    <2>1. new = [qt EXCEPT ![pre].next = suc, ![suc].prev = pre]
      BY <1>6 DEF remove, isbadpid
    <2> HIDE DEF new, pre, suc
    <2> QED BY <1>6, <2>1 DEF Table
  <1>8. ASSUME NEW i \in 0 .. n - 1
        PROVE  new[Spot(t, i)].next = Spot(t, i + 1) /\ new[Spot(t, i + 1)].prev = Spot(t, i)
    <2>1. i \in 0 .. n /\ i + 1 \in 0 .. n /\ i \in 0 .. n + 1 /\ i + 1 \in 0 .. n + 1
          /\ i + 2 \in 0 .. n + 1 /\ (i + 1) + 1 = i + 2
      BY <1>1
    <2>2. CASE i + 1 < k
      <3>1. Spot(t, i) = Spot(s, i) /\ Spot(t, i + 1) = Spot(s, i + 1)
        BY <2>1, <2>2, <1>5
      <3>2. i # k - 1 /\ i + 1 # k + 1
        BY <2>2
      <3>3. Spot(s, i) # pre /\ Spot(s, i + 1) # suc
        BY <3>2, <2>1, <1>1, <1>3
      <3> QED BY <3>1, <3>3, <2>1, <1>1, <1>2, <1>7, SMTT(20)
    <2>3. CASE i + 1 = k
      <3>1. Spot(t, i) = pre /\ Spot(t, i + 1) = suc
        BY <2>1, <2>3, <1>5
      <3> QED BY <3>1, <1>7
    <2>4. CASE i + 1 > k
      <3>1. Spot(t, i) = Spot(s, i + 1) /\ Spot(t, i + 1) = Spot(s, i + 2)
        BY <2>1, <2>4, <1>5
      <3>2. i + 1 # k - 1 /\ i + 2 # k + 1
        BY <2>4
      <3>3. Spot(s, i + 1) # pre /\ Spot(s, i + 2) # suc
        BY <3>2, <2>1, <1>1, <1>3
      <3>4. qt[Spot(s, i + 1)].next = Spot(s, i + 2) /\ qt[Spot(s, i + 2)].prev = Spot(s, i + 1)
        BY <2>1, <1>2
      <3> QED BY <3>1, <3>3, <3>4, <2>1, <1>1, <1>7
    <2> QED BY <2>2, <2>3, <2>4
  <1>9. \A i \in 1 .. n - 1 : t[i] # pid /\ \A j \in 1 .. n - 1 : t[i] = t[j] => i = j
    <2>1. \A i \in 1 .. n - 1 : i \in 1 .. n /\ i + 1 \in 1 .. n
      BY <1>1
    <2> HIDE DEF t
    <2> QED BY <1>2, <1>3, <1>4, <2>1
  <1> HIDE DEF t, new
  <1> QED BY <1>4, <1>8, <1>9 DEF Lists, t, new

\* dequeue() takes the first process, or finds the list empty.
LEMMA DequeueLists ==
  ASSUME NEW qt \in Table, NEW s, Lists(qt, s),
         NEW st, \A i \in 1 .. Len(s) : st[s[i]] # PRFREE
  PROVE  /\ s = <<>> => dequeued(qt) = EMPTY /\ dequeue(qt, st) = qt
         /\ s # <<>> => dequeued(qt) = Head(s) /\ Lists(dequeue(qt, st), Tail(s))
  <1>1. /\ Len(s) \in Nat
        /\ Spot(s, 0) = HEAD /\ Spot(s, Len(s) + 1) = TAIL
        /\ \A i \in 1 .. Len(s) : Spot(s, i) = s[i] /\ s[i] \in Pids
    BY SpotFacts
  <1>2. s \in Seq(Pids) /\ qt[HEAD].next = Spot(s, 1)
    BY <1>1 DEF Lists
  <1>3. CASE s = <<>>
    <2>1. qt[HEAD].next = TAIL
      BY <1>3, <1>1, <1>2
    <2>2. ~nonempty(qt)
      BY <2>1, NPROCAssumption DEF nonempty, firstid, TAIL
    <2> QED BY <1>3, <2>2 DEF dequeued, dequeue
  <1>4. CASE s # <<>>
    <2> DEFINE pid == s[1]
               mid == remove(qt, st, pid)
               new == dequeue(qt, st)
               t   == Skip(s, 1)
    <2>1. 1 \in 1 .. Len(s) /\ pid \in Pids /\ qt[HEAD].next = pid /\ Head(s) = pid
      BY <1>1, <1>2, <1>4
    <2>2. nonempty(qt)
      BY <2>1, NPROCAssumption DEF nonempty, firstid, Pids
    <2>3. dequeued(qt) = pid /\ new = [mid EXCEPT ![pid] = [next |-> pid, prev |-> pid]]
      BY <2>1, <2>2 DEF dequeued, dequeue, firstid
    <2>4. Lists(mid, t) /\ \A i \in 1 .. Len(t) : t[i] # pid
      BY <2>1, RemoveLists
    <2>5. t = Tail(s)
      <3>1. /\ Tail(s) \in Seq(Pids) /\ Len(Tail(s)) = Len(s) - 1
            /\ \A i \in 1 .. Len(s) - 1 : Tail(s)[i] = s[i + 1]
        BY <1>2, <1>4, HeadTailProperties
      <3>2. t \in Seq(Pids) /\ Len(t) = Len(s) - 1
        <4>1. \A i \in 1 .. Len(s) - 1 : i + 1 \in 1 .. Len(s)
          BY <1>1
        <4>2. t \in [1 .. Len(s) - 1 -> Pids]
          BY <1>1, <4>1 DEF Skip
        <4>3. Len(s) - 1 \in Nat
          BY <1>1, <2>1
        <4> HIDE DEF t
        <4> QED BY <4>2, <4>3, FunctionIsSeq
      <3>3. \A i \in 1 .. Len(s) - 1 : t[i] = Tail(s)[i]
        BY <3>1 DEF Skip
      <3> HIDE DEF t
      <3> QED BY <3>1, <3>2, <3>3, SeqEqual
    <2>6. \A e \in Entries \ {pid} : new[e] = mid[e]
      <3>1. mid = [e \in Entries |-> mid[e]]
        BY <2>1 DEF remove, isbadpid, Table
      <3> QED BY <2>3, <3>1
    <2>7. \A i \in 0 .. Len(t) + 1 : Spot(t, i) \in Entries \ {pid}
      <3>1. HEAD \notin Pids /\ TAIL \notin Pids
        BY NPROCAssumption DEF HEAD, TAIL, Pids
      <3>2. /\ Len(t) \in Nat /\ Spot(t, 0) = HEAD /\ Spot(t, Len(t) + 1) = TAIL
            /\ \A i \in 1 .. Len(t) : Spot(t, i) = t[i]
            /\ \A i \in 0 .. Len(t) + 1 : Spot(t, i) \in Entries
        BY <2>4, SpotFacts
      <3>3. \A i \in 0 .. Len(t) + 1 : i = 0 \/ i = Len(t) + 1 \/ i \in 1 .. Len(t)
        BY <3>2
      <3>4. HEAD # pid /\ TAIL # pid
        BY <2>1, <3>1
      <3> HIDE DEF t, pid
      <3> QED BY <2>4, <3>2, <3>3, <3>4
    <2>8. \A i \in 0 .. Len(t) : i \in 0 .. Len(t) + 1 /\ i + 1 \in 0 .. Len(t) + 1
      <3>1. Len(t) \in Nat
        BY <2>4, SpotFacts
      <3> QED BY <3>1
    <2>9. Lists(new, t)
      <3> HIDE DEF t, mid, new, pid
      <3> QED BY <2>4, <2>6, <2>7, <2>8 DEF Lists
    <2> QED BY <1>4, <2>1, <2>3, <2>5, <2>9
  <1> QED BY <1>3, <1>4

\* The processes of a list are as many as its places.
LEMMA ListCount ==
  ASSUME NEW s \in Seq(Pids), \A i, j \in 1 .. Len(s) : s[i] = s[j] => i = j
  PROVE  /\ Cardinality({s[i] : i \in 1 .. Len(s)}) = Len(s)
         /\ Len(s) <= NPROC
  <1> DEFINE dom == 1 .. Len(s)
             ran == {s[i] : i \in dom}
  <1>1. Len(s) \in Nat /\ s \in [dom -> Pids] /\ s \in [dom -> ran]
    BY LenProperties
  <1>2. IsFiniteSet(dom) /\ Cardinality(dom) = Len(s)
    <2>1. Len(s) \in Nat
      BY <1>1
    <2>2. \A n \in Nat : IsFiniteSet(1 .. n) /\ Cardinality(1 .. n) = n
      BY FS_Interval
    <2> QED BY <2>1, <2>2
  <1>3. IsFiniteSet(Pids) /\ Cardinality(Pids) = NPROC
    BY NPROCAssumption, FS_Interval DEF Pids
  <1>4. IsFiniteSet(ran) /\ Cardinality(ran) <= Cardinality(Pids)
    <2>1. ran \in SUBSET Pids
      BY <1>1
    <2> HIDE DEF ran
    <2> QED BY <1>3, <2>1, FS_Subset
  <1>5. s \in Injection(dom, ran) /\ s \in Surjection(dom, ran)
    BY <1>1 DEF Injection, IsInjective, Surjection
  <1>6. Cardinality(dom) = Cardinality(ran)
    <2> HIDE DEF dom, ran
    <2> QED BY <1>4, <1>5, FS_Injection
  <1> QED BY <1>2, <1>3, <1>4, <1>6

\* ReadySeq() reads the list as it is.
LEMMA ReadySeqReads ==
  ASSUME NEW qt \in Table, NEW members \in SUBSET Pids, Linked(qt, members),
         NEW s, Lists(qt, s)
  PROVE  /\ ReadySeq(qt) = s
         /\ Listed(qt) = {s[i] : i \in 1 .. Len(s)}
  <1> DEFINE n   == Len(s)
             hop == Hops(qt)
             ran == {s[i] : i \in 1 .. n}
  <1>1. /\ n \in Nat
        /\ Spot(s, 0) = HEAD /\ Spot(s, n + 1) = TAIL
        /\ \A i \in 1 .. n : Spot(s, i) = s[i] /\ s[i] \in Pids
        /\ \A i, j \in 0 .. n + 1 : Spot(s, i) = Spot(s, j) => i = j
    BY SpotFacts
  <1>2. /\ s \in Seq(Pids) /\ \A i, j \in 1 .. n : s[i] = s[j] => i = j
        /\ \A i \in 0 .. n : qt[Spot(s, i)].next = Spot(s, i + 1)
    BY DEF Lists
  <1>3. n <= NPROC /\ NPROC \in Nat /\ n \in Nat
    BY <1>1, <1>2, ListCount, NPROCAssumption
  <1>card. Cardinality(ran) = n
    BY <1>2, ListCount
  <1>4. /\ hop[0] = HEAD
        /\ \A i \in 1 .. NPROC + 1 :
              hop[i] = IF hop[i - 1] = TAIL THEN TAIL ELSE qt[hop[i - 1]].next
    BY HopsFollow
  <1> HIDE DEF hop
  <1> DEFINE At(i) == hop[i] = IF i <= n THEN Spot(s, i) ELSE TAIL
             S == {i \in Nat : i \in 0 .. NPROC + 1 => At(i)}
  <1>5. 0 \in S
    BY <1>1, <1>4
  <1>6. ASSUME NEW i \in Nat, i \in S PROVE i + 1 \in S
    <2> SUFFICES ASSUME i + 1 \in 0 .. NPROC + 1 PROVE At(i + 1)
      OBVIOUS
    <2>1. i \in 0 .. NPROC + 1 /\ i + 1 \in 1 .. NPROC + 1 /\ (i + 1) - 1 = i
      BY <1>3
    <2>2. At(i) /\ hop[i + 1] = IF hop[i] = TAIL THEN TAIL ELSE qt[hop[i]].next
      BY <1>4, <1>6, <2>1
    <2>3. CASE i <= n
      <3>1. i \in 0 .. n /\ i \in 0 .. n + 1 /\ n + 1 \in 0 .. n + 1 /\ i # n + 1
        BY <2>3, <1>1
      <3>2. hop[i] # TAIL
        BY <2>2, <2>3, <3>1, <1>1
      <3>3. hop[i + 1] = Spot(s, i + 1)
        BY <1>2, <2>2, <2>3, <3>1, <3>2
      <3>4. i + 1 <= n \/ i = n
        BY <2>3, <1>1
      <3> QED BY <1>1, <3>3, <3>4
    <2>4. CASE i > n
      BY <2>2, <2>4, <1>1
    <2> QED BY <2>3, <2>4, <1>1
  <1>7. \A i \in 0 .. NPROC + 1 : At(i)
    <2>1. Nat \subseteq S
      <3> HIDE DEF S
      <3> QED BY <1>5, <1>6, SetInduction
    <2> QED BY <2>1, <1>3
  <1>8. \A i \in 1 .. n : i \in 1 .. NPROC /\ hop[i] = s[i]
    <2>1. \A i \in 1 .. n : i \in 1 .. NPROC /\ i \in 0 .. NPROC + 1 /\ i <= n
      BY <1>1, <1>3
    <2> QED BY <1>1, <1>7, <2>1
  <1>9. \A i \in 1 .. NPROC : i \in 1 .. n \/ hop[i] = TAIL
    BY <1>1, <1>3, <1>7
  <1>10. TAIL \notin Pids
    BY NPROCAssumption DEF TAIL, Pids
  <1>11. Listed(qt) = ran
    <2>1. ran \subseteq {hop[i] : i \in 1 .. NPROC} \cap Pids
      BY <1>1, <1>8
    <2>2. {hop[i] : i \in 1 .. NPROC} \cap Pids \subseteq ran
      <3> SUFFICES ASSUME NEW i \in 1 .. NPROC, hop[i] \in Pids PROVE hop[i] \in ran
        OBVIOUS
      <3> QED BY <1>8, <1>9, <1>10
    <2> QED BY <2>1, <2>2 DEF Listed, hop
  <1>12. ReadySeq(qt) = s
    <2>1. ReadySeq(qt) = [i \in 1 .. n |-> hop[i]]
      BY <1>card, <1>11 DEF ReadySeq, hop
    <2>2. s \in [1 .. n -> Pids]
      BY <1>2, LenProperties
    <2> QED BY <1>8, <2>1, <2>2
  <1> QED BY <1>11, <1>12

-----------------------------------------------------------------------------
(* The scheduler.                                                          *)

\* Process ids are finitely many numbers; NULLPROC is one, the special values are not.
LEMMA PidFacts ==
  /\ NPROC \in Nat /\ NULLPROC \in Pids
  /\ EMPTY \notin Pids /\ SYSERR \notin Pids /\ NotYet \notin Pids
  /\ NotYet # SYSERR
  /\ IsFiniteSet(Pids)
  <1>1. IsFiniteSet(0 .. NPROC - 1)
    BY NPROCAssumption, FS_Interval
  <1> QED BY <1>1, NPROCAssumption DEF NULLPROC, Pids, EMPTY, SYSERR, NotYet

\* The slots in use, for any process states.
Live(st) == {p \in Pids : st[p] # PRFREE}

\* The slots in use are finitely many.
LEMMA LiveCount ==
  /\ Live(state) = Pids \ InState(PRFREE)
  /\ IsFiniteSet(Live(state)) /\ Cardinality(Live(state)) \in Nat
  <1>1. Live(state) = Pids \ InState(PRFREE)
    BY DEF Live, InState
  <1>2. IsFiniteSet(Live(state))
    BY PidFacts, FS_Subset DEF Live
  <1> QED BY <1>1, <1>2, FS_CardinalityType

\* resched() leaves a well linked list and exactly one running process, and
\* frees or allocates no slot.
LEMMA ReschedPreserves ==
  ASSUME NEW st \in [Pids -> States], NEW qt \in Table, currpid \in Pids,
         Linked(qt, {p \in Pids : st[p] = PRREADY}),
         {p \in Pids : st[p] = PRCURR} \subseteq {currpid},
         resched(st, qt)
  PROVE  /\ state' \in [Pids -> States] /\ queuetab' \in Table
         /\ currpid' \in Pids \cup {EMPTY}
         /\ ReadyLinked' /\ CurrUnique'
         /\ Live(state') = Live(st)
         /\ \A p \in Pids : st[p] = PRSUSP => state'[p] = PRSUSP
         /\ \A p \in Pids : st[p] \in {PRCURR, PRREADY} => state'[p] \in {PRCURR, PRREADY}
  <1> DEFINE again == st[currpid] = PRCURR
             st1 == IF again THEN [st EXCEPT ![currpid] = PRREADY] ELSE st
             qt1 == IF again THEN enqueue(qt, st1, currpid) ELSE qt
             members == {p \in Pids : st1[p] = PRREADY}
             new == dequeued(qt1)
  <1>0. PRFREE # PRCURR /\ PRFREE # PRSUSP /\ PRFREE # PRREADY
        /\ PRCURR # PRSUSP /\ PRCURR # PRREADY /\ PRSUSP # PRREADY
    BY DEF PRFREE, PRCURR, PRSUSP, PRREADY
  <1>1. st1 \in [Pids -> States] /\ \A p \in Pids : st1[p] # PRCURR
    BY <1>0 DEF States
  <1>2. qt1 \in Table /\ Linked(qt1, members)
    <2>1. CASE again
      <3>1. members = {p \in Pids : st[p] = PRREADY} \cup {currpid}
        BY <2>1, <1>0
      <3>2. currpid \notin {p \in Pids : st[p] = PRREADY} /\ st1[currpid] # PRFREE
        BY <2>1, <1>0
      <3>3. enqueue(qt, st1, currpid) \in Table
            /\ Linked(enqueue(qt, st1, currpid), {p \in Pids : st[p] = PRREADY} \cup {currpid})
        BY <3>2, EnqueueLinked
      <3> QED BY <2>1, <3>1, <3>3
    <2>2. CASE ~again
      BY <2>2
    <2> QED BY <2>1, <2>2
  <1>3. /\ dequeue(qt1, st1) \in Table
        /\ new \in members \cup {EMPTY}
        /\ Linked(dequeue(qt1, st1), members \ {new})
    <2>1. \A p \in members : st1[p] # PRFREE
      BY <1>0
    <2> QED BY <1>2, <2>1, DequeueLinked
  <1>4. /\ currpid' = new
        /\ state' = [p \in Pids |-> IF p = new THEN PRCURR ELSE st1[p]]
        /\ queuetab' = dequeue(qt1, st1)
    BY DEF resched
  <1>5. state' \in [Pids -> States]
    BY <1>1, <1>4 DEF States
  <1>6. {p \in Pids : state'[p] = PRREADY} = members \ {new}
    BY <1>0, <1>4
  <1>7. {p \in Pids : state'[p] = PRCURR} = IF new = EMPTY THEN {} ELSE {new}
    BY <1>1, <1>3, <1>4, PidFacts
  <1>8. ReadyLinked'
    BY <1>3, <1>4, <1>6 DEF ReadyLinked, InState
  <1>9. CurrUnique'
    BY <1>4, <1>7 DEF CurrUnique, InState
  <1>pointwise. ASSUME NEW p \in Pids
         PROVE  /\ st1[p] = IF again /\ p = currpid THEN PRREADY ELSE st[p]
                /\ state'[p] = IF p = new THEN PRCURR ELSE st1[p]
                /\ p = new => st1[p] = PRREADY
    <2>1. p = new => p \in members
      BY <1>3, PidFacts
    <2> QED BY <1>4, <2>1
  <1>10. \A p \in Pids : st[p] # PRFREE <=> state'[p] # PRFREE
    BY <1>0, <1>pointwise
  <1>11. \A p \in Pids : st[p] = PRSUSP => state'[p] = PRSUSP
    BY <1>0, <1>pointwise
  <1>12. \A p \in Pids : st[p] \in {PRCURR, PRREADY} => state'[p] \in {PRCURR, PRREADY}
    BY <1>0, <1>4
  <1>13. Live(state') = Live(st)
    BY <1>10 DEF Live
  <1>14. currpid' \in Pids \cup {EMPTY} /\ queuetab' \in Table
    BY <1>3, <1>4
  <1> QED BY <1>5, <1>8, <1>9, <1>11, <1>12, <1>13, <1>14

\* ready() of a suspended process, called while another process runs.
LEMMA ReadyPreserves ==
  ASSUME IInv, currpid \in Pids, NEW pid \in Pids, state[pid] = PRSUSP,
         NEW resch \in BOOLEAN, ready(pid, resch)
  PROVE  /\ state' \in [Pids -> States] /\ queuetab' \in Table
         /\ currpid' \in Pids \cup {EMPTY}
         /\ ReadyLinked' /\ CurrUnique'
         /\ Live(state') = Live(state)
         /\ ~resch => currpid' = currpid /\ state' = [state EXCEPT ![pid] = PRREADY]
  <1> DEFINE st1 == [state EXCEPT ![pid] = PRREADY]
             qt1 == enqueue(queuetab, st1, pid)
  <1>0. PRFREE # PRCURR /\ PRFREE # PRSUSP /\ PRFREE # PRREADY
        /\ PRCURR # PRSUSP /\ PRCURR # PRREADY /\ PRSUSP # PRREADY
    BY DEF PRFREE, PRCURR, PRSUSP, PRREADY
  <1>1. /\ state \in [Pids -> States] /\ queuetab \in Table
        /\ Linked(queuetab, InState(PRREADY))
        /\ InState(PRCURR) = {currpid}
    BY PidFacts DEF IInv, TypeOK, ReadyLinked, CurrUnique
  <1>2. st1 \in [Pids -> States] /\ st1[pid] # PRFREE
    BY <1>0, <1>1 DEF States
  <1>3. InState(PRREADY) \in SUBSET Pids /\ pid \in Pids \ InState(PRREADY)
    BY <1>0 DEF InState
  <1>4. qt1 \in Table /\ Linked(qt1, InState(PRREADY) \cup {pid})
    BY <1>1, <1>2, <1>3, EnqueueLinked
  <1>5. {p \in Pids : st1[p] = PRREADY} = InState(PRREADY) \cup {pid}
    BY <1>1 DEF InState
  <1>6. {p \in Pids : st1[p] = PRCURR} = {currpid}
    BY <1>0, <1>1 DEF InState
  <1>7. Live(st1) = Live(state)
    BY <1>0, <1>1 DEF Live
  <1>8. CASE resch
    <2>1. resched(st1, qt1)
      BY <1>8 DEF ready
    <2> QED BY <1>2, <1>4, <1>5, <1>6, <1>7, <1>8, <2>1, ReschedPreserves
  <1>9. CASE ~resch
    <2>1. state' = st1 /\ queuetab' = qt1 /\ currpid' = currpid
      BY <1>9 DEF ready
    <2>2. ReadyLinked'
      BY <2>1, <1>4, <1>5 DEF ReadyLinked, InState
    <2>3. CurrUnique'
      BY <2>1, <1>6, PidFacts DEF CurrUnique, InState
    <2> QED BY <1>2, <1>4, <1>7, <2>1, <2>2, <2>3
  <1> QED BY <1>8, <1>9

\* kill(currpid) frees one slot, counts it, and reschedules.
LEMMA KillselfPreserves ==
  ASSUME IInv, currpid \in Pids, killself
  PROVE  /\ state' \in [Pids -> States] /\ queuetab' \in Table
         /\ currpid' \in Pids \cup {EMPTY} /\ numproc' \in Int
         /\ ReadyLinked' /\ CurrUnique' /\ NumprocExact'
         /\ \A p \in Pids \ {currpid} :
               state[p] \in {PRCURR, PRREADY} => state'[p] \in {PRCURR, PRREADY}
  <1> DEFINE st1 == [state EXCEPT ![currpid] = PRFREE]
  <1>0. PRFREE # PRCURR /\ PRFREE # PRSUSP /\ PRFREE # PRREADY
        /\ PRCURR # PRSUSP /\ PRCURR # PRREADY /\ PRSUSP # PRREADY
    BY DEF PRFREE, PRCURR, PRSUSP, PRREADY
  <1>1. /\ state \in [Pids -> States] /\ queuetab \in Table
        /\ Linked(queuetab, InState(PRREADY))
        /\ InState(PRCURR) = {currpid}
        /\ numproc = Cardinality(Live(state))
    BY PidFacts, LiveCount DEF IInv, TypeOK, ReadyLinked, CurrUnique, NumprocExact
  <1>2. st1 \in [Pids -> States]
    BY <1>1 DEF States
  <1>3. state[currpid] = PRCURR
    BY <1>1 DEF InState
  <1>4. {p \in Pids : st1[p] = PRREADY} = InState(PRREADY)
    BY <1>0, <1>1, <1>3 DEF InState
  <1>5. {p \in Pids : st1[p] = PRCURR} \subseteq {currpid}
    BY <1>0, <1>1 DEF InState
  <1>6. resched(st1, queuetab) /\ numproc' = numproc - 1
    BY DEF killself
  <1>7. /\ state' \in [Pids -> States] /\ queuetab' \in Table
        /\ currpid' \in Pids \cup {EMPTY}
        /\ ReadyLinked' /\ CurrUnique'
        /\ Live(state') = Live(st1)
        /\ \A p \in Pids : st1[p] \in {PRCURR, PRREADY} => state'[p] \in {PRCURR, PRREADY}
    <2>1. Linked(queuetab, {p \in Pids : st1[p] = PRREADY})
      BY <1>1, <1>4
    <2> QED BY <1>1, <1>2, <1>5, <1>6, <2>1, ReschedPreserves
  <1>8. Live(st1) = Live(state) \ {currpid} /\ currpid \in Live(state)
    BY <1>0, <1>1, <1>3 DEF Live
  <1>9. Cardinality(Live(state) \ {currpid}) = Cardinality(Live(state)) - 1
    BY <1>8, LiveCount, FS_RemoveElement
  <1>10. numproc' = Cardinality(Live(state)')
    BY <1>1, <1>6, <1>7, <1>8, <1>9 DEF Live
  <1>11. NumprocExact' /\ numproc' \in Int
    <2>1. (Live(state) = Pids \ InState(PRFREE))'
      BY DEF Live, InState
    <2> QED BY <1>1, <1>6, <1>10, <2>1, LiveCount DEF NumprocExact
  <1>12. \A p \in Pids \ {currpid} : st1[p] = state[p]
    BY <1>1
  <1> QED BY <1>7, <1>11, <1>12

\* kill() of a process that does not run: suspended or on the list.
LEMMA KillotherPreserves ==
  ASSUME IInv, currpid \in Pids, NEW pid \in Pids \ {currpid},
         state[pid] # PRFREE, killother(pid)
  PROVE  /\ state' \in [Pids -> States] /\ queuetab' \in Table
         /\ currpid' = currpid /\ numproc' \in Int
         /\ ReadyLinked' /\ CurrUnique' /\ NumprocExact'
  <1>0. PRFREE # PRCURR /\ PRFREE # PRSUSP /\ PRFREE # PRREADY
        /\ PRCURR # PRSUSP /\ PRCURR # PRREADY /\ PRSUSP # PRREADY
    BY DEF PRFREE, PRCURR, PRSUSP, PRREADY
  <1>1. /\ state \in [Pids -> States] /\ queuetab \in Table
        /\ Linked(queuetab, InState(PRREADY))
        /\ InState(PRCURR) = {currpid}
        /\ numproc = Cardinality(Live(state))
    BY PidFacts, LiveCount DEF IInv, TypeOK, ReadyLinked, CurrUnique, NumprocExact
  <1>2. /\ numproc' = numproc - 1 /\ currpid' = currpid
        /\ state' = [state EXCEPT ![pid] = PRFREE]
        /\ queuetab' = IF state[pid] = PRREADY THEN remove(queuetab, state, pid)
                       ELSE queuetab
    BY DEF killother
  <1>3. state' \in [Pids -> States]
    BY <1>1, <1>2 DEF States
  <1>4. InState(PRREADY)' = InState(PRREADY) \ {pid}
    BY <1>0, <1>1, <1>2 DEF InState
  <1>5. queuetab' \in Table /\ Linked(queuetab', InState(PRREADY) \ {pid})
    <2>1. CASE state[pid] = PRREADY
      <3>1. pid \in InState(PRREADY) /\ InState(PRREADY) \in SUBSET Pids
        BY <2>1 DEF InState
      <3> QED BY <1>1, <1>2, <2>1, <3>1, RemoveLinked
    <2>2. CASE state[pid] # PRREADY
      <3>1. InState(PRREADY) \ {pid} = InState(PRREADY)
        BY <2>2 DEF InState
      <3> QED BY <1>1, <1>2, <2>2, <3>1
    <2> QED BY <2>1, <2>2
  <1>6. ReadyLinked'
    BY <1>4, <1>5 DEF ReadyLinked
  <1>7. CurrUnique'
    <2>1. InState(PRCURR)' = {currpid}
      BY <1>0, <1>1, <1>2 DEF InState
    <2> QED BY <2>1, <1>2, PidFacts DEF CurrUnique
  <1>8. (Live(state))' = Live(state) \ {pid} /\ pid \in Live(state)
    BY <1>1, <1>2 DEF Live
  <1>9. Cardinality(Live(state) \ {pid}) = Cardinality(Live(state)) - 1
    BY <1>8, LiveCount, FS_RemoveElement
  <1>10. NumprocExact' /\ numproc' \in Int
    <2>1. (Live(state) = Pids \ InState(PRFREE))'
      BY DEF Live, InState
    <2>2. numproc' = Cardinality(Live(state)')
      BY <1>1, <1>2, <1>8, <1>9
    <2>3. numproc' \in Int
      BY <1>1, <1>2, LiveCount
    <2> QED BY <2>1, <2>2, <2>3 DEF NumprocExact
  <1> QED BY <1>2, <1>3, <1>5, <1>6, <1>7, <1>10

\* create() takes a free slot for a suspended process, or changes nothing but
\* the search position and the stacks.
LEMMA CreatePreserves ==
  ASSUME IInv, currpid \in Pids, NEW r \in Pids \cup {SYSERR}, create(r),
         UNCHANGED <<queuetab, currpid>>
  PROVE  /\ state' \in [Pids -> States] /\ nextpid' \in Pids /\ numproc' \in Int
         /\ stacks' = stacks + 1
         /\ ReadyLinked' /\ CurrUnique' /\ NumprocExact'
         /\ r # SYSERR => r # currpid /\ state'[r] = PRSUSP
  <1>0. PRFREE # PRCURR /\ PRFREE # PRSUSP /\ PRFREE # PRREADY
        /\ PRCURR # PRSUSP /\ PRCURR # PRREADY /\ PRSUSP # PRREADY
    BY DEF PRFREE, PRCURR, PRSUSP, PRREADY
  <1>1. /\ state \in [Pids -> States] /\ numproc \in Int /\ nextpid \in Pids
        /\ ReadyLinked /\ CurrUnique /\ NumprocExact
        /\ InState(PRCURR) = {currpid}
        /\ numproc = Cardinality(Live(state))
    BY PidFacts, LiveCount DEF IInv, TypeOK, CurrUnique, NumprocExact
  <1>2. CASE r = SYSERR
    <2>1. UNCHANGED <<state, numproc>> /\ nextpid' \in Pids /\ stacks' = stacks + 1
      BY <1>2, <1>1, PidFacts DEF create
    <2>2. ReadyLinked' /\ CurrUnique' /\ NumprocExact'
      BY <1>1, <2>1 DEF ReadyLinked, CurrUnique, NumprocExact, InState
    <2> QED BY <1>1, <1>2, <2>1, <2>2
  <1>3. CASE r # SYSERR
    <2>1. /\ r \in Pids /\ state[r] = PRFREE /\ nextpid' = r /\ stacks' = stacks + 1
          /\ numproc' = numproc + 1 /\ state' = [state EXCEPT ![r] = PRSUSP]
      BY <1>3, PidFacts DEF create, newpid
    <2>2. state' \in [Pids -> States]
      BY <1>1, <2>1 DEF States
    <2>3. InState(PRREADY)' = InState(PRREADY) /\ InState(PRCURR)' = InState(PRCURR)
      BY <1>0, <1>1, <2>1 DEF InState
    <2>4. ReadyLinked' /\ CurrUnique'
      BY <1>1, <2>3 DEF ReadyLinked, CurrUnique
    <2>5. (Live(state))' = Live(state) \cup {r} /\ r \notin Live(state)
      BY <1>0, <1>1, <2>1 DEF Live
    <2>6. Cardinality(Live(state) \cup {r}) = Cardinality(Live(state)) + 1
      BY <2>5, LiveCount, FS_AddElement
    <2>7. NumprocExact'
      <3>1. (Live(state) = Pids \ InState(PRFREE))'
        BY DEF Live, InState
      <3> QED BY <1>1, <2>1, <2>5, <2>6, <3>1 DEF NumprocExact
    <2>8. r # currpid
      BY <1>0, <1>1, <2>1 DEF InState
    <2> QED BY <1>1, <2>1, <2>2, <2>4, <2>7, <2>8
  <1> QED BY <1>2, <1>3

-----------------------------------------------------------------------------

\* The state sysinit() leaves is as IInv says.
LEMMA InitIInv == Init => IInv
  <1> SUFFICES ASSUME Init PROVE IInv
    OBVIOUS
  <1>0. PRFREE # PRCURR /\ PRCURR # PRREADY /\ PRFREE # PRREADY
    BY DEF PRFREE, PRCURR, PRREADY
  <1>1. state = [p \in Pids |-> IF p = NULLPROC THEN PRCURR ELSE PRFREE]
    BY DEF Init
  <1>2. TypeOK
    BY <1>1, PidFacts, NewqueueLinked, BoundsAssumption
       DEF Init, TypeOK, States, MainPcs, NULLPROC
  <1>3. InState(PRREADY) = {} /\ InState(PRCURR) = {NULLPROC}
        /\ Pids \ InState(PRFREE) = {NULLPROC}
    BY <1>0, <1>1, PidFacts DEF InState
  <1>4. ReadyLinked
    BY <1>3, NewqueueLinked DEF ReadyLinked, Init
  <1>5. CurrUnique
    BY <1>3, PidFacts DEF CurrUnique, Init
  <1>6. NumprocExact
    BY <1>3, FS_Singleton DEF NumprocExact, Init
  <1>7. BootInv
    BY BoundsAssumption DEF BootInv, Init, NotYet, NULLPROC
  <1> QED BY <1>2, <1>4, <1>5, <1>6, <1>7 DEF IInv

\* Every kernel call, made in a state of IInv, ends in one.
LEMMA NextIInv == IInv /\ [Next]_vars => IInv'
  <1> SUFFICES ASSUME IInv, [Next]_vars PROVE IInv'
    OBVIOUS
  <1>0. PRFREE # PRCURR /\ PRFREE # PRSUSP /\ PRFREE # PRREADY
        /\ PRCURR # PRSUSP /\ PRCURR # PRREADY /\ PRSUSP # PRREADY
    BY DEF PRFREE, PRCURR, PRSUSP, PRREADY
  <1>1. /\ TypeOK /\ ReadyLinked /\ CurrUnique /\ NumprocExact /\ BootInv
    BY DEF IInv
  <1>2. CASE MainCreate
    <2>1. PICK r \in Pids \cup {SYSERR} : create(r)
      BY <1>2 DEF MainCreate
    <2>2. /\ currpid \in Pids /\ mainpc = "xmain" /\ stacks < MaxCreate
          /\ UNCHANGED <<queuetab, currpid, mainpc, prnull>>
      BY <1>2, PidFacts DEF MainCreate, MainRuns
    <2>3. /\ state' \in [Pids -> States] /\ nextpid' \in Pids /\ numproc' \in Int
          /\ stacks' = stacks + 1
          /\ ReadyLinked' /\ CurrUnique' /\ NumprocExact'
      BY <2>1, <2>2, CreatePreserves
    <2>4. TypeOK'
      BY <1>1, <2>2, <2>3, BoundsAssumption DEF TypeOK
    <2>5. BootInv'
      BY <1>1, <2>2, <2>3, BoundsAssumption DEF BootInv, TypeOK
    <2> QED BY <2>3, <2>4, <2>5 DEF IInv
  <1>3. ASSUME NEW p \in Pids, NEW resch \in BOOLEAN, MainReady(p, resch)
        PROVE  IInv'
    <2>1. /\ currpid \in Pids /\ mainpc = "xmain" /\ state[p] = PRSUSP
          /\ ready(p, resch)
          /\ UNCHANGED <<numproc, nextpid, stacks, mainpc, prnull>>
      BY <1>3, PidFacts DEF MainReady, MainRuns
    <2>2. /\ state' \in [Pids -> States] /\ queuetab' \in Table
          /\ currpid' \in Pids \cup {EMPTY}
          /\ ReadyLinked' /\ CurrUnique' /\ Live(state') = Live(state)
      BY <2>1, ReadyPreserves
    <2>3. TypeOK'
      BY <1>1, <2>1, <2>2 DEF TypeOK
    <2>4. NumprocExact'
      BY <1>1, <2>1, <2>2 DEF NumprocExact, Live, InState
    <2>5. BootInv'
      BY <1>1, <2>1 DEF BootInv
    <2> QED BY <2>2, <2>3, <2>4, <2>5 DEF IInv
  <1>4. ASSUME resched(state, queuetab), currpid \in Pids,
               mainpc \in {"xmain", "gone"},
               UNCHANGED <<numproc, nextpid, stacks, mainpc, prnull>>
        PROVE  IInv'
    <2>1. /\ state \in [Pids -> States] /\ queuetab \in Table
          /\ Linked(queuetab, {p \in Pids : state[p] = PRREADY})
          /\ {p \in Pids : state[p] = PRCURR} \subseteq {currpid}
      BY <1>1, <1>4, PidFacts DEF TypeOK, ReadyLinked, CurrUnique, InState
    <2>2. /\ state' \in [Pids -> States] /\ queuetab' \in Table
          /\ currpid' \in Pids \cup {EMPTY}
          /\ ReadyLinked' /\ CurrUnique' /\ Live(state') = Live(state)
          /\ \A p \in Pids : state[p] \in {PRCURR, PRREADY} => state'[p] \in {PRCURR, PRREADY}
      BY <1>4, <2>1, ReschedPreserves
    <2>3. TypeOK'
      BY <1>1, <1>4, <2>2 DEF TypeOK
    <2>4. NumprocExact'
      BY <1>1, <1>4, <2>2 DEF NumprocExact, Live, InState
    <2>5. BootInv'
      BY <1>1, <1>4, <2>2 DEF BootInv, TypeOK
    <2> QED BY <2>2, <2>3, <2>4, <2>5 DEF IInv
  <1>5. CASE MainResched
    BY <1>4, <1>5, PidFacts DEF MainResched, MainRuns
  <1>6. ASSUME NEW p \in Pids, MainKill(p) PROVE IInv'
    <2>1. /\ currpid \in Pids /\ mainpc = "xmain" /\ state[p] # PRFREE
          /\ p \in Pids \ {currpid} /\ killother(p)
          /\ UNCHANGED <<nextpid, stacks, mainpc, prnull>>
      BY <1>6, PidFacts DEF MainKill, MainRuns, isbadpid
    <2>2. /\ state' \in [Pids -> States] /\ queuetab' \in Table
          /\ currpid' = currpid /\ numproc' \in Int
          /\ ReadyLinked' /\ CurrUnique' /\ NumprocExact'
      BY <2>1, KillotherPreserves
    <2>3. TypeOK'
      BY <1>1, <2>1, <2>2 DEF TypeOK
    <2>4. BootInv'
      BY <1>1, <2>1 DEF BootInv
    <2> QED BY <2>2, <2>3, <2>4 DEF IInv
  <1>7. CASE CreateNull
    <2>1. PICK r \in Pids \cup {SYSERR} : create(r) /\ prnull' = r
      BY <1>7 DEF CreateNull
    <2>2. /\ currpid = NULLPROC /\ mainpc = "xmain" /\ mainpc' = "ready"
          /\ UNCHANGED <<queuetab, currpid>>
      BY <1>7 DEF CreateNull, MainRuns
    <2>3. /\ state' \in [Pids -> States] /\ nextpid' \in Pids /\ numproc' \in Int
          /\ stacks' = stacks + 1
          /\ ReadyLinked' /\ CurrUnique' /\ NumprocExact'
          /\ r # SYSERR => r # currpid /\ state'[r] = PRSUSP
      BY <2>1, <2>2, PidFacts, CreatePreserves
    <2>4. TypeOK'
      BY <1>1, <2>1, <2>2, <2>3, BoundsAssumption DEF TypeOK, BootInv, MainPcs
    <2>5. prnull' # NULLPROC /\ prnull' # NotYet
      BY <2>1, <2>2, <2>3, PidFacts
    <2>6. BootInv'
      BY <2>1, <2>2, <2>3, <2>5 DEF BootInv
    <2> QED BY <2>3, <2>4, <2>6 DEF IInv
  <1>8. CASE ReadyNull
    <2>1. /\ mainpc = "ready" /\ mainpc' = "kill" /\ currpid = NULLPROC
          /\ prnull # NotYet /\ prnull # NULLPROC
          /\ UNCHANGED <<numproc, nextpid, stacks, prnull>>
      BY <1>1, <1>8 DEF ReadyNull, BootInv
    <2>2. CASE prnull = SYSERR
      <3>1. UNCHANGED <<state, queuetab, currpid>>
        BY <1>8, <2>2 DEF ReadyNull
      <3>2. TypeOK'
        BY <1>1, <2>1, <3>1 DEF TypeOK, MainPcs
      <3>3. ReadyLinked' /\ CurrUnique' /\ NumprocExact'
        BY <1>1, <2>1, <3>1 DEF ReadyLinked, CurrUnique, NumprocExact, InState
      <3>4. BootInv'
        BY <2>1, <2>2, <3>1 DEF BootInv
      <3> QED BY <3>2, <3>3, <3>4 DEF IInv
    <2>3. CASE prnull # SYSERR
      <3>1. /\ prnull \in Pids /\ state[prnull] = PRSUSP /\ ready(prnull, FALSE)
            /\ currpid \in Pids
        BY <1>1, <1>8, <2>1, <2>3, PidFacts DEF ReadyNull, BootInv, TypeOK
      <3>2. /\ state' \in [Pids -> States] /\ queuetab' \in Table
            /\ ReadyLinked' /\ CurrUnique' /\ Live(state') = Live(state)
            /\ currpid' = currpid /\ state' = [state EXCEPT ![prnull] = PRREADY]
        BY <3>1, ReadyPreserves
      <3>3. TypeOK'
        BY <1>1, <2>1, <3>2 DEF TypeOK, MainPcs
      <3>4. NumprocExact'
        BY <1>1, <2>1, <3>2 DEF NumprocExact, Live, InState
      <3>5. state'[prnull] = PRREADY
        BY <1>1, <3>1, <3>2 DEF TypeOK
      <3>6. BootInv'
        BY <2>1, <3>2, <3>5 DEF BootInv
      <3> QED BY <3>2, <3>3, <3>4, <3>6 DEF IInv
    <2> QED BY <2>2, <2>3
  <1>9. ASSUME killself, currpid \in Pids, currpid # prnull,
               mainpc \in {"xmain", "kill", "gone"},
               mainpc' = IF mainpc = "kill" THEN "gone" ELSE mainpc,
               UNCHANGED <<nextpid, stacks, prnull>>
        PROVE  IInv'
    <2>1. /\ state' \in [Pids -> States] /\ queuetab' \in Table
          /\ currpid' \in Pids \cup {EMPTY} /\ numproc' \in Int
          /\ ReadyLinked' /\ CurrUnique' /\ NumprocExact'
          /\ \A p \in Pids \ {currpid} :
                state[p] \in {PRCURR, PRREADY} => state'[p] \in {PRCURR, PRREADY}
      BY <1>9, KillselfPreserves
    <2>2. TypeOK'
      BY <1>1, <1>9, <2>1 DEF TypeOK, MainPcs
    <2>3. mainpc # "xmain" /\ prnull # SYSERR => prnull \in Pids \ {currpid}
      BY <1>1, <1>9 DEF TypeOK, BootInv
    <2>4. BootInv'
      BY <1>1, <1>9, <2>1, <2>3 DEF BootInv
    <2> QED BY <2>1, <2>2, <2>4 DEF IInv
  <1>10. CASE KillMain
    <2>1. currpid = NULLPROC /\ mainpc = "kill" /\ prnull # NULLPROC
      BY <1>1, <1>10 DEF KillMain, BootInv
    <2> QED BY <1>9, <1>10, <2>1, PidFacts DEF KillMain
  <1>11. UserRuns => currpid \in Pids /\ mainpc \in {"xmain", "gone"}
    BY <1>1 DEF UserRuns, TypeOK, MainPcs, BootInv
  <1>12. CASE UserYield
    BY <1>4, <1>11, <1>12 DEF UserYield
  <1>13. CASE UserKill
    BY <1>9, <1>11, <1>13 DEF UserKill
  <1>14. CASE UNCHANGED vars
    <2>1. UNCHANGED <<state, queuetab, currpid, numproc, nextpid, stacks, mainpc, prnull>>
      BY <1>14 DEF vars
    <2> QED BY <1>1, <2>1 DEF IInv, TypeOK, ReadyLinked, CurrUnique, NumprocExact,
                              BootInv, InState
  <1> QED BY <1>2, <1>3, <1>5, <1>6, <1>7, <1>8, <1>10, <1>12, <1>13, <1>14 DEF Next

\* The invariant holds in every reachable state.
THEOREM Invariance == Spec => []IInv
  BY InitIInv, NextIInv, PTL DEF Spec

\* Types, for every number of slots, stacks and created processes.
THEOREM TypeCorrect == Spec => []TypeOK
  <1>1. IInv => TypeOK
    BY DEF IInv
  <1> QED BY Invariance, <1>1, PTL

\* The links of the ready list are inverse to each other over exactly the
\* PRREADY processes: no enqueue, dequeue or unlinking loses or repeats one.
THEOREM ListMatchesStates == Spec => []ReadyLinked
  <1>1. IInv => ReadyLinked
    BY DEF IInv
  <1> QED BY Invariance, <1>1, PTL

\* At most one process is marked running, and it is the one that runs.
THEOREM OneRunning == Spec => []CurrUnique
  <1>1. IInv => CurrUnique
    BY DEF IInv
  <1> QED BY Invariance, <1>1, PTL

\* numproc is the number of slots in use: a counter kept at three places of
\* create() and kill() against the whole process table.
THEOREM NumprocCounts == Spec => []NumprocExact
  <1>1. IInv => NumprocExact
    BY DEF IInv
  <1> QED BY Invariance, <1>1, PTL

-----------------------------------------------------------------------------
(* Something to run.  That resched() finds a process whenever one is ready *)
(* needs the order of the list, which no other part of IInv rests on.      *)

ReadyOrdered == Ordered(queuetab, InState(PRREADY))
IdleIsEmpty  == currpid = EMPTY => InState(PRREADY) = {}
RunInv       == IInv /\ ReadyOrdered /\ IdleIsEmpty

\* resched() keeps the order, and finds nothing to run only if nothing is ready.
LEMMA ReschedOrdered ==
  ASSUME NEW st \in [Pids -> States], NEW qt \in Table, currpid \in Pids,
         Linked(qt, {p \in Pids : st[p] = PRREADY}),
         Ordered(qt, {p \in Pids : st[p] = PRREADY}),
         resched(st, qt)
  PROVE  ReadyOrdered' /\ IdleIsEmpty'
  <1> DEFINE again == st[currpid] = PRCURR
             st1 == IF again THEN [st EXCEPT ![currpid] = PRREADY] ELSE st
             qt1 == IF again THEN enqueue(qt, st1, currpid) ELSE qt
             members == {p \in Pids : st1[p] = PRREADY}
             new == dequeued(qt1)
  <1>0. PRFREE # PRCURR /\ PRFREE # PRREADY /\ PRCURR # PRREADY
    BY DEF PRFREE, PRCURR, PRREADY
  <1>1. qt1 \in Table /\ Linked(qt1, members) /\ Ordered(qt1, members)
    <2>1. CASE again
      <3>1. members = {p \in Pids : st[p] = PRREADY} \cup {currpid}
        BY <2>1, <1>0
      <3>2. currpid \notin {p \in Pids : st[p] = PRREADY} /\ st1[currpid] # PRFREE
        BY <2>1, <1>0
      <3>3. enqueue(qt, st1, currpid) \in Table
            /\ Linked(enqueue(qt, st1, currpid), {p \in Pids : st[p] = PRREADY} \cup {currpid})
        BY <3>2, EnqueueLinked
      <3>4. Ordered(enqueue(qt, st1, currpid), {p \in Pids : st[p] = PRREADY} \cup {currpid})
        BY <3>2, EnqueueOrdered
      <3> QED BY <2>1, <3>1, <3>3, <3>4
    <2>2. CASE ~again
      BY <2>2
    <2> QED BY <2>1, <2>2
  <1>2. /\ Ordered(dequeue(qt1, st1), members \ {new})
        /\ new = EMPTY <=> members = {}
    <2>1. \A p \in members : st1[p] # PRFREE
      BY <1>0
    <2>2. members \in SUBSET Pids
      OBVIOUS
    <2> HIDE DEF members, qt1, st1
    <2> QED BY <1>1, <2>1, <2>2, DequeueOrdered
  <1>3. /\ currpid' = new
        /\ state' = [p \in Pids |-> IF p = new THEN PRCURR ELSE st1[p]]
        /\ queuetab' = dequeue(qt1, st1)
    BY DEF resched
  <1>4. InState(PRREADY)' = members \ {new}
    BY <1>0, <1>3 DEF InState
  <1> QED BY <1>2, <1>3, <1>4 DEF ReadyOrdered, IdleIsEmpty

\* ready() of a suspended process puts it last.
LEMMA ReadyOrderedLast ==
  ASSUME RunInv, currpid \in Pids, NEW pid \in Pids, state[pid] = PRSUSP,
         NEW resch \in BOOLEAN, ready(pid, resch)
  PROVE  ReadyOrdered' /\ IdleIsEmpty'
  <1> DEFINE st1 == [state EXCEPT ![pid] = PRREADY]
             qt1 == enqueue(queuetab, st1, pid)
  <1>0. PRFREE # PRREADY /\ PRSUSP # PRREADY
    BY DEF PRFREE, PRSUSP, PRREADY
  <1>1. /\ state \in [Pids -> States] /\ queuetab \in Table
        /\ Linked(queuetab, InState(PRREADY)) /\ Ordered(queuetab, InState(PRREADY))
    BY DEF RunInv, IInv, TypeOK, ReadyLinked, ReadyOrdered
  <1>2. st1 \in [Pids -> States] /\ st1[pid] # PRFREE
    BY <1>0, <1>1 DEF States
  <1>3. InState(PRREADY) \in SUBSET Pids /\ pid \in Pids \ InState(PRREADY)
    BY <1>0 DEF InState
  <1>4. qt1 \in Table /\ Linked(qt1, InState(PRREADY) \cup {pid})
    BY <1>1, <1>2, <1>3, EnqueueLinked
  <1>5. Ordered(qt1, InState(PRREADY) \cup {pid})
    BY <1>1, <1>2, <1>3, EnqueueOrdered
  <1>6. {p \in Pids : st1[p] = PRREADY} = InState(PRREADY) \cup {pid}
    BY <1>1 DEF InState
  <1>7. CASE resch
    <2>1. resched(st1, qt1)
      BY <1>7 DEF ready
    <2> QED BY <1>2, <1>4, <1>5, <1>6, <2>1, ReschedOrdered
  <1>8. CASE ~resch
    <2>1. state' = st1 /\ queuetab' = qt1 /\ currpid' = currpid
      BY <1>8 DEF ready
    <2>2. ReadyOrdered'
      BY <2>1, <1>5, <1>6 DEF ReadyOrdered, InState
    <2>3. IdleIsEmpty'
      BY <2>1, PidFacts DEF IdleIsEmpty
    <2> QED BY <2>2, <2>3
  <1> QED BY <1>7, <1>8

\* Every kernel call keeps the order of the list.
LEMMA NextRunInv == RunInv /\ [Next]_vars => RunInv'
  <1> SUFFICES ASSUME RunInv, [Next]_vars PROVE RunInv'
    OBVIOUS
  <1>0. PRFREE # PRCURR /\ PRFREE # PRSUSP /\ PRFREE # PRREADY
        /\ PRCURR # PRSUSP /\ PRCURR # PRREADY /\ PRSUSP # PRREADY
    BY DEF PRFREE, PRCURR, PRSUSP, PRREADY
  <1>1. IInv /\ IInv'
    BY NextIInv DEF RunInv
  <1>2. /\ state \in [Pids -> States] /\ queuetab \in Table
        /\ Linked(queuetab, InState(PRREADY)) /\ Ordered(queuetab, InState(PRREADY))
        /\ currpid \in Pids => InState(PRCURR) = {currpid}
    BY <1>1, PidFacts DEF RunInv, IInv, TypeOK, ReadyLinked, ReadyOrdered, CurrUnique
  <1>3. SUFFICES ReadyOrdered' /\ IdleIsEmpty'
    BY <1>1 DEF RunInv
  <1>4. ASSUME NEW r \in Pids \cup {SYSERR}, create(r), currpid \in Pids,
               UNCHANGED <<queuetab, currpid>>
        PROVE  ReadyOrdered' /\ IdleIsEmpty'
    <2>1. \/ state' = state
          \/ \E p \in Pids : state[p] = PRFREE /\ state' = [state EXCEPT ![p] = PRSUSP]
      BY <1>4 DEF create, newpid
    <2>2. InState(PRREADY)' = InState(PRREADY)
      BY <2>1, <1>0, <1>2 DEF InState
    <2> QED BY <1>2, <1>4, <2>2, PidFacts DEF ReadyOrdered, IdleIsEmpty
  <1>5. CASE MainCreate
    BY <1>4, <1>5, PidFacts DEF MainCreate, MainRuns
  <1>6. ASSUME NEW p \in Pids, NEW resch \in BOOLEAN, MainReady(p, resch)
        PROVE  ReadyOrdered' /\ IdleIsEmpty'
    <2>1. currpid \in Pids /\ state[p] = PRSUSP /\ ready(p, resch)
      BY <1>6, PidFacts DEF MainReady, MainRuns
    <2> QED BY <2>1, ReadyOrderedLast
  <1>7. ASSUME resched(state, queuetab), currpid \in Pids
        PROVE  ReadyOrdered' /\ IdleIsEmpty'
    BY <1>2, <1>7, ReschedOrdered DEF InState
  <1>8. CASE MainResched
    BY <1>7, <1>8, PidFacts DEF MainResched, MainRuns
  <1>9. ASSUME NEW p \in Pids, MainKill(p) PROVE ReadyOrdered' /\ IdleIsEmpty'
    <2>1. /\ currpid \in Pids /\ currpid' = currpid /\ state[p] # PRFREE
          /\ state' = [state EXCEPT ![p] = PRFREE]
          /\ queuetab' = IF state[p] = PRREADY THEN remove(queuetab, state, p)
                         ELSE queuetab
      BY <1>9, PidFacts DEF MainKill, MainRuns, isbadpid, killother
    <2>2. InState(PRREADY)' = InState(PRREADY) \ {p}
      BY <1>0, <1>2, <2>1 DEF InState
    <2>3. Ordered(queuetab', InState(PRREADY) \ {p})
      <3>1. CASE state[p] = PRREADY
        <4>1. p \in InState(PRREADY) /\ InState(PRREADY) \in SUBSET Pids
          BY <3>1 DEF InState
        <4> QED BY <1>2, <2>1, <3>1, <4>1, RemoveOrdered
      <3>2. CASE state[p] # PRREADY
        <4>1. InState(PRREADY) \ {p} = InState(PRREADY)
          BY <3>2 DEF InState
        <4> QED BY <1>2, <2>1, <3>2, <4>1
      <3> QED BY <3>1, <3>2
    <2> QED BY <2>1, <2>2, <2>3, PidFacts DEF ReadyOrdered, IdleIsEmpty
  <1>10. CASE CreateNull
    BY <1>4, <1>10, PidFacts DEF CreateNull, MainRuns
  <1>11. CASE ReadyNull
    <2>1. CASE prnull = SYSERR
      BY <1>11, <2>1 DEF ReadyNull, RunInv, ReadyOrdered, IdleIsEmpty, InState
    <2>2. CASE prnull # SYSERR
      <3>1. /\ prnull \in Pids /\ state[prnull] = PRSUSP /\ ready(prnull, FALSE)
            /\ currpid \in Pids
        BY <1>1, <1>11, <2>2, PidFacts DEF ReadyNull, IInv, BootInv, TypeOK
      <3> QED BY <3>1, ReadyOrderedLast
    <2> QED BY <2>1, <2>2
  <1>12. ASSUME killself, currpid \in Pids PROVE ReadyOrdered' /\ IdleIsEmpty'
    <2> DEFINE st1 == [state EXCEPT ![currpid] = PRFREE]
    <2>1. st1 \in [Pids -> States]
      BY <1>2 DEF States
    <2>2. {p \in Pids : st1[p] = PRREADY} = InState(PRREADY)
      BY <1>0, <1>2, <1>12 DEF InState
    <2>3. resched(st1, queuetab)
      BY <1>12 DEF killself
    <2> QED BY <1>2, <1>12, <2>1, <2>2, <2>3, ReschedOrdered
  <1>13. CASE KillMain
    BY <1>1, <1>12, <1>13, PidFacts DEF KillMain, IInv, BootInv
  <1>14. CASE UserYield
    BY <1>7, <1>14 DEF UserYield, UserRuns
  <1>15. CASE UserKill
    BY <1>12, <1>15 DEF UserKill, UserRuns
  <1>16. CASE UNCHANGED vars
    BY <1>16 DEF vars, RunInv, ReadyOrdered, IdleIsEmpty, InState
  <1> QED BY <1>5, <1>6, <1>8, <1>9, <1>10, <1>11, <1>13, <1>14, <1>15, <1>16 DEF Next

\* The order is there from sysinit() on.
LEMMA RunInvariance == Spec => []RunInv
  <1>1. Init => RunInv
    <2> SUFFICES ASSUME Init PROVE RunInv
      OBVIOUS
    <2>1. IInv
      BY InitIInv
    <2>2. InState(PRREADY) = {}
      BY PidFacts DEF Init, InState, PRFREE, PRCURR, PRREADY
    <2> QED BY <2>1, <2>2, NewqueueOrdered DEF Init, RunInv, ReadyOrdered, IdleIsEmpty
  <1> QED BY <1>1, NextRunInv, PTL DEF Spec

\* Following the links of the ready list meets exactly the PRREADY processes,
\* each once, and ends: there is no cycle on the list or beside it.
THEOREM ListWalksReady == Spec => []ReadyIffListed
  <1>1. RunInv => ReadyIffListed
    <2> SUFFICES ASSUME RunInv PROVE ReadyIffListed
      OBVIOUS
    <2>1. /\ queuetab \in Table /\ InState(PRREADY) \in SUBSET Pids
          /\ Linked(queuetab, InState(PRREADY)) /\ Ordered(queuetab, InState(PRREADY))
      BY DEF RunInv, IInv, TypeOK, ReadyLinked, ReadyOrdered, InState
    <2> QED BY <2>1, ListedMembers DEF ReadyIffListed
  <1> QED BY RunInvariance, <1>1, PTL

\* Once process 0 is gone there is always a process to run, the null process if
\* no other, or none is ready: resched() never overlooks a ready process.
THEOREM SomethingRuns == Spec => []AlwaysEligible
  <1>1. RunInv => AlwaysEligible
    <2> SUFFICES ASSUME RunInv, mainpc = "gone"
                 PROVE  IF prnull = SYSERR THEN currpid = EMPTY => InState(PRREADY) = {}
                        ELSE /\ currpid \in Pids
                             /\ state[prnull] \in {PRCURR, PRREADY}
      BY DEF AlwaysEligible
    <2>1. CASE prnull = SYSERR
      BY <2>1 DEF RunInv, IdleIsEmpty
    <2>2. CASE prnull # SYSERR
      <3>1. prnull \in Pids /\ state[prnull] \in {PRCURR, PRREADY}
        BY <2>2 DEF RunInv, IInv, TypeOK, BootInv
      <3>2. currpid # EMPTY
        BY <3>1 DEF RunInv, IInv, CurrUnique, IdleIsEmpty, InState
      <3>3. currpid \in Pids
        BY <3>2 DEF RunInv, IInv, TypeOK
      <3> QED BY <2>2, <3>1, <3>3
    <2> QED BY <2>1, <2>2
  <1> QED BY RunInvariance, <1>1, PTL
-----------------------------------------------------------------------------
(* The refinement of AbsSched.  The ready list is a sequence that enqueue() *)
(* appends to, dequeue() takes the head of and remove() takes any process  *)
(* out of, and the kernel functions do nothing else with it.               *)

SeqInv == RunInv /\ Lists(queuetab, ReadySeq(queuetab))

\* What a state of SeqInv says about the sequence.
LEMMA SeqFacts ==
  ASSUME SeqInv
  PROVE  /\ state \in [Pids -> States] /\ queuetab \in Table
         /\ Linked(queuetab, InState(PRREADY)) /\ InState(PRREADY) \in SUBSET Pids
         /\ currpid \in Pids => InState(PRCURR) = {currpid}
         /\ ReadySeq(queuetab) \in Seq(Pids) /\ Len(ReadySeq(queuetab)) \in Nat
         /\ DOMAIN ReadySeq(queuetab) = 1 .. Len(ReadySeq(queuetab))
         /\ InState(PRREADY) = {ReadySeq(queuetab)[i] : i \in 1 .. Len(ReadySeq(queuetab))}
  <1> DEFINE s == ReadySeq(queuetab)
  <1>1. /\ state \in [Pids -> States] /\ queuetab \in Table
        /\ Linked(queuetab, InState(PRREADY)) /\ Ordered(queuetab, InState(PRREADY))
        /\ InState(PRREADY) \in SUBSET Pids
        /\ currpid \in Pids => InState(PRCURR) = {currpid}
        /\ Lists(queuetab, s)
    BY PidFacts DEF SeqInv, RunInv, IInv, TypeOK, ReadyLinked, ReadyOrdered, InState, CurrUnique
  <1> HIDE DEF s
  <1>2. Listed(queuetab) = InState(PRREADY)
    BY <1>1, ListedMembers
  <1>3. Listed(queuetab) = {s[i] : i \in 1 .. Len(s)}
    BY <1>1, ReadySeqReads
  <1>4. s \in Seq(Pids) /\ Len(s) \in Nat /\ DOMAIN s = 1 .. Len(s)
    BY <1>1, LenProperties DEF Lists
  <1> QED BY <1>1, <1>2, <1>3, <1>4 DEF s

\* The table a step leaves reads as the sequence that step made.
LEMMA SeqAfter ==
  ASSUME RunInv', NEW s, Lists(queuetab', s)
  PROVE  ReadySeq(queuetab)' = s /\ Lists(queuetab, ReadySeq(queuetab))'
  <1>1. /\ queuetab' \in Table /\ InState(PRREADY)' \in SUBSET Pids
        /\ Linked(queuetab', InState(PRREADY)')
    BY DEF RunInv, IInv, TypeOK, ReadyLinked, InState
  <1>2. ReadySeq(queuetab') = s
    BY <1>1, ReadySeqReads
  <1> QED BY <1>2

\* resched() gives the processor to the front of the sequence, after a current
\* process that goes on has joined its end.
LEMMA ReschedServes ==
  ASSUME NEW st \in [Pids -> States], NEW qt \in Table, currpid \in Pids,
         NEW s, Lists(qt, s),
         {p \in Pids : st[p] = PRREADY} = {s[i] : i \in 1 .. Len(s)},
         resched(st, qt), RunInv'
  PROVE  /\ st[currpid] = PRCURR => Abs!Serve(Append(s, currpid))
         /\ st[currpid] # PRCURR => Abs!Serve(s)
         /\ InState(PRSUSP)' = {p \in Pids : st[p] = PRSUSP}
         /\ Lists(queuetab, ReadySeq(queuetab))'
  <1> DEFINE again == st[currpid] = PRCURR
             st1 == IF again THEN [st EXCEPT ![currpid] = PRREADY] ELSE st
             qt1 == IF again THEN enqueue(qt, st1, currpid) ELSE qt
             new == dequeued(qt1)
             t   == IF again THEN Append(s, currpid) ELSE s
  <1>0. PRFREE # PRCURR /\ PRFREE # PRSUSP /\ PRFREE # PRREADY
        /\ PRCURR # PRSUSP /\ PRCURR # PRREADY /\ PRSUSP # PRREADY
    BY DEF PRFREE, PRCURR, PRSUSP, PRREADY
  <1>1. s \in Seq(Pids) /\ Len(s) \in Nat /\ \A i \in 1 .. Len(s) : st[s[i]] = PRREADY
    <2>1. s \in Seq(Pids) /\ Len(s) \in Nat
      BY LenProperties DEF Lists
    <2> QED BY <2>1
  <1>2. Lists(qt1, t) /\ qt1 \in Table /\ \A i \in 1 .. Len(t) : st1[t[i]] = PRREADY
    <2>1. CASE again
      <3>1. /\ t = Append(s, currpid) /\ qt1 = enqueue(qt, st1, currpid)
            /\ st1 = [st EXCEPT ![currpid] = PRREADY]
        BY <2>1
      <3>2. \A i \in 1 .. Len(s) : s[i] # currpid
        BY <2>1, <1>0, <1>1
      <3>3. st1[currpid] = PRREADY
        BY <3>1
      <3>4. Lists(qt1, t) /\ qt1 \in Table
        <4>1. st1[currpid] # PRFREE
          BY <3>3, <1>0
        <4> HIDE DEF st1, qt1
        <4>2. /\ enqueue(qt, st1, currpid) \in Table
              /\ Lists(enqueue(qt, st1, currpid), Append(s, currpid))
          BY <3>2, <4>1, EnqueueLists
        <4> QED BY <3>1, <4>2
      <3>6. \A i \in 1 .. Len(t) : st1[t[i]] = PRREADY
        <4>1. /\ Len(t) = Len(s) + 1 /\ t[Len(s) + 1] = currpid
              /\ \A i \in 1 .. Len(s) : t[i] = s[i]
          BY <3>1, <1>1
        <4>2. \A i \in 1 .. Len(t) : i \in 1 .. Len(s) \/ i = Len(s) + 1
          BY <4>1, <1>1
        <4>3. \A i \in 1 .. Len(s) : s[i] \in Pids
          BY <1>1
        <4> QED BY <3>1, <1>1, <4>1, <4>2, <4>3
      <3> QED BY <3>4, <3>6
    <2>2. CASE ~again
      BY <2>2, <1>1
    <2> QED BY <2>1, <2>2
  <1>3. /\ currpid' = new
        /\ state' = [p \in Pids |-> IF p = new THEN PRCURR ELSE st1[p]]
        /\ queuetab' = dequeue(qt1, st1)
    BY DEF resched
  <1>4. /\ t = <<>> => new = EMPTY /\ queuetab' = qt1
        /\ t # <<>> => new = Head(t) /\ Lists(queuetab', Tail(t))
    <2>1. \A i \in 1 .. Len(t) : st1[t[i]] # PRFREE
      BY <1>0, <1>2
    <2> HIDE DEF qt1, st1, t
    <2> QED BY <1>2, <1>3, <2>1, DequeueLists
  <1>5. t # <<>> => st1[Head(t)] = PRREADY
    <2>1. t \in Seq(Pids)
      BY <1>2 DEF Lists
    <2>2. t # <<>> => Head(t) = t[1] /\ 1 \in 1 .. Len(t)
      BY <2>1
    <2> HIDE DEF st1, qt1, t
    <2> QED BY <1>2, <2>2
  <1>6. InState(PRSUSP)' = {p \in Pids : st[p] = PRSUSP}
    <2>1. \A p \in Pids : p = new => st1[p] = PRREADY
      BY <1>4, <1>5, PidFacts
    <2>2. \A p \in Pids : st1[p] = PRSUSP <=> st[p] = PRSUSP
      BY <1>0
    <2>3. \A p \in Pids : state'[p] = PRSUSP <=> st[p] = PRSUSP
      <3> HIDE DEF new, st1
      <3> QED BY <1>0, <1>3, <2>1, <2>2
    <2> QED BY <2>3 DEF InState
  <1>t. /\ st[currpid] = PRCURR => t = Append(s, currpid)
        /\ st[currpid] # PRCURR => t = s
    OBVIOUS
  <1> HIDE DEF new, st1, qt1, t
  <1>7. CASE t = <<>>
    <2>1. Lists(queuetab', <<>>)
      BY <1>2, <1>4, <1>7
    <2>2. ReadySeq(queuetab)' = <<>> /\ Lists(queuetab, ReadySeq(queuetab))'
      BY <2>1, SeqAfter
    <2>3. Abs!Serve(t)
      BY <1>3, <1>4, <1>7, <2>2 DEF Abs!Serve
    <2> QED BY <1>t, <1>6, <2>2, <2>3 DEF Abs!Serve
  <1>8. CASE t # <<>>
    <2>1. Lists(queuetab', Tail(t))
      BY <1>4, <1>8
    <2>2. ReadySeq(queuetab)' = Tail(t) /\ Lists(queuetab, ReadySeq(queuetab))'
      BY <2>1, SeqAfter
    <2>3. Abs!Serve(t)
      BY <1>3, <1>4, <1>8, <2>2 DEF Abs!Serve
    <2> QED BY <1>t, <1>6, <2>2, <2>3 DEF Abs!Serve
  <1> QED BY <1>7, <1>8

\* create() admits a process that is nowhere, or leaves the queue as it was.
LEMMA CreateAdmits ==
  ASSUME SeqInv, currpid \in Pids, NEW r \in Pids \cup {SYSERR}, create(r),
         UNCHANGED <<queuetab, currpid>>
  PROVE  /\ Abs!AbsNext \/ UNCHANGED <<currpid, ReadySeq(queuetab), InState(PRSUSP)>>
         /\ Lists(queuetab, ReadySeq(queuetab))'
  <1>0. PRFREE # PRCURR /\ PRFREE # PRSUSP /\ PRFREE # PRREADY
    BY DEF PRFREE, PRCURR, PRSUSP, PRREADY
  <1>1. /\ state \in [Pids -> States]
        /\ InState(PRCURR) = {currpid}
        /\ DOMAIN ReadySeq(queuetab) = 1 .. Len(ReadySeq(queuetab))
        /\ InState(PRREADY) = {ReadySeq(queuetab)[i] : i \in 1 .. Len(ReadySeq(queuetab))}
    BY SeqFacts
  <1>2. ReadySeq(queuetab)' = ReadySeq(queuetab) /\ Lists(queuetab, ReadySeq(queuetab))'
    BY DEF SeqInv
  <1>3. \/ state' = state
        \/ \E p \in Pids : state[p] = PRFREE /\ state' = [state EXCEPT ![p] = PRSUSP]
    BY DEF create, newpid
  <1>4. CASE state' = state
    BY <1>2, <1>4 DEF InState
  <1>5. ASSUME NEW p \in Pids, state[p] = PRFREE, state' = [state EXCEPT ![p] = PRSUSP]
        PROVE  Abs!AbsNext
    <2>1. InState(PRSUSP)' = InState(PRSUSP) \cup {p}
      BY <1>1, <1>5 DEF InState
    <2>2. p \notin InState(PRREADY) \cup InState(PRSUSP) \cup {currpid}
      BY <1>0, <1>1, <1>5 DEF InState
    <2>3. Abs!Waiting = InState(PRREADY)
      BY <1>1 DEF Abs!Waiting
    <2>4. Abs!Admit(p)
      BY <1>2, <2>1, <2>2, <2>3 DEF Abs!Admit
    <2> QED BY <2>4 DEF Abs!AbsNext
  <1> QED BY <1>2, <1>3, <1>4, <1>5

\* ready() wakes a suspended process.
LEMMA ReadyWakes ==
  ASSUME SeqInv, RunInv', currpid \in Pids, NEW pid \in Pids, state[pid] = PRSUSP,
         NEW resch \in BOOLEAN, ready(pid, resch)
  PROVE  Abs!AbsNext /\ Lists(queuetab, ReadySeq(queuetab))'
  <1> DEFINE st1 == [state EXCEPT ![pid] = PRREADY]
             qt1 == enqueue(queuetab, st1, pid)
             s   == ReadySeq(queuetab)
             s1  == Append(s, pid)
  <1>0. PRFREE # PRCURR /\ PRFREE # PRSUSP /\ PRFREE # PRREADY
        /\ PRCURR # PRSUSP /\ PRCURR # PRREADY /\ PRSUSP # PRREADY
    BY DEF PRFREE, PRCURR, PRSUSP, PRREADY
  <1>1. /\ state \in [Pids -> States] /\ queuetab \in Table
        /\ InState(PRCURR) = {currpid}
        /\ s \in Seq(Pids) /\ Len(s) \in Nat
        /\ InState(PRREADY) = {s[i] : i \in 1 .. Len(s)}
    BY SeqFacts
  <1>2. Lists(queuetab, s)
    BY DEF SeqInv
  <1>3. /\ st1 \in [Pids -> States] /\ st1[pid] = PRREADY /\ st1[currpid] = PRCURR
        /\ {p \in Pids : st1[p] = PRREADY} = InState(PRREADY) \cup {pid}
        /\ {p \in Pids : st1[p] = PRSUSP} = InState(PRSUSP) \ {pid}
        /\ pid \in InState(PRSUSP)
    <2>1. currpid # pid /\ state[currpid] = PRCURR
      BY <1>0, <1>1 DEF InState
    <2> QED BY <1>0, <1>1, <2>1 DEF InState, States
  <1>4. \A i \in 1 .. Len(s) : s[i] # pid
    BY <1>0, <1>1 DEF InState
  <1> HIDE DEF s
  <1>5. qt1 \in Table /\ Lists(qt1, s1)
    <2>1. st1[pid] # PRFREE
      BY <1>0, <1>3
    <2> HIDE DEF st1
    <2> QED BY <1>1, <1>2, <1>4, <2>1, EnqueueLists
  <1>6. s1 \in Seq(Pids) /\ Len(s1) = Len(s) + 1 /\ s1[Len(s) + 1] = pid
        /\ \A i \in 1 .. Len(s) : s1[i] = s[i]
    BY <1>1
  <1>7. {p \in Pids : st1[p] = PRREADY} = {s1[i] : i \in 1 .. Len(s1)}
    <2>1. \A i \in 1 .. Len(s1) : i \in 1 .. Len(s) \/ i = Len(s) + 1
      BY <1>1, <1>6
    <2>2. \A i \in 1 .. Len(s) : i \in 1 .. Len(s1)
      BY <1>1, <1>6
    <2>3. Len(s) + 1 \in 1 .. Len(s1)
      BY <1>1, <1>6
    <2>4. InState(PRREADY) \cup {pid} = {s1[i] : i \in 1 .. Len(s1)}
      <3> HIDE DEF s1
      <3> QED BY <1>1, <1>6, <2>1, <2>2, <2>3
    <2> QED BY <1>3, <2>4
  <1>8. CASE resch
    <2> DEFINE t == Append(s1, currpid)
    <2>1. resched(st1, qt1)
      BY <1>8 DEF ready
    <2>2. /\ Abs!Serve(t)
          /\ InState(PRSUSP)' = {p \in Pids : st1[p] = PRSUSP}
          /\ Lists(queuetab, ReadySeq(queuetab))'
      <3>1. st1[currpid] = PRCURR
        BY <1>3
      <3>2. st1 \in [Pids -> States]
        BY <1>3
      <3> HIDE DEF st1, qt1, s1
      <3> QED BY <1>5, <1>7, <2>1, <3>1, <3>2, ReschedServes
    <2>3. t = s \o <<pid, currpid>>
      <3>1. <<pid, currpid>> \in Seq(Pids) /\ Len(<<pid, currpid>>) = 2
        OBVIOUS
      <3>2. /\ t \in Seq(Pids) /\ Len(t) = Len(s) + 2
            /\ \A i \in 1 .. Len(s) : t[i] = s[i]
            /\ t[Len(s) + 1] = pid /\ t[Len(s) + 2] = currpid
        BY <1>1, <1>6
      <3>3. /\ s \o <<pid, currpid>> \in Seq(Pids)
            /\ Len(s \o <<pid, currpid>>) = Len(s) + 2
            /\ \A i \in 1 .. Len(s) : (s \o <<pid, currpid>>)[i] = s[i]
            /\ (s \o <<pid, currpid>>)[Len(s) + 1] = pid
            /\ (s \o <<pid, currpid>>)[Len(s) + 2] = currpid
        BY <1>1, <3>1
      <3>4. \A i \in 1 .. Len(t) : i \in 1 .. Len(s) \/ i = Len(s) + 1 \/ i = Len(s) + 2
        BY <1>1, <3>2
      <3>5. \A i \in 1 .. Len(t) : t[i] = (s \o <<pid, currpid>>)[i]
        <4> HIDE DEF t
        <4> QED BY <3>2, <3>3, <3>4
      <3> HIDE DEF t
      <3> QED BY <3>2, <3>3, <3>5, SeqEqual
    <2>4. Abs!Wake(pid)
      BY <1>3, <2>2, <2>3 DEF Abs!Wake, s
    <2> QED BY <2>2, <2>4 DEF Abs!AbsNext
  <1>9. CASE ~resch
    <2>1. state' = st1 /\ queuetab' = qt1 /\ currpid' = currpid
      BY <1>9 DEF ready
    <2>2. ReadySeq(queuetab)' = s1 /\ Lists(queuetab, ReadySeq(queuetab))'
      <3> HIDE DEF s1, qt1
      <3> QED BY <1>5, <2>1, SeqAfter
    <2>3. InState(PRSUSP)' = InState(PRSUSP) \ {pid}
      BY <1>3, <2>1 DEF InState
    <2>4. Abs!Wake(pid)
      BY <1>3, <2>1, <2>2, <2>3 DEF Abs!Wake, s
    <2> QED BY <2>2, <2>4 DEF Abs!AbsNext
  <1> QED BY <1>8, <1>9

\* kill() of another process takes it out of the sequence or of the suspended ones.
LEMMA KillotherDestroys ==
  ASSUME SeqInv, RunInv', currpid \in Pids, NEW pid \in Pids \ {currpid},
         state[pid] # PRFREE, killother(pid)
  PROVE  Abs!AbsNext /\ Lists(queuetab, ReadySeq(queuetab))'
  <1> DEFINE s == ReadySeq(queuetab)
  <1>0. PRFREE # PRCURR /\ PRFREE # PRSUSP /\ PRFREE # PRREADY
        /\ PRCURR # PRSUSP /\ PRCURR # PRREADY /\ PRSUSP # PRREADY
    BY DEF PRFREE, PRCURR, PRSUSP, PRREADY
  <1>1. /\ state \in [Pids -> States] /\ queuetab \in Table
        /\ InState(PRCURR) = {currpid}
        /\ s \in Seq(Pids) /\ Len(s) \in Nat /\ DOMAIN s = 1 .. Len(s)
        /\ InState(PRREADY) = {s[i] : i \in 1 .. Len(s)}
    BY SeqFacts
  <1>2. Lists(queuetab, s)
    BY DEF SeqInv
  <1>3. /\ currpid' = currpid
        /\ state' = [state EXCEPT ![pid] = PRFREE]
        /\ queuetab' = IF state[pid] = PRREADY THEN remove(queuetab, state, pid)
                       ELSE queuetab
    BY DEF killother
  <1>4. InState(PRSUSP)' = InState(PRSUSP) \ {pid}
    BY <1>0, <1>1, <1>3 DEF InState
  <1>5. CASE state[pid] = PRREADY
    <2>1. PICK k \in 1 .. Len(s) : s[k] = pid
      <3>1. pid \in InState(PRREADY)
        BY <1>5 DEF InState
      <3> QED BY <1>1, <3>1
    <2>2. queuetab' = remove(queuetab, state, s[k]) /\ state[s[k]] # PRFREE
      BY <1>0, <1>3, <1>5, <2>1
    <2>3. Lists(queuetab', Skip(s, k))
      <3> HIDE DEF s
      <3> QED BY <1>1, <1>2, <2>2, RemoveLists
    <2>4. ReadySeq(queuetab)' = Skip(s, k) /\ Lists(queuetab, ReadySeq(queuetab))'
      BY <2>3, SeqAfter
    <2>5. InState(PRSUSP)' = InState(PRSUSP)
      BY <1>0, <1>4, <1>5 DEF InState
    <2>6. Skip(s, k) = Abs!Without(s, k)
      BY DEF Skip, Abs!Without
    <2>7. Abs!Destroy(pid)
      BY <1>1, <1>3, <2>1, <2>4, <2>5, <2>6 DEF Abs!Destroy
    <2> QED BY <2>4, <2>7 DEF Abs!AbsNext
  <1>6. CASE state[pid] # PRREADY
    <2>1. queuetab' = queuetab /\ Lists(queuetab, ReadySeq(queuetab))'
          /\ ReadySeq(queuetab)' = ReadySeq(queuetab)
      BY <1>2, <1>3, <1>6
    <2>2. pid \in InState(PRSUSP)
      BY <1>0, <1>1, <1>6 DEF InState, States
    <2>3. Abs!Destroy(pid)
      BY <1>3, <1>4, <2>1, <2>2 DEF Abs!Destroy
    <2> QED BY <2>1, <2>3 DEF Abs!AbsNext
  <1> QED BY <1>5, <1>6

\* Every kernel call is a step of the round-robin queue, or none.
LEMMA NextServes ==
  SeqInv /\ [Next]_vars => [Abs!AbsNext]_(Abs!absvars) /\ SeqInv'
  <1> SUFFICES ASSUME SeqInv, [Next]_vars
               PROVE  [Abs!AbsNext]_(Abs!absvars) /\ SeqInv'
    OBVIOUS
  <1> DEFINE Goal == /\ Abs!AbsNext \/ UNCHANGED <<currpid, ReadySeq(queuetab), InState(PRSUSP)>>
                     /\ Lists(queuetab, ReadySeq(queuetab))'
  <1>0. PRFREE # PRCURR /\ PRFREE # PRSUSP /\ PRFREE # PRREADY
        /\ PRCURR # PRSUSP /\ PRCURR # PRREADY /\ PRSUSP # PRREADY
    BY DEF PRFREE, PRCURR, PRSUSP, PRREADY
  <1>1. IInv /\ RunInv /\ RunInv'
    BY NextRunInv DEF SeqInv, RunInv
  <1>2. /\ state \in [Pids -> States] /\ queuetab \in Table
        /\ currpid \in Pids => InState(PRCURR) = {currpid}
        /\ ReadySeq(queuetab) \in Seq(Pids)
        /\ InState(PRREADY) = {ReadySeq(queuetab)[i] : i \in 1 .. Len(ReadySeq(queuetab))}
        /\ Lists(queuetab, ReadySeq(queuetab))
    BY SeqFacts DEF SeqInv
  <1>3. SUFFICES Goal
    BY <1>1 DEF SeqInv, Abs!absvars
  <1>4. ASSUME NEW p \in Pids, NEW resch \in BOOLEAN, MainReady(p, resch) PROVE Goal
    <2>1. currpid \in Pids /\ state[p] = PRSUSP /\ ready(p, resch)
      BY <1>4, PidFacts DEF MainReady, MainRuns
    <2> QED BY <1>1, <2>1, ReadyWakes
  <1>5. ASSUME NEW p \in Pids, MainKill(p) PROVE Goal
    <2>1. currpid \in Pids /\ p \in Pids \ {currpid} /\ state[p] # PRFREE /\ killother(p)
      BY <1>5, PidFacts DEF MainKill, MainRuns, isbadpid
    <2> QED BY <1>1, <2>1, KillotherDestroys
  <1>6. CASE MainCreate
    <2>1. PICK r \in Pids \cup {SYSERR} : create(r)
      BY <1>6 DEF MainCreate
    <2>2. currpid \in Pids /\ UNCHANGED <<queuetab, currpid>>
      BY <1>6, PidFacts DEF MainCreate, MainRuns
    <2> QED BY <2>1, <2>2, CreateAdmits
  <1>7. CASE CreateNull
    <2>1. PICK r \in Pids \cup {SYSERR} : create(r)
      BY <1>7 DEF CreateNull
    <2>2. currpid \in Pids /\ UNCHANGED <<queuetab, currpid>>
      BY <1>7, PidFacts DEF CreateNull, MainRuns
    <2> QED BY <2>1, <2>2, CreateAdmits
  <1>8. CASE ReadyNull
    <2>1. CASE prnull = SYSERR
      BY <1>2, <1>8, <2>1 DEF ReadyNull, InState
    <2>2. CASE prnull # SYSERR
      <3>1. /\ prnull \in Pids /\ state[prnull] = PRSUSP /\ ready(prnull, FALSE)
            /\ currpid \in Pids
        BY <1>1, <1>8, <2>2, PidFacts DEF ReadyNull, IInv, BootInv, TypeOK
      <3> QED BY <1>1, <3>1, ReadyWakes
    <2> QED BY <2>1, <2>2
  <1>9. ASSUME resched(state, queuetab), currpid \in Pids PROVE Goal
    <2> DEFINE t == Append(ReadySeq(queuetab), currpid)
    <2>1. state[currpid] = PRCURR
      BY <1>2, <1>9 DEF InState
    <2>2. /\ Abs!Serve(t)
          /\ InState(PRSUSP)' = {p \in Pids : state[p] = PRSUSP}
          /\ Lists(queuetab, ReadySeq(queuetab))'
      <3>1. {p \in Pids : state[p] = PRREADY}
              = {ReadySeq(queuetab)[i] : i \in 1 .. Len(ReadySeq(queuetab))}
        BY <1>2 DEF InState
      <3> QED BY <1>1, <1>2, <1>9, <2>1, <3>1, ReschedServes
    <2>3. Abs!Yield
      BY <2>2 DEF Abs!Yield, InState
    <2> QED BY <1>9, <2>2, <2>3 DEF Abs!AbsNext
  <1>10. CASE MainResched
    BY <1>9, <1>10, PidFacts DEF MainResched, MainRuns
  <1>11. CASE UserYield
    BY <1>9, <1>11 DEF UserYield, UserRuns
  <1>12. ASSUME killself, currpid \in Pids PROVE Goal
    <2> DEFINE st1 == [state EXCEPT ![currpid] = PRFREE]
    <2>1. state[currpid] = PRCURR
      BY <1>2, <1>12 DEF InState
    <2>2. /\ st1 \in [Pids -> States] /\ st1[currpid] # PRCURR
          /\ {p \in Pids : st1[p] = PRREADY} = InState(PRREADY)
          /\ {p \in Pids : st1[p] = PRSUSP} = InState(PRSUSP)
      BY <1>0, <1>2, <1>12, <2>1 DEF InState, States
    <2>3. resched(st1, queuetab)
      BY <1>12 DEF killself
    <2>4. /\ Abs!Serve(ReadySeq(queuetab))
          /\ InState(PRSUSP)' = {p \in Pids : st1[p] = PRSUSP}
          /\ Lists(queuetab, ReadySeq(queuetab))'
      <3>1. {p \in Pids : st1[p] = PRREADY}
              = {ReadySeq(queuetab)[i] : i \in 1 .. Len(ReadySeq(queuetab))}
        BY <1>2, <2>2
      <3> HIDE DEF st1
      <3> QED BY <1>1, <1>2, <1>12, <2>2, <2>3, <3>1, ReschedServes
    <2>5. Abs!Exit
      BY <2>2, <2>4 DEF Abs!Exit
    <2> QED BY <1>12, <2>4, <2>5 DEF Abs!AbsNext
  <1>13. CASE KillMain
    BY <1>1, <1>12, <1>13, PidFacts DEF KillMain, IInv, BootInv
  <1>14. CASE UserKill
    BY <1>12, <1>14 DEF UserKill, UserRuns
  <1>15. CASE UNCHANGED vars
    BY <1>2, <1>15 DEF vars, InState
  <1> QED BY <1>4, <1>5, <1>6, <1>7, <1>8, <1>10, <1>11, <1>13, <1>14, <1>15 DEF Next

\* The scheduler implements the round-robin queue: create() admits, ready() and
\* a yielding resched() put a process last, resched() serves the first, kill()
\* takes one out, and nothing else moves a process.
THEOREM ImplementsRoundRobin == Spec => RoundRobin
  <1>1. Init => Abs!AbsInit /\ SeqInv
    <2> SUFFICES ASSUME Init PROVE Abs!AbsInit /\ SeqInv
      OBVIOUS
    <2>1. IInv /\ queuetab = newqueue /\ currpid = NULLPROC
      BY InitIInv DEF Init
    <2>2. InState(PRREADY) = {} /\ InState(PRSUSP) = {}
      BY PidFacts DEF Init, InState, PRFREE, PRCURR, PRREADY, PRSUSP
    <2>3. RunInv
      BY <2>1, <2>2, NewqueueOrdered, PidFacts
         DEF RunInv, ReadyOrdered, IdleIsEmpty
    <2>4. ReadySeq(queuetab) = <<>>
      <3>1. Lists(queuetab, <<>>) /\ queuetab \in Table /\ Linked(queuetab, {})
        BY <2>1, NewqueueLists, NewqueueLinked
      <3> QED BY <3>1, ReadySeqReads
    <2>5. Lists(queuetab, ReadySeq(queuetab))
      BY <2>1, <2>4, NewqueueLists
    <2> QED BY <2>1, <2>2, <2>3, <2>4, <2>5 DEF SeqInv, Abs!AbsInit
  <1>2. SeqInv /\ [Next]_vars => [Abs!AbsNext]_(Abs!absvars) /\ SeqInv'
    BY NextServes
  <1> QED BY <1>1, <1>2, PTL DEF Spec, RoundRobin, Abs!AbsSpec
=============================================================================
