------------------------------ MODULE NatSets -------------------------------
(***************************************************************************)
(* Induction over the naturals, stated with sets.  The theorems of         *)
(* NaturalsInduction range over predicates; these, over the set of the     *)
(* numbers that satisfy one.                                               *)
(***************************************************************************)
EXTENDS Integers, WellFoundedInduction, SequenceTheorems, TLAPS

\* A nonempty set of naturals has a least member.
LEMMA LeastMember ==
  ASSUME NEW S \in SUBSET Nat, S # {}
  PROVE  \E n \in S : \A m \in S : n <= m
<1>1. IsWellFoundedOn(OpToRel(<, Nat), Nat)
  BY NatLessThanWellFounded
<1>2. PICK n \in S : \A m \in S : ~ (<<m, n>> \in OpToRel(<, Nat))
  BY <1>1, WFMin
<1>3. \A m \in S : ~ (m < n)
  BY <1>2, Zenon DEF OpToRel
<1> QED BY <1>3

\* A set with 0 that is closed under successor has every natural number.
LEMMA SetInduction ==
  ASSUME NEW S, 0 \in S, \A n \in Nat : n \in S => n + 1 \in S
  PROVE  Nat \subseteq S
<1> SUFFICES ASSUME Nat \ S # {} PROVE FALSE
  OBVIOUS
<1>1. PICK n \in Nat \ S : \A m \in Nat \ S : n <= m
  <2> DEFINE T == Nat \ S
  <2>1. T \in SUBSET Nat /\ T # {}
    OBVIOUS
  <2> HIDE DEF T
  <2>2. PICK n \in T : \A m \in T : n <= m
    BY <2>1, LeastMember
  <2> QED BY <2>2 DEF T
<1>2. n - 1 \in Nat /\ n - 1 \in S
  BY <1>1
<1> QED BY <1>1, <1>2

\* A function on 1 .. n is a sequence of length n.
LEMMA FunctionIsSeq ==
  ASSUME NEW S, NEW n \in Nat, NEW s \in [1 .. n -> S]
  PROVE  s \in Seq(S) /\ Len(s) = n
<1>1. s \in Seq(S)
  BY SeqDef
<1>2. DOMAIN s = 1 .. n /\ DOMAIN s = 1 .. Len(s) /\ Len(s) \in Nat
  BY <1>1, LenProperties
<1> QED BY <1>1, <1>2

\* Running sums exist: the recurrence of a sum has a solution, up to any bound ...
LEMMA RunningSumUpTo ==
  ASSUME NEW v \in [Nat -> Nat], NEW b \in Nat
  PROVE  \E f \in [Nat -> Nat] : \A i \in Nat :
            i <= b => f[i] = (IF i = 0 THEN 0 ELSE f[i - 1]) + v[i]
<1> DEFINE Solves(f, n) == \A i \in Nat :
                              i <= n => f[i] = (IF i = 0 THEN 0 ELSE f[i - 1]) + v[i]
           S == {n \in Nat : \E f \in [Nat -> Nat] : Solves(f, n)}
<1>1. 0 \in S
  <2> DEFINE f == [i \in Nat |-> v[0]]
  <2>1. f \in [Nat -> Nat] /\ Solves(f, 0)
    OBVIOUS
  <2> HIDE DEF f, Solves
  <2> QED BY <2>1
<1>2. ASSUME NEW n \in Nat, n \in S PROVE n + 1 \in S
  <2>1. PICK f \in [Nat -> Nat] : Solves(f, n)
    BY <1>2
  <2> DEFINE g == [i \in Nat |-> IF i = n + 1 THEN f[n] + v[n + 1] ELSE f[i]]
  <2>2. g \in [Nat -> Nat]
    OBVIOUS
  <2>3. Solves(g, n + 1)
    <3> SUFFICES ASSUME NEW i \in Nat, i <= n + 1
                 PROVE  g[i] = (IF i = 0 THEN 0 ELSE g[i - 1]) + v[i]
      OBVIOUS
    <3>1. CASE i = n + 1
      BY <3>1
    <3>2. CASE i <= n
      BY <2>1, <3>2
    <3> QED BY <3>1, <3>2
  <2> HIDE DEF g, Solves
  <2> QED BY <2>2, <2>3
<1>3. b \in S
  <2> HIDE DEF S
  <2> QED BY <1>1, <1>2, SetInduction
<1> QED BY <1>3

\* ... and over an interval.
LEMMA RunningSum ==
  ASSUME NEW b \in Nat, NEW w \in [0 .. b -> Nat]
  PROVE  \E f \in [0 .. b -> Nat] :
            f = [i \in 0 .. b |-> (IF i = 0 THEN 0 ELSE f[i - 1]) + w[i]]
<1> DEFINE v == [i \in Nat |-> IF i <= b THEN w[i] ELSE 0]
<1>1. v \in [Nat -> Nat]
  OBVIOUS
<1>2. PICK f \in [Nat -> Nat] : \A i \in Nat :
            i <= b => f[i] = (IF i = 0 THEN 0 ELSE f[i - 1]) + v[i]
  <2> HIDE DEF v
  <2> QED BY <1>1, RunningSumUpTo
<1> DEFINE h == [i \in 0 .. b |-> f[i]]
           k == [i \in 0 .. b |-> (IF i = 0 THEN 0 ELSE h[i - 1]) + w[i]]
<1>3. h \in [0 .. b -> Nat]
  BY SMTT(20)
<1>4. \A i \in 0 .. b : h[i] = k[i]
  <2> SUFFICES ASSUME NEW i \in 0 .. b PROVE h[i] = k[i]
    OBVIOUS
  <2>1. CASE i = 0
    BY <2>1, <1>2
  <2>2. CASE i # 0
    <3>1. i \in Nat /\ i <= b /\ i - 1 \in 0 .. b
      BY <2>2
    <3>2. f[i] = f[i - 1] + w[i]
      BY <1>2, <2>2, <3>1
    <3> QED BY <2>2, <3>1, <3>2
  <2> QED BY <2>1, <2>2
<1>5. h = k
  BY <1>4
<1> QED BY <1>3, <1>5

\* f starts at a and makes the steps 1 .. n, each of its own kind.
Makes(f, steps, a, n) == f[0] = a /\ \A i \in 1 .. n : f[i] = steps[i][f[i - 1]]

\* Any number of steps can be made.
LEMMA Recurrence ==
  ASSUME NEW T, NEW b \in Nat, NEW steps \in [1 .. b -> [T -> T]], NEW a \in T
  PROVE  \E f \in [0 .. b -> T] : Makes(f, steps, a, b)
<1> DEFINE Steps(f, n) == Makes(f, steps, a, n)
           S == {n \in Nat : n <= b => \E f \in [0 .. n -> T] : Steps(f, n)}
<1>1. 0 \in S
  <2> DEFINE f == [i \in 0 .. 0 |-> a]
  <2>1. f \in [0 .. 0 -> T] /\ Steps(f, 0)
    BY DEF Makes
  <2> HIDE DEF f, Steps
  <2> QED BY <2>1
<1>2. ASSUME NEW n \in Nat, n \in S PROVE n + 1 \in S
  <2> SUFFICES ASSUME n + 1 <= b PROVE \E f \in [0 .. n + 1 -> T] : Steps(f, n + 1)
    OBVIOUS
  <2>1. PICK f \in [0 .. n -> T] : Steps(f, n)
    BY <1>2
  <2> DEFINE g == [i \in 0 .. n + 1 |-> IF i = n + 1 THEN steps[n + 1][f[n]] ELSE f[i]]
  <2>2. g \in [0 .. n + 1 -> T]
    OBVIOUS
  <2>3. Steps(g, n + 1)
    <3>1. g[0] = a
      BY <2>1 DEF Makes
    <3>2. ASSUME NEW i \in 1 .. n + 1 PROVE g[i] = steps[i][g[i - 1]]
      <4>1. CASE i = n + 1
        BY <4>1
      <4>2. CASE i \in 1 .. n
        BY <2>1, <4>2 DEF Makes
      <4> QED BY <4>1, <4>2
    <3> QED BY <3>1, <3>2 DEF Makes
  <2> HIDE DEF g, Steps
  <2> QED BY <2>2, <2>3
<1>3. b \in S
  <2> HIDE DEF S
  <2> QED BY <1>1, <1>2, SetInduction
<1> QED BY <1>3

\* f starts at a and goes on by step, n times.
Walks(f, step, a, n) == f[0] = a /\ \A i \in 1 .. n : f[i] = step[f[i - 1]]

\* Walks exist, of any number of steps.
LEMMA Iteration ==
  ASSUME NEW T, NEW step \in [T -> T], NEW a \in T, NEW b \in Nat
  PROVE  \E f \in [0 .. b -> T] : Walks(f, step, a, b)
<1> DEFINE steps == [i \in 1 .. b |-> step]
<1>1. steps \in [1 .. b -> [T -> T]]
  OBVIOUS
<1>2. PICK f \in [0 .. b -> T] : Makes(f, steps, a, b)
  <2> HIDE DEF steps
  <2> QED BY <1>1, Recurrence
<1> QED BY <1>2 DEF Makes, Walks
=============================================================================
