---------------------------- MODULE UserHeapProofs ----------------------------
(***************************************************************************)
(* The heaps of user processes for any number of processes, any layout of  *)
(* memory and all sizes that do not wrap in getmem() (NoWrap).             *)
(*                                                                         *)
(* The blocks: whatever getmem() takes, incheap() adds and freemem()       *)
(* joins, free blocks and blocks in use tile the heap.  A list of blocks   *)
(* is followed as the set of its members, and the units they cover are     *)
(* what getmem() and freemem() move from one side to the other.            *)
(*                                                                         *)
(* The pages: a page table is followed as a tree of pages that belong to   *)
(* nobody else (Tree, Space), which mapPage() extends by pages that were   *)
(* free and pgFreeTables() takes apart.  PageInv says whose every page is. *)
(*                                                                         *)
(* The memory: with the pages in place a block in use is a set of cells    *)
(* that no other block has, and the whole a memory in the sense of         *)
(* AbsMemory.                                                              *)
(***************************************************************************)
EXTENDS UserHeap, NatSets, FiniteSetTheorems

\* Sizes that a header can be added to and that can be rounded up to pages within
\* a uint.  getmem.c:34 does not look: a size that wraps gets less than it asked for.
NoWrap == SIZES \subseteq 1 .. UINT - PAGE_SIZE - 2 * MEMBLK

-----------------------------------------------------------------------------
(* Numbers.                                                                *)

LEMMA HeapNumbers ==
  /\ PAGE_SIZE \in Nat /\ PAGE_SIZE > 4 /\ PAGE_SIZE % 2 = 0 /\ UINT \in Nat
  /\ PROCHEAPVADDR \in Nat
  BY HeapAssumption, LayoutAssumption DEF MEMBLK, MEMHEAD

\* A multiple of an even number is even.
LEMMA EvenProduct ==
  ASSUME NEW x \in Nat, NEW y \in Nat, y % 2 = 0
  PROVE  x * y \in Nat /\ (x * y) % 2 = 0
<1>1. PICK h \in Nat : y = 2 * h
  <2>1. y \div 2 \in Nat /\ y = 2 * (y \div 2)
    OBVIOUS
  <2> QED BY <2>1
<1>2. x * h \in Nat /\ x * y = 2 * (x * h)
  BY <1>1
<1>3. \A k \in Nat : 2 * k \in Nat /\ (2 * k) % 2 = 0
  OBVIOUS
<1> QED BY <1>2, <1>3

\* Rounding up to pages.
LEMMA RoundPages ==
  ASSUME NEW n \in Nat \ {0}, NEW P \in Nat \ {0}
  PROVE  \E q \in Nat \ {0} : /\ roundup(n, P) = q * P /\ roundup(n, P) \div P = q
                              /\ n <= q * P /\ q * P <= n + P - 1
<1> DEFINE x == n + P - 1
           q == x \div P
<1>1. x \in Nat /\ x >= P
  OBVIOUS
<1>2. q \in Nat /\ q * P <= x /\ x < q * P + P
  BY <1>1
<1>3. q # 0
  BY <1>1, <1>2
<1>4. (q * P) \div P = q
  BY <1>2
<1>5. roundup(n, P) = q * P
  BY DEF roundup
<1> HIDE DEF q
<1> QED BY <1>2, <1>3, <1>4, <1>5

\* Rounding up to memblks, with the casts to uint.
LEMMA RoundBlocks ==
  /\ \A n \in Nat : roundmb(n) \in Nat /\ n <= roundmb(n) /\ roundmb(n) <= n + 1
                    /\ roundmb(n) % 2 = 0 /\ (n % 2 = 0 => roundmb(n) = n)
  /\ \A n \in 1 .. UINT - PAGE_SIZE - MEMBLK : uint(roundmb(uint(n))) = roundmb(n)
<1>1. ASSUME NEW n \in Nat
      PROVE  roundmb(n) \in Nat /\ n <= roundmb(n) /\ roundmb(n) <= n + 1
             /\ roundmb(n) % 2 = 0 /\ (n % 2 = 0 => roundmb(n) = n)
  BY DEF roundmb, roundup, MEMBLK
<1>2. ASSUME NEW n \in 1 .. UINT - PAGE_SIZE - MEMBLK
      PROVE  uint(roundmb(uint(n))) = roundmb(n)
  <2>1. n \in Nat /\ n < UINT /\ n + 1 < UINT
    BY HeapNumbers DEF MEMBLK
  <2>2. \A k \in Nat : k < UINT => uint(k) = k
    BY HeapNumbers DEF uint
  <2>3. roundmb(n) \in Nat /\ roundmb(n) < UINT
    BY <1>1, <2>1, HeapNumbers
  <2> QED BY <2>1, <2>2, <2>3
<1> QED BY <1>1, <1>2

-----------------------------------------------------------------------------
(* Blocks and what they cover.                                             *)

FreeBlk == {b \in [base : Nat, len : Nat \ {0}] : b.base % MEMBLK = 0 /\ b.len % MEMBLK = 0}
UsedBlk == {b \in [base : Nat, len : Nat, asked : 1 .. UINT - PAGE_SIZE - MEMBLK] :
                b.base % MEMBLK = 0 /\ b.len = roundmb(b.asked)}

Cover(B) == UNION {Span(b) : b \in B}
Apart(B) == \A b, c \in B : b # c => Span(b) \cap Span(c) = {}

LEMMA SpanIs ==
  ASSUME NEW b, NEW base \in Nat, NEW len \in Nat, b.base = base, b.len = len
  PROVE  Span(b) = base .. base + len - 1
<1>1. (base + len) - 1 = base + len - 1
  OBVIOUS
<1> QED BY <1>1 DEF Span, End

LEMMA BlkFacts ==
  ASSUME NEW base, NEW len
  PROVE  Blk(base, len).base = base /\ Blk(base, len).len = len
  BY DEF Blk

\* The span of a free block.
LEMMA FreeSpan ==
  ASSUME NEW b \in FreeBlk
  PROVE  /\ b.base \in Nat /\ b.len \in Nat /\ b.len >= 2 /\ b.base % 2 = 0 /\ b.len % 2 = 0
         /\ Span(b) = b.base .. End(b) - 1 /\ End(b) = b.base + b.len
         /\ b.base \in Span(b)
         /\ b = Blk(b.base, b.len)
<1>1. /\ b.base \in Nat /\ b.len \in Nat \ {0} /\ b.len % 2 = 0 /\ b.base % 2 = 0
      /\ b = Blk(b.base, b.len)
  BY DEF FreeBlk, Blk, MEMBLK
<1>2. b.len >= 2
  BY <1>1
<1> QED BY <1>1, <1>2 DEF Span, End

\* Adding a block to blocks that it does not overlap, ...
LEMMA AddCover ==
  ASSUME NEW B, NEW x, Apart(B), Span(x) \cap Cover(B) = {}
  PROVE  Apart(B \cup {x}) /\ Cover(B \cup {x}) = Cover(B) \cup Span(x)
<1>1. Cover(B \cup {x}) = Cover(B) \cup Span(x)
  BY DEF Cover
<1>2. ASSUME NEW b \in B PROVE Span(b) \cap Span(x) = {}
  BY DEF Cover
<1>3. Apart(B \cup {x})
  BY <1>2 DEF Apart
<1> QED BY <1>1, <1>3

\* ... and taking some away.
LEMMA DropCover ==
  ASSUME NEW B, NEW D, D \subseteq B, Apart(B)
  PROVE  /\ Apart(B \ D) /\ Apart(D) /\ Cover(B \ D) = Cover(B) \ Cover(D)
         /\ Cover(D) \subseteq Cover(B) /\ Cover(B) = Cover(B \ D) \cup Cover(D)
<1>1. ASSUME NEW u \in Cover(B \ D) PROVE u \notin Cover(D)
  <2>1. PICK b \in B \ D : u \in Span(b)
    BY <1>1 DEF Cover
  <2>2. \A d \in D : u \notin Span(d)
    BY <2>1 DEF Apart
  <2> QED BY <2>2 DEF Cover
<1>2. Cover(B) = Cover(B \ D) \cup Cover(D)
  BY DEF Cover
<1>3. Apart(B \ D) /\ Apart(D)
  BY DEF Apart
<1> QED BY <1>1, <1>2, <1>3

LEMMA CoverOne == \A x : Cover({x}) = Span(x)
  BY DEF Cover

LEMMA CoverNone == Cover({}) = {} /\ Apart({})
  BY DEF Cover, Apart

-----------------------------------------------------------------------------
(* Lists of blocks.                                                        *)

\* The list without its members after a and before b, with x in their place.
Spliced(list, a, x, b) == SubSeq(list, 1, a) \o x \o SubSeq(list, b, Len(list))

\* The members of a list that is spliced.
LEMMA Splice ==
  ASSUME NEW S, NEW list \in Seq(S), IsInjective(list),
         NEW a \in 0 .. Len(list), NEW b \in a + 1 .. Len(list) + 1, NEW x \in S,
         \A i \in 1 .. Len(list) : i <= a \/ i >= b => list[i] # x
  PROVE  LET new  == Spliced(list, a, <<x>>, b)
             gone == {list[i] : i \in a + 1 .. b - 1}
         IN /\ new \in Seq(S) /\ IsInjective(new)
            /\ ToSet(new) = (ToSet(list) \ gone) \cup {x}
<1> DEFINE n     == Len(list)
           front == SubSeq(list, 1, a)
           back  == SubSeq(list, b, n)
           m     == n - b + 1
           one   == front \o <<x>>
           new   == one \o back
           gone  == {list[i] : i \in a + 1 .. b - 1}
<1>1. n \in Nat /\ DOMAIN list = 1 .. n /\ m \in Nat /\ a \in Nat /\ b \in Nat
      /\ \A i \in 1 .. n : list[i] \in S
  BY LenProperties
<1>2. front \in Seq(S) /\ Len(front) = a /\ \A i \in 1 .. a : front[i] = list[i]
  <2>1. /\ front \in Seq(S) /\ Len(front) = IF 1 <= a THEN a - 1 + 1 ELSE 0
        /\ \A i \in 1 .. a - 1 + 1 : front[i] = list[1 + i - 1]
    BY <1>1, SubSeqProperties
  <2> QED BY <1>1, <2>1
<1>3. back \in Seq(S) /\ Len(back) = m /\ \A i \in 1 .. m : back[i] = list[b + i - 1]
  <2>1. /\ back \in Seq(S) /\ Len(back) = IF b <= n THEN n - b + 1 ELSE 0
        /\ \A i \in 1 .. n - b + 1 : back[i] = list[b + i - 1]
    BY <1>1, SubSeqProperties
  <2> QED BY <1>1, <2>1
<1>4. <<x>> \in Seq(S) /\ Len(<<x>>) = 1 /\ <<x>>[1] = x
  OBVIOUS
<1> HIDE DEF front, back, n, m
<1>5. /\ one \in Seq(S) /\ Len(one) = a + 1
      /\ \A i \in 1 .. a : one[i] = list[i]
      /\ one[a + 1] = x
  <2>1. /\ one \in Seq(S) /\ Len(one) = a + 1
        /\ \A i \in 1 .. a + 1 : one[i] = IF i <= a THEN front[i] ELSE <<x>>[i - a]
    <3>1. /\ one \in Seq(S) /\ Len(one) = Len(front) + Len(<<x>>)
          /\ \A i \in 1 .. Len(front) + Len(<<x>>) :
                 one[i] = IF i <= Len(front) THEN front[i] ELSE <<x>>[i - Len(front)]
      BY <1>2, <1>4, ConcatProperties
    <3> QED BY <1>2, <1>4, <3>1
  <2>2. a + 1 \in 1 .. a + 1 /\ ~ (a + 1 <= a) /\ (a + 1) - a = 1
        /\ \A i \in 1 .. a : i \in 1 .. a + 1 /\ i <= a
    BY <1>1
  <2> HIDE DEF one
  <2>3. one[a + 1] = <<x>>[1]
    BY <2>1, <2>2
  <2> QED BY <1>2, <1>4, <2>1, <2>2, <2>3
<1> HIDE DEF one
<1>6. /\ new \in Seq(S) /\ Len(new) = a + 1 + m
      /\ \A i \in 1 .. a : new[i] = list[i]
      /\ new[a + 1] = x
      /\ \A i \in 1 .. m : new[a + 1 + i] = list[b + i - 1]
  <2>1. /\ new \in Seq(S) /\ Len(new) = a + 1 + m
        /\ \A i \in 1 .. a + 1 + m : new[i] = IF i <= a + 1 THEN one[i] ELSE back[i - (a + 1)]
    <3>1. /\ new \in Seq(S) /\ Len(new) = Len(one) + Len(back)
          /\ \A i \in 1 .. Len(one) + Len(back) :
                 new[i] = IF i <= Len(one) THEN one[i] ELSE back[i - Len(one)]
      BY <1>3, <1>5, ConcatProperties
    <3> QED BY <1>3, <1>5, <3>1
  <2>2. a + 1 \in 1 .. a + 1 + m /\ \A i \in 1 .. a : i \in 1 .. a + 1 + m /\ i <= a + 1
    BY <1>1
  <2>3. \A i \in 1 .. m : /\ a + 1 + i \in 1 .. a + 1 + m /\ ~ (a + 1 + i <= a + 1)
                          /\ (a + 1 + i) - (a + 1) = i
    BY <1>1
  <2> HIDE DEF new
  <2>4. \A i \in 1 .. m : new[a + 1 + i] = back[i]
    BY <2>1, <2>3
  <2>5. \A i \in 1 .. a : new[i] = one[i]
    BY <2>1, <2>2
  <2>6. new[a + 1] = one[a + 1]
    BY <1>1, <2>1, <2>2
  <2> QED BY <1>3, <1>5, <2>1, <2>4, <2>5, <2>6
<1>7. new = Spliced(list, a, <<x>>, b)
  BY DEF Spliced, one, front, back, n
<1> HIDE DEF new
<1>8. DOMAIN new = 1 .. a + 1 + m
  BY <1>6, LenProperties
\* where the members of the new list were in the old one
<1> DEFINE old == [i \in 1 .. a + 1 + m |-> IF i <= a THEN i ELSE i - a - 2 + b]
<1>0. \A i \in DOMAIN new : old[i] = IF i <= a THEN i ELSE i - a - 2 + b
  BY <1>8
<1> HIDE DEF old
<1>9. \A i \in DOMAIN new :
         i # a + 1 => /\ new[i] = list[old[i]] /\ old[i] \in 1 .. n
                      /\ (old[i] <= a \/ old[i] >= b)
  <2> SUFFICES ASSUME NEW i \in DOMAIN new, i # a + 1
               PROVE  /\ new[i] = list[old[i]] /\ old[i] \in 1 .. n
                      /\ (old[i] <= a \/ old[i] >= b)
    OBVIOUS
  <2>1. CASE i <= a
    BY <1>0, <1>1, <1>6, <1>8, <2>1 DEF n
  <2>2. CASE i > a + 1
    <3>1. i - a - 1 \in 1 .. m
      BY <1>1, <1>8, <2>2
    <3>2. new[a + 1 + (i - a - 1)] = list[b + (i - a - 1) - 1]
      BY <1>6, <3>1
    <3>3. a + 1 + (i - a - 1) = i /\ b + (i - a - 1) - 1 = old[i]
      <4>1. old[i] = i - a - 2 + b
        BY <1>0, <1>1, <1>8, <2>2
      <4> QED BY <1>1, <1>8, <4>1, SMTT(20)
    <3>4. old[i] \in 1 .. n /\ old[i] >= b
      BY <1>1, <3>1, <3>3 DEF m
    <3> QED BY <3>2, <3>3, <3>4
  <2> QED BY <1>1, <1>8, <2>1, <2>2
<1>10. \A i, j \in DOMAIN new : i # a + 1 /\ j # a + 1 /\ old[i] = old[j] => i = j
  BY <1>0, <1>1, <1>8, SMTT(20)
<1>11. \A i, j \in DOMAIN list : list[i] = list[j] => i = j
  BY DEF IsInjective
<1>12. \A i \in DOMAIN new : i # a + 1 => new[i] # x
  BY <1>9 DEF n
<1>13. IsInjective(new)
  <2> SUFFICES ASSUME NEW i \in DOMAIN new, NEW j \in DOMAIN new, new[i] = new[j]
               PROVE  i = j
    BY DEF IsInjective
  <2>1. CASE i = a + 1
    BY <1>6, <1>12, <2>1
  <2>2. CASE j = a + 1
    BY <1>6, <1>12, <2>2
  <2>3. CASE i # a + 1 /\ j # a + 1
    <3>1. list[old[i]] = list[old[j]] /\ old[i] \in DOMAIN list /\ old[j] \in DOMAIN list
      BY <1>1, <1>9, <2>3
    <3>2. old[i] = old[j]
      BY <1>11, <3>1
    <3> QED BY <1>10, <2>3, <3>2
  <2> QED BY <2>1, <2>2, <2>3
<1>14. ToSet(new) = (ToSet(list) \ gone) \cup {x}
  <2>1. ASSUME NEW i \in DOMAIN new PROVE new[i] \in (ToSet(list) \ gone) \cup {x}
    <3>1. CASE i = a + 1
      BY <1>6, <3>1
    <3>2. CASE i # a + 1
      <4>1. new[i] = list[old[i]] /\ old[i] \in DOMAIN list /\ (old[i] <= a \/ old[i] >= b)
        BY <1>1, <1>9, <3>2
      <4>2. list[old[i]] \notin gone
        <5> SUFFICES ASSUME NEW j \in a + 1 .. b - 1, list[old[i]] = list[j] PROVE FALSE
          OBVIOUS
        <5>1. j \in DOMAIN list
          BY <1>1 DEF n
        <5>2. old[i] = j
          BY <1>11, <4>1, <5>1
        <5> QED BY <1>1, <4>1, <5>2
      <4> QED BY <4>1, <4>2 DEF ToSet
    <3> QED BY <3>1, <3>2
  <2>2. ASSUME NEW j \in DOMAIN list, list[j] \notin gone PROVE list[j] \in ToSet(new)
    <3>1. j \in 1 .. n /\ (j <= a \/ j >= b)
      <4>1. j \notin a + 1 .. b - 1
        BY <2>2
      <4> QED BY <1>1, <4>1
    <3>2. CASE j <= a
      BY <1>1, <1>6, <1>8, <3>1, <3>2 DEF ToSet
    <3>3. CASE j >= b
      <4>1. j - b + 1 \in 1 .. m /\ b + (j - b + 1) - 1 = j
        BY <1>1, <3>1, <3>3 DEF m
      <4>2. new[a + 1 + (j - b + 1)] = list[j]
        BY <1>6, <4>1
      <4>3. a + 1 + (j - b + 1) \in DOMAIN new
        BY <1>1, <1>8, <4>1
      <4> QED BY <4>2, <4>3 DEF ToSet
    <3> QED BY <3>1, <3>2, <3>3
  <2>3. x \in ToSet(new)
    <3>1. a + 1 \in DOMAIN new
      BY <1>1, <1>8
    <3> QED BY <1>6, <3>1 DEF ToSet
  <2>4. ToSet(new) \subseteq (ToSet(list) \ gone) \cup {x}
    <3> HIDE DEF gone
    <3> QED BY <2>1 DEF ToSet
  <2>5. ToSet(list) \ gone \subseteq ToSet(new)
    <3> HIDE DEF gone
    <3> SUFFICES ASSUME NEW y \in ToSet(list) \ gone PROVE y \in ToSet(new)
      OBVIOUS
    <3>1. PICK j \in DOMAIN list : y = list[j]
      BY DEF ToSet
    <3> QED BY <2>2, <3>1
  <2> QED BY <2>3, <2>4, <2>5
<1> QED BY <1>6, <1>7, <1>13, <1>14

\* The members of a list without its i-th.
LEMMA Removal ==
  ASSUME NEW S, NEW list \in Seq(S), IsInjective(list), NEW i \in DOMAIN list
  PROVE  /\ RemoveAt(list, i) \in Seq(S) /\ IsInjective(RemoveAt(list, i))
         /\ ToSet(RemoveAt(list, i)) = ToSet(list) \ {list[i]}
<1> DEFINE n     == Len(list)
           front == SubSeq(list, 1, i - 1)
           back  == SubSeq(list, i + 1, n)
           new   == front \o back
<1>1. n \in Nat /\ DOMAIN list = 1 .. n /\ i \in Nat /\ i >= 1 /\ i <= n
  BY LenProperties
<1>2. /\ front \in Seq(S) /\ Len(front) = i - 1
      /\ \A j \in 1 .. i - 1 : front[j] = list[j]
  <2>1. /\ front \in Seq(S) /\ Len(front) = IF 1 <= i - 1 THEN (i - 1) - 1 + 1 ELSE 0
        /\ \A j \in 1 .. (i - 1) - 1 + 1 : front[j] = list[1 + j - 1]
    BY <1>1, SubSeqProperties
  <2> QED BY <1>1, <2>1
<1>3. /\ back \in Seq(S) /\ Len(back) = n - i
      /\ \A j \in 1 .. n - i : back[j] = list[i + j]
  <2>1. /\ back \in Seq(S) /\ Len(back) = IF i + 1 <= n THEN n - (i + 1) + 1 ELSE 0
        /\ \A j \in 1 .. n - (i + 1) + 1 : back[j] = list[i + 1 + j - 1]
    BY <1>1, SubSeqProperties
  <2> QED BY <1>1, <2>1
<1> HIDE DEF front, back, n
<1>4. /\ new \in Seq(S) /\ Len(new) = n - 1
      /\ \A j \in 1 .. n - 1 : new[j] = list[IF j < i THEN j ELSE j + 1]
  <2>1. /\ new \in Seq(S) /\ Len(new) = (i - 1) + (n - i)
        /\ \A j \in 1 .. (i - 1) + (n - i) :
               new[j] = IF j <= i - 1 THEN front[j] ELSE back[j - (i - 1)]
    <3>1. /\ new \in Seq(S) /\ Len(new) = Len(front) + Len(back)
          /\ \A j \in 1 .. Len(front) + Len(back) :
                 new[j] = IF j <= Len(front) THEN front[j] ELSE back[j - Len(front)]
      BY <1>2, <1>3, ConcatProperties
    <3> QED BY <1>2, <1>3, <3>1
  <2> HIDE DEF new
  <2>2. ASSUME NEW j \in 1 .. n - 1 PROVE new[j] = list[IF j < i THEN j ELSE j + 1]
    <3>0. j \in 1 .. (i - 1) + (n - i) /\ j \in Nat
      BY <1>1
    <3>1. CASE j < i
      <4>1. j <= i - 1 /\ j \in 1 .. i - 1
        BY <1>1, <3>0, <3>1
      <4> QED BY <1>2, <2>1, <3>0, <3>1, <4>1
    <3>2. CASE j >= i
      <4>1. j - (i - 1) \in 1 .. n - i /\ i + (j - (i - 1)) = j + 1 /\ ~ (j <= i - 1) /\ ~ (j < i)
        BY <1>1, <3>0, <3>2
      <4>2. back[j - (i - 1)] = list[j + 1]
        BY <1>3, <4>1
      <4> QED BY <2>1, <3>0, <4>1, <4>2
    <3> QED BY <1>1, <3>0, <3>1, <3>2
  <2> QED BY <1>1, <2>1, <2>2
<1>5. new = RemoveAt(list, i)
  BY DEF RemoveAt, front, back, n
<1> HIDE DEF new
<1>6. DOMAIN new = 1 .. n - 1
  BY <1>4, LenProperties
<1>7. \A j, k \in DOMAIN list : list[j] = list[k] => j = k
  BY DEF IsInjective
<1> DEFINE old == [j \in 1 .. n - 1 |-> IF j < i THEN j ELSE j + 1]
<1>0. \A j \in DOMAIN new : old[j] = IF j < i THEN j ELSE j + 1
  BY <1>6
<1> HIDE DEF old
<1>8. \A j \in DOMAIN new : new[j] = list[old[j]] /\ old[j] \in DOMAIN list \ {i}
  BY <1>0, <1>1, <1>4, <1>6
<1>9. \A j, k \in DOMAIN new : old[j] = old[k] => j = k
  BY <1>0, <1>1, <1>6
<1>10. \A k \in DOMAIN list \ {i} : \E j \in DOMAIN new : k = old[j]
  <2> SUFFICES ASSUME NEW k \in DOMAIN list \ {i} PROVE \E j \in DOMAIN new : k = old[j]
    OBVIOUS
  <2>1. CASE k < i
    BY <1>0, <1>1, <1>6, <2>1
  <2>2. CASE k > i
    <3>1. k - 1 \in DOMAIN new /\ k = old[k - 1]
      BY <1>0, <1>1, <1>6, <2>2
    <3> QED BY <3>1
  <2> QED BY <1>1, <2>1, <2>2
<1>11. IsInjective(new)
  BY <1>7, <1>8, <1>9 DEF IsInjective
<1>12. ToSet(new) = ToSet(list) \ {list[i]}
  <2>1. \A j \in DOMAIN new : new[j] \in ToSet(list) \ {list[i]}
    BY <1>7, <1>8 DEF ToSet
  <2>2. \A y \in ToSet(list) \ {list[i]} : y \in ToSet(new)
    <3> SUFFICES ASSUME NEW y \in ToSet(list) \ {list[i]} PROVE y \in ToSet(new)
      OBVIOUS
    <3>1. PICK k \in DOMAIN list \ {i} : y = list[k]
      BY DEF ToSet
    <3>2. PICK j \in DOMAIN new : k = old[j]
      BY <1>10, <3>1
    <3> QED BY <1>8, <3>1, <3>2 DEF ToSet
  <2> QED BY <2>1, <2>2 DEF ToSet
<1> QED BY <1>4, <1>5, <1>11, <1>12

\* The members of a list with x in the place of its i-th.
LEMMA Replacement ==
  ASSUME NEW S, NEW list \in Seq(S), IsInjective(list), NEW i \in DOMAIN list,
         NEW x \in S, x \notin ToSet(list)
  PROVE  LET new == [list EXCEPT ![i] = x]
         IN /\ new \in Seq(S) /\ IsInjective(new)
            /\ ToSet(new) = (ToSet(list) \ {list[i]}) \cup {x}
<1> DEFINE new == [list EXCEPT ![i] = x]
<1>1. Len(list) \in Nat /\ DOMAIN list = 1 .. Len(list) /\ list \in [1 .. Len(list) -> S]
  BY LenProperties
<1>2. new \in [1 .. Len(list) -> S]
  BY <1>1
<1>3. new \in Seq(S)
  <2> HIDE DEF new
  <2> QED BY <1>1, <1>2, FunctionIsSeq
<1>4. /\ DOMAIN new = DOMAIN list /\ new[i] = x
      /\ \A j \in DOMAIN list : j # i => new[j] = list[j]
  BY <1>1
<1> HIDE DEF new
<1>5. \A j \in DOMAIN list : list[j] # x
  BY DEF ToSet
<1>6. \A j, k \in DOMAIN list : list[j] = list[k] => j = k
  BY DEF IsInjective
<1>7. IsInjective(new)
  BY <1>4, <1>5, <1>6 DEF IsInjective
<1>8. ToSet(new) = (ToSet(list) \ {list[i]}) \cup {x}
  BY <1>4, <1>6 DEF ToSet
<1> QED BY <1>3, <1>7, <1>8 DEF new

\* The members of a list with x in front.
LEMMA Prepended ==
  ASSUME NEW S, NEW list \in Seq(S), IsInjective(list), NEW x \in S, x \notin ToSet(list)
  PROVE  LET new == <<x>> \o list
         IN /\ new \in Seq(S) /\ IsInjective(new) /\ ToSet(new) = ToSet(list) \cup {x}
            /\ DOMAIN new = 1 .. Len(new) /\ Len(new) \in Nat \ {0} /\ new[1] = x
<1> DEFINE new == <<x>> \o list
           n   == Len(list)
<1>1. n \in Nat /\ DOMAIN list = 1 .. n /\ \A i \in DOMAIN list : list[i] # x
  BY LenProperties DEF ToSet
<1>2. <<x>> \in Seq(S) /\ Len(<<x>>) = 1 /\ <<x>>[1] = x
  OBVIOUS
<1>3. /\ new \in Seq(S) /\ Len(new) = n + 1
      /\ new[1] = x /\ \A i \in 1 .. n : new[i + 1] = list[i]
  <2>1. /\ new \in Seq(S) /\ Len(new) = 1 + n
        /\ \A i \in 1 .. 1 + n : new[i] = IF i <= 1 THEN <<x>>[i] ELSE list[i - 1]
    BY <1>2, ConcatProperties
  <2> HIDE DEF new, n
  <2>2. \A i \in 1 .. n : i + 1 \in 1 .. 1 + n /\ ~ (i + 1 <= 1) /\ (i + 1) - 1 = i
    BY <1>1
  <2>3. new[1] = x
    BY <1>1, <1>2, <2>1
  <2> QED BY <1>1, <2>1, <2>2, <2>3
<1> HIDE DEF new, n
<1>4. DOMAIN new = 1 .. n + 1
  BY <1>3, LenProperties
<1>5. \A i \in DOMAIN new : i = 1 \/ (i - 1 \in DOMAIN list /\ new[i] = list[i - 1])
  <2> SUFFICES ASSUME NEW i \in DOMAIN new, i # 1
               PROVE  i - 1 \in DOMAIN list /\ new[i] = list[i - 1]
    OBVIOUS
  <2>1. i - 1 \in 1 .. n /\ (i - 1) + 1 = i
    BY <1>1, <1>4
  <2> QED BY <1>1, <1>3, <2>1
<1>6. IsInjective(new)
  <2> SUFFICES ASSUME NEW i \in DOMAIN new, NEW j \in DOMAIN new, new[i] = new[j]
               PROVE  i = j
    BY DEF IsInjective
  <2>1. CASE i = 1 \/ j = 1
    BY <1>1, <1>3, <1>5, <2>1
  <2>2. CASE i # 1 /\ j # 1
    <3>1. i - 1 = j - 1
      BY <1>5, <2>2 DEF IsInjective
    <3> QED BY <1>1, <1>4, <3>1
  <2> QED BY <2>1, <2>2
<1>7. ToSet(new) = ToSet(list) \cup {x}
  <2>1. \A i \in DOMAIN new : new[i] \in ToSet(list) \cup {x}
    BY <1>3, <1>5 DEF ToSet
  <2>2. \A i \in DOMAIN list : i + 1 \in DOMAIN new /\ new[i + 1] = list[i]
    BY <1>1, <1>3, <1>4
  <2>3. 1 \in DOMAIN new
    BY <1>1, <1>4
  <2>4. \A y \in ToSet(list) : y \in ToSet(new)
    BY <2>2 DEF ToSet
  <2>5. x \in ToSet(new)
    BY <1>3, <2>3 DEF ToSet
  <2>6. ToSet(new) \subseteq ToSet(list) \cup {x}
    BY <2>1 DEF ToSet
  <2> QED BY <2>4, <2>5, <2>6
<1> QED BY <1>1, <1>3, <1>4, <1>6, <1>7 DEF new

-----------------------------------------------------------------------------
(* Memheads.                                                               *)

\* The memhead h lists the blocks F, and counts their units.
Holds(h, F) ==
    /\ h.free \in Seq(FreeBlk) /\ IsInjective(h.free) /\ ToSet(h.free) = F
    /\ Apart(F)
    /\ IsFiniteSet(Cover(F)) /\ h.length = Cardinality(Cover(F))

LEMMA HoldsFacts ==
  ASSUME NEW h, NEW F, Holds(h, F)
  PROVE  /\ F \subseteq FreeBlk /\ Len(h.free) \in Nat /\ DOMAIN h.free = 1 .. Len(h.free)
         /\ \A i \in DOMAIN h.free : h.free[i] \in F
         /\ \A b \in F : Span(b) \subseteq Cover(F)
<1>1. /\ Len(h.free) \in Nat /\ DOMAIN h.free = 1 .. Len(h.free)
      /\ \A i \in DOMAIN h.free : h.free[i] \in FreeBlk
  BY LenProperties DEF Holds
<1>2. F = {h.free[i] : i \in DOMAIN h.free}
  BY DEF Holds, ToSet
<1>3. \A b \in F : Span(b) \subseteq Cover(F)
  BY DEF Cover
<1> QED BY <1>1, <1>2, <1>3

\* How many units there are between two addresses, and what remains of a finite set.
LEMMA UnitsBetween ==
  ASSUME NEW a \in Nat, NEW n \in Nat
  PROVE  IsFiniteSet(a .. a + n - 1) /\ Cardinality(a .. a + n - 1) = n
<1>1. a \in Int /\ a + n - 1 \in Int
  OBVIOUS
<1>2. /\ IsFiniteSet(a .. a + n - 1)
      /\ Cardinality(a .. a + n - 1) = IF a > a + n - 1 THEN 0 ELSE (a + n - 1) - a + 1
  BY <1>1, FS_Interval
<1>3. (IF a > a + n - 1 THEN 0 ELSE (a + n - 1) - a + 1) = n
  OBVIOUS
<1> QED BY <1>2, <1>3

LEMMA UnitsLeft ==
  ASSUME NEW X, IsFiniteSet(X), NEW Y \in SUBSET X
  PROVE  /\ IsFiniteSet(X \ Y) /\ Cardinality(X \ Y) = Cardinality(X) - Cardinality(Y)
         /\ Cardinality(X) \in Nat /\ Cardinality(Y) \in Nat
<1>1. IsFiniteSet(X \ Y) /\ Cardinality(X \ Y) = Cardinality(X) - Cardinality(X \cap Y)
  BY FS_Difference
<1>2. X \cap Y = Y
  OBVIOUS
<1>3. IsFiniteSet(Y)
  BY FS_Subset
<1>4. Cardinality(X) \in Nat /\ Cardinality(Y) \in Nat
  BY <1>3, FS_CardinalityType
<1> QED BY <1>1, <1>2, <1>4

LEMMA UnitsAdded ==
  ASSUME NEW X, IsFiniteSet(X), NEW Y, IsFiniteSet(Y), X \cap Y = {}
  PROVE  IsFiniteSet(X \cup Y) /\ Cardinality(X \cup Y) = Cardinality(X) + Cardinality(Y)
<1>1. /\ IsFiniteSet(X \cup Y)
      /\ Cardinality(X \cup Y) = Cardinality(X) + Cardinality(Y) - Cardinality(X \cap Y)
  BY FS_Union
<1>2. Cardinality(X \cap Y) = 0
  BY FS_EmptySet
<1>3. Cardinality(X) \in Nat /\ Cardinality(Y) \in Nat
  BY FS_CardinalityType
<1>4. Cardinality(X) + Cardinality(Y) - 0 = Cardinality(X) + Cardinality(Y)
  BY <1>3
<1> QED BY <1>1, <1>2, <1>4

\* getmem() takes the first n units of a block that has them.
LEMMA TakeGives ==
  ASSUME NEW h, NEW F, Holds(h, F), NEW i \in DOMAIN h.free,
         NEW n \in Nat \ {0}, n % 2 = 0, h.free[i].len >= n
  PROVE  LET piece == h.free[i].base .. h.free[i].base + n - 1
         IN /\ piece \subseteq Cover(F)
            /\ \E G : Holds(Take(h, i, n), G) /\ Cover(G) = Cover(F) \ piece
<1> DEFINE c     == h.free[i]
           piece == c.base .. c.base + n - 1
           rest  == Blk(c.base + n, c.len - n)
           new   == Take(h, i, n)
<1>1. c \in F /\ c \in FreeBlk /\ Span(c) \subseteq Cover(F)
  BY HoldsFacts
<1>2. /\ c.base \in Nat /\ c.len \in Nat /\ c.len >= 2 /\ c.len % 2 = 0 /\ c.base % 2 = 0
      /\ Span(c) = c.base .. c.base + c.len - 1
  BY <1>1, FreeSpan, SMTT(20)
<1>3. /\ h.free \in Seq(FreeBlk) /\ IsInjective(h.free) /\ ToSet(h.free) = F
      /\ Apart(F) /\ IsFiniteSet(Cover(F)) /\ h.length = Cardinality(Cover(F))
  BY DEF Holds
<1>0. c.len >= n
  OBVIOUS
<1> HIDE DEF c
<1>4. piece \subseteq Cover(F)
  <2>1. piece \subseteq Span(c)
    BY <1>0, <1>2
  <2> QED BY <1>1, <2>1
<1>5. IsFiniteSet(Cover(F) \ piece) /\ Cardinality(Cover(F) \ piece) = h.length - n
  <2>1. Cardinality(piece) = n
    BY <1>2, UnitsBetween
  <2> HIDE DEF piece
  <2>2. IsFiniteSet(Cover(F) \ piece)
        /\ Cardinality(Cover(F) \ piece) = Cardinality(Cover(F)) - Cardinality(piece)
    BY <1>3, <1>4, UnitsLeft
  <2> QED BY <1>3, <2>1, <2>2
<1>6. /\ Apart(F \ {c}) /\ Cover(F \ {c}) = Cover(F) \ Span(c)
  <2>1. {c} \subseteq F
    BY <1>1
  <2>2. Apart(F \ {c}) /\ Cover(F \ {c}) = Cover(F) \ Cover({c})
    BY <1>3, <2>1, DropCover
  <2> QED BY <2>2, CoverOne
<1>7. CASE c.len - n >= 2
  <2>1. new.free = [h.free EXCEPT ![i] = rest] /\ new.length = h.length - n
    BY <1>7 DEF Take, MEMBLK, c
  <2>2. rest \in FreeBlk
    <3>1. /\ c.base + n \in Nat /\ (c.base + n) % 2 = 0
          /\ c.len - n \in Nat \ {0} /\ (c.len - n) % 2 = 0
      <4>1. \A a, l \in Nat : a % 2 = 0 /\ l % 2 = 0 /\ l - n >= 2 =>
               /\ a + n \in Nat /\ (a + n) % 2 = 0
               /\ l - n \in Nat \ {0} /\ (l - n) % 2 = 0
        OBVIOUS
      <4> HIDE DEF new
      <4> QED BY <1>2, <1>7, <4>1
    <3> QED BY <3>1 DEF FreeBlk, Blk, MEMBLK
  <2>3. Span(rest) = c.base + n .. c.base + c.len - 1 /\ c.base + n \in Span(rest)
    <3>1. rest.base = c.base + n /\ rest.len = c.len - n
      BY BlkFacts
    <3>2. Span(rest) = rest.base .. rest.base + rest.len - 1 /\ rest.base \in Span(rest)
      BY <2>2, FreeSpan
    <3>3. (c.base + n) + (c.len - n) - 1 = c.base + c.len - 1
      BY <1>0, <1>2
    <3> QED BY <3>1, <3>2, <3>3
  <2>4. /\ Span(rest) \subseteq Span(c) /\ piece \cap Span(rest) = {}
        /\ Span(c) = piece \cup Span(rest)
    <3>1. \A a, l \in Nat : l - n >= 2 =>
             /\ a + n .. a + l - 1 \subseteq a .. a + l - 1
             /\ (a .. a + n - 1) \cap (a + n .. a + l - 1) = {}
             /\ a .. a + l - 1 = (a .. a + n - 1) \cup (a + n .. a + l - 1)
      OBVIOUS
    <3>2. /\ c.base + n .. c.base + c.len - 1 \subseteq c.base .. c.base + c.len - 1
          /\ piece \cap (c.base + n .. c.base + c.len - 1) = {}
          /\ c.base .. c.base + c.len - 1 = piece \cup (c.base + n .. c.base + c.len - 1)
      BY <1>2, <1>7, <3>1
    <3> HIDE DEF piece, rest, new
    <3> QED BY <1>2, <2>3, <3>2
  <2>5. rest \notin F
    <3> SUFFICES ASSUME rest \in F PROVE FALSE
      OBVIOUS
    <3>1. rest # c
      <4>1. rest.base = c.base + n
        BY BlkFacts
      <4> QED BY <1>2, <4>1
    <3>2. Span(rest) \cap Span(c) = {}
      BY <1>1, <1>3, <3>1 DEF Apart
    <3> QED BY <2>3, <2>4, <3>2
  <2> DEFINE G == (F \ {c}) \cup {rest}
  <2>6. /\ new.free \in Seq(FreeBlk) /\ IsInjective(new.free) /\ ToSet(new.free) = G
    <3> HIDE DEF rest, new
    <3>1. LET list == [h.free EXCEPT ![i] = rest]
          IN /\ list \in Seq(FreeBlk) /\ IsInjective(list)
             /\ ToSet(list) = (ToSet(h.free) \ {h.free[i]}) \cup {rest}
      BY <1>3, <2>2, <2>5, Replacement
    <3> QED BY <1>3, <2>1, <3>1 DEF c
  <2>7. Apart(G) /\ Cover(G) = Cover(F \ {c}) \cup Span(rest)
    <3>1. Span(rest) \cap Cover(F \ {c}) = {}
      BY <1>6, <2>4
    <3> HIDE DEF rest
    <3> QED BY <1>6, <3>1, AddCover
  <2>8. Cover(G) = Cover(F) \ piece
    <3> HIDE DEF piece, rest, G
    <3> QED BY <1>1, <1>6, <2>4, <2>7
  <2> HIDE DEF G, new
  <2>9. Holds(new, G)
    BY <1>5, <2>1, <2>6, <2>7, <2>8 DEF Holds
  <2> QED BY <1>4, <2>8, <2>9 DEF new, c
<1>8. CASE ~ (c.len - n >= 2)
  <2>1. c.len = n
    BY <1>0, <1>2, <1>8
  <2>2. new.free = RemoveAt(h.free, i) /\ new.length = h.length - n
    BY <1>8, <2>1 DEF Take, MEMBLK, c
  <2>3. /\ new.free \in Seq(FreeBlk) /\ IsInjective(new.free) /\ ToSet(new.free) = F \ {c}
    BY <1>3, <2>2, Removal DEF c
  <2>4. Cover(F \ {c}) = Cover(F) \ piece
    BY <1>2, <1>6, <2>1
  <2> HIDE DEF new
  <2>5. Holds(new, F \ {c})
    BY <1>5, <1>6, <2>2, <2>3, <2>4 DEF Holds
  <2> QED BY <1>4, <2>4, <2>5 DEF new, c
<1> QED BY <1>7, <1>8

\* New pages become one block, in front of the others.
LEMMA ExtendedHolds ==
  ASSUME NEW h, NEW F, Holds(h, F), NEW vtop, NEW n,
         NEW x \in FreeBlk, x = Blk(vtop * PAGE_SIZE, uint(roundup(n, PAGE_SIZE))),
         Span(x) \cap Cover(F) = {}
  PROVE  /\ Holds(Extended(h, vtop, n), F \cup {x})
         /\ Cover(F \cup {x}) = Cover(F) \cup Span(x)
         /\ 1 \in DOMAIN Extended(h, vtop, n).free /\ Extended(h, vtop, n).free[1] = x
<1> DEFINE new == Extended(h, vtop, n)
<1>1. /\ h.free \in Seq(FreeBlk) /\ IsInjective(h.free) /\ ToSet(h.free) = F
      /\ Apart(F) /\ IsFiniteSet(Cover(F)) /\ h.length = Cardinality(Cover(F))
  BY DEF Holds
<1>2. new.free = <<x>> \o h.free /\ new.length = h.length + x.len
  <2>1. x.len = uint(roundup(n, PAGE_SIZE))
    BY BlkFacts
  <2> QED BY <2>1 DEF Extended
<1>3. Span(x) = x.base .. x.base + x.len - 1 /\ x.base \in Span(x) /\ x.base \in Nat /\ x.len \in Nat
  BY FreeSpan
<1>4. x \notin F
  BY <1>3 DEF Cover
<1>5. LET list == <<x>> \o h.free
      IN /\ list \in Seq(FreeBlk) /\ IsInjective(list) /\ ToSet(list) = ToSet(h.free) \cup {x}
         /\ DOMAIN list = 1 .. Len(list) /\ Len(list) \in Nat \ {0} /\ list[1] = x
  BY <1>1, <1>4, Prepended
<1>6. Apart(F \cup {x}) /\ Cover(F \cup {x}) = Cover(F) \cup Span(x)
  BY <1>1, AddCover
<1>7. IsFiniteSet(Span(x)) /\ Cardinality(Span(x)) = x.len
  <2>1. /\ IsFiniteSet(x.base .. x.base + x.len - 1)
        /\ Cardinality(x.base .. x.base + x.len - 1) = x.len
    <3> HIDE DEF new
    <3>1. \A a, k \in Nat : /\ IsFiniteSet(a .. a + k - 1)
                            /\ Cardinality(a .. a + k - 1) = k
      BY UnitsBetween
    <3> QED BY <1>3, <3>1
  <2> QED BY <1>3, <2>1
<1>8. /\ IsFiniteSet(Cover(F) \cup Span(x))
      /\ Cardinality(Cover(F) \cup Span(x)) = Cardinality(Cover(F)) + Cardinality(Span(x))
  <2>1. Cover(F) \cap Span(x) = {}
    OBVIOUS
  <2> QED BY <1>1, <1>7, <2>1, UnitsAdded
<1> HIDE DEF new
<1>9. Holds(new, F \cup {x})
  BY <1>1, <1>2, <1>5, <1>6, <1>7, <1>8 DEF Holds
<1>10. 1 \in DOMAIN new.free /\ new.free[1] = x
  BY <1>2, <1>5
<1> QED BY <1>6, <1>9, <1>10 DEF new

\* Where freemem() stops.
LEMMA PassedFacts ==
  ASSUME NEW list \in Seq(FreeBlk), NEW block \in FreeBlk
  PROVE  LET k == Passed(list, block)
         IN /\ k \in 0 .. Len(list) /\ Len(list) \in Nat
            /\ \A i \in 1 .. k : list[i].base < block.base
            /\ k < Len(list) => list[k + 1].base >= block.base
<1> DEFINE Stops(k) == /\ \A i \in 1 .. k : list[i].base < block.base
                       /\ k < Len(list) => list[k + 1].base >= block.base
           Behind   == {j \in 1 .. Len(list) : list[j].base >= block.base}
<1>1. Len(list) \in Nat /\ \A i \in 1 .. Len(list) : list[i].base \in Nat
  <2>1. \A i \in 1 .. Len(list) : list[i] \in FreeBlk
    BY LenProperties
  <2> QED BY <2>1, LenProperties, FreeSpan
<1>2. block.base \in Nat
  BY FreeSpan
<1>3. \E k \in 0 .. Len(list) : Stops(k)
  <2>1. CASE Behind = {}
    <3>1. Len(list) \in 0 .. Len(list) /\ Stops(Len(list))
      BY <1>1, <1>2, <2>1
    <3> QED BY <3>1
  <2>2. CASE Behind # {}
    <3>1. PICK j \in Behind : \A m \in Behind : j <= m
      <4>1. Behind \in SUBSET Nat
        BY <1>1
      <4> HIDE DEF Behind
      <4> QED BY <2>2, <4>1, LeastMember
    <3>2. j - 1 \in 0 .. Len(list) /\ (j - 1) + 1 = j
      BY <1>1
    <3>3. \A i \in 1 .. j - 1 : i \in 1 .. Len(list) /\ ~ (j <= i)
      BY <1>1
    <3>4. Stops(j - 1)
      BY <1>1, <1>2, <3>1, <3>2, <3>3
    <3> QED BY <3>2, <3>4
  <2> QED BY <2>1, <2>2
<1>4. Passed(list, block) = CHOOSE k \in 0 .. Len(list) : Stops(k)
  BY DEF Passed
<1> HIDE DEF Stops
<1>5. Passed(list, block) \in 0 .. Len(list) /\ Stops(Passed(list, block))
  BY <1>3, <1>4
<1> QED BY <1>1, <1>5 DEF Stops

\* Two blocks, one behind the other, as one.
LEMMA Join ==
  ASSUME NEW x \in FreeBlk, NEW y \in FreeBlk, End(x) = y.base
  PROVE  LET z == Blk(x.base, x.len + y.len)
         IN /\ z \in FreeBlk /\ z.base = x.base /\ z.len = x.len + y.len
            /\ End(z) = End(y) /\ Span(z) = Span(x) \cup Span(y)
<1> DEFINE z == Blk(x.base, x.len + y.len)
<1>1. /\ x.base \in Nat /\ x.len \in Nat /\ x.len >= 2 /\ x.base % 2 = 0 /\ x.len % 2 = 0
      /\ Span(x) = x.base .. End(x) - 1 /\ End(x) = x.base + x.len
  BY FreeSpan
<1>2. /\ y.base \in Nat /\ y.len \in Nat /\ y.len >= 2 /\ y.base % 2 = 0 /\ y.len % 2 = 0
      /\ Span(y) = y.base .. End(y) - 1 /\ End(y) = y.base + y.len
  BY FreeSpan
<1>3. z.base = x.base /\ z.len = x.len + y.len
  BY BlkFacts
<1>4. z \in FreeBlk
  <2>1. \A a, b \in Nat : a >= 2 /\ a % 2 = 0 /\ b % 2 = 0
                          => a + b \in Nat \ {0} /\ (a + b) % 2 = 0
    OBVIOUS
  <2>2. x.len + y.len \in Nat \ {0} /\ (x.len + y.len) % 2 = 0
    BY <1>1, <1>2, <2>1
  <2> QED BY <1>1, <2>2 DEF FreeBlk, Blk, MEMBLK
<1> HIDE DEF z
<1>5. Span(z) = z.base .. End(z) - 1 /\ End(z) = z.base + z.len
  BY <1>4, FreeSpan
<1>6. End(z) = End(y)
  <2>1. \A a, l, m \in Nat : a + (l + m) = (a + l) + m
    OBVIOUS
  <2>2. End(z) = x.base + (x.len + y.len) /\ End(y) = (x.base + x.len) + y.len
    BY <1>1, <1>2, <1>3, <1>5
  <2> QED BY <1>1, <1>2, <2>1, <2>2
<1>7. Span(z) = Span(x) \cup Span(y)
  <2>1. \A a, b, c \in Nat : a <= b /\ b <= c => a .. c - 1 = (a .. b - 1) \cup (b .. c - 1)
    OBVIOUS
  <2>2. /\ End(x) \in Nat /\ End(y) \in Nat
        /\ x.base <= End(x) /\ End(x) <= End(y)
    <3>1. \A a, l \in Nat : a + l \in Nat /\ a <= a + l
      OBVIOUS
    <3>2. End(x) \in Nat /\ x.base <= End(x)
      BY <1>1, <3>1
    <3> QED BY <1>2, <3>1, <3>2
  <2>3. x.base .. End(y) - 1 = (x.base .. End(x) - 1) \cup (End(x) .. End(y) - 1)
    BY <1>1, <2>1, <2>2
  <2> QED BY <1>1, <1>2, <1>3, <1>5, <1>6, <2>3
<1> QED BY <1>3, <1>4, <1>6, <1>7 DEF z

\* freemem() puts a block back, joined with its neighbours, and never finds that it
\* overlaps one of them.
LEMMA FreedHolds ==
  ASSUME NEW h, NEW F, Holds(h, F),
         NEW block \in FreeBlk, Span(block) \cap Cover(F) = {}
  PROVE  LET k   == Passed(h.free, block)
             new == [free |-> Inserted(h.free, k, block), length |-> h.length + block.len]
         IN /\ ~ Overlaps(h.free, k, block)
            /\ \E G : Holds(new, G) /\ Cover(G) = Cover(F) \cup Span(block)
<1> DEFINE list == h.free
           k    == Passed(list, block)
           n    == Len(list)
<1>1. /\ list \in Seq(FreeBlk) /\ IsInjective(list) /\ ToSet(list) = F
      /\ Apart(F) /\ IsFiniteSet(Cover(F)) /\ h.length = Cardinality(Cover(F))
  BY DEF Holds
<1>2. /\ DOMAIN list = 1 .. n /\ n \in Nat
      /\ \A i \in 1 .. n : list[i] \in F /\ list[i] \in FreeBlk /\ Span(list[i]) \subseteq Cover(F)
  BY HoldsFacts
<1> HIDE DEF list
<1>3. /\ k \in 0 .. n
      /\ \A i \in 1 .. k : list[i].base < block.base
      /\ k < n => list[k + 1].base >= block.base
  BY <1>1, PassedFacts
<1> HIDE DEF k, n
<1>4. /\ block.base \in Nat /\ block.len \in Nat /\ block.base \in Span(block)
      /\ Span(block) = block.base .. End(block) - 1 /\ End(block) = block.base + block.len
      /\ block.len >= 2
  BY FreeSpan
<1>5. \A i \in 1 .. n : /\ list[i].base \in Nat /\ End(list[i]) \in Nat
                        /\ list[i].base \in Span(list[i])
                        /\ Span(list[i]) = list[i].base .. End(list[i]) - 1
  <2> SUFFICES ASSUME NEW i \in 1 .. n
               PROVE  /\ list[i].base \in Nat /\ End(list[i]) \in Nat
                      /\ list[i].base \in Span(list[i])
                      /\ Span(list[i]) = list[i].base .. End(list[i]) - 1
    OBVIOUS
  <2> DEFINE b == list[i]
  <2>1. b \in FreeBlk
    BY <1>2
  <2> HIDE DEF b
  <2>2. /\ b.base \in Nat /\ b.len \in Nat /\ b.base \in Span(b)
        /\ Span(b) = b.base .. End(b) - 1 /\ End(b) = b.base + b.len
    BY <2>1, FreeSpan
  <2>3. End(b) \in Nat
    BY <2>2
  <2> QED BY <2>2, <2>3 DEF b
<1>6. \A i \in 1 .. n : /\ list[i].base < block.base => End(list[i]) <= block.base
                        /\ list[i].base >= block.base => End(block) <= list[i].base
  <2> SUFFICES ASSUME NEW i \in 1 .. n
               PROVE  /\ list[i].base < block.base => End(list[i]) <= block.base
                      /\ list[i].base >= block.base => End(block) <= list[i].base
    OBVIOUS
  <2>1. Span(list[i]) \cap Span(block) = {}
    BY <1>2
  <2>2. block.base \notin list[i].base .. End(list[i]) - 1
    BY <1>4, <1>5, <2>1
  <2>3. list[i].base \notin block.base .. End(block) - 1
    BY <1>4, <1>5, <2>1
  <2>4. \A a, b, c \in Nat : a \notin b .. c - 1 /\ b <= a => c <= a
    OBVIOUS
  <2>5. list[i].base \in Nat /\ End(list[i]) \in Nat /\ End(block) \in Nat
    BY <1>4, <1>5
  <2> QED BY <1>4, <2>2, <2>3, <2>4, <2>5
<1>7. ~ Overlaps(list, k, block)
  <2>1. k > 0 => k \in 1 .. n /\ k \in 1 .. k
    BY <1>2, <1>3
  <2>2. k < n => k + 1 \in 1 .. n
    BY <1>2, <1>3
  <2>3. k > 0 => End(list[k]) <= block.base /\ End(list[k]) \in Nat
    BY <1>3, <1>5, <1>6, <2>1
  <2>4. k < n => End(block) <= list[k + 1].base /\ list[k + 1].base \in Nat
    BY <1>3, <1>5, <1>6, <2>2
  <2>5. End(block) \in Nat
    BY <1>4
  <2> QED BY <1>4, <2>3, <2>4, <2>5 DEF Overlaps, n
<1> DEFINE joinsPrev == k > 0 /\ End(list[k]) = block.base
           front  == IF joinsPrev THEN Blk(list[k].base, list[k].len + block.len) ELSE block
           joinsNext == k < n /\ End(front) = list[k + 1].base
           merged == IF joinsNext THEN Blk(front.base, front.len + list[k + 1].len) ELSE front
           a      == IF joinsPrev THEN k - 1 ELSE k
           b      == IF joinsNext THEN k + 2 ELSE k + 1
           gone   == {list[i] : i \in a + 1 .. b - 1}
           left   == IF joinsPrev THEN Span(list[k]) ELSE {}
           right  == IF joinsNext THEN Span(list[k + 1]) ELSE {}
<1>8. Inserted(list, k, block) = Spliced(list, a, <<merged>>, b)
  BY DEF Inserted, Spliced, n
<1>9. front \in FreeBlk /\ Span(front) = left \cup Span(block)
  <2>1. CASE joinsPrev
    <3>1. k \in 1 .. n
      BY <1>2, <1>3, <2>1
    <3>2. list[k] \in FreeBlk /\ End(list[k]) = block.base
      BY <1>2, <2>1, <3>1
    <3>3. LET z == Blk(list[k].base, list[k].len + block.len)
          IN z \in FreeBlk /\ Span(z) = Span(list[k]) \cup Span(block)
      BY <3>2, Join
    <3> QED BY <2>1, <3>3
  <2>2. CASE ~ joinsPrev
    BY <2>2
  <2> QED BY <2>1, <2>2
<1> HIDE DEF front, left
<1>10. merged \in FreeBlk /\ Span(merged) = left \cup Span(block) \cup right
  <2>1. CASE joinsNext
    <3>1. k + 1 \in 1 .. n
      BY <1>2, <1>3, <2>1
    <3>2. list[k + 1] \in FreeBlk /\ End(front) = list[k + 1].base
      BY <1>2, <2>1, <3>1
    <3>3. LET z == Blk(front.base, front.len + list[k + 1].len)
          IN z \in FreeBlk /\ Span(z) = Span(front) \cup Span(list[k + 1])
      BY <1>9, <3>2, Join
    <3> QED BY <1>9, <2>1, <3>3
  <2>2. CASE ~ joinsNext
    BY <1>9, <2>2
  <2> QED BY <2>1, <2>2
<1> HIDE DEF merged
<1>11. /\ a \in 0 .. n /\ b \in a + 1 .. n + 1
       /\ \A i \in a + 1 .. b - 1 : i \in 1 .. n /\ ((i = k /\ joinsPrev) \/ (i = k + 1 /\ joinsNext))
       /\ joinsPrev => k \in a + 1 .. b - 1
       /\ joinsNext => k + 1 \in a + 1 .. b - 1
  <2>1. k \in Nat /\ n \in Nat /\ k <= n
    BY <1>2, <1>3
  <2>2. (joinsPrev => k > 0) /\ (joinsNext => k < n)
    OBVIOUS
  <2>3. a = (IF joinsPrev THEN k - 1 ELSE k) /\ b = (IF joinsNext THEN k + 2 ELSE k + 1)
    OBVIOUS
  <2> HIDE DEF joinsPrev, joinsNext, a, b
  <2> QED BY <2>1, <2>2, <2>3
<1>12. Cover(gone) = left \cup right /\ gone \subseteq F
  <2>1. gone \subseteq F
    BY <1>2, <1>11
  <2>2. \A i \in a + 1 .. b - 1 : Span(list[i]) \subseteq left \cup right
    BY <1>11 DEF left
  <2>3. joinsPrev => list[k] \in gone
    BY <1>11
  <2>4. joinsNext => list[k + 1] \in gone
    BY <1>11
  <2>5. left \subseteq Cover(gone)
    BY <2>3 DEF Cover, left
  <2>6. right \subseteq Cover(gone)
    BY <2>4 DEF Cover
  <2>7. Cover(gone) \subseteq left \cup right
    BY <2>2 DEF Cover
  <2> QED BY <2>1, <2>5, <2>6, <2>7
<1> DEFINE G == (F \ gone) \cup {merged}
<1>13. merged \notin F
  BY <1>4, <1>10 DEF Cover
<1>14. LET t == Spliced(list, a, <<merged>>, b)
       IN t \in Seq(FreeBlk) /\ IsInjective(t) /\ ToSet(t) = G
  <2>1. \A i \in 1 .. Len(list) : i <= a \/ i >= b => list[i] # merged
    BY <1>2, <1>13 DEF n
  <2>2. a \in 0 .. Len(list) /\ b \in a + 1 .. Len(list) + 1
    BY <1>11 DEF n
  <2> HIDE DEF a, b
  <2> QED BY <1>1, <1>10, <2>1, <2>2, Splice
<1> HIDE DEF joinsPrev, joinsNext, a, b, right, gone
<1>15. Apart(F \ gone) /\ Cover(F \ gone) = Cover(F) \ Cover(gone)
       /\ Cover(gone) \subseteq Cover(F)
  BY <1>1, <1>12, DropCover
<1>16. Apart(G) /\ Cover(G) = Cover(F \ gone) \cup Span(merged)
  <2>1. Span(merged) \cap Cover(F \ gone) = {}
    BY <1>10, <1>12, <1>15
  <2> QED BY <1>15, <2>1, AddCover
<1>17. Cover(G) = Cover(F) \cup Span(block)
  <2> HIDE DEF G
  <2> QED BY <1>10, <1>12, <1>15, <1>16
<1>18. /\ IsFiniteSet(Cover(F) \cup Span(block))
       /\ Cardinality(Cover(F) \cup Span(block)) = h.length + block.len
  <2>1. /\ IsFiniteSet(block.base .. block.base + block.len - 1)
        /\ Cardinality(block.base .. block.base + block.len - 1) = block.len
    <3>1. \A c, m \in Nat : IsFiniteSet(c .. c + m - 1) /\ Cardinality(c .. c + m - 1) = m
      BY UnitsBetween
    <3> QED BY <1>4, <3>1
  <2>2. IsFiniteSet(Span(block)) /\ Cardinality(Span(block)) = block.len
    BY <1>4, <2>1
  <2>3. Cover(F) \cap Span(block) = {}
    OBVIOUS
  <2>4. /\ IsFiniteSet(Cover(F) \cup Span(block))
        /\ Cardinality(Cover(F) \cup Span(block)) = Cardinality(Cover(F)) + Cardinality(Span(block))
    BY <1>1, <2>2, <2>3, UnitsAdded
  <2> QED BY <1>1, <2>2, <2>4
<1> DEFINE new == [free |-> Inserted(list, k, block), length |-> h.length + block.len]
<1>19. Holds(new, G)
  <2>1. new.free = Spliced(list, a, <<merged>>, b) /\ new.length = h.length + block.len
    BY <1>8 DEF a, b, merged, front, joinsPrev, joinsNext
  <2> HIDE DEF new, G
  <2> QED BY <1>14, <1>16, <1>17, <1>18, <2>1 DEF Holds
<1> QED BY <1>7, <1>17, <1>19 DEF k, list

-----------------------------------------------------------------------------
(* A heap: the free blocks of the memhead h and the blocks A in use tile   *)
(* the addresses X.                                                        *)

Tiled(h, A, X) ==
    /\ Holds(h, ToSet(h.free))
    /\ A \subseteq UsedBlk /\ Apart(A)
    /\ Cover(ToSet(h.free)) \cap Cover(A) = {}
    /\ Cover(ToSet(h.free)) \cup Cover(A) = X

LEMMA TiledTake ==
  ASSUME NEW h, NEW A, NEW X, Tiled(h, A, X), NEW i \in DOMAIN h.free,
         NEW n \in Nat \ {0}, n % 2 = 0, h.free[i].len >= n,
         NEW a \in UsedBlk, Span(a) = h.free[i].base .. h.free[i].base + n - 1
  PROVE  Tiled(Take(h, i, n), A \cup {a}, X)
<1> DEFINE F == ToSet(h.free)
<1>1. /\ Holds(h, F) /\ A \subseteq UsedBlk /\ Apart(A)
      /\ Cover(F) \cap Cover(A) = {} /\ Cover(F) \cup Cover(A) = X
  BY DEF Tiled
<1> HIDE DEF F
<1>2. LET piece == h.free[i].base .. h.free[i].base + n - 1
      IN /\ piece \subseteq Cover(F)
         /\ \E G : Holds(Take(h, i, n), G) /\ Cover(G) = Cover(F) \ piece
  BY <1>1, TakeGives
<1>3. PICK G : Holds(Take(h, i, n), G) /\ Cover(G) = Cover(F) \ Span(a)
  BY <1>2
<1>4. Span(a) \subseteq Cover(F)
  BY <1>2
<1>5. G = ToSet(Take(h, i, n).free)
  BY <1>3 DEF Holds
<1>6. Apart(A \cup {a}) /\ Cover(A \cup {a}) = Cover(A) \cup Span(a)
  <2>1. Span(a) \cap Cover(A) = {}
    BY <1>1, <1>4
  <2> QED BY <1>1, <2>1, AddCover
<1>7. Cover(G) \cap Cover(A \cup {a}) = {} /\ Cover(G) \cup Cover(A \cup {a}) = X
  BY <1>1, <1>3, <1>4, <1>6
<1> QED BY <1>1, <1>3, <1>5, <1>6, <1>7 DEF Tiled

LEMMA TiledExtended ==
  ASSUME NEW h, NEW A, NEW X, Tiled(h, A, X), NEW vtop, NEW n,
         NEW x \in FreeBlk, x = Blk(vtop * PAGE_SIZE, uint(roundup(n, PAGE_SIZE))),
         Span(x) \cap X = {}
  PROVE  /\ Tiled(Extended(h, vtop, n), A, X \cup Span(x))
         /\ 1 \in DOMAIN Extended(h, vtop, n).free /\ Extended(h, vtop, n).free[1] = x
<1> DEFINE F == ToSet(h.free)
<1>1. /\ Holds(h, F) /\ A \subseteq UsedBlk /\ Apart(A)
      /\ Cover(F) \cap Cover(A) = {} /\ Cover(F) \cup Cover(A) = X
  BY DEF Tiled
<1> HIDE DEF F
<1>2. Span(x) \cap Cover(F) = {} /\ Span(x) \cap Cover(A) = {}
  BY <1>1
<1>3. /\ Holds(Extended(h, vtop, n), F \cup {x})
      /\ Cover(F \cup {x}) = Cover(F) \cup Span(x)
      /\ 1 \in DOMAIN Extended(h, vtop, n).free /\ Extended(h, vtop, n).free[1] = x
  BY <1>1, <1>2, ExtendedHolds, SMTT(20)
<1>4. F \cup {x} = ToSet(Extended(h, vtop, n).free)
  BY <1>3 DEF Holds
<1>5. /\ Cover(F \cup {x}) \cap Cover(A) = {}
      /\ Cover(F \cup {x}) \cup Cover(A) = X \cup Span(x)
  BY <1>1, <1>2, <1>3
<1> QED BY <1>1, <1>3, <1>4, <1>5 DEF Tiled

LEMMA TiledFreed ==
  ASSUME NEW h, NEW A, NEW X, Tiled(h, A, X), NEW b \in A
  PROVE  LET block == Blk(b.base, uint(roundmb(uint(b.asked))))
             k     == Passed(h.free, block)
             new   == [free |-> Inserted(h.free, k, block), length |-> h.length + block.len]
         IN ~ Overlaps(h.free, k, block) /\ Tiled(new, A \ {b}, X)
<1> DEFINE F     == ToSet(h.free)
           block == Blk(b.base, uint(roundmb(uint(b.asked))))
           k     == Passed(h.free, block)
           new   == [free |-> Inserted(h.free, k, block), length |-> h.length + block.len]
<1>1. /\ Holds(h, F) /\ A \subseteq UsedBlk /\ Apart(A)
      /\ Cover(F) \cap Cover(A) = {} /\ Cover(F) \cup Cover(A) = X
  BY DEF Tiled
<1>2. /\ b.base \in Nat /\ b.base % 2 = 0 /\ b.asked \in 1 .. UINT - PAGE_SIZE - MEMBLK
      /\ b.len = roundmb(b.asked)
  BY <1>1 DEF UsedBlk, MEMBLK
<1>3. uint(roundmb(uint(b.asked))) = b.len /\ b.len \in Nat \ {0} /\ b.len % 2 = 0
  <2>1. b.asked \in Nat /\ b.asked >= 1
    BY <1>2, HeapNumbers DEF MEMBLK
  <2>2. b.len \in Nat /\ b.asked <= b.len /\ b.len % 2 = 0 /\ uint(roundmb(uint(b.asked))) = b.len
    BY <1>2, <2>1, RoundBlocks
  <2>3. b.len # 0
    BY <2>1, <2>2
  <2> QED BY <2>2, <2>3
<1>4. block.base = b.base /\ block.len = b.len
  BY <1>3, BlkFacts
<1>5. block \in FreeBlk
  BY <1>2, <1>3 DEF FreeBlk, Blk, MEMBLK
<1> HIDE DEF F, block
<1>6. Span(block) = Span(b)
  BY <1>4 DEF Span, End
<1>7. /\ Apart(A \ {b}) /\ Cover(A \ {b}) = Cover(A) \ Span(b)
      /\ Span(b) \subseteq Cover(A)
  <2>1. {b} \subseteq A
    OBVIOUS
  <2>2. /\ Apart(A \ {b}) /\ Cover(A \ {b}) = Cover(A) \ Cover({b})
        /\ Cover({b}) \subseteq Cover(A)
    BY <1>1, <2>1, DropCover
  <2> QED BY <2>2, CoverOne
<1>8. Span(block) \cap Cover(F) = {}
  BY <1>1, <1>6, <1>7
<1>9. /\ ~ Overlaps(h.free, k, block)
      /\ \E G : Holds(new, G) /\ Cover(G) = Cover(F) \cup Span(block)
  BY <1>1, <1>5, <1>8, FreedHolds
<1> HIDE DEF new, k
<1>10. PICK G : Holds(new, G) /\ Cover(G) = Cover(F) \cup Span(b)
  BY <1>6, <1>9
<1>11. G = ToSet(new.free)
  BY <1>10 DEF Holds
<1>12. Cover(G) \cap Cover(A \ {b}) = {} /\ Cover(G) \cup Cover(A \ {b}) = X
  BY <1>1, <1>7, <1>10
<1>13. Tiled(new, A \ {b}, X)
  BY <1>1, <1>7, <1>10, <1>11, <1>12 DEF Tiled
<1> QED BY <1>9, <1>13 DEF new, k, block

\* The heap of a new process is one free block.
LEMMA TiledInit == Tiled(heapinit, {}, BASE .. (PROCHEAPVADDR + 1) * PAGE_SIZE - 1)
<1> DEFINE x == Blk(BASE, PAGE_SIZE - MEMHEAD)
           h == heapinit
<1>1. h.free = <<x>> /\ h.length = PAGE_SIZE - MEMHEAD
  BY DEF heapinit
<1>2. BASE \in Nat /\ BASE % 2 = 0 /\ BASE = PROCHEAPVADDR * PAGE_SIZE + 4
  <2>1. PROCHEAPVADDR * PAGE_SIZE \in Nat /\ (PROCHEAPVADDR * PAGE_SIZE) % 2 = 0
    BY HeapNumbers, EvenProduct
  <2>2. \A m \in Nat : m % 2 = 0 => m + 4 \in Nat /\ (m + 4) % 2 = 0
    OBVIOUS
  <2> QED BY <2>1, <2>2 DEF BASE, MEMHEAD
<1>3. PAGE_SIZE - MEMHEAD \in Nat \ {0} /\ (PAGE_SIZE - MEMHEAD) % 2 = 0
  <2>1. \A m \in Nat : m > 4 /\ m % 2 = 0 => m - 4 \in Nat \ {0} /\ (m - 4) % 2 = 0
    OBVIOUS
  <2> QED BY <2>1, HeapNumbers DEF MEMHEAD
<1>4. x \in FreeBlk /\ x.base = BASE /\ x.len = PAGE_SIZE - MEMHEAD
  BY <1>2, <1>3 DEF FreeBlk, Blk, MEMBLK
<1> HIDE DEF x, h
<1>5. Span(x) = BASE .. (PROCHEAPVADDR + 1) * PAGE_SIZE - 1
  <2>1. Span(x) = x.base .. End(x) - 1 /\ End(x) = x.base + x.len
    BY <1>4, FreeSpan
  <2>2. (PROCHEAPVADDR + 1) * PAGE_SIZE = PROCHEAPVADDR * PAGE_SIZE + PAGE_SIZE
    BY HeapNumbers
  <2>3. PROCHEAPVADDR * PAGE_SIZE \in Nat
    BY HeapNumbers
  <2>4. BASE + (PAGE_SIZE - MEMHEAD) = PROCHEAPVADDR * PAGE_SIZE + PAGE_SIZE
    BY <1>2, <2>3, HeapNumbers DEF MEMHEAD
  <2> QED BY <1>4, <2>1, <2>2, <2>4
<1>6. <<x>> \in Seq(FreeBlk) /\ ToSet(<<x>>) = {x} /\ IsInjective(<<x>>)
  <2>1. <<x>> \in Seq(FreeBlk) /\ DOMAIN <<x>> = {1} /\ <<x>>[1] = x
    BY <1>4
  <2> QED BY <2>1 DEF ToSet, IsInjective
<1>7. Cover({x}) = Span(x) /\ Apart({x})
  BY CoverOne DEF Apart
<1>8. IsFiniteSet(Span(x)) /\ Cardinality(Span(x)) = PAGE_SIZE - MEMHEAD
  <2>1. \A c, m \in Nat : IsFiniteSet(c .. c + m - 1) /\ Cardinality(c .. c + m - 1) = m
    BY UnitsBetween
  <2>2. Span(x) = BASE .. BASE + (PAGE_SIZE - MEMHEAD) - 1
    BY <1>4, FreeSpan
  <2>3. PAGE_SIZE - MEMHEAD \in Nat
    BY <1>3
  <2> QED BY <1>2, <2>1, <2>2, <2>3
<1>9. Holds(h, ToSet(h.free)) /\ ToSet(h.free) = {x}
  BY <1>1, <1>6, <1>7, <1>8 DEF Holds
<1>10. Tiled(h, {}, Span(x))
  BY <1>7, <1>9, CoverNone DEF Tiled
<1> QED BY <1>5, <1>10 DEF h

-----------------------------------------------------------------------------
(* The inductive invariant.                                                *)

Heap(p)   == BASE .. bound[p] * PAGE_SIZE - 1
HeapOf(p) == bound[p] > PROCHEAPVADDR /\ Tiled(mh[p], alloc[p], Heap(p))

HeapInv ==
    /\ DOMAIN proc = Pids /\ DOMAIN mh = Pids /\ DOMAIN alloc = Pids /\ bound \in [Pids -> Nat]
    /\ Alive => \A p \in Pids : IF p \in Live THEN HeapOf(p) ELSE alloc[p] = {}

\* getmem() by any process, of any size that does not wrap: the block it gives is
\* new, and pages that incheap() adds lie right behind the heap.
LEMMA GetmemStep ==
  ASSUME HeapInv, NEW p \in Pids, Running(p), NEW nb \in 1 .. UINT - PAGE_SIZE - MEMBLK,
         getmem(p, nb), UNCHANGED proc
  PROVE  HeapInv'
<1> DEFINE n  == uint(roundmb(uint(nb)))
           h  == mh[p]
           i  == Min(Fits(h.free, n))
           q  == roundup(n, PAGE_SIZE) \div PAGE_SIZE
           x  == incheap(p, q)
           blk(base) == [base |-> base, len |-> n, asked |-> nb]
<1>1. /\ Alive /\ p \in Live /\ DOMAIN mh = Pids /\ DOMAIN alloc = Pids /\ bound \in [Pids -> Nat]
      /\ \A r \in Pids : IF r \in Live THEN HeapOf(r) ELSE alloc[r] = {}
  BY DEF HeapInv, Running
<1>2. bound[p] \in Nat /\ bound[p] > PROCHEAPVADDR /\ Tiled(h, alloc[p], Heap(p))
  BY <1>1 DEF HeapOf
<1>3. /\ n = roundmb(nb) /\ n \in Nat \ {0} /\ n % 2 = 0 /\ n <= nb + 1
      /\ nb \in Nat /\ nb + 1 <= UINT - PAGE_SIZE /\ uint(nb) # 0
  <2>1. nb \in Nat /\ nb >= 1 /\ nb + 1 <= UINT - PAGE_SIZE
    BY HeapNumbers DEF MEMBLK
  <2>2. /\ roundmb(nb) \in Nat /\ nb <= roundmb(nb) /\ roundmb(nb) <= nb + 1
        /\ roundmb(nb) % 2 = 0 /\ n = roundmb(nb)
    BY <2>1, RoundBlocks
  <2>3. roundmb(nb) # 0
    BY <2>1, <2>2
  <2>4. uint(nb) = nb
    BY <2>1, HeapNumbers DEF uint
  <2> QED BY <2>1, <2>2, <2>3, <2>4
<1>4. ASSUME NEW base \in Nat, base % 2 = 0
      PROVE  blk(base) \in UsedBlk /\ Span(blk(base)) = base .. base + n - 1
  <2>1. blk(base) \in UsedBlk
    BY <1>3, <1>4 DEF UsedBlk, MEMBLK
  <2>2. Span(blk(base)) = base .. base + n - 1
    <3>1. blk(base).base = base /\ blk(base).len = n
      OBVIOUS
    <3> HIDE DEF blk, n
    <3> QED BY <1>3, <3>1, SpanIs
  <2> QED BY <2>1, <2>2
<1>5. proc' = proc /\ Live' = Live
  BY DEF Live
<1> HIDE DEF n, blk
\* what is left to show of a step that gives p the block at base
<1>6. ASSUME bound' \in [Pids -> Nat], bound'[p] >= bound[p],
             \A r \in Pids : r # p => bound'[r] = bound[r],
             NEW m, mh' = [mh EXCEPT ![p] = m], NEW A, alloc' = [alloc EXCEPT ![p] = A],
             Tiled(m, A, BASE .. bound'[p] * PAGE_SIZE - 1)
      PROVE  HeapInv'
  <2>1. DOMAIN proc' = Pids /\ DOMAIN mh' = Pids /\ DOMAIN alloc' = Pids
    BY <1>1, <1>5, <1>6 DEF HeapInv
  <2>2. HeapOf(p)'
    <3>1. mh'[p] = m /\ alloc'[p] = A
      BY <1>1, <1>6
    <3>2. bound'[p] \in Nat /\ bound'[p] > PROCHEAPVADDR
      BY <1>2, <1>6, HeapNumbers
    <3> QED BY <1>6, <3>1, <3>2 DEF HeapOf, Heap
  <2>3. ASSUME NEW r \in Pids, r # p
        PROVE  IF r \in Live' THEN HeapOf(r)' ELSE alloc'[r] = {}
    <3>1. bound'[r] = bound[r] /\ mh'[r] = mh[r] /\ alloc'[r] = alloc[r]
      BY <1>1, <1>6, <2>3
    <3> QED BY <1>1, <1>5, <3>1 DEF HeapOf, Heap
  <2> QED BY <1>1, <1>5, <1>6, <2>1, <2>2, <2>3 DEF HeapInv
<1>7. CASE Fits(h.free, n) # {}
  <2>1. /\ mh' = [mh EXCEPT ![p] = Take(h, i, n)] /\ UNCHANGED <<ram, bound>>
        /\ alloc' = [alloc EXCEPT ![p] = @ \cup {blk(h.free[i].base)}]
    BY <1>3, <1>7 DEF getmem, Keep, n, blk
  <2>2. i \in DOMAIN h.free /\ h.free[i].len >= n /\ h.free[i] \in FreeBlk
    <3> DEFINE S == Fits(h.free, n)
    <3>0. Holds(h, ToSet(h.free))
      BY <1>2 DEF Tiled
    <3>1. DOMAIN h.free = 1 .. Len(h.free) /\ Len(h.free) \in Nat
          /\ \A j \in DOMAIN h.free : h.free[j] \in FreeBlk
      BY <3>0, HoldsFacts
    <3>2. S \in SUBSET Nat /\ S # {}
      BY <1>7, <3>1 DEF Fits
    <3>3. \E j \in S : \A k \in S : j =< k
      <4> HIDE DEF S
      <4> QED BY <3>2, LeastMember
    <3>4. Min(S) \in S
      <4> HIDE DEF S
      <4> QED BY <3>3 DEF Min
    <3>5. i \in S
      BY <3>4
    <3> QED BY <3>1, <3>5 DEF Fits
  <2> HIDE DEF i, h
  <2>3. h.free[i].base \in Nat /\ h.free[i].base % 2 = 0
    BY <2>2, FreeSpan
  <2> DEFINE a == blk(h.free[i].base)
  <2>4. a \in UsedBlk /\ Span(a) = h.free[i].base .. h.free[i].base + n - 1
    BY <1>4, <2>3
  <2> HIDE DEF a
  <2>5. Tiled(Take(h, i, n), alloc[p] \cup {a}, Heap(p))
    BY <1>2, <1>3, <2>2, <2>4, TiledTake
  <2>6. bound' = bound /\ alloc' = [alloc EXCEPT ![p] = alloc[p] \cup {a}]
    BY <2>1 DEF a
  <2>7. /\ bound' \in [Pids -> Nat] /\ bound'[p] >= bound[p]
        /\ \A r \in Pids : r # p => bound'[r] = bound[r]
    BY <1>1, <1>2, <2>6
  <2>8. Tiled(Take(h, i, n), alloc[p] \cup {a}, BASE .. bound'[p] * PAGE_SIZE - 1)
    BY <2>5, <2>6 DEF Heap
  <2> QED BY <1>6, <2>1, <2>6, <2>7, <2>8
<1>8. CASE Fits(h.free, n) = {} /\ ~ x.ok
  <2>1. ram' = x.ram /\ bound' = x.bound /\ mh' = mh /\ alloc' = alloc
    BY <1>3, <1>8 DEF getmem, n
  <2>2. x.bound = bound
    BY <1>8 DEF incheap
  <2>3. \A r \in Pids : HeapOf(r)' <=> HeapOf(r)
    BY <2>1, <2>2 DEF HeapOf, Heap
  <2> QED BY <1>1, <1>5, <2>1, <2>2, <2>3 DEF HeapInv
<1>9. CASE Fits(h.free, n) = {} /\ x.ok
  <2>1. /\ bound' = x.bound
        /\ mh' = [mh EXCEPT ![p] = Take(Extended(h, x.vtop, n), 1, n)]
        /\ alloc' = [alloc EXCEPT ![p] = @ \cup {blk(x.vtop * PAGE_SIZE)}]
    BY <1>3, <1>9 DEF getmem, Keep, n, blk
  <2>2. x.vtop = bound[p] /\ x.bound = [bound EXCEPT ![p] = @ + q]
    BY <1>9 DEF incheap
  <2>3. /\ q \in Nat \ {0} /\ roundup(n, PAGE_SIZE) = q * PAGE_SIZE
        /\ n <= q * PAGE_SIZE /\ q * PAGE_SIZE <= n + PAGE_SIZE - 1
    <3>1. PAGE_SIZE \in Nat \ {0}
      BY HeapNumbers
    <3> QED BY <1>3, <3>1, RoundPages
  <2> HIDE DEF q, x, h
  <2>4. /\ q * PAGE_SIZE \in Nat \ {0} /\ (q * PAGE_SIZE) % 2 = 0
        /\ uint(roundup(n, PAGE_SIZE)) = q * PAGE_SIZE
    <3>1. q * PAGE_SIZE \in Nat /\ (q * PAGE_SIZE) % 2 = 0
      BY <2>3, HeapNumbers, EvenProduct
    <3> DEFINE s == q * PAGE_SIZE
    <3>2. s \in Nat /\ n <= s /\ s <= n + PAGE_SIZE - 1
      BY <2>3, <3>1
    <3> HIDE DEF s
    <3>3. s # 0 /\ s < UINT
      BY <1>3, <3>2, HeapNumbers
    <3>4. \A k \in Nat : k < UINT => uint(k) = k
      BY HeapNumbers DEF uint
    <3>5. uint(s) = s
      BY <3>2, <3>3, <3>4
    <3> QED BY <2>3, <3>1, <3>3, <3>5 DEF s
  <2> DEFINE top == bound[p] * PAGE_SIZE
             y   == Blk(top, q * PAGE_SIZE)
  <2>5. top \in Nat /\ top % 2 = 0
    BY <1>2, HeapNumbers, EvenProduct
  <2>6. y \in FreeBlk /\ y.base = top /\ y.len = q * PAGE_SIZE
    <3> DEFINE s == q * PAGE_SIZE
    <3>1. s \in Nat \ {0} /\ s % 2 = 0
      BY <2>4
    <3> HIDE DEF s, top
    <3> QED BY <2>5, <3>1 DEF FreeBlk, Blk, MEMBLK, s
  <2>7. /\ bound' \in [Pids -> Nat] /\ bound'[p] = bound[p] + q
        /\ \A r \in Pids : r # p => bound'[r] = bound[r]
    BY <1>1, <2>1, <2>2, <2>3
  <2>8. /\ Span(y) \cap Heap(p) = {}
        /\ Heap(p) \cup Span(y) = BASE .. bound'[p] * PAGE_SIZE - 1
    <3>1. bound'[p] * PAGE_SIZE = top + q * PAGE_SIZE
      BY <1>2, <2>3, <2>7, HeapNumbers
    <3>2. BASE \in Nat /\ BASE <= top
      <4>1. PROCHEAPVADDR * PAGE_SIZE \in Nat
        BY HeapNumbers
      <4>2. top >= (PROCHEAPVADDR + 1) * PAGE_SIZE
        BY <1>2, HeapNumbers
      <4>3. (PROCHEAPVADDR + 1) * PAGE_SIZE = PROCHEAPVADDR * PAGE_SIZE + PAGE_SIZE
        BY HeapNumbers
      <4> HIDE DEF top
      <4> QED BY <2>5, <4>1, <4>2, <4>3, HeapNumbers DEF BASE, MEMHEAD
    <3>3. Span(y) = top .. top + q * PAGE_SIZE - 1
      <4>1. Span(y) = y.base .. End(y) - 1 /\ End(y) = y.base + y.len
        BY <2>6, FreeSpan
      <4>2. Span(y) = top .. End(y) - 1
        BY <2>6, <4>1
      <4>3. End(y) = top + q * PAGE_SIZE
        <5> HIDE DEF y
        <5> QED BY <2>6, <4>1
      <4> HIDE DEF y, top
      <4> QED BY <2>4, <2>5, <4>2, <4>3
    <3>4. \A b, t, s \in Nat : b <= t => /\ (t .. t + s - 1) \cap (b .. t - 1) = {}
                                         /\ (b .. t - 1) \cup (t .. t + s - 1) = b .. t + s - 1
      OBVIOUS
    <3>5. q * PAGE_SIZE \in Nat
      BY <2>4
    <3>6. Heap(p) = BASE .. top - 1
      BY DEF Heap
    <3> HIDE DEF top, y
    <3> QED BY <2>5, <3>1, <3>2, <3>3, <3>4, <3>5, <3>6
  <2> DEFINE long == Extended(h, bound[p], n)
  <2>9. /\ Tiled(long, alloc[p], BASE .. bound'[p] * PAGE_SIZE - 1)
        /\ 1 \in DOMAIN long.free /\ long.free[1] = y
    <3>1. y = Blk(bound[p] * PAGE_SIZE, uint(roundup(n, PAGE_SIZE)))
      BY <2>4
    <3>2. y \in FreeBlk
      BY <2>6
    <3>3. Tiled(h, alloc[p], Heap(p)) /\ Span(y) \cap Heap(p) = {}
      BY <1>2, <2>8
    <3> HIDE DEF y
    <3>4. /\ Tiled(long, alloc[p], Heap(p) \cup Span(y))
          /\ 1 \in DOMAIN long.free /\ long.free[1] = y
      BY <3>1, <3>2, <3>3, TiledExtended
    <3> QED BY <2>8, <3>4
  <2> DEFINE a == blk(top)
  <2>10. a \in UsedBlk /\ Span(a) = top .. top + n - 1
    BY <1>4, <2>5
  <2> HIDE DEF a, long, top, y
  <2>11. Tiled(Take(long, 1, n), alloc[p] \cup {a}, BASE .. bound'[p] * PAGE_SIZE - 1)
    <3>1. long.free[1].len >= n /\ long.free[1].base = top
      BY <2>3, <2>6, <2>9
    <3>2. Span(a) = long.free[1].base .. long.free[1].base + n - 1
      BY <2>10, <3>1
    <3> DEFINE X == BASE .. bound'[p] * PAGE_SIZE - 1
    <3>3. Tiled(long, alloc[p], X)
      BY <2>9
    <3> HIDE DEF X
    <3>4. Tiled(Take(long, 1, n), alloc[p] \cup {a}, X)
      BY <1>3, <2>9, <2>10, <3>1, <3>2, <3>3, TiledTake
    <3> QED BY <3>4 DEF X
  <2>12. /\ mh' = [mh EXCEPT ![p] = Take(long, 1, n)]
         /\ alloc' = [alloc EXCEPT ![p] = alloc[p] \cup {a}]
    BY <2>1, <2>2 DEF long, a, top
  <2>13. bound'[p] >= bound[p]
    BY <1>2, <2>3, <2>7
  <2> QED BY <1>6, <2>7, <2>11, <2>12, <2>13
<1> QED BY <1>7, <1>8, <1>9

\* freemem() and free().
LEMMA FreeStep ==
  ASSUME HeapInv, NEW p \in Pids, Free(p)
  PROVE  HeapInv'
<1>1. /\ Alive /\ p \in Live /\ DOMAIN mh = Pids /\ DOMAIN alloc = Pids /\ bound \in [Pids -> Nat]
      /\ \A r \in Pids : IF r \in Live THEN HeapOf(r) ELSE alloc[r] = {}
  BY DEF HeapInv, Free, Running
<1>2. proc' = proc /\ bound' = bound /\ Live' = Live
  BY DEF Free, pagevars, Live
<1>3. PICK b \in alloc[p] : freemem(p, b) /\ alloc' = [alloc EXCEPT ![p] = @ \ {b}]
  BY DEF Free
<1> DEFINE h     == mh[p]
           block == Blk(b.base, uint(roundmb(uint(b.asked))))
           k     == Passed(h.free, block)
           new   == [free |-> Inserted(h.free, k, block), length |-> h.length + block.len]
<1>4. Tiled(h, alloc[p], Heap(p)) /\ bound[p] > PROCHEAPVADDR
  BY <1>1 DEF HeapOf
<1>5. ~ Overlaps(h.free, k, block) /\ Tiled(new, alloc[p] \ {b}, Heap(p))
  BY <1>4, TiledFreed
<1>6. mh' = [mh EXCEPT ![p] = new]
  <2>1. b.asked \in 1 .. UINT - PAGE_SIZE - MEMBLK
    BY <1>3, <1>4 DEF Tiled, UsedBlk
  <2>2. uint(b.asked) # 0
    BY <2>1, HeapNumbers DEF uint, MEMBLK
  <2> QED BY <1>3, <1>5, <2>2 DEF freemem
<1> HIDE DEF new
<1>7. /\ mh'[p] = new /\ alloc'[p] = alloc[p] \ {b}
      /\ \A r \in Pids : r # p => mh'[r] = mh[r] /\ alloc'[r] = alloc[r]
  BY <1>1, <1>3, <1>6
<1>8. HeapOf(p)'
  BY <1>2, <1>4, <1>5, <1>7 DEF HeapOf, Heap
<1>9. ASSUME NEW r \in Pids, r # p PROVE IF r \in Live' THEN HeapOf(r)' ELSE alloc'[r] = {}
  BY <1>1, <1>2, <1>7, <1>9 DEF HeapOf, Heap
<1>10. DOMAIN proc' = Pids /\ DOMAIN mh' = Pids /\ DOMAIN alloc' = Pids
  BY <1>1, <1>2, <1>3, <1>6 DEF HeapInv
<1> QED BY <1>1, <1>2, <1>8, <1>9, <1>10 DEF HeapInv

\* create() and kill().
LEMMA CreateStep ==
  ASSUME HeapInv, NEW p \in Pids, Create(p)
  PROVE  HeapInv'
<1>1. /\ Alive /\ p \notin Live
      /\ DOMAIN proc = Pids /\ DOMAIN mh = Pids /\ DOMAIN alloc = Pids /\ bound \in [Pids -> Nat]
      /\ \A r \in Pids : IF r \in Live THEN HeapOf(r) ELSE alloc[r] = {}
  BY DEF HeapInv, Create, create
<1>2. alloc' = alloc
  BY DEF Create
<1>3. CASE ram'.wild
  <2>1. proc' = proc /\ bound' = bound /\ mh' = mh
    BY <1>3 DEF Create, create
  <2> QED BY <1>1, <1>2, <1>3, <2>1 DEF HeapInv, Alive
<1>4. CASE ~ ram'.wild
  <2>1. /\ mh' = [mh EXCEPT ![p] = heapinit]
        /\ bound' = [bound EXCEPT ![p] = PROCHEAPVADDR + 1]
    BY <1>4 DEF Create, create
  <2>2. \E e : proc' = [proc EXCEPT ![p] = e] /\ e.live
    <3> DEFINE u == vm_userinit(pgalloc(ram), pgtop(ram))
               e == [live |-> TRUE, pagetable |-> u.pagetable, stkbase |-> pgtop(ram),
                     swaparea |-> u.swaparea]
    <3>1. proc' = [proc EXCEPT ![p] = e]
      BY <1>4 DEF Create, create
    <3>2. e.live
      OBVIOUS
    <3> HIDE DEF e
    <3> QED BY <3>1, <3>2
  <2>3. /\ DOMAIN proc' = Pids /\ DOMAIN mh' = Pids /\ bound' \in [Pids -> Nat]
        /\ mh'[p] = heapinit /\ bound'[p] = PROCHEAPVADDR + 1
        /\ Live' = Live \cup {p}
        /\ \A r \in Pids : r # p => mh'[r] = mh[r] /\ bound'[r] = bound[r]
    BY <1>1, <2>1, <2>2, HeapNumbers DEF Live
  <2>4. HeapOf(p)'
    <3>1. alloc'[p] = {}
      BY <1>1, <1>2
    <3>2. bound'[p] > PROCHEAPVADDR
      BY <2>3, HeapNumbers
    <3> QED BY <2>3, <3>1, <3>2, TiledInit DEF HeapOf, Heap
  <2>5. ASSUME NEW r \in Pids, r # p PROVE IF r \in Live' THEN HeapOf(r)' ELSE alloc'[r] = {}
    BY <1>1, <1>2, <2>3, <2>5 DEF HeapOf, Heap
  <2> QED BY <1>1, <1>2, <2>3, <2>4, <2>5 DEF HeapInv
<1> QED BY <1>3, <1>4

LEMMA KillStep ==
  ASSUME HeapInv, NEW p \in Pids, Kill(p)
  PROVE  HeapInv'
<1>1. /\ Alive /\ p \in Live
      /\ DOMAIN proc = Pids /\ DOMAIN mh = Pids /\ DOMAIN alloc = Pids /\ bound \in [Pids -> Nat]
      /\ \A r \in Pids : IF r \in Live THEN HeapOf(r) ELSE alloc[r] = {}
  BY DEF HeapInv, Kill, kill
<1>2. /\ proc' = [proc EXCEPT ![p] = NoProc] /\ bound' = [bound EXCEPT ![p] = 0]
      /\ mh' = [mh EXCEPT ![p] = NoHeap] /\ alloc' = [alloc EXCEPT ![p] = {}]
  BY DEF Kill, kill
<1>3. /\ DOMAIN proc' = Pids /\ DOMAIN mh' = Pids /\ DOMAIN alloc' = Pids /\ bound' \in [Pids -> Nat]
      /\ p \notin Live' /\ alloc'[p] = {}
      /\ \A r \in Pids : r # p => /\ mh'[r] = mh[r] /\ bound'[r] = bound[r]
                                  /\ alloc'[r] = alloc[r] /\ (r \in Live' <=> r \in Live)
  BY <1>1, <1>2 DEF Live, NoProc
<1>4. ASSUME NEW r \in Pids PROVE IF r \in Live' THEN HeapOf(r)' ELSE alloc'[r] = {}
  BY <1>1, <1>3 DEF HeapOf, Heap
<1> QED BY <1>3, <1>4 DEF HeapInv

LEMMA NextHeapInv ==
  ASSUME NoWrap, HeapInv, [Next]_vars
  PROVE  HeapInv'
<1>1. CASE createFails /\ UNCHANGED <<mh, alloc>>
  <2>1. Alive /\ UNCHANGED <<proc, bound, mh, alloc>>
    BY <1>1 DEF createFails
  <2>2. \A p \in Pids : (HeapOf(p)' <=> HeapOf(p)) /\ Live' = Live
    BY <2>1 DEF HeapOf, Heap, Live
  <2> QED BY <2>1, <2>2 DEF HeapInv
<1>2. ASSUME NEW p \in Pids, Create(p) \/ Kill(p) \/ Free(p) PROVE HeapInv'
  BY <1>2, CreateStep, KillStep, FreeStep
<1>3. ASSUME NEW p \in Pids, NEW size \in SIZES, Getmem(p, size) PROVE HeapInv'
  <2>1. size \in 1 .. UINT - PAGE_SIZE - MEMBLK
    <3>1. size \in 1 .. UINT - PAGE_SIZE - 2 * MEMBLK
      BY DEF NoWrap
    <3> QED BY <3>1, HeapNumbers DEF MEMBLK
  <2>2. Running(p) /\ getmem(p, size) /\ UNCHANGED proc
    BY <1>3 DEF Getmem
  <2> QED BY <2>1, <2>2, GetmemStep
<1>4. ASSUME NEW p \in Pids, NEW size \in SIZES, Malloc(p, size) PROVE HeapInv'
  <2>1. MEMBLK + size \in 1 .. UINT - PAGE_SIZE - MEMBLK
    <3>1. size \in 1 .. UINT - PAGE_SIZE - 2 * MEMBLK
      BY DEF NoWrap
    <3> QED BY <3>1, HeapNumbers DEF MEMBLK
  <2>2. Running(p) /\ getmem(p, MEMBLK + size) /\ UNCHANGED proc
    BY <1>4 DEF Malloc
  <2> DEFINE nb == MEMBLK + size
  <2>3. nb \in 1 .. UINT - PAGE_SIZE - MEMBLK /\ getmem(p, nb)
    BY <2>1, <2>2
  <2> HIDE DEF nb
  <2> QED BY <2>2, <2>3, GetmemStep
<1>5. CASE UNCHANGED vars
  <2>1. UNCHANGED <<ram, proc, bound, mh, alloc>>
    BY <1>5 DEF vars, pagevars
  <2>2. \A p \in Pids : (HeapOf(p)' <=> HeapOf(p)) /\ Live' = Live /\ (Alive' <=> Alive)
    BY <2>1 DEF HeapOf, Heap, Live, Alive
  <2>3. DOMAIN proc' = Pids /\ DOMAIN mh' = Pids /\ DOMAIN alloc' = Pids /\ bound' \in [Pids -> Nat]
    BY <2>1 DEF HeapInv
  <2> QED BY <2>1, <2>2, <2>3 DEF HeapInv
<1> QED BY <1>1, <1>2, <1>3, <1>4, <1>5 DEF Next

LEMMA InitHeapInv ==
  ASSUME Init
  PROVE  HeapInv
<1>1. /\ proc = [p \in Pids |-> NoProc] /\ bound = [p \in Pids |-> 0]
      /\ mh = [p \in Pids |-> NoHeap] /\ alloc = [p \in Pids |-> {}]
  BY DEF Init, PInit
<1>2. \A p \in Pids : p \notin Live /\ alloc[p] = {}
  BY <1>1 DEF Live, NoProc
<1> QED BY <1>1, <1>2 DEF HeapInv

\* What holds of covers holds of the blocks.
LEMMA InvTiles ==
  ASSUME HeapInv
  PROVE  HeapTiled
<1> SUFFICES ASSUME Alive, NEW p \in Live
             PROVE  /\ UNION {Span(b) : b \in BlocksOf(p)} = BASE .. bound[p] * PAGE_SIZE - 1
                    /\ \A b, c \in BlocksOf(p) : b # c => Span(b) \cap Span(c) = {}
                    /\ IsInjective(mh[p].free)
                    /\ mh[p].length = Cardinality(UNION {Span(b) : b \in FreeOf(p)})
  BY DEF HeapTiled
<1> DEFINE F == FreeOf(p)
           A == alloc[p]
<1>1. Tiled(mh[p], A, Heap(p))
  BY DEF HeapInv, HeapOf, Live
<1>2. /\ Holds(mh[p], F) /\ Apart(A) /\ Cover(F) \cap Cover(A) = {}
      /\ Cover(F) \cup Cover(A) = Heap(p)
  BY <1>1 DEF Tiled, FreeOf
<1>3. Apart(F) /\ IsInjective(mh[p].free) /\ mh[p].length = Cardinality(Cover(F))
  BY <1>2 DEF Holds
<1>4. UNION {Span(b) : b \in BlocksOf(p)} = Cover(F) \cup Cover(A)
  BY DEF Cover, BlocksOf
<1>5. ASSUME NEW b \in BlocksOf(p), NEW c \in BlocksOf(p), b # c
      PROVE  Span(b) \cap Span(c) = {}
  <2>1. \A x \in F : Span(x) \subseteq Cover(F)
    BY DEF Cover
  <2>2. \A x \in A : Span(x) \subseteq Cover(A)
    BY DEF Cover
  <2>3. CASE b \in F /\ c \in F
    BY <1>3, <1>5, <2>3 DEF Apart
  <2>4. CASE b \in A /\ c \in A
    BY <1>2, <1>5, <2>4 DEF Apart
  <2>5. CASE (b \in F /\ c \in A) \/ (b \in A /\ c \in F)
    BY <1>2, <2>1, <2>2, <2>5
  <2> QED BY <2>3, <2>4, <2>5 DEF BlocksOf
<1> QED BY <1>2, <1>3, <1>4, <1>5 DEF Cover, Heap

\* For any processes, layout of memory and sizes that do not wrap: the free blocks
\* and the blocks in use of every process tile its heap, and the memhead counts
\* what is free, whatever is taken, split, extended, given back and joined, in any
\* order (getmem(), freemem(), malloc(), free(), incheap(), create(), kill()).
THEOREM HeapsTiled == ASSUME NoWrap PROVE Spec => []HeapTiled
<1>1. Init => HeapInv
  BY InitHeapInv
<1>2. HeapInv /\ [Next]_vars => HeapInv'
  BY NextHeapInv
<1>3. HeapInv => HeapTiled
  BY InvTiles
<1> QED BY <1>1, <1>2, <1>3, PTL DEF Spec

-----------------------------------------------------------------------------
(* Page tables as trees.                                                   *)

PteT   == [pa : Int, attr : SUBSET {"R", "W", "X", "U"}]
TableT == UNION {[D -> PteT] : D \in SUBSET Int}
MemT   == [Frames -> TableT]
Rams   == [free : Seq(Frames), mem : MemT, wild : BOOLEAN]

\* The tables of an address space are pages of memory, and every one but the root
\* is entered in one place.
Tree(m, root) ==
    /\ root \in Frames /\ Level1(m, root) \subseteq Frames /\ Level0(m, root) \subseteq Frames
    /\ root \notin Level1(m, root) \cup Level0(m, root)
    /\ Level1(m, root) \cap Level0(m, root) = {}
    /\ \A i, j \in DOMAIN m[root] : m[root][i].pa = m[root][j].pa => i = j
    /\ \A t, u \in Level1(m, root) : \A i \in DOMAIN m[t], j \in DOMAIN m[u] :
           m[t][i].pa = m[u][j].pa => t = u /\ i = j

\* What the hardware finds in the last tables.
Entries(m, root) == UNION {Leaves(m, t) : t \in Level0(m, root)}

LEMMA TableFacts ==
  ASSUME NEW m \in MemT, NEW t \in Frames
  PROVE  /\ m[t] \in TableT /\ DOMAIN m[t] \subseteq Int
         /\ \A i \in DOMAIN m[t] : m[t][i] \in PteT /\ m[t][i].pa \in Int
<1>1. m[t] \in TableT
  BY DEF MemT
<1>2. PICK D \in SUBSET Int : m[t] \in [D -> PteT]
  BY <1>1 DEF TableT
<1> QED BY <1>1, <1>2 DEF PteT

\* An entry more.
LEMMA AddedTable ==
  ASSUME NEW i \in Int, NEW e \in PteT, NEW t \in TableT
  PROVE  Entered(t, i, e) \in TableT
<1>1. PICK D \in SUBSET Int : t \in [D -> PteT]
  BY DEF TableT
<1>2. Entered(t, i, e) \in [D \cup {i} -> PteT]
  BY <1>1 DEF Entered
<1>3. D \cup {i} \in SUBSET Int
  OBVIOUS
<1> QED BY <1>2, <1>3 DEF TableT

LEMMA BlankTable == Blank \in TableT /\ DOMAIN Blank = {}
<1>1. Blank \in [{} -> PteT]
  BY DEF Blank
<1> QED BY <1>1 DEF TableT

\* A new table is entered in the root ...
LEMMA LinkRoot ==
  ASSUME NEW m \in MemT, NEW m2 \in MemT, NEW root, Tree(m, root), NEW n \in Frames,
         n \notin Tables(m, root), NEW i \in Int, i \notin DOMAIN m[root],
         m2[n] = Blank, m2[root] = Entered(m[root], i, Pte(n, {})),
         \A f \in Frames \ {n, root} : m2[f] = m[f]
  PROVE  /\ Tree(m2, root) /\ Level1(m2, root) = Level1(m, root) \cup {n}
         /\ Level0(m2, root) = Level0(m, root) /\ Entries(m2, root) = Entries(m, root)
         /\ m2[root][i].pa = n /\ i \in DOMAIN m2[root]
<1>1. /\ DOMAIN m2[root] = DOMAIN m[root] \cup {i} /\ m2[root][i].pa = n
      /\ \A j \in DOMAIN m[root] : m2[root][j] = m[root][j]
  BY DEF Entered, Pte
<1>2. Level1(m2, root) = Level1(m, root) \cup {n}
  BY <1>1 DEF Level1, Below
<1>3. /\ \A t \in Level1(m, root) : t \in Frames /\ t # n /\ t # root /\ m2[t] = m[t]
      /\ \A t \in Level0(m, root) : t \in Frames /\ t # n /\ t # root /\ m2[t] = m[t]
  BY DEF Tree, Tables
<1>4. Below(m2, n) = {} /\ DOMAIN m2[n] = {}
  BY BlankTable DEF Below
<1>5. \A t \in Level1(m, root) : Below(m2, t) = Below(m, t)
  BY <1>3 DEF Below
<1>6. Level0(m2, root) = Level0(m, root)
  BY <1>2, <1>4, <1>5 DEF Level0
<1>7. Entries(m2, root) = Entries(m, root)
  BY <1>3, <1>6 DEF Entries, Leaves
<1>8. n # root /\ n \notin Level1(m, root) /\ n \notin Level0(m, root)
  BY DEF Tables
<1>9. \A k, j \in DOMAIN m2[root] : m2[root][k].pa = m2[root][j].pa => k = j
  <2>1. \A j \in DOMAIN m[root] : m2[root][j].pa # n
    BY <1>1, <1>8 DEF Level1, Below
  <2> QED BY <1>1, <2>1 DEF Tree
<1>10. \A t, u \in Level1(m2, root) : \A k \in DOMAIN m2[t], j \in DOMAIN m2[u] :
           m2[t][k].pa = m2[u][j].pa => t = u /\ k = j
  BY <1>2, <1>3, <1>4 DEF Tree
<1> QED BY <1>1, <1>2, <1>6, <1>7, <1>8, <1>9, <1>10 DEF Tree

\* ... or in a table of level 1.
LEMMA LinkMiddle ==
  ASSUME NEW m \in MemT, NEW m2 \in MemT, NEW root, Tree(m, root), NEW n \in Frames,
         n \notin Tables(m, root), NEW t \in Level1(m, root), NEW i \in Int, i \notin DOMAIN m[t],
         m2[n] = Blank, m2[t] = Entered(m[t], i, Pte(n, {})),
         \A f \in Frames \ {n, t} : m2[f] = m[f]
  PROVE  /\ Tree(m2, root) /\ Level1(m2, root) = Level1(m, root)
         /\ Level0(m2, root) = Level0(m, root) \cup {n} /\ Entries(m2, root) = Entries(m, root)
         /\ m2[t][i].pa = n /\ i \in DOMAIN m2[t] /\ m2[root] = m[root]
<1>1. /\ DOMAIN m2[t] = DOMAIN m[t] \cup {i} /\ m2[t][i].pa = n
      /\ \A j \in DOMAIN m[t] : m2[t][j] = m[t][j]
  BY DEF Entered, Pte
<1>2. n # root /\ n \notin Level1(m, root) /\ n \notin Level0(m, root)
  BY DEF Tables
<1>3. /\ m2[root] = m[root]
      /\ \A u \in Level1(m, root) : u # t => m2[u] = m[u]
      /\ \A u \in Level0(m, root) : m2[u] = m[u]
  BY <1>2 DEF Tree
<1>4. Level1(m2, root) = Level1(m, root)
  BY <1>3 DEF Level1, Below
<1>5. Below(m2, t) = Below(m, t) \cup {n} /\ \A u \in Level1(m, root) : u # t => Below(m2, u) = Below(m, u)
  BY <1>1, <1>3 DEF Below
<1>6. Level0(m2, root) = Level0(m, root) \cup {n}
  BY <1>4, <1>5 DEF Level0
<1>7. Leaves(m2, n) = {}
  BY BlankTable DEF Leaves
<1>8. Entries(m2, root) = Entries(m, root)
  BY <1>3, <1>6, <1>7 DEF Entries, Leaves
<1>9. ASSUME NEW u \in Level1(m, root), NEW w \in Level1(m, root),
             NEW k \in DOMAIN m2[u], NEW j \in DOMAIN m2[w], m2[u][k].pa = m2[w][j].pa
      PROVE  u = w /\ k = j
  <2>1. \A x \in Level1(m, root) : \A l \in DOMAIN m[x] : m2[x][l] = m[x][l] /\ m2[x][l].pa # n
    BY <1>1, <1>2, <1>3 DEF Level0, Below
  <2>2. \A x \in Level1(m, root) : \A l \in DOMAIN m2[x] :
            l \in DOMAIN m[x] \/ (x = t /\ l = i /\ m2[x][l].pa = n)
    BY <1>1, <1>3
  <2> QED BY <1>9, <2>1, <2>2 DEF Tree
<1> QED BY <1>1, <1>2, <1>3, <1>4, <1>6, <1>8, <1>9 DEF Tree

\* From m to m2 table t has got entry i.
Writes(m, m2, t, i, e) ==
    m2[t] = Entered(m[t], i, e) /\ \A f \in Frames \ {t} : m2[f] = m[f]

\* An entry of a last table is set.
LEMMA WriteLeaf ==
  ASSUME NEW m, NEW m2, NEW root, Tree(m, root), NEW t \in Level0(m, root),
         NEW i, NEW e, Writes(m, m2, t, i, e)
  PROVE  /\ Tree(m2, root) /\ Level1(m2, root) = Level1(m, root)
         /\ Level0(m2, root) = Level0(m, root) /\ Entries(m2, root) \subseteq Entries(m, root) \cup {e}
         /\ i \in DOMAIN m2[t] /\ m2[t][i] = e /\ \A j \in DOMAIN m[t] \ {i} : j \in DOMAIN m2[t] /\ m2[t][j] = m[t][j]
<1>1. /\ DOMAIN m2[t] = DOMAIN m[t] \cup {i} /\ m2[t][i] = e
      /\ \A j \in DOMAIN m[t] : j # i => m2[t][j] = m[t][j]
  BY DEF Entered, Writes
<1>2. m2[root] = m[root] /\ \A u \in Level1(m, root) : m2[u] = m[u]
  BY DEF Tree, Writes
<1>3. Level1(m2, root) = Level1(m, root)
  BY <1>2 DEF Level1, Below
<1>4. Level0(m2, root) = Level0(m, root)
  BY <1>2, <1>3 DEF Level0, Below
<1>5. Entries(m2, root) \subseteq Entries(m, root) \cup {e}
  <2>1. \A u \in Level0(m, root) : Leaves(m2, u) \subseteq Leaves(m, u) \cup {e}
    BY <1>1 DEF Leaves, Tree, Writes
  <2> QED BY <1>4, <2>1 DEF Entries
<1>6. Tree(m2, root)
  BY <1>2, <1>3, <1>4 DEF Tree
<1> QED BY <1>1, <1>3, <1>4, <1>5, <1>6

\* A quotient and its rest determine the number.
LEMMA DivFacts ==
  ASSUME NEW x \in Nat, NEW y \in Nat \ {0}
  PROVE  /\ x \div y \in Nat /\ x % y \in Nat /\ x % y < y
         /\ x = y * (x \div y) + (x % y)
OBVIOUS

LEMMA Quotient ==
  ASSUME NEW y \in Nat \ {0}, NEW q \in Nat, NEW r \in Nat, r < y
  PROVE  (y * q + r) \div y = q
<1> DEFINE x == y * q + r
           d == x \div y
           e == x % y
<1>1. y * q \in Nat /\ x \in Nat
  OBVIOUS
<1>2. d \in Nat /\ e \in Nat /\ e < y /\ x = y * d + e
  BY <1>1, DivFacts
<1>3. x = y * q + r
  OBVIOUS
<1> HIDE DEF x, d, e
<1>4. ASSUME d < q PROVE FALSE
  <2>1. PICK k \in Nat : q = d + 1 + k
    <3>1. q - d - 1 \in Nat /\ q = d + 1 + (q - d - 1)
      BY <1>2, <1>4
    <3> QED BY <3>1
  <2>2. y * q = y * d + y + y * k /\ y * k \in Nat /\ y * d \in Nat
    BY <1>2, <2>1
  <2> QED BY <1>2, <1>3, <2>2
<1>5. ASSUME q < d PROVE FALSE
  <2>1. PICK k \in Nat : d = q + 1 + k
    <3>1. d - q - 1 \in Nat /\ d = q + 1 + (d - q - 1)
      BY <1>2, <1>5
    <3> QED BY <3>1
  <2>2. y * d = y * q + y + y * k /\ y * k \in Nat /\ y * q \in Nat
    BY <1>2, <2>1
  <2> QED BY <1>2, <1>3, <2>2
<1>6. d = q
  BY <1>2, <1>4, <1>5
<1> QED BY <1>6 DEF d, x

\* Two divisions are one by the product.
LEMMA TwoDivisions ==
  ASSUME NEW x \in Nat, NEW a \in Nat \ {0}, NEW b \in Nat \ {0}
  PROVE  x \div (a * b) = (x \div a) \div b
<1> DEFINE q == x \div a
           r == x % a
           q1 == q \div b
           r1 == q % b
<1>1. q \in Nat /\ r \in Nat /\ r < a /\ x = a * q + r
  BY DivFacts
<1>2. q1 \in Nat /\ r1 \in Nat /\ r1 < b /\ q = b * q1 + r1
  BY <1>1, DivFacts
<1> HIDE DEF q, r, q1, r1
<1> DEFINE y == a * b
           s == a * r1 + r
<1>3. y \in Nat \ {0}
  OBVIOUS
<1>4. s \in Nat /\ s < y
  <2>1. PICK k \in Nat : b = r1 + 1 + k
    <3>1. b - r1 - 1 \in Nat /\ b = r1 + 1 + (b - r1 - 1)
      BY <1>2
    <3> QED BY <3>1
  <2>2. y = a * r1 + a + a * k /\ a * k \in Nat /\ a * r1 \in Nat
    BY <1>2, <2>1
  <2> HIDE DEF y
  <2> QED BY <1>1, <2>2
<1>5. x = y * q1 + s
  <2>1. a * q = a * (b * q1) + a * r1
    <3>1. b * q1 \in Nat
      BY <1>2
    <3> QED BY <1>2, <3>1
  <2>2. a * (b * q1) = y * q1
    BY <1>2
  <2>3. a * r1 \in Nat /\ y * q1 \in Nat
    BY <1>2
  <2> HIDE DEF y
  <2> QED BY <1>1, <2>1, <2>2, <2>3
<1> HIDE DEF y, s
<1>6. x \div y = q1
  BY <1>2, <1>3, <1>4, <1>5, Quotient
<1> QED BY <1>6 DEF y, q1, q

\* The three indices of a page are its address.
LEMMA PXRange ==
  ASSUME NEW v \in Nat
  PROVE  PX(2, v) \in Int /\ PX(1, v) \in Int /\ PX(0, v) \in Int
<1>1. Fan0 \in Nat \ {0} /\ Fan1 \in Nat \ {0} /\ Fan0 * Fan1 \in Nat \ {0}
  BY LayoutAssumption
<1>2. /\ PX(2, v) = v \div (Fan0 * Fan1) /\ PX(1, v) = (v \div Fan0) % Fan1
      /\ PX(0, v) = v % Fan0
  BY DEF PX
<1>3. v \div Fan0 \in Nat /\ v % Fan0 \in Nat
  BY <1>1, DivFacts
<1>4. (v \div Fan0) % Fan1 \in Nat
  BY <1>1, <1>3, DivFacts
<1>5. v \div (Fan0 * Fan1) \in Nat
  BY <1>1, DivFacts
<1> QED BY <1>2, <1>3, <1>4, <1>5

LEMMA PXInjective ==
  ASSUME NEW v \in Nat, NEW w \in Nat,
         PX(2, v) = PX(2, w), PX(1, v) = PX(1, w), PX(0, v) = PX(0, w)
  PROVE  v = w
<1>1. Fan0 \in Nat \ {0} /\ Fan1 \in Nat \ {0}
  BY LayoutAssumption
<1>2. \A x \in Nat : PX(2, x) = (x \div Fan0) \div Fan1
  BY <1>1, TwoDivisions DEF PX
<1>3. \A x \in Nat : PX(1, x) = (x \div Fan0) % Fan1 /\ PX(0, x) = x % Fan0
  BY DEF PX
<1> DEFINE a == v \div Fan0
           b == w \div Fan0
<1>4. a \in Nat /\ b \in Nat /\ v = Fan0 * a + (v % Fan0) /\ w = Fan0 * b + (w % Fan0)
  BY <1>1, DivFacts
<1>5. a \div Fan1 = b \div Fan1 /\ a % Fan1 = b % Fan1
  BY <1>2, <1>3
<1> HIDE DEF a, b
<1>6. a = Fan1 * (a \div Fan1) + (a % Fan1) /\ b = Fan1 * (b \div Fan1) + (b % Fan1)
  BY <1>1, <1>4, DivFacts
<1>7. a = b
  BY <1>5, <1>6
<1> QED BY <1>3, <1>4, <1>7

-----------------------------------------------------------------------------
(* Walks.                                                                  *)

\* The tables on the way to page v.
Mid(m, root, v)  == m[root][PX(2, v)].pa
Last0(m, root, v) == m[Mid(m, root, v)][PX(1, v)].pa

LEMMA OnTheWay ==
  ASSUME NEW m, NEW root, NEW v, Mapped(m, root, v)
  PROVE  /\ PX(2, v) \in DOMAIN m[root] /\ Mid(m, root, v) \in Level1(m, root)
         /\ PX(1, v) \in DOMAIN m[Mid(m, root, v)] /\ Last0(m, root, v) \in Level0(m, root)
         /\ PX(0, v) \in DOMAIN m[Last0(m, root, v)]
         /\ Walk(m, root, v) = m[Last0(m, root, v)][PX(0, v)]
         /\ Walk(m, root, v) \in Entries(m, root)
<1>1. /\ PX(2, v) \in DOMAIN m[root] /\ Mid(m, root, v) \in Level1(m, root)
      /\ PX(1, v) \in DOMAIN m[Mid(m, root, v)]
      /\ PX(0, v) \in DOMAIN m[Last0(m, root, v)]
      /\ Walk(m, root, v) = m[Last0(m, root, v)][PX(0, v)]
  BY DEF Mapped, Mid, Last0, Level1, Below, Walk
<1>2. Last0(m, root, v) \in Level0(m, root)
  BY <1>1 DEF Last0, Level0, Below
<1> QED BY <1>1, <1>2 DEF Entries, Leaves

\* Tables that only get more entries lead where they led.
LEMMA WalkStays ==
  ASSUME NEW m, NEW m2, NEW root, NEW v, Mapped(m, root, v),
         \A t \in Tables(m, root) : \A i \in DOMAIN m[t] : i \in DOMAIN m2[t] /\ m2[t][i] = m[t][i]
  PROVE  /\ Mapped(m2, root, v) /\ Walk(m2, root, v) = Walk(m, root, v)
         /\ Mid(m2, root, v) = Mid(m, root, v) /\ Last0(m2, root, v) = Last0(m, root, v)
<1>1. /\ root \in Tables(m, root) /\ Mid(m, root, v) \in Tables(m, root)
      /\ Last0(m, root, v) \in Tables(m, root)
  BY OnTheWay DEF Tables
<1>2. Mid(m2, root, v) = Mid(m, root, v) /\ PX(2, v) \in DOMAIN m2[root]
  BY <1>1, OnTheWay DEF Mid
<1>3. Last0(m2, root, v) = Last0(m, root, v) /\ PX(1, v) \in DOMAIN m2[Mid(m2, root, v)]
  BY <1>1, <1>2, OnTheWay DEF Last0
<1>4. PX(0, v) \in DOMAIN m2[Last0(m2, root, v)]
      /\ m2[Last0(m2, root, v)][PX(0, v)] = m[Last0(m, root, v)][PX(0, v)]
  BY <1>1, <1>3, OnTheWay
<1>5. Mapped(m2, root, v) /\ Walk(m2, root, v) = m2[Last0(m2, root, v)][PX(0, v)]
  BY <1>2, <1>3, <1>4 DEF Mapped, Mid, Last0, Walk
<1> QED BY <1>2, <1>3, <1>4, <1>5, OnTheWay

\* Only one page is reached by one entry.
LEMMA WaysPart ==
  ASSUME NEW m, NEW root, Tree(m, root), NEW v \in Nat, NEW w \in Nat,
         Mapped(m, root, v), Last0(m, root, v) = Last0(m, root, w), PX(0, v) = PX(0, w),
         PX(2, w) \in DOMAIN m[root], Mid(m, root, w) \in Level1(m, root),
         PX(1, w) \in DOMAIN m[Mid(m, root, w)]
  PROVE  v = w
<1>1. Mid(m, root, v) = Mid(m, root, w) /\ PX(1, v) = PX(1, w)
  BY OnTheWay DEF Tree, Last0
<1>2. PX(2, v) = PX(2, w)
  BY <1>1, OnTheWay DEF Tree, Mid
<1> QED BY <1>1, <1>2, PXInjective

LEMMA FrameNumbers ==
  /\ Frames \subseteq Nat /\ SYSERR \notin Frames /\ SYSERR \in Int
  /\ \A f \in Frames : f \in Nat /\ f \in Int
  BY LayoutAssumption DEF Frames, SYSERR

-----------------------------------------------------------------------------
(* Page by page.                                                           *)

LEMMA TakesHead ==
  ASSUME NEW S, NEW s \in Seq(S), s # <<>>, IsInjective(s)
  PROVE  /\ Head(s) \in S /\ Head(s) \in ToSet(s) /\ Tail(s) \in Seq(S)
         /\ ToSet(Tail(s)) = ToSet(s) \ {Head(s)} /\ IsInjective(Tail(s))
<1>1. /\ Len(s) \in Nat /\ Len(s) > 0 /\ DOMAIN s = 1 .. Len(s) /\ Head(s) = s[1]
      /\ Tail(s) \in Seq(S) /\ DOMAIN Tail(s) = 1 .. Len(s) - 1
      /\ \A i \in 1 .. Len(s) - 1 : Tail(s)[i] = s[i + 1]
      /\ \A i \in 1 .. Len(s) : s[i] \in S
  OBVIOUS
<1>2. ToSet(Tail(s)) = ToSet(s) \ {Head(s)}
  <2>1. ASSUME NEW x \in ToSet(Tail(s)) PROVE x \in ToSet(s) /\ x # Head(s)
    <3>1. PICK i \in 1 .. Len(s) - 1 : x = s[i + 1]
      BY <1>1, <2>1 DEF ToSet
    <3>2. i + 1 \in 1 .. Len(s) /\ i + 1 # 1 /\ 1 \in 1 .. Len(s)
      BY <1>1
    <3> QED BY <1>1, <3>1, <3>2 DEF ToSet, IsInjective
  <2>2. ASSUME NEW x \in ToSet(s), x # Head(s) PROVE x \in ToSet(Tail(s))
    <3>1. PICK i \in 1 .. Len(s) : x = s[i]
      BY <1>1 DEF ToSet
    <3>2. i - 1 \in 1 .. Len(s) - 1 /\ (i - 1) + 1 = i
      BY <1>1, <2>2, <3>1
    <3>3. Tail(s)[i - 1] = x
      BY <1>1, <3>1, <3>2
    <3> QED BY <1>1, <3>2, <3>3 DEF ToSet
  <2> QED BY <2>1, <2>2
<1>3. IsInjective(Tail(s))
  <2> SUFFICES ASSUME NEW i \in 1 .. Len(s) - 1, NEW j \in 1 .. Len(s) - 1, Tail(s)[i] = Tail(s)[j]
               PROVE  i = j
    BY <1>1 DEF IsInjective
  <2>1. i + 1 \in DOMAIN s /\ j + 1 \in DOMAIN s /\ s[i + 1] = s[j + 1]
    BY <1>1
  <2>2. i + 1 = j + 1
    BY <2>1 DEF IsInjective
  <2> QED BY <2>2
<1> QED BY <1>1, <1>2, <1>3 DEF ToSet

LEMMA AllocFacts ==
  ASSUME NEW r \in Rams
  PROVE  /\ pgalloc(r) \in Rams /\ pgalloc(r).wild = r.wild
         /\ r.free = <<>> => pgtop(r) = SYSERR /\ pgalloc(r) = r
         /\ r.free # <<>> => /\ pgtop(r) = Head(r.free) /\ pgtop(r) \in Frames
                             /\ pgalloc(r).free = Tail(r.free)
                             /\ pgalloc(r).mem[pgtop(r)] = Blank
                             /\ \A f \in Frames \ {pgtop(r)} : pgalloc(r).mem[f] = r.mem[f]
<1>1. r.free \in Seq(Frames) /\ r.mem \in [Frames -> TableT] /\ r.wild \in BOOLEAN
  BY DEF Rams, MemT
<1>2. CASE r.free = <<>>
  BY <1>2 DEF pgalloc, pgtop
<1>3. CASE r.free # <<>>
  <2>1. pgtop(r) = Head(r.free) /\ pgtop(r) \in Frames
    BY <1>1, <1>3 DEF pgtop
  <2>2. pgalloc(r) = [free |-> Tail(r.free), mem |-> [r.mem EXCEPT ![Head(r.free)] = Blank],
                      wild |-> r.wild]
    BY <1>3 DEF pgalloc, Rams
  <2>3. Tail(r.free) \in Seq(Frames) /\ [r.mem EXCEPT ![Head(r.free)] = Blank] \in [Frames -> TableT]
    BY <1>1, <1>3, <2>1, BlankTable
  <2> QED BY <1>1, <1>3, <2>1, <2>2, <2>3 DEF Rams, MemT
<1> QED BY <1>2, <1>3

\* One level down in a table that is there.
LEMMA NextCases ==
  ASSUME NEW r \in Rams, ~ r.wild, NEW t \in Frames, NEW i \in Int,
         NEW n, n = NextTable(r, t, i)
  PROVE  /\ n.ram \in Rams /\ ~ n.ram.wild
         /\ \/ i \in DOMAIN r.mem[t] /\ n.ram = r /\ n.at = r.mem[t][i].pa
            \/ /\ i \notin DOMAIN r.mem[t] /\ r.free = <<>> /\ n.at = SYSERR /\ n.ram.free = <<>>
               /\ n.ram.mem[t] = Entered(r.mem[t], i, Pte(SYSERR, {}))
               /\ \A f \in Frames \ {t} : n.ram.mem[f] = r.mem[f]
            \/ /\ i \notin DOMAIN r.mem[t] /\ r.free # <<>> /\ n.at = Head(r.free)
               /\ n.ram.free = Tail(r.free)
               /\ t # n.at => /\ n.ram.mem[t] = Entered(r.mem[t], i, Pte(n.at, {}))
                              /\ n.ram.mem[n.at] = Blank
               /\ \A f \in Frames \ {t, n.at} : n.ram.mem[f] = r.mem[f]
<1> DEFINE a == pgalloc(r)
           e == Pte(pgtop(r), {})
           m == [a.mem EXCEPT ![t] = Entered(@, i, e)]
<1>1. CASE i \in DOMAIN r.mem[t]
  BY <1>1 DEF NextTable
<1>2. CASE i \notin DOMAIN r.mem[t]
  <2>1. n = [ram |-> [a EXCEPT !.mem = m], at |-> pgtop(r)]
    BY <1>2 DEF NextTable
  <2>2. a \in Rams /\ a.wild = r.wild /\ a.mem \in [Frames -> TableT]
    BY AllocFacts DEF Rams, MemT
  <2>3. e \in PteT
    <3>1. pgtop(r) \in {SYSERR} \cup Frames
      BY AllocFacts
    <3>3. {SYSERR} \cup Frames \subseteq Int
      BY FrameNumbers
    <3>4. pgtop(r) \in Int
      BY <3>1, <3>3
    <3>2. {} \in SUBSET {"R", "W", "X", "U"}
      OBVIOUS
    <3> QED BY <3>2, <3>4 DEF PteT, Pte
  <2>4. m \in [Frames -> TableT]
    BY <2>2, <2>3, AddedTable
  <2>5. n.ram = [free |-> a.free, mem |-> m, wild |-> a.wild] /\ n.at = pgtop(r)
    BY <2>1, <2>2, SMTT(20) DEF Rams
  <2>6. n.ram \in Rams /\ ~ n.ram.wild
    BY <2>2, <2>4, <2>5 DEF Rams, MemT
  <2>7. m[t] = Entered(a.mem[t], i, e) /\ \A f \in Frames \ {t} : m[f] = a.mem[f]
    BY <2>2
  <2> HIDE DEF m, a, e
  <2> QED BY <1>2, <2>5, <2>6, <2>7, AllocFacts DEF a, e
<1> QED BY <1>1, <1>2

-----------------------------------------------------------------------------
(* How an address space grows.                                             *)

\* Pages of the table at root are not free; a kernel that is dead found no page.
Sane(r, root) ==
    /\ r \in Rams /\ IsInjective(r.free)
    /\ IF r.wild THEN r.free = <<>>
       ELSE Tree(r.mem, root) /\ Tables(r.mem, root) \cap ToSet(r.free) = {}

Outside(r, s, root) == \A f \in Frames \ (Tables(r.mem, root) \cup ToSet(r.free)) : s.mem[f] = r.mem[f]
Keeps(m, m2, root, V) ==
    \A w \in Nat \ V : Mapped(m, root, w) =>
                           Mapped(m2, root, w) /\ Walk(m2, root, w) = Walk(m, root, w)
Adds(m, m2, root) ==
    \A t \in Tables(m, root) : \A i \in DOMAIN m[t] : i \in DOMAIN m2[t] /\ m2[t][i] = m[t][i]

\* From r to s the space at root has taken tables from the free pages, and has
\* entries E for the pages V.
Grown(r, s, root, V, E) ==
    /\ ToSet(s.free) \subseteq ToSet(r.free)
    /\ Outside(r, s, root) /\ Keeps(r.mem, s.mem, root, V)
    /\ ~ s.wild => /\ ~ r.wild
                   /\ Tables(s.mem, root) \subseteq Tables(r.mem, root) \cup (ToSet(r.free) \ ToSet(s.free))
                   /\ Entries(s.mem, root) \subseteq Entries(r.mem, root) \cup E

LEMMA AddsKeeps ==
  ASSUME NEW m, NEW m2, NEW root, NEW V, Adds(m, m2, root)
  PROVE  Keeps(m, m2, root, V)
BY WalkStays DEF Adds, Keeps

LEMMA GrownSame ==
  ASSUME NEW r, NEW root, NEW V, NEW E
  PROVE  Grown(r, r, root, V, E)
BY DEF Grown, Outside, Keeps

LEMMA GrownTwice ==
  ASSUME NEW r, NEW s, NEW u, NEW root, NEW V, NEW E, NEW V2, NEW E2,
         Grown(r, s, root, V, E), s.wild => u = s, Grown(s, u, root, V2, E2)
  PROVE  Grown(r, u, root, V \cup V2, E \cup E2)
<1>1. ToSet(u.free) \subseteq ToSet(s.free) /\ ToSet(s.free) \subseteq ToSet(r.free)
  BY DEF Grown
<1>2. Outside(r, u, root)
  <2>1. CASE s.wild
    BY <2>1 DEF Grown, Outside
  <2>2. CASE ~ s.wild
    BY <1>1, <2>2 DEF Grown, Outside
  <2> QED BY <2>1, <2>2
<1>3. Keeps(r.mem, u.mem, root, V \cup V2)
  BY DEF Grown, Keeps
<1>4. ~ u.wild => /\ ~ r.wild
                  /\ Tables(u.mem, root) \subseteq Tables(r.mem, root) \cup (ToSet(r.free) \ ToSet(u.free))
                  /\ Entries(u.mem, root) \subseteq Entries(r.mem, root) \cup (E \cup E2)
  <2> SUFFICES ASSUME ~ u.wild
               PROVE  /\ ~ r.wild
                      /\ Tables(u.mem, root) \subseteq Tables(r.mem, root) \cup (ToSet(r.free) \ ToSet(u.free))
                      /\ Entries(u.mem, root) \subseteq Entries(r.mem, root) \cup (E \cup E2)
    OBVIOUS
  <2>1. ~ s.wild /\ ~ r.wild
    BY DEF Grown
  <2> QED BY <1>1, <2>1 DEF Grown
<1> QED BY <1>1, <1>2, <1>3, <1>4 DEF Grown

LEMMA GrownMore ==
  ASSUME NEW r, NEW s, NEW root, NEW V, NEW E, NEW V2, NEW E2, V \subseteq V2, E \subseteq E2,
         Grown(r, s, root, V, E)
  PROVE  Grown(r, s, root, V2, E2)
<1>1. Keeps(r.mem, s.mem, root, V2)
  BY DEF Grown, Keeps
<1> QED BY <1>1 DEF Grown

\* The next table is there, or no page is left for it and SYSERR is entered.
Leads(r, n, root, t, i) ==
    /\ n.ram \in Rams /\ ~ n.ram.wild /\ Adds(r.mem, n.ram.mem, root)
    /\ \/ n.at = SYSERR /\ n.ram.free = <<>> /\ Outside(r, n.ram, root)
       \/ /\ Sane(n.ram, root) /\ Grown(r, n.ram, root, {}, {})
          /\ i \in DOMAIN n.ram.mem[t] /\ n.at = n.ram.mem[t][i].pa

LEMMA TreeTables ==
  ASSUME NEW m, NEW root, Tree(m, root)
  PROVE  Tables(m, root) \subseteq Frames /\ root \in Tables(m, root)
         /\ Level1(m, root) \subseteq Tables(m, root) /\ Level0(m, root) \subseteq Tables(m, root)
BY DEF Tree, Tables

\* A page is taken for a table, and entered.
LEMMA TakesTable ==
  ASSUME NEW r \in Rams, ~ r.wild, NEW root, Sane(r, root), r.free # <<>>,
         NEW s \in Rams, ~ s.wild, s.free = Tail(r.free),
         Tree(s.mem, root), Tables(s.mem, root) = Tables(r.mem, root) \cup {Head(r.free)},
         Entries(s.mem, root) = Entries(r.mem, root), Adds(r.mem, s.mem, root),
         NEW t \in Tables(r.mem, root), \A f \in Frames \ {t, Head(r.free)} : s.mem[f] = r.mem[f]
  PROVE  Sane(s, root) /\ Grown(r, s, root, {}, {})
<1>1. r.free \in Seq(Frames) /\ IsInjective(r.free)
  BY DEF Rams, Sane
<1>2. Head(r.free) \in ToSet(r.free) /\ ToSet(s.free) = ToSet(r.free) \ {Head(r.free)} /\ IsInjective(s.free)
  BY <1>1, TakesHead
<1>3. Tables(r.mem, root) \cap ToSet(r.free) = {}
  BY DEF Sane
<1>4. Sane(s, root)
  BY <1>2, <1>3 DEF Sane
<1>5. Outside(r, s, root)
  BY <1>2 DEF Outside
<1>6. Keeps(r.mem, s.mem, root, {})
  BY AddsKeeps
<1> QED BY <1>2, <1>4, <1>5, <1>6 DEF Grown

LEMMA NextRoot ==
  ASSUME NEW r \in Rams, ~ r.wild, NEW root, Sane(r, root), NEW i \in Int,
         NEW n, n = NextTable(r, root, i)
  PROVE  Leads(r, n, root, root, i)
<1>1. /\ r.free \in Seq(Frames) /\ IsInjective(r.free) /\ Tree(r.mem, root) /\ root \in Frames
      /\ Tables(r.mem, root) \cap ToSet(r.free) = {} /\ root \in Tables(r.mem, root)
      /\ Tables(r.mem, root) \subseteq Frames
  BY TreeTables DEF Rams, Sane, Tree
<1>2. n.ram \in Rams /\ ~ n.ram.wild
  BY <1>1, NextCases
<1>3. CASE i \in DOMAIN r.mem[root]
  <2>1. n.ram = r /\ n.at = r.mem[root][i].pa
    BY <1>1, <1>3, NextCases
  <2> QED BY <1>3, <2>1, GrownSame DEF Leads, Adds
<1>4. CASE i \notin DOMAIN r.mem[root] /\ r.free = <<>>
  <2>1. /\ n.at = SYSERR /\ n.ram.free = <<>>
        /\ n.ram.mem[root] = Entered(r.mem[root], i, Pte(SYSERR, {}))
        /\ \A f \in Frames \ {root} : n.ram.mem[f] = r.mem[f]
    BY <1>1, <1>4, NextCases
  <2>2. Adds(r.mem, n.ram.mem, root)
    BY <1>1, <1>4, <2>1 DEF Adds, Entered
  <2>3. Outside(r, n.ram, root)
    BY <1>1, <2>1 DEF Outside
  <2> QED BY <1>2, <2>1, <2>2, <2>3 DEF Leads
<1>5. CASE i \notin DOMAIN r.mem[root] /\ r.free # <<>>
  <2>1. Head(r.free) \in Frames /\ Head(r.free) \in ToSet(r.free) /\ Head(r.free) \notin Tables(r.mem, root)
    BY <1>1, <1>5, TakesHead
  <2>2. root # Head(r.free)
    BY <1>1, <2>1
  <2>3. /\ n.at = Head(r.free) /\ n.ram.free = Tail(r.free)
        /\ n.ram.mem[root] = Entered(r.mem[root], i, Pte(n.at, {})) /\ n.ram.mem[n.at] = Blank
        /\ \A f \in Frames \ {root, n.at} : n.ram.mem[f] = r.mem[f]
    BY <1>1, <1>5, <2>2, NextCases
  <2>4. r.mem \in MemT /\ n.ram.mem \in MemT
    BY <1>2 DEF Rams
  <2>5. /\ Tree(n.ram.mem, root) /\ Level1(n.ram.mem, root) = Level1(r.mem, root) \cup {n.at}
        /\ Level0(n.ram.mem, root) = Level0(r.mem, root) /\ Entries(n.ram.mem, root) = Entries(r.mem, root)
        /\ n.ram.mem[root][i].pa = n.at /\ i \in DOMAIN n.ram.mem[root]
    BY <1>1, <1>5, <2>1, <2>3, <2>4, LinkRoot, SMTT(20)
  <2>6. Tables(n.ram.mem, root) = Tables(r.mem, root) \cup {Head(r.free)}
    BY <2>3, <2>5 DEF Tables
  <2>7. Adds(r.mem, n.ram.mem, root)
    BY <1>1, <1>5, <2>1, <2>3 DEF Adds, Entered
  <2>8. Sane(n.ram, root) /\ Grown(r, n.ram, root, {}, {})
    BY <1>1, <1>2, <1>5, <2>3, <2>5, <2>6, <2>7, TakesTable
  <2> QED BY <1>2, <2>5, <2>7, <2>8 DEF Leads
<1> QED BY <1>3, <1>4, <1>5

LEMMA NextMiddle ==
  ASSUME NEW r \in Rams, ~ r.wild, NEW root, Sane(r, root), NEW i \in Int,
         NEW t \in Level1(r.mem, root), NEW n, n = NextTable(r, t, i)
  PROVE  Leads(r, n, root, t, i)
<1>1. /\ r.free \in Seq(Frames) /\ IsInjective(r.free) /\ Tree(r.mem, root) /\ t \in Frames
      /\ Tables(r.mem, root) \cap ToSet(r.free) = {} /\ t \in Tables(r.mem, root)
      /\ Tables(r.mem, root) \subseteq Frames
  BY TreeTables DEF Rams, Sane, Tree
<1>2. n.ram \in Rams /\ ~ n.ram.wild
  BY <1>1, NextCases
<1>3. CASE i \in DOMAIN r.mem[t]
  <2>1. n.ram = r /\ n.at = r.mem[t][i].pa
    BY <1>1, <1>3, NextCases
  <2> QED BY <1>3, <2>1, GrownSame DEF Leads, Adds
<1>4. CASE i \notin DOMAIN r.mem[t] /\ r.free = <<>>
  <2>1. /\ n.at = SYSERR /\ n.ram.free = <<>>
        /\ n.ram.mem[t] = Entered(r.mem[t], i, Pte(SYSERR, {}))
        /\ \A f \in Frames \ {t} : n.ram.mem[f] = r.mem[f]
    BY <1>1, <1>4, NextCases
  <2>2. Adds(r.mem, n.ram.mem, root)
    BY <1>1, <1>4, <2>1 DEF Adds, Entered
  <2>3. Outside(r, n.ram, root)
    BY <1>1, <2>1 DEF Outside
  <2> QED BY <1>2, <2>1, <2>2, <2>3 DEF Leads
<1>5. CASE i \notin DOMAIN r.mem[t] /\ r.free # <<>>
  <2>1. Head(r.free) \in Frames /\ Head(r.free) \in ToSet(r.free) /\ Head(r.free) \notin Tables(r.mem, root)
    BY <1>1, <1>5, TakesHead
  <2>2. t # Head(r.free)
    BY <1>1, <2>1
  <2>3. /\ n.at = Head(r.free) /\ n.ram.free = Tail(r.free)
        /\ n.ram.mem[t] = Entered(r.mem[t], i, Pte(n.at, {})) /\ n.ram.mem[n.at] = Blank
        /\ \A f \in Frames \ {t, n.at} : n.ram.mem[f] = r.mem[f]
    BY <1>1, <1>5, <2>2, NextCases
  <2>4. r.mem \in MemT /\ n.ram.mem \in MemT
    BY <1>2 DEF Rams
  <2>5. /\ Tree(n.ram.mem, root) /\ Level1(n.ram.mem, root) = Level1(r.mem, root)
        /\ Level0(n.ram.mem, root) = Level0(r.mem, root) \cup {n.at}
        /\ Entries(n.ram.mem, root) = Entries(r.mem, root)
        /\ n.ram.mem[t][i].pa = n.at /\ i \in DOMAIN n.ram.mem[t]
    BY <1>1, <1>5, <2>1, <2>3, <2>4, LinkMiddle, SMTT(20)
  <2>6. Tables(n.ram.mem, root) = Tables(r.mem, root) \cup {Head(r.free)}
    BY <2>3, <2>5 DEF Tables
  <2>7. Adds(r.mem, n.ram.mem, root)
    BY <1>1, <1>5, <2>1, <2>3 DEF Adds, Entered
  <2>8. Sane(n.ram, root) /\ Grown(r, n.ram, root, {}, {})
    BY <1>1, <1>2, <1>5, <2>3, <2>5, <2>6, <2>7, TakesTable
  <2> QED BY <1>2, <2>5, <2>7, <2>8 DEF Leads
<1> QED BY <1>3, <1>4, <1>5

Attrs == {"R", "W", "X", "U"}

LEMMA Descends ==
  ASSUME NEW m, NEW root, NEW v, PX(2, v) \in DOMAIN m[root],
         PX(1, v) \in DOMAIN m[Mid(m, root, v)]
  PROVE  Mid(m, root, v) \in Level1(m, root) /\ Last0(m, root, v) \in Level0(m, root)
<1>1. Mid(m, root, v) \in Level1(m, root)
  BY DEF Mid, Level1, Below
<1>2. Last0(m, root, v) \in Below(m, Mid(m, root, v))
  BY DEF Last0, Below
<1> QED BY <1>1, <1>2 DEF Level0

\* From m to m2 the entry for page v has become e.
LeafSet(m, m2, root, v, e) ==
    /\ Tree(m2, root) /\ Tables(m2, root) = Tables(m, root)
    /\ Entries(m2, root) \subseteq Entries(m, root) \cup {e}
    /\ Mapped(m2, root, v) /\ Walk(m2, root, v) = e
    /\ Keeps(m, m2, root, {v})
    /\ Last0(m, root, v) \in Tables(m, root)

\* Other pages are found where they were when an entry for page v is set.
LEMMA LeafKeeps ==
  ASSUME NEW m, NEW m2, NEW root, Tree(m, root), NEW v \in Nat, NEW e,
         PX(2, v) \in DOMAIN m[root], PX(1, v) \in DOMAIN m[Mid(m, root, v)],
         Writes(m, m2, Last0(m, root, v), PX(0, v), e)
  PROVE  LeafSet(m, m2, root, v, e)
<1> DEFINE t == Last0(m, root, v)
<1>1. Writes(m, m2, t, PX(0, v), e)
  OBVIOUS
<1>2. Mid(m, root, v) \in Level1(m, root) /\ t \in Level0(m, root)
  BY Descends
<1>3. m2[t] = Entered(m[t], PX(0, v), e) /\ \A f \in Frames \ {t} : m2[f] = m[f]
  BY DEF Writes
<1> HIDE DEF t
<1>4. t = Last0(m, root, v)
  BY DEF t
<1>5. /\ Tree(m2, root) /\ Level1(m2, root) = Level1(m, root)
      /\ Level0(m2, root) = Level0(m, root) /\ Entries(m2, root) \subseteq Entries(m, root) \cup {e}
  BY <1>1, <1>2, <1>4, WriteLeaf
<1>11. /\ PX(0, v) \in DOMAIN m2[t] /\ m2[t][PX(0, v)] = e
       /\ \A j \in DOMAIN m[t] \ {PX(0, v)} : j \in DOMAIN m2[t] /\ m2[t][j] = m[t][j]
  BY <1>3 DEF Entered
<1>6. m2[root] = m[root] /\ \A x \in Level1(m, root) : m2[x] = m[x]
  BY <1>2, <1>3, <1>4 DEF Tree
<1>7. PX(2, v) \in DOMAIN m[root] /\ PX(1, v) \in DOMAIN m[Mid(m, root, v)]
  OBVIOUS
<1>8. Mid(m2, root, v) = Mid(m, root, v) /\ Last0(m2, root, v) = t
  BY <1>2, <1>4, <1>6 DEF Mid, Last0
<1>9. Mapped(m2, root, v) /\ Walk(m2, root, v) = e
  BY <1>2, <1>6, <1>7, <1>8, <1>11 DEF Mapped, Walk, Mid, Last0
<1>10. Keeps(m, m2, root, {v})
  <2> SUFFICES ASSUME NEW w \in Nat, w # v, Mapped(m, root, w)
               PROVE  Mapped(m2, root, w) /\ Walk(m2, root, w) = Walk(m, root, w)
    BY DEF Keeps
  <2>1. /\ PX(2, w) \in DOMAIN m[root] /\ Mid(m, root, w) \in Level1(m, root)
        /\ PX(1, w) \in DOMAIN m[Mid(m, root, w)] /\ Last0(m, root, w) \in Level0(m, root)
        /\ PX(0, w) \in DOMAIN m[Last0(m, root, w)]
        /\ Walk(m, root, w) = m[Last0(m, root, w)][PX(0, w)]
    BY OnTheWay
  <2>2. Mid(m2, root, w) = Mid(m, root, w)
    BY <1>6, <2>1 DEF Mid
  <2>3. Last0(m2, root, w) = Last0(m, root, w)
    BY <1>6, <2>1, <2>2 DEF Last0
  <2>4. ~ (Last0(m, root, w) = t /\ PX(0, w) = PX(0, v))
    BY <1>2, <1>4, <1>7, <2>1, WaysPart
  <2>5. Last0(m, root, w) \in Frames
    BY <1>4, <2>1 DEF Tree
  <2>6. PX(0, w) \in DOMAIN m2[Last0(m, root, w)]
        /\ m2[Last0(m, root, w)][PX(0, w)] = m[Last0(m, root, w)][PX(0, w)]
    <3>1. CASE Last0(m, root, w) = t
      BY <1>11, <2>1, <2>4, <3>1
    <3>2. CASE Last0(m, root, w) # t
      BY <1>3, <2>1, <2>5, <3>2
    <3> QED BY <3>1, <3>2
  <2> QED BY <1>6, <2>1, <2>2, <2>3, <2>6 DEF Mapped, Walk, Mid, Last0
<1> QED BY <1>2, <1>4, <1>5, <1>9, <1>10 DEF Tables, t, LeafSet

LEMMA AddsTables ==
  ASSUME NEW m, NEW m2, NEW root, NEW v, Adds(m, m2, root),
         PX(2, v) \in DOMAIN m[root], NEW t, t = Mid(m, root, v)
  PROVE  PX(2, v) \in DOMAIN m2[root] /\ Mid(m2, root, v) = t
BY DEF Adds, Tables, Mid

\* The kernel follows a pointer to nowhere: no page is left.
LEMMA GoesWild ==
  ASSUME NEW r \in Rams, NEW root, NEW n \in Rams, n.free = <<>>,
         Adds(r.mem, n.mem, root), Outside(r, n, root),
         NEW s, s = [n EXCEPT !.wild = TRUE], NEW V, NEW E
  PROVE  Sane(s, root) /\ Grown(r, s, root, V, E) /\ s.wild /\ s \in Rams
<1>1. s \in Rams /\ s.wild /\ s.free = <<>> /\ s.mem = n.mem
  BY DEF Rams
<1>2. IsInjective(s.free) /\ ToSet(s.free) = {}
  BY <1>1 DEF IsInjective, ToSet
<1>3. Keeps(r.mem, s.mem, root, V)
  BY <1>1, AddsKeeps
<1> QED BY <1>1, <1>2, <1>3 DEF Sane, Grown, Outside

\* From r to s page v of the space at root has got entry e, or the kernel is dead.
Maps(r, s, root, v, e) ==
    /\ Sane(s, root) /\ Grown(r, s, root, {v}, {e})
    /\ ~ s.wild => Mapped(s.mem, root, v) /\ Walk(s.mem, root, v) = e

LEMMA MapPage ==
  ASSUME NEW r \in Rams, ~ r.wild, NEW root, Sane(r, root), NEW v \in Nat, NEW pa \in Int,
         NEW attr \in SUBSET Attrs, NEW s, s = mapPage(r, root, v, pa, attr)
  PROVE  Maps(r, s, root, v, Pte(pa, attr))
<1> SUFFICES /\ Sane(s, root) /\ Grown(r, s, root, {v}, {Pte(pa, attr)})
             /\ ~ s.wild => Mapped(s.mem, root, v) /\ Walk(s.mem, root, v) = Pte(pa, attr)
  BY DEF Maps
<1> DEFINE l1 == NextTable(r, root, PX(2, v))
           l0 == NextTable(l1.ram, l1.at, PX(1, v))
           e  == Pte(pa, attr)
<1>1. s = IF l0.at \notin Frames THEN [l0.ram EXCEPT !.wild = TRUE]
          ELSE [l0.ram EXCEPT !.mem[l0.at] = Entered(@, PX(0, v), e)]
  BY DEF mapPage
<1>2. Leads(r, l1, root, root, PX(2, v))
  BY PXRange, NextRoot
<1>3. CASE l1.at = SYSERR /\ l1.ram.free = <<>> /\ Outside(r, l1.ram, root)
  <2>1. l0.ram = [l1.ram EXCEPT !.wild = TRUE] /\ l0.at = SYSERR
    BY <1>3, FrameNumbers DEF NextTable
  <2>2. l1.ram \in Rams /\ Adds(r.mem, l1.ram.mem, root)
    BY <1>2 DEF Leads
  <2> HIDE DEF l0, l1
  <2>3. s = [l1.ram EXCEPT !.wild = TRUE]
    BY <1>1, <2>1, <2>2, FrameNumbers DEF Rams
  <2> QED BY <1>3, <2>2, <2>3, GoesWild
<1>4. CASE /\ Sane(l1.ram, root) /\ Grown(r, l1.ram, root, {}, {})
           /\ PX(2, v) \in DOMAIN l1.ram.mem[root] /\ l1.at = l1.ram.mem[root][PX(2, v)].pa
  <2>1. l1.ram \in Rams /\ ~ l1.ram.wild /\ l1.at \in Level1(l1.ram.mem, root) /\ Tree(l1.ram.mem, root)
    BY <1>2, <1>4 DEF Leads, Sane, Level1, Below
  <2>2. Leads(l1.ram, l0, root, l1.at, PX(1, v))
    BY <1>4, <2>1, PXRange, NextMiddle
  <2>3. l0.ram \in Rams /\ ~ l0.ram.wild /\ Adds(l1.ram.mem, l0.ram.mem, root)
    BY <2>2 DEF Leads
  <2> HIDE DEF l0
  <2>4. CASE l0.at = SYSERR /\ l0.ram.free = <<>> /\ Outside(l1.ram, l0.ram, root)
    <3>1. s = [l0.ram EXCEPT !.wild = TRUE]
      BY <1>1, <2>4, FrameNumbers
    <3>2. Sane(s, root) /\ Grown(l1.ram, s, root, {v}, {e}) /\ s.wild
      BY <2>1, <2>3, <2>4, <3>1, GoesWild
    <3>3. Grown(r, s, root, {} \cup {v}, {} \cup {e})
      BY <1>4, <2>1, <3>2, GrownTwice
    <3> QED BY <3>2, <3>3
  <2>5. CASE /\ Sane(l0.ram, root) /\ Grown(l1.ram, l0.ram, root, {}, {})
             /\ PX(1, v) \in DOMAIN l0.ram.mem[l1.at] /\ l0.at = l0.ram.mem[l1.at][PX(1, v)].pa
    <3>1. Tree(l0.ram.mem, root) /\ Tables(l0.ram.mem, root) \cap ToSet(l0.ram.free) = {}
      BY <2>3, <2>5 DEF Sane
    <3>2. PX(2, v) \in DOMAIN l0.ram.mem[root] /\ Mid(l0.ram.mem, root, v) = l1.at
      BY <1>4, <2>3, AddsTables DEF Mid
    <3> HIDE DEF l1
    <3>3. l0.at = Last0(l0.ram.mem, root, v)
      BY <2>5, <3>2 DEF Last0
    <3>4. l0.at \in Level0(l0.ram.mem, root) /\ l0.at \in Frames
      BY <2>5, <3>1, <3>2, <3>3, Descends DEF Tree
    <3>5. s = [l0.ram EXCEPT !.mem[l0.at] = Entered(@, PX(0, v), e)]
      BY <1>1, <3>4
    <3>6. e \in PteT
      BY DEF PteT, Pte, Attrs
    <3>7. /\ s = [free |-> l0.ram.free, wild |-> l0.ram.wild,
                  mem |-> [l0.ram.mem EXCEPT ![l0.at] = Entered(@, PX(0, v), e)]]
          /\ l0.ram.mem \in [Frames -> TableT] /\ PX(0, v) \in Int
      BY <2>3, <3>5, PXRange DEF Rams, MemT
    <3>8. Entered(l0.ram.mem[l0.at], PX(0, v), e) \in TableT
      BY <3>4, <3>6, <3>7, AddedTable
    <3>9. /\ s \in Rams /\ s.free = l0.ram.free /\ s.wild = l0.ram.wild
          /\ s.mem[l0.at] = Entered(l0.ram.mem[l0.at], PX(0, v), e)
          /\ \A f \in Frames \ {l0.at} : s.mem[f] = l0.ram.mem[f]
      BY <2>3, <3>4, <3>7, <3>8 DEF Rams, MemT
    <3>10. /\ Tree(s.mem, root) /\ Tables(s.mem, root) = Tables(l0.ram.mem, root)
           /\ Entries(s.mem, root) \subseteq Entries(l0.ram.mem, root) \cup {e}
           /\ Mapped(s.mem, root, v) /\ Walk(s.mem, root, v) = e
           /\ Keeps(l0.ram.mem, s.mem, root, {v})
           /\ l0.at \in Tables(l0.ram.mem, root)
      <4> HIDE DEF e
      <4> DEFINE m == l0.ram.mem
                 m2 == s.mem
      <4>1. PX(2, v) \in DOMAIN m[root] /\ PX(1, v) \in DOMAIN m[Mid(m, root, v)]
        BY <2>5, <3>2
      <4>2. Writes(m, m2, Last0(m, root, v), PX(0, v), e)
        BY <3>3, <3>9 DEF Writes
      <4>3. Tree(m, root)
        BY <3>1
      <4> HIDE DEF m, m2
      <4>4. LeafSet(m, m2, root, v, e)
        BY <4>1, <4>2, <4>3, LeafKeeps
      <4> QED BY <3>3, <4>4 DEF m, m2, LeafSet
    <3> HIDE DEF e
    <3>11. Sane(s, root)
      BY <2>3, <2>5, <3>1, <3>9, <3>10 DEF Sane
    <3>12. Grown(l0.ram, s, root, {v}, {e})
      BY <2>3, <3>9, <3>10 DEF Grown, Outside
    <3>13. Grown(l1.ram, s, root, {} \cup {v}, {} \cup {e})
      BY <2>3, <2>5, <3>12, GrownTwice
    <3>14. Grown(r, s, root, {} \cup ({} \cup {v}), {} \cup ({} \cup {e}))
      BY <1>4, <2>1, <3>13, GrownTwice
    <3>15. {} \cup ({} \cup {v}) = {v} /\ {} \cup ({} \cup {e}) = {e}
      OBVIOUS
    <3> QED BY <3>10, <3>11, <3>14, <3>15 DEF e
  <2> QED BY <2>2, <2>4, <2>5 DEF Leads
<1> QED BY <1>2, <1>3, <1>4 DEF Leads

\* What mapPage() makes of a memory when it may enter E anywhere.
Reach(r, root, E) == {x \in Rams : Sane(x, root) /\ Grown(r, x, root, Nat, E)}

LEMMA ReachSelf ==
  ASSUME NEW r \in Rams, NEW root, Sane(r, root), NEW E
  PROVE  r \in Reach(r, root, E)
BY GrownSame DEF Reach

LEMMA ReachMore ==
  ASSUME NEW r, NEW root, NEW E, NEW x \in Reach(r, root, E), NEW y \in Reach(x, root, E),
         x.wild => y = x
  PROVE  y \in Reach(r, root, E)
<1>1. Grown(r, x, root, Nat, E) /\ Grown(x, y, root, Nat, E) /\ Sane(y, root) /\ y \in Rams
  BY DEF Reach
<1>2. Grown(r, y, root, Nat \cup Nat, E \cup E)
  BY <1>1, GrownTwice
<1>3. Nat \cup Nat = Nat /\ E \cup E = E
  OBVIOUS
<1> QED BY <1>1, <1>2, <1>3 DEF Reach

LEMMA MapStep ==
  ASSUME NEW r, NEW root, NEW E, NEW x \in Reach(r, root, E), NEW v \in Nat, NEW pa \in Int,
         NEW attr \in SUBSET Attrs, Pte(pa, attr) \in E
  PROVE  mapPage(x, root, v, pa, attr) \in Reach(r, root, E)
<1> DEFINE y == mapPage(x, root, v, pa, attr)
<1>1. x \in Rams /\ Sane(x, root)
  BY DEF Reach
<1>2. CASE x.wild
  <2>1. y = x
    BY <1>2 DEF mapPage
  <2> QED BY <2>1
<1>3. CASE ~ x.wild
  <2>1. Sane(y, root) /\ Grown(x, y, root, {v}, {Pte(pa, attr)})
    BY <1>1, <1>3, MapPage DEF Maps
  <2>2. {v} \subseteq Nat /\ {Pte(pa, attr)} \subseteq E
    OBVIOUS
  <2> HIDE DEF y
  <2>3. Grown(x, y, root, Nat, E)
    BY <2>1, <2>2, GrownMore
  <2>4. y \in Reach(x, root, E)
    BY <2>1, <2>3 DEF Reach, Sane
  <2>5. y \in Reach(r, root, E)
    BY <1>3, <2>4, ReachMore
  <2> QED BY <2>5 DEF y
<1> QED BY <1>2, <1>3

\* mapAddressRange() does what mapPage() does, page by page ...
LEMMA RangeClosed ==
  ASSUME NEW T, NEW r \in T, NEW root, NEW v \in Nat, NEW pa \in Int,
         NEW length \in Nat, NEW attr,
         \A k \in 1 .. length : \A x \in T : mapPage(x, root, v + k - 1, pa + k - 1, attr) \in T
  PROVE  mapAddressRange(r, root, v, pa, length, attr) \in T
<1> DEFINE mapped == CHOOSE f : f = [k \in 0 .. length |->
                        IF k = 0 THEN r
                        ELSE mapPage(f[k - 1], root, v + k - 1, pa + k - 1, attr)]
           steps == [k \in 1 .. length |-> [x \in T |-> mapPage(x, root, v + k - 1, pa + k - 1, attr)]]
<1>1. mapAddressRange(r, root, v, pa, length, attr) = IF r.wild THEN r ELSE mapped[length]
  BY Zenon DEF mapAddressRange
<1>4. steps \in [1 .. length -> [T -> T]]
  OBVIOUS
<1>5. PICK f \in [0 .. length -> T] : Makes(f, steps, r, length)
  <2> HIDE DEF steps
  <2> QED BY <1>4, Recurrence
<1>6. f = [k \in 0 .. length |-> IF k = 0 THEN r
                                 ELSE mapPage(f[k - 1], root, v + k - 1, pa + k - 1, attr)]
  <2> DEFINE g == [k \in 0 .. length |-> IF k = 0 THEN r
                                 ELSE mapPage(f[k - 1], root, v + k - 1, pa + k - 1, attr)]
  <2>1. ASSUME NEW k \in 0 .. length PROVE f[k] = g[k]
    <3>1. CASE k = 0
      BY <1>5, <3>1 DEF Makes
    <3>2. CASE k # 0
      <4>1. k \in 1 .. length /\ k - 1 \in 0 .. length
        BY <3>2
      <4>2. f[k] = steps[k][f[k - 1]] /\ f[k - 1] \in T
        BY <1>5, <4>1 DEF Makes
      <4> QED BY <3>2, <4>1, <4>2
    <3> QED BY <3>1, <3>2
  <2>2. f = g
    BY <2>1
  <2> QED BY <2>2
<1>7. mapped = [k \in 0 .. length |-> IF k = 0 THEN r
                    ELSE mapPage(mapped[k - 1], root, v + k - 1, pa + k - 1, attr)]
  BY <1>6
<1> HIDE DEF mapped
<1> DEFINE S == {k \in Nat : k <= length => mapped[k] \in T}
<1>8. 0 \in S
  BY <1>7
<1>9. ASSUME NEW k \in Nat, k \in S PROVE k + 1 \in S
  <2> SUFFICES ASSUME k + 1 <= length PROVE mapped[k + 1] \in T
    OBVIOUS
  <2>1. mapped[k] \in T /\ k + 1 \in 1 .. length /\ (k + 1) - 1 = k /\ k + 1 # 0
    BY <1>9
  <2>2. mapped[k + 1] = mapPage(mapped[(k + 1) - 1], root, v + (k + 1) - 1, pa + (k + 1) - 1, attr)
    BY <1>7, <2>1
  <2>3. mapPage(mapped[k], root, v + (k + 1) - 1, pa + (k + 1) - 1, attr) \in T
    BY <2>1
  <2> QED BY <2>1, <2>2, <2>3
<1>10. length \in S
  <2> HIDE DEF S
  <2> QED BY <1>8, <1>9, SetInduction
<1>11. mapped[length] \in T
  BY <1>10
<1> QED BY <1>1, <1>11

LEMMA MapRange ==
  ASSUME NEW r \in Rams, NEW root, Sane(r, root), NEW E, NEW v \in Nat, NEW pa \in Int,
         NEW length \in Nat, NEW attr \in SUBSET Attrs,
         \A k \in 1 .. length : Pte(pa + k - 1, attr) \in E
  PROVE  mapAddressRange(r, root, v, pa, length, attr) \in Reach(r, root, E)
<1>1. r \in Reach(r, root, E)
  BY ReachSelf
<1>2. ASSUME NEW k \in 1 .. length, NEW x \in Reach(r, root, E)
      PROVE  mapPage(x, root, v + k - 1, pa + k - 1, attr) \in Reach(r, root, E)
  <2>1. v + k - 1 \in Nat /\ pa + k - 1 \in Int /\ Pte(pa + k - 1, attr) \in E
    OBVIOUS
  <2> QED BY <2>1, MapStep
<1> QED BY <1>1, <1>2, RangeClosed

\* The parts of an address space, with what mapPage() enters for them.
Part(x, E) ==
    /\ x[1] \in Nat /\ x[2] \in Nat /\ x[3] \in SUBSET Attrs
    /\ \A k \in 1 .. x[2] : Pte(x[1] + k - 1, x[3]) \in E
Parts(ranges, E) == Len(ranges) \in Nat /\ \A k \in 1 .. Len(ranges) : Part(ranges[k], E)

LEMMA PartStep ==
  ASSUME NEW r, NEW root, NEW E, NEW x \in Reach(r, root, E), NEW p, Part(p, E)
  PROVE  mapAddressRange(x, root, p[1], p[1], p[2], p[3]) \in Reach(r, root, E)
<1> DEFINE y == mapAddressRange(x, root, p[1], p[1], p[2], p[3])
<1>1. x.wild => y = x
  BY DEF mapAddressRange
<1>2. x \in Rams /\ Sane(x, root)
  BY DEF Reach
<1>3. /\ p[1] \in Nat /\ p[1] \in Int /\ p[2] \in Nat /\ p[3] \in SUBSET Attrs
      /\ \A k \in 1 .. p[2] : Pte(p[1] + k - 1, p[3]) \in E
  BY DEF Part
<1>4. y \in Reach(x, root, E)
  BY <1>2, <1>3, MapRange
<1> HIDE DEF y
<1>5. y \in Reach(r, root, E)
  BY <1>1, <1>4, ReachMore
<1> QED BY <1>5 DEF y

\* ... and an address space is made part by part.
LEMMA PartsClosed ==
  ASSUME NEW T, NEW r \in T, NEW root, NEW ranges, Len(ranges) \in Nat,
         \A k \in 1 .. Len(ranges) : \A x \in T :
             mapAddressRange(x, root, ranges[k][1], ranges[k][1], ranges[k][2], ranges[k][3]) \in T
  PROVE  Identity(r, root, ranges) \in T
<1> DEFINE n == Len(ranges)
           to(x, k) == mapAddressRange(x, root, ranges[k][1], ranges[k][1], ranges[k][2], ranges[k][3])
           mapped == CHOOSE f : f = [k \in 0 .. Len(ranges) |->
                        IF k = 0 THEN r
                        ELSE LET x == ranges[k]
                             IN mapAddressRange(f[k - 1], root, x[1], x[1], x[2], x[3])]
           steps == [k \in 1 .. n |-> [x \in T |-> to(x, k)]]
<1>1. Identity(r, root, ranges) = mapped[n]
  BY Zenon DEF Identity
<1>2. r \in T
  OBVIOUS
<1>3. ASSUME NEW k \in 1 .. n, NEW x \in T PROVE to(x, k) \in T
  OBVIOUS
<1>0. n \in Nat
  OBVIOUS
<1> HIDE DEF to
<1>4. steps \in [1 .. n -> [T -> T]]
  BY <1>3
<1>5. PICK f \in [0 .. n -> T] : Makes(f, steps, r, n)
  <2> HIDE DEF steps, n
  <2> QED BY <1>0, <1>2, <1>4, Recurrence
<1>6. f = [k \in 0 .. n |-> IF k = 0 THEN r ELSE to(f[k - 1], k)]
  <2> DEFINE g == [k \in 0 .. n |-> IF k = 0 THEN r ELSE to(f[k - 1], k)]
  <2>1. ASSUME NEW k \in 0 .. n PROVE f[k] = g[k]
    <3>1. CASE k = 0
      BY <1>5, <3>1 DEF Makes
    <3>2. CASE k # 0
      <4>1. k \in 1 .. n /\ k - 1 \in 0 .. n
        BY <1>0, <3>2
      <4>2. f[k] = steps[k][f[k - 1]] /\ f[k - 1] \in T
        BY <1>5, <4>1 DEF Makes
      <4> QED BY <3>2, <4>1, <4>2
    <3> QED BY <3>1, <3>2
  <2>2. f = g
    BY <2>1
  <2> QED BY <2>2
<1>7. mapped = [k \in 0 .. n |-> IF k = 0 THEN r ELSE to(mapped[k - 1], k)]
  BY <1>6 DEF to
<1> HIDE DEF mapped, n
<1> DEFINE S == {k \in Nat : k <= n => mapped[k] \in T}
<1>8. 0 \in S
  BY <1>0, <1>2, <1>7
<1>9. ASSUME NEW k \in Nat, k \in S PROVE k + 1 \in S
  <2> SUFFICES ASSUME k + 1 <= n PROVE mapped[k + 1] \in T
    OBVIOUS
  <2>1. mapped[k] \in T /\ k + 1 \in 1 .. n /\ (k + 1) - 1 = k /\ k + 1 # 0
    BY <1>0, <1>9
  <2>2. mapped[k + 1] = to(mapped[(k + 1) - 1], k + 1)
    BY <1>0, <1>7, <2>1
  <2>3. to(mapped[k], k + 1) \in T
    BY <1>3, <2>1
  <2> QED BY <2>1, <2>2, <2>3
<1>10. n \in S
  <2> HIDE DEF S
  <2> QED BY <1>0, <1>8, <1>9, SetInduction
<1>11. mapped[n] \in T
  BY <1>10
<1> QED BY <1>1, <1>11

LEMMA MapParts ==
  ASSUME NEW r \in Rams, NEW root, Sane(r, root), NEW E, NEW ranges, Parts(ranges, E)
  PROVE  Identity(r, root, ranges) \in Reach(r, root, E)
<1>1. r \in Reach(r, root, E)
  BY ReachSelf
<1>2. Len(ranges) \in Nat /\ \A k \in 1 .. Len(ranges) : Part(ranges[k], E)
  BY DEF Parts
<1>3. ASSUME NEW k \in 1 .. Len(ranges), NEW x \in Reach(r, root, E)
      PROVE  mapAddressRange(x, root, ranges[k][1], ranges[k][1], ranges[k][2], ranges[k][3])
                 \in Reach(r, root, E)
  BY <1>2, PartStep
<1> QED BY <1>1, <1>2, <1>3, PartsClosed

\* Of the parts that a process is given, it can write to the UART alone.
ProcessPtes == {e \in PteT : {"W", "U"} \subseteq e.attr => e.pa = UART_BASE}

LEMMA UserParts == Parts(UserRanges, ProcessPtes)
<1>1. Len(UserRanges) = 5
  BY DEF UserRanges
<1>2. \A pa \in Int : \A attr \in SUBSET Attrs :
          ("W" \notin attr \/ "U" \notin attr \/ pa = UART_BASE) => Pte(pa, attr) \in ProcessPtes
  BY DEF ProcessPtes, PteT, Pte, Attrs
<1>3. /\ RW \cup U \in SUBSET Attrs /\ RX \cup U \in SUBSET Attrs /\ RX \in SUBSET Attrs
      /\ {"R"} \cup U \in SUBSET Attrs
      /\ "W" \notin RX \cup U /\ "W" \notin RX /\ "W" \notin {"R"} \cup U
  BY DEF RW, RX, U, Attrs
<1>4. /\ UART_BASE \in Nat /\ start \in Nat /\ ctxsws \in Nat /\ interrupte \in Nat
      /\ datas \in Nat /\ memheap \in Nat
      /\ ctxsws - start \in Nat /\ datas - interrupte \in Nat /\ memheap - datas \in Nat
  BY LayoutAssumption
<1>5. Part(UserRanges[1], ProcessPtes)
  <2> SUFFICES Part(<<UART_BASE, 1, RW \cup U>>, ProcessPtes)
    BY DEF UserRanges
  <2>1. \A k \in 1 .. 1 : UART_BASE + k - 1 = UART_BASE
    BY <1>4
  <2> QED BY <1>2, <1>3, <1>4, <2>1 DEF Part
<1>6. ASSUME NEW a \in Nat, NEW n \in Nat, NEW attr \in SUBSET Attrs, "W" \notin attr
      PROVE  Part(<<a, n, attr>>, ProcessPtes)
  BY <1>2, <1>6 DEF Part
<1>7. /\ UserRanges[2] = <<start, ctxsws - start, RX \cup U>> /\ UserRanges[3] = <<ctxsws, 2, RX>>
      /\ UserRanges[4] = <<interrupte, datas - interrupte, RX \cup U>>
      /\ UserRanges[5] = <<datas, memheap - datas, {"R"} \cup U>>
  BY DEF UserRanges
<1>8. /\ Part(UserRanges[2], ProcessPtes) /\ Part(UserRanges[3], ProcessPtes)
      /\ Part(UserRanges[4], ProcessPtes) /\ Part(UserRanges[5], ProcessPtes)
  BY <1>3, <1>4, <1>6, <1>7
<1> QED BY <1>1, <1>5, <1>8 DEF Parts

LEMMA KernelParts == Parts(KernRanges, PteT)
<1>1. Len(KernRanges) = 8
  BY DEF KernRanges
<1>2. RW \in SUBSET Attrs /\ RX \in SUBSET Attrs
  BY DEF RW, RX, Attrs
<1>3. \A pa \in Int : \A attr \in SUBSET Attrs : Pte(pa, attr) \in PteT
  BY DEF PteT, Pte, Attrs
<1>4. /\ UART_BASE \in Nat /\ PLIC_BASE \in Nat /\ TIMER_BASE \in Nat
      /\ start \in Nat /\ ctxsws \in Nat /\ interrupte \in Nat
      /\ datas \in Nat /\ memheap \in Nat
      /\ ctxsws - start \in Nat /\ datas - interrupte \in Nat /\ memheap - datas \in Nat
      /\ maxaddr - memheap + 1 \in Nat
  BY LayoutAssumption
<1>5. ASSUME NEW a \in Nat, NEW n \in Nat, NEW attr \in SUBSET Attrs
      PROVE  Part(<<a, n, attr>>, PteT)
  BY <1>3 DEF Part
<1>6. /\ KernRanges[1] = <<UART_BASE, 1, RW>> /\ KernRanges[2] = <<PLIC_BASE, 1, RW>>
      /\ KernRanges[3] = <<TIMER_BASE, 1, RW>> /\ KernRanges[4] = <<start, ctxsws - start, RX>>
      /\ KernRanges[5] = <<ctxsws, 2, RX>> /\ KernRanges[6] = <<interrupte, datas - interrupte, RX>>
      /\ KernRanges[7] = <<datas, memheap - datas, RW>>
      /\ KernRanges[8] = <<memheap, maxaddr - memheap + 1, RW>>
  BY DEF KernRanges
<1>7. /\ Part(KernRanges[1], PteT) /\ Part(KernRanges[2], PteT) /\ Part(KernRanges[3], PteT)
      /\ Part(KernRanges[4], PteT) /\ Part(KernRanges[5], PteT) /\ Part(KernRanges[6], PteT)
      /\ Part(KernRanges[7], PteT) /\ Part(KernRanges[8], PteT)
  <2>1. 1 \in Nat /\ 2 \in Nat
    OBVIOUS
  <2> QED BY <1>2, <1>4, <1>5, <1>6, <2>1
<1>8. \A k \in 1 .. 8 : Part(KernRanges[k], PteT)
  BY <1>7
<1> QED BY <1>1, <1>8 DEF Parts

-----------------------------------------------------------------------------
(* The list of free pages is made.                                         *)

LEMMA Pushed ==
  ASSUME NEW S, NEW s \in Seq(S), NEW a \in S, a \notin ToSet(s), IsInjective(s)
  PROVE  /\ <<a>> \o s \in Seq(S) /\ IsInjective(<<a>> \o s) /\ <<a>> \o s # <<>>
         /\ ToSet(<<a>> \o s) = ToSet(s) \cup {a}
<1> DEFINE t == <<a>> \o s
<1>1. /\ t \in Seq(S) /\ Len(t) = Len(s) + 1 /\ Len(s) \in Nat
      /\ DOMAIN t = 1 .. Len(s) + 1 /\ DOMAIN s = 1 .. Len(s)
      /\ t[1] = a /\ \A i \in 1 .. Len(s) : t[i + 1] = s[i]
  OBVIOUS
<1> HIDE DEF t
<1>2. \A j \in DOMAIN t : j = 1 \/ (j - 1 \in DOMAIN s /\ t[j] = s[j - 1])
  <2> SUFFICES ASSUME NEW j \in DOMAIN t, j # 1 PROVE j - 1 \in DOMAIN s /\ t[j] = s[j - 1]
    OBVIOUS
  <2>1. j - 1 \in 1 .. Len(s) /\ (j - 1) + 1 = j
    BY <1>1
  <2> QED BY <1>1, <2>1
<1>3. \A i \in DOMAIN s : s[i] # a
  BY DEF ToSet
<1>4. IsInjective(t)
  <2> SUFFICES ASSUME NEW i \in DOMAIN t, NEW j \in DOMAIN t, t[i] = t[j] PROVE i = j
    BY DEF IsInjective
  <2>1. CASE i = 1
    BY <1>1, <1>2, <1>3, <2>1
  <2>2. CASE j = 1
    BY <1>1, <1>2, <1>3, <2>2
  <2>3. CASE i # 1 /\ j # 1
    <3>1. i - 1 \in DOMAIN s /\ j - 1 \in DOMAIN s /\ s[i - 1] = s[j - 1]
      BY <1>2, <2>3
    <3>2. i - 1 = j - 1
      BY <3>1 DEF IsInjective
    <3> QED BY <1>1, <3>2
  <2> QED BY <2>1, <2>2, <2>3
<1>5. ToSet(t) = ToSet(s) \cup {a}
  <2>1. ASSUME NEW x \in ToSet(s) PROVE x \in ToSet(t)
    <3>1. PICK i \in 1 .. Len(s) : x = s[i]
      BY <1>1 DEF ToSet
    <3>2. i + 1 \in DOMAIN t /\ t[i + 1] = x
      BY <1>1, <3>1
    <3> QED BY <3>2 DEF ToSet
  <2>2. a \in ToSet(t)
    <3>1. 1 \in DOMAIN t
      BY <1>1
    <3> QED BY <1>1, <3>1 DEF ToSet
  <2>3. ToSet(t) \subseteq ToSet(s) \cup {a}
    BY <1>1, <1>2 DEF ToSet
  <2> QED BY <2>1, <2>2, <2>3
<1>6. t # <<>>
  BY <1>1
<1> QED BY <1>1, <1>4, <1>5, <1>6 DEF t

\* All pages are blank and free.
Fresh(x, k) == /\ x \in Rams /\ ~ x.wild /\ \A f \in Frames : x.mem[f] = Blank
               /\ IsInjective(x.free) /\ ToSet(x.free) = memheap .. memheap + k - 1
               /\ k > 0 => x.free # <<>>

LEMMA FreeFacts ==
  ASSUME NEW x \in Rams, NEW a \in Frames
  PROVE  /\ pgfree(x, a) \in Rams /\ pgfree(x, a).free = <<a>> \o x.free
         /\ pgfree(x, a).mem = x.mem /\ pgfree(x, a).wild = x.wild
<1>1. x \in [free : Seq(Frames), mem : MemT, wild : BOOLEAN]
  BY DEF Rams
<1>2. <<a>> \o x.free \in Seq(Frames)
  BY <1>1
<1> DEFINE s == <<a>> \o x.free
<1>3. pgfree(x, a) = [x EXCEPT !.free = s]
  BY DEF pgfree
<1>4. s \in Seq(Frames) /\ x.mem \in MemT /\ x.wild \in BOOLEAN
  BY <1>1, <1>2
<1> HIDE DEF s
<1>5. pgfree(x, a) = [free |-> s, mem |-> x.mem, wild |-> x.wild]
  BY <1>1, <1>3
<1>6. pgfree(x, a) \in Rams
  BY <1>4, <1>5 DEF Rams
<1>7. pgfree(x, a).free = s /\ pgfree(x, a).mem = x.mem /\ pgfree(x, a).wild = x.wild
  BY <1>5
<1> QED BY <1>6, <1>7 DEF s

LEMMA PushStep ==
  ASSUME NEW k \in Nat, memheap + k <= maxaddr, NEW x, Fresh(x, k)
  PROVE  Fresh(pgfree(x, memheap + k), k + 1)
<1> DEFINE a == memheap + k
<1>1. a \in Frames /\ a \notin memheap .. memheap + k - 1 /\ memheap \in Nat
      /\ (memheap .. memheap + k - 1) \cup {a} = memheap .. memheap + (k + 1) - 1
  BY LayoutAssumption DEF Frames
<1>2. x.free \in Seq(Frames) /\ x.mem \in MemT /\ IsInjective(x.free)
      /\ ToSet(x.free) = memheap .. memheap + k - 1
  BY DEF Fresh, Rams
<1> HIDE DEF a
<1>3. /\ <<a>> \o x.free \in Seq(Frames) /\ IsInjective(<<a>> \o x.free) /\ <<a>> \o x.free # <<>>
      /\ ToSet(<<a>> \o x.free) = ToSet(x.free) \cup {a}
  BY <1>1, <1>2, Pushed
<1>4. x \in Rams
  BY DEF Fresh
<1>5. /\ pgfree(x, a) \in Rams /\ pgfree(x, a).free = <<a>> \o x.free
      /\ pgfree(x, a).mem = x.mem /\ pgfree(x, a).wild = x.wild
  BY <1>1, <1>4, FreeFacts
<1>6. ToSet(pgfree(x, a).free) = memheap .. memheap + (k + 1) - 1
  BY <1>1, <1>2, <1>3, <1>5
<1>7. Fresh(pgfree(x, a), k + 1)
  BY <1>3, <1>5, <1>6 DEF Fresh
<1> QED BY <1>7 DEF a

LEMMA PgInit == pgInit \in Rams /\ ~ pgInit.wild /\ IsInjective(pgInit.free) /\ pgInit.free # <<>>
<1> DEFINE r == [free |-> <<>>, mem |-> [f \in Frames |-> Blank], wild |-> FALSE]
           n == maxaddr - memheap + 1
           T == [free : Seq(Frames), mem : MemT, wild : BOOLEAN]
           pushed == CHOOSE f : f = [k \in 0 .. maxaddr - memheap + 1 |->
                                        IF k = 0 THEN r ELSE pgfree(f[k - 1], memheap + k - 1)]
           steps == [k \in 1 .. n |-> [x \in T |-> pgfree(x, memheap + k - 1)]]
<1>1. pgInit = pushed[n]
  BY Zenon DEF pgInit, pgfreerange
<1>2. n \in Nat /\ n > 0 /\ memheap \in Nat /\ memheap + n - 1 = maxaddr
  BY LayoutAssumption
<1>3. r \in T /\ Fresh(r, 0)
  <2>1. [f \in Frames |-> Blank] \in MemT
    BY BlankTable DEF MemT
  <2>2. IsInjective(<<>>) /\ ToSet(<<>>) = {} /\ memheap .. memheap + 0 - 1 = {}
    BY <1>2 DEF IsInjective, ToSet
  <2>3. <<>> \in Seq(Frames)
    OBVIOUS
  <2>4. r \in T
    BY <2>1, <2>3
  <2>5. r.free = <<>> /\ ~ r.wild /\ \A f \in Frames : r.mem[f] = Blank
    OBVIOUS
  <2>6. r \in Rams
    BY <2>4 DEF Rams
  <2>7. IsInjective(r.free) /\ ToSet(r.free) = memheap .. memheap + 0 - 1
    BY <2>2, <2>5
  <2> HIDE DEF r, T
  <2> QED BY <2>4, <2>5, <2>6, <2>7 DEF Fresh
<1>4. ASSUME NEW k \in 1 .. n, NEW x \in T PROVE pgfree(x, memheap + k - 1) \in T
  <2> DEFINE a == memheap + k - 1
  <2>1. a \in Frames
    BY <1>2 DEF Frames
  <2> HIDE DEF a
  <2> QED BY <2>1, FreeFacts DEF a, Rams
<1> HIDE DEF T, r, n
<1>5. steps \in [1 .. n -> [T -> T]]
  BY <1>4
<1>6. PICK f \in [0 .. n -> T] : Makes(f, steps, r, n)
  <2> HIDE DEF steps
  <2> QED BY <1>2, <1>3, <1>5, Recurrence
<1>7. f = [k \in 0 .. n |-> IF k = 0 THEN r ELSE pgfree(f[k - 1], memheap + k - 1)]
  <2> DEFINE g == [k \in 0 .. n |-> IF k = 0 THEN r ELSE pgfree(f[k - 1], memheap + k - 1)]
  <2>1. ASSUME NEW k \in 0 .. n PROVE f[k] = g[k]
    <3>1. CASE k = 0
      BY <1>6, <3>1 DEF Makes
    <3>2. CASE k # 0
      <4>1. k \in 1 .. n /\ k - 1 \in 0 .. n
        BY <1>2, <3>2
      <4>2. f[k] = steps[k][f[k - 1]] /\ f[k - 1] \in T
        BY <1>6, <4>1 DEF Makes
      <4> QED BY <3>2, <4>1, <4>2
    <3> QED BY <3>1, <3>2
  <2>2. f = g
    BY <2>1
  <2> QED BY <2>2
<1>8. pushed = [k \in 0 .. n |-> IF k = 0 THEN r ELSE pgfree(pushed[k - 1], memheap + k - 1)]
  BY <1>7 DEF n
<1> HIDE DEF pushed
<1> DEFINE S == {k \in Nat : k <= n => Fresh(pushed[k], k)}
<1>9. 0 \in S
  BY <1>2, <1>3, <1>8
<1>10. ASSUME NEW k \in Nat, k \in S PROVE k + 1 \in S
  <2> SUFFICES ASSUME k + 1 <= n PROVE Fresh(pushed[k + 1], k + 1)
    OBVIOUS
  <2>1. Fresh(pushed[k], k) /\ k + 1 \in 0 .. n /\ (k + 1) - 1 = k /\ k + 1 # 0
        /\ memheap + (k + 1) - 1 = memheap + k /\ memheap + k <= maxaddr
    BY <1>2, <1>10
  <2>2. pushed[k + 1] = pgfree(pushed[(k + 1) - 1], memheap + (k + 1) - 1)
    BY <1>8, <2>1
  <2>3. pushed[k + 1] = pgfree(pushed[k], memheap + k)
    BY <2>1, <2>2
  <2> QED BY <2>1, <2>3, PushStep
<1>11. n \in S
  <2> HIDE DEF S
  <2> QED BY <1>2, <1>9, <1>10, SetInduction
<1>12. Fresh(pushed[n], n)
  BY <1>2, <1>11
<1> QED BY <1>1, <1>2, <1>12 DEF Fresh

-----------------------------------------------------------------------------
(* New pages.                                                              *)

\* A page for a root.
LEMMA FreshRoot ==
  ASSUME NEW r \in Rams, ~ r.wild, IsInjective(r.free), r.free # <<>>,
         NEW a, a = pgalloc(r), NEW root, root = pgtop(r)
  PROVE  /\ a \in Rams /\ ~ a.wild /\ Sane(a, root)
         /\ Tables(a.mem, root) = {root} /\ Entries(a.mem, root) = {}
         /\ root \in Frames /\ root \in ToSet(r.free)
         /\ ToSet(a.free) = ToSet(r.free) \ {root}
         /\ \A f \in Frames \ {root} : a.mem[f] = r.mem[f]
<1>1. r.free \in Seq(Frames)
  BY DEF Rams
<1>2. /\ a \in Rams /\ ~ a.wild /\ root = Head(r.free) /\ root \in Frames /\ a.free = Tail(r.free)
      /\ a.mem[root] = Blank /\ \A f \in Frames \ {root} : a.mem[f] = r.mem[f]
  BY AllocFacts
<1>3. root \in ToSet(r.free) /\ ToSet(a.free) = ToSet(r.free) \ {root} /\ IsInjective(a.free)
  BY <1>1, <1>2, TakesHead
<1>4. DOMAIN a.mem[root] = {}
  BY <1>2, BlankTable
<1>5. Level1(a.mem, root) = {}
  BY <1>4 DEF Level1, Below
<1>6. Level0(a.mem, root) = {}
  BY <1>5 DEF Level0
<1>7. Entries(a.mem, root) = {} /\ Tables(a.mem, root) = {root}
  BY <1>5, <1>6 DEF Entries, Tables
<1>8. Tree(a.mem, root)
  BY <1>2, <1>4, <1>5, <1>6 DEF Tree
<1> QED BY <1>2, <1>3, <1>7, <1>8 DEF Sane

\* A page that is taken is none of the tables and not free any more.
LEMMA TakesPage ==
  ASSUME NEW r \in Rams, NEW root, Sane(r, root), r.free # <<>>,
         NEW a, a = pgalloc(r), NEW g, g = pgtop(r)
  PROVE  /\ ~ r.wild /\ ~ a.wild /\ a \in Rams /\ Sane(a, root) /\ Grown(r, a, root, {}, {})
         /\ g \in Frames /\ g \in ToSet(r.free) /\ g \notin ToSet(a.free)
         /\ g \notin Tables(a.mem, root)
<1>1. r.free \in Seq(Frames) /\ IsInjective(r.free) /\ ~ r.wild /\ Tree(r.mem, root)
      /\ Tables(r.mem, root) \cap ToSet(r.free) = {}
  BY DEF Rams, Sane
<1>2. /\ a \in Rams /\ ~ a.wild /\ g = Head(r.free) /\ g \in Frames /\ a.free = Tail(r.free)
      /\ \A f \in Frames \ {g} : a.mem[f] = r.mem[f]
  BY <1>1, AllocFacts
<1>3. g \in ToSet(r.free) /\ ToSet(a.free) = ToSet(r.free) \ {g} /\ IsInjective(a.free)
  BY <1>1, <1>2, TakesHead
<1>4. \A t \in Tables(r.mem, root) : a.mem[t] = r.mem[t]
  BY <1>1, <1>2, <1>3, TreeTables
<1>5. Adds(r.mem, a.mem, root)
  BY <1>4 DEF Adds
<1>6. Keeps(r.mem, a.mem, root, {})
  BY <1>5, AddsKeeps
<1>7. Level1(a.mem, root) = Level1(r.mem, root)
  BY <1>1, <1>4, TreeTables DEF Level1, Below
<1>8. Level0(a.mem, root) = Level0(r.mem, root)
  <2>1. \A t \in Level1(r.mem, root) : Below(a.mem, t) = Below(r.mem, t)
    BY <1>1, <1>4, TreeTables DEF Below
  <2> QED BY <1>7, <2>1 DEF Level0
<1>9. Entries(a.mem, root) = Entries(r.mem, root)
  <2>1. \A t \in Level0(r.mem, root) : Leaves(a.mem, t) = Leaves(r.mem, t)
    BY <1>1, <1>4, TreeTables DEF Leaves
  <2> QED BY <1>8, <2>1 DEF Entries
<1>10. Tables(a.mem, root) = Tables(r.mem, root)
  BY <1>7, <1>8 DEF Tables
<1>11. Tree(a.mem, root)
  <2>1. a.mem[root] = r.mem[root] /\ \A t \in Level1(r.mem, root) : a.mem[t] = r.mem[t]
    BY <1>1, <1>4, TreeTables
  <2> QED BY <1>1, <1>7, <1>8, <2>1 DEF Tree
<1>12. Outside(r, a, root)
  BY <1>2, <1>3 DEF Outside
<1> QED BY <1>1, <1>2, <1>3, <1>6, <1>9, <1>10, <1>11, <1>12 DEF Sane, Grown

LEMMA NoElements ==
  ASSUME NEW S, NEW s \in Seq(S), ToSet(s) = {}
  PROVE  s = <<>>
<1> SUFFICES ASSUME s # <<>> PROVE FALSE
  OBVIOUS
<1>1. 1 \in DOMAIN s
  OBVIOUS
<1> QED BY <1>1 DEF ToSet

\* From s to t a page is taken and mapped for v, if there is one.
News(s, t, root, v) ==
    /\ t \in Rams /\ Sane(t, root) /\ Grown(s, t, root, {v}, {Pte(pgtop(s), RW \cup U)})
    /\ s.free = <<>> => t.free = <<>>
    /\ s.wild => t = s
    /\ s.free # <<>> => /\ pgtop(s) \in Frames /\ pgtop(s) \in ToSet(s.free)
                        /\ pgtop(s) \notin ToSet(t.free)
                        /\ ~ t.wild => /\ pgtop(s) \notin Tables(t.mem, root)
                                       /\ Mapped(t.mem, root, v)
                                       /\ Walk(t.mem, root, v) = Pte(pgtop(s), RW \cup U)

LEMMA MapNew ==
  ASSUME NEW s \in Rams, NEW root, Sane(s, root), NEW v \in Nat,
         NEW t, t = mapPage(pgalloc(s), root, v, pgtop(s), RW \cup U)
  PROVE  News(s, t, root, v)
<1> USE DEF News
<1> DEFINE a == pgalloc(s)
           g == pgtop(s)
           e == Pte(g, RW \cup U)
<1>1. RW \cup U \in SUBSET Attrs
  BY DEF RW, U, Attrs
<1>2. CASE s.free # <<>>
  <2>1. /\ ~ s.wild /\ ~ a.wild /\ a \in Rams /\ Sane(a, root) /\ Grown(s, a, root, {}, {})
        /\ g \in Frames /\ g \in ToSet(s.free) /\ g \notin ToSet(a.free)
        /\ g \notin Tables(a.mem, root)
    BY <1>2, TakesPage
  <2>2. g \in Int
    BY <2>1, FrameNumbers
  <2>7. t = mapPage(a, root, v, g, RW \cup U)
    OBVIOUS
  <2> HIDE DEF a, g
  <2> DEFINE attr == RW \cup U
  <2>8. t = mapPage(a, root, v, g, attr) /\ attr \in SUBSET Attrs
    BY <1>1, <2>7
  <2> HIDE DEF attr
  <2>9. Maps(a, t, root, v, Pte(g, attr))
    BY <2>1, <2>2, <2>8, MapPage
  <2>3. /\ Sane(t, root) /\ Grown(a, t, root, {v}, {Pte(g, RW \cup U)})
        /\ ~ t.wild => Mapped(t.mem, root, v) /\ Walk(t.mem, root, v) = Pte(g, RW \cup U)
    BY <2>9 DEF attr, Maps
  <2>4. Grown(s, t, root, {} \cup {v}, {} \cup {e})
    BY <2>1, <2>3, GrownTwice
  <2>5. {} \cup {v} = {v} /\ {} \cup {e} = {e}
    OBVIOUS
  <2>6. g \notin ToSet(t.free) /\ (~ t.wild => g \notin Tables(t.mem, root))
    BY <2>1, <2>3 DEF Grown
  <2> QED BY <1>2, <2>1, <2>3, <2>4, <2>5, <2>6 DEF Sane, g
<1>3. CASE s.free = <<>>
  <2>1. a = s /\ g = SYSERR
    BY <1>3, AllocFacts
  <2>2. ToSet(s.free) = {}
    BY <1>3 DEF ToSet
  <2>3. CASE s.wild
    <3>1. t = s
      BY <2>1, <2>3 DEF mapPage
    <3> QED BY <1>3, <3>1, GrownSame
  <2>4. CASE ~ s.wild
    <3>1. Sane(t, root) /\ Grown(s, t, root, {v}, {e})
      BY <1>1, <2>1, <2>4, FrameNumbers, MapPage DEF Maps
    <3>2. ToSet(t.free) = {} /\ t.free \in Seq(Frames)
      BY <2>2, <3>1 DEF Grown, Sane, Rams
    <3>3. t.free = <<>>
      BY <3>2, NoElements
    <3> QED BY <1>3, <2>4, <3>1, <3>3 DEF Sane
  <2> QED BY <2>3, <2>4
<1> QED BY <1>2, <1>3

\* Without a root the kernel is dead at the first access.
LEMMA NoRoot ==
  ASSUME NEW x \in Rams, x.free = <<>>, NEW v, NEW pa, NEW attr,
         NEW y, y = mapPage(x, SYSERR, v, pa, attr)
  PROVE  y \in Rams /\ y.free = <<>> /\ y.mem = x.mem /\ y.wild
<1>1. x.wild \in BOOLEAN /\ x = [free |-> x.free, mem |-> x.mem, wild |-> x.wild]
  BY DEF Rams
<1>2. CASE x.wild
  BY <1>2 DEF mapPage
<1>3. CASE ~ x.wild
  <2> DEFINE z == [x EXCEPT !.wild = TRUE]
  <2>1. z \in Rams /\ z.free = <<>> /\ z.mem = x.mem /\ z.wild
    BY DEF Rams
  <2> HIDE DEF z
  <2>2. NextTable(x, SYSERR, PX(2, v)) = [ram |-> z, at |-> SYSERR]
    BY FrameNumbers DEF NextTable, z
  <2>3. NextTable(z, SYSERR, PX(1, v)) = [ram |-> [z EXCEPT !.wild = TRUE], at |-> SYSERR]
    BY FrameNumbers DEF NextTable
  <2>4. [z EXCEPT !.wild = TRUE] = z
    BY <2>1 DEF Rams
  <2>5. y = [z EXCEPT !.wild = TRUE]
    <3> DEFINE l1 == NextTable(x, SYSERR, PX(2, v))
               l0 == NextTable(l1.ram, l1.at, PX(1, v))
    <3>1. y = IF l0.at \notin Frames THEN [l0.ram EXCEPT !.wild = TRUE]
              ELSE [l0.ram EXCEPT !.mem[l0.at] = Entered(@, PX(0, v), Pte(pa, attr))]
      BY <1>3 DEF mapPage
    <3>2. l1.ram = z /\ l1.at = SYSERR
      BY <2>2
    <3> HIDE DEF l1
    <3>4. l0 = NextTable(z, SYSERR, PX(1, v))
      BY <3>2
    <3> HIDE DEF l0
    <3>5. l0 = [ram |-> z, at |-> SYSERR]
      BY <2>3, <2>4, <3>4
    <3>3. l0.ram = z /\ l0.at = SYSERR
      BY <3>5
    <3> QED BY <3>1, <3>3, FrameNumbers
  <2> QED BY <2>1, <2>4, <2>5
<1> QED BY <1>2, <1>3

LEMMA NoRootParts ==
  ASSUME NEW r \in Rams, r.free = <<>>
  PROVE  /\ Identity(r, SYSERR, UserRanges) \in Rams
         /\ Identity(r, SYSERR, UserRanges).free = <<>>
         /\ Identity(r, SYSERR, UserRanges).mem = r.mem
<1> DEFINE T == {x \in Rams : x.free = <<>> /\ x.mem = r.mem}
<1>1. r \in T
  OBVIOUS
<1>2. ASSUME NEW x \in T, NEW v, NEW pa, NEW attr PROVE mapPage(x, SYSERR, v, pa, attr) \in T
  BY NoRoot
<1> HIDE DEF T
<1>3. Len(UserRanges) \in Nat /\ \A k \in 1 .. Len(UserRanges) : Part(UserRanges[k], ProcessPtes)
  BY UserParts DEF Parts
<1>4. ASSUME NEW k \in 1 .. Len(UserRanges), NEW x \in T
      PROVE  mapAddressRange(x, SYSERR, UserRanges[k][1], UserRanges[k][1], UserRanges[k][2],
                             UserRanges[k][3]) \in T
  <2> DEFINE p == UserRanges[k]
  <2>1. p[1] \in Nat /\ p[1] \in Int /\ p[2] \in Nat
    BY <1>3 DEF Part
  <2> HIDE DEF p
  <2>2. mapAddressRange(x, SYSERR, p[1], p[1], p[2], p[3]) \in T
    BY <1>2, <2>1, RangeClosed
  <2> QED BY <2>2 DEF p
<1>5. Identity(r, SYSERR, UserRanges) \in T
  BY <1>1, <1>3, <1>4, PartsClosed
<1> QED BY <1>5 DEF T

LEMMA MapAny ==
  ASSUME NEW x \in Rams, NEW root, Sane(x, root), NEW v \in Nat, NEW pa \in Int,
         NEW attr \in SUBSET Attrs, NEW y, y = mapPage(x, root, v, pa, attr)
  PROVE  Maps(x, y, root, v, Pte(pa, attr)) /\ (x.wild => y = x)
<1>1. CASE x.wild
  <2>1. y = x
    BY <1>1 DEF mapPage
  <2> QED BY <1>1, <2>1, GrownSame DEF Maps
<1>2. CASE ~ x.wild
  BY <1>2, MapPage
<1> QED BY <1>1, <1>2

\* The address space of a new process, out of the free pages.
NewSpace(r, s, root, stack, hp, sw) ==
    LET e(pa) == Pte(pa, RW \cup U) IN
    /\ Sane(s, root) /\ ToSet(s.free) \subseteq ToSet(r.free)
    /\ {hp, sw} \cup Tables(s.mem, root) \subseteq ToSet(r.free) \ ToSet(s.free)
    /\ hp # sw /\ {hp, sw} \cap Tables(s.mem, root) = {} /\ {hp, sw} \subseteq Frames
    /\ Entries(s.mem, root) \subseteq ProcessPtes \cup {e(stack), e(hp), e(sw)}
    /\ Mapped(s.mem, root, PROCSTACKVADDR) /\ Walk(s.mem, root, PROCSTACKVADDR) = e(stack)
    /\ Mapped(s.mem, root, PROCHEAPVADDR) /\ Walk(s.mem, root, PROCHEAPVADDR) = e(hp)
    /\ Mapped(s.mem, root, SWAPAREAVADDR) /\ Walk(s.mem, root, SWAPAREAVADDR) = e(sw)

LEMMA VAddrs ==
  /\ PROCSTACKVADDR \in Nat /\ PROCHEAPVADDR \in Nat /\ SWAPAREAVADDR \in Nat
  /\ PROCSTACKVADDR # PROCHEAPVADDR /\ PROCSTACKVADDR # SWAPAREAVADDR
  /\ PROCHEAPVADDR # SWAPAREAVADDR
  /\ UART_BASE \notin Frames
BY LayoutAssumption DEF Frames

LEMMA UserInit ==
  ASSUME NEW r \in Rams, ~ r.wild, IsInjective(r.free), NEW stack \in Frames,
         NEW u, u = vm_userinit(r, stack)
  PROVE  /\ u.ram \in Rams /\ \A f \in Frames \ ToSet(r.free) : u.ram.mem[f] = r.mem[f]
         /\ ~ u.ram.wild => \E hp : NewSpace(r, u.ram, u.pagetable, stack, hp, u.swaparea)
<1> DEFINE root == pgtop(r)
           a  == pgalloc(r)
           s1 == Identity(a, root, UserRanges)
           s2 == mapPage(s1, root, PROCSTACKVADDR, stack, RW \cup U)
           s3 == mapPage(pgalloc(s2), root, PROCHEAPVADDR, pgtop(s2), RW \cup U)
           s4 == mapPage(pgalloc(s3), root, SWAPAREAVADDR, pgtop(s3), RW \cup U)
           s  == IF pgtop(s3) = SYSERR THEN [s3 EXCEPT !.wild = TRUE] ELSE s4
<1>1. u.ram = s /\ u.pagetable = root /\ u.swaparea = pgtop(s3)
  BY DEF vm_userinit
<1>2. CASE r.free = <<>>
  <2>1. a = r /\ root = SYSERR
    BY <1>2, AllocFacts
  <2>2. s1 \in Rams /\ s1.free = <<>> /\ s1.mem = r.mem
    BY <1>2, <2>1, NoRootParts
  <2> HIDE DEF s1, root
  <2>3. s2 \in Rams /\ s2.free = <<>> /\ s2.mem = r.mem
    BY <2>1, <2>2, NoRoot
  <2> HIDE DEF s2
  <2>4. pgalloc(s2) = s2
    BY <2>3, AllocFacts
  <2>5. s3 \in Rams /\ s3.free = <<>> /\ s3.mem = r.mem
    BY <2>1, <2>3, <2>4, NoRoot
  <2> HIDE DEF s3
  <2>6. pgtop(s3) = SYSERR
    BY <2>5, AllocFacts
  <2>7. s \in Rams /\ s.mem = r.mem /\ s.wild
    BY <2>5, <2>6 DEF Rams
  <2> HIDE DEF s
  <2> QED BY <1>1, <2>7
<1>3. CASE r.free # <<>>
  <2>1. /\ a \in Rams /\ ~ a.wild /\ Sane(a, root)
        /\ Tables(a.mem, root) = {root} /\ Entries(a.mem, root) = {}
        /\ root \in Frames /\ root \in ToSet(r.free)
        /\ ToSet(a.free) = ToSet(r.free) \ {root}
        /\ \A f \in Frames \ {root} : a.mem[f] = r.mem[f]
    BY <1>3, FreshRoot
  <2> HIDE DEF a, root
  <2> DEFINE e(pa) == Pte(pa, RW \cup U)
             P == ProcessPtes
  <2>2. s1 \in Rams /\ Sane(s1, root) /\ Grown(a, s1, root, Nat, P)
    BY <2>1, UserParts, MapParts DEF Reach
  <2>3. RW \cup U \in SUBSET Attrs /\ stack \in Int
    BY FrameNumbers DEF RW, U, Attrs
  <2> HIDE DEF s1, P
  <2>4. Maps(s1, s2, root, PROCSTACKVADDR, e(stack)) /\ (s1.wild => s2 = s1)
    <3> DEFINE attr == RW \cup U
    <3>1. attr \in SUBSET Attrs /\ s2 = mapPage(s1, root, PROCSTACKVADDR, stack, attr)
      BY <2>3
    <3> HIDE DEF s2, attr
    <3>2. Maps(s1, s2, root, PROCSTACKVADDR, Pte(stack, attr)) /\ (s1.wild => s2 = s1)
      BY <2>2, <2>3, <3>1, VAddrs, MapAny
    <3> QED BY <3>2 DEF attr
  <2>5. s2 \in Rams /\ Sane(s2, root) /\ Grown(s1, s2, root, {PROCSTACKVADDR}, {e(stack)})
    <3> HIDE DEF s2, e
    <3> QED BY <2>4 DEF Maps, Sane
  <2> HIDE DEF s2
  <2>6. /\ s3 \in Rams /\ Sane(s3, root) /\ Grown(s2, s3, root, {PROCHEAPVADDR}, {e(pgtop(s2))})
        /\ s2.free = <<>> => s3.free = <<>>
        /\ s2.wild => s3 = s2
        /\ s2.free # <<>> => /\ pgtop(s2) \in Frames /\ pgtop(s2) \in ToSet(s2.free)
                             /\ pgtop(s2) \notin ToSet(s3.free)
                             /\ ~ s3.wild => /\ pgtop(s2) \notin Tables(s3.mem, root)
                                             /\ Mapped(s3.mem, root, PROCHEAPVADDR)
                                             /\ Walk(s3.mem, root, PROCHEAPVADDR) = e(pgtop(s2))
    <3>1. News(s2, s3, root, PROCHEAPVADDR)
      BY <2>5, VAddrs, MapNew
    <3> HIDE DEF s3
    <3> QED BY <3>1 DEF News
  <2> HIDE DEF s3
  <2>7. /\ s4 \in Rams /\ Sane(s4, root) /\ Grown(s3, s4, root, {SWAPAREAVADDR}, {e(pgtop(s3))})
        /\ s3.free = <<>> => s4.free = <<>>
        /\ s3.wild => s4 = s3
        /\ s3.free # <<>> => /\ pgtop(s3) \in Frames /\ pgtop(s3) \in ToSet(s3.free)
                             /\ pgtop(s3) \notin ToSet(s4.free)
                             /\ ~ s4.wild => /\ pgtop(s3) \notin Tables(s4.mem, root)
                                             /\ Mapped(s4.mem, root, SWAPAREAVADDR)
                                             /\ Walk(s4.mem, root, SWAPAREAVADDR) = e(pgtop(s3))
    <3>1. News(s3, s4, root, SWAPAREAVADDR)
      BY <2>6, VAddrs, MapNew
    <3> HIDE DEF s4
    <3> QED BY <3>1 DEF News
  <2> HIDE DEF s4, e
  <2>8. Grown(a, s2, root, Nat \cup {PROCSTACKVADDR}, P \cup {e(stack)})
    BY <2>2, <2>4, <2>5, GrownTwice
  <2>9. Grown(a, s3, root, (Nat \cup {PROCSTACKVADDR}) \cup {PROCHEAPVADDR},
              (P \cup {e(stack)}) \cup {e(pgtop(s2))})
    BY <2>6, <2>8, GrownTwice
  <2>10. Grown(a, s4, root, ((Nat \cup {PROCSTACKVADDR}) \cup {PROCHEAPVADDR}) \cup {SWAPAREAVADDR},
               ((P \cup {e(stack)}) \cup {e(pgtop(s2))}) \cup {e(pgtop(s3))})
    BY <2>7, <2>9, GrownTwice
  <2>11. \A f \in Frames \ ToSet(r.free) : s3.mem[f] = r.mem[f] /\ s4.mem[f] = r.mem[f]
    BY <2>1, <2>9, <2>10 DEF Grown, Outside
  <2>12. CASE s3.free = <<>>
    <3>1. s = [s3 EXCEPT !.wild = TRUE]
      BY <2>6, <2>12, AllocFacts
    <3>2. s \in Rams /\ s.mem = s3.mem /\ s.wild
      BY <2>6, <3>1 DEF Rams
    <3> HIDE DEF s
    <3> QED BY <1>1, <2>11, <3>2
  <2>13. CASE s3.free # <<>>
    <3>1. s = s4 /\ pgtop(s3) \in Frames
      BY <2>7, <2>13, FrameNumbers
    <3> HIDE DEF s
    <3>2. ASSUME ~ s4.wild
          PROVE  NewSpace(r, s4, root, stack, pgtop(s2), pgtop(s3))
      <4>1. ~ s3.wild /\ s2.free # <<>> /\ ~ s2.wild
        BY <2>5, <2>6, <2>13 DEF Sane
      <4> DEFINE hp == pgtop(s2)
                 sw == pgtop(s3)
      <4>2. /\ hp \in Frames /\ hp \in ToSet(s2.free) /\ hp \notin ToSet(s3.free)
            /\ hp \notin Tables(s3.mem, root) /\ Mapped(s3.mem, root, PROCHEAPVADDR)
            /\ Walk(s3.mem, root, PROCHEAPVADDR) = e(hp)
        BY <2>6, <4>1
      <4>3. /\ sw \in Frames /\ sw \in ToSet(s3.free) /\ sw \notin ToSet(s4.free)
            /\ sw \notin Tables(s4.mem, root) /\ Mapped(s4.mem, root, SWAPAREAVADDR)
            /\ Walk(s4.mem, root, SWAPAREAVADDR) = e(sw)
        BY <2>7, <2>13, <3>2
      <4>4. Mapped(s2.mem, root, PROCSTACKVADDR) /\ Walk(s2.mem, root, PROCSTACKVADDR) = e(stack)
        BY <2>4, <4>1 DEF Maps
      <4> HIDE DEF hp, sw
      <4>5. /\ Keeps(s2.mem, s3.mem, root, {PROCHEAPVADDR})
            /\ Keeps(s3.mem, s4.mem, root, {SWAPAREAVADDR})
        BY <2>6, <2>7 DEF Grown
      <4>6. Mapped(s4.mem, root, PROCSTACKVADDR) /\ Walk(s4.mem, root, PROCSTACKVADDR) = e(stack)
        BY <4>4, <4>5, VAddrs DEF Keeps
      <4>7. Mapped(s4.mem, root, PROCHEAPVADDR) /\ Walk(s4.mem, root, PROCHEAPVADDR) = e(hp)
        BY <4>2, <4>5, VAddrs DEF Keeps
      <4>8. Entries(s4.mem, root) \subseteq P \cup {e(stack), e(hp), e(sw)}
        BY <2>1, <2>10, <3>2 DEF Grown, hp, sw
      <4>9. /\ ToSet(s4.free) \subseteq ToSet(s3.free) /\ ToSet(s3.free) \subseteq ToSet(s2.free)
            /\ ToSet(s2.free) \subseteq ToSet(a.free)
            /\ Tables(s4.mem, root) \subseteq Tables(s3.mem, root) \cup (ToSet(s3.free) \ ToSet(s4.free))
            /\ Tables(s4.mem, root) \subseteq Tables(a.mem, root) \cup (ToSet(a.free) \ ToSet(s4.free))
        BY <2>6, <2>7, <2>8, <2>10, <3>2 DEF Grown
      <4>10. hp # sw /\ {hp, sw} \cap Tables(s4.mem, root) = {}
        BY <4>2, <4>3, <4>9
      <4>11. ToSet(s4.free) \subseteq ToSet(r.free)
             /\ {hp, sw} \cup Tables(s4.mem, root) \subseteq ToSet(r.free) \ ToSet(s4.free)
        BY <2>1, <4>2, <4>3, <4>9
      <4> QED BY <2>7, <4>2, <4>3, <4>6, <4>7, <4>8, <4>10, <4>11 DEF NewSpace, e, P, hp, sw
    <3> QED BY <1>1, <2>7, <2>11, <3>1, <3>2
  <2> QED BY <2>12, <2>13
<1> QED BY <1>2, <1>3

-----------------------------------------------------------------------------
(* The address space of a process.                                         *)

\* What the process can write, and all the pages it has.
Writ(m, root)  == {e.pa : e \in {x \in Entries(m, root) : {"W", "U"} \subseteq x.attr}}
Pages(m, root) == Tables(m, root) \cup (Writ(m, root) \ {UART_BASE})
Vs(b)          == (PROCHEAPVADDR .. b - 1) \cup {PROCSTACKVADDR, SWAPAREAVADDR}

\* Up to bound b the pages of the space are there, and none of them is a table.
Space(m, root, stk, swp, b) ==
    /\ Tree(m, root)
    /\ Tables(m, root) \cap Writ(m, root) = {} /\ Writ(m, root) \subseteq Frames \cup {UART_BASE}
    /\ \A v \in Vs(b) : /\ Mapped(m, root, v) /\ Walk(m, root, v).attr = RW \cup U
                        /\ Walk(m, root, v).pa \in Frames
    /\ \A v, w \in Vs(b) : Walk(m, root, v).pa = Walk(m, root, w).pa => v = w
    /\ Walk(m, root, SWAPAREAVADDR).pa = swp /\ Walk(m, root, PROCSTACKVADDR).pa = stk

LEMMA VsFacts ==
  ASSUME NEW b \in Nat
  PROVE  /\ PROCSTACKVADDR \in Vs(b) /\ SWAPAREAVADDR \in Vs(b)
         /\ Vs(b) \subseteq Nat
         /\ \A c \in Nat : c <= b => Vs(c) \subseteq Vs(b)
         /\ b >= PROCHEAPVADDR => Vs(b + 1) = Vs(b) \cup {b}
         /\ b < PROCSTACKVADDR => b \notin Vs(b)
         /\ \A v \in Vs(b) : b <= PROCSTACKVADDR => v \notin b .. PROCSTACKVADDR - 1
BY LayoutAssumption DEF Vs

LEMMA SpaceLess ==
  ASSUME NEW b \in Nat, NEW c \in Nat, c <= b, NEW m, NEW root, NEW stk, NEW swp,
         Space(m, root, stk, swp, b)
  PROVE  Space(m, root, stk, swp, c)
<1>1. Vs(c) \subseteq Vs(b)
  BY VsFacts
<1> QED BY <1>1 DEF Space

\* A space depends on its own tables only.
LEMMA SpaceStays ==
  ASSUME NEW m, NEW m2, NEW root, Tree(m, root), \A t \in Tables(m, root) : m2[t] = m[t]
  PROVE  /\ Tables(m2, root) = Tables(m, root) /\ Entries(m2, root) = Entries(m, root)
         /\ Level1(m2, root) = Level1(m, root) /\ Level0(m2, root) = Level0(m, root)
         /\ Tree(m2, root) /\ Writ(m2, root) = Writ(m, root) /\ Pages(m2, root) = Pages(m, root)
         /\ \A v : Mapped(m, root, v) => Mapped(m2, root, v) /\ Walk(m2, root, v) = Walk(m, root, v)
<1>1. m2[root] = m[root] /\ \A t \in Level1(m, root) \cup Level0(m, root) : m2[t] = m[t]
  BY DEF Tables
<1>2. Level1(m2, root) = Level1(m, root)
  BY <1>1 DEF Level1, Below
<1>3. Level0(m2, root) = Level0(m, root)
  <2>1. \A t \in Level1(m, root) : Below(m2, t) = Below(m, t)
    BY <1>1 DEF Below
  <2> QED BY <1>2, <2>1 DEF Level0
<1>4. Entries(m2, root) = Entries(m, root)
  <2>1. \A t \in Level0(m, root) : Leaves(m2, t) = Leaves(m, t)
    BY <1>1 DEF Leaves
  <2> QED BY <1>3, <2>1 DEF Entries
<1>5. Tree(m2, root)
  BY <1>1, <1>2, <1>3 DEF Tree
<1>6. Writ(m2, root) = Writ(m, root)
  BY <1>4 DEF Writ
<1>7. Adds(m, m2, root)
  BY DEF Adds
<1>8. ASSUME NEW v, Mapped(m, root, v)
      PROVE  Mapped(m2, root, v) /\ Walk(m2, root, v) = Walk(m, root, v)
  BY <1>7, <1>8, WalkStays DEF Adds
<1> QED BY <1>2, <1>3, <1>4, <1>5, <1>6, <1>8 DEF Tables, Pages

LEMMA SpaceStaysToo ==
  ASSUME NEW m, NEW m2, NEW root, NEW stk, NEW swp, NEW b \in Nat, Space(m, root, stk, swp, b),
         \A t \in Tables(m, root) : m2[t] = m[t]
  PROVE  Space(m2, root, stk, swp, b)
<1>1. Tree(m, root)
  BY DEF Space
<1>2. /\ Tables(m2, root) = Tables(m, root) /\ Tree(m2, root) /\ Writ(m2, root) = Writ(m, root)
      /\ \A v : Mapped(m, root, v) => Mapped(m2, root, v) /\ Walk(m2, root, v) = Walk(m, root, v)
  BY <1>1, SpaceStays
<1>3. \A v \in Vs(b) : Mapped(m2, root, v) /\ Walk(m2, root, v) = Walk(m, root, v)
  BY <1>2 DEF Space
<1> QED BY <1>2, <1>3, VsFacts DEF Space

\* What is mapped for the process to write is a page of its.
LEMMA WalkWrit ==
  ASSUME NEW m, NEW root, NEW v, Mapped(m, root, v), Walk(m, root, v).attr = RW \cup U
  PROVE  Walk(m, root, v).pa \in Writ(m, root)
<1>1. {"W", "U"} \subseteq RW \cup U
  BY DEF RW, U
<1>2. Walk(m, root, v) \in Entries(m, root)
  BY OnTheWay
<1> QED BY <1>1, <1>2 DEF Writ

\* A process has one page more.
LEMMA SpaceGrows ==
  ASSUME NEW s \in Rams, NEW root, NEW stk, NEW swp, NEW c \in Nat,
         PROCHEAPVADDR <= c, c < PROCSTACKVADDR, ~ s.wild, s.free # <<>>,
         Space(s.mem, root, stk, swp, c), Pages(s.mem, root) \cap ToSet(s.free) = {},
         NEW t, News(s, t, root, c), ~ t.wild
  PROVE  /\ Space(t.mem, root, stk, swp, c + 1)
         /\ Pages(t.mem, root) \subseteq Pages(s.mem, root) \cup (ToSet(s.free) \ ToSet(t.free))
<1> DEFINE g == pgtop(s)
           e == Pte(g, RW \cup U)
<1>1. /\ g \in Frames /\ g \in ToSet(s.free) /\ g \notin ToSet(t.free)
      /\ g \notin Tables(t.mem, root) /\ Mapped(t.mem, root, c) /\ Walk(t.mem, root, c) = e
      /\ Sane(t, root) /\ Grown(s, t, root, {c}, {e})
  BY DEF News
<1> HIDE DEF g
<1>2. e.pa = g /\ e.attr = RW \cup U
  BY DEF Pte
<1> HIDE DEF e
<1>3. /\ Keeps(s.mem, t.mem, root, {c})
      /\ Tables(t.mem, root) \subseteq Tables(s.mem, root) \cup (ToSet(s.free) \ ToSet(t.free))
      /\ Entries(t.mem, root) \subseteq Entries(s.mem, root) \cup {e}
  BY <1>1 DEF Grown
<1>4. Writ(t.mem, root) \subseteq Writ(s.mem, root) \cup {g}
  BY <1>2, <1>3 DEF Writ
<1>5. /\ Pages(t.mem, root) \subseteq Pages(s.mem, root) \cup (ToSet(s.free) \ ToSet(t.free))
  BY <1>1, <1>3, <1>4 DEF Pages
<1>6. UART_BASE \notin ToSet(s.free)
  <2>1. ToSet(s.free) \subseteq Frames
    <3>1. s.free \in Seq(Frames)
      BY DEF Rams
    <3> QED BY <3>1 DEF ToSet
  <2> QED BY <2>1, VAddrs
<1>7. Tables(s.mem, root) \cap Writ(s.mem, root) = {} /\ Writ(s.mem, root) \cap ToSet(s.free) = {}
      /\ Writ(s.mem, root) \subseteq Frames \cup {UART_BASE}
  BY <1>6 DEF Space, Pages
<1>8. Tables(t.mem, root) \cap Writ(t.mem, root) = {}
  BY <1>1, <1>3, <1>4, <1>7
<1>9. Writ(t.mem, root) \subseteq Frames \cup {UART_BASE}
  BY <1>1, <1>4, <1>7
<1>10. Vs(c + 1) = Vs(c) \cup {c} /\ c \notin Vs(c) /\ Vs(c) \subseteq Nat
       /\ PROCSTACKVADDR \in Vs(c) /\ SWAPAREAVADDR \in Vs(c)
  BY VsFacts
<1>11. \A v \in Vs(c) : /\ Mapped(s.mem, root, v) /\ Walk(s.mem, root, v).attr = RW \cup U
                         /\ Walk(s.mem, root, v).pa \in Frames
  BY DEF Space
<1>12. \A v \in Vs(c) : Mapped(t.mem, root, v) /\ Walk(t.mem, root, v) = Walk(s.mem, root, v)
  BY <1>3, <1>10, <1>11 DEF Keeps
<1>13. \A v \in Vs(c) : Walk(t.mem, root, v).pa # g
  <2>1. \A v \in Vs(c) : Walk(s.mem, root, v).pa \in Writ(s.mem, root)
    BY <1>11, WalkWrit
  <2> QED BY <1>1, <1>7, <1>12, <2>1
<1>14. \A v, w \in Vs(c + 1) : Walk(t.mem, root, v).pa = Walk(t.mem, root, w).pa => v = w
  BY <1>1, <1>2, <1>10, <1>12, <1>13 DEF Space
<1>15. \A v \in Vs(c + 1) : /\ Mapped(t.mem, root, v) /\ Walk(t.mem, root, v).attr = RW \cup U
                             /\ Walk(t.mem, root, v).pa \in Frames
  BY <1>1, <1>2, <1>10, <1>11, <1>12
<1>16. Walk(t.mem, root, SWAPAREAVADDR).pa = swp /\ Walk(t.mem, root, PROCSTACKVADDR).pa = stk
  BY <1>10, <1>12 DEF Space
<1>17. Tree(t.mem, root)
  BY <1>1 DEF Sane
<1> QED BY <1>5, <1>8, <1>9, <1>14, <1>15, <1>16, <1>17 DEF Space

Grows == [ram : Rams, ok : BOOLEAN]

\* What the loop of incheap() has made of memory r after k pages.
Growing(r, g, root, stk, swp, b, k) ==
    /\ g \in Grows /\ Sane(g.ram, root)
    /\ Grown(r, g.ram, root, b .. PROCSTACKVADDR - 1, {Pte(f, RW \cup U) : f \in Frames})
    /\ ~ g.ram.wild =>
           /\ Pages(g.ram.mem, root) \subseteq Pages(r.mem, root) \cup (ToSet(r.free) \ ToSet(g.ram.free))
           /\ Pages(g.ram.mem, root) \cap ToSet(g.ram.free) = {}
           /\ Space(g.ram.mem, root, stk, swp, IF g.ok THEN b + k ELSE b)

LEMMA GrowPageFacts ==
  ASSUME NEW p, NEW g \in Grows, NEW v
  PROVE  LET h == GrowPage(p, g, v) IN
         /\ ~ g.ok \/ g.ram.free = <<>> => h.ram = g.ram /\ ~ h.ok
         /\ g.ok /\ g.ram.free # <<>> =>
                h.ram = mapPage(pgalloc(g.ram), proc[p].pagetable, v, pgtop(g.ram), RW \cup U) /\ h.ok
<1> DEFINE h == GrowPage(p, g, v)
<1>1. g.ram \in Rams /\ g.ok \in BOOLEAN
  BY DEF Grows
<1>2. pgtop(g.ram) = SYSERR <=> g.ram.free = <<>>
  BY <1>1, AllocFacts, FrameNumbers
<1>3. CASE ~ g.ok \/ g.ram.free = <<>>
  <2>1. h = [g EXCEPT !.ok = FALSE]
    BY <1>2, <1>3 DEF GrowPage
  <2> QED BY <1>3, <2>1 DEF Grows
<1>4. CASE g.ok /\ g.ram.free # <<>>
  <2> DEFINE t == mapPage(pgalloc(g.ram), proc[p].pagetable, v, pgtop(g.ram), RW \cup U)
  <2>1. h = [g EXCEPT !.ram = t]
    BY <1>2, <1>4 DEF GrowPage
  <2> HIDE DEF t
  <2>2. h.ram = t /\ h.ok = g.ok
    BY <2>1 DEF Grows
  <2> QED BY <1>4, <2>2 DEF t
<1> QED BY <1>3, <1>4

\* GrowPage() is a function on Grows, for a space that is a tree.
LEMMA GrowPageType ==
  ASSUME NEW p, NEW g \in Grows, NEW v \in Nat, Sane(g.ram, proc[p].pagetable)
  PROVE  GrowPage(p, g, v) \in Grows /\ Sane(GrowPage(p, g, v).ram, proc[p].pagetable)
<1> DEFINE h == GrowPage(p, g, v)
           root == proc[p].pagetable
<1>1. g.ram \in Rams /\ g.ok \in BOOLEAN /\ g = [ram |-> g.ram, ok |-> g.ok]
  BY DEF Grows
<1>2. h = [g EXCEPT !.ok = FALSE]
      \/ h = [g EXCEPT !.ram = mapPage(pgalloc(g.ram), root, v, pgtop(g.ram), RW \cup U)]
  BY DEF GrowPage
<1>3. CASE h = [g EXCEPT !.ok = FALSE]
  <2>1. h = [ram |-> g.ram, ok |-> FALSE]
    BY <1>1, <1>3
  <2> HIDE DEF h, root
  <2>2. h \in Grows /\ h.ram = g.ram
    BY <1>1, <2>1 DEF Grows
  <2>3. h \in Grows /\ Sane(h.ram, root)
    BY <2>2 DEF root
  <2> QED BY <2>3 DEF h, root
<1>4. CASE h = [g EXCEPT !.ram = mapPage(pgalloc(g.ram), root, v, pgtop(g.ram), RW \cup U)]
  <2> DEFINE t == mapPage(pgalloc(g.ram), root, v, pgtop(g.ram), RW \cup U)
  <2>1. News(g.ram, t, root, v)
    BY <1>1, MapNew
  <2>2. t \in Rams /\ Sane(t, root)
    <3> HIDE DEF t, root
    <3> QED BY <2>1 DEF News
  <2>4. h = [ram |-> t, ok |-> g.ok]
    BY <1>1, <1>4
  <2> HIDE DEF t, h, root
  <2>5. h \in Grows /\ h.ram = t
    BY <1>1, <2>2, <2>4 DEF Grows
  <2>6. h \in Grows /\ Sane(h.ram, root)
    BY <2>2, <2>5
  <2> QED BY <2>6 DEF h, root
<1> QED BY <1>2, <1>3, <1>4

\* One page more, or none.
LEMMA GrowStep ==
  ASSUME NEW r \in Rams, NEW p, NEW root, root = proc[p].pagetable, NEW stk, NEW swp,
         NEW b \in Nat, NEW k \in Nat, PROCHEAPVADDR <= b, b + k < PROCSTACKVADDR,
         NEW g, Growing(r, g, root, stk, swp, b, k), NEW h, h = GrowPage(p, g, b + k)
  PROVE  Growing(r, h, root, stk, swp, b, k + 1)
<1> DEFINE c == b + k
           V == b .. PROCSTACKVADDR - 1
           E == {Pte(f, RW \cup U) : f \in Frames}
<1>1. /\ g \in Grows /\ g.ram \in Rams /\ g.ok \in BOOLEAN /\ Sane(g.ram, root)
      /\ c \in Nat /\ c < PROCSTACKVADDR /\ PROCHEAPVADDR <= c /\ c \in V
      /\ Grown(r, g.ram, root, V, E)
  BY LayoutAssumption DEF Growing, Grows
<1>2. h \in Grows /\ Sane(h.ram, root)
  BY <1>1, GrowPageType
<1>3. CASE ~ g.ok \/ g.ram.free = <<>>
  <2>1. h.ram = g.ram /\ ~ h.ok
    BY <1>1, <1>3, GrowPageFacts
  <2>2. ASSUME ~ g.ram.wild PROVE Space(g.ram.mem, root, stk, swp, b)
    <3>1. Space(g.ram.mem, root, stk, swp, IF g.ok THEN b + k ELSE b)
      BY <2>2 DEF Growing
    <3> DEFINE d == IF g.ok THEN b + k ELSE b
    <3>2. d \in Nat /\ b <= d
      OBVIOUS
    <3> HIDE DEF d
    <3>3. Space(g.ram.mem, root, stk, swp, d)
      BY <3>1 DEF d
    <3> QED BY <3>2, <3>3, SpaceLess
  <2> QED BY <1>2, <2>1, <2>2 DEF Growing
<1>4. CASE g.ok /\ g.ram.free # <<>>
  <2> DEFINE s == g.ram
             t == h.ram
             e == Pte(pgtop(s), RW \cup U)
  <2>1. h.ok /\ t = mapPage(pgalloc(s), root, c, pgtop(s), RW \cup U)
    <3>1. /\ GrowPage(p, g, c).ok
          /\ GrowPage(p, g, c).ram = mapPage(pgalloc(g.ram), proc[p].pagetable, c, pgtop(g.ram), RW \cup U)
      <4> HIDE DEF c
      <4> QED BY <1>1, <1>4, GrowPageFacts
    <3> QED BY <3>1
  <2>2. News(s, t, root, c)
    BY <1>1, <2>1, MapNew
  <2>3. ~ s.wild
    BY <1>1, <1>4 DEF Sane
  <2>4. Grown(s, t, root, {c}, {e}) /\ pgtop(s) \in Frames
    BY <1>4, <2>2 DEF News
  <2>5. e \in E
    BY <2>4
  <2> HIDE DEF e, E, V, c
  <2>6. Grown(s, t, root, V, E)
    <3>1. {c} \subseteq V /\ {e} \subseteq E
      BY <1>1, <2>5
    <3> QED BY <2>4, <3>1, GrownMore
  <2>7. Grown(r, t, root, V, E)
    <3>1. Grown(r, t, root, V \cup V, E \cup E)
      BY <1>1, <2>3, <2>6, GrownTwice
    <3>2. V \cup V = V /\ E \cup E = E
      OBVIOUS
    <3> QED BY <3>1, <3>2
  <2>8. /\ Pages(s.mem, root) \subseteq Pages(r.mem, root) \cup (ToSet(r.free) \ ToSet(s.free))
        /\ Pages(s.mem, root) \cap ToSet(s.free) = {}
        /\ Space(s.mem, root, stk, swp, c)
    BY <1>4, <2>3 DEF Growing, c
  <2>9. ToSet(t.free) \subseteq ToSet(s.free) /\ ToSet(s.free) \subseteq ToSet(r.free)
    BY <1>1, <2>4 DEF Grown
  <2>10. ASSUME ~ t.wild
         PROVE  /\ Pages(t.mem, root) \subseteq Pages(r.mem, root) \cup (ToSet(r.free) \ ToSet(t.free))
                /\ Pages(t.mem, root) \cap ToSet(t.free) = {}
                /\ Space(t.mem, root, stk, swp, c + 1)
    <3>1. /\ Space(t.mem, root, stk, swp, c + 1)
          /\ Pages(t.mem, root) \subseteq Pages(s.mem, root) \cup (ToSet(s.free) \ ToSet(t.free))
      <4> HIDE DEF s, t
      <4> QED BY <1>1, <1>4, <2>2, <2>3, <2>8, <2>10, SpaceGrows DEF s
    <3> QED BY <2>8, <2>9, <3>1
  <2>11. c + 1 = b + (k + 1)
    BY DEF c
  <2> QED BY <1>2, <2>1, <2>7, <2>10, <2>11 DEF Growing, V, E
<1> QED BY <1>1, <1>3, <1>4

LEMMA PageBefore ==
  ASSUME NEW b \in Nat, NEW n \in Nat, NEW k \in Nat, NEW top \in Nat, b + n <= top, k + 1 <= n
  PROVE  /\ k <= n /\ k + 1 \in 0 .. n /\ (k + 1) - 1 = k /\ k + 1 # 0
         /\ b + k < top /\ b + (k + 1) - 1 = b + k
OBVIOUS

\* The loop of incheap(), for any number of pages.
LEMMA GrowRuns ==
  ASSUME NEW p, NEW root, root = proc[p].pagetable, NEW stk, NEW swp, NEW b \in Nat, b = bound[p],
         NEW pages \in Nat, PROCHEAPVADDR <= b, b + pages <= PROCSTACKVADDR,
         ram \in Rams, Sane(ram, root), Space(ram.mem, root, stk, swp, b),
         Pages(ram.mem, root) \cap ToSet(ram.free) = {}
  PROVE  Growing(ram, Grow(p, pages), root, stk, swp, b, pages)
<1> DEFINE T == {g \in Grows : Sane(g.ram, root)}
           n == pages
           g0 == [ram |-> ram, ok |-> TRUE]
           to(x, k) == GrowPage(p, x, bound[p] + k - 1)
           grown == CHOOSE f : f = [k \in 0 .. pages |->
                       IF k = 0 THEN [ram |-> ram, ok |-> TRUE]
                       ELSE GrowPage(p, f[k - 1], bound[p] + k - 1)]
           steps == [k \in 1 .. n |-> [x \in T |-> to(x, k)]]
<1>1. Grow(p, pages) = grown[n]
  BY Zenon DEF Grow
<1>2. g0 \in T /\ g0.ram = ram /\ g0.ok
  BY DEF Grows
<1>3. ASSUME NEW k \in 1 .. n, NEW x \in T PROVE to(x, k) \in T
  <2> DEFINE v == bound[p] + k - 1
  <2>1. v \in Nat
    OBVIOUS
  <2>2. x \in Grows /\ Sane(x.ram, proc[p].pagetable)
    OBVIOUS
  <2> HIDE DEF v
  <2>3. GrowPage(p, x, v) \in Grows /\ Sane(GrowPage(p, x, v).ram, proc[p].pagetable)
    BY <2>1, <2>2, GrowPageType
  <2> QED BY <2>3 DEF v
<1> HIDE DEF T, to, g0
<1>4. steps \in [1 .. n -> [T -> T]]
  BY <1>3
<1>5. PICK f \in [0 .. n -> T] : Makes(f, steps, g0, n)
  <2> HIDE DEF steps
  <2> QED BY <1>2, <1>4, Recurrence
<1>6. f = [k \in 0 .. n |-> IF k = 0 THEN g0 ELSE to(f[k - 1], k)]
  <2> DEFINE g == [k \in 0 .. n |-> IF k = 0 THEN g0 ELSE to(f[k - 1], k)]
  <2>1. ASSUME NEW k \in 0 .. n PROVE f[k] = g[k]
    <3>1. CASE k = 0
      BY <1>5, <3>1 DEF Makes
    <3>2. CASE k # 0
      <4>1. k \in 1 .. n /\ k - 1 \in 0 .. n
        BY <3>2
      <4>2. f[k] = steps[k][f[k - 1]] /\ f[k - 1] \in T
        BY <1>5, <4>1 DEF Makes
      <4> QED BY <3>2, <4>1, <4>2
    <3> QED BY <3>1, <3>2
  <2>2. f = g
    BY <2>1
  <2> QED BY <2>2
<1>7. grown = [k \in 0 .. n |-> IF k = 0 THEN g0 ELSE to(grown[k - 1], k)]
  BY <1>6 DEF to, g0
<1> HIDE DEF grown
<1> DEFINE Ok(k) == Growing(ram, grown[k], root, stk, swp, b, k)
           S == {k \in Nat : k <= n => Ok(k)}
<1>8. 0 \in S
  <2>1. grown[0] = g0
    BY <1>7
  <2>2. Growing(ram, g0, root, stk, swp, b, 0)
    <3>1. b + 0 = b
      OBVIOUS
    <3> QED BY <1>2, <3>1, GrownSame DEF Growing, T
  <2> QED BY <2>1, <2>2
<1>9. ASSUME NEW k \in Nat, k \in S PROVE k + 1 \in S
  <2> SUFFICES ASSUME k + 1 <= n PROVE Ok(k + 1)
    OBVIOUS
  <2>1. Ok(k) /\ k + 1 \in 0 .. n /\ (k + 1) - 1 = k /\ k + 1 # 0 /\ b + k < PROCSTACKVADDR
        /\ bound[p] + (k + 1) - 1 = b + k
    <3> HIDE DEF Ok, steps
    <3>1. /\ k <= n /\ k + 1 \in 0 .. n /\ (k + 1) - 1 = k /\ k + 1 # 0
          /\ b + k < PROCSTACKVADDR /\ b + (k + 1) - 1 = b + k
      BY LayoutAssumption, PageBefore, SMTT(20)
    <3>2. Ok(k)
      BY <1>9, <3>1
    <3> HIDE DEF S
    <3> QED BY <3>1, <3>2
  <2>2. grown[k + 1] = to(grown[(k + 1) - 1], k + 1)
    BY <1>7, <2>1
  <2>3. grown[k + 1] = GrowPage(p, grown[k], b + k)
    BY <2>1, <2>2 DEF to
  <2>4. Growing(ram, grown[k], root, stk, swp, b, k)
    BY <2>1
  <2>5. Growing(ram, grown[k + 1], root, stk, swp, b, k + 1)
    BY <2>1, <2>3, <2>4, GrowStep
  <2> QED BY <2>5
<1>10. n \in S
  <2> HIDE DEF S
  <2> QED BY <1>8, <1>9, SetInduction
<1>11. Ok(n)
  BY <1>10
<1> QED BY <1>1, <1>11

\* incheap(): what was promised is there, whether the pages were found or not.
Extends(r, s, root, stk, swp, b, c) ==
    /\ s \in Rams /\ Sane(s, root)
    /\ Grown(r, s, root, b .. PROCSTACKVADDR - 1, {Pte(f, RW \cup U) : f \in Frames})
    /\ ~ s.wild =>
           /\ Pages(s.mem, root) \subseteq Pages(r.mem, root) \cup (ToSet(r.free) \ ToSet(s.free))
           /\ Pages(s.mem, root) \cap ToSet(s.free) = {}
           /\ Space(s.mem, root, stk, swp, c)

Increased(p, root, stk, swp, pages, x) ==
    /\ \/ x.bound = bound
       \/ x.bound = [bound EXCEPT ![p] = @ + pages] /\ bound[p] + pages <= PROCSTACKVADDR
    /\ Extends(ram, x.ram, root, stk, swp, bound[p], x.bound[p])
    /\ x.ok => ~ x.ram.wild

LEMMA Incheap ==
  ASSUME NEW p \in Pids, NEW root, root = proc[p].pagetable, NEW stk, NEW swp,
         bound \in [Pids -> Nat], PROCHEAPVADDR < bound[p], bound[p] <= PROCSTACKVADDR,
         NEW pages \in Nat,
         ram \in Rams, ~ ram.wild, Sane(ram, root), Space(ram.mem, root, stk, swp, bound[p]),
         Pages(ram.mem, root) \cap ToSet(ram.free) = {},
         NEW x, x = incheap(p, pages)
  PROVE  Increased(p, root, stk, swp, pages, x)
<1> USE DEF Increased
<1> DEFINE b == bound[p]
           g == Grow(p, pages)
<1>1. b \in Nat /\ PROCSTACKVADDR \in Nat /\ PROCHEAPVADDR \in Nat
  BY LayoutAssumption
<1>2. CASE bound[p] + pages > PROCSTACKVADDR
  <2>1. x.ram = ram /\ x.bound = bound /\ ~ x.ok
    BY <1>2 DEF incheap
  <2> QED BY <2>1, GrownSame DEF Extends
<1>3. CASE ~ (bound[p] + pages > PROCSTACKVADDR)
  <2>1. /\ x.ram = g.ram /\ (x.ok <=> g.ok /\ ~ g.ram.wild)
        /\ x.bound = IF g.ok /\ ~ g.ram.wild THEN [bound EXCEPT ![p] = @ + pages] ELSE bound
    BY <1>3 DEF incheap
  <2>3. b + pages <= PROCSTACKVADDR /\ PROCHEAPVADDR <= b
    BY <1>1, <1>3
  <2>2. Growing(ram, g, root, stk, swp, b, pages)
    <3>1. b = bound[p] /\ Space(ram.mem, root, stk, swp, b)
      OBVIOUS
    <3> HIDE DEF b
    <3> QED BY <1>1, <2>3, <3>1, GrowRuns
  <2> HIDE DEF g
  <2>4. /\ x.ram \in Rams /\ Sane(x.ram, root)
        /\ Grown(ram, x.ram, root, b .. PROCSTACKVADDR - 1, {Pte(f, RW \cup U) : f \in Frames})
        /\ ~ x.ram.wild =>
           /\ Pages(x.ram.mem, root) \subseteq Pages(ram.mem, root) \cup (ToSet(ram.free) \ ToSet(x.ram.free))
           /\ Pages(x.ram.mem, root) \cap ToSet(x.ram.free) = {}
    BY <2>1, <2>2 DEF Growing, Grows
  <2>5. ASSUME ~ x.ram.wild PROVE Space(x.ram.mem, root, stk, swp, x.bound[p])
    <3>1. Space(g.ram.mem, root, stk, swp, IF g.ok THEN b + pages ELSE b)
      BY <2>1, <2>2, <2>5 DEF Growing
    <3>2. x.bound[p] = IF g.ok THEN b + pages ELSE b
      BY <2>1, <2>5
    <3> QED BY <2>1, <3>1, <3>2
  <2> QED BY <2>1, <2>3, <2>4, <2>5 DEF Extends
<1> QED BY <1>2, <1>3

-----------------------------------------------------------------------------
(* The inductive invariant of the pages.                                   *)

Even(p)    == \A i \in DOMAIN mh[p].free :
                  mh[p].free[i].base % MEMBLK = 0 /\ mh[p].free[i].len % MEMBLK = 0
PagesFor(p) == Pages(ram.mem, proc[p].pagetable)
SpaceOf(p) == Space(ram.mem, proc[p].pagetable, proc[p].stkbase, proc[p].swaparea, bound[p])

\* While the kernel lives, the free pages, the kernel's tables and the pages of
\* each process are apart, and the spaces are whole.
Owned ==
    /\ IsInjective(ram.free) /\ Tree(ram.mem, _kernpgtbl) /\ KernelPages \cap FreePages = {}
    /\ \A p \in Live : SpaceOf(p) /\ PagesFor(p) \cap (KernelPages \cup FreePages) = {}
    /\ \A p, q \in Live : p # q => PagesFor(p) \cap PagesFor(q) = {}

Bounds == {0} \cup PROCHEAPVADDR + 1 .. PROCSTACKVADDR

PageInv ==
    /\ ram \in Rams /\ DOMAIN proc = Pids /\ bound \in [Pids -> Bounds]
    /\ \A p \in Live : /\ {proc[p].pagetable, proc[p].stkbase, proc[p].swaparea} \subseteq Frames
                       /\ bound[p] # 0 /\ Even(p)
    /\ Alive => Owned

LEMMA BoundFacts ==
  ASSUME NEW b \in Bounds
  PROVE  b \in Nat /\ (b # 0 => b > PROCHEAPVADDR /\ b <= PROCSTACKVADDR)
BY LayoutAssumption DEF Bounds

LEMMA FreeSubset ==
  ASSUME NEW r \in Rams
  PROVE  ToSet(r.free) \subseteq Frames
<1>1. r.free \in Seq(Frames)
  BY DEF Rams
<1> QED BY <1>1 DEF ToSet

\* Tables are pages of their process.
LEMMA TablesArePages ==
  ASSUME NEW m, NEW root
  PROVE  Tables(m, root) \subseteq Pages(m, root)
BY DEF Pages

\* What stays of a space whose tables stay.
SameSpace(m, m2, root) ==
    /\ Tables(m2, root) = Tables(m, root) /\ Tree(m2, root) /\ Pages(m2, root) = Pages(m, root)
    /\ \A v : Mapped(m, root, v) => Mapped(m2, root, v) /\ Walk(m2, root, v) = Walk(m, root, v)

LEMMA StaysSame ==
  ASSUME NEW m, NEW m2, NEW root, Tree(m, root), \A t \in Tables(m, root) : m2[t] = m[t]
  PROVE  SameSpace(m, m2, root)
<1>1. Tables(m2, root) = Tables(m, root) /\ Tree(m2, root) /\ Pages(m2, root) = Pages(m, root)
  BY SpaceStays
<1>2. \A v : Mapped(m, root, v) => Mapped(m2, root, v) /\ Walk(m2, root, v) = Walk(m, root, v)
  BY SpaceStays, SMTT(20)
<1> QED BY <1>1, <1>2 DEF SameSpace

\* A step leaves the tables of the kernel and of all processes but P alone, ...
Spared(P) ==
    /\ \A f \in KernelPages : ram'.mem[f] = ram.mem[f]
    /\ \A q \in Live \ P : \A f \in Tables(ram.mem, proc[q].pagetable) : ram'.mem[f] = ram.mem[f]
\* ... and makes at most one space, of pages that were free or its own.
Remade(P) ==
    /\ \A p, q \in P : p = q
    /\ \A p \in Live' \ P : p \in Live /\ proc'[p] = proc[p] /\ bound'[p] = bound[p]
    /\ IsInjective(ram'.free) /\ ToSet(ram'.free) \subseteq ToSet(ram.free)
    /\ \A p \in P : p \in Live' =>
             /\ SpaceOf(p)'
             /\ \A f \in PagesFor(p)' : f \in FreePages \ FreePages' \/ (p \in Live /\ f \in PagesFor(p))

\* A step that makes at most one space out of free pages, or makes one larger, and
\* leaves the tables of all others alone.
LEMMA OwnedStep ==
  ASSUME Owned, bound \in [Pids -> Nat], NEW P, Spared(P), Remade(P)
  PROVE  Owned'
<1> USE DEF Spared, Remade
<1>1. Tables(ram'.mem, _kernpgtbl) = KernelPages /\ Tree(ram'.mem, _kernpgtbl)
  <2>1. Tree(ram.mem, _kernpgtbl)
    BY DEF Owned
  <2>2. \A f \in Tables(ram.mem, _kernpgtbl) : ram'.mem[f] = ram.mem[f]
    BY DEF KernelPages
  <2> QED BY <2>1, <2>2, SpaceStays, SMTT(20) DEF KernelPages
<1>2. KernelPages' = KernelPages
  BY <1>1 DEF KernelPages
<1>3. FreePages' \subseteq FreePages
  BY DEF FreePages
<1>4. ASSUME NEW q \in Live' \ P
      PROVE  SpaceOf(q)' /\ PagesFor(q)' = PagesFor(q) /\ q \in Live
  <2>1. q \in Live /\ proc'[q] = proc[q] /\ bound'[q] = bound[q] /\ SpaceOf(q)
    BY <1>4 DEF Owned
  <2>2. bound[q] \in Nat
    BY <2>1 DEF Live
  <2> DEFINE root == proc[q].pagetable
  <2>3. Space(ram.mem, root, proc[q].stkbase, proc[q].swaparea, bound[q])
    BY <2>1 DEF SpaceOf
  <2>4. \A f \in Tables(ram.mem, root) : ram'.mem[f] = ram.mem[f]
    BY <1>4, <2>1
  <2>5. Space(ram'.mem, root, proc[q].stkbase, proc[q].swaparea, bound[q])
    BY <2>2, <2>3, <2>4, SpaceStaysToo
  <2>6. Tree(ram.mem, root)
    BY <2>3 DEF Space
  <2>7. Pages(ram'.mem, root) = Pages(ram.mem, root)
    <3>1. SameSpace(ram.mem, ram'.mem, root)
      BY <2>4, <2>6, StaysSame
    <3> QED BY <3>1 DEF SameSpace
  <2> QED BY <2>1, <2>5, <2>7 DEF SpaceOf, PagesFor
<1>5. ASSUME NEW p \in Live'
      PROVE  /\ SpaceOf(p)'
             /\ \A f \in PagesFor(p)' : f \in FreePages \ FreePages' \/ (p \in Live /\ f \in PagesFor(p))
  BY <1>4, <1>5
<1>6. ASSUME NEW p \in Live' PROVE PagesFor(p)' \cap (KernelPages' \cup FreePages') = {}
  <2>1. KernelPages \cap FreePages = {}
    BY DEF Owned
  <2>2. p \in Live => PagesFor(p) \cap (KernelPages \cup FreePages) = {}
    BY DEF Owned
  <2> QED BY <1>2, <1>3, <1>5, <2>1, <2>2
<1>7. ASSUME NEW p \in Live', NEW q \in Live', p # q PROVE PagesFor(p)' \cap PagesFor(q)' = {}
  <2>1. p \in Live /\ q \in Live => PagesFor(p) \cap PagesFor(q) = {}
    BY <1>7 DEF Owned
  <2>2. (p \in Live => PagesFor(p) \cap FreePages = {}) /\ (q \in Live => PagesFor(q) \cap FreePages = {})
    BY DEF Owned
  <2>3. CASE p \notin P
    <3>1. PagesFor(p)' = PagesFor(p) /\ p \in Live
      BY <1>4, <2>3
    <3> QED BY <1>5, <2>1, <2>2, <3>1
  <2>4. CASE q \notin P
    <3>1. PagesFor(q)' = PagesFor(q) /\ q \in Live
      BY <1>4, <2>4
    <3> QED BY <1>5, <2>1, <2>2, <3>1
  <2> QED BY <1>7, <2>3, <2>4
<1>8. KernelPages' \cap FreePages' = {}
  BY <1>2, <1>3 DEF Owned
<1> QED BY <1>1, <1>5, <1>6, <1>7, <1>8 DEF Owned

\* What the hardware finds for the pages of a process stays, when its tables do.
Kept(q) == \A v \in Vs(bound[q]) : /\ Mapped(ram'.mem, proc[q].pagetable, v)
                                   /\ Walk(ram'.mem, proc[q].pagetable, v) = Walk(ram.mem, proc[q].pagetable, v)

LEMMA KeptOthers ==
  ASSUME NEW q, SpaceOf(q),
         \A f \in Tables(ram.mem, proc[q].pagetable) : ram'.mem[f] = ram.mem[f]
  PROVE  Kept(q)
<1> DEFINE root == proc[q].pagetable
<1>1. Tree(ram.mem, root) /\ \A v \in Vs(bound[q]) : Mapped(ram.mem, root, v)
  BY DEF SpaceOf, Space
<1>2. SameSpace(ram.mem, ram'.mem, root)
  <2>1. \A t \in Tables(ram.mem, root) : ram'.mem[t] = ram.mem[t]
    OBVIOUS
  <2> HIDE DEF root
  <2> QED BY <1>1, <2>1, StaysSame
<1>3. \A v : Mapped(ram.mem, root, v) => /\ Mapped(ram'.mem, root, v)
                                         /\ Walk(ram'.mem, root, v) = Walk(ram.mem, root, v)
  BY <1>2 DEF SameSpace
<1> QED BY <1>1, <1>3 DEF Kept

-----------------------------------------------------------------------------
(* The pages at every step.                                                *)

\* What a step promises: the invariant, and every process that was there and still
\* is finds its pages where they were.
PagesKept == \A q \in Live \cap Live' : Kept(q)

\* Blocks of a heap that is tiled lie on memblk boundaries.
LEMMA TiledEven ==
  ASSUME NEW h, NEW A, NEW X, Tiled(h, A, X)
  PROVE  \A i \in DOMAIN h.free : h.free[i].base % MEMBLK = 0 /\ h.free[i].len % MEMBLK = 0
<1>1. Holds(h, ToSet(h.free))
  BY DEF Tiled
<1>2. \A i \in DOMAIN h.free : h.free[i] \in FreeBlk
  BY <1>1, HoldsFacts
<1> QED BY <1>2 DEF FreeBlk

\* While the kernel lives.
LEMMA EvenStep ==
  ASSUME HeapInv', Alive', NEW p \in Live'
  PROVE  Even(p)'
<1>1. Tiled(mh'[p], alloc'[p], Heap(p)')
  BY DEF HeapInv, HeapOf, Live
<1>2. \A i \in DOMAIN mh'[p].free : mh'[p].free[i].base % MEMBLK = 0 /\ mh'[p].free[i].len % MEMBLK = 0
  BY <1>1, TiledEven
<1> QED BY <1>2 DEF Even

LEMMA SpaceFacts ==
  ASSUME NEW p, SpaceOf(p)
  PROVE  /\ Tree(ram.mem, proc[p].pagetable)
         /\ Tables(ram.mem, proc[p].pagetable) \subseteq Frames
         /\ Tables(ram.mem, proc[p].pagetable) \subseteq PagesFor(p)
<1>1. Tree(ram.mem, proc[p].pagetable)
  BY DEF SpaceOf, Space
<1> DEFINE root == proc[p].pagetable
<1>2. Tree(ram.mem, root)
  BY <1>1
<1> HIDE DEF root
<1>3. Tables(ram.mem, root) \subseteq Frames
  BY <1>2, TreeTables
<1>4. Tables(ram.mem, root) \subseteq Pages(ram.mem, root)
  BY TablesArePages
<1> QED BY <1>2, <1>3, <1>4 DEF root, PagesFor

LEMMA KernelFacts ==
  ASSUME Owned
  PROVE  KernelPages \subseteq Frames /\ KernelPages \cap FreePages = {}
<1>1. Tree(ram.mem, _kernpgtbl)
  BY DEF Owned
<1>2. Tables(ram.mem, _kernpgtbl) \subseteq Frames
  BY <1>1, TreeTables
<1> QED BY <1>2 DEF KernelPages, Owned

\* Pages that were not free are as they were, for all but the process p.
LEMMA OthersUntouched ==
  ASSUME Owned, NEW X, X \cap KernelPages = {},
         \A f \in Frames \ (X \cup FreePages) : ram'.mem[f] = ram.mem[f],
         NEW P, \A q \in Live \ P : PagesFor(q) \cap X = {}
  PROVE  /\ Spared(P)
         /\ \A q \in Live \ P : Kept(q)
<1>1. \A f \in KernelPages : ram'.mem[f] = ram.mem[f]
  BY KernelFacts
<1>2. ASSUME NEW q \in Live \ P, NEW f \in Tables(ram.mem, proc[q].pagetable)
      PROVE  ram'.mem[f] = ram.mem[f]
  <2>1. SpaceOf(q) /\ PagesFor(q) \cap FreePages = {}
    BY DEF Owned
  <2>2. f \in PagesFor(q) /\ f \in Frames
    BY <2>1, SpaceFacts
  <2> QED BY <2>1, <2>2
<1>3. ASSUME NEW q \in Live \ P PROVE Kept(q)
  <2>1. SpaceOf(q)
    BY DEF Owned
  <2>2. \A f \in Tables(ram.mem, proc[q].pagetable) : ram'.mem[f] = ram.mem[f]
    BY <1>2
  <2> QED BY <2>1, <2>2, KeptOthers
<1> QED BY <1>1, <1>2, <1>3 DEF Spared

\* A step that changes no page.
LEMMA SameKept ==
  ASSUME NEW q, SpaceOf(q), ram' = ram
  PROVE  Kept(q)
BY KeptOthers

-----------------------------------------------------------------------------
(* Free() and kill().                                                      *)

LEMMA FreePagesStep ==
  ASSUME PageInv, HeapInv', Alive, UNCHANGED pagevars
  PROVE  PageInv' /\ PagesKept
<1>1. ram' = ram /\ proc' = proc /\ bound' = bound /\ Live' = Live /\ Alive'
  BY DEF pagevars, Live, Alive
<1>2. Owned
  BY DEF PageInv
<1>3. Owned'
  BY <1>1, <1>2 DEF Owned, SpaceOf, PagesFor, FreePages, KernelPages
<1>4. \A p \in Live' : Even(p)'
  BY <1>1, EvenStep
<1>5. PageInv'
  BY <1>1, <1>3, <1>4 DEF PageInv
<1>6. PagesKept
  BY <1>1, <1>2, SameKept DEF PagesKept, Owned
<1> QED BY <1>5, <1>6

LEMMA KillPages ==
  ASSUME PageInv, HeapInv', NEW p \in Pids, Kill(p)
  PROVE  PageInv' /\ PagesKept
<1>1. /\ proc' = [proc EXCEPT ![p] = NoProc] /\ bound' = [bound EXCEPT ![p] = 0] /\ ram' = ram
      /\ Alive /\ Alive'
  BY DEF Kill, kill, Alive
<1>2. /\ p \notin Live' /\ DOMAIN proc' = Pids /\ bound' \in [Pids -> Bounds]
      /\ \A r \in Live' : r \in Live /\ r # p /\ proc'[r] = proc[r] /\ bound'[r] = bound[r]
  <2>1. 0 \in Bounds
    BY DEF Bounds
  <2> QED BY <1>1, <2>1 DEF Live, NoProc, PageInv
<1>3. Owned
  BY <1>1 DEF PageInv
<1>4. Owned'
  BY <1>1, <1>2, <1>3 DEF Owned, SpaceOf, PagesFor, FreePages, KernelPages
<1>5. \A r \in Live' : Even(r)'
  BY <1>1, EvenStep
<1>6. \A r \in Live' : {proc'[r].pagetable, proc'[r].stkbase, proc'[r].swaparea} \subseteq Frames
                      /\ bound'[r] # 0
  BY <1>2 DEF PageInv
<1>7. PageInv'
  BY <1>1, <1>2, <1>4, <1>5, <1>6 DEF PageInv
<1>8. PagesKept
  BY <1>1, <1>3, SameKept DEF PagesKept, Owned
<1> QED BY <1>7, <1>8

-----------------------------------------------------------------------------
(* create().                                                               *)

\* The page for the stack.
LEMMA StackPage ==
  ASSUME NEW r \in Rams, IsInjective(r.free)
  PROVE  /\ pgalloc(r) \in Rams /\ pgalloc(r).wild = r.wild /\ IsInjective(pgalloc(r).free)
         /\ ToSet(pgalloc(r).free) \subseteq ToSet(r.free)
         /\ \A f \in Frames \ ToSet(r.free) : pgalloc(r).mem[f] = r.mem[f]
         /\ pgtop(r) # SYSERR => /\ pgtop(r) \in Frames /\ pgtop(r) \in ToSet(r.free)
                                 /\ pgtop(r) \notin ToSet(pgalloc(r).free)
<1>1. r.free \in Seq(Frames)
  BY DEF Rams
<1>2. CASE r.free = <<>>
  BY <1>2, AllocFacts
<1>3. CASE r.free # <<>>
  <2>1. /\ pgalloc(r) \in Rams /\ pgalloc(r).wild = r.wild /\ pgtop(r) = Head(r.free)
        /\ pgalloc(r).free = Tail(r.free)
        /\ \A f \in Frames \ {pgtop(r)} : pgalloc(r).mem[f] = r.mem[f]
    BY <1>3, AllocFacts
  <2>2. /\ Head(r.free) \in Frames /\ Head(r.free) \in ToSet(r.free)
        /\ ToSet(Tail(r.free)) = ToSet(r.free) \ {Head(r.free)} /\ IsInjective(Tail(r.free))
    BY <1>1, <1>3, TakesHead
  <2> QED BY <2>1, <2>2
<1> QED BY <1>2, <1>3

LEMMA CreateFailsPages ==
  ASSUME PageInv, HeapInv', createFails, UNCHANGED <<mh, alloc>>
  PROVE  PageInv' /\ PagesKept
<1>1. Alive /\ ram' = pgalloc(ram) /\ proc' = proc /\ bound' = bound /\ Live' = Live
  BY DEF createFails, Live
<1>2. Owned /\ ram \in Rams /\ DOMAIN proc = Pids /\ bound \in [Pids -> Bounds]
      /\ IsInjective(ram.free)
  BY <1>1 DEF PageInv, Owned
<1>3. /\ ram' \in Rams /\ ~ ram'.wild /\ IsInjective(ram'.free)
      /\ ToSet(ram'.free) \subseteq ToSet(ram.free)
      /\ \A f \in Frames \ FreePages : ram'.mem[f] = ram.mem[f]
  BY <1>1, <1>2, StackPage DEF Alive, FreePages
<1> DEFINE P == {}
<1>10. P = {}
  OBVIOUS
<1> HIDE DEF P
<1>4. Spared(P) /\ \A q \in Live \ P : Kept(q)
  <2> DEFINE X == {}
  <2>1. /\ \A f \in Frames \ (X \cup FreePages) : ram'.mem[f] = ram.mem[f]
        /\ X \cap KernelPages = {} /\ \A q \in Live \ P : PagesFor(q) \cap X = {}
    BY <1>3
  <2> HIDE DEF X
  <2> QED BY <1>2, <2>1, OthersUntouched
<1>5. bound \in [Pids -> Nat]
  BY <1>2, BoundFacts
<1>6. Owned'
  <2>1. Remade(P)
    BY <1>1, <1>3, <1>10 DEF Remade
  <2> QED BY <1>2, <1>4, <1>5, <2>1, OwnedStep
<1>7. \A p \in Live' : Even(p)'
  BY <1>1, <1>3, EvenStep DEF Alive
<1>8. PageInv'
  BY <1>1, <1>2, <1>3, <1>6, <1>7 DEF PageInv
<1>9. PagesKept
  BY <1>4, <1>10 DEF PagesKept
<1> QED BY <1>8, <1>9

\* A new address space is a space: what the process can write are the console and
\* the pages that were taken for it.
LEMMA NewIsSpace ==
  ASSUME NEW r, NEW s, NEW root, NEW stack \in Frames, NEW hp, NEW sw,
         NewSpace(r, s, root, stack, hp, sw), stack \notin ToSet(r.free), ~ s.wild
  PROVE  /\ Space(s.mem, root, stack, sw, PROCHEAPVADDR + 1) /\ {root, sw} \subseteq Frames
         /\ Pages(s.mem, root) \subseteq {stack} \cup (ToSet(r.free) \ ToSet(s.free))
<1> DEFINE e(pa) == Pte(pa, RW \cup U)
           m == s.mem
           T == Tables(m, root)
<1>1. /\ Sane(s, root) /\ hp # sw /\ {hp, sw} \cap T = {} /\ {hp, sw} \subseteq Frames
      /\ {hp, sw} \cup T \subseteq ToSet(r.free) \ ToSet(s.free)
      /\ Entries(m, root) \subseteq ProcessPtes \cup {e(stack), e(hp), e(sw)}
      /\ Mapped(m, root, PROCSTACKVADDR) /\ Walk(m, root, PROCSTACKVADDR) = e(stack)
      /\ Mapped(m, root, PROCHEAPVADDR) /\ Walk(m, root, PROCHEAPVADDR) = e(hp)
      /\ Mapped(m, root, SWAPAREAVADDR) /\ Walk(m, root, SWAPAREAVADDR) = e(sw)
  BY DEF NewSpace
<1>2. Tree(m, root)
  BY <1>1 DEF Sane
<1>3. \A pa : e(pa).pa = pa /\ e(pa).attr = RW \cup U
  BY DEF Pte
<1>4. T \subseteq Frames /\ root \in T
  <2> HIDE DEF m
  <2> QED BY <1>2, TreeTables
<1> HIDE DEF e
<1>5. Writ(m, root) \subseteq {UART_BASE, stack, hp, sw}
  <2> SUFFICES ASSUME NEW x \in Entries(m, root), {"W", "U"} \subseteq x.attr
               PROVE  x.pa \in {UART_BASE, stack, hp, sw}
    BY DEF Writ
  <2>1. CASE x \in ProcessPtes
    BY <2>1 DEF ProcessPtes
  <2>2. CASE x \in {e(stack), e(hp), e(sw)}
    BY <1>3, <2>2
  <2> QED BY <1>1, <2>1, <2>2
<1>6. T \cap Writ(m, root) = {}
  BY <1>1, <1>4, <1>5, VAddrs
<1>7. Vs(PROCHEAPVADDR + 1) = {PROCHEAPVADDR, PROCSTACKVADDR, SWAPAREAVADDR}
  BY LayoutAssumption DEF Vs
<1>8. stack # hp /\ stack # sw
  BY <1>1
<1>9. Space(m, root, stack, sw, PROCHEAPVADDR + 1)
  <2>1. \A v \in Vs(PROCHEAPVADDR + 1) : /\ Mapped(m, root, v) /\ Walk(m, root, v).attr = RW \cup U
                                         /\ Walk(m, root, v).pa \in Frames
    BY <1>1, <1>3, <1>7
  <2>2. Walk(m, root, PROCSTACKVADDR).pa = stack /\ Walk(m, root, PROCHEAPVADDR).pa = hp
        /\ Walk(m, root, SWAPAREAVADDR).pa = sw
    BY <1>1, <1>3
  <2>3. \A v, w \in Vs(PROCHEAPVADDR + 1) : Walk(m, root, v).pa = Walk(m, root, w).pa => v = w
    BY <1>1, <1>7, <1>8, <2>2
  <2>4. Writ(m, root) \subseteq Frames \cup {UART_BASE}
    BY <1>1, <1>5
  <2> QED BY <1>2, <1>6, <2>1, <2>2, <2>3, <2>4 DEF Space
<1>10. Pages(m, root) \subseteq {stack} \cup (ToSet(r.free) \ ToSet(s.free))
  BY <1>1, <1>5 DEF Pages
<1> QED BY <1>1, <1>4, <1>9, <1>10

LEMMA CreatePages ==
  ASSUME PageInv, HeapInv, HeapInv', NEW p \in Pids, Create(p)
  PROVE  PageInv' /\ PagesKept
<1> DEFINE r == pgalloc(ram)
           stack == pgtop(ram)
           u == vm_userinit(r, stack)
           e == [live |-> TRUE, pagetable |-> u.pagetable, stkbase |-> stack,
                 swaparea |-> u.swaparea]
<1>1. Alive /\ p \notin Live /\ stack # SYSERR /\ ram' = u.ram
  BY DEF Create, create
<1>2. Owned /\ ram \in Rams /\ DOMAIN proc = Pids /\ bound \in [Pids -> Bounds]
      /\ IsInjective(ram.free)
  BY <1>1 DEF PageInv, Owned
<1>3. /\ r \in Rams /\ ~ r.wild /\ IsInjective(r.free)
      /\ ToSet(r.free) \subseteq ToSet(ram.free)
      /\ \A f \in Frames \ ToSet(ram.free) : r.mem[f] = ram.mem[f]
      /\ stack \in Frames /\ stack \in ToSet(ram.free) /\ stack \notin ToSet(r.free)
  BY <1>1, <1>2, StackPage DEF Alive
<1>12. ram'.wild => proc' = proc /\ bound' = bound /\ mh' = mh
  BY DEF Create, create
<1>13. ~ ram'.wild => proc' = [proc EXCEPT ![p] = e] /\ bound' = [bound EXCEPT ![p] = PROCHEAPVADDR + 1]
  BY DEF Create, create
<1> HIDE DEF r, stack
<1>4. /\ u.ram \in Rams /\ \A f \in Frames \ ToSet(r.free) : u.ram.mem[f] = r.mem[f]
      /\ ~ u.ram.wild => \E hp : NewSpace(r, u.ram, u.pagetable, stack, hp, u.swaparea)
  BY <1>3, UserInit
<1>14. e.live /\ e.pagetable = u.pagetable /\ e.stkbase = stack /\ e.swaparea = u.swaparea
  OBVIOUS
<1> HIDE DEF u, e
<1>5. \A f \in Frames \ FreePages : ram'.mem[f] = ram.mem[f]
  BY <1>1, <1>3, <1>4 DEF FreePages
<1> DEFINE P == {p}
<1>10. P = {p}
  OBVIOUS
<1> HIDE DEF P
<1>6. Spared(P) /\ \A q \in Live \ P : Kept(q)
  <2> DEFINE X == {}
  <2>1. /\ \A f \in Frames \ (X \cup FreePages) : ram'.mem[f] = ram.mem[f]
        /\ X \cap KernelPages = {} /\ \A q \in Live \ P : PagesFor(q) \cap X = {}
    BY <1>5
  <2> HIDE DEF X
  <2> QED BY <1>2, <2>1, OthersUntouched
<1>7. PagesKept
  BY <1>1, <1>6, <1>10 DEF PagesKept
<1>8. CASE ram'.wild
  <2>1. \A q \in Live' : Even(q)'
    BY <1>8, <1>12 DEF PageInv, Even, Live
  <2>2. Live' = Live
    BY <1>8, <1>12 DEF Live
  <2> QED BY <1>1, <1>4, <1>7, <1>8, <1>12, <2>1, <2>2 DEF PageInv, Alive
<1>9. CASE ~ ram'.wild
  <2>1. PICK hp : NewSpace(r, u.ram, u.pagetable, stack, hp, u.swaparea)
    BY <1>1, <1>4, <1>9
  <2> DEFINE root == u.pagetable
             sw == u.swaparea
             s == u.ram
  <2>2. /\ Space(s.mem, root, stack, sw, PROCHEAPVADDR + 1) /\ {root, sw} \subseteq Frames
        /\ Pages(s.mem, root) \subseteq {stack} \cup (ToSet(r.free) \ ToSet(s.free))
    <3>1. NewSpace(r, s, root, stack, hp, sw) /\ ~ s.wild
      BY <1>1, <1>9, <2>1
    <3> HIDE DEF root, sw, s
    <3> QED BY <1>3, <3>1, NewIsSpace
  <2>3. ToSet(s.free) \subseteq ToSet(r.free) /\ IsInjective(s.free)
    BY <2>1 DEF NewSpace, Sane
  <2>4. /\ proc'[p] = e /\ DOMAIN proc' = Pids /\ bound'[p] = PROCHEAPVADDR + 1
        /\ Live' = Live \cup {p}
        /\ \A q \in Pids \ {p} : proc'[q] = proc[q] /\ bound'[q] = bound[q]
        /\ bound' \in [Pids -> Bounds]
    <3>1. PROCHEAPVADDR + 1 \in Bounds
      BY LayoutAssumption DEF Bounds
    <3> QED BY <1>2, <1>9, <1>13, <1>14, <3>1 DEF Live
  <2>5. SpaceOf(p)'
    BY <1>1, <1>14, <2>2, <2>4 DEF SpaceOf
  <2>6. \A f \in PagesFor(p)' : f \in FreePages \ FreePages'
    <3>1. PagesFor(p)' = Pages(s.mem, root)
      BY <1>1, <1>14, <2>4 DEF PagesFor
    <3>2. FreePages' = ToSet(s.free)
      BY <1>1 DEF FreePages
    <3> QED BY <1>3, <2>2, <2>3, <3>1, <3>2 DEF FreePages
  <2>7. Owned'
    <3>1. \A q \in Live' \ {p} : q \in Live /\ proc'[q] = proc[q] /\ bound'[q] = bound[q]
      BY <2>4 DEF Live
    <3>2. bound \in [Pids -> Nat]
      BY <1>2, BoundFacts
    <3>3. IsInjective(ram'.free) /\ ToSet(ram'.free) \subseteq ToSet(ram.free)
      BY <1>1, <1>3, <2>3
    <3>4. Remade(P)
      BY <1>10, <2>5, <2>6, <3>1, <3>3 DEF Remade
    <3> QED BY <1>2, <1>6, <3>2, <3>4, OwnedStep
  <2>8. \A q \in Live' : Even(q)'
    BY <1>9, EvenStep DEF Alive
  <2>9. \A q \in Live' : /\ {proc'[q].pagetable, proc'[q].stkbase, proc'[q].swaparea} \subseteq Frames
                         /\ bound'[q] # 0
    <3>1. PROCHEAPVADDR + 1 # 0
      BY LayoutAssumption
    <3> QED BY <1>3, <1>14, <2>2, <2>4, <3>1 DEF PageInv, Live
  <2> QED BY <1>1, <1>4, <1>7, <2>4, <2>7, <2>8, <2>9 DEF PageInv
<1> QED BY <1>8, <1>9

-----------------------------------------------------------------------------
(* getmem() and malloc().                                                  *)

LEMMA GetmemPages ==
  ASSUME PageInv, HeapInv', NEW p \in Pids, Running(p), NEW nb \in 1 .. UINT - PAGE_SIZE - MEMBLK,
         getmem(p, nb), UNCHANGED proc
  PROVE  PageInv' /\ PagesKept
<1> DEFINE n == uint(roundmb(uint(nb)))
           q == roundup(n, PAGE_SIZE) \div PAGE_SIZE
           x == incheap(p, q)
           root == proc[p].pagetable
           b == bound[p]
           stk == proc[p].stkbase
           swp == proc[p].swaparea
<1>1. /\ Alive /\ ~ ram.wild /\ p \in Live /\ Owned /\ proc' = proc /\ Live' = Live
      /\ ram \in Rams /\ bound \in [Pids -> Bounds] /\ bound \in [Pids -> Nat]
      /\ b \in Nat /\ PROCHEAPVADDR < b /\ b <= PROCSTACKVADDR
  BY BoundFacts DEF PageInv, Running, Alive, Live
<1>2. CASE Fits(mh[p].free, n) # {}
  <2>1. UNCHANGED pagevars
    <3>1. Fits(mh[p].free, n) # {} => UNCHANGED <<ram, bound>>
      BY DEF getmem, n
    <3> QED BY <1>1, <1>2, <3>1 DEF pagevars
  <2> QED BY <1>1, <2>1, FreePagesStep
<1>3. CASE Fits(mh[p].free, n) = {}
  <2>1. ram' = x.ram /\ bound' = x.bound /\ (~ x.ok => mh' = mh)
    <3>1. uint(nb) # 0
      BY HeapNumbers DEF uint, MEMBLK
    <3> QED BY <1>3, <3>1 DEF getmem, n
  <2>2. q \in Nat
    <3>1. nb \in Nat /\ nb >= 1 /\ nb + 1 <= UINT - PAGE_SIZE
      BY HeapNumbers DEF MEMBLK
    <3>2. roundmb(nb) \in Nat /\ nb <= roundmb(nb) /\ n = roundmb(nb)
      BY <3>1, RoundBlocks
    <3>3. n \in Nat \ {0} /\ PAGE_SIZE \in Nat \ {0}
      BY <3>1, <3>2, HeapNumbers
    <3> HIDE DEF n
    <3> QED BY <3>3, RoundPages
  <2> HIDE DEF n, q, x
  <2>3. /\ SpaceOf(p) /\ Space(ram.mem, root, stk, swp, b)
        /\ Pages(ram.mem, root) \cap ToSet(ram.free) = {}
    BY <1>1 DEF Owned, SpaceOf, PagesFor, FreePages
  <2>4. Sane(ram, root)
    <3>1. Tree(ram.mem, root) /\ Tables(ram.mem, root) \subseteq Pages(ram.mem, root)
      BY <2>3 DEF Space, Pages
    <3> QED BY <1>1, <2>3, <3>1 DEF Sane, Owned
  <2>5. root = proc[p].pagetable
    OBVIOUS
  <2> HIDE DEF root, stk, swp
  <2>6. Increased(p, root, stk, swp, q, x)
    <3>1. /\ PROCHEAPVADDR < bound[p] /\ bound[p] <= PROCSTACKVADDR
          /\ Space(ram.mem, root, stk, swp, bound[p])
      BY <1>1, <2>3
    <3>2. x = incheap(p, q)
      BY DEF x
    <3> HIDE DEF b
    <3> QED BY <1>1, <2>2, <2>3, <2>4, <2>5, <3>1, <3>2, Incheap
  <2>7. /\ ram' \in Rams /\ Sane(ram', root)
        /\ Outside(ram, ram', root)
        /\ Keeps(ram.mem, ram'.mem, root, b .. PROCSTACKVADDR - 1)
        /\ ToSet(ram'.free) \subseteq ToSet(ram.free)
        /\ ~ ram'.wild =>
               /\ Pages(ram'.mem, root) \subseteq Pages(ram.mem, root) \cup (ToSet(ram.free) \ ToSet(ram'.free))
               /\ Space(ram'.mem, root, stk, swp, bound'[p])
    BY <2>1, <2>6 DEF Increased, Extends, Grown
  <2>8. /\ bound' \in [Pids -> Bounds] /\ bound'[p] # 0
        /\ \A r \in Pids \ {p} : bound'[r] = bound[r]
    <3>1. b + q <= PROCSTACKVADDR => b + q \in Bounds /\ b + q # 0
      BY <1>1, <2>2, LayoutAssumption DEF Bounds
    <3>2. \/ bound' = bound
          \/ bound' = [bound EXCEPT ![p] = @ + q] /\ b + q <= PROCSTACKVADDR
      BY <2>1, <2>6 DEF Increased
    <3>3. CASE bound' = bound
      <4>1. b # 0 /\ b = bound[p]
        BY <1>1, LayoutAssumption
      <4> QED BY <1>1, <3>3, <4>1
    <3>4. CASE bound' = [bound EXCEPT ![p] = @ + q] /\ b + q <= PROCSTACKVADDR
      <4> DEFINE c == b + q
      <4>1. c \in Bounds /\ c # 0 /\ bound' = [bound EXCEPT ![p] = c]
        BY <3>1, <3>4
      <4> HIDE DEF c
      <4> QED BY <1>1, <4>1
    <3> QED BY <3>2, <3>3, <3>4
  <2> DEFINE P == {p}
  <2>9. P = {p}
    OBVIOUS
  <2> HIDE DEF P, b
  <2>10. Spared(P) /\ \A r \in Live \ P : Kept(r)
    <3> DEFINE X == Tables(ram.mem, root)
    <3>1. \A f \in Frames \ (X \cup FreePages) : ram'.mem[f] = ram.mem[f]
      BY <2>7 DEF Outside, FreePages
    <3>2. X \subseteq PagesFor(p)
      BY <2>3, SpaceFacts DEF root
    <3>3. X \cap KernelPages = {} /\ \A r \in Live \ P : PagesFor(r) \cap X = {}
      BY <1>1, <2>9, <3>2 DEF Owned
    <3> HIDE DEF X
    <3> QED BY <1>1, <3>1, <3>3, OthersUntouched
  <2>11. Kept(p)
    <3>1. \A v \in Vs(b) : v \in Nat \ (b .. PROCSTACKVADDR - 1)
      BY <1>1, VsFacts DEF b
    <3>2. \A v \in Vs(b) : Mapped(ram.mem, root, v)
      BY <2>3 DEF Space, b
    <3>3. \A v \in Vs(b) : /\ Mapped(ram'.mem, root, v)
                           /\ Walk(ram'.mem, root, v) = Walk(ram.mem, root, v)
      BY <2>7, <3>1, <3>2 DEF Keeps
    <3> QED BY <3>3 DEF Kept, b, root
  <2>12. PagesKept
    BY <2>9, <2>10, <2>11 DEF PagesKept
  <2>13. ~ ram'.wild => Owned'
    <3> SUFFICES ASSUME ~ ram'.wild PROVE Owned'
      OBVIOUS
    <3>1. SpaceOf(p)' /\ PagesFor(p)' = Pages(ram'.mem, root) /\ PagesFor(p) = Pages(ram.mem, root)
      BY <1>1, <2>7 DEF SpaceOf, PagesFor, root, stk, swp
    <3>2. \A f \in PagesFor(p)' : f \in FreePages \ FreePages' \/ (p \in Live /\ f \in PagesFor(p))
      BY <1>1, <2>7, <3>1 DEF FreePages
    <3>3. IsInjective(ram'.free) /\ ToSet(ram'.free) \subseteq ToSet(ram.free)
      BY <2>7 DEF Sane
    <3>4. \A r \in Live' \ P : r \in Live /\ proc'[r] = proc[r] /\ bound'[r] = bound[r]
      BY <1>1, <2>8, <2>9 DEF Live
    <3>5. Remade(P)
      BY <2>9, <3>1, <3>2, <3>3, <3>4 DEF Remade
    <3> QED BY <1>1, <2>10, <3>5, OwnedStep
  <2>14. \A r \in Live' : Even(r)'
    <3>1. CASE ram'.wild
      <4>1. mh' = mh
        BY <2>1, <2>6, <3>1 DEF Increased
      <4> QED BY <1>1, <4>1 DEF PageInv, Even
    <3>2. CASE ~ ram'.wild
      BY <3>2, EvenStep DEF Alive
    <3> QED BY <3>1, <3>2
  <2>15. \A r \in Live' : bound'[r] # 0
    BY <1>1, <2>8 DEF PageInv, Live
  <2> QED BY <1>1, <2>7, <2>8, <2>12, <2>13, <2>14, <2>15 DEF PageInv, Alive
<1> QED BY <1>2, <1>3

-----------------------------------------------------------------------------
(* The kernel starts.                                                      *)

LEMMA KernelSpace ==
  /\ vm_kerninit \in Rams
  /\ ~ vm_kerninit.wild => /\ IsInjective(vm_kerninit.free) /\ Tree(vm_kerninit.mem, _kernpgtbl)
                           /\ Tables(vm_kerninit.mem, _kernpgtbl) \cap ToSet(vm_kerninit.free) = {}
<1> DEFINE root == _kernpgtbl
           a == pgalloc(pgInit)
<1>1. root = pgtop(pgInit) /\ vm_kerninit = Identity(a, root, KernRanges)
  BY DEF _kernpgtbl, vm_kerninit
<1>2. a \in Rams /\ Sane(a, root)
  <2> DEFINE r == pgInit
  <2>1. r \in Rams /\ ~ r.wild /\ IsInjective(r.free) /\ r.free # <<>>
    BY PgInit
  <2>2. a = pgalloc(r) /\ root = pgtop(r)
    BY <1>1
  <2> HIDE DEF r, a, root
  <2> QED BY <2>1, <2>2, FreshRoot
<1> HIDE DEF root, a
<1> DEFINE s == Identity(a, root, KernRanges)
<1>3. s \in Reach(a, root, PteT)
  BY <1>2, KernelParts, MapParts
<1>4. s \in Rams /\ Sane(s, root)
  BY <1>3 DEF Reach
<1> HIDE DEF s
<1>5. ~ s.wild => IsInjective(s.free) /\ Tree(s.mem, root) /\ Tables(s.mem, root) \cap ToSet(s.free) = {}
  BY <1>4 DEF Sane
<1> QED BY <1>1, <1>4, <1>5 DEF s, root

LEMMA InitPageInv ==
  ASSUME Init
  PROVE  PageInv
<1>1. /\ ram = vm_kerninit /\ proc = [p \in Pids |-> NoProc] /\ bound = [p \in Pids |-> 0]
  BY DEF Init, PInit
<1>2. Live = {}
  BY <1>1 DEF Live, NoProc
<1>3. Alive => Owned
  BY <1>1, <1>2, KernelSpace DEF Alive, Owned, KernelPages, FreePages
<1>4. bound \in [Pids -> Bounds]
  BY <1>1 DEF Bounds
<1> QED BY <1>1, <1>2, <1>3, <1>4, KernelSpace DEF PageInv

-----------------------------------------------------------------------------
(* Every step.                                                             *)

LEMMA SizesFit ==
  ASSUME NoWrap, NEW size \in SIZES
  PROVE  size \in 1 .. UINT - PAGE_SIZE - MEMBLK /\ MEMBLK + size \in 1 .. UINT - PAGE_SIZE - MEMBLK
<1>1. size \in 1 .. UINT - PAGE_SIZE - 2 * MEMBLK
  BY DEF NoWrap
<1> QED BY <1>1, HeapNumbers DEF MEMBLK

LEMMA NextPageInv ==
  ASSUME NoWrap, PageInv, HeapInv, HeapInv', [Next]_vars
  PROVE  PageInv' /\ (Next => PagesKept)
<1>1. CASE createFails /\ UNCHANGED <<mh, alloc>>
  BY <1>1, CreateFailsPages
<1>2. ASSUME NEW p \in Pids, Create(p) PROVE PageInv' /\ PagesKept
  BY <1>2, CreatePages
<1>3. ASSUME NEW p \in Pids, Kill(p) PROVE PageInv' /\ PagesKept
  BY <1>3, KillPages
<1>4. ASSUME NEW p \in Pids, Free(p) PROVE PageInv' /\ PagesKept
  BY <1>4, FreePagesStep DEF Free, Running
<1>5. ASSUME NEW p \in Pids, NEW size \in SIZES, Getmem(p, size) PROVE PageInv' /\ PagesKept
  BY <1>5, SizesFit, GetmemPages DEF Getmem
<1>6. ASSUME NEW p \in Pids, NEW size \in SIZES, Malloc(p, size) PROVE PageInv' /\ PagesKept
  <2> DEFINE nb == MEMBLK + size
  <2>1. nb \in 1 .. UINT - PAGE_SIZE - MEMBLK
    BY SizesFit
  <2>2. Running(p) /\ getmem(p, nb) /\ UNCHANGED proc
    BY <1>6 DEF Malloc
  <2> HIDE DEF nb
  <2> QED BY <2>1, <2>2, GetmemPages
<1>7. CASE Next
  BY <1>1, <1>2, <1>3, <1>4, <1>5, <1>6, <1>7 DEF Next
<1>8. CASE UNCHANGED vars /\ ~ Next
  <2>1. UNCHANGED <<ram, proc, bound, mh>>
    BY <1>8 DEF vars, pagevars
  <2>2. Live' = Live /\ (Alive' <=> Alive) /\ (Owned' <=> Owned) /\ \A p \in Live : Even(p)' <=> Even(p)
    BY <2>1 DEF Live, Alive, Owned, SpaceOf, PagesFor, FreePages, KernelPages, Even
  <2> QED BY <1>8, <2>1, <2>2 DEF PageInv
<1> QED BY <1>7, <1>8

LEMMA SpecInv == ASSUME NoWrap PROVE Spec => [](HeapInv /\ PageInv)
<1>1. Init => HeapInv /\ PageInv
  BY InitHeapInv, InitPageInv
<1>2. HeapInv /\ PageInv /\ [Next]_vars => (HeapInv /\ PageInv)'
  BY NextHeapInv, NextPageInv
<1> QED BY <1>1, <1>2, PTL DEF Spec

-----------------------------------------------------------------------------
(* Theorems.                                                               *)

\* Free pages and the tables of processes are pages of memory, the heap of a
\* process never grows into its stack, and free blocks stay multiples of the
\* memblk that getmem() and freemem() write into them.
THEOREM HeapTypeCorrect == ASSUME NoWrap PROVE Spec => []TypeOK
<1>1. PageInv => TypeOK
  <2> SUFFICES ASSUME PageInv PROVE TypeOK
    OBVIOUS
  <2>1. ram \in Rams /\ ToSet(ram.free) \subseteq Frames
    BY FreeSubset DEF PageInv
  <2>2. DOMAIN ram.mem = Frames /\ ram.wild \in BOOLEAN
    BY <2>1 DEF Rams, MemT
  <2> QED BY <2>1, <2>2 DEF PageInv, TypeOK, Bounds, Even
<1> QED BY <1>1, SpecInv, PTL

LEMMA WritableIs ==
  \A p : Writable(p) = Writ(ram.mem, proc[p].pagetable) /\ PagesOf(p) = PagesFor(p)
<1> SUFFICES ASSUME NEW p
             PROVE  Writable(p) = Writ(ram.mem, proc[p].pagetable) /\ PagesOf(p) = PagesFor(p)
  OBVIOUS
<1>1. Writable(p) = Writ(ram.mem, proc[p].pagetable)
  BY DEF Writable, UserPtes, Writ, Entries
<1> QED BY <1>1 DEF PagesOf, PagesFor, Pages

\* While the kernel lives a page is free, or the kernel's, or one process's, and
\* only one of these; a process cannot write into its own page tables.  However
\* incheap() fails, mapPage() takes a page for a table, or kill() leaves pages to
\* nobody, no page is handed out twice (incheap.c, map.c, create.c, kill.c).
THEOREM PagesOwned == ASSUME NoWrap PROVE Spec => []OneOwner
<1>1. PageInv => OneOwner
  <2> SUFFICES ASSUME PageInv, Alive PROVE OneOwner
    BY DEF OneOwner
  <2>1. Owned
    BY DEF PageInv
  <2>2. \A p \in Live : /\ Tables(ram.mem, proc[p].pagetable) \cap Writable(p) = {}
                        /\ Writable(p) \subseteq Frames \cup {UART_BASE}
    BY <2>1, WritableIs DEF Owned, SpaceOf, Space
  <2>3. /\ \A p, q \in Live : p # q => PagesOf(p) \cap PagesOf(q) = {}
        /\ \A p \in Live : PagesOf(p) \cap (KernelPages \cup FreePages) = {}
    BY <2>1, WritableIs DEF Owned
  <2> QED BY <2>1, <2>2, <2>3 DEF OneOwner, Owned
<1> QED BY <1>1, SpecInv, PTL

\* Every address below the bound of a heap, the stack and the swap area are mapped,
\* to pages of their own, writable by the process: bound moves only over pages
\* that mapAddressRange() has mapped (incheap.c:46 to 60), and later mappings and
\* other processes leave them where they are.
THEOREM HeapsBacked == ASSUME NoWrap PROVE Spec => []HeapBacked
<1>1. PageInv => HeapBacked
  <2> SUFFICES ASSUME PageInv, Alive PROVE HeapBacked
    BY DEF HeapBacked
  <2>1. \A p \in Live : SpaceOf(p)
    BY DEF PageInv, Owned
  <2> SUFFICES ASSUME NEW p \in Live
               PROVE  LET vs == HeapPages(p) \cup {PROCSTACKVADDR, SWAPAREAVADDR}
                          pt == proc[p].pagetable
                      IN /\ \A v \in vs : Mapped(ram.mem, pt, v) /\ Walk(ram.mem, pt, v).attr = RW \cup U
                         /\ \A v, w \in vs : Walk(ram.mem, pt, v).pa = Walk(ram.mem, pt, w).pa => v = w
                         /\ Walk(ram.mem, pt, SWAPAREAVADDR).pa = proc[p].swaparea
                         /\ Walk(ram.mem, pt, PROCSTACKVADDR).pa = proc[p].stkbase
    BY DEF HeapBacked
  <2>2. HeapPages(p) \cup {PROCSTACKVADDR, SWAPAREAVADDR} = Vs(bound[p])
    BY DEF HeapPages, Vs
  <2>3. Space(ram.mem, proc[p].pagetable, proc[p].stkbase, proc[p].swaparea, bound[p])
    BY <2>1 DEF SpaceOf
  <2> QED BY <2>2, <2>3 DEF Space
<1> QED BY <1>1, SpecInv, PTL

-----------------------------------------------------------------------------
(* Blocks as cells of memory.                                              *)

Cell(m, root, a)    == <<Walk(m, root, a \div PAGE_SIZE).pa, a % PAGE_SIZE>>
CellsOf(m, root, b) == {Cell(m, root, a) : a \in Span(b)}
Keys(A, L)          == {<<x[1], x[2].base>> : x \in UNION {{<<p, b>> : b \in A[p]} : p \in L}}
OwnedIn(m, pr, A, L) ==
    [k \in Keys(A, L) |-> LET b == CHOOSE y \in A[k[1]] : y.base = k[2]
                          IN [asked |-> b.asked, cells |-> CellsOf(m, pr[k[1]].pagetable, b)]]
Unique(A) == \A b, c \in A : b.base = c.base => b = c

LEMMA OwnedIs ==
  /\ owned = OwnedIn(ram.mem, proc, alloc, Live)
  /\ owned' = OwnedIn(ram'.mem, proc', alloc', Live')
BY DEF owned, OwnedIn, Keys, Held, Cells, CellsOf, Cell

LEMMA KeysAre ==
  ASSUME NEW A, NEW L
  PROVE  \A k : k \in Keys(A, L) <=> \E p \in L : \E b \in A[p] : k = <<p, b.base>>
<1> DEFINE H == UNION {{<<p, b>> : b \in A[p]} : p \in L}
<1>1. \A x : x \in H <=> \E p \in L : \E b \in A[p] : x = <<p, b>>
  OBVIOUS
<1>2. \A k : k \in Keys(A, L) <=> \E x \in H : k = <<x[1], x[2].base>>
  BY DEF Keys
<1> HIDE DEF H
<1>3. \A p, b : <<p, b>>[1] = p /\ <<p, b>>[2] = b
  OBVIOUS
<1>4. ASSUME NEW k, k \in Keys(A, L) PROVE \E p \in L : \E b \in A[p] : k = <<p, b.base>>
  <2>1. PICK x \in H : k = <<x[1], x[2].base>>
    BY <1>2, <1>4
  <2>2. PICK p \in L : \E b \in A[p] : x = <<p, b>>
    BY <1>1
  <2>3. PICK b \in A[p] : x = <<p, b>>
    BY <2>2
  <2> QED BY <1>3, <2>1, <2>3
<1>5. ASSUME NEW p \in L, NEW b \in A[p] PROVE <<p, b.base>> \in Keys(A, L)
  <2>1. <<p, b>> \in H
    BY <1>1
  <2> QED BY <1>2, <1>3, <2>1
<1> QED BY <1>4, <1>5

LEMMA OwnedInFacts ==
  ASSUME NEW m, NEW pr, NEW A, NEW L, \A p \in L : Unique(A[p]), NEW o, o = OwnedIn(m, pr, A, L)
  PROVE  /\ DOMAIN o = Keys(A, L) /\ o = [k \in DOMAIN o |-> o[k]]
         /\ \A p \in L : \A b \in A[p] :
                /\ <<p, b.base>> \in DOMAIN o
                /\ o[<<p, b.base>>] = [asked |-> b.asked, cells |-> CellsOf(m, pr[p].pagetable, b)]
<1>1. DOMAIN o = Keys(A, L) /\ o = [k \in DOMAIN o |-> o[k]]
  BY DEF OwnedIn
<1>2. ASSUME NEW p \in L, NEW b \in A[p]
      PROVE  /\ <<p, b.base>> \in DOMAIN o
             /\ o[<<p, b.base>>] = [asked |-> b.asked, cells |-> CellsOf(m, pr[p].pagetable, b)]
  <2> DEFINE k == <<p, b.base>>
  <2>1. k \in Keys(A, L)
    BY KeysAre
  <2>2. (CHOOSE y \in A[k[1]] : y.base = k[2]) = b
    <3>1. k[1] = p /\ k[2] = b.base
      OBVIOUS
    <3>2. \A y \in A[p] : y.base = b.base => y = b
      BY DEF Unique
    <3> QED BY <3>1, <3>2
  <2>3. o[k] = [asked |-> b.asked, cells |-> CellsOf(m, pr[k[1]].pagetable, b)]
    BY <2>1, <2>2 DEF OwnedIn
  <2> QED BY <1>1, <2>1, <2>3
<1> QED BY <1>1, <1>2

\* Functions with the same values.
LEMMA SameFunction ==
  ASSUME NEW f, NEW g, f = [k \in DOMAIN f |-> f[k]], g = [k \in DOMAIN g |-> g[k]],
         DOMAIN f = DOMAIN g, \A k \in DOMAIN f : f[k] = g[k]
  PROVE  f = g
OBVIOUS

\* Blocks in use have addresses of their own, inside the heap.
LEMMA UsedApart ==
  ASSUME NEW h, NEW A, NEW X, Tiled(h, A, X)
  PROVE  /\ Unique(A) /\ A \subseteq UsedBlk
         /\ \A b \in A : b.base \in Span(b) /\ Span(b) \subseteq X
         /\ \A b, c \in A : b # c => Span(b) \cap Span(c) = {}
<1>1. A \subseteq UsedBlk /\ Apart(A) /\ Cover(A) \subseteq X
  BY DEF Tiled
<1>2. ASSUME NEW b \in A PROVE b.base \in Span(b) /\ Span(b) \subseteq X
  <2>1. /\ b.base \in Nat /\ b.len \in Nat /\ b.len = roundmb(b.asked)
        /\ b.asked \in Nat /\ b.asked >= 1
    BY <1>1, HeapNumbers DEF UsedBlk, MEMBLK
  <2>2. b.len >= 1
    BY <2>1, RoundBlocks
  <2>3. b.base \in Span(b)
    BY <2>1, <2>2 DEF Span, End
  <2> QED BY <1>1, <2>3 DEF Cover
<1>3. Unique(A)
  BY <1>1, <1>2 DEF Unique, Apart
<1> QED BY <1>1, <1>2, <1>3 DEF Apart

LEMMA HeapBlocks ==
  ASSUME HeapInv, Alive, NEW p \in Live
  PROVE  Tiled(mh[p], alloc[p], Heap(p)) /\ bound[p] \in Nat /\ bound[p] > PROCHEAPVADDR
BY DEF HeapInv, HeapOf, Live

\* A unit of the heap lies on a page of the heap.
LEMMA UnitPage ==
  ASSUME NEW c \in Nat, c > PROCHEAPVADDR, NEW a \in BASE .. c * PAGE_SIZE - 1
  PROVE  /\ a \div PAGE_SIZE \in Vs(c) /\ a % PAGE_SIZE \in Nat /\ a \div PAGE_SIZE \in Nat
         /\ a = PAGE_SIZE * (a \div PAGE_SIZE) + (a % PAGE_SIZE)
<1> DEFINE v == a \div PAGE_SIZE
           P == PAGE_SIZE
           H == PROCHEAPVADDR
<1>1. P \in Nat \ {0} /\ H \in Nat /\ H * P \in Nat /\ BASE = H * P + 4 /\ c * P \in Nat
  <2>1. P \in Nat \ {0} /\ H \in Nat
    BY HeapNumbers
  <2>2. H * P \in Nat /\ c * P \in Nat
    <3> HIDE DEF P, H
    <3> QED BY <2>1
  <2> QED BY <2>1, <2>2 DEF BASE, MEMHEAD
<1>2. a \in Nat /\ H * P <= a /\ a < c * P
  BY <1>1
<1>3. v \in Nat /\ a % P \in Nat /\ a % P < P /\ a = P * v + (a % P)
  <2> HIDE DEF P
  <2> QED BY <1>1, <1>2, DivFacts DEF P
<1>4. v < c /\ H <= v
  <2> DEFINE s == a % P
  <2>1. s \in Nat /\ s < P /\ a = P * v + s
    BY <1>3
  <2> HIDE DEF s, v, H, P
  <2>2. CASE v >= c
    <3>1. P * v >= P * c /\ P * c = c * P
      BY <1>1, <1>3, <2>2
    <3> QED BY <1>1, <1>2, <1>3, <2>1, <3>1
  <2>3. CASE v + 1 <= H
    <3>1. P * (v + 1) <= P * H /\ P * (v + 1) = P * v + P /\ P * H = H * P /\ P * v \in Nat
      BY <1>1, <1>3, <2>3
    <3> QED BY <1>1, <1>2, <1>3, <2>1, <3>1
  <2> QED BY <1>1, <1>3, <2>2, <2>3
<1>5. v \in Vs(c)
  <2> HIDE DEF v
  <2> QED BY <1>1, <1>3, <1>4 DEF Vs
<1> QED BY <1>3, <1>5

\* Every unit of a heap is a cell of its own, in a page of the process.
LEMMA CellsApart ==
  ASSUME NEW m, NEW root, NEW stk, NEW swp, NEW c \in Nat, c > PROCHEAPVADDR, Space(m, root, stk, swp, c)
  PROVE  \A a, d \in BASE .. c * PAGE_SIZE - 1 :
             /\ Cell(m, root, a) = Cell(m, root, d) => a = d
             /\ Cell(m, root, a)[1] \in Pages(m, root)
<1> SUFFICES ASSUME NEW a \in BASE .. c * PAGE_SIZE - 1, NEW d \in BASE .. c * PAGE_SIZE - 1
             PROVE  /\ Cell(m, root, a) = Cell(m, root, d) => a = d
                    /\ Cell(m, root, a)[1] \in Pages(m, root)
  OBVIOUS
<1>1. a \div PAGE_SIZE \in Vs(c) /\ a = PAGE_SIZE * (a \div PAGE_SIZE) + (a % PAGE_SIZE)
  BY UnitPage
<1>2. d \div PAGE_SIZE \in Vs(c) /\ d = PAGE_SIZE * (d \div PAGE_SIZE) + (d % PAGE_SIZE)
  BY UnitPage
<1> DEFINE v == a \div PAGE_SIZE
           w == d \div PAGE_SIZE
<1>3. Cell(m, root, a) = <<Walk(m, root, v).pa, a % PAGE_SIZE>>
      /\ Cell(m, root, d) = <<Walk(m, root, w).pa, d % PAGE_SIZE>>
  BY DEF Cell
<1>4. /\ v \in Vs(c) /\ a = PAGE_SIZE * v + (a % PAGE_SIZE)
      /\ w \in Vs(c) /\ d = PAGE_SIZE * w + (d % PAGE_SIZE)
  BY <1>1, <1>2
<1> HIDE DEF v, w
<1>5. Walk(m, root, v).pa = Walk(m, root, w).pa => v = w
  BY <1>4 DEF Space
<1>6. Walk(m, root, v).pa \in Pages(m, root)
  <2>1. Mapped(m, root, v) /\ Walk(m, root, v).attr = RW \cup U /\ Walk(m, root, v).pa \in Frames
    BY <1>4 DEF Space
  <2>2. Walk(m, root, v).pa \in Writ(m, root)
    BY <2>1, WalkWrit
  <2> QED BY <2>1, <2>2, VAddrs DEF Pages
<1>7. Cell(m, root, a) = Cell(m, root, d) => v = w /\ a % PAGE_SIZE = d % PAGE_SIZE
  BY <1>3, <1>5
<1> QED BY <1>3, <1>4, <1>6, <1>7

\* A block of n units is n cells.
LEMMA CellsCount ==
  ASSUME NEW m, NEW root, NEW b, IsFiniteSet(Span(b)),
         \A a, d \in Span(b) : Cell(m, root, a) = Cell(m, root, d) => a = d
  PROVE  Cardinality(CellsOf(m, root, b)) = Cardinality(Span(b))
<1> DEFINE S == Span(b)
           T == CellsOf(m, root, b)
           f == [a \in S |-> Cell(m, root, a)]
<1>1. f \in [S -> T] /\ \A t \in T : \E a \in S : f[a] = t
  BY DEF CellsOf
<1>2. IsInjective(f)
  BY DEF IsInjective
<1>3. f \in Bijection(S, T)
  BY <1>1, <1>2 DEF Bijection, Injection, Surjection
<1>4. ExistsBijection(S, T)
  BY <1>3 DEF ExistsBijection
<1> QED BY <1>4, FS_Bijection

\* The cells of a block stay when the process finds its pages where they were.
LEMMA CellsStay ==
  ASSUME HeapInv, Alive, NEW p \in Live, Kept(p), NEW b \in alloc[p]
  PROVE  CellsOf(ram'.mem, proc[p].pagetable, b) = CellsOf(ram.mem, proc[p].pagetable, b)
<1>1. /\ Tiled(mh[p], alloc[p], Heap(p)) /\ bound[p] \in Nat /\ bound[p] > PROCHEAPVADDR
  BY HeapBlocks
<1>2. Span(b) \subseteq BASE .. bound[p] * PAGE_SIZE - 1
  <2>1. Span(b) \subseteq Heap(p)
    BY <1>1, UsedApart
  <2> QED BY <2>1 DEF Heap
<1>3. ASSUME NEW a \in Span(b)
      PROVE  Cell(ram'.mem, proc[p].pagetable, a) = Cell(ram.mem, proc[p].pagetable, a)
  <2>1. a \div PAGE_SIZE \in Vs(bound[p])
    BY <1>1, <1>2, UnitPage
  <2> QED BY <2>1 DEF Kept, Cell
<1> QED BY <1>3 DEF CellsOf

-----------------------------------------------------------------------------
(* The steps, seen from AbsMemory.                                         *)

\* While the kernel lives blocks of a heap are told apart by their addresses.
LEMMA BlocksUnique ==
  ASSUME HeapInv, Alive
  PROVE  \A p \in Live : Unique(alloc[p])
BY HeapBlocks, UsedApart

\* The blocks of a step: every process that stays keeps its table.
SameTables == \A p \in Live \cap Live' : proc'[p].pagetable = proc[p].pagetable
\* What is entered for the blocks before and after, ...
Records(o, m, pr, A, L) ==
    /\ DOMAIN o = Keys(A, L) /\ o = [k \in DOMAIN o |-> o[k]]
    /\ \A p \in L : \A b \in A[p] :
           o[<<p, b.base>>] = [asked |-> b.asked, cells |-> CellsOf(m, pr[p].pagetable, b)]

LEMMA EnteredBefore ==
  ASSUME HeapInv, Alive
  PROVE  Records(owned, ram.mem, proc, alloc, Live)
<1>1. \A p \in Live : Unique(alloc[p])
  BY BlocksUnique
<1> DEFINE o == owned
<1>2. o = OwnedIn(ram.mem, proc, alloc, Live)
  BY OwnedIs
<1> HIDE DEF o
<1>3. Records(o, ram.mem, proc, alloc, Live)
  BY <1>1, <1>2, OwnedInFacts DEF Records
<1> QED BY <1>3 DEF o

LEMMA EnteredAfter ==
  ASSUME \A p \in Live' : Unique(alloc'[p])
  PROVE  Records(owned', ram'.mem, proc', alloc', Live')
<1> DEFINE o == owned'
<1>2. o = OwnedIn(ram'.mem, proc', alloc', Live')
  BY OwnedIs
<1> HIDE DEF o
<1>3. Records(o, ram'.mem, proc', alloc', Live')
  BY <1>2, OwnedInFacts DEF Records
<1> QED BY <1>3 DEF o

\* ... which is the same for a block that stays.
LEMMA BlockStays ==
  ASSUME HeapInv, Alive, PagesKept, SameTables, \A p \in Live' : Unique(alloc'[p]),
         NEW p \in Live \cap Live', NEW b \in alloc[p] \cap alloc'[p]
  PROVE  owned'[<<p, b.base>>] = owned[<<p, b.base>>]
<1>1. Kept(p)
  BY DEF PagesKept
<1>2. CellsOf(ram'.mem, proc[p].pagetable, b) = CellsOf(ram.mem, proc[p].pagetable, b)
  BY <1>1, CellsStay
<1>3. Records(owned, ram.mem, proc, alloc, Live)
  BY EnteredBefore
<1>4. Records(owned', ram'.mem, proc', alloc', Live')
  BY EnteredAfter
<1>5. proc'[p].pagetable = proc[p].pagetable
  BY DEF SameTables
<1>6. owned[<<p, b.base>>] = [asked |-> b.asked, cells |-> CellsOf(ram.mem, proc[p].pagetable, b)]
  BY <1>3 DEF Records
<1>7. owned'[<<p, b.base>>] = [asked |-> b.asked, cells |-> CellsOf(ram'.mem, proc'[p].pagetable, b)]
  BY <1>4 DEF Records
<1> QED BY <1>2, <1>5, <1>6, <1>7

\* No block comes or goes.
LEMMA BlocksSame ==
  ASSUME HeapInv, Alive, PagesKept, SameTables, Live \subseteq Live',
         \A p \in Live : alloc'[p] = alloc[p], \A p \in Live' \ Live : alloc'[p] = {}
  PROVE  owned' = owned
<1>1. \A p \in Live' : Unique(alloc'[p])
  BY BlocksUnique DEF Unique
<1>2. Records(owned, ram.mem, proc, alloc, Live)
  BY EnteredBefore
<1>3. Records(owned', ram'.mem, proc', alloc', Live')
  BY <1>1, EnteredAfter
<1>4. \A k : k \in Keys(alloc', Live') <=> k \in Keys(alloc, Live)
  <2>1. \A k : k \in Keys(alloc', Live') <=> \E p \in Live' : \E b \in alloc'[p] : k = <<p, b.base>>
    BY KeysAre
  <2>2. \A k : k \in Keys(alloc, Live) <=> \E p \in Live : \E b \in alloc[p] : k = <<p, b.base>>
    BY KeysAre
  <2> QED BY <2>1, <2>2
<1>5. DOMAIN owned' = DOMAIN owned
  BY <1>2, <1>3, <1>4 DEF Records
<1>6. ASSUME NEW k \in DOMAIN owned PROVE owned'[k] = owned[k]
  <2>1. PICK p \in Live : \E b \in alloc[p] : k = <<p, b.base>>
    BY <1>2, KeysAre DEF Records
  <2>2. PICK b \in alloc[p] : k = <<p, b.base>>
    BY <2>1
  <2>3. b \in alloc'[p] /\ p \in Live'
    BY <2>1
  <2> QED BY <1>1, <2>1, <2>2, <2>3, BlockStays
<1> DEFINE o == owned
           n == owned'
<1>7. o = [k \in DOMAIN o |-> o[k]] /\ n = [k \in DOMAIN n |-> n[k]] /\ DOMAIN n = DOMAIN o
      /\ \A k \in DOMAIN n : n[k] = o[k]
  BY <1>2, <1>3, <1>5, <1>6 DEF Records
<1> HIDE DEF o, n
<1>8. n = o
  BY <1>7, SameFunction
<1> QED BY <1>8 DEF o, n

\* Blocks go, others stay.
LEMMA BlocksGo ==
  ASSUME HeapInv, Alive, PagesKept, SameTables, Live' \subseteq Live,
         \A p \in Live' : alloc'[p] \subseteq alloc[p],
         NEW K, K \subseteq DOMAIN owned, \A k : k \in Keys(alloc', Live') <=> k \in K
  PROVE  owned' = Restrict(owned, K)
<1>1. \A p \in Live' : Unique(alloc'[p])
  BY BlocksUnique DEF Unique
<1>2. Records(owned, ram.mem, proc, alloc, Live)
  BY EnteredBefore
<1>3. Records(owned', ram'.mem, proc', alloc', Live')
  BY <1>1, EnteredAfter
<1>5. DOMAIN owned' = K
  BY <1>3 DEF Records
<1>6. ASSUME NEW k \in K PROVE owned'[k] = owned[k]
  <2>1. PICK p \in Live' : \E b \in alloc'[p] : k = <<p, b.base>>
    BY KeysAre
  <2>2. PICK b \in alloc'[p] : k = <<p, b.base>>
    BY <2>1
  <2>3. b \in alloc[p] /\ p \in Live
    BY <2>1
  <2> QED BY <1>1, <2>1, <2>2, <2>3, BlockStays
<1> DEFINE o == Restrict(owned, K)
           n == owned'
<1>7. n = [k \in DOMAIN n |-> n[k]] /\ DOMAIN n = K
  BY <1>3, <1>5 DEF Records
<1>8. o = [k \in K |-> owned[k]]
  BY DEF Restrict
<1>9. \A k \in K : n[k] = owned[k]
  BY <1>6
<1> HIDE DEF o, n
<1>10. n = o
  <2>1. o = [k \in DOMAIN o |-> o[k]] /\ DOMAIN o = K /\ \A k \in K : o[k] = owned[k]
    BY <1>8
  <2> QED BY <1>7, <1>9, <2>1, SameFunction
<1> QED BY <1>10 DEF o, n

-----------------------------------------------------------------------------
(* create(), kill(), free().                                               *)

\* A process is made with an empty heap.
LEMMA CreateAbs ==
  ASSUME HeapInv, PagesKept, NEW p \in Pids, Create(p)
  PROVE  owned' = owned
<1>1. Alive /\ p \notin Live /\ alloc' = alloc /\ DOMAIN proc = Pids /\ alloc[p] = {}
  BY DEF Create, create, HeapInv
<1>2. \A q \in Pids \ {p} : proc'[q] = proc[q]
  <2>1. proc' = proc \/ \E e : proc' = [proc EXCEPT ![p] = e]
    BY DEF Create, create
  <2> QED BY <1>1, <2>1
<1>3. Live \subseteq Live' /\ Live' \subseteq Live \cup {p} /\ SameTables
  BY <1>1, <1>2 DEF Live, SameTables
<1> QED BY <1>1, <1>3, BlocksSame

LEMMA CreateFailsAbs ==
  ASSUME HeapInv, PagesKept, createFails, UNCHANGED <<mh, alloc>>
  PROVE  owned' = owned
<1>1. Alive /\ alloc' = alloc /\ proc' = proc /\ Live' = Live
  BY DEF createFails, Live
<1> QED BY <1>1, BlocksSame DEF SameTables

LEMMA KillAbs ==
  ASSUME HeapInv, PagesKept, NEW p \in Pids, Kill(p)
  PROVE  Abs!Reap(p)
<1>1. /\ Alive /\ p \in Live /\ DOMAIN proc = Pids /\ DOMAIN alloc = Pids
      /\ proc' = [proc EXCEPT ![p] = NoProc] /\ alloc' = [alloc EXCEPT ![p] = {}]
  BY DEF Kill, kill, HeapInv
<1>2. Live' = Live \ {p} /\ \A q \in Live' : proc'[q] = proc[q] /\ alloc'[q] = alloc[q]
  BY <1>1 DEF Live, NoProc
<1> DEFINE K == {k \in DOMAIN owned : k[1] # p}
<1>3. DOMAIN owned = Keys(alloc, Live)
  BY <1>1, EnteredBefore DEF Records
<1>4. \A k : k \in Keys(alloc', Live') <=> k \in K
  <2>1. \A k : k \in Keys(alloc', Live') <=> \E q \in Live' : \E b \in alloc'[q] : k = <<q, b.base>>
    BY KeysAre
  <2>2. \A k : k \in Keys(alloc, Live) <=> \E q \in Live : \E b \in alloc[q] : k = <<q, b.base>>
    BY KeysAre
  <2>3. \A q, b : <<q, b>>[1] = q
    OBVIOUS
  <2>4. ASSUME NEW k, k \in Keys(alloc', Live') PROVE k \in K
    <3>1. PICK q \in Live' : \E b \in alloc'[q] : k = <<q, b.base>>
      BY <2>1, <2>4
    <3>2. q \in Live /\ q # p /\ alloc'[q] = alloc[q] /\ k[1] = q
      BY <1>2, <2>3, <3>1
    <3>3. k \in Keys(alloc, Live)
      BY <2>2, <3>1, <3>2
    <3> QED BY <1>3, <3>2, <3>3
  <2>5. ASSUME NEW k, k \in K PROVE k \in Keys(alloc', Live')
    <3>1. PICK q \in Live : \E b \in alloc[q] : k = <<q, b.base>>
      BY <1>3, <2>2, <2>5
    <3>2. q # p
      BY <2>3, <2>5, <3>1
    <3>3. q \in Live' /\ alloc'[q] = alloc[q]
      BY <1>2, <3>2
    <3> QED BY <2>1, <3>1, <3>3
  <2> QED BY <2>4, <2>5
<1>5. owned' = Restrict(owned, K)
  <2>1. K \subseteq DOMAIN owned /\ Live' \subseteq Live /\ SameTables
        /\ \A q \in Live' : alloc'[q] \subseteq alloc[q]
    BY <1>2 DEF SameTables
  <2> HIDE DEF K
  <2> QED BY <1>1, <1>4, <2>1, BlocksGo
<1> QED BY <1>5 DEF Abs!Reap, Abs!Restrict, Restrict

LEMMA FreeAbs ==
  ASSUME HeapInv, PagesKept, NEW p \in Pids, Free(p)
  PROVE  Abs!Release(p)
<1>1. /\ Alive /\ p \in Live /\ DOMAIN alloc = Pids /\ proc' = proc /\ Live' = Live
  BY DEF Free, Running, HeapInv, pagevars, Live
<1>2. PICK b \in alloc[p] : alloc' = [alloc EXCEPT ![p] = @ \ {b}]
  BY DEF Free
<1>3. alloc'[p] = alloc[p] \ {b} /\ \A q \in Live \ {p} : alloc'[q] = alloc[q]
  BY <1>1, <1>2 DEF Live
<1> DEFINE d == <<p, b.base>>
           K == DOMAIN owned \ {d}
<1>4. DOMAIN owned = Keys(alloc, Live)
  BY <1>1, EnteredBefore DEF Records
<1>5. Unique(alloc[p])
  BY <1>1, BlocksUnique
<1>6. \A k : k \in Keys(alloc', Live') <=> k \in K
  <2>1. \A k : k \in Keys(alloc', Live') <=> \E q \in Live' : \E c \in alloc'[q] : k = <<q, c.base>>
    BY KeysAre
  <2>2. \A k : k \in Keys(alloc, Live) <=> \E q \in Live : \E c \in alloc[q] : k = <<q, c.base>>
    BY KeysAre
  <2>3. \A q, x, y, z : <<q, x>> = <<y, z>> <=> q = y /\ x = z
    OBVIOUS
  <2>4. \A c \in alloc[p] : c.base = b.base <=> c = b
    BY <1>5 DEF Unique
  <2>5. ASSUME NEW k, k \in Keys(alloc', Live') PROVE k \in K
    <3>1. PICK q \in Live' : \E c \in alloc'[q] : k = <<q, c.base>>
      BY <2>1, <2>5
    <3>2. PICK c \in alloc'[q] : k = <<q, c.base>>
      BY <3>1
    <3>3. q \in Live /\ c \in alloc[q] /\ (q = p => c # b)
      BY <1>1, <1>3, <3>1
    <3>4. k # d
      BY <2>3, <2>4, <3>2, <3>3
    <3>5. k \in Keys(alloc, Live)
      BY <2>2, <3>2, <3>3
    <3> QED BY <1>4, <3>4, <3>5
  <2>6. ASSUME NEW k, k \in K PROVE k \in Keys(alloc', Live')
    <3>1. PICK q \in Live : \E c \in alloc[q] : k = <<q, c.base>>
      BY <1>4, <2>2, <2>6
    <3>2. PICK c \in alloc[q] : k = <<q, c.base>>
      BY <3>1
    <3>3. c \in alloc'[q]
      BY <1>3, <2>6, <3>1, <3>2
    <3> QED BY <1>1, <2>1, <3>2, <3>3
  <2> QED BY <2>5, <2>6
<1>7. owned' = Restrict(owned, K)
  <2>1. K \subseteq DOMAIN owned /\ Live' \subseteq Live /\ SameTables
        /\ \A q \in Live' : alloc'[q] \subseteq alloc[q]
    BY <1>1, <1>3 DEF SameTables
  <2> HIDE DEF K
  <2> QED BY <1>1, <1>6, <2>1, BlocksGo
<1>8. d \in DOMAIN owned /\ d[1] = p
  BY <1>1, <1>4, KeysAre
<1> HIDE DEF d
<1>9. owned' = Restrict(owned, DOMAIN owned \ {d})
  BY <1>7
<1> QED BY <1>8, <1>9 DEF Abs!Release, Abs!Restrict, Restrict

\* A block that getmem() gives begins where no block in use is.
LEMMA NewBlock ==
  ASSUME HeapInv, PageInv, NEW p \in Pids, Running(p),
         NEW nb \in 1 .. UINT - PAGE_SIZE - MEMBLK, getmem(p, nb)
  PROVE  \/ alloc' = alloc
         \/ Alive' /\ \E base : /\ base \notin Cover(alloc[p])
                                /\ alloc' = [alloc EXCEPT ![p] = @ \cup
                                                 {[base |-> base, len |-> roundmb(nb), asked |-> nb]}]
<1> DEFINE n == uint(roundmb(uint(nb)))
           h == mh[p]
           i == Min(Fits(h.free, n))
           q == roundup(n, PAGE_SIZE) \div PAGE_SIZE
           x == incheap(p, q)
           F == ToSet(h.free)
           blk(base) == [base |-> base, len |-> n, asked |-> nb]
<1>1. Alive /\ p \in Live /\ Tiled(h, alloc[p], Heap(p)) /\ bound[p] \in Nat
  BY HeapBlocks DEF Running
<1>2. Holds(h, F) /\ Cover(F) \cap Cover(alloc[p]) = {} /\ Cover(alloc[p]) \subseteq Heap(p)
  BY <1>1 DEF Tiled
<1>0. n = roundmb(nb) /\ uint(nb) # 0
  <2>1. uint(nb) # 0
    BY HeapNumbers DEF uint, MEMBLK
  <2> QED BY <2>1, RoundBlocks
<1>3. CASE Fits(h.free, n) # {}
  <2>1. ram' = ram /\ alloc' = [alloc EXCEPT ![p] = @ \cup {blk(h.free[i].base)}]
    BY <1>0, <1>3 DEF getmem, Keep, n
  <2>2. DOMAIN h.free = 1 .. Len(h.free) /\ Len(h.free) \in Nat /\ F \subseteq FreeBlk
        /\ (\A j \in DOMAIN h.free : h.free[j] \in F) /\ \A b \in F : Span(b) \subseteq Cover(F)
    BY <1>2, HoldsFacts
  <2>3. h.free[i] \in F
    <3> DEFINE S == Fits(h.free, n)
    <3>1. S \in SUBSET Nat /\ S # {} /\ S \subseteq DOMAIN h.free
      BY <1>3, <2>2 DEF Fits
    <3>2. \E j \in S : \A k \in S : j =< k
      <4> HIDE DEF S
      <4> QED BY <3>1, LeastMember
    <3>3. Min(S) \in S
      <4> HIDE DEF S
      <4> QED BY <3>2 DEF Min
    <3> QED BY <2>2, <3>1, <3>3
  <2> HIDE DEF i, F
  <2>4. h.free[i].base \in Cover(F)
    <3>1. h.free[i].base \in Span(h.free[i])
      BY <2>2, <2>3, FreeSpan
    <3> QED BY <2>2, <2>3, <3>1
  <2>5. h.free[i].base \notin Cover(alloc[p])
    BY <1>2, <2>4
  <2> QED BY <1>0, <1>1, <2>1, <2>5 DEF Alive
<1>4. CASE Fits(h.free, n) = {}
  <2>1. CASE ~ x.ok
    BY <1>0, <1>4, <2>1 DEF getmem, n
  <2>2. CASE x.ok
    <3>1. /\ ram' = x.ram /\ alloc' = [alloc EXCEPT ![p] = @ \cup {blk(x.vtop * PAGE_SIZE)}]
      BY <1>0, <1>4, <2>2 DEF getmem, Keep, n
    <3>2. x.vtop = bound[p] /\ ~ x.ram.wild
      BY <2>2 DEF incheap
    <3> HIDE DEF x
    <3>3. bound[p] * PAGE_SIZE \notin Heap(p)
      <4>1. bound[p] * PAGE_SIZE \in Nat
        BY <1>1, HeapNumbers
      <4> QED BY <4>1 DEF Heap
    <3> QED BY <1>0, <1>2, <3>1, <3>2, <3>3 DEF Alive
  <2> QED BY <2>1, <2>2
<1> QED BY <1>3, <1>4

\* The cells of two blocks are different cells.
LEMMA TwoBlocks ==
  ASSUME HeapInv', PageInv', Alive', NEW p \in Live', NEW q \in Live',
         NEW a \in alloc'[p], NEW b \in alloc'[q], p # q \/ a # b
  PROVE  CellsOf(ram'.mem, proc'[p].pagetable, a) \cap CellsOf(ram'.mem, proc'[q].pagetable, b) = {}
<1> DEFINE m == ram'.mem
           r(x) == proc'[x].pagetable
           c(x) == bound'[x]
<1>1. ASSUME NEW x \in Live'
      PROVE  /\ Tiled(mh'[x], alloc'[x], Heap(x)') /\ bound'[x] \in Nat /\ bound'[x] > PROCHEAPVADDR
             /\ Space(m, r(x), proc'[x].stkbase, proc'[x].swaparea, bound'[x])
  BY <1>1 DEF HeapInv, HeapOf, Live, PageInv, Owned, SpaceOf
<1>2. ASSUME NEW x \in Live', NEW d \in alloc'[x]
      PROVE  Span(d) \subseteq BASE .. bound'[x] * PAGE_SIZE - 1
  <2>1. Tiled(mh'[x], alloc'[x], Heap(x)')
    BY <1>1
  <2>2. Span(d) \subseteq Heap(x)'
    BY <2>1, UsedApart
  <2> QED BY <2>2 DEF Heap
<1>3. ASSUME NEW x \in Live'
      PROVE  \A u, v \in BASE .. bound'[x] * PAGE_SIZE - 1 :
                 /\ Cell(m, r(x), u) = Cell(m, r(x), v) => u = v
                 /\ Cell(m, r(x), u)[1] \in Pages(m, r(x))
  <2> DEFINE k == bound'[x]
             root == r(x)
  <2>1. k \in Nat /\ k > PROCHEAPVADDR /\ Space(m, root, proc'[x].stkbase, proc'[x].swaparea, k)
    BY <1>1, <1>3
  <2> HIDE DEF k, root, m
  <2>2. \A u, v \in BASE .. k * PAGE_SIZE - 1 :
            /\ Cell(m, root, u) = Cell(m, root, v) => u = v
            /\ Cell(m, root, u)[1] \in Pages(m, root)
    BY <2>1, CellsApart
  <2> QED BY <2>2 DEF k, root
<1>4. SUFFICES ASSUME NEW u \in Span(a), NEW v \in Span(b)
               PROVE  Cell(m, r(p), u) # Cell(m, r(q), v)
  BY DEF CellsOf
<1>5. CASE p # q
  <2>1. Pages(m, r(p)) \cap Pages(m, r(q)) = {}
    BY <1>5 DEF PageInv, Owned, PagesFor
  <2>2. Cell(m, r(p), u)[1] \in Pages(m, r(p)) /\ Cell(m, r(q), v)[1] \in Pages(m, r(q))
    BY <1>2, <1>3
  <2> HIDE DEF m, r
  <2> QED BY <2>1, <2>2
<1>6. CASE p = q /\ a # b
  <2>1. Tiled(mh'[p], alloc'[p], Heap(p)')
    BY <1>1
  <2>2. Span(a) \cap Span(b) = {}
    BY <1>6, <2>1, UsedApart
  <2> QED BY <1>2, <1>3, <1>6, <2>2
<1> QED BY <1>5, <1>6

LEMMA GetmemAbs ==
  ASSUME HeapInv, PageInv, HeapInv', PageInv', PagesKept, NEW p \in Pids, Running(p),
         NEW nb \in 1 .. UINT - PAGE_SIZE - MEMBLK, getmem(p, nb), UNCHANGED proc
  PROVE  owned' = owned \/ Abs!Allocate(p)
<1>1. Alive /\ p \in Live /\ proc' = proc /\ Live' = Live /\ DOMAIN alloc = Pids /\ SameTables
  BY DEF Running, Live, HeapInv, SameTables
<1>2. CASE alloc' = alloc
  BY <1>1, <1>2, BlocksSame
<1>3. CASE alloc' # alloc
  <2>1. Alive' /\ \E base : /\ base \notin Cover(alloc[p])
                            /\ alloc' = [alloc EXCEPT ![p] = @ \cup
                                             {[base |-> base, len |-> roundmb(nb), asked |-> nb]}]
    BY <1>3, NewBlock
  <2>2. PICK base : /\ base \notin Cover(alloc[p])
                    /\ alloc' = [alloc EXCEPT ![p] = @ \cup {[base |-> base, len |-> roundmb(nb), asked |-> nb]}]
    BY <2>1
  <2> DEFINE a == [base |-> base, len |-> roundmb(nb), asked |-> nb]
             k == <<p, a.base>>
  <2>3. a.base = base /\ a.len = roundmb(nb) /\ a.asked = nb
    OBVIOUS
  <2>4. alloc'[p] = alloc[p] \cup {a} /\ \A q \in Live \ {p} : alloc'[q] = alloc[q]
    BY <1>1, <2>2 DEF Live
  <2> HIDE DEF a
  <2>5. Tiled(mh'[p], alloc'[p], Heap(p)')
    BY <1>1, <2>1 DEF HeapInv, HeapOf, Live
  <2>6. /\ a.base \in Span(a) /\ Span(a) \subseteq Heap(p)' /\ Unique(alloc'[p]) /\ a \in alloc'[p]
        /\ a \in UsedBlk
    BY <2>4, <2>5, UsedApart
  <2>7. \A b \in alloc[p] : b.base # a.base
    <3>1. ASSUME NEW b \in alloc[p] PROVE b.base \in Cover(alloc[p])
      <4>1. b.base \in Span(b)
        BY <2>4, <2>5, UsedApart
      <4> QED BY <4>1 DEF Cover
    <3> QED BY <2>2, <2>3, <3>1
  <2>8. \A q \in Live' : Unique(alloc'[q])
    BY <1>1, <2>4, <2>6, BlocksUnique
  <2>9. Records(owned, ram.mem, proc, alloc, Live)
    BY <1>1, EnteredBefore
  <2>10. Records(owned', ram'.mem, proc', alloc', Live')
    BY <2>8, EnteredAfter
  <2>11. k \in DOMAIN owned' /\ k \notin DOMAIN owned /\ DOMAIN owned' = DOMAIN owned \cup {k}
         /\ k[1] = p
    <3>1. \A j : j \in Keys(alloc', Live') <=> \E q \in Live' : \E b \in alloc'[q] : j = <<q, b.base>>
      BY KeysAre
    <3>2. \A j : j \in Keys(alloc, Live) <=> \E q \in Live : \E b \in alloc[q] : j = <<q, b.base>>
      BY KeysAre
    <3>3. \A q, y, z, w : <<q, y>> = <<z, w>> <=> q = z /\ y = w
      OBVIOUS
    <3>4. k \in Keys(alloc', Live')
      BY <1>1, <2>6, <3>1
    <3>5. k \notin Keys(alloc, Live)
      BY <2>7, <3>2, <3>3
    <3>6. ASSUME NEW j, j \in Keys(alloc', Live') PROVE j \in Keys(alloc, Live) \cup {k}
      <4>1. PICK q \in Live' : \E b \in alloc'[q] : j = <<q, b.base>>
        BY <3>1, <3>6
      <4>2. PICK b \in alloc'[q] : j = <<q, b.base>>
        BY <4>1
      <4>3. CASE q = p /\ b = a
        BY <4>2, <4>3
      <4>4. CASE b \in alloc[q]
        BY <1>1, <3>2, <4>1, <4>2, <4>4
      <4> QED BY <1>1, <2>4, <4>1, <4>2, <4>3, <4>4
    <3>7. ASSUME NEW j, j \in Keys(alloc, Live) PROVE j \in Keys(alloc', Live')
      <4>1. PICK q \in Live : \E b \in alloc[q] : j = <<q, b.base>>
        BY <3>2, <3>7
      <4>2. alloc[q] \subseteq alloc'[q]
        BY <2>4, <4>1
      <4> QED BY <1>1, <3>1, <4>1, <4>2
    <3>8. k[1] = p
      OBVIOUS
    <3> HIDE DEF k
    <3> QED BY <2>9, <2>10, <3>4, <3>5, <3>6, <3>7, <3>8 DEF Records
  <2>12. ASSUME NEW j \in DOMAIN owned
         PROVE  /\ owned'[j] = owned[j]
                /\ \E q \in Live' : \E b \in alloc[q] :
                       /\ b \in alloc'[q] /\ (q = p => b # a)
                       /\ owned'[j].cells = CellsOf(ram'.mem, proc'[q].pagetable, b)
    <3>1. PICK q \in Live : \E b \in alloc[q] : j = <<q, b.base>>
      BY <2>9, KeysAre DEF Records
    <3>2. PICK b \in alloc[q] : j = <<q, b.base>>
      BY <3>1
    <3>3. b \in alloc'[q] /\ (q = p => b # a) /\ q \in Live'
      BY <1>1, <2>4, <2>7, <3>1
    <3>4. owned'[j] = owned[j]
      BY <1>1, <2>8, <3>2, <3>3, BlockStays
    <3>5. owned'[j].cells = CellsOf(ram'.mem, proc'[q].pagetable, b)
      <4> DEFINE C == CellsOf(ram'.mem, proc'[q].pagetable, b)
      <4>1. owned'[j] = [asked |-> b.asked, cells |-> C]
        BY <2>10, <3>2, <3>3 DEF Records
      <4> HIDE DEF C
      <4>2. owned'[j].cells = C
        BY <4>1
      <4> QED BY <4>2 DEF C
    <3> QED BY <3>3, <3>4, <3>5
  <2> DEFINE C == CellsOf(ram'.mem, proc'[p].pagetable, a)
  <2>13. owned'[k].cells = C /\ owned'[k].asked = nb
    <3>1. owned'[k] = [asked |-> a.asked, cells |-> C]
      BY <1>1, <2>6, <2>10 DEF Records
    <3> HIDE DEF C, k
    <3> QED BY <2>3, <3>1
  <2>14. Cardinality(owned'[k].cells) >= owned'[k].asked
    <3>1. /\ bound'[p] \in Nat /\ bound'[p] > PROCHEAPVADDR
          /\ Space(ram'.mem, proc'[p].pagetable, proc'[p].stkbase, proc'[p].swaparea, bound'[p])
      BY <1>1, <2>1 DEF HeapInv, HeapOf, Live, PageInv, Owned, SpaceOf
    <3> DEFINE m == ram'.mem
               root == proc'[p].pagetable
               c == bound'[p]
    <3>2. c \in Nat /\ c > PROCHEAPVADDR /\ Space(m, root, proc'[p].stkbase, proc'[p].swaparea, c)
          /\ Span(a) \subseteq BASE .. c * PAGE_SIZE - 1
      BY <2>6, <3>1 DEF Heap
    <3> HIDE DEF m, root, c
    <3>3. \A u, v \in Span(a) : Cell(m, root, u) = Cell(m, root, v) => u = v
      BY <3>2, CellsApart
    <3>4. nb \in Nat /\ roundmb(nb) \in Nat /\ nb <= roundmb(nb) /\ a.base \in Nat
      <4>1. nb \in Nat
        OBVIOUS
      <4> QED BY <2>6, <4>1, RoundBlocks DEF UsedBlk
    <3>5. Span(a) = a.base .. a.base + roundmb(nb) - 1
      <4> DEFINE len == roundmb(nb)
                 at  == a.base
      <4>1. a.base = at /\ a.len = len /\ at \in Nat /\ len \in Nat
        BY <2>3, <3>4
      <4> HIDE DEF len, at
      <4>2. Span(a) = at .. at + len - 1
        BY <4>1, SpanIs
      <4> QED BY <4>2 DEF len, at
    <3>6. IsFiniteSet(Span(a)) /\ Cardinality(Span(a)) = roundmb(nb)
      BY <3>4, <3>5, UnitsBetween
    <3>7. Cardinality(CellsOf(m, root, a)) = roundmb(nb)
      BY <3>3, <3>6, CellsCount
    <3>8. Cardinality(C) = roundmb(nb)
      BY <3>7 DEF m, root
    <3> QED BY <2>13, <3>4, <3>8
  <2>15. owned'[k].cells \cap Abs!CellsIn = {}
    <3> SUFFICES ASSUME NEW j \in DOMAIN owned PROVE C \cap owned[j].cells = {}
      BY <2>13 DEF Abs!CellsIn
    <3>1. PICK q \in Live' : \E b \in alloc[q] :
                       /\ b \in alloc'[q] /\ (q = p => b # a)
                       /\ owned'[j].cells = CellsOf(ram'.mem, proc'[q].pagetable, b)
      BY <2>12
    <3>2. PICK b \in alloc[q] : /\ b \in alloc'[q] /\ (q = p => b # a)
                                /\ owned'[j].cells = CellsOf(ram'.mem, proc'[q].pagetable, b)
      BY <3>1
    <3>3. C \cap CellsOf(ram'.mem, proc'[q].pagetable, b) = {}
      BY <1>1, <2>1, <2>6, <3>2, TwoBlocks
    <3> QED BY <2>12, <3>2, <3>3
  <2> DEFINE f == [j \in DOMAIN owned \cup {k} |-> IF j = k THEN owned'[k] ELSE owned[j]]
             o == owned'
  <2>16. owned' = f
    <3>1. o = [j \in DOMAIN o |-> o[j]] /\ f = [j \in DOMAIN f |-> f[j]] /\ DOMAIN o = DOMAIN f
      BY <2>10, <2>11 DEF Records
    <3>2. \A j \in DOMAIN o : o[j] = f[j]
      BY <2>11, <2>12
    <3> HIDE DEF o, f
    <3>3. o = f
      BY <3>1, <3>2, SameFunction
    <3> QED BY <3>3 DEF o
  <2> HIDE DEF k
  <2>17. k \in DOMAIN owned' \ DOMAIN owned
    BY <2>11
  <2>18. owned' = [j \in DOMAIN owned \cup {k} |-> IF j = k THEN owned'[k] ELSE owned[j]]
    BY <2>16
  <2> HIDE DEF f, o, C
  <2>19. \E z \in DOMAIN owned' \ DOMAIN owned :
             /\ z[1] = p
             /\ owned' = [j \in DOMAIN owned \cup {z} |-> IF j = z THEN owned'[z] ELSE owned[j]]
             /\ Cardinality(owned'[z].cells) >= owned'[z].asked
             /\ owned'[z].cells \cap Abs!CellsIn = {}
    <3> WITNESS k \in DOMAIN owned' \ DOMAIN owned
    <3> QED BY <2>11, <2>14, <2>15, <2>18
  <2>20. \A S : Abs!Cardinality(S) = Cardinality(S)
    BY Zenon DEF Abs!Cardinality, Cardinality
  <2> QED BY <2>19, <2>20 DEF Abs!Allocate
<1> QED BY <1>2, <1>3

\* For any processes, layout of memory and sizes that do not wrap in getmem.c:34
\* (NoWrap; with one that does it is false): the blocks a process has are
\* pieces of memory that stay where they are, as large as was asked for and never
\* shared, whatever is allocated, given back, mapped or left behind (getmem(),
\* freemem(), incheap(), mapPage(), create(), kill()).
THEOREM ImplementsMemory == ASSUME NoWrap PROVE Spec => MemorySpec
<1>1. Init => Abs!MemoryInit
  <2> SUFFICES ASSUME Init PROVE owned = <<>>
    BY DEF Abs!MemoryInit
  <2>1. Live = {}
    BY DEF Init, PInit, Live, NoProc
  <2>2. DOMAIN owned = {}
    BY <2>1 DEF owned, Held
  <2> QED BY <2>1 DEF owned, Held
<1>2. HeapInv /\ HeapInv' /\ PageInv /\ PageInv' /\ [Next]_vars => [Abs!MemoryNext]_owned
  <2> SUFFICES ASSUME HeapInv, HeapInv', PageInv, PageInv', [Next]_vars
               PROVE  Abs!MemoryNext \/ owned' = owned
    OBVIOUS
  <2>1. Next => PagesKept
    BY NextPageInv
  <2>2. CASE createFails /\ UNCHANGED <<mh, alloc>>
    BY <2>1, <2>2, CreateFailsAbs DEF Next
  <2>3. ASSUME NEW p \in Pids, Create(p) PROVE owned' = owned
    BY <2>1, <2>3, CreateAbs DEF Next
  <2>4. ASSUME NEW p \in Pids, Kill(p) PROVE Abs!MemoryNext
    BY <2>1, <2>4, KillAbs DEF Next, Abs!MemoryNext
  <2>5. ASSUME NEW p \in Pids, Free(p) PROVE Abs!MemoryNext
    BY <2>1, <2>5, FreeAbs DEF Next, Abs!MemoryNext
  <2>6. ASSUME NEW p \in Pids, NEW size \in SIZES, Getmem(p, size)
        PROVE  Abs!MemoryNext \/ owned' = owned
    <3>1. Running(p) /\ getmem(p, size) /\ UNCHANGED proc /\ PagesKept
      BY <2>1, <2>6 DEF Getmem, Next
    <3>2. size \in 1 .. UINT - PAGE_SIZE - MEMBLK
      BY SizesFit
    <3> QED BY <3>1, <3>2, GetmemAbs DEF Abs!MemoryNext
  <2>7. ASSUME NEW p \in Pids, NEW size \in SIZES, Malloc(p, size)
        PROVE  Abs!MemoryNext \/ owned' = owned
    <3> DEFINE nb == MEMBLK + size
    <3>1. Running(p) /\ getmem(p, nb) /\ UNCHANGED proc /\ PagesKept
      BY <2>1, <2>7 DEF Malloc, Next
    <3>2. nb \in 1 .. UINT - PAGE_SIZE - MEMBLK
      BY SizesFit
    <3> HIDE DEF nb
    <3> QED BY <3>1, <3>2, GetmemAbs DEF Abs!MemoryNext
  <2>8. CASE UNCHANGED vars
    BY <2>8 DEF vars, pagevars, owned, Held, Live, Cells
  <2> QED BY <2>2, <2>3, <2>4, <2>5, <2>6, <2>7, <2>8 DEF Next
<1> QED BY <1>1, <1>2, SpecInv, PTL DEF Spec, MemorySpec, Abs!MemorySpec
=============================================================================
