------------------------------ MODULE AbsPool -------------------------------
(***************************************************************************)
(* What a persistent pool of disk blocks promises its callers.  A block is *)
(* available, in use, or in the hands of a call that is moving it from one *)
(* to the other.  A call takes nothing only when nothing is available, and *)
(* a restart settles what was in hand and touches nothing else.            *)
(***************************************************************************)
EXTENDS Integers

CONSTANTS Procs, Blocks,
          Empty,        \* a hand that holds nothing
          Refused       \* the answer of a call that got no block

VARIABLES avail, used,
          hand          \* of every process: a block, Empty or Refused

poolvars == <<avail, used, hand>>

PoolInit == avail = Blocks /\ used = {} /\ hand = [p \in Procs |-> Empty]

Hold(p, x) == hand[p] = Empty /\ hand' = [hand EXCEPT ![p] = x]
Open(p)    == hand[p] # Empty /\ hand' = [hand EXCEPT ![p] = Empty]

Take(p)   == /\ \E b \in avail : Hold(p, b) /\ avail' = avail \ {b}
             /\ UNCHANGED used
Refuse(p) == avail = {} /\ Hold(p, Refused) /\ UNCHANGED <<avail, used>>
Give(p)   == /\ \E b \in used : Hold(p, b) /\ used' = used \ {b}
             /\ UNCHANGED avail
\* The call is over: the block is in use, or available again.
Deliver(p) == /\ Open(p)
              /\ \/ hand[p] = Refused /\ UNCHANGED <<avail, used>>
                 \/ hand[p] \in Blocks /\ used' = used \cup {hand[p]} /\ UNCHANGED avail
                 \/ hand[p] \in Blocks /\ avail' = avail \cup {hand[p]} /\ UNCHANGED used

Settle == /\ hand' = [p \in Procs |-> Empty]
          /\ avail \subseteq avail' /\ used \subseteq used'
          /\ avail' \cup used' = Blocks /\ avail' \cap used' = {}

PoolNext == Settle \/ \E p \in Procs : Take(p) \/ Refuse(p) \/ Give(p) \/ Deliver(p)

PoolSpec == PoolInit /\ [][PoolNext]_poolvars
=============================================================================
