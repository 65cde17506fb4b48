\* Three slots and four stacks: main can run out of either.  With RANDMAX = 5
\* the tickets of the ready processes can exceed the range of random().
CONSTANTS
  NPROC = 3
  NSTK = 4
  MaxCreate = 4
  Priorities = {1, 3}
  RANDMAX = 5
  QUANTUM = 2
SPECIFICATION FairSpec
INVARIANTS LinksInTable DrawSucceeds EveryTicketCounts LotteryInv
PROPERTIES DrawsAmongReady QuantumEnds
CHECK_DEADLOCK FALSE
