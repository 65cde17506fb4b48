\* A table of 4 slots and 5 stacks: main can run out of either before the null
\* process is created.  The system stops when it has nothing to run.
CONSTANTS
  NPROC = 4
  NSTK = 5
  MaxCreate = 5
SPECIFICATION FairSpec
INVARIANTS ReadyIffListed ReadyLinked NumprocExact AlwaysEligible IInv
PROPERTIES RoundRobin Served
CHECK_DEADLOCK FALSE
