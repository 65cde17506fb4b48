\* The kernel of stage 8, with the clock of stage 6 switched on.
CONSTANTS
  Procs = {p1, p2, p3}
  Loop = 3
  Words = 1
  Clock = TRUE
  SharedStack = FALSE
SPECIFICATION Spec
INVARIANTS RegistersKept SyscallReturnsNext TrapInv
