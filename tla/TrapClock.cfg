CONSTANTS
  Procs = {p1, p2}
  Loop = 3
  Words = 8
  Clock = TRUE
  SharedStack = FALSE
SPECIFICATION Spec
INVARIANT ClockTransparent
