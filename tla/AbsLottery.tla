----------------------------- MODULE AbsLottery -----------------------------
(***************************************************************************)
(* What a lottery scheduler promises when the draw is left open: the       *)
(* processor always goes to one of the processes that are ready, the one   *)
(* giving it up included when it stays ready.  There is no queue.          *)
(***************************************************************************)
CONSTANTS Procs,        \* the process identifiers
          Main,         \* the process the system boots as
          NoProc        \* what runs when nothing can

VARIABLES run,          \* the running process
          runnable,        \* the processes that could run
          parked        \* the suspended processes

absvars == <<run, runnable, parked>>

AbsInit == run = Main /\ runnable = {} /\ parked = {}

\* Someone of s gets the processor, the rest of s stays ready.
Draw(s) == /\ IF s = {} THEN run' = NoProc ELSE run' \in s
           /\ runnable' = s \ {run'}

Admit(p) == /\ p \notin runnable \cup parked \cup {run}
            /\ parked' = parked \cup {p}
            /\ UNCHANGED <<run, runnable>>

Wake(p)  == /\ p \in parked
            /\ parked' = parked \ {p}
            /\ \/ runnable' = runnable \cup {p} /\ UNCHANGED run
               \/ Draw(runnable \cup {p, run})

Yield    == Draw(runnable \cup {run}) /\ UNCHANGED parked

Exit     == Draw(runnable) /\ UNCHANGED parked

Destroy(p) == /\ p \in runnable \cup parked
              /\ runnable' = runnable \ {p}
              /\ parked' = parked \ {p}
              /\ UNCHANGED run

AbsNext == /\ run \in Procs
           /\ \/ \E p \in Procs : Admit(p) \/ Wake(p) \/ Destroy(p)
              \/ Yield
              \/ Exit

AbsSpec == AbsInit /\ [][AbsNext]_absvars
=============================================================================
