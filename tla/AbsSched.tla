------------------------------ MODULE AbsSched ------------------------------
(***************************************************************************)
(* What a round-robin scheduler promises, without tables or links: one     *)
(* process runs, the ready ones wait in a sequence and are served from its *)
(* front, the suspended ones wait for nobody in particular.                *)
(***************************************************************************)
EXTENDS Sequences, Naturals

CONSTANTS Procs,        \* the process identifiers
          Main,         \* the process the system boots as
          NoProc        \* what runs when nothing can

VARIABLES run,          \* the running process
          rq,           \* the ready processes, next to run first
          parked        \* the processes that are neither

absvars == <<run, rq, parked>>

Waiting == {rq[i] : i \in DOMAIN rq}

\* s with its i-th element taken out.
Without(s, i) == [j \in 1 .. Len(s) - 1 |-> IF j < i THEN s[j] ELSE s[j + 1]]

AbsInit == run = Main /\ rq = <<>> /\ parked = {}

\* The processor goes to the front of s, which becomes the new ready sequence.
Serve(s) ==
    IF s = <<>> THEN run' = NoProc /\ rq' = <<>>
    ELSE run' = Head(s) /\ rq' = Tail(s)

Admit(p) == /\ p \notin Waiting \cup parked \cup {run}
            /\ parked' = parked \cup {p}
            /\ UNCHANGED <<run, rq>>

Wake(p)  == /\ p \in parked
            /\ parked' = parked \ {p}
            /\ \/ rq' = Append(rq, p) /\ UNCHANGED run
               \/ Serve(rq \o <<p, run>>)

Yield    == Serve(Append(rq, run)) /\ UNCHANGED parked

Exit     == Serve(rq) /\ UNCHANGED parked

Destroy(p) == /\ \/ p \in parked /\ parked' = parked \ {p} /\ UNCHANGED rq
                 \/ \E i \in DOMAIN rq : /\ rq[i] = p /\ rq' = Without(rq, i)
                                       /\ UNCHANGED parked
              /\ UNCHANGED run

AbsNext == /\ run \in Procs
           /\ \/ \E p \in Procs : Admit(p) \/ Wake(p) \/ Destroy(p)
              \/ Yield
              \/ Exit

AbsSpec == AbsInit /\ [][AbsNext]_absvars
=============================================================================
