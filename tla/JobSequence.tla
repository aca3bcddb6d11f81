----------------------------- MODULE JobSequence -----------------------------
(***************************************************************************)
(* What the execution queue promises: jobs begin one at a time, in the     *)
(* order in which they were submitted, and each at most once.  A job is    *)
(* over when it has ended or has been cancelled; a cancelled job counts as *)
(* over although its function may still run.                               *)
(***************************************************************************)
EXTENDS Naturals

CONSTANT MaxJobs

VARIABLES
  submitted,     \* jobs are numbered in the order of submission
  running,       \* the job that runs, or 0
  over

seqVars == <<submitted, running, over>>

Pending == (1 .. submitted) \ (over \cup {running})

SeqInit == submitted = 0 /\ running = 0 /\ over = {}

(* A job is submitted; it may begin at once if nothing is before it.       *)
Submit ==
  /\ submitted < MaxJobs
  /\ submitted' = submitted + 1
  /\ running' \in IF running = 0 /\ Pending = {} THEN {0, submitted'} ELSE {running}
  /\ UNCHANGED over

Begin ==
  /\ running = 0
  /\ \E j \in Pending : (\A k \in Pending : j <= k) /\ running' = j
  /\ UNCHANGED <<submitted, over>>

(* The running job ends, or jobs are cancelled.                            *)
End ==
  /\ \E ended \in SUBSET ((1 .. submitted) \ over) :
       /\ over' = over \cup ended
       /\ running' = IF running \in ended THEN 0 ELSE running
  /\ UNCHANGED submitted

SeqSpec == SeqInit /\ [][Submit \/ Begin \/ End]_seqVars
=============================================================================
