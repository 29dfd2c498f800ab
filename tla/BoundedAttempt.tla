--------------------------- MODULE BoundedAttempt ---------------------------
(***************************************************************************)
(* What the caller of AttachmentFSM.run() is promised, with nothing of how *)
(* it is done: one physical attempt takes a bounded number of actions,     *)
(* ends, and unless it ends in success the arm has been told to hold       *)
(* before the caller sees the outcome.  AttachmentFSM.tla implements this  *)
(* module; the workflow that schedules attempts needs no more than it.     *)
(***************************************************************************)
EXTENDS Naturals

CONSTANT Limit          \* the lifetime action budget

VARIABLES phase,        \* how far the attempt is, and how it ended
          work,         \* physical actions spent so far
          held          \* a hold was commanded after the last action

vars == <<phase, work, held>>

Phases == {"running", "succeeded", "stopped", "raised"}

TypeOK ==
    /\ phase \in Phases
    /\ work \in 0..Limit
    /\ held \in BOOLEAN

Init ==
    /\ phase = "running"
    /\ work = 0
    /\ held = FALSE

\* One more action, and the attempt goes on.
Act ==
    /\ phase = "running"
    /\ work < Limit
    /\ work' = work + 1
    /\ UNCHANGED <<phase, held>>

\* The attachment is verified: by the last action, or found to be there already.
Succeed ==
    /\ phase = "running"
    /\ phase' = "succeeded"
    /\ \/ work' = work
       \/ work < Limit /\ work' = work + 1
    /\ UNCHANGED held

\* Budget, abort or unexpected exception: the arm is held before the outcome is visible.
Stop ==
    /\ phase = "running"
    /\ phase' \in {"stopped", "raised"}
    /\ \/ work' = work
       \/ work < Limit /\ work' = work + 1
    /\ held' = TRUE

Next == Act \/ Succeed \/ Stop

SafeSpec == Init /\ [][Next]_vars

\* The attempt does end: a caller that waits for run() is not left waiting.
Spec == SafeSpec /\ WF_vars(Next)

=============================================================================
