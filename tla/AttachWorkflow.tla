--------------------------- MODULE AttachWorkflow ---------------------------
(***************************************************************************)
(* workflow.py: the attach-carabiner task.  The engine gives it up to      *)
(* MaxAttempts attempts; each opens a robot session, runs the whole        *)
(* function again from its first line, and skips the stages that have a    *)
(* checkpoint.  An attempt may end between any two lines: something raises *)
(* and the session is closed on the way out, or the worker dies.           *)
(*                                                                         *)
(* What the stages do to the arm is kept only as far as the next stage     *)
(* relies on it.  One attempt runs at a time: another one would be refused *)
(* the robot (RobotClaim), and shows here as an attempt that is refused.   *)
(***************************************************************************)
EXTENDS AttachPlan, FiniteSets

CONSTANT MaxAttempts    \* max_attempts of the spawned task

ASSUME AttemptsAssumption == MaxAttempts \in Nat \ {0}

VARIABLES
    attempt,    \* attempts begun
    pc,         \* the stage under way, or where the task is between attempts
    pending,    \* the answer of a stage that ran and is not committed yet
    cycle, target, pickup, position,    \* the function's locals
    arm,        \* what the stages left of the arm
    runs        \* stages that physically ran, over all attempts

locals == <<cycle, target, pickup, position>>
vars == <<record, status, attempt, pc, pending, locals, arm, runs>>

Arms == [gripped: BOOLEAN,                  \* the carabiner is in the gripper
         at: {"anywhere", "ready", "fixture"}]

\* close() takes torque off: the gripper opens and the arm sags.
Limp == [gripped |-> FALSE, at |-> "anywhere"]

TypeOK ==
    /\ record \in Records
    /\ status \in {"running", "complete", "failed"}
    /\ attempt \in 0..MaxAttempts
    /\ pc \in Stages \cup {"waiting", "over"}
    /\ pending \in Results \cup {"none"}
    /\ cycle \in Cycles
    /\ target \in {"pickup", "position", "attach"}
    /\ pickup \in BOOLEAN /\ position \in BOOLEAN
    /\ arm \in Arms
    /\ runs \in Nat

-----------------------------------------------------------------------------
(* Attempts. *)

\* robot_session(): the claim or a device is refused, and the attempt is spent; or the
\* function begins, with fresh locals.
Attempt ==
    /\ pc = "waiting"
    /\ attempt < MaxAttempts
    /\ pc' \in {"waiting", "pickup"}
    /\ attempt' = attempt + 1
    /\ cycle' = 0 /\ target' = "pickup" /\ pickup' = FALSE /\ position' = FALSE
    /\ UNCHANGED <<record, status, pending, arm, runs>>

\* The end of an attempt that raised: the session is closed.
Close ==
    /\ pc' = "waiting"
    /\ pending' = "none"
    /\ arm' = Limp

\* Anything raises: a stage, the engine's connection, an interrupt.
Raise ==
    /\ pc \in Stages
    /\ Close
    /\ UNCHANGED <<record, status, attempt, locals, runs>>

\* The worker dies: the arm stays as it is, on its way, or goes limp with the drives' own
\* timeout.
Die ==
    /\ pc \in Stages
    /\ pc' = "waiting"
    /\ pending' = "none"
    /\ arm' \in {arm, [arm EXCEPT !.at = "anywhere"], Limp}
    /\ UNCHANGED <<record, status, attempt, locals, runs>>

\* The engine's word on a task whose attempts are used up.
Exhaust ==
    /\ pc = "waiting"
    /\ attempt = MaxAttempts
    /\ pc' = "over"
    /\ status' = "failed"
    /\ UNCHANGED <<record, attempt, pending, locals, arm, runs>>

\* The operator cancels: a running stage raises at its next heartbeat.
Cancel ==
    /\ pc \in Stages \cup {"waiting"}
    /\ pc' = "over"
    /\ status' = "failed"
    /\ pending' = "none"
    /\ arm' = IF pc = "waiting" THEN arm ELSE Limp
    /\ UNCHANGED <<record, attempt, locals, runs>>

-----------------------------------------------------------------------------
(* Stages. *)

\* The checkpoint of the stage in this cycle: its name is the stage's and the cycle's.
Checkpoint(s) == record[s][cycle]

\* What a stage that ran to its answer r left of the arm.
Effect(s, r) ==
    CASE s = "pickup"   -> [gripped |-> r = "secured", at |-> "anywhere"]
      [] s = "position" -> [arm EXCEPT !.at = IF r = "reached" THEN "ready" ELSE "anywhere"]
      [] s = "attach"   -> [arm EXCEPT !.at = "fixture"]
      [] s = "verify"   -> arm

\* BUG: a stage runs again whatever is on record.
RunAnyway(s) == pc = s /\ pending = "none"

\* ctx.step() runs the stage when there is no checkpoint for it.  The attach stage is behind
\* a check of the results it needs.
Runs(s) ==
    /\ pc = s /\ pending = "none"
    /\ Checkpoint(s) = "none"
    /\ s = "attach" => pickup /\ position

Run(s) ==
    /\ Runs(s)
    /\ pending' \in Answers(s)
    /\ arm' = Effect(s, pending')
    /\ runs' = runs + 1
    /\ UNCHANGED <<record, status, attempt, pc, locals>>

\* The answer is committed; what follows from it is one and the same for a fresh answer
\* and for one on record.
Commit(s) ==
    /\ pc = s
    /\ pending # "none"
    /\ record' = [record EXCEPT ![s][cycle] = pending]
    /\ pending' = "none"
    /\ UNCHANGED <<status, attempt, pc, locals, arm, runs>>

\* BUG: the cycle begins again under the names it had.
NextCycleSame(r) ==
    /\ target' = r
    /\ pc' = r
    /\ UNCHANGED <<status, cycle, pickup, position, pending, arm>>

\* The next cycle begins where the verification says, with the results so far.
NextCycle(r) ==
    /\ cycle' = cycle + 1
    /\ target' = r
    /\ pc' = r
    /\ UNCHANGED <<status, pickup, position, pending, arm>>

LastCycle == cycle + 1 = MaxCycles

\* BUG: a stage that answered that it failed is as good as one that did its work.
FailsLate(r) ==
    \/ r = "no target"
    \/ r \in Stages /\ LastCycle

\* An answer the function raises on: nothing secured or reached, no way back, or no cycle
\* left.
Fails(r) ==
    \/ r \in {"not secured", "not reached", "no target"}
    \/ r \in Stages /\ LastCycle

After(s) ==
    LET r == Checkpoint(s)
    IN  /\ pc = s /\ pending = "none" /\ r # "none"
        /\ \/ /\ Fails(r)
              /\ Close
              /\ UNCHANGED <<status, locals>>
           \/ /\ s = "pickup" /\ ~Fails(r)
              /\ pickup' = TRUE /\ pc' = "position"
              /\ UNCHANGED <<status, cycle, target, position, pending, arm>>
           \/ /\ s = "position" /\ ~Fails(r)
              /\ position' = TRUE /\ pc' = "attach"
              /\ UNCHANGED <<status, cycle, target, pickup, pending, arm>>
           \/ /\ s = "attach"
              /\ pc' = "verify"
              /\ UNCHANGED <<status, locals, pending, arm>>
           \/ s = "verify" /\ r \in Stages /\ ~Fails(r) /\ NextCycle(r)
           \/ /\ s = "verify" /\ r = "secure"
              /\ pc' = "over" /\ status' = "complete"
              /\ pending' = "none" /\ arm' = Limp
              /\ UNCHANGED locals
        /\ UNCHANGED <<record, attempt, runs>>

-----------------------------------------------------------------------------

WInit ==
    /\ Init
    /\ attempt = 0
    /\ pc = "waiting"
    /\ pending = "none"
    /\ cycle = 0 /\ target = "pickup" /\ pickup = FALSE /\ position = FALSE
    /\ arm = Limp
    /\ runs = 0

Progress == Attempt \/ Exhaust \/ \E s \in Stages : Run(s) \/ Commit(s) \/ After(s)

WNext == Progress \/ Raise \/ Die \/ Cancel

WSpec == WInit /\ [][WNext]_vars

\* The engine schedules attempts while there are any, and a stage ends: each of its calls is
\* bounded by a timeout or a budget.
WFairSpec == WSpec /\ WF_vars(Progress)

-----------------------------------------------------------------------------
(* Properties. *)

\* Whatever crashed, what is on record is what one uninterrupted run would have recorded
\* (a beginning of it), and the task ends as that run does.
ImplementsPlan == FairSpec

\* A stage runs only if its turn has come by the results on record and it has no checkpoint
\* of its own: a retry takes the way the attempts before it took, and stops where a result
\* on record says failure, before anything moves.
RunsOnlyWhatIsDue ==
    [][runs' # runs => pc \in Stages /\ Due(record, pc, cycle)]_vars

\* A retry repeats no more than the one stage that was under way: of all the runs of stages,
\* no attempt loses more than one, and nothing is on record that did not run.
RepeatsAtMostOne ==
    LET kept == Cardinality({sc \in Stages \X Cycles : record[sc[1]][sc[2]] # "none"})
    IN  kept <= runs /\ runs <= kept + attempt

\* The attach stage is never reached without the two results it is handed on (workflow.py:85).
PrerequisitesAvailable == pc \in {"attach", "verify"} => pickup /\ position

\* The task ends: attempts and cycles are both bounded.
TaskEnds == <>(pc = "over")

\* What a retry is documented to do, resume after the stages on record: the attach stage of a
\* cycle that went through the known position runs on an arm that is there, with what it
\* picked up in its gripper.
AttachStartsWhereLeft ==
    [][pc = "attach" /\ runs' # runs /\ target # "attach"
        => arm.gripped /\ arm.at = "ready"]_vars
=============================================================================
