----------------------------- MODULE AttachPlan -----------------------------
(***************************************************************************)
(* What the durable record of one attach-carabiner task (workflow.py) must *)
(* look like, however often its worker crashed: the record of one run that *)
(* was never interrupted, or the beginning of one.  Cycle by cycle, each   *)
(* stage follows from the results before it, and nothing follows from a    *)
(* failure.                                                                *)
(***************************************************************************)
EXTENDS Integers

CONSTANT MaxCycles      \* max_recovery_cycles

ASSUME CyclesAssumption == MaxCycles \in Nat \ {0}

Stages == {"pickup", "position", "attach", "verify"}

Cycles == 0..(MaxCycles - 1)

\* What a stage may answer.  A verification that is not secure names the stage to go back
\* to (RecoveryTarget), or none.
Answers(s) ==
    CASE s = "pickup"   -> {"secured", "not secured"}
      [] s = "position" -> {"reached", "not reached"}
      [] s = "attach"   -> {"attempted"}
      [] s = "verify"   -> {"secure", "no target", "pickup", "position", "attach"}

Results == UNION {Answers(s) : s \in Stages}

VARIABLES
    record,     \* the results by stage and cycle; "none" where there is no checkpoint
    status      \* of the task

task == <<record, status>>

Records == {rec \in [Stages -> [Cycles -> Results \cup {"none"}]] :
               \A s \in Stages, c \in Cycles : rec[s][c] \in Answers(s) \cup {"none"}}

\* Where cycle c begins.
TargetOf(rec, c) == IF c = 0 THEN "pickup" ELSE rec["verify"][c - 1]

\* The way the results on record take leads to stage s of cycle c.
Reached(rec, s, c) ==
    \/ s = "pickup" /\ TargetOf(rec, c) = "pickup"
    \/ s = "position" /\ TargetOf(rec, c) = "pickup" /\ rec["pickup"][c] = "secured"
    \/ s = "position" /\ TargetOf(rec, c) = "position"
    \/ /\ s = "attach" /\ TargetOf(rec, c) \in {"pickup", "position"}
       /\ rec["position"][c] = "reached"
    \/ s = "attach" /\ TargetOf(rec, c) = "attach"
    \/ s = "verify" /\ rec["attach"][c] = "attempted"

\* The stage whose turn it is.
Due(rec, s, c) == rec[s][c] = "none" /\ Reached(rec, s, c)

Secured(rec) == \E c \in Cycles : rec["verify"][c] = "secure"

Recorded(s, c, r) ==
    /\ status = "running"
    /\ Due(record, s, c)
    /\ record' = [record EXCEPT ![s][c] = r]
    /\ UNCHANGED status

Complete ==
    /\ status = "running"
    /\ Secured(record)
    /\ status' = "complete"
    /\ UNCHANGED record

\* The attempts are used up, or the task is cancelled.
GiveUp ==
    /\ status = "running"
    /\ status' = "failed"
    /\ UNCHANGED record

Init ==
    /\ record = [s \in Stages |-> [c \in Cycles |-> "none"]]
    /\ status = "running"

Next ==
    \/ \E s \in Stages, c \in Cycles : \E r \in Answers(s) : Recorded(s, c, r)
    \/ Complete
    \/ GiveUp

Spec == Init /\ [][Next]_task

\* Every task ends.
FairSpec == Spec /\ WF_task(Complete \/ GiveUp)
=============================================================================
