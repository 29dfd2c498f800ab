------------------------ MODULE AttachWorkflowProofs ------------------------
(***************************************************************************)
(* For any number of cycles and attempts: the record of the attach task is *)
(* that of one uninterrupted run, and a stage runs only when its turn has  *)
(* come.  The invariant ties the locals of the attempt under way, which    *)
(* start over at every attempt, to the record, which does not.             *)
(***************************************************************************)
EXTENDS AttachWorkflow, FiniteSetTheorems, TLAPS

Types ==
    /\ record \in Records
    /\ status \in {"running", "complete", "failed"}
    /\ attempt \in 0..MaxAttempts
    /\ pc \in Stages \cup {"waiting", "over"}
    /\ pending \in Results \cup {"none"}
    /\ cycle \in Cycles
    /\ target \in {"pickup", "position", "attach"}
    /\ pickup \in BOOLEAN /\ position \in BOOLEAN
    /\ arm \in Arms
    /\ runs \in Nat

\* The line the function is at is where the results on record lead.
OnTheWay ==
    pc \in Stages => target = TargetOf(record, cycle) /\ Reached(record, pc, cycle)

\* A stage that ran has no checkpoint yet, and answers what it may.
Uncommitted ==
    pending # "none" => /\ pc \in Stages
                        /\ record[pc][cycle] = "none"
                        /\ pending \in Answers(pc)

\* From the second cycle on both results are there.
Prerequisites ==
    pc \in Stages => /\ cycle > 0 \/ pc \in {"attach", "verify"} => pickup /\ position
                     /\ pc = "position" => pickup

Open == pc # "over" => status = "running"

IInv == Types /\ OnTheWay /\ Uncommitted /\ Prerequisites /\ Open

\* What each stage may answer, and that no answer is the absence of one.
LEMMA AnswersFacts ==
    /\ Answers("pickup") = {"secured", "not secured"}
    /\ Answers("position") = {"reached", "not reached"}
    /\ Answers("attach") = {"attempted"}
    /\ Answers("verify") = {"secure", "no target", "pickup", "position", "attach"}
    /\ \A s \in Stages : "none" \notin Answers(s) /\ Answers(s) \subseteq Results
    /\ Limp \in Arms
<1>1. /\ Answers("pickup") = {"secured", "not secured"}
      /\ Answers("position") = {"reached", "not reached"}
      /\ Answers("attach") = {"attempted"}
      /\ Answers("verify") = {"secure", "no target", "pickup", "position", "attach"}
  BY DEF Answers
<1>2. \A s \in Stages : Answers(s) \subseteq Results
  BY Zenon DEF Results
<1>3. \A s \in Stages : "none" \notin Answers(s)
  <2> SUFFICES ASSUME NEW s \in Stages PROVE "none" \notin Answers(s)
    OBVIOUS
  <2>1. CASE s = "pickup"    BY <1>1, <2>1
  <2>2. CASE s = "position"  BY <1>1, <2>2
  <2>3. CASE s = "attach"    BY <1>1, <2>3
  <2>4. CASE s = "verify"    BY <1>1, <2>4
  <2> QED BY <2>1, <2>2, <2>3, <2>4 DEF Stages
<1>4. Limp \in Arms
  BY DEF Limp, Arms
<1> QED BY <1>1, <1>2, <1>3, <1>4

\* The effect of a stage is a state of the arm.
LEMMA EffectType ==
    ASSUME arm \in Arms, NEW s \in Stages, NEW r
    PROVE  Effect(s, r) \in Arms
<1>1. CASE s = "pickup"
  BY <1>1 DEF Effect, Arms
<1>2. CASE s = "position"
  <2> DEFINE where == IF r = "reached" THEN "ready" ELSE "anywhere"
  <2>1. Effect(s, r) = [arm EXCEPT !.at = where]
    BY <1>2 DEF Effect
  <2>2. where \in {"anywhere", "ready", "fixture"}
    OBVIOUS
  <2> HIDE DEF where
  <2> QED BY <2>1, <2>2 DEF Arms
<1>3. CASE s = "attach"
  BY <1>3 DEF Effect, Arms
<1>4. CASE s = "verify"
  BY <1>4 DEF Effect, Arms
<1> QED BY <1>1, <1>2, <1>3, <1>4 DEF Stages

\* A checkpoint does not move the stage it belongs to off the way.
LEMMA CheckpointKeepsWay ==
    ASSUME NEW rec \in Records, NEW s \in Stages, NEW c \in Cycles, NEW r \in Answers(s)
    PROVE  LET new == [rec EXCEPT ![s][c] = r]
           IN  /\ new \in Records
               /\ TargetOf(new, c) = TargetOf(rec, c)
               /\ Reached(rec, s, c) => Reached(new, s, c)
<1> DEFINE new == [rec EXCEPT ![s][c] = r]
<1>1. /\ rec \in [Stages -> [Cycles -> Results \cup {"none"}]]
      /\ \A t \in Stages, d \in Cycles : rec[t][d] \in Answers(t) \cup {"none"}
  BY Zenon DEF Records
<1>2. /\ new \in [Stages -> [Cycles -> Results \cup {"none"}]]
      /\ \A t \in Stages, d \in Cycles :
            new[t][d] = IF t = s /\ d = c THEN r ELSE rec[t][d]
  BY <1>1, AnswersFacts
<1>3. new \in Records
  BY <1>1, <1>2 DEF Records
<1>4. TargetOf(new, c) = TargetOf(rec, c)
  <2>1. CASE c = 0
    BY <2>1 DEF TargetOf
  <2>2. CASE c # 0
    <3>1. c - 1 \in Cycles /\ c - 1 # c
      BY <2>2, CyclesAssumption DEF Cycles
    <3> QED BY <1>2, <2>2, <3>1 DEF TargetOf, Stages
  <2> QED BY <2>1, <2>2
<1>5. Reached(rec, s, c) => Reached(new, s, c)
  BY <1>2, <1>4, Zenon DEF Reached, Stages
<1> QED BY <1>3, <1>4, <1>5

LEMMA Start == WInit => IInv
<1> SUFFICES ASSUME WInit PROVE IInv
  OBVIOUS
<1>1. record \in Records
  <2>1. \A s \in Stages, c \in Cycles : record[s][c] = "none"
    BY DEF WInit, Init
  <2>2. record \in [Stages -> [Cycles -> Results \cup {"none"}]]
    BY DEF WInit, Init
  <2> QED BY <2>1, <2>2 DEF Records
<1>2. 0 \in Cycles /\ 0 \in 0..MaxAttempts
  BY CyclesAssumption, AttemptsAssumption DEF Cycles
<1>3. pickup \in BOOLEAN /\ position \in BOOLEAN
  BY Zenon DEF WInit
<1>4. Types
  BY <1>1, <1>2, <1>3, AnswersFacts DEF WInit, Init, Types
<1> QED BY <1>4 DEF WInit, Init, IInv, OnTheWay, Uncommitted, Prerequisites, Open, Stages

-----------------------------------------------------------------------------
(* The steps. *)

\* The actions between attempts, and those that end one.
LEMMA AttemptKeeps == IInv /\ Attempt => IInv'
<1> SUFFICES ASSUME IInv, Attempt PROVE IInv'
  OBVIOUS
<1> USE DEF Attempt, IInv
<1>1. Types'
  <2>1. 0 \in Cycles /\ attempt' \in 0..MaxAttempts
    BY CyclesAssumption, AttemptsAssumption DEF Types, Cycles
  <2>2. pickup' \in BOOLEAN /\ position' \in BOOLEAN
    BY Zenon
  <2> QED BY <2>1, <2>2 DEF Types, Stages
<1>2. OnTheWay'
  BY DEF OnTheWay, TargetOf, Reached, Stages
<1>3. pending = "none"
  BY DEF Uncommitted, Stages
<1> QED BY <1>1, <1>2, <1>3 DEF Uncommitted, Prerequisites, Open, Stages

LEMMA EndKeeps == IInv /\ (Raise \/ Die \/ Exhaust \/ Cancel) => IInv'
<1> SUFFICES ASSUME IInv, Raise \/ Die \/ Exhaust \/ Cancel PROVE IInv'
  OBVIOUS
<1> USE DEF IInv
<1>1. pc' \in {"waiting", "over"} /\ (pc' # "over" => status' = status /\ pc # "over")
  BY DEF Raise, Die, Exhaust, Cancel, Close, Stages
<1>2. pending' = "none"
  BY DEF Raise, Die, Exhaust, Cancel, Close, Uncommitted, Stages
<1>3. UNCHANGED <<record, attempt, locals, runs>>
  BY DEF Raise, Die, Exhaust, Cancel
<1>4. status' \in {"running", "complete", "failed"}
  BY DEF Raise, Die, Exhaust, Cancel, Types
<1>5. arm' \in Arms
  <2>1. [arm EXCEPT !.at = "anywhere"] \in Arms
    BY DEF Types, Arms
  <2> QED BY <2>1, AnswersFacts DEF Types, Raise, Die, Exhaust, Cancel, Close
<1>6. Types'
  BY <1>1, <1>2, <1>3, <1>4, <1>5 DEF Types, locals
<1> QED BY <1>1, <1>2, <1>6 DEF OnTheWay, Uncommitted, Prerequisites, Open, Stages

LEMMA RunKeeps == ASSUME NEW s \in Stages PROVE IInv /\ Run(s) => IInv'
<1> SUFFICES ASSUME IInv, Run(s) PROVE IInv'
  OBVIOUS
<1>1. /\ pc = s /\ record[s][cycle] = "none"
      /\ pending' \in Answers(s) /\ runs' = runs + 1
      /\ UNCHANGED <<record, status, attempt, pc, locals>>
  BY DEF Run, Runs, Checkpoint
<1>2. arm' \in Arms
  BY EffectType DEF Run, IInv, Types
<1>3. Types'
  <2>1. pending' \in Results
    BY <1>1, AnswersFacts
  <2>2. pickup' \in BOOLEAN /\ position' \in BOOLEAN
    BY <1>1, Zenon DEF IInv, Types, locals
  <2> QED BY <1>1, <1>2, <2>1, <2>2 DEF IInv, Types, locals
<1>4. Uncommitted'
  BY <1>1 DEF Uncommitted, locals
<1> QED BY <1>1, <1>3, <1>4 DEF IInv, OnTheWay, Prerequisites, Open, locals

LEMMA CommitKeeps == ASSUME NEW s \in Stages PROVE IInv /\ Commit(s) => IInv'
<1> SUFFICES ASSUME IInv, Commit(s) PROVE IInv'
  OBVIOUS
<1>1. /\ pc = s /\ pending # "none" /\ pending' = "none"
      /\ record' = [record EXCEPT ![s][cycle] = pending]
      /\ UNCHANGED <<status, attempt, pc, locals, arm, runs>>
  BY DEF Commit
<1>2. pending \in Answers(s) /\ record \in Records /\ cycle \in Cycles
  BY <1>1 DEF IInv, Uncommitted, Types
<1>3. /\ record' \in Records
      /\ TargetOf(record', cycle) = TargetOf(record, cycle)
      /\ Reached(record, s, cycle) => Reached(record', s, cycle)
  BY <1>1, <1>2, CheckpointKeepsWay
<1>4. Types'
  BY <1>1, <1>3 DEF IInv, Types, locals
<1>5. OnTheWay'
  BY <1>1, <1>3 DEF IInv, OnTheWay, locals
<1> QED BY <1>1, <1>4, <1>5 DEF IInv, Uncommitted, Prerequisites, Open, locals

\* What follows from a checkpoint: the next line of the function is where it leads.
LEMMA AfterKeeps == ASSUME NEW s \in Stages PROVE IInv /\ After(s) => IInv'
<1> SUFFICES ASSUME IInv, After(s) PROVE IInv'
  OBVIOUS
<1> DEFINE r == record[s][cycle]
<1>1. /\ pc = s /\ pending = "none" /\ r # "none"
      /\ UNCHANGED <<record, attempt, runs>>
  BY DEF After, Checkpoint
<1>2. r \in Answers(s)
  BY <1>1, Zenon DEF IInv, Types, Records
<1>3. CASE Close /\ UNCHANGED <<status, locals>>
  BY <1>1, <1>3, AnswersFacts
  DEF IInv, Types, OnTheWay, Uncommitted, Prerequisites, Open, Close, locals, Stages
<1>4. CASE /\ s = "pickup" /\ ~Fails(r)
           /\ pickup' = TRUE /\ pc' = "position"
           /\ UNCHANGED <<status, cycle, target, position, pending, arm>>
  <2>1. r = "secured"
    BY <1>2, <1>4, AnswersFacts DEF Fails
  <2>2. OnTheWay'
    BY <1>1, <1>4, <2>1 DEF IInv, OnTheWay, Reached, TargetOf, Stages
  <2> QED BY <1>1, <1>4, <2>2
    DEF IInv, Types, Uncommitted, Prerequisites, Open, Stages
<1>5. CASE /\ s = "position" /\ ~Fails(r)
           /\ position' = TRUE /\ pc' = "attach"
           /\ UNCHANGED <<status, cycle, target, pickup, pending, arm>>
  <2>1. r = "reached"
    BY <1>2, <1>5, AnswersFacts DEF Fails
  <2>2. OnTheWay'
    BY <1>1, <1>5, <2>1 DEF IInv, OnTheWay, Reached, TargetOf, Stages
  <2> QED BY <1>1, <1>5, <2>2
    DEF IInv, Types, Uncommitted, Prerequisites, Open, Stages
<1>6. CASE s = "attach" /\ pc' = "verify" /\ UNCHANGED <<status, locals, pending, arm>>
  <2>1. r = "attempted"
    BY <1>2, <1>6, AnswersFacts
  <2>2. OnTheWay'
    BY <1>1, <1>6, <2>1 DEF IInv, OnTheWay, Reached, TargetOf, Stages, locals
  <2> QED BY <1>1, <1>6, <2>2
    DEF IInv, Types, Uncommitted, Prerequisites, Open, Stages, locals
<1>7. CASE s = "verify" /\ r \in Stages /\ ~Fails(r) /\ NextCycle(r)
  <2>1. r \in {"pickup", "position", "attach"}
    BY <1>2, <1>7, AnswersFacts DEF Stages
  <2>2. cycle' = cycle + 1 /\ cycle \in Nat /\ cycle' \in Cycles
    <3>1. cycle' = cycle + 1 /\ cycle + 1 # MaxCycles
      BY <1>7 DEF Fails, LastCycle, NextCycle
    <3>2. cycle \in 0..(MaxCycles - 1)
      BY DEF IInv, Types, Cycles
    <3> QED BY <3>1, <3>2, CyclesAssumption DEF Cycles
  <2>3. TargetOf(record', cycle') = r
    BY <1>1, <1>7, <2>2 DEF TargetOf
  <2>4. OnTheWay'
    BY <1>1, <1>7, <2>1, <2>3 DEF OnTheWay, Reached, NextCycle
  <2>5. pickup /\ position
    BY <1>1, <1>7 DEF IInv, Prerequisites
  <2> QED BY <1>1, <1>7, <2>1, <2>2, <2>4, <2>5
    DEF IInv, Types, Uncommitted, Prerequisites, Open, NextCycle, Stages
<1>8. CASE /\ s = "verify" /\ r = "secure"
           /\ pc' = "over" /\ status' = "complete"
           /\ pending' = "none" /\ arm' = Limp
           /\ UNCHANGED locals
  BY <1>1, <1>8, AnswersFacts
  DEF IInv, Types, OnTheWay, Uncommitted, Prerequisites, Open, locals, Stages
<1> QED BY <1>3, <1>4, <1>5, <1>6, <1>7, <1>8 DEF After, Checkpoint

LEMMA StepKeeps == IInv /\ [WNext]_vars => IInv'
<1> SUFFICES ASSUME IInv, [WNext]_vars PROVE IInv'
  OBVIOUS
<1>1. CASE UNCHANGED vars
  BY <1>1 DEF vars, locals, IInv, Types, OnTheWay, Uncommitted, Prerequisites, Open
<1>2. CASE WNext
  BY <1>2, AttemptKeeps, EndKeeps, RunKeeps, CommitKeeps, AfterKeeps DEF WNext, Progress
<1> QED BY <1>1, <1>2

\* The invariant holds throughout, for any number of attempts and cycles.
THEOREM Invariance == WSpec => []IInv
  BY Start, StepKeeps, PTL DEF WSpec

-----------------------------------------------------------------------------

\* Every state of the task, its record and its arm is one the model names.
THEOREM TypeCorrect == WSpec => []TypeOK
<1>1. IInv => TypeOK
  BY DEF IInv, Types, TypeOK
<1> QED BY <1>1, Invariance, PTL

\* workflow.py:85-86: the check that raises "attachment prerequisites are unavailable" is
\* never what ends an attempt, whichever stage a recovery goes back to.
THEOREM HasPrerequisites == WSpec => []PrerequisitesAvailable
<1>1. IInv => PrerequisitesAvailable
  BY DEF IInv, Prerequisites, PrerequisitesAvailable, Stages
<1> QED BY <1>1, Invariance, PTL

\* A retry runs a stage only if the results on record lead to it and it has none itself.
THEOREM RunsWhatIsDue == WSpec => RunsOnlyWhatIsDue
<1>1. IInv /\ [WNext]_vars
        => [runs' # runs => pc \in Stages /\ Due(record, pc, cycle)]_vars
  <2> SUFFICES ASSUME IInv, WNext, runs' # runs
               PROVE  pc \in Stages /\ Due(record, pc, cycle)
    OBVIOUS
  <2>1. \E s \in Stages : Run(s)
    BY DEF WNext, Progress, Attempt, Exhaust, Raise, Die, Cancel, Commit, After
  <2>2. PICK s \in Stages : Run(s)
    BY <2>1
  <2> QED BY <2>2 DEF Run, Runs, Checkpoint, IInv, OnTheWay, Due
<1> QED BY <1>1, Invariance, PTL DEF WSpec, RunsOnlyWhatIsDue

\* However often its worker crashed, the record of the task is one an uninterrupted run
\* makes: every step of the workflow is a step of the plan or leaves the record alone.
THEOREM FollowsPlan == WSpec => Spec
<1>1. WInit => Init
  BY DEF WInit
<1>2. IInv /\ [WNext]_vars => [Next]_task
  <2> SUFFICES ASSUME IInv, WNext PROVE [Next]_task
    BY DEF vars, task
  <2>1. CASE Attempt \/ Raise \/ Die
    BY <2>1 DEF Attempt, Raise, Die, task
  <2>2. CASE Exhaust \/ Cancel
    <3>1. GiveUp
      BY <2>2 DEF Exhaust, Cancel, GiveUp, IInv, Open, Stages
    <3> QED BY <3>1 DEF Next
  <2>3. ASSUME NEW s \in Stages, Run(s) PROVE [Next]_task
    BY <2>3 DEF Run, task
  <2>4. ASSUME NEW s \in Stages, Commit(s) PROVE [Next]_task
    <3>1. cycle \in Cycles /\ pending \in Answers(s)
      BY <2>4 DEF Commit, IInv, Types, Uncommitted
    <3>2. Recorded(s, cycle, pending)
      BY <2>4, Zenon
      DEF Commit, Recorded, Due, IInv, OnTheWay, Uncommitted, Open, Stages
    <3> QED BY <3>1, <3>2 DEF Next
  <2>5. ASSUME NEW s \in Stages, After(s) PROVE [Next]_task
    <3>1. CASE UNCHANGED status
      BY <2>5, <3>1 DEF After, task
    <3>2. CASE status' # status
      <4>1. /\ pc = s /\ s = "verify" /\ record[s][cycle] = "secure"
            /\ status' = "complete" /\ UNCHANGED record
        BY <2>5, <3>2 DEF After, NextCycle, Checkpoint
      <4>2. Secured(record) /\ status = "running"
        BY <4>1 DEF Secured, IInv, Types, Open
      <4>3. Complete
        BY <4>1, <4>2 DEF Complete
      <4> QED BY <4>3 DEF Next
    <3> QED BY <3>1, <3>2
  <2> QED BY <2>1, <2>2, <2>3, <2>4, <2>5 DEF WNext, Progress
<1> QED BY <1>1, <1>2, Invariance, PTL DEF WSpec, Spec

-----------------------------------------------------------------------------
(* How often a stage runs. *)

\* The stages on record.
Kept == {sc \in Stages \X Cycles : record[sc[1]][sc[2]] # "none"}

\* The run that waits for its checkpoint, and the attempts that can lose none any more.
Uncounted == IF pending # "none" THEN 1 ELSE 0
Closed == IF pc \in Stages THEN attempt - 1 ELSE attempt

\* Every run is on record, waits for its checkpoint, or is the one that a closed attempt
\* lost.
RunsAccounted ==
    /\ IsFiniteSet(Kept)
    /\ Cardinality(Kept) + Uncounted <= runs
    /\ runs <= Cardinality(Kept) + Uncounted + Closed

LEMMA AccountTypes ==
    IInv => /\ runs \in Nat /\ attempt \in Nat
            /\ Uncounted \in 0..1 /\ Closed \in {attempt, attempt - 1}
  BY AttemptsAssumption DEF IInv, Types, Uncounted, Closed

LEMMA AccountsStart == WInit => RunsAccounted
<1> SUFFICES ASSUME WInit PROVE RunsAccounted
  OBVIOUS
<1>1. Kept = {}
  BY DEF Kept, WInit, Init
<1>2. IsFiniteSet(Kept) /\ Cardinality(Kept) = 0
  BY <1>1, FS_EmptySet
<1> QED BY <1>2 DEF RunsAccounted, Uncounted, Closed, WInit, Stages

\* A checkpoint puts the run that waits for it on record.
LEMMA CommitCounts ==
    ASSUME IInv, RunsAccounted, NEW s \in Stages, Commit(s)
    PROVE  RunsAccounted'
<1>1. /\ pc = s /\ pending # "none" /\ pending' = "none"
      /\ record' = [record EXCEPT ![s][cycle] = pending]
      /\ UNCHANGED <<attempt, pc, runs>>
  BY DEF Commit
<1>2. record \in [Stages -> [Cycles -> Results \cup {"none"}]] /\ cycle \in Cycles
  BY Zenon DEF IInv, Types, Records
<1>3. <<s, cycle>> \notin Kept
  BY <1>1 DEF Kept, IInv, Uncommitted
<1>4. \A t \in Stages, c \in Cycles :
        record'[t][c] = IF t = s /\ c = cycle THEN pending ELSE record[t][c]
  BY <1>1, <1>2
<1>5. Kept' = Kept \cup {<<s, cycle>>}
  BY <1>1, <1>2, <1>4 DEF Kept
<1>6. IsFiniteSet(Kept') /\ Cardinality(Kept') = Cardinality(Kept) + 1
  BY <1>3, <1>5, FS_AddElement DEF RunsAccounted
<1>7. Cardinality(Kept) \in Nat
  BY FS_CardinalityType DEF RunsAccounted
<1> QED BY <1>1, <1>6, <1>7, AccountTypes DEF RunsAccounted, Uncounted, Closed

LEMMA AccountsStep == IInv /\ RunsAccounted /\ [WNext]_vars => RunsAccounted'
<1> SUFFICES ASSUME IInv, RunsAccounted, [WNext]_vars PROVE RunsAccounted'
  OBVIOUS
<1>1. Cardinality(Kept) \in Nat
  BY FS_CardinalityType DEF RunsAccounted
<1> USE <1>1, AccountTypes DEF RunsAccounted
<1>2. ASSUME record' = record PROVE Kept' = Kept
  BY <1>2 DEF Kept
<1>3. CASE UNCHANGED vars
  BY <1>2, <1>3 DEF vars, Uncounted, Closed
<1>4. CASE Attempt
  <2>1. pending = "none" /\ pc \notin Stages
    BY <1>4 DEF Attempt, IInv, Uncommitted, Stages
  <2> QED BY <1>2, <1>4, <2>1 DEF Attempt, Uncounted, Closed
<1>5. CASE Raise \/ Die
  BY <1>2, <1>5 DEF Raise, Die, Close, Uncounted, Closed, Stages
<1>6. CASE Exhaust
  BY <1>2, <1>6 DEF Exhaust, Uncounted, Closed, Stages
<1>7. CASE Cancel
  <2>1. pc = "waiting" => pending = "none"
    BY DEF IInv, Uncommitted, Stages
  <2> QED BY <1>2, <1>7, <2>1 DEF Cancel, Uncounted, Closed, Stages
<1>8. ASSUME NEW s \in Stages, Run(s) PROVE RunsAccounted'
  <2>1. pending = "none" /\ pending' # "none" /\ runs' = runs + 1
    BY <1>8, AnswersFacts DEF Run, Runs
  <2> QED BY <1>2, <1>8, <2>1 DEF Run, Uncounted, Closed
<1>9. ASSUME NEW s \in Stages, After(s) PROVE RunsAccounted'
  <2>1. /\ pc \in Stages /\ pending = "none" /\ pending' = "none"
        /\ UNCHANGED <<record, attempt, runs>>
    BY <1>9 DEF After, Close, NextCycle
  <2> QED BY <1>2, <2>1 DEF Uncounted, Closed
<1> QED BY <1>3, <1>4, <1>5, <1>6, <1>7, <1>8, <1>9, CommitCounts DEF WNext, Progress

\* Of all the runs of stages no attempt, however it ended, lost more than one, and nothing
\* is on record that did not run (ctx.step() over the commits of workflow.py's stages).
THEOREM RepeatsOne == WSpec => []RepeatsAtMostOne
<1>1. IInv /\ RunsAccounted => RepeatsAtMostOne
  <2> SUFFICES ASSUME IInv, RunsAccounted PROVE RepeatsAtMostOne
    OBVIOUS
  <2>1. Cardinality(Kept) \in Nat
    BY FS_CardinalityType DEF RunsAccounted
  <2>2. pending # "none" => pc \in Stages
    BY DEF IInv, Uncommitted
  <2>3. Cardinality(Kept) <= runs /\ runs <= Cardinality(Kept) + attempt
    BY <2>1, <2>2, AccountTypes DEF RunsAccounted, Uncounted, Closed
  <2> QED BY <2>3 DEF RepeatsAtMostOne, Kept
<1> QED BY <1>1, Invariance, AccountsStart, AccountsStep, PTL DEF WSpec
=============================================================================
