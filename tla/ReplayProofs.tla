----------------------------- MODULE ReplayProofs -----------------------------
(***************************************************************************)
(* For every recording, limit, tolerance and approval: what the motors get *)
(* of a replay is what was approved, in the recorded order and no faster,  *)
(* and the result tells it.  The invariant ties play()'s locals to the     *)
(* frames sent so far, and its clock to when they were sent.               *)
(***************************************************************************)
EXTENDS Replay, FiniteSetTheorems, SequenceTheorems, TLAPS

-----------------------------------------------------------------------------
(* The plan. *)

LEMMA ClampedWithin ==
    ASSUME NEW d \in Int
    PROVE  /\ Clamped(d) \in Int
           /\ ToRadians(Clamped(d)) \in Low..High
           /\ ToDegrees(ToRadians(d)) = d
           /\ ToRadians(d) \in Int
  BY ReplayAssumption DEF Clamped, ToRadians, ToDegrees

\* The frames of a request that passed preflight: as many as the range has, each with its
\* recording, and none outside the limits.
PlanIsRange ==
    LET n == Cardinality(FrameRange) IN
    /\ n \in Nat \ {0} /\ request.first \in Nat
    /\ Len(Planned) = n
    /\ \A k \in 1..n :
          /\ request.first + k - 1 \in FrameRange
          /\ Recorded[k] = request.actions[request.first + k - 1]
          /\ Recorded[k] \in Int
          /\ Planned[k] = Clamped(Recorded[k])
          /\ Planned[k] \in Int
    /\ Start \in Int

LEMMA RequestTypes ==
    ASSUME request \in Requests
    PROVE  /\ request.actions \in Seq(Int) /\ request.states \in Seq(Int)
           /\ Len(request.states) = Len(request.actions)
           /\ request.first \in Int /\ request.last \in Int
           /\ request.tolerance \in Nat
           /\ request.policy \in Policies
           /\ request.approval \in Approvals
  BY ReplayAssumption

LEMMA PlanTypes ==
    ASSUME request \in Requests, PreflightPasses
    PROVE  PlanIsRange
<1> DEFINE n == Cardinality(FrameRange)
           a == request.first
           b == request.last
           top == Len(request.actions)
<1>1. /\ request.actions \in Seq(Int) /\ request.states \in Seq(Int)
      /\ Len(request.states) = Len(request.actions)
  BY RequestTypes
<1>2. a \in Int /\ b \in Int
  BY RequestTypes
<1>3. a \in 1..top /\ b \in 1..top /\ a <= b
  <2>1. a \in DOMAIN request.actions /\ b \in DOMAIN request.actions /\ a <= b
    BY DEF PreflightPasses, RangeExists
  <2>2. DOMAIN request.actions = 1..top
    BY <1>1
  <2>3. QED BY <2>1, <2>2
<1>4. top \in Nat
  BY <1>1
<1>5. /\ n \in Nat \ {0} /\ a \in Nat
      /\ \A k \in 1..n : a + k - 1 \in FrameRange /\ a + k - 1 \in 1..top
  <2> HIDE DEF a, b, top
  <2>1. FrameRange = a..b
    BY DEF FrameRange, a, b
  <2>2. n = b - a + 1
    BY <1>2, <1>3, <2>1, FS_Interval
  <2> HIDE DEF n
  <2>3. n \in Nat \ {0} /\ a \in Nat
    BY <1>2, <1>3, <1>4, <2>2
  <2>4. \A k \in 1..n : a + k - 1 \in a..b /\ a + k - 1 \in 1..top
    BY <1>2, <1>3, <1>4, <2>2, <2>3
  <2>5. QED BY <2>1, <2>3, <2>4
<1> HIDE DEF n
<1>6. Recorded = [k \in 1..n |-> request.actions[request.first + k - 1]]
  BY DEF Recorded, n
<1>7. \A k \in 1..n : /\ Recorded[k] = request.actions[request.first + k - 1]
                      /\ Recorded[k] \in Int
  <2>1. \A i \in 1..top : request.actions[i] \in Int
    BY <1>1
  <2>2. \A k \in 1..n : Recorded[k] = request.actions[request.first + k - 1]
    BY <1>6, Zenon
  <2>3. QED BY <1>5, <2>1, <2>2, Zenon
<1>8. Planned = [k \in 1..n |-> Clamped(Recorded[k])]
  BY <1>6 DEF Planned
<1>9. \A k \in 1..n : Planned[k] = Clamped(Recorded[k]) /\ Planned[k] \in Int
  BY <1>7, <1>8, ClampedWithin
<1>10. Len(Planned) = n
  <2>1. Planned \in [1..n -> Int]
    BY <1>8, <1>9
  <2>2. QED BY <1>5, <2>1
<1>11. Start \in Int
  <2>1. \A i \in 1..Len(request.states) : request.states[i] \in Int
    BY <1>1
  <2>2. request.states[request.first] \in Int
    BY <1>1, <1>3, <2>1, Zenon
  <2>3. QED BY <2>2, ClampedWithin DEF Start
<1>12. QED BY <1>5, <1>7, <1>9, <1>10, <1>11 DEF PlanIsRange, n

-----------------------------------------------------------------------------
(* The arm and the locals. *)

ArmFrames == {"none", "hold", "part hold", "motion", "part motion"}
Lifecycles == {"disconnected", "connected", "enabled", "fault"}

LEMMA ArmSet ==
    ASSUME NEW a \in Arms, NEW f \in ArmFrames, NEW l \in Lifecycles,
           NEW p \in Poses, NEW b \in BOOLEAN
    PROVE  /\ [a EXCEPT !.frame = f] \in Arms /\ [a EXCEPT !.frame = f].pose = a.pose
           /\ [a EXCEPT !.lifecycle = l] \in Arms
           /\ [a EXCEPT !.lifecycle = l, !.frame = f] \in Arms
           /\ [a EXCEPT !.lifecycle = l, !.frame = f].pose = a.pose
           /\ [a EXCEPT !.pose = p, !.finite = b, !.lifecycle = l] \in Arms
           /\ [a EXCEPT !.pose = p, !.finite = b, !.lifecycle = l].pose = p
<1>1. /\ [a EXCEPT !.frame = f] \in Arms
      /\ [a EXCEPT !.lifecycle = l] \in Arms
      /\ [a EXCEPT !.lifecycle = l, !.frame = f] \in Arms
  BY DEF Arms, ArmFrames, Lifecycles
<1>2. [a EXCEPT !.pose = p, !.finite = b, !.lifecycle = l] \in Arms
  BY DEF Arms, Lifecycles
<1>3. /\ [a EXCEPT !.frame = f].pose = a.pose
      /\ [a EXCEPT !.lifecycle = l, !.frame = f].pose = a.pose
      /\ [a EXCEPT !.pose = p, !.finite = b, !.lifecycle = l].pose = p
  BY DEF Arms
<1>4. QED BY <1>1, <1>2, <1>3

LEMMA ArmTypes ==
    ASSUME NEW a \in Arms
    PROVE  a.lifecycle \in Lifecycles /\ a.frame \in ArmFrames /\ a.pose \in Poses
  BY DEF Arms, Lifecycles, ArmFrames

\* An arm that nothing moves is within Drift of where it was.
LEMMA RestsType ==
    ASSUME NEW r \in Arms, NEW a \in Rests(r)
    PROVE  a \in Arms /\ Distance(a.pose, r.pose) <= Drift
<1> DEFINE Near == {p \in Poses : Distance(p, r.pose) <= Drift}
<1>1. r.lifecycle \in Lifecycles /\ r.frame \in ArmFrames
  BY ArmTypes
<1>2. a \in [lifecycle: {r.lifecycle, "fault"}, frame: {r.frame}, finite: BOOLEAN, pose: Near]
  BY DEF Rests
<1>3. Near \subseteq Poses /\ \A p \in Near : Distance(p, r.pose) <= Drift
  OBVIOUS
<1> HIDE DEF Near
<1>4. a \in Arms
  BY <1>1, <1>2, <1>3 DEF Arms, Lifecycles, ArmFrames
<1>5. a.pose \in Near
  BY <1>2
<1>6. QED BY <1>3, <1>4, <1>5

LEMMA ReadsType ==
    ASSUME arm \in Arms, NEW a \in Reads
    PROVE  a \in Arms /\ (motors = << >> => Distance(a.pose, arm.pose) <= Drift)
<1>1. CASE motors = << >>
  BY <1>1, RestsType DEF Reads
<1>2. CASE motors # << >>
  <2>1. a \in [lifecycle: {arm.lifecycle, "fault"}, frame: {arm.frame}, pose: Poses,
               finite: BOOLEAN]
    BY <1>2 DEF Reads
  <2>2. arm.lifecycle \in Lifecycles /\ arm.frame \in ArmFrames
    BY ArmTypes
  <2>3. QED BY <1>2, <2>1, <2>2 DEF Arms, Lifecycles, ArmFrames
<1>3. QED BY <1>1, <1>2

LEMMA HoldsType ==
    ASSUME NEW a \in Arms, NEW why, NEW h \in Holds(a, why)
    PROVE  h \in Arms
<1>1. \/ h = a
      \/ \E f \in {"hold", "part hold"} : h = [a EXCEPT !.frame = f]
  BY Zenon DEF Holds
<1>2. ASSUME NEW f \in ArmFrames
      PROVE  [a EXCEPT !.frame = f] \in Arms
  BY DEF Arms, ArmFrames
<1>3. QED BY <1>1, <1>2 DEF ArmFrames

LEMMA LegFailsType == LegFails \subseteq Arms
  BY DEF LegFails, Arms

Loops == [next: Nat, now: Nat, began: Nat, beat: Nat, missed: Nat, over: Nat]
Endings == {"no", "completed", "stopped", "raised"}
Reports == [sent: Nat, last: Nat, clipped: Nat, ended: Endings]
Sends == [frame: Nat, to: Int, at: Nat]

\* What is left of a report when its run ends: everything but the ending.
EndedReport(r, q, how) ==
    /\ q \in Reports
    /\ q.sent = r.sent
    /\ q.last = r.last
    /\ q.clipped = r.clipped
    /\ q.ended = how

LEMMA EndedOnly ==
    ASSUME NEW r \in Reports, NEW how \in Endings
    PROVE  EndedReport(r, [r EXCEPT !.ended = how], how)
  BY DEF Reports, EndedReport

LEMMA EndsOutcome ==
    ASSUME NEW a \in Arms, report \in Reports, NEW how \in Endings,
           Ends(a, how) \/ (how = "raised" /\ Unwinds(a)) \/ (how = "stopped" /\ Stops(a))
    PROVE  phase' = "closing" /\ arm' \in Arms /\ EndedReport(report, report', how)
  BY HoldsType, EndedOnly DEF Ends, Stops, Unwinds

-----------------------------------------------------------------------------
(* The invariant. *)

\* Nothing happens without a preflight, nothing moves on a dry run, and the first frame is
\* due only on an arm that stands at the recorded start.
Control ==
    /\ phase \notin {"asked", "refused"} => PreflightPasses
    /\ phase \notin {"asked", "refused", "over"} => ~request.dry
    /\ report.ended # "no" => phase \in {"closing", "over"}
    /\ motors # << >> => phase \in {"tick", "pace", "closing", "over"}
    /\ phase = "pace" => motors # << >>
    /\ phase = "start" \/ (phase = "tick" /\ motors = << >>) => AtStart(arm.pose)
    /\ report.ended = "completed" /\ ~request.dry => Len(motors) = Cardinality(FrameRange)

\* The motors have the first frames of the plan, and play()'s counters say which.
Played ==
    /\ loop.next = Len(motors) + 1
    /\ motors # << >> => Len(motors) <= Cardinality(FrameRange)
    /\ \A k \in 1..Len(motors) : /\ motors[k].frame = request.first + k - 1
                                 /\ motors[k].to = ToRadians(Planned[k])
    /\ report.sent = Len(motors)
    /\ motors # << >> => report.last = request.first + Len(motors) - 1
    /\ report.clipped \in Cardinality({k \in 1..Len(motors) : Planned[k] # Recorded[k]})..report.sent

\* The time k frames take.
Takes(k) == k * Period

\* The clock of the loop: a tick begins a period or more after the one before it began.
Clock ==
    /\ phase = "tick" =>
          \A i \in 1..Len(motors) : loop.now >= motors[i].at + Takes(Len(motors) - i)
    /\ phase = "pace" =>
          /\ loop.now >= loop.began
          /\ loop.now >= motors[Len(motors)].at
          /\ \A i \in 1..(Len(motors) - 1) :
                loop.began >= motors[i].at + Takes(Len(motors) - 1 - i)
    /\ \A i, j \in 1..Len(motors) :
          i < j => motors[j].at - motors[i].at >= Takes(j - i - 1)

RInv == TypeOK /\ Control /\ Played /\ Clock

\* A step in which the motors get no frame.
Quiet ==
    /\ request' = request
    /\ motors' = motors
    /\ loop'.next = loop.next
    /\ report'.sent = report.sent
    /\ report'.last = report.last
    /\ report'.clipped = report.clipped

\* The frame of a tick that read the arm as a.
Plays(a, at, over) ==
    /\ phase = "tick" /\ phase' = "pace"
    /\ loop.next <= Len(Planned)
    /\ at \in Nat /\ at >= loop.now /\ over \in Nat
    /\ request' = request
    /\ cancelled' = cancelled
    /\ arm' = [a EXCEPT !.frame = "motion"]
    /\ motors' = Append(motors, [frame |-> request.first + loop.next - 1,
                                 to |-> ToRadians(Planned[loop.next]),
                                 at |-> at])
    /\ report' \in Counted(report, loop.next)
    /\ loop' = [loop EXCEPT !.next = @ + 1, !.began = loop.now, !.now = at, !.over = over]

LEMMA SameRequest ==
    ASSUME request' = request
    PROVE  /\ PreflightPasses' = PreflightPasses
           /\ FrameRange' = FrameRange
           /\ Planned' = Planned
           /\ Recorded' = Recorded
           /\ Start' = Start
           /\ \A p : AtStart(p)' = AtStart(p)
<1>1. FrameRange' = FrameRange /\ RangeExists' = RangeExists
  BY DEF FrameRange, RangeExists
<1>2. Recorded' = Recorded
  BY <1>1 DEF Recorded
<1>3. Planned' = Planned
  BY <1>2 DEF Planned
<1>4. Start' = Start
  BY DEF Start
<1>5. \A p : AtStart(p)' = AtStart(p)
  BY <1>4 DEF AtStart
<1>6. PreflightPasses' = PreflightPasses
  <2>1. SmallSteps' = SmallSteps
    BY <1>2 DEF SmallSteps
  <2>2. \A d : WithinPolicy(d)' = WithinPolicy(d)
    BY DEF WithinPolicy
  <2>3. QED BY <1>1, <1>2, <2>1, <2>2 DEF PreflightPasses
<1>7. QED BY <1>1, <1>2, <1>3, <1>4, <1>5, <1>6

LEMMA LoopTypes ==
    ASSUME NEW l \in Loops
    PROVE  /\ l.next \in Nat /\ l.now \in Nat /\ l.began \in Nat
           /\ l.beat \in Nat /\ l.missed \in Nat /\ l.over \in Nat
  BY DEF Loops

LEMMA TakesStep ==
    ASSUME NEW k \in Nat
    PROVE  Takes(k) \in Nat /\ Takes(k + 1) = Takes(k) + Period /\ Takes(0) = 0
<1>1. Period \in Nat
  BY ReplayAssumption
<1>2. QED BY <1>1 DEF Takes

LEMMA ReportTypes ==
    ASSUME NEW r \in Reports
    PROVE  r.sent \in Nat /\ r.last \in Nat /\ r.clipped \in Nat /\ r.ended \in Endings
  BY DEF Reports

LEMMA StateTypes ==
    ASSUME TypeOK
    PROVE  /\ request \in Requests /\ phase \in Phases /\ arm \in Arms
           /\ cancelled \in BOOLEAN /\ loop \in Loops /\ report \in Reports
           /\ motors \in Seq(Sends)
  BY DEF TypeOK, Loops, Reports, Endings, Sends

LEMMA TypesState ==
    ASSUME request' \in Requests, phase' \in Phases, arm' \in Arms,
           cancelled' \in BOOLEAN, loop' \in Loops, report' \in Reports,
           motors' \in Seq(Sends)
    PROVE  TypeOK'
  BY DEF TypeOK, Loops, Reports, Endings, Sends

LEMMA SendTypes ==
    ASSUME NEW s \in Seq(Sends)
    PROVE  /\ Len(s) \in Nat
           /\ DOMAIN s = 1..Len(s)
           /\ (s = << >>) <=> (Len(s) = 0)
           /\ \A k \in 1..Len(s) : /\ s[k].frame \in Nat /\ s[k].to \in Int
                                   /\ s[k].at \in Nat
<1>1. \A k \in 1..Len(s) : s[k] \in Sends
  OBVIOUS
<1>2. ASSUME NEW e \in Sends
      PROVE  e.frame \in Nat /\ e.to \in Int /\ e.at \in Nat
  BY DEF Sends
<1>3. \A k \in 1..Len(s) : s[k].frame \in Nat /\ s[k].to \in Int /\ s[k].at \in Nat
  BY <1>1, <1>2, Zenon
<1>4. Len(s) \in Nat /\ DOMAIN s = 1..Len(s) /\ ((s = << >>) <=> (Len(s) = 0))
  OBVIOUS
<1>5. QED BY <1>3, <1>4

LEMMA InitKeeps == Init => RInv
<1> SUFFICES ASSUME Init PROVE RInv
  OBVIOUS
<1>1. arm \in Arms
  BY DEF Init, Arms
<1>2. /\ loop \in Loops /\ loop.next = 1
      /\ report \in Reports /\ report.sent = 0 /\ report.clipped = 0 /\ report.ended = "no"
  BY DEF Init, Loops, Reports, Endings
<1>3. request \in Requests /\ phase = "asked" /\ cancelled = FALSE /\ motors = << >>
  BY DEF Init
<1>4. TypeOK
  <2>1. motors \in Seq(Sends)
    BY <1>3
  <2>2. QED BY <1>1, <1>2, <1>3, <2>1 DEF TypeOK, Phases, Loops, Reports, Endings, Sends
<1>5. Len(motors) = 0 /\ 1..Len(motors) = {}
  BY <1>3
<1>6. Control
  BY <1>2, <1>3 DEF Control
<1>7. {k \in 1..Len(motors) : Planned[k] # Recorded[k]} = {}
  BY <1>5
<1>8. Played
  BY <1>2, <1>3, <1>5, <1>7, FS_EmptySet DEF Played
<1>9. Clock
  BY <1>3, <1>5 DEF Clock
<1>10. QED BY <1>4, <1>6, <1>8, <1>9 DEF RInv

\* A step that sends nothing leaves the account as it is; the clock is a matter of the
\* steps of the loop.
LEMMA QuietPlayed ==
    ASSUME Played, Quiet
    PROVE  Played'
<1>1. /\ FrameRange' = FrameRange /\ Planned' = Planned /\ Recorded' = Recorded
      /\ request' = request
  BY SameRequest DEF Quiet
<1>2. {k \in 1..Len(motors) : Planned[k] # Recorded[k]}' =
            {k \in 1..Len(motors) : Planned[k] # Recorded[k]}
  BY <1>1 DEF Quiet
<1>3. QED BY <1>1, <1>2 DEF Played, Quiet, ToRadians

LEMMA QuietClock ==
    ASSUME TypeOK, Clock, motors' = motors, phase' # "pace",
           phase' # "tick" \/ motors = << >>
    PROVE  Clock'
<1>1. motors = << >> => 1..Len(motors) = {}
  OBVIOUS
<1>2. phase' = "tick" =>
          \A i \in 1..Len(motors) : loop'.now >= motors[i].at + Takes(Len(motors) - i)
  BY <1>1
<1>3. QED BY <1>2 DEF Clock, Takes

\* What is left to show of a step outside the loop.
LEMMA QuietKeeps ==
    ASSUME RInv, TypeOK', Control', Quiet, phase' # "pace",
           phase' # "tick" \/ motors = << >>
    PROVE  RInv'
  BY QuietPlayed, QuietClock DEF RInv, Quiet

\* A run that ends with a report or an exception.
LEMMA EndKeeps ==
    ASSUME RInv, NEW how \in {"stopped", "raised"}, request' = request, motors' = motors,
           loop' \in Loops, loop'.next = loop.next, cancelled' \in BOOLEAN,
           phase' \in {"closing", "over"}, arm' \in Arms, EndedReport(report, report', how),
           PreflightPasses, ~request.dry
    PROVE  RInv'
<1>1. TypeOK'
  BY StateTypes, TypesState DEF RInv, EndedReport, Phases
<1>2. Quiet
  BY DEF Quiet, EndedReport
<1>3. Control'
  BY SameRequest DEF Control, EndedReport
<1>4. QED BY <1>1, <1>2, <1>3, QuietKeeps

-----------------------------------------------------------------------------
(* The steps before the first tick, and after the last. *)

LEMMA PreflightKeeps ==
    ASSUME RInv, Refuse \/ DryRun \/ Open
    PROVE  RInv'
<1>1. /\ request \in Requests /\ arm \in Arms /\ cancelled \in BOOLEAN /\ loop \in Loops
      /\ report \in Reports /\ motors \in Seq(Sends)
  BY StateTypes DEF RInv
<1>2. /\ phase = "asked" /\ UNCHANGED <<request, cancelled, loop, motors>>
      /\ motors = << >> /\ report.ended = "no"
  BY DEF RInv, Control, Refuse, DryRun, Open
<1>3. CASE Refuse
  <2>1. TypeOK' /\ Quiet
    BY <1>1, <1>2, <1>3, TypesState DEF Refuse, Phases, Quiet
  <2>2. Control'
    BY <1>2, <1>3 DEF Refuse, Control
  <2>3. QED BY <1>2, <1>3, <2>1, <2>2, QuietKeeps DEF Refuse
<1>4. CASE DryRun
  <2>1. EndedReport(report, report', "completed")
    BY <1>1, <1>4, EndedOnly DEF DryRun, Endings
  <2>2. TypeOK' /\ Quiet
    BY <1>1, <1>2, <1>4, <2>1, TypesState DEF DryRun, Phases, Quiet, EndedReport
  <2>3. Control'
    BY <1>2, <1>4, <2>1, SameRequest DEF DryRun, Control, EndedReport
  <2>4. QED BY <1>2, <1>4, <2>2, <2>3, QuietKeeps DEF DryRun
<1>5. CASE Open
  <2>1. CASE phase' = "align"
    <3>1. arm' \in Arms /\ report' = report
      <4>1. arm' = [arm EXCEPT !.lifecycle = "connected"] /\ report' = report
        BY <1>5, <2>1, Zenon DEF Open
      <4>2. [arm EXCEPT !.lifecycle = "connected"] \in Arms
        BY <1>1 DEF Arms
      <4>3. QED BY <4>1, <4>2
    <3>2. TypeOK' /\ Quiet
      BY <1>1, <1>2, <2>1, <3>1, TypesState DEF Phases, Quiet
    <3>3. Control'
      BY <1>2, <1>5, <2>1, <3>1, SameRequest DEF Open, Control
    <3>4. QED BY <2>1, <3>2, <3>3, QuietKeeps
  <2>2. CASE phase' = "over"
    <3>1. EndedReport(report, report', "raised") /\ arm' \in Arms
      BY <1>1, <1>5, <2>2, EndedOnly DEF Open, Endings
    <3>2. QED BY <1>1, <1>2, <1>5, <2>2, <3>1, EndKeeps DEF Open
  <2>3. QED BY <1>5, <2>1, <2>2 DEF Open
<1>6. QED BY <1>3, <1>4, <1>5

LEMMA AlignKeeps ==
    ASSUME RInv, AlignReads
    PROVE  RInv'
<1>1. /\ request \in Requests /\ arm \in Arms /\ cancelled \in BOOLEAN /\ loop \in Loops
      /\ report \in Reports /\ motors \in Seq(Sends)
  BY StateTypes DEF RInv
<1>2. /\ phase = "align" /\ UNCHANGED <<request, cancelled, loop, motors>>
      /\ motors = << >> /\ report.ended = "no" /\ PreflightPasses /\ ~request.dry
  BY DEF RInv, Control, AlignReads
<1>3. PICK a \in Rests(arm) :
        \/ /\ ~a.finite
           /\ Stops(a)
        \/ /\ a.finite
           /\ phase' = IF AtStart(a.pose) THEN "start"
                       ELSE IF request.approval.staged THEN "staging" ELSE "approach"
           /\ arm' = a
           /\ UNCHANGED report
  BY DEF AlignReads
<1>4. a \in Arms
  BY <1>1, RestsType
<1>5. CASE Stops(a)
  BY <1>1, <1>2, <1>4, <1>5, EndsOutcome, EndKeeps DEF Endings
<1>6. CASE ~Stops(a)
  <2>1. /\ phase' = IF AtStart(a.pose) THEN "start"
                    ELSE IF request.approval.staged THEN "staging" ELSE "approach"
        /\ arm' = a /\ report' = report
    BY <1>3, <1>6
  <2>2. phase' \in {"start", "staging", "approach"} /\ (phase' = "start" => AtStart(arm'.pose))
    BY <2>1
  <2>3. TypeOK' /\ Quiet
    BY <1>1, <1>2, <1>4, <2>1, <2>2, TypesState DEF Phases, Quiet
  <2>4. Control'
    BY <1>2, <2>1, <2>2, SameRequest DEF Control, AtStart
  <2>5. QED BY <2>2, <2>3, <2>4, QuietKeeps
<1>7. QED BY <1>5, <1>6

\* A leg that arrives leaves the arm enabled, and where the leg was to take it.
LEMMA LegOutcome ==
    ASSUME arm \in Arms, report \in Reports, NEW goals \in SUBSET Poses, NEW next,
           Leg(goals, next)
    PROVE  /\ UNCHANGED <<request, cancelled, loop, motors>>
           /\ arm' \in Arms
           /\ \/ phase' = next /\ report' = report /\ arm'.pose \in goals
              \/ phase' = "closing" /\ EndedReport(report, report', "stopped")
              \/ phase' = "closing" /\ EndedReport(report, report', "raised")
<1>1. UNCHANGED <<request, cancelled, loop, motors>>
  BY DEF Leg
<1>2. CASE \E a \in LegFails : Stops(a) \/ Unwinds(a)
  <2>1. PICK a \in LegFails : Stops(a) \/ Unwinds(a)
    BY <1>2
  <2>2. a \in Arms
    BY LegFailsType
  <2>3. QED BY <1>1, <2>1, <2>2, EndsOutcome DEF Endings
<1>3. CASE /\ \E p \in goals : arm' = [lifecycle |-> "enabled", frame |-> "motion",
                                       pose |-> p, finite |-> TRUE]
           /\ phase' = next
           /\ UNCHANGED report
  <2>1. PICK p \in goals : arm' = [lifecycle |-> "enabled", frame |-> "motion",
                                   pose |-> p, finite |-> TRUE]
    BY <1>3
  <2>2. p \in Poses
    OBVIOUS
  <2>3. arm' \in Arms /\ arm'.pose = p
    BY <2>1, <2>2 DEF Arms
  <2>4. QED BY <1>1, <1>3, <2>3
<1>4. QED BY <1>2, <1>3 DEF Leg

LEMMA LegKeeps ==
    ASSUME RInv, Stage \/ Approach
    PROVE  RInv'
<1>1. /\ request \in Requests /\ arm \in Arms /\ cancelled \in BOOLEAN /\ loop \in Loops
      /\ report \in Reports /\ motors \in Seq(Sends)
  BY StateTypes DEF RInv
<1>2. /\ phase \in {"staging", "approach"} /\ motors = << >> /\ report.ended = "no"
      /\ PreflightPasses /\ ~request.dry
  BY DEF RInv, Control, Stage, Approach
<1>3. /\ UNCHANGED <<request, cancelled, loop, motors>>
      /\ arm' \in Arms
      /\ \/ /\ phase' \in {"approach", "start"} /\ report' = report
            /\ phase' = "start" => AtStart(arm'.pose)
         \/ phase' = "closing" /\ EndedReport(report, report', "stopped")
         \/ phase' = "closing" /\ EndedReport(report, report', "raised")
  <2>1. CASE Stage
    BY <1>1, <2>1, LegOutcome DEF Stage
  <2>2. CASE Approach
    <3> DEFINE There == {p \in Poses : AtStart(p)}
    <3>1. Leg(There, "start")
      BY <2>2 DEF Approach
    <3>2. There \subseteq Poses /\ \A p \in There : AtStart(p)
      OBVIOUS
    <3> HIDE DEF There
    <3>3. QED BY <1>1, <3>1, <3>2, LegOutcome
  <2>3. QED BY <2>1, <2>2
<1>4. CASE report' = report /\ phase' \in {"approach", "start"}
  <2>1. phase' = "start" => AtStart(arm'.pose)
    BY <1>3, <1>4
  <2>2. TypeOK' /\ Quiet
    BY <1>1, <1>3, <1>4, TypesState DEF Phases, Quiet
  <2>3. Control'
    BY <1>2, <1>3, <1>4, <2>1, SameRequest DEF Control, AtStart
  <2>4. QED BY <1>4, <2>2, <2>3, QuietKeeps
<1>5. CASE \E how \in {"stopped", "raised"} : phase' = "closing" /\ EndedReport(report, report', how)
  BY <1>1, <1>2, <1>3, <1>5, EndKeeps
<1>6. QED BY <1>3, <1>4, <1>5

LEMMA StartKeeps ==
    ASSUME RInv, StartPlaying
    PROVE  RInv'
<1>1. /\ request \in Requests /\ arm \in Arms /\ cancelled \in BOOLEAN /\ loop \in Loops
      /\ report \in Reports /\ motors \in Seq(Sends)
  BY StateTypes DEF RInv
<1>2. /\ phase = "start" /\ UNCHANGED <<request, cancelled, loop, motors>>
      /\ motors = << >> /\ report.ended = "no" /\ PreflightPasses /\ ~request.dry
      /\ AtStart(arm.pose)
  BY DEF RInv, Control, StartPlaying
<1>3. CASE Unwinds([arm EXCEPT !.frame = "part hold"])
  <2>1. [arm EXCEPT !.frame = "part hold"] \in Arms
    BY <1>1 DEF Arms
  <2>2. QED BY <1>1, <1>2, <1>3, <2>1, EndsOutcome, EndKeeps DEF Endings
<1>4. CASE /\ phase' = "tick" /\ UNCHANGED report
           /\ arm' = arm \/ arm' = [arm EXCEPT !.lifecycle = "enabled", !.frame = "hold"]
  <2>1. arm' \in Arms /\ arm'.pose = arm.pose
    <3>1. /\ [arm EXCEPT !.lifecycle = "enabled", !.frame = "hold"] \in Arms
          /\ [arm EXCEPT !.lifecycle = "enabled", !.frame = "hold"].pose = arm.pose
      BY <1>1 DEF Arms
    <3>2. QED BY <1>1, <1>4, <3>1
  <2>2. TypeOK' /\ Quiet
    BY <1>1, <1>2, <1>4, <2>1, TypesState DEF Phases, Quiet
  <2>3. Control'
    BY <1>2, <1>4, <2>1, SameRequest DEF Control, AtStart
  <2>4. QED BY <1>2, <1>4, <2>2, <2>3, QuietKeeps
<1>5. QED BY <1>3, <1>4 DEF StartPlaying

LEMMA CompleteKeeps ==
    ASSUME RInv, Complete
    PROVE  RInv'
<1>1. /\ request \in Requests /\ arm \in Arms /\ cancelled \in BOOLEAN /\ loop \in Loops
      /\ report \in Reports /\ motors \in Seq(Sends)
  BY StateTypes DEF RInv
<1>2. /\ phase = "tick" /\ UNCHANGED <<request, cancelled, loop, motors>>
      /\ loop.next > Len(Planned) /\ Ends(arm, "completed") /\ PreflightPasses /\ ~request.dry
  BY DEF RInv, Control, Complete
<1>3. phase' = "closing" /\ arm' \in Arms /\ EndedReport(report, report', "completed")
  BY <1>1, <1>2, EndsOutcome DEF Endings
<1>4. TypeOK' /\ Quiet
  BY <1>1, <1>2, <1>3, TypesState DEF Phases, Quiet, EndedReport
<1>5. Len(motors) = Cardinality(FrameRange)
  <2> DEFINE n == Cardinality(FrameRange)
             len == Len(motors)
  <2>1. n \in Nat \ {0} /\ Len(Planned) = n
    BY <1>1, <1>2, PlanTypes DEF PlanIsRange
  <2>2. len \in Nat /\ (motors = << >> <=> len = 0)
    BY <1>1, SendTypes
  <2>3. loop.next = len + 1 /\ (motors # << >> => len <= n)
    BY DEF RInv, Played
  <2> HIDE DEF n, len
  <2>4. len = n
    BY <1>2, <2>1, <2>2, <2>3
  <2>5. QED BY <2>4 DEF n, len
<1>6. Control'
  BY <1>2, <1>3, <1>5, SameRequest DEF Control, EndedReport
<1>7. QED BY <1>3, <1>4, <1>6, QuietKeeps

LEMMA CloseKeeps ==
    ASSUME RInv, Close
    PROVE  RInv'
<1>1. /\ request \in Requests /\ arm \in Arms /\ cancelled \in BOOLEAN /\ loop \in Loops
      /\ report \in Reports /\ motors \in Seq(Sends)
  BY StateTypes DEF RInv
<1>2. /\ phase = "closing" /\ phase' = "over" /\ UNCHANGED <<request, cancelled, loop, motors>>
      /\ PreflightPasses /\ ~request.dry
  BY DEF RInv, Control, Close
<1>3. /\ [arm EXCEPT !.lifecycle = "disconnected"] \in Arms
      /\ [arm EXCEPT !.lifecycle = "disconnected", !.frame = "none"] \in Arms
  BY <1>1 DEF Arms
<1>4. arm' \in Arms
  BY <1>3, Zenon DEF Close
<1>5. report' = report \/ report' = [report EXCEPT !.ended = "raised"]
  BY Zenon DEF Close
<1>6. CASE report' = report
  <2>1. TypeOK' /\ Quiet
    BY <1>1, <1>2, <1>4, <1>6, TypesState DEF Phases, Quiet
  <2>2. Control'
    BY <1>2, <1>6, SameRequest DEF RInv, Control
  <2>3. QED BY <1>2, <2>1, <2>2, QuietKeeps
<1>7. CASE report' = [report EXCEPT !.ended = "raised"]
  <2>1. EndedReport(report, report', "raised")
    BY <1>1, <1>7, EndedOnly DEF Endings
  <2>2. QED BY <1>1, <1>2, <1>4, <2>1, EndKeeps
<1>8. QED BY <1>5, <1>6, <1>7

LEMMA CancelKeeps ==
    ASSUME RInv, Cancel
    PROVE  RInv'
<1>1. UNCHANGED <<request, phase, arm, loop, report, motors>> /\ cancelled' = TRUE
  BY DEF Cancel
<1>2. TypeOK'
  BY <1>1, StateTypes, TypesState DEF RInv
<1>3. Control' /\ Quiet
  BY <1>1, SameRequest DEF RInv, Control, AtStart, Quiet
<1>4. Clock'
  BY <1>1 DEF RInv, Clock, Takes
<1>5. QED BY <1>2, <1>3, <1>4, QuietPlayed DEF RInv

-----------------------------------------------------------------------------
(* The loop. *)

LEMMA TickOutcome ==
    ASSUME RInv, Tick
    PROVE  \/ \E how \in {"stopped", "raised"} :
                 /\ UNCHANGED <<request, cancelled, loop, motors>>
                 /\ phase' = "closing" /\ arm' \in Arms /\ EndedReport(report, report', how)
           \/ \E a \in Reads, at \in Nat, over \in Nat : Plays(a, at, over)
<1>1. /\ request \in Requests /\ arm \in Arms /\ loop \in Loops /\ report \in Reports
  BY StateTypes DEF RInv
<1>2. UNCHANGED <<request, cancelled>> /\ phase = "tick" /\ loop.next <= Len(Planned)
  BY DEF Tick
<1>3. CASE Stops(arm) /\ UNCHANGED <<loop, motors>>
  BY <1>1, <1>2, <1>3, EndsOutcome DEF Endings
<1>4. ASSUME NEW a \in Reads, Stops(a) \/ Unwinds([a EXCEPT !.frame = "part motion"]),
             UNCHANGED <<loop, motors>>
      PROVE  \E how \in {"stopped", "raised"} :
                 /\ UNCHANGED <<request, cancelled, loop, motors>>
                 /\ phase' = "closing" /\ arm' \in Arms /\ EndedReport(report, report', how)
  <2>1. a \in Arms
    BY <1>1, ReadsType
  <2>2. [a EXCEPT !.frame = "part motion"] \in Arms
    BY <2>1 DEF Arms
  <2>3. QED BY <1>1, <1>2, <1>4, <2>1, <2>2, EndsOutcome DEF Endings
<1>5. ASSUME NEW a \in Reads, NEW took \in 0..LongestTick, NEW at, NEW over,
             at = loop.now + took,
             over = IF Deviates(a) THEN loop.over + 1 ELSE 0,
             phase' = "pace",
             arm' = [a EXCEPT !.frame = "motion"],
             motors' = Append(motors, [frame |-> request.first + loop.next - 1,
                                       to |-> ToRadians(Planned[loop.next]),
                                       at |-> at]),
             report' \in Counted(report, loop.next),
             loop' = [loop EXCEPT !.next = @ + 1, !.began = loop.now,
                                  !.now = at, !.over = over]
      PROVE  \E b \in Reads, t \in Nat, o \in Nat : Plays(b, t, o)
  <2>1. loop.now \in Nat /\ loop.over \in Nat
    BY <1>1, LoopTypes
  <2>2. took \in Nat
    BY ReplayAssumption
  <2>3. at \in Nat /\ at >= loop.now /\ over \in Nat
    BY <1>5, <2>1, <2>2
  <2>4. Plays(a, at, over)
    BY <1>2, <1>5, <2>3 DEF Plays
  <2>5. QED BY <2>3, <2>4
<1>6. CASE \E a \in Reads, took \in 0..LongestTick :
              LET over == IF Deviates(a) THEN loop.over + 1 ELSE 0
                  at == loop.now + took
              IN \/ /\ \/ a.lifecycle = "fault"
                       \/ ~a.finite
                       \/ over > MaxMissed
                    /\ Stops(a)
                    /\ UNCHANGED <<loop, motors>>
                 \/ /\ a.lifecycle = "enabled" /\ a.finite /\ over <= MaxMissed
                    /\ \/ /\ phase' = "pace"
                          /\ arm' = [a EXCEPT !.frame = "motion"]
                          /\ motors' = Append(motors, [frame |-> request.first + loop.next - 1,
                                                       to |-> ToRadians(Planned[loop.next]),
                                                       at |-> at])
                          /\ report' \in Counted(report, loop.next)
                          /\ loop' = [loop EXCEPT !.next = @ + 1, !.began = loop.now,
                                                  !.now = at, !.over = over]
                       \/ /\ Unwinds([a EXCEPT !.frame = "part motion"])
                          /\ UNCHANGED <<loop, motors>>
  <2>1. PICK a \in Reads, took \in 0..LongestTick :
          LET over == IF Deviates(a) THEN loop.over + 1 ELSE 0
              at == loop.now + took
          IN \/ /\ Stops(a) \/ Unwinds([a EXCEPT !.frame = "part motion"])
                /\ UNCHANGED <<loop, motors>>
             \/ /\ phase' = "pace"
                /\ arm' = [a EXCEPT !.frame = "motion"]
                /\ motors' = Append(motors, [frame |-> request.first + loop.next - 1,
                                             to |-> ToRadians(Planned[loop.next]),
                                             at |-> at])
                /\ report' \in Counted(report, loop.next)
                /\ loop' = [loop EXCEPT !.next = @ + 1, !.began = loop.now,
                                        !.now = at, !.over = over]
    BY <1>6, Zenon
  <2>2. QED BY <1>4, <1>5, <2>1, Zenon
<1>7. QED BY <1>3, <1>6, Zenon DEF Tick

LEMMA CountedFields ==
    ASSUME NEW r \in Reports, NEW k \in Nat \ {0}, request.first \in Nat,
           NEW q \in Counted(r, k)
    PROVE  /\ q \in Reports
           /\ q.sent = r.sent + 1
           /\ q.last = request.first + k - 1
           /\ q.ended = r.ended
           /\ q.clipped \in {r.clipped, r.clipped + 1}
           /\ Planned[k] # Recorded[k] => q.clipped = r.clipped + 1
<1> DEFINE last == request.first + k - 1
           more == r.sent + 1
<1>1. PICK n \in (IF Planned[k] = Recorded[k] THEN {0, 1} ELSE {1}) :
        q = [r EXCEPT !.sent = more, !.last = last, !.clipped = r.clipped + n]
  BY DEF Counted
<1> DEFINE c == r.clipped + n
<1>2. r.clipped \in Nat /\ r.sent \in Nat
  BY ReportTypes
<1>3. /\ c \in Nat /\ last \in Nat /\ more \in Nat
      /\ c \in {r.clipped, r.clipped + 1}
      /\ Planned[k] # Recorded[k] => c = r.clipped + 1
  BY <1>1, <1>2
<1>4. q = [r EXCEPT !.sent = more, !.last = last, !.clipped = c]
  BY <1>1
<1> HIDE DEF c, last, more
<1>5. /\ q \in Reports
      /\ q.sent = more /\ q.last = last /\ q.ended = r.ended /\ q.clipped = c
  <2>1. q \in Reports
    BY <1>3, <1>4 DEF Reports
  <2>2. q.sent = more /\ q.last = last /\ q.ended = r.ended /\ q.clipped = c
    BY <1>3, <1>4 DEF Reports
  <2>3. QED BY <2>1, <2>2
<1>6. QED BY <1>3, <1>5 DEF last, more

\* Counting the frames that are not the recorded ones gives a number.
LEMMA AlteredAreCounted ==
    ASSUME NEW n \in Nat
    PROVE  Cardinality({k \in 1..n : Planned[k] # Recorded[k]}) \in Nat
<1> DEFINE C == {k \in 1..n : Planned[k] # Recorded[k]}
<1>1. C \subseteq 1..n
  OBVIOUS
<1> HIDE DEF C
<1>2. IsFiniteSet(1..n)
  BY FS_Interval
<1>3. Cardinality(C) \in Nat
  BY <1>1, <1>2, FS_Subset, FS_CardinalityType
<1>4. QED BY <1>3 DEF C

\* One more frame, and how many of the frames are not the recorded ones.
LEMMA OneMoreClipped ==
    ASSUME NEW n \in Nat
    PROVE  Cardinality({k \in 1..(n + 1) : Planned[k] # Recorded[k]}) =
              IF Planned[n + 1] = Recorded[n + 1] THEN Cardinality({k \in 1..n : Planned[k] # Recorded[k]})
              ELSE Cardinality({k \in 1..n : Planned[k] # Recorded[k]}) + 1
<1> DEFINE C(m) == {k \in 1..m : Planned[k] # Recorded[k]}
<1>1. 1..(n + 1) = (1..n) \cup {n + 1} /\ n + 1 \notin 1..n
  OBVIOUS
<1>2. IsFiniteSet(C(n))
  <2>1. C(n) \subseteq 1..n
    OBVIOUS
  <2> HIDE DEF C
  <2>2. IsFiniteSet(1..n)
    BY FS_Interval
  <2>3. QED BY <2>1, <2>2, FS_Subset
<1>3. n + 1 \notin C(n)
  BY <1>1
<1>4. C(n + 1) = IF Planned[n + 1] = Recorded[n + 1] THEN C(n) ELSE C(n) \cup {n + 1}
  BY <1>1
<1> HIDE DEF C
<1>5. Cardinality(C(n) \cup {n + 1}) = Cardinality(C(n)) + 1
  BY <1>2, <1>3, FS_AddElement
<1>6. Cardinality(C(n + 1)) =
          IF Planned[n + 1] = Recorded[n + 1] THEN Cardinality(C(n)) ELSE Cardinality(C(n)) + 1
  BY <1>4, <1>5
<1>7. QED BY <1>6 DEF C

\* What the motors have after one frame more.
LEMMA AppendFacts ==
    ASSUME NEW s \in Seq(Sends), NEW f \in Nat, NEW p \in Int, NEW t \in Nat
    PROVE  LET e == [frame |-> f, to |-> p, at |-> t]
               q == Append(s, e)
           IN /\ q \in Seq(Sends)
              /\ q # << >>
              /\ Len(q) = Len(s) + 1
              /\ \A k \in 1..Len(s) : q[k] = s[k]
              /\ q[Len(s) + 1].frame = f
              /\ q[Len(s) + 1].to = p
              /\ q[Len(s) + 1].at = t
<1> DEFINE e == [frame |-> f, to |-> p, at |-> t]
           q == Append(s, e)
<1>1. e \in Sends /\ e.frame = f /\ e.to = p /\ e.at = t
  BY DEF Sends
<1> HIDE DEF e
<1>2. /\ q \in Seq(Sends)
      /\ Len(q) = Len(s) + 1
      /\ \A k \in 1..Len(s) : q[k] = s[k]
      /\ q[Len(s) + 1] = e
  BY <1>1
<1>3. q # << >>
  BY <1>2
<1>4. QED BY <1>1, <1>2, <1>3 DEF e

LEMMA PlaysKeeps ==
    ASSUME RInv, NEW a \in Reads, NEW at \in Nat, NEW over \in Nat, Plays(a, at, over)
    PROVE  RInv'
<1> DEFINE len == Len(motors)
           n == Cardinality(FrameRange)
           f == request.first + loop.next - 1
           p == ToRadians(Planned[loop.next])
<1>1. /\ request \in Requests /\ arm \in Arms /\ cancelled \in BOOLEAN /\ loop \in Loops
      /\ report \in Reports /\ motors \in Seq(Sends)
  BY StateTypes DEF RInv
<1>2. /\ phase = "tick" /\ phase' = "pace" /\ UNCHANGED <<request, cancelled>>
      /\ PreflightPasses /\ ~request.dry /\ report.ended = "no" /\ loop.next <= Len(Planned)
      /\ at >= loop.now
  BY DEF Plays, RInv, Control
<1>3. PlanIsRange
  BY <1>1, <1>2, PlanTypes
<1>4. /\ len \in Nat /\ (motors = << >> <=> len = 0)
      /\ \A k \in 1..len : /\ motors[k].frame \in Nat /\ motors[k].to \in Int
                           /\ motors[k].at \in Nat
  BY <1>1, SendTypes
<1>5. loop.next = len + 1 /\ len + 1 \in 1..n /\ request.first \in Nat
  <2>1. n \in Nat /\ Len(Planned) = n /\ request.first \in Nat
    BY <1>3 DEF PlanIsRange
  <2>2. loop.next = len + 1
    BY DEF RInv, Played
  <2> HIDE DEF n, len
  <2>3. QED BY <1>2, <1>4, <2>1, <2>2
<1>6. Planned[len + 1] \in Int
  BY <1>3, <1>5 DEF PlanIsRange
<1>7. f = request.first + len /\ f \in Nat /\ p \in Int /\ p = ToRadians(Planned[len + 1])
  <2>1. p = ToRadians(Planned[len + 1])
    BY <1>5
  <2>2. p \in Int
    BY <1>6, <2>1, ClampedWithin
  <2> HIDE DEF len, p
  <2>3. f = request.first + len /\ f \in Nat
    BY <1>4, <1>5
  <2>4. QED BY <2>1, <2>2, <2>3
<1>8. /\ motors' \in Seq(Sends) /\ motors' # << >> /\ Len(motors') = len + 1
      /\ \A k \in 1..len : motors'[k] = motors[k]
      /\ motors'[len + 1].frame = f
      /\ motors'[len + 1].to = p
      /\ motors'[len + 1].at = at
  <2>1. motors' = Append(motors, [frame |-> f, to |-> p, at |-> at])
    BY DEF Plays
  <2> HIDE DEF f, p
  <2>2. QED BY <1>1, <1>7, <2>1, AppendFacts
<1>9. /\ loop' \in Loops /\ loop'.next = len + 2
      /\ loop'.began = loop.now /\ loop'.now = at
  <2> DEFINE next == loop.next + 1
  <2>1. next \in Nat /\ next = len + 2
    BY <1>4, <1>5
  <2>2. loop.now \in Nat
    BY <1>1, LoopTypes
  <2>3. loop' = [loop EXCEPT !.next = next, !.began = loop.now, !.now = at, !.over = over]
    BY DEF Plays
  <2> HIDE DEF next
  <2>4. /\ loop' \in Loops /\ loop'.next = next /\ loop'.began = loop.now /\ loop'.now = at
    <3>1. loop' \in Loops
      BY <1>1, <2>1, <2>2, <2>3 DEF Loops
    <3>2. loop'.next = next /\ loop'.began = loop.now /\ loop'.now = at
      BY <1>1, <2>1, <2>2, <2>3 DEF Loops
    <3>3. QED BY <3>1, <3>2
  <2>5. QED BY <2>1, <2>4
<1>10. /\ report' \in Reports /\ report'.sent = report.sent + 1
       /\ report'.last = request.first + len /\ report'.ended = "no"
       /\ report'.clipped \in {report.clipped, report.clipped + 1}
       /\ Planned[len + 1] # Recorded[len + 1] => report'.clipped = report.clipped + 1
  <2>1. loop.next \in Nat \ {0}
    BY <1>4, <1>5
  <2>2. report' \in Counted(report, loop.next)
    BY DEF Plays
  <2>3. /\ report' \in Reports /\ report'.sent = report.sent + 1
        /\ report'.last = f /\ report'.ended = report.ended
        /\ report'.clipped \in {report.clipped, report.clipped + 1}
        /\ Planned[loop.next] # Recorded[loop.next] => report'.clipped = report.clipped + 1
    BY <1>1, <1>5, <2>1, <2>2, CountedFields
  <2>4. QED BY <1>2, <1>5, <1>7, <2>3
<1> HIDE DEF len, n, f, p
<1>11. arm' \in Arms
  <2>1. a \in Arms
    BY <1>1, ReadsType
  <2>2. [a EXCEPT !.frame = "motion"] \in Arms
    BY <2>1 DEF Arms
  <2>3. QED BY <2>2 DEF Plays
<1>12. TypeOK'
  BY <1>1, <1>2, <1>8, <1>9, <1>10, <1>11, TypesState DEF Phases
<1>13. Control'
  BY <1>2, <1>8, <1>10, SameRequest DEF Control
<1>14. /\ FrameRange' = FrameRange /\ Planned' = Planned /\ Recorded' = Recorded
  BY <1>2, SameRequest
<1>15. Played'
  <2>1. loop'.next = Len(motors') + 1
    BY <1>4, <1>8, <1>9
  <2>2. Len(motors') <= n
    <3>1. n \in Nat
      BY <1>3 DEF PlanIsRange, n
    <3>2. QED BY <1>4, <1>5, <1>8, <3>1
  <2>3. ASSUME NEW k \in 1..Len(motors')
        PROVE  motors'[k].frame = request.first + k - 1 /\ motors'[k].to = ToRadians(Planned[k])
    <3>1. CASE k \in 1..len
      <4>1. motors[k].frame = request.first + k - 1 /\ motors[k].to = ToRadians(Planned[k])
        BY <3>1 DEF RInv, Played, len
      <4>2. QED BY <1>8, <3>1, <4>1
    <3>2. CASE k = len + 1
      <4>1. motors'[k].frame = f /\ motors'[k].to = p
        BY <1>8, <3>2
      <4>2. f = request.first + k - 1
        BY <1>4, <1>5, <1>7, <3>2
      <4>3. QED BY <1>7, <3>2, <4>1, <4>2
    <3>3. QED BY <1>4, <1>8, <3>1, <3>2
  <2>4. report'.sent = Len(motors')
    BY <1>8, <1>10 DEF RInv, Played, len
  <2>5. report'.last = request.first + Len(motors') - 1
    BY <1>4, <1>5, <1>8, <1>10
  <2>6. report'.clipped \in
            Cardinality({k \in 1..(len + 1) : Planned[k] # Recorded[k]})..report'.sent
    <3> DEFINE altered == Cardinality({k \in 1..len : Planned[k] # Recorded[k]})
               later == Cardinality({k \in 1..(len + 1) : Planned[k] # Recorded[k]})
    <3>1. report.clipped \in altered..report.sent
      BY DEF RInv, Played, len
    <3>2. /\ altered \in Nat
          /\ later = IF Planned[len + 1] = Recorded[len + 1] THEN altered ELSE altered + 1
      <4>1. altered \in Nat
        BY <1>4, AlteredAreCounted
      <4>2. later = IF Planned[len + 1] = Recorded[len + 1] THEN altered ELSE altered + 1
        <5>1. Cardinality({k \in 1..(len + 1) : Planned[k] # Recorded[k]}) =
                 IF Planned[len + 1] = Recorded[len + 1]
                 THEN Cardinality({k \in 1..len : Planned[k] # Recorded[k]})
                 ELSE Cardinality({k \in 1..len : Planned[k] # Recorded[k]}) + 1
          <6>1. len \in Nat
            BY <1>4
          <6>2. QED BY <6>1, OneMoreClipped, Zenon
        <5>2. QED BY <5>1, Zenon
      <4>3. QED BY <4>1, <4>2
    <3>3. report.clipped \in Nat /\ report.sent \in Nat
      BY <1>1, ReportTypes
    <3> HIDE DEF altered, later
    <3>4. report'.clipped \in later..report'.sent
      BY <1>10, <3>1, <3>2, <3>3
    <3>5. QED BY <3>4 DEF later
  <2>7. QED
    BY <1>2, <1>8, <1>14, <2>1, <2>2, <2>3, <2>4, <2>5, <2>6 DEF Played, n, ToRadians
<1>16. Clock'
  <2>1. loop.now \in Nat
    BY <1>1, LoopTypes
  <2>2. \A i \in 1..len : loop.now >= motors[i].at + Takes(len - i)
    BY <1>2 DEF RInv, Clock, len
  <2>3. \A i, j \in 1..len : i < j => motors[j].at - motors[i].at >= Takes(j - i - 1)
    BY DEF RInv, Clock, len
  <2>4. loop'.now >= loop'.began /\ loop'.now >= motors'[Len(motors')].at
    BY <1>2, <1>8, <1>9
  <2>5. \A i \in 1..(Len(motors') - 1) :
            loop'.began >= motors'[i].at + Takes(Len(motors') - 1 - i)
    <3>1. Len(motors') - 1 = len
      BY <1>4, <1>8
    <3>2. QED BY <1>8, <1>9, <2>2, <3>1
  <2>6. ASSUME NEW i \in 1..Len(motors'), NEW j \in 1..Len(motors'), i < j
        PROVE  motors'[j].at - motors'[i].at >= Takes(j - i - 1)
    <3>1. i \in 1..len
      BY <1>4, <1>8, <2>6
    <3>2. CASE j \in 1..len
      BY <1>8, <2>3, <2>6, <3>1, <3>2
    <3>3. CASE j = len + 1
      <4>1. motors'[j].at = at /\ motors'[i] = motors[i] /\ motors[i].at \in Nat
        BY <1>4, <1>8, <3>1, <3>3
      <4>2. j - i - 1 = len - i /\ len - i \in Nat
        BY <1>4, <3>1, <3>3
      <4>3. Takes(len - i) \in Nat
        BY <4>2, TakesStep
      <4>4. loop.now >= motors[i].at + Takes(len - i)
        BY <2>2, <3>1
      <4>5. QED BY <1>2, <2>1, <4>1, <4>2, <4>3, <4>4
    <3>4. QED BY <1>4, <1>8, <3>2, <3>3
  <2>7. QED BY <1>2, <2>4, <2>5, <2>6 DEF Clock, Takes
<1>17. QED BY <1>12, <1>13, <1>15, <1>16 DEF RInv

\* The next tick begins a period or more after the last one did, and after its frame.
LEMMA TickAgain ==
    ASSUME RInv, phase = "pace", phase' = "tick", loop' \in Loops, loop'.next = loop.next,
           loop'.now >= loop.now, loop'.now >= loop.began + Period,
           UNCHANGED <<request, cancelled, arm, report, motors>>
    PROVE  RInv'
<1> DEFINE len == Len(motors)
<1>1. /\ request \in Requests /\ arm \in Arms /\ cancelled \in BOOLEAN /\ loop \in Loops
      /\ report \in Reports /\ motors \in Seq(Sends)
  BY StateTypes DEF RInv
<1>2. TypeOK' /\ Quiet
  BY <1>1, TypesState DEF Phases, Quiet
<1>3. Control'
  BY SameRequest DEF RInv, Control
<1>4. Played'
  BY <1>2, QuietPlayed DEF RInv
<1>5. /\ len \in Nat /\ loop.now \in Nat /\ loop.began \in Nat /\ loop'.now \in Nat
      /\ Period \in Nat
  BY <1>1, SendTypes, LoopTypes, ReplayAssumption
<1>6. \A k \in 1..len : motors[k].at \in Nat
  BY <1>1, SendTypes
<1>7. /\ loop.now >= motors[len].at
      /\ \A i \in 1..(len - 1) : loop.began >= motors[i].at + Takes(len - 1 - i)
  BY DEF RInv, Clock
<1> HIDE DEF len
<1>8. ASSUME NEW i \in 1..len
      PROVE  loop'.now >= motors[i].at + Takes(len - i)
  <2>1. CASE i = len
    <3>1. Takes(len - i) = 0
      <4>1. len - i = 0
        BY <1>5, <2>1
      <4>2. Takes(0) = 0
        BY TakesStep
      <4>3. QED BY <4>1, <4>2
    <3>2. motors[i].at \in Nat
      BY <1>6
    <3>3. QED BY <1>5, <1>7, <2>1, <3>1, <3>2
  <2>2. CASE i \in 1..(len - 1)
    <3> DEFINE k == len - 1 - i
    <3>1. k \in Nat /\ len - i = k + 1
      BY <1>5, <2>2
    <3> HIDE DEF k
    <3>2. Takes(k) \in Nat /\ Takes(len - i) = Takes(k) + Period
      BY <3>1, TakesStep
    <3>3. loop.began >= motors[i].at + Takes(k)
      BY <1>7, <2>2 DEF k
    <3>4. motors[i].at \in Nat
      BY <1>6
    <3>5. QED BY <1>5, <3>2, <3>3, <3>4
  <2>3. QED BY <1>5, <2>1, <2>2
<1>9. Clock'
  BY <1>8 DEF RInv, Clock, Takes, len
<1>10. QED BY <1>2, <1>3, <1>4, <1>9 DEF RInv

LEMMA PaceKeeps ==
    ASSUME RInv, Pace
    PROVE  RInv'
<1> DEFINE beat == IF loop.now - loop.beat >= Beat THEN loop.now ELSE loop.beat
           left == Remaining
<1>1. /\ request \in Requests /\ arm \in Arms /\ cancelled \in BOOLEAN /\ loop \in Loops
      /\ report \in Reports /\ motors \in Seq(Sends)
  BY StateTypes DEF RInv
<1>2. /\ phase = "pace" /\ UNCHANGED <<request, cancelled, motors>>
      /\ PreflightPasses /\ ~request.dry
  BY DEF RInv, Control, Pace
<1>3. /\ loop.now \in Nat /\ loop.began \in Nat /\ loop.beat \in Nat /\ loop.missed \in Nat
      /\ Period \in Nat
  BY <1>1, LoopTypes, ReplayAssumption
<1>4. beat \in Nat /\ left \in Int /\ left = Period - (loop.now - loop.began)
  BY <1>3 DEF Remaining
<1>5. CASE Unwinds(arm) /\ UNCHANGED loop
  BY <1>1, <1>2, <1>5, EndsOutcome, EndKeeps DEF Endings
<1>6. CASE /\ left > 0
           /\ \E late \in 0..Oversleep :
                loop' = [loop EXCEPT !.now = @ + left + late, !.beat = beat, !.missed = 0]
           /\ phase' = "tick"
           /\ UNCHANGED <<arm, report>>
  <2>1. PICK late \in 0..Oversleep :
            loop' = [loop EXCEPT !.now = @ + left + late, !.beat = beat, !.missed = 0]
    BY <1>6
  <2> DEFINE now == loop.now + left + late
  <2>2. late \in Nat
    BY ReplayAssumption
  <2>3. loop' = [loop EXCEPT !.now = now, !.beat = beat, !.missed = 0]
    BY <2>1
  <2> HIDE DEF beat, left
  <2>4. now \in Nat /\ now >= loop.now /\ now >= loop.began + Period
    BY <1>3, <1>4, <1>6, <2>2
  <2> HIDE DEF now
  <2>5. loop' \in Loops
    BY <1>1, <1>4, <2>3, <2>4 DEF Loops
  <2>6. loop'.next = loop.next /\ loop'.now = now
    BY <1>1, <1>4, <2>3, <2>4 DEF Loops
  <2>7. QED BY <1>2, <1>6, <2>4, <2>5, <2>6, TickAgain
<1>7. CASE /\ left <= 0
           /\ loop' = [loop EXCEPT !.beat = beat, !.missed = @ + 1]
           /\ IF loop.missed + 1 > MaxMissed
              THEN Stops(arm)
              ELSE phase' = "tick" /\ UNCHANGED <<arm, report>>
  <2> DEFINE missed == loop.missed + 1
  <2>1. loop' = [loop EXCEPT !.beat = beat, !.missed = missed]
    BY <1>7
  <2>2. missed \in Nat
    BY <1>3
  <2> HIDE DEF beat, left, missed
  <2>3. loop' \in Loops
    BY <1>1, <1>4, <2>1, <2>2 DEF Loops
  <2>4. loop'.next = loop.next /\ loop'.now = loop.now
    BY <1>1, <1>4, <2>1, <2>2 DEF Loops
  <2>5. loop.now >= loop.began + Period
    BY <1>3, <1>4, <1>7
  <2>6. CASE Stops(arm)
    BY <1>1, <1>2, <2>3, <2>4, <2>6, EndsOutcome, EndKeeps DEF Endings
  <2>7. CASE phase' = "tick" /\ UNCHANGED <<arm, report>>
    BY <1>2, <1>3, <2>3, <2>4, <2>5, <2>7, TickAgain
  <2>8. QED BY <1>7, <2>6, <2>7
<1>8. \/ Unwinds(arm) /\ UNCHANGED loop
      \/ /\ left > 0
         /\ \E late \in 0..Oversleep :
              loop' = [loop EXCEPT !.now = @ + left + late, !.beat = beat, !.missed = 0]
         /\ phase' = "tick"
         /\ UNCHANGED <<arm, report>>
      \/ /\ left <= 0
         /\ loop' = [loop EXCEPT !.beat = beat, !.missed = @ + 1]
         /\ IF loop.missed + 1 > MaxMissed
            THEN Stops(arm)
            ELSE phase' = "tick" /\ UNCHANGED <<arm, report>>
  BY Zenon DEF Pace
<1>9. QED BY <1>5, <1>6, <1>7, <1>8

LEMMA NextKeeps == RInv /\ [Next]_vars => RInv'
<1> SUFFICES ASSUME RInv, [Next]_vars PROVE RInv'
  OBVIOUS
<1>1. CASE UNCHANGED vars
  <2>1. UNCHANGED <<request, phase, arm, cancelled, loop, report, motors>>
    BY <1>1 DEF vars
  <2>2. TypeOK' /\ Quiet
    BY <2>1, StateTypes, TypesState DEF RInv, Quiet
  <2>3. Control' /\ Clock'
    BY <2>1, SameRequest DEF RInv, Control, AtStart, Clock, Takes
  <2>4. QED BY <2>2, <2>3, QuietPlayed DEF RInv
<1>2. CASE Tick
  <2>1. CASE \E how \in {"stopped", "raised"} :
               /\ UNCHANGED <<request, cancelled, loop, motors>>
               /\ phase' = "closing" /\ arm' \in Arms /\ EndedReport(report, report', how)
    <3>1. PreflightPasses /\ ~request.dry /\ cancelled \in BOOLEAN /\ loop \in Loops
      BY <1>2, StateTypes DEF RInv, Control, Tick
    <3>2. QED BY <2>1, <3>1, EndKeeps
  <2>2. CASE \E a \in Reads, at \in Nat, over \in Nat : Plays(a, at, over)
    BY <2>2, PlaysKeeps
  <2>3. QED BY <1>2, <2>1, <2>2, TickOutcome
<1>3. QED
  BY <1>1, <1>2, PreflightKeeps, AlignKeeps, LegKeeps, StartKeeps, PaceKeeps, CompleteKeeps,
     CloseKeeps, CancelKeeps DEF Next

-----------------------------------------------------------------------------
(* The theorems. *)

\* In every state of a replay the invariant holds.
THEOREM Invariant == Spec => []RInv
  BY InitKeeps, NextKeeps, PTL DEF Spec

\* The types, in every state: the counters are natural numbers, and the motors only ever
\* get whole frames (replay.py).
THEOREM ReplayTypes == Spec => []TypeOK
<1>1. RInv => TypeOK
  BY DEF RInv
<1>2. QED BY Invariant, <1>1, PTL

\* What is known of the k-th frame the motors got.
LEMMA FrameFacts ==
    ASSUME RInv, NEW k \in 1..Len(motors)
    PROVE  /\ k \in 1..Cardinality(FrameRange)
           /\ PreflightPasses
           /\ motors[k].frame = request.first + k - 1
           /\ request.actions[motors[k].frame] = Recorded[k]
           /\ Recorded[k] \in Int
           /\ Planned[k] = Clamped(Recorded[k]) /\ Planned[k] \in Int
           /\ motors[k].to = ToRadians(Planned[k])
           /\ ToDegrees(motors[k].to) = Planned[k]
<1>1. request \in Requests /\ motors \in Seq(Sends)
  BY StateTypes DEF RInv
<1>2. Len(motors) \in Nat /\ motors # << >>
  BY <1>1, SendTypes
<1>3. PreflightPasses
  BY <1>2 DEF RInv, Control
<1>4. PlanIsRange
  BY <1>1, <1>3, PlanTypes
<1>5. k \in 1..Cardinality(FrameRange)
  <2> DEFINE n == Cardinality(FrameRange)
  <2>1. n \in Nat /\ Len(motors) <= n
    BY <1>2, <1>4 DEF RInv, Played, PlanIsRange
  <2> HIDE DEF n
  <2>2. k \in 1..n
    BY <1>2, <2>1
  <2>3. QED BY <2>2 DEF n
<1>6. motors[k].frame = request.first + k - 1 /\ motors[k].to = ToRadians(Planned[k])
  BY DEF RInv, Played
<1>7. /\ Recorded[k] = request.actions[request.first + k - 1]
      /\ Recorded[k] \in Int
      /\ Planned[k] = Clamped(Recorded[k]) /\ Planned[k] \in Int
  BY <1>4, <1>5, Zenon DEF PlanIsRange
<1>8. ToDegrees(motors[k].to) = Planned[k]
  BY <1>6, <1>7, ClampedWithin
<1>9. QED BY <1>3, <1>5, <1>6, <1>7, <1>8

LEMMA ApprovalFacts ==
    ASSUME request \in Requests
    PROVE  /\ request.approval.policy \in Policies
           /\ request.approval.deviation \in Nat
           /\ request.approval.policy = "reject" => request.approval.deviation = 0
  BY RequestTypes DEF Approvals

\* A value that passes what was asked for passes what was approved.
LEMMA WithinIsApproved ==
    ASSUME request \in Requests, Permits(request.approval, request.policy, request.tolerance),
           NEW d \in Int, WithinPolicy(d)
    PROVE  Approved(d, Clamped(d))
<1> DEFINE p == Clamped(d)
           dev == request.approval.deviation
           tol == request.tolerance
<1>1. p \in Int /\ dev \in Nat /\ tol \in Nat /\ request.policy \in Policies
      /\ request.approval.policy \in Policies
      /\ (request.approval.policy = "reject" => dev = 0)
  BY ClampedWithin, ApprovalFacts, RequestTypes
<1>2. tol <= dev /\ (request.policy = "clamp" => request.approval.policy = "clamp")
  BY DEF Permits
<1> HIDE DEF dev, tol, p
<1>3. /\ request.policy = "reject" => p = d
      /\ request.policy = "clamp_within_tolerance" => Distance(d, p) <= tol
  BY DEF WithinPolicy, p, tol
<1>4. /\ Distance(d, d) = 0
      /\ Distance(d, p) \in Nat
      /\ Distance(d, p) = 0 => d = p
  BY <1>1 DEF Distance
<1>5. CASE request.approval.policy = "reject"
  <2>1. d = p
    BY <1>1, <1>2, <1>3, <1>4, <1>5 DEF Policies
  <2>2. QED BY <1>5, <2>1 DEF Approved, p
<1>6. CASE request.approval.policy = "clamp_within_tolerance"
  <2>1. Distance(d, p) <= dev
    BY <1>1, <1>2, <1>3, <1>4, <1>6 DEF Policies
  <2>2. QED BY <1>6, <2>1 DEF Approved, p, dev
<1>7. CASE request.approval.policy = "clamp"
  BY <1>7 DEF Approved
<1>8. QED BY <1>1, <1>5, <1>6, <1>7 DEF Policies

\* Every frame the motors get lies within the driver's limits, and is the recorded one up
\* to what the operator approved, whatever the request asked for: for every dataset,
\* offset, limit, policy, tolerance and approval (_resolve_policy(), _apply_limits()).
THEOREM OnlyWhatWasApproved == Spec => []SentAsApproved
<1>1. RInv => SentAsApproved
  <2> SUFFICES ASSUME RInv, NEW k \in DOMAIN motors
               PROVE  /\ motors[k].to \in Low..High
                      /\ Approved(request.actions[motors[k].frame], ToDegrees(motors[k].to))
    BY DEF SentAsApproved
  <2>1. request \in Requests /\ motors \in Seq(Sends)
    BY StateTypes DEF RInv
  <2>2. k \in 1..Len(motors)
    BY <2>1, SendTypes
  <2>3. /\ k \in 1..Cardinality(FrameRange) /\ PreflightPasses
        /\ request.actions[motors[k].frame] = Recorded[k]
        /\ Recorded[k] \in Int
        /\ Planned[k] = Clamped(Recorded[k])
        /\ motors[k].to = ToRadians(Planned[k])
        /\ ToDegrees(motors[k].to) = Planned[k]
    BY <2>2, FrameFacts
  <2>4. motors[k].to \in Low..High
    BY <2>3, ClampedWithin
  <2>5. WithinPolicy(Recorded[k]) /\ Permits(request.approval, request.policy, request.tolerance)
    <3>1. k \in DOMAIN Recorded
      BY <2>3 DEF Recorded
    <3>2. QED BY <2>3, <3>1 DEF PreflightPasses
  <2>6. Approved(Recorded[k], Clamped(Recorded[k]))
    BY <2>1, <2>3, <2>5, WithinIsApproved
  <2>7. QED BY <2>3, <2>4, <2>6
<1>2. QED BY Invariant, <1>1, PTL

\* A late frame is never made up: of any two frames the later comes no earlier than the
\* frames between them take, however long ticks and sleeps last (play()).
THEOREM LostTimeIsLost == Spec => []NoCatchUp
<1>1. RInv => NoCatchUp
  <2> SUFFICES ASSUME RInv, NEW i \in DOMAIN motors, NEW j \in DOMAIN motors, i < j
               PROVE  motors[j].at - motors[i].at >= (j - i - 1) * Period
    BY DEF NoCatchUp
  <2>1. DOMAIN motors = 1..Len(motors)
    BY StateTypes, SendTypes DEF RInv
  <2>2. motors[j].at - motors[i].at >= Takes(j - i - 1)
    BY <2>1 DEF RInv, Clock
  <2>3. QED BY <2>2 DEF Takes
<1>2. QED BY Invariant, <1>1, PTL

\* A result tells what the motors got: how many frames and the last of them; it counts every
\* frame a limit changed; and it says completed only of the whole range (play(), _result()).
THEOREM ResultsAreTrue == Spec => []ReportMatchesMotors
<1>1. RInv => ReportMatchesMotors
  <2> SUFFICES ASSUME RInv
               PROVE  ReportMatchesMotors
    OBVIOUS
  <2> DEFINE len == Len(motors)
             n == Cardinality(FrameRange)
  <2>1. motors \in Seq(Sends)
    BY StateTypes DEF RInv
  <2>2. len \in Nat /\ DOMAIN motors = 1..len /\ (motors = << >> <=> len = 0)
    BY <2>1, SendTypes
  <2>3. report.sent = len
    BY DEF RInv, Played
  <2>4. motors # << >> => report.last = motors[len].frame
    <3>1. motors # << >> => len \in 1..len
      BY <2>2
    <3>2. motors # << >> => report.last = request.first + len - 1
      BY DEF RInv, Played
    <3>3. QED BY <3>1, <3>2, FrameFacts
  <2>5. report.clipped \in Cardinality(Altered)..report.sent
    <3>1. \A k \in 1..len : /\ ToDegrees(motors[k].to) = Planned[k]
                            /\ request.actions[motors[k].frame] = Recorded[k]
      BY FrameFacts
    <3>2. Altered = {k \in 1..len : Planned[k] # Recorded[k]}
      BY <2>2, <3>1 DEF Altered
    <3>3. QED BY <3>2 DEF RInv, Played
  <2>6. ASSUME report.ended = "completed", ~request.dry
        PROVE  [k \in DOMAIN motors |-> motors[k].frame] =
                   [k \in 1..n |-> request.first + k - 1]
    <3>1. len = n
      BY <2>6 DEF RInv, Control
    <3>2. \A k \in 1..len : motors[k].frame = request.first + k - 1
      BY FrameFacts
    <3>3. QED BY <2>2, <3>1, <3>2
  <2>7. QED BY <2>3, <2>4, <2>5, <2>6 DEF ReportMatchesMotors
<1>2. QED BY Invariant, <1>1, PTL

LEMMA Triangle ==
    ASSUME NEW p \in Int, NEW q \in Int, NEW s \in Int, NEW d \in Nat, NEW t \in Nat,
           Distance(p, q) <= d, Distance(q, s) <= t
    PROVE  Distance(p, s) <= t + d
  BY DEF Distance

\* The first frame goes to an arm that stands where the recording began, clamped into the
\* limits, up to the tolerance and to what a joint drifts between two reads: no jump from
\* wherever the arm was (align(), play()).
THEOREM NoJumpAtTheStart == Spec => StartsWhereRecorded
<1>1. ASSUME RInv, [Next]_vars, motors = << >>, motors' # << >>
      PROVE  Distance(ToDegrees(arm'.pose), Clamped(request.states[request.first]))
                <= StartTolerance + Drift
  <2>1. request \in Requests /\ arm \in Arms
    BY <1>1, StateTypes DEF RInv
  <2>2. Tick
    BY <1>1, Zenon DEF Next, vars, Refuse, DryRun, Open, AlignReads, Stage, Approach, Leg,
         StartPlaying, Pace, Complete, Close, Cancel
  <2>3. PICK a \in Reads, at \in Nat, over \in Nat : Plays(a, at, over)
    BY <1>1, <2>2, TickOutcome
  <2>4. a \in Arms /\ Distance(a.pose, arm.pose) <= Drift
    BY <1>1, <2>1, ReadsType
  <2>5. arm'.pose = a.pose
    BY <2>3, <2>4 DEF Plays, Arms
  <2>6. AtStart(arm.pose) /\ PreflightPasses
    BY <1>1, <2>2 DEF RInv, Control, Tick
  <2>7. Start \in Int /\ arm.pose \in Int /\ a.pose \in Int
    BY <2>1, <2>4, <2>6, PlanTypes, ArmTypes, ReplayAssumption DEF PlanIsRange
  <2>8. Distance(ToDegrees(a.pose), Start) <= StartTolerance + Drift
    <3>1. ToDegrees(a.pose) \in Int /\ ToDegrees(arm.pose) \in Int
      BY <2>7, ReplayAssumption DEF ToDegrees
    <3>2. Distance(ToDegrees(a.pose), ToDegrees(arm.pose)) = Distance(a.pose, arm.pose)
      BY <2>7, ReplayAssumption DEF ToDegrees, Distance
    <3>3. Distance(ToDegrees(arm.pose), Start) <= StartTolerance
      BY <2>6 DEF AtStart
    <3>4. Drift \in Nat /\ StartTolerance \in Nat
      BY ReplayAssumption
    <3>5. QED BY <2>4, <2>7, <3>1, <3>2, <3>3, <3>4, Triangle
  <2>9. QED BY <2>5, <2>8 DEF Start
<1>2. RInv /\ [Next]_vars =>
        [motors = << >> /\ motors' # << >> =>
            Distance(ToDegrees(arm'.pose), Clamped(request.states[request.first]))
                <= StartTolerance + Drift]_vars
  BY <1>1
<1>3. QED BY Invariant, <1>2, PTL DEF Spec, StartsWhereRecorded
=============================================================================
