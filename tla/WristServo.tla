----------------------------- MODULE WristServo -----------------------------
(***************************************************************************)
(* The wrist camera's calibration and its use: `teach` of                  *)
(* calibrate_wrist_servo.py, which moves the arm and fits the derivative   *)
(* of the image, and `centre` and `track`, the follower of                 *)
(* robot/wrist_follower.py over robot/visual_tracking.py that servos on    *)
(* it.  Between the two lies the calibration file.                         *)
(*                                                                         *)
(* One joint and one image feature stand for all: every column is fitted   *)
(* by itself, and every row weighs its own error.  The feature is linear   *)
(* (u, v, scale_px) or an undirected angle (spine_deg).  Poses and images  *)
(* are integers; the image is `slope * pose + scene`, where the scene is   *)
(* where the carabiner lies and the slope belongs to the arm as it is      *)
(* zeroed.  Gain is one and damping zero: both only shorten a step that    *)
(* the tracker clamps.                                                     *)
(***************************************************************************)
EXTENDS Integers, Sequences, FiniteSets, Functions

CONSTANTS
  Detections,    \* detections combined into one measurement
  LeakPlaces,    \* places among them where the mask may leak
  Leaks,         \* how wrong a leaked mask may be
  HalfTurn,      \* half the period of the angle
  Delta,         \* how far a joint is bumped
  Shortfall,     \* how far from its target a move may settle
  Tolerance,     \* how near the goal image counts as arrived
  ReturnScale,   \* multiple of it the goal image may drift by during a teach
  MaxDelta,      \* the largest step a solve may ask for
  MaxStep,       \* the tracker's bound for one tick
  LockFrames, SettleTicks,
  Low, High,     \* the joint's soft limits
  Starts,        \* where the arm may stand when a command starts
  WholeTurns,    \* what enable() may correct a reading by, 0 for nothing
  Leans,         \* where a limp arm may be moved to in a teach
  Scenes,        \* where the carabiner may lie
  Slopes,        \* the arm's slope, under each of its zeroings
  Centre,        \* the middle of the frame, which `centre` aims at
  Strangers,     \* the errors another teal thing in the view may read as
  Reteaches,     \* whether an arm with a calibration is taught again
  Disturbances   \* how often the carabiner or a limp arm is moved in a teach

ASSUME WristAssumption ==
  /\ Detections \in Nat /\ Detections % 2 = 1 /\ LeakPlaces \subseteq 1..Detections
  /\ HalfTurn \in Nat \ {0} /\ Leaks \subseteq Int
  /\ Delta \in Nat \ {0} /\ Shortfall \in 0..Delta - 1
  /\ Tolerance \in Nat \ {0} /\ ReturnScale \in Nat \ {0}
  /\ {MaxDelta, MaxStep, LockFrames, SettleTicks} \subseteq Nat \ {0}
  /\ Low \in Int /\ High \in Int /\ Low <= High
  /\ Starts \subseteq Int /\ Leans \subseteq Int /\ Scenes \subseteq Int /\ Slopes \subseteq Int \ {0}
  /\ Centre \in Int /\ Strangers \subseteq Int /\ Disturbances \in Nat /\ Reteaches \in BOOLEAN
  /\ WholeTurns \subseteq Int

VARIABLES
  angular,   \* the feature is an angle
  slope,     \* of the arm on the bench, the stamp of which is its zeroing
  scene, pose,
  torque,
  calibration,  \* on disk
  line,      \* where the running command is
  draft,     \* the calibration being taught
  moves,     \* disturbances left
  servo,     \* the follower and its tracker
  told       \* of the last tick: what it saw and moved on, the frame the motors have
             \* since, and how far from it the arm was when a hold was lost after it

wristVars == <<angular, slope, scene, pose, torque, calibration, line, draft, moves, servo, told>>
bench == <<angular, slope, scene>>

Nothing == [none |-> TRUE]
Abs(x) == IF x < 0 THEN -x ELSE x
Lesser(x, y) == IF x < y THEN x ELSE y
Most(x, y) == IF x < y THEN y ELSE x
-----------------------------------------------------------------------------
(* Features.                                                               *)

Wrap(x) == ((x + HalfTurn) % (2 * HalfTurn)) - HalfTurn

FeatureError(x, goal) == IF angular THEN Wrap(x - goal) ELSE x - goal

\* What the wrist camera sees of the carabiner from pose p.
Image(p) == slope * p + scene

\* A frame reads the truth, or the pixel beside it; a leaked mask reads far off.
Frames == {0, -1}

Rows ==
  {rows \in [1..Detections -> Frames \cup Leaks] :
     LET leaks == {i \in 1..Detections : rows[i] \notin Frames}
     IN  leaks \subseteq LeakPlaces /\ 2 * Cardinality(leaks) < Detections}

Median(rows) ==
  CHOOSE x \in Range(rows) :
    /\ 2 * Cardinality({i \in 1..Detections : rows[i] <= x}) > Detections
    /\ 2 * Cardinality({i \in 1..Detections : rows[i] >= x}) > Detections

\* An angle is unwrapped against the first sample before the median is taken.
Unwrapped(rows) == rows[1] + Median([i \in 1..Detections |-> Wrap(rows[i] - rows[1])])

LinearErrors == {Median(rows) : rows \in Rows}
AngularErrors == {Unwrapped(rows) : rows \in Rows}

\* _measure(): the images one measurement from pose p may give.
Measures(p) == {Image(p) + e : e \in IF angular THEN AngularErrors ELSE LinearErrors}
-----------------------------------------------------------------------------
(* Teaching.                                                               *)

NoDraft == Nothing

\* The bumps of the joint, in their order.
Signs == <<1, -1>>

\* What a finished draft is judged by: what its trials were measured in.
Spread(d) == Most(Abs(d.highest - d.goalScene), Abs(d.lowest - d.goalScene))

Seen(d) == [d EXCEPT !.lowest = Lesser(@, scene), !.highest = Most(@, scene)]

\* go_to_joint_target(): the joint settles at its target or short of it, or the call fails.
Settles(target) ==
  {p \in Low..High : /\ Abs(p - target) \in {0, Shortfall}
                     /\ (pose - target) * (p - target) >= 0}

Teaches(l) == line = l /\ UNCHANGED <<bench, calibration, servo, told, moves>>

\* cmd_teach() up to its first measurement: the arm is limp, where it was put.
StartTeach ==
  /\ line = "idle" /\ (calibration = Nothing \/ Reteaches)
  /\ line' = "goal"
  /\ moves' = Disturbances
  /\ draft' = NoDraft
  /\ UNCHANGED <<bench, pose, torque, calibration, servo, told>>

MeasureGoal ==
  /\ Teaches("goal")
  /\ \E goal \in Measures(pose) :
       draft' = [goal |-> goal, goalScene |-> scene, lowest |-> scene, highest |-> scene,
                 home |-> pose, before |-> 0, from |-> pose, trials |-> <<>>]
  /\ line' = "prompt"
  /\ UNCHANGED <<pose, torque>>

\* The operator typed TEACH: home is where the arm stands by now.
Confirmed ==
  /\ Teaches("prompt")
  /\ draft' = [draft EXCEPT !.home = pose]
  /\ line' = "return"
  /\ UNCHANGED <<pose, torque>>

\* _return_to(): before every bump, and after the last.
Return ==
  /\ Teaches("return")
  /\ pose' \in Settles(draft.home)
  /\ torque' = TRUE
  /\ line' = IF Len(draft.trials) < Len(Signs) THEN "before" ELSE "confirm"
  /\ UNCHANGED draft

MeasureBefore ==
  /\ Teaches("before")
  /\ \E image \in Measures(pose) :
       draft' = [Seen(draft) EXCEPT !.before = image, !.from = pose]
  /\ line' = "bump"
  /\ UNCHANGED <<pose, torque>>

Bump ==
  /\ Teaches("bump")
  /\ pose' \in Settles(draft.home + Signs[Len(draft.trials) + 1] * Delta)
  /\ line' = "after"
  /\ UNCHANGED <<draft, torque>>

\* The denominator of a trial: the measured displacement.
Step(d) == pose - d.from

\* record(): the displacement, and what the image did meanwhile.
Recorded(d, image) ==
  [Seen(d) EXCEPT !.trials =
     Append(@, [step |-> Step(d), change |-> FeatureError(image, d.before)])]

MeasureAfter ==
  /\ Teaches("after")
  /\ 4 * Abs(Step(draft)) >= Delta
  /\ \E image \in Measures(pose) : draft' = Recorded(draft, image)
  /\ line' = "return"
  /\ UNCHANGED <<pose, torque>>

\* BUG: the last image is held against the last trial's own, not the goal.
CameBackSinceLast(d, image) == Abs(FeatureError(image, d.before)) <= ReturnScale * Tolerance

\* _confirm_return()
CameBack(d, image) == Abs(FeatureError(image, d.goal)) <= ReturnScale * Tolerance

ConfirmReturn ==
  /\ Teaches("confirm")
  /\ \E image \in Measures(pose) : CameBack(draft, image)
  /\ line' = "save"
  /\ UNCHANGED <<pose, torque, draft>>

\* Closing the session takes torque off: the arm is where it then comes to rest.
Close ==
  /\ line' = "idle"
  /\ torque' = FALSE
  /\ pose' \in Starts
  /\ draft' = NoDraft
  /\ moves' = 0

Total(f) == FoldFunction(+, 0, f)

\* fit_jacobian(): least squares through the origin, over the trials of the joint.
FittedColumn(trials) ==
  [num |-> Total([i \in DOMAIN trials |-> trials[i].step * trials[i].change]),
   den |-> Total([i \in DOMAIN trials |-> trials[i].step * trials[i].step])]

\* fitted() and save(), after the session was closed: one rename puts it there.
SaveWrist ==
  /\ line = "save"
  /\ calibration' = [slope |-> slope, goal |-> draft.goal, fit |-> FittedColumn(draft.trials),
              spread |-> Spread(draft)]
  /\ Close
  /\ UNCHANGED <<bench, servo, told>>

\* A refusal, an exception or Ctrl-C anywhere: the session is closed, and nothing is saved.
AbandonTeach ==
  /\ line \in {"goal", "prompt", "return", "before", "bump", "after", "confirm", "save"}
  /\ Close
  /\ UNCHANGED <<bench, calibration, servo, told>>

\* Somebody moves the carabiner, or leans on an arm that is still limp.
Disturb ==
  /\ line \in {"goal", "prompt", "return", "before", "bump", "after", "confirm"}
  /\ moves > 0
  /\ moves' = moves - 1
  /\ \/ scene' \in Scenes \ {scene} /\ UNCHANGED pose
     \/ ~torque /\ pose' \in Leans \ {pose} /\ UNCHANGED scene
  /\ UNCHANGED <<angular, slope, torque, calibration, line, draft, servo, told>>

\* Between two commands the arm may be zeroed anew, or the carabiner laid elsewhere.
Rearrange ==
  /\ line = "idle"
  /\ slope' \in Slopes /\ scene' \in Scenes
  /\ UNCHANGED <<angular, pose, torque, calibration, line, draft, moves, servo, told>>
-----------------------------------------------------------------------------
(* Servoing.                                                               *)

\* BUG: any calibration is taken for this arm's.
VerifyAnyArm == calibration # Nothing

\* load() and verify().
VerifyWrist == calibration # Nothing /\ calibration.slope = slope

\* `track` aims at the taught goal, `centre` at the middle of the frame, and at no angle.
Goals == {calibration.goal} \cup IF angular THEN {} ELSE {Centre}

\* Nothing was seen, nothing sent.
Quiet(p) == [blob |-> "none", run |-> 0, leaked |-> FALSE, moved |-> FALSE, frame |-> p,
             lag |-> 0]

NoServo == [goal |-> 0, dry |-> FALSE, command |-> 0, locked |-> 0,
            previous |-> "none", settled |-> 0]

\* Opening the session, building the follower and its start(), which enables the arm
\* unless this is a dry run: the command is what was read before enable() corrected it.
StartServo ==
  /\ line = "idle" /\ VerifyWrist
  /\ line' = "servo"
  /\ \E goal \in Goals, dry \in BOOLEAN, turn \in WholeTurns :
       /\ servo' = [NoServo EXCEPT !.goal = goal, !.dry = dry,
                                   !.command = IF dry THEN pose ELSE pose + turn]
       /\ torque' = ~dry
  /\ told' = Quiet(pose)
  /\ UNCHANGED <<bench, pose, calibration, draft, moves>>

Quotient(a, b) == IF a < 0 THEN -((-a) \div b) ELSE a \div b

\* solve(): the step that removes the error, if the column is none of zeros.
Solve(error) ==
  IF calibration.fit.num > 0 THEN Quotient(-error * calibration.fit.den, calibration.fit.num)
                  ELSE Quotient(error * calibration.fit.den, -calibration.fit.num)

Supported(error) == Abs(Solve(error)) <= MaxDelta

\* Two things in the view are further apart than max_jump_px, one thing never moves so far.
Jumped(blob) == servo.previous # "none" /\ servo.previous # blob

\* What _target_from_frame() makes of a frame.
Arrived(blob, error) == ~Jumped(blob) /\ Supported(error) /\ Abs(error) <= Tolerance

HasTarget(blob, error) ==
  /\ ~Jumped(blob) /\ Supported(error) /\ Abs(error) > Tolerance
  /\ pose + Solve(error) \in Low..High

\* The frames a step may read, one detection each, with the error it shows and whether
\* its mask leaked; a leak that moves the pixel too far is another thing.  A column of
\* zeros has no solution, which raises and ends the command.
Views ==
  IF calibration.fit.num = 0 THEN {}
  ELSE {<<"true", FeatureError(Image(pose) + e, servo.goal), e \notin Frames>> :
            e \in Frames \cup Leaks}
         \cup {<<"other", error, FALSE>> : error \in Strangers}

Sights(blob) ==
  IF blob # "none" /\ blob = told.blob THEN Lesser(told.run + 1, LockFrames) ELSE 1

Sees(blob, leaked, frame, lag, moved) ==
  told' = [blob |-> blob, run |-> IF blob = "none" THEN 0 ELSE Sights(blob),
           leaked |-> leaked /\ moved, moved |-> moved /\ ~servo.dry,
           frame |-> IF servo.dry THEN told.frame ELSE frame,
           lag |-> IF servo.dry THEN 0 ELSE lag]

\* The arm is where a frame sent it, this one or the last, or has not moved yet.
Follows ==
  pose' \in IF servo.dry THEN {pose}
           ELSE {told.frame, told'.frame, pose}

Steps ==
  /\ line = "servo" /\ servo.settled < SettleTicks
  /\ UNCHANGED <<bench, torque, calibration, line, draft, moves>>

\* BUG: a tick that holds keeps its lock.
HoldsLocked(s) == [s EXCEPT !.command = pose]

\* BUG: a tick that holds the arm leaves the command where it was.
HoldsAhead(s) == [s EXCEPT !.locked = 0]

\* VisualTracker._hold(): the arm is held where it is, and the lock is gone.
Holds(s) == [s EXCEPT !.command = pose, !.locked = 0]

Clipped(x) == Most(Low, Lesser(High, x))

\* The frame of the hold, unless hold_current_position() is torn: nobody looks at what it
\* returns, and the motors keep the frame they have.
Held(blob, leaked) ==
  \/ Sees(blob, leaked, Clipped(pose), 0, FALSE)
  \/ Sees(blob, leaked, told.frame, Abs(pose - told.frame), FALSE)

\* No detection.
Miss ==
  /\ Steps
  /\ servo' = Holds([servo EXCEPT !.previous = "none", !.settled = 0])
  /\ Held("none", FALSE)
  /\ Follows

\* At the goal, a jump, a refused solve, or a target outside the limits.
HoldStill ==
  /\ Steps
  /\ \E view \in Views :
       /\ ~HasTarget(view[1], view[2])
       /\ servo' = Holds([servo EXCEPT !.previous = view[1],
                            !.settled = IF Arrived(view[1], view[2]) THEN @ + 1 ELSE 0])
       /\ Held(view[1], view[3])
  /\ Follows

\* The speed lock: the command goes towards the target by a step.
Toward(target) == servo.command + Most(-MaxStep, Lesser(MaxStep, target - servo.command))

LockOn ==
  /\ Steps
  /\ servo.locked + 1 < LockFrames
  /\ \E view \in Views :
       /\ HasTarget(view[1], view[2])
       /\ servo' = [servo EXCEPT !.previous = view[1], !.settled = 0, !.locked = @ + 1]
       /\ Sees(view[1], view[3], told.frame, told.lag, FALSE)
  /\ Follows

Track ==
  /\ Steps
  /\ servo.locked + 1 >= LockFrames
  /\ \E view \in Views :
       LET command == Toward(pose + Solve(view[2]))
       IN  /\ HasTarget(view[1], view[2])
           /\ servo' = [servo EXCEPT !.previous = view[1], !.settled = 0,
                                     !.locked = LockFrames, !.command = command]
           /\ Sees(view[1], view[3], Clipped(command), 0, TRUE)
  /\ Follows

\* Followed, stopped by a fault, lost feedback or a refused command, out of
\* ticks, interrupted, or an exception: stop(hold=False), and the session closes.
EndServo ==
  /\ line = "servo"
  /\ Close
  /\ servo' = NoServo /\ told' = Quiet(0)
  /\ UNCHANGED <<bench, calibration>>
-----------------------------------------------------------------------------
WristInit ==
  /\ angular \in BOOLEAN /\ slope \in Slopes /\ scene \in Scenes /\ pose \in Starts
  /\ torque = FALSE /\ calibration = Nothing /\ line = "idle" /\ draft = NoDraft /\ moves = 0
  /\ servo = NoServo /\ told = Quiet(0)

Teach ==
  \/ StartTeach \/ MeasureGoal \/ Confirmed \/ Return \/ MeasureBefore \/ Bump
  \/ MeasureAfter \/ ConfirmReturn \/ SaveWrist \/ AbandonTeach \/ Disturb

Servo == StartServo \/ Miss \/ HoldStill \/ LockOn \/ Track \/ EndServo

WristNext == Teach \/ Rearrange \/ Servo

WristSpec == WristInit /\ [][WristNext]_wristVars
-----------------------------------------------------------------------------
WristTypeOK ==
  /\ angular \in BOOLEAN /\ slope \in Slopes /\ scene \in Scenes /\ pose \in Int
  /\ torque \in BOOLEAN /\ moves \in 0..Disturbances
  /\ servo.locked \in 0..LockFrames /\ servo.settled \in 0..SettleTicks
  /\ servo.previous \in {"none", "true", "other"}
  /\ told.run \in 0..LockFrames
  /\ torque => line \notin {"idle", "goal", "prompt"}

\* A calibration that was saved was taught about one scene: whatever was moved
\* once, by more than the gate lets pass, between any two lines of the teach,
\* its image did not come back and nothing was saved (_confirm_return()).
TaughtInOneScene == calibration # Nothing =>
  calibration.spread <= ReturnScale * Tolerance + 1 + Abs(calibration.slope) * Shortfall

\* The motors get a target only from a thing that was there on LockFrames
\* frames in a row: neither a flicker between the carabiner and something else
\* nor a miss carries a lock over (the jump gate, the settle count and _hold()).
AThingMustPersist == told.moved => told.run = LockFrames

\* How far the image is from its goal with the arm at p.
Astray(p) == Abs(FeatureError(Image(p), servo.goal))

\* A tick that sends the arm towards the carabiner, the arm a step from its command at
\* most; and one that brings the image no further from its goal than it was, unless it
\* leaves it within the tolerance.
TicksOnIt ==
  Track /\ told'.moved /\ told'.blob = "true" /\ Abs(pose - servo.command) <= MaxStep

NoFurther ==
  Astray(servo'.command) <= Astray(servo.command) \/ Astray(servo'.command) <= Tolerance

\* From the bumps to the file to the servo: while the arm is a step from its command at
\* most, a tick on a mask that did not leak never drives the image away from its goal,
\* through joints that fall short, masks that leaked in the teach and in ticks before it, a
\* drift the gate lets pass, holds that were lost and other things in the view.
NeverAway == [][TicksOnIt /\ ~told'.leaked => NoFurther]_wristVars

\* Expected of every tick on the carabiner.  It fails: a tick is taken on one detection.
NeverAwayOnALeak == [][TicksOnIt => NoFurther]_wristVars

\* Speed locked: the frame of a tick is MaxStep at most from the one the motors have,
\* through holds, relocks and starts, whatever the target (VisualTracker.max_step_rad), and
\* after a lost hold further only by what the arm then lagged behind that frame.
SpeedLock == [][Track => Abs(told'.frame - told.frame) <= MaxStep + told.lag]_wristVars

\* Expected of two frames in a row.  It fails: after a hold that did not reach the motors
\* the command starts from the measured pose, and the motors from the frame they have.
LockedThroughHolds == [][Track => Abs(told'.frame - told.frame) <= MaxStep]_wristVars
=============================================================================
