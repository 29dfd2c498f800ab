# A TLA+ model of everest-robot

everest-robot drives one robot arm that clips a carabiner to an attachment point. A durable
workflow (Absurd on Postgres) schedules stages; a stage claims the robot, connects to it,
and runs a motion, a learned policy, a stored replay, or the attachment state machine; every
one of them ends in frames to the motors. This directory models the parts whose correctness
is a matter of order, failure and concurrency, checks them with TLC on small instances, and
proves the central facts for every instance with TLAPS.

Source paths below are relative to `src/src/everest_robot/`.

## Inventory

| component | state it keeps | operations | what it talks to | what makes it correct |
|---|---|---|---|---|
| attachment FSM (`attachment_fsm.py`) | state, lifetime and per-cycle action counts, resets, trace | `run()` | calls the handlers; wall clock | bounded, ends, held unless it succeeded, accounts balance |
| FSM handlers (`adapters.py`) | follower, sessions, last readiness report | `enter_state`, four step handlers, `hold` | policy sessions, follower, perception, port | one live controller, nothing stale carried over |
| policy session, runner (`robot/policy.py`) | seeded, finished, deadlines | `seed`, `step`, `close`; `run` | bridge, policy handle, heartbeat | one action per step, reseeded after any intervention |
| visual tracker and followers (`robot/visual_tracking.py`, `carabiner_follower.py`, `wrist_follower.py`) | lock, stop reason, misses, settled ticks | `start`, `tick`/`step`, `stop` | camera, port | relock after a miss, settle before handing over, bounded speed |
| perception (`robot/carabiner_perception.py`) | alignment baseline | observations, gates | cameras, port | baseline belongs to this approach |
| readiness (`robot/readiness.py`) | none | `check` | port, cameras | passive |
| arm ports (`robot/robstride_mit_port.py`, `maker_arm_port.py`, `fake_arm.py`) | lifecycle, last positions, offsets | connect/enable/disable/estop/send/read | CAN bus; two threads | commands only when enabled; goal seeded from measurement |
| session (`robot/session.py`) | open or not | `open`, `close`, `reconnect` | lease, port, cameras | claim covers the hardware; teardown always finishes |
| lease (`robot/lease.py`) | descriptor or connection | `acquire`, `release` | kernel, Postgres | exclusive; freed when the holder dies |
| durable workflow (`workflow.py`, `worker.py`) | checkpoints (external), locals rebuilt from them | the four stages, replay | session, engine | a committed stage is not repeated, retries follow the record, ends |
| motion controller (`robot/motion.py`) | none between calls | named positions, transitions | port, clock, heartbeat, cancel | starts where the arm is, waypoints in order, never blind, stops where it must |
| replay (`robot/replay.py`) | none between calls | preflight, align, play | session, dataset | motors get what was approved and what is reported; held at the end |
| teleoperation (`robot/teleoperation.py`, `monitor.py`) | loop thread, stop and pause flags, command, start pose | connect, start, pause, stop, close, park | leader's servos, session, terminal | no jump on resume, loop gone before parking, parked before limp |
| calibration monitor (`monitor.py`, `robot/capture.py`) | last sample, captured pose, parameters file | sample, capture, save | session, file | what is saved was measured; a save writes all or nothing |
| pixel map (`pixel_map.py`, `calibrate_pixel_map.py`) | samples, fit, the file | collect, fit, track | session, teleoperation, camera, file | a sample pairs what belongs together, nothing taught is lost |
| wrist servo (`calibrate_wrist_servo.py`, `robot/wrist_follower.py`) | the image's derivative, goal, the file | teach, centre, track | session, motion, tracker, camera | taught about one scene; a servo step brings the image nearer |
| move commands (`goto.py`, `jog.py`) | none | resolve a route, plan a jog | motion controller | an approved transition is not bypassed |
| recording (`robot/recording.py`) | frames of the open episode | begin, append, finish, abort | policy runner | an episode is one rollout |
| vision (`vision.py`, `carabiner_detect.py`) | none | detection, masks, features | frames | numeric |
| parameters, datasets, checkpoints, cameras, database, other CLIs | configuration | parsing, I/O | files, devices | - |

How they interact: the workflow and the command lines open a session; the session owns the
port and the claim; motion, policy, replay, teleoperation and the FSM's handlers all write to
the port through the session, in one thread, except that teleoperation and the monitor share
the port across two. Cancellation and the worker's heartbeat arrive as calls that raise out
of whatever loop is running. What is hard: exceptions out of any call of a loop whose last
command is still in force; state carried across a hand-over between controllers; retries
that overlap the attempt they replace; a lock that is lost by its holder; a process that
dies under torque; budgets and thresholds counted across states.

## Modules

`AttachmentFSM` is `AttachmentFSM.run()`. One action is one pass round its loop: the budget
checks, the handler's answer, the counters, the recorded transition and the entry of the new
state, in that order. A handler's answer is a parameter; alone, the module lets every answer
happen, and every handler and every state entry abort or raise. `expired` stands for the wall
clock having passed `max_duration_s`, and may turn true at any moment. The trace is its last
entry.

`BoundedAttempt` is what a caller of `run()` is promised: a bounded number of actions, an
end, and a hold unless it is a success. `AttachmentFSM` implements it with `actions` as the
work, and `RobotAttempt` with the motion commands that reached the motors.

`AttachmentHandlers` has no variables: each real handler is the set of its outcomes - result,
abort or exception - each built from the outcomes of the calls it makes (`Grasps`,
`ClipObservations`, `ReadinessReports` and their like), and each with the robot it leaves: the arm's lifecycle, whether its last
sample was finite, what the last frame to the motors was, which policies are seeded, what
each controller carries that another one's motion made stale, the follower's counters, and
the alignment baseline. `RobotAttempt` composes it with the FSM: every action of the FSM
takes the outcome of the handler, then of the entry, then of the hold, from those sets.

`RobotClaim` is any number of workers that claim, open, use, reconnect, close and die. Within
a worker, `open()` and `close()` run call by call, so everything may come between two calls;
every call that can raise does in one of the outcomes. `locked` is what the lock itself
counts, `believes` what the leases think; they part when a holder's connection is lost, and
when a session that failed to clean up is forgotten with its lease in it. The bus handshake
is taken to leave torque as it was: what the driver does there is not in the repository.

`JointMotion` is one call of the motion controller: the checks before a leg, the choice to
enable, and the loop in two halves, before and after its sleep, with the tests in the code's
order. The joint that is furthest from where it should be stands for all of them; poses and
times are integers, and the trapezoid is replaced by the straight line it stays below. The arm
under it is any of the two ports: it follows, lags, drifts, goes into fault, falls silent,
answers from a cache, tears a frame, may be whole turns off until it is enabled, and may stand up to
`Grace` outside its soft limits, where `enable()` still accepts it and `send_targets()` clips its
frames. A cancellation, a heartbeat that raises or an interrupt comes between any two steps.
`MoveCommands` is how `goto.py` and `jog.py` make a route of what the operator asks, as
operators; `MCJointMotion` takes its routes from them, and evaluates `NeverBypassed` over every
parameters file of three positions and two transitions.

`AttachPlan` is what the durable record of an attach task may look like: the record of one run
that was never interrupted, or the beginning of one. `AttachWorkflow` implements it with
attempts: each runs the whole function from its first line, with fresh locals, and takes the
stages that have a checkpoint from the record. Running a stage and committing its answer are
two actions, and an attempt ends anywhere - an exception with the session's teardown, a killed
worker without it, a cancellation. What the stages do to the arm is kept as far as the next
stage relies on it. The hardware robot of this commit raises in the pickup and the
verification (`adapters.py:739-748`, `799-804`); their answers are those the workflow is
written for, and of the scaffold. `ctx.step()` belongs to the engine and is modelled from its
use.

`Replay` is one replay from the request to its result: the preflight, which takes frames from the
dataset's frame to the driver's (`Offset`) and decides what may be sent under the entry of the
parameters file; the alignment, each of whose motions ends as `JointMotion` shows it does; the
playback, tick by tick, with its missed deadlines, tracking error, heartbeat and cancellation;
the hold; and the report. `motors` is kept beside the report: what the motors got, and when. The
frame that comes back from the driver went through radians and back, so one that no limit touched
may be off by a rounding and be counted as clipped or not (`Counted`).
`MCReplay` gives the requests.

`PolicyRollout` is `PolicyRunner.run()`, with its recorder and its end, and a `PolicySession` that a
caller advances one action at a time. Both take a step in the same order - observe, infer, send,
look - and differ in pacing and in who holds the arm. A step, or a caller's break, takes some time,
and any call of it may raise. Two rollouts run on one arm and one recorder.

`Teleoperation` has the two threads of a leader-following session. Only a bus transfer is under the
port's lock, so one line that reads or writes something shared is one action: the loop's test of
its flags, its reading of the leader, its motion frame, its last hold; the operator's measurement,
enable, pause, resume, stop flag, join (which may time out), park and release. Servos stop answering
for a while or for good; the display polls the follower's fault as `monitor.py` does. `wire` is an
observer of the frames: how many went out after the operator stopped or paused.

`PoseCapture` is how a pose becomes a named position: what the monitor shows of each joint, the
capture, and the steps of `save_preset()` - read the text, write a temporary file, replace, load
again, restore - with a kill, a Ctrl-C or an error that nobody catches between any two, and somebody
who edits the file by hand between the runs of the monitor. The text that `insert_preset()` splices
may read back as it was meant, without the preset, or not load at all (`Spliced`); the last
stands in the file from `os.replace()` until it is restored, or for good if the parser's own error
escapes. A preset is what is true of the pose it was made from.

`PixelTeaching` is `robot-pixel-map`: any number of processes that collect, fit and track, one lease
(the one `RobotClaim` models call by call), one calibration file and its temporary. A pixel
is the place the carabiner lies at and a joint vector the place it grasps, so a pair
is true when they are the same place; a fit is the set of samples it was made of. `MCPixelTeaching`
adds the symmetry of processes, places and arms, none of which is told apart by a guard or a
property.

`WristServo` is the wrist camera's calibration and its use, for one joint and one feature of the
image, linear or an undirected angle. `teach` measures, bumps the arm up and down, fits the
derivative, returns and confirms; `centre` and `track` solve for a step and hand it to the
visual tracker, whose bound, limits, lock and settling are arithmetic here. Between the two lies
the file, and an arm that may have been zeroed again since. A measurement of the teach is a median; a
tick of the servo is one detection, whose mask may leak (`Views`). A hold may be torn on its way, which
the tracker does not notice (`Held`): `told.frame` is what the motors have, `told.lag` how far
from it the arm was when that happened. `enable()` may correct the reading that the tracker
started from by a whole turn (`StartServo`).

The theorems are in eight modules, each of which extends what it is about: `RobotAttemptProofs`
(the FSM, then the physical attempt), `RobotClaimProofs`, `JointMotionProofs`,
`AttachWorkflowProofs`, `ReplayProofs`, `PolicyRolloutProofs`, `MonitorProofs` (`Teleoperation`,
then `PoseCapture`) and `CalibrationProofs` (`PixelTeaching`, then `WristServo`). So that one module
can extend two, `PoseCapture` and `WristServo` give their specification names of its own
(`CaptureSpec`, `WristSpec`).

## Runs

| run | module | what it shows |
|---|---|---|
| `attempt` | AttachmentFSM | the FSM against arbitrary handlers: accounts, end, refinement of `BoundedAttempt` |
| `robot_attempt` | RobotAttempt | the FSM with its real handlers: one live controller, held at the end, fresh baseline, settled and relocked hand-overs |
| `robot_claim` | RobotClaim | exclusion, limp arm after a quiet close, claims that come back |
| `lease_lost` | RobotClaim | finding: two workers enabled after a lost connection |
| `motion` | MCJointMotion | a move: what is in force when it stops, fresh feedback, first frame, end |
| `workflow` | AttachWorkflow | the attach task: refinement of `AttachPlan`, at most one repetition, end |
| `replay` | MCReplay | the motors against what was approved, recorded and reported; pacing |
| `rollout` | PolicyRollout | pacing, the hold at every end, one rollout to an episode |
| `teleoperation` | Teleoperation | at most one late frame, no jump on resume, parked before limp, release after a lost leader |
| `capture` | PoseCapture | the parameters file through kills, interrupts, errors and failed checks; nobody's preset is lost, a refusal leaves no trace |
| `pixel_teaching` | MCPixelTeaching | true pairs, nothing taught is lost, parked or told |
| `wrist_servo` | MCWristServo | from a teach with leaks and shortfalls to the servo, with torn holds and an arm that lags: one scene to a calibration, no step away from the goal on a mask that did not leak, locks, bounded speed |

Every component's module also states its type invariant, and some state more than a run lists:
`EndedAttemptIsHeld`, `FailedMeansExhausted` and `ClipFollowsPlacement` (AttachmentFSM), `BusBeforeLock` (RobotClaim),
`LegsAreMeasured` (JointMotion), `PrerequisitesAvailable` and `RunsOnlyWhatIsDue`
(AttachWorkflow), `WithinBudgets` (PolicyRollout), `OneArm`
(PixelTeaching) and the bounded motion of `RobotAttempt`, all of them proved; and `ReportedIsHeld`
(Replay), which holds on the instance of its run. To look at one, add it to the cfg.

### Bounds

`attempt`: lifetime 6 and state budgets 2, so that each budget is the first to run out
in some behaviour, and up to five resets happen. `robot_attempt`: lifetime 7; 4 visual ticks,
enough to lock (2), settle (2), lose the carabiner (2 misses) and fall one short of each; 3
clip actions, so that a baseline is set, judged and carried over. `robot_claim`: two workers;
a worker may die and start again, so either is holder, successor and orphan in turn, and the
theorems cover any number. `motion`: three poses and a drift of one, so that a joint can be at,
beside and away from its target and outside its limits; the routes of a parameters file with a direct move, a transition
of two legs, one whose first leg is passed over and one that leaves the limits, and every jog by
a step either way; a timeout long enough to settle late. `workflow`: three cycles, so that a
recovery follows a recovery to any of the three stages, and four attempts, so that a crash follows
a crash; the theorems cover any number.

`replay`: three recordings of three frames - one that fits, one that starts and ends outside
the limits, one with a frame that cannot be read - under every limit policy, with an approval that
is stricter, as wide and wider; a tick may last one and a half periods, so that a deadline is missed
once and twice in a row, and a sleep may overshoot. `rollout`: a period of two and a step of up to
three, so that a step can be on time, late, and late enough to skip one; a duration in which
either budget can run out first. `teleoperation`: two servos, so that one can be silent while the
other answers; poses on either side of a limit; a tick of up to two periods. One servo goes silent
for good. `capture`: two names and two calibrations, so that a save can replace its own name, spare
another's, and meet a file made for another arm; two runs of the monitor with an edit between them.
Whoever edits the file leaves one that loads.
`pixel_teaching`: three commands by two processes, so that a second one appends to what a first one
taught while a third is refused, or reads the file before the save and the arm after it. `wrist_servo`: three
detections to a measurement, one of which leaks at a time the median can discard, by three, which a
tick takes for a step; a bump of three with a joint that falls short by one; a scene one off, which
the gate lets pass, and one five off, which it does not. The constraint `Explored` keeps the number of
states down: another thing in the view, a lost hold and an arm more than a step behind its frame are
followed up only under the calibrations of a linear feature whose fit is exact, every interleaving
of the tracker being the same under each of them.

Some constants exclude a case in which the code breaks the property, each of them a finding below:
`Turns` is 0 in `motion`, `Recorders` is the in-memory one in `rollout`, nobody edits the file
during a save in `capture`, `Blind` and `Refits` are off in `pixel_teaching`, and in
`wrist_servo` the first detection of a measurement does not leak and the carabiner is moved once at
most, the arm starts inside its limits and `WholeTurns` is 0. The finding names the value that lets the
case in. `NeverAway` itself is about an arm that is a step from its command at most: a step is
solved for the measured pose and taken from the command, so further apart it may be wrong. `Reteaches` is
off for the number of states only.

Nothing else in a model is bounded that the code does not bound, except the number of sessions,
rollouts, commands and hand edits, and how long a tick of a loop lasts (`LongestTick`, `Stall`,
`LongestStep`).

Deadlock is checked in the `RobotClaim`, `Teleoperation` and `PoseCapture` runs. Elsewhere it is not:
`run()` returns and a command ends, and an ended one has no next step.

## Fairness

`AttachmentFSM` and `RobotAttempt`: weak fairness of the loop. `run()` is an ordinary loop whose
handlers return or raise: reads time out, and sleeps are bounded by a control period. Nothing
is assumed of the clock, of what a handler answers, or of what a policy does.

`RobotClaim`: weak fairness of the calls inside `open()` and `close()` once begun, and of the
server noticing a dead connection (`lease.py:152-154`). A stage need not ever finish, a worker
need not start a session or come back, and no connection has to be lost.

`JointMotion`: weak fairness of the loop and of the checks before a leg, for the same reason; a
cancellation need never come. `AttachWorkflow`: weak fairness of attempts, stages and commits:
the engine schedules the attempts a task has left, and a stage ends, each of its loops being
bounded by a timeout or a budget. No exception, crash or cancellation has to happen.

`Teleoperation`: weak fairness of the loop's thread; of the operator's thread leaving once the
loop has set an error, which the display polls (`monitor.py`); and of the calls of a stop, park
and release once begun. The operator need never press a key, and nothing makes a servo answer.

`Replay`, `PolicyRollout`, `PoseCapture`, `PixelTeaching` and `WristServo` are checked for
safety only: their loops count frames or budgets, or run until the operator ends them.

## What is proved

Every invariant a run checks, and every action property but one, is a theorem about all values of
the constants. Where a theorem has a hypothesis beyond the assumptions of its module, the case it
excludes is one of the findings: TLC refutes the property there.

| theorem | hypothesis | what it excludes |
|---|---|---|
| `LegsBeginNear` | `Turns = {0}` | an encoder that is whole turns off until it is enabled |
| `OneRolloutToAnEpisode` | `"null" \notin Recorders` | a recorder that aborts nothing |
| `PairsStayTrue` | `TRUE \notin Blind` | collecting without a window |
| `WhatWasTaughtStays` | `~Refits` | a fit beside another command |
| `FileStaysGood`, `OthersStay` | `~EditsDuringSave` | an editor at work during a save |
| `StaysSlow` | `Starts \subseteq Low..High` | an arm that starts outside its limits |
| `StaysSlow` | `WholeTurns = {0}` | a reading that `enable()` corrects by a whole turn |
| `OneScene` | `Disturbances <= 1`, a linear feature | a carabiner put back; the median of an angle |

**The FSM** (`RobotAttemptProofs`, first part). For all budgets (`BudgetAssumption`, what
`AttachmentFSMConfig.__post_init__` refuses otherwise): `TypeCorrect`, `AccountsBalance`,
`EndsHeld`, `FailedExhausted`, `Placement`, and `Refinement`, that every step maps to a step of
`BoundedAttempt` or a stutter. The inductive invariant is the type invariant with the accounts
and the hold, and the fact that an attempt that is still going on has not exhausted its counters.
`LifetimeAccounting` is inductive only with the budgets' types: the product of resets and budgets
is handled by one lemma (`AnotherCycle`) and cited from there.

**The physical attempt** (second part). For every settle time, lock length and loss count as well.
The lemmas climb `AttachmentHandlers` from the arm to the handlers: for each operator, what any of
its outcomes leaves alone. `RControl` then relates the robot to the state the loop is in - which
policies may be seeded, what may be stale, when the follower is live, whose baseline it is - and to
what the visit has seen, of which the tracker's counters are shown to be lower bounds. From it:
`OneController` (`LiveController`), `ArmIsHeld`, `Settled`, `Relocked`, `JudgedInThisApproach`.
`HandlersFitTheFSM` shows every step over the real handlers to be a step of the FSM, so that
the theorems above hold of it; `MotionBounded` that it implements `BoundedAttempt` counted in motion
targets that reached the motors.

**The claim**. For every set of workers and both locks: `TypeCorrect`, `Exclusion`
(`OneController`), `BusFirst` (`BusBeforeLock`), `QuietClose`. `OneController` is about ports, which
no lock guards by itself, so it is not inductive: `ClaimInv` is the chain from a live port to a
session between `open()` and `close()`, from there to a lease that believes, and, while no live
holder lost its lock, to the one worker the lock counts. `LimpInv` adds that a session whose
port is gone before `close()` disconnects it has raised, and that torque is off before the
claim is released.

**Motion**. For all poses, routes and bounds (`MotionAssumption`, what the parameters file is
refused without): `TypeCorrect`, `CallStops`, `SettlesOnFreshFeedback`, `MeasuresLegs`, `NeverBlind`,
`LegsBeginNear`. The invariant says what the loop's tests leave true for the next tick: the arm has
torque, feedback is not older than the loop allows, and the tracking error not older than its
grace and a tick; between legs no motion target is in force. `LegsBeginNear` is about any joint, inside
its limits or up to any `Grace` outside them, and says what `send_targets()` makes of it: the first frame
is the measured pose clipped to the limits. That it is not the measured pose is a finding.

**The workflow**. For any number of cycles and attempts: `TypeCorrect`, `HasPrerequisites`,
`RunsWhatIsDue`, `RepeatsOne`, and `FollowsPlan`, that every step of the workflow is a step of
`AttachPlan` or leaves the record alone. The invariant ties the locals, which start over at every
attempt, to the record, which does not: the line the function is at is where the results on record
lead (`OnTheWay`), and a stage that ran has no checkpoint yet (`Uncommitted`). One lemma
(`CheckpointKeepsWay`) says that a checkpoint does not move its own stage off that way.
`RepeatsOne` counts: every run of a stage is on record, under way, or lost by an attempt
that ended, and an attempt loses one.

**Replay**. For every recording, range, offset, limit and approval: `ReplayTypes`,
`OnlyWhatWasApproved`, `LostTimeIsLost`, `ResultsAreTrue`, `NoJumpAtTheStart`. What the motors got is
the beginning of the plan (`Played`), and `play()`'s counters say which; every frame of a plan
that passed the preflight is inside the limits and no further from its recording than the approval
(`PlanIsRange` and the lemmas after it). `Clock` relates the loop's clock to every frame sent so
far, not to the last one only: that is what makes the pace inductive over missed deadlines.
`ResultsAreTrue` counts what rounding may add: the clipped frames reported are all those that a limit
changed (`AlteredAreCounted`), and no more than were sent.

**Rollouts**. For every period, budget and number of rollouts: `KeepsPace`, `KeepsBudgets`,
`EndsHeld`, `OneRolloutToAnEpisode`. The invariant ties the actions sent to the clock, to the
deadline and to the open episode, phase by phase.

**Teleoperation** (`MonitorProofs`, first part). For any number of servos and all poses, limits and
delays, and every interleaving of the two threads: `OneFrameLate`, `StepsStayShort`, `ParkedFirst`.
`Order` says what the flags tell each thread of the other's line. A frame is late only if its
tick was under way when the flag was set, and there is no tick after it (`Late`). While
following goes on, the loop's command is the last frame (`Following`); that a step is short rests on
two lemmas about the clamp and the limits (`TowardsStep`, `StepBounded`).

**The parameters file** (second part). For any joints, names, calibrations and splices, killed,
interrupted or raising between any two steps: `FileStaysGood` (`FileHolds`), `OthersStay` (`NothingIsLost`),
`RefusalsLeaveNoTrace`. The invariant is what the three files hold at each line of a save (`Written`)
and, undisturbed, that the file is the one the save began with until the new one replaces
it (`Steady`). `RefusalsLeaveNoTrace` needs no hypothesis: an undone save puts back what it read,
and one that is refused has written nothing, whoever edits the file meanwhile. `FileStaysGood` does not
say that the file always loads: it does not between the replace and the restore, nor after a save
that was killed, interrupted or raised there. It says that nothing else leaves it so, and what
is in a file that loads. `TornAssumption` says that what is cut off in the writing does not load, nor
a splice in the wrong place.

**The pixel map** (`CalibrationProofs`, first part). For any processes, places, arms and commands:
`PairsStayTrue`, `OneArmToAMap`, `ParkedOrTold`, `WhatWasTaughtStays`. The lease carries the first
three: `Fits` says of one process what it relies on at its line of the bench, of the arm and of its
own map; who changes the arm or the stamp holds the lease, or nobody does, so the step of one
process leaves every other's fit as it was (`OthersFit`). The last needs more: without `Refits` one
process at most has read the file and not yet written it, and `Continues` says that its map begins
with what the file has, but for what the operator took back. `AgreeingLists` turns that into a bound
on the longest common prefix.

**The wrist servo** (second part). For every joint, limit, tolerance and lock: `MustPersist`
(`AThingMustPersist`) and `StaysSlow` (`SpeedLock`), from what the tracker's lock counts, where
its last frame was, and how far the arm was from it when a hold was lost (`Following`: the command
is no further than that lag from the frame the motors have); and `OneScene` (`TaughtInOneScene`). Its argument is the return check's: moved
once, the carabiner lies where it was or where it is now, and the goal and the last image were
measured on either side of the move, at two poses a shortfall apart. That a measurement is of
the scene at all, whichever minority of its masks leaked, is a lemma about the median
(`MedianIsClean`), which counts majorities: two of them have a detection in common.

### Only model-checked

- Liveness - `Terminates`, `ClaimComesBack`, `CallEnds`, `TaskEnds`, `LossReleases`, and the liveness
  half of `ImplementsBoundedAttempt` and `ImplementsPlan` - is out of the proof system's
  reach: it knows neither `ENABLED` nor fairness. The safety half of both refinements is proved.
- `NeverAway` of `WristServo` is not true of all constants: it weighs the leak, the shortfall and the
  drift the gate lets pass against the bump, and those of the run are in proportion.
- `TaughtInOneScene` for an angle, whose median is taken of wrapped differences.
- `SoleController`, which is refuted.


## Findings

`PROJECT.json` lists the places where the code does not keep what its documentation, comments or
tests say, each with the sentence. `lease_lost` is a run of its own. Of the others, those that name a
property are reproduced by checking that property on the module's instance, with the constant that
the finding names, if it names one:

| property | module | what TLC shows |
|---|---|---|
| `NeutralResetObserves` | RobotAttempt | a neutral reset always aborts |
| `TrackerStopAborts` | RobotAttempt | a tracker that stopped can hand the arm to a policy |
| `RefusedLeavesNothing` | RobotClaim | a refused session leaves the bus or the lock |
| `FirstFrameIsNear`, `Turns <- OneTurn` | JointMotion | a leg planned before `enable()` corrects the encoder jumps |
| `FirstFrameIsWhereItIs`, `Grace = 2` | JointMotion | a joint outside its limits is sent to the limit in one frame |
| `AttachStartsWhereLeft` | AttachWorkflow | a retry attaches from checkpoints, not from the arm |
| `FailuresAreReported` | Replay | a worker's cancellation is neither held nor reported |
| `OnlyClampsAreCounted` | Replay | a frame no limit touched may be reported as clipped |
| `EpisodeIsThisRollout`, `Recorders = {"null"}` | PolicyRollout | an aborted rollout is counted in the next |
| `BoundedSpeed` | Teleoperation | an arm moved between measurement and start is driven back at once |
| `PresetsAreFresh` | PoseCapture | a silent joint's old pose becomes a preset |
| `FailedIsUnchanged` | PoseCapture | an edit that the parser refuses raises past the restore and stays |
| `NotSavedIsUnchanged` | PoseCapture | Ctrl-C after the replace says "not saved" |
| `FileHolds` and `NothingIsLost`, `EditsDuringSave = TRUE` | PoseCapture | an edit during a save is overwritten, or gets a preset of another calibration |
| `FitIsEvidence` | PixelTeaching | a map predicts from samples it no longer has |
| `NothingTaughtIsLost`, `Refits = TRUE` | PixelTeaching | a fit beside a collect writes the old samples back |
| `PairsAreTrue`, `Blind = {TRUE}` | PixelTeaching | a pixel from before the prompt with a pose from after it |
| `NeverAway`, `LeakPlaces = {1, 2, 3}` and `Leaks = {9}` | WristServo | an outlier that comes first wins the median of an angle |
| `TaughtInOneScene`, `Disturbances = 2` | WristServo | a carabiner put back passes the return check |
| `NeverAwayOnALeak` | WristServo | a tick takes one detection; one that leaked may move the arm away |
| `LockedThroughHolds` | WristServo | after a torn hold a frame is a step and the lag away from the last |
| `SpeedLock`, `Starts = {0, 6}` | WristServo | an arm outside a limit is sent to it in one frame |
| `SpeedLock`, `WholeTurns = {0, 12}` | WristServo | a command seeded before `enable()` corrects a turn jumps to a limit |

`EndsForAReason` of Teleoperation, an expectation of no document, is refuted as well: when a poll of the
display meets a fault first, the loop ends without an error to show. The rest is read off the code: a hold after lost feedback sends nothing; a dry run that fails on an
enabled arm commands it; one silent joint can settle on its cached pose while another one
answers; the workflow never looks an approved transition up; stopping teleoperation
without a hold holds; the park's tolerance is derived from another width than the port's;
a collect that is interrupted loses its samples; a close that raises skips the park; and the
servo commands release the arm without one.

## Not modelled

Image processing (`vision.py`, `carabiner_detect.py`), whose answers are free; the least squares of several joints and the
damped solve, of which the models keep one joint and one feature; the shape of a trapezoid below
its straight line. Dataset formats, checkpoint downloads, configuration parsing and the other
command lines. The set-up of the database, and the engine behind `ctx.step()`. `InMemoryLease`, by
its own account for tests. `MakerArmPort`'s driver and the bus handshake, which are not in the
repository. The wire format of the motors, and the serial protocol of the leader.

## Plan

Done: every component whose correctness is a matter of order, failure or concurrency, and a theorem
for every invariant that a run checks. Next:

1. `NeverAway` for a linear feature, from the proportion of leak, shortfall and bump that makes it
   true, stated as its hypothesis;
2. `TaughtInOneScene` for an angle whose first detection does not leak;
3. `ReportedIsHeld` of `Replay`, from the end of each of its motions as `JointMotionProofs` has it;
4. the claim of a task composed with `RobotClaim`: attempts that overlap the one they replace;
5. what the hazards without a property describe: the readiness check after a neutral reset, and
   the next session's first look at an arm whose worker died under torque.
