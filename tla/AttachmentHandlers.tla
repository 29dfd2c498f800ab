------------------------- MODULE AttachmentHandlers -------------------------
(***************************************************************************)
(* adapters.py: EverestAttachmentFSMHandlers, the real handlers behind     *)
(* AttachmentFSM, down to the frames that reach the motors:                *)
(*                                                                         *)
(*   - the two PolicySessions (robot/policy.py) of SEARCH_RL and CLIP_RL;  *)
(*   - the visual follower of SEARCH_CV (robot/carabiner_follower.py or    *)
(*     robot/wrist_follower.py) over its VisualTracker                     *)
(*     (robot/visual_tracking.py);                                         *)
(*   - the alignment baseline of carabiner_perception.py;                  *)
(*   - the INITIAL readiness check (robot/readiness.py);                   *)
(*   - the arm behind them (robot/robstride_mit_port.py).                  *)
(*                                                                         *)
(* The module has no variables.  A handler is the set of its outcomes: how *)
(* it ends, what it answers, and the robot it leaves behind, one outcome   *)
(* for everything the hardware, the camera, the policy and the operator    *)
(* may do meanwhile.  RobotAttempt.tla puts the FSM on top.                *)
(***************************************************************************)
EXTENDS Integers

CONSTANTS
    SettleTicks,            \* CarabinerFollower.settle_ticks
    LostAfter,              \* CarabinerFollower.lost_after_misses
    LockFrames              \* VisualTracker.lock_frames

\* __post_init__ of the follower and of the tracker refuse anything below one.
ASSUME FollowerAssumption ==
    /\ SettleTicks \in Nat \ {0}
    /\ LostAfter \in Nat \ {0}
    /\ LockFrames \in Nat \ {0}

Learned == {"SEARCH_RL", "CLIP_RL"}
Controllers == Learned \cup {"SEARCH_CV"}

\* Which calibration SEARCH_CV was given: the pixel map, the wrist Jacobian, or neither.
Servos == {"fixed", "wrist", "none"}

\* What the last frame written to the motors was: an enable seed or a hold at the measured
\* pose, a hold of which a part went out, a motion target, or a part of one.
Goals == {"none", "hold", "part hold", "motion", "part motion"}

Followers == [on: BOOLEAN, misses: Nat, settled: Nat, locked: Nat, stopped: BOOLEAN]
NoFollower == [on |-> FALSE, misses |-> 0, settled |-> 0, locked |-> 0, stopped |-> FALSE]
FreshFollower == [NoFollower EXCEPT !.on = TRUE]

Robots ==
    [servo: Servos,
     lifecycle: {"connected", "enabled", "fault"},
     finite: BOOLEAN,           \* the last feedback sample was all finite
     goal: Goals,
     moves: Nat,                \* motion targets that reached the motors, in part or whole
     seeded: SUBSET Learned,    \* PolicySession._seeded
     stale: SUBSET Controllers, \* what they carry predates another controller's motion
     follower: Followers,
     baseline: BOOLEAN,         \* CarabinerPerception._baseline is set
     problems: SUBSET {"lifecycle", "evidence"}]    \* last_readiness.problems

ConnectedRobot(servo) ==
    [servo |-> servo, lifecycle |-> "connected", finite |-> TRUE, goal |-> "none",
     moves |-> 0, seeded |-> {}, stale |-> Controllers, follower |-> NoFollower,
     baseline |-> FALSE, problems |-> {}]

-----------------------------------------------------------------------------
(* The arm. *)

\* One feedback sample: finite, missing or torn, or a motor that reports a fault.
Readings(r) ==
    {[r EXCEPT !.finite = TRUE],
     [r EXCEPT !.finite = FALSE],
     [r EXCEPT !.finite = FALSE, !.lifecycle = "fault"]}

Faulted(r) == r.lifecycle = "fault"
Enabled(r) == r.lifecycle = "enabled"

\* BUG: a hold trusts the goal the motors already have, as while a move is in flight.
HoldsOnlyWhenIdle(r) == {r}

\* hold_current_position(): the goal becomes the last measured pose, if there is one.
Holds(r) ==
    IF Enabled(r) /\ r.finite
    THEN {[r EXCEPT !.goal = "hold"], [r EXCEPT !.goal = "part hold"]}
    ELSE {r}

\* enable(): torque on, with the goal seeded from the pose just measured; or refused.
Enables(r) ==
    {[how |-> "ok", robot |-> [r EXCEPT !.lifecycle = "enabled", !.finite = TRUE,
                                        !.goal = "hold"]],
     [how |-> "raise", robot |-> r]}

\* Controller c has commanded motion: whatever the others carry is stale.
Moved(r, c, goal) ==
    [r EXCEPT !.goal = goal, !.moves = @ + 1, !.stale = @ \cup (Controllers \ {c})]

\* send_targets() of controller c: accepted, torn on the wire, or refused unless ENABLED.
Sends(r, c) ==
    IF Enabled(r)
    THEN {[ok |-> TRUE, robot |-> Moved(r, c, "motion")],
          [ok |-> FALSE, robot |-> Moved(r, c, "part motion")]}
    ELSE {[ok |-> FALSE, robot |-> r]}

-----------------------------------------------------------------------------
(* PolicySession. *)

\* BUG: the policy is reset on the first entry only, like a rollout that owns the arm.
ResetOnce(s, r) ==
    [r EXCEPT !.seeded = @ \cup {s}, !.stale = IF s \in r.seeded THEN @ ELSE @ \ {s}]

\* handle.reset() and _seeded: what the policy carried is dropped.
Reset(s, r) == [r EXCEPT !.seeded = @ \cup {s}, !.stale = @ \ {s}]

\* seed(): refuse a mismatch or a faulted arm, enable a connected one, reset the policy.
Seeds(s, r) ==
    LET reset(q) == {[how |-> "ok", robot |-> Reset(s, q)], [how |-> "raise", robot |-> q]}
        armed(q) == IF q.lifecycle = "connected" THEN Enables(q)
                    ELSE {[how |-> "ok", robot |-> q]}
    IN {[how |-> "raise", robot |-> r]} \cup
       UNION {IF Faulted(q) THEN {[how |-> "raise", robot |-> q]}
              ELSE UNION {IF a.how = "ok" THEN reset(a.robot) ELSE {a} : a \in armed(q)} :
              q \in Readings(r)}

\* _terminal(): the rollout is finished and has to be seeded again.
Finished(r, s) == [r EXCEPT !.seeded = @ \ {s}]

\* step() under _advance(): at most one action; any terminal step but completion aborts.
\* Heartbeat and camera failures are not caught.
Advance(s, r) ==
    LET decided(q) == {[how |-> "raise", robot |-> q],
                       [how |-> "abort", robot |-> Finished(q, s)],
                       [how |-> "completed", robot |-> Finished(q, s)]}
        checked(q) == IF Faulted(q) THEN [how |-> "abort", robot |-> Finished(q, s)]
                      ELSE [how |-> "acted", robot |-> q]
        acted(q) == UNION {IF x.ok THEN {checked(y) : y \in Readings(x.robot)}
                           ELSE {[how |-> "abort", robot |-> Finished(x.robot, s)]} :
                           x \in Sends(q, s)}
    IN IF s \notin r.seeded
       THEN {[how |-> "raise", robot |-> r]}
       ELSE {[how |-> "raise", robot |-> r], [how |-> "abort", robot |-> Finished(r, s)]}
            \cup UNION {decided(q) \cup acted(q) : q \in Readings(r)}

-----------------------------------------------------------------------------
(* The visual follower. *)

\* What a frame comes to: no carabiner; a carabiner but no target (a jump, outside the
\* region or the limits, a refused solve, no feedback); arrived (the wrist's image error is
\* within tolerance, and the target is to hold); a target.
Looks(servo) ==
    {"nothing", "rejected", "target"} \cup IF servo = "wrist" THEN {"arrived"} ELSE {}

\* BUG: a miss holds, but does not ask for a fresh lock.
StillLocked(f) == f

\* The part of _hold() that requires a fresh lock before moving again.
Unlocked(f) == [f EXCEPT !.locked = 0]

\* VisualTracker.tick(): the outcomes, with what settling needs to know of them.
Ticks(r, target) ==
    LET held(q, f) == {[near |-> {FALSE}, robot |-> x] : x \in Holds([q EXCEPT !.follower = f])}
        stopped(q) == held(q, [Unlocked(q.follower) EXCEPT !.stopped = TRUE])
        locking(q) == [q EXCEPT !.follower.locked = @ + 1]
    IN UNION {IF Faulted(q) \/ ~q.finite THEN stopped(q)
              ELSE IF ~target THEN held(q, Unlocked(q.follower))
              ELSE IF locking(q).follower.locked < LockFrames
                   THEN {[near |-> BOOLEAN, robot |-> locking(q)]}
              ELSE UNION {IF x.ok THEN {[near |-> BOOLEAN, robot |-> x.robot]}
                          ELSE stopped(x.robot) : x \in Sends(locking(q), "SEARCH_CV")} :
              q \in Readings(r)}

\* BUG: settled ticks are counted, not settled ticks in a row.
NotedEver(r, look, near) ==
    [r EXCEPT !.follower.misses = IF look = "nothing" THEN @ + 1 ELSE 0,
              !.follower.settled = IF near THEN @ + 1 ELSE @]

\* What step() makes of a tick: misses and settled ticks in a row.  The fixed camera judges
\* settling on the measured pose, the wrist camera on the image alone.
Noted(r, look, near) ==
    [r EXCEPT !.follower.misses = IF look = "nothing" THEN @ + 1 ELSE 0,
              !.follower.settled = IF near THEN @ + 1 ELSE 0]

Nears(servo, look, tick) ==
    IF servo = "wrist" THEN {look = "arrived"} ELSE tick.near

\* search_cv_step(): one frame and one tick.  TrackerStopped, which only a tick after the
\* one that stopped raises, is the abort; a camera that gives no frame is not caught.
SearchCVOutcomes(r) ==
    LET answer(f) == [target_visible |-> f.misses < LostAfter,
                      followed |-> f.settled >= SettleTicks]
        noted(look, tick) == {[near |-> n, robot |-> Noted(tick.robot, look, n)] :
                              n \in Nears(r.servo, look, tick)}
        none == [target_visible |-> FALSE, followed |-> FALSE]
    IN {[how |-> "raise", result |-> none, look |-> "nothing", near |-> FALSE, robot |-> r]}
       \cup IF ~r.follower.on THEN {}
            ELSE IF r.follower.stopped
            THEN {[how |-> "abort", result |-> none, look |-> "nothing", near |-> FALSE,
                   robot |-> q] : q \in {r} \cup Readings(r)}
            ELSE UNION {UNION {{[how |-> "result", result |-> answer(x.robot.follower),
                                 look |-> look, near |-> x.near, robot |-> x.robot] :
                                x \in noted(look, tick)} :
                               tick \in Ticks(r, look = "target")} :
                        look \in Looks(r.servo)}

\* _build_follower() and start(): a camera that does not open, TrackerStopped, and a refused
\* enable() are not caught here.
Starts(r) ==
    LET started(q) == [q EXCEPT !.stale = @ \ {"SEARCH_CV"}]
        built(q) == [q EXCEPT !.follower = FreshFollower]
        unopened == IF r.servo = "fixed" THEN {[how |-> "raise", robot |-> r]} ELSE {}
    IN unopened \cup
       UNION {IF Faulted(q) \/ ~q.finite THEN {[how |-> "raise", robot |-> built(q)]}
              ELSE IF q.lifecycle = "connected"
              THEN {[how |-> a.how, robot |-> IF a.how = "ok" THEN started(built(a.robot))
                                              ELSE built(a.robot)] : a \in Enables(q)}
              ELSE {[how |-> "ok", robot |-> started(built(q))]} :
              q \in Readings(r)}

-----------------------------------------------------------------------------
(* The handlers. *)

\* _release_follower(): the arm is held for the policy that seeds from feedback.
Release(r) ==
    IF r.follower.on THEN Holds([r EXCEPT !.follower = NoFollower]) ELSE {r}

\* BUG: the baseline of the first approach is the baseline of every later one.
KeepBaseline(dest, r) == r

\* perception.enter_state(): a new approach has its own alignment baseline.
DropBaseline(dest, r) == IF dest = "CLIP_RL" THEN [r EXCEPT !.baseline = FALSE] ELSE r

\* enter_state(): release or build the follower, tell the perception, seed the session.
EnterState(dest, r) ==
    CASE dest = "SEARCH_CV" ->
            IF r.follower.on \/ r.servo = "none" THEN {[how |-> "ok", robot |-> r]}
            ELSE Starts(r)
      [] dest \in Learned -> UNION {Seeds(dest, DropBaseline(dest, q)) : q \in Release(r)}
      [] OTHER -> {[how |-> "ok", robot |-> q] : q \in Release(r)}

\* InitialReadinessChecker.check(): exact about the lifecycle, whatever else it finds wrong.
ReadinessReports(r) ==
    LET lifecycle == IF r.lifecycle = "connected" THEN {} ELSE {"lifecycle"}
        checked(q, evidence) == [q EXCEPT !.problems = lifecycle \cup evidence]
    IN {checked(q, {"evidence"}) : q \in Readings(r)} \cup
       {checked(q, {}) : q \in {p \in Readings(r) : p.finite /\ ~Faulted(p)}}

\* perception.initial_observation(): a motion-free look, or an exception out of it.
InitialLooks(r) ==
    LET none == [already_attached |-> FALSE, carabiner_detected |-> FALSE]
    IN {[how |-> "raise", result |-> none, robot |-> r]} \cup
       [how: {"result"}, robot: {r},
        result: [already_attached: BOOLEAN, carabiner_detected: BOOLEAN]]

\* observe_initial(): passive readiness, then the camera.
InitialOutcomes(r) ==
    LET none == [already_attached |-> FALSE, carabiner_detected |-> FALSE]
    IN UNION {IF q.problems = {} THEN InitialLooks(q)
              ELSE {[how |-> "abort", result |-> none, robot |-> q]} :
              q \in ReadinessReports(r)}

\* search_rl_step(): one action, then a look; a policy that is done without a carabiner aborts.
SearchRLOutcomes(r) ==
    LET none == [carabiner_detected |-> FALSE]
        seen(a) ==
            {[how |-> "raise", result |-> none, robot |-> a.robot],
             [how |-> "result", result |-> [carabiner_detected |-> TRUE], robot |-> a.robot],
             [how |-> IF a.how = "completed" THEN "abort" ELSE "result",
              result |-> none, robot |-> a.robot]}
    IN UNION {IF a.how \in {"acted", "completed"} THEN seen(a)
              ELSE {[how |-> a.how, result |-> none, robot |-> a.robot]} :
              a \in Advance("SEARCH_RL", r)}

NoGates == [carabiner_visible |-> FALSE, alignment_degraded |-> FALSE,
            carabiner_grasped |-> FALSE, attachment_verified |-> FALSE,
            returned_to_neutral |-> FALSE]

\* _grasped(): never without a gripper reading.
Grasps(r) == IF r.finite THEN BOOLEAN ELSE {FALSE}

\* perception.clip_observations(): the first sighting of an approach is its baseline, and
\* only a later one can be degraded against it.
ClipObservations(r) ==
    LET gates(q) ==
            {g \in [carabiner_visible: BOOLEAN, alignment_degraded: BOOLEAN,
                    carabiner_grasped: Grasps(q), attachment_verified: BOOLEAN,
                    returned_to_neutral: {FALSE}] :
               g.alignment_degraded => g.carabiner_visible /\ r.baseline}
        looked(q, g) == [q EXCEPT !.baseline = @ \/ g.carabiner_visible]
    IN {[how |-> "raise", result |-> NoGates, robot |-> r]} \cup
       UNION {{[how |-> "result", result |-> g, robot |-> looked(q, g)] : g \in gates(q)} :
              q \in Readings(r)}

\* _require_measured_neutral(): completion is a neutral reset only from a measured, resting
\* neutral pose, and an abort otherwise.
MeasuredNeutral(r) ==
    {[how |-> "abort", result |-> NoGates, robot |-> q] : q \in Readings(r)} \cup
    {[how |-> "result", result |-> [NoGates EXCEPT !.returned_to_neutral = TRUE],
      robot |-> q] : q \in {p \in Readings(r) : p.finite /\ ~Faulted(p)}}

\* clip_rl_step(): one action, then the gates.
ClipRLOutcomes(r) ==
    UNION {CASE a.how = "completed" -> MeasuredNeutral(a.robot)
             [] a.how = "acted" -> ClipObservations(a.robot)
             [] OTHER -> {[how |-> a.how, result |-> NoGates, robot |-> a.robot]} :
           a \in Advance("CLIP_RL", r)}

=============================================================================
