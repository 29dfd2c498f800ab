------------------------------- MODULE Replay -------------------------------
(***************************************************************************)
(* robot/replay.py: one replay of a stored episode, from the request to    *)
(* its result.  Preflight decides what may be sent; then, in a session of  *)
(* its own, the arm is aligned to the recorded start and the frames are    *)
(* played at the recorded rate, never faster.                              *)
(*                                                                         *)
(* One joint stands for all: the one furthest outside its limits, or from  *)
(* where it should be.  Poses and times are integers, coarser than what a  *)
(* conversion between degrees and radians rounds; rounding decides only    *)
(* what is counted as clipped.  The motions of the alignment end as        *)
(* JointMotion shows they do.                                              *)
(***************************************************************************)
EXTENDS Integers, Sequences, FiniteSets

CONSTANTS
    Low, High,              \* the driver's soft limits, in its own frame
    Offset,                 \* of the dataset's frame against the driver's
    Poses,                  \* where a joint may be, in the driver's frame
    Drift,                  \* how far a joint that is not commanded gets between two reads
    Requests,               \* what may be asked for, each with the approval on file
    MaxStep,                \* max_step_deg
    StartTolerance,         \* initial_pose_tolerance_deg
    TrackLimit,             \* tracking_error_limit_deg
    MaxMissed,              \* max_consecutive_missed_deadlines
    Period, Beat,           \* a frame's time, heartbeat_interval_s
    HoldsOn,                \* hold_on_completion, hold_on_failure
    LongestTick, Oversleep  \* bounds of the model

Policies == {"reject", "clamp_within_tolerance", "clamp"}

\* An entry of approved_replays; a file whose entry rejects and still names a
\* tolerance is not loaded.
Approvals ==
    {a \in [policy: Policies, deviation: Nat, staged: BOOLEAN] :
        a.policy = "reject" => a.deviation = 0}

ASSUME ReplayAssumption ==
    /\ Low \in Int /\ High \in Int /\ Low < High
    /\ Offset \in Int /\ Poses \subseteq Int /\ Drift \in Nat
    /\ MaxStep \in Nat /\ StartTolerance \in Nat /\ TrackLimit \in Nat
    /\ MaxMissed \in Nat \ {0} /\ Period \in Nat \ {0} /\ Beat \in Nat
    /\ HoldsOn \subseteq {"completion", "failure"}
    /\ LongestTick \in Nat \ {0} /\ Oversleep \in Nat
    /\ \A r \in Requests :
        /\ r.actions \in Seq(Int) /\ r.states \in Seq(Int)
        /\ Len(r.states) = Len(r.actions)
        /\ r.unreadable \subseteq DOMAIN r.actions
        /\ r.first \in Int /\ r.last \in Int
        /\ r.policy \in Policies /\ r.tolerance \in Nat
        /\ r.dry \in BOOLEAN /\ r.compatible \in BOOLEAN
        /\ r.approval \in Approvals

VARIABLES
    request,    \* the request and the episode it names
    phase,      \* where the run is
    arm,        \* the driver, the last frame the motors have, and the joint
    cancelled,  \* what control.is_cancelled() answers
    loop,       \* play()'s locals
    report,     \* _PlayOutcome, and how the run ended
    motors      \* what the motors got of play(): which frame, where to, and when

vars == <<request, phase, arm, cancelled, loop, report, motors>>

Arms ==
    [lifecycle: {"disconnected", "connected", "enabled", "fault"},
     frame: {"none", "hold", "part hold", "motion", "part motion"},
     pose: Poses,
     finite: BOOLEAN]

Phases == {"asked", "refused", "align", "staging", "approach", "start", "tick", "pace",
           "closing", "over"}

TypeOK ==
    /\ request \in Requests
    /\ phase \in Phases
    /\ arm \in Arms
    /\ cancelled \in BOOLEAN
    /\ loop \in [next: Nat, now: Nat, began: Nat, beat: Nat, missed: Nat, over: Nat]
    /\ report \in [sent: Nat, last: Nat, clipped: Nat,
                   ended: {"no", "completed", "stopped", "raised"}]
    /\ motors \in Seq([frame: Nat, to: Int, at: Nat])

-----------------------------------------------------------------------------
(* Preflight: what may be sent, decided before anything is claimed. *)

Distance(p, q) == IF p < q THEN q - p ELSE p - q

\* JointFrame.to_degrees() and to_radians(), up to their scale.
ToDegrees(p) == p + Offset

ToRadians(d) == d - Offset

\* np.clip() to limits_in_degrees().
Clamped(d) ==
    IF d < ToDegrees(Low) THEN ToDegrees(Low)
    ELSE IF d > ToDegrees(High) THEN ToDegrees(High) ELSE d

FrameRange == request.first..request.last

Recorded == [k \in 1..Cardinality(FrameRange) |-> request.actions[request.first + k - 1]]

\* ReplayPlan.actions_deg.
Planned == [k \in DOMAIN Recorded |-> Clamped(Recorded[k])]

\* ReplayPlan.initial_state_deg.
Start == Clamped(request.states[request.first])

RangeExists ==
    /\ request.first \in DOMAIN request.actions
    /\ request.last \in DOMAIN request.actions
    /\ request.first <= request.last

\* BUG: the tolerance of a request is compared with nothing.
PermitsAnyTolerance(approval, policy, tolerance) ==
    policy = "clamp" => approval.policy = "clamp"

\* _resolve_policy(): what is asked for is no laxer than what was approved.
Permits(approval, policy, tolerance) ==
    /\ tolerance <= approval.deviation
    /\ policy = "clamp" => approval.policy = "clamp"

\* _apply_limits() on one value.
WithinPolicy(d) ==
    CASE request.policy = "reject" -> Clamped(d) = d
      [] request.policy = "clamp_within_tolerance" ->
            Distance(d, Clamped(d)) <= request.tolerance
      [] OTHER -> TRUE

SmallSteps == \A k \in 2..Len(Recorded) : Distance(Recorded[k], Recorded[k - 1]) <= MaxStep

\* Metadata, identity, revision and episode are one verdict: request.compatible.
PreflightPasses ==
    /\ request.compatible
    /\ RangeExists
    /\ Permits(request.approval, request.policy, request.tolerance)
    /\ FrameRange \cap request.unreadable = {}
    /\ \A d \in {Recorded[k] : k \in DOMAIN Recorded} \cup {request.states[request.first]} :
        WithinPolicy(d)
    /\ SmallSteps

Init ==
    /\ request \in Requests
    /\ phase = "asked"
    /\ arm \in [lifecycle: {"disconnected"}, frame: {"none"}, pose: Poses, finite: {TRUE}]
    /\ cancelled = FALSE
    /\ loop = [next |-> 1, now |-> 0, began |-> 0, beat |-> 0, missed |-> 0, over |-> 0]
    /\ report = [sent |-> 0, last |-> 0, clipped |-> 0, ended |-> "no"]
    /\ motors = << >>

Refuse ==
    /\ phase = "asked"
    /\ ~PreflightPasses
    /\ phase' = "refused"
    /\ UNCHANGED <<request, arm, cancelled, loop, report, motors>>

DryRun ==
    /\ phase = "asked"
    /\ PreflightPasses
    /\ request.dry
    /\ phase' = "over"
    /\ report' = [report EXCEPT !.ended = "completed"]
    /\ UNCHANGED <<request, arm, cancelled, loop, motors>>

\* session.open(): RobotClaim has its calls.
Open ==
    /\ phase = "asked"
    /\ PreflightPasses
    /\ ~request.dry
    /\ \/ /\ phase' = "align"
          /\ arm' = [arm EXCEPT !.lifecycle = "connected"]
          /\ UNCHANGED report
       \/ /\ phase' = "over"
          /\ report' = [report EXCEPT !.ended = "raised"]
          /\ UNCHANGED arm
    /\ UNCHANGED <<request, cancelled, loop, motors>>

-----------------------------------------------------------------------------
(* How a run ends. *)

\* _hold().
Holds(a, why) ==
    IF why \in HoldsOn /\ a.lifecycle = "enabled" /\ a.finite
    THEN {[a EXCEPT !.frame = f] : f \in {"hold", "part hold"}}
    ELSE {a}

\* A result that says how far the arm got.
Ends(a, how) ==
    /\ phase' = "closing"
    /\ arm' \in Holds(a, IF how = "completed" THEN "completion" ELSE "failure")
    /\ report' = [report EXCEPT !.ended = how]

\* The except clause of run(): ReplayCancelled, RobotFaultError, ReplayTimingError
\* and InitialAlignmentError.
Stops(a) == Ends(a, "stopped")

\* Anything else leaves through the session's __exit__ only.
Unwinds(a) ==
    /\ phase' = "closing"
    /\ arm' = a
    /\ report' = [report EXCEPT !.ended = "raised"]

\* session.close(); when it raises, the caller gets that instead of the result.
Close ==
    /\ phase = "closing"
    /\ phase' = "over"
    /\ \/ /\ arm' = [arm EXCEPT !.lifecycle = "disconnected", !.frame = "none"]
          /\ UNCHANGED report
       \/ /\ arm' = [arm EXCEPT !.lifecycle = "disconnected"]
          /\ report' = [report EXCEPT !.ended = "raised"]
    /\ UNCHANGED <<request, cancelled, loop, motors>>

-----------------------------------------------------------------------------
(* Alignment. *)

\* read_state() of an arm that nothing moves.
Rests(a) ==
    [lifecycle: {a.lifecycle, "fault"}, frame: {a.frame}, finite: BOOLEAN,
     pose: {p \in Poses : Distance(p, a.pose) <= Drift}]

\* BUG: the driver's frame is compared with the dataset's.
AtStartUnconverted(p) == Distance(p, Start) <= StartTolerance

AtStart(p) == Distance(ToDegrees(p), Start) <= StartTolerance

\* align(), up to its first return.
AlignReads ==
    /\ phase = "align"
    /\ \E a \in Rests(arm) :
        \/ /\ ~a.finite
           /\ Stops(a)
        \/ /\ a.finite
           /\ phase' = IF AtStart(a.pose) THEN "start"
                       ELSE IF request.approval.staged THEN "staging" ELSE "approach"
           /\ arm' = a
           /\ UNCHANGED report
    /\ UNCHANGED <<request, cancelled, loop, motors>>

\* JointMotion: a call that does not reach its target leaves no motion target in
\* force on an arm with torque whose pose is known.
LegFails ==
    {a \in [lifecycle: {"connected", "enabled", "fault"}, pose: Poses, finite: BOOLEAN,
            frame: {"none", "hold", "part hold", "motion", "part motion"}] :
        a.lifecycle = "enabled" /\ a.finite => a.frame \notin {"motion", "part motion"}}

\* One leg of the alignment.  A cancelled motion is a failed one; a heartbeat that
\* raises, raises.
Leg(goals, next) ==
    /\ \/ /\ \E p \in goals :
             arm' = [lifecycle |-> "enabled", frame |-> "motion", pose |-> p, finite |-> TRUE]
          /\ phase' = next
          /\ UNCHANGED report
       \/ \E a \in LegFails : Stops(a) \/ Unwinds(a)
    /\ UNCHANGED <<request, cancelled, loop, motors>>

\* The approved initial transition or position.
Stage ==
    /\ phase = "staging"
    /\ Leg(Poses, "approach")

Approach ==
    /\ phase = "approach"
    /\ Leg({p \in Poses : AtStart(p)}, "start")

-----------------------------------------------------------------------------
(* play(). *)

\* The arm is enabled unless alignment did so; enable() writes holds and may raise.
StartPlaying ==
    /\ phase = "start"
    /\ \/ /\ arm.lifecycle = "connected"
          /\ \/ /\ phase' = "tick"
                /\ arm' = [arm EXCEPT !.lifecycle = "enabled", !.frame = "hold"]
                /\ UNCHANGED report
             \/ Unwinds([arm EXCEPT !.frame = "part hold"])
       \/ /\ arm.lifecycle # "connected"
          /\ phase' = "tick"
          /\ UNCHANGED <<arm, report>>
    /\ UNCHANGED <<request, cancelled, loop, motors>>

\* read_state() while frames are played: the joint is anywhere.
Reads ==
    IF motors = << >> THEN Rests(arm)
    ELSE [lifecycle: {arm.lifecycle, "fault"}, frame: {arm.frame}, pose: Poses, finite: BOOLEAN]

Deviates(a) ==
    /\ motors # << >>
    /\ Distance(a.pose, motors[Len(motors)].to) > TrackLimit

\* BUG: clipping is measured against the values preflight already clamped, so that only
\* rounding is left to count.
CountedAgainstPlan(r, k) ==
    {[r EXCEPT !.sent = r.sent + 1, !.last = request.first + k - 1, !.clipped = r.clipped + n] :
        n \in {0, 1}}

\* The counters of a frame the motors got.  What the driver returns has been to radians and
\* back, and is compared with the recording by `deviation > 0`: a frame that no limit
\* touched may differ by the rounding, and is then counted as well.
Counted(r, k) ==
    {[r EXCEPT !.sent = r.sent + 1, !.last = request.first + k - 1, !.clipped = r.clipped + n] :
        n \in IF Planned[k] = Recorded[k] THEN {0, 1} ELSE {1}}

\* One tick, up to the command: cancelled, read, faults, tracking, send.
Tick ==
    /\ phase = "tick"
    /\ loop.next <= Len(Planned)
    /\ \/ /\ cancelled
          /\ Stops(arm)
          /\ UNCHANGED <<loop, motors>>
       \/ /\ ~cancelled
          /\ \E a \in Reads, took \in 0..LongestTick :
              LET over == IF Deviates(a) THEN loop.over + 1 ELSE 0
                  at == loop.now + took
              IN \/ /\ \/ a.lifecycle = "fault"
                       \/ ~a.finite
                       \/ over > MaxMissed
                    /\ Stops(a)
                    /\ UNCHANGED <<loop, motors>>
                 \/ /\ a.lifecycle = "enabled" /\ a.finite /\ over <= MaxMissed
                    /\ \/ /\ phase' = "pace"
                          /\ arm' = [a EXCEPT !.frame = "motion"]
                          /\ motors' = Append(motors, [frame |-> request.first + loop.next - 1,
                                                       to |-> ToRadians(Planned[loop.next]),
                                                       at |-> at])
                          /\ report' \in Counted(report, loop.next)
                          /\ loop' = [loop EXCEPT !.next = @ + 1, !.began = loop.now,
                                                  !.now = at, !.over = over]
                       \/ \* bridge.send_action() raises a plain RuntimeError
                          /\ Unwinds([a EXCEPT !.frame = "part motion"])
                          /\ UNCHANGED <<loop, motors>>
    /\ UNCHANGED <<request, cancelled>>

\* BUG: deadlines count from the start of the episode, so lost time is made up.
RemainingAbsolute == (loop.next - 1) * Period - loop.now

Remaining == Period - (loop.now - loop.began)

\* The rest of the tick: the heartbeat when it is due, then sleep, or count a miss.
Pace ==
    /\ phase = "pace"
    /\ \/ /\ loop.now - loop.beat >= Beat
          /\ Unwinds(arm)
          /\ UNCHANGED loop
       \/ LET beat == IF loop.now - loop.beat >= Beat THEN loop.now ELSE loop.beat
          IN \/ /\ Remaining > 0
                /\ \E late \in 0..Oversleep :
                    loop' = [loop EXCEPT !.now = @ + Remaining + late, !.beat = beat, !.missed = 0]
                /\ phase' = "tick"
                /\ UNCHANGED <<arm, report>>
             \/ /\ Remaining <= 0
                /\ loop' = [loop EXCEPT !.beat = beat, !.missed = @ + 1]
                /\ IF loop.missed + 1 > MaxMissed
                   THEN Stops(arm)
                   ELSE phase' = "tick" /\ UNCHANGED <<arm, report>>
    /\ UNCHANGED <<request, cancelled, motors>>

\* The loop ran out of frames.
Complete ==
    /\ phase = "tick"
    /\ loop.next > Len(Planned)
    /\ Ends(arm, "completed")
    /\ UNCHANGED <<request, cancelled, loop, motors>>

\* Whoever cancels does so at any moment.
Cancel ==
    /\ ~cancelled
    /\ phase \notin {"asked", "refused", "over"}
    /\ cancelled' = TRUE
    /\ UNCHANGED <<request, phase, arm, loop, report, motors>>

Next ==
    \/ Refuse \/ DryRun \/ Open
    \/ AlignReads \/ Stage \/ Approach
    \/ StartPlaying \/ Tick \/ Pace \/ Complete
    \/ Close
    \/ Cancel

Spec == Init /\ [][Next]_vars

-----------------------------------------------------------------------------
(* Properties. *)

\* The frames that a limit changed.
Altered == {k \in DOMAIN motors : ToDegrees(motors[k].to) # request.actions[motors[k].frame]}

\* A result tells what the motors got: how many frames and which was the last; it counts
\* every frame that a limit changed, if not only those, preflight's clamp included; and it
\* says completed only of the whole range (play(), _result()).
ReportMatchesMotors ==
    report.ended \in {"completed", "stopped"} =>
        /\ report.sent = Len(motors)
        /\ motors # << >> => report.last = motors[Len(motors)].frame
        /\ report.clipped \in Cardinality(Altered)..report.sent
        /\ report.ended = "completed" /\ ~request.dry =>
                [k \in DOMAIN motors |-> motors[k].frame] =
                    [k \in 1..Cardinality(FrameRange) |-> request.first + k - 1]

\* What the approval on file allows a frame to differ from its recording.
Approved(d, p) ==
    CASE request.approval.policy = "reject" -> d = p
      [] request.approval.policy = "clamp_within_tolerance" ->
            Distance(d, p) <= request.approval.deviation
      [] OTHER -> TRUE

\* Every frame the motors get lies within the driver's limits, and is the recorded
\* one up to what the operator approved, whatever the request asked for
\* (_resolve_policy(), _apply_limits(), the parameters file).
SentAsApproved ==
    \A k \in DOMAIN motors :
        /\ motors[k].to \in Low..High
        /\ Approved(request.actions[motors[k].frame], ToDegrees(motors[k].to))

\* The first frame goes to an arm that stands where the recording began, clamped
\* into the limits: no jump from wherever the arm was (align()).
StartsWhereRecorded ==
    [][motors = << >> /\ motors' # << >> =>
        Distance(ToDegrees(arm'.pose), Clamped(request.states[request.first]))
            <= StartTolerance + Drift]_vars

\* A late frame is never made up: of any two frames, the later one comes no earlier
\* than the frames between them take (play()).
NoCatchUp ==
    \A i, j \in DOMAIN motors :
        i < j => motors[j].at - motors[i].at >= (j - i - 1) * Period

\* When a run has a result, the arm was told to hold before the session lets it go,
\* if it had torque and a known pose (_hold()).
ReportedIsHeld ==
    phase = "closing" /\ report.ended \in {"completed", "stopped"}
        /\ arm.lifecycle = "enabled" /\ arm.finite
        /\ HoldsOn = {"completion", "failure"} =>
            arm.frame \in {"hold", "part hold"}

\* Expected by replay.py:550-551, "Clipping is measured against the dataset's own values, so a
\* clamp applied in preflight counts the same as one applied by the driver", and not so: a
\* frame without a clamp may be counted as well.
OnlyClampsAreCounted ==
    report.ended \in {"completed", "stopped"} => report.clipped = Cardinality(Altered)

\* Code and documents disagree: docs/session-replay.md:71-73, "Cancellation, faults and
\* timing failures return a `ReplayResult` with `completed=False`, a machine-readable
\* `stopped_reason`, and the frames actually sent".  A worker's cancellation is a
\* heartbeat that raises.
FailuresAreReported ==
    phase = "closing" /\ motors # << >> => report.ended # "raised"
=============================================================================
