---------------------------- MODULE JointMotion ----------------------------
(***************************************************************************)
(* robot/motion.py: one call of JointMotionController, which walks the arm *)
(* through the legs of a named position, a joint target or an approved     *)
(* transition, watching it every tick; and the arm under it, on either of  *)
(* its ports (robot/robstride_mit_port.py, robot/maker_arm_port.py).       *)
(*                                                                         *)
(* The joint that is furthest from where it should be stands for all of    *)
(* them, and a pose is an integer.  Time is an integer as well; a tick of  *)
(* the loop lasts from 1 to LongestTick.  The MIT port corrects a joint    *)
(* whose encoder is a turn off when it enables it, and not before; and it  *)
(* enables a joint that is outside its limits by no more than Grace.       *)
(***************************************************************************)
EXTENDS Integers, Sequences

CONSTANTS
    Low, High,              \* the driver's soft limits
    Grace,                  \* WRAP_GRACE_DEG: how far outside them a joint may be
    Turn,                   \* a whole turn of the encoder
    Turns,                  \* by how many the encoder may be off
    Drift,                  \* how far a joint gets between two reads
    Routes,                 \* the legs a caller may ask for
    Speed,                  \* max_velocity_rad_s
    Tolerance, SettleTime, Timeout,         \* the other bounds of MotionProfile
    TrackLimit, TrackingGrace, StaleTime,   \* the controller's
    LongestTick             \* a bound of the model

\* parameters.py refuses what is not positive; only settle_time_s may be zero.
ASSUME MotionAssumption ==
    /\ Low \in Int /\ High \in Int /\ Low <= High /\ Grace \in Nat
    /\ Turn \in Nat /\ Turns \subseteq Int /\ Drift \in Nat
    /\ Routes \subseteq Seq(Int) \ {<< >>}
    /\ Speed \in Nat \ {0} /\ LongestTick \in Nat \ {0}
    /\ Tolerance \in Nat /\ SettleTime \in Nat /\ Timeout \in Nat
    /\ TrackLimit \in Nat /\ TrackingGrace \in Nat /\ StaleTime \in Nat

VARIABLES
    call,       \* what was asked for
    leg,        \* the leg being walked
    phase,      \* where the call is, or how it ended
    arm,        \* the driver, the last frame the motors have, and the joint itself
    sample,     \* the last feedback sample
    move        \* _execute()'s locals, of the current or the last leg that was driven

vars == <<call, leg, phase, arm, sample, move>>

Never == -1

Ended == {"reached", "planned", "failed", "raised"}

Calls == [legs: Routes, dry: BOOLEAN, estop: BOOLEAN]

Lifecycles == {"disconnected", "connected", "enabled", "fault"}

\* The lifecycles in which the motors have torque.
Torque == {"enabled", "fault"}

Arms ==
    [lifecycle: Lifecycles,
     frame: {"none", "hold", "part hold", "motion", "part motion"},
     goal: Int,             \* the pose that frame asks for
     pose: Int,             \* where the joint is
     turns: Int,            \* the encoder's error
     offset: Int,           \* _turn_offsets_deg, which makes up for it
     caches: BOOLEAN]       \* the port answers from a cache: MakerArmPort

Samples == [finite: BOOLEAN, at: Int]

Moves ==
    [start: Int,            \* the path's origin
     now: Int,              \* the tick's time since the leg began
     changed: Int,          \* when feedback last changed
     deviating: Int,        \* since when the tracking error is too large, or Never
     settled: Int]          \* since when the joint is within tolerance, or Never

NoMove == [start |-> 0, now |-> 0, changed |-> 0, deviating |-> Never, settled |-> Never]

TypeOK ==
    /\ call \in Calls
    /\ leg \in 1..Len(call.legs)
    /\ phase \in {"leg", "send", "watch"} \cup Ended
    /\ arm \in Arms
    /\ sample \in Samples
    /\ move \in Moves

-----------------------------------------------------------------------------
(* Poses. *)

Abs(n) == IF n < 0 THEN -n ELSE n

\* clip_to_limits() on one joint.
Clipped(p) == IF p < Low THEN Low ELSE IF p > High THEN High ELSE p

Target == call.legs[leg]

Arrives(start, t) == Abs(Target - start) <= Speed * t

\* The commanded pose a time t into the leg.  TrapezoidPath is slower while it accelerates.
PathAt(start, t) ==
    IF Arrives(start, t)
        THEN Target
        ELSE IF start < Target THEN start + Speed * t ELSE start - Speed * t

Within(s) == s.finite /\ Abs(s.at - Target) <= Tolerance

-----------------------------------------------------------------------------
(* The arm. *)

\* Where a joint can be: the soft limits bind what is commanded, not the joint.
Poses == Low - Grace .. High + Grace

\* The joint moves on its own: with torque it follows, lags or is pushed; without, it sags.
Near(a) == {p \in Poses : Abs(p - a.pose) <= Drift}

\* What a read may find: a fresh sample, none, or a fault.  MakerArmPort may answer from its
\* cache under torque, and reports fault bits before the driver goes into fault.
News(a) ==
    {"fresh", "lost", "fault"}
        \cup (IF a.caches /\ a.lifecycle = "enabled" THEN {"cached"} ELSE {})
        \cup (IF a.caches THEN {"bits"} ELSE {})

Shown(a) == a.pose + Turn * a.turns + a.offset

\* read_state(): the sample, and the arm after it.
Read(a, s, news) ==
    IF news \in {"fresh", "bits"} THEN [finite |-> TRUE, at |-> Shown(a)]
    ELSE IF news = "cached" THEN s
    ELSE [s EXCEPT !.finite = FALSE]

AfterRead(a, p, news) ==
    [a EXCEPT !.pose = p, !.lifecycle = IF news = "fault" THEN "fault" ELSE @]

\* hold_current_position(): the goal becomes the last measured pose, if there is one; the
\* frame may go out in part.
Holds(a, s) ==
    IF s.finite
        THEN {[a EXCEPT !.goal = Clipped(s.at), !.frame = f] : f \in {"hold", "part hold"}}
        ELSE {a}

\* estop() releases torque, and the last frame with it.
Limp(a) == [a EXCEPT !.lifecycle = "connected", !.frame = "none"]

\* BUG: only a stop that the deployment asked for is one.
SafeStopsIfAsked(a, s) ==
    IF a.lifecycle = "enabled" /\ call.estop THEN {Limp(a)} ELSE {a}

\* _safe_stop(): a driver in fault is not commanded further.
SafeStops(a, s) ==
    IF a.lifecycle # "enabled" THEN {a}
    ELSE IF call.estop THEN {Limp(a)}
    ELSE Holds(a, s)

\* The correction of a raw reading, if there is one that lets the arm be enabled.
Offsets(raw) == IF raw \in Poses THEN {0} ELSE {k \in {-Turn, Turn} : raw + k \in Poses}

\* enable() from CONNECTED: the joint has moved to p, and the goal is seeded with the
\* reading, which is not clipped.
Enabled(a, p, k) ==
    [a EXCEPT !.lifecycle = "enabled", !.offset = k, !.frame = "hold", !.pose = p,
              !.goal = p + Turn * a.turns + k]

-----------------------------------------------------------------------------
(* How a call ends. *)

\* _leg_failure(): the arm is stopped, then the failure is reported.
Fail(a, s) ==
    /\ phase' = "failed"
    /\ sample' = s
    /\ arm' \in SafeStops(a, s)
    /\ UNCHANGED <<call, leg>>

\* An exception out of the walk: a heartbeat that cancels, an interrupt, a refused enable().
Interrupted ==
    /\ phase \in {"leg", "send", "watch"}
    /\ phase' = "raised"
    /\ arm' \in SafeStops(arm, sample)
    /\ UNCHANGED <<call, leg, sample, move>>

\* The identity, the name or the number of joints is wrong.
Refuse ==
    /\ phase = "leg" /\ leg = 1
    /\ phase' = "failed"
    /\ UNCHANGED <<call, leg, arm, sample, move>>

LegDone ==
    /\ UNCHANGED call
    /\ IF leg < Len(call.legs)
        THEN leg' = leg + 1 /\ phase' = "leg"
        ELSE leg' = leg /\ phase' = IF call.dry THEN "planned" ELSE "reached"

-----------------------------------------------------------------------------
(* _move_to(): what is asked before a leg is driven. *)

OutOfLimits ==
    /\ phase = "leg"
    /\ Clipped(Target) # Target
    /\ Fail(arm, sample)
    /\ UNCHANGED move

\* The arm is in fault, gone or silent.
Unfit(a, s) == a.lifecycle \in {"fault", "disconnected"} \/ ~s.finite

\* BUG: the path starts at the pose that was measured when the arm was last enabled.
OriginAsSeeded(a, s) == a.goal

\* The pose a leg is planned from: the one read before the arm is enabled.
Origin(a, s) == s.at

\* The arm is enabled if it is not; its joint may have moved since the read.  An enable()
\* that refuses raises (Interrupted).
Depart(a, s) ==
    /\ phase' = "send"
    /\ move' = [NoMove EXCEPT !.start = Origin(a, s)]
    /\ \/ a.lifecycle = "enabled" /\ arm' = a /\ sample' = s
       \/ /\ a.lifecycle = "connected"
          /\ \E p \in Near(a) : \E k \in Offsets(p + Turn * a.turns) :
               /\ arm' = Enabled(a, p, k)
               /\ sample' = [finite |-> TRUE, at |-> arm'.goal]
    /\ UNCHANGED <<call, leg>>

Consider ==
    /\ phase = "leg"
    /\ Clipped(Target) = Target
    /\ \E p \in Near(arm) : \E news \in News(arm) :
        LET a == AfterRead(arm, p, news)
            s == Read(a, sample, news)
        IN  \/ Unfit(a, s) /\ Fail(a, s) /\ UNCHANGED move
            \/ /\ ~Unfit(a, s)
               /\ call.dry \/ Within(s)
               /\ LegDone
               /\ arm' = a /\ sample' = s /\ UNCHANGED move
            \/ ~Unfit(a, s) /\ ~call.dry /\ ~Within(s) /\ Depart(a, s)

-----------------------------------------------------------------------------
(* _execute(): the loop, in two halves.  Between them it sleeps. *)

Cancelled ==
    /\ phase = "send"
    /\ Fail(arm, sample)
    /\ UNCHANGED move

TimedOut ==
    /\ phase = "send"
    /\ move.now > Timeout
    /\ Fail(arm, sample)
    /\ UNCHANGED move

\* The frame reaches every motor, or the driver refuses it with some of them written.
Send ==
    /\ phase = "send"
    /\ move.now <= Timeout
    /\ LET command == Clipped(PathAt(move.start, move.now))
       IN  \/ /\ arm' = [arm EXCEPT !.frame = "motion", !.goal = command]
              /\ phase' = "watch"
              /\ UNCHANGED <<call, leg, sample>>
           \/ Fail([arm EXCEPT !.frame = "part motion", !.goal = command], sample)
    /\ UNCHANGED move

\* Feedback is fresh when the counter of any joint has moved.
Changed(t, heard) == IF heard THEN t ELSE move.changed

\* BUG: feedback is watched on the way only.
StaleOnTheWay(t, m) == m.settled = Never /\ t - m.changed > StaleTime

Stale(t, m) == t - m.changed > StaleTime

\* Since when something has been so without a break.
Since(holds, t0) == IF ~holds THEN Never ELSE IF t0 = Never THEN move.now ELSE t0

Settled(s) == Since(Within(s) /\ Arrives(move.start, move.now), move.settled)

Deviating(s) ==
    Since(~s.finite \/ Abs(s.at - PathAt(move.start, move.now)) > TrackLimit, move.deviating)

\* BUG: nobody watches how far behind the arm is.
LostNever(m) == FALSE

Lost(m) == m.deviating # Never /\ move.now - m.deviating >= TrackingGrace

\* BUG: the clock is read once, before the loop.
TickedNever(m, t) == m

\* The next tick.
Ticked(m, t) == [m EXCEPT !.now = t]

\* The order of the tests is the code's: fault, stale feedback, tracking error, settled.
Watch ==
    /\ phase = "watch"
    /\ \E p \in Near(arm), tick \in 1..LongestTick, heard \in BOOLEAN :
       \E news \in News(arm) :
        LET a == AfterRead(arm, p, news)
            s == Read(a, sample, news)
            t == move.now + tick
            m == [move EXCEPT !.changed = Changed(t, heard),
                              !.deviating = Deviating(s), !.settled = Settled(s)]
            fault == news \in {"fault", "bits"}
            stale == ~heard /\ Stale(t, m)
            settled == m.settled # Never /\ move.now - m.settled >= SettleTime
        IN  /\ news \in {"fresh", "bits"} => heard
            /\ \/ (fault \/ stale \/ Lost(m)) /\ Fail(a, s) /\ move' = m
               \/ /\ ~fault /\ ~stale /\ ~Lost(m) /\ settled
                  /\ arm' \in Holds(a, s) /\ sample' = s /\ move' = m /\ LegDone
               \/ /\ ~fault /\ ~stale /\ ~Lost(m) /\ ~settled
                  /\ phase' = "send"
                  /\ arm' = a /\ sample' = s /\ move' = Ticked(m, t)
                  /\ UNCHANGED <<call, leg>>

-----------------------------------------------------------------------------

\* The call follows read_state() in _run_legs().  An enabled arm is held by whoever used it
\* last; a session whose reconnect() failed is disconnected.
Init ==
    /\ call \in Calls
    /\ leg = 1
    /\ phase = "leg"
    /\ \E l \in Lifecycles, p \in Poses, n \in Turns, k \in {-Turn, 0, Turn}, c \in BOOLEAN :
        \E g \in {p + Turn * n + k, Clipped(p + Turn * n + k)} :
            /\ \/ \E q \in Poses : k \in Offsets(q + Turn * n)
               \/ l \in {"disconnected", "connected"} /\ k = 0
            /\ c => n = 0
            /\ arm = [lifecycle |-> l, frame |-> IF l \in Torque THEN "hold" ELSE "none",
                      goal |-> g, pose |-> p, turns |-> n, offset |-> k, caches |-> c]
    /\ sample \in {[finite |-> f, at |-> Shown(arm)] : f \in BOOLEAN}
    /\ move = NoMove

Next ==
    \/ Refuse \/ OutOfLimits \/ Consider
    \/ Cancelled \/ TimedOut \/ Send \/ Watch
    \/ Interrupted

Spec == Init /\ [][Next]_vars

\* The loop runs on: reads and sends time out, and a tick is bounded.
FairSpec == Spec /\ WF_vars(OutOfLimits \/ Consider \/ TimedOut \/ Send \/ Watch)

-----------------------------------------------------------------------------
(* Properties. *)

\* However a call ends - settled, failed, cancelled, interrupted between any two lines - an
\* arm that still has torque is not left with a motion target in force, unless feedback
\* was lost and there was no pose to hold (_safe_stop, hold_current_position).
StoppedWhereItIs ==
    phase \in Ended /\ arm.lifecycle = "enabled" /\ arm.frame \in {"motion", "part motion"}
        => ~sample.finite

\* A leg counts as done when the joint was measured at its target, and the next leg of an
\* approved path is not begun before: a dry run apart, which goes nowhere.
LegsAreMeasured ==
    [][~call.dry /\ (leg' # leg \/ phase' = "reached") => Within(sample')]_vars

\* A leg that settled did so on feedback from inside the settle window, not on one sample
\* read over and over: settling for as long as feedback may be stale takes a second look.
SettledOnFreshFeedback ==
    phase \in {"leg", "reached"} /\ move.settled # Never /\ SettleTime >= StaleTime
        => move.changed > move.settled

\* A motion frame goes out only on recent feedback, to an arm that was close to its path
\* not long ago: the loop cannot drive on blind or against an obstacle.
FramesNeedFeedback ==
    [][phase = "send" /\ arm' # arm /\ arm'.frame = "motion" =>
        /\ arm.lifecycle = "enabled"
        /\ move.now - move.changed <= StaleTime
        /\ move.deviating # Never => move.now - move.deviating < TrackingGrace + LongestTick]_vars

\* The first motion frame of a leg asks for the pose the driver last measured, give or take
\* what the joint drifts, or for the soft limit next to that pose if it is outside: a path
\* begins where the arm is, whatever the arm was commanded before (motion.py:3-5).
FirstFrameIsNear ==
    [][phase = "send" /\ move.now = 0 /\ phase' = "watch"
        => Abs(arm'.goal - Clipped(sample.at)) <= Drift]_vars

\* Expected by the same sentence (motion.py:3-5) and not so: the first frame asks for the
\* measured pose itself.  A joint outside its limits is sent to the limit in one frame.
FirstFrameIsWhereItIs ==
    [][phase = "send" /\ move.now = 0 /\ phase' = "watch"
        => Abs(arm'.goal - sample.at) <= Drift]_vars

\* Every call ends: each leg is bounded by its timeout, whatever the arm does.
CallEnds == <>(phase \in Ended)
=============================================================================
