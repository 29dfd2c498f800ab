---------------------------- MODULE Teleoperation ----------------------------
(***************************************************************************)
(* robot/teleoperation.py as robot-monitor runs it: the operator's thread  *)
(* measures, starts, pauses and stops leader following and parks the arm;  *)
(* the control loop's thread moves the follower.  The two share the        *)
(* follower's port, the loop's flags and the last command, and only a bus  *)
(* transfer is under a lock, so every line that reads or writes one of     *)
(* them is a step of its own.                                              *)
(*                                                                         *)
(* One joint, in whole units; time is counted in periods of the loop.  The *)
(* leader's servos and the follower's feedback come and go as they like.   *)
(***************************************************************************)
EXTENDS Integers, FiniteSets

CONSTANTS
    Servos,         \* the leader's
    Poses,          \* where the joint may be, and where the leader may ask it to be
    Lower, Upper,   \* the soft limits
    Velocity,       \* max_velocity_rad_s times a period
    DtCap,          \* 4.0: the periods a late tick may make up for
    LossTimeout,    \* leader_loss_timeout_s, in periods
    ParkTolerance,  \* PARK_LIMIT_TOLERANCE_RAD
    Drift,          \* how far a limp arm is moved before it is enabled
    Lag,            \* how far the arm is from its last frame: a bound of the model
    Stall,          \* how many periods a tick lasts: a bound of the model
    None            \* no pose

ASSUME TeleoperationAssumption ==
    /\ Servos # {} /\ IsFiniteSet(Servos)
    /\ Poses \subseteq Int /\ Lower \in Poses /\ Upper \in Poses /\ Lower <= Upper
    /\ \A p, q \in Poses : p..q \subseteq Poses
    /\ None \notin Poses
    /\ Velocity \in Nat \ {0} /\ DtCap \in Nat \ {0} /\ LossTimeout \in Nat \ {0}
    /\ ParkTolerance \in Nat /\ Drift \in Nat /\ Lag \in Nat /\ Stall \in Nat \ {0}

VARIABLES
    op,         \* where the operator's thread is
    loop,       \* where the loop's thread is, the command it has computed, and whether
                \* last_step is this tick's
    flags,      \* _stop, _paused, and whether error is set
    arm,        \* the follower: lifecycle, last frame and its sort
    command,    \* _command
    start,      \* _start_pose
    silent,     \* for each servo, how long ago it last answered
    dead,       \* the servos that will never answer again
    parked,     \* what became of the park
    wire        \* whether a motion frame went out since following (re)started, and how
                \* many since it was told to be quiet: history

vars == <<op, loop, flags, arm, command, start, silent, dead, parked, wire>>

MaxStep == DtCap * Velocity

Apart(a, b) == IF a < b THEN b - a ELSE a - b

\* JointLimit.clamp().
Clamped(p) == IF p < Lower THEN Lower ELSE IF p > Upper THEN Upper ELSE p

TypeOK ==
    /\ op \in {"measuring", "measured", "watching", "pausing", "held", "stopping", "stopped",
               "closed", "parking", "limp"}
    /\ loop \in [at: {"none", "top", "reading", "writing", "sent", "last", "gone"},
                 next: Poses \cup {None}, fresh: BOOLEAN]
    /\ flags \in [stop: BOOLEAN, paused: BOOLEAN, error: BOOLEAN]
    /\ arm \in [lifecycle: {"connected", "enabled", "fault"}, frame: Poses \cup {None},
                sort: {"none", "motion", "hold"}]
    /\ command \in Poses \cup {None} /\ start \in Poses \cup {None}
    /\ silent \in [Servos -> 0..LossTimeout + 1] /\ dead \subseteq Servos
    /\ parked \in {"no", "no start pose", "not enabled", "refused", "failed", "yes"}
    /\ wire \in [any: BOOLEAN, late: Nat]

-----------------------------------------------------------------------------
(* The follower's port (robot/robstride_mit_port.py), one bus transfer a step. *)

\* read_state() may meet a fault; the arm is somewhere near its last frame.
Looks(a) == {a, [a EXCEPT !.lifecycle = "fault"]}

Near(a) == {p \in Poses : Apart(p, a.frame) <= Lag}

\* hold_current_position(): a frame at the last sample; nothing, when that was torn.
Holds(a) ==
    {a} \cup IF a.lifecycle # "enabled" THEN {}
             ELSE {[a EXCEPT !.frame = p, !.sort = "hold"] : p \in Near(a)}

\* Nothing tells the loop to leave the arm alone.
Quiet == flags.paused \/ flags.stop \/ arm.lifecycle # "enabled"

Init ==
    /\ op = "measuring" /\ loop = [at |-> "none", next |-> None, fresh |-> TRUE]
    /\ flags = [stop |-> FALSE, paused |-> FALSE, error |-> FALSE]
    /\ arm = [lifecycle |-> "connected", frame |-> None, sort |-> "none"]
    /\ command = None /\ start = None
    /\ silent = [s \in Servos |-> 0] /\ dead = {}
    /\ parked = "no" /\ wire = [any |-> FALSE, late |-> 0]

-----------------------------------------------------------------------------
(* The operator's thread. *)

\* connect_and_measure().
Measure ==
    /\ op = "measuring"
    /\ \/ /\ \E p \in Poses : command' = p /\ start' = p
          /\ op' = "measured" /\ UNCHANGED arm
       \/ \* a servo is missing, the leader is out of reach, no feedback, Ctrl-C
          op' = "closed" /\ arm' \in Looks(arm) /\ UNCHANGED <<command, start>>
    /\ UNCHANGED <<loop, flags, silent, dead, parked, wire>>

\* start(), after the operator has typed FOLLOW; the arm stood limp meanwhile.
Start ==
    /\ op = "measured"
    /\ \/ \E p \in {q \in Poses : Apart(q, start) <= Drift} :
            /\ arm' = [lifecycle |-> "enabled", frame |-> p, sort |-> "hold"]
            /\ op' = "watching" /\ loop' = [loop EXCEPT !.at = "top"]
            /\ \E k \in 0..LossTimeout + 1 : silent' = [s \in Servos |-> k]
       \/ \* not FOLLOW, enable() refused
          op' = "stopping" /\ UNCHANGED <<arm, loop, silent>>
    /\ UNCHANGED <<flags, command, start, dead, parked, wire>>

\* run_tui() polls the arm ten times a second.
Poll ==
    /\ op = "watching"
    /\ arm' \in Looks(arm) \ {arm}
    /\ UNCHANGED <<op, loop, flags, command, start, silent, dead, parked, wire>>

\* toggle_pause(), line by line.
Resume ==
    /\ op = "watching" /\ flags.paused
    /\ flags' = [flags EXCEPT !.paused = FALSE]
    /\ wire' = [any |-> FALSE, late |-> 0]
    /\ UNCHANGED <<op, loop, arm, command, start, silent, dead, parked>>

Pause ==
    /\ op = "watching" /\ ~flags.paused
    /\ flags' = [flags EXCEPT !.paused = TRUE]
    /\ op' = "pausing"
    /\ wire' = [wire EXCEPT !.any = FALSE]
    /\ UNCHANGED <<loop, arm, command, start, silent, dead, parked>>

PauseHold ==
    /\ op = "pausing"
    /\ arm' \in Holds(arm)
    /\ op' = "held"
    /\ UNCHANGED <<loop, flags, command, start, silent, dead, parked, wire>>

Rebase ==
    /\ op = "held"
    /\ arm' \in Looks(arm)
    /\ command' \in {command} \cup IF arm'.lifecycle = "enabled" THEN Near(arm) ELSE {}
    /\ op' = "watching"
    /\ UNCHANGED <<loop, flags, start, silent, dead, parked, wire>>

\* q, the loop's error, or Ctrl-C: close() begins.
Quit ==
    /\ op \in {"watching", "pausing", "held"}
    /\ op' = "stopping"
    /\ UNCHANGED <<loop, flags, arm, command, start, silent, dead, parked, wire>>

StopFlag ==
    /\ op = "stopping" /\ ~flags.stop
    /\ flags' = [flags EXCEPT !.stop = TRUE]
    /\ wire' = [wire EXCEPT !.any = FALSE]
    /\ UNCHANGED <<op, loop, arm, command, start, silent, dead, parked>>

\* The join ends with the thread, or its timeout runs out while the thread waits for
\* a servo.
Join ==
    /\ op = "stopping" /\ flags.stop
    /\ loop.at \in {"none", "gone", "reading"}
    /\ op' = "stopped"
    /\ UNCHANGED <<loop, flags, arm, command, start, silent, dead, parked, wire>>

\* stop()'s hold, and the leader's bus is closed; an interrupt skips the hold.
Disconnect ==
    /\ op = "stopped" \/ (op = "stopping" /\ flags.stop)
    /\ arm' \in IF op = "stopped" THEN Holds(arm) ELSE {arm}
    /\ op' = "closed"
    /\ UNCHANGED <<loop, flags, command, start, silent, dead, parked, wire>>

\* _parkable().
Parkable(p) == IF Apart(p, Clamped(p)) > ParkTolerance THEN p ELSE Clamped(p)

\* BUG: only a clean quit parks.
ParkIfClean ==
    /\ op = "closed"
    /\ op' = "parking"
    /\ parked' = IF start = None \/ flags.error THEN "no start pose"
                 ELSE IF arm.lifecycle # "enabled" THEN "not enabled" ELSE "no"
    /\ UNCHANGED <<loop, flags, arm, command, start, silent, dead, wire>>

\* park_at_start_pose(), and JointMotionController.go_to_joint_target() in it.
Park ==
    /\ op = "closed"
    /\ op' = "parking"
    /\ parked' = IF start = None THEN "no start pose"
                 ELSE IF arm.lifecycle # "enabled" THEN "not enabled"
                 ELSE IF Parkable(start) \notin Lower..Upper THEN "refused"
                 ELSE "no"
    /\ UNCHANGED <<loop, flags, arm, command, start, silent, dead, wire>>

Parks ==
    /\ op = "parking" /\ parked = "no"
    /\ \/ /\ arm.lifecycle = "enabled"
          /\ arm' = [arm EXCEPT !.frame = Parkable(start), !.sort = "hold"]
          /\ parked' = "yes"
       \/ /\ \E a \in Looks(arm) : arm' \in Holds(a)
          /\ parked' = "failed"
    /\ UNCHANGED <<op, loop, flags, command, start, silent, dead, wire>>

\* The session closes: torque comes off.
Release ==
    /\ op = "parking" /\ parked # "no"
    /\ op' = "limp"
    /\ arm' = [arm EXCEPT !.lifecycle = IF @ = "enabled" THEN "connected" ELSE @]
    /\ UNCHANGED <<loop, flags, command, start, silent, dead, parked, wire>>

Operator ==
    \/ Measure \/ Start \/ Poll \/ Resume \/ Pause \/ PauseHold \/ Rebase \/ Quit
    \/ StopFlag \/ Join \/ Disconnect \/ Park \/ Parks \/ Release

-----------------------------------------------------------------------------
(* The loop's thread, _run(). *)

\* BUG: the flags are looked at by every other tick only.
MayTickIfStarted == arm.lifecycle = "enabled"

\* The condition of the while.
MayTick == ~flags.stop /\ arm.lifecycle = "enabled"

Later(k, elapsed) == IF k + elapsed > LossTimeout THEN LossTimeout + 1 ELSE k + elapsed

\* No tick, or none while paused: the wait is a period.
Top ==
    /\ loop.at = "top"
    /\ IF ~MayTick THEN loop' = [loop EXCEPT !.at = "last"] /\ UNCHANGED silent
       ELSE IF flags.paused
       THEN /\ loop' = [loop EXCEPT !.fresh = TRUE]
            /\ silent' = [s \in Servos |-> Later(silent[s], 1)]
       ELSE loop' = [loop EXCEPT !.at = "reading"] /\ UNCHANGED silent
    /\ UNCHANGED <<op, flags, arm, command, start, dead, parked, wire>>

Raises ==
    /\ flags' = [flags EXCEPT !.stop = TRUE, !.error = TRUE]
    /\ loop' = [loop EXCEPT !.at = "last", !.next = None]

\* BUG: an answer of one servo counts for all of them.
SeenAny(answered, elapsed) ==
    [s \in Servos |-> IF answered # {} THEN 0 ELSE Later(silent[s], elapsed)]

\* _last_seen after the readings of this tick.
Seen(answered, elapsed) ==
    [s \in Servos |-> IF s \in answered THEN 0 ELSE Later(silent[s], elapsed)]

\* BUG: a late tick makes up for all the time it lost.
StepUncapped(elapsed) == Velocity * elapsed

\* max_velocity_rad_s * dt.
Step(elapsed) == Velocity * (IF elapsed > DtCap THEN DtCap ELSE elapsed)

\* current + max(-max_step, min(max_step, target - current)).
Towards(from, target, step) ==
    IF Apart(from, target) <= step THEN target
    ELSE IF from < target THEN from + step ELSE from - step

\* The leader is read, the loss is judged, the target is clamped and stepped towards,
\* and send_targets() finds the arm enabled.
Read ==
    /\ loop.at = "reading"
    /\ \/ /\ op \notin {"closed", "parking", "limp"}
          /\ \E answered \in SUBSET (Servos \ dead),
                elapsed \in 1..(IF loop.fresh THEN 1 ELSE Stall) :
              /\ silent' = Seen(answered, elapsed)
              /\ IF (\E s \in Servos : silent'[s] > LossTimeout) \/ arm.lifecycle # "enabled"
                 THEN Raises
                 ELSE /\ \E wanted \in Poses :
                          loop' = [at |-> "writing", fresh |-> FALSE,
                                   next |-> Towards(command, Clamped(wanted), Step(elapsed))]
                      /\ UNCHANGED flags
       \/ \* the leader's bus, or a mapping that is no number
          Raises /\ UNCHANGED silent
    /\ UNCHANGED <<op, arm, command, start, dead, parked, wire>>

\* The frame goes out; torn, the motors may have got it all the same.
Write ==
    /\ loop.at = "writing"
    /\ \/ loop' = [loop EXCEPT !.at = "sent"] /\ UNCHANGED flags
       \/ Raises
    /\ arm' = [arm EXCEPT !.frame = loop.next, !.sort = "motion"]
    /\ wire' = [any |-> TRUE, late |-> IF Quiet THEN wire.late + 1 ELSE 0]
    /\ UNCHANGED <<op, command, start, silent, dead, parked>>

Sent ==
    /\ loop.at = "sent"
    /\ command' = loop.next
    /\ loop' = [loop EXCEPT !.at = "top", !.next = None]
    /\ UNCHANGED <<op, flags, arm, start, silent, dead, parked, wire>>

\* The finally clause.
Last ==
    /\ loop.at = "last"
    /\ arm' \in Holds(arm)
    /\ loop' = [loop EXCEPT !.at = "gone"]
    /\ UNCHANGED <<op, flags, command, start, silent, dead, parked, wire>>

Loop == Top \/ Read \/ Write \/ Sent \/ Last

\* A servo goes silent for good: one, a bound of the model.
Dies ==
    /\ op # "limp"
    /\ \E s \in Servos : dead = {} /\ dead' = {s}
    /\ UNCHANGED <<op, loop, flags, arm, command, start, silent, parked, wire>>

Over == op = "limp" /\ loop.at \in {"none", "gone"} /\ UNCHANGED vars

Next == Operator \/ Loop \/ Dies \/ Over

\* Both threads run; run_tui() sees the loop's error at its next redraw, and what the
\* operator has begun the code finishes.
Fairness ==
    /\ WF_vars(Loop)
    /\ WF_vars(flags.error /\ Quit)
    /\ WF_vars(StopFlag \/ Join \/ Disconnect \/ Park \/ Parks \/ Release)

Spec == Init /\ [][Next]_vars /\ Fairness

-----------------------------------------------------------------------------
(* Safety. *)

\* A tick that was under way when the operator paused or stopped, or when a fault
\* showed, may still send its frame; no other does.
OneLateFrame == wire.late <= 1

\* While following goes on, two frames are never further apart than the longest tick
\* may move the arm, however late a tick is.
NoJump ==
    [][wire.any /\ arm'.sort = "motion" => Apart(arm.frame, arm'.frame) <= MaxStep]_vars

\* Torque comes off an enabled arm only after the way back to where it stood limp was
\* tried, whatever ended the session.
ParkedBeforeLimp ==
    [][op' = "limp" /\ op # "limp" /\ arm.lifecycle = "enabled"
        => parked \in {"refused", "failed", "yes"}]_vars

\* Expected of every frame: it is a step from where the motors were last sent.  It
\* fails for the first frame after an arm was moved between its measurement and FOLLOW.
BoundedSpeed ==
    [][wire' # wire /\ arm'.sort = "motion" => Apart(arm.frame, arm'.frame) <= MaxStep + Lag]_vars

\* Expected of the loop: it never ends without a reason the operator is shown.  It
\* fails when a poll of the display meets the fault first.
EndsForAReason == loop.at = "gone" => flags.stop

-----------------------------------------------------------------------------
(* Liveness. *)

\* A leader that has lost a servo for good does not keep the arm under torque, unless
\* the operator has paused, or a fault ended the following first.
LossReleases ==
    (dead # {} /\ loop.at # "none") ~> (op = "limp" \/ flags.paused \/ arm.lifecycle = "fault")
=============================================================================
