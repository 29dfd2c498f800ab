---------------------------- MODULE PolicyRollout ----------------------------
(***************************************************************************)
(* robot/policy.py and robot/recording.py: a learned policy at work,       *)
(* either as PolicyRunner.run(), which owns a whole rollout and records    *)
(* it, or as a PolicySession, which its caller advances by one action at a *)
(* time.  Both observe, infer, send and look again; they differ in how     *)
(* they keep time, and in who holds the arm.                               *)
(*                                                                         *)
(* Time is an integer, counted from the beginning of the rollout.  What    *)
(* the policy answers is free.                                             *)
(***************************************************************************)
EXTENDS Integers, Sequences

CONSTANTS
    Kinds,          \* of {"run", "session"}
    Recorders,      \* of {"memory", "null"}: the SessionRecorder in use
    Period,         \* 1 / fps
    MaxDuration, MaxSteps,  \* the budgets of run(); a session is left after MaxSteps
    EstopOnFailure,
    Rollouts,       \* how many rollouts one runner or session makes: a bound of the model
    LongestStep     \* how long a step, or a caller's break, lasts: a bound of the model

ASSUME RolloutAssumption ==
    /\ Kinds \subseteq {"run", "session"} /\ Recorders \subseteq {"memory", "null"}
    /\ Period \in Nat \ {0} /\ MaxDuration \in Nat \ {0} /\ MaxSteps \in Nat
    /\ EstopOnFailure \in BOOLEAN
    /\ Rollouts \in Nat \ {0} /\ LongestStep \in Nat \ {0}

VARIABLES
    kind,       \* PolicyRunner or PolicySession, on which recorder
    phase,      \* where run() is; a session is "seeded" or "idle"
    arm,        \* the driver and the last frame the motors have
    clock,      \* now, and the session's next deadline
    sent,       \* the actions of this rollout that the motors got: begun and sent when
    episode,    \* the recorder
    ended,      \* how the last rollout ended, and what it recorded
    rollouts    \* how many were begun

vars == <<kind, phase, arm, clock, sent, episode, ended, rollouts>>

Never == -1

Terminations == {"completed", "max_steps", "max_duration", "cancelled", "failed"}

Arms ==
    [lifecycle: {"connected", "enabled", "fault"},
     frame: {"none", "hold", "part hold", "motion", "part motion"},
     finite: BOOLEAN]

TypeOK ==
    /\ kind \in [controller: Kinds, recorder: Recorders]
    /\ phase \in {"idle", "rollout", "sent", "seeded"}
    /\ arm \in Arms
    /\ clock \in [now: Nat, due: Nat \cup {Never}]
    /\ sent \in Seq([began: Nat, at: Nat])
    /\ episode \in [open: BOOLEAN, frames: Nat]
    /\ ended \in [how: {"not yet", "refused", "raised", "aborted"} \cup Terminations, frames: Nat]
    /\ rollouts \in 0..Rollouts

Runs == kind.controller = "run"

-----------------------------------------------------------------------------
(* The recorder. *)

\* abort(); the null recorder inherits it, and keeps its own counter.
Abandoned(e) ==
    [open |-> FALSE, frames |-> IF kind.recorder = "memory" THEN 0 ELSE e.frames]

\* BUG: an episode is appended to what the recorder holds.
StartedOnTop(e) == [e EXCEPT !.open = TRUE]

\* start_episode(); the same holds of it.
Started(e) ==
    [open |-> TRUE, frames |-> IF kind.recorder = "memory" THEN 0 ELSE e.frames]

\* finish_episode(); what an in-memory episode holds stays there until the next.
Finished(e) ==
    [open |-> FALSE, frames |-> IF kind.recorder = "memory" THEN e.frames ELSE 0]

-----------------------------------------------------------------------------
(* The arm. *)

\* read_state(), and what else may have come over the arm.
Looks(a) == [lifecycle: {a.lifecycle, "fault"}, frame: {a.frame}, finite: BOOLEAN]

\* hold_current_position().
Held(a) ==
    IF a.lifecycle = "enabled" /\ a.finite
    THEN {[a EXCEPT !.frame = f] : f \in {"hold", "part hold"}}
    ELSE {a}

\* BUG: a rollout that failed is left where it was.
SafeStopsIfDone(a, failed) == IF failed THEN {a} ELSE Held(a)

\* _safe_stop() and close().
SafeStops(a, failed) ==
    IF failed /\ EstopOnFailure /\ a.lifecycle = "enabled"
    THEN {[a EXCEPT !.lifecycle = "connected"]}
    ELSE Held(a)

Init ==
    /\ kind \in [controller: Kinds, recorder: Recorders]
    /\ phase = "idle"
    /\ arm \in [lifecycle: {"connected", "enabled", "fault"}, frame: {"none"}, finite: {TRUE}]
    /\ clock = [now |-> 0, due |-> Never]
    /\ sent = << >>
    /\ episode = [open |-> FALSE, frames |-> 0]
    /\ ended = [how |-> "not yet", frames |-> 0]
    /\ rollouts = 0

-----------------------------------------------------------------------------
(* PolicyRunner.run() and PolicySession.seed(), up to the first action. *)

\* Wrong identity, wrong schema, a dry run, a fault, no connection.
Refuse ==
    /\ phase = "idle" /\ rollouts < Rollouts
    /\ arm' \in Looks(arm)
    /\ ended' = [how |-> "refused", frames |-> 0]
    /\ rollouts' = rollouts + 1
    /\ UNCHANGED <<kind, phase, clock, sent, episode>>

\* The arm is enabled unless it is, and the policy is reset.  run() looked at the
\* clock before that.
Begin ==
    /\ phase = "idle" /\ rollouts < Rollouts
    /\ rollouts' = rollouts + 1
    /\ \E a \in Looks(arm) :
        /\ a.lifecycle # "fault"
        /\ \/ /\ phase' = IF Runs THEN "rollout" ELSE "seeded"
              /\ arm' = IF a.lifecycle = "connected"
                        THEN [lifecycle |-> "enabled", frame |-> "hold", finite |-> TRUE] ELSE a
              /\ \E took \in 0..LongestStep :
                  clock' = [now |-> IF Runs THEN took ELSE 0, due |-> Never]
              /\ sent' = << >>
              /\ episode' = IF Runs THEN Started(episode) ELSE episode
              /\ ended' = [how |-> "not yet", frames |-> 0]
           \/ \* enable() or reset() raises
              /\ arm' \in {a, [lifecycle |-> "enabled", frame |-> "hold", finite |-> TRUE],
                           [a EXCEPT !.frame = IF @ = "none" THEN "part hold" ELSE @]}
              /\ ended' = [how |-> "raised", frames |-> 0]
              /\ UNCHANGED <<phase, clock, sent, episode>>
    /\ UNCHANGED kind

-----------------------------------------------------------------------------
(* How a rollout ends. *)

\* run() returns: safe stop, then the episode is finished.
Returns(a, e, how) ==
    /\ phase' = "idle"
    /\ arm' \in SafeStops(a, how = "failed")
    /\ episode' = Finished(e)
    /\ ended' = [how |-> how, frames |-> e.frames]

\* run()'s except BaseException: safe stop, abort, raise.
Raises ==
    /\ phase' = "idle"
    /\ arm' \in SafeStops(arm, TRUE)
    /\ episode' = Abandoned(episode)
    /\ ended' = [how |-> "aborted", frames |-> 0]

MayStep == clock.now < MaxDuration /\ Len(sent) < MaxSteps

\* A heartbeat that cancels, or an interrupt.
Interrupt ==
    /\ phase \in {"rollout", "sent"}
    /\ Raises
    /\ UNCHANGED <<kind, clock, sent, rollouts>>

\* _rollout() returns before, or instead of, an action: cancelled, out of budget, the
\* policy is done or fails, or what it answers is no action.
Finish ==
    /\ phase = "rollout"
    /\ \/ Returns(arm, episode, "cancelled")
       \/ clock.now >= MaxDuration /\ Returns(arm, episode, "max_duration")
       \/ clock.now < MaxDuration /\ ~MayStep /\ Returns(arm, episode, "max_steps")
       \/ MayStep /\ \E how \in {"completed", "failed"} : Returns(arm, episode, how)
    /\ UNCHANGED <<kind, clock, sent, rollouts>>

\* The policy answers with an action.  A frame may be refused, whole or torn.
Act ==
    /\ phase = "rollout"
    /\ MayStep
    /\ \E a \in Looks(arm), took \in 0..LongestStep :
        \/ /\ a.lifecycle = "enabled"
           /\ phase' = "sent"
           /\ arm' = [a EXCEPT !.frame = "motion"]
           /\ sent' = Append(sent, [began |-> clock.now, at |-> clock.now + took])
           /\ clock' = [clock EXCEPT !.now = @ + took]
           /\ UNCHANGED <<episode, ended>>
        \/ /\ Returns(IF a.lifecycle = "enabled" THEN [a EXCEPT !.frame = "part motion"] ELSE a,
                      episode, "failed")
           /\ UNCHANGED <<clock, sent>>
    /\ UNCHANGED <<kind, rollouts>>

\* BUG: the next deadline is that of the action that was just sent.
DeadlineEarly == (Len(sent) - 1) * Period

Deadline == Len(sent) * Period

AfterSleep == IF clock.now > Deadline THEN clock.now ELSE Deadline

\* The rest of the step: record the frame, look for a fault, sleep to the deadline.
Pace ==
    /\ phase = "sent"
    /\ \E a \in Looks(arm) :
        LET recorded == [episode EXCEPT !.frames = @ + 1] IN
        \/ /\ a.lifecycle = "fault"
           /\ Returns(a, recorded, "failed")
           /\ UNCHANGED clock
        \/ /\ a.lifecycle = "enabled"
           /\ phase' = "rollout"
           /\ arm' = a
           /\ episode' = recorded
           /\ clock' = [clock EXCEPT !.now = AfterSleep]
           /\ UNCHANGED ended
    /\ UNCHANGED <<kind, sent, rollouts>>

-----------------------------------------------------------------------------
(* PolicySession. *)

\* The caller looks at the scene between two actions; once past the deadline, a longer
\* break is no different.
Break ==
    /\ phase = "seeded" /\ clock.due # Never
    /\ clock.now <= clock.due
    /\ \E took \in 1..LongestStep : clock' = [clock EXCEPT !.now = @ + took]
    /\ UNCHANGED <<kind, phase, arm, sent, episode, ended, rollouts>>

\* step() sends an action: it waits for its deadline, and sets the next one from when
\* the action went out.
SessionStep ==
    /\ phase = "seeded" /\ Len(sent) < MaxSteps
    /\ \E a \in Looks(arm), took \in 0..LongestStep, after \in Looks(arm) :
        /\ a.lifecycle = "enabled"
        /\ LET began == IF clock.now < clock.due THEN clock.due ELSE clock.now
               at == began + took
           IN /\ sent' = Append(sent, [began |-> began, at |-> at])
              /\ clock' = [clock EXCEPT !.now = at, !.due = at + Period]
        /\ arm' = [after EXCEPT !.frame = "motion"]
        /\ phase' = IF after.lifecycle = "fault" THEN "idle" ELSE "seeded"
        /\ ended' = IF after.lifecycle = "fault" THEN [ended EXCEPT !.how = "failed"] ELSE ended
    /\ UNCHANGED <<kind, episode, rollouts>>

\* A terminal step: it sends nothing, or a torn frame, and holds nothing.
SessionEnds ==
    /\ phase = "seeded"
    /\ phase' = "idle"
    /\ \E a \in Looks(arm) :
        \/ /\ arm' = a
           /\ \E how \in {"cancelled", "completed", "failed"} : ended' = [ended EXCEPT !.how = how]
        \/ /\ a.lifecycle = "enabled"
           /\ arm' = [a EXCEPT !.frame = "part motion"]
           /\ ended' = [ended EXCEPT !.how = "failed"]
    /\ UNCHANGED <<kind, clock, sent, episode, rollouts>>

\* close().
SessionClose ==
    /\ phase \in {"seeded", "idle"} /\ ~Runs /\ rollouts > 0
    /\ phase' = "idle"
    /\ \E failed \in BOOLEAN : arm' \in SafeStops(arm, failed)
    /\ ended' = [ended EXCEPT !.how = "completed"]
    /\ UNCHANGED <<kind, clock, sent, episode, rollouts>>

Next ==
    \/ Refuse \/ Begin
    \/ Interrupt \/ Finish \/ Act \/ Pace
    \/ Break \/ SessionStep \/ SessionEnds \/ SessionClose

Spec == Init /\ [][Next]_vars

-----------------------------------------------------------------------------
(* Properties. *)

\* A runner follows the schedule and is never ahead of it, whatever it lost; a session
\* leaves a period between two actions, whatever its caller lost (_rollout(), step()).
Paced ==
    \A k \in DOMAIN sent :
        /\ Runs => sent[k].began >= (k - 1) * Period
        /\ ~Runs /\ k > 1 => sent[k].began >= sent[k - 1].at + Period

\* No action begins at or past a budget, and a run blames the budget it exhausted
\* (_rollout()).
WithinBudgets ==
    Runs =>
        /\ Len(sent) <= MaxSteps
        /\ \A k \in DOMAIN sent : sent[k].began < MaxDuration
        /\ ended.how = "max_steps" => Len(sent) = MaxSteps
        /\ ended.how = "max_duration" => clock.now >= MaxDuration

\* However a run leaves its loop - a result, a refused frame, a heartbeat that raises,
\* an interrupt - no action stays in force on an arm with
\* torque whose pose is known (run(), _safe_stop()).
RunEndsHeld ==
    Runs /\ ended.how \in Terminations \cup {"aborted"} /\ phase = "idle"
        /\ arm.lifecycle = "enabled" /\ arm.finite =>
        arm.frame \notin {"motion", "part motion"}

\* The episode that a run returns has one frame for each action the motors got, and
\* none of a rollout that was abandoned (run(), SessionRecorder: "Implementations must
\* tolerate an aborted episode").
EpisodeIsThisRollout ==
    Runs /\ ended.how \in Terminations => ended.frames = Len(sent)
=============================================================================
