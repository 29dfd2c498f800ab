----------------------------- MODULE RobotAttempt -----------------------------
(***************************************************************************)
(* One physical attempt: AttachmentFSM.run() over the real handlers of     *)
(* AttachmentHandlers.  Each action of the FSM takes the outcome of the    *)
(* handler it calls, of the state entry that follows, and of the hold that *)
(* ends the attempt, in the order run() calls them.                        *)
(***************************************************************************)
EXTENDS AttachmentFSM, AttachmentHandlers

VARIABLES
    robot,      \* the handlers, their sessions and follower, and the arm
    visit,      \* history: what has been seen since the state was entered
    stopped     \* history: a tracker has stopped for good in this attempt

rvars == <<vars, robot, visit, stopped>>

Visits == [steps: Nat, near: Nat, targets: Nat]
NewVisit == [steps |-> 0, near |-> 0, targets |-> 0]

RInit ==
    /\ Init
    /\ \E servo \in Servos :
           /\ ~useSearchCv => servo = "none"     \* skip_cv loads neither calibration
           /\ robot = ConnectedRobot(servo)
    /\ visit = NewVisit
    /\ stopped = FALSE

-----------------------------------------------------------------------------

\* An attempt that ends calls hold() on the robot its last handler left.
HandOver(r) == robot' \in IF held' /\ ~held THEN Holds(r) ELSE {r}

\* The entry that a transition to dest makes; none when the state stays, or in SUCCESS.
Entries(dest, r) ==
    IF dest = state \/ dest = "SUCCESS" THEN {[how |-> "ok", robot |-> r]}
    ELSE EnterState(dest, r)

\* What the visit has seen after this step, in the state that is left or kept.
Seen(look, near) ==
    visit' = IF state' # state THEN NewVisit
             ELSE [steps |-> visit.steps + 1,
                   near |-> IF near THEN visit.near + 1 ELSE 0,
                   targets |-> IF look = "target" THEN visit.targets + 1 ELSE 0]

RBegin ==
    \E e \in EnterState("INITIAL", robot) :
        /\ Begin(e.how)
        /\ HandOver(e.robot)
        /\ UNCHANGED <<visit, stopped>>

RObserve ==
    \E o \in InitialOutcomes(robot) :
        /\ o.how = "result"
        /\ \E e \in Entries(AfterInitial(o.result), o.robot) :
               /\ Observe(o.result, e.how)
               /\ HandOver(e.robot)
        /\ visit' = NewVisit
        /\ UNCHANGED stopped

RSearchRLStep ==
    /\ state = "SEARCH_RL"
    /\ \E o \in SearchRLOutcomes(robot) :
        /\ o.how = "result"
        /\ \E e \in Entries(AfterSearchRL(o.result), o.robot) :
               /\ SearchRLStep(o.result, e.how)
               /\ HandOver(e.robot)
    /\ Seen("nothing", FALSE)
    /\ UNCHANGED stopped

RSearchCVStep ==
    /\ state = "SEARCH_CV"
    /\ \E o \in SearchCVOutcomes(robot) :
        /\ o.how = "result"
        /\ \E e \in Entries(AfterSearchCV(o.result), o.robot) :
               /\ SearchCVStep(o.result, e.how)
               /\ HandOver(e.robot)
        /\ Seen(o.look, o.near)
        /\ stopped' = (stopped \/ o.robot.follower.stopped)

RClipRLStep ==
    /\ state = "CLIP_RL"
    /\ \E o \in ClipRLOutcomes(robot) :
        /\ o.how = "result"
        /\ \E e \in Entries(AfterClipRL(o.result), o.robot) :
               /\ ClipRLStep(o.result, e.how)
               /\ HandOver(e.robot)
    /\ Seen("nothing", FALSE)
    /\ UNCHANGED stopped

\* The outcomes of whichever handler the loop calls in this state.
StepOutcomes ==
    CASE state = "INITIAL" -> InitialOutcomes(robot)
      [] state = "SEARCH_RL" -> SearchRLOutcomes(robot)
      [] state = "SEARCH_CV" -> SearchCVOutcomes(robot)
      [] state = "CLIP_RL" -> ClipRLOutcomes(robot)

RHandlerStops ==
    /\ state \in ActiveStates
    /\ \E o \in StepOutcomes :
        /\ o.how \in Stops
        /\ HandlerStops(o.how)
        /\ HandOver(o.robot)
    /\ UNCHANGED <<visit, stopped>>

RFail == Fail /\ HandOver(robot) /\ UNCHANGED <<visit, stopped>>

RTick == Tick /\ UNCHANGED <<robot, visit, stopped>>

RLoop ==
    \/ RBegin \/ RObserve \/ RSearchRLStep \/ RSearchCVStep \/ RClipRLStep
    \/ RHandlerStops \/ RFail

RNext == RLoop \/ RTick

RSpec == RInit /\ [][RNext]_rvars

\* Every handler returns or raises: reads time out, sleeps are bounded by a period.
FairRSpec == RSpec /\ WF_rvars(RLoop)

-----------------------------------------------------------------------------
(* Properties. *)

\* Every variable keeps its type.
RTypeOK ==
    /\ TypeOK
    /\ robot \in Robots
    /\ visit \in Visits
    /\ stopped \in BOOLEAN

\* The one controller that is live is the state's own, and it starts from the present: a
\* policy is stepped only while seeded, nothing it carries predates motion by another
\* controller, and a follower exists in SEARCH_CV and nowhere else.
LiveController ==
    run = "looping" =>
        /\ state \in Learned => state \in robot.seeded /\ state \notin robot.stale
        /\ robot.follower.on => "SEARCH_CV" \notin robot.stale
        /\ robot.follower.on <=> state = "SEARCH_CV" /\ robot.servo # "none"

\* An attempt that ends short of success leaves the motors with a hold at a measured pose,
\* or with what part of one went out, unless the arm no longer answers: no target of the
\* last controller is left running.
EndedArmIsHeld ==
    Over /\ state # "SUCCESS" /\ Enabled(robot) /\ robot.finite =>
        robot.goal \in {"hold", "part hold"}

\* With the servo in the loop, "CLIP_RL begins only after the measured pose settled": the
\* transition takes SettleTicks settled ticks in a row within this one visit to SEARCH_CV.
ClipBeginsSettled ==
    [][state = "SEARCH_CV" /\ state' = "CLIP_RL" => visit.near + 1 >= SettleTicks]_rvars

\* "Re-lock after every miss": the servo commands motion only on a target that is at least
\* the LockFrames-th in a row.
RelockAfterMiss ==
    [][state = "SEARCH_CV" /\ robot'.moves > robot.moves
       => visit.targets + 1 >= LockFrames]_rvars

\* A degraded alignment is judged against a look of this visit: CLIP_RL does not hand back
\* to SEARCH_CV on the baseline of an approach that is over.
DegradedAgainstThisApproach ==
    [][state = "CLIP_RL" /\ state' = "SEARCH_CV" => visit.steps >= 1]_rvars

\* The same promise as for the FSM alone, with the work counted where it matters: the
\* motion targets that reached the motors, those of steps that then failed included.
Physical == INSTANCE BoundedAttempt WITH
    Limit <- MaxTotalActions,
    work <- robot.moves,
    phase <- IF ~Over THEN "running"
             ELSE IF run = "raised" THEN "raised"
             ELSE IF state = "SUCCESS" THEN "succeeded"
             ELSE "stopped"

MotionIsBounded == Physical!Spec

-----------------------------------------------------------------------------
(* What the documentation says and the code does not do. *)

\* "The FSM clears its per-cycle state budgets and policy context, then takes a fresh
\* motion-free observation": a reset is not refused for the state every reset is in.
NeutralResetObserves ==
    resets > 0 /\ state = "ABORTED" /\ last.source = "INITIAL" =>
        robot.problems # {"lifecycle"}

\* "An arm fault, lost feedback or a refused command raises TrackerStopped out of the
\* tracker after it has held the arm, and the handler turns that into AttachmentAbort": once
\* a tracker has stopped, no learned policy is given the arm.
TrackerStopAborts == stopped => state \notin Learned

=============================================================================
