---------------------------- MODULE AttachmentFSM ----------------------------
(***************************************************************************)
(* attachment_fsm.py: AttachmentFSM.run() with its injected handlers.      *)
(*                                                                         *)
(* One action is one pass round the loop of run(): the budget checks, the  *)
(* handler call, the counters, the transition and the entry of the new     *)
(* state, in that order.  The loop is single threaded, so nothing observes *)
(* it between those steps; the wall clock is the one thing that moves on   *)
(* its own (Tick).                                                         *)
(*                                                                         *)
(* A handler answers with a result record or raises.  Its answer is a      *)
(* parameter of the action, so that a module which models the handlers can *)
(* supply it; on its own this module lets every answer happen.             *)
(***************************************************************************)
EXTENDS Integers

CONSTANTS
    MaxTotalActions,        \* AttachmentFSMConfig.max_total_actions
    MaxSearchRL,            \* ... max_search_rl_actions
    MaxSearchCV,            \* ... max_search_cv_actions
    MaxClipRL               \* ... max_clip_rl_actions

\* AttachmentFSMConfig.__post_init__ refuses anything below one.
ASSUME BudgetAssumption ==
    /\ MaxTotalActions \in Nat \ {0}
    /\ MaxSearchRL \in Nat \ {0}
    /\ MaxSearchCV \in Nat \ {0}
    /\ MaxClipRL \in Nat \ {0}

VARIABLES
    useSearchCv,    \* config.use_search_cv, fixed for the attempt
    state,          \* the state run() is in
    actions,        \* lifetime action count
    counts,         \* actions per state over the attempt
    cycleCounts,    \* actions per state since the last neutral reset
    resets,         \* neutral resets
    expired,        \* max_duration_s has passed
    last,           \* transitions[-1]
    run,            \* where the call of run() is
    held            \* handlers.hold() was called

counters == <<actions, counts, cycleCounts, resets>>
ending == <<run, held>>
vars == <<useSearchCv, state, counters, expired, last, ending>>

ActionStates == {"SEARCH_RL", "SEARCH_CV", "CLIP_RL"}
ActiveStates == ActionStates \cup {"INITIAL"}
TerminalStates == {"SUCCESS", "FAILED", "ABORTED"}
States == ActiveStates \cup TerminalStates

\* "none" stands for the previous state of the first entry and for an empty trace.
Edges == [source: States \cup {"none"}, destination: States \cup {"none"}]
Edge(s, d) == [source |-> s, destination |-> d]

StateBudget ==
    [s \in ActionStates |-> CASE s = "SEARCH_RL" -> MaxSearchRL
                              [] s = "SEARCH_CV" -> MaxSearchCV
                              [] s = "CLIP_RL" -> MaxClipRL]

NoActions == [s \in ActionStates |-> 0]

\* What a handler can answer.
InitialObservation == [already_attached: BOOLEAN, carabiner_detected: BOOLEAN]
SearchRLResult == [carabiner_detected: BOOLEAN]
SearchCVResult == [target_visible: BOOLEAN, followed: BOOLEAN]
ClipRLResult == [carabiner_visible: BOOLEAN, alignment_degraded: BOOLEAN,
                 carabiner_grasped: BOOLEAN, attachment_verified: BOOLEAN,
                 returned_to_neutral: BOOLEAN]

\* How handlers.enter_state() ends, and how a handler that gives no result does.
EntryOutcomes == {"ok", "abort", "raise"}
Stops == {"abort", "raise"}

Init ==
    /\ useSearchCv \in BOOLEAN
    /\ state = "INITIAL"
    /\ actions = 0
    /\ counts = NoActions
    /\ cycleCounts = NoActions
    /\ resets = 0
    /\ expired = FALSE
    /\ last = Edge("none", "none")
    /\ run = "entering"
    /\ held = FALSE

-----------------------------------------------------------------------------
(* How an attempt ends. *)

\* AttachmentAbort: the ABORTED transition starts from the state run() was still in.
Abort ==
    /\ state' = "ABORTED"
    /\ last' = Edge(state, "ABORTED")
    /\ run' = "returned"
    /\ held' = TRUE

\* Any other exception: hold, and let it out; there is no result.
Raise ==
    /\ run' = "raised"
    /\ held' = TRUE
    /\ UNCHANGED state

\* _transition(..., enter=True).  The record is appended before the state is entered, so
\* an entry that raises leaves the record of a transition that did not complete.
GoTo(dest, entry) ==
    \/ /\ dest \in ActiveStates
       /\ entry = "ok"
       /\ state' = dest
       /\ last' = Edge(state, dest)
       /\ UNCHANGED ending
    \/ /\ dest \in ActiveStates
       /\ entry = "abort"
       /\ Abort
    \/ /\ dest \in ActiveStates
       /\ entry = "raise"
       /\ last' = Edge(state, dest)
       /\ Raise
    \/ /\ dest = "SUCCESS"
       /\ entry = "ok"
       /\ state' = dest
       /\ last' = Edge(state, dest)
       /\ run' = "returned"
       /\ UNCHANGED held

\* BUG: off by one, an action is taken at the limit.
ExhaustedLate ==
    \/ actions > MaxTotalActions
    \/ expired
    \/ cycleCounts[state] > StateBudget[state]

\* The three checks at the top of the loop.
Exhausted ==
    \/ actions >= MaxTotalActions
    \/ expired
    \/ cycleCounts[state] >= StateBudget[state]

-----------------------------------------------------------------------------
(* Which state a result leads to: _after_detection() and _step(). *)

AfterDetection == IF useSearchCv THEN "SEARCH_CV" ELSE "CLIP_RL"

AfterInitial(obs) ==
    CASE obs.already_attached -> "SUCCESS"
      [] ~obs.already_attached /\ obs.carabiner_detected -> AfterDetection
      [] OTHER -> "SEARCH_RL"

AfterSearchRL(res) == IF res.carabiner_detected THEN AfterDetection ELSE "SEARCH_RL"

AfterSearchCV(res) ==
    CASE ~res.target_visible -> "SEARCH_RL"
      [] res.target_visible /\ res.followed -> "CLIP_RL"
      [] OTHER -> "SEARCH_CV"

\* The order of the guards in the code is the precedence of the signals.
AfterClipRL(res) ==
    IF res.returned_to_neutral THEN "INITIAL"
    ELSE IF res.attachment_verified THEN "SUCCESS"
    ELSE IF res.carabiner_visible /\ res.alignment_degraded
         THEN IF useSearchCv THEN "SEARCH_CV" ELSE "CLIP_RL"
    ELSE IF ~res.carabiner_visible /\ ~res.carabiner_grasped THEN "SEARCH_RL"
    ELSE "CLIP_RL"

-----------------------------------------------------------------------------
(* The loop of run(). *)

\* BUG: the action that ended in a neutral reset is never counted.
CountUnpaidReset(dest) ==
    IF dest = "INITIAL"
    THEN cycleCounts' = NoActions /\ UNCHANGED <<actions, counts, resets>>
    ELSE /\ actions' = actions + 1
         /\ counts' = [counts EXCEPT ![state] = @ + 1]
         /\ cycleCounts' = [cycleCounts EXCEPT ![state] = @ + 1]
         /\ UNCHANGED resets

\* The action is counted, and a return to INITIAL starts a new cycle.
Count(dest) ==
    /\ actions' = actions + 1
    /\ counts' = [counts EXCEPT ![state] = @ + 1]
    /\ IF dest = "INITIAL"
       THEN cycleCounts' = NoActions /\ resets' = resets + 1
       ELSE cycleCounts' = [cycleCounts EXCEPT ![state] = @ + 1] /\ UNCHANGED resets

\* A step in s ran and leads to dest: count it, then stay or go.
Stepped(s, dest, entry) ==
    /\ run = "looping"
    /\ state = s
    /\ ~Exhausted
    /\ Count(dest)
    /\ \/ /\ dest = s
          /\ entry = "ok"
          /\ UNCHANGED <<state, last, ending>>
       \/ /\ dest # s
          /\ GoTo(dest, entry)
    /\ UNCHANGED <<useSearchCv, expired>>

\* handlers.enter_state(INITIAL, None), before the loop.
Begin(entry) ==
    /\ run = "entering"
    /\ \/ entry = "ok" /\ run' = "looping" /\ UNCHANGED <<state, last, held>>
       \/ entry = "abort" /\ Abort
       \/ entry = "raise" /\ Raise /\ UNCHANGED last
    /\ UNCHANGED <<useSearchCv, counters, expired>>

\* observe_initial(): no budget is checked and no action counted.
Observe(obs, entry) ==
    /\ run = "looping"
    /\ state = "INITIAL"
    /\ GoTo(AfterInitial(obs), entry)
    /\ UNCHANGED <<useSearchCv, counters, expired>>

SearchRLStep(res, entry) == Stepped("SEARCH_RL", AfterSearchRL(res), entry)
SearchCVStep(res, entry) == Stepped("SEARCH_CV", AfterSearchCV(res), entry)
ClipRLStep(res, entry) == Stepped("CLIP_RL", AfterClipRL(res), entry)

\* observe_initial() or a step raises; the action is not counted.
HandlerStops(stop) ==
    /\ run = "looping"
    /\ state \in ActionStates => ~Exhausted
    /\ \/ stop = "abort" /\ Abort
       \/ stop = "raise" /\ Raise /\ UNCHANGED last
    /\ UNCHANGED <<useSearchCv, counters, expired>>

\* A budget is spent: FAILED, and the hold after the loop.
Fail ==
    /\ run = "looping"
    /\ state \in ActionStates
    /\ Exhausted
    /\ state' = "FAILED"
    /\ last' = Edge(state, "FAILED")
    /\ run' = "returned"
    /\ held' = TRUE
    /\ UNCHANGED <<useSearchCv, counters, expired>>

\* monotonic() passes started + max_duration_s.
Tick ==
    /\ run \in {"entering", "looping"}
    /\ ~expired
    /\ expired' = TRUE
    /\ UNCHANGED <<useSearchCv, state, counters, last, ending>>

Loop ==
    \/ \E e \in EntryOutcomes : Begin(e)
    \/ \E o \in InitialObservation, e \in EntryOutcomes : Observe(o, e)
    \/ \E r \in SearchRLResult, e \in EntryOutcomes : SearchRLStep(r, e)
    \/ \E r \in SearchCVResult, e \in EntryOutcomes : SearchCVStep(r, e)
    \/ \E r \in ClipRLResult, e \in EntryOutcomes : ClipRLStep(r, e)
    \/ \E s \in Stops : HandlerStops(s)
    \/ Fail

Next == Loop \/ Tick

\* run() is an ordinary loop over handlers that return: it goes on.
Fairness == WF_vars(Loop)

Spec == Init /\ [][Next]_vars
FairSpec == Spec /\ Fairness

-----------------------------------------------------------------------------
(* Properties. *)

Over == run \in {"returned", "raised"}

\* Every variable keeps its type; the ranges are the budgets, so an action taken at a
\* limit is a type error.
TypeOK ==
    /\ useSearchCv \in BOOLEAN
    /\ state \in States
    /\ actions \in 0..MaxTotalActions
    /\ counts \in [ActionStates -> Nat]
    /\ cycleCounts \in [ActionStates -> Nat]
    /\ \A s \in ActionStates : cycleCounts[s] <= StateBudget[s]
    /\ resets \in Nat
    /\ expired \in BOOLEAN
    /\ last \in Edges
    /\ run \in {"entering", "looping", "returned", "raised"}
    /\ held \in BOOLEAN

\* A neutral reset clears the cycle's budgets "but never the lifetime action or wall-clock
\* bound": the per-state counts add up to the lifetime count, every reset was paid for with
\* a clip action, and no state spends more than its budget in each cycle.
LifetimeAccounting ==
    /\ counts["SEARCH_RL"] + counts["SEARCH_CV"] + counts["CLIP_RL"] = actions
    /\ resets <= counts["CLIP_RL"]
    /\ \A s \in ActionStates : counts[s] <= resets * StateBudget[s] + cycleCounts[s]

\* An attempt reports FAILED only when a budget really was spent: the lifetime count, the
\* deadline, or the budget of the very state it failed in.
FailedMeansExhausted ==
    state = "FAILED" =>
        \/ actions = MaxTotalActions
        \/ expired
        \/ \E s \in ActionStates : last.source = s /\ cycleCounts[s] = StateBudget[s]

\* However the attempt ends short of success, by budget, abort, or an exception out of any
\* handler or state entry, the hold handler has been called by then; and a caller is told of
\* success only from the observation that verified it, with no hold interposed.
EndedAttemptIsHeld ==
    Over => (held <=> state # "SUCCESS")

\* With visual following configured, the clip policy takes the arm only from SEARCH_CV, the
\* state that places the gripper first; without it SEARCH_CV is never entered (run() would
\* die on its own assertion there).
ClipFollowsPlacement ==
    [][/\ useSearchCv /\ state' = "CLIP_RL" /\ state # "CLIP_RL" => state = "SEARCH_CV"
       /\ ~useSearchCv => state' # "SEARCH_CV"]_vars

\* run() returns or raises, whatever the handlers report: no cycle of detections, losses and
\* neutral resets goes on for ever.
Terminates == <>Over

\* run() is a bounded attempt.
Attempt == INSTANCE BoundedAttempt WITH
    Limit <- MaxTotalActions,
    work <- actions,
    phase <- IF ~Over THEN "running"
             ELSE IF run = "raised" THEN "raised"
             ELSE IF state = "SUCCESS" THEN "succeeded"
             ELSE "stopped"

ImplementsBoundedAttempt == Attempt!Spec

=============================================================================
