-------------------------- MODULE RobotAttemptProofs --------------------------
(***************************************************************************)
(* Theorems about AttachmentFSM.run(), for every positive budget, and      *)
(* about one physical attempt, for every settle time, lock length and loss *)
(* count as well.                                                          *)
(*                                                                         *)
(* The first part is about the loop over any handlers.  Control says how   *)
(* the call's progress and the state it is in go together, Accounting how  *)
(* the counters do; both are inductive with TypeOK, and the properties of  *)
(* AttachmentFSM follow from them.                                         *)
(*                                                                         *)
(* The second climbs the operators of AttachmentHandlers from the arm to   *)
(* the handlers, one lemma each, saying what an outcome leaves alone; then *)
(* RControl relates the robot to the state the loop is in and to what the  *)
(* visit has seen, and the properties of RobotAttempt follow from it.      *)
(***************************************************************************)
EXTENDS RobotAttempt, TLAPS

\* Where the call is, what state that leaves it in, and whether it has held.
Control ==
    /\ ~Over => state \in ActiveStates /\ ~held
    /\ run = "entering" => state = "INITIAL"
    /\ run = "raised" => state \in ActiveStates /\ held
    /\ run = "returned" => state \in TerminalStates /\ (held <=> state # "SUCCESS")
    /\ ~useSearchCv => state # "SEARCH_CV"

IInv == TypeOK /\ Control /\ LifetimeAccounting

USE DEF ActionStates, ActiveStates, TerminalStates, States

\* A state's budget is a positive number.
LEMMA BudgetType == \A s \in ActionStates : StateBudget[s] \in Nat \ {0}
  BY BudgetAssumption DEF StateBudget

\* One more reset is worth one more cycle's budget.
LEMMA AnotherCycle == \A r, b \in Nat : (r + 1) * b = r * b + b
  OBVIOUS

\* Every result leads to a state, and to SEARCH_CV only with visual following configured.
LEMMA Destinations ==
    ASSUME TypeOK
    PROVE  /\ \A o \in InitialObservation :
                 /\ AfterInitial(o) \in {"SEARCH_RL", "SEARCH_CV", "CLIP_RL", "SUCCESS"}
                 /\ AfterInitial(o) = "SEARCH_CV" => useSearchCv
                 /\ AfterInitial(o) = "CLIP_RL" => ~useSearchCv
           /\ \A r \in SearchRLResult :
                 /\ AfterSearchRL(r) \in ActionStates
                 /\ AfterSearchRL(r) = "SEARCH_CV" => useSearchCv
                 /\ AfterSearchRL(r) = "CLIP_RL" => ~useSearchCv
           /\ \A r \in SearchCVResult : AfterSearchCV(r) \in ActionStates
           /\ \A r \in ClipRLResult :
                 /\ AfterClipRL(r) \in ActiveStates \cup {"SUCCESS"}
                 /\ AfterClipRL(r) = "SEARCH_CV" => useSearchCv
  BY DEF TypeOK, InitialObservation, SearchRLResult, SearchCVResult, ClipRLResult,
         AfterInitial, AfterSearchRL, AfterSearchCV, AfterClipRL, AfterDetection

\* A transition ends in its destination, or in the abort or exception of entering it.
LEMMA GoToOutcomes ==
    ASSUME TypeOK, Control, run = "looping",
           NEW dest \in ActiveStates \cup {"SUCCESS"},
           NEW entry \in EntryOutcomes,
           GoTo(dest, entry),
           UNCHANGED useSearchCv,
           dest = "SEARCH_CV" => useSearchCv
    PROVE  /\ Control'
           /\ state' \in States
           /\ last' \in Edges
           /\ run' \in {"looping", "returned", "raised"}
           /\ held' \in BOOLEAN
           /\ state' \in {dest, state, "ABORTED"}
<1> USE DEF TypeOK, Control, Over, Edge, Edges
<1>0. state \in ActiveStates /\ held = FALSE
  BY DEF Over
<1>1. CASE dest \in ActiveStates /\ entry = "ok"
  <2>1. state' = dest /\ last' = Edge(state, dest) /\ UNCHANGED ending
    BY <1>1 DEF GoTo
  <2>2. run' = "looping" /\ held' = FALSE
    BY <1>0, <2>1 DEF ending
  <2>3. QED BY <1>0, <1>1, <2>1, <2>2
<1>2. CASE dest \in ActiveStates /\ entry = "abort"
  <2>1. Abort
    BY <1>2 DEF GoTo
  <2>2. QED BY <1>0, <2>1 DEF Abort
<1>3. CASE dest \in ActiveStates /\ entry = "raise"
  <2>1. last' = Edge(state, dest) /\ Raise
    BY <1>3 DEF GoTo
  <2>2. QED BY <1>0, <1>3, <2>1 DEF Raise
<1>4. CASE dest = "SUCCESS"
  <2>1. state' = dest /\ last' = Edge(state, dest) /\ run' = "returned" /\ held' = held
    BY <1>4 DEF GoTo
  <2>2. QED BY <1>0, <1>4, <2>1
<1>5. QED BY <1>1, <1>2, <1>3, <1>4 DEF EntryOutcomes

\* A step is counted once, in its state and in the attempt, and its cycle's count stays
\* within the budget it was checked against.
LEMMA CountKeepsAccounts ==
    ASSUME TypeOK, LifetimeAccounting,
           NEW dest \in ActiveStates \cup {"SUCCESS"},
           state \in ActionStates,
           dest = "INITIAL" => state = "CLIP_RL",
           ~Exhausted,
           Count(dest)
    PROVE  /\ LifetimeAccounting'
           /\ actions' \in 0..MaxTotalActions
           /\ counts' \in [ActionStates -> Nat]
           /\ cycleCounts' \in [ActionStates -> Nat]
           /\ \A s \in ActionStates : cycleCounts'[s] <= StateBudget[s]
           /\ resets' \in Nat
<1>1. actions < MaxTotalActions /\ cycleCounts[state] < StateBudget[state]
  BY BudgetAssumption, BudgetType DEF Exhausted, TypeOK
<1>2. /\ actions' = actions + 1
      /\ actions' \in 0..MaxTotalActions
      /\ counts' \in [ActionStates -> Nat]
      /\ counts'["SEARCH_RL"] + counts'["SEARCH_CV"] + counts'["CLIP_RL"] = actions'
  BY <1>1, BudgetAssumption DEF Count, TypeOK, LifetimeAccounting
<1>3. CASE dest = "INITIAL"
  <2>1. /\ cycleCounts' = NoActions
        /\ resets' = resets + 1
        /\ counts' = [counts EXCEPT ![state] = @ + 1]
    BY <1>3 DEF Count
  <2>2. resets' <= counts'["CLIP_RL"]
    BY <1>3, <2>1 DEF TypeOK, LifetimeAccounting
  <2>3. ASSUME NEW s \in ActionStates
        PROVE  counts'[s] <= resets' * StateBudget[s] + cycleCounts'[s]
    <3>1. counts[s] <= resets * StateBudget[s] + cycleCounts[s]
      BY DEF LifetimeAccounting
    <3>2. /\ counts'[s] <= counts[s] + 1
          /\ s # state => counts'[s] = counts[s]
          /\ cycleCounts'[s] = 0
      BY <2>1 DEF TypeOK, NoActions
    <3>3. s = state => cycleCounts[s] + 1 <= StateBudget[s]
      BY <1>1, BudgetType DEF TypeOK
    <3>4. resets' * StateBudget[s] = resets * StateBudget[s] + StateBudget[s]
      BY <2>1, AnotherCycle, BudgetType DEF TypeOK
    <3>5. counts'[s] <= resets * StateBudget[s] + StateBudget[s]
      <4>1. /\ counts[s] \in Nat /\ counts'[s] \in Nat /\ cycleCounts[s] \in Nat
            /\ StateBudget[s] \in Nat /\ cycleCounts[s] <= StateBudget[s]
            /\ resets * StateBudget[s] \in Nat
        BY <1>2, BudgetType DEF TypeOK
      <4>2. QED BY <3>1, <3>2, <3>3, <4>1
    <3>6. QED BY <3>2, <3>4, <3>5, <1>2, BudgetType DEF TypeOK
  <2>4. QED BY <1>2, <2>1, <2>2, <2>3, BudgetType DEF LifetimeAccounting, NoActions, TypeOK
<1>4. CASE dest # "INITIAL"
  <2>1. /\ cycleCounts' = [cycleCounts EXCEPT ![state] = @ + 1]
        /\ resets' = resets
        /\ counts' = [counts EXCEPT ![state] = @ + 1]
    BY <1>4 DEF Count
  <2>2. ASSUME NEW s \in ActionStates
        PROVE  /\ cycleCounts'[s] \in Nat
               /\ cycleCounts'[s] <= StateBudget[s]
               /\ counts'[s] <= resets' * StateBudget[s] + cycleCounts'[s]
    <3>1. resets * StateBudget[s] \in Nat
      BY BudgetType DEF TypeOK
    <3>2. counts[s] <= resets * StateBudget[s] + cycleCounts[s]
      BY DEF LifetimeAccounting
    <3>3. QED BY <1>1, <2>1, <3>1, <3>2, BudgetType DEF TypeOK
  <2>3. resets' <= counts'["CLIP_RL"]
    BY <2>1 DEF TypeOK, LifetimeAccounting
  <2>4. QED BY <1>2, <2>1, <2>2, <2>3 DEF LifetimeAccounting, TypeOK
<1>5. QED BY <1>3, <1>4

\* One counted step, wherever it leads.
LEMMA SteppedKeepsInv ==
    ASSUME IInv,
           NEW s \in ActionStates,
           NEW dest \in ActiveStates \cup {"SUCCESS"},
           NEW entry \in EntryOutcomes,
           dest = "INITIAL" => s = "CLIP_RL",
           dest = "SEARCH_CV" => useSearchCv \/ s = "SEARCH_CV",
           Stepped(s, dest, entry)
    PROVE  IInv'
<1>1. run = "looping" /\ state = s /\ ~Exhausted /\ Count(dest)
      /\ UNCHANGED <<useSearchCv, expired>>
  BY DEF Stepped
<1>2. /\ LifetimeAccounting'
      /\ actions' \in 0..MaxTotalActions
      /\ counts' \in [ActionStates -> Nat]
      /\ cycleCounts' \in [ActionStates -> Nat]
      /\ \A q \in ActionStates : cycleCounts'[q] <= StateBudget[q]
      /\ resets' \in Nat
  BY <1>1, CountKeepsAccounts DEF IInv
<1>3. dest = "SEARCH_CV" => useSearchCv
  BY <1>1 DEF IInv, Control
<1>4. CASE dest = s
  BY <1>1, <1>2, <1>4 DEF Stepped, IInv, TypeOK, Control, Over, GoTo, ending
<1>5. CASE dest # s
  <2>1. GoTo(dest, entry)
    BY <1>5 DEF Stepped
  <2>2. /\ Control' /\ state' \in States /\ last' \in Edges /\ held' \in BOOLEAN
        /\ run' \in {"looping", "returned", "raised"}
    BY <1>1, <1>3, <2>1, GoToOutcomes DEF IInv
  <2>3. QED BY <1>1, <1>2, <2>2 DEF IInv, TypeOK
<1>6. QED BY <1>4, <1>5

\* Nothing but the ending changes when a handler raises.
LEMMA StoppedKeepsInv ==
    ASSUME IInv, ~Over,
           useSearchCv' = useSearchCv, counters' = counters, expired' = expired,
           Abort \/ (Raise /\ UNCHANGED last)
    PROVE  IInv'
<1>1. state \in ActiveStates /\ held = FALSE
  BY DEF IInv, TypeOK, Control
<1>2. LifetimeAccounting'
  BY DEF IInv, LifetimeAccounting, counters
<1>3. CASE Abort
  BY <1>1, <1>2, <1>3 DEF Abort, IInv, TypeOK, Control, Over, Edge, Edges, counters
<1>4. CASE Raise /\ (UNCHANGED last)
  BY <1>1, <1>2, <1>4 DEF Raise, IInv, TypeOK, Control, Over, counters
<1>5. QED BY <1>3, <1>4

LEMMA InitInv == Init => IInv
<1> SUFFICES ASSUME Init
             PROVE  IInv
  OBVIOUS
<1>0. \A s \in ActionStates : counts[s] = 0 /\ cycleCounts[s] = 0
  BY DEF Init, NoActions
<1>1. TypeOK
  <2>1. 0 \in 0..MaxTotalActions
    BY BudgetAssumption
  <2>2. \A s \in ActionStates : cycleCounts[s] <= StateBudget[s]
    BY <1>0, BudgetType
  <2>3. QED BY <2>1, <2>2 DEF Init, TypeOK, Edge, Edges, NoActions
<1>2. Control
  BY DEF Init, Control, Over
<1>3. \A s \in ActionStates : resets * StateBudget[s] = 0
  BY BudgetType DEF Init
<1>4. LifetimeAccounting
  BY <1>0, <1>3 DEF Init, LifetimeAccounting
<1>5. QED BY <1>1, <1>2, <1>4 DEF IInv

LEMMA StepInv == IInv /\ [Next]_vars => IInv'
<1> SUFFICES ASSUME IInv, [Next]_vars
             PROVE  IInv'
  OBVIOUS
<1>1. ASSUME NEW e \in EntryOutcomes, Begin(e)
      PROVE  IInv'
  <2>1. ~Over /\ useSearchCv' = useSearchCv /\ counters' = counters /\ expired' = expired
    BY <1>1 DEF Begin, Over
  <2>2. CASE e = "ok"
    <3>1. run = "entering" /\ run' = "looping" /\ UNCHANGED <<state, last, held>>
      BY <1>1, <2>2 DEF Begin
    <3>2. Control'
      <4>1. state = "INITIAL" /\ held = FALSE
        BY <2>1, <3>1 DEF IInv, TypeOK, Control
      <4>2. QED BY <3>1, <4>1 DEF Control, Over
    <3>3. QED BY <2>1, <3>1, <3>2 DEF IInv, TypeOK, LifetimeAccounting, counters
  <2>3. CASE e # "ok"
    <3>1. Abort \/ (Raise /\ UNCHANGED last)
      BY <1>1, <2>3 DEF Begin, EntryOutcomes
    <3>2. QED BY <2>1, <3>1, StoppedKeepsInv
  <2>4. QED BY <2>2, <2>3
<1>2. ASSUME NEW o \in InitialObservation, NEW e \in EntryOutcomes, Observe(o, e)
      PROVE  IInv'
  <2>1. /\ run = "looping" /\ GoTo(AfterInitial(o), e)
        /\ UNCHANGED <<useSearchCv, counters, expired>>
    BY <1>2 DEF Observe
  <2>2. /\ AfterInitial(o) \in ActiveStates \cup {"SUCCESS"}
        /\ AfterInitial(o) = "SEARCH_CV" => useSearchCv
    BY Destinations DEF IInv
  <2>3. /\ Control' /\ state' \in States /\ last' \in Edges /\ held' \in BOOLEAN
        /\ run' \in {"looping", "returned", "raised"}
    BY <2>1, <2>2, GoToOutcomes DEF IInv
  <2>4. QED BY <2>1, <2>3 DEF IInv, TypeOK, LifetimeAccounting, counters
<1>3. ASSUME NEW r \in SearchRLResult, NEW e \in EntryOutcomes, SearchRLStep(r, e)
      PROVE  IInv'
  <2>1. /\ AfterSearchRL(r) \in ActionStates
        /\ AfterSearchRL(r) = "SEARCH_CV" => useSearchCv
    BY Destinations DEF IInv
  <2>2. QED BY <1>3, <2>1, SteppedKeepsInv DEF SearchRLStep
<1>4. ASSUME NEW r \in SearchCVResult, NEW e \in EntryOutcomes, SearchCVStep(r, e)
      PROVE  IInv'
  <2>1. AfterSearchCV(r) \in ActionStates
    BY Destinations DEF IInv
  <2>2. QED BY <1>4, <2>1, SteppedKeepsInv DEF SearchCVStep
<1>5. ASSUME NEW r \in ClipRLResult, NEW e \in EntryOutcomes, ClipRLStep(r, e)
      PROVE  IInv'
  <2>1. /\ AfterClipRL(r) \in ActiveStates \cup {"SUCCESS"}
        /\ AfterClipRL(r) = "SEARCH_CV" => useSearchCv
    BY Destinations DEF IInv
  <2>2. QED BY <1>5, <2>1, SteppedKeepsInv DEF ClipRLStep
<1>6. ASSUME NEW s \in Stops, HandlerStops(s)
      PROVE  IInv'
  <2>1. ~Over /\ useSearchCv' = useSearchCv /\ counters' = counters /\ expired' = expired
    BY <1>6 DEF HandlerStops, Over
  <2>2. Abort \/ (Raise /\ UNCHANGED last)
    BY <1>6 DEF HandlerStops
  <2>3. QED BY <2>1, <2>2, StoppedKeepsInv
<1>7. CASE Fail
  BY <1>7 DEF Fail, IInv, TypeOK, Control, LifetimeAccounting, Over, Edge, Edges, counters
<1>8. CASE Tick
  BY <1>8 DEF Tick, IInv, TypeOK, Control, LifetimeAccounting, Over, counters, ending
<1>9. CASE UNCHANGED vars
  BY <1>9 DEF vars, IInv, TypeOK, Control, LifetimeAccounting, Over, counters, ending
<1>10. QED
  BY <1>1, <1>2, <1>3, <1>4, <1>5, <1>6, <1>7, <1>8, <1>9 DEF Next, Loop

LEMMA Invariance == Spec => []IInv
  BY InitInv, StepInv, PTL DEF Spec

-----------------------------------------------------------------------------

\* Every variable keeps its type and every counter its budget.
THEOREM TypeCorrect == Spec => []TypeOK
<1>1. IInv => TypeOK
  BY DEF IInv
<1>2. QED BY <1>1, Invariance, PTL

\* The lifetime budget is never refunded: resets are paid for with clip actions, and the
\* per-state counts stay within one budget per cycle.
THEOREM AccountsBalance == Spec => []LifetimeAccounting
<1>1. IInv => LifetimeAccounting
  BY DEF IInv
<1>2. QED BY <1>1, Invariance, PTL

\* An attempt that ended short of success has called the hold handler; one that succeeded
\* has not.
THEOREM EndsHeld == Spec => []EndedAttemptIsHeld
<1>1. IInv => EndedAttemptIsHeld
  BY DEF IInv, TypeOK, Control, Over, EndedAttemptIsHeld
<1>2. QED BY <1>1, Invariance, PTL

-----------------------------------------------------------------------------

\* A step out of s, reduced to what it does to the state and to the lifetime count.
LEMMA SteppedOutcome ==
    ASSUME IInv,
           NEW s \in ActionStates,
           NEW dest \in ActiveStates \cup {"SUCCESS"},
           NEW entry \in EntryOutcomes,
           dest = "SEARCH_CV" => useSearchCv \/ s = "SEARCH_CV",
           Stepped(s, dest, entry)
    PROVE  /\ run = "looping" /\ state = s /\ useSearchCv' = useSearchCv
           /\ actions < MaxTotalActions /\ actions' = actions + 1
           /\ state' \in {dest, s, "ABORTED"}
           /\ Control'
           /\ run' \in {"looping", "returned", "raised"}
<1>1. run = "looping" /\ state = s /\ ~Exhausted /\ Count(dest) /\ useSearchCv' = useSearchCv
  BY DEF Stepped
<1>2. actions < MaxTotalActions /\ actions' = actions + 1
  BY <1>1, BudgetAssumption DEF Exhausted, Count, IInv, TypeOK
<1>3. dest = "SEARCH_CV" => useSearchCv
  BY <1>1 DEF IInv, Control
<1>4. CASE dest = s /\ UNCHANGED <<state, last, ending>>
  BY <1>1, <1>2, <1>4 DEF IInv, TypeOK, Control, Over, ending
<1>5. CASE GoTo(dest, entry)
  BY <1>1, <1>2, <1>3, <1>5, GoToOutcomes DEF IInv
<1>6. QED BY <1>4, <1>5 DEF Stepped

\* What any step of the loop does to the state, to the lifetime count and to the ending.
LEMMA StepOutcome ==
    ASSUME IInv, Loop
    PROVE  /\ ~Over
           /\ useSearchCv' = useSearchCv
           /\ Fail \/ (state' # "FAILED" /\ Control')
           /\ \/ actions' = actions
              \/ actions < MaxTotalActions /\ actions' = actions + 1
           /\ state' = "CLIP_RL" /\ state # "CLIP_RL" /\ useSearchCv => state = "SEARCH_CV"
<1>1. ASSUME NEW e \in EntryOutcomes, Begin(e)
      PROVE  /\ ~Over /\ useSearchCv' = useSearchCv /\ actions' = actions
             /\ state' \in {state, "ABORTED"}
  BY <1>1 DEF Begin, Over, counters, Abort, Raise
<1>2. ASSUME NEW o \in InitialObservation, NEW e \in EntryOutcomes, Observe(o, e)
      PROVE  /\ ~Over /\ useSearchCv' = useSearchCv /\ actions' = actions
             /\ state' \in {AfterInitial(o), state, "ABORTED"}
             /\ AfterInitial(o) \in ActionStates \cup {"SUCCESS"}
             /\ AfterInitial(o) = "CLIP_RL" => ~useSearchCv
  <2>1. /\ run = "looping" /\ GoTo(AfterInitial(o), e)
        /\ UNCHANGED <<useSearchCv, counters, expired>>
    BY <1>2 DEF Observe
  <2>2. /\ AfterInitial(o) \in ActionStates \cup {"SUCCESS"}
        /\ AfterInitial(o) = "SEARCH_CV" => useSearchCv
        /\ AfterInitial(o) = "CLIP_RL" => ~useSearchCv
    BY Destinations DEF IInv
  <2>3. state' \in {AfterInitial(o), state, "ABORTED"}
    BY <2>1, <2>2, GoToOutcomes DEF IInv
  <2>4. QED BY <2>1, <2>2, <2>3 DEF Over, counters
<1>3. ASSUME NEW r \in SearchRLResult, NEW e \in EntryOutcomes, SearchRLStep(r, e)
      PROVE  /\ ~Over /\ useSearchCv' = useSearchCv
             /\ actions < MaxTotalActions /\ actions' = actions + 1
             /\ state' \in {AfterSearchRL(r), state, "ABORTED"}
             /\ AfterSearchRL(r) \in ActionStates
             /\ AfterSearchRL(r) = "CLIP_RL" => ~useSearchCv
  <2>1. /\ AfterSearchRL(r) \in ActionStates
        /\ AfterSearchRL(r) = "SEARCH_CV" => useSearchCv
        /\ AfterSearchRL(r) = "CLIP_RL" => ~useSearchCv
    BY Destinations DEF IInv
  <2>2. QED BY <1>3, <2>1, SteppedOutcome DEF SearchRLStep, Over
<1>4. ASSUME NEW r \in SearchCVResult, NEW e \in EntryOutcomes, SearchCVStep(r, e)
      PROVE  /\ ~Over /\ useSearchCv' = useSearchCv
             /\ actions < MaxTotalActions /\ actions' = actions + 1
             /\ state' \in {AfterSearchCV(r), state, "ABORTED"}
             /\ AfterSearchCV(r) \in ActionStates /\ state = "SEARCH_CV"
  <2>1. AfterSearchCV(r) \in ActionStates
    BY Destinations DEF IInv
  <2>2. QED BY <1>4, <2>1, SteppedOutcome DEF SearchCVStep, Over
<1>5. ASSUME NEW r \in ClipRLResult, NEW e \in EntryOutcomes, ClipRLStep(r, e)
      PROVE  /\ ~Over /\ useSearchCv' = useSearchCv
             /\ actions < MaxTotalActions /\ actions' = actions + 1
             /\ state' \in {AfterClipRL(r), state, "ABORTED"}
             /\ AfterClipRL(r) \in ActiveStates \cup {"SUCCESS"} /\ state = "CLIP_RL"
  <2>1. /\ AfterClipRL(r) \in ActiveStates \cup {"SUCCESS"}
        /\ AfterClipRL(r) = "SEARCH_CV" => useSearchCv
    BY Destinations DEF IInv
  <2>2. QED BY <1>5, <2>1, SteppedOutcome DEF ClipRLStep, Over
<1>6. ASSUME NEW s \in Stops, HandlerStops(s)
      PROVE  /\ ~Over /\ useSearchCv' = useSearchCv /\ actions' = actions
             /\ state' \in {state, "ABORTED"}
  BY <1>6 DEF HandlerStops, Over, counters, Abort, Raise
<1>7. CASE Fail
  BY <1>7 DEF Fail, Over, counters
<1>8. Control'
  BY StepInv DEF Next, IInv
<1>9. ~Over => state # "FAILED"
  BY DEF IInv, Control
<1>10. QED
  BY <1>1, <1>2, <1>3, <1>4, <1>5, <1>6, <1>7, <1>8, <1>9 DEF Loop

\* FAILED is reported only for a budget that really was spent.
THEOREM FailedExhausted == Spec => []FailedMeansExhausted
<1>1. Init => FailedMeansExhausted
  BY DEF Init, FailedMeansExhausted
<1>2. IInv /\ FailedMeansExhausted /\ [Next]_vars => FailedMeansExhausted'
  <2> SUFFICES ASSUME IInv, FailedMeansExhausted, [Next]_vars
               PROVE  FailedMeansExhausted'
    OBVIOUS
  <2>1. CASE Fail
    <3>1. /\ state \in ActionStates /\ last'.source = state
          /\ actions' = actions /\ cycleCounts' = cycleCounts /\ expired' = expired
      BY <2>1 DEF Fail, Edge, counters
    <3>2. \/ actions = MaxTotalActions
          \/ expired
          \/ cycleCounts[state] = StateBudget[state]
      BY <2>1, <3>1, BudgetAssumption, BudgetType DEF Fail, Exhausted, IInv, TypeOK
    <3>3. QED BY <3>1, <3>2 DEF FailedMeansExhausted
  <2>2. CASE Loop /\ ~Fail
    BY <2>2, StepOutcome DEF FailedMeansExhausted
  <2>3. CASE Tick
    BY <2>3 DEF Tick, IInv, Control, Over, FailedMeansExhausted
  <2>4. CASE UNCHANGED vars
    BY <2>4 DEF vars, counters, FailedMeansExhausted
  <2>5. QED BY <2>1, <2>2, <2>3, <2>4 DEF Next
<1>3. QED BY <1>1, <1>2, Invariance, PTL DEF Spec

\* The clip policy starts only from the state that places the gripper, when there is one.
THEOREM Placement == Spec => ClipFollowsPlacement
<1>1. IInv /\ IInv' /\ [Next]_vars
      => [/\ useSearchCv /\ state' = "CLIP_RL" /\ state # "CLIP_RL" => state = "SEARCH_CV"
          /\ ~useSearchCv => state' # "SEARCH_CV"]_vars
  <2> SUFFICES ASSUME IInv, IInv', Next
               PROVE  /\ useSearchCv /\ state' = "CLIP_RL" /\ state # "CLIP_RL"
                         => state = "SEARCH_CV"
                      /\ ~useSearchCv => state' # "SEARCH_CV"
    OBVIOUS
  <2>1. CASE Loop
    <3>1. useSearchCv' = useSearchCv
      BY <2>1, StepOutcome
    <3>2. QED BY <2>1, <3>1, StepOutcome DEF IInv, Control
  <2>2. CASE Tick
    BY <2>2 DEF Tick, IInv, Control
  <2>3. QED BY <2>1, <2>2 DEF Next
<1>2. QED BY <1>1, Invariance, PTL DEF Spec, ClipFollowsPlacement

\* AttachmentFSM.run() implements the bounded attempt its caller is promised (safety: the
\* liveness of Attempt!Spec is checked, not proved).
THEOREM Refinement == Spec => Attempt!SafeSpec
<1>1. Init => Attempt!Init
  BY DEF Init, Attempt!Init, Over
<1>2. IInv /\ IInv' /\ [Next]_vars => [Attempt!Next]_(Attempt!vars)
  <2> SUFFICES ASSUME IInv, IInv', [Next]_vars
               PROVE  [Attempt!Next]_(Attempt!vars)
    OBVIOUS
  <2>1. CASE Loop
    <3>1. /\ ~Over
          /\ \/ actions' = actions
             \/ actions < MaxTotalActions /\ actions' = actions + 1
      BY <2>1, StepOutcome
    <3>2. held = FALSE
      BY <3>1 DEF IInv, Control, TypeOK
    <3>3. CASE ~Over'
      <4>1. held' = FALSE
        BY <3>3 DEF IInv, Control, TypeOK
      <4>2. QED BY <3>1, <3>2, <3>3, <4>1 DEF Attempt!Next, Attempt!Act, Attempt!vars
    <3>4. CASE run' = "raised"
      <4>1. held' = TRUE
        BY <3>4 DEF IInv, Control, TypeOK
      <4>2. Attempt!Stop
        BY <3>1, <3>4, <4>1 DEF Attempt!Stop, Over
      <4>3. QED BY <4>2 DEF Attempt!Next
    <3>5. CASE run' = "returned" /\ state' = "SUCCESS"
      <4>1. held' = FALSE
        BY <3>5 DEF IInv, Control, TypeOK
      <4>2. Attempt!Succeed
        BY <3>1, <3>2, <3>5, <4>1 DEF Attempt!Succeed, Over
      <4>3. QED BY <4>2 DEF Attempt!Next
    <3>6. CASE run' = "returned" /\ state' # "SUCCESS"
      <4>1. held' = TRUE
        BY <3>6 DEF IInv, Control, TypeOK
      <4>2. Attempt!Stop
        BY <3>1, <3>6, <4>1 DEF Attempt!Stop, Over
      <4>3. QED BY <4>2 DEF Attempt!Next
    <3>7. QED BY <3>3, <3>4, <3>5, <3>6 DEF Over
  <2>2. CASE Tick
    BY <2>2 DEF Tick, Over, counters, ending, Attempt!vars
  <2>3. CASE UNCHANGED vars
    BY <2>3 DEF vars, Over, counters, ending, Attempt!vars
  <2>4. QED BY <2>1, <2>2, <2>3 DEF Next
<1>3. QED BY <1>1, <1>2, Invariance, PTL DEF Spec, Attempt!SafeSpec

-----------------------------------------------------------------------------
(* The arm. *)

\* What everything but a send, a look or a change of follower leaves alone.
SameVisit(r, q) ==
    /\ q \in Robots
    /\ q.servo = r.servo
    /\ q.moves = r.moves
    /\ q.follower = r.follower
    /\ q.baseline = r.baseline

\* A reading, a hold or an enable changes nothing but the arm's own report.
SameWork(r, q) == SameVisit(r, q) /\ q.seeded = r.seeded /\ q.stale = r.stale

\* The arm's report: what the feedback, the lifecycle and the goal are set to.
LEMMA Reported ==
    ASSUME NEW r \in Robots, NEW b \in BOOLEAN, NEW g \in Goals,
           NEW l \in {"connected", "enabled", "fault"}
    PROVE  /\ SameWork(r, [r EXCEPT !.finite = b])
           /\ SameWork(r, [r EXCEPT !.finite = b, !.lifecycle = l])
           /\ SameWork(r, [r EXCEPT !.goal = g])
           /\ SameWork(r, [r EXCEPT !.lifecycle = l, !.finite = b, !.goal = g])
<1>1. SameWork(r, [r EXCEPT !.finite = b])
  BY DEF Robots, SameVisit, SameWork
<1>2. SameWork(r, [r EXCEPT !.finite = b, !.lifecycle = l])
  BY DEF Robots, SameVisit, SameWork
<1>3. SameWork(r, [r EXCEPT !.goal = g])
  BY DEF Robots, SameVisit, SameWork
<1>4. SameWork(r, [r EXCEPT !.lifecycle = l, !.finite = b, !.goal = g])
  BY DEF Robots, SameVisit, SameWork
<1>5. QED BY <1>1, <1>2, <1>3, <1>4

LEMMA ReadingsKeep ==
    ASSUME NEW r \in Robots, NEW q \in Readings(r)
    PROVE  SameWork(r, q)
  BY Reported, Zenon DEF Readings, Goals

LEMMA HoldsKeep ==
    ASSUME NEW r \in Robots, NEW q \in Holds(r)
    PROVE  /\ SameWork(r, q)
           /\ Enabled(q) /\ q.finite => q.goal \in {"hold", "part hold"}
<1>1. CASE ~(Enabled(r) /\ r.finite)
  BY <1>1 DEF Holds, SameVisit, SameWork
<1>2. CASE Enabled(r) /\ r.finite
  <2>1. PICK g \in {"hold", "part hold"} : q = [r EXCEPT !.goal = g]
    BY <1>2 DEF Holds
  <2>2. SameWork(r, q)
    BY <2>1, Reported DEF Goals
  <2>3. q.goal = g
    BY <2>1 DEF Robots
  <2>4. QED BY <2>2, <2>3
<1>3. QED BY <1>1, <1>2

LEMMA EnablesKeep ==
    ASSUME NEW r \in Robots, NEW a \in Enables(r)
    PROVE  a.how \in {"ok", "raise"} /\ SameWork(r, a.robot)
<1>1. CASE a = [how |-> "raise", robot |-> r]
  BY <1>1 DEF SameVisit, SameWork
<1>2. CASE a = [how |-> "ok", robot |-> [r EXCEPT !.lifecycle = "enabled", !.finite = TRUE,
                                                  !.goal = "hold"]]
  <2>1. SameWork(r, [r EXCEPT !.lifecycle = "enabled", !.finite = TRUE, !.goal = "hold"])
    BY Reported, Zenon DEF Goals
  <2>2. QED BY <1>2, <2>1
<1>3. QED BY <1>1, <1>2 DEF Enables

\* A controller's motion: one more move, and none of its own carried state goes stale.
\* A send makes one move at most.
SentBy(c, r, q) ==
    /\ q \in Robots
    /\ q.moves \in {r.moves, r.moves + 1}
    /\ c \notin r.stale => c \notin q.stale
    /\ q.servo = r.servo
    /\ q.seeded = r.seeded
    /\ q.follower = r.follower
    /\ q.baseline = r.baseline

LEMMA MovedBy ==
    ASSUME NEW r \in Robots, NEW c \in Controllers, NEW g \in Goals
    PROVE  SentBy(c, r, Moved(r, c, g))
<1>1. r.moves + 1 \in Nat
  <2>1. r.moves \in Nat
    BY DEF Robots
  <2>2. QED BY ONLY <2>1
<1>2. (r.stale \cup (Controllers \ {c})) \in SUBSET Controllers
  <2>1. r.stale \subseteq Controllers
    BY DEF Robots
  <2>2. QED BY ONLY <2>1
<1>3. Moved(r, c, g) \in Robots
  <2>1. ASSUME NEW n \in Nat, NEW t \in SUBSET Controllers
        PROVE  [r EXCEPT !.goal = g, !.moves = n, !.stale = t] \in Robots
    BY DEF Robots
  <2>2. QED BY <1>1, <1>2, <2>1 DEF Moved
<1>4. /\ Moved(r, c, g).moves = r.moves + 1
      /\ Moved(r, c, g).stale = r.stale \cup (Controllers \ {c})
      /\ Moved(r, c, g).servo = r.servo
      /\ Moved(r, c, g).seeded = r.seeded
      /\ Moved(r, c, g).follower = r.follower
      /\ Moved(r, c, g).baseline = r.baseline
  BY DEF Robots, Moved
<1>5. QED BY <1>3, <1>4 DEF SentBy

LEMMA SendsMove ==
    ASSUME NEW r \in Robots, NEW c \in Controllers, NEW x \in Sends(r, c)
    PROVE  SentBy(c, r, x.robot)
<1>1. CASE ~Enabled(r)
  <2>1. x = [ok |-> FALSE, robot |-> r]
    BY <1>1 DEF Sends
  <2>2. SentBy(c, r, r)
    BY DEF SentBy
  <2>3. QED BY <2>1, <2>2
<1>2. CASE Enabled(r)
  <2>1. \E g \in {"motion", "part motion"} : x.robot = Moved(r, c, g)
    <3>1. CASE x = [ok |-> TRUE, robot |-> Moved(r, c, "motion")]
      BY <3>1
    <3>2. CASE x = [ok |-> FALSE, robot |-> Moved(r, c, "part motion")]
      BY <3>2
    <3>3. QED BY <1>2, <3>1, <3>2, Zenon DEF Sends
  <2>2. PICK g \in {"motion", "part motion"} : x.robot = Moved(r, c, g)
    BY <2>1
  <2>3. SentBy(c, r, Moved(r, c, g))
    BY MovedBy DEF Goals
  <2>4. QED BY <2>2, <2>3
<1>3. QED BY <1>1, <1>2

-----------------------------------------------------------------------------
(* PolicySession. *)

LEMMA ResetKeeps ==
    ASSUME NEW r \in Robots, NEW s \in Learned
    PROVE  /\ SameVisit(r, Reset(s, r))
           /\ s \in Reset(s, r).seeded /\ s \notin Reset(s, r).stale
<1>1. r.seeded \cup {s} \in SUBSET Learned
  <2>1. r.seeded \subseteq Learned
    BY DEF Robots
  <2>2. QED BY ONLY <2>1, s \in Learned
<1>2. r.stale \ {s} \in SUBSET Controllers
  <2>1. r.stale \subseteq Controllers
    BY DEF Robots
  <2>2. QED BY ONLY <2>1
<1>3. Reset(s, r) \in Robots
  <2>1. ASSUME NEW d \in SUBSET Learned, NEW t \in SUBSET Controllers
        PROVE  [r EXCEPT !.seeded = d, !.stale = t] \in Robots
    BY DEF Robots
  <2>2. QED BY <1>1, <1>2, <2>1 DEF Reset
<1>4. /\ Reset(s, r).servo = r.servo
      /\ Reset(s, r).moves = r.moves
      /\ Reset(s, r).follower = r.follower
      /\ Reset(s, r).baseline = r.baseline
      /\ Reset(s, r).seeded = r.seeded \cup {s}
      /\ Reset(s, r).stale = r.stale \ {s}
  BY DEF Robots, Reset
<1>5. QED BY <1>3, <1>4 DEF SameVisit

LEMMA FinishedKeeps ==
    ASSUME NEW r \in Robots, NEW s \in Learned
    PROVE  SameVisit(r, Finished(r, s)) /\ Finished(r, s).stale = r.stale
<1>1. r.seeded \ {s} \in SUBSET Learned
  <2>1. r.seeded \subseteq Learned
    BY DEF Robots
  <2>2. QED BY ONLY <2>1
<1>2. Finished(r, s) \in Robots
  <2>1. ASSUME NEW d \in SUBSET Learned
        PROVE  [r EXCEPT !.seeded = d] \in Robots
    BY DEF Robots
  <2>2. QED BY <1>1, <2>1 DEF Finished
<1>3. /\ Finished(r, s).servo = r.servo
      /\ Finished(r, s).moves = r.moves
      /\ Finished(r, s).follower = r.follower
      /\ Finished(r, s).baseline = r.baseline
      /\ Finished(r, s).stale = r.stale
  BY DEF Robots, Finished
<1>4. QED BY <1>2, <1>3 DEF SameVisit

\* A seed that succeeds leaves its own session seeded and carrying nothing stale.
LEMMA SeedsSeed ==
    ASSUME NEW r \in Robots, NEW s \in Learned, NEW a \in Seeds(s, r)
    PROVE  /\ a.how \in {"ok", "raise"}
           /\ SameVisit(r, a.robot)
           /\ a.how = "ok" => s \in a.robot.seeded /\ s \notin a.robot.stale
<1>1. \/ a = [how |-> "raise", robot |-> r]
      \/ \E q \in Readings(r) :
            \/ a = [how |-> "raise", robot |-> q]
            \/ \E b \in Enables(q) \cup {[how |-> "ok", robot |-> q]} :
                  \/ b.how = "ok" /\ a \in {[how |-> "ok", robot |-> Reset(s, b.robot)],
                                            [how |-> "raise", robot |-> b.robot]}
                  \/ b.how # "ok" /\ a = b
  BY DEF Seeds
<1>2. CASE a = [how |-> "raise", robot |-> r]
  BY <1>2 DEF SameVisit
<1>3. ASSUME NEW q \in Readings(r), a = [how |-> "raise", robot |-> q]
      PROVE  a.how = "raise" /\ SameVisit(r, a.robot)
  BY <1>3, ReadingsKeep DEF SameWork
<1>4. ASSUME NEW q \in Readings(r),
             NEW b \in Enables(q) \cup {[how |-> "ok", robot |-> q]}
      PROVE  b.how \in {"ok", "raise"} /\ SameVisit(r, b.robot)
  <2>1. SameVisit(r, q)
    BY ReadingsKeep DEF SameWork
  <2>2. CASE b = [how |-> "ok", robot |-> q]
    BY <2>1, <2>2
  <2>3. CASE b \in Enables(q)
    <3>1. q \in Robots
      BY <2>1 DEF SameVisit
    <3>2. b.how \in {"ok", "raise"} /\ SameVisit(q, b.robot)
      BY <2>3, <3>1, EnablesKeep DEF SameWork
    <3>3. QED BY <2>1, <3>2 DEF SameVisit
  <2>4. QED BY <2>2, <2>3
<1>5. ASSUME NEW q \in Readings(r),
             NEW b \in Enables(q) \cup {[how |-> "ok", robot |-> q]},
             a = [how |-> "ok", robot |-> Reset(s, b.robot)]
      PROVE  /\ a.how = "ok" /\ SameVisit(r, a.robot)
             /\ s \in a.robot.seeded /\ s \notin a.robot.stale
  <2>1. b.robot \in Robots /\ SameVisit(r, b.robot)
    BY <1>4 DEF SameVisit
  <2>2. /\ SameVisit(b.robot, Reset(s, b.robot))
        /\ s \in Reset(s, b.robot).seeded /\ s \notin Reset(s, b.robot).stale
    BY <2>1, ResetKeeps
  <2>3. a.how = "ok" /\ a.robot = Reset(s, b.robot)
    BY <1>5
  <2>4. QED BY <2>1, <2>2, <2>3 DEF SameVisit
<1>6. ASSUME NEW q \in Readings(r),
             NEW b \in Enables(q) \cup {[how |-> "ok", robot |-> q]},
             a = [how |-> "raise", robot |-> b.robot] \/ (b.how # "ok" /\ a = b)
      PROVE  a.how = "raise" /\ SameVisit(r, a.robot)
  BY <1>4, <1>6
<1>7. QED BY <1>1, <1>2, <1>3, <1>5, <1>6, Zenon

\* A step of the session makes one move at most and leaves the follower and the baseline;
\* only a seeded session acts, and what it carries stays its own.
AdvancedBy(s, r, a) ==
    /\ a.how \in {"raise", "abort", "completed", "acted"}
    /\ a.robot \in Robots
    /\ a.robot.servo = r.servo
    /\ a.robot.moves \in {r.moves, r.moves + 1}
    /\ a.robot.follower = r.follower
    /\ a.robot.baseline = r.baseline
    /\ s \notin r.stale => s \notin a.robot.stale
    /\ a.how = "acted" => s \in a.robot.seeded

LEMMA AdvanceOutcome ==
    ASSUME NEW r \in Robots, NEW s \in Learned, NEW a \in Advance(s, r)
    PROVE  AdvancedBy(s, r, a)
<1>1. \/ a = [how |-> "raise", robot |-> r]
      \/ a = [how |-> "abort", robot |-> Finished(r, s)]
      \/ /\ s \in r.seeded
         /\ \E q \in Readings(r) :
               \/ a = [how |-> "raise", robot |-> q]
               \/ a = [how |-> "abort", robot |-> Finished(q, s)]
               \/ a = [how |-> "completed", robot |-> Finished(q, s)]
               \/ \E x \in Sends(q, s) :
                     \/ a = [how |-> "abort", robot |-> Finished(x.robot, s)]
                     \/ \E y \in Readings(x.robot) :
                           \/ a = [how |-> "abort", robot |-> Finished(y, s)]
                           \/ a = [how |-> "acted", robot |-> y]
  BY DEF Advance
<1>2. CASE a = [how |-> "raise", robot |-> r]
  BY <1>2 DEF AdvancedBy
<1>3. ASSUME NEW q \in Robots, SentBy(s, r, q)
      PROVE  /\ AdvancedBy(s, r, [how |-> "abort", robot |-> Finished(q, s)])
             /\ AdvancedBy(s, r, [how |-> "completed", robot |-> Finished(q, s)])
             /\ AdvancedBy(s, r, [how |-> "raise", robot |-> q])
             /\ s \in r.seeded => AdvancedBy(s, r, [how |-> "acted", robot |-> q])
  <2>1. SameVisit(q, Finished(q, s)) /\ Finished(q, s).stale = q.stale
    BY FinishedKeeps
  <2>2. QED BY <1>3, <2>1 DEF SameVisit, SentBy, AdvancedBy
<1>4. SentBy(s, r, r)
  BY DEF SentBy
<1>5. ASSUME NEW q \in Readings(r)
      PROVE  q \in Robots /\ SameWork(r, q) /\ SentBy(s, r, q)
  BY ReadingsKeep DEF SameWork, SameVisit, SentBy
<1>6. ASSUME NEW q \in Readings(r), NEW x \in Sends(q, s)
      PROVE  x.robot \in Robots /\ SentBy(s, r, x.robot)
  <2>1. SentBy(s, q, x.robot)
    BY <1>5, SendsMove DEF Controllers
  <2>2. QED BY <1>5, <2>1 DEF SameWork, SameVisit, SentBy
<1>7. ASSUME NEW q \in Readings(r), NEW x \in Sends(q, s), NEW y \in Readings(x.robot)
      PROVE  y \in Robots /\ SentBy(s, r, y)
  <2>1. x.robot \in Robots /\ SentBy(s, r, x.robot)
    BY <1>6
  <2>2. SameWork(x.robot, y)
    BY <2>1, ReadingsKeep
  <2>3. QED BY <2>1, <2>2 DEF SameWork, SameVisit, SentBy
<1>8. QED BY <1>1, <1>2, <1>3, <1>4, <1>5, <1>6, <1>7, Zenon

-----------------------------------------------------------------------------
(* The visual follower. *)

\* A follower is replaced without touching the rest of the robot.
Follows(r, q, f) ==
    /\ q \in Robots
    /\ q.servo = r.servo
    /\ q.moves = r.moves
    /\ q.seeded = r.seeded
    /\ q.stale = r.stale
    /\ q.baseline = r.baseline
    /\ q.follower = f

LEMMA FollowerSet ==
    ASSUME NEW r \in Robots, NEW f \in Followers
    PROVE  Follows(r, [r EXCEPT !.follower = f], f)
<1>1. [r EXCEPT !.follower = f] \in Robots
  BY DEF Robots
<1>2. QED BY <1>1 DEF Robots, Follows

LEMMA FollowerCounts ==
    ASSUME NEW r \in Robots
    PROVE  /\ r.follower \in Followers
           /\ r.follower.locked \in Nat /\ r.follower.settled \in Nat
           /\ r.follower.locked + 1 \in Nat /\ r.follower.settled + 1 \in Nat
<1>1. r.follower \in Followers
  BY DEF Robots
<1>2. r.follower.locked \in Nat
  BY <1>1 DEF Followers
<1>3. r.follower.settled \in Nat
  BY <1>1 DEF Followers
<1>4. r.follower.locked + 1 \in Nat
  BY ONLY <1>2
<1>5. r.follower.settled + 1 \in Nat
  BY ONLY <1>3
<1>6. QED BY <1>1, <1>2, <1>3, <1>4, <1>5

\* One more frame towards the lock.
Locking(q) == [q EXCEPT !.follower.locked = @ + 1]

LEMMA LockingCounts ==
    ASSUME NEW r \in Robots
    PROVE  \E f \in Followers :
              /\ f.on = r.follower.on /\ f.settled = r.follower.settled
              /\ f.locked = r.follower.locked + 1
              /\ Follows(r, Locking(r), f)
<1> DEFINE n == r.follower.locked + 1
           f == [r.follower EXCEPT !.locked = n]
<1>1. r.follower \in Followers /\ n \in Nat
  BY FollowerCounts
<1> HIDE DEF n
<1>2. f \in Followers /\ f.on = r.follower.on /\ f.settled = r.follower.settled /\ f.locked = n
  BY <1>1 DEF Followers
<1>3. Locking(r) = [r EXCEPT !.follower = f]
  BY DEF Robots, Locking, n
<1>4. Follows(r, Locking(r), f)
  BY <1>2, <1>3, FollowerSet
<1>5. QED BY <1>2, <1>4 DEF n

LEMMA UnlockedFollower ==
    ASSUME NEW f \in Followers
    PROVE  /\ Unlocked(f) \in Followers
           /\ Unlocked(f).on = f.on /\ Unlocked(f).settled = f.settled /\ Unlocked(f).locked = 0
           /\ [Unlocked(f) EXCEPT !.stopped = TRUE] \in Followers
           /\ [Unlocked(f) EXCEPT !.stopped = TRUE].on = f.on
           /\ [Unlocked(f) EXCEPT !.stopped = TRUE].settled = f.settled
           /\ [Unlocked(f) EXCEPT !.stopped = TRUE].locked = 0
<1>1. Unlocked(f) \in Followers
  BY DEF Unlocked, Followers
<1>2. Unlocked(f).on = f.on /\ Unlocked(f).settled = f.settled /\ Unlocked(f).locked = 0
  BY DEF Unlocked, Followers
<1>3. ASSUME NEW g \in Followers
      PROVE  /\ [g EXCEPT !.stopped = TRUE] \in Followers
             /\ [g EXCEPT !.stopped = TRUE].on = g.on
             /\ [g EXCEPT !.stopped = TRUE].settled = g.settled
             /\ [g EXCEPT !.stopped = TRUE].locked = g.locked
  BY DEF Followers
<1>4. QED BY <1>1, <1>2, <1>3

\* A tick makes one move at most, on a target that completes a lock; a frame without a
\* target loses the lock.
TickedBy(r, q, target) ==
    /\ q \in Robots
    /\ q.servo = r.servo
    /\ q.seeded = r.seeded
    /\ q.baseline = r.baseline
    /\ q.follower.on = r.follower.on
    /\ q.follower.settled = r.follower.settled
    /\ "SEARCH_CV" \notin r.stale => "SEARCH_CV" \notin q.stale
    /\ q.follower.locked <= IF target THEN r.follower.locked + 1 ELSE 0
    /\ \/ q.moves = r.moves
       \/ /\ q.moves = r.moves + 1
          /\ target /\ r.follower.locked + 1 >= LockFrames

\* The hold that ends a tick, with follower f.
HeldWith(q, f) == {[near |-> {FALSE}, robot |-> x] : x \in Holds([q EXCEPT !.follower = f])}

LEMMA HeldWithKeeps ==
    ASSUME NEW r \in Robots, NEW target \in BOOLEAN, NEW q, TickedBy(r, q, TRUE),
           target \/ q.moves = r.moves,
           NEW f \in {Unlocked(q.follower), [Unlocked(q.follower) EXCEPT !.stopped = TRUE]},
           NEW t \in HeldWith(q, f)
    PROVE  TickedBy(r, t.robot, target)
<1>1. PICK x \in Holds([q EXCEPT !.follower = f]) : t = [near |-> {FALSE}, robot |-> x]
  BY DEF HeldWith
<1>2. q \in Robots /\ q.follower \in Followers
  BY FollowerCounts DEF TickedBy
<1>3. f \in Followers /\ f.on = q.follower.on /\ f.settled = q.follower.settled /\ f.locked = 0
  BY <1>2, UnlockedFollower
<1>4. Follows(q, [q EXCEPT !.follower = f], f)
  BY <1>2, <1>3, FollowerSet
<1>5. SameWork([q EXCEPT !.follower = f], x)
  BY <1>1, <1>4, HoldsKeep DEF Follows
<1>6. t.robot = x
  BY <1>1
<1>7. r.follower.locked + 1 \in Nat /\ (0 <= IF target THEN r.follower.locked + 1 ELSE 0)
  BY FollowerCounts
<1>8. TickedBy(r, x, target)
  BY <1>3, <1>4, <1>5, <1>7 DEF TickedBy, Follows, SameWork, SameVisit
<1>9. QED BY <1>6, <1>8

LEMMA TicksOutcome ==
    ASSUME NEW r \in Robots, NEW target \in BOOLEAN, NEW t \in Ticks(r, target)
    PROVE  TickedBy(r, t.robot, target)
<1>1. PICK q \in Readings(r) :
         t \in (IF Faulted(q) \/ ~q.finite
                THEN HeldWith(q, [Unlocked(q.follower) EXCEPT !.stopped = TRUE])
                ELSE IF ~target THEN HeldWith(q, Unlocked(q.follower))
                ELSE IF Locking(q).follower.locked < LockFrames
                THEN {[near |-> BOOLEAN, robot |-> Locking(q)]}
                ELSE UNION {IF x.ok THEN {[near |-> BOOLEAN, robot |-> x.robot]}
                            ELSE HeldWith(x.robot,
                                     [Unlocked(x.robot.follower) EXCEPT !.stopped = TRUE]) :
                            x \in Sends(Locking(q), "SEARCH_CV")})
  BY DEF Ticks, HeldWith, Locking
<1>2. q \in Robots /\ SameWork(r, q)
  BY ReadingsKeep DEF SameWork, SameVisit
<1>3. TickedBy(r, q, TRUE) /\ q.moves = r.moves
  BY <1>2, FollowerCounts DEF SameWork, SameVisit, TickedBy
<1>4. CASE t \in HeldWith(q, [Unlocked(q.follower) EXCEPT !.stopped = TRUE])
  BY <1>3, <1>4, HeldWithKeeps
<1>5. CASE t \in HeldWith(q, Unlocked(q.follower))
  BY <1>3, <1>5, HeldWithKeeps
<1>6. PICK f \in Followers :
         /\ f.on = r.follower.on /\ f.settled = r.follower.settled
         /\ f.locked = r.follower.locked + 1
         /\ Follows(q, Locking(q), f)
  BY <1>2, LockingCounts DEF SameWork, SameVisit
<1>7. TickedBy(r, Locking(q), TRUE) /\ Locking(q).moves = r.moves
  BY <1>2, <1>6, FollowerCounts DEF SameWork, SameVisit, TickedBy, Follows
<1>8. CASE target /\ t = [near |-> BOOLEAN, robot |-> Locking(q)]
  BY <1>7, <1>8
<1>9. ASSUME target, ~(Locking(q).follower.locked < LockFrames),
             NEW x \in Sends(Locking(q), "SEARCH_CV")
      PROVE  TickedBy(r, x.robot, TRUE)
  <2>1. SentBy("SEARCH_CV", Locking(q), x.robot)
    BY <1>6, SendsMove DEF Follows, Controllers
  <2>2. r.follower.locked + 1 >= LockFrames
    BY <1>6, <1>9, FollowerCounts, FollowerAssumption DEF Follows
  <2>3. QED BY <1>7, <2>1, <2>2 DEF TickedBy, SentBy
<1>10. ASSUME target, ~(Locking(q).follower.locked < LockFrames),
              NEW x \in Sends(Locking(q), "SEARCH_CV"),
              \/ t = [near |-> BOOLEAN, robot |-> x.robot]
              \/ t \in HeldWith(x.robot,
                                [Unlocked(x.robot.follower) EXCEPT !.stopped = TRUE])
       PROVE  TickedBy(r, t.robot, target)
  <2>1. TickedBy(r, x.robot, TRUE) /\ target = TRUE
    BY <1>9, <1>10
  <2>2. CASE t = [near |-> BOOLEAN, robot |-> x.robot]
    BY <2>1, <2>2
  <2>3. CASE t \in HeldWith(x.robot, [Unlocked(x.robot.follower) EXCEPT !.stopped = TRUE])
    BY <2>1, <2>3, HeldWithKeeps
  <2>4. QED BY <1>10, <2>2, <2>3
<1>11. QED
  <2>1. CASE Faulted(q) \/ ~q.finite
    BY <1>1, <1>4, <2>1
  <2>2. CASE ~(Faulted(q) \/ ~q.finite) /\ ~target
    BY <1>1, <1>5, <2>2
  <2>3. CASE ~(Faulted(q) \/ ~q.finite) /\ target /\ Locking(q).follower.locked < LockFrames
    BY <1>1, <1>8, <2>3
  <2>4. CASE /\ ~(Faulted(q) \/ ~q.finite) /\ target
             /\ ~(Locking(q).follower.locked < LockFrames)
    <3>1. PICK x \in Sends(Locking(q), "SEARCH_CV") :
             \/ t = [near |-> BOOLEAN, robot |-> x.robot]
             \/ t \in HeldWith(x.robot,
                               [Unlocked(x.robot.follower) EXCEPT !.stopped = TRUE])
      BY <1>1, <2>4, Zenon
    <3>2. QED BY <1>10, <2>4, <3>1
  <2>5. QED BY <2>1, <2>2, <2>3, <2>4

\* What a look at the carabiner adds to the follower's counts.
LEMMA NotedCounts ==
    ASSUME NEW r \in Robots, NEW look, NEW near
    PROVE  \E f \in Followers :
              /\ f.on = r.follower.on /\ f.locked = r.follower.locked
              /\ f.settled = IF near THEN r.follower.settled + 1 ELSE 0
              /\ Follows(r, Noted(r, look, near), f)
<1> DEFINE m == IF look = "nothing" THEN r.follower.misses + 1 ELSE 0
           n == IF near THEN r.follower.settled + 1 ELSE 0
           f == [r.follower EXCEPT !.misses = m, !.settled = n]
<1>1. r.follower \in Followers /\ n \in Nat
  BY FollowerCounts
<1>2. m \in Nat
  <2>1. r.follower.misses \in Nat
    BY <1>1 DEF Followers
  <2>2. QED BY ONLY <2>1
<1>3. Noted(r, look, near) = [r EXCEPT !.follower = f]
  BY DEF Robots, Noted
<1> HIDE DEF m, n
<1>4. f \in Followers
  BY <1>1, <1>2 DEF Followers
<1>5. f.on = r.follower.on /\ f.locked = r.follower.locked /\ f.settled = n
  <2>1. f.on = r.follower.on
    BY <1>1, Zenon DEF Followers
  <2>2. f.locked = r.follower.locked
    BY <1>1 DEF Followers
  <2>3. f.settled = n
    BY <1>1 DEF Followers
  <2>4. QED BY <2>1, <2>2, <2>3, Zenon
<1>6. Follows(r, Noted(r, look, near), f)
  BY <1>3, <1>4, FollowerSet
<1>7. QED BY <1>4, <1>5, <1>6, Zenon DEF n

LEMMA NoFollowerType ==
    /\ NoFollower \in Followers /\ NoFollower.on = FALSE
    /\ FreshFollower \in Followers /\ FreshFollower.on = TRUE
    /\ FreshFollower.locked = 0 /\ FreshFollower.settled = 0
  BY DEF NoFollower, FreshFollower, Followers

LEMMA ReleaseKeeps ==
    ASSUME NEW r \in Robots, NEW q \in Release(r)
    PROVE  /\ q \in Robots /\ q.servo = r.servo /\ q.moves = r.moves
           /\ q.follower.on = FALSE
<1>1. CASE ~r.follower.on
  <2>1. r.follower.on \in BOOLEAN
    BY FollowerCounts DEF Followers
  <2>2. q = r
    BY <1>1 DEF Release
  <2>3. QED BY <1>1, <2>1, <2>2
<1>2. CASE r.follower.on
  <2>1. Follows(r, [r EXCEPT !.follower = NoFollower], NoFollower)
    BY NoFollowerType, FollowerSet
  <2>2. q \in Holds([r EXCEPT !.follower = NoFollower])
    BY <1>2 DEF Release
  <2>3. SameWork([r EXCEPT !.follower = NoFollower], q)
    BY <2>1, <2>2, HoldsKeep DEF Follows
  <2>4. QED BY <2>1, <2>3, NoFollowerType DEF Follows, SameWork, SameVisit
<1>3. QED BY <1>1, <1>2

\* start() leaves a fresh follower that carries nothing stale.
LEMMA StartsFresh ==
    ASSUME NEW r \in Robots, NEW a \in Starts(r)
    PROVE  /\ a.how \in {"ok", "raise"}
           /\ a.robot \in Robots
           /\ a.robot.servo = r.servo
           /\ a.robot.moves = r.moves
           /\ a.how = "ok" => /\ a.robot.follower = FreshFollower
                              /\ "SEARCH_CV" \notin a.robot.stale
<1> DEFINE Built(q) == [q EXCEPT !.follower = FreshFollower]
           Started(q) == [q EXCEPT !.stale = @ \ {"SEARCH_CV"}]
<1>1. \/ a = [how |-> "raise", robot |-> r]
      \/ \E q \in Readings(r) :
            \/ a = [how |-> "raise", robot |-> Built(q)]
            \/ a = [how |-> "ok", robot |-> Started(Built(q))]
            \/ \E b \in Enables(q) :
                  a = [how |-> b.how, robot |-> IF b.how = "ok" THEN Started(Built(b.robot))
                                                ELSE Built(b.robot)]
  BY DEF Starts
<1>2. ASSUME NEW q \in Robots
      PROVE  /\ Follows(q, Built(q), FreshFollower)
             /\ Started(Built(q)) \in Robots
             /\ Started(Built(q)).servo = q.servo
             /\ Started(Built(q)).moves = q.moves
             /\ Started(Built(q)).follower = FreshFollower
             /\ "SEARCH_CV" \notin Started(Built(q)).stale
  <2>1. Follows(q, Built(q), FreshFollower)
    BY NoFollowerType, FollowerSet
  <2>2. ASSUME NEW p \in Robots
        PROVE  /\ Started(p) \in Robots
               /\ Started(p).servo = p.servo
               /\ Started(p).moves = p.moves
               /\ Started(p).follower = p.follower
               /\ Started(p).stale = p.stale \ {"SEARCH_CV"}
    <3>1. p.stale \ {"SEARCH_CV"} \in SUBSET Controllers
      <4>1. p.stale \subseteq Controllers
        BY DEF Robots
      <4>2. QED BY ONLY <4>1
    <3>2. \A t \in SUBSET Controllers : [p EXCEPT !.stale = t] \in Robots
      BY DEF Robots
    <3>3. Started(p) \in Robots
      BY <3>1, <3>2
    <3>4. QED BY <3>3 DEF Robots
  <2> HIDE DEF Built, Started
  <2>3. QED BY <2>1, <2>2 DEF Follows
<1> HIDE DEF Built, Started
<1>3. ASSUME NEW q \in Readings(r)
      PROVE  q \in Robots /\ q.servo = r.servo /\ q.moves = r.moves
  BY ReadingsKeep DEF SameWork, SameVisit
<1>4. ASSUME NEW q \in Readings(r), NEW b \in Enables(q)
      PROVE  /\ b.how \in {"ok", "raise"}
             /\ b.robot \in Robots /\ b.robot.servo = r.servo /\ b.robot.moves = r.moves
  BY <1>3, EnablesKeep DEF SameWork, SameVisit
<1>5. CASE a = [how |-> "raise", robot |-> r]
  BY <1>5
<1>6. ASSUME NEW q \in Robots, q.servo = r.servo, q.moves = r.moves,
             \/ a = [how |-> "raise", robot |-> Built(q)]
             \/ a = [how |-> "ok", robot |-> Started(Built(q))]
      PROVE  /\ a.how \in {"ok", "raise"}
             /\ a.robot \in Robots
             /\ a.robot.servo = r.servo
             /\ a.robot.moves = r.moves
             /\ a.how = "ok" => /\ a.robot.follower = FreshFollower
                                /\ "SEARCH_CV" \notin a.robot.stale
  BY <1>2, <1>6 DEF Follows
<1>7. QED BY <1>1, <1>3, <1>4, <1>5, <1>6, Zenon

-----------------------------------------------------------------------------
(* The handlers. *)

\* What entering a state promises when it succeeds: the controller the state runs is fresh,
\* and no other state has a follower.
EnteredBy(dest, r, e) ==
    /\ e.how \in {"ok", "raise"}
    /\ e.robot \in Robots
    /\ e.robot.servo = r.servo
    /\ e.robot.moves = r.moves
    /\ e.how = "ok" =>
          /\ dest \in Learned => dest \in e.robot.seeded /\ dest \notin e.robot.stale
          /\ dest = "CLIP_RL" => e.robot.baseline = FALSE
          /\ IF dest = "SEARCH_CV"
             THEN ~r.follower.on =>
                     IF r.servo = "none" THEN e.robot = r
                     ELSE /\ e.robot.follower = FreshFollower
                          /\ "SEARCH_CV" \notin e.robot.stale
             ELSE e.robot.follower.on = FALSE

LEMMA DropBaselineKeeps ==
    ASSUME NEW r \in Robots, NEW dest
    PROVE  /\ DropBaseline(dest, r) \in Robots
           /\ DropBaseline(dest, r).servo = r.servo
           /\ DropBaseline(dest, r).moves = r.moves
           /\ DropBaseline(dest, r).follower = r.follower
           /\ dest = "CLIP_RL" => DropBaseline(dest, r).baseline = FALSE
<1>1. ASSUME NEW b \in BOOLEAN
      PROVE  /\ [r EXCEPT !.baseline = b] \in Robots
             /\ [r EXCEPT !.baseline = b].servo = r.servo
             /\ [r EXCEPT !.baseline = b].moves = r.moves
             /\ [r EXCEPT !.baseline = b].follower = r.follower
  BY DEF Robots
<1>2. [r EXCEPT !.baseline = FALSE].baseline = FALSE
  BY DEF Robots
<1>3. QED BY <1>1, <1>2 DEF DropBaseline

LEMMA EnterStateOutcome ==
    ASSUME NEW r \in Robots, NEW dest \in ActiveStates, NEW e \in EnterState(dest, r)
    PROVE  EnteredBy(dest, r, e)
<1>1. CASE dest = "SEARCH_CV"
  <2>1. CASE r.follower.on \/ r.servo = "none"
    <3>1. e = [how |-> "ok", robot |-> r]
      BY <1>1, <2>1 DEF EnterState, Learned
    <3>2. e.how = "ok" /\ e.robot = r
      BY <3>1
    <3>3. QED BY <1>1, <2>1, <3>2 DEF EnteredBy, Learned
  <2>2. CASE ~(r.follower.on \/ r.servo = "none")
    <3>1. e \in Starts(r)
      BY <1>1, <2>2 DEF EnterState, Learned
    <3>2. QED BY <1>1, <2>2, <3>1, StartsFresh DEF EnteredBy, Learned
  <2>3. QED BY <2>1, <2>2
<1>2. CASE dest \in Learned
  <2>1. PICK q \in Release(r) : e \in Seeds(dest, DropBaseline(dest, q))
    BY <1>2 DEF EnterState, Learned
  <2>2. q \in Robots /\ q.servo = r.servo /\ q.moves = r.moves /\ q.follower.on = FALSE
    BY ReleaseKeeps
  <2>3. /\ DropBaseline(dest, q) \in Robots
        /\ DropBaseline(dest, q).servo = q.servo
        /\ DropBaseline(dest, q).moves = q.moves
        /\ DropBaseline(dest, q).follower = q.follower
        /\ dest = "CLIP_RL" => DropBaseline(dest, q).baseline = FALSE
    BY <2>2, DropBaselineKeeps
  <2>4. /\ e.how \in {"ok", "raise"}
        /\ SameVisit(DropBaseline(dest, q), e.robot)
        /\ e.how = "ok" => dest \in e.robot.seeded /\ dest \notin e.robot.stale
    BY <1>2, <2>1, <2>3, SeedsSeed
  <2>5. dest # "SEARCH_CV"
    BY <1>2 DEF Learned
  <2>6. QED BY <2>2, <2>3, <2>4, <2>5 DEF SameVisit, EnteredBy
<1>3. CASE dest = "INITIAL"
  <2>1. PICK q \in Release(r) : e = [how |-> "ok", robot |-> q]
    BY <1>3 DEF EnterState, Learned
  <2>2. e.how = "ok" /\ e.robot = q
    BY <2>1
  <2>3. QED BY <1>3, <2>2, ReleaseKeeps DEF EnteredBy, Learned
<1>4. QED BY <1>1, <1>2, <1>3 DEF Learned, ActiveStates, ActionStates

\* Looking never moves the arm.
LEMMA InitialOutcome ==
    ASSUME NEW r \in Robots, NEW o \in InitialOutcomes(r)
    PROVE  /\ o.how \in {"result", "abort", "raise"}
           /\ o.result \in InitialObservation
           /\ SameWork(r, o.robot)
<1>1. PICK q \in ReadinessReports(r) :
         \/ o \in InitialLooks(q)
         \/ \E none \in InitialObservation : o = [how |-> "abort", result |-> none, robot |-> q]
  BY DEF InitialOutcomes, InitialObservation
<1>2. SameWork(r, q)
  <2>1. PICK p \in Readings(r), b \in SUBSET {"lifecycle", "evidence"} :
           q = [p EXCEPT !.problems = b]
    BY DEF ReadinessReports
  <2>2. p \in Robots /\ SameWork(r, p)
    BY ReadingsKeep DEF SameWork, SameVisit
  <2>3. SameWork(p, q)
    BY <2>1, <2>2 DEF Robots, SameVisit, SameWork
  <2>4. QED BY <2>2, <2>3 DEF SameWork, SameVisit
<1>3. CASE o \in InitialLooks(q)
  <2>1. \/ \E none \in InitialObservation : o = [how |-> "raise", result |-> none, robot |-> q]
        \/ o \in [how: {"result"}, robot: {q}, result: InitialObservation]
    BY <1>3 DEF InitialLooks, InitialObservation
  <2>2. QED BY <1>2, <2>1
<1>4. QED BY <1>1, <1>2, <1>3

\* One clip or search action: what the policy step did, and no more motion after it.
LEMMA SearchRLOutcome ==
    ASSUME NEW r \in Robots, NEW o \in SearchRLOutcomes(r)
    PROVE  /\ o.how \in {"result", "abort", "raise"}
           /\ o.result \in SearchRLResult
           /\ \E a \in Advance("SEARCH_RL", r) :
                 /\ o.robot = a.robot
                 /\ o.how = "result" => o.result.carabiner_detected \/ a.how = "acted"
<1>1. PICK a \in Advance("SEARCH_RL", r) :
         IF a.how \in {"acted", "completed"}
         THEN \/ o = [how |-> "raise", result |-> [carabiner_detected |-> FALSE],
                      robot |-> a.robot]
              \/ o = [how |-> "result", result |-> [carabiner_detected |-> TRUE],
                      robot |-> a.robot]
              \/ o = [how |-> IF a.how = "completed" THEN "abort" ELSE "result",
                      result |-> [carabiner_detected |-> FALSE], robot |-> a.robot]
         ELSE o = [how |-> a.how, result |-> [carabiner_detected |-> FALSE],
                   robot |-> a.robot]
  BY DEF SearchRLOutcomes
<1>2. a.how \in {"raise", "abort", "completed", "acted"}
  BY AdvanceOutcome DEF AdvancedBy, Learned
<1>3. [carabiner_detected |-> FALSE] \in SearchRLResult
      /\ [carabiner_detected |-> TRUE] \in SearchRLResult
  BY DEF SearchRLResult
<1>4. CASE o = [how |-> "result", result |-> [carabiner_detected |-> TRUE], robot |-> a.robot]
  <2>1. o.how = "result" /\ o.robot = a.robot /\ o.result = [carabiner_detected |-> TRUE]
    BY <1>4
  <2>2. o.result.carabiner_detected
    BY <2>1
  <2>3. QED BY <1>3, <2>1, <2>2
<1>5. CASE \E h \in {"result", "abort", "raise"} :
              /\ h = "result" => a.how = "acted"
              /\ o = [how |-> h, result |-> [carabiner_detected |-> FALSE],
                      robot |-> a.robot]
  BY <1>3, <1>5
<1>6. QED BY <1>1, <1>2, <1>4, <1>5

LEMMA ClipObservationsOutcome ==
    ASSUME NEW r \in Robots, NEW o \in ClipObservations(r)
    PROVE  /\ o.how \in {"result", "abort", "raise"}
           /\ o.result \in ClipRLResult
           /\ o.robot \in Robots
           /\ o.robot.servo = r.servo
           /\ o.robot.moves = r.moves
           /\ o.robot.follower = r.follower
           /\ o.robot.seeded = r.seeded
           /\ o.robot.stale = r.stale
           /\ o.result.alignment_degraded => r.baseline
<1>1. NoGates \in ClipRLResult /\ NoGates.alignment_degraded = FALSE
  BY DEF NoGates, ClipRLResult
<1>2. CASE o = [how |-> "raise", result |-> NoGates, robot |-> r]
  BY <1>1, <1>2
<1>3. ASSUME NEW q \in Readings(r), NEW g \in ClipRLResult,
             g.alignment_degraded => g.carabiner_visible /\ r.baseline,
             o = [how |-> "result", result |-> g,
                  robot |-> [q EXCEPT !.baseline = @ \/ g.carabiner_visible]]
      PROVE  /\ o.how = "result" /\ o.result = g
             /\ o.robot \in Robots
             /\ o.robot.servo = r.servo
             /\ o.robot.moves = r.moves
             /\ o.robot.follower = r.follower
             /\ o.robot.seeded = r.seeded
             /\ o.robot.stale = r.stale
  <2>1. SameWork(r, q)
    BY ReadingsKeep
  <2>2. ASSUME NEW b \in BOOLEAN
        PROVE  /\ [q EXCEPT !.baseline = b] \in Robots
               /\ [q EXCEPT !.baseline = b].servo = q.servo
               /\ [q EXCEPT !.baseline = b].moves = q.moves
               /\ [q EXCEPT !.baseline = b].follower = q.follower
               /\ [q EXCEPT !.baseline = b].seeded = q.seeded
               /\ [q EXCEPT !.baseline = b].stale = q.stale
    BY <2>1 DEF Robots, SameWork, SameVisit
  <2>3. (q.baseline \/ g.carabiner_visible) \in BOOLEAN
    OBVIOUS
  <2>4. o.how = "result" /\ o.result = g
    BY <1>3
  <2>5. o.robot = [q EXCEPT !.baseline = q.baseline \/ g.carabiner_visible]
    BY <1>3
  <2>6. QED BY <2>1, <2>2, <2>3, <2>4, <2>5, Zenon DEF SameWork, SameVisit
<1>4. \/ o = [how |-> "raise", result |-> NoGates, robot |-> r]
      \/ \E q \in Readings(r), g \in ClipRLResult :
            /\ g.alignment_degraded => g.carabiner_visible /\ r.baseline
            /\ o = [how |-> "result", result |-> g,
                    robot |-> [q EXCEPT !.baseline = @ \/ g.carabiner_visible]]
  <2>1. ASSUME NEW q \in Readings(r)
        PROVE  [carabiner_visible: BOOLEAN, alignment_degraded: BOOLEAN,
                carabiner_grasped: Grasps(q), attachment_verified: BOOLEAN,
                returned_to_neutral: {FALSE}] \subseteq ClipRLResult
    BY DEF Grasps, ClipRLResult
  <2> DEFINE Gates(q) ==
                 {g \in [carabiner_visible: BOOLEAN, alignment_degraded: BOOLEAN,
                         carabiner_grasped: Grasps(q), attachment_verified: BOOLEAN,
                         returned_to_neutral: {FALSE}] :
                    g.alignment_degraded => g.carabiner_visible /\ r.baseline}
             Looked(q, g) == [q EXCEPT !.baseline = @ \/ g.carabiner_visible]
  <2>2. o \in {[how |-> "raise", result |-> NoGates, robot |-> r]} \cup
              UNION {{[how |-> "result", result |-> g, robot |-> Looked(q, g)] :
                      g \in Gates(q)} : q \in Readings(r)}
    BY Zenon DEF ClipObservations
  <2>3. \A q \in Readings(r) : \A g \in Gates(q) :
           g \in ClipRLResult /\ (g.alignment_degraded => g.carabiner_visible /\ r.baseline)
    BY <2>1
  <2> HIDE DEF Gates, Looked
  <2>4. \/ o = [how |-> "raise", result |-> NoGates, robot |-> r]
        \/ \E q \in Readings(r) : \E g \in Gates(q) :
              o = [how |-> "result", result |-> g, robot |-> Looked(q, g)]
    BY <2>2
  <2>5. QED BY <2>3, <2>4, Zenon DEF Looked
<1>5. QED BY <1>1, <1>2, <1>3, <1>4

LEMMA MeasuredNeutralOutcome ==
    ASSUME NEW r \in Robots, NEW o \in MeasuredNeutral(r)
    PROVE  /\ o.how \in {"result", "abort"}
           /\ o.result \in ClipRLResult /\ ~o.result.alignment_degraded
           /\ o.how = "result" => o.result.returned_to_neutral
           /\ SameWork(r, o.robot)
<1> DEFINE Back == [NoGates EXCEPT !.returned_to_neutral = TRUE]
<1>1. /\ NoGates \in ClipRLResult /\ NoGates.alignment_degraded = FALSE
      /\ Back \in ClipRLResult /\ Back.alignment_degraded = FALSE
      /\ Back.returned_to_neutral = TRUE
  BY DEF NoGates, ClipRLResult
<1> HIDE DEF Back
<1>2. PICK q \in Readings(r) : \/ o = [how |-> "abort", result |-> NoGates, robot |-> q]
                               \/ o = [how |-> "result", result |-> Back, robot |-> q]
  BY DEF MeasuredNeutral, Back
<1>3. SameWork(r, q)
  BY ReadingsKeep
<1>4. CASE o = [how |-> "abort", result |-> NoGates, robot |-> q]
  BY <1>1, <1>3, <1>4
<1>5. CASE o = [how |-> "result", result |-> Back, robot |-> q]
  BY <1>1, <1>3, <1>5
<1>6. QED BY <1>2, <1>4, <1>5

LEMMA ClipRLOutcome ==
    ASSUME NEW r \in Robots, NEW o \in ClipRLOutcomes(r)
    PROVE  /\ o.how \in {"result", "abort", "raise"}
           /\ o.result \in ClipRLResult
           /\ o.result.alignment_degraded => r.baseline
           /\ \E a \in Advance("CLIP_RL", r) :
                 /\ o.robot \in Robots
                 /\ o.robot.servo = a.robot.servo
                 /\ o.robot.moves = a.robot.moves
                 /\ o.robot.follower = a.robot.follower
                 /\ o.robot.stale = a.robot.stale
                 /\ o.how = "result" => \/ o.result.returned_to_neutral
                                        \/ a.how = "acted" /\ o.robot.seeded = a.robot.seeded
<1>1. PICK a \in Advance("CLIP_RL", r) :
         o \in CASE a.how = "completed" -> MeasuredNeutral(a.robot)
                 [] a.how = "acted" -> ClipObservations(a.robot)
                 [] OTHER -> {[how |-> a.how, result |-> NoGates, robot |-> a.robot]}
  BY Zenon DEF ClipRLOutcomes
<1>2. AdvancedBy("CLIP_RL", r, a)
  BY AdvanceOutcome DEF Learned
<1>3. a.robot \in Robots /\ a.robot.baseline = r.baseline
      /\ a.how \in {"raise", "abort", "completed", "acted"}
  BY <1>2 DEF AdvancedBy
<1>4. CASE a.how = "completed"
  <2>1. o \in MeasuredNeutral(a.robot)
    BY <1>1, <1>4
  <2>2. QED BY <1>3, <2>1, MeasuredNeutralOutcome DEF SameWork, SameVisit
<1>5. CASE a.how = "acted"
  <2>1. o \in ClipObservations(a.robot)
    BY <1>1, <1>5
  <2>2. QED BY <1>3, <1>5, <2>1, ClipObservationsOutcome
<1>6. CASE a.how \in {"raise", "abort"}
  <2>1. o = [how |-> a.how, result |-> NoGates, robot |-> a.robot]
    BY <1>1, <1>6
  <2>2. NoGates \in ClipRLResult /\ NoGates.alignment_degraded = FALSE
    BY DEF NoGates, ClipRLResult
  <2>3. o.how = a.how /\ o.result = NoGates /\ o.robot = a.robot
    BY <2>1
  <2>4. QED BY <1>3, <1>6, <2>2, <2>3
<1>7. QED BY <1>3, <1>4, <1>5, <1>6

\* What search_cv_step() answers follows from the counts it leaves in the follower.
LookedBy(r, o) ==
    /\ o.how \in {"result", "abort", "raise"}
    /\ o.result \in SearchCVResult
    /\ o.robot \in Robots
    /\ o.robot.servo = r.servo
    /\ o.robot.moves \in {r.moves, r.moves + 1}
    /\ o.robot.moves # r.moves =>
          /\ o.how = "result" /\ o.look = "target"
          /\ r.follower.locked + 1 >= LockFrames
    /\ o.how = "result" =>
          /\ o.robot.follower.on = r.follower.on /\ r.follower.on
          /\ "SEARCH_CV" \notin r.stale => "SEARCH_CV" \notin o.robot.stale
          /\ o.robot.follower.locked <= IF o.look = "target" THEN r.follower.locked + 1 ELSE 0
          /\ o.robot.follower.settled = IF o.near THEN r.follower.settled + 1 ELSE 0
          /\ o.result.followed => o.robot.follower.settled >= SettleTicks

LEMMA SearchCVOutcome ==
    ASSUME NEW r \in Robots, NEW o \in SearchCVOutcomes(r)
    PROVE  LookedBy(r, o)
<1> DEFINE None == [target_visible |-> FALSE, followed |-> FALSE]
           Answer(f) == [target_visible |-> f.misses < LostAfter,
                         followed |-> f.settled >= SettleTicks]
<1>1. \/ o = [how |-> "raise", result |-> None, look |-> "nothing", near |-> FALSE,
              robot |-> r]
      \/ \E q \in {r} \cup Readings(r) :
            o = [how |-> "abort", result |-> None, look |-> "nothing", near |-> FALSE,
                 robot |-> q]
      \/ /\ r.follower.on
         /\ \E look \in Looks(r.servo) :
               \E tick \in Ticks(r, look = "target") :
                  \E near \in Nears(r.servo, look, tick) :
                     o = [how |-> "result",
                          result |-> Answer(Noted(tick.robot, look, near).follower),
                          look |-> look, near |-> near,
                          robot |-> Noted(tick.robot, look, near)]
  BY DEF SearchCVOutcomes
<1>2. None \in SearchCVResult /\ \A f : Answer(f) \in SearchCVResult
  BY DEF SearchCVResult
<1>3. \A f : Answer(f).followed => f.settled >= SettleTicks
  OBVIOUS
<1> HIDE DEF None, Answer
<1>4. CASE o = [how |-> "raise", result |-> None, look |-> "nothing", near |-> FALSE,
                robot |-> r]
  <2>1. o.how = "raise" /\ o.result = None /\ o.robot = r
    BY <1>4
  <2>2. QED BY <1>2, <2>1 DEF LookedBy
<1>5. ASSUME NEW q \in {r} \cup Readings(r),
             o = [how |-> "abort", result |-> None, look |-> "nothing", near |-> FALSE,
                  robot |-> q]
      PROVE  LookedBy(r, o)
  <2>1. o.how = "abort" /\ o.result = None /\ o.robot = q
    BY <1>5
  <2>2. SameWork(r, q)
    BY ReadingsKeep DEF SameWork, SameVisit
  <2>3. QED BY <1>2, <2>1, <2>2 DEF LookedBy, SameWork, SameVisit
<1>6. ASSUME r.follower.on, NEW look \in Looks(r.servo),
             NEW tick \in Ticks(r, look = "target"), NEW near,
             o = [how |-> "result",
                  result |-> Answer(Noted(tick.robot, look, near).follower),
                  look |-> look, near |-> near, robot |-> Noted(tick.robot, look, near)]
      PROVE  LookedBy(r, o)
  <2>1. TickedBy(r, tick.robot, look = "target")
    BY TicksOutcome
  <2>2. tick.robot \in Robots
    BY <2>1 DEF TickedBy
  <2>3. PICK f \in Followers :
           /\ f.on = tick.robot.follower.on /\ f.locked = tick.robot.follower.locked
           /\ f.settled = IF near THEN tick.robot.follower.settled + 1 ELSE 0
           /\ Follows(tick.robot, Noted(tick.robot, look, near), f)
    BY <2>2, NotedCounts
  <2>4. /\ o.how = "result" /\ o.look = look /\ o.near = near
        /\ o.robot = Noted(tick.robot, look, near)
        /\ o.result = Answer(o.robot.follower)
    BY <1>6
  <2>5. o.result \in SearchCVResult
        /\ (o.result.followed => o.robot.follower.settled >= SettleTicks)
    BY <1>2, <1>3, <2>4
  <2>6. /\ o.robot \in Robots
        /\ o.robot.servo = r.servo
        /\ o.robot.moves = tick.robot.moves
        /\ o.robot.stale = tick.robot.stale
        /\ o.robot.follower = f
    BY <2>1, <2>3, <2>4 DEF Follows, TickedBy
  <2>7. /\ o.robot.moves \in {r.moves, r.moves + 1}
        /\ o.robot.moves # r.moves => look = "target" /\ r.follower.locked + 1 >= LockFrames
        /\ "SEARCH_CV" \notin r.stale => "SEARCH_CV" \notin o.robot.stale
    BY <2>1, <2>6 DEF TickedBy
  <2>8. /\ f.on = r.follower.on
        /\ f.locked <= IF look = "target" THEN r.follower.locked + 1 ELSE 0
        /\ f.settled = IF near THEN r.follower.settled + 1 ELSE 0
    BY <2>1, <2>3 DEF TickedBy
  <2>9. QED BY <1>6, <2>4, <2>5, <2>6, <2>7, <2>8 DEF LookedBy
<1>7. QED BY <1>1, <1>4, <1>5, <1>6

-----------------------------------------------------------------------------
(* The invariant. *)

\* What the follower has counted, and the baseline, were seen in this visit.
SeenThisVisit ==
    run = "looping" =>
        /\ state = "SEARCH_CV" /\ robot.follower.on =>
              /\ robot.follower.settled <= visit.near
              /\ robot.follower.locked <= visit.targets
        /\ state = "CLIP_RL" /\ robot.baseline => visit.steps >= 1

\* Every motion target that reached the motors is paid for with an action, but for that of
\* the step the attempt ended in.
MovesArePaid ==
    /\ robot.moves <= MaxTotalActions
    /\ ~Over => robot.moves <= actions

RInv ==
    /\ IInv
    /\ robot \in Robots
    /\ visit \in Visits
    /\ stopped \in BOOLEAN
    /\ LiveController
    /\ EndedArmIsHeld
    /\ SeenThisVisit
    /\ MovesArePaid

\* The arm an ended attempt leaves is held; one that goes on is as its handler left it.
LEMMA HandOverOutcome ==
    ASSUME IInv, IInv', ~Over, NEW r \in Robots, HandOver(r)
    PROVE  /\ SameWork(r, robot')
           /\ ~Over' => robot' = r
           /\ EndedArmIsHeld'
<1>1. held = FALSE /\ (~Over' => held' = FALSE) /\ (Over' /\ state' # "SUCCESS" => held' = TRUE)
  BY DEF IInv, Control, TypeOK, Over
<1>2. CASE held' = FALSE
  <2>1. robot' = r
    BY <1>1, <1>2 DEF HandOver
  <2>2. QED BY <1>1, <1>2, <2>1 DEF EndedArmIsHeld, SameWork, SameVisit
<1>3. CASE held' = TRUE
  <2>1. robot' \in Holds(r)
    BY <1>1, <1>3 DEF HandOver
  <2>2. /\ SameWork(r, robot')
        /\ Enabled(robot') /\ robot'.finite => robot'.goal \in {"hold", "part hold"}
    BY <2>1, HoldsKeep
  <2>3. EndedArmIsHeld'
    BY <2>2 DEF EndedArmIsHeld, Enabled
  <2>4. QED BY <1>1, <1>3, <2>2, <2>3
<1>4. held' \in BOOLEAN
  BY DEF IInv, TypeOK
<1>5. QED BY <1>2, <1>3, <1>4

\* A transition that leaves the loop running has entered its destination.
LEMMA LoopGoesOn ==
    ASSUME NEW s, NEW dest, NEW entry,
           run = "looping" /\ (Stepped(s, dest, entry) \/ GoTo(dest, entry)),
           run' = "looping"
    PROVE  entry = "ok" /\ state' = dest
  BY DEF Stepped, GoTo, Abort, Raise

\* A step out of s that ends in another active state has entered it.
LEMMA LoopMovesOn ==
    ASSUME NEW s, NEW dest, NEW entry, Stepped(s, dest, entry),
           state' # s, state' # "ABORTED"
    PROVE  state' = dest
  BY DEF Stepped, GoTo, Abort, Raise

LEMMA EntriesOutcome ==
    ASSUME NEW r \in Robots, NEW dest \in ActiveStates \cup {"SUCCESS"},
           NEW e \in Entries(dest, r)
    PROVE  /\ e.how \in {"ok", "raise"}
           /\ e.robot \in Robots
           /\ e.robot.moves = r.moves
           /\ dest = state => e.how = "ok" /\ e.robot = r
           /\ dest # state /\ dest # "SUCCESS" => EnteredBy(dest, r, e)
<1>1. CASE dest = state \/ dest = "SUCCESS"
  <2>1. e = [how |-> "ok", robot |-> r]
    BY <1>1 DEF Entries
  <2>2. e.how = "ok" /\ e.robot = r
    BY <2>1
  <2>3. QED BY <1>1, <2>2
<1>2. CASE dest # state /\ dest # "SUCCESS"
  <2>1. e \in EnterState(dest, r) /\ dest \in ActiveStates
    BY <1>2 DEF Entries
  <2>2. EnteredBy(dest, r, e)
    BY <2>1, EnterStateOutcome
  <2>3. QED BY <1>2, <2>2 DEF EnteredBy
<1>3. QED BY <1>1, <1>2

\* A visit to a state begins with that state's controller, fresh.
LEMMA Arrival ==
    ASSUME NEW r \in Robots, NEW dest \in ActiveStates, NEW e, EnteredBy(dest, r, e),
           dest = "SEARCH_CV" => ~r.follower.on,
           run' = "looping" =>
              e.how = "ok" /\ state' = dest /\ robot' = e.robot /\ visit' = NewVisit
    PROVE  LiveController' /\ SeenThisVisit'
<1> SUFFICES ASSUME run' = "looping"
             PROVE  LiveController' /\ SeenThisVisit'
  BY DEF LiveController, SeenThisVisit
<1>1. e.how = "ok" /\ state' = dest /\ robot' = e.robot /\ visit' = NewVisit
  OBVIOUS
<1>2. visit'.near = 0 /\ visit'.targets = 0
  BY <1>1 DEF NewVisit
<1>3. CASE dest = "SEARCH_CV"
  <2>1. CASE r.servo = "none"
    <3>1. robot' = r /\ r.follower.on = FALSE
      BY <1>1, <1>3, <2>1, FollowerCounts DEF EnteredBy, Followers
    <3>2. QED BY <1>1, <1>3, <2>1, <3>1 DEF LiveController, SeenThisVisit, Learned
  <2>2. CASE r.servo # "none"
    <3>1. robot'.follower = FreshFollower /\ "SEARCH_CV" \notin robot'.stale
          /\ robot'.servo # "none"
      BY <1>1, <1>3, <2>2 DEF EnteredBy
    <3>2. robot'.follower.on = TRUE /\ robot'.follower.settled = 0 /\ robot'.follower.locked = 0
      BY <3>1, NoFollowerType
    <3>3. QED BY <1>1, <1>2, <1>3, <3>1, <3>2 DEF LiveController, SeenThisVisit, Learned
  <2>3. QED BY <2>1, <2>2
<1>4. CASE dest # "SEARCH_CV"
  <2>1. /\ robot'.follower.on = FALSE
        /\ dest \in Learned => dest \in robot'.seeded /\ dest \notin robot'.stale
        /\ dest = "CLIP_RL" => robot'.baseline = FALSE
    BY <1>1, <1>4 DEF EnteredBy
  <2>2. QED BY <1>1, <1>4, <2>1 DEF LiveController, SeenThisVisit
<1>5. QED BY <1>3, <1>4

LEMMA RInitInv == RInit => RInv
<1> SUFFICES ASSUME RInit
             PROVE  RInv
  OBVIOUS
<1>1. IInv
  BY InitInv DEF RInit
<1>2. PICK servo \in Servos : robot = ConnectedRobot(servo)
  BY DEF RInit
<1>3. robot \in Robots
  BY <1>2, NoFollowerType DEF ConnectedRobot, Robots, Goals
<1>4. robot.moves = 0
  BY <1>2 DEF ConnectedRobot
<1>5. visit \in Visits /\ stopped \in BOOLEAN
  BY DEF RInit, NewVisit, Visits
<1>6. run = "entering" /\ actions = 0
  BY DEF RInit, Init
<1>7. LiveController /\ EndedArmIsHeld /\ SeenThisVisit
  BY <1>6 DEF LiveController, EndedArmIsHeld, SeenThisVisit, Over
<1>8. MovesArePaid
  BY <1>4, <1>6, BudgetAssumption DEF MovesArePaid
<1>9. QED BY <1>1, <1>3, <1>5, <1>7, <1>8 DEF RInv

\* What the visit has seen keeps its type.
LEMMA SeenType ==
    ASSUME visit \in Visits, NEW look, NEW near, Seen(look, near)
    PROVE  visit' \in Visits
<1>1. visit.steps + 1 \in Nat
  <2>1. visit.steps \in Nat
    BY DEF Visits
  <2>2. QED BY ONLY <2>1
<1>2. visit.near + 1 \in Nat
  <2>1. visit.near \in Nat
    BY DEF Visits
  <2>2. QED BY ONLY <2>1
<1>3. visit.targets + 1 \in Nat
  <2>1. visit.targets \in Nat
    BY DEF Visits
  <2>2. QED BY ONLY <2>1
<1>4. QED BY <1>1, <1>2, <1>3 DEF Seen, Visits, NewVisit

\* An action of the loop that took a handler's step out of s, in the terms of the FSM and
\* of the robot that step left.
LEMMA PaidStep ==
    ASSUME RInv, IInv', NEW s \in ActionStates,
           NEW dest \in ActiveStates \cup {"SUCCESS"}, NEW r \in Robots,
           NEW e \in Entries(dest, r),
           dest = "SEARCH_CV" => useSearchCv \/ s = "SEARCH_CV",
           Stepped(s, dest, e.how), HandOver(e.robot),
           r.moves \in {robot.moves, robot.moves + 1}
    PROVE  /\ ~Over /\ e.how \in EntryOutcomes
           /\ EndedArmIsHeld' /\ MovesArePaid' /\ robot' \in Robots
           /\ robot'.moves = r.moves
           /\ ~Over' => robot' = e.robot
<1>1. e.how \in {"ok", "raise"} /\ e.robot \in Robots /\ e.robot.moves = r.moves
  BY EntriesOutcome
<1>2. ~Over
  BY DEF Stepped, Over
<1>3. SameWork(e.robot, robot') /\ (~Over' => robot' = e.robot) /\ EndedArmIsHeld'
  BY <1>1, <1>2, HandOverOutcome DEF RInv
<1>4. actions < MaxTotalActions /\ actions' = actions + 1
  BY <1>1, SteppedOutcome DEF RInv, EntryOutcomes
<1>5. actions \in Nat /\ actions + 1 <= MaxTotalActions
  BY <1>4, BudgetAssumption DEF RInv, IInv, TypeOK
<1>6. robot'.moves = r.moves
  BY <1>1, <1>3 DEF SameWork, SameVisit
<1>7. robot.moves \in Nat /\ robot.moves <= actions
  BY <1>2 DEF RInv, Robots, MovesArePaid
<1>8. MovesArePaid'
  BY <1>4, <1>5, <1>6, <1>7, BudgetAssumption DEF MovesArePaid
<1>9. QED BY <1>1, <1>2, <1>3, <1>6, <1>8 DEF EntryOutcomes, SameWork, SameVisit

\* Every step over the real handlers is a step of the FSM: what they answer and how their
\* state entries end is among what the FSM allows for.
LEMMA StepImplements == RInv /\ [RNext]_rvars => [Next]_vars
<1> SUFFICES ASSUME RInv, [RNext]_rvars
             PROVE  [Next]_vars
  OBVIOUS
<1>0. robot \in Robots /\ TypeOK
  BY DEF RInv, IInv
<1>1. CASE RBegin
  <2>1. PICK e \in EnterState("INITIAL", robot) : Begin(e.how)
    BY <1>1 DEF RBegin
  <2>2. e.how \in EntryOutcomes
    BY <1>0, EnterStateOutcome DEF EnteredBy, EntryOutcomes, ActiveStates
  <2>3. QED BY <2>1, <2>2 DEF Next, Loop
<1>2. CASE RObserve
  <2>1. PICK o \in InitialOutcomes(robot) :
           \E e \in Entries(AfterInitial(o.result), o.robot) : Observe(o.result, e.how)
    BY <1>2 DEF RObserve
  <2>2. PICK e \in Entries(AfterInitial(o.result), o.robot) : Observe(o.result, e.how)
    BY <2>1
  <2>3. o.result \in InitialObservation /\ o.robot \in Robots
    BY <1>0, InitialOutcome DEF SameWork, SameVisit
  <2>4. AfterInitial(o.result) \in ActiveStates \cup {"SUCCESS"}
    BY <1>0, <2>3, Destinations DEF ActiveStates, ActionStates
  <2>5. e.how \in EntryOutcomes
    BY <2>3, <2>4, EntriesOutcome DEF EntryOutcomes
  <2>6. QED BY <2>2, <2>3, <2>5 DEF Next, Loop
<1>3. CASE RSearchRLStep
  <2>1. PICK o \in SearchRLOutcomes(robot) :
           \E e \in Entries(AfterSearchRL(o.result), o.robot) : SearchRLStep(o.result, e.how)
    BY <1>3 DEF RSearchRLStep
  <2>2. PICK e \in Entries(AfterSearchRL(o.result), o.robot) : SearchRLStep(o.result, e.how)
    BY <2>1
  <2>3. o.result \in SearchRLResult /\ o.robot \in Robots
    BY <1>0, SearchRLOutcome, AdvanceOutcome DEF AdvancedBy, Learned
  <2>4. AfterSearchRL(o.result) \in ActiveStates \cup {"SUCCESS"}
    BY <1>0, <2>3, Destinations DEF ActiveStates
  <2>5. e.how \in EntryOutcomes
    BY <2>3, <2>4, EntriesOutcome DEF EntryOutcomes
  <2>6. QED BY <2>2, <2>3, <2>5 DEF Next, Loop
<1>4. CASE RSearchCVStep
  <2>1. PICK o \in SearchCVOutcomes(robot) :
           \E e \in Entries(AfterSearchCV(o.result), o.robot) : SearchCVStep(o.result, e.how)
    BY <1>4 DEF RSearchCVStep
  <2>2. PICK e \in Entries(AfterSearchCV(o.result), o.robot) : SearchCVStep(o.result, e.how)
    BY <2>1
  <2>3. o.result \in SearchCVResult /\ o.robot \in Robots
    BY <1>0, SearchCVOutcome DEF LookedBy
  <2>4. AfterSearchCV(o.result) \in ActiveStates \cup {"SUCCESS"}
    BY <1>0, <2>3, Destinations DEF ActiveStates
  <2>5. e.how \in EntryOutcomes
    BY <2>3, <2>4, EntriesOutcome DEF EntryOutcomes
  <2>6. QED BY <2>2, <2>3, <2>5 DEF Next, Loop
<1>5. CASE RClipRLStep
  <2>1. PICK o \in ClipRLOutcomes(robot) :
           \E e \in Entries(AfterClipRL(o.result), o.robot) : ClipRLStep(o.result, e.how)
    BY <1>5 DEF RClipRLStep
  <2>2. PICK e \in Entries(AfterClipRL(o.result), o.robot) : ClipRLStep(o.result, e.how)
    BY <2>1
  <2>3. o.result \in ClipRLResult /\ o.robot \in Robots
    BY <1>0, ClipRLOutcome
  <2>4. AfterClipRL(o.result) \in ActiveStates \cup {"SUCCESS"}
    BY <1>0, <2>3, Destinations
  <2>5. e.how \in EntryOutcomes
    BY <2>3, <2>4, EntriesOutcome DEF EntryOutcomes
  <2>6. QED BY <2>2, <2>3, <2>5 DEF Next, Loop
<1>6. CASE RHandlerStops
  BY <1>6 DEF RHandlerStops, Next, Loop
<1>7. CASE RFail
  BY <1>7 DEF RFail, Next, Loop
<1>8. CASE RTick
  BY <1>8 DEF RTick, Next
<1>9. CASE UNCHANGED rvars
  BY <1>9 DEF rvars
<1>10. QED
  BY <1>1, <1>2, <1>3, <1>4, <1>5, <1>6, <1>7, <1>8, <1>9 DEF RNext, RLoop

\* What a step owes the invariant beyond that of the FSM, and the action properties.
StepKeeps ==
    /\ robot' \in Robots /\ visit' \in Visits /\ stopped' \in BOOLEAN
    /\ LiveController' /\ EndedArmIsHeld' /\ SeenThisVisit' /\ MovesArePaid'
    /\ robot'.moves \in {robot.moves, robot.moves + 1}
    /\ state = "SEARCH_CV" /\ state' = "CLIP_RL" => visit.near + 1 >= SettleTicks
    /\ state = "SEARCH_CV" /\ robot'.moves > robot.moves => visit.targets + 1 >= LockFrames
    /\ state = "CLIP_RL" /\ state' = "SEARCH_CV" => visit.steps >= 1

LEMMA MovesType == ASSUME NEW r \in Robots PROVE r.moves \in Nat
  BY DEF Robots

LEMMA BeginKeeps == RInv /\ IInv' /\ RBegin => StepKeeps
<1> SUFFICES ASSUME RInv, IInv', RBegin
             PROVE  StepKeeps
  OBVIOUS
<1>1. PICK e \in EnterState("INITIAL", robot) : Begin(e.how) /\ HandOver(e.robot)
  BY DEF RBegin
<1>2. EnteredBy("INITIAL", robot, e)
  BY <1>1, EnterStateOutcome DEF RInv, ActiveStates
<1>3. e.robot \in Robots /\ e.robot.moves = robot.moves /\ robot.moves \in Nat
  BY <1>2, MovesType DEF EnteredBy, RInv
<1>4. ~Over /\ actions' = actions /\ run = "entering"
  BY <1>1 DEF Begin, Over, counters
<1>5. SameWork(e.robot, robot') /\ (~Over' => robot' = e.robot) /\ EndedArmIsHeld'
  BY <1>1, <1>3, <1>4, HandOverOutcome DEF RInv
<1>6. robot' \in Robots /\ robot'.moves = robot.moves
  BY <1>3, <1>5 DEF SameWork, SameVisit
<1>7. MovesArePaid'
  BY <1>4, <1>6 DEF RInv, MovesArePaid
<1>8. state = "INITIAL" /\ visit' = visit /\ stopped' = stopped
  BY <1>4 DEF RBegin, RInv, IInv, Control
<1>9. LiveController' /\ SeenThisVisit'
  <2> SUFFICES ASSUME run' = "looping"
               PROVE  LiveController' /\ SeenThisVisit'
    BY DEF LiveController, SeenThisVisit
  <2>1. e.how = "ok" /\ state' = "INITIAL"
    BY <1>1, <1>8 DEF Begin, Abort, Raise
  <2>2. robot' = e.robot /\ robot'.follower.on = FALSE
    BY <1>2, <1>5, <2>1 DEF Over, EnteredBy
  <2>3. QED BY <2>1, <2>2 DEF LiveController, SeenThisVisit, Learned
<1>10. QED BY <1>3, <1>5, <1>6, <1>7, <1>8, <1>9 DEF StepKeeps, RInv

LEMMA ObserveKeeps == RInv /\ IInv' /\ RObserve => StepKeeps
<1> SUFFICES ASSUME RInv, IInv', RObserve
             PROVE  StepKeeps
  OBVIOUS
<1>1. PICK o \in InitialOutcomes(robot) :
         /\ o.how = "result"
         /\ \E e \in Entries(AfterInitial(o.result), o.robot) :
               Observe(o.result, e.how) /\ HandOver(e.robot)
  BY DEF RObserve
<1> DEFINE dest == AfterInitial(o.result)
<1>2. PICK e \in Entries(dest, o.robot) : Observe(o.result, e.how) /\ HandOver(e.robot)
  BY <1>1
<1>3. o.result \in InitialObservation /\ SameWork(robot, o.robot)
  BY InitialOutcome DEF RInv
<1>4. dest \in {"SEARCH_RL", "SEARCH_CV", "CLIP_RL", "SUCCESS"}
  BY <1>3, Destinations DEF RInv, IInv
<1>5. o.robot \in Robots /\ o.robot.moves = robot.moves /\ o.robot.follower = robot.follower
  BY <1>3 DEF SameWork, SameVisit
<1>6. run = "looping" /\ state = "INITIAL" /\ actions' = actions /\ GoTo(dest, e.how)
  BY <1>2 DEF Observe, counters
<1> HIDE DEF dest
<1>7. /\ e.robot \in Robots /\ e.robot.moves = robot.moves
      /\ dest # "SUCCESS" => EnteredBy(dest, o.robot, e)
  BY <1>4, <1>5, <1>6, EntriesOutcome DEF ActiveStates, ActionStates
<1>8. SameWork(e.robot, robot') /\ (~Over' => robot' = e.robot) /\ EndedArmIsHeld'
  BY <1>2, <1>6, <1>7, HandOverOutcome DEF RInv, Over
<1>9. robot' \in Robots /\ robot'.moves = robot.moves /\ robot.moves \in Nat
  BY <1>7, <1>8, MovesType DEF SameWork, SameVisit, RInv
<1>10. MovesArePaid'
  BY <1>6, <1>9 DEF RInv, MovesArePaid, Over
<1>11. visit' = NewVisit /\ visit' \in Visits /\ stopped' = stopped
  BY DEF RObserve, NewVisit, Visits
<1>12. run' = "looping" => e.how = "ok" /\ state' = dest /\ dest # "SUCCESS"
  BY <1>6 DEF GoTo, Abort, Raise, ActiveStates, ActionStates
<1>13. ~o.robot.follower.on
  BY <1>5, <1>6 DEF RInv, LiveController
<1>14. LiveController' /\ SeenThisVisit'
  <2>1. CASE dest = "SUCCESS"
    BY <1>12, <2>1 DEF LiveController, SeenThisVisit
  <2>2. CASE dest # "SUCCESS"
    BY <1>4, <1>5, <1>7, <1>8, <1>11, <1>12, <1>13, <2>2, Arrival
       DEF ActiveStates, ActionStates, Over
  <2>3. QED BY <2>1, <2>2
<1>15. QED BY <1>6, <1>8, <1>9, <1>10, <1>11, <1>14 DEF StepKeeps, RInv

LEMMA SearchRLKeeps == RInv /\ IInv' /\ RSearchRLStep => StepKeeps
<1> SUFFICES ASSUME RInv, IInv', RSearchRLStep
             PROVE  StepKeeps
  OBVIOUS
<1>1. PICK o \in SearchRLOutcomes(robot) :
         /\ o.how = "result"
         /\ \E e \in Entries(AfterSearchRL(o.result), o.robot) :
               SearchRLStep(o.result, e.how) /\ HandOver(e.robot)
  BY DEF RSearchRLStep
<1> DEFINE dest == AfterSearchRL(o.result)
<1>2. PICK e \in Entries(dest, o.robot) : SearchRLStep(o.result, e.how) /\ HandOver(e.robot)
  BY <1>1
<1>3. PICK a \in Advance("SEARCH_RL", robot) :
         /\ o.robot = a.robot
         /\ o.result.carabiner_detected \/ a.how = "acted"
  BY <1>1, SearchRLOutcome DEF RInv
<1>4. o.result \in SearchRLResult
  BY SearchRLOutcome DEF RInv
<1>5. AdvancedBy("SEARCH_RL", robot, a)
  BY AdvanceOutcome DEF RInv, Learned
<1>6. /\ dest \in ActionStates
      /\ dest = "SEARCH_CV" => useSearchCv
      /\ dest = "SEARCH_RL" => a.how = "acted"
  BY <1>3, <1>4, Destinations DEF RInv, IInv, AfterSearchRL, AfterDetection
<1>7. o.robot \in Robots /\ o.robot.moves \in {robot.moves, robot.moves + 1}
      /\ o.robot.follower = robot.follower
  BY <1>3, <1>5 DEF AdvancedBy
<1>8. Stepped("SEARCH_RL", dest, e.how)
  BY <1>2 DEF SearchRLStep
<1> HIDE DEF dest
<1>9. state = "SEARCH_RL" /\ run = "looping"
  BY <1>8 DEF Stepped
<1>10. /\ EndedArmIsHeld' /\ MovesArePaid' /\ robot' \in Robots
       /\ robot'.moves = o.robot.moves
       /\ ~Over' => robot' = e.robot
  BY <1>2, <1>6, <1>7, <1>8, PaidStep DEF ActiveStates, ActionStates
<1>11. run' = "looping" => e.how = "ok" /\ state' = dest
  BY <1>8, <1>9, LoopGoesOn
<1>12. Seen("nothing", FALSE) /\ stopped' = stopped /\ visit' \in Visits
  BY SeenType DEF RSearchRLStep, RInv
<1>13. robot.follower.on <=> FALSE
  BY <1>9 DEF RInv, LiveController
<1>14. LiveController' /\ SeenThisVisit'
  <2>1. CASE dest = "SEARCH_RL"
    <3> SUFFICES ASSUME run' = "looping"
                 PROVE  LiveController' /\ SeenThisVisit'
      BY DEF LiveController, SeenThisVisit
    <3>1. state' = "SEARCH_RL" /\ robot' = o.robot
      BY <1>6, <1>7, <1>9, <1>10, <1>11, <2>1, EntriesOutcome DEF Over, ActiveStates
    <3>2. "SEARCH_RL" \in robot'.seeded /\ "SEARCH_RL" \notin robot'.stale
      BY <1>3, <1>5, <1>6, <1>9, <2>1, <3>1 DEF AdvancedBy, RInv, LiveController, Learned
    <3>3. ~robot'.follower.on
      BY <1>7, <1>13, <3>1
    <3>4. QED BY <3>1, <3>2, <3>3 DEF LiveController, SeenThisVisit
  <2>2. CASE dest # "SEARCH_RL"
    <3>1. EnteredBy(dest, o.robot, e)
      BY <1>6, <1>7, <1>9, <2>2, EntriesOutcome DEF ActiveStates, ActionStates
    <3>2. run' = "looping" => visit' = NewVisit /\ robot' = e.robot
      BY <1>9, <1>10, <1>11, <1>12, <2>2 DEF Seen, Over
    <3>3. QED BY <1>6, <1>7, <1>11, <1>13, <3>1, <3>2, Arrival DEF ActiveStates
  <2>3. QED BY <2>1, <2>2
<1>15. QED BY <1>7, <1>9, <1>10, <1>12, <1>14 DEF StepKeeps, RInv

LEMMA SearchCVKeeps == RInv /\ IInv' /\ RSearchCVStep => StepKeeps
<1> SUFFICES ASSUME RInv, IInv', RSearchCVStep
             PROVE  StepKeeps
  OBVIOUS
<1>1. PICK o \in SearchCVOutcomes(robot) :
         /\ o.how = "result"
         /\ \E e \in Entries(AfterSearchCV(o.result), o.robot) :
               SearchCVStep(o.result, e.how) /\ HandOver(e.robot)
         /\ Seen(o.look, o.near)
         /\ stopped' = (stopped \/ o.robot.follower.stopped)
  BY DEF RSearchCVStep
<1> DEFINE dest == AfterSearchCV(o.result)
<1>2. PICK e \in Entries(dest, o.robot) : SearchCVStep(o.result, e.how) /\ HandOver(e.robot)
  BY <1>1
<1>3. LookedBy(robot, o)
  BY SearchCVOutcome DEF RInv
<1>4. dest \in ActionStates /\ (dest = "CLIP_RL" => o.result.followed)
  BY <1>3, Destinations DEF RInv, IInv, LookedBy, AfterSearchCV
<1>5. o.robot \in Robots /\ o.robot.moves \in {robot.moves, robot.moves + 1}
  BY <1>3 DEF LookedBy
<1>6. Stepped("SEARCH_CV", dest, e.how)
  BY <1>2 DEF SearchCVStep
<1> HIDE DEF dest
<1>7. state = "SEARCH_CV" /\ run = "looping"
  BY <1>6 DEF Stepped
<1>8. /\ EndedArmIsHeld' /\ MovesArePaid' /\ robot' \in Robots
      /\ robot'.moves = o.robot.moves
      /\ ~Over' => robot' = e.robot
  BY <1>2, <1>4, <1>5, <1>6, PaidStep DEF ActiveStates, ActionStates
<1>9. run' = "looping" => e.how = "ok" /\ state' = dest
  BY <1>6, <1>7, LoopGoesOn
<1>10. visit' \in Visits
  BY <1>1, SeenType DEF RInv
<1>11. stopped' \in BOOLEAN
  BY <1>1, <1>5, FollowerCounts DEF RInv, Followers
<1>12. /\ robot.follower.settled \in Nat /\ robot.follower.locked \in Nat
       /\ visit.near \in Nat /\ visit.targets \in Nat
  BY FollowerCounts DEF RInv, Visits
<1>13. /\ robot.follower.on /\ robot.servo # "none" /\ "SEARCH_CV" \notin robot.stale
       /\ robot.follower.settled <= visit.near /\ robot.follower.locked <= visit.targets
  BY <1>1, <1>3, <1>7 DEF RInv, LiveController, SeenThisVisit, LookedBy
<1>14. /\ o.robot.follower.on /\ o.robot.servo # "none" /\ "SEARCH_CV" \notin o.robot.stale
       /\ o.robot.follower.settled <= IF o.near THEN visit.near + 1 ELSE 0
       /\ o.robot.follower.locked <= IF o.look = "target" THEN visit.targets + 1 ELSE 0
  <2>1. o.robot.follower.on /\ o.robot.servo # "none" /\ "SEARCH_CV" \notin o.robot.stale
    BY <1>1, <1>3, <1>13 DEF LookedBy
  <2>2. o.robot.follower.settled <= IF o.near THEN visit.near + 1 ELSE 0
    BY <1>1, <1>3, <1>12, <1>13 DEF LookedBy
  <2>3. o.robot.follower.locked \in Nat
    BY <1>5, FollowerCounts
  <2>4. o.robot.follower.locked <= IF o.look = "target" THEN visit.targets + 1 ELSE 0
    BY <1>1, <1>3, <1>12, <1>13, <2>3 DEF LookedBy
  <2>5. QED BY <2>1, <2>2, <2>4
<1>15. LiveController' /\ SeenThisVisit'
  <2>1. CASE dest = "SEARCH_CV"
    <3> SUFFICES ASSUME run' = "looping"
                 PROVE  LiveController' /\ SeenThisVisit'
      BY DEF LiveController, SeenThisVisit
    <3>1. state' = "SEARCH_CV" /\ robot' = o.robot
      BY <1>4, <1>5, <1>7, <1>8, <1>9, <2>1, EntriesOutcome DEF Over, ActiveStates
    <3>2. /\ visit'.near = IF o.near THEN visit.near + 1 ELSE 0
          /\ visit'.targets = IF o.look = "target" THEN visit.targets + 1 ELSE 0
      BY <1>1, <1>7, <3>1 DEF Seen
    <3>3. QED BY <1>14, <3>1, <3>2 DEF LiveController, SeenThisVisit, Learned
  <2>2. CASE dest # "SEARCH_CV"
    <3>1. EnteredBy(dest, o.robot, e)
      BY <1>4, <1>5, <1>7, <2>2, EntriesOutcome DEF ActiveStates, ActionStates
    <3>2. run' = "looping" => visit' = NewVisit /\ robot' = e.robot
      BY <1>1, <1>7, <1>8, <1>9, <2>2 DEF Seen, Over
    <3>3. QED BY <1>4, <1>5, <1>9, <2>2, <3>1, <3>2, Arrival DEF ActiveStates
  <2>3. QED BY <2>1, <2>2
<1>16. state' = "CLIP_RL" => visit.near + 1 >= SettleTicks
  <2> SUFFICES ASSUME state' = "CLIP_RL"
               PROVE  visit.near + 1 >= SettleTicks
    OBVIOUS
  <2>1. dest = "CLIP_RL"
    BY <1>6, LoopMovesOn
  <2>2. o.robot.follower.settled >= SettleTicks /\ o.robot.follower.settled \in Nat
    BY <1>1, <1>3, <1>4, <1>5, <2>1, FollowerCounts DEF LookedBy
  <2>3. QED BY <1>12, <1>14, <2>2, FollowerAssumption
<1>17. robot'.moves > robot.moves => visit.targets + 1 >= LockFrames
  <2>1. robot.moves \in Nat
    BY MovesType DEF RInv
  <2>2. robot'.moves > robot.moves => robot.follower.locked + 1 >= LockFrames
    BY <1>3, <1>8, <2>1 DEF LookedBy
  <2>3. QED BY <1>12, <1>13, <2>2, FollowerAssumption
<1>18. QED
  BY <1>5, <1>7, <1>8, <1>10, <1>11, <1>15, <1>16, <1>17 DEF StepKeeps

LEMMA ClipRLKeeps == RInv /\ IInv' /\ RClipRLStep => StepKeeps
<1> SUFFICES ASSUME RInv, IInv', RClipRLStep
             PROVE  StepKeeps
  OBVIOUS
<1>1. PICK o \in ClipRLOutcomes(robot) :
         /\ o.how = "result"
         /\ \E e \in Entries(AfterClipRL(o.result), o.robot) :
               ClipRLStep(o.result, e.how) /\ HandOver(e.robot)
  BY DEF RClipRLStep
<1> DEFINE dest == AfterClipRL(o.result)
<1>2. PICK e \in Entries(dest, o.robot) : ClipRLStep(o.result, e.how) /\ HandOver(e.robot)
  BY <1>1
<1>3. PICK a \in Advance("CLIP_RL", robot) :
         /\ o.robot \in Robots
         /\ o.robot.servo = a.robot.servo
         /\ o.robot.moves = a.robot.moves
         /\ o.robot.follower = a.robot.follower
         /\ o.robot.stale = a.robot.stale
         /\ \/ o.result.returned_to_neutral
            \/ a.how = "acted" /\ o.robot.seeded = a.robot.seeded
  BY <1>1, ClipRLOutcome DEF RInv
<1>4. o.result \in ClipRLResult /\ (o.result.alignment_degraded => robot.baseline)
  BY ClipRLOutcome DEF RInv
<1>5. AdvancedBy("CLIP_RL", robot, a)
  BY AdvanceOutcome DEF RInv, Learned
<1>6. /\ dest \in ActiveStates \cup {"SUCCESS"}
      /\ dest = "SEARCH_CV" => useSearchCv /\ robot.baseline
      /\ dest = "CLIP_RL" => ~o.result.returned_to_neutral
  BY <1>4, Destinations DEF RInv, IInv, AfterClipRL
<1>7. o.robot \in Robots /\ o.robot.moves \in {robot.moves, robot.moves + 1}
      /\ o.robot.follower = robot.follower
  BY <1>3, <1>5 DEF AdvancedBy
<1>8. Stepped("CLIP_RL", dest, e.how)
  BY <1>2 DEF ClipRLStep
<1> HIDE DEF dest
<1>9. state = "CLIP_RL" /\ run = "looping"
  BY <1>8 DEF Stepped
<1>10. /\ EndedArmIsHeld' /\ MovesArePaid' /\ robot' \in Robots
       /\ robot'.moves = o.robot.moves
       /\ ~Over' => robot' = e.robot
  BY <1>2, <1>6, <1>7, <1>8, PaidStep DEF ActionStates
<1>11. run' = "looping" => e.how = "ok" /\ state' = dest
  BY <1>8, <1>9, LoopGoesOn
<1>12. Seen("nothing", FALSE) /\ stopped' = stopped /\ visit' \in Visits
  BY SeenType DEF RClipRLStep, RInv
<1>13. robot.follower.on <=> FALSE
  BY <1>9 DEF RInv, LiveController
<1>14. visit.steps \in Nat
  BY DEF RInv, Visits
<1>15. LiveController' /\ SeenThisVisit'
  <2>1. CASE dest = "CLIP_RL"
    <3> SUFFICES ASSUME run' = "looping"
                 PROVE  LiveController' /\ SeenThisVisit'
      BY DEF LiveController, SeenThisVisit
    <3>1. state' = "CLIP_RL" /\ robot' = o.robot
      BY <1>6, <1>7, <1>9, <1>10, <1>11, <2>1, EntriesOutcome DEF Over
    <3>2. "CLIP_RL" \in robot'.seeded /\ "CLIP_RL" \notin robot'.stale
      BY <1>3, <1>5, <1>6, <1>9, <2>1, <3>1 DEF AdvancedBy, RInv, LiveController, Learned
    <3>3. ~robot'.follower.on
      BY <1>7, <1>13, <3>1
    <3>4. visit'.steps >= 1
      BY <1>9, <1>12, <1>14, <3>1 DEF Seen
    <3>5. QED BY <3>1, <3>2, <3>3, <3>4 DEF LiveController, SeenThisVisit
  <2>2. CASE dest = "SUCCESS"
    <3>1. run' # "looping"
      BY <1>8, <1>9, <2>2 DEF Stepped, GoTo, ActiveStates, ActionStates, Abort, Raise
    <3>2. QED BY <3>1 DEF LiveController, SeenThisVisit
  <2>3. CASE dest # "CLIP_RL" /\ dest # "SUCCESS"
    <3>1. EnteredBy(dest, o.robot, e)
      BY <1>6, <1>7, <1>9, <2>3, EntriesOutcome
    <3>2. run' = "looping" => visit' = NewVisit /\ robot' = e.robot
      BY <1>9, <1>10, <1>11, <1>12, <2>3 DEF Seen, Over
    <3>3. QED BY <1>6, <1>7, <1>11, <1>13, <2>3, <3>1, <3>2, Arrival
  <2>4. QED BY <2>1, <2>2, <2>3
<1>16. state' = "SEARCH_CV" => visit.steps >= 1
  <2>1. state' = "SEARCH_CV" => dest = "SEARCH_CV"
    BY <1>8, LoopMovesOn
  <2>2. robot.baseline => visit.steps >= 1
    BY <1>9 DEF RInv, SeenThisVisit
  <2>3. QED BY <1>6, <2>1, <2>2
<1>17. QED BY <1>7, <1>9, <1>10, <1>12, <1>15, <1>16 DEF StepKeeps, RInv

LEMMA HandlerStopsKeeps == RInv /\ IInv' /\ RHandlerStops => StepKeeps
<1> SUFFICES ASSUME RInv, IInv', RHandlerStops
             PROVE  StepKeeps
  OBVIOUS
<1>1. PICK o \in StepOutcomes :
         o.how \in Stops /\ HandlerStops(o.how) /\ HandOver(o.robot)
  BY DEF RHandlerStops
<1>2. /\ run = "looping" /\ ~Over /\ Over' /\ run' # "looping"
      /\ state' \in {state, "ABORTED"} /\ state \in ActiveStates
      /\ actions' = actions
      /\ state \in ActionStates => actions < MaxTotalActions
  BY <1>1, BudgetAssumption
     DEF RHandlerStops, HandlerStops, Abort, Raise, Over, Stops, counters, Exhausted,
         RInv, IInv, TypeOK
<1>3. robot \in Robots /\ robot.moves \in Nat /\ actions \in Nat /\ robot.moves <= actions
  BY <1>2, MovesType, BudgetAssumption DEF RInv, MovesArePaid, IInv, TypeOK
<1>4. /\ o.robot \in Robots
      /\ o.robot.moves \in {robot.moves, robot.moves + 1}
      /\ state = "INITIAL" => o.robot.moves = robot.moves
      /\ state = "SEARCH_CV" => o.robot.moves = robot.moves
  <2>1. CASE state = "INITIAL"
    <3>1. o \in InitialOutcomes(robot)
      BY <2>1 DEF StepOutcomes
    <3>2. QED BY <1>3, <2>1, <3>1, InitialOutcome DEF SameWork, SameVisit
  <2>2. CASE state = "SEARCH_RL"
    <3>1. o \in SearchRLOutcomes(robot)
      BY <2>2 DEF StepOutcomes
    <3>2. PICK a \in Advance("SEARCH_RL", robot) : o.robot = a.robot
      BY <1>3, <3>1, SearchRLOutcome
    <3>3. QED BY <1>3, <2>2, <3>2, AdvanceOutcome DEF AdvancedBy, Learned
  <2>3. CASE state = "SEARCH_CV"
    <3>1. o \in SearchCVOutcomes(robot)
      BY <2>3 DEF StepOutcomes
    <3>2. LookedBy(robot, o) /\ o.how # "result"
      BY <1>1, <1>3, <3>1, SearchCVOutcome DEF Stops
    <3>3. QED BY <2>3, <3>2 DEF LookedBy
  <2>4. CASE state = "CLIP_RL"
    <3>1. o \in ClipRLOutcomes(robot)
      BY <2>4 DEF StepOutcomes
    <3>2. PICK a \in Advance("CLIP_RL", robot) :
             o.robot \in Robots /\ o.robot.moves = a.robot.moves
      BY <1>3, <3>1, ClipRLOutcome
    <3>3. QED BY <1>3, <2>4, <3>2, AdvanceOutcome DEF AdvancedBy, Learned
  <2>5. QED BY <1>2, <2>1, <2>2, <2>3, <2>4 DEF ActiveStates, ActionStates
<1>5. SameWork(o.robot, robot') /\ EndedArmIsHeld'
  BY <1>1, <1>2, <1>4, HandOverOutcome DEF RInv
<1>6. robot' \in Robots /\ robot'.moves = o.robot.moves
  BY <1>5 DEF SameWork, SameVisit
<1>7. MovesArePaid'
  <2>1. CASE state = "INITIAL"
    BY <1>2, <1>4, <1>6, <2>1 DEF RInv, MovesArePaid
  <2>2. CASE state \in ActionStates
    BY <1>2, <1>3, <1>4, <1>6, <2>2, BudgetAssumption DEF MovesArePaid
  <2>3. QED BY <1>2, <2>1, <2>2 DEF ActiveStates
<1>8. LiveController' /\ SeenThisVisit'
  BY <1>2 DEF LiveController, SeenThisVisit
<1>9. visit' \in Visits /\ stopped' \in BOOLEAN
  BY DEF RHandlerStops, RInv
<1>10. QED
  BY <1>2, <1>3, <1>4, <1>5, <1>6, <1>7, <1>8, <1>9 DEF StepKeeps

LEMMA FailKeeps == RInv /\ IInv' /\ RFail => StepKeeps
<1> SUFFICES ASSUME RInv, IInv', RFail
             PROVE  StepKeeps
  OBVIOUS
<1>1. ~Over /\ Over' /\ run' # "looping" /\ state' = "FAILED" /\ HandOver(robot)
  BY DEF RFail, Fail, Over
<1>2. robot \in Robots /\ robot.moves \in Nat
  BY MovesType DEF RInv
<1>3. SameWork(robot, robot') /\ EndedArmIsHeld'
  BY <1>1, <1>2, HandOverOutcome DEF RInv
<1>4. robot' \in Robots /\ robot'.moves = robot.moves
  BY <1>3 DEF SameWork, SameVisit
<1>5. MovesArePaid'
  BY <1>1, <1>4 DEF RInv, MovesArePaid
<1>6. LiveController' /\ SeenThisVisit'
  BY <1>1 DEF LiveController, SeenThisVisit
<1>7. visit' \in Visits /\ stopped' \in BOOLEAN
  BY DEF RFail, RInv
<1>8. QED BY <1>1, <1>2, <1>3, <1>4, <1>5, <1>6, <1>7 DEF StepKeeps

LEMMA LoopKeeps == RInv /\ IInv' /\ RLoop => StepKeeps
  BY BeginKeeps, ObserveKeeps, SearchRLKeeps, SearchCVKeeps, ClipRLKeeps,
     HandlerStopsKeeps, FailKeeps DEF RLoop

LEMMA RStepInv == RInv /\ [RNext]_rvars => RInv'
<1> SUFFICES ASSUME RInv, [RNext]_rvars
             PROVE  RInv'
  OBVIOUS
<1>1. IInv'
  BY StepImplements, StepInv DEF RInv
<1>2. CASE RLoop
  BY <1>1, <1>2, LoopKeeps DEF StepKeeps, RInv
<1>3. CASE RTick \/ UNCHANGED rvars
  <2>1. UNCHANGED <<state, actions, run, robot, visit, stopped>>
    BY <1>3 DEF RTick, Tick, rvars, vars, counters, ending
  <2>2. QED BY <1>1, <2>1 DEF RInv, LiveController, EndedArmIsHeld, SeenThisVisit,
                              MovesArePaid, Over
<1>4. QED BY <1>2, <1>3 DEF RNext

LEMMA RInvariance == RSpec => []RInv
  BY RInitInv, RStepInv, PTL DEF RSpec

-----------------------------------------------------------------------------
(* The theorems. *)

\* The robot, the visit and the FSM keep their types, whatever the hardware does.
THEOREM RobotTypes == RSpec => []RTypeOK
<1>1. RInv => RTypeOK
  BY DEF RInv, IInv, RTypeOK
<1>2. QED BY <1>1, RInvariance, PTL

\* adapters.py implements the handlers the FSM was written against: an attempt over the real
\* handlers is an attempt of AttachmentFSM, so what is proved of run() holds of it.
THEOREM HandlersFitTheFSM == RSpec => Spec
<1>1. RInit => Init
  BY DEF RInit
<1>2. QED BY <1>1, StepImplements, RInvariance, PTL DEF RSpec, Spec

\* Whichever state the loop is in, its controller alone is live and starts from the present:
\* seed(), reset() and the follower's start() are called wherever enter_state() must.
THEOREM OneController == RSpec => []LiveController
<1>1. RInv => LiveController
  BY DEF RInv
<1>2. QED BY <1>1, RInvariance, PTL

\* The hold of an attempt that ended short of success is the last word to the motors.
THEOREM ArmIsHeld == RSpec => []EndedArmIsHeld
<1>1. RInv => EndedArmIsHeld
  BY DEF RInv
<1>2. QED BY <1>1, RInvariance, PTL

\* What a step may not do, of those the follower and the baseline guard.
LEMMA GuardedStep ==
    RInv /\ [RNext]_rvars =>
        /\ state = "SEARCH_CV" /\ state' = "CLIP_RL" => visit.near + 1 >= SettleTicks
        /\ state = "SEARCH_CV" /\ robot'.moves > robot.moves
              => visit.targets + 1 >= LockFrames
        /\ state = "CLIP_RL" /\ state' = "SEARCH_CV" => visit.steps >= 1
<1> SUFFICES ASSUME RInv, [RNext]_rvars
             PROVE  /\ state = "SEARCH_CV" /\ state' = "CLIP_RL"
                          => visit.near + 1 >= SettleTicks
                    /\ state = "SEARCH_CV" /\ robot'.moves > robot.moves
                          => visit.targets + 1 >= LockFrames
                    /\ state = "CLIP_RL" /\ state' = "SEARCH_CV" => visit.steps >= 1
  OBVIOUS
<1>1. IInv'
  BY StepImplements, StepInv DEF RInv
<1>2. CASE RLoop
  BY <1>1, <1>2, LoopKeeps DEF StepKeeps
<1>3. CASE RTick \/ UNCHANGED rvars
  <2>1. state' = state /\ robot' = robot
    BY <1>3 DEF RTick, Tick, rvars, vars
  <2>2. robot.moves \in Nat
    BY MovesType DEF RInv
  <2>3. QED BY <2>1, <2>2
<1>4. QED BY <1>2, <1>3 DEF RNext

\* CLIP_RL begins after SettleTicks settled ticks in a row of this visit, for every
\* settle_ticks the follower may be configured with.
THEOREM Settled == RSpec => ClipBeginsSettled
<1>1. RInv /\ [RNext]_rvars
      => [state = "SEARCH_CV" /\ state' = "CLIP_RL" => visit.near + 1 >= SettleTicks]_rvars
  BY GuardedStep
<1>2. QED BY <1>1, RInvariance, PTL DEF RSpec, ClipBeginsSettled

\* The tracker moves the arm only on the LockFrames-th target in a row or a later one.
THEOREM Relocked == RSpec => RelockAfterMiss
<1>1. RInv /\ [RNext]_rvars
      => [state = "SEARCH_CV" /\ robot'.moves > robot.moves
          => visit.targets + 1 >= LockFrames]_rvars
  BY GuardedStep
<1>2. QED BY <1>1, RInvariance, PTL DEF RSpec, RelockAfterMiss

\* CLIP_RL hands back to SEARCH_CV only after an earlier step of the same visit.
THEOREM JudgedInThisApproach == RSpec => DegradedAgainstThisApproach
<1>1. RInv /\ [RNext]_rvars
      => [state = "CLIP_RL" /\ state' = "SEARCH_CV" => visit.steps >= 1]_rvars
  BY GuardedStep
<1>2. QED BY <1>1, RInvariance, PTL DEF RSpec, DegradedAgainstThisApproach

\* The bounded attempt, counted in motion targets that reached the motors: no handler moves
\* the arm twice in one call, and a step that fails after its send is within the budget too.
THEOREM MotionBounded == RSpec => Physical!SafeSpec
<1>1. RInit => Physical!Init
  <2> SUFFICES ASSUME RInit
               PROVE  Physical!Init
    OBVIOUS
  <2>1. robot.moves = 0
    BY DEF RInit, ConnectedRobot
  <2>2. QED BY <2>1 DEF RInit, Init, Over, Physical!Init
<1>2. RInv /\ [RNext]_rvars => [Physical!Next]_(Physical!vars)
  <2> SUFFICES ASSUME RInv, [RNext]_rvars
               PROVE  [Physical!Next]_(Physical!vars)
    OBVIOUS
  <2>1. IInv' /\ [Next]_vars
    BY StepImplements, StepInv DEF RInv
  <2>2. CASE RLoop
    <3>1. StepKeeps
      BY <2>1, <2>2, LoopKeeps
    <3>2. /\ robot.moves \in Nat /\ robot'.moves \in Nat
          /\ robot'.moves <= MaxTotalActions
          /\ robot'.moves \in {robot.moves, robot.moves + 1}
      BY <3>1, MovesType DEF RInv, StepKeeps, MovesArePaid
    <3>3. \/ robot'.moves = robot.moves
          \/ robot.moves < MaxTotalActions /\ robot'.moves = robot.moves + 1
      BY <3>2, BudgetAssumption
    <3>4. ~Over
      BY <2>2 DEF RLoop, RBegin, RObserve, RSearchRLStep, RSearchCVStep, RClipRLStep,
         RHandlerStops, RFail, Begin, Observe, SearchRLStep, SearchCVStep, ClipRLStep,
         Stepped, HandlerStops, Fail, Over
    <3>5. held = FALSE
      BY <3>4 DEF RInv, IInv, Control, TypeOK
    <3>6. CASE ~Over'
      <4>1. held' = FALSE
        BY <2>1, <3>6 DEF IInv, Control, TypeOK
      <4>2. QED
        BY <3>3, <3>4, <3>5, <3>6, <4>1 DEF Physical!Next, Physical!Act, Physical!vars
    <3>7. CASE run' = "raised"
      <4>1. held' = TRUE
        BY <2>1, <3>7 DEF IInv, Control, TypeOK
      <4>2. Physical!Stop
        BY <3>3, <3>4, <3>7, <4>1 DEF Physical!Stop, Over
      <4>3. QED BY <4>2 DEF Physical!Next
    <3>8. CASE run' = "returned" /\ state' = "SUCCESS"
      <4>1. held' = FALSE
        BY <2>1, <3>8 DEF IInv, Control, TypeOK
      <4>2. Physical!Succeed
        BY <3>3, <3>4, <3>5, <3>8, <4>1 DEF Physical!Succeed, Over
      <4>3. QED BY <4>2 DEF Physical!Next
    <3>9. CASE run' = "returned" /\ state' # "SUCCESS"
      <4>1. held' = TRUE
        BY <2>1, <3>9 DEF IInv, Control, TypeOK
      <4>2. Physical!Stop
        BY <3>3, <3>4, <3>9, <4>1 DEF Physical!Stop, Over
      <4>3. QED BY <4>2 DEF Physical!Next
    <3>10. QED BY <3>6, <3>7, <3>8, <3>9 DEF Over
  <2>3. CASE RTick \/ UNCHANGED rvars
    BY <2>3 DEF RTick, Tick, rvars, vars, Over, counters, ending, Physical!vars
  <2>4. QED BY <2>2, <2>3 DEF RNext
<1>3. QED BY <1>1, <1>2, RInvariance, PTL DEF RSpec, Physical!SafeSpec
=============================================================================
