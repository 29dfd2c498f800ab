------------------------- MODULE JointMotionProofs -------------------------
(***************************************************************************)
(* Theorems about JointMotion, for every geometry, profile and route.      *)
(*                                                                         *)
(* The invariant says of the loop what its tests leave true for the next   *)
(* tick: the arm has torque, feedback is not older than stale_feedback_s,  *)
(* the tracking error not older than its grace and a tick.  Between legs   *)
(* the last frame is not a motion target.                                  *)
(***************************************************************************)
EXTENDS JointMotion, TLAPS

LoopInv ==
    phase \in {"send", "watch"} =>
        /\ arm.lifecycle = "enabled"
        /\ move.now - move.changed <= StaleTime
        /\ move.deviating # Never => move.now - move.deviating < TrackingGrace + LongestTick
        /\ move.settled <= move.now
        /\ move.now >= 0

Driven == {"motion", "part motion"}

StopInv == phase = "leg" => arm.frame \notin Driven

IInv == TypeOK /\ LoopInv /\ StopInv /\ StoppedWhereItIs /\ SettledOnFreshFeedback

-----------------------------------------------------------------------------
(* The arm. *)

LEMMA RoutesType == ASSUME NEW c \in Calls
                    PROVE  c.legs \in Seq(Int) /\ Len(c.legs) \in Nat \ {0}
<1>1. c.legs \in Seq(Int) /\ c.legs # << >>
  BY MotionAssumption DEF Calls
<1>2. QED
  BY <1>1

LEMMA ClippedType == ASSUME NEW p \in Int PROVE Clipped(p) \in Int
  BY MotionAssumption DEF Clipped

\* Clipping moves two poses no further apart.
LEMMA ClippedNear ==
    ASSUME NEW p \in Int, NEW q \in Int, NEW d \in Nat, Abs(p - q) <= d
    PROVE  Abs(Clipped(p) - Clipped(q)) <= d
  BY MotionAssumption DEF Clipped, Abs

LEMMA PosesAreIntegers == \A p \in Poses : p \in Int
  BY MotionAssumption DEF Poses

LEMMA OffsetsType == ASSUME NEW raw, NEW k \in Offsets(raw) PROVE k \in Int
  BY MotionAssumption DEF Offsets

\* A hold is a hold or, without a measured pose, nothing.
LEMMA HoldsStop ==
    ASSUME NEW a \in Arms, NEW s \in Samples, NEW b \in Holds(a, s)
    PROVE  /\ b \in Arms
           /\ b.lifecycle = a.lifecycle
           /\ b.frame \in Driven => b = a /\ ~s.finite
<1>1. CASE s.finite
  <2>1. PICK f \in {"hold", "part hold"} : b = [a EXCEPT !.goal = Clipped(s.at), !.frame = f]
    BY <1>1 DEF Holds
  <2>2. Clipped(s.at) \in Int
    BY ClippedType DEF Samples
  <2>3. QED
    BY <2>1, <2>2 DEF Arms, Lifecycles, Driven
<1>2. CASE ~s.finite
  BY <1>2 DEF Holds
<1>3. QED
  BY <1>1, <1>2

LEMMA SafeStopsStop ==
    ASSUME NEW a \in Arms, NEW s \in Samples, NEW b \in SafeStops(a, s)
    PROVE  /\ b \in Arms
           /\ b.lifecycle = "enabled" /\ b.frame \in Driven => ~s.finite
<1>1. CASE a.lifecycle # "enabled"
  BY <1>1 DEF SafeStops
<1>2. CASE a.lifecycle = "enabled" /\ call.estop
  <2>1. b = [a EXCEPT !.lifecycle = "connected", !.frame = "none"]
    BY <1>2 DEF SafeStops, Limp
  <2>2. QED
    BY <2>1 DEF Arms, Lifecycles
<1>3. CASE a.lifecycle = "enabled" /\ ~call.estop
  <2>1. b \in Holds(a, s)
    BY <1>3 DEF SafeStops
  <2>2. QED
    BY <2>1, HoldsStop
<1>4. QED
  BY <1>1, <1>2, <1>3

LEMMA RawType == ASSUME NEW p \in Int, NEW n \in Int PROVE p + Turn * n \in Int
<1>1. Turn \in Int
  BY MotionAssumption
<1>2. Turn * n \in Int
  BY <1>1
<1>3. QED
  BY <1>2

LEMMA ShownType == ASSUME NEW a \in Arms PROVE Shown(a) \in Int
<1>1. a.pose + Turn * a.turns \in Int /\ a.offset \in Int
  BY RawType DEF Arms, Lifecycles
<1>2. QED
  BY <1>1 DEF Shown

LEMMA EnabledType ==
    ASSUME NEW a \in Arms, NEW p \in Poses, NEW k \in Offsets(p + Turn * a.turns)
    PROVE  /\ Enabled(a, p, k) \in Arms
           /\ Enabled(a, p, k).lifecycle = "enabled"
           /\ Enabled(a, p, k).goal \in Int
<1>1. p \in Int /\ k \in Int /\ p + Turn * a.turns \in Int
  BY PosesAreIntegers, OffsetsType, RawType DEF Arms, Lifecycles
<1>2. p + Turn * a.turns + k \in Int
  BY <1>1
<1>3. QED
  BY <1>1, <1>2 DEF Enabled, Arms, Lifecycles

LEMMA ReadTypes ==
    ASSUME NEW a \in Arms, NEW s \in Samples, NEW p \in Near(a), NEW news \in News(a)
    PROVE  /\ AfterRead(a, p, news) \in Arms
           /\ AfterRead(a, p, news).frame = a.frame
           /\ news # "fault" => AfterRead(a, p, news).lifecycle = a.lifecycle
           /\ Read(AfterRead(a, p, news), s, news) \in Samples
<1>1. p \in Int
  BY MotionAssumption DEF Near, Poses
<1>2. /\ AfterRead(a, p, news) \in Arms
      /\ AfterRead(a, p, news).frame = a.frame
      /\ news # "fault" => AfterRead(a, p, news).lifecycle = a.lifecycle
  BY <1>1 DEF AfterRead, Arms, Lifecycles
<1>3. \A b \in Arms : Read(b, s, news) \in Samples
  BY ShownType DEF Read, Samples
<1>4. QED
  BY <1>2, <1>3

\* Every failure stops the arm first.
LEMMA FailStep ==
    ASSUME TypeOK, NEW a \in Arms, NEW s \in Samples, Fail(a, s), move' \in Moves
    PROVE  IInv'
<1>1. /\ arm' \in Arms
      /\ arm'.lifecycle = "enabled" /\ arm'.frame \in Driven => ~s.finite
  BY SafeStopsStop DEF Fail
<1>2. phase' = "failed" /\ sample' = s /\ call' = call /\ leg' = leg
  BY DEF Fail
<1>3. QED
  BY <1>1, <1>2 DEF IInv, TypeOK, LoopInv, StopInv, StoppedWhereItIs,
                    SettledOnFreshFeedback, Ended, Driven

LEMMA LegDoneType ==
    ASSUME TypeOK, LegDone
    PROVE  /\ call' = call /\ leg' \in 1..Len(call.legs)
           /\ phase' \in {"leg", "planned", "reached"}
<1>1. Len(call.legs) \in Nat \ {0}
  BY RoutesType DEF TypeOK
<1>2. QED
  BY <1>1 DEF LegDone, TypeOK

-----------------------------------------------------------------------------
(* The steps. *)

LEMMA InitInv == Init => IInv
<1> SUFFICES ASSUME Init PROVE IInv
  OBVIOUS
<1>1. TypeOK
  <2>1. call \in Calls /\ leg \in 1..Len(call.legs)
    <3>1. call \in Calls /\ leg = 1
      BY DEF Init
    <3>2. Len(call.legs) \in Nat \ {0}
      BY <3>1, RoutesType
    <3>3. QED
      BY <3>1, <3>2
  <2>2. arm \in Arms
    <3>1. PICK l \in Lifecycles, p \in Poses, n \in Turns, k \in {-Turn, 0, Turn}, c \in BOOLEAN :
            \E g \in {p + Turn * n + k, Clipped(p + Turn * n + k)} :
              arm = [lifecycle |-> l, frame |-> IF l \in Torque THEN "hold" ELSE "none",
                     goal |-> g, pose |-> p, turns |-> n, offset |-> k, caches |-> c]
      BY DEF Init
    <3>2. p \in Int /\ n \in Int /\ k \in Int
      BY MotionAssumption, PosesAreIntegers
    <3>3. p + Turn * n + k \in Int
      BY <3>2, RawType
    <3>4. Clipped(p + Turn * n + k) \in Int
      BY <3>3, ClippedType
    <3>5. QED
      BY <3>1, <3>2, <3>3, <3>4 DEF Arms, Lifecycles
  <2>3. sample \in Samples
    <3>1. PICK f \in BOOLEAN : sample = [finite |-> f, at |-> Shown(arm)]
      BY DEF Init
    <3>2. QED
      BY <2>2, <3>1, ShownType DEF Samples
  <2>4. phase = "leg" /\ move \in Moves
    BY DEF Init, NoMove, Moves, Never
  <2>5. QED
    BY <2>1, <2>2, <2>3, <2>4 DEF TypeOK
<1>2. phase = "leg" /\ arm.frame \notin Driven /\ move.settled = Never
  BY DEF Init, Driven, NoMove
<1>3. LoopInv /\ StopInv /\ StoppedWhereItIs /\ SettledOnFreshFeedback
  BY <1>2 DEF LoopInv, StopInv, StoppedWhereItIs, SettledOnFreshFeedback, Ended
<1>4. QED
  BY <1>1, <1>3 DEF IInv

LEMMA ConsiderStep == IInv /\ Consider => IInv'
<1> SUFFICES ASSUME IInv, Consider PROVE IInv'
  OBVIOUS
<1> USE DEF IInv
<1> PICK p \in Near(arm), news \in News(arm) :
        LET a == AfterRead(arm, p, news)
            s == Read(a, sample, news)
        IN  \/ Unfit(a, s) /\ Fail(a, s) /\ UNCHANGED move
            \/ /\ ~Unfit(a, s)
               /\ call.dry \/ Within(s)
               /\ LegDone
               /\ arm' = a /\ sample' = s /\ UNCHANGED move
            \/ ~Unfit(a, s) /\ ~call.dry /\ ~Within(s) /\ Depart(a, s)
  BY DEF Consider
<1> DEFINE a == AfterRead(arm, p, news)
           s == Read(a, sample, news)
<1>1. phase = "leg" /\ arm.frame \notin Driven
  BY DEF Consider, StopInv
<1>2. a \in Arms /\ s \in Samples /\ a.frame = arm.frame
  BY ReadTypes DEF TypeOK
<1>3. CASE Unfit(a, s) /\ Fail(a, s) /\ UNCHANGED move
  <2>1. move' \in Moves
    BY <1>3 DEF TypeOK
  <2>2. QED
    BY <1>2, <1>3, <2>1, FailStep
<1>4. CASE LegDone /\ arm' = a /\ sample' = s /\ UNCHANGED move
  <2>1. /\ call' = call /\ leg' \in 1..Len(call.legs)
        /\ phase' \in {"leg", "planned", "reached"}
    BY <1>4, LegDoneType
  <2> HIDE DEF a, s
  <2>2. QED
    BY <1>1, <1>2, <1>4, <2>1 DEF TypeOK, LoopInv, StopInv, StoppedWhereItIs,
         SettledOnFreshFeedback, Ended, Driven
<1>5. CASE ~Unfit(a, s) /\ Depart(a, s)
  <2> HIDE DEF a, s
  <2>1. s.finite /\ Origin(a, s) \in Int
    BY <1>2, <1>5 DEF Unfit, Origin, Samples
  <2>2. move' \in Moves /\ move'.now = 0 /\ move'.changed = 0 /\ move'.deviating = Never
        /\ move'.settled = Never
    BY <1>5, <2>1 DEF Depart, NoMove, Moves, Never
  <2>3. arm' \in Arms /\ arm'.lifecycle = "enabled" /\ sample' \in Samples
    <3>1. CASE a.lifecycle = "enabled" /\ arm' = a /\ sample' = s
      BY <1>2, <3>1
    <3>2. ASSUME NEW q \in Near(a), NEW k \in Offsets(q + Turn * a.turns),
                 arm' = Enabled(a, q, k), sample' = [finite |-> TRUE, at |-> arm'.goal]
          PROVE  arm' \in Arms /\ arm'.lifecycle = "enabled" /\ sample' \in Samples
      <4>1. q \in Poses
        BY DEF Near
      <4>2. QED
        BY <1>2, <3>2, <4>1, EnabledType DEF Samples
    <3>3. QED
      BY <1>5, <3>1, <3>2 DEF Depart
  <2>4. phase' = "send" /\ UNCHANGED <<call, leg>>
    BY <1>5 DEF Depart
  <2>5. TypeOK'
    BY <2>2, <2>3, <2>4 DEF TypeOK
  <2>6. LoopInv'
    BY <2>2, <2>3, MotionAssumption DEF LoopInv, Never
  <2>7. QED
    BY <2>4, <2>5, <2>6 DEF StopInv, StoppedWhereItIs, SettledOnFreshFeedback, Ended
<1>6. QED
  BY <1>3, <1>4, <1>5

LEMMA SendStep == IInv /\ Send => IInv'
<1> SUFFICES ASSUME IInv, Send PROVE IInv'
  OBVIOUS
<1> USE DEF IInv
<1> DEFINE command == Clipped(PathAt(move.start, move.now))
<1>1. command \in Int
  <2>1. Target \in Int
    <3>1. call.legs \in Seq(Int) /\ leg \in 1..Len(call.legs)
      BY RoutesType DEF TypeOK
    <3>2. QED
      BY <3>1 DEF Target
  <2>2. Speed * move.now \in Int /\ move.start \in Int
    BY MotionAssumption DEF TypeOK, Moves
  <2>3. PathAt(move.start, move.now) \in Int
    BY <2>1, <2>2 DEF PathAt
  <2>4. QED
    BY <2>3, ClippedType
<1> HIDE DEF command
<1>2. move' = move /\ move \in Moves
  BY DEF Send, TypeOK
<1>3. CASE /\ arm' = [arm EXCEPT !.frame = "motion", !.goal = command]
           /\ phase' = "watch"
           /\ UNCHANGED <<call, leg, sample>>
  <2>1. arm' \in Arms /\ arm'.lifecycle = "enabled"
    BY <1>1, <1>3 DEF TypeOK, Arms, Lifecycles, LoopInv, Send
  <2>2. LoopInv'
    BY <1>2, <1>3, <2>1 DEF LoopInv, Send
  <2>3. QED
    BY <1>2, <1>3, <2>1, <2>2 DEF TypeOK, StopInv, StoppedWhereItIs,
         SettledOnFreshFeedback, Ended
<1>4. CASE Fail([arm EXCEPT !.frame = "part motion", !.goal = command], sample)
  <2>1. [arm EXCEPT !.frame = "part motion", !.goal = command] \in Arms
    BY <1>1 DEF TypeOK, Arms, Lifecycles
  <2>2. QED
    BY <1>2, <1>4, <2>1, FailStep DEF TypeOK
<1>5. QED
  BY <1>3, <1>4 DEF Send, command

\* What one pass of the tests leaves for the next.
LEMMA WatchStep == IInv /\ Watch => IInv'
<1> SUFFICES ASSUME IInv, Watch PROVE IInv'
  OBVIOUS
<1>0. PICK p \in Near(arm), tick \in 1..LongestTick, heard \in BOOLEAN, news \in News(arm) :
        LET a == AfterRead(arm, p, news)
            s == Read(a, sample, news)
            t == move.now + tick
            m == [move EXCEPT !.changed = Changed(t, heard),
                              !.deviating = Deviating(s), !.settled = Settled(s)]
            fault == news \in {"fault", "bits"}
            stale == ~heard /\ Stale(t, m)
            settled == m.settled # Never /\ move.now - m.settled >= SettleTime
        IN  /\ news \in {"fresh", "bits"} => heard
            /\ \/ (fault \/ stale \/ Lost(m)) /\ Fail(a, s) /\ move' = m
               \/ /\ ~fault /\ ~stale /\ ~Lost(m) /\ settled
                  /\ arm' \in Holds(a, s) /\ sample' = s /\ move' = m /\ LegDone
               \/ /\ ~fault /\ ~stale /\ ~Lost(m) /\ ~settled
                  /\ phase' = "send"
                  /\ arm' = a /\ sample' = s /\ move' = Ticked(m, t)
                  /\ UNCHANGED <<call, leg>>
  BY DEF Watch
<1> DEFINE a == AfterRead(arm, p, news)
           s == Read(a, sample, news)
           t == move.now + tick
           m == [move EXCEPT !.changed = Changed(t, heard),
                             !.deviating = Deviating(s), !.settled = Settled(s)]
           stale == ~heard /\ Stale(t, m)
           settled == m.settled # Never /\ move.now - m.settled >= SettleTime
<1> HIDE DEF a, s, t, m, stale, settled
<1>1. phase = "watch" /\ TypeOK /\ LoopInv
  BY DEF Watch, IInv
<1>2. /\ a \in Arms /\ s \in Samples
      /\ news # "fault" => a.lifecycle = arm.lifecycle
  BY <1>1, ReadTypes DEF TypeOK, a, s
<1>3. t \in Int /\ move.now \in Int /\ move.now < t /\ t <= move.now + LongestTick
  <2>1. move.now \in Int
    BY <1>1 DEF TypeOK, Moves
  <2>2. QED
    BY <2>1, MotionAssumption DEF t
<1>4. /\ m \in Moves /\ m.now = move.now
      /\ m.changed = IF heard THEN t ELSE move.changed
      /\ m.deviating \in {Never, move.now, move.deviating}
      /\ m.settled \in {Never, move.now, move.settled}
  <2>1. move \in Moves
    BY <1>1 DEF TypeOK
  <2>2. Deviating(s) \in {Never, move.now, move.deviating}
    BY DEF Deviating, Since
  <2>3. Settled(s) \in {Never, move.now, move.settled}
    BY DEF Settled, Since
  <2>4. Changed(t, heard) \in Int /\ Deviating(s) \in Int /\ Settled(s) \in Int
    BY <2>1, <2>2, <2>3, <1>3 DEF Moves, Changed, Never
  <2>5. Changed(t, heard) = IF heard THEN t ELSE move.changed
    BY DEF Changed
  <2>6. QED
    BY <2>1, <2>2, <2>3, <2>4, <2>5 DEF Moves, m
<1>5. m.settled <= m.now /\ move.now >= 0
  BY <1>1, <1>3, <1>4 DEF LoopInv, TypeOK, Moves, Never
<1>6. m.changed \in Int /\ m.settled \in Int /\ m.deviating \in Int /\ move.now \in Int
  BY <1>3, <1>4 DEF Moves
<1>7. CASE Fail(a, s) /\ move' = m
  BY <1>1, <1>2, <1>4, <1>7, FailStep
<1>8. CASE /\ ~stale /\ settled
           /\ arm' \in Holds(a, s) /\ sample' = s /\ move' = m /\ LegDone
  <2>1. /\ call' = call /\ leg' \in 1..Len(call.legs)
        /\ phase' \in {"leg", "planned", "reached"}
    BY <1>1, <1>8, LegDoneType
  <2>2. /\ arm' \in Arms
        /\ arm'.frame \in Driven => arm' = a /\ ~s.finite
    BY <1>2, <1>8, HoldsStop
  <2>3. SettleTime >= StaleTime => m.changed > m.settled
    <3>1. CASE heard
      BY <1>3, <1>4, <1>5, <3>1 DEF Moves
    <3>2. CASE ~heard
      <4>1. t - m.changed <= StaleTime
        BY <1>3, <1>4, <1>6, <1>8, <3>2, MotionAssumption DEF Stale, stale
      <4>2. move.now - m.settled >= SettleTime
        BY <1>8 DEF settled
      <4>3. QED
        BY <4>1, <4>2, <1>3, <1>6, MotionAssumption
    <3>3. QED
      BY <3>1, <3>2
  <2>4. s.finite
    BY <1>1, <1>8 DEF Settled, Since, Within, settled, m, TypeOK, Moves
  <2>5. TypeOK'
    BY <1>1, <1>2, <1>4, <1>8, <2>1, <2>2 DEF TypeOK, Ended
  <2>6. QED
    BY <1>8, <2>1, <2>2, <2>3, <2>4, <2>5 DEF IInv, LoopInv, StopInv, StoppedWhereItIs,
         SettledOnFreshFeedback, Driven
<1>9. CASE /\ news # "fault" /\ ~stale /\ ~Lost(m)
           /\ phase' = "send"
           /\ arm' = a /\ sample' = s /\ move' = Ticked(m, t)
           /\ UNCHANGED <<call, leg>>
  <2>1. /\ move' \in Moves /\ move'.now = t /\ move'.changed = m.changed
        /\ move'.deviating = m.deviating /\ move'.settled = m.settled
    BY <1>3, <1>4, <1>9 DEF Ticked, Moves
  <2>2. t - m.changed <= StaleTime
    BY <1>3, <1>4, <1>6, <1>9, MotionAssumption DEF Stale, stale
  <2>3. m.deviating # Never => t - m.deviating < TrackingGrace + LongestTick
    BY <1>3, <1>4, <1>6, <1>9, MotionAssumption DEF Lost
  <2>4. arm'.lifecycle = "enabled"
    BY <1>1, <1>2, <1>9 DEF LoopInv
  <2>5. LoopInv'
    BY <1>3, <1>4, <1>5, <2>1, <2>2, <2>3, <2>4 DEF LoopInv, Moves
  <2>6. QED
    BY <1>1, <1>2, <1>9, <2>1, <2>5 DEF IInv, TypeOK, StopInv, StoppedWhereItIs,
         SettledOnFreshFeedback, Ended
<1>10. QED
  BY <1>0, <1>7, <1>8, <1>9 DEF a, s, t, m, stale, settled

LEMMA InvStep == IInv /\ [Next]_vars => IInv'
<1> SUFFICES ASSUME IInv, [Next]_vars PROVE IInv'
  OBVIOUS
<1>1. TypeOK /\ move \in Moves /\ arm \in Arms /\ sample \in Samples
  BY DEF IInv, TypeOK
<1>2. CASE UNCHANGED vars
  BY <1>2 DEF vars, IInv, TypeOK, LoopInv, StopInv, StoppedWhereItIs, SettledOnFreshFeedback
<1>3. CASE OutOfLimits \/ Cancelled \/ TimedOut
  <2>1. Fail(arm, sample) /\ move' = move
    BY <1>3 DEF OutOfLimits, Cancelled, TimedOut
  <2>2. QED
    BY <1>1, <2>1, FailStep
<1>4. CASE Refuse
  BY <1>4 DEF Refuse, IInv, TypeOK, LoopInv, StopInv, StoppedWhereItIs,
              SettledOnFreshFeedback, Ended, Driven
<1>5. CASE Interrupted
  <2>1. /\ arm' \in Arms
        /\ arm'.lifecycle = "enabled" /\ arm'.frame \in Driven => ~sample.finite
    BY <1>1, <1>5, SafeStopsStop DEF Interrupted
  <2>2. phase' = "raised" /\ UNCHANGED <<call, leg, sample, move>>
    BY <1>5 DEF Interrupted
  <2>3. QED
    BY <1>1, <2>1, <2>2 DEF IInv, TypeOK, LoopInv, StopInv, StoppedWhereItIs,
         SettledOnFreshFeedback, Ended, Driven
<1>6. QED
  BY <1>2, <1>3, <1>4, <1>5, ConsiderStep, SendStep, WatchStep DEF Next

-----------------------------------------------------------------------------
(* The theorems. *)

THEOREM Invariance == Spec => []IInv
  BY InitInv, InvStep, PTL DEF Spec

\* Every variable keeps its type: a leg that exists, a result the code can report.
THEOREM TypeCorrect == Spec => []TypeOK
<1>1. IInv => TypeOK
  BY DEF IInv
<1>2. QED
  BY Invariance, <1>1, PTL

\* However a call ends, no motion target is left in force while there is a pose to hold.
THEOREM CallStops == Spec => []StoppedWhereItIs
<1>1. IInv => StoppedWhereItIs
  BY DEF IInv
<1>2. QED
  BY Invariance, <1>1, PTL

\* A leg that settled did so on feedback from inside its settle window.
THEOREM SettlesOnFreshFeedback == Spec => []SettledOnFreshFeedback
<1>1. IInv => SettledOnFreshFeedback
  BY DEF IInv
<1>2. QED
  BY Invariance, <1>1, PTL

\* No motion frame on stale feedback, or to an arm long away from its path.
THEOREM NeverBlind == Spec => FramesNeedFeedback
<1>1. IInv /\ [Next]_vars =>
        [phase = "send" /\ arm' # arm /\ arm'.frame = "motion" =>
            /\ arm.lifecycle = "enabled"
            /\ move.now - move.changed <= StaleTime
            /\ move.deviating # Never =>
                 move.now - move.deviating < TrackingGrace + LongestTick]_vars
  BY DEF IInv, LoopInv
<1>2. QED
  BY Invariance, <1>1, PTL DEF Spec, FramesNeedFeedback

\* A leg is done when its joint was measured at its target.
THEOREM MeasuresLegs == Spec => LegsAreMeasured
<1>1. [Next]_vars =>
        [~call.dry /\ (leg' # leg \/ phase' = "reached") => Within(sample')]_vars
  <2> SUFFICES ASSUME Next, ~call.dry, leg' # leg \/ phase' = "reached"
               PROVE  Within(sample') \/ UNCHANGED vars
    OBVIOUS
  <2>1. Consider \/ Watch
    BY DEF Next, Refuse, OutOfLimits, Cancelled, TimedOut, Send, Interrupted, Fail
  <2>2. CASE Consider
    BY <2>2 DEF Consider, Fail, Depart
  <2>3. CASE Watch
    BY <2>3 DEF Watch, Fail, Settled, Since
  <2>4. QED
    BY <2>1, <2>2, <2>3
<1>2. QED
  BY <1>1, PTL DEF Spec, LegsAreMeasured

-----------------------------------------------------------------------------
(* Where a leg begins. *)

\* Without an encoder that is a turn off, what was measured is a pose of the joint, and a
\* path that has not begun begins next to it.
OriginInv ==
    /\ arm.turns = 0 /\ arm.offset = 0 /\ arm.pose \in Poses /\ sample.at \in Poses
    /\ phase = "send" /\ move.now = 0 =>
         move.start \in Poses /\ Abs(move.start - sample.at) <= Drift

\* Every read of an arm whose encoder is right shows a pose, or repeats the last one.
LEMMA ReadsPoses ==
    ASSUME TypeOK, OriginInv, NEW p \in Near(arm), NEW news \in News(arm)
    PROVE  LET a == AfterRead(arm, p, news)
               s == Read(a, sample, news)
           IN  /\ a.turns = 0 /\ a.offset = 0 /\ a.pose = p /\ p \in Poses /\ s.at \in Poses
               /\ news \in {"fresh", "bits"} => s.at = p
               /\ news \notin {"fresh", "bits", "cached"} => ~s.finite
<1> DEFINE a == AfterRead(arm, p, news)
           s == Read(a, sample, news)
<1>1. a.turns = 0 /\ a.offset = 0 /\ a.pose = p /\ p \in Poses
  BY DEF AfterRead, Near, OriginInv, TypeOK, Arms, Lifecycles
<1>2. Shown(a) = p
  <2>1. p \in Int /\ p + Turn * 0 + 0 = p
    BY <1>1, MotionAssumption DEF Poses
  <2> HIDE DEF a
  <2>2. QED
    BY <1>1, <2>1 DEF Shown
<1> HIDE DEF a
<1>3. /\ s.at \in Poses
      /\ news \in {"fresh", "bits"} => s.at = p
      /\ news \notin {"fresh", "bits", "cached"} => ~s.finite
  BY <1>1, <1>2 DEF Read, OriginInv, TypeOK, Samples
<1>4. QED
  BY <1>1, <1>3 DEF a

\* A stop commands the arm and does not move it.
LEMMA StopsStay ==
    ASSUME NEW a \in Arms, NEW s \in Samples, NEW b \in SafeStops(a, s) \cup Holds(a, s)
    PROVE  b.turns = a.turns /\ b.pose = a.pose /\ b.offset = a.offset
<1>1. CASE b \in Holds(a, s)
  BY <1>1 DEF Holds, Arms, Lifecycles
<1>2. CASE b \in SafeStops(a, s)
  BY <1>1, <1>2 DEF SafeStops, Limp, Arms, Lifecycles
<1>3. QED
  BY <1>1, <1>2

LEMMA OriginInit == Turns = {0} /\ Init => OriginInv
<1> SUFFICES ASSUME Turns = {0}, Init PROVE OriginInv
  OBVIOUS
<1>1. PICK l \in Lifecycles, p \in Poses, n \in Turns, k \in {-Turn, 0, Turn}, c \in BOOLEAN :
        \E g \in {p + Turn * n + k, Clipped(p + Turn * n + k)} :
          /\ \/ \E q \in Poses : k \in Offsets(q + Turn * n)
             \/ l \in {"disconnected", "connected"} /\ k = 0
          /\ arm = [lifecycle |-> l, frame |-> IF l \in Torque THEN "hold" ELSE "none",
                    goal |-> g, pose |-> p, turns |-> n, offset |-> k, caches |-> c]
  BY DEF Init
<1>2. n = 0 /\ \A q \in Poses : q + Turn * n = q
  BY PosesAreIntegers, MotionAssumption
<1>3. k = 0
  BY <1>1, <1>2 DEF Offsets
<1>4. arm.turns = 0 /\ arm.offset = 0 /\ arm.pose = p
  BY <1>1, <1>2, <1>3
<1>5. Shown(arm) = p
  BY <1>2, <1>4, PosesAreIntegers DEF Shown
<1>6. QED
  BY <1>4, <1>5 DEF Init, OriginInv

LEMMA OriginStep == IInv /\ OriginInv /\ [Next]_vars => OriginInv'
<1> SUFFICES ASSUME IInv, OriginInv, [Next]_vars PROVE OriginInv'
  OBVIOUS
<1>0. TypeOK /\ arm \in Arms /\ sample \in Samples /\ move \in Moves
  BY DEF IInv, TypeOK
<1>1. ASSUME NEW a \in Arms, NEW s \in Samples, a.turns = 0, a.offset = 0, a.pose \in Poses,
             s.at \in Poses, Fail(a, s)
      PROVE  OriginInv'
  <2>1. arm'.turns = a.turns /\ arm'.offset = a.offset /\ arm'.pose = a.pose /\ sample' = s /\ phase' = "failed"
    BY <1>1, StopsStay DEF Fail
  <2>2. QED
    BY <1>1, <2>1 DEF OriginInv
<1>2. CASE UNCHANGED vars
  BY <1>2 DEF vars, OriginInv
<1>3. CASE OutOfLimits \/ Cancelled \/ TimedOut
  BY <1>0, <1>1, <1>3 DEF OutOfLimits, Cancelled, TimedOut, OriginInv
<1>4. CASE Refuse
  BY <1>4 DEF Refuse, OriginInv
<1>5. CASE Interrupted
  <2>1. arm'.turns = arm.turns /\ arm'.offset = arm.offset /\ arm'.pose = arm.pose
    BY <1>0, <1>5, StopsStay DEF Interrupted
  <2>2. QED
    BY <1>5, <2>1 DEF Interrupted, OriginInv
<1>6. CASE Send
  <2> DEFINE command == Clipped(PathAt(move.start, move.now))
             torn == [arm EXCEPT !.frame = "part motion", !.goal = command]
  <2>1. CASE /\ arm' = [arm EXCEPT !.frame = "motion", !.goal = command]
             /\ phase' = "watch" /\ UNCHANGED <<call, leg, sample>>
    BY <1>0, <2>1 DEF OriginInv, Arms, Lifecycles
  <2>2. CASE Fail(torn, sample)
    <3>1. command \in Int
      <4>1. Target \in Int
        BY RoutesType DEF IInv, TypeOK, Target
      <4>2. Speed * move.now \in Int /\ move.start \in Int
        BY <1>0, MotionAssumption DEF Moves
      <4>3. PathAt(move.start, move.now) \in Int
        BY <4>1, <4>2 DEF PathAt
      <4>4. QED
        BY <4>3, ClippedType
    <3>2. torn \in Arms /\ torn.turns = 0 /\ torn.offset = 0 /\ torn.pose \in Poses
      BY <1>0, <3>1 DEF OriginInv, Arms, Lifecycles
    <3>3. QED
      BY <1>0, <1>1, <2>2, <3>2 DEF OriginInv
  <2>3. QED
    BY <1>6, <2>1, <2>2 DEF Send
<1>7. CASE Consider
  <2> PICK p \in Near(arm), news \in News(arm) :
        LET a == AfterRead(arm, p, news)
            s == Read(a, sample, news)
        IN  \/ Unfit(a, s) /\ Fail(a, s) /\ UNCHANGED move
            \/ /\ ~Unfit(a, s)
               /\ call.dry \/ Within(s)
               /\ LegDone
               /\ arm' = a /\ sample' = s /\ UNCHANGED move
            \/ ~Unfit(a, s) /\ ~call.dry /\ ~Within(s) /\ Depart(a, s)
    BY <1>7 DEF Consider
  <2> DEFINE a == AfterRead(arm, p, news)
             s == Read(a, sample, news)
  <2>1. /\ a \in Arms /\ s \in Samples /\ a.turns = 0 /\ a.offset = 0 /\ a.pose = p
        /\ p \in Poses
        /\ s.at \in Poses
        /\ news \in {"fresh", "bits"} => s.at = p
        /\ news \notin {"fresh", "bits", "cached"} => ~s.finite
    BY <1>0, ReadTypes, ReadsPoses
  <2>2. news = "cached" => a.lifecycle = "enabled"
    BY <1>0 DEF News, AfterRead, Arms, Lifecycles
  <2> HIDE DEF a, s
  <2>3. CASE Fail(a, s)
    BY <1>1, <2>1, <2>3
  <2>4. CASE LegDone /\ arm' = a /\ sample' = s
    BY <2>1, <2>4 DEF LegDone, OriginInv
  <2>5. CASE ~Unfit(a, s) /\ Depart(a, s)
    <3>1. phase' = "send" /\ move'.start = s.at
      BY <2>5 DEF Depart, Origin, NoMove
    <3>2. s.at \in Int /\ p \in Int /\ Drift \in Nat
      BY <2>1, MotionAssumption DEF Poses
    <3>3. CASE arm' = a /\ sample' = s
      BY <2>1, <3>1, <3>2, <3>3 DEF OriginInv, Abs
    <3>4. ASSUME NEW q \in Near(a), NEW k \in Offsets(q + Turn * a.turns),
                 a.lifecycle = "connected", arm' = Enabled(a, q, k),
                 sample' = [finite |-> TRUE, at |-> arm'.goal]
          PROVE  OriginInv'
      <4>1. s.at = p
        BY <2>1, <2>2, <2>5, <3>4 DEF Unfit
      <4>2. q \in Poses /\ q \in Int /\ Abs(q - p) <= Drift
        BY <2>1, MotionAssumption DEF Near, Poses
      <4>3. Abs(p - q) <= Drift
        BY <3>2, <4>2 DEF Abs
      <4>4. q + Turn * a.turns = q
        BY <2>1, <4>2, MotionAssumption
      <4>5. k = 0
        BY <4>2, <4>4 DEF Offsets
      <4>6. /\ arm'.turns = a.turns /\ arm'.offset = k /\ arm'.pose = q
            /\ arm'.goal = q + Turn * a.turns + k /\ sample'.at = arm'.goal
        BY <2>1, <3>4 DEF Enabled, Arms, Lifecycles
      <4>7. q + Turn * a.turns + k = q
        BY <4>2, <4>4, <4>5
      <4>8. QED
        BY <2>1, <3>1, <4>1, <4>2, <4>3, <4>5, <4>6, <4>7 DEF OriginInv
    <3>5. QED
      BY <2>5, <3>3, <3>4 DEF Depart
  <2>6. QED
    BY <2>3, <2>4, <2>5 DEF a, s
<1>8. CASE Watch
  <2>1. PICK p \in Near(arm), tick \in 1..LongestTick, heard \in BOOLEAN, news \in News(arm) :
          LET a == AfterRead(arm, p, news)
              s == Read(a, sample, news)
              t == move.now + tick
              m == [move EXCEPT !.changed = Changed(t, heard),
                                !.deviating = Deviating(s), !.settled = Settled(s)]
              fault == news \in {"fault", "bits"}
              stale == ~heard /\ Stale(t, m)
              settled == m.settled # Never /\ move.now - m.settled >= SettleTime
          IN  /\ news \in {"fresh", "bits"} => heard
              /\ \/ (fault \/ stale \/ Lost(m)) /\ Fail(a, s) /\ move' = m
                 \/ /\ ~fault /\ ~stale /\ ~Lost(m) /\ settled
                    /\ arm' \in Holds(a, s) /\ sample' = s /\ move' = m /\ LegDone
                 \/ /\ ~fault /\ ~stale /\ ~Lost(m) /\ ~settled
                    /\ phase' = "send"
                    /\ arm' = a /\ sample' = s /\ move' = Ticked(m, t)
                    /\ UNCHANGED <<call, leg>>
    BY <1>8 DEF Watch
  <2> DEFINE a == AfterRead(arm, p, news)
             s == Read(a, sample, news)
             t == move.now + tick
             m == [move EXCEPT !.changed = Changed(t, heard),
                               !.deviating = Deviating(s), !.settled = Settled(s)]
  <2>2. a \in Arms /\ s \in Samples /\ a.turns = 0 /\ a.offset = 0 /\ a.pose \in Poses /\ s.at \in Poses
    BY <1>0, ReadTypes, ReadsPoses
  <2> HIDE DEF a, s
  <2>3. CASE Fail(a, s)
    BY <1>1, <2>2, <2>3
  <2>4. CASE arm' \in Holds(a, s) /\ sample' = s /\ LegDone
    BY <2>2, <2>4, StopsStay DEF LegDone, OriginInv
  <2>5. CASE arm' = a /\ sample' = s /\ move' = Ticked(m, t)
    <3>1. phase = "watch" /\ move'.now = move.now + tick
      BY <1>0, <1>8, <2>5 DEF Watch, Ticked, Moves
    <3>2. move'.now # 0
      <4>1. move.now \in Int /\ move.now >= 0 /\ tick \in Nat \ {0}
        BY <1>0, <3>1, MotionAssumption DEF IInv, LoopInv, Moves
      <4>2. QED
        BY <3>1, <4>1
    <3>3. QED
      BY <2>2, <2>5, <3>2 DEF OriginInv
  <2>6. QED
    BY <2>1, <2>3, <2>4, <2>5 DEF a, s
<1>9. QED
  BY <1>2, <1>3, <1>4, <1>5, <1>6, <1>7, <1>8 DEF Next

\* Where no encoder is a turn off, the first frame of a leg asks for the pose that was
\* measured, or for the limit next to it, whatever the arm was commanded before
\* (MotionController._execute(), send_targets()).
THEOREM LegsBeginNear == ASSUME Turns = {0} PROVE Spec => FirstFrameIsNear
<1>1. IInv /\ OriginInv /\ [Next]_vars =>
        [phase = "send" /\ move.now = 0 /\ phase' = "watch"
           => Abs(arm'.goal - Clipped(sample.at)) <= Drift]_vars
  <2> SUFFICES ASSUME IInv, OriginInv, Next, phase = "send", move.now = 0, phase' = "watch"
               PROVE  Abs(arm'.goal - Clipped(sample.at)) <= Drift
    OBVIOUS
  <2>1. Send /\ arm'.goal = Clipped(PathAt(move.start, move.now))
    BY DEF Next, Refuse, OutOfLimits, Consider, Cancelled, TimedOut, Watch, Interrupted, Fail,
           Send, IInv, TypeOK, Arms
  <2>2. /\ move.start \in Int /\ sample.at \in Int
        /\ Abs(move.start - sample.at) <= Drift
    BY PosesAreIntegers DEF OriginInv
  <2>3. PathAt(move.start, 0) = move.start
    <3>1. Target \in Int
      BY RoutesType DEF IInv, TypeOK, Target
    <3>2. Speed * 0 = 0
      BY MotionAssumption
    <3>3. QED
      BY <2>2, <3>1, <3>2 DEF PathAt, Arrives, Abs
  <2>4. Abs(Clipped(move.start) - Clipped(sample.at)) <= Drift
    BY <2>2, ClippedNear, MotionAssumption
  <2>5. QED
    BY <2>1, <2>2, <2>3, <2>4
<1>2. QED
  BY <1>1, OriginInit, OriginStep, Invariance, PTL DEF Spec, FirstFrameIsNear
=============================================================================
