-------------------------- MODULE PolicyRolloutProofs --------------------------
(***************************************************************************)
(* For every period, budget and number of rollouts: a policy keeps its     *)
(* pace and its budgets, leaves the arm held, and an episode is one        *)
(* rollout.  The invariant ties the actions the motors got to the clock,   *)
(* to the deadline and to the open episode, phase by phase.                *)
(***************************************************************************)
EXTENDS PolicyRollout, TLAPS

Lifecycles == {"connected", "enabled", "fault"}
ArmFrames == {"none", "hold", "part hold", "motion", "part motion"}
Kindred == [controller: Kinds, recorder: Recorders]
Clocks == [now: Nat, due: Nat \cup {Never}]
Sends == [began: Nat, at: Nat]
Episodes == [open: BOOLEAN, frames: Nat]
Hows == {"not yet", "refused", "raised", "aborted"} \cup Terminations
Endings == [how: Hows, frames: Nat]

LEMMA StateTypes ==
    ASSUME TypeOK
    PROVE  /\ kind \in Kindred /\ phase \in {"idle", "rollout", "sent", "seeded"}
           /\ arm \in Arms /\ clock \in Clocks /\ sent \in Seq(Sends)
           /\ episode \in Episodes /\ ended \in Endings /\ rollouts \in 0..Rollouts
  BY DEF TypeOK, Kindred, Clocks, Sends, Episodes, Endings, Hows

LEMMA TypesState ==
    ASSUME kind' \in Kindred, phase' \in {"idle", "rollout", "sent", "seeded"},
           arm' \in Arms, clock' \in Clocks, sent' \in Seq(Sends),
           episode' \in Episodes, ended' \in Endings, rollouts' \in 0..Rollouts
    PROVE  TypeOK'
  BY DEF TypeOK, Kindred, Clocks, Sends, Episodes, Endings, Hows

LEMMA SendTypes ==
    ASSUME NEW s \in Seq(Sends)
    PROVE  /\ Len(s) \in Nat
           /\ DOMAIN s = 1..Len(s)
           /\ (s = << >>) <=> (Len(s) = 0)
           /\ \A k \in 1..Len(s) : s[k].began \in Nat /\ s[k].at \in Nat
<1>1. \A k \in 1..Len(s) : s[k] \in Sends
  OBVIOUS
<1>2. ASSUME NEW e \in Sends
      PROVE  e.began \in Nat /\ e.at \in Nat
  BY DEF Sends
<1>3. \A k \in 1..Len(s) : s[k].began \in Nat /\ s[k].at \in Nat
  BY <1>1, <1>2, Zenon
<1>4. Len(s) \in Nat /\ DOMAIN s = 1..Len(s) /\ ((s = << >>) <=> (Len(s) = 0))
  OBVIOUS
<1>5. QED BY <1>3, <1>4

LEMMA AppendFacts ==
    ASSUME NEW s \in Seq(Sends), NEW b \in Nat, NEW t \in Nat
    PROVE  LET e == [began |-> b, at |-> t]
               q == Append(s, e)
           IN /\ q \in Seq(Sends)
              /\ q # << >>
              /\ Len(q) = Len(s) + 1
              /\ \A k \in 1..Len(s) : q[k] = s[k]
              /\ q[Len(s) + 1].began = b
              /\ q[Len(s) + 1].at = t
<1> DEFINE e == [began |-> b, at |-> t]
           q == Append(s, e)
<1>1. e \in Sends /\ e.began = b /\ e.at = t
  BY DEF Sends
<1> HIDE DEF e
<1>2. /\ q \in Seq(Sends)
      /\ Len(q) = Len(s) + 1
      /\ \A k \in 1..Len(s) : q[k] = s[k]
      /\ q[Len(s) + 1] = e
  BY <1>1
<1>3. q # << >>
  BY <1>2
<1>4. QED BY <1>1, <1>2, <1>3 DEF e

-----------------------------------------------------------------------------
(* The arm. *)

\* No action in force on an arm with torque whose pose is known.
Rested(a) == a.lifecycle = "enabled" /\ a.finite => a.frame \notin {"motion", "part motion"}

LEMMA LooksType ==
    ASSUME NEW r \in Arms, NEW a \in Looks(r)
    PROVE  a \in Arms
<1>1. r.lifecycle \in Lifecycles /\ r.frame \in ArmFrames
  BY DEF Arms, Lifecycles, ArmFrames
<1>2. QED BY <1>1 DEF Looks, Arms, Lifecycles, ArmFrames

LEMMA FrameSet ==
    ASSUME NEW a \in Arms, NEW f \in ArmFrames
    PROVE  [a EXCEPT !.frame = f] \in Arms /\ [a EXCEPT !.frame = f].frame = f
<1>1. [a EXCEPT !.frame = f] \in Arms
  BY DEF Arms, ArmFrames
<1>2. [a EXCEPT !.frame = f].frame = f
  BY DEF Arms
<1>3. QED BY <1>1, <1>2

LEMMA SafeStopsRest ==
    ASSUME NEW a \in Arms, NEW failed, NEW x \in SafeStops(a, failed)
    PROVE  x \in Arms /\ Rested(x)
<1>1. CASE x = [a EXCEPT !.lifecycle = "connected"]
  <2>1. x \in Arms
    BY <1>1 DEF Arms
  <2>2. x.lifecycle = "connected"
    BY <1>1 DEF Arms
  <2>3. QED BY <2>1, <2>2 DEF Rested
<1>2. CASE x \in Held(a)
  <2>1. CASE a.lifecycle = "enabled" /\ a.finite
    <3>1. PICK f \in {"hold", "part hold"} : x = [a EXCEPT !.frame = f]
      BY <1>2, <2>1, Zenon DEF Held
    <3>2. f \in ArmFrames
      BY DEF ArmFrames
    <3>3. x \in Arms /\ x.frame = f
      BY <3>1, <3>2, FrameSet
    <3>4. QED BY <3>3 DEF Rested
  <2>2. CASE ~(a.lifecycle = "enabled" /\ a.finite)
    BY <1>2, <2>2, Zenon DEF Held, Rested
  <2>3. QED BY <2>1, <2>2
<1>3. QED
  BY <1>1, <1>2, Zenon DEF SafeStops

-----------------------------------------------------------------------------
(* The invariant. *)

Times(k) == k * Period

\* A runner is never ahead of its schedule; a session knows when its last action went out.
Schedule ==
    /\ phase \in {"rollout", "sent"} => Runs /\ ended.how = "not yet"
    /\ phase = "seeded" => ~Runs
    /\ phase = "rollout" => clock.now >= Times(Len(sent))
    /\ phase = "sent" => sent # << >>
    /\ phase = "seeded" /\ sent # << >> => clock.due = sent[Len(sent)].at + Period
    /\ \A k \in 1..Len(sent) :
          /\ Runs => sent[k].began >= Times(k - 1)
          /\ ~Runs /\ k > 1 => sent[k].began >= sent[k - 1].at + Period

\* The budgets of a run are what its actions were charged to.
Budgets ==
    Runs =>
        /\ Len(sent) <= MaxSteps
        /\ \A k \in 1..Len(sent) : sent[k].began < MaxDuration
        /\ ended.how = "max_steps" => Len(sent) = MaxSteps
        /\ ended.how = "max_duration" => clock.now >= MaxDuration

\* The open episode has a frame for each action, the one that just went out excepted.
Episode ==
    kind.recorder = "memory" =>
        /\ phase = "rollout" => episode.frames = Len(sent)
        /\ phase = "sent" => episode.frames + 1 = Len(sent)
        /\ Runs /\ ended.how \in Terminations => ended.frames = Len(sent)

IInv == TypeOK /\ Schedule /\ Budgets /\ Episode /\ RunEndsHeld

-----------------------------------------------------------------------------
(* How a rollout ends. *)

LEMMA EpisodeSet ==
    ASSUME NEW e \in Episodes
    PROVE  /\ e.frames \in Nat
           /\ Started(e) \in Episodes
           /\ kind.recorder = "memory" => Started(e).frames = 0
           /\ Finished(e) \in Episodes
           /\ Abandoned(e) \in Episodes
<1>1. e.frames \in Nat
  BY DEF Episodes
<1>2. ASSUME NEW b \in BOOLEAN, NEW n \in Nat
      PROVE  [open |-> b, frames |-> n] \in Episodes /\ [open |-> b, frames |-> n].frames = n
  BY DEF Episodes
<1>3. Started(e) \in Episodes /\ (kind.recorder = "memory" => Started(e).frames = 0)
  BY <1>1, <1>2 DEF Started
<1>4. Finished(e) \in Episodes /\ Abandoned(e) \in Episodes
  BY <1>1, <1>2 DEF Finished, Abandoned
<1>5. QED BY <1>1, <1>3, <1>4

LEMMA OneMoreFrame ==
    ASSUME NEW e \in Episodes
    PROVE  /\ [e EXCEPT !.frames = @ + 1] \in Episodes
           /\ [e EXCEPT !.frames = @ + 1].frames = e.frames + 1
<1> DEFINE n == e.frames + 1
<1>1. n \in Nat
  BY DEF Episodes
<1>2. [e EXCEPT !.frames = @ + 1] = [e EXCEPT !.frames = n]
  OBVIOUS
<1> HIDE DEF n
<1>3. [e EXCEPT !.frames = n] \in Episodes /\ [e EXCEPT !.frames = n].frames = n
  BY <1>1 DEF Episodes
<1>4. QED BY <1>2, <1>3 DEF n

LEMMA EndingSet ==
    ASSUME NEW how \in Hows, NEW n \in Nat
    PROVE  /\ [how |-> how, frames |-> n] \in Endings
           /\ [how |-> how, frames |-> n].how = how
           /\ [how |-> how, frames |-> n].frames = n
  BY DEF Endings

LEMMA ReturnsOutcome ==
    ASSUME NEW a \in Arms, NEW e \in Episodes, NEW how \in Terminations, Returns(a, e, how)
    PROVE  /\ phase' = "idle" /\ arm' \in Arms /\ Rested(arm')
           /\ episode' \in Episodes
           /\ ended' \in Endings /\ ended'.how = how /\ ended'.frames = e.frames
<1>1. arm' \in Arms /\ Rested(arm')
  BY SafeStopsRest DEF Returns
<1>2. episode' \in Episodes
  BY EpisodeSet DEF Returns
<1>3. ended' \in Endings /\ ended'.how = how /\ ended'.frames = e.frames
  BY EpisodeSet, EndingSet DEF Returns, Hows
<1>4. QED BY <1>1, <1>2, <1>3 DEF Returns

LEMMA RaisesOutcome ==
    ASSUME arm \in Arms, episode \in Episodes, Raises
    PROVE  /\ phase' = "idle" /\ arm' \in Arms /\ Rested(arm')
           /\ episode' \in Episodes
           /\ ended' \in Endings /\ ended'.how = "aborted"
<1>1. arm' \in Arms /\ Rested(arm')
  BY SafeStopsRest DEF Raises
<1>2. episode' \in Episodes
  BY EpisodeSet DEF Raises
<1>3. ended' \in Endings /\ ended'.how = "aborted"
  BY EndingSet DEF Raises, Hows
<1>4. QED BY <1>1, <1>2, <1>3 DEF Raises

\* What a way back to "idle" has to keep.
LEMMA IdleKeeps ==
    ASSUME IInv, kind' = kind, sent' = sent, phase' = "idle",
           arm' \in Arms, clock' \in Clocks, episode' \in Episodes, ended' \in Endings,
           rollouts' \in 0..Rollouts,
           Runs /\ ended'.how \in Terminations \cup {"aborted"} => Rested(arm'),
           Runs /\ ended'.how = "max_steps" => Len(sent) = MaxSteps,
           Runs /\ ended'.how = "max_duration" => clock'.now >= MaxDuration,
           Runs /\ kind.recorder = "memory" /\ ended'.how \in Terminations =>
               ended'.frames = Len(sent)
    PROVE  IInv'
<1>1. TypeOK'
  BY StateTypes, TypesState DEF IInv
<1>2. Schedule'
  BY DEF IInv, Schedule, Runs, Times
<1>3. Budgets'
  BY DEF IInv, Budgets, Runs
<1>4. Episode'
  BY DEF IInv, Episode, Runs
<1>5. RunEndsHeld'
  BY DEF RunEndsHeld, Rested, Runs
<1>6. QED BY <1>1, <1>2, <1>3, <1>4, <1>5 DEF IInv

-----------------------------------------------------------------------------
(* The steps. *)

LEMMA InitKeeps == Init => IInv
<1> SUFFICES ASSUME Init PROVE IInv
  OBVIOUS
<1>1. /\ kind \in Kindred /\ phase = "idle" /\ sent = << >> /\ rollouts = 0
  BY DEF Init, Kindred
<1>2. arm \in Arms /\ clock \in Clocks /\ episode \in Episodes
  BY DEF Init, Arms, Clocks, Episodes
<1>3. ended \in Endings /\ ended.how = "not yet"
  BY EndingSet DEF Init, Hows
<1>4. sent \in Seq(Sends) /\ Len(sent) = 0 /\ 1..Len(sent) = {}
  BY <1>1
<1>5. Rollouts \in Nat /\ MaxSteps \in Nat
  BY RolloutAssumption
<1>6. TypeOK
  <2>1. rollouts \in 0..Rollouts
    BY <1>1, <1>5
  <2>2. QED
    BY <1>1, <1>2, <1>3, <1>4, <2>1 DEF TypeOK, Kindred, Clocks, Sends, Episodes, Endings, Hows
<1>7. Schedule
  BY <1>1, <1>4 DEF Schedule
<1>8. Budgets /\ Episode /\ RunEndsHeld
  <2>1. Budgets
    <3>1. Len(sent) <= MaxSteps /\ \A k \in 1..Len(sent) : sent[k].began < MaxDuration
      BY <1>4, <1>5
    <3>2. ended.how # "max_steps" /\ ended.how # "max_duration"
      BY <1>3
    <3>3. QED BY <3>1, <3>2, Zenon DEF Budgets
  <2>2. Episode
    BY <1>1, <1>3 DEF Episode, Terminations
  <2>3. RunEndsHeld
    BY <1>3 DEF RunEndsHeld, Terminations
  <2>4. QED BY <2>1, <2>2, <2>3
<1>9. QED BY <1>6, <1>7, <1>8 DEF IInv

LEMMA RefuseKeeps ==
    ASSUME IInv, Refuse
    PROVE  IInv'
<1>1. arm \in Arms /\ clock \in Clocks /\ episode \in Episodes /\ rollouts \in 0..Rollouts
  BY StateTypes DEF IInv
<1>2. arm' \in Arms
  BY <1>1, LooksType DEF Refuse
<1>3. ended' \in Endings /\ ended'.how = "refused"
  BY EndingSet DEF Refuse, Hows
<1>4. /\ UNCHANGED <<kind, phase, clock, sent, episode>> /\ phase = "idle"
      /\ rollouts < Rollouts /\ rollouts' = rollouts + 1
  BY DEF Refuse
<1>5. rollouts' \in 0..Rollouts
  BY <1>1, <1>4, RolloutAssumption
<1>6. QED BY <1>1, <1>2, <1>3, <1>4, <1>5, IdleKeeps DEF Terminations

LEMMA BeginKeeps ==
    ASSUME IInv, Begin
    PROVE  IInv'
<1> DEFINE Up == [lifecycle |-> "enabled", frame |-> "hold", finite |-> TRUE]
<1>1. /\ kind \in Kindred /\ arm \in Arms /\ clock \in Clocks /\ episode \in Episodes
      /\ rollouts \in 0..Rollouts /\ sent \in Seq(Sends)
  BY StateTypes DEF IInv
<1>2. kind' = kind /\ phase = "idle" /\ rollouts < Rollouts /\ rollouts' = rollouts + 1
  BY DEF Begin
<1>3. rollouts' \in 0..Rollouts
  BY <1>1, <1>2, RolloutAssumption
<1>4. Up \in Arms
  BY DEF Arms
<1>5. PICK a \in Looks(arm) :
        \/ /\ phase' = IF Runs THEN "rollout" ELSE "seeded"
           /\ arm' = IF a.lifecycle = "connected" THEN Up ELSE a
           /\ \E took \in 0..LongestStep :
               clock' = [now |-> IF Runs THEN took ELSE 0, due |-> Never]
           /\ sent' = << >>
           /\ episode' = IF Runs THEN Started(episode) ELSE episode
           /\ ended' = [how |-> "not yet", frames |-> 0]
        \/ /\ arm' \in {a, Up, [a EXCEPT !.frame = IF @ = "none" THEN "part hold" ELSE @]}
           /\ ended' = [how |-> "raised", frames |-> 0]
           /\ UNCHANGED <<phase, clock, sent, episode>>
  BY Zenon DEF Begin
<1>6. a \in Arms
  BY <1>1, LooksType
<1>7. CASE /\ arm' \in {a, Up, [a EXCEPT !.frame = IF @ = "none" THEN "part hold" ELSE @]}
           /\ ended' = [how |-> "raised", frames |-> 0]
           /\ UNCHANGED <<phase, clock, sent, episode>>
  <2>1. [a EXCEPT !.frame = IF @ = "none" THEN "part hold" ELSE @] \in Arms
    BY <1>6 DEF Arms
  <2>2. arm' \in Arms
    BY <1>4, <1>6, <1>7, <2>1
  <2>3. ended' \in Endings /\ ended'.how = "raised"
    BY <1>7, EndingSet DEF Hows
  <2>4. QED BY <1>1, <1>2, <1>3, <1>7, <2>2, <2>3, IdleKeeps DEF Terminations
<1>8. CASE /\ phase' = IF Runs THEN "rollout" ELSE "seeded"
           /\ arm' = IF a.lifecycle = "connected" THEN Up ELSE a
           /\ \E took \in 0..LongestStep :
               clock' = [now |-> IF Runs THEN took ELSE 0, due |-> Never]
           /\ sent' = << >>
           /\ episode' = IF Runs THEN Started(episode) ELSE episode
           /\ ended' = [how |-> "not yet", frames |-> 0]
  <2>1. arm' \in Arms
    BY <1>4, <1>6, <1>8
  <2>2. ended' \in Endings /\ ended'.how = "not yet"
    BY <1>8, EndingSet DEF Hows
  <2>3. clock' \in Clocks /\ clock'.now \in Nat
    <3>1. PICK took \in 0..LongestStep :
             clock' = [now |-> IF Runs THEN took ELSE 0, due |-> Never]
      BY <1>8
    <3> DEFINE now == IF Runs THEN took ELSE 0
    <3>2. now \in Nat
      BY RolloutAssumption
    <3> HIDE DEF now
    <3>3. clock' = [now |-> now, due |-> Never]
      BY <3>1 DEF now
    <3>4. QED BY <3>2, <3>3 DEF Clocks
  <2>4. sent' \in Seq(Sends) /\ Len(sent') = 0 /\ 1..Len(sent') = {}
    <3>1. sent' = << >>
      BY <1>8
    <3>2. QED BY <3>1
  <2>5. episode' \in Episodes /\ (Runs /\ kind.recorder = "memory" => episode'.frames = 0)
    BY <1>1, <1>8, EpisodeSet
  <2>6. phase' \in {"rollout", "seeded"} /\ (phase' = "rollout" <=> Runs)
    BY <1>8
  <2>7. TypeOK'
    BY <1>1, <1>2, <1>3, <2>1, <2>2, <2>3, <2>4, <2>5, <2>6, TypesState
  <2>8. Schedule'
    <3>1. Times(0) = 0
      BY RolloutAssumption DEF Times
    <3>2. clock'.now >= Times(Len(sent'))
      BY <2>3, <2>4, <3>1
    <3>3. QED BY <1>2, <1>8, <2>2, <2>4, <2>6, <3>2 DEF Schedule, Runs, Times
  <2>9. Budgets' /\ Episode' /\ RunEndsHeld'
    <3>1. MaxSteps \in Nat
      BY RolloutAssumption
    <3>2. Budgets'
      <4>1. Len(sent') <= MaxSteps /\ \A k \in 1..Len(sent') : sent'[k].began < MaxDuration
        BY <2>4, <3>1
      <4>2. ended'.how # "max_steps" /\ ended'.how # "max_duration"
        BY <2>2
      <4>3. QED BY <4>1, <4>2, Zenon DEF Budgets
    <3>3. Episode'
      BY <1>2, <2>2, <2>4, <2>5, <2>6 DEF Episode, Runs, Terminations
    <3>4. RunEndsHeld'
      BY <2>6 DEF RunEndsHeld
    <3>5. QED BY <3>2, <3>3, <3>4
  <2>10. QED BY <2>7, <2>8, <2>9 DEF IInv
<1>9. QED BY <1>5, <1>7, <1>8

LEMMA InterruptKeeps ==
    ASSUME IInv, Interrupt
    PROVE  IInv'
<1>1. arm \in Arms /\ clock \in Clocks /\ episode \in Episodes /\ rollouts \in 0..Rollouts
  BY StateTypes DEF IInv
<1>2. Raises /\ UNCHANGED <<kind, clock, sent, rollouts>>
  BY DEF Interrupt
<1>3. QED BY <1>1, <1>2, RaisesOutcome, IdleKeeps DEF Terminations

LEMMA FinishKeeps ==
    ASSUME IInv, Finish
    PROVE  IInv'
<1>1. arm \in Arms /\ clock \in Clocks /\ episode \in Episodes /\ rollouts \in 0..Rollouts
      /\ sent \in Seq(Sends)
  BY StateTypes DEF IInv
<1>2. UNCHANGED <<kind, clock, sent, rollouts>> /\ phase = "rollout" /\ Runs
  BY DEF Finish, IInv, Schedule
<1>3. PICK how \in Terminations :
        /\ Returns(arm, episode, how)
        /\ how = "max_duration" => clock.now >= MaxDuration
        /\ how = "max_steps" => clock.now < MaxDuration /\ ~MayStep
  BY Zenon DEF Finish, Terminations
<1>4. /\ phase' = "idle" /\ arm' \in Arms /\ Rested(arm') /\ episode' \in Episodes
      /\ ended' \in Endings /\ ended'.how = how /\ ended'.frames = episode.frames
  BY <1>1, <1>3, ReturnsOutcome
<1>5. how = "max_steps" => Len(sent) = MaxSteps
  <2>1. Len(sent) \in Nat /\ MaxSteps \in Nat /\ Len(sent) <= MaxSteps
    BY <1>1, <1>2, SendTypes, RolloutAssumption DEF IInv, Budgets
  <2>2. QED BY <1>3, <2>1 DEF MayStep
<1>6. kind.recorder = "memory" => episode.frames = Len(sent)
  BY <1>2 DEF IInv, Episode
<1>7. QED BY <1>1, <1>2, <1>3, <1>4, <1>5, <1>6, IdleKeeps

LEMMA ActKeeps ==
    ASSUME IInv, Act
    PROVE  IInv'
<1> DEFINE len == Len(sent)
<1>1. /\ kind \in Kindred /\ arm \in Arms /\ clock \in Clocks /\ episode \in Episodes
      /\ ended \in Endings /\ rollouts \in 0..Rollouts /\ sent \in Seq(Sends)
  BY StateTypes DEF IInv
<1>2. /\ UNCHANGED <<kind, rollouts>> /\ phase = "rollout" /\ Runs /\ ended.how = "not yet"
      /\ clock.now < MaxDuration /\ len < MaxSteps
  BY DEF Act, MayStep, IInv, Schedule
<1>3. PICK a \in Looks(arm), took \in 0..LongestStep :
        \/ /\ a.lifecycle = "enabled"
           /\ phase' = "sent"
           /\ arm' = [a EXCEPT !.frame = "motion"]
           /\ sent' = Append(sent, [began |-> clock.now, at |-> clock.now + took])
           /\ clock' = [clock EXCEPT !.now = @ + took]
           /\ UNCHANGED <<episode, ended>>
        \/ /\ Returns(IF a.lifecycle = "enabled" THEN [a EXCEPT !.frame = "part motion"] ELSE a,
                      episode, "failed")
           /\ UNCHANGED <<clock, sent>>
  BY Zenon DEF Act
<1>4. a \in Arms
  BY <1>1, LooksType
<1>5. CASE /\ Returns(IF a.lifecycle = "enabled" THEN [a EXCEPT !.frame = "part motion"] ELSE a,
                      episode, "failed")
           /\ UNCHANGED <<clock, sent>>
  <2> DEFINE b == IF a.lifecycle = "enabled" THEN [a EXCEPT !.frame = "part motion"] ELSE a
  <2>1. b \in Arms
    <3>1. [a EXCEPT !.frame = "part motion"] \in Arms
      BY <1>4 DEF Arms
    <3>2. QED BY <1>4, <3>1
  <2>2. Returns(b, episode, "failed")
    BY <1>5
  <2> HIDE DEF b
  <2>3. "failed" \in Terminations
    BY DEF Terminations
  <2>4. /\ phase' = "idle" /\ arm' \in Arms /\ Rested(arm') /\ episode' \in Episodes
        /\ ended' \in Endings /\ ended'.how = "failed" /\ ended'.frames = episode.frames
    BY <1>1, <2>1, <2>2, <2>3, ReturnsOutcome
  <2>5. kind.recorder = "memory" => episode.frames = Len(sent)
    BY <1>2 DEF IInv, Episode
  <2>6. ended'.how # "max_steps" /\ ended'.how # "max_duration"
    BY <2>4
  <2>7. QED BY <1>1, <1>2, <1>5, <2>4, <2>5, <2>6, IdleKeeps
<1>6. CASE /\ a.lifecycle = "enabled"
           /\ phase' = "sent"
           /\ arm' = [a EXCEPT !.frame = "motion"]
           /\ sent' = Append(sent, [began |-> clock.now, at |-> clock.now + took])
           /\ clock' = [clock EXCEPT !.now = @ + took]
           /\ UNCHANGED <<episode, ended>>
  <2> DEFINE at == clock.now + took
  <2>1. clock.now \in Nat /\ took \in Nat /\ at \in Nat /\ at >= clock.now
    <3>1. clock.now \in Nat
      BY <1>1 DEF Clocks
    <3>2. QED BY <3>1, RolloutAssumption
  <2>2. /\ len \in Nat
        /\ sent' \in Seq(Sends) /\ sent' # << >> /\ Len(sent') = len + 1
        /\ \A k \in 1..len : sent'[k] = sent[k]
        /\ sent'[len + 1].began = clock.now
    <3>1. sent' = Append(sent, [began |-> clock.now, at |-> at])
      BY <1>6
    <3> HIDE DEF at
    <3>2. QED BY <1>1, <2>1, <3>1, AppendFacts, SendTypes
  <2>3. clock' \in Clocks
    <3>1. clock' = [clock EXCEPT !.now = at]
      BY <1>6
    <3> HIDE DEF at
    <3>2. QED BY <1>1, <2>1, <3>1 DEF Clocks
  <2>4. arm' \in Arms
    BY <1>4, <1>6 DEF Arms
  <2> HIDE DEF len, at
  <2>5. TypeOK'
    BY <1>1, <1>2, <1>6, <2>2, <2>3, <2>4, TypesState
  <2>6. Runs'
    BY <1>2 DEF Runs
  <2>7. Schedule'
    <3>1. clock.now >= Times(len)
      BY <1>2 DEF IInv, Schedule, len
    <3>2. ASSUME NEW k \in 1..Len(sent')
          PROVE  sent'[k].began >= Times(k - 1)
      <4>1. CASE k \in 1..len
        <5>1. sent[k].began >= Times(k - 1)
          BY <1>2, <4>1 DEF IInv, Schedule, len
        <5>2. QED BY <2>2, <4>1, <5>1
      <4>2. CASE k = len + 1
        <5>1. k - 1 = len
          BY <2>2, <4>2
        <5>2. QED BY <2>2, <3>1, <4>2, <5>1
      <4>3. QED BY <2>2, <4>1, <4>2
    <3>3. QED BY <1>2, <1>6, <2>2, <2>6, <3>2 DEF Schedule, Times
  <2>8. Budgets'
    <3>1. Len(sent') <= MaxSteps
      <4>1. MaxSteps \in Nat
        BY RolloutAssumption
      <4>2. len < MaxSteps
        BY <1>2
      <4>3. len \in Nat /\ Len(sent') = len + 1
        BY <2>2
      <4>4. QED BY <4>1, <4>2, <4>3
    <3>2. ASSUME NEW k \in 1..Len(sent')
          PROVE  sent'[k].began < MaxDuration
      <4>1. CASE k \in 1..len
        <5>1. sent[k].began < MaxDuration
          BY <1>2, <4>1 DEF IInv, Budgets, len
        <5>2. QED BY <2>2, <4>1, <5>1
      <4>2. CASE k = len + 1
        BY <1>2, <2>2, <4>2
      <4>3. QED BY <2>2, <4>1, <4>2
    <3>3. ended'.how # "max_steps" /\ ended'.how # "max_duration"
      BY <1>2, <1>6
    <3>4. QED BY <3>1, <3>2, <3>3, Zenon DEF Budgets
  <2>9. Episode'
    <3>1. kind.recorder = "memory" => episode.frames = len
      BY <1>2 DEF IInv, Episode, len
    <3>2. QED BY <1>2, <1>6, <2>2, <3>1 DEF Episode, Terminations
  <2>10. RunEndsHeld'
    BY <1>6 DEF RunEndsHeld
  <2>11. QED BY <2>5, <2>7, <2>8, <2>9, <2>10 DEF IInv
<1>7. QED BY <1>3, <1>5, <1>6

LEMMA PaceKeeps ==
    ASSUME IInv, Pace
    PROVE  IInv'
<1> DEFINE recorded == [episode EXCEPT !.frames = @ + 1]
           len == Len(sent)
<1>1. /\ kind \in Kindred /\ arm \in Arms /\ clock \in Clocks /\ episode \in Episodes
      /\ ended \in Endings /\ rollouts \in 0..Rollouts /\ sent \in Seq(Sends)
  BY StateTypes DEF IInv
<1>2. /\ UNCHANGED <<kind, sent, rollouts>> /\ phase = "sent" /\ Runs
      /\ ended.how = "not yet"
  BY DEF Pace, IInv, Schedule
<1>3. PICK a \in Looks(arm) :
        \/ /\ Returns(a, recorded, "failed")
           /\ UNCHANGED clock
        \/ /\ phase' = "rollout"
           /\ arm' = a
           /\ episode' = recorded
           /\ clock' = [clock EXCEPT !.now = AfterSleep]
           /\ UNCHANGED ended
  BY Zenon DEF Pace
<1>4. a \in Arms
  BY <1>1, LooksType
<1>5. recorded \in Episodes /\ (kind.recorder = "memory" => recorded.frames = len)
  <2>1. recorded \in Episodes /\ recorded.frames = episode.frames + 1
    BY <1>1, OneMoreFrame
  <2>2. kind.recorder = "memory" => episode.frames + 1 = len
    BY <1>2 DEF IInv, Episode
  <2>3. QED BY <2>1, <2>2
<1> HIDE DEF recorded
<1>6. CASE Returns(a, recorded, "failed") /\ UNCHANGED clock
  <2>1. "failed" \in Terminations
    BY DEF Terminations
  <2>2. /\ phase' = "idle" /\ arm' \in Arms /\ Rested(arm') /\ episode' \in Episodes
        /\ ended' \in Endings /\ ended'.how = "failed" /\ ended'.frames = recorded.frames
    BY <1>4, <1>5, <1>6, <2>1, ReturnsOutcome
  <2>3. ended'.how # "max_steps" /\ ended'.how # "max_duration"
    BY <2>2
  <2>4. QED BY <1>1, <1>2, <1>5, <1>6, <2>2, <2>3, IdleKeeps
<1>7. CASE /\ phase' = "rollout"
           /\ arm' = a
           /\ episode' = recorded
           /\ clock' = [clock EXCEPT !.now = AfterSleep]
           /\ UNCHANGED ended
  <2> DEFINE after == AfterSleep
  <2>1. after \in Nat /\ after >= Times(len)
    <3>1. clock.now \in Nat
      BY <1>1 DEF Clocks
    <3>2. len \in Nat
      BY <1>1, SendTypes
    <3>3. Deadline = Times(len)
      BY DEF Deadline, Times
    <3>4. Times(len) \in Nat
      BY <3>2, RolloutAssumption DEF Times
    <3>5. QED BY <3>1, <3>3, <3>4 DEF AfterSleep
  <2>2. clock' = [clock EXCEPT !.now = after]
    BY <1>7
  <2> HIDE DEF after, len
  <2>3. clock' \in Clocks /\ clock'.now = after
    BY <1>1, <2>1, <2>2 DEF Clocks
  <2>4. TypeOK'
    BY <1>1, <1>2, <1>4, <1>5, <1>7, <2>3, TypesState
  <2>5. Schedule'
    BY <1>2, <1>7, <2>1, <2>3 DEF IInv, Schedule, Runs, Times, len
  <2>6. Budgets'
    BY <1>2, <1>7 DEF IInv, Budgets, Runs
  <2>7. Episode'
    BY <1>2, <1>5, <1>7 DEF Episode, Terminations, len
  <2>8. RunEndsHeld'
    BY <1>7 DEF RunEndsHeld
  <2>9. QED BY <2>4, <2>5, <2>6, <2>7, <2>8 DEF IInv
<1>8. QED BY <1>3, <1>6, <1>7

LEMMA BreakKeeps ==
    ASSUME IInv, Break
    PROVE  IInv'
<1>1. /\ kind \in Kindred /\ arm \in Arms /\ clock \in Clocks /\ episode \in Episodes
      /\ ended \in Endings /\ rollouts \in 0..Rollouts /\ sent \in Seq(Sends)
  BY StateTypes DEF IInv
<1>2. /\ UNCHANGED <<kind, phase, arm, sent, episode, ended, rollouts>>
      /\ phase = "seeded" /\ ~Runs
  BY DEF Break, IInv, Schedule
<1>3. PICK took \in 1..LongestStep : clock' = [clock EXCEPT !.now = @ + took]
  BY DEF Break
<1> DEFINE now == clock.now + took
<1>4. now \in Nat
  <2>1. clock.now \in Nat
    BY <1>1 DEF Clocks
  <2>2. QED BY <2>1, RolloutAssumption
<1>5. clock' = [clock EXCEPT !.now = now]
  BY <1>3
<1> HIDE DEF now
<1>6. clock' \in Clocks /\ clock'.due = clock.due
  BY <1>1, <1>4, <1>5 DEF Clocks
<1>7. TypeOK'
  BY <1>1, <1>2, <1>6, StateTypes, TypesState
<1>8. Schedule'
  BY <1>2, <1>6 DEF IInv, Schedule, Runs, Times
<1>9. Budgets' /\ Episode' /\ RunEndsHeld'
  BY <1>2 DEF IInv, Budgets, Episode, RunEndsHeld, Runs
<1>10. QED BY <1>7, <1>8, <1>9 DEF IInv

LEMMA SessionStepKeeps ==
    ASSUME IInv, SessionStep
    PROVE  IInv'
<1> DEFINE len == Len(sent)
           began == IF clock.now < clock.due THEN clock.due ELSE clock.now
<1>1. /\ kind \in Kindred /\ arm \in Arms /\ clock \in Clocks /\ episode \in Episodes
      /\ ended \in Endings /\ rollouts \in 0..Rollouts /\ sent \in Seq(Sends)
  BY StateTypes DEF IInv
<1>2. UNCHANGED <<kind, episode, rollouts>> /\ phase = "seeded" /\ ~Runs
  BY DEF SessionStep, IInv, Schedule
<1>3. PICK a \in Looks(arm), took \in 0..LongestStep, after \in Looks(arm) :
        /\ sent' = Append(sent, [began |-> began, at |-> began + took])
        /\ clock' = [clock EXCEPT !.now = began + took, !.due = began + took + Period]
        /\ arm' = [after EXCEPT !.frame = "motion"]
        /\ phase' = IF after.lifecycle = "fault" THEN "idle" ELSE "seeded"
        /\ ended' = IF after.lifecycle = "fault" THEN [ended EXCEPT !.how = "failed"] ELSE ended
  BY Zenon DEF SessionStep
<1> DEFINE at == began + took
           due == at + Period
<1>4. /\ clock.now \in Nat /\ clock.due \in Nat \cup {Never}
  BY <1>1 DEF Clocks
<1>5. /\ began \in Nat /\ at \in Nat /\ due \in Nat
      /\ clock.due \in Nat => began >= clock.due
  BY <1>4, RolloutAssumption DEF Never
<1>6. /\ sent' = Append(sent, [began |-> began, at |-> at])
      /\ clock' = [clock EXCEPT !.now = at, !.due = due] /\ due = at + Period
  BY <1>3
<1> HIDE DEF began, at, due
<1>7. /\ len \in Nat
      /\ sent' \in Seq(Sends) /\ sent' # << >> /\ Len(sent') = len + 1
      /\ \A k \in 1..len : sent'[k] = sent[k]
      /\ sent'[len + 1].began = began /\ sent'[len + 1].at = at
  BY <1>1, <1>5, <1>6, AppendFacts, SendTypes
<1>8. clock' \in Clocks /\ clock'.due = due
  BY <1>1, <1>5, <1>6 DEF Clocks
<1>9. arm' \in Arms
  <2>1. after \in Arms
    BY <1>1, LooksType
  <2>2. QED BY <1>3, <2>1 DEF Arms
<1>10. ended' \in Endings
  <2>1. [ended EXCEPT !.how = "failed"] \in Endings
    BY <1>1 DEF Endings, Hows, Terminations
  <2>2. QED BY <1>1, <1>3, <2>1
<1>11. phase' \in {"idle", "seeded"}
  BY <1>3
<1>12. TypeOK'
  BY <1>1, <1>2, <1>7, <1>8, <1>9, <1>10, <1>11, TypesState
<1>13. ~Runs'
  BY <1>2 DEF Runs
<1> HIDE DEF len
<1>14. Schedule'
  <2>1. ASSUME NEW k \in 1..Len(sent'), k > 1
        PROVE  sent'[k].began >= sent'[k - 1].at + Period
    <3>1. CASE k \in 1..len
      <4>1. sent[k].began >= sent[k - 1].at + Period
        BY <1>2, <2>1, <3>1 DEF IInv, Schedule, len
      <4>2. k - 1 \in 1..len
        BY <1>7, <2>1, <3>1
      <4>3. QED BY <1>7, <3>1, <4>1, <4>2
    <3>2. CASE k = len + 1
      <4>1. len \in 1..len /\ k - 1 = len
        BY <1>7, <2>1, <3>2
      <4>2. sent # << >>
        BY <1>1, <1>7, <4>1, SendTypes DEF len
      <4>3. clock.due = sent[len].at + Period
        BY <1>2, <4>2 DEF IInv, Schedule, len
      <4>4. sent[len].at \in Nat /\ Period \in Nat
        BY <1>1, <4>1, SendTypes, RolloutAssumption DEF len
      <4>5. clock.due \in Nat
        BY <4>3, <4>4
      <4>6. QED BY <1>5, <1>7, <3>2, <4>1, <4>3, <4>5
    <3>3. QED BY <1>7, <3>1, <3>2
  <2>2. clock'.due = sent'[Len(sent')].at + Period
    BY <1>6, <1>7, <1>8
  <2>3. QED BY <1>11, <1>13, <2>1, <2>2 DEF Schedule, Times
<1>15. Budgets' /\ Episode' /\ RunEndsHeld'
  BY <1>11, <1>13 DEF Budgets, Episode, RunEndsHeld
<1>16. QED BY <1>12, <1>14, <1>15 DEF IInv

LEMMA SessionEndsKeeps ==
    ASSUME IInv, SessionEnds
    PROVE  IInv'
<1>1. /\ kind \in Kindred /\ arm \in Arms /\ clock \in Clocks /\ episode \in Episodes
      /\ ended \in Endings /\ rollouts \in 0..Rollouts /\ sent \in Seq(Sends)
  BY StateTypes DEF IInv
<1>2. UNCHANGED <<kind, clock, sent, episode, rollouts>> /\ phase' = "idle" /\ ~Runs
  BY DEF SessionEnds, IInv, Schedule
<1>3. PICK a \in Looks(arm), how \in Terminations :
        /\ arm' = a \/ arm' = [a EXCEPT !.frame = "part motion"]
        /\ ended' = [ended EXCEPT !.how = how]
  BY Zenon DEF SessionEnds, Terminations
<1>4. a \in Arms
  BY <1>1, LooksType
<1>5. arm' \in Arms
  <2>1. [a EXCEPT !.frame = "part motion"] \in Arms
    BY <1>4 DEF Arms
  <2>2. QED BY <1>3, <1>4, <2>1
<1>6. ended' \in Endings
  BY <1>1, <1>3 DEF Endings, Hows
<1>7. QED BY <1>1, <1>2, <1>5, <1>6, IdleKeeps

LEMMA SessionCloseKeeps ==
    ASSUME IInv, SessionClose
    PROVE  IInv'
<1>1. /\ kind \in Kindred /\ arm \in Arms /\ clock \in Clocks /\ episode \in Episodes
      /\ ended \in Endings /\ rollouts \in 0..Rollouts /\ sent \in Seq(Sends)
  BY StateTypes DEF IInv
<1>2. UNCHANGED <<kind, clock, sent, episode, rollouts>> /\ phase' = "idle" /\ ~Runs
  BY DEF SessionClose
<1>3. arm' \in Arms
  BY <1>1, SafeStopsRest DEF SessionClose
<1>4. ended' \in Endings
  BY <1>1 DEF SessionClose, Endings, Hows, Terminations
<1>5. QED BY <1>1, <1>2, <1>3, <1>4, IdleKeeps

LEMMA NextKeeps == IInv /\ [Next]_vars => IInv'
<1> SUFFICES ASSUME IInv, [Next]_vars PROVE IInv'
  OBVIOUS
<1>1. CASE UNCHANGED vars
  <2>1. UNCHANGED <<kind, phase, arm, clock, sent, episode, ended, rollouts>>
    BY <1>1 DEF vars
  <2>2. TypeOK'
    BY <2>1, StateTypes, TypesState DEF IInv
  <2>3. Schedule' /\ Budgets'
    BY <2>1 DEF IInv, Schedule, Budgets, Runs, Times
  <2>4. Episode' /\ RunEndsHeld'
    BY <2>1 DEF IInv, Episode, RunEndsHeld, Runs
  <2>5. QED BY <2>2, <2>3, <2>4 DEF IInv
<1>2. QED
  BY <1>1, RefuseKeeps, BeginKeeps, InterruptKeeps, FinishKeeps, ActKeeps, PaceKeeps,
     BreakKeeps, SessionStepKeeps, SessionEndsKeeps, SessionCloseKeeps DEF Next

-----------------------------------------------------------------------------
(* The theorems. *)

\* In every state of a rollout, or of a session, the invariant holds.
THEOREM Invariance == Spec => []IInv
  BY InitKeeps, NextKeeps, PTL DEF Spec

\* A runner is never ahead of its schedule, and a session leaves a period between two
\* actions, for every period and however long steps and breaks last (_rollout(), step()).
THEOREM KeepsPace == Spec => []Paced
<1>1. IInv => Paced
  <2> SUFFICES ASSUME IInv PROVE Paced
    OBVIOUS
  <2>1. DOMAIN sent = 1..Len(sent)
    BY StateTypes, SendTypes DEF IInv
  <2>2. QED BY <2>1 DEF IInv, Schedule, Paced, Times
<1>2. QED BY Invariance, <1>1, PTL

\* However a run leaves its loop, no action stays in force on an arm with torque whose
\* pose is known, whether failures stop the arm or hold it (run(), _safe_stop()).
THEOREM EndsHeld == Spec => []RunEndsHeld
<1>1. IInv => RunEndsHeld
  BY DEF IInv
<1>2. QED BY Invariance, <1>1, PTL

\* No action begins at or past a budget, and a run blames the budget it exhausted
\* (_rollout()).
THEOREM KeepsBudgets == Spec => []WithinBudgets
<1>1. IInv => WithinBudgets
  <2> SUFFICES ASSUME IInv PROVE WithinBudgets
    OBVIOUS
  <2>1. DOMAIN sent = 1..Len(sent)
    BY StateTypes, SendTypes DEF IInv
  <2>2. QED BY <2>1 DEF IInv, Budgets, WithinBudgets
<1>2. QED BY Invariance, <1>1, PTL

\* With a recorder that forgets what it abandons, the episode a run returns has one frame
\* for each action the motors got, whatever became of the rollouts before it (run(),
\* InMemorySessionRecorder).  The null recorder does not: its count is a finding.
THEOREM OneRolloutToAnEpisode ==
    ASSUME "null" \notin Recorders
    PROVE  Spec => []EpisodeIsThisRollout
<1>1. IInv => EpisodeIsThisRollout
  <2> SUFFICES ASSUME IInv PROVE EpisodeIsThisRollout
    OBVIOUS
  <2>1. kind.recorder \in Recorders
    BY StateTypes DEF IInv, Kindred
  <2>2. kind.recorder = "memory"
    BY <2>1, RolloutAssumption
  <2>3. QED BY <2>2 DEF IInv, Episode, EpisodeIsThisRollout
<1>2. QED BY Invariance, <1>1, PTL
=============================================================================
