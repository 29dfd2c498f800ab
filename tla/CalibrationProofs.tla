------------------------- MODULE CalibrationProofs -------------------------
(***************************************************************************)
(* What the two calibrations promise: the pixel map's, and the wrist       *)
(* servo's (the second half, of WristServo).                               *)
(*                                                                         *)
(* For any number of processes, places, arms and commands: what is taught  *)
(* stays true of the arm it is taught on, and an arm that teaching moved   *)
(* goes limp parked or with the operator told.                             *)
(*                                                                         *)
(* The lease carries the argument.  Fits says of one process what of the   *)
(* bench, the arm and its own map it relies on at its line; whoever        *)
(* changes the arm or the stamp holds the lease, or nobody does, so that   *)
(* the step of one process leaves every other's fit as it was.             *)
(*                                                                         *)
(* Without Refits there is one writer of the file at a time, and Continues *)
(* says what it has of the file: a save then loses nothing.                *)
(***************************************************************************)
EXTENDS PixelTeaching, WristServo, FiniteSetTheorems, WellFoundedInduction, TLAPS

Ats == {"off", "load", "open", "start", "look", "key", "fit", "save", "replace", "close",
        "park", "release"}
Workers == [at: Ats, cmd: {"collect", "fit", "track", None}, map: Maps \cup {None},
            seen: Places \cup {None}, found: 0..MaxSamples, kept: 0..MaxSamples,
            blind: BOOLEAN, following: BOOLEAN, told: BOOLEAN]
Arms == [torque: BOOLEAN, away: BOOLEAN, to: Samples \cup {None}]

\* A pair that was captured on one frame, if every one is.
IsPair(s) == TRUE \in Blind \/ s.pixel = s.pose

\* A map of true pairs, all of the arm it says.
GoodMaps ==
    {m \in Maps : /\ Len(m.samples) <= MaxSamples
                  /\ \A s \in Taught(m) : IsPair(s) /\ s.on = m.robot}

Types ==
    /\ carabiner \in Places /\ stamp \in Stamps /\ lease \in Procs \cup {None}
    /\ arm \in Arms /\ proc \in [Procs -> Workers] /\ commands \in 0..Commands
    /\ file \in GoodMaps \cup {None, Torn} /\ temporary \in GoodMaps \cup {None, Torn}

-----------------------------------------------------------------------------
(* The invariant, of one process w that is at its line. *)

\* Between OpenSession and Release.
HoldsLease(w) ==
    \/ w.cmd = "collect" /\ w.at \notin {"off", "open"}
    \/ w.cmd = "track" /\ w.at \in {"start", "look", "release"}

\* The map it goes by is a good one, and once it moves the arm or adds to the map, this
\* arm's; a map that is tracked has a fit.
Mapped(w) ==
    /\ w.map \in GoodMaps \cup {None}
    /\ \/ w.at \in {"fit", "save", "replace"}
       \/ w.cmd = "collect" /\ w.at \in {"start", "look", "key"}
       \/ w.cmd = "track" /\ w.at \in {"open", "start", "look"}
       => w.map \in GoodMaps
    /\ w.cmd = "collect" /\ w.at \in {"start", "look", "key"} => w.map.robot = stamp
    /\ w.cmd = "track" /\ w.at = "look" => w.map.robot = stamp
    /\ w.cmd = "track" /\ w.at \in {"open", "start", "look"} => w.map.fit # None

\* What it last saw is there still while it waits for the key.
Sighted(w) ==
    /\ w.blind => TRUE \in Blind
    /\ w.cmd = "collect" /\ w.at = "key" => TRUE \in Blind \/ w.seen \in {carabiner, None}

\* The arm has torque in a collect only while, or because, it followed.
Parked(w) ==
    /\ w.cmd = "collect" /\ w.at \notin {"off", "open"} /\ arm.torque => w.following
    /\ w.cmd = "collect" /\ w.at \in {"load", "start"} => ~arm.torque
    /\ w.cmd = "collect" /\ w.at = "release" /\ arm.torque /\ arm.away => w.told

\* The arm is sent to a sample of the last frame, on this arm.
Tracked(w) ==
    /\ w.cmd = "track" /\ w.at = "start" => arm.to = None
    /\ w.cmd = "track" /\ w.at = "look" /\ arm.to # None =>
          arm.to.on = stamp /\ IsPair(arm.to) /\ arm.to.pixel = w.seen

\* track has no leader, and only collect parks.
Lines(w) ==
    /\ w.at # "off" => w.cmd \in {"collect", "fit", "track"}
    /\ w.cmd # "collect" => w.at \notin {"key", "close", "park"} /\ ~w.following
    /\ w.cmd = "fit" => w.at \in {"off", "load", "fit", "save", "replace"}
    /\ w.cmd = "track" => w.at \in {"off", "load", "open", "start", "look", "release"}

Fits(p, w) ==
    /\ HoldsLease(w) <=> lease = p
    /\ Mapped(w) /\ Sighted(w) /\ Parked(w) /\ Tracked(w) /\ Lines(w)

IInv == Types /\ \A p \in Procs : Fits(p, proc[p])

-----------------------------------------------------------------------------
(* Processes. *)

\* What a worker keeps whatever line it goes to.
SameLocals(w, v) ==
    /\ v.cmd = w.cmd /\ v.blind = w.blind /\ v.following = w.following /\ v.told = w.told
    /\ v.found = w.found

LEMMA AtSet ==
    ASSUME NEW w \in Workers, NEW a \in Ats, NEW v, v = [w EXCEPT !.at = a]
    PROVE  /\ v \in Workers /\ v.at = a /\ SameLocals(w, v)
           /\ v.map = w.map /\ v.seen = w.seen /\ v.kept = w.kept
<1>1. v \in Workers
  BY DEF Workers
<1>2. v.at = a
  BY DEF Workers
<1>3. SameLocals(w, v)
  BY DEF Workers, SameLocals
<1>4. v.map = w.map /\ v.seen = w.seen /\ v.kept = w.kept
  BY DEF Workers
<1>5. QED BY <1>1, <1>2, <1>3, <1>4

LEMMA WorkerTypes ==
    ASSUME NEW w \in Workers
    PROVE  /\ w.at \in Ats /\ w.cmd \in {"collect", "fit", "track", None}
           /\ w.map \in Maps \cup {None} /\ w.seen \in Places \cup {None}
           /\ w.found \in 0..MaxSamples /\ w.kept \in 0..MaxSamples
           /\ w.blind \in BOOLEAN /\ w.following \in BOOLEAN /\ w.told \in BOOLEAN
  BY DEF Workers

\* The process p goes on as w, and no other moves.
Becomes(p, w) ==
    /\ proc' \in [Procs -> Workers]
    /\ proc'[p] = w
    /\ \A q \in Procs \ {p} : proc'[q] = proc[q]

LEMMA ProcSet ==
    ASSUME Types, NEW p \in Procs, NEW w \in Workers, proc' = [proc EXCEPT ![p] = w]
    PROVE  Becomes(p, w)
  BY DEF Types, Becomes

\* A step to another line.
LEMMA Moved ==
    ASSUME Types, NEW p \in Procs, NEW a \in Ats, To(p, a)
    PROVE  /\ Becomes(p, proc'[p])
           /\ proc'[p].at = a /\ SameLocals(proc[p], proc'[p])
           /\ proc'[p].map = proc[p].map /\ proc'[p].seen = proc[p].seen
           /\ proc'[p].kept = proc[p].kept
<1> DEFINE w == [proc[p] EXCEPT !.at = a]
<1>1. proc[p] \in Workers
  BY DEF Types
<1>2. w \in Workers /\ w.at = a /\ SameLocals(proc[p], w)
      /\ w.map = proc[p].map /\ w.seen = proc[p].seen /\ w.kept = proc[p].kept
  BY <1>1, AtSet
<1>3. proc' = [proc EXCEPT ![p] = w]
  BY DEF To
<1> HIDE DEF w
<1>4. Becomes(p, w)
  BY <1>2, <1>3, ProcSet
<1>5. proc'[p] = w
  BY <1>4 DEF Becomes
<1>6. QED BY <1>2, <1>4, <1>5

\* An idle process fits any bench.
LEMMA OffWorks ==
    /\ Off \in Workers /\ Off.at = "off" /\ Off.cmd = None /\ Off.map = None
    /\ Off.following = FALSE /\ Off.blind = FALSE /\ Off.told = FALSE
<1>1. 0 \in 0..MaxSamples
  BY PixelTeachingAssumption
<1>2. Off \in Workers
  BY <1>1 DEF Off, Workers, Ats
<1>3. QED BY <1>2 DEF Off

\* What another process does to the arm it does with the lease, which leaves q as it is.
LEMMA OthersFit ==
    ASSUME IInv, NEW p \in Procs, NEW q \in Procs \ {p}, proc'[q] = proc[q],
           carabiner' = carabiner, stamp' = stamp,
           \/ lease' = lease
           \/ lease = p /\ lease' = None
           \/ lease = None /\ lease' = p,
           arm' = arm \/ lease \in {p, None}
    PROVE  Fits(q, proc[q])'
<1>1. q # None /\ Fits(q, proc[q])
  BY PixelTeachingAssumption DEF IInv
<1>2. lease' = q <=> lease = q
  BY <1>1
<1>3. HoldsLease(proc[q]) => arm' = arm
  BY <1>1 DEF Fits
<1>4. (HoldsLease(proc[q]) <=> lease = q)'
  BY <1>1, <1>2 DEF Fits, HoldsLease
<1>5. Mapped(proc[q])' /\ Sighted(proc[q])' /\ Lines(proc[q])'
  BY <1>1 DEF Fits, Mapped, Sighted, Lines
<1>6. Parked(proc[q])' /\ Tracked(proc[q])'
  <2>1. CASE HoldsLease(proc[q])
    BY <1>1, <1>3, <2>1 DEF Fits, Parked, Tracked
  <2>2. CASE ~HoldsLease(proc[q])
    <3>1. /\ ~(proc[q].cmd = "collect" /\ proc[q].at \notin {"off", "open"})
          /\ ~(proc[q].cmd = "track" /\ proc[q].at \in {"start", "look"})
      BY <2>2 DEF HoldsLease
    <3>2. QED BY <3>1 DEF Parked, Tracked
  <2>3. QED BY <2>1, <2>2
<1>7. QED BY <1>4, <1>5, <1>6 DEF Fits

\* A step of p keeps the invariant if p fits afterwards.
LEMMA StepKeeps ==
    ASSUME IInv, NEW p \in Procs, Becomes(p, proc'[p]), Fits(p, proc[p])',
           carabiner' = carabiner, stamp' = stamp, commands' \in 0..Commands,
           \/ lease' = lease
           \/ lease = p /\ lease' = None
           \/ lease = None /\ lease' = p,
           arm' = arm \/ (arm' \in Arms /\ lease \in {p, None}),
           file' \in GoodMaps \cup {None, Torn}, temporary' \in GoodMaps \cup {None, Torn}
    PROVE  IInv'
<1>1. Types'
  BY DEF IInv, Types, Becomes
<1>2. ASSUME NEW q \in Procs PROVE Fits(q, proc[q])'
  <2>1. CASE q = p
    BY <2>1
  <2>2. CASE q # p
    <3>1. q \in Procs \ {p} /\ proc'[q] = proc[q]
      BY <2>2 DEF Becomes
    <3>2. QED BY <3>1, OthersFit
  <2>3. QED BY <2>1, <2>2
<1>3. QED BY <1>1, <1>2 DEF IInv

\* What the invariant says of p.
LEMMA Itself ==
    ASSUME IInv, NEW p \in Procs
    PROVE  /\ Types /\ proc[p] \in Workers /\ p # None
           /\ HoldsLease(proc[p]) <=> lease = p
           /\ Mapped(proc[p]) /\ Sighted(proc[p]) /\ Parked(proc[p]) /\ Tracked(proc[p])
           /\ Lines(proc[p])
  BY PixelTeachingAssumption DEF IInv, Types, Fits

\* The bench as a step finds it, when only the arm or the lease may change.
LEMMA BenchTypes ==
    ASSUME Types
    PROVE  /\ arm \in Arms /\ commands \in 0..Commands /\ stamp \in Stamps
           /\ carabiner \in Places
           /\ file \in GoodMaps \cup {None, Torn} /\ temporary \in GoodMaps \cup {None, Torn}
  BY DEF Types

-----------------------------------------------------------------------------
(* Endings. *)

LEMMA OverFits ==
    ASSUME IInv, NEW p \in Procs, Over(p)
    PROVE  /\ Becomes(p, proc'[p]) /\ Fits(p, proc[p])'
           /\ lease' = lease \/ (lease = p /\ lease' = None)
<1>1. Types /\ p # None
  BY Itself
<1>2. Becomes(p, Off)
  BY <1>1, OffWorks, ProcSet DEF Over
<1>3. proc'[p] = Off
  BY <1>2 DEF Becomes
<1>4. lease' # p /\ (lease' = lease \/ (lease = p /\ lease' = None))
  BY <1>1 DEF Over
<1>5. /\ proc'[p].at = "off" /\ proc'[p].map = None /\ ~proc'[p].blind
      /\ ~proc'[p].following /\ proc'[p].cmd = None
  BY <1>3, OffWorks
<1>6. (~HoldsLease(proc[p]))'
  BY <1>5 DEF HoldsLease
<1>7. Lines(proc[p])' /\ Mapped(proc[p])'
  BY <1>5 DEF Lines, Mapped
<1>8. Sighted(proc[p])' /\ Parked(proc[p])' /\ Tracked(proc[p])'
  BY <1>5 DEF Sighted, Parked, Tracked
<1>9. QED BY <1>2, <1>3, <1>4, <1>6, <1>7, <1>8 DEF Fits

\* The finally clauses: whoever holds the arm goes to release it.
LEMMA UnwindFits ==
    ASSUME IInv, NEW p \in Procs, Unwind(p), UNCHANGED <<carabiner, stamp, arm>>,
           proc[p].at \notin {"off", "close", "park", "release"}
    PROVE  /\ Becomes(p, proc'[p]) /\ Fits(p, proc[p])'
           /\ lease' = lease \/ (lease = p /\ lease' = None)
<1>1. CASE lease # p
  BY <1>1, OverFits DEF Unwind
<1>2. CASE lease = p
  <2> DEFINE a == IF proc[p].following THEN "close" ELSE "release"
  <2>1. To(p, a) /\ lease' = lease /\ a \in Ats
    BY <1>2 DEF Unwind, Ats
  <2>2. /\ Types /\ HoldsLease(proc[p]) /\ Mapped(proc[p]) /\ Sighted(proc[p])
        /\ Parked(proc[p]) /\ Lines(proc[p])
    BY <1>2, Itself
  <2>3. /\ Becomes(p, proc'[p]) /\ proc'[p].at = a /\ SameLocals(proc[p], proc'[p])
        /\ proc'[p].map = proc[p].map
    BY <2>1, <2>2, Moved
  <2>4. proc[p].cmd \in {"collect", "track"}
    BY <2>2 DEF HoldsLease
  <2>5. proc[p].cmd = "track" => a = "release"
    BY <2>2 DEF Lines
  <2>6. a \in {"close", "release"}
    OBVIOUS
  <2>7. proc[p].cmd = "collect" => (arm.torque => proc[p].following)
    BY <2>2, Zenon DEF Parked, HoldsLease
  <2>8. a = "release" => ~proc[p].following
    OBVIOUS
  <2> HIDE DEF a
  <2>9. (HoldsLease(proc[p]) <=> lease = p)'
    BY <1>2, <2>1, <2>3, <2>4, <2>5, <2>6 DEF HoldsLease, SameLocals
  <2>10. Lines(proc[p])' /\ Mapped(proc[p])'
    BY <2>2, <2>3, <2>4, <2>5, <2>6 DEF Lines, Mapped, SameLocals
  <2>11. Sighted(proc[p])' /\ Tracked(proc[p])'
    BY <2>2, <2>3, <2>6 DEF Sighted, Tracked, SameLocals
  <2>12. Parked(proc[p])'
    BY <2>2, <2>3, <2>6, <2>7, <2>8 DEF Parked, SameLocals
  <2>13. QED BY <2>1, <2>3, <2>9, <2>10, <2>11, <2>12 DEF Fits
<1>3. QED BY <1>1, <1>2

LEMMA KillKeeps ==
    ASSUME IInv, NEW p \in Procs, Kill(p)
    PROVE  IInv'
<1>1. /\ Becomes(p, proc'[p]) /\ Fits(p, proc[p])'
      /\ lease' = lease \/ (lease = p /\ lease' = None)
  BY OverFits DEF Kill
<1>2. /\ UNCHANGED <<carabiner, stamp, arm, file, commands>>
      /\ temporary' \in {temporary, Torn}
  BY DEF Kill
<1>3. QED BY <1>1, <1>2, Itself, BenchTypes, StepKeeps

LEMMA RaiseKeeps ==
    ASSUME IInv, NEW p \in Procs, Raise(p)
    PROVE  IInv'
<1>1. /\ UNCHANGED <<carabiner, stamp, arm, file, commands>>
      /\ temporary' \in {temporary, Torn}
  BY DEF Raise
<1>2. /\ Becomes(p, proc'[p]) /\ Fits(p, proc[p])'
      /\ lease' = lease \/ (lease = p /\ lease' = None)
  BY <1>1, UnwindFits DEF Raise
<1>3. QED BY <1>1, <1>2, Itself, BenchTypes, StepKeeps

LEMMA ReplaceKeeps ==
    ASSUME IInv, NEW p \in Procs, Replace(p)
    PROVE  IInv'
<1>1. /\ UNCHANGED <<carabiner, stamp, arm, commands>>
      /\ file' = temporary /\ temporary' = None
  BY DEF Replace
<1>2. /\ Becomes(p, proc'[p]) /\ Fits(p, proc[p])'
      /\ lease' = lease \/ (lease = p /\ lease' = None)
  BY <1>1, UnwindFits DEF Replace
<1>3. QED BY <1>1, <1>2, Itself, BenchTypes, StepKeeps

LEMMA ReleaseKeeps ==
    ASSUME IInv, NEW p \in Procs, Release(p)
    PROVE  IInv'
<1>1. /\ UNCHANGED <<carabiner, stamp, file, temporary, commands>>
      /\ arm' = [arm EXCEPT !.torque = FALSE] /\ proc[p].at = "release"
  BY DEF Release
<1>2. /\ Becomes(p, proc'[p]) /\ Fits(p, proc[p])'
      /\ lease' = lease \/ (lease = p /\ lease' = None)
  BY OverFits DEF Release
<1>3. lease = p
  <2>1. Lines(proc[p]) /\ (HoldsLease(proc[p]) <=> lease = p)
    BY Itself
  <2>2. proc[p].cmd \in {"collect", "track"}
    BY <1>1, <2>1 DEF Lines
  <2>3. QED BY <1>1, <2>1, <2>2 DEF HoldsLease
<1>4. arm' \in Arms
  BY <1>1, Itself, BenchTypes DEF Arms
<1>5. QED BY <1>1, <1>2, <1>3, <1>4, Itself, BenchTypes, StepKeeps

\* A process that keeps the lease, or goes on without it, over an arm that stays.
LEMMA ToKeeps ==
    ASSUME IInv, NEW p \in Procs, NEW a \in Ats, To(p, a),
           UNCHANGED <<carabiner, stamp, lease, arm, file, commands>>,
           temporary' \in GoodMaps \cup {None, Torn},
           (HoldsLease(proc[p]) <=> lease = p)', Mapped(proc[p])', Sighted(proc[p])',
           Parked(proc[p])', Tracked(proc[p])', Lines(proc[p])'
    PROVE  IInv'
<1>1. Becomes(p, proc'[p])
  BY Itself, Moved
<1>2. Fits(p, proc[p])'
  BY DEF Fits
<1>3. QED BY <1>1, <1>2, Itself, BenchTypes, StepKeeps

LEMMA SaveKeeps ==
    ASSUME IInv, NEW p \in Procs, Save(p)
    PROVE  IInv'
<1>1. /\ To(p, "replace") /\ UNCHANGED <<carabiner, stamp, lease, arm, file, commands>>
      /\ proc[p].at = "save" /\ temporary' = proc[p].map
  BY DEF Save
<1>2. /\ Types /\ (HoldsLease(proc[p]) <=> lease = p)
      /\ Mapped(proc[p]) /\ Sighted(proc[p]) /\ Parked(proc[p]) /\ Lines(proc[p])
  BY Itself
<1>3. /\ "replace" \in Ats /\ proc'[p].at = "replace" /\ SameLocals(proc[p], proc'[p])
      /\ proc'[p].map = proc[p].map
  BY <1>1, <1>2, Moved DEF Ats
<1>4. proc[p].map \in GoodMaps
  BY <1>1, <1>2 DEF Mapped
<1>5. (HoldsLease(proc[p]) <=> lease = p)'
  BY <1>1, <1>2, <1>3 DEF HoldsLease, SameLocals
<1>6. Mapped(proc[p])' /\ Lines(proc[p])'
  BY <1>1, <1>2, <1>3, <1>4 DEF Mapped, Lines, SameLocals
<1>7. Sighted(proc[p])' /\ Parked(proc[p])' /\ Tracked(proc[p])'
  BY <1>1, <1>2, <1>3 DEF Sighted, Parked, Tracked, SameLocals
<1>8. QED BY <1>1, <1>3, <1>4, <1>5, <1>6, <1>7, ToKeeps

LEMMA QuitKeeps ==
    ASSUME IInv, NEW p \in Procs, Quit(p)
    PROVE  IInv'
<1>1. /\ To(p, "release")
      /\ UNCHANGED <<carabiner, stamp, lease, arm, file, temporary, commands>>
      /\ proc[p].at = "look" /\ proc[p].cmd = "track"
  BY DEF Quit, Going
<1>2. /\ Types /\ (HoldsLease(proc[p]) <=> lease = p)
      /\ Mapped(proc[p]) /\ Sighted(proc[p]) /\ Lines(proc[p])
  BY Itself
<1>3. /\ "release" \in Ats /\ proc'[p].at = "release" /\ SameLocals(proc[p], proc'[p])
      /\ proc'[p].map = proc[p].map
  BY <1>1, <1>2, Moved DEF Ats
<1>4. (HoldsLease(proc[p]) <=> lease = p)'
  BY <1>1, <1>2, <1>3 DEF HoldsLease, SameLocals
<1>5. Mapped(proc[p])' /\ Lines(proc[p])'
  BY <1>1, <1>2, <1>3 DEF Mapped, Lines, SameLocals
<1>6. Sighted(proc[p])' /\ Parked(proc[p])' /\ Tracked(proc[p])'
  BY <1>1, <1>2, <1>3 DEF Sighted, Parked, Tracked, SameLocals
<1>7. temporary' \in GoodMaps \cup {None, Torn}
  BY <1>1, <1>2, BenchTypes
<1>8. QED BY <1>1, <1>3, <1>4, <1>5, <1>6, <1>7, ToKeeps

LEMMA CloseKeeps ==
    ASSUME IInv, NEW p \in Procs, CloseController(p)
    PROVE  IInv'
<1>1. UNCHANGED <<carabiner, stamp, arm, file, temporary, commands>> /\ proc[p].at = "close"
  BY DEF CloseController
<1>2. CASE Over(p)
  <2>1. /\ Becomes(p, proc'[p]) /\ Fits(p, proc[p])'
        /\ lease' = lease \/ (lease = p /\ lease' = None)
    BY <1>2, OverFits
  <2>2. QED BY <1>1, <2>1, Itself, BenchTypes, StepKeeps
<1>3. CASE To(p, "park") /\ UNCHANGED lease
  <2>1. /\ Types /\ (HoldsLease(proc[p]) <=> lease = p)
        /\ Mapped(proc[p]) /\ Sighted(proc[p]) /\ Parked(proc[p]) /\ Lines(proc[p])
    BY Itself
  <2>2. proc[p].cmd = "collect"
    BY <1>1, <2>1 DEF Lines
  <2>3. /\ "park" \in Ats /\ proc'[p].at = "park" /\ SameLocals(proc[p], proc'[p])
        /\ proc'[p].map = proc[p].map
    BY <1>3, <2>1, Moved DEF Ats
  <2>4. (HoldsLease(proc[p]) <=> lease = p)'
    BY <1>1, <1>3, <2>1, <2>2, <2>3 DEF HoldsLease, SameLocals
  <2>5. Mapped(proc[p])' /\ Lines(proc[p])'
    BY <2>1, <2>2, <2>3 DEF Mapped, Lines, SameLocals
  <2>6. Sighted(proc[p])' /\ Parked(proc[p])' /\ Tracked(proc[p])'
    BY <1>1, <2>1, <2>2, <2>3 DEF Sighted, Parked, Tracked, SameLocals
  <2>7. temporary' \in GoodMaps \cup {None, Torn}
    BY <1>1, <2>1, BenchTypes
  <2>8. QED BY <1>1, <1>3, <2>3, <2>4, <2>5, <2>6, <2>7, ToKeeps
<1>4. QED BY <1>2, <1>3 DEF CloseController

LEMMA ParkKeeps ==
    ASSUME IInv, NEW p \in Procs, Park(p)
    PROVE  IInv'
<1>1. /\ UNCHANGED <<carabiner, stamp, lease, file, temporary, commands>>
      /\ proc[p].at = "park"
  BY DEF Park
<1>2. /\ Types /\ proc[p] \in Workers /\ (HoldsLease(proc[p]) <=> lease = p)
      /\ Mapped(proc[p]) /\ Sighted(proc[p]) /\ Parked(proc[p]) /\ Lines(proc[p])
  BY Itself
<1>3. proc[p].cmd = "collect" /\ lease = p
  BY <1>1, <1>2 DEF Lines, HoldsLease
<1>4. /\ Becomes(p, proc'[p]) /\ proc'[p].at = "release" /\ proc'[p].cmd = "collect"
      /\ proc'[p].blind = proc[p].blind /\ proc'[p].following = proc[p].following
      /\ proc'[p].map = proc[p].map
      /\ arm' \in Arms /\ arm'.torque = arm.torque
      /\ arm'.away => proc'[p].told
  <2>1. CASE arm' = [arm EXCEPT !.away = FALSE] /\ To(p, "release")
    <3>1. arm' \in Arms /\ arm'.torque = arm.torque /\ arm'.away = FALSE
      BY <1>2, <2>1, BenchTypes DEF Arms
    <3>2. "release" \in Ats
      BY DEF Ats
    <3>3. QED BY <1>2, <1>3, <2>1, <3>1, <3>2, Moved DEF SameLocals
  <2>2. CASE /\ proc' = [proc EXCEPT ![p].told = TRUE, ![p].at = "release"]
             /\ UNCHANGED arm
    <3> DEFINE w == [proc[p] EXCEPT !.told = TRUE, !.at = "release"]
    <3>1. w \in Workers
      BY <1>2 DEF Workers, Ats
    <3>2. w.at = "release" /\ w.told = TRUE
      BY <1>2 DEF Workers
    <3>3. /\ w.cmd = proc[p].cmd /\ w.blind = proc[p].blind
          /\ w.following = proc[p].following /\ w.map = proc[p].map
      BY <1>2 DEF Workers
    <3>4. proc' = [proc EXCEPT ![p] = w]
      BY <2>2
    <3> HIDE DEF w
    <3>5. Becomes(p, w)
      BY <1>2, <3>1, <3>4, ProcSet
    <3>6. proc'[p] = w
      BY <3>5 DEF Becomes
    <3>7. QED BY <1>2, <1>3, <2>2, <3>2, <3>3, <3>5, <3>6, BenchTypes
  <2>3. QED BY <2>1, <2>2 DEF Park
<1>5. (HoldsLease(proc[p]) <=> lease = p)'
  BY <1>1, <1>3, <1>4 DEF HoldsLease
<1>6. Mapped(proc[p])' /\ Lines(proc[p])'
  BY <1>2, <1>4 DEF Mapped, Lines
<1>7. Sighted(proc[p])' /\ Parked(proc[p])' /\ Tracked(proc[p])'
  BY <1>1, <1>2, <1>3, <1>4 DEF Sighted, Parked, Tracked
<1>8. Fits(p, proc[p])'
  BY <1>5, <1>6, <1>7 DEF Fits
<1>9. QED BY <1>1, <1>2, <1>3, <1>4, <1>8, BenchTypes, StepKeeps

-----------------------------------------------------------------------------
(* Beginnings. *)

LEMMA BeginKeeps ==
    ASSUME IInv, NEW p \in Procs, Begin(p)
    PROVE  IInv'
<1>1. /\ UNCHANGED <<carabiner, stamp, lease, arm, file, temporary>>
      /\ proc[p].at = "off" /\ commands < Commands /\ commands' = commands + 1
  BY DEF Begin
<1>2. PICK cmd \in {"collect", "fit", "track"}, blind \in Blind :
        proc' = [proc EXCEPT ![p] =
                   [Off EXCEPT !.cmd = cmd, !.blind = blind /\ cmd = "collect",
                               !.at = IF cmd = "collect" THEN "open" ELSE "load"]]
  BY DEF Begin
<1> DEFINE b == blind /\ cmd = "collect"
           a == IF cmd = "collect" THEN "open" ELSE "load"
           w == [Off EXCEPT !.cmd = cmd, !.blind = b, !.at = a]
<1>3. b \in BOOLEAN /\ (b => TRUE \in Blind)
  BY PixelTeachingAssumption
<1>4. a \in Ats /\ (cmd = "collect" => a = "open") /\ (cmd # "collect" => a = "load")
  BY DEF Ats
<1>5. proc' = [proc EXCEPT ![p] = w]
  BY <1>2
<1> HIDE DEF a, b
<1>6. w \in Workers
  BY <1>3, <1>4, OffWorks DEF Workers
<1>7. w.at = a /\ w.cmd = cmd /\ w.map = None
  BY OffWorks DEF Workers
<1>8. w.blind = b /\ w.following = FALSE
  BY OffWorks DEF Workers
<1> HIDE DEF w
<1>9. Becomes(p, w)
  BY <1>5, <1>6, Itself, ProcSet
<1>10. proc'[p] = w
  BY <1>9 DEF Becomes
<1>11. lease # p /\ Types
  BY <1>1, Itself DEF HoldsLease
<1>12. (HoldsLease(proc[p]) <=> lease = p)'
  BY <1>1, <1>4, <1>7, <1>10, <1>11 DEF HoldsLease
<1>13. Mapped(proc[p])' /\ Lines(proc[p])'
  BY <1>4, <1>7, <1>8, <1>10 DEF Mapped, Lines
<1>14. Sighted(proc[p])' /\ Parked(proc[p])' /\ Tracked(proc[p])'
  BY <1>3, <1>4, <1>7, <1>8, <1>10 DEF Sighted, Parked, Tracked
<1>15. Fits(p, proc[p])'
  BY <1>12, <1>13, <1>14 DEF Fits
<1>16. commands' \in 0..Commands
  BY <1>1, <1>11, PixelTeachingAssumption DEF Types
<1>17. QED BY <1>1, <1>9, <1>10, <1>11, <1>15, <1>16, BenchTypes, StepKeeps

LEMMA OpenKeeps ==
    ASSUME IInv, NEW p \in Procs, OpenSession(p)
    PROVE  IInv'
<1>1. /\ UNCHANGED <<carabiner, stamp, file, temporary, commands>>
      /\ proc[p].at = "open" /\ lease = None /\ lease' = p
      /\ arm' = [torque |-> FALSE, away |-> FALSE, to |-> None]
  BY DEF OpenSession
<1>2. /\ Types /\ p # None /\ Mapped(proc[p]) /\ Sighted(proc[p]) /\ Lines(proc[p])
  BY Itself
<1> DEFINE a == IF proc[p].cmd = "collect" THEN "load" ELSE "start"
<1>3. a \in Ats /\ To(p, a)
  BY DEF Ats, OpenSession
<1>4. \/ proc[p].cmd = "collect" /\ a = "load"
      \/ proc[p].cmd = "track" /\ a = "start"
  BY <1>1, <1>2 DEF Lines
<1> HIDE DEF a
<1>5. /\ Becomes(p, proc'[p]) /\ proc'[p].at = a /\ SameLocals(proc[p], proc'[p])
      /\ proc'[p].map = proc[p].map
  BY <1>2, <1>3, Moved
<1>6. /\ arm' \in Arms /\ arm'.torque = FALSE /\ arm'.to = None
  BY <1>1 DEF Arms
<1>7. (HoldsLease(proc[p]) <=> lease = p)'
  BY <1>1, <1>4, <1>5 DEF HoldsLease, SameLocals
<1>8. Mapped(proc[p])' /\ Lines(proc[p])'
  BY <1>1, <1>2, <1>4, <1>5 DEF Mapped, Lines, SameLocals
<1>9. Sighted(proc[p])' /\ Parked(proc[p])' /\ Tracked(proc[p])'
  BY <1>2, <1>4, <1>5, <1>6 DEF Sighted, Parked, Tracked, SameLocals
<1>10. Fits(p, proc[p])'
  BY <1>7, <1>8, <1>9 DEF Fits
<1>11. QED BY <1>1, <1>2, <1>5, <1>6, <1>10, BenchTypes, StepKeeps

LEMMA StartCollectKeeps ==
    ASSUME IInv, NEW p \in Procs, StartCollect(p)
    PROVE  IInv'
<1>1. /\ UNCHANGED <<carabiner, stamp, lease, file, temporary, commands>>
      /\ proc[p].at = "start" /\ proc[p].cmd = "collect"
  BY DEF StartCollect, Going
<1>2. PICK f \in BOOLEAN :
        /\ proc' = [proc EXCEPT ![p].following = f, ![p].at = "look"]
        /\ arm' = [arm EXCEPT !.torque = f]
  BY DEF StartCollect
<1>3. /\ Types /\ proc[p] \in Workers /\ (HoldsLease(proc[p]) <=> lease = p)
      /\ Mapped(proc[p]) /\ Sighted(proc[p]) /\ Lines(proc[p])
  BY Itself
<1>4. lease = p
  BY <1>1, <1>3 DEF HoldsLease
<1> DEFINE w == [proc[p] EXCEPT !.following = f, !.at = "look"]
<1>5. w \in Workers
  BY <1>3 DEF Workers, Ats
<1>6. w.at = "look" /\ w.following = f
  BY <1>3 DEF Workers
<1>7. w.cmd = "collect" /\ w.blind = proc[p].blind /\ w.map = proc[p].map
  BY <1>1, <1>3 DEF Workers
<1>8. proc' = [proc EXCEPT ![p] = w]
  BY <1>2
<1> HIDE DEF w
<1>9. Becomes(p, w)
  BY <1>3, <1>5, <1>8, ProcSet
<1>10. proc'[p] = w
  BY <1>9 DEF Becomes
<1>11. arm' \in Arms /\ arm'.torque = f
  BY <1>2, <1>3, BenchTypes DEF Arms
<1>12. (HoldsLease(proc[p]) <=> lease = p)'
  BY <1>1, <1>4, <1>6, <1>7, <1>10 DEF HoldsLease
<1>13. Mapped(proc[p])' /\ Lines(proc[p])'
  BY <1>1, <1>3, <1>6, <1>7, <1>10 DEF Mapped, Lines
<1>14. Sighted(proc[p])' /\ Parked(proc[p])' /\ Tracked(proc[p])'
  BY <1>3, <1>6, <1>7, <1>10, <1>11 DEF Sighted, Parked, Tracked
<1>15. Fits(p, proc[p])'
  BY <1>12, <1>13, <1>14 DEF Fits
<1>16. QED BY <1>1, <1>3, <1>4, <1>9, <1>10, <1>11, <1>15, BenchTypes, StepKeeps

LEMMA LookCollectKeeps ==
    ASSUME IInv, NEW p \in Procs, LookCollect(p)
    PROVE  IInv'
<1>1. /\ UNCHANGED <<carabiner, stamp, lease, arm, file, temporary, commands>>
      /\ proc[p].at = "look" /\ proc[p].cmd = "collect"
  BY DEF LookCollect, Going
<1>2. PICK seen \in {carabiner, None} :
        proc' = [proc EXCEPT ![p].seen = seen, ![p].at = "key"]
  BY DEF LookCollect, Detects
<1>3. /\ Types /\ proc[p] \in Workers /\ (HoldsLease(proc[p]) <=> lease = p)
      /\ Mapped(proc[p]) /\ Sighted(proc[p]) /\ Parked(proc[p]) /\ Lines(proc[p])
  BY Itself
<1> DEFINE w == [proc[p] EXCEPT !.seen = seen, !.at = "key"]
<1>4. seen \in Places \cup {None}
  BY <1>3, BenchTypes
<1>5. w \in Workers
  BY <1>3, <1>4 DEF Workers, Ats
<1>6. w.at = "key" /\ w.seen = seen
  BY <1>3 DEF Workers
<1>7. /\ w.cmd = "collect" /\ w.blind = proc[p].blind /\ w.map = proc[p].map
      /\ w.following = proc[p].following
  BY <1>1, <1>3 DEF Workers
<1>8. proc' = [proc EXCEPT ![p] = w]
  BY <1>2
<1> HIDE DEF w
<1>9. Becomes(p, w)
  BY <1>3, <1>5, <1>8, ProcSet
<1>10. proc'[p] = w
  BY <1>9 DEF Becomes
<1>11. (HoldsLease(proc[p]) <=> lease = p)'
  BY <1>1, <1>3, <1>6, <1>7, <1>10 DEF HoldsLease
<1>12. Mapped(proc[p])' /\ Lines(proc[p])'
  BY <1>1, <1>3, <1>6, <1>7, <1>10 DEF Mapped, Lines
<1>13. Sighted(proc[p])' /\ Parked(proc[p])' /\ Tracked(proc[p])'
  BY <1>1, <1>2, <1>3, <1>6, <1>7, <1>10 DEF Sighted, Parked, Tracked
<1>14. Fits(p, proc[p])'
  BY <1>11, <1>12, <1>13 DEF Fits
<1>15. QED BY <1>1, <1>3, <1>9, <1>10, <1>14, BenchTypes, StepKeeps

LEMMA StartTrackKeeps ==
    ASSUME IInv, NEW p \in Procs, StartTrack(p)
    PROVE  IInv'
<1>1. /\ UNCHANGED <<carabiner, stamp, lease, file, temporary, commands>>
      /\ proc[p].at = "start" /\ proc[p].cmd = "track" /\ proc[p].map.robot = stamp
      /\ To(p, "look") /\ arm' = [arm EXCEPT !.torque = TRUE]
  BY DEF StartTrack, Going, Verify
<1>2. /\ Types /\ (HoldsLease(proc[p]) <=> lease = p)
      /\ Mapped(proc[p]) /\ Sighted(proc[p]) /\ Tracked(proc[p]) /\ Lines(proc[p])
  BY Itself
<1>3. /\ Becomes(p, proc'[p]) /\ proc'[p].at = "look" /\ SameLocals(proc[p], proc'[p])
      /\ proc'[p].map = proc[p].map
  BY <1>1, <1>2, Moved DEF Ats
<1>4. lease = p /\ arm.to = None
  BY <1>1, <1>2 DEF HoldsLease, Tracked
<1>5. arm' \in Arms /\ arm'.to = None
  BY <1>1, <1>2, <1>4, BenchTypes DEF Arms
<1>6. (HoldsLease(proc[p]) <=> lease = p)'
  BY <1>1, <1>3, <1>4 DEF HoldsLease, SameLocals
<1>7. Mapped(proc[p])' /\ Lines(proc[p])'
  BY <1>1, <1>2, <1>3 DEF Mapped, Lines, SameLocals
<1>8. Sighted(proc[p])' /\ Parked(proc[p])' /\ Tracked(proc[p])'
  BY <1>1, <1>2, <1>3, <1>5 DEF Sighted, Parked, Tracked, SameLocals
<1>9. Fits(p, proc[p])'
  BY <1>6, <1>7, <1>8 DEF Fits
<1>10. QED BY <1>1, <1>2, <1>3, <1>4, <1>5, <1>9, BenchTypes, StepKeeps

\* What a map predicts was taught to it.
LEMMA PredictedIsTaught ==
    ASSUME NEW m \in GoodMaps, m.fit # None, NEW seen, NEW s \in Predicted(m, seen)
    PROVE  s \in Samples /\ s.pixel = seen /\ s.on = m.robot /\ IsPair(s)
<1>1. m.fit \in SUBSET Samples
  BY DEF GoodMaps, Maps
<1>2. s \in m.fit /\ s.pixel = seen
  BY DEF Predicted
<1>3. s \in Taught(m)
  BY <1>2 DEF Taught
<1>4. QED BY <1>1, <1>2, <1>3 DEF GoodMaps

LEMMA TickKeeps ==
    ASSUME IInv, NEW p \in Procs, Tick(p)
    PROVE  IInv'
<1>1. /\ UNCHANGED <<carabiner, stamp, lease, file, temporary, commands>>
      /\ proc[p].at = "look" /\ proc[p].cmd = "track"
  BY DEF Tick, Going
<1>2. PICK seen \in Places \cup {None} :
        /\ proc' = [proc EXCEPT ![p].seen = seen]
        /\ \/ arm' = [arm EXCEPT !.to = None]
           \/ \E s \in Targets(p, seen) : arm' = [arm EXCEPT !.to = s, !.away = TRUE]
  BY DEF Tick
<1>3. /\ Types /\ proc[p] \in Workers /\ (HoldsLease(proc[p]) <=> lease = p)
      /\ Mapped(proc[p]) /\ Sighted(proc[p]) /\ Lines(proc[p])
  BY Itself
<1>4. lease = p
  BY <1>1, <1>3 DEF HoldsLease
<1>5. proc[p].map \in GoodMaps /\ proc[p].map.robot = stamp /\ proc[p].map.fit # None
  BY <1>1, <1>3 DEF Mapped
<1> DEFINE w == [proc[p] EXCEPT !.seen = seen]
<1>6. w \in Workers
  BY <1>3 DEF Workers
<1>7. w.at = "look" /\ w.seen = seen
  BY <1>1, <1>3 DEF Workers
<1>8. w.cmd = "track" /\ w.blind = proc[p].blind /\ w.map = proc[p].map
      /\ w.following = proc[p].following
  BY <1>1, <1>3 DEF Workers
<1>9. proc' = [proc EXCEPT ![p] = w]
  BY <1>2
<1> HIDE DEF w
<1>10. Becomes(p, w)
  BY <1>3, <1>6, <1>9, ProcSet
<1>11. proc'[p] = w
  BY <1>10 DEF Becomes
<1>12. /\ arm' \in Arms
       /\ arm'.to # None => arm'.to.on = stamp /\ IsPair(arm'.to) /\ arm'.to.pixel = seen
  <2>1. CASE arm' = [arm EXCEPT !.to = None]
    BY <1>3, <2>1, BenchTypes DEF Arms
  <2>2. CASE \E s \in Targets(p, seen) : arm' = [arm EXCEPT !.to = s, !.away = TRUE]
    <3>1. PICK s \in Targets(p, seen) : arm' = [arm EXCEPT !.to = s, !.away = TRUE]
      BY <2>2
    <3>2. s \in Predicted(proc[p].map, seen)
      BY DEF Targets
    <3>3. s \in Samples /\ s.pixel = seen /\ s.on = stamp /\ IsPair(s)
      BY <1>5, <3>2, PredictedIsTaught
    <3>4. arm' \in Arms
      BY <1>3, <3>1, <3>3, BenchTypes DEF Arms
    <3>5. arm'.to = s
      BY <1>3, <3>1, BenchTypes DEF Arms
    <3>6. QED BY <3>3, <3>4, <3>5
  <2>3. QED BY <1>2, <2>1, <2>2
<1>13. (HoldsLease(proc[p]) <=> lease = p)'
  BY <1>1, <1>4, <1>7, <1>8, <1>11 DEF HoldsLease
<1>14. Mapped(proc[p])' /\ Lines(proc[p])'
  BY <1>1, <1>3, <1>7, <1>8, <1>11 DEF Mapped, Lines
<1>15. Sighted(proc[p])' /\ Parked(proc[p])'
  BY <1>3, <1>7, <1>8, <1>11 DEF Sighted, Parked
<1>16. Tracked(proc[p])'
  BY <1>1, <1>7, <1>8, <1>11, <1>12 DEF Tracked, IsPair
<1>17. Fits(p, proc[p])'
  BY <1>13, <1>14, <1>15, <1>16 DEF Fits
<1>18. QED BY <1>1, <1>3, <1>4, <1>10, <1>11, <1>12, <1>17, BenchTypes, StepKeeps

-----------------------------------------------------------------------------
(* The bench. *)

LEMMA RecalibrateKeeps ==
    ASSUME IInv, Recalibrate
    PROVE  IInv'
<1>1. /\ UNCHANGED <<carabiner, lease, arm, file, temporary, proc, commands>>
      /\ lease = None /\ stamp' \in Stamps
  BY DEF Recalibrate
<1>2. Types'
  BY <1>1 DEF IInv, Types
<1>3. ASSUME NEW p \in Procs PROVE Fits(p, proc[p])'
  <2>1. /\ Fits(p, proc[p]) /\ Mapped(proc[p]) /\ Sighted(proc[p]) /\ Parked(proc[p])
        /\ Lines(proc[p]) /\ ~HoldsLease(proc[p])
    BY <1>1, Itself DEF IInv
  <2>2. /\ ~(proc[p].cmd = "collect" /\ proc[p].at \notin {"off", "open"})
        /\ ~(proc[p].cmd = "track" /\ proc[p].at \in {"start", "look", "release"})
    BY <2>1 DEF HoldsLease
  <2>3. (HoldsLease(proc[p]) <=> lease = p)'
    BY <1>1, <2>1 DEF Fits, HoldsLease
  <2>4. Mapped(proc[p])' /\ Lines(proc[p])'
    BY <1>1, <2>1, <2>2 DEF Mapped, Lines
  <2>5. Sighted(proc[p])' /\ Parked(proc[p])' /\ Tracked(proc[p])'
    BY <1>1, <2>1, <2>2 DEF Sighted, Parked, Tracked
  <2>6. QED BY <2>3, <2>4, <2>5 DEF Fits
<1>4. QED BY <1>2, <1>3 DEF IInv

LEMMA ResetKeeps ==
    ASSUME IInv, Reset
    PROVE  IInv'
<1>1. /\ UNCHANGED <<stamp, lease, file, temporary, proc, commands>>
      /\ carabiner' \in Places
      /\ \A p \in Procs : proc[p].at = "key" /\ proc[p].cmd = "collect" => proc[p].blind
  BY DEF Reset
<1> DEFINE moving == \E p \in Procs : proc[p].following /\ proc[p].at \in {"look", "key"}
           b == arm.away \/ moving
<1>2. arm' = [arm EXCEPT !.away = b]
  BY DEF Reset
<1>3. arm \in Arms /\ Types
  BY Itself, BenchTypes DEF IInv
<1>4. b \in BOOLEAN
  BY <1>3 DEF Arms
<1>5. b => arm.away \/ moving
  OBVIOUS
<1> HIDE DEF b
<1>6. arm' \in Arms /\ arm'.torque = arm.torque /\ arm'.to = arm.to /\ arm'.away = b
  BY <1>2, <1>3, <1>4 DEF Arms
<1>7. Types'
  BY <1>1, <1>3, <1>6 DEF Types
<1>8. ASSUME NEW p \in Procs PROVE Fits(p, proc[p])'
  <2>1. /\ Mapped(proc[p]) /\ Sighted(proc[p]) /\ Parked(proc[p]) /\ Tracked(proc[p])
        /\ Lines(proc[p]) /\ (HoldsLease(proc[p]) <=> lease = p)
    BY Itself
  <2>2. (HoldsLease(proc[p]) <=> lease = p)'
    BY <1>1, <2>1 DEF HoldsLease
  <2>3. Mapped(proc[p])' /\ Lines(proc[p])'
    BY <1>1, <2>1 DEF Mapped, Lines
  <2>4. Sighted(proc[p])'
    BY <1>1, <2>1 DEF Sighted
  <2>5. Tracked(proc[p])'
    BY <1>1, <1>6, <2>1 DEF Tracked, IsPair
  <2>6. proc[p].cmd = "collect" /\ proc[p].at = "release" => ~moving
    <3>1. SUFFICES ASSUME proc[p].cmd = "collect", proc[p].at = "release",
                          NEW q \in Procs, proc[q].following, proc[q].at \in {"look", "key"}
                   PROVE  FALSE
      OBVIOUS
    <3>2. lease = p
      BY <2>1, <3>1 DEF HoldsLease
    <3>3. proc[q].cmd = "collect" /\ lease = q
      <4>1. Lines(proc[q]) /\ (HoldsLease(proc[q]) <=> lease = q)
        BY Itself
      <4>2. proc[q].cmd = "collect"
        BY <3>1, <4>1 DEF Lines
      <4>3. QED BY <3>1, <4>1, <4>2 DEF HoldsLease
    <3>4. QED BY <3>1, <3>2, <3>3
  <2> HIDE DEF moving
  <2>7. Parked(proc[p])'
    BY <1>1, <1>5, <1>6, <2>1, <2>6 DEF Parked
  <2>8. QED BY <2>2, <2>3, <2>4, <2>5, <2>7 DEF Fits
<1>9. QED BY <1>7, <1>8 DEF IInv

-----------------------------------------------------------------------------
(* Maps. *)

\* The map p works on is replaced, on its way to another line.
MapChanges(p, m, f, k, a) ==
    /\ Becomes(p, proc'[p])
    /\ proc'[p].map = m /\ proc'[p].found = f /\ proc'[p].kept = k /\ proc'[p].at = a
    /\ proc'[p].cmd = proc[p].cmd /\ proc'[p].blind = proc[p].blind
    /\ proc'[p].following = proc[p].following /\ proc'[p].seen = proc[p].seen

LEMMA MapSet ==
    ASSUME Types, NEW p \in Procs, NEW m \in Maps, NEW f \in 0..MaxSamples,
           NEW k \in 0..MaxSamples, NEW a \in Ats,
           proc' = [proc EXCEPT ![p] =
                      [proc[p] EXCEPT !.map = m, !.found = f, !.kept = k, !.at = a]]
    PROVE  MapChanges(p, m, f, k, a)
<1> DEFINE w == [proc[p] EXCEPT !.map = m, !.found = f, !.kept = k, !.at = a]
<1>1. proc[p] \in Workers
  BY DEF Types
<1>2. w \in Workers
  BY <1>1 DEF Workers
<1>3. w.map = m /\ w.found = f /\ w.kept = k /\ w.at = a
  BY <1>1 DEF Workers
<1>4. /\ w.cmd = proc[p].cmd /\ w.blind = proc[p].blind
      /\ w.following = proc[p].following /\ w.seen = proc[p].seen
  BY <1>1 DEF Workers
<1>5. proc' = [proc EXCEPT ![p] = w]
  OBVIOUS
<1> HIDE DEF w
<1>6. Becomes(p, w)
  BY <1>2, <1>5, ProcSet
<1>7. proc'[p] = w
  BY <1>6 DEF Becomes
<1>8. QED BY <1>3, <1>4, <1>6, <1>7 DEF MapChanges

\* The lines it may be on its way to with the map m.
Ready(p, m, a) ==
    \/ /\ proc[p].cmd = "collect" /\ a \in {"start", "look", "fit", "save"}
       /\ proc[p].at \in {"load", "key", "fit"}
       /\ a \in {"start", "look"} => m.robot = stamp
       /\ a = "start" => proc[p].at = "load"
    \/ /\ proc[p].cmd = "track" /\ proc[p].at = "load" /\ a = "open"
       /\ m.fit # None
    \/ /\ proc[p].cmd = "fit" /\ a \in {"fit", "save"}
       /\ proc[p].at \in {"load", "fit"}

\* It still fits, if the map is a good one of this arm's and the line is one for it.
LEMMA MapKeeps ==
    ASSUME IInv, NEW p \in Procs, NEW m \in GoodMaps, NEW f, NEW k, NEW a,
           MapChanges(p, m, f, k, a),
           UNCHANGED <<carabiner, stamp, lease, arm, file, temporary, commands>>,
           Ready(p, m, a)
    PROVE  IInv'
<1>1. /\ Types /\ (HoldsLease(proc[p]) <=> lease = p) /\ Sighted(proc[p])
      /\ Parked(proc[p]) /\ Lines(proc[p])
  BY Itself
<1>2. (HoldsLease(proc[p]) <=> lease = p)'
  BY <1>1 DEF HoldsLease, MapChanges, Ready
<1>3. Mapped(proc[p])'
  BY DEF Mapped, MapChanges, Ready
<1>4. Lines(proc[p])'
  BY <1>1 DEF Lines, MapChanges, Ready
<1>5. Sighted(proc[p])'
  BY <1>1 DEF Sighted, MapChanges, Ready
<1>6. Parked(proc[p])'
  BY <1>1 DEF Parked, MapChanges, Ready
<1>7. Tracked(proc[p])'
  BY DEF Tracked, MapChanges, Ready
<1>8. Fits(p, proc[p])'
  BY <1>2, <1>3, <1>4, <1>5, <1>6, <1>7 DEF Fits
<1>9. QED BY <1>1, <1>8, BenchTypes, StepKeeps DEF MapChanges

LEMMA NewMapIsGood ==
    ASSUME stamp \in Stamps
    PROVE  NewMap(stamp) \in GoodMaps /\ NewMap(stamp).robot = stamp
<1>1. NewMap(stamp) \in Maps
  BY DEF NewMap, Maps
<1>2. Taught(NewMap(stamp)) = {}
  BY DEF NewMap, Taught, ToSet
<1>3. Len(NewMap(stamp).samples) <= MaxSamples
  BY PixelTeachingAssumption DEF NewMap
<1>4. QED BY <1>1, <1>2, <1>3 DEF GoodMaps, NewMap

\* What the file is read into; the two counts are of what was found there.
LEMMA LoadDoes ==
    ASSUME IInv, NEW p \in Procs, Load(p)
    PROVE  \E m \in GoodMaps, f \in 0..MaxSamples, k \in 0..MaxSamples, a \in Ats :
              /\ MapChanges(p, m, f, k, a) /\ Ready(p, m, a)
              /\ file # None => file \in GoodMaps /\ m = file /\ f = Len(file.samples) /\ k = f
<1>1. /\ UNCHANGED <<carabiner, stamp, lease, arm, file, temporary, commands>>
      /\ proc[p].at = "load"
  BY DEF Load
<1>2. Types /\ proc[p] \in Workers /\ Lines(proc[p])
  BY Itself
<1>3. CASE /\ proc[p].cmd = "collect" /\ file = None
           /\ proc' = [proc EXCEPT ![p].map = NewMap(stamp), ![p].at = "start"]
  <2> DEFINE m == NewMap(stamp)
             f == proc[p].found
             k == proc[p].kept
  <2>1. m \in GoodMaps /\ m.robot = stamp /\ m \in Maps
    BY <1>2, BenchTypes, NewMapIsGood DEF GoodMaps
  <2>2. f \in 0..MaxSamples /\ k \in 0..MaxSamples /\ "start" \in Ats
    BY <1>2, WorkerTypes DEF Ats
  <2>3. proc' = [proc EXCEPT ![p] = [proc[p] EXCEPT !.map = m, !.at = "start"]]
    BY <1>3
  <2>4. [proc[p] EXCEPT !.map = m, !.at = "start"]
          = [proc[p] EXCEPT !.map = m, !.found = f, !.kept = k, !.at = "start"]
    BY <1>2 DEF Workers
  <2>5. proc' = [proc EXCEPT ![p] =
                   [proc[p] EXCEPT !.map = m, !.found = f, !.kept = k, !.at = "start"]]
    BY <2>3, <2>4
  <2> HIDE DEF m, f, k
  <2>6. MapChanges(p, m, f, k, "start")
    BY <1>2, <2>1, <2>2, <2>5, MapSet
  <2>7. Ready(p, m, "start")
    BY <1>1, <1>3, <2>1 DEF Ready
  <2>8. QED BY <1>3, <2>1, <2>2, <2>6, <2>7
<1>4. CASE /\ Readable
           /\ proc[p].cmd = "collect" => Verify(file)
           /\ proc[p].cmd = "track" => file.fit # None
           /\ proc' = [proc EXCEPT
                ![p].found = Len(file.samples), ![p].kept = Len(file.samples),
                ![p].map = IF proc[p].cmd = "collect" THEN Existing(file) ELSE file,
                ![p].at = CASE proc[p].cmd = "collect" -> "start"
                            [] proc[p].cmd = "track" -> "open"
                            [] OTHER -> "fit"]
  <2> DEFINE k == Len(file.samples)
             a == CASE proc[p].cmd = "collect" -> "start"
                    [] proc[p].cmd = "track" -> "open"
                    [] OTHER -> "fit"
  <2>1. file \in GoodMaps /\ file \in Maps
    BY <1>2, <1>4, BenchTypes DEF Readable, GoodMaps
  <2>2. k \in 0..MaxSamples
    <3>1. file.samples \in Seq(Samples) /\ k <= MaxSamples
      BY <2>1 DEF GoodMaps, Maps
    <3>2. k \in Nat
      BY <3>1
    <3> HIDE DEF k
    <3>3. QED BY <3>1, <3>2, PixelTeachingAssumption
  <2>3. /\ a \in Ats
        /\ \/ proc[p].cmd = "collect" /\ a = "start" /\ file.robot = stamp
           \/ proc[p].cmd = "track" /\ a = "open" /\ file.fit # None
           \/ proc[p].cmd = "fit" /\ a = "fit"
    BY <1>1, <1>2, <1>4 DEF Lines, Verify, Ats
  <2>4. (IF proc[p].cmd = "collect" THEN Existing(file) ELSE file) = file
    BY DEF Existing
  <2>5. proc' = [proc EXCEPT ![p] =
                   [proc[p] EXCEPT !.found = k, !.kept = k, !.map = file, !.at = a]]
    BY <1>4, <2>4
  <2>6. k = Len(file.samples)
    OBVIOUS
  <2> HIDE DEF k, a
  <2>7. [proc[p] EXCEPT !.found = k, !.kept = k, !.map = file, !.at = a]
          = [proc[p] EXCEPT !.map = file, !.found = k, !.kept = k, !.at = a]
    BY <1>2 DEF Workers
  <2>8. proc' = [proc EXCEPT ![p] =
                   [proc[p] EXCEPT !.map = file, !.found = k, !.kept = k, !.at = a]]
    BY <2>5, <2>7
  <2>9. MapChanges(p, file, k, k, a)
    BY <1>2, <2>1, <2>2, <2>3, <2>8, MapSet
  <2>10. Ready(p, file, a)
    BY <1>1, <2>1, <2>3 DEF Ready
  <2>11. QED BY <2>1, <2>2, <2>3, <2>6, <2>9, <2>10
<1>5. QED BY <1>3, <1>4 DEF Load

LEMMA LoadKeeps ==
    ASSUME IInv, NEW p \in Procs, Load(p)
    PROVE  IInv'
  BY LoadDoes, MapKeeps DEF Load

LEMMA GoodParts ==
    ASSUME NEW m \in GoodMaps
    PROVE  /\ m \in Maps /\ m.robot \in Stamps /\ m.samples \in Seq(Samples)
           /\ Len(m.samples) <= MaxSamples /\ m.fit \in (SUBSET Samples) \cup {None}
           /\ \A s \in ToSet(m.samples) : IsPair(s) /\ s.on = m.robot
           /\ m.fit # None => \A s \in m.fit : IsPair(s) /\ s.on = m.robot
<1>1. m \in Maps
  BY DEF GoodMaps
<1>2. m.robot \in Stamps /\ m.samples \in Seq(Samples) /\ m.fit \in (SUBSET Samples) \cup {None}
  BY <1>1 DEF Maps
<1>3. /\ Len(m.samples) <= MaxSamples
      /\ \A s \in Taught(m) : IsPair(s) /\ s.on = m.robot
  BY DEF GoodMaps
<1>4. QED BY <1>1, <1>2, <1>3 DEF Taught

LEMMA GoodWhole ==
    ASSUME NEW m \in Maps, Len(m.samples) <= MaxSamples,
           \A s \in ToSet(m.samples) : IsPair(s) /\ s.on = m.robot,
           m.fit # None => \A s \in m.fit : IsPair(s) /\ s.on = m.robot
    PROVE  m \in GoodMaps
  BY DEF GoodMaps, Taught

\* Another list of samples, of pairs of this arm.
LEMMA SamplesGood ==
    ASSUME NEW m \in GoodMaps, NEW l \in Seq(Samples), Len(l) <= MaxSamples,
           \A i \in 1..Len(l) : IsPair(l[i]) /\ l[i].on = m.robot,
           NEW n, n = [m EXCEPT !.samples = l]
    PROVE  n \in GoodMaps /\ n.robot = m.robot
<1>1. n \in Maps
  BY GoodParts DEF Maps
<1>2. n.samples = l
  BY GoodParts DEF Maps
<1>3. n.robot = m.robot /\ n.fit = m.fit
  BY GoodParts DEF Maps
<1>4. \A s \in ToSet(n.samples) : IsPair(s) /\ s.on = n.robot
  BY <1>2, <1>3 DEF ToSet
<1>5. n.fit # None => \A s \in n.fit : IsPair(s) /\ s.on = n.robot
  BY <1>3, GoodParts
<1>6. QED BY <1>1, <1>2, <1>3, <1>4, <1>5, GoodWhole

LEMMA FittedGood ==
    ASSUME NEW m \in GoodMaps
    PROVE  Fitted(m) \in GoodMaps /\ Fitted(m).robot = m.robot
<1> DEFINE f == ToSet(m.samples)
           n == Fitted(m)
<1>1. f \in SUBSET Samples
  BY GoodParts DEF ToSet
<1>2. \A s \in f : IsPair(s) /\ s.on = m.robot
  BY GoodParts
<1>3. n = [m EXCEPT !.fit = f] /\ ToSet(m.samples) = f
  BY DEF Fitted
<1> HIDE DEF f, n
<1>4. n \in Maps
  BY <1>1, <1>3, GoodParts DEF Maps
<1>5. n.samples = m.samples
  BY <1>3, GoodParts DEF Maps
<1>6. n.robot = m.robot /\ n.fit = f
  BY <1>3, GoodParts DEF Maps
<1>7. n \in GoodMaps
  BY <1>2, <1>3, <1>4, <1>5, <1>6, GoodParts, GoodWhole
<1>8. QED BY <1>6, <1>7 DEF n

\* A step to another line with the map as it is.
LEMMA MovedMap ==
    ASSUME Types, NEW p \in Procs, NEW a \in Ats, To(p, a)
    PROVE  MapChanges(p, proc[p].map, proc[p].found, proc[p].kept, a)
  BY Moved DEF MapChanges, SameLocals

LEMMA FitDoes ==
    ASSUME IInv, NEW p \in Procs, Fit(p)
    PROVE  \E m \in GoodMaps :
              /\ MapChanges(p, m, proc[p].found, proc[p].kept, "save") /\ Ready(p, m, "save")
              /\ m.samples = proc[p].map.samples
<1>1. /\ UNCHANGED <<carabiner, stamp, lease, arm, file, temporary, commands>>
      /\ proc[p].at = "fit"
  BY DEF Fit
<1>2. /\ Types /\ proc[p] \in Workers /\ Lines(proc[p]) /\ proc[p].map \in GoodMaps
      /\ "save" \in Ats
  BY <1>1, Itself DEF Mapped, Ats
<1>3. proc[p].cmd \in {"collect", "fit"}
  BY <1>1, <1>2 DEF Lines
<1>4. CASE proc' = [proc EXCEPT ![p].map = Fitted(@), ![p].at = "save"]
  <2> DEFINE m == Fitted(proc[p].map)
             f == proc[p].found
             k == proc[p].kept
  <2>1. m \in GoodMaps /\ m \in Maps
    BY <1>2, FittedGood, GoodParts
  <2>2. m.samples = proc[p].map.samples
    BY <1>2, GoodParts DEF Fitted, Maps
  <2>3. f \in 0..MaxSamples /\ k \in 0..MaxSamples
    BY <1>2, WorkerTypes
  <2>4. proc' = [proc EXCEPT ![p] = [proc[p] EXCEPT !.map = m, !.at = "save"]]
    BY <1>4
  <2>5. [proc[p] EXCEPT !.map = m, !.at = "save"]
          = [proc[p] EXCEPT !.map = m, !.found = f, !.kept = k, !.at = "save"]
    BY <1>2 DEF Workers
  <2>6. proc' = [proc EXCEPT ![p] =
                   [proc[p] EXCEPT !.map = m, !.found = f, !.kept = k, !.at = "save"]]
    BY <2>4, <2>5
  <2> HIDE DEF m
  <2>7. MapChanges(p, m, f, k, "save")
    BY <1>2, <2>1, <2>3, <2>6, MapSet
  <2>8. QED BY <1>1, <1>3, <2>1, <2>2, <2>7 DEF Ready
<1>5. CASE To(p, "save")
  BY <1>1, <1>2, <1>3, <1>5, MovedMap DEF Ready
<1>6. QED BY <1>4, <1>5 DEF Fit

LEMMA FitKeeps ==
    ASSUME IInv, NEW p \in Procs, Fit(p)
    PROVE  IInv'
  BY FitDoes, MapKeeps DEF Fit

\* At most as many samples are kept, and they are the ones that were.
Carries(p, m, k) ==
    /\ k <= proc[p].kept
    /\ proc[p].kept <= Len(proc[p].map.samples)
          => k <= Len(m.samples) /\ \A i \in 1..k : m.samples[i] = proc[p].map.samples[i]

LEMMA KeyDoes ==
    ASSUME IInv, NEW p \in Procs, Key(p)
    PROVE  \E m \in GoodMaps, k \in 0..MaxSamples, a \in {"look", "fit"} :
              /\ MapChanges(p, m, proc[p].found, k, a) /\ Ready(p, m, a)
              /\ Carries(p, m, k)
<1>1. /\ UNCHANGED <<carabiner, stamp, lease, arm, file, temporary, commands>>
      /\ proc[p].at = "key" /\ proc[p].cmd = "collect"
  BY DEF Key, Going
<1>2. /\ Types /\ proc[p] \in Workers
      /\ proc[p].map \in GoodMaps /\ proc[p].map.robot = stamp
      /\ TRUE \in Blind \/ proc[p].seen \in {carabiner, None}
  BY <1>1, Itself DEF Mapped, Sighted
<1> DEFINE m0 == proc[p].map
           f == proc[p].found
           k0 == proc[p].kept
<1>3. m0 \in GoodMaps /\ m0 \in Maps /\ m0.robot = stamp /\ m0.samples \in Seq(Samples)
  BY <1>2, GoodParts
<1>4. f \in 0..MaxSamples /\ k0 \in 0..MaxSamples
  BY <1>2, WorkerTypes
<1>5. \A i \in 1..Len(m0.samples) : IsPair(m0.samples[i]) /\ m0.samples[i].on = stamp
  BY <1>2, GoodParts DEF ToSet
<1>6. ASSUME NEW m \in GoodMaps, NEW k \in 0..MaxSamples, NEW a \in {"look", "fit"},
             m.robot = stamp, Carries(p, m, k),
             proc' = [proc EXCEPT ![p] =
                        [proc[p] EXCEPT !.map = m, !.found = f, !.kept = k, !.at = a]]
      PROVE  MapChanges(p, m, f, k, a) /\ Ready(p, m, a)
  <2>1. a \in Ats /\ m \in Maps
    BY GoodParts DEF Ats
  <2>2. MapChanges(p, m, f, k, a)
    BY <1>2, <1>4, <1>6, <2>1, MapSet
  <2>3. QED BY <1>1, <1>6, <2>2 DEF Ready
<1>7. CASE /\ proc[p].seen # None /\ Len(proc[p].map.samples) < MaxSamples
           /\ \E next \in {"look", "fit"} : proc' = [proc EXCEPT
                 ![p].map.samples =
                    Append(@, [pixel |-> proc[p].seen, pose |-> carabiner, on |-> stamp]),
                ![p].at = next]
  <2> DEFINE s == [pixel |-> proc[p].seen, pose |-> carabiner, on |-> stamp]
             l == Append(m0.samples, s)
             m == [m0 EXCEPT !.samples = l]
  <2>1. PICK next \in {"look", "fit"} : proc' = [proc EXCEPT
                ![p].map.samples = Append(@, s), ![p].at = next]
    BY <1>7
  <2>2. s \in Samples /\ IsPair(s) /\ s.on = stamp
    <3>1. proc[p].seen \in Places /\ carabiner \in Places /\ stamp \in Stamps
      BY <1>2, <1>7, WorkerTypes, BenchTypes
    <3>2. QED BY <1>2, <1>7, <3>1 DEF Samples, IsPair
  <2> HIDE DEF s
  <2>3. l \in Seq(Samples) /\ Len(l) <= MaxSamples
    BY <1>3, <1>7, <2>2, PixelTeachingAssumption
  <2>4. \A i \in 1..Len(l) : IsPair(l[i]) /\ l[i].on = m0.robot
    <3>1. ASSUME NEW i \in 1..Len(l)
          PROVE  l[i] = s \/ (i \in 1..Len(m0.samples) /\ l[i] = m0.samples[i])
      BY <1>3, <2>2
    <3>2. QED BY <1>3, <1>5, <2>2, <3>1
  <2>5. m \in GoodMaps /\ m.robot = stamp
    BY <1>3, <2>3, <2>4, SamplesGood
  <2>6. proc' = [proc EXCEPT ![p] = [proc[p] EXCEPT !.map = m, !.at = next]]
    BY <1>2, <2>1 DEF Types
  <2>7. m.samples = l
    BY <1>3, <2>3 DEF Maps
  <2>8. Carries(p, m, k0)
    BY <1>3, <1>4, <2>2, <2>7 DEF Carries
  <2> HIDE DEF m, l
  <2>9. [proc[p] EXCEPT !.map = m, !.at = next]
          = [proc[p] EXCEPT !.map = m, !.found = f, !.kept = k0, !.at = next]
    BY <1>2 DEF Workers
  <2>10. proc' = [proc EXCEPT ![p] =
                   [proc[p] EXCEPT !.map = m, !.found = f, !.kept = k0, !.at = next]]
    BY <2>6, <2>9
  <2>11. QED BY <1>4, <1>6, <2>5, <2>10, <2>8
<1>8. CASE /\ proc[p].map.samples # <<>>
           /\ \E next \in {"look", "fit"} : proc' = [proc EXCEPT
                ![p].map.samples = Front(@), ![p].kept = Least(@, Len(proc[p].map.samples) - 1),
                ![p].at = next]
  <2> DEFINE l == Front(m0.samples)
             m == [m0 EXCEPT !.samples = l]
             k == Least(k0, Len(m0.samples) - 1)
  <2>1. PICK next \in {"look", "fit"} : proc' = [proc EXCEPT
                ![p].map.samples = Front(@), ![p].kept = Least(@, Len(proc[p].map.samples) - 1),
                ![p].at = next]
    BY <1>8
  <2>2. /\ l \in Seq(Samples) /\ Len(l) = Len(m0.samples) - 1
        /\ \A i \in 1..Len(l) : l[i] = m0.samples[i]
    BY <1>3, <1>8 DEF Front
  <2>3. Len(m0.samples) \in Nat /\ Len(m0.samples) > 0 /\ Len(m0.samples) <= MaxSamples
    BY <1>3, <1>8, GoodParts
  <2>4. \A i \in 1..Len(l) : IsPair(l[i]) /\ l[i].on = m0.robot
    BY <1>3, <1>5, <2>2, <2>3
  <2>5. m \in GoodMaps /\ m.robot = stamp
    <3> HIDE DEF l
    <3>1. Len(l) <= MaxSamples
      BY <2>2, <2>3, PixelTeachingAssumption
    <3>2. QED BY <1>3, <2>2, <2>4, <3>1, SamplesGood
  <2>6. k \in 0..MaxSamples
    BY <1>4, <2>3, PixelTeachingAssumption DEF Least
  <2>7. proc' = [proc EXCEPT ![p] = [proc[p] EXCEPT !.map = m, !.kept = k, !.at = next]]
    BY <1>2, <2>1 DEF Types
  <2>8. m.samples = l
    BY <1>3, <2>2 DEF Maps
  <2>9. Carries(p, m, k)
    BY <1>3, <1>4, <2>2, <2>3, <2>6, <2>8 DEF Carries, Least
  <2> HIDE DEF m, k, l
  <2>10. [proc[p] EXCEPT !.map = m, !.kept = k, !.at = next]
          = [proc[p] EXCEPT !.map = m, !.found = f, !.kept = k, !.at = next]
    BY <1>2 DEF Workers
  <2>11. proc' = [proc EXCEPT ![p] =
                   [proc[p] EXCEPT !.map = m, !.found = f, !.kept = k, !.at = next]]
    BY <2>7, <2>10
  <2>12. QED BY <1>4, <1>6, <2>5, <2>6, <2>11, <2>9
<1>9. CASE \E next \in {"look", "fit"} : To(p, next)
  <2>1. PICK next \in {"look", "fit"} : To(p, next)
    BY <1>9
  <2>2. next \in Ats
    BY DEF Ats
  <2>3. Carries(p, m0, k0) /\ m0.samples = proc[p].map.samples
    BY <1>4 DEF Carries
  <2>4. MapChanges(p, m0, f, k0, next)
    BY <1>2, <2>1, <2>2, MovedMap
  <2>5. Ready(p, m0, next)
    BY <1>1, <1>3 DEF Ready
  <2>6. QED BY <1>3, <1>4, <2>3, <2>4, <2>5
<1>10. QED BY <1>7, <1>8, <1>9 DEF Key

LEMMA KeyKeeps ==
    ASSUME IInv, NEW p \in Procs, Key(p)
    PROVE  IInv'
<1>1. "look" \in Ats /\ "fit" \in Ats
  BY DEF Ats
<1>2. QED BY <1>1, KeyDoes, MapKeeps DEF Key

-----------------------------------------------------------------------------
(* Theorems. *)

LEMMA InitHolds == Init => IInv
<1> SUFFICES ASSUME Init PROVE IInv
  OBVIOUS
<1>1. /\ proc = [p \in Procs |-> Off] /\ lease = None /\ file = None /\ temporary = None
      /\ arm = [torque |-> FALSE, away |-> FALSE, to |-> None]
      /\ carabiner \in Places /\ stamp \in Stamps /\ commands = 0
  BY DEF Init
<1>2. Types
  <2>1. arm \in Arms /\ commands \in 0..Commands
    BY <1>1, PixelTeachingAssumption DEF Arms
  <2>2. proc \in [Procs -> Workers]
    BY <1>1, OffWorks
  <2>3. QED BY <1>1, <2>1, <2>2 DEF Types
<1>3. ASSUME NEW p \in Procs PROVE Fits(p, proc[p])
  <2>1. /\ proc[p].at = "off" /\ proc[p].map = None /\ ~proc[p].blind
        /\ ~proc[p].following /\ lease # p
    BY <1>1, OffWorks, PixelTeachingAssumption
  <2>2. Mapped(proc[p]) /\ Sighted(proc[p]) /\ Lines(proc[p]) /\ ~HoldsLease(proc[p])
    BY <2>1 DEF Mapped, Sighted, Lines, HoldsLease
  <2>3. Parked(proc[p]) /\ Tracked(proc[p])
    BY <2>1 DEF Parked, Tracked
  <2>4. QED BY <2>1, <2>2, <2>3 DEF Fits
<1>4. QED BY <1>2, <1>3 DEF IInv

LEMMA NextKeeps ==
    ASSUME IInv, [Next]_vars
    PROVE  IInv'
<1>1. CASE UNCHANGED vars
  <2>1. UNCHANGED <<carabiner, stamp, lease, arm, file, temporary, proc, commands>>
    BY <1>1 DEF vars
  <2>2. Types'
    BY <2>1 DEF IInv, Types
  <2>3. ASSUME NEW p \in Procs PROVE Fits(p, proc[p])'
    BY <2>1 DEF IInv, Fits, HoldsLease, Mapped, Sighted, Parked, Tracked, Lines, IsPair
  <2>4. QED BY <2>2, <2>3 DEF IInv
<1>2. CASE Reset \/ Recalibrate
  BY <1>2, ResetKeeps, RecalibrateKeeps
<1>3. ASSUME NEW p \in Procs,
             \/ Begin(p) \/ Kill(p) \/ Raise(p) \/ OpenSession(p) \/ Load(p)
             \/ StartCollect(p) \/ LookCollect(p) \/ Key(p) \/ Fit(p) \/ Save(p) \/ Replace(p)
             \/ StartTrack(p) \/ Tick(p) \/ Quit(p)
             \/ CloseController(p) \/ Park(p) \/ Release(p)
      PROVE  IInv'
  BY <1>3, BeginKeeps, KillKeeps, RaiseKeeps, OpenKeeps, LoadKeeps, StartCollectKeeps,
     LookCollectKeeps, KeyKeeps, FitKeeps, SaveKeeps, ReplaceKeeps, StartTrackKeeps,
     TickKeeps, QuitKeeps, CloseKeeps, ParkKeeps, ReleaseKeeps
<1>4. QED BY <1>1, <1>2, <1>3 DEF Next

\* Commands that run beside each other keep out of each other's arm and map.
THEOREM Invariance == Spec => []IInv
<1>1. Init => IInv
  BY InitHolds
<1>2. IInv /\ [Next]_vars => IInv'
  BY NextKeeps
<1>3. QED BY <1>1, <1>2, PTL DEF Spec

\* The maps there are, of which the invariant speaks where they are.
LEMMA AllAreGood ==
    ASSUME IInv, NEW m \in AllMaps
    PROVE  m \in GoodMaps
<1>1. CASE m \in {file, temporary}
  BY <1>1 DEF IInv, Types, AllMaps
<1>2. CASE \E p \in Procs : m = proc[p].map
  BY <1>2, Itself DEF AllMaps, Mapped
<1>3. QED BY <1>1, <1>2 DEF AllMaps

\* Whatever is taught, merged, fitted or tracked pairs a pixel with the pose over it, if
\* the operator captures only what the window shows (cmd_collect() without --no-window).
THEOREM PairsStayTrue ==
    ASSUME TRUE \notin Blind
    PROVE  Spec => []PairsAreTrue
<1>1. IInv => PairsAreTrue
  <2> SUFFICES ASSUME IInv PROVE PairsAreTrue
    OBVIOUS
  <2>1. ASSUME NEW m \in AllMaps, NEW s \in Taught(m) PROVE s.pixel = s.pose
    BY <2>1, AllAreGood DEF GoodMaps, IsPair
  <2>2. ASSUME NEW p \in Procs, Going(p, "track", "look"), arm.to # None
        PROVE  arm.to.pose = proc[p].seen
    BY <2>2, Itself DEF Going, Tracked, IsPair
  <2>3. QED BY <2>1, <2>2 DEF PairsAreTrue
<1>2. QED BY <1>1, Invariance, PTL

\* No file mixes arms or calibrations, and no arm is moved to what was taught on another:
\* RobotStamp.verify() is asked wherever a file that was read meets an arm.
THEOREM OneArmToAMap == Spec => []OneArm
<1>1. IInv => OneArm
  <2> SUFFICES ASSUME IInv PROVE OneArm
    OBVIOUS
  <2>1. ASSUME NEW m \in AllMaps, NEW s \in Taught(m) PROVE s.on = m.robot
    BY <2>1, AllAreGood DEF GoodMaps
  <2>2. ASSUME NEW p \in Procs, Going(p, "track", "look"), arm.to # None
        PROVE  arm.to.on = stamp
    BY <2>2, Itself DEF Going, Tracked
  <2>3. QED BY <2>1, <2>2 DEF OneArm
<1>2. QED BY <1>1, Invariance, PTL

\* An arm that a collect moved goes limp where it was found, or the operator was told:
\* the finally clauses park whatever raised (park_at_start_pose()).
THEOREM ParkedOrTold == Spec => []LimpIsParkedOrTold
<1>1. IInv => LimpIsParkedOrTold
  <2> SUFFICES ASSUME IInv, NEW p \in Procs, Going(p, "collect", "release"),
                      arm.torque, arm.away
               PROVE  proc[p].told
    BY DEF LimpIsParkedOrTold
  <2>1. Parked(proc[p])
    BY Itself
  <2>2. QED BY <2>1 DEF Parked, Going
<1>2. QED BY <1>1, Invariance, PTL

-----------------------------------------------------------------------------
(* What is in the file already. *)

\* Between the reading of the file and the writing of it.
Writes(w) ==
    \/ w.cmd = "collect" /\ w.at \in {"start", "look", "key", "fit", "save", "replace"}
    \/ w.cmd = "fit" /\ w.at \in {"fit", "save", "replace"}

\* A writer still has what it kept of the file, and the file has not changed under it.
Continues(w) ==
    Writes(w) =>
        /\ file # None =>
              /\ file \in GoodMaps /\ w.found = Len(file.samples)
              /\ w.kept <= w.found /\ w.kept <= Len(w.map.samples)
              /\ \A i \in 1..w.kept : w.map.samples[i] = file.samples[i]
        /\ w.at = "replace" => temporary = w.map

\* A fit runs beside no other command.
Alone ==
    \A p, q \in Procs : p # q /\ proc[p].cmd = "fit" /\ proc[p].at # "off" => proc[q].at = "off"

LInv == Alone /\ \A p \in Procs : Continues(proc[p])

\* What a step of p may do to its own work, and to that of others.
Outcome(p) ==
    /\ proc'[p] \in Workers
    /\ \A q \in Procs \ {p} : proc'[q] = proc[q]
    /\ \/ proc'[p].at = "off"
       \/ \A q \in Running : "fit" \notin {proc'[p].cmd, proc[q].cmd}
       \/ proc'[p].cmd = proc[p].cmd /\ proc[p].at # "off"
    /\ UNCHANGED <<file, temporary>> \/ proc[p].at \in {"save", "replace"}
    /\ Continues(proc[p]) => Continues(proc[p])'

\* There is one writer at a time: the holder of the lease, or a fit.
LEMMA OneWriter ==
    ASSUME IInv, Alone, NEW p \in Procs, NEW q \in Procs, Writes(proc[p]), Writes(proc[q])
    PROVE  p = q
<1>1. CASE proc[p].cmd = "fit" \/ proc[q].cmd = "fit"
  BY <1>1 DEF Alone, Writes
<1>2. CASE proc[p].cmd = "collect" /\ proc[q].cmd = "collect"
  <2>1. HoldsLease(proc[p]) /\ HoldsLease(proc[q])
    BY <1>2 DEF Writes, HoldsLease
  <2>2. QED BY <2>1, Itself
<1>3. QED BY <1>1, <1>2 DEF Writes

LEMMA OutcomeKeeps ==
    ASSUME IInv, LInv, NEW p \in Procs, Outcome(p)
    PROVE  LInv'
<1>1. Alone'
  <2> SUFFICES ASSUME NEW r \in Procs, NEW q \in Procs, r # q,
                      proc'[r].cmd = "fit", proc'[r].at # "off"
               PROVE  proc'[q].at = "off"
    BY DEF Alone
  <2>1. CASE r # p /\ q # p
    BY <2>1 DEF LInv, Alone, Outcome
  <2>2. CASE r = p
    <3>1. proc'[q] = proc[q]
      BY <2>2 DEF Outcome
    <3>2. CASE \A s \in Running : "fit" \notin {proc'[p].cmd, proc[s].cmd}
      BY <2>2, <3>1, <3>2 DEF Running
    <3>3. CASE proc'[p].cmd = proc[p].cmd /\ proc[p].at # "off"
      BY <2>2, <3>1, <3>3 DEF LInv, Alone
    <3>4. QED BY <2>2, <3>2, <3>3 DEF Outcome
  <2>3. CASE q = p
    <3>1. proc'[r] = proc[r] /\ proc[r].cmd = "fit" /\ r \in Running
      BY <2>3 DEF Outcome, Running
    <3>2. CASE \A s \in Running : "fit" \notin {proc'[p].cmd, proc[s].cmd}
      BY <3>1, <3>2
    <3>3. CASE proc'[p].cmd = proc[p].cmd /\ proc[p].at # "off"
      BY <2>3, <3>1, <3>3 DEF LInv, Alone, Running
    <3>4. QED BY <2>3, <3>2, <3>3 DEF Outcome
  <2>4. QED BY <2>1, <2>2, <2>3
<1>2. ASSUME NEW q \in Procs PROVE Continues(proc[q])'
  <2>1. CASE q = p
    BY <2>1 DEF LInv, Outcome
  <2>2. CASE q # p /\ UNCHANGED <<file, temporary>>
    BY <2>2 DEF LInv, Outcome, Continues, Writes
  <2>3. CASE q # p /\ proc[p].at \in {"save", "replace"}
    <3>1. Writes(proc[p])
      <4>1. Lines(proc[p])
        BY Itself
      <4>2. QED BY <2>3, <4>1 DEF Lines, Writes
    <3>2. ~Writes(proc[q])
      BY <2>3, <3>1, OneWriter DEF LInv
    <3>3. QED BY <2>3, <3>2 DEF Outcome, Continues, Writes
  <2>4. QED BY <2>1, <2>2, <2>3 DEF Outcome
<1>3. QED BY <1>1, <1>2 DEF LInv

\* A step out of the work, and one that goes on with the same map.
LEMMA Leaving ==
    ASSUME NEW p \in Procs, Becomes(p, proc'[p]),
           proc'[p].at \in {"off", "close", "park", "release"} \/ proc'[p].cmd = "track",
           \/ proc'[p].at = "off"
           \/ proc'[p].cmd = proc[p].cmd /\ proc[p].at # "off",
           UNCHANGED <<file, temporary>> \/ proc[p].at \in {"save", "replace"}
    PROVE  Outcome(p)
<1>1. (~Writes(proc[p]))'
  BY DEF Writes
<1>2. Continues(proc[p])'
  BY <1>1 DEF Continues
<1>3. QED BY <1>2 DEF Outcome, Becomes

LEMMA Continuing ==
    ASSUME NEW p \in Procs, Becomes(p, proc'[p]), proc[p] \in Workers, Writes(proc[p]),
           proc[p].at # "replace", UNCHANGED file,
           proc'[p].cmd = proc[p].cmd, proc'[p].found = proc[p].found,
           Carries(p, proc'[p].map, proc'[p].kept),
           \/ UNCHANGED temporary /\ proc'[p].at # "replace"
           \/ proc[p].at = "save" /\ temporary' = proc'[p].map
    PROVE  Outcome(p)
<1>1. proc[p].kept \in Nat /\ proc[p].found \in Nat /\ proc'[p].kept \in Nat
  BY WorkerTypes DEF Becomes
<1>2. ASSUME Continues(proc[p]) PROVE Continues(proc[p])'
  <2>1. ASSUME file # None
        PROVE  /\ file \in GoodMaps /\ proc[p].found = Len(file.samples)
               /\ proc'[p].kept <= proc'[p].found
               /\ proc'[p].kept <= Len(proc'[p].map.samples)
               /\ \A i \in 1..proc'[p].kept : proc'[p].map.samples[i] = file.samples[i]
    <3>1. /\ file \in GoodMaps /\ proc[p].found = Len(file.samples)
          /\ proc[p].kept <= proc[p].found /\ proc[p].kept <= Len(proc[p].map.samples)
          /\ \A i \in 1..proc[p].kept : proc[p].map.samples[i] = file.samples[i]
      BY <1>2, <2>1 DEF Continues
    <3>2. /\ proc'[p].kept <= proc[p].kept
          /\ proc'[p].kept <= Len(proc'[p].map.samples)
          /\ \A i \in 1..proc'[p].kept :
                proc'[p].map.samples[i] = proc[p].map.samples[i]
      BY <3>1 DEF Carries
    <3>3. QED BY <1>1, <3>1, <3>2
  <2>2. proc'[p].at = "replace" => temporary' = proc'[p].map
    OBVIOUS
  <2>3. QED BY <2>1, <2>2 DEF Continues
<1>3. proc[p].at # "off"
  BY DEF Writes
<1>4. QED BY <1>2, <1>3 DEF Outcome, Becomes

\* With the same map it carries on.
LEMMA SameMap ==
    ASSUME NEW p \in Procs, proc[p] \in Workers,
           proc'[p].map = proc[p].map, proc'[p].kept = proc[p].kept
    PROVE  Carries(p, proc'[p].map, proc'[p].kept)
  BY WorkerTypes DEF Carries

-----------------------------------------------------------------------------
(* The steps. *)

LEMMA OverOutcome ==
    ASSUME IInv, NEW p \in Procs, Over(p), proc[p].at # "off",
           UNCHANGED <<file, temporary>> \/ proc[p].at \in {"save", "replace"}
    PROVE  Outcome(p)
<1>1. Becomes(p, Off)
  BY Itself, OffWorks, ProcSet DEF Over
<1>2. proc'[p] = Off /\ Becomes(p, proc'[p])
  BY <1>1 DEF Becomes
<1>3. proc'[p].at = "off"
  BY <1>2, OffWorks
<1>4. QED BY <1>2, <1>3, Leaving

LEMMA ToOutcome ==
    ASSUME IInv, NEW p \in Procs, NEW a \in Ats, To(p, a), proc[p].at # "off",
           a \in {"close", "park", "release"} \/ proc[p].cmd = "track",
           UNCHANGED <<file, temporary>> \/ proc[p].at \in {"save", "replace"}
    PROVE  Outcome(p)
<1>1. /\ Becomes(p, proc'[p]) /\ proc'[p].at = a /\ proc'[p].cmd = proc[p].cmd
  BY Itself, Moved DEF SameLocals
<1>2. QED BY <1>1, Leaving

LEMMA UnwindOutcome ==
    ASSUME IInv, NEW p \in Procs, Unwind(p), proc[p].at # "off",
           UNCHANGED <<file, temporary>> \/ proc[p].at \in {"save", "replace"}
    PROVE  Outcome(p)
<1>1. CASE lease # p
  BY <1>1, OverOutcome DEF Unwind
<1>2. CASE lease = p
  <2> DEFINE a == IF proc[p].following THEN "close" ELSE "release"
  <2>1. To(p, a) /\ a \in Ats /\ a \in {"close", "release"}
    BY <1>2 DEF Unwind, Ats
  <2> HIDE DEF a
  <2>2. QED BY <2>1, ToOutcome
<1>3. QED BY <1>1, <1>2

LEMMA KillOutcome ==
    ASSUME IInv, NEW p \in Procs, Kill(p)
    PROVE  Outcome(p)
  BY OverOutcome DEF Kill

LEMMA RaiseOutcome ==
    ASSUME IInv, NEW p \in Procs, Raise(p)
    PROVE  Outcome(p)
  BY UnwindOutcome DEF Raise

LEMMA ReplaceOutcome ==
    ASSUME IInv, NEW p \in Procs, Replace(p)
    PROVE  Outcome(p)
  BY UnwindOutcome DEF Replace

LEMMA CloseOutcome ==
    ASSUME IInv, NEW p \in Procs, CloseController(p)
    PROVE  Outcome(p)
<1>1. "park" \in Ats
  BY DEF Ats
<1>2. QED BY <1>1, OverOutcome, ToOutcome DEF CloseController

LEMMA ReleaseOutcome ==
    ASSUME IInv, NEW p \in Procs, Release(p)
    PROVE  Outcome(p)
  BY OverOutcome DEF Release

LEMMA QuitOutcome ==
    ASSUME IInv, NEW p \in Procs, Quit(p)
    PROVE  Outcome(p)
  BY ToOutcome DEF Quit, Going, Ats

LEMMA StartTrackOutcome ==
    ASSUME IInv, NEW p \in Procs, StartTrack(p)
    PROVE  Outcome(p)
  BY ToOutcome DEF StartTrack, Going, Ats

LEMMA SaveOutcome ==
    ASSUME IInv, NEW p \in Procs, Save(p)
    PROVE  Outcome(p)
<1>1. /\ To(p, "replace") /\ proc[p].at = "save" /\ temporary' = proc[p].map
      /\ UNCHANGED file /\ "replace" \in Ats
  BY DEF Save, Ats
<1>2. /\ Becomes(p, proc'[p]) /\ proc'[p].at = "replace"
      /\ proc'[p].cmd = proc[p].cmd /\ proc'[p].found = proc[p].found
      /\ proc'[p].map = proc[p].map /\ proc'[p].kept = proc[p].kept
  BY <1>1, Itself, Moved DEF SameLocals
<1>3. Writes(proc[p])
  BY <1>1, Itself DEF Lines, Writes
<1>4. Carries(p, proc'[p].map, proc'[p].kept)
  BY <1>2, Itself, SameMap
<1>5. QED BY <1>1, <1>2, <1>3, <1>4, Itself, Continuing

LEMMA ParkOutcome ==
    ASSUME IInv, NEW p \in Procs, Park(p)
    PROVE  Outcome(p)
<1>1. UNCHANGED <<file, temporary>> /\ proc[p].at = "park" /\ "release" \in Ats
  BY DEF Park, Ats
<1>2. CASE To(p, "release")
  BY <1>1, <1>2, ToOutcome
<1>3. CASE proc' = [proc EXCEPT ![p].told = TRUE, ![p].at = "release"]
  <2> DEFINE w == [proc[p] EXCEPT !.told = TRUE, !.at = "release"]
  <2>1. proc[p] \in Workers /\ Types
    BY Itself
  <2>2. w \in Workers
    BY <1>1, <2>1 DEF Workers
  <2>3. w.at = "release" /\ w.cmd = proc[p].cmd
    BY <2>1 DEF Workers
  <2>4. proc' = [proc EXCEPT ![p] = w]
    BY <1>3
  <2> HIDE DEF w
  <2>5. Becomes(p, w)
    BY <2>1, <2>2, <2>4, ProcSet
  <2>6. proc'[p] = w
    BY <2>5 DEF Becomes
  <2>7. QED BY <1>1, <2>3, <2>5, <2>6, Leaving
<1>4. QED BY <1>2, <1>3 DEF Park

LEMMA TickOutcome ==
    ASSUME IInv, NEW p \in Procs, Tick(p)
    PROVE  Outcome(p)
<1>1. UNCHANGED <<file, temporary>> /\ proc[p].at = "look" /\ proc[p].cmd = "track"
  BY DEF Tick, Going
<1>2. PICK seen \in Places \cup {None} : proc' = [proc EXCEPT ![p].seen = seen]
  BY DEF Tick
<1> DEFINE w == [proc[p] EXCEPT !.seen = seen]
<1>3. proc[p] \in Workers /\ Types
  BY Itself
<1>4. w \in Workers
  BY <1>3 DEF Workers
<1>5. w.cmd = proc[p].cmd
  BY <1>3 DEF Workers
<1>6. proc' = [proc EXCEPT ![p] = w]
  BY <1>2
<1> HIDE DEF w
<1>7. Becomes(p, w)
  BY <1>3, <1>4, <1>6, ProcSet
<1>8. proc'[p] = w
  BY <1>7 DEF Becomes
<1>9. QED BY <1>1, <1>5, <1>7, <1>8, Leaving

LEMMA OpenOutcome ==
    ASSUME IInv, NEW p \in Procs, OpenSession(p)
    PROVE  Outcome(p)
<1> DEFINE a == IF proc[p].cmd = "collect" THEN "load" ELSE "start"
<1>1. /\ UNCHANGED <<file, temporary>> /\ proc[p].at = "open" /\ To(p, a) /\ a \in Ats
  BY DEF OpenSession, Ats
<1>2. \/ proc[p].cmd = "collect" /\ a = "load"
      \/ proc[p].cmd = "track"
  BY <1>1, Itself DEF Lines
<1> HIDE DEF a
<1>3. Becomes(p, proc'[p]) /\ proc'[p].at = a /\ proc'[p].cmd = proc[p].cmd
  BY <1>1, Itself, Moved DEF SameLocals
<1>4. Continues(proc[p])'
  BY <1>2, <1>3 DEF Continues, Writes
<1>5. QED BY <1>1, <1>3, <1>4 DEF Outcome, Becomes

\* Without Refits a fit begins alone, and nothing begins beside it.
LEMMA BeginOutcome ==
    ASSUME IInv, ~Refits, NEW p \in Procs, Begin(p)
    PROVE  Outcome(p)
<1>1. UNCHANGED <<file, temporary>>
  BY DEF Begin
<1>2. PICK cmd \in {"collect", "fit", "track"}, blind \in Blind :
        /\ \A q \in Running : "fit" \notin {cmd, proc[q].cmd}
        /\ proc' = [proc EXCEPT ![p] =
                   [Off EXCEPT !.cmd = cmd, !.blind = blind /\ cmd = "collect",
                               !.at = IF cmd = "collect" THEN "open" ELSE "load"]]
  BY DEF Begin
<1> DEFINE b == blind /\ cmd = "collect"
           a == IF cmd = "collect" THEN "open" ELSE "load"
           w == [Off EXCEPT !.cmd = cmd, !.blind = b, !.at = a]
<1>3. b \in BOOLEAN
  BY PixelTeachingAssumption
<1>4. a \in Ats /\ a \in {"open", "load"}
  BY DEF Ats
<1>5. proc' = [proc EXCEPT ![p] = w]
  BY <1>2
<1> HIDE DEF a, b
<1>6. w \in Workers
  BY <1>3, <1>4, OffWorks DEF Workers
<1>7. w.at = a /\ w.cmd = cmd
  BY OffWorks DEF Workers
<1> HIDE DEF w
<1>8. Becomes(p, w)
  BY <1>5, <1>6, Itself, ProcSet
<1>9. proc'[p] = w
  BY <1>8 DEF Becomes
<1>10. Continues(proc[p])'
  BY <1>4, <1>7, <1>9 DEF Continues, Writes
<1>11. QED BY <1>1, <1>2, <1>6, <1>7, <1>8, <1>9, <1>10 DEF Outcome, Becomes

LEMMA StartCollectOutcome ==
    ASSUME IInv, NEW p \in Procs, StartCollect(p)
    PROVE  Outcome(p)
<1>1. UNCHANGED <<file, temporary>> /\ proc[p].at = "start" /\ proc[p].cmd = "collect"
  BY DEF StartCollect, Going
<1>2. PICK f \in BOOLEAN : proc' = [proc EXCEPT ![p].following = f, ![p].at = "look"]
  BY DEF StartCollect
<1> DEFINE w == [proc[p] EXCEPT !.following = f, !.at = "look"]
<1>3. proc[p] \in Workers /\ Types
  BY Itself
<1>4. w \in Workers
  BY <1>3 DEF Workers, Ats
<1>5. w.at = "look" /\ w.cmd = proc[p].cmd /\ w.found = proc[p].found
  BY <1>3 DEF Workers
<1>6. w.map = proc[p].map /\ w.kept = proc[p].kept
  BY <1>3 DEF Workers
<1>7. proc' = [proc EXCEPT ![p] = w]
  BY <1>2
<1> HIDE DEF w
<1>8. Becomes(p, w)
  BY <1>3, <1>4, <1>7, ProcSet
<1>9. proc'[p] = w
  BY <1>8 DEF Becomes
<1>10. Carries(p, proc'[p].map, proc'[p].kept)
  BY <1>3, <1>6, <1>9, SameMap
<1>11. Writes(proc[p])
  BY <1>1 DEF Writes
<1>12. QED BY <1>1, <1>3, <1>5, <1>8, <1>9, <1>10, <1>11, Continuing

LEMMA LookCollectOutcome ==
    ASSUME IInv, NEW p \in Procs, LookCollect(p)
    PROVE  Outcome(p)
<1>1. UNCHANGED <<file, temporary>> /\ proc[p].at = "look" /\ proc[p].cmd = "collect"
  BY DEF LookCollect, Going
<1>2. PICK seen \in {carabiner, None} :
        proc' = [proc EXCEPT ![p].seen = seen, ![p].at = "key"]
  BY DEF LookCollect, Detects
<1> DEFINE w == [proc[p] EXCEPT !.seen = seen, !.at = "key"]
<1>3. proc[p] \in Workers /\ Types
  BY Itself
<1>4. w \in Workers
  BY <1>3, BenchTypes DEF Workers, Ats
<1>5. w.at = "key" /\ w.cmd = proc[p].cmd /\ w.found = proc[p].found
  BY <1>3 DEF Workers
<1>6. w.map = proc[p].map /\ w.kept = proc[p].kept
  BY <1>3 DEF Workers
<1>7. proc' = [proc EXCEPT ![p] = w]
  BY <1>2
<1> HIDE DEF w
<1>8. Becomes(p, w)
  BY <1>3, <1>4, <1>7, ProcSet
<1>9. proc'[p] = w
  BY <1>8 DEF Becomes
<1>10. Carries(p, proc'[p].map, proc'[p].kept)
  BY <1>3, <1>6, <1>9, SameMap
<1>11. Writes(proc[p])
  BY <1>1 DEF Writes
<1>12. QED BY <1>1, <1>3, <1>5, <1>8, <1>9, <1>10, <1>11, Continuing

LEMMA KeyOutcome ==
    ASSUME IInv, NEW p \in Procs, Key(p)
    PROVE  Outcome(p)
<1>1. UNCHANGED <<file, temporary>> /\ proc[p].at = "key" /\ proc[p].cmd = "collect"
  BY DEF Key, Going
<1>2. PICK m \in GoodMaps, k \in 0..MaxSamples, a \in {"look", "fit"} :
        MapChanges(p, m, proc[p].found, k, a) /\ Carries(p, m, k)
  BY KeyDoes
<1>3. Writes(proc[p])
  BY <1>1 DEF Writes
<1>4. QED BY <1>1, <1>2, <1>3, Itself, Continuing DEF MapChanges

LEMMA FitOutcome ==
    ASSUME IInv, NEW p \in Procs, Fit(p)
    PROVE  Outcome(p)
<1>1. UNCHANGED <<file, temporary>> /\ proc[p].at = "fit" /\ proc[p] \in Workers
  BY Itself DEF Fit
<1>2. PICK m \in GoodMaps :
        /\ MapChanges(p, m, proc[p].found, proc[p].kept, "save")
        /\ m.samples = proc[p].map.samples
  BY FitDoes
<1>3. Writes(proc[p])
  BY <1>1, Itself DEF Lines, Writes
<1>4. Carries(p, m, proc[p].kept)
  BY <1>1, <1>2, WorkerTypes DEF Carries
<1>5. QED BY <1>1, <1>2, <1>3, <1>4, Continuing DEF MapChanges

\* A writer has the whole of the file when it has read it.
LEMMA LoadOutcome ==
    ASSUME IInv, NEW p \in Procs, Load(p)
    PROVE  Outcome(p)
<1>1. UNCHANGED <<file, temporary>> /\ proc[p].at = "load"
  BY DEF Load
<1>2. PICK m \in GoodMaps, f \in 0..MaxSamples, k \in 0..MaxSamples, a \in Ats :
        /\ MapChanges(p, m, f, k, a) /\ Ready(p, m, a)
        /\ file # None => file \in GoodMaps /\ m = file /\ f = Len(file.samples) /\ k = f
  BY LoadDoes
<1>3. a # "replace"
  BY <1>2 DEF Ready
<1>4. Continues(proc[p])'
  BY <1>1, <1>2, <1>3 DEF Continues, MapChanges
<1>5. QED BY <1>1, <1>2, <1>4 DEF Outcome, MapChanges, Becomes

-----------------------------------------------------------------------------
(* The list in the file, and the one that takes its place. *)

LEMMA InitAlone == Init => LInv
<1> SUFFICES ASSUME Init PROVE LInv
  OBVIOUS
<1>1. \A p \in Procs : proc[p].at = "off"
  BY OffWorks DEF Init
<1>2. QED BY <1>1 DEF LInv, Alone, Continues, Writes

LEMMA NextContinues ==
    ASSUME IInv, LInv, ~Refits, [Next]_vars
    PROVE  LInv'
<1>1. CASE UNCHANGED <<file, temporary, proc>>
  BY <1>1 DEF LInv, Alone, Continues, Writes
<1>2. ASSUME NEW p \in Procs,
             \/ Begin(p) \/ Kill(p) \/ Raise(p) \/ OpenSession(p) \/ Load(p)
             \/ StartCollect(p) \/ LookCollect(p) \/ Key(p) \/ Fit(p) \/ Save(p) \/ Replace(p)
             \/ StartTrack(p) \/ Tick(p) \/ Quit(p)
             \/ CloseController(p) \/ Park(p) \/ Release(p)
      PROVE  LInv'
  <2>1. Outcome(p)
    BY <1>2, BeginOutcome, KillOutcome, RaiseOutcome, OpenOutcome, LoadOutcome,
       StartCollectOutcome, LookCollectOutcome, KeyOutcome, FitOutcome, SaveOutcome,
       ReplaceOutcome, StartTrackOutcome, TickOutcome, QuitOutcome, CloseOutcome,
       ParkOutcome, ReleaseOutcome
  <2>2. QED BY <2>1, OutcomeKeeps
<1>3. QED BY <1>1, <1>2 DEF Next, vars, Reset, Recalibrate

\* Bounded numbers have a greatest.
LEMMA Greatest ==
    ASSUME NEW n \in Nat, NEW T \in SUBSET (0..n), T # {}
    PROVE  \E x \in T : \A y \in T : y <= x
<1> DEFINE U == {n - x : x \in T}
           R == OpToRel(<, Nat)
<1>1. U \subseteq Nat /\ U # {}
  <2>1. \A x \in T : n - x \in Nat
    OBVIOUS
  <2>2. PICK x \in T : TRUE
    OBVIOUS
  <2>3. n - x \in U
    OBVIOUS
  <2>4. QED BY <2>1, <2>3
<1>2. \A x, y \in Nat : y < x => <<y, x>> \in R
  BY DEF OpToRel
<1> HIDE DEF R
<1>3. IsWellFoundedOn(R, Nat)
  BY NatLessThanWellFounded DEF R
<1>4. PICK u \in U : \A v \in U : ~ (<<v, u>> \in R)
  <2> HIDE DEF U
  <2>1. QED BY <1>1, <1>3, WFMin
<1>5. \A v \in U : u <= v
  <2> SUFFICES ASSUME NEW v \in U PROVE u <= v
    OBVIOUS
  <2> HIDE DEF U
  <2>1. u \in Nat /\ v \in Nat /\ ~ (v < u)
    BY <1>1, <1>2, <1>4
  <2>2. QED BY <2>1
<1>6. PICK x \in T : u = n - x
  OBVIOUS
<1>7. ASSUME NEW y \in T PROVE y <= x
  <2>1. n - x <= n - y
    BY <1>5, <1>6
  <2>2. QED BY <2>1
<1>8. QED BY <1>7

\* Two lists that agree on their first k have a common prefix of k at least.
LEMMA AgreeingLists ==
    ASSUME NEW S, NEW a \in Seq(S), NEW b \in Seq(S), NEW k \in Nat,
           k <= Len(a), k <= Len(b), \A i \in 1..k : a[i] = b[i]
    PROVE  Len(LongestCommonPrefix({a, b})) >= k
<1> DEFINE C == CommonPrefixes({a, b})
           c == SubSeq(a, 1, k)
<1>1. c = SubSeq(b, 1, k) /\ Len(c) = k
  OBVIOUS
<1>2. c \in C
  <2>1. c \in Prefixes(a)
    BY DEF Prefixes
  <2>2. IsPrefix(c, a) /\ IsPrefix(c, b)
    BY <1>1 DEF IsPrefix
  <2>3. QED BY <2>1, <2>2 DEF CommonPrefixes
<1>3. ASSUME NEW p \in C PROVE Len(p) \in 0..Len(a)
  <2>1. IsPrefix(p, a) /\ (p \in Prefixes(a) \/ p \in Prefixes(b))
    BY <1>3 DEF CommonPrefixes
  <2>2. Len(p) \in Nat
    BY <2>1 DEF Prefixes
  <2>3. QED BY <2>1, <2>2 DEF IsPrefix
<1> HIDE DEF C, c
<1> DEFINE T == {Len(p) : p \in C}
<1>4. T \in SUBSET (0..Len(a)) /\ T # {} /\ Len(a) \in Nat
  <2>1. Len(c) \in T
    BY <1>2
  <2>2. T \subseteq 0..Len(a)
    BY <1>3
  <2>3. QED BY <2>1, <2>2
<1>5. PICK x \in T : \A y \in T : y <= x
  <2> HIDE DEF T
  <2>1. QED BY <1>4, Greatest
<1>6. PICK longest \in C : \A other \in C : Len(other) <= Len(longest)
  BY <1>5
<1> DEFINE l == LongestCommonPrefix({a, b})
<1>7. l \in C /\ \A other \in C : Len(other) <= Len(l)
  BY <1>6 DEF LongestCommonPrefix, C
<1> HIDE DEF l
<1>8. k <= Len(l) /\ Len(l) \in Nat
  <2>1. Len(l) \in 0..Len(a)
    BY <1>3, <1>7
  <2>2. Len(c) <= Len(l)
    BY <1>2, <1>7
  <2>3. QED BY <1>1, <1>4, <2>1, <2>2
<1>9. QED BY <1>8 DEF l

\* A save by a writer that continues the file has in it what the writer kept.
LEMMA ReplaceContinues ==
    ASSUME IInv, LInv, NEW p \in Procs, Replace(p)
    PROVE  /\ file' # Torn /\ proc[p].at = "replace"
           /\ file # None =>
                 Len(LongestCommonPrefix({file.samples, file'.samples}))
                     >= Len(file.samples) - (proc[p].found - proc[p].kept)
<1>1. proc[p].at = "replace" /\ file' = temporary
  BY DEF Replace
<1>2. Mapped(proc[p]) /\ Lines(proc[p]) /\ proc[p] \in Workers
  BY Itself
<1>3. Writes(proc[p]) /\ proc[p].map \in GoodMaps
  BY <1>1, <1>2 DEF Lines, Writes, Mapped
<1>4. Continues(proc[p])
  BY DEF LInv
<1>5. file' = proc[p].map
  BY <1>1, <1>3, <1>4 DEF Continues
<1>6. file' # Torn
  BY <1>3, <1>5, GoodParts, TornAssumption
<1>7. ASSUME file # None
      PROVE  Len(LongestCommonPrefix({file.samples, file'.samples}))
                 >= Len(file.samples) - (proc[p].found - proc[p].kept)
  <2>1. /\ file \in GoodMaps /\ proc[p].found = Len(file.samples)
        /\ proc[p].kept <= proc[p].found /\ proc[p].kept <= Len(proc[p].map.samples)
        /\ \A i \in 1..proc[p].kept : proc[p].map.samples[i] = file.samples[i]
    BY <1>3, <1>4, <1>7 DEF Continues
  <2>2. file.samples \in Seq(Samples) /\ file'.samples \in Seq(Samples)
    BY <1>3, <1>5, <2>1, GoodParts
  <2>3. proc[p].kept \in Nat /\ proc[p].found \in Nat
    BY <1>2, WorkerTypes
  <2>4. Len(LongestCommonPrefix({file.samples, file'.samples})) >= proc[p].kept
    BY <1>5, <2>1, <2>2, <2>3, AgreeingLists
  <2>5. Len(file.samples) - (proc[p].found - proc[p].kept) = proc[p].kept
    BY <2>1, <2>3
  <2>6. QED BY <2>4, <2>5
<1>8. QED BY <1>1, <1>6, <1>7

\* Whatever is killed, raised or taken back over however many sittings, a save leaves in
\* the file what was taught before (PixelJointMap.save(), _existing_or_new_map()), as long
\* as no `fit` runs beside a collect: it reads the file without the lease.
THEOREM WhatWasTaughtStays ==
    ASSUME ~Refits
    PROVE  Spec => NothingTaughtIsLost
<1>1. Init => LInv
  BY InitAlone
<1>2. IInv /\ LInv /\ [Next]_vars => LInv'
  BY NextContinues
<1>3. IInv /\ LInv /\ [Next]_vars =>
        [file' # file =>
            /\ file' # Torn
            /\ file # None =>
                \E p \in Procs :
                    /\ proc[p].at = "replace"
                    /\ Len(LongestCommonPrefix({file.samples, file'.samples}))
                           >= Len(file.samples) - (proc[p].found - proc[p].kept)]_vars
  <2> SUFFICES ASSUME IInv, LInv, Next, file' # file
               PROVE  /\ file' # Torn
                      /\ file # None =>
                           \E p \in Procs :
                             /\ proc[p].at = "replace"
                             /\ Len(LongestCommonPrefix({file.samples, file'.samples}))
                                  >= Len(file.samples) - (proc[p].found - proc[p].kept)
    OBVIOUS
  <2>1. PICK p \in Procs : Replace(p)
    BY DEF Next, Reset, Recalibrate, Begin, Kill, Raise, OpenSession, Load, StartCollect,
       LookCollect, Key, Fit, Save, StartTrack, Tick, Quit, CloseController, Park, Release
  <2>2. QED BY <2>1, ReplaceContinues
<1>4. QED BY <1>1, <1>2, <1>3, Invariance, PTL DEF Spec, NothingTaughtIsLost

-----------------------------------------------------------------------------
(***************************************************************************)
(* The wrist servo, for every joint, limit, tolerance, shortfall and lock: *)
(* what it takes to move the arm, how fast it goes, and about how many     *)
(* scenes a calibration was taught.  Its invariants follow the lock from   *)
(* tick to tick, and the carabiner from line to line of a teach.           *)
(***************************************************************************)

ServoParts == {"goal", "dry", "command", "locked", "previous", "settled"}

\* The lock counts frames in a row of the thing that was last seen.
Persisting ==
  /\ DOMAIN servo = ServoParts /\ servo.locked \in 0..LockFrames /\ told.run \in 0..LockFrames
  /\ servo.locked >= 1 =>
        told.blob = servo.previous /\ told.blob # "none" /\ told.run >= servo.locked
  /\ AThingMustPersist

\* What a theorem about the speed needs: nothing is clipped, and enable() corrects nothing.
Zeroed == Starts \subseteq Low..High /\ WholeTurns = {0}

\* An arm that stood inside its limits is inside them, and was last sent where the command
\* is, or as far from it as the arm was when a hold was lost.
Following ==
  Zeroed /\ line = "servo" =>
    /\ pose \in Low..High /\ servo.command \in Low..High /\ told.frame \in Low..High
    /\ told.lag \in Nat
    /\ servo.dry \/ Abs(told.frame - servo.command) <= told.lag

\* A closed session leaves the arm where it comes to rest.
Resting == line = "idle" => pose \in Starts

WInv == Persisting /\ Following /\ Resting

-----------------------------------------------------------------------------

LEMMA PartsSet ==
  /\ "goal" \in ServoParts /\ "dry" \in ServoParts /\ "command" \in ServoParts
  /\ "locked" \in ServoParts /\ "previous" \in ServoParts /\ "settled" \in ServoParts
  BY DEF ServoParts

LEMMA NoServoIs ==
  /\ DOMAIN NoServo = ServoParts /\ NoServo.locked = 0
  BY DEF NoServo, ServoParts

LEMMA QuietIs ==
  ASSUME NEW p
  PROVE  Quiet(p).run = 0 /\ ~Quiet(p).moved /\ Quiet(p).frame = p /\ Quiet(p).lag = 0
  BY DEF Quiet

\* Outside the servo's own lines the servo is left alone.
LEMMA OthersKeep ==
  ASSUME WInv, UNCHANGED <<servo, told>>, line' # "servo", line' = "idle" => pose' \in Starts
  PROVE  WInv'
<1>1. Persisting'
  BY DEF WInv, Persisting, AThingMustPersist
<1>2. Following' /\ Resting'
  BY DEF Following, Resting
<1>3. QED BY <1>1, <1>2 DEF WInv

LEMMA TeachKeeps ==
  ASSUME WInv, Teach
  PROVE  WInv'
<1>1. CASE StartTeach
  BY <1>1, OthersKeep DEF StartTeach
<1>2. CASE \/ MeasureGoal \/ Confirmed \/ MeasureBefore
           \/ Bump \/ MeasureAfter \/ ConfirmReturn
  BY <1>2, OthersKeep
     DEF MeasureGoal, Confirmed, MeasureBefore, Bump,
         MeasureAfter, ConfirmReturn, Teaches
<1>3. CASE Return
  BY <1>3, OthersKeep DEF Return, Teaches
<1>4. CASE SaveWrist \/ AbandonTeach
  BY <1>4, OthersKeep DEF SaveWrist, AbandonTeach, Close
<1>5. CASE Disturb
  BY <1>5, OthersKeep DEF Disturb
<1>6. QED BY <1>1, <1>2, <1>3, <1>4, <1>5 DEF Teach

LEMMA RearrangeKeeps ==
  ASSUME WInv, Rearrange
  PROVE  WInv'
  BY OthersKeep DEF Rearrange, WInv, Resting

LEMMA EndServoKeeps ==
  ASSUME WInv, EndServo
  PROVE  WInv'
<1>1. line' = "idle" /\ pose' \in Starts /\ servo' = NoServo /\ told' = Quiet(0)
  BY DEF EndServo, Close
<1>2. Persisting'
  BY <1>1, NoServoIs, QuietIs, WristAssumption DEF Persisting, AThingMustPersist
<1>3. Following' /\ Resting'
  BY <1>1 DEF Following, Resting
<1>4. QED BY <1>2, <1>3 DEF WInv

LEMMA StartServoKeeps ==
  ASSUME WInv, StartServo
  PROVE  WInv'
<1>1. /\ line = "idle" /\ line' = "servo" /\ pose' = pose /\ told' = Quiet(pose)
  BY DEF StartServo
<1>2. PICK goal \in Goals, dry \in BOOLEAN, turn \in WholeTurns :
        servo' = [NoServo EXCEPT !.goal = goal, !.dry = dry,
                                 !.command = IF dry THEN pose ELSE pose + turn]
  BY DEF StartServo
<1>3. /\ DOMAIN servo' = ServoParts /\ servo'.locked = 0
      /\ servo'.command = IF dry THEN pose ELSE pose + turn
  BY <1>2, NoServoIs, PartsSet
<1>4. Persisting'
  BY <1>1, <1>3, QuietIs, WristAssumption DEF Persisting, AThingMustPersist
<1>5. pose \in Starts
  BY <1>1 DEF WInv, Resting
<1>6. Following'
  <2> SUFFICES ASSUME Zeroed
               PROVE  /\ pose' \in Low..High /\ servo'.command \in Low..High
                      /\ told'.frame \in Low..High /\ told'.lag \in Nat
                      /\ Abs(told'.frame - servo'.command) <= told'.lag
    BY DEF Following, Zeroed
  <2>1. pose \in Low..High /\ turn = 0
    BY <1>5 DEF Zeroed
  <2>2. servo'.command = pose
    BY <1>3, <2>1
  <2>3. pose - pose = 0 /\ Abs(0) = 0
    BY <2>1 DEF Abs
  <2>4. QED BY <1>1, <2>1, <2>2, <2>3, QuietIs
<1>7. Resting'
  BY <1>1 DEF Resting
<1>8. QED BY <1>4, <1>6, <1>7 DEF WInv

\* Sees() counts the frames in a row that show the same thing.
LEMMA SeesDoes ==
  ASSUME Persisting,
         NEW blob, NEW leaked, NEW frame, NEW lag, NEW moved \in BOOLEAN,
         Sees(blob, leaked, frame, lag, moved)
  PROVE  /\ told'.blob = blob /\ told'.run \in 0..LockFrames
         /\ told'.moved => moved
         /\ told'.frame = IF servo.dry THEN told.frame ELSE frame
         /\ told'.lag = IF servo.dry THEN 0 ELSE lag
         /\ blob # "none" => told'.run >= 1
         /\ blob # "none" /\ blob = told.blob =>
              told'.run = told.run + 1 \/ told'.run = LockFrames
<1>1. told.run \in 0..LockFrames /\ LockFrames \in Nat \ {0}
  BY WristAssumption DEF Persisting
<1>2. Sights(blob) \in 1..LockFrames
  BY <1>1 DEF Sights, Lesser
<1>3. /\ told'.blob = blob /\ told'.run = IF blob = "none" THEN 0 ELSE Sights(blob)
      /\ told'.moved = (moved /\ ~servo.dry)
      /\ told'.frame = IF servo.dry THEN told.frame ELSE frame
      /\ told'.lag = IF servo.dry THEN 0 ELSE lag
  BY DEF Sees
<1>4. blob # "none" /\ blob = told.blob =>
        Sights(blob) = IF told.run + 1 < LockFrames THEN told.run + 1 ELSE LockFrames
  BY DEF Sights, Lesser
<1>5. QED BY <1>1, <1>2, <1>3, <1>4

\* A pose inside the limits is not clipped.
LEMMA InsideIs ==
  ASSUME NEW p \in Low..High
  PROVE  Clipped(p) = p
<1>1. Low \in Int /\ High \in Int
  BY WristAssumption
<1>2. QED BY <1>1 DEF Clipped, Most, Lesser

\* A tick that holds the arm: the lock is gone, the command is where the arm is, and so is
\* the frame, if the hold gets to the motors.
LEMMA HoldingKeeps ==
  ASSUME WInv, NEW blob, NEW leaked, Held(blob, leaked),
         line = "servo", line' = line,
         DOMAIN servo' = ServoParts, servo'.locked = 0, servo'.command = pose,
         servo'.dry = servo.dry, Follows
  PROVE  WInv'
<1> DEFINE trail == Abs(pose - told.frame)
<1>1. PICK f \in {Clipped(pose), told.frame}, g \in {0, trail} :
        /\ Sees(blob, leaked, f, g, FALSE)
        /\ (f = Clipped(pose) /\ g = 0) \/ (f = told.frame /\ g = trail)
  <2> DEFINE here == Clipped(pose)
             there == told.frame
             Sent(f, g) == Sees(blob, leaked, f, g, FALSE)
  <2>1. Sent(here, 0) \/ Sent(there, trail)
    BY DEF Held
  <2> HIDE DEF here, there, trail, Sent
  <2>2. \E f \in {here, there}, g \in {0, trail} :
          /\ Sent(f, g)
          /\ (f = here /\ g = 0) \/ (f = there /\ g = trail)
    BY <2>1
  <2>3. QED BY <2>2 DEF here, there, Sent
<1>2. Persisting
  BY DEF WInv
<1>3. /\ told'.run \in 0..LockFrames /\ ~told'.moved
      /\ told'.frame = IF servo.dry THEN told.frame ELSE f
      /\ told'.lag = IF servo.dry THEN 0 ELSE g
  BY <1>1, <1>2, SeesDoes
<1>4. Persisting'
  BY <1>3, WristAssumption DEF Persisting, AThingMustPersist
<1>5. Following'
  <2> SUFFICES ASSUME Zeroed
               PROVE  /\ pose' \in Low..High /\ servo'.command \in Low..High
                      /\ told'.frame \in Low..High /\ told'.lag \in Nat
                      /\ servo'.dry \/ Abs(told'.frame - servo'.command) <= told'.lag
    BY DEF Following, Zeroed
  <2>1. pose \in Low..High /\ told.frame \in Low..High /\ Low \in Int /\ High \in Int
    BY WristAssumption DEF WInv, Following
  <2>2. /\ trail \in Nat /\ Abs(told.frame - pose) = trail /\ Abs(pose - pose) = 0
    BY <2>1 DEF Abs
  <2> HIDE DEF trail
  <2>3. Clipped(pose) = pose
    BY <2>1, InsideIs
  <2>4. told'.frame \in Low..High /\ told'.lag \in Nat
    BY <1>1, <1>3, <2>1, <2>2, <2>3
  <2>5. servo'.dry \/ Abs(told'.frame - servo'.command) <= told'.lag
    BY <1>1, <1>3, <2>2, <2>3
  <2>6. pose' \in Low..High
    BY <2>1, <2>4 DEF Follows
  <2>7. QED BY <2>1, <2>4, <2>5, <2>6
<1>6. QED BY <1>4, <1>5 DEF WInv, Resting

LEMMA MissKeeps ==
  ASSUME WInv, Miss
  PROVE  WInv'
<1>1. /\ line = "servo" /\ line' = line /\ Follows /\ Held("none", FALSE)
      /\ servo' = [[servo EXCEPT !.previous = "none", !.settled = 0]
                      EXCEPT !.command = pose, !.locked = 0]
  BY DEF Miss, Steps, Holds
<1>2. DOMAIN servo = ServoParts
  BY DEF WInv, Persisting
<1>3. /\ DOMAIN servo' = ServoParts /\ servo'.locked = 0 /\ servo'.command = pose
      /\ servo'.dry = servo.dry
  BY <1>1, <1>2, PartsSet
<1>4. QED BY <1>1, <1>3, HoldingKeeps

LEMMA HoldStillKeeps ==
  ASSUME WInv, HoldStill
  PROVE  WInv'
<1>1. line = "servo" /\ line' = line /\ Follows
  BY DEF HoldStill, Steps
<1>2. PICK view \in Views, n \in {0, servo.settled + 1} :
        /\ servo' = [[servo EXCEPT !.previous = view[1], !.settled = n]
                        EXCEPT !.command = pose, !.locked = 0]
        /\ Held(view[1], view[3])
  BY DEF HoldStill, Holds
<1>3. DOMAIN servo = ServoParts
  BY DEF WInv, Persisting
<1>4. /\ DOMAIN servo' = ServoParts /\ servo'.locked = 0 /\ servo'.command = pose
      /\ servo'.dry = servo.dry
  BY <1>2, <1>3, PartsSet
<1>5. QED BY <1>1, <1>2, <1>4, HoldingKeeps

\* A tick with a target sees something, and under a lock the same thing again.
LEMMA WristTargets ==
  ASSUME WInv, NEW view \in Views, HasTarget(view[1], view[2])
  PROVE  /\ view[1] # "none"
         /\ servo.locked >= 1 => view[1] = told.blob
<1>1. view[1] # "none"
  <2>1. CASE \E e \in Frames \cup Leaks :
               view = <<"true", FeatureError(Image(pose) + e, servo.goal), e \notin Frames>>
    BY <2>1
  <2>2. CASE \E error \in Strangers : view = <<"other", error, FALSE>>
    BY <2>2
  <2>3. calibration.fit.num # 0
    BY DEF Views
  <2>4. QED BY <2>1, <2>2, <2>3 DEF Views
<1>2. servo.previous = "none" \/ servo.previous = view[1]
  BY DEF HasTarget, Jumped
<1>3. QED BY <1>1, <1>2 DEF WInv, Persisting

LEMMA LockOnKeeps ==
  ASSUME WInv, LockOn
  PROVE  WInv'
<1>1. /\ line = "servo" /\ line' = line /\ Follows /\ servo.locked + 1 < LockFrames
  BY DEF LockOn, Steps
<1>2. PICK view \in Views :
        /\ HasTarget(view[1], view[2])
        /\ servo' = [servo EXCEPT !.previous = view[1], !.settled = 0,
                                  !.locked = servo.locked + 1]
        /\ Sees(view[1], view[3], told.frame, told.lag, FALSE)
  BY DEF LockOn
<1>3. /\ DOMAIN servo = ServoParts /\ servo.locked \in 0..LockFrames
      /\ LockFrames \in Nat \ {0} /\ Persisting /\ told.run \in 0..LockFrames
      /\ servo.locked >= 1 => told.run >= servo.locked
  BY WristAssumption DEF WInv, Persisting
<1>4. /\ DOMAIN servo' = ServoParts /\ servo'.locked = servo.locked + 1
      /\ servo'.previous = view[1] /\ servo'.command = servo.command
      /\ servo'.dry = servo.dry
  BY <1>2, <1>3, PartsSet
<1> DEFINE frame == IF servo.dry THEN told.frame ELSE told.frame
           lag == IF servo.dry THEN 0 ELSE told.lag
<1>5. /\ told'.blob = view[1] /\ told'.run \in 0..LockFrames /\ (told'.moved => FALSE)
      /\ told'.frame = frame /\ told'.lag = lag
      /\ view[1] # "none" => told'.run >= 1
      /\ view[1] # "none" /\ view[1] = told.blob =>
            told'.run = told.run + 1 \/ told'.run = LockFrames
  <2> DEFINE blob == view[1]
             leaked == view[3]
             f == told.frame
             g == told.lag
  <2>1. Sees(blob, leaked, f, g, FALSE) /\ Persisting /\ FALSE \in BOOLEAN
    BY <1>2, <1>3
  <2> HIDE DEF blob, leaked, f, g
  <2>2. /\ told'.blob = blob /\ told'.run \in 0..LockFrames /\ (told'.moved => FALSE)
        /\ told'.frame = (IF servo.dry THEN told.frame ELSE f)
        /\ told'.lag = (IF servo.dry THEN 0 ELSE g)
        /\ blob # "none" => told'.run >= 1
        /\ blob # "none" /\ blob = told.blob =>
              told'.run = told.run + 1 \/ told'.run = LockFrames
    BY <2>1, SeesDoes
  <2>3. QED BY <2>2 DEF blob, f, g
<1> HIDE DEF frame, lag
<1>6. told'.run >= servo'.locked
  BY <1>1, <1>2, <1>3, <1>4, <1>5, WristTargets
<1>7. Persisting'
  BY <1>1, <1>2, <1>3, <1>4, <1>5, <1>6, WristTargets DEF Persisting, AThingMustPersist
<1>8. Following'
  BY <1>1, <1>4, <1>5 DEF WInv, Following, Zeroed, Follows, frame, lag
<1>9. QED BY <1>1, <1>7, <1>8 DEF WInv, Resting

\* A command goes towards a target inside the limits by a step at most.
LEMMA TowardIs ==
  ASSUME NEW target \in Low..High, servo.command \in Low..High
  PROVE  /\ Toward(target) \in Low..High
         /\ Abs(Toward(target) - servo.command) <= MaxStep
         /\ Clipped(Toward(target)) = Toward(target)
<1>1. MaxStep \in Nat /\ Low \in Int /\ High \in Int
  BY WristAssumption
<1>2. /\ Toward(target) \in Low..High
      /\ Abs(Toward(target) - servo.command) <= MaxStep
  BY <1>1 DEF Toward, Most, Lesser, Abs
<1> HIDE DEF Toward
<1>3. QED BY <1>1, <1>2 DEF Clipped, Most, Lesser

LEMMA TrackDoes ==
  ASSUME WInv, Track
  PROVE  /\ WInv'
         /\ Zeroed => Abs(told'.frame - told.frame) <= MaxStep + told.lag
<1>1. /\ line = "servo" /\ line' = line /\ Follows /\ servo.locked + 1 >= LockFrames
  BY DEF Track, Steps
<1>2. PICK view \in Views :
        /\ HasTarget(view[1], view[2])
        /\ servo' = [servo EXCEPT !.previous = view[1], !.settled = 0, !.locked = LockFrames,
                                  !.command = Toward(pose + Solve(view[2]))]
        /\ Sees(view[1], view[3], Clipped(Toward(pose + Solve(view[2]))), 0, TRUE)
  BY DEF Track
<1> DEFINE target == pose + Solve(view[2])
           command == Toward(target)
<1>3. /\ DOMAIN servo = ServoParts /\ servo.locked \in 0..LockFrames
      /\ LockFrames \in Nat \ {0} /\ Persisting /\ told.run \in 0..LockFrames
      /\ servo.locked >= 1 => told.run >= servo.locked
  BY WristAssumption DEF WInv, Persisting
<1>4. target \in Low..High
  BY <1>2 DEF HasTarget
<1>5. /\ DOMAIN servo' = ServoParts /\ servo'.locked = LockFrames
      /\ servo'.previous = view[1] /\ servo'.command = command
      /\ servo'.dry = servo.dry
  BY <1>2, <1>3, PartsSet
<1>6. /\ told'.blob = view[1] /\ told'.run \in 0..LockFrames
      /\ told'.frame = IF servo.dry THEN told.frame ELSE Clipped(command)
      /\ told'.lag = 0
      /\ view[1] # "none" => told'.run >= 1
      /\ view[1] # "none" /\ view[1] = told.blob =>
            told'.run = told.run + 1 \/ told'.run = LockFrames
  <2> DEFINE blob == view[1]
             leaked == view[3]
             frame == Clipped(command)
  <2>1. Sees(blob, leaked, frame, 0, TRUE) /\ Persisting /\ TRUE \in BOOLEAN
    BY <1>2, <1>3
  <2> HIDE DEF blob, leaked, frame
  <2>2. /\ told'.blob = blob /\ told'.run \in 0..LockFrames
        /\ told'.frame = (IF servo.dry THEN told.frame ELSE frame)
        /\ told'.lag = (IF servo.dry THEN 0 ELSE 0)
        /\ blob # "none" => told'.run >= 1
        /\ blob # "none" /\ blob = told.blob =>
              told'.run = told.run + 1 \/ told'.run = LockFrames
    BY <2>1, SeesDoes
  <2>3. QED BY <2>2 DEF blob, frame
<1> HIDE DEF command, target
<1>7. told'.run = LockFrames
  BY <1>1, <1>2, <1>3, <1>6, WristTargets
<1>8. Persisting'
  BY <1>2, <1>3, <1>5, <1>6, <1>7, WristTargets DEF Persisting, AThingMustPersist
<1>9. ASSUME Zeroed
      PROVE  /\ pose' \in Low..High /\ servo'.command \in Low..High
             /\ told'.frame \in Low..High /\ told'.lag \in Nat
             /\ servo'.dry \/ Abs(told'.frame - servo'.command) <= told'.lag
             /\ Abs(told'.frame - told.frame) <= MaxStep + told.lag
  <2>1. /\ pose \in Low..High /\ servo.command \in Low..High
        /\ told.frame \in Low..High /\ told.lag \in Nat
        /\ servo.dry \/ Abs(told.frame - servo.command) <= told.lag
    BY <1>1, <1>9 DEF WInv, Following
  <2>2. /\ command \in Low..High /\ Abs(command - servo.command) <= MaxStep
        /\ Clipped(command) = command
    BY <1>4, <2>1, TowardIs DEF command
  <2>3. pose' \in Low..High
    BY <1>1, <1>6, <2>1, <2>2 DEF Follows
  <2>4. MaxStep \in Nat /\ Low \in Int /\ High \in Int
    BY WristAssumption
  <2>5. CASE servo.dry
    BY <1>5, <1>6, <2>1, <2>2, <2>3, <2>4, <2>5 DEF Abs
  <2>6. CASE ~servo.dry
    <3>1. told'.frame = command /\ Abs(told.frame - servo.command) <= told.lag
      BY <1>6, <2>1, <2>2, <2>6
    <3>2. Abs(command - told.frame) <= MaxStep + told.lag
      BY <2>1, <2>2, <2>4, <3>1 DEF Abs
    <3>3. Abs(command - command) = 0
      BY <2>2, <2>4 DEF Abs
    <3>4. QED BY <1>5, <1>6, <2>2, <2>3, <3>1, <3>2, <3>3
  <2>7. QED BY <2>5, <2>6
<1>10. Following'
  BY <1>1, <1>9 DEF Following, Zeroed
<1>11. QED BY <1>1, <1>8, <1>9, <1>10 DEF WInv, Resting

THEOREM WristInvariance == WristSpec => []WInv
<1>1. WristInit => WInv
  <2> SUFFICES ASSUME WristInit PROVE WInv
    OBVIOUS
  <2>1. line = "idle" /\ pose \in Starts /\ servo = NoServo /\ told = Quiet(0)
    BY DEF WristInit
  <2>2. QED BY <2>1, NoServoIs, QuietIs, WristAssumption
     DEF WInv, Persisting, Following, Resting, AThingMustPersist
<1>2. WInv /\ [WristNext]_wristVars => WInv'
  <2> SUFFICES ASSUME WInv, [WristNext]_wristVars PROVE WInv'
    OBVIOUS
  <2>1. CASE WristNext
    BY <2>1, TeachKeeps, RearrangeKeeps, StartServoKeeps, MissKeeps, HoldStillKeeps,
       LockOnKeeps, TrackDoes, EndServoKeeps DEF WristNext, Servo
  <2>2. CASE UNCHANGED wristVars
    <3>1. UNCHANGED <<servo, told, line, pose>>
      BY <2>2 DEF wristVars
    <3>2. QED BY <3>1 DEF WInv, Persisting, Following, Resting, AThingMustPersist
  <2>3. QED BY <2>1, <2>2
<1>3. QED BY <1>1, <1>2, PTL DEF WristSpec

\* For every lock length, lag and sequence of frames, misses and strangers: the motors get
\* a target only from a thing that was there on LockFrames frames in a row (_hold()).
THEOREM MustPersist == WristSpec => []AThingMustPersist
<1>1. WInv => AThingMustPersist
  BY DEF WInv, Persisting
<1>2. QED BY <1>1, WristInvariance, PTL

\* For every step, limit, lag, leak, stranger, lost hold and calibration: an arm that starts
\* inside its soft limits, and whose readings enable() does not correct by a whole turn, is
\* sent no further than MaxStep from the frame it has, but for what it lagged behind that
\* frame when a hold was lost (max_step_rad, _hold()).
THEOREM StaysSlow ==
  ASSUME Starts \subseteq Low..High, WholeTurns = {0}
  PROVE  WristSpec => SpeedLock
<1>1. Zeroed
  BY DEF Zeroed
<1>2. WInv /\ [WristNext]_wristVars
        => [Track => Abs(told'.frame - told.frame) <= MaxStep + told.lag]_wristVars
  BY <1>1, TrackDoes
<1>3. QED BY <1>2, WristInvariance, PTL DEF WristSpec, SpeedLock

-----------------------------------------------------------------------------
(* A minority of leaked masks. *)

Majority(T) == T \subseteq 1..Detections /\ 2 * Cardinality(T) > Detections

LEMMA OddIs ==
  ASSUME NEW s \in Nat, s % 2 = 1
  PROVE  s >= 1 /\ \A c \in Nat : 2 * c # s
  BY SMT

LEMMA Counts ==
  ASSUME NEW T, T \subseteq 1..Detections
  PROVE  /\ IsFiniteSet(T) /\ Cardinality(T) \in Nat
         /\ Cardinality((1..Detections) \ T) = Detections - Cardinality(T)
<1>1. IsFiniteSet(1..Detections) /\ Cardinality(1..Detections) = Detections
  <2>1. 1 \in Int /\ Detections \in Int /\ Detections >= 1
    BY OddIs, WristAssumption
  <2>2. QED BY <2>1, FS_Interval
<1>2. IsFiniteSet(T) /\ Cardinality(T) \in Nat
  BY <1>1, FS_Subset, FS_CardinalityType
<1>3. (1..Detections) \cap T = T
  OBVIOUS
<1>4. Cardinality((1..Detections) \ T)
        = Cardinality(1..Detections) - Cardinality((1..Detections) \cap T)
  BY <1>1, FS_Difference
<1>5. QED BY <1>1, <1>2, <1>3, <1>4

\* Two majorities have a member in common, as Detections is odd the rest of a minority is one,
\* and so is whatever holds one.
LEMMA Majorities ==
  ASSUME NEW T, T \subseteq 1..Detections, NEW U, U \subseteq 1..Detections
  PROVE  /\ Majority(T) /\ Majority(U) => \E i \in 1..Detections : i \in T /\ i \in U
         /\ ~Majority(T) => Majority((1..Detections) \ T)
         /\ Majority(T) /\ T \subseteq U => Majority(U)
<1>1. Detections \in Nat /\ Detections % 2 = 1
  BY WristAssumption
<1>2. /\ Cardinality(T) \in Nat /\ Cardinality(U) \in Nat
      /\ Cardinality((1..Detections) \ T) = Detections - Cardinality(T)
      /\ IsFiniteSet(U) /\ IsFiniteSet((1..Detections) \ T)
  BY Counts
<1>3. T \subseteq U => Cardinality(T) <= Cardinality(U)
  BY <1>2, FS_Subset
<1>4. U \subseteq (1..Detections) \ T => Cardinality(U) <= Cardinality((1..Detections) \ T)
  BY <1>2, FS_Subset
<1>5. 2 * Cardinality(T) # Detections
  BY <1>1, <1>2, OddIs
<1>6. Majority(T) /\ Majority(U) => ~(U \subseteq (1..Detections) \ T)
  BY <1>1, <1>2, <1>4 DEF Majority
<1>7. ~Majority(T) => Majority((1..Detections) \ T)
  BY <1>1, <1>2, <1>5 DEF Majority
<1>8. Majority(T) /\ T \subseteq U => Majority(U)
  BY <1>1, <1>2, <1>3 DEF Majority
<1>9. QED BY <1>6, <1>7, <1>8

\* The median of rows of which a minority leaked is one that did not (_measure()).
LEMMA MedianIsClean ==
  ASSUME NEW rows \in Rows
  PROVE  Median(rows) \in Frames
<1> DEFINE S == 1..Detections
           Dirty == {i \in S : rows[i] \notin Frames}
           Below(x) == {i \in S : rows[i] <= x}
           Above(x) == {i \in S : rows[i] >= x}
           IsMedian(x) == x \in Range(rows)
                             /\ 2 * Cardinality(Below(x)) > Detections
                             /\ 2 * Cardinality(Above(x)) > Detections
<1>1. /\ rows \in [S -> Frames \cup Leaks] /\ 2 * Cardinality(Dirty) < Detections
      /\ Detections \in Nat /\ Leaks \subseteq Int
  BY WristAssumption DEF Rows
<1>2. /\ \A i \in S : rows[i] \in Int
      /\ \A i \in S \ Dirty : rows[i] \in {0, -1}
  <2>1. ASSUME NEW i \in S PROVE rows[i] \in Int
    <3>1. rows[i] \in Frames \cup Leaks
      BY <1>1
    <3>2. Frames \subseteq Int
      BY DEF Frames
    <3>3. rows[i] \in Frames => rows[i] \in Int
      BY <3>2
    <3>4. QED BY <1>1, <3>1, <3>3
  <2>2. ASSUME NEW i \in S \ Dirty PROVE rows[i] \in {0, -1}
    BY DEF Frames
  <2>3. QED BY <2>1, <2>2
<1>3. Median(rows) = CHOOSE x \in Range(rows) :
                        /\ 2 * Cardinality(Below(x)) > Detections
                        /\ 2 * Cardinality(Above(x)) > Detections
  BY DEF Median
<1>4. \A x : IsMedian(x) <=> x \in Range(rows) /\ Majority(Below(x)) /\ Majority(Above(x))
  BY DEF Majority
<1>5. \A x : x \in Range(rows) <=> \E i \in S : rows[i] = x
  BY <1>1 DEF Range
<1>6. \A x : Below(x) \subseteq S /\ Above(x) \subseteq S
  OBVIOUS
<1>7. Dirty \subseteq S /\ Majority(S \ Dirty)
  <2>1. Dirty \subseteq S /\ S \ Dirty \subseteq S
    OBVIOUS
  <2>2. ~Majority(Dirty)
    <3>1. Cardinality(Dirty) \in Nat
      BY <2>1, Counts
    <3>2. QED BY <1>1, <3>1 DEF Majority
  <2>3. QED BY <2>1, <2>2, Majorities
<1>8. \E x : IsMedian(x)
  <2>1. CASE Majority(Below(-1))
    <3>1. S \ Dirty \subseteq Above(-1)
      BY <1>2
    <3>2. Majority(Above(-1))
      <4>1. Above(-1) \subseteq S /\ S \ Dirty \subseteq S
        OBVIOUS
      <4> HIDE DEF Above, Below, Dirty
      <4>2. QED BY <1>7, <3>1, <4>1, Majorities
    <3>3. \E i \in S : i \in Below(-1) /\ i \in Above(-1)
      BY <1>6, <2>1, <3>2, Majorities
    <3>4. \E i \in S : rows[i] = -1
      BY <1>1, <1>2, <3>3
    <3>5. QED BY <1>4, <1>5, <2>1, <3>2, <3>4
  <2>2. CASE ~Majority(Below(-1))
    <3>1. Above(0) = S \ Below(-1)
      BY <1>1, <1>2
    <3>2. Majority(Above(0))
      BY <1>6, <2>2, <3>1, Majorities
    <3>3. S \ Dirty \subseteq Below(0)
      BY <1>2
    <3>4. Majority(Below(0))
      <4>1. Below(0) \subseteq S /\ S \ Dirty \subseteq S
        OBVIOUS
      <4> HIDE DEF Above, Below, Dirty
      <4>2. QED BY <1>7, <3>3, <4>1, Majorities
    <3>5. \E i \in S : i \in Below(0) /\ i \in Above(0)
      BY <1>6, <3>2, <3>4, Majorities
    <3>6. \E i \in S : rows[i] = 0
      BY <1>1, <1>2, <3>5
    <3>7. QED BY <1>4, <1>5, <3>2, <3>4, <3>6
  <2>3. QED BY <2>1, <2>2
<1>9. IsMedian(Median(rows))
  BY <1>3, <1>8
<1> DEFINE m == Median(rows)
<1>10. ASSUME m \notin Frames
       PROVE  FALSE
  <2>1. m \in Int /\ Majority(Below(m)) /\ Majority(Above(m))
    BY <1>2, <1>4, <1>5, <1>9, <1>10 DEF Frames
  <2>2. m > 0 \/ m < -1
    BY <1>10, <2>1 DEF Frames
  <2> HIDE DEF m
  <2>3. /\ \E i \in S : i \in Below(m) /\ i \in S \ Dirty
        /\ \E i \in S : i \in Above(m) /\ i \in S \ Dirty
    <3>1. Below(m) \subseteq S /\ Above(m) \subseteq S /\ S \ Dirty \subseteq S
      OBVIOUS
    <3>2. Majority(S \ Dirty) /\ Majority(Below(m)) /\ Majority(Above(m))
      BY <1>7, <2>1
    <3> HIDE DEF Below, Above, Dirty
    <3>3. QED BY <3>1, <3>2, Majorities
  <2>4. QED BY <1>1, <1>2, <2>1, <2>2, <2>3
<1>11. QED BY <1>10

-----------------------------------------------------------------------------
(* What is taught of a linear feature. *)

TeachLines == {"prompt", "return", "before", "bump", "after", "confirm", "save"}
DraftParts == {"goal", "goalScene", "lowest", "highest", "home", "before", "from", "trials"}

\* The carabiner has lain where it lies, and the goal was seen from home.
Still ==
  draft.lowest = draft.goalScene /\ draft.highest = draft.goalScene /\ scene = draft.goalScene
FromHome == draft.goal - (slope * draft.home + draft.goalScene) \in Frames

\* Moved once, it is seen where it was or where it is, from a home that nobody has leant on.
Scened ==
  line \in TeachLines =>
    /\ DOMAIN draft = DraftParts
    /\ draft.goal \in Int /\ draft.goalScene \in Scenes /\ draft.home \in Int
    /\ moves > 0 => Still /\ FromHome
    /\ Still \/ (FromHome /\ {draft.lowest, draft.highest} \subseteq {draft.goalScene, scene})
    /\ line = "prompt" => pose = draft.home \/ (Still /\ moves = 0)
    /\ line = "confirm" => torque /\ Abs(pose - draft.home) \in {0, Shortfall}

Gate(s) == ReturnScale * Tolerance + 1 + Abs(s) * Shortfall

Bench ==
  /\ scene \in Scenes /\ slope \in Slopes /\ moves \in 0..Disturbances
  /\ line \in TeachLines \cup {"goal"} => pose \in Int

SInv ==
  /\ Bench
  /\ ~angular => /\ Scened /\ TaughtInOneScene
                 /\ line = "save" => Spread(draft) <= Gate(slope)

LEMMA DraftSet ==
  /\ "goal" \in DraftParts /\ "goalScene" \in DraftParts /\ "lowest" \in DraftParts
  /\ "highest" \in DraftParts /\ "home" \in DraftParts /\ "before" \in DraftParts
  /\ "from" \in DraftParts /\ "trials" \in DraftParts
  BY DEF DraftParts

LEMMA MeasuresIs ==
  ASSUME ~angular, NEW p, NEW image \in Measures(p)
  PROVE  \E e \in Frames : image = Image(p) + e
<1>1. \A e \in LinearErrors : e \in Frames
  BY MedianIsClean DEF LinearErrors
<1>2. QED BY <1>1 DEF Measures

LEMMA GateIs ==
  ASSUME Bench
  PROVE  Gate(slope) \in Nat /\ Abs(slope) * Shortfall \in Nat
<1>1. /\ slope \in Int /\ Shortfall \in Nat /\ ReturnScale \in Nat /\ Tolerance \in Nat
  BY WristAssumption DEF Bench
<1>2. Abs(slope) \in Nat
  BY <1>1 DEF Abs
<1>3. Abs(slope) * Shortfall \in Nat /\ ReturnScale * Tolerance \in Nat
  BY <1>1, <1>2
<1>4. QED BY <1>3 DEF Gate

\* A joint that falls short moves the image by so much.
LEMMA ShortImage ==
  ASSUME NEW s \in Int, NEW p \in Int, NEW h \in Int, NEW f \in Nat, Abs(p - h) \in {0, f}
  PROVE  Abs(s * p - s * h) <= Abs(s) * f
<1>1. CASE p = h
  <2>1. s * p - s * h = 0
    BY <1>1
  <2>2. Abs(s) \in Nat
    BY DEF Abs
  <2>3. Abs(s) * f \in Nat
    BY <2>2
  <2>4. QED BY <2>1, <2>3 DEF Abs
<1>2. CASE p = h + f
  <2>1. s * p - s * h = s * f
    BY <1>2
  <2>2. Abs(s) * f = Abs(s * f)
    <3>1. CASE s >= 0
      BY <3>1 DEF Abs
    <3>2. CASE s < 0
      BY <3>2 DEF Abs
    <3>3. QED BY <3>1, <3>2
  <2>3. s * f \in Int /\ Abs(s * f) \in Int
    BY DEF Abs
  <2>4. QED BY <2>1, <2>2, <2>3
<1>3. CASE p = h - f
  <2>1. s * p - s * h = -(s * f)
    BY <1>3
  <2>2. Abs(s) * f = Abs(-(s * f))
    <3>1. CASE s >= 0
      BY <3>1 DEF Abs
    <3>2. CASE s < 0
      BY <3>2 DEF Abs
    <3>3. QED BY <3>1, <3>2
  <2>3. s * f \in Int /\ Abs(-(s * f)) \in Int
    BY DEF Abs
  <2>4. QED BY <2>1, <2>2, <2>3
<1>4. QED BY <1>1, <1>2, <1>3 DEF Abs

\* Whatever ends or is no teach leaves nothing to say but of the file.
LEMMA Elsewhere ==
  ASSUME SInv, line' \notin TeachLines \cup {"goal"}, UNCHANGED <<angular, calibration>>,
         slope' \in Slopes, scene' \in Scenes, moves' \in 0..Disturbances
  PROVE  SInv'
<1>1. "save" \in TeachLines
  BY DEF TeachLines
<1>2. Bench'
  BY DEF SInv, Bench
<1>3. QED BY <1>1, <1>2 DEF SInv, Scened, TaughtInOneScene

LEMMA ServoScenes ==
  ASSUME SInv, Servo \/ Rearrange \/ AbandonTeach
  PROVE  SInv'
<1>1. slope \in Slopes /\ scene \in Scenes /\ moves \in 0..Disturbances /\ 0 \in 0..Disturbances
  BY WristAssumption DEF SInv, Bench
<1>2. "idle" \notin TeachLines \cup {"goal"} /\ "servo" \notin TeachLines \cup {"goal"}
  BY DEF TeachLines
<1>3. CASE Servo
  <2>1. CASE StartServo
    BY <1>1, <1>2, <2>1, Elsewhere DEF StartServo, bench
  <2>2. CASE Miss \/ HoldStill \/ LockOn \/ Track
    BY <1>1, <1>2, <2>2, Elsewhere
       DEF Miss, HoldStill, LockOn, Track, Steps, bench
  <2>3. CASE EndServo
    BY <1>1, <1>2, <2>3, Elsewhere DEF EndServo, Close, bench
  <2>4. QED BY <1>3, <2>1, <2>2, <2>3 DEF Servo
<1>4. CASE Rearrange
  BY <1>1, <1>2, <1>4, Elsewhere DEF Rearrange
<1>5. CASE AbandonTeach
  BY <1>1, <1>2, <1>5, Elsewhere DEF AbandonTeach, Close, bench
<1>6. QED BY <1>3, <1>4, <1>5

LEMMA StartTeachScenes ==
  ASSUME SInv, StartTeach, Resting
  PROVE  SInv'
<1>1. /\ line' = "goal" /\ moves' = Disturbances
      /\ UNCHANGED <<angular, slope, scene, pose, calibration>> /\ pose \in Int
  BY WristAssumption DEF StartTeach, bench, Resting
<1>2. "goal" \notin TeachLines
  BY DEF TeachLines
<1>3. Bench'
  BY <1>1, WristAssumption DEF SInv, Bench
<1>4. QED BY <1>1, <1>2, <1>3 DEF SInv, Scened, TaughtInOneScene

LEMMA MeasureGoalScenes ==
  ASSUME SInv, MeasureGoal
  PROVE  SInv'
<1>1. /\ line = "goal" /\ line' = "prompt"
      /\ UNCHANGED <<angular, slope, scene, moves, pose, calibration>>
      /\ pose \in Int /\ scene \in Int /\ scene \in Scenes /\ slope \in Int
  BY WristAssumption DEF MeasureGoal, Teaches, bench, SInv, Bench
<1>2. Bench'
  BY <1>1 DEF SInv, Bench
<1>3. ASSUME ~angular
      PROVE  Scened'
  <2>1. PICK goal \in Measures(pose) :
          draft' = [goal |-> goal, goalScene |-> scene, lowest |-> scene, highest |-> scene,
                    home |-> pose, before |-> 0, from |-> pose, trials |-> <<>>]
    BY DEF MeasureGoal
  <2>2. PICK e \in Frames : goal = Image(pose) + e
    BY <1>3, MeasuresIs
  <2>3. /\ DOMAIN draft' = DraftParts /\ draft'.goal = goal /\ draft'.goalScene = scene
        /\ draft'.lowest = scene /\ draft'.highest = scene /\ draft'.home = pose
    BY <2>1 DEF DraftParts
  <2>4. slope * pose \in Int /\ e \in Int
    BY <1>1 DEF Frames
  <2>5. goal - (slope * pose + scene) = e /\ goal \in Int
    BY <1>1, <2>2, <2>4 DEF Image
  <2>6. FromHome' /\ Still'
    BY <1>1, <2>3, <2>5 DEF FromHome, Still
  <2>7. QED BY <1>1, <2>3, <2>5, <2>6 DEF Scened
<1>4. QED BY <1>1, <1>2, <1>3 DEF SInv, TaughtInOneScene

LEMMA ConfirmedScenes ==
  ASSUME SInv, Confirmed
  PROVE  SInv'
<1>1. /\ line = "prompt" /\ line' = "return"
      /\ UNCHANGED <<angular, slope, scene, moves, pose, calibration>>
      /\ draft' = [draft EXCEPT !.home = pose]
      /\ "prompt" \in TeachLines /\ "return" \in TeachLines
  BY DEF Confirmed, Teaches, bench, TeachLines
<1>2. Bench' /\ pose \in Int
  BY <1>1 DEF SInv, Bench
<1>3. ASSUME ~angular
      PROVE  Scened'
  <2>1. /\ DOMAIN draft = DraftParts /\ draft.goal \in Int /\ draft.goalScene \in Scenes
        /\ moves > 0 => Still /\ FromHome
        /\ Still \/ (FromHome /\ {draft.lowest, draft.highest} \subseteq {draft.goalScene, scene})
        /\ pose = draft.home \/ (Still /\ moves = 0)
    BY <1>1, <1>3 DEF SInv, Scened
  <2>2. /\ DOMAIN draft' = DraftParts /\ draft'.goal = draft.goal /\ draft'.home = pose
        /\ draft'.lowest = draft.lowest /\ draft'.highest = draft.highest
        /\ draft'.goalScene = draft.goalScene
    BY <1>1, <2>1, DraftSet
  <2>3. /\ Still => Still'
        /\ pose = draft.home /\ FromHome => FromHome'
    BY <1>1, <2>2 DEF Still, FromHome
  <2>4. moves \in Nat
    BY WristAssumption DEF SInv, Bench
  <2>5. QED BY <1>1, <1>2, <2>1, <2>2, <2>3, <2>4 DEF Scened
<1>4. QED BY <1>1, <1>2, <1>3 DEF SInv, TaughtInOneScene

LEMMA ReturnScenes ==
  ASSUME SInv, Return
  PROVE  SInv'
<1>1. /\ line = "return" /\ line' \in {"before", "confirm"} /\ torque'
      /\ UNCHANGED <<angular, slope, scene, moves, draft, calibration>>
      /\ pose' \in Settles(draft.home)
      /\ "return" \in TeachLines
  BY DEF Return, Teaches, bench, TeachLines
<1>2. pose' \in Int /\ Abs(pose' - draft.home) \in {0, Shortfall}
  BY <1>1, WristAssumption DEF Settles
<1>3. Bench'
  BY <1>1, <1>2 DEF SInv, Bench
<1>4. ASSUME ~angular
      PROVE  Scened'
  <2>1. UNCHANGED <<Still, FromHome>>
    BY <1>1 DEF Still, FromHome
  <2>2. QED BY <1>1, <1>2, <1>4, <2>1 DEF SInv, Scened
<1>5. QED BY <1>1, <1>3, <1>4 DEF SInv, TaughtInOneScene

LEMMA BumpScenes ==
  ASSUME SInv, Bump
  PROVE  SInv'
<1>1. /\ line = "bump" /\ line' = "after"
      /\ UNCHANGED <<angular, slope, scene, moves, draft, calibration>>
      /\ \E target : pose' \in Settles(target)
      /\ "bump" \in TeachLines
  BY DEF Bump, Teaches, bench, TeachLines
<1>2. pose' \in Int
  BY <1>1, WristAssumption DEF Settles
<1>3. Bench'
  BY <1>1, <1>2 DEF SInv, Bench
<1>4. ASSUME ~angular
      PROVE  Scened'
  <2>1. UNCHANGED <<Still, FromHome>>
    BY <1>1 DEF Still, FromHome
  <2>2. QED BY <1>1, <1>4, <2>1 DEF SInv, Scened
<1>5. QED BY <1>1, <1>3, <1>4 DEF SInv, TaughtInOneScene

\* A measurement notes where the carabiner lies.
LEMMA SeeingScenes ==
  ASSUME SInv, line \in TeachLines, line' \in {"bump", "return"},
         UNCHANGED <<angular, slope, scene, moves, pose, calibration>>,
         ~angular /\ DOMAIN draft = DraftParts =>
             /\ DOMAIN draft' = DraftParts /\ draft'.goal = draft.goal /\ draft'.home = draft.home
             /\ draft'.lowest = Lesser(draft.lowest, scene)
             /\ draft'.highest = Most(draft.highest, scene)
             /\ draft'.goalScene = draft.goalScene
  PROVE  SInv'
<1>1. Bench'
  BY DEF SInv, Bench, TeachLines
<1>2. ASSUME ~angular
      PROVE  Scened'
  <2>1. /\ DOMAIN draft = DraftParts
        /\ draft.goal \in Int /\ draft.goalScene \in Scenes /\ draft.home \in Int
        /\ moves > 0 => Still /\ FromHome
        /\ Still \/ (FromHome /\ {draft.lowest, draft.highest} \subseteq {draft.goalScene, scene})
    BY <1>2 DEF SInv, Scened
  <2>2. Still => Still'
    BY <1>2, <2>1 DEF Still, Lesser, Most
  <2>3. FromHome => FromHome'
    BY <1>2, <2>1 DEF FromHome
  <2>4. {draft.lowest, draft.highest} \subseteq {draft.goalScene, scene} =>
          {draft'.lowest, draft'.highest} \subseteq {draft.goalScene, scene}
    BY <1>2, <2>1 DEF Lesser, Most
  <2>5. QED BY <1>2, <2>1, <2>2, <2>3, <2>4 DEF Scened
<1>3. QED BY <1>1, <1>2 DEF SInv, TaughtInOneScene

LEMMA MeasureBeforeScenes ==
  ASSUME SInv, MeasureBefore
  PROVE  SInv'
<1>1. /\ line \in TeachLines /\ line' = "bump"
      /\ UNCHANGED <<angular, slope, scene, moves, pose, calibration>>
  BY DEF MeasureBefore, Teaches, bench, TeachLines
<1>2. PICK image :
        draft' = [[draft EXCEPT !.lowest = Lesser(@, scene),
                                !.highest = Most(@, scene)]
                     EXCEPT !.before = image, !.from = pose]
  BY DEF MeasureBefore, Seen
<1>3. DOMAIN draft = DraftParts =>
        /\ DOMAIN draft' = DraftParts /\ draft'.goal = draft.goal /\ draft'.home = draft.home
        /\ draft'.lowest = Lesser(draft.lowest, scene)
        /\ draft'.highest = Most(draft.highest, scene)
        /\ draft'.goalScene = draft.goalScene
  BY <1>2, DraftSet
<1>4. QED BY <1>1, <1>3, SeeingScenes

LEMMA MeasureAfterScenes ==
  ASSUME SInv, MeasureAfter
  PROVE  SInv'
<1>1. /\ line \in TeachLines /\ line' = "return"
      /\ UNCHANGED <<angular, slope, scene, moves, pose, calibration>>
  BY DEF MeasureAfter, Teaches, bench, TeachLines
<1>2. PICK trials :
        draft' = [[draft EXCEPT !.lowest = Lesser(@, scene),
                                !.highest = Most(@, scene)]
                     EXCEPT !.trials = trials]
  BY DEF MeasureAfter, Recorded, Seen
<1>3. DOMAIN draft = DraftParts =>
        /\ DOMAIN draft' = DraftParts /\ draft'.goal = draft.goal /\ draft'.home = draft.home
        /\ draft'.lowest = Lesser(draft.lowest, scene)
        /\ draft'.highest = Most(draft.highest, scene)
        /\ draft'.goalScene = draft.goalScene
  BY <1>2, DraftSet
<1>4. QED BY <1>1, <1>3, SeeingScenes

\* The image came back: the carabiner lies where it lay, but for what the gate lets pass.
LEMMA CameBackIs ==
  ASSUME SInv, ~angular, line = "confirm", FromHome,
         NEW image \in Measures(pose),
         CameBack(draft, image)
  PROVE  Abs(scene - draft.goalScene) <= Gate(slope)
<1>1. /\ slope \in Int /\ scene \in Int /\ pose \in Int /\ draft.home \in Int
      /\ draft.goalScene \in Int /\ Shortfall \in Nat /\ draft.goal \in Int
      /\ Abs(pose - draft.home) \in {0, Shortfall}
  <2>1. line \in TeachLines
    BY DEF TeachLines
  <2>2. Shortfall \in Nat /\ Scenes \subseteq Int /\ Slopes \subseteq Int
    BY WristAssumption
  <2>3. slope \in Slopes /\ scene \in Scenes /\ pose \in Int
    BY <2>1 DEF SInv, Bench
  <2>4. /\ draft.home \in Int /\ draft.goalScene \in Scenes /\ draft.goal \in Int
        /\ Abs(pose - draft.home) \in {0, Shortfall}
    BY <2>1 DEF SInv, Scened
  <2>5. QED BY <2>2, <2>3, <2>4
<1>2. PICK e \in Frames : image = Image(pose) + e
  BY MeasuresIs
<1> DEFINE e0 == draft.goal - (slope * draft.home + draft.goalScene)
           x == slope * pose
           y == slope * draft.home
           w == Abs(slope) * Shortfall
           k == ReturnScale * Tolerance
<1>3. e0 \in Frames
  BY DEF FromHome
<1>4. x \in Int /\ y \in Int
  BY <1>1
<1>5. Abs(x - y) <= w /\ w \in Nat
  BY <1>1, ShortImage, GateIs DEF SInv
<1>6. k \in Nat
  BY WristAssumption
<1>7. image = x + scene + e
  BY <1>2 DEF Image
<1>8. Abs(image - draft.goal) <= k
  BY DEF CameBack, FeatureError
<1>9. Gate(slope) = k + 1 + w
  BY DEF Gate
<1>10. draft.goal \in Int /\ draft.goal = y + draft.goalScene + e0
  BY <1>1, <1>3, <1>4
<1> HIDE DEF e0, x, y, w, k
<1>11. QED BY <1>1, <1>2, <1>3, <1>4, <1>5, <1>6, <1>7, <1>8, <1>9, <1>10
        DEF Abs, Frames

LEMMA ConfirmReturnScenes ==
  ASSUME SInv, ConfirmReturn
  PROVE  SInv'
<1>1. /\ line = "confirm" /\ line' = "save"
      /\ UNCHANGED <<angular, slope, scene, moves, pose, draft, calibration>>
      /\ line \in TeachLines /\ line' \in TeachLines
  BY DEF ConfirmReturn, Teaches, bench, TeachLines
<1>2. PICK image \in Measures(pose) : CameBack(draft, image)
  BY DEF ConfirmReturn
<1>3. Bench'
  BY <1>1 DEF SInv, Bench
<1>4. ASSUME ~angular
      PROVE  Scened' /\ Spread(draft) <= Gate(slope)
  <2>1. UNCHANGED <<Still, FromHome>>
    BY <1>1 DEF Still, FromHome
  <2>2. Scened'
    BY <1>1, <1>4, <2>1 DEF SInv, Scened
  <2>3. /\ scene \in Int /\ draft.goalScene \in Int /\ Gate(slope) \in Nat
        /\ Still \/ (FromHome /\ {draft.lowest, draft.highest} \subseteq {draft.goalScene, scene})
    BY <1>1, <1>4, GateIs, WristAssumption DEF SInv, Bench, Scened
  <2>4. CASE Still
    <3>1. Abs(draft.goalScene - draft.goalScene) = 0
      BY <2>3 DEF Abs
    <3>2. Spread(draft) = 0
      BY <2>4, <3>1 DEF Still, Spread, Most
    <3>3. QED BY <2>2, <2>3, <3>2
  <2>5. CASE FromHome /\ {draft.lowest, draft.highest} \subseteq {draft.goalScene, scene}
    <3>1. Abs(scene - draft.goalScene) <= Gate(slope)
      BY <1>1, <1>2, <1>4, <2>5, CameBackIs
    <3>2. Abs(draft.goalScene - draft.goalScene) <= Gate(slope)
      BY <2>3 DEF Abs
    <3>3. /\ Abs(draft.lowest - draft.goalScene) <= Gate(slope)
          /\ Abs(draft.highest - draft.goalScene) <= Gate(slope)
      BY <2>5, <3>1, <3>2
    <3>4. QED BY <2>2, <3>3 DEF Spread, Most
  <2>6. QED BY <2>2, <2>3, <2>4, <2>5
<1>5. Spread(draft') = Spread(draft) /\ Gate(slope') = Gate(slope)
  BY <1>1 DEF Spread, Gate
<1>6. QED BY <1>1, <1>3, <1>4, <1>5 DEF SInv, TaughtInOneScene

LEMMA SaveScenes ==
  ASSUME SInv, SaveWrist
  PROVE  SInv'
<1>1. /\ line = "save" /\ line' = "idle" /\ moves' = 0
      /\ UNCHANGED <<angular, slope, scene>>
      /\ calibration' = [slope |-> slope, goal |-> draft.goal,
                         fit |-> FittedColumn(draft.trials), spread |-> Spread(draft)]
      /\ "idle" \notin TeachLines \cup {"goal"}
  BY DEF SaveWrist, Close, bench, TeachLines
<1>2. Bench'
  BY <1>1, WristAssumption DEF SInv, Bench
<1>3. calibration'.slope = slope /\ calibration'.spread = Spread(draft)
  BY <1>1
<1>4. ~angular => TaughtInOneScene'
  BY <1>1, <1>3 DEF SInv, TaughtInOneScene, Gate
<1>5. Scened'
  BY <1>1 DEF Scened
<1>6. QED BY <1>1, <1>2, <1>4, <1>5 DEF SInv

LEMMA DisturbScenes ==
  ASSUME SInv, Disturb, Disturbances <= 1
  PROVE  SInv'
<1>1. /\ line # "save" /\ line \in TeachLines \cup {"goal"} /\ line' = line
      /\ moves > 0 /\ moves' = moves - 1
      /\ UNCHANGED <<angular, slope, torque, calibration, draft>>
  BY DEF Disturb, TeachLines
<1>2. moves = 1 /\ moves' = 0 /\ 0 \in 0..Disturbances
  BY <1>1, WristAssumption DEF SInv, Bench
<1>3. \/ scene' \in Scenes /\ pose' = pose
      \/ ~torque /\ pose' \in Int /\ scene' = scene
  BY WristAssumption DEF Disturb
<1>4. Bench'
  BY <1>1, <1>2, <1>3 DEF SInv, Bench
<1>5. ASSUME ~angular
      PROVE  Scened'
  <2> SUFFICES ASSUME line' \in TeachLines PROVE Scened'
    BY DEF Scened
  <2>1. /\ DOMAIN draft = DraftParts
        /\ draft.goal \in Int /\ draft.goalScene \in Scenes /\ draft.home \in Int
        /\ Still /\ FromHome
        /\ line = "prompt" => pose = draft.home \/ (Still /\ moves = 0)
        /\ line = "confirm" => torque /\ Abs(pose - draft.home) \in {0, Shortfall}
    BY <1>1, <1>2, <1>5 DEF SInv, Scened
  <2>2. FromHome' /\ {draft.lowest, draft.highest} \subseteq {draft.goalScene, scene'}
    BY <1>1, <2>1 DEF FromHome, Still
  <2>3. CASE scene' \in Scenes /\ pose' = pose
    BY <1>1, <1>2, <2>1, <2>2, <2>3 DEF Scened
  <2>4. CASE ~torque /\ pose' \in Int /\ scene' = scene
    <3>1. Still'
      BY <1>1, <2>1, <2>4 DEF Still
    <3>2. QED BY <1>1, <1>2, <2>1, <2>2, <2>4, <3>1 DEF Scened
  <2>5. QED BY <1>3, <2>3, <2>4
<1>6. QED BY <1>1, <1>4, <1>5 DEF SInv, TaughtInOneScene

\* A calibration of a linear feature that was saved was taught about one scene, for every
\* measurement of which a minority leaked, every shortfall and tolerance, where one thing
\* at most was moved while it was taught (_confirm_return()).
THEOREM OneScene ==
  ASSUME Disturbances <= 1
  PROVE  WristSpec => [](~angular => TaughtInOneScene)
<1>1. WristInit => SInv
  <2> SUFFICES ASSUME WristInit PROVE SInv
    OBVIOUS
  <2>1. /\ scene \in Scenes /\ slope \in Slopes /\ moves = 0
        /\ calibration = Nothing /\ line = "idle"
        /\ "idle" \notin TeachLines \cup {"goal"}
    BY DEF WristInit, TeachLines
  <2>2. QED BY <2>1, WristAssumption DEF SInv, Bench, Scened, TaughtInOneScene
<1>2. WInv /\ SInv /\ [WristNext]_wristVars => SInv'
  <2> SUFFICES ASSUME WInv, SInv, [WristNext]_wristVars PROVE SInv'
    OBVIOUS
  <2>1. CASE Teach
    BY <2>1, StartTeachScenes, MeasureGoalScenes, ConfirmedScenes, ReturnScenes,
       MeasureBeforeScenes, BumpScenes, MeasureAfterScenes, ConfirmReturnScenes, SaveScenes,
       ServoScenes, DisturbScenes DEF Teach, WInv
  <2>2. CASE Rearrange \/ Servo
    BY <2>2, ServoScenes
  <2>3. CASE UNCHANGED wristVars
    <3>1. UNCHANGED <<angular, slope, scene, pose, torque, calibration, line, draft, moves>>
      BY <2>3 DEF wristVars
    <3>2. QED BY <3>1 DEF SInv, Bench, Scened, Still, FromHome, TaughtInOneScene,
                          Spread, Gate
  <2>4. QED BY <2>1, <2>2, <2>3 DEF WristNext
<1>3. SInv => (~angular => TaughtInOneScene)
  BY DEF SInv
<1>4. QED BY <1>1, <1>2, <1>3, WristInvariance, PTL DEF WristSpec
=============================================================================
