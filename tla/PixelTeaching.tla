---------------------------- MODULE PixelTeaching ----------------------------
(***************************************************************************)
(* robot-pixel-map: `collect` teaches where the gripper has to be for an    *)
(* object at a pixel, `fit` fits a map to what was taught, `track` moves    *)
(* the arm to what the map predicts.  Commands are processes: collect and   *)
(* track hold the arm's lease while they run, fit holds nothing, and the    *)
(* calibration file is all they share.                                      *)
(*                                                                         *)
(* A pixel is the place the carabiner lies at, and a joint vector the place *)
(* it grasps; the operator captures with the gripper over the carabiner.    *)
(***************************************************************************)
EXTENDS Integers, Sequences, FiniteSets, SequencesExt

CONSTANTS
    Procs, Places,
    Stamps,             \* the arm and the calibration it may be under
    Blind,              \* the values --no-window may have
    Refits,             \* whether `fit` may run beside another command
    MinSamples,         \* MIN_SAMPLES
    MaxSamples,         \* the most samples one sitting holds: a bound of the model
    Commands,           \* the number of commands run: a bound of the model
    None, Torn          \* nothing, and a file that is not JSON

ASSUME PixelTeachingAssumption ==
    /\ Procs # {} /\ None \notin Procs /\ Places # {} /\ Stamps # {} /\ Blind \subseteq BOOLEAN
    /\ Refits \in BOOLEAN /\ MinSamples \in Nat \ {0} /\ MaxSamples \in Nat
    /\ Commands \in Nat

\* A sample, and the arm it was taught on, which only the map says.
Samples == [pixel: Places, pose: Places, on: Stamps]
Maps == [robot: Stamps, samples: Seq(Samples),
         fit: (SUBSET Samples) \cup {None}]

\* What is cut off in the writing is no map: json.loads() refuses it.
ASSUME TornAssumption == Torn \notin Maps

NewMap(stamp) == [robot |-> stamp, samples |-> <<>>, fit |-> None]

VARIABLES
    carabiner,  \* where it lies, and the gripper over it when the operator captures
    stamp,      \* the connected arm
    lease,      \* who holds the arm
    arm,        \* its torque, whether it has left the pose it was found in, and the last track target
    file,       \* the calibration file
    temporary,  \* the file beside it that a save writes first
    proc,       \* each process: its command, where it is, and its locals
    commands

vars == <<carabiner, stamp, lease, arm, file, temporary, proc, commands>>

\* Where a process is; it found so many samples in the file, and
\* so many of them it kept.
Off == [at |-> "off", cmd |-> None, map |-> None, seen |-> None,
        found |-> 0, kept |-> 0, blind |-> FALSE, following |-> FALSE, told |-> FALSE]

TypeOK ==
    /\ carabiner \in Places /\ stamp \in Stamps /\ lease \in Procs \cup {None}
    /\ arm \in [torque: BOOLEAN, away: BOOLEAN, to: Samples \cup {None}]
    /\ file \in Maps \cup {None, Torn} /\ temporary \in Maps \cup {None, Torn}
    /\ \A p \in Procs :
        /\ proc[p].at \in {"off", "load", "open", "start", "look", "key", "fit", "save",
                           "replace", "close", "park", "release"}
        /\ proc[p].cmd \in {"collect", "fit", "track", None}
        /\ proc[p].map \in Maps \cup {None}
        /\ proc[p].seen \in Places \cup {None}
        /\ {proc[p].found, proc[p].kept} \subseteq 0..MaxSamples
        /\ {proc[p].blind, proc[p].following, proc[p].told} \subseteq BOOLEAN
    /\ commands \in 0..Commands

Least(a, b) == IF a < b THEN a ELSE b
Running == {p \in Procs : proc[p].at # "off"}
Going(p, cmd, at) == proc[p].cmd = cmd /\ proc[p].at = at
To(p, at) == proc' = [proc EXCEPT ![p].at = at]

-----------------------------------------------------------------------------
(* The operator's side of the bench. *)

\* Between captures the carabiner is laid somewhere else and the arm follows it there.
Reset ==
    /\ \E place \in Places \ {carabiner} : carabiner' = place
    /\ \A p \in Procs : proc[p].at = "key" /\ proc[p].cmd = "collect" => proc[p].blind
    /\ arm' = [arm EXCEPT !.away = @ \/ \E p \in Procs : proc[p].following
                                            /\ proc[p].at \in {"look", "key"}]
    /\ UNCHANGED <<stamp, lease, file, temporary, proc, commands>>

\* Another arm, or this one zeroed again.
Recalibrate ==
    /\ lease = None
    /\ \E s \in Stamps \ {stamp} : stamp' = s
    /\ UNCHANGED <<carabiner, lease, arm, file, temporary, proc, commands>>

Begin(p) ==
    /\ proc[p].at = "off" /\ commands < Commands
    /\ \E cmd \in {"collect", "fit", "track"}, blind \in Blind :
        /\ Refits \/ \A q \in Running : "fit" \notin {cmd, proc[q].cmd}
        /\ proc' = [proc EXCEPT ![p] = [Off EXCEPT !.cmd = cmd, !.blind = blind /\ cmd = "collect",
                                        !.at = IF cmd = "collect" THEN "open" ELSE "load"]]
    /\ commands' = commands + 1
    /\ UNCHANGED <<carabiner, stamp, lease, arm, file, temporary>>

\* The process is over; whatever it held of the arm goes with it.
Over(p) ==
    /\ proc' = [proc EXCEPT ![p] = Off]
    /\ lease' = IF lease = p THEN None ELSE lease

\* kill -9: torque stays as it is, and so does the temporary file, however far it got.
Kill(p) ==
    /\ proc[p].at # "off"
    /\ Over(p)
    /\ temporary' \in {temporary} \cup (IF proc[p].at = "save" THEN {Torn} ELSE {})
    /\ UNCHANGED <<carabiner, stamp, arm, file, commands>>

\* The finally clauses, from wherever something raised.
Unwind(p) ==
    IF lease = p
    THEN To(p, IF proc[p].following THEN "close" ELSE "release") /\ UNCHANGED lease
    ELSE Over(p)

\* Ctrl-C, a camera that stops, a leader that cannot be opened, a full disk.
Raise(p) ==
    /\ proc[p].at \notin {"off", "close", "park", "release"}
    /\ Unwind(p)
    /\ temporary' \in {temporary} \cup (IF proc[p].at = "save" THEN {Torn} ELSE {})
    /\ UNCHANGED <<carabiner, stamp, arm, file, commands>>

-----------------------------------------------------------------------------
(* The session, and the file as it is found. *)

\* _open_session(); the pose the arm is in now is the one it can be let go in.
OpenSession(p) ==
    /\ proc[p].at = "open" /\ lease = None
    /\ lease' = p
    /\ arm' = [torque |-> FALSE, away |-> FALSE, to |-> None]
    /\ To(p, IF proc[p].cmd = "collect" THEN "load" ELSE "start")
    /\ UNCHANGED <<carabiner, stamp, file, temporary, commands>>

\* RobotStamp.verify()
Verify(map) == map.robot = stamp

\* BUG: the samples of the sittings before are left behind.
ExistingSamplesDropped(map) == [map EXCEPT !.samples = <<>>]

\* _existing_or_new_map(): everything the file has, for this run to append to.
Existing(map) == map

\* PixelJointMap.load() of a file that is there and is JSON.
Readable == file \notin {None, Torn}

\* The file is read: under the lease for collect, before it for the others.
Load(p) ==
    /\ proc[p].at = "load"
    /\ \/ /\ proc[p].cmd = "collect" /\ file = None
          /\ proc' = [proc EXCEPT ![p].map = NewMap(stamp), ![p].at = "start"]
       \/ /\ Readable
          /\ proc[p].cmd = "collect" => Verify(file)
          /\ proc[p].cmd = "track" => file.fit # None
          /\ proc' = [proc EXCEPT
                ![p].found = Len(file.samples), ![p].kept = Len(file.samples),
                ![p].map = IF proc[p].cmd = "collect" THEN Existing(file) ELSE file,
                ![p].at = CASE proc[p].cmd = "collect" -> "start"
                            [] proc[p].cmd = "track" -> "open"
                            [] OTHER -> "fit"]
    /\ UNCHANGED <<carabiner, stamp, lease, arm, file, temporary, commands>>

-----------------------------------------------------------------------------
(* collect *)

\* _start_teleoperation(), or --no-teleop, which leaves the arm limp.
StartCollect(p) ==
    /\ Going(p, "collect", "start")
    /\ \E following \in BOOLEAN :
        /\ proc' = [proc EXCEPT ![p].following = following, ![p].at = "look"]
        /\ arm' = [arm EXCEPT !.torque = following]
    /\ UNCHANGED <<carabiner, stamp, lease, file, temporary, commands>>

\* BUG: a frame without a detection leaves the one before in place.
DetectsOrKeeps(p) == {carabiner, proc[p].seen}

\* detect_carabiner() on the frame that was just read: where it lies, or nothing.
Detects(p) == {carabiner, None}

LookCollect(p) ==
    /\ Going(p, "collect", "look")
    /\ \E seen \in Detects(p) : proc' = [proc EXCEPT ![p].seen = seen, ![p].at = "key"]
    /\ UNCHANGED <<carabiner, stamp, lease, arm, file, temporary, commands>>

\* c, u, q or no key, and then a look at the leader, which may have stopped.
Key(p) ==
    /\ Going(p, "collect", "key")
    /\ \/ /\ proc[p].seen # None /\ Len(proc[p].map.samples) < MaxSamples
          /\ \E next \in {"look", "fit"} : proc' = [proc EXCEPT
                ![p].map.samples = Append(@, [pixel |-> proc[p].seen, pose |-> carabiner, on |-> stamp]),
                ![p].at = next]
       \/ /\ proc[p].map.samples # <<>>
          /\ \E next \in {"look", "fit"} : proc' = [proc EXCEPT
                ![p].map.samples = Front(@), ![p].kept = Least(@, Len(proc[p].map.samples) - 1),
                ![p].at = next]
       \/ \E next \in {"look", "fit"} : To(p, next)
    /\ UNCHANGED <<carabiner, stamp, lease, arm, file, temporary, commands>>

-----------------------------------------------------------------------------
(* fit, and the end of collect: with_samples(), fitted(), save(). *)

\* fitted(): the model, the hull and the roll, of every sample the map has.
Fitted(map) == [map EXCEPT !.fit = ToSet(map.samples)]

\* Too few samples, or --no-fit, leave the fit that is there; fit itself refuses.
Fit(p) ==
    /\ proc[p].at = "fit"
    /\ \/ /\ Len(proc[p].map.samples) >= MinSamples
          /\ proc' = [proc EXCEPT ![p].map = Fitted(@), ![p].at = "save"]
       \/ proc[p].cmd = "collect" /\ To(p, "save")
    /\ UNCHANGED <<carabiner, stamp, lease, arm, file, temporary, commands>>

\* save(): the whole document beside the file ...
Save(p) ==
    /\ proc[p].at = "save"
    /\ temporary' = proc[p].map
    /\ To(p, "replace")
    /\ UNCHANGED <<carabiner, stamp, lease, arm, file, commands>>

\* ... which then takes the file's place.
Replace(p) ==
    /\ proc[p].at = "replace" /\ temporary # None
    /\ file' = temporary /\ temporary' = None
    /\ Unwind(p)
    /\ UNCHANGED <<carabiner, stamp, arm, commands>>

-----------------------------------------------------------------------------
(* track *)

\* The confirmation, and VisualTracker.start(), which enables the arm.
StartTrack(p) ==
    /\ Going(p, "track", "start") /\ Verify(proc[p].map)
    /\ arm' = [arm EXCEPT !.torque = TRUE]
    /\ To(p, "look")
    /\ UNCHANGED <<carabiner, stamp, lease, file, temporary, commands>>

\* predict() and full_target(): nothing outside the hull of the samples of the fit.
Predicted(map, seen) == {s \in map.fit : s.pixel = seen}

\* _target_from_frame(): a detection near the last one, inside what was taught.
Targets(p, seen) ==
    IF seen = None \/ proc[p].seen \notin {None, seen} THEN {}
    ELSE Predicted(proc[p].map, seen)

\* One frame and its tick; a false detection can be anywhere.  The tracker locks on
\* before it moves, and holds without a target.
Tick(p) ==
    /\ Going(p, "track", "look")
    /\ \E seen \in Places \cup {None} :
        /\ proc' = [proc EXCEPT ![p].seen = seen]
        /\ \/ arm' = [arm EXCEPT !.to = None]
           \/ \E s \in Targets(p, seen) : arm' = [arm EXCEPT !.to = s, !.away = TRUE]
    /\ UNCHANGED <<carabiner, stamp, lease, file, temporary, commands>>

\* q, or a tracker that stopped.
Quit(p) ==
    /\ Going(p, "track", "look") /\ To(p, "release")
    /\ UNCHANGED <<carabiner, stamp, lease, arm, file, temporary, commands>>

-----------------------------------------------------------------------------
(* The way out of collect and track. *)

\* controller.close(hold=False); if the leader's disconnect raises, nothing below it runs.
CloseController(p) ==
    /\ proc[p].at = "close"
    /\ \/ To(p, "park") /\ UNCHANGED lease
       \/ Over(p)
    /\ UNCHANGED <<carabiner, stamp, arm, file, temporary, commands>>

\* BUG: the park is on the way out of a command that succeeded.
ParkIfSaved(p) ==
    /\ proc[p].at = "park"
    /\ IF temporary = None /\ file = proc[p].map
       THEN arm' = [arm EXCEPT !.away = FALSE] ELSE UNCHANGED arm
    /\ To(p, "release")
    /\ UNCHANGED <<carabiner, stamp, lease, file, temporary, commands>>

\* park_at_start_pose(): there, or a report that it could not, never an exception.
Park(p) ==
    /\ proc[p].at = "park"
    /\ \/ arm' = [arm EXCEPT !.away = FALSE] /\ To(p, "release")
       \/ /\ proc' = [proc EXCEPT ![p].told = TRUE, ![p].at = "release"]
          /\ UNCHANGED arm
    /\ UNCHANGED <<carabiner, stamp, lease, file, temporary, commands>>

\* session.close(): torque off, the bus, the lease.
Release(p) ==
    /\ proc[p].at = "release"
    /\ arm' = [arm EXCEPT !.torque = FALSE]
    /\ Over(p)
    /\ UNCHANGED <<carabiner, stamp, file, temporary, commands>>

-----------------------------------------------------------------------------
Init ==
    /\ carabiner \in Places /\ stamp \in Stamps
    /\ lease = None /\ arm = [torque |-> FALSE, away |-> FALSE, to |-> None]
    /\ file = None /\ temporary = None
    /\ proc = [p \in Procs |-> Off] /\ commands = 0

Next ==
    \/ Reset \/ Recalibrate
    \/ \E p \in Procs :
        \/ Begin(p) \/ Kill(p) \/ Raise(p) \/ OpenSession(p) \/ Load(p)
        \/ StartCollect(p) \/ LookCollect(p) \/ Key(p) \/ Fit(p) \/ Save(p) \/ Replace(p)
        \/ StartTrack(p) \/ Tick(p) \/ Quit(p)
        \/ CloseController(p) \/ Park(p) \/ Release(p)

Spec == Init /\ [][Next]_vars

-----------------------------------------------------------------------------
(* What the operator may rely on. *)

\* Every map there is: the file, what a save is writing, and those in memory.
AllMaps == ({file, temporary} \cup {proc[p].map : p \in Procs}) \ {None, Torn}
Taught(map) == ToSet(map.samples) \cup IF map.fit = None THEN {} ELSE map.fit

\* A sample pairs the pixel of an object with the pose that grasps that object there
\* (cmd_collect): never the pixel of a frame from before the object was moved, in the
\* list, in the file, or in what the arm is sent to track.
PairsAreTrue ==
    /\ \A map \in AllMaps : \A s \in Taught(map) : s.pixel = s.pose
    /\ \A p \in Procs : Going(p, "track", "look") /\ arm.to # None => arm.to.pose = proc[p].seen

\* Samples of two arms, or of one arm under two calibrations, are never merged in one
\* file, and no arm is moved to what was taught on another (RobotStamp.verify), although
\* track reads the file before it claims the arm.
OneArm ==
    /\ \A map \in AllMaps : \A s \in Taught(map) : s.on = map.robot
    /\ \A p \in Procs : Going(p, "track", "look") /\ arm.to # None => arm.to.on = stamp

\* A save (PixelJointMap.save) puts a whole document in the file's place, and what was
\* taught before is in it, but for as many samples as the operator took back: over
\* several sittings, exceptions and kills.
NothingTaughtIsLost ==
    [][file' # file =>
        /\ file' # Torn
        /\ file # None =>
            \E p \in Procs :
                /\ proc[p].at = "replace"
                /\ Len(LongestCommonPrefix({file.samples, file'.samples}))
                       >= Len(file.samples) - (proc[p].found - proc[p].kept)]_vars

\* However a teleoperated collect ends, torque comes off an arm that is back where it was
\* found, or the operator was told that it is not (park_at_start_pose).
LimpIsParkedOrTold ==
    \A p \in Procs :
        Going(p, "collect", "release") /\ arm.torque /\ arm.away => proc[p].told

\* "A prediction is refused unless the pixel is inside the convex hull of the calibration
\* points" (pixel_map.py:21-23): a fit in the file is made of samples in the file.
FitIsEvidence ==
    file \notin {None, Torn} /\ file.fit # None => file.fit \subseteq ToSet(file.samples)

=============================================================================
