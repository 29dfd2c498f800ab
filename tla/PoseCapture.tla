----------------------------- MODULE PoseCapture -----------------------------
(***************************************************************************)
(* How a measured pose becomes a named position: robot/monitor.py derives  *)
(* what the display shows of each joint, the operator captures a sample    *)
(* with p, and when the session is over monitor.py offers to save it and   *)
(* robot/capture.py writes it into the parameters file.                    *)
(*                                                                         *)
(* The file is what its loader makes of it: the calibration it describes   *)
(* and its presets; a preset is what is true of the pose it was made from. *)
(***************************************************************************)
EXTENDS Integers

CONSTANTS
    Joints, Names, Calibrations,
    StaleAfter,         \* stale_after_s, in polls
    EditsDuringSave,    \* whether somebody edits the file while it is being saved
    Sessions,           \* how many times the monitor is run: a bound of the model
    Edits,              \* how many times the file is edited by hand: a bound of the model
    Absent,             \* nothing
    Torn, Broken        \* a text that is cut off, and a whole one that does not load

ASSUME PoseCaptureAssumption ==
    /\ Joints # {} /\ Names # {} /\ Calibrations # {}
    /\ StaleAfter \in Nat /\ Sessions \in Nat /\ Edits \in Nat /\ EditsDuringSave \in BOOLEAN

\* What a joint's row says, and for how many polls its counter has not advanced.
Readings ==
    [position: {"inside", "outside", "missing", "faulted"}, quiet: 0..StaleAfter + 1]

MonitorSamples == [Joints -> Readings]

Presets == [of: Calibrations, inside: BOOLEAN, fresh: BOOLEAN]

Files == [calibration: Calibrations, presets: [Names -> Presets \cup {Absent}]]

\* What is cut off in the writing does not load, nor does a splice in the wrong place.
ASSUME TornAssumption == {Absent, Torn, Broken} \cap Files = {} /\ Torn # Broken

VARIABLES
    sample,     \* the monitor's last sample, None before the first
    captured,   \* the sample the operator captured, None without one
    known,      \* the parameters this process loaded when it started
    saver,      \* where save_preset() is, and what it was asked to write
    disk,       \* the parameters file, the temporary one beside it, what the save began with
    told,       \* what the operator was told of the last save
    sessions, edits

captureVars == <<sample, captured, known, saver, disk, told, sessions, edits>>

CaptureTypeOK ==
    /\ sample \in MonitorSamples \cup {Absent} /\ captured \in MonitorSamples \cup {Absent}
    /\ known \in Files \cup {Absent}
    /\ saver \in [at: {"off", "watching", "asked", "loaded", "read", "writing", "written",
                       "replaced", "restoring"},
                  name: Names \cup {Absent}, replace: BOOLEAN]
    /\ disk \in [file: Files \cup {Torn, Broken}, temporary: Files \cup {Absent, Torn, Broken},
                 original: Files \cup {Absent}]
    /\ told \in {"nothing", "saved", "not saved", "refused", "raised", "killed"}
    /\ sessions \in 0..Sessions /\ edits \in 0..Edits

Idle == [at |-> "off", name |-> Absent, replace |-> FALSE]

-----------------------------------------------------------------------------
(* The display. *)

\* sample(): a joint that answers is not quiet; one that does not shows its last
\* position, or none.  The first sample has nothing to be compared with.
Sampled(s) ==
    \A j \in Joints : s[j].quiet \in {0} \cup
        (IF sample = Absent THEN {}
         ELSE {IF sample[j].quiet > StaleAfter THEN StaleAfter + 1 ELSE sample[j].quiet + 1})

\* run_tui(): the next poll, or p, which polls and keeps the sample.
Watch ==
    /\ saver.at = "watching"
    /\ \E s \in MonitorSamples : Sampled(s) /\ sample' = s /\ captured' \in {captured, s}
    /\ UNCHANGED <<known, saver, disk, told, sessions, edits>>

StartMonitor ==
    /\ saver.at = "off" /\ sessions < Sessions /\ disk.file \in Files
    /\ sessions' = sessions + 1
    /\ known' = disk.file
    /\ saver' = [Idle EXCEPT !.at = "watching"]
    /\ sample' = Absent /\ captured' = Absent /\ told' = "nothing"
    /\ disk' = [disk EXCEPT !.original = Absent]
    /\ UNCHANGED edits

-----------------------------------------------------------------------------
(* The prompt, after the session has released the arm. *)

\* BUG: a pose is as good as its feedback.
SaveableIfMeasured(p) == \A j \in Joints : p[j].position # "missing"

\* _unsaveable() gives no reason.
Saveable(p) == \A j \in Joints : p[j].position = "inside"

\* The process is over.
Leaves(what) ==
    /\ saver' = Idle /\ told' = what
    /\ known' = Absent /\ sample' = Absent /\ captured' = Absent

\* _prompt_save(): the name, and REPLACE for one the process knows.
Ask ==
    /\ saver.at = "watching"
    /\ IF captured = Absent \/ (captured # Absent /\ ~Saveable(captured))
       THEN Leaves("nothing")
       ELSE \/ Leaves("not saved")
            \/ /\ \E n \in Names :
                    saver' = [at |-> "asked", name |-> n, replace |-> known.presets[n] # Absent]
               /\ sample' = Absent
               /\ UNCHANGED <<captured, known, told>>
    /\ UNCHANGED <<disk, sessions, edits>>

-----------------------------------------------------------------------------
(* save_preset(), one access of the disk a step. *)

\* CaptureRefused.
Refuse == Leaves("refused")

\* Refused: a file that is not read, does not load, or is of another calibration.
Load ==
    /\ saver.at = "asked"
    /\ \/ /\ disk.file \in Files /\ disk.file.calibration = known.calibration
          /\ saver' = [saver EXCEPT !.at = "loaded"]
          /\ UNCHANGED <<sample, captured, known, told>>
       \/ Refuse
    /\ UNCHANGED <<disk, sessions, edits>>

\* BUG: a preset that is already there is overwritten.
ReadTextAnyName ==
    /\ saver.at = "loaded"
    /\ saver' = [saver EXCEPT !.at = "read"]
    /\ disk' = [disk EXCEPT !.original = disk.file]
    /\ UNCHANGED <<sample, captured, known, told, sessions, edits>>

\* insert_preset() refuses a name that is there, and a REPLACE of one that is not.
ReadText ==
    /\ saver.at = "loaded"
    /\ IF (disk.file.presets[saver.name] # Absent) = saver.replace
       THEN /\ saver' = [saver EXCEPT !.at = "read"]
            /\ disk' = [disk EXCEPT !.original = disk.file]
            /\ UNCHANGED <<sample, captured, known, told>>
       ELSE Refuse /\ UNCHANGED disk
    /\ UNCHANGED <<sessions, edits>>

\* What the loader would make of the edited text, if it reads back as written.
Updated ==
    [disk.original EXCEPT !.presets[saver.name] =
        [of |-> known.calibration,
         inside |-> \A j \in Joints : captured[j].position = "inside",
         fresh |-> \A j \in Joints : captured[j].quiet <= StaleAfter]]

\* insert_preset() edits text: what it makes may also be read past, or not load at all.
Spliced == {Updated, disk.original, Broken}

\* The temporary file, begun and finished.
WriteTemporary ==
    /\ saver.at \in {"read", "writing"}
    /\ saver' = [saver EXCEPT !.at = IF @ = "read" THEN "writing" ELSE "written"]
    /\ \E text \in IF saver.at = "read" THEN {Torn} ELSE Spliced :
            disk' = [disk EXCEPT !.temporary = text]
    /\ UNCHANGED <<sample, captured, known, told, sessions, edits>>

\* os.replace().
Replace ==
    /\ saver.at = "written"
    /\ saver' = [saver EXCEPT !.at = "replaced"]
    /\ disk' = [disk EXCEPT !.file = disk.temporary, !.temporary = Absent]
    /\ UNCHANGED <<sample, captured, known, told, sessions, edits>>

\* _write_atomically(path, original).
Restores ==
    /\ saver' = [saver EXCEPT !.at = "restoring"]
    /\ disk' = [disk EXCEPT !.temporary = disk.original]
    /\ UNCHANGED <<sample, captured, known, told>>

\* BUG: what does not read back is refused, and left.
VerifyOnly ==
    /\ saver.at = "replaced"
    /\ Leaves("saved") \/ Refuse
    /\ UNCHANGED <<disk, sessions, edits>>

\* The file is read back: it has the preset, or it is put back as it was.
Verify ==
    /\ saver.at = "replaced"
    /\ \/ /\ disk.file \in Files
          /\ disk.file.presets[saver.name] = Updated.presets[saver.name]
          /\ Leaves("saved") /\ UNCHANGED disk
       \/ Restores
    /\ UNCHANGED <<sessions, edits>>

Restored ==
    /\ saver.at = "restoring"
    /\ disk' = [disk EXCEPT !.file = disk.temporary, !.temporary = Absent]
    /\ Refuse
    /\ UNCHANGED <<sessions, edits>>

\* What nobody catches: an access that fails, save a read of the loader's, and a text
\* that the loader cannot even parse, before the edit or after it.
Raise ==
    /\ \/ saver.at \in {"loaded", "read", "writing", "written", "restoring"}
       \/ saver.at \in {"asked", "replaced"} /\ disk.file \notin Files
    /\ Leaves("raised")
    /\ UNCHANGED <<disk, sessions, edits>>

\* Ctrl-C, in the display or at any line of the prompt and the save.
Interrupt ==
    /\ saver.at # "off"
    /\ Leaves(IF saver.at = "watching" THEN "nothing" ELSE "not saved")
    /\ UNCHANGED <<disk, sessions, edits>>

\* The machine, or the process.
Kill ==
    /\ saver.at # "off"
    /\ Leaves("killed")
    /\ UNCHANGED <<disk, sessions, edits>>

\* Somebody edits the file, and leaves one that loads: another calibration, or another
\* preset in one that does.
Edit ==
    /\ edits < Edits
    /\ EditsDuringSave \/ saver.at \in {"off", "watching"}
    /\ \/ \E c \in Calibrations :
            disk' = [disk EXCEPT !.file =
                        [calibration |-> c, presets |-> [n \in Names |-> Absent]]]
       \/ disk.file \in Files /\ \E n \in Names :
            disk' = [disk EXCEPT !.file.presets[n] =
                        [of |-> disk.file.calibration, inside |-> TRUE, fresh |-> TRUE]]
    /\ edits' = edits + 1
    /\ UNCHANGED <<sample, captured, known, saver, told, sessions>>

CaptureInit ==
    /\ sample = Absent /\ captured = Absent /\ known = Absent
    /\ saver = Idle
    /\ \E c \in Calibrations :
        disk = [file |-> [calibration |-> c, presets |-> [n \in Names |-> Absent]],
                temporary |-> Absent, original |-> Absent]
    /\ told = "nothing" /\ sessions = 0 /\ edits = 0

\* Nobody starts it again, or it does not start on the file there is.
MonitorOver ==
    /\ saver.at = "off" /\ (sessions = Sessions \/ disk.file \notin Files)
    /\ UNCHANGED captureVars

CaptureNext ==
    \/ Watch \/ StartMonitor \/ Ask
    \/ Load \/ ReadText \/ WriteTemporary \/ Replace \/ Verify \/ Restored
    \/ Raise \/ Interrupt \/ Kill \/ Edit \/ MonitorOver

CaptureSpec == CaptureInit /\ [][CaptureNext]_captureVars

-----------------------------------------------------------------------------

\* Stopped at any moment, a save leaves no text that is cut off, and every preset of a
\* file that loads is of the calibration the file describes and was inside the limits when
\* it was measured.  A file that does not load is there only until it has been read back,
\* or was left by a save that did not come to its end: never by one that said it wrote,
\* or that it was refused.
FileHolds ==
    /\ disk.file # Torn
    /\ disk.file \in Files => \A n \in Names : disk.file.presets[n] # Absent =>
        /\ disk.file.presets[n].of = disk.file.calibration
        /\ disk.file.presets[n].inside
    /\ disk.file \notin Files => \/ saver.at \in {"replaced", "restoring"}
                                \/ told \in {"not saved", "raised", "killed"}

\* CaptureRefused, from whatever line: the file is the one that was found.
RefusedIsUnchanged ==
    [][told # "refused" /\ told' = "refused"
        => disk'.file = IF disk.original = Absent THEN disk.file ELSE disk.original]_captureVars

\* Nobody loses a preset to a save: what is in the file stays, unless that very name was
\* confirmed to be replaced, or the file is edited by hand.
NothingIsLost ==
    [][edits' = edits => \A n \in Names :
        disk.file \in Files /\ disk'.file \in Files /\ disk.file.presets[n] # Absent
            /\ disk'.file.presets[n] # disk.file.presets[n]
        => \/ saver.name = n /\ saver.replace
           \/ saver.at = "restoring" /\ disk'.file = disk.original]_captureVars

\* Expected of every failed save: that the file is as it was.  It fails: a text that the
\* loader cannot parse is put in place, and its error is not one that is caught.
FailedIsUnchanged ==
    [][saver.at # "off" /\ told' \in {"refused", "raised"} /\ disk.original # Absent
        => disk'.file = disk.original]_captureVars

\* Expected of a save that says "not saved": that the file is as it was.  It fails: a
\* Ctrl-C after the new file has taken its place says so too.
NotSavedIsUnchanged ==
    [][saver.at # "off" /\ told' = "not saved" /\ disk.original # Absent
        => disk'.file = disk.original]_captureVars

\* Expected of every preset: that it was measured, not remembered.  It fails: nothing
\* asks whether a joint was quiet.
PresetsAreFresh ==
    disk.file \in Files =>
        \A n \in Names : disk.file.presets[n] # Absent => disk.file.presets[n].fresh
=============================================================================
