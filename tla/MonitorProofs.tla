-------------------------- MODULE MonitorProofs --------------------------
(***************************************************************************)
(* What robot-monitor promises of the arm it moves and of the file it      *)
(* saves a pose in (the second half, of PoseCapture).                      *)
(*                                                                         *)
(* For every speed, limit, timeout and schedule of the two threads: what   *)
(* the loop may still do to an arm it was told to leave alone, how far a   *)
(* frame may move it, and that torque comes off by way of the park.  The   *)
(* invariant says what each thread relies on of the other's lines.         *)
(***************************************************************************)
EXTENDS Teleoperation, PoseCapture, TLAPS

Ops == {"measuring", "measured", "watching", "pausing", "held", "stopping", "stopped",
        "closed", "parking", "limp"}
Ats == {"none", "top", "reading", "writing", "sent", "last", "gone"}
Loops == [at: Ats, next: Poses \cup {None}, fresh: BOOLEAN]
Flags == [stop: BOOLEAN, paused: BOOLEAN, error: BOOLEAN]
Lifecycles == {"connected", "enabled", "fault"}
Sorts == {"none", "motion", "hold"}
Arms == [lifecycle: Lifecycles, frame: Poses \cup {None}, sort: Sorts]
ParkResults == {"no", "no start pose", "not enabled", "refused", "failed", "yes"}
Wires == [any: BOOLEAN, late: Nat]
Silences == [Servos -> 0..LossTimeout + 1]

-----------------------------------------------------------------------------
(* The invariant. *)

\* The operator's thread and the loop's, as far as the flags tell them apart: the arm is
\* limp and the loop not born before FOLLOW, and whoever holds or parks the arm has said so.
Order ==
    /\ op \in {"measuring", "measured"} =>
          loop.at = "none" /\ wire.late = 0 /\ ~wire.any /\ arm.lifecycle # "enabled"
    /\ op \in {"pausing", "held"} => flags.paused
    /\ op \in {"stopped", "closed", "parking", "limp"} => flags.stop \/ loop.at = "none"

\* There is a pose wherever one is used.
Known ==
    /\ op = "measured" \/ loop.at # "none" \/ arm.lifecycle = "enabled" =>
          start \in Poses /\ command \in Poses
    /\ arm.sort # "none" \/ arm.lifecycle = "enabled" => arm.frame \in Poses
    /\ loop.at \in {"writing", "sent"} => loop.next \in Poses

\* A late frame is the one of the tick that was under way, and the last one.
Late ==
    wire.late # 0 => wire.late = 1 /\ Quiet /\ loop.at \notin {"reading", "writing"}

\* While following goes on the loop alone moves the arm: its command is the last frame, and
\* the next one is a step from there.
Following ==
    /\ wire.any /\ loop.at \in {"reading", "writing"} => ~flags.paused /\ ~flags.stop
    /\ wire.any /\ ~flags.paused /\ ~flags.stop =>
          /\ loop.at \in {"top", "reading"} => arm.frame = command
          /\ loop.at = "writing" => Apart(arm.frame, loop.next) <= MaxStep
          /\ loop.at = "sent" => arm.frame = loop.next

\* The way back is given up last, and only for want of a pose or of the torque to take it.
NoWayBack ==
    /\ op \notin {"parking", "limp"} => parked = "no"
    /\ parked \in {"no start pose", "not enabled"} => arm.lifecycle # "enabled"

IInv == TypeOK /\ Order /\ Known /\ Late /\ Following /\ NoWayBack

-----------------------------------------------------------------------------
(* Types. *)

LEMMA StateTypes ==
    ASSUME TypeOK
    PROVE  /\ op \in Ops /\ loop \in Loops /\ flags \in Flags /\ arm \in Arms
           /\ command \in Poses \cup {None} /\ start \in Poses \cup {None}
           /\ silent \in Silences /\ dead \subseteq Servos
           /\ parked \in ParkResults /\ wire \in Wires
  BY DEF TypeOK, Ops, Loops, Ats, Flags, Arms, Lifecycles, Sorts, ParkResults, Wires, Silences

LEMMA TypesState ==
    ASSUME op' \in Ops, loop' \in Loops, flags' \in Flags, arm' \in Arms,
           command' \in Poses \cup {None}, start' \in Poses \cup {None},
           silent' \in Silences, dead' \subseteq Servos,
           parked' \in ParkResults, wire' \in Wires
    PROVE  TypeOK'
  BY DEF TypeOK, Ops, Loops, Ats, Flags, Arms, Lifecycles, Sorts, ParkResults, Wires, Silences

LEMMA FieldTypes ==
    ASSUME TypeOK
    PROVE  /\ loop.at \in Ats /\ loop.next \in Poses \cup {None} /\ loop.fresh \in BOOLEAN
           /\ flags.stop \in BOOLEAN /\ flags.paused \in BOOLEAN /\ flags.error \in BOOLEAN
           /\ arm.lifecycle \in Lifecycles /\ arm.frame \in Poses \cup {None}
           /\ arm.sort \in Sorts
           /\ wire.any \in BOOLEAN /\ wire.late \in Nat
<1>1. loop.at \in Ats /\ loop.next \in Poses \cup {None} /\ loop.fresh \in BOOLEAN
  BY StateTypes DEF Loops
<1>2. flags.stop \in BOOLEAN /\ flags.paused \in BOOLEAN /\ flags.error \in BOOLEAN
  BY StateTypes DEF Flags
<1>3. /\ arm.lifecycle \in Lifecycles /\ arm.frame \in Poses \cup {None}
      /\ arm.sort \in Sorts
  BY StateTypes DEF Arms
<1>4. wire.any \in BOOLEAN /\ wire.late \in Nat
  BY StateTypes DEF Wires
<1>5. QED BY <1>1, <1>2, <1>3, <1>4

\* One field of the loop, the flags, the arm or the history set, and the others kept.
LEMMA LifecycleSet ==
    ASSUME NEW a \in Arms, NEW l \in Lifecycles, NEW b, b = [a EXCEPT !.lifecycle = l]
    PROVE  b \in Arms /\ b.lifecycle = l /\ b.frame = a.frame /\ b.sort = a.sort
<1>1. b \in Arms
  BY DEF Arms
<1>2. b.lifecycle = l
  BY DEF Arms
<1>3. b.frame = a.frame /\ b.sort = a.sort
  BY DEF Arms
<1>4. QED BY <1>1, <1>2, <1>3

LEMMA LoopAt ==
    ASSUME NEW l \in Loops, NEW a \in Ats, NEW m, m = [l EXCEPT !.at = a]
    PROVE  m \in Loops /\ m.at = a /\ m.next = l.next
<1>1. m \in Loops
  BY DEF Loops
<1>2. m.at = a
  BY DEF Loops
<1>3. m.next = l.next
  BY DEF Loops
<1>4. QED BY <1>1, <1>2, <1>3

LEMMA FlagsSet ==
    ASSUME NEW f \in Flags, NEW b \in BOOLEAN,
           NEW g, g = [f EXCEPT !.stop = b] \/ g = [f EXCEPT !.paused = b]
    PROVE  /\ g \in Flags
           /\ g = [f EXCEPT !.stop = b] => g.stop = b /\ g.paused = f.paused
           /\ g = [f EXCEPT !.paused = b] => g.stop = f.stop /\ g.paused = b
<1>1. g \in Flags
  BY DEF Flags
<1>2. g = [f EXCEPT !.stop = b] => g.stop = b /\ g.paused = f.paused
  BY DEF Flags
<1>3. g = [f EXCEPT !.paused = b] => g.stop = f.stop /\ g.paused = b
  BY DEF Flags
<1>4. QED BY <1>1, <1>2, <1>3

LEMMA WireSet ==
    ASSUME NEW w \in Wires, NEW v, v = [w EXCEPT !.any = FALSE]
    PROVE  v \in Wires /\ v.any = FALSE /\ v.late = w.late
<1>1. v \in Wires
  BY DEF Wires
<1>2. v.any = FALSE /\ v.late = w.late
  BY DEF Wires
<1>3. QED BY <1>1, <1>2

LEMMA WireMade ==
    ASSUME NEW b \in BOOLEAN, NEW n \in Nat, NEW w, w = [any |-> b, late |-> n]
    PROVE  w \in Wires /\ w.any = b /\ w.late = n
<1>1. w \in Wires
  BY DEF Wires
<1>2. w.any = b
  OBVIOUS
<1>3. w.late = n
  OBVIOUS
<1>4. QED BY <1>1, <1>2, <1>3

-----------------------------------------------------------------------------
(* The port. *)

Looked(a, b) ==
    /\ b \in Arms
    /\ b.frame = a.frame /\ b.sort = a.sort
    /\ b.lifecycle = a.lifecycle \/ b.lifecycle = "fault"

HeldAt(a, b) ==
    /\ b \in Arms
    /\ b.lifecycle = a.lifecycle
    /\ \/ b.frame = a.frame /\ b.sort = a.sort
       \/ b.frame \in Poses /\ b.sort = "hold"

LEMMA LooksOutcome ==
    ASSUME NEW a \in Arms, NEW b \in Looks(a)
    PROVE  Looked(a, b)
<1>1. "fault" \in Lifecycles
  BY DEF Lifecycles
<1>2. CASE b = a
  BY <1>2 DEF Looked
<1>3. CASE b = [a EXCEPT !.lifecycle = "fault"]
  BY <1>1, <1>3, LifecycleSet DEF Looked
<1>4. QED BY <1>2, <1>3 DEF Looks

LEMMA HoldsOutcome ==
    ASSUME NEW a \in Arms, NEW b \in Holds(a)
    PROVE  HeldAt(a, b)
<1>1. CASE b = a
  BY <1>1 DEF HeldAt
<1>2. CASE b # a
  <2>1. PICK p \in Near(a) : b = [a EXCEPT !.frame = p, !.sort = "hold"]
    BY <1>2, Zenon DEF Holds
  <2>2. p \in Poses /\ "hold" \in Sorts
    BY DEF Near, Sorts
  <2>3. b \in Arms /\ b.frame = p /\ b.sort = "hold" /\ b.lifecycle = a.lifecycle
    <3>1. b \in Arms
      BY <2>1, <2>2 DEF Arms
    <3>2. b.frame = p
      BY <2>1 DEF Arms
    <3>3. b.sort = "hold" /\ b.lifecycle = a.lifecycle
      BY <2>1 DEF Arms
    <3>4. QED BY <3>1, <3>2, <3>3
  <2>4. QED BY <2>2, <2>3 DEF HeldAt
<1>3. QED BY <1>1, <1>2

\* Nobody else's arm: the loop is not born, or has been told.
Told == flags.paused \/ flags.stop \/ loop.at = "none"

\* A step that leaves the loop and what it was told alone, and the arm as well unless the
\* loop keeps away from it.
LEMMA HandsOff ==
    ASSUME IInv, TypeOK', loop' = loop, flags' = flags, wire' = wire, start' = start,
           arm'.lifecycle = "enabled" => arm.lifecycle = "enabled",
           \/ arm'.frame = arm.frame /\ arm'.sort = arm.sort
           \/ Told /\ arm'.frame \in Poses,
           \/ command' = command
           \/ Told /\ command' \in Poses,
           op' # "measured", Order', NoWayBack'
    PROVE  IInv'
<1>1. Known'
  BY DEF IInv, Known
<1>2. Late'
  BY DEF IInv, Late, Quiet
<1>3. Following'
  <2>1. CASE Told
    BY <2>1, Zenon DEF IInv, Following, Told
  <2>2. CASE ~Told
    BY <2>2, Zenon DEF IInv, Following, Told
  <2>3. QED BY <2>1, <2>2
<1>4. QED BY <1>1, <1>2, <1>3 DEF IInv

-----------------------------------------------------------------------------
(* The operator's thread. *)

LEMMA InitKeeps == Init => IInv
<1> SUFFICES ASSUME Init PROVE IInv
  OBVIOUS
<1>1. /\ op = "measuring" /\ loop \in Loops /\ loop.at = "none" /\ flags \in Flags
      /\ command = None /\ start = None /\ dead = {} /\ parked = "no"
  BY DEF Init, Loops, Ats, Flags
<1>2. arm \in Arms /\ arm.lifecycle = "connected" /\ arm.sort = "none"
  BY DEF Init, Arms, Lifecycles, Sorts
<1>3. wire \in Wires /\ wire.late = 0 /\ wire.any = FALSE
  BY WireMade DEF Init
<1>4. silent \in Silences
  BY TeleoperationAssumption DEF Init, Silences
<1>5. TypeOK
  BY <1>1, <1>2, <1>3, <1>4
  DEF TypeOK, Loops, Ats, Flags, Arms, Lifecycles, Sorts, Wires, Silences
<1>6. Order /\ Known
  BY <1>1, <1>2, <1>3 DEF Order, Known
<1>7. Late /\ Following /\ NoWayBack
  BY <1>1, <1>2, <1>3 DEF Late, Following, NoWayBack
<1>8. QED BY <1>5, <1>6, <1>7 DEF IInv

LEMMA MeasureKeeps ==
    ASSUME IInv, Measure
    PROVE  IInv'
<1>1. /\ loop \in Loops /\ flags \in Flags /\ arm \in Arms
      /\ command \in Poses \cup {None} /\ start \in Poses \cup {None}
      /\ silent \in Silences /\ dead \subseteq Servos /\ parked \in ParkResults
      /\ wire \in Wires
  BY StateTypes DEF IInv
<1>2. /\ UNCHANGED <<loop, flags, silent, dead, parked, wire>> /\ op = "measuring"
      /\ loop.at = "none" /\ wire.late = 0 /\ ~wire.any /\ arm.lifecycle # "enabled"
  BY DEF Measure, IInv, Order
<1>3. /\ op' \in {"measured", "closed"} /\ Looked(arm, arm')
      /\ command' \in Poses \cup {None} /\ start' \in Poses \cup {None}
      /\ op' = "measured" => command' \in Poses /\ start' \in Poses
  <2>1. CASE op' = "closed" /\ arm' \in Looks(arm) /\ UNCHANGED <<command, start>>
    BY <1>1, <2>1, LooksOutcome
  <2>2. CASE /\ \E p \in Poses : command' = p /\ start' = p
             /\ op' = "measured" /\ UNCHANGED arm
    BY <1>1, <2>2 DEF Looked
  <2>3. QED BY <2>1, <2>2 DEF Measure
<1>4. arm' \in Arms /\ arm'.lifecycle # "enabled" /\ arm'.frame = arm.frame
      /\ arm'.sort = arm.sort
  BY <1>2, <1>3 DEF Looked
<1>5. TypeOK'
  BY <1>1, <1>2, <1>3, <1>4, TypesState DEF Ops
<1>6. Order' /\ Known'
  BY <1>2, <1>3, <1>4 DEF IInv, Order, Known
<1>7. Late' /\ Following' /\ NoWayBack'
  BY <1>2, <1>3, <1>4 DEF IInv, Late, Following, NoWayBack
<1>8. QED BY <1>5, <1>6, <1>7 DEF IInv

LEMMA StartKeeps ==
    ASSUME IInv, Start
    PROVE  IInv'
<1>1. /\ loop \in Loops /\ flags \in Flags /\ arm \in Arms
      /\ command \in Poses \cup {None} /\ start \in Poses \cup {None}
      /\ silent \in Silences /\ dead \subseteq Servos /\ parked \in ParkResults
      /\ wire \in Wires
  BY StateTypes DEF IInv
<1>2. /\ UNCHANGED <<flags, command, start, dead, parked, wire>> /\ op = "measured"
      /\ loop.at = "none" /\ wire.late = 0 /\ ~wire.any /\ arm.lifecycle # "enabled"
      /\ command \in Poses /\ start \in Poses
  BY DEF Start, IInv, Order, Known
<1>3. CASE op' = "stopping" /\ UNCHANGED <<arm, loop, silent>>
  <2>1. TypeOK'
    BY <1>1, <1>2, <1>3, TypesState DEF Ops
  <2>2. Order' /\ NoWayBack'
    BY <1>2, <1>3 DEF IInv, Order, NoWayBack
  <2>3. QED BY <1>2, <1>3, <2>1, <2>2, HandsOff
<1>4. CASE \E p \in {q \in Poses : Apart(q, start) <= Drift} :
            /\ arm' = [lifecycle |-> "enabled", frame |-> p, sort |-> "hold"]
            /\ op' = "watching" /\ loop' = [loop EXCEPT !.at = "top"]
            /\ \E k \in 0..LossTimeout + 1 : silent' = [s \in Servos |-> k]
  <2>1. PICK p \in Poses :
            /\ arm' = [lifecycle |-> "enabled", frame |-> p, sort |-> "hold"]
            /\ op' = "watching" /\ loop' = [loop EXCEPT !.at = "top"]
            /\ \E k \in 0..LossTimeout + 1 : silent' = [s \in Servos |-> k]
    BY <1>4
  <2>2. arm' \in Arms /\ arm'.lifecycle = "enabled" /\ arm'.frame = p
    BY <2>1 DEF Arms, Lifecycles, Sorts
  <2>3. loop' \in Loops /\ loop'.at = "top"
    BY <1>1, <2>1, LoopAt DEF Ats
  <2>4. silent' \in Silences
    BY <2>1 DEF Silences
  <2>5. TypeOK'
    BY <1>1, <1>2, <2>1, <2>2, <2>3, <2>4, TypesState DEF Ops
  <2>6. Order' /\ Known'
    BY <1>2, <2>1, <2>2, <2>3 DEF Order, Known
  <2>7. Late' /\ Following'
    BY <1>2 DEF Late, Following
  <2>8. NoWayBack'
    <3>1. parked = "no"
      BY <1>2 DEF IInv, NoWayBack
    <3>2. QED BY <1>2, <3>1 DEF NoWayBack
  <2>9. QED BY <2>5, <2>6, <2>7, <2>8 DEF IInv
<1>5. QED BY <1>3, <1>4 DEF Start

LEMMA ResumeKeeps ==
    ASSUME IInv, Resume
    PROVE  IInv'
<1>1. /\ flags \in Flags /\ UNCHANGED <<op, loop, arm, command, start, silent, dead, parked>>
      /\ op = "watching"
  BY StateTypes DEF IInv, Resume
<1>2. flags' \in Flags /\ flags'.stop = flags.stop
  BY <1>1, FlagsSet DEF Resume
<1>3. wire' \in Wires /\ wire'.any = FALSE /\ wire'.late = 0
  BY WireMade DEF Resume
<1>4. TypeOK'
  BY <1>1, <1>2, <1>3, StateTypes, TypesState DEF IInv
<1>5. Order' /\ Known' /\ NoWayBack'
  BY <1>1 DEF IInv, Order, Known, NoWayBack
<1>6. Late' /\ Following'
  BY <1>3, Zenon DEF Late, Following
<1>7. QED BY <1>4, <1>5, <1>6 DEF IInv

\* Telling the loop to be quiet.
LEMMA TellingKeeps ==
    ASSUME IInv, Pause \/ StopFlag
    PROVE  IInv'
<1>1. /\ flags \in Flags /\ wire \in Wires
      /\ UNCHANGED <<loop, arm, command, start, silent, dead, parked>>
      /\ wire' = [wire EXCEPT !.any = FALSE]
  BY StateTypes DEF IInv, Pause, StopFlag
<1>2. wire' \in Wires /\ wire'.any = FALSE /\ wire'.late = wire.late
  BY <1>1, WireSet
<1>3. /\ flags' \in Flags
      /\ \/ /\ flags'.stop = flags.stop /\ flags'.paused = TRUE /\ op' = "pausing"
         \/ /\ flags'.stop = TRUE /\ flags'.paused = flags.paused /\ op' = "stopping"
  <2>1. CASE Pause
    <3>1. flags' = [flags EXCEPT !.paused = TRUE] /\ op' = "pausing"
      BY <2>1 DEF Pause
    <3>2. QED BY <1>1, <3>1, FlagsSet
  <2>2. CASE StopFlag
    <3>1. flags' = [flags EXCEPT !.stop = TRUE] /\ op' = "stopping"
      BY <2>2 DEF StopFlag
    <3>2. QED BY <1>1, <3>1, FlagsSet
  <2>3. QED BY <2>1, <2>2
<1>4. op' \in {"pausing", "stopping"} /\ op' \in Ops /\ op \in {"watching", "stopping"}
  BY <1>3 DEF Pause, StopFlag, Ops
<1>5. TypeOK'
  BY <1>1, <1>2, <1>3, <1>4, StateTypes, TypesState DEF IInv
<1>6. Order' /\ NoWayBack'
  BY <1>1, <1>3, <1>4 DEF IInv, Order, NoWayBack
<1>7. Known'
  BY <1>1, <1>4 DEF IInv, Known
<1>8. Late'
  BY <1>1, <1>2, <1>3, Zenon DEF IInv, Late, Quiet
<1>9. Following'
  BY <1>2, Zenon DEF Following
<1>10. QED BY <1>5, <1>6, <1>7, <1>8, <1>9 DEF IInv

\* Once the operator's thread is past the loop, the loop keeps away from the arm.
LEMMA TheyKeepAway ==
    ASSUME IInv, op \in {"pausing", "held", "stopped", "closed", "parking", "limp"}
    PROVE  Told
  BY Zenon DEF IInv, Order, Told

\* The steps that move to another line, or meet a fault, and touch nothing else.
LEMMA WatchKeeps ==
    ASSUME IInv, Poll \/ Quit \/ Join \/ Dies
    PROVE  IInv'
<1>1. UNCHANGED <<loop, flags, command, start, silent, parked, wire>> /\ arm \in Arms
  BY StateTypes DEF IInv, Poll, Quit, Join, Dies
<1>2. Looked(arm, arm')
  <2>1. CASE arm' \in Looks(arm)
    BY <1>1, <2>1, LooksOutcome
  <2>2. CASE arm' = arm
    BY <1>1, <2>2 DEF Looked
  <2>3. QED BY <2>1, <2>2 DEF Poll, Quit, Join, Dies
<1>3. /\ arm' \in Arms /\ (arm'.lifecycle = "enabled" => arm.lifecycle = "enabled")
      /\ arm'.frame = arm.frame /\ arm'.sort = arm.sort
  BY <1>2 DEF Looked
<1>4. op' \in Ops /\ dead' \subseteq Servos
  BY StateTypes DEF IInv, Poll, Quit, Join, Dies, Ops
<1>5. TypeOK'
  BY <1>1, <1>3, <1>4, StateTypes, TypesState DEF IInv
<1>6. Order'
  BY <1>1, <1>3 DEF IInv, Order, Poll, Quit, Join, Dies
<1>7. NoWayBack'
  BY <1>1, <1>3 DEF IInv, NoWayBack, Poll, Quit, Join, Dies
<1>8. CASE op' # "measured"
  BY <1>1, <1>3, <1>5, <1>6, <1>7, <1>8, HandsOff
<1>9. CASE op' = "measured"
  <2>1. arm' = arm /\ op' = op
    BY <1>9 DEF Poll, Quit, Join, Dies
  <2>2. Known' /\ Late' /\ Following'
    BY <1>1, <2>1, Zenon DEF IInv, Known, Late, Quiet, Following
  <2>3. QED BY <1>5, <1>6, <1>7, <2>2 DEF IInv
<1>10. QED BY <1>8, <1>9

LEMMA PauseHoldKeeps ==
    ASSUME IInv, PauseHold
    PROVE  IInv'
<1>1. /\ UNCHANGED <<loop, flags, command, start, silent, dead, parked, wire>>
      /\ arm \in Arms /\ op = "pausing" /\ op' = "held" /\ HeldAt(arm, arm')
  BY StateTypes, HoldsOutcome DEF IInv, PauseHold
<1>2. Told
  BY <1>1, TheyKeepAway
<1>3. /\ arm' \in Arms /\ (arm'.lifecycle = "enabled" => arm.lifecycle = "enabled")
      /\ \/ arm'.frame = arm.frame /\ arm'.sort = arm.sort
         \/ Told /\ arm'.frame \in Poses
  BY <1>1, <1>2 DEF HeldAt
<1>4. TypeOK'
  BY <1>1, <1>3, StateTypes, TypesState DEF IInv, Ops
<1>5. Order' /\ NoWayBack'
  BY <1>1, <1>3 DEF IInv, Order, NoWayBack
<1>6. QED BY <1>1, <1>3, <1>4, <1>5, HandsOff, Zenon

LEMMA RebaseKeeps ==
    ASSUME IInv, Rebase
    PROVE  IInv'
<1>1. /\ UNCHANGED <<loop, flags, start, silent, dead, parked, wire>>
      /\ arm \in Arms /\ op = "held" /\ op' = "watching" /\ Looked(arm, arm')
  BY StateTypes, LooksOutcome DEF IInv, Rebase
<1>2. Told
  BY <1>1, TheyKeepAway
<1>3. command' = command \/ command' \in Poses
  BY DEF Rebase, Near
<1>4. /\ arm' \in Arms /\ (arm'.lifecycle = "enabled" => arm.lifecycle = "enabled")
      /\ arm'.frame = arm.frame /\ arm'.sort = arm.sort
  BY <1>1 DEF Looked
<1>5. TypeOK'
  BY <1>1, <1>3, <1>4, StateTypes, TypesState DEF IInv, Ops
<1>6. Order' /\ NoWayBack'
  BY <1>1, <1>4 DEF IInv, Order, NoWayBack
<1>7. QED BY <1>1, <1>2, <1>3, <1>4, <1>5, <1>6, HandsOff

LEMMA DisconnectKeeps ==
    ASSUME IInv, Disconnect
    PROVE  IInv'
<1>1. /\ UNCHANGED <<loop, flags, command, start, silent, dead, parked, wire>>
      /\ arm \in Arms /\ op' = "closed"
      /\ op = "stopped" \/ (op = "stopping" /\ flags.stop)
  BY StateTypes DEF IInv, Disconnect
<1>2. flags.stop \/ loop.at = "none"
  BY <1>1, Zenon DEF IInv, Order
<1>3. Told
  BY <1>2, Zenon DEF Told
<1>4. HeldAt(arm, arm')
  <2>1. CASE op = "stopped"
    BY <1>1, <2>1, HoldsOutcome DEF Disconnect
  <2>2. CASE op # "stopped"
    BY <1>1, <2>2 DEF Disconnect, HeldAt
  <2>3. QED BY <2>1, <2>2
<1>5. /\ arm' \in Arms /\ (arm'.lifecycle = "enabled" => arm.lifecycle = "enabled")
      /\ \/ arm'.frame = arm.frame /\ arm'.sort = arm.sort
         \/ Told /\ arm'.frame \in Poses
  BY <1>3, <1>4 DEF HeldAt
<1>6. TypeOK'
  BY <1>1, <1>5, StateTypes, TypesState DEF IInv, Ops
<1>7. Order'
  BY <1>1, <1>2, Zenon DEF Order
<1>8. NoWayBack'
  BY <1>1, <1>5 DEF IInv, NoWayBack
<1>9. QED BY <1>1, <1>5, <1>6, <1>7, <1>8, HandsOff

LEMMA ParkableIsPose ==
    ASSUME NEW p \in Poses
    PROVE  Parkable(p) \in Poses /\ Clamped(p) \in Poses
  BY TeleoperationAssumption DEF Parkable, Clamped

LEMMA ParkKeeps ==
    ASSUME IInv, Park
    PROVE  IInv'
<1>1. /\ UNCHANGED <<loop, flags, arm, command, start, silent, dead, wire>>
      /\ op = "closed" /\ op' = "parking"
      /\ parked' = IF start = None THEN "no start pose"
                   ELSE IF arm.lifecycle # "enabled" THEN "not enabled"
                   ELSE IF Parkable(start) \notin Lower..Upper THEN "refused"
                   ELSE "no"
  BY DEF Park
<1>2. arm.lifecycle = "enabled" => start # None
  BY TeleoperationAssumption DEF IInv, Known
<1>3. /\ parked' \in {"no start pose", "not enabled", "refused", "no"}
      /\ parked' \in {"no start pose", "not enabled"} => arm.lifecycle # "enabled"
  BY <1>1, <1>2
<1>4. TypeOK'
  BY <1>1, <1>3, StateTypes, TypesState DEF IInv, Ops, ParkResults
<1>5. Order' /\ NoWayBack'
  BY <1>1, <1>3 DEF IInv, Order, NoWayBack
<1>6. QED BY <1>1, <1>4, <1>5, HandsOff

LEMMA ParksKeeps ==
    ASSUME IInv, Parks
    PROVE  IInv'
<1>1. /\ UNCHANGED <<op, loop, flags, command, start, silent, dead, wire>>
      /\ arm \in Arms /\ op = "parking" /\ parked' \in {"yes", "failed"}
  BY StateTypes DEF IInv, Parks
<1>2. Told
  BY <1>1, TheyKeepAway
<1>3. /\ arm' \in Arms /\ (arm'.lifecycle = "enabled" => arm.lifecycle = "enabled")
      /\ \/ arm'.frame = arm.frame /\ arm'.sort = arm.sort
         \/ arm'.frame \in Poses
  <2>1. CASE /\ arm.lifecycle = "enabled"
             /\ arm' = [arm EXCEPT !.frame = Parkable(start), !.sort = "hold"]
    <3>1. Parkable(start) \in Poses
      BY <2>1, ParkableIsPose DEF IInv, Known
    <3> DEFINE p == Parkable(start)
    <3>2. arm' = [arm EXCEPT !.frame = p, !.sort = "hold"] /\ p \in Poses
      BY <2>1, <3>1
    <3> HIDE DEF p
    <3>3. arm' \in Arms
      BY <1>1, <3>2 DEF Arms, Sorts
    <3>4. arm'.frame = p
      BY <1>1, <3>2 DEF Arms
    <3>5. QED BY <2>1, <3>2, <3>3, <3>4
  <2>2. CASE \E a \in Looks(arm) : arm' \in Holds(a)
    <3>1. PICK a \in Looks(arm) : arm' \in Holds(a)
      BY <2>2
    <3>2. Looked(arm, a)
      BY <1>1, LooksOutcome
    <3>3. HeldAt(a, arm')
      BY <3>1, <3>2, HoldsOutcome DEF Looked
    <3>4. QED BY <3>2, <3>3 DEF Looked, HeldAt
  <2>3. QED BY <2>1, <2>2 DEF Parks
<1>4. TypeOK'
  BY <1>1, <1>3, StateTypes, TypesState DEF IInv, ParkResults
<1>5. Order' /\ NoWayBack'
  BY <1>1, <1>3 DEF IInv, Order, NoWayBack
<1>6. QED BY <1>1, <1>2, <1>3, <1>4, <1>5, HandsOff

LEMMA ReleaseKeeps ==
    ASSUME IInv, Release
    PROVE  IInv'
<1>1. /\ UNCHANGED <<loop, flags, command, start, silent, dead, parked, wire>>
      /\ arm \in Arms /\ op = "parking" /\ op' = "limp"
      /\ arm' = [arm EXCEPT !.lifecycle = IF @ = "enabled" THEN "connected" ELSE @]
  BY StateTypes DEF IInv, Release
<1>2. /\ arm' \in Arms /\ arm'.lifecycle # "enabled"
      /\ arm'.frame = arm.frame /\ arm'.sort = arm.sort
  <2> DEFINE l == IF arm.lifecycle = "enabled" THEN "connected" ELSE arm.lifecycle
  <2>1. l \in Lifecycles /\ l # "enabled"
    BY <1>1 DEF Arms, Lifecycles
  <2>2. arm' = [arm EXCEPT !.lifecycle = l]
    BY <1>1
  <2> HIDE DEF l
  <2>3. QED BY <1>1, <2>1, <2>2, LifecycleSet
<1>3. TypeOK'
  BY <1>1, <1>2, StateTypes, TypesState DEF IInv, Ops
<1>4. Order' /\ NoWayBack'
  BY <1>1, <1>2 DEF IInv, Order, NoWayBack
<1>5. QED BY <1>1, <1>2, <1>3, <1>4, HandsOff

-----------------------------------------------------------------------------
(* The loop's thread. *)

\* Once the loop runs there is a start pose and a command, and an operator who is past
\* the join has raised the stop flag.
LEMMA LoopIsBorn ==
    ASSUME IInv, loop.at \notin {"none"}
    PROVE  /\ start \in Poses /\ command \in Poses
           /\ op \notin {"measuring", "measured"}
           /\ op \in {"stopped", "closed", "parking", "limp"} => flags.stop
<1>1. start \in Poses /\ command \in Poses
  BY DEF IInv, Known
<1>2. op # "measuring" /\ op # "measured"
  BY DEF IInv, Order
<1>3. op \in {"stopped", "closed", "parking", "limp"} => flags.stop
  BY DEF IInv, Order
<1>4. QED BY <1>1, <1>2, <1>3

\* A step of the loop: the operator's line and what it goes by stay, flags are only raised.
LEMMA OrderInLoop ==
    ASSUME IInv, loop.at # "none", op' = op, parked' = parked,
           arm'.lifecycle = arm.lifecycle,
           flags.stop => flags'.stop, flags'.paused = flags.paused
    PROVE  Order' /\ NoWayBack'
<1>1. Order'
  BY LoopIsBorn, Zenon DEF IInv, Order
<1>2. NoWayBack'
  BY DEF IInv, NoWayBack
<1>3. QED BY <1>1, <1>2

LEMMA LaterType ==
    ASSUME NEW k \in 0..LossTimeout + 1, NEW e \in Nat
    PROVE  Later(k, e) \in 0..LossTimeout + 1
  BY TeleoperationAssumption DEF Later

LEMMA SeenType ==
    ASSUME silent \in Silences, NEW answered \in SUBSET Servos, NEW e \in Nat
    PROVE  Seen(answered, e) \in Silences
<1>1. \A s \in Servos : silent[s] \in 0..LossTimeout + 1
  BY DEF Silences
<1>2. \A s \in Servos : Later(silent[s], e) \in 0..LossTimeout + 1
  BY <1>1, LaterType
<1>3. 0 \in 0..LossTimeout + 1
  BY TeleoperationAssumption
<1>4. \A s \in Servos :
        (IF s \in answered THEN 0 ELSE Later(silent[s], e)) \in 0..LossTimeout + 1
  BY <1>2, <1>3
<1>5. QED BY <1>4 DEF Seen, Silences

LEMMA TopKeeps ==
    ASSUME IInv, Top
    PROVE  IInv'
<1>1. /\ UNCHANGED <<op, flags, arm, command, start, dead, parked, wire>>
      /\ loop.at = "top" /\ loop \in Loops /\ silent \in Silences
  BY StateTypes DEF IInv, Top
<1>2. Order' /\ NoWayBack'
  BY <1>1, OrderInLoop
<1>3. /\ loop' \in Loops /\ silent' \in Silences
      /\ \/ loop'.at = "last" \/ loop'.at = "top"
         \/ loop'.at = "reading" /\ MayTick /\ ~flags.paused
  <2>1. CASE loop' = [loop EXCEPT !.at = "last"] /\ UNCHANGED silent
    BY <1>1, <2>1, LoopAt DEF Ats
  <2>2. CASE /\ loop' = [loop EXCEPT !.fresh = TRUE]
             /\ silent' = [s \in Servos |-> Later(silent[s], 1)]
    <3>1. loop' \in Loops /\ loop'.at = "top"
      BY <1>1, <2>2 DEF Loops
    <3>2. \A s \in Servos : silent[s] \in 0..LossTimeout + 1
      BY <1>1 DEF Silences
    <3>3. silent' \in Silences
      BY <2>2, <3>2, LaterType DEF Silences
    <3>4. QED BY <3>1, <3>3
  <2>3. CASE /\ loop' = [loop EXCEPT !.at = "reading"] /\ UNCHANGED silent
             /\ MayTick /\ ~flags.paused
    BY <1>1, <2>3, LoopAt DEF Ats
  <2>4. QED BY <2>1, <2>2, <2>3 DEF Top
<1>4. TypeOK'
  BY <1>1, <1>3, StateTypes, TypesState DEF IInv
<1>5. Known'
  BY <1>1, <1>3 DEF IInv, Known
<1>6. Late'
  BY <1>1, <1>3 DEF IInv, Late, Quiet, MayTick
<1>7. Following'
  <2>1. CASE loop'.at = "reading" /\ MayTick /\ ~flags.paused
    <3>1. arm.frame = command \/ ~wire.any
      BY <1>1, <2>1, Zenon DEF IInv, Following, MayTick
    <3>2. QED BY <1>1, <2>1, <3>1, Zenon DEF Following, MayTick
  <2>2. CASE loop'.at = "top"
    BY <1>1, <2>2 DEF IInv, Following
  <2>3. CASE loop'.at = "last"
    BY <1>1, <2>3 DEF IInv, Following
  <2>4. QED BY <1>3, <2>1, <2>2, <2>3
<1>8. QED BY <1>2, <1>4, <1>5, <1>6, <1>7 DEF IInv

LEMMA RaisesOutcome ==
    ASSUME IInv, Raises, loop.at # "none"
    PROVE  /\ loop' \in Loops /\ flags' \in Flags
           /\ loop'.at = "last" /\ flags'.stop = TRUE /\ flags'.paused = flags.paused
<1>1. loop \in Loops /\ flags \in Flags
  BY StateTypes DEF IInv
<1>2. loop' \in Loops
  BY <1>1 DEF Raises, Loops, Ats
<1>3. loop'.at = "last"
  BY <1>1 DEF Raises, Loops
<1>4. flags' \in Flags
  BY <1>1 DEF Raises, Flags
<1>5. flags'.stop = TRUE
  BY <1>1 DEF Raises, Flags
<1>6. flags'.paused = flags.paused
  BY <1>1 DEF Raises, Flags
<1>7. QED BY <1>2, <1>3, <1>4, <1>5, <1>6

\* A tick may move the arm no further than the longest one may.
LEMMA StepBounded ==
    ASSUME NEW e \in Nat
    PROVE  Step(e) \in Nat /\ Step(e) <= MaxStep
<1> DEFINE t == IF e > DtCap THEN DtCap ELSE e
<1>1. t \in Nat /\ t <= DtCap /\ Velocity \in Nat /\ DtCap \in Nat
  BY TeleoperationAssumption
<1>2. Step(e) = Velocity * t
  BY DEF Step
<1>3. MaxStep = Velocity * DtCap
  BY <1>1 DEF MaxStep
<1> HIDE DEF t
<1>4. Velocity * t \in Nat
  BY <1>1
<1>5. Velocity * t <= Velocity * DtCap
  <2>1. DtCap - t \in Nat
    BY <1>1
  <2>2. Velocity * (DtCap - t) \in Nat
    BY <1>1, <2>1
  <2>3. Velocity * DtCap = Velocity * t + Velocity * (DtCap - t)
    BY <1>1, <2>1
  <2>4. Velocity * DtCap \in Nat
    BY <1>1
  <2>5. QED BY <1>4, <2>2, <2>3, <2>4
<1>6. QED BY <1>2, <1>3, <1>4, <1>5

\* A step towards a pose ends in a pose, no further away than the step.
LEMMA TowardsStep ==
    ASSUME NEW from \in Poses, NEW target \in Poses, NEW step \in Nat
    PROVE  /\ Towards(from, target, step) \in Poses
           /\ Apart(from, Towards(from, target, step)) <= step
<1>1. from \in Int /\ target \in Int
  BY TeleoperationAssumption
<1>2. CASE Apart(from, target) <= step
  BY <1>2 DEF Towards
<1>3. CASE ~(Apart(from, target) <= step) /\ from < target
  <2>1. Towards(from, target, step) = from + step /\ from + step \in from..target
    BY <1>1, <1>3 DEF Towards, Apart
  <2>2. from..target \subseteq Poses
    BY TeleoperationAssumption
  <2>3. Apart(from, from + step) <= step
    BY <1>1 DEF Apart
  <2>4. QED BY <2>1, <2>2, <2>3
<1>4. CASE ~(Apart(from, target) <= step) /\ ~(from < target)
  <2>1. Towards(from, target, step) = from - step /\ from - step \in target..from
    BY <1>1, <1>4 DEF Towards, Apart
  <2>2. target..from \subseteq Poses
    BY TeleoperationAssumption
  <2>3. Apart(from, from - step) <= step
    BY <1>1 DEF Apart
  <2>4. QED BY <2>1, <2>2, <2>3
<1>5. QED BY <1>2, <1>3, <1>4

LEMMA ReadKeeps ==
    ASSUME IInv, Read
    PROVE  IInv'
<1>1. /\ UNCHANGED <<op, arm, command, start, dead, parked, wire>>
      /\ loop.at = "reading" /\ loop \in Loops /\ flags \in Flags /\ silent \in Silences
  BY StateTypes DEF IInv, Read
<1>2. start \in Poses /\ command \in Poses
  BY <1>1, LoopIsBorn
<1>3. wire.late = 0
  BY <1>1 DEF IInv, Late
<1>4. silent' \in Silences
  <2>1. CASE UNCHANGED silent
    BY <1>1, <2>1
  <2>2. CASE \E answered \in SUBSET (Servos \ dead),
                elapsed \in 1..(IF loop.fresh THEN 1 ELSE Stall) :
                silent' = Seen(answered, elapsed)
    <3>1. PICK answered \in SUBSET (Servos \ dead),
               elapsed \in 1..(IF loop.fresh THEN 1 ELSE Stall) :
                silent' = Seen(answered, elapsed)
      BY <2>2
    <3>2. elapsed \in Nat /\ answered \in SUBSET Servos
      BY TeleoperationAssumption
    <3>3. QED BY <1>1, <3>1, <3>2, SeenType
  <2>3. QED BY <2>1, <2>2 DEF Read
<1>5. CASE Raises
  <2>1. /\ loop' \in Loops /\ flags' \in Flags
        /\ loop'.at = "last" /\ flags'.stop = TRUE /\ flags'.paused = flags.paused
    BY <1>1, <1>5, RaisesOutcome
  <2>2. TypeOK'
    BY <1>1, <1>4, <2>1, StateTypes, TypesState DEF IInv
  <2>3. Order' /\ NoWayBack'
    BY <1>1, <2>1, OrderInLoop
  <2>4. Known'
    BY <1>1, <1>2, <2>1 DEF IInv, Known
  <2>5. Late' /\ Following'
    BY <1>1, <1>3, <2>1 DEF Late, Following
  <2>6. QED BY <2>2, <2>3, <2>4, <2>5 DEF IInv
<1>6. CASE ~Raises
  <2>1. PICK elapsed \in 1..(IF loop.fresh THEN 1 ELSE Stall), wanted \in Poses :
            /\ loop' = [at |-> "writing", fresh |-> FALSE,
                        next |-> Towards(command, Clamped(wanted), Step(elapsed))]
            /\ UNCHANGED flags
    BY <1>6 DEF Read
  <2> DEFINE n == Towards(command, Clamped(wanted), Step(elapsed))
  <2>2. elapsed \in Nat
    BY TeleoperationAssumption
  <2>3. Step(elapsed) \in Nat /\ Step(elapsed) <= MaxStep
    BY <2>2, StepBounded
  <2>4. Clamped(wanted) \in Poses
    BY ParkableIsPose
  <2>5. n \in Poses /\ Apart(command, n) <= Step(elapsed)
    BY <1>2, <2>3, <2>4, TowardsStep
  <2>6. Apart(command, n) <= MaxStep
    <3> HIDE DEF n
    <3>1. command \in Int /\ n \in Int
      BY <1>2, <2>5, TeleoperationAssumption
    <3>2. Apart(command, n) \in Int
      BY <3>1 DEF Apart
    <3>3. MaxStep \in Int
      BY TeleoperationAssumption DEF MaxStep
    <3>4. QED BY <2>3, <2>5, <3>2, <3>3
  <2>7. loop' = [at |-> "writing", fresh |-> FALSE, next |-> n]
    BY <2>1
  <2> HIDE DEF n
  <2>8. loop' \in Loops /\ loop'.at = "writing" /\ loop'.next = n
    BY <2>5, <2>7 DEF Loops, Ats
  <2>9. TypeOK'
    BY <1>1, <1>4, <2>1, <2>8, StateTypes, TypesState DEF IInv
  <2>10. Order' /\ NoWayBack'
    BY <1>1, <2>1, OrderInLoop
  <2>11. Known'
    BY <1>1, <1>2, <2>5, <2>8 DEF IInv, Known
  <2>12. Late'
    BY <1>1, <1>3 DEF Late
  <2>13. Following'
    <3>1. wire.any => ~flags.paused /\ ~flags.stop /\ arm.frame = command
      <4>1. Following /\ loop.at = "reading"
        BY <1>1 DEF IInv
      <4>2. QED BY <4>1 DEF Following
    <3>2. wire.any => Apart(arm.frame, n) <= MaxStep
      BY <2>6, <3>1
    <3>3. QED BY <1>1, <2>1, <2>8, <3>1, <3>2 DEF Following
  <2>14. QED BY <2>9, <2>10, <2>11, <2>12, <2>13 DEF IInv
<1>7. QED BY <1>5, <1>6

LEMMA WriteKeeps ==
    ASSUME IInv, Write
    PROVE  IInv'
<1>1. /\ UNCHANGED <<op, command, start, silent, dead, parked>>
      /\ loop.at = "writing" /\ loop \in Loops /\ flags \in Flags /\ arm \in Arms
      /\ loop.next \in Poses
  BY StateTypes DEF IInv, Write, Known
<1>2. wire.late = 0
  BY <1>1 DEF IInv, Late
<1>3. /\ arm' \in Arms /\ arm'.frame = loop.next /\ arm'.sort = "motion"
      /\ arm'.lifecycle = arm.lifecycle
  <2> DEFINE p == loop.next
  <2>1. p \in Poses /\ arm' = [arm EXCEPT !.frame = p, !.sort = "motion"]
    BY <1>1 DEF Write
  <2> HIDE DEF p
  <2>2. arm' \in Arms
    BY <1>1, <2>1 DEF Arms, Sorts
  <2>3. arm'.frame = p
    BY <1>1, <2>1 DEF Arms
  <2>4. arm'.sort = "motion" /\ arm'.lifecycle = arm.lifecycle
    BY <1>1, <2>1 DEF Arms
  <2>5. QED BY <2>2, <2>3, <2>4 DEF p
<1>4. /\ wire' \in Wires /\ wire'.any = TRUE /\ wire'.late \in {0, 1}
      /\ wire'.late # 0 => Quiet
  <2> DEFINE k == IF Quiet THEN wire.late + 1 ELSE 0
  <2>1. k \in {0, 1} /\ (k # 0 => Quiet)
    BY <1>2
  <2>2. wire' = [any |-> TRUE, late |-> k]
    BY DEF Write
  <2> HIDE DEF k
  <2>3. k \in Nat
    BY <2>1
  <2>4. wire' \in Wires /\ wire'.any = TRUE /\ wire'.late = k
    BY <2>2, <2>3, WireMade
  <2>5. QED BY <2>1, <2>4
<1>5. /\ loop' \in Loops /\ flags' \in Flags /\ flags'.paused = flags.paused
      /\ \/ loop'.at = "sent" /\ loop'.next = loop.next /\ flags'.stop = flags.stop
         \/ loop'.at = "last" /\ flags'.stop = TRUE
  <2>1. CASE loop' = [loop EXCEPT !.at = "sent"] /\ UNCHANGED flags
    BY <1>1, <2>1, LoopAt DEF Ats
  <2>2. CASE Raises
    BY <1>1, <2>2, RaisesOutcome
  <2>3. QED BY <2>1, <2>2 DEF Write
<1>6. TypeOK'
  BY <1>1, <1>3, <1>4, <1>5, StateTypes, TypesState DEF IInv
<1>7. Order' /\ NoWayBack'
  BY <1>1, <1>3, <1>5, OrderInLoop, Zenon
<1>8. Known'
  <2>1. start \in Poses /\ command \in Poses /\ op # "measured"
    BY <1>1, LoopIsBorn
  <2>2. QED BY <1>1, <1>3, <1>5, <2>1 DEF Known
<1>9. Late'
  <2>1. Quiet => Quiet'
    BY <1>3, <1>5, Zenon DEF Quiet
  <2>2. loop'.at \notin {"reading", "writing"}
    BY <1>5
  <2>3. QED BY <1>4, <2>1, <2>2 DEF Late
<1>10. Following'
  <2>1. CASE loop'.at = "sent"
    BY <1>3, <1>5, <2>1 DEF Following
  <2>2. CASE loop'.at = "last" /\ flags'.stop = TRUE
    BY <2>2 DEF Following
  <2>3. QED BY <1>5, <2>1, <2>2
<1>11. QED BY <1>6, <1>7, <1>8, <1>9, <1>10 DEF IInv

LEMMA SentKeeps ==
    ASSUME IInv, Sent
    PROVE  IInv'
<1>1. /\ UNCHANGED <<op, flags, arm, start, silent, dead, parked, wire>>
      /\ loop.at = "sent" /\ loop \in Loops /\ loop.next \in Poses
      /\ command' = loop.next
  BY StateTypes DEF IInv, Sent, Known
<1>2. loop' \in Loops /\ loop'.at = "top"
  <2>1. loop' \in Loops
    BY <1>1 DEF Sent, Loops, Ats
  <2>2. loop'.at = "top"
    BY <1>1 DEF Sent, Loops
  <2>3. QED BY <2>1, <2>2
<1>3. TypeOK'
  BY <1>1, <1>2, StateTypes, TypesState DEF IInv
<1>4. Order' /\ NoWayBack'
  BY <1>1, OrderInLoop
<1>5. Known'
  BY <1>1, <1>2 DEF IInv, Known
<1>6. Late'
  BY <1>1, <1>2 DEF IInv, Late, Quiet
<1>7. Following'
  BY <1>1, <1>2 DEF IInv, Following
<1>8. QED BY <1>3, <1>4, <1>5, <1>6, <1>7 DEF IInv

LEMMA LastKeeps ==
    ASSUME IInv, Last
    PROVE  IInv'
<1>1. /\ UNCHANGED <<op, flags, command, start, silent, dead, parked, wire>>
      /\ loop.at = "last" /\ loop \in Loops /\ HeldAt(arm, arm')
  BY StateTypes, HoldsOutcome DEF IInv, Last
<1>2. loop' \in Loops /\ loop'.at = "gone"
  BY <1>1, LoopAt DEF Last, Ats
<1>3. /\ arm' \in Arms /\ arm'.lifecycle = arm.lifecycle
      /\ \/ arm'.frame = arm.frame /\ arm'.sort = arm.sort
         \/ arm'.frame \in Poses
  BY <1>1 DEF HeldAt
<1>4. TypeOK'
  BY <1>1, <1>2, <1>3, StateTypes, TypesState DEF IInv
<1>5. Order' /\ NoWayBack'
  BY <1>1, <1>3, OrderInLoop
<1>6. Known'
  BY <1>1, <1>2, <1>3, LoopIsBorn DEF IInv, Known
<1>7. Late'
  BY <1>1, <1>2, <1>3 DEF IInv, Late, Quiet
<1>8. Following'
  BY <1>2 DEF Following
<1>9. QED BY <1>4, <1>5, <1>6, <1>7, <1>8 DEF IInv

-----------------------------------------------------------------------------
(* Theorems. *)

LEMMA NextKeeps ==
    ASSUME IInv, [Next]_vars
    PROVE  IInv'
<1>1. CASE UNCHANGED vars
  <2>1. /\ UNCHANGED <<op, loop, flags, arm, command, start, silent, dead, parked, wire>>
    BY <1>1 DEF vars
  <2>2. TypeOK'
    BY <2>1, StateTypes, TypesState DEF IInv
  <2>3. Order' /\ NoWayBack'
    BY <2>1 DEF IInv, Order, NoWayBack
  <2>4. Known' /\ Late'
    BY <2>1 DEF IInv, Known, Late, Quiet
  <2>5. Following'
    BY <2>1, Zenon DEF IInv, Following
  <2>6. QED BY <2>2, <2>3, <2>4, <2>5 DEF IInv
<1>2. CASE Operator
  <2>1. CASE Poll \/ Quit \/ Join
    BY <2>1, WatchKeeps
  <2>2. CASE Pause \/ StopFlag
    BY <2>2, TellingKeeps
  <2>3. CASE Measure \/ Start \/ Resume \/ PauseHold \/ Rebase
    BY <2>3, MeasureKeeps, StartKeeps, ResumeKeeps, PauseHoldKeeps, RebaseKeeps
  <2>4. CASE Disconnect \/ Park \/ Parks \/ Release
    BY <2>4, DisconnectKeeps, ParkKeeps, ParksKeeps, ReleaseKeeps
  <2>5. QED BY <1>2, <2>1, <2>2, <2>3, <2>4 DEF Operator
<1>3. CASE Loop
  BY <1>3, TopKeeps, ReadKeeps, WriteKeeps, SentKeeps, LastKeeps DEF Loop
<1>4. CASE Dies
  BY <1>4, WatchKeeps
<1>5. CASE Over
  BY <1>1, <1>5 DEF Over
<1>6. QED BY <1>1, <1>2, <1>3, <1>4, <1>5 DEF Next

\* The two threads agree on who moves the arm, wherever one is between two lines.
THEOREM Invariance == Spec => []IInv
<1>1. Init => IInv
  BY InitKeeps
<1>2. IInv /\ [Next]_vars => IInv'
  BY NextKeeps
<1>3. QED BY <1>1, <1>2, PTL DEF Spec

\* After a pause, a stop or a fault at most the tick that was under way sends its frame:
\* _run() looks at the flags before each tick only, and the frame in flight is the last.
THEOREM OneFrameLate == Spec => []OneLateFrame
<1>1. IInv => OneLateFrame
  <2> SUFFICES ASSUME IInv PROVE wire.late <= 1
    BY DEF OneLateFrame
  <2>1. wire.late = 0 \/ wire.late = 1
    BY DEF IInv, Late
  <2>2. QED BY <2>1
<1>2. QED BY <1>1, Invariance, PTL

\* A motion frame of the loop's is no further from the one before it than the longest
\* tick may move the arm, across pauses, rebases and late ticks.
THEOREM StepsStayShort == Spec => NoJump
<1>1. IInv /\ [Next]_vars
        => [wire.any /\ arm'.sort = "motion" => Apart(arm.frame, arm'.frame) <= MaxStep]_vars
  <2> SUFFICES ASSUME IInv, Next, wire.any, arm'.sort = "motion"
               PROVE  Apart(arm.frame, arm'.frame) <= MaxStep
    BY Zenon
  <2>1. MaxStep \in Nat
    BY TeleoperationAssumption DEF MaxStep
  <2>2. arm \in Arms
    BY StateTypes DEF IInv
  <2>3. ASSUME arm'.frame = arm.frame, arm'.sort = arm.sort
        PROVE  Apart(arm.frame, arm'.frame) <= MaxStep
    <3>1. arm.frame \in Int
      BY <2>3, TeleoperationAssumption DEF IInv, Known
    <3>2. QED BY <2>1, <2>3, <3>1 DEF Apart
  <2>4. CASE UNCHANGED arm
    BY <2>3, <2>4
  <2>5. CASE arm' \in Looks(arm)
    BY <2>2, <2>3, <2>5, LooksOutcome DEF Looked
  <2>6. CASE \E a \in Arms : /\ a.frame = arm.frame /\ a.sort = arm.sort
                             /\ arm' \in Holds(a)
    <3>1. PICK a \in Arms : /\ a.frame = arm.frame /\ a.sort = arm.sort
                            /\ arm' \in Holds(a)
      BY <2>6
    <3>2. HeldAt(a, arm')
      BY <3>1, HoldsOutcome
    <3>3. QED BY <2>3, <3>1, <3>2 DEF HeldAt
  <2>7. CASE Start /\ arm' # arm
    <3>1. PICK p \in Poses : arm' = [lifecycle |-> "enabled", frame |-> p, sort |-> "hold"]
      BY <2>7 DEF Start
    <3>2. QED BY <3>1
  <2>8. CASE Parks
    <3>1. CASE arm' = [arm EXCEPT !.frame = Parkable(start), !.sort = "hold"]
      BY <2>2, <3>1 DEF Arms
    <3>2. CASE \E a \in Looks(arm) : arm' \in Holds(a)
      BY <2>2, <2>6, <3>2, LooksOutcome DEF Looked
    <3>3. QED BY <2>8, <3>1, <3>2 DEF Parks
  <2>9. CASE Release
    <3> DEFINE l == IF arm.lifecycle = "enabled" THEN "connected" ELSE arm.lifecycle
    <3>1. l \in Lifecycles /\ arm' = [arm EXCEPT !.lifecycle = l]
      BY <2>2, <2>9 DEF Release, Arms, Lifecycles
    <3> HIDE DEF l
    <3>2. QED BY <2>2, <2>3, <3>1, LifecycleSet
  <2>10. CASE Write
    <3>1. arm'.frame = loop.next
      BY <2>2, <2>10 DEF Write, Arms
    <3>2. loop.at = "writing" /\ Following
      BY <2>10 DEF Write, IInv
    <3>3. Apart(arm.frame, loop.next) <= MaxStep
      BY <3>2 DEF Following
    <3>4. QED BY <3>1, <3>3
  <2>11. CASE PauseHold \/ Disconnect \/ Last
    BY <2>2, <2>4, <2>6, <2>11 DEF PauseHold, Disconnect, Last
  <2>12. CASE Measure \/ Poll \/ Rebase
    BY <2>4, <2>5, <2>12 DEF Measure, Poll, Rebase
  <2>13. CASE Resume \/ Pause \/ Quit \/ StopFlag \/ Join \/ Park
    BY <2>4, <2>13 DEF Resume, Pause, Quit, StopFlag, Join, Park
  <2>14. CASE Top \/ Read \/ Sent \/ Dies \/ Over
    BY <2>4, <2>14 DEF Top, Read, Sent, Dies, Over, vars
  <2>15. CASE Start
    BY <2>4, <2>7, <2>15
  <2>16. QED BY <2>8, <2>9, <2>10, <2>11, <2>12, <2>13, <2>14, <2>15
         DEF Next, Operator, Loop
<1>2. QED BY <1>1, Invariance, PTL DEF Spec, NoJump

\* Torque comes off an enabled arm only after a park was tried: main() closes the session
\* behind park_at_start_pose(), whatever ended the following.
THEOREM ParkedFirst == Spec => ParkedBeforeLimp
<1>1. IInv /\ [Next]_vars
        => [op' = "limp" /\ op # "limp" /\ arm.lifecycle = "enabled"
              => parked \in {"refused", "failed", "yes"}]_vars
  <2> SUFFICES ASSUME IInv, Next, op' = "limp", op # "limp", arm.lifecycle = "enabled"
               PROVE  parked \in {"refused", "failed", "yes"}
    BY Zenon
  <2>1. Release
    <3>1. ~Operator => op' = op
      BY DEF Next, Loop, Top, Read, Write, Sent, Last, Dies, Over, vars
    <3>2. QED BY <3>1 DEF Operator, Measure, Start, Poll, Resume, Pause, PauseHold, Rebase,
            Quit, StopFlag, Join, Disconnect, Park, Parks
  <2>2. parked \in ParkResults /\ parked # "no"
    BY <2>1, StateTypes DEF IInv, Release
  <2>3. parked \notin {"no start pose", "not enabled"}
    BY DEF IInv, NoWayBack
  <2>4. QED BY <2>2, <2>3 DEF ParkResults
<1>2. QED BY <1>1, Invariance, PTL DEF Spec, ParkedBeforeLimp

-----------------------------------------------------------------------------
(***************************************************************************)
(* For every arm, list of names, calibration and schedule of the saves:    *)
(* what save_preset() leaves in the parameters file wherever it is stopped.*)
(* The invariant says what the files hold at each line of a save.          *)
(***************************************************************************)

Savings == {"off", "watching", "asked", "loaded", "read", "writing", "written", "replaced",
            "restoring"}
Savers == [at: Savings, name: Names \cup {Absent}, replace: BOOLEAN]

\* A file of one calibration, of presets measured inside its limits.
GoodFiles ==
    {f \in Files : \A n \in Names : f.presets[n] # Absent =>
        f.presets[n].of = f.calibration /\ f.presets[n].inside}

Answers == {"nothing", "saved", "not saved", "refused", "raised", "killed"}

\* What the operator may have been told of a file that does not load.
Unfinished == {"not saved", "raised", "killed"}

SaverTypes ==
    /\ captured \in MonitorSamples \cup {Absent} /\ known \in Files \cup {Absent}
    /\ saver \in Savers
    /\ told \in Answers

\* A save has a sample that may be saved, the parameters it was made under, and a name.
Prepared ==
    /\ saver.at # "off" => known \in Files /\ told = "nothing"
    /\ saver.at \notin {"off", "watching"} =>
          captured \in MonitorSamples /\ Saveable(captured) /\ saver.name \in Names

Disks == [file: Files \cup {Broken}, temporary: Files \cup {Absent, Torn, Broken},
          original: Files \cup {Absent}]

\* What the files have in them at each line of a save.  A text that does not load is in
\* place only until it is read back and put right, or after a save that did not end.
Written ==
    /\ saver.at \in {"watching", "asked", "loaded", "read", "writing", "written"} =>
          disk.file \in Files
    /\ saver.at = "off" => disk.file \in Files \/ told \in Unfinished
    /\ saver.at \in {"watching", "asked", "loaded"} => disk.original = Absent
    /\ saver.at \in {"read", "writing", "written", "replaced", "restoring"} =>
          disk.original \in Files
    /\ saver.at = "written" => disk.temporary \in Spliced
    /\ saver.at = "restoring" => disk.temporary = disk.original

\* Undisturbed, the file stays a good one of the calibration the process knows, and is
\* the one the save began with until the new one takes its place.
Steady ==
    ~EditsDuringSave =>
        /\ disk.file \in GoodFiles \cup {Broken}
        /\ saver.at \in {"read", "writing", "written", "replaced", "restoring"} =>
              disk.original \in GoodFiles
        /\ saver.at \in {"loaded", "read", "writing", "written"} =>
              disk.file.calibration = known.calibration
        /\ saver.at \in {"read", "writing", "written"} =>
              /\ disk.original = disk.file
              /\ (disk.file.presets[saver.name] # Absent) = saver.replace

CInv == SaverTypes /\ Prepared /\ disk \in Disks /\ Written /\ Steady

-----------------------------------------------------------------------------
(* Parts. *)

LEMMA SaverParts ==
    ASSUME NEW s \in Savers
    PROVE  s.at \in Savings /\ s.name \in Names \cup {Absent} /\ s.replace \in BOOLEAN
  BY DEF Savers

LEMMA DiskParts ==
    ASSUME NEW d \in Disks
    PROVE  /\ d.file \in Files \cup {Broken}
           /\ d.temporary \in Files \cup {Absent, Torn, Broken}
           /\ d.original \in Files \cup {Absent}
  BY DEF Disks

\* A save goes on to another line.
LEMMA SaverMoves ==
    ASSUME NEW s \in Savers, NEW a \in Savings, NEW t, t = [s EXCEPT !.at = a]
    PROVE  t \in Savers /\ t.at = a /\ t.name = s.name /\ t.replace = s.replace
  BY DEF Savers

LEMMA IdleIs == Idle \in Savers /\ Idle.at = "off"
  BY DEF Idle, Savers, Savings

LEMMA EmptyFile ==
    ASSUME NEW c \in Calibrations, NEW f,
           f = [calibration |-> c, presets |-> [n \in Names |-> Absent]]
    PROVE  f \in GoodFiles
  BY DEF Files, GoodFiles

\* What a save would write is a file, and a good one if it was made of one.
LEMMA UpdatedIs ==
    ASSUME captured \in MonitorSamples, saver.name \in Names, known \in Files,
           disk.original \in Files, Saveable(captured)
    PROVE  /\ Updated \in Files
           /\ Updated.calibration = disk.original.calibration
           /\ \A m \in Names \ {saver.name} : Updated.presets[m] = disk.original.presets[m]
           /\ disk.original \in GoodFiles /\ disk.original.calibration = known.calibration
                 => Updated \in GoodFiles
<1> DEFINE b == \A j \in Joints : captured[j].position = "inside"
           f == \A j \in Joints : captured[j].quiet <= StaleAfter
           q == [of |-> known.calibration, inside |-> b, fresh |-> f]
<1>1. known.calibration \in Calibrations
  BY DEF Files
<1>2. b = TRUE
  BY DEF Saveable
<1>3. f \in BOOLEAN
  OBVIOUS
<1>4. Updated = [disk.original EXCEPT !.presets[saver.name] = q]
  BY DEF Updated
<1> HIDE DEF b, f
<1>5. q \in Presets /\ q.of = known.calibration /\ q.inside
  BY <1>1, <1>2, <1>3 DEF Presets
<1> HIDE DEF q
<1>6. /\ Updated \in Files /\ Updated.calibration = disk.original.calibration
      /\ Updated.presets[saver.name] = q
      /\ \A m \in Names \ {saver.name} : Updated.presets[m] = disk.original.presets[m]
  <2>1. Updated \in Files /\ Updated.calibration = disk.original.calibration
    BY <1>4, <1>5 DEF Files
  <2>2. Updated.presets = [disk.original.presets EXCEPT ![saver.name] = q]
    BY <1>4 DEF Files
  <2>3. disk.original.presets \in [Names -> Presets \cup {Absent}]
    BY DEF Files
  <2>4. QED BY <2>1, <2>2, <2>3
<1>7. ASSUME disk.original \in GoodFiles, disk.original.calibration = known.calibration
      PROVE  Updated \in GoodFiles
  <2>1. ASSUME NEW n \in Names, Updated.presets[n] # Absent
        PROVE  /\ Updated.presets[n].of = Updated.calibration
               /\ Updated.presets[n].inside
    <3>1. CASE n = saver.name
      BY <1>5, <1>6, <1>7, <3>1
    <3>2. CASE n # saver.name
      BY <1>6, <1>7, <2>1, <3>2 DEF GoodFiles
    <3>3. QED BY <3>1, <3>2
  <2>2. QED BY <1>6, <2>1 DEF GoodFiles
<1>8. QED BY <1>6, <1>7

-----------------------------------------------------------------------------
(* Steps. *)

\* The process ends over a file that it leaves good, or says nothing good of.
LEMMA LeavesKeeps ==
    ASSUME NEW what \in Answers, Leaves(what), disk' \in Disks,
           disk'.file \in Files \/ what \in Unfinished,
           ~EditsDuringSave => disk'.file \in GoodFiles \cup {Broken}
    PROVE  CInv'
<1>1. /\ saver' \in Savers /\ saver'.at = "off" /\ told' = what
      /\ known' = Absent /\ captured' = Absent
  BY IdleIs DEF Leaves
<1>2. SaverTypes' /\ Prepared'
  BY <1>1 DEF SaverTypes, Prepared
<1>3. Written' /\ Steady'
  BY <1>1 DEF Written, Steady
<1>4. QED BY <1>2, <1>3 DEF CInv

LEMMA SaveStartKeeps ==
    ASSUME CInv, StartMonitor
    PROVE  CInv'
<1>1. /\ disk.file \in Files /\ known' = disk.file /\ saver' = [Idle EXCEPT !.at = "watching"]
      /\ captured' = Absent /\ told' = "nothing"
      /\ disk' = [disk EXCEPT !.original = Absent]
  BY DEF StartMonitor
<1>2. disk \in Disks /\ Steady
  BY DEF CInv
<1>3. disk' \in Disks /\ disk'.file = disk.file /\ disk'.original = Absent
  BY <1>1, <1>2 DEF Disks
<1>4. saver' \in Savers /\ saver'.at = "watching"
  BY <1>1, IdleIs, SaverMoves DEF Savings
<1>5. SaverTypes' /\ Prepared'
  BY <1>1, <1>2, <1>4 DEF SaverTypes, Prepared, Answers
<1>6. Written' /\ Steady'
  BY <1>1, <1>2, <1>3, <1>4, TornAssumption DEF Written, Steady
<1>7. QED BY <1>3, <1>5, <1>6 DEF CInv

LEMMA SaveWatchKeeps ==
    ASSUME CInv, Watch
    PROVE  CInv'
<1>1. /\ saver.at = "watching" /\ captured' \in MonitorSamples \cup {Absent}
      /\ UNCHANGED <<known, saver, disk, told>>
  BY DEF Watch, CInv, SaverTypes
<1>2. SaverTypes' /\ Prepared'
  BY <1>1 DEF CInv, SaverTypes, Prepared
<1>3. Written' /\ Steady'
  BY <1>1 DEF CInv, Written, Steady
<1>4. QED BY <1>1, <1>2, <1>3 DEF CInv

LEMMA AskKeeps ==
    ASSUME CInv, Ask
    PROVE  CInv'
<1>1. saver.at = "watching" /\ UNCHANGED disk /\ disk \in Disks /\ Steady
  BY DEF Ask, CInv
<1>2. CASE Leaves("nothing") \/ Leaves("not saved")
  BY <1>1, <1>2, LeavesKeeps DEF CInv, Written, Steady, Answers, Unfinished
<1>3. CASE /\ captured # Absent /\ Saveable(captured)
           /\ \E n \in Names :
                saver' = [at |-> "asked", name |-> n, replace |-> known.presets[n] # Absent]
           /\ UNCHANGED <<captured, known, told>>
  <2>1. PICK n \in Names :
          saver' = [at |-> "asked", name |-> n, replace |-> known.presets[n] # Absent]
    BY <1>3
  <2>2. saver' \in Savers /\ saver'.at = "asked" /\ saver'.name \in Names
    BY <2>1 DEF Savers, Savings
  <2>3. SaverTypes' /\ Prepared'
    BY <1>1, <1>3, <2>2 DEF CInv, SaverTypes, Prepared, Saveable
  <2>4. Written' /\ Steady'
    BY <1>1, <2>2 DEF CInv, Written, Steady
  <2>5. QED BY <1>1, <2>3, <2>4 DEF CInv
<1>4. QED BY <1>2, <1>3 DEF Ask

LEMMA LoadKeeps ==
    ASSUME CInv, Load
    PROVE  CInv'
<1>1. saver.at = "asked" /\ UNCHANGED disk /\ disk \in Disks /\ Steady /\ saver \in Savers
  BY DEF Load, CInv, SaverTypes
<1>2. CASE Refuse
  BY <1>1, <1>2, LeavesKeeps DEF CInv, Written, Steady, Refuse, Answers
<1>3. CASE /\ disk.file \in Files /\ disk.file.calibration = known.calibration
           /\ saver' = [saver EXCEPT !.at = "loaded"]
           /\ UNCHANGED <<sample, captured, known, told>>
  <2>1. /\ saver' \in Savers /\ saver'.at = "loaded" /\ saver'.name = saver.name
    BY <1>1, <1>3, SaverMoves DEF Savings
  <2>2. SaverTypes' /\ Prepared'
    BY <1>1, <1>3, <2>1 DEF CInv, SaverTypes, Prepared, Saveable
  <2>3. Written' /\ Steady'
    BY <1>1, <1>3, <2>1 DEF CInv, Written, Steady
  <2>4. QED BY <1>1, <2>2, <2>3 DEF CInv
<1>4. QED BY <1>2, <1>3 DEF Load

LEMMA ReadTextKeeps ==
    ASSUME CInv, ReadText
    PROVE  CInv'
<1>1. saver.at = "loaded" /\ disk \in Disks /\ Steady /\ saver \in Savers
  BY DEF ReadText, CInv, SaverTypes
<1>2. CASE Refuse /\ UNCHANGED disk
  BY <1>1, <1>2, LeavesKeeps DEF CInv, Written, Steady, Refuse, Answers
<1>3. CASE /\ (disk.file.presets[saver.name] # Absent) = saver.replace
           /\ saver' = [saver EXCEPT !.at = "read"]
           /\ disk' = [disk EXCEPT !.original = disk.file]
           /\ UNCHANGED <<sample, captured, known, told>>
  <2>1. /\ saver' \in Savers /\ saver'.at = "read" /\ saver'.name = saver.name
        /\ saver'.replace = saver.replace
    BY <1>1, <1>3, SaverMoves DEF Savings
  <2>2. /\ disk' \in Disks /\ disk'.file = disk.file /\ disk'.original = disk.file
        /\ disk.file \in Files
    BY <1>1, <1>3 DEF Disks, CInv, Written
  <2>3. SaverTypes' /\ Prepared'
    BY <1>1, <1>3, <2>1 DEF CInv, SaverTypes, Prepared, Saveable
  <2>4. Written' /\ Steady'
    BY <1>1, <1>3, <2>1, <2>2, TornAssumption DEF Written, Steady
  <2>5. QED BY <2>2, <2>3, <2>4 DEF CInv
<1>4. QED BY <1>2, <1>3 DEF ReadText

LEMMA SaveWriteKeeps ==
    ASSUME CInv, WriteTemporary
    PROVE  CInv'
<1> DEFINE a == IF saver.at = "read" THEN "writing" ELSE "written"
<1>1. PICK t \in IF saver.at = "read" THEN {Torn} ELSE Spliced :
        /\ saver.at \in {"read", "writing"} /\ saver' = [saver EXCEPT !.at = a]
        /\ disk' = [disk EXCEPT !.temporary = t] /\ UNCHANGED <<captured, known, told>>
  BY DEF WriteTemporary
<1>2. /\ captured \in MonitorSamples /\ Saveable(captured) /\ saver.name \in Names
      /\ known \in Files /\ told = "nothing"
      /\ disk \in Disks /\ disk.original \in Files /\ disk.file \in Files
      /\ saver \in Savers
  BY <1>1 DEF CInv, SaverTypes, Prepared, Written
<1>3. Updated \in Files
  BY <1>2, UpdatedIs
<1>4. /\ a \in {"writing", "written"} /\ a \in Savings
      /\ a = "written" => t \in Spliced
      /\ t \in Files \cup {Absent, Torn, Broken}
  BY <1>1, <1>2, <1>3 DEF Savings, Spliced
<1> HIDE DEF a
<1>5. /\ saver' \in Savers /\ saver'.at = a /\ saver'.name = saver.name
      /\ saver'.replace = saver.replace
  BY <1>1, <1>2, <1>4, SaverMoves
<1>6. /\ disk' \in Disks /\ disk'.file = disk.file /\ disk'.original = disk.original
      /\ disk'.temporary = t
  BY <1>1, <1>2, <1>4 DEF Disks
<1>7. Spliced' = Spliced
  BY <1>1, <1>5, <1>6 DEF Updated, Spliced
<1>8. SaverTypes' /\ Prepared'
  BY <1>1, <1>2, <1>4, <1>5 DEF SaverTypes, Prepared, Saveable, Answers
<1>9. Written'
  BY <1>2, <1>4, <1>5, <1>6, <1>7 DEF Written
<1>10. Steady'
  BY <1>1, <1>4, <1>5, <1>6 DEF CInv, Steady
<1>11. QED BY <1>6, <1>8, <1>9, <1>10 DEF CInv

LEMMA ReplaceKeeps ==
    ASSUME CInv, Replace
    PROVE  CInv'
<1>1. /\ saver.at = "written" /\ saver' = [saver EXCEPT !.at = "replaced"]
      /\ disk' = [disk EXCEPT !.file = disk.temporary, !.temporary = Absent]
      /\ UNCHANGED <<captured, known, told>>
  BY DEF Replace
<1>2. /\ captured \in MonitorSamples /\ Saveable(captured) /\ saver.name \in Names
      /\ known \in Files /\ told = "nothing"
      /\ disk \in Disks /\ disk.original \in Files
      /\ saver \in Savers /\ disk.temporary \in {Updated, disk.original, Broken}
  BY <1>1 DEF CInv, SaverTypes, Prepared, Written, Spliced
<1>3. /\ Updated \in Files /\ Updated.calibration = disk.original.calibration
      /\ disk.original \in GoodFiles /\ disk.original.calibration = known.calibration
            => Updated \in GoodFiles
  BY <1>2, UpdatedIs
<1>4. /\ saver' \in Savers /\ saver'.at = "replaced" /\ saver'.name = saver.name
  BY <1>1, <1>2, SaverMoves DEF Savings
<1>5. /\ disk' \in Disks /\ disk'.file = disk.temporary /\ disk'.original = disk.original
  BY <1>1, <1>2, <1>3 DEF Disks
<1>6. SaverTypes' /\ Prepared'
  BY <1>1, <1>2, <1>4 DEF SaverTypes, Prepared, Saveable, Answers
<1>7. Written'
  BY <1>2, <1>4, <1>5 DEF Written
<1>8. Steady'
  <2>1. ~EditsDuringSave => disk.temporary \in GoodFiles \cup {Broken}
    BY <1>1, <1>2, <1>3 DEF CInv, Steady
  <2>2. QED BY <1>1, <1>4, <1>5, <2>1 DEF CInv, Steady
<1>9. QED BY <1>5, <1>6, <1>7, <1>8 DEF CInv

LEMMA VerifyKeeps ==
    ASSUME CInv, Verify
    PROVE  CInv'
<1>1. /\ saver.at = "replaced" /\ disk \in Disks /\ Steady /\ disk.original \in Files
      /\ saver \in Savers
  BY DEF Verify, CInv, Written, SaverTypes
<1>2. CASE disk.file \in Files /\ Leaves("saved") /\ UNCHANGED disk
  BY <1>1, <1>2, LeavesKeeps DEF Steady, Answers
<1>3. CASE Restores
  <2>1. /\ saver' = [saver EXCEPT !.at = "restoring"]
        /\ disk' = [disk EXCEPT !.temporary = disk.original]
        /\ UNCHANGED <<sample, captured, known, told>>
    BY <1>3 DEF Restores
  <2>2. saver' \in Savers /\ saver'.at = "restoring" /\ saver'.name = saver.name
    BY <1>1, <2>1, SaverMoves DEF Savings
  <2>3. /\ disk' \in Disks /\ disk'.file = disk.file /\ disk'.original = disk.original
        /\ disk'.temporary = disk.original
    BY <1>1, <2>1 DEF Disks
  <2>4. SaverTypes' /\ Prepared'
    BY <1>1, <2>1, <2>2 DEF CInv, SaverTypes, Prepared, Saveable
  <2>5. Written' /\ Steady'
    BY <1>1, <2>1, <2>2, <2>3 DEF Written, Steady
  <2>6. QED BY <2>3, <2>4, <2>5 DEF CInv
<1>4. QED BY <1>2, <1>3 DEF Verify

LEMMA RestoredKeeps ==
    ASSUME CInv, Restored
    PROVE  CInv'
<1>1. /\ saver.at = "restoring" /\ disk \in Disks /\ Steady
      /\ disk.original \in Files /\ disk.temporary = disk.original
      /\ disk' = [disk EXCEPT !.file = disk.temporary, !.temporary = Absent]
      /\ Leaves("refused")
  BY DEF Restored, Refuse, CInv, Written
<1>2. disk' \in Disks /\ disk'.file = disk.original /\ disk'.original = disk.original
  BY <1>1 DEF Disks
<1>3. ~EditsDuringSave => disk'.file \in GoodFiles
  BY <1>1, <1>2 DEF Steady
<1>4. disk'.file \in Files
  BY <1>1, <1>2
<1>5. QED BY <1>1, <1>2, <1>3, <1>4, LeavesKeeps DEF Answers

\* Whatever stops the process, nobody is told that the file was written.
LEMMA StopKeeps ==
    ASSUME CInv, Raise \/ Interrupt \/ Kill
    PROVE  CInv'
<1>1. /\ UNCHANGED disk /\ disk \in Disks /\ Steady /\ Written
  BY DEF Raise, Interrupt, Kill, CInv
<1>2. CASE Leaves("raised") \/ Leaves("not saved") \/ Leaves("killed")
  BY <1>1, <1>2, LeavesKeeps DEF Steady, Answers, Unfinished
<1>3. CASE saver.at = "watching" /\ Leaves("nothing")
  BY <1>1, <1>3, LeavesKeeps DEF Steady, Written, Answers
<1>4. QED BY <1>2, <1>3 DEF Raise, Interrupt, Kill

\* By hand, an empty file of any calibration or one more preset of this one.
LEMMA EditKeeps ==
    ASSUME CInv, Edit
    PROVE  CInv'
<1>1. /\ UNCHANGED <<captured, known, saver, told>> /\ disk \in Disks
      /\ EditsDuringSave \/ saver.at \in {"off", "watching"}
  BY DEF Edit, CInv
<1> DEFINE Edited(f) ==
             f \in Files /\ (disk.file \in GoodFiles \cup {Broken} => f \in GoodFiles)
<1>2. PICK f : Edited(f) /\ disk' = [disk EXCEPT !.file = f]
  <2>1. CASE \E c \in Calibrations : disk' = [disk EXCEPT !.file =
                [calibration |-> c, presets |-> [n \in Names |-> Absent]]]
    <3>1. PICK c \in Calibrations : disk' = [disk EXCEPT !.file =
                [calibration |-> c, presets |-> [n \in Names |-> Absent]]]
      BY <2>1
    <3>2. [calibration |-> c, presets |-> [n \in Names |-> Absent]] \in GoodFiles
      BY EmptyFile
    <3>3. QED BY <3>1, <3>2 DEF GoodFiles
  <2>2. CASE disk.file \in Files /\ \E n \in Names : disk' = [disk EXCEPT !.file.presets[n] =
                [of |-> disk.file.calibration, inside |-> TRUE, fresh |-> TRUE]]
    <3> DEFINE q == [of |-> disk.file.calibration, inside |-> TRUE, fresh |-> TRUE]
    <3>1. PICK n \in Names : disk' = [disk EXCEPT !.file.presets[n] = q]
      BY <2>2
    <3>2. disk.file \in Files /\ disk.file.calibration \in Calibrations
      BY <2>2 DEF Files
    <3>3. q \in Presets /\ q.of = disk.file.calibration /\ q.inside
      BY <3>2 DEF Presets
    <3> HIDE DEF q
    <3> DEFINE f == [disk.file EXCEPT !.presets[n] = q]
    <3>4. f \in Files /\ f.calibration = disk.file.calibration
      BY <3>2, <3>3 DEF Files
    <3>5. f.presets[n] = q /\ \A m \in Names \ {n} : f.presets[m] = disk.file.presets[m]
      <4>1. f.presets = [disk.file.presets EXCEPT ![n] = q]
        BY <3>2 DEF Files
      <4>2. disk.file.presets \in [Names -> Presets \cup {Absent}]
        BY <3>2 DEF Files
      <4> HIDE DEF f
      <4>3. QED BY <4>1, <4>2
    <3>6. disk' = [disk EXCEPT !.file = f]
      BY <3>1
    <3> HIDE DEF f
    <3>7. ASSUME disk.file \in GoodFiles PROVE f \in GoodFiles
      <4>1. ASSUME NEW m \in Names, f.presets[m] # Absent
            PROVE  f.presets[m].of = f.calibration /\ f.presets[m].inside
        <5>1. CASE m = n
          BY <3>3, <3>4, <3>5, <5>1
        <5>2. CASE m # n
          BY <3>4, <3>5, <3>7, <4>1, <5>2 DEF GoodFiles
        <5>3. QED BY <5>1, <5>2
      <4>2. QED BY <3>4, <4>1 DEF GoodFiles
    <3>8. disk.file # Broken
      BY <3>2, TornAssumption
    <3>9. QED BY <3>4, <3>6, <3>7, <3>8
  <2>3. QED BY <2>1, <2>2 DEF Edit
<1>3. /\ disk' \in Disks /\ disk'.file = f /\ disk'.original = disk.original
      /\ disk'.temporary = disk.temporary
  BY <1>1, <1>2 DEF Disks
<1>4. Spliced' = Spliced
  BY <1>1, <1>3 DEF Updated, Spliced
<1>5. SaverTypes' /\ Prepared'
  BY <1>1 DEF CInv, SaverTypes, Prepared, Saveable
<1>6. Written'
  BY <1>1, <1>2, <1>3, <1>4 DEF CInv, Written
<1>7. Steady'
  BY <1>1, <1>2, <1>3 DEF CInv, Steady
<1>8. QED BY <1>3, <1>5, <1>6, <1>7 DEF CInv

LEMMA SaveInitKeeps == CaptureInit => CInv
<1> SUFFICES ASSUME CaptureInit PROVE CInv
  OBVIOUS
<1>1. PICK c \in Calibrations :
        disk = [file |-> [calibration |-> c, presets |-> [n \in Names |-> Absent]],
                temporary |-> Absent, original |-> Absent]
  BY DEF CaptureInit
<1>2. disk.file \in GoodFiles /\ disk \in Disks
  <2> DEFINE f == [calibration |-> c, presets |-> [n \in Names |-> Absent]]
  <2>1. f \in GoodFiles /\ f \in Files
    BY EmptyFile DEF GoodFiles
  <2> HIDE DEF f
  <2>2. disk = [file |-> f, temporary |-> Absent, original |-> Absent]
    BY <1>1 DEF f
  <2>3. QED BY <2>1, <2>2 DEF Disks
<1>3. /\ captured = Absent /\ known = Absent /\ told = "nothing"
      /\ saver \in Savers /\ saver.at = "off"
  BY IdleIs DEF CaptureInit
<1>4. SaverTypes /\ Prepared
  BY <1>3 DEF SaverTypes, Prepared, Answers
<1>5. Written /\ Steady
  BY <1>2, <1>3 DEF Written, Steady, GoodFiles
<1>6. QED BY <1>2, <1>4, <1>5 DEF CInv

LEMMA SaveNextKeeps ==
    ASSUME CInv, [CaptureNext]_captureVars
    PROVE  CInv'
<1>1. CASE UNCHANGED captureVars
  <2>1. UNCHANGED <<captured, known, saver, disk, told>>
    BY <1>1 DEF captureVars
  <2>2. SaverTypes' /\ Prepared' /\ disk' \in Disks
    BY <2>1 DEF CInv, SaverTypes, Prepared, Saveable
  <2>3. Spliced' = Spliced
    BY <2>1 DEF Updated, Spliced
  <2>4. Written' /\ Steady'
    BY <2>1, <2>3 DEF CInv, Written, Steady
  <2>5. QED BY <2>2, <2>4 DEF CInv
<1>2. CASE CaptureNext
  BY <1>1, <1>2, SaveWatchKeeps, SaveStartKeeps, AskKeeps, LoadKeeps, ReadTextKeeps,
     SaveWriteKeeps, ReplaceKeeps, VerifyKeeps, RestoredKeeps, StopKeeps, EditKeeps
     DEF CaptureNext, MonitorOver
<1>3. QED BY <1>1, <1>2

THEOREM SaveInvariance == CaptureSpec => []CInv
<1>1. CaptureInit => CInv
  BY SaveInitKeeps
<1>2. CInv /\ [CaptureNext]_captureVars => CInv'
  BY SaveNextKeeps
<1>3. QED BY <1>1, <1>2, PTL DEF CaptureSpec

EditsAreNat == edits \in Nat

LEMMA EditsCounted == CaptureSpec => []EditsAreNat
<1>1. CaptureInit => EditsAreNat
  BY DEF CaptureInit, EditsAreNat
<1>2. EditsAreNat /\ [CaptureNext]_captureVars => EditsAreNat'
  <2> SUFFICES ASSUME EditsAreNat, [CaptureNext]_captureVars
               PROVE  edits' = edits \/ edits' = edits + 1
    BY DEF EditsAreNat
  <2>1. CASE Watch \/ StartMonitor \/ Ask \/ Load \/ ReadText \/ WriteTemporary
    BY <2>1 DEF Watch, StartMonitor, Ask, Load, ReadText, WriteTemporary
  <2>2. CASE \/ Replace \/ Verify \/ Restored \/ Raise \/ Interrupt \/ Kill
             \/ Edit \/ MonitorOver \/ UNCHANGED captureVars
    BY <2>2 DEF Replace, Verify, Restored, Raise, Interrupt, Kill, Edit,
       MonitorOver, captureVars
  <2>3. QED BY <2>1, <2>2 DEF CaptureNext
<1>3. QED BY <1>1, <1>2, PTL DEF CaptureSpec

\* Who changes the file.
LEMMA FileSteps ==
    ASSUME CInv, CaptureNext, edits \in Nat
    PROVE  \/ disk'.file = disk.file
           \/ Replace \/ Restored
           \/ Edit /\ edits' # edits
<1>1. disk \in Disks
  BY DEF CInv
<1>2. CASE Watch \/ Ask \/ Load \/ Raise \/ Interrupt \/ Kill \/ MonitorOver
  BY <1>2 DEF Watch, Ask, Load, Raise, Interrupt, Kill, MonitorOver, captureVars
<1>3. CASE StartMonitor \/ ReadText
  BY <1>1, <1>3 DEF StartMonitor, ReadText, Disks
<1>4. CASE WriteTemporary
  BY <1>1, <1>4 DEF WriteTemporary, Disks
<1>5. CASE Verify
  BY <1>1, <1>5 DEF Verify, Restores, Disks
<1>6. CASE Edit
  BY <1>6 DEF Edit
<1>7. QED BY <1>2, <1>3, <1>4, <1>5, <1>6 DEF CaptureNext

LEMMA Refusals ==
    ASSUME CaptureNext, told # "refused", told' = "refused"
    PROVE  Load \/ ReadText \/ Restored
<1>1. ~Watch /\ ~StartMonitor /\ ~WriteTemporary /\ ~Replace /\ ~Edit
  BY DEF Watch, StartMonitor, WriteTemporary, Replace, Edit
<1>2. ~Ask /\ ~Verify /\ ~Raise /\ ~Interrupt /\ ~Kill /\ ~MonitorOver
  BY DEF Ask, Verify, Restores, Leaves, Raise, Interrupt, Kill, MonitorOver, captureVars
<1>3. QED BY <1>1, <1>2 DEF CaptureNext

\* Stopped between any two steps of a save, the parameters file is never cut off, and if it
\* loads its presets are of its calibration and inside its limits.  One that does not load
\* was put there by a save that is still to read it back, or that ended in an error, a
\* Ctrl-C or a kill (save_preset()).  Unless somebody edits the file between the loading
\* and the reading of its text.
THEOREM FileStaysGood ==
    ASSUME ~EditsDuringSave
    PROVE  CaptureSpec => []FileHolds
<1>1. ASSUME CInv PROVE FileHolds
  <2>1. disk.file \in GoodFiles \cup {Broken} /\ GoodFiles \subseteq Files
    BY <1>1 DEF CInv, Steady, GoodFiles
  <2>2. disk.file # Torn
    BY <2>1, TornAssumption
  <2>3. disk.file \in Files => disk.file \in GoodFiles
    BY <2>1, TornAssumption
  <2>4. saver.at \in Savings
    BY <1>1, SaverParts DEF CInv, SaverTypes
  <2>5. disk.file \notin Files => saver.at \in {"replaced", "restoring"} \/ told \in Unfinished
    BY <1>1, <2>4 DEF CInv, Written, Savings
  <2>6. QED BY <2>2, <2>3, <2>5 DEF FileHolds, GoodFiles, Unfinished
<1>2. QED BY <1>1, SaveInvariance, PTL

\* A save that reports CaptureRefused has not touched the file, or has put back the one it
\* began with (_write_atomically()), whoever edits it meanwhile.
THEOREM RefusalsLeaveNoTrace == CaptureSpec => RefusedIsUnchanged
<1>1. CInv /\ [CaptureNext]_captureVars =>
        [told # "refused" /\ told' = "refused" => disk'.file =
            IF disk.original = Absent THEN disk.file ELSE disk.original]_captureVars
  <2> SUFFICES ASSUME CInv, CaptureNext, told # "refused", told' = "refused"
               PROVE  disk'.file = IF disk.original = Absent THEN disk.file ELSE disk.original
    OBVIOUS
  <2>1. CASE Load \/ ReadText
    <3>1. saver.at \in {"asked", "loaded"} /\ disk.original = Absent
      BY <2>1 DEF Load, ReadText, CInv, Written
    <3>2. UNCHANGED disk
      BY <2>1 DEF Load, ReadText
    <3>3. QED BY <3>1, <3>2
  <2>2. CASE Restored
    <3>1. /\ disk.temporary = disk.original /\ disk \in Disks /\ saver.at = "restoring"
          /\ disk' = [disk EXCEPT !.file = disk.temporary, !.temporary = Absent]
          /\ disk.original \in Files
      BY <2>2 DEF Restored, CInv, Written
    <3>2. disk'.file = disk.original
      BY <3>1 DEF Disks
    <3>3. disk.original # Absent
      BY <3>1, TornAssumption
    <3>4. QED BY <3>2, <3>3
  <2>3. QED BY <2>1, <2>2, Refusals
<1>2. QED BY <1>1, SaveInvariance, PTL DEF CaptureSpec, RefusedIsUnchanged

\* A save changes the preset it was asked for and no other, and replaces one only if that
\* was confirmed (insert_preset()), unless somebody edits the file meanwhile.
THEOREM OthersStay ==
    ASSUME ~EditsDuringSave
    PROVE  CaptureSpec => NothingIsLost
<1>1. CInv /\ EditsAreNat /\ [CaptureNext]_captureVars =>
        [edits' = edits => \A n \in Names :
            disk.file \in Files /\ disk'.file \in Files /\ disk.file.presets[n] # Absent
                /\ disk'.file.presets[n] # disk.file.presets[n]
            => \/ saver.name = n /\ saver.replace
               \/ saver.at = "restoring" /\ disk'.file = disk.original]_captureVars
  <2> SUFFICES ASSUME CInv, EditsAreNat, CaptureNext, edits' = edits, NEW n \in Names,
                      disk.file \in Files, disk'.file \in Files,
                      disk.file.presets[n] # Absent,
                      disk'.file.presets[n] # disk.file.presets[n]
               PROVE  \/ saver.name = n /\ saver.replace
                      \/ saver.at = "restoring" /\ disk'.file = disk.original
    OBVIOUS
  <2>1. disk \in Disks
    BY DEF CInv
  <2>2. CASE Replace
    <3>1. /\ saver.at = "written" /\ disk.temporary \in {Updated, disk.original, Broken}
          /\ disk' = [disk EXCEPT !.file = disk.temporary, !.temporary = Absent]
      BY <2>2 DEF Replace, CInv, Written, Spliced
    <3>2. disk'.file \in {Updated, disk.original}
      <4>1. disk'.file = disk.temporary
        BY <2>1, <3>1 DEF Disks
      <4>2. QED BY <3>1, <4>1, TornAssumption
    <3>3. /\ captured \in MonitorSamples /\ Saveable(captured) /\ saver.name \in Names
          /\ known \in Files /\ disk.original \in Files
      BY <3>1 DEF CInv, Prepared, Written
    <3>4. /\ disk.original = disk.file
          /\ (disk.file.presets[saver.name] # Absent) = saver.replace
      BY <3>1 DEF CInv, Steady
    <3>5. n = saver.name
      BY <3>2, <3>3, <3>4, UpdatedIs
    <3>6. QED BY <3>4, <3>5
  <2>3. CASE Restored
    <3>1. /\ saver.at = "restoring" /\ disk.temporary = disk.original
          /\ disk' = [disk EXCEPT !.file = disk.temporary, !.temporary = Absent]
      BY <2>3 DEF Restored, CInv, Written
    <3>2. QED BY <2>1, <3>1 DEF Disks
  <2>4. CASE ~Replace /\ ~Restored
    BY <2>4, FileSteps DEF EditsAreNat
  <2>5. QED BY <2>2, <2>3, <2>4
<1>2. QED BY <1>1, SaveInvariance, EditsCounted, PTL DEF CaptureSpec, NothingIsLost
=============================================================================
