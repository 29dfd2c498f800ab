---------------------------- MODULE MoveCommands ----------------------------
(***************************************************************************)
(* goto.py and jog.py: what an operator's `robot-goto` and `robot-raise`   *)
(* ask of the motion controller.  A route is the sequence of the poses its *)
(* legs end at; a command that is refused has none.  The operators return  *)
(* the set of the routes a command takes: one, or none.                    *)
(***************************************************************************)
EXTENDS Integers, Sequences, FiniteSets

\* No --transition was given.
Unchosen == "unchosen"

\* transitions_ending_at(): approved waypoint sequences that finish at the destination.
EndingAt(parameters, destination) ==
    {t \in DOMAIN parameters.transitions :
        LET waypoints == parameters.transitions[t]
        IN  waypoints[Len(waypoints)] = destination}

Legs(parameters, transition) ==
    LET waypoints == parameters.transitions[transition]
    IN  [i \in DOMAIN waypoints |-> parameters.positions[waypoints[i]]]

\* resolve_route(): the transition that was chosen, or the only one, or a direct move
\* when there is none; an unknown name and an ambiguous one are refused.
Resolved(parameters, destination, chosen) ==
    LET ending == EndingAt(parameters, destination)
        taken == IF chosen = Unchosen THEN ending ELSE ending \cap {chosen}
    IN  IF destination \notin DOMAIN parameters.positions \/ Cardinality(taken) > 1 THEN {}
        ELSE IF chosen = Unchosen /\ ending = {} THEN {<<parameters.positions[destination]>>}
        ELSE {Legs(parameters, t) : t \in taken}

\* go_to(): every route robot-goto may run.
GotoRoutes(parameters) ==
    UNION {Resolved(parameters, destination, chosen) :
             destination \in DOMAIN parameters.positions,
             chosen \in DOMAIN parameters.transitions \cup {Unchosen}}

\* plan_jog(): a step from the measured pose, refused rather than shortened when it is
\* too large or leaves the limits.
Jogs(at, delta, ceiling, limits) ==
    {<<to>> : to \in ({at + delta} \cap limits \cap ((at - ceiling)..(at + ceiling))) \ {at}}

\* raise_arm(): every route robot-raise may run, from wherever the arm was measured.
JogRoutes(poses, deltas, ceiling, limits) ==
    UNION {Jogs(at, delta, ceiling, limits) : at \in poses, delta \in deltas}
=============================================================================
