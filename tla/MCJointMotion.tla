--------------------------- MODULE MCJointMotion ---------------------------
(* JointMotion on a joint with three poses inside its limits, under the moves the commands
   may ask for. *)
EXTENDS JointMotion, MoveCommands

\* A direct move, a transition, one that passes its first waypoint over, and one whose
\* second waypoint is outside the limits.
SomeParameters ==
    [positions |-> [rest |-> 0, ready |-> 1, high |-> 2, beyond |-> 3],
     transitions |-> [down |-> <<"high", "rest">>, up |-> <<"rest", "ready">>,
                      out |-> <<"ready", "beyond">>]]

SomeRoutes == GotoRoutes(SomeParameters) \cup JogRoutes(Poses, {1, -1, 2}, 1, Low..High)

\* Every file of three positions with up to two transitions of up to two waypoints.
Waypoints == UNION {[1..n -> {"rest", "ready", "high"}] : n \in 1..2}

SmallParameters ==
    [positions: {[rest |-> 0, ready |-> 1, high |-> 2]},
     transitions: UNION {[names -> Waypoints] : names \in SUBSET {"one", "two"}}]

\* An approved transition is never bypassed: whatever is asked for, a route that ends where
\* a transition ends is one of those transitions, and a choice that is left open is not
\* made silently (resolve_route()).
ASSUME NeverBypassed ==
    \A p \in SmallParameters : \A d \in DOMAIN p.positions :
        \A chosen \in DOMAIN p.transitions \cup {Unchosen} :
            LET ways == {t \in DOMAIN p.transitions : Legs(p, t)[Len(Legs(p, t))] = p.positions[d]}
                route == Resolved(p, d, chosen)
            IN  /\ \A r \in route : r[Len(r)] = p.positions[d]
                /\ ways # {} => \A r \in route : \E t \in ways : r = Legs(p, t)
                /\ chosen = Unchosen => (route = {} <=> Cardinality(ways) > 1)

NoTurns == {0}
OneTurn == {0, 1}
=============================================================================
