----------------------------- MODULE MCReplay ------------------------------
(* Instances of Replay: a recording that fits, one that starts and ends outside the *)
(* limits, and one that cannot be played.                                          *)
EXTENDS Replay

MCPoses == 0..3

\* Degrees are a unit above the driver's radians: the limits are 1..3.
Recordings ==
    {[actions |-> <<2, 3, 2>>, states |-> <<2, 2, 3>>, unreadable |-> {}],
     [actions |-> <<1, 3, 4>>, states |-> <<4, 3, 3>>, unreadable |-> {}],
     [actions |-> <<1, 5, 2>>, states |-> <<2, 3, 3>>, unreadable |-> {3}]}

Ask(e, last, policy, tolerance, approval, dry, compatible) ==
    [actions |-> e.actions, states |-> e.states, unreadable |-> e.unreadable,
     first |-> 1, last |-> last, policy |-> policy, tolerance |-> tolerance,
     approval |-> approval, dry |-> dry, compatible |-> compatible]

Entry(policy, deviation, staged) == [policy |-> policy, deviation |-> deviation, staged |-> staged]

MCRequests ==
    {Ask(e, 3, p, t, a, FALSE, TRUE) :
        e \in Recordings, p \in Policies, t \in {0, 1},
        a \in {Entry("reject", 0, FALSE), Entry("clamp_within_tolerance", 0, FALSE),
               Entry("clamp_within_tolerance", 1, TRUE), Entry("clamp", 0, FALSE)}}
    \cup {Ask(e, last, "reject", 0, Entry("reject", 0, FALSE), d, c) :
            e \in Recordings, last \in {2, 4}, d \in BOOLEAN, c \in BOOLEAN}
=============================================================================
