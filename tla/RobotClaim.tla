------------------------------ MODULE RobotClaim ------------------------------
(***************************************************************************)
(* One physical robot and the worker processes that want it: the leases of *)
(* robot/lease.py, the session lifecycle of robot/session.py over them,    *)
(* and the lifecycle half of the arm port (robot/robstride_mit_port.py).   *)
(*                                                                         *)
(* Workers are processes on one host (FileLease) or on several             *)
(* (PostgresAdvisoryLease).  Within a worker open() and close() run call   *)
(* by call, so that another worker, a crash or the loss of the lock's      *)
(* connection comes between any two calls; everything the hardware may     *)
(* answer to a call is an outcome of the action that makes it.             *)
(***************************************************************************)
EXTENDS Naturals

CONSTANTS
    Workers,        \* worker processes
    Backends        \* what build_lease() may have chosen, among the two it knows

ASSUME BackendAssumption == Backends \subseteq {"file", "postgres"}

VARIABLES
    backend,        \* EVEREST_LEASE_BACKEND, the same for every worker
    locked,         \* the workers the lock itself counts as its holders
    believes,       \* the workers whose lease has held = TRUE
    pc,             \* the next call a worker's session makes
    life,           \* the lifecycle of its port
    bus,            \* the workers that have the CAN adapter open
    torque,         \* the motors are under torque
    failed,         \* the workers whose session has raised out of a lifecycle call
    dropped         \* history: a live holder's connection was lost

session == <<pc, life, failed>>
lease == <<locked, believes>>
vars == <<backend, lease, session, bus, torque, dropped>>

Places == {"idle", "connect", "verify", "open", "disconnect", "release", "refuse", "dead"}
Lifecycles == {"disconnected", "connected", "enabled", "fault"}

Init ==
    /\ backend \in Backends
    /\ locked = {}
    /\ believes = {}
    /\ pc = [w \in Workers |-> "idle"]
    /\ life = [w \in Workers |-> "disconnected"]
    /\ bus = {}
    /\ torque = FALSE
    /\ failed = {}
    /\ dropped = FALSE

Goto(w, place) == pc' = [pc EXCEPT ![w] = place]
Live(w, lifecycle) == life' = [life EXCEPT ![w] = lifecycle]

-----------------------------------------------------------------------------
(* The lease. *)

\* BUG: the answer of the lock is not looked at.
GrantsAnyway == TRUE

\* flock(LOCK_EX | LOCK_NB), or pg_try_advisory_lock on a connection of its own: granted
\* unless some descriptor or connection has the lock, the asking worker's own included.
Grants == locked = {}

\* lease.acquire(); RobotBusy leaves everything as it was.
Acquire(w) ==
    /\ pc[w] = "idle"
    /\ Grants
    /\ locked' = locked \cup {w}
    /\ believes' = believes \cup {w}
    /\ failed' = failed \ {w}
    /\ Goto(w, "connect")
    /\ UNCHANGED <<backend, life, bus, torque, dropped>>

\* lease.release(): whatever unlocking says, the descriptor or connection is closed.
Unlock(w) ==
    /\ locked' = locked \ {w}
    /\ believes' = believes \ {w}

\* The server drops the lock of a connection whose client is gone: a dead worker, or a
\* session object that was collected with its lease still in it.
ServerNotices(w) ==
    /\ backend = "postgres"
    /\ w \in locked \ believes
    /\ locked' = locked \ {w}
    /\ UNCHANGED <<backend, believes, session, bus, torque, dropped>>

\* The connection of a live holder is lost, and the server frees the lock.  Nothing tells
\* the lease: held only says that there is a connection object.
ConnectionLost(w) ==
    /\ backend = "postgres"
    /\ w \in locked \cap believes
    /\ locked' = locked \ {w}
    /\ dropped' = TRUE
    /\ UNCHANGED <<backend, believes, session, bus, torque>>

-----------------------------------------------------------------------------
(* The port. *)

\* BUG: the adapter is closed without taking torque off first.
DisconnectsUnderTorque(w) ==
    /\ Live(w, "disconnected")
    /\ IF life[w] = "disconnected" THEN UNCHANGED <<bus, torque>>
       ELSE bus' = bus \ {w} /\ UNCHANGED torque

\* port.disconnect() that returns: nothing to do, or torque off and the adapter closed.
Disconnects(w) ==
    /\ Live(w, "disconnected")
    /\ IF life[w] = "disconnected" THEN UNCHANGED <<bus, torque>>
       ELSE bus' = bus \ {w} /\ torque' = FALSE

\* port.disconnect() that raises: the lifecycle says disconnected all the same.
DisconnectFails(w) ==
    /\ life[w] # "disconnected"
    /\ Live(w, "disconnected")
    /\ bus' \in {bus, bus \ {w}}
    /\ torque' \in {torque, FALSE}

\* enable(): refused, armed, or its clean-up ran and perhaps failed as well.
Enable(w) ==
    /\ pc[w] = "open"
    /\ life[w] = "connected"
    /\ \/ life' = [life EXCEPT ![w] = "enabled"] /\ torque' = TRUE
       \/ UNCHANGED life /\ torque' \in BOOLEAN
    /\ UNCHANGED <<backend, lease, pc, bus, failed, dropped>>

\* estop(), by a stage that failed: no longer enabled, even if the command was lost.
Estop(w) ==
    /\ pc[w] = "open"
    /\ life[w] # "disconnected"
    /\ life' = [life EXCEPT ![w] = IF @ = "enabled" THEN "connected" ELSE @]
    /\ torque' \in {torque, FALSE}
    /\ UNCHANGED <<backend, lease, pc, bus, failed, dropped>>

\* read_state() finds a motor that reports a fault.
MotorFault(w) ==
    /\ pc[w] = "open"
    /\ life[w] \in {"connected", "enabled"}
    /\ Live(w, "fault")
    /\ UNCHANGED <<backend, lease, pc, bus, torque, failed, dropped>>

\* clear_faults(): every motor answers, and the port counts as connected again.
ClearFaults(w) ==
    /\ pc[w] = "open"
    /\ life[w] = "fault"
    /\ Live(w, "connected")
    /\ UNCHANGED <<backend, lease, pc, bus, torque, failed, dropped>>

-----------------------------------------------------------------------------
(* open(). *)

\* port.connect(): the handshake, then the flush of residual frames.
Connect(w) ==
    /\ pc[w] = "connect"
    /\ \/ /\ bus' = bus \cup {w}
          /\ Live(w, "connected")
          /\ Goto(w, "verify")
          /\ UNCHANGED failed
       \/ /\ bus' \in {bus, bus \cup {w}}       \* the flush fails on an open adapter
          /\ failed' = failed \cup {w}
          /\ Goto(w, "refuse")
          /\ UNCHANGED life
    /\ UNCHANGED <<backend, lease, torque, dropped>>

\* The cameras connect and the identity is the configured one.
Open(w) ==
    /\ pc[w] = "verify"
    /\ Goto(w, "open")
    /\ UNCHANGED <<backend, lease, life, bus, torque, failed, dropped>>

\* They do not: bridge.disconnect(), and release only if that returns.  When it raises, the
\* session is gone with its lease, and nobody is left to release it.
Refuse(w) ==
    /\ pc[w] = "verify"
    /\ failed' = failed \cup {w}
    /\ \/ Disconnects(w) /\ Goto(w, "refuse") /\ UNCHANGED lease
       \/ /\ DisconnectFails(w)
          /\ Goto(w, "idle")
          /\ believes' = believes \ {w}
          /\ UNCHANGED locked
    /\ UNCHANGED <<backend, dropped>>

\* lease.release() of a session that was refused.
ReleaseRefused(w) ==
    /\ pc[w] = "refuse"
    /\ Unlock(w)
    /\ Goto(w, "idle")
    /\ UNCHANGED <<backend, life, bus, torque, failed, dropped>>

-----------------------------------------------------------------------------
(* reconnect() and close(). *)

\* disconnect(), then connect() whatever that did, then the identity; anything that raises
\* leaves the session open.
Reconnect(w) ==
    \E freed, made \in BOOLEAN :        \* the old connection is let go, the new one made
        /\ pc[w] = "open"
        /\ life[w] = "disconnected" => freed
        /\ torque' \in IF life[w] = "disconnected" THEN {torque}
                       ELSE IF freed THEN {FALSE} ELSE {torque, FALSE}
        /\ \/ made /\ Live(w, "connected") /\ bus' = bus \cup {w}
           \/ ~made /\ Live(w, "disconnected") /\ bus' \in {bus \cup {w}, bus \ {w}}
        /\ failed' \in IF freed /\ made THEN {failed, failed \cup {w}} ELSE {failed \cup {w}}
        /\ UNCHANGED <<backend, lease, pc, dropped>>

\* What follows the first part of close(), whether disable() raised or not.
AfterDisable == "disconnect"

\* The first part of close(): disable an enabled arm.
Close(w) ==
    /\ pc[w] = "open"
    /\ Goto(w, AfterDisable)
    /\ \/ life[w] # "enabled" /\ UNCHANGED <<life, torque, failed>>
       \/ life[w] = "enabled" /\ Live(w, "connected") /\ torque' = FALSE /\ UNCHANGED failed
       \/ /\ life[w] = "enabled"                            \* disable() raises
          /\ torque' \in {torque, FALSE}
          /\ failed' = failed \cup {w}
          /\ UNCHANGED life
    /\ UNCHANGED <<backend, lease, bus, dropped>>

\* BUG: an adapter that cannot be closed skips the release of the claim.
AfterFailedDisconnect == "idle"

\* Where a disconnect() that raised leaves close(): the finally releases the claim.
AfterDisconnectRaised == "release"

\* The second part: bridge.disconnect().
CloseBus(w) ==
    /\ pc[w] = "disconnect"
    /\ \/ Disconnects(w) /\ Goto(w, "release") /\ UNCHANGED failed
       \/ DisconnectFails(w) /\ Goto(w, AfterDisconnectRaised) /\ failed' = failed \cup {w}
    /\ UNCHANGED <<backend, lease, dropped>>

\* The last part: lease.release().
Release(w) ==
    /\ pc[w] = "release"
    /\ Unlock(w)
    /\ Goto(w, "idle")
    /\ UNCHANGED <<backend, life, bus, torque, failed, dropped>>

-----------------------------------------------------------------------------
(* The process. *)

\* What a dead process leaves locked: the kernel drops a flock with its descriptor, the
\* server has to notice that a connection is gone.
LockedAfterDeath(w) == IF backend = "file" THEN locked \ {w} ELSE locked

\* The worker is killed.  The motors keep what they were last told.
Crash(w) ==
    /\ pc[w] # "dead"
    /\ Goto(w, "dead")
    /\ Live(w, "disconnected")
    /\ locked' = LockedAfterDeath(w)
    /\ believes' = believes \ {w}
    /\ bus' = bus \ {w}
    /\ failed' = failed \ {w}
    /\ UNCHANGED <<backend, torque, dropped>>

Restart(w) ==
    /\ pc[w] = "dead"
    /\ Goto(w, "idle")
    /\ UNCHANGED <<backend, lease, life, bus, torque, failed, dropped>>

\* The calls of open() and close(), which go on by themselves once begun.
Lifecycle(w) ==
    \/ Connect(w) \/ Open(w) \/ Refuse(w) \/ ReleaseRefused(w)
    \/ CloseBus(w) \/ Release(w)

\* What the stages of a workflow do with an open session, and the hardware to them.
Use(w) == Enable(w) \/ Estop(w) \/ MotorFault(w) \/ ClearFaults(w) \/ Reconnect(w)

Environment(w) == ServerNotices(w) \/ ConnectionLost(w) \/ Crash(w) \/ Restart(w)

Next ==
    \E w \in Workers : Acquire(w) \/ Lifecycle(w) \/ Use(w) \/ Close(w) \/ Environment(w)

Spec == Init /\ [][Next]_vars

\* A call that was begun returns or raises, and the server does notice.  Nothing makes a
\* stage finish, a worker start a session, or a dead one come back.
FairSpec ==
    /\ Spec
    /\ \A w \in Workers : WF_vars(Lifecycle(w)) /\ WF_vars(ServerNotices(w))

-----------------------------------------------------------------------------
(* Properties. *)

\* Every variable keeps its type, and the lock has one holder at most.
TypeOK ==
    /\ backend \in Backends
    /\ locked \subseteq Workers
    /\ \A v, w \in locked : v = w
    /\ believes \subseteq Workers
    /\ pc \in [Workers -> Places]
    /\ life \in [Workers -> Lifecycles]
    /\ bus \subseteq Workers
    /\ torque \in BOOLEAN
    /\ failed \subseteq Workers
    /\ dropped \in BOOLEAN

\* "Two controllers on one CAN bus is not a degraded mode": as long as no live holder lost
\* its lock, no two workers have a port that is connected, enabled or faulted, through every
\* crash, refusal and failing teardown.
OneController ==
    ~dropped =>
        \A v, w \in Workers :
            life[v] # "disconnected" /\ life[w] # "disconnected" => v = w

\* A claim is not given up, and a new session not begun, on a port that is still live: the
\* bus is let go before the lock, on every path through open() and close().
BusBeforeLock ==
    \A w \in Workers : life[w] # "disconnected" => w \in believes

\* A session that closes without any of its lifecycle calls having raised leaves the motors
\* without torque, after a fault, an emergency stop or a cleared fault as well.
QuietCloseIsLimp ==
    [][\A w \in Workers :
           /\ pc[w] = "release" /\ pc'[w] = "idle"
           /\ w \notin failed
           /\ ~dropped
           => ~torque']_vars

\* close() "releases the claim, whatever happened before", and a dead worker's claim does
\* not outlive it for ever.
ClaimComesBack ==
    \A w \in Workers : pc[w] \in {"disconnect", "release", "dead"} ~> w \notin locked

-----------------------------------------------------------------------------
(* What the documentation says and the code does not do. *)

\* "Two controllers on one CAN bus is not a degraded mode ... so ownership is taken
\* explicitly": no two workers have the arm enabled, a lost lock notwithstanding.
SoleController ==
    \A v, w \in Workers : life[v] = "enabled" /\ life[w] = "enabled" => v = w

\* "A refused session must leave nothing behind -- neither a claimed robot nor a held CAN
\* bus, which would block the next attempt just as effectively."
RefusedLeavesNothing ==
    [][\A w \in Workers :
           pc[w] \in {"connect", "verify", "refuse"} /\ pc'[w] = "idle"
           => w \notin locked' /\ w \notin bus']_vars

=============================================================================
