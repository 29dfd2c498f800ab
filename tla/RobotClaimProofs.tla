--------------------------- MODULE RobotClaimProofs ---------------------------
(***************************************************************************)
(* Theorems about RobotClaim, for every set of workers and either lock.    *)
(*                                                                         *)
(* OneController relates the ports, which no lock guards by itself, to the *)
(* lock.  The link is the chain of ClaimInv: a live port belongs to a      *)
(* session between open() and close(); such a session has a lease that     *)
(* believes; and while no live holder lost its lock, who believes is who   *)
(* the lock counts, of whom there is one at most.  LimpInv adds what the   *)
(* end of close() needs to know of the arm.                                *)
(***************************************************************************)
EXTENDS RobotClaim, TLAPS

\* Where a session is that has a lease in its hands.
Claiming == {"connect", "verify", "open", "disconnect", "release", "refuse"}

ClaimInv ==
    /\ \A w \in Workers : w \in believes <=> pc[w] \in Claiming
    /\ \A w \in Workers : life[w] # "disconnected" => pc[w] \in {"verify", "open", "disconnect"}
    /\ ~dropped => believes \subseteq locked

LimpInv ==
    \A w \in Workers :
        /\ pc[w] = "verify" => life[w] # "disconnected"
        /\ pc[w] \in {"open", "disconnect"} /\ life[w] = "disconnected" => w \in failed
        /\ pc[w] = "release" /\ w \notin failed /\ ~dropped => ~torque

IInv == TypeOK /\ ClaimInv /\ LimpInv

USE DEF Places, Lifecycles, Claiming

-----------------------------------------------------------------------------

LEMMA InitInv == Init => IInv
  BY BackendAssumption DEF Init, IInv, TypeOK, ClaimInv, LimpInv

\* Types, and the one holder of the lock.
LEMMA TypeStep == TypeOK /\ [Next]_vars => TypeOK'
<1> SUFFICES ASSUME TypeOK, [Next]_vars
             PROVE  TypeOK'
  OBVIOUS
<1> USE DEF TypeOK
<1>1. CASE UNCHANGED vars
  BY <1>1 DEF vars, lease, session
<1>2. ASSUME NEW w \in Workers, Acquire(w)
      PROVE  TypeOK'
  BY <1>2 DEF Acquire, Grants, Goto
<1>3. ASSUME NEW w \in Workers, Lifecycle(w)
      PROVE  TypeOK'
  <2>1. CASE Connect(w) \/ Open(w)
    BY <2>1 DEF Connect, Open, Goto, Live, lease
  <2>2. CASE Refuse(w)
    BY <2>2 DEF Refuse, Disconnects, DisconnectFails, Goto, Live, lease
  <2>3. CASE CloseBus(w)
    BY <2>3 DEF CloseBus, AfterDisconnectRaised, Disconnects, DisconnectFails, Goto, Live, lease
  <2>4. CASE ReleaseRefused(w) \/ Release(w)
    BY <2>4 DEF ReleaseRefused, Release, Unlock, Goto
  <2>5. QED
    BY <1>3, <2>1, <2>2, <2>3, <2>4 DEF Lifecycle
<1>4. ASSUME NEW w \in Workers, Use(w) \/ Close(w)
      PROVE  TypeOK'
  <2>1. CASE Enable(w) \/ Estop(w)
    BY <2>1 DEF Enable, Estop, Live, lease
  <2>2. CASE MotorFault(w) \/ ClearFaults(w)
    BY <2>2 DEF MotorFault, ClearFaults, Live, lease
  <2>3. CASE Reconnect(w)
    BY <2>3 DEF Reconnect, Live, lease
  <2>4. CASE Close(w)
    BY <2>4 DEF Close, AfterDisable, Goto, Live, lease
  <2>5. QED
    BY <1>4, <2>1, <2>2, <2>3, <2>4 DEF Use
<1>5. ASSUME NEW w \in Workers, Environment(w)
      PROVE  TypeOK'
  <2>1. CASE ServerNotices(w) \/ ConnectionLost(w)
    BY <2>1 DEF ServerNotices, ConnectionLost, session
  <2>2. CASE Crash(w) \/ Restart(w)
    BY <2>2 DEF Crash, Restart, LockedAfterDeath, Goto, Live, lease
  <2>3. QED
    BY <1>5, <2>1, <2>2 DEF Environment
<1>6. QED
  BY <1>1, <1>2, <1>3, <1>4, <1>5 DEF Next

\* The chain from a live port to the lock.
LEMMA ClaimStep == TypeOK /\ ClaimInv /\ [Next]_vars => ClaimInv'
<1> SUFFICES ASSUME TypeOK, ClaimInv, [Next]_vars
             PROVE  ClaimInv'
  OBVIOUS
<1> USE DEF TypeOK, ClaimInv
<1>1. CASE UNCHANGED vars
  BY <1>1 DEF vars, lease, session
<1>2. ASSUME NEW w \in Workers, Acquire(w)
      PROVE  ClaimInv'
  BY <1>2 DEF Acquire, Goto
<1>3. ASSUME NEW w \in Workers, Lifecycle(w)
      PROVE  ClaimInv'
  <2>1. CASE Connect(w) \/ Open(w)
    BY <2>1 DEF Connect, Open, Goto, Live, lease
  <2>2. CASE Refuse(w)
    <3>1. /\ life' = [life EXCEPT ![w] = "disconnected"]
          /\ UNCHANGED <<dropped, locked>>
          /\ \/ pc' = [pc EXCEPT ![w] = "refuse"] /\ UNCHANGED believes
             \/ pc' = [pc EXCEPT ![w] = "idle"] /\ believes' = believes \ {w}
      BY <2>2 DEF Refuse, Disconnects, DisconnectFails, Goto, Live, lease
    <3>2. pc[w] = "verify"
      BY <2>2 DEF Refuse
    <3>3. QED
      BY <3>1, <3>2
  <2>3. CASE CloseBus(w)
    <3>1. /\ life' = [life EXCEPT ![w] = "disconnected"]
          /\ pc' = [pc EXCEPT ![w] = "release"]
          /\ UNCHANGED <<dropped, lease>>
      BY <2>3 DEF CloseBus, AfterDisconnectRaised, Disconnects, DisconnectFails, Goto, Live
    <3>2. pc[w] = "disconnect"
      BY <2>3 DEF CloseBus
    <3>3. QED
      BY <3>1, <3>2 DEF lease
  <2>4. CASE ReleaseRefused(w) \/ Release(w)
    BY <2>4 DEF ReleaseRefused, Release, Unlock, Goto
  <2>5. QED
    BY <1>3, <2>1, <2>2, <2>3, <2>4 DEF Lifecycle
<1>4. ASSUME NEW w \in Workers, Use(w) \/ Close(w)
      PROVE  ClaimInv'
  <2>1. CASE Enable(w) \/ Estop(w)
    BY <2>1 DEF Enable, Estop, Live, lease
  <2>2. CASE MotorFault(w) \/ ClearFaults(w)
    BY <2>2 DEF MotorFault, ClearFaults, Live, lease
  <2>3. CASE Reconnect(w)
    BY <2>3 DEF Reconnect, Live, lease
  <2>4. CASE Close(w)
    BY <2>4 DEF Close, AfterDisable, Goto, Live, lease
  <2>5. QED
    BY <1>4, <2>1, <2>2, <2>3, <2>4 DEF Use
<1>5. ASSUME NEW w \in Workers, Environment(w)
      PROVE  ClaimInv'
  <2>1. CASE ServerNotices(w) \/ ConnectionLost(w)
    BY <2>1 DEF ServerNotices, ConnectionLost, session
  <2>2. CASE Crash(w) \/ Restart(w)
    BY <2>2 DEF Crash, Restart, LockedAfterDeath, Goto, Live, lease
  <2>3. QED
    BY <1>5, <2>1, <2>2 DEF Environment
<1>6. QED
  BY <1>1, <1>2, <1>3, <1>4, <1>5 DEF Next

\* While no live holder lost its lock there is one session at most.
LEMMA OneSession ==
  ASSUME TypeOK, ClaimInv, ~dropped, NEW v \in Workers, NEW w \in Workers,
         pc[v] \in Claiming, pc[w] \in Claiming
  PROVE  v = w
  BY DEF TypeOK, ClaimInv

\* Only enable() puts torque on.
LEMMA TorqueStep ==
  ASSUME TypeOK, [Next]_vars, ~torque, \A v \in Workers : ~Enable(v)
  PROVE  ~torque'
<1> USE DEF TypeOK
<1>1. CASE UNCHANGED vars
  BY <1>1 DEF vars
<1>2. ASSUME NEW w \in Workers, Acquire(w) \/ Environment(w)
      PROVE  ~torque'
  BY <1>2 DEF Acquire, Environment, ServerNotices, ConnectionLost, Crash, Restart
<1>3. ASSUME NEW w \in Workers, Lifecycle(w)
      PROVE  ~torque'
  BY <1>3 DEF Lifecycle, Connect, Open, Refuse, Disconnects, DisconnectFails, CloseBus,
              ReleaseRefused, Release
<1>4. ASSUME NEW w \in Workers, Use(w) \/ Close(w)
      PROVE  ~torque'
  BY <1>4 DEF Use, Estop, MotorFault, ClearFaults, Reconnect, Close
<1>5. QED
  BY <1>1, <1>2, <1>3, <1>4 DEF Next

\* The arm at the end of close().
LEMMA LimpStep == IInv /\ [Next]_vars => LimpInv'
<1> SUFFICES ASSUME TypeOK, ClaimInv, LimpInv, [Next]_vars
             PROVE  LimpInv'
  BY DEF IInv
<1> USE DEF TypeOK, LimpInv
<1>1. CASE UNCHANGED vars
  BY <1>1 DEF vars, session
<1>2. ASSUME NEW w \in Workers, Acquire(w)
      PROVE  LimpInv'
  BY <1>2 DEF Acquire, Goto
<1>3. ASSUME NEW w \in Workers, Lifecycle(w)
      PROVE  LimpInv'
  <2>1. CASE Connect(w)
    BY <2>1 DEF Connect, Goto, Live
  <2>2. CASE Open(w)
    BY <2>2 DEF Open, Goto
  <2>3. CASE Refuse(w)
    BY <2>3 DEF Refuse, Disconnects, DisconnectFails, Goto, Live
  <2>4. CASE CloseBus(w)
    BY <2>4 DEF CloseBus, AfterDisconnectRaised, Disconnects, DisconnectFails, Goto, Live
  <2>5. CASE ReleaseRefused(w) \/ Release(w)
    BY <2>5 DEF ReleaseRefused, Release, Goto
  <2>6. QED
    BY <1>3, <2>1, <2>2, <2>3, <2>4, <2>5 DEF Lifecycle
<1>4. ASSUME NEW w \in Workers, Use(w) \/ Close(w)
      PROVE  LimpInv'
  <2>1. CASE Enable(w)
    <3>1. ASSUME NEW v \in Workers, pc[v] = "release" PROVE dropped
      BY <2>1, <3>1, OneSession DEF Enable
    <3>2. QED
      BY <2>1, <3>1 DEF Enable, Live
  <2>2. CASE Estop(w)
    BY <2>2 DEF Estop, Live
  <2>3. CASE MotorFault(w) \/ ClearFaults(w)
    BY <2>3 DEF MotorFault, ClearFaults, Live
  <2>4. CASE Reconnect(w)
    <3>1. /\ pc[w] = "open"
          /\ UNCHANGED <<pc, dropped>>
          /\ torque' \in {torque, FALSE}
          /\ \/ life' = [life EXCEPT ![w] = "connected"] /\ failed \subseteq failed'
             \/ life' = [life EXCEPT ![w] = "disconnected"] /\ failed' = failed \cup {w}
      BY <2>4 DEF Reconnect, Live
    <3>2. QED
      BY <3>1
  <2>5. CASE Close(w)
    BY <2>5 DEF Close, AfterDisable, Goto, Live
  <2>6. QED
    BY <1>4, <2>1, <2>2, <2>3, <2>4, <2>5 DEF Use
<1>5. ASSUME NEW w \in Workers, Environment(w)
      PROVE  LimpInv'
  BY <1>5 DEF Environment, ServerNotices, ConnectionLost, Crash, Restart, Goto, Live, session
<1>6. QED
  BY <1>1, <1>2, <1>3, <1>4, <1>5 DEF Next

LEMMA Invariance == Spec => []IInv
<1>1. IInv /\ [Next]_vars => IInv'
  BY TypeStep, ClaimStep, LimpStep DEF IInv
<1>2. QED
  BY InitInv, <1>1, PTL DEF Spec

-----------------------------------------------------------------------------

\* Every variable keeps its type, and the lock has one holder at most.
THEOREM TypeCorrect == Spec => []TypeOK
<1>1. IInv => TypeOK
  BY DEF IInv
<1>2. QED
  BY Invariance, <1>1, PTL

\* However many workers there are, and whatever fails in their sessions, no two of them
\* have a live port unless a live holder's lock was lost under it.
THEOREM Exclusion == Spec => []OneController
<1>1. IInv => OneController
  BY OneSession DEF IInv, ClaimInv, OneController
<1>2. QED
  BY Invariance, <1>1, PTL

\* A claim is given up only after the bus.
THEOREM BusFirst == Spec => []BusBeforeLock
<1>1. IInv => BusBeforeLock
  BY DEF IInv, ClaimInv, BusBeforeLock
<1>2. QED
  BY Invariance, <1>1, PTL

\* A session that closed quietly left the arm limp.
THEOREM QuietClose == Spec => QuietCloseIsLimp
<1>1. IInv /\ [Next]_vars =>
        [\A w \in Workers :
           /\ pc[w] = "release" /\ pc'[w] = "idle"
           /\ w \notin failed
           /\ ~dropped
           => ~torque']_vars
  <2> SUFFICES ASSUME IInv, [Next]_vars, NEW w \in Workers,
                      pc[w] = "release", pc'[w] = "idle", w \notin failed, ~dropped
               PROVE  ~torque'
    OBVIOUS
  <2>1. ~torque
    BY DEF IInv, LimpInv
  <2>2. ASSUME NEW v \in Workers, pc[v] \in Claiming PROVE v = w
    BY <2>2, OneSession DEF IInv
  <2>3. ASSUME NEW v \in Workers PROVE ~Enable(v)
    BY <2>2 DEF Enable
  <2>4. QED
    BY <2>1, <2>3, TorqueStep DEF IInv
<1>2. QED
  BY Invariance, <1>1, PTL DEF QuietCloseIsLimp, Spec

=============================================================================
