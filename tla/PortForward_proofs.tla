-------------------------- MODULE PortForward_proofs --------------------------
(***************************************************************************)
(* What holds of the port forwards into a cluster for any number of        *)
(* forwards, of Argo CD pages and of goroutines that stop them.            *)
(***************************************************************************)
EXTENDS PortForward, TLAPS

USE PagesAssumption

\* A forward that Start has not registered has no tunnel and no row.
Unregistered ==
  \A f \in Forwards :
    starter[f] \in {"idle", "opening"} => tunnel[f] = "none" /\ row[f] = "none"

\* Whoever is about to delete a row has told its tunnel to stop.
StopBeforeDelete ==
  /\ \A f \in Forwards : starter[f] = "deleting" => stop[f]
  /\ \A s \in Stoppers : \A f \in stopper[s].at : stop[f]

\* An error is only in the channel once the tunnel is over.
ErrorIsLast ==
  \A f \in Forwards : errs[f] => tunnel[f] \in {"finishing", "ended"}

\* The inductive invariant.  NoOrphanTunnel needs that the channel was closed
\* before the row is deleted, and FailedIsDead that Start only learns of an
\* error after the tunnel has ended.
IInv ==
  /\ TypeOK
  /\ Unregistered
  /\ StopBeforeDelete
  /\ ErrorIsLast
  /\ NoOrphanTunnel
  /\ FailedIsDead

-----------------------------------------------------------------------------
\* A write by Start or by the tunnel's goroutine keeps the types, touches one
\* row, and never makes one of nothing.
LEMMA WriteRowEffect ==
  ASSUME TypeOK, NEW f \in Forwards, NEW state \in Row \ {"none"},
         NEW why \in BOOLEAN, WriteRow(f, state, why)
  PROVE  /\ row' \in [Forwards -> Row]
         /\ reason' \in [Forwards -> BOOLEAN]
         /\ \A g \in Forwards : row'[g] = "none" <=> row[g] = "none"
         /\ \A g \in Forwards : row'[g] # row[g] => g = f /\ row'[g] = state
<1>1. CASE row[f] = "none"
  BY <1>1 DEF WriteRow, rows, TypeOK
<1>2. CASE row[f] # "none"
  BY <1>2 DEF WriteRow, rows, TypeOK
<1> QED BY <1>1, <1>2

\* Deleting a row touches no other.
LEMMA DeleteRowEffect ==
  ASSUME TypeOK, NEW f \in Forwards, DeleteRow(f)
  PROVE  /\ row' \in [Forwards -> Row]
         /\ reason' \in [Forwards -> BOOLEAN]
         /\ row'[f] = "none"
         /\ \A g \in Forwards \ {f} : row'[g] = row[g]
  BY DEF DeleteRow, TypeOK, Row

\* Types and the invariant hold initially.
LEMMA InitInvariant == Init => IInv
  BY DEF Init, IInv, TypeOK, Unregistered, StopBeforeDelete, ErrorIsLast,
         NoOrphanTunnel, FailedIsDead, Row, Starter, Tunnel, Stopper, IdleStopper

\* Every step of Start keeps the invariant.
LEMMA StartingStep ==
  ASSUME IInv, NEW f \in Forwards, Open(f) \/ Starting(f)
  PROVE  IInv'
<1> USE DEF IInv, TypeOK, Unregistered, StopBeforeDelete, ErrorIsLast,
            NoOrphanTunnel, FailedIsDead, StarterTo, TunnelTo, Starter, Tunnel,
            rows, channels
<1>1. CASE Open(f)
  BY <1>1 DEF Open
<1>2. CASE OpenFails(f)
  BY <1>2 DEF OpenFails
<1>3. CASE Register(f)
  BY <1>3 DEF Register, Row
<1>4. CASE SeesReady(f)
  <2>1. WriteRow(f, "running", FALSE)
    BY <1>4 DEF SeesReady
  <2>2. /\ row' \in [Forwards -> Row]
        /\ reason' \in [Forwards -> BOOLEAN]
        /\ \A g \in Forwards : row'[g] = "none" <=> row[g] = "none"
        /\ \A g \in Forwards : row'[g] = "failed" => row[g] = "failed"
    <3>1. "running" \in Row \ {"none"} /\ FALSE \in BOOLEAN
      BY DEF Row
    <3>2. /\ row' \in [Forwards -> Row] /\ reason' \in [Forwards -> BOOLEAN]
          /\ \A g \in Forwards : row'[g] = "none" <=> row[g] = "none"
          /\ \A g \in Forwards : row'[g] # row[g] => g = f /\ row'[g] = "running"
      BY <2>1, <3>1, WriteRowEffect, Zenon
    <3>3. QED BY <3>2
  <2>3. /\ starter' = [starter EXCEPT ![f] = "done"]
        /\ UNCHANGED <<connected, tunnel, ready, errs, stop, stopper>>
    BY <1>4 DEF SeesReady
  <2>4. TypeOK'
    BY <2>2, <2>3
  <2>5. QED
    BY <2>2, <2>3, <2>4
<1>5. CASE SeesError(f)
  <2>1. WriteRow(f, "failed", TRUE)
    BY <1>5 DEF SeesError
  <2>2. /\ row' \in [Forwards -> Row]
        /\ reason' \in [Forwards -> BOOLEAN]
        /\ \A g \in Forwards : row'[g] = "none" <=> row[g] = "none"
        /\ \A g \in Forwards \ {f} : row'[g] = row[g]
    <3>1. "failed" \in Row \ {"none"} /\ TRUE \in BOOLEAN
      BY DEF Row
    <3>2. /\ row' \in [Forwards -> Row] /\ reason' \in [Forwards -> BOOLEAN]
          /\ \A g \in Forwards : row'[g] = "none" <=> row[g] = "none"
          /\ \A g \in Forwards : row'[g] # row[g] => g = f /\ row'[g] = "failed"
      BY <2>1, <3>1, WriteRowEffect, Zenon
    <3>3. QED BY <3>2
  <2>3. /\ starter' = [starter EXCEPT ![f] = "done"]
        /\ errs' = [errs EXCEPT ![f] = FALSE]
        /\ UNCHANGED <<connected, tunnel, ready, stop, stopper>>
        /\ tunnel[f] \in {"finishing", "ended"}
    BY <1>5 DEF SeesError
  <2>4. TypeOK'
    BY <2>2, <2>3
  <2>5. QED
    BY <2>2, <2>3, <2>4
<1>6. CASE TimesOut(f)
  BY <1>6 DEF TimesOut
<1>7. CASE TimeoutCloses(f)
  <2>1. CASE row[f] = "none"
    BY <1>7, <2>1 DEF TimeoutCloses
  <2>2. CASE row[f] # "none"
    <3>1. /\ starter' = [starter EXCEPT ![f] = "deleting"]
          /\ stop' = [stop EXCEPT ![f] = TRUE]
          /\ UNCHANGED <<connected, row, reason, tunnel, ready, errs, stopper>>
          /\ starter[f] = "closing"
      BY <1>7, <2>2 DEF TimeoutCloses, CloseStop
    <3>2. /\ stop' \in [Forwards -> BOOLEAN]
          /\ \A g \in Forwards : stop[g] => stop'[g]
          /\ stop'[f]
      BY <3>1
    <3>3. TypeOK' /\ Unregistered' /\ ErrorIsLast' /\ FailedIsDead'
      BY <3>1, <3>2
    <3>4. NoOrphanTunnel' /\ StopBeforeDelete'
      BY <3>1, <3>2
    <3>5. QED BY <3>3, <3>4
  <2> QED BY <2>1, <2>2
<1>8. CASE TimeoutDeletes(f)
  <2>1. DeleteRow(f)
    BY <1>8 DEF TimeoutDeletes
  <2>2. /\ row' \in [Forwards -> Row]
        /\ reason' \in [Forwards -> BOOLEAN]
        /\ row'[f] = "none"
        /\ \A g \in Forwards \ {f} : row'[g] = row[g]
    BY <2>1, DeleteRowEffect
  <2>3. /\ starter' = [starter EXCEPT ![f] = "done"]
        /\ UNCHANGED <<connected, tunnel, ready, errs, stop, stopper>>
        /\ stop[f]
    BY <1>8 DEF TimeoutDeletes
  <2>4. TypeOK'
    BY <2>2, <2>3
  <2>5. NoOrphanTunnel' /\ FailedIsDead'
    BY <2>2, <2>3
  <2>6. Unregistered' /\ StopBeforeDelete' /\ ErrorIsLast'
    BY <2>2, <2>3
  <2>7. QED
    BY <2>4, <2>5, <2>6
<1> QED
  BY <1>1, <1>2, <1>3, <1>4, <1>5, <1>6, <1>7, <1>8 DEF Starting

\* Every step of the tunnel and of its goroutine keeps the invariant.
LEMMA TunnelStep ==
  ASSUME IInv, NEW f \in Forwards, Listen(f) \/ TunnelBreaks(f) \/ Ending(f)
  PROVE  IInv'
<1> USE DEF IInv, TypeOK, Unregistered, StopBeforeDelete, ErrorIsLast,
            NoOrphanTunnel, FailedIsDead, TunnelTo, Tunnel, rows, channels
<1>1. CASE Listen(f)
  BY <1>1 DEF Listen
<1>2. CASE TunnelBreaks(f)
  BY <1>2 DEF TunnelBreaks
<1>3. CASE TunnelStops(f)
  BY <1>3 DEF TunnelStops
<1>4. CASE Finish(f)
  <2>1. WriteRow(f, "stopped", reason[f])
    BY <1>4 DEF Finish
  <2>2. QED
    BY <1>4, <2>1, WriteRowEffect DEF Finish, Row
<1> QED
  BY <1>1, <1>2, <1>3, <1>4 DEF Ending

\* Every step of a goroutine that stops forwards keeps the invariant.
LEMMA StopperStep ==
  ASSUME IInv, NEW s \in Stoppers,
         \/ \E f \in Forwards : StopOne(s, f)
         \/ \E disconnects \in BOOLEAN : StopCluster(s, disconnects)
         \/ Stopping(s)
  PROVE  IInv'
<1> USE DEF IInv, TypeOK, Unregistered, StopBeforeDelete, ErrorIsLast,
            NoOrphanTunnel, FailedIsDead, Stopper, rows, channels
<1>0. stopper[s] \in Stopper
  OBVIOUS
<1>1. ASSUME NEW f \in Forwards, StopOne(s, f) PROVE IInv'
  <2>1. /\ stopper' \in [Stoppers -> Stopper]
        /\ \A t \in Stoppers : stopper'[t].at = stopper[t].at
    BY <1>0, <1>1 DEF StopOne
  <2>2. QED BY <1>1, <2>1 DEF StopOne
<1>2. ASSUME NEW disconnects \in BOOLEAN, StopCluster(s, disconnects)
      PROVE  IInv'
  <2>1. /\ stopper' \in [Stoppers -> Stopper]
        /\ \A t \in Stoppers : stopper'[t].at = stopper[t].at
    BY <1>0, <1>2 DEF StopCluster
  <2>2. QED BY <1>2, <2>1 DEF StopCluster
<1>3. ASSUME NEW f \in Forwards, StopperCloses(s, f) PROVE IInv'
  <2>1. CASE row[f] = "none"
    <3>0. stopper' = [stopper EXCEPT ![s].todo = @ \ {f}]
      BY <1>3, <2>1 DEF StopperCloses
    <3>1. /\ stopper' \in [Stoppers -> Stopper]
          /\ \A t \in Stoppers : stopper'[t].at = stopper[t].at
      BY <1>0, <3>0
    <3>2. UNCHANGED <<connected, row, reason, starter, tunnel, ready, errs, stop>>
      BY <1>3, <2>1 DEF StopperCloses
    <3>3. TypeOK'
      BY <3>1, <3>2
    <3>4. Unregistered' /\ ErrorIsLast' /\ FailedIsDead' /\ NoOrphanTunnel'
      BY <3>2
    <3>5. StopBeforeDelete'
      BY <3>1, <3>2
    <3>6. QED BY <3>3, <3>4, <3>5
  <2>2. CASE row[f] # "none"
    <3>1. /\ stopper' \in [Stoppers -> Stopper]
          /\ stopper'[s].at = {f}
          /\ \A t \in Stoppers \ {s} : stopper'[t].at = stopper[t].at
      BY <1>0, <1>3, <2>2 DEF StopperCloses
    <3>2. /\ stop' = [stop EXCEPT ![f] = TRUE]
          /\ UNCHANGED <<connected, row, reason, starter, tunnel, ready, errs>>
      BY <1>3, <2>2 DEF StopperCloses, CloseStop
    <3>3. /\ stop' \in [Forwards -> BOOLEAN]
          /\ \A g \in Forwards : stop[g] => stop'[g]
          /\ stop'[f]
      BY <3>2
    <3>4. TypeOK' /\ Unregistered' /\ ErrorIsLast' /\ FailedIsDead'
      BY <3>1, <3>2, <3>3
    <3>5. NoOrphanTunnel'
      BY <3>2, <3>3
    <3>6. StopBeforeDelete'
      BY <3>1, <3>2, <3>3
    <3>7. QED BY <3>4, <3>5, <3>6
  <2> QED BY <2>1, <2>2
<1>4. ASSUME NEW f \in Forwards, StopperDeletes(s, f) PROVE IInv'
  <2>1. DeleteRow(f)
    BY <1>4 DEF StopperDeletes
  <2>2. QED
    BY <1>4, <2>1, DeleteRowEffect DEF StopperDeletes
<1>5. CASE StopperEnds(s)
  BY <1>5 DEF StopperEnds, IdleStopper
<1>6. CASE Disconnect(s)
  BY <1>6 DEF Disconnect, IdleStopper
<1> QED
  BY <1>1, <1>2, <1>3, <1>4, <1>5, <1>6 DEF Stopping

\* The invariant is inductive.
LEMMA InvariantStep == IInv /\ [Next]_vars => IInv'
<1> SUFFICES ASSUME IInv, [Next]_vars PROVE IInv'
  OBVIOUS
<1>1. CASE UNCHANGED vars
  BY <1>1 DEF vars, rows, channels, IInv, TypeOK, Unregistered,
              StopBeforeDelete, ErrorIsLast, NoOrphanTunnel, FailedIsDead
<1>2. CASE Connect
  BY <1>2 DEF Connect, rows, channels, IInv, TypeOK, Unregistered,
              StopBeforeDelete, ErrorIsLast, NoOrphanTunnel, FailedIsDead
<1> QED
  BY <1>1, <1>2, StartingStep, TunnelStep, StopperStep DEF Next

\* The invariant of the port forwards holds in every state, for any number of
\* forwards and of goroutines stopping them.
THEOREM ForwardInvariant == Spec => []IInv
  BY InitInvariant, InvariantStep, PTL DEF Spec

\* Every variable keeps its type.
THEOREM TypeCorrect == Spec => []TypeOK
<1>1. IInv => TypeOK
  BY DEF IInv
<1> QED BY <1>1, ForwardInvariant, PTL

\* No tunnel is left open without a row to close it by.
THEOREM NoOrphanTunnelAlways == Spec => []NoOrphanTunnel
<1>1. IInv => NoOrphanTunnel
  BY DEF IInv
<1> QED BY <1>1, ForwardInvariant, PTL

\* A row that reads failed has no tunnel behind it.
THEOREM FailedIsDeadAlways == Spec => []FailedIsDead
<1>1. IInv => FailedIsDead
  BY DEF IInv
<1> QED BY <1>1, ForwardInvariant, PTL

-----------------------------------------------------------------------------
\* Only Register makes a row of nothing, and it is not for a registered forward.
LEMMA RemovedStep ==
  IInv /\ [Next]_vars =>
    \A f \in Forwards : Registered(f) /\ row[f] = "none" => row'[f] = "none"
<1> SUFFICES ASSUME IInv, [Next]_vars, NEW g \in Forwards,
                    Registered(g), row[g] = "none"
             PROVE  row'[g] = "none"
  OBVIOUS
<1> USE DEF IInv
<1>1. CASE UNCHANGED row
  BY <1>1
<1>2. ASSUME NEW f \in Forwards, Register(f) PROVE row'[g] = "none"
  BY <1>2 DEF Register, Registered, TypeOK
<1>3. ASSUME NEW f \in Forwards, NEW state \in Row \ {"none"},
             NEW why \in BOOLEAN, WriteRow(f, state, why)
      PROVE  row'[g] = "none"
  BY <1>3, WriteRowEffect
<1>4. ASSUME NEW f \in Forwards, DeleteRow(f) PROVE row'[g] = "none"
  BY <1>4, DeleteRowEffect
<1>5. ASSUME NEW f \in Forwards, Open(f) \/ Starting(f) PROVE row'[g] = "none"
  <2>1. CASE SeesReady(f)
    BY <2>1, <1>3 DEF SeesReady, Row
  <2>2. CASE SeesError(f)
    BY <2>2, <1>3 DEF SeesError, Row
  <2>3. CASE TimeoutDeletes(f)
    BY <2>3, <1>4 DEF TimeoutDeletes
  <2>4. CASE Open(f) \/ OpenFails(f) \/ TimesOut(f) \/ TimeoutCloses(f)
    BY <2>4 DEF Open, OpenFails, TimesOut, TimeoutCloses, rows
  <2> QED BY <1>5, <1>2, <2>1, <2>2, <2>3, <2>4 DEF Starting
<1>6. ASSUME NEW f \in Forwards, Listen(f) \/ TunnelBreaks(f) \/ Ending(f)
      PROVE  row'[g] = "none"
  <2>1. CASE Finish(f)
    <3>1. reason[f] \in BOOLEAN
      BY DEF TypeOK
    <3>2. QED BY <2>1, <3>1, <1>3 DEF Finish, Row
  <2>2. CASE Listen(f) \/ TunnelBreaks(f) \/ TunnelStops(f)
    BY <2>2 DEF Listen, TunnelBreaks, TunnelStops, rows
  <2> QED BY <1>6, <2>1, <2>2 DEF Ending
<1>7. ASSUME NEW s \in Stoppers,
             \/ \E f \in Forwards : StopOne(s, f)
             \/ \E disconnects \in BOOLEAN : StopCluster(s, disconnects)
             \/ Stopping(s)
      PROVE  row'[g] = "none"
  <2>1. CASE \E f \in Forwards : StopperDeletes(s, f)
    BY <2>1, <1>4 DEF StopperDeletes
  <2>2. CASE ~ \E f \in Forwards : StopperDeletes(s, f)
    BY <1>7, <2>2 DEF Stopping, StopOne, StopCluster, StopperCloses,
                      StopperEnds, Disconnect, rows
  <2> QED BY <2>1, <2>2
<1>8. CASE Connect
  BY <1>8 DEF Connect, rows
<1>9. CASE UNCHANGED vars
  BY <1>9 DEF vars, rows
<1> QED BY <1>5, <1>6, <1>7, <1>8, <1>9 DEF Next

\* A row that was removed never comes back.
THEOREM RemovedAlwaysStays == Spec => RemovedStaysRemoved
<1>1. IInv /\ [Next]_vars =>
        [\A f \in Forwards :
           Registered(f) /\ row[f] = "none" => row'[f] = "none"]_vars
  BY RemovedStep
<1> QED BY <1>1, ForwardInvariant, PTL DEF Spec, RemovedStaysRemoved
=============================================================================
