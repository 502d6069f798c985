----------------------------- MODULE PortForward -----------------------------
(***************************************************************************)
(* Port forwards into one cluster (internal/portforward/service.go), the   *)
(* Argo CD page that borrows one (internal/argocd/ui.go) and the           *)
(* disconnect that ends them (service_cluster.go).  For every forward the  *)
(* goroutine that called Start and the goroutine that runs the tunnel work *)
(* on one row of the service's map; any number of goroutines call Stop and *)
(* StopCluster meanwhile.  The row lives under the service's mutex, so a   *)
(* step is one critical section or one channel operation.  The tunnel      *)
(* itself is client-go's ForwardPorts, external.                           *)
(***************************************************************************)
EXTENDS Naturals, FiniteSets

CONSTANTS
  Forwards,     \* identifiers: one for every call of Start
  Pages,        \* the forwards opened for the Argo CD page
  Stoppers      \* goroutines that stop forwards

ASSUME PagesAssumption == Pages \subseteq Forwards

VARIABLES
  connected,    \* whether Manager.Client returns a client for the cluster
  row,          \* row[f]: the state of sessions[f]; "none" without an entry
  reason,       \* reason[f]: whether the row carries an error message
  starter,      \* starter[f]: where the goroutine that called Start is
  tunnel,       \* tunnel[f]: where the goroutine that runs the tunnel is
  ready,        \* ready[f]: whether the ready channel is closed
  errs,         \* errs[f]: whether the errs channel holds an error
  stop,         \* stop[f]: whether the stop channel is closed
  stopper       \* stopper[s]: what a stopping goroutine has yet to do

vars == <<connected, row, reason, starter, tunnel, ready, errs, stop, stopper>>

rows == <<row, reason>>
channels == <<ready, errs, stop>>

-----------------------------------------------------------------------------
Row == {"none", "starting", "running", "stopped", "failed"}

Starter == {"idle", "opening", "waiting", "closing", "deleting", "done"}

Tunnel == {"none", "dialling", "listening", "finishing", "ended"}

Stopper == [step: {"idle", "closing", "deleting", "disconnecting"},
            todo: SUBSET Forwards, at: SUBSET Forwards, last: BOOLEAN]

IdleStopper ==
  [step |-> "idle", todo |-> {}, at |-> {}, last |-> FALSE]

Init ==
  /\ connected = TRUE
  /\ row = [f \in Forwards |-> "none"]
  /\ reason = [f \in Forwards |-> FALSE]
  /\ starter = [f \in Forwards |-> "idle"]
  /\ tunnel = [f \in Forwards |-> "none"]
  /\ ready = [f \in Forwards |-> FALSE]
  /\ errs = [f \in Forwards |-> FALSE]
  /\ stop = [f \in Forwards |-> FALSE]
  /\ stopper = [s \in Stoppers |-> IdleStopper]

StarterTo(f, s) == starter' = [starter EXCEPT ![f] = s]
TunnelTo(f, t) == tunnel' = [tunnel EXCEPT ![f] = t]

\* Start registered the forward.
Registered(f) == starter[f] \notin {"idle", "opening"}

\* setState and finish: a row that was removed meanwhile stays removed.
WriteRowMutant(f, state, why) ==
  /\ row' = [row EXCEPT ![f] = state]
  /\ reason' = [reason EXCEPT ![f] = why]

WriteRow(f, state, why) ==
  IF row[f] = "none" THEN UNCHANGED rows
  ELSE /\ row' = [row EXCEPT ![f] = state]
       /\ reason' = [reason EXCEPT ![f] = why]

-----------------------------------------------------------------------------
(* Start *)

\* Find: a running forward to the page is used instead of opening another.
PageIsOpen == \E g \in Pages : row[g] = "running"

Open(f) ==
  /\ starter[f] = "idle"
  /\ connected
  /\ StarterTo(f, IF f \in Pages /\ PageIsOpen THEN "done" ELSE "opening")
  /\ UNCHANGED <<connected, rows, tunnel, channels, stopper>>

\* No running pod behind the service, the local port taken, no transport.
OpenFails(f) ==
  /\ starter[f] = "opening"
  /\ StarterTo(f, "done")
  /\ UNCHANGED <<connected, rows, tunnel, channels, stopper>>

Register(f) ==
  /\ starter[f] = "opening"
  /\ row' = [row EXCEPT ![f] = "starting"]
  /\ StarterTo(f, "waiting")
  /\ TunnelTo(f, "dialling")
  /\ UNCHANGED <<connected, reason, channels, stopper>>

SeesReady(f) ==
  /\ starter[f] = "waiting" /\ ready[f]
  /\ WriteRow(f, "running", FALSE)
  /\ StarterTo(f, "done")
  /\ UNCHANGED <<connected, tunnel, channels, stopper>>

SeesError(f) ==
  /\ starter[f] = "waiting" /\ errs[f]
  /\ errs' = [errs EXCEPT ![f] = FALSE]
  /\ WriteRow(f, "failed", TRUE)
  /\ StarterTo(f, "done")
  /\ UNCHANGED <<connected, tunnel, ready, stop, stopper>>

\* After readyTimeout Start stops the forward it opened.
TimesOutMissingMutant(f) ==
  /\ starter[f] = "waiting" /\ (ready[f] \/ errs[f])
  /\ StarterTo(f, "closing")
  /\ UNCHANGED <<connected, rows, tunnel, channels, stopper>>

TimesOut(f) ==
  /\ starter[f] = "waiting"
  /\ StarterTo(f, "closing")
  /\ UNCHANGED <<connected, rows, tunnel, channels, stopper>>

\* Stop, in two critical sections: find the row and close its channel, which
\* closed.Do does once, then delete the row.
CloseStopMutant(f) == UNCHANGED stop

CloseStop(f) == stop' = [stop EXCEPT ![f] = TRUE]

DeleteRow(f) ==
  /\ row' = [row EXCEPT ![f] = "none"]
  /\ reason' = [reason EXCEPT ![f] = FALSE]

TimeoutCloses(f) ==
  /\ starter[f] = "closing"
  /\ IF row[f] = "none"
     THEN StarterTo(f, "done") /\ UNCHANGED stop
     ELSE StarterTo(f, "deleting") /\ CloseStop(f)
  /\ UNCHANGED <<connected, rows, tunnel, ready, errs, stopper>>

TimeoutDeletes(f) ==
  /\ starter[f] = "deleting"
  /\ DeleteRow(f)
  /\ StarterTo(f, "done")
  /\ UNCHANGED <<connected, tunnel, channels, stopper>>

-----------------------------------------------------------------------------
(* The tunnel's goroutine.  ForwardPorts dials the pod, listens on the      *)
(* local port, closes ready, and returns nil once stop is closed or an      *)
(* error when it cannot listen or loses the pod.                            *)

Listen(f) ==
  /\ tunnel[f] = "dialling"
  /\ ready' = [ready EXCEPT ![f] = TRUE]
  /\ TunnelTo(f, "listening")
  /\ UNCHANGED <<connected, rows, starter, errs, stop, stopper>>

TunnelStops(f) ==
  /\ tunnel[f] = "listening" /\ stop[f]
  /\ TunnelTo(f, "finishing")
  /\ UNCHANGED <<connected, rows, starter, channels, stopper>>

TunnelBreaks(f) ==
  /\ tunnel[f] \in {"dialling", "listening"}
  /\ errs' = [errs EXCEPT ![f] = TRUE]
  /\ TunnelTo(f, "finishing")
  /\ UNCHANGED <<connected, rows, starter, ready, stop, stopper>>

\* The error handed to finish is the one of Start's last assignment, nil.
Finish(f) ==
  /\ tunnel[f] = "finishing"
  /\ WriteRow(f, "stopped", reason[f])
  /\ TunnelTo(f, "ended")
  /\ UNCHANGED <<connected, starter, channels, stopper>>

-----------------------------------------------------------------------------
(* Stop, StopCluster and the disconnect around it *)

StopOne(s, f) ==
  /\ stopper[s].step = "idle"
  /\ row[f] # "none"
  /\ stopper' = [stopper EXCEPT ![s].step = "closing", ![s].todo = {f}]
  /\ UNCHANGED <<connected, rows, starter, tunnel, channels>>

\* The identifiers are collected first and stopped one by one.  DisconnectCluster
\* stops the forwards before it ends the session; an authentication failure, a
\* read-only policy and a lost forward stop them and leave the rest to others.
StopCluster(s, disconnects) ==
  /\ stopper[s].step = "idle"
  /\ stopper' = [stopper EXCEPT
       ![s].step = "closing", ![s].last = disconnects,
       ![s].todo = {f \in Forwards : row[f] # "none"}]
  /\ UNCHANGED <<connected, rows, starter, tunnel, channels>>

StopperCloses(s, f) ==
  /\ stopper[s].step = "closing" /\ f \in stopper[s].todo
  /\ IF row[f] = "none"
     THEN /\ stopper' = [stopper EXCEPT ![s].todo = @ \ {f}]
          /\ UNCHANGED stop
     ELSE /\ stopper' = [stopper EXCEPT ![s].step = "deleting", ![s].at = {f}]
          /\ CloseStop(f)
  /\ UNCHANGED <<connected, rows, starter, tunnel, ready, errs>>

StopperDeletes(s, f) ==
  /\ stopper[s].step = "deleting" /\ f \in stopper[s].at
  /\ DeleteRow(f)
  /\ stopper' = [stopper EXCEPT ![s].step = "closing", ![s].at = {},
                                ![s].todo = @ \ {f}]
  /\ UNCHANGED <<connected, starter, tunnel, channels>>

StopperEnds(s) ==
  /\ stopper[s].step = "closing" /\ stopper[s].todo = {}
  /\ stopper' = [stopper EXCEPT ![s] =
       IF stopper[s].last THEN [@ EXCEPT !.step = "disconnecting"]
       ELSE IdleStopper]
  /\ UNCHANGED <<connected, rows, starter, tunnel, channels>>

Disconnect(s) ==
  /\ stopper[s].step = "disconnecting"
  /\ connected' = FALSE
  /\ stopper' = [stopper EXCEPT ![s] = IdleStopper]
  /\ UNCHANGED <<rows, starter, tunnel, channels>>

Connect ==
  /\ ~connected
  /\ connected' = TRUE
  /\ UNCHANGED <<rows, starter, tunnel, channels, stopper>>

-----------------------------------------------------------------------------
Starting(f) ==
  \/ OpenFails(f) \/ Register(f)
  \/ SeesReady(f) \/ SeesError(f)
  \/ TimesOut(f) \/ TimeoutCloses(f) \/ TimeoutDeletes(f)

Ending(f) == TunnelStops(f) \/ Finish(f)

Stopping(s) ==
  \/ \E f \in Forwards : StopperCloses(s, f) \/ StopperDeletes(s, f)
  \/ StopperEnds(s) \/ Disconnect(s)

Next ==
  \/ \E f \in Forwards :
       \/ Open(f) \/ Starting(f)
       \/ Listen(f) \/ TunnelBreaks(f) \/ Ending(f)
  \/ \E s \in Stoppers :
       \/ \E f \in Forwards : StopOne(s, f)
       \/ \E disconnects \in BOOLEAN : StopCluster(s, disconnects)
       \/ Stopping(s)
  \/ Connect

\* Started goroutines run on and the timer of Start fires; nothing obliges the
\* pod to answer or the tunnel to break.
Fairness ==
  /\ \A f \in Forwards : WF_vars(Starting(f)) /\ WF_vars(Ending(f))
  /\ \A s \in Stoppers : WF_vars(Stopping(s))

Spec == Init /\ [][Next]_vars

FairSpec == Spec /\ Fairness

-----------------------------------------------------------------------------
(* Properties *)

\* Types of every variable.
TypeOK ==
  /\ connected \in BOOLEAN
  /\ row \in [Forwards -> Row]
  /\ reason \in [Forwards -> BOOLEAN]
  /\ starter \in [Forwards -> Starter]
  /\ tunnel \in [Forwards -> Tunnel]
  /\ ready \in [Forwards -> BOOLEAN]
  /\ errs \in [Forwards -> BOOLEAN]
  /\ stop \in [Forwards -> BOOLEAN]
  /\ stopper \in [Stoppers -> Stopper]

\* A tunnel that runs, or will once it has dialled, is in the list where the
\* engineer can close it, or has been told to stop: whatever the order of a
\* start, its timeout and any number of stops, no port is left open unseen.
NoOrphanTunnel ==
  \A f \in Forwards :
    tunnel[f] \in {"dialling", "listening"} /\ row[f] = "none" => stop[f]

\* A row the engineer removed does not come back when Start sees its tunnel
\* ready, or fail, or when the tunnel's goroutine ends.
RemovedStaysRemoved ==
  [][\A f \in Forwards :
       Registered(f) /\ row[f] = "none" => row'[f] = "none"]_vars

\* A row that reads failed has no tunnel behind it any more.
FailedIsDead ==
  \A f \in Forwards :
    row[f] = "failed" => tunnel[f] \in {"finishing", "ended"}

\* Start returns, whether the pod answers, refuses or stays silent.
StartReturns == \A f \in Forwards : starter[f] = "waiting" ~> starter[f] = "done"

\* The local port of a row that was removed is given back.
RemovedPortFreed ==
  \A f \in Forwards :
    Registered(f) /\ row[f] = "none" /\ tunnel[f] = "listening"
      ~> tunnel[f] = "ended"
=============================================================================
