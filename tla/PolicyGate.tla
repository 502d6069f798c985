------------------------------ MODULE PolicyGate ------------------------------
(***************************************************************************)
(* The read-only policy of one cluster (internal/policy/service.go), the   *)
(* gate in front of every write (core_policy.go) and the streams that pass *)
(* through it: terminals and port forwards (service_stream.go).  The mode  *)
(* is kept in two places under two locks, the stored preference and the    *)
(* session's toggle, and both are read one after the other.                *)
(***************************************************************************)
EXTENDS Naturals, FiniteSets

CONSTANTS
  Changers,     \* goroutines that change the mode
  Openers,      \* goroutines that ask to write; each may open one stream
  MaxRevision   \* bound: mode changes in one behaviour

ASSUME MaxRevisionAssumption == MaxRevision \in Nat

VARIABLES
  persisted,    \* whether the cluster's stored mode is read-only
  session,      \* sessionReadOnly[clusterID]
  connected,    \* whether the cluster has a session
  revision,     \* Service.revision[clusterID]
  changer,      \* changer[c]: the change goroutine c is making
  opener,       \* opener[o]: the write goroutine o is asking for
  streams,      \* openers whose terminal or forward is in its service's map
  shown         \* the policy the window last received

policyVars == <<persisted, session, connected, revision, changer, opener, streams,
                shown>>

modes == <<persisted, session, connected>>

-----------------------------------------------------------------------------
\* Read-only is TRUE throughout.
effectiveMode(stored, override) == stored \/ override

Effective == effectiveMode(persisted, session)

Policy == [readOnly: BOOLEAN, revision: 0 .. MaxRevision]

Changer == [step: {"idle", "setting", "bumping", "reading", "joining",
                   "closing", "emitting"},
            to: BOOLEAN, stored: BOOLEAN, policy: Policy]

IdleChanger == [step |-> "idle", to |-> FALSE, stored |-> FALSE,
                policy |-> [readOnly |-> FALSE, revision |-> 0]]

Opener == [step: {"idle", "reading", "allowed"}, stored: BOOLEAN]

IdleOpener == [step |-> "idle", stored |-> FALSE]

PolicyInit ==
  /\ persisted \in BOOLEAN
  /\ session = FALSE
  /\ connected = TRUE
  /\ revision = 0
  /\ changer = [c \in Changers |-> IdleChanger]
  /\ opener = [o \in Openers |-> IdleOpener]
  /\ streams = {}
  /\ shown = [readOnly |-> persisted, revision |-> 0]

-----------------------------------------------------------------------------
(* Changing the mode *)

ChangerTo(c, step) == changer' = [changer EXCEPT ![c].step = step]

\* Changes made so far and changes on their way stay within the bound.
MayChange(c) ==
  /\ changer[c].step = "idle"
  /\ revision + Cardinality({d \in Changers :
       changer[d].step \in {"setting", "bumping"}}) < MaxRevision

\* Repository.SetAccessMode, an atomic update of the store.
SetPersistedMode(c, readOnly) ==
  /\ MayChange(c)
  /\ persisted' = readOnly
  /\ ChangerTo(c, "bumping")
  /\ UNCHANGED <<session, connected, revision, opener, streams, shown>>

\* The toggle may only restrict: it is refused where the stored mode is
\* read-only already, and always accepted when it lifts the restriction.
AskSessionReadOnly(c, readOnly) ==
  /\ MayChange(c)
  /\ ~(readOnly /\ persisted)
  /\ changer' = [changer EXCEPT ![c].step = "setting", ![c].to = readOnly]
  /\ UNCHANGED <<modes, revision, opener, streams, shown>>

SetSessionReadOnly(c) ==
  /\ changer[c].step = "setting"
  /\ session' = changer[c].to
  /\ ChangerTo(c, "bumping")
  /\ UNCHANGED <<persisted, connected, revision, opener, streams, shown>>

\* applyChange: the next revision, then a snapshot of the two modes.
Bump(c) ==
  /\ changer[c].step = "bumping"
  /\ revision' = revision + 1
  /\ changer' = [changer EXCEPT ![c].step = "reading",
                                ![c].policy.revision = revision + 1]
  /\ UNCHANGED <<modes, opener, streams, shown>>

SnapshotPersisted(c) ==
  /\ changer[c].step = "reading"
  /\ changer' = [changer EXCEPT ![c].step = "joining", ![c].stored = persisted]
  /\ UNCHANGED <<modes, revision, opener, streams, shown>>

SnapshotSessionMutant(c) ==
  LET readOnly == changer[c].stored IN
  /\ changer[c].step = "joining"
  /\ changer' = [changer EXCEPT
       ![c].policy.readOnly = readOnly,
       ![c].step = IF readOnly THEN "closing" ELSE "emitting"]
  /\ UNCHANGED <<modes, revision, opener, streams, shown>>

SnapshotSession(c) ==
  LET readOnly == effectiveMode(changer[c].stored, session) IN
  /\ changer[c].step = "joining"
  /\ changer' = [changer EXCEPT
       ![c].policy.readOnly = readOnly,
       ![c].step = IF readOnly THEN "closing" ELSE "emitting"]
  /\ UNCHANGED <<modes, revision, opener, streams, shown>>

\* onReadOnly: the cluster's forwards are stopped and its terminals closed.
OnReadOnly(c) ==
  /\ changer[c].step = "closing"
  /\ streams' = {}
  /\ ChangerTo(c, "emitting")
  /\ UNCHANGED <<modes, revision, opener, shown>>

\* The window keeps whatever policy arrived last.
Emit(c) ==
  /\ changer[c].step = "emitting"
  /\ shown' = changer[c].policy
  /\ changer' = [changer EXCEPT ![c] = IdleChanger]
  /\ UNCHANGED <<modes, revision, opener, streams>>

-----------------------------------------------------------------------------
(* Asking to write *)

CheckPersisted(o) ==
  /\ opener[o].step = "idle" /\ o \notin streams
  /\ opener' = [opener EXCEPT ![o].step = "reading", ![o].stored = persisted]
  /\ UNCHANGED <<modes, revision, changer, streams, shown>>

\* Check: nothing that writes is allowed while the effective mode is read-only.
CheckSessionMutant(o) ==
  /\ opener[o].step = "reading"
  /\ opener' = [opener EXCEPT ![o] =
       IF session THEN IdleOpener ELSE [@ EXCEPT !.step = "allowed"]]
  /\ UNCHANGED <<modes, revision, changer, streams, shown>>

CheckSession(o) ==
  /\ opener[o].step = "reading"
  /\ opener' = [opener EXCEPT ![o] =
       IF effectiveMode(opener[o].stored, session) THEN IdleOpener
       ELSE [@ EXCEPT !.step = "allowed"]]
  /\ UNCHANGED <<modes, revision, changer, streams, shown>>

\* The stream is opened with the session's client and registered, or opening
\* it fails; an operation that is done at once ends here too.
Perform(o) ==
  /\ opener[o].step = "allowed"
  /\ \/ connected /\ streams' = streams \cup {o}
     \/ UNCHANGED streams
  /\ opener' = [opener EXCEPT ![o] = IdleOpener]
  /\ UNCHANGED <<modes, revision, changer, shown>>

\* A terminal is closed, a forward is stopped, or either ends by itself.
StreamEnds(o) ==
  /\ o \in streams
  /\ streams' = streams \ {o}
  /\ UNCHANGED <<modes, revision, changer, opener, shown>>

-----------------------------------------------------------------------------
(* The session around it *)

\* Manager.Disconnect drops the toggle; which streams end is another matter.
Disconnect ==
  /\ connected
  /\ connected' = FALSE
  /\ session' = FALSE
  /\ UNCHANGED <<persisted, revision, changer, opener, streams, shown>>

\* The window asks for the policy when it hears of the new session.
Connect ==
  /\ ~connected
  /\ connected' = TRUE
  /\ shown' = [readOnly |-> Effective, revision |-> revision]
  /\ UNCHANGED <<persisted, session, revision, changer, opener, streams>>

-----------------------------------------------------------------------------
Change(c) ==
  \/ SetSessionReadOnly(c) \/ Bump(c)
  \/ SnapshotPersisted(c) \/ SnapshotSession(c)
  \/ OnReadOnly(c) \/ Emit(c)

PolicyNext ==
  \/ \E c \in Changers :
       \/ \E readOnly \in BOOLEAN :
            SetPersistedMode(c, readOnly) \/ AskSessionReadOnly(c, readOnly)
       \/ Change(c)
  \/ \E o \in Openers :
       CheckPersisted(o) \/ CheckSession(o) \/ Perform(o) \/ StreamEnds(o)
  \/ Disconnect \/ Connect

Fairness == \A c \in Changers : WF_policyVars(Change(c))

PolicySpec == PolicyInit /\ [][PolicyNext]_policyVars

FairPolicySpec == PolicySpec /\ Fairness

-----------------------------------------------------------------------------
(* Properties *)

\* Types of every variable.
PolicyTypeOK ==
  /\ persisted \in BOOLEAN
  /\ session \in BOOLEAN
  /\ connected \in BOOLEAN
  /\ revision \in 0 .. MaxRevision
  /\ changer \in [Changers -> Changer]
  /\ opener \in [Openers -> Opener]
  /\ streams \subseteq Openers
  /\ shown \in Policy

\* A stream that is open when a change that left the cluster read-only has yet
\* to be applied ends, unless the cluster becomes writable again: however the
\* changes of several goroutines interleave, one of them closes it.
RestrictionEndsStreams ==
  \A o \in Openers, c \in Changers :
    o \in streams /\ Effective /\ changer[c].step = "bumping"
      ~> o \notin streams \/ ~Effective
=============================================================================
