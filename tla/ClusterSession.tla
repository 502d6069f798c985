---------------------------- MODULE ClusterSession ----------------------------
(***************************************************************************)
(* The life of one cluster's session in cluster.Manager                    *)
(* (internal/cluster/manager.go).  The manager keeps a map from cluster id *)
(* to session under one RWMutex; every operation takes a cluster id and    *)
(* touches that entry alone, so one entry is modelled.  An operation that  *)
(* takes the lock more than once is split at each unlock, and any number   *)
(* of goroutines (Callers) run operations at the same time.                *)
(***************************************************************************)
EXTENDS Naturals, FiniteSets

CONSTANTS
  Callers,      \* goroutines: binding calls, reflectors, Biebie Access events
  MaxGen,       \* bound: connections that may succeed in one behaviour
  NeedsAccess   \* cluster.Access.Required

ASSUME CallersAssumption == Callers # {}
ASSUME MaxGenAssumption == MaxGen \in Nat \ {0}
ASSUME NeedsAccessAssumption == NeedsAccess \in BOOLEAN

VARIABLES
  session,      \* sessions[clusterID]; NoSession when there is no entry
  open,         \* the watch hubs that have not been closed
  made,         \* how many hubs (and clients, and epochs) were ever made
  reported,     \* the hubs whose authFailureOnce has fired
  connecting,   \* whether connecting[clusterID] is set
  stored,       \* whether the repository still has the cluster's record
  pc,           \* pc[c]: where goroutine c is between two critical sections
  held,         \* held[c]: the client c read before it gave up the lock
  landing,      \* landing[c]: the state c will move the session to
  net           \* net[c]: what c's connect attempt learned from checkAccess

vars == <<session, open, made, reported, connecting, stored,
          pc, held, landing, net>>

-----------------------------------------------------------------------------
(* A successful Connect makes a client, a hub and a session epoch together  *)
(* and nothing ever separates them, so one generation number stands for all *)
(* three; 0 is nil.                                                         *)
Gen == 0 .. MaxGen

State == {"disconnected", "waiting_access", "connecting", "connected",
          "unauthorized", "unreachable", "failed"}

Session == [state: State, gen: Gen, tunnel: BOOLEAN, catalogue: Gen]

\* sessionView of a cluster that has no entry.
NoSession == [state |-> "disconnected", gen |-> 0, tunnel |-> FALSE,
              catalogue |-> 0]

Net == {"none", "unconfirmed", "route", "tunnel"}

\* What checkAccess can find: nothing is asked unless the cluster needs it.
checkAccess == IF NeedsAccess THEN {"unconfirmed", "route", "tunnel"}
                              ELSE {"none"}

Attempting == {"guarded", "checking", "dialling", "releasing"}

Pc == Attempting \cup {"idle", "probing", "hooking", "landing", "refreshing",
                       "deleting", "suspending"}

Init ==
  /\ session = NoSession
  /\ open = {}
  /\ made = 0
  /\ reported = {}
  /\ connecting = FALSE
  /\ stored = TRUE
  /\ pc = [c \in Callers |-> "idle"]
  /\ held = [c \in Callers |-> 0]
  /\ landing = [c \in Callers |-> "disconnected"]
  /\ net = [c \in Callers |-> "none"]

-----------------------------------------------------------------------------
At(c, p) == pc[c] = p

Goto(c, p) == pc' = [pc EXCEPT ![c] = p]

\* WatchHub.Close of the session's hub, in the critical section that drops it.
HubsWithoutMutant(s) ==
  IF s.state = "connected" THEN open \ {s.gen} ELSE open

HubsWithout(s) == open \ {s.gen}

\* Manager.transition: the entry is made when there is none, and an entry that
\* is there keeps its client, its hub and its epoch.
Transition(s, state) == [s EXCEPT !.state = state]

\* Manager.Client: clients are handed out for a connected session alone.
HasClient == session.state = "connected" /\ session.gen # 0

-----------------------------------------------------------------------------
(* Connect *)

\* The record is there and no attempt is running; a second attempt returns the
\* session as it is and changes nothing.
ConnectBeginMutant(c) ==
  /\ At(c, "idle")
  /\ stored
  /\ connecting' = TRUE
  /\ Goto(c, "guarded")
  /\ UNCHANGED <<session, open, made, reported, stored, held, landing, net>>

ConnectBegin(c) ==
  /\ At(c, "idle")
  /\ stored
  /\ ~connecting
  /\ connecting' = TRUE
  /\ Goto(c, "guarded")
  /\ UNCHANGED <<session, open, made, reported, stored, held, landing, net>>

ConnectAnnounce(c) ==
  /\ At(c, "guarded")
  /\ session' = Transition(session, "connecting")
  /\ Goto(c, "checking")
  /\ UNCHANGED <<open, made, reported, connecting, stored, held, landing, net>>

ConnectCheck(c) ==
  /\ At(c, "checking")
  /\ \E found \in checkAccess : net' = [net EXCEPT ![c] = found]
  /\ Goto(c, "dialling")
  /\ UNCHANGED <<session, open, made, reported, connecting, stored, held,
                 landing>>

\* Where a failed attempt may end: a missing or unreadable kubeconfig and a
\* broken credential helper fail, the API server may reject the credentials or
\* not be reached, and a silent port behind an unconfirmed customer network
\* waits for that network.
FailureStatesMutant(found) == {"failed", "unauthorized", "connected"}

FailureStates(found) ==
  {"failed", "unauthorized", "unreachable"}
    \cup (IF found = "unconfirmed" THEN {"waiting_access"} ELSE {})

ConnectFailMutant(c) ==
  /\ At(c, "dialling")
  /\ Goto(c, "releasing")
  /\ UNCHANGED <<session, open, made, reported, connecting, stored, held,
                 landing, net>>

ConnectFail(c) ==
  /\ At(c, "dialling")
  /\ \E state \in FailureStates(net[c]) : session' = Transition(session, state)
  /\ Goto(c, "releasing")
  /\ UNCHANGED <<open, made, reported, connecting, stored, held, landing, net>>

\* The new hub is installed and the one it replaces is closed in one critical
\* section, whatever state the session is in by now.
ConnectInstall(c) ==
  /\ At(c, "dialling")
  /\ made < MaxGen
  /\ made' = made + 1
  /\ open' = HubsWithout(session) \cup {made + 1}
  /\ session' = [state |-> "connected", gen |-> made + 1,
                 tunnel |-> net[c] = "tunnel", catalogue |-> made + 1]
  /\ Goto(c, "releasing")
  /\ UNCHANGED <<reported, connecting, stored, held, landing, net>>

\* The deferred delete of connecting[clusterID].
ConnectRelease(c) ==
  /\ At(c, "releasing")
  /\ connecting' = FALSE
  /\ net' = [net EXCEPT ![c] = "none"]
  /\ Goto(c, "idle")
  /\ UNCHANGED <<session, open, made, reported, stored, held, landing>>

-----------------------------------------------------------------------------
(* Disconnect, and the first half of DeleteCluster, which disconnects and   *)
(* then removes the record from the repository.                             *)
Disconnect(c, then) ==
  /\ At(c, "idle")
  /\ open' = HubsWithout(session)
  /\ session' = NoSession
  /\ Goto(c, then)
  /\ UNCHANGED <<made, reported, connecting, stored, held, landing, net>>

DeleteRecord(c) ==
  /\ At(c, "deleting")
  /\ stored' = FALSE
  /\ Goto(c, "idle")
  /\ UNCHANGED <<session, open, made, reported, connecting, held, landing, net>>

-----------------------------------------------------------------------------
(* Tearing a connected session down: the entry is deleted under the lock,   *)
(* and the state the cluster is left in is written in a later critical      *)
(* section.                                                                 *)
TearDown(c, next, state) ==
  /\ open' = HubsWithout(session)
  /\ session' = NoSession
  /\ landing' = [landing EXCEPT ![c] = state]
  /\ Goto(c, next)

Land(c) ==
  /\ At(c, "landing")
  /\ session' = Transition(session, landing[c])
  /\ landing' = [landing EXCEPT ![c] = "disconnected"]
  /\ Goto(c, "idle")
  /\ UNCHANGED <<open, made, reported, connecting, stored, held, net>>

\* A reflector of hub g reports rejected credentials, once in the hub's life,
\* even when the hub was closed in the meantime.  The callback names the
\* cluster and not the hub.
SuspendForAuthFailure(c, g) ==
  /\ At(c, "idle")
  /\ g \in 1 .. made
  /\ g \notin reported
  /\ reported' = reported \cup {g}
  /\ IF session.state = "connected"
     THEN TearDown(c, "hooking", "unauthorized")
     ELSE UNCHANGED <<open, session, landing, pc>>
  /\ UNCHANGED <<made, connecting, stored, held, net>>

\* The hook Core registers: forwards and terminals stop, tables are forgotten.
AuthFailureHook(c) ==
  /\ At(c, "hooking")
  /\ Goto(c, "landing")
  /\ UNCHANGED <<session, open, made, reported, connecting, stored, held,
                 landing, net>>

\* handleAccessDown looks at the session first and suspends it later.
AccessDownCheck(c) ==
  /\ At(c, "idle")
  /\ session.state = "connected" /\ session.tunnel
  /\ Goto(c, "suspending")
  /\ UNCHANGED <<session, open, made, reported, connecting, stored, held,
                 landing, net>>

SuspendForAccessDownMutant(c) ==
  /\ At(c, "suspending")
  /\ IF session.state = "connected"
     THEN TearDown(c, "landing", "waiting_access")
     ELSE Goto(c, "idle") /\ UNCHANGED <<open, session, landing>>
  /\ UNCHANGED <<made, reported, connecting, stored, held, net>>

SuspendForAccessDown(c) ==
  /\ At(c, "suspending")
  /\ IF session.state = "connected" /\ session.tunnel
     THEN TearDown(c, "landing", "waiting_access")
     ELSE Goto(c, "idle") /\ UNCHANGED <<open, session, landing>>
  /\ UNCHANGED <<made, reported, connecting, stored, held, net>>

\* Resume takes the client, then probes it without the lock.
ResumeRead(c) ==
  /\ At(c, "idle")
  /\ HasClient
  /\ held' = [held EXCEPT ![c] = session.gen]
  /\ Goto(c, "probing")
  /\ UNCHANGED <<session, open, made, reported, connecting, stored, landing,
                 net>>

\* The probe answered, or it failed and whatever session is connected by now
\* is torn down.
ResumeProbe(c) ==
  /\ At(c, "probing")
  /\ held' = [held EXCEPT ![c] = 0]
  /\ \/ Goto(c, "idle") /\ UNCHANGED <<open, session, landing>>
     \/ /\ session.state = "connected"
        /\ \E state \in {"unauthorized", "unreachable", "failed"} :
             TearDown(c, "landing", state)
  /\ UNCHANGED <<made, reported, connecting, stored, net>>

-----------------------------------------------------------------------------
(* RefreshCatalogue reads discovery through a client it took earlier, and    *)
(* stores what it read in whatever entry is there when the read returns.     *)
RefreshRead(c) ==
  /\ At(c, "idle")
  /\ HasClient
  /\ held' = [held EXCEPT ![c] = session.gen]
  /\ Goto(c, "refreshing")
  /\ UNCHANGED <<session, open, made, reported, connecting, stored, landing,
                 net>>

RefreshWrite(c) ==
  /\ At(c, "refreshing")
  /\ held' = [held EXCEPT ![c] = 0]
  /\ session' \in {session} \cup
       (IF session # NoSession
        THEN {[session EXCEPT !.catalogue = held[c]]} ELSE {})
  /\ Goto(c, "idle")
  /\ UNCHANGED <<open, made, reported, connecting, stored, landing, net>>

-----------------------------------------------------------------------------
\* What a caller may start, and what a goroutine that has started goes on to.
Start(c) ==
  \/ ConnectBegin(c)
  \/ \E then \in {"idle", "deleting"} : Disconnect(c, then)
  \/ \E g \in 1 .. MaxGen : SuspendForAuthFailure(c, g)
  \/ AccessDownCheck(c)
  \/ ResumeRead(c)
  \/ RefreshRead(c)

Proceed(c) ==
  \/ ConnectAnnounce(c) \/ ConnectCheck(c) \/ ConnectFail(c)
  \/ ConnectInstall(c) \/ ConnectRelease(c)
  \/ DeleteRecord(c)
  \/ AuthFailureHook(c) \/ SuspendForAccessDown(c) \/ ResumeProbe(c) \/ Land(c)
  \/ RefreshWrite(c)

Next == \E c \in Callers : Start(c) \/ Proceed(c)

\* Every network call a started operation makes has a timeout, and Go runs
\* every runnable goroutine; nobody is obliged to start anything.
Fairness == \A c \in Callers : WF_vars(Proceed(c))

Spec == Init /\ [][Next]_vars

FairSpec == Spec /\ Fairness

-----------------------------------------------------------------------------
(* Properties *)

\* Types, and that a session which reads "connected" has the client that
\* Manager.Client hands out for it.
TypeOK ==
  /\ session \in Session
  /\ session.state = "connected" => session.gen # 0
  /\ open \subseteq 1 .. MaxGen
  /\ made \in Gen
  /\ reported \subseteq 1 .. MaxGen
  /\ connecting \in BOOLEAN
  /\ stored \in BOOLEAN
  /\ pc \in [Callers -> Pc]
  /\ held \in [Callers -> Gen]
  /\ landing \in [Callers -> State \ {"connecting", "connected"}]
  /\ net \in [Callers -> Net]

\* The hub of the entry in the map is running and no other hub is: whatever
\* the interleaving of connects, disconnects and suspensions, no watch outlives
\* the session that opened it and Hub() never returns a closed hub.
OneHub ==
  /\ open = IF session.gen = 0 THEN {} ELSE {session.gen}
  /\ session.gen <= made

\* At most one connection attempt runs for a cluster, and connecting[clusterID]
\* is set exactly as long as one does, on every path out of Connect.
OneAttempt ==
  /\ \A c, d \in Callers :
       pc[c] \in Attempting /\ pc[d] \in Attempting => c = d
  /\ connecting <=> \E c \in Callers : pc[c] \in Attempting

\* A session that reads "connecting" has an attempt behind it that has yet to
\* write an outcome: no failure path, suspension or late transition can leave
\* the spinner turning over nothing.
ConnectingIsAttempted ==
  session.state = "connecting" =>
    \E c \in Callers : pc[c] \in {"checking", "dialling"}

\* A customer network going down never ends a session that does not use its
\* forwards, even when the session was replaced after handleAccessDown looked
\* at it.
RouteSurvivesAccessDown ==
  [][\A c \in Callers :
       At(c, "suspending") /\ ~At(c, "suspending")' /\ session'.gen # session.gen
         => session.tunnel]_vars

\* A session does not read "connecting" for ever.
ConnectingEnds == session.state = "connecting" ~> session.state # "connecting"

\* What the running hubs promise to the rest of the program.
Ownership == INSTANCE WatchOwnership
  WITH Hub <- 1 .. MaxGen, live <- open, gone <- (1 .. made) \ open

ImplementsOwnership == Ownership!Spec

-----------------------------------------------------------------------------
(* What the comments promise and the code does not keep *)

\* manager.go: "SuspendForAuthFailure tears down a connected session whose
\* watches were rejected": the session torn down is the one whose hub reported.
SuspendedSessionReported ==
  [][\A g \in 1 .. MaxGen :
       g \in reported' \ reported /\ session'.gen # session.gen
         => session.gen = g]_vars
=============================================================================
