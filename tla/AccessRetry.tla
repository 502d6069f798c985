----------------------------- MODULE AccessRetry -----------------------------
(***************************************************************************)
(* How Biebie Kube follows customer networks: the notifications Biebie     *)
(* Access sends (internal/access/server.go), the coordinator that          *)
(* reconciles references and retries waiting clusters (core_access.go), and *)
(* the short cache of what Biebie Access answered (access/client.go).      *)
(*                                                                         *)
(* Biebie Access is external: it may start, bring each connection up and   *)
(* down, and it notifies every change.  Every notification is handled by a *)
(* goroutine of its own, so handlers overlap and overtake one another.     *)
(***************************************************************************)
EXTENDS Naturals, FiniteSets

CONSTANTS
  Clusters,     \* clusters that need customer network access
  Profiles,     \* connections of Biebie Access, by the identifier it reports
  Handlers,     \* goroutines handling a notification at the same time
  Behind,       \* Behind[k]: the connection cluster k really sits behind
  Forwarded,    \* clusters reached only through a forward of their connection
  Remembered,   \* bound: the references whose answers outlive a question
  MaxEvents,    \* bound: notifications in one behaviour
  MaxClicks     \* bound: what the engineer asks for in one behaviour

ASSUME ClustersAssumption == Clusters # {}
ASSUME BehindAssumption == Behind \in [Clusters -> Profiles]
ASSUME ForwardedAssumption == Forwarded \subseteq Clusters
ASSUME MaxEventsAssumption == MaxEvents \in Nat
ASSUME MaxClicksAssumption == MaxClicks \in Nat

VARIABLES
  running,      \* whether Biebie Access is running
  up,           \* up[p]: whether connection p is up
  events,       \* how many notifications were sent
  clicks,       \* how much the engineer asked for
  ref,          \* ref[k]: the reference in the record of cluster k
  state,        \* state[k]: its session's state
  tunnel,       \* tunnel[k]: whether its session dials a forward
  attempt,      \* attempt[k]: the connection attempt under way
  call,         \* call[k]: the ConnectWithAccess under way for cluster k
  handler,      \* handler[h]: the notification goroutine h is handling
  launched,     \* accessCoordinator.launched
  retrying,     \* accessCoordinator.retrying
  cache,        \* Client.cache
  handed        \* history: the references ever handed to a deep link

vars == <<running, up, events, clicks, ref, state, tunnel, attempt, call,
          handler, launched, retrying, cache, handed>>

peer == <<running, up, events>>
world == <<peer, clicks>>
coordinator == <<launched, retrying>>
sessions == <<state, tunnel>>
launching == <<call, handed>>

-----------------------------------------------------------------------------
\* A cluster refers to a connection by identifier, or by its readable name.
Ref == [by: {"id", "name"}, of: Profiles]
Id(p) == [by |-> "id", of |-> p]
Name(p) == [by |-> "name", of |-> p]

\* Every other state a session can be in is one nobody retries: "stopped".
State == {"stopped", "waiting", "connecting", "connected"}

\* A status Biebie Access gave, or none.
NoAnswer == "none"
Answer == {NoAnswer, "up", "down"}

Attempt == [step: {"none", "asking", "caching", "dialling", "releasing"},
            ref: Ref, heard: Answer, for: Handlers \cup {"user"}]

NoAttempt(k) == [step |-> "none", ref |-> Id(Behind[k]), heard |-> NoAnswer,
                 for |-> "user"]

\* A call that has its answer from Biebie Access, or launched it, and has not
\* yet recorded what it learned of ref.
Call == [step: {"none", "adopting", "noting"}, ref: Ref]
NoCall(k) == [step |-> "none", ref |-> Id(Behind[k])]

\* todo: the clusters the handler has still to see to; on: the one it is at;
\* seen: the references it read from the records.
Handler == [step: {"idle", "forget", "listing", "reconciling", "adopting",
                   "clearing", "forgetting", "act", "scan", "retrying",
                   "awaiting", "suspending", "landing"},
            p: Profiles, up: BOOLEAN, todo: SUBSET Clusters, on: Clusters,
            seen: [Clusters -> Ref]]

AnyHandler ==
  [step |-> "idle", p |-> CHOOSE p \in Profiles : TRUE, up |-> FALSE,
   todo |-> {}, on |-> CHOOSE k \in Clusters : TRUE,
   seen |-> [k \in Clusters |-> Id(Behind[k])]]

Init ==
  /\ running \in BOOLEAN
  /\ up = [p \in Profiles |-> FALSE]
  /\ events = 0 /\ clicks = 0
  /\ ref \in [Clusters -> Ref]
  /\ \A k \in Clusters : ref[k].of = Behind[k]
  /\ state = [k \in Clusters |-> "stopped"]
  /\ tunnel = [k \in Clusters |-> FALSE]
  /\ attempt = [k \in Clusters |-> NoAttempt(k)]
  /\ call = [k \in Clusters |-> NoCall(k)]
  /\ handler = [h \in Handlers |-> AnyHandler]
  /\ launched = {}
  /\ retrying = {}
  /\ cache = [r \in Ref |-> NoAnswer]
  /\ handed = {}

-----------------------------------------------------------------------------
(* Biebie Access, external: what the code in src/ observes of it *)

AccessStarts ==
  /\ ~running
  /\ running' = TRUE
  /\ UNCHANGED <<up, events, clicks, ref, sessions, attempt, launching, handler,
                 coordinator, cache>>

\* A connection comes up or goes down, or is reported once more, and Biebie Kube
\* is notified; the call is acknowledged at once and handled by a goroutine of
\* its own, no matter which of those that are idle.
Idle == {h \in Handlers : handler[h].step = "idle"}

Notify(p, now) ==
  LET h == CHOOSE h \in Idle : TRUE IN
  /\ running
  /\ events < MaxEvents
  /\ Idle # {}
  /\ events' = events + 1
  /\ up' = [up EXCEPT ![p] = now]
  /\ handler' = [handler EXCEPT ![h] =
       [AnyHandler EXCEPT !.step = "forget", !.p = p, !.up = now]]
  /\ UNCHANGED <<running, clicks, ref, sessions, attempt, launching, coordinator, cache>>

\* What Biebie Access says of a reference; it says nothing when not running.
Truth(r) == IF up[r.of] THEN "up" ELSE "down"

-----------------------------------------------------------------------------
(* onAccessSessionChanged *)

Step(h, s) == handler' = [handler EXCEPT ![h].step = s]

Forget(rs) == [r \in Ref |-> IF r \in rs THEN NoAnswer ELSE cache[r]]

ForgetProfile(h) ==
  /\ handler[h].step = "forget"
  /\ cache' = Forget({Id(handler[h].p)})
  /\ Step(h, "listing")
  /\ UNCHANGED <<world, ref, sessions, attempt, launching, coordinator>>

\* reconcileAccessProfile asks for the connections, whose names never change,
\* and reads the records; the question may fail, and nothing is reconciled.
ListProfiles(h) ==
  /\ handler[h].step = "listing"
  /\ \/ handler' = [handler EXCEPT
            ![h].step = "reconciling", ![h].seen = ref,
            ![h].todo = {k \in Clusters : ref[k] # Id(handler[h].p)}]
     \/ Step(h, "act")
  /\ UNCHANGED <<world, ref, sessions, attempt, launching, coordinator, cache>>

\* A reference is rewritten to p when it is the name of p, or was handed to a
\* deep link: wasLaunched does not ask for which connection.
AdoptsMutant(h, r) == TRUE

Adopts(h, r) == r = Name(handler[h].p) \/ r \in launched

\* One cluster of those read; what its record holds by now is not looked at.
Consider(h, k) ==
  /\ handler[h].step = "reconciling" /\ k \in handler[h].todo
  /\ handler' = [handler EXCEPT
       ![h].todo = @ \ {k}, ![h].on = k,
       ![h].step = IF Adopts(h, handler[h].seen[k]) THEN "adopting" ELSE @]
  /\ UNCHANGED <<world, ref, sessions, attempt, launching, coordinator, cache>>

Seen(h) == handler[h].seen[handler[h].on]

\* AdoptAccessProfileID: every record that holds the reference is rewritten.
Adopt(r, p) ==
  ref' = [k \in Clusters |-> IF ref[k] = r THEN Id(p) ELSE ref[k]]

AdoptSeen(h) ==
  /\ handler[h].step = "adopting"
  /\ \/ Adopt(Seen(h), handler[h].p) /\ Step(h, "clearing")
     \/ ref' = ref /\ Step(h, "reconciling")
  /\ UNCHANGED <<world, sessions, attempt, launching, coordinator, cache>>

ClearLaunched(h) ==
  /\ handler[h].step = "clearing"
  /\ launched' = launched \ {Seen(h)}
  /\ Step(h, "forgetting")
  /\ UNCHANGED <<world, ref, sessions, attempt, launching, retrying, cache>>

ForgetAdopted(h) ==
  /\ handler[h].step = "forgetting"
  /\ cache' = Forget({Seen(h)})
  /\ Step(h, "reconciling")
  /\ UNCHANGED <<world, ref, sessions, attempt, launching, coordinator>>

EndReconcile(h) ==
  /\ handler[h].step = "reconciling" /\ handler[h].todo = {}
  /\ handler' = [handler EXCEPT ![h].step = "act", ![h].seen = AnyHandler.seen]
  /\ UNCHANGED <<world, ref, sessions, attempt, launching, coordinator, cache>>

\* beginRetry: one RetryWaiting per connection; a second is dropped.
BeginRetryMutant(h) ==
  /\ handler[h].step = "act" /\ handler[h].up
  /\ retrying' = retrying \cup {handler[h].p}
  /\ Step(h, "scan")
  /\ UNCHANGED <<world, ref, sessions, attempt, launching, launched, cache>>

BeginRetry(h) ==
  /\ handler[h].step = "act" /\ handler[h].up
  /\ retrying' = retrying \cup {handler[h].p}
  /\ IF handler[h].p \in retrying THEN handler' = [handler EXCEPT ![h] = AnyHandler]
                                  ELSE Step(h, "scan")
  /\ UNCHANGED <<world, ref, sessions, attempt, launching, launched, cache>>

\* RetryWaiting reads which clusters wait, under the reference their record
\* holds now and not the one their session began with.
WaitingOnMutant(p) ==
  {k \in Clusters : state[k] = "waiting" /\ ref[k] = Id(p) /\ cache[Id(p)] = "up"}

WaitingOn(p) == {k \in Clusters : state[k] = "waiting" /\ ref[k] = Id(p)}

ScanWaiting(h) ==
  /\ handler[h].step = "scan"
  /\ handler' = [handler EXCEPT ![h].step = "retrying",
                                ![h].todo = WaitingOn(handler[h].p)]
  /\ UNCHANGED <<world, ref, sessions, attempt, launching, coordinator, cache>>

\* Manager.Connect while an attempt on the cluster runs: nothing is done.
RetrySkips(h, k) ==
  /\ handler[h].step = "retrying" /\ k \in handler[h].todo
  /\ attempt[k].step # "none"
  /\ handler' = [handler EXCEPT ![h].todo = @ \ {k}]
  /\ UNCHANGED <<world, ref, sessions, attempt, launching, coordinator, cache>>

Begin(k, by) ==
  /\ attempt[k].step = "none"
  /\ attempt' = [attempt EXCEPT ![k] =
       [step |-> "asking", ref |-> ref[k], heard |-> NoAnswer, for |-> by]]
  /\ state' = [state EXCEPT ![k] = "connecting"]

RetryConnects(h, k) ==
  /\ handler[h].step = "retrying" /\ k \in handler[h].todo
  /\ Begin(k, h)
  /\ handler' = [handler EXCEPT ![h].step = "awaiting", ![h].todo = @ \ {k}]
  /\ UNCHANGED <<world, ref, tunnel, launching, coordinator, cache>>

EndRetryMutant(h) ==
  /\ handler[h].step = "retrying" /\ handler[h].todo = {}
  /\ handler' = [handler EXCEPT ![h] = AnyHandler]
  /\ UNCHANGED <<world, ref, sessions, attempt, launching, coordinator, cache>>

EndRetry(h) ==
  /\ handler[h].step = "retrying" /\ handler[h].todo = {}
  /\ retrying' = retrying \ {handler[h].p}
  /\ handler' = [handler EXCEPT ![h] = AnyHandler]
  /\ UNCHANGED <<world, ref, sessions, attempt, launching, launched, cache>>

-----------------------------------------------------------------------------
(* handleAccessDown *)

UsesProfile(p) == {k \in Clusters : ref[k] = Id(p)}

HandleDown(h) ==
  /\ handler[h].step = "act" /\ ~handler[h].up
  /\ handler' = [handler EXCEPT ![h].step = "suspending",
                                ![h].todo = UsesProfile(handler[h].p)]
  /\ UNCHANGED <<world, ref, sessions, attempt, launching, coordinator, cache>>

\* SuspendForAccessDown: the entry goes first, the waiting state is written in
\* a later critical section.
Suspend(h, k) ==
  /\ handler[h].step = "suspending" /\ k \in handler[h].todo
  /\ IF state[k] = "connected" /\ tunnel[k]
     THEN /\ state' = [state EXCEPT ![k] = "stopped"]
          /\ tunnel' = [tunnel EXCEPT ![k] = FALSE]
          /\ handler' = [handler EXCEPT ![h].todo = @ \ {k}, ![h].on = k,
                                        ![h].step = "landing"]
     ELSE /\ handler' = [handler EXCEPT ![h].todo = @ \ {k}]
          /\ UNCHANGED sessions
  /\ UNCHANGED <<world, ref, attempt, launching, coordinator, cache>>

LandWaiting(h) ==
  /\ handler[h].step = "landing"
  /\ state' = [state EXCEPT ![handler[h].on] = "waiting"]
  /\ Step(h, "suspending")
  /\ UNCHANGED <<world, ref, tunnel, attempt, launching, coordinator, cache>>

EndDown(h) ==
  /\ handler[h].step = "suspending" /\ handler[h].todo = {}
  /\ handler' = [handler EXCEPT ![h] = AnyHandler]
  /\ UNCHANGED <<world, ref, sessions, attempt, launching, coordinator, cache>>

-----------------------------------------------------------------------------
(* An attempt: checkAccess, then the dial it does not prevent *)

\* Client.Status: a cached answer, or a question Biebie Access answers now; a
\* question that fails says as much as no answer.
AskFails(k) ==
  /\ attempt[k].step = "asking"
  /\ attempt' = [attempt EXCEPT ![k].step = "dialling"]
  /\ UNCHANGED <<world, ref, sessions, launching, handler, coordinator, cache>>

AskStatus(k) ==
  LET r == attempt[k].ref
      known == cache[r] # NoAnswer \/ r \notin Remembered
  IN
  /\ attempt[k].step = "asking" /\ running
  /\ attempt' = [attempt EXCEPT
       ![k].heard = IF cache[r] # NoAnswer THEN cache[r] ELSE Truth(r),
       ![k].step = IF known THEN "dialling" ELSE "caching"]
  /\ UNCHANGED <<world, ref, sessions, launching, handler, coordinator, cache>>

CacheStatus(k) ==
  /\ attempt[k].step = "caching"
  /\ cache' = [cache EXCEPT ![attempt[k].ref] = attempt[k].heard]
  /\ attempt' = [attempt EXCEPT ![k].step = "dialling"]
  /\ UNCHANGED <<world, ref, sessions, launching, handler, coordinator>>

Landed(k) == [attempt EXCEPT
  ![k] = [NoAttempt(k) EXCEPT !.step = "releasing", !.for = attempt[k].for]]

\* A forwarded cluster is dialled through the forward the answer lent, any
\* other at its own address, which may answer whatever Biebie Access said.
DialAnswers(k) ==
  /\ attempt[k].step = "dialling"
  /\ k \in Forwarded =>
       attempt[k].heard = "up" /\ attempt[k].ref.of = Behind[k] /\ up[Behind[k]]
  /\ state' = [state EXCEPT ![k] = "connected"]
  /\ tunnel' = [tunnel EXCEPT ![k] = k \in Forwarded]
  /\ attempt' = Landed(k)
  /\ UNCHANGED <<world, ref, launching, handler, coordinator, cache>>

\* A silent port waits for the customer network unless it was confirmed up.
DialFails(k) ==
  /\ attempt[k].step = "dialling"
  /\ \/ /\ attempt[k].heard # "up"
        /\ state' = [state EXCEPT ![k] = "waiting"]
     \/ state' = [state EXCEPT ![k] = "stopped"]
  /\ attempt' = Landed(k)
  /\ UNCHANGED <<world, ref, tunnel, launching, handler, coordinator, cache>>

ReleaseAttempt(k) ==
  LET h == attempt[k].for IN
  /\ attempt[k].step = "releasing"
  /\ attempt' = [attempt EXCEPT ![k] = NoAttempt(k)]
  /\ handler' = IF h = "user" THEN handler
                ELSE [handler EXCEPT ![h].step = "retrying"]
  /\ UNCHANGED <<world, ref, sessions, launching, coordinator, cache>>

-----------------------------------------------------------------------------
(* The engineer *)

Click == clicks < MaxClicks /\ clicks' = clicks + 1

UserConnects(k) ==
  /\ Click
  /\ Begin(k, "user")
  /\ UNCHANGED <<peer, ref, tunnel, launching, handler, coordinator, cache>>

UserDisconnects(k) ==
  /\ Click
  /\ state[k] # "stopped"
  /\ state' = [state EXCEPT ![k] = "stopped"]
  /\ tunnel' = [tunnel EXCEPT ![k] = FALSE]
  /\ UNCHANGED <<peer, ref, attempt, launching, handler, coordinator, cache>>

\* ConnectWithAccess: a running Biebie Access names the connection it resolved
\* the reference to, which the call then records when it is another reference.
AccessAccepts(k) ==
  LET r == ref[k] IN
  /\ Click
  /\ running /\ call[k].step = "none"
  /\ cache' = Forget({r, Id(r.of)})
  /\ call' = IF r = Id(r.of) THEN call
             ELSE [call EXCEPT ![k] = [step |-> "adopting", ref |-> r]]
  /\ UNCHANGED <<peer, ref, sessions, attempt, handed, handler, coordinator>>

\* A failure to record it does not fail the call.
AdoptResolved(k) ==
  /\ call[k].step = "adopting"
  /\ \/ Adopt(call[k].ref, call[k].ref.of)
     \/ ref' = ref
  /\ call' = [call EXCEPT ![k] = NoCall(k)]
  /\ UNCHANGED <<world, sessions, attempt, handed, handler, coordinator, cache>>

\* A peer that never answered is launched by a deep link, and the launch is
\* noted only after it.
LaunchAccess(k) ==
  /\ Click
  /\ ~running /\ call[k].step = "none"
  /\ call' = [call EXCEPT ![k] = [step |-> "noting", ref |-> ref[k]]]
  /\ handed' = handed \cup {ref[k]}
  /\ UNCHANGED <<peer, ref, sessions, attempt, handler, coordinator, cache>>

NoteLaunched(k) ==
  /\ call[k].step = "noting"
  /\ launched' = launched \cup {call[k].ref}
  /\ call' = [call EXCEPT ![k] = NoCall(k)]
  /\ UNCHANGED <<world, ref, sessions, attempt, handed, handler, retrying, cache>>

\* GetAccessStatus, asked by a page, in one step: a question and an answer that
\* other steps come between are AskStatus and CacheStatus.
GetAccessStatus(r) ==
  /\ r \in {ref[k] : k \in Clusters} \cap Remembered
  /\ running /\ cache[r] = NoAnswer
  /\ cache' = [cache EXCEPT ![r] = Truth(r)]
  /\ UNCHANGED <<world, ref, sessions, attempt, launching, handler, coordinator>>

\* Two seconds pass.  Those of a reference outside Remembered pass at once.
Expire(r) ==
  /\ cache[r] # NoAnswer
  /\ cache' = Forget({r})
  /\ UNCHANGED <<world, ref, sessions, attempt, launching, handler, coordinator>>

-----------------------------------------------------------------------------
Handle(h) ==
  \/ ForgetProfile(h) \/ ListProfiles(h)
  \/ AdoptSeen(h) \/ ClearLaunched(h) \/ ForgetAdopted(h) \/ EndReconcile(h)
  \/ BeginRetry(h) \/ ScanWaiting(h) \/ EndRetry(h)
  \/ \E k \in Clusters : \/ Consider(h, k) \/ RetrySkips(h, k)
                         \/ RetryConnects(h, k) \/ Suspend(h, k)
  \/ HandleDown(h) \/ LandWaiting(h) \/ EndDown(h)

Attend(k) ==
  \/ AskFails(k) \/ AskStatus(k) \/ CacheStatus(k)
  \/ DialAnswers(k) \/ DialFails(k)
  \/ ReleaseAttempt(k)

Environment ==
  \/ AccessStarts
  \/ \E p \in Profiles, now \in BOOLEAN : Notify(p, now)
  \/ \E k \in Clusters :
       \/ UserConnects(k) \/ UserDisconnects(k)
       \/ AccessAccepts(k) \/ AdoptResolved(k)
       \/ LaunchAccess(k) \/ NoteLaunched(k)
  \/ \E r \in Ref : GetAccessStatus(r) \/ Expire(r)

Next ==
  \/ \E h \in Handlers : Handle(h)
  \/ \E k \in Clusters : Attend(k)
  \/ Environment

\* A started goroutine runs on, and every call an attempt makes has a timeout.
Fairness ==
  /\ \A h \in Handlers : WF_vars(Handle(h))
  /\ \A k \in Clusters : WF_vars(Attend(k))

Spec == Init /\ [][Next]_vars

FairSpec == Spec /\ Fairness

-----------------------------------------------------------------------------
(* Properties *)

\* Types of every variable.
TypeOK ==
  /\ running \in BOOLEAN
  /\ up \in [Profiles -> BOOLEAN]
  /\ events \in 0 .. MaxEvents
  /\ clicks \in 0 .. MaxClicks
  /\ ref \in [Clusters -> Ref]
  /\ state \in [Clusters -> State]
  /\ tunnel \in [Clusters -> BOOLEAN]
  /\ attempt \in [Clusters -> Attempt]
  /\ call \in [Clusters -> Call]
  /\ handler \in [Handlers -> Handler]
  /\ launched \subseteq Ref
  /\ retrying \subseteq Profiles
  /\ cache \in [Ref -> Answer]
  /\ handed \subseteq Ref

Retrier(h, p) ==
  handler[h].p = p /\ handler[h].step \in {"scan", "retrying", "awaiting"}

\* However many notifications overlap, at most one RetryWaiting runs for a
\* connection, and the guard is set exactly as long as one does.
OneRetry ==
  \A p \in Profiles :
    /\ \A g, h \in Handlers : Retrier(g, p) /\ Retrier(h, p) => g = h
    /\ p \in retrying <=> \E h \in Handlers : Retrier(h, p)

\* Whatever other notifications, launches and calls come between the steps of a
\* reconciliation, a reference is rewritten only to an identifier, and to one of
\* another connection than the one it names only if that reference itself was
\* once handed to a deep link and a notification of that connection is handled.
NamedAdoption ==
  [][\A k \in Clusters :
       LET r == ref[k]  p == ref'[k].of
       IN  ref'[k] # r =>
             /\ ref'[k] = Id(p)
             /\ \/ r = Name(p)
                \/ r \in handed /\ \E h \in Handlers :
                     handler[h].step = "adopting" /\ handler[h].p = p]_vars

\* What AdoptAccessProfileID is documented to do: it swaps one reference for
\* another of the same connection.
AdoptionIsConfirmed ==
  [][\A k \in Clusters : ref'[k].of = ref[k].of]_vars

\* The guard of a retry is always given back.
RetryEnds == \A p \in Profiles : []<>(p \notin retrying)

\* A cluster that waits, with no attempt on it, when the retry for the
\* connection in its record begins to look, stops waiting, unless its record is
\* rewritten to another connection before the retry has looked.
RetryReachesWaiting ==
  \A k \in Clusters, p \in Profiles :
    (/\ \E h \in Handlers : handler[h].step = "scan" /\ handler[h].p = p
     /\ state[k] = "waiting" /\ ref[k] = Id(p)
     /\ attempt[k].step = "none") ~> (state[k] # "waiting" \/ ref[k] # Id(p))
=============================================================================
