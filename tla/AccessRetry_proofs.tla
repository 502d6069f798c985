--------------------------- MODULE AccessRetry_proofs ---------------------------
(***************************************************************************)
(* Proofs about the customer networks: the types, that one retry runs for  *)
(* a connection however many notifications overlap, and that a reference   *)
(* is only rewritten to the connection it names or, once it was handed to  *)
(* a deep link, to one that is notified.                                   *)
(***************************************************************************)
EXTENDS AccessRetry, TLAPS

USE ClustersAssumption, BehindAssumption, ForwardedAssumption, MaxEventsAssumption,
    MaxClicksAssumption

-----------------------------------------------------------------------------
\* A retry waits for the attempt it began, and for no other.
Awaited ==
  \A k \in Clusters :
    attempt[k].step # "none" /\ attempt[k].for # "user" =>
      /\ handler[attempt[k].for].step = "awaiting"
      /\ \A j \in Clusters :
           attempt[j].step # "none" /\ attempt[j].for = attempt[k].for => j = k

\* What a handler or a call is about to rewrite: the name of its connection, or
\* a reference a deep link was handed, whoever cleared it meanwhile.
Traceable ==
  /\ launched \subseteq handed
  /\ \A h \in Handlers : handler[h].step = "adopting" =>
       Seen(h) = Name(handler[h].p) \/ Seen(h) \in handed
  /\ \A k \in Clusters :
       /\ call[k].step = "adopting" => call[k].ref = Name(call[k].ref.of)
       /\ call[k].step = "noting" => call[k].ref \in handed

\* The inductive invariant: OneRetry alone does not say that the handler an
\* attempt wakes is one that still holds the guard.
IInv == TypeOK /\ Awaited /\ OneRetry /\ Traceable

\* The values the operators build have the types of the variables they go to.
LEMMA Shapes ==
  /\ \A p \in Profiles : Id(p) \in Ref /\ Name(p) \in Ref
  /\ NoAnswer \in Answer
  /\ \A k \in Clusters : NoAttempt(k) \in Attempt
  /\ \A k \in Clusters : NoCall(k) \in Call
  /\ AnyHandler \in Handler
  /\ AnyHandler.step = "idle"
<1>1. \A p \in Profiles : Id(p) \in Ref /\ Name(p) \in Ref
  BY DEF Id, Name, Ref
<1>2. \A k \in Clusters : Behind[k] \in Profiles
  OBVIOUS
<1>3. \A k \in Clusters : NoAttempt(k) \in Attempt
  BY <1>1, <1>2 DEF NoAttempt, Attempt, Answer
<1>4. Profiles # {}
  BY <1>2
<1>5. (CHOOSE p \in Profiles : TRUE) \in Profiles
  BY <1>4
<1>6. (CHOOSE k \in Clusters : TRUE) \in Clusters
  OBVIOUS
<1>7. [k \in Clusters |-> Id(Behind[k])] \in [Clusters -> Ref]
  BY <1>1, <1>2
<1>8. AnyHandler \in Handler /\ AnyHandler.step = "idle"
  BY <1>5, <1>6, <1>7 DEF AnyHandler, Handler
<1>9. \A k \in Clusters : NoCall(k) \in Call
  BY <1>1, <1>2 DEF NoCall, Call
<1>10. NoAnswer \in Answer
  BY DEF Answer
<1> QED
  BY <1>1, <1>3, <1>8, <1>9, <1>10

\* An attempt that moves on, having heard something or forgotten it, is still an
\* attempt, of the same goroutine.
LEMMA MovesOn ==
  ASSUME attempt \in [Clusters -> Attempt], NEW k \in Clusters,
         NEW step \in {"asking", "caching", "dialling", "releasing"},
         NEW heard \in Answer,
         attempt' = [attempt EXCEPT ![k].step = step, ![k].heard = heard]
  PROVE  attempt' \in [Clusters -> Attempt]
<1> DEFINE next == [attempt[k] EXCEPT !.step = step, !.heard = heard]
<1>1. attempt' = [attempt EXCEPT ![k] = next]
  OBVIOUS
<1>2. next \in Attempt
  <2>1. attempt[k] \in Attempt
    OBVIOUS
  <2> DEFINE H == Answer
  <2>2. attempt[k] \in [step: {"none", "asking", "caching", "dialling", "releasing"},
                        ref: Ref, heard: H, for: Handlers \cup {"user"}]
    BY <2>1 DEF Attempt
  <2>3. heard \in H
    OBVIOUS
  <2> HIDE DEF H
  <2>4. next \in [step: {"none", "asking", "caching", "dialling", "releasing"},
                  ref: Ref, heard: H, for: Handlers \cup {"user"}]
    BY <2>2, <2>3
  <2> QED
    BY <2>4 DEF H, Attempt
<1> HIDE DEF next
<1> QED
  BY <1>1, <1>2

\* An attempt that has dialled is released for whoever began it.
LEMMA AttemptLands ==
  ASSUME attempt \in [Clusters -> Attempt], NEW k \in Clusters,
         attempt' = Landed(k)
  PROVE  /\ attempt' \in [Clusters -> Attempt]
         /\ attempt'[k].for = attempt[k].for /\ attempt'[k].step = "releasing"
         /\ \A j \in Clusters \ {k} : attempt'[j] = attempt[j]
<1> DEFINE next == [NoAttempt(k) EXCEPT !.step = "releasing", !.for = attempt[k].for]
<1>1. attempt[k].for \in Handlers \cup {"user"}
  BY DEF Attempt
<1>2. next \in Attempt /\ next.for = attempt[k].for /\ next.step = "releasing"
  BY <1>1, Shapes DEF Attempt, NoAttempt
<1>3. attempt' = [attempt EXCEPT ![k] = next]
  BY DEF Landed
<1> HIDE DEF next
<1> QED
  BY <1>2, <1>3

\* A handler that moves on with clusters to see to is still a handler.
LEMMA SeesTo ==
  ASSUME handler \in [Handlers -> Handler], NEW h \in Handlers,
         NEW step \in {"reconciling", "adopting", "retrying", "awaiting",
                       "suspending", "landing"},
         NEW todo \in SUBSET Clusters, NEW on \in Clusters,
         NEW seen \in [Clusters -> Ref],
         handler' = [handler EXCEPT ![h] =
           [handler[h] EXCEPT !.step = step, !.todo = todo, !.on = on,
                              !.seen = seen]]
  PROVE  /\ handler' \in [Handlers -> Handler]
         /\ handler'[h].step = step
         /\ \A g \in Handlers \ {h} : handler'[g] = handler[g]
<1> DEFINE next == [handler[h] EXCEPT !.step = step, !.todo = todo, !.on = on,
                                      !.seen = seen]
<1>1. next \in Handler /\ next.step = step
  BY DEF Handler
<1> HIDE DEF next
<1>2. handler' = [handler EXCEPT ![h] = next]
  BY DEF next
<1> QED
  BY <1>1, <1>2

\* What Biebie Access says of a reference is an answer.
LEMMA TruthIsAnswer ==
  ASSUME TypeOK, NEW r \in Ref
  PROVE  Truth(r) \in Answer
  BY DEF Truth, Answer

\* The types and the invariant hold initially.
LEMMA InitIInv == Init => IInv
<1> SUFFICES ASSUME Init PROVE IInv
  OBVIOUS
<1>1. \A k \in Clusters : attempt[k].step = "none"
  BY DEF Init, NoAttempt
<1>2. \A h \in Handlers : handler[h].step = "idle"
  BY Shapes DEF Init
<1>3. TypeOK
  BY Shapes DEF Init, TypeOK, State
<1>4. OneRetry
  BY <1>2 DEF Init, OneRetry, Retrier
<1>5. Traceable
  BY <1>2 DEF Init, Traceable, NoCall
<1> QED
  BY <1>1, <1>3, <1>4, <1>5 DEF IInv, Awaited

-----------------------------------------------------------------------------
(* The invariant under the kinds of steps there are *)

\* A handler that takes a step no retry takes leaves retries as they are.
LEMMA OutsideRetries ==
  ASSUME IInv, NEW h \in Handlers,
         handler' \in [Handlers -> Handler],
         \A g \in Handlers \ {h} : handler'[g] = handler[g],
         handler[h].step \notin {"scan", "retrying", "awaiting"},
         handler'[h].step \notin {"scan", "retrying", "awaiting"},
         attempt' = attempt, retrying' = retrying
  PROVE  Awaited' /\ OneRetry'
<1>1. \A g \in Handlers, p \in Profiles : Retrier(g, p)' <=> Retrier(g, p)
  BY DEF Retrier
<1>2. OneRetry'
  BY <1>1 DEF IInv, OneRetry
<1>3. \A k \in Clusters : attempt[k].for \in Handlers \cup {"user"}
  BY DEF IInv, TypeOK, Attempt
<1>4. Awaited'
  BY <1>3 DEF IInv, Awaited
<1> QED
  BY <1>2, <1>4

\* A handler that goes on with its retry still holds the guard.
LEMMA WithinRetry ==
  ASSUME IInv, NEW h \in Handlers,
         \A g \in Handlers \ {h} : handler'[g] = handler[g],
         handler[h].step \in {"scan", "retrying", "awaiting"},
         handler'[h].step \in {"scan", "retrying", "awaiting"},
         handler'[h].p = handler[h].p, retrying' = retrying
  PROVE  OneRetry'
<1>1. \A g \in Handlers, p \in Profiles : Retrier(g, p)' <=> Retrier(g, p)
  BY DEF Retrier
<1> QED
  BY <1>1 DEF IInv, OneRetry

\* Attempts that change neither their goroutine nor whether they run are
\* awaited by whoever awaited them, as long as that one still waits.
LEMMA SameAttempts ==
  ASSUME IInv,
         \A k \in Clusters : /\ attempt'[k].for = attempt[k].for
                             /\ attempt'[k].step = "none" <=> attempt[k].step = "none",
         \A h \in Handlers : handler[h].step = "awaiting" =>
                               handler'[h].step = "awaiting"
  PROVE  Awaited'
<1>1. \A k \in Clusters : attempt[k].for \in Handlers \cup {"user"}
  BY DEF IInv, TypeOK, Attempt
<1> QED
  BY <1>1 DEF IInv, Awaited

-----------------------------------------------------------------------------
(* Notifications and their handlers *)

\* Every step of a goroutine that handles a notification keeps the types.
LEMMA HandleTypes ==
  ASSUME TypeOK, NEW h \in Handlers, Handle(h)
  PROVE  TypeOK'
<1>0. /\ handler \in [Handlers -> Handler]
      /\ attempt \in [Clusters -> Attempt]
      /\ ref \in [Clusters -> Ref]
      /\ cache \in [Ref -> Answer]
      /\ handler[h].p \in Profiles
      /\ handler[h].todo \in SUBSET Clusters /\ handler[h].on \in Clusters
      /\ handler[h].seen \in [Clusters -> Ref]
      /\ handler[h].step \in {"idle", "forget", "listing", "reconciling",
           "adopting", "clearing", "forgetting", "act", "scan", "retrying",
           "awaiting", "suspending", "landing"}
  BY DEF TypeOK, Handler
<1>1. \A rs : Forget(rs) \in [Ref -> Answer]
  BY <1>0, Shapes DEF Forget
<1>2. ASSUME NEW s \in {"idle", "forget", "listing", "reconciling", "adopting",
                        "clearing", "forgetting", "act", "scan", "retrying",
                        "awaiting", "suspending", "landing"},
             Step(h, s)
      PROVE  handler' \in [Handlers -> Handler]
  BY <1>0, <1>2 DEF Step, Handler
<1>3. CASE ForgetProfile(h) \/ ForgetAdopted(h)
  BY <1>1, <1>2, <1>3 DEF ForgetProfile, ForgetAdopted, TypeOK, world, peer,
                          sessions, launching, coordinator
<1>4. CASE ListProfiles(h) \/ EndReconcile(h)
          \/ \E k \in Clusters : Consider(h, k)
  <2>1. ASSUME Step(h, "act") PROVE handler' \in [Handlers -> Handler]
    BY <1>2, <2>1
  <2>2. ASSUME ListProfiles(h), ~Step(h, "act")
        PROVE  handler' \in [Handlers -> Handler]
    <3> DEFINE todo == {k \in Clusters : ref[k] # Id(handler[h].p)}
    <3>1. handler' = [handler EXCEPT ![h] =
            [handler[h] EXCEPT !.step = "reconciling", !.todo = todo,
                               !.on = handler[h].on, !.seen = ref]]
      BY <1>0, <2>2 DEF ListProfiles, Handler
    <3>2. todo \in SUBSET Clusters
      OBVIOUS
    <3> HIDE DEF todo
    <3> QED
      BY <1>0, <3>1, <3>2, SeesTo
  <2>3. ASSUME EndReconcile(h) PROVE handler' \in [Handlers -> Handler]
    <3>1. [handler[h] EXCEPT !.step = "act", !.seen = AnyHandler.seen] \in Handler
      BY <1>0, Shapes DEF Handler
    <3>2. handler' = [handler EXCEPT ![h] =
            [handler[h] EXCEPT !.step = "act", !.seen = AnyHandler.seen]]
      BY <2>3 DEF EndReconcile
    <3> QED
      BY <1>0, <3>1, <3>2
  <2>4. ASSUME NEW k \in Clusters, Consider(h, k)
        PROVE  handler' \in [Handlers -> Handler]
    <3> DEFINE step == IF Adopts(h, handler[h].seen[k]) THEN "adopting"
                                                        ELSE "reconciling"
    <3>1. handler' = [handler EXCEPT ![h] =
            [handler[h] EXCEPT !.step = step, !.todo = handler[h].todo \ {k},
                               !.on = k, !.seen = handler[h].seen]]
      BY <1>0, <2>4 DEF Consider, Handler
    <3>2. step \in {"reconciling", "adopting"}
      OBVIOUS
    <3> HIDE DEF step
    <3> QED
      BY <1>0, <3>1, <3>2, SeesTo
  <2>5. handler' \in [Handlers -> Handler]
    BY <1>4, <2>1, <2>2, <2>3, <2>4
  <2> QED
    BY <1>4, <2>5 DEF ListProfiles, EndReconcile, Consider, TypeOK, world, peer,
                      sessions, launching, coordinator
<1>14. CASE AdoptSeen(h)
  <2>1. handler' \in [Handlers -> Handler]
    BY <1>2, <1>14 DEF AdoptSeen
  <2>2. ref' \in [Clusters -> Ref]
    BY <1>0, <1>14, Shapes DEF AdoptSeen, Adopt
  <2> QED
    BY <1>14, <2>1, <2>2
       DEF AdoptSeen, TypeOK, world, peer, sessions, launching, coordinator
<1>15. CASE ClearLaunched(h)
  <2>1. handler' \in [Handlers -> Handler]
    BY <1>2, <1>15 DEF ClearLaunched
  <2> QED
    BY <1>15, <2>1 DEF ClearLaunched, TypeOK, world, peer, sessions, launching
<1>5. CASE BeginRetry(h)
  <2>1. handler' \in [Handlers -> Handler]
    BY <1>0, <1>2, <1>5, Shapes DEF BeginRetry
  <2>2. retrying' \subseteq Profiles
    BY <1>0, <1>5 DEF BeginRetry, TypeOK
  <2> QED
    BY <1>5, <2>1, <2>2 DEF BeginRetry, TypeOK, world, peer, sessions, launching
<1>6. CASE ScanWaiting(h)
  <2>1. WaitingOn(handler[h].p) \in SUBSET Clusters
    BY DEF WaitingOn
  <2>2. handler' = [handler EXCEPT ![h] =
          [handler[h] EXCEPT !.step = "retrying", !.todo = WaitingOn(handler[h].p),
                             !.on = handler[h].on, !.seen = handler[h].seen]]
    BY <1>0, <1>6 DEF ScanWaiting, Handler
  <2>3. handler' \in [Handlers -> Handler]
    BY <1>0, <2>1, <2>2, SeesTo
  <2> QED
    BY <1>6, <2>3
       DEF ScanWaiting, TypeOK, world, peer, sessions, launching, coordinator
<1>7. CASE EndRetry(h)
  <2>1. handler' \in [Handlers -> Handler]
    BY <1>0, <1>7, Shapes DEF EndRetry
  <2>2. retrying' \subseteq Profiles
    BY <1>7 DEF EndRetry, TypeOK
  <2> QED
    BY <1>7, <2>1, <2>2 DEF EndRetry, TypeOK, world, peer, launching, sessions
<1>8. ASSUME NEW k \in Clusters, RetrySkips(h, k) PROVE TypeOK'
  <2>0. handler' = [handler EXCEPT ![h] =
          [handler[h] EXCEPT !.step = "retrying", !.todo = handler[h].todo \ {k},
                             !.on = handler[h].on, !.seen = handler[h].seen]]
    BY <1>0, <1>8 DEF RetrySkips, Handler
  <2>1. handler' \in [Handlers -> Handler]
    BY <1>0, <2>0, SeesTo
  <2> QED
    BY <1>8, <2>1 DEF RetrySkips, TypeOK, world, peer, launching, sessions, coordinator
<1>9. ASSUME NEW k \in Clusters, RetryConnects(h, k) PROVE TypeOK'
  <2>0. handler' = [handler EXCEPT ![h] =
          [handler[h] EXCEPT !.step = "awaiting", !.todo = handler[h].todo \ {k},
                             !.on = handler[h].on, !.seen = handler[h].seen]]
    BY <1>0, <1>9 DEF RetryConnects, Handler
  <2>1. handler' \in [Handlers -> Handler]
    BY <1>0, <2>0, SeesTo
  <2>2. [step |-> "asking", ref |-> ref[k], heard |-> NoAnswer, for |-> h]
          \in Attempt
    BY <1>0, Shapes DEF Attempt
  <2>3. attempt' \in [Clusters -> Attempt] /\ state' \in [Clusters -> State]
    BY <1>0, <1>9, <2>2 DEF RetryConnects, Begin, TypeOK, State
  <2> QED
    BY <1>9, <2>1, <2>3 DEF RetryConnects, TypeOK, world, peer, launching, coordinator
<1>10. ASSUME NEW k \in Clusters, Suspend(h, k) PROVE TypeOK'
  <2>0. CASE state[k] = "connected" /\ tunnel[k]
    <3>1. handler' = [handler EXCEPT ![h] =
            [handler[h] EXCEPT !.step = "landing", !.todo = handler[h].todo \ {k},
                               !.on = k, !.seen = handler[h].seen]]
      <4>1. handler' = [handler EXCEPT
              ![h].todo = @ \ {k}, ![h].on = k, ![h].step = "landing"]
        BY <1>10, <2>0 DEF Suspend
      <4>2. [[[handler[h] EXCEPT !.todo = @ \ {k}] EXCEPT !.on = k]
               EXCEPT !.step = "landing"]
            = [handler[h] EXCEPT !.step = "landing", !.todo = handler[h].todo \ {k},
                                 !.on = k, !.seen = handler[h].seen]
        <5>1. handler[h] \in Handler
          BY <1>0
        <5> QED
          BY <5>1 DEF Handler
      <4> QED
        BY <1>0, <4>1, <4>2
    <3>2. handler' \in [Handlers -> Handler]
      BY <1>0, <3>1, SeesTo
    <3>3. state' \in [Clusters -> State] /\ tunnel' \in [Clusters -> BOOLEAN]
      BY <1>10, <2>0 DEF Suspend, TypeOK, State
    <3> QED
      BY <1>10, <2>0, <3>2, <3>3
         DEF Suspend, TypeOK, world, peer, launching, coordinator
  <2>1. CASE ~(state[k] = "connected" /\ tunnel[k])
    <3>1. handler' = [handler EXCEPT ![h] =
            [handler[h] EXCEPT !.step = "suspending", !.todo = handler[h].todo \ {k},
                               !.on = handler[h].on, !.seen = handler[h].seen]]
      BY <1>0, <1>10, <2>1 DEF Suspend, Handler
    <3>2. handler' \in [Handlers -> Handler]
      BY <1>0, <3>1, SeesTo
    <3> QED
      BY <1>10, <2>1, <3>2
         DEF Suspend, TypeOK, sessions, world, peer, launching, coordinator
  <2> QED
    BY <2>0, <2>1
<1>11. CASE HandleDown(h)
  <2>1. UsesProfile(handler[h].p) \in SUBSET Clusters
    BY DEF UsesProfile
  <2>2. handler' = [handler EXCEPT ![h] =
          [handler[h] EXCEPT !.step = "suspending",
                             !.todo = UsesProfile(handler[h].p),
                             !.on = handler[h].on, !.seen = handler[h].seen]]
    BY <1>0, <1>11 DEF HandleDown, Handler
  <2>3. handler' \in [Handlers -> Handler]
    BY <1>0, <2>1, <2>2, SeesTo
  <2> QED
    BY <1>11, <2>3
       DEF HandleDown, TypeOK, world, peer, sessions, launching, coordinator
<1>12. CASE LandWaiting(h)
  <2>1. state' \in [Clusters -> State]
    BY <1>0, <1>12 DEF LandWaiting, TypeOK, State
  <2> QED
    BY <1>2, <1>12, <2>1 DEF LandWaiting, TypeOK, world, peer, launching, coordinator
<1>13. CASE EndDown(h)
  <2>1. handler' \in [Handlers -> Handler]
    BY <1>0, <1>13, Shapes DEF EndDown
  <2> QED
    BY <1>13, <2>1 DEF EndDown, TypeOK, world, peer, launching, sessions, coordinator
<1> QED
  BY <1>3, <1>4, <1>5, <1>6, <1>7, <1>8, <1>9, <1>10, <1>11, <1>12, <1>13,
     <1>14, <1>15 DEF Handle

\* The guard of a retry is set by the handler that begins it and given back by
\* the one that ends it; every other step leaves it to its retry.
LEMMA HandleRetries ==
  ASSUME IInv, NEW h \in Handlers, Handle(h)
  PROVE  Awaited' /\ OneRetry'
<1>0. /\ handler \in [Handlers -> Handler]
      /\ attempt \in [Clusters -> Attempt]
      /\ handler[h].p \in Profiles
  BY DEF IInv, TypeOK, Handler
<1>1. handler' \in [Handlers -> Handler]
  BY HandleTypes DEF IInv, TypeOK
<1>2. \A g \in Handlers \ {h} : handler'[g] = handler[g]
  BY <1>0 DEF Handle, ForgetProfile, ListProfiles, Consider, AdoptSeen,
     ClearLaunched, ForgetAdopted, EndReconcile, BeginRetry, ScanWaiting,
     EndRetry, RetrySkips, RetryConnects, Suspend, HandleDown, LandWaiting,
     EndDown, Step
<1>3. CASE \/ ForgetProfile(h) \/ ListProfiles(h) \/ AdoptSeen(h)
           \/ ClearLaunched(h) \/ ForgetAdopted(h) \/ EndReconcile(h)
           \/ HandleDown(h) \/ LandWaiting(h) \/ EndDown(h)
           \/ \E k \in Clusters : Consider(h, k) \/ Suspend(h, k)
  <2>1. attempt' = attempt /\ retrying' = retrying
    BY <1>3 DEF ForgetProfile, ListProfiles, Consider, AdoptSeen, ClearLaunched,
       ForgetAdopted, EndReconcile, HandleDown, LandWaiting, EndDown, Suspend,
       coordinator
  <2>2. /\ handler[h].step \notin {"scan", "retrying", "awaiting"}
        /\ handler'[h].step \notin {"scan", "retrying", "awaiting"}
    <3>0. \A s : Step(h, s) => handler'[h].step = s
      BY <1>0 DEF Step, Handler
    <3>1. CASE \/ ForgetProfile(h) \/ LandWaiting(h) \/ AdoptSeen(h)
               \/ ClearLaunched(h) \/ ForgetAdopted(h)
      BY <3>0, <3>1 DEF ForgetProfile, LandWaiting, AdoptSeen, ClearLaunched,
                        ForgetAdopted
    <3>2. CASE HandleDown(h) \/ EndReconcile(h) \/ ListProfiles(h)
      BY <1>0, <3>0, <3>2 DEF HandleDown, EndReconcile, ListProfiles, Handler
    <3>3. CASE EndDown(h)
      BY <1>0, <3>3, Shapes DEF EndDown
    <3>4. CASE \E k \in Clusters : Suspend(h, k)
      BY <1>0, <3>4 DEF Suspend, Handler
    <3>5. CASE \E k \in Clusters : Consider(h, k)
      BY <1>0, <3>5 DEF Consider, Handler
    <3> QED
      BY <1>3, <3>1, <3>2, <3>3, <3>4, <3>5
  <2> QED
    BY <1>1, <1>2, <2>1, <2>2, OutsideRetries
<1>4. CASE BeginRetry(h)
  <2>1. /\ handler[h].step = "act"
        /\ handler[h].p \in retrying => handler'[h].step = "idle"
        /\ handler[h].p \notin retrying =>
             handler'[h].step = "scan" /\ handler'[h].p = handler[h].p
        /\ retrying' = retrying \cup {handler[h].p}
        /\ attempt' = attempt
    BY <1>0, <1>4, Shapes DEF BeginRetry, Step, Handler
  <2>2. \A k \in Clusters :
          /\ attempt'[k].for = attempt[k].for
          /\ attempt'[k].step = "none" <=> attempt[k].step = "none"
    BY <2>1
  <2>3. \A g \in Handlers : handler[g].step = "awaiting" =>
                              handler'[g].step = "awaiting"
    BY <1>2, <2>1
  <2>4. Awaited'
    BY <2>2, <2>3, SameAttempts
  <2>5. CASE handler[h].p \in retrying
    <3>1. \A g \in Handlers, p \in Profiles : Retrier(g, p)' <=> Retrier(g, p)
      BY <1>2, <2>1, <2>5 DEF Retrier
    <3>2. retrying' = retrying
      BY <2>1, <2>5
    <3> QED
      BY <2>4, <3>1, <3>2 DEF IInv, OneRetry
  <2>6. CASE handler[h].p \notin retrying
    <3>1. \A g \in Handlers : ~Retrier(g, handler[h].p)
      BY <1>0, <2>6 DEF IInv, OneRetry
    <3>2. \A g \in Handlers, p \in Profiles :
            Retrier(g, p)' <=> Retrier(g, p) \/ (g = h /\ p = handler[h].p)
      BY <1>2, <2>1, <2>6 DEF Retrier
    <3> QED
      BY <1>0, <2>1, <2>4, <3>1, <3>2 DEF IInv, OneRetry
  <2> QED
    BY <2>5, <2>6
<1>5. CASE EndRetry(h)
  <2>1. /\ handler'[h].step = "idle"
        /\ handler[h].step = "retrying"
        /\ retrying' = retrying \ {handler[h].p}
        /\ attempt' = attempt
    BY <1>0, <1>5, Shapes DEF EndRetry
  <2>2. \A k \in Clusters :
          /\ attempt'[k].for = attempt[k].for
          /\ attempt'[k].step = "none" <=> attempt[k].step = "none"
    BY <2>1
  <2>3. \A g \in Handlers : handler[g].step = "awaiting" =>
                              handler'[g].step = "awaiting"
    BY <1>2, <2>1
  <2>4. Awaited'
    BY <2>2, <2>3, SameAttempts
  <2>5. \A g \in Handlers, p \in Profiles :
          Retrier(g, p)' <=> Retrier(g, p) /\ g # h
    BY <1>2, <2>1 DEF Retrier
  <2>6. Retrier(h, handler[h].p)
    BY <2>1 DEF Retrier
  <2> QED
    BY <1>0, <2>1, <2>4, <2>5, <2>6 DEF IInv, OneRetry, Retrier
<1>6. CASE ScanWaiting(h) \/ \E k \in Clusters : RetrySkips(h, k)
  <2>1. /\ handler[h].step \in {"scan", "retrying"}
        /\ handler'[h].step \in {"scan", "retrying"}
        /\ handler'[h].p = handler[h].p
        /\ retrying' = retrying /\ attempt' = attempt
    BY <1>0, <1>6 DEF ScanWaiting, RetrySkips, coordinator, Handler
  <2>2. \A g \in Handlers : handler[g].step = "awaiting" =>
                              handler'[g].step = "awaiting"
    BY <1>2, <2>1
  <2>3. \A k \in Clusters :
          /\ attempt'[k].for = attempt[k].for
          /\ attempt'[k].step = "none" <=> attempt[k].step = "none"
    BY <2>1
  <2>4. Awaited'
    BY <2>2, <2>3, SameAttempts
  <2> QED
    BY <1>2, <2>1, <2>4, WithinRetry
<1>7. ASSUME NEW k \in Clusters, RetryConnects(h, k) PROVE Awaited' /\ OneRetry'
  <2>1. /\ handler[h].step = "retrying"
        /\ handler'[h].step = "awaiting"
        /\ handler'[h].p = handler[h].p
        /\ retrying' = retrying
    BY <1>0, <1>7 DEF RetryConnects, coordinator, Handler
  <2>2. /\ attempt[k].step = "none"
        /\ attempt'[k].for = h
        /\ \A j \in Clusters \ {k} : attempt'[j] = attempt[j]
    BY <1>0, <1>7 DEF RetryConnects, Begin
  <2>3. \A j \in Clusters : attempt[j].for \in Handlers \cup {"user"}
    BY <1>0 DEF Attempt
  <2>4. \A j \in Clusters \ {k} :
          attempt[j].step # "none" /\ attempt[j].for # "user" =>
            /\ handler[attempt[j].for].step = "awaiting"
            /\ attempt[j].for # h
    BY <2>1 DEF IInv, Awaited
  <2>5. Awaited'
    BY <1>2, <2>1, <2>2, <2>3, <2>4 DEF IInv, Awaited
  <2> QED
    BY <1>2, <2>1, <2>5, WithinRetry
<1> QED
  BY <1>3, <1>4, <1>5, <1>6, <1>7 DEF Handle

-----------------------------------------------------------------------------
(* Attempts and the environment *)

\* Every step of an attempt keeps the types.
LEMMA AttendTypes ==
  ASSUME TypeOK, NEW k \in Clusters, Attend(k)
  PROVE  TypeOK'
<1>0. /\ handler \in [Handlers -> Handler]
      /\ attempt \in [Clusters -> Attempt]
      /\ attempt[k].ref \in Ref
      /\ attempt[k].heard \in Answer
      /\ attempt[k].for \in Handlers \cup {"user"}
      /\ cache \in [Ref -> Answer]
  BY DEF TypeOK, Attempt
<1>1. CASE AskFails(k)
  <2>1. attempt' \in [Clusters -> Attempt]
    BY <1>0, <1>1 DEF AskFails, Attempt
  <2> QED
    BY <1>1, <2>1 DEF AskFails, TypeOK, world, peer, launching, sessions, coordinator
<1>2. CASE AskStatus(k)
  <2> DEFINE r == attempt[k].ref
             known == cache[r] # NoAnswer \/ r \notin Remembered
             heard == IF cache[r] # NoAnswer THEN cache[r] ELSE Truth(r)
             step == IF known THEN "dialling" ELSE "caching"
  <2>1. heard \in Answer
    BY <1>0, TruthIsAnswer
  <2>2. attempt' = [attempt EXCEPT ![k].heard = heard, ![k].step = step]
    BY <1>2 DEF AskStatus
  <2>3. step \in {"dialling", "caching"}
    OBVIOUS
  <2> HIDE DEF heard, step, r, known
  <2>4. attempt' = [attempt EXCEPT ![k].step = step, ![k].heard = heard]
    BY <1>0, <2>2 DEF Attempt
  <2>5. attempt' \in [Clusters -> Attempt]
    BY <1>0, <2>1, <2>3, <2>4, MovesOn
  <2> QED
    BY <1>2, <2>5 DEF AskStatus, TypeOK, world, peer, launching, sessions, coordinator
<1>3. CASE CacheStatus(k)
  <2>1. attempt' \in [Clusters -> Attempt]
    BY <1>0, <1>3 DEF CacheStatus, Attempt
  <2>2. cache' \in [Ref -> Answer]
    BY <1>0, <1>3 DEF CacheStatus
  <2> QED
    BY <1>3, <2>1, <2>2 DEF CacheStatus, TypeOK, world, peer, launching, sessions, coordinator
<1>4. CASE DialAnswers(k)
  <2>1. attempt' \in [Clusters -> Attempt]
    BY <1>0, <1>4, AttemptLands DEF DialAnswers
  <2>2. state' \in [Clusters -> State] /\ tunnel' \in [Clusters -> BOOLEAN]
    BY <1>4 DEF DialAnswers, TypeOK, State
  <2> QED
    BY <1>4, <2>1, <2>2 DEF DialAnswers, TypeOK, world, peer, launching, coordinator
<1>5. CASE DialFails(k)
  <2>1. attempt' \in [Clusters -> Attempt]
    BY <1>0, <1>5, AttemptLands DEF DialFails
  <2>2. state' \in [Clusters -> State]
    BY <1>5 DEF DialFails, TypeOK, State
  <2> QED
    BY <1>5, <2>1, <2>2 DEF DialFails, TypeOK, world, peer, launching, coordinator
<1>6. CASE ReleaseAttempt(k)
  <2>2. attempt' \in [Clusters -> Attempt]
    BY <1>0, <1>6, Shapes DEF ReleaseAttempt
  <2>3. ASSUME NEW h \in Handlers, handler' = [handler EXCEPT ![h].step = "retrying"]
        PROVE  handler' \in [Handlers -> Handler]
    <3>1. handler' = [handler EXCEPT ![h] =
            [handler[h] EXCEPT !.step = "retrying", !.todo = handler[h].todo,
                               !.on = handler[h].on, !.seen = handler[h].seen]]
      BY <1>0, <2>3 DEF Handler
    <3>2. /\ handler[h].todo \in SUBSET Clusters /\ handler[h].on \in Clusters
          /\ handler[h].seen \in [Clusters -> Ref]
      BY <1>0 DEF Handler
    <3> QED
      BY <1>0, <3>1, <3>2, SeesTo
  <2>4. handler' \in [Handlers -> Handler]
    BY <1>0, <1>6, <2>3 DEF ReleaseAttempt
  <2> QED
    BY <1>6, <2>2, <2>4
       DEF ReleaseAttempt, TypeOK, world, peer, launching, sessions, coordinator
<1> QED
  BY <1>1, <1>2, <1>3, <1>4, <1>5, <1>6 DEF Attend

\* An attempt wakes the handler that began it and no other.
LEMMA AttendRetries ==
  ASSUME IInv, NEW k \in Clusters, Attend(k)
  PROVE  Awaited' /\ OneRetry'
<1>0. /\ handler \in [Handlers -> Handler]
      /\ attempt \in [Clusters -> Attempt]
      /\ attempt[k].for \in Handlers \cup {"user"}
  BY DEF IInv, TypeOK, Attempt
<1>1. CASE \/ AskFails(k) \/ AskStatus(k) \/ CacheStatus(k)
           \/ DialAnswers(k) \/ DialFails(k)
  <2>1. handler' = handler /\ retrying' = retrying
    BY <1>1 DEF AskFails, AskStatus, CacheStatus, DialAnswers, DialFails,
                coordinator
  <2>2. \A j \in Clusters :
          /\ attempt'[j].for = attempt[j].for
          /\ attempt'[j].step = "none" <=> attempt[j].step = "none"
    <3>1. CASE AskFails(k) \/ AskStatus(k) \/ CacheStatus(k)
      BY <1>0, <3>1 DEF AskFails, AskStatus, CacheStatus, Attempt
    <3>2. CASE DialAnswers(k) \/ DialFails(k)
      BY <3>2, AttemptLands DEF DialAnswers, DialFails, IInv, TypeOK
    <3> QED
      BY <1>1, <3>1, <3>2
  <2>3. Awaited'
    BY <2>1, <2>2, SameAttempts
  <2> QED
    BY <2>1, <2>3 DEF IInv, OneRetry, Retrier
<1>2. CASE ReleaseAttempt(k)
  <2> DEFINE h == attempt[k].for
  <2>1. /\ attempt'[k].step = "none"
        /\ attempt[k].step = "releasing"
        /\ \A j \in Clusters \ {k} : attempt'[j] = attempt[j]
        /\ retrying' = retrying
    BY <1>0, <1>2 DEF ReleaseAttempt, coordinator, NoAttempt
  <2>2. CASE h = "user"
    <3>1. handler' = handler
      BY <1>2, <2>2 DEF ReleaseAttempt
    <3> QED
      BY <2>1, <3>1 DEF IInv, Awaited, OneRetry, Retrier
  <2>3. CASE h # "user"
    <3>1. /\ h \in Handlers
          /\ handler' = [handler EXCEPT ![h].step = "retrying"]
      BY <1>0, <1>2, <2>3 DEF ReleaseAttempt
    <3>2. /\ handler[h].step = "awaiting"
          /\ \A j \in Clusters \ {k} : attempt[j].step # "none" =>
                                         attempt[j].for # h
      BY <2>1, <2>3 DEF IInv, Awaited
    <3>3. /\ handler'[h].step = "retrying" /\ handler'[h].p = handler[h].p
          /\ \A g \in Handlers \ {h} : handler'[g] = handler[g]
      BY <1>0, <3>1 DEF Handler
    <3>4. \A j \in Clusters : attempt[j].for \in Handlers \cup {"user"}
      BY <1>0 DEF Attempt
    <3> HIDE DEF h
    <3>5. Awaited'
      BY <2>1, <3>2, <3>3, <3>4 DEF IInv, Awaited
    <3>6. OneRetry'
      BY <2>1, <3>1, <3>2, <3>3, WithinRetry
    <3> QED
      BY <3>5, <3>6
  <2> QED
    BY <2>2, <2>3
<1> QED
  BY <1>1, <1>2 DEF Attend

\* Neither Biebie Access nor the engineer touches a retry.
LEMMA EnvironmentRetries ==
  ASSUME IInv, Environment
  PROVE  TypeOK' /\ Awaited' /\ OneRetry'
<1>0. /\ handler \in [Handlers -> Handler]
      /\ attempt \in [Clusters -> Attempt]
      /\ ref \in [Clusters -> Ref]
      /\ cache \in [Ref -> Answer]
      /\ call \in [Clusters -> Call]
      /\ TypeOK
  BY DEF IInv, TypeOK
<1>1. \A rs : Forget(rs) \in [Ref -> Answer]
  BY <1>0, Shapes DEF Forget
<1>2. ASSUME handler' = handler, attempt' = attempt, retrying' = retrying
      PROVE  Awaited' /\ OneRetry'
  BY <1>2 DEF IInv, Awaited, OneRetry, Retrier
<1>3. CASE AccessStarts
  BY <1>0, <1>2, <1>3 DEF AccessStarts, TypeOK, launching, sessions, coordinator
<1>4. ASSUME NEW p \in Profiles, NEW now \in BOOLEAN, Notify(p, now)
      PROVE  TypeOK' /\ Awaited' /\ OneRetry'
  <2> DEFINE h == CHOOSE h \in Idle : TRUE
             told == [AnyHandler EXCEPT !.step = "forget", !.p = p, !.up = now]
  <2>1. events + 1 \in 0 .. MaxEvents
    BY <1>0, <1>4 DEF Notify, TypeOK
  <2>2. told \in Handler /\ told.step = "forget"
    BY Shapes DEF Handler
  <2>3. handler' = [handler EXCEPT ![h] = told]
    BY <1>4 DEF Notify
  <2>4. h \in Idle
    BY <1>4 DEF Notify
  <2> HIDE DEF told, h
  <2>5. h \in Handlers /\ handler[h].step = "idle"
    BY <2>4 DEF Idle
  <2>6. /\ handler' \in [Handlers -> Handler]
        /\ handler'[h].step = "forget"
        /\ \A g \in Handlers \ {h} : handler'[g] = handler[g]
    BY <1>0, <2>2, <2>3, <2>5
  <2>7. Awaited' /\ OneRetry'
    BY <1>4, <2>5, <2>6, OutsideRetries DEF Notify, coordinator
  <2>8. TypeOK'
    BY <1>0, <1>4, <2>1, <2>6
       DEF Notify, TypeOK, sessions, launching, coordinator
  <2> QED
    BY <2>7, <2>8
<1>9. clicks' \in 0 .. MaxClicks \/ ~Click
  BY <1>0 DEF Click, TypeOK
<1>5. ASSUME NEW k \in Clusters, UserConnects(k)
      PROVE  TypeOK' /\ Awaited' /\ OneRetry'
  <2>1. [step |-> "asking", ref |-> ref[k], heard |-> NoAnswer, for |-> "user"]
          \in Attempt
    BY <1>0, Shapes DEF Attempt
  <2>2. attempt' \in [Clusters -> Attempt] /\ state' \in [Clusters -> State]
    BY <1>0, <1>5, <2>1 DEF UserConnects, Begin, TypeOK, State
  <2>3. TypeOK'
    BY <1>0, <1>5, <1>9, <2>2
       DEF UserConnects, TypeOK, peer, launching, coordinator
  <2>4. /\ attempt'[k].for = "user"
        /\ \A j \in Clusters \ {k} : attempt'[j] = attempt[j]
        /\ handler' = handler /\ retrying' = retrying
    BY <1>0, <1>5 DEF UserConnects, Begin, coordinator
  <2>5. Awaited' /\ OneRetry'
    BY <2>4 DEF IInv, Awaited, OneRetry, Retrier
  <2> QED
    BY <2>3, <2>5
<1>6. ASSUME NEW k \in Clusters, UserDisconnects(k)
      PROVE  TypeOK' /\ Awaited' /\ OneRetry'
  <2>1. state' \in [Clusters -> State] /\ tunnel' \in [Clusters -> BOOLEAN]
    BY <1>0, <1>6 DEF UserDisconnects, TypeOK, State
  <2>2. TypeOK'
    BY <1>0, <1>6, <1>9, <2>1
       DEF UserDisconnects, TypeOK, peer, launching, coordinator
  <2> QED
    BY <1>2, <1>6, <2>2 DEF UserDisconnects, coordinator
<1>7. ASSUME NEW k \in Clusters, AccessAccepts(k)
      PROVE  TypeOK' /\ Awaited' /\ OneRetry'
  <2>1. [step |-> "adopting", ref |-> ref[k]] \in Call
    BY <1>0 DEF Call
  <2>2. call' \in [Clusters -> Call]
    BY <1>0, <1>7, <2>1 DEF AccessAccepts
  <2>3. cache' \in [Ref -> Answer]
    BY <1>1, <1>7 DEF AccessAccepts
  <2>4. TypeOK'
    BY <1>0, <1>7, <1>9, <2>2, <2>3
       DEF AccessAccepts, TypeOK, peer, sessions, coordinator
  <2> QED
    BY <1>2, <1>7, <2>4 DEF AccessAccepts, coordinator
<1>8. ASSUME NEW k \in Clusters, AdoptResolved(k)
      PROVE  TypeOK' /\ Awaited' /\ OneRetry'
  <2>1. call[k].ref.of \in Profiles
    BY <1>0 DEF Call, Ref
  <2>2. ref' \in [Clusters -> Ref] /\ call' \in [Clusters -> Call]
    BY <1>0, <1>8, <2>1, Shapes DEF AdoptResolved, Adopt
  <2>3. TypeOK'
    BY <1>0, <1>8, <2>2
       DEF AdoptResolved, TypeOK, world, peer, sessions, coordinator
  <2> QED
    BY <1>2, <1>8, <2>3 DEF AdoptResolved, coordinator
<1>10. ASSUME NEW k \in Clusters, LaunchAccess(k)
       PROVE  TypeOK' /\ Awaited' /\ OneRetry'
  <2>1. [step |-> "noting", ref |-> ref[k]] \in Call /\ ref[k] \in Ref
    BY <1>0 DEF Call
  <2>2. call' \in [Clusters -> Call] /\ handed' \subseteq Ref
    BY <1>0, <1>10, <2>1 DEF LaunchAccess, TypeOK
  <2>3. TypeOK'
    BY <1>0, <1>9, <1>10, <2>2
       DEF LaunchAccess, TypeOK, peer, sessions, coordinator
  <2> QED
    BY <1>2, <1>10, <2>3 DEF LaunchAccess, coordinator
<1>11. ASSUME NEW k \in Clusters, NoteLaunched(k)
       PROVE  TypeOK' /\ Awaited' /\ OneRetry'
  <2>1. call' \in [Clusters -> Call] /\ launched' \subseteq Ref
    BY <1>0, <1>11, Shapes DEF NoteLaunched, TypeOK, Call
  <2>2. TypeOK'
    BY <1>0, <1>11, <2>1 DEF NoteLaunched, TypeOK, world, peer, sessions
  <2> QED
    BY <1>2, <1>11, <2>2 DEF NoteLaunched
<1>12. ASSUME NEW r \in Ref, GetAccessStatus(r) \/ Expire(r)
       PROVE  TypeOK' /\ Awaited' /\ OneRetry'
  <2>1. cache' \in [Ref -> Answer]
    BY <1>0, <1>1, <1>12, TruthIsAnswer DEF GetAccessStatus, Expire
  <2>2. TypeOK'
    BY <1>0, <1>12, <2>1 DEF GetAccessStatus, Expire, TypeOK, world, peer,
                             sessions, launching, coordinator
  <2> QED
    BY <1>2, <1>12, <2>2 DEF GetAccessStatus, Expire, coordinator
<1> QED
  BY <1>3, <1>4, <1>5, <1>6, <1>7, <1>8, <1>10, <1>11, <1>12 DEF Environment

-----------------------------------------------------------------------------
(* Where a rewritten reference comes from *)

\* A handler that takes a step, and does not begin to adopt, leaves what was
\* handed to deep links, and where everybody's references come from.
LEMMA SameTraces ==
  ASSUME IInv, NEW h \in Handlers,
         handler' \in [Handlers -> Handler],
         \A g \in Handlers \ {h} : handler'[g] = handler[g],
         handler'[h].step # "adopting",
         call' = call, handed' = handed, launched' \subseteq launched
  PROVE  Traceable'
  BY DEF IInv, Traceable, Seen

\* What a goroutine that handles a notification is about to adopt is the name
\* of its connection, or launched, and so handed, when it looks.
LEMMA HandleTraces ==
  ASSUME IInv, NEW h \in Handlers, Handle(h)
  PROVE  Traceable'
<1>0. /\ handler \in [Handlers -> Handler]
      /\ handler' \in [Handlers -> Handler]
  BY HandleTypes DEF IInv, TypeOK
<1>1. call' = call /\ handed' = handed /\ launched' \subseteq launched
  BY DEF Handle, ForgetProfile, ListProfiles, Consider, AdoptSeen,
     ClearLaunched, ForgetAdopted, EndReconcile, BeginRetry, ScanWaiting,
     EndRetry, RetrySkips, RetryConnects, Suspend, HandleDown, LandWaiting,
     EndDown, launching, coordinator
<1>2. \A g \in Handlers \ {h} : handler'[g] = handler[g]
  BY <1>0 DEF Handle, ForgetProfile, ListProfiles, Consider, AdoptSeen,
     ClearLaunched, ForgetAdopted, EndReconcile, BeginRetry, ScanWaiting,
     EndRetry, RetrySkips, RetryConnects, Suspend, HandleDown, LandWaiting,
     EndDown, Step
<1>3. CASE handler'[h].step # "adopting"
  BY <1>0, <1>1, <1>2, <1>3, SameTraces
<1>4. CASE handler'[h].step = "adopting"
  <2>0. \A s : Step(h, s) => handler'[h].step = s
    BY <1>0 DEF Step, Handler
  <2>1. PICK k \in Clusters : Consider(h, k)
    <3>1. ~(ForgetProfile(h) \/ LandWaiting(h) \/ AdoptSeen(h)
            \/ ClearLaunched(h) \/ ForgetAdopted(h))
      BY <1>4, <2>0 DEF ForgetProfile, LandWaiting, AdoptSeen, ClearLaunched,
                        ForgetAdopted
    <3>2. ~(HandleDown(h) \/ EndReconcile(h) \/ ListProfiles(h) \/ ScanWaiting(h))
      BY <1>0, <1>4, <2>0
         DEF HandleDown, EndReconcile, ListProfiles, ScanWaiting, Handler
    <3>3. ~(EndDown(h) \/ EndRetry(h) \/ BeginRetry(h))
      BY <1>0, <1>4, <2>0, Shapes DEF EndDown, EndRetry, BeginRetry
    <3>4. \A k \in Clusters :
            ~(Suspend(h, k) \/ RetrySkips(h, k) \/ RetryConnects(h, k))
      BY <1>0, <1>4 DEF Suspend, RetrySkips, RetryConnects, Handler
    <3> QED
      BY <3>1, <3>2, <3>3, <3>4 DEF Handle
  <2>2. /\ handler'[h].p = handler[h].p
        /\ Seen(h)' = handler[h].seen[k]
        /\ Adopts(h, handler[h].seen[k])
    BY <1>0, <1>4, <2>1 DEF Consider, Seen, Handler
  <2>3. Seen(h)' = Name(handler'[h].p) \/ Seen(h)' \in handed'
    BY <1>1, <2>2 DEF Adopts, IInv, Traceable
  <2>4. \A g \in Handlers \ {h} : Seen(g)' = Seen(g)
    BY <1>2 DEF Seen
  <2> QED
    BY <1>1, <1>2, <2>3, <2>4 DEF IInv, Traceable
<1> QED
  BY <1>3, <1>4

\* An attempt looks at no reference but its own and wakes no adoption.
LEMMA AttendTraces ==
  ASSUME IInv, NEW k \in Clusters, Attend(k)
  PROVE  Traceable'
<1>1. call' = call /\ handed' = handed /\ launched' = launched
  BY DEF Attend, AskFails, AskStatus, CacheStatus, DialAnswers, DialFails,
     ReleaseAttempt, launching, coordinator
<1>2. handler \in [Handlers -> Handler]
  BY DEF IInv, TypeOK
<1>3. \A h \in Handlers :
        handler'[h].step = "adopting" => handler'[h] = handler[h]
  BY <1>2 DEF Attend, AskFails, AskStatus, CacheStatus, DialAnswers, DialFails,
     ReleaseAttempt, Handler
<1> QED
  BY <1>1, <1>3 DEF IInv, Traceable, Seen

\* A launch is noted of a reference that was handed to it, and a call adopts for
\* a name what that name stands for.
LEMMA EnvironmentTraces ==
  ASSUME IInv, Environment
  PROVE  Traceable'
<1>0. /\ handler \in [Handlers -> Handler]
      /\ ref \in [Clusters -> Ref]
      /\ call \in [Clusters -> Call]
  BY DEF IInv, TypeOK
<1>1. CASE call' = call /\ handed' = handed /\ launched' = launched
           /\ handler' = handler
  BY <1>1 DEF IInv, Traceable, Seen
<1>2. ASSUME NEW p \in Profiles, NEW now \in BOOLEAN, Notify(p, now)
      PROVE  Traceable'
  <2> DEFINE h == CHOOSE h \in Idle : TRUE
             told == [AnyHandler EXCEPT !.step = "forget", !.p = p, !.up = now]
  <2>1. told \in Handler /\ told.step = "forget"
    BY Shapes DEF Handler
  <2>2. h \in Idle
    BY <1>2 DEF Notify
  <2>3. /\ handler' = [handler EXCEPT ![h] = told]
        /\ call' = call /\ handed' = handed /\ launched' = launched
    BY <1>2 DEF Notify, launching, coordinator
  <2> HIDE DEF told, h
  <2>4. h \in Handlers
    BY <2>2 DEF Idle
  <2>5. /\ handler' \in [Handlers -> Handler]
        /\ handler'[h].step = "forget"
        /\ \A g \in Handlers \ {h} : handler'[g] = handler[g]
    BY <1>0, <2>1, <2>3, <2>4
  <2> QED
    BY <2>3, <2>4, <2>5, SameTraces
<1>3. ASSUME NEW k \in Clusters, AccessAccepts(k) PROVE Traceable'
  <2> DEFINE next == [step |-> "adopting", ref |-> ref[k]]
  <2>1. ref[k] # Id(ref[k].of) => ref[k] = Name(ref[k].of)
    BY <1>0 DEF Ref, Id, Name
  <2>2. call' = call \/ (ref[k] # Id(ref[k].of) /\ call' = [call EXCEPT ![k] = next])
    BY <1>3 DEF AccessAccepts
  <2>3. \A j \in Clusters :
          \/ call'[j] = call[j]
          \/ call'[j].step = "adopting" /\ call'[j].ref = Name(call'[j].ref.of)
    BY <1>0, <2>1, <2>2
  <2>4. handed' = handed /\ launched' = launched /\ handler' = handler
    BY <1>3 DEF AccessAccepts, coordinator
  <2> QED
    BY <2>3, <2>4 DEF IInv, Traceable, Seen
<1>4. ASSUME NEW k \in Clusters, AdoptResolved(k) \/ NoteLaunched(k)
      PROVE  Traceable'
  <2>1. \A j \in Clusters : call'[j] = call[j] \/ call'[j].step = "none"
    BY <1>0, <1>4 DEF AdoptResolved, NoteLaunched, NoCall
  <2>2. handed' = handed /\ handler' = handler
    BY <1>4 DEF AdoptResolved, NoteLaunched
  <2>3. launched' \subseteq handed
    BY <1>4 DEF AdoptResolved, NoteLaunched, coordinator, IInv, Traceable
  <2> QED
    BY <2>1, <2>2, <2>3 DEF IInv, Traceable, Seen
<1>5. ASSUME NEW k \in Clusters, LaunchAccess(k) PROVE Traceable'
  <2>1. \A j \in Clusters :
          \/ call'[j] = call[j]
          \/ call'[j].step = "noting" /\ call'[j].ref \in handed'
    BY <1>0, <1>5 DEF LaunchAccess
  <2>2. handed \subseteq handed' /\ launched' = launched /\ handler' = handler
    BY <1>5 DEF LaunchAccess, coordinator
  <2> QED
    BY <2>1, <2>2 DEF IInv, Traceable, Seen
<1>6. CASE \/ AccessStarts
           \/ \E k \in Clusters : UserConnects(k) \/ UserDisconnects(k)
           \/ \E r \in Ref : GetAccessStatus(r) \/ Expire(r)
  BY <1>1, <1>6 DEF AccessStarts, UserConnects, UserDisconnects, Begin,
     GetAccessStatus, Expire, launching, coordinator
<1> QED
  BY <1>2, <1>3, <1>4, <1>5, <1>6 DEF Environment

\* Every step keeps the invariant.
LEMMA NextIInv == IInv /\ [Next]_vars => IInv'
<1>1. ASSUME IInv, NEW h \in Handlers, Handle(h) PROVE IInv'
  BY <1>1, HandleTypes, HandleRetries, HandleTraces DEF IInv
<1>2. ASSUME IInv, NEW k \in Clusters, Attend(k) PROVE IInv'
  BY <1>2, AttendTypes, AttendRetries, AttendTraces DEF IInv
<1>3. ASSUME IInv, Environment PROVE IInv'
  BY <1>3, EnvironmentRetries, EnvironmentTraces DEF IInv
<1>4. ASSUME IInv, UNCHANGED vars PROVE IInv'
  BY <1>4 DEF IInv, TypeOK, Awaited, OneRetry, Retrier, Traceable, Seen, vars
<1> QED
  BY <1>1, <1>2, <1>3, <1>4 DEF Next

-----------------------------------------------------------------------------
\* Every variable keeps its type, however notifications, attempts, calls and the
\* engineer interleave.
THEOREM TypeCorrect == Spec => []TypeOK
<1>1. IInv => TypeOK
  BY DEF IInv
<1> QED
  BY InitIInv, NextIInv, <1>1, PTL DEF Spec

\* For any number of clusters, connections and handlers, beginRetry and
\* endRetry (core_access.go) let one RetryWaiting run for a connection, and
\* the guard is set exactly as long as it runs.
THEOREM RetriesAreOne == Spec => []OneRetry
<1>1. IInv => OneRetry
  BY DEF IInv
<1> QED
  BY InitIInv, NextIInv, <1>1, PTL DEF Spec

\* What one step may do to a reference.
LEMMA NextAdopts ==
  ASSUME IInv, Next, NEW k \in Clusters, ref'[k] # ref[k]
  PROVE  LET r == ref[k]  p == ref'[k].of
         IN  /\ ref'[k] = Id(p)
             /\ \/ r = Name(p)
                \/ r \in handed /\ \E h \in Handlers :
                     handler[h].step = "adopting" /\ handler[h].p = p
<1>0. ref \in [Clusters -> Ref]
  BY DEF IInv, TypeOK
<1>1. ASSUME NEW h \in Handlers, AdoptSeen(h)
      PROVE  /\ ref'[k] = Id(handler[h].p)
             /\ ref[k] = Name(handler[h].p) \/ ref[k] \in handed
             /\ handler[h].step = "adopting"
  <2>1. ref'[k] = Id(handler[h].p) /\ ref[k] = Seen(h)
    BY <1>1 DEF AdoptSeen, Adopt
  <2> QED
    BY <1>1, <2>1 DEF AdoptSeen, IInv, Traceable
<1>2. ASSUME NEW j \in Clusters, AdoptResolved(j)
      PROVE  ref'[k] = Id(ref[k].of) /\ ref[k] = Name(ref[k].of)
  <2>1. ref'[k] = Id(call[j].ref.of) /\ ref[k] = call[j].ref
    BY <1>2 DEF AdoptResolved, Adopt
  <2> QED
    BY <1>2, <2>1 DEF AdoptResolved, IInv, Traceable
<1>3. ASSUME NEW h \in Handlers, Handle(h), ~AdoptSeen(h) PROVE ref' = ref
  BY <1>3 DEF Handle, ForgetProfile, ListProfiles, Consider, ClearLaunched,
     ForgetAdopted, EndReconcile, BeginRetry, ScanWaiting, EndRetry, RetrySkips,
     RetryConnects, Suspend, HandleDown, LandWaiting, EndDown
<1>4. ASSUME NEW j \in Clusters, Attend(j) PROVE ref' = ref
  BY <1>4 DEF Attend, AskFails, AskStatus, CacheStatus, DialAnswers, DialFails,
     ReleaseAttempt
<1>5. ASSUME Environment, \A j \in Clusters : ~AdoptResolved(j)
      PROVE  ref' = ref
  BY <1>5 DEF Environment, AccessStarts, Notify, UserConnects, UserDisconnects,
     AccessAccepts, LaunchAccess, NoteLaunched, GetAccessStatus, Expire
<1>6. \A p : Id(p).of = p
  BY DEF Id
<1> QED
  BY <1>1, <1>2, <1>3, <1>4, <1>5, <1>6 DEF Next

\* However the steps of reconciliations, calls and launches interleave, a
\* reference is rewritten to the identifier of the connection it named, or was
\* once handed to a deep link (reconcileAccessProfile, AdoptAccessProfileID).
THEOREM AdoptionIsNamed == Spec => NamedAdoption
<1>1. ASSUME IInv, [Next]_vars
      PROVE  [\A k \in Clusters :
                LET r == ref[k]  p == ref'[k].of
                IN  ref'[k] # r =>
                      /\ ref'[k] = Id(p)
                      /\ \/ r = Name(p)
                         \/ r \in handed /\ \E h \in Handlers :
                              handler[h].step = "adopting" /\ handler[h].p = p]_vars
  BY <1>1, NextAdopts DEF IInv
<1> QED
  BY InitIInv, NextIInv, <1>1, PTL DEF Spec, NamedAdoption
================================================================================
