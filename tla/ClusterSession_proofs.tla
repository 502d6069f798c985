------------------------ MODULE ClusterSession_proofs ------------------------
(***************************************************************************)
(* What holds of a cluster's session for any number of goroutines and any  *)
(* number of connections, and of the records of clusters for any number of *)
(* them and of what is made of them.                                       *)
(***************************************************************************)
EXTENDS ClusterSession, ClusterRecords, Arranging_proofs, FiniteSetTheorems, SequenceTheorems, TLAPS

USE MaxGenAssumption, NeedsAccessAssumption

\* The inductive invariant: OneHub needs the bound on the generation, and
\* ConnectingIsAttempted needs that only one attempt can clear the state.
IInv == TypeOK /\ OneHub /\ OneAttempt /\ ConnectingIsAttempted

-----------------------------------------------------------------------------
\* Every step that drops or replaces the session keeps the hub of the entry as
\* the only one running.
LEMMA HubsWithoutSession ==
  ASSUME OneHub
  PROVE  HubsWithout(session) = {}
  BY DEF OneHub, HubsWithout

\* A teardown leaves no entry and no running hub, and knows where it will land.
LEMMA TearDownEffect ==
  ASSUME TypeOK, OneHub, NEW c \in Callers, NEW next \in Pc,
         NEW state \in State \ {"connecting", "connected"},
         TearDown(c, next, state)
  PROVE  /\ session' = NoSession
         /\ open' = {}
         /\ landing' \in [Callers -> State \ {"connecting", "connected"}]
         /\ pc' \in [Callers -> Pc]
         /\ pc'[c] = next
         /\ \A d \in Callers \ {c} : pc'[d] = pc[d]
<1>1. session' = NoSession /\ open' = {}
  BY HubsWithoutSession DEF TearDown
<1>2. QED
  BY <1>1 DEF TearDown, Goto, TypeOK

LEMMA NoSessionTypes == NoSession \in Session /\ NoSession.state = "disconnected"
                          /\ NoSession.gen = 0
  BY DEF NoSession, Session, State, Gen

\* Types are preserved by each step of each operation.
LEMMA TypeStep == IInv /\ [Next]_vars => TypeOK'
<1> SUFFICES ASSUME IInv, [Next]_vars PROVE TypeOK'
  OBVIOUS
<1> USE DEF TypeOK, IInv, Session, State, Net, Pc, Attempting, Gen, NoSession,
            Goto, At, HasClient, Transition
<1>u. CASE UNCHANGED vars
  BY <1>u DEF vars
<1>n. ASSUME NEW c \in Callers, Start(c) \/ Proceed(c) PROVE TypeOK'
  <2>1. CASE ConnectBegin(c)
    BY <2>1 DEF ConnectBegin
  <2>2. CASE ConnectAnnounce(c)
    BY <2>2 DEF ConnectAnnounce
  <2>3. CASE ConnectCheck(c)
    BY <2>3 DEF ConnectCheck, checkAccess
  <2>4. CASE ConnectFail(c)
    BY <2>4 DEF ConnectFail, FailureStates
  <2>5. CASE ConnectInstall(c)
    <3>1. open' = {made + 1}
      BY <2>5, HubsWithoutSession DEF ConnectInstall
    <3>2. made + 1 \in 1 .. MaxGen
      BY <2>5 DEF ConnectInstall
    <3>3. QED BY <2>5, <3>1, <3>2 DEF ConnectInstall
  <2>6. CASE ConnectRelease(c)
    BY <2>6 DEF ConnectRelease
  <2>7. CASE \E then \in {"idle", "deleting"} : Disconnect(c, then)
    BY <2>7, HubsWithoutSession DEF Disconnect
  <2>8. CASE DeleteRecord(c)
    BY <2>8 DEF DeleteRecord
  <2>9. CASE \E g \in 1 .. MaxGen : SuspendForAuthFailure(c, g)
    <3> PICK g \in 1 .. MaxGen : SuspendForAuthFailure(c, g)
      BY <2>9
    <3>1. CASE session.state = "connected"
      <4>1. TearDown(c, "hooking", "unauthorized")
        BY <3>1 DEF SuspendForAuthFailure
      <4>2. QED
        BY <4>1, TearDownEffect, NoSessionTypes DEF SuspendForAuthFailure
    <3>2. CASE session.state # "connected"
      BY <3>2 DEF SuspendForAuthFailure
    <3> QED BY <3>1, <3>2
  <2>10. CASE AccessDownCheck(c)
    BY <2>10 DEF AccessDownCheck
  <2>11. CASE ResumeRead(c)
    BY <2>11 DEF ResumeRead
  <2>12. CASE RefreshRead(c)
    BY <2>12 DEF RefreshRead
  <2>13. CASE AuthFailureHook(c)
    BY <2>13 DEF AuthFailureHook
  <2>14. CASE SuspendForAccessDown(c)
    <3>1. CASE session.state = "connected" /\ session.tunnel
      <4>1. TearDown(c, "landing", "waiting_access")
        BY <2>14, <3>1 DEF SuspendForAccessDown
      <4>2. QED
        BY <2>14, <4>1, TearDownEffect, NoSessionTypes DEF SuspendForAccessDown
    <3>2. CASE ~(session.state = "connected" /\ session.tunnel)
      BY <2>14, <3>2 DEF SuspendForAccessDown
    <3> QED BY <3>1, <3>2
  <2>15. CASE ResumeProbe(c)
    <3>1. CASE Goto(c, "idle") /\ UNCHANGED <<open, session, landing>>
      BY <2>15, <3>1 DEF ResumeProbe
    <3>2. ASSUME NEW state \in {"unauthorized", "unreachable", "failed"},
                 TearDown(c, "landing", state)
          PROVE  TypeOK'
      <4>1. /\ session' = NoSession /\ open' = {}
            /\ landing' \in [Callers -> State \ {"connecting", "connected"}]
            /\ pc' \in [Callers -> Pc]
        BY <3>2, TearDownEffect
      <4>2. QED
        BY <2>15, <4>1, NoSessionTypes DEF ResumeProbe
    <3> QED BY <2>15, <3>1, <3>2 DEF ResumeProbe
  <2>16. CASE Land(c)
    BY <2>16 DEF Land
  <2>17. CASE RefreshWrite(c)
    BY <2>17 DEF RefreshWrite
  <2>18. QED
    BY <1>n, <2>1, <2>2, <2>3, <2>4, <2>5, <2>6, <2>7, <2>8, <2>9, <2>10,
       <2>11, <2>12, <2>13, <2>14, <2>15, <2>16, <2>17 DEF Start, Proceed
<1> QED BY <1>u, <1>n DEF Next

-----------------------------------------------------------------------------
\* Each step either leaves the hubs alone, closes the session's, or replaces it.
LEMMA HubStep ==
  ASSUME IInv, NEW c \in Callers, Start(c) \/ Proceed(c)
  PROVE  \/ /\ UNCHANGED <<open, made>>
            /\ session'.gen = session.gen
         \/ open' = {} /\ made' = made /\ session' = NoSession
         \/ /\ open' = {made + 1} /\ made' = made + 1 /\ made < MaxGen
            /\ session'.gen = made + 1
<1> USE DEF IInv, TypeOK
<1>1. CASE ConnectBegin(c)
  BY <1>1 DEF ConnectBegin
<1>2. CASE ConnectAnnounce(c)
  BY <1>2 DEF ConnectAnnounce, Transition, Session
<1>3. CASE ConnectCheck(c)
  BY <1>3 DEF ConnectCheck
<1>4. CASE ConnectFail(c)
  BY <1>4 DEF ConnectFail, Transition, Session
<1>5. CASE ConnectInstall(c)
  BY <1>5, HubsWithoutSession DEF ConnectInstall
<1>6. CASE ConnectRelease(c)
  BY <1>6 DEF ConnectRelease
<1>7. CASE \E then \in {"idle", "deleting"} : Disconnect(c, then)
  BY <1>7, HubsWithoutSession DEF Disconnect
<1>8. CASE DeleteRecord(c)
  BY <1>8 DEF DeleteRecord
<1>9. CASE \E g \in 1 .. MaxGen : SuspendForAuthFailure(c, g)
  BY <1>9, HubsWithoutSession DEF SuspendForAuthFailure, TearDown
<1>10. CASE AccessDownCheck(c)
  BY <1>10 DEF AccessDownCheck
<1>11. CASE ResumeRead(c)
  BY <1>11 DEF ResumeRead
<1>12. CASE RefreshRead(c)
  BY <1>12 DEF RefreshRead
<1>13. CASE AuthFailureHook(c)
  BY <1>13 DEF AuthFailureHook
<1>14. CASE SuspendForAccessDown(c)
  BY <1>14, HubsWithoutSession DEF SuspendForAccessDown, TearDown
<1>15. CASE ResumeProbe(c)
  BY <1>15, HubsWithoutSession DEF ResumeProbe, TearDown
<1>16. CASE Land(c)
  BY <1>16 DEF Land, Transition, Session
<1>17. CASE RefreshWrite(c)
  BY <1>17 DEF RefreshWrite, Session
<1>18. QED
  BY <1>1, <1>2, <1>3, <1>4, <1>5, <1>6, <1>7, <1>8, <1>9, <1>10, <1>11,
     <1>12, <1>13, <1>14, <1>15, <1>16, <1>17 DEF Start, Proceed

LEMMA OneHubStep == IInv /\ [Next]_vars => OneHub'
<1> SUFFICES ASSUME IInv, [Next]_vars PROVE OneHub'
  OBVIOUS
<1>1. made \in Nat /\ session.gen \in Nat /\ MaxGen \in Nat
  BY DEF IInv, TypeOK, Gen, Session
<1>2. CASE UNCHANGED vars
  BY <1>2 DEF vars, IInv, OneHub
<1>3. ASSUME NEW c \in Callers, Start(c) \/ Proceed(c) PROVE OneHub'
  BY <1>1, <1>3, HubStep, NoSessionTypes DEF IInv, OneHub
<1> QED BY <1>2, <1>3 DEF Next

-----------------------------------------------------------------------------
\* A goroutine enters the attempt through ConnectBegin, which needs the guard
\* free, leaves it through ConnectRelease, which frees the guard, and no step
\* moves another goroutine.
LEMMA AttemptStep ==
  ASSUME IInv, NEW c \in Callers, Start(c) \/ Proceed(c)
  PROVE  /\ \A d \in Callers \ {c} : pc'[d] = pc[d]
         /\ \/ ~connecting /\ connecting' /\ pc'[c] = "guarded"
            \/ /\ pc[c] \in Attempting /\ pc'[c] = "idle"
               /\ ~connecting'
            \/ /\ connecting' = connecting
               /\ pc'[c] \in Attempting <=> pc[c] \in Attempting
<1> USE DEF IInv, TypeOK, Goto, At, Attempting
<1>1. CASE ConnectBegin(c)
  BY <1>1 DEF ConnectBegin
<1>2. CASE ConnectAnnounce(c)
  BY <1>2 DEF ConnectAnnounce
<1>3. CASE ConnectCheck(c)
  BY <1>3 DEF ConnectCheck
<1>4. CASE ConnectFail(c)
  BY <1>4 DEF ConnectFail
<1>5. CASE ConnectInstall(c)
  BY <1>5 DEF ConnectInstall
<1>6. CASE ConnectRelease(c)
  BY <1>6 DEF ConnectRelease
<1>7. CASE \E then \in {"idle", "deleting"} : Disconnect(c, then)
  BY <1>7 DEF Disconnect
<1>8. CASE DeleteRecord(c)
  BY <1>8 DEF DeleteRecord
<1>9. CASE \E g \in 1 .. MaxGen : SuspendForAuthFailure(c, g)
  BY <1>9 DEF SuspendForAuthFailure, TearDown
<1>10. CASE AccessDownCheck(c)
  BY <1>10 DEF AccessDownCheck
<1>11. CASE ResumeRead(c)
  BY <1>11 DEF ResumeRead
<1>12. CASE RefreshRead(c)
  BY <1>12 DEF RefreshRead
<1>13. CASE AuthFailureHook(c)
  BY <1>13 DEF AuthFailureHook
<1>14. CASE SuspendForAccessDown(c)
  BY <1>14 DEF SuspendForAccessDown, TearDown
<1>15. CASE ResumeProbe(c)
  BY <1>15 DEF ResumeProbe, TearDown
<1>16. CASE Land(c)
  BY <1>16 DEF Land
<1>17. CASE RefreshWrite(c)
  BY <1>17 DEF RefreshWrite
<1>18. QED
  BY <1>1, <1>2, <1>3, <1>4, <1>5, <1>6, <1>7, <1>8, <1>9, <1>10, <1>11,
     <1>12, <1>13, <1>14, <1>15, <1>16, <1>17 DEF Start, Proceed

LEMMA OneAttemptStep == IInv /\ [Next]_vars => OneAttempt'
<1> SUFFICES ASSUME IInv, [Next]_vars PROVE OneAttempt'
  OBVIOUS
<1>1. CASE UNCHANGED vars
  BY <1>1 DEF vars, IInv, OneAttempt
<1>2. ASSUME NEW c \in Callers, Start(c) \/ Proceed(c) PROVE OneAttempt'
  <2>1. OneAttempt
    BY DEF IInv
  <2>2. \A d \in Callers \ {c} : pc'[d] = pc[d]
    BY <1>2, AttemptStep
  <2>3. CASE ~connecting /\ connecting' /\ pc'[c] = "guarded"
    BY <2>1, <2>2, <2>3 DEF OneAttempt, Attempting
  <2>4. CASE pc[c] \in Attempting /\ pc'[c] = "idle" /\ ~connecting'
    BY <2>1, <2>2, <2>4 DEF OneAttempt, Attempting
  <2>5. CASE connecting' = connecting
               /\ (pc'[c] \in Attempting <=> pc[c] \in Attempting)
    BY <2>1, <2>2, <2>5 DEF OneAttempt
  <2>6. QED BY <1>2, <2>3, <2>4, <2>5, AttemptStep
<1> QED BY <1>1, <1>2 DEF Next

-----------------------------------------------------------------------------
\* The state "connecting" is written by ConnectAnnounce alone; every step that
\* takes an attempt past "dialling" writes another state.
LEMMA ConnectingStep == IInv /\ [Next]_vars => ConnectingIsAttempted'
<1> SUFFICES ASSUME IInv, [Next]_vars PROVE ConnectingIsAttempted'
  OBVIOUS
<1> USE DEF ConnectingIsAttempted, IInv, TypeOK, Goto, At
<1>u. CASE UNCHANGED vars
  BY <1>u DEF vars
<1>n. ASSUME NEW c \in Callers, Start(c) \/ Proceed(c)
      PROVE  ConnectingIsAttempted'
  <2> DEFINE Past(d) == pc[d] \in {"checking", "dialling"}
  <2>a. ASSUME session'.state = session.state, ~Past(c)
        PROVE  ConnectingIsAttempted'
    BY <1>n, <2>a, AttemptStep
  <2>1. CASE ConnectBegin(c)
    BY <2>1, <2>a DEF ConnectBegin
  <2>2. CASE ConnectAnnounce(c)
    <3>1. pc'[c] = "checking"
      BY <2>2 DEF ConnectAnnounce
    <3> QED BY <3>1
  <2>3. CASE ConnectCheck(c)
    <3>1. pc'[c] = "dialling"
      BY <2>3 DEF ConnectCheck
    <3> QED BY <3>1
  <2>4. CASE ConnectFail(c)
    <3>1. session'.state \in {"failed", "unauthorized", "unreachable",
                              "waiting_access"}
      BY <2>4 DEF ConnectFail, FailureStates, Transition, Session
    <3> QED BY <3>1
  <2>5. CASE ConnectInstall(c)
    BY <2>5 DEF ConnectInstall
  <2>6. CASE ConnectRelease(c)
    BY <2>6, <2>a DEF ConnectRelease
  <2>7. CASE \E then \in {"idle", "deleting"} : Disconnect(c, then)
    BY <2>7, NoSessionTypes DEF Disconnect
  <2>8. CASE DeleteRecord(c)
    BY <2>8, <2>a DEF DeleteRecord
  <2>9. CASE \E g \in 1 .. MaxGen : SuspendForAuthFailure(c, g)
    BY <2>9, <2>a, NoSessionTypes DEF SuspendForAuthFailure, TearDown
  <2>10. CASE AccessDownCheck(c)
    BY <2>10, <2>a DEF AccessDownCheck
  <2>11. CASE ResumeRead(c)
    BY <2>11, <2>a DEF ResumeRead
  <2>12. CASE RefreshRead(c)
    BY <2>12, <2>a DEF RefreshRead
  <2>13. CASE AuthFailureHook(c)
    BY <2>13, <2>a DEF AuthFailureHook
  <2>14. CASE SuspendForAccessDown(c)
    BY <2>14, <2>a, NoSessionTypes DEF SuspendForAccessDown, TearDown
  <2>15. CASE ResumeProbe(c)
    BY <2>15, <2>a, NoSessionTypes DEF ResumeProbe, TearDown
  <2>16. CASE Land(c)
    <3>1. session'.state # "connecting"
      BY <2>16 DEF Land, Transition, Session
    <3> QED BY <3>1
  <2>17. CASE RefreshWrite(c)
    <3>1. session'.state = session.state
      BY <2>17 DEF RefreshWrite, Session
    <3> QED BY <2>17, <2>a, <3>1 DEF RefreshWrite
  <2>18. QED
    BY <1>n, <2>1, <2>2, <2>3, <2>4, <2>5, <2>6, <2>7, <2>8, <2>9, <2>10,
       <2>11, <2>12, <2>13, <2>14, <2>15, <2>16, <2>17 DEF Start, Proceed
<1> QED BY <1>u, <1>n DEF Next

-----------------------------------------------------------------------------
LEMMA InitInvariant == Init => IInv
<1> SUFFICES ASSUME Init PROVE IInv
  OBVIOUS
<1> USE DEF Init
<1>1. TypeOK
  BY NoSessionTypes
     DEF TypeOK, Session, State, Gen, Pc, Attempting, Net
<1>2. OneHub
  BY NoSessionTypes DEF OneHub
<1>3. OneAttempt
  BY DEF OneAttempt, Attempting
<1>4. ConnectingIsAttempted
  BY NoSessionTypes DEF ConnectingIsAttempted
<1> QED BY <1>1, <1>2, <1>3, <1>4 DEF IInv

\* The inductive invariant of the session (manager.go): types, one hub, one
\* attempt, and an attempt behind every "connecting".
THEOREM SessionInvariant == Spec => []IInv
<1>1. IInv /\ [Next]_vars => IInv'
  BY TypeStep, OneHubStep, OneAttemptStep, ConnectingStep DEF IInv
<1>2. QED
  BY <1>1, InitInvariant, PTL DEF Spec

\* Every value the manager's variables take has its type, and a connected
\* session has a client (manager.go, Client).
THEOREM TypeCorrect == Spec => []TypeOK
<1>1. IInv => TypeOK
  BY DEF IInv
<1> QED BY <1>1, SessionInvariant, PTL

\* No interleaving of connects, disconnects and suspensions leaks a watch hub
\* or leaves a closed one in the map (manager.go, Connect, Disconnect,
\* SuspendForAuthFailure, SuspendForAccessDown, Resume).
THEOREM OneHubAlways == Spec => []OneHub
<1>1. IInv => OneHub
  BY DEF IInv
<1> QED BY <1>1, SessionInvariant, PTL

\* The connecting guard admits one attempt and follows it exactly (manager.go,
\* Connect).
THEOREM OneAttemptAlways == Spec => []OneAttempt
<1>1. IInv => OneAttempt
  BY DEF IInv
<1> QED BY <1>1, SessionInvariant, PTL

\* A session reads "connecting" only while an attempt is about to say how it
\* went (manager.go, Connect and transition).
THEOREM ConnectingAlwaysAttempted == Spec => []ConnectingIsAttempted
<1>1. IInv => ConnectingIsAttempted
  BY DEF IInv
<1> QED BY <1>1, SessionInvariant, PTL

-----------------------------------------------------------------------------
\* Access going down ends only sessions that use its forwards: the check of
\* handleAccessDown may be stale, the one in SuspendForAccessDown is not.
THEOREM RouteSurvives == Spec => RouteSurvivesAccessDown
<1> DEFINE Step(c) ==
      At(c, "suspending") /\ ~At(c, "suspending")' /\ session'.gen # session.gen
        => session.tunnel
<1>1. ASSUME IInv, Next, NEW c \in Callers, At(c, "suspending"),
             ~At(c, "suspending")', session'.gen # session.gen
      PROVE  session.tunnel
  <2> PICK d \in Callers : Start(d) \/ Proceed(d)
    BY <1>1 DEF Next
  <2>1. d = c
    BY <1>1, AttemptStep DEF At
  <2>2. SuspendForAccessDown(c)
    BY <1>1, <2>1 DEF Start, Proceed, At, ConnectBegin, ConnectAnnounce,
       ConnectCheck, ConnectFail, ConnectInstall, ConnectRelease, Disconnect,
       DeleteRecord, SuspendForAuthFailure, AccessDownCheck, ResumeRead,
       RefreshRead, AuthFailureHook, ResumeProbe, Land, RefreshWrite
  <2>3. QED
    BY <1>1, <2>2 DEF SuspendForAccessDown
<1>2. IInv /\ [Next]_vars => [\A c \in Callers : Step(c)]_vars
  BY <1>1
<1>3. QED
  BY <1>2, SessionInvariant, PTL DEF Spec, RouteSurvivesAccessDown

\* The manager implements the abstract ownership of watch hubs: every step maps
\* to a take-over, a stop or a stutter.
THEOREM SessionOwnsOneHub == Spec => ImplementsOwnership
<1>1. Init => Ownership!Init
  BY DEF Init, Ownership!Init
<1>2. IInv /\ [Next]_vars => [Ownership!Next]_(Ownership!vars)
  <2> SUFFICES ASSUME IInv, [Next]_vars
               PROVE  [Ownership!Next]_(Ownership!vars)
    OBVIOUS
  <2> USE DEF Ownership!Next, Ownership!vars
  <2>1. made \in Nat /\ MaxGen \in Nat /\ open \subseteq 1 .. made
    BY DEF IInv, TypeOK, Gen, OneHub, Session
  <2>2. CASE UNCHANGED <<open, made>>
    BY <2>2
  <2>3. CASE open' = {} /\ made' = made
    <3>1. Ownership!Stop
      BY <2>1, <2>3 DEF Ownership!Stop
    <3> QED BY <3>1
  <2>4. CASE open' = {made + 1} /\ made' = made + 1 /\ made < MaxGen
    <3>a. 1 .. (made + 1) = 1 .. made \cup {made + 1}
      BY <2>1
    <3>b. made + 1 \notin 1 .. made
      BY <2>1
    <3>c. (1 .. made') \ open' = ((1 .. made) \ open) \cup open
      BY <2>1, <2>4, <3>a, <3>b
    <3>1. Ownership!TakeOver(made + 1)
      BY <2>1, <2>4, <3>b, <3>c DEF Ownership!TakeOver
    <3>2. made + 1 \in 1 .. MaxGen
      BY <2>1, <2>4
    <3> QED BY <3>1, <3>2
  <2>5. QED
    BY <2>2, <2>3, <2>4, HubStep DEF Next, vars
<1>3. QED
  BY <1>1, <1>2, SessionInvariant, PTL
     DEF Spec, ImplementsOwnership, Ownership!Spec
-----------------------------------------------------------------------------
(* The records: what is in a document.                                    *)

\* The records of a document.
LEMMA DocumentFields ==
  ASSUME NEW d \in Document
  PROVE  /\ d.clusters \in Seq(ClusterRecord) /\ d.preferences \in Seq(PreferenceRecord)
         /\ d.customers \in Seq(CustomerRecord) /\ d.views \in Seq(SavedViewRecord)
         /\ \A c \in Range(d.clusters) : c \in ClusterRecord
         /\ \A p \in Range(d.preferences) : p \in PreferenceRecord
         /\ \A c \in Range(d.customers) : c \in CustomerRecord
         /\ \A v \in Range(d.views) : v \in SavedViewRecord
  BY DEF Document, Range

\* An identifier finds the one cluster it names.
LEMMA ClusterFound ==
  ASSUME NEW d \in Document, OneOfEach(d), NEW id, Exists(d, id)
  PROVE  LET i == Lowest(IndexOf(d, id))
         IN  /\ i \in DOMAIN d.clusters /\ d.clusters[i].id = id
             /\ \A k \in DOMAIN d.clusters : d.clusters[k].id = id => k = i
<1>1. IndexOf(d, id) # {} /\ IndexOf(d, id) \subseteq DOMAIN d.clusters
  BY DEF Exists, IndexOf
<1>2. IsFiniteSet(IndexOf(d, id)) /\ IndexOf(d, id) \subseteq Int
  BY <1>1, DocumentFields, PlacesAreFinite
<1>3. Lowest(IndexOf(d, id)) \in IndexOf(d, id)
  BY <1>1, <1>2, LowestIsFirst
<1> QED
  BY <1>3 DEF IndexOf, OneOfEach

\* The preference of a cluster is the only one for it.
LEMMA PreferenceFound ==
  ASSUME NEW d \in Document, OneOfEach(d), NEW id, Preferred(d, id)
  PROVE  /\ First(d, id) \in DOMAIN d.preferences /\ d.preferences[First(d, id)].cluster = id
         /\ \A k \in DOMAIN d.preferences : d.preferences[k].cluster = id => k = First(d, id)
<1>1. PreferencesOf(d, id) # {} /\ PreferencesOf(d, id) \subseteq DOMAIN d.preferences
  BY DEF Preferred, PreferencesOf
<1>2. IsFiniteSet(PreferencesOf(d, id)) /\ PreferencesOf(d, id) \subseteq Int
  BY <1>1, DocumentFields, PlacesAreFinite
<1>3. First(d, id) \in PreferencesOf(d, id)
  BY <1>1, <1>2, LowestIsFirst DEF First
<1> QED
  BY <1>3 DEF PreferencesOf, OneOfEach

\* The mode that a preference says, or read-write.
Said(p) == IF p.mode \in {"read-only", "read-write"} THEN p.mode ELSE "read-write"

\* Mode and namespace of a cluster are those of its preference.
LEMMA ModeIsSaid ==
  ASSUME NEW d \in Document, OneOfEach(d), NEW p \in Range(d.preferences)
  PROVE  /\ Preferred(d, p.cluster) /\ AccessMode(d, p.cluster) = Said(p)
         /\ Namespace(d, p.cluster) = p.namespace
<1> DEFINE id == p.cluster
           f == First(d, id)
           said == {i \in PreferencesOf(d, id) : d.preferences[i].mode \in {"read-only", "read-write"}}
<1>1. PICK k \in DOMAIN d.preferences : d.preferences[k] = p
  BY DEF Range
<1>2. k \in PreferencesOf(d, id) /\ Preferred(d, id)
  BY <1>1 DEF PreferencesOf, Preferred
<1>3. k = f /\ f \in DOMAIN d.preferences /\ d.preferences[f] = p
  BY <1>1, <1>2, PreferenceFound
<1>4. PreferencesOf(d, id) = {k}
  BY <1>1, <1>2, <1>3 DEF PreferencesOf, OneOfEach
<1>5. Namespace(d, id) = p.namespace
  BY <1>2, <1>3 DEF Namespace
<1>6. AccessMode(d, id) = IF said = {} THEN "read-write" ELSE d.preferences[Lowest(said)].mode
  BY DEF AccessMode
<1>7. CASE p.mode \in {"read-only", "read-write"}
  <2>1. said = {k}
    BY <1>1, <1>4, <1>7
  <2>2. Lowest({k}) = k
    <3>1. k \in Int
      BY DocumentFields
    <3> QED
      BY <3>1 DEF Lowest
  <2> HIDE DEF said
  <2> QED
    BY <1>1, <1>2, <1>5, <1>6, <1>7, <2>1, <2>2 DEF Said
<1>8. CASE p.mode \notin {"read-only", "read-write"}
  <2>1. said = {}
    BY <1>1, <1>4, <1>8
  <2> HIDE DEF said
  <2> QED
    BY <1>2, <1>5, <1>6, <1>8, <2>1 DEF Said
<1> QED
  BY <1>7, <1>8

\* Without one they are read-write and none.
LEMMA ModeOfNone ==
  ASSUME NEW d, NEW id, ~Preferred(d, id)
  PROVE  AccessMode(d, id) = "read-write" /\ Namespace(d, id) = None
  BY DEF Preferred, AccessMode, Namespace

\* A cluster is preferred when one of the preferences is for it.
LEMMA PreferredMeans ==
  ASSUME NEW d, NEW id
  PROVE  Preferred(d, id) <=> \E p \in Range(d.preferences) : p.cluster = id
  BY DEF Preferred, PreferencesOf, Range

\* Likewise for the clusters.
LEMMA ExistsMeans ==
  ASSUME NEW d, NEW id
  PROVE  Exists(d, id) <=> \E c \in Range(d.clusters) : c.id = id
  BY DEF Exists, IndexOf, Range

\* A section is hidden as was chosen, or by default.
LEMMA HiddenMeans ==
  ASSUME NEW d \in Document, ChoicesMean(d), NEW key
  PROVE  HiddenFor(d, key) <=>
           /\ key # Ungrouped
           /\ \/ \E c \in Range(d.customers) : c.key = key /\ c.hidden
              \/ key = ArchivedKey /\ \A c \in Range(d.customers) : c.key # key
<1> DEFINE chosen == {i \in DOMAIN d.customers : d.customers[i].key = key}
<1>1. HiddenFor(d, key) <=>
        /\ key # Ungrouped
        /\ IF chosen = {} THEN key = ArchivedKey ELSE d.customers[Highest(chosen)].hidden
  BY DEF HiddenFor, CanHideGroup, GroupHiddenByDefault
<1>2. CASE chosen = {}
  <2>1. \A c \in Range(d.customers) : c.key # key
    BY <1>2 DEF Range
  <2> HIDE DEF chosen
  <2> QED
    BY <1>1, <1>2, <2>1
<1>3. CASE chosen # {}
  <2>1. IsFiniteSet(chosen) /\ chosen \subseteq Int
    BY DocumentFields, PlacesAreFinite
  <2>2. Highest(chosen) \in chosen
    <3> HIDE DEF chosen
    <3> QED
      BY <1>3, <2>1, HighestIsLast
  <2> DEFINE h == Highest(chosen)
  <2>3. h \in DOMAIN d.customers /\ d.customers[h].key = key /\ d.customers[h] \in Range(d.customers)
    BY <2>2 DEF Range
  <2>4. \A c \in Range(d.customers) : c.key = key => c = d.customers[h]
    BY <2>3 DEF ChoicesMean, Range
  <2>5. HiddenFor(d, key) <=> key # Ungrouped /\ d.customers[h].hidden
    BY <1>1, <1>3
  <2> HIDE DEF chosen, h
  <2> QED
    BY <2>3, <2>4, <2>5
<1> QED
  BY <1>2, <1>3

\* The identifiers of clusters that a document knows.
Known(d) == {c.id : c \in Range(d.clusters)} \cup {p.cluster : p \in Range(d.preferences)}

\* What key tells of the members of a sequence, it tells of one only.
Once(seq, key) == \A i, k \in DOMAIN seq : key[seq[i]] = key[seq[k]] => i = k
ClusterKeys == [c \in ClusterRecord |-> c.id]
PreferenceKeys == [p \in PreferenceRecord |-> p.cluster]
CustomerKeys == [c \in CustomerRecord |-> c.key]
ViewKeys == [v \in SavedViewRecord |-> v.id]

\* A document names everything once when its lists do.
LEMMA OneOfEachMeans ==
  ASSUME NEW d \in Document
  PROVE  OneOfEach(d) <=> /\ Once(d.clusters, ClusterKeys)
                          /\ Once(d.preferences, PreferenceKeys)
                          /\ Once(d.views, ViewKeys)
<1>1. /\ \A i \in DOMAIN d.clusters : ClusterKeys[d.clusters[i]] = d.clusters[i].id
      /\ \A i \in DOMAIN d.preferences : PreferenceKeys[d.preferences[i]] = d.preferences[i].cluster
      /\ \A i \in DOMAIN d.views : ViewKeys[d.views[i]] = d.views[i].id
  <2>1. /\ \A i \in DOMAIN d.clusters : d.clusters[i] \in ClusterRecord
        /\ \A i \in DOMAIN d.preferences : d.preferences[i] \in PreferenceRecord
        /\ \A i \in DOMAIN d.views : d.views[i] \in SavedViewRecord
    BY DocumentFields DEF Range
  <2> QED
    BY <2>1 DEF ClusterKeys, PreferenceKeys, ViewKeys
<1> QED
  BY <1>1 DEF OneOfEach, Once

\* What is kept of a list still names everything once.
LEMMA OnceKept ==
  ASSUME NEW T, NEW seq \in Seq(T), NEW key, NEW S, Once(seq, key)
  PROVE  Once(Keeping(seq, S), key)
<1> DEFINE kept == Keeping(seq, S)
<1>1. PICK place : Thinned(place, kept, seq, S)
  BY KeepingKeeps
<1>2. kept \in Seq(T)
  BY KeepingLists
<1> HIDE DEF kept
<1>3. ASSUME NEW i \in DOMAIN kept, NEW k \in DOMAIN kept, key[kept[i]] = key[kept[k]] PROVE i = k
  <2>1. place[i] = place[k]
    BY <1>1, <1>3 DEF Thinned, Once
  <2>2. i \in Int /\ k \in Int /\ place[i] \in Int /\ place[k] \in Int
    BY <1>1, <1>2 DEF Thinned
  <2> QED
    BY <1>1, <2>1, <2>2 DEF Thinned
<1> QED
  BY <1>3 DEF Once, kept

\* All of what was to be kept is.
LEMMA KeptList ==
  ASSUME NEW T, NEW seq \in Seq(T), NEW key, Once(seq, key), NEW S \in SUBSET Range(seq)
  PROVE  /\ Keeping(seq, S) \in Seq(T) /\ Once(Keeping(seq, S), key) /\ Range(Keeping(seq, S)) = S
<1>1. Keeping(seq, S) \in Seq(T) /\ Once(Keeping(seq, S), key)
  BY KeepingLists, OnceKept
<1>2. Range(Keeping(seq, S)) = Range(seq) \cap S
  BY RangeOfKept
<1> QED
  BY <1>1, <1>2

\* So does a list to which something new was added,
LEMMA OnceAppended ==
  ASSUME NEW T, NEW seq \in Seq(T), NEW key, NEW x \in T, Once(seq, key),
         \A y \in Range(seq) : key[y] # key[x]
  PROVE  /\ Append(seq, x) \in Seq(T) /\ Once(Append(seq, x), key)
         /\ Range(Append(seq, x)) = Range(seq) \cup {x}
<1> DEFINE more == Append(seq, x)
<1>1. /\ more \in Seq(T) /\ DOMAIN more = 1..(Len(seq) + 1) /\ DOMAIN seq = 1..Len(seq) /\ Len(seq) \in Nat
      /\ \A i \in 1..Len(seq) : more[i] = seq[i]
      /\ more[Len(seq) + 1] = x
  OBVIOUS
<1>2. Range(more) = Range(seq) \cup {x}
  BY <1>1 DEF Range
<1>3. \A i \in 1..Len(seq) : more[i] \in Range(seq)
  BY <1>1 DEF Range
<1> HIDE DEF more
<1>4. Once(more, key)
  BY <1>1, <1>3 DEF Once
<1> QED
  BY <1>1, <1>2, <1>4 DEF more

\* One place of a list is given something else.
Replaced(new, seq, i, x) == i \in DOMAIN seq /\ new = [seq EXCEPT ![i] = x]
Swapped(new, seq, was, x) == Range(new) = (Range(seq) \ {was}) \cup {x}

\* and one in which something was changed into what has the same name.
LEMMA OnceReplaced ==
  ASSUME NEW T, NEW seq \in Seq(T), NEW key, NEW i, NEW x \in T, NEW new,
         Replaced(new, seq, i, x), Once(seq, key), key[x] = key[seq[i]]
  PROVE  /\ new \in Seq(T) /\ Once(new, key)
         /\ Swapped(new, seq, seq[i], x)
<1>1. /\ new \in Seq(T) /\ DOMAIN new = DOMAIN seq /\ new[i] = x
      /\ \A k \in DOMAIN seq : k # i => new[k] = seq[k]
  BY DEF Replaced
<1>2. \A k \in DOMAIN seq : seq[k] = seq[i] => k = i
  BY DEF Once, Replaced
<1>3. Range(new) = (Range(seq) \ {seq[i]}) \cup {x}
  BY <1>1, <1>2 DEF Range, Replaced
<1>4. Once(new, key)
  BY <1>1 DEF Once, Replaced
<1> QED
  BY <1>1, <1>3, <1>4 DEF Swapped

-----------------------------------------------------------------------------
(* What carries over from one document to the next.                        *)

\* Modes and namespaces, as far as preferences do;
LEMMA ModeCarried ==
  ASSUME NEW d \in Document, OneOfEach(d), NEW e \in Document, OneOfEach(e), NEW id,
         \A p : p.cluster = id => (p \in Range(d.preferences) <=> p \in Range(e.preferences))
  PROVE  AccessMode(e, id) = AccessMode(d, id) /\ Namespace(e, id) = Namespace(d, id)
<1>1. CASE Preferred(d, id)
  <2>1. PICK p \in Range(d.preferences) : p.cluster = id
    BY <1>1, PreferredMeans
  <2>2. p \in Range(e.preferences)
    BY <2>1
  <2>3. AccessMode(d, id) = Said(p) /\ Namespace(d, id) = p.namespace
    BY <2>1, ModeIsSaid
  <2>4. AccessMode(e, id) = Said(p) /\ Namespace(e, id) = p.namespace
    BY <2>1, <2>2, ModeIsSaid
  <2> QED
    BY <2>3, <2>4
<1>2. CASE ~Preferred(d, id)
  <2>1. ~Preferred(e, id)
    BY <1>2, PreferredMeans
  <2> QED
    BY <1>2, <2>1, ModeOfNone
<1> QED
  BY <1>1, <1>2

\* all of them, when the preferences are not touched;
LEMMA ModesUntouched ==
  ASSUME NEW op, NEW e, e.preferences = op.before.preferences, op.do # "create"
  PROVE  ModesKept(op, e)
<1>1. ASSUME NEW id PROVE AccessMode(e, id) = AccessMode(op.before, id) /\ Namespace(e, id) = Namespace(op.before, id)
  BY DEF AccessMode, Namespace, PreferencesOf, Preferred, First
<1> QED
  BY <1>1 DEF ModesKept

\* what was chosen for sections, as far as it is about customers in use;
LEMMA ChoicesCarried ==
  ASSUME NEW d \in Document, ChoicesMean(d), NEW e \in Document,
         Range(e.customers) \subseteq Range(d.customers), Once(e.customers, CustomerKeys),
         \A c \in Range(e.customers) : c.key = ArchivedKey \/ CustomerInUse(e, c.key)
  PROVE  ChoicesMean(e)
<1>1. \A i \in DOMAIN e.customers :
        e.customers[i] \in Range(e.customers) /\ CustomerKeys[e.customers[i]] = e.customers[i].key
  <2>1. \A i \in DOMAIN e.customers : e.customers[i] \in Range(e.customers) /\ e.customers[i] \in CustomerRecord
    BY DocumentFields DEF Range
  <2> QED
    BY <2>1 DEF CustomerKeys
<1>2. \A c \in Range(d.customers) : c.hidden # GroupHiddenByDefault(c.key)
  BY DEF ChoicesMean, Range
<1> QED
  BY <1>1, <1>2 DEF ChoicesMean, Once

\* The choices of a document are for one section each.
LEMMA ChoicesOnce ==
  ASSUME NEW d \in Document, ChoicesMean(d)
  PROVE  Once(d.customers, CustomerKeys)
<1>1. \A i \in DOMAIN d.customers : CustomerKeys[d.customers[i]] = d.customers[i].key
  <2>1. \A i \in DOMAIN d.customers : d.customers[i] \in CustomerRecord
    BY DocumentFields DEF Range
  <2> QED
    BY <2>1 DEF CustomerKeys
<1> QED
  BY <1>1 DEF ChoicesMean, Once

\* and no choice is found by a customer that comes into use.
LEMMA NoneInherited ==
  ASSUME NEW op, op.before \in Document, ChoicesMean(op.before),
         NEW e \in Document, ChoicesMean(e), Range(e.customers) \subseteq Range(op.before.customers)
  PROVE  NothingInherited(op, e)
<1> SUFFICES ASSUME NEW c \in Range(e.clusters), ~CustomerInUse(op.before, CustomerKey(c)),
                    HiddenFor(e, CustomerKey(c))
             PROVE  FALSE
  BY DEF NothingInherited
<1>1. CustomerKey(c) # ArchivedKey
  BY DocumentFields DEF CustomerKey, ClusterRecord, ArchivedKey
<1>2. PICK u \in Range(e.customers) : u.key = CustomerKey(c)
  BY <1>1, HiddenMeans
<1>3. \A w \in Range(op.before.customers) : w.key = ArchivedKey \/ CustomerInUse(op.before, w.key)
  BY DEF ChoicesMean, Range
<1> QED
  BY <1>1, <1>2, <1>3

\* Forgetting the customers that are not in use changes nothing else.
LEMMA Pruned ==
  ASSUME NEW d \in Document, ChoicesMean(d), NEW x \in Document, x.customers = d.customers,
         NEW e, e = PruneCustomers(x)
  PROVE  /\ e \in Document /\ e.clusters = x.clusters /\ e.preferences = x.preferences /\ e.views = x.views
         /\ Range(e.customers) \subseteq Range(d.customers)
         /\ ChoicesMean(e)
<1> DEFINE S == {c \in Range(x.customers) : c.key = ArchivedKey \/ CustomerInUse(x, c.key)}
           kept == Keeping(x.customers, S)
<1>0. x.customers \in Seq(CustomerRecord)
  BY DocumentFields
<1>1. kept \in Seq(CustomerRecord) /\ Range(kept) = Range(x.customers) \cap S /\ Once(kept, CustomerKeys)
  <2>1. Once(x.customers, CustomerKeys)
    BY ChoicesOnce
  <2> HIDE DEF S
  <2> QED
    BY <1>0, <2>1, KeepingLists, RangeOfKept, OnceKept
<1>2. e = [x EXCEPT !.customers = kept]
  BY DEF PruneCustomers
<1>3. \A c \in S : c.key = ArchivedKey \/ CustomerInUse(x, c.key)
  OBVIOUS
<1> HIDE DEF kept, S
<1>4. /\ e \in Document /\ e.clusters = x.clusters /\ e.preferences = x.preferences /\ e.views = x.views
      /\ e.customers = kept
  BY <1>1, <1>2 DEF Document
<1>5. \A c \in Range(e.customers) : c.key = ArchivedKey \/ CustomerInUse(e, c.key)
  BY <1>1, <1>3, <1>4 DEF CustomerInUse
<1>6. ChoicesMean(e)
  BY <1>1, <1>4, <1>5, ChoicesCarried
<1> QED
  BY <1>1, <1>4, <1>6

\* No cluster has too many views, whether it exists or not;
LEMMA ViewsAreFew ==
  ASSUME MaxSavedViewsPerCluster \in Nat, NEW d \in Document, ViewsBelong(d), NEW id
  PROVE  IsFiniteSet(ViewsOf(d, id)) /\ Cardinality(ViewsOf(d, id)) <= MaxSavedViewsPerCluster
<1>1. ViewsOf(d, id) \subseteq DOMAIN d.views
  BY DEF ViewsOf
<1>2. IsFiniteSet(ViewsOf(d, id))
  BY <1>1, DocumentFields, PlacesAreFinite
<1>3. CASE Exists(d, id)
  BY <1>2, <1>3, ExistsMeans DEF ViewsBelong
<1>4. CASE ~Exists(d, id)
  <2>1. ViewsOf(d, id) = {}
    BY <1>4 DEF ViewsBelong, ViewsOf, Range
  <2> QED
    BY <1>2, <2>1, FS_EmptySet
<1> QED
  BY <1>3, <1>4

\* nor when some of the views are left out, or none.
LEMMA ViewsKept ==
  ASSUME MaxSavedViewsPerCluster \in Nat, NEW d \in Document, ViewsBelong(d),
         NEW e \in Document, NEW S, e.views = d.views \/ e.views = Keeping(d.views, S),
         \A v \in Range(e.views) : Exists(e, v.cluster)
  PROVE  ViewsBelong(e)
<1> SUFFICES ASSUME NEW id PROVE Cardinality(ViewsOf(e, id)) <= MaxSavedViewsPerCluster
  BY DEF ViewsBelong
<1>1. IsFiniteSet(ViewsOf(d, id)) /\ Cardinality(ViewsOf(d, id)) <= MaxSavedViewsPerCluster
  BY ViewsAreFew
<1>2. CASE e.views = d.views
  BY <1>1, <1>2 DEF ViewsOf
<1>3. CASE e.views = Keeping(d.views, S)
  <2>1. PICK place : Thinned(place, e.views, d.views, S)
    BY <1>3, DocumentFields, KeepingKeeps
  <2> DEFINE f == [i \in ViewsOf(e, id) |-> place[i]]
  <2>2. \A i \in DOMAIN e.views : i \in Int
    BY DocumentFields
  <2>3. \A i, k \in DOMAIN e.views : place[i] = place[k] => i = k
    <3>1. \A i \in DOMAIN e.views : place[i] \in Int
      BY <2>1, DocumentFields DEF Thinned
    <3> QED
      BY <2>1, <2>2, <3>1 DEF Thinned
  <2>4. f \in Injection(ViewsOf(e, id), ViewsOf(d, id))
    <3>1. f \in [ViewsOf(e, id) -> ViewsOf(d, id)]
      BY <2>1 DEF ViewsOf, Thinned
    <3> QED
      BY <2>3, <3>1 DEF Injection, IsInjective, ViewsOf
  <2>5. IsFiniteSet(ViewsOf(e, id)) /\ Cardinality(ViewsOf(e, id)) <= Cardinality(ViewsOf(d, id))
    <3> HIDE DEF f
    <3> QED
      BY <1>1, <2>4, FS_Injection
  <2> QED
    BY <1>1, <2>5, FS_CardinalityType
<1> QED
  BY <1>2, <1>3

\* Views that are not touched stay.
LEMMA ViewsUntouched ==
  ASSUME NEW op, NEW e, e.views = op.before.views
  PROVE  ViewsStay(op, e)
  BY DEF ViewsStay

-----------------------------------------------------------------------------
(* What each operation makes of a document.                                *)

\* What holds after an operation, but for the list.
Left(op, e) == /\ NothingInherited(op, e) /\ ModesKept(op, e) /\ RecordsSurvive(op, e)
               /\ NothingLeft(op, e) /\ ViewsStay(op, e)

\* The preference of a cluster, as it was or would be, and as it is changed.
PreferenceFor(d, id) ==
  IF Preferred(d, id) THEN d.preferences[First(d, id)] ELSE Preference(id, None, "")
WithPreference(d, id, x) ==
  [d EXCEPT !.preferences = IF Preferred(d, id) THEN [@ EXCEPT ![First(d, id)] = x] ELSE Append(@, x)]
OneChange(do, was, x) == /\ do \in {"namespace", "mode"}
                         /\ do # "mode" => x.mode = was.mode
                         /\ do # "namespace" => x.namespace = was.namespace

\* Remembering a namespace and choosing a mode change one preference.
LEMMA PreferenceChanged ==
  ASSUME MaxSavedViewsPerCluster \in Nat, NEW d, Sound(d), NEW id \in Nat, NEW x \in PreferenceRecord, x.cluster = id,
         NEW e, e = WithPreference(d, id, x),
         NEW op, op.before = d, op.id = id, OneChange(op.do, PreferenceFor(d, id), x)
  PROVE  Sound(e) /\ Left(op, e) /\ Known(e) \subseteq Known(d) \cup {id}
<1>1. d \in Document /\ OneOfEach(d) /\ ChoicesMean(d) /\ ViewsBelong(d)
  BY DEF Sound
<1> DEFINE was == PreferenceFor(d, id)
           old == IF Preferred(d, id) THEN {was} ELSE {}
<1>2. /\ e.preferences \in Seq(PreferenceRecord) /\ Once(e.preferences, PreferenceKeys)
      /\ Range(e.preferences) = (Range(d.preferences) \ old) \cup {x}
      /\ e = [d EXCEPT !.preferences = e.preferences]
  <2>1. d.preferences \in Seq(PreferenceRecord) /\ Once(d.preferences, PreferenceKeys) /\ PreferenceKeys[x] = id
    BY <1>1, DocumentFields, OneOfEachMeans DEF PreferenceKeys
  <2>2. CASE Preferred(d, id)
    <3>1. /\ First(d, id) \in DOMAIN d.preferences /\ was = d.preferences[First(d, id)] /\ was.cluster = id
          /\ was \in PreferenceRecord
      BY <1>1, <2>2, PreferenceFound, DocumentFields DEF Range, PreferenceFor
    <3>2. PreferenceKeys[was] = id
      BY <3>1 DEF PreferenceKeys
    <3>3. e.preferences = [d.preferences EXCEPT ![First(d, id)] = x]
      BY <1>1, <2>2 DEF Document, WithPreference
    <3>3a. e = [d EXCEPT !.preferences = e.preferences]
      BY <1>1, <2>2 DEF Document, WithPreference
    <3>4. old = {d.preferences[First(d, id)]}
      BY <2>2, <3>1
    <3> HIDE DEF was, old
    <3>5. PreferenceKeys[x] = PreferenceKeys[d.preferences[First(d, id)]]
      BY <2>1, <3>1, <3>2 DEF was
    <3>6. /\ e.preferences \in Seq(PreferenceRecord) /\ Once(e.preferences, PreferenceKeys)
          /\ Range(e.preferences) = (Range(d.preferences) \ {d.preferences[First(d, id)]}) \cup {x}
      <4>1. Replaced(e.preferences, d.preferences, First(d, id), x)
        BY <3>1, <3>3 DEF Replaced
      <4>2. e.preferences \in Seq(PreferenceRecord) /\ Once(e.preferences, PreferenceKeys)
        BY <2>1, <3>5, <4>1, OnceReplaced
      <4>3. Swapped(e.preferences, d.preferences, d.preferences[First(d, id)], x)
        BY <2>1, <3>5, <4>1, OnceReplaced
      <4> QED
        BY <4>2, <4>3 DEF Swapped
    <3> QED
      BY <3>3a, <3>4, <3>6
  <2>3. CASE ~Preferred(d, id)
    <3>1. \A y \in Range(d.preferences) : PreferenceKeys[y] # id
      BY <1>1, <2>3, PreferredMeans, DocumentFields DEF PreferenceKeys
    <3>2. e.preferences = Append(d.preferences, x) /\ e = [d EXCEPT !.preferences = e.preferences]
      BY <1>1, <2>3 DEF Document, WithPreference
    <3> QED
      BY <2>1, <2>3, <3>1, <3>2, OnceAppended
  <2> QED
    BY <2>2, <2>3
<1>3. /\ e \in Document /\ e.clusters = d.clusters /\ e.customers = d.customers /\ e.views = d.views
  BY <1>1, <1>2 DEF Document
<1>4. OneOfEach(e)
  BY <1>1, <1>2, <1>3, OneOfEachMeans
<1>5. \A k : CustomerInUse(e, k) <=> CustomerInUse(d, k)
  BY <1>3 DEF CustomerInUse
<1>6. ChoicesMean(e)
  BY <1>1, <1>3, <1>5 DEF ChoicesMean
<1>7. \A k : Exists(e, k) <=> Exists(d, k)
  BY <1>3 DEF Exists, IndexOf
<1>8. ViewsBelong(e)
  BY <1>1, <1>3, <1>7 DEF ViewsBelong, ViewsOf
<1>9. NothingInherited(op, e)
  BY <1>1, <1>3, <1>6, NoneInherited
<1>10. ModesKept(op, e)
  <2>1. ASSUME NEW c \in Range(d.clusters)
        PROVE  /\ AccessMode(e, c.id) # AccessMode(d, c.id) => op.do = "mode" /\ op.id = c.id
               /\ Namespace(e, c.id) # Namespace(d, c.id) => op.do = "namespace" /\ op.id = c.id
    <3>1. CASE c.id # id
      <4>1. \A p \in old : p.cluster = id
        <5>1. Preferred(d, id) => was.cluster = id
          BY <1>1, PreferenceFound DEF PreferenceFor
        <5> HIDE DEF was
        <5> QED
          BY <5>1
      <4>2. \A p : p.cluster = c.id => (p \in Range(d.preferences) <=> p \in Range(e.preferences))
        <5> HIDE DEF old
        <5> QED
          BY <1>2, <3>1, <4>1
      <4> QED
        BY <1>1, <1>3, <1>4, <4>2, ModeCarried
    <3>2. CASE c.id = id
      <4>1. AccessMode(d, id) = Said(was) /\ Namespace(d, id) = was.namespace
        <5>1. CASE Preferred(d, id)
          <6>1. was \in Range(d.preferences) /\ was.cluster = id
            BY <1>1, <5>1, PreferenceFound DEF Range, PreferenceFor
          <6> HIDE DEF was
          <6> QED
            BY <1>1, <6>1, ModeIsSaid
        <5>2. CASE ~Preferred(d, id)
          BY <5>2, ModeOfNone DEF Said, Preference, PreferenceFor
        <5> QED
          BY <5>1, <5>2
      <4>2. AccessMode(e, id) = Said(x) /\ Namespace(e, id) = x.namespace
        BY <1>2, <1>3, <1>4, ModeIsSaid
      <4>3. /\ op.do # "mode" => x.mode = was.mode
            /\ op.do # "namespace" => x.namespace = was.namespace
            /\ op.do \in {"namespace", "mode"}
        BY DEF OneChange
      <4> HIDE DEF was
      <4> QED
        BY <3>2, <4>1, <4>2, <4>3 DEF Said
    <3> QED
      BY <3>1, <3>2
  <2> QED
    BY <2>1 DEF ModesKept, OneChange
<1>11. RecordsSurvive(op, e)
  <2>1. \A a, b \in Range(d.clusters) : a.id = b.id => a = b
    BY <1>1 DEF OneOfEach, Range
  <2>2. \A b \in Range(d.clusters) : Exists(d, b.id)
    BY ExistsMeans
  <2> QED
    BY <1>3, <1>7, <2>1, <2>2 DEF RecordsSurvive, OneChange
<1>12. NothingLeft(op, e) /\ ViewsStay(op, e)
  BY <1>3, ViewsUntouched DEF NothingLeft, OneChange
<1>13. Known(e) \subseteq Known(d) \cup {id}
  BY <1>2, <1>3 DEF Known
<1> QED
  BY <1>3, <1>4, <1>6, <1>8, <1>9, <1>10, <1>11, <1>12, <1>13 DEF Left, Sound

\* A preference is its fields.
LEMMA PreferenceIsFields ==
  ASSUME NEW x \in PreferenceRecord
  PROVE  x = Preference(x.cluster, x.namespace, x.mode)
  BY DEF PreferenceRecord, Preference

\* A namespace is remembered for one cluster.
LEMMA RememberKeeps ==
  ASSUME MaxSavedViewsPerCluster \in Nat, NEW d, Sound(d), NEW id \in Nat, NEW namespace \in Nat,
         NEW e, e = RememberNamespace(d, id, namespace)[1],
         NEW op, op.before = d, op.id = id, op.do = "namespace"
  PROVE  Sound(e) /\ Left(op, e) /\ Known(e) \subseteq Known(d) \cup {id}
<1> DEFINE was == PreferenceFor(d, id)
           x == [was EXCEPT !.namespace = namespace]
<1>1. was \in PreferenceRecord /\ was.cluster = id
  <2>1. CASE Preferred(d, id)
    BY <2>1, PreferenceFound, DocumentFields DEF Sound, PreferenceFor, Range
  <2>2. CASE ~Preferred(d, id)
    BY <2>2 DEF PreferenceFor, Preference, PreferenceRecord, None
  <2> QED
    BY <2>1, <2>2
<1>2. x \in PreferenceRecord /\ x.cluster = id /\ x.namespace = namespace /\ x.mode = was.mode
  <2> HIDE DEF was
  <2> QED
    BY <1>1 DEF PreferenceRecord
<1>3. e = WithPreference(d, id, x)
  <2>1. CASE Preferred(d, id)
    BY <2>1 DEF RememberNamespace, Done, WithPreference, PreferenceFor
  <2>2. CASE ~Preferred(d, id)
    <3>1. x = Preference(id, namespace, "")
      <4>1. was.mode = ""
        BY <2>2 DEF PreferenceFor, Preference
      <4> HIDE DEF x, was
      <4> QED
        BY <1>2, <4>1, PreferenceIsFields
    <3> HIDE DEF x
    <3> QED
      BY <2>2, <3>1 DEF RememberNamespace, Done, WithPreference
  <2> QED
    BY <2>1, <2>2
<1>4. OneChange(op.do, was, x)
  BY <1>2 DEF OneChange
<1> HIDE DEF x, was
<1> QED
  BY <1>2, <1>3, <1>4, PreferenceChanged DEF was

\* What is not changed at all is kept.
LEMMA SameKeeps ==
  ASSUME NEW d, Sound(d), NEW op, op.before = d, op.do = "mode"
  PROVE  Left(op, d)
<1>1. d \in Document /\ OneOfEach(d) /\ ChoicesMean(d)
  BY DEF Sound
<1>2. NothingInherited(op, d)
  BY <1>1, NoneInherited
<1>3. ModesKept(op, d) /\ ViewsStay(op, d) /\ NothingLeft(op, d)
  BY ModesUntouched, ViewsUntouched DEF NothingLeft
<1>4. \A a, b \in Range(d.clusters) : a.id = b.id => a = b
  BY <1>1 DEF OneOfEach, Range
<1>5. RecordsSurvive(op, d)
  BY <1>4, ExistsMeans DEF RecordsSurvive
<1> QED
  BY <1>2, <1>3, <1>5 DEF Left

\* A mode is chosen for one cluster.
LEMMA ChooseKeeps ==
  ASSUME MaxSavedViewsPerCluster \in Nat, NEW d, Sound(d), NEW id \in Nat,
         NEW mode \in {"read-only", "read-write"}, SetAccessMode(d, id, mode) # Refused,
         NEW e, e = SetAccessMode(d, id, mode)[1],
         NEW op, op.before = d, op.id = id, op.do = "mode"
  PROVE  Sound(e) /\ Left(op, e) /\ Known(e) \subseteq Known(d) \cup {id}
<1> DEFINE was == PreferenceFor(d, id)
           kept == IF mode = "read-write" THEN "" ELSE mode
           x == [was EXCEPT !.mode = kept]
<1>0. d \in Document
  BY DEF Sound
<1>1. was \in PreferenceRecord /\ was.cluster = id
  <2>1. CASE Preferred(d, id)
    BY <2>1, PreferenceFound, DocumentFields DEF Sound, PreferenceFor, Range
  <2>2. CASE ~Preferred(d, id)
    BY <2>2 DEF PreferenceFor, Preference, PreferenceRecord, None
  <2> QED
    BY <2>1, <2>2
<1>2. x \in PreferenceRecord /\ x.cluster = id /\ x.mode = kept /\ x.namespace = was.namespace
  <2>1. kept \in {"", "read-only", "read-write"}
    OBVIOUS
  <2> HIDE DEF was, kept
  <2> QED
    BY <1>1, <2>1 DEF PreferenceRecord
<1> DEFINE y == [d EXCEPT !.preferences =
                   IF Preferred(d, id) THEN [@ EXCEPT ![First(d, id)].mode = kept]
                   ELSE IF kept = "" THEN @ ELSE Append(@, Preference(id, None, mode))]
<1>3. SetAccessMode(d, id, mode) = IF ~Exists(d, id) THEN Refused ELSE Done(y)
  BY DEF SetAccessMode
<1>3a. e = y
  <2> HIDE DEF y
  <2> QED
    BY <1>3 DEF Done, Refused
<1>4. CASE Preferred(d, id) \/ kept # ""
  <2>1. e = WithPreference(d, id, x)
    <3>1. CASE Preferred(d, id)
      <4> HIDE DEF kept
      <4> QED
        BY <1>3a, <3>1 DEF WithPreference, PreferenceFor
    <3>2. CASE ~Preferred(d, id) /\ kept # ""
      <4>1. kept = mode
        BY <3>2
      <4>2. x = Preference(id, None, mode)
        <5>1. was.namespace = None
          BY <3>2 DEF PreferenceFor, Preference
        <5> HIDE DEF x, was, kept
        <5> QED
          BY <1>2, <4>1, <5>1, PreferenceIsFields
      <4> HIDE DEF kept, x
      <4> QED
        BY <1>3a, <3>2, <4>1, <4>2 DEF WithPreference
    <3> QED
      BY <1>4, <3>1, <3>2
  <2>2. OneChange(op.do, was, x)
    BY <1>2 DEF OneChange
  <2> HIDE DEF x, was
  <2> QED
    BY <1>2, <2>1, <2>2, PreferenceChanged DEF was
<1>5. CASE ~Preferred(d, id) /\ kept = ""
  <2>1. e = [d EXCEPT !.preferences = d.preferences]
    BY <1>3a, <1>5
  <2>2. e = d
    BY <1>0, <2>1 DEF Document
  <2> QED
    BY <2>2, SameKeeps
<1> QED
  BY <1>4, <1>5

\* What an operation may make of one cluster.
Edit(op, b, a) ==
  /\ a.id = b.id
  /\ a # b => (op.id = a.id /\ op.do \in {"update", "archive"}) \/ op.do = "adopt"
  /\ a.archived # b.archived => op.do = "archive"
  /\ b.labels # None => a.labels # None
  /\ op.do = "archive" => CustomerKey(a) = CustomerKey(b)
  /\ op.do = "adopt" => a = [b EXCEPT !.profile = a.profile]

\* Operations that add and remove no cluster, and touch neither preferences nor
\* views.
LEMMA ClustersEdited ==
  ASSUME NEW d, Sound(d), NEW e, e \in Document, DOMAIN e.clusters = DOMAIN d.clusters,
         NEW op, op.before = d, op.do \notin {"create", "delete"},
         \A i \in DOMAIN d.clusters : Edit(op, d.clusters[i], e.clusters[i]),
         e.preferences = d.preferences, e.views = d.views,
         ChoicesMean(e), NothingInherited(op, e)
  PROVE  Sound(e) /\ Left(op, e) /\ Known(e) \subseteq Known(d)
<1>1. d \in Document /\ OneOfEach(d) /\ ChoicesMean(d) /\ ViewsBelong(d)
  BY DEF Sound
<1>2. \A i \in DOMAIN d.clusters : e.clusters[i].id = d.clusters[i].id
  BY DEF Edit
<1>3. OneOfEach(e)
  BY <1>1, <1>2 DEF OneOfEach
<1>4. \A id : Exists(e, id) <=> Exists(d, id)
  BY <1>2 DEF Exists, IndexOf
<1>5. ViewsBelong(e)
  <2>1. \A v \in Range(e.views) : Exists(e, v.cluster)
    BY <1>1, <1>4 DEF ViewsBelong
  <2>2. \A c \in Range(e.clusters) : \E b \in Range(d.clusters) : b.id = c.id
    BY <1>2 DEF Range
  <2>3. \A id : ViewsOf(e, id) = ViewsOf(d, id)
    BY DEF ViewsOf
  <2> QED
    BY <1>1, <2>1, <2>2, <2>3 DEF ViewsBelong
<1>6. ModesKept(op, e) /\ ViewsStay(op, e) /\ NothingLeft(op, e)
  BY ModesUntouched, ViewsUntouched DEF NothingLeft
<1>7. RecordsSurvive(op, e)
  <2>1. \A b \in Range(d.clusters) : Exists(e, b.id)
    BY <1>4, ExistsMeans
  <2>2. ASSUME NEW b \in Range(d.clusters), NEW a \in Range(e.clusters), a.id = b.id PROVE Edit(op, b, a)
    BY <1>1, <1>2, <2>2 DEF Range, OneOfEach
  <2> QED
    BY <2>1, <2>2 DEF RecordsSurvive, Edit
<1>8. Known(e) \subseteq Known(d)
  BY <1>2 DEF Known, Range
<1> QED
  BY <1>3, <1>5, <1>6, <1>7, <1>8 DEF Sound, Left

\* What hiding and putting away leave of a record.
Same(a, b) == /\ a.id = b.id /\ a.labels = b.labels /\ a.name = b.name /\ a.customerName = b.customerName
              /\ a.customerId = b.customerId /\ a.environmentId = b.environmentId
              /\ a.environmentName = b.environmentName /\ a.kind = b.kind

WithCluster(d, i, new) == [d EXCEPT !.clusters[i] = new]

\* Operations that replace the record of one cluster.
LEMMA ClusterReplaced ==
  ASSUME NEW d, Sound(d), NEW id \in Nat, Exists(d, id), NEW i, i = Lowest(IndexOf(d, id)),
         NEW op, op.before = d, op.do \in {"update", "archive"},
         NEW new \in ClusterRecord, Edit(op, d.clusters[i], new),
         NEW e, e = PruneCustomers(WithCluster(d, i, new))
  PROVE  /\ Sound(e) /\ Left(op, e) /\ Known(e) \subseteq Known(d)
         /\ i \in DOMAIN d.clusters /\ DOMAIN e.clusters = DOMAIN d.clusters
         /\ e.clusters[i] = new /\ \A k \in DOMAIN d.clusters : k # i => e.clusters[k] = d.clusters[k]
<1> DEFINE x == WithCluster(d, i, new)
<1>0. d \in Document /\ OneOfEach(d) /\ ChoicesMean(d)
  BY DEF Sound
<1>1. i \in DOMAIN d.clusters /\ d.clusters[i].id = id /\ d.clusters[i] \in ClusterRecord
  BY <1>0, ClusterFound, DocumentFields DEF Range
<1>2. /\ x.clusters \in Seq(ClusterRecord) /\ DOMAIN x.clusters = DOMAIN d.clusters /\ x.clusters[i] = new
      /\ \A k \in DOMAIN d.clusters : k # i => x.clusters[k] = d.clusters[k]
      /\ x \in Document /\ x.preferences = d.preferences /\ x.customers = d.customers /\ x.views = d.views
  <2> DEFINE cs == [d.clusters EXCEPT ![i] = new]
  <2>1. /\ cs \in Seq(ClusterRecord) /\ DOMAIN cs = DOMAIN d.clusters /\ cs[i] = new
        /\ \A k \in DOMAIN d.clusters : k # i => cs[k] = d.clusters[k]
    BY <1>0, <1>1, DocumentFields
  <2>2. x = [d EXCEPT !.clusters = cs]
    BY DEF WithCluster
  <2> HIDE DEF cs, x
  <2> QED
    BY <1>0, <2>1, <2>2 DEF Document
<1>2a. e = PruneCustomers(x)
  OBVIOUS
<1> HIDE DEF x
<1>3. /\ e \in Document /\ e.clusters = x.clusters /\ e.preferences = d.preferences /\ e.views = d.views
      /\ Range(e.customers) \subseteq Range(d.customers) /\ ChoicesMean(e)
  BY <1>0, <1>2, <1>2a, Pruned
<1>4. NothingInherited(op, e)
  BY <1>0, <1>3, NoneInherited
<1>5. \A k \in DOMAIN d.clusters : Edit(op, d.clusters[k], e.clusters[k])
  BY <1>2, <1>3 DEF Edit
<1> QED
  BY <1>1, <1>2, <1>3, <1>4, <1>5, ClustersEdited

\* The form is given to the one cluster, and the archive and labels survive it.
LEMMA UpdateKeeps ==
  ASSUME NEW d, Sound(d), NEW id \in Nat, NEW in \in Form, Update(d, id, in) # Refused,
         NEW e, e = Update(d, id, in)[1],
         NEW op, op.before = d, op.id = id, op.do = "update"
  PROVE  Sound(e) /\ Left(op, e) /\ Known(e) \subseteq Known(d)
<1> DEFINE i == Lowest(IndexOf(d, id))
           was == d.clusters[i]
           new == Edited(was, in)
<1>1. Exists(d, id) /\ e = PruneCustomers(WithCluster(d, i, new))
  BY DEF Update, Refused, Done, WithCluster
<1>2. was \in ClusterRecord /\ was.id = id
  BY <1>1, ClusterFound, DocumentFields DEF Range, Sound
<1>3. new \in ClusterRecord /\ Edit(op, was, new)
  <2> HIDE DEF was
  <2>2. new \in ClusterRecord /\ new.id = id /\ new.archived = was.archived
        /\ new.labels = IF in.labels = None THEN was.labels ELSE in.labels
    BY <1>2 DEF Edited, ToRecord, ClusterRecord, Form
  <2> HIDE DEF new
  <2> QED
    BY <1>2, <2>2 DEF Edit
<1> HIDE DEF new
<1> QED
  BY <1>1, <1>3, ClusterReplaced

\* Putting a cluster away leaves it its customer.
LEMMA ArchiveKeeps ==
  ASSUME NEW d, Sound(d), NEW id \in Nat, NEW archived \in BOOLEAN, SetArchived(d, id, archived) # Refused,
         NEW e, e = SetArchived(d, id, archived)[1],
         NEW op, op.before = d, op.id = id, op.do = "archive"
  PROVE  /\ Sound(e) /\ Left(op, e) /\ Known(e) \subseteq Known(d)
         /\ DOMAIN e.clusters = DOMAIN d.clusters
         /\ \A k \in DOMAIN d.clusters : Same(e.clusters[k], d.clusters[k])
<1> DEFINE i == Lowest(IndexOf(d, id))
           was == d.clusters[i]
           new == [was EXCEPT !.archived = archived]
<1>1. Exists(d, id) /\ e = PruneCustomers(WithCluster(d, i, new))
  BY DEF SetArchived, Refused, Done, WithCluster
<1>2. was \in ClusterRecord /\ was.id = id
  BY <1>1, ClusterFound, DocumentFields DEF Range, Sound
<1>3. new \in ClusterRecord /\ Edit(op, was, new) /\ Same(new, was)
  <2> HIDE DEF was
  <2>2. /\ new \in ClusterRecord /\ new.id = id /\ new.labels = was.labels
        /\ new.customerId = was.customerId /\ new.customerName = was.customerName
        /\ new.name = was.name /\ new.environmentId = was.environmentId
        /\ new.environmentName = was.environmentName /\ new.kind = was.kind
    BY <1>2 DEF ClusterRecord
  <2> HIDE DEF new
  <2> QED
    BY <1>2, <2>2 DEF Edit, CustomerKey, Same
<1> HIDE DEF new
<1>4. /\ Sound(e) /\ Left(op, e) /\ Known(e) \subseteq Known(d)
      /\ DOMAIN e.clusters = DOMAIN d.clusters
      /\ e.clusters[i] = new /\ \A k \in DOMAIN d.clusters : k # i => e.clusters[k] = d.clusters[k]
  BY <1>1, <1>3, ClusterReplaced
<1>5. \A k \in DOMAIN d.clusters : Same(e.clusters[k], d.clusters[k])
  BY <1>3, <1>4 DEF Same
<1> QED
  BY <1>4, <1>5

\* The adoption of a connection changes the references to it.
LEMMA AdoptKeeps ==
  ASSUME NEW d, Sound(d), NEW from \in Nat, NEW to \in Nat, AdoptAccessProfileID(d, from, to) # Refused,
         NEW e, e = AdoptAccessProfileID(d, from, to)[1],
         NEW op, op.before = d, op.do = "adopt"
  PROVE  Sound(e) /\ Left(op, e) /\ Known(e) \subseteq Known(d)
<1> DEFINE cs == [i \in DOMAIN d.clusters |->
                    IF d.clusters[i].profile = from THEN [d.clusters[i] EXCEPT !.profile = to] ELSE d.clusters[i]]
<1>0. d \in Document /\ ChoicesMean(d)
  BY DEF Sound
<1>1. e = [d EXCEPT !.clusters = cs]
  BY DEF AdoptAccessProfileID, Refused, Done
<1>2. ASSUME NEW i \in DOMAIN d.clusters
      PROVE  /\ cs[i] \in ClusterRecord /\ Edit(op, d.clusters[i], cs[i])
             /\ CustomerKey(cs[i]) = CustomerKey(d.clusters[i])
  <2> DEFINE b == d.clusters[i]
  <2>1. b \in ClusterRecord
    BY <1>0, DocumentFields DEF Range
  <2>2. cs[i] = b \/ cs[i] = [b EXCEPT !.profile = to]
    OBVIOUS
  <2> HIDE DEF cs, b
  <2>3. CASE cs[i] = b
    <3>1. b = [b EXCEPT !.profile = b.profile]
      BY <2>1 DEF ClusterRecord
    <3> QED
      BY <2>1, <2>3, <3>1 DEF Edit, b
  <2>4. CASE cs[i] = [b EXCEPT !.profile = to]
    <3>1. /\ cs[i] \in ClusterRecord /\ cs[i].id = b.id /\ cs[i].archived = b.archived
          /\ cs[i].labels = b.labels /\ cs[i].profile = to
          /\ cs[i].customerId = b.customerId /\ cs[i].customerName = b.customerName
      BY <2>1, <2>4 DEF ClusterRecord
    <3> QED
      BY <2>4, <3>1 DEF Edit, CustomerKey, b
  <2> QED
    BY <2>2, <2>3, <2>4
<1>3. cs \in Seq(ClusterRecord) /\ DOMAIN cs = DOMAIN d.clusters
  <2> DEFINE n == Len(d.clusters)
  <2>1. n \in Nat /\ DOMAIN d.clusters = 1..n
    BY <1>0, DocumentFields
  <2> HIDE DEF n
  <2>2. cs \in [1..n -> ClusterRecord]
    BY <1>2, <2>1
  <2> HIDE DEF cs
  <2> QED
    BY <2>1, <2>2
<1> HIDE DEF cs
<1>4. /\ e \in Document /\ e.clusters = cs /\ e.preferences = d.preferences
      /\ e.customers = d.customers /\ e.views = d.views
  BY <1>0, <1>1, <1>3 DEF Document
<1>5. \A k : CustomerInUse(d, k) => CustomerInUse(e, k)
  BY <1>2, <1>3, <1>4 DEF CustomerInUse, Range
<1>6. ChoicesMean(e)
  BY <1>0, <1>4, <1>5 DEF ChoicesMean
<1>7. NothingInherited(op, e)
  BY <1>0, <1>4, <1>6, NoneInherited
<1> QED
  BY <1>2, <1>3, <1>4, <1>6, <1>7, ClustersEdited

\* What is kept of a choice says that it is none of the default.
LEMMA HideShows ==
  ASSUME NEW d, Sound(d), NEW key \in Int, NEW hidden \in BOOLEAN, SetGroupHidden(d, key, hidden) # Refused,
         NEW e, e = SetGroupHidden(d, key, hidden)[1]
  PROVE  /\ e \in Document /\ e.clusters = d.clusters /\ e.preferences = d.preferences /\ e.views = d.views
         /\ ChoicesMean(e) /\ HiddenFor(e, key) = hidden
<1> DEFINE S == {c \in Range(d.customers) : c.key # key}
           others == Keeping(d.customers, S)
           added == [key |-> key, hidden |-> hidden]
           cs == IF hidden = GroupHiddenByDefault(key) THEN others ELSE Append(others, added)
<1>0. d \in Document /\ OneOfEach(d) /\ ChoicesMean(d)
  BY DEF Sound
<1>1. CanHideGroup(key) /\ (key = ArchivedKey \/ CustomerInUse(d, key)) /\ e = [d EXCEPT !.customers = cs]
  BY DEF SetGroupHidden, Refused, Done
<1>2. others \in Seq(CustomerRecord) /\ Range(others) = S /\ Once(others, CustomerKeys)
  <2>1. Once(d.customers, CustomerKeys) /\ d.customers \in Seq(CustomerRecord)
    BY <1>0, ChoicesOnce, DocumentFields
  <2>2. S \subseteq Range(d.customers)
    OBVIOUS
  <2> HIDE DEF S
  <2>3. Range(others) = Range(d.customers) \cap S
    BY <2>1, RangeOfKept
  <2> QED
    BY <2>1, <2>2, <2>3, KeepingLists, OnceKept
<1>3. added \in CustomerRecord /\ added.key = key /\ added.hidden = hidden /\ CustomerKeys[added] = key
  BY DEF CustomerRecord, CustomerKeys
<1>4. \A c \in Range(others) : c.key # key /\ CustomerKeys[c] # key
  <2>1. \A c \in S : c.key # key
    OBVIOUS
  <2>2. \A c \in Range(others) : c \in CustomerRecord
    BY <1>0, <1>2, DocumentFields
  <2> QED
    BY <1>2, <2>1, <2>2 DEF CustomerKeys
<1>5. S \subseteq Range(d.customers)
  OBVIOUS
<1> HIDE DEF S, others, added
<1>6. /\ cs \in Seq(CustomerRecord) /\ Once(cs, CustomerKeys)
      /\ Range(cs) = IF hidden = GroupHiddenByDefault(key) THEN Range(others) ELSE Range(others) \cup {added}
  <2>1. \A y \in Range(others) : CustomerKeys[y] # CustomerKeys[added]
    BY <1>3, <1>4
  <2>2. /\ Append(others, added) \in Seq(CustomerRecord) /\ Once(Append(others, added), CustomerKeys)
        /\ Range(Append(others, added)) = Range(others) \cup {added}
    BY <1>2, <1>3, <2>1, OnceAppended
  <2> QED
    BY <1>2, <2>2
<1> HIDE DEF cs
<1>7. /\ e \in Document /\ e.clusters = d.clusters /\ e.preferences = d.preferences
      /\ e.customers = cs /\ e.views = d.views
  BY <1>0, <1>1, <1>6 DEF Document
<1>8. \A c \in Range(cs) : /\ c \in Range(d.customers) \/ c = added
                           /\ c.hidden # GroupHiddenByDefault(c.key)
                           /\ c.key = ArchivedKey \/ CustomerInUse(e, c.key)
  <2>1. \A k : CustomerInUse(d, k) <=> CustomerInUse(e, k)
    BY <1>7 DEF CustomerInUse
  <2>2. \A c \in Range(d.customers) : /\ c.hidden # GroupHiddenByDefault(c.key)
                                      /\ c.key = ArchivedKey \/ CustomerInUse(d, c.key)
    BY <1>0 DEF ChoicesMean, Range
  <2> QED
    BY <1>1, <1>2, <1>3, <1>5, <1>6, <2>1, <2>2
<1>9. ChoicesMean(e)
  <2>1. \A i \in DOMAIN cs : cs[i] \in Range(cs) /\ CustomerKeys[cs[i]] = cs[i].key
    <3>1. \A i \in DOMAIN cs : cs[i] \in Range(cs) /\ cs[i] \in CustomerRecord
      BY <1>6 DEF Range
    <3> QED
      BY <3>1 DEF CustomerKeys
  <2> QED
    BY <1>6, <1>7, <1>8, <2>1 DEF ChoicesMean, Once
<1>10. HiddenFor(e, key) = hidden
  <2>1. HiddenFor(e, key) <=>
           /\ key # Ungrouped
           /\ \/ \E c \in Range(cs) : c.key = key /\ c.hidden
              \/ key = ArchivedKey /\ \A c \in Range(cs) : c.key # key
    BY <1>7, <1>9, HiddenMeans
  <2>2. HiddenFor(e, key) \in BOOLEAN
    BY DEF HiddenFor
  <2>3. CASE hidden = GroupHiddenByDefault(key)
    <3>1. \A c \in Range(cs) : c.key # key
      BY <1>4, <1>6, <2>3
    <3> QED
      BY <1>1, <2>1, <2>2, <2>3, <3>1 DEF GroupHiddenByDefault, CanHideGroup
  <2>4. CASE hidden # GroupHiddenByDefault(key)
    <3>1. added \in Range(cs) /\ \A c \in Range(cs) : c.key = key => c = added
      BY <1>4, <1>6, <2>4
    <3> QED
      BY <1>1, <1>3, <2>1, <2>2, <2>4, <3>1 DEF CanHideGroup
  <2> QED
    BY <2>3, <2>4
<1> QED
  BY <1>7, <1>9, <1>10

\* A choice changes nothing else.
LEMMA HideKeeps ==
  ASSUME NEW d, Sound(d), NEW key \in Int, NEW hidden \in BOOLEAN, SetGroupHidden(d, key, hidden) # Refused,
         NEW e, e = SetGroupHidden(d, key, hidden)[1],
         NEW op, op.before = d, op.do = "hide"
  PROVE  Sound(e) /\ Left(op, e) /\ Known(e) \subseteq Known(d)
<1>1. /\ e \in Document /\ e.clusters = d.clusters /\ e.preferences = d.preferences /\ e.views = d.views
      /\ ChoicesMean(e)
  BY HideShows
<1>2. NothingInherited(op, e)
  BY <1>1 DEF NothingInherited, CustomerInUse
<1>3. \A i \in DOMAIN d.clusters : Edit(op, d.clusters[i], e.clusters[i])
  BY <1>1 DEF Edit
<1> QED
  BY <1>1, <1>2, <1>3, ClustersEdited

\* A cluster is added with an identifier that was never given: nothing is found
\* of it, and it finds nothing.
LEMMA CreateKeeps ==
  ASSUME MaxSavedViewsPerCluster \in Nat, NEW d, Sound(d), NEW id \in Nat, id \notin Known(d),
         NEW in \in Form, Create(d, in, id) # Refused,
         NEW e, e = Create(d, in, id)[1],
         NEW op, op.before = d, op.id = id, op.do = "create", op.with = in
  PROVE  Sound(e) /\ Left(op, e) /\ Known(e) \subseteq Known(d) \cup {id}
<1> DEFINE mode == DefaultAccessMode(in)
           new == ToRecord(in, id)
           cs == Append(d.clusters, new)
           pref == Preference(id, None, mode)
           ps == IF mode = "read-write" THEN d.preferences ELSE Append(d.preferences, pref)
<1>0. d \in Document /\ OneOfEach(d) /\ ChoicesMean(d) /\ ViewsBelong(d)
  BY DEF Sound
<1>1. /\ \A c \in Range(d.clusters) : c.context # in.context
      /\ e = [d EXCEPT !.clusters = cs, !.preferences = ps]
  BY DEF Create, Refused, Done
<1>2. mode = (IF in.kind = "production" THEN "read-only" ELSE "read-write")
  BY DEF DefaultAccessMode
<1>3. new \in ClusterRecord /\ new.id = id /\ new.context = in.context
  BY DEF ToRecord, ClusterRecord, Form
<1>4. /\ pref \in PreferenceRecord /\ pref.cluster = id /\ pref.namespace = None
      /\ pref.mode = mode /\ Said(pref) = mode
  BY <1>2 DEF Preference, PreferenceRecord, Said, None
<1> HIDE DEF new, pref, mode
<1>5. /\ \A c \in Range(d.clusters) : c.id # id
      /\ \A p \in Range(d.preferences) : p.cluster # id
  BY DEF Known
<1>6. cs \in Seq(ClusterRecord) /\ Once(cs, ClusterKeys) /\ Range(cs) = Range(d.clusters) \cup {new}
  <2>1. d.clusters \in Seq(ClusterRecord) /\ Once(d.clusters, ClusterKeys)
    BY <1>0, DocumentFields, OneOfEachMeans
  <2>2. \A y \in Range(d.clusters) : ClusterKeys[y] # ClusterKeys[new]
    BY <1>0, <1>3, <1>5, DocumentFields DEF ClusterKeys
  <2> QED
    BY <1>3, <2>1, <2>2, OnceAppended
<1>7. /\ ps \in Seq(PreferenceRecord) /\ Once(ps, PreferenceKeys)
      /\ Range(ps) = IF mode = "read-write" THEN Range(d.preferences) ELSE Range(d.preferences) \cup {pref}
  <2>1. d.preferences \in Seq(PreferenceRecord) /\ Once(d.preferences, PreferenceKeys)
    BY <1>0, DocumentFields, OneOfEachMeans
  <2>2. \A y \in Range(d.preferences) : PreferenceKeys[y] # PreferenceKeys[pref]
    BY <1>0, <1>4, <1>5, DocumentFields DEF PreferenceKeys
  <2>3. /\ Append(d.preferences, pref) \in Seq(PreferenceRecord) /\ Once(Append(d.preferences, pref), PreferenceKeys)
        /\ Range(Append(d.preferences, pref)) = Range(d.preferences) \cup {pref}
    BY <1>4, <2>1, <2>2, OnceAppended
  <2> QED
    BY <2>1, <2>3
<1> HIDE DEF cs, ps
<1>8. /\ e \in Document /\ e.clusters = cs /\ e.preferences = ps
      /\ e.customers = d.customers /\ e.views = d.views
  BY <1>0, <1>1, <1>6, <1>7 DEF Document
<1>9. OneOfEach(e)
  BY <1>0, <1>6, <1>7, <1>8, OneOfEachMeans
<1>10. \A k : CustomerInUse(d, k) => CustomerInUse(e, k)
  BY <1>6, <1>8 DEF CustomerInUse
<1>11. ChoicesMean(e)
  BY <1>0, <1>8, <1>10 DEF ChoicesMean
<1>12. \A k : Exists(e, k) <=> Exists(d, k) \/ k = id
  BY <1>3, <1>6, <1>8, ExistsMeans
<1>13. ViewsBelong(e)
  <2>1. \A v \in Range(e.views) : Exists(e, v.cluster)
    BY <1>0, <1>8, <1>12 DEF ViewsBelong
  <2> QED
    BY <1>0, <1>8, <2>1, ViewsKept
<1>14. NothingInherited(op, e)
  BY <1>0, <1>8, <1>11, NoneInherited
<1>15. ModesKept(op, e)
  <2>1. ASSUME NEW c \in Range(d.clusters)
        PROVE  AccessMode(e, c.id) = AccessMode(d, c.id) /\ Namespace(e, c.id) = Namespace(d, c.id)
    <3>1. \A p : p.cluster = c.id => (p \in Range(d.preferences) <=> p \in Range(e.preferences))
      BY <1>4, <1>5, <1>7, <1>8
    <3> QED
      BY <1>0, <1>8, <1>9, <3>1, ModeCarried
  <2>2. AccessMode(e, id) = mode /\ Namespace(e, id) = None
    <3>1. CASE mode = "read-write"
      <4>1. ~Preferred(e, id)
        BY <1>5, <1>7, <1>8, <3>1, PreferredMeans
      <4> QED
        BY <3>1, <4>1, ModeOfNone
    <3>2. CASE mode # "read-write"
      <4>1. pref \in Range(e.preferences)
        BY <1>7, <1>8, <3>2
      <4> QED
        BY <1>4, <1>8, <1>9, <4>1, ModeIsSaid
    <3> QED
      BY <3>1, <3>2
  <2>3. /\ in.kind = "production" => mode = "read-only" /\ IsProduction(ToRecord(in, id))
        /\ in.kind # "production" => mode = "read-write"
    <3>1. in.kind = "production" => EnvironmentKind(ToRecord(in, id)) = "production"
      BY DEF EnvironmentKind, ToRecord
    <3> QED
      BY <1>2, <3>1 DEF IsProduction, DefaultAccessMode
  <2> QED
    BY <1>2, <2>1, <2>2, <2>3 DEF ModesKept
<1>16. RecordsSurvive(op, e)
  <2>1. \A a, b \in Range(d.clusters) : a.id = b.id => a = b
    BY <1>0 DEF OneOfEach, Range
  <2>2. \A b \in Range(d.clusters) : Exists(e, b.id)
    BY <1>12, ExistsMeans
  <2>3. \A b \in Range(d.clusters), a \in Range(e.clusters) : a.id = b.id => a = b
    BY <1>3, <1>5, <1>6, <1>8, <2>1
  <2> QED
    BY <2>2, <2>3 DEF RecordsSurvive
<1>17. NothingLeft(op, e)
  BY <1>1, <1>3, <1>5, <1>6, <1>8 DEF NothingLeft
<1>18. ViewsStay(op, e)
  BY <1>8, ViewsUntouched
<1>19. Known(e) \subseteq Known(d) \cup {id}
  BY <1>3, <1>4, <1>6, <1>7, <1>8 DEF Known
<1> QED
  BY <1>8, <1>9, <1>11, <1>13, <1>14, <1>15, <1>16, <1>17, <1>18, <1>19 DEF Sound, Left

\* A cluster goes with its preference and its views, and nothing else does but
\* what was chosen for a customer of which it was the last.
LEMMA DeleteKeeps ==
  ASSUME MaxSavedViewsPerCluster \in Nat, NEW d, Sound(d), NEW id \in Nat, Delete(d, id) # Refused,
         NEW e, e = Delete(d, id)[1],
         NEW op, op.before = d, op.id = id, op.do = "delete"
  PROVE  Sound(e) /\ Left(op, e) /\ Known(e) \subseteq Known(d)
<1> DEFINE C == {c \in Range(d.clusters) : c.id # id}
           P == {p \in Range(d.preferences) : p.cluster # id}
           V == {v \in Range(d.views) : v.cluster # id}
           cs == Keeping(d.clusters, C)
           ps == Keeping(d.preferences, P)
           vs == Keeping(d.views, V)
           x == [d EXCEPT !.clusters = cs, !.preferences = ps, !.views = vs]
<1>0. d \in Document /\ OneOfEach(d) /\ ChoicesMean(d) /\ ViewsBelong(d)
  BY DEF Sound
<1>1. e = PruneCustomers(x)
  BY DEF Delete, Refused, Done
<1>2. C \subseteq Range(d.clusters) /\ P \subseteq Range(d.preferences) /\ V \subseteq Range(d.views)
  OBVIOUS
<1>3. /\ \A c : c \in C <=> c \in Range(d.clusters) /\ c.id # id
      /\ \A p : p \in P <=> p \in Range(d.preferences) /\ p.cluster # id
      /\ \A v : v \in V <=> v \in Range(d.views) /\ v.cluster # id
  OBVIOUS
<1> HIDE DEF C, P, V
<1>4. /\ d.clusters \in Seq(ClusterRecord) /\ Once(d.clusters, ClusterKeys)
      /\ d.preferences \in Seq(PreferenceRecord) /\ Once(d.preferences, PreferenceKeys)
      /\ d.views \in Seq(SavedViewRecord) /\ Once(d.views, ViewKeys)
  BY <1>0, DocumentFields, OneOfEachMeans
<1>5. cs \in Seq(ClusterRecord) /\ Once(cs, ClusterKeys) /\ Range(cs) = C
  BY <1>2, <1>4, KeptList
<1>6. ps \in Seq(PreferenceRecord) /\ Once(ps, PreferenceKeys) /\ Range(ps) = P
  BY <1>2, <1>4, KeptList
<1>7. vs \in Seq(SavedViewRecord) /\ Once(vs, ViewKeys) /\ Range(vs) = V
  BY <1>2, <1>4, KeptList
<1> HIDE DEF cs, ps
<1>8. /\ x \in Document /\ x.clusters = cs /\ x.preferences = ps /\ x.customers = d.customers /\ x.views = vs
  <2> HIDE DEF vs
  <2> QED
    BY <1>0, <1>5, <1>6, <1>7 DEF Document
<1> HIDE DEF x
<1>9. /\ e \in Document /\ e.clusters = cs /\ e.preferences = ps /\ e.views = vs
      /\ Range(e.customers) \subseteq Range(d.customers) /\ ChoicesMean(e)
  BY <1>0, <1>1, <1>8, Pruned
<1>10. OneOfEach(e)
  BY <1>5, <1>6, <1>7, <1>9, OneOfEachMeans
<1>11. \A k : Exists(e, k) <=> Exists(d, k) /\ k # id
  BY <1>3, <1>5, <1>9, ExistsMeans
<1>12. ViewsBelong(e)
  <2>1. \A v \in Range(e.views) : Exists(e, v.cluster)
    BY <1>0, <1>3, <1>7, <1>9, <1>11 DEF ViewsBelong
  <2> QED
    BY <1>0, <1>9, <2>1, ViewsKept
<1>13. NothingInherited(op, e)
  BY <1>0, <1>9, NoneInherited
<1>14. ModesKept(op, e)
  <2>1. ASSUME NEW c \in Range(d.clusters), Exists(e, c.id)
        PROVE  AccessMode(e, c.id) = AccessMode(d, c.id) /\ Namespace(e, c.id) = Namespace(d, c.id)
    <3>1. c.id # id
      BY <1>11, <2>1
    <3>2. \A p : p.cluster = c.id => (p \in Range(d.preferences) <=> p \in Range(e.preferences))
      BY <1>3, <1>6, <1>9, <3>1
    <3> QED
      BY <1>0, <1>9, <1>10, <3>2, ModeCarried
  <2> QED
    BY <2>1 DEF ModesKept
<1>15. RecordsSurvive(op, e)
  <2>1. \A a, b \in Range(d.clusters) : a.id = b.id => a = b
    BY <1>0 DEF OneOfEach, Range
  <2>2. \A b \in Range(d.clusters) : Exists(e, b.id) \/ b.id = id
    BY <1>11, ExistsMeans
  <2>3. \A b \in Range(d.clusters), a \in Range(e.clusters) : a.id = b.id => a = b
    BY <1>3, <1>5, <1>9, <2>1
  <2> QED
    BY <2>2, <2>3 DEF RecordsSurvive
<1>16. NothingLeft(op, e)
  <2>1. ~Exists(e, id)
    BY <1>11
  <2>2. ~Preferred(e, id)
    BY <1>3, <1>6, <1>9, PreferredMeans
  <2>3. ViewsOf(e, id) = {}
    BY <1>3, <1>7, <1>9 DEF ViewsOf, Range
  <2> QED
    BY <2>1, <2>2, <2>3 DEF NothingLeft
<1>17. ViewsStay(op, e)
  BY <1>3, <1>7, <1>9 DEF ViewsStay
<1>18. Known(e) \subseteq Known(d)
  BY <1>2, <1>5, <1>6, <1>9 DEF Known
<1> QED
  BY <1>9, <1>10, <1>12, <1>13, <1>14, <1>15, <1>16, <1>17, <1>18 DEF Sound, Left

\* Operations that change the views only.
LEMMA ViewsChanged ==
  ASSUME NEW d, Sound(d), NEW vs \in Seq(SavedViewRecord), Once(vs, ViewKeys),
         NEW e, e = [d EXCEPT !.views = vs], ViewsBelong(e),
         NEW op, op.before = d, op.do \in {"save", "drop"}, ViewsStay(op, e)
  PROVE  Sound(e) /\ Left(op, e) /\ Known(e) \subseteq Known(d)
<1>0. d \in Document /\ OneOfEach(d) /\ ChoicesMean(d)
  BY DEF Sound
<1>1. /\ e \in Document /\ e.clusters = d.clusters /\ e.preferences = d.preferences
      /\ e.customers = d.customers /\ e.views = vs
  BY <1>0 DEF Document
<1>2. OneOfEach(e)
  BY <1>0, <1>1, OneOfEachMeans
<1>3. \A k : CustomerInUse(e, k) <=> CustomerInUse(d, k)
  BY <1>1 DEF CustomerInUse
<1>4. ChoicesMean(e)
  BY <1>0, <1>1, <1>3 DEF ChoicesMean
<1>5. NothingInherited(op, e) /\ ModesKept(op, e) /\ NothingLeft(op, e)
  BY <1>0, <1>1, <1>4, NoneInherited, ModesUntouched DEF NothingLeft
<1>6. RecordsSurvive(op, e)
  <2>1. \A a, b \in Range(d.clusters) : a.id = b.id => a = b
    BY <1>0 DEF OneOfEach, Range
  <2>2. \A b \in Range(d.clusters) : Exists(e, b.id)
    BY <1>1, ExistsMeans
  <2> QED
    BY <1>1, <2>1, <2>2 DEF RecordsSurvive
<1>7. Known(e) \subseteq Known(d)
  BY <1>1 DEF Known
<1> QED
  BY <1>1, <1>2, <1>4, <1>5, <1>6, <1>7 DEF Sound, Left

\* Dropping a view drops no other.
LEMMA DropKeeps ==
  ASSUME MaxSavedViewsPerCluster \in Nat, NEW d, Sound(d), NEW cluster, NEW id,
         DeleteView(d, cluster, id) # Refused,
         NEW e, e = DeleteView(d, cluster, id)[1],
         NEW op, op.before = d, op.id = cluster, op.with = id, op.do = "drop"
  PROVE  Sound(e) /\ Left(op, e) /\ Known(e) \subseteq Known(d)
<1> DEFINE V == {v \in Range(d.views) : v.cluster # cluster \/ v.id # id}
           vs == Keeping(d.views, V)
<1>0. d \in Document /\ OneOfEach(d) /\ ViewsBelong(d)
  BY DEF Sound
<1>1. e = [d EXCEPT !.views = vs]
  BY DEF DeleteView, Refused, Done
<1>2. /\ V \subseteq Range(d.views)
      /\ \A v : v \in V <=> v \in Range(d.views) /\ (v.cluster # cluster \/ v.id # id)
  OBVIOUS
<1> HIDE DEF V
<1>3. vs \in Seq(SavedViewRecord) /\ Once(vs, ViewKeys) /\ Range(vs) = V
  <2>1. d.views \in Seq(SavedViewRecord) /\ Once(d.views, ViewKeys)
    BY <1>0, DocumentFields, OneOfEachMeans
  <2> QED
    BY <1>2, <2>1, KeptList
<1>4. e \in Document /\ e.clusters = d.clusters /\ e.views = vs
  <2> HIDE DEF vs
  <2> QED
    BY <1>0, <1>1, <1>3 DEF Document
<1>5. ViewsBelong(e)
  <2>1. \A v \in Range(e.views) : Exists(e, v.cluster)
    BY <1>0, <1>2, <1>3, <1>4, ExistsMeans DEF ViewsBelong
  <2> QED
    BY <1>0, <1>4, <2>1, ViewsKept
<1>6. ViewsStay(op, e)
  BY <1>2, <1>3, <1>4 DEF ViewsStay
<1> QED
  BY <1>1, <1>3, <1>5, <1>6, ViewsChanged

\* A new view is one more of its cluster, of which there were few enough.
LEMMA ViewAdded ==
  ASSUME MaxSavedViewsPerCluster \in Nat, NEW d \in Document, ViewsBelong(d), NEW new \in SavedViewRecord,
         Exists(d, new.cluster), Cardinality(ViewsOf(d, new.cluster)) < MaxSavedViewsPerCluster,
         NEW e \in Document, e.clusters = d.clusters, e.views = Append(d.views, new)
  PROVE  ViewsBelong(e)
<1> DEFINE n == Len(d.views)
<1>1. /\ n \in Nat /\ DOMAIN d.views = 1..n /\ DOMAIN e.views = 1..(n + 1) /\ e.views[n + 1] = new
      /\ \A i \in 1..n : e.views[i] = d.views[i]
  BY DocumentFields
<1>2. \A k : Exists(e, k) <=> Exists(d, k)
  BY DEF Exists, IndexOf
<1> HIDE DEF n
<1>3. \A v \in Range(e.views) : Exists(e, v.cluster)
  BY <1>1, <1>2 DEF ViewsBelong, Range
<1>4. ASSUME NEW id PROVE Cardinality(ViewsOf(e, id)) <= MaxSavedViewsPerCluster
  <2>1. IsFiniteSet(ViewsOf(d, id)) /\ Cardinality(ViewsOf(d, id)) <= MaxSavedViewsPerCluster
    BY ViewsAreFew
  <2>2. CASE id = new.cluster
    <3>1. ViewsOf(e, id) = ViewsOf(d, id) \cup {n + 1} /\ n + 1 \notin ViewsOf(d, id)
      BY <1>1, <2>2 DEF ViewsOf
    <3>2. Cardinality(ViewsOf(e, id)) = Cardinality(ViewsOf(d, id)) + 1
      BY <2>1, <3>1, FS_AddElement
    <3>3. Cardinality(ViewsOf(d, id)) \in Nat
      BY <2>1, FS_CardinalityType
    <3> QED
      BY <2>2, <3>2, <3>3
  <2>3. CASE id # new.cluster
    <3>1. ViewsOf(e, id) = ViewsOf(d, id)
      BY <1>1, <2>3 DEF ViewsOf
    <3> QED
      BY <2>1, <3>1
  <2> QED
    BY <2>2, <2>3
<1> QED
  BY <1>3, <1>4 DEF ViewsBelong

\* Saving a view makes a new one or replaces the one it names.
LEMMA SaveKeeps ==
  ASSUME MaxSavedViewsPerCluster \in Nat, NEW d, Sound(d),
         NEW in \in SavedViewRecord, NEW fresh \in Nat, \A v \in Range(d.views) : v.id # fresh,
         SaveView(d, in, fresh) # Refused, NEW e, e = SaveView(d, in, fresh)[1],
         NEW op, op.before = d, op.id = in.cluster, op.with = in.id, op.do = "save"
  PROVE  Sound(e) /\ Left(op, e) /\ Known(e) \subseteq Known(d)
<1> DEFINE same == {i \in ViewsOf(d, in.cluster) : d.views[i].id = in.id}
           new == [in EXCEPT !.id = fresh]
<1>0. d \in Document /\ OneOfEach(d) /\ ViewsBelong(d)
  BY DEF Sound
<1>1. Exists(d, in.cluster)
  BY DEF SaveView, Refused
<1>2. d.views \in Seq(SavedViewRecord) /\ Once(d.views, ViewKeys)
  BY <1>0, DocumentFields, OneOfEachMeans
<1>3. CASE in.id = None
  <2> DEFINE vs == Append(d.views, new)
  <2>1. /\ Cardinality(ViewsOf(d, in.cluster)) < MaxSavedViewsPerCluster
        /\ e = [d EXCEPT !.views = vs]
    <3>1. IsFiniteSet(ViewsOf(d, in.cluster)) /\ Cardinality(ViewsOf(d, in.cluster)) <= MaxSavedViewsPerCluster
      BY <1>0, ViewsAreFew
    <3>2. Cardinality(ViewsOf(d, in.cluster)) \in Nat
      BY <3>1, FS_CardinalityType
    <3>3. ~(Cardinality(ViewsOf(d, in.cluster)) >= MaxSavedViewsPerCluster) /\ e = [d EXCEPT !.views = vs]
      BY <1>3 DEF SaveView, Refused, Done
    <3> QED
      BY <3>2, <3>3
  <2>2. new \in SavedViewRecord /\ new.cluster = in.cluster /\ new.id = fresh
    BY DEF SavedViewRecord
  <2> HIDE DEF new
  <2>3. vs \in Seq(SavedViewRecord) /\ Once(vs, ViewKeys) /\ Range(vs) = Range(d.views) \cup {new}
    <3>1. \A y \in Range(d.views) : ViewKeys[y] # ViewKeys[new]
      BY <1>0, <2>2, DocumentFields DEF ViewKeys
    <3> QED
      BY <1>2, <2>2, <3>1, OnceAppended
  <2>4. e \in Document /\ e.clusters = d.clusters /\ e.views = vs
    <3> HIDE DEF vs
    <3> QED
      BY <1>0, <2>1, <2>3 DEF Document
  <2>5. ViewsBelong(e)
    BY <1>0, <1>1, <2>1, <2>2, <2>4, ViewAdded
  <2>6. ViewsStay(op, e)
    BY <2>3, <2>4 DEF ViewsStay
  <2> QED
    BY <2>1, <2>3, <2>5, <2>6, ViewsChanged
<1>4. CASE in.id # None
  <2> DEFINE i == Lowest(same)
             vs == [d.views EXCEPT ![i] = in]
  <2>1. same # {} /\ e = [d EXCEPT !.views = vs]
    <3>1. same # {}
      BY <1>4 DEF SaveView, Refused
    <3>2. SaveView(d, in, fresh) = Done([d EXCEPT !.views[i] = in])
      BY <1>1, <1>4, <3>1 DEF SaveView, Refused
    <3> QED
      BY <3>1, <3>2 DEF Done
  <2>2. i \in DOMAIN d.views /\ d.views[i].cluster = in.cluster /\ d.views[i].id = in.id
    <3>1. same \subseteq DOMAIN d.views
      BY DEF ViewsOf
    <3>2. IsFiniteSet(same) /\ same \subseteq Int
      BY <1>0, <3>1, DocumentFields, PlacesAreFinite
    <3>3. \A k \in same : k \in DOMAIN d.views /\ d.views[k].cluster = in.cluster /\ d.views[k].id = in.id
      BY DEF ViewsOf
    <3> HIDE DEF same
    <3> QED
      BY <2>1, <3>2, <3>3, LowestIsFirst
  <2> HIDE DEF i
  <2>3. /\ vs \in Seq(SavedViewRecord) /\ Once(vs, ViewKeys)
        /\ Range(vs) = (Range(d.views) \ {d.views[i]}) \cup {in}
    <3>1. ViewKeys[in] = ViewKeys[d.views[i]]
      BY <1>0, <2>2, DocumentFields DEF ViewKeys, Range
    <3>2. Replaced(vs, d.views, i, in)
      BY <2>2 DEF Replaced
    <3> HIDE DEF vs
    <3>3. vs \in Seq(SavedViewRecord) /\ Once(vs, ViewKeys)
      BY <1>2, <3>1, <3>2, OnceReplaced
    <3>4. Swapped(vs, d.views, d.views[i], in)
      BY <1>2, <3>1, <3>2, OnceReplaced
    <3> QED
      BY <3>3, <3>4 DEF Swapped
  <2>4. /\ DOMAIN vs = DOMAIN d.views /\ vs[i] = in
        /\ \A k \in DOMAIN d.views : k # i => vs[k] = d.views[k]
    BY <1>2, <2>2
  <2> HIDE DEF vs
  <2>5. e \in Document /\ e.clusters = d.clusters /\ e.views = vs
    BY <1>0, <2>1, <2>3 DEF Document
  <2>6. \A id : ViewsOf(e, id) = ViewsOf(d, id)
    BY <2>2, <2>3, <2>4, <2>5 DEF ViewsOf
  <2>7. ViewsBelong(e)
    <3>1. \A v \in Range(e.views) : Exists(e, v.cluster)
      BY <1>0, <1>1, <2>3, <2>5, ExistsMeans DEF ViewsBelong
    <3> QED
      BY <1>0, <2>5, <2>6, <3>1 DEF ViewsBelong
  <2>8. ViewsStay(op, e)
    BY <2>2, <2>3, <2>5 DEF ViewsStay
  <2> QED
    BY <2>1, <2>3, <2>7, <2>8, ViewsChanged
<1> QED
  BY <1>3, <1>4

-----------------------------------------------------------------------------
(* The list and its sections.                                              *)

Ahead(d) == {p \in (DOMAIN d.clusters) \X (DOMAIN d.clusters) :
               ClusterEarlier(d.clusters[p[1]], d.clusters[p[2]])}
Order(d) == StableOrder(d.clusters, Ahead(d))

\* No cluster is earlier than itself by way of others.
LEMMA ClustersRank ==
  ASSUME NEW d \in Document
  PROVE  Ranks(Ahead(d), DOMAIN d.clusters)
<1>1. \A i \in DOMAIN d.clusters : d.clusters[i].customerName \in Nat /\ d.clusters[i].name \in Nat
  <2>1. \A i \in DOMAIN d.clusters : d.clusters[i] \in ClusterRecord
    BY DocumentFields DEF Range
  <2> QED
    BY <2>1 DEF ClusterRecord
<1>2. \A i, k \in DOMAIN d.clusters : <<i, k>> \in Ahead(d) <=> ClusterEarlier(d.clusters[i], d.clusters[k])
  BY DEF Ahead
<1>3. \A i \in DOMAIN d.clusters : IsProduction(d.clusters[i]) \in BOOLEAN
  BY DEF IsProduction
<1>4. \A i, k \in DOMAIN d.clusters :
        ClusterEarlier(d.clusters[i], d.clusters[k]) => ~ClusterEarlier(d.clusters[k], d.clusters[i])
  BY <1>1, <1>3 DEF ClusterEarlier
<1>5. \A i, j, k \in DOMAIN d.clusters :
        ClusterEarlier(d.clusters[i], d.clusters[k]) =>
          ClusterEarlier(d.clusters[i], d.clusters[j]) \/ ClusterEarlier(d.clusters[j], d.clusters[k])
  BY <1>1, <1>3 DEF ClusterEarlier
<1> QED
  BY <1>2, <1>4, <1>5 DEF Ranks

\* The list holds every cluster once, in its order.
LEMMA AllListsAll ==
  ASSUME NEW d \in Document
  PROVE  /\ All(d) \in Seq(ClusterRecord) /\ DOMAIN All(d) = DOMAIN d.clusters
         /\ Order(d) \in [DOMAIN d.clusters -> DOMAIN d.clusters]
         /\ \A i, k \in DOMAIN d.clusters : Order(d)[i] = Order(d)[k] => i = k
         /\ \A p \in DOMAIN d.clusters : \E i \in DOMAIN d.clusters : Order(d)[i] = p
         /\ \A i \in DOMAIN d.clusters : All(d)[i] = d.clusters[Order(d)[i]]
         /\ Range(All(d)) = Range(d.clusters)
         /\ ListedInOrder(d)
<1> DEFINE seq == d.clusters
<1>1. seq \in Seq(ClusterRecord) /\ Ranks(Ahead(d), DOMAIN seq)
  BY DocumentFields, ClustersRank
<1>2. All(d) = Stable(seq, Ahead(d))
  BY DEF All, Ahead
<1>3. /\ Order(d) \in [DOMAIN seq -> DOMAIN seq]
      /\ \A i, k \in DOMAIN seq : Order(d)[i] = Order(d)[k] => i = k
      /\ \A p \in DOMAIN seq : \E i \in DOMAIN seq : Order(d)[i] = p
      /\ \A i, k \in DOMAIN seq : i < k => <<Order(d)[k], Order(d)[i]>> \notin Ahead(d)
      /\ All(d) \in Seq(ClusterRecord) /\ DOMAIN All(d) = DOMAIN seq
      /\ \A i \in DOMAIN seq : All(d)[i] = seq[Order(d)[i]]
  BY <1>1, <1>2, StableSorts DEF Order
<1>4. \A i, k \in DOMAIN seq : <<i, k>> \in Ahead(d) <=> ClusterEarlier(seq[i], seq[k])
  BY DEF Ahead
<1> HIDE DEF seq
<1>5. Range(All(d)) = Range(seq)
  <2>1. \A i \in DOMAIN seq : All(d)[i] \in Range(seq)
    BY <1>3 DEF Range
  <2>2. \A p \in DOMAIN seq : seq[p] \in Range(All(d))
    BY <1>3 DEF Range
  <2> QED
    BY <1>3, <2>1, <2>2 DEF Range
<1>6. ASSUME NEW i \in DOMAIN seq, NEW k \in DOMAIN seq, i < k
      PROVE  ~ClusterEarlier(All(d)[k], All(d)[i])
  <2>1. Order(d)[i] \in DOMAIN seq /\ Order(d)[k] \in DOMAIN seq /\ <<Order(d)[k], Order(d)[i]>> \notin Ahead(d)
    BY <1>3, <1>6
  <2> QED
    BY <1>3, <1>4, <2>1
<1>7. ListedInOrder(d)
  BY <1>3, <1>6 DEF ListedInOrder
<1> QED
  BY <1>3, <1>5, <1>7 DEF seq

\* An identifier is in the list once.
LEMMA AllOnce ==
  ASSUME NEW d \in Document, OneOfEach(d), NEW i \in DOMAIN All(d), NEW k \in DOMAIN All(d),
         All(d)[i].id = All(d)[k].id
  PROVE  i = k
<1>1. /\ i \in DOMAIN d.clusters /\ k \in DOMAIN d.clusters
      /\ Order(d)[i] \in DOMAIN d.clusters /\ Order(d)[k] \in DOMAIN d.clusters
      /\ All(d)[i] = d.clusters[Order(d)[i]] /\ All(d)[k] = d.clusters[Order(d)[k]]
  BY AllListsAll
<1>2. Order(d)[i] = Order(d)[k]
  BY <1>1 DEF OneOfEach
<1> QED
  BY <1>1, <1>2, AllListsAll

\* The places of the clusters of a section.
Places(list, key) == {i \in DOMAIN list : GroupKey(list[i]) = key}

\* They are listed once each.
LEMMA MembersAreListed ==
  ASSUME NEW list \in Seq(ClusterRecord), NEW key
  PROVE  /\ \A j \in DOMAIN Members(list, key) : Members(list, key)[j] \in Places(list, key)
         /\ \A j, k \in DOMAIN Members(list, key) : Members(list, key)[j] = Members(list, key)[k] => j = k
         /\ \A i \in Places(list, key) : \E j \in DOMAIN Members(list, key) : Members(list, key)[j] = i
<1> DEFINE M == Places(list, key)
           m == InTurn(M)
           n == Cardinality(M)
<1>1. Members(list, key) = m
  BY DEF Members, Places
<1>2. IsFiniteSet(M) /\ M \subseteq Int
  <2>1. M \subseteq DOMAIN list
    BY DEF Places
  <2> QED
    BY <2>1, PlacesAreFinite
<1> HIDE DEF M
<1>3. /\ n \in Nat /\ m \in [1..n -> M]
      /\ \A i, j \in 1..n : i < j => m[i] < m[j]
      /\ \A p \in M : \E i \in 1..n : m[i] = p
  BY <1>2, InTurnComes
<1> HIDE DEF m, n
<1>4. \A j, k \in 1..n : m[j] = m[k] => j = k
  <2>1. \A j \in 1..n : m[j] \in Int
    BY <1>2, <1>3
  <2> QED
    BY <1>3, <2>1
<1> QED
  BY <1>1, <1>3, <1>4 DEF M

\* The places at which a section begins, one for each.
Begins(list) == {i \in DOMAIN list : \A k \in 1..(i - 1) : GroupKey(list[k]) # GroupKey(list[i])}

\* They are listed once each, and each section of the list begins at one.
LEMMA FirstsAreListed ==
  ASSUME NEW list \in Seq(ClusterRecord)
  PROVE  /\ \E n \in Nat : DOMAIN Firsts(list) = 1..n
         /\ \A j \in DOMAIN Firsts(list) : Firsts(list)[j] \in DOMAIN list
         /\ \A j, k \in DOMAIN Firsts(list) :
              GroupKey(list[Firsts(list)[j]]) = GroupKey(list[Firsts(list)[k]]) => j = k
         /\ \A i \in DOMAIN list : \E j \in DOMAIN Firsts(list) :
              GroupKey(list[Firsts(list)[j]]) = GroupKey(list[i])
<1> DEFINE F == Begins(list)
           f == InTurn(F)
           n == Cardinality(F)
<1>1. Firsts(list) = f
  BY DEF Firsts, Begins
<1>2. IsFiniteSet(F) /\ F \subseteq Int /\ F \subseteq DOMAIN list
  <2>1. F \subseteq DOMAIN list
    BY DEF Begins
  <2> QED
    BY <2>1, PlacesAreFinite
<1>3. DOMAIN list = 1..Len(list) /\ Len(list) \in Nat
  OBVIOUS
<1>4. ASSUME NEW a \in F, NEW b \in F, GroupKey(list[a]) = GroupKey(list[b]) PROVE a = b
  BY <1>3, <1>4 DEF Begins
<1>5. ASSUME NEW i \in DOMAIN list PROVE \E a \in F : GroupKey(list[a]) = GroupKey(list[i])
  <2> DEFINE M == Places(list, GroupKey(list[i]))
             l == Lowest(M)
  <2>1. i \in M /\ M \subseteq DOMAIN list
    BY DEF Places
  <2>2. IsFiniteSet(M) /\ M \subseteq Int
    BY <2>1, PlacesAreFinite
  <2>3. l \in M /\ \A k \in M : l <= k
    <3> HIDE DEF M
    <3> QED
      BY <2>1, <2>2, LowestIsFirst
  <2> HIDE DEF l
  <2>4. l \in DOMAIN list /\ GroupKey(list[l]) = GroupKey(list[i])
    BY <2>3 DEF Places
  <2>5. ASSUME NEW k \in 1..(l - 1) PROVE GroupKey(list[k]) # GroupKey(list[l])
    <3>1. k \in DOMAIN list /\ k < l
      BY <1>3, <2>4
    <3>2. k \notin M
      <4>1. l \in Int /\ k \in Int
        BY <1>3, <2>4
      <4> HIDE DEF M
      <4> QED
        BY <2>3, <3>1, <4>1
    <3> QED
      BY <2>4, <3>1, <3>2 DEF Places
  <2>6. l \in F
    BY <2>4, <2>5 DEF Begins
  <2> QED
    BY <2>4, <2>6
<1> HIDE DEF F
<1>6. /\ n \in Nat /\ f \in [1..n -> F]
      /\ \A i, j \in 1..n : i < j => f[i] < f[j]
      /\ \A p \in F : \E i \in 1..n : f[i] = p
  BY <1>2, InTurnComes
<1> HIDE DEF f, n
<1>7. \A j, k \in 1..n : f[j] = f[k] => j = k
  <2>1. \A j \in 1..n : f[j] \in Int
    BY <1>2, <1>6
  <2> QED
    BY <1>6, <2>1
<1>8. \A j \in 1..n : f[j] \in F /\ f[j] \in DOMAIN list
  BY <1>2, <1>6
<1>9. \A j, k \in 1..n : GroupKey(list[f[j]]) = GroupKey(list[f[k]]) => j = k
  BY <1>4, <1>7, <1>8
<1>10. \A i \in DOMAIN list : \E j \in 1..n : GroupKey(list[f[j]]) = GroupKey(list[i])
  BY <1>5, <1>6
<1>11. DOMAIN f = 1..n
  BY <1>6
<1> QED
  BY <1>1, <1>6, <1>8, <1>9, <1>10, <1>11

\* A section of the list: its key is the archive's, or one of a customer in use.
SectionOf(g, d, list) ==
  /\ g.key \in Int /\ g.label \in Nat /\ g.hidden = HiddenFor(d, g.key)
  /\ g.clusters = [j \in DOMAIN Members(list, g.key) |-> list[Members(list, g.key)[j]].id]
  /\ g.key = ArchivedKey \/ CustomerInUse(d, g.key)

\* The sections of the list, and the archive one of them.
SectionsCover(sections, d, list) ==
  /\ \A i \in DOMAIN sections : SectionOf(sections[i], d, list)
  /\ \A i, k \in DOMAIN sections : sections[i].key = sections[k].key => i = k
  /\ \A p \in DOMAIN list : \E i \in DOMAIN sections : sections[i].key = GroupKey(list[p])
  /\ \E i \in DOMAIN sections : sections[i].key = ArchivedKey

\* What a section is made of.
LEMMA GroupIsSection ==
  ASSUME NEW d \in Document, NEW list, NEW key \in Int, NEW label \in Nat,
         key = ArchivedKey \/ CustomerInUse(d, key)
  PROVE  SectionOf(Group(d, list, key, label), d, list) /\ Group(d, list, key, label).key = key
  BY DEF Group, SectionOf

\* Before they are sorted they are that.
LEMMA SectionsAreCovering ==
  ASSUME NEW d \in Document, NEW list \in Seq(ClusterRecord), Range(list) = Range(d.clusters)
  PROVE  /\ Sections(d, list) \in Seq(Range(Sections(d, list)))
         /\ SectionsCover(Sections(d, list), d, list)
<1> DEFINE F == Firsts(list)
           named == Named(d, list)
           archive == Group(d, list, ArchivedKey, None)
<1>1. PICK n \in Nat : DOMAIN F = 1..n
  BY FirstsAreListed
<1>2. /\ \A j \in 1..n : F[j] \in DOMAIN list
      /\ \A j, k \in 1..n : GroupKey(list[F[j]]) = GroupKey(list[F[k]]) => j = k
      /\ \A i \in DOMAIN list : \E j \in 1..n : GroupKey(list[F[j]]) = GroupKey(list[i])
  BY <1>1, FirstsAreListed
<1>3. named = [j \in 1..n |-> Group(d, list, GroupKey(list[F[j]]), GroupLabel(list[F[j]]))]
  BY <1>1 DEF Named
<1>4. ASSUME NEW c \in Range(list)
      PROVE  /\ GroupKey(c) \in Int /\ GroupLabel(c) \in Nat
             /\ GroupKey(c) = ArchivedKey \/ CustomerInUse(d, GroupKey(c))
             /\ c.archived <=> GroupKey(c) = ArchivedKey
  <2>1. c \in ClusterRecord /\ c \in Range(d.clusters)
    BY DocumentFields
  <2>2. CustomerKey(c) \in Nat /\ CustomerLabel(c) \in Nat
    BY <2>1 DEF CustomerKey, CustomerLabel, ClusterRecord
  <2>3. c.archived \in BOOLEAN
    BY <2>1 DEF ClusterRecord
  <2> QED
    BY <2>1, <2>2, <2>3 DEF GroupKey, GroupLabel, ArchivedKey, None, CustomerInUse
<1>5. \A i \in DOMAIN list : list[i] \in Range(list)
  BY DEF Range
<1> HIDE DEF F, named
<1>6. ASSUME NEW j \in 1..n
      PROVE  SectionOf(named[j], d, list) /\ named[j].key = GroupKey(list[F[j]])
  <2>1. list[F[j]] \in Range(list)
    BY <1>2, <1>5
  <2> QED
    BY <1>3, <1>4, <2>1, GroupIsSection
<1>7. DOMAIN named = 1..n
  BY <1>3
<1>7a. \A j, k \in 1..n : named[j].key = named[k].key => j = k
  <2>1. \A j \in 1..n : named[j].key = GroupKey(list[F[j]])
    BY <1>6
  <2>2. \A j, k \in 1..n : GroupKey(list[F[j]]) = GroupKey(list[F[k]]) => j = k
    BY <1>2
  <2> QED
    BY <2>1, <2>2
<1>7b. \A p \in DOMAIN list : \E j \in 1..n : named[j].key = GroupKey(list[p])
  <2> SUFFICES ASSUME NEW p \in DOMAIN list PROVE \E j \in 1..n : named[j].key = GroupKey(list[p])
    OBVIOUS
  <2>1. PICK j \in 1..n : GroupKey(list[F[j]]) = GroupKey(list[p])
    BY <1>2
  <2> QED
    BY <1>6, <2>1
<1>8. CASE \E i \in DOMAIN list : list[i].archived
  <2>1. Sections(d, list) = named
    BY <1>8 DEF Sections, named
  <2>2. named \in [1..n -> Range(named)]
    BY <1>3 DEF Range
  <2>3. named \in Seq(Range(named))
    BY <2>2
  <2>4. \E i \in DOMAIN list : GroupKey(list[i]) = ArchivedKey
    BY <1>4, <1>5, <1>8
  <2>5. \E j \in 1..n : named[j].key = ArchivedKey
    BY <1>7b, <2>4
  <2>6. SectionsCover(named, d, list)
    BY <1>6, <1>7, <1>7a, <1>7b, <2>5 DEF SectionsCover
  <2> QED
    BY <2>1, <2>3, <2>6
<1>9. CASE ~\E i \in DOMAIN list : list[i].archived
  <2> DEFINE s == Append(named, archive)
             T == Range(named) \cup {archive}
  <2>1. Sections(d, list) = s
    BY <1>9 DEF Sections, named
  <2>2. SectionOf(archive, d, list) /\ archive.key = ArchivedKey
    BY GroupIsSection DEF ArchivedKey, None
  <2> HIDE DEF archive
  <2>3. named \in [1..n -> T]
    BY <1>3 DEF Range
  <2> HIDE DEF T
  <2>3a. named \in Seq(T) /\ Len(named) = n
    BY <2>3
  <2>4. /\ s \in Seq(T \cup {archive}) /\ DOMAIN s = 1..(n + 1) /\ s[n + 1] = archive
        /\ \A j \in 1..n : s[j] = named[j]
    BY <2>3a, AppendProperties DEF T
  <2> HIDE DEF s
  <2>5. s \in [1..(n + 1) -> Range(s)]
    BY <2>4 DEF Range
  <2>6. s \in Seq(Range(s))
    BY <2>5
  <2>7. ASSUME NEW j \in 1..n PROVE s[j].key # ArchivedKey
    <3>1. F[j] \in DOMAIN list /\ list[F[j]] \in Range(list) /\ ~list[F[j]].archived
      BY <1>2, <1>5, <1>9
    <3>2. GroupKey(list[F[j]]) # ArchivedKey
      BY <1>4, <3>1
    <3> QED
      BY <1>6, <2>4, <3>2
  <2>8. SectionsCover(s, d, list)
    <3>1. \A i \in DOMAIN s : SectionOf(s[i], d, list)
      BY <1>6, <2>2, <2>4
    <3>2. \A i, k \in DOMAIN s : s[i].key = s[k].key => i = k
      BY <1>1, <1>7a, <2>2, <2>4, <2>7
    <3>3. \A p \in DOMAIN list : \E i \in DOMAIN s : s[i].key = GroupKey(list[p])
      <4> SUFFICES ASSUME NEW p \in DOMAIN list PROVE \E i \in DOMAIN s : s[i].key = GroupKey(list[p])
        OBVIOUS
      <4>1. PICK j \in 1..n : GroupKey(list[F[j]]) = GroupKey(list[p])
        BY <1>2
      <4>2. j \in DOMAIN s /\ s[j].key = GroupKey(list[p])
        BY <1>6, <2>4, <4>1
      <4> QED
        BY <4>2
    <3>4. n + 1 \in DOMAIN s /\ s[n + 1].key = ArchivedKey
      BY <2>2, <2>4
    <3> QED
      BY <3>1, <3>2, <3>3, <3>4 DEF SectionsCover
  <2> QED
    BY <2>1, <2>6, <2>8
<1> QED
  BY <1>8, <1>9

\* Sorted they are that, and the archive is the last.
LEMMA GroupsCover ==
  ASSUME NEW d \in Document
  PROVE  /\ SectionsCover(Groups(d), d, All(d))
         /\ \E n \in Nat \ {0} : DOMAIN Groups(d) = 1..n /\ Len(Groups(d)) = n
         /\ Groups(d)[Len(Groups(d))].key = ArchivedKey
<1> DEFINE list == All(d)
           s == Sections(d, list)
           ahead == {p \in (DOMAIN s) \X (DOMAIN s) : GroupEarlier(s[p[1]], s[p[2]])}
           order == StableOrder(s, ahead)
           groups == Groups(d)
           T == Range(s)
<1>1. s \in Seq(T) /\ SectionsCover(s, d, list)
  BY AllListsAll, SectionsAreCovering
<1>2. groups = Stable(s, ahead)
  BY DEF Groups
<1>3. \A i, k \in DOMAIN s : <<i, k>> \in ahead <=> GroupEarlier(s[i], s[k])
  OBVIOUS
<1> HIDE DEF s, ahead, groups, T
<1>4. \A i \in DOMAIN s : s[i].label \in Nat /\ GroupRank(s[i].key) \in Nat
  BY <1>1 DEF SectionsCover, SectionOf, GroupRank
<1>5. Ranks(ahead, DOMAIN s)
  <2>1. \A i, k \in DOMAIN s : GroupEarlier(s[i], s[k]) => ~GroupEarlier(s[k], s[i])
    BY <1>4 DEF GroupEarlier
  <2>2. \A i, j, k \in DOMAIN s :
          GroupEarlier(s[i], s[k]) => GroupEarlier(s[i], s[j]) \/ GroupEarlier(s[j], s[k])
    BY <1>4 DEF GroupEarlier
  <2> QED
    BY <1>3, <2>1, <2>2 DEF Ranks
<1>6. /\ order \in [DOMAIN s -> DOMAIN s]
      /\ \A i, k \in DOMAIN s : order[i] = order[k] => i = k
      /\ \A p \in DOMAIN s : \E i \in DOMAIN s : order[i] = p
      /\ \A i, k \in DOMAIN s : i < k => <<order[k], order[i]>> \notin ahead
      /\ groups \in Seq(T) /\ DOMAIN groups = DOMAIN s
      /\ \A i \in DOMAIN s : groups[i] = s[order[i]]
  BY <1>1, <1>2, <1>5, StableSorts
<1> HIDE DEF order, list
<1>7. \A i \in DOMAIN s : order[i] \in DOMAIN s
  BY <1>6
<1>8. \A i \in DOMAIN s : SectionOf(groups[i], d, list)
  BY <1>1, <1>6, <1>7 DEF SectionsCover
<1>9. \A i, k \in DOMAIN s : groups[i].key = groups[k].key => i = k
  <2>1. \A i, k \in DOMAIN s : s[i].key = s[k].key => i = k
    BY <1>1 DEF SectionsCover
  <2>2. ASSUME NEW i \in DOMAIN s, NEW k \in DOMAIN s, groups[i].key = groups[k].key PROVE i = k
    <3>1. groups[i] = s[order[i]] /\ groups[k] = s[order[k]]
      BY <1>6
    <3>2. order[i] \in DOMAIN s /\ order[k] \in DOMAIN s
      BY <1>7
    <3>3. order[i] = order[k]
      BY <2>1, <2>2, <3>1, <3>2
    <3> QED
      BY <1>6, <3>3
  <2> QED
    BY <2>2
<1>10. ASSUME NEW key, \E i \in DOMAIN s : s[i].key = key PROVE \E i \in DOMAIN s : groups[i].key = key
  <2>1. PICK p \in DOMAIN s : s[p].key = key
    BY <1>10
  <2>2. PICK i \in DOMAIN s : order[i] = p
    BY <1>6
  <2> QED
    BY <1>6, <2>1, <2>2
<1>11. \E i \in DOMAIN s : groups[i].key = ArchivedKey
  BY <1>1, <1>10 DEF SectionsCover
<1>12. \A p \in DOMAIN list : \E i \in DOMAIN s : groups[i].key = GroupKey(list[p])
  BY <1>1, <1>10 DEF SectionsCover
<1>13. SectionsCover(groups, d, list)
  BY <1>6, <1>8, <1>9, <1>11, <1>12 DEF SectionsCover
<1> DEFINE n == Len(groups)
<1>14. n \in Nat /\ DOMAIN groups = 1..n /\ DOMAIN s = 1..n
  BY <1>6
<1> HIDE DEF n
<1>15. n \in Nat \ {0}
  BY <1>11, <1>14
<1>16. groups[n].key = ArchivedKey
  <2>1. PICK i \in DOMAIN s : groups[i].key = ArchivedKey
    BY <1>11
  <2>2. SUFFICES ASSUME i # n, groups[n].key # ArchivedKey PROVE FALSE
    BY <2>1
  <2>3. i < n /\ i \in DOMAIN s /\ n \in DOMAIN s
    BY <1>14, <1>15, <2>1, <2>2
  <2>4. <<order[n], order[i]>> \notin ahead
    BY <1>6, <2>3
  <2>5. ~GroupEarlier(groups[n], groups[i])
    BY <1>3, <1>6, <1>7, <2>3, <2>4
  <2>6. GroupRank(groups[n].key) \in {0, 1} /\ GroupRank(groups[i].key) = 2
    BY <2>1, <2>2 DEF GroupRank, ArchivedKey, Ungrouped, None
  <2> QED
    BY <2>5, <2>6 DEF GroupEarlier
<1> QED
  BY <1>13, <1>14, <1>15, <1>16 DEF groups, list, n

\* Every cluster is in one section, and what is hidden can be shown.
LEMMA NothingIsStranded ==
  ASSUME NEW d, Sound(d)
  PROVE  NothingStranded(d)
<1> DEFINE groups == Groups(d)
           list == All(d)
           shown == UNION {{g} \X (DOMAIN groups[g].clusters) : g \in DOMAIN groups}
           Shown(p) == groups[p[1]].clusters[p[2]]
           Row(p) == Members(list, groups[p[1]].key)[p[2]]
<1>0. d \in Document /\ OneOfEach(d) /\ ChoicesMean(d)
  BY DEF Sound
<1>1. SectionsCover(groups, d, list) /\ groups[Len(groups)].key = ArchivedKey
  BY <1>0, GroupsCover
<1>2. list \in Seq(ClusterRecord) /\ Range(list) = Range(d.clusters)
  BY <1>0, AllListsAll
<1>3. \A i, k \in DOMAIN list : list[i].id = list[k].id => i = k
  BY <1>0, AllOnce
<1> HIDE DEF groups, list
<1>4. \A g \in DOMAIN groups : SectionOf(groups[g], d, list)
  BY <1>1 DEF SectionsCover
<1>5. \A p \in shown : /\ p = <<p[1], p[2]>> /\ p[1] \in DOMAIN groups
                       /\ p[2] \in DOMAIN groups[p[1]].clusters
  OBVIOUS
<1>6. \A g \in DOMAIN groups : \A j \in DOMAIN groups[g].clusters : <<g, j>> \in shown
  OBVIOUS
<1> HIDE DEF shown
<1>7. ASSUME NEW g \in DOMAIN groups
      PROVE  /\ DOMAIN groups[g].clusters = DOMAIN Members(list, groups[g].key)
             /\ \A j \in DOMAIN groups[g].clusters :
                  groups[g].clusters[j] = list[Members(list, groups[g].key)[j]].id
  BY <1>4 DEF SectionOf
<1>8. ASSUME NEW p \in shown
      PROVE  /\ Shown(p) = list[Row(p)].id /\ Row(p) \in DOMAIN list
             /\ GroupKey(list[Row(p)]) = groups[p[1]].key
             /\ p[2] \in DOMAIN Members(list, groups[p[1]].key)
  <2>1. p[1] \in DOMAIN groups /\ p[2] \in DOMAIN Members(list, groups[p[1]].key)
    BY <1>5, <1>7
  <2>2. Row(p) \in Places(list, groups[p[1]].key)
    BY <1>2, <2>1, MembersAreListed
  <2> QED
    BY <1>5, <1>7, <2>1, <2>2 DEF Places
<1>9. ASSUME NEW c \in Range(d.clusters) PROVE \E p \in shown : Shown(p) = c.id
  <2>1. PICK i \in DOMAIN list : list[i] = c
    BY <1>2 DEF Range
  <2>2. PICK g \in DOMAIN groups : groups[g].key = GroupKey(c)
    BY <1>1, <2>1 DEF SectionsCover
  <2>3. i \in Places(list, groups[g].key)
    BY <2>1, <2>2 DEF Places
  <2>4. PICK j \in DOMAIN Members(list, groups[g].key) : Members(list, groups[g].key)[j] = i
    BY <1>2, <2>3, MembersAreListed
  <2>5. <<g, j>> \in shown /\ Shown(<<g, j>>) = c.id
    BY <1>6, <1>7, <2>1, <2>4
  <2> QED
    BY <2>5
<1>10. ASSUME NEW p \in shown, NEW q \in shown, Shown(p) = Shown(q) PROVE p = q
  <2>1. Row(p) = Row(q)
    BY <1>3, <1>8, <1>10
  <2>2. groups[p[1]].key = groups[q[1]].key
    BY <1>8, <2>1
  <2>3. p[1] = q[1]
    BY <1>1, <1>5, <2>2 DEF SectionsCover
  <2>4. p[2] = q[2]
    BY <1>2, <1>8, <2>1, <2>3, MembersAreListed
  <2> QED
    BY <1>5, <2>3, <2>4
<1>11. ASSUME NEW p \in shown PROVE Exists(d, Shown(p))
  <2>1. list[Row(p)] \in Range(d.clusters) /\ list[Row(p)].id = Shown(p)
    BY <1>2, <1>8 DEF Range
  <2> QED
    BY <2>1, ExistsMeans
<1>12. ASSUME NEW g \in Range(groups), g.hidden
       PROVE  /\ SetGroupHidden(d, g.key, FALSE) # Refused
              /\ ~HiddenFor(SetGroupHidden(d, g.key, FALSE)[1], g.key)
  <2>1. /\ g.key \in Int /\ HiddenFor(d, g.key)
        /\ g.key = ArchivedKey \/ CustomerInUse(d, g.key)
    BY <1>4, <1>12 DEF SectionOf, Range
  <2>2. CanHideGroup(g.key)
    BY <2>1 DEF HiddenFor
  <2>3. SetGroupHidden(d, g.key, FALSE) # Refused
    BY <2>1, <2>2 DEF SetGroupHidden, Refused, Done
  <2> DEFINE e == SetGroupHidden(d, g.key, FALSE)[1]
  <2>4. FALSE \in BOOLEAN /\ e = SetGroupHidden(d, g.key, FALSE)[1]
    OBVIOUS
  <2> HIDE DEF e
  <2>5. HiddenFor(e, g.key) = FALSE
    BY <2>1, <2>3, <2>4, HideShows
  <2> QED
    BY <2>3, <2>4, <2>5
<1> QED
  BY <1>1, <1>9, <1>10, <1>11, <1>12 DEF NothingStranded, shown, groups

\* What a handoff may find in a list, by what it names.
ById(all, ctx) == {i \in DOMAIN all : all[i].id = ctx.cluster}
ByLabel(all, ctx) == {i \in DOMAIN all : ctx.cluster # None /\ all[i].labels = ctx.cluster}
ByName(all, ctx) == {i \in DOMAIN all : all[i].customerId = ctx.customer /\ all[i].name = ctx.name}
Candidates(all, ctx) == {i \in DOMAIN all : all[i].customerId = ctx.customer
                                            /\ all[i].environmentId = ctx.environment}

\* Where it finds it.
Spot(all, ctx) ==
  IF ById(all, ctx) # {} THEN {Lowest(ById(all, ctx))}
  ELSE IF ByLabel(all, ctx) # {} THEN {Lowest(ByLabel(all, ctx))}
  ELSE IF ByName(all, ctx) # {} THEN {Lowest(ByName(all, ctx))}
  ELSE IF Cardinality(Candidates(all, ctx)) = 1 THEN {Lowest(Candidates(all, ctx))} ELSE {}

\* A handoff finds nothing or the one thing of one of those.
LEMMA HandoffSpots ==
  ASSUME NEW d \in Document, NEW ctx
  PROVE  LET found == FindByContext(d, ctx)
             all == All(d)
             spot == Spot(all, ctx)
         IN  /\ \/ spot = {} /\ found = <<>>
                \/ \E i \in DOMAIN all : spot = {i} /\ found = <<all[i]>>
             /\ \A i \in spot : \/ all[i].id = ctx.cluster
                                \/ all[i].labels = ctx.cluster
                                \/ all[i].customerId = ctx.customer
             /\ ById(all, ctx) # {} => \E i \in spot : all[i].id = ctx.cluster
<1> DEFINE found == FindByContext(d, ctx)
           all == All(d)
           spot == Spot(all, ctx)
<1>1. all \in Seq(ClusterRecord)
  BY AllListsAll
<1>2. found = IF ById(all, ctx) # {} THEN <<all[Lowest(ById(all, ctx))]>>
              ELSE IF ByLabel(all, ctx) # {} THEN <<all[Lowest(ByLabel(all, ctx))]>>
              ELSE IF ByName(all, ctx) # {} THEN <<all[Lowest(ByName(all, ctx))]>>
              ELSE IF Cardinality(Candidates(all, ctx)) = 1 THEN <<all[Lowest(Candidates(all, ctx))]>> ELSE <<>>
  BY DEF FindByContext, ById, ByLabel, ByName, Candidates
<1> HIDE DEF found, all
<1>3. ASSUME NEW places \in SUBSET DOMAIN all, places # {}
      PROVE  Lowest(places) \in places /\ Lowest(places) \in DOMAIN all
  BY <1>1, <1>3, PlacesAreFinite, LowestIsFirst
<1>4. CASE ById(all, ctx) # {}
  <2>1. Lowest(ById(all, ctx)) \in ById(all, ctx) /\ Lowest(ById(all, ctx)) \in DOMAIN all
    BY <1>3, <1>4 DEF ById
  <2>2. all[Lowest(ById(all, ctx))].id = ctx.cluster
    BY <2>1 DEF ById
  <2>3. spot = {Lowest(ById(all, ctx))} /\ found = <<all[Lowest(ById(all, ctx))]>>
    BY <1>2, <1>4 DEF Spot
  <2> HIDE DEF spot
  <2> QED
    BY <2>1, <2>2, <2>3 DEF spot, found, all
<1>5. CASE ById(all, ctx) = {} /\ ByLabel(all, ctx) # {}
  <2>1. Lowest(ByLabel(all, ctx)) \in ByLabel(all, ctx) /\ Lowest(ByLabel(all, ctx)) \in DOMAIN all
    BY <1>3, <1>5 DEF ByLabel
  <2>2. all[Lowest(ByLabel(all, ctx))].labels = ctx.cluster
    BY <2>1 DEF ByLabel
  <2>3. spot = {Lowest(ByLabel(all, ctx))} /\ found = <<all[Lowest(ByLabel(all, ctx))]>>
    BY <1>2, <1>5 DEF Spot
  <2> HIDE DEF spot
  <2> QED
    BY <1>5, <2>1, <2>2, <2>3 DEF spot, found, all
<1>6. CASE ById(all, ctx) = {} /\ ByLabel(all, ctx) = {} /\ ByName(all, ctx) # {}
  <2>1. Lowest(ByName(all, ctx)) \in ByName(all, ctx) /\ Lowest(ByName(all, ctx)) \in DOMAIN all
    BY <1>3, <1>6 DEF ByName
  <2>2. all[Lowest(ByName(all, ctx))].customerId = ctx.customer
    BY <2>1 DEF ByName
  <2>3. spot = {Lowest(ByName(all, ctx))} /\ found = <<all[Lowest(ByName(all, ctx))]>>
    BY <1>2, <1>6 DEF Spot
  <2> HIDE DEF spot
  <2> QED
    BY <1>6, <2>1, <2>2, <2>3 DEF spot, found, all
<1>7. CASE /\ ById(all, ctx) = {} /\ ByLabel(all, ctx) = {} /\ ByName(all, ctx) = {}
           /\ Cardinality(Candidates(all, ctx)) = 1
  <2>1. Candidates(all, ctx) # {}
    BY <1>7, FS_EmptySet
  <2>2. Lowest(Candidates(all, ctx)) \in Candidates(all, ctx) /\ Lowest(Candidates(all, ctx)) \in DOMAIN all
    BY <1>3, <2>1 DEF Candidates
  <2>3. all[Lowest(Candidates(all, ctx))].customerId = ctx.customer
    BY <2>2 DEF Candidates
  <2>4. spot = {Lowest(Candidates(all, ctx))} /\ found = <<all[Lowest(Candidates(all, ctx))]>>
    BY <1>2, <1>7 DEF Spot
  <2> HIDE DEF spot
  <2> QED
    BY <1>7, <2>2, <2>3, <2>4 DEF spot, found, all
<1>8. CASE /\ ById(all, ctx) = {} /\ ByLabel(all, ctx) = {} /\ ByName(all, ctx) = {}
           /\ Cardinality(Candidates(all, ctx)) # 1
  <2>1. spot = {} /\ found = <<>>
    BY <1>2, <1>8 DEF Spot
  <2> HIDE DEF spot
  <2> QED
    BY <1>8, <2>1 DEF spot, found, all
<1> QED
  BY <1>4, <1>5, <1>6, <1>7, <1>8

\* Lists that agree in what a handoff names are searched alike.
LEMMA SameSpot ==
  ASSUME NEW a, NEW b, NEW ctx, DOMAIN a = DOMAIN b,
         \A i \in DOMAIN a : /\ a[i].id = b[i].id /\ a[i].labels = b[i].labels /\ a[i].name = b[i].name
                             /\ a[i].customerId = b[i].customerId /\ a[i].environmentId = b[i].environmentId
  PROVE  Spot(a, ctx) = Spot(b, ctx)
<1>1. ById(a, ctx) = ById(b, ctx)
  BY DEF ById
<1>2. ByLabel(a, ctx) = ByLabel(b, ctx)
  BY DEF ByLabel
<1>3. ByName(a, ctx) = ByName(b, ctx)
  BY DEF ByName
<1>4. Candidates(a, ctx) = Candidates(b, ctx)
  BY DEF Candidates
<1> QED
  BY <1>1, <1>2, <1>3, <1>4 DEF Spot

\* They leave the list in its order.
LEMMA SameList ==
  ASSUME NEW d \in Document, NEW e \in Document, DOMAIN e.clusters = DOMAIN d.clusters,
         \A i \in DOMAIN d.clusters : Same(e.clusters[i], d.clusters[i]), NEW ctx
  PROVE  /\ DOMAIN All(e) = DOMAIN All(d)
         /\ \A i \in DOMAIN All(d) : All(e)[i].id = All(d)[i].id
         /\ Spot(All(e), ctx) = Spot(All(d), ctx)
<1>1. \A i \in DOMAIN d.clusters : IsProduction(e.clusters[i]) <=> IsProduction(d.clusters[i])
  BY DEF Same, IsProduction, EnvironmentKind
<1>2. \A i, k \in DOMAIN d.clusters :
        ClusterEarlier(e.clusters[i], e.clusters[k]) <=> ClusterEarlier(d.clusters[i], d.clusters[k])
  BY <1>1 DEF Same, ClusterEarlier
<1>3. Ahead(e) = Ahead(d)
  BY <1>2 DEF Ahead
<1>4. Order(e) = Order(d)
  BY <1>3 DEF Order, StableOrder
<1>5. /\ DOMAIN All(e) = DOMAIN e.clusters /\ DOMAIN All(d) = DOMAIN d.clusters
      /\ \A i \in DOMAIN d.clusters : Order(d)[i] \in DOMAIN d.clusters
      /\ \A i \in DOMAIN d.clusters : All(d)[i] = d.clusters[Order(d)[i]]
      /\ \A i \in DOMAIN e.clusters : All(e)[i] = e.clusters[Order(e)[i]]
  BY AllListsAll
<1>6. \A i \in DOMAIN All(d) : Same(All(e)[i], All(d)[i])
  BY <1>4, <1>5
<1> QED
  BY <1>5, <1>6, SameSpot DEF Same

\* A handoff finds after an operation what it is to find.
LEMMA HandoffsFind ==
  ASSUME NEW d \in Document, NEW e \in Document, NEW op, op.before = d,
         op.do \in {"hide", "archive"} =>
           /\ DOMAIN e.clusters = DOMAIN d.clusters
           /\ \A i \in DOMAIN d.clusters : Same(e.clusters[i], d.clusters[i])
  PROVE  HandoffFinds(op, e)
<1> SUFFICES ASSUME NEW ctx \in Contexts
             PROVE  LET found == FindByContext(e, ctx)
                        before == FindByContext(d, ctx)
                    IN  /\ found # <<>> => \/ found[1].customerId = ctx.customer
                                           \/ ctx.cluster \in {found[1].id, found[1].labels}
                        /\ Exists(e, ctx.cluster) => found # <<>> /\ found[1].id = ctx.cluster
                        /\ op.do \in {"hide", "archive"} =>
                             /\ found = <<>> <=> before = <<>>
                             /\ found # <<>> => found[1].id = before[1].id
  BY DEF HandoffFinds
<1> DEFINE found == FindByContext(e, ctx)
           before == FindByContext(d, ctx)
           here == All(e)
           there == All(d)
<1>1. /\ \/ Spot(here, ctx) = {} /\ found = <<>>
         \/ \E i \in DOMAIN here : Spot(here, ctx) = {i} /\ found = <<here[i]>>
      /\ \A i \in Spot(here, ctx) : \/ here[i].id = ctx.cluster
                                    \/ here[i].labels = ctx.cluster
                                    \/ here[i].customerId = ctx.customer
      /\ ById(here, ctx) # {} => \E i \in Spot(here, ctx) : here[i].id = ctx.cluster
  BY HandoffSpots
<1>2. \/ Spot(there, ctx) = {} /\ before = <<>>
      \/ \E i \in DOMAIN there : Spot(there, ctx) = {i} /\ before = <<there[i]>>
  BY HandoffSpots
<1>3. Exists(e, ctx.cluster) => ById(here, ctx) # {}
  <2> SUFFICES ASSUME Exists(e, ctx.cluster) PROVE ById(here, ctx) # {}
    OBVIOUS
  <2>1. PICK c \in Range(e.clusters) : c.id = ctx.cluster
    BY ExistsMeans
  <2>2. c \in Range(here)
    BY AllListsAll
  <2> HIDE DEF here
  <2>3. PICK i \in DOMAIN here : here[i] = c
    BY <2>2 DEF Range
  <2> QED
    BY <2>1, <2>3 DEF ById
<1>4. op.do \in {"hide", "archive"} =>
        /\ DOMAIN here = DOMAIN there /\ \A i \in DOMAIN there : here[i].id = there[i].id
        /\ Spot(here, ctx) = Spot(there, ctx)
  BY SameList
<1> HIDE DEF found, before, here, there
<1>5. CASE Spot(here, ctx) = {} /\ found = <<>>
  <2>1. ~Exists(e, ctx.cluster)
    BY <1>1, <1>3, <1>5
  <2>2. op.do \in {"hide", "archive"} => before = <<>>
    BY <1>2, <1>4, <1>5
  <2> QED
    BY <1>5, <2>1, <2>2 DEF found, before
<1>6. CASE \E i \in DOMAIN here : Spot(here, ctx) = {i} /\ found = <<here[i]>>
  <2>1. PICK i \in DOMAIN here : Spot(here, ctx) = {i} /\ found = <<here[i]>>
    BY <1>6
  <2>2. found # <<>> /\ found[1] = here[i]
    BY <2>1
  <2>3. \/ here[i].id = ctx.cluster
        \/ here[i].labels = ctx.cluster
        \/ here[i].customerId = ctx.customer
    BY <1>1, <2>1
  <2>4. Exists(e, ctx.cluster) => here[i].id = ctx.cluster
    BY <1>1, <1>3, <2>1
  <2>5. op.do \in {"hide", "archive"} => before # <<>> /\ before[1].id = here[i].id
    <3> SUFFICES ASSUME op.do \in {"hide", "archive"} PROVE before # <<>> /\ before[1].id = here[i].id
      OBVIOUS
    <3>1. Spot(there, ctx) = {i} /\ i \in DOMAIN there /\ here[i].id = there[i].id
      BY <1>4, <2>1
    <3>2. before = <<there[i]>>
      BY <1>2, <3>1
    <3> QED
      BY <3>1, <3>2
  <2> QED
    BY <2>2, <2>3, <2>4, <2>5 DEF found, before
<1> QED
  BY <1>1, <1>5, <1>6

-----------------------------------------------------------------------------
(* Every operation keeps the records.                                      *)

RecordsInv == RecordsKept /\ given \subseteq Nat

\* An operation on a document, as it is remembered.
Op(do, id, with, d) == [do |-> do, id |-> id, with |-> with, before |-> d]

\* What an operation leaves sound is listed and can be found.
LEMMA LeftIsKept ==
  ASSUME NEW d, Sound(d), NEW e, Sound(e), NEW do, NEW id, NEW with, Left(Op(do, id, with, d), e),
         do \in {"hide", "archive"} =>
           /\ DOMAIN e.clusters = DOMAIN d.clusters
           /\ \A i \in DOMAIN d.clusters : Same(e.clusters[i], d.clusters[i])
  PROVE  ListedInOrder(e) /\ NothingStranded(e) /\ Kept(Op(do, id, with, d), e)
<1>1. ListedInOrder(e) /\ NothingStranded(e)
  BY AllListsAll, NothingIsStranded DEF Sound
<1> DEFINE op == Op(do, id, with, d)
<1>2. op.before = d /\ op.do = do
  BY DEF Op
<1> HIDE DEF op
<1>3. HandoffFinds(op, e)
  BY <1>2, HandoffsFind DEF Sound
<1> QED
  BY <1>1, <1>3 DEF Kept, Left, op

\* A new installation has a document that is sound: it is empty.
LEMMA SoundAtFirst ==
  ASSUME NEW d, MaxSavedViewsPerCluster \in Nat,
         d = [clusters |-> <<>>, preferences |-> <<>>, customers |-> <<>>, views |-> <<>>]
  PROVE  Sound(d)
<1>1. d \in Document
  BY DEF Document
<1>2. DOMAIN d.clusters = {} /\ DOMAIN d.preferences = {} /\ DOMAIN d.customers = {} /\ DOMAIN d.views = {}
  OBVIOUS
<1>3. Range(d.clusters) = {} /\ Range(d.views) = {}
  BY <1>2 DEF Range
<1> QED
  BY <1>1, <1>2, <1>3 DEF Sound, OneOfEach, ChoicesMean, ViewsBelong

\* The document that is found is one that the assumption is about.
LEMMA RecordsBegin ==
  ASSUME RecordsInit
  PROVE  RecordsInv
<1>1. Sound(doc) /\ doc \in Document
  BY RecordsAssumption DEF RecordsInit, Sound
<1>2. ListedInOrder(doc) /\ NothingStranded(doc)
  BY <1>1, AllListsAll, NothingIsStranded
<1>3. given \subseteq Nat
  BY <1>1, DocumentFields DEF RecordsInit, ClusterRecord, PreferenceRecord
<1> QED
  BY <1>1, <1>2, <1>3 DEF RecordsInv, RecordsKept, RecordsInit

\* A step that leaves the document sound keeps the invariant.
LEMMA StepKeeps ==
  ASSUME RecordsInv, NEW do, NEW id, NEW with, NEW outcome, Make(do, id, with, outcome),
         Sound(outcome[1]), Left(Op(do, id, with, doc), outcome[1]),
         Known(outcome[1]) \subseteq given', given' \subseteq Nat,
         do \in {"hide", "archive"} =>
           /\ DOMAIN outcome[1].clusters = DOMAIN doc.clusters
           /\ \A i \in DOMAIN doc.clusters : Same(outcome[1].clusters[i], doc.clusters[i])
  PROVE  RecordsInv'
<1>1. doc' = outcome[1] /\ last' = <<Op(do, id, with, doc)>>
  BY DEF Make, Op
<1>2. Sound(doc)
  BY DEF RecordsInv, RecordsKept
<1>3. /\ ListedInOrder(outcome[1]) /\ NothingStranded(outcome[1])
      /\ Kept(Op(do, id, with, doc), outcome[1])
  BY <1>2, LeftIsKept
<1>4. last'[1] = Op(do, id, with, doc)
  BY <1>1
<1> QED
  BY <1>1, <1>3, <1>4 DEF RecordsInv, RecordsKept, Known

\* The fields of an operation.
LEMMA OpFields ==
  ASSUME NEW do, NEW id, NEW with, NEW d
  PROVE  /\ Op(do, id, with, d).do = do /\ Op(do, id, with, d).id = id
         /\ Op(do, id, with, d).with = with /\ Op(do, id, with, d).before = d
  BY DEF Op

\* Every step keeps the invariant.
LEMMA RecordsStep ==
  ASSUME RecordsInv, [RecordsNext]_recordVars
  PROVE  RecordsInv'
<1>1. /\ Sound(doc) /\ Known(doc) \subseteq given /\ given \subseteq Nat
      /\ MaxSavedViewsPerCluster \in Nat
  BY RecordsAssumption DEF RecordsInv, RecordsKept, Known
<1>2. CASE CreateOne
  <2>1. PICK id \in Ids \ given, in \in Inputs :
          Make("create", id, in, Create(doc, in, id)) /\ given' = given \cup {id}
    BY <1>2 DEF CreateOne
  <2>2. id \in Nat /\ id \notin Known(doc) /\ in \in Form /\ Create(doc, in, id) # Refused
    BY <1>1, <2>1, RecordsAssumption DEF Make
  <2> DEFINE e == Create(doc, in, id)[1]
             op == Op("create", id, in, doc)
  <2>3. Sound(e) /\ Left(op, e) /\ Known(e) \subseteq Known(doc) \cup {id}
    <3>1. op.before = doc /\ op.id = id /\ op.do = "create" /\ op.with = in
      BY OpFields
    <3> HIDE DEF op
    <3> QED
      BY <1>1, <2>2, <3>1, CreateKeeps
  <2>4. Known(e) \subseteq given' /\ given' \subseteq Nat
    BY <1>1, <2>1, <2>2, <2>3
  <2> QED
    BY <2>1, <2>3, <2>4, StepKeeps
<1>3. CASE UpdateOne
  <2>1. PICK id \in given, in \in Inputs :
          Make("update", id, in, Update(doc, id, in)) /\ UNCHANGED given
    BY <1>3 DEF UpdateOne
  <2>2. id \in Nat /\ in \in Form /\ Update(doc, id, in) # Refused
    BY <1>1, <2>1, RecordsAssumption DEF Make
  <2> DEFINE e == Update(doc, id, in)[1]
             op == Op("update", id, in, doc)
  <2>3. Sound(e) /\ Left(op, e) /\ Known(e) \subseteq Known(doc)
    <3>1. op.before = doc /\ op.id = id /\ op.do = "update"
      BY OpFields
    <3> HIDE DEF op
    <3> QED
      BY <1>1, <2>2, <3>1, UpdateKeeps
  <2>4. Known(e) \subseteq given' /\ given' \subseteq Nat
    BY <1>1, <2>1, <2>3
  <2> QED
    BY <2>1, <2>3, <2>4, StepKeeps
<1>4. CASE DeleteOne
  <2>1. PICK id \in given : Make("delete", id, None, Delete(doc, id)) /\ UNCHANGED given
    BY <1>4 DEF DeleteOne
  <2>2. id \in Nat /\ Delete(doc, id) # Refused
    BY <1>1, <2>1 DEF Make
  <2> DEFINE e == Delete(doc, id)[1]
             op == Op("delete", id, None, doc)
  <2>3. Sound(e) /\ Left(op, e) /\ Known(e) \subseteq Known(doc)
    <3>1. op.before = doc /\ op.id = id /\ op.do = "delete"
      BY OpFields
    <3> HIDE DEF op
    <3> QED
      BY <1>1, <2>2, <3>1, DeleteKeeps
  <2>4. Known(e) \subseteq given' /\ given' \subseteq Nat
    BY <1>1, <2>1, <2>3
  <2> QED
    BY <2>1, <2>3, <2>4, StepKeeps
<1>5. CASE HideOne
  <2>1. PICK key \in SectionKeys, hidden \in BOOLEAN :
          Make("hide", key, hidden, SetGroupHidden(doc, key, hidden)) /\ UNCHANGED given
    BY <1>5 DEF HideOne
  <2>2. key \in Int /\ SetGroupHidden(doc, key, hidden) # Refused
    BY <2>1, RecordsAssumption DEF Make
  <2> DEFINE e == SetGroupHidden(doc, key, hidden)[1]
             op == Op("hide", key, hidden, doc)
  <2>3. Sound(e) /\ Left(op, e) /\ Known(e) \subseteq Known(doc)
    <3>1. op.before = doc /\ op.do = "hide"
      BY OpFields
    <3> HIDE DEF op
    <3> QED
      BY <1>1, <2>2, <3>1, HideKeeps
  <2>4. Known(e) \subseteq given' /\ given' \subseteq Nat
    BY <1>1, <2>1, <2>3
  <2>5. e.clusters = doc.clusters
    BY <1>1, <2>2, HideShows
  <2>6. \A i \in DOMAIN doc.clusters : Same(e.clusters[i], doc.clusters[i])
    BY <2>5 DEF Same
  <2> QED
    BY <2>1, <2>3, <2>4, <2>5, <2>6, StepKeeps
<1>6. CASE ArchiveOne
  <2>1. PICK id \in given, archived \in BOOLEAN :
          Make("archive", id, archived, SetArchived(doc, id, archived)) /\ UNCHANGED given
    BY <1>6 DEF ArchiveOne
  <2>2. id \in Nat /\ SetArchived(doc, id, archived) # Refused
    BY <1>1, <2>1 DEF Make
  <2> DEFINE e == SetArchived(doc, id, archived)[1]
             op == Op("archive", id, archived, doc)
  <2>3. /\ Sound(e) /\ Left(op, e) /\ Known(e) \subseteq Known(doc)
        /\ DOMAIN e.clusters = DOMAIN doc.clusters
        /\ \A i \in DOMAIN doc.clusters : Same(e.clusters[i], doc.clusters[i])
    <3>1. op.before = doc /\ op.id = id /\ op.do = "archive"
      BY OpFields
    <3> HIDE DEF op
    <3> QED
      BY <1>1, <2>2, <3>1, ArchiveKeeps
  <2>4. Known(e) \subseteq given' /\ given' \subseteq Nat
    BY <1>1, <2>1, <2>3
  <2> QED
    BY <2>1, <2>3, <2>4, StepKeeps
<1>7. CASE AdoptOne
  <2>1. PICK from \in Profiles, to \in Profiles :
          Make("adopt", from, to, AdoptAccessProfileID(doc, from, to)) /\ UNCHANGED given
    BY <1>7 DEF AdoptOne
  <2>2. from \in Nat /\ to \in Nat /\ AdoptAccessProfileID(doc, from, to) # Refused
    BY <2>1, RecordsAssumption DEF Make
  <2> DEFINE e == AdoptAccessProfileID(doc, from, to)[1]
             op == Op("adopt", from, to, doc)
  <2>3. Sound(e) /\ Left(op, e) /\ Known(e) \subseteq Known(doc)
    <3>1. op.before = doc /\ op.do = "adopt"
      BY OpFields
    <3> HIDE DEF op
    <3> QED
      BY <1>1, <2>2, <3>1, AdoptKeeps
  <2>4. Known(e) \subseteq given' /\ given' \subseteq Nat
    BY <1>1, <2>1, <2>3
  <2> QED
    BY <2>1, <2>3, <2>4, StepKeeps
<1>8. CASE RememberOne
  <2>1. PICK id \in given, namespace \in Words :
          Make("namespace", id, namespace, RememberNamespace(doc, id, namespace)) /\ UNCHANGED given
    BY <1>8 DEF RememberOne
  <2>2. id \in Nat /\ namespace \in Nat
    BY <1>1, <2>1, RecordsAssumption
  <2> DEFINE e == RememberNamespace(doc, id, namespace)[1]
             op == Op("namespace", id, namespace, doc)
  <2>3. Sound(e) /\ Left(op, e) /\ Known(e) \subseteq Known(doc) \cup {id}
    <3>1. op.before = doc /\ op.id = id /\ op.do = "namespace"
      BY OpFields
    <3> HIDE DEF op
    <3> QED
      BY <1>1, <2>2, <3>1, RememberKeeps
  <2>4. Known(e) \subseteq given' /\ given' \subseteq Nat
    BY <1>1, <2>1, <2>3
  <2> QED
    BY <2>1, <2>3, <2>4, StepKeeps
<1>9. CASE ChooseOne
  <2>1. PICK id \in given, mode \in {"read-only", "read-write"} :
          Make("mode", id, mode, SetAccessMode(doc, id, mode)) /\ UNCHANGED given
    BY <1>9 DEF ChooseOne
  <2>2. id \in Nat /\ SetAccessMode(doc, id, mode) # Refused
    BY <1>1, <2>1 DEF Make
  <2> DEFINE e == SetAccessMode(doc, id, mode)[1]
             op == Op("mode", id, mode, doc)
  <2>3. Sound(e) /\ Left(op, e) /\ Known(e) \subseteq Known(doc) \cup {id}
    <3>1. op.before = doc /\ op.id = id /\ op.do = "mode"
      BY OpFields
    <3> HIDE DEF op
    <3> QED
      BY <1>1, <2>2, <3>1, ChooseKeeps
  <2>4. Known(e) \subseteq given' /\ given' \subseteq Nat
    BY <1>1, <2>1, <2>3
  <2> QED
    BY <2>1, <2>3, <2>4, StepKeeps
<1>10. CASE SaveOne
  <2>1. PICK cluster \in given, id \in ViewIds \cup {None}, title \in Words,
             fresh \in ViewIds \ {v.id : v \in Range(doc.views)} :
          /\ Make("save", cluster, id, SaveView(doc, [id |-> id, cluster |-> cluster, title |-> title], fresh))
          /\ UNCHANGED given
    BY <1>10 DEF SaveOne
  <2> DEFINE in == [id |-> id, cluster |-> cluster, title |-> title]
  <2>2. /\ in \in SavedViewRecord /\ in.cluster = cluster /\ in.id = id
        /\ fresh \in Nat /\ \A v \in Range(doc.views) : v.id # fresh
    BY <1>1, <2>1, RecordsAssumption DEF SavedViewRecord, None
  <2>3. Make("save", cluster, id, SaveView(doc, in, fresh)) /\ SaveView(doc, in, fresh) # Refused
    BY <2>1 DEF Make
  <2> HIDE DEF in
  <2> DEFINE e == SaveView(doc, in, fresh)[1]
             op == Op("save", cluster, id, doc)
  <2>4. Sound(e) /\ Left(op, e) /\ Known(e) \subseteq Known(doc)
    <3>1. op.before = doc /\ op.id = cluster /\ op.with = id /\ op.do = "save"
      BY OpFields
    <3> HIDE DEF op
    <3> QED
      BY <1>1, <2>2, <2>3, <3>1, SaveKeeps
  <2>5. Known(e) \subseteq given' /\ given' \subseteq Nat
    BY <1>1, <2>1, <2>4
  <2> QED
    BY <2>3, <2>4, <2>5, StepKeeps
<1>11. CASE DropOne
  <2>1. PICK cluster \in given, id \in ViewIds :
          Make("drop", cluster, id, DeleteView(doc, cluster, id)) /\ UNCHANGED given
    BY <1>11 DEF DropOne
  <2>2. DeleteView(doc, cluster, id) # Refused
    BY <2>1 DEF Make
  <2> DEFINE e == DeleteView(doc, cluster, id)[1]
             op == Op("drop", cluster, id, doc)
  <2>3. Sound(e) /\ Left(op, e) /\ Known(e) \subseteq Known(doc)
    <3>1. op.before = doc /\ op.id = cluster /\ op.with = id /\ op.do = "drop"
      BY OpFields
    <3> HIDE DEF op
    <3> QED
      BY <1>1, <2>2, <3>1, DropKeeps
  <2>4. Known(e) \subseteq given' /\ given' \subseteq Nat
    BY <1>1, <2>1, <2>3
  <2> QED
    BY <2>1, <2>3, <2>4, StepKeeps
<1>12. CASE UNCHANGED recordVars
  BY <1>12 DEF recordVars, RecordsInv, RecordsKept
<1> QED
  BY <1>2, <1>3, <1>4, <1>5, <1>6, <1>7, <1>8, <1>9, <1>10, <1>11, <1>12 DEF RecordsNext

\* Whatever is made of the records, and in whatever order, they stay sound, and
\* no operation takes from one of them what is not its own.
THEOREM RecordsAreKept ==
  RecordsSpec => []RecordsKept
<1>1. RecordsInit => RecordsInv
  BY RecordsBegin
<1>2. RecordsInv /\ [RecordsNext]_recordVars => RecordsInv'
  BY RecordsStep
<1>3. RecordsInv => RecordsKept
  BY DEF RecordsInv
<1> QED
  BY <1>1, <1>2, <1>3, PTL DEF RecordsSpec
=============================================================================
