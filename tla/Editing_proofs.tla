----------------------------- MODULE Editing_proofs -----------------------------
(***************************************************************************)
(* Proofs about writing to a cluster: no version that an editor did not    *)
(* show is overwritten, and a manifest is created as one intention, for    *)
(* any number of editors, objects, manifests and of steps of others. And   *)
(* about reading from one: no row has a green light that is not earned, no *)
(* page lists what does not belong to its object, and no gate opens while  *)
(* somebody may own what is behind it.                                     *)
(***************************************************************************)
EXTENDS Editing, ArgoGate, RowHealth, RelatedObjects, Arranging_proofs, FiniteSetTheorems, WellFoundedInduction, TLAPS

-----------------------------------------------------------------------------
(* The objects of the cluster *)

\* An object bears the mark of one Application, or none.
Marks == {{}} \cup {{a} : a \in Apps}
Held == [version: Nat, tracked: Marks, replicas: Nat, halted: BOOLEAN]
Holdings == {<<>>} \cup {<<held>> : held \in Held}

\* Every version an object has was given by the cluster.
ObjectsInv ==
  /\ version \in Nat
  /\ applications \subseteq Apps
  /\ objects \in [Names -> Holdings]
  /\ \A n \in Names : objects[n] # <<>> => objects[n][1].version <= version

\* What any step does to an object: nothing, its deletion, or a new version.
Moves ==
  /\ version' \in Nat /\ version <= version'
  /\ \A n \in Names :
       \/ objects'[n] = objects[n]
       \/ objects'[n] = <<>>
       \/ version < objects'[n][1].version

\* An object that is there is one record.
LEMMA HoldingIsRecord ==
  ASSUME NEW holding \in Holdings, holding # <<>>
  PROVE  holding[1] \in Held /\ holding = <<holding[1]>>
  BY DEF Holdings

\* Writing an object that is there leaves it one record.
LEMMA WriteOne ==
  ASSUME NEW held, NEW next
  PROVE  [<<held>> EXCEPT ![1] = next] = <<next>>
  OBVIOUS

\* A new version and another mark leave it one as well.
LEMMA MarkKeepsShape ==
  ASSUME NEW held \in Held, NEW given \in Nat, NEW tracked \in Marks
  PROVE  LET next == [held EXCEPT !.version = given, !.tracked = tracked]
         IN  next \in Held /\ next.version = given
  BY DEF Held

\* A patch changes the fields of an object and none of its shape.
LEMMA PatchKeepsShape ==
  ASSUME NEW held \in Held, NEW action \in Actions, NEW replicas \in 0 .. 1
  PROVE  Patch(held, action, replicas) \in Held
<1>1. CASE action = "scale"
  BY <1>1 DEF Patch, Held
<1>2. CASE action \in {"cordon", "suspend"}
  BY <1>2 DEF Patch, Held
<1>3. CASE action \in {"uncordon", "resume"}
  BY <1>3 DEF Patch, Held
<1>4. CASE action = "restart"
  BY <1>4 DEF Patch
<1> QED
  BY <1>1, <1>2, <1>3, <1>4 DEF Actions

\* One object gets the next version.
LEMMA OneObject ==
  ASSUME ObjectsInv, NEW n, NEW held \in Held, held.version = version + 1,
         objects' = [objects EXCEPT ![n] = <<held>>], version' = version + 1,
         applications' = applications
  PROVE  ObjectsInv' /\ Moves
<1>1. <<held>> \in Holdings
  BY DEF Holdings
<1>2. objects' \in [Names -> Holdings]
  BY <1>1 DEF ObjectsInv
<1>3. \A m \in Names : objects'[m] = IF m = n THEN <<held>> ELSE objects[m]
  BY DEF ObjectsInv
<1>4. <<held>>[1] = held
  OBVIOUS
<1>5. version' \in Nat /\ version < version'
  BY DEF ObjectsInv
<1>6. \A m \in Names : objects'[m] # <<>> => objects'[m][1].version <= version'
  <2>1. ASSUME NEW m \in Names, m = n PROVE objects'[m][1].version <= version'
    BY <1>3, <1>4, <1>5, <2>1
  <2>2. ASSUME NEW m \in Names, m # n, objects'[m] # <<>>
        PROVE  objects'[m][1].version <= version'
    <3>1. objects'[m] = objects[m]
      BY <1>3, <2>2
    <3>2. objects[m][1] \in Held
      BY <2>2, <3>1, HoldingIsRecord DEF ObjectsInv
    <3>3. objects[m][1].version \in Nat /\ objects[m][1].version <= version
      BY <2>2, <3>1, <3>2 DEF ObjectsInv, Held
    <3> QED
      BY <1>5, <3>1, <3>3 DEF ObjectsInv
  <2> QED
    BY <2>1, <2>2
<1>7. \A m \in Names : \/ objects'[m] = objects[m]
                       \/ version < objects'[m][1].version
  BY <1>3, <1>4, <1>5
<1> QED
  BY <1>2, <1>5, <1>6, <1>7 DEF ObjectsInv, Moves

\* What leaves the objects alone.
LEMMA SameObjects ==
  ASSUME ObjectsInv, UNCHANGED <<objects, version>>, applications' \subseteq Apps
  PROVE  ObjectsInv' /\ Moves
  BY DEF ObjectsInv, Moves

\* Every step gives an object the next version, deletes it or leaves it.
LEMMA NextObjects == ObjectsInv /\ Next => ObjectsInv' /\ Moves
<1> SUFFICES ASSUME ObjectsInv, Next PROVE ObjectsInv' /\ Moves
  OBVIOUS
<1>0. /\ applications \subseteq Apps
      /\ version \in Nat
      /\ objects \in [Names -> Holdings]
  BY DEF ObjectsInv
<1>1. Fresh \in Held /\ Fresh.version = version + 1
  BY <1>0 DEF Fresh, Held, Marks
<1>2. ASSUME NEW n \in Names, OthersMake(n) PROVE ObjectsInv' /\ Moves
  BY <1>1, <1>2, OneObject DEF OthersMake
<1>3. ASSUME NEW n \in Names, OthersDelete(n) PROVE ObjectsInv' /\ Moves
  <2>1. \A m \in Names : objects'[m] = IF m = n THEN <<>> ELSE objects[m]
    BY <1>0, <1>3 DEF OthersDelete
  <2>2. objects' \in [Names -> Holdings]
    <3>1. <<>> \in Holdings
      BY DEF Holdings
    <3> QED
      BY <1>0, <1>3, <3>1 DEF OthersDelete
  <2>3. version' = version /\ applications' = applications
    BY <1>3 DEF OthersDelete
  <2> QED
    BY <1>0, <2>1, <2>2, <2>3 DEF ObjectsInv, Moves
<1>4. ASSUME NEW n \in Names, OthersWrite(n) PROVE ObjectsInv' /\ Moves
  <2>1. objects[n] # <<>>
    BY <1>4 DEF OthersWrite
  <2>2. objects[n][1] \in Held /\ objects[n] = <<objects[n][1]>>
    BY <1>0, <2>1, HoldingIsRecord
  <2>3. PICK tracked \in {{}} \cup {{a} : a \in applications} :
          objects' = [objects EXCEPT ![n][1] =
            [@ EXCEPT !.version = version + 1, !.tracked = tracked]]
    BY <1>4 DEF OthersWrite
  <2> DEFINE held == [objects[n][1] EXCEPT !.version = version + 1,
                                           !.tracked = tracked]
  <2>4. tracked \in Marks
    BY <1>0 DEF Marks
  <2>5. held \in Held /\ held.version = version + 1
    <3>1. version + 1 \in Nat
      BY <1>0
    <3> QED
      BY <2>2, <2>4, <3>1, MarkKeepsShape
  <2>6. objects' = [objects EXCEPT ![n] = [@ EXCEPT ![1] = held]]
    BY <2>3
  <2>7. [objects[n] EXCEPT ![1] = held] = <<held>>
    BY <2>2, WriteOne
  <2> HIDE DEF held
  <2>8. objects' = [objects EXCEPT ![n] = <<held>>]
    BY <2>6, <2>7
  <2> QED
    BY <1>4, <2>5, <2>8, OneObject DEF OthersWrite
<1>5. ASSUME ApplicationsChange PROVE ObjectsInv' /\ Moves
  <2>1. applications' \subseteq Apps
    BY <1>0, <1>5 DEF ApplicationsChange
  <2> QED
    BY <1>5, <2>1, SameObjects DEF ApplicationsChange
<1>6. ASSUME PermissionChanges \/ Tick PROVE ObjectsInv' /\ Moves
  BY <1>0, <1>6, SameObjects DEF PermissionChanges, Tick
<1>7. ASSUME NEW e \in Editors, NEW n \in Names, OpenSession(e, n)
      PROVE  ObjectsInv' /\ Moves
  BY <1>0, <1>7, SameObjects DEF OpenSession, ClusterUnchanged
<1>8. ASSUME NEW e \in Editors,
             \/ Freshness(e) \/ ApplyCheck(e)
             \/ \E text \in {"same", "edited", "renamed", "broken"} :
                  ApplyGate(e, text)
      PROVE  ObjectsInv' /\ Moves
  BY <1>0, <1>8, SameObjects DEF Freshness, ApplyCheck, ApplyGate, ClusterUnchanged
<1>9. ASSUME NEW e \in Editors, ApplyUpdate(e) PROVE ObjectsInv' /\ Moves
  <2> DEFINE session == editors[e]
             live == objects[session.name]
             taken == live # <<>> /\ live[1].version = VersionSent(session, live[1])
             written == taken /\ session.text # "same"
  <2>1. CASE ~written
    BY <1>0, <1>9, <2>1, SameObjects DEF ApplyUpdate
  <2>2. CASE written /\ session.name \in Names
    <3>1. /\ objects' = [objects EXCEPT ![session.name][1].version = version + 1]
          /\ version' = version + 1 /\ applications' = applications
      BY <1>9, <2>2 DEF ApplyUpdate
    <3>2. live[1] \in Held /\ live = <<live[1]>>
      BY <1>0, <2>2, HoldingIsRecord
    <3> DEFINE held == [live[1] EXCEPT !.version = version + 1]
    <3>3. held \in Held /\ held.version = version + 1
      BY <1>0, <3>2 DEF Held
    <3>4. objects' = [objects EXCEPT ![session.name] = [@ EXCEPT ![1] = held]]
      BY <3>1
    <3>5. [live EXCEPT ![1] = held] = <<held>>
      BY <3>2, WriteOne
    <3> HIDE DEF held
    <3>6. objects' = [objects EXCEPT ![session.name] = <<held>>]
      BY <3>4, <3>5
    <3> QED
      BY <3>1, <3>3, <3>6, OneObject
  <2>3. CASE written /\ session.name \notin Names
    <3>1. /\ objects' = [objects EXCEPT ![session.name][1].version = version + 1]
          /\ version' = version + 1 /\ applications' = applications
      BY <1>9, <2>3 DEF ApplyUpdate
    <3>2. objects' = objects
      BY <1>0, <2>3, <3>1
    <3>3. version' \in Nat /\ version <= version'
      BY <1>0, <3>1
    <3>4. \A n \in Names : objects[n] # <<>> => objects[n][1].version <= version'
      <4>1. \A n \in Names : objects[n] # <<>> => objects[n][1].version \in Nat
        BY <1>0, HoldingIsRecord DEF Held
      <4> QED
        BY <1>0, <3>1, <4>1 DEF ObjectsInv
    <3> QED
      BY <1>0, <3>1, <3>2, <3>3, <3>4 DEF ObjectsInv, Moves
  <2> QED
    BY <2>1, <2>2, <2>3
<1>10. ASSUME NEW n \in Names, NEW action \in Actions, NEW replicas \in 0 .. 1,
              Perform(n, action, replicas)
       PROVE  ObjectsInv' /\ Moves
  <2> DEFINE patched == Patch(objects[n][1], action, replicas)
             changes == action = "restart" \/ patched # objects[n][1]
             held == [patched EXCEPT !.version = version + 1]
  <2>1. objects[n] # <<>> /\ applications' = applications
    BY <1>10 DEF Perform
  <2>2. patched \in Held
    BY <1>0, <2>1, HoldingIsRecord, PatchKeepsShape
  <2>3. CASE ~changes
    <3>1. UNCHANGED <<objects, version>>
      BY <1>10, <2>3 DEF Perform
    <3> QED
      BY <1>0, <2>1, <3>1, SameObjects
  <2>4. CASE changes
    <3>1. objects' = [objects EXCEPT ![n] = <<held>>] /\ version' = version + 1
      BY <1>10, <2>4 DEF Perform
    <3> HIDE DEF patched
    <3>2. held \in Held /\ held.version = version + 1
      BY <1>0, <2>2 DEF Held
    <3> HIDE DEF held
    <3> QED
      BY <2>1, <3>1, <3>2, OneObject
  <2> QED
    BY <2>3, <2>4
<1>11. ASSUME \/ CreateClaim
              \/ \E kind \in {"namespaced", "cluster", "odd"}, ns \in {0, Here} :
                   NewSession(kind, ns)
              \/ \E m \in Manifests, readable \in BOOLEAN : Create(m, readable)
       PROVE  ObjectsInv' /\ Moves
  BY <1>0, <1>11, SameObjects DEF CreateClaim, NewSession, Create, EditorsUnchanged
<1>12. ASSUME NEW reply \in Replies, CreateWrite(reply)
       PROVE  ObjectsInv' /\ Moves
  <2> DEFINE doc == draft.docs[draft.at]
  <2>1. applications' = applications
    BY <1>12 DEF CreateWrite, EditorsUnchanged
  <2>2. CASE ~(reply # "refused" /\ objects[doc.name] = <<>>)
    BY <1>0, <1>12, <2>1, <2>2, SameObjects DEF CreateWrite
  <2>3. CASE reply # "refused" /\ objects[doc.name] = <<>>
    <3>1. objects' = [objects EXCEPT ![doc.name] = <<Fresh>>]
          /\ version' = version + 1
      BY <1>12, <2>3 DEF CreateWrite
    <3> QED
      BY <1>1, <2>1, <3>1, OneObject
  <2> QED
    BY <2>2, <2>3
<1> QED
  BY <1>2, <1>3, <1>4, <1>5, <1>6, <1>7, <1>8, <1>9, <1>10, <1>11, <1>12
     DEF Next

-----------------------------------------------------------------------------
(* The editors *)

Session(basis) ==
  [phase: {"closed", "open", "gated", "checked"}, name: Names \cup {0},
   opened: Nat, text: {"same", "edited", "renamed", "broken"},
   told: {"", "gone", "stale"}, basis: {basis}, over: {<<>>} \cup (Nat \X Nat)]

\* The object of a session that was told so is gone, or has another version
\* than the one the session shows.
HasMoved(session) ==
  objects[session.name] = <<>> \/ objects[session.name][1].version # session.opened

\* What a session shows was given by the cluster; what it overwrote, it showed;
\* and what it was told stays true.
SoundEditor(session) ==
  /\ session \in Session(session.basis)
  /\ session.opened <= version
  /\ session.phase # "closed" => session.name \in Names
  /\ session.over # <<>> => session.over[1] = session.over[2]
  /\ session.told # "" => session.phase \in {"open", "gated"} /\ HasMoved(session)

EditorsInv ==
  /\ editors = [e \in Editors |-> editors[e]]
  /\ \A e \in Editors : SoundEditor(editors[e])

\* A sound session stays sound whatever the step does to the objects.
LEMMA MovesKeepEditor ==
  ASSUME ObjectsInv, Moves, NEW session, SoundEditor(session)
  PROVE  SoundEditor(session)'
<1>1. session.opened \in Nat /\ session.opened <= version'
  <2>1. session.opened \in Nat /\ session.opened <= version
    BY DEF SoundEditor, Session
  <2>2. version \in Nat /\ version' \in Nat /\ version <= version'
    BY DEF ObjectsInv, Moves
  <2> QED
    BY <2>1, <2>2
<1>2. ASSUME session.told # "" PROVE HasMoved(session)'
  <2>1. session.name \in Names /\ HasMoved(session)
    BY <1>2 DEF SoundEditor
  <2>2. CASE objects'[session.name] = objects[session.name]
    BY <2>1, <2>2 DEF HasMoved
  <2>3. CASE objects'[session.name] = <<>>
    BY <2>3 DEF HasMoved
  <2>4. CASE version < objects'[session.name][1].version
    <3>1. session.opened <= version /\ version \in Nat
      BY DEF SoundEditor, ObjectsInv
    <3>2. objects'[session.name][1].version # session.opened
      BY <1>1, <2>4, <3>1
    <3> QED
      BY <3>2 DEF HasMoved
  <2> QED
    BY <2>1, <2>2, <2>3, <2>4 DEF Moves
<1> QED
  BY <1>1, <1>2 DEF SoundEditor

\* A step that moves no session, or one to a session that is sound then.
LEMMA MovesKeepEditors ==
  ASSUME ObjectsInv, Moves, EditorsInv, editors' = editors
  PROVE  EditorsInv'
  BY MovesKeepEditor DEF EditorsInv

\* One session moves on, to one that is sound after the step.
LEMMA OneEditor ==
  ASSUME ObjectsInv, Moves, EditorsInv, NEW e \in Editors, NEW session,
         Move(e, session), SoundEditor(session)'
  PROVE  EditorsInv'
<1>1. editors' = [editors EXCEPT ![e] = session]
  BY DEF Move
<1>2. editors' = [f \in Editors |-> editors'[f]]
  BY <1>1 DEF EditorsInv
<1>3. \A f \in Editors : editors'[f] = IF f = e THEN session ELSE editors[f]
  BY <1>1 DEF EditorsInv
<1>4. ASSUME NEW f \in Editors PROVE SoundEditor(editors[f])'
  <2>1. CASE f = e
    <3>1. editors'[f] = session
      BY <1>3, <2>1
    <3> QED
      BY <3>1 DEF SoundEditor, HasMoved
  <2>2. CASE f # e
    <3>1. editors'[f] = editors[f]
      BY <1>3, <2>2
    <3>2. SoundEditor(editors[f])
      BY DEF EditorsInv
    <3>3. \A s : SoundEditor(s) => SoundEditor(s)'
      BY MovesKeepEditor
    <3> QED
      BY <3>1, <3>2, <3>3 DEF SoundEditor, HasMoved
  <2> QED
    BY <2>1, <2>2
<1> QED
  BY <1>2, <1>4 DEF EditorsInv

\* Every step keeps the sessions sound.
LEMMA NextEditors == ObjectsInv /\ EditorsInv /\ Next => EditorsInv'
<1> SUFFICES ASSUME ObjectsInv, EditorsInv, Next PROVE EditorsInv'
  OBVIOUS
<1>0. Moves /\ ObjectsInv'
  BY NextObjects
<1>1. ASSUME editors' = editors PROVE EditorsInv'
  BY <1>0, <1>1, MovesKeepEditors
<1>2. ASSUME NEW e \in Editors, NEW session, Move(e, session),
             SoundEditor(session), UNCHANGED <<objects, version>>
      PROVE  EditorsInv'
  <2>1. SoundEditor(session)'
    BY <1>2 DEF SoundEditor, HasMoved
  <2> QED
    BY <1>0, <1>2, <2>1, OneEditor
<1>3. \/ \E n \in Names : OthersMake(n) \/ OthersDelete(n) \/ OthersWrite(n)
      \/ ApplicationsChange \/ PermissionChanges \/ Tick
      \/ \E n \in Names, a \in Actions, r \in 0 .. 1 : Perform(n, a, r)
      \/ \E kind \in {"namespaced", "cluster", "odd"}, ns \in {0, Here} :
           NewSession(kind, ns)
      \/ CreateClaim
      \/ \E m \in Manifests, readable \in BOOLEAN : Create(m, readable)
      \/ \E reply \in Replies : CreateWrite(reply)
      => editors' = editors
  BY DEF OthersMake, OthersDelete, OthersWrite, Others, ApplicationsChange,
     PermissionChanges, Tick, Perform, NewSession, CreateClaim, Create,
     CreateWrite, EditorsUnchanged
<1>4. ASSUME NEW e \in Editors, NEW n \in Names, OpenSession(e, n)
      PROVE  EditorsInv'
  <2> DEFINE opened == objects[n][1].version
             session == [Closed EXCEPT !.phase = "open", !.name = n,
                                       !.opened = opened]
  <2>1. objects[n] # <<>> /\ Move(e, session) /\ UNCHANGED <<objects, version>>
    BY <1>4 DEF OpenSession, ClusterUnchanged
  <2>2. opened \in Nat /\ opened <= version
    BY <2>1, HoldingIsRecord DEF ObjectsInv, Held
  <2> HIDE DEF opened
  <2>3. session \in Session(NoBasis) /\ session.basis = NoBasis
    BY <2>2 DEF Closed, Session
  <2>4. /\ session.opened = opened /\ session.name = n
        /\ session.over = <<>> /\ session.told = ""
    BY DEF Closed
  <2> HIDE DEF session
  <2>5. SoundEditor(session)
    BY <2>2, <2>3, <2>4 DEF SoundEditor
  <2> QED
    BY <1>2, <2>1, <2>5
<1>5. ASSUME NEW e \in Editors, Freshness(e) PROVE EditorsInv'
  <2> DEFINE live == objects[editors[e].name]
             told == IF live = <<>> THEN "gone"
                     ELSE IF live[1].version = editors[e].opened THEN "" ELSE "stale"
             session == [editors[e] EXCEPT !.told = told]
  <2>1. /\ editors[e].phase = "open" /\ Move(e, session)
        /\ UNCHANGED <<objects, version>>
    BY <1>5 DEF Freshness, ClusterUnchanged
  <2>2. SoundEditor(editors[e])
    BY DEF EditorsInv
  <2>3. told \in {"", "gone", "stale"} /\ (told # "" => HasMoved(editors[e]))
    BY DEF HasMoved
  <2> HIDE DEF told
  <2>4. /\ session \in Session(session.basis)
        /\ session.told = told /\ session.phase = "open"
        /\ session.name = editors[e].name /\ session.opened = editors[e].opened
        /\ session.over = editors[e].over
    BY <2>1, <2>2, <2>3 DEF SoundEditor, Session
  <2> HIDE DEF session
  <2>5. SoundEditor(session)
    BY <2>1, <2>2, <2>3, <2>4 DEF SoundEditor, HasMoved
  <2> QED
    BY <1>2, <2>1, <2>5
<1>6. ASSUME NEW e \in Editors,
             NEW text \in {"same", "edited", "renamed", "broken"},
             ApplyGate(e, text)
      PROVE  EditorsInv'
  <2> DEFINE basis == BasisOf(Here, Owners(editors[e].name))
             session == [editors[e] EXCEPT !.phase = "gated", !.text = text,
                                           !.over = <<>>, !.basis = basis]
  <2>1. /\ editors[e].phase = "open"
        /\ Move(e, session) \/ Move(e, editors[e])
        /\ UNCHANGED <<objects, version>>
    BY <1>6 DEF ApplyGate, ClusterUnchanged
  <2>2. SoundEditor(editors[e])
    BY DEF EditorsInv
  <2> HIDE DEF basis
  <2>3. /\ session \in Session(session.basis)
        /\ session.told = editors[e].told /\ session.phase = "gated"
        /\ session.name = editors[e].name /\ session.opened = editors[e].opened
        /\ session.over = <<>>
    BY <2>1, <2>2 DEF SoundEditor, Session
  <2> HIDE DEF session
  <2>4. SoundEditor(session)
    BY <2>1, <2>2, <2>3 DEF SoundEditor, HasMoved
  <2> QED
    BY <1>2, <2>1, <2>2, <2>4
<1>7. ASSUME NEW e \in Editors, ApplyCheck(e) PROVE EditorsInv'
  <2> DEFINE live == objects[editors[e].name]
             phase == IF SameObject(editors[e].text) /\ live # <<>>
                         /\ Guard(editors[e].opened, live[1].version)
                      THEN "checked" ELSE "open"
             session == [editors[e] EXCEPT !.phase = phase]
  <2>1. /\ editors[e].phase = "gated" /\ Move(e, session)
        /\ UNCHANGED <<objects, version>>
    BY <1>7 DEF ApplyCheck, ClusterUnchanged
  <2>2. SoundEditor(editors[e])
    BY DEF EditorsInv
  <2>3. /\ phase \in {"open", "checked"}
        /\ HasMoved(editors[e]) => phase = "open"
    BY DEF HasMoved, Guard
  <2> HIDE DEF phase
  <2>4. /\ session \in Session(session.basis)
        /\ session.told = editors[e].told /\ session.phase = phase
        /\ session.name = editors[e].name /\ session.opened = editors[e].opened
        /\ session.over = editors[e].over
    BY <2>2, <2>3 DEF SoundEditor, Session
  <2> HIDE DEF session
  <2>5. SoundEditor(session)
    BY <2>1, <2>2, <2>3, <2>4 DEF SoundEditor, HasMoved
  <2> QED
    BY <1>2, <2>1, <2>5
<1>8. ASSUME NEW e \in Editors, ApplyUpdate(e) PROVE EditorsInv'
  <2> DEFINE live == objects[editors[e].name]
             taken == /\ live # <<>>
                      /\ live[1].version = VersionSent(editors[e], live[1])
             over == IF taken THEN <<editors[e].opened, live[1].version>>
                     ELSE editors[e].over
             session == [editors[e] EXCEPT !.phase = "open", !.over = over]
  <2>1. editors[e].phase = "checked" /\ Move(e, session)
    BY <1>8 DEF ApplyUpdate
  <2>2. SoundEditor(editors[e])
    BY DEF EditorsInv
  <2>3. editors[e].name \in Names /\ editors[e].told = ""
    BY <2>1, <2>2 DEF SoundEditor
  <2>4. /\ over \in {<<>>} \cup (Nat \X Nat)
        /\ over # <<>> => over[1] = over[2]
    <3>1. CASE taken
      <4>1. live[1].version = editors[e].opened
        BY <3>1 DEF VersionSent
      <4>2. editors[e].opened \in Nat
        BY <2>2 DEF SoundEditor, Session
      <4> QED
        BY <3>1, <4>1, <4>2
    <3>2. CASE ~taken
      BY <2>2, <3>2 DEF SoundEditor, Session
    <3> QED
      BY <3>1, <3>2
  <2> HIDE DEF over
  <2>5. /\ session \in Session(session.basis)
        /\ session.told = "" /\ session.phase = "open"
        /\ session.name = editors[e].name /\ session.opened = editors[e].opened
        /\ session.over = over
    BY <2>2, <2>3, <2>4 DEF SoundEditor, Session
  <2> HIDE DEF session
  <2>6. SoundEditor(session)
    BY <2>2, <2>3, <2>4, <2>5 DEF SoundEditor
  <2>7. PICK written : written = session
    OBVIOUS
  <2>8. SoundEditor(written)'
    BY <1>0, <2>6, <2>7, MovesKeepEditor
  <2> QED
    BY <1>0, <2>1, <2>7, <2>8, OneEditor
<1> QED
  BY <1>1, <1>3, <1>4, <1>5, <1>6, <1>7, <1>8 DEF Next

-----------------------------------------------------------------------------
(* The creation of a manifest *)

Creation(basis) ==
  [phase: {"none", "open", "claiming", "writing", "done"}, docs: Seq([kind: STRING,
   name: Nat, namespace: Nat]), at: Nat, asked: SUBSET Nat, basis: {basis},
   made: Seq(Nat), created: Seq(Nat), failed: Seq(Nat)]

\* Nothing exists of a manifest before every claim was asked for, in order; then
\* its objects are written in order, up to the first that fails.
DraftInv ==
  /\ draft \in Creation(draft.basis)
  /\ OneIntention
  /\ draft.phase \in {"none", "open", "claiming"} =>
       draft.made = <<>> /\ draft.created = <<>> /\ draft.failed = <<>>
  /\ draft.phase \in {"none", "open"} => draft.asked = {} /\ draft.at = 1
  /\ draft.phase = "claiming" =>
       /\ draft.at \in 1 .. Len(draft.docs)
       /\ draft.asked = 1 .. (draft.at - 1)
  /\ draft.phase = "writing" =>
       /\ draft.at \in 1 .. Len(draft.docs)
       /\ draft.asked = DOMAIN draft.docs
       /\ draft.at = Len(draft.created) + 1
       /\ draft.failed = <<>>

\* A draft in which nothing was made is sound whatever happened to its claims.
LEMMA NothingMade ==
  ASSUME NEW d, d \in Creation(d.basis),
         d.made = <<>>, d.created = <<>>, d.failed = <<>>,
         d.phase # "writing",
         d.phase = "done" => d.docs = <<>> \/ d.asked # DOMAIN d.docs,
         d.phase \in {"none", "open"} => d.asked = {} /\ d.at = 1,
         d.phase = "claiming" => /\ d.at \in 1 .. Len(d.docs)
                                 /\ d.asked = 1 .. (d.at - 1),
         draft' = d
  PROVE  DraftInv'
<1>1. Len(d.created) = 0 /\ Len(d.made) = 0
  OBVIOUS
<1>2. d.created = [i \in 1 .. Len(d.created) |-> i]
  BY <1>1
<1>3. Len(d.failed) = 0 /\ (d.docs = <<>> => Len(d.docs) = 0)
  OBVIOUS
<1>4. /\ Len(d.made) \in Len(d.created) .. (Len(d.created) + Len(d.failed))
      /\ d.phase = "done" /\ d.asked = DOMAIN d.docs => Len(d.created) = Len(d.docs)
  BY <1>1, <1>3
<1>5. OneIntention'
  BY <1>1, <1>2, <1>4 DEF OneIntention
<1> QED
  BY <1>1, <1>5 DEF DraftInv

\* One number more: the length, the type and the numbering it leaves.
LEMMA OneMore ==
  ASSUME NEW s \in Seq(Nat), NEW x \in Nat
  PROVE  Append(s, x) \in Seq(Nat) /\ Len(Append(s, x)) = Len(s) + 1
  OBVIOUS

LEMMA NextNumber ==
  ASSUME NEW n \in Nat, NEW s \in Seq(Nat), s = [i \in 1 .. n |-> i], Len(s) = n
  PROVE  Append(s, n + 1) = [i \in 1 .. (n + 1) |-> i]
<1> DEFINE one == Append(s, n + 1)
<1>1. one \in Seq(Nat) /\ Len(one) = n + 1
  BY OneMore
<1>2. \A i \in 1 .. (n + 1) : one[i] = i
  OBVIOUS
<1>3. one = [i \in 1 .. (n + 1) |-> one[i]]
  <2> HIDE DEF one
  <2> QED
    BY <1>1
<1> HIDE DEF one
<1> QED
  BY <1>2, <1>3

\* A creation begins empty.
LEMMA NewSessionKeeps ==
  ASSUME NEW kind, NEW ns, NewSession(kind, ns)
  PROVE  DraftInv'
<1> DEFINE phase == IF Decide(kind, ns) THEN "open" ELSE "none"
           d == [NoDraft EXCEPT !.phase = phase]
<1>1. draft' = d
  BY DEF NewSession
<1>2. phase \in {"none", "open"}
  OBVIOUS
<1> HIDE DEF phase
<1>3. /\ d \in Creation(NoBasis) /\ d.basis = NoBasis
      /\ d.made = <<>> /\ d.created = <<>> /\ d.failed = <<>>
      /\ d.phase = phase /\ d.asked = {} /\ d.at = 1
  <2>1. NoDraft \in Creation(NoBasis) /\ NoDraft.basis = NoBasis
        /\ NoDraft.made = <<>> /\ NoDraft.created = <<>> /\ NoDraft.failed = <<>>
        /\ NoDraft.asked = {} /\ NoDraft.at = 1
    BY DEF NoDraft, Creation
  <2> QED
    BY <1>2, <2>1 DEF Creation
<1> HIDE DEF d
<1>4. PICK made : made = d
  OBVIOUS
<1> QED
  BY <1>1, <1>2, <1>3, <1>4, NothingMade

\* A manifest without problems has a first document to claim.
LEMMA CreateKeeps ==
  ASSUME DraftInv, NEW docs \in Manifests, NEW readable \in BOOLEAN,
         Create(docs, readable)
  PROVE  DraftInv'
<1> DEFINE phase == IF Preview(docs, readable) = {} THEN "claiming" ELSE "done"
           d == [draft EXCEPT !.docs = docs, !.phase = phase]
<1>1. draft' = d /\ draft.phase = "open"
  BY DEF Create
<1>2. docs \in Seq([kind: STRING, name: Nat, namespace: Nat])
  BY ManifestsAssumption
<1>3. phase \in {"claiming", "done"}
  OBVIOUS
<1>4. phase = "claiming" => docs # <<>>
  BY DEF Preview, ParseProblems
<1> HIDE DEF phase
<1>5. /\ d \in Creation(draft.basis) /\ d.basis = draft.basis
      /\ d.made = <<>> /\ d.created = <<>> /\ d.failed = <<>>
      /\ d.phase = phase /\ d.asked = {} /\ d.at = 1 /\ d.docs = docs
  BY <1>1, <1>2, <1>3 DEF DraftInv, Creation
<1> HIDE DEF d
<1>6. d.phase = "claiming" => 1 \in 1 .. Len(d.docs)
  BY <1>2, <1>4, <1>5
<1>7. 1 .. (d.at - 1) = {} /\ (d.docs = <<>> \/ d.asked # DOMAIN d.docs)
  <2>1. docs # <<>> => 1 \in DOMAIN docs
    BY <1>2
  <2> QED BY <1>5, <2>1
<1>8. PICK made : made = d
  OBVIOUS
<1> QED
  BY <1>1, <1>3, <1>5, <1>6, <1>7, <1>8, NothingMade

\* Claims are asked for in order; after the last of them, writing begins.
LEMMA CreateClaimKeeps ==
  ASSUME DraftInv, CreateClaim
  PROVE  DraftInv'
<1>0. /\ draft.phase = "claiming"
      /\ draft \in Creation(draft.basis)
      /\ draft.made = <<>> /\ draft.created = <<>> /\ draft.failed = <<>>
      /\ draft.at \in 1 .. Len(draft.docs)
      /\ draft.asked = 1 .. (draft.at - 1)
  BY DEF CreateClaim, DraftInv
<1>1. PICK basis :
        \/ draft' = AfterClaim([draft EXCEPT !.asked = @ \cup {draft.at},
                                             !.basis = basis])
        \/ draft' = [draft EXCEPT !.phase = "done"]
  BY DEF CreateClaim
<1>2. CASE draft' = [draft EXCEPT !.phase = "done"]
  <2> DEFINE d == [draft EXCEPT !.phase = "done"]
  <2>1. /\ d \in Creation(draft.basis) /\ d.basis = draft.basis
        /\ d.made = <<>> /\ d.created = <<>> /\ d.failed = <<>>
        /\ d.phase = "done" /\ d.asked = draft.asked /\ d.docs = draft.docs
    BY <1>0 DEF Creation
  <2>4. draft.asked # DOMAIN draft.docs
    <3>1. draft.docs \in Seq([kind: STRING, name: Nat, namespace: Nat])
      BY <1>0 DEF Creation
    <3>2. Len(draft.docs) \in DOMAIN draft.docs /\ Len(draft.docs) \notin draft.asked
      BY <1>0, <3>1
    <3> QED BY <3>2
  <2> HIDE DEF d
  <2>2. PICK made : made = d
    OBVIOUS
  <2>3. draft' = d
    BY <1>2 DEF d
  <2> QED
    BY <2>1, <2>2, <2>3, <2>4, NothingMade
<1>3. CASE draft' = AfterClaim([draft EXCEPT !.asked = @ \cup {draft.at},
                                            !.basis = basis])
  <2> DEFINE claimed == [draft EXCEPT !.asked = @ \cup {draft.at}, !.basis = basis]
  <2>0. draft.at \in Nat /\ draft.asked \cup {draft.at} = 1 .. draft.at
    BY <1>0 DEF Creation
  <2>1. /\ claimed \in Creation(basis) /\ claimed.basis = basis
        /\ claimed.asked = 1 .. draft.at
        /\ claimed.phase = "claiming" /\ claimed.at = draft.at
        /\ claimed.docs = draft.docs
        /\ claimed.made = <<>> /\ claimed.created = <<>> /\ claimed.failed = <<>>
    BY <1>0, <2>0 DEF Creation
  <2>2. draft' = AfterClaim(claimed)
    BY <1>3
  <2> HIDE DEF claimed
  <2>3. CASE draft.at = Len(draft.docs)
    <3> DEFINE d == [claimed EXCEPT !.phase = "writing", !.at = 1]
    <3>1. draft' = d
      BY <2>1, <2>2, <2>3 DEF AfterClaim
    <3>2. /\ d \in Creation(basis) /\ d.basis = basis /\ d.docs = draft.docs
          /\ d.made = <<>> /\ d.created = <<>> /\ d.failed = <<>>
          /\ d.phase = "writing" /\ d.at = 1 /\ d.asked = 1 .. draft.at
      BY <2>1 DEF Creation
    <3> HIDE DEF d
    <3>3. draft.docs \in Seq([kind: STRING, name: Nat, namespace: Nat])
      BY <1>0 DEF Creation
    <3>4. d.asked = DOMAIN d.docs /\ 1 \in 1 .. Len(d.docs)
      BY <1>0, <2>3, <3>2, <3>3
    <3>5. /\ Len(d.created) = 0 /\ Len(d.made) = 0 /\ Len(d.failed) = 0
          /\ d.created = [i \in 1 .. 0 |-> i]
      BY <3>2
    <3> QED
      BY <3>1, <3>2, <3>4, <3>5 DEF DraftInv, OneIntention
  <2>4. CASE draft.at # Len(draft.docs)
    <3> DEFINE d == [claimed EXCEPT !.at = @ + 1]
    <3>1. draft' = d
      BY <2>1, <2>2, <2>4 DEF AfterClaim
    <3>2. /\ d \in Creation(basis) /\ d.basis = basis /\ d.docs = draft.docs
          /\ d.made = <<>> /\ d.created = <<>> /\ d.failed = <<>>
          /\ d.phase = "claiming" /\ d.at = draft.at + 1
          /\ d.asked = 1 .. draft.at
      <4>1. draft.at + 1 \in Nat
        BY <2>0
      <4>2. d = [claimed EXCEPT !.at = draft.at + 1]
        BY <2>1
      <4> QED
        BY <2>1, <4>1, <4>2 DEF Creation
    <3> HIDE DEF d
    <3>3. draft.docs \in Seq([kind: STRING, name: Nat, namespace: Nat])
      BY <1>0 DEF Creation
    <3>4. d.at \in 1 .. Len(d.docs) /\ d.asked = 1 .. (d.at - 1)
      <4> DEFINE at == draft.at
                 n == Len(draft.docs)
      <4>1. n \in Nat
        BY <3>3
      <4>2. at \in 1 .. n /\ at # n
        BY <1>0, <2>4
      <4>3. d.at = at + 1 /\ Len(d.docs) = n /\ d.asked = 1 .. at
        BY <3>2
      <4> HIDE DEF at, n
      <4>4. at + 1 \in 1 .. n /\ (at + 1) - 1 = at
        BY <4>1, <4>2
      <4> QED
        BY <4>3, <4>4
    <3>5. PICK made : made = d
      OBVIOUS
    <3> QED
      BY <3>1, <3>2, <3>4, <3>5, NothingMade
  <2> QED
    BY <2>3, <2>4
<1> QED
  BY <1>1, <1>2, <1>3

\* The documents are written in order, and the first failure is the last write.
LEMMA CreateWriteKeeps ==
  ASSUME ObjectsInv, DraftInv, NEW reply \in Replies, CreateWrite(reply)
  PROVE  DraftInv'
<1> DEFINE at == draft.at
           n == Len(draft.created)
           last == at = Len(draft.docs)
<1>0. /\ draft.phase = "writing"
      /\ draft \in Creation(draft.basis)
      /\ at \in 1 .. Len(draft.docs) /\ at = n + 1
      /\ draft.asked = DOMAIN draft.docs /\ draft.failed = <<>>
      /\ draft.created \in Seq(Nat) /\ draft.made \in Seq(Nat)
      /\ draft.created = [i \in 1 .. n |-> i]
      /\ Len(draft.made) = n
  <2>1. /\ draft.phase = "writing"
        /\ draft \in Creation(draft.basis)
        /\ at \in 1 .. Len(draft.docs) /\ at = n + 1
        /\ draft.asked = DOMAIN draft.docs /\ draft.failed = <<>>
        /\ draft.created \in Seq(Nat) /\ draft.made \in Seq(Nat)
        /\ draft.created = [i \in 1 .. n |-> i]
        /\ Len(draft.made) \in n .. (n + Len(draft.failed))
    BY DEF CreateWrite, DraftInv, OneIntention, Creation
  <2>2. Len(draft.failed) = 0 /\ n \in Nat
    BY <2>1
  <2> QED BY <2>1, <2>2
<1> DEFINE more == Append(draft.made, version + 1)
<1>1. \/ \E made \in {draft.made, more} :
           draft' = AfterFailure([draft EXCEPT !.failed = Append(@, at), !.made = made])
      \/ draft' = [draft EXCEPT !.created = Append(@, at), !.made = more,
                     !.phase = IF last THEN "done" ELSE @,
                     !.at = IF last THEN @ ELSE @ + 1]
  BY DEF CreateWrite
<1>v. version + 1 \in Nat
  BY DEF ObjectsInv
<1>2. ASSUME NEW made \in {draft.made, more},
             draft' = AfterFailure([draft EXCEPT !.failed = Append(@, at), !.made = made])
      PROVE  DraftInv'
  <2> DEFINE failing == [draft EXCEPT !.failed = <<at>>, !.made = made]
             d == [failing EXCEPT !.phase = "done"]
  <2>1. Append(draft.failed, at) = <<at>> /\ <<at>> \in Seq(Nat) /\ Len(<<at>>) = 1
    BY <1>0
  <2>2. draft' = d
    <3>1. [draft EXCEPT !.failed = Append(@, at), !.made = made]
            = [draft EXCEPT !.failed = Append(draft.failed, at), !.made = made]
      BY <1>0 DEF Creation
    <3>2. [draft EXCEPT !.failed = Append(@, at), !.made = made] = failing
      BY <2>1, <3>1
    <3> DEFINE sent == [draft EXCEPT !.failed = Append(@, at), !.made = made]
    <3>3. draft' = AfterFailure(sent) /\ sent = failing
      BY <1>2, <3>2
    <3> HIDE DEF failing, sent
    <3> QED BY <3>3 DEF AfterFailure
  <2>m. made \in Seq(Nat) /\ Len(made) \in n .. (n + 1)
    <3>1. more \in Seq(Nat) /\ Len(more) = n + 1 /\ n \in Nat
      BY <1>0, <1>v, OneMore
    <3> HIDE DEF more
    <3> QED BY <1>0, <1>2, <3>1
  <2> HIDE DEF more
  <2>3. /\ d \in Creation(draft.basis) /\ d.basis = draft.basis
        /\ d.phase = "done" /\ d.failed = <<at>>
        /\ d.made = made /\ d.created = draft.created
        /\ d.asked = draft.asked /\ d.docs = draft.docs
    <3>1. /\ failing \in Creation(draft.basis) /\ failing.basis = draft.basis
          /\ failing.failed = <<at>> /\ failing.made = made
          /\ failing.created = draft.created
          /\ failing.asked = draft.asked /\ failing.docs = draft.docs
      BY <1>0, <2>1, <2>m DEF Creation
    <3> HIDE DEF failing
    <3> QED BY <3>1 DEF Creation
  <2> HIDE DEF d
  <2>4. d.failed = <<Len(d.created) + 1>> /\ d.failed # <<>>
    BY <1>0, <2>3
  <2>5. Len(d.made) \in Len(d.created) .. (Len(d.created) + Len(d.failed))
    BY <2>1, <2>3, <2>m
  <2> QED
    BY <1>0, <2>2, <2>3, <2>4, <2>5 DEF DraftInv, OneIntention
<1>3. CASE draft' = [draft EXCEPT !.created = Append(@, at), !.made = more,
                       !.phase = IF last THEN "done" ELSE @,
                       !.at = IF last THEN @ ELSE @ + 1]
  <2> DEFINE created == Append(draft.created, at)
             made == Append(draft.made, version + 1)
             phase == IF last THEN "done" ELSE "writing"
             next == IF last THEN at ELSE at + 1
             d == [draft EXCEPT !.created = created, !.made = made,
                                !.phase = phase, !.at = next]
  <2>1. n \in Nat /\ at \in Nat /\ version + 1 \in Nat
    BY <1>0 DEF ObjectsInv
  <2>2. created \in Seq(Nat) /\ made \in Seq(Nat)
        /\ Len(created) = n + 1 /\ Len(made) = n + 1
    <3>1. created \in Seq(Nat) /\ Len(created) = n + 1
      BY <1>0, <2>1, OneMore
    <3>2. made \in Seq(Nat) /\ Len(made) = n + 1
      BY <1>0, <2>1, OneMore
    <3> QED
      BY <3>1, <3>2
  <2>3. created = [i \in 1 .. (n + 1) |-> i]
    BY <1>0, <2>1, NextNumber
  <2>4. draft' = d
    BY <1>0, <1>3
  <2>5. phase \in {"writing", "done"} /\ next \in Nat
    BY <2>1
  <2>6. phase = "writing" => next \in 1 .. Len(draft.docs) /\ next = Len(created) + 1
    BY <1>0, <2>1, <2>2
  <2> HIDE DEF created, made, phase, next
  <2>7. /\ d \in Creation(draft.basis) /\ d.basis = draft.basis
        /\ d.phase = phase /\ d.at = next /\ d.failed = <<>>
        /\ d.made = made /\ d.created = created
        /\ d.asked = draft.asked /\ d.docs = draft.docs
    BY <1>0, <2>2, <2>5 DEF Creation
  <2> HIDE DEF d
  <2>8. d.phase = "done" => Len(d.created) = Len(d.docs)
    <3>1. d.phase = "done" => at = Len(draft.docs)
      BY <1>0, <2>7 DEF phase
    <3> QED BY <1>0, <2>2, <2>7, <3>1
  <2>9. Len(d.made) \in Len(d.created) .. (Len(d.created) + Len(d.failed))
    BY <1>0, <2>1, <2>2, <2>7
  <2> QED
    BY <1>0, <2>2, <2>3, <2>4, <2>5, <2>6, <2>7, <2>8, <2>9 DEF DraftInv, OneIntention
<1> QED
  BY <1>1, <1>2, <1>3

-----------------------------------------------------------------------------
(* The invariant *)

IInv == ObjectsInv /\ EditorsInv /\ DraftInv

\* The objects, the sessions and the creation are sound at first.
LEMMA InitIInv == Init => IInv
<1> SUFFICES ASSUME Init PROVE IInv
  OBVIOUS
<1>1. ObjectsInv
  <2> DEFINE held == [version |-> 1, tracked |-> {}, replicas |-> 1, halted |-> FALSE]
  <2>1. held \in Held /\ held.version = 1
    BY DEF Held, Marks
  <2>2. objects = [n \in Names |-> IF n = 1 THEN <<held>> ELSE <<>>]
    BY DEF Init
  <2>3. <<held>>[1] = held
    OBVIOUS
  <2> HIDE DEF held
  <2>4. objects \in [Names -> Holdings]
    BY <2>1, <2>2 DEF Holdings
  <2>5. version = 1 /\ applications = {}
    BY DEF Init
  <2> QED
    BY <2>1, <2>2, <2>3, <2>4, <2>5 DEF ObjectsInv
<1>2. EditorsInv
  <2>1. Closed \in Session(NoBasis) /\ Closed.basis = NoBasis
        /\ Closed.opened = 0 /\ Closed.phase = "closed"
        /\ Closed.over = <<>> /\ Closed.told = ""
    BY DEF Closed, Session
  <2>2. 0 <= version
    BY DEF Init
  <2>3. SoundEditor(Closed)
    BY <2>1, <2>2 DEF SoundEditor
  <2> QED
    BY <2>3 DEF Init, EditorsInv
<1>3. DraftInv
  <2>1. /\ NoDraft \in Creation(NoBasis) /\ NoDraft.basis = NoBasis
        /\ NoDraft.made = <<>> /\ NoDraft.created = <<>> /\ NoDraft.failed = <<>>
        /\ NoDraft.phase = "none" /\ NoDraft.asked = {} /\ NoDraft.at = 1
    BY DEF NoDraft, Creation
  <2>2. Len(NoDraft.created) = 0 /\ Len(NoDraft.made) = 0 /\ Len(NoDraft.failed) = 0
        /\ NoDraft.created = [i \in 1 .. 0 |-> i]
    BY <2>1
  <2>3. draft = NoDraft
    BY DEF Init
  <2>4. /\ Len(NoDraft.made)
             \in Len(NoDraft.created) .. (Len(NoDraft.created) + Len(NoDraft.failed))
        /\ NoDraft.phase # "done"
    BY <2>1, <2>2
  <2>5. OneIntention
    BY <2>1, <2>2, <2>3, <2>4 DEF OneIntention
  <2> QED
    BY <2>1, <2>3, <2>5 DEF DraftInv
<1> QED
  BY <1>1, <1>2, <1>3 DEF IInv

\* Every step keeps all three.
LEMMA NextIInv == IInv /\ [Next]_vars => IInv'
<1>1. ASSUME IInv, Next PROVE DraftInv'
  <2>1. ASSUME draft' = draft PROVE DraftInv'
    BY <1>1, <2>1 DEF IInv, DraftInv, OneIntention
  <2>2. \/ \E n \in Names : OthersMake(n) \/ OthersDelete(n) \/ OthersWrite(n)
        \/ ApplicationsChange \/ PermissionChanges \/ Tick
        \/ \E e \in Editors, n \in Names : OpenSession(e, n)
        \/ \E e \in Editors, text \in {"same", "edited", "renamed", "broken"} :
             ApplyGate(e, text)
        \/ \E e \in Editors : Freshness(e) \/ ApplyCheck(e) \/ ApplyUpdate(e)
        \/ \E n \in Names, a \in Actions, r \in 0 .. 1 : Perform(n, a, r)
        => draft' = draft
    BY DEF OthersMake, OthersDelete, OthersWrite, Others, ApplicationsChange,
       PermissionChanges, Tick, OpenSession, ApplyGate, Freshness, ApplyCheck,
       ApplyUpdate, Perform, ClusterUnchanged
  <2> QED
    BY <1>1, <2>1, <2>2, NewSessionKeeps, CreateKeeps, CreateClaimKeeps,
       CreateWriteKeeps DEF IInv, Next
<1>2. ASSUME IInv, Next PROVE IInv'
  BY <1>1, <1>2, NextObjects, NextEditors DEF IInv
<1>3. ASSUME IInv, UNCHANGED vars PROVE IInv'
  BY <1>3 DEF IInv, vars, ObjectsInv, EditorsInv, SoundEditor, HasMoved,
     DraftInv, OneIntention
<1> QED
  BY <1>2, <1>3

-----------------------------------------------------------------------------
(* What a search found, and what is remembered of it *)

Found(lists, uncertainties, probes) ==
  [apps: lists, complete: BOOLEAN, installed: Installations, uncertainty: uncertainties,
   probes: probes]

\* A search that is complete lists every Application there was, and is free of
\* doubt; one that was refused is not complete.
SoundFound(found, apps) ==
  /\ found \in Found({found.apps}, {found.uncertainty}, {found.probes})
  /\ found.installed # "no"
  /\ found.complete => /\ found.uncertainty = ""
                       /\ Range(found.apps) = {Candidates[a] : a \in apps}

\* Only the search of the whole cluster is ever complete.
SoundSearch(key, search) ==
  /\ search.at \in Nat /\ search.at <= now
  /\ search.apps \subseteq Apps
  /\ SoundFound(search.found, search.apps)
  /\ key # <<>> => ~search.found.complete

ClusterInv ==
  /\ now \in Nat /\ listing \in {"ok", "forbidden"}
  /\ applications \subseteq Apps /\ IsFiniteSet(applications)

CacheInv == \A key \in DOMAIN cache : SoundSearch(key, cache[key])

\* The listing of a finite set of Applications has every one of them.
LEMMA ListedInFull ==
  ASSUME NEW S, IsFiniteSet(S)
  PROVE  /\ Len(SetToSeq(S)) \in Nat
         /\ SetToSeq(S) \in Seq(S)
         /\ Range(SetToSeq(S)) = S
<1> DEFINE n == Cardinality(S)
           s == SetToSeq(S)
<1>1. n \in Nat /\ ExistsBijection(1 .. n, S)
  BY FS_CardinalityType
<1>2. s \in [1 .. n -> S] /\ IsInjective(s)
  <2>1. PICK f \in Bijection(1 .. n, S) : TRUE
    BY <1>1 DEF ExistsBijection
  <2>2. f \in [1 .. n -> S] /\ IsInjective(f)
    BY <2>1 DEF Bijection, Injection
  <2> QED
    BY <2>2 DEF SetToSeq
<1>3. s \in Seq(S) /\ Len(s) = n
  BY <1>1, <1>2
<1>4. s \in Injection(1 .. n, S)
  BY <1>2 DEF Injection
<1>5. Cardinality(1 .. n) = n
  <2>1. 1 \in Int /\ n \in Int
    BY <1>1
  <2>2. Cardinality(1 .. n) = IF 1 > n THEN 0 ELSE n - 1 + 1
    BY <2>1, FS_Interval
  <2> QED
    BY <1>1, <2>2
<1>6. s \in Surjection(1 .. n, S)
  BY <1>4, <1>5, FS_Injection
<1>7. Range(s) = S
  BY <1>2, <1>6 DEF Range, Surjection
<1> QED
  BY <1>1, <1>3, <1>7

\* When a search is sound, field by field.
LEMMA SearchOfFields ==
  ASSUME NEW listed, NEW uncertainty, NEW probes, NEW apps,
         NEW found \in Found({listed}, {uncertainty}, {probes}), found.installed # "no",
         found.complete => uncertainty = "" /\ Range(listed) = {Candidates[a] : a \in apps}
  PROVE  SoundFound(found, apps)
<1>1. found.apps = listed /\ found.uncertainty = uncertainty /\ found.probes = probes
  BY DEF Found
<1> QED
  BY <1>1 DEF SoundFound

LEMMA SearchFields ==
  ASSUME NEW listed, NEW probes
  PROVE  LET found == [Search("yes") EXCEPT !.installed = "yes", !.apps = listed]
             partial == [found EXCEPT !.uncertainty = "incomplete", !.probes = probes]
             whole == [found EXCEPT !.complete = TRUE, !.probes = probes]
         IN  /\ partial \in Found({listed}, {"incomplete"}, {probes})
             /\ partial.installed = "yes" /\ ~partial.complete
             /\ whole \in Found({listed}, {""}, {probes})
             /\ whole.installed = "yes" /\ whole.complete
  BY DEF Search, Found, Installations

\* What the search of the cluster finds.
LEMMA SearchIsSound ==
  ASSUME ClusterInv
  PROVE  SoundFound(SearchCluster(Cluster), applications)
<1> DEFINE apps == {Candidates[a] : a \in applications}
           all == SetToSeq(apps)
           listed == ListPaged(all)
           search == Search("yes")
<1>1. /\ Len(all) \in Nat /\ all \in Seq(apps) /\ Range(all) = apps
  <2>1. IsFiniteSet(applications)
    BY DEF ClusterInv
  <2> DEFINE f == [a \in applications |-> Candidates[a]]
  <2>2. f \in Surjection(applications, apps)
    BY DEF Surjection
  <2> HIDE DEF apps, f
  <2>3. IsFiniteSet(apps)
    BY <2>1, <2>2, FS_Surjection
  <2> QED
    BY <2>3, ListedInFull
<1>2. ~listed.truncated => Range(listed.apps) = apps
  <2> HIDE DEF apps
  <2>1. SubSeq(all, 1, Len(all)) = all
    <3> HIDE DEF all
    <3> QED
      BY <1>1
  <2>2. ~listed.truncated => listed.apps = SubSeq(all, 1, Len(all))
    BY DEF ListPaged
  <2> QED
    BY <1>1, <2>1, <2>2
<1>3. /\ Cluster.apps = all /\ Cluster.connected /\ Cluster.wide = listing
      /\ Installation(Cluster) = "yes" /\ ListPaged(Cluster.apps) = listed
  BY DEF Cluster, Installation
<1>4. listed.truncated \in BOOLEAN
  BY DEF ListPaged
<1> HIDE DEF apps, all, listed
<1>5. CASE listing = "forbidden"
  <2>1. SearchCluster(Cluster) = ListingRefused(Search("yes"), "cluster", "forbidden")
    BY <1>3, <1>5 DEF SearchCluster, Search
  <2>2. PICK probes :
          /\ ListingRefused(Search("yes"), "cluster", "forbidden")
               \in Found({<<>>}, {"forbidden"}, {probes})
          /\ ListingRefused(Search("yes"), "cluster", "forbidden").installed = "yes"
          /\ ~ListingRefused(Search("yes"), "cluster", "forbidden").complete
    BY DEF ListingRefused, Search, Found, Installations
  <2> QED
    BY <2>1, <2>2, SearchOfFields
<1>6. CASE listing = "ok"
  <2> DEFINE found == [Search("yes") EXCEPT !.installed = "yes", !.apps = listed.apps]
  <2>1. Search("yes").installed = "yes"
    BY DEF Search
  <2>2. SearchCluster(Cluster) =
          IF listed.truncated
          THEN [found EXCEPT !.uncertainty = "incomplete", !.probes = Probe("cluster", "truncated")]
          ELSE [found EXCEPT !.complete = TRUE, !.probes = Probe("cluster", "ok")]
    BY <1>3, <1>6, <2>1 DEF SearchCluster
  <2>3. CASE listed.truncated
    <3> DEFINE partial == [found EXCEPT !.uncertainty = "incomplete",
                                        !.probes = Probe("cluster", "truncated")]
    <3>1. /\ partial \in Found({listed.apps}, {"incomplete"}, {Probe("cluster", "truncated")})
          /\ partial.installed = "yes" /\ ~partial.complete
      BY SearchFields
    <3>2. SearchCluster(Cluster) = partial
      BY <2>2, <2>3
    <3> HIDE DEF partial
    <3> QED
      BY <3>1, <3>2, SearchOfFields
  <2>4. CASE ~listed.truncated
    <3> DEFINE whole == [found EXCEPT !.complete = TRUE, !.probes = Probe("cluster", "ok")]
    <3>1. /\ whole \in Found({listed.apps}, {""}, {Probe("cluster", "ok")})
          /\ whole.installed = "yes" /\ whole.complete
      BY SearchFields
    <3>2. SearchCluster(Cluster) = whole
      BY <2>2, <2>4
    <3>3. Range(listed.apps) = {Candidates[a] : a \in applications}
      BY <1>2, <2>4 DEF apps
    <3> HIDE DEF whole
    <3> QED
      BY <3>1, <3>2, <3>3, SearchOfFields
  <2> QED
    BY <2>3, <2>4
<1> QED
  BY <1>5, <1>6 DEF ClusterInv

\* The search of one namespace adds to that of the cluster and completes nothing.
LEMMA NearFields ==
  ASSUME NEW L, NEW U, NEW P, NEW wide \in Found(L, U, P), wide.installed # "no",
         ~wide.complete, NEW lists, NEW probes
  PROVE  LET refused == [wide EXCEPT !.probes = probes]
             added == [wide EXCEPT !.apps = lists, !.installed = "yes", !.probes = probes]
         IN  /\ refused \in Found(L, U, {probes}) /\ refused.installed # "no" /\ ~refused.complete
             /\ added \in Found({lists}, U, {probes}) /\ added.installed # "no" /\ ~added.complete
  BY DEF Found, Installations

LEMMA NearIsSound ==
  ASSUME ClusterInv, NEW wide, NEW before, SoundFound(wide, before), ~wide.complete,
         NEW namespace, NEW apps
  PROVE  /\ SoundFound(SearchNamespace(Cluster, namespace, wide), apps)
         /\ ~SearchNamespace(Cluster, namespace, wide).complete
<1> DEFINE near == SearchNamespace(Cluster, namespace, wide)
<1>1. Cluster.connected /\ Cluster.near = listing
  BY DEF Cluster
<1>2. wide \in Found({wide.apps}, {wide.uncertainty}, {wide.probes}) /\ wide.installed # "no"
  BY DEF SoundFound
<1>3. CASE listing = "forbidden"
  <2> DEFINE probes == wide.probes \o ProbeFor("namespace", Cluster.near)
  <2>1. near = [wide EXCEPT !.probes = probes]
    BY <1>1, <1>3 DEF SearchNamespace
  <2> HIDE DEF probes, near
  <2>2. /\ near \in Found({wide.apps}, {wide.uncertainty}, {probes})
        /\ near.installed # "no" /\ ~near.complete
    BY <1>2, <2>1, NearFields
  <2>3. SoundFound(near, apps) /\ ~near.complete
    BY <2>2, SearchOfFields
  <2> QED
    BY <2>3 DEF near
<1>4. CASE listing = "ok"
  <2>1. PICK lists, probes :
          near = [wide EXCEPT !.apps = lists, !.installed = "yes", !.probes = probes]
    BY <1>1, <1>4 DEF SearchNamespace
  <2> DEFINE added == [wide EXCEPT !.apps = lists, !.installed = "yes", !.probes = probes]
  <2>2. /\ added \in Found({lists}, {wide.uncertainty}, {probes})
        /\ added.installed # "no" /\ ~added.complete
    BY <1>2, NearFields
  <2>3. near = added
    BY <2>1
  <2> HIDE DEF near, added
  <2>4. SoundFound(near, apps) /\ ~near.complete
    BY <2>2, <2>3, SearchOfFields
  <2> QED
    BY <2>4 DEF near
<1> QED
  BY <1>3, <1>4 DEF ClusterInv

\* What is remembered of an answer is sound, and only an answer that rests on
\* the search of the cluster, not older than its lifetime, is complete.
LEMMA AskedIsSound ==
  ASSUME ClusterInv, CacheInv, NEW namespace
  PROVE  LET asked == Asked(namespace)
             kept == Kept(namespace)
         IN  /\ \A key \in DOMAIN kept : SoundSearch(key, kept[key])
             /\ <<>> \in DOMAIN kept
             /\ asked.found.installed # "no"
             /\ asked.found.complete => /\ asked.found = kept[<<>>].found
                                        /\ now - kept[<<>>].at <= DiscoveryTTL
<1> DEFINE remembered == [k \in Alive |-> cache[k].found]
           wide == Cached(remembered, <<>>, SearchCluster(Cluster))
           first == Remembering(remembered, <<>>, wide)
           near == Cached(first, <<namespace>>, SearchNamespace(Cluster, namespace, wide))
           both == Remembering(first, <<namespace>>, near)
           enough == wide.complete \/ namespace = 0 \/ wide.installed = "no"
           asked == Asked(namespace)
           kept == Kept(namespace)
<1>1. /\ enough => asked = [found |-> wide, cache |-> first]
      /\ ~enough => asked = [found |-> near, cache |-> both]
  BY DEF Asked, Discover
<1>2. ASSUME NEW k \in Alive
      PROVE  /\ k \in DOMAIN remembered /\ remembered[k] = cache[k].found
             /\ SoundSearch(k, cache[k]) /\ now <= cache[k].at + TtlFor(cache[k].found)
  BY DEF CacheInv, Alive
<1>3. /\ <<>> \in Alive => wide = cache[<<>>].found
      /\ <<>> \notin Alive => wide = SearchCluster(Cluster)
  BY DEF Cached
<1>4. /\ DOMAIN first = Alive \cup {<<>>}
      /\ first[<<>>] = wide
      /\ \A k \in Alive : first[k] = cache[k].found
  BY <1>2, <1>3 DEF Remembering, Cached
<1>5. /\ <<namespace>> \in Alive => near = cache[<<namespace>>].found
      /\ <<namespace>> \notin Alive => near = SearchNamespace(Cluster, namespace, wide)
      /\ <<namespace>> # <<>>
  BY <1>4 DEF Cached
<1>6. /\ DOMAIN both = Alive \cup {<<>>, <<namespace>>}
      /\ both[<<>>] = wide /\ both[<<namespace>>] = near
      /\ \A k \in Alive : both[k] = cache[k].found
  BY <1>4, <1>5 DEF Remembering, Cached
<1>7. /\ DOMAIN kept = DOMAIN asked.cache
      /\ \A k \in DOMAIN asked.cache :
           /\ k \in Alive => kept[k] = cache[k]
           /\ k \notin Alive => /\ kept[k].found = asked.cache[k] /\ kept[k].at = now
                               /\ kept[k].apps = applications
  <2>1. kept = [k \in DOMAIN asked.cache |->
                  IF k \in Alive THEN cache[k]
                  ELSE [found |-> asked.cache[k], at |-> now, apps |-> applications]]
    BY DEF Kept
  <2> HIDE DEF kept, asked
  <2>2. DOMAIN kept = DOMAIN asked.cache
    BY <2>1
  <2>3. ASSUME NEW k \in DOMAIN asked.cache, k \notin Alive
        PROVE  kept[k] = [found |-> asked.cache[k], at |-> now, apps |-> applications]
    BY <2>1, <2>3
  <2> QED
    BY <2>1, <2>2, <2>3
<1> HIDE DEF remembered, first, near, both, asked, kept
<1>8. \E apps : SoundFound(wide, apps)
  <2>1. SoundFound(SearchCluster(Cluster), applications)
    BY SearchIsSound
  <2> QED
    BY <1>2, <1>3, <2>1 DEF SoundSearch
<1>9. <<>> \notin Alive => SoundFound(wide, applications)
  BY <1>3, SearchIsSound
<1> HIDE DEF wide
<1>10. ~enough => /\ \E apps : SoundFound(near, apps)
                  /\ ~near.complete
                  /\ <<namespace>> \notin Alive => SoundFound(near, applications)
  <2> SUFFICES ASSUME ~enough
               PROVE  /\ \E apps : SoundFound(near, apps)
                      /\ ~near.complete
                      /\ <<namespace>> \notin Alive => SoundFound(near, applications)
    OBVIOUS
  <2>1. CASE <<namespace>> \in Alive
    BY <1>2, <1>5, <2>1 DEF SoundSearch
  <2>2. CASE <<namespace>> \notin Alive
    BY <1>5, <1>8, <2>2, NearIsSound
  <2> QED
    BY <2>1, <2>2
<1>11. DOMAIN asked.cache = IF enough THEN Alive \cup {<<>>} ELSE Alive \cup {<<>>, <<namespace>>}
  BY <1>1, <1>4, <1>6
<1>12. /\ <<>> \in DOMAIN asked.cache /\ asked.cache[<<>>] = wide
       /\ ~enough => asked.cache[<<namespace>>] = near
  BY <1>1, <1>4, <1>6
<1>13. ASSUME NEW k \in DOMAIN kept PROVE SoundSearch(k, kept[k])
  <2>1. CASE k \in Alive
    BY <1>2, <1>7, <2>1
  <2>2. CASE k \notin Alive
    <3>1. /\ kept[k].found = asked.cache[k] /\ kept[k].at = now
          /\ kept[k].apps = applications
      BY <1>7, <2>2
    <3>2. CASE k = <<>>
      BY <1>9, <1>12, <2>2, <3>1, <3>2 DEF SoundSearch, ClusterInv
    <3>3. CASE k # <<>>
      <4>1. ~enough /\ k = <<namespace>>
        BY <1>7, <1>11, <2>2, <3>3
      <4>2. SoundFound(near, applications) /\ ~near.complete
        BY <1>10, <2>2, <4>1
      <4> QED
        BY <1>12, <3>1, <4>1, <4>2 DEF SoundSearch, ClusterInv
    <3> QED
      BY <3>2, <3>3
  <2> QED
    BY <2>1, <2>2
<1>14. <<>> \in DOMAIN kept /\ kept[<<>>].found = wide
  BY <1>3, <1>7, <1>12
<1>15. asked.found = IF enough THEN wide ELSE near
  BY <1>1
<1>16. asked.found.installed # "no"
  BY <1>8, <1>10, <1>15 DEF SoundFound
<1>17. ASSUME asked.found.complete
       PROVE  asked.found = kept[<<>>].found /\ now - kept[<<>>].at <= DiscoveryTTL
  <2>1. asked.found = wide
    BY <1>10, <1>15, <1>17
  <2>2. SoundSearch(<<>>, kept[<<>>]) /\ wide.uncertainty = ""
    BY <1>13, <1>14, <1>17, <2>1 DEF SoundSearch, SoundFound
  <2>3. CASE <<>> \in Alive
    <3>1. kept[<<>>] = cache[<<>>] /\ TtlFor(wide) = DiscoveryTTL
      BY <1>7, <1>12, <2>2, <2>3 DEF TtlFor
    <3>2. now <= kept[<<>>].at + DiscoveryTTL
      BY <1>2, <1>14, <2>3, <3>1
    <3>3. now \in Nat /\ kept[<<>>].at \in Nat /\ DiscoveryTTL \in Nat
      BY <2>2, LifetimesAssumption DEF SoundSearch, ClusterInv
    <3> QED
      BY <1>14, <2>1, <3>2, <3>3
  <2>4. CASE <<>> \notin Alive
    <3>1. kept[<<>>].at = now
      BY <1>7, <1>12, <2>4
    <3> QED
      BY <1>14, <2>1, <3>1, LifetimesAssumption DEF ClusterInv
  <2> QED
    BY <2>3, <2>4
<1>18. /\ \A key \in DOMAIN kept : SoundSearch(key, kept[key])
       /\ <<>> \in DOMAIN kept
       /\ asked.found.installed # "no"
       /\ asked.found.complete => /\ asked.found = kept[<<>>].found
                                  /\ now - kept[<<>>].at <= DiscoveryTTL
  BY <1>13, <1>14, <1>16, <1>17
<1> QED
  BY <1>18 DEF asked, kept

-----------------------------------------------------------------------------
(* What the gate allows *)

\* Of Applications that have different names, one comes first.
LEMMA OneIsFirst ==
  ASSUME NEW top, top # {},
         \A a \in top : a.namespace \in Nat /\ a.name \in Nat,
         \A a, b \in top : a.namespace = b.namespace /\ a.name = b.name => a = b
  PROVE  \E a \in top : \A b \in top : a = b \/ Before(a, b)
<1> DEFINE namespaces == {a.namespace : a \in top}
<1>1. PICK least \in namespaces : \A n \in namespaces : ~(n < least)
  <2>1. namespaces \subseteq Nat /\ namespaces # {}
    OBVIOUS
  <2> HIDE DEF namespaces
  <2>2. \E least \in namespaces : \A n \in namespaces : <<n, least>> \notin OpToRel(<, Nat)
    BY <2>1, NatLessThanWellFounded, WFMin
  <2> QED
    BY <2>1, <2>2 DEF OpToRel
<1> DEFINE there == {a \in top : a.namespace = least}
           names == {a.name : a \in there}
<1>2. PICK first \in names : \A n \in names : ~(n < first)
  <2>1. names \subseteq Nat /\ names # {}
    BY <1>1
  <2> HIDE DEF names
  <2>2. \E first \in names : \A n \in names : <<n, first>> \notin OpToRel(<, Nat)
    BY <2>1, NatLessThanWellFounded, WFMin
  <2> QED
    BY <2>1, <2>2 DEF OpToRel
<1>3. PICK a \in top : a.namespace = least /\ a.name = first
  BY <1>2
<1>4. ASSUME NEW b \in top PROVE a = b \/ Before(a, b)
  <2>1. a.namespace \in Nat /\ a.name \in Nat /\ b.namespace \in Nat /\ b.name \in Nat
    OBVIOUS
  <2>2. CASE b.namespace = least
    <3>1. ~(b.name < a.name)
      BY <1>2, <1>3, <2>2
    <3> QED
      BY <1>3, <2>1, <2>2, <3>1 DEF Before
  <2>3. CASE b.namespace # least
    <3>1. ~(b.namespace < a.namespace)
      BY <1>1, <1>3
    <3> QED
      BY <1>3, <2>1, <2>3, <3>1 DEF Before
  <2> QED
    BY <2>2, <2>3
<1> QED
  BY <1>4

\* Of Applications that are ranked from 0 to 3, some are ranked highest.
LEMMA SomeRankHighest ==
  ASSUME NEW apps, apps # {}, NEW rank \in [apps -> 0 .. 3]
  PROVE  \E a \in apps : \A b \in apps : rank[b] <= rank[a]
<1>1. CASE \E a \in apps : rank[a] = 3
  BY <1>1
<1>2. CASE (\E a \in apps : rank[a] = 2) /\ \A a \in apps : rank[a] # 3
  BY <1>2
<1>3. CASE (\E a \in apps : rank[a] = 1) /\ \A a \in apps : rank[a] \notin {2, 3}
  BY <1>3
<1>4. CASE \A a \in apps : rank[a] \notin {1, 2, 3}
  BY <1>4
<1> QED
  BY <1>1, <1>2, <1>3, <1>4

Named(apps) ==
  /\ \A a \in apps : a.namespace \in Nat /\ a.name \in Nat
  /\ \A a, b \in apps : a.namespace = b.namespace /\ a.name = b.name => a = b

\* The first of those that are ranked highest is one of them.
LEMMA FirstOfBest ==
  ASSUME NEW apps, Named(apps), NEW rank \in [apps -> 0 .. 3],
         NEW claimant \in apps, rank[claimant] > 0
  PROVE  LET top == {a \in apps : \A b \in apps : rank[b] <= rank[a]}
             best == CHOOSE a \in top : \A b \in top : a = b \/ Before(a, b)
         IN  best \in apps /\ rank[best] \in 1 .. 3 /\ \A b \in apps : rank[b] <= rank[best]
<1> DEFINE top == {a \in apps : \A b \in apps : rank[b] <= rank[a]}
           best == CHOOSE a \in top : \A b \in top : a = b \/ Before(a, b)
<1>1. top # {}
  BY SomeRankHighest
<1>2. \E a \in top : \A b \in top : a = b \/ Before(a, b)
  <2>1. /\ \A a \in top : a.namespace \in Nat /\ a.name \in Nat
        /\ \A a, b \in top : a.namespace = b.namespace /\ a.name = b.name => a = b
    BY DEF Named
  <2> HIDE DEF top
  <2> QED
    BY <1>1, <2>1, OneIsFirst
<1>3. best \in top
  <2> HIDE DEF top
  <2> QED
    BY <1>2
<1>4. best \in apps /\ \A b \in apps : rank[b] <= rank[best]
  <2> HIDE DEF best
  <2> QED
    BY <1>3
<1>5. rank[best] \in 0 .. 3 /\ rank[claimant] \in 0 .. 3
  BY <1>4
<1> HIDE DEF top, best
<1>6. best \in apps /\ rank[best] \in 1 .. 3 /\ \A b \in apps : rank[b] <= rank[best]
  BY <1>4, <1>5
<1> QED
  BY <1>6 DEF best, top

\* Nobody claims an object, or the one that owns it is among those who do most.
LEMMA OwnerIsHighest ==
  ASSUME NEW object, NEW apps, Named(Range(apps))
  PROVE  LET owner == ResolveOwnership(object, apps)
         IN  \/ /\ \A a \in Range(apps) : OwnerRank(a, object) = 0
                /\ owner.confidence = "unmanaged" /\ owner.app = <<>>
             \/ \E best \in Range(apps) :
                  /\ OwnerRank(best, object) \in 1 .. 3
                  /\ \A a \in Range(apps) : OwnerRank(a, object) <= OwnerRank(best, object)
                  /\ owner.confidence = Confidence(OwnerRank(best, object))
                  /\ owner.app = <<best.namespace, best.name>>
<1> DEFINE rank == [a \in Range(apps) |-> OwnerRank(a, object)]
           top == {a \in Range(apps) : \A b \in Range(apps) : OwnerRank(b, object) <= OwnerRank(a, object)}
           best == CHOOSE a \in top : \A b \in top : a = b \/ Before(a, b)
           claimed == \E a \in Range(apps) : OwnerRank(a, object) > 0
<1>1. \A a : OwnerRank(a, object) \in 0 .. 3
  BY DEF OwnerRank
<1>2. ResolveOwnership(object, apps) =
        IF ~claimed THEN [confidence |-> "unmanaged", app |-> <<>>]
        ELSE [confidence |-> Confidence(OwnerRank(best, object)), app |-> <<best.namespace, best.name>>]
  BY DEF ResolveOwnership, Best
<1>3. CASE ~claimed
  <2>1. \A a \in Range(apps) : OwnerRank(a, object) = 0
    BY <1>1, <1>3
  <2> QED
    BY <1>2, <1>3, <2>1
<1>4. CASE claimed
  <2>1. PICK claimant \in Range(apps) : OwnerRank(claimant, object) > 0
    BY <1>4
  <2>2. rank \in [Range(apps) -> 0 .. 3] /\ rank[claimant] > 0
    BY <1>1, <2>1
  <2>3. top = {a \in Range(apps) : \A b \in Range(apps) : rank[b] <= rank[a]}
    OBVIOUS
  <2>4. best \in Range(apps) /\ rank[best] \in 1 .. 3 /\ \A b \in Range(apps) : rank[b] <= rank[best]
    <3> HIDE DEF rank
    <3> QED
      BY <2>2, <2>3, FirstOfBest
  <2>5. /\ OwnerRank(best, object) \in 1 .. 3
        /\ \A a \in Range(apps) : OwnerRank(a, object) <= OwnerRank(best, object)
    <3> HIDE DEF best
    <3> QED
      BY <2>4
  <2> HIDE DEF best
  <2> QED
    BY <1>2, <1>4, <2>4, <2>5
<1> QED
  BY <1>3, <1>4

\* The same of a claim to what does not exist yet.
LEMMA ClaimIsHighest ==
  ASSUME NEW target, NEW apps, Named(Range(apps))
  PROVE  LET claim == ResolveClaim(target, apps)
         IN  \/ /\ \A a \in Range(apps) : ClaimOf(a, target) = "none"
                /\ claim.kind = "none" /\ claim.app = <<>>
             \/ \E best \in Range(apps) :
                  /\ ClaimOf(best, target) \in {"namespace", "object"}
                  /\ claim.kind = ClaimOf(best, target)
                  /\ claim.app = <<best.namespace, best.name>>
<1> DEFINE RankOf(a) == ClaimRank(ClaimOf(a, target))
           rank == [a \in Range(apps) |-> RankOf(a)]
           top == {a \in Range(apps) : \A b \in Range(apps) : RankOf(b) <= RankOf(a)}
           best == CHOOSE a \in top : \A b \in top : a = b \/ Before(a, b)
           claimed == \E a \in Range(apps) : RankOf(a) > 0
<1>1. \A a : /\ ClaimOf(a, target) \in {"none", "namespace", "object"}
             /\ RankOf(a) \in 0 .. 3
             /\ RankOf(a) > 0 <=> ClaimOf(a, target) # "none"
  BY DEF ClaimOf, ClaimRank
<1>2. ResolveClaim(target, apps) =
        IF claimed THEN [kind |-> ClaimOf(best, target), app |-> <<best.namespace, best.name>>]
        ELSE [kind |-> "none", app |-> <<>>]
  BY DEF ResolveClaim, Best
<1>3. CASE ~claimed
  BY <1>1, <1>2, <1>3
<1>4. CASE claimed
  <2>1. PICK claimant \in Range(apps) : RankOf(claimant) > 0
    BY <1>4
  <2>2. rank \in [Range(apps) -> 0 .. 3] /\ rank[claimant] > 0
    BY <1>1, <2>1
  <2>3. top = {a \in Range(apps) : \A b \in Range(apps) : rank[b] <= rank[a]}
    OBVIOUS
  <2>4. best \in Range(apps) /\ rank[best] \in 1 .. 3
    <3> HIDE DEF rank
    <3> QED
      BY <2>2, <2>3, FirstOfBest
  <2>5. RankOf(best) > 0
    <3> HIDE DEF best
    <3> QED
      BY <2>4
  <2> HIDE DEF best
  <2> QED
    BY <1>1, <1>2, <1>4, <2>4, <2>5
<1> QED
  BY <1>3, <1>4

\* An object that some Application tracks, lists or is labelled with is owned.
LEMMA SomebodyOwns ==
  ASSUME NEW object, NEW apps, Named(Range(apps)),
         NEW claimant \in Range(apps), OwnerRank(claimant, object) > 0
  PROVE  ResolveOwnership(object, apps).confidence \in {"candidate", "confirmed", "tracked"}
<1>1. \A n \in 1 .. 3 : Confidence(n) \in {"candidate", "confirmed", "tracked"}
  BY DEF Confidence
<1>2. ~(OwnerRank(claimant, object) = 0)
  OBVIOUS
<1> QED
  BY <1>1, <1>2, OwnerIsHighest

\* What some Application claims is claimed.
LEMMA SomebodyClaims ==
  ASSUME NEW target, NEW apps, Named(Range(apps)),
         NEW claimant \in Range(apps), ClaimOf(claimant, target) # "none"
  PROVE  ResolveClaim(target, apps).kind \in {"namespace", "object"}
BY ClaimIsHighest

\* Candidates go by different names, whichever of them are looked at.
LEMMA CandidatesAreNamed ==
  ASSUME NEW some, some \subseteq Apps
  PROVE  Named({Candidates[a] : a \in some})
  BY CandidatesAssumption DEF Named, Apps

\* Who marked an object owns it, as does who lists it.
LEMMA OwnersRank ==
  ASSUME ObjectsInv, NEW name \in Names, NEW a \in Owners(name)
  PROVE  OwnerRank(Candidates[a], Object(name)) > 0
<1>1. Object(name).id = Target(name)
  BY DEF Object
<1>2. CASE a \in Tracks(name)
  <2>1. Tracks(name) = {a}
    <3>1. objects[name] # <<>> /\ a \in objects[name][1].tracked
      BY <1>2 DEF Tracks
    <3>2. objects[name][1] \in Held
      BY <3>1, HoldingIsRecord DEF ObjectsInv
    <3> QED
      BY <3>1, <3>2 DEF Tracks, Held, Marks
  <2>2. Cardinality(Tracks(name)) = 1 /\ (CHOOSE b \in Tracks(name) : TRUE) = a
    BY <2>1, FS_Singleton
  <2> DEFINE mark == [claims |-> Target(name), app |-> <<Candidates[a].name>>]
  <2>3. Object(name).tracking = [i \in 1 .. 1 |-> mark]
    BY <2>2 DEF Object
  <2>4. Object(name).tracking # <<>> /\ Object(name).tracking[1] = mark
    BY <2>3
  <2>5. TrackedBy(Object(name)) = {<<Candidates[a].name>>}
    BY <1>1, <2>4 DEF TrackedBy, Identify
  <2>6. <<Candidates[a].name>> \in TrackedBy(Object(name)) \cap AppNames(Candidates[a])
    BY <2>5 DEF AppNames
  <2> QED
    BY <2>6 DEF OwnerRank
<1>3. CASE ListsResource(Candidates[a], Target(name))
  BY <1>1, <1>3 DEF OwnerRank, Identify
<1> QED
  BY <1>2, <1>3 DEF Owners

\* Nobody who was found owns an object that the gate allows to be written, and
\* what it rests on is not older than its lifetime.
LEMMA GateAllows ==
  ASSUME ClusterInv, CacheInv, ObjectsInv, NEW name \in Names, Gate(name).allowed
  PROVE  LET basis == BasisOf(Here, Owners(name))
         IN  basis.owners = {} /\ basis.age <= DiscoveryTTL
<1> DEFINE found == Asked(Here).found
           search == Kept(Here)[<<>>]
           owner == ResolveOwnership(Object(name), found.apps)
<1>1. /\ SoundSearch(<<>>, search) /\ found.installed # "no"
      /\ found.complete => found = search.found /\ now - search.at <= DiscoveryTTL
  BY AskedIsSound
<1>2. Ownership(Object(name), found).status = "unmanaged"
  BY <1>1 DEF Gate, UnknownGate, GateForOwnership
<1>3. Settle(owner, found).status = "unmanaged"
  BY <1>1, <1>2 DEF Ownership
<1>4. found.complete /\ owner.confidence \notin {"candidate", "confirmed", "tracked"}
  BY <1>3 DEF Settle
<1> HIDE DEF found, search
<1>5. /\ search.apps \subseteq Apps /\ Range(found.apps) = {Candidates[a] : a \in search.apps}
      /\ now - search.at <= DiscoveryTTL
  BY <1>1, <1>4 DEF SoundSearch, SoundFound
<1>6. ASSUME NEW a \in search.apps, a \in Owners(name) PROVE FALSE
  <2>1. OwnerRank(Candidates[a], Object(name)) > 0 /\ Candidates[a] \in Range(found.apps)
    BY <1>5, <1>6, OwnersRank
  <2>2. Named(Range(found.apps))
    BY <1>5, CandidatesAreNamed
  <2>3. owner.confidence \in {"candidate", "confirmed", "tracked"}
    BY <2>1, <2>2, SomebodyOwns
  <2> QED
    BY <1>4, <2>3
<1> QED
  BY <1>5, <1>6 DEF BasisOf, search

\* Nobody who was found claims what the gate allows to be created.
LEMMA ClaimAllows ==
  ASSUME ClusterInv, CacheInv, NEW target, target.name # 0, ClaimGate(target).allowed
  PROVE  LET basis == BasisOf(target.namespace, Claimants(target))
         IN  basis.owners = {} /\ basis.age <= DiscoveryTTL
<1> DEFINE found == Asked(target.namespace).found
           search == Kept(target.namespace)[<<>>]
           claim == ResolveClaim(target, found.apps)
<1>1. /\ SoundSearch(<<>>, search) /\ found.installed # "no"
      /\ found.complete => found = search.found /\ now - search.at <= DiscoveryTTL
  BY AskedIsSound
<1>2. ClaimFor(target, found).kind = "none"
  BY DEF ClaimGate, GateForClaim
<1>3. found.complete \/ ManagedClaim(claim.kind)
  BY <1>1, <1>2 DEF ClaimFor
<1>4. ClaimFor(target, found).kind = claim.kind
  BY <1>1, <1>3 DEF ClaimFor
<1>5. claim.kind = "none" /\ found.complete
  BY <1>2, <1>3, <1>4 DEF ManagedClaim
<1> HIDE DEF found, search
<1>6. /\ search.apps \subseteq Apps /\ Range(found.apps) = {Candidates[a] : a \in search.apps}
      /\ now - search.at <= DiscoveryTTL
  BY <1>1, <1>5 DEF SoundSearch, SoundFound
<1>7. ASSUME NEW a \in search.apps, a \in Claimants(target) PROVE FALSE
  <2>1. ClaimOf(Candidates[a], target) # "none" /\ Candidates[a] \in Range(found.apps)
    BY <1>6, <1>7 DEF Claimants, ClaimOf
  <2>2. Named(Range(found.apps))
    BY <1>6, CandidatesAreNamed
  <2>3. claim.kind \in {"namespace", "object"}
    BY <2>1, <2>2, SomebodyClaims
  <2> QED
    BY <1>5, <2>3
<1> QED
  BY <1>6, <1>7 DEF BasisOf, search

-----------------------------------------------------------------------------
(* The gate, from step to step *)

\* What a session and a creation went through the gate with, and that a manifest
\* whose claims are asked for names every object of it.
HonestEditor(session) ==
  session.phase \in {"gated", "checked"} =>
    session.basis.owners = {} /\ session.basis.age <= DiscoveryTTL
HonestDraft ==
  /\ draft.basis.owners = {} /\ draft.basis.age <= DiscoveryTTL
  /\ draft.phase = "claiming" => \A i \in DOMAIN draft.docs : draft.docs[i].name # 0

HonestInv ==
  /\ ClusterInv /\ CacheInv
  /\ \A e \in Editors : HonestEditor(editors[e])
  /\ HonestDraft

\* The clock goes on, permissions and Applications come and go.
LEMMA NextCluster == ClusterInv /\ Next => ClusterInv' /\ now <= now'
<1> SUFFICES ASSUME ClusterInv, Next PROVE ClusterInv' /\ now <= now'
  OBVIOUS
<1>1. CASE UNCHANGED <<now, listing, applications>>
  BY <1>1 DEF ClusterInv
<1>2. CASE Tick
  BY <1>2 DEF Tick, ClusterInv
<1>3. CASE PermissionChanges
  BY <1>3 DEF PermissionChanges, Others, ClusterInv
<1>4. CASE ApplicationsChange
  <2>1. PICK a \in Apps : applications' = IF a \in applications THEN applications \ {a}
                                         ELSE applications \cup {a}
    BY <1>4 DEF ApplicationsChange
  <2>2. IsFiniteSet(applications \ {a}) /\ IsFiniteSet(applications \cup {a})
    BY FS_AddElement, FS_RemoveElement DEF ClusterInv
  <2>3. now' = now /\ listing' = listing
    BY <1>4 DEF ApplicationsChange, Others
  <2> QED
    BY <2>1, <2>2, <2>3 DEF ClusterInv
<1>5. ASSUME NEW n \in Names,
             \/ OthersMake(n) \/ OthersDelete(n) \/ OthersWrite(n)
             \/ \E e \in Editors : OpenSession(e, n)
             \/ \E action \in Actions, replicas \in 0 .. 1 : Perform(n, action, replicas)
      PROVE  UNCHANGED <<now, listing, applications>>
  BY <1>5 DEF OthersMake, OthersDelete, OthersWrite, Others, OpenSession, Perform,
     ClusterUnchanged
<1>6. ASSUME NEW e \in Editors,
             \/ Freshness(e) \/ ApplyCheck(e) \/ ApplyUpdate(e)
             \/ \E text \in {"same", "edited", "renamed", "broken"} : ApplyGate(e, text)
      PROVE  UNCHANGED <<now, listing, applications>>
  BY <1>6 DEF Freshness, ApplyCheck, ApplyUpdate, ApplyGate, ClusterUnchanged
<1>7. ASSUME \/ CreateClaim
             \/ \E kind \in {"namespaced", "cluster", "odd"}, namespace \in {0, Here} :
                  NewSession(kind, namespace)
             \/ \E m \in Manifests, readable \in BOOLEAN : Create(m, readable)
             \/ \E reply \in Replies : CreateWrite(reply)
      PROVE  UNCHANGED <<now, listing, applications>>
  BY <1>7 DEF CreateClaim, NewSession, Create, CreateWrite, EditorsUnchanged
<1> QED
  BY <1>1, <1>2, <1>3, <1>4, <1>5, <1>6, <1>7 DEF Next

\* What is remembered stays sound while time passes, and so does what a question
\* adds to it.
LEMMA NextCache == ClusterInv /\ CacheInv /\ Next => CacheInv'
<1> SUFFICES ASSUME ClusterInv, CacheInv, Next PROVE CacheInv'
  OBVIOUS
<1>0. now \in Nat /\ now' \in Nat /\ now <= now'
  BY NextCluster DEF ClusterInv
<1>1. ASSUME NEW key, NEW search, SoundSearch(key, search)
      PROVE  SoundSearch(key, search)'
  <2>1. search.at \in Nat /\ search.at <= now
    BY <1>1 DEF SoundSearch
  <2>2. search.at <= now'
    BY <1>0, <2>1
  <2> QED
    BY <1>1, <2>1, <2>2 DEF SoundSearch
<1>2. CASE cache' = cache
  BY <1>1, <1>2 DEF CacheInv
<1>3. ASSUME NEW namespace, cache' = Kept(namespace) PROVE CacheInv'
  <2>1. \A key \in DOMAIN Kept(namespace) : SoundSearch(key, Kept(namespace)[key])
    BY AskedIsSound
  <2> QED
    BY <1>1, <1>3, <2>1 DEF CacheInv
<1>4. ASSUME NEW n \in Names,
             \/ OthersMake(n) \/ OthersDelete(n) \/ OthersWrite(n)
             \/ \E action \in Actions, replicas \in 0 .. 1 : Perform(n, action, replicas)
      PROVE  cache' = cache
  BY <1>4 DEF OthersMake, OthersDelete, OthersWrite, Others, Perform
<1>5. ASSUME \/ ApplicationsChange \/ PermissionChanges \/ Tick
             \/ \E e \in Editors : Freshness(e) \/ ApplyCheck(e) \/ ApplyUpdate(e)
             \/ \E m \in Manifests, readable \in BOOLEAN : Create(m, readable)
             \/ \E reply \in Replies : CreateWrite(reply)
      PROVE  cache' = cache
  BY <1>5 DEF ApplicationsChange, PermissionChanges, Others, Tick, Freshness, ApplyCheck,
     ApplyUpdate, Create, CreateWrite
<1>6. ASSUME NEW e \in Editors,
             \/ \E n \in Names : OpenSession(e, n)
             \/ \E text \in {"same", "edited", "renamed", "broken"} : ApplyGate(e, text)
      PROVE  cache' = Kept(Here)
  BY <1>6 DEF OpenSession, ApplyGate
<1>7. ASSUME NEW kind, NEW namespace, NewSession(kind, namespace)
      PROVE  cache' = cache \/ cache' = Kept(namespace)
  BY <1>7 DEF NewSession
<1>8. CreateClaim => cache' = Kept(draft.docs[draft.at].namespace)
  BY DEF CreateClaim
<1> QED
  BY <1>2, <1>3, <1>4, <1>5, <1>6, <1>7, <1>8 DEF Next

\* One session moves on, to one that is honest.
LEMMA OneHonestEditor ==
  ASSUME EditorsInv, \A e \in Editors : HonestEditor(editors[e]),
         NEW e \in Editors, NEW session, Move(e, session), HonestEditor(session)
  PROVE  \A f \in Editors : HonestEditor(editors[f])'
<1>1. \A f \in Editors : editors'[f] = IF f = e THEN session ELSE editors[f]
  BY DEF Move, EditorsInv
<1> QED
  BY <1>1 DEF HonestEditor

\* Only the gate lets a session through.
LEMMA NextHonestEditors ==
  ASSUME IInv, HonestInv, Next
  PROVE  \A e \in Editors : HonestEditor(editors[e])'
<1>1. CASE editors' = editors
  BY <1>1 DEF HonestInv, HonestEditor
<1>2. ASSUME NEW e \in Editors, NEW n \in Names, OpenSession(e, n)
      PROVE  \A f \in Editors : HonestEditor(editors[f])'
  <2> DEFINE session == [Closed EXCEPT !.phase = "open", !.name = n,
                                       !.opened = objects[n][1].version]
  <2>1. Move(e, session)
    BY <1>2 DEF OpenSession
  <2>2. session.phase = "open"
    BY DEF Closed
  <2> HIDE DEF session
  <2> QED
    BY <2>1, <2>2, OneHonestEditor DEF IInv, HonestInv, HonestEditor
<1>3. ASSUME NEW e \in Editors, Freshness(e)
      PROVE  \A f \in Editors : HonestEditor(editors[f])'
  <2>1. PICK told : Move(e, [editors[e] EXCEPT !.told = told])
    BY <1>3 DEF Freshness
  <2>2. editors[e] \in Session(editors[e].basis) /\ editors[e].phase = "open"
    BY <1>3 DEF Freshness, IInv, EditorsInv, SoundEditor
  <2>3. [editors[e] EXCEPT !.told = told].phase = "open"
    BY <2>2 DEF Session
  <2> QED
    BY <2>1, <2>3, OneHonestEditor DEF IInv, HonestInv, HonestEditor
<1>4. ASSUME NEW e \in Editors, NEW text \in {"same", "edited", "renamed", "broken"},
             ApplyGate(e, text)
      PROVE  \A f \in Editors : HonestEditor(editors[f])'
  <2> DEFINE basis == BasisOf(Here, Owners(editors[e].name))
             session == [editors[e] EXCEPT !.phase = "gated", !.text = text,
                                           !.over = <<>>, !.basis = basis]
  <2>1. /\ editors[e].phase = "open"
        /\ Move(e, IF Gate(editors[e].name).allowed THEN session ELSE editors[e])
    BY <1>4 DEF ApplyGate
  <2>2. CASE ~Gate(editors[e].name).allowed
    <3>1. Move(e, editors[e]) /\ HonestEditor(editors[e])
      BY <2>1, <2>2 DEF HonestInv
    <3> QED
      BY <3>1, OneHonestEditor DEF IInv, HonestInv
  <2>3. CASE Gate(editors[e].name).allowed
    <3>1. editors[e] \in Session(editors[e].basis) /\ editors[e].name \in Names
      BY <2>1 DEF IInv, EditorsInv, SoundEditor
    <3>2. basis.owners = {} /\ basis.age <= DiscoveryTTL
      BY <2>3, <3>1, GateAllows DEF IInv, HonestInv
    <3> HIDE DEF basis
    <3>3. session.basis = basis
      BY <3>1 DEF Session
    <3>4. Move(e, session)
      BY <2>1, <2>3
    <3> HIDE DEF session
    <3>5. HonestEditor(session)
      BY <3>2, <3>3 DEF HonestEditor
    <3> QED
      BY <3>4, <3>5, OneHonestEditor DEF IInv, HonestInv
  <2> QED
    BY <2>2, <2>3
<1>5. ASSUME NEW e \in Editors, ApplyCheck(e)
      PROVE  \A f \in Editors : HonestEditor(editors[f])'
  <2>1. PICK phase : Move(e, [editors[e] EXCEPT !.phase = phase])
    BY <1>5 DEF ApplyCheck
  <2>2. editors[e] \in Session(editors[e].basis) /\ editors[e].phase = "gated"
    BY <1>5 DEF ApplyCheck, IInv, EditorsInv, SoundEditor
  <2>3. [editors[e] EXCEPT !.phase = phase].basis = editors[e].basis
    BY <2>2 DEF Session
  <2>4. HonestEditor([editors[e] EXCEPT !.phase = phase])
    BY <2>2, <2>3 DEF HonestInv, HonestEditor
  <2> QED
    BY <2>1, <2>4, OneHonestEditor DEF IInv, HonestInv
<1>6. ASSUME NEW e \in Editors, ApplyUpdate(e)
      PROVE  \A f \in Editors : HonestEditor(editors[f])'
  <2>1. PICK over : Move(e, [editors[e] EXCEPT !.phase = "open", !.over = over])
    BY <1>6 DEF ApplyUpdate
  <2>2. editors[e] \in Session(editors[e].basis)
    BY DEF IInv, EditorsInv, SoundEditor
  <2>3. [editors[e] EXCEPT !.phase = "open", !.over = over].phase = "open"
    BY <2>2 DEF Session
  <2> QED
    BY <2>1, <2>3, OneHonestEditor DEF IInv, HonestInv, HonestEditor
<1>7. \/ \E n \in Names : OthersMake(n) \/ OthersDelete(n) \/ OthersWrite(n)
      \/ ApplicationsChange \/ PermissionChanges \/ Tick
      \/ \E n \in Names, action \in Actions, replicas \in 0 .. 1 :
           Perform(n, action, replicas)
      \/ \E kind \in {"namespaced", "cluster", "odd"}, namespace \in {0, Here} :
           NewSession(kind, namespace)
      \/ CreateClaim
      \/ \E m \in Manifests, readable \in BOOLEAN : Create(m, readable)
      \/ \E reply \in Replies : CreateWrite(reply)
      => editors' = editors
  BY DEF OthersMake, OthersDelete, OthersWrite, Others, ApplicationsChange,
     PermissionChanges, Tick, Perform, NewSession, CreateClaim, Create,
     CreateWrite, EditorsUnchanged
<1> QED
  BY <1>1, <1>2, <1>3, <1>4, <1>5, <1>6, <1>7 DEF Next

\* A manifest without problems names every object of it.
LEMMA PreviewNames ==
  ASSUME NEW docs, NEW readable, Preview(docs, readable) = {}, NEW i \in DOMAIN docs
  PROVE  docs[i].name # 0
<1>0. ParseProblems(docs) = {}
  BY DEF Preview
<1>1. docs[i].kind # "unreadable"
  BY <1>0 DEF ParseProblems
<1>2. IdentityProblems(docs, i) = {}
  BY <1>1 DEF Preview
<1> QED
  BY <1>2 DEF IdentityProblems

\* Only claims that were allowed enter the basis of a creation.
LEMMA NextHonestDraft ==
  ASSUME IInv, HonestInv, Next
  PROVE  HonestDraft'
<1>0. draft \in Creation(draft.basis) /\ HonestDraft
  BY DEF IInv, DraftInv, HonestInv
<1>1. CASE draft' = draft
  BY <1>0, <1>1 DEF HonestDraft
<1>2. ASSUME NEW d, draft' = d, d.basis = draft.basis, d.phase # "claiming"
      PROVE  HonestDraft'
  BY <1>0, <1>2 DEF HonestDraft
<1>3. ASSUME NEW kind, NEW namespace, NewSession(kind, namespace) PROVE HonestDraft'
  <2> DEFINE phase == IF Decide(kind, namespace) THEN "open" ELSE "none"
  <2>1. draft' = [NoDraft EXCEPT !.phase = phase] /\ phase # "claiming"
    BY <1>3 DEF NewSession
  <2> HIDE DEF phase
  <2>2. draft'.basis = NoBasis /\ draft'.phase # "claiming"
    BY <2>1 DEF NoDraft
  <2> QED
    BY <2>2, LifetimesAssumption DEF HonestDraft, NoBasis
<1>4. ASSUME NEW docs \in Manifests, NEW readable \in BOOLEAN, Create(docs, readable)
      PROVE  HonestDraft'
  <2> DEFINE phase == IF Preview(docs, readable) = {} THEN "claiming" ELSE "done"
             d == [draft EXCEPT !.docs = docs, !.phase = phase]
  <2>1. draft' = d
    BY <1>4 DEF Create
  <2>2. phase = "claiming" => \A i \in DOMAIN docs : docs[i].name # 0
    BY PreviewNames
  <2> HIDE DEF phase
  <2>3. d.basis = draft.basis /\ d.phase = phase /\ d.docs = docs
    BY <1>0 DEF Creation
  <2> HIDE DEF d
  <2> QED
    BY <1>0, <2>1, <2>2, <2>3 DEF HonestDraft
<1>5. CASE CreateClaim
  <2> DEFINE doc == draft.docs[draft.at]
             target == [name |-> doc.name, namespace |-> doc.namespace]
             answer == BasisOf(doc.namespace, Claimants(target))
             basis == [age |-> IF answer.age > draft.basis.age THEN answer.age
                               ELSE draft.basis.age,
                       owners |-> draft.basis.owners \cup answer.owners]
             claimed == [draft EXCEPT !.asked = @ \cup {draft.at}, !.basis = basis]
  <2>1. /\ draft.phase = "claiming"
        /\ draft' = IF ClaimGate(target).allowed THEN AfterClaim(claimed)
                    ELSE [draft EXCEPT !.phase = "done"]
    <3>1. draft' = IF ClaimGate(target).allowed
                   THEN AfterClaim([draft EXCEPT !.asked = @ \cup {draft.at},
                          !.basis = [age |-> IF answer.age > @.age THEN answer.age ELSE @.age,
                                     owners |-> @.owners \cup answer.owners]])
                   ELSE [draft EXCEPT !.phase = "done"]
      BY <1>5 DEF CreateClaim
    <3>2. draft.phase = "claiming"
      BY <1>5 DEF CreateClaim
    <3> HIDE DEF target, answer
    <3> QED
      BY <3>1, <3>2
  <2>2. CASE ~ClaimGate(target).allowed
    <3> DEFINE d == [draft EXCEPT !.phase = "done"]
    <3>1. draft' = d
      BY <2>1, <2>2
    <3>2. d.basis = draft.basis /\ d.phase = "done"
      BY <1>0 DEF Creation
    <3> HIDE DEF d
    <3> QED
      BY <1>2, <3>1, <3>2
  <2>3. CASE ClaimGate(target).allowed
    <3>1. draft.at \in DOMAIN draft.docs
      <4>1. draft.at \in 1 .. Len(draft.docs)
        BY <2>1 DEF IInv, DraftInv
      <4>2. draft.docs \in Seq([kind: STRING, name: Nat, namespace: Nat])
        BY <1>0 DEF Creation
      <4> QED
        BY <4>1, <4>2
    <3>2. target.name # 0 /\ target.namespace = doc.namespace
      BY <1>0, <2>1, <3>1 DEF HonestDraft
    <3>3. answer.owners = {} /\ answer.age <= DiscoveryTTL
      <4> HIDE DEF target
      <4> QED
        BY <2>3, <3>2, ClaimAllows DEF HonestInv
    <3>4. draft' = AfterClaim(claimed)
      BY <2>1, <2>3
    <3> HIDE DEF target, answer
    <3>5. basis.owners = {} /\ basis.age <= DiscoveryTTL
      BY <1>0, <3>3 DEF HonestDraft
    <3> HIDE DEF basis
    <3>6. /\ AfterClaim(claimed).basis = basis
          /\ AfterClaim(claimed).docs = draft.docs
      BY <1>0 DEF AfterClaim, Creation
    <3> HIDE DEF claimed
    <3>7. \A i \in DOMAIN draft.docs : draft.docs[i].name # 0
      BY <1>0, <2>1 DEF HonestDraft
    <3> QED
      BY <3>4, <3>5, <3>6, <3>7 DEF HonestDraft
  <2> QED
    BY <2>2, <2>3
<1>6. ASSUME NEW reply \in Replies, CreateWrite(reply) PROVE HonestDraft'
  <2>1. ASSUME NEW made,
               draft' = AfterFailure([draft EXCEPT !.failed = Append(@, draft.at), !.made = made])
        PROVE  HonestDraft'
    <3> DEFINE d == AfterFailure([draft EXCEPT !.failed = Append(@, draft.at), !.made = made])
    <3>1. d.basis = draft.basis /\ d.phase = "done"
      BY <1>0 DEF AfterFailure, Creation
    <3>2. draft' = d
      BY <2>1
    <3> HIDE DEF d
    <3> QED
      BY <1>2, <3>1, <3>2
  <2>2. ASSUME \A made : draft' # AfterFailure([draft EXCEPT !.failed = Append(@, draft.at),
                                                            !.made = made])
        PROVE  HonestDraft'
    <3> DEFINE last == draft.at = Len(draft.docs)
               created == Append(draft.created, draft.at)
               made == Append(draft.made, version + 1)
               phase == IF last THEN "done" ELSE draft.phase
               at == IF last THEN draft.at ELSE draft.at + 1
               d == [draft EXCEPT !.created = created, !.made = made,
                                  !.phase = phase, !.at = at]
    <3>1. draft' = d /\ draft.phase = "writing"
      BY <1>6, <2>2 DEF CreateWrite
    <3>2. phase # "claiming"
      BY <3>1
    <3> HIDE DEF created, made, phase, at
    <3>3. d.basis = draft.basis /\ d.phase # "claiming"
      BY <1>0, <3>2 DEF Creation
    <3> HIDE DEF d
    <3> QED
      BY <1>2, <3>1, <3>3
  <2> QED
    BY <2>1, <2>2
<1>7. \/ \E n \in Names : OthersMake(n) \/ OthersDelete(n) \/ OthersWrite(n)
      \/ ApplicationsChange \/ PermissionChanges \/ Tick
      \/ \E e \in Editors, n \in Names : OpenSession(e, n)
      \/ \E e \in Editors, text \in {"same", "edited", "renamed", "broken"} :
           ApplyGate(e, text)
      \/ \E e \in Editors : Freshness(e) \/ ApplyCheck(e) \/ ApplyUpdate(e)
      \/ \E n \in Names, action \in Actions, replicas \in 0 .. 1 :
           Perform(n, action, replicas)
      => draft' = draft
  BY DEF OthersMake, OthersDelete, OthersWrite, Others, ApplicationsChange,
     PermissionChanges, Tick, OpenSession, ApplyGate, Freshness, ApplyCheck,
     ApplyUpdate, Perform, ClusterUnchanged
<1> QED
  BY <1>1, <1>3, <1>4, <1>5, <1>6, <1>7 DEF Next

LEMMA InitHonest == Init => HonestInv
<1> SUFFICES ASSUME Init PROVE HonestInv
  OBVIOUS
<1>1. ClusterInv
  BY FS_EmptySet DEF Init, ClusterInv
<1>2. CacheInv
  BY DEF Init, CacheInv
<1>3. \A e \in Editors : HonestEditor(editors[e])
  BY DEF Init, HonestEditor, Closed
<1>4. draft.basis = NoBasis /\ draft.phase = "none"
  BY DEF Init, NoDraft
<1> QED
  BY <1>1, <1>2, <1>3, <1>4, LifetimesAssumption DEF HonestInv, HonestDraft, NoBasis

LEMMA NextHonest == IInv /\ HonestInv /\ [Next]_vars => HonestInv'
<1>1. ASSUME IInv, HonestInv, Next PROVE HonestInv'
  BY <1>1, NextCluster, NextCache, NextHonestEditors, NextHonestDraft DEF HonestInv
<1>2. ASSUME IInv, HonestInv, UNCHANGED vars PROVE HonestInv'
  BY <1>2 DEF HonestInv, vars, ClusterInv, CacheInv, SoundSearch, HonestEditor, HonestDraft
<1> QED
  BY <1>1, <1>2

-----------------------------------------------------------------------------
\* A session that was told that its object moved writes no more, and what Apply
\* replaces is the version the editor shows (manifest/service.go).
THEOREM NothingOverwritten == Spec => []NoLostWrite
<1>1. IInv => NoLostWrite
  BY DEF IInv, EditorsInv, SoundEditor, NoLostWrite
<1> QED
  BY InitIInv, NextIInv, <1>1, PTL DEF Spec

\* No object of a manifest is sent before every one was claimed, what exists is
\* a prefix of it, and one failure ends it (authoring/service.go).
THEOREM ManifestIsOneIntention == Spec => []OneIntention
<1>1. IInv => OneIntention
  BY DEF IInv, DraftInv
<1> QED
  BY InitIInv, NextIInv, <1>1, PTL DEF Spec

\* Nothing goes past the gate that an Application owned or claimed when it was
\* last searched for, that search is not older than its lifetime, and one that
\* was refused permits nothing (domain/gitops.go).
THEOREM GateWasHonest == Spec => []GateIsHonest
<1>1. HonestInv => GateIsHonest
  BY DEF HonestInv, HonestEditor, HonestDraft, GateIsHonest
<1> QED
  BY InitIInv, NextIInv, InitHonest, NextHonest, <1>1, PTL DEF Spec

-----------------------------------------------------------------------------
(* The lights of rows (RowHealth).                                         *)

\* No word is said when every word is empty; what is said is one of them.
LEMMA FirstWordSays ==
  ASSUME NEW n \in Nat, NEW words, DOMAIN words = 1..n
  PROVE  /\ FirstWord(words) = "" <=> \A i \in DOMAIN words : words[i] = ""
         /\ FirstWord(words) # "" => \E i \in DOMAIN words : words[i] = FirstWord(words)
<1>1. Said(words) \subseteq 1..n
  BY DEF Said
<1>6. 1 \in Int /\ n \in Int
  OBVIOUS
<1>5. IsFiniteSet(1..n)
  BY <1>6, FS_Interval
<1>2. IsFiniteSet(Said(words)) /\ Said(words) \subseteq Int
  <2>1. 1..n \subseteq Int
    BY <1>6
  <2> QED
    BY <1>1, <1>5, <2>1, FS_Subset
<1>3. CASE Said(words) = {}
  BY <1>3 DEF FirstWord, Said
<1>4. CASE Said(words) # {}
  <2>1. Lowest(Said(words)) \in Said(words)
    BY <1>2, <1>4, LowestIsFirst
  <2>2. FirstWord(words) = words[Lowest(Said(words))]
    BY <1>4 DEF FirstWord
  <2> QED
    BY <2>1, <2>2 DEF Said
<1> QED
  BY <1>3, <1>4

\* Of two words the second is said when there is no first.
LEMMA OneOfTwo ==
  ASSUME NEW a, NEW b
  PROVE  /\ FirstWord(<<a, b>>) = "" <=> a = "" /\ b = ""
         /\ FirstWord(<<a, b>>) # "" => FirstWord(<<a, b>>) \in {a, b}
<1> DEFINE two == <<a, b>>
<1>1. DOMAIN two = 1..2 /\ two[1] = a /\ two[2] = b
  OBVIOUS
<1>2. /\ FirstWord(two) = "" <=> \A i \in DOMAIN two : two[i] = ""
      /\ FirstWord(two) # "" => \E i \in DOMAIN two : two[i] = FirstWord(two)
  <2> HIDE DEF two
  <2> QED
    BY <1>1, FirstWordSays
<1>3. /\ \A i \in 1..2 : i = 1 \/ i = 2
      /\ 1 \in 1..2 /\ 2 \in 1..2
  OBVIOUS
<1> HIDE DEF two
<1>4. /\ FirstWord(two) = "" <=> a = "" /\ b = ""
      /\ FirstWord(two) # "" => FirstWord(two) \in {a, b}
  BY <1>1, <1>2, <1>3
<1> QED
  BY <1>4 DEF two

\* A container is in trouble when it waits for a reason, or ended for another
\* one than being done.
LEMMA TroubleMeans ==
  ASSUME NEW c \in Container
  PROVE  Trouble(c) = "" <=> c.waiting = "" /\ c.terminated \in {"", "Completed"}
  BY OneOfTwo DEF Trouble

\* A pod is in trouble when one of its containers is.
LEMMA PodTroubleMeans ==
  ASSUME NEW pod, pod.containers \in Seq(Container)
  PROVE  PodTrouble(pod) = "" <=>
           \A i \in DOMAIN pod.containers :
             /\ pod.containers[i].waiting = ""
             /\ pod.containers[i].terminated \in {"", "Completed"}
<1> DEFINE words == [i \in DOMAIN pod.containers |-> Trouble(pod.containers[i])]
<1>1. DOMAIN pod.containers = 1..Len(pod.containers) /\ Len(pod.containers) \in Nat
  OBVIOUS
<1>2. DOMAIN words = 1..Len(pod.containers)
  BY <1>1
<1>3. \A i \in DOMAIN pod.containers : words[i] = Trouble(pod.containers[i])
  OBVIOUS
<1>4. PodTrouble(pod) = FirstWord(words)
  BY DEF PodTrouble
<1> HIDE DEF words
<1>5. PodTrouble(pod) = "" <=> \A i \in DOMAIN words : words[i] = ""
  BY <1>1, <1>2, <1>4, FirstWordSays
<1>6. \A i \in DOMAIN pod.containers : pod.containers[i] \in Container
  BY <1>1
<1> QED
  BY <1>1, <1>2, <1>3, <1>5, <1>6, TroubleMeans

\* As many containers are ready as there are exactly when each of them is.
LEMMA AllAreReady ==
  ASSUME NEW pod, pod.containers \in Seq(Container)
  PROVE  /\ Cardinality(ReadyContainers(pod)) = Len(pod.containers)
              <=> \A i \in DOMAIN pod.containers : pod.containers[i].ready
         /\ pod.containers = <<>> => Cardinality(ReadyContainers(pod)) = 0
<1>1. DOMAIN pod.containers = 1..Len(pod.containers) /\ Len(pod.containers) \in Nat
  OBVIOUS
<1>2. IsFiniteSet(1..Len(pod.containers)) /\ Cardinality(1..Len(pod.containers)) = Len(pod.containers)
  BY <1>1, FS_Interval
<1>3. ReadyContainers(pod) \subseteq 1..Len(pod.containers)
  BY <1>1 DEF ReadyContainers
<1>4. Cardinality(1..Len(pod.containers)) = Cardinality(ReadyContainers(pod))
        => ReadyContainers(pod) = 1..Len(pod.containers)
  BY <1>2, <1>3, FS_Subset
<1>5. ReadyContainers(pod) = 1..Len(pod.containers)
        <=> \A i \in DOMAIN pod.containers : pod.containers[i].ready
  BY <1>1 DEF ReadyContainers
<1>6. pod.containers = <<>> => ReadyContainers(pod) = {}
  BY <1>1, <1>3
<1> QED
  BY <1>2, <1>4, <1>5, <1>6, FS_EmptySet

\* The light of a pod is green exactly when it runs with all its containers
\* ready, or is done, and none of them is in trouble.
LEMMA PodIsEarned ==
  ASSUME NEW o, IsObject("Pod", o)
  PROVE  RenderPod(o).health = "healthy" <=> Working("Pod", o)
<1>1. o.containers \in Seq(Container) /\ o.declared \in Nat
  BY DEF IsObject
<1>2. o.containers # <<>> => Len(o.containers) > 0
  BY <1>1
<1>3. CASE PodTrouble(o) # ""
  BY <1>1, <1>3, PodTroubleMeans DEF RenderPod, Light, Working
<1>4. CASE PodTrouble(o) = ""
  <2>1. Working("Pod", o) <=>
          \/ o.phase = "Succeeded"
          \/ o.phase = "Running" /\ o.containers # <<>> /\ \A i \in DOMAIN o.containers : o.containers[i].ready
    BY <1>1, <1>4, PodTroubleMeans DEF Working, WorkloadKinds, CustomKinds
  <2>2. RenderPod(o).health = "healthy" <=>
          \/ o.phase = "Running" /\ Cardinality(ReadyContainers(o)) =
               (IF o.containers = <<>> THEN o.declared ELSE Len(o.containers))
             /\ (IF o.containers = <<>> THEN o.declared ELSE Len(o.containers)) > 0
          \/ o.phase = "Succeeded"
    BY <1>4 DEF RenderPod, Light, ByPhase
  <2> QED
    BY <1>1, <1>2, <2>1, <2>2, AllAreReady
<1> QED
  BY <1>3, <1>4

\* The condition that is taken for a type is one of that type.
LEMMA ReportedIsOfType ==
  ASSUME NEW o, o.conditions \in Seq(Condition), NEW type, OfType(o, type) # {}
  PROVE  \E i \in OfType(o, type) : Reported(o, type) = o.conditions[i]
<1>1. OfType(o, type) \subseteq DOMAIN o.conditions
  BY DEF OfType
<1>2. IsFiniteSet(OfType(o, type)) /\ OfType(o, type) \subseteq Int
  BY <1>1, PlacesAreFinite
<1>3. Highest(OfType(o, type)) \in OfType(o, type)
  BY <1>2, HighestIsLast
<1> QED
  BY <1>3 DEF Reported

\* With one condition of a type, that one is taken.
LEMMA ReportedIsTheOne ==
  ASSUME NEW o, o.conditions \in Seq(Condition), OneOfAType(o.conditions),
         NEW type, NEW i \in OfType(o, type)
  PROVE  Reported(o, type) = o.conditions[i]
<1>1. PICK k \in OfType(o, type) : Reported(o, type) = o.conditions[k]
  BY ReportedIsOfType
<1> QED
  BY <1>1 DEF OneOfAType, OfType

\* The light of a node is green only when it is ready and takes pods, and is
\* green then when its conditions are one of a type.
LEMMA NodeIsEarned ==
  ASSUME NEW o, IsObject("Node", o)
  PROVE  /\ RenderNode(o).health = "healthy" => Working("Node", o)
         /\ Working("Node", o) /\ OneOfAType(o.conditions) => RenderNode(o).health = "healthy"
<1>1. o.conditions \in Seq(Condition) /\ o.cordoned \in BOOLEAN
  BY DEF IsObject
<1>2. Working("Node", o) <=>
        ~o.cordoned /\ \E i \in OfType(o, "Ready") : o.conditions[i].status = "True"
  BY DEF Working, WorkloadKinds, CustomKinds
<1>3. RenderNode(o).health = "healthy" <=>
        ~o.cordoned /\ OfType(o, "Ready") # {} /\ Reported(o, "Ready").status = "True"
  BY DEF RenderNode, Light
<1>4. OfType(o, "Ready") # {} => \E i \in OfType(o, "Ready") : Reported(o, "Ready") = o.conditions[i]
  BY <1>1, ReportedIsOfType
<1>5. OneOfAType(o.conditions) =>
        \A i \in OfType(o, "Ready") : Reported(o, "Ready") = o.conditions[i]
  BY <1>1, ReportedIsTheOne
<1> QED
  BY <1>2, <1>3, <1>4, <1>5

\* The least of the places of a list that speak is one of them.
LEMMA LeastTells ==
  ASSUME NEW o
  PROVE  /\ Against(o) # {} => Lowest(Against(o)) \in Against(o)
         /\ Telling(o) # {} => Lowest(Telling(o)) \in Telling(o)
<1>1. DOMAIN NegativeConditions = 1..3 /\ DOMAIN PositiveConditions = 1..6
  BY DEF NegativeConditions, PositiveConditions
<1>2. IsFiniteSet(1..3) /\ IsFiniteSet(1..6)
  <2>1. 1 \in Int /\ 3 \in Int /\ 6 \in Int
    OBVIOUS
  <2> QED
    BY <2>1, FS_Interval
<1>3. Against(o) \subseteq 1..3 /\ Telling(o) \subseteq 1..6
  BY <1>1 DEF Against, Telling
<1>4. IsFiniteSet(Against(o)) /\ IsFiniteSet(Telling(o))
  BY <1>2, <1>3, FS_Subset
<1>5. Against(o) \subseteq Int /\ Telling(o) \subseteq Int
  BY <1>3
<1> QED
  BY <1>4, <1>5, LowestIsFirst

\* The words of columns that make a verdict are those about health and status.
LEMMA ColumnsAreQuoted ==
  ASSUME NEW columns \in Seq(Column), HealthFromColumns(columns).health = "healthy"
  PROVE  \E i \in DOMAIN columns :
           columns[i].title \in {"health", "status"} /\ columns[i].value \in GoodWords
<1>1. DOMAIN columns = 1..Len(columns) /\ Len(columns) \in Nat
  OBVIOUS
<1>2. ASSUME NEW title, ColumnsSay(columns, title) # ""
      PROVE  \E i \in DOMAIN columns :
               columns[i].title = title /\ columns[i].value = ColumnsSay(columns, title)
  <2> DEFINE words == [i \in DOMAIN columns |-> IF columns[i].title = title THEN columns[i].value ELSE ""]
  <2>1. DOMAIN words = 1..Len(columns)
    BY <1>1
  <2>2. \A i \in DOMAIN columns : words[i] = IF columns[i].title = title THEN columns[i].value ELSE ""
    OBVIOUS
  <2>3. ColumnsSay(columns, title) = FirstWord(words)
    BY DEF ColumnsSay
  <2> HIDE DEF words
  <2>4. PICK i \in DOMAIN words : words[i] = FirstWord(words)
    BY <1>1, <1>2, <2>1, <2>3, FirstWordSays
  <2> QED
    BY <1>1, <1>2, <2>1, <2>2, <2>3, <2>4
<1> DEFINE a == ColumnsSay(columns, "health")
           b == ColumnsSay(columns, "status")
           chosen == FirstWord(<<a, b>>)
<1>3. chosen # "" /\ PhaseHealth(chosen) = "healthy"
  BY DEF HealthFromColumns, Light
<1>4. chosen \in GoodWords
  BY <1>3 DEF PhaseHealth
<1>5. chosen \in {a, b}
  <2> HIDE DEF a, b
  <2> QED
    BY <1>3, OneOfTwo
<1> HIDE DEF chosen
<1>6. CASE chosen = a
  BY <1>2, <1>3, <1>4, <1>6
<1>7. CASE chosen = b
  BY <1>2, <1>3, <1>4, <1>7
<1> QED
  BY <1>5, <1>6, <1>7

\* The light of a resource of an unknown shape is green only for a condition
\* that says so, or, without any, for a word that does.
LEMMA CustomIsEarned ==
  ASSUME NEW o, NEW kind \in CustomKinds, IsObject(kind, o)
  PROVE  /\ kind = "Custom" /\ RenderCustom(o).health = "healthy" => Working(kind, o)
         /\ kind # "Custom" /\ CustomHealth(o).health = "healthy" => Working(kind, o)
<1>1. o.conditions \in Seq(Condition) /\ o.columns \in Seq(Column)
  BY DEF IsObject
<1>2. ASSUME Telling(o) # {}, CustomHealth(o).health = "healthy"
      PROVE  \E i \in DOMAIN o.conditions :
               o.conditions[i].type \in Range(PositiveConditions) /\ o.conditions[i].status = "True"
  <2>1. PICK b \in Telling(o) : b = Lowest(Telling(o))
    BY <1>2, LeastTells
  <2>2. CustomHealth(o) = ByCondition(PositiveConditions[b], Reported(o, PositiveConditions[b]))
    BY <1>2, <2>1 DEF CustomHealth, Light
  <2>3. Reported(o, PositiveConditions[b]).status = "True"
    BY <1>2, <2>2 DEF ByCondition, Light
  <2>4. b \in DOMAIN PositiveConditions /\ OfType(o, PositiveConditions[b]) # {}
    BY DEF Telling
  <2>5. PICK i \in OfType(o, PositiveConditions[b]) : Reported(o, PositiveConditions[b]) = o.conditions[i]
    BY <1>1, <2>4, ReportedIsOfType
  <2>6. i \in DOMAIN o.conditions /\ o.conditions[i].type = PositiveConditions[b]
    BY DEF OfType
  <2>7. PositiveConditions[b] \in Range(PositiveConditions)
    BY <2>4 DEF Range
  <2> QED
    BY <2>3, <2>5, <2>6, <2>7
<1>3. Telling(o) = {} => \A i \in DOMAIN o.conditions : o.conditions[i].type \notin Range(PositiveConditions)
  BY DEF Telling, OfType, Range
<1>4. Telling(o) = {} /\ CustomHealth(o).health = "healthy" => o.phase \in GoodWords
  BY DEF CustomHealth, Light, PhaseHealth
<1>5. CustomHealth(o).health = "healthy" => Working(kind, o)
  BY <1>2, <1>3, <1>4 DEF Working, WorkloadKinds, CustomKinds
<1>6. ASSUME CustomHealth(o).health = "unknown", HealthFromColumns(o.columns).health = "healthy",
             kind = "Custom"
      PROVE  Working(kind, o)
  <2>1. Telling(o) = {}
    BY <1>6 DEF CustomHealth, ByCondition, Light
  <2>2. \E i \in DOMAIN o.columns :
          o.columns[i].title \in {"health", "status"} /\ o.columns[i].value \in GoodWords
    BY <1>1, <1>6, ColumnsAreQuoted
  <2> QED
    BY <1>3, <1>6, <2>1, <2>2 DEF Working, WorkloadKinds, CustomKinds
<1> QED
  BY <1>5, <1>6 DEF RenderCustom

\* A condition that speaks against a resource is not answered with green.
LEMMA CustomIsWarned ==
  ASSUME NEW o, NEW kind \in CustomKinds, IsObject(kind, o), OneOfAType(o.conditions),
         NEW i \in DOMAIN o.conditions, o.conditions[i].type \in Range(NegativeConditions),
         o.conditions[i].status = "True"
  PROVE  CustomHealth(o).health = "critical" /\ RenderCustom(o).health = "critical"
<1>1. PICK k \in DOMAIN NegativeConditions : NegativeConditions[k] = o.conditions[i].type
  BY DEF Range
<1>2. i \in OfType(o, NegativeConditions[k])
  BY <1>1 DEF OfType
<1>3. Reported(o, NegativeConditions[k]) = o.conditions[i]
  BY <1>2, ReportedIsTheOne DEF IsObject
<1>4. k \in Against(o)
  BY <1>2, <1>3 DEF Against
<1>5. CustomHealth(o).health = "critical"
  BY <1>4 DEF CustomHealth, Light
<1> QED
  BY <1>5 DEF RenderCustom

\* Objects that report the same, in whatever order, look the same.
LEMMA SameReports ==
  ASSUME NEW o, NEW p,
         \A type : (OfType(o, type) = {}) <=> (OfType(p, type) = {}),
         \A type : OfType(o, type) # {} => Reported(p, type) = Reported(o, type)
  PROVE  /\ o.cordoned = p.cordoned => RenderNode(p) = RenderNode(o)
         /\ o.phase = p.phase => CustomHealth(p) = CustomHealth(o)
<1>1. Against(p) = Against(o)
  BY DEF Against
<1>2. Telling(p) = Telling(o)
  BY DEF Telling
<1>3. ASSUME o.cordoned = p.cordoned
      PROVE  RenderNode(p) = RenderNode(o)
  <2>1. (OfType(o, "Ready") = {}) <=> (OfType(p, "Ready") = {})
    OBVIOUS
  <2>2. OfType(o, "Ready") # {} => Reported(p, "Ready") = Reported(o, "Ready")
    OBVIOUS
  <2> QED
    BY <1>3, <2>1, <2>2 DEF RenderNode
<1>4. ASSUME o.phase = p.phase
      PROVE  CustomHealth(p) = CustomHealth(o)
  <2>1. Against(o) # {} =>
          LET worst == NegativeConditions[Lowest(Against(o))]
          IN  Reported(p, worst) = Reported(o, worst)
    BY LeastTells DEF Against
  <2>2. Telling(o) # {} =>
          LET best == PositiveConditions[Lowest(Telling(o))]
          IN  Reported(p, best) = Reported(o, best)
    BY LeastTells DEF Telling
  <2> QED
    BY <1>1, <1>2, <1>4, <2>1, <2>2 DEF CustomHealth
<1> QED
  BY <1>3, <1>4

\* An object reports the same with its conditions in another order.
LEMMA TurnedReports ==
  ASSUME NEW o, o.conditions \in Seq(Condition), OneOfAType(o.conditions),
         NEW turn \in Turns(o.conditions), NEW p,
         p.conditions = [i \in DOMAIN o.conditions |-> o.conditions[turn[i]]],
         NEW type
  PROVE  /\ (OfType(o, type) = {}) <=> (OfType(p, type) = {})
         /\ OfType(o, type) # {} => Reported(p, type) = Reported(o, type)
<1>1. /\ DOMAIN p.conditions = DOMAIN o.conditions
      /\ \A i \in DOMAIN o.conditions : p.conditions[i] = o.conditions[turn[i]]
      /\ \A i \in DOMAIN o.conditions : turn[i] \in DOMAIN o.conditions
      /\ \A k \in DOMAIN o.conditions : \E i \in DOMAIN o.conditions : turn[i] = k
  BY DEF Turns
<1>2. \A i \in OfType(p, type) : i \in DOMAIN o.conditions /\ turn[i] \in OfType(o, type)
  BY <1>1 DEF OfType
<1>3. \A k \in OfType(o, type) : \E i \in OfType(p, type) : turn[i] = k
  BY <1>1 DEF OfType
<1>4. ASSUME OfType(o, type) # {}
      PROVE  Reported(p, type) = Reported(o, type)
  <2>1. OfType(p, type) # {}
    BY <1>3, <1>4
  <2>2. OfType(p, type) \subseteq DOMAIN o.conditions
    BY <1>2
  <2>3. Highest(OfType(p, type)) \in OfType(p, type)
    BY <2>1, <2>2, PlacesAreFinite, HighestIsLast
  <2>4. Reported(p, type) = o.conditions[turn[Highest(OfType(p, type))]]
    BY <1>1, <2>2, <2>3 DEF Reported
  <2>5. turn[Highest(OfType(p, type))] \in OfType(o, type)
    BY <1>2, <2>3
  <2> QED
    BY <2>4, <2>5, ReportedIsTheOne
<1> QED
  BY <1>2, <1>3, <1>4

\* Of a kind without conditions and containers the light is a comparison of
\* numbers or words.
LEMMA PlainIsEarned ==
  ASSUME NEW kind \in Kinds \ (CustomKinds \cup {"Pod", "Node"}), NEW o, IsObject(kind, o)
  PROVE  Render(kind, o).health = "healthy" <=> Working(kind, o)
<1>1. CASE kind \in WorkloadKinds
  <2>1. o.ready \in Nat /\ o.desired \in Nat
    BY <1>1 DEF IsObject
  <2>2. Render(kind, o) = Light(ReplicaHealth(o.ready, o.desired), "count")
    BY <1>1 DEF Render, WorkloadKinds, RenderDeployment, RenderStatefulSet, RenderDaemonSet
  <2>3. Working(kind, o) <=> o.desired > 0 /\ o.ready >= o.desired
    BY <1>1 DEF Working, WorkloadKinds, CustomKinds
  <2> QED
    BY <2>1, <2>2, <2>3 DEF Light, ReplicaHealth
<1>2. CASE kind = "ReplicaSet"
  BY <1>2 DEF IsObject, Working, WorkloadKinds, CustomKinds, Render, RenderReplicaSet, Light, ReplicaHealth
<1>3. CASE kind = "Job"
  BY <1>3 DEF IsObject, Working, WorkloadKinds, CustomKinds, Render, RenderJob, Light
<1>4. CASE kind = "CronJob"
  BY <1>4 DEF IsObject, Working, WorkloadKinds, CustomKinds, Render, RenderCronJob, Light
<1>5. CASE kind = "PodDisruptionBudget"
  <2>1. o.current \in Nat /\ o.desired \in Nat
    BY <1>5 DEF IsObject
  <2>2. Render(kind, o) = RenderPDB(o)
    BY <1>5 DEF Render
  <2>3. Working(kind, o) <=> o.current >= o.desired
    BY <1>5 DEF Working, WorkloadKinds, CustomKinds
  <2> QED
    <3>1. RenderPDB(o).health = IF o.desired > 0 /\ o.current < o.desired THEN "warning" ELSE "healthy"
      BY DEF RenderPDB, Light
    <3>2. (o.desired > 0 /\ o.current < o.desired) <=> ~(o.current >= o.desired)
      BY <2>1
    <3> QED
      BY <2>2, <2>3, <3>1, <3>2
<1>6. CASE kind = "Service"
  BY <1>6 DEF IsObject, Working, WorkloadKinds, CustomKinds, Render, RenderService, Light
<1>7. CASE kind \in {"PersistentVolumeClaim", "PersistentVolume", "Namespace"}
  BY <1>7 DEF IsObject, Working, WorkloadKinds, CustomKinds, Render, RenderPVC, RenderPV, RenderNamespace, Light
<1>8. CASE kind = "Event"
  BY <1>8 DEF IsObject, Working, WorkloadKinds, CustomKinds, Render, RenderEvent, Light
<1> QED
  BY <1>1, <1>2, <1>3, <1>4, <1>5, <1>6, <1>7, <1>8 DEF Kinds

\* What is drawn of the kinds with a renderer of their own.
LEMMA RenderedBy ==
  ASSUME NEW o
  PROVE  /\ Render("Pod", o) = RenderPod(o) /\ Render("Node", o) = RenderNode(o)
         /\ Render("Custom", o) = RenderCustom(o)
         /\ Render("CustomResourceDefinition", o) = CustomHealth(o)
  BY DEF Render

\* An object with its conditions in another order is drawn alike.
LEMMA TurnedIsAlike ==
  ASSUME NEW kind \in CustomKinds \cup {"Node"}, NEW o, IsObject(kind, o), OneOfAType(o.conditions),
         NEW turn \in Turns(o.conditions)
  PROVE  Render(kind, Turned(o, turn)) = Render(kind, o)
<1> DEFINE p == Turned(o, turn)
<1>1. p = [o EXCEPT !.conditions = [i \in DOMAIN o.conditions |-> o.conditions[turn[i]]]]
  BY DEF Turned
<1>2. /\ o.conditions \in Seq(Condition)
      /\ p.conditions = [i \in DOMAIN o.conditions |-> o.conditions[turn[i]]]
      /\ kind = "Node" => p.cordoned = o.cordoned
      /\ kind \in CustomKinds => p.phase = o.phase /\ p.columns = o.columns
  <2>1. CASE kind = "Node"
    <3>1. o \in [conditions : Seq(Condition), cordoned : BOOLEAN] /\ kind \notin CustomKinds
      BY <2>1 DEF IsObject, CustomKinds
    <3> QED
      BY <1>1, <2>1, <3>1
  <2>2. CASE kind \in CustomKinds
    <3>1. o \in [conditions : Seq(Condition), phase : STRING, columns : Seq(Column)] /\ kind # "Node"
      BY <2>2 DEF IsObject, CustomKinds
    <3> QED
      BY <1>1, <2>2, <3>1
  <2> QED
    BY <2>1, <2>2
<1> HIDE DEF p
<1>3. /\ \A type : (OfType(o, type) = {}) <=> (OfType(p, type) = {})
      /\ \A type : OfType(o, type) # {} => Reported(p, type) = Reported(o, type)
  BY <1>2, TurnedReports
<1>4. kind = "Node" => RenderNode(p) = RenderNode(o)
  BY <1>2, <1>3, SameReports
<1>5. kind \in CustomKinds => CustomHealth(p) = CustomHealth(o) /\ RenderCustom(p) = RenderCustom(o)
  <2>1. kind \in CustomKinds => CustomHealth(p) = CustomHealth(o)
    BY <1>2, <1>3, SameReports
  <2> QED
    BY <1>2, <2>1 DEF RenderCustom
<1>6. Render(kind, p) = Render(kind, o)
  BY <1>4, <1>5, RenderedBy DEF CustomKinds
<1> QED
  BY <1>6 DEF p

\* Whatever is drawn, its light is earned.
LEMMA RowIsEarned ==
  ASSUME NEW q \in Drawn
  PROVE  Earned(q, Row(q.kind, q.object, q.deleted))
<1>1. q.kind \in Kinds /\ IsObject(q.kind, q.object) /\ q.deleted \in BOOLEAN
  BY DrawnAssumption
<1>2. CASE q.deleted
  BY <1>2 DEF Earned, Row, Light
<1>3. CASE ~q.deleted
  <2>1. \A x : Row(q.kind, x, q.deleted) = Render(q.kind, x)
    BY <1>3 DEF Row
  <2>2. q.kind \notin CustomKinds \cup {"Node"} =>
          (Render(q.kind, q.object).health = "healthy" <=> Working(q.kind, q.object))
    BY <1>1, PlainIsEarned, PodIsEarned, RenderedBy
  <2>3. q.kind = "Node" =>
          /\ Render(q.kind, q.object).health = "healthy" => Working(q.kind, q.object)
          /\ Working(q.kind, q.object) /\ OneOfAType(q.object.conditions) =>
               Render(q.kind, q.object).health = "healthy"
    BY <1>1, NodeIsEarned, RenderedBy
  <2>4. q.kind \in CustomKinds =>
          (Render(q.kind, q.object).health = "healthy" => Working(q.kind, q.object))
    BY <1>1, CustomIsEarned, RenderedBy DEF CustomKinds
  <2>5. q.kind \in CustomKinds \cup {"Node"} /\ OneOfAType(q.object.conditions) =>
          \A turn \in Turns(q.object.conditions) :
            Render(q.kind, Turned(q.object, turn)) = Render(q.kind, q.object)
    BY <1>1, TurnedIsAlike
  <2>6. q.kind \in CustomKinds /\ OneOfAType(q.object.conditions) =>
          \A i \in DOMAIN q.object.conditions :
            /\ q.object.conditions[i].type \in Range(NegativeConditions)
            /\ q.object.conditions[i].status = "True"
            => Render(q.kind, q.object).health = "critical"
    BY <1>1, CustomIsWarned, RenderedBy DEF CustomKinds
  <2> QED
    BY <1>3, <2>1, <2>2, <2>3, <2>4, <2>5, <2>6 DEF Earned
<1> QED
  BY <1>1, <1>2, <1>3

\* Of objects of any kind, with any containers, conditions, phases and columns,
\* no row is ever drawn green that did not earn it, and none that did is
\* refused it.
THEOREM GreenIsAlwaysEarned == RowsSpec => []GreenIsEarned
<1>1. RowsInit => GreenIsEarned
  BY DEF RowsInit, GreenIsEarned
<1>2. GreenIsEarned /\ [DrawRow]_drawn => GreenIsEarned'
  <2> SUFFICES ASSUME GreenIsEarned, [DrawRow]_drawn PROVE GreenIsEarned'
    OBVIOUS
  <2>1. CASE DrawRow
    <3>1. PICK q \in Drawn : drawn' = <<[of |-> q, light |-> Row(q.kind, q.object, q.deleted)]>>
      BY <2>1 DEF DrawRow
    <3>2. drawn'[1].of = q /\ drawn'[1].light = Row(q.kind, q.object, q.deleted)
      BY <3>1
    <3> QED
      BY <3>2, RowIsEarned DEF GreenIsEarned
  <2>2. CASE UNCHANGED drawn
    BY <2>2 DEF GreenIsEarned
  <2> QED
    BY <2>1, <2>2
<1> QED
  BY <1>1, <1>2, PTL DEF RowsSpec

-----------------------------------------------------------------------------
(* What a page lists (RelatedObjects).                                     *)

\* A list that is cut at a budget is a part of it; it is all of it when the
\* budget is not exceeded, and empty only when there is nothing.
LEMMA PrefixIsPart ==
  ASSUME NEW T, NEW list \in Seq(T), NEW budget \in Nat
  PROVE  /\ Prefix(list, budget) \in Seq(T)
         /\ Range(Prefix(list, budget)) \subseteq Range(list)
         /\ Len(list) <= budget => Prefix(list, budget) = list
         /\ budget # 0 /\ list # <<>> => Prefix(list, budget) # <<>>
<1> DEFINE n == IF Len(list) < budget THEN Len(list) ELSE budget
           part == SubSeq(list, 1, n)
<1>1. /\ Len(list) \in Nat /\ n \in Nat /\ n <= Len(list)
      /\ Len(list) <= budget => n = Len(list)
      /\ budget # 0 /\ list # <<>> => n # 0
  OBVIOUS
<1> HIDE DEF n
<1>2. /\ part \in Seq(T) /\ Len(part) = n
      /\ \A i \in 1..n : part[i] = list[i]
  BY <1>1
<1>3. Prefix(list, budget) = part
  BY DEF Prefix, n
<1> HIDE DEF part
<1>4. Range(part) \subseteq Range(list)
  BY <1>1, <1>2 DEF Range
<1>5. n = Len(list) => part = list
  BY <1>1, <1>2
<1> QED
  BY <1>1, <1>2, <1>3, <1>4, <1>5

\* The rows of a group are the identities of its objects.
LEMMA RowsAreUids ==
  ASSUME NEW list \in Seq(Thing), NEW rows, rows = [i \in DOMAIN list |-> list[i].uid]
  PROVE  /\ DOMAIN rows = DOMAIN list /\ \A i \in DOMAIN list : rows[i] = list[i].uid
         /\ Range(rows) = UidsOf(list)
<1>1. DOMAIN rows = DOMAIN list /\ \A i \in DOMAIN list : rows[i] = list[i].uid
  OBVIOUS
<1>2. Range(rows) = UidsOf(list)
  BY <1>1 DEF Range, UidsOf
<1> QED
  BY <1>1, <1>2

\* One list after the other.
LEMMA RangeOfBoth ==
  ASSUME NEW S, NEW T, NEW a \in Seq(S), NEW b \in Seq(T)
  PROVE  Range(a \o b) = Range(a) \cup Range(b)
<1> DEFINE n == Len(a)
           m == Len(b)
           both == a \o b
<1>1. /\ n \in Nat /\ m \in Nat /\ DOMAIN a = 1..n /\ DOMAIN b = 1..m
      /\ DOMAIN both = 1..(n + m)
      /\ \A i \in 1..n : both[i] = a[i]
      /\ \A i \in 1..m : both[n + i] = b[i]
  OBVIOUS
<1> HIDE DEF n, m, both
<1>2. /\ \A i \in 1..n : i \in 1..(n + m)
      /\ \A i \in 1..m : n + i \in 1..(n + m)
      /\ \A i \in 1..(n + m) : i \in 1..n \/ (i - n \in 1..m /\ n + (i - n) = i)
  BY <1>1
<1>3. ASSUME NEW i \in 1..(n + m)
      PROVE  both[i] \in Range(a) \cup Range(b)
  <2>1. CASE i \in 1..n
    BY <1>1, <2>1 DEF Range
  <2>2. CASE i - n \in 1..m /\ n + (i - n) = i
    <3>1. both[i] = b[i - n]
      BY <1>1, <2>2
    <3> QED
      BY <1>1, <2>2, <3>1 DEF Range
  <2> QED
    BY <1>2, <2>1, <2>2
<1>4. Range(both) \subseteq Range(a) \cup Range(b)
  BY <1>1, <1>3 DEF Range
<1>5. Range(a) \subseteq Range(both)
  BY <1>1, <1>2 DEF Range
<1>6. Range(b) \subseteq Range(both)
  BY <1>1, <1>2 DEF Range
<1>7. Range(both) = Range(a) \cup Range(b)
  BY <1>4, <1>5, <1>6
<1> QED
  BY <1>7 DEF both


\* Groups one after the other have the titles of both.
LEMMA TitledOfBoth ==
  ASSUME NEW S, NEW T, NEW a \in Seq(S), NEW b \in Seq(T), NEW title
  PROVE  Titled(a \o b, title) = Titled(a, title) \cup Titled(b, title)
<1>1. Range(a \o b) = Range(a) \cup Range(b)
  BY RangeOfBoth
<1> QED
  BY <1>1 DEF Titled

\* A page of one group has its title only.
LEMMA TitledOfOne ==
  ASSUME NEW g, NEW title
  PROVE  /\ Titled(<<g>>, title) = IF g.title = title THEN {g} ELSE {}
         /\ Titled(<<>>, title) = {}
         /\ g \in Range(<<g>>) /\ <<g>> \in Seq({g})
<1>1. Range(<<g>>) = {g}
  <2> DEFINE one == <<g>>
  <2>1. DOMAIN one = {1} /\ one[1] = g
    OBVIOUS
  <2> HIDE DEF one
  <2>2. Range(one) = {g}
    BY <2>1 DEF Range
  <2> QED
    BY <2>2 DEF one
<1>2. Range(<<>>) = {}
  BY DEF Range
<1> QED
  BY <1>1, <1>2 DEF Titled

\* What a bounded read finds is what fits, and all of it when it was neither
\* refused nor cut.
LEMMA ReadFits ==
  ASSUME NEW c, c.objects \in Seq(Thing), NEW kind, NEW namespace, NEW labels, NEW read,
         read = ReadMatching(c, kind, namespace, labels)
  PROVE  /\ read.objects \in Seq(Thing) /\ read.truncated \in BOOLEAN /\ read.failed \in BOOLEAN
         /\ Range(read.objects) \subseteq Matching(c, kind, namespace, labels)
         /\ kind \notin c.refused => ~read.failed
         /\ kind \notin c.refused /\ ~read.truncated =>
              Range(read.objects) = Matching(c, kind, namespace, labels)
<1> DEFINE M == Matching(c, kind, namespace, labels)
           fit == Keeping(c.objects, M)
<1>1. fit \in Seq(Thing) /\ Range(fit) = Range(c.objects) \cap M
  <2> HIDE DEF M
  <2> QED
    BY KeepingLists, RangeOfKept
<1>2. Range(fit) = M
  BY <1>1 DEF Matching
<1>3. /\ Prefix(fit, ColdBudget) \in Seq(Thing)
      /\ Range(Prefix(fit, ColdBudget)) \subseteq Range(fit)
      /\ Len(fit) <= ColdBudget => Prefix(fit, ColdBudget) = fit
  <2> HIDE DEF fit
  <2> QED
    BY <1>1, PrefixIsPart, BudgetsAssumption
<1>4. read = IF kind \in c.warm THEN [objects |-> fit, truncated |-> FALSE, failed |-> FALSE]
             ELSE IF kind \in c.refused THEN [objects |-> <<>>, truncated |-> FALSE, failed |-> labels # {}]
             ELSE [objects |-> Prefix(fit, ColdBudget), truncated |-> Len(fit) > ColdBudget, failed |-> FALSE]
  BY DEF ReadMatching
<1>5. Len(fit) \in Nat /\ ColdBudget \in Nat
  <2> HIDE DEF fit
  <2> QED
    BY <1>1, BudgetsAssumption
<1>6. Range(<<>>) = {} /\ <<>> \in Seq(Thing)
  BY DEF Range
<1> HIDE DEF fit, M
<1>7. CASE kind \in c.warm
  BY <1>1, <1>2, <1>4, <1>7 DEF M
<1>8. CASE kind \notin c.warm /\ kind \in c.refused
  BY <1>4, <1>6, <1>8 DEF M
<1>9. CASE kind \notin c.warm /\ kind \notin c.refused
  <2>1. /\ read.objects = Prefix(fit, ColdBudget) /\ read.truncated = (Len(fit) > ColdBudget)
        /\ read.failed = FALSE
    BY <1>4, <1>9
  <2>2. ~(Len(fit) > ColdBudget) => Len(fit) <= ColdBudget
    BY <1>5
  <2>3. Range(Prefix(fit, ColdBudget)) \subseteq M
    BY <1>2, <1>3
  <2>4. ~read.truncated => Range(read.objects) = M
    BY <1>2, <1>3, <2>1, <2>2
  <2>5. read.truncated \in BOOLEAN
    BY <1>5, <2>1
  <2> QED
    BY <1>3, <2>1, <2>3, <2>4, <2>5 DEF M
<1> QED
  BY <1>7, <1>8, <1>9

\* Who is taken for the controller of an object controls it, and with one
\* controller nobody else does.
LEMMA ControllerControls ==
  ASSUME NEW o, o.owners \in Seq(Reference)
  PROVE  /\ ControllerOf(o) # <<>> => Controls(ControllerOf(o)[1].uid, o)
         /\ \A uids : ControlledBy(o, uids) => \E u \in uids : Controls(u, o)
         /\ (\A i, k \in DOMAIN o.owners : o.owners[i].controller /\ o.owners[k].controller => i = k) =>
              \A uids : \A u \in uids : Controls(u, o) => ControlledBy(o, uids)
<1> DEFINE marked == {i \in DOMAIN o.owners : o.owners[i].controller}
<1>1. IsFiniteSet(marked) /\ marked \subseteq Int
  BY PlacesAreFinite
<1>2. marked # {} => Lowest(marked) \in marked
  <2> HIDE DEF marked
  <2> QED
    BY <1>1, LowestIsFirst
<1>3. ControllerOf(o) = IF marked = {} THEN <<>> ELSE <<o.owners[Lowest(marked)]>>
  BY DEF ControllerOf
<1>4. \A x : <<x>> # <<>> /\ <<x>>[1] = x
  OBVIOUS
<1>5. ControllerOf(o) # <<>> => /\ marked # {} /\ Lowest(marked) \in marked
                                /\ ControllerOf(o)[1] = o.owners[Lowest(marked)]
  BY <1>2, <1>3, <1>4
<1>6. ControllerOf(o) # <<>> => Controls(ControllerOf(o)[1].uid, o)
  BY <1>5 DEF Controls
<1>7. ASSUME \A i, k \in DOMAIN o.owners : o.owners[i].controller /\ o.owners[k].controller => i = k,
             NEW uids, NEW u \in uids, Controls(u, o)
      PROVE  ControlledBy(o, uids)
  <2>1. PICK i \in marked : o.owners[i].uid = u
    BY <1>7 DEF Controls
  <2>2. Lowest(marked) \in marked
    BY <1>2, <2>1
  <2>3. Lowest(marked) = i
    BY <1>7, <2>1, <2>2
  <2>4. ControllerOf(o) = <<o.owners[i]>>
    BY <1>3, <2>1, <2>3
  <2> QED
    BY <1>4, <1>7, <2>1, <2>4 DEF ControlledBy
<1> QED
  BY <1>6, <1>7 DEF ControlledBy

\* Groups that show the pods that are due: none is shown that is not; when the
\* reads were answered, a list that does not call itself cut has them all, and
\* is missing only when there are none or the read was cut.
PodsShown(groups, due, heard, cut) ==
  /\ groups # <<>> => \E list \in Seq(Thing), t \in BOOLEAN :
       /\ groups = <<RelatedGroup("Pods", list, t)>> /\ list # <<>> /\ Range(list) \subseteq due
       /\ heard /\ ~t => Range(list) = due
  /\ heard /\ ~cut /\ groups = <<>> => due = {}

\* What is drawn of pods shows them.
LEMMA RenderedPods ==
  ASSUME NEW pods \in Seq(Thing), NEW truncated \in BOOLEAN, NEW due, NEW heard, NEW cut,
         Range(pods) \subseteq due, heard /\ ~truncated => Range(pods) = due,
         heard /\ ~cut /\ pods = <<>> => due = {}
  PROVE  PodsShown(RenderPods(pods, truncated), due, heard, cut)
<1>1. CASE pods = <<>>
  BY <1>1 DEF RenderPods, PodsShown
<1>2. CASE pods # <<>>
  <2> DEFINE list == Prefix(pods, RelatedBudget)
             t == truncated \/ Len(pods) > RelatedBudget
  <2>1. /\ list \in Seq(Thing) /\ Range(list) \subseteq Range(pods) /\ list # <<>>
        /\ Len(pods) <= RelatedBudget => list = pods
    BY <1>2, PrefixIsPart, BudgetsAssumption
  <2>2. t \in BOOLEAN /\ (~t => ~truncated /\ Len(pods) <= RelatedBudget)
    BY BudgetsAssumption
  <2>3. RenderPods(pods, truncated) = <<RelatedGroup("Pods", list, t)>>
    BY <1>2 DEF RenderPods
  <2> HIDE DEF list, t
  <2>4. RenderPods(pods, truncated) # <<>>
    BY <2>3
  <2> QED
    BY <2>1, <2>2, <2>3, <2>4 DEF PodsShown
<1> QED
  BY <1>1, <1>2

\* A read of pods shows those that fit and are kept.
LEMMA PodGroupShows ==
  ASSUME NEW c, c.objects \in Seq(Thing), NEW namespace, NEW labels, NEW kept, NEW due,
         due = Matching(c, "Pod", namespace, labels) \cap kept
  PROVE  PodsShown(PodGroup(c, namespace, labels, kept), due, "Pod" \notin c.refused,
                   ReadMatching(c, "Pod", namespace, labels).truncated)
<1> DEFINE read == ReadMatching(c, "Pod", namespace, labels)
           M == Matching(c, "Pod", namespace, labels)
           pods == Keeping(read.objects, kept)
<1>1. /\ read.objects \in Seq(Thing) /\ read.truncated \in BOOLEAN
      /\ Range(read.objects) \subseteq M
      /\ "Pod" \notin c.refused => ~read.failed
      /\ "Pod" \notin c.refused /\ ~read.truncated => Range(read.objects) = M
  BY ReadFits
<1>2. PodGroup(c, namespace, labels, kept) = IF read.failed THEN <<>> ELSE RenderPods(pods, read.truncated)
  BY DEF PodGroup
<1> HIDE DEF read, M
<1>3. pods \in Seq(Thing) /\ Range(pods) = Range(read.objects) \cap kept
  BY <1>1, KeepingLists, RangeOfKept
<1> HIDE DEF pods
<1>4. due = M \cap kept
  BY DEF M
<1>5. CASE read.failed
  BY <1>1, <1>2, <1>5 DEF PodsShown
<1>6. CASE ~read.failed
  <2>1. Range(pods) \subseteq due
    BY <1>1, <1>3, <1>4
  <2>2. "Pod" \notin c.refused /\ ~read.truncated => Range(pods) = due
    BY <1>1, <1>3, <1>4
  <2>3. pods = <<>> => Range(pods) = {}
    BY DEF Range
  <2> DEFINE heard == "Pod" \notin c.refused
             cut == read.truncated
  <2>4. /\ heard /\ ~cut => Range(pods) = due
        /\ heard /\ ~cut /\ pods = <<>> => due = {}
        /\ cut \in BOOLEAN
    BY <1>1, <2>2, <2>3
  <2>5. PodsShown(RenderPods(pods, cut), due, heard, cut)
    <3> HIDE DEF heard, cut
    <3> QED
      BY <1>3, <2>1, <2>4, RenderedPods
  <2> QED
    <3>1. PodGroup(c, namespace, labels, kept) = RenderPods(pods, cut)
      BY <1>2, <1>6
    <3>2. PodsShown(PodGroup(c, namespace, labels, kept), due, heard, cut)
      <4> HIDE DEF heard, cut
      <4> QED
        BY <2>5, <3>1
    <3> QED
      BY <3>2 DEF read
<1> QED
  BY <1>5, <1>6 DEF read

\* No read that a page of an object needs was refused, nor its revisions cut.
Heard(c, o) ==
  /\ {"Pod", "ReplicaSet"} \cap c.refused = {}
  /\ o.kind = "Deployment" => ~Cut(c, "ReplicaSet", o)

\* Groups that say what they should, those of pods included.
Honest(c, o, groups) ==
  /\ groups \in Seq(Range(groups))
  /\ Belongs(c, o, groups) /\ InOrder(c, groups)
  /\ Heard(c, o) => Whole(c, o, groups)

\* Groups of anything but pods that say what they should.
Beside(c, o, groups) ==
  /\ groups \in Seq(Range(groups))
  /\ Belongs(c, o, groups) /\ InOrder(c, groups)
  /\ Titled(groups, "Pods") = {}

\* No groups say nothing.
LEMMA NothingIsBeside ==
  ASSUME NEW c, NEW o
  PROVE  Beside(c, o, <<>>)
<1>1. \A title : Titled(<<>>, title) = {}
  BY TitledOfOne
<1>2. \A title : Uids(<<>>, title) = {}
  BY <1>1 DEF Uids
<1>3. Belongs(c, o, <<>>)
  BY <1>1, <1>2 DEF Belongs
<1>4. InOrder(c, <<>>)
  BY <1>1 DEF InOrder
<1> QED
  BY <1>1, <1>3, <1>4 DEF Beside

\* What pages have beside pods may stand before them.
LEMMA HonestTogether ==
  ASSUME NEW c, NEW o, NEW a, NEW b, Beside(c, o, a), Honest(c, o, b)
  PROVE  Honest(c, o, a \o b)
<1> DEFINE both == a \o b
<1>1. a \in Seq(Range(a)) /\ b \in Seq(Range(b))
  BY DEF Beside, Honest
<1>2. \A title : Titled(both, title) = Titled(a, title) \cup Titled(b, title)
  BY <1>1, TitledOfBoth
<1>3. both \in Seq(Range(both))
  <2>1. both \in Seq(Range(a) \cup Range(b))
    BY <1>1
  <2> HIDE DEF both
  <2>2. DOMAIN both = 1..Len(both) /\ Len(both) \in Nat /\ both = [i \in 1..Len(both) |-> both[i]]
    BY <2>1
  <2>3. \A i \in 1..Len(both) : both[i] \in Range(both)
    BY <2>2 DEF Range
  <2> QED
    BY <2>2, <2>3
<1> HIDE DEF both
<1>4. \A title : Uids(both, title) = Uids(a, title) \cup Uids(b, title)
  BY <1>2 DEF Uids
<1>5. Titled(both, "Pods") = Titled(b, "Pods") /\ Uids(both, "Pods") = Uids(b, "Pods")
  BY <1>2 DEF Beside, Uids
<1>6. Belongs(c, o, both)
  <2>1. Belongs(c, o, a) /\ Belongs(c, o, b)
    BY DEF Beside, Honest
  <2> DEFINE due == {p.uid : p \in Due(c, o)}
             made == {x.uid : x \in {y \in Range(c.objects) : Controls(o.uid, y)}}
             Chain(g) == /\ g.rows # <<>> /\ Controls(g.rows[1], o)
                         /\ \A j \in 2..Len(g.rows) : \E x \in Range(c.objects) :
                              x.uid = g.rows[j - 1] /\ Controls(g.rows[j], x)
  <2>2. \A groups : Belongs(c, o, groups) <=>
          /\ Uids(groups, "Pods") \subseteq due
          /\ Uids(groups, "Deploy Revisions") \cup Uids(groups, "Jobs") \subseteq made
          /\ \A g \in Titled(groups, "Controlled By") : Chain(g)
    BY DEF Belongs
  <2> HIDE DEF due, made, Chain
  <2>3. \A g \in Titled(both, "Controlled By") : Chain(g)
    BY <1>2, <2>1, <2>2
  <2>4. Uids(both, "Pods") \subseteq due
    BY <1>5, <2>1, <2>2
  <2>5. Uids(both, "Deploy Revisions") \cup Uids(both, "Jobs") \subseteq made
    BY <1>4, <2>1, <2>2
  <2> QED
    BY <2>2, <2>3, <2>4, <2>5
<1>7. InOrder(c, both)
  <2> DEFINE Falling(g) ==
               \A i, k \in DOMAIN g.rows : i < k => \E x, y \in Range(c.objects) :
                 x.uid = g.rows[i] /\ y.uid = g.rows[k] /\ x.revision >= y.revision
  <2>1. \A groups : InOrder(c, groups) <=> \A g \in Titled(groups, "Deploy Revisions") : Falling(g)
    BY DEF InOrder
  <2> HIDE DEF Falling
  <2>2. InOrder(c, a) /\ InOrder(c, b)
    BY DEF Beside, Honest
  <2> QED
    BY <1>2, <2>1, <2>2
<1>8. Heard(c, o) => Whole(c, o, both)
  BY <1>5 DEF Whole, Honest
<1> QED
  BY <1>3, <1>6, <1>7, <1>8 DEF Honest, both

\* Pods that are shown are a page that says what it should.
LEMMA PodsAreHonest ==
  ASSUME NEW c, NEW o, NEW groups, NEW due, NEW heard, NEW cut, PodsShown(groups, due, heard, cut),
         due \subseteq Due(c, o), Heard(c, o) => heard /\ due = Due(c, o),
         o.kind \in {"Node", "PriorityClass"} \/ ~Cut(c, "Pod", o) => ~cut
  PROVE  Honest(c, o, groups)
<1>1. CASE groups = <<>>
  <2>1. Beside(c, o, groups)
    BY <1>1, NothingIsBeside
  <2>2. Heard(c, o) => Whole(c, o, groups)
    BY <1>1, TitledOfOne DEF Whole, PodsShown
  <2> QED
    BY <2>1, <2>2 DEF Beside, Honest
<1>2. CASE groups # <<>>
  <2>1. PICK list \in Seq(Thing), t \in BOOLEAN :
          /\ groups = <<RelatedGroup("Pods", list, t)>> /\ list # <<>> /\ Range(list) \subseteq due
          /\ heard /\ ~t => Range(list) = due
    BY <1>2 DEF PodsShown
  <2> DEFINE g == RelatedGroup("Pods", list, t)
  <2>2. g.title = "Pods" /\ g.truncated = t /\ Range(g.rows) = UidsOf(list)
    <3>1. g.title = "Pods" /\ g.truncated = t /\ g.rows = [i \in DOMAIN list |-> list[i].uid]
      BY DEF RelatedGroup
    <3> HIDE DEF g
    <3>2. Range(g.rows) = UidsOf(list)
      BY <3>1, RowsAreUids
    <3> QED
      BY <3>1, <3>2
  <2>3. groups = <<g>>
    BY <2>1
  <2> HIDE DEF g
  <2>4. /\ Titled(groups, "Pods") = {g} /\ \A title : title # "Pods" => Titled(groups, title) = {}
        /\ groups \in Seq(Range(groups))
    <3>1. Range(<<g>>) = {g}
      BY TitledOfOne DEF Titled
    <3> QED
      BY <2>2, <2>3, <3>1, TitledOfOne
  <2>5. Uids(groups, "Pods") = {p.uid : p \in Range(list)}
    BY <2>2, <2>4 DEF Uids, UidsOf
  <2>6. \A title : title # "Pods" => Uids(groups, title) = {}
    BY <2>4 DEF Uids
  <2>7. Belongs(c, o, groups) /\ InOrder(c, groups)
    <3>1. {p.uid : p \in Range(list)} \subseteq {p.uid : p \in Due(c, o)}
      BY <2>1
    <3>2. /\ Titled(groups, "Controlled By") = {} /\ Titled(groups, "Deploy Revisions") = {}
          /\ Uids(groups, "Deploy Revisions") = {} /\ Uids(groups, "Jobs") = {}
      BY <2>4, <2>6
    <3>3. Belongs(c, o, groups)
      BY <2>5, <3>1, <3>2 DEF Belongs
    <3>4. InOrder(c, groups)
      BY <3>2 DEF InOrder
    <3> QED
      BY <3>3, <3>4
  <2>8. ASSUME Heard(c, o)
        PROVE  Whole(c, o, groups)
    <3>1. ~t => Uids(groups, "Pods") = {p.uid : p \in Due(c, o)}
      BY <2>1, <2>5, <2>8
    <3>2. PICK p : p \in Range(list)
      <4>1. Len(list) \in Nat /\ Len(list) # 0 /\ DOMAIN list = 1..Len(list)
        BY <2>1
      <4>2. list[1] \in Range(list)
        BY <4>1 DEF Range
      <4> QED
        BY <4>2
    <3>3. Uids(groups, "Pods") # {}
      BY <2>5, <3>2
    <3> QED
      BY <2>2, <2>4, <3>1, <3>3 DEF Whole
  <2> QED
    BY <2>4, <2>7, <2>8 DEF Honest
<1> QED
  BY <1>1, <1>2

\* A controller that is found is an object of the cluster, and the one that is meant.
LEMMA OneUpControls ==
  ASSUME NEW c, NEW o, o.owners \in Seq(Reference), NEW x \in OneUp(c, o)
  PROVE  x \in Range(c.objects) /\ Controls(x.uid, o)
<1>1. ControllerOf(o) # <<>>
  BY DEF OneUp
<1>2. /\ x \in Get(c, ControllerOf(o)[1].kind, o.namespace, ControllerOf(o)[1].name)
      /\ x.uid = ControllerOf(o)[1].uid
  BY DEF OneUp
<1> QED
  BY <1>1, <1>2, ControllerControls DEF Get

\* A single group beside pods says what it should when its rows do.
LEMMA OneIsBeside ==
  ASSUME NEW c, NEW o, NEW g, NEW title, g.title = title,
         title \in {"Controlled By", "Deploy Revisions", "Jobs"},
         title # "Controlled By" =>
           Range(g.rows) \subseteq {x.uid : x \in {y \in Range(c.objects) : Controls(o.uid, y)}},
         title = "Controlled By" =>
           /\ g.rows # <<>> /\ Controls(g.rows[1], o)
           /\ \A j \in 2..Len(g.rows) : \E x \in Range(c.objects) :
                x.uid = g.rows[j - 1] /\ Controls(g.rows[j], x),
         title = "Deploy Revisions" =>
           \A i, k \in DOMAIN g.rows : i < k => \E x, y \in Range(c.objects) :
             x.uid = g.rows[i] /\ y.uid = g.rows[k] /\ x.revision >= y.revision
  PROVE  Beside(c, o, <<g>>)
<1> DEFINE groups == <<g>>
<1>1. \A t : Titled(groups, t) = IF title = t THEN {g} ELSE {}
  BY TitledOfOne
<1>2. groups \in Seq(Range(groups))
  <2>1. Range(<<g>>) = {g}
    BY TitledOfOne DEF Titled
  <2> QED
    BY <2>1, TitledOfOne
<1> HIDE DEF groups
<1>3. ASSUME NEW t
      PROVE  /\ title = t => Uids(groups, t) = Range(g.rows)
             /\ title # t => Uids(groups, t) = {}
  <2>1. title = t => Titled(groups, t) = {g}
    BY <1>1
  <2>2. title # t => Titled(groups, t) = {}
    BY <1>1
  <2>3. {Range(h.rows) : h \in {g}} = {Range(g.rows)}
    OBVIOUS
  <2>4. UNION {Range(g.rows)} = Range(g.rows)
    OBVIOUS
  <2> QED
    BY <2>1, <2>2, <2>3, <2>4 DEF Uids
<1>4. Uids(groups, "Pods") = {} /\ Titled(groups, "Pods") = {}
  BY <1>1, <1>3
<1>5. Belongs(c, o, groups)
  <2> DEFINE made == {x.uid : x \in {y \in Range(c.objects) : Controls(o.uid, y)}}
  <2>1. Uids(groups, "Deploy Revisions") \cup Uids(groups, "Jobs") \subseteq made
    <3>1. title # "Controlled By" => Range(g.rows) \subseteq made
      OBVIOUS
    <3> HIDE DEF made
    <3>2. ASSUME NEW t \in {"Deploy Revisions", "Jobs"}
          PROVE  Uids(groups, t) \subseteq made
      <4>1. CASE title = t
        BY <1>3, <3>1, <4>1
      <4>2. CASE title # t
        BY <1>3, <4>2
      <4> QED
        BY <4>1, <4>2
    <3> QED
      BY <3>2
  <2>2. \A h \in Titled(groups, "Controlled By") : h = g /\ title = "Controlled By"
    BY <1>1
  <2>3. \A h \in Titled(groups, "Controlled By") :
          /\ h.rows # <<>> /\ Controls(h.rows[1], o)
          /\ \A j \in 2..Len(h.rows) : \E x \in Range(c.objects) :
               x.uid = h.rows[j - 1] /\ Controls(h.rows[j], x)
    BY <2>2
  <2> QED
    BY <1>4, <2>1, <2>3 DEF Belongs
<1>6. InOrder(c, groups)
  <2> DEFINE Falling(h) ==
               \A i, k \in DOMAIN h.rows : i < k => \E x, y \in Range(c.objects) :
                 x.uid = h.rows[i] /\ y.uid = h.rows[k] /\ x.revision >= y.revision
  <2>1. \A h \in Titled(groups, "Deploy Revisions") : h = g /\ title = "Deploy Revisions"
    BY <1>1
  <2>2. title = "Deploy Revisions" => Falling(g)
    OBVIOUS
  <2>3. InOrder(c, groups) <=> \A h \in Titled(groups, "Deploy Revisions") : Falling(h)
    BY DEF InOrder
  <2> HIDE DEF Falling
  <2> QED
    BY <2>1, <2>2, <2>3
<1>7. Beside(c, o, groups)
  BY <1>2, <1>4, <1>5, <1>6 DEF Beside
<1> QED
  BY <1>7 DEF groups

\* The controllers of a page, one above the other.
LEMMA OwnersAreBeside ==
  ASSUME NEW c, c.objects \in Seq(Thing), NEW o \in Thing
  PROVE  Beside(c, o, OwnerGroup(c, o))
<1>0. \A x \in Range(c.objects) : x \in Thing
  BY DEF Range
<1>1. CASE OneUp(c, o) = {}
  <2>1. OwnerGroup(c, o) = <<>>
    BY <1>1 DEF OwnerGroup
  <2> QED
    BY <2>1, NothingIsBeside
<1>2. CASE OneUp(c, o) # {}
  <2> DEFINE first == CHOOSE x \in OneUp(c, o) : TRUE
             second == CHOOSE x \in OneUp(c, first) : TRUE
             chain == IF OneUp(c, first) = {} THEN <<first>> ELSE <<first, second>>
             g == RelatedGroup("Controlled By", chain, FALSE)
  <2>1. first \in OneUp(c, o)
    BY <1>2
  <2>2. OwnerGroup(c, o) = <<g>>
    BY <1>2 DEF OwnerGroup
  <2>3. OneUp(c, first) # {} => second \in OneUp(c, first)
    OBVIOUS
  <2> HIDE DEF first
  <2>4. o.owners \in Seq(Reference)
    BY DEF Thing
  <2>5. first \in Range(c.objects) /\ Controls(first.uid, o) /\ first \in Thing
    BY <1>0, <2>1, <2>4, OneUpControls
  <2>6. first.owners \in Seq(Reference)
    BY <2>5 DEF Thing
  <2>7. OneUp(c, first) # {} => second \in Range(c.objects) /\ Controls(second.uid, first)
    <3> HIDE DEF second
    <3> QED
      BY <2>3, <2>6, OneUpControls
  <2> HIDE DEF second
  <2>8. g.title = "Controlled By" /\ g.rows = [i \in DOMAIN chain |-> chain[i].uid]
    BY DEF RelatedGroup
  <2> HIDE DEF g
  <2>9. /\ g.rows # <<>> /\ Controls(g.rows[1], o)
        /\ \A j \in 2..Len(g.rows) : \E x \in Range(c.objects) :
             x.uid = g.rows[j - 1] /\ Controls(g.rows[j], x)
    <3>1. CASE OneUp(c, first) = {}
      <4>1. chain = <<first>>
        BY <3>1
      <4>2. \A a : DOMAIN <<a>> = 1..1 /\ <<a>>[1] = a
        OBVIOUS
      <4> HIDE DEF chain
      <4>3. g.rows = [i \in 1..1 |-> chain[i].uid] /\ chain[1] = first
        BY <2>8, <4>1, <4>2
      <4>4. DOMAIN g.rows = 1..1 /\ g.rows[1] = first.uid
        BY <4>3
      <4>5. Len(g.rows) = 1 /\ g.rows # <<>> /\ 2..Len(g.rows) = {}
        BY <4>3, <4>4
      <4> QED
        BY <2>5, <4>4, <4>5
    <3>2. CASE OneUp(c, first) # {}
      <4>1. chain = <<first, second>>
        BY <3>2
      <4>2. \A a, b : DOMAIN <<a, b>> = 1..2 /\ <<a, b>>[1] = a /\ <<a, b>>[2] = b
        OBVIOUS
      <4> HIDE DEF chain
      <4>3. g.rows = [i \in 1..2 |-> chain[i].uid] /\ chain[1] = first /\ chain[2] = second
        BY <2>8, <4>1, <4>2
      <4>4. DOMAIN g.rows = 1..2 /\ g.rows[1] = first.uid /\ g.rows[2] = second.uid
        BY <4>3
      <4>5. Len(g.rows) = 2 /\ g.rows # <<>> /\ \A j \in 2..Len(g.rows) : j = 2 /\ j - 1 = 1
        BY <4>3, <4>4
      <4> QED
        BY <2>5, <2>7, <3>2, <4>4, <4>5
    <3> QED
      BY <3>1, <3>2
  <2>10. Beside(c, o, <<g>>)
    BY <2>8, <2>9, OneIsBeside
  <2> QED
    BY <2>2, <2>10
<1> QED
  BY <1>1, <1>2

\* The objects of a kind that an object owns: of those the selector fits, the
\* ones it controls, and all of them when the read was neither refused nor cut.
LEMMA OwnedAreControlled ==
  ASSUME NEW c, c.objects \in Seq(Thing), NEW o, NEW kind, NEW labels, NEW owned,
         owned = OwnedObjects(c, kind, o, labels).objects
  PROVE  /\ owned \in Seq(Thing)
         /\ Range(owned) \subseteq {x \in Matching(c, kind, o.namespace, labels) : Controls(o.uid, x)}
         /\ /\ kind \notin c.refused /\ ~ReadMatching(c, kind, o.namespace, labels).truncated
            /\ \A x \in Range(c.objects) : \A i, k \in DOMAIN x.owners :
                 x.owners[i].controller /\ x.owners[k].controller => i = k
            => Range(owned) = {x \in Matching(c, kind, o.namespace, labels) : Controls(o.uid, x)}
<1> DEFINE M == Matching(c, kind, o.namespace, labels)
           read == ReadMatching(c, kind, o.namespace, labels)
           kept == {x \in Range(c.objects) : ControlledBy(x, {o.uid})}
           theirs == {x \in M : Controls(o.uid, x)}
           Single == \A x \in Range(c.objects) : \A i, k \in DOMAIN x.owners :
                       x.owners[i].controller /\ x.owners[k].controller => i = k
<1>1. /\ read.objects \in Seq(Thing) /\ Range(read.objects) \subseteq M
      /\ kind \notin c.refused /\ ~read.truncated => Range(read.objects) = M
  BY ReadFits
<1>2. owned = Keeping(read.objects, kept)
  BY DEF OwnedObjects
<1>3. M \subseteq Range(c.objects) /\ \A x \in Range(c.objects) : x.owners \in Seq(Reference)
  <2>1. \A x \in Range(c.objects) : x \in Thing
    BY DEF Range
  <2> QED
    BY <2>1 DEF Matching, Thing
<1>4. ASSUME NEW x \in M
      PROVE  /\ x \in kept => x \in theirs
             /\ Single /\ x \in theirs => x \in kept
  <2>1. x.owners \in Seq(Reference) /\ x \in Range(c.objects)
    BY <1>3
  <2>2. ControlledBy(x, {o.uid}) => Controls(o.uid, x)
    BY <2>1, ControllerControls
  <2>3. Single /\ Controls(o.uid, x) => ControlledBy(x, {o.uid})
    BY <2>1, ControllerControls
  <2> QED
    BY <2>1, <2>2, <2>3
<1>5. M \cap kept \subseteq theirs /\ theirs \subseteq M /\ (Single => M \cap kept = theirs)
  BY <1>4
<1> HIDE DEF M, read, kept, theirs, Single
<1>6. owned \in Seq(Thing) /\ Range(owned) = Range(read.objects) \cap kept
  BY <1>1, <1>2, KeepingLists, RangeOfKept
<1>7. Range(owned) \subseteq theirs
  BY <1>1, <1>5, <1>6
<1>8. kind \notin c.refused /\ ~read.truncated /\ Single => Range(owned) = theirs
  BY <1>1, <1>5, <1>6
<1> QED
  BY <1>6, <1>7, <1>8 DEF M, read, theirs, Single

\* The revisions of a deployment are its own, and the newest comes first.
LEMMA RevisionsAreBeside ==
  ASSUME NEW c, c.objects \in Seq(Thing), NEW o, NEW sets \in Seq(Thing),
         Range(sets) \subseteq {x \in Range(c.objects) : Controls(o.uid, x)}
  PROVE  Beside(c, o, RevisionGroup(sets))
<1>1. CASE sets = <<>>
  <2>1. RevisionGroup(sets) = <<>>
    BY <1>1 DEF RevisionGroup
  <2> QED
    BY <2>1, NothingIsBeside
<1>2. CASE sets # <<>>
  <2> DEFINE ahead == Newer(sets)
             sorted == Stable(sets, ahead)
             order == StableOrder(sets, ahead)
             g == RelatedGroup("Deploy Revisions", sorted, FALSE)
  <2>1. \A i \in DOMAIN sets : sets[i] \in Range(sets) /\ sets[i] \in Thing /\ sets[i].revision \in Int
    <3>1. \A i \in DOMAIN sets : sets[i] \in Range(sets) /\ sets[i] \in Thing
      BY DEF Range
    <3> QED
      BY <3>1 DEF Thing
  <2>2. \A i, k \in DOMAIN sets : <<i, k>> \in ahead <=> sets[i].revision > sets[k].revision
    BY DEF Newer
  <2> HIDE DEF ahead
  <2>3. Ranks(ahead, DOMAIN sets)
    BY <2>1, <2>2 DEF Ranks
  <2>4. /\ \A i \in DOMAIN sets : order[i] \in DOMAIN sets
        /\ \A i, k \in DOMAIN sets : i < k => <<order[k], order[i]>> \notin ahead
        /\ sorted \in Seq(Thing) /\ DOMAIN sorted = DOMAIN sets
        /\ \A i \in DOMAIN sets : sorted[i] = sets[order[i]]
    <3> HIDE DEF sorted, order
    <3> QED
      BY <2>3, StableSorts DEF sorted, order
  <2>5. RevisionGroup(sets) = <<g>>
    BY <1>2 DEF RevisionGroup, ahead
  <2>6. g.title = "Deploy Revisions" /\ g.rows = [i \in DOMAIN sorted |-> sorted[i].uid]
    BY DEF RelatedGroup
  <2> HIDE DEF g, sorted, order
  <2>7. /\ DOMAIN g.rows = DOMAIN sets /\ \A i \in DOMAIN sets : g.rows[i] = sets[order[i]].uid
    BY <2>4, <2>6
  <2>8. Range(g.rows) \subseteq {x.uid : x \in {y \in Range(c.objects) : Controls(o.uid, y)}}
    <3>1. ASSUME NEW i \in DOMAIN sets
          PROVE  g.rows[i] \in {x.uid : x \in {y \in Range(c.objects) : Controls(o.uid, y)}}
      <4>1. sets[order[i]] \in {y \in Range(c.objects) : Controls(o.uid, y)}
        BY <2>1, <2>4
      <4> QED
        BY <2>7, <4>1
    <3> QED
      BY <2>7, <3>1 DEF Range
  <2>9. \A i, k \in DOMAIN g.rows : i < k => \E x, y \in Range(c.objects) :
          x.uid = g.rows[i] /\ y.uid = g.rows[k] /\ x.revision >= y.revision
    <3>1. ASSUME NEW i \in DOMAIN sets, NEW k \in DOMAIN sets, i < k
          PROVE  \E x, y \in Range(c.objects) :
                   x.uid = g.rows[i] /\ y.uid = g.rows[k] /\ x.revision >= y.revision
      <4>1. order[i] \in DOMAIN sets /\ order[k] \in DOMAIN sets /\ <<order[k], order[i]>> \notin ahead
        BY <2>4, <3>1
      <4>2. ~(sets[order[k]].revision > sets[order[i]].revision)
        BY <2>2, <4>1
      <4>3. sets[order[i]].revision >= sets[order[k]].revision
        BY <2>1, <4>1, <4>2
      <4> QED
        BY <2>1, <2>7, <4>1, <4>3
    <3> QED
      BY <2>7, <3>1
  <2>10. Beside(c, o, <<g>>)
    BY <2>6, <2>8, <2>9, OneIsBeside
  <2> QED
    BY <2>5, <2>10
<1> QED
  BY <1>1, <1>2

\* The jobs of a cron job are its own.
LEMMA JobsAreBeside ==
  ASSUME NEW c, NEW o, NEW jobs \in Seq(Thing),
         Range(jobs) \subseteq {x \in Range(c.objects) : Controls(o.uid, x)}
  PROVE  Beside(c, o, JobGroup(jobs))
<1>1. CASE jobs = <<>>
  <2>1. JobGroup(jobs) = <<>>
    BY <1>1 DEF JobGroup
  <2> QED
    BY <2>1, NothingIsBeside
<1>2. CASE jobs # <<>>
  <2> DEFINE list == Prefix(jobs, RelatedBudget)
             g == RelatedGroup("Jobs", list, FALSE)
  <2>1. list \in Seq(Thing) /\ Range(list) \subseteq Range(jobs)
    BY PrefixIsPart, BudgetsAssumption
  <2>2. JobGroup(jobs) = <<g>>
    BY <1>2 DEF JobGroup
  <2>3. g.title = "Jobs" /\ g.rows = [i \in DOMAIN list |-> list[i].uid]
    BY DEF RelatedGroup
  <2> HIDE DEF g, list
  <2>4. Range(g.rows) = UidsOf(list)
    BY <2>1, <2>3, RowsAreUids
  <2>5. Range(g.rows) \subseteq {x.uid : x \in {y \in Range(c.objects) : Controls(o.uid, y)}}
    BY <2>1, <2>4 DEF UidsOf
  <2>6. Beside(c, o, <<g>>)
    BY <2>3, <2>5, OneIsBeside
  <2> QED
    BY <2>2, <2>6
<1> QED
  BY <1>1, <1>2

\* An object of a cluster of which pages are opened, as far as it matters.
OnPage(c, o) ==
  /\ c.objects \in Seq(Thing) /\ o \in Range(c.objects)
  /\ \A x \in Range(c.objects) : \A i, k \in DOMAIN x.owners :
       x.owners[i].controller /\ x.owners[k].controller => i = k

\* Whatever is opened is a thing, and its cluster has things with one controller.
LEMMA OpenedThings ==
  ASSUME NEW c, NEW o, OnPage(c, o)
  PROVE  /\ \A x \in Range(c.objects) :
              x \in Thing /\ x.owners \in Seq(Reference)
              /\ \A uids : ControlledBy(x, uids) <=> \E u \in uids : Controls(u, x)
         /\ o \in Thing
<1>1. \A x \in Range(c.objects) : x \in Thing
  BY DEF OnPage, Range
<1>2. \A x \in Thing : x.owners \in Seq(Reference)
  BY DEF Thing
<1>3. ASSUME NEW x \in Range(c.objects), NEW uids
      PROVE  ControlledBy(x, uids) <=> \E u \in uids : Controls(u, x)
  BY <1>1, <1>2, ControllerControls DEF OnPage
<1> QED
  BY <1>1, <1>2, <1>3 DEF OnPage

\* The pods that are kept for some controllers are those they control.
LEMMA KeptAreControlled ==
  ASSUME NEW c, NEW o, OnPage(c, o), NEW uids, NEW labels
  PROVE  \A x \in Matching(c, "Pod", o.namespace, labels) :
           x \in Range(c.objects) /\ (ControlledBy(x, uids) <=> \E u \in uids : Controls(u, x))
  BY OpenedThings DEF Matching

\* The page of a workload that owns its pods.
LEMMA WorkloadIsHonest ==
  ASSUME NEW c, NEW o, OnPage(c, o), o.kind \in PodOwners
  PROVE  Honest(c, o, PodsOwnedBy(c, o.namespace, NarrowingSelector(o), {o.uid}))
<1> DEFINE labels == NarrowingSelector(o)
           kept == {x \in Range(c.objects) : ControlledBy(x, {o.uid})}
           due == Matching(c, "Pod", o.namespace, labels) \cap kept
           groups == PodsOwnedBy(c, o.namespace, labels, {o.uid})
           heard == "Pod" \notin c.refused
           cut == Cut(c, "Pod", o)
<1>1. groups = PodGroup(c, o.namespace, labels, kept)
  BY DEF PodsOwnedBy
<1>2. PodsShown(groups, due, heard, cut)
  <2>1. PodsShown(PodGroup(c, o.namespace, labels, kept), due, "Pod" \notin c.refused,
                  ReadMatching(c, "Pod", o.namespace, labels).truncated)
    <3> HIDE DEF kept, labels
    <3> QED
      BY PodGroupShows DEF OnPage
  <2> QED
    BY <1>1, <2>1 DEF Cut
<1>3. due = {x \in Matching(c, "Pod", o.namespace, labels) : \E u \in {o.uid} : Controls(u, x)}
  <2> DEFINE M == Matching(c, "Pod", o.namespace, labels)
             own == {o.uid}
  <2>1. \A x \in M : x \in Range(c.objects)
                     /\ (ControlledBy(x, own) <=> \E u \in own : Controls(u, x))
    <3> HIDE DEF own
    <3> QED
      BY KeptAreControlled
  <2> HIDE DEF M
  <2>2. M \cap kept = {x \in M : \E u \in {o.uid} : Controls(u, x)}
    BY <2>1
  <2> QED
    BY <2>2 DEF M
<1>4. due = Due(c, o)
  <2>1. o.kind \notin {"Deployment", "Service", "Node", "PriorityClass"}
    BY DEF PodOwners
  <2> HIDE DEF due
  <2> QED
    BY <1>3, <2>1 DEF Due, Matching
<1>5. Heard(c, o) => heard
  BY DEF Heard
<1>6. o.kind \notin {"Node", "PriorityClass"}
  BY DEF PodOwners
<1> HIDE DEF groups, due, heard, cut
<1>7. Honest(c, o, groups)
  BY <1>2, <1>4, <1>5, <1>6, PodsAreHonest DEF cut
<1> QED
  BY <1>7 DEF groups

\* The page of a deployment: its revisions, and the pods of these.
LEMMA DeploymentIsHonest ==
  ASSUME NEW c, NEW o, OnPage(c, o), o.kind = "Deployment", ~BelowDeployment(c, o).failed
  PROVE  Honest(c, o, BelowDeployment(c, o).groups)
<1> DEFINE labels == NarrowingSelector(o)
           sets == OwnedObjects(c, "ReplicaSet", o, labels).objects
           uids == UidsOf(sets)
           kept == {x \in Range(c.objects) : ControlledBy(x, uids)}
           due == Matching(c, "Pod", o.namespace, labels) \cap kept
           revisions == RevisionGroup(sets)
           pods == PodsOwnedBy(c, o.namespace, labels, uids)
           heard == "Pod" \notin c.refused
           cut == Cut(c, "Pod", o)
<1>1. BelowDeployment(c, o).groups = revisions \o pods
  BY DEF BelowDeployment, Page, FailedPage
<1>2. /\ sets \in Seq(Thing) /\ Range(sets) \subseteq Revisions(c, o)
      /\ Heard(c, o) => Range(sets) = Revisions(c, o)
  <2> HIDE DEF sets
  <2>1. sets = OwnedObjects(c, "ReplicaSet", o, labels).objects
    BY DEF sets
  <2> HIDE DEF labels
  <2>2. /\ sets \in Seq(Thing)
        /\ Range(sets) \subseteq {x \in Matching(c, "ReplicaSet", o.namespace, labels) : Controls(o.uid, x)}
        /\ "ReplicaSet" \notin c.refused /\ ~ReadMatching(c, "ReplicaSet", o.namespace, labels).truncated
           => Range(sets) = {x \in Matching(c, "ReplicaSet", o.namespace, labels) : Controls(o.uid, x)}
    BY <2>1, OwnedAreControlled DEF OnPage
  <2>3. Heard(c, o) =>
          "ReplicaSet" \notin c.refused /\ ~ReadMatching(c, "ReplicaSet", o.namespace, labels).truncated
    BY DEF Heard, Cut, labels
  <2> QED
    BY <2>2, <2>3 DEF Revisions, labels
<1> HIDE DEF sets
<1>3. Range(sets) \subseteq {x \in Range(c.objects) : Controls(o.uid, x)}
  BY <1>2 DEF Revisions, Matching
<1>4. Beside(c, o, revisions)
  BY <1>2, <1>3, RevisionsAreBeside DEF OnPage
<1>5. due = {x \in Matching(c, "Pod", o.namespace, labels) : \E u \in uids : Controls(u, x)}
  <2> DEFINE M == Matching(c, "Pod", o.namespace, labels)
  <2> HIDE DEF uids
  <2>1. \A x \in M : x \in Range(c.objects)
                     /\ (ControlledBy(x, uids) <=> \E u \in uids : Controls(u, x))
    BY KeptAreControlled
  <2> HIDE DEF M
  <2>2. M \cap kept = {x \in M : \E u \in uids : Controls(u, x)}
    BY <2>1
  <2> QED
    BY <2>2 DEF M
<1>6. due = {x \in Matching(c, "Pod", o.namespace, labels) : \E s \in Range(sets) : Controls(s.uid, x)}
  BY <1>5 DEF UidsOf
<1>7. Due(c, o) = {x \in Matching(c, "Pod", o.namespace, labels) : \E s \in Revisions(c, o) : Controls(s.uid, x)}
  <2>1. o.kind \notin PodOwners
    BY DEF PodOwners
  <2> QED
    BY <2>1 DEF Due, Matching
<1> HIDE DEF due
<1>8. due \subseteq Due(c, o) /\ (Heard(c, o) => due = Due(c, o))
  BY <1>2, <1>6, <1>7
<1>9. PodsShown(pods, due, heard, cut)
  <2>1. CASE uids = {}
    <3>1. pods = <<>>
      BY <2>1 DEF PodsOwnedBy
    <3>2. due = {}
      BY <1>5, <2>1
    <3> QED
      BY <3>1, <3>2 DEF PodsShown
  <2>2. CASE uids # {}
    <3>1. pods = PodGroup(c, o.namespace, labels, kept)
      BY <2>2 DEF PodsOwnedBy
    <3>2. PodsShown(PodGroup(c, o.namespace, labels, kept), due, "Pod" \notin c.refused,
                    ReadMatching(c, "Pod", o.namespace, labels).truncated)
      <4>1. due = Matching(c, "Pod", o.namespace, labels) \cap kept
        BY DEF due
      <4> HIDE DEF kept, labels
      <4> QED
        BY <4>1, PodGroupShows DEF OnPage
    <3> QED
      BY <3>1, <3>2 DEF Cut
  <2> QED
    BY <2>1, <2>2
<1>10. Heard(c, o) => heard
  BY DEF Heard
<1> HIDE DEF pods, revisions, heard, cut
<1>11. Honest(c, o, pods)
  BY <1>8, <1>9, <1>10, PodsAreHonest DEF cut
<1> QED
  BY <1>1, <1>4, <1>11, HonestTogether

\* Pages of objects that have no pods due say what they should without any.
LEMMA NothingIsDue ==
  ASSUME NEW c, NEW o, o.kind \notin PodOwners \cup {"Deployment", "Service", "Node", "PriorityClass"}
  PROVE  Honest(c, o, <<>>)
<1>1. Due(c, o) = {}
  BY DEF Due
<1>2. \A title : Titled(<<>>, title) = {}
  BY TitledOfOne
<1>3. Uids(<<>>, "Pods") = {}
  BY <1>2 DEF Uids
<1> QED
  BY <1>1, <1>2, <1>3, NothingIsBeside DEF Honest, Beside, Whole

\* Groups beside the pods that are not due say what they should.
LEMMA BesideNothingDue ==
  ASSUME NEW c, NEW o, o.kind \notin PodOwners \cup {"Deployment", "Service", "Node", "PriorityClass"},
         NEW groups, Beside(c, o, groups)
  PROVE  Honest(c, o, groups)
<1>1. Due(c, o) = {}
  BY DEF Due
<1>2. Titled(groups, "Pods") = {}
  BY DEF Beside
<1>3. Uids(groups, "Pods") = {}
  BY <1>2 DEF Uids
<1> QED
  BY <1>1, <1>2, <1>3 DEF Honest, Beside, Whole

\* The page of a cron job: its jobs.
LEMMA CronJobIsHonest ==
  ASSUME NEW c, NEW o, OnPage(c, o), o.kind = "CronJob", ~BelowCronJob(c, o).failed
  PROVE  Honest(c, o, BelowCronJob(c, o).groups)
<1> DEFINE jobs == OwnedObjects(c, "Job", o, {}).objects
           groups == JobGroup(jobs)
<1>1. BelowCronJob(c, o).groups = groups
  BY DEF BelowCronJob, Page, FailedPage
<1>2. /\ jobs \in Seq(Thing)
      /\ Range(jobs) \subseteq {x \in Matching(c, "Job", o.namespace, {}) : Controls(o.uid, x)}
  <2> DEFINE labels == {}
  <2>1. jobs = OwnedObjects(c, "Job", o, labels).objects
    OBVIOUS
  <2> HIDE DEF jobs, labels
  <2>2. /\ jobs \in Seq(Thing)
        /\ Range(jobs) \subseteq {x \in Matching(c, "Job", o.namespace, labels) : Controls(o.uid, x)}
    BY <2>1, OwnedAreControlled DEF OnPage
  <2> QED
    BY <2>2 DEF labels
<1> HIDE DEF jobs
<1>3. Range(jobs) \subseteq {x \in Range(c.objects) : Controls(o.uid, x)}
  BY <1>2 DEF Matching
<1>4. Beside(c, o, groups)
  BY <1>2, <1>3, JobsAreBeside
<1> HIDE DEF groups
<1>5. o.kind \notin PodOwners \cup {"Deployment", "Service", "Node", "PriorityClass"}
  BY DEF PodOwners
<1> QED
  BY <1>1, <1>4, <1>5, BesideNothingDue

\* The page of a service: the pods it selects.
LEMMA ServiceIsHonest ==
  ASSUME NEW c, NEW o, OnPage(c, o), o.kind = "Service"
  PROVE  Honest(c, o, BelowService(c, o).groups)
<1> DEFINE labels == NarrowingSelector(o)
           M == Matching(c, "Pod", o.namespace, labels)
           all == Range(c.objects)
           heard == "Pod" \notin c.refused
           cut == Cut(c, "Pod", o)
           groups == BelowService(c, o).groups
<1>1. Due(c, o) = IF labels = {} THEN {} ELSE M \cap all
  <2>1. o.kind \notin PodOwners
    BY DEF PodOwners
  <2>2. M \subseteq all
    BY DEF Matching
  <2>3. Due(c, o) = {p \in all : p \in M /\ labels # {}}
    BY <2>1 DEF Due
  <2> HIDE DEF M, all, labels
  <2> QED
    BY <2>2, <2>3
<1>2. PodsShown(groups, Due(c, o), heard, cut)
  <2>1. CASE labels = {}
    <3>1. groups = <<>>
      BY <2>1 DEF BelowService, ServiceSelector, Page
    <3> QED
      BY <1>1, <2>1, <3>1 DEF PodsShown
  <2>2. CASE labels # {}
    <3>1. ServiceSelector(o) = o.selector /\ o.selector # <<>> /\ o.selector[1] = labels
      BY <2>2 DEF ServiceSelector, NarrowingSelector
    <3>2. groups = PodGroup(c, o.namespace, labels, all)
      BY <3>1 DEF BelowService, Page, PodsMatching
    <3>3. PodsShown(PodGroup(c, o.namespace, labels, all), Due(c, o), "Pod" \notin c.refused,
                    ReadMatching(c, "Pod", o.namespace, labels).truncated)
      <4>1. Due(c, o) = Matching(c, "Pod", o.namespace, labels) \cap all
        BY <1>1, <2>2
      <4> HIDE DEF labels, all
      <4> QED
        BY <4>1, PodGroupShows DEF OnPage
    <3> QED
      BY <3>2, <3>3 DEF Cut
  <2> QED
    BY <2>1, <2>2
<1>3. (Heard(c, o) => heard) /\ o.kind \notin {"Node", "PriorityClass"}
  BY DEF Heard
<1> HIDE DEF groups, heard, cut, labels
<1>4. Honest(c, o, groups)
  BY <1>2, <1>3, PodsAreHonest DEF cut
<1> QED
  BY <1>4 DEF groups

\* Pods that the server selects, or that are looked for until enough are found.
LEMMA SelectedAreHonest ==
  ASSUME NEW c, NEW o, OnPage(c, o), o.kind \in {"Node", "PriorityClass"}, NEW kept, NEW found,
         NEW truncated \in BOOLEAN, found = Keeping(c.objects, kept), Range(c.objects) \cap kept = Due(c, o),
         ~truncated => Len(found) <= RelatedBudget
  PROVE  Honest(c, o, RenderPods(Prefix(found, RelatedBudget), truncated))
<1> DEFINE pods == Prefix(found, RelatedBudget)
           groups == RenderPods(pods, truncated)
           due == Due(c, o)
           heard == "Pod" \notin c.refused
           cut == FALSE
<1>1. found \in Seq(Thing) /\ Range(found) = due
  BY KeepingLists, RangeOfKept DEF OnPage
<1>2. RelatedBudget \in Nat /\ RelatedBudget # 0
  BY BudgetsAssumption
<1>3. /\ pods \in Seq(Thing) /\ Range(pods) \subseteq Range(found)
      /\ Len(found) <= RelatedBudget => pods = found
      /\ found # <<>> => pods # <<>>
  BY <1>1, <1>2, PrefixIsPart
<1>4. found = <<>> => Range(found) = {}
  BY DEF Range
<1> HIDE DEF pods, due, heard, cut
<1>5. /\ Range(pods) \subseteq due
      /\ heard /\ ~truncated => Range(pods) = due
      /\ heard /\ ~cut /\ pods = <<>> => due = {}
  BY <1>1, <1>3, <1>4
<1>6. PodsShown(groups, due, heard, cut)
  BY <1>3, <1>5, RenderedPods
<1>7. (Heard(c, o) => heard) /\ ~cut
  BY DEF Heard, heard, cut
<1> HIDE DEF groups
<1>8. Honest(c, o, groups)
  BY <1>6, <1>7, PodsAreHonest DEF due
<1> QED
  BY <1>8 DEF groups, pods

\* The page of a node: the pods on it.
LEMMA NodeIsHonest ==
  ASSUME NEW c, NEW o, OnPage(c, o), o.kind = "Node"
  PROVE  Honest(c, o, PodsOnNode(c, o.name))
<1> DEFINE kept == {x \in Range(c.objects) : x.kind = "Pod" /\ x.node = o.name}
           found == Keeping(c.objects, kept)
           truncated == Len(found) > RelatedBudget
<1>1. Range(c.objects) \cap kept = Due(c, o)
  BY DEF Due, PodOwners
<1>2. PodsOnNode(c, o.name) = RenderPods(Prefix(found, RelatedBudget), truncated)
  BY DEF PodsOnNode
<1> HIDE DEF kept
<1>3. found \in Seq(Thing)
  BY KeepingLists DEF OnPage
<1> HIDE DEF found
<1>4. truncated \in BOOLEAN /\ (~truncated => Len(found) <= RelatedBudget)
  BY <1>3, BudgetsAssumption
<1> HIDE DEF truncated
<1> QED
  BY <1>1, <1>2, <1>4, SelectedAreHonest DEF found

\* The page of a priority class: the pods that have it.
LEMMA PriorityClassIsHonest ==
  ASSUME NEW c, NEW o, OnPage(c, o), o.kind = "PriorityClass"
  PROVE  Honest(c, o, PodsWithPriorityClass(c, o.name))
<1> DEFINE kept == {x \in Range(c.objects) : x.kind = "Pod" /\ x.priority = o.name}
           found == Keeping(c.objects, kept)
           truncated == Len(found) >= RelatedBudget
<1>1. Range(c.objects) \cap kept = Due(c, o)
  BY DEF Due, PodOwners
<1>2. PodsWithPriorityClass(c, o.name) = RenderPods(Prefix(found, RelatedBudget), truncated)
  BY DEF PodsWithPriorityClass
<1> HIDE DEF kept
<1>3. found \in Seq(Thing)
  BY KeepingLists DEF OnPage
<1> HIDE DEF found
<1>4. truncated \in BOOLEAN /\ (~truncated => Len(found) <= RelatedBudget)
  BY <1>3, BudgetsAssumption
<1> HIDE DEF truncated
<1> QED
  BY <1>1, <1>2, <1>4, SelectedAreHonest DEF found

\* What a page has below its object says what it should, kind by kind.
LEMMA BelowIsHonest ==
  ASSUME NEW c, NEW o, OnPage(c, o), ~Below(c, o).failed
  PROVE  Honest(c, o, Below(c, o).groups)
<1>1. \A groups : Page(groups).groups = groups
  BY DEF Page
<1>2. FailedPage.failed
  BY DEF FailedPage
<1>3. /\ \A k \in PodOwners : k \notin {"Deployment", "CronJob", "Service", "Node", "PriorityClass"}
      /\ "Deployment" \notin PodOwners
  BY DEF PodOwners
<1>4. CASE o.kind = "Deployment"
  <2>1. Below(c, o) = BelowDeployment(c, o)
    BY <1>3, <1>4 DEF Below
  <2> QED
    BY <1>4, <2>1, DeploymentIsHonest
<1>5. CASE o.kind \in PodOwners
  <2>1. Below(c, o) = Page(PodsOwnedBy(c, o.namespace, NarrowingSelector(o), {o.uid}))
    BY <1>3, <1>5 DEF Below
  <2> QED
    BY <1>1, <1>5, <2>1, WorkloadIsHonest
<1>6. CASE o.kind = "CronJob"
  <2>1. Below(c, o) = BelowCronJob(c, o)
    BY <1>3, <1>6 DEF Below
  <2> QED
    BY <1>6, <2>1, CronJobIsHonest
<1>7. CASE o.kind = "Service"
  <2>1. Below(c, o) = BelowService(c, o)
    BY <1>3, <1>7 DEF Below
  <2> QED
    BY <1>7, <2>1, ServiceIsHonest
<1>8. CASE o.kind = "Node"
  <2>1. Below(c, o) = IF "Pod" \in c.refused THEN FailedPage ELSE Page(PodsOnNode(c, o.name))
    BY <1>3, <1>8 DEF Below
  <2>2. Below(c, o).groups = PodsOnNode(c, o.name)
    BY <1>1, <1>2, <2>1
  <2> QED
    BY <1>8, <2>2, NodeIsHonest
<1>9. CASE o.kind = "PriorityClass"
  <2>1. Below(c, o) = IF "Pod" \in c.refused THEN FailedPage ELSE Page(PodsWithPriorityClass(c, o.name))
    BY <1>3, <1>9 DEF Below
  <2>2. Below(c, o).groups = PodsWithPriorityClass(c, o.name)
    BY <1>1, <1>2, <2>1
  <2> QED
    BY <1>9, <2>2, PriorityClassIsHonest
<1>10. CASE o.kind \notin PodOwners \cup {"Deployment", "CronJob", "Service", "Node", "PriorityClass"}
  <2>1. Below(c, o) = Page(<<>>)
    BY <1>10 DEF Below
  <2> QED
    BY <1>1, <1>10, <2>1, NothingIsDue
<1> QED
  BY <1>4, <1>5, <1>6, <1>7, <1>8, <1>9, <1>10

\* A page that is shown says what it should, and one that failed says nothing.
LEMMA RelatedIsHonest ==
  ASSUME NEW c, NEW o, OnPage(c, o)
  PROVE  /\ ~Related(c, o).failed => Honest(c, o, Related(c, o).groups)
         /\ Related(c, o).failed => Beside(c, o, Related(c, o).groups)
<1> DEFINE below == Below(c, o)
<1>1. /\ FailedPage.failed /\ FailedPage.groups = <<>>
      /\ \A groups : ~Page(groups).failed /\ Page(groups).groups = groups
  BY DEF FailedPage, Page
<1>2. Related(c, o) = IF o.kind \in c.refused \/ below.failed THEN FailedPage
                      ELSE Page(OwnerGroup(c, o) \o below.groups)
  BY DEF Related
<1>3. CASE o.kind \in c.refused \/ below.failed
  BY <1>1, <1>2, <1>3, NothingIsBeside
<1>4. CASE ~(o.kind \in c.refused \/ below.failed)
  <2>1. Honest(c, o, below.groups)
    BY <1>4, BelowIsHonest
  <2>2. Beside(c, o, OwnerGroup(c, o))
    BY OwnersAreBeside, OpenedThings DEF OnPage
  <2> HIDE DEF below
  <2>3. Honest(c, o, OwnerGroup(c, o) \o below.groups)
    BY <2>1, <2>2, HonestTogether
  <2> QED
    BY <1>1, <1>2, <1>4, <2>3
<1> QED
  BY <1>3, <1>4

\* Every page that is opened, of any object of any cluster, lists what belongs
\* to its object and nothing else.
LEMMA PageStep ==
  ASSUME OpenPage
  PROVE  PageBelongs'
<1>1. PICK q \in Visits : visited' = <<[of |-> q, page |-> Related(q.cluster, q.object)]>>
  BY DEF OpenPage
<1> DEFINE c == q.cluster
           o == q.object
           page == Related(c, o)
<1>2. visited'[1].of = q /\ visited'[1].page = page
  BY <1>1
<1>3. OnPage(c, o)
  BY VisitsAssumption DEF OnPage
<1>4. /\ ~page.failed => Honest(c, o, page.groups)
      /\ page.failed => Beside(c, o, page.groups)
  BY <1>3, RelatedIsHonest
<1> HIDE DEF page, c, o
<1>5. Belongs(c, o, page.groups) /\ InOrder(c, page.groups)
  BY <1>4 DEF Honest, Beside
<1>6. /\ ~page.failed /\ {"Pod", "ReplicaSet"} \cap c.refused = {}
      /\ o.kind = "Deployment" => ~Cut(c, "ReplicaSet", o)
      => Whole(c, o, page.groups)
  BY <1>4 DEF Honest, Heard
<1> QED
  BY <1>2, <1>5, <1>6 DEF PageBelongs, c, o

\* related.go:50, related.go:173: pages list by identity, whatever the labels
\* and the names say, for every cluster and every object of it.
THEOREM PageAlwaysBelongs == PagesSpec => []PageBelongs
<1>1. PagesInit => PageBelongs
  BY DEF PagesInit, PageBelongs
<1>2. PageBelongs /\ [OpenPage]_visited => PageBelongs'
  <2>1. CASE OpenPage
    BY <2>1, PageStep
  <2>2. CASE UNCHANGED visited
    BY <2>2 DEF PageBelongs
  <2> QED
    BY <2>1, <2>2
<1> QED
  BY <1>1, <1>2, PTL DEF PagesSpec

-----------------------------------------------------------------------------
(* What a gate says (ArgoGate).                                            *)

\* A listing that is cut at its budget is a part of it, and says so.
LEMMA ListedIsPart ==
  ASSUME NEW T, NEW list \in Seq(T), NEW listed, listed = ListPaged(list)
  PROVE  /\ listed.apps \in Seq(T) /\ Range(listed.apps) \subseteq Range(list)
         /\ listed.truncated = (Len(list) > ListingBudget)
         /\ Len(list) <= ListingBudget => listed.apps = list
<1>1. Len(list) \in Nat /\ ListingBudget \in Nat
  BY ListingAssumption
<1>2. /\ listed.apps = SubSeq(list, 1, IF Len(list) > ListingBudget THEN ListingBudget ELSE Len(list))
      /\ listed.truncated = (Len(list) > ListingBudget)
  BY DEF ListPaged
<1>3. (IF Len(list) > ListingBudget THEN ListingBudget ELSE Len(list))
        = (IF Len(list) < ListingBudget THEN Len(list) ELSE ListingBudget)
  BY <1>1
<1>4. listed.apps = Prefix(list, ListingBudget)
  BY <1>2, <1>3 DEF Prefix
<1>5. /\ Prefix(list, ListingBudget) \in Seq(T)
      /\ Range(Prefix(list, ListingBudget)) \subseteq Range(list)
      /\ Len(list) <= ListingBudget => Prefix(list, ListingBudget) = list
  BY <1>1, PrefixIsPart
<1> QED
  BY <1>2, <1>4, <1>5

\* What a search knows of the Applications of a cluster: it is complete when it
\* has all of them, and in doubt, for a reason, when it is not.
Knows(search, c) ==
  /\ search \in Found({search.apps}, {search.uncertainty}, {search.probes})
  /\ search.apps \in Seq(Applications) /\ Range(search.apps) \subseteq Range(c.apps)
  /\ search.installed = "no" <=> TakenAbsent(c)
  /\ search.complete /\ ~TakenAbsent(c) => AllListed(c)
  /\ AllListed(c) /\ ~TakenAbsent(c) => search.complete /\ search.apps = c.apps
  /\ search.uncertainty \in Uncertainties
  /\ ~search.complete => search.uncertainty # ""

\* How a search ends.
Ends(found, apps, complete, installed, uncertainty) ==
  /\ found \in Found({found.apps}, {found.uncertainty}, {found.probes})
  /\ found.apps = apps /\ found.complete = complete
  /\ found.installed = installed /\ found.uncertainty = uncertainty

\* The search of the whole cluster.
LEMMA WideKnows ==
  ASSUME NEW c, c.apps \in Seq(Applications), c.indexed \in BOOLEAN, c.connected \in BOOLEAN
  PROVE  Knows(SearchCluster(c), c)
<1> DEFINE search == Search(Installation(c))
           listed == ListPaged(c.apps)
           found == [search EXCEPT !.installed = "yes", !.apps = listed.apps]
           result == SearchCluster(c)
           off == ~c.indexed /\ c.groups # {} /\ "argoproj.io" \notin c.groups
<1>1. Installation(c) \in Installations /\ (Installation(c) = "no" <=> off)
  BY DEF Installation, Installations
<1>2. search.installed = Installation(c)
  BY DEF Search
<1>3. /\ listed.apps \in Seq(Applications) /\ Range(listed.apps) \subseteq Range(c.apps)
      /\ listed.truncated = (Len(c.apps) > ListingBudget)
      /\ Len(c.apps) <= ListingBudget => listed.apps = c.apps
  BY ListedIsPart
<1>4. Len(c.apps) \in Nat /\ ListingBudget \in Nat
  BY ListingAssumption
<1>5. <<>> \in Seq(Applications) /\ Range(<<>>) = {}
  BY DEF Range
<1>6. TakenAbsent(c) <=> off \/ (c.connected /\ c.wide = "not found")
  BY DEF TakenAbsent, Unnamed
<1> HIDE DEF listed, off
<1>7. CASE off
  <2>1. Ends(result, <<>>, TRUE, "no", "")
    <3>1. result = NotInstalled(search, "cluster")
      BY <1>1, <1>2, <1>7 DEF SearchCluster
    <3>2. PICK probes : result = [search EXCEPT !.installed = "no", !.complete = TRUE,
                                  !.probes = probes]
      BY <3>1 DEF NotInstalled
    <3> QED
      BY <3>2, <1>1 DEF Search, Ends, Found, Installations
  <2> HIDE DEF result
  <2>2. Knows(result, c)
    BY <1>5, <1>6, <1>7, <2>1 DEF Knows, Ends, Uncertainties
  <2> QED
    BY <2>2 DEF result
<1>8. CASE ~off /\ ~c.connected
  <2>1. Ends(result, <<>>, FALSE, Installation(c), "unreachable")
    <3>1. PICK probes : result = [search EXCEPT !.uncertainty = "unreachable", !.probes = probes]
      BY <1>1, <1>2, <1>8 DEF SearchCluster
    <3> QED
      BY <3>1, <1>1 DEF Search, Ends, Found, Installations
  <2> HIDE DEF result
  <2>2. Knows(result, c)
    BY <1>1, <1>5, <1>6, <1>8, <2>1 DEF Knows, Ends, Uncertainties, AllListed
  <2> QED
    BY <2>2 DEF result
<1>9. CASE ~off /\ c.connected /\ c.wide # "ok"
  <2>1. result = ListingRefused(search, "cluster", c.wide)
    BY <1>1, <1>2, <1>9 DEF SearchCluster
  <2>2. CASE c.wide = "not found"
    <3>1. Ends(result, <<>>, TRUE, "no", "")
      <4>1. PICK probes : result = [search EXCEPT !.installed = "no", !.complete = TRUE,
                                    !.probes = probes]
        BY <2>1, <2>2 DEF ListingRefused, NotInstalled
      <4> QED
        BY <4>1, <1>1 DEF Search, Ends, Found, Installations
    <3> HIDE DEF result
    <3>2. Knows(result, c)
      BY <1>5, <1>6, <1>9, <2>2, <3>1 DEF Knows, Ends, Uncertainties
    <3> QED
      BY <3>2 DEF result
  <2>3. CASE c.wide # "not found"
    <3>1. PICK doubt \in {"forbidden", "timeout", "unreachable"} :
            Ends(result, <<>>, FALSE, Installation(c), doubt)
      <4> DEFINE doubt == IF c.wide \in {"forbidden", "timeout"} THEN c.wide ELSE "unreachable"
      <4>1. PICK probes : result = [search EXCEPT !.probes = probes,
                                    !.uncertainty = doubt]
        BY <2>1, <2>3 DEF ListingRefused
      <4>2. doubt \in {"forbidden", "timeout", "unreachable"}
        OBVIOUS
      <4> HIDE DEF doubt
      <4> QED
        BY <4>1, <4>2, <1>1 DEF Search, Ends, Found, Installations
    <3> HIDE DEF result
    <3>2. Knows(result, c)
      BY <1>1, <1>5, <1>6, <1>9, <2>3, <3>1 DEF Knows, Ends, Uncertainties, AllListed
    <3> QED
      BY <3>2 DEF result
  <2> QED
    BY <2>2, <2>3
<1>10. CASE ~off /\ c.connected /\ c.wide = "ok"
  <2>1. ~TakenAbsent(c)
    BY <1>6, <1>10
  <2>2. result = IF listed.truncated
                 THEN [found EXCEPT !.uncertainty = "incomplete", !.probes = Probe("cluster", "truncated")]
                 ELSE [found EXCEPT !.complete = TRUE, !.probes = Probe("cluster", "ok")]
    BY <1>1, <1>2, <1>10 DEF SearchCluster, listed
  <2>3. CASE Len(c.apps) > ListingBudget
    <3>1. ~(Len(c.apps) <= ListingBudget)
      BY <1>4, <2>3
    <3>2. Ends(result, listed.apps, FALSE, "yes", "incomplete")
      <4>1. PICK probes : result = [found EXCEPT !.uncertainty = "incomplete", !.probes = probes]
        BY <1>3, <2>2, <2>3
      <4> QED
        BY <4>1, <1>1 DEF Search, Ends, Found, Installations
    <3> HIDE DEF result, found
    <3>3. Knows(result, c)
      BY <1>3, <2>1, <3>1, <3>2 DEF Knows, Ends, Uncertainties, AllListed
    <3> QED
      BY <3>3 DEF result
  <2>4. CASE ~(Len(c.apps) > ListingBudget)
    <3>1. Len(c.apps) <= ListingBudget
      BY <1>4, <2>4
    <3>2. Ends(result, listed.apps, TRUE, "yes", "")
      <4>1. PICK probes : result = [found EXCEPT !.complete = TRUE, !.probes = probes]
        BY <1>3, <2>2, <2>4
      <4> QED
        BY <4>1, <1>1 DEF Search, Ends, Found, Installations
    <3> HIDE DEF result, found
    <3>3. Knows(result, c)
      BY <1>3, <1>10, <2>1, <3>1, <3>2 DEF Knows, Ends, Uncertainties, AllListed
    <3> QED
      BY <3>3 DEF result
  <2> QED
    BY <2>3, <2>4
<1> QED
  BY <1>7, <1>8, <1>9, <1>10

\* The search of one namespace beside it finds no less, and completes nothing.
LEMMA NearKnows ==
  ASSUME NEW c, c.apps \in Seq(Applications), NEW namespace \in Nat, namespace # 0,
         NEW wide, Knows(wide, c), wide.installed # "no", ~wide.complete
  PROVE  LET near == SearchNamespace(c, namespace, wide)
         IN  /\ Knows(near, c)
             /\ NearListed(c, namespace) => Neighbours(c, namespace) \subseteq Range(near.apps)
<1> DEFINE near == SearchNamespace(c, namespace, wide)
           beside == Keeping(c.apps, Neighbours(c, namespace))
           listed == ListPaged(beside)
           places == {i \in DOMAIN c.apps : c.apps[i].namespace = namespace}
<1>1. /\ wide \in Found({wide.apps}, {wide.uncertainty}, {wide.probes})
      /\ wide.apps \in Seq(Applications) /\ Range(wide.apps) \subseteq Range(c.apps)
      /\ ~TakenAbsent(c) /\ ~AllListed(c)
      /\ wide.uncertainty \in Uncertainties /\ wide.uncertainty # ""
  BY DEF Knows
<1>2. /\ beside \in Seq(Applications)
      /\ Range(beside) = Neighbours(c, namespace)
  <2>1. Range(beside) = Range(c.apps) \cap Neighbours(c, namespace)
    BY RangeOfKept
  <2> QED
    BY <2>1, KeepingLists DEF Neighbours
<1>3. Len(beside) = Cardinality(places)
  <2>1. {i \in DOMAIN c.apps : c.apps[i] \in Neighbours(c, namespace)} = places
    BY DEF Neighbours, Range
  <2>2. /\ InTurn(places) \in [1..Cardinality(places) -> places] /\ Cardinality(places) \in Nat
    BY PlacesAreFinite, InTurnComes
  <2>3. beside = [i \in DOMAIN InTurn(places) |-> c.apps[InTurn(places)[i]]]
    BY <2>1 DEF Keeping
  <2> HIDE DEF places, beside
  <2>4. DOMAIN beside = 1..Cardinality(places)
    BY <2>2, <2>3
  <2> QED
    BY <1>2, <2>2, <2>4
<1> HIDE DEF beside
<1>4. /\ listed.apps \in Seq(Applications) /\ Range(listed.apps) \subseteq Range(beside)
      /\ Len(beside) <= ListingBudget => listed.apps = beside
  BY <1>2, ListedIsPart
<1>5. CASE ~c.connected \/ c.near # "ok"
  <2>1. near = wide \/ \E probes : near = [wide EXCEPT !.probes = probes]
    BY <1>5 DEF SearchNamespace
  <2>2. Ends(near, wide.apps, FALSE, wide.installed, wide.uncertainty)
    BY <1>1, <2>1 DEF Ends, Found
  <2> HIDE DEF near
  <2>3. Knows(near, c) /\ ~NearListed(c, namespace)
    BY <1>1, <1>5, <2>2 DEF Knows, Ends, NearListed
  <2> QED
    BY <2>3 DEF near
<1>6. CASE c.connected /\ c.near = "ok"
  <2>1. PICK probes : near = [wide EXCEPT !.apps = wide.apps \o listed.apps, !.installed = "yes",
                                          !.probes = probes]
    BY <1>6 DEF SearchNamespace, beside, Neighbours
  <2> DEFINE both == wide.apps \o listed.apps
  <2>2. both \in Seq(Applications) /\ Range(both) = Range(wide.apps) \cup Range(listed.apps)
    <3> DEFINE more == listed.apps
    <3>1. wide.apps \in Seq(Applications) /\ more \in Seq(Applications)
      BY <1>1, <1>4
    <3> HIDE DEF more, listed
    <3>2. (wide.apps \o more) \in Seq(Applications)
      BY <3>1
    <3>3. Range(wide.apps \o more) = Range(wide.apps) \cup Range(more)
      BY <3>1, RangeOfBoth
    <3> QED
      BY <3>2, <3>3 DEF more
  <2> HIDE DEF both, listed
  <2>3. Ends(near, both, FALSE, "yes", wide.uncertainty)
    BY <1>1, <2>1 DEF Ends, Found, Installations, both
  <2> HIDE DEF near
  <2>4. Range(both) \subseteq Range(c.apps)
    BY <1>1, <1>2, <1>4, <2>2 DEF Neighbours
  <2>5. Knows(near, c)
    BY <1>1, <2>2, <2>3, <2>4 DEF Knows, Ends
  <2>6. NearListed(c, namespace) => Neighbours(c, namespace) \subseteq Range(near.apps)
    BY <1>2, <1>3, <1>4, <2>2, <2>3 DEF NearListed, Ends
  <2> QED
    BY <2>5, <2>6 DEF near
<1> QED
  BY <1>5, <1>6

\* What is known when nothing is remembered.
LEMMA SearchKnows ==
  ASSUME NEW q \in GateRequests
  PROVE  /\ Knows(SearchFor(q), q.cluster)
         /\ NearListed(q.cluster, Landing(q).namespace) /\ ~TakenAbsent(q.cluster) =>
              Neighbours(q.cluster, Landing(q).namespace) \subseteq Range(SearchFor(q).apps)
<1> DEFINE c == q.cluster
           namespace == Landing(q).namespace
           none == [k \in {} |-> {}]
           wide == SearchCluster(c)
           kept == Remembering(none, <<>>, wide)
           near == SearchNamespace(c, namespace, wide)
<1>1. /\ c.apps \in Seq(Applications) /\ c.indexed \in BOOLEAN /\ c.connected \in BOOLEAN
      /\ namespace \in Nat
  BY RequestsAssumption DEF Identities
<1>2. Knows(wide, c)
  BY <1>1, WideKnows
<1>3. Cached(none, <<>>, wide) = wide /\ DOMAIN kept = {<<>>}
  BY DEF Cached, Remembering
<1>4. Cached(kept, <<namespace>>, near) = near
  <2>1. <<namespace>> \notin {<<>>}
    OBVIOUS
  <2> HIDE DEF kept, near, namespace
  <2> QED
    BY <1>3, <2>1 DEF Cached
<1>5. SearchFor(q) = IF wide.complete \/ namespace = 0 \/ wide.installed = "no" THEN wide ELSE near
  <2> HIDE DEF wide, kept, near, namespace, none
  <2> QED
    BY <1>3, <1>4 DEF SearchFor, Discover, wide, kept, near, namespace, none
<1>6. CASE wide.complete \/ namespace = 0 \/ wide.installed = "no"
  <2>1. SearchFor(q) = wide
    BY <1>5, <1>6
  <2>2. NearListed(c, namespace) /\ ~TakenAbsent(c) => Neighbours(c, namespace) \subseteq Range(wide.apps)
    <3> HIDE DEF wide, namespace
    <3> QED
      BY <1>2, <1>6 DEF Knows, NearListed, Neighbours
  <2> QED
    BY <1>2, <2>1, <2>2
<1>7. CASE ~(wide.complete \/ namespace = 0 \/ wide.installed = "no")
  <2>1. SearchFor(q) = near
    BY <1>5, <1>7
  <2>2. /\ Knows(near, c)
        /\ NearListed(c, namespace) => Neighbours(c, namespace) \subseteq Range(near.apps)
    BY <1>1, <1>2, <1>7, NearKnows
  <2> QED
    BY <2>1, <2>2
<1> QED
  BY <1>6, <1>7

\* What a gate says, of what was found of those who speak for the object.
LEMMA GateFollows ==
  ASSUME NEW q \in GateRequests, NEW search, Knows(search, q.cluster),
         NearListed(q.cluster, Landing(q).namespace) /\ ~TakenAbsent(q.cluster) =>
           Neighbours(q.cluster, Landing(q).namespace) \subseteq Range(search.apps),
         NEW gate, gate \in Gates,
         gate.allowed = (gate.status = "unmanaged"), gate.managed = (gate.status = "managed"),
         gate.status = "unknown" => gate.uncertainty # "",
         search.installed = "no" => gate.allowed,
         gate.allowed /\ search.installed # "no" =>
           search.complete /\ Speakers(q) \cap Range(search.apps) = {},
         search.installed # "no" /\ Speakers(q) \cap Range(search.apps) # {} => gate.managed,
         gate.managed =>
           \E a \in Speakers(q) \cap Range(search.apps) : gate.app = <<a.namespace, a.name>>
  PROVE  GateSound(q, gate)
<1>1. Speakers(q) \subseteq Range(q.cluster.apps)
  BY DEF Speakers
<1>2. gate.allowed /\ ~Unreliable(q.cluster) =>
        ~q.cluster.serves \/ (AllListed(q.cluster) /\ Speakers(q) = {})
  <2>1. gate.allowed => TakenAbsent(q.cluster) \/ (AllListed(q.cluster) /\ Speakers(q) = {})
    BY <1>1 DEF Knows
  <2>2. TakenAbsent(q.cluster) /\ ~Unreliable(q.cluster) => ~q.cluster.serves
    BY RequestsAssumption DEF TakenAbsent, Unreliable
  <2> QED BY <2>1, <2>2
<1>3. TakenAbsent(q.cluster) => gate.allowed
  BY DEF Knows
<1>4. AllListed(q.cluster) /\ ~TakenAbsent(q.cluster) /\ Speakers(q) # {} => gate.managed
  BY <1>1 DEF Knows
<1>5. /\ NearListed(q.cluster, Landing(q).namespace) /\ ~TakenAbsent(q.cluster)
      /\ Speakers(q) \cap Neighbours(q.cluster, Landing(q).namespace) # {}
      => gate.managed
  BY DEF Knows
<1>6. gate.managed => \E a \in Speakers(q) : gate.app = <<a.namespace, a.name>>
  OBVIOUS
<1> QED
  BY <1>2, <1>3, <1>4, <1>5, <1>6 DEF GateSound

\* An Application goes by its namespace and its name.
LEMMA AppIsNamed ==
  ASSUME NEW apps, apps \subseteq Applications, NEW a \in apps
  PROVE  <<a.namespace, a.name>> \in {<<>>} \cup (Nat \X Nat)
  BY DEF Applications

\* What was found are Applications of the cluster, of different names.
LEMMA NamedInCluster ==
  ASSUME NEW q \in GateRequests, NEW search, Knows(search, q.cluster)
  PROVE  Range(search.apps) \subseteq Applications /\ Named(Range(search.apps))
<1>1. q.cluster.apps \in Seq(Applications)
  BY RequestsAssumption
<1>2. Range(q.cluster.apps) \subseteq Applications
  BY <1>1 DEF Range
<1>3. Range(search.apps) \subseteq Range(q.cluster.apps)
  BY DEF Knows
<1>4. \A a, b \in Range(q.cluster.apps) : a.namespace = b.namespace /\ a.name = b.name => a = b
  BY RequestsAssumption
<1>5. \A a \in Applications : a.namespace \in Nat /\ a.name \in Nat
  BY DEF Applications
<1> QED
  BY <1>2, <1>3, <1>4, <1>5 DEF Named

\* Those who speak for an object rank as its owners, and nobody else does.
LEMMA SpeakersOwn ==
  ASSUME NEW q, q.of = "owner", NEW a \in Applications, a \in Range(q.cluster.apps)
  PROVE  a \in Speakers(q) <=> OwnerRank(a, q.object) \in {2, 3}
<1> DEFINE tracked == TrackedBy(q.object) \cap AppNames(a)
<1>1. AppNames(a) = {<<a.name>>, <<a.namespace, a.name>>}
  BY DEF AppNames, Applications
<1>2. tracked # {} <=> Marked(q.object, a)
  BY <1>1 DEF TrackedBy, Marked, Identify
<1>3. OwnerRank(a, q.object) \in {2, 3} <=> tracked # {} \/ q.object.id \in a.resources
  BY DEF OwnerRank, ListsResource, Identify
<1> QED
  BY <1>2, <1>3 DEF Speakers

\* The gate of an object that is there.
LEMMA OwnerGate ==
  ASSUME NEW q \in GateRequests, q.of = "owner"
  PROVE  GateSound(q, GateOf(q))
<1> DEFINE search == SearchFor(q)
           owner == ResolveOwnership(q.object, search.apps)
           all == Range(search.apps)
           gate == GateOf(q)
           settled == Settle(owner, search)
<1>1. /\ Knows(search, q.cluster)
      /\ NearListed(q.cluster, Landing(q).namespace) /\ ~TakenAbsent(q.cluster) =>
           Neighbours(q.cluster, Landing(q).namespace) \subseteq all
  BY SearchKnows
<1>2. all \subseteq Applications /\ Named(all)
  BY <1>1, NamedInCluster
<1>3. all \subseteq Range(q.cluster.apps)
  BY <1>1 DEF Knows
<1>4. \A a \in all : a \in Speakers(q) <=> OwnerRank(a, q.object) \in {2, 3}
  BY <1>2, <1>3, SpeakersOwn
<1>5. search.uncertainty \in Uncertainties /\ (~search.complete => search.uncertainty # "")
  BY <1>1 DEF Knows
<1>6. gate = GateForOwnership(Ownership(q.object, search))
  BY DEF GateOf
<1>7. CASE search.installed = "no"
  <2>1. /\ gate.status = "unmanaged" /\ gate.uncertainty = "" /\ gate.app = <<>>
        /\ gate.managed = FALSE /\ gate.allowed = TRUE /\ gate.claim = "none" /\ gate \in Gates
    <3> DEFINE own == Ownership(q.object, search)
    <3>1. own.status = "unmanaged" /\ own.uncertainty = "" /\ own.app = <<>>
      BY <1>7 DEF Ownership
    <3> HIDE DEF gate, search, own
    <3>2. gate = [status |-> "unmanaged", uncertainty |-> "", app |-> <<>>, managed |-> FALSE,
                  allowed |-> TRUE, claim |-> "none"]
      BY <1>6, <3>1 DEF GateForOwnership, own
    <3> QED
      BY <3>2 DEF Gates, Statuses, Claims, Uncertainties
  <2> HIDE DEF gate, search, all
  <2> QED
    BY <1>1, <1>7, <2>1, GateFollows DEF gate, all
<1>8. CASE search.installed # "no"
  <2>1. Ownership(q.object, search) =
          [confidence |-> owner.confidence, app |-> owner.app,
           status |-> settled.status, uncertainty |-> settled.uncertainty]
    BY <1>8 DEF Ownership
  <2>2. /\ gate.status = settled.status /\ gate.uncertainty = settled.uncertainty
        /\ gate.app = owner.app
        /\ gate.managed = (gate.status = "managed") /\ gate.allowed = (gate.status = "unmanaged")
        /\ /\ settled.status \in Statuses /\ settled.uncertainty \in Uncertainties
           /\ owner.app \in {<<>>} \cup (Nat \X Nat)
           => gate \in Gates
    <3> HIDE DEF owner, settled, gate
    <3> QED
      BY <1>6, <2>1 DEF GateForOwnership, Gates, Statuses, Claims
  <2>3. CASE /\ \A a \in all : OwnerRank(a, q.object) = 0
             /\ owner.confidence = "unmanaged" /\ owner.app = <<>>
    <3>1. Speakers(q) \cap all = {}
      BY <1>4, <2>3
    <3>2. CASE search.complete
      <4>1. settled.status = "unmanaged" /\ settled.uncertainty = ""
        BY <2>3, <3>2 DEF Settle
      <4>2. settled.status \in Statuses /\ settled.uncertainty \in Uncertainties
        BY <4>1 DEF Statuses, Uncertainties
      <4> HIDE DEF gate, settled, owner, search, all
      <4> QED
        BY <1>1, <1>8, <2>2, <2>3, <3>1, <3>2, <4>1, <4>2, GateFollows DEF gate, all
    <3>3. CASE ~search.complete
      <4>1. settled.status = "unknown" /\ settled.uncertainty \in Uncertainties \ {""}
        BY <1>5, <2>3, <3>3 DEF Settle, Uncertainties
      <4>2. settled.status \in Statuses /\ settled.uncertainty \in Uncertainties
        BY <4>1 DEF Statuses
      <4> HIDE DEF gate, settled, owner, search, all
      <4> QED
        BY <1>1, <1>8, <2>2, <2>3, <3>1, <4>1, <4>2, GateFollows DEF gate, all
    <3> QED
      BY <3>2, <3>3
  <2>4. ASSUME NEW best \in all, OwnerRank(best, q.object) \in 1 .. 3,
               \A a \in all : OwnerRank(a, q.object) <= OwnerRank(best, q.object),
               owner.confidence = Confidence(OwnerRank(best, q.object)),
               owner.app = <<best.namespace, best.name>>
        PROVE  GateSound(q, gate)
    <3>1. owner.app \in {<<>>} \cup (Nat \X Nat)
      BY <1>2, <2>4, AppIsNamed
    <3>2. CASE OwnerRank(best, q.object) = 1
      <4>1. settled.status = "unknown" /\ settled.uncertainty = "ambiguous"
        BY <2>4, <3>2 DEF Settle, Confidence
      <4>2. settled.status \in Statuses /\ settled.uncertainty \in Uncertainties
        BY <4>1 DEF Statuses, Uncertainties
      <4>3. \A a \in all : OwnerRank(a, q.object) \notin {2, 3}
        BY <2>4, <3>2
      <4>4. Speakers(q) \cap all = {}
        BY <1>4, <4>3
      <4> HIDE DEF gate, settled, owner, search, all
      <4> QED
        BY <1>1, <1>8, <2>2, <3>1, <4>1, <4>2, <4>4, GateFollows DEF gate, all
    <3>3. CASE OwnerRank(best, q.object) \in {2, 3}
      <4>1. settled.status = "managed" /\ settled.uncertainty = ""
        BY <2>4, <3>3 DEF Settle, Confidence
      <4>2. settled.status \in Statuses /\ settled.uncertainty \in Uncertainties
        BY <4>1 DEF Statuses, Uncertainties
      <4>3. best \in Speakers(q) \cap all
        BY <1>4, <2>4, <3>3
      <4>4. /\ gate.app = <<best.namespace, best.name>>
            /\ gate.managed /\ ~gate.allowed /\ gate \in Gates /\ gate.status # "unknown"
            /\ gate.allowed = (gate.status = "unmanaged") /\ gate.managed = (gate.status = "managed")
        BY <2>2, <2>4, <3>1, <4>1, <4>2
      <4> HIDE DEF gate, settled, owner, search, all
      <4> QED
        BY <1>1, <1>8, <4>3, <4>4, GateFollows DEF gate, all
    <3> QED
      BY <2>4, <3>2, <3>3
  <2> QED
    BY <1>2, <2>3, <2>4, OwnerIsHighest
<1> QED
  BY <1>7, <1>8

\* Those who speak for a target that is not there have a claim to it.
LEMMA SpeakersClaim ==
  ASSUME NEW q, q.of = "claim", NEW a, a \in Range(q.cluster.apps)
  PROVE  a \in Speakers(q) <=> ClaimOf(a, q.target) \in {"namespace", "object"}
BY DEF Speakers, ClaimOf, ListsResource

\* What a gate makes of a claim.
LEMMA ClaimOfGate ==
  ASSUME NEW claim, claim.kind \in Claims, claim.uncertainty \in Uncertainties,
         claim.app \in {<<>>} \cup (Nat \X Nat), NEW gate, gate = GateForClaim(claim)
  PROVE  /\ gate \in Gates
         /\ gate.app = claim.app /\ gate.uncertainty = claim.uncertainty
         /\ gate.allowed = (claim.kind = "none")
         /\ gate.managed = (claim.kind \in {"namespace", "object"})
         /\ gate.allowed = (gate.status = "unmanaged") /\ gate.managed = (gate.status = "managed")
         /\ (gate.status = "unknown") = (claim.kind = "unknown")
BY DEF GateForClaim, ManagedClaim, Gates, Statuses, Claims

\* The gate of a target that is not there yet.
LEMMA ClaimantGate ==
  ASSUME NEW q \in GateRequests, q.of = "claim"
  PROVE  GateSound(q, GateOf(q))
<1> DEFINE search == SearchFor(q)
           found == ResolveClaim(q.target, search.apps)
           all == Range(search.apps)
           gate == GateOf(q)
           claim == ClaimFor(q.target, search)
<1>1. /\ Knows(search, q.cluster)
      /\ NearListed(q.cluster, Landing(q).namespace) /\ ~TakenAbsent(q.cluster) =>
           Neighbours(q.cluster, Landing(q).namespace) \subseteq all
  BY SearchKnows
<1>2. all \subseteq Applications /\ Named(all)
  BY <1>1, NamedInCluster
<1>3. all \subseteq Range(q.cluster.apps)
  BY <1>1 DEF Knows
<1>4. \A a \in all : a \in Speakers(q) <=> ClaimOf(a, q.target) \in {"namespace", "object"}
  BY <1>3, SpeakersClaim
<1>5. search.uncertainty \in Uncertainties /\ (~search.complete => search.uncertainty # "")
  BY <1>1 DEF Knows
<1>6. gate = GateForClaim(claim)
  BY DEF GateOf
<1>7. CASE search.installed = "no"
  <2>1. claim.kind = "none" /\ claim.uncertainty = "" /\ claim.app = <<>>
    BY <1>7 DEF ClaimFor
  <2>2. claim.kind \in Claims /\ claim.uncertainty \in Uncertainties
    BY <2>1 DEF Claims, Uncertainties
  <2> HIDE DEF gate, search, all, claim
  <2>3. /\ gate \in Gates /\ gate.allowed /\ ~gate.managed
        /\ gate.allowed = (gate.status = "unmanaged") /\ gate.managed = (gate.status = "managed")
        /\ gate.status # "unknown"
    BY <1>6, <2>1, <2>2, ClaimOfGate
  <2> QED
    BY <1>1, <1>7, <2>3, GateFollows DEF gate, all
<1>8. CASE search.installed # "no" /\ ~search.complete /\ ~ManagedClaim(found.kind)
  <2>1. claim.kind = "unknown" /\ claim.uncertainty = search.uncertainty /\ claim.app = <<>>
    BY <1>8 DEF ClaimFor
  <2>2. claim.kind \in Claims /\ claim.uncertainty \in Uncertainties /\ claim.uncertainty # ""
    BY <1>5, <1>8, <2>1 DEF Claims
  <2>3. \A a \in all : ClaimOf(a, q.target) = "none"
    BY <1>2, <1>8, ClaimIsHighest DEF ManagedClaim
  <2>4. Speakers(q) \cap all = {}
    BY <1>4, <2>3
  <2> HIDE DEF gate, search, all, claim, found
  <2>5. /\ gate \in Gates /\ ~gate.allowed /\ ~gate.managed /\ gate.uncertainty # ""
        /\ gate.allowed = (gate.status = "unmanaged") /\ gate.managed = (gate.status = "managed")
    BY <1>6, <2>1, <2>2, ClaimOfGate
  <2> QED
    BY <1>1, <1>8, <2>4, <2>5, GateFollows DEF gate, all
<1>9. CASE search.installed # "no" /\ (search.complete \/ ManagedClaim(found.kind))
  <2>1. claim.kind = found.kind /\ claim.uncertainty = "" /\ claim.app = found.app
    BY <1>9 DEF ClaimFor
  <2>2. "" \in Uncertainties
    BY DEF Uncertainties
  <2>3. CASE /\ \A a \in all : ClaimOf(a, q.target) = "none"
             /\ found.kind = "none" /\ found.app = <<>>
    <3>1. search.complete /\ Speakers(q) \cap all = {} /\ "none" \in Claims
      BY <1>4, <1>9, <2>3 DEF ManagedClaim, Claims
    <3> HIDE DEF gate, search, all, claim, found
    <3>2. /\ gate \in Gates /\ gate.allowed /\ ~gate.managed
          /\ gate.allowed = (gate.status = "unmanaged") /\ gate.managed = (gate.status = "managed")
          /\ gate.status # "unknown"
      <4>1. /\ claim.kind \in Claims /\ claim.uncertainty \in Uncertainties
            /\ claim.app \in {<<>>} \cup (Nat \X Nat) /\ claim.kind = "none"
        BY <2>1, <2>2, <2>3, <3>1
      <4> QED
        BY <1>6, <4>1, ClaimOfGate
    <3> QED
      BY <1>1, <1>9, <3>1, <3>2, GateFollows DEF gate, all
  <2>4. ASSUME NEW best \in all, ClaimOf(best, q.target) \in {"namespace", "object"},
               found.kind = ClaimOf(best, q.target), found.app = <<best.namespace, best.name>>
        PROVE  GateSound(q, gate)
    <3>1. found.app \in {<<>>} \cup (Nat \X Nat)
      BY <1>2, <2>4, AppIsNamed
    <3>2. best \in Speakers(q) \cap all
      BY <1>4, <2>4
    <3>3. found.kind \in Claims /\ found.kind # "none" /\ found.kind # "unknown"
      BY <2>4 DEF Claims
    <3> HIDE DEF gate, search, all, claim, found
    <3>4. /\ gate \in Gates /\ ~gate.allowed /\ gate.managed
          /\ gate.allowed = (gate.status = "unmanaged") /\ gate.managed = (gate.status = "managed")
          /\ gate.status # "unknown" /\ gate.app = <<best.namespace, best.name>>
      <4>1. /\ claim.kind \in Claims /\ claim.uncertainty \in Uncertainties
            /\ claim.app \in {<<>>} \cup (Nat \X Nat)
        BY <2>1, <2>2, <3>1, <3>3
      <4>2. claim.kind \in {"namespace", "object"} /\ claim.app = <<best.namespace, best.name>>
        BY <2>1, <2>4
      <4> QED
        BY <1>6, <4>1, <4>2, ClaimOfGate
    <3> QED
      BY <1>1, <1>9, <3>2, <3>4, GateFollows DEF gate, all
  <2> QED
    BY <1>2, <2>3, <2>4, ClaimIsHighest
<1> QED
  BY <1>7, <1>8, <1>9

\* domain/gitops.go:78: where the discovery that the session keeps is whole, or
\* names Argo CD, the gate opens only when Applications are not served, or all
\* were read and none speaks for the object.
THEOREM GateIsAlwaysSound == GateSpec => []GateIsSound
<1>1. GateInit => GateIsSound
  BY DEF GateInit, GateIsSound
<1>2. ASSUME GateIsSound, [AskGate]_gated
      PROVE  GateIsSound'
  <2>1. CASE AskGate
    <3>1. PICK q \in GateRequests : gated' = <<[of |-> q, gate |-> GateOf(q)]>>
      BY <2>1 DEF AskGate
    <3>2. q.of \in {"owner", "claim"}
      BY RequestsAssumption
    <3>3. GateSound(q, GateOf(q))
      BY <3>2, OwnerGate, ClaimantGate
    <3>4. gated'[1].of = q /\ gated'[1].gate = GateOf(q)
      BY <3>1
    <3> QED
      BY <3>3, <3>4 DEF GateIsSound
  <2>2. CASE UNCHANGED gated
    BY <1>2, <2>2 DEF GateIsSound
  <2> QED
    BY <1>2, <2>1, <2>2
<1> QED
  BY <1>1, <1>2, PTL DEF GateSpec
=============================================================================
