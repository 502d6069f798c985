-------------------------------- MODULE Editing --------------------------------
(***************************************************************************)
(* Writing to a cluster while others do: the YAML editor                   *)
(* (internal/manifest), the creation of resources (internal/authoring) and *)
(* the actions of a page (internal/resources/actions.go), behind the gate  *)
(* of ArgoOwnership with the searches that its Service remembers.          *)
(*                                                                         *)
(* An object of the cluster goes by a number; it is absent, <<>>, or holds *)
(* the version the API server gave it. All share one namespace, Here.      *)
(***************************************************************************)
EXTENDS ArgoOwnership

CONSTANTS Editors, Names,
          Manifests,      \* what may be typed when creating: sequences of documents
          Candidates,     \* the Applications that may come and go
          DiscoveryTTL, RefusalTTL,
          MaxTime, MaxTurns, MaxRequests   \* bounds: the clock, what others do, what is asked for here

ASSUME ManifestsAssumption ==
  Manifests \subseteq Seq([kind: STRING, name: Nat, namespace: Nat])

\* The API server knows an Application by its namespace and its name.
ASSUME CandidatesAssumption ==
  /\ \A a \in DOMAIN Candidates : Candidates[a].namespace \in Nat /\ Candidates[a].name \in Nat
  /\ \A a, b \in DOMAIN Candidates :
       Candidates[a].namespace = Candidates[b].namespace /\ Candidates[a].name = Candidates[b].name
       => a = b

ASSUME LifetimesAssumption == DiscoveryTTL \in Nat /\ RefusalTTL \in Nat

VARIABLES objects,        \* what the cluster has
          version,        \* the last version it gave
          applications,   \* its Applications, and how a listing of them is answered
          listing,
          cache,          \* what discover remembers, and since when
          now,
          editors,        \* the sessions of the editor and what Apply has done
          draft,          \* the creation under way
          turns, requests

vars == <<objects, version, applications, listing, cache, now, editors, draft, turns, requests>>

Here == 1
Target(name) == [name |-> name, namespace |-> Here]
Apps == DOMAIN Candidates
NoBasis == [age |-> 0, owners |-> {}]

-----------------------------------------------------------------------------
(* The gate. A search is remembered with its time and, for the properties, *)
(* with the Applications there were.                                       *)

Cluster == [indexed |-> TRUE, groups |-> {"argoproj.io"}, connected |-> TRUE,
            wide |-> listing, near |-> listing,
            apps |-> SetToSeq({Candidates[a] : a \in applications})]

TtlFor(search) == IF search.uncertainty = "forbidden" THEN RefusalTTL ELSE DiscoveryTTL

AliveMutant == DOMAIN cache
Alive == {k \in DOMAIN cache : now <= cache[k].at + TtlFor(cache[k].found)}

Asked(namespace) == Discover([k \in Alive |-> cache[k].found], Cluster, namespace)
Kept(namespace) ==
  [k \in DOMAIN Asked(namespace).cache |->
     IF k \in Alive THEN cache[k]
     ELSE [found |-> Asked(namespace).cache[k], at |-> now, apps |-> applications]]

Tracks(name) == IF objects[name] = <<>> THEN {} ELSE objects[name][1].tracked
Object(name) ==
  [id |-> Target(name), instance |-> {},
   tracking |-> [i \in 1..Cardinality(Tracks(name)) |->
                   [claims |-> Target(name), app |-> <<Candidates[CHOOSE a \in Tracks(name) : TRUE].name>>]]]

\* gate: an object that cannot be read is no permission.
Gate(name) ==
  IF objects[name] = <<>> /\ Asked(Here).found.installed # "no" THEN UnknownGate
  ELSE GateForOwnership(Ownership(Object(name), Asked(Here).found))

ClaimGate(target) == GateForClaim(ClaimFor(target, Asked(target.namespace).found))

\* For the properties: who owns an object that is there, who claims one that is
\* not, and what an answer rests on, the age of the search and who it should
\* have found.
Owners(name) == Tracks(name) \cup {a \in Apps : ListsResource(Candidates[a], Target(name))}
Claimants(target) ==
  {a \in Apps : \/ ListsResource(Candidates[a], target)
                \/ target.namespace # 0 /\ Candidates[a].destination = target.namespace}
BasisOf(namespace, owners) ==
  LET search == Kept(namespace)[<<>>]
  IN  [age |-> now - search.at, owners |-> search.apps \cap owners]

-----------------------------------------------------------------------------
(* The cluster and those who use it beside this program.                   *)

Fresh == [version |-> version + 1, tracked |-> {}, replicas |-> 1, halted |-> FALSE]

Others == /\ turns < MaxTurns
          /\ turns' = turns + 1
          /\ UNCHANGED <<cache, now, editors, draft, requests>>

OthersMake(name) ==
  /\ Others /\ objects[name] = <<>>
  /\ objects' = [objects EXCEPT ![name] = <<Fresh>>]
  /\ version' = version + 1
  /\ UNCHANGED <<applications, listing>>

OthersDelete(name) ==
  /\ Others /\ objects[name] # <<>>
  /\ objects' = [objects EXCEPT ![name] = <<>>]
  /\ UNCHANGED <<version, applications, listing>>

\* A controller, a colleague, or Argo CD putting its mark on the object.
OthersWrite(name) == \E tracked \in {{}} \cup {{a} : a \in applications} :
  /\ Others /\ objects[name] # <<>>
  /\ objects' = [objects EXCEPT ![name][1] = [@ EXCEPT !.version = version + 1, !.tracked = tracked]]
  /\ version' = version + 1
  /\ UNCHANGED <<applications, listing>>

ApplicationsChange == \E a \in Apps :
  /\ Others
  /\ applications' = IF a \in applications THEN applications \ {a} ELSE applications \cup {a}
  /\ UNCHANGED <<objects, version, listing>>

PermissionChanges ==
  /\ Others
  /\ listing' = IF listing = "ok" THEN "forbidden" ELSE "ok"
  /\ UNCHANGED <<objects, version, applications>>

Tick == /\ now < MaxTime
        /\ now' = now + 1
        /\ UNCHANGED <<objects, version, applications, listing, cache, editors, draft, turns, requests>>

-----------------------------------------------------------------------------
(* The editor. Its session keeps the version of the object it shows; over  *)
(* is the version that its last write replaced, beside that one.           *)

Closed == [phase |-> "closed", name |-> 0, opened |-> 0, text |-> "same", told |-> "",
           basis |-> NoBasis, over |-> <<>>]
Move(e, session) == editors' = [editors EXCEPT ![e] = session]
ClusterUnchanged == UNCHANGED <<objects, version, applications, listing, now, draft, turns>>

\* OpenSession. What its gate says is shown, and asked again before a write.
OpenSession(e, name) ==
  /\ requests < MaxRequests /\ requests' = requests + 1
  /\ editors[e].phase \in {"closed", "open"} /\ objects[name] # <<>>
  /\ Move(e, [Closed EXCEPT !.phase = "open", !.name = name, !.opened = objects[name][1].version])
  /\ cache' = Kept(Here)
  /\ ClusterUnchanged

\* Freshness: a value and never an error; the session is not touched.
Freshness(e) ==
  /\ editors[e].phase = "open"
  /\ LET live == objects[editors[e].name]
     IN  Move(e, [editors[e] EXCEPT !.told =
                    IF live = <<>> THEN "gone"
                    ELSE IF live[1].version = editors[e].opened THEN "" ELSE "stale"])
  /\ UNCHANGED <<cache, requests>> /\ ClusterUnchanged

\* Apply begins with the gate.
ApplyGate(e, text) ==
  /\ requests < MaxRequests /\ requests' = requests + 1
  /\ editors[e].phase = "open"
  /\ Move(e, IF Gate(editors[e].name).allowed
             THEN [editors[e] EXCEPT !.phase = "gated", !.text = text, !.over = <<>>,
                                     !.basis = BasisOf(Here, Owners(editors[e].name))]
             ELSE editors[e])
  /\ cache' = Kept(Here)
  /\ ClusterUnchanged

\* guard: a session without a version, or with another one, writes nothing.
Guard(opened, live) == opened # 0 /\ live = opened

SameObject(text) == text \notin {"broken", "renamed"}

\* parse, the identity of the manifest, the object as it is, and guard.
ApplyCheck(e) ==
  /\ editors[e].phase = "gated"
  /\ LET session == editors[e]
         live == objects[session.name]
     IN  Move(e, [session EXCEPT !.phase =
                    IF SameObject(session.text) /\ live # <<>> /\ Guard(session.opened, live[1].version)
                    THEN "checked" ELSE "open"])
  /\ UNCHANGED <<cache, requests>> /\ ClusterUnchanged

VersionSentMutant(session, live) == live.version

\* SetResourceVersion: the version that was opened goes along with the write.
VersionSent(session, live) == session.opened

\* The API server takes an update of the version it has, and of no other; one
\* that changes nothing makes no version.
ApplyUpdate(e) ==
  LET session == editors[e]
      live == objects[session.name]
      taken == live # <<>> /\ live[1].version = VersionSent(session, live[1])
      written == taken /\ session.text # "same"
  IN  /\ session.phase = "checked"
      /\ Move(e, [session EXCEPT !.phase = "open",
                    !.over = IF taken THEN <<session.opened, live[1].version>> ELSE @])
      /\ objects' = IF written THEN [objects EXCEPT ![session.name][1].version = version + 1] ELSE objects
      /\ version' = IF written THEN version + 1 ELSE version
      /\ UNCHANGED <<applications, listing, cache, now, draft, turns, requests>>

-----------------------------------------------------------------------------
(* Perform: patches, which carry no version and ask no gate. Cordon and    *)
(* suspend set one field each, in another kind of object.                  *)

Actions == {"scale", "restart", "cordon", "uncordon", "suspend", "resume"}
Patch(object, action, replicas) ==
  CASE action = "scale" -> [object EXCEPT !.replicas = replicas]
    [] action \in {"cordon", "suspend"} -> [object EXCEPT !.halted = TRUE]
    [] action \in {"uncordon", "resume"} -> [object EXCEPT !.halted = FALSE]
    [] action = "restart" -> object

Perform(name, action, replicas) ==
  LET patched == Patch(objects[name][1], action, replicas)
      changes == action = "restart" \/ patched # objects[name][1]
  IN  /\ requests < MaxRequests /\ requests' = requests + 1
      /\ objects[name] # <<>>
      /\ version' = IF changes THEN version + 1 ELSE version
      /\ objects' = IF changes THEN [objects EXCEPT ![name] = <<[patched EXCEPT !.version = version + 1]>>]
                    ELSE objects
      /\ UNCHANGED <<applications, listing, cache, now, editors, draft, turns>>

-----------------------------------------------------------------------------
(* The checks of a manifest before anything is sent. A document says the   *)
(* name (0: none), the namespace (0: none) and the kind of its object: one *)
(* that belongs to a namespace or to the cluster, one that is not served,  *)
(* or none; or it is not a document at all.                                *)

ParseProblems(docs) ==
  {[problem |-> "unreadable", at |-> i] : i \in {j \in DOMAIN docs : docs[j].kind = "unreadable"}}
  \cup (IF docs = <<>> THEN {[problem |-> "empty", at |-> 0]} ELSE {})

IdentityProblems(docs, i) ==
  IF docs[i].kind = "" \/ docs[i].name = 0 THEN {[problem |-> "identity", at |-> i]} ELSE {}

DuplicateProblems(docs) ==
  {[problem |-> "duplicate", at |-> j] : j \in {k \in DOMAIN docs : \E i \in 1..(k - 1) :
     docs[i] = docs[k] /\ docs[k].kind # "unreadable"}}

\* Nothing is rewritten: what the manifest says must be what the screen says.
NamespaceProblem(doc) ==
  CASE doc.kind = "cluster" -> doc.namespace # 0
    [] doc.kind = "namespaced" -> doc.namespace # Here
    [] OTHER -> FALSE

Exists(doc) == doc.name # 0 /\ objects[doc.name] # <<>>

Describe(docs, i, readable) ==
  CASE docs[i].kind = "odd" -> {[problem |-> "not served", at |-> i]}
    [] docs[i].kind \in {"namespaced", "cluster"} ->
         (IF NamespaceProblem(docs[i]) THEN {[problem |-> "namespace", at |-> i]} ELSE {})
         \cup (IF docs[i].name # 0 /\ ~readable THEN {[problem |-> "unchecked", at |-> i]} ELSE {})
         \cup (IF Exists(docs[i]) /\ readable THEN {[problem |-> "exists", at |-> i]} ELSE {})
    [] OTHER -> {}

Preview(docs, readable) ==
  LET objectsOf == {i \in DOMAIN docs : docs[i].kind # "unreadable"}
  IN  ParseProblems(docs) \cup DuplicateProblems(docs)
      \cup UNION {IdentityProblems(docs, i) \cup Describe(docs, i, readable) : i \in objectsOf}

-----------------------------------------------------------------------------
(* Creating. asked counts the claims that were allowed, made what really   *)
(* came to be, created and failed what the outcome reports.                *)

NoDraft == [phase |-> "none", docs |-> <<>>, at |-> 1, asked |-> {}, basis |-> NoBasis,
            made |-> <<>>, created |-> <<>>, failed |-> <<>>]
EditorsUnchanged == UNCHANGED <<applications, listing, now, editors, turns>>

\* Availability, and NewSession behind it: is this kind served, does it need a
\* namespace that nobody chose, is the namespace as a whole claimed.
Decide(kind, namespace) ==
  /\ kind # "odd"
  /\ kind = "namespaced" => namespace # 0
  /\ ClaimGate([name |-> 0, namespace |-> namespace]).allowed

NewSession(kind, namespace) ==
  /\ requests < MaxRequests /\ requests' = requests + 1
  /\ draft.phase \in {"none", "done"}
  /\ draft' = [NoDraft EXCEPT !.phase = IF Decide(kind, namespace) THEN "open" ELSE "none"]
  /\ cache' = IF kind = "odd" \/ (kind = "namespaced" /\ namespace = 0) THEN cache ELSE Kept(namespace)
  /\ UNCHANGED <<objects, version>> /\ EditorsUnchanged

\* Create: the preview again, then a claim for every object, then the writes.
Create(docs, readable) ==
  /\ requests < MaxRequests /\ requests' = requests + 1
  /\ draft.phase = "open"
  /\ draft' = [draft EXCEPT !.docs = docs,
                            !.phase = IF Preview(docs, readable) = {} THEN "claiming" ELSE "done"]
  /\ UNCHANGED <<objects, version, cache>> /\ EditorsUnchanged

AfterClaimMutant(claimed) == [claimed EXCEPT !.phase = "writing", !.at = 1]

AfterClaim(claimed) ==
  IF claimed.at = Len(claimed.docs) THEN [claimed EXCEPT !.phase = "writing", !.at = 1]
  ELSE [claimed EXCEPT !.at = @ + 1]

CreateClaim ==
  /\ draft.phase = "claiming"
  /\ LET doc == draft.docs[draft.at]
         target == [name |-> doc.name, namespace |-> doc.namespace]
         basis == BasisOf(doc.namespace, Claimants(target))
     IN  draft' = IF ClaimGate(target).allowed
                  THEN AfterClaim([draft EXCEPT !.asked = @ \cup {draft.at},
                         !.basis = [age |-> IF basis.age > @.age THEN basis.age ELSE @.age,
                                    owners |-> @.owners \cup basis.owners]])
                  ELSE [draft EXCEPT !.phase = "done"]
  /\ cache' = Kept(draft.docs[draft.at].namespace)
  /\ UNCHANGED <<objects, version, requests>> /\ EditorsUnchanged

AfterFailure(failing) == [failing EXCEPT !.phase = "done"]

\* How a write may be answered: the reply to one that was done may be lost on
\* the way, or come after the caller stopped waiting.
Replies == {"made", "refused", "lost"}

\* One write; the API server may refuse it, and refuses a name that is taken.
CreateWrite(reply) ==
  LET doc == draft.docs[draft.at]
      last == draft.at = Len(draft.docs)
      makes == reply # "refused" /\ objects[doc.name] = <<>>
      made == IF makes THEN Append(draft.made, version + 1) ELSE draft.made
  IN  /\ draft.phase = "writing"
      /\ draft' = IF makes /\ reply = "made"
                  THEN [draft EXCEPT !.created = Append(@, draft.at), !.made = made,
                                     !.phase = IF last THEN "done" ELSE @,
                                     !.at = IF last THEN @ ELSE @ + 1]
                  ELSE AfterFailure([draft EXCEPT !.failed = Append(@, draft.at), !.made = made])
      /\ objects' = IF makes THEN [objects EXCEPT ![doc.name] = <<Fresh>>] ELSE objects
      /\ version' = IF makes THEN version + 1 ELSE version
      /\ UNCHANGED <<cache, requests>> /\ EditorsUnchanged

\* outcomeMessage: "<created> of <total> created", when some were.
OutcomeMessage == [created |-> Len(draft.created), total |-> Len(draft.created) + Len(draft.failed)]

-----------------------------------------------------------------------------
Init ==
  /\ objects = [n \in Names |-> IF n = 1 THEN <<[version |-> 1, tracked |-> {}, replicas |-> 1, halted |-> FALSE]>>
                                ELSE <<>>]
  /\ version = 1 /\ applications = {} /\ listing = "ok" /\ cache = <<>> /\ now = 0
  /\ editors = [e \in Editors |-> Closed]
  /\ draft = NoDraft
  /\ turns = 0 /\ requests = 0

Next ==
  \/ \E n \in Names : OthersMake(n) \/ OthersDelete(n) \/ OthersWrite(n)
  \/ ApplicationsChange \/ PermissionChanges \/ Tick
  \/ \E e \in Editors, n \in Names : OpenSession(e, n)
  \/ \E e \in Editors, text \in {"same", "edited", "renamed", "broken"} : ApplyGate(e, text)
  \/ \E e \in Editors : Freshness(e) \/ ApplyCheck(e) \/ ApplyUpdate(e)
  \/ \E n \in Names, a \in Actions, r \in 0..1 : Perform(n, a, r)
  \/ \E kind \in {"namespaced", "cluster", "odd"}, namespace \in {0, Here} : NewSession(kind, namespace)
  \/ CreateClaim
  \/ \E m \in Manifests, readable \in BOOLEAN : Create(m, readable)
  \/ \E reply \in Replies : CreateWrite(reply)

Spec == Init /\ [][Next]_vars

-----------------------------------------------------------------------------
\* manifest/service.go: "a live resource is never silently overwritten". What
\* Apply replaces is the very version the editor shows, whatever colleagues,
\* controllers, other editors or an action of a page did between the opening,
\* the check and the write; a session that was told that its object moved or
\* went never writes again, not over one created anew either.
NoLostWrite ==
  \A e \in Editors :
    /\ editors[e].over # <<>> => editors[e].over[1] = editors[e].over[2]
    /\ editors[e].told # "" => editors[e].phase \in {"open", "gated"}

\* domain/gitops.go: nothing is written past the gate that an Application
\* owned, or claimed before it existed, when it was last searched for, the
\* search is never older than its lifetime, and a search that was refused
\* permits nothing.
GateIsHonest ==
  /\ \A e \in Editors : editors[e].phase \in {"gated", "checked"} =>
       editors[e].basis.owners = {} /\ editors[e].basis.age <= DiscoveryTTL
  /\ draft.asked # {} => draft.basis.owners = {} /\ draft.basis.age <= DiscoveryTTL

\* authoring/service.go: a manifest is one intention. No object of it is sent
\* before every object was found to be unclaimed, and nothing follows a failure.
\* What the outcome calls created is a prefix and exists, one failure ends it,
\* and of what it does not call created only the object that failed may exist:
\* the reply to its write may have been lost. An outcome that names no failure
\* means that everything exists.
OneIntention ==
  /\ draft.made # <<>> => draft.asked = DOMAIN draft.docs
  /\ draft.created = [i \in 1..Len(draft.created) |-> i]
  /\ draft.failed \in {<<>>, <<Len(draft.created) + 1>>}
  /\ Len(draft.made) \in Len(draft.created)..(Len(draft.created) + Len(draft.failed))
  /\ draft.phase = "done" /\ draft.asked = DOMAIN draft.docs /\ draft.failed = <<>>
     => Len(draft.created) = Len(draft.docs)
=============================================================================
