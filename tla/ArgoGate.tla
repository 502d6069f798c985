-------------------------------- MODULE ArgoGate --------------------------------
(***************************************************************************)
(* The gate in front of a write (internal/argocd/gate.go), asked about     *)
(* objects that there are and about targets that there are not yet, of     *)
(* clusters of which nothing is remembered. What is remembered over time,  *)
(* and who asks, is in Editing. A cluster here has two more fields, which  *)
(* the program does not see: whether its API server serves Applications    *)
(* now, and whether the discovery that the session keeps is whole and      *)
(* still that of the server.                                               *)
(***************************************************************************)
EXTENDS ArgoOwnership

CONSTANT GateRequests   \* what is asked: a cluster, and an object or a target
VARIABLE gated          \* the last request with its answer, or <<>>

\* What is to be written: the object that is there, or what is to be created.
Landing(q) == IF q.of = "owner" THEN q.object.id ELSE q.target

SearchFor(q) == Discover([k \in {} |-> {}], q.cluster, Landing(q).namespace).found

\* The gate of an editor, whose object can be read, and of a creation.
GateOf(q) ==
  IF q.of = "owner" THEN GateForOwnership(Ownership(q.object, SearchFor(q)))
  ELSE GateForClaim(ClaimFor(q.target, SearchFor(q)))

GateInit == gated = <<>>
AskGate == \E q \in GateRequests : gated' = <<[of |-> q, gate |-> GateOf(q)]>>
GateSpec == GateInit /\ [][AskGate]_gated

-----------------------------------------------------------------------------
(* What may be asked.                                                      *)

\* The discovery that the session keeps names groups, and not that of Argo CD.
Unnamed(cluster) ==
  ~cluster.indexed /\ cluster.groups # {} /\ "argoproj.io" \notin cluster.groups

Identities == [group : STRING, kind : STRING, namespace : Nat, name : Nat]
Applications == [namespace : Nat \ {0}, name : Nat, resources : SUBSET Identities, destination : Nat]

\* The API server has one Application of a namespace and a name. A discovery that
\* is whole names what is served, and only a server that does not serve
\* Applications answers that there is no such resource.
ASSUME RequestsAssumption ==
  \A q \in GateRequests :
    /\ q.of \in {"owner", "claim"} /\ Landing(q) \in Identities
    /\ q.cluster.apps \in Seq(Applications)
    /\ \A a, b \in Range(q.cluster.apps) : a.namespace = b.namespace /\ a.name = b.name => a = b
    /\ q.cluster.indexed \in BOOLEAN /\ q.cluster.connected \in BOOLEAN
    /\ q.cluster.serves \in BOOLEAN /\ q.cluster.whole \in BOOLEAN
    /\ q.cluster.whole /\ Unnamed(q.cluster) => ~q.cluster.serves
    /\ q.cluster.connected /\ q.cluster.wide = "not found" => ~q.cluster.serves
ASSUME ListingAssumption == ListingBudget \in Nat

-----------------------------------------------------------------------------
(* What the gate should say.                                               *)

\* The mark on the object counts when it is about the object.
Marked(object, app) ==
  /\ object.tracking # <<>> /\ object.tracking[1].claims = object.id
  /\ object.tracking[1].app \in {<<app.name>>, <<app.namespace, app.name>>}

\* Who speaks for it: for an object, who made it or lists it; for what is not
\* there yet, who lists it or deploys into its namespace.
Speakers(q) ==
  {a \in Range(q.cluster.apps) :
     \/ q.of = "owner" /\ (q.object.id \in a.resources \/ Marked(q.object, a))
     \/ q.of = "claim" /\ q.target.name # 0 /\ q.target \in a.resources
     \/ q.of = "claim" /\ q.target.namespace # 0 /\ a.destination = q.target.namespace}

\* What is taken for a cluster without Argo CD.
TakenAbsent(cluster) == Unnamed(cluster) \/ (cluster.connected /\ cluster.wide = "not found")

\* A discovery that is not to be relied on: one that was read in part, or before
\* Argo CD was installed, and does not name it.
Unreliable(cluster) == ~cluster.whole /\ Unnamed(cluster)

\* The Applications that a listing returned to the end: all, or those beside.
AllListed(cluster) ==
  cluster.connected /\ cluster.wide = "ok" /\ Len(cluster.apps) <= ListingBudget
Neighbours(cluster, namespace) == {a \in Range(cluster.apps) : a.namespace = namespace}
NearListed(cluster, namespace) ==
  /\ namespace # 0 /\ cluster.connected /\ cluster.near = "ok"
  /\ Cardinality({i \in DOMAIN cluster.apps : cluster.apps[i].namespace = namespace}) <= ListingBudget

GateSound(q, gate) ==
  LET near == Landing(q).namespace
  IN  /\ gate \in Gates
      /\ gate.allowed /\ ~Unreliable(q.cluster) =>
           ~q.cluster.serves \/ (AllListed(q.cluster) /\ Speakers(q) = {})
      /\ TakenAbsent(q.cluster) => gate.allowed
      /\ AllListed(q.cluster) /\ ~TakenAbsent(q.cluster) /\ Speakers(q) # {} => gate.managed
      /\ /\ NearListed(q.cluster, near) /\ ~TakenAbsent(q.cluster)
         /\ Speakers(q) \cap Neighbours(q.cluster, near) # {}
         => gate.managed
      /\ gate.managed => \E a \in Speakers(q) : gate.app = <<a.namespace, a.name>>
      /\ gate.allowed = (gate.status = "unmanaged") /\ gate.managed = (gate.status = "managed")
      /\ gate.status = "unknown" => gate.uncertainty # ""

\* domain/gitops.go:78 "It is the only state in which a direct persistent write
\* is offered, and it is reachable only when the search space was known to be
\* whole". Unless the discovery that the session keeps is unreliable, a gate
\* opens only where Applications are not served, or where every one was read and
\* none claims the object; an unreliable one opens it, against that sentence. What
\* a listing did return and claims the object closes it, and the gate names one
\* that does; whatever else could not be established closes it with the reason.
GateIsSound == gated # <<>> => GateSound(gated[1].of, gated[1].gate)
=============================================================================
