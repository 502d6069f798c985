----------------------------- MODULE RelatedObjects -----------------------------
(***************************************************************************)
(* What a page lists as belonging to its object: the controllers above it, *)
(* the revisions and the pods below (internal/resources/related.go). Labels *)
(* narrow a read, identities decide. The cluster is a sequence of objects  *)
(* in listing order; kinds whose watch is warm answer from the cache.      *)
(***************************************************************************)
EXTENDS Arranging

CONSTANTS RelatedBudget,   \* relatedBudget
          ColdBudget,      \* coldBudget
          Visits           \* the pages to open: clusters, each with an object of it
VARIABLE visited           \* the page that was opened last, or <<>>

-----------------------------------------------------------------------------
(* Reading. An object that carries no readable selector has <<>>.          *)

ClusterScoped == {"Node", "PriorityClass"}
OwnerKinds == {"CronJob", "DaemonSet", "Deployment", "Job", "Node", "ReplicaSet",
               "ReplicationController", "StatefulSet"}
PodOwners == {"StatefulSet", "DaemonSet", "ReplicaSet", "ReplicationController", "Job"}

Prefix(objects, budget) == SubSeq(objects, 1, IF Len(objects) < budget THEN Len(objects) ELSE budget)
Matching(cluster, kind, namespace, labels) ==
  {o \in Range(cluster.objects) : o.kind = kind /\ o.namespace = namespace /\ labels \subseteq o.labels}

\* One bounded request, or the warm cache; a refusal is only an answer without
\* objects when nothing was asked to be selected.
ReadMatching(cluster, kind, namespace, labels) ==
  LET fit == Keeping(cluster.objects, Matching(cluster, kind, namespace, labels))
  IN  IF kind \in cluster.warm THEN [objects |-> fit, truncated |-> FALSE, failed |-> FALSE]
      ELSE IF kind \in cluster.refused
      THEN [objects |-> <<>>, truncated |-> FALSE, failed |-> labels # {}]
      ELSE [objects |-> Prefix(fit, ColdBudget), truncated |-> Len(fit) > ColdBudget, failed |-> FALSE]

\* The objects of that name, of which the API server has one at most.
Get(cluster, kind, namespace, name) ==
  {o \in Range(cluster.objects) :
     /\ kind \notin cluster.refused
     /\ o.kind = kind /\ o.name = name /\ (kind \in ClusterScoped \/ o.namespace = namespace)}

\* The references of an object in order; the first marked as controller counts.
ControllerOf(object) ==
  LET marked == {i \in DOMAIN object.owners : object.owners[i].controller}
  IN  IF marked = {} THEN <<>> ELSE <<object.owners[Lowest(marked)]>>

ControlledBy(object, uids) == ControllerOf(object) # <<>> /\ ControllerOf(object)[1].uid \in uids
UidsOf(objects) == {o.uid : o \in Range(objects)}

\* No selector is everything here, and nothing there.
NarrowingSelector(object) == IF object.selector = <<>> THEN {} ELSE object.selector[1]
ServiceSelector(object) == IF NarrowingSelector(object) = {} THEN <<>> ELSE object.selector

-----------------------------------------------------------------------------
(* The groups of a page.                                                   *)

RelatedGroup(title, objects, truncated) ==
  [title |-> title, rows |-> [i \in DOMAIN objects |-> objects[i].uid], truncated |-> truncated]

OneUpMutant(cluster, object) ==
  LET reference == ControllerOf(object)[1]
  IN  IF ControllerOf(object) = <<>> \/ reference.kind \notin OwnerKinds THEN {}
      ELSE Get(cluster, reference.kind, object.namespace, reference.name)

\* The controller a reference names, when it is still the one that it means.
OneUp(cluster, object) ==
  LET reference == ControllerOf(object)[1]
  IN  IF ControllerOf(object) = <<>> \/ reference.kind \notin OwnerKinds THEN {}
      ELSE {o \in Get(cluster, reference.kind, object.namespace, reference.name) : o.uid = reference.uid}

OwnerGroup(cluster, object) ==
  LET first == CHOOSE o \in OneUp(cluster, object) : TRUE
      second == CHOOSE o \in OneUp(cluster, first) : TRUE
      chain == IF OneUp(cluster, first) = {} THEN <<first>> ELSE <<first, second>>
  IN  IF OneUp(cluster, object) = {} THEN <<>> ELSE <<RelatedGroup("Controlled By", chain, FALSE)>>

\* The budget cuts before the rows are sorted, so truncated says a prefix.
RenderPods(pods, truncated) ==
  IF pods = <<>> THEN <<>>
  ELSE <<RelatedGroup("Pods", Prefix(pods, RelatedBudget), truncated \/ Len(pods) > RelatedBudget)>>

\* A read of pods that fails is a page without them, and so is one that finds
\* none to keep before it is cut.
PodGroup(cluster, namespace, labels, kept) ==
  LET read == ReadMatching(cluster, "Pod", namespace, labels)
  IN  IF read.failed THEN <<>> ELSE RenderPods(Keeping(read.objects, kept), read.truncated)

PodsOwnedBy(cluster, namespace, labels, uids) ==
  IF uids = {} THEN <<>>
  ELSE PodGroup(cluster, namespace, labels, {o \in Range(cluster.objects) : ControlledBy(o, uids)})
PodsMatching(cluster, namespace, labels) == PodGroup(cluster, namespace, labels, Range(cluster.objects))

\* Whether the read was cut is not asked.
OwnedObjects(cluster, kind, owner, labels) ==
  LET read == ReadMatching(cluster, kind, owner.namespace, labels)
  IN  [failed |-> read.failed,
       objects |-> Keeping(read.objects, {o \in Range(cluster.objects) : ControlledBy(o, {owner.uid})})]

\* Newest rollout first, of equal ones any; a number that cannot be read is 0.
Newer(sets) == {p \in (DOMAIN sets) \X (DOMAIN sets) : sets[p[1]].revision > sets[p[2]].revision}
RevisionGroup(replicaSets) ==
  IF replicaSets = <<>> THEN <<>>
  ELSE <<RelatedGroup("Deploy Revisions", Stable(replicaSets, Newer(replicaSets)), FALSE)>>

\* Cut, and nothing says so.
JobGroup(jobs) == IF jobs = <<>> THEN <<>> ELSE <<RelatedGroup("Jobs", Prefix(jobs, RelatedBudget), FALSE)>>

\* The server selects by node; its pages are as long as the budget.
PodsOnNode(cluster, node) ==
  LET there == Keeping(cluster.objects, {o \in Range(cluster.objects) : o.kind = "Pod" /\ o.node = node})
  IN  RenderPods(Prefix(there, RelatedBudget), Len(there) > RelatedBudget)

\* Pages of all pods are read until enough are found or none are left.
PodsWithPriorityClass(cluster, class) ==
  LET found == Keeping(cluster.objects, {o \in Range(cluster.objects) : o.kind = "Pod" /\ o.priority = class})
  IN  RenderPods(Prefix(found, RelatedBudget), Len(found) >= RelatedBudget)

-----------------------------------------------------------------------------
(* Related.                                                                *)

Page(groups) == [failed |-> FALSE, groups |-> groups]
FailedPage == [failed |-> TRUE, groups |-> <<>>]

BelowDeployment(cluster, object) ==
  LET sets == OwnedObjects(cluster, "ReplicaSet", object, NarrowingSelector(object))
  IN  IF sets.failed THEN FailedPage
      ELSE Page(RevisionGroup(sets.objects)
                \o PodsOwnedBy(cluster, object.namespace, NarrowingSelector(object), UidsOf(sets.objects)))
BelowCronJob(cluster, object) ==
  LET jobs == OwnedObjects(cluster, "Job", object, {})
  IN  IF jobs.failed THEN FailedPage ELSE Page(JobGroup(jobs.objects))
BelowService(cluster, object) ==
  Page(IF ServiceSelector(object) = <<>> THEN <<>>
       ELSE PodsMatching(cluster, object.namespace, ServiceSelector(object)[1]))

Below(cluster, object) ==
  CASE object.kind = "Deployment" -> BelowDeployment(cluster, object)
    [] object.kind \in PodOwners ->
         Page(PodsOwnedBy(cluster, object.namespace, NarrowingSelector(object), {object.uid}))
    [] object.kind = "CronJob" -> BelowCronJob(cluster, object)
    [] object.kind = "Service" -> BelowService(cluster, object)
    [] object.kind = "Node" ->
         IF "Pod" \in cluster.refused THEN FailedPage ELSE Page(PodsOnNode(cluster, object.name))
    [] object.kind = "PriorityClass" ->
         IF "Pod" \in cluster.refused THEN FailedPage ELSE Page(PodsWithPriorityClass(cluster, object.name))
    [] OTHER -> Page(<<>>)

Related(cluster, object) ==
  LET below == Below(cluster, object)
  IN  IF object.kind \in cluster.refused \/ below.failed THEN FailedPage
      ELSE Page(OwnerGroup(cluster, object) \o below.groups)

PagesInit == visited = <<>>
OpenPage == \E q \in Visits : visited' = <<[of |-> q, page |-> Related(q.cluster, q.object)]>>
PagesSpec == PagesInit /\ [][OpenPage]_visited

-----------------------------------------------------------------------------
(* What there is in a cluster, and who belongs to whom, by identity alone. *)

Reference == [kind : STRING, name : STRING, uid : STRING, controller : BOOLEAN]
Thing == [kind : STRING, namespace : STRING, name : STRING, uid : STRING, owners : Seq(Reference),
          labels : SUBSET STRING, selector : Seq(SUBSET STRING), node : STRING, priority : STRING,
          revision : Int]

\* The API server accepts one controller of an object.
ASSUME VisitsAssumption ==
  \A q \in Visits :
    /\ q.cluster.objects \in Seq(Thing) /\ q.object \in Range(q.cluster.objects)
    /\ \A o \in Range(q.cluster.objects) : \A i, k \in DOMAIN o.owners :
         o.owners[i].controller /\ o.owners[k].controller => i = k

ASSUME BudgetsAssumption == RelatedBudget \in Nat \ {0} /\ ColdBudget \in Nat \ {0}

Controls(uid, o) == \E i \in DOMAIN o.owners : o.owners[i].controller /\ o.owners[i].uid = uid

\* The revisions of a deployment, and the pods of an object.
Revisions(cluster, object) ==
  {s \in Matching(cluster, "ReplicaSet", object.namespace, NarrowingSelector(object)) :
     Controls(object.uid, s)}
Due(cluster, object) ==
  LET near == Matching(cluster, "Pod", object.namespace, NarrowingSelector(object))
  IN  {p \in Range(cluster.objects) :
         \/ object.kind = "Deployment" /\ p \in near
              /\ \E s \in Revisions(cluster, object) : Controls(s.uid, p)
         \/ object.kind \in PodOwners /\ p \in near /\ Controls(object.uid, p)
         \/ object.kind = "Service" /\ p \in near /\ NarrowingSelector(object) # {}
         \/ object.kind = "Node" /\ p.kind = "Pod" /\ p.node = object.name
         \/ object.kind = "PriorityClass" /\ p.kind = "Pod" /\ p.priority = object.name}

\* The identities that a page has under a title.
Titled(groups, title) == {g \in Range(groups) : g.title = title}
Uids(groups, title) == UNION {Range(g.rows) : g \in Titled(groups, title)}

Cut(cluster, kind, object) ==
  ReadMatching(cluster, kind, object.namespace, NarrowingSelector(object)).truncated

Belongs(c, o, groups) ==
  /\ Uids(groups, "Pods") \subseteq {p.uid : p \in Due(c, o)}
  /\ Uids(groups, "Deploy Revisions") \cup Uids(groups, "Jobs")
       \subseteq {x.uid : x \in {y \in Range(c.objects) : Controls(o.uid, y)}}
  /\ \A g \in Titled(groups, "Controlled By") :
       /\ g.rows # <<>> /\ Controls(g.rows[1], o)
       /\ \A j \in 2..Len(g.rows) : \E x \in Range(c.objects) :
            x.uid = g.rows[j - 1] /\ Controls(g.rows[j], x)

\* Newest first.
InOrder(c, groups) ==
  \A g \in Titled(groups, "Deploy Revisions") : \A i, k \in DOMAIN g.rows : i < k =>
    \E x, y \in Range(c.objects) : x.uid = g.rows[i] /\ y.uid = g.rows[k] /\ x.revision >= y.revision

Whole(c, o, groups) ==
  /\ Titled(groups, "Pods") # {} /\ (\A g \in Titled(groups, "Pods") : ~g.truncated) =>
       Uids(groups, "Pods") = {p.uid : p \in Due(c, o)}
  /\ Due(c, o) # {} /\ (o.kind \in {"Node", "PriorityClass"} \/ ~Cut(c, "Pod", o)) =>
       Uids(groups, "Pods") # {}

\* related.go:50 "Two deployments in one namespace can carry the same `app`
\* label" and related.go:173 "A stale ownerReference points at a name that has
\* since been recreated. The UID says whether this is the object that made
\* ours": a page names no pod, revision, job or owner of another object,
\* whatever the labels and the names say; unless something was refused, or the
\* read of a deployment's revisions was cut, a list of pods that does not call
\* itself a prefix is whole, and pods there are are shown, if their read was
\* not cut.
PageBelongs ==
  visited # <<>> =>
    LET c == visited[1].of.cluster
        o == visited[1].of.object
        groups == visited[1].page.groups
    IN  /\ Belongs(c, o, groups) /\ InOrder(c, groups)
        /\ /\ ~visited[1].page.failed /\ {"Pod", "ReplicaSet"} \cap c.refused = {}
           /\ o.kind = "Deployment" => ~Cut(c, "ReplicaSet", o)
           => Whole(c, o, groups)
=============================================================================
