------------------------------ MODULE MCResources ------------------------------
(***************************************************************************)
(* What is read of a cluster: rows of every kind to give a light to, and   *)
(* pages of a namespace in which a deployment was deleted and made again   *)
(* under the same name while what the first one created is still there.    *)
(***************************************************************************)
EXTENDS RowHealth, RelatedObjects
LOCAL INSTANCE SequencesExt

-----------------------------------------------------------------------------
(* Rows.                                                                   *)

Containers == {[ready |-> TRUE, waiting |-> "", terminated |-> ""],
               [ready |-> FALSE, waiting |-> "CrashLoopBackOff", terminated |-> ""],
               [ready |-> FALSE, waiting |-> "", terminated |-> "Error"],
               [ready |-> FALSE, waiting |-> "", terminated |-> "Completed"]}
Pods == {[phase |-> p, containers |-> c, declared |-> 2] :
  p \in {"Pending", "Running", "Succeeded", "Failed", "Unknown"}, c \in SeqOf(Containers, 3)}
Workloads == {[ready |-> r, desired |-> d] : r \in 0..2, d \in 0..2}
Phases == {[phase |-> p] : p \in {"Bound", "Pending", "Lost", "Available", "Failed", "Active", ""}}
Told(type, status, reason) == [type |-> type, status |-> status, reason |-> reason]
Nodes == {[conditions |-> c, cordoned |-> b] : b \in BOOLEAN,
  c \in {<<>>, <<Told("Disk", "True", "")>>} \cup
    {<<Told("Disk", "True", ""), Told("Ready", s, "")>> : s \in {"True", "False", "Unknown"}}}
Conditions == {Told(t, s, r) : t \in {"Failed", "Degraded", "Ready", "Synced", "Odd"},
                                    s \in {"True", "False", "Unknown"}, r \in {"", "Why"}}
Cell(title, value) == [title |-> title, value |-> value]
Customs ==
  {[conditions |-> c, phase |-> p, columns |-> <<>>] :
     c \in SeqOf(Conditions, 2), p \in {"", "ready", "reticulating"}}
  \cup {[conditions |-> c, phase |-> p, columns |-> k] :
     c \in {<<>>, <<Told("Odd", "True", "")>>, <<Told("Ready", "Unknown", "")>>},
     p \in {"", "ready", "failed", "reticulating"},
     k \in SeqOf({Cell(t, v) : t \in {"health", "status", "age"}, v \in {"", "synced", "lost", "odd"}}, 2)}

Every(kind, objects) == {[kind |-> kind, object |-> o] : o \in objects}
MCDrawn == {[kind |-> q.kind, object |-> q.object, deleted |-> d] : d \in BOOLEAN, q \in
  Every("Pod", Pods)
  \cup UNION {Every(k, Workloads) : k \in {"Deployment", "StatefulSet", "DaemonSet", "ReplicaSet"}}
  \cup Every("Job", {[failed |-> f, succeeded |-> s, completions |-> c] : f \in 0..1, s \in 0..2, c \in 0..2})
  \cup Every("CronJob", {[suspended |-> b] : b \in BOOLEAN})
  \cup Every("PodDisruptionBudget", {[current |-> c, desired |-> d] : c \in 0..2, d \in 0..2})
  \cup Every("Service", {[type |-> t, addressed |-> b] : t \in {"", "LoadBalancer"}, b \in BOOLEAN})
  \cup UNION {Every(k, Phases) : k \in {"PersistentVolumeClaim", "PersistentVolume", "Namespace"}}
  \cup Every("Event", {[type |-> t] : t \in {"Normal", "Warning"}})
  \cup Every("Node", Nodes) \cup UNION {Every(k, Customs) : k \in CustomKinds}}

-----------------------------------------------------------------------------
(* Pages.                                                                  *)

Ref(kind, name, uid) == [kind |-> kind, name |-> name, uid |-> uid, controller |-> TRUE]
Object(kind, name, uid, owners) ==
  [kind |-> kind, namespace |-> IF kind \in ClusterScoped THEN "" ELSE "ns", name |-> name, uid |-> uid,
   owners |-> owners, labels |-> {"app"}, selector |-> <<>>, node |-> "", priority |-> "", revision |-> 0]
Pod(uid, owners, labels) ==
  [Object("Pod", uid, uid, owners) EXCEPT !.labels = labels, !.node = "n", !.priority = "p"]

Web == [Object("Deployment", "web", "d2", <<>>) EXCEPT !.selector = <<{"app"}>>]
Api == [Object("Deployment", "api", "d3", <<>>) EXCEPT !.selector = <<{"app"}>>]
Sets == <<[Object("ReplicaSet", "web-1", "r1", <<Ref("Deployment", "web", "d1")>>) EXCEPT !.revision = 1],
          [Object("ReplicaSet", "web-2", "r2", <<Ref("Deployment", "web", "d2")>>) EXCEPT !.revision = 1],
          [Object("ReplicaSet", "web-3", "r3", <<Ref("Deployment", "web", "d2")>>) EXCEPT !.revision = 2]>>
Rest == <<Object("Node", "n", "n1", <<>>), Object("PriorityClass", "p", "p1", <<>>),
          Object("CronJob", "c", "c1", <<>>), Object("Job", "c-1", "j1", <<Ref("CronJob", "c", "c1")>>),
          Object("Job", "c-2", "j2", <<Ref("CronJob", "c", "c0")>>),
          [Object("StatefulSet", "db", "s1", <<Ref("Rollout", "db", "x1")>>) EXCEPT !.selector = <<{}>>]>>
\* Owned by one of the sets, by an operator's kind, by a node, or by nobody;
\* not every owner is a controller.
Owners == [none |-> <<>>, node |-> <<Ref("Node", "n", "n1")>>, set |-> <<Ref("StatefulSet", "db", "s1")>>,
           adopted |-> <<[Ref("StatefulSet", "db", "s1") EXCEPT !.controller = FALSE],
                         Ref("ReplicaSet", "web-3", "r3")>>,
           old |-> <<Ref("ReplicaSet", "web-1", "r1")>>, live |-> <<Ref("ReplicaSet", "web-2", "r2")>>]
Selectors == [headless |-> <<>>, empty |-> <<{}>>, app |-> <<{"app"}>>]

ClusterOf(q) ==
  [objects |-> <<Web, Api, [Object("Service", "svc", "v1", <<>>) EXCEPT !.selector = Selectors[q.service]]>>
               \o Sets \o Rest \o <<Pod("a", Owners[q.owner], IF q.labelled THEN {"app"} ELSE {})>>
               \o (IF q.second = "alone" THEN <<>>
                   ELSE <<Pod("b", Owners[q.second], {"app"}), Pod("c", Owners["adopted"], {"app"})>>),
   warm |-> q.warm, refused |-> q.refused]
\* Two pods at most are read at once, and two revisions.
Asking ==
  {q \in [service : DOMAIN Selectors, owner : DOMAIN Owners, labelled : BOOLEAN,
          second : {"alone"} \cup DOMAIN Owners, warm : {{}, {"ReplicaSet"}, {"Pod", "ReplicaSet"}},
          refused : {{}, {"Pod"}, {"ReplicaSet"}},
          uid : {"d2", "d3", "v1", "r1", "r3", "s1", "c1", "n1", "p1", "a"}] :
     q.service = "app" \/ q.uid = "v1"}
ObjectOf(q) == CHOOSE o \in Range(ClusterOf(q).objects) : o.uid = q.uid
MCVisits == {[cluster |-> ClusterOf(q), object |-> ObjectOf(q)] : q \in Asking}
=============================================================================
