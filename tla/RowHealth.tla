------------------------------- MODULE RowHealth -------------------------------
(***************************************************************************)
(* The traffic light and the word of a table row (internal/resources:      *)
(* render, custom). An object is a record of what its renderer reads;      *)
(* cells that are only text are left out, and so are the kinds whose light *)
(* is always green (ConfigMaps, Secrets, Ingresses, StorageClasses).       *)
(***************************************************************************)
EXTENDS Arranging

CONSTANT Drawn \* what rows are drawn of: objects with their kind, going or not
VARIABLE drawn \* the row that was drawn last, or <<>>

Light(health, status) == [health |-> health, status |-> status]
\* The first word that says something, or no word.
Said(words) == {i \in DOMAIN words : words[i] # ""}
FirstWord(words) == IF Said(words) = {} THEN "" ELSE words[Lowest(Said(words))]

-----------------------------------------------------------------------------
(* Pods.                                                                   *)

\* A container waits, or ended for another reason than being done.
Trouble(c) == FirstWord(<<c.waiting, IF c.terminated = "Completed" THEN "" ELSE c.terminated>>)
PodTrouble(pod) == FirstWord([i \in DOMAIN pod.containers |-> Trouble(pod.containers[i])])
ReadyContainers(pod) == {i \in DOMAIN pod.containers : pod.containers[i].ready}
ByPhase(phase) ==
  CASE phase = "Succeeded" -> "healthy" [] phase = "Pending" -> "progress"
    [] phase = "Failed" -> "critical" [] phase = "Running" -> "warning" [] OTHER -> "unknown"

RenderPodMutant(pod) ==
  IF PodTrouble(pod) # "" THEN Light("critical", PodTrouble(pod))
  ELSE IF pod.phase = "Running" /\ Cardinality(ReadyContainers(pod)) = Len(pod.containers)
       THEN Light("healthy", pod.phase) ELSE Light(ByPhase(pod.phase), pod.phase)

RenderPod(pod) ==
  LET total == IF pod.containers = <<>> THEN pod.declared ELSE Len(pod.containers)
  IN  IF PodTrouble(pod) # "" THEN Light("critical", PodTrouble(pod))
      ELSE IF pod.phase = "Running" /\ Cardinality(ReadyContainers(pod)) = total /\ total > 0
           THEN Light("healthy", pod.phase) ELSE Light(ByPhase(pod.phase), pod.phase)

-----------------------------------------------------------------------------
(* Workloads. Their word is the count itself.                              *)

ReplicaHealth(ready, desired) ==
  CASE desired = 0 -> "warning"
    [] desired # 0 /\ ready = 0 -> "critical"
    [] desired # 0 /\ ready # 0 -> IF ready < desired THEN "progress" ELSE "healthy"

RenderDeployment(w) == Light(ReplicaHealth(w.ready, w.desired), "count")
RenderStatefulSet(w) == Light(ReplicaHealth(w.ready, w.desired), "count")
RenderDaemonSet(w) == Light(ReplicaHealth(w.ready, w.desired), "count")
RenderReplicaSet(w) ==
  Light(IF w.desired = 0 THEN "healthy" ELSE ReplicaHealth(w.ready, w.desired), "count")

\* A pod of the Job that failed counts before the completions do.
RenderJob(job) ==
  LET completions == IF job.completions = 0 THEN 1 ELSE job.completions
  IN  IF job.failed > 0 THEN Light("critical", "Failed")
      ELSE IF job.succeeded >= completions THEN Light("healthy", "Complete")
      ELSE Light("progress", "Running")

RenderCronJob(c) ==
  IF c.suspended THEN Light("warning", "Suspended") ELSE Light("healthy", "Scheduled")

RenderPDB(p) == Light(IF p.desired > 0 /\ p.current < p.desired THEN "warning" ELSE "healthy", "")

-----------------------------------------------------------------------------
(* Everything else that has a state.                                       *)

RenderService(s) ==
  LET type == IF s.type = "" THEN "ClusterIP" ELSE s.type
  IN  IF type = "LoadBalancer" /\ ~s.addressed THEN Light("progress", "Pending")
      ELSE Light("healthy", type)

RenderPVC(v) ==
  Light(CASE v.phase = "Bound" -> "healthy" [] v.phase = "Pending" -> "progress"
          [] v.phase = "Lost" -> "critical" [] OTHER -> "warning", v.phase)
RenderPV(v) ==
  Light(CASE v.phase \in {"Bound", "Available"} -> "healthy" [] v.phase = "Failed" -> "critical"
          [] OTHER -> "warning", v.phase)
RenderNamespace(n) == Light(IF n.phase = "Active" THEN "healthy" ELSE "warning", n.phase)

\* Of two conditions of one type the later is taken.
OfType(object, type) == {i \in DOMAIN object.conditions : object.conditions[i].type = type}
Reported(object, type) == object.conditions[Highest(OfType(object, type))]

\* A cordon dims a green light.
RenderNode(n) ==
  LET status == IF OfType(n, "Ready") = {} THEN "none" ELSE Reported(n, "Ready").status
      health == CASE status = "True" -> "healthy" [] status = "False" -> "critical"
                  [] status = "none" -> "unknown" [] OTHER -> "warning"
      word == CASE status = "True" -> "Ready" [] status = "False" -> "NotReady" [] OTHER -> "Unknown"
  IN  Light(IF n.cordoned /\ health = "healthy" THEN "warning" ELSE health,
            IF n.cordoned THEN "cordoned" ELSE word)

RenderEvent(e) == Light(IF e.type = "Warning" THEN "warning" ELSE "healthy", e.type)

-----------------------------------------------------------------------------
(* Resources whose shape is not known: the conditions they report, their   *)
(* phase, and last the columns of their definition.                        *)

NegativeConditions == <<"Degraded", "Failed", "Error">>
PositiveConditions == <<"Ready", "Available", "Healthy", "Synced", "Succeeded", "Established">>

GoodWords == {"running", "active", "succeeded", "success", "ready", "healthy", "bound", "available",
              "synced", "established", "complete", "completed", "true"}
\* A word as it is without blanks around it and in lower case.
PhaseHealth(word) ==
  CASE word \in GoodWords -> "healthy"
    [] word \in {"failed", "failure", "error", "degraded", "lost", "unhealthy", "missing", "false"} -> "critical"
    [] word \in {"outofsync", "out of sync", "suspended", "warning", "paused"} -> "warning"
    [] word \in {"pending", "progressing", "provisioning", "creating", "updating", "reconciling",
                 "syncing", "terminating"} -> "progress"
    [] OTHER -> "unknown"

ConditionSummary(name, condition) == IF condition.reason # "" THEN condition.reason ELSE name

\* The types that speak against an object, and those that speak for or against.
Against(object) ==
  {i \in DOMAIN NegativeConditions :
     OfType(object, NegativeConditions[i]) # {} /\ Reported(object, NegativeConditions[i]).status = "True"}
Telling(object) == {i \in DOMAIN PositiveConditions : OfType(object, PositiveConditions[i]) # {}}

\* A condition of this type decides.
ByCondition(type, condition) ==
  IF condition.status = "True" THEN Light("healthy", type)
  ELSE Light(IF condition.status = "False" THEN "critical" ELSE "progress", ConditionSummary(type, condition))
CustomHealth(object) ==
  LET worst == NegativeConditions[Lowest(Against(object))]
      best == PositiveConditions[Lowest(Telling(object))]
  IN  IF Against(object) # {} THEN Light("critical", ConditionSummary(worst, Reported(object, worst)))
      ELSE IF Telling(object) # {} THEN ByCondition(best, Reported(object, best))
      ELSE IF object.phase # "" THEN Light(PhaseHealth(object.phase), object.phase)
      ELSE Light("unknown", "")

\* A column about health before one about status; an empty one says nothing.
ColumnsSay(columns, title) ==
  FirstWord([i \in DOMAIN columns |-> IF columns[i].title = title THEN columns[i].value ELSE ""])
HealthFromColumns(columns) ==
  LET chosen == FirstWord(<<ColumnsSay(columns, "health"), ColumnsSay(columns, "status")>>)
  IN  IF chosen = "" THEN Light("unknown", "") ELSE Light(PhaseHealth(chosen), chosen)

RenderCustom(object) ==
  LET own == CustomHealth(object)
      derived == HealthFromColumns(object.columns)
  IN  IF own.health = "unknown" /\ derived.health # "unknown" THEN derived ELSE own

-----------------------------------------------------------------------------
(* Row. An object that is going has no green light.                        *)

Render(kind, o) ==
  CASE kind = "Pod" -> RenderPod(o)
    [] kind = "Deployment" -> RenderDeployment(o)
    [] kind = "StatefulSet" -> RenderStatefulSet(o)
    [] kind = "DaemonSet" -> RenderDaemonSet(o)
    [] kind = "ReplicaSet" -> RenderReplicaSet(o)
    [] kind = "Job" -> RenderJob(o)
    [] kind = "CronJob" -> RenderCronJob(o)
    [] kind = "PodDisruptionBudget" -> RenderPDB(o)
    [] kind = "Service" -> RenderService(o)
    [] kind = "PersistentVolumeClaim" -> RenderPVC(o)
    [] kind = "PersistentVolume" -> RenderPV(o)
    [] kind = "Namespace" -> RenderNamespace(o)
    [] kind = "Node" -> RenderNode(o)
    [] kind = "Event" -> RenderEvent(o)
    [] kind = "CustomResourceDefinition" -> CustomHealth(o)
    [] kind = "Custom" -> RenderCustom(o)
    [] OTHER -> Light("unknown", "")

Row(kind, object, deleted) ==
  IF deleted THEN Light("warning", "Terminating") ELSE Render(kind, object)

RowsInit == drawn = <<>>
DrawRow == \E q \in Drawn : drawn' = <<[of |-> q, light |-> Row(q.kind, q.object, q.deleted)]>>
RowsSpec == RowsInit /\ [][DrawRow]_drawn

-----------------------------------------------------------------------------
(* What an object is, and when its light may be green.                     *)

Container == [ready : BOOLEAN, waiting : STRING, terminated : STRING]
Condition == [type : STRING, status : STRING, reason : STRING]
Column == [title : STRING, value : STRING]
WorkloadKinds == {"Deployment", "StatefulSet", "DaemonSet"}
CustomKinds == {"CustomResourceDefinition", "Custom"}

Kinds == WorkloadKinds \cup CustomKinds \cup
  {"Pod", "ReplicaSet", "Job", "CronJob", "PodDisruptionBudget", "Service", "PersistentVolumeClaim",
   "PersistentVolume", "Namespace", "Node", "Event"}

IsObject(kind, o) ==
  /\ kind = "Pod" => o \in [phase : STRING, containers : Seq(Container), declared : Nat]
  /\ kind \in WorkloadKinds \cup {"ReplicaSet"} => o \in [ready : Nat, desired : Nat]
  /\ kind = "Job" => o \in [failed : Nat, succeeded : Nat, completions : Nat]
  /\ kind = "CronJob" => o \in [suspended : BOOLEAN]
  /\ kind = "PodDisruptionBudget" => o \in [current : Nat, desired : Nat]
  /\ kind = "Service" => o \in [type : STRING, addressed : BOOLEAN]
  /\ kind \in {"PersistentVolumeClaim", "PersistentVolume", "Namespace"} => o \in [phase : STRING]
  /\ kind = "Node" => o \in [conditions : Seq(Condition), cordoned : BOOLEAN]
  /\ kind = "Event" => o \in [type : STRING]
  /\ kind \in CustomKinds => o \in [conditions : Seq(Condition), phase : STRING, columns : Seq(Column)]

\* What is drawn is an object of its kind.
ASSUME DrawnAssumption ==
  \A q \in Drawn : q.kind \in Kinds /\ IsObject(q.kind, q.object) /\ q.deleted \in BOOLEAN

OneOfAType(conditions) ==
  \A i, k \in DOMAIN conditions : conditions[i].type = conditions[k].type => i = k

\* What each kind of object does when it works.
Working(kind, o) ==
  /\ kind = "Pod" =>
       /\ \A i \in DOMAIN o.containers :
            o.containers[i].waiting = "" /\ o.containers[i].terminated \in {"", "Completed"}
       /\ \/ o.phase = "Succeeded"
          \/ o.phase = "Running" /\ o.containers # <<>> /\ \A i \in DOMAIN o.containers : o.containers[i].ready
  /\ kind \in WorkloadKinds => o.desired > 0 /\ o.ready >= o.desired
  /\ kind = "ReplicaSet" => o.ready >= o.desired
  /\ kind = "Job" => o.failed = 0 /\ o.succeeded > 0 /\ o.succeeded >= o.completions
  /\ kind = "CronJob" => ~o.suspended
  /\ kind = "PodDisruptionBudget" => o.current >= o.desired
  /\ kind = "Service" => o.type # "LoadBalancer" \/ o.addressed
  /\ kind = "PersistentVolumeClaim" => o.phase = "Bound"
  /\ kind = "PersistentVolume" => o.phase \in {"Bound", "Available"}
  /\ kind = "Namespace" => o.phase = "Active"
  /\ kind = "Event" => o.type # "Warning"
  /\ kind = "Node" => ~o.cordoned /\ \E i \in OfType(o, "Ready") : o.conditions[i].status = "True"
  /\ kind \in CustomKinds =>
       \/ \E i \in DOMAIN o.conditions :
            o.conditions[i].type \in Range(PositiveConditions) /\ o.conditions[i].status = "True"
       \/ /\ \A i \in DOMAIN o.conditions : o.conditions[i].type \notin Range(PositiveConditions)
          /\ \/ o.phase \in GoodWords
             \/ kind = "Custom" /\ \E i \in DOMAIN o.columns :
                  o.columns[i].title \in {"health", "status"} /\ o.columns[i].value \in GoodWords

\* The object with its conditions in another order.
Turns(conditions) ==
  {turn \in [DOMAIN conditions -> DOMAIN conditions] :
     \A k \in DOMAIN conditions : \E i \in DOMAIN conditions : turn[i] = k}
Turned(o, turn) == [o EXCEPT !.conditions = [i \in DOMAIN o.conditions |-> o.conditions[turn[i]]]]

Earned(q, light) ==
  /\ light.health = "healthy" => ~q.deleted /\ Working(q.kind, q.object)
  /\ /\ ~q.deleted /\ q.kind \notin CustomKinds /\ Working(q.kind, q.object)
     /\ q.kind = "Node" => OneOfAType(q.object.conditions)
     => light.health = "healthy"
  /\ q.kind \in CustomKinds \cup {"Node"} /\ OneOfAType(q.object.conditions) =>
       \A turn \in Turns(q.object.conditions) : Row(q.kind, Turned(q.object, turn), q.deleted) = light
  /\ q.kind \in CustomKinds /\ OneOfAType(q.object.conditions) =>
       \A i \in DOMAIN q.object.conditions :
         /\ q.object.conditions[i].type \in Range(NegativeConditions)
         /\ q.object.conditions[i].status = "True"
         => light.health \in {"critical", "warning"}

\* custom.go:162 "A resource following neither is reported as unknown, which is
\* honest -- inventing a green light for something this application cannot
\* assess is worse than admitting it", and a pod whose container keeps dying is
\* not green for running: a green light is only given for what works, of the
\* kinds that are known exactly for what works, and it does not depend on the
\* order in which conditions are reported.
GreenIsEarned == drawn # <<>> => Earned(drawn[1].of, drawn[1].light)
=============================================================================
