-------------------------------- MODULE Incident --------------------------------
(***************************************************************************)
(* Explain Why (internal/incident): what is read of one object of a        *)
(* cluster, which findings the rules make of it, and what the report says  *)
(* of the reads that failed. A message is what the rules look for in it,   *)
(* the wording of findings is left out, and so are the times of evidence.  *)
(*                                                                         *)
(* A cluster is a record of the answers its reads give: an answer is       *)
(* [error |-> "", value |-> <<v>>], or an error and no value.              *)
(***************************************************************************)
EXTENDS Integers, Sequences, FiniteSets
LOCAL INSTANCE SequencesExt
LOCAL INSTANCE Functions

CONSTANT StuckPodEventSample   \* stuck pods whose events are read

Failed(read) == read.error # ""
IssueCode(error) == IF error \in {"forbidden", "unauthorized"} THEN error ELSE "unavailable"

-----------------------------------------------------------------------------
(* The page of a pod, which the rules read (resources/pod.go).             *)

\* A container without a status has no state and never ended.
ContainerInfo(c) ==
  [name |-> c.name, ready |-> c.ready, last |-> c.last, exit |-> c.exit,
   state |-> CASE c.waiting # "" -> c.waiting
               [] c.waiting = "" /\ c.terminated # "" -> c.terminated
               [] c.waiting = "" /\ c.terminated = "" -> IF c.running THEN "Running" ELSE ""]

PodDetail(pod) ==
  [status |-> pod.phase, conditions |-> pod.conditions,
   containers |-> [i \in DOMAIN pod.containers |-> ContainerInfo(pod.containers[i])],
   init |-> [i \in DOMAIN pod.init |-> ContainerInfo(pod.init[i])]]

Broken == {"CrashLoopBackOff", "ImagePullBackOff", "ErrImagePull", "CreateContainerConfigError"}

\* The first container that is broken or not ready decides.
PodHealth(detail) ==
  LET telling == SelectSeq(detail.containers, LAMBDA c : c.state \in Broken \/ ~c.ready)
  IN  CASE detail.status = "Succeeded" -> "healthy"
        [] detail.status # "Succeeded" /\ telling # <<>> ->
             IF Head(telling).state \in Broken THEN "critical" ELSE "warning"
        [] detail.status # "Succeeded" /\ telling = <<>> ->
             IF detail.status = "Running" THEN "healthy" ELSE "progress"

-----------------------------------------------------------------------------
(* What was collected. Evidence goes by its identifier.                    *)

NewBundle ==
  [pod |-> <<>>, node |-> <<>>, inspect |-> FALSE, nodePods |-> <<>>, related |-> <<>>,
   events |-> <<>>, eventsOK |-> FALSE, podEvents |-> <<>>, capacity |-> <<>>,
   evidence |-> {}, scopes |-> {}, missing |-> {}, issues |-> <<>>]

NoteScope(bundle, scope) == [bundle EXCEPT !.scopes = @ \cup {scope}]
NoteMissing(bundle, scope) == [bundle EXCEPT !.missing = @ \cup {scope}]
Refused(bundle, scope, error) ==
  [NoteMissing(bundle, scope) EXCEPT !.issues = Append(@, [scope |-> scope, code |-> IssueCode(error)])]

Containers(detail) == detail.containers \o detail.init
RecordContainerEvidence(bundle, detail) ==
  [bundle EXCEPT !.evidence = @ \cup {<<"container", c.name>> : c \in Range(Containers(detail))}]
RecordNodeConditions(bundle, node) ==
  [bundle EXCEPT !.evidence = @ \cup {<<"condition", c.type>> : c \in Range(node.conditions)}]
Warnings(events) == SelectSeq(events, LAMBDA e : e.type = "Warning")
RecordWarningEvidence(bundle, events) ==
  [bundle EXCEPT !.evidence = @ \cup {<<"event", e.uid>> : e \in Range(Warnings(events))}]

CollectPod(cluster, bundle) ==
  LET read == cluster.pods[cluster.name]
      detail == PodDetail(read.value[1])
      seen == RecordContainerEvidence(
                NoteScope(NoteScope([bundle EXCEPT !.pod = <<detail>>], "Pod state"), "Container state"), detail)
  IN  IF Failed(read) THEN Refused(bundle, "Pod state", read.error)
      ELSE IF detail.status = "Pending" /\ cluster.capacity # <<>>
           THEN NoteScope([seen EXCEPT !.capacity = cluster.capacity], "Node capacity")
           ELSE seen

\* The events of the first stuck pods; of several refusals the first is noted.
CollectStuckPodEvents(cluster, bundle, stuck) ==
  LET sample == SubSeq(stuck, 1, IF Len(stuck) < StuckPodEventSample THEN Len(stuck) ELSE StuckPodEventSample)
      refusals == SelectSeq(sample, LAMBDA p : Failed(cluster.events[p]))
      found == FlattenSeq([i \in DOMAIN sample |->
                 IF Failed(cluster.events[sample[i]]) THEN <<>>
                 ELSE Warnings(cluster.events[sample[i]].value[1])])
      told == IF refusals = <<>> THEN bundle
              ELSE Refused(bundle, "Pod events", cluster.events[Head(refusals)].error)
  IN  IF found = <<>> THEN told
      ELSE RecordWarningEvidence(NoteScope([told EXCEPT !.podEvents = found], "Pod events"), found)

CollectEvents(cluster, bundle) ==
  LET read == cluster.events[cluster.name]
  IN  IF Failed(read) THEN Refused(bundle, "Events", read.error)
      ELSE RecordWarningEvidence(
             NoteScope([bundle EXCEPT !.events = read.value[1], !.eventsOK = TRUE], "Events"), read.value[1])

CollectNodeState(cluster, bundle) ==
  LET read == cluster.node
  IN  IF Failed(read) THEN Refused(bundle, "Node state", read.error)
      ELSE RecordNodeConditions(
             NoteScope(NoteScope([bundle EXCEPT !.node = read.value], "Node state"), "Node conditions"),
             read.value[1])

\* Without the node's own limit the pods are counted against none.
CollectNodePods(cluster, bundle) ==
  LET read == cluster.nodePods
      pods == [read.value[1] EXCEPT !.max = IF bundle.node = <<>> THEN 0 ELSE bundle.node[1].maxPods]
      seen == NoteScope([bundle EXCEPT !.nodePods = <<pods>>], "Pods on node")
  IN  IF Failed(read) THEN Refused(bundle, "Pods on node", read.error)
      ELSE CollectStuckPodEvents(cluster,
             IF pods.agents = <<>> THEN seen ELSE NoteScope(seen, "Network agent pods"), pods.stuck)

CollectNode(cluster, bundle) ==
  CollectEvents(cluster, CollectNodePods(cluster, CollectNodeState(cluster, bundle)))

CollectWorkload(cluster, bundle) ==
  LET seen == IF Failed(cluster.inspect) THEN Refused(bundle, "Workload status", cluster.inspect.error)
              ELSE NoteScope([bundle EXCEPT !.inspect = TRUE], "Workload status")
  IN  IF Failed(cluster.related) THEN Refused(seen, "Related pods", cluster.related.error)
      ELSE NoteScope([seen EXCEPT !.related = cluster.related.value[1]], "Related pods")

CoverageFrom(bundle) ==
  [missing |-> bundle.missing,
   state |-> CASE bundle.pod = <<>> /\ ~bundle.inspect /\ bundle.node = <<>> -> "unknown"
               [] OTHER -> IF bundle.missing = {} THEN "complete" ELSE "partial"]

-----------------------------------------------------------------------------
(* The rules. A finding says which evidence it cites, what it quotes and   *)
(* which related pod it is about, if it is not about the root itself.      *)

Finding(rule, severity, confidence, cites) ==
  [rule |-> rule, severity |-> severity, confidence |-> confidence, cites |-> cites,
   quotes |-> {}, free |-> <<>>, about |-> ""]

RelevantEvents(bundle) == (IF bundle.eventsOK THEN bundle.events ELSE <<>>) \o bundle.podEvents

OutOfMemory(c) == c.last = "OOMKilled" \/ (c.last = "" /\ c.exit = 137)
ContainerRules(c) ==
  LET id == {<<"container", c.name>>}
  IN  (CASE c.state = "CrashLoopBackOff" -> <<Finding("pod.crash_loop_backoff", "critical", "confirmed", id)>>
         [] c.state \in {"ImagePullBackOff", "ErrImagePull"} ->
              <<Finding("pod.image_pull_backoff", "critical", "confirmed", id)>>
         [] OTHER -> <<>>)
      \o (IF OutOfMemory(c) THEN <<Finding("pod.oom_killed", "critical", "confirmed", id)>> ELSE <<>>)

\* What each accelerator has left, where there is any.
Free(capacity) ==
  LET some == SelectSeq(capacity, LAMBDA g : g.allocatable > 0)
  IN  [i \in DOMAIN some |-> IF some[i].allocatable > some[i].requested
                             THEN some[i].allocatable - some[i].requested ELSE 0]

InsufficientGPUScheduling(bundle) ==
  LET told == SelectSeq(RelevantEvents(bundle), LAMBDA e : e.reason = "FailedScheduling" /\ e.says = "gpu")
  IN  IF bundle.pod[1].status # "Pending" \/ told = <<>> THEN <<>>
      ELSE <<[Finding("pod.insufficient_gpu", "warning", "supported", {}) EXCEPT
                !.quotes = {e.uid : e \in Range(told)}, !.free = Free(bundle.capacity)]>>

PodRules(bundle) ==
  LET pod == bundle.pod[1]
      all == Containers(pod)
      unscheduled == SelectSeq(pod.conditions, LAMBDA c : c.type = "PodScheduled" /\ c.status = "False")
  IN  FlattenSeq([i \in DOMAIN all |-> ContainerRules(all[i])])
      \o InsufficientGPUScheduling(bundle)
      \o [i \in DOMAIN unscheduled |->
            Finding("pod.scheduling_failed", "warning", "supported", {<<"condition", "PodScheduled">>})]

\* The first condition of a type, or none.
ConditionByType(bundle, type) ==
  LET same == SelectSeq(bundle.node[1].conditions, LAMBDA c : c.type = type)
  IN  IF same = <<>> THEN <<>> ELSE <<Head(same)>>
HasStatus(condition, statuses) == condition # <<>> /\ condition[1].status \in statuses

NetworkPluginFailing(bundle) ==
  /\ bundle.node # <<>>
  /\ LET ready == ConditionByType(bundle, "Ready")
     IN  \/ ready # <<>> /\ ready[1].says = "network"
         \/ HasStatus(ConditionByType(bundle, "NetworkUnavailable"), {"True"})

MemoryPressureTrueMutant(bundle) ==
  bundle.node # <<>> /\ ~HasStatus(ConditionByType(bundle, "MemoryPressure"), {"False"})
MemoryPressureTrue(bundle) ==
  bundle.node # <<>> /\ HasStatus(ConditionByType(bundle, "MemoryPressure"), {"True"})

HasSandboxFailure(bundle) ==
  \E e \in Range(RelevantEvents(bundle)) : e.type = "Warning" /\ e.reason = "FailedCreatePodSandBox"

\* Sandboxes refused memory, and the containers of network agents.
AllocationQuotes(bundle) ==
  {e.uid : e \in {x \in Range(RelevantEvents(bundle)) :
                    x.reason = "FailedCreatePodSandBox" /\ x.says = "allocation"}}
  \cup (IF bundle.nodePods = <<>> THEN {}
        ELSE {a.name : a \in {x \in Range(bundle.nodePods[1].agents) : "allocation" \in Range(x.ended)}})

\* A crowded node is only told of beside a refusal.
Crowded(bundle) ==
  /\ bundle.nodePods # <<>>
  /\ bundle.nodePods[1].max > 0
  /\ 10 * bundle.nodePods[1].used > 8 * bundle.nodePods[1].max

NetworkResourceExhaustion(bundle) ==
  LET quotes == AllocationQuotes(bundle)
  IN  IF /\ NetworkPluginFailing(bundle) \/ HasSandboxFailure(bundle)
         /\ ~MemoryPressureTrue(bundle)
         /\ quotes # {}
      THEN <<[Finding("node.network_resource_exhaustion", "warning", "supported", {}) EXCEPT
                !.quotes = quotes \cup (IF Crowded(bundle) THEN {"pods"} ELSE {})]>>
      ELSE <<>>

NodeRules(bundle) ==
  LET ready == {<<"condition", "Ready">>}
  IN  (IF HasStatus(ConditionByType(bundle, "Ready"), {"False", "Unknown"})
       THEN <<Finding("node.not_ready", "critical", "confirmed", ready)>> ELSE <<>>)
      \o (IF NetworkPluginFailing(bundle)
          THEN <<Finding("node.network_plugin_not_ready", "critical", "confirmed", ready)>> ELSE <<>>)
      \o NetworkResourceExhaustion(bundle)

EventRule(event) ==
  LET id == {<<"event", event.uid>>}
  IN  CASE event.reason = "FailedScheduling" ->
             <<Finding("event.failed_scheduling", "warning", "supported", id)>>
        [] event.reason = "FailedCreatePodSandBox" ->
             <<Finding("event.pod_sandbox_failed", "critical", "supported", id)>>
        [] event.reason \in {"FailedMount", "FailedAttachVolume"} ->
             <<Finding("event.volume_mount_failed", "critical", "supported", id)>>
        [] OTHER -> <<>>
EventRules(bundle) ==
  LET warnings == Warnings(RelevantEvents(bundle))
  IN  FlattenSeq([i \in DOMAIN warnings |-> EventRule(warnings[i])])

Severities == <<"critical", "warning", "informational">>
Rank(finding) == CHOOSE i \in DOMAIN Severities : Severities[i] = finding.severity

\* Every later finding that is graver is exchanged for the earlier one.
SortFindings(findings) ==
  LET Exchange(s, i, j) == IF Rank(s[j]) < Rank(s[i])
                           THEN [s EXCEPT ![i] = s[j], ![j] = s[i]] ELSE s
      Settle(s, i) == FoldLeft(LAMBDA t, k : Exchange(t, i, i + k), s, [k \in 1..(Len(s) - i) |-> k])
  IN  FoldLeft(Settle, findings, [i \in DOMAIN findings |-> i])

Analyze(bundle) ==
  LET ofPod == IF bundle.pod = <<>> THEN <<>> ELSE PodRules(bundle)
      ofNode == IF bundle.node = <<>> THEN <<>> ELSE NodeRules(bundle)
      all == ofPod \o ofNode \o EventRules(bundle)
      done == bundle.pod # <<>> /\ ofPod = <<>> /\ bundle.pod[1].status = "Succeeded"
  IN  CASE done -> <<>>
        [] ~done /\ all = <<>> /\ bundle.missing # {} ->
             <<Finding("report.insufficient_evidence", "informational", "unknown", {})>>
        [] OTHER -> SortFindings(all)

\* A related pod is judged by its own state; one that cannot be read is passed.
AnalyzeRelatedPods(cluster, bundle) ==
  LET pods == FlattenSeq([i \in DOMAIN bundle.related |->
                IF bundle.related[i].kind = "Pod" THEN bundle.related[i].rows ELSE <<>>])
      Of(name) == IF Failed(cluster.pods[name]) THEN <<>>
                  ELSE LET found == PodRules([NewBundle EXCEPT !.pod = <<PodDetail(cluster.pods[name].value[1])>>])
                       IN  [i \in DOMAIN found |-> [found[i] EXCEPT !.about = name]]
  IN  FlattenSeq([i \in DOMAIN pods |-> Of(pods[i])])

\* The object itself is asked for first, and without it there is no report. The
\* kind decides what is collected; events come by the name of the object.
Explain(cluster) ==
  LET kind == cluster.kind
      collected == CASE kind = "Pod" -> CollectEvents(cluster, CollectPod(cluster, NewBundle))
                     [] kind = "Node" -> CollectNode(cluster, NewBundle)
                     [] kind = "Workload" -> CollectEvents(cluster, CollectWorkload(cluster, NewBundle))
                     [] OTHER -> CollectEvents(cluster, NoteMissing(NewBundle, "Explain Why"))
      findings == IF kind = "Workload"
                  THEN SortFindings(Analyze(collected) \o AnalyzeRelatedPods(cluster, collected))
                  ELSE Analyze(collected)
  IN  IF Failed(cluster.get) THEN [report |-> FALSE]
      ELSE [report |-> TRUE, coverage |-> CoverageFrom(collected), findings |-> findings,
            issues |-> collected.issues, bundle |-> collected]
=============================================================================
