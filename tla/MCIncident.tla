------------------------------- MODULE MCIncident -------------------------------
(***************************************************************************)
(* Objects to explain: a pod, a node with stuck pods and agents, and a     *)
(* workload with two pods, each with reads that answer or fail.            *)
(***************************************************************************)
EXTENDS Incident
LOCAL INSTANCE SequencesExt
LOCAL INSTANCE Functions

Got(v) == [error |-> "", value |-> <<v>>]
No(error) == [error |-> error, value |-> <<>>]

Container(name, waiting, terminated, last, exit) ==
  [name |-> name, ready |-> waiting = "" /\ terminated = "", waiting |-> waiting, terminated |-> terminated,
   running |-> waiting = "" /\ terminated = "", last |-> last, exit |-> exit]
App == {Container("app", "", "", "", 0), Container("app", "CrashLoopBackOff", "", "OOMKilled", 137),
        Container("app", "ErrImagePull", "", "", 0), Container("app", "", "Completed", "", 0),
        Container("app", "", "", "Error", 137)}
Initial == {<<>>, <<Container("init", "", "Completed", "", 137)>>}
Condition(type, status, says) == [type |-> type, status |-> status, says |-> says]
Unscheduled == Condition("PodScheduled", "False", "")
Pod(phase, containers, init, conditions) ==
  [phase |-> phase, containers |-> containers, init |-> init, conditions |-> conditions]
Pods == {Pod(p, <<a>>, i, <<>>) : p \in {"Pending", "Running"}, a \in App, i \in Initial}
  \cup {Pod("Pending", <<Container("app", "", "", "", 0)>>, i, <<Unscheduled>>) : i \in Initial}
  \cup {Pod("Succeeded", <<Container("app", "", "Completed", last, 0)>>, i, <<>>) :
          last \in {"", "OOMKilled"}, i \in Initial}
Well == Pod("Running", <<Container("app", "", "", "", 0)>>, <<>>, <<>>)

Event(uid, type, reason, says) == [uid |-> uid, type |-> type, reason |-> reason, says |-> says]
NoGPU == Event("e1", "Warning", "FailedScheduling", "gpu")
Sandbox == Event("e2", "Warning", "FailedCreatePodSandBox", "allocation")
Mount == Event("e3", "Warning", "FailedMount", "")
Pulled == Event("e4", "Normal", "Pulled", "")
EventReads == {No("forbidden"), No("timeout"), Got(<<>>), Got(<<Pulled, NoGPU>>), Got(<<NoGPU, Mount>>),
               Got(<<Sandbox, Pulled>>)}

Cluster(kind, pods, events) ==
  [kind |-> kind, name |-> "a", get |-> Got("a"), pods |-> pods, events |-> events, capacity |-> <<>>,
   node |-> No("timeout"), nodePods |-> No("timeout"), inspect |-> No("timeout"), related |-> No("timeout")]
Named(f) == [n \in {"a", "b", "c"} |-> f]

OfPods == {[Cluster("Pod", Named(read), Named(events)) EXCEPT !.capacity = capacity] :
             read \in {Got(p) : p \in Pods} \cup {No("unauthorized")}, events \in EventReads,
             capacity \in {<<>>, <<[allocatable |-> 0, requested |-> 0], [allocatable |-> 2, requested |-> 3],
                                   [allocatable |-> 4, requested |-> 3]>>}}

Conditions == {<<Condition("Ready", s, w)>> \o m \o u :
                 s \in {"True", "Unknown"}, w \in {"", "network"},
                 m \in {<<>>, <<Condition("MemoryPressure", "True", "")>>, <<Condition("MemoryPressure", "False", "")>>},
                 u \in {<<>>, <<Condition("NetworkUnavailable", "True", "")>>}}
NodeReads == {No("forbidden")} \cup {Got([maxPods |-> 5, conditions |-> c]) : c \in Conditions}
PodReads == {No("forbidden")} \cup
  {Got([used |-> u, max |-> 0, stuck |-> s, agents |-> g]) : u \in {1, 5}, s \in {<<>>, <<"b", "c", "d">>},
      g \in {<<>>, <<[name |-> "agent", ended |-> <<"", "allocation">>]>>, <<[name |-> "agent", ended |-> <<"">>]>>}}
OfNodes == {[Cluster("Node", Named(Got(Well)),
                     [n \in {"a", "b", "c", "d"} |-> CASE n = "a" -> own [] n = "b" -> first [] OTHER -> second])
               EXCEPT !.node = node, !.nodePods = pods] :
             own \in {No("forbidden"), Got(<<>>), Got(<<Mount>>)}, first \in {No("forbidden"), Got(<<Pulled>>)},
             second \in {No("timeout"), Got(<<Sandbox>>)}, node \in NodeReads, pods \in PodReads}

OfWorkloads == {[Cluster("Workload", [n \in {"a", "b", "c"} |-> IF n = "b" THEN b ELSE c], Named(events))
                   EXCEPT !.inspect = inspect, !.related = related] :
                 b \in {Got(p) : p \in Pods}, c \in {No("forbidden"), Got(Well)},
                 events \in {No("forbidden"), Got(<<>>), Got(<<Mount>>)}, inspect \in {No("timeout"), Got("ok")},
                 related \in {No("forbidden"),
                              Got(<<[kind |-> "ReplicaSet", rows |-> <<"r">>], [kind |-> "Pod", rows |-> <<"b", "c">>]>>)}}
Others == {Cluster("Other", Named(Got(Well)), Named(events)) : events \in EventReads}
Refusing == {[Cluster(k, Named(Got(Well)), Named(Got(<<>>))) EXCEPT !.get = No("forbidden")] :
               k \in {"Pod", "Node", "Workload", "Other"}}

Questions == OfPods \cup OfNodes \cup OfWorkloads \cup Others \cup Refusing

Answer(q) == Explain(q)

-----------------------------------------------------------------------------
Rules(a) == {f.rule : f \in Range(a.findings)}
OfRoot(a) == SelectSeq(a.findings, LAMBDA f : f.about = "")

\* Reads of the root's own page, of its events and of what belongs to it; the
\* pages of a workload's pods are not among them.
Unread(q) ==
  (IF q.kind = "Pod" /\ Failed(q.pods["a"]) THEN {"Pod state"} ELSE {})
  \cup (IF Failed(q.events["a"]) THEN {"Events"} ELSE {})
  \cup (IF q.kind = "Node" /\ Failed(q.node) THEN {"Node state"} ELSE {})
  \cup (IF q.kind = "Node" /\ Failed(q.nodePods) THEN {"Pods on node"} ELSE {})
  \cup (IF q.kind = "Workload" /\ Failed(q.inspect) THEN {"Workload status"} ELSE {})
  \cup (IF q.kind = "Workload" /\ Failed(q.related) THEN {"Related pods"} ELSE {})

\* Nothing is called well because it was not looked at: a read that failed is
\* missing from the report, and a report that misses something says so even if
\* it found nothing, unless a pod has succeeded. Not so the pod of a workload: one
\* that cannot be read is passed over (service.go:254) and the report may be
\* called complete; at least nothing is said of it.
NothingHushed(q, a) ==
  /\ Unread(q) \subseteq a.coverage.missing
  /\ a.coverage.missing # {} => a.coverage.state # "complete"
  /\ \A i \in DOMAIN a.issues : a.issues[i].scope \in a.coverage.missing
  /\ OfRoot(a) = <<>> /\ a.coverage.missing # {} =>
       a.bundle.pod # <<>> /\ a.bundle.pod[1].status = "Succeeded"
  /\ "report.insufficient_evidence" \in Rules(a) => Len(OfRoot(a)) = 1
  /\ \A f \in Range(a.findings) : f.about # "" => ~Failed(q.pods[f.about])

\* A container that keeps failing is found in every pod that was read and is not
\* over, whoever owns it, also when it runs again (:228); and what is said of a
\* container is true of it. Of a pod that succeeded only a container that once ran
\* out of memory is told, which the specification (:229) would not have and is
\* not demanded.
Troubled(pod) ==
  /\ pod.phase # "Succeeded"
  /\ \E c \in Range(Containers(PodDetail(pod))) :
       c.state \in {"CrashLoopBackOff", "ErrImagePull"} \/ c.last = "OOMKilled"
ContainersTold(q, a) ==
  LET read == {n \in DOMAIN q.pods : ~Failed(q.pods[n]) /\
                 \/ q.kind = "Pod" /\ n = "a"
                 \/ q.kind = "Workload" /\ ~Failed(q.related) /\ n \in {"b", "c"}}
      On(n) == {f \in Range(a.findings) : f.about = (IF q.kind = "Pod" THEN "" ELSE n)
                                          /\ f.confidence = "confirmed"}
  IN  /\ \A n \in read : Troubled(q.pods[n].value[1]) => On(n) # {}
      /\ \A n \in read, f \in Range(a.findings) :
           f \in On(n) => \A id \in f.cites : \E c \in Range(Containers(PodDetail(q.pods[n].value[1]))) :
             /\ id = <<"container", c.name>>
             /\ PodHealth(PodDetail(q.pods[n].value[1])) = "healthy" => OutOfMemory(c)

\* What a finding on the root cites was collected. A condition of a pod, and
\* Ready of a node without it, are cited and never collected.
CitesCollected(a) ==
  \A f \in Range(OfRoot(a)) : f.rule # "pod.scheduling_failed" => f.cites \subseteq a.bundle.evidence

\* A refused allocation is laid to a limit of the network when the node is not
\* short of memory, whether it says so or says nothing, and when something
\* was quoted beside how crowded the node is.
Limits(q, a) ==
  LET exhausted == "node.network_resource_exhaustion" \in Rules(a)
      quoted == \/ \E n \in {"b", "c"} : ~Failed(q.events[n]) /\ Sandbox \in Range(q.events[n].value[1])
                                       /\ ~Failed(q.nodePods) /\ q.nodePods.value[1].stuck # <<>>
                \/ ~Failed(q.nodePods) /\ \E g \in Range(q.nodePods.value[1].agents) : "allocation" \in Range(g.ended)
      failing == \/ "node.network_plugin_not_ready" \in Rules(a)
                 \/ "event.pod_sandbox_failed" \in Rules(a)
      short == ~Failed(q.node) /\ Condition("MemoryPressure", "True", "") \in Range(q.node.value[1].conditions)
  IN  q.kind = "Node" /\ ~Failed(q.node) => (exhausted <=> quoted /\ failing /\ ~short)

\* Graver findings come first, and putting them in order loses none.
InOrder(q, a) ==
  /\ \A i, j \in DOMAIN a.findings : i < j => Rank(a.findings[i]) <= Rank(a.findings[j])
  /\ q.kind = "Pod" /\ a.bundle.pod # <<>> /\ a.findings # <<>>
       /\ "report.insufficient_evidence" \notin Rules(a) =>
       LET made == PodRules(a.bundle) \o EventRules(a.bundle)
       IN  Range(made) = Range(a.findings) /\ Len(made) = Len(a.findings)

Explained(q, a) ==
  /\ a.report = ~Failed(q.get)
  /\ a.report => NothingHushed(q, a) /\ ContainersTold(q, a) /\ CitesCollected(a) /\ Limits(q, a) /\ InOrder(q, a)
=============================================================================
