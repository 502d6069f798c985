---------------------------- MODULE NodeAccounting ----------------------------
(***************************************************************************)
(* What the pods of a cluster ask of its nodes, and what a node's page and *)
(* the overview count (internal/resources: capacity, gpu, node, overview). *)
(* Quantities are numbers; a list of resources is a function over those it *)
(* names. Whether an initial container is a sidecar is not looked at.      *)
(***************************************************************************)
EXTENDS Integers, Sequences, FiniteSets
LOCAL INSTANCE SequencesExt
LOCAL INSTANCE FiniteSetsExt
LOCAL INSTANCE Functions

CONSTANTS Accelerators,   \* the resources isGPUResource accepts
          NodeListLimit   \* nodeListLimit

Total(seq) == FoldLeft(+, 0, seq)
Largest(seq) == FoldLeft(LAMBDA a, b : IF b > a THEN b ELSE a, 0, seq)

-----------------------------------------------------------------------------
(* Nodes and pods.                                                         *)

ConditionTrue(object, type) ==
  LET same == SelectSeq(object.conditions, LAMBDA c : c.type = type)
  IN  same # <<>> /\ Head(same).status = "True"

NodeReady(node) == ConditionTrue(node, "Ready")
PodReady(pod) == ConditionTrue(pod, "Ready")
PodScheduled(pod) == ConditionTrue(pod, "PodScheduled")

Finished == {"Succeeded", "Failed"}
CountsTowardNode(pod) == pod.node # "" /\ pod.phase \notin Finished

Amount(list, resource) == IF resource \in DOMAIN list THEN list[resource] ELSE 0
Asks(containers, of, resource) == [i \in DOMAIN containers |-> Amount(containers[i][of], resource)]

PodResourcesMutant(pod, of, resource) ==
  Total(Asks(pod.containers, of, resource)) + Largest(Asks(pod.init, of, resource))
  + Amount(pod.overhead, resource)

\* podResources: the requests of one resource, or the limits.
PodResources(pod, of, resource) ==
  Largest(<<Total(Asks(pod.containers, of, resource)), Largest(Asks(pod.init, of, resource))>>)
  + Amount(pod.overhead, resource)

\* podGPURequests: a container's request is kept when it is named, if only with
\* 0, an initial one's when it is more than that; overhead is not counted.
PodGPURequests(pod) ==
  LET named == {a \in Accelerators : \E c \in Range(pod.containers) : a \in DOMAIN c.requests}
      larger == {a \in Accelerators : \E c \in Range(pod.init) : Amount(c.requests, a) > 0}
  IN  [r \in named \cup larger |->
         Largest(<<Total(Asks(pod.containers, "requests", r)), Largest(Asks(pod.init, "requests", r))>>)]
PodRequestsGPU(pod) == DOMAIN PodGPURequests(pod) # {}

-----------------------------------------------------------------------------
(* nodeCapacity. Usage is known for some nodes, or for none.               *)

Unscheduled(pod) == pod.phase = "Pending" /\ pod.node = ""

NodeGPUCapacity(node, pods) ==
  LET requested == UNION {DOMAIN PodGPURequests(p) : p \in Range(pods)}
      names == (Accelerators \cap DOMAIN node.allocatable) \cup requested
      Of(pod, name) == IF name \in DOMAIN PodGPURequests(pod) THEN PodGPURequests(pod)[name] ELSE 0
  IN  [n \in names |-> [allocatable |-> Amount(node.allocatable, n),
                        requested |-> Total([i \in DOMAIN pods |-> Of(pods[i], n)])]]

NodeEntry(node, pods, usage) ==
  LET own == SelectSeq(pods, LAMBDA p : CountsTowardNode(p) /\ p.node = node.name)
  IN  [name |-> node.name, ready |-> NodeReady(node), cordoned |-> node.cordoned,
       podsUsed |-> Len(own),
       request |-> [r \in {"cpu", "memory"} |->
                      Total([i \in DOMAIN own |-> PodResources(own[i], "requests", r)])],
       limit |-> [r \in {"cpu", "memory"} |->
                    Total([i \in DOMAIN own |-> PodResources(own[i], "limits", r)])],
       gpu |-> NodeGPUCapacity(node, own),
       used |-> IF node.name \in DOMAIN usage THEN usage[node.name] ELSE 0]

NodeCapacity(nodes, pods, usage) ==
  LET waiting == SelectSeq(pods, Unscheduled)
  IN  [nodes |-> {NodeEntry(n, pods, usage) : n \in Range(nodes)},
       unscheduled |-> Len(waiting),
       unscheduledGPU |-> Len(SelectSeq(waiting, PodRequestsGPU))]

\* Overview: each listing that is refused costs what is read from it.
Overview(cluster) ==
  LET nodes == IF cluster.lists.nodes THEN cluster.nodes ELSE <<>>
      pods == IF cluster.lists.pods THEN cluster.pods ELSE <<>>
  IN  [nodes |-> Len(nodes), nodesReady |-> Len(SelectSeq(nodes, NodeReady)),
       pods |-> Len(pods),
       podsReady |-> Len(SelectSeq(pods, LAMBDA p : p.phase \in {"Running", "Succeeded"})),
       capacity |-> IF nodes = <<>> THEN [nodes |-> {}, unscheduled |-> 0, unscheduledGPU |-> 0]
                    ELSE NodeCapacity(nodes, pods, cluster.usage)]

-----------------------------------------------------------------------------
(* The page of a node.                                                     *)

\* The first container that says why it waits, the initial ones before.
WaitingReason(pod) ==
  LET said == SelectSeq(pod.init \o pod.containers, LAMBDA c : c.waiting # "")
  IN  IF said = <<>> THEN "" ELSE Head(said).waiting

\* Why an assigned pod has not started, or nothing.
StuckPod(pod) ==
  CASE pod.phase \in Finished -> ""
    [] pod.phase \notin Finished /\ (WaitingReason(pod) = "ContainerCreating"
                                     \/ pod.reason = "ContainerCreating") -> "ContainerCreating"
    [] OTHER -> IF pod.phase # "Pending" \/ ~PodScheduled(pod) THEN ""
                ELSE IF pod.reason = "" THEN "Pending" ELSE pod.reason

NetworkAgent(pod) == pod.namespace = "kube-system" /\ ~PodReady(pod) /\ pod.daemon

\* agentContainer: the state now, and why the container ended the last time.
AgentContainer(c) ==
  [state |-> IF c.waiting # "" THEN c.waiting ELSE IF c.terminated # "" THEN c.terminated ELSE "Running",
   last |-> IF c.last # "" THEN c.last ELSE c.terminated]

NodePods(pods, node) ==
  LET all == SelectSeq(pods, LAMBDA p : p.node = node)
      listed == SubSeq(all, 1, Min({Len(all), NodeListLimit}))
      stuck == SelectSeq(listed, LAMBDA p : StuckPod(p) # "")
      agents == SelectSeq(listed, NetworkAgent)
  IN  [podsUsed |-> Len(SelectSeq(listed, CountsTowardNode)),
       byPhase |-> [ph \in {p.phase : p \in Range(listed)} |->
                      Len(SelectSeq(listed, LAMBDA p : p.phase = ph))],
       stuck |-> {[name |-> p.name, reason |-> StuckPod(p)] : p \in Range(stuck)},
       agents |-> {[name |-> p.name,
                    containers |-> [i \in DOMAIN (p.init \o p.containers) |->
                                      AgentContainer((p.init \o p.containers)[i])]] : p \in Range(agents)}]
=============================================================================
