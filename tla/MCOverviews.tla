------------------------------ MODULE MCOverviews ------------------------------
(***************************************************************************)
(* What the two overviews count: clusters of two nodes to account for, and *)
(* the dashboard of Argo CD, with all and with some of its listings.       *)
(***************************************************************************)
EXTENDS NodeAccounting, ArgoStatus
LOCAL INSTANCE FiniteSetsExt
LOCAL INSTANCE SequencesExt
LOCAL INSTANCE Functions

-----------------------------------------------------------------------------
(* Nodes.                                                                  *)

Gpu == CHOOSE a \in Accelerators : TRUE
Cpu(amount) == [r \in {"cpu"} |-> amount]
CpuAndGpu(amount, gpu) == [r \in {"cpu", Gpu} |-> IF r = Gpu THEN gpu ELSE amount]
Container(requests, waiting, terminated) ==
  [requests |-> requests, limits |-> Cpu(requests["cpu"] + 1), waiting |-> waiting,
   terminated |-> terminated, last |-> "", sidecar |-> FALSE]
Unlimited(container) == [container EXCEPT !.limits = <<>>]
Sidecar(container) == [container EXCEPT !.sidecar = TRUE]
Shapes == {[containers |-> c, init |-> i] :
  c \in {<<Container(Cpu(1), "", "")>>, <<Unlimited(Container(CpuAndGpu(1, 0), "", ""))>>,
         <<Container(CpuAndGpu(2, 1), "", ""), Container(CpuAndGpu(2, 1), "ContainerCreating", "")>>},
  i \in {<<>>, <<Container(CpuAndGpu(3, 0), "", "Error")>>,
         <<Container(CpuAndGpu(1, 3), "", ""), Container(Cpu(5), "Init", "")>>,
         <<Sidecar(Container(Cpu(3), "", "")), Container(Cpu(1), "", "")>>}}

Pod(name, phase, node, shape, reason, conditions) ==
  [name |-> name, phase |-> phase, node |-> node, containers |-> shape.containers, init |-> shape.init,
   overhead |-> Cpu(1), reason |-> reason, conditions |-> conditions,
   namespace |-> "kube-system", daemon |-> TRUE]
True(type) == [type |-> type, status |-> "True"]
Placed == {<<"Pending", "">>, <<"Pending", "n1">>, <<"Running", "n1">>, <<"Succeeded", "n1">>,
           <<"Running", "n2">>, <<"Running", "gone">>, <<"Failed", "">>}
PodsOf(name) == {Pod(name, p[1], p[2], s, r, c) : p \in Placed, s \in Shapes, r \in {"", "Evicting"},
                 c \in {<<>>, <<True("PodScheduled")>>}}
Plain == [containers |-> <<Container(Cpu(1), "", "")>>, init |-> <<>>]

Node(name, ready) == [name |-> name, conditions |-> IF ready THEN <<True("Ready")>> ELSE <<>>,
                      cordoned |-> FALSE, allocatable |-> CpuAndGpu(4, 2)]
Nodes == <<Node("n1", TRUE), Node("n2", FALSE)>>
Cluster(pods, nodes, readable) ==
  [nodes |-> nodes, pods |-> pods, lists |-> [nodes |-> TRUE, pods |-> readable],
   usage |-> [n \in {"n1"} |-> 7]]
Second == Pod("b", "Running", "n1", [Plain EXCEPT !.init = <<Container(CpuAndGpu(3, 2), "", "")>>], "", <<>>)
NodeQuestions ==
  {Cluster(p, Nodes, TRUE) : p \in {<<a>> : a \in PodsOf("a")} \cup {<<a, Second>> : a \in PodsOf("a")}
                                 \cup {<<Second, a, Pod("c", "Running", "n1", Plain, "", <<>>)>> : a \in PodsOf("a")}}
  \cup {Cluster(<<Second>>, n, r) : n \in {<<>>, Nodes}, r \in BOOLEAN}

NodeAnswer(q) == [overview |-> Overview(q), page |-> NodePods(q.pods, "n1")]

-----------------------------------------------------------------------------
(* What the scheduler reserves: as much as the pod needs at any moment of  *)
(* its life, each initial container beside the sidecars that were started  *)
(* before it, and then the others beside all of them.                      *)

Needs(containers, of, resource) ==
  FoldLeft(LAMBDA n, c : n + Amount(c[of], resource), 0, containers)
Sidecars(containers) == SelectSeq(containers, LAMBDA c : c.sidecar)
Moments(pod, of, resource) ==
  {Needs(Append(Sidecars(SubSeq(pod.init, 1, i - 1)), pod.init[i]), of, resource) : i \in DOMAIN pod.init}
  \cup {Needs(Sidecars(pod.init) \o pod.containers, of, resource)}
Reserved(pod, of, resource) ==
  (CHOOSE m \in Moments(pod, of, resource) : \A k \in Moments(pod, of, resource) : k <= m)
Sum(pods, of, resource, overhead) ==
  FoldLeft(LAMBDA n, p : n + Reserved(p, of, resource) + overhead, 0, pods)

\* capacity.go:81 "matching the scheduler: max(sum(containers),
\* max(initContainers)) + overhead": a node is charged for the pods that hold a
\* place on it and for nothing else, every pod of the cluster counts once, and
\* the page of a node counts as the overview does. A pod with sidecars is
\* charged no more than the scheduler reserves for it, and often less, as a
\* sidecar is read as an initial container that ends. Of the pods that wait for a
\* node at least those that ask for an accelerator are said to, and at most
\* those that name one, which a request of 0 does.
Accounted(q, a) ==
  LET capacity == a.overview.capacity
      Live(name) == SelectSeq(q.pods, LAMBDA p : p.node = name /\ p.phase \notin {"Succeeded", "Failed"})
      elsewhere == SelectSeq(q.pods, LAMBDA p : p.phase \in {"Succeeded", "Failed"} \/ p.node = "gone")
      waiting == SelectSeq(q.pods, LAMBDA p : p.phase = "Pending" /\ p.node = "")
      entry == CHOOSE e \in capacity.nodes : e.name = "n1"
      complete == q.nodes # <<>> /\ q.lists.pods
      plain == \A i \in DOMAIN Live("n1") : Sidecars(Live("n1")[i].init) = <<>>
      Charged(charge, reserved) == charge <= reserved /\ (plain => charge = reserved)
  IN  /\ complete =>
           /\ entry.podsUsed = Len(Live("n1"))
           /\ Charged(entry.request.cpu, Sum(Live("n1"), "requests", "cpu", 1))
           /\ Charged(entry.limit.cpu, Sum(Live("n1"), "limits", "cpu", 1))
           /\ entry.gpu[Gpu].allocatable = 2
           /\ Charged(entry.gpu[Gpu].requested, Sum(Live("n1"), "requests", Gpu, 0))
           /\ MapThenSumSet(LAMBDA e : e.podsUsed, capacity.nodes) + capacity.unscheduled
                + Len(elsewhere) = Len(q.pods)
           /\ a.page.podsUsed <= entry.podsUsed
           /\ Len(SelectSeq(q.pods, LAMBDA p : p.node = "n1")) <= NodeListLimit =>
                a.page.podsUsed = entry.podsUsed
           /\ entry.used = 7 /\ entry.ready
           /\ capacity.unscheduledGPU >= Len(SelectSeq(waiting, LAMBDA p : Reserved(p, "requests", Gpu) > 0))
           /\ capacity.unscheduledGPU <= Len(SelectSeq(waiting, LAMBDA p :
                \E c \in Range(p.containers \o p.init) : Gpu \in DOMAIN c.requests))
      /\ capacity.unscheduledGPU <= capacity.unscheduled
      /\ \A s \in a.page.stuck : \E p \in Range(q.pods) :
           p.name = s.name /\ p.node = "n1" /\ p.phase \notin {"Succeeded", "Failed"}
      /\ \A g \in a.page.agents : \A i \in DOMAIN g.containers :
           g.containers[i].state = "Error" => g.containers[i].last = "Error"

-----------------------------------------------------------------------------
(* Pages of Applications.                                                  *)

App(name, health, sync, message) ==
  [namespace |-> 1, name |-> name, health |-> health, sync |-> sync, message |-> message]
Healths == {"healthy", "progressing", "degraded", "missing", "suspended", ""}
Pages == {<<App(3, h, s, m), App(1, g, "outofsync", ""), App(2, "degraded", t, "why")>> :
            h \in Healths, s \in {"synced", "outofsync", ""}, m \in {"", "why"},
            g \in Healths, t \in {"synced", "outofsync"}}

Event(words, warning, last, first) ==
  [argo |-> TRUE, words |-> words, warning |-> warning, last |-> last, event |-> 0, first |-> first]
Histories == SeqOf({Event({"unhealthy", "healthy"}, FALSE, 2, 1), Event({"syncing"}, TRUE, 0, 3),
                    Event({"synced", "syncing"}, FALSE, 1, 1),
                    [Event({}, FALSE, 4, 4) EXCEPT !.argo = FALSE]}, 3)

Readable == [k \in Range(CardKinds) \cup {"events"} |-> TRUE]
DashboardQuestions ==
  {[of |-> "page", apps |-> p, events |-> <<>>, lists |-> [Readable EXCEPT !.applications = r],
    installed |-> i] : p \in Pages, r \in BOOLEAN, i \in BOOLEAN}
  \cup {[of |-> "page", apps |-> <<>>, events |-> h, lists |-> [Readable EXCEPT ![k] = FALSE],
         installed |-> TRUE] : h \in Histories, k \in {"sets", "events"}}

\* Every Application that is degraded, missing or out of sync is on the page,
\* once and the worst first; the chips count no fewer than those; the timeline
\* has the newest events of Argo CD.
Counted(q, page) ==
  LET wanted == {a \in Range(q.apps) : a.health \in {"degraded", "missing"} \/ a.sync = "outofsync"}
      shown == page.attention
      readable == q.lists.applications
  IN  /\ {shown[i].name : i \in DOMAIN shown} = IF readable THEN {a.name : a \in wanted} ELSE {}
      /\ Len(shown) = IF readable THEN Cardinality(wanted) ELSE 0
      /\ \A i, j \in DOMAIN shown : i < j => shown[i].severity <= shown[j].severity
      /\ readable => \A k \in {"degraded", "missing"} :
           page.summary[k] = Cardinality({a \in wanted : a.health = k})
      /\ \A i \in DOMAIN ChipsFor(page.summary) : ChipsFor(page.summary)[i].count > 0
      /\ \A i, j \in DOMAIN page.activity : i < j => page.activity[i].at >= page.activity[j].at
      /\ Len(page.activity) <= ActivityLimit
      /\ \A e \in Range(q.events) : e.argo /\ EventTime(e) = 3 /\ q.lists.events =>
           page.activity[1].at = 3 /\ page.activity[1].category = "failure"
      /\ \A a \in Range(Applications(q.apps)) : a.health = "healthy" => a.reason = ""
=============================================================================
