---------------------------- MODULE MCComparison ----------------------------
(***************************************************************************)
(* What a comparison is asked: a manifest, the object that the API server  *)
(* made of it, and what happened to that object since.                     *)
(***************************************************************************)
EXTENDS SourceComparison
LOCAL INSTANCE SequencesExt

Fill(x, path, v) == IF Sets(x, path) THEN x ELSE With(x, path, v)

-----------------------------------------------------------------------------
(* The API server, which is external: it fills in what a manifest omits.   *)

FilledContainer(c) ==
  LET policy == IF At(c, <<"image">>) \in {Leaf(i) : i \in FloatingImages}
                THEN "Always" ELSE "IfNotPresent"
      filled == Fill(Fill(c, <<"resources">>, NoFields), <<"imagePullPolicy">>, Leaf(policy))
  IN  IF ~Sets(c, <<"ports">>) THEN filled
      ELSE LET ports == At(c, <<"ports">>).list
           IN  With(filled, <<"ports">>,
                    List([i \in DOMAIN ports |-> Fill(ports[i], <<"protocol">>, Leaf("TCP"))]))

Containers == <<"spec", "template", "spec", "containers">>
Volumes == <<"spec", "template", "spec", "volumes">>

FilledStrategy(x) ==
  LET typed == Fill(x, <<"spec", "strategy", "type">>, Leaf("RollingUpdate"))
      rolling == <<"spec", "strategy", "rollingUpdate">>
  IN  IF At(typed, <<"spec", "strategy", "type">>) # Leaf("RollingUpdate") THEN typed
      ELSE Fill(Fill(typed, Append(rolling, "maxSurge"), Leaf("25%")),
                Append(rolling, "maxUnavailable"), Leaf("25%"))

Served(x) ==
  LET own == Fill(Fill(FilledStrategy(x), <<"spec", "replicas">>, Leaf("1")),
                  <<"metadata", "namespace">>, Leaf("shop"))
      cs == At(x, Containers).list
      pod == With(Fill(Fill(own, <<"spec", "template", "spec", "restartPolicy">>, Leaf("Always")),
                       <<"spec", "template", "spec", "securityContext">>, NoFields),
                  Containers, List([i \in DOMAIN cs |-> FilledContainer(cs[i])]))
      volumes == IF ~Sets(x, Volumes) THEN pod
                 ELSE With(pod, Volumes,
                   List([i \in DOMAIN At(x, Volumes).list |->
                     LET v == At(x, Volumes).list[i]
                     IN  IF Sets(v, <<"hostPath">>) THEN Fill(v, <<"hostPath", "type">>, Leaf(""))
                         ELSE v]))
  IN  With(With(With(volumes, <<"status", "replicas">>, Leaf("1")),
                <<"metadata", "uid">>, Leaf("u")),
           <<"spec", "template", "metadata", "creationTimestamp">>, Null)

-----------------------------------------------------------------------------
(* The manifests. A port is named by its number, and no two are the same.  *)

Option(name, v) == [n \in {name} |-> v]
None == [n \in {} |-> Null]

Port(n) == Map(Option("containerPort", Leaf(n)))
PortLists == {None, Option("ports", List(<<Port("80"), With(Port("53"), <<"protocol">>, Leaf("UDP"))>>))}
Policies == {None, Option("imagePullPolicy", Leaf("Always"))}
Strategies ==
  {None} \cup {Option("strategy", s) : s \in {
     Map(Option("type", Leaf("RollingUpdate"))), Map(Option("type", Leaf("Recreate"))),
     With(NoFields, <<"rollingUpdate", "maxSurge">>, Leaf("1"))}}
Volume == Option("volumes", List(<<
  With(Map(Option("name", Leaf("v"))), <<"hostPath", "path">>, Leaf("/srv")),
  With(Map(Option("name", Leaf("w"))), <<"emptyDir">>, NoFields)>>))

Image(pinned) == Leaf(IF pinned THEN "api:1" ELSE "api")
Second == Map(Option("name", Leaf("b")) @@ Option("image", Leaf("web:1")))

Manifest(replicas, strategy, first, volumes, metadata) ==
  Map(Option("kind", Leaf("Deployment")) @@
      Option("metadata", Map(Option("name", Leaf("api")) @@ metadata)) @@
      Option("spec", Map(replicas @@ strategy @@ Option("template",
        Map(Option("spec", Map(Option("containers", List(<<first, Second>>)) @@ volumes)))))))

Manifests ==
  {Manifest(r, s, Map(Option("name", Leaf("a")) @@ Option("image", Image(p)) @@ i @@ t), v[1], v[2]) :
     r \in {None, Option("replicas", Leaf("1")), Option("replicas", Leaf("2"))},
     s \in Strategies, p \in BOOLEAN, i \in Policies, t \in PortLists,
     v \in {<<None, None>>, <<Volume, Option("namespace", Leaf("shop")) @@
                  Option("annotations", Map(Option("team", Leaf("x"))))>>}}

-----------------------------------------------------------------------------
(* What happens to the object afterwards.                                  *)

\* Writers of fields that no manifest has.
Quiet == {"nothing", "tracked by annotation", "tracked by label", "rolled out", "restarted",
          "reordered"}

ContainerAt(i) == Keys(Containers) \o <<Element("name", Leaf(IF i = 1 THEN "a" ELSE "b"))>>

\* Changes that somebody made in the cluster, and where.
Loud ==
  {[of |-> "field", path |-> p, value |-> v] : p \in {
       <<"spec", "replicas">>, <<"spec", "strategy", "type">>,
       <<"metadata", "labels", "team">>, <<"metadata", "deletionTimestamp">>},
     v \in {Leaf("1"), Leaf("3"), Leaf("Recreate")}}
  \cup {[of |-> "image"], [of |-> "protocol"], [of |-> "sidecar"], [of |-> "lost container"],
        [of |-> "host path"]}

Place(c) ==
  CASE c.of = "field" -> Keys(c.path)
    [] c.of = "image" -> Append(ContainerAt(1), Key("image"))
    [] c.of = "protocol" -> ContainerAt(1) \o
         <<Key("ports"), Element("containerPort", Leaf("80")), Key("protocol")>>
    [] c.of = "sidecar" -> Keys(Containers) \o <<Element("name", Leaf("c"))>>
    [] c.of = "lost container" -> ContainerAt(2)
    [] c.of = "host path" -> Keys(Volumes) \o <<Element("name", Leaf("v")), Key("hostPath"), Key("type")>>

Inside(x, path, i, Change(_)) ==
  IF Sets(x, path) THEN With(x, path, List([At(x, path).list EXCEPT ![i] = Change(@)])) ELSE x

SetImage(e) ==
  With(e, <<"image">>, Leaf(IF At(e, <<"image">>) = Leaf("api") THEN "web" ELSE "web:2"))
SetProtocol(e) == With(e, <<"protocol">>, Leaf("SCTP"))
SetFirstProtocol(e) == Inside(e, <<"ports">>, 1, SetProtocol)
SetHostPath(e) == With(e, <<"hostPath", "type">>, Leaf("File"))

Changed(x, c) ==
  CASE c.of = "field" -> With(x, c.path, c.value)
    [] c.of = "image" -> Inside(x, Containers, 1, SetImage)
    [] c.of = "protocol" -> Inside(x, Containers, 1, SetFirstProtocol)
    [] c.of = "sidecar" ->
         With(x, Containers, List(Append(At(x, Containers).list,
           FilledContainer(Map(Option("name", Leaf("c")) @@ Option("image", Leaf("proxy:1")))))))
    [] c.of = "lost container" -> With(x, Containers, List(<<At(x, Containers).list[1]>>))
    [] c.of = "host path" -> Inside(x, Volumes, 1, SetHostPath)

Written(x, w) ==
  CASE w = "nothing" -> x
    [] w = "tracked by annotation" -> With(x, Annotation("tracking-id"), Leaf("t"))
    [] w = "tracked by label" -> With(x, <<"metadata", "labels", "instance">>, Leaf("t"))
    [] w = "rolled out" -> With(With(x, Annotation("revision"), Leaf("2")),
                                Annotation("last-applied"), Leaf("m"))
    [] w = "restarted" ->
         With(x, <<"spec", "template", "metadata", "annotations", "restartedAt">>, Leaf("t"))
    [] w = "reordered" ->
         LET cs == At(x, Containers).list IN With(x, Containers, List(<<cs[2], cs[1]>>))

\* Secrets, whole and in part.
Secrets == {Map(Option("kind", Leaf("Secret")) @@ d) :
  d \in {None, Option("stringData", Map(Option("a", Leaf("x"))))} \cup
    {Option("data", Map(Option("a", Leaf(v)) @@ b)) :
       v \in {"x", "y"}, b \in {None, Option("b", Leaf("z"))}}}

Questions ==
  {[source |-> m, then |-> w, exported |-> e] : m \in Manifests, w \in Quiet, e \in BOOLEAN}
  \cup {[source |-> m, changed |-> c] : m \in Manifests, c \in Loud}
  \cup {[source |-> s, secret |-> l] : s \in Secrets, l \in Secrets}

Live(q) == IF "secret" \in DOMAIN q THEN q.secret
           ELSE IF "changed" \in DOMAIN q THEN Changed(Served(q.source), q.changed)
           ELSE Written(Served(q.source), q.then)
\* A manifest that was copied out of the cluster when the object was made.
Source(q) == IF "exported" \in DOMAIN q /\ q.exported THEN Served(q.source) ELSE q.source

Answer(q) == Meaningful(Source(q), Live(q), "secret" \in DOMAIN q)

\* gitops/defaults.go:13 "They are one state written two ways": what Kubernetes fills
\* in, what controllers write and where a container stands in its list is no
\* difference, whether the manifest was written by hand or exported. Any other
\* change of the object is reported, in one row, at or above its place. No
\* value of a Secret is in a row, and rows there are when the Secrets differ.
Faithful(q, differences) ==
  IF "secret" \in DOMAIN q
  THEN /\ (differences = {}) = (q.source = q.secret)
       /\ \A d \in differences : {"source", "live"} \cap DOMAIN d = {}
  ELSE IF "then" \in DOMAIN q \/ Changed(Served(q.source), q.changed) = Served(q.source)
  THEN differences = {}
  ELSE /\ Cardinality(differences) = 1
       /\ \A d \in differences : IsPrefix(d.path, Place(q.changed))
=============================================================================
