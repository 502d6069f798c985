---------------------------- MODULE MCSourceState ----------------------------
(***************************************************************************)
(* Repositories, clusters and machines to ask about.                       *)
(***************************************************************************)
EXTENDS SourceState
LOCAL INSTANCE SequencesExt

SetsUpTo(n, S) == {T \in SUBSET S : Cardinality(T) <= n}

-----------------------------------------------------------------------------
(* Searches.                                                               *)

Want == [kind |-> "Deployment", group |-> "apps", name |-> "api", namespace |-> "shop"]
Wrapped(d) == [items |-> <<d>>]
Homeless == [Want EXCEPT !.namespace = ""]
Other == [Want EXCEPT !.name = "web"]
Elsewhere == [Want EXCEPT !.namespace = "bank"]

Text(documents) ==
  [extension |-> "yaml", large |-> FALSE, readable |-> TRUE, documents |-> documents]
Files == {
  Text(<<Homeless>>), Text(<<Other, Elsewhere>>), Text(<<Wrapped(Wrapped(Want))>>),
  Text(<<Want, [Want EXCEPT !.group = ""], Wrapped(Want)>>),
  [Text(<<Want>>) EXCEPT !.extension = "txt"], [Text(<<Want>>) EXCEPT !.large = TRUE],
  [Text(<<Want>>) EXCEPT !.readable = FALSE]}

Tree(files, refuses) == [certainty |-> "tree", refuses |-> refuses, files |-> files]
Trees == {Tree(f, FALSE) : f \in SeqOf(Files, 3)}
Rendered == [certainty |-> "generated"]
Sources == {<<>>, <<Rendered>>} \cup {<<Rendered, t>> : t \in Trees}
           \cup {<<u, t>> : u \in {Tree(<<>>, TRUE), Tree(<<Text(<<Want>>)>>, FALSE)}, t \in Trees}

Find(confidence, sources, object, valid, meaningful) ==
  [of |-> "search", confidence |-> confidence, sources |-> sources, object |-> object,
   rows |-> [valid |-> valid, meaningful |-> meaningful]]
SearchQuestions ==
  {Find("tracked", s, "there", TRUE, 1) : s \in Sources}
  \cup {Find(c, <<t>>, o, v, 0) : c \in {"unmanaged", "unread", "confirmed"},
            o \in {"there", "missing", "unread"}, v \in BOOLEAN,
            t \in {Tree(<<Text(<<Want>>)>>, FALSE), Tree(<<>>, FALSE), Tree(<<>>, TRUE)}}

RECURSIVE Within(_, _)
\* The objects of a document, those of lists that are n deep included.
Within(d, n) ==
  IF "items" \notin DOMAIN d THEN {d}
  ELSE IF n = 0 THEN {} ELSE UNION {Within(d.items[i], n - 1) : i \in DOMAIN d.items}
IsWanted(d) ==
  \E o \in Within(d, 2) : [o EXCEPT !.namespace = ""] = Homeless
                          /\ o.namespace \in {"", Want.namespace}

Known(q) ==
  LET trees == TreeSources(q.sources)
      files == FlattenSeq([i \in DOMAIN trees |-> trees[i].files])
      manifests == SelectSeq(files, LAMBDA f : f.extension # "txt")
  IN  [declared |-> Len(SelectSeq(FlattenSeq([i \in DOMAIN manifests |-> manifests[i].documents]),
                                  IsWanted)),
       said |-> \/ \E i \in DOMAIN trees : trees[i].refuses
                \/ \E i \in DOMAIN trees :
                     Len(SelectSeq(trees[i].files, LAMBDA f : f.extension # "txt" /\ ~f.large)) > FileBudget,
       silent |-> \E i \in DOMAIN manifests : ~manifests[i].readable \/ manifests[i].large]

\* gitops/service.go:355 "an off-by-one here turns 'there are more files than this
\* reads' into a confident 'nothing declares this object', and that is a wrong
\* answer": with nothing left out the object is compared exactly when one
\* document declares it and both sides decode, and called ambiguous when several
\* do. That nothing declares it, or that there are no files, is never said of a
\* repository that refused or had more files than were read. A file that is too
\* large (:366) or that cannot be read (:375) is passed over in silence: with one
\* of those the sentence may be wrong, and only without is it demanded to be
\* right. What could not be asked for is an error, never a conclusion.
FoundOnce(q, a) ==
  LET known == Known(q)
      trees == TreeSources(q.sources)
      asked == Managed(q.confidence) /\ trees # <<>> /\ q.object = "there"
      whole == ~known.said /\ ~known.silent
  IN  /\ a.error = (q.confidence = "unread" \/ (Managed(q.confidence) /\ trees # <<>> /\ q.object = "unread"))
      /\ ~a.error =>
           /\ a.search \in Searches /\ a.comparison \in Comparisons
           /\ a.comparison.state # "unavailable" => asked /\ a.search.located /\ q.rows.valid /\ known.declared > 0
           /\ asked /\ whole =>
                /\ (a.comparison.state # "unavailable") = (known.declared = 1 /\ q.rows.valid)
                /\ (a.comparison.blocker = "manifestInvalid") = (known.declared = 1 /\ ~q.rows.valid)
                /\ (a.comparison.blocker = "ambiguous") = (known.declared > 1)
           /\ a.search.reason \in {"not declared", "no files"} =>
                ~known.said /\ (known.declared = 0 \/ known.silent)
           /\ (a.comparison.blocker = "gone") =
                (Managed(q.confidence) /\ trees # <<>> /\ q.object = "missing")

-----------------------------------------------------------------------------
(* Replica counts.                                                         *)

Apps == [group |-> "apps", version |-> "v1"]
Scaler == [namespace |-> "shop", kind |-> "Deployment", name |-> "api", version |-> Apps]
Scalers == {Scaler, [Scaler EXCEPT !.namespace = "bank"], [Scaler EXCEPT !.kind = "ReplicaSet"],
            [Scaler EXCEPT !.version = [group |-> "", version |-> "v1"]],
            [Scaler EXCEPT !.version = [group |-> "none", version |-> ""]]}

Rule == [group |-> "apps", kind |-> "Deployment", name |-> "", namespace |-> "",
         pointer |-> "", jq |-> "", managers |-> {}]
Rules == {[Rule EXCEPT !.pointer = "/spec/replicas"], [Rule EXCEPT !.managers = {"hpa"}],
          [Rule EXCEPT !.jq = ".spec.template | keys"],
          [Rule EXCEPT !.pointer = "/spec/replicas", !.name = "web"]}

Owner(manager, subresource, replicas) ==
  [manager |-> manager, subresource |-> subresource, replicas |-> replicas]
Owners == {Owner("hpa", "", TRUE), Owner("kubectl", "", FALSE), Owner("hpa", "status", TRUE)}

Row(path, class) == [path |-> path, class |-> class, explanation |-> NoExplanation]
Rows == <<Row("metadata.annotations.revision", "system managed"),
          Row("spec.image", "meaningful"), Row("spec.replicas", "meaningful")>>

ReplicaQuestions ==
  {[of |-> "replicas", hpas |-> h, rules |-> r, hpasUnread |-> u, appUnread |-> a, appFound |-> f,
    live |-> Scaler @@ [managed |-> m]] :
     h \in SetsUpTo(1, Scalers), r \in SetsUpTo(2, Rules), m \in SetsUpTo(2, Owners),
     u \in BOOLEAN, a \in BOOLEAN, f \in BOOLEAN}

\* explain.go:27 "The comparison is the authority. This may add an
\* explanation, recount what is explained, and rewrite the summary sentence;
\* it may not change the state to unavailable or drop a difference". A row is
\* explained only by an autoscaler of this very object or by a rule that could
\* be read, never by the name of a manager; what could not be read is left for
\* review and never passed over.
ExplainedByCause(q, a) ==
  LET e == a.rows[2].explanation
      scaled == Scaler \in q.hpas \/ [Scaler EXCEPT !.version = [group |-> "none", version |-> ""]] \in q.hpas
      ruled == /\ ~q.appUnread /\ q.appFound
               /\ \/ [Rule EXCEPT !.pointer = "/spec/replicas"] \in q.rules
                  \/ /\ [Rule EXCEPT !.managers = {"hpa"}] \in q.rules
                     /\ Owner("hpa", "", TRUE) \in q.live.managed
      unread == \/ q.hpasUnread \/ q.appUnread
                \/ q.appFound /\ [Rule EXCEPT !.jq = ".spec.template | keys"] \in q.rules
  IN  /\ {a.rows[i].path : i \in DOMAIN a.rows} = {Rows[i].path : i \in DOMAIN Rows}
      /\ a.meaningful = 2 /\ a.system = 1 /\ Len(a.rows) = 3
      /\ e \in Explanations \cup {NoExplanation}
      /\ a.explained = IF scaled \/ ruled THEN 1 ELSE 0
      /\ e # NoExplanation => (e.confidence = "confirmed") = scaled
      /\ unread /\ ~scaled => a.attention = 1
      /\ unread => e # NoExplanation /\ e.unchecked # {}

-----------------------------------------------------------------------------
(* The way to a repository.                                                *)

Refusals == {"", "hostKey", "auth", "timeout", "unreachable", "noRepository", "other"}
MachineQuestions ==
  {[of |-> "machine", git |-> g, parses |-> p, listening |-> l, agent |-> a, transport |-> t,
    refusal |-> r] :
     g \in BOOLEAN, p \in BOOLEAN, l \in BOOLEAN, a \in BOOLEAN, t \in {"ssh", "https"},
     r \in Refusals}

\* diagnose.go:53 "a host that does answer proves very little": every check is
\* there once and in its order, nothing is tried after a check that ends the
\* ladder, and only the repository itself decides that there is no fault.
LadderHolds(q, a) ==
  LET Result(step) == (CHOOSE i \in DOMAIN Steps : Steps[i] = step)
  IN  /\ [i \in DOMAIN a.checks |-> a.checks[i].step] = Steps
      /\ (a.fault = "") = (a.checks[5].result = "passed")
      /\ a.checks[1].result = "failed" \/ a.checks[2].result = "failed" =>
           a.checks[5].result = "skipped"
      /\ a.checks[Result("host")].result = "failed" => a.checks[5].result \in {"passed", "failed"}

-----------------------------------------------------------------------------
Questions == SearchQuestions \cup ReplicaQuestions \cup MachineQuestions

Answer(q) ==
  CASE q.of = "search" -> Compare(q.confidence, q.sources, q.object, Want, q.rows)
    [] q.of = "replicas" -> Enrich(Rows, q)
    [] q.of = "machine" -> Diagnose(q)

Sound(q, a) ==
  CASE q.of = "search" -> FoundOnce(q, a)
    [] q.of = "replicas" -> ExplainedByCause(q, a)
    [] q.of = "machine" -> LadderHolds(q, a)
=============================================================================
