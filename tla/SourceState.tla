----------------------------- MODULE SourceState -----------------------------
(***************************************************************************)
(* Finding the manifest of a live object, saying what could be concluded,  *)
(* explaining a replica count and testing the way to a repository          *)
(* (internal/gitops: service, match, explain, hpa, ignore, fields,         *)
(* diagnose; the types are those of internal/domain/gitops.go).            *)
(***************************************************************************)
EXTENDS Naturals, Sequences, FiniteSets
LOCAL INSTANCE SequencesExt

CONSTANT FileBudget   \* fileBudget

-----------------------------------------------------------------------------
(* Types.                                                                  *)

Certainties == {"unknown", "generated", "tree", "exact"}
Blockers == {"", "unmanaged", "generated", "notLocated", "ambiguous", "repository",
             "manifestInvalid", "gone"}
States == {"unavailable", "equal", "differs"}
Causes == {"unknown", "argoIgnored", "controller"}
Confidences == {"unknown", "supporting", "confirmed"}
Attentions == {"", "none", "review"}
EvidenceKinds == {"hpaTarget", "argoIgnore", "fieldOwner"}

Searches == [certainty : Certainties, located : BOOLEAN, candidates : Nat, scanned : Nat,
             truncated : BOOLEAN, reason : STRING]
Comparisons == [state : States, blocker : Blockers]
Explanations == [cause : Causes, confidence : Confidences, attention : Attentions,
                 evidence : SUBSET EvidenceKinds, unchecked : SUBSET STRING, ignore : STRING]

\* "unread": Ownership failed, and there is no confidence.
Managed(confidence) == confidence \notin {"", "unmanaged", "unread"}

-----------------------------------------------------------------------------
(* Matching: a document is an object, or a list of documents.              *)

RECURSIVE Names(_, _, _)
\* names: lists are followed two deep. A document without a namespace is in
\* the one that the Application sends it to.
Names(d, want, depth) ==
  IF "items" \in DOMAIN d
  THEN depth <= 1 /\ \E i \in DOMAIN d.items : Names(d.items[i], want, depth + 1)
  ELSE /\ d.kind = want.kind /\ d.group = want.group /\ d.name = want.name
       /\ d.namespace \in {"", want.namespace}

\* documents: those of a file that declare the object.
Declaring(file, want) == SelectSeq(file.documents, LAMBDA d : Names(d, want, 0))

ManifestFile(f) == f.extension \in {"yaml", "yml", "json"} /\ ~f.large

ScanMutant(tree, want) ==
  LET openable == SelectSeq(tree.files, ManifestFile)
      opened == SubSeq(openable, 1, IF Len(openable) > FileBudget THEN FileBudget ELSE Len(openable))
      read == SelectSeq(opened, LAMBDA f : f.readable)
  IN  [scanned |-> Len(opened), truncated |-> Len(openable) > FileBudget + 1,
       locations |-> FlattenSeq([i \in DOMAIN read |-> Declaring(read[i], want)])]

\* scan: a file that cannot be read is passed over.
Scan(tree, want) ==
  LET openable == SelectSeq(tree.files, ManifestFile)
      opened == SubSeq(openable, 1, IF Len(openable) > FileBudget THEN FileBudget ELSE Len(openable))
      read == SelectSeq(opened, LAMBDA f : f.readable)
  IN  [scanned |-> Len(opened), truncated |-> Len(openable) > FileBudget,
       locations |-> FlattenSeq([i \in DOMAIN read |-> Declaring(read[i], want)])]

-----------------------------------------------------------------------------
(* Compare. A tree that refuses is an answer; an ownership or an object     *)
(* that cannot be asked for is an error, and nothing is concluded.         *)

TreeSources(sources) == SelectSeq(sources, LAMBDA s : s.certainty = "tree")

NothingToSearch(sources) ==
  IF \E i \in DOMAIN sources : sources[i].certainty = "generated" THEN "generated" ELSE "unknown"

Unavailable(blocker) == [state |-> "unavailable", blocker |-> blocker]
Unsearched(certainty) ==
  [certainty |-> certainty, located |-> FALSE, candidates |-> 0, scanned |-> 0,
   truncated |-> FALSE, reason |-> "not searched"]

DescribeSearch(scans, refused) ==
  LET found == FlattenSeq([i \in DOMAIN scans |-> scans[i].locations])
      scanned == FoldLeft(LAMBDA n, s : n + s.scanned, 0, scans)
      truncated == \E i \in DOMAIN scans : scans[i].truncated
      reason == CASE Len(found) = 1 -> "declared"
                  [] Len(found) > 1 -> "declared more than once"
                  [] refused -> "refused"
                  [] truncated -> "more files than were read"
                  [] scanned = 0 -> "no files"
                  [] OTHER -> "not declared"
  IN  [certainty |-> IF Len(found) = 1 THEN "exact" ELSE "tree",
       located |-> Len(found) = 1,
       candidates |-> IF Len(found) > 1 THEN Len(found) ELSE 0,
       scanned |-> scanned, truncated |-> truncated, reason |-> reason]

\* What the documents themselves say, once there is one to compare with that
\* decodes as an object, as the live one has to.
CompareAgainst(search, refused, rows) ==
  CASE search.certainty \in {"generated", "unknown"} -> Unavailable("generated")
    [] search.candidates > 1 -> Unavailable("ambiguous")
    [] refused /\ ~search.located -> Unavailable("repository")
    [] ~search.located -> Unavailable("notLocated")
    [] ~rows.valid -> Unavailable("manifestInvalid")
    [] OTHER -> [state |-> IF rows.meaningful > 0 THEN "differs" ELSE "equal", blocker |-> ""]

Failed == [error |-> TRUE]
Told(search, comparison) == [error |-> FALSE, search |-> search, comparison |-> comparison]

Compare(confidence, sources, object, want, rows) ==
  LET trees == TreeSources(sources)
      answering == SelectSeq(trees, LAMBDA t : ~t.refuses)
      refused == Len(answering) < Len(trees)
      search == DescribeSearch([i \in DOMAIN answering |-> Scan(answering[i], want)], refused)
  IN  CASE confidence = "unread" -> Failed
        [] confidence # "unread" /\ ~Managed(confidence) -> Told(Unsearched("unknown"), Unavailable("unmanaged"))
        [] Managed(confidence) /\ trees = <<>> -> Told(Unsearched(NothingToSearch(sources)), Unavailable("generated"))
        [] Managed(confidence) /\ trees # <<>> /\ object = "missing" -> Told(Unsearched("unknown"), Unavailable("gone"))
        [] Managed(confidence) /\ trees # <<>> /\ object = "unread" -> Failed
        [] OTHER -> Told(search, CompareAgainst(search, refused, rows))

-----------------------------------------------------------------------------
(* Explaining a replica count.                                             *)

ApiGroup(version) == version.group
\* An empty reference is resolved by name; the core group is no group to share.
CompatibleVersion(ref, live) ==
  ref.group = "none" \/ ref = live \/ (ref.group # "" /\ ApiGroup(ref) = ApiGroup(live))

Targets(hpa, live) ==
  /\ hpa.namespace = live.namespace
  /\ hpa.kind = live.kind /\ hpa.name = live.name
  /\ CompatibleVersion(hpa.version, live.version)

Agrees(selector, value) == selector \in {"", value}
AppliesTo(rule, live) ==
  /\ Agrees(rule.kind, live.kind) /\ Agrees(rule.name, live.name)
  /\ Agrees(rule.namespace, live.namespace) /\ Agrees(rule.group, live.version.group)

\* covers: an expression that is more than a path is left unevaluated.
Covers(rule, owners) ==
  \/ rule.pointer = "/spec/replicas"
  \/ rule.jq = ".spec.replicas"
  \/ rule.managers \cap owners # {}
Unevaluated(rule) == IF rule.jq \notin {"", ".spec.replicas"} THEN {"jqPathExpression"} ELSE {}

\* fieldOwners: the managers whose entry holds the path, its status aside.
FieldOwners(live) ==
  {e.manager : e \in {m \in live.managed : m.subresource # "status" /\ m.replicas /\ m.manager # ""}}

IgnoreStatus(state, ignored) ==
  CASE state.appUnread -> "unread"
    [] ~state.appUnread /\ ~state.appFound -> ""
    [] OTHER -> IF ignored THEN "applies" ELSE "absent"

NoExplanation == [none |-> TRUE]

ExplainReplicas(state) ==
  LET targets == {h \in state.hpas : Targets(h, state.live)}
      owners == FieldOwners(state.live)
      rules == IF state.appUnread \/ ~state.appFound THEN {}
               ELSE {r \in state.rules : AppliesTo(r, state.live)}
      ignored == \E r \in rules : Covers(r, owners)
      unchecked == UNION {Unevaluated(r) : r \in rules}
                   \cup (IF state.hpasUnread THEN {"HorizontalPodAutoscalers"} ELSE {})
                   \cup (IF state.appUnread THEN {"ignoreDifferences"} ELSE {})
      evidence == (IF targets # {} THEN {"hpaTarget"} ELSE {})
                  \cup (IF ignored THEN {"argoIgnore"} ELSE {})
                  \cup (IF owners # {} THEN {"fieldOwner"} ELSE {})
      Because(cause, confidence, attention) ==
        [cause |-> cause, confidence |-> confidence, attention |-> attention,
         evidence |-> evidence, unchecked |-> unchecked, ignore |-> IgnoreStatus(state, ignored)]
  IN  CASE targets # {} -> Because("controller", "confirmed", "none")
        [] targets = {} /\ ignored -> Because("argoIgnored", "unknown", "review")
        [] targets = {} /\ ~ignored /\ unchecked # {} -> Because("unknown", "unknown", "review")
        [] OTHER -> IF owners = {} THEN NoExplanation
                    ELSE [Because("unknown", "supporting", "") EXCEPT !.ignore = ""]

\* analyse: only the replica count of a Deployment has an explanation.
Analyse(rows, state) ==
  [i \in DOMAIN rows |->
     IF rows[i].path = "spec.replicas" /\ state.live.kind = "Deployment"
     THEN [rows[i] EXCEPT !.explanation = ExplainReplicas(state)] ELSE rows[i]]

Explained(row) == row.explanation # NoExplanation
                  /\ row.explanation.cause \in {"controller", "argoIgnored"}

\* tally: meaningful rows come first, and what is counted is among them.
Tally(rows) ==
  LET meaningful == SelectSeq(rows, LAMBDA r : r.class = "meaningful")
      system == SelectSeq(rows, LAMBDA r : r.class # "meaningful")
      Count(P(_)) == Len(SelectSeq(meaningful, P))
      Review(r) == r.explanation # NoExplanation /\ r.explanation.attention = "review"
  IN  [rows |-> meaningful \o system, meaningful |-> Len(meaningful), system |-> Len(system),
       explained |-> Count(Explained), attention |-> Count(Review)]

Enrich(rows, state) ==
  IF \E i \in DOMAIN rows : rows[i].path = "spec.replicas" THEN Tally(Analyse(rows, state))
  ELSE Tally(rows)

-----------------------------------------------------------------------------
(* Diagnose: the checks in their order, to the first that ends it.         *)

Steps == <<"git", "remote", "host", "agent", "repository">>
Check(step, result) == <<[step |-> step, result |-> result]>>
Skip(steps) == FlattenSeq([i \in DOMAIN steps |-> Check(steps[i], "skipped")])
Settle(checks, fault) == [checks |-> checks, fault |-> fault]

\* faultOf: the kinds of failure that internal/git tells apart.
FaultOf(kind) ==
  IF kind \in {"gitMissing", "badRemote", "hostKey", "auth", "timeout", "unreachable", "noRepository"}
  THEN kind ELSE "unknown"

\* repositoryFor: a directory of manifests before a generated source.
RepositoryFor(sources) ==
  IF TreeSources(sources) # <<>> THEN Head(TreeSources(sources)) ELSE Head(sources)

Diagnose(m) ==
  LET remote == Check("git", "passed") \o Check("remote", "passed")
      host == Check("host", IF m.listening THEN "passed" ELSE "failed")
      agent == Check("agent", IF m.transport # "ssh" THEN "skipped"
                              ELSE IF m.agent THEN "passed" ELSE "unknown")
  IN  CASE ~m.git -> Settle(Check("git", "failed") \o Skip(Tail(Steps)), "gitMissing")
        [] m.git /\ ~m.parses ->
             Settle(Check("git", "passed") \o Check("remote", "failed") \o Skip(SubSeq(Steps, 3, 5)),
                    "badRemote")
        [] m.git /\ m.parses /\ m.refusal # "" ->
             Settle(remote \o host \o agent \o Check("repository", "failed"), FaultOf(m.refusal))
        [] OTHER -> Settle(remote \o host \o agent \o Check("repository", "passed"), "")
=============================================================================
