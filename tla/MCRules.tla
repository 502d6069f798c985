-------------------------------- MODULE MCRules --------------------------------
(***************************************************************************)
(* The parts of the program that keep nothing between two calls: each is   *)
(* asked everything that its module MC* has to ask, and what it answers is *)
(* held against what the answer should say. Rows of tables are drawn,      *)
(* pages are opened and gates are asked; theirs are GreenIsEarned,         *)
(* PageBelongs and GateIsSound. Two parts keep a document: the records of  *)
(* clusters, with a few operations in a behaviour and the invariant        *)
(* RecordsKept, and automatic import, with RecordedStaysDeleted.           *)
(***************************************************************************)
EXTENDS MCClusterRecords, MCResources, MCArgoGate, AutoImport

CONSTANTS FloatingImages, DifferenceLimit,       \* SourceComparison
          FileBudget,                            \* SourceState
          ActivityLimit,                         \* ArgoStatus
          MaxInput, MaxTerms, MetricsStaleAfter, \* TableQuery
          Accelerators, NodeListLimit,           \* NodeAccounting
          StuckPodEventSample,                   \* Incident
          MaxOperations                          \* on the records, in a behaviour

VARIABLES part,             \* which part is asked
          asked, answer,
          made              \* operations on the records
vars == <<part, asked, answer, made, recordVars, drawn, visited, gated, importVars>>

Comparison == INSTANCE MCComparison
State == INSTANCE MCSourceState
Query == INSTANCE MCTableQuery
Overviews == INSTANCE MCOverviews
Report == INSTANCE MCIncident

Parts == {"comparison", "state", "dashboard", "gate", "query", "health", "node", "page", "report", "records", "import"}

Init ==
  /\ part \in Parts /\ asked = <<>> /\ answer = <<>> /\ made = 0
  /\ RecordsInit /\ RowsInit /\ PagesInit /\ GateInit /\ ImportInit
  /\ part # "records" => doc = NewDocument
  /\ part # "import" => file = {}

Ask(p) == part = p /\ asked = <<>> /\ UNCHANGED <<part, made, recordVars, drawn, visited, gated, importVars>>
Asked(q, a) == asked' = <<q>> /\ answer' = <<a>>

CompareSource == Ask("comparison") /\ \E q \in Comparison!Questions : Asked(q, Comparison!Answer(q))
FindSource == Ask("state") /\ \E q \in State!Questions : Asked(q, State!Answer(q))
ReadDashboard == Ask("dashboard") /\ \E q \in Overviews!DashboardQuestions : Asked(q, Overviews!Dashboard(q))
PassGate == /\ part = "gate" /\ gated = <<>> /\ AskGate
            /\ UNCHANGED <<part, asked, answer, made, recordVars, drawn, visited, importVars>>
ReadQuery == Ask("query") /\ \E q \in Query!Questions : Asked(q, Query!Answer(q))
LightRow == /\ part = "health" /\ drawn = <<>> /\ DrawRow
            /\ UNCHANGED <<part, asked, answer, made, recordVars, visited, gated, importVars>>
CountNode == Ask("node") /\ \E q \in Overviews!NodeQuestions : Asked(q, Overviews!NodeAnswer(q))
ReadPage == /\ part = "page" /\ visited = <<>> /\ OpenPage
            /\ UNCHANGED <<part, asked, answer, made, recordVars, drawn, gated, importVars>>
ExplainWhy == Ask("report") /\ \E q \in Report!Questions : Asked(q, Report!Answer(q))

KeepRecords ==
  /\ part = "records" /\ made < MaxOperations /\ made' = made + 1
  /\ RecordsNext
  /\ UNCHANGED <<part, asked, answer, drawn, visited, gated, importVars>>

ImportContexts ==
  /\ part = "import" /\ ImportNext
  /\ UNCHANGED <<part, asked, answer, made, recordVars, drawn, visited, gated>>

Next == \/ CompareSource \/ FindSource \/ ReadDashboard \/ PassGate \/ ReadQuery \/ LightRow \/ CountNode
        \/ ReadPage \/ ExplainWhy \/ KeepRecords \/ ImportContexts

Spec == Init /\ [][Next]_vars

-----------------------------------------------------------------------------
Answered(p) == part = p /\ asked # <<>>

\* gitops/defaults.go:13 "They are one state written two ways": a comparison with the
\* source reports what somebody changed, where it was changed, and nothing
\* that Kubernetes filled in or a controller wrote.
ComparisonFaithful == Answered("comparison") => Comparison!Faithful(asked[1], answer[1])

\* gitops/service.go:356 "that is a wrong answer": nothing is said to be declared
\* nowhere when a repository refused or held more than was read, and with no
\* file passed over it is true; explanations drop no difference, and the
\* diagnosis of a repository skips what an earlier fault makes void.
SourceSound == Answered("state") => State!Sound(asked[1], answer[1])

\* docs/incident-workspace-spec-updated.md:242-255: an expression that may be
\* written means the same however it is spelled, one that may not is refused or
\* read as it stands (but for a count beyond 64 bits), and what is unknown
\* matches nothing.
QuerySound == Answered("query") => Query!Sound(asked[1], answer[1])

\* capacity.go:81 "matching the scheduler": what a node is charged for, the
\* overview and the node's page alike; and the dashboard of Argo CD hides no
\* Application that needs attention.
OverviewsAccounted ==
  /\ Answered("node") => Overviews!Accounted(asked[1], answer[1])
  /\ Answered("dashboard") => Overviews!Counted(asked[1], answer[1])

\* docs/incident-workspace-spec-updated.md:188 nothing is called well because
\* it could not be read, but for the pods of a workload, which are passed over
\* when they cannot be; rules.go:283 "Absent MemoryPressure is not pressure".
ReportHonest == Answered("report") => Report!Explained(asked[1], answer[1])
=============================================================================
