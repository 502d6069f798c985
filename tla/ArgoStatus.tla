------------------------------ MODULE ArgoStatus ------------------------------
(***************************************************************************)
(* What the Argo CD pages say of the Applications (internal/argocd:        *)
(* status, service). The words that                                        *)
(* Argo CD writes are given as they are compared, in one spelling; its     *)
(* namespaces, names and times are numbers, as they are sorted.            *)
(***************************************************************************)
EXTENDS Naturals, Sequences, FiniteSets
LOCAL INSTANCE SequencesExt

CONSTANT ActivityLimit   \* activityLimit

-----------------------------------------------------------------------------
(* One Application.                                                        *)

\* A health that Argo CD never settled falls back on the sync.
Health(app) ==
  CASE app.health = "healthy" -> IF app.sync = "outofsync" THEN "warning" ELSE "healthy"
    [] app.health = "progressing" -> "progress"
    [] app.health = "degraded" -> "critical"
    [] app.health \in {"missing", "suspended"} -> "warning"
    [] OTHER -> CASE app.sync = "synced" -> "healthy"
                  [] app.sync = "outofsync" -> "warning"
                  [] OTHER -> "unknown"

OutOfSync(app) == app.sync = "outofsync"

\* attention: nothing to say, or the message of Argo CD before a word for it.
Attention(app) ==
  IF app.health \in {"degraded", "missing"} \/ OutOfSync(app)
  THEN IF app.message # "" THEN "message"
       ELSE IF app.health \in {"degraded", "missing"} THEN app.health ELSE "outofsync"
  ELSE ""

Severity(app) == CASE app.health = "degraded" -> 0 [] app.health = "missing" -> 1 [] OTHER -> 2

DescribeApp(app) ==
  [namespace |-> app.namespace, name |-> app.name, sync |-> app.sync, healthStatus |-> app.health,
   health |-> Health(app), reason |-> Attention(app), severity |-> Severity(app)]

-----------------------------------------------------------------------------
(* All of them. A listing that fails yields no Application.                *)

Tally(apps, Is(_)) == Len(SelectSeq(apps, Is))

\* SortSeq wants a total order: namespaces and names settle what is left.
ByPlace(a, b) == \/ a.namespace < b.namespace
                 \/ a.namespace = b.namespace /\ a.name < b.name
BySeverity(a, b) == \/ a.severity < b.severity
                    \/ a.severity = b.severity /\ ByPlace(a, b)
\* Applications: those that are out of sync come first among equals.
BySync(a, b) ==
  \/ a.severity < b.severity
  \/ /\ a.severity = b.severity
     /\ \/ OutOfSync(a) /\ ~OutOfSync(b)
        \/ OutOfSync(a) = OutOfSync(b) /\ ByPlace(a, b)

Described(apps) == [i \in DOMAIN apps |-> DescribeApp(apps[i])]

Summarise(apps) ==
  [applications |-> Len(apps),
   synced |-> Tally(apps, LAMBDA a : a.sync = "synced"),
   outOfSync |-> Tally(apps, OutOfSync),
   healthy |-> Tally(apps, LAMBDA a : a.health = "healthy"),
   progressing |-> Tally(apps, LAMBDA a : a.health = "progressing"),
   degraded |-> Tally(apps, LAMBDA a : a.health = "degraded"),
   missing |-> Tally(apps, LAMBDA a : a.health = "missing")]

NeedsAttention(apps) ==
  SortSeq(SelectSeq(Described(apps), LAMBDA a : a.reason # ""), BySeverity)

Applications(apps) == SortSeq(Described(apps), BySync)

\* chipsFor: those that count something, in this order.
ChipsFor(summary) ==
  SelectSeq(<<[label |-> "degraded", count |-> summary.degraded, health |-> "critical"],
              [label |-> "missing", count |-> summary.missing, health |-> "warning"],
              [label |-> "out of sync", count |-> summary.outOfSync, health |-> "warning"],
              [label |-> "progressing", count |-> summary.progressing, health |-> "progress"]>>,
            LAMBDA c : c.count > 0)

-----------------------------------------------------------------------------
(* Activity. A reason is the set of the words it contains.                 *)

Categorise(event) ==
  CASE event.words \cap {"fail", "error", "degrad", "unhealthy", "denied", "timeout"} # {}
       \/ event.warning -> "failure"
    [] OTHER ->
       CASE event.words \cap {"completed", "succeeded", "synced", "created", "healthy"} # {} -> "success"
         [] event.words \cap {"started", "progress", "syncing", "updated", "deleted", "pruned"} # {}
            /\ event.words \cap {"completed", "succeeded", "synced", "created", "healthy"} = {} ->
              "progress"
         [] OTHER -> "info"

EventTime(event) ==
  IF event.last # 0 THEN event.last ELSE IF event.event # 0 THEN event.event ELSE event.first

\* The newest of what was read, and no more than the limit.
Activity(events) ==
  LET of == SelectSeq(events, LAMBDA e : e.argo)
      sorted == SortSeq([i \in DOMAIN of |-> [category |-> Categorise(of[i]), at |-> EventTime(of[i]),
                                              place |-> i]],
                        LAMBDA a, b : a.at > b.at \/ (a.at = b.at /\ a.place < b.place))
  IN  SubSeq(sorted, 1, IF Len(sorted) > ActivityLimit THEN ActivityLimit ELSE Len(sorted))

-----------------------------------------------------------------------------
(* Dashboard. What one listing refuses costs its own card.                 *)

CardKinds == <<"applications", "sets", "projects", "repositories", "clusters">>

\* Applications that cannot be listed end it where Argo CD was not discovered
\* either, and count as none where it was.
Dashboard(world) ==
  LET apps == IF world.lists.applications THEN world.apps ELSE <<>>
      blank == ~world.lists.applications /\ ~world.installed
  IN  [installed |-> world.installed,
       summary |-> Summarise(apps), attention |-> NeedsAttention(apps),
       cards |-> IF blank THEN <<>>
                 ELSE SelectSeq(CardKinds, LAMBDA k : k = "applications" \/ world.lists[k]),
       activity |-> IF blank \/ ~world.lists.events THEN <<>> ELSE Activity(world.events)]
=============================================================================
