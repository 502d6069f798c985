# Verification of Biebie Kube

Biebie Kube is a desktop client for Kubernetes clusters that are reached
through customers' networks. Its companion, Biebie Access, owns the networks.
The frontend calls Go services; the services share a manager of cluster
sessions, a document on disk and a number of goroutines that stream, watch,
forward and retry. This directory holds TLA+ models of the parts where those
goroutines, the other application, the file system and the engineer meet,
configurations for TLC, and proofs for TLAPS.

Contents: [inventory](#inventory), [modules](#modules-and-the-code),
[runs](#runs), [fairness](#fairness), [proofs](#proofs),
[disagreements with the comments](#disagreements-with-the-comments),
[observations without a run](#observations-without-a-run),
[what is not modelled](#what-is-not-modelled), [what could still be done](#what-could-still-be-done).

## Inventory

| Part | State | Operations | What is hard | What makes it correct |
|---|---|---|---|---|
| Session lifecycle (`internal/cluster/manager.go`) | one session per cluster: state, client, watch hub, catalogue; the `connecting` guard | Connect, Disconnect, SuspendForAccessDown, SuspendForAuthFailure, Resume, RefreshCatalogue, Client, Hub | every operation releases the mutex around its network calls, and several may run at once for one cluster | the hub of the session in the map runs and no other does; one attempt at a time; `connecting` always has an attempt behind it and ends |
| Customer networks (`core_access.go`, `internal/access`) | the retries under way, references that were handed to a deep link, cached status answers | notifications from Biebie Access, reconciliation of references, retry, suspension, ConnectWithAccess | notifications overlap each other and the engineer; names are replaced by identifiers meanwhile | one retry of a connection at a time; a waiting cluster is retried; a cluster is never re-pointed at another customer's network |
| Port forwards (`internal/portforward`, `internal/argocd/ui.go`) | rows, the ready, errs and stop channels of each | Start, Stop, StopCluster, StopAll, Find | Start, its timeout, the tunnel's goroutine and stops work on one row | no tunnel without a row to close it by; no removed row comes back; Start returns; ports are given back |
| Read-only policy (`internal/policy`, `core_policy.go`) | the stored mode, the session's toggle, a revision | Check, Snapshot, SetPersistedMode, SetSessionReadOnly, requireWrite | two halves of a mode are read one after the other; a decision is used after it was made | a cluster stored as read-only lets nothing through; a restriction closes the open streams |
| State document (`internal/store`) | the document in memory and on disk | Open, Read, Update | kills, power losses and failures between the steps of a save | an atomic register that survives them |
| Automatic import (`internal/autoimport`, `internal/kubeconfig/service.go`) | the contexts recorded as seen | Scan, Sync, ImportAll, SetEnabled | a launch imports, records and may be killed between the two | a context recorded as seen is not imported by itself again |
| Watch hub (`internal/kube/informer.go`) | watches by type, namespace and selectors; changes waiting for their debounce | Ensure, Existing, StopNamespace, Close, the idle sweep | reuse, eviction and sweep of a watch that is in use; a window of changes that overflows | at most the budget of watches; no change is lost |
| Resource tables (`internal/resources/service.go`, `table.go`, `frontend/src/stores/resources.ts`) | the rendered rows of a type, the page that was sent, the window | List, OnResourceChange, Forget; load, more, apply a patch | lists, notifications, patches and answers arrive in any order and read before they write | a settled table shows what the watch holds; a window that was told everything shows its table |
| Table query language (`internal/resources/query`) | none | parse, match | words and symbols that touch, unknown values, numbers at their limits | an expression means the same however it is spelled; what is unknown matches nothing |
| Resource pages (`internal/resources`) | none | render rows, capacity, related objects | reads that fail or are cut short; labels shared by strangers; statuses nobody foresaw | no light is green that nothing earned; a node is charged as the scheduler does; a page names nothing of another object |
| YAML editing, authoring, actions (`internal/manifest`, `internal/authoring`, `internal/resources/actions.go`) | the version an editor opened, a creation's template | OpenSession, Freshness, Apply; Preview, Create; scale, restart and the others | colleagues, controllers and another editor write between the check and the write; a manifest fails half-way | no lost update; nothing written over a managed object; an outcome that calls created what exists, and leaves at most the one object that failed in doubt |
| Argo CD (`internal/argocd`) | remembered searches for Applications | discover, ownership, claims, the gate, the page, sync and refresh | listings refused, cut short or slow; a cluster not yet read; answers remembered | the gate opens only on a whole search that found no owner; the page hides nothing that needs attention |
| GitOps comparison (`internal/gitops`) | none | locate a manifest, normalise, compare, classify, explain, diagnose a repository | what a controller wrote or Kubernetes filled in beside what a person changed; searches cut short | every real change in one row, no false one; nothing declared missing unless all was read |
| Log streams, terminals (`internal/logs`, `internal/terminal`) | streams by identifier | Start, Stop; Open, Write, Close | the end of a stream races its last data | every stream can be found and ended; a whole log is shown whole; an end is told once |
| Ask AI, deep links (`internal/ai`, `service_app.go`) | runs under way; links waiting for the window | AskAI, Cancel; Deliver, Ready | cancel and timeout against start and end; a link before the window | a run that is cancelled says so; a link is acted on once |
| Cluster records, groups, namespaces, saved views (`internal/cluster/repository.go`, `internal/views`) | records in the document | Create, Update, Delete, groups, archive, flags, namespaces, views | operations on one record touch others: groups, flags, preferences | nothing of a deleted record is left, and nothing of another is changed |
| Incident workspace (`internal/incident`) | none | Explain | every read may fail, each rule reads something else | nothing is called well because it could not be read |
| Window stores (`frontend/src/stores`) | what the window shows | pushed events, answers to calls | either order | the last truth is shown |
| Git mirrors (`internal/git`) | bare mirrors in directories | Open, List, Read | kills during a clone; fetches during reads | a half mirror is never read |
| Kubernetes clients, kubeconfig files, updates, shell, pages of the window | little or none | parsing, input and output | formats of others | not modelled, see [below](#what-is-not-modelled) |

They interact as follows. The manager's session owns the hub; the hub calls the
manager when its watches are rejected, and the resource tables when objects
change. The services ask the manager for a client, and the policy before a
write. A restriction of the policy closes terminals and forwards, a disconnect
stops forwards and then the session. Biebie Access calls the server, whose
handler reconciles references in the repository, retries or suspends sessions.
The repository, the policy, the kubeconfig index and the automatic import keep
their records in the one document. `PROJECT.json` lists every component with
its files, and the hazards of each at their lines.

## Modules and the code

A step of a model is a critical section, a channel operation or one network
call with its outcome. Where the code releases a mutex and takes it again,
there are two steps, and anything may happen between them.

**ClusterSession** (`manager.go`) is one cluster: `session` is its entry in the
map, `open` the hubs that run, `connecting` the guard, `stored` the record.
`pc`, `held`, `landing` and `net` are where each calling goroutine is, which
session it looked at before it released the mutex, the state it will write and
the answer it got. ConnectBegin .. ConnectRelease are the sections of Connect
in order; ConnectInstall closes the hub it replaces. TearDown with Land is how
a suspension deletes the entry under the mutex and writes the resulting state
under a later one. SuspendForAuthFailure starts in a hub, which reports once
(`reported`), and carries no identity but the cluster's. **WatchOwnership** is
what it promises to the rest: one hub is live, a hub that is gone stays gone.

**AccessRetry** (`core_access.go`, `client.go`, the Access side of the manager)
is several clusters behind several connections of Biebie Access. A reference
(`ref`) is a connection's name or its identifier; Adopt rewrites it in every
record that holds it. Every notification runs in a goroutine of its own
(`handler`): ForgetProfile, the reconciliation, then the retry (BeginRetry,
ScanWaiting, one RetryConnects or RetrySkips per cluster found, EndRetry) or the
suspension (HandleDown, Suspend per cluster, EndDown). The reconciliation is
the sections of `core_access.go:86-110` in their order: ListProfiles asks Biebie
Access, which may fail, and reads the records (`seen`); for each cluster read,
Consider looks into `launched`, AdoptSeen rewrites or fails, ClearLaunched and
ForgetAdopted follow. Another handler, an attempt and ConnectWithAccess come
between any two of them. ConnectWithAccess is steps too (`call`): AccessAccepts
with AdoptResolved when Biebie Access answers, LaunchAccess with NoteLaunched
when it has to be launched. `handed` is history: the references ever handed to
a deep link. `attempt` is a connection attempt that asks for the status, through
the cache with its unlocked question (AskStatus, CacheStatus), and dials.
Biebie Access is external: it starts, and says that a connection went up or
down, possibly several times.

**PortForward** (`portforward/service.go`) is one `starter` and one `tunnel`
goroutine per forward, working on `row`, and `stopper` goroutines that run Stop
or StopCluster and may end the session after it. Closing the stop channel and
deleting the row are separate steps, as they are in the code.
OpenUI of `argocd/ui.go` is Open of a member of Pages, which first looks for a
forward that is there already. ForwardPorts is external: it listens, breaks,
or returns once the stop channel is closed.

**PolicyGate** (`policy/service.go`) has the two halves of a mode, `persisted`
and `session`, which check (`opener`) and change (`changer`) read one after the
other. `streams` are the terminals and forwards that were opened, `shown` what
the window displays. **PolicyHistory** adds a history variable: whether the
stored mode has been read-only since a check began.

**Store** (`store.go`) is Update in its steps on a file system that may lose
what was not flushed: `disk` is what the document's name stands for, `older`
what it may be found to stand for after a power loss because the directory is
not flushed. A file may be missing, empty, cut or whole, and Open takes an empty
one for a first run, as `store.go:197` does: were the temporary file renamed before
it is flushed, a power loss could lose everything that way, in silence. Every step may fail; the
process may be killed and the power may go at any moment. **AtomicDocument** is
what it promises: Kill leaves the content as it is, except that the update being
saved may be in it; PowerLoss leaves it likewise, or takes it back to one of the
contents it had since the directory was last settled (`behind`), and to nothing
else.

**AutoImport** (`autoimport.go`) is the contexts of one kubeconfig, the clusters
made of them and the record of what was seen, over several launches. An import
creates its clusters one at a time and records them afterwards, as the code
does; the process may stop anywhere.

**WatchHub** (`internal/kube/informer.go`) is the watches of one session over an
API server that changes by itself. `watches`, `synced` and `older` are what
runs, what has its first list, and which of two watches was read longer ago,
which stands for the times that the budget and the sweep compare; `behind` the objects whose latest
event a watch has yet to see; `pending` what a debounce window has gathered,
turned into a full notification beyond MaxPending. Ensure replaces narrower
watches of its type, reuses a wider one, and evicts the one read longest ago.

**ResourceTable** extends it with the tables and one window. List is four
critical sections, ListRead, ListSubscribe, ListEnsure (with ListReplace) and
ListPage, as `service.go` releases its locks between them; a notification is
Notify, RefreshRead, RefreshApply, MakePatch and Emit. `answers` and `wire` are
the two ways to the window: answers to its calls in any order, patches in the
order of emission. `heap` keeps tables that were evicted or forgotten and are
still in the hands of somebody. `raced` and `crossed` are history: they mark
the orders that are known to lose, described [below](#observations-without-a-run);
`raced` is about a view, until all its rows are read again, and `crossed` about
the token of the window, until its next load.

**ArgoOwnership** (`discovery.go`, `ownership.go`, `claim.go`, `gate.go`) makes
of what a cluster answers (discovered groups, two listings of Applications,
each of which may be refused, slow or cut) a search, of that the ownership of
an object or the claim on one yet to be made, and of that the gate.
**ArgoGate** asks it: `AskGate` answers any one of `GateRequests`, a cluster
with an object of it or with a target that is to be created, when nothing is
remembered (Editing has what is remembered). The discovery that a session keeps
may be whole, read in part (`kube/discovery.go:104-130`) or older than the
installation of Argo CD; only a whole one that does not name Argo CD says that
there is none. **ArgoStatus** is the page of
Applications: light, attention, order, counts and the timeline.

**Editing** puts the gate in time. `objects` holds the version the API server
gave each object; others make, write and
delete objects, Applications come and go, permissions change, and a
search is remembered in `cache` until it is too old. An editor opens, is told
(Freshness) or passes Apply's sections: gate, fresh read, update with its
version. A creation (`draft`) is claims for every document of the manifest and
then one write after another, each of which is made, refused, or made while its
reply is lost, after which the code reports a failure. Perform is an action of a page, which patches
behind the gate.

**SourceComparison** (`normalise.go`, `defaults.go`, `diff.go`, `classify.go`)
compares trees of maps, lists and leaves. **SourceState** is the rest of
`internal/gitops`: finding the document that declares an object within the
budget of files, with files that are too large, unreadable or no manifest; the
states a comparison may end in and the reads that fail on the way; what explains
a replica count, and the ladder of checks of a repository.

**TableQuery** (`internal/resources/query`) reads an expression, given as pieces
of words, blanks and symbols, into terms and matches a row with three-valued
answers. **RowHealth** (`render.go`, `custom.go`) is the light and status of a
row for every kind whose light is not constant. `Drawn` is what rows may be drawn
of, `drawn` the last row with the object it was drawn of. A container is its
readiness and its two reasons, a resource of unknown shape its conditions, its
phase and its columns about health and status. **NodeAccounting**
(`capacity.go`, `gpu.go`, `node.go`, `overview.go`) charges pods to nodes:
requests and limits are functions of the resources a container names, so that a
named zero is told from none.
**RelatedObjects** (`related.go`) finds owners, revisions and pods of a page
through reads that are limited, cached or refused; `Visits` are the pages there
are to open, of any object of any cluster, `visited` the last one that was, with
what it lists. Objects, their owners, labels and identities are data; what the
API server alone decides, a list by label, by node or by name, is a set or a
subsequence of the objects, and all that is cut is cut where the code cuts it.
**Incident**
(`internal/incident`) collects the evidence of an object, applies the rules and
makes the report.

**ClusterRecords** (`repository.go`, `internal/views`, `domain/group.go`) is every
operation on the records as a function of the document, for each is one Update
of the store. Operations follow one another; that they are atomic is what
Store shows. RecordsNext makes them steps: `doc` is the document, `given` the
identifiers that clusters ever had, for the program makes a new one of each, and
`last` the operation made last with the document it was made on.

**Arranging** has the lists that loops over a slice make, for ClusterRecords,
ResourceTable, RowHealth, RelatedObjects and ArgoOwnership: a sort by an order, a
stable sort, what is left of a slice when
some of it is dropped, the first and the last of some places. They are made of
sets of places and not by recursion, so that they can be reasoned about.

**Streams** (`internal/terminal`, `internal/logs`, `internal/ai`, the link queue
of `service_app.go`) is the goroutines beside the window's calls. A terminal
probes shells, opens, writes to a pipe and ends; a log has a scanning
goroutine, a bounded channel and a pump that batches lines and selects among
line, tick, error and close; a run has a process and a time limit. Taking a
stream out of its registry, closing its pipe and cancelling its context are
separate steps. `links` counts, for each link, the deliveries that came, are
held, are being opened, were told to the window or missed it: OpenDeepLink
redeems the handoff in a goroutine of its own and emits afterwards, and Reload
(the menu's View, `menu.go:33`) takes the page's listeners and leaves the queue
ready. Disconnect, AuthFailure with CloseCluster, and the three steps
of Core.Stop work on all of them.

**MCRules** asks the modules of operators. Each of its actions picks one question
out of those its `MC*` module makes (`Questions`), and records the answer; each
invariant holds the answer against a statement of what it should be: MCComparison!Faithful, MCSourceState!Sound,
MCTableQuery!Sound, MCOverviews!Accounted with MCOverviews!Counted, and MCIncident!Explained.
MCComparison, for instance, also has the part of the API
server: it fills in the defaults of a manifest, changes the object in known
places, and the comparison has to name those places and no other. Five parts are no
questions but machines of their own, so that their properties are stated and
proved without reference to what the run asks: the records, RecordsNext, which
starts from the document of a new installation or from a populated one
(MCClusterRecords) and is stepped up to MaxOperations times; the automatic
import, AutoImport as it is; the rows, of
which DrawRow draws any one of `Drawn`; the pages, of which OpenPage opens any
one of `Visits` (both in MCResources); and the gate (MCArgoGate).

The other `MC*` modules add symmetry sets and constants that are functions or
sequences; where neither is needed, a run checks the module itself. The
operators named `...Mutant` are the ways the code could plausibly be wrong with
which each property was tried: every property listed below fails when one of
them replaces the operator it is named after.

## Runs

| Run | Instance | Shows |
|---|---|---|
| `session` | 3 goroutines, 2 successful connections | TypeOK; OneHub; OneAttempt; RouteSurvivesAccessDown; ImplementsOwnership; ConnectingEnds |
| `access` | 1 cluster, 2 connections, 2 handlers, 2 notifications, 4 requests of the engineer, answers remembered for one reference | OneRetry; NamedAdoption |
| `access_live` | 1 cluster, 2 connections, 2 handlers, 2 notifications, 2 requests, no answer remembered | RetryEnds; RetryReachesWaiting |
| `forward` | 2 forwards, one the Argo CD page's, 1 stopper | NoOrphanTunnel; RemovedStaysRemoved; StartReturns; RemovedPortFreed |
| `policy` | 2 changers, 1 opener, 3 changes | StoredModeHolds; RestrictionEndsStreams |
| `store` | 3 updates, 2 crashes | NeverTorn; MemoryIsDisk; SavedIsKept; ImplementsRegister |
| `tables` | watches of pods of all namespaces and of two, 2 objects, a budget of 1 watch, 1 table and pages of 1 row, 2 queries (one that filters), 3 moves of user and cluster, 1 notifying goroutine | WithinBudget; TableFollowsCache; WindowFollowsTable |
| `editing` | 2 editors, 1 creation, 4 names, 11 manifests, 2 Applications that come and go, 2 ticks, 2 turns of others, 3 requests | NoLostWrite; GateIsHonest; OneIntention |
| `streams` | 1 terminal with 2 shells to try, 1 log of up to 3 lines with a channel of 1 and batches of 2, 1 run, 2 links, 3 requests | Reachable; LogsWhole; LinksOnce; EndsTold |
| `rules` | the questions of five `MC*` modules; a row of every object of sixteen kinds; pages of ten objects of clusters with up to three pods, reads limited to two; the gate of an object and of targets in clusters with up to two Applications, one of which a listing may hold, discovered or not and with each listing answered in each way; 3 operations on the records, from a new installation and from a populated document; 2 contexts, 2 importers and 3 launches of the automatic import | ComparisonFaithful; SourceSound; GateIsSound; QuerySound; GreenIsEarned; OverviewsAccounted; PageBelongs; ReportHonest; RecordsKept; RecordedStaysDeleted |
| `stale_auth_failure` | 2 goroutines, 2 successful connections | SuspendedSessionReported, which fails: see [disagreements](#disagreements-with-the-comments) |
| `launched_adoption` | 1 cluster, 2 connections, 1 handler, 2 notifications, 2 requests | AdoptionIsConfirmed, which fails: likewise |

Each property is stated in words above its definition. Type invariants other
than the session's are proved and not run.

The bounds are named constants. *Session*: two connections are a session and
the one that replaced it, the most that any operation can confuse, and three
goroutines are an attempt, an operation that interrupts it and one that
interrupts that; a goroutine that ends may begin again, so behaviours are as
long as they like. *Access*: two notifications and two handlers are what it
takes for a retry or an adoption to meet another, of the same connection or of
the other; requests of the engineer (MaxClicks) put a connect, a disconnect, a
launch and a call that is answered between their steps. Adoption is about
records that hold one reference, and those are rewritten together, so one
cluster shows it; what several clusters add is the loop over them, which the
theorems have for any number. The liveness run remembers no answers, and the
other one remembers those for the identifier that a retry asks for.
*Forward*: forwards share nothing but the map, the page's lookup and
StopCluster, which two show; the goroutines of one forward are all there.
*Policy*: with two changes in flight and a third made, a revision can be
overtaken. *Store*: three updates are one saved, one being saved and one
waiting; the proofs below remove the bound. *Automatic import*: a context is created
in one launch, deleted, and considered in two more; two contexts tell a partial
import from a whole one. *Tables*: with a budget of one, every second watch
evicts, and with pages of one row and two objects every change moves a row over
the edge of a page; three watches of one type are one that covers another and
two that do not. Loads, notifications and moves then meet in every order three
moves allow. *Editing*: two editors of one object are enough to lose a write;
two ticks outlive a search (DiscoveryTTL 1) while a refused one (RefusalTTL 2)
is still remembered; the manifests hold every
kind of fault once and up to three documents. *Streams*: a channel of one and
batches of two make the scanner wait, the batch fill and the tick matter with
three lines; what different streams share is the registry's CloseCluster and
Core.Stop, which do the same to each. Three requests are, for instance, a window
that listens, a link and the reload that meets its redemption. *Rules*: limits (differences, files,
pages, events, rows of a related list) are set so small that the questions
exceed them.

Symmetry is used only where no liveness property is checked: `access`,
`stale_auth_failure` and `editing` permute the goroutines that handle
notifications, the callers and the editors, which neither the models nor the
properties of those runs distinguish.

CHECK_DEADLOCK is off in `access`, `access_live`, `launched_adoption`, `store`,
`tables`, `editing`, `streams` and `rules`: every notification and request may be
used up, every update done, and the bounded work of user and cluster finished,
after which nothing is left to do. The other systems never stop.

## Fairness

*ClusterSession*: weak fairness of Proceed(c), the next step of a goroutine
inside an operation. Go schedules runnable goroutines, and every network call
in those operations has a timeout in its context, so its outcome, good or bad,
comes. Nothing obliges anyone to start an operation.
*AccessRetry*: weak fairness of each handler and each attempt, for the same
reason. Biebie Access and the engineer owe nothing.
*PortForward*: weak fairness of the goroutine in Start, whose timer fires, of
the end of a tunnel that was told to stop or broke, and of a stopping
goroutine. A pod owes neither an answer nor a break.
*PolicyGate*: weak fairness of a change under way. Openers owe nothing.
*Streams*: weak fairness of each step of a goroutine that runs: an executor
returns when its context is cancelled, a killed process dies, the pump's ticker
ticks and the scanner goes on. A shell, a pod that writes a log and an AI
command need never end by themselves, and the window need ask for nothing.
*Store*, *AutoImport*, *ResourceTable*, *Editing* and the rules have safety
properties only: a process may die at any time and need not be started again,
an API server need not send an event, and an engineer need not go on.

## Proofs

TLAPS proves the following for any number of goroutines, connections, forwards,
updates, crashes, clusters, contexts, streams, editors, manifests, watches,
tables, rows, objects, conditions, containers, pages, Applications, notifications, records and operations on them. The assumptions are those the modules state of their constants: there are callers
and clusters; every cluster is behind a connection and those whose networks
are forwarded are clusters; the bounds MaxGen, MaxCrashes, MaxEvents, MaxClicks,
MaxRevision and MaxLaunches are numbers, MaxGen not zero; NeedsAccess is a Boolean; Pages
are forwards; Manifests are sequences of documents; Applications that may come
differ in namespace or name; DiscoveryTTL and RefusalTTL are numbers; a
watch's key is a type, a namespace and selectors, and views are such keys;
Budget, PageSize, Cold and TableBudget are positive numbers, MaxPending and
MaxMoves numbers; objects and cells are numbers (objects finitely many), and no
cell stands for an absent row; what a cluster holds at first are rows; the
forms, words and identifiers of records are of their types, and the documents a
launch may find are sound; what rows are drawn of are objects of their kinds;
RelatedBudget and ColdBudget are positive numbers, and pages are opened of
objects of their clusters, each with one controller at most; ListingBudget is a
number, and the gate is asked of clusters whose Applications are in a namespace
and differ in it or in their names, whose whole discoveries name what is served,
and whose servers call a resource unknown only when they do not serve it. TLC
evaluates them on every run.

- **ClusterSession_proofs**. The inductive invariant is TypeOK, OneHub,
  OneAttempt and ConnectingIsAttempted together. OneHub needs the bound of the
  generation, without which a new hub might be an old one; ConnectingIsAttempted
  needs OneAttempt, because only when there is a single attempt does the one
  that leaves `checking` or `dialling` also clear the state. Each step of each
  operation is a case. RouteSurvives and SessionOwnsOneHub (the refinement of
  WatchOwnership) follow with one step lemma each.
  The same module proves of ClusterRecords RecordsAreKept: RecordsKept after any
  number of operations, for any forms, identifiers, customers and words. The
  inductive invariant, RecordsInv, adds to RecordsKept only that identifiers are
  numbers; the strength is in Sound, which RecordsKept includes. That an
  identifier names one cluster with one preference is what keeps the modes of
  the others (ModesKept), and needs that an identifier is never given twice,
  for the preference of a deleted cluster may be made after it is gone
  (RememberNamespace asks for no cluster). How a new cluster starts follows the
stored kind: production starts read-only, and one that is no production by any
word of its environment starts read-write. That a choice is only kept for a
  section in use and once (ChoicesMean) is what a customer who comes back does
  not inherit from (NothingInherited), and what makes showing a hidden section
  possible (NothingStranded). There is one lemma for each operation; HandoffFinds
  rests on that hiding and archiving change nothing that the order of the list
  or a look for a context reads. The assumption RecordsAssumption says that the
  parameters are of their types and that a document found at launch is Sound;
  by the theorem that is how an earlier launch leaves it, and SoundAtFirst says
  it of a new installation.
- **Arranging_proofs**. What is known of the lists: Arranged has every member
  once and in the order, however the order came about; Keeping keeps the order,
  loses nothing that stays and adds nothing; a stable sort is a permutation
  without inversions. The proofs of tables and of records cite these.
- **AccessRetry_proofs**. The invariant is TypeOK, OneRetry, Awaited and
  Traceable. Awaited: the handler of an attempt is waiting for it, and no two
  attempts belong to one handler; without it an attempt that ends could set a
  handler going that is already elsewhere, in a second retry. Traceable: what a
  handler or a call is about to rewrite is the name of its connection, or was
  handed to a deep link once; it speaks of the history and not of `launched`,
  because another handler may clear that between the look and the rewriting.
  AdoptionIsNamed is the action property: a reference is rewritten to an
  identifier only, and to that of a connection it does not name only if that very
  reference was handed to a deep link and a notification of that connection is
  being handled. That the second case is real is what `launched_adoption` shows.
- **PortForward_proofs**. The invariant adds three facts to the properties: a
  forward that is not registered has neither tunnel nor row; whoever is about
  to delete a row has closed its stop channel (this is what makes NoOrphanTunnel
  inductive); and an error in `errs` means that the tunnel is over (which is
  what makes a row that reads failed dead). RemovedAlwaysStays is the action
  property: only Register makes a row of nothing.
- **Store_proofs**. The invariant says that one update at a time holds the mutex
  and only in a running process; that every file the name may stand for is
  whole and flushed; that the temporary file is whole and flushed before it is
  renamed, and holds memory and the update; that disk is ahead of memory by the
  update being swapped in and never otherwise; that what the name may fall back
  to is behind; and that an update which was not saved is in no document.
  StoreIsRegister is the refinement: Swap is the register's step, or Killed if
  the process dies between the rename and the swap, and no other update comes or
  goes in a kill. `behind` is what the names in `older` hold, less the present
  content; a power loss goes back to one of those, and the register has no other
  way to lose anything.
  The same module proves of AutoImport RecordedIsKept, that a context recorded
  as seen is made a cluster only by hand. It rests on three facts: nothing is
  importing when the program does not run, an automatic import runs alone, and
  what it chose is not recorded yet. And it proves of PolicyHistory
  PolicyTypeCorrect, which needs Room, that the revision and the changes that
  wait to raise it stay within MaxRevision, and StoredModeIsHeld, which needs
  StoredIsKnown, that ties the history variable to what a check has read at each
  of its points.
- **Editing_proofs**. NothingOverwritten rests on the lemma that every step gives
  an object a version it never had, deletes it, or leaves it alone. So a version
  that an editor holds cannot come back, and the API server's comparison of
  versions suffices. ManifestIsOneIntention follows the prefix of a manifest
  that was written through claims, writes and the first failure; what exists and
  what the outcome calls created are two sequences, and the proof bounds their
  difference by the one write whose reply may have been lost.
  GateWasHonest needs to know what a remembered search says of the cluster as
  it was then: only a search of the whole cluster is ever complete; it lists
  every Application of its time and is free of doubt. Of the marks an object
  bears there is at most one, and of the Applications ranked highest the first
  by name answers for it, so that neither ResolveOwnership nor ResolveClaim can
  settle on a stray one where an owner is listed.
  The same module proves of RowHealth GreenIsAlwaysEarned: whatever is drawn,
  the light is Earned. DrawnAssumption, that what is drawn is an object of its
  kind, says only which fields there are. A loop that keeps the first reason, or
  lets a later condition replace an earlier one, is the member at the lowest or
  the highest of the places that speak, so that it says something exactly when
  one of them does (FirstWordSays) and quotes one of them (ReportedIsOfType).
  As many containers are ready as there are exactly when each is, because a part
  of a finite set that has its size is all of it (AllAreReady). That the order
  of conditions is indifferent (TurnedIsAlike) is proved for every
  rearrangement: with one condition of a type, the one reported is the same
  after it, and the light reads nothing else of them. With two of a type it is
  not indifferent, for the later one wins, and a working node may then not be
  green; the property excludes just that. The other half of it, that what
  is green works, needs no such condition.
  And it proves of RelatedObjects PageAlwaysBelongs. ReadFits says what a read is:
  a part of what fits, and all of it when it was neither refused nor cut.
  ControllerControls says that the first reference marked as controller is one
  that controls, and the only one, since the API server admits no second. So what
  a loop keeps by identity is what is controlled (OwnedAreControlled), whatever
  the selector let through, and the two reads of a deployment together find the
  pods of its revisions. PodsShown is what each way of drawing pods guarantees,
  with the two ways a list can fall short, a read that was cut and a budget that
  was exceeded, kept apart from a read that was refused. Groups of anything but
  pods (Beside) can then stand before them without taking any of it back
  (HonestTogether), and a page is honest kind by kind (BelowIsHonest). Two cases
  are in the hypothesis of the property because the code does not do better:
  see *Observations without a run*.
  And it proves of ArgoGate GateIsAlwaysSound. Knows says what a search may
  know of a cluster, and holds of the search of the whole cluster, of that of a
  namespace beside it and of what Discover makes of the two: it has nothing but
  Applications of the cluster, is complete exactly when it has all or when there
  is nothing to search, and gives a reason when it is not. OwnerIsHighest and
  ClaimIsHighest say that the Application chosen is one of those that speak
  loudest, which holds because ranks are few and namespaces and names order
  Applications that differ in them. GateFollows joins the two for objects and
  for targets alike: the rule of `gate.go` is one. A gate that opened without a
  whole search opened on "not found" or on a discovery that does not name Argo CD:
  with a whole discovery that is the truth, and one that is Unreliable is in the
  hypothesis of the property because the code lets it through: see
  *Observations without a run*.
- **Streams_proofs**. Reachable and LinksOnce follow from the soundness of each
  stream alone (SoundTerminal, SoundLog, SoundRun, SoundLinks): what each phase
  says about registration, closing, cancelling and telling. LinksOnce counts:
  every delivery of a link is in exactly one place, wherever the window is
  loaded again, and one that nobody heard was redeemed across such a reload.
  Streams meet only
  in the registries' closing, which takes one out after another. LogsShownWhole
  numbers the lines of a log: what was sent, what the pump has batched and what
  is in the channel are one sequence without a gap; the reader stops early only
  when it was cancelled; and a log that says how it ended says so with nothing
  left to flush.
- **ResourceTable_proofs**. BudgetKept: `older` orders exactly the watches that
  run, so the eviction leaves as many as the budget says, because the oldest
  survivor has too few above it; and no watch of a namespace runs beside one of
  the cluster, so that one watch answers for a view. TablesFollow rests on
  CacheTracks, that a watch differs from the cluster only in what it has yet to
  observe, and on Followed: a row that a table does not show as it is in the
  cache is named in the open window of its watch, or in a notification under
  way that still has the table before it, or is about to be filled in by a
  List. Each step of each of them moves a row from one of these places to the
  next, and none may drop it. WindowFollowed first settles who may speak to the
  window (TokenInv): a load has one request or one answer under way, nothing
  goes by a token before its first page is made, and one table bears the
  window's token. Its invariant, WindowFollows, then speaks of the windows to
  come: take the answer, if one is under way, then each patch on the wire, then
  the one about to be emitted; the last window of this chain has the order that
  its table believes it sent, and every row of it as the table has it, except
  those that a patch in the making is to mend. Applying a change opens such an
  exception, making the patch closes it and lengthens the chain, emitting
  moves the patch onto the wire, and an arrival shortens the chain at its
  front. That a patch mends what it must is InPlaceTells and ReorderedTells,
  one for each of the two ways of `patch`.

Only model-checked: the liveness properties (ConnectingEnds, RetryEnds,
RetryReachesWaiting, StartReturns, RemovedPortFreed, EndsTold) and
RestrictionEndsStreams, for TLAPS does not reason about fairness here; and the
other five invariants of the rules (ComparisonFaithful, SourceSound, QuerySound,
OverviewsAccounted, ReportHonest), whose operators are recursive or sort, filter
and fold sequences, so that what they compute needs an induction over data, for
which the library's theorems cannot be instantiated here. Every other invariant
of the runs is proved.

## Disagreements with the comments

`stale_auth_failure`: the hub's callback names the cluster only
(`manager.go:533`). Watches of an earlier session report a rejection, the
cluster is reconnected in between, and the healthy session is torn down.
`manager.go:798` speaks of the session whose watches were rejected. The
counter-example of the run is the sequence of steps.

`launched_adoption`: a notification adopts every launched reference for its own
connection (`core_access.go:107`), without asking which connection the
reference resolves to. `repository.go:339-341` says that AdoptAccessProfileID
swaps a reference for another "that Biebie Access has just confirmed points at
the same connection". The engineer asks for a cluster of one connection while
Biebie Access is down, which launches it by a deep link; the first connection
that it then reports, another one, is written into the cluster's record.

## Observations without a run

Seen while modelling, each at its line. Those marked * are reachable in a model
of this directory; the properties above say exactly what holds in spite of
them. The others were met while reading and are outside of what the models
tell apart.

*Sessions and networks.*

- * A hub runs while the session reads unauthorized or connecting. A suspension
  deletes the entry (`manager.go:866`) and writes the state later
  (`manager.go:828`); a Connect that installs in between is overwritten. A Connect of
  a connected cluster keeps the entry's client and hub while it reads
  `connecting` (`manager.go:410`), and, when the attempt fails, while it reads
  the failure (`manager.go:917`). OneHub still holds: the hub can be found and
  closed.
- * RefreshCatalogue reads through one session's client and stores into the
  session that replaced it, stamped with that one's epoch (`manager.go:338`).
- * Neither Disconnect nor Delete cancels an attempt, which installs its session
  afterwards (`manager.go:563`), for a deleted cluster one that no list shows.
- * A cluster whose attempt lands in `waiting` just after RetryWaiting looked
  (`manager.go:893`) waits for the next notification, which may never come.
- * A status that was asked for before a notification is cached after the
  notification emptied the cache (`access/client.go:101`), for two seconds.
- * A launch of Biebie Access is noted after its deep link was opened
  (`service_access.go:84`). The notification it causes may be handled before that, and
  the note then waits for a later one, of whichever connection.
- * A stream that was checked before a change to read-only opens after the change
  closed the others (`service_stream.go:89`), and stays;
  `docs/incident-workspace-spec-updated.md:144` reads otherwise.
- * Two changes of the mode may deliver their events in the opposite order to
  their snapshots (`policy/service.go:115`), and Snapshot reads the halves one
  after the other (`policy/service.go:66`): the window keeps a pair that may
  never have been in effect.
- Rejected lists are counted for the life of a hub (`informer.go:194`): two of
  them months apart end the session.

*Forwards and streams.*

- * A tunnel that becomes ready and breaks before Start looks is written
  `stopped` by finish and then `running` by setState
  (`portforward/service.go:171`, `:73`), and nothing corrects it.
- * StopCluster collects its list, a Start that has its client registers, the
  session ends (`service_cluster.go:140`): the forward survives the disconnect,
  in its list. Terminals and logs are not closed by a disconnect at all.
- * Two requests for the Argo CD page may both find no forward
  (`argocd/ui.go:37`) and open one each.
- finish receives the enclosing function's err, which is nil, instead of the one
  ForwardPorts returned (`portforward/service.go:166`): stopped without a reason.
- * A Write stays blocked when its terminal's stream has ended
  (`terminal/service.go:143`); a terminal that opens while a lost authorisation
  closes the cluster's registers afterwards. Resize drops the newest size when
  its four slots are full, where `terminal/service.go:159` says that the next
  one carries the final size.
- * The pump may take the scanner's error before buffered lines, or the closed
  channel before the error (`logs/service.go:187`): lines or the reason are
  lost. A line longer than 64 KiB ends the stream (`logs/service.go:178`).
- * A cancel that comes before a run registers is lost, and a process that cannot
  be started ends without any event (`ai/service.go:159`, `ai/runner.go`); a
  timeout is reported as a cancel.

- * A deep link whose handoff is being redeemed while the page is loaded again
  (`menu.go:33`), or that comes before the new page has said that it listens,
  is emitted to nobody (`service_app.go:93-96`): the queue stays ready after the
  first page, and nothing tells it otherwise. LinksOnce allows a link to be
  missed only after a reload.

*Tables.*

- * With pods, List may wait five seconds for usage between its read and its
  write (`resources/service.go:158`): a notification applied in between is
  overwritten by the older read, against what `service.go:26-27` says of the
  cold budget. `raced` marks these tables.
- * An answer that meets a patch leaves the window with either
  (`resources.ts`): `crossed`. load() compares the view and not the token.
- * A further page whose order shifted below it leaves the window with rows that
  the table no longer counts, or in a stale order. The table records the whole
  prefix as held, which by its comment (`table.go:255-258`) "is what lets the
  next patch re-send exactly the rows that moved"; but what is recorded as held
  is not sent again. `crossed` marks these pages too.
- * The patch of a row in place ignores the filter (`table.go:122`, `:385`): a row
  that stops matching stays. WindowFollowsTable holds the window against what
  the table sent, which has the row too.
- `RowsChanged.Order` is left out of the message when it is empty
  (`resources/service.go:59`), so the last row of a window stays on the screen
  (`resources.ts:375`); WindowFollowsTable excludes the empty window.
- ConnectCluster forgets the tables before it connects; a List in between makes
  them anew out of the old hub. A page without events for five minutes loses
  its watch to the sweep.

*Writing.*

- `searchNamespace` appends to a slice that the cache shares
  (`argocd/discovery.go`). * A discovery of the API that was read in part, whose
  results `kube/discovery.go:104-130` keeps, or one that the session made before
  Argo CD was installed (`manager.go:347`), reads as "not installed"
  (`argocd/discovery.go:288-291`) and opens the gate, where `domain/gitops.go:78-80`
  promises a search that was whole and `argocd/discovery.go:33` says the same.
  GateIsSound leaves exactly that discovery open. * Results are remembered across a
  reconnect and the creation of an Application. Objects tracked by the Argo CD
  of another cluster are unmanaged. The page shows no Applications when the
  listing was refused (`argocd/service.go:87`).
- * When the reply to a write is lost, its object exists and the outcome calls it
  failed; with the first of a manifest, "Nothing was created" is untrue
  (`authoring/service.go:378`). OneIntention bounds this to the object that
  failed.
- The total in a creation's message counts created and failed only; the split
  into documents ignores the
  scanner's error (`internal/authoring`). Create resolves a kind by its exact
  version.
- Two manual runs of a CronJob within one second get one name, and the trimming
  of the name knows "-" only (`actions.go`).

*GitOps.*

- * A file that is larger than the limit (`gitops/service.go:366`) or cannot be
  read (`:375-379`) is passed over in silence: a search says that nothing declares
  an object which such a file declares, or that a repository holds no manifests
  when it holds those alone. SourceSound says which of the two sentences is
  given, and that both are true when no file was left out.
- An object inside a `kind: List` document is located, and compared with the
  whole list (`match.go:66`). Two container ports of one number, 53 over UDP and
  TCP, give a false difference of `protocol`; MCComparison gives no two ports
  one number. A manifest exported with its tracking annotation reads as missing
  in the live object. `exact` may be claimed though another tree was refused,
  and attention stays empty when only a manager's name is known.

*Reading.*

- * Query: a bare value that ends in `and`, as in `name=brand`, is cut there and
  refused (`parse.go:400`), and `and` joins in any spelling, where
  `docs/incident-workspace-spec-updated.md:253` has AND in capitals. A negative
  number is accepted (`cpu > -1`), against `:250`. A count beyond 64 bits wraps:
  restarts of 2^64 are read as 0. QuerySound says what is documented wherever the
  code does it, and states these three as what the code does.
- Lights: a container that is being created makes its pod critical, a Job that
  succeeded after one failed pod stays failed. * Restartable init containers are
  charged as ordinary ones (`capacity.go:83`), so a node with sidecars shows less
  than the scheduler counts; OverviewsAccounted has the scheduler's number without
  them and an upper bound with them. * A GPU request of zero that is named counts
  as a request (`gpu.go:64-71`).
- Related objects: `group` cuts jobs without saying so, a refused list of jobs is
  an empty one, and a list of exactly the budget reads as cut (`related.go`).
- ownedObjects drops whether its read was cut (`related.go:215`), so a deployment
  with more replica sets than the cold budget shows the pods of some of them as
  all there are; and podGroup shows nothing, not even that it was cut, when no
  pod of a read that was cut is kept (`related.go:289`). Both are short of
  `related.go:294`, "saying so is the difference between a short list and a wrong
  one". The instance of `rules` reaches both, and PageBelongs allows them alone.
- The overview shows empty nodes when pods cannot be read, and a node's page
  counts the first 500 pods only.
- * Incidents: pods below a workload whose page cannot be read are skipped silently
  (`incident/service.go:253-256`), and the report calls its coverage complete, where
  `docs/incident-workspace-spec-updated.md:188-190` asks for what could not be read;
  ReportHonest names this one read as passed over. * A succeeded pod that once ran
  out of memory is reported as critical, against `:229`; no finding is demanded for
  it. * When the object itself cannot be read there is no report at all
  (`service.go:29-32`). A failed read of capacity is silent; two rules cite
  conditions that were not collected; a container that is terminated for memory
  now, and not restarted, is not found (`rules.go:90`); events are found by name
  and not by UID.

*Records.*

- Update does not look for a second cluster of one context, which Create refuses
  (`repository.go:118`). A namespace may be remembered for a cluster that was
  just deleted. * The initial mode looks at the stored kind of environment only
  (`repository.go:511-516`): a cluster without a kind, whose environment is
  "production", starts read-write, though everything else reads it as production
  (`repository.go:537-564`, `environment_test.go:11`) and POL-02
  (`docs/incident-workspace-spec-updated.md:114`) has production start read-only.
  ModesKept leaves that one case open.
  The last look of FindByContext ignores the environment.
- * Only an import that completes records its contexts (`autoimport.go:147`); a
  cluster added by hand, or imported just before a kill, comes back at a later
  launch once deleted (`core.go:228`).

## What is not modelled

Left out of modelled parts: AccessRetry leaves out the end of Biebie Access
itself, edits of a record's reference by hand, `connecting` notifications, which
change nothing that is modelled, and a connect that is refused before it begins. ClusterSession leaves out the
choice of namespace, and hubs inside are one thing; the wording of diagnoses is
left out everywhere, and the kinds of failure are kept. PortForward resolves a
service to a pod and picks a port in one step that may fail. Store has no
migration of versions and no reader beside the updates, for a reader takes the
mutex and copies. AutoImport has one kubeconfig. PolicyGate has no unknown
capabilities. WatchHub counts no time: the debounce, the sweep and the resync
come whenever they like. ResourceTable leaves out the usage columns, which poll
the metrics API. Editing leaves out the field-by-field view shown before a
write, which decides nothing, templates and the TypeScript runtime, sync and
refresh of an Application, and manual runs and deletion. TableQuery hands label and
field selectors to the API server's library, as the code does. Streams leaves
out the size of a terminal, the text of a link and of an AI's context, and the
probing for programs. ClusterRecords leaves out the resolving of a view against a
catalogue. The window's sessions and catalogues are replaced whole by each
event.

Not modelled at all:

- *Git mirrors*. Git is a child process and decides what a clone that was killed
  leaves, what a fetch into it does and what a reader sees meanwhile. The code
  adds a lock for each directory and a look for HEAD; a model would be one of
  git, and what it showed would rest on guesses about git.
- *Kubernetes clients and discovery*, *kubeconfig files*: construction of
  client-go's clients and parsing of formats of others, with no state of their
  own.
- *Updates*: downloads, signatures and an installer, in a single thread of
  control.
- *Application shell*, *pages of the window*: wiring, layout, input and output.
- *Test doubles*: not part of the program.

## What could still be done

What more of the rules compute could be proved where an operator filters a finite set
rather than a sequence; the set-like ones would have to be written with
Arranging, as the tables, the records and the lights are. The usage columns would be one more source
of notifications in ResourceTable. A composition of Streams with ClusterSession
would say what a disconnect leaves open in terms of sessions; each side is here,
and the place where they meet, `service_cluster.go:140`, is in PortForward.
