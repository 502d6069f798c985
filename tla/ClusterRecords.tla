----------------------------- MODULE ClusterRecords -----------------------------
(***************************************************************************)
(* The records of clusters (internal/cluster/repository.go, internal/views,*)
(* domain/group.go): what each operation makes of the document, and what   *)
(* is read from it. Each is one Update or one Read of the store, so an     *)
(* operation is a function of the document, and a step of the program.     *)
(*                                                                         *)
(* Text is a number, and sorts as one; None is the empty text. What the    *)
(* code trims is trimmed, and the cases of letters are left out. The       *)
(* answer to an operation is a document, or Refused, which changes none.   *)
(***************************************************************************)
EXTENDS Arranging

CONSTANTS
  MaxSavedViewsPerCluster,
  Documents,    \* what a launch may find
  Inputs,       \* forms an engineer may save
  Ids, ViewIds, \* identifiers that may be given
  SectionKeys,  \* customers, and sections that are none
  Profiles,     \* references to connections of Biebie Access
  Words,        \* names of namespaces and titles of views
  Contexts      \* what a handoff may name

VARIABLES
  doc,   \* the document
  given, \* the identifiers that clusters ever had: one is never given again
  last   \* the operation made last and the document it was made on, or <<>>

recordVars == <<doc, given, last>>

None == 0
ArchivedKey == -1     \* looks like no customer
Ungrouped == None     \* the customer of a cluster that names none
Refused == <<>>
Done(d) == <<d>>

IndexOf(d, id) == {i \in DOMAIN d.clusters : d.clusters[i].id = id}
Exists(d, id) == IndexOf(d, id) # {}

-----------------------------------------------------------------------------
(* One cluster.                                                            *)

\* A kind that was not stored is read off the words of the environment.
Spelled == {"development", "staging", "production"}
EnvironmentKind(record) ==
  IF record.kind # "" THEN record.kind
  ELSE IF record.environmentId \in Spelled THEN record.environmentId
  ELSE IF record.environmentName \in Spelled THEN record.environmentName ELSE ""
IsProduction(record) == EnvironmentKind(record) = "production"

CustomerKey(c) == IF c.customerId # None THEN c.customerId ELSE c.customerName
CustomerLabel(c) == IF c.customerName # None THEN c.customerName ELSE c.customerId
GroupKey(c) == IF c.archived THEN ArchivedKey ELSE CustomerKey(c)
GroupLabel(c) == IF c.archived THEN None ELSE CustomerLabel(c)

Validate(in) == /\ in.name # None
                /\ in.context # None
                /\ in.required => in.profile # None

ToRecord(in, id) == [id |-> id, name |-> in.name, customerId |-> in.customerId,
  customerName |-> in.customerName, environmentId |-> in.environmentId,
  environmentName |-> in.environmentName, kind |-> in.kind, context |-> in.context,
  required |-> in.required, profile |-> in.profile, labels |-> in.labels, archived |-> FALSE]

DefaultAccessMode(in) == IF in.kind = "production" THEN "read-only" ELSE "read-write"
Preference(id, namespace, mode) == [cluster |-> id, namespace |-> namespace, mode |-> mode]

-----------------------------------------------------------------------------
(* What the engineer chose to hide.                                        *)

GroupHiddenByDefault(key) == key = ArchivedKey
CanHideGroup(key) == key # Ungrouped
CustomerInUse(d, key) == \E c \in Range(d.clusters) : CustomerKey(c) = key

\* Of two choices for a section the later.
HiddenFor(d, key) ==
  LET chosen == {i \in DOMAIN d.customers : d.customers[i].key = key}
  IN  /\ CanHideGroup(key)
      /\ IF chosen = {} THEN GroupHiddenByDefault(key) ELSE d.customers[Highest(chosen)].hidden

\* What was chosen for a customer that no cluster names any more is forgotten.
PruneCustomersMutant(d) ==
  [d EXCEPT !.customers = Keeping(@, {c \in Range(@) : c.key = ArchivedKey \/ c.hidden \/ CustomerInUse(d, c.key)})]
PruneCustomers(d) ==
  [d EXCEPT !.customers = Keeping(@, {c \in Range(@) : c.key = ArchivedKey \/ CustomerInUse(d, c.key)})]

\* A choice that is the default is kept by keeping nothing.
SetGroupHidden(d, key, hidden) ==
  IF ~CanHideGroup(key) \/ (key # ArchivedKey /\ ~CustomerInUse(d, key)) THEN Refused
  ELSE LET others == Keeping(d.customers, {c \in Range(d.customers) : c.key # key})
       IN  Done([d EXCEPT !.customers = IF hidden = GroupHiddenByDefault(key) THEN others
                                        ELSE Append(others, [key |-> key, hidden |-> hidden])])

-----------------------------------------------------------------------------
(* Creating, editing and deleting a cluster.                               *)

Create(d, in, id) ==
  IF ~Validate(in) \/ \E c \in Range(d.clusters) : c.context = in.context
  THEN Refused
  ELSE LET mode == DefaultAccessMode(in)
       IN  Done([d EXCEPT
             !.clusters = Append(@, ToRecord(in, id)),
             !.preferences = IF mode = "read-write" THEN @ ELSE Append(@, Preference(id, None, mode))])

\* Whether it is put away is not edited; labels are, if some were given.
Edited(was, in) ==
  [ToRecord(in, was.id) EXCEPT !.archived = was.archived,
                               !.labels = IF in.labels = None THEN was.labels ELSE in.labels]
Update(d, id, in) ==
  LET i == Lowest(IndexOf(d, id))
  IN  IF ~Validate(in) \/ ~Exists(d, id) THEN Refused
      ELSE Done(PruneCustomers([d EXCEPT !.clusters[i] = Edited(d.clusters[i], in)]))

\* views.DeleteForCluster is part of it.
Delete(d, id) ==
  IF ~Exists(d, id) THEN Refused
  ELSE Done(PruneCustomers([d EXCEPT
         !.clusters = Keeping(@, {c \in Range(@) : c.id # id}),
         !.preferences = Keeping(@, {p \in Range(@) : p.cluster # id}),
         !.views = Keeping(@, {v \in Range(@) : v.cluster # id})]))

SetArchived(d, id, archived) ==
  LET i == Lowest(IndexOf(d, id))
  IN  IF ~Exists(d, id) THEN Refused
      ELSE Done(PruneCustomers([d EXCEPT !.clusters[i].archived = archived]))

AdoptAccessProfileID(d, from, to) ==
  IF from = None \/ to = None \/ from = to THEN Refused
  ELSE Done([d EXCEPT !.clusters = [i \in DOMAIN d.clusters |->
         IF d.clusters[i].profile = from THEN [d.clusters[i] EXCEPT !.profile = to] ELSE d.clusters[i]]])

-----------------------------------------------------------------------------
(* Preferences. Remembering asks for no cluster, choosing a mode does.     *)

PreferencesOf(d, id) == {i \in DOMAIN d.preferences : d.preferences[i].cluster = id}
First(d, id) == Lowest(PreferencesOf(d, id))
Preferred(d, id) == PreferencesOf(d, id) # {}

Namespace(d, id) == IF Preferred(d, id) THEN d.preferences[First(d, id)].namespace ELSE None
RememberNamespace(d, id, namespace) ==
  Done([d EXCEPT !.preferences =
    IF Preferred(d, id) THEN [@ EXCEPT ![First(d, id)].namespace = namespace]
    ELSE Append(@, Preference(id, namespace, ""))])

AccessMode(d, id) ==
  LET said == {i \in PreferencesOf(d, id) : d.preferences[i].mode \in {"read-only", "read-write"}}
  IN  IF said = {} THEN "read-write" ELSE d.preferences[Lowest(said)].mode
SetAccessMode(d, id, mode) ==
  LET kept == IF mode = "read-write" THEN "" ELSE mode
  IN  IF ~Exists(d, id) THEN Refused
      ELSE Done([d EXCEPT !.preferences =
             IF Preferred(d, id) THEN [@ EXCEPT ![First(d, id)].mode = kept]
             ELSE IF kept = "" THEN @ ELSE Append(@, Preference(id, None, mode))])

-----------------------------------------------------------------------------
(* Saved views. A view without an identifier is a new one.                 *)

ViewsOf(d, cluster) == {i \in DOMAIN d.views : d.views[i].cluster = cluster}

SaveView(d, in, fresh) ==
  LET same == {i \in ViewsOf(d, in.cluster) : d.views[i].id = in.id}
  IN  IF in.title = None \/ ~Exists(d, in.cluster) THEN Refused
      ELSE IF in.id = None
           THEN IF Cardinality(ViewsOf(d, in.cluster)) >= MaxSavedViewsPerCluster THEN Refused
                ELSE Done([d EXCEPT !.views = Append(@, [in EXCEPT !.id = fresh])])
           ELSE IF same = {} THEN Refused
                ELSE Done([d EXCEPT !.views[Lowest(same)] = in])
DeleteView(d, cluster, id) ==
  IF \A i \in ViewsOf(d, cluster) : d.views[i].id # id THEN Refused
  ELSE Done([d EXCEPT !.views = Keeping(@, {v \in Range(@) : v.cluster # cluster \/ v.id # id})])

-----------------------------------------------------------------------------
(* What is read.                                                           *)

\* By customer, production last, by name.
ClusterEarlier(a, b) ==
  \/ a.customerName < b.customerName
  \/ /\ a.customerName = b.customerName
     /\ \/ ~IsProduction(a) /\ IsProduction(b)
        \/ (IsProduction(a) <=> IsProduction(b)) /\ a.name < b.name
All(d) ==
  Stable(d.clusters, {p \in (DOMAIN d.clusters) \X (DOMAIN d.clusters) :
                        ClusterEarlier(d.clusters[p[1]], d.clusters[p[2]])})

GroupRank(key) == CASE key = ArchivedKey -> 2 [] key = Ungrouped -> 1 [] OTHER -> 0
GroupEarlier(a, b) ==
  \/ GroupRank(a.key) < GroupRank(b.key)
  \/ GroupRank(a.key) = GroupRank(b.key) /\ a.label < b.label

\* The clusters of a section, in the order of the list.
Members(list, key) == InTurn({i \in DOMAIN list : GroupKey(list[i]) = key})
Group(d, list, key, label) ==
  [key |-> key, label |-> label, hidden |-> HiddenFor(d, key),
   clusters |-> [i \in DOMAIN Members(list, key) |-> list[Members(list, key)[i]].id]]

\* The first cluster of a section names it. The archive is there when empty.
Firsts(list) == InTurn({i \in DOMAIN list : \A k \in 1..(i - 1) : GroupKey(list[k]) # GroupKey(list[i])})
Named(d, list) ==
  [i \in DOMAIN Firsts(list) |->
     Group(d, list, GroupKey(list[Firsts(list)[i]]), GroupLabel(list[Firsts(list)[i]]))]
Sections(d, list) ==
  IF \E i \in DOMAIN list : list[i].archived THEN Named(d, list)
  ELSE Append(Named(d, list), Group(d, list, ArchivedKey, None))
Groups(d) ==
  LET sections == Sections(d, All(d))
  IN  Stable(sections, {p \in (DOMAIN sections) \X (DOMAIN sections) :
                          GroupEarlier(sections[p[1]], sections[p[2]])})

\* A handoff names the record, a label of it, the customer and the name, or
\* the only cluster of the customer's environment.
FindByContext(d, ctx) ==
  LET all == All(d)
      byId == {i \in DOMAIN all : all[i].id = ctx.cluster}
      byLabel == {i \in DOMAIN all : ctx.cluster # None /\ all[i].labels = ctx.cluster}
      byName == {i \in DOMAIN all : all[i].customerId = ctx.customer /\ all[i].name = ctx.name}
      candidates == {i \in DOMAIN all : all[i].customerId = ctx.customer
                                        /\ all[i].environmentId = ctx.environment}
  IN  IF byId # {} THEN <<all[Lowest(byId)]>>
      ELSE IF byLabel # {} THEN <<all[Lowest(byLabel)]>>
      ELSE IF byName # {} THEN <<all[Lowest(byName)]>>
      ELSE IF Cardinality(candidates) = 1 THEN <<all[Lowest(candidates)]>> ELSE <<>>

-----------------------------------------------------------------------------
(* The operations as steps. One that is refused is none.                   *)

RecordsInit ==
  /\ doc \in Documents
  /\ given = {c.id : c \in Range(doc.clusters)} \cup {p.cluster : p \in Range(doc.preferences)}
  /\ last = <<>>

\* The operation do on id, with what was asked, has this outcome.
Make(do, id, with, outcome) ==
  /\ outcome # Refused
  /\ doc' = outcome[1]
  /\ last' = <<[do |-> do, id |-> id, with |-> with, before |-> doc]>>

CreateOne == \E id \in Ids \ given, in \in Inputs :
  Make("create", id, in, Create(doc, in, id)) /\ given' = given \cup {id}
UpdateOne == \E id \in given, in \in Inputs :
  Make("update", id, in, Update(doc, id, in)) /\ UNCHANGED given
DeleteOne == \E id \in given :
  Make("delete", id, None, Delete(doc, id)) /\ UNCHANGED given
HideOne == \E key \in SectionKeys, hidden \in BOOLEAN :
  Make("hide", key, hidden, SetGroupHidden(doc, key, hidden)) /\ UNCHANGED given
ArchiveOne == \E id \in given, archived \in BOOLEAN :
  Make("archive", id, archived, SetArchived(doc, id, archived)) /\ UNCHANGED given
AdoptOne == \E from, to \in Profiles :
  Make("adopt", from, to, AdoptAccessProfileID(doc, from, to)) /\ UNCHANGED given
RememberOne == \E id \in given, namespace \in Words :
  Make("namespace", id, namespace, RememberNamespace(doc, id, namespace)) /\ UNCHANGED given
ChooseOne == \E id \in given, mode \in {"read-only", "read-write"} :
  Make("mode", id, mode, SetAccessMode(doc, id, mode)) /\ UNCHANGED given
SaveOne == \E cluster \in given, id \in ViewIds \cup {None}, title \in Words,
              fresh \in ViewIds \ {v.id : v \in Range(doc.views)} :
  LET in == [id |-> id, cluster |-> cluster, title |-> title]
  IN  Make("save", cluster, id, SaveView(doc, in, fresh)) /\ UNCHANGED given
DropOne == \E cluster \in given, id \in ViewIds :
  Make("drop", cluster, id, DeleteView(doc, cluster, id)) /\ UNCHANGED given

RecordsNext == \/ CreateOne \/ UpdateOne \/ DeleteOne \/ HideOne \/ ArchiveOne
               \/ AdoptOne \/ RememberOne \/ ChooseOne \/ SaveOne \/ DropOne

RecordsSpec == RecordsInit /\ [][RecordsNext]_recordVars

-----------------------------------------------------------------------------
(* What a document is, and what may be asked.                              *)

ClusterRecord == [id : Nat, name : Nat, customerId : Nat, customerName : Nat, environmentId : STRING,
                  environmentName : STRING, kind : STRING, context : Nat, required : BOOLEAN,
                  profile : Nat, labels : Nat, archived : BOOLEAN]
PreferenceRecord == [cluster : Nat, namespace : Nat, mode : {"", "read-only", "read-write"}]
CustomerRecord == [key : Int, hidden : BOOLEAN]
SavedViewRecord == [id : Nat, cluster : Nat, title : Nat]
Document == [clusters : Seq(ClusterRecord), preferences : Seq(PreferenceRecord),
             customers : Seq(CustomerRecord), views : Seq(SavedViewRecord)]
Form == [name : Nat, customerId : Nat, customerName : Nat, environmentId : STRING,
         environmentName : STRING, kind : STRING, context : Nat, required : BOOLEAN,
         profile : Nat, labels : Nat]

\* An identifier names one cluster, which has one preference at most, or one
\* view.
OneOfEach(d) ==
  /\ \A i, k \in DOMAIN d.clusters : d.clusters[i].id = d.clusters[k].id => i = k
  /\ \A i, k \in DOMAIN d.preferences : d.preferences[i].cluster = d.preferences[k].cluster => i = k
  /\ \A i, k \in DOMAIN d.views : d.views[i].id = d.views[k].id => i = k

\* What is kept of a section says that it differs from the default, once, and
\* the section is the archive or one of a customer in use.
ChoicesMean(d) ==
  \A i \in DOMAIN d.customers :
    /\ d.customers[i].hidden # GroupHiddenByDefault(d.customers[i].key)
    /\ d.customers[i].key = ArchivedKey \/ CustomerInUse(d, d.customers[i].key)
    /\ \A k \in DOMAIN d.customers : d.customers[k].key = d.customers[i].key => k = i

\* Views are of clusters that exist, and not too many of one.
ViewsBelong(d) ==
  /\ \A v \in Range(d.views) : Exists(d, v.cluster)
  /\ \A c \in Range(d.clusters) : Cardinality(ViewsOf(d, c.id)) <= MaxSavedViewsPerCluster

Sound(d) == d \in Document /\ OneOfEach(d) /\ ChoicesMean(d) /\ ViewsBelong(d)

\* What the parameters stand for: what a launch finds was left by another.
ASSUME RecordsAssumption ==
  /\ MaxSavedViewsPerCluster \in Nat
  /\ Inputs \subseteq Form /\ Ids \subseteq Nat /\ ViewIds \subseteq Nat \ {None}
  /\ SectionKeys \subseteq Int /\ Profiles \subseteq Nat /\ Words \subseteq Nat
  /\ \A d \in Documents : Sound(d)

\* The list is in its order, production last.
ListedInOrder(d) ==
  \A i, k \in DOMAIN All(d) : i < k => ~ClusterEarlier(All(d)[k], All(d)[i])

\* Every cluster is in one section, once, and every hidden section can be shown.
NothingStranded(d) ==
  LET groups == Groups(d)
      shown == UNION {{g} \X (DOMAIN groups[g].clusters) : g \in DOMAIN groups}
      Shown(p) == groups[p[1]].clusters[p[2]]
  IN  /\ \A c \in Range(d.clusters) : \E p \in shown : Shown(p) = c.id
      /\ \A p, q \in shown : Shown(p) = Shown(q) => p = q
      /\ \A p \in shown : Exists(d, Shown(p))
      /\ groups[Len(groups)].key = ArchivedKey
      /\ \A g \in Range(groups) : g.hidden =>
           LET revealed == SetGroupHidden(d, g.key, FALSE)
           IN  revealed # Refused /\ ~HiddenFor(revealed[1], g.key)

-----------------------------------------------------------------------------
(* One operation: op, made on the document op.before, made it d.           *)

\* A cluster of a customer that comes into use is seen.
NothingInherited(op, d) ==
  \A c \in Range(d.clusters) :
    ~CustomerInUse(op.before, CustomerKey(c)) => ~HiddenFor(d, CustomerKey(c))

\* A mode is changed by choosing it and by nothing else. A cluster added with the
\* kind production starts read-only and one that is no production read-write;
\* one without a kind that its environment calls production, as everything else
\* reads it (repository.go:537), is left open: it really starts read-write. A
\* namespace is forgotten with its cluster.
ModesKept(op, d) ==
  /\ \A c \in Range(op.before.clusters) : Exists(d, c.id) =>
       /\ AccessMode(d, c.id) # AccessMode(op.before, c.id) => op.do = "mode" /\ op.id = c.id
       /\ Namespace(d, c.id) # Namespace(op.before, c.id) => op.do = "namespace" /\ op.id = c.id
  /\ op.do = "create" =>
       /\ op.with.kind = "production" => AccessMode(d, op.id) = "read-only"
       /\ ~IsProduction(ToRecord(op.with, op.id)) => AccessMode(d, op.id) = "read-write"
       /\ Namespace(d, op.id) = None

\* An operation on one cluster changes no other, and loses none. Being put away
\* and labels survive an edit, the customer survives the archive, and the
\* adoption of a connection changes the reference to it and nothing else.
RecordsSurvive(op, d) ==
  /\ \A b \in Range(op.before.clusters) :
       Exists(d, b.id) \/ (op.do = "delete" /\ op.id = b.id)
  /\ \A b \in Range(op.before.clusters), a \in Range(d.clusters) : a.id = b.id =>
       /\ a # b => (op.id = a.id /\ op.do \in {"update", "archive"}) \/ op.do = "adopt"
       /\ a.archived # b.archived => op.do = "archive"
       /\ b.labels # None => a.labels # None
       /\ op.do = "archive" => CustomerKey(a) = CustomerKey(b)
       /\ op.do = "adopt" => a = [b EXCEPT !.profile = a.profile]

\* A deleted cluster leaves nothing of itself, and what is created is no second
\* cluster of a context.
NothingLeft(op, d) ==
  /\ op.do = "delete" =>
       /\ ~Exists(d, op.id) /\ ~Preferred(d, op.id) /\ ViewsOf(d, op.id) = {}
  /\ op.do = "create" => \A a, b \in Range(d.clusters) :
       a.context = b.context /\ op.id = a.id => a = b

\* A view stays as it is until it is saved over or dropped, or its cluster goes.
ViewsStay(op, d) ==
  \A v \in Range(op.before.views) :
    \/ v \in Range(d.views)
    \/ op.do \in {"save", "drop"} /\ op.id = v.cluster /\ op.with = v.id
    \/ op.do = "delete" /\ op.id = v.cluster

\* A handoff for one customer opens no cluster of another, unless it names the
\* cluster or a label of it, and finds what is put away or hidden as before.
HandoffFinds(op, d) ==
  \A ctx \in Contexts :
    LET found == FindByContext(d, ctx)
        before == FindByContext(op.before, ctx)
    IN  /\ found # <<>> => \/ found[1].customerId = ctx.customer
                           \/ ctx.cluster \in {found[1].id, found[1].labels}
        /\ Exists(d, ctx.cluster) => found # <<>> /\ found[1].id = ctx.cluster
        /\ op.do \in {"hide", "archive"} =>
             /\ found = <<>> <=> before = <<>>
             /\ found # <<>> => found[1].id = before[1].id

Kept(op, d) == /\ NothingInherited(op, d) /\ ModesKept(op, d) /\ RecordsSurvive(op, d)
               /\ NothingLeft(op, d) /\ ViewsStay(op, d) /\ HandoffFinds(op, d)

\* repository.go:405 "so a customer that was renamed or whose last
\* cluster was deleted cannot leave a hidden flag behind": the document means
\* what it says, and no operation on one record changes what another, or
\* another part of it, was given.
RecordsKept ==
  /\ Sound(doc) /\ ListedInOrder(doc) /\ NothingStranded(doc)
  /\ {c.id : c \in Range(doc.clusters)} \cup {p.cluster : p \in Range(doc.preferences)} \subseteq given
  /\ last # <<>> => Kept(last[1], doc)
=============================================================================
