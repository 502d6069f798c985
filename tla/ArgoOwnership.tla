---------------------------- MODULE ArgoOwnership ----------------------------
(***************************************************************************)
(* Whether an Argo CD Application owns an object, and whether the object   *)
(* may therefore be changed here (internal/argocd: discovery, ownership,   *)
(* claim, gate).                                                           *)
(*                                                                         *)
(* A cluster is what its API answers: the groups that were discovered, the *)
(* Applications it has, and what the two listings of them return.          *)
(* Namespaces and names are numbers, as they are sorted; 0 is none.        *)
(***************************************************************************)
EXTENDS SequencesExt, Arranging

CONSTANT ListingBudget   \* pageBudget pages of listBudget Applications

-----------------------------------------------------------------------------
(* Types.                                                                  *)

Installations == {"unknown", "yes", "no"}
Statuses == {"unknown", "managed", "unmanaged"}
Claims == {"none", "unknown", "namespace", "object"}
Uncertainties == {"", "forbidden", "unreachable", "timeout", "incomplete", "ambiguous"}
ProbeResults == {"ok", "forbidden", "timeout", "failed", "truncated", "not installed"}
Probe(scope, result) == <<[scope |-> scope, result |-> result]>>

ManagedClaim(kind) == kind \in {"namespace", "object"}
Gates == [status : Statuses, claim : Claims, managed : BOOLEAN, allowed : BOOLEAN,
          uncertainty : Uncertainties, app : {<<>>} \cup (Nat \X Nat)]

-----------------------------------------------------------------------------
(* Discovery.                                                              *)

\* An empty catalogue is one that was never read.
Installation(cluster) ==
  CASE cluster.indexed -> "yes"
    [] ~cluster.indexed /\ cluster.groups = {} -> "unknown"
    [] OTHER -> IF "argoproj.io" \in cluster.groups THEN "yes" ELSE "no"

ListPaged(apps) ==
  [apps |-> SubSeq(apps, 1, IF Len(apps) > ListingBudget THEN ListingBudget ELSE Len(apps)),
   truncated |-> Len(apps) > ListingBudget]

Search(installed) ==
  [apps |-> <<>>, complete |-> FALSE, installed |-> installed, uncertainty |-> "", probes |-> <<>>]

NotInstalled(search, scope) ==
  [search EXCEPT !.installed = "no", !.complete = TRUE,
                 !.probes = @ \o Probe(scope, "not installed")]

ProbeFor(scope, error) ==
  Probe(scope, IF error \in {"forbidden", "timeout"} THEN error ELSE "failed")

\* refused: a cluster that does not know the resource has answered.
ListingRefused(search, scope, error) ==
  IF error = "not found" THEN NotInstalled(search, scope)
  ELSE [search EXCEPT !.probes = @ \o ProbeFor(scope, error),
                      !.uncertainty = IF error \in {"forbidden", "timeout"} THEN error
                                      ELSE "unreachable"]

SearchClusterMutant(cluster) ==
  LET search == Search(Installation(cluster))
      listed == ListPaged(cluster.apps)
  IN  CASE search.installed = "no" -> NotInstalled(search, "cluster")
        [] search.installed # "no" /\ ~cluster.connected ->
             [search EXCEPT !.uncertainty = "unreachable", !.probes = Probe("cluster", "failed")]
        [] search.installed # "no" /\ cluster.connected /\ cluster.wide # "ok" ->
             ListingRefused(search, "cluster", cluster.wide)
        [] OTHER -> [search EXCEPT !.installed = "yes", !.apps = listed.apps, !.complete = TRUE,
                                   !.probes = Probe("cluster", "ok")]

SearchCluster(cluster) ==
  LET search == Search(Installation(cluster))
      listed == ListPaged(cluster.apps)
      found == [search EXCEPT !.installed = "yes", !.apps = listed.apps]
  IN  CASE search.installed = "no" -> NotInstalled(search, "cluster")
        [] search.installed # "no" /\ ~cluster.connected ->
             [search EXCEPT !.uncertainty = "unreachable", !.probes = Probe("cluster", "failed")]
        [] search.installed # "no" /\ cluster.connected /\ cluster.wide # "ok" ->
             ListingRefused(search, "cluster", cluster.wide)
        [] OTHER ->
             IF listed.truncated
             THEN [found EXCEPT !.uncertainty = "incomplete", !.probes = Probe("cluster", "truncated")]
             ELSE [found EXCEPT !.complete = TRUE, !.probes = Probe("cluster", "ok")]

\* searchNamespace can add an Application and can never complete the search.
SearchNamespace(cluster, namespace, wide) ==
  LET near == Keeping(cluster.apps, {a \in Range(cluster.apps) : a.namespace = namespace})
      listed == ListPaged(near)
  IN  CASE ~cluster.connected -> wide
        [] cluster.connected /\ cluster.near # "ok" ->
             [wide EXCEPT !.probes = @ \o ProbeFor("namespace", cluster.near)]
        [] OTHER ->
             [wide EXCEPT !.apps = @ \o listed.apps, !.installed = "yes",
                          !.probes = @ \o Probe("namespace",
                                                IF listed.truncated THEN "truncated" ELSE "ok")]

\* discover, over what is remembered: the cluster's search under <<>>, that of
\* one namespace under its number.
Cached(cache, key, result) == IF key \in DOMAIN cache THEN cache[key] ELSE result
Remembering(cache, key, result) == [k \in DOMAIN cache \cup {key} |-> Cached(cache, k, result)]

Discover(cache, cluster, fallback) ==
  LET wide == Cached(cache, <<>>, SearchCluster(cluster))
      kept == Remembering(cache, <<>>, wide)
      near == Cached(kept, <<fallback>>, SearchNamespace(cluster, fallback, wide))
  IN  IF wide.complete \/ fallback = 0 \/ wide.installed = "no"
      THEN [found |-> wide, cache |-> kept]
      ELSE [found |-> near, cache |-> Remembering(kept, <<fallback>>, near)]

-----------------------------------------------------------------------------
(* Which Application. The first of the best, by namespace and name.        *)

Before(a, b) == \/ a.namespace < b.namespace
                \/ a.namespace = b.namespace /\ a.name < b.name

Best(apps, Rank(_)) ==
  LET top == {a \in Range(apps) : \A b \in Range(apps) : Rank(b) <= Rank(a)}
  IN  CHOOSE a \in top : \A b \in top : a = b \/ Before(a, b)

\* An Application goes by its name, and by its namespace and its name.
AppNames(app) == {<<app.name>>} \cup (IF app.namespace = 0 THEN {} ELSE {<<app.namespace, app.name>>})

ListsResource(app, id) == id \in app.resources

\* identify and parseTrackingID: an annotation that came along with a copied
\* manifest names another object and counts for nothing.
Identify(object) == object.id
TrackedBy(object) ==
  IF object.tracking # <<>> /\ object.tracking[1].claims = Identify(object)
  THEN {object.tracking[1].app} ELSE {}

OwnerRank(app, object) ==
  CASE TrackedBy(object) \cap AppNames(app) # {} -> 3
    [] TrackedBy(object) \cap AppNames(app) = {} /\ ListsResource(app, Identify(object)) -> 2
    [] OTHER -> IF object.instance \cap AppNames(app) # {} THEN 1 ELSE 0

Confidence(rank) == <<"unmanaged", "candidate", "confirmed", "tracked">>[rank + 1]

ResolveOwnership(object, apps) ==
  LET Rank(app) == OwnerRank(app, object)
      claimed == \E a \in Range(apps) : Rank(a) > 0
      best == Best(apps, Rank)
  IN  IF ~claimed THEN [confidence |-> "unmanaged", app |-> <<>>]
      ELSE [confidence |-> Confidence(Rank(best)), app |-> <<best.namespace, best.name>>]

\* settle: only a complete search may say that nobody owns the object.
Settle(owner, search) ==
  CASE owner.confidence \in {"tracked", "confirmed"} -> [status |-> "managed", uncertainty |-> ""]
    [] owner.confidence = "candidate" -> [status |-> "unknown", uncertainty |-> "ambiguous"]
    [] OTHER -> IF search.complete THEN [status |-> "unmanaged", uncertainty |-> ""]
                ELSE [status |-> "unknown",
                      uncertainty |-> IF search.uncertainty = "" THEN "incomplete"
                                      ELSE search.uncertainty]

Ownership(object, search) ==
  IF search.installed = "no"
  THEN [confidence |-> "unmanaged", app |-> <<>>, status |-> "unmanaged", uncertainty |-> ""]
  ELSE LET owner == ResolveOwnership(object, search.apps)
           settled == Settle(owner, search)
       IN  [confidence |-> owner.confidence, app |-> owner.app,
            status |-> settled.status, uncertainty |-> settled.uncertainty]

-----------------------------------------------------------------------------
(* What is claimed before it exists.                                       *)

ClaimRank(kind) == CASE kind = "object" -> 3 [] kind = "namespace" -> 2
                     [] kind = "unknown" -> 1 [] kind = "none" -> 0

ClaimOf(app, target) ==
  CASE target.name # 0 /\ ListsResource(app, target) -> "object"
    [] OTHER -> IF target.namespace # 0 /\ app.destination = target.namespace
                THEN "namespace" ELSE "none"

ResolveClaim(target, apps) ==
  LET Rank(app) == ClaimRank(ClaimOf(app, target))
      claimed == \E a \in Range(apps) : Rank(a) > 0
      best == Best(apps, Rank)
  IN  IF claimed THEN [kind |-> ClaimOf(best, target), app |-> <<best.namespace, best.name>>]
      ELSE [kind |-> "none", app |-> <<>>]

ClaimFor(target, search) ==
  LET claim == ResolveClaim(target, search.apps)
  IN  CASE search.installed = "no" -> [kind |-> "none", app |-> <<>>, uncertainty |-> ""]
        [] search.installed # "no" /\ (search.complete \/ ManagedClaim(claim.kind)) ->
             [kind |-> claim.kind, app |-> claim.app, uncertainty |-> ""]
        [] OTHER -> [kind |-> "unknown", app |-> <<>>, uncertainty |-> search.uncertainty]

-----------------------------------------------------------------------------
(* The gates.                                                              *)

GateForClaim(claim) ==
  [claim |-> claim.kind, managed |-> ManagedClaim(claim.kind), uncertainty |-> claim.uncertainty,
   app |-> claim.app,
   status |-> CASE ManagedClaim(claim.kind) -> "managed"
                [] claim.kind = "unknown" -> "unknown"
                [] claim.kind = "none" -> "unmanaged",
   allowed |-> claim.kind = "none"]

GateForOwnership(owner) ==
  [status |-> owner.status, uncertainty |-> owner.uncertainty, app |-> owner.app,
   managed |-> owner.status = "managed", allowed |-> owner.status = "unmanaged",
   claim |-> CASE owner.status = "managed" -> "object"
               [] owner.status = "unmanaged" -> "none"
               [] owner.status = "unknown" -> "unknown"]

UnknownGate == [status |-> "unknown", claim |-> "unknown", managed |-> FALSE, allowed |-> FALSE,
                uncertainty |-> "unreachable", app |-> <<>>]

-----------------------------------------------------------------------------
(* What produces the manifests of an Application: a source is the set of   *)
(* the fields that it has.                                                 *)

DescribeSource(source) ==
  CASE "chart" \in source -> [renderer |-> "chart", certainty |-> "generated"]
    [] "chart" \notin source /\ "plugin" \in source -> [renderer |-> "plugin", certainty |-> "generated"]
    [] source \cap {"chart", "plugin"} = {} /\ "kustomize" \in source ->
         [renderer |-> "kustomize", certainty |-> "generated"]
    [] source \cap {"chart", "plugin", "kustomize"} = {} /\ "helm" \in source ->
         [renderer |-> "helm", certainty |-> "generated"]
    [] OTHER -> [renderer |-> "directory", certainty |-> IF "path" \in source THEN "tree" ELSE "unknown"]

\* The sources of a list are used before the single one.
SourcesOf(app) ==
  IF app.sources # <<>> THEN [i \in DOMAIN app.sources |-> DescribeSource(app.sources[i])]
  ELSE IF app.source = {} THEN <<>> ELSE <<DescribeSource(app.source)>>

\* sanitiseRepoURL: a web address loses its user, any other its password; an
\* address without a scheme is left as it is.
SanitiseRepoURL(url) ==
  CASE url.scheme = "" -> url
    [] url.scheme \in {"http", "https"} -> [url EXCEPT !.user = "", !.password = ""]
    [] OTHER -> [url EXCEPT !.password = ""]
=============================================================================
