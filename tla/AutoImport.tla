------------------------------ MODULE AutoImport ------------------------------
(***************************************************************************)
(* Offered of a kubeconfig becoming clusters (internal/autoimport), with  *)
(* the parts of the repository and of the kubeconfig index it works with:  *)
(* Repository.Create and Delete (internal/cluster/repository.go), Forget   *)
(* and Import (internal/kubeconfig/service.go).  Every update of the store *)
(* is atomic and may fail (module Store); an import makes several, and the *)
(* process may be killed between two of them.                              *)
(***************************************************************************)
EXTENDS Naturals, FiniteSets

CONSTANTS
  Offered,     \* contexts the kubeconfig may hold
  Importers,    \* imports under way at one time
  MaxLaunches   \* bound: times the application is started

ASSUME MaxLaunchesAssumption == MaxLaunches \in Nat

VARIABLES
  indexed,      \* whether the store has the kubeconfig's record
  file,         \* the contexts in the file now
  clusters,     \* contexts that have a cluster in the store
  seen,         \* Data.SeenContexts
  enabled,      \* Data.AutoImport
  launched,     \* whether the application is running
  launches,     \* how often it was started
  importer      \* importer[i]: what import i has yet to do

importVars == <<indexed, file, clusters, seen, enabled, launched, launches, importer>>

stored == <<indexed, clusters, seen, enabled>>
process == <<launched, launches>>

-----------------------------------------------------------------------------
Importer == [step: {"idle", "creating"}, auto: BOOLEAN,
             candidates: SUBSET Offered, todo: SUBSET Offered]

IdleImporter ==
  [step |-> "idle", auto |-> FALSE, candidates |-> {}, todo |-> {}]

ImportInit ==
  /\ indexed = FALSE
  /\ file \in SUBSET Offered
  /\ clusters = {}
  /\ seen = {}
  /\ enabled = TRUE
  /\ launched = FALSE
  /\ launches = 0
  /\ importer = [i \in Importers |-> IdleImporter]

Import(i, auto, candidates) ==
  importer' = [importer EXCEPT ![i] =
    [step |-> "creating", auto |-> auto, candidates |-> candidates,
     todo |-> candidates]]

\* Synchronous at startup: nothing else happens before the window opens.
Syncing == \E i \in Importers : importer[i].step # "idle" /\ importer[i].auto

Usable == launched /\ ~Syncing

-----------------------------------------------------------------------------
(* autoimport.Service *)

\* Scan: contexts in the index that have no cluster, seen before or not.
Scan == IF indexed THEN file \ clusters ELSE {}

\* Core.Start: a first run indexes the conventional file, then Sync imports
\* the contexts that were never offered.
FreshMutant(has) == IF has THEN file \ clusters ELSE {}

Fresh(has) == IF has THEN file \ (clusters \cup seen) ELSE {}

Launch(i) ==
  /\ ~launched /\ launches < MaxLaunches
  /\ launched' = TRUE
  /\ launches' = launches + 1
  /\ indexed' \in {indexed, TRUE}
  /\ IF enabled THEN Import(i, TRUE, Fresh(indexed')) ELSE UNCHANGED importer
  /\ UNCHANGED <<file, clusters, seen, enabled>>

ImportAll(i) ==
  /\ Usable /\ importer[i].step = "idle"
  /\ Import(i, FALSE, Scan)
  /\ UNCHANGED <<file, stored, process>>

\* Create refuses a context that has a cluster by now, and saving may fail.
CreateCluster(i, k) ==
  /\ importer[i].step = "creating" /\ k \in importer[i].todo
  /\ importer' = [importer EXCEPT ![i].todo = @ \ {k}]
  /\ \/ /\ k \notin clusters
        /\ clusters' = clusters \cup {k}
     \/ UNCHANGED clusters
  /\ UNCHANGED <<indexed, file, seen, enabled, process>>

\* Everything that was considered is marked, failures included.
MarkSeen(i) ==
  /\ importer[i].step = "creating" /\ importer[i].todo = {}
  /\ importer' = [importer EXCEPT ![i] = IdleImporter]
  /\ seen' \in {seen, seen \cup importer[i].candidates}
  /\ UNCHANGED <<indexed, file, clusters, enabled, process>>

-----------------------------------------------------------------------------
(* The engineer *)

AddByHand(k) ==
  /\ Usable /\ indexed
  /\ k \in file \ clusters
  /\ clusters' = clusters \cup {k}
  /\ UNCHANGED <<indexed, file, seen, enabled, process, importer>>

DeleteCluster(k) ==
  /\ Usable
  /\ k \in clusters
  /\ clusters' = clusters \ {k}
  /\ UNCHANGED <<indexed, file, seen, enabled, process, importer>>

SetEnabled(on) ==
  /\ Usable /\ enabled # on
  /\ enabled' = on
  /\ UNCHANGED <<indexed, file, clusters, seen, process, importer>>

\* Forgetting the file, refused while a cluster uses it, starts its contexts
\* from a clean slate.
ForgetKubeconfig ==
  /\ Usable /\ indexed
  /\ clusters = {}
  /\ indexed' = FALSE
  /\ seen' = {}
  /\ UNCHANGED <<file, clusters, enabled, process, importer>>

ImportKubeconfig ==
  /\ Usable /\ ~indexed
  /\ indexed' = TRUE
  /\ UNCHANGED <<file, clusters, seen, enabled, process, importer>>

\* kubectl config set-context, at any time.
ContextAdded(k) ==
  /\ k \notin file
  /\ file' = file \cup {k}
  /\ UNCHANGED <<stored, process, importer>>

\* The process ends, with or without having been asked to.
Stop ==
  /\ launched
  /\ launched' = FALSE
  /\ importer' = [i \in Importers |-> IdleImporter]
  /\ UNCHANGED <<file, stored, launches>>

-----------------------------------------------------------------------------
ImportNext ==
  \/ \E i \in Importers :
       \/ Launch(i) \/ ImportAll(i) \/ MarkSeen(i)
       \/ \E k \in Offered : CreateCluster(i, k)
  \/ \E k \in Offered : AddByHand(k) \/ DeleteCluster(k) \/ ContextAdded(k)
  \/ \E on \in BOOLEAN : SetEnabled(on)
  \/ ForgetKubeconfig \/ ImportKubeconfig
  \/ Stop

ImportSpec == ImportInit /\ [][ImportNext]_importVars

-----------------------------------------------------------------------------
(* Properties *)

\* Types of every variable.
ImportTypeOK ==
  /\ indexed \in BOOLEAN
  /\ file \subseteq Offered
  /\ clusters \subseteq Offered
  /\ seen \subseteq Offered
  /\ enabled \in BOOLEAN
  /\ launched \in BOOLEAN
  /\ launches \in 0 .. MaxLaunches
  /\ importer \in [Importers -> Importer]

AutoCreates(k) ==
  /\ k \in clusters' \ clusters
  /\ \E i \in Importers :
       importer[i].auto /\ k \in importer[i].todo /\ k \notin importer'[i].todo

\* A cluster that was imported, recorded as seen and then deleted does not come
\* back by itself, through any number of imports, restarts and kills.
RecordedStaysDeleted ==
  [][\A k \in Offered : AutoCreates(k) => k \notin seen]_importVars
=============================================================================
