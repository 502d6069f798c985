------------------------------ MODULE WatchHub ------------------------------
(***************************************************************************)
(* The informers of one cluster session (internal/kube/informer.go).       *)
(*                                                                         *)
(* A watch is named by a resource type, a namespace and server selectors.  *)
(* Its cache follows the API server on its own, and what it sees is passed *)
(* to the hub, which gathers it over a debounce window and notifies the    *)
(* reader once per window, outside its lock.                               *)
(*                                                                         *)
(* Time is abstracted to an order: older says which of two watches was     *)
(* read longer ago, which is all that the budget and the sweep look at.    *)
(***************************************************************************)
EXTENDS Naturals, FiniteSets, Sequences, SequencesExt

CONSTANTS
  Keys,        \* watch keys: records with gvr, ns and sel
  Objects,     \* the objects of the cluster
  Cells,       \* what a column of an object may show
  Home,        \* the namespace of every object
  Kind,        \* the resource type of every object
  Budget,      \* maxWatches
  MaxPending,  \* maxPendingKeys
  Absent,      \* the cell of an object that is not there
  Everything,  \* an event that names no object: the initial sync
  Initially,   \* what the cluster may hold at first
  MaxMoves     \* bound on what the user and the cluster do unasked

ASSUME HubAssumption ==
  /\ \A k \in Keys : k = [gvr |-> k.gvr, ns |-> k.ns, sel |-> k.sel]
  /\ Budget \in Nat \ {0}
  /\ MaxPending \in Nat
  /\ MaxMoves \in Nat
  /\ Absent \notin Cells /\ Everything \notin Objects

Nothing == [none |-> TRUE]

VARIABLES
  closed,     \* the hub was closed
  watches,    \* the keys whose watch runs
  synced,     \* those of them whose initial list has completed
  older,      \* pairs of running watches, the one read longer ago first
  pending,    \* what the debounce window of a key has gathered
  server,     \* what the API server holds
  cache,      \* what the informer of a key holds
  behind,     \* objects whose latest event a synced watch has yet to see
  moves       \* what they did so far

hub == <<closed, watches, synced, older, pending>>
world == <<server, behind, moves>>

Wide(k) == [gvr |-> k.gvr, ns |-> "", sel |-> ""]
Scoped(k) == k.sel # ""

\* What a watch of key k covers. A selector is one that every object matches.
Covers(k, o) == Kind[o] = k.gvr /\ k.ns \in {"", Home[o]}
Visible(k, contents) ==
  [o \in Objects |-> IF Covers(k, o) THEN contents[o] ELSE Absent]

HubInit ==
  /\ closed = FALSE
  /\ watches = {} /\ synced = {} /\ older = {}
  /\ pending = [k \in Keys |-> Nothing]
  /\ server \in Initially
  /\ cache = [k \in Keys |-> [o \in Objects |-> Absent]]
  /\ behind = [k \in Keys |-> {}]
  /\ moves = 0

Moved == moves < MaxMoves /\ moves' = moves + 1

-----------------------------------------------------------------------------
(* Reading the hub. Both answers count as a use of the watch they name.    *)

Without(gone) == {p \in older : p[1] \notin gone /\ p[2] \notin gone}
Latest(others, k) == Without(watches \ others) \cup (others \X {k})

Touched(k) == Latest(watches \ {k}, k)

\* The watch that answers for a key: itself, or a wide one of its type, and
\* only one whose first list is complete.
Warm(k) ==
  LET candidates == IF Scoped(k) THEN {k} ELSE {k, Wide(k)}
  IN  candidates \cap synced
\* Existing asks for the key itself first.
Existing(k) == IF k \in Warm(k) THEN k ELSE Wide(k)

-----------------------------------------------------------------------------
(* Ensure. A wide watch answers for a namespace, a running watch is reused, *)
(* a wide one replaces the narrow ones of its type, and the watches read    *)
(* longest ago give way to the budget.                                      *)

Reused(k) ==
  IF ~Scoped(k) /\ k.ns # "" /\ Wide(k) \in watches THEN {Wide(k)} ELSE {k} \cap watches

Redundant(k) ==
  IF Scoped(k) \/ k.ns # "" THEN {}
  ELSE {n \in watches : n.gvr = k.gvr /\ n.ns # "" /\ ~Scoped(n)}

Newer(k, kept) == {n \in kept : <<k, n>> \in older}

EvictedMutant(kept) == {k \in kept : Cardinality(Newer(k, kept)) >= Budget}

\* evictLocked(maxWatches - 1) stops the oldest while there are more, which
\* leaves those that fewer are newer than.
Evicted(kept) == {k \in kept : Cardinality(Newer(k, kept)) >= Budget - 1}

\* A closed hub answers nil.
Ensure(k) ==
  \/ /\ closed
     /\ UNCHANGED <<watches, synced, older, cache>>
  \/ /\ ~closed
     /\ \E u \in Reused(k) : older' = Touched(u)
     /\ UNCHANGED <<watches, synced, cache>>
  \/ /\ ~closed /\ Reused(k) = {}
     /\ LET kept == watches \ Redundant(k)
            stay == kept \ Evicted(kept)
        IN  /\ watches' = stay \cup {k}
            /\ synced' = synced \cap stay
            /\ older' = Latest(stay, k)
            /\ cache' = [cache EXCEPT ![k] = [o \in Objects |-> Absent]]

-----------------------------------------------------------------------------
(* Notifications.                                                          *)

AccumulatedMutant(waiting, e) ==
  LET known == IF waiting = Nothing THEN {} ELSE waiting.keys
  IN  IF e = Everything THEN [full |-> TRUE, keys |-> {}]
      ELSE IF Cardinality(known \cup {e}) > MaxPending
           THEN (IF waiting = Nothing THEN [full |-> FALSE, keys |-> {}] ELSE waiting)
           ELSE [full |-> FALSE, keys |-> known \cup {e}]

\* accumulate: the first event of a window starts its timer; too many names,
\* or an event without one, become "re-read everything".
Accumulated(waiting, e) ==
  LET known == IF waiting = Nothing THEN {} ELSE waiting.keys
  IN  IF waiting # Nothing /\ waiting.full THEN waiting
      ELSE IF e = Everything \/ Cardinality(known \cup {e}) > MaxPending
      THEN [full |-> TRUE, keys |-> {}]
      ELSE [full |-> FALSE, keys |-> known \cup {e}]

\* A handler of an informer calls the hub; after Close that changes nothing.
Schedule(k, e) ==
  pending' = IF closed THEN pending ELSE [pending EXCEPT ![k] = Accumulated(@, e)]

\* The timer fires: what was gathered is taken under the lock, and the reader
\* is called after it, in the timer's goroutine.
Flush(k) ==
  /\ pending[k] # Nothing
  /\ pending' = [pending EXCEPT ![k] = Nothing]
  /\ UNCHANGED <<closed, watches, synced, older, cache, world>>

-----------------------------------------------------------------------------
(* Stopping.                                                               *)

StopAll(gone) ==
  /\ watches' = watches \ gone
  /\ synced' = synced \ gone
  /\ older' = Without(gone)

Stopped == Moved /\ UNCHANGED <<closed, pending, cache, server, behind>>

\* Close stops every watch and every timer.
Close ==
  /\ ~closed
  /\ closed' = TRUE
  /\ StopAll(watches)
  /\ pending' = [k \in Keys |-> Nothing]
  /\ UNCHANGED <<cache, world>>

\* The namespace a user left; no reader is told.
StopNamespace == \E ns \in {k.ns : k \in Keys} \ {""} :
  /\ {k \in watches : k.ns = ns} # {}
  /\ StopAll({k \in watches : k.ns = ns})
  /\ Stopped

\* The sweep stops the watches that were read before its cutoff.
SweepIdle == \E last \in watches :
  /\ StopAll({last} \cup {k \in watches : <<k, last>> \in older})
  /\ Stopped

-----------------------------------------------------------------------------
(* The informers and the cluster, which are external.                      *)

\* The first list completes: the informer announces every object, and the
\* hub asks the reader to read everything, which covers them.
Sync(k) ==
  /\ k \in watches \ synced
  /\ synced' = synced \cup {k}
  /\ cache' = [cache EXCEPT ![k] = Visible(k, server)]
  /\ behind' = [behind EXCEPT ![k] = {}]
  /\ Schedule(k, Everything)
  /\ UNCHANGED <<closed, watches, older, server, moves>>

\* An event reaches the cache and then the handler.
Observe(k) == \E o \in behind[k] :
  /\ k \in synced
  /\ behind' = [behind EXCEPT ![k] = @ \ {o}]
  /\ cache' = [cache EXCEPT ![k][o] = server[o]]
  /\ Schedule(k, o)
  /\ UNCHANGED <<closed, watches, synced, older, server, moves>>

Write == \E o \in Objects, v \in Cells \cup {Absent} :
  /\ Moved /\ server[o] # v
  /\ server' = [server EXCEPT ![o] = v]
  /\ behind' = [k \in Keys |-> IF k \in synced /\ Covers(k, o) THEN behind[k] \cup {o}
                              ELSE behind[k]]
  /\ UNCHANGED <<hub, cache>>

-----------------------------------------------------------------------------
(* Properties.                                                             *)

\* Of two watches that run, and of no others, one was read before the other.
InOrderOfUse ==
  /\ older \subseteq watches \X watches
  /\ \A a, b \in watches : (<<a, b>> \in older) = (a # b /\ <<b, a>> \notin older)
  /\ \A a, b, c \in watches : <<a, b>> \in older /\ <<b, c>> \in older => <<a, c>> \in older

\* maxWatches is kept, and the order of use names exactly the watches that
\* run, so that eviction and sweep always find them. A namespace is never
\* watched beside the whole cluster, whichever of the two came first.
WithinBudget ==
  /\ Cardinality(watches) <= Budget
  /\ InOrderOfUse
  /\ \A k \in watches : ~Scoped(k) /\ k.ns # "" => Wide(k) \notin watches
=============================================================================
