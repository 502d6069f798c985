-------------------------- MODULE ResourceTable_proofs --------------------------
(***************************************************************************)
(* Proofs about the watches and the tables of resources: that the budget   *)
(* is kept, that a table follows the cache of its watch and that the       *)
(* window follows its table, for any number of watches, objects, views,    *)
(* loads and notifications.                                                *)
(***************************************************************************)
EXTENDS ResourceTable, Arranging_proofs, FiniteSetTheorems, SequenceTheorems, WellFoundedInduction,
        TLAPS

-----------------------------------------------------------------------------
(* The types that the proofs need *)

Rows == [Objects -> Cells \cup {Absent}]
Changes == [full : BOOLEAN, keys : SUBSET Objects]

\* What the hub, the cluster and the caches of the informers hold.
HubTypes ==
  /\ closed \in BOOLEAN
  /\ watches \subseteq Keys /\ synced \subseteq watches
  /\ IsFiniteSet(watches)
  /\ server \in Rows
  /\ cache \in [Keys -> Rows]
  /\ behind \in [Keys -> SUBSET Objects]
  /\ pending \in [Keys -> {Nothing} \cup Changes]

HubInv == HubTypes /\ WithinBudget

\* Every table that was created is one of its view, for good; what is
\* registered was created.
TableFields == {"view", "rows", "query", "token", "sent", "total", "matched",
                "loading", "reported"}
Made(id, v) == id \in DOMAIN heap /\ heap[id].view = v

TablesSound ==
  /\ heap \in Seq({heap[i] : i \in DOMAIN heap})
  /\ \A i \in DOMAIN heap : DOMAIN heap[i] = TableFields /\ heap[i].rows \in Rows
  /\ tables \in [Views -> Nat]
  /\ \A v \in Views : tables[v] # 0 => Made(tables[v], v)

\* A List that has ensured its table holds one of its view.
RequestFields == {"token", "view", "query", "offset", "at", "rows", "loading", "id"}
RequestSound(r) ==
  /\ DOMAIN r = RequestFields
  /\ r.view \in Views /\ r.rows \in Rows
  /\ r.at \in {"read", "subscribe", "replace", "fill", "page"}
  /\ r.at \in {"fill", "page"} => Made(r.id, r.view)
RequestsSound == \A r \in requests : RequestSound(r)

\* A notification goes through tables that were created, and what it read for
\* one came from a watch that feeds its view.
NoticeFields == {"at", "full", "keys", "todo", "view", "source", "id", "fresh",
                 "touched", "reordered", "delta"}
Feeds(k, v) == k = v \/ (~Scoped(v) /\ k = Wide(v))
NoticeSound(m) == m # Idle =>
  /\ DOMAIN m = NoticeFields
  /\ m.at \in {"next", "apply", "patch", "emit"}
  /\ m.full \in BOOLEAN /\ m.keys \subseteq Objects
  /\ \A t \in m.todo : t = <<t[1], t[2]>> /\ t[1] \in Views /\ Made(t[2], t[1])
  /\ m.at # "next" => m.view \in Views /\ Made(m.id, m.view)
  /\ m.at = "apply" => m.fresh \in Rows /\ Feeds(m.source, m.view)
NoticesSound ==
  /\ DOMAIN notices = Readers
  /\ \A n \in Readers : NoticeSound(notices[n])

\* The window asks for more of a view that it has asked for.
WinFields == {"view", "token", "query", "order", "shown"}
WinSound == DOMAIN win = WinFields /\ (win.token > 0 => win.view \in Views)

SoundInv == TablesSound /\ RequestsSound /\ NoticesSound /\ WinSound

-----------------------------------------------------------------------------
(* The budget *)

\* Whichever watch is read last, and whichever were stopped before, the others
\* keep their order.
LEMMA LatestIsInOrder ==
  ASSUME InOrderOfUse, NEW others \in SUBSET watches, NEW k, k \notin others,
         watches' = others \cup {k}, older' = Latest(others, k)
  PROVE  InOrderOfUse'
<1>1. older \subseteq watches \X watches
  BY DEF InOrderOfUse
<1>2. \A a, b : <<a, b>> \in older' <=>
        \/ <<a, b>> \in older /\ a \in others /\ b \in others
        \/ a \in others /\ b = k
  BY <1>1 DEF Latest, Without
<1>3. older' \subseteq watches' \X watches'
  BY <1>1 DEF Latest, Without
<1> HIDE DEF Latest
<1>4. ASSUME NEW a \in watches', NEW b \in watches'
      PROVE  (<<a, b>> \in older') = (a # b /\ <<b, a>> \notin older')
  <2>1. CASE a \in others /\ b \in others
    <3>1. (<<a, b>> \in older) <=> (a # b /\ <<b, a>> \notin older)
      BY <2>1 DEF InOrderOfUse
    <3>2. a # k /\ b # k
      BY <2>1
    <3> QED
      BY <1>2, <2>1, <3>1, <3>2
  <2>2. CASE a = k
    BY <1>2, <2>2
  <2>3. CASE b = k
    BY <1>2, <2>3
  <2> QED
    BY <2>1, <2>2, <2>3
<1>5. ASSUME NEW a \in watches', NEW b \in watches', NEW c \in watches',
             <<a, b>> \in older', <<b, c>> \in older'
      PROVE  <<a, c>> \in older'
  <2>1. a \in others /\ b \in others
    BY <1>2, <1>5
  <2>2. CASE c = k
    BY <1>2, <2>1, <2>2
  <2>3. CASE c # k
    <3>1. c \in others /\ <<a, b>> \in older /\ <<b, c>> \in older
      BY <1>2, <1>5, <2>1, <2>3
    <3>2. <<a, c>> \in older
      BY <2>1, <3>1 DEF InOrderOfUse
    <3> QED
      BY <1>2, <2>1, <3>1, <3>2
  <2> QED
    BY <2>2, <2>3
<1> QED
  BY <1>3, <1>4, <1>5 DEF InOrderOfUse

\* A watch that stops takes nothing with it but its own place.
LEMMA StoppingKeepsOrder ==
  ASSUME InOrderOfUse, NEW gone, watches' = watches \ gone, older' = Without(gone)
  PROVE  InOrderOfUse'
<1>1. older \subseteq watches \X watches
  BY DEF InOrderOfUse
<1>2. \A a, b : <<a, b>> \in older' <=> <<a, b>> \in older /\ a \notin gone /\ b \notin gone
  BY DEF Without
<1>3. older' \subseteq watches' \X watches'
  BY <1>1 DEF Without
<1> QED
  BY <1>2, <1>3 DEF InOrderOfUse

\* Of finitely many watches one was read before all the others.
LEMMA OneIsOldest ==
  ASSUME InOrderOfUse, IsFiniteSet(watches),
         NEW some \in SUBSET watches, some # {}
  PROVE  \E k \in some : \A j \in some \ {k} : <<k, j>> \in older
<1> DEFINE before(k) == {j \in watches : <<j, k>> \in older}
           ranks == {Cardinality(before(k)) : k \in some}
<1>1. \A k \in some : IsFiniteSet(before(k)) /\ Cardinality(before(k)) \in Nat
  BY FS_Subset, FS_CardinalityType
<1>2. ranks \subseteq Nat /\ ranks # {}
  BY <1>1
<1>3. PICK n \in ranks : \A m \in ranks : <<m, n>> \notin OpToRel(<, Nat)
  BY <1>2, WFMin, NatLessThanWellFounded
<1>4. PICK k \in some : n = Cardinality(before(k))
  BY <1>3
<1>5. ASSUME NEW j \in some \ {k} PROVE <<k, j>> \in older
  <2>1. SUFFICES ASSUME <<k, j>> \notin older PROVE FALSE
    OBVIOUS
  <2>2. <<j, k>> \in older
    BY <2>1 DEF InOrderOfUse
  <2>3. before(j) \subseteq before(k) /\ j \in before(k) /\ j \notin before(j)
    BY <2>2 DEF InOrderOfUse
  <2>4. Cardinality(before(j)) < Cardinality(before(k))
    <3>1. before(j) # before(k)
      BY <2>3
    <3> HIDE DEF before
    <3> QED
      BY <1>1, <2>3, <3>1, FS_Subset, FS_CardinalityType
  <2>5. <<Cardinality(before(j)), n>> \in OpToRel(<, Nat)
    BY <1>1, <1>4, <2>4 DEF OpToRel
  <2> QED
    BY <1>3, <2>5
<1> QED
  BY <1>5

\* What evictLocked leaves is what it was asked to keep at most.
LEMMA SurvivorsFit ==
  ASSUME InOrderOfUse, IsFiniteSet(watches), NEW kept \in SUBSET watches
  PROVE  Cardinality(kept \ Evicted(kept)) <= Budget - 1
<1> DEFINE stay == kept \ Evicted(kept)
<1>0. Budget \in Nat \ {0}
  BY HubAssumption
<1>1. IsFiniteSet(stay) /\ IsFiniteSet(kept)
  BY FS_Subset
<1>2. \A k \in stay : Cardinality(Newer(k, kept)) < Budget - 1
  <2> SUFFICES ASSUME NEW k \in stay PROVE Cardinality(Newer(k, kept)) < Budget - 1
    OBVIOUS
  <2>1. Newer(k, kept) \subseteq kept
    BY DEF Newer
  <2>2. Cardinality(Newer(k, kept)) \in Nat
    BY <1>1, <2>1, FS_Subset, FS_CardinalityType
  <2>3. ~(Cardinality(Newer(k, kept)) >= Budget - 1)
    BY DEF Evicted
  <2> QED
    BY <1>0, <2>2, <2>3
<1>3. CASE stay = {}
  BY <1>0, <1>3, FS_EmptySet
<1>4. CASE stay # {}
  <2>1. PICK k \in stay : \A j \in stay \ {k} : <<k, j>> \in older
    BY <1>4, OneIsOldest
  <2>2. stay \ {k} \subseteq Newer(k, kept) /\ Newer(k, kept) \subseteq kept
    BY <2>1 DEF Newer
  <2>3. Cardinality(stay \ {k}) <= Cardinality(Newer(k, kept))
        /\ Cardinality(Newer(k, kept)) \in Nat
    BY <1>1, <2>2, FS_Subset, FS_CardinalityType
  <2>4. Cardinality(stay) = Cardinality(stay \ {k}) + 1
        /\ Cardinality(stay \ {k}) \in Nat
    <3>1. IsFiniteSet(stay \ {k})
      BY <1>1, FS_RemoveElement
    <3>2. Cardinality(stay \ {k}) = Cardinality(stay) - 1
      BY <1>1, FS_RemoveElement
    <3>3. Cardinality(stay) \in Nat /\ Cardinality(stay \ {k}) \in Nat
      BY <1>1, <3>1, FS_CardinalityType
    <3> HIDE DEF stay
    <3> QED
      BY <3>2, <3>3
  <2>5. Cardinality(Newer(k, kept)) < Budget - 1
    BY <1>2
  <2> HIDE DEF stay
  <2>6. Cardinality(stay) <= Budget - 1
    BY <1>0, <2>3, <2>4, <2>5
  <2> QED
    BY <2>6 DEF stay
<1> QED
  BY <1>3, <1>4

\* What changes the watches: reading one, starting one, stopping some.
Reads(u) == u \in watches /\ older' = Touched(u) /\ UNCHANGED <<watches, synced, cache>>

Starts(k) ==
  /\ Reused(k) = {}
  /\ LET stay == (watches \ Redundant(k)) \ Evicted(watches \ Redundant(k))
     IN  /\ watches' = stay \cup {k}
         /\ synced' = synced \cap stay
         /\ older' = Latest(stay, k)
         /\ cache' = [cache EXCEPT ![k] = [o \in Objects |-> Absent]]

LEMMA EnsureSteps ==
  ASSUME NEW k, Ensure(k)
  PROVE  \/ UNCHANGED <<watches, synced, older, cache>>
         \/ \E u \in watches : Reads(u)
         \/ Starts(k)
<1>1. Reused(k) \subseteq watches
  BY DEF Reused
<1> QED
  BY <1>1 DEF Ensure, Reads, Starts

\* A read keeps the budget, for it moves one watch to the end of the order.
LEMMA ReadKeepsBudget ==
  ASSUME WithinBudget, NEW u, Reads(u)
  PROVE  WithinBudget'
<1>1. InOrderOfUse'
  <2>1. watches' = (watches \ {u}) \cup {u} /\ older' = Latest(watches \ {u}, u)
    BY DEF Reads, Touched
  <2> QED
    BY <2>1, LatestIsInOrder DEF WithinBudget
<1> QED
  BY <1>1 DEF WithinBudget, Reads

\* A watch is started in the place of those that it makes redundant and of the
\* ones read longest ago.
LEMMA StartKeepsBudget ==
  ASSUME HubInv, NEW k \in Keys, Starts(k)
  PROVE  /\ WithinBudget' /\ IsFiniteSet(watches')
         /\ watches' \subseteq Keys /\ synced' \subseteq watches'
<1> DEFINE kept == watches \ Redundant(k)
           stay == kept \ Evicted(kept)
<1>0. Budget \in Nat \ {0}
  BY HubAssumption
<1>1. /\ watches \subseteq Keys /\ synced \subseteq watches /\ IsFiniteSet(watches)
      /\ InOrderOfUse
      /\ \A n \in watches : ~Scoped(n) /\ n.ns # "" => Wide(n) \notin watches
  BY DEF HubInv, HubTypes, WithinBudget
<1>2. /\ watches' = stay \cup {k} /\ synced' = synced \cap stay
      /\ older' = Latest(stay, k)
      /\ Reused(k) = {}
  BY DEF Starts
<1>3. stay \subseteq watches /\ kept \subseteq watches
  OBVIOUS
<1>4. k \notin watches
  BY <1>2 DEF Reused
<1>5. IsFiniteSet(stay) /\ Cardinality(stay) <= Budget - 1
  BY <1>1, <1>3, SurvivorsFit, FS_Subset
<1>6. ASSUME NEW n \in stay, ~Scoped(n), n.ns # "" PROVE Wide(n) # k
  <2>1. n \notin Redundant(k) /\ n \in watches
    OBVIOUS
  <2>2. SUFFICES ASSUME Wide(n) = k PROVE FALSE
    OBVIOUS
  <2>3. k.gvr = n.gvr /\ k.ns = "" /\ ~Scoped(k)
    BY <2>2 DEF Wide, Scoped
  <2> QED
    BY <1>6, <2>1, <2>3 DEF Redundant
<1>7. ~Scoped(k) /\ k.ns # "" => Wide(k) \notin watches /\ Wide(k) # k
  <2>1. Wide(k).ns = ""
    BY DEF Wide
  <2> QED
    BY <1>2, <2>1 DEF Reused
<1> HIDE DEF stay
<1>8. IsFiniteSet(watches') /\ Cardinality(watches') <= Budget
  <2>1. k \notin stay
    BY <1>3, <1>4
  <2>2. Cardinality(stay) \in Nat
    BY <1>5, FS_CardinalityType
  <2>3. IsFiniteSet(watches') /\ Cardinality(watches') = Cardinality(stay) + 1
    BY <1>2, <1>5, <2>1, FS_AddElement
  <2> QED
    BY <1>0, <1>5, <2>2, <2>3
<1>9. InOrderOfUse'
  BY <1>1, <1>2, <1>3, <1>4, LatestIsInOrder
<1>10. ASSUME NEW n \in watches', ~Scoped(n), n.ns # "" PROVE Wide(n) \notin watches'
  <2>1. CASE n = k
    BY <1>2, <1>3, <1>7, <1>10, <2>1
  <2>2. CASE n \in stay
    BY <1>1, <1>2, <1>3, <1>6, <1>10, <2>2
  <2> QED
    BY <1>2, <2>1, <2>2
<1> QED
  BY <1>1, <1>2, <1>3, <1>8, <1>9, <1>10 DEF WithinBudget

\* Fewer watches are within the budget too.
LEMMA StopKeepsBudget ==
  ASSUME HubInv, NEW gone, StopAll(gone)
  PROVE  /\ WithinBudget' /\ IsFiniteSet(watches')
         /\ watches' \subseteq Keys /\ synced' \subseteq watches'
<1>1. /\ watches \subseteq Keys /\ synced \subseteq watches /\ IsFiniteSet(watches)
      /\ InOrderOfUse /\ Cardinality(watches) <= Budget
      /\ \A n \in watches : ~Scoped(n) /\ n.ns # "" => Wide(n) \notin watches
  BY DEF HubInv, HubTypes, WithinBudget
<1>2. watches' = watches \ gone /\ synced' = synced \ gone /\ older' = Without(gone)
  BY DEF StopAll
<1>3. IsFiniteSet(watches') /\ Cardinality(watches') <= Cardinality(watches)
  BY <1>1, <1>2, FS_Subset
<1>4. Cardinality(watches') <= Budget
  <2>0. Cardinality(watches) <= Budget
    BY <1>1
  <2>1. Cardinality(watches) \in Nat /\ Cardinality(watches') \in Nat
    BY <1>1, <1>3, FS_CardinalityType
  <2>2. Budget \in Nat
    BY HubAssumption
  <2> QED
    BY <1>3, <2>0, <2>1, <2>2
<1>5. InOrderOfUse'
  BY <1>1, <1>2, StoppingKeepsOrder
<1> QED
  BY <1>1, <1>2, <1>3, <1>4, <1>5 DEF WithinBudget

-----------------------------------------------------------------------------
(* What windows gather and watches show *)

LEMMA VisibleIsRows ==
  ASSUME NEW k, NEW contents \in Rows
  PROVE  Visible(k, contents) \in Rows
  BY DEF Visible, Rows

LEMMA NothingIsNone == Nothing \notin Changes /\ Idle.at = "idle"
<1>1. "none" \in DOMAIN Nothing
  BY DEF Nothing
<1>2. \A c \in Changes : "none" \notin DOMAIN c
  BY DEF Changes
<1> QED
  BY <1>1, <1>2 DEF Idle

Names(change, o) == change.full \/ o \in change.keys

\* accumulate forgets no name: what a window has gathered it goes on naming.
LEMMA AccumulatedNames ==
  ASSUME NEW waiting \in {Nothing} \cup Changes, NEW e \in Objects \cup {Everything}
  PROVE  /\ Accumulated(waiting, e) \in Changes
         /\ Accumulated(waiting, e) # Nothing
         /\ e = Everything => Accumulated(waiting, e).full
         /\ e # Everything => Names(Accumulated(waiting, e), e)
         /\ \A o \in Objects : waiting # Nothing /\ Names(waiting, o)
                               => Names(Accumulated(waiting, e), o)
<1> DEFINE known == IF waiting = Nothing THEN {} ELSE waiting.keys
           all == [full |-> TRUE, keys |-> {}]
           more == [full |-> FALSE, keys |-> known \cup {e}]
<1>1. known \subseteq Objects
  BY DEF Changes
<1>2. all \in Changes /\ (e # Everything => more \in Changes)
  BY <1>1 DEF Changes
<1>3. /\ waiting # Nothing /\ waiting.full => Accumulated(waiting, e) = waiting
      /\ ~(waiting # Nothing /\ waiting.full) /\ e = Everything
           => Accumulated(waiting, e) = all
      /\ ~(waiting # Nothing /\ waiting.full) /\ e # Everything
           => Accumulated(waiting, e) \in {all, more}
  BY DEF Accumulated
<1>4. CASE waiting # Nothing /\ waiting.full
  <2>1. Accumulated(waiting, e) = waiting /\ waiting.full /\ waiting # Nothing
    BY <1>3, <1>4
  <2>2. \A o : Names(waiting, o)
    BY <2>1 DEF Names
  <2> QED
    BY <2>1, <2>2
<1>5. CASE ~(waiting # Nothing /\ waiting.full) /\ e = Everything
  <2>1. Accumulated(waiting, e) = all
    BY <1>3, <1>5
  <2>2. all.full /\ \A o : Names(all, o)
    BY DEF Names
  <2> HIDE DEF all
  <2> QED
    BY <1>2, <1>5, <2>1, <2>2, NothingIsNone
<1>6. CASE ~(waiting # Nothing /\ waiting.full) /\ e # Everything
  <2>1. Accumulated(waiting, e) \in Changes /\ Accumulated(waiting, e) # Nothing
    BY <1>2, <1>3, <1>6, NothingIsNone
  <2>2. CASE Accumulated(waiting, e) = all
    BY <1>6, <2>1, <2>2 DEF Names
  <2>3. CASE Accumulated(waiting, e) = more
    BY <1>6, <2>1, <2>3 DEF Names
  <2> QED
    BY <1>3, <1>6, <2>1, <2>2, <2>3
<1> QED
  BY <1>4, <1>5, <1>6

LEMMA WideFields == \A k : Wide(k).gvr = k.gvr /\ Wide(k).ns = "" /\ Wide(k).sel = ""
  BY DEF Wide

LEMMA WarmExists ==
  ASSUME NEW v, Warm(v) # {}
  PROVE  Existing(v) \in synced /\ Feeds(Existing(v), v)
  BY DEF Warm, Existing, Feeds

-----------------------------------------------------------------------------
(* The tables through every step *)

SameRows(t, u) == DOMAIN u = DOMAIN t /\ u.view = t.view /\ u.rows = t.rows

\* Paging and patching a table leave its rows as they are.
LEMMA TellingKeepsRows ==
  ASSUME NEW t, DOMAIN t = TableFields
  PROVE  /\ \A q, token, offset : SameRows(t, Page(t, q, token, offset).table)
         /\ \A touched, reordered : SameRows(t, Patch(t, touched, reordered).table)
<1>1. \A d : SameRows(t, Told(t, d))
  BY DEF SameRows, Told, TableFields
<1>2. \A d, window : SameRows(t, [Told(t, d) EXCEPT !.sent = window])
  BY <1>1 DEF SameRows, TableFields
<1>3. \A q, token, held, total, matched, reported :
        SameRows(t, [t EXCEPT !.query = q, !.token = token, !.sent = held,
                              !.total = total, !.matched = matched,
                              !.reported = reported])
  BY DEF SameRows, TableFields
<1> HIDE DEF SameRows
<1>4. ASSUME NEW q, NEW token, NEW offset
      PROVE  SameRows(t, Page(t, q, token, offset).table)
  BY <1>3 DEF Page
<1>5. ASSUME NEW touched, NEW reordered
      PROVE  SameRows(t, Patch(t, touched, reordered).table)
  BY <1>1, <1>2 DEF Patch, InPlace, Reordered
<1> QED
  BY <1>4, <1>5

LEMMA ReplaceSetsRows ==
  ASSUME NEW t, DOMAIN t = TableFields, NEW contents, NEW loading
  PROVE  LET u == Replace(t, contents, loading)
         IN  DOMAIN u = TableFields /\ u.view = t.view /\ u.rows = contents
  BY DEF Replace, TableFields

\* apply writes the fresh rows of the keys it was given, and no others.
LEMMA ApplySetsRows ==
  ASSUME NEW t, DOMAIN t = TableFields, t.rows \in Rows,
         NEW fresh \in Rows, NEW keys \in SUBSET Objects
  PROVE  LET u == Apply(t, fresh, keys).table
         IN  /\ DOMAIN u = TableFields /\ u.view = t.view /\ u.rows \in Rows
             /\ \A o \in keys : u.rows[o] = fresh[o]
             /\ \A o \in Objects \ keys : u.rows[o] = t.rows[o]
<1> DEFINE moved == {o \in keys : t.rows[o] # fresh[o]}
           rows == [o \in Objects |-> IF o \in moved THEN fresh[o] ELSE t.rows[o]]
           u == [t EXCEPT !.rows = rows]
<1>1. Apply(t, fresh, keys).table = u
  BY DEF Apply, TableFields
<1>2. rows \in Rows
  BY DEF Rows
<1>3. /\ \A o \in keys : rows[o] = fresh[o]
      /\ \A o \in Objects \ keys : rows[o] = t.rows[o]
  OBVIOUS
<1>4. DOMAIN u = TableFields /\ u.view = t.view /\ u.rows = rows
  BY DEF TableFields
<1> HIDE DEF u, rows
<1> QED
  BY <1>1, <1>2, <1>3, <1>4

\* One table of the heap is written.
LEMMA OneTable ==
  ASSUME TablesSound, NEW id \in DOMAIN heap, NEW u,
         DOMAIN u = TableFields, u.view = heap[id].view, u.rows \in Rows,
         heap' = [heap EXCEPT ![id] = u], tables' = tables
  PROVE  /\ TablesSound'
         /\ \A i, v : Made(i, v) => Made(i, v)'
<1>1. PICK n \in Nat : heap \in [1 .. n -> {heap[i] : i \in DOMAIN heap}]
  BY SeqDef DEF TablesSound
<1>2. /\ DOMAIN heap' = DOMAIN heap /\ DOMAIN heap = 1 .. n
      /\ heap'[id] = u /\ \A i \in DOMAIN heap \ {id} : heap'[i] = heap[i]
  BY <1>1
<1>3. heap' \in [1 .. n -> {heap'[i] : i \in DOMAIN heap'}]
  BY <1>1, <1>2
<1>4. heap' \in Seq({heap'[i] : i \in DOMAIN heap'})
  <2> DEFINE S == {heap'[i] : i \in DOMAIN heap'}
  <2>1. heap' \in [1 .. n -> S]
    BY <1>3
  <2> HIDE DEF S
  <2>2. heap' \in Seq(S)
    BY <2>1, SeqDef
  <2> QED
    BY <2>2 DEF S
<1>5. \A i \in DOMAIN heap' : DOMAIN heap'[i] = TableFields /\ heap'[i].rows \in Rows
  BY <1>2 DEF TablesSound
<1>6. \A i, v : Made(i, v) => Made(i, v)'
  BY <1>2 DEF Made
<1> QED
  BY <1>4, <1>5, <1>6 DEF TablesSound

\* A table is created for a view that has none.
LEMMA OneMoreTable ==
  ASSUME TablesSound, NEW v \in Views, heap' = Append(heap, NewTable(v))
  PROVE  /\ heap' \in Seq({heap'[i] : i \in DOMAIN heap'})
         /\ \A i \in DOMAIN heap' : DOMAIN heap'[i] = TableFields /\ heap'[i].rows \in Rows
         /\ \A i \in DOMAIN heap : i \in DOMAIN heap' /\ heap'[i] = heap[i]
         /\ Len(heap) + 1 \in Nat \ {0} /\ Len(heap) + 1 \in DOMAIN heap'
         /\ heap'[Len(heap) + 1].view = v
<1> DEFINE S == {heap[i] : i \in DOMAIN heap} \cup {NewTable(v)}
<1>1. heap \in Seq(S)
  <2>1. heap \in Seq({heap[i] : i \in DOMAIN heap})
    BY DEF TablesSound
  <2> QED
    BY <2>1, SeqMonotonic
<1>2. NewTable(v) \in S
  OBVIOUS
<1> HIDE DEF S
<1>3. /\ Len(heap) \in Nat /\ DOMAIN heap = 1 .. Len(heap)
      /\ heap' \in Seq(S) /\ Len(heap') = Len(heap) + 1
      /\ \A i \in 1 .. Len(heap) : heap'[i] = heap[i]
      /\ heap'[Len(heap) + 1] = NewTable(v)
  BY <1>1, <1>2, AppendProperties, LenProperties
<1>a. heap' \in Seq(S)
  BY <1>3
<1>4. DOMAIN heap' = 1 .. (Len(heap) + 1)
  BY <1>3, LenProperties
<1>5. DOMAIN NewTable(v) = TableFields /\ NewTable(v).rows \in Rows /\ NewTable(v).view = v
  BY DEF NewTable, TableFields, Rows, Empty
<1>6. heap' \in Seq({heap'[i] : i \in DOMAIN heap'})
  <2> DEFINE T == {heap'[i] : i \in DOMAIN heap'}
  <2>1. Len(heap') \in Nat /\ heap' \in [1 .. Len(heap') -> S]
    BY <1>a, LenProperties
  <2>2. \E n \in Nat : heap' \in [1 .. n -> T]
    BY <2>1
  <2> HIDE DEF T
  <2>3. heap' \in Seq(T)
    BY <2>2, SeqDef
  <2> QED
    BY <2>3 DEF T
<1>7. \A i \in DOMAIN heap' : i \in DOMAIN heap \/ i = Len(heap) + 1
  BY <1>3, <1>4
<1>8. \A i \in DOMAIN heap' : DOMAIN heap'[i] = TableFields /\ heap'[i].rows \in Rows
  BY <1>3, <1>5, <1>7 DEF TablesSound
<1> QED
  BY <1>3, <1>4, <1>5, <1>6, <1>8

\* What ensureTable does: the view has a table, others may lose theirs, and no
\* table that exists changes.
LEMMA EnsureTableEffect ==
  ASSUME TablesSound, NEW v \in Views,
         heap' = EnsureTable(v).heap, tables' = EnsureTable(v).tables
  PROVE  /\ TablesSound'
         /\ \A i, u : Made(i, u) => Made(i, u)'
         /\ \A i \in DOMAIN heap : heap'[i] = heap[i]
         /\ tables'[v] = EnsureTable(v).id /\ Made(tables[v], v)'
         /\ tables[v] # 0 => tables'[v] = tables[v]
         /\ \A u \in Views \ {v} : tables'[u] \in {0, tables[u]}
<1>0. tables \in [Views -> Nat]
  BY DEF TablesSound
<1> DEFINE kept == SelectSeq(opened, LAMBDA u : u # v)
           gone == IF tables[v] = 0 /\ Len(kept) >= TableBudget
                   THEN {kept[i] : i \in 1..(Len(kept) - TableBudget + 1)} ELSE {}
           id == IF tables[v] = 0 THEN Len(heap) + 1 ELSE tables[v]
<1>1. tables' = [u \in Views |-> IF u = v THEN id ELSE IF u \in gone THEN 0 ELSE tables[u]]
  BY DEF EnsureTable
<1>2. EnsureTable(v).id = id
  BY DEF EnsureTable
<1>3. heap' = IF tables[v] = 0 THEN Append(heap, NewTable(v)) ELSE heap
  BY DEF EnsureTable
<1> HIDE DEF gone
<1>4. tables'[v] = id /\ \A u \in Views \ {v} : tables'[u] \in {0, tables[u]}
  BY <1>1
<1>5. CASE tables[v] = 0
  <2>1. heap' = Append(heap, NewTable(v)) /\ id = Len(heap) + 1
    BY <1>3, <1>5
  <2>2. /\ heap' \in Seq({heap'[i] : i \in DOMAIN heap'})
        /\ \A i \in DOMAIN heap' : DOMAIN heap'[i] = TableFields /\ heap'[i].rows \in Rows
        /\ \A i \in DOMAIN heap : i \in DOMAIN heap' /\ heap'[i] = heap[i]
        /\ Len(heap) + 1 \in Nat \ {0} /\ Len(heap) + 1 \in DOMAIN heap'
        /\ heap'[Len(heap) + 1].view = v
    BY <2>1, OneMoreTable
  <2>3. \A i, u : Made(i, u) => Made(i, u)'
    BY <2>2 DEF Made
  <2>4. tables' \in [Views -> Nat]
    BY <1>0, <1>1, <2>1, <2>2
  <2>a. Made(tables[v], v)'
    BY <1>4, <2>1, <2>2 DEF Made
  <2>5. (\A u \in Views : tables[u] # 0 => Made(tables[u], u))'
    <3> SUFFICES ASSUME NEW u \in Views, tables'[u] # 0 PROVE Made(tables[u], u)'
      OBVIOUS
    <3>1. CASE u = v
      BY <2>a, <3>1
    <3>2. CASE u # v
      <4>1. tables'[u] = tables[u] /\ Made(tables[u], u)
        BY <1>4, <3>2 DEF TablesSound
      <4> QED
        BY <2>3, <4>1
    <3> QED
      BY <3>1, <3>2
  <2>6. TablesSound'
    BY <2>2, <2>4, <2>5 DEF TablesSound
  <2> QED
    BY <1>2, <1>4, <1>5, <2>a, <2>2, <2>3, <2>6
<1>6. CASE tables[v] # 0
  <2>1. heap' = heap /\ id = tables[v]
    BY <1>3, <1>6
  <2>2. \A i, u : Made(i, u) <=> Made(i, u)'
    BY <2>1 DEF Made
  <2>3. tables' \in [Views -> Nat]
    BY <1>0, <1>1, <2>1
  <2>4. (\A u \in Views : tables[u] # 0 => Made(tables[u], u))'
    BY <1>4, <2>1, <2>2 DEF TablesSound
  <2>5. TablesSound'
    BY <2>1, <2>3, <2>4 DEF TablesSound
  <2> QED
    BY <1>2, <1>4, <1>6, <2>1, <2>2, <2>4, <2>5
<1> QED
  BY <1>5, <1>6

\* Tables are created and written, and never change their view.
LEMMA NextTables ==
  ASSUME SoundInv, Next
  PROVE  TablesSound' /\ \A i, v : Made(i, v) => Made(i, v)'
<1> USE DEF SoundInv
<1>1. ASSUME heap' = heap, \A v \in Views : tables'[v] \in {0, tables[v]},
             tables' \in [Views -> Nat]
      PROVE  TablesSound' /\ \A i, v : Made(i, v) => Made(i, v)'
  <2>1. \A i, v : Made(i, v) => Made(i, v)'
    BY <1>1 DEF Made
  <2>2. (\A v \in Views : tables[v] # 0 => Made(tables[v], v))'
    BY <1>1 DEF TablesSound, Made
  <2> QED
    BY <1>1, <2>1, <2>2 DEF TablesSound
<1>2. ASSUME UNCHANGED <<heap, tables>>
      PROVE  TablesSound' /\ \A i, v : Made(i, v) => Made(i, v)'
  BY <1>1, <1>2 DEF TablesSound
<1>3. ASSUME NEW id \in DOMAIN heap, NEW u, SameRows(heap[id], u),
             heap' = [heap EXCEPT ![id] = u], tables' = tables
      PROVE  TablesSound' /\ \A i, v : Made(i, v) => Made(i, v)'
  <2>1. DOMAIN u = TableFields /\ u.view = heap[id].view /\ u.rows \in Rows
    BY <1>3 DEF SameRows, TablesSound
  <2> QED
    BY <1>3, <2>1, OneTable
<1>4. CASE ListEnsure
  <2>1. PICK r \in requests :
          heap' = EnsureTable(r.view).heap /\ tables' = EnsureTable(r.view).tables
    BY <1>4 DEF ListEnsure
  <2>2. r.view \in Views
    BY DEF RequestsSound, RequestSound
  <2> QED
    BY <2>1, <2>2, EnsureTableEffect
<1>5. CASE ListReplace
  <2>1. PICK r \in requests :
          /\ r.at = "fill" /\ tables' = tables
          /\ heap' = [heap EXCEPT ![r.id] = Replace(heap[r.id], r.rows, r.loading)]
    BY <1>5 DEF ListReplace
  <2>2. r.id \in DOMAIN heap /\ r.rows \in Rows
    BY <2>1 DEF RequestsSound, RequestSound, Made
  <2>3. DOMAIN heap[r.id] = TableFields
    BY <2>2 DEF TablesSound
  <2> DEFINE u == Replace(heap[r.id], r.rows, r.loading)
  <2>4. DOMAIN u = TableFields /\ u.view = heap[r.id].view /\ u.rows \in Rows
    BY <2>2, <2>3, ReplaceSetsRows
  <2> HIDE DEF u
  <2>5. heap' = [heap EXCEPT ![r.id] = u] /\ tables' = tables
    BY <2>1 DEF u
  <2> QED
    BY <2>2, <2>4, <2>5, OneTable
<1>6. CASE ListPage
  <2>1. PICK r \in requests :
          /\ r.at = "page" /\ tables' = tables
          /\ heap' = [heap EXCEPT ![r.id] = Page(heap[r.id], r.query, r.token, r.offset).table]
    BY <1>6 DEF ListPage
  <2>2. r.id \in DOMAIN heap
    BY <2>1 DEF RequestsSound, RequestSound, Made
  <2>3. DOMAIN heap[r.id] = TableFields
    BY <2>2 DEF TablesSound
  <2>4. SameRows(heap[r.id], Page(heap[r.id], r.query, r.token, r.offset).table)
    BY <2>3, TellingKeepsRows
  <2> QED
    BY <1>3, <2>1, <2>2, <2>4
<1>7. ASSUME NEW n \in Readers, RefreshApply(n)
      PROVE  TablesSound' /\ \A i, v : Made(i, v) => Made(i, v)'
  <2> DEFINE m == notices[n]
             u == IF m.full THEN Replace(heap[m.id], m.fresh, FALSE)
                  ELSE Apply(heap[m.id], m.fresh, m.keys).table
  <2>1. /\ m.at = "apply" /\ tables' = tables
        /\ heap' = [heap EXCEPT ![m.id] = u]
    BY <1>7 DEF RefreshApply
  <2>2. m # Idle
    BY <2>1 DEF Idle
  <2>3. m.id \in DOMAIN heap /\ m.fresh \in Rows /\ m.keys \subseteq Objects
    BY <2>1, <2>2 DEF NoticesSound, NoticeSound, Made
  <2>4. DOMAIN heap[m.id] = TableFields /\ heap[m.id].rows \in Rows
    BY <2>3 DEF TablesSound
  <2>5. DOMAIN u = TableFields /\ u.view = heap[m.id].view /\ u.rows \in Rows
    <3>1. CASE m.full
      <4> DEFINE new == Replace(heap[m.id], m.fresh, FALSE)
      <4>1. DOMAIN new = TableFields /\ new.view = heap[m.id].view /\ new.rows = m.fresh
        BY <2>4 DEF Replace, TableFields
      <4> HIDE DEF new
      <4>2. u = new
        BY <3>1 DEF new
      <4> HIDE DEF u
      <4> QED
        BY <2>3, <4>1, <4>2
    <3>2. CASE ~m.full
      BY <2>3, <2>4, <3>2, ApplySetsRows
    <3> QED
      BY <3>1, <3>2
  <2> HIDE DEF u
  <2> QED
    BY <2>1, <2>3, <2>5, OneTable
<1>8. ASSUME NEW n \in Readers, MakePatch(n)
      PROVE  TablesSound' /\ \A i, v : Made(i, v) => Made(i, v)'
  <2> DEFINE m == notices[n]
             u == Patch(heap[m.id], m.touched, m.reordered).table
  <2>1. /\ m.at = "patch" /\ tables' = tables
        /\ heap' = [heap EXCEPT ![m.id] = u]
    BY <1>8 DEF MakePatch
  <2>2. m # Idle
    BY <2>1 DEF Idle
  <2>3. m.id \in DOMAIN heap
    BY <2>1, <2>2 DEF NoticesSound, NoticeSound, Made
  <2>4. DOMAIN heap[m.id] = TableFields
    BY <2>3 DEF TablesSound
  <2>5. SameRows(heap[m.id], u)
    BY <2>4, TellingKeepsRows
  <2> HIDE DEF u
  <2> QED
    BY <1>3, <2>1, <2>3, <2>5
<1>9. CASE Forget
  <2>1. heap' = heap /\ tables' = [v \in Views |-> 0]
    BY <1>9 DEF Forget
  <2> QED
    BY <1>1, <2>1
<1>10. CASE Load \/ More \/ Receive \/ ApplyPatch \/ ListRead \/ ListSubscribe \/ ListFails
  BY <1>2, <1>10 DEF Load, More, Receive, ApplyPatch, ListRead, ListSubscribe,
                     ListFails, tableVars
<1>11. ASSUME NEW n \in Readers, Notify(n) \/ RefreshRead(n) \/ Emit(n)
       PROVE  TablesSound' /\ \A i, v : Made(i, v) => Made(i, v)'
  BY <1>2, <1>11 DEF Notify, RefreshRead, Emit, tableVars
<1>12. ASSUME UNCHANGED <<notices, tableVars, windowVars, forgets, history>>
       PROVE  TablesSound' /\ \A i, v : Made(i, v) => Made(i, v)'
  BY <1>2, <1>12 DEF tableVars
<1> QED
  BY <1>4, <1>5, <1>6, <1>7, <1>8, <1>9, <1>10, <1>11, <1>12 DEF Next, HubStep

-----------------------------------------------------------------------------
(* Loads, notifications and the window through every step *)

\* What holds of a load goes on holding while its table exists.
LEMMA RequestStays ==
  ASSUME \A i, v : Made(i, v) => Made(i, v)', NEW r, RequestSound(r)
  PROVE  RequestSound(r)'
  BY DEF RequestSound

LEMMA NoticeStays ==
  ASSUME \A i, v : Made(i, v) => Made(i, v)', NEW m, NoticeSound(m)
  PROVE  NoticeSound(m)'
<1>1. CASE m = Idle
  BY <1>1 DEF NoticeSound
<1>2. CASE m # Idle
  <2>1. \A t \in m.todo : t = <<t[1], t[2]>> /\ t[1] \in Views /\ Made(t[2], t[1])'
    BY <1>2 DEF NoticeSound
  <2>2. m.at # "next" => m.view \in Views /\ Made(m.id, m.view)'
    BY <1>2 DEF NoticeSound
  <2> QED
    BY <1>2, <2>1, <2>2 DEF NoticeSound
<1> QED
  BY <1>1, <1>2

\* A load asks for one of the views, and holds rows and a table of that view.
LEMMA NextRequests ==
  ASSUME HubInv, SoundInv, Next
  PROVE  RequestsSound'
<1> USE DEF SoundInv
<1>0. TablesSound' /\ \A i, v : Made(i, v) => Made(i, v)'
  BY NextTables
<1>a. \A r \in requests : RequestSound(r) /\ RequestSound(r)'
  BY <1>0, RequestStays DEF RequestsSound
<1>b. ASSUME requests' \subseteq requests
      PROVE  RequestsSound'
  BY <1>a, <1>b DEF RequestsSound
<1>c. ASSUME NEW r, requests' \subseteq requests \cup {r}, RequestSound(r)'
      PROVE  RequestsSound'
  BY <1>a, <1>c DEF RequestsSound
<1>e. ASSUME NEW r \in requests, NEW new, requests' \subseteq requests \cup {new},
             DOMAIN new = RequestFields, new.view = r.view, new.rows \in Rows,
             new.at \in {"read", "subscribe", "replace"}
      PROVE  RequestsSound'
  <2>1. RequestSound(new)'
    BY <1>a, <1>e DEF RequestSound
  <2> QED
    BY <1>c, <1>e, <2>1
<1>d. Empty \in Rows
  BY DEF Empty, Rows
<1>1. CASE Load
  <2>1. PICK v \in Views, q \in Queries :
          requests' = requests \cup
            {[token |-> loads', view |-> v, query |-> q, offset |-> 0, at |-> "read",
              rows |-> Empty, loading |-> FALSE, id |-> 0]}
    BY <1>1 DEF Load
  <2>a. PICK r : r = [token |-> loads', view |-> v, query |-> q, offset |-> 0, at |-> "read",
                      rows |-> Empty, loading |-> FALSE, id |-> 0]
    OBVIOUS
  <2>2. /\ DOMAIN r = RequestFields
        /\ r.view = v /\ r.rows = Empty /\ r.at = "read"
    BY <2>a DEF RequestFields
  <2>3. requests' \subseteq requests \cup {r}
    BY <2>1, <2>a
  <2>4. RequestSound(r)'
    BY <1>d, <2>2 DEF RequestSound
  <2> QED
    BY <1>c, <2>3, <2>4
<1>2. CASE More
  <2> DEFINE at == IF tables[win.view] # 0 THEN "page" ELSE "read"
             r == [token |-> win.token, view |-> win.view, query |-> win.query,
                   offset |-> Len(win.order), at |-> at,
                   rows |-> Empty, loading |-> FALSE, id |-> tables[win.view]]
  <2>1. /\ win.token > 0 /\ UNCHANGED <<heap, tables>>
        /\ requests' = requests \cup {r}
    BY <1>2 DEF More
  <2>2. /\ DOMAIN r = RequestFields /\ r.view = win.view /\ r.rows = Empty
        /\ r.at = at /\ r.id = tables[win.view]
    BY DEF RequestFields
  <2>3. win.view \in Views /\ (at = "page" => Made(tables[win.view], win.view))
    BY <2>1 DEF WinSound, TablesSound
  <2>4. at \in {"read", "page"}
    OBVIOUS
  <2> HIDE DEF r, at
  <2>5. RequestSound(r)
    BY <1>d, <2>2, <2>3, <2>4 DEF RequestSound
  <2>6. \A x : RequestSound(x) => RequestSound(x)'
    BY <1>0, RequestStays
  <2>7. ASSUME NEW x \in requests' PROVE RequestSound(x)'
    BY <1>a, <2>1, <2>5, <2>6
  <2> QED
    BY <2>7 DEF RequestsSound
<1>3. CASE ListRead
  <2>1. PICK r \in requests :
          IF Warm(r.view) # {}
          THEN Step(r, [r EXCEPT !.at = "replace",
                               !.rows = Visible(r.view, cache[Existing(r.view)])])
          ELSE LET found == {o \in Objects : Covers(r.view, o) /\ server[o] # Absent}
                   some == {o \in found : Cardinality({p \in found : p < o}) < Cold}
               IN  Step(r, [r EXCEPT !.at = "subscribe", !.loading = some # found,
                             !.rows = [o \in Objects |->
                                         IF o \in some THEN server[o] ELSE Absent]])
    BY <1>3 DEF ListRead
  <2>2. DOMAIN r = RequestFields
    BY <1>a DEF RequestSound
  <2>3. CASE Warm(r.view) # {}
    <3> DEFINE rows == Visible(r.view, cache[Existing(r.view)])
               new == [r EXCEPT !.at = "replace", !.rows = rows]
    <3>1. Existing(r.view) \in Keys
      BY <2>3, WarmExists DEF HubInv, HubTypes
    <3>2. rows \in Rows
      BY <3>1, VisibleIsRows DEF HubInv, HubTypes
    <3>3. requests' = (requests \ {r}) \cup {new}
      BY <2>1, <2>3 DEF Step
    <3> HIDE DEF rows
    <3>4. DOMAIN new = RequestFields /\ new.view = r.view /\ new.rows = rows
          /\ new.at = "replace"
      BY <2>2 DEF RequestFields
    <3> HIDE DEF new
    <3> QED
      BY <1>e, <3>2, <3>3, <3>4
  <2>4. CASE Warm(r.view) = {}
    <3> DEFINE found == {o \in Objects : Covers(r.view, o) /\ server[o] # Absent}
               some == {o \in found : Cardinality({p \in found : p < o}) < Cold}
               rows == [o \in Objects |-> IF o \in some THEN server[o] ELSE Absent]
               loading == some # found
               new == [r EXCEPT !.at = "subscribe", !.loading = loading, !.rows = rows]
    <3>1. Step(r, new)
      BY <2>1, <2>4
    <3>2. requests' = (requests \ {r}) \cup {new}
      BY <3>1 DEF Step
    <3> HIDE DEF some, loading
    <3>3. rows \in Rows
      BY DEF HubInv, HubTypes, Rows
    <3> HIDE DEF rows
    <3>4. DOMAIN new = RequestFields /\ new.view = r.view /\ new.rows = rows
          /\ new.at = "subscribe"
      BY <2>2 DEF RequestFields
    <3> HIDE DEF new
    <3> QED
      BY <1>e, <3>2, <3>3, <3>4
  <2> QED
    BY <2>3, <2>4
<1>4. CASE ListSubscribe
  <2>1. PICK r \in requests : Step(r, [r EXCEPT !.at = "replace"])
    BY <1>4 DEF ListSubscribe
  <2> DEFINE new == [r EXCEPT !.at = "replace"]
  <2>2. DOMAIN r = RequestFields /\ r.rows \in Rows
    BY <1>a DEF RequestSound
  <2>3. requests' = (requests \ {r}) \cup {new}
    BY <2>1 DEF Step
  <2>4. DOMAIN new = RequestFields /\ new.view = r.view /\ new.rows = r.rows
        /\ new.at = "replace"
    BY <2>2 DEF RequestFields
  <2> HIDE DEF new
  <2> QED
    BY <1>e, <2>2, <2>3, <2>4
<1>5. CASE ListEnsure
  <2>1. PICK r \in requests :
          /\ Step(r, [r EXCEPT !.at = "fill", !.id = EnsureTable(r.view).id])
          /\ heap' = EnsureTable(r.view).heap /\ tables' = EnsureTable(r.view).tables
    BY <1>5 DEF ListEnsure
  <2>a. PICK new : new = [r EXCEPT !.at = "fill", !.id = EnsureTable(r.view).id]
    OBVIOUS
  <2>2. DOMAIN r = RequestFields /\ r.rows \in Rows /\ r.view \in Views
    BY <1>a DEF RequestSound
  <2>3. requests' = (requests \ {r}) \cup {new}
    BY <2>1, <2>a DEF Step
  <2>4. tables'[r.view] = EnsureTable(r.view).id /\ Made(tables[r.view], r.view)'
    BY <2>1, <2>2, EnsureTableEffect
  <2>5. DOMAIN new = RequestFields /\ new.view = r.view /\ new.rows = r.rows
        /\ new.at = "fill" /\ new.id = tables'[r.view]
    BY <2>2, <2>4, <2>a DEF RequestFields
  <2>6. RequestSound(new)'
    BY <2>2, <2>4, <2>5 DEF RequestSound
  <2> QED
    BY <1>c, <2>3, <2>6
<1>6. CASE ListReplace
  <2>1. PICK r \in requests : r.at = "fill" /\ Step(r, [r EXCEPT !.at = "page"])
    BY <1>6 DEF ListReplace
  <2> DEFINE new == [r EXCEPT !.at = "page"]
  <2>2. RequestSound(r)' /\ DOMAIN r = RequestFields
    BY <1>a DEF RequestSound
  <2>3. requests' = (requests \ {r}) \cup {new}
    BY <2>1 DEF Step
  <2>4. DOMAIN new = RequestFields /\ new.view = r.view /\ new.rows = r.rows
        /\ new.at = "page" /\ new.id = r.id
    BY <2>2 DEF RequestFields
  <2> HIDE DEF new
  <2>5. RequestSound(new)'
    BY <2>1, <2>2, <2>4 DEF RequestSound
  <2> QED
    BY <1>c, <2>3, <2>5
<1>7. CASE ListPage \/ ListFails
  BY <1>b, <1>7 DEF ListPage, ListFails
<1>8. CASE Receive \/ ApplyPatch \/ Forget
  BY <1>b, <1>8 DEF Receive, ApplyPatch, Forget, windowVars
<1>9. ASSUME NEW n \in Readers,
             Notify(n) \/ RefreshRead(n) \/ RefreshApply(n) \/ MakePatch(n) \/ Emit(n)
      PROVE  RequestsSound'
  BY <1>b, <1>9 DEF Notify, RefreshRead, RefreshApply, MakePatch, Emit, windowVars
<1>10. ASSUME UNCHANGED <<notices, tableVars, windowVars, forgets, history>>
       PROVE  RequestsSound'
  BY <1>b, <1>10 DEF windowVars
<1> QED
  BY <1>1, <1>2, <1>3, <1>4, <1>5, <1>6, <1>7, <1>8, <1>9, <1>10 DEF Next, HubStep

\* The window changes its view only to one that it asks for.
LEMMA NextWin ==
  ASSUME SoundInv, Next
  PROVE  WinSound'
<1>0. WinSound
  BY DEF SoundInv
<1>1. ASSUME win' = win PROVE WinSound'
  BY <1>0, <1>1 DEF WinSound
<1>2. ASSUME DOMAIN win' = WinFields, win'.view = win.view, win'.token = win.token
      PROVE  WinSound'
  BY <1>0, <1>2 DEF WinSound
<1>3. CASE Load
  BY <1>3 DEF Load, WinSound, WinFields
<1>4. CASE Receive
  <2>1. \A page : /\ DOMAIN Accepted(win, page) = WinFields
                  /\ Accepted(win, page).view = win.view
                  /\ Accepted(win, page).token = win.token
    BY <1>0 DEF Accepted, WinSound, WinFields
  <2>2. \A page : /\ DOMAIN Appended(win, page) = WinFields
                  /\ Appended(win, page).view = win.view
                  /\ Appended(win, page).token = win.token
    BY <1>0 DEF Appended, WinSound, WinFields
  <2>3. PICK a \in answers : win' \in {win, Accepted(win, a), Appended(win, a)}
    BY <1>4 DEF Receive
  <2> QED
    BY <1>1, <1>2, <2>1, <2>2, <2>3
<1>5. CASE ApplyPatch
  <2>1. \A d : /\ DOMAIN Patched(win, d) = WinFields
               /\ Patched(win, d).view = win.view
               /\ Patched(win, d).token = win.token
    BY <1>0 DEF Patched, WinSound, WinFields
  <2>2. win' \in {win, Patched(win, Head(wire))}
    BY <1>5 DEF ApplyPatch
  <2> QED
    BY <1>1, <1>2, <2>1, <2>2
<1>6. CASE More \/ ListRead \/ ListSubscribe \/ ListEnsure \/ ListReplace \/ ListPage
           \/ ListFails \/ Forget
  BY <1>1, <1>6 DEF More, ListRead, ListSubscribe, ListEnsure, ListReplace, ListPage,
                    ListFails, Forget, windowVars
<1>7. ASSUME NEW n \in Readers,
             Notify(n) \/ RefreshRead(n) \/ RefreshApply(n) \/ MakePatch(n) \/ Emit(n)
      PROVE  WinSound'
  BY <1>1, <1>7 DEF Notify, RefreshRead, RefreshApply, MakePatch, Emit, windowVars
<1>8. ASSUME UNCHANGED <<notices, tableVars, windowVars, forgets, history>>
      PROVE  WinSound'
  BY <1>1, <1>8 DEF windowVars
<1> QED
  BY <1>3, <1>4, <1>5, <1>6, <1>7, <1>8 DEF Next, HubStep

\* The goroutine goes on to a table of its range, or ends.
LEMMA OnwardIsSound ==
  ASSUME NEW m, DOMAIN m = NoticeFields, m.full \in BOOLEAN, m.keys \subseteq Objects,
         \A t \in m.todo : t = <<t[1], t[2]>> /\ t[1] \in Views /\ Made(t[2], t[1])'
  PROVE  NoticeSound(Onward(m))'
<1>1. CASE m.todo = {}
  BY <1>1 DEF Onward, NoticeSound
<1>2. CASE m.todo # {}
  <2>1. PICK new : new = [m EXCEPT !.at = "next"]
    OBVIOUS
  <2>2. /\ DOMAIN new = NoticeFields /\ new.at = "next" /\ new.full = m.full
        /\ new.keys = m.keys /\ new.todo = m.todo
    BY <2>1 DEF NoticeFields
  <2>3. NoticeSound(new)'
    BY <2>2 DEF NoticeSound
  <2>4. Onward(m) = new
    BY <1>2, <2>1 DEF Onward
  <2> QED
    BY <2>3, <2>4
<1> QED
  BY <1>1, <1>2

\* A notification goes through tables of its views, with rows of a watch that
\* feeds them.
LEMMA NextNotices ==
  ASSUME HubInv, SoundInv, Next
  PROVE  NoticesSound'
<1>0. /\ TablesSound /\ NoticesSound
      /\ \A i, v : Made(i, v) => Made(i, v)'
  BY NextTables DEF SoundInv
<1>a. \A n \in Readers : NoticeSound(notices[n]) /\ (\A m : m = notices[n] => NoticeSound(m)')
  <2> SUFFICES ASSUME NEW n \in Readers, NEW m, m = notices[n]
               PROVE  NoticeSound(notices[n]) /\ NoticeSound(m)'
    OBVIOUS
  <2>1. NoticeSound(m)
    BY <1>0 DEF NoticesSound
  <2> QED
    BY <1>0, <2>1, NoticeStays
<1>b. ASSUME notices' = notices PROVE NoticesSound'
  <2>1. \A n \in Readers : NoticeSound(notices[n])'
    <3> SUFFICES ASSUME NEW n \in Readers PROVE NoticeSound(notices[n])'
      OBVIOUS
    <3>1. PICK m : m = notices[n]
      OBVIOUS
    <3>2. NoticeSound(m)'
      BY <1>a, <3>1
    <3>3. notices'[n] = m
      BY <1>b, <3>1
    <3> QED
      BY <3>2, <3>3
  <2> QED
    BY <1>0, <1>b, <2>1 DEF NoticesSound
<1>c. ASSUME NEW n \in Readers, NEW new, NoticeSound(new)',
             notices' = [notices EXCEPT ![n] = new]
      PROVE  NoticesSound'
  <2>1. DOMAIN notices' = Readers
    BY <1>0, <1>c DEF NoticesSound
  <2>2. ASSUME NEW j \in Readers PROVE NoticeSound(notices[j])'
    <3>1. CASE j = n
      <4>1. notices'[j] = new
        BY <1>0, <1>c, <3>1 DEF NoticesSound
      <4> QED
        BY <1>c, <4>1
    <3>2. CASE j # n
      <4>1. PICK m : m = notices[j]
        OBVIOUS
      <4>2. notices'[j] = m
        BY <1>0, <1>c, <3>2, <4>1 DEF NoticesSound
      <4>3. NoticeSound(m)'
        BY <1>a, <4>1
      <4> QED
        BY <4>2, <4>3
    <3> QED
      BY <3>1, <3>2
  <2> QED
    BY <2>1, <2>2 DEF NoticesSound
<1>1. ASSUME NEW n \in Readers, Notify(n) PROVE NoticesSound'
  <2>1. PICK k \in Keys :
          /\ pending[k] # Nothing
          /\ notices' = [notices EXCEPT ![n] = Onward(
               [at |-> "next", full |-> pending[k].full, keys |-> pending[k].keys,
                todo |-> {<<v, tables[v]>> : v \in Affected(k)}, view |-> k, source |-> k,
                id |-> 0, fresh |-> Empty, touched |-> {}, reordered |-> FALSE,
                delta |-> Nothing])]
    BY <1>1 DEF Notify, Flush
  <2>2. PICK m :
          m = [at |-> "next", full |-> pending[k].full, keys |-> pending[k].keys,
               todo |-> {<<v, tables[v]>> : v \in Affected(k)}, view |-> k, source |-> k,
               id |-> 0, fresh |-> Empty, touched |-> {}, reordered |-> FALSE,
               delta |-> Nothing]
    OBVIOUS
  <2>3. /\ DOMAIN m = NoticeFields /\ m.full = pending[k].full /\ m.keys = pending[k].keys
        /\ m.todo = {<<v, tables[v]>> : v \in Affected(k)}
    BY <2>2 DEF NoticeFields
  <2>4. m.full \in BOOLEAN /\ m.keys \subseteq Objects
    <3>1. pending[k] \in Changes
      BY <2>1 DEF HubInv, HubTypes
    <3>2. pending[k].full \in BOOLEAN /\ pending[k].keys \subseteq Objects
      BY <3>1 DEF Changes
    <3> QED
      BY <2>3, <3>2
  <2>5. ASSUME NEW t \in m.todo
        PROVE  t = <<t[1], t[2]>> /\ t[1] \in Views /\ Made(t[2], t[1])'
    <3>1. PICK v \in Affected(k) : t = <<v, tables[v]>>
      BY <2>3
    <3>2. v \in Views /\ Made(tables[v], v)
      BY <1>0 DEF Affected, TablesSound
    <3>3. PICK id : id = tables[v]
      OBVIOUS
    <3>4. Made(id, v)'
      BY <1>0, <3>2, <3>3
    <3> QED
      BY <3>1, <3>2, <3>3, <3>4
  <2>6. NoticeSound(Onward(m))'
    BY <2>3, <2>4, <2>5, OnwardIsSound
  <2>7. PICK new : new = Onward(m)
    OBVIOUS
  <2> QED
    BY <1>c, <2>1, <2>2, <2>6, <2>7
<1>m. ASSUME NEW n \in Readers, notices[n].at # "idle", NEW m, m = notices[n]
      PROVE  /\ DOMAIN m = NoticeFields /\ m.full \in BOOLEAN /\ m.keys \subseteq Objects
             /\ \A t \in m.todo : t = <<t[1], t[2]>> /\ t[1] \in Views
                                  /\ Made(t[2], t[1])'
             /\ m.at # "next" => m.view \in Views /\ Made(m.id, m.view)'
  <2>1. m # Idle
    BY <1>m, NothingIsNone
  <2>2. NoticeSound(m)'
    BY <1>a, <1>m
  <2> QED
    BY <2>1, <2>2 DEF NoticeSound
<1>2. ASSUME NEW n \in Readers, RefreshRead(n) PROVE NoticesSound'
  <2>1. PICK m : m = notices[n]
    OBVIOUS
  <2>2. PICK t \in m.todo :
          LET rest == [m EXCEPT !.todo = @ \ {t}]
          IN  IF closed \/ Warm(t[1]) = {}
              THEN notices' = [notices EXCEPT ![n] = Onward(rest)]
              ELSE notices' = [notices EXCEPT ![n] =
                     [rest EXCEPT !.at = "apply", !.view = t[1], !.id = t[2],
                                  !.source = Existing(t[1]),
                                  !.fresh = Visible(t[1], cache[Existing(t[1])])]]
    BY <1>2, <2>1 DEF RefreshRead
  <2>3. PICK rest : rest = [m EXCEPT !.todo = @ \ {t}]
    OBVIOUS
  <2>4. /\ DOMAIN m = NoticeFields /\ m.full \in BOOLEAN /\ m.keys \subseteq Objects
        /\ \A u \in m.todo : u = <<u[1], u[2]>> /\ u[1] \in Views /\ Made(u[2], u[1])'
    <3>1. notices[n].at # "idle"
      BY <1>2 DEF RefreshRead
    <3> QED
      BY <1>m, <2>1, <3>1
  <2>5. /\ DOMAIN rest = NoticeFields /\ rest.full = m.full /\ rest.keys = m.keys
        /\ rest.todo = m.todo \ {t}
    BY <2>3, <2>4 DEF NoticeFields
  <2>6. CASE closed \/ Warm(t[1]) = {}
    <3>1. NoticeSound(Onward(rest))'
      BY <2>4, <2>5, OnwardIsSound
    <3>2. PICK new : new = Onward(rest)
      OBVIOUS
    <3>3. notices' = [notices EXCEPT ![n] = Onward(rest)]
      BY <2>2, <2>3, <2>6
    <3> QED
      BY <1>c, <3>1, <3>2, <3>3
  <2>7. CASE ~(closed \/ Warm(t[1]) = {})
    <3>1. PICK source, fresh :
            source = Existing(t[1]) /\ fresh = Visible(t[1], cache[Existing(t[1])])
      OBVIOUS
    <3>2. PICK new : new = [rest EXCEPT !.at = "apply", !.view = t[1], !.id = t[2],
                                        !.source = source, !.fresh = fresh]
      OBVIOUS
    <3>3. notices' = [notices EXCEPT ![n] = new]
      BY <2>2, <2>3, <2>7, <3>1, <3>2
    <3>4. /\ DOMAIN new = NoticeFields /\ new.at = "apply"
          /\ new.full = m.full /\ new.keys = m.keys
          /\ new.todo = m.todo \ {t} /\ new.view = t[1] /\ new.id = t[2]
          /\ new.source = source /\ new.fresh = fresh
      BY <2>5, <3>2 DEF NoticeFields
    <3>5. Feeds(source, t[1]) /\ source \in synced
      BY <2>7, <3>1, WarmExists
    <3>6. fresh \in Rows
      BY <3>1, <3>5, VisibleIsRows DEF HubInv, HubTypes
    <3>7. NoticeSound(new)'
      BY <2>4, <3>4, <3>5, <3>6 DEF NoticeSound
    <3> QED
      BY <1>c, <3>3, <3>7
  <2> QED
    BY <2>6, <2>7
<1>3. ASSUME NEW n \in Readers, RefreshApply(n) PROVE NoticesSound'
  <2>1. PICK m : m = notices[n]
    OBVIOUS
  <2>2. m.at = "apply" /\ \E x, y : notices' = [notices EXCEPT ![n].at = "patch",
                                    ![n].touched = x, ![n].reordered = y]
    BY <1>3, <2>1 DEF RefreshApply
  <2>3. PICK x, y : notices' = [notices EXCEPT ![n].at = "patch",
                                    ![n].touched = x, ![n].reordered = y]
    BY <2>2
  <2>4. PICK new : new = [m EXCEPT !.at = "patch", !.touched = x, !.reordered = y]
    OBVIOUS
  <2>5. notices' = [notices EXCEPT ![n] = new]
    BY <1>0, <2>1, <2>3, <2>4 DEF NoticesSound
  <2>6. /\ DOMAIN m = NoticeFields /\ m.full \in BOOLEAN /\ m.keys \subseteq Objects
        /\ \A u \in m.todo : u = <<u[1], u[2]>> /\ u[1] \in Views /\ Made(u[2], u[1])'
        /\ m.view \in Views /\ Made(m.id, m.view)'
    BY <1>m, <2>1, <2>2
  <2>7. /\ DOMAIN new = NoticeFields /\ new.at = "patch"
        /\ new.full = m.full /\ new.keys = m.keys
        /\ new.todo = m.todo /\ new.view = m.view /\ new.id = m.id
    BY <2>4, <2>6 DEF NoticeFields
  <2>8. NoticeSound(new)'
    BY <2>6, <2>7 DEF NoticeSound
  <2> QED
    BY <1>c, <2>5, <2>8
<1>4. ASSUME NEW n \in Readers, MakePatch(n) PROVE NoticesSound'
  <2>1. PICK m : m = notices[n]
    OBVIOUS
  <2>2. m.at = "patch"
        /\ \/ \E d : notices' = [notices EXCEPT ![n] = [m EXCEPT !.at = "emit", !.delta = d]]
           \/ notices' = [notices EXCEPT ![n] = Onward(m)]
    BY <1>4, <2>1 DEF MakePatch
  <2>3. /\ DOMAIN m = NoticeFields /\ m.full \in BOOLEAN /\ m.keys \subseteq Objects
        /\ \A u \in m.todo : u = <<u[1], u[2]>> /\ u[1] \in Views /\ Made(u[2], u[1])'
        /\ m.view \in Views /\ Made(m.id, m.view)'
    BY <1>m, <2>1, <2>2
  <2>4. ASSUME NEW d, notices' = [notices EXCEPT ![n] = [m EXCEPT !.at = "emit", !.delta = d]]
        PROVE  NoticesSound'
    <3>1. PICK new : new = [m EXCEPT !.at = "emit", !.delta = d]
      OBVIOUS
    <3>2. /\ DOMAIN new = NoticeFields /\ new.at = "emit"
          /\ new.full = m.full /\ new.keys = m.keys
          /\ new.todo = m.todo /\ new.view = m.view /\ new.id = m.id
      BY <2>3, <3>1 DEF NoticeFields
    <3>3. NoticeSound(new)'
      BY <2>3, <3>2 DEF NoticeSound
    <3> QED
      BY <1>c, <2>4, <3>1, <3>3
  <2>5. CASE notices' = [notices EXCEPT ![n] = Onward(m)]
    <3>1. PICK new : new = Onward(m)
      OBVIOUS
    <3>2. NoticeSound(Onward(m))'
      BY <2>3, OnwardIsSound
    <3> QED
      BY <1>c, <2>5, <3>1, <3>2
  <2> QED
    BY <2>2, <2>4, <2>5
<1>5. ASSUME NEW n \in Readers, Emit(n) PROVE NoticesSound'
  <2>1. PICK m : m = notices[n]
    OBVIOUS
  <2>2. m.at = "emit" /\ notices' = [notices EXCEPT ![n] = Onward(m)]
    BY <1>0, <1>5, <2>1 DEF Emit, NoticesSound
  <2>3. /\ DOMAIN m = NoticeFields /\ m.full \in BOOLEAN /\ m.keys \subseteq Objects
        /\ \A u \in m.todo : u = <<u[1], u[2]>> /\ u[1] \in Views /\ Made(u[2], u[1])'
    BY <1>m, <2>1, <2>2
  <2>4. NoticeSound(Onward(m))'
    BY <2>3, OnwardIsSound
  <2>5. PICK new : new = Onward(m)
    OBVIOUS
  <2> QED
    BY <1>c, <2>2, <2>4, <2>5
<1>6. CASE Load \/ More \/ Receive \/ ApplyPatch \/ ListRead \/ ListSubscribe \/ ListEnsure
           \/ ListReplace \/ ListPage \/ ListFails \/ Forget
  BY <1>b, <1>6 DEF Load, More, Receive, ApplyPatch, ListRead, ListSubscribe, ListEnsure,
                    ListReplace, ListPage, ListFails, Forget
<1>7. ASSUME UNCHANGED <<notices, tableVars, windowVars, forgets, history>>
      PROVE  NoticesSound'
  BY <1>b, <1>7
<1> QED
  BY <1>1, <1>2, <1>3, <1>4, <1>5, <1>6, <1>7 DEF Next, HubStep

-----------------------------------------------------------------------------
(* The hub through every step *)

\* An event of an informer only adds to what the window of its key gathers.
LEMMA ScheduleKeepsTypes ==
  ASSUME HubTypes, NEW k \in Keys, NEW e \in Objects \cup {Everything}, Schedule(k, e)
  PROVE  /\ pending' \in [Keys -> {Nothing} \cup Changes]
         /\ ~closed => \A o \in Objects : e \in {o, Everything} =>
                         pending'[k] # Nothing /\ Names(pending'[k], o)
         /\ \A j \in Keys, o \in Objects : pending[j] # Nothing /\ Names(pending[j], o)
              => pending'[j] # Nothing /\ Names(pending'[j], o)
<1> DEFINE new == Accumulated(pending[k], e)
<1>1. pending \in [Keys -> {Nothing} \cup Changes] /\ closed \in BOOLEAN
  BY DEF HubTypes
<1>2. /\ new \in Changes /\ new # Nothing
      /\ e = Everything => new.full
      /\ e # Everything => Names(new, e)
      /\ \A o \in Objects : pending[k] # Nothing /\ Names(pending[k], o) => Names(new, o)
  BY <1>1, AccumulatedNames
<1>3. CASE closed
  <2>1. pending' = pending
    BY <1>3 DEF Schedule
  <2> QED
    BY <1>1, <1>3, <2>1
<1>4. CASE ~closed
  <2>1. pending' = [pending EXCEPT ![k] = new]
    BY <1>4 DEF Schedule
  <2> HIDE DEF new
  <2>2. pending'[k] = new /\ \A j \in Keys \ {k} : pending'[j] = pending[j]
    BY <1>1, <2>1
  <2>3. pending' \in [Keys -> {Nothing} \cup Changes]
    BY <1>1, <1>2, <2>1
  <2>4. \A o \in Objects : e \in {o, Everything} => Names(new, o)
    BY <1>2 DEF Names
  <2>5. \A j \in Keys, o \in Objects : pending[j] # Nothing /\ Names(pending[j], o)
          => pending'[j] # Nothing /\ Names(pending'[j], o)
    <3> SUFFICES ASSUME NEW j \in Keys, NEW o \in Objects,
                        pending[j] # Nothing, Names(pending[j], o)
                 PROVE  pending'[j] # Nothing /\ Names(pending'[j], o)
      OBVIOUS
    <3>1. CASE j = k
      BY <1>2, <2>2, <3>1
    <3>2. CASE j # k
      BY <2>2, <3>2
    <3> QED
      BY <3>1, <3>2
  <2> QED
    BY <1>2, <2>2, <2>3, <2>4, <2>5
<1> QED
  BY <1>3, <1>4

LEMMA SameBudget ==
  ASSUME WithinBudget, UNCHANGED <<watches, older>>
  PROVE  WithinBudget'
<1>1. watches' = watches /\ older' = older
  OBVIOUS
<1>2. Cardinality(watches)' = Cardinality(watches)
  BY <1>1
<1>3. InOrderOfUse'
  <2>1. InOrderOfUse
    BY DEF WithinBudget
  <2>2. older' \subseteq watches' \X watches'
    BY <1>1, <2>1 DEF InOrderOfUse
  <2> QED
    BY <1>1, <2>1, <2>2 DEF InOrderOfUse
<1>4. (\A k \in watches : ~Scoped(k) /\ k.ns # "" => Wide(k) \notin watches)'
  BY <1>1 DEF WithinBudget
<1>5. Cardinality(watches)' <= Budget
  BY <1>2 DEF WithinBudget
<1> QED
  BY <1>3, <1>4, <1>5 DEF WithinBudget

\* The hub keeps its budget and its order of use through every step.
LEMMA NextHub ==
  ASSUME HubInv, SoundInv, Next
  PROVE  HubInv'
<1>0. HubTypes /\ WithinBudget
  BY DEF HubInv
<1>a. ASSUME UNCHANGED <<watches, older>> PROVE WithinBudget'
  BY <1>0, <1>a, SameBudget
<1>b. ASSUME UNCHANGED <<hub, server, behind, cache>> PROVE HubInv'
  BY <1>0, <1>a, <1>b DEF HubInv, HubTypes, hub
<1>c. ASSUME NEW u, Reads(u), UNCHANGED <<closed, pending, server, behind>>
      PROVE  HubInv'
  <2>1. WithinBudget'
    BY <1>0, <1>c, ReadKeepsBudget
  <2>2. HubTypes'
    BY <1>0, <1>c DEF HubTypes, Reads
  <2> QED
    BY <2>1, <2>2 DEF HubInv
<1>d. ASSUME NEW k \in Keys, Starts(k), UNCHANGED <<closed, pending, server, behind>>
      PROVE  HubInv'
  <2>1. /\ WithinBudget' /\ IsFiniteSet(watches')
        /\ watches' \subseteq Keys /\ synced' \subseteq watches'
    BY <1>d, StartKeepsBudget
  <2>2. cache' \in [Keys -> Rows]
    <3>1. [o \in Objects |-> Absent] \in Rows
      BY DEF Rows
    <3>2. cache' = [cache EXCEPT ![k] = [o \in Objects |-> Absent]]
      BY <1>d DEF Starts
    <3> QED
      BY <1>0, <3>1, <3>2 DEF HubTypes
  <2>3. HubTypes'
    BY <1>0, <1>d, <2>1, <2>2 DEF HubTypes
  <2> QED
    BY <2>1, <2>3 DEF HubInv
<1>e. ASSUME NEW gone, StopAll(gone), closed' \in BOOLEAN,
             pending' \in [Keys -> {Nothing} \cup Changes],
             UNCHANGED <<server, behind, cache>>
      PROVE  HubInv'
  <2>1. /\ WithinBudget' /\ IsFiniteSet(watches')
        /\ watches' \subseteq Keys /\ synced' \subseteq watches'
    BY <1>e, StopKeepsBudget
  <2>2. HubTypes'
    BY <1>0, <1>e, <2>1 DEF HubTypes
  <2> QED
    BY <2>1, <2>2 DEF HubInv
<1>1. ASSUME NEW k \in Keys, Sync(k) PROVE HubInv'
  <2>1. pending' \in [Keys -> {Nothing} \cup Changes]
    BY <1>0, <1>1, ScheduleKeepsTypes DEF Sync
  <2>2. Visible(k, server) \in Rows
    BY <1>0, VisibleIsRows DEF HubTypes
  <2>3. cache' \in [Keys -> Rows] /\ behind' \in [Keys -> SUBSET Objects]
    BY <1>0, <1>1, <2>2 DEF Sync, HubTypes
  <2>4. /\ synced' \subseteq watches'
        /\ UNCHANGED <<closed, watches, older, server>>
    BY <1>0, <1>1 DEF Sync, HubTypes
  <2>5. HubTypes'
    BY <1>0, <2>1, <2>3, <2>4 DEF HubTypes
  <2> QED
    BY <1>a, <2>4, <2>5 DEF HubInv
<1>2. ASSUME NEW k \in Keys, Observe(k) PROVE HubInv'
  <2>1. PICK o \in behind[k] :
          /\ behind' = [behind EXCEPT ![k] = @ \ {o}]
          /\ cache' = [cache EXCEPT ![k][o] = server[o]]
          /\ Schedule(k, o)
          /\ UNCHANGED <<closed, watches, synced, older, server, moves>>
    BY <1>2 DEF Observe
  <2>2. o \in Objects
    BY <1>0 DEF HubTypes
  <2>3. pending' \in [Keys -> {Nothing} \cup Changes]
    BY <1>0, <2>1, <2>2, ScheduleKeepsTypes
  <2>4. cache' \in [Keys -> Rows]
    <3>1. cache[k] \in Rows /\ server[o] \in Cells \cup {Absent}
      BY <1>0, <2>2 DEF HubTypes, Rows
    <3>2. [cache[k] EXCEPT ![o] = server[o]] \in Rows
      BY <3>1 DEF Rows
    <3>3. cache' = [cache EXCEPT ![k] = [cache[k] EXCEPT ![o] = server[o]]]
      BY <2>1
    <3> QED
      BY <1>0, <3>2, <3>3 DEF HubTypes
  <2>5. behind' \in [Keys -> SUBSET Objects]
    BY <1>0, <2>1 DEF HubTypes
  <2>6. HubTypes'
    BY <1>0, <2>1, <2>3, <2>4, <2>5 DEF HubTypes
  <2> QED
    BY <1>a, <2>1, <2>6 DEF HubInv
<1>3. CASE Close
  <2>1. StopAll(watches) /\ closed' \in BOOLEAN /\ UNCHANGED <<server, behind, cache>>
    BY <1>3 DEF Close, world
  <2>2. pending' \in [Keys -> {Nothing} \cup Changes]
    BY <1>3 DEF Close
  <2> QED
    BY <1>e, <2>1, <2>2
<1>4. CASE StopNamespace \/ SweepIdle
  <2>1. \E gone : StopAll(gone)
    BY <1>4 DEF StopNamespace, SweepIdle
  <2>2. UNCHANGED <<closed, pending, server, behind, cache>>
    BY <1>4 DEF StopNamespace, SweepIdle, Stopped
  <2>3. closed' \in BOOLEAN /\ pending' \in [Keys -> {Nothing} \cup Changes]
    BY <1>0, <2>2 DEF HubTypes
  <2> QED
    BY <1>e, <2>1, <2>2, <2>3
<1>5. CASE Write
  <2>1. PICK o \in Objects, c \in Cells \cup {Absent} :
          /\ server' = [server EXCEPT ![o] = c]
          /\ behind' = [k \in Keys |-> IF k \in synced /\ Covers(k, o)
                                      THEN behind[k] \cup {o} ELSE behind[k]]
          /\ UNCHANGED <<hub, cache>>
    BY <1>5 DEF Write
  <2>2. server' \in Rows
    BY <1>0, <2>1 DEF HubTypes, Rows
  <2>3. behind' \in [Keys -> SUBSET Objects]
    BY <1>0, <2>1 DEF HubTypes
  <2>4. HubTypes'
    BY <1>0, <2>1, <2>2, <2>3 DEF HubTypes, hub
  <2>5. UNCHANGED <<watches, older>>
    BY <2>1 DEF hub
  <2> QED
    BY <1>a, <2>4, <2>5 DEF HubInv
<1>6. CASE Load \/ More \/ Receive \/ ApplyPatch \/ ListEnsure \/ ListReplace \/ ListPage
           \/ ListFails \/ Forget
  BY <1>b, <1>6 DEF Load, More, Receive, ApplyPatch, ListEnsure, ListReplace, ListPage,
                    ListFails, Forget, world
<1>7. CASE ListRead
  <2>1. PICK r \in requests :
          IF Warm(r.view) # {} THEN older' = Touched(Existing(r.view)) ELSE UNCHANGED older
    BY <1>7 DEF ListRead
  <2>2. UNCHANGED <<closed, watches, synced, pending, server, behind, cache>>
    BY <1>7 DEF ListRead, world
  <2>3. CASE Warm(r.view) # {}
    <3>1. Reads(Existing(r.view))
      BY <1>0, <2>1, <2>2, <2>3, WarmExists DEF Reads, HubTypes
    <3> QED
      BY <1>c, <2>2, <3>1
  <2>4. CASE Warm(r.view) = {}
    BY <1>b, <2>1, <2>2, <2>4 DEF hub
  <2> QED
    BY <2>3, <2>4
<1>8. CASE ListSubscribe
  <2>1. PICK r \in requests : Ensure(r.view)
    BY <1>8 DEF ListSubscribe
  <2>2. UNCHANGED <<closed, pending, server, behind>>
    BY <1>8 DEF ListSubscribe, world
  <2>3. r.view \in Keys
    BY TableAssumption DEF SoundInv, RequestsSound, RequestSound
  <2>4. \/ UNCHANGED <<watches, synced, older, cache>>
        \/ \E u \in watches : Reads(u)
        \/ Starts(r.view)
    BY <2>1, EnsureSteps
  <2> QED
    BY <1>b, <1>c, <1>d, <2>2, <2>3, <2>4 DEF hub
<1>9. ASSUME NEW n \in Readers, Notify(n) PROVE HubInv'
  <2>1. PICK k \in Keys : pending' = [pending EXCEPT ![k] = Nothing]
    BY <1>9 DEF Notify, Flush
  <2>2. UNCHANGED <<closed, watches, synced, older, cache, server, behind>>
    BY <1>9 DEF Notify, Flush, world
  <2>3. pending' \in [Keys -> {Nothing} \cup Changes]
    BY <1>0, <2>1 DEF HubTypes
  <2>4. HubTypes'
    BY <1>0, <2>2, <2>3 DEF HubTypes
  <2> QED
    BY <1>a, <2>2, <2>4 DEF HubInv
<1>10. ASSUME NEW n \in Readers, RefreshRead(n) PROVE HubInv'
  <2>1. PICK t \in notices[n].todo :
          IF closed \/ Warm(t[1]) = {} THEN UNCHANGED older
          ELSE older' = Touched(Existing(t[1]))
    BY <1>10 DEF RefreshRead
  <2>2. UNCHANGED <<closed, watches, synced, pending, server, behind, cache>>
    BY <1>10 DEF RefreshRead, world
  <2>3. CASE closed \/ Warm(t[1]) = {}
    BY <1>b, <2>1, <2>2, <2>3 DEF hub
  <2>4. CASE ~(closed \/ Warm(t[1]) = {})
    <3>1. Reads(Existing(t[1]))
      BY <1>0, <2>1, <2>2, <2>4, WarmExists DEF Reads, HubTypes
    <3> QED
      BY <1>c, <2>2, <3>1
  <2> QED
    BY <2>3, <2>4
<1>11. ASSUME NEW n \in Readers, RefreshApply(n) \/ MakePatch(n) \/ Emit(n) PROVE HubInv'
  BY <1>b, <1>11 DEF RefreshApply, MakePatch, Emit, world
<1> QED
  BY <1>1, <1>2, <1>3, <1>4, <1>5, <1>6, <1>7, <1>8, <1>9, <1>10, <1>11 DEF Next, HubStep

-----------------------------------------------------------------------------
(* The cache of a watch *)

\* A synced watch holds what the server holds, but for the objects whose event
\* it has yet to see; and it has yet to see events only of what it covers.
CacheTracks ==
  /\ \A k \in Keys : \A o \in behind[k] : Covers(k, o)
  /\ \A k \in synced : \A o \in Objects \ behind[k] : cache[k][o] = Visible(k, server)[o]

LEMMA NextCache ==
  ASSUME HubInv, SoundInv, CacheTracks, Next
  PROVE  CacheTracks'
<1>0. HubTypes
  BY DEF HubInv
<1>a. ASSUME UNCHANGED <<server, behind, cache>>, synced' \subseteq synced
      PROVE  CacheTracks'
  BY <1>a DEF CacheTracks, Visible
<1>b. ASSUME UNCHANGED <<hub, server, behind, cache>> PROVE CacheTracks'
  BY <1>a, <1>b DEF hub
<1>1. ASSUME NEW k \in Keys, Sync(k) PROVE CacheTracks'
  <2>1. /\ synced' = synced \cup {k} /\ server' = server
        /\ cache' = [cache EXCEPT ![k] = Visible(k, server)]
        /\ behind' = [behind EXCEPT ![k] = {}]
    BY <1>1 DEF Sync
  <2>2. /\ cache'[k] = Visible(k, server) /\ behind'[k] = {}
        /\ \A j \in Keys \ {k} : cache'[j] = cache[j] /\ behind'[j] = behind[j]
    BY <1>0, <2>1 DEF HubTypes
  <2>3. \A j \in Keys : \A o \in behind'[j] : Covers(j, o)
    BY <2>2 DEF CacheTracks
  <2>4. \A j \in Keys : Visible(j, server)' = Visible(j, server)
    BY <2>1 DEF Visible
  <2>5. synced \subseteq Keys
    BY <1>0 DEF HubTypes
  <2>6. ASSUME NEW j \in synced', NEW o \in Objects \ behind'[j]
        PROVE  cache'[j][o] = Visible(j, server)'[o]
    <3>1. CASE j = k
      BY <2>2, <2>4, <3>1
    <3>2. CASE j # k
      <4>1. j \in synced /\ j \in Keys
        BY <2>1, <2>5, <3>2
      <4>2. cache[j][o] = Visible(j, server)[o]
        BY <2>2, <2>6, <3>2, <4>1 DEF CacheTracks
      <4> QED
        BY <2>2, <2>4, <3>2, <4>1, <4>2
    <3> QED
      BY <3>1, <3>2
  <2> QED
    BY <2>3, <2>6 DEF CacheTracks
<1>2. ASSUME NEW k \in Keys, Observe(k) PROVE CacheTracks'
  <2>1. PICK x \in behind[k] :
          /\ behind' = [behind EXCEPT ![k] = @ \ {x}]
          /\ cache' = [cache EXCEPT ![k][x] = server[x]]
          /\ synced' = synced /\ server' = server
    BY <1>2 DEF Observe
  <2>2. /\ behind'[k] = behind[k] \ {x}
        /\ \A j \in Keys \ {k} : cache'[j] = cache[j] /\ behind'[j] = behind[j]
    BY <1>0, <2>1 DEF HubTypes
  <2>3. cache'[k][x] = server[x] /\ \A o \in Objects \ {x} : cache'[k][o] = cache[k][o]
    <3>1. cache[k] \in Rows /\ x \in Objects
      BY <1>0 DEF HubTypes
    <3>2. DOMAIN cache = Keys /\ DOMAIN cache[k] = Objects
      BY <1>0, <3>1 DEF HubTypes, Rows
    <3> QED
      BY <2>1, <3>1, <3>2
  <2>4. \A j \in Keys : \A o \in behind'[j] : Covers(j, o)
    BY <2>2 DEF CacheTracks
  <2>5. \A j \in Keys : Visible(j, server)' = Visible(j, server)
    BY <2>1 DEF Visible
  <2>6. synced \subseteq Keys
    BY <1>0 DEF HubTypes
  <2>7. ASSUME NEW j \in synced', NEW o \in Objects \ behind'[j]
        PROVE  cache'[j][o] = Visible(j, server)'[o]
    <3>0. j \in synced /\ j \in Keys
      BY <2>1, <2>6
    <3>1. CASE j = k /\ o = x
      <4>1. Covers(k, x)
        BY DEF CacheTracks
      <4>2. Visible(k, server)[x] = server[x]
        BY <3>1, <4>1 DEF Visible
      <4> QED
        BY <2>3, <2>5, <3>1, <4>2
    <3>2. CASE j = k /\ o # x
      <4>1. cache[j][o] = Visible(j, server)[o]
        BY <2>2, <2>7, <3>0, <3>2 DEF CacheTracks
      <4> QED
        BY <2>3, <2>5, <3>0, <3>2, <4>1
    <3>3. CASE j # k
      <4>1. cache[j][o] = Visible(j, server)[o]
        BY <2>2, <2>7, <3>0, <3>3 DEF CacheTracks
      <4> QED
        BY <2>2, <2>5, <3>0, <3>3, <4>1
    <3> QED
      BY <3>1, <3>2, <3>3
  <2> QED
    BY <2>4, <2>7 DEF CacheTracks
<1>3. CASE Close \/ StopNamespace \/ SweepIdle
  <2>1. synced' \subseteq synced
    BY <1>3 DEF Close, StopNamespace, SweepIdle, StopAll
  <2>2. UNCHANGED <<server, behind, cache>>
    BY <1>3 DEF Close, StopNamespace, SweepIdle, Stopped, world
  <2> QED
    BY <1>a, <2>1, <2>2
<1>4. CASE Write
  <2>1. PICK x \in Objects, c \in Cells \cup {Absent} :
          /\ server' = [server EXCEPT ![x] = c]
          /\ behind' = [k \in Keys |-> IF k \in synced /\ Covers(k, x)
                                      THEN behind[k] \cup {x} ELSE behind[k]]
          /\ UNCHANGED <<hub, cache>>
    BY <1>4 DEF Write
  <2>2. \A o \in Objects \ {x} : server'[o] = server[o]
    BY <1>0, <2>1 DEF HubTypes, Rows
  <2>3. \A k \in Keys : \A o \in behind'[k] : Covers(k, o)
    BY <2>1 DEF CacheTracks
  <2>4. ASSUME NEW k \in synced', NEW o \in Objects \ behind'[k]
        PROVE  cache'[k][o] = Visible(k, server)'[o]
    <3>1. k \in synced /\ k \in Keys
      BY <1>0, <2>1 DEF hub, HubTypes
    <3>2. o \notin behind[k] /\ (o = x => ~Covers(k, x))
      BY <2>1, <2>4, <3>1
    <3>3. cache[k][o] = Visible(k, server)[o]
      BY <3>1, <3>2 DEF CacheTracks
    <3>4. Visible(k, server)'[o] = Visible(k, server)[o]
      BY <2>2, <3>2 DEF Visible
    <3> QED
      BY <2>1, <3>3, <3>4
  <2> QED
    BY <2>3, <2>4 DEF CacheTracks
<1>5. CASE Load \/ More \/ Receive \/ ApplyPatch \/ ListEnsure \/ ListReplace \/ ListPage
           \/ ListFails \/ Forget
  BY <1>b, <1>5 DEF Load, More, Receive, ApplyPatch, ListEnsure, ListReplace, ListPage,
                    ListFails, Forget, world
<1>6. CASE ListRead
  BY <1>a, <1>6 DEF ListRead, world
<1>7. CASE ListSubscribe
  <2>1. PICK r \in requests : Ensure(r.view)
    BY <1>7 DEF ListSubscribe
  <2>2. UNCHANGED <<server, behind>>
    BY <1>7 DEF ListSubscribe, world
  <2>3. r.view \in Keys
    BY TableAssumption DEF SoundInv, RequestsSound, RequestSound
  <2>4. CASE Starts(r.view)
    <3>1. r.view \notin watches
      BY <2>4 DEF Starts, Reused
    <3>2. r.view \notin synced /\ synced \subseteq Keys
      BY <1>0, <3>1 DEF HubTypes
    <3>3. \A k \in Keys \ {r.view} : cache'[k] = cache[k]
      BY <1>0, <2>3, <2>4 DEF Starts, HubTypes
    <3>4. synced' \subseteq synced
      BY <2>4 DEF Starts
    <3> QED
      BY <2>2, <3>2, <3>3, <3>4 DEF CacheTracks, Visible
  <2>5. CASE \/ UNCHANGED <<watches, synced, older, cache>>
             \/ \E u \in watches : Reads(u)
    <3>1. UNCHANGED <<synced, cache>>
      BY <2>5 DEF Reads
    <3> QED
      BY <1>a, <2>2, <3>1
  <2> QED
    BY <2>1, <2>4, <2>5, EnsureSteps
<1>8. ASSUME NEW n \in Readers, Notify(n) PROVE CacheTracks'
  BY <1>a, <1>8 DEF Notify, Flush, world
<1>9. ASSUME NEW n \in Readers, RefreshRead(n) PROVE CacheTracks'
  BY <1>a, <1>9 DEF RefreshRead, world
<1>10. ASSUME NEW n \in Readers, RefreshApply(n) \/ MakePatch(n) \/ Emit(n) PROVE CacheTracks'
  BY <1>b, <1>10 DEF RefreshApply, MakePatch, Emit, world
<1> QED
  BY <1>1, <1>2, <1>3, <1>4, <1>5, <1>6, <1>7, <1>8, <1>9, <1>10 DEF Next, HubStep

-----------------------------------------------------------------------------
(* A table follows its watch *)

\* A row that a table does not show yet is on its way to it: the watch has yet
\* to see it, the window of the watch names it, a notification that names it
\* has yet to reach the table, or a List is about to fill the table.
Awaited(v, o) == pending[Existing(v)] # Nothing /\ Names(pending[Existing(v)], o)
Carries(m, v, id, o) ==
  /\ m # Idle /\ Names(m, o)
  /\ <<v, id>> \in m.todo \/ (m.at = "apply" /\ m.view = v /\ m.id = id)
Noticed(v, o) == \E n \in Readers : Carries(notices[n], v, tables[v], o)
Filled(v) == \E r \in requests : r.at = "fill" /\ r.view = v /\ r.id = tables[v]
Due(v, o) == o \in behind[Existing(v)] \/ Awaited(v, o) \/ Noticed(v, o) \/ Filled(v)

Live(v) == tables[v] # 0 /\ ~closed /\ v \notin raced /\ Warm(v) # {}
Shown(v, o) == heap[tables[v]].rows[o] = Visible(v, server)[o]
Followed == \A v \in Views : Live(v) => \A o \in Objects : Shown(v, o) \/ Due(v, o)

\* Never two watches answer for one view, so it is the same one while it runs.
LEMMA OneFeeds ==
  ASSUME HubInv, NEW v \in Views, NEW k \in synced, Feeds(k, v)
  PROVE  Warm(v) # {} /\ Existing(v) = k
<1>1. synced \subseteq watches /\ v \in Keys /\ v = [gvr |-> v.gvr, ns |-> v.ns, sel |-> v.sel]
  BY TableAssumption, HubAssumption DEF HubInv, HubTypes
<1>2. k \in Warm(v)
  BY DEF Feeds, Warm
<1>3. CASE k = v
  BY <1>2, <1>3 DEF Existing
<1>4. CASE k # v /\ ~Scoped(v) /\ k = Wide(v)
  <2>1. v.ns # ""
    <3> SUFFICES ASSUME v.ns = "" PROVE FALSE
      OBVIOUS
    <3>1. Wide(v) = v
      BY <1>1, <1>4 DEF Wide, Scoped
    <3> QED
      BY <1>4, <3>1
  <2>2. v \notin watches
    <3>1. Wide(v) \in watches
      BY <1>1, <1>4
    <3> QED
      BY <1>4, <2>1, <3>1 DEF HubInv, WithinBudget
  <2>3. v \notin Warm(v)
    BY <1>1, <2>2 DEF Warm
  <2> QED
    BY <1>2, <1>4, <2>3 DEF Existing
<1> QED
  BY <1>3, <1>4 DEF Feeds

LEMMA SameWatch ==
  ASSUME HubInv, synced' \subseteq synced, NEW v \in Views, (Warm(v) # {})'
  PROVE  Warm(v) # {} /\ Existing(v)' = Existing(v)
<1>1. Existing(v)' \in synced' /\ Feeds(Existing(v)', v)
  BY DEF Warm, Existing, Feeds
<1>2. PICK k : k = Existing(v)'
  OBVIOUS
<1>3. k \in synced /\ Feeds(k, v)
  BY <1>1, <1>2
<1> QED
  BY <1>2, <1>3, OneFeeds

\* A watch that feeds a view holds what the view shows.
LEMMA FedRows ==
  ASSUME NEW v, NEW k, Feeds(k, v), NEW o \in Objects, NEW contents,
         NEW held, held[o] = Visible(k, contents)[o]
  PROVE  Visible(v, held)[o] = Visible(v, contents)[o]
<1>1. Covers(v, o) => Covers(k, o)
  <2>1. CASE k = v
    BY <2>1
  <2>2. CASE k = Wide(v)
    <3>1. k.gvr = v.gvr /\ k.ns = ""
      BY <2>2 DEF Wide
    <3> QED
      BY <3>1 DEF Covers
  <2> QED
    BY <2>1, <2>2 DEF Feeds
<1> QED
  BY <1>1 DEF Visible

\* What holds of a table that a step leaves alone.
LEMMA BeforeTheStep ==
  ASSUME HubInv, Followed, NEW v \in Views, NEW o \in Objects,
         synced' \subseteq synced, closed' = closed, tables'[v] = tables[v],
         v \in raced => v \in raced', Live(v)'
  PROVE  Live(v) /\ Existing(v)' = Existing(v) /\ (Shown(v, o) \/ Due(v, o))
<1>1. Warm(v) # {} /\ Existing(v)' = Existing(v)
  BY SameWatch DEF Live
<1>2. Live(v)
  BY <1>1 DEF Live
<1> QED
  BY <1>1, <1>2 DEF Followed

\* What is on its way to a table stays so when none of its four carriers
\* drops it.
LEMMA StaysDue ==
  ASSUME NEW v \in Views, NEW o \in Objects, Due(v, o),
         Existing(v)' = Existing(v), tables'[v] = tables[v],
         o \in behind[Existing(v)] => o \in behind'[Existing(v)],
         pending[Existing(v)] # Nothing /\ Names(pending[Existing(v)], o)
           => pending'[Existing(v)] # Nothing /\ Names(pending'[Existing(v)], o),
         Noticed(v, o) => Noticed(v, o)',
         \A r \in requests : r.at = "fill" /\ r.view = v /\ r.id = tables[v] => r \in requests'
  PROVE  Due(v, o)'
<1>1. CASE o \in behind[Existing(v)]
  BY <1>1 DEF Due
<1>2. CASE Awaited(v, o)
  <2>1. Awaited(v, o)'
    BY <1>2 DEF Awaited
  <2> QED
    BY <2>1 DEF Due
<1>3. CASE Noticed(v, o)
  BY <1>3 DEF Due
<1>4. CASE Filled(v)
  <2>1. Filled(v)'
    BY <1>4 DEF Filled
  <2> QED
    BY <2>1 DEF Due
<1> QED
  BY <1>1, <1>2, <1>3, <1>4 DEF Due

LEMMA SameNotices ==
  ASSUME notices' = notices, NEW v, NEW o, tables'[v] = tables[v], Noticed(v, o)
  PROVE  Noticed(v, o)'
  BY DEF Noticed

\* A notification that moves on takes its names along.
LEMMA OtherNotices ==
  ASSUME DOMAIN notices = Readers, NEW n \in Readers, NEW new,
         notices' = [notices EXCEPT ![n] = new],
         NEW v, NEW o, tables'[v] = tables[v],
         Carries(notices[n], v, tables[v], o) => Carries(new, v, tables[v], o),
         Noticed(v, o)
  PROVE  Noticed(v, o)'
<1>1. PICK j \in Readers : Carries(notices[j], v, tables[v], o)
  BY DEF Noticed
<1>2. CASE j = n
  <2>1. notices'[n] = new
    OBVIOUS
  <2> QED
    BY <1>1, <1>2, <2>1 DEF Noticed
<1>3. CASE j # n
  <2>1. notices'[j] = notices[j]
    BY <1>3
  <2> QED
    BY <1>1, <2>1 DEF Noticed
<1> QED
  BY <1>2, <1>3

LEMMA OnwardCarries ==
  ASSUME NEW m, DOMAIN m = NoticeFields, NEW v, NEW id, NEW o, Names(m, o), <<v, id>> \in m.todo
  PROVE  Carries(Onward(m), v, id, o)
<1> DEFINE new == [m EXCEPT !.at = "next"]
<1>1. Onward(m) = new
  BY DEF Onward
<1>2. new.at = "next" /\ new.full = m.full /\ new.keys = m.keys /\ new.todo = m.todo
  BY DEF NoticeFields
<1> HIDE DEF new
<1>3. new # Idle
  BY <1>2 DEF Idle
<1> QED
  BY <1>1, <1>2, <1>3 DEF Carries, Names

\* The steps that leave the row, the cluster and the windows of the hub alone.
LEMMA RowStays ==
  ASSUME HubInv, Followed, NEW v \in Views, NEW o \in Objects, Live(v)',
         synced' \subseteq synced, tables'[v] = tables[v], v \in raced => v \in raced',
         UNCHANGED <<closed, server, behind, pending>>,
         heap'[tables[v]].rows[o] = heap[tables[v]].rows[o],
         Noticed(v, o) => Noticed(v, o)',
         \A r \in requests : r.at = "fill" /\ r.view = v /\ r.id = tables[v] => r \in requests'
  PROVE  Shown(v, o)' \/ Due(v, o)'
<1>1. Existing(v)' = Existing(v) /\ (Shown(v, o) \/ Due(v, o))
  BY BeforeTheStep
<1>2. CASE Shown(v, o)
  <2>1. Visible(v, server)' = Visible(v, server)
    BY DEF Visible
  <2> QED
    BY <1>2, <2>1 DEF Shown
<1>3. CASE Due(v, o)
  BY <1>1, <1>3, StaysDue
<1> QED
  BY <1>1, <1>2, <1>3

\* The table of a view that is registered is one of that view.
LEMMA Registered ==
  ASSUME SoundInv, NEW v \in Views, tables[v] # 0
  PROVE  /\ tables[v] \in DOMAIN heap /\ heap[tables[v]].view = v
         /\ DOMAIN heap[tables[v]] = TableFields /\ heap[tables[v]].rows \in Rows
  BY DEF SoundInv, TablesSound, Made

\* List fills the table with what it read, which is what the server holds or
\* is remembered as older; and it keeps what waits for other tables.
LEMMA ListFollows ==
  ASSUME HubInv, SoundInv, Followed, NEW v \in Views, NEW o \in Objects, Live(v)',
         ListRead \/ ListSubscribe \/ ListEnsure \/ ListReplace \/ ListPage \/ ListFails
  PROVE  Shown(v, o)' \/ Due(v, o)'
<1>0. synced \subseteq watches /\ synced \subseteq Keys
  BY DEF HubInv, HubTypes
<1>a. Noticed(v, o) /\ tables'[v] = tables[v] => Noticed(v, o)'
  <2>1. notices' = notices
    BY DEF ListRead, ListSubscribe, ListEnsure, ListReplace, ListPage, ListFails
  <2> QED
    BY <2>1, SameNotices
<1>b. ASSUME NEW r \in requests, NEW new, Step(r, new)
      PROVE  \A x \in requests : x # r => x \in requests'
  BY <1>b DEF Step
<1>1. CASE ListRead
  <2>1. PICK r \in requests : r.at = "read" /\ \E new : Step(r, new)
    BY <1>1 DEF ListRead
  <2>2. \A x \in requests : x.at = "fill" => x \in requests'
    BY <1>b, <2>1
  <2>3. UNCHANGED <<synced, tables, raced, closed, server, behind, pending, heap>>
    BY <1>1 DEF ListRead, world, tableVars, history
  <2> QED
    BY <1>a, <2>2, <2>3, RowStays
<1>2. CASE ListSubscribe
  <2>1. PICK r \in requests : r.at = "subscribe" /\ Ensure(r.view) /\ \E new : Step(r, new)
    BY <1>2 DEF ListSubscribe
  <2>2. \A x \in requests : x.at = "fill" => x \in requests'
    BY <1>b, <2>1
  <2>3. UNCHANGED <<tables, raced, closed, server, behind, pending, heap>>
    BY <1>2 DEF ListSubscribe, world, tableVars, history
  <2>4. synced' \subseteq synced
    BY <2>1, EnsureSteps DEF Reads, Starts
  <2> QED
    BY <1>a, <2>2, <2>3, <2>4, RowStays
<1>3. CASE ListEnsure
  <2>1. PICK r \in requests :
          /\ r.at = "replace"
          /\ heap' = EnsureTable(r.view).heap /\ tables' = EnsureTable(r.view).tables
          /\ Step(r, [r EXCEPT !.at = "fill", !.id = EnsureTable(r.view).id])
    BY <1>3 DEF ListEnsure
  <2>2. RequestSound(r) /\ TablesSound
    BY DEF SoundInv, RequestsSound
  <2>3. /\ \A i \in DOMAIN heap : heap'[i] = heap[i]
        /\ tables'[r.view] = EnsureTable(r.view).id
        /\ \A u \in Views \ {r.view} : tables'[u] \in {0, tables[u]}
    BY <2>1, <2>2, EnsureTableEffect DEF RequestSound
  <2>4. CASE v = r.view
    <3>1. PICK new : new = [r EXCEPT !.at = "fill", !.id = EnsureTable(r.view).id]
      OBVIOUS
    <3>2. new.at = "fill" /\ new.view = v /\ new.id = tables'[v] /\ new \in requests'
      BY <2>1, <2>2, <2>3, <2>4, <3>1 DEF RequestSound, RequestFields, Step
    <3>3. Filled(v)'
      BY <3>2 DEF Filled
    <3> QED
      BY <3>3 DEF Due
  <2>5. CASE v # r.view
    <3>1. tables'[v] = tables[v] /\ tables[v] # 0
      BY <2>3, <2>5 DEF Live
    <3>2. heap'[tables[v]] = heap[tables[v]]
      BY <2>3, <3>1, Registered
    <3>3. UNCHANGED <<synced, raced, closed, server, behind, pending>>
      BY <1>3 DEF ListEnsure, hub, world, history
    <3>4. \A x \in requests : x.at = "fill" => x \in requests'
      BY <1>b, <2>1
    <3> QED
      BY <1>a, <3>1, <3>2, <3>3, <3>4, RowStays
  <2> QED
    BY <2>4, <2>5
<1>4. CASE ListReplace
  <2>1. PICK r \in requests :
          /\ r.at = "fill"
          /\ heap' = [heap EXCEPT ![r.id] = Replace(heap[r.id], r.rows, r.loading)]
          /\ Step(r, [r EXCEPT !.at = "page"])
          /\ raced' = IF r.rows = Visible(r.view, server) THEN raced ELSE raced \cup {r.view}
    BY <1>4 DEF ListReplace
  <2>2. UNCHANGED <<synced, tables, closed, server, behind, pending>>
    BY <1>4 DEF ListReplace, hub, world
  <2>3. Made(r.id, r.view) /\ r.view \in Views
    BY <2>1 DEF SoundInv, RequestsSound, RequestSound
  <2>4. tables[v] # 0
    BY <2>2 DEF Live
  <2>5. CASE r.id = tables[v]
    <3>1. r.view = v /\ DOMAIN heap[r.id] = TableFields /\ r.id \in DOMAIN heap
      BY <2>3, <2>4, <2>5, Registered DEF Made
    <3>2. r.rows = Visible(v, server)
      BY <2>1, <3>1 DEF Live
    <3>3. heap'[r.id] = Replace(heap[r.id], r.rows, r.loading)
      BY <2>1, <3>1
    <3>4. heap'[r.id].rows = r.rows
      BY <3>1, <3>3, ReplaceSetsRows
    <3>5. Visible(v, server)' = Visible(v, server)
      BY <2>2 DEF Visible
    <3>6. heap'[tables'[v]].rows[o] = Visible(v, server)'[o]
      BY <2>2, <2>5, <3>2, <3>4, <3>5
    <3> QED
      BY <3>6 DEF Shown
  <2>6. CASE r.id # tables[v]
    <3>1. heap'[tables[v]] = heap[tables[v]]
      BY <2>1, <2>4, <2>6, Registered
    <3>2. \A x \in requests : x.id = tables[v] => x \in requests'
      BY <1>b, <2>1, <2>6
    <3>3. raced \subseteq raced'
      BY <2>1
    <3> QED
      BY <1>a, <2>2, <3>1, <3>2, <3>3, RowStays
  <2> QED
    BY <2>5, <2>6
<1>5. CASE ListPage
  <2>1. PICK r \in requests :
          /\ r.at = "page"
          /\ heap' = [heap EXCEPT ![r.id] = Page(heap[r.id], r.query, r.token, r.offset).table]
          /\ requests' = requests \ {r}
    BY <1>5 DEF ListPage
  <2>2. UNCHANGED <<synced, tables, raced, closed, server, behind, pending>>
    BY <1>5 DEF ListPage, hub, world
  <2>3. r.id \in DOMAIN heap /\ DOMAIN heap[r.id] = TableFields
    BY <2>1 DEF SoundInv, RequestsSound, RequestSound, TablesSound, Made
  <2>4. SameRows(heap[r.id], Page(heap[r.id], r.query, r.token, r.offset).table)
    BY <2>3, TellingKeepsRows
  <2>5. tables[v] \in DOMAIN heap
    BY <2>2, Registered DEF Live
  <2>6. heap'[tables[v]].rows = heap[tables[v]].rows
    BY <2>1, <2>3, <2>4, <2>5 DEF SameRows
  <2>7. \A x \in requests : x.at = "fill" => x \in requests'
    BY <2>1
  <2> QED
    BY <1>a, <2>2, <2>6, <2>7, RowStays
<1>6. CASE ListFails
  <2>1. \A x \in requests : x.at = "fill" => x \in requests'
    BY <1>6 DEF ListFails
  <2>2. UNCHANGED <<synced, tables, raced, closed, server, behind, pending, heap>>
    BY <1>6 DEF ListFails, hub, world, tableVars
  <2> QED
    BY <1>a, <2>1, <2>2, RowStays
<1> QED
  BY <1>1, <1>2, <1>3, <1>4, <1>5, <1>6

\* A timer hands what its window gathered to a goroutine, which takes it to
\* every table that its watch feeds.
LEMMA NotifyFollows ==
  ASSUME HubInv, SoundInv, Followed, NEW v \in Views, NEW o \in Objects, Live(v)',
         NEW n \in Readers, Notify(n)
  PROVE  Shown(v, o)' \/ Due(v, o)'
<1>0. /\ DOMAIN notices = Readers /\ DOMAIN pending = Keys
      /\ synced \subseteq watches
  BY DEF SoundInv, NoticesSound, HubInv, HubTypes
<1>1. UNCHANGED <<synced, tables, raced, closed, server, behind, heap, requests>>
  BY DEF Notify, Flush, world, tableVars, windowVars, history
<1>2. PICK k \in Keys :
        /\ pending[k] # Nothing /\ pending' = [pending EXCEPT ![k] = Nothing]
        /\ notices[n] = Idle
        /\ notices' = [notices EXCEPT ![n] = Onward(
             [at |-> "next", full |-> pending[k].full, keys |-> pending[k].keys,
              todo |-> {<<u, tables[u]>> : u \in Affected(k)}, view |-> k, source |-> k,
              id |-> 0, fresh |-> Empty, touched |-> {}, reordered |-> FALSE,
              delta |-> Nothing])]
  BY DEF Notify, Flush
<1>3. PICK m :
        m = [at |-> "next", full |-> pending[k].full, keys |-> pending[k].keys,
             todo |-> {<<u, tables[u]>> : u \in Affected(k)}, view |-> k, source |-> k,
             id |-> 0, fresh |-> Empty, touched |-> {}, reordered |-> FALSE,
             delta |-> Nothing]
  OBVIOUS
<1>4. notices' = [notices EXCEPT ![n] = Onward(m)]
  BY <1>2, <1>3
<1>5. Noticed(v, o) => Noticed(v, o)'
  <2>1. ~Carries(notices[n], v, tables[v], o)
    BY <1>2 DEF Carries
  <2> QED
    BY <1>0, <1>1, <1>4, <2>1, OtherNotices
<1>6. /\ Live(v) /\ Existing(v)' = Existing(v) /\ (Shown(v, o) \/ Due(v, o))
  BY <1>1, BeforeTheStep
<1>7. CASE Existing(v) = k /\ Awaited(v, o)
  <2>1. Names(m, o)
    BY <1>3, <1>7 DEF Awaited, Names
  <2>2. Feeds(k, v) /\ tables[v] # 0
    BY <1>6, <1>7, WarmExists DEF Live
  <2>3. v \in Affected(k)
    <3>1. CASE k = v
      BY <2>2, <3>1 DEF Affected
    <3>2. CASE ~Scoped(v) /\ k = Wide(v)
      <4>1. k.gvr = v.gvr /\ k.ns = "" /\ k.sel = v.sel
        BY <3>2 DEF Wide, Scoped
      <4> QED
        BY <2>2, <4>1 DEF Affected
    <3> QED
      BY <2>2, <3>1, <3>2 DEF Feeds
  <2>4. <<v, tables[v]>> \in m.todo /\ DOMAIN m = NoticeFields
    BY <1>3, <2>3 DEF NoticeFields
  <2>5. Carries(Onward(m), v, tables[v], o)
    BY <2>1, <2>4, OnwardCarries
  <2>6. notices'[n] = Onward(m)
    BY <1>0, <1>4
  <2>7. Noticed(v, o)'
    BY <1>1, <2>5, <2>6 DEF Noticed
  <2> QED
    BY <2>7 DEF Due
<1>8. CASE ~(Existing(v) = k /\ Awaited(v, o))
  <2>1. CASE Shown(v, o)
    <3>1. Visible(v, server)' = Visible(v, server)
      BY <1>1 DEF Visible
    <3> QED
      BY <1>1, <2>1, <3>1 DEF Shown
  <2>2. CASE Due(v, o)
    <3>1. pending[Existing(v)] # Nothing /\ Names(pending[Existing(v)], o)
            => pending'[Existing(v)] # Nothing /\ Names(pending'[Existing(v)], o)
      BY <1>0, <1>2, <1>8 DEF Awaited
    <3>2. o \in behind[Existing(v)] => o \in behind'[Existing(v)]
      BY <1>1
    <3>3. \A r \in requests : r \in requests'
      BY <1>1
    <3> QED
      BY <1>1, <1>5, <1>6, <2>2, <3>1, <3>2, <3>3, StaysDue
  <2> QED
    BY <1>6, <2>1, <2>2
<1> QED
  BY <1>7, <1>8

\* refresh reads what the watch holds for the table it has reached, and lets
\* one go that has no warm watch.
LEMMA RefreshReadFollows ==
  ASSUME HubInv, SoundInv, Followed, NEW v \in Views, NEW o \in Objects, Live(v)',
         NEW n \in Readers, RefreshRead(n)
  PROVE  Shown(v, o)' \/ Due(v, o)'
<1>0. DOMAIN notices = Readers /\ NoticeSound(notices[n])
  BY DEF SoundInv, NoticesSound
<1>1. UNCHANGED <<synced, tables, raced, closed, server, behind, heap, requests, pending>>
  BY DEF RefreshRead, world, tableVars, windowVars, history
<1>2. PICK m : m = notices[n]
  OBVIOUS
<1>3. PICK t \in m.todo :
        LET rest == [m EXCEPT !.todo = @ \ {t}]
        IN  IF closed \/ Warm(t[1]) = {}
            THEN notices' = [notices EXCEPT ![n] = Onward(rest)]
            ELSE notices' = [notices EXCEPT ![n] =
                   [rest EXCEPT !.at = "apply", !.view = t[1], !.id = t[2],
                                !.source = Existing(t[1]),
                                !.fresh = Visible(t[1], cache[Existing(t[1])])]]
  BY <1>2 DEF RefreshRead
<1>4. PICK rest : rest = [m EXCEPT !.todo = @ \ {t}]
  OBVIOUS
<1>5. m.at = "next" /\ m # Idle
  BY <1>2 DEF RefreshRead, Idle
<1>6. DOMAIN m = NoticeFields /\ t = <<t[1], t[2]>>
  BY <1>0, <1>2, <1>5 DEF NoticeSound
<1>7. /\ DOMAIN rest = NoticeFields /\ rest.full = m.full /\ rest.keys = m.keys
      /\ rest.todo = m.todo \ {t}
  BY <1>4, <1>6 DEF NoticeFields
<1>8. Live(v)
  BY <1>1, BeforeTheStep
<1>9. Names(m, o) => Names(rest, o)
  BY <1>7 DEF Names
<1>a. ASSUME NEW new, notices' = [notices EXCEPT ![n] = new],
             Carries(m, v, tables[v], o) => Carries(new, v, tables[v], o)
      PROVE  Shown(v, o)' \/ Due(v, o)'
  <2>1. Noticed(v, o) => Noticed(v, o)'
    BY <1>0, <1>1, <1>2, <1>a, OtherNotices
  <2> QED
    BY <1>1, <2>1, RowStays
<1>10. CASE closed \/ Warm(t[1]) = {}
  <2>1. notices' = [notices EXCEPT ![n] = Onward(rest)]
    BY <1>3, <1>4, <1>10
  <2>2. t # <<v, tables[v]>>
    BY <1>6, <1>8, <1>10 DEF Live
  <2>3. Carries(m, v, tables[v], o) => Carries(Onward(rest), v, tables[v], o)
    <3> SUFFICES ASSUME Carries(m, v, tables[v], o)
                 PROVE  Carries(Onward(rest), v, tables[v], o)
      OBVIOUS
    <3>1. <<v, tables[v]>> \in m.todo /\ Names(m, o)
      BY <1>5 DEF Carries
    <3> QED
      BY <1>7, <1>9, <2>2, <3>1, OnwardCarries
  <2> QED
    BY <1>a, <2>1, <2>3
<1>11. CASE ~(closed \/ Warm(t[1]) = {})
  <2>1. PICK source, fresh :
          source = Existing(t[1]) /\ fresh = Visible(t[1], cache[Existing(t[1])])
    OBVIOUS
  <2>2. PICK new : new = [rest EXCEPT !.at = "apply", !.view = t[1], !.id = t[2],
                                      !.source = source, !.fresh = fresh]
    OBVIOUS
  <2>3. notices' = [notices EXCEPT ![n] = new]
    BY <1>3, <1>4, <1>11, <2>1, <2>2
  <2>4. /\ new.at = "apply" /\ new.full = m.full /\ new.keys = m.keys
        /\ new.todo = m.todo \ {t} /\ new.view = t[1] /\ new.id = t[2]
    BY <1>7, <2>2 DEF NoticeFields
  <2>5. new # Idle
    BY <2>4 DEF Idle
  <2>6. Carries(m, v, tables[v], o) => Carries(new, v, tables[v], o)
    BY <1>5, <1>6, <2>4, <2>5 DEF Carries, Names
  <2> QED
    BY <1>a, <2>3, <2>6
<1> QED
  BY <1>10, <1>11

\* A notification writes what the watch still holds, or what it wrote is
\* remembered as older.
LEMMA RefreshApplyFollows ==
  ASSUME HubInv, SoundInv, CacheTracks, Followed,
         NEW v \in Views, NEW o \in Objects, Live(v)',
         NEW n \in Readers, RefreshApply(n)
  PROVE  Shown(v, o)' \/ Due(v, o)'
<1>0. DOMAIN notices = Readers /\ NoticeSound(notices[n])
  BY DEF SoundInv, NoticesSound
<1>1. UNCHANGED <<synced, tables, closed, server, behind, cache, requests, pending>>
  BY DEF RefreshApply, hub, world, windowVars
<1>2. PICK m : m = notices[n]
  OBVIOUS
<1>3. PICK x, y : notices' = [notices EXCEPT ![n].at = "patch",
                                ![n].touched = x, ![n].reordered = y]
  BY DEF RefreshApply
<1>4. PICK new : new = [m EXCEPT !.at = "patch", !.touched = x, !.reordered = y]
  OBVIOUS
<1>5. notices' = [notices EXCEPT ![n] = new]
  BY <1>0, <1>2, <1>3, <1>4
<1>6. m.at = "apply" /\ m # Idle
  BY <1>2 DEF RefreshApply, Idle
<1>7. /\ DOMAIN m = NoticeFields /\ m.keys \subseteq Objects
      /\ m.view \in Views /\ Made(m.id, m.view)
      /\ m.fresh \in Rows /\ Feeds(m.source, m.view)
  BY <1>0, <1>2, <1>6 DEF NoticeSound
<1>8. /\ new.at = "patch" /\ new.full = m.full /\ new.keys = m.keys /\ new.todo = m.todo
  BY <1>4, <1>7 DEF NoticeFields
<1>9. new # Idle
  BY <1>8 DEF Idle
<1> DEFINE u == IF m.full THEN Replace(heap[m.id], m.fresh, FALSE)
                ELSE Apply(heap[m.id], m.fresh, m.keys).table
<1>10. heap' = [heap EXCEPT ![m.id] = u]
  BY <1>2 DEF RefreshApply
<1>11. raced' = IF m.source \notin synced
                   \/ \E p \in (IF m.full THEN Objects ELSE m.keys) :
                        m.fresh[p] # Visible(m.view, cache[m.source])[p]
                THEN raced \cup {m.view}
                ELSE IF m.full /\ m.id = tables[m.view] THEN raced \ {m.view} ELSE raced
  BY <1>2 DEF RefreshApply
<1>12. DOMAIN heap[m.id] = TableFields /\ heap[m.id].rows \in Rows /\ m.id \in DOMAIN heap
  BY <1>7 DEF SoundInv, TablesSound, Made
<1>13. /\ \A p \in Objects : Names(m, p) => u.rows[p] = m.fresh[p]
       /\ \A p \in Objects : ~Names(m, p) => u.rows[p] = heap[m.id].rows[p]
  <2>1. CASE m.full
    <3> DEFINE w == Replace(heap[m.id], m.fresh, FALSE)
    <3>1. w.rows = m.fresh
      BY <1>12 DEF Replace, TableFields
    <3> HIDE DEF w
    <3>2. u = w
      BY <2>1 DEF w
    <3> HIDE DEF u
    <3> QED
      BY <2>1, <3>1, <3>2 DEF Names
  <2>2. CASE ~m.full
    <3> DEFINE w == Apply(heap[m.id], m.fresh, m.keys).table
    <3>1. /\ \A p \in m.keys : w.rows[p] = m.fresh[p]
          /\ \A p \in Objects \ m.keys : w.rows[p] = heap[m.id].rows[p]
      BY <1>7, <1>12, ApplySetsRows
    <3>2. u = w
      BY <2>2
    <3> HIDE DEF u, w
    <3> QED
      BY <1>7, <2>2, <3>1, <3>2 DEF Names
  <2> QED
    BY <2>1, <2>2
<1> HIDE DEF u
<1>14. tables[v] # 0 /\ tables[v] \in DOMAIN heap /\ heap[tables[v]].view = v
  BY <1>1, Registered DEF Live
<1>15. CASE m.id = tables[v] /\ Names(m, o)
  <2>1. m.view = v
    BY <1>7, <1>14, <1>15 DEF Made
  <2>2. o \in (IF m.full THEN Objects ELSE m.keys)
    BY <1>15 DEF Names
  <2>3. m.source \in synced /\ m.fresh[o] = Visible(v, cache[m.source])[o]
    BY <1>11, <2>1, <2>2 DEF Live
  <2>4. Existing(v) = m.source
    BY <1>7, <2>1, <2>3, OneFeeds
  <2>5. heap'[tables[v]].rows[o] = m.fresh[o]
    BY <1>10, <1>12, <1>13, <1>15
  <2>6. CASE o \in behind[m.source]
    <3>1. Existing(v)' = Existing(v)
      BY <1>1, SameWatch DEF Live
    <3>2. o \in behind'[Existing(v)']
      BY <1>1, <2>4, <2>6, <3>1
    <3> QED
      BY <3>2 DEF Due
  <2>7. CASE o \notin behind[m.source]
    <3>1. cache[m.source][o] = Visible(m.source, server)[o]
      BY <2>3, <2>7 DEF CacheTracks
    <3>2. Visible(v, cache[m.source])[o] = Visible(v, server)[o]
      BY <1>7, <2>1, <3>1, FedRows
    <3>3. Visible(v, server)' = Visible(v, server)
      BY <1>1 DEF Visible
    <3>4. heap'[tables'[v]].rows[o] = Visible(v, server)'[o]
      BY <1>1, <2>3, <2>5, <3>2, <3>3
    <3> QED
      BY <3>4 DEF Shown
  <2> QED
    BY <2>6, <2>7
<1>16. CASE ~(m.id = tables[v] /\ Names(m, o))
  <2>1. heap'[tables[v]].rows[o] = heap[tables[v]].rows[o]
    BY <1>10, <1>12, <1>13, <1>14, <1>16
  <2>2. v \in raced => v \in raced'
    <3> SUFFICES ASSUME v \in raced, v \notin raced' PROVE FALSE
      OBVIOUS
    <3>1. m.full /\ m.id = tables[m.view] /\ m.view = v
      BY <1>11
    <3> QED
      BY <1>16, <3>1 DEF Names
  <2>3. Carries(m, v, tables[v], o) => Carries(new, v, tables[v], o)
    BY <1>8, <1>9, <1>16 DEF Carries, Names
  <2>4. Noticed(v, o) => Noticed(v, o)'
    BY <1>0, <1>1, <1>2, <1>5, <2>3, OtherNotices
  <2> QED
    BY <1>1, <2>1, <2>2, <2>4, RowStays
<1> QED
  BY <1>15, <1>16

\* A goroutine that makes and emits its patch keeps the names it still has to
\* take to other tables.
LEMMA EmitFollows ==
  ASSUME HubInv, SoundInv, Followed, NEW v \in Views, NEW o \in Objects, Live(v)',
         NEW n \in Readers, MakePatch(n) \/ Emit(n)
  PROVE  Shown(v, o)' \/ Due(v, o)'
<1>0. DOMAIN notices = Readers /\ NoticeSound(notices[n])
  BY DEF SoundInv, NoticesSound
<1>1. UNCHANGED <<synced, tables, raced, closed, server, behind, requests, pending>>
  BY DEF MakePatch, Emit, hub, world, tableVars, windowVars, history
<1>2. PICK m : m = notices[n]
  OBVIOUS
<1>3. m.at \in {"patch", "emit"} /\ m # Idle
  BY <1>2 DEF MakePatch, Emit, Idle
<1>4. DOMAIN m = NoticeFields /\ Made(m.id, m.view)
  BY <1>0, <1>2, <1>3 DEF NoticeSound
<1>5. tables[v] # 0 /\ tables[v] \in DOMAIN heap
  BY <1>1, Registered DEF Live
<1>6. heap'[tables[v]].rows = heap[tables[v]].rows
  <2>1. CASE MakePatch(n)
    <3>1. heap' = [heap EXCEPT ![m.id] = Patch(heap[m.id], m.touched, m.reordered).table]
      BY <1>2, <2>1 DEF MakePatch
    <3>2. m.id \in DOMAIN heap /\ DOMAIN heap[m.id] = TableFields
      BY <1>4 DEF SoundInv, TablesSound, Made
    <3>3. SameRows(heap[m.id], Patch(heap[m.id], m.touched, m.reordered).table)
      BY <3>2, TellingKeepsRows
    <3> QED
      BY <1>5, <3>1, <3>2, <3>3 DEF SameRows
  <2>2. CASE Emit(n)
    BY <2>2 DEF Emit, tableVars
  <2> QED
    BY <2>1, <2>2
<1>a. ASSUME NEW new, notices' = [notices EXCEPT ![n] = new],
             Carries(m, v, tables[v], o) => Carries(new, v, tables[v], o)
      PROVE  Shown(v, o)' \/ Due(v, o)'
  <2>1. Noticed(v, o) => Noticed(v, o)'
    BY <1>0, <1>1, <1>2, <1>a, OtherNotices
  <2> QED
    BY <1>1, <1>6, <2>1, RowStays
<1>7. Carries(m, v, tables[v], o) => <<v, tables[v]>> \in m.todo /\ Names(m, o)
  BY <1>3 DEF Carries
<1>8. CASE notices' = [notices EXCEPT ![n] = Onward(m)]
  BY <1>a, <1>4, <1>7, <1>8, OnwardCarries
<1>9. ASSUME NEW d, notices' = [notices EXCEPT ![n] = [m EXCEPT !.at = "emit", !.delta = d]]
      PROVE  Shown(v, o)' \/ Due(v, o)'
  <2> DEFINE new == [m EXCEPT !.at = "emit", !.delta = d]
  <2>1. new.at = "emit" /\ new.full = m.full /\ new.keys = m.keys /\ new.todo = m.todo
    BY <1>4 DEF NoticeFields
  <2>2. notices' = [notices EXCEPT ![n] = new]
    BY <1>9
  <2> HIDE DEF new
  <2>3. new # Idle
    BY <2>1 DEF Idle
  <2>4. Carries(m, v, tables[v], o) => Carries(new, v, tables[v], o)
    BY <1>7, <2>1, <2>3 DEF Carries, Names
  <2> QED
    BY <1>a, <2>2, <2>4
<1>10. \/ notices' = [notices EXCEPT ![n] = Onward(m)]
       \/ \E d : notices' = [notices EXCEPT ![n] = [m EXCEPT !.at = "emit", !.delta = d]]
  <2>1. CASE MakePatch(n)
    BY <1>2, <2>1 DEF MakePatch
  <2>2. CASE Emit(n)
    BY <1>0, <1>2, <2>2 DEF Emit
  <2> QED
    BY <2>1, <2>2
<1> QED
  BY <1>8, <1>9, <1>10

\* What the informers and the cluster do reaches a table through the window of
\* its watch; a watch that starts to answer asks for everything.
LEMMA HubFollows ==
  ASSUME HubInv, SoundInv, Followed, NEW v \in Views, NEW o \in Objects, Live(v)',
         UNCHANGED <<notices, tableVars, windowVars, forgets, history>>,
         \/ \E k \in Keys : Sync(k) \/ Observe(k)
         \/ Close \/ StopNamespace \/ SweepIdle \/ Write
  PROVE  Shown(v, o)' \/ Due(v, o)'
<1>0. HubTypes
  BY DEF HubInv
<1>1. /\ UNCHANGED <<notices, heap, tables, requests, raced>>
      /\ Noticed(v, o) => Noticed(v, o)'
  <2>1. UNCHANGED <<notices, heap, tables, requests, raced>>
    BY DEF tableVars, windowVars, history
  <2> QED
    BY <2>1, SameNotices
<1>2. \A k : tables[v] # 0 /\ ~closed' /\ v \notin raced
  BY <1>1 DEF Live
<1>3. ASSUME Live(v), Existing(v)' = Existing(v), UNCHANGED <<server, closed>>,
             o \in behind[Existing(v)] => o \in behind'[Existing(v)] \/ Awaited(v, o)',
             pending[Existing(v)] # Nothing /\ Names(pending[Existing(v)], o)
               => pending'[Existing(v)] # Nothing /\ Names(pending'[Existing(v)], o)
      PROVE  Shown(v, o)' \/ Due(v, o)'
  <2>1. CASE Shown(v, o)
    <3>1. Visible(v, server)' = Visible(v, server)
      BY <1>3 DEF Visible
    <3> QED
      BY <1>1, <2>1, <3>1 DEF Shown
  <2>2. CASE Due(v, o)
    <3>1. CASE Awaited(v, o)'
      BY <3>1 DEF Due
    <3>2. CASE ~Awaited(v, o)'
      BY <1>1, <1>3, <2>2, <3>2, StaysDue
    <3> QED
      BY <3>1, <3>2
  <2> QED
    BY <1>3, <2>1, <2>2 DEF Followed
<1>4. ASSUME NEW k \in Keys, Sync(k) PROVE Shown(v, o)' \/ Due(v, o)'
  <2>1. /\ synced' = synced \cup {k} /\ k \in watches
        /\ behind' = [behind EXCEPT ![k] = {}]
        /\ Schedule(k, Everything) /\ UNCHANGED <<closed, server, watches>>
    BY <1>4 DEF Sync
  <2>2. /\ ~closed => pending'[k] # Nothing /\ Names(pending'[k], o)
        /\ \A j \in Keys, p \in Objects : pending[j] # Nothing /\ Names(pending[j], p)
              => pending'[j] # Nothing /\ Names(pending'[j], p)
    BY <1>0, <2>1, ScheduleKeepsTypes
  <2>3. HubInv'
    <3>1. HubStep(Sync(k))
      BY <1>4 DEF HubStep
    <3>2. Next
      BY <3>1 DEF Next
    <3> QED
      BY <3>2, NextHub
  <2>4. PICK e : e = Existing(v)'
    OBVIOUS
  <2>5. Feeds(e, v) /\ e \in synced'
    <3>1. (Warm(v) # {})'
      BY DEF Live
    <3>2. Existing(v)' \in synced' /\ Feeds(Existing(v)', v)
      BY <3>1 DEF Warm, Existing, Feeds
    <3> QED
      BY <2>4, <3>2
  <2>6. CASE e = k
    <3>1. Awaited(v, o)'
      BY <1>2, <2>1, <2>2, <2>4, <2>6 DEF Awaited
    <3> QED
      BY <3>1 DEF Due
  <2>7. CASE e # k
    <3>1. e \in synced /\ e \in Keys
      BY <1>0, <2>1, <2>5, <2>7 DEF HubTypes
    <3>2. Warm(v) # {} /\ Existing(v) = e
      BY <2>5, <3>1, OneFeeds
    <3>3. Live(v) /\ Existing(v)' = Existing(v)
      BY <1>2, <2>1, <2>4, <3>2 DEF Live
    <3>4. behind'[e] = behind[e]
      BY <1>0, <2>1, <2>7, <3>1 DEF HubTypes
    <3> QED
      BY <1>3, <2>1, <2>2, <3>1, <3>2, <3>3, <3>4
  <2> QED
    BY <2>6, <2>7
<1>5. ASSUME NEW k \in Keys, Observe(k) PROVE Shown(v, o)' \/ Due(v, o)'
  <2>1. PICK x \in behind[k] :
          /\ behind' = [behind EXCEPT ![k] = @ \ {x}]
          /\ Schedule(k, x) /\ UNCHANGED <<closed, synced, server>>
    BY <1>5 DEF Observe
  <2>2. x \in Objects
    BY <1>0 DEF HubTypes
  <2>3. /\ ~closed /\ o = x => pending'[k] # Nothing /\ Names(pending'[k], o)
        /\ \A j \in Keys, p \in Objects : pending[j] # Nothing /\ Names(pending[j], p)
              => pending'[j] # Nothing /\ Names(pending'[j], p)
    BY <1>0, <2>1, <2>2, ScheduleKeepsTypes
  <2>4. Live(v) /\ Existing(v)' = Existing(v)
    BY <1>1, <2>1, BeforeTheStep
  <2>5. Existing(v) \in Keys
    BY <1>0, <2>4, WarmExists DEF Live, HubTypes
  <2>6. o \in behind[Existing(v)] => o \in behind'[Existing(v)] \/ Awaited(v, o)'
    <3>1. CASE Existing(v) = k /\ o = x
      <4>1. Awaited(v, o)'
        BY <1>2, <2>1, <2>3, <2>4, <3>1 DEF Awaited
      <4> QED
        BY <4>1
    <3>2. CASE ~(Existing(v) = k /\ o = x)
      BY <1>0, <2>1, <2>5, <3>2 DEF HubTypes
    <3> QED
      BY <3>1, <3>2
  <2> QED
    BY <1>3, <2>1, <2>3, <2>4, <2>5, <2>6
<1>6. CASE StopNamespace \/ SweepIdle
  <2>1. UNCHANGED <<closed, server, behind, pending>>
    BY <1>6 DEF StopNamespace, SweepIdle, Stopped
  <2>2. synced' \subseteq synced
    BY <1>6 DEF StopNamespace, SweepIdle, StopAll
  <2> QED
    BY <1>1, <2>1, <2>2, RowStays
<1>7. CASE Close
  BY <1>2, <1>7 DEF Close
<1>8. CASE Write
  <2>1. PICK x \in Objects, c \in Cells \cup {Absent} :
          /\ server' = [server EXCEPT ![x] = c]
          /\ behind' = [k \in Keys |-> IF k \in synced /\ Covers(k, x)
                                      THEN behind[k] \cup {x} ELSE behind[k]]
          /\ UNCHANGED <<hub, cache>>
    BY <1>8 DEF Write
  <2>2. UNCHANGED <<closed, synced, pending>>
    BY <2>1 DEF hub
  <2>3. Live(v) /\ Existing(v)' = Existing(v) /\ (Shown(v, o) \/ Due(v, o))
    BY <1>1, <2>2, BeforeTheStep
  <2>4. Existing(v) \in synced /\ Existing(v) \in Keys /\ Feeds(Existing(v), v)
    BY <1>0, <2>3, WarmExists DEF Live, HubTypes
  <2>5. CASE o = x /\ Covers(v, x)
    <3>1. Covers(Existing(v), x)
      <4>1. CASE Existing(v) = v
        BY <2>5, <4>1
      <4>2. CASE Existing(v) = Wide(v)
        <5>1. Existing(v).gvr = v.gvr /\ Existing(v).ns = ""
          BY <4>2, WideFields
        <5> QED
          BY <2>5, <5>1 DEF Covers
      <4> QED
        BY <2>4, <4>1, <4>2 DEF Feeds
    <3>2. o \in behind'[Existing(v)]
      BY <2>1, <2>4, <2>5, <3>1
    <3>3. o \in behind'[Existing(v)']
      BY <2>3, <3>2
    <3> QED
      BY <3>3 DEF Due
  <2>6. CASE ~(o = x /\ Covers(v, x))
    <3>1. Visible(v, server)'[o] = Visible(v, server)[o]
      BY <1>0, <2>1, <2>6 DEF Visible, HubTypes, Rows
    <3>2. CASE Shown(v, o)
      BY <1>1, <3>1, <3>2 DEF Shown
    <3>3. CASE Due(v, o)
      <4>1. o \in behind[Existing(v)] => o \in behind'[Existing(v)]
        BY <2>1, <2>4
      <4> QED
        BY <1>1, <2>2, <2>3, <3>3, <4>1, StaysDue
    <3> QED
      BY <2>3, <3>2, <3>3
  <2> QED
    BY <2>5, <2>6
<1> QED
  BY <1>4, <1>5, <1>6, <1>7, <1>8

LEMMA NextFollows ==
  ASSUME HubInv, SoundInv, CacheTracks, Followed, Next
  PROVE  Followed'
<1> SUFFICES ASSUME NEW v \in Views, Live(v)', NEW o \in Objects
             PROVE  Shown(v, o)' \/ Due(v, o)'
  BY DEF Followed
<1>1. CASE ListRead \/ ListSubscribe \/ ListEnsure \/ ListReplace \/ ListPage \/ ListFails
  BY <1>1, ListFollows
<1>2. CASE Load \/ More \/ Receive \/ ApplyPatch
  <2>1. UNCHANGED <<synced, closed, server, behind, pending, heap, tables, notices, raced>>
    BY <1>2 DEF Load, More, Receive, ApplyPatch, hub, world, tableVars, history
  <2>2. \A r \in requests : r \in requests'
    BY <1>2 DEF Load, More, Receive, ApplyPatch
  <2>3. Noticed(v, o) => Noticed(v, o)'
    BY <2>1, SameNotices
  <2> QED
    BY <2>1, <2>2, <2>3, RowStays
<1>3. CASE Forget
  <2>1. tables'[v] = 0
    BY <1>3 DEF Forget
  <2> QED
    BY <2>1 DEF Live
<1>4. ASSUME NEW n \in Readers, Notify(n) PROVE Shown(v, o)' \/ Due(v, o)'
  BY <1>4, NotifyFollows
<1>5. ASSUME NEW n \in Readers, RefreshRead(n) PROVE Shown(v, o)' \/ Due(v, o)'
  BY <1>5, RefreshReadFollows
<1>6. ASSUME NEW n \in Readers, RefreshApply(n) PROVE Shown(v, o)' \/ Due(v, o)'
  BY <1>6, RefreshApplyFollows
<1>7. ASSUME NEW n \in Readers, MakePatch(n) \/ Emit(n) PROVE Shown(v, o)' \/ Due(v, o)'
  BY <1>7, EmitFollows
<1>8. ASSUME UNCHANGED <<notices, tableVars, windowVars, forgets, history>>,
             \/ \E k \in Keys : Sync(k) \/ Observe(k)
             \/ Close \/ StopNamespace \/ SweepIdle \/ Write
      PROVE  Shown(v, o)' \/ Due(v, o)'
  BY <1>8, HubFollows
<1> QED
  BY <1>1, <1>2, <1>3, <1>4, <1>5, <1>6, <1>7, <1>8 DEF Next, HubStep

-----------------------------------------------------------------------------
(* The theorems *)

TableInv == HubInv /\ SoundInv /\ CacheTracks /\ Followed

LEMMA AtFirst == Init => TableInv
<1> SUFFICES ASSUME Init PROVE TableInv
  OBVIOUS
<1>1. HubTypes
  <2>1. server \in Rows
    BY TableAssumption DEF Init, HubInit, Rows
  <2>2. [o \in Objects |-> Absent] \in Rows
    BY DEF Rows
  <2> QED
    BY <2>1, <2>2, FS_EmptySet DEF Init, HubInit, HubTypes
<1>2. WithinBudget
  <2>1. watches = {} /\ older = {}
    BY DEF Init, HubInit
  <2>2. InOrderOfUse
    BY <2>1 DEF InOrderOfUse
  <2>3. Cardinality(watches) = 0
    BY <2>1, FS_EmptySet
  <2>4. Cardinality(watches) <= Budget
    BY <2>3, HubAssumption
  <2> QED
    BY <2>1, <2>2, <2>4 DEF WithinBudget
<1>3. TablesSound
  <2>1. heap = <<>> /\ tables = [v \in Views |-> 0]
    BY DEF Init
  <2>2. heap \in Seq({heap[i] : i \in DOMAIN heap}) /\ DOMAIN heap = {}
    BY <2>1
  <2> QED
    BY <2>1, <2>2 DEF TablesSound
<1>4. RequestsSound /\ NoticesSound /\ WinSound
  BY DEF Init, RequestsSound, NoticesSound, NoticeSound, WinSound, WinFields, Blank
<1>5. CacheTracks
  BY DEF Init, HubInit, CacheTracks
<1>6. Followed
  BY DEF Init, Followed, Live
<1> QED
  BY <1>1, <1>2, <1>3, <1>4, <1>5, <1>6 DEF TableInv, HubInv, SoundInv

LEMMA InvStays == TableInv /\ [Next]_vars => TableInv'
<1> SUFFICES ASSUME TableInv, [Next]_vars PROVE TableInv'
  OBVIOUS
<1>0. HubInv /\ SoundInv /\ CacheTracks /\ Followed
  BY DEF TableInv
<1>1. CASE Next
  <2>1. HubInv' /\ CacheTracks' /\ Followed'
    BY <1>0, <1>1, NextHub, NextCache, NextFollows
  <2>2. SoundInv'
    BY <1>0, <1>1, NextTables, NextRequests, NextNotices, NextWin DEF SoundInv
  <2> QED
    BY <2>1, <2>2 DEF TableInv
<1>2. CASE UNCHANGED vars
  <2>1. /\ UNCHANGED <<closed, watches, synced, older, pending, server, behind, cache>>
        /\ UNCHANGED <<notices, heap, tables, requests, win, raced>>
    BY <1>2 DEF vars, hub, world, tableVars, windowVars, history
  <2>2. HubTypes'
    BY <1>0, <2>1 DEF HubInv, HubTypes
  <2>3. WithinBudget'
    BY <1>0, <2>1, SameBudget DEF HubInv
  <2>4. \A i, v : Made(i, v) <=> Made(i, v)'
    BY <2>1 DEF Made
  <2>5. TablesSound'
    BY <1>0, <2>1, <2>4 DEF SoundInv, TablesSound
  <2>6. RequestsSound' /\ WinSound'
    BY <1>0, <2>1, <2>4 DEF SoundInv, RequestsSound, RequestSound, WinSound
  <2>7. NoticesSound'
    <3>1. \A m : NoticeSound(m) => NoticeSound(m)'
      BY <2>4, NoticeStays
    <3>2. \A n \in Readers : (\A m : m = notices[n] => NoticeSound(m)')
      BY <1>0, <3>1 DEF SoundInv, NoticesSound
    <3>3. ASSUME NEW n \in Readers PROVE NoticeSound(notices[n])'
      <4>1. PICK m : m = notices[n]
        OBVIOUS
      <4>2. notices'[n] = m /\ NoticeSound(m)'
        BY <2>1, <3>2, <4>1
      <4> QED
        BY <4>2
    <3> QED
      BY <1>0, <2>1, <3>3 DEF SoundInv, NoticesSound
  <2>8. CacheTracks'
    BY <1>0, <2>1 DEF CacheTracks, Visible
  <2>9. Followed'
    <3> SUFFICES ASSUME NEW v \in Views, Live(v)', NEW o \in Objects
                 PROVE  Shown(v, o)' \/ Due(v, o)'
      BY DEF Followed
    <3>1. Noticed(v, o) => Noticed(v, o)'
      BY <2>1, SameNotices
    <3> QED
      BY <1>0, <2>1, <3>1, RowStays
  <2> QED
    BY <2>2, <2>3, <2>5, <2>6, <2>7, <2>8, <2>9 DEF TableInv, HubInv, SoundInv
<1> QED
  BY <1>1, <1>2

LEMMA TableInvariant == Spec => []TableInv
  BY AtFirst, InvStays, PTL DEF Spec

\* However reads, starts, evictions, sweeps and stops of watches interleave, no
\* more than maxWatches run (informer.go Ensure and evictLocked), the order of
\* use ranks exactly those that run, and a namespace is not watched beside the
\* whole cluster.
THEOREM BudgetKept == Spec => []WithinBudget
<1>1. TableInv => WithinBudget
  BY DEF TableInv, HubInv
<1> QED
  BY <1>1, TableInvariant, PTL

\* However loads, notifications, evictions, sweeps and forgets interleave, a
\* table whose watch is warm, and that nothing is about to change, shows what
\* the watch holds, unless older rows were written over it (service.go List,
\* OnResourceChange and refresh; table.go replace and apply).
THEOREM TablesFollow == Spec => []TableFollowsCache
<1>1. TableInv => TableFollowsCache
  <2> SUFFICES ASSUME TableInv, NEW v \in Views,
                      tables[v] # 0, ~closed, v \notin raced, Settled(v),
                      Warm(v) # {}, behind[Existing(v)] = {}
               PROVE  heap[tables[v]].rows = Visible(v, server)
    BY DEF TableFollowsCache
  <2>0. HubInv /\ SoundInv /\ Followed
    BY DEF TableInv
  <2>1. Live(v)
    BY DEF Live
  <2>2. Existing(v) \in synced /\ Feeds(Existing(v), v)
    BY WarmExists
  <2>3. Existing(v) \in Keys /\ Existing(v).gvr = v.gvr
    <3>1. Existing(v) \in Keys
      BY <2>0, <2>2 DEF HubInv, HubTypes
    <3>2. Existing(v).gvr = v.gvr
      BY <2>2, WideFields DEF Feeds
    <3> QED
      BY <3>1, <3>2
  <2>4. \A o \in Objects : ~Due(v, o)
    BY <2>3 DEF Settled, Due, Awaited, Noticed, Carries, Filled
  <2>5. \A o \in Objects : heap[tables[v]].rows[o] = Visible(v, server)[o]
    BY <2>0, <2>1, <2>4 DEF Followed, Shown
  <2>6. heap[tables[v]].rows \in Rows
    BY <2>0, Registered
  <2> QED
    BY <2>5, <2>6 DEF Rows, Visible
<1> QED
  BY <1>1, TableInvariant, PTL

-----------------------------------------------------------------------------
(* The order of a table *)

\* A table is listed without a row that it does not have, and no row twice.
LEMMA OrderedLists ==
  ASSUME NEW q, NEW rows \in Rows
  PROVE  /\ Ordered(q, rows) \in Seq(Objects)
         /\ \A i \in 1..Len(Ordered(q, rows)) : rows[Ordered(q, rows)[i]] # Absent
         /\ \A i, j \in 1..Len(Ordered(q, rows)) :
              Ordered(q, rows)[i] = Ordered(q, rows)[j] => i = j
<1> DEFINE found == {o \in Keyed(rows) : Matches(q, rows[o])}
           earlier == {p \in found \X found : Before(q, rows, p[1], p[2])}
<1>1. found \subseteq Objects /\ \A o \in found : rows[o] # Absent
  BY DEF Keyed
<1>2. IsFiniteSet(found)
  BY <1>1, TableAssumption, FS_Subset
<1>3. \A o \in found : o \in Nat /\ rows[o] \in Nat
  BY <1>1, TableAssumption DEF Rows
<1> DEFINE precedes(x, y) == Before(q, rows, x, y)
<1>4. \A x, y \in found : precedes(x, y) <=> (x # y /\ ~precedes(y, x))
  BY <1>3 DEF Before
<1>5. \A x, y, z \in found : precedes(x, y) /\ precedes(y, z) => precedes(x, z)
  BY <1>3 DEF Before
<1>6. \A x, y \in found : <<x, y>> \in earlier <=> precedes(x, y)
  OBVIOUS
<1> HIDE DEF precedes
<1>7. \A x, y \in found : (<<x, y>> \in earlier) <=> (x # y /\ <<y, x>> \notin earlier)
  <2> HIDE DEF earlier
  <2> QED
    BY <1>4, <1>6
<1>8. \A x, y, z \in found : <<x, y>> \in earlier /\ <<y, z>> \in earlier => <<x, z>> \in earlier
  <2> HIDE DEF earlier
  <2> QED
    BY <1>5, <1>6
<1>9. Ordered(q, rows) = Arranged(found, earlier)
  BY DEF Ordered
<1> HIDE DEF found, earlier
<1> DEFINE n == Cardinality(found)
<1>10. /\ n \in Nat /\ Ordered(q, rows) \in [1..n -> found]
       /\ \A i, j \in 1..n : Ordered(q, rows)[i] = Ordered(q, rows)[j] => i = j
  <2>1. Orders(earlier, found)
    BY <1>7, <1>8 DEF Orders
  <2>2. Numbers(Arranged(found, earlier), found, earlier)
    BY <1>2, <2>1, ArrangedListsAll
  <2> QED
    BY <1>9, <2>2 DEF Numbers
<1> HIDE DEF n
<1>11. Ordered(q, rows) \in Seq(found) /\ Len(Ordered(q, rows)) = n
  BY <1>10
<1> QED
  BY <1>1, <1>10, <1>11

-----------------------------------------------------------------------------
(* What a window shows *)

IsWindow(w, token, view) == DOMAIN w = WinFields /\ w.token = token /\ w.view = view

\* A patch that arrives changes the window when it is one for its table.
Shows(w, d) == IF d.token = w.token /\ d.view = w.view THEN Patched(w, d) ELSE w
Received(w, a) == IF a.offset = 0 THEN Accepted(w, a) ELSE Appended(w, a)

\* What byKey holds once the patch d has been applied.
Held(w, d) ==
  [o \in Objects |-> IF o \in d.removed THEN Absent
                     ELSE IF o \in DOMAIN d.upserts THEN d.upserts[o] ELSE w.shown[o]]

\* What the window is once a patch was applied: the rows the patch puts and
\* drops, in the order it brings if it brings one (resources.ts applyPatch).
LEMMA PatchedFields ==
  ASSUME NEW w, NEW token, NEW view, IsWindow(w, token, view), NEW d
  PROVE  /\ IsWindow(Patched(w, d), token, view)
         /\ Patched(w, d).shown = Held(w, d)
         /\ Patched(w, d).order = IF d.order # <<>>
              THEN Keeping(d.order, {o \in Objects : Held(w, d)[o] # Absent}) ELSE w.order
<1> DEFINE some == Keeping(d.order, {o \in Objects : Held(w, d)[o] # Absent})
<1>1. Patched(w, d) = IF d.order # <<>> THEN [w EXCEPT !.shown = Held(w, d), !.order = some]
                      ELSE [w EXCEPT !.shown = Held(w, d)]
  BY DEF Patched, Held
<1> HIDE DEF some
<1>2. PICK held : held = Held(w, d)
  OBVIOUS
<1>4. CASE d.order # <<>>
  <2>1. Patched(w, d) = [w EXCEPT !.shown = held, !.order = some]
    BY <1>1, <1>2, <1>4
  <2>2. /\ IsWindow(Patched(w, d), token, view)
        /\ Patched(w, d).shown = held /\ Patched(w, d).order = some
    BY <2>1 DEF IsWindow, WinFields
  <2> QED
    BY <1>2, <1>4, <2>2 DEF some
<1>5. CASE d.order = <<>>
  <2>1. Patched(w, d) = [w EXCEPT !.shown = held]
    BY <1>1, <1>2, <1>5
  <2>2. /\ IsWindow(Patched(w, d), token, view)
        /\ Patched(w, d).shown = held /\ Patched(w, d).order = w.order
    BY <2>1 DEF IsWindow, WinFields
  <2> QED
    BY <1>2, <1>5, <2>2
<1> QED
  BY <1>4, <1>5

\* The rows of a page that the window does not hold yet.
Added(w, a) == Keeping(a.order, {o \in Objects : w.shown[o] = Absent})

\* What the window is once an answer was taken: the rows of a first page, or
\* those it had and the new ones after them (resources.ts setOrder).
LEMMA ReceivedFields ==
  ASSUME NEW w, NEW token, NEW view, IsWindow(w, token, view), NEW a
  PROVE  /\ IsWindow(Accepted(w, a), token, view)
         /\ Accepted(w, a).order = a.order
         /\ \A o \in Objects : Accepted(w, a).shown[o] =
              IF o \in Range(a.order) THEN a.rows[o] ELSE Absent
         /\ IsWindow(Appended(w, a), token, view)
         /\ Appended(w, a).order = w.order \o Added(w, a)
         /\ \A o \in Objects : Appended(w, a).shown[o] =
              IF o \in Range(Added(w, a)) THEN a.rows[o] ELSE w.shown[o]
         /\ IsWindow(Received(w, a), token, view)
<1> DEFINE all == [o \in Objects |-> IF o \in Range(a.order) THEN a.rows[o] ELSE Absent]
           more == [o \in Objects |-> IF o \in Range(Added(w, a)) THEN a.rows[o] ELSE w.shown[o]]
<1>2. Accepted(w, a) = [w EXCEPT !.order = a.order, !.shown = all]
  BY DEF Accepted
<1>3. Appended(w, a) = [w EXCEPT !.order = w.order \o Added(w, a), !.shown = more]
  BY DEF Appended, Added, IsWindow, WinFields
<1>4. /\ \A o \in Objects : all[o] = IF o \in Range(a.order) THEN a.rows[o] ELSE Absent
      /\ \A o \in Objects : more[o] = IF o \in Range(Added(w, a)) THEN a.rows[o] ELSE w.shown[o]
  OBVIOUS
<1> HIDE DEF all, more
<1>5. /\ IsWindow(Accepted(w, a), token, view)
      /\ Accepted(w, a).order = a.order /\ Accepted(w, a).shown = all
  BY <1>2 DEF IsWindow, WinFields
<1>6. /\ IsWindow(Appended(w, a), token, view)
      /\ Appended(w, a).order = w.order \o Added(w, a) /\ Appended(w, a).shown = more
  BY <1>3 DEF IsWindow, WinFields
<1>7. IsWindow(Received(w, a), token, view)
  BY <1>5, <1>6 DEF Received
<1> QED
  BY <1>4, <1>5, <1>6, <1>7

\* A window shows the order of a table, and a row exactly of what is in it.
Lists(w, t) ==
  /\ w.order = t.sent
  /\ \A o \in Objects : w.shown[o] # Absent <=> o \in Range(t.sent)

\* What patch leaves in the table and puts into the patch.
LEMMA TellingFields ==
  ASSUME NEW t, DOMAIN t = TableFields, NEW sent,
         NEW upserts, NEW removed, NEW order, NEW matched
  PROVE  LET d == Delta(t, upserts, removed, order, matched)
             u == [Told(t, d) EXCEPT !.sent = sent]
         IN  /\ d.view = t.view /\ d.token = t.token /\ d.removed = removed /\ d.order = order
             /\ d.upserts = [o \in upserts |-> t.rows[o]]
             /\ Told(t, d).sent = t.sent /\ Told(t, d).token = t.token /\ Told(t, d).rows = t.rows
             /\ u.sent = sent /\ u.token = t.token /\ u.rows = t.rows
<1> DEFINE d == Delta(t, upserts, removed, order, matched)
<1>1. /\ d.view = t.view /\ d.token = t.token /\ d.removed = removed /\ d.order = order
      /\ d.upserts = [o \in upserts |-> t.rows[o]]
  BY DEF Delta
<1> HIDE DEF d
<1>2. PICK x : x = Told(t, d)
  OBVIOUS
<1>3. /\ DOMAIN x = TableFields
      /\ x.sent = t.sent /\ x.token = t.token /\ x.rows = t.rows
  BY <1>2 DEF Told, TableFields
<1>4. LET u == [x EXCEPT !.sent = sent]
      IN  u.sent = sent /\ u.token = t.token /\ u.rows = t.rows
  BY <1>3 DEF TableFields
<1> QED
  BY <1>1, <1>2, <1>3, <1>4 DEF d

\* The window of a table: a beginning of its order.
LEMMA PrefixLists ==
  ASSUME NEW order \in Seq(Objects), NEW n \in 0..Len(order)
  PROVE  LET s == SubSeq(order, 1, n)
         IN  /\ s \in Seq(Objects) /\ Len(s) = n
             /\ \A i \in 1..n : s[i] = order[i]
<1>1. \A i \in 1..n : order[i] \in Objects
  OBVIOUS
<1>2. 1 \in Int /\ n \in Int
  OBVIOUS
<1> QED
  BY <1>1, <1>2, SubSeqProperties

-----------------------------------------------------------------------------
(* What a patch tells the window *)

\* What every patch of a table comes to: the window that held the table's order
\* holds it again, with every row that was touched as the table has it; and
\* when nothing is worth sending, nothing needed it.
Tells(t, w, touched, p) ==
  /\ p.table.sent \in Seq(Objects) /\ p.table.token = t.token /\ p.table.rows = t.rows
  /\ p.delta.order \in Seq(Objects)
  /\ p.delta.token = t.token /\ p.delta.view = t.view
  /\ p.worth /\ p.table.sent # <<>> =>
       LET v == Shows(w, p.delta)
       IN  /\ Lists(v, p.table)
           /\ \A o \in Range(p.table.sent) :
                v.shown[o] = t.rows[o] \/ (o \in Range(t.sent) /\ v.shown[o] = w.shown[o])
           /\ \A o \in Range(p.table.sent) : t.rows[o] # Absent /\ o \in touched => v.shown[o] = t.rows[o]
  /\ ~p.worth /\ p.table.sent # <<>> =>
       /\ p.table.sent = t.sent
       /\ \A o \in Range(t.sent) : t.rows[o] # Absent => o \notin touched

\* A patch that leaves the order as it was.
LEMMA InPlaceTells ==
  ASSUME NEW t, DOMAIN t = TableFields, t.rows \in Rows, t.sent \in Seq(Objects), NEW touched,
         NEW w, IsWindow(w, t.token, t.view), Lists(w, t)
  PROVE  Tells(t, w, touched, InPlace(t, touched))
<1> DEFINE moved == touched \cap Range(t.sent) \cap Keyed(t.rows)
           d == Delta(t, moved, {}, <<>>, t.matched)
           p == InPlace(t, touched)
           v == Shows(w, p.delta)
<1>1. p.table = Told(t, d) /\ p.delta = d /\ p.worth = (DOMAIN d.upserts # {} \/ NewCounts(t, d))
  BY DEF InPlace
<1>2. /\ d.view = t.view /\ d.token = t.token /\ d.removed = {} /\ d.order = <<>>
      /\ d.upserts = [o \in moved |-> t.rows[o]]
      /\ Told(t, d).sent = t.sent /\ Told(t, d).token = t.token /\ Told(t, d).rows = t.rows
  <2> HIDE DEF moved
  <2> QED
    BY TellingFields
<1>3. \A o \in Range(t.sent) : o \in Objects
  BY RangeOfSeq
<1>4. \A o \in Objects : o \in moved <=> o \in touched /\ o \in Range(t.sent) /\ t.rows[o] # Absent
  BY DEF Keyed
<1>5. moved \subseteq Objects
  BY <1>3
<1> HIDE DEF d, moved, p
<1>6. /\ p.table.sent = t.sent /\ p.table.token = t.token /\ p.table.rows = t.rows
      /\ p.delta.order = <<>> /\ p.delta.token = t.token /\ p.delta.view = t.view
  BY <1>1, <1>2
<1>7. v = Patched(w, d) /\ v.shown = Held(w, d) /\ v.order = w.order
  <2>1. v = Patched(w, d)
    BY <1>1, <1>2 DEF Shows, IsWindow
  <2>2. /\ Patched(w, d).shown = Held(w, d)
        /\ Patched(w, d).order = IF d.order # <<>>
             THEN Keeping(d.order, {o \in Objects : Held(w, d)[o] # Absent}) ELSE w.order
    BY PatchedFields
  <2> HIDE DEF v
  <2> QED
    BY <1>2, <2>1, <2>2
<1>8. \A o \in Objects : v.shown[o] = IF o \in moved THEN t.rows[o] ELSE w.shown[o]
  BY <1>2, <1>7 DEF Held
<1> HIDE DEF v
<1>9. Lists(v, p.table)
  <2>1. \A o \in Objects : v.shown[o] # Absent <=> o \in Range(t.sent)
    BY <1>4, <1>8 DEF Lists
  <2> QED
    BY <1>6, <1>7, <2>1 DEF Lists
<1>10. \A o \in Range(t.sent) :
         v.shown[o] = t.rows[o] \/ (o \in Range(t.sent) /\ v.shown[o] = w.shown[o])
  BY <1>3, <1>8
<1>11. \A o \in Range(t.sent) : t.rows[o] # Absent /\ o \in touched => v.shown[o] = t.rows[o]
  BY <1>3, <1>4, <1>8
<1>12. ~p.worth => \A o \in Range(t.sent) : t.rows[o] # Absent => o \notin touched
  <2>1. ~p.worth => moved = {}
    BY <1>1, <1>2
  <2> QED
    BY <1>3, <1>4, <2>1
<1>13. <<>> \in Seq(Objects)
  OBVIOUS
<1> QED
  BY <1>6, <1>9, <1>10, <1>11, <1>12, <1>13 DEF Tells, v, p

\* A patch that sorts the table anew.
LEMMA ReorderedTells ==
  ASSUME NEW t, DOMAIN t = TableFields, t.rows \in Rows, t.sent \in Seq(Objects), NEW touched,
         NEW w, IsWindow(w, t.token, t.view), Lists(w, t)
  PROVE  Tells(t, w, touched, Reordered(t, touched))
<1> DEFINE order == Ordered(t.query, t.rows)
           size == IF Len(t.sent) > Len(order) THEN Len(order) ELSE Len(t.sent)
           window == SubSeq(order, 1, size)
           had == Range(t.sent)
           moved == {o \in Range(window) : o \in touched \/ o \notin had}
           lost == had \ Range(window)
           again == IF window = t.sent THEN <<>> ELSE window
           d == Delta(t, moved, lost, again, Len(order))
           p == Reordered(t, touched)
           v == Shows(w, p.delta)
<1>1. /\ p.table = [Told(t, d) EXCEPT !.sent = window] /\ p.delta = d
      /\ p.worth = (\/ DOMAIN d.upserts # {} \/ d.removed # {} \/ window # t.sent
                    \/ NewCounts(t, d))
  BY DEF Reordered
<1>2. /\ d.view = t.view /\ d.token = t.token /\ d.removed = lost /\ d.order = again
      /\ d.upserts = [o \in moved |-> t.rows[o]]
      /\ LET u == [Told(t, d) EXCEPT !.sent = window]
         IN  u.sent = window /\ u.token = t.token /\ u.rows = t.rows
  <2> HIDE DEF moved, lost, again, window
  <2> QED
    BY TellingFields
<1>3. /\ order \in Seq(Objects) /\ \A i \in 1..Len(order) : t.rows[order[i]] # Absent
  BY OrderedLists
<1> HIDE DEF order
<1>4. size \in 0..Len(order)
  OBVIOUS
<1> HIDE DEF size
<1>5. /\ window \in Seq(Objects) /\ Len(window) = size
      /\ \A i \in 1..size : window[i] = order[i]
  BY <1>3, <1>4, PrefixLists
<1> HIDE DEF window
<1>6. Range(window) \subseteq Objects /\ had \subseteq Objects
  BY <1>5, RangeOfSeq
<1>7. \A o \in Range(window) : t.rows[o] # Absent
  <2> SUFFICES ASSUME NEW o \in Range(window) PROVE t.rows[o] # Absent
    OBVIOUS
  <2>1. PICK i \in 1..Len(window) : o = window[i]
    BY <1>5, RangeEquality
  <2> QED
    BY <1>3, <1>4, <1>5, <2>1
<1>8. /\ \A o : o \in moved <=> o \in Range(window) /\ (o \in touched \/ o \notin had)
      /\ \A o : o \in lost <=> o \in had /\ o \notin Range(window)
  OBVIOUS
<1> HIDE DEF d, moved, lost, p
<1>9. /\ p.table.sent = window /\ p.table.token = t.token /\ p.table.rows = t.rows
      /\ p.delta.order = again /\ p.delta.token = t.token /\ p.delta.view = t.view
  BY <1>1, <1>2
<1>10. again \in Seq(Objects)
  BY <1>5
<1>11. /\ v = Patched(w, d) /\ v.shown = Held(w, d)
       /\ v.order = IF again # <<>>
            THEN Keeping(again, {o \in Objects : Held(w, d)[o] # Absent}) ELSE w.order
  <2>1. v = Patched(w, d)
    BY <1>1, <1>2 DEF Shows, IsWindow
  <2> HIDE DEF again
  <2>2. /\ Patched(w, d).shown = Held(w, d)
        /\ Patched(w, d).order = IF d.order # <<>>
             THEN Keeping(d.order, {o \in Objects : Held(w, d)[o] # Absent}) ELSE w.order
    BY PatchedFields
  <2> HIDE DEF v
  <2> QED
    BY <1>2, <2>1, <2>2
<1>12. \A o \in Objects : v.shown[o] = IF o \in lost THEN Absent
                                       ELSE IF o \in moved THEN t.rows[o] ELSE w.shown[o]
  BY <1>2, <1>11 DEF Held
<1>13. \A o \in Objects : v.shown[o] # Absent <=> o \in Range(window)
  <2>1. \A o \in Objects : w.shown[o] # Absent <=> o \in had
    BY DEF Lists
  <2> HIDE DEF v, had
  <2> QED
    BY <1>7, <1>8, <1>12, <2>1
<1>14. ASSUME window # <<>> PROVE v.order = window
  <2>1. CASE window = t.sent
    <3>1. again = <<>>
      BY <2>1
    <3> QED
      BY <1>11, <2>1, <3>1 DEF Lists
  <2>2. CASE window # t.sent
    <3>1. again = window
      BY <2>2
    <3>2. \A i \in 1..Len(window) : window[i] \in {o \in Objects : Held(w, d)[o] # Absent}
      <4> SUFFICES ASSUME NEW i \in 1..Len(window)
                   PROVE  window[i] \in Objects /\ Held(w, d)[window[i]] # Absent
        OBVIOUS
      <4>1. window[i] \in Range(window) /\ window[i] \in Objects
        BY <1>5, RangeEquality
      <4> QED
        BY <1>11, <1>13, <4>1
    <3>3. Keeping(window, {o \in Objects : Held(w, d)[o] # Absent}) = window
      BY <1>5, <3>2, KeepingAll
    <3> QED
      BY <1>11, <1>14, <3>1, <3>3
  <2> QED
    BY <2>1, <2>2
<1>15. \A o \in Range(window) :
         v.shown[o] = t.rows[o] \/ (o \in Range(t.sent) /\ v.shown[o] = w.shown[o])
  <2> HIDE DEF v
  <2> QED
    BY <1>6, <1>8, <1>12
<1>16. \A o \in Range(window) : t.rows[o] # Absent /\ o \in touched => v.shown[o] = t.rows[o]
  <2> HIDE DEF v
  <2> QED
    BY <1>6, <1>8, <1>12
<1>17. ASSUME ~p.worth PROVE window = t.sent /\ \A o \in Range(t.sent) : o \notin touched
  <2>1. DOMAIN d.upserts = {} /\ window = t.sent
    BY <1>1, <1>17
  <2>2. moved = {}
    BY <1>2, <2>1
  <2> QED
    BY <1>8, <2>1, <2>2
<1>18. window # <<>> => Lists(v, p.table)
  BY <1>9, <1>13, <1>14 DEF Lists
<1> HIDE DEF v, again
<1> QED
  BY <1>5, <1>9, <1>10, <1>15, <1>16, <1>17, <1>18 DEF Tells, v, p

-----------------------------------------------------------------------------
(* The accord of the window and its table *)

\* What was asked for, and what is under way, goes by the token of its load.
Own(x) == x.token = win.token
UnderWay(d) == \/ \E i \in 1..Len(wire) : d = wire[i]
               \/ \E n \in Readers : notices[n].at = "emit" /\ d = notices[n].delta

IsList(s) == s \in Seq({s[i] : i \in DOMAIN s})

\* The token of the window is the last one given out, and whatever goes by it
\* is of the window's view.
Known(x) == x.token \in 0..loads /\ (win.token > 0 /\ Own(x) => x.view = win.view)
TokensKnown ==
  /\ loads \in Nat /\ win.token = loads /\ win.order \in Seq(Objects)
  /\ IsList(wire)
  /\ \A r \in requests : Known(r) /\ r.token > 0 /\ r.offset \in Nat
  /\ \A a \in answers : Known(a) /\ a.token > 0 /\ a.order \in Seq(Objects)
  /\ \A i \in DOMAIN heap : Known(heap[i]) /\ heap[i].sent \in Seq(Objects)
  /\ \A d : UnderWay(d) => Known(d) /\ d.order \in Seq(Objects)

\* A load asks for one page at a time.
OneAsked ==
  /\ \A x, y \in requests : Own(x) /\ Own(y) => x = y
  /\ \A x, y \in answers : Own(x) /\ Own(y) => x = y
  /\ \A x \in requests, y \in answers : ~(Own(x) /\ Own(y))

\* Nothing goes by a token before its first page was made.
FirstIsFirst == \A r \in requests : Own(r) /\ r.offset = 0 =>
  /\ \A i \in DOMAIN heap : ~Own(heap[i])
  /\ \A d : UnderWay(d) => ~Own(d)

\* A continuation that would replace the rows has met with a forgotten table.
MoreIsPaging == \A r \in requests : Own(r) /\ r.offset > 0 => r.at = "page" \/ crossed

\* One table goes by the token of the window, and sends what goes by it.
Bears(i) == \/ i \in DOMAIN heap /\ Own(heap[i])
            \/ \E n \in Readers : notices[n].at = "emit" /\ notices[n].id = i /\ Own(notices[n].delta)
OneBearer == ~crossed /\ win.token > 0 => \A i, j : Bears(i) /\ Bears(j) => i = j

\* The table whose page the window shows.
Table == tables[win.view]
Current == /\ win.token > 0 /\ ~crossed /\ Table # 0
           /\ heap[Table].token = win.token /\ heap[Table].sent # <<>>

\* Nothing is under way that is bound to be marked as crossing.
Emits(n) == notices[n].at = "emit" /\ notices[n].id = Table
Undoomed ==
  /\ \A r \in requests : r.at = "page" /\ r.id = Table => Own(r)
  /\ \A m, n \in Readers : Emits(m) /\ Emits(n) => m = n
  /\ \A x \in requests \cup answers : Own(x) /\ x.offset > 0 => \A i \in 1..Len(wire) : ~Own(wire[i])

\* A row that a patch in the making is to mend.
Mended(o) == \E n \in Readers :
  /\ notices[n].at = "patch" /\ notices[n].id = Table
  /\ IF heap[Table].rows[o] = Absent THEN notices[n].reordered ELSE o \in notices[n].touched

\* The windows that come when the answer and then one patch after the other
\* arrive; the last one is what the table takes the window for.
Opens(w) == \/ \E a \in answers : Own(a) /\ w = Received(win, a)
            \/ (\A a \in answers : ~Own(a)) /\ w = win
Arrive(ws) ==
  /\ Opens(ws[1])
  /\ \A i \in 1..(Len(wire) + 1) : IsWindow(ws[i], win.token, win.view)
  /\ \A i \in 1..Len(wire) : ws[i + 1] = Shows(ws[i], wire[i])
Ends(w, f) == \/ \E n \in Readers : Emits(n) /\ w = Shows(f, notices[n].delta)
              \/ (\A n \in Readers : ~Emits(n)) /\ w = f
Follows(w) ==
  /\ IsWindow(w, win.token, win.view) /\ Lists(w, heap[Table])
  /\ \A o \in Range(heap[Table].sent) : w.shown[o] = heap[Table].rows[o] \/ Mended(o)
WindowFollows ==
  Current /\ Undoomed => \E ws, w : Arrive(ws) /\ Ends(w, ws[Len(wire) + 1]) /\ Follows(w)

\* A notice is the same to the table of the window.
SameToTable(n) ==
  \/ notices'[n] = notices[n]
  \/ /\ ~(notices[n].at \in {"patch", "emit"} /\ notices[n].id = Table)
     /\ ~(notices'[n].at \in {"patch", "emit"} /\ notices'[n].id = Table)

\* A step that leaves the window, what is on its way to it, and its table as
\* they are leaves them in accord.
LEMMA SameTable ==
  ASSUME WindowFollows, Current, Undoomed, win' = win, wire' = wire, Table' = Table,
         heap'[Table].sent = heap[Table].sent, heap'[Table].rows = heap[Table].rows,
         \A a : Own(a) => (a \in answers' <=> a \in answers),
         \A n \in Readers : SameToTable(n)
  PROVE  WindowFollows'
<1>1. PICK ws, w : Arrive(ws) /\ Ends(w, ws[Len(wire) + 1]) /\ Follows(w)
  BY DEF WindowFollows
<1>2. Arrive(ws)'
  <2>1. Opens(ws[1])'
    <3>1. CASE \E a \in answers : Own(a) /\ ws[1] = Received(win, a)
      <4>1. PICK a \in answers : Own(a) /\ ws[1] = Received(win, a)
        BY <3>1
      <4>2. a \in answers' /\ Own(a)'
        BY <4>1 DEF Own
      <4> QED
        BY <4>1, <4>2 DEF Opens
    <3>2. CASE (\A a \in answers : ~Own(a)) /\ ws[1] = win
      <4>1. \A a \in answers' : ~Own(a)'
        BY <3>2 DEF Own
      <4> QED
        BY <3>2, <4>1 DEF Opens
    <3> QED
      BY <1>1, <3>1, <3>2 DEF Arrive, Opens
  <2> QED
    BY <1>1, <2>1 DEF Arrive
<1>3. \A n \in Readers : Emits(n)' <=> Emits(n)
  BY DEF Emits, SameToTable
<1>4. \A n \in Readers : Emits(n) => notices'[n] = notices[n]
  BY DEF Emits, SameToTable
<1>5. Ends(w, ws[Len(wire) + 1])'
  <2>1. CASE \E n \in Readers : Emits(n) /\ w = Shows(ws[Len(wire) + 1], notices[n].delta)
    <3>1. PICK n \in Readers : Emits(n) /\ w = Shows(ws[Len(wire) + 1], notices[n].delta)
      BY <2>1
    <3>2. Emits(n)' /\ notices'[n] = notices[n]
      BY <1>3, <1>4, <3>1
    <3> QED
      BY <3>1, <3>2 DEF Ends
  <2>2. CASE (\A n \in Readers : ~Emits(n)) /\ w = ws[Len(wire) + 1]
    BY <1>3, <2>2 DEF Ends
  <2> QED
    BY <1>1, <2>1, <2>2 DEF Ends
<1>6. \A o : Mended(o) => Mended(o)'
  <2> SUFFICES ASSUME NEW o, Mended(o) PROVE Mended(o)'
    OBVIOUS
  <2>1. PICK n \in Readers :
          /\ notices[n].at = "patch" /\ notices[n].id = Table
          /\ IF heap[Table].rows[o] = Absent THEN notices[n].reordered ELSE o \in notices[n].touched
    BY DEF Mended
  <2>2. notices'[n] = notices[n]
    BY <2>1 DEF SameToTable
  <2> QED
    BY <2>1, <2>2 DEF Mended
<1>7. Follows(w)'
  <2>1. IsWindow(w, win.token, win.view)' /\ Lists(w, heap[Table])'
    BY <1>1 DEF Follows, Lists
  <2>2. (\A o \in Range(heap[Table].sent) : w.shown[o] = heap[Table].rows[o] \/ Mended(o))'
    BY <1>1, <1>6 DEF Follows
  <2> QED
    BY <2>1, <2>2 DEF Follows
<1> QED
  BY <1>2, <1>5, <1>7 DEF WindowFollows

-----------------------------------------------------------------------------
(* Steps that are no concern of the window *)

\* What a step may do without disturbing what is known of the tokens.
QuietRequests ==
  \/ requests' = requests
  \/ \E r \in requests : /\ requests' = requests \ {r}
                         /\ r.at # "page" /\ (Own(r) => crossed')
  \/ \E r \in requests : \E next :
       /\ requests' = (requests \ {r}) \cup {next}
       /\ next.token = r.token /\ next.view = r.view /\ next.offset = r.offset
       /\ r.at # "page"
QuietEmits == \A n \in Readers :
  notices'[n] = notices[n] \/ (notices[n].at # "emit" /\ notices'[n].at # "emit")
QuietHeap == \A i \in DOMAIN heap' :
  IF i \in DOMAIN heap
  THEN heap'[i].token = heap[i].token /\ heap'[i].view = heap[i].view /\ heap'[i].sent \in Seq(Objects)
  ELSE heap'[i].token = 0 /\ heap'[i].sent = <<>>

TokenInv == TokensKnown /\ OneAsked /\ FirstIsFirst /\ MoreIsPaging /\ OneBearer

\* A quiet step leaves what is known of the tokens true.
LEMMA QuietTokens ==
  ASSUME TokenInv, UNCHANGED <<win, answers, wire, loads>>, crossed => crossed',
         QuietRequests, QuietEmits, QuietHeap
  PROVE  TokenInv'
<1>a. TokensKnown /\ OneAsked /\ FirstIsFirst /\ MoreIsPaging /\ OneBearer
  BY DEF TokenInv
<1>b. win.token \in Nat
  BY <1>a DEF TokensKnown
<1>1. \A d : UnderWay(d)' => UnderWay(d)
  BY DEF UnderWay, QuietEmits
<1>2. \A x : Own(x)' <=> Own(x)
  BY DEF Own
<1>3. \A x : Known(x) => Known(x)'
  BY DEF Known, Own
<1>4. \A r \in requests' : \E q \in requests :
        /\ r.token = q.token /\ r.view = q.view /\ r.offset = q.offset
        /\ r = q \/ q.at # "page"
  BY DEF QuietRequests
<1>5. TokensKnown'
  <2>1. (\A r \in requests : Known(r) /\ r.token > 0 /\ r.offset \in Nat)'
    <3> SUFFICES ASSUME NEW r \in requests'
                 PROVE  Known(r)' /\ r.token > 0 /\ r.offset \in Nat
      OBVIOUS
    <3>1. PICK q \in requests : r.token = q.token /\ r.view = q.view /\ r.offset = q.offset
      BY <1>4
    <3>2. Known(q) /\ q.token > 0 /\ q.offset \in Nat
      BY <1>a DEF TokensKnown
    <3>3. Known(r)
      BY <3>1, <3>2 DEF Known, Own
    <3> QED
      BY <1>3, <3>1, <3>2, <3>3
  <2>2. (\A i \in DOMAIN heap : Known(heap[i]) /\ heap[i].sent \in Seq(Objects))'
    <3> SUFFICES ASSUME NEW i \in DOMAIN heap'
                 PROVE  Known(heap[i])' /\ heap'[i].sent \in Seq(Objects)
      OBVIOUS
    <3>1. CASE i \in DOMAIN heap
      <4>1. Known(heap[i]) /\ heap[i].sent \in Seq(Objects)
        BY <1>a, <3>1 DEF TokensKnown
      <4> QED
        BY <3>1, <4>1 DEF QuietHeap, Known, Own
    <3>2. CASE i \notin DOMAIN heap
      <4>1. heap'[i].token = 0 /\ heap'[i].sent = <<>>
        BY <3>2 DEF QuietHeap
      <4>2. 0 \in 0..loads
        BY <1>a DEF TokensKnown
      <4> QED
        BY <1>b, <4>1, <4>2 DEF Known, Own
    <3> QED
      BY <3>1, <3>2
  <2>3. (\A a \in answers : Known(a) /\ a.token > 0 /\ a.order \in Seq(Objects))'
    BY <1>a, <1>3 DEF TokensKnown
  <2>4. \A d : UnderWay(d)' => Known(d)' /\ d.order \in Seq(Objects)
    BY <1>a, <1>1, <1>3 DEF TokensKnown
  <2>5. (loads \in Nat /\ win.token = loads /\ win.order \in Seq(Objects)
         /\ IsList(wire))'
    BY <1>a DEF TokensKnown
  <2> QED
    BY <2>1, <2>2, <2>3, <2>4, <2>5 DEF TokensKnown
<1>6. OneAsked'
  <2>1. /\ \A x, y \in requests : Own(x) /\ Own(y) => x = y
        /\ \A x, y \in answers : Own(x) /\ Own(y) => x = y
        /\ \A x \in requests, y \in answers : ~(Own(x) /\ Own(y))
    BY <1>a DEF OneAsked
  <2>2. \A x, y \in requests' : Own(x) /\ Own(y) => x = y
    BY <2>1 DEF QuietRequests, Own
  <2>3. \A x \in requests', y \in answers : ~(Own(x) /\ Own(y))
    BY <2>1 DEF QuietRequests, Own
  <2> QED
    BY <1>2, <2>1, <2>2, <2>3 DEF OneAsked
<1>7. FirstIsFirst'
  <2> SUFFICES ASSUME NEW r \in requests', Own(r)', r.offset = 0
               PROVE  /\ \A i \in DOMAIN heap' : ~Own(heap[i])'
                      /\ \A d : UnderWay(d)' => ~Own(d)'
    BY DEF FirstIsFirst
  <2>1. PICK q \in requests : Own(q) /\ q.offset = 0 /\ q.token > 0
    <3>1. PICK q \in requests : r.token = q.token /\ r.offset = q.offset
      BY <1>4
    <3>2. q.token > 0
      BY <1>a DEF TokensKnown
    <3> QED
      BY <3>1, <3>2 DEF Own
  <2>2. win.token > 0
    BY <2>1 DEF Own
  <2>3. /\ \A i \in DOMAIN heap : ~Own(heap[i])
        /\ \A d : UnderWay(d) => ~Own(d)
    BY <1>a, <2>1 DEF FirstIsFirst
  <2>4. \A i \in DOMAIN heap' : ~Own(heap[i])'
    BY <2>2, <2>3 DEF QuietHeap, Own
  <2> QED
    BY <1>1, <1>2, <2>3, <2>4
<1>8. MoreIsPaging'
  <2> SUFFICES ASSUME NEW r \in requests', Own(r)', r.offset > 0
               PROVE  r.at = "page" \/ crossed'
    BY DEF MoreIsPaging
  <2>1. PICK q \in requests : /\ r.token = q.token /\ r.offset = q.offset
                              /\ r = q \/ q.at # "page"
    BY <1>4
  <2>2. q.at = "page" \/ crossed
    BY <1>a, <2>1 DEF MoreIsPaging, Own
  <2> QED
    BY <2>1, <2>2
<1>9. OneBearer'
  <2> SUFFICES ASSUME ~crossed', win.token > 0
               PROVE  \A i, j : Bears(i)' /\ Bears(j)' => i = j
    BY DEF OneBearer
  <2>1. ASSUME NEW i, Bears(i)' PROVE Bears(i)
    <3>1. CASE i \in DOMAIN heap' /\ Own(heap[i])'
      <4>1. i \in DOMAIN heap /\ heap'[i].token = heap[i].token
        BY <3>1 DEF QuietHeap, Own
      <4> QED
        BY <3>1, <4>1 DEF Bears, Own
    <3>2. CASE \E n \in Readers : /\ notices'[n].at = "emit" /\ notices'[n].id = i
                                  /\ Own(notices[n].delta)'
      <4>1. PICK n \in Readers : /\ notices'[n].at = "emit" /\ notices'[n].id = i
                                 /\ Own(notices[n].delta)'
        BY <3>2
      <4>2. notices'[n] = notices[n]
        BY <4>1 DEF QuietEmits
      <4> QED
        BY <4>1, <4>2 DEF Bears, Own
    <3> QED
      BY <2>1, <3>1, <3>2 DEF Bears
  <2> QED
    BY <1>a, <2>1 DEF OneBearer
<1> QED
  BY <1>5, <1>6, <1>7, <1>8, <1>9 DEF TokenInv

\* A step that changes at most what is no concern of the window's table.
LEMMA QuietStep ==
  ASSUME TokenInv, WindowFollows, SoundInv, SoundInv',
         UNCHANGED <<win, answers, wire, loads>>, crossed => crossed',
         QuietRequests, QuietEmits, QuietHeap,
         Current' /\ Undoomed' /\ tables'[win.view] = tables[win.view] =>
           /\ heap'[Table].sent = heap[Table].sent /\ heap'[Table].rows = heap[Table].rows
           /\ \A n \in Readers : SameToTable(n),
         win.token > 0 => \/ tables'[win.view] \in {0, tables[win.view]}
                          \/ tables'[win.view] \notin DOMAIN heap
  PROVE  TokenInv' /\ WindowFollows'
<1>2. TokenInv'
  BY QuietTokens
<1>3. ASSUME Current', Undoomed' PROVE WindowFollows'
  <2>1. win.token > 0 /\ ~crossed /\ Table' # 0 /\ win.view \in Views
    BY <1>3 DEF Current, SoundInv, WinSound
  <2>2. Table' \in DOMAIN heap'
    BY <2>1 DEF Table, SoundInv, TablesSound, Made
  <2>3. Table' \in DOMAIN heap /\ Table' = Table
    <3>1. Table' \in DOMAIN heap
      <4>1. heap'[Table'].token = win.token
        BY <1>3 DEF Current
      <4> QED
        BY <2>1, <2>2, <4>1 DEF QuietHeap
    <3> QED
      BY <2>1, <3>1 DEF Table
  <2>4. heap'[Table].token = heap[Table].token /\ heap'[Table].sent = heap[Table].sent
        /\ heap'[Table].rows = heap[Table].rows
    BY <1>3, <2>2, <2>3 DEF QuietHeap, Table
  <2>5. Current
    BY <1>3, <2>1, <2>3, <2>4 DEF Current
  <2>6. \A n \in Readers : SameToTable(n)
    BY <1>3, <2>3 DEF Table
  <2>7. Undoomed
    <3>1. \A r \in requests : r.at = "page" /\ r.id = Table => Own(r)
      BY <1>3, <2>3 DEF Undoomed, QuietRequests, Own
    <3>2. \A n \in Readers : Emits(n) => Emits(n)'
      BY <2>3, <2>6 DEF Emits, SameToTable
    <3>3. \A m, n \in Readers : Emits(m) /\ Emits(n) => m = n
      BY <1>3, <3>2 DEF Undoomed
    <3>4. ASSUME NEW x \in requests \cup answers, Own(x), x.offset > 0, NEW i \in 1..Len(wire)
          PROVE  ~Own(wire[i])
      <4>1. \E y \in requests' \cup answers' : Own(y)' /\ y.offset > 0
        <5>1. CASE x \in answers
          BY <3>4, <5>1 DEF Own
        <5>2. CASE x \in requests
          BY <1>3, <3>4, <5>2 DEF QuietRequests, Own, Current
        <5> QED
          BY <5>1, <5>2
      <4>2. i \in 1..Len(wire')
        OBVIOUS
      <4>3. ~Own(wire[i])'
        BY <1>3, <4>1, <4>2 DEF Undoomed
      <4> QED
        BY <4>3 DEF Own
    <3> QED
      BY <3>1, <3>3, <3>4 DEF Undoomed
  <2>8. \A a : Own(a) => (a \in answers' <=> a \in answers)
    OBVIOUS
  <2> QED
    BY <2>3, <2>4, <2>5, <2>6, <2>7, <2>8, SameTable
<1>4. ~(Current' /\ Undoomed') => WindowFollows'
  BY DEF WindowFollows
<1> QED
  BY <1>2, <1>3, <1>4

\* A notification that ends or goes on to its next table sends nothing more.
LEMMA OnwardSendsNothing ==
  ASSUME NEW m, DOMAIN m = NoticeFields
  PROVE  Onward(m).at \notin {"patch", "emit"}
<1>1. CASE m.todo = {}
  BY <1>1 DEF Onward, Idle
<1>2. CASE m.todo # {}
  BY <1>2 DEF Onward, NoticeFields
<1> QED
  BY <1>1, <1>2

\* A step that leaves the tables and what is to be sent as they are.
LEMMA SameHeapStep ==
  ASSUME TokenInv, WindowFollows, SoundInv, SoundInv',
         UNCHANGED <<win, answers, wire, loads, heap>>, crossed => crossed', QuietRequests,
         win.token > 0 => tables'[win.view] \in {0, tables[win.view]},
         \A n \in Readers : notices'[n] = notices[n]
           \/ (notices[n].at \notin {"patch", "emit"} /\ notices'[n].at \notin {"patch", "emit"})
  PROVE  TokenInv' /\ WindowFollows'
<1>1. QuietEmits
  BY DEF QuietEmits
<1>2. QuietHeap
  BY DEF QuietHeap, TokenInv, TokensKnown
<1>3. \A n \in Readers : SameToTable(n)
  BY DEF SameToTable
<1> QED
  BY <1>1, <1>2, <1>3, QuietStep

\* A List that takes a step before its page keeps its token and its view.
LEMMA StepQuiet ==
  ASSUME NEW r \in requests, NEW next, Step(r, next),
         next.token = r.token, next.view = r.view, next.offset = r.offset, r.at # "page"
  PROVE  QuietRequests
  BY DEF Step, QuietRequests

\* What the watches, the caches and the notifications do before they touch a
\* table, and what a List does before it has one, is no concern of the window.
LEMMA BystandersFollow ==
  ASSUME TokenInv, WindowFollows, SoundInv, SoundInv',
         \/ UNCHANGED <<notices, heap, tables, windowVars, crossed>>
         \/ ListRead \/ ListSubscribe \/ ListFails \/ Forget
         \/ \E n \in Readers : Notify(n) \/ RefreshRead(n)
  PROVE  TokenInv' /\ WindowFollows'
<1>0. /\ \A r \in requests : DOMAIN r = RequestFields
      /\ \A n \in Readers : notices[n] # Idle => DOMAIN notices[n] = NoticeFields
      /\ DOMAIN notices = Readers
  BY DEF SoundInv, RequestsSound, RequestSound, NoticesSound, NoticeSound
<1>1. CASE UNCHANGED <<notices, heap, tables, windowVars, crossed>>
  <2>1. QuietRequests
    BY <1>1 DEF QuietRequests, windowVars
  <2> QED
    BY <1>1, <2>1, SameHeapStep DEF windowVars
<1>2. CASE ListRead \/ ListSubscribe
  <2>1. \E r \in requests : \E next :
          /\ Step(r, next) /\ r.at # "page"
          /\ next.token = r.token /\ next.view = r.view /\ next.offset = r.offset
    <3>1. CASE ListRead
      <4>1. PICK r \in requests : r.at = "read" /\
               \/ \E rows : Step(r, [r EXCEPT !.at = "replace", !.rows = rows])
               \/ \E loading, rows : Step(r, [r EXCEPT !.at = "subscribe", !.loading = loading, !.rows = rows])
        BY <3>1 DEF ListRead
      <4>2. CASE \E rows : Step(r, [r EXCEPT !.at = "replace", !.rows = rows])
        <5>1. PICK rows : Step(r, [r EXCEPT !.at = "replace", !.rows = rows])
          BY <4>2
        <5>2. PICK next : next = [r EXCEPT !.at = "replace", !.rows = rows]
          OBVIOUS
        <5>3. next.token = r.token /\ next.view = r.view /\ next.offset = r.offset
          BY <1>0, <5>2 DEF RequestFields
        <5> QED
          BY <4>1, <5>1, <5>2, <5>3
      <4>3. CASE \E loading, rows : Step(r, [r EXCEPT !.at = "subscribe", !.loading = loading, !.rows = rows])
        <5>1. PICK loading, rows :
                Step(r, [r EXCEPT !.at = "subscribe", !.loading = loading, !.rows = rows])
          BY <4>3
        <5>2. PICK next : next = [r EXCEPT !.at = "subscribe", !.loading = loading, !.rows = rows]
          OBVIOUS
        <5>3. next.token = r.token /\ next.view = r.view /\ next.offset = r.offset
          BY <1>0, <5>2 DEF RequestFields
        <5> QED
          BY <4>1, <5>1, <5>2, <5>3
      <4> QED
        BY <4>1, <4>2, <4>3
    <3>2. CASE ListSubscribe
      <4>1. PICK r \in requests : r.at = "subscribe" /\ Step(r, [r EXCEPT !.at = "replace"])
        BY <3>2 DEF ListSubscribe
      <4>2. PICK next : next = [r EXCEPT !.at = "replace"]
        OBVIOUS
      <4>3. next.token = r.token /\ next.view = r.view /\ next.offset = r.offset
        BY <1>0, <4>2 DEF RequestFields
      <4> QED
        BY <4>1, <4>2, <4>3
    <3> QED
      BY <1>2, <3>1, <3>2
  <2>2. QuietRequests
    BY <2>1, StepQuiet
  <2>3. UNCHANGED <<win, answers, wire, loads, heap, crossed, tables, notices>>
    BY <1>2 DEF ListRead, ListSubscribe, tableVars, history
  <2> QED
    BY <2>2, <2>3, SameHeapStep
<1>3. CASE ListFails
  <2>1. QuietRequests
    BY <1>3 DEF ListFails, QuietRequests, Own
  <2>2. UNCHANGED <<win, answers, wire, loads, heap, tables, notices>> /\ (crossed => crossed')
    BY <1>3 DEF ListFails, tableVars
  <2> QED
    BY <2>1, <2>2, SameHeapStep
<1>4. CASE Forget
  <2>1. QuietRequests
    BY <1>4 DEF Forget, QuietRequests, windowVars
  <2>2. UNCHANGED <<win, answers, wire, loads, heap, notices, crossed>>
    BY <1>4 DEF Forget, windowVars, history
  <2>3. win.token > 0 => tables'[win.view] = 0
    BY <1>4 DEF Forget, SoundInv, WinSound
  <2> QED
    BY <2>1, <2>2, <2>3, SameHeapStep
<1>5. ASSUME NEW n \in Readers, Notify(n) \/ RefreshRead(n)
      PROVE  TokenInv' /\ WindowFollows'
  <2>1. UNCHANGED <<win, answers, wire, loads, heap, tables, crossed, requests>>
    BY <1>5 DEF Notify, RefreshRead, tableVars, windowVars, history
  <2>2. QuietRequests
    BY <2>1 DEF QuietRequests
  <2>3. /\ notices[n].at \notin {"patch", "emit"}
        /\ \E new : notices' = [notices EXCEPT ![n] = new] /\ new.at \notin {"patch", "emit"}
    <3>1. CASE Notify(n)
      <4>1. PICK k \in Keys : notices[n] = Idle /\ notices' = [notices EXCEPT ![n] = Onward(
               [at |-> "next", full |-> pending[k].full, keys |-> pending[k].keys,
                todo |-> {<<u, tables[u]>> : u \in Affected(k)}, view |-> k, source |-> k,
                id |-> 0, fresh |-> Empty, touched |-> {}, reordered |-> FALSE,
                delta |-> Nothing])]
        BY <3>1 DEF Notify
      <4>2. PICK m :
              m = [at |-> "next", full |-> pending[k].full, keys |-> pending[k].keys,
                   todo |-> {<<u, tables[u]>> : u \in Affected(k)}, view |-> k, source |-> k,
                   id |-> 0, fresh |-> Empty, touched |-> {}, reordered |-> FALSE,
                   delta |-> Nothing]
        OBVIOUS
      <4>3. notices' = [notices EXCEPT ![n] = Onward(m)]
        BY <4>1, <4>2
      <4>4. DOMAIN m = NoticeFields
        BY <4>2 DEF NoticeFields
      <4>5. notices[n].at = "idle"
        BY <4>1 DEF Idle
      <4>6. Onward(m).at \notin {"patch", "emit"}
        BY <4>4, OnwardSendsNothing
      <4> QED
        BY <4>3, <4>5, <4>6
    <3>2. CASE RefreshRead(n)
      <4>1. notices[n].at = "next" /\ DOMAIN notices[n] = NoticeFields
        <5>1. notices[n].at = "next"
          BY <3>2 DEF RefreshRead
        <5>2. Idle.at = "idle"
          BY DEF Idle
        <5> QED
          BY <1>0, <5>1, <5>2
      <4>2. PICK m : m = notices[n]
        OBVIOUS
      <4>3. PICK t \in m.todo :
              LET rest == [m EXCEPT !.todo = @ \ {t}]
              IN  IF closed \/ Warm(t[1]) = {}
                  THEN notices' = [notices EXCEPT ![n] = Onward(rest)]
                  ELSE notices' = [notices EXCEPT ![n] =
                         [rest EXCEPT !.at = "apply", !.view = t[1], !.id = t[2],
                                      !.source = Existing(t[1]),
                                      !.fresh = Visible(t[1], cache[Existing(t[1])])]]
        BY <3>2, <4>2 DEF RefreshRead
      <4>4. PICK rest : rest = [m EXCEPT !.todo = @ \ {t}]
        OBVIOUS
      <4>5. DOMAIN rest = NoticeFields
        BY <4>1, <4>2, <4>4
      <4>6. CASE closed \/ Warm(t[1]) = {}
        <5>1. notices' = [notices EXCEPT ![n] = Onward(rest)]
          BY <4>3, <4>4, <4>6
        <5>2. Onward(rest).at \notin {"patch", "emit"}
          BY <4>5, OnwardSendsNothing
        <5> QED
          BY <4>1, <5>1, <5>2
      <4>7. CASE ~(closed \/ Warm(t[1]) = {})
        <5>1. PICK new : new = [rest EXCEPT !.at = "apply", !.view = t[1], !.id = t[2],
                                     !.source = Existing(t[1]),
                                     !.fresh = Visible(t[1], cache[Existing(t[1])])]
          OBVIOUS
        <5>2. notices' = [notices EXCEPT ![n] = new]
          BY <4>3, <4>4, <4>7, <5>1
        <5>3. new.at = "apply"
          BY <4>5, <5>1 DEF NoticeFields
        <5> QED
          BY <4>1, <5>2, <5>3
      <4> QED
        BY <4>6, <4>7
    <3> QED
      BY <1>5, <3>1, <3>2
  <2>4. \A m \in Readers : notices'[m] = notices[m]
           \/ (notices[m].at \notin {"patch", "emit"} /\ notices'[m].at \notin {"patch", "emit"})
    BY <1>0, <2>3
  <2> QED
    BY <2>1, <2>2, <2>4, SameHeapStep
<1> QED
  BY <1>1, <1>2, <1>3, <1>4, <1>5

-----------------------------------------------------------------------------
(* The steps of a List before its page *)

\* A table that was just created has no token and holds nothing.
LEMMA EnsureFollows ==
  ASSUME TokenInv, WindowFollows, SoundInv, SoundInv', ListEnsure
  PROVE  TokenInv' /\ WindowFollows'
<1>1. PICK r \in requests :
        /\ r.at = "replace"
        /\ heap' = EnsureTable(r.view).heap /\ tables' = EnsureTable(r.view).tables
        /\ Step(r, [r EXCEPT !.at = "fill", !.id = EnsureTable(r.view).id])
  BY DEF ListEnsure
<1>2. DOMAIN r = RequestFields /\ r.view \in Views
  BY DEF SoundInv, RequestsSound, RequestSound
<1>3. QuietRequests
  <2>1. PICK next : next = [r EXCEPT !.at = "fill", !.id = EnsureTable(r.view).id]
    OBVIOUS
  <2>2. next.token = r.token /\ next.view = r.view /\ next.offset = r.offset
    BY <1>2, <2>1 DEF RequestFields
  <2> QED
    BY <1>1, <2>1, <2>2, StepQuiet
<1>4. UNCHANGED <<win, answers, wire, loads, notices, crossed>>
  BY DEF ListEnsure, history
<1>5. /\ TablesSound /\ (win.token > 0 => win.view \in Views)
      /\ heap \in Seq({heap[i] : i \in DOMAIN heap})
  BY DEF SoundInv, WinSound, TablesSound
<1>6. Len(heap) \in Nat /\ DOMAIN heap = 1..Len(heap)
  BY <1>5, LenProperties
<1>7. /\ \A i \in DOMAIN heap : heap'[i] = heap[i]
      /\ tables'[r.view] = EnsureTable(r.view).id
      /\ tables[r.view] # 0 => tables'[r.view] = tables[r.view]
      /\ \A u \in Views \ {r.view} : tables'[u] \in {0, tables[u]}
  BY <1>1, <1>2, <1>5, EnsureTableEffect
<1>8. \A i \in DOMAIN heap' : i \in DOMAIN heap \/ heap'[i] = NewTable(r.view)
  <2>1. CASE tables[r.view] # 0
    BY <1>1, <2>1 DEF EnsureTable
  <2>2. CASE tables[r.view] = 0
    <3>1. heap' = Append(heap, NewTable(r.view))
      BY <1>1, <2>2 DEF EnsureTable
    <3>2. DOMAIN heap' = 1..(Len(heap) + 1) /\ heap'[Len(heap) + 1] = NewTable(r.view)
      <4> DEFINE S == {heap[i] : i \in DOMAIN heap} \cup {NewTable(r.view)}
      <4>1. heap \in Seq(S) /\ NewTable(r.view) \in S
        BY <1>5, SeqMonotonic
      <4> HIDE DEF S
      <4>2. /\ heap' \in Seq(S) /\ Len(heap') = Len(heap) + 1
            /\ heap'[Len(heap) + 1] = NewTable(r.view)
        BY <3>1, <4>1, AppendProperties
      <4> QED
        BY <4>2, LenProperties
    <3> QED
      BY <1>6, <3>2
  <2> QED
    BY <2>1, <2>2
<1>9. QuietHeap
  <2>1. NewTable(r.view).token = 0 /\ NewTable(r.view).sent = <<>>
    BY DEF NewTable
  <2>2. \A i \in DOMAIN heap : heap[i].sent \in Seq(Objects)
    BY DEF TokenInv, TokensKnown
  <2> QED
    BY <1>7, <1>8, <2>1, <2>2 DEF QuietHeap
<1>10. win.token > 0 => \/ tables'[win.view] \in {0, tables[win.view]}
                        \/ tables'[win.view] \notin DOMAIN heap
  <2>1. CASE win.view # r.view \/ tables[r.view] # 0
    BY <1>5, <1>7, <2>1
  <2>2. CASE win.view = r.view /\ tables[r.view] = 0
    <3>1. tables'[r.view] = Len(heap) + 1
      BY <1>7, <2>2 DEF EnsureTable
    <3> QED
      BY <1>6, <2>2, <3>1
  <2> QED
    BY <2>1, <2>2
<1>11. QuietEmits /\ \A n \in Readers : SameToTable(n)
  BY <1>4 DEF QuietEmits, SameToTable
<1>12. Current' /\ tables'[win.view] = tables[win.view] =>
         heap'[Table].sent = heap[Table].sent /\ heap'[Table].rows = heap[Table].rows
  <2> SUFFICES ASSUME Current', tables'[win.view] = tables[win.view]
               PROVE  Table \in DOMAIN heap
    BY <1>7
  <2>1. win.token > 0 /\ Table # 0
    BY <1>4 DEF Current, Table
  <2> QED
    BY <1>5, <2>1 DEF TablesSound, Table, Made
<1> QED
  BY <1>3, <1>4, <1>9, <1>10, <1>11, <1>12, QuietStep

\* A List that replaces the rows of the window's table has been marked as
\* crossing, or its page is still to come.
LEMMA ReplaceFollows ==
  ASSUME TokenInv, WindowFollows, SoundInv, SoundInv', ListReplace
  PROVE  TokenInv' /\ WindowFollows'
<1>1. PICK r \in requests :
        /\ r.at = "fill"
        /\ heap' = [heap EXCEPT ![r.id] = Replace(@, r.rows, r.loading)]
        /\ Step(r, [r EXCEPT !.at = "page"])
  BY DEF ListReplace
<1>2. DOMAIN r = RequestFields /\ r.view \in Views /\ r.id \in DOMAIN heap
  BY <1>1 DEF SoundInv, RequestsSound, RequestSound, Made
<1>3. PICK next : next = [r EXCEPT !.at = "page"]
  OBVIOUS
<1>4. /\ next.token = r.token /\ next.view = r.view /\ next.offset = r.offset
      /\ next.at = "page" /\ next.id = r.id /\ next \in requests'
  BY <1>1, <1>2, <1>3 DEF RequestFields, Step
<1>5. QuietRequests
  BY <1>1, <1>3, <1>4, StepQuiet
<1>6. UNCHANGED <<win, answers, wire, loads, notices, crossed, tables>>
  BY DEF ListReplace
<1>7. QuietHeap
  <2>1. \A i \in DOMAIN heap : DOMAIN heap[i] = TableFields /\ heap[i].sent \in Seq(Objects)
    BY DEF TokenInv, TokensKnown, SoundInv, TablesSound
  <2>2. PICK u : u = Replace(heap[r.id], r.rows, r.loading)
    OBVIOUS
  <2>3. u.token = heap[r.id].token /\ u.view = heap[r.id].view /\ u.sent = heap[r.id].sent
    BY <1>2, <2>1, <2>2 DEF Replace, TableFields
  <2>4. heap' = [heap EXCEPT ![r.id] = u]
    BY <1>1, <2>2
  <2> QED
    BY <1>2, <2>1, <2>3, <2>4 DEF QuietHeap
<1>8. QuietEmits /\ \A n \in Readers : SameToTable(n)
  BY <1>6 DEF QuietEmits, SameToTable
<1>9. ASSUME Current', Undoomed', tables'[win.view] = tables[win.view]
      PROVE  heap'[Table].sent = heap[Table].sent /\ heap'[Table].rows = heap[Table].rows
  <2>1. r.id # Table
    <3> SUFFICES ASSUME r.id = Table PROVE FALSE
      OBVIOUS
    <3>1. Own(r)
      BY <1>4, <1>6, <1>9 DEF Undoomed, Own, Table
    <3>2. ~crossed /\ heap'[Table].token = win.token /\ Table \in DOMAIN heap
      BY <1>2, <1>6, <1>9 DEF Current, Table
    <3>3. r.offset = 0
      <4>1. r.offset \in Nat
        BY DEF TokenInv, TokensKnown
      <4>2. ~(r.offset > 0)
        BY <1>1, <3>1, <3>2 DEF TokenInv, MoreIsPaging
      <4> QED
        BY <4>1, <4>2
    <3>4. heap[Table].token = win.token
      BY <1>7, <1>1, <3>2 DEF QuietHeap
    <3> QED
      BY <3>1, <3>2, <3>3, <3>4 DEF TokenInv, FirstIsFirst, Own
  <2> QED
    BY <1>1, <2>1
<1>10. tables'[win.view] \in {0, tables[win.view]}
  BY <1>6
<1> QED
  BY <1>5, <1>6, <1>7, <1>8, <1>9, <1>10, QuietStep

-----------------------------------------------------------------------------
(* The steps of a notification *)

\* What a notification applies to a table it says it has touched; a row it
\* takes away makes the order doubtful.
LEMMA ApplyTouches ==
  ASSUME NEW t, DOMAIN t = TableFields, NEW fresh, NEW keys \in SUBSET Objects
  PROVE  LET a == Apply(t, fresh, keys)
         IN  /\ a.table.token = t.token /\ a.table.view = t.view /\ a.table.sent = t.sent
             /\ \A o \in Objects : \/ a.table.rows[o] = t.rows[o]
                                   \/ /\ a.table.rows[o] = Absent => a.reordered
                                      /\ o \in a.touched
<1> DEFINE moved == {o \in keys : t.rows[o] # fresh[o]}
           rows == [o \in Objects |-> IF o \in moved THEN fresh[o] ELSE t.rows[o]]
           u == [t EXCEPT !.rows = rows]
           doubtful == \E o \in moved : \/ t.rows[o] = Absent \/ fresh[o] = Absent
                                        \/ MovesInOrder(t.query, t.rows[o], fresh[o])
<1>1. /\ Apply(t, fresh, keys).table = u /\ Apply(t, fresh, keys).touched = moved
      /\ Apply(t, fresh, keys).reordered <=> doubtful
  BY DEF Apply, TableFields
<1>2. \A o \in Objects : rows[o] = t.rows[o] \/ (o \in moved /\ rows[o] = fresh[o])
  OBVIOUS
<1>3. \A o \in moved : fresh[o] = Absent => doubtful
  OBVIOUS
<1> HIDE DEF rows, moved, doubtful
<1>4. u.token = t.token /\ u.view = t.view /\ u.sent = t.sent /\ u.rows = rows
  BY DEF TableFields
<1> HIDE DEF u
<1> QED
  BY <1>1, <1>2, <1>3, <1>4

\* A notification that has applied the cache to the window's table leaves rows
\* that its patch is to mend.
LEMMA ApplyFollows ==
  ASSUME TokenInv, WindowFollows, SoundInv, SoundInv', NEW n \in Readers, RefreshApply(n)
  PROVE  TokenInv' /\ WindowFollows'
<1>0. DOMAIN notices = Readers /\ NoticeSound(notices[n])
  BY DEF SoundInv, NoticesSound
<1>1. PICK m : m = notices[n]
  OBVIOUS
<1>2. m.at = "apply" /\ DOMAIN m = NoticeFields /\ m.keys \subseteq Objects
      /\ m.id \in DOMAIN heap /\ m.fresh \in Rows
  <2>1. m.at = "apply"
    BY <1>1 DEF RefreshApply
  <2>2. m # Idle
    BY <2>1 DEF Idle
  <2> QED
    BY <1>0, <1>1, <2>1, <2>2 DEF NoticeSound, Made
<1>3. PICK t : t = heap[m.id]
  OBVIOUS
<1>4. DOMAIN t = TableFields /\ t.sent \in Seq(Objects) /\ t.rows \in Rows
  BY <1>2, <1>3 DEF SoundInv, TablesSound, TokenInv, TokensKnown
<1>5. PICK u, touched, reordered :
        /\ heap' = [heap EXCEPT ![m.id] = u]
        /\ notices' = [notices EXCEPT ![n].at = "patch", ![n].touched = touched,
                                      ![n].reordered = reordered]
        /\ u.token = t.token /\ u.view = t.view /\ u.sent = t.sent
        /\ \A o \in Objects : \/ u.rows[o] = t.rows[o]
                              \/ IF u.rows[o] = Absent THEN reordered ELSE o \in touched
  <2>1. CASE m.full
    <3>1. PICK u : u = Replace(t, m.fresh, FALSE)
      OBVIOUS
    <3>2. u.token = t.token /\ u.view = t.view /\ u.sent = t.sent /\ u.rows = m.fresh
      BY <1>4, <3>1 DEF Replace, TableFields
    <3>3. /\ heap' = [heap EXCEPT ![m.id] = u]
          /\ notices' = [notices EXCEPT ![n].at = "patch", ![n].touched = Keyed(m.fresh),
                                        ![n].reordered = TRUE]
      BY <1>1, <1>3, <2>1, <3>1 DEF RefreshApply
    <3>4. \A o \in Objects : u.rows[o] # Absent => o \in Keyed(m.fresh)
      BY <3>2 DEF Keyed
    <3> QED
      BY <3>2, <3>3, <3>4
  <2>2. CASE ~m.full
    <3>1. PICK a : a = Apply(t, m.fresh, m.keys)
      OBVIOUS
    <3>2. /\ a.table.token = t.token /\ a.table.view = t.view /\ a.table.sent = t.sent
          /\ \A o \in Objects : \/ a.table.rows[o] = t.rows[o]
                                \/ /\ a.table.rows[o] = Absent => a.reordered
                                   /\ o \in a.touched
      BY <1>2, <1>4, <3>1, ApplyTouches
    <3>3. /\ heap' = [heap EXCEPT ![m.id] = a.table]
          /\ notices' = [notices EXCEPT ![n].at = "patch", ![n].touched = a.touched,
                                        ![n].reordered = a.reordered]
      BY <1>1, <1>3, <2>2, <3>1 DEF RefreshApply
    <3> QED
      BY <3>2, <3>3
  <2> QED
    BY <2>1, <2>2
<1>6. PICK new : new = notices'[n]
  OBVIOUS
<1>7. /\ new.at = "patch" /\ new.id = m.id /\ new.touched = touched /\ (new.reordered <=> reordered)
      /\ \A j \in Readers \ {n} : notices'[j] = notices[j]
  BY <1>0, <1>1, <1>2, <1>5, <1>6 DEF NoticeFields
<1>8. UNCHANGED <<win, answers, wire, loads, crossed, tables, requests>>
  BY DEF RefreshApply, windowVars
<1>9. QuietRequests
  BY <1>8 DEF QuietRequests
<1>10. QuietEmits
  BY <1>1, <1>2, <1>6, <1>7 DEF QuietEmits
<1>11. QuietHeap
  BY <1>2, <1>3, <1>4, <1>5 DEF QuietHeap, TokenInv, TokensKnown
<1>12. CASE m.id # Table
  <2>1. heap'[Table] = heap[Table]
    BY <1>5, <1>12
  <2>2. \A j \in Readers : SameToTable(j)
    BY <1>1, <1>2, <1>6, <1>7, <1>12 DEF SameToTable
  <2> QED
    BY <1>8, <1>9, <1>10, <1>11, <2>1, <2>2, QuietStep
<1>13. CASE m.id = Table
  <2>1. TokenInv'
    BY <1>8, <1>9, <1>10, <1>11, QuietTokens
  <2>2. Table' = Table /\ heap'[Table] = u /\ heap[Table] = t
    BY <1>2, <1>3, <1>5, <1>8, <1>13 DEF Table
  <2>3. \A j \in Readers : (Emits(j)' <=> Emits(j)) /\ (Emits(j) => notices'[j] = notices[j])
    BY <1>1, <1>2, <1>6, <1>7, <2>2 DEF Emits
  <2>4. ASSUME Current', Undoomed' PROVE WindowFollows'
    <3>1. Current
      BY <1>5, <1>8, <2>2, <2>4 DEF Current
    <3>2. Undoomed
      BY <1>8, <2>2, <2>3, <2>4 DEF Undoomed, Own
    <3>3. PICK ws, w : Arrive(ws) /\ Ends(w, ws[Len(wire) + 1]) /\ Follows(w)
      BY <3>1, <3>2 DEF WindowFollows
    <3>4. Arrive(ws)'
      BY <1>8, <3>3 DEF Arrive, Opens, Own
    <3>5. Ends(w, ws[Len(wire) + 1])'
      BY <1>8, <2>3, <3>3 DEF Ends
    <3>6. ASSUME NEW o \in Range(t.sent) PROVE w.shown[o] = u.rows[o] \/ Mended(o)'
      <4>1. o \in Objects
        BY <1>4 DEF Range
      <4>2. CASE IF u.rows[o] = Absent THEN reordered ELSE o \in touched
        BY <1>6, <1>7, <1>13, <2>2, <4>2 DEF Mended
      <4>3. CASE u.rows[o] = t.rows[o] /\ w.shown[o] = t.rows[o]
        BY <4>3
      <4>4. CASE u.rows[o] = t.rows[o] /\ Mended(o)
        <5>1. PICK j \in Readers :
                /\ notices[j].at = "patch" /\ notices[j].id = Table
                /\ IF t.rows[o] = Absent THEN notices[j].reordered ELSE o \in notices[j].touched
          BY <2>2, <4>4 DEF Mended
        <5>2. notices'[j] = notices[j]
          BY <1>1, <1>2, <1>7, <5>1
        <5> QED
          BY <2>2, <4>4, <5>1, <5>2 DEF Mended
      <4> QED
        BY <1>5, <2>2, <3>3, <3>6, <4>1, <4>2, <4>3, <4>4 DEF Follows
    <3>7. Follows(w)'
      BY <1>5, <1>8, <2>2, <3>3, <3>6 DEF Follows, Lists
    <3> QED
      BY <3>4, <3>5, <3>7 DEF WindowFollows
  <2> QED
    BY <2>1, <2>4 DEF WindowFollows
<1> QED
  BY <1>12, <1>13

\* What making a patch does to a table, whatever the window holds.
LEMMA PatchTable ==
  ASSUME NEW t, DOMAIN t = TableFields, t.rows \in Rows, t.sent \in Seq(Objects),
         NEW touched, NEW reordered
  PROVE  LET p == Patch(t, touched, reordered)
         IN  /\ p.table.sent \in Seq(Objects) /\ p.table.token = t.token
             /\ p.table.view = t.view /\ p.table.rows = t.rows
             /\ p.delta.order \in Seq(Objects)
             /\ p.delta.token = t.token /\ p.delta.view = t.view
             /\ p.table.sent # <<>> => t.sent # <<>>
             /\ reordered => \A o \in Range(p.table.sent) : t.rows[o] # Absent
             /\ \A w : IsWindow(w, t.token, t.view) /\ Lists(w, t) => Tells(t, w, touched, p)
<1> DEFINE p == Patch(t, touched, reordered)
           some == IF Absent = 0 THEN 1 ELSE 0
           w0 == [view |-> t.view, token |-> t.token, query |-> NoQuery, order |-> t.sent,
                  shown |-> [o \in Objects |-> IF o \in Range(t.sent) THEN some ELSE Absent]]
<1>1. IsWindow(w0, t.token, t.view) /\ Lists(w0, t)
  <2>1. some # Absent
    OBVIOUS
  <2> HIDE DEF some
  <2> QED
    BY <2>1 DEF IsWindow, Lists, WinFields
<1>2. \A w : IsWindow(w, t.token, t.view) /\ Lists(w, t) => Tells(t, w, touched, p)
  <2> SUFFICES ASSUME NEW w, IsWindow(w, t.token, t.view), Lists(w, t)
               PROVE  Tells(t, w, touched, p)
    OBVIOUS
  <2>1. CASE reordered
    BY <2>1, ReorderedTells DEF Patch
  <2>2. CASE ~reordered
    BY <2>2, InPlaceTells DEF Patch
  <2> QED
    BY <2>1, <2>2
<1>3. p.table.view = t.view
  BY TellingKeepsRows DEF SameRows
<1>4. ASSUME ~reordered PROVE p.table.sent = t.sent
  <2> DEFINE d == Delta(t, touched \cap Range(t.sent) \cap Keyed(t.rows), {}, <<>>, t.matched)
  <2>1. p.table = Told(t, d)
    BY <1>4 DEF Patch, InPlace
  <2> HIDE DEF d
  <2> QED
    BY <2>1 DEF Told, TableFields
<1>5. ASSUME reordered
      PROVE  /\ t.sent = <<>> => p.table.sent = <<>>
             /\ \A o \in Range(p.table.sent) : t.rows[o] # Absent
  <2> DEFINE order == Ordered(t.query, t.rows)
             size == IF Len(t.sent) > Len(order) THEN Len(order) ELSE Len(t.sent)
             window == SubSeq(order, 1, size)
             d == Delta(t, {o \in Range(window) : o \in touched \/ o \notin Range(t.sent)},
                        Range(t.sent) \ Range(window),
                        IF window = t.sent THEN <<>> ELSE window, Len(order))
  <2>1. p.table = [Told(t, d) EXCEPT !.sent = window]
    BY <1>5 DEF Patch, Reordered
  <2>2. order \in Seq(Objects) /\ \A i \in 1..Len(order) : t.rows[order[i]] # Absent
    BY OrderedLists
  <2> HIDE DEF order
  <2>3. size \in 0..Len(order) /\ (t.sent = <<>> => size = 0)
    BY <2>2
  <2> HIDE DEF size
  <2>4. window \in Seq(Objects) /\ Len(window) = size /\ \A i \in 1..size : window[i] = order[i]
    BY <2>2, <2>3, PrefixLists
  <2> HIDE DEF window
  <2>5. p.table.sent = window
    <3> HIDE DEF d
    <3> QED
      BY <2>1 DEF Told, TableFields
  <2>6. t.sent = <<>> => window = <<>>
    BY <2>3, <2>4
  <2>7. \A o \in Range(window) : \E i \in 1..size : o = window[i]
    BY <2>4 DEF Range
  <2>8. \A i \in 1..size : i \in 1..Len(order)
    BY <2>2, <2>3
  <2> QED
    BY <2>2, <2>4, <2>5, <2>6, <2>7, <2>8
<1>6. Tells(t, w0, touched, p)
  BY <1>1, <1>2
<1> HIDE DEF p, w0
<1>7. /\ p.table.sent \in Seq(Objects) /\ p.table.token = t.token /\ p.table.rows = t.rows
      /\ p.delta.order \in Seq(Objects)
      /\ p.delta.token = t.token /\ p.delta.view = t.view
  BY <1>6 DEF Tells
<1> QED
  BY <1>2, <1>3, <1>4, <1>5, <1>7 DEF p

\* A patch goes by the token of the table it was made from.
LEMMA PatchTokens ==
  ASSUME TokenInv, SoundInv, NEW n \in Readers, NEW id \in DOMAIN heap, NEW u, NEW new,
         UNCHANGED <<win, answers, wire, loads, requests, crossed>>,
         heap' = [heap EXCEPT ![id] = u], notices' = [notices EXCEPT ![n] = new],
         notices[n].at # "emit",
         u.token = heap[id].token, u.view = heap[id].view, u.sent \in Seq(Objects),
         new.at = "emit" => /\ new.id = id /\ new.delta.token = heap[id].token
                            /\ new.delta.view = heap[id].view /\ new.delta.order \in Seq(Objects)
  PROVE  TokenInv'
<1>a. TokensKnown /\ OneAsked /\ FirstIsFirst /\ MoreIsPaging /\ OneBearer
  BY DEF TokenInv
<1>b. DOMAIN notices = Readers
  BY DEF SoundInv, NoticesSound
<1>c. /\ notices'[n] = new /\ \A j \in Readers \ {n} : notices'[j] = notices[j]
      /\ DOMAIN heap' = DOMAIN heap /\ heap'[id] = u
      /\ \A i \in DOMAIN heap \ {id} : heap'[i] = heap[i]
  BY <1>b
<1>1. /\ \A x : Own(x)' <=> Own(x)
      /\ \A x : Known(x)' <=> Known(x)
  BY DEF Own, Known
<1>2. /\ Known(u) <=> Known(heap[id])
      /\ Own(u) <=> Own(heap[id])
  BY DEF Own, Known
<1>3. \A d : UnderWay(d)' => \/ UnderWay(d)
                             \/ /\ d.order \in Seq(Objects)
                                /\ Known(d) <=> Known(heap[id])
                                /\ Own(d) <=> Own(heap[id])
  <2> SUFFICES ASSUME NEW d, UnderWay(d)', ~UnderWay(d)
               PROVE  /\ d.order \in Seq(Objects)
                      /\ Known(d) <=> Known(heap[id])
                      /\ Own(d) <=> Own(heap[id])
    OBVIOUS
  <2>1. \E j \in Readers : notices'[j].at = "emit" /\ d = notices'[j].delta
    BY DEF UnderWay
  <2>2. new.at = "emit" /\ d = new.delta
    BY <1>c, <2>1 DEF UnderWay
  <2> QED
    BY <2>2 DEF Own, Known
<1>4. TokensKnown'
  <2>1. (\A i \in DOMAIN heap : Known(heap[i]) /\ heap[i].sent \in Seq(Objects))'
    <3> SUFFICES ASSUME NEW i \in DOMAIN heap
                 PROVE  Known(heap'[i]) /\ heap'[i].sent \in Seq(Objects)
      BY <1>1, <1>c
    <3> QED
      BY <1>a, <1>c, <1>2 DEF TokensKnown
  <2>2. \A d : UnderWay(d)' => Known(d)' /\ d.order \in Seq(Objects)
    BY <1>a, <1>1, <1>3 DEF TokensKnown
  <2> QED
    BY <1>a, <1>1, <2>1, <2>2 DEF TokensKnown
<1>5. FirstIsFirst'
  <2> SUFFICES ASSUME NEW r \in requests, Own(r), r.offset = 0
               PROVE  /\ \A i \in DOMAIN heap' : ~Own(heap[i])'
                      /\ \A d : UnderWay(d)' => ~Own(d)'
    BY <1>1 DEF FirstIsFirst
  <2>1. /\ \A i \in DOMAIN heap : ~Own(heap[i])
        /\ \A d : UnderWay(d) => ~Own(d)
    BY <1>a DEF FirstIsFirst
  <2>2. \A i \in DOMAIN heap' : ~Own(heap'[i])
    BY <1>c, <1>2, <2>1
  <2> QED
    BY <1>1, <1>3, <2>1, <2>2 DEF Own
<1>6. OneBearer'
  <2>1. ASSUME NEW i, Bears(i)' PROVE Bears(i)
    <3>1. CASE i \in DOMAIN heap' /\ Own(heap[i])'
      <4>1. i \in DOMAIN heap /\ Own(heap[i])
        BY <1>c, <1>2, <3>1 DEF Own
      <4> QED
        BY <4>1 DEF Bears
    <3>2. CASE \E j \in Readers : /\ notices'[j].at = "emit" /\ notices'[j].id = i
                                  /\ Own(notices[j].delta)'
      <4>1. PICK j \in Readers : /\ notices'[j].at = "emit" /\ notices'[j].id = i
                                 /\ Own(notices'[j].delta)
        BY <1>1, <3>2 DEF Own
      <4>2. CASE j = n
        <5>1. i = id /\ Own(heap[id])
          BY <1>c, <4>1, <4>2 DEF Own
        <5> QED
          BY <5>1 DEF Bears
      <4>3. CASE j # n
        BY <1>c, <4>1, <4>3 DEF Bears
      <4> QED
        BY <4>2, <4>3
    <3> QED
      BY <2>1, <3>1, <3>2 DEF Bears
  <2> QED
    BY <1>a, <2>1 DEF OneBearer
<1>7. OneAsked' /\ MoreIsPaging'
  BY <1>a DEF OneAsked, MoreIsPaging, Own
<1> QED
  BY <1>4, <1>5, <1>6, <1>7 DEF TokenInv

\* A patch that is made mends them and becomes the last window to come.
LEMMA MakePatchFollows ==
  ASSUME TokenInv, WindowFollows, SoundInv, SoundInv', NEW n \in Readers, MakePatch(n)
  PROVE  TokenInv' /\ WindowFollows'
<1>0. DOMAIN notices = Readers /\ NoticeSound(notices[n])
  BY DEF SoundInv, NoticesSound
<1>1. PICK m : m = notices[n]
  OBVIOUS
<1>2. m.at = "patch" /\ DOMAIN m = NoticeFields /\ m.id \in DOMAIN heap
  <2>1. m.at = "patch"
    BY <1>1 DEF MakePatch
  <2>2. m # Idle
    BY <2>1 DEF Idle
  <2> QED
    BY <1>0, <1>1, <2>1, <2>2 DEF NoticeSound, Made
<1>3. PICK t : t = heap[m.id]
  OBVIOUS
<1>4. DOMAIN t = TableFields /\ t.sent \in Seq(Objects) /\ t.rows \in Rows
  BY <1>2, <1>3 DEF SoundInv, TablesSound, TokenInv, TokensKnown
<1>5. PICK p : p = Patch(t, m.touched, m.reordered)
  OBVIOUS
<1>6. PICK new : new = IF p.worth THEN [m EXCEPT !.at = "emit", !.delta = p.delta] ELSE Onward(m)
  OBVIOUS
<1>7. heap' = [heap EXCEPT ![m.id] = p.table] /\ notices' = [notices EXCEPT ![n] = new]
  BY <1>1, <1>3, <1>5, <1>6 DEF MakePatch
<1>8. /\ p.worth => new.at = "emit" /\ new.id = m.id /\ new.delta = p.delta
      /\ ~p.worth => new.at \notin {"patch", "emit"}
  <2>1. CASE p.worth
    BY <1>2, <1>6, <2>1 DEF NoticeFields
  <2>2. CASE ~p.worth
    BY <1>2, <1>6, <2>2, OnwardSendsNothing
  <2> QED
    BY <2>1, <2>2
<1>9. /\ p.table.sent \in Seq(Objects) /\ p.table.token = t.token
      /\ p.table.view = t.view /\ p.table.rows = t.rows
      /\ p.delta.order \in Seq(Objects)
      /\ p.delta.token = t.token /\ p.delta.view = t.view
      /\ p.table.sent # <<>> => t.sent # <<>>
      /\ m.reordered => \A o \in Range(p.table.sent) : t.rows[o] # Absent
      /\ \A w : IsWindow(w, t.token, t.view) /\ Lists(w, t) => Tells(t, w, m.touched, p)
  BY <1>4, <1>5, PatchTable
<1>10. UNCHANGED <<win, answers, wire, loads, requests, crossed, tables>>
  BY DEF MakePatch, windowVars, history
<1>11. TokenInv'
  BY <1>1, <1>2, <1>3, <1>7, <1>8, <1>9, <1>10, PatchTokens
<1>12. /\ notices'[n] = new /\ \A j \in Readers \ {n} : notices'[j] = notices[j]
       /\ heap'[m.id] = p.table /\ \A i : i # m.id => heap'[i] = heap[i]
  BY <1>0, <1>2, <1>7
<1>13. ASSUME Current', Undoomed' PROVE WindowFollows'
  <2>1. Table' = Table /\ \A j \in Readers \ {n} : Emits(j)' <=> Emits(j)
    BY <1>10, <1>12 DEF Table, Emits
  <2>2. Emits(n)' <=> p.worth /\ m.id = Table
    BY <1>8, <1>10, <1>12 DEF Emits, Table
  <2>3. ~Emits(n)
    BY <1>1, <1>2 DEF Emits
  <2>4. Current
    <3>1. /\ win.token > 0 /\ ~crossed /\ Table # 0
          /\ heap'[Table].token = win.token /\ heap'[Table].sent # <<>>
      BY <1>10, <1>13, <2>1 DEF Current
    <3>2. heap[Table].token = win.token /\ heap[Table].sent # <<>>
      BY <1>3, <1>9, <1>12, <3>1
    <3> QED
      BY <3>1, <3>2 DEF Current
  <2>5. Undoomed
    BY <1>10, <1>13, <2>1, <2>3 DEF Undoomed, Own
  <2>6. CASE m.id # Table
    <3>1. heap'[Table] = heap[Table]
      BY <1>12, <2>6
    <3>2. \A j \in Readers : SameToTable(j)
      <4>1. \A j \in Readers \ {n} : SameToTable(j)
        BY <1>12 DEF SameToTable
      <4>2. (new.at = "emit" /\ new.id = m.id) \/ new.at \notin {"patch", "emit"}
        BY <1>8
      <4>3. SameToTable(n)
        BY <1>1, <1>12, <2>6, <4>2 DEF SameToTable
      <4> QED
        BY <4>1, <4>3
    <3> QED
      BY <1>10, <2>1, <2>4, <2>5, <3>1, <3>2, SameTable
  <2>7. CASE m.id = Table
    <3>1. PICK ws, w : Arrive(ws) /\ Ends(w, ws[Len(wire) + 1]) /\ Follows(w)
      BY <2>4, <2>5 DEF WindowFollows
    <3>2. Arrive(ws)'
      BY <1>10, <3>1 DEF Arrive, Opens, Own
    <3>3. t.token = win.token /\ t.view = win.view
      <4>1. win.view \in Views /\ Table # 0
        BY <2>4 DEF SoundInv, WinSound, Current
      <4> QED
        BY <1>3, <2>4, <2>7, <4>1 DEF Current, SoundInv, TablesSound, Made, Table
    <3>4. Tells(t, w, m.touched, p)
      BY <1>3, <1>9, <2>7, <3>1, <3>3 DEF Follows
    <3>5. p.table.sent # <<>> /\ heap[Table] = t /\ heap'[Table] = p.table
      BY <1>3, <1>12, <1>13, <2>1, <2>7 DEF Current
    <3>6. ASSUME NEW o, Mended(o), o \in Range(p.table.sent), t.rows[o] = Absent \/ o \notin m.touched
          PROVE  Mended(o)'
      <4>1. PICK j \in Readers :
              /\ notices[j].at = "patch" /\ notices[j].id = Table
              /\ IF t.rows[o] = Absent THEN notices[j].reordered ELSE o \in notices[j].touched
        BY <3>5, <3>6 DEF Mended
      <4>2. j # n
        BY <1>1, <1>9, <3>6, <4>1
      <4>3. notices'[j] = notices[j] /\ p.table.rows = t.rows
        BY <1>9, <1>12, <4>2
      <4> QED
        BY <2>1, <3>5, <4>1, <4>3 DEF Mended
    <3>7. CASE p.worth
      <4>1. PICK v : v = Shows(w, p.delta)
        OBVIOUS
      <4>2. /\ Lists(v, p.table)
            /\ \A o \in Range(p.table.sent) :
                 v.shown[o] = t.rows[o] \/ (o \in Range(t.sent) /\ v.shown[o] = w.shown[o])
            /\ \A o \in Range(p.table.sent) :
                 t.rows[o] # Absent /\ o \in m.touched => v.shown[o] = t.rows[o]
        BY <3>4, <3>5, <3>7, <4>1 DEF Tells
      <4>3. \A j \in Readers : ~Emits(j)
        BY <1>13, <2>1, <2>2, <2>3, <2>7, <3>7 DEF Undoomed
      <4>4. w = ws[Len(wire) + 1]
        BY <3>1, <4>3 DEF Ends
      <4>5. Ends(v, ws[Len(wire) + 1])'
        BY <1>8, <1>10, <1>12, <2>2, <2>7, <3>7, <4>1, <4>4 DEF Ends
      <4>6. IsWindow(v, win.token, win.view)
        BY <3>1, <4>1, PatchedFields DEF Follows, Shows
      <4>7. ASSUME NEW o \in Range(p.table.sent) PROVE v.shown[o] = t.rows[o] \/ Mended(o)'
        BY <3>1, <3>5, <3>6, <4>2, <4>7 DEF Follows
      <4>8. Follows(v)'
        BY <1>9, <1>10, <2>1, <3>5, <4>2, <4>6, <4>7 DEF Follows
      <4> QED
        BY <3>2, <4>5, <4>8 DEF WindowFollows
    <3>8. CASE ~p.worth
      <4>1. p.table.sent = t.sent /\ \A o \in Range(t.sent) : t.rows[o] # Absent => o \notin m.touched
        BY <3>4, <3>5, <3>8 DEF Tells
      <4>2. Ends(w, ws[Len(wire) + 1])'
        <5>1. \A j \in Readers : Emits(j)' <=> Emits(j)
          BY <2>1, <2>2, <2>3, <3>8
        <5>2. \A j \in Readers : Emits(j) => notices'[j] = notices[j]
          BY <1>12, <2>3
        <5> QED
          BY <1>10, <3>1, <5>1, <5>2 DEF Ends
      <4>3. ASSUME NEW o \in Range(t.sent) PROVE w.shown[o] = t.rows[o] \/ Mended(o)'
        BY <3>1, <3>5, <3>6, <4>1, <4>3 DEF Follows
      <4>4. Follows(w)'
        BY <1>9, <1>10, <2>1, <3>1, <3>5, <4>1, <4>3 DEF Follows, Lists
      <4> QED
        BY <3>2, <4>2, <4>4 DEF WindowFollows
    <3> QED
      BY <3>7, <3>8
  <2> QED
    BY <2>6, <2>7
<1> QED
  BY <1>11, <1>13 DEF WindowFollows

\* A sequence of anything grows at its end and gives way at its front.
LEMMA GrownList ==
  ASSUME NEW s, IsList(s), NEW e
  PROVE  /\ IsList(Append(s, e))
         /\ Len(s) \in Nat /\ Len(Append(s, e)) = Len(s) + 1
         /\ \A i \in 1..Len(s) : Append(s, e)[i] = s[i]
         /\ Append(s, e)[Len(s) + 1] = e
<1> DEFINE S == {s[i] : i \in DOMAIN s} \cup {e}
           new == Append(s, e)
           T == {new[i] : i \in DOMAIN new}
<1>1. s \in Seq(S) /\ e \in S
  BY SeqMonotonic DEF IsList
<1> HIDE DEF S
<1>2. /\ new \in Seq(S) /\ Len(s) \in Nat /\ Len(new) = Len(s) + 1
      /\ \A i \in 1..Len(s) : new[i] = s[i]
      /\ new[Len(s) + 1] = e
  BY <1>1, AppendProperties, LenProperties
<1> HIDE DEF new
<1>3. \E n \in Nat : new \in [1..n -> T]
  BY <1>2, LenProperties
<1> HIDE DEF T
<1>4. new \in Seq(T)
  BY <1>3, SeqDef
<1> QED
  BY <1>2, <1>4 DEF new, T, IsList

\* What is left of a sequence when its first went.
LEMMA ShrunkList ==
  ASSUME NEW s, IsList(s), s # <<>>
  PROVE  /\ IsList(Tail(s))
         /\ Len(s) \in Nat \ {0} /\ Len(Tail(s)) = Len(s) - 1
         /\ \A i \in 1..Len(Tail(s)) : Tail(s)[i] = s[i + 1]
         /\ Head(s) = s[1]
<1> DEFINE S == {s[i] : i \in DOMAIN s}
           new == Tail(s)
           T == {new[i] : i \in DOMAIN new}
<1>1. s \in Seq(S)
  BY DEF IsList
<1> HIDE DEF S
<1>2. /\ new \in Seq(S) /\ Len(s) \in Nat \ {0} /\ Len(new) = Len(s) - 1
      /\ \A i \in 1..Len(new) : new[i] = s[i + 1]
      /\ Head(s) = s[1]
  BY <1>1, HeadTailProperties, LenProperties
<1> HIDE DEF new
<1>3. \E n \in Nat : new \in [1..n -> T]
  BY <1>2, LenProperties
<1> HIDE DEF T
<1>4. new \in Seq(T)
  BY <1>3, SeqDef
<1> QED
  BY <1>2, <1>4 DEF new, T, IsList

\* A patch that leaves its goroutine joins those that are on their way.
LEMMA EmitTokens ==
  ASSUME TokenInv, SoundInv, NEW n \in Readers, Emit(n)
  PROVE  TokenInv'
<1>a. TokensKnown /\ OneAsked /\ FirstIsFirst /\ MoreIsPaging /\ OneBearer
  BY DEF TokenInv
<1>b. DOMAIN notices = Readers /\ NoticeSound(notices[n])
  BY DEF SoundInv, NoticesSound
<1>1. PICK m : m = notices[n]
  OBVIOUS
<1>2. m.at = "emit" /\ DOMAIN m = NoticeFields
  <2>1. m.at = "emit"
    BY <1>1 DEF Emit
  <2>2. m # Idle
    BY <2>1 DEF Idle
  <2> QED
    BY <1>b, <1>1, <2>1, <2>2 DEF NoticeSound
<1>3. /\ wire' = Append(wire, m.delta)
      /\ notices' = [notices EXCEPT ![n] = Onward(m)]
      /\ UNCHANGED <<heap, tables, requests, answers, win, loads>>
      /\ crossed => crossed'
  BY <1>1 DEF Emit, tableVars
<1>4. /\ IsList(wire')
      /\ Len(wire) \in Nat /\ Len(wire') = Len(wire) + 1
      /\ \A i \in 1..Len(wire) : wire'[i] = wire[i]
      /\ wire'[Len(wire) + 1] = m.delta
  BY <1>a, <1>3, GrownList DEF TokensKnown
<1>5. /\ notices'[n].at # "emit"
      /\ \A j \in Readers \ {n} : notices'[j] = notices[j]
  BY <1>b, <1>2, <1>3, OnwardSendsNothing
<1>6. \A d : UnderWay(d)' => UnderWay(d)
  <2> SUFFICES ASSUME NEW d, UnderWay(d)' PROVE UnderWay(d)
    OBVIOUS
  <2>1. CASE \E i \in 1..Len(wire') : d = wire'[i]
    <3>1. PICK i \in 1..Len(wire') : d = wire'[i]
      BY <2>1
    <3>2. i \in 1..Len(wire) \/ i = Len(wire) + 1
      BY <1>4
    <3> QED
      BY <1>1, <1>2, <1>4, <3>1, <3>2 DEF UnderWay
  <2>2. CASE \E j \in Readers : notices'[j].at = "emit" /\ d = notices'[j].delta
    BY <1>5, <2>2 DEF UnderWay
  <2> QED
    BY <2>1, <2>2 DEF UnderWay
<1>7. \A x : (Own(x)' <=> Own(x)) /\ (Known(x)' <=> Known(x))
  BY <1>3 DEF Own, Known
<1>8. TokensKnown'
  <2>1. \A d : UnderWay(d)' => Known(d)' /\ d.order \in Seq(Objects)
    BY <1>a, <1>6, <1>7 DEF TokensKnown
  <2> QED
    BY <1>a, <1>3, <1>4, <1>7, <2>1 DEF TokensKnown
<1>9. OneAsked' /\ MoreIsPaging'
  BY <1>a, <1>3 DEF OneAsked, MoreIsPaging, Own
<1>10. FirstIsFirst'
  BY <1>a, <1>3, <1>6, <1>7 DEF FirstIsFirst, Own
<1>11. OneBearer'
  <2>1. \A i : Bears(i)' => Bears(i)
    BY <1>3, <1>5 DEF Bears, Own
  <2> QED
    BY <1>a, <1>3, <2>1 DEF OneBearer
<1> QED
  BY <1>8, <1>9, <1>10, <1>11 DEF TokenInv

\* The last of the windows to come stays what it is when the patch that brings
\* it about takes its place behind those on their way.
LEMMA PatchLeaves ==
  ASSUME TokenInv, WindowFollows, SoundInv, NEW n \in Readers, Emit(n)
  PROVE  WindowFollows'
<1>b. DOMAIN notices = Readers /\ NoticeSound(notices[n])
  BY DEF SoundInv, NoticesSound
<1>1. PICK m : m = notices[n]
  OBVIOUS
<1>2. m.at = "emit" /\ DOMAIN m = NoticeFields
  <2>1. m.at = "emit"
    BY <1>1 DEF Emit
  <2>2. m # Idle
    BY <2>1 DEF Idle
  <2> QED
    BY <1>b, <1>1, <2>1, <2>2 DEF NoticeSound
<1>3. /\ wire' = Append(wire, m.delta)
      /\ notices' = [notices EXCEPT ![n] = Onward(m)]
      /\ UNCHANGED <<heap, tables, requests, answers, win, loads>>
      /\ ~crossed' => ~crossed /\ \A j \in Readers \ {n} : ~(notices[j].at = "emit" /\ notices[j].id = m.id)
  BY <1>1 DEF Emit, tableVars
<1>4. /\ Len(wire) \in Nat /\ Len(wire') = Len(wire) + 1
      /\ \A i \in 1..Len(wire) : wire'[i] = wire[i]
      /\ wire'[Len(wire) + 1] = m.delta
  BY <1>3, GrownList DEF TokenInv, TokensKnown
<1>5. /\ notices'[n].at \notin {"patch", "emit"}
      /\ \A j \in Readers \ {n} : notices'[j] = notices[j]
  BY <1>b, <1>2, <1>3, OnwardSendsNothing
<1> SUFFICES ASSUME Current', Undoomed' PROVE WindowFollows'
  BY DEF WindowFollows
<1>6. Table' = Table /\ Current
  BY <1>3 DEF Current, Table
<1>7. /\ ~Emits(n)' /\ \A j \in Readers \ {n} : Emits(j)' <=> Emits(j)
      /\ Emits(n) <=> m.id = Table
  BY <1>1, <1>2, <1>5, <1>6 DEF Emits
<1>8. ~crossed' /\ win.token > 0
  BY <1>3 DEF Current
<1>9. Emits(n) => \A j \in Readers \ {n} : ~Emits(j)
  BY <1>3, <1>7, <1>8 DEF Emits
<1>10. Undoomed
  <2>1. \A r \in requests : r.at = "page" /\ r.id = Table => Own(r)
    BY <1>3, <1>6 DEF Undoomed, Own
  <2>2. \A j, k \in Readers : Emits(j) /\ Emits(k) => j = k
    BY <1>7, <1>9 DEF Undoomed
  <2>3. ASSUME NEW x \in requests \cup answers, Own(x), x.offset > 0, NEW i \in 1..Len(wire)
        PROVE  ~Own(wire[i])
    <3>1. x \in requests' \cup answers' /\ Own(x)' /\ i \in 1..Len(wire')
      BY <1>3, <1>4, <2>3 DEF Own
    <3>2. ~Own(wire[i])'
      BY <2>3, <3>1 DEF Undoomed
    <3> QED
      BY <1>3, <1>4, <3>2 DEF Own
  <2> QED
    BY <2>1, <2>2, <2>3 DEF Undoomed
<1>11. PICK ws, w : Arrive(ws) /\ Ends(w, ws[Len(wire) + 1]) /\ Follows(w)
  BY <1>6, <1>10 DEF WindowFollows
<1>12. PICK f : f = ws[Len(wire) + 1]
  OBVIOUS
<1>13. IsWindow(f, win.token, win.view)
  BY <1>4, <1>11, <1>12 DEF Arrive
<1>14. PICK last : last = Shows(f, m.delta)
  OBVIOUS
<1>15. IsWindow(last, win.token, win.view)
  BY <1>13, <1>14, PatchedFields DEF Shows
<1>16. PICK us : us = [i \in 1..(Len(wire) + 2) |-> IF i = Len(wire) + 2 THEN last ELSE ws[i]]
  OBVIOUS
<1>17. us[Len(wire) + 2] = last /\ \A i \in 1..(Len(wire) + 1) : us[i] = ws[i]
  BY <1>4, <1>16
<1>18. Arrive(us)'
  <2>1. Opens(us[1])'
    <3>1. us[1] = ws[1] /\ Opens(ws[1])
      BY <1>4, <1>11, <1>17 DEF Arrive
    <3> QED
      BY <1>3, <3>1 DEF Opens, Own
  <2>2. ASSUME NEW i \in 1..(Len(wire') + 1) PROVE IsWindow(us[i], win.token, win.view)
    <3>1. i \in 1..(Len(wire) + 1) \/ i = Len(wire) + 2
      BY <1>4
    <3> QED
      BY <1>11, <1>15, <1>17, <3>1 DEF Arrive
  <2>3. ASSUME NEW i \in 1..Len(wire') PROVE us[i + 1] = Shows(us[i], wire'[i])
    <3>1. CASE i \in 1..Len(wire)
      <4>1. i + 1 \in 1..(Len(wire) + 1) /\ i \in 1..(Len(wire) + 1)
        BY <1>4, <3>1
      <4> QED
        BY <1>4, <1>11, <1>17, <3>1, <4>1 DEF Arrive
    <3>2. CASE i = Len(wire) + 1
      <4>1. i + 1 = Len(wire) + 2 /\ i \in 1..(Len(wire) + 1)
        BY <1>4, <3>2
      <4> QED
        BY <1>4, <1>12, <1>14, <1>17, <3>2, <4>1
    <3> QED
      BY <1>4, <3>1, <3>2
  <2> QED
    BY <1>3, <2>1, <2>2, <2>3 DEF Arrive
<1>19. Ends(w, us[Len(wire) + 1])'
  <2>1. us[Len(wire') + 1] = last
    BY <1>4, <1>17
  <2>2. CASE m.id = Table
    <3>1. \A j \in Readers : ~Emits(j)'
      BY <1>7, <1>9, <2>2
    <3>2. w = last
      BY <1>1, <1>7, <1>9, <1>11, <1>12, <1>14, <2>2 DEF Ends
    <3> QED
      BY <2>1, <3>1, <3>2 DEF Ends
  <2>3. CASE m.id # Table
    <3>1. ~Own(m.delta)
      <4>1. Table \in DOMAIN heap /\ Own(heap[Table])
        <5>1. win.view \in Views /\ Table # 0
          BY <1>6 DEF Current, SoundInv, WinSound
        <5> QED
          BY <1>6, <5>1 DEF Current, SoundInv, TablesSound, Made, Table, Own
      <4>2. Bears(Table)
        BY <4>1 DEF Bears
      <4>3. Own(m.delta) => Bears(m.id)
        BY <1>1, <1>2 DEF Bears
      <4> QED
        BY <1>3, <1>8, <2>3, <4>2, <4>3 DEF TokenInv, OneBearer
    <3>2. last = f
      BY <1>13, <1>14, <3>1 DEF Shows, Own, IsWindow
    <3>3. \A j \in Readers : (Emits(j)' <=> Emits(j)) /\ (Emits(j) => notices'[j] = notices[j])
      BY <1>5, <1>7, <2>3
    <3>4. \A j \in Readers : Emits(j)' => notices'[j].delta = notices[j].delta
      BY <3>3
    <3> QED
      BY <1>11, <1>12, <2>1, <3>2, <3>3, <3>4 DEF Ends
  <2> QED
    BY <2>2, <2>3
<1>20. Follows(w)'
  <2>1. \A o : Mended(o) => Mended(o)'
    <3> SUFFICES ASSUME NEW o, Mended(o) PROVE Mended(o)'
      OBVIOUS
    <3>1. PICK j \in Readers :
            /\ notices[j].at = "patch" /\ notices[j].id = Table
            /\ IF heap[Table].rows[o] = Absent THEN notices[j].reordered ELSE o \in notices[j].touched
      BY DEF Mended
    <3>2. notices'[j] = notices[j]
      BY <1>1, <1>2, <1>5, <3>1
    <3> QED
      BY <1>3, <1>6, <3>1, <3>2 DEF Mended
  <2>2. IsWindow(w, win.token, win.view)' /\ Lists(w, heap[Table])'
    BY <1>3, <1>6, <1>11 DEF Follows, Lists
  <2>3. (\A o \in Range(heap[Table].sent) : w.shown[o] = heap[Table].rows[o] \/ Mended(o))'
    BY <1>3, <1>6, <1>11, <2>1 DEF Follows
  <2> QED
    BY <2>2, <2>3 DEF Follows
<1> QED
  BY <1>18, <1>19, <1>20 DEF WindowFollows

-----------------------------------------------------------------------------
(* The steps of the window *)

\* A load starts anew: nothing goes by its token but its own request.
LEMMA LoadFollows ==
  ASSUME TokenInv, SoundInv, SoundInv', Load
  PROVE  TokenInv' /\ WindowFollows'
<1>a. TokensKnown
  BY DEF TokenInv
<1>1. PICK v \in Views, q \in Queries :
        /\ win' = [view |-> v, token |-> loads', query |-> q,
                   order |-> IF win.view = v THEN win.order ELSE <<>>,
                   shown |-> IF win.view = v THEN win.shown ELSE Empty]
        /\ requests' = requests \cup
             {[token |-> loads', view |-> v, query |-> q, offset |-> 0, at |-> "read",
               rows |-> Empty, loading |-> FALSE, id |-> 0]}
  BY DEF Load
<1>2. PICK r : r = [token |-> loads', view |-> v, query |-> q, offset |-> 0, at |-> "read",
                    rows |-> Empty, loading |-> FALSE, id |-> 0]
  OBVIOUS
<1>3. /\ r.token = loads' /\ r.view = v /\ r.offset = 0
      /\ requests' = requests \cup {r}
  BY <1>1, <1>2
<1>4. /\ win'.token = loads' /\ win'.view = v /\ loads' = loads + 1 /\ loads \in Nat
      /\ win'.order \in Seq(Objects)
  BY <1>a, <1>1 DEF Load, TokensKnown
<1>5. UNCHANGED <<heap, tables, notices, answers, wire>>
  BY DEF Load, tableVars
<1>6. \A x : x.token \in 0..loads => ~Own(x)' /\ Known(x)'
  BY <1>4 DEF Own, Known
<1>7. Own(r)' /\ Known(r)' /\ r.token > 0
  BY <1>3, <1>4 DEF Own, Known
<1>8. /\ \A x \in requests : x.token \in 0..loads /\ x.token > 0 /\ x.offset \in Nat
      /\ \A x \in answers : x.token \in 0..loads /\ x.token > 0 /\ x.order \in Seq(Objects)
      /\ \A i \in DOMAIN heap : heap[i].token \in 0..loads /\ heap[i].sent \in Seq(Objects)
      /\ \A d : UnderWay(d) => d.token \in 0..loads /\ d.order \in Seq(Objects)
  BY <1>a DEF TokensKnown, Known
<1>9. \A d : UnderWay(d)' <=> UnderWay(d)
  BY <1>5 DEF UnderWay
<1>10. TokensKnown'
  <2>1. (\A x \in requests : Known(x) /\ x.token > 0 /\ x.offset \in Nat)'
    BY <1>3, <1>6, <1>7, <1>8
  <2>2. (\A x \in answers : Known(x) /\ x.token > 0 /\ x.order \in Seq(Objects))'
    BY <1>5, <1>6, <1>8
  <2>3. (\A i \in DOMAIN heap : Known(heap[i]) /\ heap[i].sent \in Seq(Objects))'
    BY <1>5, <1>6, <1>8 DEF Known, Own
  <2>4. \A d : UnderWay(d)' => Known(d)' /\ d.order \in Seq(Objects)
    BY <1>6, <1>8, <1>9
  <2> QED
    BY <1>a, <1>4, <1>5, <2>1, <2>2, <2>3, <2>4 DEF TokensKnown
<1>11. \A x \in requests' : Own(x)' => x = r
  BY <1>3, <1>6, <1>8
<1>12. \A x \in answers' : ~Own(x)'
  BY <1>5, <1>6, <1>8
<1>13. OneAsked'
  BY <1>11, <1>12 DEF OneAsked, Own
<1>14. MoreIsPaging'
  BY <1>3, <1>11 DEF MoreIsPaging, Own
<1>15. /\ \A i \in DOMAIN heap' : ~Own(heap[i])'
       /\ \A d : UnderWay(d)' => ~Own(d)'
  BY <1>5, <1>6, <1>8, <1>9 DEF Own
<1>16. FirstIsFirst'
  BY <1>15 DEF FirstIsFirst, Own
<1>17. OneBearer'
  <2>1. \A i : ~Bears(i)'
    BY <1>15 DEF Bears, UnderWay, Own
  <2> QED
    BY <2>1 DEF OneBearer
<1>18. ~Current'
  <2> SUFFICES ASSUME Current' PROVE FALSE
    OBVIOUS
  <2>1. win'.view \in Views /\ Table' # 0 /\ heap'[Table'].token = win'.token /\ win'.token > 0
    BY <1>1, <1>4 DEF Current
  <2>2. Table' \in DOMAIN heap'
    BY <2>1 DEF SoundInv, TablesSound, Made, Table
  <2> QED
    BY <1>15, <2>1, <2>2 DEF Own
<1> QED
  BY <1>10, <1>13, <1>14, <1>16, <1>17, <1>18 DEF TokenInv, WindowFollows

\* A request for more goes by the token of the load, which asks for nothing else.
LEMMA MoreFollows ==
  ASSUME TokenInv, WindowFollows, SoundInv, SoundInv', More
  PROVE  TokenInv' /\ WindowFollows'
<1>a. TokensKnown /\ OneAsked /\ FirstIsFirst /\ MoreIsPaging /\ OneBearer
  BY DEF TokenInv
<1>2. PICK r : r = [token |-> win.token, view |-> win.view, query |-> win.query,
                    offset |-> Len(win.order),
                    at |-> IF tables[win.view] # 0 THEN "page" ELSE "read",
                    rows |-> Empty, loading |-> FALSE, id |-> tables[win.view]]
  OBVIOUS
<1>3. /\ r.token = win.token /\ r.view = win.view /\ r.offset = Len(win.order)
      /\ r.at = "page" \/ tables[win.view] = 0
  BY <1>2
<1>4. /\ requests' = requests \cup {r}
      /\ UNCHANGED <<heap, tables, notices, answers, wire, win, loads>>
      /\ crossed' = (crossed \/ tables[win.view] = 0)
      /\ win.token > 0 /\ win.order # <<>>
      /\ \A x \in requests \cup answers : ~Own(x)
  BY <1>2 DEF More, Own
<1>5. r.offset \in Nat /\ r.offset > 0
  <2>1. win.order \in Seq(Objects)
    BY <1>a DEF TokensKnown
  <2> QED
    BY <1>3, <1>4, <2>1
<1>6. \A x : (Own(x)' <=> Own(x)) /\ (Known(x)' <=> Known(x))
  BY <1>4 DEF Own, Known
<1>7. Own(r) /\ Known(r)
  BY <1>a, <1>3 DEF Own, Known, TokensKnown
<1>8. \A d : UnderWay(d)' <=> UnderWay(d)
  BY <1>4 DEF UnderWay
<1>9. TokensKnown'
  <2>1. (\A x \in requests : Known(x) /\ x.token > 0 /\ x.offset \in Nat)'
    BY <1>a, <1>3, <1>4, <1>5, <1>6, <1>7 DEF TokensKnown
  <2>2. (\A x \in answers : Known(x) /\ x.token > 0 /\ x.order \in Seq(Objects))'
    BY <1>a, <1>4, <1>6 DEF TokensKnown
  <2>3. (\A i \in DOMAIN heap : Known(heap[i]) /\ heap[i].sent \in Seq(Objects))'
    BY <1>a, <1>4 DEF TokensKnown, Known, Own
  <2>4. \A d : UnderWay(d)' => Known(d)' /\ d.order \in Seq(Objects)
    BY <1>a, <1>6, <1>8 DEF TokensKnown
  <2> QED
    BY <1>a, <1>4, <2>1, <2>2, <2>3, <2>4 DEF TokensKnown
<1>10. OneAsked'
  BY <1>4, <1>6 DEF OneAsked, Own
<1>11. MoreIsPaging'
  BY <1>3, <1>4, <1>6 DEF MoreIsPaging, Own
<1>12. FirstIsFirst'
  BY <1>4, <1>5, <1>6 DEF FirstIsFirst, Own
<1>13. OneBearer'
  <2>1. \A i : Bears(i)' => Bears(i)
    BY <1>4 DEF Bears, Own
  <2> QED
    BY <1>a, <1>4, <2>1 DEF OneBearer
<1>14. ASSUME Current', Undoomed' PROVE WindowFollows'
  <2>1. Table' = Table /\ Current
    BY <1>4, <1>14 DEF Current, Table
  <2>2. Undoomed
    BY <1>4, <1>14, <2>1 DEF Undoomed, Own, Emits
  <2>3. \A n \in Readers : SameToTable(n)
    BY <1>4 DEF SameToTable
  <2> QED
    BY <1>4, <2>1, <2>2, <2>3, SameTable
<1> QED
  BY <1>9, <1>10, <1>11, <1>12, <1>13, <1>14 DEF TokenInv, WindowFollows

\* What reaches the window leaves its token and its view as they are.
LEMMA SameTokens ==
  ASSUME TokenInv, UNCHANGED <<heap, tables, notices, requests, loads>>, crossed => crossed',
         IsWindow(win', win.token, win.view), win'.order \in Seq(Objects),
         answers' \subseteq answers, IsList(wire'), \A d : UnderWay(d)' => UnderWay(d)
  PROVE  TokenInv' /\ \A x : (Own(x)' <=> Own(x))
<1>a. TokensKnown /\ OneAsked /\ FirstIsFirst /\ MoreIsPaging /\ OneBearer
  BY DEF TokenInv
<1>b. win'.token = win.token /\ win'.view = win.view
  BY DEF IsWindow
<1>1. \A x : (Own(x)' <=> Own(x)) /\ (Known(x)' <=> Known(x))
  BY <1>b DEF Own, Known
<1>2. TokensKnown'
  <2>1. (\A x \in requests : Known(x) /\ x.token > 0 /\ x.offset \in Nat)'
    BY <1>a, <1>1 DEF TokensKnown
  <2>2. (\A x \in answers : Known(x) /\ x.token > 0 /\ x.order \in Seq(Objects))'
    BY <1>a, <1>1 DEF TokensKnown
  <2>3. (\A i \in DOMAIN heap : Known(heap[i]) /\ heap[i].sent \in Seq(Objects))'
    BY <1>a, <1>b DEF TokensKnown, Known, Own
  <2>4. \A d : UnderWay(d)' => Known(d)' /\ d.order \in Seq(Objects)
    BY <1>a, <1>1 DEF TokensKnown
  <2> QED
    BY <1>a, <1>b, <2>1, <2>2, <2>3, <2>4 DEF TokensKnown
<1>3. OneAsked' /\ MoreIsPaging'
  BY <1>a, <1>b DEF OneAsked, MoreIsPaging, Own
<1>4. FirstIsFirst'
  BY <1>a, <1>b, <1>1 DEF FirstIsFirst, Own
<1>5. OneBearer'
  <2>1. \A i : Bears(i)' => Bears(i)
    BY <1>b DEF Bears, Own
  <2> QED
    BY <1>a, <1>b, <2>1 DEF OneBearer
<1> QED
  BY <1>1, <1>2, <1>3, <1>4, <1>5 DEF TokenInv

\* The table's side of the accord, when the window moves on.
LEMMA SameEnd ==
  ASSUME UNCHANGED <<heap, tables, notices>>, win'.token = win.token, win'.view = win.view,
         NEW f, NEW w, Ends(w, f), Follows(w)
  PROVE  Ends(w, f)' /\ Follows(w)'
<1>1. Table' = Table
  BY DEF Table
<1>2. \A n \in Readers : Emits(n)' <=> Emits(n)
  BY <1>1 DEF Emits
<1>3. Ends(w, f)'
  BY <1>2 DEF Ends
<1>4. \A o : Mended(o)' <=> Mended(o)
  BY <1>1 DEF Mended
<1>5. IsWindow(w, win.token, win.view)' /\ Lists(w, heap[Table])'
  BY <1>1 DEF Follows, IsWindow, Lists
<1>6. (\A o \in Range(heap[Table].sent) : w.shown[o] = heap[Table].rows[o] \/ Mended(o))'
  BY <1>1, <1>4 DEF Follows
<1> QED
  BY <1>3, <1>5, <1>6 DEF Follows

\* An answer of objects leaves the window with an order of objects.
LEMMA ReceivedOrder ==
  ASSUME NEW w, NEW token, NEW view, IsWindow(w, token, view), w.order \in Seq(Objects),
         NEW a, a.order \in Seq(Objects)
  PROVE  IsWindow(Received(w, a), token, view) /\ Received(w, a).order \in Seq(Objects)
<1>1. /\ Accepted(w, a).order = a.order
      /\ Appended(w, a).order = w.order \o Added(w, a)
      /\ IsWindow(Received(w, a), token, view)
  BY ReceivedFields
<1>2. Added(w, a) \in Seq(Objects)
  BY KeepingLists DEF Added
<1>3. w.order \o Added(w, a) \in Seq(Objects)
  BY <1>2
<1> QED
  BY <1>1, <1>3 DEF Received

\* An answer that reaches the window is the first of the windows to come.
LEMMA ReceiveFollows ==
  ASSUME TokenInv, WindowFollows, SoundInv, Receive
  PROVE  TokenInv' /\ WindowFollows'
<1>a. TokensKnown /\ OneAsked
  BY DEF TokenInv
<1>1. PICK a \in answers :
        /\ answers' = answers \ {a}
        /\ win' = IF a.view # win.view THEN win ELSE Received(win, a)
        /\ crossed' = (crossed \/ (a.view = win.view
                                   /\ (a.token # win.token \/ (a.offset > 0 /\ wire # <<>>))))
  BY DEF Receive, Received
<1>2. UNCHANGED <<heap, tables, notices, requests, wire, loads>>
  BY DEF Receive, tableVars
<1>3. IsWindow(win, win.token, win.view)
  BY DEF IsWindow, SoundInv, WinSound
<1>4. a.order \in Seq(Objects) /\ win.order \in Seq(Objects)
  BY <1>a DEF TokensKnown
<1>5. IsWindow(Received(win, a), win.token, win.view) /\ Received(win, a).order \in Seq(Objects)
  BY <1>3, <1>4, ReceivedOrder
<1>6. IsWindow(win', win.token, win.view) /\ win'.order \in Seq(Objects)
  BY <1>1, <1>3, <1>4, <1>5
<1>7. \A d : UnderWay(d)' => UnderWay(d)
  BY <1>2 DEF UnderWay
<1>8. TokenInv' /\ \A x : Own(x)' <=> Own(x)
  BY <1>a, <1>1, <1>2, <1>6, <1>7, SameTokens DEF TokensKnown
<1>9. ASSUME Current', Undoomed' PROVE WindowFollows'
  <2>0. win'.token = win.token /\ win'.view = win.view
    BY <1>6 DEF IsWindow
  <2>1. Table' = Table /\ Current /\ ~crossed'
    BY <1>1, <1>2, <1>9, <2>0 DEF Current, Table
  <2>2. a.view = win.view => Own(a) /\ (a.offset > 0 => wire = <<>>)
    BY <1>1, <2>1 DEF Own
  <2>3. Undoomed
    <3>1. \A r \in requests : r.at = "page" /\ r.id = Table => Own(r)
      BY <1>2, <1>8, <1>9, <2>0, <2>1 DEF Undoomed, Own
    <3>2. \A m, n \in Readers : Emits(m) /\ Emits(n) => m = n
      BY <1>2, <1>9, <2>1 DEF Undoomed, Emits
    <3>3. ASSUME NEW x \in requests \cup answers, Own(x), x.offset > 0, NEW i \in 1..Len(wire)
          PROVE  ~Own(wire[i])
      <4>1. CASE x = a
        <5>1. a.view = win.view
          BY <1>a, <2>1, <3>3, <4>1 DEF TokensKnown, Known, Current
        <5>2. wire = <<>>
          BY <2>2, <3>3, <4>1, <5>1
        <5> QED
          BY <3>3, <5>2
      <4>2. CASE x # a
        <5>1. x \in requests' \cup answers'
          BY <1>1, <1>2, <3>3, <4>2
        <5> QED
          BY <1>2, <1>9, <2>0, <3>3, <5>1 DEF Undoomed, Own
      <4> QED
        BY <4>1, <4>2
    <3> QED
      BY <3>1, <3>2, <3>3 DEF Undoomed
  <2>4. PICK ws, w : Arrive(ws) /\ Ends(w, ws[Len(wire) + 1]) /\ Follows(w)
    BY <2>1, <2>3 DEF WindowFollows
  <2>5. Opens(ws[1])'
    <3>1. CASE Own(a)
      <4>1. a.view = win.view
        BY <1>a, <2>1, <3>1 DEF TokensKnown, Known, Current
      <4>2. \A b \in answers : Own(b) => b = a
        BY <1>a, <3>1 DEF OneAsked
      <4>3. ws[1] = Received(win, a)
        BY <2>4, <3>1, <4>2 DEF Arrive, Opens
      <4>4. ws[1] = win'
        BY <1>1, <4>1, <4>3
      <4>5. \A b \in answers' : ~Own(b)'
        BY <1>1, <1>8, <4>2
      <4> QED
        BY <4>4, <4>5 DEF Opens
    <3>2. CASE ~Own(a)
      <4>1. win' = win
        BY <1>1, <2>2, <3>2
      <4>2. \A b : Own(b) => (b \in answers' <=> b \in answers)
        BY <1>1, <3>2
      <4>3. Opens(ws[1])
        BY <2>4 DEF Arrive
      <4> QED
        BY <4>1, <4>2, <4>3 DEF Opens, Own
    <3> QED
      BY <3>1, <3>2
  <2>6. Arrive(ws)'
    BY <1>2, <2>0, <2>4, <2>5 DEF Arrive
  <2>7. Ends(w, ws[Len(wire) + 1])' /\ Follows(w)'
    <3>1. PICK f : f = ws[Len(wire) + 1]
      OBVIOUS
    <3>2. Ends(w, f)' /\ Follows(w)'
      BY <1>2, <2>0, <2>4, <3>1, SameEnd
    <3> QED
      BY <1>2, <3>1, <3>2
  <2> QED
    BY <2>6, <2>7 DEF WindowFollows
<1> QED
  BY <1>8, <1>9 DEF WindowFollows

\* A patch that reaches the window brings about the next of the windows to come.
LEMMA PatchFollows ==
  ASSUME TokenInv, WindowFollows, SoundInv, ApplyPatch
  PROVE  TokenInv' /\ WindowFollows'
<1>a. TokensKnown
  BY DEF TokenInv
<1>1. PICK d : d = Head(wire)
  OBVIOUS
<1>2. /\ wire' = Tail(wire) /\ win' = Shows(win, d) /\ wire # <<>>
      /\ crossed' = (crossed \/ (Own(d) /\ \E a \in answers \cup requests : Own(a)))
      /\ UNCHANGED <<heap, tables, notices, requests, answers, loads>>
  BY <1>1 DEF ApplyPatch, Shows, Own, tableVars
<1>3. /\ IsList(wire')
      /\ Len(wire) \in Nat \ {0} /\ Len(wire') = Len(wire) - 1
      /\ \A i \in 1..Len(wire') : wire'[i] = wire[i + 1]
      /\ d = wire[1]
  BY <1>a, <1>1, <1>2, ShrunkList DEF TokensKnown
<1>4. /\ \A i \in 1..Len(wire') : i + 1 \in 1..Len(wire)
      /\ 1 \in 1..Len(wire)
      /\ \A i \in 1..Len(wire) : i = 1 \/ (i - 1 \in 1..Len(wire') /\ wire'[i - 1] = wire[i])
  <2>1. \A i \in 1..Len(wire') : i + 1 \in 1..Len(wire)
    BY <1>3
  <2>2. 1 \in 1..Len(wire)
    BY <1>3
  <2>3. ASSUME NEW i \in 1..Len(wire), i # 1
        PROVE  i - 1 \in 1..Len(wire') /\ wire'[i - 1] = wire[i]
    <3>1. i - 1 \in 1..Len(wire') /\ (i - 1) + 1 = i
      BY <1>3, <2>3
    <3>2. wire'[i - 1] = wire[(i - 1) + 1]
      BY <1>3, <3>1
    <3> QED
      BY <3>1, <3>2
  <2> QED
    BY <2>1, <2>2, <2>3
<1>5. \A x : UnderWay(x)' => UnderWay(x)
  <2> SUFFICES ASSUME NEW x, UnderWay(x)' PROVE UnderWay(x)
    OBVIOUS
  <2>1. CASE \E i \in 1..Len(wire') : x = wire'[i]
    BY <1>3, <1>4, <2>1 DEF UnderWay
  <2>2. CASE \E n \in Readers : notices'[n].at = "emit" /\ x = notices'[n].delta
    BY <1>2, <2>2 DEF UnderWay
  <2> QED
    BY <2>1, <2>2 DEF UnderWay
<1>6. d.order \in Seq(Objects) /\ win.order \in Seq(Objects)
  <2>1. UnderWay(d)
    BY <1>3, <1>4 DEF UnderWay
  <2> QED
    BY <1>a, <2>1 DEF TokensKnown
<1>7. IsWindow(win', win.token, win.view) /\ win'.order \in Seq(Objects)
  <2>1. IsWindow(win, win.token, win.view)
    BY DEF IsWindow, SoundInv, WinSound
  <2> DEFINE S == {o \in Objects : Held(win, d)[o] # Absent}
  <2>2. /\ IsWindow(Patched(win, d), win.token, win.view)
        /\ Patched(win, d).order = IF d.order # <<>> THEN Keeping(d.order, S) ELSE win.order
    BY <2>1, PatchedFields
  <2> HIDE DEF S
  <2>3. Keeping(d.order, S) \in Seq(Objects)
    BY <1>6, KeepingLists
  <2> QED
    BY <1>2, <1>6, <2>1, <2>2, <2>3 DEF Shows
<1>8. TokenInv' /\ \A x : Own(x)' <=> Own(x)
  BY <1>2, <1>3, <1>5, <1>7, SameTokens
<1>9. ASSUME Current', Undoomed' PROVE WindowFollows'
  <2>0. win'.token = win.token /\ win'.view = win.view
    BY <1>7 DEF IsWindow
  <2>1. Table' = Table /\ Current /\ ~crossed'
    BY <1>2, <1>9, <2>0 DEF Current, Table
  <2>2. Own(d) => \A a \in answers \cup requests : ~Own(a)
    BY <1>2, <2>1
  <2>3. Undoomed
    <3>1. \A r \in requests : r.at = "page" /\ r.id = Table => Own(r)
      BY <1>2, <1>9, <2>0, <2>1 DEF Undoomed, Own
    <3>2. \A m, n \in Readers : Emits(m) /\ Emits(n) => m = n
      BY <1>2, <1>9, <2>1 DEF Undoomed, Emits
    <3>3. ASSUME NEW x \in requests \cup answers, Own(x), x.offset > 0, NEW i \in 1..Len(wire)
          PROVE  ~Own(wire[i])
      <4>1. CASE i = 1
        BY <1>3, <2>2, <3>3, <4>1
      <4>2. CASE i # 1
        <5>1. i - 1 \in 1..Len(wire') /\ wire'[i - 1] = wire[i]
          BY <1>4, <3>3, <4>2
        <5>2. \A j \in 1..Len(wire') : wire'[j].token # win.token
          BY <1>2, <1>9, <2>0, <3>3 DEF Undoomed, Own
        <5> QED
          BY <5>1, <5>2 DEF Own
      <4> QED
        BY <4>1, <4>2
    <3> QED
      BY <3>1, <3>2, <3>3 DEF Undoomed
  <2>4. PICK ws, w : Arrive(ws) /\ Ends(w, ws[Len(wire) + 1]) /\ Follows(w)
    BY <2>1, <2>3 DEF WindowFollows
  <2>5. PICK us : us = [i \in 1..Len(wire) |-> ws[i + 1]]
    OBVIOUS
  <2>6. us[Len(wire') + 1] = ws[Len(wire) + 1] /\ us[1] = Shows(ws[1], d)
    BY <1>3, <1>4, <2>4, <2>5 DEF Arrive
  <2>7. Opens(us[1])'
    <3>0. Opens(ws[1])
      BY <2>4 DEF Arrive
    <3>1. CASE Own(d)
      <4>1. (\A a \in answers : ~Own(a)) /\ ws[1] = win
        BY <2>2, <3>0, <3>1 DEF Opens
      <4>2. us[1] = win'
        BY <1>2, <2>6, <4>1
      <4>3. \A a \in answers' : ~Own(a)'
        BY <1>2, <1>8, <4>1
      <4> QED
        BY <4>2, <4>3 DEF Opens
    <3>2. CASE ~Own(d)
      <4>1. win' = win
        BY <1>2, <3>2 DEF Shows, Own
      <4>2. ws[1].token = win.token
        BY <1>3, <2>4 DEF Arrive, IsWindow
      <4>3. us[1] = ws[1]
        BY <2>6, <3>2, <4>2 DEF Shows, Own
      <4> QED
        BY <1>2, <3>0, <4>1, <4>3 DEF Opens, Own
    <3> QED
      BY <3>1, <3>2
  <2>8. ASSUME NEW i \in 1..(Len(wire') + 1) PROVE IsWindow(us[i], win.token, win.view)
    <3>1. i \in 1..Len(wire) /\ i + 1 \in 1..(Len(wire) + 1)
      BY <1>3
    <3> QED
      BY <2>4, <2>5, <3>1 DEF Arrive
  <2>9. ASSUME NEW i \in 1..Len(wire') PROVE us[i + 1] = Shows(us[i], wire'[i])
    <3>1. /\ i \in 1..Len(wire) /\ i + 1 \in 1..Len(wire)
          /\ wire'[i] = wire[i + 1]
      BY <1>3, <1>4
    <3>2. ws[(i + 1) + 1] = Shows(ws[i + 1], wire[i + 1])
      BY <2>4, <3>1 DEF Arrive
    <3> QED
      BY <2>5, <3>1, <3>2
  <2>10. Arrive(us)'
    BY <2>0, <2>7, <2>8, <2>9 DEF Arrive
  <2>11. Ends(w, us[Len(wire) + 1])' /\ Follows(w)'
    <3>1. PICK f : f = ws[Len(wire) + 1]
      OBVIOUS
    <3>2. Ends(w, f)' /\ Follows(w)'
      BY <1>2, <2>0, <2>4, <3>1, SameEnd
    <3> QED
      BY <2>6, <3>1, <3>2
  <2> QED
    BY <2>10, <2>11 DEF WindowFollows
<1> QED
  BY <1>8, <1>9 DEF WindowFollows

-----------------------------------------------------------------------------
(* The page of a List *)

\* What page gives out and what it takes the frontend to hold: rows that are
\* there, each of them once.
LEMMA PageLists ==
  ASSUME NEW t, DOMAIN t = TableFields, t.rows \in Rows, NEW q, NEW token, NEW offset \in Nat
  PROVE  LET p == Page(t, q, token, offset)
         IN  /\ p.table.token = token /\ p.table.view = t.view /\ p.table.rows = t.rows
             /\ p.table.sent \in Seq(Objects) /\ p.window \in Seq(Objects)
             /\ \A i \in 1..Len(p.window) : t.rows[p.window[i]] # Absent
             /\ \A i, j \in 1..Len(p.table.sent) : p.table.sent[i] = p.table.sent[j] => i = j
             /\ offset = 0 => p.table.sent = p.window
             /\ offset > 0 /\ p.table.sent # <<>> => Len(p.table.sent) > Len(p.window)
<1> DEFINE p == Page(t, q, token, offset)
           order == Ordered(q, t.rows)
           window == WindowOf(order, offset)
           held == IF offset > Len(order) THEN order ELSE SubSeq(order, 1, offset + Len(window))
           total == Cardinality(Keyed(t.rows))
           last == IF offset + PageSize > Len(order) THEN Len(order) ELSE offset + PageSize
<1>1. /\ p.window = window
      /\ p.table = [t EXCEPT !.query = q, !.token = token, !.sent = held, !.total = total,
                             !.matched = Len(order), !.reported = t.loading]
  BY DEF Page, TableFields
<1>2. /\ order \in Seq(Objects) /\ Len(order) \in Nat
      /\ \A i \in 1..Len(order) : t.rows[order[i]] # Absent
      /\ \A i, j \in 1..Len(order) : order[i] = order[j] => i = j
  BY OrderedLists
<1>3. window = SubSeq(order, offset + 1, last)
  BY DEF WindowOf
<1> HIDE DEF order, total
<1>4. last \in Nat /\ last <= Len(order) /\ (offset <= Len(order) => offset <= last)
      /\ (offset > Len(order) => last < offset)
  BY <1>2, TableAssumption
<1> HIDE DEF last
<1>5. /\ window \in Seq(Objects)
      /\ Len(window) = IF offset + 1 <= last THEN last - offset ELSE 0
      /\ \A i \in 1..Len(window) : i + offset \in 1..Len(order) /\ window[i] = order[i + offset]
  <2>1. \A i \in (offset + 1)..last : order[i] \in Objects
    BY <1>2, <1>4
  <2>2. offset + 1 \in Int /\ last \in Int
    BY <1>4
  <2>3. /\ window \in Seq(Objects)
        /\ Len(window) = IF offset + 1 <= last THEN last - (offset + 1) + 1 ELSE 0
        /\ \A i \in 1..(last - (offset + 1) + 1) : window[i] = order[(offset + 1) + i - 1]
    BY <1>3, <2>1, <2>2, SubSeqProperties
  <2>4. ASSUME NEW i \in 1..Len(window)
        PROVE  i + offset \in 1..Len(order) /\ window[i] = order[i + offset]
    <3>1. i \in 1..(last - (offset + 1) + 1) /\ (offset + 1) + i - 1 = i + offset
      BY <1>4, <2>3
    <3>2. i + offset \in 1..Len(order)
      BY <1>2, <1>4, <3>1
    <3> QED
      BY <2>3, <3>1, <3>2
  <2> QED
    BY <1>4, <2>3, <2>4
<1> HIDE DEF window
<1>6. /\ held \in Seq(Objects)
      /\ offset <= Len(order) => Len(held) = offset + Len(window)
      /\ offset > Len(order) => Len(held) = Len(order) /\ Len(window) = 0
      /\ Len(held) \in 0..Len(order) /\ \A i \in 1..Len(held) : held[i] = order[i]
  <2>1. CASE offset > Len(order)
    BY <1>2, <1>4, <1>5, <2>1
  <2>2. CASE ~(offset > Len(order))
    <3>1. offset + Len(window) \in 0..Len(order)
      BY <1>2, <1>4, <1>5, <2>2
    <3>2. held = SubSeq(order, 1, offset + Len(window))
      BY <2>2
    <3> HIDE DEF held
    <3>3. /\ held \in Seq(Objects) /\ Len(held) = offset + Len(window)
          /\ \A i \in 1..(offset + Len(window)) : held[i] = order[i]
      BY <1>2, <3>1, <3>2, PrefixLists
    <3> QED
      BY <1>2, <2>2, <3>1, <3>3
  <2> QED
    BY <2>1, <2>2
<1> HIDE DEF held
<1>7. p.table.token = token /\ p.table.view = t.view /\ p.table.rows = t.rows /\ p.table.sent = held
  <2> HIDE DEF p
  <2> QED
    BY <1>1 DEF TableFields
<1>8. \A i \in 1..Len(window) : t.rows[window[i]] # Absent
  BY <1>2, <1>5
<1>9. \A i, j \in 1..Len(held) : held[i] = held[j] => i = j
  BY <1>2, <1>6
<1>10. ASSUME offset = 0 PROVE held = window
  <2>1. Len(held) = Len(window)
    BY <1>2, <1>6, <1>10
  <2>2. \A i \in 1..Len(held) : held[i] = window[i]
    BY <1>5, <1>6, <1>10, <2>1
  <2> QED
    BY <1>5, <1>6, <2>1, <2>2, SeqEqual
<1>11. ASSUME offset > 0, held # <<>> PROVE Len(held) > Len(window)
  <2>1. Len(held) # 0
    BY <1>6, <1>11
  <2> QED
    BY <1>2, <1>5, <1>6, <1>11, <2>1
<1> HIDE DEF p
<1> QED
  BY <1>1, <1>5, <1>6, <1>7, <1>8, <1>9, <1>10, <1>11 DEF p

\* Patches that do not go by the window's token leave it as the answers make it.
LEMMA AnswerAlone ==
  ASSUME IsList(wire), UNCHANGED <<win, wire>>, \A i \in 1..Len(wire) : ~Own(wire[i]),
         NEW w, IsWindow(w, win.token, win.view), Opens(w)'
  PROVE  \E ws : Arrive(ws)' /\ ws[Len(wire) + 1] = w
<1>1. Len(wire) \in Nat
  BY DEF IsList
<1>2. PICK ws : ws = [i \in 1..(Len(wire) + 1) |-> w]
  OBVIOUS
<1>3. ws[1] = w /\ ws[Len(wire) + 1] = w
  BY <1>1, <1>2
<1>4. \A i \in 1..Len(wire) : Shows(w, wire[i]) = w
  BY DEF Shows, IsWindow, Own
<1>5. \A i \in 1..Len(wire) : ws[i] = w /\ ws[i + 1] = w
  BY <1>1, <1>2
<1>6. \A i \in 1..(Len(wire) + 1) : ws[i] = w
  BY <1>2
<1>7. Arrive(ws)'
  BY <1>3, <1>4, <1>5, <1>6 DEF Arrive
<1> QED
  BY <1>3, <1>7

\* Patches that do not go by the window's token leave it as it is.
LEMMA NothingArrives ==
  ASSUME IsList(wire), \A i \in 1..Len(wire) : ~Own(wire[i]), NEW ws, Arrive(ws)
  PROVE  ws[Len(wire) + 1] = ws[1]
<1>1. Len(wire) \in Nat
  BY DEF IsList
<1>2. ASSUME NEW i \in 1..Len(wire) PROVE ws[i + 1] = ws[i]
  <2>1. i \in 1..(Len(wire) + 1)
    BY <1>1
  <2>2. ws[i].token = win.token
    BY <2>1 DEF Arrive, IsWindow
  <2> QED
    BY <2>2 DEF Arrive, Shows, Own
<1> DEFINE T == {i \in 1..(Len(wire) + 1) : ws[i] # ws[1]}
<1>3. T = {}
  <2> SUFFICES ASSUME T # {} PROVE FALSE
    OBVIOUS
  <2>1. T \subseteq Nat
    BY <1>1
  <2>2. PICK i \in T : \A j \in T : <<j, i>> \notin OpToRel(<, Nat)
    <3> HIDE DEF T
    <3> QED
      BY <2>1, NatLessThanWellFounded, WFMin
  <2>3. i \in 1..(Len(wire) + 1) /\ i # 1 /\ ws[i] # ws[1]
    OBVIOUS
  <2>4. i - 1 \in 1..Len(wire) /\ (i - 1) + 1 = i /\ i - 1 \in 1..(Len(wire) + 1)
    BY <1>1, <2>3
  <2>5. ws[i - 1] = ws[i]
    <3>1. ws[(i - 1) + 1] = ws[i - 1]
      BY <1>2, <2>4
    <3> QED
      BY <2>4, <3>1
  <2>6. i - 1 \in T
    BY <2>3, <2>4, <2>5
  <2>7. <<i - 1, i>> \in OpToRel(<, Nat)
    BY <2>1, <2>4, <1>1 DEF OpToRel
  <2> QED
    BY <2>2, <2>6, <2>7
<1>4. Len(wire) + 1 \in 1..(Len(wire) + 1)
  BY <1>1
<1> QED
  BY <1>3, <1>4

\* The window v shows the page p of the table t: its rows are those of the
\* table, and a row it had before the page as it had it.
PageShown(t, p, offset, w, v) ==
  /\ Lists(v, p.table)
  /\ \A o \in Range(p.table.sent) :
       \/ v.shown[o] = t.rows[o]
       \/ offset > 0 /\ o \in Range(t.sent) /\ v.shown[o] = w.shown[o]

\* The first page is what the window then shows; a continuation that found the
\* table as it left it adds what the window does not have.
LEMMA PageShows ==
  ASSUME NEW t, DOMAIN t = TableFields, t.rows \in Rows, NEW q, NEW token, NEW offset \in Nat,
         NEW p, p = Page(t, q, token, offset),
         NEW a, a.order = p.window, a.rows = t.rows, a.offset = offset,
         NEW w, IsWindow(w, token, t.view), NEW v, v = Received(w, a),
         offset > 0 => /\ Lists(w, t) /\ t.sent \in Seq(Objects)
                       /\ p.table.sent = t.sent \o p.window
  PROVE  IsWindow(v, token, t.view) /\ PageShown(t, p, offset, w, v)
<1>1. /\ p.table.rows = t.rows
      /\ p.table.sent \in Seq(Objects) /\ p.window \in Seq(Objects)
      /\ \A i \in 1..Len(p.window) : t.rows[p.window[i]] # Absent
      /\ \A i, j \in 1..Len(p.table.sent) : p.table.sent[i] = p.table.sent[j] => i = j
      /\ offset = 0 => p.table.sent = p.window
  BY PageLists
<1>2. IsWindow(v, token, t.view)
  BY ReceivedFields
<1>3. /\ Accepted(w, a).order = a.order
      /\ \A o \in Objects : Accepted(w, a).shown[o] =
           IF o \in Range(a.order) THEN a.rows[o] ELSE Absent
      /\ Appended(w, a).order = w.order \o Added(w, a)
      /\ \A o \in Objects : Appended(w, a).shown[o] =
           IF o \in Range(Added(w, a)) THEN a.rows[o] ELSE w.shown[o]
  <2>1. Accepted(w, a).order = a.order
    BY ReceivedFields
  <2>2. ASSUME NEW o \in Objects
        PROVE  Accepted(w, a).shown[o] = IF o \in Range(a.order) THEN a.rows[o] ELSE Absent
    <3>1. PICK all : all = [x \in Objects |-> IF x \in Range(a.order) THEN a.rows[x] ELSE Absent]
      OBVIOUS
    <3>2. Accepted(w, a) = [w EXCEPT !.order = a.order, !.shown = all]
      BY <3>1 DEF Accepted
    <3>3. Accepted(w, a).shown = all
      BY <3>2 DEF IsWindow, WinFields
    <3> QED
      BY <3>1, <3>3
  <2>3. Appended(w, a).order = w.order \o Added(w, a)
    BY ReceivedFields
  <2>4. ASSUME NEW o \in Objects
        PROVE  Appended(w, a).shown[o] = IF o \in Range(Added(w, a)) THEN a.rows[o] ELSE w.shown[o]
    <3>1. PICK more : more = [x \in Objects |-> IF x \in Range(Added(w, a)) THEN a.rows[x] ELSE w.shown[x]]
      OBVIOUS
    <3>2. Appended(w, a) = [w EXCEPT !.order = w.order \o Added(w, a), !.shown = more]
      BY <3>1 DEF Appended, Added, IsWindow, WinFields
    <3>3. Appended(w, a).shown = more
      BY <3>2 DEF IsWindow, WinFields
    <3> QED
      BY <3>1, <3>3
  <2> QED
    BY <2>1, <2>2, <2>3, <2>4
<1>4. /\ \A o \in Range(p.window) : o \in Objects /\ t.rows[o] # Absent
      /\ \A o \in Range(p.table.sent) : o \in Objects
  <2>1. Range(p.window) = {p.window[i] : i \in 1..Len(p.window)}
    BY <1>1, RangeEquality
  <2>2. \A i \in 1..Len(p.window) : p.window[i] \in Objects
    BY <1>1
  <2>3. \A o \in Range(p.table.sent) : o \in Objects
    BY <1>1, RangeOfSeq
  <2> QED
    BY <1>1, <2>1, <2>2, <2>3
<1>5. CASE offset = 0
  <2>1. v = Accepted(w, a)
    BY <1>5 DEF Received
  <2>2. v.order = p.table.sent
    BY <1>1, <1>3, <1>5, <2>1
  <2>3. \A o \in Objects : v.shown[o] = IF o \in Range(p.table.sent) THEN t.rows[o] ELSE Absent
    BY <1>1, <1>3, <1>5, <2>1
  <2>4. \A o \in Range(p.table.sent) : o \in Objects /\ t.rows[o] # Absent
    BY <1>1, <1>4, <1>5
  <2> QED
    BY <1>2, <2>2, <2>3, <2>4 DEF Lists, PageShown
<1>6. CASE offset > 0
  <2>1. v = Appended(w, a)
    BY <1>6 DEF Received
  <2>2. /\ w.order = t.sent /\ t.sent \in Seq(Objects)
        /\ \A o \in Objects : w.shown[o] # Absent <=> o \in Range(t.sent)
        /\ p.table.sent = t.sent \o p.window
    BY <1>6 DEF Lists
  <2>3. PICK sent, window, held : sent = t.sent /\ window = p.window /\ held = p.table.sent
    OBVIOUS
  <2>4. ASSUME NEW j \in 1..Len(p.window) PROVE p.window[j] \notin Range(t.sent)
    <3>1. sent \in Seq(Objects) /\ window \in Seq(Objects) /\ held = sent \o window
      BY <1>1, <2>2, <2>3
    <3>2. Len(sent) \in Nat /\ Len(window) \in Nat
      BY <3>1, LenProperties
    <3>3. /\ Len(held) = Len(sent) + Len(window)
          /\ \A i \in 1..(Len(sent) + Len(window)) :
               held[i] = IF i <= Len(sent) THEN sent[i] ELSE window[i - Len(sent)]
      BY <3>1, ConcatProperties
    <3>4. Range(sent) = {sent[i] : i \in 1..Len(sent)}
      BY <3>1, RangeEquality
    <3>5. \A i, k \in 1..Len(held) : held[i] = held[k] => i = k
      BY <1>1, <2>3
    <3>6. j \in 1..Len(window)
      BY <2>3, <2>4
    <3>7. ASSUME NEW i \in 1..Len(sent), sent[i] = window[j] PROVE FALSE
      <4>1. /\ i \in 1..(Len(sent) + Len(window)) /\ j + Len(sent) \in 1..(Len(sent) + Len(window))
            /\ i # j + Len(sent) /\ i <= Len(sent)
            /\ (j + Len(sent)) - Len(sent) = j /\ ~(j + Len(sent) <= Len(sent))
        BY <3>2, <3>6, <3>7
      <4>2. held[i] = sent[i] /\ held[j + Len(sent)] = window[j]
        BY <3>3, <4>1
      <4> QED
        BY <3>3, <3>5, <3>7, <4>1, <4>2
    <3> QED
      BY <2>3, <3>4, <3>7
  <2>5. Added(w, a) = p.window
    <3> DEFINE S == {o \in Objects : w.shown[o] = Absent}
    <3>1. \A j \in 1..Len(p.window) : p.window[j] \in S
      BY <1>1, <2>2, <2>4
    <3> HIDE DEF S
    <3>2. Keeping(p.window, S) = p.window
      BY <1>1, <3>1, KeepingAll
    <3> QED
      BY <3>2 DEF Added, S
  <2>6. v.order = p.table.sent
    BY <1>3, <2>1, <2>2, <2>5
  <2>7. \A o \in Objects : v.shown[o] = IF o \in Range(p.window) THEN t.rows[o] ELSE w.shown[o]
    BY <1>3, <2>1, <2>5
  <2>8. Range(p.table.sent) = Range(t.sent) \cup Range(p.window)
    BY <1>1, <2>2, RangeConcatenation
  <2>9. Lists(v, p.table)
    <3>1. ASSUME NEW o \in Objects PROVE v.shown[o] # Absent <=> o \in Range(p.table.sent)
      BY <1>4, <2>2, <2>7, <2>8
    <3> QED
      BY <2>6, <3>1 DEF Lists
  <2> QED
    BY <1>2, <1>4, <1>6, <2>7, <2>8, <2>9 DEF PageShown
<1> QED
  BY <1>5, <1>6

\* A page that is answered: its request is gone, its table goes by the token of
\* the request.
LEMMA PageTokens ==
  ASSUME TokenInv, SoundInv, NEW r \in requests, NEW a, NEW u,
         r.id \in DOMAIN heap, u.token = r.token, u.view = heap[r.id].view, u.view = r.view,
         u.sent \in Seq(Objects),
         a.token = r.token, a.view = r.view, a.offset = r.offset, a.order \in Seq(Objects),
         heap' = [heap EXCEPT ![r.id] = u],
         answers' = answers \cup {a}, requests' = requests \ {r},
         UNCHANGED <<tables, notices, wire, win, loads>>, crossed => crossed',
         ~crossed' /\ Own(r) => r.offset = 0 \/ Own(heap[r.id])
  PROVE  TokenInv'
<1>a. TokensKnown /\ OneAsked /\ FirstIsFirst /\ MoreIsPaging /\ OneBearer
  BY DEF TokenInv
<1>b. /\ DOMAIN heap' = DOMAIN heap /\ heap'[r.id] = u
      /\ \A i \in DOMAIN heap \ {r.id} : heap'[i] = heap[i]
  OBVIOUS
<1>1. \A x : (Own(x)' <=> Own(x)) /\ (Known(x)' <=> Known(x))
  BY DEF Own, Known
<1>2. /\ (Known(u) <=> Known(r)) /\ (Own(u) <=> Own(r))
      /\ (Known(a) <=> Known(r)) /\ (Own(a) <=> Own(r))
  BY DEF Own, Known
<1>3. \A d : UnderWay(d)' <=> UnderWay(d)
  BY DEF UnderWay
<1>4. Known(r) /\ r.token > 0 /\ r.offset \in Nat
  BY <1>a DEF TokensKnown
<1>5. TokensKnown'
  <2>1. (\A x \in requests : Known(x) /\ x.token > 0 /\ x.offset \in Nat)'
    BY <1>a, <1>1 DEF TokensKnown
  <2>2. (\A x \in answers : Known(x) /\ x.token > 0 /\ x.order \in Seq(Objects))'
    BY <1>a, <1>1, <1>2, <1>4 DEF TokensKnown
  <2>3. (\A i \in DOMAIN heap : Known(heap[i]) /\ heap[i].sent \in Seq(Objects))'
    <3> SUFFICES ASSUME NEW i \in DOMAIN heap
                 PROVE  Known(heap'[i]) /\ heap'[i].sent \in Seq(Objects)
      BY <1>b DEF Known, Own
    <3> QED
      BY <1>a, <1>b, <1>2, <1>4 DEF TokensKnown
  <2>4. \A d : UnderWay(d)' => Known(d)' /\ d.order \in Seq(Objects)
    BY <1>a, <1>1, <1>3 DEF TokensKnown
  <2> QED
    BY <1>a, <2>1, <2>2, <2>3, <2>4 DEF TokensKnown
<1>6. OneAsked'
  <2>1. \A x, y \in requests' : Own(x) /\ Own(y) => x = y
    BY <1>a DEF OneAsked
  <2>2. \A x, y \in answers' : Own(x) /\ Own(y) => x = y
    BY <1>a, <1>2 DEF OneAsked
  <2>3. \A x \in requests', y \in answers' : ~(Own(x) /\ Own(y))
    BY <1>a, <1>2 DEF OneAsked
  <2> QED
    BY <1>1, <2>1, <2>2, <2>3 DEF OneAsked
<1>7. MoreIsPaging'
  BY <1>a DEF MoreIsPaging, Own
<1>8. FirstIsFirst'
  <2> SUFFICES ASSUME NEW x \in requests', Own(x), x.offset = 0
               PROVE  /\ \A i \in DOMAIN heap' : ~Own(heap[i])'
                      /\ \A d : UnderWay(d)' => ~Own(d)'
    BY <1>1 DEF FirstIsFirst
  <2>1. ~Own(r)
    BY <1>a DEF OneAsked
  <2>2. /\ \A i \in DOMAIN heap : ~Own(heap[i])
        /\ \A d : UnderWay(d) => ~Own(d)
    BY <1>a DEF FirstIsFirst
  <2>3. \A i \in DOMAIN heap' : ~Own(heap'[i])
    BY <1>b, <1>2, <2>1, <2>2
  <2> QED
    BY <1>1, <1>3, <2>2, <2>3 DEF Own
<1>9. OneBearer'
  <2> SUFFICES ASSUME ~crossed', win.token > 0, NEW i, NEW j, Bears(i)', Bears(j)'
               PROVE  i = j
    BY DEF OneBearer
  <2>1. ASSUME NEW k, Bears(k)' PROVE Bears(k) \/ (k = r.id /\ Own(r))
    <3>1. CASE k \in DOMAIN heap' /\ Own(heap[k])'
      <4>1. k \in DOMAIN heap /\ Own(heap'[k])
        BY <1>b, <3>1 DEF Own
      <4> QED
        BY <1>b, <1>2, <4>1 DEF Bears
    <3>2. CASE \E n \in Readers : /\ notices'[n].at = "emit" /\ notices'[n].id = k
                                  /\ Own(notices[n].delta)'
      BY <3>2 DEF Bears, Own
    <3> QED
      BY <2>1, <3>1, <3>2 DEF Bears
  <2>2. \A k, l : Bears(k) /\ Bears(l) => k = l
    BY <1>a DEF OneBearer
  <2>3. CASE ~Own(r)
    BY <2>1, <2>2, <2>3
  <2>4. CASE Own(r) /\ r.offset = 0
    <3>1. \A k : ~Bears(k)
      BY <1>a, <2>4 DEF FirstIsFirst, Bears, UnderWay
    <3> QED
      BY <2>1, <3>1
  <2>5. CASE Own(r) /\ Own(heap[r.id])
    <3>1. Bears(r.id)
      BY <2>5 DEF Bears
    <3> QED
      BY <2>1, <2>2, <3>1
  <2> QED
    BY <2>3, <2>4, <2>5
<1> QED
  BY <1>5, <1>6, <1>7, <1>8, <1>9 DEF TokenInv

\* The page that was asked for is the last of the windows to come.
LEMMA PageFollows ==
  ASSUME TokenInv, WindowFollows, SoundInv, ListPage
  PROVE  TokenInv' /\ WindowFollows'
<1>a. TokensKnown /\ OneAsked /\ FirstIsFirst
  BY DEF TokenInv
<1>1. PICK r \in requests :
        /\ r.at = "page" /\ requests' = requests \ {r}
        /\ LET p == Page(heap[r.id], r.query, r.token, r.offset)
           IN  /\ heap' = [heap EXCEPT ![r.id] = p.table]
               /\ answers' = answers \cup
                    {[token |-> r.token, view |-> r.view, offset |-> r.offset,
                      order |-> p.window, rows |-> heap[r.id].rows]}
        /\ crossed' = \/ crossed
                      \/ r.view = win.view /\ (r.token # win.token \/ r.id # tables[r.view])
                      \/ r.offset > 0 /\
                           \/ r.token # heap[r.id].token
                           \/ \E n \in Readers : notices[n].at = "emit" /\ notices[n].id = r.id
                           \/ heap'[r.id].sent # heap[r.id].sent \o
                                Page(heap[r.id], r.query, r.token, r.offset).window
  BY DEF ListPage
<1>2. UNCHANGED <<tables, notices, wire, win, loads>>
  BY DEF ListPage
<1>3. r.id \in DOMAIN heap /\ heap[r.id].view = r.view
  BY <1>1 DEF SoundInv, RequestsSound, RequestSound, Made
<1>4. PICK t : t = heap[r.id]
  OBVIOUS
<1>5. DOMAIN t = TableFields /\ t.sent \in Seq(Objects) /\ t.rows \in Rows /\ r.offset \in Nat
  BY <1>a, <1>3, <1>4 DEF SoundInv, TablesSound, TokensKnown
<1>6. PICK p : p = Page(t, r.query, r.token, r.offset)
  OBVIOUS
<1>7. PICK a : a = [token |-> r.token, view |-> r.view, offset |-> r.offset,
                    order |-> p.window, rows |-> t.rows]
  OBVIOUS
<1>8. /\ a.token = r.token /\ a.view = r.view /\ a.offset = r.offset
      /\ a.order = p.window /\ a.rows = t.rows
  BY <1>7
<1>9. heap' = [heap EXCEPT ![r.id] = p.table] /\ answers' = answers \cup {a}
  BY <1>1, <1>4, <1>6, <1>7
<1>10. heap'[r.id] = p.table /\ \A i : i # r.id => heap'[i] = heap[i]
  BY <1>3, <1>9
<1>11. /\ p.table.token = r.token /\ p.table.view = t.view /\ p.table.rows = t.rows
       /\ p.table.sent \in Seq(Objects) /\ p.window \in Seq(Objects)
       /\ r.offset > 0 /\ p.table.sent # <<>> => Len(p.table.sent) > Len(p.window)
  BY <1>5, <1>6, PageLists
<1>12. ASSUME ~crossed'
       PROVE  /\ ~crossed
              /\ r.view = win.view => Own(r) /\ r.id = tables[r.view]
              /\ r.offset > 0 => /\ r.token = t.token
                                 /\ \A n \in Readers : ~(notices[n].at = "emit" /\ notices[n].id = r.id)
                                 /\ p.table.sent = t.sent \o p.window
  BY <1>1, <1>4, <1>6, <1>10, <1>12 DEF Own
<1>13. TokenInv'
  <2>1. ~crossed' /\ Own(r) => r.offset = 0 \/ Own(heap[r.id])
    <3> SUFFICES ASSUME ~crossed', Own(r), r.offset # 0 PROVE Own(heap[r.id])
      OBVIOUS
    <3>1. r.offset > 0
      BY <1>5
    <3>2. r.token = t.token
      BY <1>12, <3>1
    <3> QED
      BY <1>4, <3>2 DEF Own
  <2>2. crossed => crossed'
    BY <1>12
  <2> QED
    BY <1>1, <1>2, <1>3, <1>4, <1>8, <1>9, <1>11, <2>1, <2>2, PageTokens
<1> SUFFICES ASSUME Current', Undoomed' PROVE WindowFollows'
  BY <1>13 DEF WindowFollows
<1>14. ~crossed' /\ win.token > 0 /\ Table' = Table /\ Table # 0
  BY <1>2 DEF Current, Table
<1>15. Table \in DOMAIN heap /\ heap[Table].view = win.view
  <2>1. win.view \in Views
    BY <1>14 DEF SoundInv, WinSound
  <2> QED
    BY <1>14, <2>1 DEF SoundInv, TablesSound, Made, Table
<1>16. \A n \in Readers : Emits(n)' <=> Emits(n)
  BY <1>2, <1>14 DEF Emits
<1>17. CASE ~Own(r)
  <2>1. r.id # Table
    BY <1>2, <1>10, <1>11, <1>14, <1>17 DEF Current, Own
  <2>2. heap'[Table] = heap[Table]
    BY <1>10, <2>1
  <2>3. Current
    BY <1>2, <1>12, <1>14, <2>2 DEF Current
  <2>4. ~Own(a)
    BY <1>8, <1>17 DEF Own
  <2>5. Undoomed
    <3>1. \A x \in requests : x.at = "page" /\ x.id = Table => Own(x)
      BY <1>1, <1>2, <1>14, <2>1 DEF Undoomed, Own
    <3>2. \A m, n \in Readers : Emits(m) /\ Emits(n) => m = n
      BY <1>16 DEF Undoomed
    <3>3. \A x \in requests \cup answers : Own(x) /\ x.offset > 0 =>
            \A i \in 1..Len(wire) : ~Own(wire[i])
      <4>1. \A x \in requests \cup answers : Own(x) => x \in requests' \cup answers'
        BY <1>1, <1>9, <1>17
      <4> QED
        BY <1>2, <4>1 DEF Undoomed, Own
    <3> QED
      BY <3>1, <3>2, <3>3 DEF Undoomed
  <2>6. \A x : Own(x) => (x \in answers' <=> x \in answers)
    BY <1>9, <2>4
  <2>7. \A n \in Readers : SameToTable(n)
    BY <1>2 DEF SameToTable
  <2> QED
    BY <1>2, <1>14, <2>2, <2>3, <2>5, <2>6, <2>7, SameTable
<1>18. CASE Own(r)
  <2>1. r.view = win.view /\ r.id = Table
    <3>1. r.view = win.view
      BY <1>a, <1>14, <1>18 DEF TokensKnown, Known
    <3> QED
      BY <1>12, <1>14, <3>1 DEF Table
  <2>2. Own(a)' /\ a \in answers' /\ \A x \in answers : ~Own(x)
    BY <1>a, <1>2, <1>8, <1>9, <1>18 DEF Own, OneAsked
  <2>3. \A i \in 1..Len(wire) : ~Own(wire[i])
    <3>1. CASE r.offset = 0
      BY <1>a, <1>18, <3>1 DEF FirstIsFirst, UnderWay
    <3>2. CASE r.offset > 0
      <4>1. a \in (requests \cup answers)' /\ Own(a)' /\ a.offset > 0
        BY <1>8, <2>2, <3>2
      <4>2. (\A i \in 1..Len(wire) : ~Own(wire[i]))'
        BY <4>1 DEF Undoomed
      <4> QED
        BY <1>2, <4>2 DEF Own
    <3> QED
      BY <1>5, <3>1, <3>2
  <2>4. heap[Table] = t /\ heap'[Table] = p.table /\ t.view = win.view
    BY <1>4, <1>10, <1>15, <2>1
  <2>5. p.table.sent # <<>>
    BY <1>14, <2>4 DEF Current
  <2>6. ASSUME r.offset > 0
        PROVE  /\ Lists(win, t) /\ \A n \in Readers : ~Emits(n)
               /\ \A o \in Range(t.sent) : win.shown[o] = t.rows[o] \/ Mended(o)
    <3>1. t.sent # <<>>
      <4> SUFFICES ASSUME t.sent = <<>> PROVE FALSE
        OBVIOUS
      <4>1. p.table.sent = <<>> \o p.window
        BY <1>12, <1>14, <2>6
      <4>2. <<>> \o p.window = p.window
        BY <1>11, ConcatEmptySeq
      <4>3. Len(p.table.sent) > Len(p.window) /\ Len(p.window) \in Nat
        BY <1>11, <2>5, <2>6, LenProperties
      <4> QED
        BY <4>1, <4>2, <4>3
    <3>2. Current
      BY <1>12, <1>14, <1>18, <2>4, <2>6, <3>1 DEF Current, Own
    <3>3. Undoomed
      <4>1. \A x \in requests : x.at = "page" /\ x.id = Table => Own(x)
        BY <1>1, <1>2, <1>14, <1>18 DEF Undoomed, Own
      <4>2. \A m, n \in Readers : Emits(m) /\ Emits(n) => m = n
        BY <1>16 DEF Undoomed
      <4> QED
        BY <2>3, <4>1, <4>2 DEF Undoomed
    <3>4. PICK ws, w : Arrive(ws) /\ Ends(w, ws[Len(wire) + 1]) /\ Follows(w)
      BY <3>2, <3>3 DEF WindowFollows
    <3>5. ws[Len(wire) + 1] = ws[1] /\ ws[1] = win
      BY <1>a, <2>2, <2>3, <3>4, NothingArrives DEF TokensKnown, Arrive, Opens
    <3>6. \A n \in Readers : ~Emits(n)
      BY <1>12, <1>14, <2>1, <2>6 DEF Emits
    <3>7. w = win
      BY <3>4, <3>5, <3>6 DEF Ends
    <3> QED
      BY <2>4, <3>4, <3>6, <3>7 DEF Follows
  <2>7. PICK v : v = Received(win, a)
    OBVIOUS
  <2>8. IsWindow(win, r.token, t.view)
    BY <1>18, <2>4 DEF IsWindow, Own, SoundInv, WinSound
  <2>9. /\ IsWindow(v, r.token, t.view) /\ Lists(v, p.table)
        /\ \A o \in Range(p.table.sent) :
             \/ v.shown[o] = t.rows[o]
             \/ r.offset > 0 /\ o \in Range(t.sent) /\ v.shown[o] = win.shown[o]
    <3>1. r.offset > 0 => /\ Lists(win, t) /\ t.sent \in Seq(Objects)
                          /\ p.table.sent = t.sent \o p.window
      BY <1>5, <1>12, <1>14, <2>6
    <3>2. IsWindow(v, r.token, t.view) /\ PageShown(t, p, r.offset, win, v)
      BY <1>5, <1>6, <1>8, <2>7, <2>8, <3>1, PageShows
    <3> QED
      BY <3>2 DEF PageShown
  <2>10. IsWindow(v, win.token, win.view)
    BY <1>18, <2>4, <2>9 DEF Own
  <2>11. Opens(v)'
    BY <1>2, <2>2, <2>7 DEF Opens
  <2>12. PICK ws : Arrive(ws)' /\ ws[Len(wire) + 1] = v
    BY <1>a, <1>2, <2>3, <2>10, <2>11, AnswerAlone DEF TokensKnown
  <2>13. Ends(v, v)'
    <3>1. CASE r.offset = 0
      <4>1. ASSUME NEW n \in Readers, Emits(n) PROVE Shows(v, notices[n].delta) = v
        <5>1. ~Own(notices[n].delta)
          BY <1>a, <1>18, <3>1, <4>1 DEF FirstIsFirst, UnderWay, Emits
        <5> QED
          BY <2>10, <5>1 DEF Shows, IsWindow, Own
      <4> QED
        BY <1>2, <1>16, <4>1 DEF Ends
    <3>2. CASE r.offset > 0
      BY <1>16, <2>6, <3>2 DEF Ends
    <3> QED
      BY <1>5, <3>1, <3>2
  <2>14. \A o : p.table.rows[o] = t.rows[o] /\ Mended(o) => Mended(o)'
    <3> SUFFICES ASSUME NEW o, Mended(o) PROVE Mended(o)'
      OBVIOUS
    <3>1. PICK j \in Readers :
            /\ notices[j].at = "patch" /\ notices[j].id = Table
            /\ IF t.rows[o] = Absent THEN notices[j].reordered ELSE o \in notices[j].touched
      BY <2>4 DEF Mended
    <3>2. heap'[Table].rows = t.rows
      BY <1>11, <2>4
    <3> QED
      BY <1>2, <1>14, <3>1, <3>2 DEF Mended
  <2>15. Follows(v)'
    <3>1. IsWindow(v, win.token, win.view)' /\ Lists(v, heap[Table])'
      BY <1>2, <1>14, <2>4, <2>9, <2>10 DEF Lists
    <3>2. \A o \in Range(p.table.sent) : v.shown[o] = p.table.rows[o] \/ Mended(o)'
      BY <1>11, <2>6, <2>9, <2>14
    <3>3. (\A o \in Range(heap[Table].sent) : v.shown[o] = heap[Table].rows[o] \/ Mended(o))'
      BY <1>14, <2>4, <3>2
    <3> QED
      BY <3>1, <3>3 DEF Follows
  <2>16. Ends(v, ws[Len(wire) + 1])'
    BY <1>2, <2>12, <2>13
  <2> QED
    BY <2>12, <2>15, <2>16 DEF WindowFollows
<1> QED
  BY <1>17, <1>18

-----------------------------------------------------------------------------
(* The window follows its table *)

\* The inductive invariant.
WindowAccord == TokenInv /\ WindowFollows

\* Before the first load there is nothing to be in accord about.
LEMMA WindowAtFirst == Init => WindowAccord
<1> SUFFICES ASSUME Init PROVE WindowAccord
  OBVIOUS
<1>1. /\ win = Blank /\ win.token = 0 /\ win.order = <<>> /\ loads = 0
      /\ wire = <<>> /\ heap = <<>> /\ requests = {} /\ answers = {}
      /\ \A n \in Readers : notices[n].at = "idle"
  BY DEF Init, Blank, Idle
<1>2. Len(wire) = 0 /\ DOMAIN heap = {} /\ IsList(wire) /\ <<>> \in Seq(Objects)
  BY <1>1 DEF IsList
<1>3. \A d : ~UnderWay(d)
  BY <1>1, <1>2 DEF UnderWay
<1>4. TokensKnown
  BY <1>1, <1>2, <1>3 DEF TokensKnown
<1>5. OneAsked /\ FirstIsFirst /\ MoreIsPaging
  BY <1>1 DEF OneAsked, FirstIsFirst, MoreIsPaging
<1>6. OneBearer /\ WindowFollows
  BY <1>1 DEF OneBearer, WindowFollows, Current
<1> QED
  BY <1>4, <1>5, <1>6 DEF WindowAccord, TokenInv

\* Every step leaves the window and its table in accord.
LEMMA WindowStays == WindowAccord /\ TableInv /\ TableInv' /\ [Next]_vars => WindowAccord'
<1> SUFFICES ASSUME WindowAccord, TableInv, TableInv', [Next]_vars PROVE WindowAccord'
  OBVIOUS
<1>1. TokenInv /\ WindowFollows /\ SoundInv /\ SoundInv'
  BY DEF WindowAccord, TableInv
<1>2. CASE UNCHANGED <<notices, heap, tables, windowVars, crossed>>
           \/ ListRead \/ ListSubscribe \/ ListFails \/ Forget
  BY <1>1, <1>2, BystandersFollow DEF WindowAccord
<1>3. CASE Load \/ More \/ Receive \/ ApplyPatch
  BY <1>1, <1>3, LoadFollows, MoreFollows, ReceiveFollows, PatchFollows DEF WindowAccord
<1>4. CASE ListEnsure \/ ListReplace \/ ListPage
  BY <1>1, <1>4, EnsureFollows, ReplaceFollows, PageFollows DEF WindowAccord
<1>5. ASSUME NEW n \in Readers,
             \/ Notify(n) \/ RefreshRead(n) \/ RefreshApply(n)
             \/ MakePatch(n) \/ Emit(n)
      PROVE  WindowAccord'
  <2>1. CASE Notify(n) \/ RefreshRead(n)
    BY <1>1, <2>1, BystandersFollow DEF WindowAccord
  <2>2. CASE RefreshApply(n)
    BY <1>1, <2>2, ApplyFollows DEF WindowAccord
  <2>3. CASE MakePatch(n)
    BY <1>1, <2>3, MakePatchFollows DEF WindowAccord
  <2>4. CASE Emit(n)
    BY <1>1, <2>4, EmitTokens, PatchLeaves DEF WindowAccord
  <2> QED
    BY <1>5, <2>1, <2>2, <2>3, <2>4
<1>6. CASE UNCHANGED <<notices, tableVars, windowVars, forgets, history>>
  BY <1>2, <1>6 DEF tableVars, history
<1>7. CASE UNCHANGED vars
  BY <1>2, <1>7 DEF vars, tableVars, history
<1>8. CASE Next
  <2>1. CASE \/ \E k \in Keys : HubStep(Sync(k)) \/ HubStep(Observe(k))
             \/ HubStep(Close) \/ HubStep(StopNamespace) \/ HubStep(SweepIdle) \/ HubStep(Write)
    BY <1>6, <2>1 DEF HubStep
  <2> QED
    BY <1>2, <1>3, <1>4, <1>5, <1>8, <2>1 DEF Next
<1> QED
  BY <1>7, <1>8

\* The window and its table are always in accord.
LEMMA WindowInvariant == Spec => []WindowAccord
<1>1. Init /\ [][Next]_vars => []WindowAccord
  <2>1. []TableInv /\ WindowAccord /\ [][Next]_vars => []WindowAccord
    BY WindowStays, PTL
  <2> QED
    BY <2>1, WindowAtFirst, TableInvariant, PTL DEF Spec
<1> QED
  BY <1>1, PTL DEF Spec

\* When every answer and patch was delivered and none of them met, the window
\* shows the rows and the order that its table takes it to hold (table.go page,
\* patch and inPlaceLocked; resources.ts setOrder and applyPatch).
THEOREM WindowFollowed == Spec => []WindowFollowsTable
<1>1. WindowAccord => WindowFollowsTable
  <2> SUFFICES ASSUME WindowAccord, win.token > 0, Delivered, ~crossed, Table # 0,
                      heap[Table].token = win.token, heap[Table].sent # <<>>
               PROVE  /\ win.order = heap[Table].sent
                      /\ \A o \in Range(heap[Table].sent) : win.shown[o] = heap[Table].rows[o]
    BY DEF WindowFollowsTable, Table
  <2>1. Current
    BY DEF Current
  <2>2. /\ requests = {} /\ answers = {} /\ Len(wire) = 0
        /\ \A n \in Readers : ~Emits(n) /\ notices[n].at # "patch"
    BY DEF Delivered, Emits
  <2>3. Undoomed
    BY <2>2 DEF Undoomed
  <2>4. PICK ws, w : Arrive(ws) /\ Ends(w, ws[Len(wire) + 1]) /\ Follows(w)
    BY <2>1, <2>3 DEF WindowAccord, WindowFollows
  <2>5. ws[1] = win
    BY <2>2, <2>4 DEF Arrive, Opens
  <2>6. w = ws[1]
    BY <2>2, <2>4 DEF Ends
  <2>7. \A o : ~Mended(o)
    BY <2>2 DEF Mended
  <2> QED
    BY <2>4, <2>5, <2>6, <2>7 DEF Follows, Lists
<1> QED
  BY <1>1, WindowInvariant, PTL
=============================================================================
