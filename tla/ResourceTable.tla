--------------------------- MODULE ResourceTable ---------------------------
(***************************************************************************)
(* The tables of resources (internal/resources/service.go, table.go) over  *)
(* the watches of their cluster, and the window of the frontend            *)
(* (frontend/src/stores/resources.ts) that they patch.                     *)
(*                                                                         *)
(* Loads, notifications and their answers interleave: a load reads,        *)
(* subscribes, replaces the rows and pages them in separate critical       *)
(* sections, a notification reads the cache, applies what it read, makes a *)
(* patch and emits it. Answers and patches reach the window on different   *)
(* paths; patches keep the order in which they were emitted.               *)
(***************************************************************************)
EXTENDS WatchHub, Arranging, TLC

CONSTANTS
  Views,       \* the tables a user opens: watch keys
  Queries,     \* records with filter, sort and desc
  PageSize,    \* rows in one window
  Cold,        \* coldBudget: rows of the first read of a type
  TableBudget, \* maxTables
  MaxInFlight, \* bound on the loads under way at once
  MaxTables,   \* bound on the tables created
  Readers      \* goroutines that notifications run in

ASSUME TableAssumption ==
  /\ Views \subseteq Keys
  /\ Objects \subseteq Nat /\ IsFiniteSet(Objects) /\ Cells \subseteq Nat
  /\ Initially \subseteq [Objects -> Cells \cup {Absent}]
  /\ PageSize \in Nat \ {0} /\ Cold \in Nat \ {0} /\ TableBudget \in Nat \ {0}

VARIABLES
  notices,   \* notifications whose reader runs
  heap,      \* every table ever created
  tables,    \* the one registered for a view, 0 for none
  opened,    \* the registered views, the one asked for longest ago first
  requests,  \* List calls in flight
  answers,   \* pages on their way to the window
  wire,      \* patches on their way to the window, in the order of emission
  win,       \* what the window shows
  loads,     \* tables the window has asked for, which is also its token
  forgets,   \* whether the session was renewed
  raced,     \* views whose rows were replaced by older ones (history)
  crossed    \* whether, since the last load, what goes by its token met (history)

tableVars == <<heap, tables, opened>>
windowVars == <<requests, answers, wire, win, loads>>
history == <<raced, crossed>>
vars == <<hub, world, cache, notices, tableVars, windowVars, forgets, history>>

Empty == [o \in Objects |-> Absent]
Idle == [at |-> "idle"]
Keyed(rows) == {o \in Objects : rows[o] # Absent}

-----------------------------------------------------------------------------
(* Filtering, ordering and paging.                                         *)

Matches(q, cell) == cell \in q.filter

\* An empty cell, 0, sinks to the bottom whichever way the column is sorted;
\* the name, here the object itself, breaks ties and always ascends.
Before(q, rows, x, y) ==
  LET a == rows[x]
      b == rows[y]
  IN  IF q.sort # "cell" \/ a = b THEN x < y
      ELSE IF a = 0 \/ b = 0 THEN b = 0
      ELSE IF q.desc THEN b < a ELSE a < b

Ordered(q, rows) ==
  LET found == {o \in Keyed(rows) : Matches(q, rows[o])}
  IN  Arranged(found, {p \in found \X found : Before(q, rows, p[1], p[2])})

\* A prefix of the order; an offset past its end gives nothing.
WindowOf(order, offset) ==
  SubSeq(order, offset + 1, IF offset + PageSize > Len(order) THEN Len(order)
                                                             ELSE offset + PageSize)

MovesInOrder(q, before, after) == q.sort = "cell" /\ before # after

-----------------------------------------------------------------------------
(* One table.                                                              *)

NoQuery == [filter |-> Cells, sort |-> "created", desc |-> FALSE]
NewTable(v) ==
  [view |-> v, rows |-> Empty, query |-> NoQuery, token |-> 0, sent |-> <<>>,
   total |-> 0, matched |-> 0, loading |-> FALSE, reported |-> FALSE]

Replace(t, contents, loading) == [t EXCEPT !.rows = contents, !.loading = loading]

\* apply: rows that render the same are left alone, a new row, a lost row or
\* a changed sorted cell make the order doubtful.
Apply(t, fresh, keys) ==
  LET moved == {o \in keys : t.rows[o] # fresh[o]}
  IN  [table |-> [t EXCEPT !.rows = [o \in Objects |-> IF o \in moved THEN fresh[o] ELSE @[o]]],
       touched |-> moved,
       reordered |-> \E o \in moved :
         \/ t.rows[o] = Absent \/ fresh[o] = Absent
         \/ MovesInOrder(t.query, t.rows[o], fresh[o])]

\* page: the query becomes the table's, and the whole prefix up to the end of
\* this window is what the frontend is taken to hold.
Page(t, q, token, offset) ==
  LET order == Ordered(q, t.rows)
      window == WindowOf(order, offset)
      held == IF offset > Len(order) THEN order ELSE SubSeq(order, 1, offset + Len(window))
  IN  [table |-> [t EXCEPT !.query = q, !.token = token, !.sent = held,
                           !.total = Cardinality(Keyed(t.rows)),
                           !.matched = Len(order), !.reported = t.loading],
       window |-> window]

Delta(t, upserts, removed, order, matched) ==
  [view |-> t.view, token |-> t.token,
   upserts |-> [o \in upserts |-> t.rows[o]], removed |-> removed, order |-> order,
   total |-> Cardinality(Keyed(t.rows)), matched |-> matched, loading |-> t.loading]

Told(t, d) == [t EXCEPT !.total = d.total, !.matched = d.matched, !.reported = d.loading]
NewCounts(t, d) == d.total # t.total \/ d.matched # t.matched \/ d.loading # t.reported

\* inPlaceLocked: nothing moved, so only cells of the window are sent.
InPlace(t, touched) ==
  LET d == Delta(t, touched \cap Range(t.sent) \cap Keyed(t.rows), {}, <<>>, t.matched)
  IN  [table |-> Told(t, d), delta |-> d,
       worth |-> DOMAIN d.upserts # {} \/ NewCounts(t, d)]

ReorderedMutant(t, touched) ==
  LET order == Ordered(t.query, t.rows)
      size == IF Len(t.sent) > Len(order) THEN Len(order) ELSE Len(t.sent)
      window == SubSeq(order, 1, size)
      d == Delta(t, Range(window) \cap touched, Range(t.sent) \ Range(window),
                 IF window = t.sent THEN <<>> ELSE window, Len(order))
  IN  [table |-> [Told(t, d) EXCEPT !.sent = window], delta |-> d, worth |-> window # t.sent]

\* patch: the window keeps its size while there are rows to fill it.
Reordered(t, touched) ==
  LET order == Ordered(t.query, t.rows)
      size == IF Len(t.sent) > Len(order) THEN Len(order) ELSE Len(t.sent)
      window == SubSeq(order, 1, size)
      had == Range(t.sent)
      d == Delta(t, {o \in Range(window) : o \in touched \/ o \notin had},
                 had \ Range(window),
                 IF window = t.sent THEN <<>> ELSE window, Len(order))
  IN  [table |-> [Told(t, d) EXCEPT !.sent = window], delta |-> d,
       worth |-> \/ DOMAIN d.upserts # {} \/ d.removed # {} \/ window # t.sent
                 \/ NewCounts(t, d)]

Patch(t, touched, reordered) ==
  IF reordered THEN Reordered(t, touched) ELSE InPlace(t, touched)

-----------------------------------------------------------------------------
(* The window. Only its own loads and the patches of its token change it.  *)

Blank == [view |-> Nothing, token |-> 0, query |-> NoQuery, order |-> <<>>, shown |-> Empty]

\* setOrder: a key without a row is skipped.
Accepted(w, page) ==
  [w EXCEPT !.order = page.order,
            !.shown = [o \in Objects |-> IF o \in Range(page.order) THEN page.rows[o] ELSE Absent]]
Appended(w, page) ==
  LET new == Keeping(page.order, {o \in Objects : w.shown[o] = Absent})
  IN  [w EXCEPT !.order = w.order \o new,
                !.shown = [o \in Objects |-> IF o \in Range(new) THEN page.rows[o] ELSE @[o]]]

\* patch: an order that is not there (which is how an empty one arrives) lets
\* every row stay where it is. A row without a place is remembered only.
\* Those rows are the second field of a cell's life, so shown is what byKey
\* holds and order what is on the screen.
Patched(w, d) ==
  LET held == [o \in Objects |->
        IF o \in d.removed THEN Absent
        ELSE IF o \in DOMAIN d.upserts THEN d.upserts[o] ELSE w.shown[o]]
  IN  IF d.order # <<>>
      THEN [w EXCEPT !.shown = held,
                     !.order = Keeping(d.order, {o \in Objects : held[o] # Absent})]
      ELSE [w EXCEPT !.shown = held]

\* load: another view or another query, under a token of its own.
Load == \E v \in Views, q \in Queries :
  /\ Moved /\ Cardinality(requests) < MaxInFlight
  /\ loads' = loads + 1
  /\ win' = [view |-> v, token |-> loads', query |-> q,
             order |-> IF win.view = v THEN win.order ELSE <<>>,
             shown |-> IF win.view = v THEN win.shown ELSE Empty]
  /\ requests' = requests \cup
       {[token |-> loads', view |-> v, query |-> q, offset |-> 0, at |-> "read",
         rows |-> Empty, loading |-> FALSE, id |-> 0]}
  /\ crossed' = FALSE
  /\ UNCHANGED <<hub, server, behind, cache, notices, tableVars, answers, wire, forgets, raced>>

\* more: the next window of the same query, one request at a time and only
\* when the first has been accepted.
More ==
  /\ win.token > 0 /\ win.order # <<>>
  /\ Moved
  /\ \A r \in requests \cup answers : r.token # win.token
  /\ requests' = requests \cup
       {[token |-> win.token, view |-> win.view, query |-> win.query,
         offset |-> Len(win.order),
         at |-> IF tables[win.view] # 0 THEN "page" ELSE "read",
         rows |-> Empty, loading |-> FALSE, id |-> tables[win.view]]}
  /\ opened' = IF tables[win.view] # 0
               THEN Append(SelectSeq(opened, LAMBDA v : v # win.view), win.view)
               ELSE opened
  /\ crossed' = (crossed \/ tables[win.view] = 0)
  /\ UNCHANGED <<hub, server, behind, cache, notices, heap, tables, answers, wire, win, loads,
                 forgets, raced>>

\* An answer for a view that was left is dropped; the query is not compared.
Receive == \E a \in answers :
  /\ answers' = answers \ {a}
  /\ win' = IF a.view # win.view THEN win
            ELSE IF a.offset = 0 THEN Accepted(win, a) ELSE Appended(win, a)
  /\ crossed' = (crossed \/ (a.view = win.view
                             /\ (a.token # win.token \/ (a.offset > 0 /\ wire # <<>>))))
  /\ UNCHANGED <<hub, world, cache, notices, tableVars, requests, wire, loads, forgets, raced>>

ApplyPatch ==
  /\ wire # <<>>
  /\ wire' = Tail(wire)
  /\ LET d == Head(wire)
     IN  win' = IF d.token = win.token /\ d.view = win.view THEN Patched(win, d) ELSE win
  /\ crossed' = (crossed \/ (Head(wire).token = win.token
                             /\ \E a \in answers \cup requests : a.token = win.token))
  /\ UNCHANGED <<hub, world, cache, notices, tableVars, requests, answers, loads, forgets, raced>>

-----------------------------------------------------------------------------
(* List. read asks the cache when it is warm and the API otherwise; the    *)
(* watch is ensured after the answer, the table after that.                *)

Step(r, next) == requests' = (requests \ {r}) \cup {next}

ListRead == \E r \in requests :
  /\ r.at = "read" /\ ~closed
  /\ IF Warm(r.view) # {}
     THEN /\ older' = Touched(Existing(r.view))
          /\ Step(r, [r EXCEPT !.at = "replace",
                              !.rows = Visible(r.view, cache[Existing(r.view)])])
     ELSE LET found == {o \in Objects : Covers(r.view, o) /\ server[o] # Absent}
              some == {o \in found : Cardinality({p \in found : p < o}) < Cold}
          IN  /\ Step(r, [r EXCEPT !.at = "subscribe", !.loading = some # found,
                            !.rows = [o \in Objects |-> IF o \in some THEN server[o] ELSE Absent]])
              /\ UNCHANGED older
  /\ UNCHANGED <<closed, watches, synced, pending, world, cache,
                 notices, tableVars, answers, wire, win, loads, forgets, history>>

ListSubscribe == \E r \in requests :
  /\ r.at = "subscribe"
  /\ Ensure(r.view)
  /\ Step(r, [r EXCEPT !.at = "replace"])
  /\ UNCHANGED <<closed, pending, world, notices, tableVars,
                 answers, wire, win, loads, forgets, history>>

\* ensureTable: the view read longest ago gives way.
EnsureTable(v) ==
  LET kept == SelectSeq(opened, LAMBDA u : u # v)
      gone == IF tables[v] = 0 /\ Len(kept) >= TableBudget
              THEN {kept[i] : i \in 1..(Len(kept) - TableBudget + 1)} ELSE {}
      id == IF tables[v] = 0 THEN Len(heap) + 1 ELSE tables[v]
  IN  [id |-> id,
       heap |-> IF tables[v] = 0 THEN Append(heap, NewTable(v)) ELSE heap,
       tables |-> [u \in Views |-> IF u = v THEN id ELSE IF u \in gone THEN 0 ELSE tables[u]],
       opened |-> Append(SelectSeq(kept, LAMBDA u : u \notin gone), v)]

ListEnsure == \E r \in requests :
  /\ r.at = "replace"
  /\ tables[r.view] # 0 \/ Len(heap) < MaxTables
  /\ LET e == EnsureTable(r.view)
     IN  /\ heap' = e.heap /\ tables' = e.tables /\ opened' = e.opened
         /\ Step(r, [r EXCEPT !.at = "fill", !.id = e.id])
  /\ UNCHANGED <<hub, world, cache, notices, answers, wire, win, loads, forgets, history>>

\* replace: whatever a notification applied since the read is lost with it.
ListReplace == \E r \in requests :
  /\ r.at = "fill"
  /\ heap' = [heap EXCEPT ![r.id] = Replace(@, r.rows, r.loading)]
  /\ Step(r, [r EXCEPT !.at = "page"])
  /\ raced' = IF r.rows = Visible(r.view, server) THEN raced ELSE raced \cup {r.view}
  /\ UNCHANGED <<hub, world, cache, notices, tables, opened, answers, wire, win, loads,
                 forgets, crossed>>

ListPage == \E r \in requests :
  /\ r.at = "page"
  /\ LET p == Page(heap[r.id], r.query, r.token, r.offset)
     IN  /\ heap' = [heap EXCEPT ![r.id] = p.table]
         /\ answers' = answers \cup
              {[token |-> r.token, view |-> r.view, offset |-> r.offset,
                order |-> p.window, rows |-> heap[r.id].rows]}
  /\ requests' = requests \ {r}
  /\ crossed' = \/ crossed
                \/ r.view = win.view /\ (r.token # win.token \/ r.id # tables[r.view])
                \/ r.offset > 0 /\
                     \/ r.token # heap[r.id].token
                     \/ \E n \in Readers : notices[n].at = "emit" /\ notices[n].id = r.id
                     \/ heap'[r.id].sent # heap[r.id].sent \o
                          Page(heap[r.id], r.query, r.token, r.offset).window
  /\ UNCHANGED <<hub, world, cache, notices, tables, opened, wire, win, loads, forgets, raced>>

\* A refused or failed list is answered without a table.
ListFails == \E r \in requests :
  /\ r.at = "read"
  /\ requests' = requests \ {r}
  /\ crossed' = (crossed \/ r.token = win.token)
  /\ UNCHANGED <<hub, world, cache, notices, tableVars, answers, wire, win, loads, forgets, raced>>

-----------------------------------------------------------------------------
(* OnResourceChange, in the goroutine of the timer that fired.             *)

\* A watch over the cluster feeds every view of its kind, one over a
\* namespace only the views that show it.
Affected(k) ==
  {v \in Views : /\ tables[v] # 0 /\ v.gvr = k.gvr
                 /\ k.ns \in {"", v.ns} /\ v.sel = k.sel}

\* The next table of the range, or the end of the goroutine.
Onward(m) == IF m.todo = {} THEN Idle ELSE [m EXCEPT !.at = "next"]

Notify(n) == \E k \in Keys :
  /\ notices[n] = Idle
  /\ Flush(k)
  /\ notices' = [notices EXCEPT ![n] = Onward(
       [at |-> "next", full |-> pending[k].full, keys |-> pending[k].keys,
        todo |-> {<<v, tables[v]>> : v \in Affected(k)}, view |-> k, source |-> k, id |-> 0,
        fresh |-> Empty, touched |-> {}, reordered |-> FALSE, delta |-> Nothing])]
  /\ UNCHANGED <<tableVars, windowVars, forgets, history>>

\* refresh: without a warm cache the table stays as it is.
RefreshRead(n) ==
  /\ notices[n].at = "next"
  /\ \E t \in notices[n].todo :
       LET rest == [notices[n] EXCEPT !.todo = @ \ {t}]
       IN  IF closed \/ Warm(t[1]) = {}
           THEN /\ notices' = [notices EXCEPT ![n] = Onward(rest)]
                /\ UNCHANGED older
           ELSE /\ older' = Touched(Existing(t[1]))
                /\ notices' = [notices EXCEPT ![n] =
                     [rest EXCEPT !.at = "apply", !.view = t[1], !.id = t[2],
                                  !.source = Existing(t[1]),
                                  !.fresh = Visible(t[1], cache[Existing(t[1])])]]
  /\ UNCHANGED <<closed, watches, synced, pending, world, cache,
                 tableVars, windowVars, forgets, history>>

RefreshApply(n) ==
  /\ notices[n].at = "apply"
  /\ LET m == notices[n]
         a == Apply(heap[m.id], m.fresh, m.keys)
         table == IF m.full THEN Replace(heap[m.id], m.fresh, FALSE) ELSE a.table
     IN  /\ heap' = [heap EXCEPT ![m.id] = table]
         /\ notices' = [notices EXCEPT ![n].at = "patch",
              ![n].touched = IF m.full THEN Keyed(m.fresh) ELSE a.touched,
              ![n].reordered = IF m.full THEN TRUE ELSE a.reordered]
         /\ raced' = IF m.source \notin synced \/ \E o \in (IF m.full THEN Objects ELSE m.keys) :
                           m.fresh[o] # Visible(m.view, cache[m.source])[o]
                     THEN raced \cup {m.view}
                     ELSE IF m.full /\ m.id = tables[m.view] THEN raced \ {m.view} ELSE raced
  /\ UNCHANGED <<hub, world, cache, tables, opened, windowVars, forgets, crossed>>

MakePatch(n) ==
  /\ notices[n].at = "patch"
  /\ LET m == notices[n]
         p == Patch(heap[m.id], m.touched, m.reordered)
     IN  /\ heap' = [heap EXCEPT ![m.id] = p.table]
         /\ notices' = [notices EXCEPT ![n] =
              IF p.worth THEN [m EXCEPT !.at = "emit", !.delta = p.delta] ELSE Onward(m)]
  /\ UNCHANGED <<hub, world, cache, tables, opened, windowVars, forgets, history>>

Emit(n) ==
  /\ notices[n].at = "emit"
  /\ wire' = Append(wire, notices[n].delta)
  /\ notices' = [notices EXCEPT ![n] = Onward(@)]
  /\ crossed' = (crossed \/ \E m \in Readers \ {n} :
                   notices[m].at = "emit" /\ notices[m].id = notices[n].id)
  /\ UNCHANGED <<hub, world, cache, tableVars, requests, answers, win, loads, forgets, raced>>

-----------------------------------------------------------------------------
\* Forget: when the session ends, and before it is renewed.
Forget ==
  /\ Moved /\ ~forgets
  /\ forgets' = TRUE
  /\ tables' = [v \in Views |-> 0]
  /\ opened' = <<>>
  /\ UNCHANGED <<hub, server, behind, cache, notices, heap, windowVars, history>>

HubStep(A) == A /\ UNCHANGED <<notices, tableVars, windowVars, forgets, history>>

Init ==
  /\ HubInit
  /\ notices = [n \in Readers |-> Idle]
  /\ heap = <<>> /\ opened = <<>>
  /\ tables = [v \in Views |-> 0]
  /\ requests = {} /\ answers = {} /\ wire = <<>>
  /\ win = Blank /\ loads = 0 /\ forgets = FALSE
  /\ raced = {} /\ crossed = FALSE

Next ==
  \/ \E k \in Keys : HubStep(Sync(k)) \/ HubStep(Observe(k))
  \/ (forgets /\ HubStep(Close)) \/ HubStep(StopNamespace) \/ HubStep(SweepIdle) \/ HubStep(Write)
  \/ Load \/ More \/ Receive \/ ApplyPatch
  \/ ListRead \/ ListSubscribe \/ ListEnsure \/ ListReplace \/ ListPage \/ ListFails
  \/ \E n \in Readers : \/ Notify(n) \/ RefreshRead(n) \/ RefreshApply(n)
                        \/ MakePatch(n) \/ Emit(n)
  \/ Forget

Spec == Init /\ [][Next]_vars

-----------------------------------------------------------------------------
\* Nothing is under way that would still change the table of view v.
Settled(v) ==
  /\ \A k \in Keys : k.gvr = v.gvr =>  pending[k] = Nothing
  /\ \A n \in Readers : notices[n] = Idle
  /\ \A r \in requests : r.view # v

\* A table that a synced watch feeds and that nothing is about to change
\* shows what the watch's cache holds, unless older rows were written over
\* newer ones: by a List that read before a notification was applied
\* (service.go:158), or by one notification overtaking another. No other
\* order of loads, notifications, evictions and sweeps loses a change.
TableFollowsCache ==
  \A v \in Views : tables[v] # 0 /\ ~closed /\ v \notin raced /\ Settled(v)
                   /\ Warm(v) # {} /\ behind[Existing(v)] = {} =>
    heap[tables[v]].rows = Visible(v, server)

\* What is on the screen: a row whose place is in the order, as last received.
Screen == [i \in DOMAIN win.order |-> win.shown[win.order[i]]]

\* Nothing on its way to the window.
Delivered ==
  /\ requests = {} /\ answers = {} /\ wire = <<>>
  /\ \A n \in Readers : notices[n].at \notin {"patch", "emit"}

\* With every answer and patch delivered, and none of them having met, the
\* window holds the keys and the cells that the table believes it holds, in
\* its order.
WindowFollowsTable ==
  win.token > 0 /\ Delivered /\ ~crossed /\ tables[win.view] # 0
  /\ heap[tables[win.view]].token = win.token
  /\ heap[tables[win.view]].sent # <<>> =>
    LET t == heap[tables[win.view]]
    IN  /\ win.order = t.sent
        /\ \A o \in Range(t.sent) : win.shown[o] = t.rows[o]
=============================================================================
