-------------------------------- MODULE Streams --------------------------------
(***************************************************************************)
(* What runs beside the calls of the window: shells (internal/terminal),   *)
(* followed logs (internal/logs), questions to an AI command (internal/ai), *)
(* and the deep links that wait for the window (service_app.go); what a    *)
(* lost authorisation, a disconnect and the end of the program do to them  *)
(* (core.go, service_cluster.go).                                          *)
(*                                                                         *)
(* A registry's lock is one step; what follows the unlock is another.      *)
(* closing: out of the registry, and not cancelled yet.                    *)
(***************************************************************************)
EXTENDS Naturals, Sequences, FiniteSets

CONSTANTS Terminals, Logs, Runs, Links,
          Shells,          \* how many shells detectShell tries
          Channel, Flush,  \* the capacity of lines, flushLines
          MaxLines,        \* bound: the length of a log
          MaxRequests      \* bound: what the window and the cluster do

VARIABLES terminals, logs, runs,
          ready, links,             \* linkQueue: where the deliveries of each link are
          listening, reloaded,      \* the window hears events; it was loaded again
          connected,                \* the client of the cluster can be had
          lost,                     \* its authorisation was lost, OnAuthFailure is to come
          stopping,                 \* how far Core.Stop is
          requests

streams == <<terminals, logs, runs>>
queue == <<ready, links, listening, reloaded>>
cluster == <<connected, lost>>
vars == <<streams, queue, cluster, stopping, requests>>

Request == requests < MaxRequests /\ requests' = requests + 1

-----------------------------------------------------------------------------
(* Terminals.                                                              *)

NoTerminal == [phase |-> "none", shell |-> 1, registered |-> FALSE, closing |-> FALSE,
               piped |-> FALSE, cancelled |-> FALSE, writing |-> FALSE, failed |-> FALSE, told |-> 0]
Terminal(t, now) == terminals' = [terminals EXCEPT ![t] = now]
OnlyTerminals == UNCHANGED <<logs, runs, queue, cluster, stopping>>

OpenTerminal(t) ==
  /\ Request /\ terminals[t].phase = "none" /\ connected
  /\ Terminal(t, [terminals[t] EXCEPT !.phase = "probing"])
  /\ OnlyTerminals

\* detectShell: the first that exits cleanly in time; none is an error.
DetectShell(t, found) ==
  /\ terminals[t].phase = "probing"
  /\ Terminal(t, CASE ~connected -> [terminals[t] EXCEPT !.phase = "refused"]
                   [] connected /\ found -> [terminals[t] EXCEPT !.phase = "found"]
                   [] OTHER -> IF terminals[t].shell = Shells
                               THEN [terminals[t] EXCEPT !.phase = "refused"]
                               ELSE [terminals[t] EXCEPT !.shell = @ + 1])
  /\ UNCHANGED requests /\ OnlyTerminals

RegisteredMutant(terminal) == [terminal EXCEPT !.phase = "live"]

\* executor asks for the client once more; the session is in the registry
\* before its goroutine starts.
Registered(terminal) == [terminal EXCEPT !.phase = "live", !.registered = TRUE]

MakeExecutor(t) ==
  /\ terminals[t].phase = "found"
  /\ Terminal(t, [terminals[t] EXCEPT !.phase = IF connected THEN "starting" ELSE "refused"])
  /\ UNCHANGED requests /\ OnlyTerminals

StartTerminal(t) ==
  /\ terminals[t].phase = "starting"
  /\ Terminal(t, Registered(terminals[t]))
  /\ UNCHANGED requests /\ OnlyTerminals

\* Write looks the session up and waits on the pipe until the executor reads,
\* or until the pipe is closed.
Write(t) ==
  /\ Request /\ terminals[t].registered /\ ~terminals[t].writing
  /\ Terminal(t, [terminals[t] EXCEPT !.writing = TRUE])
  /\ OnlyTerminals

WriteRead(t) ==
  /\ terminals[t].phase = "live" /\ terminals[t].writing
  /\ Terminal(t, [terminals[t] EXCEPT !.writing = FALSE])
  /\ UNCHANGED requests /\ OnlyTerminals

\* run: the stream ends by itself, with or without an error, or is cancelled;
\* then the window is told, and last the session leaves the registry.
StreamEnds(t, failed) ==
  /\ terminals[t].phase = "live"
  /\ Terminal(t, [terminals[t] EXCEPT !.phase = "ended",
                                      !.failed = failed /\ ~terminals[t].cancelled])
  /\ UNCHANGED requests /\ OnlyTerminals
StreamCancelled(t) == terminals[t].cancelled /\ StreamEnds(t, TRUE)

TellTerminal(t) ==
  /\ terminals[t].phase = "ended"
  /\ Terminal(t, [terminals[t] EXCEPT !.phase = "leaving", !.told = @ + 1])
  /\ UNCHANGED requests /\ OnlyTerminals

LeaveTerminal(t) ==
  /\ terminals[t].phase = "leaving"
  /\ Terminal(t, [terminals[t] EXCEPT !.phase = "over", !.registered = FALSE])
  /\ UNCHANGED requests /\ OnlyTerminals

Taken(terminal) ==
  IF terminal.registered THEN [terminal EXCEPT !.registered = FALSE, !.closing = TRUE] ELSE terminal

CloseTerminal(t) ==
  /\ Request /\ terminals[t].registered
  /\ Terminal(t, Taken(terminals[t]))
  /\ OnlyTerminals

\* After the unlock: the pipe is closed, which ends a write, then the context.
ClosePipe(t) ==
  /\ terminals[t].closing /\ ~terminals[t].piped
  /\ Terminal(t, [terminals[t] EXCEPT !.piped = TRUE, !.writing = FALSE])
  /\ UNCHANGED requests /\ OnlyTerminals

CancelTerminal(t) ==
  /\ terminals[t].closing /\ terminals[t].piped
  /\ Terminal(t, [terminals[t] EXCEPT !.closing = FALSE, !.cancelled = TRUE])
  /\ UNCHANGED requests /\ OnlyTerminals

-----------------------------------------------------------------------------
(* Logs. A source has its lines and an end: the container's, an error such *)
(* as a line that is too long, or none as long as it is followed.          *)

NoLog == [phase |-> "none", registered |-> FALSE, closing |-> FALSE, cancelled |-> FALSE,
          size |-> 0, end |-> "", next |-> 1, reader |-> "none", lines |-> <<>>, readErr |-> FALSE,
          batch |-> <<>>, out |-> <<>>, said |-> <<>>]
Log(l, now) == logs' = [logs EXCEPT ![l] = now]
OnlyLogs == UNCHANGED <<terminals, runs, queue, cluster, stopping>>

StartLog(l, size, end) ==
  /\ Request /\ logs[l].phase = "none" /\ connected
  /\ Log(l, [logs[l] EXCEPT !.phase = "live", !.registered = TRUE, !.size = size, !.end = end,
                            !.reader = "reading"])
  /\ OnlyLogs

\* The reader: a line is scanned, then sent unless the stream is cancelled.
Scan(l) ==
  /\ logs[l].reader = "reading" /\ logs[l].next <= logs[l].size /\ logs[l].phase = "live"
  /\ Log(l, [logs[l] EXCEPT !.reader = "sending"])
  /\ UNCHANGED requests /\ OnlyLogs

SendLineMutant(l) ==
  /\ logs[l].reader = "sending" /\ Len(logs[l].lines) < Channel
  /\ Log(l, [logs[l] EXCEPT !.reader = "reading", !.lines = Append(@, logs[l].next), !.next = @ + 1])
  /\ UNCHANGED requests /\ OnlyLogs

SendLine(l) ==
  /\ logs[l].reader = "sending"
  /\ \/ /\ Len(logs[l].lines) < Channel
        /\ Log(l, [logs[l] EXCEPT !.reader = "reading", !.lines = Append(@, logs[l].next), !.next = @ + 1])
     \/ logs[l].cancelled /\ Log(l, [logs[l] EXCEPT !.reader = "done"])
  /\ UNCHANGED requests /\ OnlyLogs

\* The scan ends: at the end of the source, or because the body was closed or
\* its request cancelled. An error is put down before the channel is closed.
ScanEnds(l) ==
  LET atEnd == logs[l].next > logs[l].size /\ logs[l].end # "followed"
      closed == logs[l].cancelled \/ logs[l].phase = "over"
  IN  /\ logs[l].reader = "reading" /\ (atEnd \/ closed)
      /\ Log(l, IF logs[l].end = "error" /\ ~logs[l].cancelled
                THEN [logs[l] EXCEPT !.reader = "failed", !.readErr = TRUE]
                ELSE [logs[l] EXCEPT !.reader = "done"])
      /\ UNCHANGED requests /\ OnlyLogs

CloseLines(l) ==
  /\ logs[l].reader = "failed"
  /\ Log(l, [logs[l] EXCEPT !.reader = "done"])
  /\ UNCHANGED requests /\ OnlyLogs

\* flush: what was gathered, and with it the end of the stream.
FlushMutant(log, done) ==
  [log EXCEPT !.out = IF done # <<>> THEN @ ELSE @ \o log.batch, !.batch = <<>>, !.said = @ \o done,
              !.phase = IF done = <<>> THEN @ ELSE "over",
              !.registered = IF done = <<>> THEN @ ELSE FALSE]
FlushLog(log, done) ==
  [log EXCEPT !.out = @ \o log.batch, !.batch = <<>>, !.said = @ \o done,
              !.phase = IF done = <<>> THEN @ ELSE "over",
              !.registered = IF done = <<>> THEN @ ELSE FALSE]

\* pump: one of the cases of its select that are ready.
PumpStopped(l) == logs[l].cancelled /\ Log(l, FlushLog(logs[l], <<"stopped">>))
PumpFailed(l) == logs[l].readErr /\ Log(l, FlushLog(logs[l], <<"error">>))
PumpClosed(l) == /\ logs[l].reader = "done" /\ logs[l].lines = <<>>
                 /\ Log(l, FlushLog(logs[l], <<"end">>))
PumpLine(l) ==
  LET taken == [logs[l] EXCEPT !.batch = Append(@, Head(logs[l].lines)), !.lines = Tail(@)]
  IN  /\ logs[l].lines # <<>>
      /\ Log(l, IF Len(taken.batch) >= Flush THEN FlushLog(taken, <<>>) ELSE taken)
PumpTick(l) == logs[l].batch # <<>> /\ Log(l, FlushLog(logs[l], <<>>))

Pump(l) ==
  /\ logs[l].phase = "live"
  /\ PumpStopped(l) \/ PumpFailed(l) \/ PumpClosed(l) \/ PumpLine(l) \/ PumpTick(l)
  /\ UNCHANGED requests /\ OnlyLogs

TakenLog(log) == IF log.registered THEN [log EXCEPT !.registered = FALSE, !.closing = TRUE] ELSE log

StopLog(l) ==
  /\ Request /\ logs[l].registered
  /\ Log(l, TakenLog(logs[l]))
  /\ OnlyLogs

CancelLog(l) ==
  /\ logs[l].closing
  /\ Log(l, [logs[l] EXCEPT !.closing = FALSE, !.cancelled = TRUE])
  /\ UNCHANGED requests /\ OnlyLogs

-----------------------------------------------------------------------------
(* Questions. AskAI answers with a session before its goroutine has run.   *)

NoRun == [phase |-> "none", registered |-> FALSE, closing |-> FALSE, cancelled |-> FALSE,
          alive |-> FALSE, failed |-> FALSE, said |-> <<>>]
Run(r, now) == runs' = [runs EXCEPT ![r] = now]
OnlyRuns == UNCHANGED <<terminals, logs, queue, cluster, stopping>>

AskAI(r) ==
  /\ Request /\ runs[r].phase = "none"
  /\ Run(r, [runs[r] EXCEPT !.phase = "spawned"])
  /\ OnlyRuns

\* Run: a directory, the registry, the process. What fails before there is a
\* process ends the session, and nobody is told.
RegisterRun(r, ok) ==
  /\ runs[r].phase = "spawned"
  /\ Run(r, IF ok THEN [runs[r] EXCEPT !.phase = "registered", !.registered = TRUE]
            ELSE [runs[r] EXCEPT !.phase = "over"])
  /\ UNCHANGED requests /\ OnlyRuns

StartProcess(r, ok) ==
  /\ runs[r].phase = "registered"
  /\ Run(r, IF ok /\ ~runs[r].cancelled
            THEN [runs[r] EXCEPT !.phase = "running", !.alive = TRUE]
            ELSE [runs[r] EXCEPT !.phase = "over", !.registered = FALSE])
  /\ UNCHANGED requests /\ OnlyRuns

\* runTimeout.
RunTimesOut(r) ==
  /\ runs[r].phase = "running" /\ ~runs[r].cancelled
  /\ Run(r, [runs[r] EXCEPT !.cancelled = TRUE])
  /\ UNCHANGED requests /\ OnlyRuns

ProcessEnds(r, failed) ==
  /\ runs[r].phase = "running"
  /\ Run(r, [runs[r] EXCEPT !.phase = "waited", !.alive = FALSE, !.failed = failed])
  /\ UNCHANGED requests /\ OnlyRuns
KillProcess(r) == runs[r].cancelled /\ ProcessEnds(r, TRUE)

TellRun(r) ==
  /\ runs[r].phase = "waited"
  /\ Run(r, [runs[r] EXCEPT !.phase = "over", !.registered = FALSE, !.said =
                 Append(@, IF runs[r].cancelled THEN "cancelled" ELSE IF runs[r].failed THEN "error" ELSE "done")])
  /\ UNCHANGED requests /\ OnlyRuns

\* Cancel finds what is registered, and leaves it there.
CancelAskAI(r) ==
  /\ Request /\ runs[r].registered
  /\ Run(r, [runs[r] EXCEPT !.cancelled = TRUE])
  /\ OnlyRuns

TakenRun(run) == IF run.registered THEN [run EXCEPT !.registered = FALSE, !.closing = TRUE] ELSE run

CancelRun(r) ==
  /\ runs[r].closing
  /\ Run(r, [runs[r] EXCEPT !.closing = FALSE, !.cancelled = TRUE])
  /\ UNCHANGED requests /\ OnlyRuns

-----------------------------------------------------------------------------
(* Links. The same link may come more than once; a delivery is held, being  *)
(* opened, told to the window, or missed by it.                            *)

NoDelivery == [came |-> 0, held |-> 0, opening |-> 0, told |-> 0, missed |-> 0]
OnlyLinks == UNCHANGED <<streams, cluster, stopping>>
Link(k, now) == links' = [links EXCEPT ![k] = now]

Deliver(k) ==
  /\ Request
  /\ Link(k, IF ready THEN [links[k] EXCEPT !.came = @ + 1, !.opening = @ + 1]
             ELSE [links[k] EXCEPT !.came = @ + 1, !.held = @ + 1])
  /\ UNCHANGED <<ready, listening, reloaded>> /\ OnlyLinks

ReleasedMutant(link) == [link EXCEPT !.opening = @ + link.held]
Released(link) == [link EXCEPT !.held = 0, !.opening = @ + link.held]

\* A window that listens says so: release.
Ready == /\ Request
         /\ ready' = TRUE /\ listening' = TRUE
         /\ links' = [k \in Links |-> Released(links[k])]
         /\ UNCHANGED reloaded /\ OnlyLinks

\* View, Reload: the page listens no more, and the queue is not told.
Reload == /\ Request /\ listening
          /\ listening' = FALSE /\ reloaded' = TRUE
          /\ UNCHANGED <<ready, links>> /\ OnlyLinks

\* OpenDeepLink redeems the handoff in a goroutine of its own, and emits.
OpenLink(k) ==
  /\ links[k].opening > 0
  /\ Link(k, IF listening THEN [links[k] EXCEPT !.opening = @ - 1, !.told = @ + 1]
             ELSE [links[k] EXCEPT !.opening = @ - 1, !.missed = @ + 1])
  /\ UNCHANGED <<ready, listening, reloaded, requests>> /\ OnlyLinks

-----------------------------------------------------------------------------
(* The cluster and the program. A disconnect ends forwards and watches,    *)
(* not these; a lost authorisation closes the cluster's terminals as well. *)

Disconnect == /\ Request /\ connected
              /\ connected' = FALSE
              /\ UNCHANGED <<streams, queue, lost, stopping>>
Connect == /\ Request /\ ~connected
           /\ connected' = TRUE
           /\ UNCHANGED <<streams, queue, lost, stopping>>

AuthFailure == /\ Request /\ connected
               /\ connected' = FALSE /\ lost' = TRUE
               /\ UNCHANGED <<streams, queue, stopping>>

CloseCluster ==
  /\ lost /\ lost' = FALSE
  /\ terminals' = [t \in Terminals |-> Taken(terminals[t])]
  /\ UNCHANGED <<logs, runs, queue, connected, stopping, requests>>

\* Stop: the AI runs, the terminals, the logs; a CloseAll returns when all that
\* it took is cancelled.
Settled == /\ \A t \in Terminals : ~terminals[t].closing
           /\ \A l \in Logs : ~logs[l].closing
           /\ \A r \in Runs : ~runs[r].closing
StopRuns == /\ Request /\ stopping = 0 /\ stopping' = 1
            /\ runs' = [r \in Runs |-> TakenRun(runs[r])]
            /\ UNCHANGED <<terminals, logs, queue, cluster>>
StopTerminals == /\ stopping = 1 /\ Settled /\ stopping' = 2
                 /\ terminals' = [t \in Terminals |-> Taken(terminals[t])]
                 /\ UNCHANGED <<logs, runs, queue, cluster, requests>>
StopLogs == /\ stopping = 2 /\ Settled /\ stopping' = 3
            /\ logs' = [l \in Logs |-> TakenLog(logs[l])]
            /\ UNCHANGED <<terminals, runs, queue, cluster, requests>>

-----------------------------------------------------------------------------
Init == /\ terminals = [t \in Terminals |-> NoTerminal]
        /\ logs = [l \in Logs |-> NoLog]
        /\ runs = [r \in Runs |-> NoRun]
        /\ ready = FALSE /\ listening = FALSE /\ reloaded = FALSE /\ links = [k \in Links |-> NoDelivery]
        /\ connected = TRUE /\ lost = FALSE /\ stopping = 0 /\ requests = 0

TerminalSteps(t) == \/ \E found \in BOOLEAN : DetectShell(t, found)
                    \/ MakeExecutor(t) \/ StartTerminal(t) \/ WriteRead(t) \/ TellTerminal(t) \/ LeaveTerminal(t)
                    \/ ClosePipe(t) \/ CancelTerminal(t) \/ StreamCancelled(t)
LogSteps(l) == Scan(l) \/ SendLine(l) \/ ScanEnds(l) \/ CloseLines(l) \/ Pump(l) \/ CancelLog(l)
RunSteps(r) == \/ \E ok \in BOOLEAN : RegisterRun(r, ok) \/ StartProcess(r, ok)
               \/ KillProcess(r) \/ TellRun(r) \/ CancelRun(r)

Next ==
  \/ \E t \in Terminals : \/ OpenTerminal(t) \/ Write(t) \/ CloseTerminal(t) \/ TerminalSteps(t)
                          \/ \E failed \in BOOLEAN : StreamEnds(t, failed)
  \/ \E l \in Logs : \/ StopLog(l) \/ LogSteps(l)
                     \/ \E size \in 0..MaxLines, end \in {"end", "error", "followed"} : StartLog(l, size, end)
  \/ \E r \in Runs : \/ AskAI(r) \/ CancelAskAI(r) \/ RunTimesOut(r) \/ RunSteps(r)
                     \/ \E failed \in BOOLEAN : ProcessEnds(r, failed)
  \/ \E k \in Links : Deliver(k) \/ OpenLink(k)
  \/ Ready \/ Reload \/ Disconnect \/ Connect \/ AuthFailure \/ CloseCluster \/ StopRuns \/ StopTerminals \/ StopLogs

\* The goroutines that run do go on: the scheduler is fair to each step of
\* theirs, executors return when their context is cancelled and a killed
\* process dies. Nothing makes a stream end by itself.
Fairness == /\ \A t \in Terminals : /\ WF_vars(StreamCancelled(t)) /\ WF_vars(ClosePipe(t)) /\ WF_vars(CancelTerminal(t))
                                    /\ WF_vars(TellTerminal(t)) /\ WF_vars(LeaveTerminal(t))
            /\ \A l \in Logs : /\ WF_vars(CancelLog(l)) /\ WF_vars(Pump(l)) /\ WF_vars(Scan(l))
                               /\ WF_vars(SendLine(l)) /\ WF_vars(ScanEnds(l)) /\ WF_vars(CloseLines(l))
            /\ \A r \in Runs : WF_vars(KillProcess(r)) /\ WF_vars(TellRun(r)) /\ WF_vars(CancelRun(r))

Spec == Init /\ [][Next]_vars /\ Fairness

-----------------------------------------------------------------------------
\* Close, Stop, CancelAskAI and the three CloseAll find what they end in a
\* registry: whatever runs and was not told to end is in one, or is in the
\* hands of somebody who is about to end it, however opening, closing and
\* ending by itself interleave. Nobody is told twice that a stream ended.
Reachable ==
  /\ \A t \in Terminals : terminals[t].phase = "live" /\ ~terminals[t].cancelled =>
       terminals[t].registered \/ terminals[t].closing
  /\ \A l \in Logs : logs[l].phase = "live" /\ ~logs[l].cancelled => logs[l].registered \/ logs[l].closing
  /\ \A r \in Runs : runs[r].alive /\ ~runs[r].cancelled => runs[r].registered \/ runs[r].closing
  /\ \A t \in Terminals : terminals[t].told <= 1
  /\ \A l \in Logs : Len(logs[l].said) <= 1
  /\ \A r \in Runs : Len(runs[r].said) <= 1

\* The lines of a log reach the window in their order, none twice and none
\* left out in between; and a log that ends by itself without an error was
\* shown whole, the last batch included.
LogsWhole ==
  \A l \in Logs :
    /\ logs[l].out \o logs[l].batch \o logs[l].lines =
         [i \in 1..(Len(logs[l].out) + Len(logs[l].batch) + Len(logs[l].lines)) |-> i]
    /\ logs[l].said = <<"end">> /\ logs[l].end = "end" /\ ~logs[l].cancelled => Len(logs[l].out) = logs[l].size
    /\ logs[l].said # <<>> => logs[l].batch = <<>>

\* service_app.go:89 "A deep link can arrive before the window exists, and an
\* event emitted then reaches nobody": every delivery of a link is held or acted
\* on, once, however often it comes and a window says that it listens; none is
\* held back from a window that said so; and none is told to nobody unless the
\* window was loaded again, which takes its listeners and leaves ready set.
LinksOnce ==
  /\ \A k \in Links : links[k].came = links[k].held + links[k].opening + links[k].told + links[k].missed
  /\ \A k \in Links : ready => links[k].held = 0
  /\ ~reloaded => \A k \in Links : /\ links[k].missed = 0
                                   /\ ~listening => links[k].opening = 0

\* Whatever is closed, stopped or cancelled while it runs says so in the end,
\* and the goroutine that reads a log does not outlive it.
EndsTold ==
  /\ \A t \in Terminals : (terminals[t].closing /\ terminals[t].phase = "live") ~> terminals[t].told = 1
  /\ \A l \in Logs : (logs[l].closing /\ logs[l].phase = "live") ~> (logs[l].said # <<>> /\ logs[l].reader = "done")
  /\ \A r \in Runs : (runs[r].cancelled /\ runs[r].alive) ~> runs[r].said # <<>>
=============================================================================
