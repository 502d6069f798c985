----------------------------- MODULE Streams_proofs -----------------------------
(***************************************************************************)
(* Proofs about what runs beside the calls of the window, for any number   *)
(* of terminals, logs, questions and links: whatever runs can be ended,    *)
(* nobody is told of an end twice, and every link is acted on once.        *)
(***************************************************************************)
EXTENDS Streams, SequenceTheorems, TLAPS

-----------------------------------------------------------------------------
(* The inductive invariant, one stream at a time *)

TerminalPhases == {"none", "probing", "found", "refused", "starting", "live",
                   "ended", "leaving", "over"}

ATerminal ==
  [phase: TerminalPhases, shell: Nat, registered: BOOLEAN, closing: BOOLEAN,
   piped: BOOLEAN, cancelled: BOOLEAN, writing: BOOLEAN, failed: BOOLEAN,
   told: Nat]

\* A terminal that runs can be found or is being closed, and its window is told
\* of the end by a step that is taken once.
SoundTerminal(terminal) ==
  /\ terminal \in ATerminal
  /\ terminal.phase = "live" /\ ~terminal.cancelled =>
       terminal.registered \/ terminal.closing
  /\ terminal.told <= 1
  /\ terminal.phase \notin {"leaving", "over"} => terminal.told = 0

Lines == Seq(Nat)
Ends == {<<"stopped">>, <<"error">>, <<"end">>}

ALog ==
  [phase: {"none", "live", "over"}, registered: BOOLEAN, closing: BOOLEAN,
   cancelled: BOOLEAN, size: Nat, end: {"", "end", "error", "followed"},
   next: Nat, reader: {"none", "reading", "sending", "failed", "done"},
   lines: Lines, readErr: BOOLEAN, batch: Lines, out: Lines,
   said: {<<>>} \cup Ends]

\* A log says its end with the step that ends it.
SoundLog(log) ==
  /\ log \in ALog
  /\ log.phase = "live" /\ ~log.cancelled => log.registered \/ log.closing
  /\ log.phase # "over" => log.said = <<>>

Outcomes == {<<"cancelled">>, <<"error">>, <<"done">>}

ARun ==
  [phase: {"none", "spawned", "registered", "running", "waited", "over"},
   registered: BOOLEAN, closing: BOOLEAN, cancelled: BOOLEAN, alive: BOOLEAN,
   failed: BOOLEAN, said: {<<>>} \cup Outcomes]

\* A question is registered before its process starts, and a process is alive
\* only while it runs.
SoundRun(run) ==
  /\ run \in ARun
  /\ run.phase = "registered" \/ run.alive =>
       run.cancelled \/ run.registered \/ run.closing
  /\ run.alive => run.phase = "running"
  /\ run.phase # "over" => run.said = <<>>

ALink == [came : Nat, held : Nat, opening : Nat, told : Nat, missed : Nat]

SoundLinks ==
  /\ ready \in BOOLEAN /\ listening \in BOOLEAN /\ reloaded \in BOOLEAN
  /\ links \in [Links -> ALink]
  /\ ready /\ ~reloaded => listening
  /\ LinksOnce

IInv ==
  /\ terminals \in [Terminals -> ATerminal]
  /\ \A t \in Terminals : SoundTerminal(terminals[t])
  /\ logs \in [Logs -> ALog]
  /\ \A l \in Logs : SoundLog(logs[l])
  /\ runs \in [Runs -> ARun]
  /\ \A r \in Runs : SoundRun(runs[r])
  /\ SoundLinks

\* The invariant says of every stream what Reachable does.
LEMMA InvariantReaches == IInv => Reachable /\ LinksOnce
<1> SUFFICES ASSUME IInv PROVE Reachable /\ LinksOnce
  OBVIOUS
<1>1. \A l \in Logs : Len(logs[l].said) <= 1
  <2>1. \A said \in {<<>>} \cup Ends : Len(said) <= 1
    BY DEF Ends
  <2> QED
    BY <2>1 DEF IInv, ALog
<1>2. \A r \in Runs : Len(runs[r].said) <= 1
  <2>1. \A said \in {<<>>} \cup Outcomes : Len(said) = 0 \/ Len(said) = 1
    <3>1. /\ Len(<<>>) = 0 /\ Len(<<"cancelled">>) = 1
          /\ Len(<<"error">>) = 1 /\ Len(<<"done">>) = 1
      OBVIOUS
    <3> QED
      BY <3>1, Zenon DEF Outcomes
  <2>2. \A r \in Runs : Len(runs[r].said) = 0 \/ Len(runs[r].said) = 1
    BY <2>1 DEF IInv, ARun
  <2>3. \A n : n = 0 \/ n = 1 => n <= 1
    OBVIOUS
  <2> QED
    BY <2>2, <2>3, Zenon
<1> QED
  BY <1>1, <1>2
     DEF IInv, Reachable, SoundTerminal, SoundLog, SoundRun, SoundLinks

\* Nothing runs at first.
LEMMA InitIInv == Init => IInv
<1> SUFFICES ASSUME Init PROVE IInv
  OBVIOUS
<1>1. SoundTerminal(NoTerminal)
  BY DEF NoTerminal, SoundTerminal, ATerminal, TerminalPhases
<1>2. SoundLog(NoLog)
  BY DEF NoLog, SoundLog, ALog, Lines
<1>3. SoundRun(NoRun)
  BY DEF NoRun, SoundRun, ARun
<1>4. SoundLinks
  <2>1. /\ ready = FALSE /\ listening = FALSE /\ reloaded = FALSE
        /\ links = [k \in Links |-> NoDelivery]
    BY DEF Init
  <2>2. NoDelivery \in ALink
    BY DEF NoDelivery, ALink
  <2>3. \A k \in Links : links[k] = NoDelivery
    BY <2>1
  <2>4. LinksOnce
    BY <2>1, <2>3 DEF LinksOnce, NoDelivery
  <2> QED
    BY <2>1, <2>2, <2>4 DEF SoundLinks
<1> QED
  BY <1>1, <1>2, <1>3, <1>4
     DEF Init, IInv, SoundTerminal, SoundLog, SoundRun

-----------------------------------------------------------------------------
(* A step of one stream, or of all of a kind, keeps the others sound *)

\* One terminal moves on.
LEMMA OneTerminal ==
  ASSUME IInv, NEW t \in Terminals, NEW terminal, SoundTerminal(terminal),
         Terminal(t, terminal), UNCHANGED <<logs, runs, queue>>
  PROVE  IInv'
<1>1. terminals' = [terminals EXCEPT ![t] = terminal]
  BY DEF Terminal
<1>2. terminal \in ATerminal
  BY DEF SoundTerminal
<1>3. /\ terminals' \in [Terminals -> ATerminal]
      /\ \A s \in Terminals : SoundTerminal(terminals'[s])
  BY <1>1, <1>2, Zenon DEF IInv
<1> QED
  BY <1>3 DEF IInv, SoundLinks, LinksOnce, queue

\* One log moves on.
LEMMA OneLog ==
  ASSUME IInv, NEW l \in Logs, NEW log, SoundLog(log),
         Log(l, log), UNCHANGED <<terminals, runs, queue>>
  PROVE  IInv'
<1>1. logs' = [logs EXCEPT ![l] = log]
  BY DEF Log
<1>2. log \in ALog
  BY DEF SoundLog
<1>3. /\ logs' \in [Logs -> ALog]
      /\ \A s \in Logs : SoundLog(logs'[s])
  BY <1>1, <1>2, Zenon DEF IInv
<1> QED
  BY <1>3 DEF IInv, SoundLinks, LinksOnce, queue

\* One question moves on.
LEMMA OneRun ==
  ASSUME IInv, NEW r \in Runs, NEW run, SoundRun(run),
         Run(r, run), UNCHANGED <<terminals, logs, queue>>
  PROVE  IInv'
<1>1. runs' = [runs EXCEPT ![r] = run]
  BY DEF Run
<1>2. run \in ARun
  BY DEF SoundRun
<1>3. /\ runs' \in [Runs -> ARun]
      /\ \A s \in Runs : SoundRun(runs'[s])
  BY <1>1, <1>2, Zenon DEF IInv
<1> QED
  BY <1>3 DEF IInv, SoundLinks, LinksOnce, queue

\* What is taken out of a registry is in the hands of who took it.
LEMMA TakenIsSound ==
  /\ \A terminal : SoundTerminal(terminal) => SoundTerminal(Taken(terminal))
  /\ \A log : SoundLog(log) => SoundLog(TakenLog(log))
  /\ \A run : SoundRun(run) => SoundRun(TakenRun(run))
<1>1. ASSUME NEW terminal, SoundTerminal(terminal)
      PROVE  SoundTerminal(Taken(terminal))
  BY <1>1 DEF SoundTerminal, Taken, ATerminal
<1>2. ASSUME NEW log, SoundLog(log) PROVE SoundLog(TakenLog(log))
  BY <1>2 DEF SoundLog, TakenLog, ALog
<1>3. ASSUME NEW run, SoundRun(run) PROVE SoundRun(TakenRun(run))
  BY <1>3 DEF SoundRun, TakenRun, ARun
<1> QED
  BY <1>1, <1>2, <1>3

\* All terminals of a cluster, or of the program, are taken at once.
LEMMA AllTerminals ==
  ASSUME IInv, terminals' = [t \in Terminals |-> Taken(terminals[t])],
         UNCHANGED <<logs, runs, queue>>
  PROVE  IInv'
<1>1. \A t \in Terminals : SoundTerminal(Taken(terminals[t]))
  BY TakenIsSound DEF IInv
<1>2. terminals' \in [Terminals -> ATerminal]
  BY <1>1 DEF SoundTerminal
<1> QED
  BY <1>1, <1>2 DEF IInv, SoundLinks, LinksOnce, queue

-----------------------------------------------------------------------------
(* Every step *)

\* Opening, writing to, ending and closing a terminal.
LEMMA TerminalStepsKeep ==
  ASSUME IInv, NEW t \in Terminals,
         \/ OpenTerminal(t) \/ Write(t) \/ CloseTerminal(t) \/ TerminalSteps(t)
         \/ \E failed \in BOOLEAN : StreamEnds(t, failed)
  PROVE  IInv'
<1> DEFINE now == terminals[t]
<1>0. SoundTerminal(now) /\ now \in ATerminal
  BY DEF IInv
<1> HIDE DEF now
<1>1. UNCHANGED <<logs, runs, queue>>
  BY DEF OpenTerminal, Write, CloseTerminal, TerminalSteps, StreamEnds,
     DetectShell, MakeExecutor, StartTerminal, WriteRead, TellTerminal,
     LeaveTerminal, ClosePipe, CancelTerminal, StreamCancelled, OnlyTerminals
<1>2. SUFFICES \E terminal : SoundTerminal(terminal) /\ Terminal(t, terminal)
  BY <1>1, OneTerminal
<1>3. CASE OpenTerminal(t)
  <2>1. Terminal(t, [now EXCEPT !.phase = "probing"]) /\ now.phase = "none"
    BY <1>3 DEF OpenTerminal, now
  <2>2. SoundTerminal([now EXCEPT !.phase = "probing"])
    BY <1>0, <2>1 DEF SoundTerminal, ATerminal, TerminalPhases
  <2> QED
    BY <2>1, <2>2
<1>4. ASSUME NEW found \in BOOLEAN, DetectShell(t, found)
      PROVE  \E terminal : SoundTerminal(terminal) /\ Terminal(t, terminal)
  <2>1. now.phase = "probing"
    BY <1>4 DEF DetectShell, now
  <2>2. CASE ~connected
    <3>1. Terminal(t, [now EXCEPT !.phase = "refused"])
      BY <1>4, <2>2 DEF DetectShell, now
    <3>2. SoundTerminal([now EXCEPT !.phase = "refused"])
      BY <1>0, <2>1 DEF SoundTerminal, ATerminal, TerminalPhases
    <3> QED
      BY <3>1, <3>2
  <2>3. CASE connected /\ found
    <3>1. Terminal(t, [now EXCEPT !.phase = "found"])
      BY <1>4, <2>3 DEF DetectShell, now
    <3>2. SoundTerminal([now EXCEPT !.phase = "found"])
      BY <1>0, <2>1 DEF SoundTerminal, ATerminal, TerminalPhases
    <3> QED
      BY <3>1, <3>2
  <2>4. CASE connected /\ ~found
    <3>1. Terminal(t, IF now.shell = Shells THEN [now EXCEPT !.phase = "refused"]
                      ELSE [now EXCEPT !.shell = @ + 1])
      BY <1>4, <2>4 DEF DetectShell, now
    <3>2. SoundTerminal([now EXCEPT !.phase = "refused"])
      BY <1>0, <2>1 DEF SoundTerminal, ATerminal, TerminalPhases
    <3>3. SoundTerminal([now EXCEPT !.shell = @ + 1])
      BY <1>0, <2>1 DEF SoundTerminal, ATerminal, TerminalPhases
    <3> QED
      BY <3>1, <3>2, <3>3
  <2> QED
    BY <2>2, <2>3, <2>4
<1>5. CASE MakeExecutor(t)
  <2> DEFINE phase == IF connected THEN "starting" ELSE "refused"
  <2>1. Terminal(t, [now EXCEPT !.phase = phase]) /\ now.phase = "found"
    BY <1>5 DEF MakeExecutor, now
  <2>2. SoundTerminal([now EXCEPT !.phase = phase])
    BY <1>0, <2>1 DEF SoundTerminal, ATerminal, TerminalPhases
  <2> QED
    BY <2>1, <2>2
<1>6. CASE StartTerminal(t)
  <2>1. Terminal(t, Registered(now)) /\ now.phase = "starting"
    BY <1>6 DEF StartTerminal, now
  <2>2. SoundTerminal(Registered(now))
    BY <1>0, <2>1 DEF Registered, SoundTerminal, ATerminal, TerminalPhases
  <2> QED
    BY <2>1, <2>2
<1>7. CASE Write(t)
  <2>1. Terminal(t, [now EXCEPT !.writing = TRUE])
    BY <1>7 DEF Write, now
  <2>2. SoundTerminal([now EXCEPT !.writing = TRUE])
    BY <1>0 DEF SoundTerminal, ATerminal
  <2> QED
    BY <2>1, <2>2
<1>8. CASE WriteRead(t)
  <2>1. Terminal(t, [now EXCEPT !.writing = FALSE])
    BY <1>8 DEF WriteRead, now
  <2>2. SoundTerminal([now EXCEPT !.writing = FALSE])
    BY <1>0 DEF SoundTerminal, ATerminal
  <2> QED
    BY <2>1, <2>2
<1>9. ASSUME NEW failed \in BOOLEAN, StreamEnds(t, failed)
      PROVE  \E terminal : SoundTerminal(terminal) /\ Terminal(t, terminal)
  <2> DEFINE gone == failed /\ ~now.cancelled
  <2>1. Terminal(t, [now EXCEPT !.phase = "ended", !.failed = gone])
        /\ now.phase = "live"
    BY <1>9 DEF StreamEnds, now
  <2>2. gone \in BOOLEAN
    BY <1>0 DEF ATerminal
  <2> HIDE DEF gone
  <2>3. SoundTerminal([now EXCEPT !.phase = "ended", !.failed = gone])
    BY <1>0, <2>1, <2>2 DEF SoundTerminal, ATerminal, TerminalPhases
  <2> QED
    BY <2>1, <2>3
<1>10. CASE TellTerminal(t)
  <2>1. Terminal(t, [now EXCEPT !.phase = "leaving", !.told = @ + 1])
        /\ now.phase = "ended"
    BY <1>10 DEF TellTerminal, now
  <2>2. now.told = 0
    BY <1>0, <2>1 DEF SoundTerminal
  <2> DEFINE said == [now EXCEPT !.phase = "leaving", !.told = 1]
  <2>3. said \in ATerminal
    BY <1>0 DEF ATerminal, TerminalPhases
  <2>4. said.phase = "leaving" /\ said.told = 1
    BY <1>0 DEF ATerminal
  <2>5. Terminal(t, said)
    BY <2>1, <2>2
  <2> HIDE DEF said
  <2>6. SoundTerminal(said)
    BY <2>3, <2>4 DEF SoundTerminal
  <2> QED
    BY <2>5, <2>6
<1>11. CASE LeaveTerminal(t)
  <2>1. Terminal(t, [now EXCEPT !.phase = "over", !.registered = FALSE])
        /\ now.phase = "leaving"
    BY <1>11 DEF LeaveTerminal, now
  <2>2. SoundTerminal([now EXCEPT !.phase = "over", !.registered = FALSE])
    BY <1>0, <2>1 DEF SoundTerminal, ATerminal, TerminalPhases
  <2> QED
    BY <2>1, <2>2
<1>12. CASE CloseTerminal(t)
  <2>1. Terminal(t, Taken(now))
    BY <1>12 DEF CloseTerminal, now
  <2> QED
    BY <1>0, <2>1, TakenIsSound
<1>13. CASE ClosePipe(t)
  <2>1. Terminal(t, [now EXCEPT !.piped = TRUE, !.writing = FALSE])
    BY <1>13 DEF ClosePipe, now
  <2>2. SoundTerminal([now EXCEPT !.piped = TRUE, !.writing = FALSE])
    BY <1>0 DEF SoundTerminal, ATerminal
  <2> QED
    BY <2>1, <2>2
<1>14. CASE CancelTerminal(t)
  <2>1. Terminal(t, [now EXCEPT !.closing = FALSE, !.cancelled = TRUE])
    BY <1>14 DEF CancelTerminal, now
  <2>2. SoundTerminal([now EXCEPT !.closing = FALSE, !.cancelled = TRUE])
    BY <1>0 DEF SoundTerminal, ATerminal
  <2> QED
    BY <2>1, <2>2
<1> QED
  BY <1>3, <1>4, <1>5, <1>6, <1>7, <1>8, <1>9, <1>10, <1>11, <1>12, <1>13,
     <1>14 DEF TerminalSteps, StreamCancelled

\* Flushing what a log gathered ends it exactly when an end is said.
LEMMA FlushIsSound ==
  ASSUME NEW log, SoundLog(log), log.phase = "live",
         NEW done \in {<<>>, <<"stopped">>, <<"error">>, <<"end">>}
  PROVE  SoundLog(FlushLog(log, done))
<1>0. log \in ALog /\ log.said = <<>>
  BY DEF SoundLog
<1>1. log.out \o log.batch \in Lines /\ <<>> \in Lines
  <2>1. log.out \in Seq(Nat) /\ log.batch \in Seq(Nat)
    BY <1>0 DEF ALog, Lines
  <2> QED
    BY <2>1 DEF Lines
<1>2. log.said \o done = done
  BY <1>0
<1>3. CASE done = <<>>
  <2>1. FlushLog(log, done) =
          [log EXCEPT !.out = log.out \o log.batch, !.batch = <<>>,
                      !.said = <<>>, !.phase = log.phase,
                      !.registered = log.registered]
    BY <1>3, <1>2 DEF FlushLog
  <2> QED
    BY <1>0, <1>1, <2>1 DEF SoundLog, ALog
<1>4. CASE done # <<>>
  <2>1. FlushLog(log, done) =
          [log EXCEPT !.out = log.out \o log.batch, !.batch = <<>>,
                      !.said = done, !.phase = "over", !.registered = FALSE]
    BY <1>4, <1>2 DEF FlushLog
  <2>2. done \in Ends
    BY <1>4 DEF Ends
  <2> QED
    BY <1>0, <1>1, <2>1, <2>2 DEF SoundLog, ALog
<1> QED
  BY <1>3, <1>4

\* Starting, reading, pumping and stopping a log.
LEMMA LogStepsKeep ==
  ASSUME IInv, NEW l \in Logs,
         \/ StopLog(l) \/ LogSteps(l)
         \/ \E size \in 0 .. MaxLines, end \in {"end", "error", "followed"} :
              StartLog(l, size, end)
  PROVE  IInv'
<1> DEFINE now == logs[l]
<1>0. SoundLog(now) /\ now \in ALog
  BY DEF IInv
<1> HIDE DEF now
<1>1. UNCHANGED <<terminals, runs, queue>>
  BY DEF StopLog, LogSteps, StartLog, Scan, SendLine, ScanEnds, CloseLines,
     Pump, CancelLog, OnlyLogs
<1>2. SUFFICES \E log : SoundLog(log) /\ Log(l, log)
  BY <1>1, OneLog
<1>3. ASSUME NEW size \in 0 .. MaxLines, NEW end \in {"end", "error", "followed"},
             StartLog(l, size, end)
      PROVE  \E log : SoundLog(log) /\ Log(l, log)
  <2> DEFINE begun == [now EXCEPT !.phase = "live", !.registered = TRUE,
                         !.size = size, !.end = end, !.reader = "reading"]
  <2>1. Log(l, begun) /\ now.phase = "none"
    BY <1>3 DEF StartLog, now
  <2>2. size \in Nat
    OBVIOUS
  <2>3. begun \in ALog
    BY <1>0, <2>2 DEF ALog
  <2>4. begun.registered /\ begun.said = now.said /\ now.said = <<>>
    BY <1>0, <2>1 DEF SoundLog, ALog
  <2> HIDE DEF begun
  <2>5. SoundLog(begun)
    BY <2>3, <2>4 DEF SoundLog
  <2> QED
    BY <2>1, <2>5
<1>4. CASE Scan(l)
  <2>1. Log(l, [now EXCEPT !.reader = "sending"])
    BY <1>4 DEF Scan, now
  <2>2. SoundLog([now EXCEPT !.reader = "sending"])
    BY <1>0 DEF SoundLog, ALog
  <2> QED
    BY <2>1, <2>2
<1>5. CASE SendLine(l)
  <2> DEFINE sent == [now EXCEPT !.reader = "reading",
                        !.lines = Append(@, now.next), !.next = @ + 1]
  <2>1. Log(l, sent) \/ Log(l, [now EXCEPT !.reader = "done"])
    BY <1>5 DEF SendLine, now
  <2>0. now.lines \in Seq(Nat) /\ now.next \in Nat
    BY <1>0 DEF ALog, Lines
  <2>2. Append(now.lines, now.next) \in Lines /\ now.next + 1 \in Nat
    BY <2>0 DEF Lines
  <2>3. SoundLog(sent)
    BY <1>0, <2>2 DEF SoundLog, ALog
  <2>4. SoundLog([now EXCEPT !.reader = "done"])
    BY <1>0 DEF SoundLog, ALog
  <2> QED
    BY <2>1, <2>3, <2>4
<1>6. CASE ScanEnds(l)
  <2>1. \/ Log(l, [now EXCEPT !.reader = "failed", !.readErr = TRUE])
        \/ Log(l, [now EXCEPT !.reader = "done"])
    BY <1>6 DEF ScanEnds, now
  <2>2. SoundLog([now EXCEPT !.reader = "failed", !.readErr = TRUE])
    BY <1>0 DEF SoundLog, ALog
  <2>3. SoundLog([now EXCEPT !.reader = "done"])
    BY <1>0 DEF SoundLog, ALog
  <2> QED
    BY <2>1, <2>2, <2>3
<1>7. CASE CloseLines(l)
  <2>1. Log(l, [now EXCEPT !.reader = "done"])
    BY <1>7 DEF CloseLines, now
  <2>2. SoundLog([now EXCEPT !.reader = "done"])
    BY <1>0 DEF SoundLog, ALog
  <2> QED
    BY <2>1, <2>2
<1>8. CASE Pump(l)
  <2>1. now.phase = "live"
    BY <1>8 DEF Pump, now
  <2>2. \A done \in {<<>>, <<"stopped">>, <<"error">>, <<"end">>} :
          SoundLog(FlushLog(now, done))
    BY <1>0, <2>1, FlushIsSound
  <2>3. CASE PumpStopped(l) \/ PumpFailed(l) \/ PumpClosed(l) \/ PumpTick(l)
    BY <2>2, <2>3 DEF PumpStopped, PumpFailed, PumpClosed, PumpTick, now
  <2>4. CASE PumpLine(l)
    <3> DEFINE taken == [now EXCEPT !.batch = Append(@, Head(now.lines)),
                                    !.lines = Tail(@)]
    <3>1. \/ Log(l, FlushLog(taken, <<>>))
          \/ Log(l, taken)
      BY <2>4 DEF PumpLine, now
    <3>2. now.lines # <<>>
      BY <2>4 DEF PumpLine, now
    <3>3. now.lines \in Seq(Nat) /\ now.batch \in Seq(Nat)
      BY <1>0 DEF ALog, Lines
    <3>4. Head(now.lines) \in Nat /\ Tail(now.lines) \in Seq(Nat)
      BY <3>2, <3>3
    <3>5. /\ Append(now.batch, Head(now.lines)) \in Lines
          /\ Tail(now.lines) \in Lines
      BY <3>3, <3>4 DEF Lines
    <3>6. SoundLog(taken) /\ taken.phase = "live"
      BY <1>0, <2>1, <3>5 DEF SoundLog, ALog
    <3> HIDE DEF taken
    <3>7. SoundLog(FlushLog(taken, <<>>))
      BY <3>6, FlushIsSound
    <3> QED
      BY <3>1, <3>6, <3>7
  <2> QED
    BY <1>8, <2>3, <2>4 DEF Pump
<1>9. CASE StopLog(l)
  <2>1. Log(l, TakenLog(now))
    BY <1>9 DEF StopLog, now
  <2> QED
    BY <1>0, <2>1, TakenIsSound
<1>10. CASE CancelLog(l)
  <2>1. Log(l, [now EXCEPT !.closing = FALSE, !.cancelled = TRUE])
    BY <1>10 DEF CancelLog, now
  <2>2. SoundLog([now EXCEPT !.closing = FALSE, !.cancelled = TRUE])
    BY <1>0 DEF SoundLog, ALog
  <2> QED
    BY <2>1, <2>2
<1> QED
  BY <1>3, <1>4, <1>5, <1>6, <1>7, <1>8, <1>9, <1>10 DEF LogSteps

\* Asking, running, telling and cancelling a question.
LEMMA RunStepsKeep ==
  ASSUME IInv, NEW r \in Runs,
         \/ AskAI(r) \/ CancelAskAI(r) \/ RunTimesOut(r) \/ RunSteps(r)
         \/ \E failed \in BOOLEAN : ProcessEnds(r, failed)
  PROVE  IInv'
<1> DEFINE now == runs[r]
<1>0. SoundRun(now) /\ now \in ARun
  BY DEF IInv
<1> HIDE DEF now
<1>1. UNCHANGED <<terminals, logs, queue>>
  BY DEF AskAI, CancelAskAI, RunTimesOut, RunSteps, ProcessEnds, RegisterRun,
     StartProcess, KillProcess, TellRun, CancelRun, OnlyRuns
<1>2. SUFFICES \E run : SoundRun(run) /\ Run(r, run)
  BY <1>1, OneRun
<1>3. CASE AskAI(r)
  <2>1. Run(r, [now EXCEPT !.phase = "spawned"]) /\ now.phase = "none"
    BY <1>3 DEF AskAI, now
  <2>2. SoundRun([now EXCEPT !.phase = "spawned"])
    BY <1>0, <2>1 DEF SoundRun, ARun
  <2> QED
    BY <2>1, <2>2
<1>4. ASSUME NEW ok \in BOOLEAN, RegisterRun(r, ok)
      PROVE  \E run : SoundRun(run) /\ Run(r, run)
  <2>1. /\ now.phase = "spawned"
        /\ \/ Run(r, [now EXCEPT !.phase = "registered", !.registered = TRUE])
           \/ Run(r, [now EXCEPT !.phase = "over"])
    BY <1>4 DEF RegisterRun, now
  <2>2. SoundRun([now EXCEPT !.phase = "registered", !.registered = TRUE])
    BY <1>0, <2>1 DEF SoundRun, ARun
  <2>3. SoundRun([now EXCEPT !.phase = "over"])
    BY <1>0, <2>1 DEF SoundRun, ARun
  <2> QED
    BY <2>1, <2>2, <2>3
<1>5. ASSUME NEW ok \in BOOLEAN, StartProcess(r, ok)
      PROVE  \E run : SoundRun(run) /\ Run(r, run)
  <2>1. now.phase = "registered"
    BY <1>5 DEF StartProcess, now
  <2>2. CASE ok /\ ~now.cancelled
    <3>1. Run(r, [now EXCEPT !.phase = "running", !.alive = TRUE])
      BY <1>5, <2>2 DEF StartProcess, now
    <3>2. SoundRun([now EXCEPT !.phase = "running", !.alive = TRUE])
      BY <1>0, <2>1 DEF SoundRun, ARun
    <3> QED
      BY <3>1, <3>2
  <2>3. CASE ~(ok /\ ~now.cancelled)
    <3>1. Run(r, [now EXCEPT !.phase = "over", !.registered = FALSE])
      BY <1>5, <2>3 DEF StartProcess, now
    <3>2. ~now.alive
      BY <1>0, <2>1 DEF SoundRun
    <3>3. SoundRun([now EXCEPT !.phase = "over", !.registered = FALSE])
      BY <1>0, <2>1, <3>2 DEF SoundRun, ARun
    <3> QED
      BY <3>1, <3>3
  <2> QED
    BY <2>2, <2>3
<1>6. CASE RunTimesOut(r) \/ CancelAskAI(r)
  <2>1. Run(r, [now EXCEPT !.cancelled = TRUE])
    BY <1>6 DEF RunTimesOut, CancelAskAI, now
  <2>2. SoundRun([now EXCEPT !.cancelled = TRUE])
    BY <1>0 DEF SoundRun, ARun
  <2> QED
    BY <2>1, <2>2
<1>7. ASSUME NEW failed \in BOOLEAN, ProcessEnds(r, failed)
      PROVE  \E run : SoundRun(run) /\ Run(r, run)
  <2>1. Run(r, [now EXCEPT !.phase = "waited", !.alive = FALSE, !.failed = failed])
        /\ now.phase = "running"
    BY <1>7 DEF ProcessEnds, now
  <2>2. SoundRun([now EXCEPT !.phase = "waited", !.alive = FALSE, !.failed = failed])
    BY <1>0, <2>1 DEF SoundRun, ARun
  <2> QED
    BY <2>1, <2>2
<1>8. CASE TellRun(r)
  <2> DEFINE word == IF now.cancelled THEN "cancelled"
                     ELSE IF now.failed THEN "error" ELSE "done"
             over == [now EXCEPT !.phase = "over", !.registered = FALSE,
                                 !.said = Append(@, word)]
  <2>1. Run(r, over) /\ now.phase = "waited"
    BY <1>8 DEF TellRun, now
  <2>2. now.said = <<>> /\ ~now.alive
    BY <1>0, <2>1 DEF SoundRun
  <2>3. Append(now.said, word) \in {<<>>} \cup Outcomes
    BY <2>2 DEF Outcomes
  <2> HIDE DEF word
  <2>4. SoundRun(over)
    BY <1>0, <2>1, <2>2, <2>3 DEF SoundRun, ARun
  <2> QED
    BY <2>1, <2>4
<1>9. CASE CancelRun(r)
  <2>1. Run(r, [now EXCEPT !.closing = FALSE, !.cancelled = TRUE])
    BY <1>9 DEF CancelRun, now
  <2>2. SoundRun([now EXCEPT !.closing = FALSE, !.cancelled = TRUE])
    BY <1>0 DEF SoundRun, ARun
  <2> QED
    BY <2>1, <2>2
<1> QED
  BY <1>3, <1>4, <1>5, <1>6, <1>7, <1>8, <1>9 DEF RunSteps, KillProcess

LinkSteps == (\E k \in Links : Deliver(k) \/ OpenLink(k)) \/ Ready \/ Reload

\* Links are held until a window listens, then acted on and held no more.
LEMMA LinkStepsKeep ==
  ASSUME IInv, LinkSteps
  PROVE  IInv'
<1>1. UNCHANGED <<terminals, logs, runs>>
  BY DEF LinkSteps, Deliver, OpenLink, Ready, Reload, OnlyLinks, streams
<1>2. ASSUME NEW k \in Links, Deliver(k) PROVE SoundLinks'
  <2> DEFINE now == IF ready THEN [links[k] EXCEPT !.came = @ + 1, !.opening = @ + 1]
                    ELSE [links[k] EXCEPT !.came = @ + 1, !.held = @ + 1]
  <2>1. links[k] \in ALink
    BY DEF IInv, SoundLinks
  <2>2. /\ now \in ALink
        /\ now.came = links[k].came + 1 /\ now.told = links[k].told /\ now.missed = links[k].missed
        /\ ready => now.opening = links[k].opening + 1 /\ now.held = links[k].held
        /\ ~ready => now.opening = links[k].opening /\ now.held = links[k].held + 1
    <3> DEFINE c == links[k].came
               h == links[k].held
               o == links[k].opening
    <3>1. c \in Nat /\ h \in Nat /\ o \in Nat /\ links[k].told \in Nat /\ links[k].missed \in Nat
      BY <2>1 DEF ALink
    <3>2. now = [came |-> c + 1, held |-> IF ready THEN h ELSE h + 1,
                 opening |-> IF ready THEN o + 1 ELSE o,
                 told |-> links[k].told, missed |-> links[k].missed]
      BY <2>1 DEF ALink
    <3> HIDE DEF now
    <3> QED
      BY <3>1, <3>2 DEF ALink
  <2>3. /\ links' = [links EXCEPT ![k] = now]
        /\ ready' = ready /\ listening' = listening /\ reloaded' = reloaded
    BY <1>2 DEF Deliver, Link
  <2> HIDE DEF now
  <2> QED
    BY <2>1, <2>2, <2>3 DEF IInv, SoundLinks, LinksOnce, ALink
<1>3. ASSUME NEW k \in Links, OpenLink(k) PROVE SoundLinks'
  <2> DEFINE now == IF listening THEN [links[k] EXCEPT !.opening = @ - 1, !.told = @ + 1]
                    ELSE [links[k] EXCEPT !.opening = @ - 1, !.missed = @ + 1]
  <2>1. links[k] \in ALink /\ links[k].opening > 0
    BY <1>3 DEF IInv, SoundLinks, OpenLink
  <2>2. /\ now \in ALink
        /\ now.came = links[k].came /\ now.held = links[k].held
        /\ now.opening = links[k].opening - 1
        /\ listening => now.told = links[k].told + 1 /\ now.missed = links[k].missed
        /\ ~listening => now.told = links[k].told /\ now.missed = links[k].missed + 1
    <3> DEFINE o == links[k].opening
               t == links[k].told
               m == links[k].missed
    <3>1. o \in Nat /\ o - 1 \in Nat /\ t \in Nat /\ m \in Nat
          /\ links[k].came \in Nat /\ links[k].held \in Nat
      BY <2>1 DEF ALink
    <3>2. now = [came |-> links[k].came, held |-> links[k].held, opening |-> o - 1,
                 told |-> IF listening THEN t + 1 ELSE t,
                 missed |-> IF listening THEN m ELSE m + 1]
      BY <2>1 DEF ALink
    <3> HIDE DEF now
    <3> QED
      BY <3>1, <3>2 DEF ALink
  <2>3. /\ links' = [links EXCEPT ![k] = now]
        /\ ready' = ready /\ listening' = listening /\ reloaded' = reloaded
    BY <1>3 DEF OpenLink, Link
  <2>4. listening \/ reloaded
    BY <2>1 DEF IInv, SoundLinks, LinksOnce, ALink
  <2> HIDE DEF now
  <2> QED
    BY <2>1, <2>2, <2>3, <2>4 DEF IInv, SoundLinks, LinksOnce, ALink
<1>4. ASSUME Ready PROVE SoundLinks'
  <2>1. /\ ready' = TRUE /\ listening' = TRUE /\ reloaded' = reloaded
        /\ links' = [k \in Links |-> Released(links[k])]
    BY <1>4 DEF Ready
  <2>2. ASSUME NEW k \in Links
        PROVE  /\ links'[k] \in ALink
               /\ links'[k].came = links[k].came /\ links'[k].held = 0
               /\ links'[k].opening = links[k].opening + links[k].held
               /\ links'[k].told = links[k].told /\ links'[k].missed = links[k].missed
    <3>1. links[k] \in ALink /\ links'[k] = Released(links[k])
      BY <2>1 DEF IInv, SoundLinks
    <3>2. Released(links[k]) = [came |-> links[k].came, held |-> 0,
                                opening |-> links[k].opening + links[k].held,
                                told |-> links[k].told, missed |-> links[k].missed]
      BY <3>1 DEF Released, ALink
    <3> QED
      BY <3>1, <3>2 DEF ALink
  <2>3. links' \in [Links -> ALink]
    BY <2>1, <2>2
  <2> QED
    BY <2>1, <2>2, <2>3 DEF IInv, SoundLinks, LinksOnce, ALink
<1>5. ASSUME Reload PROVE SoundLinks'
  BY <1>5 DEF Reload, IInv, SoundLinks, LinksOnce
<1> QED
  BY <1>1, <1>2, <1>3, <1>4, <1>5 DEF IInv, LinkSteps

\* Every step keeps the invariant.
LEMMA NextIInv == IInv /\ [Next]_vars => IInv'
<1> SUFFICES ASSUME IInv, [Next]_vars PROVE IInv'
  OBVIOUS
<1>1. ASSUME UNCHANGED <<terminals, logs, runs, queue>> PROVE IInv'
  BY <1>1 DEF IInv, SoundLinks, LinksOnce, queue
<1>2. CASE Disconnect \/ Connect \/ AuthFailure \/ UNCHANGED vars
  BY <1>1, <1>2 DEF Disconnect, Connect, AuthFailure, vars, streams
<1>3. CASE CloseCluster \/ StopTerminals
  BY <1>3, AllTerminals DEF CloseCluster, StopTerminals
<1>4. CASE StopRuns
  <2>1. \A r \in Runs : SoundRun(TakenRun(runs[r]))
    BY TakenIsSound DEF IInv
  <2>2. /\ runs' = [r \in Runs |-> TakenRun(runs[r])]
        /\ UNCHANGED <<terminals, logs, queue>>
    BY <1>4 DEF StopRuns
  <2>3. runs' \in [Runs -> ARun]
    BY <2>1, <2>2 DEF SoundRun
  <2> QED
    BY <2>1, <2>2, <2>3 DEF IInv, SoundLinks, LinksOnce, queue
<1>5. CASE StopLogs
  <2>1. \A l \in Logs : SoundLog(TakenLog(logs[l]))
    BY TakenIsSound DEF IInv
  <2>2. /\ logs' = [l \in Logs |-> TakenLog(logs[l])]
        /\ UNCHANGED <<terminals, runs, queue>>
    BY <1>5 DEF StopLogs
  <2>3. logs' \in [Logs -> ALog]
    BY <2>1, <2>2 DEF SoundLog
  <2> QED
    BY <2>1, <2>2, <2>3 DEF IInv, SoundLinks, LinksOnce, queue
<1> QED
  BY <1>2, <1>3, <1>4, <1>5, TerminalStepsKeep, LogStepsKeep, RunStepsKeep,
     LinkStepsKeep DEF Next, LinkSteps

-----------------------------------------------------------------------------
(* The lines of a log, wherever they are, are numbered through *)

InOrder(out, batch, lines, next) ==
  /\ \A i \in 1 .. Len(out) : out[i] = i
  /\ \A i \in 1 .. Len(batch) : batch[i] = Len(out) + i
  /\ \A i \in 1 .. Len(lines) : lines[i] = Len(out) + Len(batch) + i
  /\ next = Len(out) + Len(batch) + Len(lines) + 1

\* The reader goes no further than the source, and stops before its end only
\* for a log that was cancelled or is over.
Bounded(log) ==
  /\ log.next <= log.size + 1
  /\ log.reader = "sending" => log.next <= log.size
  /\ log.reader \in {"failed", "done"} /\ log.phase = "live" /\ ~log.cancelled =>
       log.next = log.size + 1
  /\ log.readErr => log.end = "error"

\* What a log says when it ends it says with nothing left to flush.
Ended(log) ==
  /\ log.phase = "none" =>
       log.next = 1 /\ log.size = 0 /\ ~log.readErr /\ log.reader = "none"
  /\ log.said # <<>> => log.batch = <<>> /\ log.phase = "over"
  /\ log.said = <<"end">> /\ log.end = "end" /\ ~log.cancelled => Len(log.out) = log.size

WholeLog(log) ==
  /\ InOrder(log.out, log.batch, log.lines, log.next)
  /\ Bounded(log)
  /\ Ended(log)

WholeInv == \A l \in Logs : WholeLog(logs[l])

\* What was gathered goes out behind what went out before.
LEMMA FlushInOrder ==
  ASSUME NEW out \in Seq(Nat), NEW batch \in Seq(Nat), NEW lines \in Seq(Nat),
         NEW next \in Nat, InOrder(out, batch, lines, next)
  PROVE  InOrder(out \o batch, <<>>, lines, next)
<1>1. /\ out \o batch \in Seq(Nat)
      /\ Len(out \o batch) = Len(out) + Len(batch)
      /\ \A i \in 1 .. Len(out) + Len(batch) :
           (out \o batch)[i] = IF i <= Len(out) THEN out[i] ELSE batch[i - Len(out)]
  BY ConcatProperties
<1>2. \A i \in 1 .. Len(out \o batch) : (out \o batch)[i] = i
  <2> SUFFICES ASSUME NEW i \in 1 .. Len(out) + Len(batch)
               PROVE  (out \o batch)[i] = i
    BY <1>1
  <2>1. CASE i <= Len(out)
    BY <1>1, <2>1 DEF InOrder
  <2>2. CASE ~(i <= Len(out))
    <3>1. i - Len(out) \in 1 .. Len(batch) /\ Len(out) + (i - Len(out)) = i
      BY <2>2
    <3> QED
      BY <1>1, <2>2, <3>1 DEF InOrder
  <2> QED
    BY <2>1, <2>2
<1>3. Len(<<>>) = 0
  OBVIOUS
<1> QED
  BY <1>1, <1>2, <1>3 DEF InOrder

\* A line is sent behind those that were.
LEMMA SendInOrder ==
  ASSUME NEW out \in Seq(Nat), NEW batch \in Seq(Nat), NEW lines \in Seq(Nat),
         NEW next \in Nat, InOrder(out, batch, lines, next)
  PROVE  InOrder(out, batch, Append(lines, next), next + 1)
<1> DEFINE sent == Append(lines, next)
<1>1. /\ Len(sent) = Len(lines) + 1
      /\ \A i \in 1 .. Len(lines) : sent[i] = lines[i]
      /\ sent[Len(lines) + 1] = next
  BY AppendProperties
<1>2. Len(out) \in Nat /\ Len(batch) \in Nat /\ Len(lines) \in Nat
  OBVIOUS
<1> HIDE DEF sent
<1>3. ASSUME NEW i \in 1 .. Len(sent)
      PROVE  sent[i] = Len(out) + Len(batch) + i
  <2>1. CASE i = Len(lines) + 1
    BY <1>1, <1>2, <2>1 DEF InOrder
  <2>2. CASE i # Len(lines) + 1
    <3>1. i \in 1 .. Len(lines)
      BY <1>1, <1>2, <2>2
    <3> QED
      BY <1>1, <3>1 DEF InOrder
  <2> QED
    BY <2>1, <2>2
<1>4. next + 1 = Len(out) + Len(batch) + Len(sent) + 1
  BY <1>1, <1>2 DEF InOrder
<1>5. InOrder(out, batch, sent, next + 1)
  BY <1>3, <1>4 DEF InOrder
<1> QED
  BY <1>5 DEF sent

\* The pump takes the oldest line that was sent.
LEMMA TakeInOrder ==
  ASSUME NEW out \in Seq(Nat), NEW batch \in Seq(Nat), NEW lines \in Seq(Nat),
         NEW next \in Nat, InOrder(out, batch, lines, next), lines # <<>>
  PROVE  InOrder(out, Append(batch, Head(lines)), Tail(lines), next)
<1> DEFINE taken == Append(batch, Head(lines))
           rest == Tail(lines)
<1>0. /\ Head(lines) \in Nat /\ Head(lines) = lines[1] /\ Len(lines) \in Nat \ {0}
      /\ Len(rest) = Len(lines) - 1
      /\ \A i \in 1 .. Len(rest) : rest[i] = lines[i + 1]
  BY HeadTailProperties, EmptySeq
<1>1. /\ Len(taken) = Len(batch) + 1
      /\ \A i \in 1 .. Len(batch) : taken[i] = batch[i]
      /\ taken[Len(batch) + 1] = Head(lines)
  BY <1>0, AppendProperties
<1>2. Len(out) \in Nat /\ Len(batch) \in Nat
  OBVIOUS
<1> HIDE DEF taken, rest
<1>3. Head(lines) = Len(out) + Len(batch) + 1
  BY <1>0 DEF InOrder
<1>4. ASSUME NEW i \in 1 .. Len(taken)
      PROVE  taken[i] = Len(out) + i
  <2>1. CASE i = Len(batch) + 1
    BY <1>1, <1>2, <1>3, <2>1
  <2>2. CASE i # Len(batch) + 1
    <3>1. i \in 1 .. Len(batch)
      BY <1>1, <1>2, <2>2
    <3> QED
      BY <1>1, <3>1 DEF InOrder
  <2> QED
    BY <2>1, <2>2
<1>5. ASSUME NEW i \in 1 .. Len(rest)
      PROVE  rest[i] = Len(out) + Len(taken) + i
  <2>1. i + 1 \in 1 .. Len(lines) /\ rest[i] = lines[i + 1]
    BY <1>0
  <2>2. lines[i + 1] = Len(out) + Len(batch) + (i + 1)
    BY <2>1 DEF InOrder
  <2> QED
    BY <1>1, <1>2, <2>1, <2>2
<1>6. next = Len(out) + Len(taken) + Len(rest) + 1
  BY <1>0, <1>1, <1>2 DEF InOrder
<1>7. InOrder(out, taken, rest, next)
  BY <1>4, <1>5, <1>6 DEF InOrder
<1> QED
  BY <1>7 DEF taken, rest

\* Put together they are the lines of the source from the first one on.
LEMMA InOrderIsWhole ==
  ASSUME NEW out \in Seq(Nat), NEW batch \in Seq(Nat), NEW lines \in Seq(Nat),
         NEW next \in Nat, InOrder(out, batch, lines, next)
  PROVE  out \o batch \o lines =
           [i \in 1 .. (Len(out) + Len(batch) + Len(lines)) |-> i]
<1>1. InOrder(out \o batch, <<>>, lines, next) /\ out \o batch \in Seq(Nat)
      /\ <<>> \in Seq(Nat) /\ Len(out \o batch) = Len(out) + Len(batch)
  BY FlushInOrder, ConcatProperties
<1>2. InOrder((out \o batch) \o <<>>, <<>>, lines, next) /\ (out \o batch) \o <<>> = out \o batch
  BY <1>1, FlushInOrder, ConcatEmptySeq
<1> DEFINE shown == out \o batch
<1>3. InOrder(shown, lines, <<>>, next)
  <2>1. Len(<<>>) = 0
    OBVIOUS
  <2> QED
    BY <1>1, <2>1 DEF InOrder
<1>4. InOrder(shown \o lines, <<>>, <<>>, next)
  BY <1>1, <1>3, FlushInOrder
<1>5. shown \o lines \in Seq(Nat) /\ Len(shown \o lines) = Len(out) + Len(batch) + Len(lines)
  BY <1>1, ConcatProperties
<1> HIDE DEF shown
<1>6. \A i \in 1 .. Len(shown \o lines) : (shown \o lines)[i] = i
  BY <1>4 DEF InOrder
<1> DEFINE whole == shown \o lines
<1>7. whole \in [1 .. Len(whole) -> Nat]
  BY <1>5, LenProperties
<1> HIDE DEF whole
<1>8. whole = [i \in 1 .. Len(whole) |-> i]
  BY <1>6, <1>7 DEF whole
<1> QED
  BY <1>5, <1>8 DEF shown, whole

\* A flush keeps the lines in their order, and says an end that is true.
LEMMA FlushIsWhole ==
  ASSUME NEW log, SoundLog(log), WholeLog(log), log.phase = "live",
         NEW done \in {<<>>, <<"stopped">>, <<"error">>, <<"end">>},
         done = <<"error">> => log.readErr,
         done = <<"end">> => log.reader = "done" /\ log.lines = <<>>
  PROVE  WholeLog(FlushLog(log, done))
<1> DEFINE flushed == FlushLog(log, done)
           out == log.out \o log.batch
<1>0. /\ log \in ALog /\ log.said = <<>>
      /\ log.out \in Seq(Nat) /\ log.batch \in Seq(Nat) /\ log.lines \in Seq(Nat)
      /\ log.next \in Nat /\ log.size \in Nat
  BY DEF SoundLog, ALog, Lines
<1>1. log.said \o done = done
  BY <1>0
<1>2. /\ flushed.out = out /\ flushed.batch = <<>> /\ flushed.said = done
      /\ flushed.lines = log.lines /\ flushed.next = log.next
      /\ flushed.size = log.size /\ flushed.end = log.end
      /\ flushed.reader = log.reader /\ flushed.readErr = log.readErr
      /\ flushed.cancelled = log.cancelled
      /\ flushed.phase = IF done = <<>> THEN "live" ELSE "over"
  BY <1>0, <1>1 DEF FlushLog, ALog
<1>3. InOrder(out, <<>>, log.lines, log.next)
  BY <1>0, FlushInOrder DEF WholeLog
<1>4. out \in Seq(Nat) /\ Len(out) \in Nat
  <2>1. out \in Seq(Nat)
    BY <1>0, ConcatProperties
  <2> QED
    BY <2>1, LenProperties
<1> HIDE DEF flushed, out
<1>5. Bounded(flushed)
  BY <1>2 DEF WholeLog, Bounded
<1>6. flushed.said = <<"end">> /\ flushed.end = "end" /\ ~flushed.cancelled =>
        Len(flushed.out) = flushed.size
  <2> SUFFICES ASSUME done = <<"end">>, ~log.cancelled
               PROVE  Len(out) = log.size
    BY <1>2
  <2>1. log.next = log.size + 1
    BY DEF WholeLog, Bounded
  <2>2. Len(<<>>) = 0 /\ log.lines = <<>>
    OBVIOUS
  <2>3. log.next = Len(out) + 1
    BY <1>3, <1>4, <2>2 DEF InOrder
  <2> QED
    BY <1>0, <1>4, <2>1, <2>3
<1>7. Ended(flushed)
  BY <1>2, <1>6 DEF Ended
<1> QED
  BY <1>2, <1>3, <1>5, <1>7 DEF WholeLog, flushed

\* One log moves on.
LEMMA OneWholeLog ==
  ASSUME IInv, WholeInv, NEW l \in Logs, NEW log, WholeLog(log), Log(l, log)
  PROVE  WholeInv'
  BY DEF IInv, WholeInv, Log

\* Whatever closes or cancels a log leaves its lines alone.
LEMMA TakenIsWhole ==
  ASSUME NEW log \in ALog, WholeLog(log)
  PROVE  WholeLog(TakenLog(log))
  BY DEF TakenLog, WholeLog, Bounded, Ended, ALog

\* Starting, reading, pumping and stopping a log.
LEMMA LogStepsKeepWhole ==
  ASSUME IInv, WholeInv, NEW l \in Logs,
         \/ StopLog(l) \/ LogSteps(l)
         \/ \E size \in 0 .. MaxLines, end \in {"end", "error", "followed"} :
              StartLog(l, size, end)
  PROVE  WholeInv'
<1> DEFINE now == logs[l]
<1>0. /\ SoundLog(now) /\ WholeLog(now) /\ now \in ALog
      /\ now.out \in Seq(Nat) /\ now.batch \in Seq(Nat) /\ now.lines \in Seq(Nat)
      /\ now.next \in Nat /\ now.size \in Nat
  BY DEF IInv, WholeInv, SoundLog, ALog, Lines
<1> HIDE DEF now
<1>1. SUFFICES \E log : WholeLog(log) /\ Log(l, log)
  BY OneWholeLog
<1>2. ASSUME NEW size \in 0 .. MaxLines, NEW end \in {"end", "error", "followed"},
             StartLog(l, size, end)
      PROVE  \E log : WholeLog(log) /\ Log(l, log)
  <2> DEFINE begun == [now EXCEPT !.phase = "live", !.registered = TRUE,
                         !.size = size, !.end = end, !.reader = "reading"]
  <2>1. Log(l, begun) /\ now.phase = "none"
    BY <1>2 DEF StartLog, now
  <2>2. /\ size \in Nat /\ now.next = 1 /\ now.said = <<>> /\ ~now.readErr
        /\ InOrder(now.out, now.batch, now.lines, now.next)
    BY <1>0, <2>1 DEF WholeLog, Ended, SoundLog
  <2>3. /\ begun.out = now.out /\ begun.batch = now.batch /\ begun.lines = now.lines
        /\ begun.next = 1 /\ begun.size = size /\ begun.phase = "live"
        /\ begun.said = <<>> /\ ~begun.readErr /\ begun.reader = "reading"
    BY <1>0, <2>2 DEF ALog
  <2> HIDE DEF begun
  <2>4. Bounded(begun)
    BY <2>2, <2>3 DEF Bounded
  <2>5. Ended(begun)
    BY <2>3 DEF Ended
  <2>6. WholeLog(begun)
    BY <2>2, <2>3, <2>4, <2>5 DEF WholeLog
  <2> QED
    BY <2>1, <2>6
<1>3. CASE Scan(l)
  <2>1. /\ Log(l, [now EXCEPT !.reader = "sending"]) /\ now.next <= now.size
        /\ now.reader = "reading"
    BY <1>3 DEF Scan, now
  <2>2. now.phase # "none"
    BY <1>0, <2>1 DEF WholeLog, Ended
  <2>3. WholeLog([now EXCEPT !.reader = "sending"])
    BY <1>0, <2>1, <2>2 DEF WholeLog, Bounded, Ended, ALog
  <2> QED
    BY <2>1, <2>3
<1>4. CASE SendLine(l)
  <2> DEFINE lines == Append(now.lines, now.next)
             sent == [now EXCEPT !.reader = "reading", !.lines = lines,
                                 !.next = now.next + 1]
  <2>1. /\ \/ Log(l, sent)
           \/ now.cancelled /\ Log(l, [now EXCEPT !.reader = "done"])
        /\ now.reader = "sending"
    BY <1>4 DEF SendLine, now
  <2>2. InOrder(now.out, now.batch, lines, now.next + 1)
    BY <1>0, SendInOrder DEF WholeLog
  <2>3. now.next <= now.size
    BY <1>0, <2>1 DEF WholeLog, Bounded
  <2> HIDE DEF lines
  <2>4. now.phase # "none" /\ Bounded(now) /\ Ended(now)
    BY <1>0, <2>3 DEF WholeLog, Ended
  <2>5. WholeLog(sent)
    <3>1. /\ sent.out = now.out /\ sent.batch = now.batch /\ sent.lines = lines
          /\ sent.next = now.next + 1 /\ sent.size = now.size /\ sent.phase = now.phase
          /\ sent.said = now.said /\ sent.readErr = now.readErr
          /\ sent.reader = "reading" /\ sent.end = now.end
          /\ sent.cancelled = now.cancelled
      BY <1>0 DEF ALog
    <3> HIDE DEF sent
    <3>2. Bounded(sent)
      BY <1>0, <2>3, <2>4, <3>1 DEF Bounded
    <3>3. Ended(sent)
      BY <2>4, <3>1 DEF Ended
    <3> QED
      BY <2>2, <3>1, <3>2, <3>3 DEF WholeLog
  <2>6. now.cancelled => WholeLog([now EXCEPT !.reader = "done"])
    BY <1>0, <2>4 DEF WholeLog, Bounded, Ended, ALog
  <2> QED
    BY <2>1, <2>5, <2>6
<1>5. CASE ScanEnds(l)
  <2>1. /\ \/ now.end = "error" /\ Log(l, [now EXCEPT !.reader = "failed", !.readErr = TRUE])
           \/ Log(l, [now EXCEPT !.reader = "done"])
        /\ now.next > now.size \/ now.cancelled \/ now.phase = "over"
        /\ now.reader = "reading"
    BY <1>5 DEF ScanEnds, now
  <2>2. /\ Ended(now) /\ Bounded(now) /\ now.phase # "none"
        /\ InOrder(now.out, now.batch, now.lines, now.next)
    BY <1>0, <2>1 DEF WholeLog, Ended
  <2>3. \/ now.next = now.size + 1 \/ now.cancelled \/ now.phase = "over"
    BY <1>0, <2>1, <2>2 DEF Bounded
  <2>4. now.end = "error" => WholeLog([now EXCEPT !.reader = "failed", !.readErr = TRUE])
    <3> DEFINE new == [now EXCEPT !.reader = "failed", !.readErr = TRUE]
    <3>1. /\ new.out = now.out /\ new.batch = now.batch /\ new.lines = now.lines
          /\ new.next = now.next /\ new.size = now.size /\ new.phase = now.phase
          /\ new.said = now.said /\ new.end = now.end /\ new.reader = "failed"
          /\ new.cancelled = now.cancelled
      BY <1>0 DEF ALog
    <3> HIDE DEF new
    <3>2. now.end = "error" => Bounded(new)
      BY <2>2, <2>3, <3>1 DEF Bounded
    <3>3. Ended(new)
      BY <2>1, <2>2, <3>1 DEF Ended
    <3> QED
      BY <2>2, <3>1, <3>2, <3>3 DEF WholeLog, new
  <2>5. WholeLog([now EXCEPT !.reader = "done"])
    <3> DEFINE new == [now EXCEPT !.reader = "done"]
    <3>1. /\ new.out = now.out /\ new.batch = now.batch /\ new.lines = now.lines
          /\ new.next = now.next /\ new.size = now.size /\ new.phase = now.phase
          /\ new.said = now.said /\ new.end = now.end /\ new.reader = "done"
          /\ new.cancelled = now.cancelled /\ new.readErr = now.readErr
      BY <1>0 DEF ALog
    <3> HIDE DEF new
    <3>2. Bounded(new)
      BY <2>2, <2>3, <3>1 DEF Bounded
    <3>3. Ended(new)
      BY <2>1, <2>2, <3>1 DEF Ended
    <3> QED
      BY <2>2, <3>1, <3>2, <3>3 DEF WholeLog, new
  <2> QED
    BY <2>1, <2>4, <2>5
<1>6. CASE CloseLines(l)
  <2>1. Log(l, [now EXCEPT !.reader = "done"]) /\ now.reader = "failed"
    BY <1>6 DEF CloseLines, now
  <2>2. WholeLog([now EXCEPT !.reader = "done"])
    BY <1>0, <2>1 DEF WholeLog, Bounded, Ended, ALog
  <2> QED
    BY <2>1, <2>2
<1>7. CASE Pump(l)
  <2>1. now.phase = "live"
    BY <1>7 DEF Pump, now
  <2>2. CASE PumpStopped(l) \/ PumpTick(l)
    <3>1. WholeLog(FlushLog(now, <<"stopped">>)) /\ WholeLog(FlushLog(now, <<>>))
      BY <1>0, <2>1, FlushIsWhole
    <3> QED
      BY <2>2, <3>1 DEF PumpStopped, PumpTick, now
  <2>3. CASE PumpFailed(l)
    <3>1. WholeLog(FlushLog(now, <<"error">>))
      BY <1>0, <2>1, <2>3, FlushIsWhole DEF PumpFailed, now
    <3> QED
      BY <2>3, <3>1 DEF PumpFailed, now
  <2>4. CASE PumpClosed(l)
    <3>1. WholeLog(FlushLog(now, <<"end">>))
      BY <1>0, <2>1, <2>4, FlushIsWhole DEF PumpClosed, now
    <3> QED
      BY <2>4, <3>1 DEF PumpClosed, now
  <2>5. CASE PumpLine(l)
    <3> DEFINE batch == Append(now.batch, Head(now.lines))
               lines == Tail(now.lines)
               taken == [now EXCEPT !.batch = batch, !.lines = lines]
    <3>1. \/ Log(l, FlushLog(taken, <<>>))
          \/ Log(l, taken)
      BY <2>5 DEF PumpLine, now
    <3>2. now.lines # <<>>
      BY <2>5 DEF PumpLine, now
    <3>3. InOrder(now.out, batch, lines, now.next)
      BY <1>0, <3>2, TakeInOrder DEF WholeLog
    <3>4. batch \in Lines /\ lines \in Lines
      <4>1. Head(now.lines) \in Nat /\ lines \in Seq(Nat)
        BY <1>0, <3>2
      <4> QED
        BY <1>0, <4>1 DEF Lines
    <3> HIDE DEF batch, lines
    <3>5. SoundLog(taken) /\ taken.phase = "live"
      BY <1>0, <2>1, <3>4 DEF SoundLog, ALog
    <3>6. now.said = <<>>
      BY <1>0, <2>1 DEF SoundLog
    <3>7. WholeLog(taken)
      BY <1>0, <2>1, <3>3, <3>6 DEF WholeLog, Bounded, Ended, ALog
    <3> HIDE DEF taken
    <3>8. WholeLog(FlushLog(taken, <<>>))
      BY <3>5, <3>7, FlushIsWhole
    <3> QED
      BY <3>1, <3>7, <3>8
  <2> QED
    BY <1>7, <2>2, <2>3, <2>4, <2>5 DEF Pump
<1>8. CASE StopLog(l)
  <2>1. Log(l, TakenLog(now))
    BY <1>8 DEF StopLog, now
  <2> QED
    BY <1>0, <2>1, TakenIsWhole
<1>9. CASE CancelLog(l)
  <2>1. Log(l, [now EXCEPT !.closing = FALSE, !.cancelled = TRUE])
    BY <1>9 DEF CancelLog, now
  <2>2. WholeLog([now EXCEPT !.closing = FALSE, !.cancelled = TRUE])
    BY <1>0 DEF WholeLog, Bounded, Ended, ALog
  <2> QED
    BY <2>1, <2>2
<1> QED
  BY <1>2, <1>3, <1>4, <1>5, <1>6, <1>7, <1>8, <1>9 DEF LogSteps

\* Every step keeps the logs whole.
LEMMA NextWhole == IInv /\ WholeInv /\ [Next]_vars => WholeInv'
<1> SUFFICES ASSUME IInv, WholeInv, [Next]_vars PROVE WholeInv'
  OBVIOUS
<1>1. CASE UNCHANGED logs
  BY <1>1 DEF WholeInv
<1>2. CASE StopLogs
  <2>1. \A l \in Logs : WholeLog(TakenLog(logs[l]))
    BY TakenIsWhole DEF IInv, WholeInv
  <2> QED
    BY <1>2, <2>1 DEF StopLogs, WholeInv
<1>3. ASSUME NEW l \in Logs,
             \/ StopLog(l) \/ LogSteps(l)
             \/ \E size \in 0 .. MaxLines, end \in {"end", "error", "followed"} :
                  StartLog(l, size, end)
      PROVE  WholeInv'
  BY <1>3, LogStepsKeepWhole
<1>4. ASSUME NEW t \in Terminals,
             \/ OpenTerminal(t) \/ Write(t) \/ CloseTerminal(t) \/ TerminalSteps(t)
             \/ \E failed \in BOOLEAN : StreamEnds(t, failed)
      PROVE  UNCHANGED logs
  BY <1>4 DEF OpenTerminal, Write, CloseTerminal, TerminalSteps, StreamEnds, DetectShell,
     MakeExecutor, StartTerminal, WriteRead, TellTerminal, LeaveTerminal, ClosePipe,
     CancelTerminal, StreamCancelled, OnlyTerminals
<1>5. ASSUME NEW r \in Runs,
             \/ AskAI(r) \/ CancelAskAI(r) \/ RunTimesOut(r) \/ RunSteps(r)
             \/ \E failed \in BOOLEAN : ProcessEnds(r, failed)
      PROVE  UNCHANGED logs
  BY <1>5 DEF AskAI, CancelAskAI, RunTimesOut, RunSteps, ProcessEnds, RegisterRun,
     StartProcess, KillProcess, TellRun, CancelRun, OnlyRuns
<1>6. ASSUME LinkSteps
      PROVE  UNCHANGED logs
  BY <1>6 DEF LinkSteps, Deliver, OpenLink, Ready, Reload, OnlyLinks, streams
<1>7. ASSUME Disconnect \/ Connect \/ AuthFailure \/ CloseCluster \/ StopRuns
             \/ StopTerminals \/ UNCHANGED vars
      PROVE  UNCHANGED logs
  BY <1>7 DEF Disconnect, Connect, AuthFailure, CloseCluster, StopRuns, StopTerminals,
     vars, streams
<1> QED
  BY <1>1, <1>2, <1>3, <1>4, <1>5, <1>6, <1>7 DEF Next, LinkSteps

LEMMA InitWhole == Init => WholeInv
<1>1. InOrder(<<>>, <<>>, <<>>, 1)
  <2>1. Len(<<>>) = 0
    OBVIOUS
  <2> QED
    BY <2>1 DEF InOrder
<1>2. WholeLog(NoLog)
  BY <1>1 DEF NoLog, WholeLog, Bounded, Ended
<1> QED
  BY <1>2 DEF Init, WholeInv

LEMMA WholeIsWhole == IInv /\ WholeInv => LogsWhole
<1> SUFFICES ASSUME IInv, WholeInv, NEW l \in Logs
             PROVE  /\ logs[l].out \o logs[l].batch \o logs[l].lines =
                         [i \in 1..(Len(logs[l].out) + Len(logs[l].batch) + Len(logs[l].lines)) |-> i]
                    /\ logs[l].said = <<"end">> /\ logs[l].end = "end" /\ ~logs[l].cancelled =>
                         Len(logs[l].out) = logs[l].size
                    /\ logs[l].said # <<>> => logs[l].batch = <<>>
  BY DEF LogsWhole
<1>1. /\ logs[l].out \in Seq(Nat) /\ logs[l].batch \in Seq(Nat) /\ logs[l].lines \in Seq(Nat)
      /\ logs[l].next \in Nat
  BY DEF IInv, ALog, Lines
<1>2. WholeLog(logs[l])
  BY DEF WholeInv
<1>3. logs[l].out \o logs[l].batch \o logs[l].lines =
        [i \in 1..(Len(logs[l].out) + Len(logs[l].batch) + Len(logs[l].lines)) |-> i]
  <2> DEFINE out == logs[l].out
             batch == logs[l].batch
             lines == logs[l].lines
             next == logs[l].next
  <2>1. /\ out \in Seq(Nat) /\ batch \in Seq(Nat) /\ lines \in Seq(Nat) /\ next \in Nat
        /\ InOrder(out, batch, lines, next)
    BY <1>1, <1>2 DEF WholeLog
  <2> HIDE DEF out, batch, lines, next
  <2>2. out \o batch \o lines = [i \in 1 .. (Len(out) + Len(batch) + Len(lines)) |-> i]
    BY <2>1, InOrderIsWhole
  <2> QED
    BY <2>2 DEF out, batch, lines
<1> QED
  BY <1>2, <1>3, Zenon DEF WholeLog, Ended

-----------------------------------------------------------------------------
\* Whatever runs can be found by who ends it, or is being ended (Close, Stop,
\* CancelAskAI and the three CloseAll), and no end is told twice.
THEOREM StreamsReachable == Spec => []Reachable
  BY InitIInv, NextIInv, InvariantReaches, PTL DEF Spec

\* Every delivery of a deep link is held or acted on exactly once, none is held
\* back from a window that listens, and only a window that is loaded again misses
\* what was acted on (linkQueue).
THEOREM LinksActedOnOnce == Spec => []LinksOnce
  BY InitIInv, NextIInv, InvariantReaches, PTL DEF Spec

\* The lines of a log reach the window in their order and none is left out, and
\* a log that ends by itself without an error was shown whole (pump's last
\* flush).
THEOREM LogsShownWhole == Spec => []LogsWhole
  BY InitIInv, NextIInv, InitWhole, NextWhole, WholeIsWhole, PTL DEF Spec
================================================================================
