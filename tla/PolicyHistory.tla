---------------------------- MODULE PolicyHistory ----------------------------
(***************************************************************************)
(* PolicyGate with a history variable: for every check under way, whether  *)
(* the stored mode has been read-only ever since the check began.          *)
(***************************************************************************)
EXTENDS PolicyGate

VARIABLE since

HistoryVars == <<policyVars, since>>

HistoryInit ==
  /\ PolicyInit
  /\ since = [o \in Openers |-> FALSE]

\* A check begins with its first read; the read itself is in the first state.
HistoryNext ==
  /\ PolicyNext
  /\ since' = [o \in Openers |->
       persisted' /\ (opener[o].step = "idle" \/ since[o])]

HistorySpec == HistoryInit /\ [][HistoryNext]_HistoryVars

FairHistorySpec == HistorySpec /\ Fairness

Decides(o) == opener[o].step = "reading" /\ opener'[o].step = "allowed"

\* A cluster whose stored mode is read-only for as long as a check takes never
\* lets a write through, whatever happens to the session's toggle meanwhile.
StoredModeHolds ==
  [][\A o \in Openers : Decides(o) => ~since[o]]_HistoryVars
=============================================================================
