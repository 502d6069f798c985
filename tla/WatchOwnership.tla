---------------------------- MODULE WatchOwnership ----------------------------
(***************************************************************************)
(* What one cluster's session promises about watch hubs, without saying    *)
(* how: at most one hub runs at a time, a new one takes over in the same   *)
(* instant the old one stops, and a stopped hub never runs again.          *)
(***************************************************************************)
CONSTANT Hub        \* every hub that may ever be made

VARIABLES live,     \* the running hubs
          gone      \* the hubs that ran and were stopped

vars == <<live, gone>>

Init == live = {} /\ gone = {}

TakeOver(h) ==
  /\ h \notin live \cup gone
  /\ live' = {h}
  /\ gone' = gone \cup live

Stop ==
  /\ live' = {}
  /\ gone' = gone \cup live

Next == Stop \/ \E h \in Hub : TakeOver(h)

Spec == Init /\ [][Next]_vars
=============================================================================
