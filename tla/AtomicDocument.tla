---------------------------- MODULE AtomicDocument ----------------------------
(***************************************************************************)
(* What the store promises: a document to which updates are added one at a *)
(* time and all at once.  A process that is killed loses nothing that was  *)
(* in it; a machine that loses power may go back to a document of before   *)
(* the last updates, and to nothing that was never the document.           *)
(***************************************************************************)
CONSTANT Updates

VARIABLES
  content,      \* the updates the document holds
  behind,       \* earlier contents a power loss may still go back to
  alive         \* whether the process runs

document == <<content, behind, alive>>

Init == content = {} /\ behind = {} /\ alive = TRUE

\* One more update; a power loss may go back to before it, or can no longer.
Add ==
  /\ \E u \in Updates \ content : content' = content \cup {u}
  /\ behind' \in {{}, behind \cup {content}}

Apply == alive /\ Add /\ UNCHANGED alive

Settle == behind' = {} /\ UNCHANGED <<content, alive>>

\* The update being saved when the process is killed may be there or not.
Kill == alive /\ alive' = FALSE /\ (Add \/ UNCHANGED <<content, behind>>)

PowerLoss ==
  /\ alive' = FALSE
  /\ behind' = {}
  /\ \/ content' \in behind \cup {content}
     \/ alive /\ \E u \in Updates : content' = content \cup {u}

Restart == ~alive /\ alive' = TRUE /\ UNCHANGED <<content, behind>>

Next == Apply \/ Settle \/ Kill \/ PowerLoss \/ Restart

Spec == Init /\ [][Next]_document
=============================================================================
