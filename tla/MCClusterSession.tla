--------------------------- MODULE MCClusterSession ---------------------------
(* Three goroutines and two successful connections: enough for a late       *)
(* answer of the first session to meet the second while a third runs.       *)
EXTENDS ClusterSession, TLC

\* For the run without liveness properties.
Goroutines == Permutations(Callers)
=============================================================================
