---------------------------- MODULE MCAccessRetry ----------------------------
\* The configurations of AccessRetry: where each cluster of an instance sits.
EXTENDS AccessRetry, TLC

CONSTANTS k1, p1

AllBehindP1 == [k \in Clusters |-> p1]

\* Answers for the identifier of the cluster's connection are remembered.
IdentifierOfP1 == {Id(p1)}

Goroutines == Permutations(Handlers)
=============================================================================
