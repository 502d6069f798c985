------------------------------- MODULE Arranging -------------------------------
(***************************************************************************)
(* Lists as loops over a slice make them: what is sorted, what is left     *)
(* when some of it is dropped, and the first that is found. They are made  *)
(* of sets of places, so that they can be reasoned about.                  *)
(***************************************************************************)
EXTENDS Integers, Sequences, FiniteSets, Functions

\* The members of S one after the other, by a total order given as its pairs.
Arranged(S, earlier) ==
  [i \in 1..Cardinality(S) |->
     CHOOSE x \in S : Cardinality({y \in S : <<y, x>> \in earlier}) = i - 1]

\* Places as they come.
InTurn(places) == Arranged(places, {p \in places \X places : p[1] < p[2]})

\* What is left of a sequence when only the members of S stay.
Keeping(seq, S) ==
  LET left == InTurn({i \in DOMAIN seq : seq[i] \in S})
  IN  [i \in DOMAIN left |-> seq[left[i]]]

\* A stable sort: of a pair of places in ahead the first goes first, and places
\* that neither way are such a pair stay in their order.
StableOrder(seq, ahead) ==
  Arranged(DOMAIN seq, {p \in (DOMAIN seq) \X (DOMAIN seq) :
                          p \in ahead \/ (<<p[2], p[1]>> \notin ahead /\ p[1] < p[2])})
Stable(seq, ahead) == [i \in DOMAIN seq |-> seq[StableOrder(seq, ahead)[i]]]

\* The first and the last of some places.
Lowest(places) == CHOOSE i \in places : \A k \in places : i <= k
Highest(places) == CHOOSE i \in places : \A k \in places : k <= i
=============================================================================
