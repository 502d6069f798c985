--------------------------- MODULE Arranging_proofs ---------------------------
(***************************************************************************)
(* What the lists of Arranging hold: nothing else, nothing twice, nothing  *)
(* left out, in the order they were to have.                               *)
(***************************************************************************)
EXTENDS Arranging, FiniteSetTheorems, SequenceTheorems, TLAPS

\* A strict total order of the members of S, as the set of its pairs.
Orders(earlier, S) ==
  /\ \A x, y \in S : (<<x, y>> \in earlier) <=> (x # y /\ <<y, x>> \notin earlier)
  /\ \A x, y, z \in S : <<x, y>> \in earlier /\ <<y, z>> \in earlier => <<x, z>> \in earlier

\* A list of all the members of S, each of them once and in its place.
Numbers(list, S, earlier) ==
  /\ Cardinality(S) \in Nat
  /\ list \in [1..Cardinality(S) -> S]
  /\ \A i, j \in 1..Cardinality(S) : list[i] = list[j] => i = j
  /\ \A x \in S : \E i \in 1..Cardinality(S) : list[i] = x
  /\ \A i \in 1..Cardinality(S) : Cardinality({y \in S : <<y, list[i]>> \in earlier}) = i - 1

\* A total order of finitely many things numbers them from one on.
LEMMA ArrangedListsAll ==
  ASSUME NEW S, IsFiniteSet(S), NEW earlier, Orders(earlier, S)
  PROVE  Numbers(Arranged(S, earlier), S, earlier)
<1> DEFINE n == Cardinality(S)
           before(x) == {y \in S : <<y, x>> \in earlier}
           place(x) == Cardinality(before(x)) + 1
           f == [x \in S |-> place(x)]
<1>0. n \in Nat
  BY FS_CardinalityType
<1> USE DEF Orders
<1>1. ASSUME NEW x \in S PROVE IsFiniteSet(before(x)) /\ Cardinality(before(x)) \in Nat /\ x \notin before(x)
  BY FS_Subset, FS_CardinalityType
<1>2. ASSUME NEW x \in S PROVE place(x) \in 1..n
  <2>1. Cardinality(S \ {x}) = n - 1 /\ IsFiniteSet(S \ {x})
    BY FS_RemoveElement
  <2>2. before(x) \subseteq S \ {x}
    BY <1>1
  <2>3. Cardinality(before(x)) <= Cardinality(S \ {x})
    BY <2>1, <2>2, FS_Subset
  <2> HIDE DEF before, n
  <2> QED
    BY <1>0, <1>1, <2>1, <2>3
<1>3. ASSUME NEW x \in S, NEW y \in S, <<x, y>> \in earlier PROVE place(x) # place(y)
  <2>1. before(x) \subseteq before(y) /\ x \in before(y) /\ x \notin before(x)
    BY <1>1, <1>3
  <2>2. before(x) # before(y)
    BY <2>1
  <2>3. Cardinality(before(x)) # Cardinality(before(y))
    <3> HIDE DEF before
    <3> QED
      BY <1>1, <2>1, <2>2, FS_Subset
  <2> HIDE DEF before
  <2> QED
    BY <1>1, <2>3
<1>4. ASSUME NEW x \in S, NEW y \in S, place(x) = place(y) PROVE x = y
  <2>1. SUFFICES ASSUME x # y PROVE FALSE
    OBVIOUS
  <2>2. <<x, y>> \in earlier \/ <<y, x>> \in earlier
    BY <2>1
  <2> QED
    BY <1>3, <1>4, <2>2
<1>5. f \in Injection(S, 1..n)
  <2>1. f \in [S -> 1..n]
    BY <1>2
  <2>2. \A x, y \in S : f[x] = f[y] => x = y
    BY <1>4
  <2> HIDE DEF f
  <2> QED
    BY <2>1, <2>2 DEF Injection, IsInjective
<1>6. IsFiniteSet(1..n) /\ Cardinality(1..n) = n
  <2>1. 1 \in Int /\ n \in Int
    BY <1>0
  <2> HIDE DEF n
  <2>2. IsFiniteSet(1..n) /\ Cardinality(1..n) = IF 1 > n THEN 0 ELSE n - 1 + 1
    BY <2>1, FS_Interval
  <2> QED
    BY <1>0, <2>2
<1>7. f \in Surjection(S, 1..n)
  BY <1>5, <1>6, FS_Injection
<1>8. ASSUME NEW i \in 1..n PROVE \E x \in S : Cardinality(before(x)) = i - 1
  <2>1. PICK x \in S : f[x] = i
    <3> HIDE DEF f
    <3> QED
      BY <1>7 DEF Surjection
  <2>2. place(x) = i
    BY <2>1
  <2> HIDE DEF before
  <2> QED
    BY <1>1, <2>2
<1>9. \A i \in 1..n : Arranged(S, earlier)[i] = CHOOSE x \in S : Cardinality(before(x)) = i - 1
  BY DEF Arranged
<1>10. \A i \in 1..n : Arranged(S, earlier)[i] \in S
                       /\ Cardinality(before(Arranged(S, earlier)[i])) = i - 1
  <2> HIDE DEF before
  <2> QED
    BY <1>8, <1>9
<1>11. Arranged(S, earlier) \in [1..n -> S]
  <2> DEFINE nth(i) == CHOOSE x \in S : Cardinality(before(x)) = i - 1
  <2>1. Arranged(S, earlier) = [i \in 1..n |-> nth(i)]
    BY DEF Arranged
  <2>2. \A i \in 1..n : nth(i) \in S
    <3> HIDE DEF before
    <3> QED
      BY <1>8
  <2> HIDE DEF n, nth
  <2> QED
    BY <2>1, <2>2
<1>12. ASSUME NEW i \in 1..n, NEW j \in 1..n, Arranged(S, earlier)[i] = Arranged(S, earlier)[j]
       PROVE  i = j
  <2> HIDE DEF before, n
  <2> QED
    BY <1>0, <1>10, <1>12
<1>13. ASSUME NEW x \in S PROVE \E i \in 1..n : Arranged(S, earlier)[i] = x
  <2>1. place(x) \in 1..n
    BY <1>2
  <2> DEFINE y == Arranged(S, earlier)[place(x)]
  <2>2. y \in S /\ Cardinality(before(y)) = place(x) - 1
    BY <1>10, <2>1
  <2>3. Cardinality(before(x)) \in Nat
    BY <1>1
  <2> HIDE DEF before, y
  <2>4. place(y) = place(x)
    BY <2>2, <2>3
  <2>5. y = x
    BY <1>4, <2>2, <2>4
  <2> QED
    BY <2>1, <2>5 DEF y
<1> QED
  BY <1>0, <1>10, <1>11, <1>12, <1>13 DEF Numbers

\* What is listed later is not earlier.
LEMMA ListedAreOrdered ==
  ASSUME NEW S, IsFiniteSet(S), NEW earlier, Orders(earlier, S),
         NEW list, Numbers(list, S, earlier),
         NEW i \in 1..Cardinality(S), NEW j \in 1..Cardinality(S), i < j
  PROVE  <<list[i], list[j]>> \in earlier /\ <<list[j], list[i]>> \notin earlier
<1> DEFINE n == Cardinality(S)
           before(x) == {y \in S : <<y, x>> \in earlier}
<1>1. /\ n \in Nat /\ i \in 1..n /\ j \in 1..n
      /\ list[i] \in S /\ list[j] \in S /\ list[i] # list[j]
      /\ Cardinality(before(list[i])) = i - 1 /\ Cardinality(before(list[j])) = j - 1
  BY DEF Numbers
<1>2. <<list[i], list[j]>> \in earlier \/ <<list[j], list[i]>> \in earlier
  BY <1>1 DEF Orders
<1>3. CASE <<list[j], list[i]>> \in earlier
  <2>1. before(list[j]) \subseteq before(list[i])
    BY <1>1, <1>3 DEF Orders
  <2>2. IsFiniteSet(before(list[i]))
    BY FS_Subset
  <2> HIDE DEF before, n
  <2>3. Cardinality(before(list[j])) <= Cardinality(before(list[i]))
    BY <2>1, <2>2, FS_Subset
  <2> QED
    BY <1>1, <2>3
<1> QED
  BY <1>1, <1>2, <1>3 DEF Orders

\* Places come in their order, each of them once.
LEMMA InTurnComes ==
  ASSUME NEW places, IsFiniteSet(places), places \subseteq Int
  PROVE  /\ Cardinality(places) \in Nat
         /\ InTurn(places) \in [1..Cardinality(places) -> places]
         /\ \A i, j \in 1..Cardinality(places) : i < j => InTurn(places)[i] < InTurn(places)[j]
         /\ \A p \in places : \E i \in 1..Cardinality(places) : InTurn(places)[i] = p
         /\ \A i \in 1..Cardinality(places) :
              Cardinality({y \in places : y < InTurn(places)[i]}) = i - 1
<1> DEFINE earlier == {p \in places \X places : p[1] < p[2]}
           n == Cardinality(places)
           f == Arranged(places, earlier)
<1>1. InTurn(places) = f
  BY DEF InTurn
<1>2. \A x, y \in places : <<x, y>> \in earlier <=> x < y
  OBVIOUS
<1> HIDE DEF earlier
<1>3. Orders(earlier, places)
  <2>1. ASSUME NEW x \in places, NEW y \in places
        PROVE  <<x, y>> \in earlier <=> (x # y /\ <<y, x>> \notin earlier)
    <3>1. x \in Int /\ y \in Int
      OBVIOUS
    <3>2. (<<x, y>> \in earlier <=> x < y) /\ (<<y, x>> \in earlier <=> y < x)
      BY <1>2
    <3> QED
      BY <3>1, <3>2
  <2>2. ASSUME NEW x \in places, NEW y \in places, NEW z \in places,
               <<x, y>> \in earlier, <<y, z>> \in earlier
        PROVE  <<x, z>> \in earlier
    <3>1. x \in Int /\ y \in Int /\ z \in Int
      OBVIOUS
    <3>2. x < y /\ y < z
      BY <1>2, <2>2
    <3> QED
      BY <1>2, <3>1, <3>2
  <2> QED
    BY <2>1, <2>2 DEF Orders
<1>4. Numbers(f, places, earlier)
  BY <1>3, ArrangedListsAll
<1> HIDE DEF f
<1>5. /\ n \in Nat /\ f \in [1..n -> places]
      /\ \A x \in places : \E i \in 1..n : f[i] = x
      /\ \A i \in 1..n : Cardinality({y \in places : <<y, f[i]>> \in earlier}) = i - 1
  BY <1>4 DEF Numbers
<1>6. ASSUME NEW i \in 1..n, NEW j \in 1..n, i < j PROVE f[i] < f[j]
  <2>1. <<f[i], f[j]>> \in earlier
    BY <1>3, <1>4, <1>6, ListedAreOrdered
  <2> QED
    BY <1>2, <1>5, <2>1
<1>7. ASSUME NEW i \in 1..n PROVE Cardinality({y \in places : y < f[i]}) = i - 1
  <2>1. {y \in places : y < f[i]} = {y \in places : <<y, f[i]>> \in earlier}
    BY <1>2, <1>5
  <2> QED
    BY <1>5, <2>1
<1> QED
  BY <1>1, <1>5, <1>6, <1>7 DEF n

\* The first of some places is one of them, and none comes before it.
LEMMA LowestIsFirst ==
  ASSUME NEW places, IsFiniteSet(places), places \subseteq Int, places # {}
  PROVE  Lowest(places) \in places /\ \A k \in places : Lowest(places) <= k
<1> DEFINE n == Cardinality(places)
           f == InTurn(places)
<1>1. /\ n \in Nat /\ f \in [1..n -> places]
      /\ \A i, j \in 1..n : i < j => f[i] < f[j]
      /\ \A p \in places : \E i \in 1..n : f[i] = p
  BY InTurnComes
<1> HIDE DEF f, n
<1>2. 1 \in 1..n
  <2>1. PICK p \in places : TRUE
    OBVIOUS
  <2>2. PICK i \in 1..n : f[i] = p
    BY <1>1, <2>1
  <2> QED
    BY <1>1, <2>2
<1>3. f[1] \in places
  BY <1>1, <1>2
<1>4. ASSUME NEW k \in places PROVE f[1] <= k
  <2>1. PICK i \in 1..n : f[i] = k
    BY <1>1
  <2>2. f[1] \in Int /\ k \in Int
    BY <1>3
  <2>3. i = 1 \/ 1 < i
    BY <1>1
  <2>4. CASE 1 < i
    <3>1. f[1] < f[i]
      BY <1>1, <1>2, <2>4
    <3> QED
      BY <2>1, <2>2, <3>1
  <2> QED
    BY <2>1, <2>2, <2>3, <2>4
<1> QED
  BY <1>3, <1>4 DEF Lowest

\* The last of some places is one of them, and none comes after it.
LEMMA HighestIsLast ==
  ASSUME NEW places, IsFiniteSet(places), places \subseteq Int, places # {}
  PROVE  Highest(places) \in places /\ \A k \in places : k <= Highest(places)
<1> DEFINE n == Cardinality(places)
           f == InTurn(places)
<1>1. /\ n \in Nat /\ f \in [1..n -> places]
      /\ \A i, j \in 1..n : i < j => f[i] < f[j]
      /\ \A p \in places : \E i \in 1..n : f[i] = p
  BY InTurnComes
<1> HIDE DEF f, n
<1>2. n \in 1..n
  <2>1. PICK p \in places : TRUE
    OBVIOUS
  <2>2. PICK i \in 1..n : f[i] = p
    BY <1>1, <2>1
  <2> QED
    BY <1>1, <2>2
<1>3. f[n] \in places
  BY <1>1, <1>2
<1>4. ASSUME NEW k \in places PROVE k <= f[n]
  <2>1. PICK i \in 1..n : f[i] = k
    BY <1>1
  <2>2. f[n] \in Int /\ k \in Int
    BY <1>3
  <2>3. i = n \/ i < n
    BY <1>1
  <2>4. CASE i < n
    <3>1. f[i] < f[n]
      BY <1>1, <1>2, <2>4
    <3> QED
      BY <2>1, <2>2, <3>1
  <2> QED
    BY <2>1, <2>2, <2>3, <2>4
<1> QED
  BY <1>3, <1>4 DEF Highest

\* The places of a sequence are finitely many.
LEMMA PlacesAreFinite ==
  ASSUME NEW T, NEW seq \in Seq(T), NEW places, places \subseteq DOMAIN seq
  PROVE  IsFiniteSet(places) /\ places \subseteq Int /\ Cardinality(places) \in Nat
<1>1. DOMAIN seq = 1..Len(seq) /\ Len(seq) \in Int /\ 1 \in Int
  OBVIOUS
<1>2. IsFiniteSet(1..Len(seq))
  BY <1>1, FS_Interval
<1> QED
  BY <1>1, <1>2, FS_Subset, FS_CardinalityType

\* Where each of what was kept was in the sequence: in its order, and all of
\* what may stay.
Thinned(place, kept, seq, S) ==
  /\ place \in [DOMAIN kept -> DOMAIN seq]
  /\ \A i \in DOMAIN kept : kept[i] = seq[place[i]]
  /\ \A i, j \in DOMAIN kept : i < j => place[i] < place[j]
  /\ \A p \in DOMAIN seq : seq[p] \in S => \E i \in DOMAIN kept : place[i] = p

\* What is left of a sequence is what may stay, in its order and all of it.
LEMMA KeepingKeeps ==
  ASSUME NEW T, NEW seq \in Seq(T), NEW S
  PROVE  /\ Keeping(seq, S) \in Seq(T \cap S)
         /\ \E place : Thinned(place, Keeping(seq, S), seq, S)
<1> DEFINE places == {i \in DOMAIN seq : seq[i] \in S}
           n == Cardinality(places)
           left == InTurn(places)
           kept == [i \in 1..n |-> seq[left[i]]]
<1>1. Keeping(seq, S) = [i \in DOMAIN left |-> seq[left[i]]]
  BY DEF Keeping
<1>2. IsFiniteSet(places) /\ places \subseteq Int
  BY PlacesAreFinite
<1>3. \A p \in DOMAIN seq : p \in places <=> seq[p] \in S
  OBVIOUS
<1>4. places \subseteq DOMAIN seq
  OBVIOUS
<1>5. \A p \in DOMAIN seq : seq[p] \in T
  OBVIOUS
<1> HIDE DEF places
<1>6. /\ n \in Nat /\ left \in [1..n -> places]
      /\ \A i, j \in 1..n : i < j => left[i] < left[j]
      /\ \A p \in places : \E i \in 1..n : left[i] = p
  BY <1>2, InTurnComes
<1> HIDE DEF left, n
<1>7. Keeping(seq, S) = kept
  BY <1>1, <1>6
<1>8. kept \in [1..n -> T \cap S]
  BY <1>3, <1>4, <1>5, <1>6
<1>9. kept \in Seq(T \cap S) /\ DOMAIN kept = 1..n
  BY <1>6, <1>8, SeqDef
<1>10. left \in [1..n -> DOMAIN seq]
  BY <1>4, <1>6
<1>11. \A p \in DOMAIN seq : seq[p] \in S => \E i \in 1..n : left[i] = p
  BY <1>3, <1>6
<1>12. Thinned(left, kept, seq, S)
  <2> HIDE DEF kept
  <2>1. \A i \in 1..n : kept[i] = seq[left[i]]
    BY DEF kept
  <2> QED
    BY <1>6, <1>9, <1>10, <1>11, <2>1 DEF Thinned
<1> QED
  BY <1>7, <1>9, <1>12

\* What is left of a sequence is one of the same things.
LEMMA KeepingLists ==
  ASSUME NEW T, NEW seq \in Seq(T), NEW S
  PROVE  Keeping(seq, S) \in Seq(T)
<1>1. Keeping(seq, S) \in Seq(T \cap S)
  BY KeepingKeeps
<1> DEFINE kept == Keeping(seq, S)
<1> HIDE DEF kept
<1>2. kept \in Seq(T)
  BY <1>1 DEF kept
<1> QED
  BY <1>2 DEF kept

\* Nothing is left out when everything may stay.
LEMMA KeepingAll ==
  ASSUME NEW T, NEW seq \in Seq(T), NEW S, \A i \in 1..Len(seq) : seq[i] \in S
  PROVE  Keeping(seq, S) = seq
<1> DEFINE n == Len(seq)
           f == InTurn(1..n)
<1>1. n \in Nat /\ DOMAIN seq = 1..n
  OBVIOUS
<1>2. {i \in DOMAIN seq : seq[i] \in S} = 1..n
  BY <1>1
<1>3. Keeping(seq, S) = [i \in DOMAIN f |-> seq[f[i]]]
  BY <1>2 DEF Keeping
<1> HIDE DEF n
<1>4. IsFiniteSet(1..n) /\ Cardinality(1..n) = n /\ 1..n \subseteq Int
  <2>1. 1 \in Int /\ n \in Int
    BY <1>1
  <2>2. IsFiniteSet(1..n) /\ Cardinality(1..n) = IF 1 > n THEN 0 ELSE n - 1 + 1
    BY <2>1, FS_Interval
  <2> QED
    BY <1>1, <2>2
<1>5. /\ f \in [1..n -> 1..n]
      /\ \A i \in 1..n : Cardinality({y \in 1..n : y < f[i]}) = i - 1
  BY <1>4, InTurnComes
<1> HIDE DEF f
<1>6. ASSUME NEW i \in 1..n PROVE f[i] = i
  <2>1. f[i] \in 1..n
    BY <1>5
  <2>2. {y \in 1..n : y < f[i]} = 1..(f[i] - 1)
    BY <1>1, <2>1
  <2>3. Cardinality(1..(f[i] - 1)) = IF 1 > f[i] - 1 THEN 0 ELSE f[i] - 1 - 1 + 1
    <3>1. 1 \in Int /\ f[i] - 1 \in Int
      BY <2>1
    <3> QED
      BY <3>1, FS_Interval
  <2> QED
    BY <1>1, <1>5, <2>1, <2>2, <2>3
<1>7. Keeping(seq, S) = [i \in 1..n |-> seq[i]]
  BY <1>3, <1>5, <1>6
<1> QED
  BY <1>1, <1>7 DEF n

\* What is left of a sequence is what it held of what may stay.
LEMMA RangeOfKept ==
  ASSUME NEW T, NEW seq \in Seq(T), NEW S
  PROVE  Range(Keeping(seq, S)) = Range(seq) \cap S
<1> DEFINE kept == Keeping(seq, S)
<1>1. kept \in Seq(T \cap S)
  BY KeepingKeeps
<1>2. PICK place : Thinned(place, kept, seq, S)
  BY KeepingKeeps
<1> HIDE DEF kept
<1>3. Range(kept) \subseteq Range(seq) \cap S
  BY <1>1, <1>2 DEF Range, Thinned
<1>4. ASSUME NEW x \in Range(seq) \cap S PROVE x \in Range(kept)
  <2>1. PICK p \in DOMAIN seq : seq[p] = x
    BY DEF Range
  <2>2. PICK i \in DOMAIN kept : place[i] = p
    BY <1>2, <2>1 DEF Thinned
  <2> QED
    BY <1>2, <2>1, <2>2 DEF Range, Thinned
<1> QED
  BY <1>3, <1>4 DEF kept

\* Pairs of places of which neither way of going round can be left out: what is
\* ahead of another is not behind it, and is ahead of what is no earlier.
Ranks(ahead, places) ==
  /\ \A x, y \in places : <<x, y>> \in ahead => <<y, x>> \notin ahead
  /\ \A x, y, z \in places : <<x, z>> \in ahead => <<x, y>> \in ahead \/ <<y, z>> \in ahead

\* A stable sort lists everything once, and nothing after what it is ahead of.
LEMMA StableSorts ==
  ASSUME NEW T, NEW seq \in Seq(T), NEW ahead, Ranks(ahead, DOMAIN seq)
  PROVE  /\ StableOrder(seq, ahead) \in [DOMAIN seq -> DOMAIN seq]
         /\ \A i, j \in DOMAIN seq : StableOrder(seq, ahead)[i] = StableOrder(seq, ahead)[j] => i = j
         /\ \A p \in DOMAIN seq : \E i \in DOMAIN seq : StableOrder(seq, ahead)[i] = p
         /\ \A i, j \in DOMAIN seq : i < j =>
              <<StableOrder(seq, ahead)[j], StableOrder(seq, ahead)[i]>> \notin ahead
         /\ Stable(seq, ahead) \in Seq(T) /\ DOMAIN Stable(seq, ahead) = DOMAIN seq
         /\ \A i \in DOMAIN seq : Stable(seq, ahead)[i] = seq[StableOrder(seq, ahead)[i]]
<1> DEFINE places == DOMAIN seq
           earlier == {p \in places \X places : p \in ahead \/ (<<p[2], p[1]>> \notin ahead /\ p[1] < p[2])}
           order == StableOrder(seq, ahead)
           n == Len(seq)
<1>1. n \in Nat /\ places = 1..n /\ \A p \in places : p \in Int /\ seq[p] \in T
  OBVIOUS
<1>2. order = Arranged(places, earlier)
  BY DEF StableOrder
<1>3. \A x, y \in places :
        <<x, y>> \in earlier <=> <<x, y>> \in ahead \/ (<<y, x>> \notin ahead /\ x < y)
  OBVIOUS
<1>4. Stable(seq, ahead) = [i \in places |-> seq[order[i]]]
  BY DEF Stable
<1>5. IsFiniteSet(places) /\ Cardinality(places) = n
  <2>1. 1 \in Int /\ n \in Int
    BY <1>1
  <2> HIDE DEF n
  <2>2. IsFiniteSet(1..n) /\ Cardinality(1..n) = IF 1 > n THEN 0 ELSE n - 1 + 1
    BY <2>1, FS_Interval
  <2> QED
    BY <1>1, <2>2
<1>6. Ranks(ahead, places)
  OBVIOUS
<1> HIDE DEF places, earlier, order, n
<1>7. Orders(earlier, places)
  <2>1. ASSUME NEW x \in places, NEW y \in places
        PROVE  <<x, y>> \in earlier <=> (x # y /\ <<y, x>> \notin earlier)
    <3>1. x \in Int /\ y \in Int
      BY <1>1
    <3>2. /\ <<x, y>> \in earlier <=> <<x, y>> \in ahead \/ (<<y, x>> \notin ahead /\ x < y)
          /\ <<y, x>> \in earlier <=> <<y, x>> \in ahead \/ (<<x, y>> \notin ahead /\ y < x)
      BY <1>3
    <3>3. <<x, y>> \in ahead => <<y, x>> \notin ahead
      BY <1>6 DEF Ranks
    <3> QED
      BY <3>1, <3>2, <3>3
  <2>2. ASSUME NEW x \in places, NEW y \in places, NEW z \in places,
               <<x, y>> \in earlier, <<y, z>> \in earlier
        PROVE  <<x, z>> \in earlier
    <3>1. x \in Int /\ y \in Int /\ z \in Int
      BY <1>1
    <3>2. /\ <<x, y>> \in ahead \/ (<<y, x>> \notin ahead /\ x < y)
          /\ <<y, z>> \in ahead \/ (<<z, y>> \notin ahead /\ y < z)
      BY <1>3, <2>2
    <3>3. /\ <<x, y>> \in ahead => <<x, z>> \in ahead \/ <<z, y>> \in ahead
          /\ <<y, z>> \in ahead => <<y, x>> \in ahead \/ <<x, z>> \in ahead
          /\ <<z, x>> \in ahead => <<z, y>> \in ahead \/ <<y, x>> \in ahead
          /\ <<x, y>> \in ahead => <<y, x>> \notin ahead
          /\ <<y, z>> \in ahead => <<z, y>> \notin ahead
      BY <1>6 DEF Ranks
    <3>4. <<x, z>> \in ahead \/ (<<z, x>> \notin ahead /\ x < z)
      BY <3>1, <3>2, <3>3
    <3> QED
      BY <1>3, <3>4
  <2> QED
    BY <2>1, <2>2 DEF Orders
<1>8. Numbers(order, places, earlier)
  BY <1>2, <1>5, <1>7, ArrangedListsAll
<1>9. /\ order \in [places -> places]
      /\ \A i, j \in places : order[i] = order[j] => i = j
      /\ \A p \in places : \E i \in places : order[i] = p
  BY <1>1, <1>5, <1>8 DEF Numbers
<1>10. ASSUME NEW i \in places, NEW j \in places, i < j PROVE <<order[j], order[i]>> \notin ahead
  <2>1. i \in 1..Cardinality(places) /\ j \in 1..Cardinality(places)
    BY <1>1, <1>5
  <2>2. <<order[j], order[i]>> \notin earlier
    BY <1>5, <1>7, <1>8, <1>10, <2>1, ListedAreOrdered
  <2> QED
    BY <1>3, <1>9, <2>2
<1>11. Stable(seq, ahead) \in Seq(T) /\ DOMAIN Stable(seq, ahead) = places
  <2> DEFINE sorted == [i \in places |-> seq[order[i]]]
  <2>1. sorted \in [1..n -> T]
    BY <1>1, <1>9
  <2>2. sorted \in Seq(T) /\ DOMAIN sorted = places
    BY <1>1, <2>1, SeqDef
  <2> QED
    BY <1>4, <2>2
<1> QED
  BY <1>4, <1>9, <1>10, <1>11 DEF places, order
=============================================================================
