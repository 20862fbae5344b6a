---------------------------- MODULE RankingProofs ----------------------------
(***************************************************************************)
(* What TLAPS proves of the operators that order what a search found: for  *)
(* every list, score and policy.  Each sort is by a total order of the     *)
(* places or of the chunks, so that it reorders them and loses none; each  *)
(* loop is followed by an invariant of its steps.                          *)
(***************************************************************************)
EXTENDS Ranking, FiniteSetTheorems, WellFoundedInduction, TLAPS

-----------------------------------------------------------------------------
(* Natural numbers and loops. *)

LEMMA LeastExists ==
    ASSUME NEW S \in SUBSET Nat, S # {}
    PROVE  \E m \in S : \A y \in S : m <= y
<1>1. PICK m \in S : \A k \in S : ~(<<k, m>> \in OpToRel(<, Nat))
  BY NatLessThanWellFounded, WFMin
<1>2. ASSUME NEW y \in S PROVE m <= y
  <2>1. y \in Nat /\ m \in Nat /\ ~(y < m)
    BY <1>1 DEF OpToRel
  <2> QED
    BY <2>1
<1> QED
  BY <1>2

HasRun(States, start, n, turn) ==
    \E run \in [0 .. n -> States] :
       run[0] = start /\ \A i \in 1 .. n : run[i] = turn[<<run[i - 1], i>>]

(* A loop of n turns, each of which makes a state of a state, has a run. *)
LEMMA LoopEnds ==
    ASSUME NEW States, NEW start \in States, NEW n \in Nat,
           NEW turn \in [States \X (1 .. n) -> States]
    PROVE  HasRun(States, start, n, turn)
<1> DEFINE Runs(run, m) ==
             /\ run \in [0 .. m -> States] /\ run[0] = start
             /\ \A i \in 1 .. m : run[i] = turn[<<run[i - 1], i>>]
           S == {m \in 0 .. n : ~ \E run : Runs(run, m)}
<1>1. S = {}
  <2> SUFFICES ASSUME S # {} PROVE FALSE
    OBVIOUS
  <2>1. PICK m \in S : \A k \in S : m <= k
    <3>1. S \in SUBSET Nat
      OBVIOUS
    <3> HIDE DEF S
    <3> QED
      BY <3>1, LeastExists
  <2>2. CASE m = 0
    <3>1. Runs([i \in 0 .. 0 |-> start], 0)
      OBVIOUS
    <3> QED
      BY <2>1, <2>2, <3>1
  <2>3. CASE m # 0
    <3>1. m - 1 \in 0 .. n /\ ~ m <= m - 1 /\ m \in 1 .. n
      BY <2>1, <2>3
    <3>2. PICK before : Runs(before, m - 1)
      BY <2>1, <3>1
    <3> DEFINE run == [i \in 0 .. m |-> IF i < m THEN before[i] ELSE turn[<<before[m - 1], m>>]]
    <3>3. before[m - 1] \in States
      BY <3>1, <3>2
    <3>4. turn[<<before[m - 1], m>>] \in States
      BY <3>1, <3>3
    <3>5. run \in [0 .. m -> States]
      BY <3>1, <3>2, <3>4
    <3>6. \A i \in 1 .. m : run[i] = turn[<<run[i - 1], i>>]
      <4> TAKE i \in 1 .. m
      <4>1. CASE i = m
        <5>1. run[i] = turn[<<before[m - 1], m>>] /\ run[i - 1] = before[m - 1]
          BY <3>1, <4>1
        <5> HIDE DEF run
        <5> QED
          BY <4>1, <5>1
      <4>2. CASE i # m
        <5>1. run[i] = before[i] /\ run[i - 1] = before[i - 1] /\ i \in 1 .. (m - 1)
          BY <3>1, <4>2
        <5> HIDE DEF run
        <5> QED
          BY <3>2, <5>1
      <4> QED
        BY <4>1, <4>2
    <3>7. run[0] = start
      BY <3>1, <3>2
    <3> HIDE DEF run
    <3>8. Runs(run, m)
      BY <3>5, <3>6, <3>7
    <3> QED
      BY <2>1, <3>8
  <2> QED
    BY <2>2, <2>3
<1>2. n \in 0 .. n
  OBVIOUS
<1>3. PICK run : Runs(run, n)
  BY <1>1, <1>2
<1> QED
  BY <1>3 DEF HasRun

(* What holds at its start and is kept by each turn holds at its end; the
   states of which it holds are Good. *)
LEMMA LoopKeeps ==
    ASSUME NEW n \in Nat, NEW run, NEW Good,
           <<0, run[0]>> \in Good,
           \A i \in 1 .. n : <<i - 1, run[i - 1]>> \in Good => <<i, run[i]>> \in Good,
           NEW i \in 0 .. n
    PROVE  <<i, run[i]>> \in Good
<1> DEFINE S == {m \in 0 .. n : <<m, run[m]>> \notin Good}
<1> SUFFICES ASSUME i \in S PROVE FALSE
  OBVIOUS
<1>1. PICK m \in S : \A k \in S : m <= k
  <2>1. S \in SUBSET Nat
    OBVIOUS
  <2> HIDE DEF S
  <2> QED
    BY <2>1, LeastExists
<1>2. m \in 1 .. n /\ m - 1 \in 0 .. n /\ ~ m <= m - 1
  BY <1>1
<1>3. <<m - 1, run[m - 1]>> \in Good
  BY <1>1, <1>2
<1> QED
  BY <1>1, <1>2, <1>3

-----------------------------------------------------------------------------
(* Sorts. *)

IsOrder(before, S) ==
    /\ \A a \in S : <<a, a>> \notin before
    /\ \A a, b, c \in S : <<a, b>> \in before /\ <<b, c>> \in before => <<a, c>> \in before
    /\ \A a, b \in S : a # b => <<a, b>> \in before \/ <<b, a>> \in before

(* Ranking.Sorted, with the pairs it is given and not the list TLC makes of them. *)
LEMMA SortedIs ==
    ASSUME NEW set, NEW before
    PROVE  Sorted(set, before) =
             [i \in 1 .. Cardinality(set) |->
                 CHOOSE a \in set : Cardinality({b \in set : <<b, a>> \in before}) = i - 1]
<1> DEFINE pairs == {p : p \in before}
<1>1. pairs = before
  OBVIOUS
<1>2. Sorted(set, before) =
        [i \in 1 .. Cardinality(set) |->
            CHOOSE a \in set : Cardinality({b \in set : <<b, a>> \in pairs}) = i - 1]
  BY Zenon DEF Sorted
<1> QED
  BY <1>1, <1>2, Zenon

(* The list holds each member of S once, and nothing else. *)
Lists(list, S) ==
    /\ list \in Seq(S)
    /\ \A a \in S : \E i \in 1 .. Len(list) : list[i] = a
    /\ \A i, j \in 1 .. Len(list) : list[i] = list[j] => i = j

LEMMA SortedHolds ==
    ASSUME NEW S, IsFiniteSet(S), NEW before, IsOrder(before, S)
    PROVE  /\ Lists(Sorted(S, before), S)
           /\ Len(Sorted(S, before)) = Cardinality(S)
           /\ \A i, j \in 1 .. Cardinality(S) :
                 i < j => <<Sorted(S, before)[i], Sorted(S, before)[j]>> \in before
<1> DEFINE above(a) == {b \in S : <<b, a>> \in before}
           rank(a) == Cardinality(above(a))
           at(i) == CHOOSE a \in S : Cardinality({b \in S : <<b, a>> \in before}) = i - 1
<1>1. PICK n \in Nat : n = Cardinality(S)
  BY FS_CardinalityType
<1>2. \A a \in S : IsFiniteSet(above(a)) /\ rank(a) \in Nat
  BY FS_Subset, FS_CardinalityType
<1>3. \A a \in S : rank(a) \in 0 .. (n - 1)
  <2> TAKE a \in S
  <2>1. a \notin above(a) /\ above(a) \cup {a} \subseteq S
    BY DEF IsOrder
  <2>2. Cardinality(above(a) \cup {a}) = rank(a) + 1
    BY <1>2, <2>1, FS_AddElement
  <2>3. Cardinality(above(a) \cup {a}) <= n
    BY <1>1, <2>1, FS_Subset
  <2>4. rank(a) \in Nat /\ rank(a) + 1 <= n
    BY <1>2, <2>2, <2>3
  <2> HIDE DEF rank
  <2> QED
    BY <1>1, <2>4
<1>4. \A a, b \in S : <<a, b>> \in before => rank(a) < rank(b)
  <2> SUFFICES ASSUME NEW a \in S, NEW b \in S, <<a, b>> \in before PROVE rank(a) < rank(b)
    OBVIOUS
  <2>1. above(a) \subseteq above(b) /\ a \in above(b) /\ a \notin above(a)
    BY Zenon DEF IsOrder
  <2>2. Cardinality(above(a) \cup {a}) = rank(a) + 1
    BY <1>2, <2>1, FS_AddElement
  <2>3. IsFiniteSet(above(b)) /\ above(a) \cup {a} \subseteq above(b)
    BY <1>2, <2>1
  <2>4. Cardinality(above(a) \cup {a}) <= rank(b)
    BY <2>3, FS_Subset
  <2> HIDE DEF rank, above
  <2> QED
    BY <1>2, <2>2, <2>4
<1>5. \A a, b \in S : a # b => <<a, b>> \in before \/ <<b, a>> \in before
  BY DEF IsOrder
<1>6. \A a \in S : rank(a) \in Nat
  BY <1>2
<1> HIDE DEF rank
<1> DEFINE f == [a \in S |-> rank(a) + 1]
<1>7. \A i \in 1 .. n : \E a \in S : rank(a) = i - 1
  <2>1. \A a, b \in S : rank(a) + 1 = rank(b) + 1 => a = b
    <3> TAKE a, b \in S
    <3>1. rank(a) \in Nat /\ rank(b) \in Nat
      BY <1>2
    <3>2. <<a, b>> \in before => rank(a) < rank(b)
      BY <1>4
    <3>3. <<b, a>> \in before => rank(b) < rank(a)
      BY <1>4
    <3> QED
      BY <1>5, <3>1, <3>2, <3>3
  <2>2. f \in [S -> 1 .. n]
    BY <1>1, <1>3
  <2>3. f \in Injection(S, 1 .. n)
    BY <2>1, <2>2 DEF Injection, IsInjective
  <2>4. IsFiniteSet(1 .. n) /\ Cardinality(1 .. n) = n
    BY FS_Interval
  <2>5. f \in Surjection(S, 1 .. n)
    <3> HIDE DEF f
    <3> QED
      BY <1>1, <2>3, <2>4, FS_Injection
  <2>6. \A i \in 1 .. n : \E a \in S : rank(a) + 1 = i
    BY <2>5 DEF Surjection
  <2> QED
    BY <1>1, <1>6, <2>6
<1>8. \A i \in 1 .. n : at(i) \in S /\ rank(at(i)) = i - 1
  <2> TAKE i \in 1 .. n
  <2>1. \E a \in S : Cardinality({b \in S : <<b, a>> \in before}) = i - 1
    BY <1>7 DEF rank
  <2> QED
    BY <2>1, Zenon DEF rank
<1>9. Sorted(S, before) = [i \in 1 .. n |-> at(i)]
  BY <1>1, SortedIs
<1> HIDE DEF at
<1>10. \A a \in S : \E i \in 1 .. n : at(i) = a
  <2> TAKE a \in S
  <2>1. PICK i \in 1 .. n : i = rank(a) + 1
    BY <1>1, <1>3
  <2>2. PICK b \in S : b = at(i) /\ rank(b) = i - 1
    BY <1>8
  <2>3. rank(a) \in Nat /\ rank(b) = rank(a)
    BY <1>6, <2>1, <2>2
  <2>4. ~ rank(a) < rank(b) /\ ~ rank(b) < rank(a)
    BY <2>3
  <2>5. a = b
    BY <1>4, <1>5, <2>4
  <2> QED
    BY <2>2, <2>5
<1>11. \A i, j \in 1 .. n : at(i) = at(j) => i = j
  BY <1>8
<1>12. \A i, j \in 1 .. n : i < j => <<at(i), at(j)>> \in before
  <2> TAKE i, j \in 1 .. n
  <2> HAVE i < j
  <2>1. PICK a \in S : a = at(i) /\ rank(a) = i - 1
    BY <1>8
  <2>2. PICK b \in S : b = at(j) /\ rank(b) = j - 1
    BY <1>8
  <2>3. ~ rank(b) < rank(a) /\ a # b
    BY <2>1, <2>2
  <2> QED
    BY <1>4, <1>5, <2>1, <2>2, <2>3
<1>13. Sorted(S, before) \in Seq(S) /\ Len(Sorted(S, before)) = n
  BY <1>8, <1>9
<1>14. \A i \in 1 .. n : Sorted(S, before)[i] = at(i)
  BY <1>9
<1>15. Lists(Sorted(S, before), S)
  BY <1>10, <1>11, <1>13, <1>14 DEF Lists
<1> QED
  BY <1>1, <1>12, <1>13, <1>14, <1>15

LEMMA PlacesListed ==
    ASSUME NEW S, NEW list, Lists(list, S)
    PROVE  /\ DOMAIN list = 1 .. Len(list) /\ Len(list) \in Nat
           /\ IsFiniteSet(DOMAIN list) /\ Cardinality(DOMAIN list) = Len(list)
           /\ \A i \in DOMAIN list : list[i] \in S
<1>1. DOMAIN list = 1 .. Len(list) /\ Len(list) \in Nat /\ \A i \in DOMAIN list : list[i] \in S
  BY DEF Lists
<1>2. IsFiniteSet(1 .. Len(list)) /\ Cardinality(1 .. Len(list)) = Len(list)
  BY SMTT(30), <1>1, FS_Interval
<1> QED
  BY <1>1, <1>2

LEMMA PositionIs ==
    ASSUME NEW S, NEW list, Lists(list, S), NEW c \in S
    PROVE  /\ Position(list, c) \in 1 .. Len(list) /\ list[Position(list, c)] = c
           /\ \A i \in 1 .. Len(list) : list[i] = c => Position(list, c) = i
<1>1. DOMAIN list = 1 .. Len(list)
  BY PlacesListed
<1>2. \E i \in DOMAIN list : list[i] = c
  BY <1>1 DEF Lists
<1>3. Position(list, c) \in DOMAIN list /\ list[Position(list, c)] = c
  BY <1>2, Zenon DEF Position
<1> QED
  BY <1>1, <1>3 DEF Lists

LEMMA Rearranged ==
    ASSUME NEW S, NEW ranked, Lists(ranked, S),
           NEW before, IsOrder(before, DOMAIN ranked)
    PROVE  LET order == Sorted(DOMAIN ranked, before)
           IN  /\ Lists(order, 1 .. Len(ranked)) /\ Len(order) = Len(ranked)
               /\ Lists(AtPlace(ranked, order), S) /\ Len(AtPlace(ranked, order)) = Len(ranked)
               /\ \A i, j \in 1 .. Len(ranked) : i < j => <<order[i], order[j]>> \in before
<1> DEFINE order == Sorted(DOMAIN ranked, before)
           n == Len(ranked)
<1>1. DOMAIN ranked = 1 .. n /\ n \in Nat /\ IsFiniteSet(DOMAIN ranked) /\ Cardinality(DOMAIN ranked) = n
  BY PlacesListed
<1>2. /\ Lists(order, 1 .. n) /\ Len(order) = n
      /\ \A i, j \in 1 .. n : i < j => <<order[i], order[j]>> \in before
  BY <1>1, SortedHolds
<1> HIDE DEF order
<1>3. DOMAIN order = 1 .. n /\ \A i \in 1 .. n : order[i] \in 1 .. n
  BY <1>2, PlacesListed
<1>4. AtPlace(ranked, order) = [i \in 1 .. n |-> ranked[order[i]]]
  BY <1>1 DEF AtPlace
<1>5. \A i \in 1 .. n : ranked[order[i]] \in S
  BY <1>1, <1>3, PlacesListed
<1>6. AtPlace(ranked, order) \in Seq(S) /\ Len(AtPlace(ranked, order)) = n
  BY <1>1, <1>4, <1>5
<1>7. \A a \in S : \E i \in 1 .. n : AtPlace(ranked, order)[i] = a
  <2> TAKE a \in S
  <2>1. PICK j \in 1 .. n : ranked[j] = a
    BY DEF Lists
  <2>2. PICK i \in 1 .. n : order[i] = j
    BY <1>2 DEF Lists
  <2> QED
    BY <1>4, <2>1, <2>2
<1>8. \A i, j \in 1 .. n : AtPlace(ranked, order)[i] = AtPlace(ranked, order)[j] => i = j
  <2> TAKE i, j \in 1 .. n
  <2> HAVE AtPlace(ranked, order)[i] = AtPlace(ranked, order)[j]
  <2>1. ranked[order[i]] = ranked[order[j]]
    BY <1>4
  <2>2. order[i] = order[j]
    BY ZenonT(60), <1>3, <2>1 DEF Lists
  <2> QED
    BY <1>2, <2>2 DEF Lists
<1>9. Lists(AtPlace(ranked, order), S)
  BY <1>6, <1>7, <1>8 DEF Lists
<1> QED
  BY <1>2, <1>6, <1>9 DEF order

-----------------------------------------------------------------------------
(* The policies. *)

LEMMA CommonIsNatural == ASSUME NEW k \in Nat, NEW n \in Nat PROVE Common(k, n) \in Nat
<1> DEFINE Steps(product) == product = [r \in 0 .. n |-> IF r = 0 THEN 1 ELSE (k + r) * product[r - 1]]
           product == CHOOSE product : Steps(product)
           turn == [x \in Nat \X (1 .. n) |-> (k + x[2]) * x[1]]
           Good == (0 .. n) \X Nat
<1>1. turn \in [Nat \X (1 .. n) -> Nat]
  <2>1. \A a, b \in Nat : a * b \in Nat
    OBVIOUS
  <2>2. \A x \in Nat \X (1 .. n) : k + x[2] \in Nat /\ x[1] \in Nat
    OBVIOUS
  <2>3. \A x \in Nat \X (1 .. n) : (k + x[2]) * x[1] \in Nat
    BY <2>1, <2>2
  <2> QED
    BY <2>3
<1>2. \E run \in [0 .. n -> Nat] :
         run[0] = 1 /\ \A i \in 1 .. n : run[i] = turn[<<run[i - 1], i>>]
  <2> HIDE DEF turn
  <2>1. HasRun(Nat, 1, n, turn)
    BY <1>1, LoopEnds
  <2> QED
    BY <2>1 DEF HasRun
<1>3. \E run : Steps(run)
  <2>1. PICK run \in [0 .. n -> Nat] :
           run[0] = 1 /\ \A i \in 1 .. n : run[i] = turn[<<run[i - 1], i>>]
    BY <1>2
  <2>2. \A i \in 1 .. n : turn[<<run[i - 1], i>>] = (k + i) * run[i - 1]
    <3> TAKE i \in 1 .. n
    <3>1. i - 1 \in 0 .. n
      OBVIOUS
    <3>2. <<run[i - 1], i>> \in Nat \X (1 .. n)
      BY <3>1
    <3> QED
      BY <3>2
  <2>3. \A i \in 0 .. n : run[i] = IF i = 0 THEN 1 ELSE (k + i) * run[i - 1]
    <3> HIDE DEF turn
    <3>1. run[0] = 1
      BY <2>1
    <3>2. \A i \in 1 .. n : run[i] = turn[<<run[i - 1], i>>]
      BY <2>1
    <3>3. \A i \in 0 .. n : i = 0 \/ i \in 1 .. n
      OBVIOUS
    <3> QED
      BY <2>2, <3>1, <3>2, <3>3
  <2>4. DOMAIN run = 0 .. n /\ run = [i \in 0 .. n |-> run[i]]
    BY <2>1
  <2> QED
    BY <2>3, <2>4
<1>4. Steps(product)
  BY <1>3, Zenon
<1>5. Common(k, n) = product[n]
  BY DEF Common
<1> HIDE DEF product
<1>6. \A i \in 1 .. n : <<i - 1, product[i - 1]>> \in Good => <<i, product[i]>> \in Good
  <2> TAKE i \in 1 .. n
  <2>1. product[i] = (k + i) * product[i - 1]
    BY <1>4
  <2>2. \A a, b \in Nat : a * b \in Nat
    OBVIOUS
  <2>3. k + i \in Nat
    OBVIOUS
  <2> QED
    BY <2>1, <2>2, <2>3
<1>7. <<0, product[0]>> \in Good
  BY <1>4
<1>8. n \in 0 .. n
  OBVIOUS
<1> HIDE DEF Good
<1>9. <<n, product[n]>> \in Good
  BY <1>6, <1>7, <1>8, LoopKeeps
<1> QED
  BY <1>5, <1>9 DEF Good

LEMMA SharesAreIntegers ==
    ASSUME NEW common \in Nat, NEW d \in Nat, d > 0, NEW w \in Int
    PROVE  w * (common \div d) \in Int
<1>1. common \div d \in Int
  OBVIOUS
<1>2. \A a, b \in Int : a * b \in Int
  OBVIOUS
<1> QED
  BY <1>1, <1>2

LEMMA BlendHolds ==
    ASSUME NEW S, NEW ranked, Lists(ranked, S), NEW fused, Lists(fused, S),
           NEW weight, weight # None => The(weight) \in Int, NEW k \in Nat
    PROVE  Lists(Blend(ranked, fused, weight, k), S) /\ Len(Blend(ranked, fused, weight, k)) = Len(ranked)
<1>1. CASE weight = None
  BY <1>1 DEF Blend
<1>2. CASE weight # None
  <2> DEFINE places == DOMAIN ranked
             common == Common(k, Len(fused))
             At(p) == Position(fused, ranked[p])
             score == [p \in DOMAIN ranked |-> (100 - The(weight)) * (common \div (k + p))
                                               + The(weight) * (common \div (k + At(p)))]
             before == {p \in (DOMAIN ranked) \X (DOMAIN ranked) :
                           \/ score[p[1]] > score[p[2]]
                           \/ score[p[1]] = score[p[2]] /\ At(p[1]) < At(p[2])}
  <2>1. /\ places = 1 .. Len(ranked) /\ \A p \in places : ranked[p] \in S
        /\ Len(fused) \in Nat
    BY PlacesListed
  <2>2. \A p \in places : At(p) \in 1 .. Len(fused) /\ fused[At(p)] = ranked[p]
    BY <2>1, PositionIs
  <2>3. common \in Nat
    BY <2>1, CommonIsNatural
  <2>4. \A p \in places : score[p] \in Int
    <3> TAKE p \in places
    <3> HIDE DEF common
    <3>1. /\ k + p \in Nat /\ k + p > 0 /\ k + At(p) \in Nat /\ k + At(p) > 0
          /\ The(weight) \in Int /\ 100 - The(weight) \in Int
      BY SMTT(30), <1>2, <2>1, <2>2
    <3>2. (100 - The(weight)) * (common \div (k + p)) \in Int
      BY <2>3, <3>1, SharesAreIntegers
    <3>3. The(weight) * (common \div (k + At(p))) \in Int
      BY <2>3, <3>1, SharesAreIntegers
    <3> QED
      BY <3>2, <3>3
  <2>5. \A p, q \in places : At(p) = At(q) => p = q
    <3> TAKE p, q \in places
    <3>1. fused[At(p)] = ranked[p] /\ fused[At(q)] = ranked[q]
      BY <2>2
    <3>2. ranked[p] = ranked[q] => p = q
      BY <2>1 DEF Lists
    <3> QED
      BY <3>1, <3>2
  <2>6. \A p, q \in places : <<p, q>> \in before <=>
                            \/ score[p] > score[q]
                            \/ score[p] = score[q] /\ At(p) < At(q)
    <3> HIDE DEF score, At
    <3> QED
      OBVIOUS
  <2>7. \A p \in places : At(p) \in Int
    BY <2>1, <2>2
  <2>8. Blend(ranked, fused, weight, k) = AtPlace(ranked, Sorted(DOMAIN ranked, before))
    BY <1>2 DEF Blend
  <2> HIDE DEF score, before, At
  <2>9. IsOrder(before, places)
    <3>1. \A p \in places : <<p, p>> \notin before
      BY <2>4, <2>6, <2>7
    <3>2. \A p, q, r \in places : <<p, q>> \in before /\ <<q, r>> \in before => <<p, r>> \in before
      BY <2>4, <2>6, <2>7
    <3>3. ASSUME NEW p \in places, NEW q \in places, p # q PROVE <<p, q>> \in before \/ <<q, p>> \in before
      <4>1. At(p) # At(q) /\ At(p) \in Int /\ At(q) \in Int /\ score[p] \in Int /\ score[q] \in Int
        BY <2>4, <2>5, <2>7, <3>3
      <4> QED
        BY <2>6, <4>1
    <3> QED
      BY <3>1, <3>2, <3>3 DEF IsOrder
  <2> QED
    BY <2>8, <2>9, Rearranged
<1> QED
  BY <1>1, <1>2

LEMMA SharesShrink ==
    ASSUME NEW common \in Nat, NEW p \in Nat \ {0}, NEW q \in Nat, p <= q
    PROVE  common \div q <= common \div p
<1> DEFINE a == common \div p
           b == common \div q
<1>1. /\ a \in Nat /\ b \in Nat
      /\ p * a <= common /\ common < p * a + p
      /\ q * b <= common /\ common < q * b + q
  OBVIOUS
<1>2. \A x \in Nat : x >= a + 1 => p * x >= p * a + p
  <2> TAKE x \in Nat
  <2> HAVE x >= a + 1
  <2>1. PICK d \in Nat : x = a + 1 + d
    <3>1. x - (a + 1) \in Nat /\ x = a + 1 + (x - (a + 1))
      BY <1>1
    <3> QED
      BY <3>1
  <2>2. p * d \in Nat
    OBVIOUS
  <2>3. p * x = p * a + p + p * d
    BY <1>1, <2>1
  <2>4. p * a \in Nat
    BY <1>1
  <2> HIDE DEF a
  <2> QED
    BY <2>2, <2>3, <2>4
<1>3. p * b <= q * b
  <2>1. PICK d \in Nat : q = p + d
    <3>1. q - p \in Nat /\ q = p + (q - p)
      OBVIOUS
    <3> QED
      BY <3>1
  <2>2. d * b \in Nat /\ p * b \in Nat
    BY <1>1
  <2> HIDE DEF b
  <2>3. q * b = p * b + d * b
    BY <1>1, <2>1
  <2> QED
    BY <2>2, <2>3
<1>4. p * a \in Nat /\ p * b \in Nat /\ q * b \in Nat
  BY <1>1
<1> HIDE DEF a, b
<1>5. ~ b >= a + 1
  BY <1>1, <1>2, <1>3, <1>4
<1>6. b <= a
  BY <1>1, <1>5
<1> QED
  BY <1>6 DEF a, b

LEMMA ProductsGrow ==
    ASSUME NEW m \in Nat, NEW n \in Nat, NEW a \in Nat, NEW b \in Nat, m <= n, a <= b
    PROVE  m * a <= n * b /\ m * a \in Nat /\ n * b \in Nat
<1>1. PICK d \in Nat : n = m + d
  <2>1. n - m \in Nat /\ n = m + (n - m)
    OBVIOUS
  <2> QED
    BY <2>1
<1>2. PICK e \in Nat : b = a + e
  <2>1. b - a \in Nat /\ b = a + (b - a)
    OBVIOUS
  <2> QED
    BY <2>1
<1>3. m * a \in Nat /\ m * e \in Nat /\ d * b \in Nat
  OBVIOUS
<1>4. n * b = m * b + d * b
  BY <1>1
<1>5. m * b = m * a + m * e
  BY <1>2
<1> QED
  BY <1>3, <1>4, <1>5

(* What is sorted before a place a only from the places before a stays
   within as many places. *)
LEMMA FewBefore ==
    ASSUME NEW n \in Nat, NEW order, Lists(order, 1 .. n), Len(order) = n, NEW i \in 1 .. n,
           \A j \in 1 .. n : j < i => order[j] < order[i]
    PROVE  i <= order[i]
<1> SUFFICES ASSUME order[i] < i PROVE FALSE
  <2>1. order[i] \in 1 .. n
    BY PlacesListed
  <2> QED
    BY <2>1
<1> DEFINE f == [j \in 1 .. (i - 1) |-> order[j]]
<1>1. \A j \in 1 .. n : order[j] \in 1 .. n
  BY PlacesListed
<1>2. PICK p \in 1 .. n : p = order[i]
  BY <1>1
<1>3. f \in [1 .. (i - 1) -> 1 .. (p - 1)]
  <2>1. ASSUME NEW j \in 1 .. (i - 1) PROVE order[j] \in 1 .. (p - 1)
    <3>1. j \in 1 .. n /\ j < i /\ i \in 1 .. n /\ p \in 1 .. n
      BY <1>2
    <3>2. order[j] < p /\ order[j] \in 1 .. n
      BY <1>1, <1>2, <3>1
    <3> QED
      BY <3>1, <3>2
  <2> QED
    BY <2>1, Zenon
<1>4. /\ IsFiniteSet(1 .. (i - 1)) /\ Cardinality(1 .. (i - 1)) = i - 1
      /\ IsFiniteSet(1 .. (p - 1)) /\ Cardinality(1 .. (p - 1)) = p - 1
  <2>1. i - 1 \in Nat /\ p - 1 \in Nat
    OBVIOUS
  <2>2. \A m \in Nat : IsFiniteSet(1 .. m) /\ Cardinality(1 .. m) = m
    BY FS_Interval
  <2> QED
    BY <2>1, <2>2
<1>5. Cardinality(1 .. (p - 1)) < Cardinality(1 .. (i - 1))
  BY <1>2, <1>4
<1>6. PICK x, y \in 1 .. (i - 1) : x # y /\ f[x] = f[y]
  <2> HIDE DEF f
  <2> QED
    BY <1>3, <1>4, <1>5, FS_PigeonHole
<1>7. order[x] = order[y] /\ x \in 1 .. n /\ y \in 1 .. n
  BY <1>6
<1> QED
  BY <1>6, <1>7 DEF Lists

LEMMA DemoteHolds ==
    ASSUME NEW S, NEW ranked, Lists(ranked, S), NEW multipliers,
           \A c \in DOMAIN multipliers : multipliers[c] \in 0 .. 100
    PROVE  /\ Lists(Demote(ranked, multipliers), S)
           /\ Len(Demote(ranked, multipliers)) = Len(ranked)
           /\ \A c \in S \ DOMAIN multipliers :
                 Position(Demote(ranked, multipliers), c) <= Position(ranked, c)
<1> DEFINE places == DOMAIN ranked
           common == Common(0, Len(ranked))
           times == [p \in DOMAIN ranked |-> IF ranked[p] \in DOMAIN multipliers
                                             THEN multipliers[ranked[p]] ELSE 100]
           score == [p \in DOMAIN ranked |-> times[p] * (common \div p)]
           Before(p, q) ==
               IF score[p] # score[q] THEN score[p] > score[q]
               ELSE IF times[p] # times[q] THEN times[p] > times[q]
               ELSE p < q
           before == {p \in (DOMAIN ranked) \X (DOMAIN ranked) : Before(p[1], p[2])}
           demoted == AtPlace(ranked, Sorted(DOMAIN ranked, before))
<1>1. places = 1 .. Len(ranked) /\ Len(ranked) \in Nat
  BY PlacesListed
<1>2. CASE DOMAIN multipliers = {}
  <2>1. \A c \in S : Position(ranked, c) \in 1 .. Len(ranked)
    BY PositionIs
  <2>2. \A c \in S : Position(ranked, c) <= Position(ranked, c)
    BY <1>1, <2>1
  <2> QED
    BY <1>2, <2>2 DEF Demote
<1>3. CASE DOMAIN multipliers # {}
  <2>1. common \in Nat
    BY <1>1, CommonIsNatural
  <2>2. \A p \in places : times[p] \in 0 .. 100
    OBVIOUS
  <2>3. \A p \in places : (ranked[p] \notin DOMAIN multipliers) => times[p] = 100
    OBVIOUS
  <2>4. \A p \in places : score[p] = times[p] * (common \div p)
    OBVIOUS
  <2>5. Demote(ranked, multipliers) = demoted
    BY <1>3 DEF Demote
  <2>6. \A p, q \in places : <<p, q>> \in before <=> Before(p, q)
    <3> HIDE DEF score, times
    <3> QED
      OBVIOUS
  <2> HIDE DEF score, times, common
  <2>7. \A p \in places : common \div p \in Nat
    BY <1>1, <2>1
  <2>8. \A p \in places : score[p] \in Nat
    <3>1. \A a, b \in Nat : a * b \in Nat
      OBVIOUS
    <3>2. \A p \in places : times[p] \in Nat
      BY <2>2
    <3> QED
      BY <2>4, <2>7, <3>1, <3>2
  <2>9. \A p, q \in places : times[p] = 100 /\ Before(q, p) => q <= p
    <3> SUFFICES ASSUME NEW p \in places, NEW q \in places, times[p] = 100, Before(q, p), p < q
                 PROVE  FALSE
      BY <1>1
    <3>1. common \div q <= common \div p
      BY <1>1, <2>1, SharesShrink
    <3>2. times[q] \in Nat /\ times[p] \in Nat /\ times[q] <= times[p]
      BY <2>2
    <3>3. times[q] * (common \div q) <= times[p] * (common \div p)
      BY <2>7, <3>1, <3>2, ProductsGrow
    <3>4. score[q] <= score[p]
      BY <2>4, <3>3
    <3> QED
      BY <1>1, <2>8, <3>2, <3>4
  <2>10. IsOrder(before, places)
    <3>1. ASSUME NEW p \in places PROVE score[p] \in Int /\ times[p] \in Int /\ p \in Int
      <4>1. score[p] \in Nat /\ times[p] \in 0 .. 100 /\ p \in 1 .. Len(ranked)
        BY <1>1, <2>2, <2>8
      <4>2. \A x \in 0 .. 100 : x \in Int
        OBVIOUS
      <4>3. \A x \in Nat : x \in Int
        OBVIOUS
      <4>4. \A x \in 1 .. Len(ranked) : x \in Int
        BY <1>1
      <4> QED
        BY <4>1, <4>2, <4>3, <4>4
    <3> HIDE DEF before
    <3>2. \A p \in places : <<p, p>> \notin before
      BY <2>6, <3>1
    <3>3. \A p, q, r \in places : <<p, q>> \in before /\ <<q, r>> \in before => <<p, r>> \in before
      BY <2>6, <3>1
    <3>4. \A p, q \in places : p # q => <<p, q>> \in before \/ <<q, p>> \in before
      BY <2>6, <3>1
    <3> QED
      BY <3>2, <3>3, <3>4 DEF IsOrder
  <2> DEFINE order == Sorted(DOMAIN ranked, before)
  <2> HIDE DEF before
  <2>11. /\ Lists(order, 1 .. Len(ranked)) /\ Len(order) = Len(ranked)
         /\ Lists(demoted, S) /\ Len(demoted) = Len(ranked)
         /\ \A i, j \in 1 .. Len(ranked) : i < j => <<order[i], order[j]>> \in before
    BY <2>10, Rearranged
  <2> HIDE DEF order
  <2>12. \A c \in S \ DOMAIN multipliers : Position(demoted, c) <= Position(ranked, c)
    <3> TAKE c \in S \ DOMAIN multipliers
    <3>1. PICK p \in places : p = Position(ranked, c) /\ ranked[p] = c
      BY <1>1, PositionIs
    <3>2. PICK i \in 1 .. Len(ranked) : order[i] = p
      BY <1>1, <2>11 DEF Lists
    <3>3. demoted[i] = c
      BY <1>1, <3>1, <3>2 DEF AtPlace, order
    <3>4. Position(demoted, c) = i
      <4> HIDE DEF demoted
      <4> QED
        BY <2>11, <3>3, PositionIs
    <3>5. times[p] = 100
      BY <2>3, <3>1
    <3>6. \A j \in 1 .. Len(ranked) : order[j] \in places
      BY <1>1, <2>11, PlacesListed
    <3>7. \A j \in 1 .. Len(ranked) : j < i => order[j] < order[i]
      <4> TAKE j \in 1 .. Len(ranked)
      <4> HAVE j < i
      <4>1. Before(order[j], p)
        BY <2>6, <2>11, <3>2, <3>6
      <4>2. order[j] <= p
        BY <2>9, <3>5, <3>6, <4>1
      <4>3. order[j] # order[i]
        BY <2>11 DEF Lists
      <4> QED
        BY <1>1, <3>2, <3>6, <4>2, <4>3
    <3>8. i <= order[i]
      BY <1>1, <2>11, <3>7, FewBefore
    <3> QED
      BY <3>1, <3>2, <3>4, <3>8
  <2> QED
    BY <2>5, <2>11, <2>12
<1> QED
  BY <1>2, <1>3

LEMMA LeastOfTwo ==
    ASSUME NEW a \in Int, NEW b \in Int
    PROVE  Min({a, b}) = IF a <= b THEN a ELSE b
<1>1. \E m \in {a, b} : \A y \in {a, b} : m <= y
  OBVIOUS
<1>2. Min({a, b}) \in {a, b} /\ \A y \in {a, b} : Min({a, b}) <= y
  BY <1>1, Zenon DEF Min
<1> QED
  BY <1>2

LEMMA GreatestOfTwo ==
    ASSUME NEW a \in Int, NEW b \in Int
    PROVE  Max({a, b}) = IF a >= b THEN a ELSE b
<1>1. \E m \in {a, b} : \A y \in {a, b} : m >= y
  OBVIOUS
<1>2. Max({a, b}) \in {a, b} /\ \A y \in {a, b} : Max({a, b}) >= y
  BY <1>1, Zenon DEF Max
<1> QED
  BY <1>2

LEMMA TakeIs ==
    ASSUME NEW S, NEW list \in Seq(S), NEW n \in Nat
    PROVE  /\ Take(list, n) \in Seq(S)
           /\ Len(Take(list, n)) = IF n <= Len(list) THEN n ELSE Len(list)
           /\ \A i \in 1 .. Len(Take(list, n)) : Take(list, n)[i] = list[i]
<1> DEFINE taken == IF n <= Len(list) THEN n ELSE Len(list)
<1>1. Min({n, Len(list)}) = taken
  BY LeastOfTwo
<1>2. taken \in 0 .. Len(list)
  OBVIOUS
<1> HIDE DEF taken
<1>3. Take(list, n) = SubSeq(list, 1, taken)
  BY <1>1, Zenon DEF Take
<1>4. /\ SubSeq(list, 1, taken) \in Seq(S) /\ Len(SubSeq(list, 1, taken)) = taken
      /\ \A i \in 1 .. taken : SubSeq(list, 1, taken)[i] = list[i]
  BY <1>2
<1> QED
  BY <1>3, <1>4 DEF taken

LEMMA MovedUpHolds ==
    ASSUME NEW S, NEW order, Lists(order, S), NEW id \in S, NEW bound \in Nat \ {0}
    PROVE  LET new == MovedUp(order, id, bound)
           IN  /\ Lists(new, S) /\ Len(new) = Len(order)
               /\ Position(new, id) <= bound
               /\ \A c \in S : \A b \in Nat : b < bound /\ Position(order, c) <= b =>
                      Position(new, c) <= b
<1> DEFINE n == Len(order)
           p == Position(order, id)
           moved == Min({bound, p})
           new == MovedUp(order, id, bound)
           from(i) == IF i = moved THEN p ELSE IF moved < i /\ i <= p THEN i - 1 ELSE i
<1>1. /\ DOMAIN order = 1 .. n /\ n \in Nat
      /\ \A i \in 1 .. n : order[i] \in S
      /\ \A i, j \in 1 .. n : order[i] = order[j] => i = j
  BY PlacesListed DEF Lists
<1>2. p \in 1 .. n /\ order[p] = id
  BY PositionIs
<1>3. moved = IF bound <= p THEN bound ELSE p
  BY <1>1, <1>2, LeastOfTwo
<1>4. new = [i \in 1 .. n |-> IF i = moved THEN id
                              ELSE IF moved < i /\ i <= p THEN order[i - 1] ELSE order[i]]
  BY <1>1 DEF MovedUp
<1> HIDE DEF p, moved, new
<1>5. moved \in 1 .. p
  BY <1>1, <1>2, <1>3
<1>6. \A i \in 1 .. n : from(i) \in 1 .. n /\ new[i] = order[from(i)]
  BY <1>1, <1>2, <1>4, <1>5
<1>7. \A i, j \in 1 .. n : from(i) = from(j) => i = j
  BY <1>1, <1>2, <1>5
<1>8. \A k \in 1 .. n : \E i \in 1 .. n :
         /\ from(i) = k
         /\ i = IF k = p THEN moved ELSE IF moved <= k /\ k < p THEN k + 1 ELSE k
  <2> TAKE k \in 1 .. n
  <2> DEFINE i == IF k = p THEN moved ELSE IF moved <= k /\ k < p THEN k + 1 ELSE k
  <2>1. i \in 1 .. n /\ from(i) = k
    BY <1>1, <1>2, <1>5
  <2> QED
    BY <2>1
<1>9. new \in Seq(S) /\ Len(new) = n
  <2>1. \A i \in 1 .. n : new[i] \in S
    BY <1>1, <1>6
  <2>2. new = [i \in 1 .. n |-> new[i]]
    BY <1>4
  <2> QED
    BY <1>1, <2>1, <2>2
<1> HIDE DEF from
<1>10. \A i, j \in 1 .. n : new[i] = new[j] => i = j
  BY <1>1, <1>6, <1>7
<1>11. \A a \in S : \E i \in 1 .. n : new[i] = a
  <2> TAKE a \in S
  <2>1. PICK k \in 1 .. n : order[k] = a
    BY DEF Lists
  <2>2. PICK i \in 1 .. n : from(i) = k
    BY <1>8
  <2> QED
    BY <1>6, <2>1, <2>2
<1>12. Lists(new, S)
  BY <1>9, <1>10, <1>11 DEF Lists
<1>13. Position(new, id) <= bound
  <2>1. new[moved] = id /\ moved \in 1 .. n
    BY <1>1, <1>2, <1>4, <1>5
  <2>2. Position(new, id) = moved
    BY <1>9, <1>12, <2>1, PositionIs
  <2> QED
    BY <1>1, <1>2, <1>3, <2>2
<1>14. ASSUME NEW c \in S, NEW b \in Nat, b < bound, Position(order, c) <= b
       PROVE  Position(new, c) <= b
  <2>1. PICK k \in 1 .. n : k = Position(order, c) /\ order[k] = c
    BY PositionIs
  <2>2. CASE k = p
    <3>1. c = id
      BY <1>2, <2>1, <2>2
    <3>2. new[moved] = c /\ moved \in 1 .. n
      BY <1>1, <1>2, <1>4, <1>5, <3>1
    <3>3. Position(new, c) = moved
      BY <1>9, <1>12, <3>2, PositionIs
    <3> QED
      BY <1>1, <1>2, <1>5, <1>14, <2>1, <2>2, <3>3
  <2>3. CASE k # p
    <3>1. ~ (moved <= k /\ k < p)
      BY <1>1, <1>2, <1>3, <1>14, <2>1
    <3>2. PICK i \in 1 .. n : from(i) = k /\ i = k
      BY <1>8, <2>3, <3>1
    <3>3. new[k] = c
      BY <1>6, <2>1, <3>2
    <3>4. Position(new, c) = k
      BY <1>9, <1>12, <3>3, PositionIs
    <3> QED
      BY <1>14, <2>1, <3>4
  <2> QED
    BY <2>2, <2>3
<1> QED
  BY <1>9, <1>12, <1>13, <1>14 DEF new

(* No chunk the bound holds for is more than cap places below its fused one. *)
BoundIsKept(final, fused, cap) ==
    cap # None =>
        \A n \in 1 .. Len(Capped(fused)) :
            /\ Position(fused, Capped(fused)[n]) = n
            /\ Position(final, Capped(fused)[n]) <= n + The(cap)

LEMMA CapDemotionHolds ==
    ASSUME NEW S, NEW ranked, Lists(ranked, S), NEW fused, Lists(fused, S),
           NEW cap, cap # None => The(cap) \in Nat
    PROVE  /\ Lists(CapDemotion(ranked, fused, cap), S)
           /\ Len(CapDemotion(ranked, fused, cap)) = Len(ranked)
           /\ BoundIsKept(CapDemotion(ranked, fused, cap), fused, cap)
<1>1. CASE cap = None
  BY <1>1 DEF CapDemotion, BoundIsKept
<1>2. CASE cap # None
  <2> DEFINE ids == Capped(fused)
             m == Len(ids)
             bound == The(cap)
             Step(order, n) == MovedUp(order, ids[n], Position(fused, ids[n]) + bound)
             Steps(order) == order = [n \in 0 .. m |->
                 IF n = 0 THEN ranked
                 ELSE MovedUp(order[n - 1], Capped(fused)[n], Position(fused, Capped(fused)[n]) + The(cap))]
             order == CHOOSE order : Steps(order)
             States == {list \in Seq(S) : Lists(list, S) /\ Len(list) = Len(ranked)}
             turn == [x \in States \X (1 .. m) |-> Step(x[1], x[2])]
  <2>1. /\ fused \in Seq(S) /\ Len(fused) \in Nat /\ \A i \in 1 .. Len(fused) : fused[i] \in S
        /\ DOMAIN fused = 1 .. Len(fused)
    BY PlacesListed DEF Lists
  <2>2. m \in Nat /\ m <= Len(fused) /\ \A n \in 1 .. m : ids[n] = fused[n]
    <3>1. PICK places \in Nat : places = 10
      OBVIOUS
    <3>2. ids = Take(fused, places)
      BY <3>1 DEF Capped, CappedPlaces
    <3>3. /\ Len(ids) = IF places <= Len(fused) THEN places ELSE Len(fused)
          /\ \A i \in 1 .. Len(ids) : ids[i] = fused[i]
      BY <2>1, <3>2, TakeIs
    <3> QED
      BY <2>1, <3>3
  <2> HIDE DEF ids, m
  <2>3. \A n \in 1 .. m : ids[n] \in S /\ Position(fused, ids[n]) = n
    <3> TAKE n \in 1 .. m
    <3>1. n \in 1 .. Len(fused) /\ ids[n] = fused[n]
      BY <2>1, <2>2
    <3>2. fused[n] \in S
      BY <2>1, <3>1
    <3>3. Position(fused, fused[n]) = n
      BY <3>1, <3>2, PositionIs
    <3> QED
      BY <3>1, <3>2, <3>3
  <2>4. bound \in Nat
    BY <1>2
  <2> HIDE DEF bound
  <2>5. ranked \in States
    BY DEF Lists
  <2>6. ASSUME NEW list \in States, NEW n \in 1 .. m
        PROVE  /\ Step(list, n) \in States
               /\ Position(Step(list, n), ids[n]) <= n + bound
               /\ \A c \in S : \A b \in Nat : b < n + bound /\ Position(list, c) <= b =>
                      Position(Step(list, n), c) <= b
    <3>1. ids[n] \in S /\ Position(fused, ids[n]) + bound = n + bound /\ n + bound \in Nat \ {0}
      BY <2>2, <2>3, <2>4
    <3>2. Lists(list, S) /\ Len(list) = Len(ranked)
      OBVIOUS
    <3>3. Step(list, n) = MovedUp(list, ids[n], n + bound)
      BY <3>1
    <3> HIDE DEF Step
    <3>4. /\ Lists(Step(list, n), S) /\ Len(Step(list, n)) = Len(list)
          /\ Position(Step(list, n), ids[n]) <= n + bound
          /\ \A c \in S : \A b \in Nat : b < n + bound /\ Position(list, c) <= b =>
                      Position(Step(list, n), c) <= b
      BY <3>1, <3>2, <3>3, MovedUpHolds
    <3> QED
      BY <3>2, <3>4 DEF Lists
  <2>7. turn \in [States \X (1 .. m) -> States]
    <3>1. \A x \in States \X (1 .. m) : Step(x[1], x[2]) \in States
      <4> TAKE x \in States \X (1 .. m)
      <4>1. x[1] \in States /\ x[2] \in 1 .. m
        OBVIOUS
      <4> HIDE DEF Step, States
      <4> QED
        BY <2>6, <4>1
    <3> HIDE DEF Step, States
    <3> QED
      BY <3>1
  <2>8. \E run : Steps(run)
    <3> HIDE DEF States, Step
    <3>1. PICK run \in [0 .. m -> States] :
             run[0] = ranked /\ \A i \in 1 .. m : run[i] = turn[<<run[i - 1], i>>]
      <4>1. m \in Nat
        BY <2>2
      <4> HIDE DEF turn
      <4>2. HasRun(States, ranked, m, turn)
        BY <2>5, <2>7, <4>1, LoopEnds
      <4> QED
        BY <4>2 DEF HasRun
    <3>2. \A i \in 1 .. m : turn[<<run[i - 1], i>>] = Step(run[i - 1], i)
      <4> TAKE i \in 1 .. m
      <4>1. i - 1 \in 0 .. m
        BY <2>2
      <4>2. <<run[i - 1], i>> \in States \X (1 .. m)
        BY <3>1, <4>1
      <4> QED
        BY <4>2
    <3>3. \A i \in 0 .. m : i = 0 \/ i \in 1 .. m
      BY <2>2
    <3>4. run[0] = ranked /\ \A i \in 1 .. m : run[i] = turn[<<run[i - 1], i>>]
      <4> HIDE DEF turn
      <4> QED
        BY <2>2, <3>1
    <3>5. \A i \in 0 .. m : run[i] = IF i = 0 THEN ranked ELSE Step(run[i - 1], i)
      <4> HIDE DEF turn
      <4> QED
        BY <2>2, <3>2, <3>3, <3>4
    <3>6. run = [i \in 0 .. m |-> run[i]]
      BY <3>1
    <3> QED
      BY <3>5, <3>6 DEF Step, bound, ids
  <2>9. Steps(order)
    BY <2>8, Zenon
  <2>10. CapDemotion(ranked, fused, cap) = order[m]
    BY <1>2 DEF CapDemotion, m, ids
  <2>11. order[0] = ranked /\ \A n \in 1 .. m : order[n] = Step(order[n - 1], n)
    <3> HIDE DEF order
    <3> QED
      BY <2>2, <2>9 DEF bound, ids
  <2> DEFINE Good == {x \in Nat \X States :
                         \A j \in 1 .. x[1] : j <= m => Position(x[2], ids[j]) <= j + bound}
  <2> HIDE DEF order, Step
  <2>12. <<0, order[0]>> \in Good
    <3> HIDE DEF States
    <3> QED
      BY <2>5, <2>11
  <2>13. \A n \in 1 .. m : <<n - 1, order[n - 1]>> \in Good => <<n, order[n]>> \in Good
    <3> TAKE n \in 1 .. m
    <3> HAVE <<n - 1, order[n - 1]>> \in Good
    <3> HIDE DEF States
    <3>1. /\ order[n - 1] \in States
          /\ \A j \in 1 .. (n - 1) : j <= m => Position(order[n - 1], ids[j]) <= j + bound
      OBVIOUS
    <3>2. PICK next : next = Step(order[n - 1], n)
      OBVIOUS
    <3>3. /\ next \in States /\ Position(next, ids[n]) <= n + bound
          /\ \A c \in S : \A b \in Nat : b < n + bound /\ Position(order[n - 1], c) <= b =>
                 Position(next, c) <= b
      BY <2>6, <3>1, <3>2
    <3>4. ASSUME NEW j \in 1 .. n PROVE Position(next, ids[j]) <= j + bound
      <4>1. CASE j = n
        BY <3>3, <4>1
      <4>2. CASE j # n
        <5>1. j \in 1 .. (n - 1) /\ j <= m /\ j + bound \in Nat /\ j + bound < n + bound /\ j \in 1 .. m
          BY <2>2, <2>4, <4>2
        <5> QED
          BY <2>3, <3>1, <3>3, <5>1
      <4> QED
        BY <4>1, <4>2
    <3>5. order[n] = next
      BY <2>11, <3>2
    <3> QED
      BY <3>3, <3>4, <3>5
  <2>14. m \in 0 .. m
    BY <2>2
  <2>15. <<m, order[m]>> \in Good
    <3> HIDE DEF Good
    <3> QED
      BY <2>2, <2>12, <2>13, <2>14, LoopKeeps
  <2>16. /\ Lists(order[m], S) /\ Len(order[m]) = Len(ranked)
         /\ \A j \in 1 .. m : Position(order[m], ids[j]) <= j + bound
    BY <2>2, <2>15
  <2> QED
    BY <2>3, <2>10, <2>16 DEF bound, m, ids, BoundIsKept
<1> QED
  BY <1>1, <1>2

LEMMA ListedRange ==
    ASSUME NEW S, NEW list, Lists(list, S)
    PROVE  Range(list) = S
<1>1. DOMAIN list = 1 .. Len(list) /\ \A i \in DOMAIN list : list[i] \in S
  BY PlacesListed
<1> QED
  BY <1>1 DEF Range, Lists

LEMMA PercentOfPercent ==
    ASSUME NEW a \in Portion, NEW b \in Portion
    PROVE  (a * b) \div 100 \in Portion
<1>1. a \in Nat /\ b \in Nat /\ a <= 100 /\ b <= 100
  BY DEF Portion
<1>2. a * b <= 100 * 100 /\ a * b \in Nat
  BY <1>1, ProductsGrow
<1>3. PICK c \in Nat : c = a * b
  BY <1>2
<1>4. c <= 10000
  BY <1>2, <1>3
<1>5. c \div 100 \in 0 .. 100
  BY <1>4
<1> QED
  BY <1>3, <1>5 DEF Portion

(* The policies of a valid configuration reorder the chunks, whatever order
   a rerank gave them; each of those the fusion put first keeps the bound,
   though moving one up moves others down again, and a chunk without a
   penalty never loses a place to one that has it (rank_policy.rs). *)
THEOREM PoliciesHoldAlways ==
    ASSUME NEW S, NEW ranked, Lists(ranked, S), NEW fused, Lists(fused, S),
           NEW policy, PolicyIsValid(policy)
    PROVE  /\ PoliciesHold(ranked, fused, policy)
           /\ Lists(ApplyRankPolicies(ranked, fused, policy), S)
<1> DEFINE Of(prior, c) == IF c \in prior.ids /\ prior.multiplier # None
                           THEN The(prior.multiplier) ELSE 100
           penalized == {c \in Range(fused) : \E prior \in {policy.section, policy.source} :
                             c \in prior.ids /\ prior.multiplier # None}
           multipliers == [c \in penalized |->
                              (Of(policy.section, c) * Of(policy.source, c)) \div 100]
           blended == Blend(ranked, fused, policy.blend, policy.k)
           demoted == Demote(blended, multipliers)
           final == ApplyRankPolicies(ranked, fused, policy)
<1>1. final = CapDemotion(demoted, fused, policy.cap)
  BY DEF ApplyRankPolicies
<1>2. Lists(blended, S) /\ Len(blended) = Len(ranked)
  <2>1. policy.k \in Nat /\ (policy.blend # None => The(policy.blend) \in Int)
    BY DEF PolicyIsValid, Portion
  <2> QED
    BY SMTT(30), <2>1, BlendHolds
<1>3. \A c \in DOMAIN multipliers : multipliers[c] \in 0 .. 100
  <2> TAKE c \in DOMAIN multipliers
  <2>1. Of(policy.section, c) \in Portion /\ Of(policy.source, c) \in Portion
    <3>1. \A prior \in {policy.section, policy.source} : Of(prior, c) \in Portion
      BY DEF PolicyIsValid, Portion
    <3> HIDE DEF Of
    <3> QED
      BY <3>1
  <2>2. multipliers[c] = (Of(policy.section, c) * Of(policy.source, c)) \div 100
    OBVIOUS
  <2> HIDE DEF multipliers, Of
  <2>3. multipliers[c] \in Portion
    BY <2>1, <2>2, PercentOfPercent
  <2> QED
    BY SMTT(30), <2>3 DEF Portion
<1>4. DOMAIN multipliers = penalized
  OBVIOUS
<1> HIDE DEF multipliers, blended
<1>5. /\ Lists(demoted, S) /\ Len(demoted) = Len(ranked)
      /\ \A c \in S \ penalized : Position(demoted, c) <= Position(blended, c)
  BY <1>2, <1>3, <1>4, DemoteHolds
<1> HIDE DEF demoted, final
<1>6. /\ Lists(final, S) /\ Len(final) = Len(ranked)
      /\ BoundIsKept(final, fused, policy.cap)
  <2>1. policy.cap # None => The(policy.cap) \in Nat
    BY DEF PolicyIsValid
  <2> QED
    BY <1>1, <1>5, <2>1, CapDemotionHolds
<1>7. Range(final) = S /\ Range(ranked) = S
  BY <1>6, ListedRange
<1>8. ASSUME policy.cap # None, NEW c \in Range(Capped(fused))
      PROVE  Position(final, c) <= Position(fused, c) + The(policy.cap)
  <2>1. DOMAIN Capped(fused) = 1 .. Len(Capped(fused))
    <3>1. fused \in Seq(S) /\ 10 \in Nat
      BY DEF Lists
    <3>2. Take(fused, 10) \in Seq(S)
      BY <3>1, TakeIs
    <3> QED
      BY <3>2 DEF Capped, CappedPlaces
  <2>2. PICK n \in 1 .. Len(Capped(fused)) : c = Capped(fused)[n]
    BY <1>8, <2>1 DEF Range
  <2> QED
    BY <1>6, <1>8, <2>2 DEF BoundIsKept
<1>9. ASSUME policy.cap = None, policy.blend = None,
             NEW c \in Range(ranked) \ (policy.section.ids \cup policy.source.ids)
      PROVE  Position(final, c) <= Position(ranked, c)
  <2>1. final = demoted
    BY <1>1, <1>9 DEF CapDemotion
  <2>2. blended = ranked
    BY <1>9 DEF Blend, blended
  <2>3. c \in S \ penalized
    BY <1>7
  <2> QED
    BY <1>5, <2>1, <2>2, <2>3
<1> QED
  BY <1>6, <1>7, <1>8, <1>9 DEF PoliciesHold, final

-----------------------------------------------------------------------------
(* The windows of a long text. *)

LEMMA HalvedHolds ==
    ASSUME NEW length \in Nat, NEW start \in 0 .. length, NEW range \in Int \X Int,
           0 <= range[1], range[1] <= range[2], range[2] <= length - start,
           NEW budget, NEW count
    PROVE  LET half == Halved(range, start, budget, count)
           IN  half \in Int \X Int /\ 0 <= half[1] /\ half[1] <= half[2] /\ half[2] <= length - start
<1>1. PICK low, high \in Int : range = <<low, high>>
  OBVIOUS
<1> DEFINE middle == low + (high - low) \div 2
<1>2. CASE low >= high
  BY <1>1, <1>2 DEF Halved
<1>3. CASE low < high
  <2>1. middle \in Int /\ low <= middle /\ middle < high
    BY <1>3
  <2>2. range[1] + (range[2] - range[1]) \div 2 = middle
    BY <1>1
  <2> HIDE DEF middle
  <2>3. Halved(range, start, budget, count) \in {<<middle + 1, high>>, <<low, middle>>}
    BY <1>1, <1>3, <2>2 DEF Halved
  <2> QED
    BY <1>1, <1>3, <2>1, <2>3
<1> QED
  BY <1>1, <1>2, <1>3

LEMMA FittingHolds ==
    ASSUME NEW length \in Nat, NEW start \in 0 .. length, NEW budget, NEW count
    PROVE  Fitting(start, length, budget, count) \in start .. length
<1> DEFINE States == {r \in Int \X Int : 0 <= r[1] /\ r[1] <= r[2] /\ r[2] <= length - start}
           first == <<0, length - start>>
           Steps(range) == range = [n \in 0 .. length |->
               IF n = 0 THEN <<0, length - start>> ELSE Halved(range[n - 1], start, budget, count)]
           range == CHOOSE range : Steps(range)
           turn == [x \in States \X (1 .. length) |-> Halved(x[1], start, budget, count)]
           Good == (0 .. length) \X States
<1>1. first \in States
  OBVIOUS
<1>2. \A r \in States : Halved(r, start, budget, count) \in States
  <2> TAKE r \in States
  <2>1. r \in Int \X Int /\ 0 <= r[1] /\ r[1] <= r[2] /\ r[2] <= length - start
    OBVIOUS
  <2>2. PICK half : half = Halved(r, start, budget, count)
    OBVIOUS
  <2>3. half \in Int \X Int /\ 0 <= half[1] /\ half[1] <= half[2] /\ half[2] <= length - start
    BY <2>1, <2>2, HalvedHolds
  <2> QED
    BY <2>2, <2>3
<1> HIDE DEF States
<1>3. turn \in [States \X (1 .. length) -> States]
  <2>1. \A x \in States \X (1 .. length) : x[1] \in States
    OBVIOUS
  <2> QED
    BY <1>2, <2>1
<1> HIDE DEF turn
<1>4. HasRun(States, first, length, turn)
  <2> HIDE DEF first
  <2> QED
    BY <1>1, <1>3, LoopEnds
<1>5. PICK run \in [0 .. length -> States] :
         run[0] = first /\ \A i \in 1 .. length : run[i] = turn[<<run[i - 1], i>>]
  BY <1>4 DEF HasRun
<1>6. \A i \in 1 .. length : run[i] = Halved(run[i - 1], start, budget, count)
  <2> TAKE i \in 1 .. length
  <2>1. i - 1 \in 0 .. length
    OBVIOUS
  <2>2. <<run[i - 1], i>> \in States \X (1 .. length)
    BY <1>5, <2>1
  <2>3. turn[<<run[i - 1], i>>] = Halved(run[i - 1], start, budget, count)
    BY <2>2 DEF turn
  <2> QED
    BY <1>5, <2>3
<1>7. Steps(run)
  <2>1. \A i \in 0 .. length : i = 0 \/ i \in 1 .. length
    OBVIOUS
  <2>2. \A i \in 0 .. length : run[i] =
           IF i = 0 THEN first ELSE Halved(run[i - 1], start, budget, count)
    BY <1>5, <1>6, <2>1
  <2>3. run = [i \in 0 .. length |-> run[i]]
    BY <1>5
  <2> QED
    BY <2>2, <2>3
<1>8. Steps(range)
  BY <1>7, Zenon
<1>9. Fitting(start, length, budget, count) = start + range[length][1]
  BY DEF Fitting
<1>10. range[0] = first /\ \A i \in 1 .. length : range[i] = Halved(range[i - 1], start, budget, count)
  <2> HIDE DEF range
  <2>1. 0 \in 0 .. length /\ \A i \in 1 .. length : i \in 0 .. length /\ i # 0
    OBVIOUS
  <2>2. \A i \in 0 .. length : range[i] =
           IF i = 0 THEN <<0, length - start>> ELSE Halved(range[i - 1], start, budget, count)
    BY <1>8
  <2> QED
    BY <2>1, <2>2
<1> HIDE DEF range, first
<1>11. <<0, range[0]>> \in Good
  BY <1>1, <1>10
<1>12. \A i \in 1 .. length : <<i - 1, range[i - 1]>> \in Good => <<i, range[i]>> \in Good
  BY <1>2, <1>10
<1>13. length \in 0 .. length
  OBVIOUS
<1>14. <<length, range[length]>> \in Good
  <2> HIDE DEF Good
  <2> QED
    BY <1>11, <1>12, <1>13, LoopKeeps
<1>15. PICK last \in States : last = range[length]
  BY <1>14
<1>16. last[1] \in Int /\ 0 <= last[1] /\ last[1] <= length - start
  BY DEF States
<1>17. start + last[1] \in start .. length
  BY <1>16
<1> QED
  BY <1>9, <1>15, <1>17

LEMMA GreatestExists ==
    ASSUME NEW n \in Nat, NEW S \in SUBSET (0 .. n), S # {}
    PROVE  Max(S) \in S
<1> DEFINE T == {n - x : x \in S}
<1>1. T \in SUBSET Nat /\ T # {}
  <2>1. \A x \in S : n - x \in Nat
    OBVIOUS
  <2> QED
    BY <2>1
<1>2. PICK m \in T : \A y \in T : m <= y
  <2> HIDE DEF T
  <2> QED
    BY <1>1, LeastExists
<1>3. PICK x \in S : m = n - x
  BY <1>2
<1>4. \A y \in S : x >= y
  BY <1>2, <1>3
<1> QED
  BY <1>4, Zenon DEF Max

LEMMA WindowEndHolds ==
    ASSUME NEW start \in Nat, NEW longest \in Nat, start < longest,
           NEW blank, NEW budget, NEW count
    PROVE  WindowEnd(start, longest, blank, budget, count) \in (start + 1) .. longest
<1> DEFINE blanks == blank \cap (start + 1) .. longest
<1>1. blanks # {} => Max(blanks) \in (start + 1) .. longest
  <2>1. blanks \in SUBSET (0 .. longest)
    OBVIOUS
  <2> HIDE DEF blanks
  <2>2. blanks # {} => Max(blanks) \in blanks
    BY <2>1, GreatestExists
  <2> QED
    BY <2>2 DEF blanks
<1> HIDE DEF blanks
<1> QED
  BY <1>1 DEF WindowEnd, blanks

(* The windows so far follow one another from the first character to where
   the next begins, and each fits. *)
FollowOn(state, length, budget, count) ==
    /\ state \in [ok : BOOLEAN, at : 0 .. length,
                  windows : Seq([from : 0 .. length, to : 0 .. length])]
    /\ state.at = IF Len(state.windows) = 0 THEN 0 ELSE state.windows[Len(state.windows)].to
    /\ \A i \in 1 .. Len(state.windows) :
           /\ state.windows[i].from = IF i = 1 THEN 0 ELSE state.windows[i - 1].to
           /\ state.windows[i].from < state.windows[i].to
           /\ count[<<state.windows[i].from, state.windows[i].to>>] <= budget

LEMMA NextWindowHolds ==
    ASSUME NEW length \in Nat, NEW blank, NEW budget, NEW count,
           NEW state, FollowOn(state, length, budget, count)
    PROVE  LET next == NextWindow(state, length, blank, budget, count)
           IN  /\ FollowOn(next, length, budget, count)
               /\ next.ok => /\ state.ok
                             /\ next.at = length \/ next.at > state.at
<1> DEFINE longest == Fitting(state.at, length, budget, count)
           end == WindowEnd(state.at, longest, blank, budget, count)
           window == [from |-> state.at, to |-> end]
           longer == [ok |-> TRUE, at |-> end, windows |-> Append(state.windows, window)]
           next == NextWindow(state, length, blank, budget, count)
           Window == [from : 0 .. length, to : 0 .. length]
<1>1. /\ state \in [ok : BOOLEAN, at : 0 .. length, windows : Seq(Window)]
      /\ state.at \in 0 .. length /\ state.windows \in Seq(Window) /\ Len(state.windows) \in Nat
  BY DEF FollowOn
<1>2. CASE ~ state.ok \/ state.at = length
  BY <1>2 DEF NextWindow
<1>3. CASE /\ state.ok /\ state.at # length
           /\ longest > state.at /\ count[<<state.at, end>>] <= budget
  <2>1. longest \in state.at .. length
    BY <1>1, FittingHolds
  <2>2. state.at \in Nat /\ longest \in Nat /\ state.at < longest /\ longest <= length
    BY <1>1, <1>3, <2>1
  <2>3. next = longer
    BY <1>3, Zenon DEF NextWindow
  <2> HIDE DEF longest
  <2>4. end \in (state.at + 1) .. longest
    BY <2>2, WindowEndHolds
  <2> HIDE DEF end
  <2>5. end \in 0 .. length /\ state.at < end /\ window \in Window
    BY <1>1, <2>2, <2>4
  <2> HIDE DEF Window
  <2>6. /\ longer.windows \in Seq(Window) /\ Len(longer.windows) = Len(state.windows) + 1
        /\ longer.windows[Len(state.windows) + 1] = window
        /\ \A i \in 1 .. Len(state.windows) : longer.windows[i] = state.windows[i]
    BY <1>1, <2>5
  <2>7. ASSUME NEW i \in 1 .. Len(longer.windows)
        PROVE  /\ longer.windows[i].from = IF i = 1 THEN 0 ELSE longer.windows[i - 1].to
               /\ longer.windows[i].from < longer.windows[i].to
               /\ count[<<longer.windows[i].from, longer.windows[i].to>>] <= budget
    <3>1. CASE i \in 1 .. Len(state.windows)
      <4>1. i - 1 \in 1 .. Len(state.windows) \/ i = 1
        BY <1>1, <3>1
      <4> HIDE DEF longer
      <4> QED
        BY <2>6, <3>1, <4>1 DEF FollowOn
    <3>2. CASE i = Len(state.windows) + 1
      <4>1. longer.windows[i] = window
        BY <2>6, <3>2
      <4>2. window.from = state.at /\ window.to = end
        OBVIOUS
      <4>3. i = 1 \/ i - 1 \in 1 .. Len(state.windows)
        BY <1>1, <3>2
      <4>4. i - 1 = Len(state.windows)
        BY <1>1, <3>2
      <4>5. state.at = IF i = 1 THEN 0 ELSE longer.windows[i - 1].to
        <5>1. (i = 1) <=> (Len(state.windows) = 0)
          BY <1>1, <3>2
        <5> HIDE DEF longer
        <5> QED
          BY <2>6, <4>3, <4>4, <5>1 DEF FollowOn
      <4> HIDE DEF longer, window
      <4> QED
        BY <1>3, <2>5, <4>1, <4>2, <4>5
    <3>3. i \in 1 .. Len(state.windows) \/ i = Len(state.windows) + 1
      <4> HIDE DEF longer
      <4> QED
        BY <1>1, <2>6
    <3> HIDE DEF longer
    <3> QED
      BY <3>1, <3>2, <3>3
  <2>8. longer \in [ok : BOOLEAN, at : 0 .. length, windows : Seq(Window)]
    BY <2>5, <2>6
  <2>9. longer.at = IF Len(longer.windows) = 0 THEN 0 ELSE longer.windows[Len(longer.windows)].to
    <3>1. longer.at = end /\ window.to = end /\ Len(longer.windows) # 0
      BY <1>1, <2>6
    <3> HIDE DEF longer, window
    <3> QED
      BY <2>6, <3>1
  <2>10. FollowOn(longer, length, budget, count)
    <3> HIDE DEF longer
    <3> QED
      BY <2>7, <2>8, <2>9 DEF FollowOn, Window
  <2>11. longer.ok /\ longer.at > state.at
    BY <1>1, <2>4, <2>5
  <2> QED
    BY <1>3, <2>3, <2>10, <2>11
<1>4. CASE /\ state.ok /\ state.at # length
           /\ ~ (longest > state.at /\ count[<<state.at, end>>] <= budget)
  <2>1. next = [state EXCEPT !.ok = FALSE]
    BY <1>4, Zenon DEF NextWindow
  <2>2. next.ok = FALSE /\ next.at = state.at /\ next.windows = state.windows
        /\ next \in [ok : BOOLEAN, at : 0 .. length, windows : Seq(Window)]
    BY <1>1, <2>1
  <2> HIDE DEF next
  <2> QED
    BY <2>2 DEF FollowOn, next
<1> QED
  BY <1>2, <1>3, <1>4

(* Whatever the tokenizer counts and wherever the blanks are: the windows of a
   text follow one another from its first character to its last, none is
   over the budget, and the loop ends by then (rerank.rs, split_text). *)
THEOREM SplitIsWholeAlways ==
    ASSUME NEW length \in Nat, NEW blank, NEW budget, NEW count
    PROVE  SplitIsWhole(length, blank, budget, count)
<1> DEFINE States == {s \in [ok : BOOLEAN, at : 0 .. length,
                             windows : Seq([from : 0 .. length, to : 0 .. length])] :
                         FollowOn(s, length, budget, count)}
           first == [ok |-> TRUE, at |-> 0, windows |-> << >>]
           Steps(after) == after = [n \in 0 .. length |->
               IF n = 0 THEN [ok |-> TRUE, at |-> 0, windows |-> << >>]
               ELSE NextWindow(after[n - 1], length, blank, budget, count)]
           after == CHOOSE after : Steps(after)
           turn == [x \in States \X (1 .. length) |->
                       NextWindow(x[1], length, blank, budget, count)]
           Good == {x \in (0 .. length) \X States :
                       x[2].ok => x[2].at = length \/ x[2].at >= x[1]}
<1>1. first \in States
  <2> DEFINE Window == [from : 0 .. length, to : 0 .. length]
  <2>1. 0 \in 0 .. length /\ TRUE \in BOOLEAN
    OBVIOUS
  <2> HIDE DEF Window
  <2>2. << >> \in Seq(Window) /\ Len(<< >>) = 0
    OBVIOUS
  <2>3. first \in [ok : BOOLEAN, at : 0 .. length, windows : Seq(Window)]
    BY <2>1, <2>2
  <2>4. first.at = 0 /\ first.windows = << >>
    OBVIOUS
  <2> HIDE DEF first
  <2>5. FollowOn(first, length, budget, count)
    BY <2>2, <2>3, <2>4 DEF FollowOn, Window
  <2> QED
    BY <2>3, <2>5 DEF Window
<1>2. \A s \in States :
         LET next == NextWindow(s, length, blank, budget, count)
         IN  /\ next \in States
             /\ next.ok => /\ s.ok
                           /\ next.at = length \/ next.at > s.at
  <2> TAKE s \in States
  <2>1. PICK next : next = NextWindow(s, length, blank, budget, count)
    OBVIOUS
  <2>2. /\ FollowOn(next, length, budget, count)
        /\ next.ok => /\ s.ok
                      /\ next.at = length \/ next.at > s.at
    BY <2>1, NextWindowHolds
  <2> QED
    BY <2>1, <2>2 DEF FollowOn
<1>3. \A s \in States : FollowOn(s, length, budget, count) /\ s.at \in 0 .. length
  OBVIOUS
<1> HIDE DEF States
<1>4. turn \in [States \X (1 .. length) -> States]
  <2>1. \A x \in States \X (1 .. length) : x[1] \in States
    OBVIOUS
  <2> QED
    BY <1>2, <2>1
<1> HIDE DEF turn
<1>5. HasRun(States, first, length, turn)
  <2> HIDE DEF first
  <2> QED
    BY <1>1, <1>4, LoopEnds
<1>6. PICK run \in [0 .. length -> States] :
         run[0] = first /\ \A i \in 1 .. length : run[i] = turn[<<run[i - 1], i>>]
  BY <1>5 DEF HasRun
<1>7. \A i \in 1 .. length : run[i] = NextWindow(run[i - 1], length, blank, budget, count)
  <2> TAKE i \in 1 .. length
  <2>1. i - 1 \in 0 .. length
    OBVIOUS
  <2>2. <<run[i - 1], i>> \in States \X (1 .. length)
    BY <1>6, <2>1
  <2>3. turn[<<run[i - 1], i>>] = NextWindow(run[i - 1], length, blank, budget, count)
    BY <2>2 DEF turn
  <2> QED
    BY <1>6, <2>3
<1>8. Steps(run)
  <2>1. \A i \in 0 .. length : i = 0 \/ i \in 1 .. length
    OBVIOUS
  <2>2. \A i \in 0 .. length : run[i] =
           IF i = 0 THEN first ELSE NextWindow(run[i - 1], length, blank, budget, count)
    <3> HIDE DEF first
    <3> QED
      BY <1>6, <1>7, <2>1
  <2>3. run = [i \in 0 .. length |-> run[i]]
    BY <1>6
  <2> QED
    BY <2>2, <2>3
<1>9. Steps(after)
  BY <1>8, Zenon
<1>10. SplitText(length, blank, budget, count) =
           IF after[length].ok THEN {after[length].windows} ELSE None
  BY DEF SplitText
<1>11. /\ after[0] = first
       /\ \A i \in 1 .. length : after[i] = NextWindow(after[i - 1], length, blank, budget, count)
  <2> HIDE DEF after
  <2>1. 0 \in 0 .. length /\ \A i \in 1 .. length : i \in 0 .. length /\ i # 0
    OBVIOUS
  <2>2. \A i \in 0 .. length : after[i] =
           IF i = 0 THEN first ELSE NextWindow(after[i - 1], length, blank, budget, count)
    BY <1>9
  <2> HIDE DEF first
  <2> QED
    BY <2>1, <2>2
<1> HIDE DEF after
<1>12. <<0, after[0]>> \in Good
  <2>1. first.at = 0
    OBVIOUS
  <2> HIDE DEF first
  <2> QED
    BY <1>1, <1>11, <2>1
<1>13. \A i \in 1 .. length : <<i - 1, after[i - 1]>> \in Good => <<i, after[i]>> \in Good
  <2> TAKE i \in 1 .. length
  <2> HAVE <<i - 1, after[i - 1]>> \in Good
  <2>1. after[i - 1] \in States /\ (after[i - 1].ok =>
            after[i - 1].at = length \/ after[i - 1].at >= i - 1)
    OBVIOUS
  <2>2. PICK next \in States :
           /\ next = after[i]
           /\ next.ok => /\ after[i - 1].ok
                         /\ next.at = length \/ next.at > after[i - 1].at
    BY <1>2, <1>11, <2>1
  <2>3. next.at \in 0 .. length /\ after[i - 1].at \in 0 .. length
    BY <1>3, <2>1
  <2>4. next.ok => next.at = length \/ next.at >= i
    BY <2>1, <2>2, <2>3
  <2> QED
    BY <2>2, <2>4
<1>14. length \in 0 .. length
  OBVIOUS
<1>15. <<length, after[length]>> \in Good
  <2> HIDE DEF Good
  <2> QED
    BY <1>12, <1>13, <1>14, LoopKeeps
<1>16. PICK last \in States : last = after[length] /\ (last.ok => last.at = length)
  BY <1>3, <1>15
<1>17. ASSUME last.ok
       PROVE  LET windows == last.windows
              IN  /\ \A i \in DOMAIN windows :
                         /\ windows[i].from = IF i = 1 THEN 0 ELSE windows[i - 1].to
                         /\ windows[i].from < windows[i].to
                         /\ count[<<windows[i].from, windows[i].to>>] <= budget
                  /\ length > 0 => Last(windows).to = length
  <2>1. FollowOn(last, length, budget, count) /\ last.at = length
    BY <1>3, <1>16, <1>17
  <2>2. DOMAIN last.windows = 1 .. Len(last.windows) /\ Len(last.windows) \in Nat
    BY <2>1 DEF FollowOn
  <2>3. length > 0 => last.windows[Len(last.windows)].to = length
    BY <2>1 DEF FollowOn
  <2> QED
    BY <2>1, <2>2, <2>3 DEF FollowOn, Last
<1> QED
  BY <1>10, <1>16, <1>17 DEF SplitIsWhole, None

-----------------------------------------------------------------------------
(* What is fused. *)

(* The list holds members of S, none of them twice. *)
Distinct(list, S) ==
    list \in Seq(S) /\ \A i, j \in 1 .. Len(list) : list[i] = list[j] => i = j

LEMMA DistinctIsListed ==
    ASSUME NEW S, NEW list, Distinct(list, S)
    PROVE  /\ Lists(list, Range(list)) /\ Range(list) \subseteq S
           /\ \A c : c \in Range(list) <=> \E i \in 1 .. Len(list) : list[i] = c
<1>1. DOMAIN list = 1 .. Len(list) /\ Len(list) \in Nat /\ \A i \in 1 .. Len(list) : list[i] \in S
  BY DEF Distinct
<1>2. \A c : c \in Range(list) <=> \E i \in 1 .. Len(list) : list[i] = c
  BY <1>1 DEF Range
<1>3. list \in Seq(Range(list))
  <2>1. \A i \in 1 .. Len(list) : list[i] \in Range(list)
    BY <1>2
  <2>2. list = [i \in 1 .. Len(list) |-> list[i]]
    BY DEF Distinct
  <2> QED
    BY <1>1, <2>1, <2>2
<1> QED
  BY <1>1, <1>2, <1>3 DEF Lists, Distinct

LEMMA ListedIsDistinct ==
    ASSUME NEW S, NEW T, NEW list, Lists(list, S), S \subseteq T
    PROVE  Distinct(list, T)
<1>1. list \in Seq(T)
  BY DEF Lists
<1> QED
  BY <1>1 DEF Lists, Distinct

LEMMA TakenIsDistinct ==
    ASSUME NEW S, NEW list, Distinct(list, S), NEW n \in Nat
    PROVE  /\ Distinct(Take(list, n), S)
           /\ Len(Take(list, n)) = IF n <= Len(list) THEN n ELSE Len(list)
           /\ \A i \in 1 .. Len(Take(list, n)) : Take(list, n)[i] = list[i]
<1>1. list \in Seq(S) /\ Len(list) \in Nat
  BY DEF Distinct
<1> DEFINE taken == Take(list, n)
<1>2. /\ taken \in Seq(S) /\ Len(taken) = IF n <= Len(list) THEN n ELSE Len(list)
      /\ \A i \in 1 .. Len(taken) : taken[i] = list[i]
  BY <1>1, TakeIs
<1> HIDE DEF taken
<1>3. \A i \in 1 .. Len(taken) : i \in 1 .. Len(list)
  BY <1>1, <1>2
<1>4. Distinct(taken, S)
  BY <1>2, <1>3 DEF Distinct
<1> QED
  BY <1>2, <1>4 DEF taken

(* All that a fusion lists, before it is cut. *)
FusedOrder(lists, k, weights) ==
    LET chunks == Voted(lists)
        score == [c \in chunks |-> FusedScore(lists, weights, k, c)]
        before == {p \in chunks \X chunks :
                      score[p[1]] > score[p[2]] \/ (score[p[1]] = score[p[2]] /\ p[1] < p[2])}
    IN  Sorted(chunks, before)

(* The routes' lists are of chunks, of which there are finitely many, and
   their weights numbers. *)
RoutesList(lists, weights, C) ==
    /\ IsFiniteSet(C) /\ C \subseteq Nat
    /\ \A r \in DOMAIN lists : lists[r] \in Seq(C) /\ weights[r] \in Int

LEMMA ScoresAreNumbers ==
    ASSUME NEW C, NEW lists, NEW weights, RoutesList(lists, weights, C), NEW k \in Nat, NEW c
    PROVE  FusedScore(lists, weights, k, c) \in Int
<1> DEFINE common == Common(k, Cardinality(Voted(lists)))
           Vote(r) == IF r \in DOMAIN lists /\ c \in Range(lists[r])
                      THEN weights[r] * (common \div (k + RankIn(lists[r], c))) ELSE 0
<1>1. IsFiniteSet(Voted(lists))
  <2>1. Voted(lists) \subseteq C
    BY DEF Voted, Range, RoutesList
  <2> QED
    BY <2>1, FS_Subset DEF RoutesList
<1>2. common \in Nat
  BY <1>1, FS_CardinalityType, CommonIsNatural
<1> HIDE DEF common
<1>3. ASSUME NEW r \in DOMAIN lists, c \in Range(lists[r])
      PROVE  RankIn(lists[r], c) \in Nat /\ RankIn(lists[r], c) > 0
  <2> DEFINE hits == lists[r]
             seen == {hits[i] : i \in {j \in DOMAIN hits : \A m \in 1 .. (j - 1) : hits[m] # c}}
  <2>1. hits \in Seq(C) /\ DOMAIN hits = 1 .. Len(hits) /\ Len(hits) \in Nat
    BY DEF RoutesList
  <2>2. 1 \in DOMAIN hits
    <3>1. PICK i \in DOMAIN hits : hits[i] = c
      BY <1>3 DEF Range
    <3> QED
      BY <2>1, <3>1
  <2>3. \A m \in 1 .. (1 - 1) : hits[m] # c
    OBVIOUS
  <2>4. seen \subseteq C /\ hits[1] \in seen
    BY <2>1, <2>2, <2>3
  <2>5. RankIn(lists[r], c) = Cardinality(seen)
    BY DEF RankIn
  <2> HIDE DEF seen, hits
  <2>6. IsFiniteSet(seen)
    BY <2>4, FS_Subset DEF RoutesList
  <2>7. Cardinality(seen) \in Nat /\ Cardinality(seen) # 0
    BY <2>4, <2>6, FS_CardinalityType, FS_EmptySet
  <2> QED
    BY <2>5, <2>7
<1>4. \A r : Vote(r) \in Int
  <2> SUFFICES ASSUME NEW r \in DOMAIN lists, c \in Range(lists[r])
               PROVE  weights[r] * (common \div (k + RankIn(lists[r], c))) \in Int
    OBVIOUS
  <2>1. PICK d \in Nat : d = k + RankIn(lists[r], c) /\ d > 0
    BY <1>3
  <2>2. weights[r] \in Int
    BY DEF RoutesList
  <2> QED
    BY <1>2, <2>1, <2>2, SharesAreIntegers
<1>5. FusedScore(lists, weights, k, c) =
          Vote("dense_intent") + Vote("lexical_intent") + Vote("dense") + Vote("lexical")
          + Vote("identifier") + Vote("structured")
  BY DEF FusedScore, common
<1> HIDE DEF Vote
<1> QED
  BY <1>4, <1>5

LEMMA FusionLists ==
    ASSUME NEW C, NEW lists, NEW weights, RoutesList(lists, weights, C), NEW k \in Nat
    PROVE  /\ Lists(FusedOrder(lists, k, weights), Voted(lists))
           /\ Voted(lists) \subseteq C /\ IsFiniteSet(Voted(lists))
           /\ Cardinality(Voted(lists)) \in Nat
           /\ Len(FusedOrder(lists, k, weights)) = Cardinality(Voted(lists))
           /\ \A limit : FuseWeighted(lists, limit, k, weights) = Take(FusedOrder(lists, k, weights), limit)
<1> DEFINE chunks == Voted(lists)
           score == [c \in chunks |-> FusedScore(lists, weights, k, c)]
           before == {p \in chunks \X chunks :
                         score[p[1]] > score[p[2]] \/ (score[p[1]] = score[p[2]] /\ p[1] < p[2])}
<1>1. chunks \subseteq C
  BY DEF Voted, Range, RoutesList
<1>2. IsFiniteSet(chunks) /\ chunks \subseteq Nat /\ Cardinality(chunks) \in Nat
  BY <1>1, FS_Subset, FS_CardinalityType DEF RoutesList
<1>3. \A limit : FuseWeighted(lists, limit, k, weights) = Take(FusedOrder(lists, k, weights), limit)
  BY DEF FuseWeighted, FusedOrder
<1>4. FusedOrder(lists, k, weights) = Sorted(chunks, before)
  BY DEF FusedOrder
<1> HIDE DEF chunks
<1>5. \A c \in chunks : score[c] \in Int
  BY ScoresAreNumbers
<1> HIDE DEF score
<1>6. \A a, b \in chunks : <<a, b>> \in before <=>
         \/ score[a] > score[b]
         \/ score[a] = score[b] /\ a < b
  OBVIOUS
<1> HIDE DEF before
<1>7. IsOrder(before, chunks)
  <2>1. \A c \in chunks : c \in Int
    BY <1>2
  <2>2. \A a \in chunks : <<a, a>> \notin before
    BY <1>5, <1>6, <2>1
  <2>3. \A a, b, c \in chunks : <<a, b>> \in before /\ <<b, c>> \in before => <<a, c>> \in before
    BY <1>5, <1>6, <2>1
  <2>4. \A a, b \in chunks : a # b => <<a, b>> \in before \/ <<b, a>> \in before
    BY <1>5, <1>6, <2>1
  <2> QED
    BY <2>2, <2>3, <2>4 DEF IsOrder
<1>8. Lists(Sorted(chunks, before), chunks) /\ Len(Sorted(chunks, before)) = Cardinality(chunks)
  BY <1>2, <1>7, SortedHolds
<1> QED
  BY <1>1, <1>2, <1>3, <1>4, <1>8 DEF chunks

LEMMA PlacesAreListed ==
    ASSUME NEW S, NEW list, Distinct(list, S), NEW places \in SUBSET (1 .. Len(list))
    PROVE  /\ Distinct(AtPlaces(list, places), S)
           /\ Len(AtPlaces(list, places)) = Cardinality(places) /\ Cardinality(places) \in Nat
           /\ \A i \in 1 .. Cardinality(places) : \E p \in places : AtPlaces(list, places)[i] = list[p]
           /\ \A p \in places : \E i \in 1 .. Cardinality(places) : AtPlaces(list, places)[i] = list[p]
<1> DEFINE before == {p \in places \X places : p[1] < p[2]}
           at == Sorted(places, before)
           n == Cardinality(places)
           picked == AtPlaces(list, places)
<1>1. list \in Seq(S) /\ Len(list) \in Nat /\ \A p \in places : p \in Nat /\ list[p] \in S
  BY DEF Distinct
<1>2. IsFiniteSet(places) /\ n \in Nat
  <2>1. IsFiniteSet(1 .. Len(list))
    BY <1>1, FS_Interval
  <2> QED
    BY <2>1, FS_Subset, FS_CardinalityType
<1>3. IsOrder(before, places)
  <2>1. \A p, q \in places : <<p, q>> \in before <=> p < q
    OBVIOUS
  <2> HIDE DEF before
  <2> QED
    BY <1>1, <2>1 DEF IsOrder
<1>4. Lists(at, places) /\ Len(at) = n
  <2> HIDE DEF before
  <2> QED
    BY <1>2, <1>3, SortedHolds
<1>5. picked = [i \in DOMAIN at |-> list[at[i]]]
  BY DEF AtPlaces
<1> HIDE DEF at, picked
<1>6. DOMAIN at = 1 .. n /\ \A i \in 1 .. n : at[i] \in places
  BY <1>4, PlacesListed
<1> HIDE DEF n
<1>7. picked = [i \in 1 .. n |-> list[at[i]]] /\ \A i \in 1 .. n : list[at[i]] \in S
  BY <1>1, <1>5, <1>6
<1>8. picked \in Seq(S) /\ Len(picked) = n /\ \A i \in 1 .. n : picked[i] = list[at[i]]
  BY <1>2, <1>7
<1>9. \A i, j \in 1 .. n : picked[i] = picked[j] => i = j
  <2> TAKE i, j \in 1 .. n
  <2> HAVE picked[i] = picked[j]
  <2>1. list[at[i]] = list[at[j]]
    BY <1>8
  <2>2. at[i] = at[j]
    BY <1>6, <2>1 DEF Distinct
  <2> QED
    BY <1>4, <2>2 DEF Lists
<1>10. \A p \in places : \E i \in 1 .. n : picked[i] = list[p]
  <2> TAKE p \in places
  <2>1. PICK i \in 1 .. n : at[i] = p
    BY <1>4 DEF Lists
  <2> QED
    BY <1>8, <2>1
<1>11. \A i \in 1 .. n : \E p \in places : picked[i] = list[p]
  BY <1>6, <1>8
<1> QED
  BY <1>2, <1>8, <1>9, <1>10, <1>11 DEF Distinct, n, picked

(* Every kept chunk is among those that go to the model: as many as were kept,
   and those added. *)
LEMMA KeptAreReranked ==
    ASSUME NEW S, NEW combined, Distinct(combined, S), NEW kept, IsFiniteSet(kept),
           \A c \in kept : \E i \in 1 .. Len(combined) : combined[i] = c,
           NEW depth \in Nat, Cardinality(kept) <= depth, NEW additions \in Nat, NEW room \in Int
    PROVE  LET set == RerankSet(kept, combined, depth, additions, room)
           IN  /\ set.added \in Nat /\ Distinct(set.fused, S)
               /\ \A c \in kept : \E i \in 1 .. Len(set.fused) :
                     set.fused[i] = c /\ i <= depth + set.added
<1> DEFINE places == DOMAIN combined
           others == {i \in places : i <= depth /\ combined[i] \notin kept}
           added == {i \in others : Cardinality({j \in others : j < i}) < additions}
           keeping == {i \in places : combined[i] \in kept}
           head == keeping \cup added
           left == Max({0, room - Cardinality(head)})
           first == AtPlaces(combined, head)
           rest == AtPlaces(combined, places \ head)
           fused == first \o Take(rest, left)
           set == RerankSet(kept, combined, depth, additions, room)
<1>1. places = 1 .. Len(combined) /\ Len(combined) \in Nat
  BY DEF Distinct
<1>2. set.fused = fused /\ set.added = Cardinality(added)
  BY DEF RerankSet
<1>3. /\ added \subseteq places /\ keeping \subseteq places /\ head \subseteq places
      /\ keeping \cap added = {} /\ \A i \in keeping : combined[i] \in kept
      /\ \A i \in places : combined[i] \in kept => i \in keeping
  OBVIOUS
<1> HIDE DEF added, keeping
<1>4. IsFiniteSet(places) /\ IsFiniteSet(added) /\ IsFiniteSet(keeping) /\ IsFiniteSet(head)
  <2>1. IsFiniteSet(1 .. Len(combined))
    BY <1>1, FS_Interval
  <2> QED
    BY <1>1, <1>3, <2>1, FS_Subset
<1>5. /\ Cardinality(added) \in Nat /\ Cardinality(keeping) \in Nat /\ Cardinality(kept) \in Nat
      /\ Cardinality(head) \in Nat
  BY <1>4, FS_CardinalityType
<1>6. Cardinality(head) <= depth + Cardinality(added)
  <2>1. Cardinality(keeping) <= Cardinality(kept)
    <3> DEFINE f == [i \in keeping |-> combined[i]]
    <3>1. \A i, j \in keeping : combined[i] = combined[j] => i = j
      BY <1>1, <1>3 DEF Distinct
    <3>2. f \in Injection(keeping, kept)
      BY <1>3, <3>1 DEF Injection, IsInjective
    <3> HIDE DEF f
    <3> QED
      BY <3>2, <1>4, FS_Injection
  <2>2. Cardinality(keeping \cup added) = Cardinality(keeping) + Cardinality(added) - Cardinality(keeping \cap added)
    BY <1>4, FS_Union
  <2>3. Cardinality(keeping \cap added) = 0
    BY <1>3, FS_EmptySet
  <2>4. Cardinality(head) = Cardinality(keeping) + Cardinality(added)
    BY <1>5, <2>2, <2>3
  <2> HIDE DEF head
  <2> QED
    BY <1>5, <2>1, <2>4
<1>7. left \in Nat
  <2>1. room - Cardinality(head) \in Int
    BY <1>5
  <2> HIDE DEF head
  <2>2. PICK over \in Int : over = room - Cardinality(head)
    BY <2>1
  <2> QED
    BY <2>2, GreatestOfTwo
<1> HIDE DEF left
<1>8. /\ Distinct(first, S) /\ Len(first) = Cardinality(head)
      /\ \A i \in 1 .. Len(first) : \E p \in head : first[i] = combined[p]
      /\ \A p \in head : \E i \in 1 .. Len(first) : first[i] = combined[p]
  <2>1. head \in SUBSET (1 .. Len(combined))
    BY <1>1, <1>3
  <2> HIDE DEF head
  <2> QED
    BY <2>1, PlacesAreListed
<1>9. /\ Distinct(rest, S)
      /\ \A i \in 1 .. Len(rest) : \E p \in places \ head : rest[i] = combined[p]
  <2>1. places \ head \in SUBSET (1 .. Len(combined))
    BY <1>1
  <2> HIDE DEF head, places
  <2>2. PICK behind \in SUBSET (1 .. Len(combined)) : behind = places \ head
    BY <2>1
  <2>3. /\ Distinct(AtPlaces(combined, behind), S)
        /\ Len(AtPlaces(combined, behind)) = Cardinality(behind)
        /\ \A i \in 1 .. Cardinality(behind) : \E p \in behind :
              AtPlaces(combined, behind)[i] = combined[p]
    BY PlacesAreListed
  <2>4. rest = AtPlaces(combined, behind)
    BY <2>2
  <2> HIDE DEF rest
  <2> QED
    BY <2>2, <2>3, <2>4
<1> HIDE DEF first, rest
<1>10. PICK tail : tail = Take(rest, left)
  OBVIOUS
<1>11. /\ Distinct(tail, S) /\ Len(tail) \in Nat
       /\ \A i \in 1 .. Len(tail) : \E p \in places \ head : tail[i] = combined[p]
  <2>1. /\ Distinct(tail, S) /\ Len(tail) = IF left <= Len(rest) THEN left ELSE Len(rest)
        /\ \A i \in 1 .. Len(tail) : tail[i] = rest[i]
    BY <1>7, <1>9, <1>10, TakenIsDistinct
  <2>2. Len(rest) \in Nat
    BY <1>9 DEF Distinct
  <2>3. \A i \in 1 .. Len(tail) : i \in 1 .. Len(rest)
    BY <1>7, <2>1, <2>2
  <2>4. Len(tail) \in Nat
    BY <1>7, <2>1, <2>2
  <2> HIDE DEF head, places
  <2> QED
    BY <1>9, <2>1, <2>3, <2>4
<1>12. \A i \in 1 .. Len(first) : \A j \in 1 .. Len(tail) : first[i] # tail[j]
  <2> TAKE i \in 1 .. Len(first)
  <2> TAKE j \in 1 .. Len(tail)
  <2>1. PICK p \in head : first[i] = combined[p]
    BY <1>8
  <2>2. PICK q \in places \ head : tail[j] = combined[q]
    BY <1>11
  <2>3. p # q /\ p \in 1 .. Len(combined) /\ q \in 1 .. Len(combined)
    BY <1>1, <1>3
  <2> QED
    BY <2>1, <2>2, <2>3 DEF Distinct
<1>13. /\ fused \in Seq(S) /\ Len(fused) = Len(first) + Len(tail) /\ Len(first) \in Nat
       /\ \A i \in 1 .. Len(first) : fused[i] = first[i]
       /\ \A i \in (Len(first) + 1) .. Len(fused) : fused[i] = tail[i - Len(first)]
  <2>1. first \in Seq(S) /\ tail \in Seq(S)
    BY <1>8, <1>11 DEF Distinct
  <2>2. fused = first \o tail
    BY <1>10
  <2> HIDE DEF fused
  <2> QED
    BY <2>1, <2>2
<1> HIDE DEF fused
<1>14. \A i, j \in 1 .. Len(fused) : fused[i] = fused[j] => i = j
  <2> TAKE i, j \in 1 .. Len(fused)
  <2>1. CASE i \in 1 .. Len(first) /\ j \in 1 .. Len(first)
    BY <1>8, <1>13, <2>1 DEF Distinct
  <2>2. CASE i \in 1 .. Len(first) /\ j \in (Len(first) + 1) .. Len(fused)
    <3>1. j - Len(first) \in 1 .. Len(tail)
      BY <1>11, <1>13, <2>2
    <3> QED
      BY <1>12, <1>13, <2>2, <3>1
  <2>3. CASE j \in 1 .. Len(first) /\ i \in (Len(first) + 1) .. Len(fused)
    <3>1. i - Len(first) \in 1 .. Len(tail)
      BY <1>11, <1>13, <2>3
    <3> QED
      BY <1>12, <1>13, <2>3, <3>1
  <2>4. CASE i \in (Len(first) + 1) .. Len(fused) /\ j \in (Len(first) + 1) .. Len(fused)
    <3>1. i - Len(first) \in 1 .. Len(tail) /\ j - Len(first) \in 1 .. Len(tail)
      BY <1>11, <1>13, <2>4
    <3>2. fused[i] = fused[j] => i - Len(first) = j - Len(first)
      BY <1>11, <1>13, <2>4, <3>1 DEF Distinct
    <3> QED
      BY <1>11, <1>13, <3>2
  <2> QED
    BY <1>11, <1>13, <2>1, <2>2, <2>3, <2>4
<1>15. \A c \in kept : \E i \in 1 .. Len(fused) : fused[i] = c /\ i <= depth + Cardinality(added)
  <2> TAKE c \in kept
  <2>1. PICK p \in places : combined[p] = c
    BY <1>1
  <2>2. p \in head
    BY <1>3, <2>1
  <2>3. PICK i \in 1 .. Len(first) : first[i] = c
    BY <1>8, <2>1, <2>2
  <2>4. Len(first) <= depth + Cardinality(added)
    BY <1>6, <1>8
  <2> QED
    BY SMTT(30), <1>5, <1>11, <1>13, <2>3, <2>4
<1>16. Distinct(fused, S)
  BY <1>13, <1>14 DEF Distinct
<1> QED
  BY <1>2, <1>5, <1>15, <1>16

-----------------------------------------------------------------------------
(* The rerank. *)

(* A score is an integer, or none. *)
IsScore(score) == score = None \/ \E x \in Int : score = {x}

(* A ranking: chunks of C with their scores, none of them twice. *)
Ranked(list, C) ==
    /\ \E n \in Nat : DOMAIN list = 1 .. n
    /\ \A p \in DOMAIN list : list[p].id \in C /\ IsScore(list[p].score)
    /\ \A p, q \in DOMAIN list : list[p].id = list[q].id => p = q

LEMMA TheOne == \A x : The({x}) = x
  BY DEF The

LEMMA GreatestOfFinite ==
    ASSUME NEW S \in SUBSET Int, S # {}, IsFiniteSet(S)
    PROVE  Max(S) \in S /\ \A x \in S : Max(S) >= x
<1> DEFINE before == {p \in S \X S : p[1] > p[2]}
           list == Sorted(S, before)
           n == Cardinality(S)
<1>1. n \in Nat /\ n # 0
  BY FS_CardinalityType, FS_EmptySet
<1>2. \A a, b \in S : <<a, b>> \in before <=> a > b
  OBVIOUS
<1> HIDE DEF before
<1>3. IsOrder(before, S)
  BY <1>2 DEF IsOrder
<1>4. /\ Lists(list, S) /\ Len(list) = n
      /\ \A i, j \in 1 .. n : i < j => <<list[i], list[j]>> \in before
  BY <1>3, SortedHolds
<1> HIDE DEF list, n
<1>5. 1 \in 1 .. n /\ list[1] \in S
  BY <1>1, <1>4, PlacesListed
<1>6. \A x \in S : list[1] >= x
  <2> TAKE x \in S
  <2>1. PICK i \in 1 .. n : list[i] = x
    BY <1>4 DEF Lists
  <2>2. CASE i = 1
    BY <1>5, <2>1, <2>2
  <2>3. CASE i # 1
    <3>1. <<list[1], list[i]>> \in before
      BY <1>1, <1>4, <1>5, <2>3
    <3>2. list[1] > x
      BY <1>2, <1>5, <2>1, <3>1
    <3>3. list[1] \in Int /\ x \in Int
      BY <1>5
    <3> QED
      BY <3>2, <3>3
  <2> QED
    BY <2>2, <2>3
<1>7. \E y \in S : \A x \in S : y >= x
  BY <1>5, <1>6
<1> QED
  BY <1>7, Zenon DEF Max

LEMMA TopIsGreatest ==
    ASSUME NEW C, NEW list, Ranked(list, C)
    PROVE  /\ IsScore(TopRerankScore(list))
           /\ \A p \in DOMAIN list : list[p].score # None =>
                 TopRerankScore(list) # None /\ The(TopRerankScore(list)) >= The(list[p].score)
           /\ TopRerankScore(list) # None =>
                 \E p \in DOMAIN list : list[p].score = TopRerankScore(list)
<1> DEFINE U == UNION {list[p].score : p \in DOMAIN list}
           scored == {p \in DOMAIN list : list[p].score # None}
<1>1. \A p \in scored : \E x \in Int : list[p].score = {x}
  BY DEF Ranked, IsScore
<1>2. \A u : u \in U <=> \E p \in scored : list[p].score = {u}
  <2>1. \A u : u \in U <=> \E p \in DOMAIN list : u \in list[p].score
    OBVIOUS
  <2>2. \A p \in DOMAIN list : p \in scored \/ list[p].score = {}
    BY DEF None
  <2> HIDE DEF U
  <2> QED
    BY <1>1, <2>1, <2>2
<1> HIDE DEF U
<1>3. U \subseteq Int
  <2>1. \A u \in U : u \in Int
    <3> TAKE u \in U
    <3>1. PICK p \in scored : list[p].score = {u}
      BY <1>2
    <3>2. PICK x \in Int : list[p].score = {x}
      BY <1>1
    <3> QED
      BY <3>1, <3>2
  <2> QED
    BY <2>1
<1>4. IsFiniteSet(U)
  <2>1. PICK n \in Nat : DOMAIN list = 1 .. n
    BY DEF Ranked
  <2>2. IsFiniteSet(scored)
    <3>1. IsFiniteSet(1 .. n)
      BY FS_Interval
    <3> QED
      BY <2>1, <3>1, FS_Subset
  <2> DEFINE f == [p \in scored |-> The(list[p].score)]
  <2>3. \A p \in scored : list[p].score = {f[p]}
    BY <1>1, TheOne
  <2>4. \A p \in scored : f[p] \in U
    <3> HIDE DEF f, scored
    <3> QED
      BY <1>2, <2>3
  <2>5. f \in [scored -> U]
    BY <2>4
  <2>6. \A u \in U : \E p \in scored : f[p] = u
    <3> TAKE u \in U
    <3>1. PICK p \in scored : list[p].score = {u}
      BY <1>2
    <3>2. {f[p]} = {u}
      BY <2>3, <3>1
    <3> QED
      BY <3>2
  <2>7. f \in Surjection(scored, U)
    BY <2>5, <2>6 DEF Surjection
  <2> HIDE DEF f
  <2> QED
    BY <2>2, <2>7, FS_Surjection
<1>5. TopRerankScore(list) = BestScore(U)
  BY DEF TopRerankScore, U
<1>6. CASE U = {}
  <2>1. TopRerankScore(list) = None
    BY <1>5, <1>6 DEF BestScore
  <2>2. \A p \in DOMAIN list : list[p].score = None
    BY <1>1, <1>2, <1>6
  <2> QED
    BY <2>1, <2>2 DEF IsScore
<1>7. CASE U # {}
  <2>1. PICK m \in U : m = Max(U) /\ \A u \in U : m >= u
    BY <1>3, <1>4, <1>7, GreatestOfFinite
  <2>2. TopRerankScore(list) = {m} /\ The(TopRerankScore(list)) = m
    BY <1>5, <1>7, <2>1, TheOne DEF BestScore
  <2>3. TopRerankScore(list) # None
    BY <2>2 DEF None
  <2>4. m \in Int
    BY <1>3
  <2>5. \A p \in DOMAIN list : list[p].score # None => m >= The(list[p].score)
    <3> TAKE p \in DOMAIN list
    <3> HAVE list[p].score # None
    <3>1. PICK x \in Int : list[p].score = {x}
      BY <1>1
    <3>2. x \in U
      BY <1>2, <3>1
    <3> QED
      BY <2>1, <3>1, <3>2, TheOne
  <2>6. \E p \in DOMAIN list : list[p].score = {m}
    BY <1>2
  <2> QED
    BY <2>2, <2>3, <2>4, <2>5, <2>6 DEF IsScore
<1> QED
  BY <1>6, <1>7

(* Whoever keeps every score has a top that is no worse. *)
LEMMA TopIsNoWorse ==
    ASSUME NEW C, NEW before, Ranked(before, C), NEW after, Ranked(after, C),
           TopRerankScore(before) # None,
           \A p \in DOMAIN before : before[p].score # None =>
               \E q \in DOMAIN after : after[q].score = before[p].score
    PROVE  /\ TopRerankScore(after) # None
           /\ The(TopRerankScore(after)) >= The(TopRerankScore(before))
<1>1. PICK p \in DOMAIN before : before[p].score = TopRerankScore(before)
  BY TopIsGreatest
<1>2. PICK q \in DOMAIN after : after[q].score = before[p].score
  BY <1>1
<1>3. after[q].score # None
  BY <1>1, <1>2
<1>4. /\ TopRerankScore(after) # None
      /\ The(TopRerankScore(after)) >= The(after[q].score)
  BY <1>3, TopIsGreatest
<1> QED
  BY <1>1, <1>2, <1>4

LEMMA ScoredFirst ==
    ASSUME NEW n \in Nat, NEW scores, DOMAIN scores = 1 .. n,
           \A i \in 1 .. n : IsScore(scores[i])
    PROVE  Lists(ByScoreThenFused(scores), 1 .. n) /\ Len(ByScoreThenFused(scores)) = n
<1> DEFINE Before(i, j) ==
               IF (scores[i] = None) # (scores[j] = None) THEN scores[j] = None
               ELSE IF scores[i] # scores[j] THEN The(scores[i]) > The(scores[j])
               ELSE i < j
           before == {p \in (DOMAIN scores) \X (DOMAIN scores) : Before(p[1], p[2])}
<1>1. ByScoreThenFused(scores) = Sorted(DOMAIN scores, before)
  BY DEF ByScoreThenFused
<1>2. \A i, j \in 1 .. n : <<i, j>> \in before <=> Before(i, j)
  OBVIOUS
<1>3. \A i \in 1 .. n : scores[i] # None => The(scores[i]) \in Int /\ scores[i] = {The(scores[i])}
  BY TheOne DEF IsScore
<1> HIDE DEF before
<1>4. \A i \in 1 .. n : <<i, i>> \notin before
  BY <1>2
<1>5. \A i, j \in 1 .. n : i # j => <<i, j>> \in before \/ <<j, i>> \in before
  <2> TAKE i, j \in 1 .. n
  <2> HAVE i # j
  <2>1. scores[i] # None /\ scores[j] # None /\ scores[i] # scores[j] =>
            The(scores[i]) > The(scores[j]) \/ The(scores[j]) > The(scores[i])
    <3> SUFFICES ASSUME scores[i] # None, scores[j] # None, scores[i] # scores[j]
                 PROVE  The(scores[i]) > The(scores[j]) \/ The(scores[j]) > The(scores[i])
      OBVIOUS
    <3>1. The(scores[i]) # The(scores[j])
      BY <1>3
    <3>2. The(scores[i]) \in Int /\ The(scores[j]) \in Int
      BY <1>3
    <3> QED
      BY <3>1, <3>2
  <2> QED
    BY <1>2, <2>1
<1>6. \A i, j, k \in 1 .. n : <<i, j>> \in before /\ <<j, k>> \in before => <<i, k>> \in before
  <2> TAKE i, j, k \in 1 .. n
  <2> HAVE <<i, j>> \in before /\ <<j, k>> \in before
  <2>1. Before(i, j) /\ Before(j, k)
    BY <1>2
  <2>2. Before(i, k)
    <3>1. CASE scores[i] = None \/ scores[j] = None \/ scores[k] = None
      BY <2>1, <3>1
    <3>2. CASE scores[i] # None /\ scores[j] # None /\ scores[k] # None
      <4>1. /\ The(scores[i]) \in Int /\ The(scores[j]) \in Int /\ The(scores[k]) \in Int
            /\ scores[i] # scores[j] => The(scores[i]) # The(scores[j])
            /\ scores[j] # scores[k] => The(scores[j]) # The(scores[k])
            /\ scores[i] # scores[k] => The(scores[i]) # The(scores[k])
        BY <1>3, <3>2
      <4> QED
        BY <2>1, <3>2, <4>1
    <3> QED
      BY <3>1, <3>2
  <2> QED
    BY <1>2, <2>2
<1>7. IsOrder(before, 1 .. n)
  BY <1>4, <1>5, <1>6 DEF IsOrder
<1>8. IsFiniteSet(1 .. n) /\ Cardinality(1 .. n) = n
  BY FS_Interval
<1> QED
  BY <1>1, <1>7, <1>8, SortedHolds

(* The windows' scores of each chunk of C, for the model that gives them. *)
ModelScores(model, C) == \A c \in C : IsFiniteSet(model[c]) /\ model[c] \subseteq Int

(* What a rerank made lists every candidate; it scores only those down to the
   head, and if it succeeds, those of them with a known score keep it. *)
Reranks(made, C, candidates, head, known) ==
    /\ Ranked(made.ranked, C) /\ DOMAIN made.ranked = 1 .. Len(candidates)
    /\ \A c : (\E i \in 1 .. Len(candidates) : candidates[i] = c) <=>
              \E p \in DOMAIN made.ranked : made.ranked[p].id = c
    /\ \A p \in DOMAIN made.ranked : made.ranked[p].score # None =>
          /\ made.ok
          /\ \E i \in 1 .. Len(candidates) :
                i <= head /\ candidates[i] = made.ranked[p].id
    /\ made.ok => \A i \in 1 .. Len(candidates) :
          i <= head /\ candidates[i] \in DOMAIN known =>
              \E p \in DOMAIN made.ranked :
                 /\ made.ranked[p].id = candidates[i]
                 /\ made.ranked[p].score = {known[candidates[i]]}

LEMMA RerankHolds ==
    ASSUME NEW C, NEW candidates, Distinct(candidates, C), NEW head \in Nat,
           NEW known, \A c \in DOMAIN known : known[c] \in Int,
           NEW model, ModelScores(model, C), NEW available
    PROVE  Reranks(RerankReusing(candidates, head, known, model, available), C, candidates, head, known)
<1> DEFINE n == Len(candidates)
           fresh == {i \in DOMAIN candidates : i <= head /\ candidates[i] \notin DOMAIN known}
           ok == candidates # << >> /\ head > 0 /\ (fresh = {} \/ available)
           scores == [i \in DOMAIN candidates |->
                         IF ~ok \/ i > head THEN None
                         ELSE IF i \in fresh THEN BestScore(model[candidates[i]])
                         ELSE {known[candidates[i]]}]
           order == ByScoreThenFused(scores)
           ranked == [p \in DOMAIN order |-> [id |-> candidates[order[p]], score |-> scores[order[p]]]]
           made == RerankReusing(candidates, head, known, model, available)
<1>1. made.ranked = ranked /\ made.ok = ok
  BY DEF RerankReusing
<1>2. n \in Nat /\ DOMAIN candidates = 1 .. n /\ \A i \in 1 .. n : candidates[i] \in C
  BY DEF Distinct
<1>3. \A i \in 1 .. n : i \in fresh <=> i <= head /\ candidates[i] \notin DOMAIN known
  BY <1>2
<1> HIDE DEF ok, fresh
<1>4. DOMAIN scores = 1 .. n
  BY <1>2
<1>5. \A i \in 1 .. n : scores[i] =
         IF ~ok \/ i > head THEN None
         ELSE IF i \in fresh THEN BestScore(model[candidates[i]])
         ELSE {known[candidates[i]]}
  BY <1>2
<1>6. \A i \in 1 .. n : IsScore(scores[i])
  <2> HIDE DEF scores
  <2> TAKE i \in 1 .. n
  <2>1. IsScore(None)
    BY DEF IsScore
  <2>2. IsScore(BestScore(model[candidates[i]]))
    <3>1. candidates[i] \in C
      BY <1>2
    <3>2. PICK S : S = model[candidates[i]]
      OBVIOUS
    <3>3. IsFiniteSet(S) /\ S \in SUBSET Int
      BY <3>1, <3>2 DEF ModelScores
    <3>4. S # {} => Max(S) \in Int
      BY <3>3, GreatestOfFinite
    <3>5. IsScore(BestScore(S))
      BY <3>4 DEF IsScore, BestScore
    <3> QED
      BY <3>2, <3>5
  <2>3. candidates[i] \in DOMAIN known => IsScore({known[candidates[i]]})
    BY DEF IsScore
  <2>4. ~ (~ok \/ i > head) /\ i \notin fresh => candidates[i] \in DOMAIN known
    BY <1>2, <1>3
  <2> QED
    BY <1>5, <2>1, <2>2, <2>3, <2>4
<1> HIDE DEF scores
<1>7. Lists(order, 1 .. n) /\ Len(order) = n
  BY <1>2, <1>4, <1>6, ScoredFirst
<1> HIDE DEF order
<1>8. DOMAIN order = 1 .. n /\ \A p \in 1 .. n : order[p] \in 1 .. n
  BY <1>7, PlacesListed
<1>9. /\ DOMAIN ranked = 1 .. n
      /\ \A p \in 1 .. n : ranked[p].id = candidates[order[p]] /\ ranked[p].score = scores[order[p]]
  BY <1>8
<1> HIDE DEF ranked
<1>10. \A i \in 1 .. n : \E p \in 1 .. n : order[p] = i
  BY <1>7 DEF Lists
<1>11. Ranked(ranked, C)
  <2>1. \A p \in 1 .. n : ranked[p].id \in C /\ IsScore(ranked[p].score)
    BY <1>2, <1>6, <1>8, <1>9
  <2>2. \A p, q \in 1 .. n : ranked[p].id = ranked[q].id => p = q
    <3> TAKE p, q \in 1 .. n
    <3> HAVE ranked[p].id = ranked[q].id
    <3>1. candidates[order[p]] = candidates[order[q]]
      BY <1>9
    <3>2. order[p] = order[q]
      BY <1>8, <3>1 DEF Distinct
    <3> QED
      BY <1>7, <3>2 DEF Lists
  <2> QED
    BY <1>2, <1>9, <2>1, <2>2 DEF Ranked
<1>12. \A c : (\E i \in 1 .. n : candidates[i] = c) <=> \E p \in DOMAIN ranked : ranked[p].id = c
  <2> TAKE c
  <2>1. ASSUME NEW i \in 1 .. n, candidates[i] = c PROVE \E p \in DOMAIN ranked : ranked[p].id = c
    <3>1. PICK p \in 1 .. n : order[p] = i
      BY <1>10
    <3> QED
      BY <1>9, <2>1, <3>1
  <2>2. ASSUME NEW p \in DOMAIN ranked, ranked[p].id = c PROVE \E i \in 1 .. n : candidates[i] = c
    BY <1>8, <1>9, <2>2
  <2> QED
    BY <2>1, <2>2
<1>13. ASSUME NEW p \in DOMAIN ranked, ranked[p].score # None
       PROVE  ok /\ \E i \in 1 .. n : i <= head /\ candidates[i] = ranked[p].id
  <2>1. p \in 1 .. n /\ order[p] \in 1 .. n /\ scores[order[p]] # None
    BY <1>8, <1>9, <1>13
  <2>2. ok /\ ~ order[p] > head
    BY <1>5, <2>1
  <2>3. order[p] <= head
    BY <1>2, <2>1, <2>2
  <2> QED
    BY <1>9, <2>1, <2>2, <2>3
<1>14. ASSUME ok, NEW i \in 1 .. n, i <= head, candidates[i] \in DOMAIN known
       PROVE  \E p \in DOMAIN ranked :
                 /\ ranked[p].id = candidates[i]
                 /\ ranked[p].score = {known[candidates[i]]}
  <2>1. i \notin fresh /\ ~ i > head
    BY <1>2, <1>3, <1>14
  <2>2. scores[i] = {known[candidates[i]]}
    BY <1>5, <1>14, <2>1
  <2>3. PICK p \in 1 .. n : order[p] = i
    BY <1>10
  <2> QED
    BY <1>9, <2>2, <2>3
<1> HIDE DEF made
<1>15. made.ok => \A i \in 1 .. n :
          i <= head /\ candidates[i] \in DOMAIN known =>
              \E p \in DOMAIN ranked :
                 /\ ranked[p].id = candidates[i]
                 /\ ranked[p].score = {known[candidates[i]]}
  BY <1>1, <1>14
<1>16. Reranks(made, C, candidates, head, known)
  <2>1. Ranked(made.ranked, C) /\ DOMAIN made.ranked = 1 .. n
    BY <1>1, <1>9, <1>11
  <2>2. \A c : (\E i \in 1 .. n : candidates[i] = c) <=>
                \E p \in DOMAIN made.ranked : made.ranked[p].id = c
    BY <1>1, <1>12
  <2>3. \A p \in DOMAIN made.ranked : made.ranked[p].score # None =>
           /\ made.ok
           /\ \E i \in 1 .. n : i <= head /\ candidates[i] = made.ranked[p].id
    BY <1>1, <1>13
  <2>4. made.ok => \A i \in 1 .. n :
           i <= head /\ candidates[i] \in DOMAIN known =>
               \E p \in DOMAIN made.ranked :
                  /\ made.ranked[p].id = candidates[i]
                  /\ made.ranked[p].score = {known[candidates[i]]}
    BY <1>1, <1>15
  <2> QED
    BY <2>1, <2>2, <2>3, <2>4, Zenon DEF Reranks
<1> QED
  BY <1>16 DEF made

(* A ranking put in another order is one of the same entries. *)
SameEntries(final, ranked, C) ==
    /\ Ranked(final, C)
    /\ \A p \in DOMAIN final : \E q \in DOMAIN ranked : final[p] = ranked[q]
    /\ \A q \in DOMAIN ranked : \E p \in DOMAIN final : final[p] = ranked[q]

LEMMA ReorderedHolds ==
    ASSUME NEW C, NEW ranked, Ranked(ranked, C), NEW ids,
           ids = [p \in DOMAIN ranked |-> ranked[p].id],
           NEW order, Lists(order, Range(ids)), Len(order) = Len(ids)
    PROVE  SameEntries([p \in DOMAIN order |-> ranked[Position(ids, order[p])]], ranked, C)
<1> DEFINE final == [p \in DOMAIN order |-> ranked[Position(ids, order[p])]]
<1>1. PICK n \in Nat : DOMAIN ranked = 1 .. n
  BY DEF Ranked
<1>2. /\ DOMAIN ids = 1 .. n /\ \A p \in 1 .. n : ids[p] = ranked[p].id
      /\ \A p \in 1 .. n : ids[p] \in C
      /\ \A p, q \in 1 .. n : ids[p] = ids[q] => p = q
  BY <1>1 DEF Ranked
<1>3. ids \in Seq(C) /\ Len(ids) = n
  <2>1. ids = [p \in 1 .. n |-> ids[p]]
    BY <1>1
  <2> HIDE DEF final
  <2> QED
    BY <1>1, <1>2, <2>1
<1>4. Distinct(ids, C)
  BY <1>2, <1>3 DEF Distinct
<1>5. Lists(ids, Range(ids))
  BY <1>4, DistinctIsListed
<1>6. /\ DOMAIN order = 1 .. n /\ \A p \in 1 .. n : order[p] \in Range(ids)
      /\ \A p, q \in 1 .. n : order[p] = order[q] => p = q
      /\ \A c \in Range(ids) : \E p \in 1 .. n : order[p] = c
  BY <1>3, PlacesListed DEF Lists
<1>7. \A p \in 1 .. n : Position(ids, order[p]) \in 1 .. n /\ ids[Position(ids, order[p])] = order[p]
  <2> TAKE p \in 1 .. n
  <2>1. order[p] \in Range(ids)
    BY <1>6
  <2>2. PICK S : S = Range(ids)
    OBVIOUS
  <2>3. Position(ids, order[p]) \in 1 .. Len(ids) /\ ids[Position(ids, order[p])] = order[p]
    BY <1>5, <2>1, <2>2, PositionIs
  <2> QED
    BY <1>3, <2>3
<1>8. DOMAIN final = 1 .. n /\ \A p \in 1 .. n : final[p] = ranked[Position(ids, order[p])]
  BY <1>6
<1> HIDE DEF final
<1>9. \A p \in DOMAIN final : \E q \in DOMAIN ranked : final[p] = ranked[q]
  BY <1>1, <1>7, <1>8
<1>10. \A q \in DOMAIN ranked : \E p \in DOMAIN final : final[p] = ranked[q]
  <2> TAKE q \in DOMAIN ranked
  <2>1. q \in 1 .. n /\ ids[q] \in Range(ids)
    BY <1>1, <1>2 DEF Range
  <2>2. PICK p \in 1 .. n : order[p] = ids[q]
    BY <1>6, <2>1
  <2>3. Position(ids, order[p]) = q
    <3>1. PICK r \in 1 .. n : r = Position(ids, order[p]) /\ ids[r] = order[p]
      BY <1>7
    <3>2. ids[r] = ids[q]
      BY <2>2, <3>1
    <3>3. r = q
      BY <1>2, <2>1, <3>2
    <3> QED
      BY <3>1, <3>3
  <2> QED
    BY <1>8, <2>2, <2>3
<1>11. \A p, q \in DOMAIN final : final[p].id = final[q].id => p = q
  <2> TAKE p, q \in DOMAIN final
  <2> HAVE final[p].id = final[q].id
  <2>1. final[p].id = order[p] /\ final[q].id = order[q] /\ p \in 1 .. n /\ q \in 1 .. n
    BY <1>2, <1>7, <1>8
  <2> QED
    BY <1>6, <2>1
<1>12. Ranked(final, C)
  BY <1>8, <1>9, <1>11 DEF Ranked
<1> QED
  BY <1>9, <1>10, <1>12 DEF final, SameEntries

-----------------------------------------------------------------------------
(* The pool of a pass. *)

(* The chunks a first pass kept: the depth first that the original routes
   list. *)
KeptFirst(original, weights, cfg) == Range(FuseWeighted(original, cfg.depth, cfg.k, weights))

LEMMA FirstAreKept ==
    ASSUME NEW C, NEW original, NEW weights, RoutesList(original, weights, C),
           NEW k \in Nat, NEW depth \in Nat, NEW size \in Nat
    PROVE  LET fused == FuseWeighted(original, size, k, weights)
               kept == Range(FuseWeighted(original, depth, k, weights))
           IN  /\ Distinct(fused, C) /\ Len(fused) \in Nat
               /\ \A i \in 1 .. Len(fused) : i <= depth => fused[i] \in kept
               /\ kept \subseteq Voted(original)
               /\ IsFiniteSet(kept) /\ Cardinality(kept) <= depth
<1> DEFINE all == FusedOrder(original, k, weights)
           fused == FuseWeighted(original, size, k, weights)
           list == FuseWeighted(original, depth, k, weights)
           kept == Range(list)
           voted == Voted(original)
<1>1. /\ Lists(all, voted) /\ voted \subseteq C
      /\ \A limit : FuseWeighted(original, limit, k, weights) = Take(all, limit)
  BY FusionLists
<1>2. fused = Take(all, size) /\ list = Take(all, depth)
  BY <1>1
<1> HIDE DEF all, fused, list, voted
<1>3. Distinct(all, voted) /\ Distinct(all, C)
  BY <1>1, ListedIsDistinct
<1>4. Len(all) \in Nat
  BY <1>3 DEF Distinct
<1>5. /\ Distinct(fused, C) /\ Len(fused) = IF size <= Len(all) THEN size ELSE Len(all)
      /\ \A i \in 1 .. Len(fused) : fused[i] = all[i]
  BY <1>2, <1>3, TakenIsDistinct
<1>6. /\ Distinct(list, voted) /\ Len(list) = IF depth <= Len(all) THEN depth ELSE Len(all)
      /\ \A i \in 1 .. Len(list) : list[i] = all[i]
  BY <1>2, <1>3, TakenIsDistinct
<1>7. /\ kept \subseteq voted /\ Lists(list, kept)
      /\ \A c : c \in kept <=> \E i \in 1 .. Len(list) : list[i] = c
  BY <1>6, DistinctIsListed
<1> HIDE DEF kept
<1>8. \A i \in 1 .. Len(fused) : i <= depth => fused[i] \in kept
  <2> TAKE i \in 1 .. Len(fused)
  <2> HAVE i <= depth
  <2>1. i \in 1 .. Len(list) /\ i \in 1 .. Len(fused)
    BY <1>4, <1>5, <1>6
  <2>2. fused[i] = list[i]
    BY <1>5, <1>6, <2>1
  <2> QED
    BY <1>7, <2>1, <2>2
<1>9. IsFiniteSet(kept) /\ Cardinality(kept) <= depth
  <2>1. Len(list) \in Nat /\ Len(list) <= depth /\ DOMAIN list = 1 .. Len(list)
    BY <1>4, <1>6, <1>7, PlacesListed
  <2>2. list \in Surjection(1 .. Len(list), kept)
    BY <1>7, <2>1, PlacesListed DEF Surjection, Lists
  <2>3. \A m \in Nat : IsFiniteSet(1 .. m) /\ Cardinality(1 .. m) = m
    BY FS_Interval
  <2>4. IsFiniteSet(1 .. Len(list)) /\ Cardinality(1 .. Len(list)) = Len(list)
    BY <2>1, <2>3
  <2>5. IsFiniteSet(kept) /\ Cardinality(kept) <= Cardinality(1 .. Len(list))
    BY <2>2, <2>4, FS_Surjection
  <2>6. Cardinality(kept) <= Len(list) /\ Cardinality(kept) \in Nat
    BY <2>4, <2>5, FS_CardinalityType
  <2> QED
    BY <2>1, <2>5, <2>6
<1>10. Len(fused) \in Nat
  BY <1>4, <1>5
<1> QED
  BY <1>5, <1>7, <1>8, <1>9, <1>10 DEF fused, kept, list, voted

(* A pool lists chunks once each.  Without an intent it begins with those that
   are kept; with one, they are all at the places that go to the model. *)
PoolKeeps(made, C, kept, depth, expanded) ==
    /\ made.added \in Nat /\ Distinct(made.fused, C)
    /\ ~ expanded =>
          /\ made.added = 0
          /\ \A i \in 1 .. Len(made.fused) : i <= depth => made.fused[i] \in kept
    /\ expanded => \A c \in kept : \E i \in 1 .. Len(made.fused) :
                      made.fused[i] = c /\ i <= depth + made.added

LEMMA PoolHolds ==
    ASSUME NEW C, NEW original, NEW intent, NEW weights,
           RoutesList(original, weights, C), RoutesList(intent, weights, C),
           NEW cfg, cfg.k \in Nat, cfg.depth \in Nat, cfg.pool \in Nat, cfg.additions \in Nat
    PROVE  PoolKeeps(Pool(original, intent, weights, cfg), C,
                     KeptFirst(original, weights, cfg), cfg.depth, DOMAIN intent # {})
<1> DEFINE kept == KeptFirst(original, weights, cfg)
           made == Pool(original, intent, weights, cfg)
<1>1. /\ Distinct(FuseWeighted(original, cfg.pool, cfg.k, weights), C)
      /\ \A i \in 1 .. Len(FuseWeighted(original, cfg.pool, cfg.k, weights)) :
            i <= cfg.depth => FuseWeighted(original, cfg.pool, cfg.k, weights)[i] \in kept
      /\ kept \subseteq Voted(original)
      /\ IsFiniteSet(kept) /\ Cardinality(kept) <= cfg.depth
  BY FirstAreKept DEF KeptFirst
<1>2. CASE DOMAIN intent = {}
  <2>1. made = [fused |-> FuseWeighted(original, cfg.pool, cfg.k, weights), added |-> 0, displaced |-> 0]
    BY <1>2 DEF Pool
  <2>2. made.fused = FuseWeighted(original, cfg.pool, cfg.k, weights) /\ made.added = 0
    BY <2>1
  <2> HIDE DEF made
  <2>3. PoolKeeps(made, C, kept, cfg.depth, DOMAIN intent # {})
    <3> HIDE DEF kept
    <3> QED
      BY <1>1, <1>2, <2>2 DEF PoolKeeps
  <2> QED
    BY <2>3 DEF made
<1>3. CASE DOMAIN intent # {}
  <2> DEFINE both == [r \in DOMAIN original \cup DOMAIN intent |->
                         IF r \in DOMAIN original THEN original[r] ELSE intent[r]]
             combined == FuseWeighted(both, Cardinality(Voted(both)), cfg.k, weights)
  <2>1. made = RerankSet(kept, combined, cfg.depth, cfg.additions, cfg.pool)
    BY <1>3 DEF Pool, KeptFirst
  <2>2. RoutesList(both, weights, C)
    BY DEF RoutesList
  <2>3. Voted(original) \subseteq Voted(both)
    BY DEF Voted
  <2> HIDE DEF both
  <2> DEFINE all == FusedOrder(both, cfg.k, weights)
             n == Cardinality(Voted(both))
  <2>4. /\ Lists(all, Voted(both)) /\ Voted(both) \subseteq C /\ Len(all) = n /\ n \in Nat
        /\ \A limit : FuseWeighted(both, limit, cfg.k, weights) = Take(all, limit)
    BY <2>2, FusionLists
  <2>5. combined = Take(all, n)
    BY <2>4
  <2> HIDE DEF all, combined, n
  <2>6. Distinct(all, C)
    BY <2>4, ListedIsDistinct
  <2>7. /\ Distinct(combined, C) /\ Len(combined) = n
        /\ \A i \in 1 .. Len(combined) : combined[i] = all[i]
    BY <2>4, <2>5, <2>6, TakenIsDistinct
  <2>8. \A c \in kept : \E i \in 1 .. Len(combined) : combined[i] = c
    <3> TAKE c \in kept
    <3>1. c \in Voted(both)
      BY <1>1, <2>3
    <3>2. PICK i \in 1 .. Len(all) : all[i] = c
      BY <2>4, <3>1 DEF Lists
    <3> QED
      BY <2>4, <2>7, <3>2
  <2>9. PICK depth \in Nat : depth = cfg.depth
    OBVIOUS
  <2>10. PICK additions \in Nat : additions = cfg.additions
    OBVIOUS
  <2>11. PICK room \in Int : room = cfg.pool
    OBVIOUS
  <2> HIDE DEF kept
  <2>12. LET set == RerankSet(kept, combined, depth, additions, room)
         IN  /\ set.added \in Nat /\ Distinct(set.fused, C)
             /\ \A c \in kept : \E i \in 1 .. Len(set.fused) :
                   set.fused[i] = c /\ i <= depth + set.added
    BY ZenonT(60), <1>1, <2>7, <2>8, <2>9, KeptAreReranked
  <2>13. made = RerankSet(kept, combined, depth, additions, room)
    BY <2>1, <2>9, <2>10, <2>11
  <2> HIDE DEF made
  <2>14. PoolKeeps(made, C, kept, cfg.depth, DOMAIN intent # {})
    BY <1>3, <2>9, <2>12, <2>13 DEF PoolKeeps
  <2> QED
    BY <2>14 DEF made, kept
<1> QED
  BY <1>2, <1>3

=============================================================================
