---------------------------- MODULE ListProofs ------------------------------
(***************************************************************************)
(* Lemmas about lists: what sorted(), a comprehension and sum() give, for  *)
(* any list and any keys.                                                  *)
(***************************************************************************)
EXTENDS FinancialRules, SequencesExt, FiniteSetTheorems, SequenceTheorems, TLAPS

\* A set of numbers that is not empty has a least one.
LEMMA LeastNumber ==
  ASSUME NEW T \in SUBSET Nat, T # {}
  PROVE  \E m \in T : \A k \in T : m <= k
<1>1. PICK n \in T : TRUE
  OBVIOUS
<1> DEFINE Upto == {0 .. k : k \in {k \in T : k <= n}}
           S == 0 .. n
<1>2. IsFiniteSet(S)
  BY FS_Interval
<1>3. Upto \subseteq FiniteSubsetsOf(S) /\ Upto # {}
  <2>1. FiniteSubsetsOf(S) = SUBSET S
    BY <1>2, FS_FiniteSubsetsOfFinite
  <2>2. ASSUME NEW k \in T, k <= n PROVE 0 .. k \subseteq S
    BY <2>2
  <2>3. 0 .. n \in Upto
    BY <1>1
  <2>4. QED
    BY <2>1, <2>2, <2>3
<1> HIDE DEF Upto
<1>4. PICK M \in Upto : \A U \in Upto : <<U, M>> \notin StrictSubsetOrdering(S)
  BY <1>3, FS_StrictSubsetOrderingWellFounded, WFMin
<1>5. PICK m \in T : m <= n /\ M = 0 .. m
  BY <1>4 DEF Upto
<1>6. ASSUME NEW k \in T PROVE m <= k
  <2> SUFFICES ASSUME k < m PROVE FALSE
    OBVIOUS
  <2>1. 0 .. k \in Upto /\ k <= n
    BY <1>1, <1>5 DEF Upto
  <2>2. 0 .. k \subseteq 0 .. m /\ 0 .. k # 0 .. m /\ 0 .. k \subseteq S /\ 0 .. m \subseteq S
    <3>1. m \in 0 .. m /\ m \notin 0 .. k
      OBVIOUS
    <3>2. QED
      BY <3>1, <1>5, <2>1
  <2>3. <<0 .. k, 0 .. m>> \in StrictSubsetOrdering(S)
    BY <2>2 DEF StrictSubsetOrdering
  <2>4. QED
    BY <1>4, <1>5, <2>1, <2>3
<1>7. QED
  BY <1>6

\* Induction up to a number, for a set instead of a predicate.
LEMMA UpTo ==
  ASSUME NEW n \in Nat, NEW T, 0 \in T, \A i \in 0 .. n - 1 : i \in T => i + 1 \in T
  PROVE  0 .. n \subseteq T
<1> DEFINE Missing == {i \in 0 .. n : i \notin T}
<1> SUFFICES ASSUME Missing # {} PROVE FALSE
  OBVIOUS
<1>1. Missing \in SUBSET Nat
  OBVIOUS
<1> HIDE DEF Missing
<1>2. PICK m \in Missing : \A k \in Missing : m <= k
  BY <1>1, LeastNumber
<1>3. m \in 0 .. n /\ m \notin T
  BY <1>2 DEF Missing
<1>4. m # 0 /\ m - 1 \in 0 .. n - 1
  BY <1>3
<1>5. m - 1 \in T
  <2>1. m - 1 \notin Missing
    BY <1>2, <1>3
  <2>2. m - 1 \in 0 .. n
    BY <1>4
  <2>3. QED
    BY <2>1, <2>2 DEF Missing
<1>6. QED
  BY <1>3, <1>4, <1>5

\* Counting up to a number.
LEMMA CountTo ==
  ASSUME NEW n \in Nat
  PROVE  IsFiniteSet(1 .. n) /\ Cardinality(1 .. n) = n
BY FS_Interval

\* What a function takes a finite set to is finite.
LEMMA ImageIsFinite ==
  ASSUME NEW S, IsFiniteSet(S), NEW f
  PROVE  IsFiniteSet({f[x] : x \in S})
<1> DEFINE T == {f[x] : x \in S}
           g == [x \in S |-> f[x]]
<1>1. g \in Surjection(S, T)
  BY DEF Surjection
<1> HIDE DEF g, T
<1>2. IsFiniteSet(T)
  BY <1>1, FS_Surjection
<1>3. QED
  BY <1>2 DEF T

-----------------------------------------------------------------------------
\* The place of a member among those that come before it counts up: the list of
\* the ranked places holds each of them once, in the order of the keys.
LEMMA RankedIs ==
  ASSUME NEW places \in SUBSET Int, IsFiniteSet(places),
         NEW key, \A i \in places : key[i] \in Int,
         NEW order, order = Ranked(places, key)
  PROVE  /\ Cardinality(places) \in Nat
         /\ DOMAIN order = 1 .. Cardinality(places)
         /\ \A m \in DOMAIN order : order[m] \in places
         /\ \A i \in places : \E m \in DOMAIN order : order[m] = i
         /\ \A a, b \in DOMAIN order : a < b => Before(order[a], order[b], key)
<1> DEFINE n == Cardinality(places)
           Below(i) == {j \in places : Before(j, i, key)}
           rank == [i \in places |-> Cardinality(Below(i))]
<1>1. n \in Nat
  BY FS_CardinalityType
<1> HIDE DEF n
<1>2. ASSUME NEW i \in places
      PROVE  /\ IsFiniteSet(Below(i))
             /\ rank[i] \in 0 .. n - 1
  <2>1. IsFiniteSet(Below(i)) /\ Cardinality(Below(i)) \in Nat
    BY FS_Subset, FS_CardinalityType
  <2>2. i \notin Below(i) /\ Below(i) \subseteq places
    BY DEF Before
  <2>3. Cardinality(Below(i)) <= n /\ Cardinality(Below(i)) # n
    BY <2>2, FS_Subset DEF n
  <2>4. QED
    BY <1>1, <2>1, <2>3
<1>3. ASSUME NEW i \in places, NEW j \in places, Before(i, j, key)
      PROVE  rank[i] < rank[j]
  <2>1. Below(i) \cup {i} \subseteq Below(j) /\ i \notin Below(i)
    <3>1. ASSUME NEW h \in places, Before(h, i, key) PROVE Before(h, j, key)
      <4>1. h \in Int /\ i \in Int /\ j \in Int /\ key[h] \in Int /\ key[i] \in Int /\ key[j] \in Int
        OBVIOUS
      <4>2. QED
        BY <1>3, <3>1, <4>1 DEF Before
    <3>2. ~Before(i, i, key)
      BY DEF Before
    <3>3. QED
      BY <1>3, <3>1, <3>2
  <2>2. Cardinality(Below(i) \cup {i}) = Cardinality(Below(i)) + 1
    BY <1>2, <2>1, FS_AddElement
  <2>3. Cardinality(Below(i) \cup {i}) <= Cardinality(Below(j))
    BY <1>2, <2>1, FS_Subset
  <2>4. QED
    BY <1>2, <2>2, <2>3
<1>4. \A i, j \in places : i = j \/ Before(i, j, key) \/ Before(j, i, key)
  BY DEF Before
<1>11. \A i \in places : rank[i] \in Int /\ rank[i] \in 0 .. n - 1
  BY <1>1, <1>2
<1>12. \A i, j \in places : Before(i, j, key) => rank[i] < rank[j]
  BY <1>3
<1>5. rank \in Injection(places, 0 .. n - 1)
  <2>1. rank \in [places -> 0 .. n - 1]
    BY <1>2
  <2>2. ASSUME NEW i \in places, NEW j \in places, rank[i] = rank[j] PROVE i = j
    <3>1. rank[i] \in Int
      BY <1>2
    <3>2. QED
      BY <1>3, <1>4, <2>2, <3>1
  <2> HIDE DEF rank
  <2>3. QED
    BY <2>1, <2>2 DEF Injection, IsInjective
<1>6. rank \in Surjection(places, 0 .. n - 1)
  <2>1. IsFiniteSet(0 .. n - 1) /\ Cardinality(0 .. n - 1) = n
    BY <1>1, FS_Interval
  <2> HIDE DEF rank
  <2>2. Cardinality(places) = Cardinality(0 .. n - 1)
    BY <2>1 DEF n
  <2>3. QED
    BY <1>5, <2>1, <2>2, FS_Injection
<1>7. order = [m \in 1 .. n |-> CHOOSE i \in places : Cardinality(Below(i)) = m - 1]
  BY DEF Ranked, n
<1>8. ASSUME NEW m \in 1 .. n PROVE order[m] \in places /\ rank[order[m]] = m - 1
  <2>1. \E i \in places : rank[i] = m - 1
    <3>1. m - 1 \in 0 .. n - 1
      BY <1>1
    <3> HIDE DEF rank
    <3>2. QED
      BY <1>6, <3>1 DEF Surjection
  <2>2. \E i \in places : Cardinality(Below(i)) = m - 1
    BY <2>1
  <2> HIDE DEF Below
  <2>3. QED
    BY <1>7, <2>2
<1>9. \A i \in places : \E m \in 1 .. n : order[m] = i
  <2> TAKE i \in places
  <2>1. rank[i] + 1 \in 1 .. n
    BY <1>1, <1>2
  <2>2. rank[order[rank[i] + 1]] = rank[i] /\ order[rank[i] + 1] \in places
    <3> HIDE DEF rank
    <3>1. rank[order[rank[i] + 1]] = (rank[i] + 1) - 1 /\ order[rank[i] + 1] \in places
      BY <1>8, <2>1
    <3>2. QED
      BY <1>11, <3>1
  <2>3. order[rank[i] + 1] = i
    <3> HIDE DEF rank
    <3>1. QED
      BY <1>5, <2>2 DEF Injection, IsInjective
  <2>4. QED
    BY <2>1, <2>3
<1>10. \A a, b \in 1 .. n : a < b => Before(order[a], order[b], key)
  <2> SUFFICES ASSUME NEW a \in 1 .. n, NEW b \in 1 .. n, a < b
               PROVE  Before(order[a], order[b], key)
    OBVIOUS
  <2> HIDE DEF rank
  <2>1. rank[order[a]] < rank[order[b]]
    <3>1. rank[order[a]] = a - 1 /\ rank[order[b]] = b - 1
      BY <1>8
    <3>2. QED
      BY <1>1, <3>1
  <2>2. order[a] \in places /\ order[b] \in places
    BY <1>8
  <2>3. rank[order[a]] \in Int /\ rank[order[b]] \in Int
    BY <1>11, <2>2
  <2>4. order[a] # order[b]
    BY <2>1, <2>3
  <2>5. Before(order[b], order[a], key) => rank[order[b]] < rank[order[a]]
    BY <1>12, <2>2
  <2>6. ~Before(order[b], order[a], key)
    BY <2>1, <2>3, <2>5
  <2>7. QED
    BY <1>4, <2>2, <2>4, <2>6
<1>13. QED
  BY <1>1, <1>7, <1>8, <1>9, <1>10 DEF n

\* A function on the numbers up to n is a list.
LEMMA ListOf ==
  ASSUME NEW n \in Nat, NEW S, NEW f \in [1 .. n -> S]
  PROVE  f \in Seq(S) /\ Len(f) = n /\ DOMAIN f = 1 .. n
OBVIOUS

\* The places of a list.
LEMMA PlacesOf ==
  ASSUME NEW S, NEW items \in Seq(S)
  PROVE  /\ Len(items) \in Nat /\ DOMAIN items = 1 .. Len(items)
         /\ DOMAIN items \in SUBSET Int
         /\ IsFiniteSet(DOMAIN items) /\ Cardinality(DOMAIN items) = Len(items)
         /\ \A i \in DOMAIN items : items[i] \in S
<1>1. Len(items) \in Nat /\ DOMAIN items = 1 .. Len(items)
  OBVIOUS
<1>2. IsFiniteSet(1 .. Len(items)) /\ Cardinality(1 .. Len(items)) = Len(items)
  BY <1>1, FS_Interval
<1>3. QED
  BY <1>1, <1>2

\* Of finitely many the first of the largest.
LEMMA FirstOfLargest ==
  ASSUME NEW places \in SUBSET Int, IsFiniteSet(places), places # {},
         NEW key, \A i \in places : key[i] \in Int
  PROVE  \E i \in places : \A j \in places :
           key[j] < key[i] \/ (key[j] = key[i] /\ i <= j)
<1> DEFINE minus == [i \in places |-> 0 - key[i]]
           order == Ranked(places, minus)
<1>1. /\ Cardinality(places) \in Nat
      /\ DOMAIN order = 1 .. Cardinality(places)
      /\ \A m \in DOMAIN order : order[m] \in places
      /\ \A i \in places : \E m \in DOMAIN order : order[m] = i
      /\ \A a, b \in DOMAIN order : a < b => Before(order[a], order[b], minus)
  <2>1. \A i \in places : minus[i] \in Int
    OBVIOUS
  <2> HIDE DEF minus
  <2>2. QED
    BY <2>1, RankedIs
<1> HIDE DEF order
<1>2. Cardinality(places) # 0
  BY FS_EmptySet
<1>3. 1 \in DOMAIN order /\ order[1] \in places
  BY <1>1, <1>2
<1>4. ASSUME NEW j \in places
      PROVE  key[j] < key[order[1]] \/ (key[j] = key[order[1]] /\ order[1] <= j)
  <2>1. PICK m \in DOMAIN order : order[m] = j
    BY <1>1
  <2>2. m = 1 \/ 1 < m
    BY <1>1
  <2>3. CASE m = 1
    BY <1>3, <2>1, <2>3
  <2>4. CASE 1 < m
    <3>1. Before(order[1], j, minus)
      BY <1>1, <1>3, <2>1, <2>4
    <3>2. 0 - key[order[1]] < 0 - key[j] \/ (0 - key[order[1]] = 0 - key[j] /\ order[1] < j)
      BY <1>3, <3>1 DEF Before
    <3>3. key[order[1]] \in Int /\ key[j] \in Int /\ order[1] \in Int /\ j \in Int
      BY <1>3
    <3>4. QED
      BY <3>2, <3>3
  <2>5. QED
    BY <2>2, <2>3, <2>4
<1>5. QED
  BY <1>3, <1>4

\* A sorted list holds each item of the list once, in the order of the keys.
LEMMA SortedIs ==
  ASSUME NEW S, NEW items \in Seq(S), NEW key, \A i \in DOMAIN items : key[i] \in Int,
         NEW order, order = Ranked(DOMAIN items, key)
  PROVE  /\ Sorted(items, key) \in Seq(S)
         /\ Len(Sorted(items, key)) = Len(items)
         /\ DOMAIN order = DOMAIN items
         /\ \A n \in DOMAIN items : /\ order[n] \in DOMAIN items
                                    /\ Sorted(items, key)[n] = items[order[n]]
         /\ \A i \in DOMAIN items : \E n \in DOMAIN items : order[n] = i
         /\ \A a, b \in DOMAIN items : a < b => Before(order[a], order[b], key)
<1>1. DOMAIN items = 1 .. Len(items) /\ Len(items) \in Nat
  OBVIOUS
<1>2. IsFiniteSet(DOMAIN items) /\ Cardinality(DOMAIN items) = Len(items)
  BY PlacesOf
<1>3. DOMAIN items \in SUBSET Int
  BY <1>1
<1>4. /\ DOMAIN order = DOMAIN items
      /\ \A n \in DOMAIN items : order[n] \in DOMAIN items
      /\ \A i \in DOMAIN items : \E n \in DOMAIN items : order[n] = i
      /\ \A a, b \in DOMAIN items : a < b => Before(order[a], order[b], key)
  <2> HIDE DEF Ranked
  <2> DEFINE D == DOMAIN items
  <2>1. /\ DOMAIN order = 1 .. Cardinality(D)
        /\ \A m \in DOMAIN order : order[m] \in D
        /\ \A i \in D : \E m \in DOMAIN order : order[m] = i
        /\ \A a, b \in DOMAIN order : a < b => Before(order[a], order[b], key)
    <3> HIDE DEF D
    <3>1. D \in SUBSET Int /\ IsFiniteSet(D) /\ (\A i \in D : key[i] \in Int)
           /\ order = Ranked(D, key)
      BY <1>2, <1>3 DEF D
    <3>2. QED
      BY <3>1, RankedIs
  <2>2. 1 .. Cardinality(D) = D
    BY <1>1, <1>2
  <2>3. QED
    BY <2>1, <2>2
<1>5. Sorted(items, key) = [n \in DOMAIN items |-> items[order[n]]]
  BY DEF Sorted
<1>6. QED
  BY <1>1, <1>4, <1>5

\* Sorting changes the order and nothing else.
LEMMA SortedHolds ==
  ASSUME NEW S, NEW items \in Seq(S), NEW key, \A i \in DOMAIN items : key[i] \in Int
  PROVE  ToSet(Sorted(items, key)) = ToSet(items)
<1> DEFINE sorted == Sorted(items, key)
           order == Ranked(DOMAIN items, key)
<1>1. /\ sorted \in Seq(S) /\ Len(sorted) = Len(items)
      /\ \A n \in DOMAIN items : order[n] \in DOMAIN items /\ sorted[n] = items[order[n]]
      /\ \A i \in DOMAIN items : \E n \in DOMAIN items : order[n] = i
  BY SortedIs
<1> HIDE DEF sorted, order
<1>2. DOMAIN sorted = DOMAIN items
  BY <1>1
<1>3. QED
  BY <1>1, <1>2 DEF sorted, ToSet

\* The places of the items that are kept, in their order.
KeptInOrder(kept, items, places, order) ==
  /\ Len(kept) = Cardinality(places) /\ DOMAIN order = DOMAIN kept
  /\ \A n \in DOMAIN order : order[n] \in places /\ kept[n] = items[order[n]]
  /\ \A i \in places : \E n \in DOMAIN order : order[n] = i
  /\ \A a, b \in DOMAIN order : a < b => order[a] < order[b]

\* What is kept of a list: as many items as places, in their order.
LEMMA KeptIs ==
  ASSUME NEW S, NEW items \in Seq(S), NEW places \in SUBSET (DOMAIN items),
         NEW kept, kept = Kept(items, places)
  PROVE  kept \in Seq(S) /\ \E order : KeptInOrder(kept, items, places, order)
<1>1. DOMAIN items = 1 .. Len(items) /\ Len(items) \in Nat
  OBVIOUS
<1>2. IsFiniteSet(places) /\ places \in SUBSET Int
  <2>1. IsFiniteSet(DOMAIN items)
    BY PlacesOf
  <2>2. QED
    BY <1>1, <2>1, FS_Subset
<1> DEFINE key == [i \in places |-> i]
           order == Ranked(places, key)
<1>3. \A i \in places : key[i] \in Int /\ key[i] = i
  BY <1>2
<1> HIDE DEF key
<1>5. /\ Cardinality(places) \in Nat
      /\ DOMAIN order = 1 .. Cardinality(places)
      /\ \A m \in DOMAIN order : order[m] \in places
      /\ \A i \in places : \E m \in DOMAIN order : order[m] = i
      /\ \A a, b \in DOMAIN order : a < b => Before(order[a], order[b], key)
  BY <1>2, <1>3, RankedIs
<1>6. \A a, b \in DOMAIN order : a < b => order[a] < order[b]
  BY <1>3, <1>5 DEF Before
<1>7. kept = [n \in 1 .. Cardinality(places) |-> items[order[n]]]
  BY DEF Kept, key
<1> HIDE DEF order
<1>8. kept \in Seq(S) /\ Len(kept) = Cardinality(places)
      /\ \A n \in DOMAIN order : kept[n] = items[order[n]]
  <2>1. \A n \in 1 .. Cardinality(places) : items[order[n]] \in S
    BY <1>1, <1>5
  <2>3. kept \in [1 .. Cardinality(places) -> S]
    BY <2>1, <1>7
  <2>4. kept \in Seq(S) /\ Len(kept) = Cardinality(places)
    BY <1>5, <2>3, ListOf
  <2>5. QED
    BY <1>5, <1>7, <2>4
<1>9. DOMAIN order = DOMAIN kept
  BY <1>5, <1>8
<1>10. KeptInOrder(kept, items, places, order)
  BY <1>5, <1>6, <1>8, <1>9 DEF KeptInOrder
<1>11. QED
  BY <1>8, <1>10

\* What is kept is what stood at the places.
LEMMA KeptHolds ==
  ASSUME NEW S, NEW items \in Seq(S), NEW places \in SUBSET (DOMAIN items)
  PROVE  ToSet(Kept(items, places)) = {items[i] : i \in places}
<1> DEFINE kept == Kept(items, places)
<1>1. kept \in Seq(S) /\ \E order : KeptInOrder(kept, items, places, order)
  BY KeptIs
<1>2. PICK order : KeptInOrder(kept, items, places, order)
  BY <1>1
<1> HIDE DEF kept
<1>3. QED
  BY <1>2 DEF ToSet, KeptInOrder, kept

\* A list of which everything is kept.
LEMMA KeptAll ==
  ASSUME NEW S, NEW items \in Seq(S)
  PROVE  Kept(items, DOMAIN items) = items
<1> DEFINE D == DOMAIN items
           key == [i \in D |-> i]
           order == Ranked(D, key)
<1>1. D = 1 .. Len(items) /\ Len(items) \in Nat
  OBVIOUS
<1>2. IsFiniteSet(D) /\ Cardinality(D) = Len(items)
  BY <1>1, FS_Interval
<1>3. ASSUME NEW i \in D PROVE Cardinality({j \in D : Before(j, i, key)}) = i - 1
  <2>1. {j \in D : Before(j, i, key)} = 1 .. i - 1
    BY <1>1 DEF Before
  <2>2. Cardinality(1 .. i - 1) = i - 1
    BY <1>1, FS_Interval
  <2>3. QED
    BY <2>1, <2>2
<1>4. ASSUME NEW n \in D PROVE order[n] = n
  <2> DEFINE Rank(i) == Cardinality({j \in D : Before(j, i, key)})
  <2>1. order[n] = CHOOSE i \in D : Rank(i) = n - 1
    BY <1>1, <1>2 DEF Ranked
  <2>2. \A i \in D : Rank(i) = i - 1
    BY <1>3
  <2> HIDE DEF Rank, order, D
  <2>3. Rank(n) = n - 1
    BY <2>2
  <2>4. order[n] \in D /\ Rank(order[n]) = n - 1
    BY <2>1, <2>3
  <2>5. order[n] - 1 = n - 1
    BY <2>2, <2>4
  <2>6. n \in Int /\ order[n] \in Int
    BY <1>1, <2>4
  <2>7. QED
    BY <2>5, <2>6
<1>5. Kept(items, D) = [n \in D |-> items[order[n]]]
  BY <1>1, <1>2 DEF Kept
<1> HIDE DEF order
<1>6. Kept(items, D) = [n \in D |-> items[n]]
  BY <1>4, <1>5
<1>7. QED
  BY <1>6

-----------------------------------------------------------------------------
\* The two places with the largest keys.
Largest(i, D, key) == i \in D /\ \A j \in D : j # i => key[j] < key[i]

\* The next after i.
SecondLargest(k, i, D, key) ==
  k \in D /\ k # i /\ \A j \in D : j # i /\ j # k => key[j] < key[k]

\* No two places have the same key.
Distinct(D, key) == \A i, j \in D : i # j => key[i] # key[j]

\* There is one place with the largest key.
LEMMA OneLargest ==
  ASSUME NEW D, NEW key, \A i \in D : key[i] \in Int, NEW i, NEW j,
         Largest(i, D, key), Largest(j, D, key)
  PROVE  i = j
<1>1. i \in D /\ j \in D /\ (i # j => key[i] < key[j] /\ key[j] < key[i])
  BY DEF Largest
<1>2. key[i] \in Int /\ key[j] \in Int
  BY <1>1
<1>3. QED
  BY <1>1, <1>2

\* There is one place with the next.
LEMMA OneSecondLargest ==
  ASSUME NEW D, NEW key, \A i \in D : key[i] \in Int, NEW first, NEW i, NEW j,
         SecondLargest(i, first, D, key), SecondLargest(j, first, D, key)
  PROVE  i = j
<1>1. i \in D /\ j \in D /\ (i # j => key[i] < key[j] /\ key[j] < key[i])
  BY DEF SecondLargest
<1>2. key[i] \in Int /\ key[j] \in Int
  BY <1>1
<1>3. QED
  BY <1>1, <1>2

\* They are at the end of a list that is sorted by the key.
LEMMA LastTwo ==
  ASSUME NEW S, NEW items \in Seq(S), items # <<>>, NEW key,
         \A i \in DOMAIN items : key[i] \in Int, Distinct(DOMAIN items, key),
         NEW sorted, sorted = Sorted(items, key)
  PROVE  \E i \in DOMAIN items :
           /\ Largest(i, DOMAIN items, key) /\ FromEnd(sorted, 1) = items[i]
           /\ Len(items) >= 2 => \E k \in DOMAIN items :
                SecondLargest(k, i, DOMAIN items, key) /\ FromEnd(sorted, 2) = items[k]
<1> DEFINE D == DOMAIN items
           n == Len(items)
           order == Ranked(DOMAIN items, key)
<1>2. /\ sorted \in Seq(S) /\ Len(sorted) = n
      /\ \A m \in D : order[m] \in D /\ sorted[m] = items[order[m]]
      /\ \A i \in D : \E m \in D : order[m] = i
      /\ \A a, b \in D : a < b => Before(order[a], order[b], key)
  <2> HIDE DEF D, n, order
  <2>1. /\ Sorted(items, key) \in Seq(S)
        /\ Len(Sorted(items, key)) = Len(items)
        /\ DOMAIN order = DOMAIN items
        /\ \A m \in DOMAIN items : /\ order[m] \in DOMAIN items
                                   /\ Sorted(items, key)[m] = items[order[m]]
        /\ \A i \in DOMAIN items : \E m \in DOMAIN items : order[m] = i
        /\ \A a, b \in DOMAIN items : a < b => Before(order[a], order[b], key)
    BY SortedIs DEF order
  <2>2. QED
    BY <2>1 DEF D, n
<1>3. D = 1 .. n /\ n \in Nat /\ n # 0
  BY PlacesOf
<1> HIDE DEF D, n, order
<1>4. \A a, b \in D : a < b => key[order[a]] < key[order[b]]
  <2> SUFFICES ASSUME NEW a \in D, NEW b \in D, a < b PROVE key[order[a]] < key[order[b]]
    OBVIOUS
  <2>1. Before(order[a], order[b], key) /\ order[a] \in D /\ order[b] \in D
    BY <1>2
  <2>2. QED
    BY <2>1 DEF Before, Distinct, D
<1>5. ASSUME NEW j \in D, NEW m \in D, order[m] # j, \A a \in D : a > m => order[a] # j
      PROVE  key[j] < key[order[m]]
  <2>1. PICK a \in D : order[a] = j
    BY <1>2
  <2>2. a < m
    BY <1>3, <1>5, <2>1
  <2>3. QED
    BY <1>4, <2>1, <2>2
<1>6. n \in D /\ order[n] \in D /\ FromEnd(sorted, 1) = items[order[n]]
  <2>1. n \in D
    BY <1>3
  <2>2. FromEnd(sorted, 1) = sorted[n]
    BY <1>2, <1>3 DEF FromEnd
  <2>3. QED
    BY <1>2, <2>1, <2>2
<1>7. Largest(order[n], D, key)
  <2>1. \A a \in D : ~(a > n)
    BY <1>3
  <2>2. QED
    BY <1>5, <1>6, <2>1 DEF Largest
<1>8. ASSUME n >= 2
      PROVE  \E k \in D : SecondLargest(k, order[n], D, key) /\ FromEnd(sorted, 2) = items[k]
  <2>1. n - 1 \in D /\ n - 1 < n /\ \A a \in D : a > n - 1 => a = n
    BY <1>3, <1>8
  <2>2. FromEnd(sorted, 2) = items[order[n - 1]] /\ order[n - 1] \in D
    <3>1. FromEnd(sorted, 2) = sorted[n - 1]
      BY <1>2, <1>3 DEF FromEnd
    <3>2. QED
      BY <1>2, <2>1, <3>1
  <2>3. order[n - 1] # order[n]
    <3>1. key[order[n - 1]] < key[order[n]] /\ key[order[n]] \in Int
      BY <1>4, <1>6, <2>1 DEF D
    <3>2. QED
      BY <3>1
  <2>4. SecondLargest(order[n - 1], order[n], D, key)
    BY <1>5, <2>1, <2>2, <2>3 DEF SecondLargest
  <2>5. QED
    BY <2>2, <2>4
<1>9. QED
  BY <1>6, <1>7, <1>8 DEF D, n

\* And at the start of one that is sorted by the key turned round.
LEMMA FirstTwo ==
  ASSUME NEW S, NEW items \in Seq(S), items # <<>>, NEW key,
         \A i \in DOMAIN items : key[i] \in Int, Distinct(DOMAIN items, key),
         NEW minus, \A i \in DOMAIN items : minus[i] = 0 - key[i],
         NEW sorted, sorted = Sorted(items, minus)
  PROVE  /\ Len(sorted) = Len(items)
         /\ \E i \in DOMAIN items :
              /\ Largest(i, DOMAIN items, key) /\ sorted[1] = items[i]
              /\ Len(items) >= 2 => \E k \in DOMAIN items :
                   SecondLargest(k, i, DOMAIN items, key) /\ sorted[2] = items[k]
<1> DEFINE D == DOMAIN items
           n == Len(items)
           order == Ranked(DOMAIN items, minus)
<1>2. /\ sorted \in Seq(S) /\ Len(sorted) = n
      /\ \A m \in D : order[m] \in D /\ sorted[m] = items[order[m]]
      /\ \A i \in D : \E m \in D : order[m] = i
      /\ \A a, b \in D : a < b => Before(order[a], order[b], minus)
  <2>1. \A i \in DOMAIN items : minus[i] \in Int
    OBVIOUS
  <2>2. QED
    BY <2>1, SortedIs
<1>3. D = 1 .. n /\ n \in Nat /\ n # 0
  BY PlacesOf
<1>10. \A i \in D : minus[i] = 0 - key[i] /\ key[i] \in Int
  OBVIOUS
<1> HIDE DEF D, n, order
<1>4. \A a, b \in D : a < b => key[order[b]] < key[order[a]]
  <2> SUFFICES ASSUME NEW a \in D, NEW b \in D, a < b PROVE key[order[b]] < key[order[a]]
    OBVIOUS
  <2>1. Before(order[a], order[b], minus) /\ order[a] \in D /\ order[b] \in D
    BY <1>2
  <2>2. minus[order[a]] < minus[order[b]]
         \/ (minus[order[a]] = minus[order[b]] /\ order[a] < order[b])
    BY <2>1 DEF Before
  <2>3. order[a] # order[b]
    <3>1. order[a] \in Int /\ minus[order[a]] \in Int
      BY <1>3, <1>10, <2>1
    <3>2. QED
      BY <2>2, <3>1
  <2>4. key[order[a]] # key[order[b]]
    BY <2>1, <2>3 DEF Distinct, D
  <2>5. minus[order[a]] = 0 - key[order[a]] /\ minus[order[b]] = 0 - key[order[b]]
          /\ key[order[a]] \in Int /\ key[order[b]] \in Int
    BY <1>10, <2>1
  <2>6. QED
    BY <2>2, <2>4, <2>5
<1>5. ASSUME NEW j \in D, NEW m \in D, order[m] # j, \A a \in D : a < m => order[a] # j
      PROVE  key[j] < key[order[m]]
  <2>1. PICK a \in D : order[a] = j
    BY <1>2
  <2>2. m < a
    BY <1>3, <1>5, <2>1
  <2>3. QED
    BY <1>4, <2>1, <2>2
<1>6. 1 \in D /\ order[1] \in D /\ sorted[1] = items[order[1]]
  BY <1>2, <1>3
<1>7. Largest(order[1], D, key)
  <2>1. \A a \in D : ~(a < 1)
    BY <1>3
  <2>2. QED
    BY <1>5, <1>6, <2>1 DEF Largest
<1>8. ASSUME n >= 2
      PROVE  \E k \in D : SecondLargest(k, order[1], D, key) /\ sorted[2] = items[k]
  <2>1. 2 \in D /\ 1 < 2 /\ \A a \in D : a < 2 => a = 1
    BY <1>3, <1>8
  <2>2. sorted[2] = items[order[2]] /\ order[2] \in D
    BY <1>2, <2>1
  <2>3. order[2] # order[1]
    <3>1. key[order[2]] < key[order[1]] /\ key[order[1]] \in Int
      BY <1>4, <1>6, <2>1 DEF D
    <3>2. QED
      BY <3>1
  <2>4. SecondLargest(order[2], order[1], D, key)
    BY <1>5, <2>1, <2>2, <2>3 DEF SecondLargest
  <2>5. QED
    BY <2>2, <2>4
<1>9. QED
  BY <1>2, <1>6, <1>7, <1>8 DEF D, n

-----------------------------------------------------------------------------
\* Each set's value is made of a member's and the value of the others.
IsFold(h, f, c, D) ==
  /\ h \in [SUBSET D -> Int]
  /\ \A T \in SUBSET D : h[T] = IF T = {} THEN 0 ELSE f[c[T]] + h[T \ {c[T]}]

\* A fold over sets has values: layer by layer, in the size of the set.
LEMMA FoldExists ==
  ASSUME NEW D, IsFiniteSet(D), NEW f \in [D -> Int], NEW c \in [SUBSET D -> D \cup {0}],
         \A T \in SUBSET D : T # {} => c[T] \in T
  PROVE  \E h : IsFold(h, f, c, D)
<1> DEFINE Layer(n) == {T \in SUBSET D : Cardinality(T) <= n}
           HasFold(n) == \E h \in [Layer(n) -> Int] : \A T \in Layer(n) :
                           h[T] = IF T = {} THEN 0 ELSE f[c[T]] + h[T \ {c[T]}]
           Reached == {n \in 0 .. Cardinality(D) : HasFold(n)}
<1>1. Cardinality(D) \in Nat
  BY FS_CardinalityType
<1>2. ASSUME NEW T \in SUBSET D
      PROVE  /\ Cardinality(T) \in Nat /\ Cardinality(T) <= Cardinality(D)
             /\ T = {} <=> Cardinality(T) = 0
             /\ T # {} => /\ c[T] \in T /\ c[T] \in D
                          /\ T \ {c[T]} \in SUBSET D
                          /\ Cardinality(T \ {c[T]}) = Cardinality(T) - 1
  <2>1. IsFiniteSet(T) /\ Cardinality(T) <= Cardinality(D)
    BY FS_Subset
  <2>2. Cardinality(T) \in Nat /\ (T = {} <=> Cardinality(T) = 0)
    BY <2>1, FS_CardinalityType, FS_EmptySet
  <2>3. T # {} => Cardinality(T \ {c[T]}) = Cardinality(T) - 1
    BY <2>1, FS_RemoveElement
  <2>4. QED
    BY <2>1, <2>2, <2>3
<1>3. 0 \in Reached
  <2> DEFINE h == [T \in Layer(0) |-> 0]
  <2>1. ASSUME NEW T \in Layer(0) PROVE T = {}
    <3>1. T \in SUBSET D /\ Cardinality(T) <= 0
      OBVIOUS
    <3> HIDE DEF Layer
    <3>2. Cardinality(T) \in Nat /\ (T = {} <=> Cardinality(T) = 0)
      BY <1>2, <3>1
    <3>3. QED
      BY <3>1, <3>2
  <2>2. h \in [Layer(0) -> Int] /\ \A T \in Layer(0) :
                           h[T] = IF T = {} THEN 0 ELSE f[c[T]] + h[T \ {c[T]}]
    BY <2>1
  <2> HIDE DEF h, Layer
  <2>3. HasFold(0)
    BY <2>2
  <2> HIDE DEF HasFold
  <2>4. QED
    BY <1>1, <2>3
<1>4. ASSUME NEW n \in 0 .. Cardinality(D) - 1, n \in Reached PROVE n + 1 \in Reached
  <2>1. PICK h \in [Layer(n) -> Int] : \A T \in Layer(n) :
                           h[T] = IF T = {} THEN 0 ELSE f[c[T]] + h[T \ {c[T]}]
    BY <1>4
  <2> DEFINE k == [T \in Layer(n + 1) |-> IF T = {} THEN 0 ELSE f[c[T]] + h[T \ {c[T]}]]
  <2>2. ASSUME NEW T \in Layer(n + 1), T # {}
        PROVE  T \ {c[T]} \in Layer(n) /\ T \ {c[T]} \in Layer(n + 1) /\ c[T] \in D
    BY <1>1, <1>2, <2>2
  <2>3. k \in [Layer(n + 1) -> Int]
    BY <2>2
  <2>4. ASSUME NEW T \in Layer(n) PROVE T \in Layer(n + 1) /\ k[T] = h[T]
    <3>1. T \in Layer(n + 1)
      <4>1. T \in SUBSET D /\ Cardinality(T) <= n
        OBVIOUS
      <4>2. Cardinality(T) \in Nat
        BY <1>2, <4>1
      <4>3. QED
        BY <1>1, <4>1, <4>2
    <3> HIDE DEF Layer
    <3>2. k[T] = IF T = {} THEN 0 ELSE f[c[T]] + h[T \ {c[T]}]
      BY <3>1
    <3> HIDE DEF k
    <3>3. QED
      BY <2>1, <3>1, <3>2
  <2>5. ASSUME NEW T \in Layer(n + 1)
        PROVE  k[T] = IF T = {} THEN 0 ELSE f[c[T]] + k[T \ {c[T]}]
    <3> HIDE DEF Layer
    <3>1. CASE T = {}
      BY <3>1
    <3>2. CASE T # {}
      <4>1. k[T] = f[c[T]] + h[T \ {c[T]}]
        BY <3>2
      <4>2. k[T \ {c[T]}] = h[T \ {c[T]}]
        BY <2>2, <2>4, <3>2
      <4>3. QED
        BY <3>2, <4>1, <4>2
    <3>3. QED
      BY <3>1, <3>2
  <2>6. n + 1 \in 0 .. Cardinality(D)
    BY <1>1
  <2> HIDE DEF k, Layer
  <2>7. HasFold(n + 1)
    BY <2>3, <2>5
  <2> HIDE DEF HasFold
  <2>8. QED
    BY <2>6, <2>7
<1>5. Cardinality(D) \in Reached
  <2> HIDE DEF Reached
  <2>1. 0 .. Cardinality(D) \subseteq Reached
    BY <1>1, <1>3, <1>4, UpTo
  <2>2. QED
    BY <1>1, <2>1
<1>6. Layer(Cardinality(D)) = SUBSET D
  BY <1>2
<1>7. QED
  BY <1>5, <1>6 DEF IsFold

\* The sums over the parts of the domain, taken from any member.
SumsOf(sum, f, D) ==
  /\ sum \in [SUBSET D -> Int]
  /\ \A T \in SUBSET D : SumFunctionOnSet(f, T) = sum[T]
  /\ sum[{}] = 0
  /\ \A T \in SUBSET D : \A x \in T : sum[T] = f[x] + sum[T \ {x}]

\* There are such sums: the library folds in some order, and any choice of the
\* item taken first comes to the same.
LEMMA SumUnfolds ==
  ASSUME NEW D, IsFiniteSet(D), NEW f \in [D -> Int]
  PROVE  \E sum : SumsOf(sum, f, D)
<1> DEFINE c == [T \in SUBSET D |-> IF T = {} THEN 0 ELSE CHOOSE x \in T : TRUE]
<1>1. c \in [SUBSET D -> D \cup {0}] /\ \A T \in SUBSET D : T # {} => c[T] \in T
  OBVIOUS
<1>2. PICK h \in [SUBSET D -> Int] :
        \A T \in SUBSET D : h[T] = IF T = {} THEN 0 ELSE f[c[T]] + h[T \ {c[T]}]
  <2> HIDE DEF c
  <2>1. PICK h : IsFold(h, f, c, D)
    BY <1>1, FoldExists
  <2>2. QED
    BY <2>1 DEF IsFold
<1>3. ASSUME NEW T \in SUBSET D
      PROVE  IsFiniteSet(T) /\ Cardinality(T) \in Nat /\ Cardinality(T) <= Cardinality(D)
             /\ Cardinality(D) \in Nat
             /\ \A x \in T : Cardinality(T \ {x}) = Cardinality(T) - 1
  <2>1. IsFiniteSet(T) /\ Cardinality(T) <= Cardinality(D)
    BY FS_Subset
  <2>2. \A x \in T : Cardinality(T \ {x}) = Cardinality(T) - 1
    BY <2>1, FS_RemoveElement
  <2>3. QED
    BY <2>1, <2>2, FS_CardinalityType
<1>4. ASSUME NEW T \in SUBSET D PROVE SumFunctionOnSet(f, T) = h[T]
  <2> DEFINE Def(iter) == [s \in SUBSET T |-> IF s = {} THEN 0 ELSE
                            LET x == CHOOSE x \in s : TRUE IN f[x] + iter[s \ {x}]]
             Fold == CHOOSE iter : iter = Def(iter)
             r == [U \in SUBSET T |-> h[U]]
  <2>1. SumFunctionOnSet(f, T) = Fold[T]
    BY DEF SumFunctionOnSet, FoldFunctionOnSet, MapThenFoldSet
  <2>11. \A iter : Def(iter) = [s \in SUBSET T |->
                               IF s = {} THEN 0 ELSE f[c[s]] + iter[s \ {c[s]}]]
    <3>1. \A s \in SUBSET T : s # {} => c[s] = CHOOSE x \in s : TRUE
      OBVIOUS
    <3> HIDE DEF c
    <3>2. QED
      BY <3>1
  <2> HIDE DEF c
  <2>2. r = Def(r)
    <3>1. ASSUME NEW s \in SUBSET T
          PROVE  h[s] = IF s = {} THEN 0 ELSE f[c[s]] + r[s \ {c[s]}]
      <4>1. s \ {c[s]} \in SUBSET T /\ s \in SUBSET D
        OBVIOUS
      <4>2. QED
        BY <1>2, <4>1
    <3> HIDE DEF Def
    <3>2. QED
      BY <2>11, <3>1
  <2>3. Fold = Def(Fold)
    <3> HIDE DEF r, Def
    <3>1. QED
      BY <2>2
  <2> HIDE DEF Fold, Def
  <2>4. \A s \in SUBSET T : Fold[s] = IF s = {} THEN 0 ELSE f[c[s]] + Fold[s \ {c[s]}]
    BY <2>3, <2>11
  <2> DEFINE Same == {n \in 0 .. Cardinality(D) :
                        \A U \in SUBSET T : Cardinality(U) <= n => Fold[U] = h[U]}
  <2>5. 0 \in Same
    <3>1. ASSUME NEW U \in SUBSET T, Cardinality(U) <= 0 PROVE Fold[U] = h[U]
      <4>1. U = {}
        <5>1. IsFiniteSet(U) /\ Cardinality(U) = 0
          BY <1>3, <3>1
        <5>2. QED
          BY <5>1, FS_EmptySet
      <4>2. QED
        BY <1>2, <2>4, <4>1
    <3>2. QED
      BY <1>3, <3>1
  <2>6. ASSUME NEW n \in 0 .. Cardinality(D) - 1, n \in Same PROVE n + 1 \in Same
    <3>1. ASSUME NEW U \in SUBSET T, Cardinality(U) <= n + 1 PROVE Fold[U] = h[U]
      <4>1. CASE U = {}
        BY <1>2, <2>4, <4>1
      <4>2. CASE U # {}
        <5>1. c[U] \in U /\ U \in SUBSET D /\ U \ {c[U]} \in SUBSET T
          BY <1>1, <4>2
        <5>2. Cardinality(U \ {c[U]}) = Cardinality(U) - 1 /\ Cardinality(U) \in Nat
          BY <1>3, <5>1
        <5>3. Fold[U \ {c[U]}] = h[U \ {c[U]}]
          BY <2>6, <3>1, <5>1, <5>2
        <5>4. QED
          BY <1>2, <2>4, <4>2, <5>1, <5>3
      <4>3. QED
        BY <4>1, <4>2
    <3>2. n + 1 \in 0 .. Cardinality(D)
      BY <1>3
    <3>3. QED
      BY <3>1, <3>2
  <2> HIDE DEF Same
  <2>7. 0 .. Cardinality(D) \subseteq Same
    BY <1>3, <2>5, <2>6, UpTo
  <2>8. Cardinality(T) \in Same
    BY <1>3, <2>7
  <2>9. Fold[T] = h[T]
    BY <1>3, <2>8 DEF Same
  <2>10. QED
    BY <2>1, <2>9
<1> HIDE DEF c
<1>5. h[{}] = 0
  BY <1>2
<1> DEFINE Free == {n \in 0 .. Cardinality(D) :
                      \A T \in SUBSET D : Cardinality(T) <= n =>
                        \A x \in T : h[T] = f[x] + h[T \ {x}]}
<1>6. 0 \in Free
  <2>1. ASSUME NEW T \in SUBSET D, Cardinality(T) <= 0 PROVE T = {}
    BY <1>3, <2>1, FS_EmptySet
  <2>2. QED
    BY <1>3, <2>1
<1>7. ASSUME NEW n \in 0 .. Cardinality(D) - 1, n \in Free PROVE n + 1 \in Free
  <2>1. ASSUME NEW T \in SUBSET D, Cardinality(T) <= n + 1, NEW x \in T
        PROVE  h[T] = f[x] + h[T \ {x}]
    <3> DEFINE y == c[T]
    <3>1. y \in T /\ h[T] = f[y] + h[T \ {y}]
      BY <1>1, <1>2
    <3>2. CASE x = y
      BY <3>1, <3>2
    <3>3. CASE x # y
      <4>1. Cardinality(T \ {x}) <= n /\ Cardinality(T \ {y}) <= n
        BY <1>3, <2>1, <3>1
      <4>2. h[T \ {x}] = f[y] + h[(T \ {x}) \ {y}]
        BY <1>7, <3>1, <3>3, <4>1
      <4>3. h[T \ {y}] = f[x] + h[(T \ {y}) \ {x}]
        BY <1>7, <3>1, <3>3, <4>1
      <4>4. (T \ {x}) \ {y} = (T \ {y}) \ {x}
        OBVIOUS
      <4>5. f[x] \in Int /\ f[y] \in Int /\ h[(T \ {x}) \ {y}] \in Int
        BY <3>1
      <4> DEFINE rest == h[(T \ {x}) \ {y}]
      <4>6. h[T] = f[y] + (f[x] + rest) /\ h[T \ {x}] = f[y] + rest
        BY <3>1, <4>2, <4>3, <4>4
      <4> HIDE DEF rest
      <4>7. f[y] + (f[x] + rest) = f[x] + (f[y] + rest)
        BY <4>5 DEF rest
      <4>8. QED
        BY <4>6, <4>7
    <3>4. QED
      BY <3>2, <3>3
  <2>2. n + 1 \in 0 .. Cardinality(D)
    BY <1>3
  <2>3. QED
    BY <2>1, <2>2
<1> HIDE DEF Free
<1>8. 0 .. Cardinality(D) \subseteq Free
  BY <1>3, <1>6, <1>7, UpTo
<1>9. ASSUME NEW T \in SUBSET D, NEW x \in T PROVE h[T] = f[x] + h[T \ {x}]
  <2>1. Cardinality(T) \in Free
    BY <1>3, <1>8
  <2>2. QED
    BY <1>3, <2>1 DEF Free
<1>10. QED
  BY <1>4, <1>5, <1>9 DEF SumsOf

\* More terms, and larger ones, make a larger sum.
LEMMA SumGrows ==
  ASSUME NEW D, IsFiniteSet(D), NEW f \in [D -> Nat],
         NEW E \in SUBSET D, NEW g \in [E -> Nat], \A x \in E : g[x] <= f[x]
  PROVE  /\ SumFunction(f) \in Nat /\ SumFunction(g) \in Nat
         /\ SumFunction(g) <= SumFunction(f)
<1>1. IsFiniteSet(E)
  BY FS_Subset
<1>2. PICK sf : SumsOf(sf, f, D)
  <2>1. f \in [D -> Int]
    OBVIOUS
  <2>2. QED
    BY <2>1, SumUnfolds
<1>3. PICK sg : SumsOf(sg, g, E)
  <2>1. g \in [E -> Int]
    OBVIOUS
  <2>2. QED
    BY <1>1, <2>1, SumUnfolds
<1>11. /\ sf \in [SUBSET D -> Int] /\ sf[{}] = 0
       /\ \A T \in SUBSET D : \A x \in T : sf[T] = f[x] + sf[T \ {x}]
       /\ sg \in [SUBSET E -> Int] /\ sg[{}] = 0
       /\ \A T \in SUBSET E : \A x \in T : sg[T] = g[x] + sg[T \ {x}]
  BY <1>2, <1>3 DEF SumsOf
<1>4. Cardinality(D) \in Nat
  BY FS_CardinalityType
<1> DEFINE Less(T) == sg[T \cap E] \in Nat /\ sf[T] \in Nat /\ sg[T \cap E] <= sf[T]
           Good == {n \in 0 .. Cardinality(D) :
                      \A T \in SUBSET D : Cardinality(T) = n => Less(T)}
<1>5. 0 \in Good
  <2>1. ASSUME NEW T \in SUBSET D, Cardinality(T) = 0 PROVE Less(T)
    <3>1. IsFiniteSet(T)
      BY FS_Subset
    <3>4. T = {}
      BY <2>1, <3>1, FS_EmptySet
    <3>2. T \cap E = {}
      BY <3>4
    <3>3. QED
      BY <1>11, <3>2, <3>4
  <2> HIDE DEF Less
  <2>2. QED
    BY <1>4, <2>1
<1>6. ASSUME NEW n \in 0 .. Cardinality(D) - 1, n \in Good PROVE n + 1 \in Good
  <2>1. ASSUME NEW T \in SUBSET D, Cardinality(T) = n + 1 PROVE Less(T)
    <3>1. IsFiniteSet(T)
      BY FS_Subset
    <3>2. PICK x \in T : TRUE
      <4>1. Cardinality(T) # 0
        BY <1>4, <2>1
      <4>3. T # {}
        BY <3>1, <4>1, FS_EmptySet
      <4>2. QED
        BY <4>3
    <3>3. Cardinality(T \ {x}) = n
      <4>1. Cardinality(T \ {x}) = Cardinality(T) - 1
        BY <3>1, FS_RemoveElement
      <4>2. QED
        BY <1>4, <2>1, <4>1
    <3>4. Less(T \ {x})
      <4> HIDE DEF Less
      <4>1. QED
        BY <1>6, <3>3
    <3>5. sf[T] = f[x] + sf[T \ {x}] /\ f[x] \in Nat
      BY <1>11
    <3>6. sf[T] \in Nat
      BY <3>4, <3>5
    <3>7. CASE x \in E
      <4>1. (T \ {x}) \cap E = (T \cap E) \ {x} /\ x \in T \cap E
        BY <3>7
      <4>5. T \cap E \in SUBSET E
        OBVIOUS
      <4>2. sg[T \cap E] = g[x] + sg[(T \ {x}) \cap E] /\ g[x] \in Nat
        <5>1. sg[T \cap E] = g[x] + sg[(T \cap E) \ {x}]
          BY <1>11, <4>1, <4>5
        <5>2. QED
          BY <3>7, <4>1, <5>1
      <4>3. g[x] <= f[x]
        BY <3>7
      <4>4. QED
        BY <3>4, <3>5, <4>2, <4>3
    <3>8. CASE x \notin E
      <4>1. (T \ {x}) \cap E = T \cap E
        BY <3>8
      <4>2. sg[T \cap E] \in Nat /\ sf[T \ {x}] \in Nat /\ sg[T \cap E] <= sf[T \ {x}]
        BY <3>4, <4>1
      <4>3. QED
        BY <3>5, <4>2
    <3>9. QED
      BY <3>7, <3>8
  <2>2. n + 1 \in 0 .. Cardinality(D)
    BY <1>4
  <2> HIDE DEF Less
  <2>3. QED
    BY <2>1, <2>2
<1>7. Less(D)
  <2> HIDE DEF Good, Less
  <2>1. 0 .. Cardinality(D) \subseteq Good
    BY <1>4, <1>5, <1>6, UpTo
  <2>2. Cardinality(D) \in Good
    BY <1>4, <2>1
  <2>3. QED
    BY <2>2 DEF Good
<1>8. D \cap E = E
  OBVIOUS
<1>9. SumFunction(f) = sf[D] /\ SumFunction(g) = sg[E]
  BY <1>2, <1>3 DEF SumFunction, SumsOf
<1>10. QED
  BY <1>7, <1>8, <1>9

\* Two terms are together no more than the sum.
LEMMA TwoOfSum ==
  ASSUME NEW D, IsFiniteSet(D), NEW f \in [D -> Nat], NEW i \in D, NEW j \in D, i # j
  PROVE  f[i] + f[j] <= SumFunction(f)
<1> DEFINE E == {i, j}
           g == [x \in E |-> f[x]]
<1>1. E \in SUBSET D /\ g \in [E -> Nat] /\ IsFiniteSet(E)
  BY FS_Subset
<1>2. \A x \in E : g[x] <= f[x]
  OBVIOUS
<1>3. g[i] = f[i] /\ g[j] = f[j] /\ E = {i, j} /\ DOMAIN g = E
  OBVIOUS
<1> HIDE DEF g, E
<1>4. SumFunction(g) <= SumFunction(f)
  BY <1>1, <1>2, SumGrows
<1>5. PICK sg : SumsOf(sg, g, E)
  <2>1. g \in [E -> Int]
    BY <1>1
  <2>2. QED
    BY <1>1, <2>1, SumUnfolds
<1>6. sg[E] = g[i] + sg[{j}] /\ sg[{j}] = g[j] + sg[{}]
  <2>1. E \ {i} = {j} /\ {j} \ {j} = {} /\ E \in SUBSET E /\ {j} \in SUBSET E /\ i \in E
    BY <1>3
  <2>2. QED
    BY <1>5, <2>1 DEF SumsOf
<1>7. SumFunction(g) = f[i] + f[j]
  <2>1. SumFunction(g) = sg[E]
    BY <1>3, <1>5 DEF SumFunction, SumsOf
  <2>2. f[i] \in Nat /\ f[j] \in Nat
    OBVIOUS
  <2>3. QED
    BY <1>3, <1>5, <1>6, <2>1, <2>2 DEF SumsOf
<1>8. QED
  BY <1>4, <1>7

\* Of nothing but losses the sum is a loss.
LEMMA LossesAdd ==
  ASSUME NEW D, IsFiniteSet(D), NEW f \in [D -> Int], \A x \in D : f[x] <= 0
  PROVE  SumFunction(f) \in Int /\ SumFunction(f) <= 0
<1>1. PICK sum : SumsOf(sum, f, D)
  BY SumUnfolds
<1>2. /\ sum \in [SUBSET D -> Int] /\ sum[{}] = 0
      /\ \A T \in SUBSET D : \A x \in T : sum[T] = f[x] + sum[T \ {x}]
      /\ SumFunction(f) = sum[D]
  BY <1>1 DEF SumsOf, SumFunction
<1>3. Cardinality(D) \in Nat
  BY FS_CardinalityType
<1> DEFINE Good == {n \in 0 .. Cardinality(D) :
                      \A T \in SUBSET D : Cardinality(T) = n => sum[T] <= 0}
<1>4. 0 \in Good
  <2>1. ASSUME NEW T \in SUBSET D, Cardinality(T) = 0 PROVE sum[T] <= 0
    <3>1. T = {}
      BY <2>1, FS_Subset, FS_EmptySet
    <3>2. QED
      BY <1>2, <3>1
  <2>2. QED
    BY <1>3, <2>1
<1>5. ASSUME NEW n \in 0 .. Cardinality(D) - 1, n \in Good PROVE n + 1 \in Good
  <2>1. ASSUME NEW T \in SUBSET D, Cardinality(T) = n + 1 PROVE sum[T] <= 0
    <3>1. IsFiniteSet(T) /\ T # {}
      <4>1. IsFiniteSet(T)
        BY FS_Subset
      <4>2. Cardinality(T) # 0
        BY <1>3, <2>1
      <4>3. QED
        BY <4>1, <4>2, FS_EmptySet
    <3>2. PICK x \in T : TRUE
      BY <3>1
    <3>3. Cardinality(T \ {x}) = n
      <4>1. Cardinality(T \ {x}) = Cardinality(T) - 1
        BY <3>1, FS_RemoveElement
      <4>2. QED
        BY <1>3, <2>1, <4>1
    <3>4. sum[T \ {x}] <= 0
      BY <1>5, <3>3
    <3>5. sum[T] = f[x] + sum[T \ {x}] /\ f[x] <= 0
      BY <1>2
    <3>6. f[x] \in Int /\ sum[T \ {x}] \in Int
      BY <1>2
    <3>7. QED
      BY <3>4, <3>5, <3>6
  <2>2. n + 1 \in 0 .. Cardinality(D)
    BY <1>3
  <2>3. QED
    BY <2>1, <2>2
<1> HIDE DEF Good
<1>6. Cardinality(D) \in Good
  <2>1. 0 .. Cardinality(D) \subseteq Good
    BY <1>3, <1>4, <1>5, UpTo
  <2>2. QED
    BY <1>3, <2>1
<1>7. sum[D] <= 0
  BY <1>6 DEF Good
<1>8. QED
  BY <1>2, <1>7
=============================================================================
