-------------------------- MODULE SequentialProofs --------------------------
(***************************************************************************)
(* Theorems about the two parts without threads. ArraySet: for collections *)
(* of any length with any number of ranks, and any views of views.         *)
(* Implementor: for hierarchies of any length with any number of methods   *)
(* and interfaces, and any calls of implementJar().                        *)
(***************************************************************************)
EXTENDS ArraySet, Implementor, FiniteSetTheorems, WellFoundedInduction, TLAPS

\* A set of numbers that is not empty has a least one.
LEMMA LeastNumber ==
    ASSUME NEW T \in SUBSET Nat, T # {}
    PROVE  \E x \in T : \A y \in T : x <= y
<1>. DEFINE R == {ss \in Nat \X Nat : ss[1] < ss[2]}
<1>1. OpToRel(<, Nat) = R
  BY Zenon DEF OpToRel
<1>2. IsWellFoundedOn(R, Nat)
  BY <1>1, NatLessThanWellFounded, Zenon
<1>3. PICK x \in T : \A y \in T : <<y, x>> \notin R
  <2>. HIDE DEF R
  <2>. QED BY <1>2, WFMin, Zenon
<1>4. ASSUME NEW y \in T
      PROVE  x <= y
  <2>1. y < x => <<y, x>> \in R
    OBVIOUS
  <2>. HIDE DEF R
  <2>. QED BY <1>3, <2>1
<1>. QED BY <1>4

\* What holds at 0 and goes up by one is all the numbers.
LEMMA Induction ==
    ASSUME NEW S, 0 \in S, \A n \in Nat : n \in S => n + 1 \in S
    PROVE  Nat \subseteq S
<1>. SUFFICES ASSUME Nat \ S # {} PROVE FALSE
  OBVIOUS
<1>1. PICK x \in Nat \ S : \A y \in Nat \ S : x <= y
  BY LeastNumber
<1>2. x - 1 \in Nat /\ x - 1 \in S
  BY <1>1
<1>. QED BY <1>1, <1>2

-----------------------------------------------------------------------------
(* ArraySet: the order of its elements, and of the list that is sorted.    *)

Less(order, r, s) == Compare(order, r, s) < 0

\* A comparator orders the ranks totally, one way or the other.
LEMMA TotalOrder ==
    ASSUME NEW order
    PROVE  /\ \A r, s \in Int :
                /\ Less(order, r, s) \/ r = s \/ Less(order, s, r)
                /\ ~(Less(order, r, s) /\ Less(order, s, r)) /\ ~Less(order, r, r)
                /\ Compare(order, r, s) <= 0 <=> ~Less(order, s, r)
                /\ Compare(order, r, s) >= 0 <=> ~Less(order, r, s)
                /\ Compare(order, r, s) > 0 <=> Less(order, s, r)
           /\ \A r, s, t \in Int : Less(order, r, s) /\ Less(order, s, t) => Less(order, r, t)
BY DEF Less, Compare

LEMMA RankIsNumber == \A x \in Elements : Rank(x) \in Int /\ Rank(x) \in 1..MaxRank
BY ArraySetAssumption DEF Elements, Rank

LEMMA SortedList ==
    ASSUME NEW list \in Seq(Elements), NEW order
    PROVE  /\ Sorted(list, order) \in [1..Len(list) -> Elements]
           /\ ToSet(Sorted(list, order)) = ToSet(list)
           /\ \A k, l \in 1..Len(list) :
                k < l => ~Less(order, Rank(Sorted(list, order)[l]), Rank(Sorted(list, order)[k]))
<1>. DEFINE D == DOMAIN list
            before(i, j) ==
                \/ Compare(order, Rank(list[i]), Rank(list[j])) < 0
                \/ Rank(list[i]) = Rank(list[j]) /\ i < j
            Ahead(i) == {j \in D : before(j, i)}
            place(i) == Cardinality(Ahead(i)) + 1
            from(k) == CHOOSE i \in D : place(i) = k
            sorted == Sorted(list, order)
<1>1. /\ D = 1..Len(list) /\ Len(list) \in Nat
      /\ \A i \in D : list[i] \in Elements /\ Rank(list[i]) \in Int
  BY RankIsNumber
<1>2. /\ \A i \in D : ~before(i, i)
      /\ \A i, j \in D : i # j => before(i, j) \/ before(j, i)
      /\ \A i, j, k \in D : before(i, j) /\ before(j, k) => before(i, k)
  BY <1>1 DEF Compare
<1>3. IsFiniteSet(D) /\ Cardinality(D) = Len(list)
  <2>1. IsFiniteSet(1..Len(list)) /\ Cardinality(1..Len(list)) = Len(list)
    <3>1. \A n \in Nat : IsFiniteSet(1..n) /\ Cardinality(1..n) = n
      BY FS_Interval
    <3>. HIDE DEF D
    <3>. QED BY <1>1, <3>1
  <2>. HIDE DEF D
  <2>. QED BY <1>1, <2>1
<1>4. \A i \in D : IsFiniteSet(Ahead(i)) /\ Cardinality(Ahead(i)) \in Nat
  <2>1. \A i \in D : Ahead(i) \subseteq D
    OBVIOUS
  <2>. HIDE DEF Ahead, D
  <2>. QED BY <1>3, <2>1, FS_Subset, FS_CardinalityType
<1>. HIDE DEF before
<1>5. ASSUME NEW i \in D
      PROVE  place(i) \in D
  <2>1. Ahead(i) \subseteq D \ {i}
    BY <1>2
  <2>2. IsFiniteSet(D \ {i}) /\ Cardinality(D \ {i}) = Len(list) - 1
    BY <1>3, FS_RemoveElement
  <2>3. Cardinality(Ahead(i)) <= Len(list) - 1
    BY <2>1, <2>2, FS_Subset
  <2>. HIDE DEF Ahead, D
  <2>. QED BY <1>1, <1>4, <2>3
<1>6. ASSUME NEW i \in D, NEW j \in D, before(i, j)
      PROVE  place(i) < place(j)
  <2>1. Ahead(i) \subseteq Ahead(j) \ {i} /\ i \in Ahead(j)
    BY <1>2, <1>6
  <2>2. IsFiniteSet(Ahead(j) \ {i}) /\ Cardinality(Ahead(j) \ {i}) = Cardinality(Ahead(j)) - 1
    BY <1>4, <2>1, FS_RemoveElement
  <2>3. Cardinality(Ahead(i)) <= Cardinality(Ahead(j)) - 1
    BY <2>1, <2>2, FS_Subset
  <2>. HIDE DEF Ahead, D
  <2>. QED BY <1>4, <2>3
<1>7. \A k \in D : from(k) \in D /\ place(from(k)) = k
  <2>. DEFINE f == [i \in D |-> place(i)]
  <2>1. \A i, j \in D : place(i) = place(j) => i = j
    <3>1. \A i \in D : place(i) \in Int
      BY <1>5
    <3>. HIDE DEF place, D
    <3>. QED BY <1>2, <1>6, <3>1
  <2>. HIDE DEF place, D
  <2>2. f \in Injection(D, D)
    BY <1>5, <2>1 DEF Injection, IsInjective
  <2>3. f \in Surjection(D, D)
    BY <1>3, <2>2, FS_Injection
  <2>4. \A k \in D : \E i \in D : place(i) = k
    BY <2>3 DEF Surjection
  <2>. QED BY <2>4
<1>8. sorted = [k \in D |-> list[from(k)]]
  BY Zenon DEF Sorted, before
<1>. HIDE DEF sorted, place, from
<1>9. sorted \in [D -> Elements]
  BY <1>1, <1>7, <1>8
<1>10. ToSet(sorted) = ToSet(list)
  <2>1. \A i \in D : from(place(i)) = i /\ place(i) \in D
    <3>1. \A i, j \in D : place(i) = place(j) => i = j
      <4>1. \A i \in D : place(i) \in Int
        BY <1>5
      <4>. HIDE DEF D
      <4>. QED BY <1>2, <1>6, <4>1
    <3>. QED BY <1>5, <1>7, <3>1
  <2>2. \A i \in D : sorted[place(i)] = list[i]
    BY <1>8, <2>1
  <2>3. \A k \in D : sorted[k] = list[from(k)] /\ from(k) \in D
    BY <1>7, <1>8
  <2>4. DOMAIN sorted = D
    BY <1>8
  <2>5. ToSet(sorted) = {sorted[k] : k \in D} /\ ToSet(list) = {list[i] : i \in D}
    BY <2>4 DEF ToSet
  <2>. HIDE DEF D
  <2>6. ToSet(sorted) \subseteq ToSet(list)
    BY <2>3, <2>5
  <2>7. ToSet(list) \subseteq ToSet(sorted)
    BY <2>1, <2>2, <2>5
  <2>. QED BY <2>6, <2>7
<1>11. ASSUME NEW k \in D, NEW l \in D, k < l
       PROVE  ~Less(order, Rank(sorted[l]), Rank(sorted[k]))
  <2>. DEFINE i == from(k)
              j == from(l)
  <2>1. i \in D /\ j \in D /\ place(i) = k /\ place(j) = l
    BY <1>7
  <2>2. ~before(j, i)
    BY <1>6, <1>11, <2>1
  <2>3. sorted[k] = list[i] /\ sorted[l] = list[j]
    BY <1>8
  <2>. HIDE DEF i, j
  <2>. QED BY <2>2, <2>3 DEF before, Less
<1>. QED BY <1>1, <1>9, <1>10, <1>11 DEF sorted

-----------------------------------------------------------------------------
(* What sortSet() keeps of the sorted list.                                *)

Kept(f, s, order, n) ==
    IF n = 0 THEN <<>>
    ELSE IF f[n - 1] # <<>> /\ SameElement(order, Last(f[n - 1]), s[n])
           THEN f[n - 1] ELSE Append(f[n - 1], s[n])

KeptUpTo(f, s, order, n) == f = [k \in 0..n |-> Kept(f, s, order, k)]

\* The loop goes up from 0: there is such a function.
LEMMA KeptExists ==
    ASSUME NEW s, NEW order, NEW n \in Nat
    PROVE  \E f : KeptUpTo(f, s, order, n)
<1>. USE DEF KeptUpTo
<1>. DEFINE Defined == {m \in Nat : \E f : f = [k \in 0..m |-> Kept(f, s, order, k)]}
<1>1. 0 \in Defined
  <2>. DEFINE f == [k \in 0..0 |-> <<>>]
  <2>1. \A k \in 0..0 : Kept(f, s, order, k) = <<>>
    BY DEF Kept
  <2>2. f = [k \in 0..0 |-> Kept(f, s, order, k)]
    BY <2>1
  <2>. QED BY <2>2
<1>2. ASSUME NEW m \in Nat, m \in Defined
      PROVE  m + 1 \in Defined
  <2>1. PICK f : f = [k \in 0..m |-> Kept(f, s, order, k)]
    BY <1>2
  <2>. DEFINE g == [k \in 0..(m + 1) |-> IF k = m + 1 THEN Kept(f, s, order, m + 1) ELSE f[k]]
  <2>2. ASSUME NEW k \in 0..(m + 1)
        PROVE  g[k] = Kept(g, s, order, k)
    <3>1. k # 0 => k - 1 \in 0..m /\ g[k - 1] = f[k - 1]
      OBVIOUS
    <3>2. Kept(g, s, order, k) = Kept(f, s, order, k)
      <4>. HIDE DEF g
      <4>. QED BY <3>1 DEF Kept
    <3>3. k # m + 1 => k \in 0..m /\ g[k] = f[k]
      OBVIOUS
    <3>4. k # m + 1 => f[k] = Kept(f, s, order, k)
      <4>. HIDE DEF g
      <4>. QED BY <2>1, <3>3, Zenon
    <3>5. k = m + 1 => g[k] = Kept(f, s, order, k)
      OBVIOUS
    <3>. HIDE DEF g
    <3>. QED BY <3>2, <3>3, <3>4, <3>5
  <2>3. g = [k \in 0..(m + 1) |-> Kept(g, s, order, k)]
    <3>1. g = [k \in 0..(m + 1) |-> g[k]]
      OBVIOUS
    <3>. HIDE DEF g
    <3>2. [k \in 0..(m + 1) |-> g[k]] = [k \in 0..(m + 1) |-> Kept(g, s, order, k)]
      BY <2>2, Zenon
    <3>. QED BY <3>1, <3>2, Zenon
  <2>4. m + 1 \in Nat
    OBVIOUS
  <2>. HIDE DEF g
  <2>. QED BY <2>3, <2>4, Zenon
<1>. HIDE DEF Defined
<1>3. n \in Defined
  BY <1>1, <1>2, Induction
<1>. QED BY <1>3 DEF Defined

LEMMA SortSetKeeps ==
    ASSUME NEW list \in Seq(Elements), NEW order
    PROVE  \E f :
             /\ \A n \in 0..Len(list) : f[n] = Kept(f, Sorted(list, order), order, n)
             /\ SortSet(list, order) = f[Len(list)]
<1>. DEFINE s == Sorted(list, order)
<1>1. Len(list) \in Nat
  OBVIOUS
<1>. HIDE DEF s
<1>2. \E f : KeptUpTo(f, s, order, Len(list))
  BY <1>1, KeptExists
<1>6. \E f : f = [n \in 0..Len(list) |-> Kept(f, s, order, n)]
  BY <1>2 DEF KeptUpTo
<1>. DEFINE f == CHOOSE f : f = [n \in 0..Len(list) |-> Kept(f, s, order, n)]
<1>5. f = [n \in 0..Len(list) |-> Kept(f, s, order, n)]
  BY <1>6, Zenon
<1>3. SortSet(list, order) = f[Len(list)]
  BY Zenon DEF SortSet, Kept, s
<1>. HIDE DEF f
<1>4. \A n \in 0..Len(list) : f[n] = Kept(f, s, order, n)
  BY <1>5
<1>. QED BY <1>3, <1>4, Zenon DEF s

Increasing(order, d) ==
    \A k, l \in 1..Len(d) : k < l => Less(order, Rank(d[k]), Rank(d[l]))

\* No two elements of one rank, or the loop takes them for the same.
SameIfEqual(order, s, n) ==
    \A k, l \in 1..n : Rank(s[k]) = Rank(s[l]) => SameElement(order, s[k], s[l])

\* What was kept of the first n elements.
KeptWell(kept, s, order, n) ==
    /\ kept \in Seq(Elements)
    /\ n > 0 => kept # <<>> /\ Rank(Last(kept)) = Rank(s[n])
    /\ \A k \in 1..Len(kept) : \E j \in 1..n : kept[k] = s[j]
    /\ \A j \in 1..n : \E k \in 1..Len(kept) : Rank(kept[k]) = Rank(s[j])
    /\ Increasing(order, kept)

LEMMA KeepOne ==
    ASSUME NEW N \in Nat, NEW s \in [1..N -> Elements], NEW order,
           \A k, l \in 1..N : k < l => ~Less(order, Rank(s[l]), Rank(s[k])),
           SameIfEqual(order, s, N),
           NEW n \in 1..N, NEW before, KeptWell(before, s, order, n - 1)
    PROVE  KeptWell(IF before # <<>> /\ SameElement(order, Last(before), s[n])
                      THEN before ELSE Append(before, s[n]), s, order, n)
<1>1. /\ before \in Seq(Elements) /\ Len(before) \in Nat /\ s[n] \in Elements
      /\ \A k \in 1..Len(before) : before[k] \in Elements
      /\ \A k \in 1..N : Rank(s[k]) \in Int
      /\ \A k \in 1..Len(before) : Rank(before[k]) \in Int
  <2>1. before \in Seq(Elements)
    BY DEF KeptWell
  <2>2. Len(before) \in Nat /\ \A k \in 1..Len(before) : before[k] \in Elements
    BY <2>1
  <2>3. \A k \in 1..N : s[k] \in Elements
    OBVIOUS
  <2>. QED BY <2>1, <2>2, <2>3, RankIsNumber
<1>2. /\ before # <<>> => Len(before) \in 1..Len(before) /\ Last(before) = before[Len(before)]
      /\ before = <<>> => Len(before) = 0
  BY <1>1 DEF Last
<1>3. /\ \A k \in 1..Len(before) : \E j \in 1..n - 1 : before[k] = s[j]
      /\ \A j \in 1..n - 1 : \E k \in 1..Len(before) : Rank(before[k]) = Rank(s[j])
      /\ \A k, l \in 1..Len(before) : k < l => Less(order, Rank(before[k]), Rank(before[l]))
      /\ n - 1 > 0 => before # <<>> /\ Rank(before[Len(before)]) = Rank(s[n - 1])
  BY <1>2 DEF KeptWell, Increasing
<1>4. CASE before # <<>> /\ SameElement(order, Last(before), s[n])
  <2>1. Rank(Last(before)) = Rank(s[n])
    BY <1>4 DEF SameElement
  <2>2. \A j \in 1..n : j \in 1..n - 1 \/ j = n
    OBVIOUS
  <2>3. \A j \in 1..n : \E k \in 1..Len(before) : Rank(before[k]) = Rank(s[j])
    BY <1>2, <1>3, <1>4, <2>1, <2>2
  <2>4. \A k \in 1..Len(before) : \E j \in 1..n : before[k] = s[j]
    BY <1>3
  <2>. QED BY <1>1, <1>3, <1>4, <2>1, <2>3, <2>4 DEF KeptWell, Increasing
<1>5. CASE ~(before # <<>> /\ SameElement(order, Last(before), s[n]))
  <2>. DEFINE kept == Append(before, s[n])
              m == Len(before)
  <2>1. /\ kept \in Seq(Elements) /\ kept # <<>> /\ Len(kept) = m + 1 /\ m \in Nat
        /\ kept[m + 1] = s[n] /\ Last(kept) = s[n]
        /\ \A k \in 1..m : kept[k] = before[k]
    <3>1. /\ kept \in Seq(Elements) /\ Len(kept) = m + 1 /\ m \in Nat
          /\ kept[m + 1] = s[n]
          /\ \A k \in 1..m : kept[k] = before[k]
      BY <1>1
    <3>. HIDE DEF kept, m
    <3>. QED BY <3>1 DEF Last
  <2>2. \A k \in 1..m : Less(order, Rank(before[k]), Rank(s[n]))
    <3>1. SUFFICES ASSUME m > 0
                   PROVE  /\ Less(order, Rank(before[m]), Rank(s[n]))
                          /\ m \in 1..m
      <4>1. ASSUME NEW k \in 1..m
            PROVE  /\ m > 0 /\ k <= m /\ Rank(before[k]) \in Int /\ Rank(s[n]) \in Int
                   /\ k < m /\ m \in 1..m => Less(order, Rank(before[k]), Rank(before[m]))
                   /\ m \in 1..m => Rank(before[m]) \in Int
        BY <1>1, <1>3
      <4>2. ASSUME NEW k \in 1..m, Less(order, Rank(before[m]), Rank(s[n])), m \in 1..m
            PROVE  Less(order, Rank(before[k]), Rank(s[n]))
        <5>1. CASE k = m
          BY <4>2, <5>1
        <5>2. CASE k < m
          BY <4>1, <4>2, <5>2, TotalOrder
        <5>. QED BY <4>1, <5>1, <5>2
      <4>. HIDE DEF m
      <4>. QED BY <4>1, <4>2
    <3>2. before # <<>>
      BY <3>1
    <3>3. PICK j \in 1..n - 1 : before[m] = s[j]
      <4>1. m \in 1..Len(before)
        BY <1>1, <3>1
      <4>. QED BY <1>3, <4>1, Zenon
    <3>4. ~SameElement(order, s[j], s[n])
      BY <1>2, <1>5, <3>2, <3>3
    <3>5. Rank(s[j]) # Rank(s[n])
      BY <3>4 DEF SameIfEqual
    <3>6. ~Less(order, Rank(s[n]), Rank(s[j]))
      OBVIOUS
    <3>. QED BY <1>1, <3>1, <3>3, <3>5, <3>6, TotalOrder
  <2>. HIDE DEF kept, m
  <2>3. \A k \in 1..m + 1 : k \in 1..m \/ k = m + 1
    BY <2>1
  <2>4. Increasing(order, kept)
    <3>1. \A k, l \in 1..m + 1 : k < l => k \in 1..m
      BY <2>1
    <3>. QED BY <1>3, <2>1, <2>2, <2>3, <3>1 DEF Increasing, m
  <2>5. \A k \in 1..Len(kept) : \E j \in 1..n : kept[k] = s[j]
    <3>1. \A j \in 1..n - 1 : j \in 1..n
      OBVIOUS
    <3>. QED BY <1>3, <2>1, <2>3, <3>1 DEF m
  <2>6. \A j \in 1..n : \E k \in 1..Len(kept) : Rank(kept[k]) = Rank(s[j])
    <3>1. \A j \in 1..n : j \in 1..n - 1 \/ j = n
      OBVIOUS
    <3>2. \A k \in 1..m : k \in 1..m + 1
      BY <2>1
    <3>3. m + 1 \in 1..m + 1
      BY <2>1
    <3>. QED BY <1>3, <2>1, <3>1, <3>2, <3>3 DEF m
  <2>. QED BY <1>5, <2>1, <2>4, <2>5, <2>6 DEF KeptWell, kept
<1>. QED BY <1>4, <1>5

\* The list that is kept has the ranks of the collection; and each only once
\* and in order, if the comparator can tell the elements apart.
LEMMA SortSetIsRight ==
    ASSUME NEW list \in Seq(Elements), NEW order, Proper(list, order)
    PROVE  /\ SortSet(list, order) \in Seq(Elements)
           /\ Increasing(order, SortSet(list, order))
           /\ {Rank(x) : x \in ToSet(SortSet(list, order))} = {Rank(x) : x \in ToSet(list)}
<1>. DEFINE s == Sorted(list, order)
            N == Len(list)
<1>1. N \in Nat
  OBVIOUS
<1>2. /\ s \in [1..N -> Elements]
      /\ ToSet(s) = ToSet(list)
      /\ \A k, l \in 1..N : k < l => ~Less(order, Rank(s[l]), Rank(s[k]))
  BY SortedList, Zenon
<1>3. PICK f :
        /\ \A n \in 0..N : f[n] = Kept(f, s, order, n)
        /\ SortSet(list, order) = f[N]
  BY SortSetKeeps, Zenon
<1>. HIDE DEF s
<1>4. DOMAIN s = 1..N /\ DOMAIN list = 1..N
  BY <1>2
<1>5. ToSet(s) = {s[k] : k \in 1..N} /\ ToSet(list) = {list[k] : k \in 1..N}
  BY <1>4 DEF ToSet
<1>6. SameIfEqual(order, s, N)
  <2>1. ASSUME NEW k \in 1..N, NEW l \in 1..N, Rank(s[k]) = Rank(s[l]), order = "null"
        PROVE  s[k] = s[l]
    <3>1. PICK i \in 1..N : s[k] = list[i]
      BY <1>2, <1>5
    <3>2. PICK j \in 1..N : s[l] = list[j]
      BY <1>2, <1>5
    <3>. QED BY <1>4, <2>1, <3>1, <3>2 DEF Proper
  <2>. QED BY <2>1 DEF SameIfEqual, SameElement
<1>. HIDE DEF N
<1>7. KeptWell(f[N], s, order, N)
  <2>. DEFINE Done == {n \in Nat : n \in 0..N => KeptWell(f[n], s, order, n)}
  <2>1. 0 \in Done
    <3>1. f[0] = <<>>
      BY <1>1, <1>3 DEF Kept
    <3>2. <<>> \in Seq(Elements) /\ Len(<<>>) = 0
      OBVIOUS
    <3>3. KeptWell(<<>>, s, order, 0)
      BY <3>2 DEF KeptWell, Increasing
    <3>. QED BY <3>1, <3>3
  <2>2. ASSUME NEW n \in Nat, n \in Done
        PROVE  n + 1 \in Done
    <3>1. SUFFICES ASSUME n + 1 \in 1..N
                   PROVE  KeptWell(f[n + 1], s, order, n + 1)
      OBVIOUS
    <3>. DEFINE before == f[n]
                kept == IF before # <<>> /\ SameElement(order, Last(before), s[n + 1])
                          THEN before ELSE Append(before, s[n + 1])
    <3>2. KeptWell(before, s, order, n + 1 - 1)
      BY <1>1, <2>2, <3>1
    <3>3. f[n + 1] = kept
      BY <1>3, <3>1 DEF Kept
    <3>4. KeptWell(kept, s, order, n + 1)
      <4>. HIDE DEF before
      <4>. QED BY <1>1, <1>2, <1>6, <3>1, <3>2, KeepOne
    <3>. QED BY <3>3, <3>4, Zenon
  <2>. HIDE DEF Done
  <2>3. N \in Done
    BY <1>1, <2>1, <2>2, Induction
  <2>. QED BY <1>1, <2>3 DEF Done
<1>. DEFINE d == SortSet(list, order)
<1>8. KeptWell(d, s, order, N)
  BY <1>3, <1>7
<1>. HIDE DEF d
<1>9. ToSet(d) = {d[k] : k \in 1..Len(d)}
  BY <1>8 DEF ToSet, KeptWell
<1>10. {Rank(x) : x \in ToSet(d)} = {Rank(x) : x \in ToSet(s)}
  <2>1. /\ \A k \in 1..Len(d) : \E j \in 1..N : d[k] = s[j]
        /\ \A j \in 1..N : \E k \in 1..Len(d) : Rank(d[k]) = Rank(s[j])
    BY <1>8 DEF KeptWell
  <2>2. \A k \in 1..Len(d) : Rank(d[k]) \in {Rank(x) : x \in ToSet(s)}
    BY <1>5, <2>1
  <2>3. \A j \in 1..N : Rank(s[j]) \in {Rank(x) : x \in ToSet(d)}
    BY <1>9, <2>1
  <2>4. {Rank(x) : x \in ToSet(d)} \subseteq {Rank(x) : x \in ToSet(s)}
    BY <1>9, <2>2
  <2>5. {Rank(x) : x \in ToSet(s)} \subseteq {Rank(x) : x \in ToSet(d)}
    BY <1>5, <2>3
  <2>. QED BY <2>4, <2>5
<1>. QED BY <1>2, <1>8, <1>10 DEF KeptWell, d

-----------------------------------------------------------------------------
(* The invariant: the list is in order, and holds the mathematical set.    *)

RanksOf(d) == {Rank(d[k]) : k \in 1..Len(d)}

SetInv ==
    proper =>
        /\ data \in Seq(Elements)
        /\ content = RanksOf(data)
        /\ Increasing(compare, data)

LEMMA RanksOfList ==
    ASSUME NEW d \in Seq(Elements)
    PROVE  {Rank(x) : x \in ToSet(d)} = RanksOf(d)
<1>1. ToSet(d) = {d[k] : k \in 1..Len(d)}
  BY DEF ToSet
<1>2. {Rank(x) : x \in ToSet(d)} \subseteq RanksOf(d)
  BY <1>1 DEF RanksOf
<1>3. RanksOf(d) \subseteq {Rank(x) : x \in ToSet(d)}
  BY <1>1 DEF RanksOf
<1>. QED BY <1>2, <1>3

LEMMA SetInit == Init => SetInv
<1>. SUFFICES ASSUME Init PROVE SetInv
  OBVIOUS
<1>1. PICK list \in BoundedSeq(Elements, MaxLength), order \in {"null", "natural", "reverse"} :
        /\ compare = order
        /\ data = SortSet(list, order)
        /\ content = {Rank(x) : x \in ToSet(list)}
        /\ proper = Proper(list, order)
  BY DEF Init
<1>2. list \in Seq(Elements)
  <2>1. BoundedSeq(Elements, MaxLength) = UNION {[1..m -> Elements] : m \in 0..MaxLength}
    BY DEF BoundedSeq, SeqOf
  <2>2. PICK m \in 0..MaxLength : list \in [1..m -> Elements]
    BY <2>1
  <2>3. m \in Nat
    BY ArraySetAssumption
  <2>. QED BY <2>2, <2>3
<1>3. ASSUME proper
      PROVE  /\ data \in Seq(Elements)
             /\ content = RanksOf(data)
             /\ Increasing(compare, data)
  <2>1. Proper(list, order)
    BY <1>1, <1>3, Zenon
  <2>. QED BY <1>1, <1>2, <2>1, SortSetIsRight, RanksOfList
<1>. QED BY <1>3 DEF SetInv

\* There is an index p before which all elements come before t, and from which on
\* none does: binarySearch finds it.
LEMMA Search ==
    ASSUME data \in Seq(Elements), Increasing(compare, data), NEW t \in Int
    PROVE  \E p \in 0..Len(data) :
             /\ \A k \in 1..Len(data) : k <= p <=> Less(compare, Rank(data[k]), t)
             /\ \A k \in 1..Len(data) : Rank(data[k]) = t => k = p + 1
             /\ \A find, noFind \in Int :
                  IndexOfEq(t, find, noFind) =
                    IF p < Len(data) /\ Rank(data[p + 1]) = t THEN p + find ELSE p + noFind
<1>1. /\ Len(data) \in Nat
      /\ \A k \in 1..Len(data) : data[k] \in Elements /\ Rank(data[k]) \in Int
  BY RankIsNumber
<1>. DEFINE N == Len(data)
            T == {x \in 0..N : x = N \/ ~Less(compare, Rank(data[x + 1]), t)}
<1>2. PICK p \in T : \A x \in T : p <= x
  <2>1. T \in SUBSET Nat /\ N \in T
    BY <1>1
  <2>. HIDE DEF T
  <2>. QED BY <2>1, LeastNumber
<1>3. p \in 0..N /\ (p < N => p + 1 \in 1..N /\ ~Less(compare, Rank(data[p + 1]), t))
  BY <1>1, <1>2
<1>4. ASSUME NEW k \in 1..N
      PROVE  k <= p <=> Less(compare, Rank(data[k]), t)
  <2>1. k <= p => Less(compare, Rank(data[k]), t)
    <3>1. k <= p => k - 1 \notin T /\ k - 1 \in 0..N /\ k - 1 # N
      <4>. HIDE DEF T
      <4>. QED BY <1>1, <1>2, <1>3
    <3>. QED BY <3>1
  <2>2. k > p => ~Less(compare, Rank(data[k]), t)
    <3>1. SUFFICES ASSUME k > p + 1 PROVE ~Less(compare, Rank(data[k]), t)
      BY <1>1, <1>3
    <3>2. Less(compare, Rank(data[p + 1]), Rank(data[k]))
      BY <1>1, <1>3, <3>1 DEF Increasing
    <3>. QED BY <1>1, <1>3, <3>1, <3>2, TotalOrder
  <2>. QED BY <1>1, <1>3, <2>1, <2>2
<1>5. ASSUME NEW k \in 1..N, Rank(data[k]) = t
      PROVE  k = p + 1
  <2>1. k > p
    BY <1>1, <1>3, <1>4, <1>5, TotalOrder
  <2>2. ~(k > p + 1)
    <3>. SUFFICES ASSUME k > p + 1 PROVE FALSE
      OBVIOUS
    <3>1. p + 1 \in 1..N /\ ~(p + 1 <= p)
      BY <1>1, <1>3
    <3>2. Less(compare, Rank(data[p + 1]), Rank(data[k]))
      BY <3>1 DEF Increasing
    <3>. QED BY <1>4, <1>5, <3>1, <3>2
  <2>. QED BY <1>1, <1>3, <2>1, <2>2
<1>6. Cardinality({x \in 0..Size - 1 : Compare(compare, Rank(Get(x)), t) < 0}) = p
  <2>1. {x \in 0..Size - 1 : Compare(compare, Rank(Get(x)), t) < 0} = 0..p - 1
    <3>1. ASSUME NEW x \in 0..N - 1
          PROVE  Compare(compare, Rank(Get(x)), t) < 0 <=> x + 1 <= p
      <4>1. x + 1 \in 1..N
        BY <1>1
      <4>. QED BY <1>4, <4>1 DEF Get, Less
    <3>. HIDE DEF T
    <3>. QED BY <1>1, <1>3, <3>1 DEF Size
  <2>2. Cardinality(0..p - 1) = p
    <3>1. \A n \in Nat : Cardinality(0..n - 1) = n
      <4>1. ASSUME NEW n \in Nat PROVE Cardinality(0..n - 1) = n
        BY FS_Interval
      <4>. QED BY <4>1
    <3>. HIDE DEF T
    <3>. QED BY <1>1, <1>3, <3>1
  <2>. QED BY <2>1, <2>2
<1>7. BinarySearch(t) = IF p < N /\ Rank(data[p + 1]) = t THEN p ELSE -(p + 1)
  <2>. HIDE DEF T
  <2>1. CASE p < N /\ Rank(data[p + 1]) = t
    <3>1. p \in 0..Size - 1 /\ Rank(Get(p)) = t
      BY <1>1, <1>3, <2>1 DEF Get, Size
    <3>2. \A x \in 0..Size - 1 : Rank(Get(x)) = t => x = p
      <4>1. ASSUME NEW x \in 0..Size - 1, Rank(Get(x)) = t PROVE x = p
        <5>1. x + 1 \in 1..N
          BY <1>1 DEF Size
        <5>2. x + 1 = p + 1
          BY <1>5, <4>1, <5>1 DEF Get
        <5>. QED BY <1>1, <1>3, <5>1, <5>2
      <4>. QED BY <4>1
    <3>3. (CHOOSE x \in 0..Size - 1 : Rank(Get(x)) = t) = p
      BY <3>1, <3>2
    <3>. QED BY <2>1, <3>1, <3>3 DEF BinarySearch
  <2>2. CASE ~(p < N /\ Rank(data[p + 1]) = t)
    <3>1. ASSUME NEW x \in 0..Size - 1, Rank(Get(x)) = t PROVE FALSE
      <4>1. x + 1 \in 1..N
        BY <1>1 DEF Size
      <4>2. x + 1 = p + 1
        BY <1>5, <3>1, <4>1 DEF Get
      <4>. QED BY <1>1, <1>3, <2>2, <3>1, <4>1, <4>2 DEF Get
    <3>. QED BY <1>6, <2>2, <3>1 DEF BinarySearch
  <2>. QED BY <2>1, <2>2
<1>8. ASSUME NEW find \in Int, NEW noFind \in Int
      PROVE  IndexOfEq(t, find, noFind) =
               IF p < N /\ Rank(data[p + 1]) = t THEN p + find ELSE p + noFind
  <2>. HIDE DEF T
  <2>. QED BY <1>1, <1>3, <1>7 DEF IndexOfEq
<1>. HIDE DEF T
<1>. QED BY <1>3, <1>4, <1>5, <1>8

-----------------------------------------------------------------------------
(* The views.                                                              *)

Piece(d, a, z) == IF a >= z THEN <<>> ELSE SubSeq(d, a + 1, z)

Chosen(d, a, z, R) == \A k \in 1..Len(d) : k > a /\ k <= z <=> Rank(d[k]) \in R

\* The elements from index a on, before index z, are those with a rank in R.
LEMMA Cut ==
    ASSUME NEW d \in Seq(Elements), NEW order, Increasing(order, d), NEW R,
           NEW a \in 0..Len(d), NEW z \in 0..Len(d), Chosen(d, a, z, R)
    PROVE  /\ Piece(d, a, z) \in Seq(Elements)
           /\ Increasing(order, Piece(d, a, z))
           /\ RanksOf(Piece(d, a, z)) = RanksOf(d) \cap R
<1>. DEFINE e == Piece(d, a, z)
<1>4. e = IF a >= z THEN <<>> ELSE SubSeq(d, a + 1, z)
  BY DEF Piece
<1>5. \A k \in 1..Len(d) : k > a /\ k <= z <=> Rank(d[k]) \in R
  BY DEF Chosen
<1>. HIDE DEF e
<1>1. /\ Len(d) \in Nat /\ a \in Int /\ z \in Int
      /\ \A k \in 1..Len(d) : d[k] \in Elements
  OBVIOUS
<1>2. ASSUME a >= z
      PROVE  /\ e \in Seq(Elements)
             /\ Increasing(order, e)
             /\ RanksOf(e) = RanksOf(d) \cap R
  <2>1. e = <<>> /\ e \in Seq(Elements) /\ Len(e) = 0
    BY <1>2, <1>4
  <2>2. \A k \in 1..Len(d) : Rank(d[k]) \notin R
    BY <1>1, <1>2, <1>5
  <2>3. RanksOf(d) \cap R = {}
    BY <2>2 DEF RanksOf
  <2>. QED BY <2>1, <2>3 DEF RanksOf, Increasing
<1>3. ASSUME ~(a >= z)
      PROVE  /\ e \in Seq(Elements)
             /\ Increasing(order, e)
             /\ RanksOf(e) = RanksOf(d) \cap R
  <2>1. /\ e \in Seq(Elements) /\ Len(e) = z - a
        /\ \A k \in 1..z - a : e[k] = d[a + k] /\ a + k \in 1..Len(d) /\ a + k > a /\ a + k <= z
    <3>1. e = SubSeq(d, a + 1, z)
      BY <1>3, <1>4
    <3>2. \A k \in 1..z - a : a + k \in 1..Len(d) /\ a + k > a /\ a + k <= z
      BY <1>1
    <3>3. /\ Len(SubSeq(d, a + 1, z)) = z - a
          /\ \A k \in 1..z - a : SubSeq(d, a + 1, z)[k] = d[a + k]
          /\ SubSeq(d, a + 1, z) \in Seq(Elements)
      BY <1>1, <1>3
    <3>. QED BY <3>1, <3>2, <3>3
  <2>2. Increasing(order, e)
    <3>1. ASSUME NEW k \in 1..z - a, NEW l \in 1..z - a, k < l
          PROVE  Less(order, Rank(e[k]), Rank(e[l]))
      BY <1>1, <2>1, <3>1 DEF Increasing
    <3>. QED BY <2>1, <3>1 DEF Increasing
  <2>3. RanksOf(e) \subseteq RanksOf(d) \cap R
    <3>1. ASSUME NEW k \in 1..Len(e)
          PROVE  Rank(e[k]) \in RanksOf(d) /\ Rank(e[k]) \in R
      BY <1>5, <2>1 DEF RanksOf
    <3>. QED BY <3>1 DEF RanksOf
  <2>4. (RanksOf(d) \cap R) \subseteq RanksOf(e)
    <3>1. ASSUME NEW k \in 1..Len(d), Rank(d[k]) \in R
          PROVE  Rank(d[k]) \in RanksOf(e)
      <4>1. k > a /\ k <= z
        BY <1>5, <3>1
      <4>2. k - a \in 1..z - a /\ a + (k - a) = k
        BY <1>1, <4>1
      <4>. QED BY <2>1, <4>2 DEF RanksOf
    <3>. QED BY <3>1 DEF RanksOf
  <2>. QED BY <2>1, <2>2, <2>3, <2>4
<1>. QED BY <1>2, <1>3 DEF e

\* indexOfEquals(t, 0) is the index of the first element that is not before t,
\* indexOfEquals(t, 1) of the first one after t.
LEMMA Indices ==
    ASSUME data \in Seq(Elements), Increasing(compare, data), NEW t \in Int
    PROVE  /\ IndexOfEquals(t, 0) \in 0..Len(data)
           /\ IndexOfEquals(t, 1) \in 0..Len(data)
           /\ \A k \in 1..Len(data) :
                /\ k > IndexOfEquals(t, 0) <=> ~Less(compare, Rank(data[k]), t)
                /\ k > IndexOfEquals(t, 1) <=> Less(compare, t, Rank(data[k]))
<1>1. /\ Len(data) \in Nat
      /\ \A k \in 1..Len(data) : Rank(data[k]) \in Int
  BY RankIsNumber
<1>2. PICK p \in 0..Len(data) :
        /\ \A k \in 1..Len(data) : k <= p <=> Less(compare, Rank(data[k]), t)
        /\ \A k \in 1..Len(data) : Rank(data[k]) = t => k = p + 1
        /\ \A find, noFind \in Int :
             IndexOfEq(t, find, noFind) =
               IF p < Len(data) /\ Rank(data[p + 1]) = t THEN p + find ELSE p + noFind
  BY Search
<1>3. /\ IndexOfEq(t, 0, 0) = p
      /\ IndexOfEq(t, 1, 0) = IF p < Len(data) /\ Rank(data[p + 1]) = t THEN p + 1 ELSE p
  BY <1>1, <1>2
<1>4. PICK q : q = IndexOfEq(t, 1, 0)
  OBVIOUS
<1>5. q \in 0..Len(data)
  BY <1>1, <1>3, <1>4
<1>6. ASSUME NEW k \in 1..Len(data)
      PROVE  /\ k > p <=> ~Less(compare, Rank(data[k]), t)
             /\ k > q <=> Less(compare, t, Rank(data[k]))
  <2>. DEFINE r == Rank(data[k])
  <2>1. r \in Int /\ (k <= p <=> Less(compare, r, t)) /\ (r = t => k = p + 1)
    BY <1>1, <1>2
  <2>2. /\ Less(compare, r, t) \/ r = t \/ Less(compare, t, r)
        /\ ~(Less(compare, r, t) /\ Less(compare, t, r))
        /\ ~Less(compare, t, t)
    BY <2>1, TotalOrder
  <2>3. k = p + 1 => (q = p + 1 <=> r = t)
    BY <1>1, <1>3, <1>4
  <2>4. q = p \/ q = p + 1
    BY <1>3, <1>4
  <2>. HIDE DEF r
  <2>5. k > p <=> ~Less(compare, r, t)
    BY <1>1, <2>1
  <2>6. r = t => (k > q <=> Less(compare, t, r))
    BY <1>1, <2>1, <2>2, <2>3
  <2>7. r # t => (k > q <=> Less(compare, t, r))
    BY <1>1, <2>1, <2>2, <2>3, <2>4
  <2>. QED BY <2>5, <2>6, <2>7 DEF r
<1>7. IndexOfEquals(t, 0) = p /\ IndexOfEquals(t, 1) = q
  BY <1>3, <1>4 DEF IndexOfEquals
<1>. QED BY <1>5, <1>6, <1>7

\* The index from which on the elements are after t, t included or not.
LEMMA FromIndex ==
    ASSUME data \in Seq(Elements), Increasing(compare, data), NEW t \in Int, NEW b \in BOOLEAN
    PROVE  /\ IndexOfEquals(t, IF b THEN 0 ELSE 1) \in 0..Len(data)
           /\ \A k \in 1..Len(data) :
                k > IndexOfEquals(t, IF b THEN 0 ELSE 1) <=> After(t, b, Rank(data[k]))
<1>1. /\ \A k \in 1..Len(data) : Rank(data[k]) \in Int
      /\ \A r \in Int : Compare(compare, r, t) >= 0 <=> ~Less(compare, r, t)
      /\ \A r \in Int : Compare(compare, r, t) > 0 <=> Less(compare, t, r)
  BY RankIsNumber, TotalOrder
<1>2. CASE b
  <2>1. (IF b THEN 0 ELSE 1) = 0
    BY <1>2
  <2>2. \A r \in Int : After(t, b, r) <=> ~Less(compare, r, t)
    BY <1>1, <1>2 DEF After
  <2>. QED BY <1>1, <2>1, <2>2, Indices
<1>3. CASE ~b
  <2>1. (IF b THEN 0 ELSE 1) = 1
    BY <1>3
  <2>2. \A r \in Int : After(t, b, r) <=> Less(compare, t, r)
    BY <1>1, <1>3 DEF After
  <2>. QED BY <1>1, <2>1, <2>2, Indices
<1>. QED BY <1>2, <1>3

\* The index before which the elements are before t, t included or not.
LEMMA ToIndex ==
    ASSUME data \in Seq(Elements), Increasing(compare, data), NEW t \in Int, NEW b \in BOOLEAN
    PROVE  /\ IndexOfEquals(t, IF b THEN 1 ELSE 0) \in 0..Len(data)
           /\ \A k \in 1..Len(data) :
                k <= IndexOfEquals(t, IF b THEN 1 ELSE 0) <=> Before(t, b, Rank(data[k]))
<1>1. /\ \A k \in 1..Len(data) : Rank(data[k]) \in Int
      /\ \A r \in Int : Compare(compare, r, t) < 0 <=> Less(compare, r, t)
      /\ \A r \in Int : Compare(compare, r, t) <= 0 <=> ~Less(compare, t, r)
  BY RankIsNumber, TotalOrder DEF Less
<1>4. /\ \A k \in 1..Len(data) : k <= IndexOfEquals(t, 0) <=> ~(k > IndexOfEquals(t, 0))
      /\ \A k \in 1..Len(data) : k <= IndexOfEquals(t, 1) <=> ~(k > IndexOfEquals(t, 1))
  <2>1. IndexOfEquals(t, 0) \in Int /\ IndexOfEquals(t, 1) \in Int
    <3>1. \A x : x \in 0..Len(data) => x \in Int
      OBVIOUS
    <3>. QED BY <3>1, Indices, Zenon
  <2>. QED BY <2>1
<1>2. CASE b
  <2>1. (IF b THEN 1 ELSE 0) = 1
    BY <1>2
  <2>2. \A r \in Int : Before(t, b, r) <=> ~Less(compare, t, r)
    BY <1>1, <1>2 DEF Before
  <2>. QED BY <1>1, <1>4, <2>1, <2>2, Indices
<1>3. CASE ~b
  <2>1. (IF b THEN 1 ELSE 0) = 0
    BY <1>3
  <2>2. \A r \in Int : Before(t, b, r) <=> Less(compare, r, t)
    BY <1>1, <1>3 DEF Before
  <2>. QED BY <1>1, <1>4, <2>1, <2>2, Indices
<1>. QED BY <1>2, <1>3

\* Turned round, the list is in the opposite order.
LEMMA Turned ==
    ASSUME NEW d \in Seq(Elements), NEW order, NEW other, Increasing(order, d),
           \A r, t : Less(other, r, t) <=> Less(order, t, r),
           NEW e, e = Reverse(d)
    PROVE  /\ e \in Seq(Elements)
           /\ Increasing(other, e)
           /\ RanksOf(e) = RanksOf(d)
<1>1. Len(d) \in Nat /\ \A k \in 1..Len(d) : d[k] \in Elements
  OBVIOUS
<1>2. e = [k \in 1..Len(d) |-> d[(Len(d) - k) + 1]]
  BY DEF Reverse
<1>3. \A k \in 1..Len(d) : (Len(d) - k) + 1 \in 1..Len(d)
  BY <1>1
<1>4. /\ e \in Seq(Elements) /\ Len(e) = Len(d)
      /\ \A k \in 1..Len(d) : e[k] = d[(Len(d) - k) + 1]
  BY <1>1, <1>2, <1>3
<1>5. Increasing(other, e)
  <2>1. ASSUME NEW k \in 1..Len(d), NEW l \in 1..Len(d), k < l
        PROVE  Less(other, Rank(e[k]), Rank(e[l]))
    <3>1. (Len(d) - l) + 1 < (Len(d) - k) + 1
      BY <1>1, <2>1
    <3>2. Less(order, Rank(d[(Len(d) - l) + 1]), Rank(d[(Len(d) - k) + 1]))
      BY <1>3, <3>1 DEF Increasing
    <3>. QED BY <1>4, <3>2
  <2>. QED BY <1>4, <2>1 DEF Increasing
<1>6. RanksOf(e) \subseteq RanksOf(d)
  BY <1>3, <1>4 DEF RanksOf
<1>7. RanksOf(d) \subseteq RanksOf(e)
  <2>1. ASSUME NEW k \in 1..Len(d)
        PROVE  \E l \in 1..Len(e) : Rank(d[k]) = Rank(e[l])
    <3>1. (Len(d) - ((Len(d) - k) + 1)) + 1 = k
      BY <1>1
    <3>. QED BY <1>3, <1>4, <3>1
  <2>. QED BY <2>1 DEF RanksOf
<1>. QED BY <1>4, <1>5, <1>6, <1>7

LEMMA SetStep == SetInv /\ [Next]_vars => SetInv'
<1>. SUFFICES ASSUME SetInv, [Next]_vars, proper'
              PROVE  (/\ data \in Seq(Elements)
                      /\ content = RanksOf(data)
                      /\ Increasing(compare, data))'
  BY DEF SetInv
<1>1. proper' = proper
  BY DEF Next, SubSet, HeadSet, TailSet, DescendingSet, Keep, vars
<1>2. /\ data \in Seq(Elements)
      /\ content = RanksOf(data)
      /\ Increasing(compare, data)
  BY <1>1, Zenon DEF SetInv
<1>3. Len(data) \in Nat /\ Arguments \subseteq Int
  BY <1>2 DEF Arguments
<1>4. ASSUME NEW t \in Arguments, NEW e \in Arguments, NEW b \in BOOLEAN, NEW b1 \in BOOLEAN,
             SubSet(t, b, e, b1)
      PROVE  (/\ data \in Seq(Elements)
              /\ content = RanksOf(data)
              /\ Increasing(compare, data))'
  <2>. DEFINE R == {r \in RanksOf(data) : After(t, b, r) /\ Before(e, b1, r)}
  <2>1. PICK a \in 0..Len(data) :
          /\ a = IndexOfEquals(t, IF b THEN 0 ELSE 1)
          /\ \A k \in 1..Len(data) : k > a <=> After(t, b, Rank(data[k]))
    BY <1>2, <1>3, FromIndex, Zenon
  <2>2. PICK z \in 0..Len(data) :
          /\ z = IndexOfEquals(e, IF b1 THEN 1 ELSE 0)
          /\ \A k \in 1..Len(data) : k <= z <=> Before(e, b1, Rank(data[k]))
    BY <1>2, <1>3, ToIndex, Zenon
  <2>3. data' = IF a >= z THEN <<>> ELSE SubSeq(data, a + 1, z)
    BY <1>4, <2>1, <2>2, Zenon DEF SubSet, SubList
  <2>4. content' = {r \in content : After(t, b, r) /\ Before(e, b1, r)} /\ compare' = compare
    BY <1>4 DEF SubSet, Keep
  <2>5. \A k \in 1..Len(data) : k > a /\ k <= z <=> Rank(data[k]) \in R
    BY <2>1, <2>2 DEF RanksOf
  <2>6. content' = RanksOf(data) \cap R
    BY <1>2, <2>4
  <2>. HIDE DEF R
  <2>7. PICK d : d = data' /\ d = Piece(data, a, z)
    BY <2>3 DEF Piece
  <2>10. Chosen(data, a, z, R)
    BY <2>5 DEF Chosen
  <2>8. /\ Piece(data, a, z) \in Seq(Elements)
        /\ Increasing(compare, Piece(data, a, z))
        /\ RanksOf(Piece(data, a, z)) = RanksOf(data) \cap R
    BY <1>2, <2>10, Cut
  <2>. QED BY <2>4, <2>6, <2>7, <2>8 DEF RanksOf, Increasing
<1>5. ASSUME NEW t \in Arguments, NEW b \in BOOLEAN, HeadSet(t, b)
      PROVE  (/\ data \in Seq(Elements)
              /\ content = RanksOf(data)
              /\ Increasing(compare, data))'
  <2>. DEFINE R == {r \in RanksOf(data) : Before(t, b, r)}
  <2>2. PICK z \in 0..Len(data) :
          /\ z = IndexOfEquals(t, IF b THEN 1 ELSE 0)
          /\ \A k \in 1..Len(data) : k <= z <=> Before(t, b, Rank(data[k]))
    BY <1>2, <1>3, ToIndex, Zenon
  <2>3. data' = IF 0 >= z THEN <<>> ELSE SubSeq(data, 0 + 1, z)
    BY <1>5, <2>2, Zenon DEF HeadSet, SubList
  <2>4. content' = {r \in content : Before(t, b, r)} /\ compare' = compare
    BY <1>5 DEF HeadSet, Keep
  <2>5. \A k \in 1..Len(data) : k > 0 /\ k <= z <=> Rank(data[k]) \in R
    BY <2>2 DEF RanksOf
  <2>6. content' = RanksOf(data) \cap R
    BY <1>2, <2>4
  <2>. HIDE DEF R
  <2>7. PICK d : d = data' /\ d = Piece(data, 0, z)
    BY <2>3 DEF Piece
  <2>10. Chosen(data, 0, z, R)
    BY <2>5 DEF Chosen
  <2>9. 0 \in 0..Len(data)
    BY <1>3
  <2>8. /\ Piece(data, 0, z) \in Seq(Elements)
        /\ Increasing(compare, Piece(data, 0, z))
        /\ RanksOf(Piece(data, 0, z)) = RanksOf(data) \cap R
    BY <1>2, <2>9, <2>10, Cut
  <2>. QED BY <2>4, <2>6, <2>7, <2>8 DEF RanksOf, Increasing
<1>6. ASSUME NEW t \in Arguments, NEW b \in BOOLEAN, TailSet(t, b)
      PROVE  (/\ data \in Seq(Elements)
              /\ content = RanksOf(data)
              /\ Increasing(compare, data))'
  <2>. DEFINE R == {r \in RanksOf(data) : After(t, b, r)}
  <2>1. PICK a \in 0..Len(data) :
          /\ a = IndexOfEquals(t, IF b THEN 0 ELSE 1)
          /\ \A k \in 1..Len(data) : k > a <=> After(t, b, Rank(data[k]))
    BY <1>2, <1>3, FromIndex, Zenon
  <2>3. data' = IF a >= Len(data) THEN <<>> ELSE SubSeq(data, a + 1, Len(data))
    BY <1>6, <2>1, Zenon DEF TailSet, SubList, Size
  <2>4. content' = {r \in content : After(t, b, r)} /\ compare' = compare
    BY <1>6 DEF TailSet, Keep
  <2>5. \A k \in 1..Len(data) : k > a /\ k <= Len(data) <=> Rank(data[k]) \in R
    BY <2>1 DEF RanksOf
  <2>6. content' = RanksOf(data) \cap R
    BY <1>2, <2>4
  <2>. HIDE DEF R
  <2>7. PICK d : d = data' /\ d = Piece(data, a, Len(data))
    BY <2>3 DEF Piece
  <2>10. Chosen(data, a, Len(data), R)
    BY <2>5 DEF Chosen
  <2>9. Len(data) \in 0..Len(data)
    BY <1>3
  <2>8. /\ Piece(data, a, Len(data)) \in Seq(Elements)
        /\ Increasing(compare, Piece(data, a, Len(data)))
        /\ RanksOf(Piece(data, a, Len(data))) = RanksOf(data) \cap R
    BY <1>2, <2>9, <2>10, Cut
  <2>. QED BY <2>4, <2>6, <2>7, <2>8 DEF RanksOf, Increasing
<1>7. ASSUME DescendingSet
      PROVE  (/\ data \in Seq(Elements)
              /\ content = RanksOf(data)
              /\ Increasing(compare, data))'
  <2>1. PICK other : other = compare'
    OBVIOUS
  <2>2. PICK d : d = data'
    OBVIOUS
  <2>3. d = Reverse(data) /\ other = IF compare = "reverse" THEN "natural" ELSE "reverse"
    BY <1>7, <2>1, <2>2 DEF DescendingSet
  <2>4. \A r, t : Less(other, r, t) <=> Less(compare, t, r)
    BY <2>3 DEF Less, Compare
  <2>5. content' = content
    BY <1>7 DEF DescendingSet, Keep
  <2>6. /\ d \in Seq(Elements)
        /\ Increasing(other, d)
        /\ RanksOf(d) = RanksOf(data)
    BY <1>2, <2>3, <2>4, Turned
  <2>. QED BY <1>2, <2>1, <2>2, <2>5, <2>6 DEF RanksOf, Increasing
<1>8. CASE UNCHANGED vars
  BY <1>2, <1>8 DEF vars, RanksOf, Increasing
<1>. QED BY <1>4, <1>5, <1>6, <1>7, <1>8 DEF Next

\* The list is sorted, has no two equal elements, and has the elements of the
\* mathematical set: each constructor and each view leaves it so.
THEOREM SetIsInOrder == Spec => []SetInv
<1>. QED BY SetInit, SetStep, PTL DEF Spec

\* The list holds the elements of the mathematical set that was built of the
\* same collection and cut by the same views, each once and in order.
THEOREM ViewsHoldTheirElements == Spec => []SameElements
<1>1. SetInv => SameElements
  <2>. SUFFICES ASSUME SetInv, proper
                PROVE  /\ {Rank(x) : x \in ToSet(data)} = content
                       /\ \A x, y \in 0..Size - 1 :
                            x < y => Compare(compare, Rank(Get(x)), Rank(Get(y))) < 0
    BY DEF SameElements
  <2>1. /\ data \in Seq(Elements)
        /\ content = RanksOf(data)
        /\ Increasing(compare, data)
    BY DEF SetInv
  <2>2. ASSUME NEW x \in 0..Size - 1, NEW y \in 0..Size - 1, x < y
        PROVE  Compare(compare, Rank(Get(x)), Rank(Get(y))) < 0
    <3>1. x + 1 \in 1..Len(data) /\ y + 1 \in 1..Len(data) /\ x + 1 < y + 1
      BY <2>1, <2>2 DEF Size
    <3>2. Less(compare, Rank(data[x + 1]), Rank(data[y + 1]))
      BY <2>1, <3>1 DEF Increasing
    <3>. QED BY <3>2 DEF Less, Get
  <2>. QED BY <2>1, <2>2, RanksOfList
<1>. QED BY <1>1, SetIsInOrder, PTL

-----------------------------------------------------------------------------
(* The answers.                                                            *)

LEMMA NotNone == \A x \in Elements : x # None
BY DEF Elements, None

\* The least of the elements in S is the one at k if all the others are at k or
\* after it, in the order that S is searched in.
LEMMA LeastOfList ==
    ASSUME NEW d \in Seq(Elements), NEW order, NEW S \in SUBSET RanksOf(d),
           NEW k \in 1..Len(d), Rank(d[k]) \in S,
           \A l \in 1..Len(d) : Rank(d[l]) \in S => ~Less(order, Rank(d[l]), Rank(d[k]))
    PROVE  IsLeast(d[k], S, order)
<1>1. d[k] \in Elements /\ \A l \in 1..Len(d) : Rank(d[l]) \in Int
  BY RankIsNumber
<1>2. d[k] # None
  BY <1>1, NotNone
<1>3. ASSUME NEW r \in S
      PROVE  Compare(order, Rank(d[k]), r) <= 0
  <2>1. PICK l \in 1..Len(d) : r = Rank(d[l])
    BY DEF RanksOf
  <2>. QED BY <1>1, <1>3, <2>1, TotalOrder
<1>. QED BY <1>2, <1>3 DEF IsLeast

LEMMA Answers ==
    ASSUME SetInv, proper, NEW t \in Arguments
    PROVE  /\ Has(t) <=> t \in content
           /\ IsLeast(Lower(t), {r \in content : Before(t, FALSE, r)}, Opposite(compare))
           /\ IsLeast(Floor(t), {r \in content : Before(t, TRUE, r)}, Opposite(compare))
           /\ IsLeast(Ceiling(t), {r \in content : After(t, TRUE, r)}, compare)
           /\ IsLeast(Higher(t), {r \in content : After(t, FALSE, r)}, compare)
<1>. DEFINE N == Len(data)
            L(r, s) == Less(compare, r, s)
<1>1. /\ data \in Seq(Elements)
      /\ content = RanksOf(data)
      /\ Increasing(compare, data)
      /\ t \in Int
  BY DEF SetInv, Arguments
<1>2. /\ N \in Nat
      /\ \A k \in 1..N : data[k] \in Elements /\ Rank(data[k]) \in Int
  BY <1>1, RankIsNumber
<1>3. PICK p \in 0..N :
        /\ \A k \in 1..N : k <= p <=> L(Rank(data[k]), t)
        /\ \A k \in 1..N : Rank(data[k]) = t => k = p + 1
        /\ \A find, noFind \in Int :
             IndexOfEq(t, find, noFind) =
               IF p < N /\ Rank(data[p + 1]) = t THEN p + find ELSE p + noFind
  BY <1>1, Search
<1>4. /\ \A r \in Int : Before(t, FALSE, r) <=> L(r, t)
      /\ \A r \in Int : Before(t, TRUE, r) <=> ~L(t, r)
      /\ \A r \in Int : After(t, TRUE, r) <=> ~L(r, t)
      /\ \A r \in Int : After(t, FALSE, r) <=> L(t, r)
  <2>1. \A r \in Int : /\ Compare(compare, r, t) < 0 <=> L(r, t)
                       /\ Compare(compare, r, t) <= 0 <=> ~L(t, r)
                       /\ Compare(compare, r, t) >= 0 <=> ~L(r, t)
                       /\ Compare(compare, r, t) > 0 <=> L(t, r)
    BY <1>1, TotalOrder DEF Less
  <2>. QED BY <2>1 DEF Before, After
<1>5. ASSUME NEW k \in 1..N
      PROVE  /\ L(Rank(data[k]), t) \/ Rank(data[k]) = t \/ L(t, Rank(data[k]))
             /\ L(Rank(data[k]), t) => Rank(data[k]) # t /\ ~L(t, Rank(data[k]))
             /\ L(t, Rank(data[k])) => Rank(data[k]) # t
  BY <1>1, <1>2, TotalOrder
<1>6. ASSUME NEW k \in 1..N, NEW l \in 1..N
      PROVE  /\ L(Rank(data[k]), Rank(data[l])) <=> k < l
             /\ Less(Opposite(compare), Rank(data[k]), Rank(data[l])) <=> l < k
  <2>1. k < l => L(Rank(data[k]), Rank(data[l]))
    BY <1>1 DEF Increasing
  <2>2. l < k => L(Rank(data[l]), Rank(data[k]))
    BY <1>1 DEF Increasing
  <2>3. ~(L(Rank(data[k]), Rank(data[l])) /\ L(Rank(data[l]), Rank(data[k]))) /\ ~L(Rank(data[l]), Rank(data[l]))
    BY <1>2, TotalOrder
  <2>4. Less(Opposite(compare), Rank(data[k]), Rank(data[l])) <=> L(Rank(data[l]), Rank(data[k]))
    BY DEF Less, Compare, Opposite
  <2>5. k < l \/ l < k \/ k = l
    OBVIOUS
  <2>. QED BY <2>1, <2>2, <2>3, <2>4, <2>5
<1>. HIDE DEF L
<1>7. PICK lower, floor, ceiling, higher :
        /\ lower = p - 1 /\ ceiling = p
        /\ floor = IF p < N /\ Rank(data[p + 1]) = t THEN p ELSE p - 1
        /\ higher = IF p < N /\ Rank(data[p + 1]) = t THEN p + 1 ELSE p
  OBVIOUS
<1>8. /\ IndexOf(t) = p
      /\ IndexOfEq(t, 0, -1) = floor
      /\ IndexOfEquals(t, 1) = higher
  <2>1. /\ IndexOfEq(t, 0, 0) = p
        /\ IndexOfEq(t, 1, 0) = IF p < N /\ Rank(data[p + 1]) = t THEN p + 1 ELSE p
        /\ IndexOfEq(t, 0, -1) = IF p < N /\ Rank(data[p + 1]) = t THEN p ELSE p - 1
    <3>1. /\ \A noFind \in Int : IndexOfEq(t, 0, noFind) =
               IF p < N /\ Rank(data[p + 1]) = t THEN p + 0 ELSE p + noFind
          /\ IndexOfEq(t, 1, 0) = IF p < N /\ Rank(data[p + 1]) = t THEN p + 1 ELSE p + 0
      BY <1>3
    <3>2. p \in Int
      BY <1>2
    <3>. HIDE DEF N
    <3>. QED BY <3>1, <3>2
  <2>2. IndexOf(t) = p
    BY <2>1, Zenon DEF IndexOf
  <2>3. IndexOfEquals(t, 1) = IndexOfEq(t, 1, 0)
    BY Zenon DEF IndexOfEquals
  <2>4. IndexOfEq(t, 0, -1) = floor /\ IndexOfEq(t, 1, 0) = higher
    BY <1>7, <2>1
  <2>. QED BY <2>2, <2>3, <2>4
<1>9. /\ lower \in -1..N - 1 /\ floor \in -1..N - 1
      /\ ceiling \in 0..N /\ higher \in 0..N
  BY <1>2, <1>3, <1>7
<1>10. ASSUME NEW k \in 1..N
       PROVE  /\ Before(t, FALSE, Rank(data[k])) <=> k <= lower + 1
              /\ Before(t, TRUE, Rank(data[k])) <=> k <= floor + 1
              /\ After(t, TRUE, Rank(data[k])) <=> k > ceiling
              /\ After(t, FALSE, Rank(data[k])) <=> k > higher
  <2>1. /\ Before(t, FALSE, Rank(data[k])) <=> L(Rank(data[k]), t)
        /\ Before(t, TRUE, Rank(data[k])) <=> ~L(t, Rank(data[k]))
        /\ After(t, TRUE, Rank(data[k])) <=> ~L(Rank(data[k]), t)
        /\ After(t, FALSE, Rank(data[k])) <=> L(t, Rank(data[k]))
    BY <1>2, <1>4
  <2>2. k <= p <=> L(Rank(data[k]), t)
    BY <1>3
  <2>3. k = p + 1 => (floor = p /\ higher = p + 1 <=> Rank(data[k]) = t)
    BY <1>2, <1>7
  <2>4. (floor = p /\ higher = p + 1) \/ (floor = p - 1 /\ higher = p)
    BY <1>7
  <2>5. Rank(data[k]) = t => k = p + 1
    BY <1>3
  <2>6. k <= floor + 1 <=> ~L(t, Rank(data[k]))
    BY <1>2, <1>5, <2>2, <2>3, <2>4, <2>5
  <2>7. k > higher <=> L(t, Rank(data[k]))
    BY <1>2, <1>5, <2>2, <2>3, <2>4, <2>5
  <2>8. lower + 1 = p /\ ceiling = p /\ (k > p <=> ~(k <= p))
    BY <1>2, <1>7
  <2>. QED BY <2>1, <2>2, <2>6, <2>7, <2>8
<1>11. ASSUME NEW S \in SUBSET content, NEW z \in -1..N - 1,
              \A k \in 1..N : Rank(data[k]) \in S <=> k <= z + 1
       PROVE  IsLeast(IF z < 0 THEN None ELSE Get(z), S, Opposite(compare))
  <2>1. CASE z < 0
    <3>1. \A k \in 1..N : Rank(data[k]) \notin S
      BY <1>2, <1>11, <2>1
    <3>2. S = {}
      BY <1>1, <3>1 DEF RanksOf
    <3>. QED BY <2>1, <3>2 DEF IsLeast
  <2>2. CASE ~(z < 0)
    <3>1. z + 1 \in 1..N /\ z + 1 <= z + 1
      BY <1>2, <2>2
    <3>2. \A l \in 1..N : Rank(data[l]) \in S =>
            ~Less(Opposite(compare), Rank(data[l]), Rank(data[z + 1]))
      <4>1. ASSUME NEW l \in 1..N, Rank(data[l]) \in S
            PROVE  ~Less(Opposite(compare), Rank(data[l]), Rank(data[z + 1]))
        <5>1. l <= z + 1 /\ ~(z + 1 < l)
          BY <1>2, <1>11, <4>1
        <5>. QED BY <1>6, <3>1, <5>1
      <4>. QED BY <4>1
    <3>3. IsLeast(data[z + 1], S, Opposite(compare))
      BY <1>1, <1>11, <3>1, <3>2, LeastOfList
    <3>. QED BY <2>2, <3>3 DEF Get
  <2>. QED BY <2>1, <2>2
<1>12. ASSUME NEW S \in SUBSET content, NEW a \in 0..N,
              \A k \in 1..N : Rank(data[k]) \in S <=> k > a
       PROVE  IsLeast(IF a >= Size THEN None ELSE Get(a), S, compare)
  <2>1. CASE a >= N
    <3>1. \A k \in 1..N : Rank(data[k]) \notin S
      BY <1>2, <1>12, <2>1
    <3>2. S = {}
      BY <1>1, <3>1 DEF RanksOf
    <3>. QED BY <2>1, <3>2 DEF IsLeast, Size
  <2>2. CASE ~(a >= N)
    <3>1. a + 1 \in 1..N /\ a + 1 > a
      BY <1>2, <2>2
    <3>2. \A l \in 1..N : Rank(data[l]) \in S => ~Less(compare, Rank(data[l]), Rank(data[a + 1]))
      <4>1. ASSUME NEW l \in 1..N, Rank(data[l]) \in S
            PROVE  ~Less(compare, Rank(data[l]), Rank(data[a + 1]))
        <5>1. l > a /\ ~(l < a + 1)
          BY <1>2, <1>12, <4>1
        <5>. QED BY <1>6, <3>1, <5>1 DEF L
      <4>. QED BY <4>1
    <3>3. IsLeast(data[a + 1], S, compare)
      BY <1>1, <1>12, <3>1, <3>2, LeastOfList
    <3>. QED BY <2>2, <3>3 DEF Get, Size
  <2>. QED BY <2>1, <2>2
<1>13. Has(t) <=> t \in content
  <2>1. t \in content <=> p < N /\ Rank(data[p + 1]) = t
    <3>1. ASSUME t \in content
          PROVE  p < N /\ Rank(data[p + 1]) = t
      <4>1. PICK k \in 1..N : Rank(data[k]) = t
        BY <1>1, <3>1 DEF RanksOf
      <4>2. k = p + 1
        BY <1>3, <4>1
      <4>. QED BY <1>2, <4>1, <4>2
    <3>2. ASSUME p < N, Rank(data[p + 1]) = t
          PROVE  t \in content
      <4>1. p + 1 \in 1..N
        BY <1>2, <3>2
      <4>. QED BY <1>1, <3>2, <4>1 DEF RanksOf
    <3>. QED BY <3>1, <3>2
  <2>2. Has(t) <=> N > 0 /\ Rank(data[(p % N) + 1]) = t
    BY <1>8 DEF Has, Size, Get
  <2>3. CASE p < N
    <3>1. p % N = p /\ N > 0
      <4>1. \A x, n \in Nat : x < n => x % n = x
        OBVIOUS
      <4>2. p \in Nat
        BY <1>2
      <4>. HIDE DEF N
      <4>. QED BY <1>2, <2>3, <4>1, <4>2
    <3>. QED BY <2>1, <2>2, <2>3, <3>1
  <2>4. CASE ~(p < N)
    <3>1. p = N
      BY <1>2, <2>4
    <3>2. N > 0 => Rank(data[(p % N) + 1]) # t
      <4>1. N > 0 => p % N = 0 /\ 1 \in 1..N /\ 1 <= p
        BY <1>2, <3>1
      <4>2. N > 0 => L(Rank(data[1]), t)
        BY <1>3, <4>1
      <4>3. N > 0 => Rank(data[1]) # t
        BY <1>5, <4>1, <4>2
      <4>. QED BY <4>1, <4>3
    <3>. QED BY <2>1, <2>2, <2>4, <3>2
  <2>. QED BY <2>3, <2>4
<1>. HIDE DEF N
<1>14. IsLeast(Lower(t), {r \in content : Before(t, FALSE, r)}, Opposite(compare))
  <2>. DEFINE S == {r \in content : Before(t, FALSE, r)}
  <2>1. \A k \in 1..N : Rank(data[k]) \in S <=> k <= lower + 1
    BY <1>1, <1>10 DEF RanksOf, N
  <2>2. Lower(t) = IF lower < 0 THEN None ELSE Get(lower)
    BY <1>7, <1>8 DEF Lower
  <2>3. S \in SUBSET content
    OBVIOUS
  <2>. HIDE DEF S
  <2>4. IsLeast(IF lower < 0 THEN None ELSE Get(lower), S, Opposite(compare))
    BY <1>9, <1>11, <2>1, <2>3
  <2>. QED BY <2>2, <2>4, Zenon DEF S
<1>15. IsLeast(Floor(t), {r \in content : Before(t, TRUE, r)}, Opposite(compare))
  <2>. DEFINE S == {r \in content : Before(t, TRUE, r)}
  <2>1. \A k \in 1..N : Rank(data[k]) \in S <=> k <= floor + 1
    BY <1>1, <1>10 DEF RanksOf, N
  <2>2. Floor(t) = IF floor < 0 THEN None ELSE Get(floor)
    BY <1>7, <1>8 DEF Floor
  <2>3. S \in SUBSET content
    OBVIOUS
  <2>. HIDE DEF S
  <2>4. IsLeast(IF floor < 0 THEN None ELSE Get(floor), S, Opposite(compare))
    BY <1>9, <1>11, <2>1, <2>3
  <2>. QED BY <2>2, <2>4, Zenon DEF S
<1>16. IsLeast(Ceiling(t), {r \in content : After(t, TRUE, r)}, compare)
  <2>. DEFINE S == {r \in content : After(t, TRUE, r)}
  <2>1. \A k \in 1..N : Rank(data[k]) \in S <=> k > ceiling
    BY <1>1, <1>10 DEF RanksOf, N
  <2>2. Ceiling(t) = IF ceiling >= Size THEN None ELSE Get(ceiling)
    BY <1>7, <1>8 DEF Ceiling
  <2>3. S \in SUBSET content
    OBVIOUS
  <2>. HIDE DEF S
  <2>4. IsLeast(IF ceiling >= Size THEN None ELSE Get(ceiling), S, compare)
    BY <1>9, <1>12, <2>1, <2>3
  <2>. QED BY <2>2, <2>4, Zenon DEF S
<1>17. IsLeast(Higher(t), {r \in content : After(t, FALSE, r)}, compare)
  <2>. DEFINE S == {r \in content : After(t, FALSE, r)}
  <2>1. \A k \in 1..N : Rank(data[k]) \in S <=> k > higher
    BY <1>1, <1>10 DEF RanksOf, N
  <2>2. Higher(t) = IF higher >= Size THEN None ELSE Get(higher)
    BY <1>7, <1>8 DEF Higher
  <2>3. S \in SUBSET content
    OBVIOUS
  <2>. HIDE DEF S
  <2>4. IsLeast(IF higher >= Size THEN None ELSE Get(higher), S, compare)
    BY <1>9, <1>12, <2>1, <2>3
  <2>. QED BY <2>2, <2>4, Zenon DEF S
<1>. QED BY <1>13, <1>14, <1>15, <1>16, <1>17

\* The queries find the neighbours of every argument in whatever view: the
\* index they search for is right at both ends, and between two elements.
THEOREM ViewsAnswerRight == Spec => []SameAnswers
<1>1. SetInv => SameAnswers
  BY Answers, Zenon DEF SameAnswers
<1>. QED BY <1>1, SetIsInOrder, PTL

-----------------------------------------------------------------------------
(* The nearest class that declares a method.                               *)

\* A finite set of numbers has a greatest one. No induction over the numbers: of the
\* sets of what is above an element one is minimal, and it is empty.
LEMMA Greatest ==
    ASSUME NEW c \in Nat, NEW D \in SUBSET (1..c), D # {}
    PROVE  \E d \in D : \A e \in D : e <= d
<1>. DEFINE Above(d) == {e \in D : d < e}
            T == {Above(d) : d \in D}
<1>1. IsFiniteSet(D)
  <2>1. IsFiniteSet(1..c)
    BY FS_Interval
  <2>. QED BY <2>1, FS_Subset
<1>2. IsWellFoundedOn(StrictSubsetOrdering(D), FiniteSubsetsOf(D))
  BY FS_StrictSubsetOrderingWellFounded
<1>3. T \subseteq FiniteSubsetsOf(D) /\ T # {}
  <2>1. \A d \in D : Above(d) \in SUBSET D /\ IsFiniteSet(Above(d))
    BY <1>1, FS_Subset
  <2>2. T \subseteq FiniteSubsetsOf(D)
    BY <2>1 DEF FiniteSubsetsOf
  <2>. QED BY <2>2
<1>4. PICK A \in T : \A B \in T : <<B, A>> \notin StrictSubsetOrdering(D)
  <2>. HIDE DEF T
  <2>. QED BY <1>2, <1>3, WFMin
<1>5. PICK d \in D : A = Above(d)
  BY <1>4
<1>6. ASSUME NEW e \in Above(d)
      PROVE  FALSE
  <2>1. e \in D /\ d < e /\ d \in Int /\ e \in Int
    OBVIOUS
  <2>2. Above(e) \subseteq Above(d)
    <3>. SUFFICES ASSUME NEW n \in D, e < n PROVE d < n
      OBVIOUS
    <3>1. n \in Int
      OBVIOUS
    <3>. QED BY <2>1, <3>1
  <2>3. e \notin Above(e)
    BY <2>1
  <2>4. Above(e) \in T
    BY <2>1
  <2>5. <<Above(e), A>> \in StrictSubsetOrdering(D)
    BY <1>5, <1>6, <2>2, <2>3 DEF StrictSubsetOrdering
  <2>. QED BY <1>4, <2>4, <2>5
<1>7. \A e \in D : e <= d
  <2>. SUFFICES ASSUME NEW e \in D PROVE e <= d
    OBVIOUS
  <2>1. ~(d < e)
    BY <1>6
  <2>. QED BY <2>1
<1>. QED BY <1>7

HierarchyOK == classes \in Seq(Class) /\ Len(classes) <= MaxClasses

\* What the first c classes say of the method m.
LEMMA NearestDeclares ==
    ASSUME NEW c \in Nat, NEW m, Declaring(c, m) # {}
    PROVE  /\ Nearest(c, m) \in Declaring(c, m)
           /\ \A e \in Declaring(c, m) : e <= Nearest(c, m)
<1>1. Declaring(c, m) \in SUBSET (1..c)
  BY DEF Declaring
<1>2. \E d \in Declaring(c, m) : \A e \in Declaring(c, m) : e <= d
  BY <1>1, Greatest
<1>. QED BY <1>2 DEF Nearest

LEMMA OwnTypes ==
    ASSUME HierarchyOK, NEW c \in 1..Len(classes), NEW m \in Signatures
    PROVE  Own(c, m) \in Declarations \cup {Absent}
<1>1. classes[c] \in Class
  BY DEF HierarchyOK
<1>. QED BY <1>1 DEF Class, Own

\* The methods that are written: those of the superclasses, and one of
\* each public abstract method, or one for each interface.
LEMMA WrittenMethods ==
    ASSUME HierarchyOK, NEW c \in 1..Len(classes), NEW m \in Signatures, NEW w
    PROVE  w \in WrittenFor(c, m) <=>
              \/ \E d \in 1..c :
                    /\ Own(d, m).kind = "abstract" /\ Own(d, m).access # Public
                    /\ w = [method |-> m, by |-> d, access |-> Own(d, m).access]
              \/ /\ Declaring(c, m) # {} /\ Access(c, m) = Public /\ IsAbstract(c, m)
                 /\ w = [method |-> m, by |-> Nearest(c, m), access |-> Public]
              \/ /\ Declaring(c, m) = {} /\ IsAbstract(c, m)
                 /\ \E i \in FromInterfaces(c, m) :
                        w = [method |-> m, by |-> i, access |-> Public]
<1>1. w \in ProtectedMethods(c) /\ w.method = m <=>
        \E d \in 1..c : /\ Own(d, m).kind = "abstract" /\ Own(d, m).access # Public
                        /\ w = [method |-> m, by |-> d, access |-> Own(d, m).access]
  BY DEF ProtectedMethods
<1>2. w \in ReflectedMethods(c) /\ w.method = m <=>
        \/ /\ Declaring(c, m) # {} /\ Access(c, m) = Public
           /\ w = [method |-> m, by |-> Nearest(c, m), access |-> Public]
        \/ /\ Declaring(c, m) = {}
           /\ \E i \in FromInterfaces(c, m) : w = [method |-> m, by |-> i, access |-> Public]
  BY DEF ReflectedMethods
<1>3. w \in WrittenFor(c, m) <=>
        \/ w \in ProtectedMethods(c) /\ w.method = m
        \/ w \in ReflectedMethods(c) /\ w.method = m /\ IsAbstract(c, m)
  BY DEF WrittenFor, Written
<1>. QED BY <1>1, <1>2, <1>3

LEMMA NothingForgotten ==
    ASSUME HierarchyOK, NEW c \in 1..Len(classes), NEW m \in Signatures, IsAbstract(c, m)
    PROVE  WrittenFor(c, m) # {}
<1>1. CASE Declaring(c, m) = {}
  <2>1. PICK i : i \in FromInterfaces(c, m)
    BY <1>1 DEF IsAbstract
  <2>. DEFINE w == [method |-> m, by |-> i, access |-> Public]
  <2>2. w \in WrittenFor(c, m)
    BY <1>1, <2>1, WrittenMethods
  <2>. QED BY <2>2
<1>2. CASE Declaring(c, m) # {}
  <2>. DEFINE n == Nearest(c, m)
  <2>1. n \in 1..c /\ Own(n, m).kind = "abstract" /\ Access(c, m) = Own(n, m).access
    BY <1>2, NearestDeclares DEF Declaring, IsAbstract, Access
  <2>2. CASE Own(n, m).access = Public
    <3>. DEFINE w == [method |-> m, by |-> n, access |-> Public]
    <3>1. w \in WrittenFor(c, m)
      BY <1>2, <2>1, <2>2, WrittenMethods
    <3>. QED BY <3>1
  <2>3. CASE Own(n, m).access # Public
    <3>. DEFINE w == [method |-> m, by |-> n, access |-> Own(n, m).access]
    <3>1. w \in WrittenFor(c, m)
      BY <2>1, <2>3, WrittenMethods
    <3>. QED BY <3>1
  <2>. QED BY <2>2, <2>3
<1>. QED BY <1>1, <1>2

\* If nothing is declared again, what is written of a class is its nearest
\* declaration, and this one is abstract.
LEMMA OnceIfNever ==
    ASSUME HierarchyOK, NEW c \in 1..Len(classes), NeverRedeclared(c), OneInterface(c)
    PROVE  WritesOnce(c)
<1>. SUFFICES ASSUME NEW m \in Signatures
              PROVE  /\ IsAbstract(c, m) <=> WrittenFor(c, m) # {}
                     /\ \A v, w \in WrittenFor(c, m) : v = w /\ w.access = Access(c, m)
  BY DEF WritesOnce
<1>1. CASE Declaring(c, m) = {}
  <2>1. ~\E d \in 1..c : Own(d, m).kind = "abstract"
    <3>1. \A d \in 1..c : Own(d, m) = Absent
      BY <1>1 DEF Declaring
    <3>. QED BY <3>1 DEF Absent
  <2>2. \A w \in WrittenFor(c, m) :
            /\ IsAbstract(c, m)
            /\ \E i \in FromInterfaces(c, m) : w = [method |-> m, by |-> i, access |-> Public]
    BY <1>1, <2>1, WrittenMethods
  <2>3. Access(c, m) = Public
    BY <1>1 DEF Access
  <2>4. \A i, j \in FromInterfaces(c, m) : i = j
    BY <1>1 DEF OneInterface
  <2>5. \A v, w \in WrittenFor(c, m) : v = w /\ w.access = Access(c, m)
    BY <2>2, <2>3, <2>4
  <2>. QED BY <2>2, <2>5, NothingForgotten
<1>2. CASE Declaring(c, m) # {}
  <2>. DEFINE n == Nearest(c, m)
  <2>1. /\ n \in 1..c /\ Own(n, m) # Absent /\ Access(c, m) = Own(n, m).access
        /\ IsAbstract(c, m) <=> Own(n, m).kind = "abstract"
        /\ \A e \in Declaring(c, m) : e <= n
    BY <1>2, NearestDeclares DEF Declaring, IsAbstract, Access
  <2>2. ASSUME NEW d \in 1..c, Own(d, m).kind = "abstract", Own(d, m).access # Public
        PROVE  d = n
    <3>1. Own(d, m) # Absent
      BY <2>2 DEF Absent
    <3>2. d \in Declaring(c, m)
      BY <3>1 DEF Declaring
    <3>3. ~(d < n)
      BY <2>1, <2>2 DEF NeverRedeclared
    <3>. QED BY <2>1, <3>2, <3>3
  <2>3. \A w \in WrittenFor(c, m) :
            /\ IsAbstract(c, m)
            /\ w = [method |-> m, by |-> n, access |-> Own(n, m).access]
    <3>. SUFFICES ASSUME NEW w \in WrittenFor(c, m)
                  PROVE  /\ IsAbstract(c, m)
                         /\ w = [method |-> m, by |-> n, access |-> Own(n, m).access]
      OBVIOUS
    <3>1. CASE \E d \in 1..c :
                  /\ Own(d, m).kind = "abstract" /\ Own(d, m).access # Public
                  /\ w = [method |-> m, by |-> d, access |-> Own(d, m).access]
      BY <2>1, <2>2, <3>1
    <3>2. CASE /\ Access(c, m) = Public /\ IsAbstract(c, m)
               /\ w = [method |-> m, by |-> n, access |-> Public]
      BY <2>1, <3>2
    <3>. QED BY <1>2, <3>1, <3>2, WrittenMethods
  <2>4. \A v, w \in WrittenFor(c, m) : v = w /\ w.access = Access(c, m)
    BY <2>1, <2>3
  <2>. QED BY <2>3, <2>4, NothingForgotten
<1>. QED BY <1>1, <1>2

\* A declaration that is written although there is one below it either is
\* not abstract any more, or has a second one beside it.
LEMMA NeverIfOnce ==
    ASSUME HierarchyOK, NEW c \in 1..Len(classes), WritesOnce(c)
    PROVE  NeverRedeclared(c)
<1>. SUFFICES ASSUME NEW m \in Signatures, NEW d \in 1..c, NEW e \in 1..c, d < e,
                     Own(d, m).kind = "abstract", Own(d, m).access # Public,
                     Own(e, m) # Absent
              PROVE  FALSE
  BY DEF NeverRedeclared
<1>. DEFINE n == Nearest(c, m)
            w == [method |-> m, by |-> d, access |-> Own(d, m).access]
<1>1. e \in Declaring(c, m)
  BY DEF Declaring
<1>2. /\ n \in 1..c /\ e <= n /\ Access(c, m) = Own(n, m).access
      /\ IsAbstract(c, m) <=> Own(n, m).kind = "abstract"
  BY <1>1, NearestDeclares DEF Declaring, IsAbstract, Access
<1>3. w \in WrittenFor(c, m)
  BY WrittenMethods
<1>4. IsAbstract(c, m)
  BY <1>3 DEF WritesOnce
<1>5. \E v \in WrittenFor(c, m) : v.by = n
  <2>1. CASE Own(n, m).access = Public
    <3>. DEFINE v == [method |-> m, by |-> n, access |-> Public]
    <3>1. v \in WrittenFor(c, m)
      BY <1>1, <1>2, <1>4, <2>1, WrittenMethods
    <3>. QED BY <3>1
  <2>2. CASE Own(n, m).access # Public
    <3>. DEFINE v == [method |-> m, by |-> n, access |-> Own(n, m).access]
    <3>1. v \in WrittenFor(c, m)
      BY <1>2, <1>4, <2>2, WrittenMethods
    <3>. QED BY <3>1
  <2>. QED BY <2>1, <2>2
<1>6. w.by = n
  BY <1>3, <1>5 DEF WritesOnce
<1>. QED BY <1>2, <1>6

LEMMA OneIfOnce ==
    ASSUME HierarchyOK, NEW c \in 1..Len(classes), WritesOnce(c)
    PROVE  OneInterface(c)
<1>. SUFFICES ASSUME NEW m \in Signatures, Declaring(c, m) = {},
                     NEW i \in FromInterfaces(c, m), NEW j \in FromInterfaces(c, m)
              PROVE  i = j
  BY DEF OneInterface
<1>. DEFINE w(k) == [method |-> m, by |-> k, access |-> Public]
<1>1. IsAbstract(c, m)
  BY DEF IsAbstract
<1>2. w(i) \in WrittenFor(c, m) /\ w(j) \in WrittenFor(c, m)
  BY <1>1, WrittenMethods
<1>3. w(i) = w(j)
  BY <1>2 DEF WritesOnce
<1>. QED BY <1>3

LEMMA OnceCompiles ==
    ASSUME HierarchyOK, NEW c \in 1..Len(classes), WritesOnce(c)
    PROVE  Compiles(c)
<1>. SUFFICES ASSUME NEW m \in Signatures
              PROVE  /\ \A v, w \in WrittenFor(c, m) : v = w
                     /\ IsAbstract(c, m) => WrittenFor(c, m) # {}
                     /\ \A w \in WrittenFor(c, m) :
                          Declaring(c, m) # {} => /\ Own(Nearest(c, m), m).kind # "final"
                                                  /\ w.access >= Access(c, m)
  BY DEF Compiles
<1>1. /\ IsAbstract(c, m) <=> WrittenFor(c, m) # {}
      /\ \A v, w \in WrittenFor(c, m) : v = w /\ w.access = Access(c, m)
  BY DEF WritesOnce
<1>2. ASSUME NEW w \in WrittenFor(c, m), Declaring(c, m) # {}
      PROVE  Own(Nearest(c, m), m).kind # "final" /\ w.access >= Access(c, m)
  <2>1. Own(Nearest(c, m), m).kind = "abstract"
    BY <1>1, <1>2 DEF IsAbstract
  <2>2. Nearest(c, m) \in 1..Len(classes)
    BY <1>2, NearestDeclares DEF Declaring, HierarchyOK
  <2>3. Own(Nearest(c, m), m) \in Declarations \cup {Absent}
    BY <2>2, OwnTypes
  <2>4. Access(c, m) \in Int
    BY <1>2, <2>3 DEF Access, Declarations, Absent, Public
  <2>. QED BY <1>1, <2>1, <2>4
<1>. QED BY <1>1, <1>2

LEMMA HierarchyStays == HierarchyOK /\ [ImplementorNext]_implementorVars => HierarchyOK'
<1>. SUFFICES ASSUME HierarchyOK, [ImplementorNext]_implementorVars PROVE HierarchyOK'
  OBVIOUS
<1>1. CASE Extend
  <2>1. PICK class \in Class : classes' = Append(classes, class)
    BY <1>1 DEF Extend
  <2>. QED BY <1>1, <2>1, ImplementorAssumption DEF Extend, HierarchyOK
<1>2. CASE UNCHANGED classes
  BY <1>2 DEF HierarchyOK
<1>. QED BY <1>1, <1>2 DEF ImplementorNext, ImplementJar, CreateFile, ChooseConstructor, Write,
                           Compile, WriteJar, Goto, implementorVars

LEMMA HierarchyInvariant == ImplementorSpec => []HierarchyOK
<1>1. ImplementorInit => HierarchyOK
  BY ImplementorAssumption DEF ImplementorInit, HierarchyOK
<1>. QED BY <1>1, HierarchyStays, PTL DEF ImplementorSpec

\* implement() forgets no abstract method of any hierarchy, and writes the class that it
\* should exactly if no abstract method that is not public is declared again
\* and none comes from two interfaces.
THEOREM HierarchyImplemented == ImplementorSpec => []ImplementsHierarchy
<1>1. HierarchyOK => ImplementsHierarchy
  BY NothingForgotten, OnceIfNever, NeverIfOnce, OneIfOnce, OnceCompiles DEF ImplementsHierarchy
<1>. QED BY <1>1, HierarchyInvariant, PTL

-----------------------------------------------------------------------------
(* implementJar(). What lies under a simple name was compiled for a class  *)
(* of this name; and when the jar is made it is the token's, if no failure *)
(* of this call was swallowed and the compiler accepts the source.         *)

CompiledInv ==
    \A n \in Names, c \in Int : compiled[n] = c /\ c # 0 =>
        c \in 1..Len(classes) /\ Compiles(c) /\ SimpleName[c] = n

\* Files of classes, not empty ones.
SourceInv ==
    \A n \in Names, c \in Int : source[n] = c /\ c > 0 =>
        c \in 1..Len(classes) /\ SimpleName[c] = n

\* From the compiler on.
CallInv ==
    \A t \in Int : token = t =>
        /\ step # "exception" => t \in 1..Len(classes)
        /\ step = "compile" /\ ~lost => source[SimpleName[t]] = t
        /\ step = "jar" /\ ~lost /\ Compiles(t) =>
              compiled[SimpleName[t]] = t
        /\ step = "returned" =>
              /\ jar = compiled[SimpleName[t]] /\ jar # 0
              /\ ~lost /\ Compiles(t) => jar = t

JarInv ==
    /\ HierarchyOK
    /\ compiled \in [Names -> Int] /\ source \in [Names -> Int]
    /\ token \in Int
    /\ jars \in Nat
    /\ jars = 0 => step = "exception" /\ \A n \in Names : compiled[n] = 0 /\ source[n] = 0
    /\ CompiledInv
    /\ SourceInv
    /\ CallInv

LEMMA CompilesStays ==
    ASSUME UNCHANGED classes, NEW CONSTANT c
    PROVE  Compiles(c)' <=> Compiles(c)
BY DEF Compiles, WrittenFor, Written, ProtectedMethods, ReflectedMethods, IsAbstract, Access,
       Declaring, Nearest, FromInterfaces, Own

LEMMA TokenName ==
    ASSUME HierarchyOK, NEW t \in 1..Len(classes)
    PROVE  SimpleName[t] \in Names
<1>1. t \in 1..MaxClasses
  BY ImplementorAssumption DEF HierarchyOK
<1>. QED BY <1>1 DEF Names

LEMMA NextJar == JarInv /\ [ImplementorNext]_implementorVars => JarInv'
<1>. SUFFICES ASSUME JarInv, [ImplementorNext]_implementorVars PROVE JarInv'
  OBVIOUS
<1>0. HierarchyOK'
  BY HierarchyStays DEF JarInv
<1>1. UNCHANGED <<classes, compiled>> => CompiledInv'
  BY CompilesStays DEF JarInv, CompiledInv
<1>1a. UNCHANGED <<classes, source>> => SourceInv'
  BY DEF JarInv, SourceInv
<1>2. CASE Extend
  <2>1. UNCHANGED <<token, step, source, compiled, jar, lost, jars, errors>> /\ jars = 0
    BY <1>2 DEF Extend, fileVars
  <2>2. CompiledInv'
    BY <2>1 DEF JarInv, CompiledInv
  <2>3. CallInv'
    BY <2>1 DEF JarInv, CallInv
  <2>4. SourceInv'
    BY <2>1 DEF JarInv, SourceInv
  <2>. QED BY <1>0, <2>1, <2>2, <2>3, <2>4 DEF JarInv
<1>3. CASE ImplementJar
  <2>1. UNCHANGED <<classes, source, compiled>> /\ step' = "create" /\ jars' = jars + 1
    BY <1>3 DEF ImplementJar
  <2>2. token' \in 1..Len(classes)
    BY <1>3 DEF ImplementJar
  <2>3. CallInv'
    BY <2>1, <2>2 DEF CallInv
  <2>4. jars' \in Nat /\ jars' # 0
    BY <2>1 DEF JarInv
  <2>. QED BY <1>0, <1>1, <1>1a, <2>1, <2>2, <2>3, <2>4 DEF JarInv
<1>4. CASE CreateFile \/ ChooseConstructor \/ Write
  <2>1. /\ UNCHANGED <<classes, compiled, token, jars>>
        /\ step \in {"create", "constructor", "write"}
        /\ step' \in {"constructor", "exception", "write", "compile"}
    BY <1>4 DEF CreateFile, ChooseConstructor, Write, Goto, At, fileVars
  <2>2. source' \in [Names -> Int] /\ SourceInv'
    <3>1. CASE UNCHANGED source
      BY <1>1a, <2>1, <3>1 DEF JarInv
    <3>2. CASE \E c \in Int : source' = [source EXCEPT ![Name] = c] /\ (c > 0 => c = token)
      <4>1. PICK c \in Int : source' = [source EXCEPT ![Name] = c] /\ (c > 0 => c = token)
        BY <3>2
      <4>2. PICK t : t = token
        OBVIOUS
      <4>3. t \in 1..Len(classes) /\ SimpleName[t] \in Names /\ Name = SimpleName[t]
        BY <2>1, <4>2, TokenName DEF JarInv, CallInv, Name
      <4>4. /\ source' = [source EXCEPT ![SimpleName[t]] = c]
            /\ c > 0 => c = t
        BY <4>1, <4>2, <4>3
      <4>5. source' \in [Names -> Int]
        BY <4>4 DEF JarInv
      <4>6. SourceInv'
        <5>. SUFFICES ASSUME NEW n \in Names, NEW e \in Int, source'[n] = e, e > 0
                      PROVE  e \in 1..Len(classes) /\ SimpleName[e] = n
          BY <2>1 DEF SourceInv
        <5>1. CASE n = SimpleName[t]
          BY <4>3, <4>4, <5>1 DEF JarInv
        <5>2. CASE n # SimpleName[t]
          <6>1. source[n] = e
            BY <4>4, <5>2 DEF JarInv
          <6>. QED BY <6>1 DEF JarInv, SourceInv
        <5>. QED BY <5>1, <5>2
      <4>. QED BY <4>5, <4>6
    <3>3. CASE CreateFile
      <4>1. \/ UNCHANGED source
            \/ source' = [source EXCEPT ![Name] = -1]
            \/ source' = [source EXCEPT ![Name] = @]
        BY <3>3 DEF CreateFile
      <4>2. source = [source EXCEPT ![Name] = @]
        BY DEF JarInv
      <4>. QED BY <3>1, <3>2, <4>1, <4>2
    <3>4. CASE ChooseConstructor
      BY <3>1, <3>4 DEF ChooseConstructor, fileVars
    <3>5. CASE Write
      BY <3>1, <3>2, <3>5 DEF Write, JarInv
    <3>. QED BY <1>4, <3>3, <3>4, <3>5
  <2>3. step' = "compile" => lost' \/ source'[Name] = token
    <3>1. CASE Write
      <4>1. PICK t : t = token
        OBVIOUS
      <4>2. SimpleName[t] \in Names /\ Name = SimpleName[t]
        BY <2>1, <4>1, TokenName DEF JarInv, CallInv, Name
      <4>3. lost' \/ source' = [source EXCEPT ![SimpleName[t]] = t]
        BY <3>1, <4>1, <4>2 DEF Write, Swallowed
      <4>. QED BY <4>1, <4>2, <4>3 DEF JarInv
    <3>2. CASE CreateFile \/ ChooseConstructor
      BY <3>2 DEF CreateFile, ChooseConstructor, Goto
    <3>. QED BY <1>4, <3>1, <3>2
  <2>4. CallInv'
    BY <2>1, <2>3 DEF JarInv, CallInv, Name
  <2>. QED BY <1>0, <1>1, <2>1, <2>2, <2>4 DEF JarInv
<1>5. CASE Compile
  <2>1. PICK t : t = token
    OBVIOUS
  <2>2. PICK f : f = source[SimpleName[t]]
    OBVIOUS
  <2>3. /\ UNCHANGED <<classes, token, jars, source>> /\ step = "compile" /\ step' = "jar"
        /\ \/ /\ compiled' = IF f > 0 /\ Compiles(f)
                             THEN [compiled EXCEPT ![SimpleName[t]] = f] ELSE compiled
              /\ UNCHANGED lost
           \/ /\ compiled' = compiled \/ compiled' = [compiled EXCEPT ![SimpleName[t]] = 0]
              /\ lost'
    BY <1>5, <2>1, <2>2 DEF Compile, Goto, At, Name, Swallowed
  <2>4. t \in 1..Len(classes) /\ t \in Int /\ SimpleName[t] \in Names
    BY <2>1, <2>3, TokenName DEF JarInv, CallInv
  <2>5. f \in Int /\ (f > 0 => f \in 1..Len(classes) /\ SimpleName[f] = SimpleName[t])
    BY <2>2, <2>4 DEF JarInv, SourceInv
  <2>6. lost \/ f = t
    BY <2>1, <2>2, <2>3, <2>4 DEF JarInv, CallInv
  <2>7. /\ Compiles(f)' <=> Compiles(f)
        /\ Compiles(t)' <=> Compiles(t)
    BY <2>3, CompilesStays
  <2>8. CASE f > 0 /\ Compiles(f) /\ compiled' = [compiled EXCEPT ![SimpleName[t]] = f]
    <3>1. compiled' = [compiled EXCEPT ![SimpleName[t]] = f] /\ (lost => lost')
      BY <2>3, <2>8
    <3>2. compiled' \in [Names -> Int] /\ compiled'[SimpleName[t]] = f
      BY <2>4, <2>5, <3>1 DEF JarInv
    <3>3. CompiledInv'
      <4>. SUFFICES ASSUME NEW n \in Names, NEW c \in Int, compiled'[n] = c, c # 0
                    PROVE  c \in 1..Len(classes) /\ Compiles(c)' /\ SimpleName[c] = n
        BY <2>3 DEF CompiledInv
      <4>1. CASE n = SimpleName[t]
        <5>1. c = f
          BY <3>2, <4>1
        <5>. QED BY <2>5, <2>7, <2>8, <4>1, <5>1
      <4>2. CASE n # SimpleName[t]
        <5>1. compiled[n] = c
          BY <3>1, <4>2 DEF JarInv
        <5>2. Compiles(c)' <=> Compiles(c)
          BY <2>3, CompilesStays
        <5>. QED BY <5>1, <5>2 DEF JarInv, CompiledInv
      <4>. QED BY <4>1, <4>2
    <3>4. CallInv'
      BY <2>1, <2>3, <2>4, <2>6, <3>1, <3>2 DEF CallInv
    <3>. QED BY <1>0, <1>1a, <2>3, <3>2, <3>3, <3>4 DEF JarInv
  <2>9. CASE /\ compiled' = compiled
             /\ lost' \/ (UNCHANGED lost /\ ~(f > 0 /\ Compiles(f)))
    <3>1. lost' \/ ~Compiles(t)'
      BY <2>4, <2>6, <2>7, <2>9
    <3>2. CallInv'
      BY <2>1, <2>3, <2>4, <3>1 DEF CallInv
    <3>. QED BY <1>0, <1>1, <1>1a, <2>3, <2>9, <3>2 DEF JarInv
  <2>10. CASE compiled' = [compiled EXCEPT ![SimpleName[t]] = 0] /\ lost'
    <3>1. compiled' \in [Names -> Int]
      BY <2>4, <2>10 DEF JarInv
    <3>2. CompiledInv'
      <4>. SUFFICES ASSUME NEW n \in Names, NEW c \in Int, compiled'[n] = c, c # 0
                    PROVE  c \in 1..Len(classes) /\ Compiles(c)' /\ SimpleName[c] = n
        BY <2>3 DEF CompiledInv
      <4>1. compiled[n] = c
        BY <2>10 DEF JarInv
      <4>2. Compiles(c)' <=> Compiles(c)
        BY <2>3, CompilesStays
      <4>. QED BY <4>1, <4>2 DEF JarInv, CompiledInv
    <3>3. CallInv'
      BY <2>1, <2>3, <2>4, <2>10 DEF CallInv
    <3>. QED BY <1>0, <1>1a, <2>3, <3>1, <3>2, <3>3 DEF JarInv
  <2>. QED BY <2>3, <2>8, <2>9, <2>10
<1>6. CASE WriteJar
  <2>. PICK t : t = token
    OBVIOUS
  <2>1. /\ UNCHANGED <<classes, token, jars, source, compiled, lost>> /\ step = "jar"
        /\ \/ step' = "exception"
           \/ step' = "returned" /\ compiled[SimpleName[t]] # 0 /\ jar' = compiled[SimpleName[t]]
    BY <1>6 DEF WriteJar, Goto, At, Name
  <2>2. t \in Int /\ t \in 1..Len(classes)
    BY <2>1 DEF JarInv, CallInv
  <2>3. Compiles(t)' <=> Compiles(t)
    BY <2>1, CompilesStays
  <2>4. ~lost /\ Compiles(t) => compiled[SimpleName[t]] = t
    BY <2>1, <2>2 DEF JarInv, CallInv
  <2>5. CallInv'
    BY <2>1, <2>2, <2>3, <2>4 DEF CallInv
  <2>6. jars # 0
    BY <2>1 DEF JarInv
  <2>. QED BY <1>0, <1>1, <1>1a, <2>1, <2>5, <2>6 DEF JarInv
<1>7. CASE UNCHANGED implementorVars
  <2>1. CallInv'
    BY <1>7, CompilesStays DEF implementorVars, fileVars, JarInv, CallInv
  <2>. QED BY <1>0, <1>1, <1>7, <1>1a, <2>1 DEF implementorVars, fileVars, JarInv
<1>. QED BY <1>2, <1>3, <1>4, <1>5, <1>6, <1>7 DEF ImplementorNext

\* Although the failures of writing and of compiling are swallowed,
\* implementJar() returns only with a class in the jar: that of its token, or,
\* only if a failure of this call was swallowed or the compiler does not accept
\* the source, one with the same simple name from an earlier call.
THEOREM JarIsUsable == ImplementorSpec => []JarHasClass
<1>1. ImplementorInit => JarInv
  BY ImplementorAssumption
  DEF ImplementorInit, JarInv, HierarchyOK, CompiledInv, SourceInv, CallInv
<1>2. JarInv => JarHasClass
  <2>. SUFFICES ASSUME JarInv, step = "returned"
                PROVE  /\ jar \in 1..Len(classes) /\ Compiles(jar)
                       /\ SimpleName[jar] = SimpleName[token]
                       /\ jar = token \/ lost \/ ~Compiles(token)
    BY DEF JarHasClass
  <2>1. token \in 1..Len(classes) /\ SimpleName[token] \in Names
    BY TokenName DEF JarInv, CallInv
  <2>2. /\ jar = compiled[SimpleName[token]] /\ jar # 0
        /\ jar = token \/ lost \/ ~Compiles(token)
    BY <2>1 DEF JarInv, CallInv, Name
  <2>3. jar \in Int
    BY <2>1, <2>2 DEF JarInv
  <2>. QED BY <2>1, <2>2, <2>3 DEF JarInv, CompiledInv
<1>. QED BY <1>1, <1>2, NextJar, PTL DEF ImplementorSpec
=============================================================================
