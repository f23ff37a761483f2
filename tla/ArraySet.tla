------------------------------ MODULE ArraySet ------------------------------
(***************************************************************************)
(* ArraySet, an immutable NavigableSet in a sorted list. A behaviour takes *)
(* one set and replaces it by its views, one after the other: subSet,      *)
(* headSet, tailSet and descendingSet, of which only the last one copies.  *)
(*                                                                         *)
(* An element is <<rank, object>>: its place in the natural order, and     *)
(* which of the objects of that rank it is (a == b tells them apart,       *)
(* a.equals(b) and comparators do not).                                    *)
(***************************************************************************)
EXTENDS Integers, FiniteSets, SequencesExt

CONSTANTS
    MaxRank,        \* ranks are 1..MaxRank
    Objects,        \* the objects of a rank
    MaxLength,      \* bound: length of the collection that is passed in
    MaxViews        \* bound: views of views

ASSUME ArraySetAssumption ==
    MaxRank \in Nat /\ MaxLength \in Nat /\ MaxViews \in Nat /\ Objects # {}

VARIABLES
    data,           \* the field
    compare,        \* the field: "null", "natural" or "reverse", a comparator
    content,        \* history: the ranks of a mathematical set, with the same views taken
    proper,         \* history: see Proper
    views           \* number of views so far

vars == <<data, compare, content, proper, views>>

Elements == (1..MaxRank) \X Objects
Rank(x) == x[1]

\* Arguments need not be in the set: there is one on either side of all ranks.
Arguments == 0..MaxRank + 1

Compare(order, r, s) == IF order = "reverse" THEN s - r ELSE r - s

-----------------------------------------------------------------------------
(* The constructor.                                                        *)

\* list.sort(compare), which is stable.
Sorted(list, order) ==
    LET before(i, j) ==
            \/ Compare(order, Rank(list[i]), Rank(list[j])) < 0
            \/ Rank(list[i]) = Rank(list[j]) /\ i < j
        place(i) == Cardinality({j \in DOMAIN list : before(j, i)}) + 1
    IN [k \in DOMAIN list |-> list[CHOOSE i \in DOMAIN list : place(i) = k]]

\* Mutant of SameElement: two elements of the list are never taken for the same.
NeverSame(order, x, y) == FALSE

\* compare, or (a, b) -> a == b ? 0 : 1.
SameElement(order, x, y) == IF order = "null" THEN x = y ELSE Rank(x) = Rank(y)

\* The loop over rightIndex: an element that is not the same as the last one
\* kept is kept too.
SortSet(list, order) ==
    LET sorted == Sorted(list, order)
        kept[n \in 0..Len(list)] ==
            IF n = 0 THEN <<>>
            ELSE LET before == kept[n - 1]
                 IN  IF before # <<>> /\ SameElement(order, Last(before), sorted[n])
                     THEN before ELSE Append(before, sorted[n])
    IN  kept[Len(list)]

\* No two objects of the collection are equal, or the comparator tells.
Proper(list, order) ==
    order # "null" \/ \A i, j \in DOMAIN list : Rank(list[i]) = Rank(list[j]) => list[i] = list[j]

Init ==
    \E list \in BoundedSeq(Elements, MaxLength), order \in {"null", "natural", "reverse"} :
        /\ compare = order
        /\ data = SortSet(list, order)
        /\ content = {Rank(x) : x \in ToSet(list)}
        /\ proper = Proper(list, order)
        /\ views = 0

-----------------------------------------------------------------------------
(* Searching. Indices are those of the code: the first element has 0.      *)

Size == Len(data)
Get(x) == data[x + 1]

\* Collections.binarySearch: an index where t is, or -(p + 1) if it would
\* have to be inserted at p.
BinarySearch(t) ==
    LET p == Cardinality({x \in 0..Size - 1 : Compare(compare, Rank(Get(x)), t) < 0})
    IN IF \E x \in 0..Size - 1 : Rank(Get(x)) = t
         THEN CHOOSE x \in 0..Size - 1 : Rank(Get(x)) = t
         ELSE -(p + 1)

\* Mutant of IndexOfEq: the parameter find is forgotten.
IndexOfAny(t, find, noFind) ==
    LET x == BinarySearch(t)
    IN IF x < 0 THEN -(x + 1) + noFind ELSE x

IndexOfEq(t, find, noFind) ==
    LET x == BinarySearch(t)
    IN IF x < 0 THEN -(x + 1) + noFind ELSE x + find

IndexOf(t) == IndexOfEq(t, 0, 0)
IndexOfEquals(t, delta) == IndexOfEq(t, delta, 0)

None == <<>>

Has(t) == Size > 0 /\ Rank(Get(IndexOf(t) % Size)) = t
Lower(t) == LET x == IndexOf(t) - 1 IN IF x < 0 THEN None ELSE Get(x)
Floor(t) == LET x == IndexOfEq(t, 0, -1) IN IF x < 0 THEN None ELSE Get(x)
Ceiling(t) == LET x == IndexOf(t) IN IF x >= Size THEN None ELSE Get(x)
Higher(t) == LET x == IndexOfEquals(t, 1) IN IF x >= Size THEN None ELSE Get(x)

-----------------------------------------------------------------------------
(* Views.                                                                  *)

\* The view of the elements from index fromIndex on, before toIndex.
SubList(fromIndex, toIndex) ==
    data' = IF fromIndex >= toIndex THEN <<>> ELSE SubSeq(data, fromIndex + 1, toIndex)

\* The mathematical set keeps what lies between the bounds.
Keep(InRange(_)) ==
    /\ content' = {r \in content : InRange(r)}
    /\ views < MaxViews /\ views' = views + 1
    /\ UNCHANGED proper

After(t, inclusive, r) ==
    LET c == Compare(compare, r, t) IN IF inclusive THEN c >= 0 ELSE c > 0
Before(t, inclusive, r) ==
    LET c == Compare(compare, r, t) IN IF inclusive THEN c <= 0 ELSE c < 0

\* Otherwise IllegalArgumentException.
SubSet(t, b, e, b1) ==
    /\ Compare(compare, t, e) <= 0
    /\ SubList(IndexOfEquals(t, IF b THEN 0 ELSE 1), IndexOfEquals(e, IF b1 THEN 1 ELSE 0))
    /\ Keep(LAMBDA r : After(t, b, r) /\ Before(e, b1, r))
    /\ UNCHANGED compare

HeadSet(t, b) ==
    /\ SubList(0, IndexOfEquals(t, IF b THEN 1 ELSE 0))
    /\ Keep(LAMBDA r : Before(t, b, r))
    /\ UNCHANGED compare

TailSet(t, b) ==
    /\ SubList(IndexOfEquals(t, IF b THEN 0 ELSE 1), Size)
    /\ Keep(LAMBDA r : After(t, b, r))
    /\ UNCHANGED compare

DescendingSet ==
    /\ data' = Reverse(data)
    /\ compare' = IF compare = "reverse" THEN "natural" ELSE "reverse"
    /\ Keep(LAMBDA r : TRUE)

Next ==
    \/ \E t, e \in Arguments, b, b1 \in BOOLEAN : SubSet(t, b, e, b1)
    \/ \E t \in Arguments, b \in BOOLEAN : HeadSet(t, b) \/ TailSet(t, b)
    \/ DescendingSet

Spec == Init /\ [][Next]_vars

-----------------------------------------------------------------------------
(* Properties.                                                             *)

\* The list holds the elements of the mathematical set, each once and in the
\* order of the comparator, whatever views were taken of which views.
SameElements ==
    proper =>
        /\ {Rank(x) : x \in ToSet(data)} = content
        /\ \A x, y \in 0..Size - 1 :
            x < y => Compare(compare, Rank(Get(x)), Rank(Get(y))) < 0

\* answer is the least element of S in the order, or null if there is none.
IsLeast(answer, S, order) ==
    IF S = {} THEN answer = None
    ELSE /\ answer # None
         /\ Rank(answer) \in S
         /\ \A r \in S : Compare(order, Rank(answer), r) <= 0

Opposite(order) == IF order = "reverse" THEN "natural" ELSE "reverse"

\* The queries find the neighbours of every argument, be it in the set, between
\* two elements, or beyond the first or the last one.
SameAnswers ==
    proper => \A t \in Arguments :
        /\ Has(t) <=> t \in content
        /\ IsLeast(Lower(t), {r \in content : Before(t, FALSE, r)}, Opposite(compare))
        /\ IsLeast(Floor(t), {r \in content : Before(t, TRUE, r)}, Opposite(compare))
        /\ IsLeast(Ceiling(t), {r \in content : After(t, TRUE, r)}, compare)
        /\ IsLeast(Higher(t), {r \in content : After(t, FALSE, r)}, compare)
=============================================================================
