--------------------- MODULE IterativeParallelismProofs ---------------------
(***************************************************************************)
(* Theorems about IterativeParallelism, for lists of any length, any ranks *)
(* of their elements and any number of threads.                            *)
(***************************************************************************)
EXTENDS IterativeParallelism, WellFoundedInduction, TLAPS

-----------------------------------------------------------------------------
(* Numbers.                                                                *)

\* A set of natural numbers that is not empty has a least element.
LEMMA LeastNumber ==
    ASSUME NEW T \in SUBSET Nat, T # {}
    PROVE  \E x \in T : \A y \in T : x <= y
<1>. DEFINE R == {ss \in Nat \X Nat : ss[1] < ss[2]}
<1>1. OpToRel(<, Nat) = R
  BY Zenon DEF OpToRel
<1>2. IsWellFoundedOn(R, Nat)
  BY <1>1, NatLessThanWellFounded, Zenon
<1>3. PICK x \in T : \A y \in T : <<y, x>> \notin R
  <2>. HIDE DEF R
  <2>. QED BY <1>2, WFMin, Zenon
<1>4. ASSUME NEW y \in T
      PROVE  x <= y
  <2>1. y < x => <<y, x>> \in R
    OBVIOUS
  <2>. HIDE DEF R
  <2>. QED BY <1>3, <2>1
<1>. QED BY <1>4

LEMMA Division ==
    ASSUME NEW n \in Nat, NEW k \in Nat \ {0}
    PROVE  /\ n \div k \in Nat
           /\ n % k \in 0..k - 1
           /\ n = k * (n \div k) + (n % k)
<1>1. n % k \in 0..k - 1
  OBVIOUS
<1>2. n \div k \in Nat
  OBVIOUS
<1>3. n = k * (n \div k) + (n % k)
  OBVIOUS
<1>. QED BY <1>1, <1>2, <1>3

LEMMA TimesGrows ==
    ASSUME NEW q \in Nat, NEW k \in Nat, NEW i \in 0..k
    PROVE  i * q \in Nat /\ i * q <= k * q
<1>1. PICK d \in Nat : k = i + d
  OBVIOUS
<1>2. d * q \in Nat /\ i * q \in Nat
  OBVIOUS
<1>3. k * q = i * q + d * q
  BY <1>1
<1>. QED BY <1>2, <1>3

-----------------------------------------------------------------------------
(* The parts of a list: each is a piece of it, and together they are the   *)
(* whole list.                                                             *)

Pieces(parts, n) ==
    \A t \in DOMAIN parts :
        /\ parts[t] \subseteq 1..n
        /\ \A i \in parts[t] : i + 1 \in parts[t] \/ \A j \in parts[t] : j <= i

Whole(parts, n) == \A j \in 1..n : \E t \in DOMAIN parts : j \in parts[t]

\* Cuts from 0 to n leave nothing out, whether or not they are in order.
LEMMA CutsAreWhole ==
    ASSUME NEW n \in Nat, NEW k \in Nat \ {0}, NEW f \in [0..k -> Nat], f[0] = 0, f[k] = n,
           NEW j \in 1..n
    PROVE  \E i \in 1..k : f[i - 1] < j /\ j <= f[i]
<1>. DEFINE T == {i \in 0..k : j <= f[i]}
<1>1. T \in SUBSET Nat /\ k \in T
  OBVIOUS
<1>2. PICK i \in T : \A x \in T : i <= x
  <2>. HIDE DEF T
  <2>. QED BY <1>1, LeastNumber
<1>3. i \in 1..k /\ j <= f[i]
  OBVIOUS
<1>4. i - 1 \in 0..k /\ i - 1 \notin T
  BY <1>2, <1>3
<1>5. f[i - 1] < j
  BY <1>4
<1>. QED BY <1>3, <1>5

LEMMA IntervalsArePieces ==
    ASSUME NEW n \in Nat, NEW a \in Nat, NEW b \in Nat, b <= n, NEW P, P = (a + 1)..b
    PROVE  /\ P \subseteq 1..n
           /\ \A i \in P : i + 1 \in P \/ \A j \in P : j <= i
OBVIOUS

LEMMA LastLongerParts ==
    ASSUME NEW n \in Nat, NEW k \in Nat \ {0}
    PROVE  Pieces(LastLonger(n, k), n) /\ Whole(LastLonger(n, k), n)
<1>1. PICK q \in Nat : q = n \div k
  BY Division
<1>2. k * q <= n
  BY <1>1, Division
<1>. DEFINE f == [i \in 0..k |-> IF i = k THEN n ELSE i * q]
            parts == LastLonger(n, k)
<1>3. /\ f \in [0..k -> Nat] /\ f[0] = 0 /\ f[k] = n
      /\ \A i \in 0..k : f[i] <= n
  <2>1. ASSUME NEW i \in 0..k
        PROVE  f[i] \in Nat /\ f[i] <= n
    BY <1>2, TimesGrows
  <2>2. f[0] = 0 /\ f[k] = n
    OBVIOUS
  <2>. QED BY <2>1, <2>2
<1>4. /\ DOMAIN parts = 1..k
      /\ \A i \in 1..k : parts[i] = (f[i - 1] + 1)..f[i]
  <2>1. \A i \in 1..k : f[i - 1] = (i - 1) * q
    OBVIOUS
  <2>2. parts = [i \in 1..k |-> ((i - 1) * q + 1)..(IF i = k THEN n ELSE i * q)]
    BY <1>1 DEF LastLonger
  <2>3. \A i \in 1..k : parts[i] = ((i - 1) * q + 1)..f[i]
    BY <2>2
  <2>. HIDE DEF f, parts
  <2>. QED BY <2>1, <2>2, <2>3
<1>. HIDE DEF f, parts
<1>5. ASSUME NEW t \in DOMAIN parts
      PROVE  /\ parts[t] \subseteq 1..n
             /\ \A i \in parts[t] : i + 1 \in parts[t] \/ \A j \in parts[t] : j <= i
  <2>1. f[t - 1] \in Nat /\ f[t] \in Nat /\ f[t] <= n /\ parts[t] = (f[t - 1] + 1)..f[t]
    BY <1>3, <1>4
  <2>2. PICK a \in Nat, b \in Nat : b <= n /\ parts[t] = (a + 1)..b
    BY <2>1
  <2>. QED BY <2>2, IntervalsArePieces
<1>6. ASSUME NEW j \in 1..n
      PROVE  \E t \in DOMAIN parts : j \in parts[t]
  <2>1. PICK i \in 1..k : f[i - 1] < j /\ j <= f[i]
    BY <1>3, CutsAreWhole
  <2>2. i - 1 \in 0..k /\ f[i - 1] \in Nat /\ f[i] \in Nat
    BY <1>3
  <2>3. j \in (f[i - 1] + 1)..f[i]
    BY <2>1, <2>2
  <2>. QED BY <1>4, <2>3
<1>. QED BY <1>5, <1>6 DEF Pieces, Whole, parts

\* The cuts of IterativeParallelism, as its loop computes them one after the
\* other, and where that leads to.
LEMMA BalancedCuts ==
    ASSUME NEW n \in Nat, NEW k \in Nat \ {0}
    PROVE  \E f \in [0..k -> Nat] :
            /\ f[0] = 0 /\ f[k] = n
            /\ Balanced(n, k) = [i \in 1..k |-> (f[i - 1] + 1)..Smaller(f[i], n)]
<1>1. PICK q \in Nat, r \in 0..k - 1 : q = n \div k /\ r = n % k /\ n = k * q + r
  BY Division
<1>. DEFINE Step(f, i) == IF i = 0 THEN 0 ELSE f[i - 1] + n \div k + IF i <= n % k THEN 1 ELSE 0
            Cuts(f) == f = [i \in 0..k |-> Step(f, i)]
            g == [i \in 0..k |-> i * q + Smaller(i, r)]
            left == CHOOSE f : Cuts(f)
<1>2. Cuts(g)
  <2>1. ASSUME NEW i \in 0..k
        PROVE  g[i] = Step(g, i)
    <3>1. CASE i = 0
      BY <3>1 DEF Smaller
    <3>2. CASE i # 0
      <4>1. i - 1 \in 0..k /\ g[i - 1] = (i - 1) * q + Smaller(i - 1, r)
        BY <3>2
      <4>2. g[i] = i * q + Smaller(i, r)
        OBVIOUS
      <4>3. i * q = (i - 1) * q + q
        OBVIOUS
      <4>4. Smaller(i, r) = Smaller(i - 1, r) + IF i <= r THEN 1 ELSE 0
        BY DEF Smaller
      <4>5. (i - 1) * q \in Nat /\ Smaller(i - 1, r) \in Int
        BY <4>1 DEF Smaller
      <4>6. Step(g, i) = g[i - 1] + q + IF i <= r THEN 1 ELSE 0
        BY <1>1, <3>2
      <4>. HIDE DEF g, Step
      <4>. QED BY <4>1, <4>2, <4>3, <4>4, <4>5, <4>6
    <3>. QED BY <3>1, <3>2
  <2>2. g = [i \in 0..k |-> g[i]]
    BY Zenon
  <2>. HIDE DEF g, Step
  <2>. QED BY <2>1, <2>2, Zenon
<1>3. Cuts(left)
  <2>. HIDE DEF Cuts, g
  <2>. QED BY <1>2, Zenon
<1>4. \A i \in 0..k : left[i] = Step(left, i)
  <2>. HIDE DEF left, Step
  <2>. QED BY <1>3
<1>5. ASSUME NEW i \in 0..k
      PROVE  left[i] = g[i]
  <2>. HIDE DEF left
  <2>1. \A m \in Nat : m <= k => left[m] = m * q + Smaller(m, r)
    <3>. DEFINE Wrong == {m \in 0..k : left[m] # m * q + Smaller(m, r)}
    <3>. SUFFICES ASSUME Wrong # {} PROVE FALSE
      OBVIOUS
    <3>1. PICK m \in Wrong : \A x \in Wrong : m <= x
      <4>1. Wrong \in SUBSET Nat
        OBVIOUS
      <4>. HIDE DEF Wrong
      <4>. QED BY <4>1, LeastNumber
    <3>2. m # 0
      <4>1. left[0] = 0
        BY <1>4
      <4>. QED BY <4>1 DEF Smaller
    <3>3. m - 1 \in 0..k /\ m \in 0..k /\ m - 1 \notin Wrong
      BY <3>1, <3>2
    <3>4. left[m - 1] = (m - 1) * q + Smaller(m - 1, r)
      BY <3>3
    <3>5. left[m] = left[m - 1] + q + IF m <= r THEN 1 ELSE 0
      BY <1>1, <1>4, <3>2, <3>3
    <3>6. m * q = (m - 1) * q + q /\ (m - 1) * q \in Nat
      BY <3>3
    <3>7. /\ Smaller(m, r) = Smaller(m - 1, r) + IF m <= r THEN 1 ELSE 0
          /\ Smaller(m - 1, r) \in Int
      BY <3>3 DEF Smaller
    <3>8. left[m] = m * q + Smaller(m, r)
      BY <3>4, <3>5, <3>6, <3>7
    <3>. QED BY <3>8
  <2>. QED BY <2>1
<1>6. left \in [0..k -> Nat] /\ left[0] = 0 /\ left[k] = n
  <2>1. \A i \in 0..k : g[i] \in Nat
    <3>1. \A i \in 0..k : i * q \in Nat /\ Smaller(i, r) \in Nat
      BY TimesGrows DEF Smaller
    <3>. QED BY <3>1
  <2>2. g[0] = 0 /\ g[k] = n
    BY <1>1 DEF Smaller
  <2>3. left = [i \in 0..k |-> left[i]]
    <3>. HIDE DEF left, Step
    <3>. QED BY <1>3, Zenon
  <2>. HIDE DEF left, g
  <2>4. \A i \in 0..k : left[i] \in Nat
    BY <1>5, <2>1
  <2>5. left[0] = 0 /\ left[k] = n
    BY <1>5, <2>2
  <2>. QED BY <2>3, <2>4, <2>5
<1>7. Balanced(n, k) = [i \in 1..k |-> (left[i - 1] + 1)..Smaller(left[i], n)]
  BY Zenon DEF Balanced
<1>. HIDE DEF left
<1>. QED BY <1>6, <1>7

LEMMA BalancedParts ==
    ASSUME NEW n \in Nat, NEW k \in Nat \ {0}
    PROVE  Pieces(Balanced(n, k), n) /\ Whole(Balanced(n, k), n)
<1>. DEFINE parts == Balanced(n, k)
<1>1. PICK f \in [0..k -> Nat] :
        /\ f[0] = 0 /\ f[k] = n
        /\ parts = [i \in 1..k |-> (f[i - 1] + 1)..Smaller(f[i], n)]
  BY BalancedCuts
<1>2. DOMAIN parts = 1..k /\ \A i \in 1..k : parts[i] = (f[i - 1] + 1)..Smaller(f[i], n)
  BY <1>1
<1>. HIDE DEF parts
<1>3. ASSUME NEW t \in DOMAIN parts
      PROVE  /\ parts[t] \subseteq 1..n
             /\ \A i \in parts[t] : i + 1 \in parts[t] \/ \A j \in parts[t] : j <= i
  <2>1. t \in 1..k /\ t - 1 \in 0..k /\ t \in 0..k
    BY <1>2
  <2>2. f[t - 1] \in Nat /\ f[t] \in Nat /\ parts[t] = (f[t - 1] + 1)..Smaller(f[t], n)
    BY <1>2, <2>1
  <2>3. Smaller(f[t], n) \in Nat /\ Smaller(f[t], n) <= n
    BY <2>2 DEF Smaller
  <2>4. PICK a \in Nat, b \in Nat : b <= n /\ parts[t] = (a + 1)..b
    BY <2>2, <2>3
  <2>. QED BY <2>4, IntervalsArePieces
<1>4. ASSUME NEW j \in 1..n
      PROVE  \E t \in DOMAIN parts : j \in parts[t]
  <2>1. PICK i \in 1..k : f[i - 1] < j /\ j <= f[i]
    BY <1>1, CutsAreWhole
  <2>2. i - 1 \in 0..k /\ f[i - 1] \in Nat /\ f[i] \in Nat
    OBVIOUS
  <2>3. j \in (f[i - 1] + 1)..Smaller(f[i], n)
    BY <2>1, <2>2 DEF Smaller
  <2>. QED BY <1>2, <2>3
<1>. QED BY <1>3, <1>4 DEF Pieces, Whole, parts

-----------------------------------------------------------------------------
(* Where the tasks are, as long as the caller was not interrupted.         *)

Proceeding == cpc \in {"running", "closing", "returned"} /\ call.values # <<>>

NotStarted == {"new", "taken"}

PlaceInv ==
    /\ call \in Call
    /\ Proceeding =>
        /\ call.op = "maximum" \/ call.by = "threads" => call.threads > 0
        /\ tpc \in [Tasks -> UnderWay \cup {"new", "done"}]
        /\ tint = [t \in Tasks |-> FALSE]
        /\ pos \in [Tasks -> Nat]
        /\ \A t \in Tasks :
            /\ pos[t] \in Parts[t] \/ \A j \in Parts[t] : j < pos[t]
            /\ tpc[t] \in NotStarted => \A j \in Parts[t] : pos[t] <= j
        /\ cpc # "running" => \A t \in Tasks : tpc[t] = "done"

LEMMA CallFields ==
    ASSUME call \in Call
    PROVE  /\ Size \in Nat /\ DOMAIN call.values = 1..Size /\ call.threads \in Nat
           /\ \A i \in 1..Size : call.values[i] \in Nat
           /\ call.op \in {"maximum", "all"}
           /\ call.by \in {"threads", "mapper", "shared"}
           /\ call.values = <<>> <=> Size = 0
<1>0. call.threads \in 0..MaxThreads
  BY DEF Call
<1>1. /\ call.op \in {"maximum", "all"}
      /\ call.by \in {"threads", "mapper", "shared"}
      /\ call.values \in UNION {[1..n -> 0..MaxRank] : n \in 0..MaxLength}
  BY DEF Call
<1>2. PICK n \in 0..MaxLength : call.values \in [1..n -> 0..MaxRank]
  BY <1>1
<1>3. n \in Nat /\ call.values \in Seq(0..MaxRank) /\ Len(call.values) = n
  BY <1>2, IterativeBoundsAssumption
<1>4. Size = n /\ DOMAIN call.values = 1..Size
  BY <1>2, <1>3 DEF Size
<1>5. \A i \in 1..Size : call.values[i] \in Nat
  BY <1>2, <1>4, IterativeBoundsAssumption
<1>6. call.values = <<>> <=> Size = 0
  BY <1>3, <1>4
<1>7. call.threads \in Nat
  BY <1>0, IterativeBoundsAssumption
<1>. QED BY <1>1, <1>3, <1>4, <1>5, <1>6, <1>7

LEMMA OneEachParts ==
    ASSUME NEW n \in Nat
    PROVE  Pieces(OneEach(n), n) /\ Whole(OneEach(n), n)
BY DEF OneEach, Pieces, Whole

LEMMA PartsOfList ==
    ASSUME PlaceInv, Proceeding
    PROVE  Pieces(Parts, Size) /\ Whole(Parts, Size)
<1>0. call \in Call /\ (call.op = "maximum" \/ call.by = "threads" => call.threads > 0)
  BY DEF PlaceInv
<1>1. /\ Size \in Nat
      /\ call.op = "maximum" \/ call.by = "threads" => call.threads \in Nat \ {0}
  <2>1. Size \in Nat /\ call.threads \in Nat
    BY <1>0, CallFields
  <2>2. PICK k \in Nat : k = call.threads
    BY <2>1
  <2>3. call.op = "maximum" \/ call.by = "threads" => k > 0
    BY <1>0, <2>2
  <2>4. call.op = "maximum" \/ call.by = "threads" => k \in Nat \ {0}
    BY <2>3
  <2>. QED BY <2>1, <2>2, <2>4
<1>2. CASE call.by = "threads"
  <2>1. Parts = LastLonger(Size, call.threads)
    BY <1>2 DEF Parts
  <2>. QED BY <1>1, <1>2, <2>1, LastLongerParts
<1>3. CASE call.by # "threads" /\ call.op = "maximum"
  <2>1. Parts = Balanced(Size, call.threads)
    BY <1>3 DEF Parts
  <2>. QED BY <1>1, <1>3, <2>1, BalancedParts
<1>4. CASE call.by # "threads" /\ call.op # "maximum"
  <2>1. Parts = OneEach(Size)
    BY <1>4 DEF Parts
  <2>. QED BY <1>1, <2>1, OneEachParts
<1>. QED BY <1>2, <1>3, <1>4

\* The list is not changed, nor how it is cut.
LEMMA SameCall ==
    ASSUME [Next]_vars
    PROVE  /\ call' = call /\ Size' = Size /\ Parts' = Parts /\ Tasks' = Tasks
           /\ Proceeding' => Proceeding
           /\ cpc' # cpc => Return \/ Interrupt \/ CloseReturns
<1>1. call' = call
  BY DEF Next, vars, TaskStep, Take, Drop, Begin, Scan, Merge, Test, Return, Interrupt,
         CloseStep, VisitIdle, Visit, CloseReturns, InterruptAgain
<1>2. Size' = Size /\ Parts' = Parts /\ Tasks' = Tasks
  BY <1>1 DEF Size, Parts, Tasks
<1>3. cpc' # cpc => Return \/ Interrupt \/ CloseReturns
  BY DEF Next, vars, TaskStep, Take, Drop, Begin, Scan, Merge, Test, Return, Interrupt,
         CloseStep, VisitIdle, Visit, CloseReturns, InterruptAgain
<1>4. Proceeding' => Proceeding
  BY <1>1, <1>3 DEF Proceeding, Return, Interrupt, CloseReturns
<1>. QED BY <1>1, <1>2, <1>3, <1>4

LEMMA FirstElement ==
    ASSUME NEW P \in SUBSET Nat, P # {}
    PROVE  LET i == CHOOSE i \in P : \A j \in P : i <= j
           IN  i \in P /\ \A j \in P : i <= j
BY LeastNumber

LEMMA InitPlace == Init => PlaceInv
<1>. SUFFICES ASSUME Init PROVE PlaceInv
  OBVIOUS
<1>1. call \in Call /\ cpc = FirstState(call)
  BY DEF Init
<1>2. ASSUME Proceeding
      PROVE  cpc = "running"
  BY <1>1, <1>2, CallFields DEF Proceeding, FirstState
<1>3. ASSUME Proceeding
      PROVE  call.op = "maximum" \/ call.by = "threads" => call.threads > 0
  <2>1. PICK k \in Nat : k = call.threads
    BY <1>1, CallFields
  <2>0. call.op \in {"maximum", "all"}
    BY <1>1, CallFields
  <2>2. cpc = "running" /\ call.values # <<>> /\ FirstState(call) = "running"
    BY <1>1, <1>2, <1>3 DEF Proceeding
  <2>3. call.op = "maximum" => k # 0
    BY <2>1, <2>2 DEF FirstState
  <2>4. call.op = "all" /\ call.by = "threads" => k # 0
    BY <2>1, <2>2 DEF FirstState
  <2>5. call.op = "maximum" \/ call.by = "threads" => k > 0
    BY <2>0, <2>1, <2>3, <2>4
  <2>. QED BY <2>1, <2>5
<1>. SUFFICES ASSUME Proceeding
              PROVE  /\ tpc \in [Tasks -> UnderWay \cup {"new", "done"}]
                     /\ tint = [t \in Tasks |-> FALSE]
                     /\ pos \in [Tasks -> Nat]
                     /\ \A t \in Tasks : pos[t] \in Parts[t] \/ \A j \in Parts[t] : j < pos[t]
                     /\ \A t \in Tasks : \A j \in Parts[t] : pos[t] <= j
  BY <1>1, <1>2, <1>3 DEF PlaceInv
<1>4. /\ tpc = [t \in Tasks |-> IF call.by = "threads" THEN "taken" ELSE "new"]
      /\ tint = [t \in Tasks |-> FALSE]
      /\ pos = [t \in Tasks |-> IF Parts[t] = {} THEN 0 ELSE
                    CHOOSE i \in Parts[t] : \A j \in Parts[t] : i <= j]
  BY <1>2 DEF Init
<1>5. \A t \in Tasks : Parts[t] \in SUBSET Nat
  <2>1. Pieces(Parts, Size)
    <3>0. PICK k \in Nat : k = call.threads
      BY <1>1, CallFields
    <3>1. /\ Size \in Nat
          /\ call.op = "maximum" \/ call.by = "threads" => k \in Nat \ {0}
      BY <1>1, <1>3, <3>0, CallFields
    <3>2. CASE call.by = "threads"
      BY <3>0, <3>1, <3>2, LastLongerParts DEF Parts
    <3>3. CASE call.by # "threads" /\ call.op = "maximum"
      BY <3>0, <3>1, <3>3, BalancedParts DEF Parts
    <3>4. CASE call.by # "threads" /\ call.op # "maximum"
      BY <3>1, <3>4, OneEachParts DEF Parts
    <3>. QED BY <3>2, <3>3, <3>4
  <2>. QED BY <2>1 DEF Pieces, Tasks
<1>6. ASSUME NEW t \in Tasks
      PROVE  /\ pos[t] \in Nat
             /\ pos[t] \in Parts[t] \/ \A j \in Parts[t] : j < pos[t]
             /\ \A j \in Parts[t] : pos[t] <= j
  <2>1. CASE Parts[t] = {}
    BY <1>4, <2>1
  <2>2. CASE Parts[t] # {}
    <3>1. pos[t] = CHOOSE i \in Parts[t] : \A j \in Parts[t] : i <= j
      BY <1>4, <2>2
    <3>. QED BY <1>5, <2>2, <3>1, FirstElement
  <2>. QED BY <2>1, <2>2
<1>. QED BY <1>4, <1>6 DEF UnderWay

\* Nobody interrupts the threads while the caller was not interrupted, so that
\* they end with their flags down.
LEMMA FinishMoves ==
    ASSUME PlaceInv, Proceeding, NEW t \in Tasks, Finish(t)
    PROVE  tpc' = [tpc EXCEPT ![t] = "done"] /\ tint' = tint
<1>1. tint = [u \in Tasks |-> FALSE] /\ tint' = [tint EXCEPT ![t] = FALSE]
  BY DEF PlaceInv, Finish
<1>. QED BY <1>1 DEF Finish, Goto

\* What a step of a task does to its place, and that it leaves the others alone.
LEMMA TaskMoves ==
    ASSUME PlaceInv, Proceeding, NEW t \in Tasks, TaskStep(t)
    PROVE  /\ cpc = "running" => cpc' = "running"
           /\ UNCHANGED <<cpc, tint>>
           /\ tpc' \in [Tasks -> UnderWay \cup {"new", "done"}]
           /\ pos' \in [Tasks -> Nat]
           /\ \A u \in Tasks : u # t => tpc'[u] = tpc[u] /\ pos'[u] = pos[u]
           /\ tpc[t] # "done"
           /\ \/ pos'[t] = pos[t] /\ (tpc'[t] \in NotStarted => tpc[t] \in NotStarted)
              \/ /\ pos[t] \in Parts[t] /\ pos'[t] = pos[t] + 1
                 /\ tpc'[t] \notin NotStarted
<1>0. /\ tpc \in [Tasks -> UnderWay \cup {"new", "done"}] /\ tint[t] = FALSE
      /\ pos \in [Tasks -> Nat]
  BY DEF PlaceInv
<1>1. CASE Take(t)
  BY <1>0, <1>1 DEF Take, Goto, UnderWay, NotStarted
<1>2. CASE Begin(t)
  BY <1>0, <1>2, FinishMoves DEF Begin, Goto, SameThreads, UnderWay, NotStarted
<1>3. CASE Scan(t)
  BY <1>0, <1>3 DEF Scan, Goto, SameThreads, Last, UnderWay, NotStarted
<1>4. CASE Merge(t)
  BY <1>0, <1>4, FinishMoves DEF Merge, UnderWay, NotStarted
<1>5. CASE Test(t)
  BY <1>0, <1>5, FinishMoves DEF Test, SameThreads, Last, UnderWay, NotStarted
<1>6. ~Drop(t)
  BY <1>0 DEF Drop
<1>. QED BY <1>1, <1>2, <1>3, <1>4, <1>5, <1>6 DEF TaskStep

\* Nothing that the caller does touches what the tasks have computed.
LEMMA CallerMoves ==
    ASSUME Interrupt \/ CloseStep \/ InterruptAgain
    PROVE  UNCHANGED <<call, best, bests, failed, tpc, pos, local>>
BY DEF Interrupt, CloseStep, VisitIdle, Visit, CloseReturns, InterruptAgain, resultVars, taskVars

\* While the caller was not interrupted, close() meets no thread with a task.
LEMMA CloseMoves ==
    ASSUME PlaceInv, Proceeding, Interrupt \/ CloseStep \/ InterruptAgain, Proceeding'
    PROVE  UNCHANGED tint /\ cpc # "running"
<1>1. ~Interrupt
  BY DEF Interrupt, Proceeding
<1>2. cpc = "closing"
  BY <1>1 DEF CloseStep, VisitIdle, Visit, CloseReturns, InterruptAgain, Closing, Proceeding
<1>3. DOMAIN tpc = Tasks /\ \A t \in Tasks : tpc[t] = "done"
  BY <1>2 DEF PlaceInv
<1>4. \A t \in DOMAIN tpc : tpc[t] \notin UnderWay
  BY <1>3 DEF UnderWay
<1>5. VisitIdle \/ CloseReturns \/ InterruptAgain
  BY <1>1, <1>4 DEF CloseStep, Visit
<1>. QED BY <1>2, <1>4, <1>5 DEF VisitIdle, CloseReturns, InterruptAgain, taskVars

LEMMA NextPlace == PlaceInv /\ [Next]_vars => PlaceInv'
<1>. SUFFICES ASSUME PlaceInv, [Next]_vars PROVE PlaceInv'
  OBVIOUS
<1>0. call' = call /\ Size' = Size /\ Parts' = Parts /\ Tasks' = Tasks /\ (Proceeding' => Proceeding)
  BY SameCall
<1>. SUFFICES ASSUME Proceeding, Proceeding' PROVE PlaceInv'
  BY <1>0 DEF PlaceInv
<1>1. CASE UNCHANGED vars
  BY <1>0, <1>1 DEF vars, taskVars, PlaceInv, Proceeding
<1>2. ASSUME NEW t \in DOMAIN tpc, TaskStep(t)
      PROVE  PlaceInv'
  <2>0. t \in Tasks
    BY <1>2 DEF PlaceInv
  <2>1. ASSUME NEW u \in Tasks
        PROVE  /\ pos'[u] \in Parts[u] \/ \A j \in Parts[u] : j < pos'[u]
               /\ tpc'[u] \in NotStarted => \A j \in Parts[u] : pos'[u] <= j
    <3>1. CASE u # t \/ pos'[u] = pos[u]
      BY <1>2, <2>0, <2>1, <3>1, TaskMoves DEF PlaceInv
    <3>2. CASE u = t /\ pos'[t] # pos[t]
      <4>1. pos[t] \in Parts[t] /\ pos'[t] = pos[t] + 1 /\ tpc'[t] \notin NotStarted
        BY <1>2, <2>0, <3>2, TaskMoves
      <4>2. /\ Parts[t] \subseteq 1..Size
            /\ \A i \in Parts[t] : i + 1 \in Parts[t] \/ \A j \in Parts[t] : j <= i
        BY <2>0, PartsOfList DEF Pieces, Tasks
      <4>3. pos[t] + 1 \in Parts[t] \/ \A j \in Parts[t] : j <= pos[t]
        BY <4>1, <4>2
      <4>4. \A j \in Parts[t] : j \in Int
        BY <4>2
      <4>. QED BY <3>2, <4>1, <4>3, <4>4
    <3>. QED BY <3>1, <3>2
  <2>2. /\ tpc' \in [Tasks -> UnderWay \cup {"new", "done"}] /\ pos' \in [Tasks -> Nat]
        /\ UNCHANGED <<cpc, tint>> /\ tpc[t] # "done"
    BY <1>2, <2>0, TaskMoves
  <2>3. cpc' = "running"
    BY <2>0, <2>2 DEF PlaceInv
  <2>. QED BY <1>0, <2>1, <2>2, <2>3 DEF PlaceInv
<1>3. CASE Return
  <2>1. UNCHANGED <<tpc, tint, pos>> /\ \A t \in DOMAIN tpc : tpc[t] = "done"
    BY <1>3 DEF Return, taskVars
  <2>. QED BY <1>0, <2>1 DEF PlaceInv
<1>4. CASE Interrupt \/ CloseStep \/ InterruptAgain
  BY <1>0, <1>4, CallerMoves, CloseMoves DEF PlaceInv
<1>. QED BY <1>1, <1>2, <1>3, <1>4 DEF Next

-----------------------------------------------------------------------------
(* maximum(): what a task has looked at is not larger than what it holds,  *)
(* and what a task that is done has looked at is not larger than result.   *)

AtLeast(i, j) == call.values[j] <= call.values[i]

MaximumInv ==
    Proceeding /\ call.op = "maximum" =>
        /\ best \in 1..Size /\ bests \subseteq 1..Size
        /\ local \in [Tasks -> 1..Size]
        /\ \A t \in Tasks : \A j \in Parts[t] :
            /\ tpc[t] = "scan" /\ j < pos[t] => AtLeast(local[t], j)
            /\ tpc[t] = "merge" => AtLeast(local[t], j)
            /\ tpc[t] = "done" => AtLeast(best, j)

LEMMA InitMaximum == Init => MaximumInv
<1>. SUFFICES ASSUME Init, Proceeding, call.op = "maximum" PROVE MaximumInv
  BY DEF MaximumInv
<1>1. PlaceInv
  BY InitPlace
<1>2. cpc = "running" /\ Size \in Nat /\ Size # 0
  <2>1. call \in Call /\ cpc = FirstState(call) /\ call.values # <<>>
    BY DEF Init, Proceeding
  <2>2. cpc = "running"
    BY <2>1 DEF FirstState, Proceeding
  <2>. QED BY <2>1, <2>2, CallFields
<1>3. /\ best = 1 /\ bests = {1}
      /\ tpc = [t \in Tasks |-> IF call.by = "threads" THEN "taken" ELSE "new"]
      /\ local = [t \in DOMAIN tpc |-> 1]
  BY <1>2 DEF Init
<1>. QED BY <1>2, <1>3 DEF MaximumInv

LEMMA TaskMaximum ==
    ASSUME PlaceInv, Proceeding, MaximumInv, call.op = "maximum", NEW t \in Tasks, TaskStep(t),
           call' = call
    PROVE  /\ best' \in 1..Size /\ bests' \subseteq 1..Size
           /\ local' \in [Tasks -> 1..Size]
           /\ AtLeast(best', best)
           /\ \A u \in Tasks : u # t => local'[u] = local[u]
           /\ \A j \in Parts[t] :
                /\ tpc'[t] = "scan" /\ j < pos'[t] => AtLeast(local'[t], j)
                /\ tpc'[t] = "merge" => AtLeast(local'[t], j)
                /\ tpc'[t] = "done" => AtLeast(best', j)
<1>. DEFINE V == call.values
<1>0. /\ tpc \in [Tasks -> UnderWay \cup {"new", "done"}] /\ tint[t] = FALSE
      /\ pos \in [Tasks -> Nat]
      /\ pos[t] \in Parts[t] \/ \A j \in Parts[t] : j < pos[t]
      /\ tpc[t] \in NotStarted => \A j \in Parts[t] : pos[t] <= j
  BY DEF PlaceInv
<1>1. /\ best \in 1..Size /\ bests \subseteq 1..Size /\ local \in [Tasks -> 1..Size]
      /\ \A j \in Parts[t] :
            /\ tpc[t] = "scan" /\ j < pos[t] => AtLeast(local[t], j)
            /\ tpc[t] = "merge" => AtLeast(local[t], j)
  BY DEF MaximumInv
<1>2. /\ Size \in Nat /\ \A i \in 1..Size : V[i] \in Nat
      /\ Parts[t] \subseteq 1..Size
  BY CallFields, PartsOfList DEF PlaceInv, Pieces, Tasks
<1>3. AtLeast(best, best) /\ AtLeast(local[t], local[t])
  BY <1>1, <1>2 DEF AtLeast
<1>4. CASE Begin(t)
  <2>1. /\ tpc[t] \in NotStarted /\ tpc' = [tpc EXCEPT ![t] = "scan"] /\ UNCHANGED <<best, bests, pos>>
        /\ \E seen \in bests : local' = [local EXCEPT ![t] = seen]
    BY <1>4 DEF Begin, Goto, resultVars, NotStarted
  <2>2. tpc'[t] = "scan" /\ \A j \in Parts[t] : ~(j < pos'[t])
    BY <1>0, <1>2, <2>1
  <2>. QED BY <1>1, <1>3, <2>1, <2>2
<1>5. CASE Scan(t) /\ Last(t)
  <2>1. tpc[t] = "scan" /\ tpc'[t] = "merge" /\ UNCHANGED <<best, bests, pos, local>>
    BY <1>0, <1>5 DEF Scan, Goto, resultVars
  <2>2. \A j \in Parts[t] : j < pos[t]
    BY <1>0, <1>5 DEF Last
  <2>. QED BY <1>1, <1>3, <2>1, <2>2
<1>6. CASE Scan(t) /\ ~Last(t)
  <2>1. PICK i : i = IF V[pos[t]] > V[local[t]] THEN pos[t] ELSE local[t]
    OBVIOUS
  <2>2. /\ tpc[t] = "scan" /\ UNCHANGED <<best, bests, tpc>>
        /\ local' = [local EXCEPT ![t] = i] /\ pos' = [pos EXCEPT ![t] = @ + 1]
    BY <1>0, <1>1, <1>6, <2>1 DEF Scan, resultVars
  <2>3. pos[t] \in 1..Size
    BY <1>2, <1>6 DEF Last
  <2>4. i \in 1..Size /\ AtLeast(i, pos[t]) /\ AtLeast(i, local[t])
    BY <1>1, <1>2, <2>1, <2>3 DEF AtLeast
  <2>5. local' \in [Tasks -> 1..Size] /\ local'[t] = i /\ \A u \in Tasks : u # t => local'[u] = local[u]
    BY <1>1, <2>2, <2>4
  <2>6. ASSUME NEW j \in Parts[t], j < pos'[t]
        PROVE  AtLeast(i, j)
    <3>1. j \in 1..Size /\ pos'[t] = pos[t] + 1
      BY <1>0, <1>2, <2>2
    <3>2. j = pos[t] \/ j < pos[t]
      BY <2>3, <2>6, <3>1
    <3>3. CASE j < pos[t]
      <4>1. AtLeast(local[t], j)
        BY <1>1, <2>2, <3>3
      <4>. QED BY <1>1, <1>2, <2>4, <3>1, <4>1 DEF AtLeast
    <3>. QED BY <2>4, <3>2, <3>3
  <2>. QED BY <1>1, <1>3, <2>2, <2>5, <2>6
<1>7. CASE Merge(t)
  <2>1. PICK i : i = IF V[local[t]] > V[best] THEN local[t] ELSE best
    OBVIOUS
  <2>2. /\ tpc[t] = "merge" /\ tpc'[t] = "done" /\ UNCHANGED local
        /\ best' = i /\ bests' = bests \cup {i}
    BY <1>0, <1>7, <2>1, FinishMoves DEF Merge
  <2>3. i \in 1..Size /\ AtLeast(i, best) /\ AtLeast(i, local[t])
    BY <1>1, <1>2, <2>1 DEF AtLeast
  <2>4. ASSUME NEW j \in Parts[t]
        PROVE  AtLeast(i, j)
    <3>1. AtLeast(local[t], j) /\ j \in 1..Size
      BY <1>1, <1>2, <2>2
    <3>. QED BY <1>1, <1>2, <2>3, <3>1 DEF AtLeast
  <2>. QED BY <1>1, <2>2, <2>3, <2>4
<1>8. ~Test(t) /\ ~Drop(t)
  BY <1>0 DEF Test, Drop
<1>9. CASE Take(t)
  <2>1. tpc'[t] = "taken" /\ UNCHANGED <<best, bests, pos, local>>
    BY <1>0, <1>9 DEF Take, Goto, resultVars
  <2>. QED BY <1>1, <1>3, <2>1
<1>. QED BY <1>4, <1>5, <1>6, <1>7, <1>8, <1>9 DEF TaskStep

LEMMA NextMaximum == PlaceInv /\ MaximumInv /\ [Next]_vars => MaximumInv'
<1>. SUFFICES ASSUME PlaceInv, MaximumInv, [Next]_vars PROVE MaximumInv'
  OBVIOUS
<1>0. /\ call' = call /\ Size' = Size /\ Parts' = Parts /\ Tasks' = Tasks
      /\ Proceeding' => Proceeding
  BY SameCall
<1>. SUFFICES ASSUME Proceeding, call.op = "maximum" PROVE MaximumInv'
  BY <1>0 DEF MaximumInv
<1>1. CASE UNCHANGED <<tpc, pos, local, best, bests>>
  BY <1>0, <1>1 DEF MaximumInv, AtLeast
<1>2. ASSUME NEW t \in DOMAIN tpc, TaskStep(t)
      PROVE  MaximumInv'
  <2>0. t \in Tasks
    BY <1>2 DEF PlaceInv
  <2>1. /\ best' \in 1..Size /\ bests' \subseteq 1..Size /\ local' \in [Tasks -> 1..Size]
        /\ AtLeast(best', best)
        /\ \A u \in Tasks : u # t => local'[u] = local[u]
    BY <1>0, <1>2, <2>0, TaskMaximum
  <2>2. \A i, j : AtLeast(i, j)' <=> call.values[j]' <= call.values[i]'
    BY DEF AtLeast
  <2>3. ASSUME NEW u \in Tasks, NEW j \in Parts[u]
        PROVE  /\ tpc'[u] = "scan" /\ j < pos'[u] => AtLeast(local'[u], j)
               /\ tpc'[u] = "merge" => AtLeast(local'[u], j)
               /\ tpc'[u] = "done" => AtLeast(best', j)
    <3>1. CASE u = t
      BY <1>0, <1>2, <2>0, <2>3, <3>1, TaskMaximum
    <3>2. CASE u # t
      <4>1. tpc'[u] = tpc[u] /\ pos'[u] = pos[u] /\ local'[u] = local[u]
        BY <1>2, <2>0, <2>1, <3>2, TaskMoves
      <4>2. /\ tpc[u] = "scan" /\ j < pos[u] => AtLeast(local[u], j)
            /\ tpc[u] = "merge" => AtLeast(local[u], j)
            /\ tpc[u] = "done" => AtLeast(best, j)
        BY DEF MaximumInv
      <4>3. AtLeast(best, j) => AtLeast(best', j)
        <5>1. /\ best \in 1..Size /\ j \in 1..Size
              /\ \A i \in 1..Size : call.values[i] \in Nat
          BY CallFields, PartsOfList DEF PlaceInv, MaximumInv, Pieces, Tasks
        <5>. QED BY <2>1, <5>1 DEF AtLeast
      <4>. QED BY <4>1, <4>2, <4>3
    <3>. QED BY <3>1, <3>2
  <2>. QED BY <1>0, <2>1, <2>3 DEF MaximumInv, AtLeast
<1>3. CASE Interrupt \/ CloseStep \/ InterruptAgain
  BY <1>1, <1>3, CallerMoves
<1>. QED BY <1>1, <1>2, <1>3 DEF Next, vars, taskVars, resultVars, Return

-----------------------------------------------------------------------------
(* all(): the flag is up only if the predicate fails somewhere, and a task *)
(* that has looked at such an element has seen to that.                    *)

AllInv ==
    call.op = "all" =>
        /\ call.values = <<>> => ~failed /\ tpc = <<>>
        /\ Proceeding =>
            /\ failed => \E i \in 1..Size : ~Holds(i)
            /\ \A t \in Tasks :
                /\ tpc[t] # "merge"
                /\ \A j \in Parts[t] :
                    (tpc[t] = "scan" /\ j < pos[t]) \/ tpc[t] = "done" => Holds(j) \/ failed

LEMMA InitAll == Init => AllInv
<1>. SUFFICES ASSUME Init, call.op = "all" PROVE AllInv
  BY DEF AllInv
<1>1. ASSUME Proceeding
      PROVE  cpc = "running"
  BY <1>1 DEF Init, Proceeding, FirstState
<1>2. ~failed
  BY DEF Init
<1>3. Proceeding => tpc = [t \in Tasks |-> IF call.by = "threads" THEN "taken" ELSE "new"]
  BY <1>1 DEF Init
<1>4. call.values = <<>> => tpc = <<>>
  BY DEF Init, FirstState
<1>. QED BY <1>2, <1>3, <1>4 DEF AllInv

LEMMA TaskAll ==
    ASSUME PlaceInv, Proceeding, AllInv, call.op = "all", NEW t \in Tasks, TaskStep(t)
    PROVE  /\ failed => failed'
           /\ failed' => \E i \in 1..Size : ~Holds(i)
           /\ tpc'[t] # "merge"
           /\ \A j \in Parts[t] :
                (tpc'[t] = "scan" /\ j < pos'[t]) \/ tpc'[t] = "done" => Holds(j) \/ failed'
<1>0. /\ tpc \in [Tasks -> UnderWay \cup {"new", "done"}] /\ tint[t] = FALSE
      /\ pos \in [Tasks -> Nat]
      /\ pos[t] \in Parts[t] \/ \A j \in Parts[t] : j < pos[t]
      /\ tpc[t] \in NotStarted => \A j \in Parts[t] : pos[t] <= j
  BY DEF PlaceInv
<1>1. /\ failed => \E i \in 1..Size : ~Holds(i)
      /\ tpc[t] # "merge"
      /\ \A j \in Parts[t] : tpc[t] = "scan" /\ j < pos[t] => Holds(j) \/ failed
  BY DEF AllInv
<1>2. Size \in Nat /\ Parts[t] \subseteq 1..Size
  BY CallFields, PartsOfList DEF PlaceInv, Pieces, Tasks
<1>3. CASE Begin(t)
  <2>1. UNCHANGED <<failed, pos>> /\ tpc[t] \in NotStarted
    BY <1>3 DEF Begin, resultVars, NotStarted
  <2>2. tpc'[t] = "scan" \/ (tpc'[t] = "done" /\ failed)
    <3>1. PICK seen \in {FALSE, failed} :
            IF seen THEN Finish(t) ELSE Goto(t, "scan") /\ SameThreads
      BY <1>3, Zenon DEF Begin
    <3>2. tpc'[t] = IF seen THEN "done" ELSE "scan"
      BY <1>0, <3>1, FinishMoves DEF Goto
    <3>3. CASE seen
      <4>1. failed
        BY <3>3, Zenon
      <4>. QED BY <3>2, <3>3, <4>1
    <3>4. CASE ~seen
      BY <3>2, <3>4
    <3>. QED BY <3>3, <3>4
  <2>3. \A j \in Parts[t] : ~(j < pos'[t])
    BY <1>0, <1>2, <2>1
  <2>. QED BY <1>1, <2>1, <2>2, <2>3
<1>4. CASE Test(t) /\ Last(t)
  <2>1. UNCHANGED <<failed, pos>> /\ tpc[t] = "scan" /\ tpc'[t] = "done"
    BY <1>0, <1>4, FinishMoves DEF Test
  <2>2. \A j \in Parts[t] : j < pos[t]
    BY <1>0, <1>4 DEF Last
  <2>. QED BY <1>1, <2>1, <2>2
<1>5. CASE Test(t) /\ ~Last(t)
  <2>1. /\ tpc[t] = "scan" /\ failed' = (failed \/ ~Holds(pos[t]))
        /\ pos' = [pos EXCEPT ![t] = @ + 1]
        /\ \E seen \in {failed', ~Holds(pos[t])} :
            IF seen \/ tint[t] THEN Finish(t) ELSE SameThreads /\ UNCHANGED tpc
    BY <1>5 DEF Test
  <2>2. pos[t] \in 1..Size /\ pos'[t] = pos[t] + 1
    BY <1>0, <1>2, <1>5, <2>1 DEF Last
  <2>3. failed' => \E i \in 1..Size : ~Holds(i)
    BY <1>1, <2>1, <2>2
  <2>4. tpc'[t] = "scan" \/ (tpc'[t] = "done" /\ failed')
    BY <1>0, <2>1, FinishMoves
  <2>5. ASSUME NEW j \in Parts[t], j < pos'[t]
        PROVE  Holds(j) \/ failed'
    <3>1. j = pos[t] \/ j < pos[t]
      BY <1>2, <2>2, <2>5
    <3>. QED BY <1>1, <2>1, <3>1
  <2>. QED BY <2>1, <2>3, <2>4, <2>5
<1>6. ~Scan(t) /\ ~Merge(t) /\ ~Drop(t)
  BY <1>0, <1>1 DEF Scan, Merge, Drop
<1>7. CASE Take(t)
  <2>1. tpc'[t] = "taken" /\ UNCHANGED <<failed, pos>>
    BY <1>0, <1>7 DEF Take, Goto, resultVars
  <2>. QED BY <1>1, <2>1
<1>. QED BY <1>3, <1>4, <1>5, <1>6, <1>7 DEF TaskStep

LEMMA NextAll == PlaceInv /\ AllInv /\ [Next]_vars => AllInv'
<1>. SUFFICES ASSUME PlaceInv, AllInv, [Next]_vars PROVE AllInv'
  OBVIOUS
<1>0. /\ call' = call /\ Size' = Size /\ Parts' = Parts /\ Tasks' = Tasks
      /\ Proceeding' => Proceeding
  BY SameCall
<1>. SUFFICES ASSUME call.op = "all" PROVE AllInv'
  BY <1>0 DEF AllInv
<1>9. \A i : Holds(i)' <=> Holds(i)
  BY <1>0 DEF Holds
<1>1. CASE UNCHANGED <<tpc, pos, failed>>
  BY <1>0, <1>1, <1>9 DEF AllInv
<1>2. ASSUME NEW t \in DOMAIN tpc, TaskStep(t)
      PROVE  AllInv'
  <2>1. CASE Proceeding
    <3>0. t \in Tasks
      BY <1>2, <2>1 DEF PlaceInv
    <3>1. (failed => failed') /\ (failed' => \E i \in 1..Size : ~Holds(i))
      BY <1>2, <2>1, <3>0, TaskAll
    <3>2. ASSUME NEW u \in Tasks
          PROVE  /\ tpc'[u] # "merge"
                 /\ \A j \in Parts[u] :
                        (tpc'[u] = "scan" /\ j < pos'[u]) \/ tpc'[u] = "done"
                        => Holds(j) \/ failed'
      <4>1. CASE u = t
        BY <1>2, <2>1, <3>0, <4>1, TaskAll
      <4>2. CASE u # t
        <5>1. tpc'[u] = tpc[u] /\ pos'[u] = pos[u]
          BY <1>2, <2>1, <3>0, <4>2, TaskMoves
        <5>. QED BY <2>1, <3>1, <5>1 DEF AllInv
      <4>. QED BY <4>1, <4>2
    <3>. QED BY <1>0, <1>9, <2>1, <3>1, <3>2 DEF AllInv, Proceeding
  <2>2. CASE ~Proceeding
    <3>1. call.values # <<>>
      BY <1>2 DEF AllInv
    <3>. QED BY <1>0, <2>2, <3>1 DEF AllInv
  <2>. QED BY <2>1, <2>2
<1>3. CASE Interrupt \/ CloseStep \/ InterruptAgain
  BY <1>1, <1>3, CallerMoves
<1>. QED BY <1>1, <1>2, <1>3 DEF Next, vars, taskVars, resultVars, Return

-----------------------------------------------------------------------------

\* The result that a call returns is the right one: the maximum of the whole
\* list, and whether the predicate holds of all of it, however the tasks take
\* turns and whatever old results they read.
THEOREM ResultIsRight == Spec => []ResultRight
<1>1. PlaceInv /\ MaximumInv /\ AllInv => ResultRight
  <2>. SUFFICES ASSUME PlaceInv, MaximumInv, AllInv, cpc = "returned"
                PROVE  IF call.op = "maximum"
                       THEN \A i \in 1..Size : call.values[i] <= call.values[best]
                       ELSE failed <=> \E i \in 1..Size : ~Holds(i)
    BY DEF ResultRight
  <2>1. Size \in Nat /\ (call.values = <<>> <=> Size = 0) /\ call.op \in {"maximum", "all"}
    BY CallFields DEF PlaceInv
  <2>2. CASE call.values = <<>>
    <3>1. 1..Size = {}
      BY <2>1, <2>2
    <3>. QED BY <2>1, <3>1 DEF AllInv
  <2>3. CASE call.values # <<>>
    <3>1. Proceeding
      BY <2>3 DEF Proceeding
    <3>2. /\ \A t \in Tasks : tpc[t] = "done"
          /\ \A i \in 1..Size : \E t \in Tasks : i \in Parts[t]
      BY <3>1, PartsOfList DEF PlaceInv, Whole, Tasks
    <3>3. CASE call.op = "maximum"
      BY <3>1, <3>2, <3>3 DEF MaximumInv, AtLeast
    <3>4. CASE call.op = "all"
      BY <3>1, <3>2, <3>4 DEF AllInv
    <3>. QED BY <2>1, <3>3, <3>4
  <2>. QED BY <2>2, <2>3
<1>. QED
  BY <1>1, InitPlace, InitMaximum, InitAll, NextPlace, NextMaximum, NextAll, PTL DEF Spec
=============================================================================
