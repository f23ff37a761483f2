------------------------ MODULE IterativeParallelism ------------------------
(***************************************************************************)
(* maximum() and all() on several threads: IterativeParallelism, whose     *)
(* parts of the list are tasks of a ParallelMapper, and                    *)
(* IterativeParallelism7HW, which starts a thread for each part.           *)
(* (minimum() and any() are the same with the order, or the predicate,     *)
(* reversed.)                                                              *)
(*                                                                         *)
(* A behaviour is one call. Of an element only its rank in the order       *)
(* matters; the predicate is that the rank is not 0. The mapper gives the  *)
(* tasks out in order. One that the call made for itself is closed at the  *)
(* end, whichever way the call ends (try-with-resources): close() visits   *)
(* each thread once, with an interrupt, and then waits until all have      *)
(* ended.                                                                  *)
(***************************************************************************)
EXTENDS Integers, Sequences, FiniteSets

CONSTANTS
    MaxThreads,     \* bound of the argument threads
    MaxLength,      \* bound of the length of the list
    MaxRank,        \* bound of the ranks of its elements
    SharedWorkers   \* the number of threads of a mapper that was passed in

ASSUME IterativeBoundsAssumption ==
    /\ MaxThreads \in Nat /\ MaxLength \in Nat /\ MaxRank \in Nat
    /\ SharedWorkers \in Nat \ {0}

Call == [op : {"maximum", "all"},
         by : {"threads",   \* IterativeParallelism7HW
               "mapper",    \* IterativeParallelism()
               "shared"},    \* IterativeParallelism(threadPool)
         threads : 0..MaxThreads,
         values : UNION {[1..n -> 0..MaxRank] : n \in 0..MaxLength}]

VARIABLES
    call,       \* the call; it never changes
    cpc,        \* where the caller is, or how its call ended
    best,       \* maximum: the position that result holds
    bests,      \* every position that result has held: what a racy read returns
    failed,     \* all: the flag in result
    tpc,        \* where each task is
    pos,        \* the position of its spliterator
    local,      \* the position that localResult holds
    tint,       \* the interrupt flags of the threads of a task
    fresh,      \* how many threads of the mapper have no task and were not visited
    back,       \* how many were visited in vain and have no task again
    visited     \* the tasks whose threads were visited

resultVars == <<best, bests, failed>>
taskVars == <<tpc, pos, local, tint>>
poolVars == <<fresh, back, visited>>
vars == <<call, cpc, resultVars, taskVars, poolVars>>

-----------------------------------------------------------------------------
(* The parts of a list of n elements for k threads.                        *)

Smaller(a, b) == IF a < b THEN a ELSE b

\* IterativeParallelism.maximum: the first n % k parts are one longer.
Balanced(n, k) ==
    LET left[i \in 0..k] ==
            IF i = 0 THEN 0
            ELSE left[i - 1] + n \div k + IF i <= n % k THEN 1 ELSE 0
    IN  [i \in 1..k |-> (left[i - 1] + 1)..Smaller(left[i], n)]

\* IterativeParallelism7HW.start: the last part takes what is left over.
LastLonger(n, k) ==
    [i \in 1..k |-> ((i - 1) * (n \div k) + 1)..(IF i = k THEN n ELSE i * (n \div k))]

\* all() on a mapper: a task for each element.
OneEach(n) == [i \in 1..n |-> {i}]

Size == Len(call.values)
Parts ==
    CASE call.by = "threads" -> LastLonger(Size, call.threads)
      [] call.by # "threads" /\ call.op = "maximum" -> Balanced(Size, call.threads)
      [] OTHER -> OneEach(Size)
Tasks == DOMAIN Parts
Workers ==
    CASE call.by = "threads" -> Cardinality(Tasks)
      [] call.by = "mapper" -> call.threads
      [] call.by = "shared" -> SharedWorkers
UnderWay == {"taken", "scan", "merge"}
Last(t) == pos[t] \notin Parts[t]

-----------------------------------------------------------------------------
\* The checks before anything is started. A mapper without threads rejects
\* the call of map().
FirstState(k) ==
    CASE k.op = "maximum" /\ k.threads = 0 -> "IllegalArgumentException"
      [] k.op = "maximum" /\ k.threads > 0 /\ k.values = <<>> -> "NoSuchElementException"
      [] k.op = "all" /\ k.values = <<>> -> "returned"
      [] k.op = "all" /\ k.values # <<>> /\ k.threads = 0 /\ k.by = "threads" ->
            "IllegalArgumentException"
      [] k.op = "all" /\ k.values # <<>> /\ k.threads = 0 /\ k.by = "mapper" ->
            "IllegalStateException"
      [] OTHER -> "running"

\* result starts from values.get(0).
Init ==
    /\ call \in Call
    /\ cpc = FirstState(call)
    /\ best = 1
    /\ bests = {1}
    /\ failed = FALSE
    /\ tpc = IF cpc # "running" THEN <<>>
             ELSE [t \in Tasks |-> IF call.by = "threads" THEN "taken" ELSE "new"]
    /\ pos = IF cpc = "running" THEN [t \in Tasks |-> IF Parts[t] = {} THEN 0 ELSE
                CHOOSE i \in Parts[t] : \A j \in Parts[t] : i <= j] ELSE <<>>
    /\ local = [t \in DOMAIN tpc |-> 1]
    /\ tint = [t \in DOMAIN tpc |-> FALSE]
    /\ fresh = IF cpc = "running" /\ call.by # "threads" THEN Workers ELSE 0
    /\ back = 0
    /\ visited = {}

-----------------------------------------------------------------------------
(* The tasks.                                                              *)

Goto(t, state) == tpc' = [tpc EXCEPT ![t] = state]
SameThreads == UNCHANGED <<tint, poolVars>>

\* A thread of the mapper without a task removes the first one of the queue.
Take(t) ==
    /\ tpc[t] = "new"
    /\ \A s \in DOMAIN tpc : s < t => tpc[s] # "new"
    /\ Goto(t, "taken")
    /\ \/ fresh > 0 /\ fresh' = fresh - 1 /\ UNCHANGED <<back, visited>>
       \/ back > 0 /\ back' = back - 1 /\ visited' = visited \cup {t} /\ UNCHANGED fresh
    /\ UNCHANGED <<call, cpc, resultVars, pos, local, tint>>

\* A thread of the mapper that finds itself interrupted before it runs the task
\* ends, and drops the task.
Drop(t) ==
    /\ call.by # "threads"
    /\ tpc[t] = "taken"
    /\ tint[t]
    /\ Goto(t, "dropped")
    /\ visited' = visited \ {t}
    /\ UNCHANGED <<call, cpc, resultVars, pos, local, tint, fresh, back>>

\* The task is over. The mapper's thread has no task again: what there was of
\* an interrupt is gone (MyFunction.run, and the catch around it).
Finish(t) ==
    /\ Goto(t, "done")
    /\ tint' = [tint EXCEPT ![t] = FALSE]
    /\ visited' = visited \ {t}
    /\ IF t \in visited THEN back' = back + 1 /\ UNCHANGED fresh
       ELSE /\ fresh' = fresh + IF call.by = "threads" THEN 0 ELSE 1
            /\ UNCHANGED back

\* The task reads result, without synchronization. A thread that all() starts
\* reads it later.
Begin(t) ==
    /\ tpc[t] = "taken"
    /\ call.by # "threads" => ~tint[t]
    /\ IF call.op = "maximum"
       THEN /\ Goto(t, "scan") /\ SameThreads
            /\ \E seen \in bests : local' = [local EXCEPT ![t] = seen]
       ELSE /\ \E seen \in IF call.by = "threads" THEN {FALSE} ELSE {FALSE, failed} :
                IF seen THEN Finish(t) ELSE Goto(t, "scan") /\ SameThreads
            /\ UNCHANGED local
    /\ UNCHANGED <<call, cpc, resultVars, pos>>

\* maximum: tryAdvance, and the test of the interrupt flag after it.
Scan(t) ==
    /\ call.op = "maximum"
    /\ tpc[t] = "scan"
    /\ IF Last(t)
       THEN Goto(t, "merge") /\ SameThreads /\ UNCHANGED <<pos, local>>
       ELSE /\ local' = [local EXCEPT ![t] =
                            IF call.values[pos[t]] > call.values[@] THEN pos[t] ELSE @]
            /\ pos' = [pos EXCEPT ![t] = @ + 1]
            /\ IF tint[t] THEN Finish(t) ELSE SameThreads /\ UNCHANGED tpc
    /\ UNCHANGED <<call, cpc, resultVars>>

\* Mutant of Merge: the part's maximum replaces what is there.
MergeAnyway(t) ==
    /\ tpc[t] = "merge"
    /\ best' = local[t]
    /\ bests' = bests \cup {local[t]}
    /\ Finish(t)
    /\ UNCHANGED <<call, cpc, failed, pos, local>>

\* synchronized (result): the larger one of two stays, the older one of equals.
Merge(t) ==
    /\ tpc[t] = "merge"
    /\ best' = IF call.values[local[t]] > call.values[best] THEN local[t] ELSE best
    /\ bests' = bests \cup {best'}
    /\ Finish(t)
    /\ UNCHANGED <<call, cpc, failed, pos, local>>

Holds(i) == call.values[i] # 0

\* Mutant of Test: the loop does not look at what tryAdvance returns.
TestForever(t) ==
    /\ call.op = "all"
    /\ tpc[t] = "scan"
    /\ failed' = (failed \/ (~Last(t) /\ ~Holds(pos[t])))
    /\ pos' = [pos EXCEPT ![t] = IF Last(t) THEN @ ELSE @ + 1]
    /\ IF failed' \/ tint[t] THEN Finish(t) ELSE SameThreads /\ UNCHANGED tpc
    /\ UNCHANGED <<call, cpc, best, bests, local>>

\* all: the predicate is tested. A thread goes on until it sees the flag, which
\* it reads without synchronization (it does see what it wrote itself).
Test(t) ==
    /\ call.op = "all"
    /\ tpc[t] = "scan"
    /\ IF Last(t)
       THEN Finish(t) /\ UNCHANGED <<failed, pos>>
       ELSE /\ failed' = (failed \/ ~Holds(pos[t]))
            /\ pos' = [pos EXCEPT ![t] = @ + 1]
            /\ \E seen \in {failed', ~Holds(pos[t])} :
                IF seen \/ tint[t] THEN Finish(t) ELSE SameThreads /\ UNCHANGED tpc
    /\ UNCHANGED <<call, cpc, best, bests, local>>

TaskStep(t) == Take(t) \/ Drop(t) \/ Begin(t) \/ Scan(t) \/ Merge(t) \/ Test(t)

-----------------------------------------------------------------------------
(* The caller.                                                             *)

\* map() returns, or all the threads are joined.
Return ==
    /\ cpc = "running"
    /\ \A t \in DOMAIN tpc : tpc[t] = "done"
    /\ cpc' = IF call.by = "mapper" THEN "closing" ELSE "returned"
    /\ UNCHANGED <<call, resultVars, taskVars, poolVars>>

\* The caller is interrupted while it waits. It interrupts the threads that it
\* started itself and leaves; a mapper of its own it closes first.
Interrupt ==
    /\ cpc = "running"
    /\ cpc' = IF call.by = "mapper" THEN "aborting" ELSE "interrupted"
    /\ tint' = [t \in DOMAIN tpc |-> call.by = "threads" /\ tpc[t] # "done"]
    /\ UNCHANGED <<call, resultVars, tpc, pos, local, poolVars>>

Closing == cpc \in {"closing", "aborting"}

\* close() interrupts a thread that has no task: it ends.
VisitIdle ==
    /\ Closing
    /\ fresh > 0
    /\ fresh' = fresh - 1
    /\ UNCHANGED <<call, cpc, resultVars, taskVars, back, visited>>

\* close() interrupts the thread that has task t.
Visit(t) ==
    /\ Closing
    /\ tpc[t] \in UnderWay
    /\ t \notin visited
    /\ visited' = visited \cup {t}
    /\ tint' = [tint EXCEPT ![t] = TRUE]
    /\ UNCHANGED <<call, cpc, resultVars, tpc, pos, local, fresh, back>>

AllVisited == fresh = 0 /\ \A t \in DOMAIN tpc : tpc[t] \in UnderWay => t \in visited

\* The caller is interrupted once more, while it waits for the thread to end:
\* it interrupts the thread once more.
InterruptAgain ==
    /\ Closing
    /\ AllVisited
    /\ \/ back > 0 /\ back' = back - 1 /\ UNCHANGED tint
       \/ /\ \E t \in DOMAIN tpc :
                tpc[t] \in UnderWay /\ tint' = [tint EXCEPT ![t] = TRUE]
          /\ UNCHANGED back
    /\ UNCHANGED <<call, cpc, resultVars, tpc, pos, local, fresh, visited>>

\* Every thread of the mapper has ended.
CloseReturns ==
    /\ Closing
    /\ AllVisited /\ visited = {} /\ back = 0
    /\ cpc' = IF cpc = "closing" THEN "returned" ELSE "interrupted"
    /\ UNCHANGED <<call, resultVars, taskVars, poolVars>>

CloseStep == VisitIdle \/ (\E t \in DOMAIN tpc : Visit(t)) \/ CloseReturns

Next ==
    \/ \E t \in DOMAIN tpc : TaskStep(t)
    \/ Return \/ Interrupt \/ CloseStep \/ InterruptAgain

Spec == Init /\ [][Next]_vars

\* Threads that can run do run; comparators and predicates terminate. Nobody
\* has to interrupt the caller.
Fairness ==
    /\ WF_vars(\E t \in DOMAIN tpc : TaskStep(t))
    /\ WF_vars(Return)
    /\ WF_vars(CloseStep)

FairSpec == Spec /\ Fairness

-----------------------------------------------------------------------------
(* Properties.                                                             *)

\* Every variable has its type.
TypeOK ==
    /\ call \in Call
    /\ cpc \in {"running", "closing", "aborting", "returned", "interrupted",
                "IllegalArgumentException", "NoSuchElementException",
                "IllegalStateException"}
    /\ best \in Nat \ {0} /\ bests \subseteq 1..MaxLength \cup {1} /\ failed \in BOOLEAN
    /\ \A t \in DOMAIN tpc :
        /\ tpc[t] \in UnderWay \cup {"new", "done", "dropped"}
        /\ pos[t] \in 0..MaxLength + 1
        /\ local[t] \in bests \cup Parts[t]
        /\ tint[t] \in BOOLEAN
    /\ fresh \in Nat /\ back \in Nat
    /\ visited \subseteq {t \in DOMAIN tpc : tpc[t] \in UnderWay}

\* The result that is returned is right. Neither the order in which the parts
\* end, nor the old values that they start from, lose a larger element; and the
\* threads of all() may stop early, and read the flag without synchronization,
\* yet no element on which the predicate fails is overlooked.
ResultRight ==
    cpc = "returned" =>
        IF call.op = "maximum" THEN \A i \in 1..Size : call.values[i] <= call.values[best]
        ELSE failed <=> \E i \in 1..Size : ~Holds(i)

\* The call has ended and has left no thread behind: every task is over, or in
\* the queue of a mapper whose threads have all ended.
Ended ==
    /\ cpc \in {"returned", "interrupted"}
    /\ \A t \in DOMAIN tpc :
        tpc[t] \in {"done", "dropped"} \/ (tpc[t] = "new" /\ call.by = "mapper")
    /\ call.by = "mapper" => fresh = 0 /\ back = 0

\* A call ends, interrupted or not, and leaves no thread behind, provided
\* close() does not interrupt a thread of the call's own mapper that is inside
\* f. If it does, the call may never end: see Finish (and
\* ParallelMapper!CloseStopsWorkers).
CallEnds ==
    [](\A t \in DOMAIN tpc : call.by = "mapper" /\ tpc[t] \in {"scan", "merge"} => ~tint[t])
        => (cpc = "running" ~> Ended)
=============================================================================
