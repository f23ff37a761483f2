------------------------ MODULE ParallelMapperProofs ------------------------
(* Proofs about ParallelMapper, for any number of threads and of calls.    *)
EXTENDS ParallelMapper, FiniteSetTheorems, TLAPS

-----------------------------------------------------------------------------
(* Lemmas about the operators.                                             *)

\* A task is a call and a position in its list (ParallelMapperImpl.java:117-122).
LEMMA TaskParts ==
    ASSUME NEW t \in Tasks
    PROVE  /\ t[1] \in Clients
           /\ t[2] \in Indices(t[1])
           /\ t[2] \in Nat
           /\ t = <<t[1], t[2]>>
<1>1. PICK c \in Clients : t \in {c} \X Indices(c)
  BY DEF Tasks
<1>2. t[1] = c /\ t[2] \in Indices(c) /\ t = <<t[1], t[2]>>
  BY <1>1
<1>3. Indices(c) \subseteq Nat
  BY ArgsAssumption DEF Indices
<1>. QED
  BY <1>2, <1>3

\* A call and a position of its list make a task.
LEMMA TaskOf ==
    ASSUME NEW c \in Clients, NEW i \in Indices(c)
    PROVE  <<c, i>> \in Tasks
BY DEF Tasks

\* notify() moves at most one thread, from waiting to woken, and does move
\* one when there is one (lines 80, 85 and 126).
LEMMA NotifyOneMoves ==
    ASSUME NEW pc \in [Workers -> WorkerStates], NEW q \in NotifyOne(pc)
    PROVE  /\ q \in [Workers -> WorkerStates]
           /\ \A w \in Workers :
                q[w] = pc[w] \/ (pc[w] = "waiting" /\ q[w] = "woken")
           /\ Waiters(q) \subseteq Waiters(pc)
           /\ Waiters(pc) # {} => \E w \in Workers : q[w] = "woken"
<1>1. CASE Waiters(pc) = {}
  BY <1>1 DEF NotifyOne
<1>2. CASE Waiters(pc) # {}
  <2>1. PICK u \in Waiters(pc) : q = [pc EXCEPT ![u] = "woken"]
    BY <1>2 DEF NotifyOne
  <2>2. u \in Workers /\ pc[u] = "waiting"
    BY DEF Waiters
  <2>. QED
    BY <2>1, <2>2 DEF Waiters, WorkerStates
<1>. QED
  BY <1>1, <1>2

\* notifyAll() (line 150) leaves nobody waiting.
LEMMA NotifyAllMoves ==
    ASSUME NEW pc \in [Workers -> WorkerStates]
    PROVE  /\ NotifyAll(pc) \in [Workers -> WorkerStates]
           /\ Waiters(NotifyAll(pc)) = {}
           /\ \A w \in Workers :
                \/ NotifyAll(pc)[w] = pc[w]
                \/ pc[w] = "waiting" /\ NotifyAll(pc)[w] = "woken"
BY DEF NotifyAll, Waiters, WorkerStates

\* Taking the head of the queue leaves a queue of tasks (line 84).
LEMMA HeadAndTail ==
    ASSUME NEW s \in Seq(Tasks), s # <<>>
    PROVE  Head(s) \in Tasks /\ Tail(s) \in Seq(Tasks)
OBVIOUS

-----------------------------------------------------------------------------
(* Type correctness.                                                       *)

\* Worker states with the task that goes with them: the part of TypeOK that
\* the steps of the workers disturb.
WorkerTypeOK ==
    /\ functionQueue \in Seq(Tasks)
    /\ wpc \in [Workers -> WorkerStates]
    /\ func \in [Workers -> Tasks \cup {NoTask}]
    /\ \A w \in Workers : func[w] # NoTask <=> wpc[w] \in Holding
    /\ interrupted \in [Workers -> BOOLEAN]

\* Line 84 gives the worker the task that the queue gives up.
LEMMA TakeTypeOK ==
    ASSUME WorkerTypeOK, NEW w \in Workers, wpc[w] \notin Holding, Take(w)
    PROVE  WorkerTypeOK'
<1>. DEFINE moved == Moved(w, "taken")
<1>1. moved \in [Workers -> WorkerStates]
  BY DEF WorkerTypeOK, Moved, WorkerStates
<1>2. wpc' \in NotifyOne(moved)
  BY DEF Take
<1>3. /\ wpc' \in [Workers -> WorkerStates]
      /\ \A v \in Workers : wpc'[v] = moved[v] \/ (moved[v] = "waiting" /\ wpc'[v] = "woken")
  <2>. HIDE DEF moved
  <2>. QED BY <1>1, <1>2, NotifyOneMoves
<1>4. Head(functionQueue) \in Tasks /\ Tail(functionQueue) \in Seq(Tasks)
  BY HeadAndTail DEF WorkerTypeOK, Take
<1>5. moved[w] = "taken" /\ \A v \in Workers \ {w} : moved[v] = wpc[v]
  BY DEF WorkerTypeOK, Moved
<1>6. \A v \in Workers : func'[v] # NoTask <=> wpc'[v] \in Holding
  <2>. HIDE DEF moved
  <2>1. func'[w] # NoTask /\ wpc'[w] = "taken"
    BY <1>3, <1>4, <1>5, NoTaskAssumption DEF WorkerTypeOK, Take
  <2>2. ASSUME NEW v \in Workers \ {w}
        PROVE  func'[v] # NoTask <=> wpc'[v] \in Holding
    <3>1. func'[v] = func[v]
      BY DEF WorkerTypeOK, Take
    <3>2. wpc'[v] = wpc[v] \/ (wpc[v] = "waiting" /\ wpc'[v] = "woken")
      BY <1>3, <1>5
    <3>. QED BY <3>1, <3>2 DEF WorkerTypeOK, Holding
  <2>. QED BY <2>1, <2>2 DEF Holding
<1>. QED
  BY <1>3, <1>4, <1>6 DEF WorkerTypeOK, Take

\* A step that moves only w, keeps its task exactly when it is told to, and
\* may notify, preserves the types.
LEMMA MoveTypeOK ==
    ASSUME WorkerTypeOK, NEW w \in Workers, NEW s \in WorkerStates,
           functionQueue' \in Seq(Tasks),
           wpc' = Moved(w, s) \/ wpc' \in NotifyOne(Moved(w, s)),
           interrupted' \in [Workers -> BOOLEAN],
           \/ func' = [func EXCEPT ![w] = NoTask] /\ s \notin Holding
           \/ func' = func /\ (s \in Holding <=> wpc[w] \in Holding)
    PROVE  WorkerTypeOK'
<1>. DEFINE moved == Moved(w, s)
<1>1. moved \in [Workers -> WorkerStates]
  BY DEF WorkerTypeOK, Moved
<1>2. moved[w] = s /\ \A v \in Workers \ {w} : moved[v] = wpc[v]
  BY DEF WorkerTypeOK, Moved
<1>3. /\ wpc' \in [Workers -> WorkerStates]
      /\ \A v \in Workers : wpc'[v] = moved[v] \/ (moved[v] = "waiting" /\ wpc'[v] = "woken")
  <2>. wpc' = moved \/ wpc' \in NotifyOne(moved)
    OBVIOUS
  <2>. HIDE DEF moved
  <2>. QED BY <1>1, NotifyOneMoves
<1>4. \A v \in Workers : func'[v] # NoTask <=> wpc'[v] \in Holding
  <2>. HIDE DEF moved
  <2>. QED BY <1>2, <1>3 DEF WorkerTypeOK, Holding
<1>5. func' \in [Workers -> Tasks \cup {NoTask}]
  BY DEF WorkerTypeOK
<1>. QED
  BY <1>3, <1>4, <1>5 DEF WorkerTypeOK

\* Every step of a worker preserves the types of what the workers own.
LEMMA WorkerStepTypeOK ==
    ASSUME WorkerTypeOK, NEW w \in Workers, WorkerStep(w) \/ SpuriousWakeup(w)
    PROVE  WorkerTypeOK'
<1>. functionQueue \in Seq(Tasks) /\ interrupted \in [Workers -> BOOLEAN]
  BY DEF WorkerTypeOK
<1>1. CASE Enter(w)
  <2>1. CASE Take(w)
    BY <1>1, <2>1, TakeTypeOK DEF Enter, Holding
  <2>2. CASE Await(w)
    BY <1>1, <2>2, MoveTypeOK DEF Enter, Await, Holding, WorkerStates
  <2>3. CASE LeaveAtTop(w)
    BY <1>1, <2>3, MoveTypeOK DEF Enter, LeaveAtTop, Holding, WorkerStates
  <2>. QED BY <1>1, <2>1, <2>2, <2>3 DEF Enter
<1>2. CASE Resume(w)
  <2>1. CASE Take(w)
    BY <1>2, <2>1, TakeTypeOK DEF Resume, Holding
  <2>2. CASE Await(w)
    BY <1>2, <2>2, MoveTypeOK DEF Resume, Await, Holding, WorkerStates
  <2>3. CASE LeaveWoken(w)
    BY <1>2, <2>3, MoveTypeOK DEF Resume, LeaveWoken, Holding, WorkerStates
  <2>. QED BY <1>2, <2>1, <2>2, <2>3 DEF Resume
<1>3. CASE WaitInterrupted(w)
  BY <1>3, MoveTypeOK DEF WaitInterrupted, Holding, WorkerStates
<1>4. CASE Checked(w)
  BY <1>4, MoveTypeOK DEF Checked, Holding, WorkerStates
<1>5. CASE Run(w)
  <2>1. CASE Throws(w)
    BY <1>5, <2>1, MoveTypeOK DEF Run, Throws, Holding, WorkerStates
  <2>2. CASE Dies(w)
    BY <1>5, <2>2, MoveTypeOK DEF Run, Dies, Holding, WorkerStates
  <2>3. CASE Swallows(w)
    BY <1>5, <2>3, MoveTypeOK DEF Run, Swallows, Holding, WorkerStates
  <2>4. CASE Computes(w)
    BY <1>5, <2>4, MoveTypeOK DEF Run, Computes, Holding, WorkerStates
  <2>. QED BY <1>5, <2>1, <2>2, <2>3, <2>4 DEF Run
<1>6. CASE Accept(w)
  BY <1>6, MoveTypeOK DEF Accept, Holding, WorkerStates
<1>7. CASE Exit(w)
  BY <1>7, MoveTypeOK DEF Exit, Holding, WorkerStates
<1>8. CASE SpuriousWakeup(w)
  BY <1>8, MoveTypeOK DEF SpuriousWakeup, Holding, WorkerStates
<1>. QED
  BY <1>1, <1>2, <1>3, <1>4, <1>5, <1>6, <1>7, <1>8 DEF WorkerStep

\* The rest of TypeOK.
OtherTypeOK ==
    /\ aClose \in Int
    /\ aCloseValues \in SUBSET Int
    /\ cpc \in [Clients -> CallStates]
    /\ cint \in [Clients -> BOOLEAN]
    /\ results \in [Clients -> SUBSET Nat]
    /\ cnt \in [Clients -> Nat]
    /\ kpc \in {"idle", "visit", "join"}
    /\ kvisit \in 0..Threads
    /\ threadList \in SUBSET Workers
    /\ kint \in BOOLEAN
    /\ kinterrupt \in BOOLEAN
    /\ closes \in 0..MaxCloses
    /\ kinterrupts \in 0..MaxCloserInterrupts

LEMMA TypeOKParts == TypeOK <=> WorkerTypeOK /\ OtherTypeOK
BY DEF TypeOK, WorkerTypeOK, OtherTypeOK

\* Steps of the workers: only ResultCollector.set and --aClose touch the
\* variables of the calls and of close().
LEMMA WorkerStepOtherTypeOK ==
    ASSUME TypeOK, NEW w \in Workers, WorkerStep(w) \/ SpuriousWakeup(w)
    PROVE  OtherTypeOK'
<1>1. CASE UNCHANGED <<flagVars, clientVars, closeVars>>
  BY <1>1 DEF TypeOK, OtherTypeOK, flagVars, clientVars, closeVars
<1>2. CASE Accept(w)
  <2>1. func[w] \in Tasks
    BY <1>2, NoTaskAssumption DEF TypeOK, Accept, Holding
  <2>. DEFINE c == func[w][1]
              i == func[w][2]
  <2>2. c \in Clients /\ i \in Nat
    BY <2>1, TaskParts
  <2>. HIDE DEF c, i
  <2>3. /\ results' = [results EXCEPT ![c] = @ \cup {i}]
        /\ cnt' = [cnt EXCEPT ![c] = @ + 1]
        /\ cpc' = cpc \/ cpc' = [cpc EXCEPT ![c] = "loop"]
        /\ UNCHANGED <<flagVars, cint, closeVars>>
    BY <1>2 DEF Accept, c, i
  <2>4. results' \in [Clients -> SUBSET Nat]
    BY <2>2, <2>3 DEF TypeOK
  <2>5. cnt' \in [Clients -> Nat]
    <3>1. cnt[c] + 1 \in Nat /\ cnt \in [Clients -> Nat]
      BY <2>2 DEF TypeOK
    <3>. QED BY <2>2, <2>3, <3>1
  <2>6. cpc' \in [Clients -> CallStates]
    BY <2>2, <2>3 DEF TypeOK, CallStates
  <2>. QED
    BY <2>3, <2>4, <2>5, <2>6 DEF TypeOK, OtherTypeOK, flagVars, closeVars
<1>3. CASE Exit(w)
  BY <1>3 DEF TypeOK, OtherTypeOK, Exit, clientVars, closeVars
<1>. QED
  BY <1>1, <1>2, <1>3
     DEF WorkerStep, SpuriousWakeup, Enter, Resume, WaitInterrupted, Checked, Run

\* Steps of a call of map(): Add is the only one that touches the queue.
LEMMA CallStepTypeOK ==
    ASSUME TypeOK, NEW c \in Clients,
           CallStep(c) \/ SpuriousReturn(c) \/ InterruptCall(c)
    PROVE  TypeOK'
<1>1. CASE Add(c)
  <2>1. TasksOf(c) \in Seq(Tasks)
    BY ArgsAssumption, TaskOf DEF TasksOf, Indices
  <2>2. functionQueue' \in Seq(Tasks)
    BY <1>1, <2>1 DEF Add, TypeOK
  <2>3. /\ wpc' \in [Workers -> WorkerStates]
        /\ \A w \in Workers : wpc'[w] = wpc[w] \/ (wpc[w] = "waiting" /\ wpc'[w] = "woken")
    <3>1. wpc \in [Workers -> WorkerStates] /\ wpc' \in NotifyOne(wpc)
      BY <1>1 DEF Add, TypeOK
    <3>. QED BY <3>1, NotifyOneMoves
  <2>4. \A w \in Workers : func'[w] # NoTask <=> wpc'[w] \in Holding
    BY <1>1, <2>3 DEF Add, TypeOK, Holding
  <2>. QED
    BY <1>1, <2>2, <2>3, <2>4 DEF Add, TypeOK, flagVars, closeVars, CallStates
<1>2. CASE Start(c)
  BY <1>2 DEF TypeOK, Start, queueVars, flagVars, closeVars, CallStates
<1>3. CASE Loop(c)
  BY <1>3 DEF TypeOK, Loop, queueVars, flagVars, closeVars, CallStates
<1>4. CASE CallInterrupted(c)
  BY <1>4 DEF TypeOK, CallInterrupted, queueVars, flagVars, closeVars, CallStates
<1>5. CASE SpuriousReturn(c)
  BY <1>5 DEF TypeOK, SpuriousReturn, queueVars, flagVars, closeVars, CallStates
<1>6. CASE InterruptCall(c)
  BY <1>6 DEF TypeOK, InterruptCall, queueVars, flagVars, closeVars
<1>. QED
  BY <1>1, <1>2, <1>3, <1>4, <1>5, <1>6 DEF CallStep

\* Steps of close() and of whoever interrupts it.
LEMMA CloserStepTypeOK ==
    ASSUME TypeOK, Close \/ CloserStep \/ InterruptCloser
    PROVE  TypeOK'
<1>. USE ThreadsAssumption, BoundsAssumption
<1>1. CASE Close
  <2>1. /\ closes' \in 0..MaxCloses
        /\ kvisit' \in 0..Threads
        /\ aCloseValues' \in SUBSET Int
    BY <1>1 DEF TypeOK, Close
  <2>. QED
    BY <1>1, <2>1 DEF TypeOK, Close, queueVars, clientVars
<1>2. CASE Visit
  <2>1. kvisit' \in 0..Threads
    BY <1>2 DEF TypeOK, Visit, Workers
  <2>2. interrupted' \in [Workers -> BOOLEAN] /\ threadList' \in SUBSET Workers
    BY <1>2 DEF TypeOK, Visit
  <2>. QED
    BY <1>2, <2>1, <2>2 DEF TypeOK, Visit, queueVars, flagVars, clientVars
<1>3. CASE WakeAll
  <2>1. /\ wpc' \in [Workers -> WorkerStates]
        /\ \A w \in Workers : wpc'[w] = wpc[w] \/ (wpc[w] = "waiting" /\ wpc'[w] = "woken")
    BY <1>3, NotifyAllMoves DEF WakeAll, TypeOK
  <2>2. \A w \in Workers : func'[w] # NoTask <=> wpc'[w] \in Holding
    BY <1>3, <2>1 DEF WakeAll, TypeOK, Holding
  <2>. QED
    BY <1>3, <2>1, <2>2 DEF TypeOK, WakeAll, flagVars, clientVars
<1>4. CASE CloseReturns
  BY <1>4 DEF TypeOK, CloseReturns, queueVars, flagVars, clientVars
<1>5. ASSUME NEW w \in Workers, Join(w)
      PROVE  TypeOK'
  BY <1>5 DEF TypeOK, Join, queueVars, flagVars, clientVars
<1>6. ASSUME NEW w \in Workers, JoinInterrupted(w)
      PROVE  TypeOK'
  BY <1>6 DEF TypeOK, JoinInterrupted, queueVars, flagVars, clientVars
<1>7. CASE InterruptCloser
  BY <1>7 DEF TypeOK, InterruptCloser, queueVars, flagVars, clientVars
<1>. QED
  BY <1>1, <1>2, <1>3, <1>4, <1>5, <1>6, <1>7 DEF CloserStep

LEMMA InitTypeOK == Init => TypeOK
<1>. SUFFICES ASSUME Init PROVE TypeOK
  OBVIOUS
<1>1. WorkerTypeOK
  BY DEF Init, WorkerTypeOK, WorkerStates, Holding
<1>2. OtherTypeOK
  <2>1. aClose \in Int /\ aCloseValues \in SUBSET Int
    BY ThreadsAssumption DEF Init, InitialAClose
  <2>2. 0 \in 0..Threads /\ 0 \in 0..MaxCloses /\ 0 \in 0..MaxCloserInterrupts
    BY ThreadsAssumption, BoundsAssumption
  <2>3. results \in [Clients -> SUBSET Nat] /\ cnt \in [Clients -> Nat]
    BY DEF Init
  <2>. QED
    BY <2>1, <2>2, <2>3 DEF Init, OtherTypeOK, CallStates
<1>. QED
  BY <1>1, <1>2, TypeOKParts

LEMMA NextTypeOK == TypeOK /\ [Next]_vars => TypeOK'
<1>. SUFFICES ASSUME TypeOK, [Next]_vars PROVE TypeOK'
  OBVIOUS
<1>1. ASSUME NEW w \in Workers, WorkerStep(w) \/ SpuriousWakeup(w)
      PROVE  TypeOK'
  <2>1. WorkerTypeOK
    BY TypeOKParts
  <2>2. WorkerTypeOK'
    BY <1>1, <2>1, WorkerStepTypeOK
  <2>3. OtherTypeOK'
    BY <1>1, WorkerStepOtherTypeOK
  <2>. QED
    BY <2>2, <2>3 DEF TypeOK, WorkerTypeOK, OtherTypeOK
<1>2. CASE UNCHANGED vars
  BY <1>2 DEF TypeOK, vars
<1>. QED
  BY <1>1, <1>2, CallStepTypeOK, CloserStepTypeOK DEF Next

\* The variables of the mapper always have their types, and a worker holds a
\* task exactly between remove() and the end of run().
THEOREM TypeCorrect == Spec => []TypeOK
<1>. QED
  BY InitTypeOK, NextTypeOK, PTL DEF Spec

-----------------------------------------------------------------------------
(* No lost wakeup.                                                         *)

\* A worker that takes the monitor, with or without a task, leaves a woken
\* worker behind if there are tasks and waiters left.
LEMMA NotifyKeepsWakeup ==
    ASSUME WorkerTypeOK, NEW w \in Workers, NEW s \in WorkerStates,
           wpc' \in NotifyOne(Moved(w, s)), s # "waiting"
    PROVE  WakeupInFlight'
<1>. DEFINE moved == Moved(w, s)
<1>1. moved \in [Workers -> WorkerStates]
  BY DEF WorkerTypeOK, Moved
<1>2. /\ Waiters(wpc') \subseteq Waiters(moved)
      /\ Waiters(moved) # {} => \E v \in Workers : wpc'[v] = "woken"
  <2>. HIDE DEF moved
  <2>1. wpc' \in NotifyOne(moved)
    BY DEF moved
  <2>. QED BY <1>1, <2>1, NotifyOneMoves
<1>. QED
  BY <1>2 DEF WakeupInFlight

\* A worker that was not woken may move without harm, unless it waits.
LEMMA MoveKeepsWakeup ==
    ASSUME WorkerTypeOK, WakeupInFlight, NEW w \in Workers,
           NEW s \in WorkerStates \ {"waiting"}, wpc[w] # "woken",
           wpc' = Moved(w, s), UNCHANGED functionQueue
    PROVE  WakeupInFlight'
<1>1. Waiters(wpc') \subseteq Waiters(wpc)
  BY DEF WorkerTypeOK, Moved, Waiters
<1>2. \A v \in Workers : wpc[v] = "woken" => wpc'[v] = "woken"
  BY DEF WorkerTypeOK, Moved
<1>. QED
  BY <1>1, <1>2 DEF WakeupInFlight

LEMMA WorkerStepWakeup ==
    ASSUME WorkerTypeOK, WakeupInFlight, NEW w \in Workers,
           WorkerStep(w) \/ SpuriousWakeup(w)
    PROVE  WakeupInFlight'
<1>1. CASE Take(w)
  BY <1>1, NotifyKeepsWakeup DEF Take, WorkerStates
<1>2. CASE Await(w)
  BY <1>2 DEF Await, WakeupInFlight
<1>3. CASE LeaveWoken(w)
  BY <1>3, NotifyKeepsWakeup DEF LeaveWoken, WorkerStates
<1>4. CASE wpc[w] = "top" /\ LeaveAtTop(w)
  BY <1>4, MoveKeepsWakeup DEF LeaveAtTop, WorkerStates
<1>5. CASE WaitInterrupted(w) \/ Exit(w)
  BY <1>5, MoveKeepsWakeup DEF WaitInterrupted, Exit, WorkerStates
<1>6. CASE Checked(w)
  BY <1>6, MoveKeepsWakeup DEF Checked, WorkerStates
<1>7. CASE Run(w)
  BY <1>7, MoveKeepsWakeup DEF Run, Throws, Dies, Swallows, Computes, WorkerStates
<1>8. CASE Accept(w)
  BY <1>8, MoveKeepsWakeup DEF Accept, WorkerStates
<1>9. CASE SpuriousWakeup(w)
  BY <1>9, MoveKeepsWakeup DEF SpuriousWakeup, WorkerStates
<1>. QED
  BY <1>1, <1>2, <1>3, <1>4, <1>5, <1>6, <1>7, <1>8, <1>9
     DEF WorkerStep, Enter, Resume

LEMMA NextWakeup ==
    TypeOK /\ WakeupInFlight /\ [Next]_vars => WakeupInFlight'
<1>. SUFFICES ASSUME TypeOK, WakeupInFlight, [Next]_vars
              PROVE  WakeupInFlight'
  OBVIOUS
<1>0. WorkerTypeOK
  BY TypeOKParts
<1>1. ASSUME NEW w \in Workers, WorkerStep(w) \/ SpuriousWakeup(w)
      PROVE  WakeupInFlight'
  BY <1>0, <1>1, WorkerStepWakeup
<1>2. CASE UNCHANGED <<functionQueue, wpc>>
  BY <1>2 DEF WakeupInFlight
<1>3. ASSUME NEW c \in Clients, Add(c)
      PROVE  WakeupInFlight'
  <2>1. wpc \in [Workers -> WorkerStates] /\ wpc' \in NotifyOne(wpc)
    BY <1>3 DEF TypeOK, Add
  <2>. QED
    BY <2>1, NotifyOneMoves DEF WakeupInFlight
<1>4. CASE WakeAll
  <2>1. wpc \in [Workers -> WorkerStates] /\ wpc' = NotifyAll(wpc)
    BY <1>4 DEF TypeOK, WakeAll
  <2>. QED
    BY <2>1, NotifyAllMoves DEF WakeupInFlight
<1>. QED
  BY <1>1, <1>2, <1>3, <1>4
     DEF Next, vars, queueVars, CallStep, Start, Loop, CallInterrupted,
         SpuriousReturn, InterruptCall, Close, CloserStep, Visit, CloseReturns,
         Join, JoinInterrupted, InterruptCloser

\* One notify() per event is enough (lines 80, 85, 126): workers never all
\* sleep or die beside a task that somebody could still be woken for.
THEOREM NoLostWakeup == Spec => []WakeupInFlight
<1>1. Init => WakeupInFlight
  BY DEF Init, WakeupInFlight
<1>. QED
  BY <1>1, TypeCorrect, NextWakeup, PTL DEF Spec

-----------------------------------------------------------------------------
(* A task is in one place. The inductive invariant adds to OnePlace that a *)
(* call that has not submitted its list has no task anywhere.              *)

Placement ==
    /\ OnePlace
    /\ \A c \in Clients : results[c] \subseteq Indices(c)
    /\ \A c \in Clients : ~Submitted(c) =>
        \A i \in Indices(c) : <<c, i>> \notin Queued \cup Held \cup Done

\* What is done is a set of tasks.
LEMMA DoneIff ==
    ASSUME NEW c \in Clients, NEW i
    PROVE  <<c, i>> \in Done <=> i \in results[c]
BY DEF Done

\* The length of a list is the number of its positions.
LEMMA IndicesFinite ==
    ASSUME NEW c \in Clients
    PROVE  IsFiniteSet(Indices(c)) /\ Cardinality(Indices(c)) = Args[c]
<1>1. Args[c] \in Nat
  BY ArgsAssumption
<1>2. IsFiniteSet(1..Args[c])
  BY <1>1, FS_Interval
<1>3. Cardinality(1..Args[c]) = IF 1 > Args[c] THEN 0 ELSE Args[c] - 1 + 1
  <2>1. PICK n \in Nat : n = Args[c]
    BY <1>1
  <2>2. Cardinality(1..n) = IF 1 > n THEN 0 ELSE n - 1 + 1
    BY FS_Interval
  <2>. QED BY <2>1, <2>2
<1>4. Cardinality(1..Args[c]) = Args[c]
  BY <1>1, <1>3
<1>. QED
  BY <1>2, <1>4 DEF Indices

\* Steps that leave the tasks where they are, or drop the one worker w holds.
LEMMA DropPlacement ==
    ASSUME TypeOK, Placement, NEW w \in Workers,
           \/ func' = func
           \/ func' = [func EXCEPT ![w] = NoTask],
           UNCHANGED <<functionQueue, results, cnt>>,
           \A c \in Clients : Submitted(c) => Submitted(c)'
    PROVE  Placement'
<1>1. Queued' = Queued /\ Done' = Done
  BY DEF Queued, Done
<1>2. \A v \in Workers : func'[v] = func[v] \/ func'[v] = NoTask
  BY DEF TypeOK
<1>3. Held' \subseteq Held
  BY <1>2 DEF Held
<1>4. OnePlace'
  BY <1>1, <1>2, <1>3 DEF Placement, OnePlace
<1>. QED
  BY <1>1, <1>3, <1>4 DEF Placement

\* Line 84: the head of the queue moves to the worker.
LEMMA TakePlacement ==
    ASSUME TypeOK, Placement, NEW w \in Workers, wpc[w] \notin Holding,
           Take(w), UNCHANGED clientVars
    PROVE  Placement'
<1>. DEFINE h == Head(functionQueue)
<1>0. /\ functionQueue \in Seq(Tasks)
      /\ functionQueue # <<>>
      /\ Len(functionQueue) \in Nat \ {0}
      /\ functionQueue' = Tail(functionQueue)
  BY DEF TypeOK, Take
<1>1. /\ Len(functionQueue') = Len(functionQueue) - 1
      /\ \A k \in 1..Len(functionQueue') :
            k + 1 \in 1..Len(functionQueue) /\ functionQueue'[k] = functionQueue[k + 1]
  BY <1>0
<1>2. h = functionQueue[1] /\ 1 \in 1..Len(functionQueue) /\ h \in Tasks
  BY <1>0
<1>. HIDE DEF h
<1>3. h \in Queued /\ h # NoTask
  BY <1>2, NoTaskAssumption DEF Queued
<1>4. Queued' \subseteq Queued \ {h}
  <2>1. \A k \in 1..Len(functionQueue') : functionQueue'[k] # h
    <3>. SUFFICES ASSUME NEW k \in 1..Len(functionQueue'), functionQueue'[k] = h
                  PROVE  FALSE
      OBVIOUS
    <3>1. k + 1 = 1
      BY <1>1, <1>2 DEF Placement, OnePlace
    <3>. QED BY <3>1
  <2>. QED
    BY <1>1, <2>1 DEF Queued
<1>5. /\ func' = [func EXCEPT ![w] = h]
      /\ func[w] = NoTask
      /\ func' [w] = h
      /\ \A v \in Workers \ {w} : func'[v] = func[v]
  BY DEF Take, TypeOK, h
<1>6. Held' \subseteq Held \cup {h}
  BY <1>5 DEF Held
<1>7. Done' = Done /\ \A c \in Clients : Submitted(c)' = Submitted(c)
  BY DEF Done, Submitted, clientVars
<1>8. h \notin Held /\ h \notin Done
  BY <1>3 DEF Placement, OnePlace
<1>9. OnePlace'
  <2>1. \A j, k \in 1..Len(functionQueue') :
            functionQueue'[j] = functionQueue'[k] => j = k
    BY <1>0, <1>1 DEF Placement, OnePlace
  <2>2. \A v \in Workers : func[v] # h
    BY <1>3, <1>8 DEF Held
  <2>3. \A u, v \in Workers : func'[u] = func'[v] /\ func'[u] # NoTask => u = v
    BY <1>5, <2>2 DEF Placement, OnePlace
  <2>4. /\ (Queued \cap Held = {})' /\ (Queued \cap Done = {})'
        /\ (Held \cap Done = {})'
    BY <1>4, <1>6, <1>7, <1>8 DEF Placement, OnePlace
  <2>. QED
    BY <2>1, <2>3, <2>4 DEF Placement, OnePlace, clientVars
<1>10. \A c \in Clients : ~Submitted(c)' =>
        \A i \in Indices(c) : <<c, i>> \notin Queued' \cup Held' \cup Done'
  BY <1>3, <1>4, <1>6, <1>7 DEF Placement
<1>. QED
  BY <1>9, <1>10 DEF Placement, clientVars

\* Lines 36-40: a task that is held becomes one that is done, and counted.
LEMMA AcceptPlacement ==
    ASSUME TypeOK, Placement, NEW w \in Workers, Accept(w)
    PROVE  Placement'
<1>. DEFINE t == func[w]
            c == t[1]
            i == t[2]
<1>1. t \in Tasks /\ t # NoTask /\ t \in Held
  BY NoTaskAssumption DEF TypeOK, Accept, Holding, Held
<1>2. c \in Clients /\ i \in Indices(c) /\ i \in Nat /\ t = <<c, i>>
  <2>. HIDE DEF t
  <2>. QED BY <1>1, TaskParts
<1>3. /\ results' = [results EXCEPT ![c] = @ \cup {i}]
      /\ cnt' = [cnt EXCEPT ![c] = @ + 1]
      /\ cpc' = cpc \/ (cpc[c] = "waiting" /\ cpc' = [cpc EXCEPT ![c] = "loop"])
      /\ functionQueue' = functionQueue
      /\ func' = [func EXCEPT ![w] = NoTask]
  BY DEF Accept
<1>. HIDE DEF c, i
<1>4. i \notin results[c]
  BY <1>1, <1>2, DoneIff DEF Placement, OnePlace
<1>5. /\ func'[w] = NoTask
      /\ \A v \in Workers \ {w} : func'[v] = func[v]
  BY <1>3 DEF TypeOK
<1>. HIDE DEF t
<1>6. Held' \subseteq Held \ {t}
  <2>1. \A v \in Workers \ {w} : func[v] # t
    BY <1>1 DEF Placement, OnePlace, t
  <2>. QED BY <1>5, <2>1 DEF Held
<1>7. Queued' = Queued
  BY <1>3 DEF Queued
<1>8. /\ results'[c] = results[c] \cup {i}
      /\ cnt'[c] = cnt[c] + 1
      /\ \A d \in Clients \ {c} : results'[d] = results[d] /\ cnt'[d] = cnt[d]
  BY <1>2, <1>3 DEF TypeOK
<1>9. Done' \subseteq Done \cup {t}
  BY <1>2, <1>8 DEF Done
<1>10. \A d \in Clients : Submitted(d)' = Submitted(d)
  BY <1>3 DEF TypeOK, Submitted
<1>11. Submitted(c)
  <2>. SUFFICES ASSUME ~Submitted(c) PROVE FALSE
    OBVIOUS
  <2>1. <<c, i>> \notin Held
    BY <1>2 DEF Placement
  <2>. QED BY <1>1, <1>2, <2>1
<1>12. \A d \in Clients : cnt'[d] = Cardinality(results'[d])
  <2>1. IsFiniteSet(results[c])
    BY <1>2, IndicesFinite, FS_Subset DEF Placement
  <2>2. Cardinality(results[c] \cup {i}) = Cardinality(results[c]) + 1
    BY <2>1, <1>4, FS_AddElement
  <2>. QED
    BY <2>2, <1>2, <1>8 DEF Placement, OnePlace
<1>13. OnePlace'
  <2>1. \A u, v \in Workers : func'[u] = func'[v] /\ func'[u] # NoTask => u = v
    BY <1>5 DEF Placement, OnePlace
  <2>2. /\ (Queued \cap Held = {})' /\ (Queued \cap Done = {})'
        /\ (Held \cap Done = {})'
    BY <1>1, <1>6, <1>7, <1>9 DEF Placement, OnePlace
  <2>. QED
    BY <1>3, <1>12, <2>1, <2>2 DEF Placement, OnePlace
<1>14. \A d \in Clients : results'[d] \subseteq Indices(d)
  BY <1>2, <1>8 DEF Placement
<1>15. \A d \in Clients : ~Submitted(d)' =>
        \A k \in Indices(d) : <<d, k>> \notin Queued' \cup Held' \cup Done'
  <2>. SUFFICES ASSUME NEW d \in Clients, ~Submitted(d), NEW k \in Indices(d)
                PROVE  <<d, k>> \notin Queued' \cup Held' \cup Done'
    BY <1>10
  <2>1. <<d, k>> # t
    BY <1>2, <1>11
  <2>2. <<d, k>> \notin Queued \cup Held \cup Done
    BY DEF Placement
  <2>. QED
    BY <1>6, <1>7, <1>9, <2>1, <2>2
<1>. QED
  BY <1>13, <1>14, <1>15 DEF Placement

\* The elements of a concatenation.
LEMMA ConcatElements ==
    ASSUME NEW S, NEW s \in Seq(S), NEW t \in Seq(S)
    PROVE  /\ Len(s \o t) = Len(s) + Len(t)
           /\ \A k \in 1..Len(s) : (s \o t)[k] = s[k]
           /\ \A k \in (Len(s) + 1)..(Len(s) + Len(t)) :
                k - Len(s) \in 1..Len(t) /\ (s \o t)[k] = t[k - Len(s)]
OBVIOUS

\* Line 125: the tasks of a list are new, and are queued once each.
LEMMA AddPlacement ==
    ASSUME TypeOK, Placement, NEW c \in Clients, Add(c)
    PROVE  Placement'
<1>. DEFINE q == functionQueue
            n == Len(q)
            m == Args[c]
<1>0. m \in Nat /\ n \in Nat /\ q \in Seq(Tasks)
  BY ArgsAssumption DEF TypeOK
<1>1. /\ q' = q \o TasksOf(c)
      /\ cpc' = [cpc EXCEPT ![c] = "loop"]
      /\ ~Submitted(c)
      /\ UNCHANGED <<func, results, cnt>>
  BY DEF Add, Submitted
<1>2. /\ TasksOf(c) \in Seq(Tasks)
      /\ Len(TasksOf(c)) = m
      /\ \A i \in 1..m : TasksOf(c)[i] = <<c, i>>
  BY <1>0, TaskOf DEF TasksOf, Indices
<1>. HIDE DEF q, n, m
<1>3. /\ Len(q') = n + m
      /\ \A k \in 1..n : q'[k] = q[k]
      /\ \A k \in (n + 1)..(n + m) : k - n \in 1..m /\ q'[k] = <<c, k - n>>
  <2>1. /\ Len(q') = Len(q) + Len(TasksOf(c))
        /\ \A k \in 1..Len(q) : q'[k] = q[k]
        /\ \A k \in (Len(q) + 1)..(Len(q) + Len(TasksOf(c))) :
             k - Len(q) \in 1..Len(TasksOf(c)) /\ q'[k] = TasksOf(c)[k - Len(q)]
    BY <1>0, <1>1, <1>2, ConcatElements, Zenon
  <2>. QED
    BY <1>0, <1>2, <2>1 DEF n
<1>4. \A k \in 1..n, i \in 1..m : q[k] # <<c, i>>
  BY <1>1 DEF Placement, Queued, Indices, q, n, m
<1>5. \A j, k \in 1..Len(q') : q'[j] = q'[k] => j = k
  <2>. SUFFICES ASSUME NEW j \in 1..(n + m), NEW k \in 1..(n + m), q'[j] = q'[k]
                PROVE  j = k
    BY <1>3
  <2>1. CASE j <= n /\ k <= n
    BY <1>0, <1>3, <2>1 DEF Placement, OnePlace, q, n
  <2>2. CASE j > n /\ k > n
    BY <1>0, <1>3, <2>2
  <2>3. CASE j <= n /\ k > n
    <3>1. q'[k] = <<c, k - n>> /\ k - n \in 1..m /\ q'[j] = q[j] /\ j \in 1..n
      BY <1>0, <1>3, <2>3
    <3>. QED BY <1>4, <3>1
  <2>4. CASE j > n /\ k <= n
    <3>1. q'[j] = <<c, j - n>> /\ j - n \in 1..m /\ q'[k] = q[k] /\ k \in 1..n
      BY <1>0, <1>3, <2>4
    <3>. QED BY <1>4, <3>1
  <2>. QED
    BY <1>0, <2>1, <2>2, <2>3, <2>4
<1>6. Queued' \subseteq Queued \cup {<<c, i>> : i \in Indices(c)}
  <2>. SUFFICES ASSUME NEW k \in 1..(n + m)
                PROVE  q'[k] \in Queued \cup {<<c, i>> : i \in Indices(c)}
    BY <1>3 DEF Queued, q
  <2>1. CASE k <= n
    BY <1>0, <1>3, <2>1 DEF Queued, q, n
  <2>2. CASE k > n
    <3>1. k - n \in 1..m /\ q'[k] = <<c, k - n>>
      BY <1>0, <1>3, <2>2
    <3>2. k - n \in Indices(c)
      BY <3>1 DEF Indices, m
    <3>. QED BY <3>1, <3>2
  <2>. QED BY <1>0, <2>1, <2>2
<1>7. Held' = Held /\ Done' = Done
  BY <1>1 DEF Held, Done
<1>8. \A i \in Indices(c) : <<c, i>> \notin Queued \cup Held \cup Done
  BY <1>1 DEF Placement
<1>9. \A d \in Clients : ~Submitted(d)' => d # c /\ ~Submitted(d)
  BY <1>1 DEF TypeOK, Submitted
<1>10. OnePlace'
  <2>1. (Queued \cap Held = {})' /\ (Queued \cap Done = {})' /\ (Held \cap Done = {})'
    BY <1>6, <1>7, <1>8 DEF Placement, OnePlace
  <2>. QED
    BY <1>1, <1>5, <2>1 DEF Placement, OnePlace, q
<1>11. \A d \in Clients : ~Submitted(d)' =>
        \A i \in Indices(d) : <<d, i>> \notin Queued' \cup Held' \cup Done'
  BY <1>6, <1>7, <1>9 DEF Placement
<1>. QED
  BY <1>1, <1>10, <1>11 DEF Placement

LEMMA InitPlacement == Init => Placement
<1>. SUFFICES ASSUME Init PROVE Placement
  OBVIOUS
<1>1. Queued = {} /\ Held = {} /\ Done = {}
  BY DEF Init, Queued, Held, Done
<1>. QED
  BY <1>1, FS_EmptySet DEF Init, Placement, OnePlace

\* Every step of a worker keeps each task in one place.
LEMMA WorkerStepPlacement ==
    ASSUME TypeOK, Placement, NEW w \in Workers,
           WorkerStep(w) \/ SpuriousWakeup(w)
    PROVE  Placement'
<1>1. CASE Take(w) /\ (Enter(w) \/ Resume(w))
  BY <1>1, TakePlacement DEF Enter, Resume, Holding
<1>2. CASE Accept(w)
  BY <1>2, AcceptPlacement
<1>3. CASE Checked(w) \/ Run(w)
  BY <1>3, DropPlacement
     DEF Checked, Run, Throws, Dies, Swallows, Computes, clientVars, Submitted
<1>4. CASE \/ Enter(w) /\ (LeaveAtTop(w) \/ Await(w))
           \/ Resume(w) /\ (LeaveWoken(w) \/ Await(w))
           \/ WaitInterrupted(w) \/ Exit(w) \/ SpuriousWakeup(w)
  BY <1>4, DropPlacement
     DEF Enter, LeaveAtTop, Await, Resume, LeaveWoken, WaitInterrupted, Exit,
         SpuriousWakeup, clientVars, Submitted
<1>. QED
  BY <1>1, <1>2, <1>3, <1>4 DEF WorkerStep, Enter, Resume

\* Steps that touch neither the tasks nor the results, and unsubmit nothing.
LEMMA QuietPlacement ==
    ASSUME Placement, UNCHANGED <<functionQueue, func, results, cnt>>,
           \A c \in Clients : Submitted(c) => Submitted(c)'
    PROVE  Placement'
<1>1. Queued' = Queued /\ Held' = Held /\ Done' = Done
  BY DEF Queued, Held, Done
<1>. QED
  BY <1>1 DEF Placement, OnePlace

LEMMA NextPlacement == TypeOK /\ Placement /\ [Next]_vars => Placement'
<1>. SUFFICES ASSUME TypeOK, Placement, [Next]_vars PROVE Placement'
  OBVIOUS
<1>1. ASSUME NEW w \in Workers, WorkerStep(w) \/ SpuriousWakeup(w)
      PROVE  Placement'
  BY <1>1, WorkerStepPlacement
<1>2. ASSUME NEW c \in Clients, Add(c)
      PROVE  Placement'
  BY <1>2, AddPlacement
<1>3. ASSUME NEW c \in Clients,
             \/ Start(c) \/ Loop(c) \/ CallInterrupted(c)
             \/ SpuriousReturn(c) \/ InterruptCall(c)
      PROVE  Placement'
  <2>1. UNCHANGED <<functionQueue, func, results, cnt>>
    BY <1>3 DEF Start, Loop, CallInterrupted, SpuriousReturn, InterruptCall, queueVars
  <2>2. \A d \in Clients : Submitted(d) => Submitted(d)'
    BY <1>3 DEF TypeOK, Submitted, Start, Loop, CallInterrupted, SpuriousReturn, InterruptCall
  <2>. QED BY <2>1, <2>2, QuietPlacement
<1>4. CASE Close \/ CloserStep \/ InterruptCloser \/ UNCHANGED vars
  BY <1>4, QuietPlacement
     DEF Close, CloserStep, Visit, WakeAll, CloseReturns, Join, JoinInterrupted,
         InterruptCloser, vars, queueVars, clientVars, Submitted
<1>. QED
  BY <1>1, <1>2, <1>3, <1>4 DEF Next, CallStep

\* f is applied at most once per argument, no result is set twice, and cnt is
\* the number of positions that are set: isFull() means what it says.
THEOREM OncePerTask == Spec => []OnePlace
<1>1. Placement => OnePlace
  BY DEF Placement
<1>. QED
  BY <1>1, InitPlacement, TypeCorrect, NextPlacement, PTL DEF Spec

-----------------------------------------------------------------------------
(* An open mapper: until close() is called, aClose keeps its value and no  *)
(* worker is interrupted.                                                  *)

OpenInv ==
    closes = 0 =>
        /\ aCloseValues = {Threads}
        /\ \A w \in Workers : ~interrupted[w]
        /\ kpc = "idle"

LEMMA InitOpen == Init => OpenInv
BY DEF Init, OpenInv, InitialAClose

LEMMA NextOpen == TypeOK /\ OpenInv /\ [Next]_vars => OpenInv'
<1>. SUFFICES ASSUME TypeOK, OpenInv, [Next]_vars, closes' = 0
              PROVE  OpenInv'
  BY DEF OpenInv
<1>1. closes = 0
  BY BoundsAssumption
     DEF TypeOK, Next, vars, WorkerStep, Enter, Resume, WaitInterrupted, Checked,
         Run, Accept, Exit, SpuriousWakeup, CallStep, Start, Add, Loop,
         CallInterrupted, SpuriousReturn, InterruptCall, Close, CloserStep, Visit,
         WakeAll, CloseReturns, Join, JoinInterrupted, InterruptCloser, closeVars
<1>2. /\ aCloseValues = {Threads}
      /\ \A w \in Workers : ~interrupted[w]
      /\ kpc = "idle"
  BY <1>1 DEF OpenInv
<1>3. CASE Close
  BY <1>1, <1>3, BoundsAssumption DEF Close, TypeOK
<1>4. ASSUME NEW w \in Workers, WorkerStep(w) \/ SpuriousWakeup(w)
      PROVE  OpenInv'
  <2>1. CASE Exit(w)
    <3>1. PICK seen \in {v \in aCloseValues : v <= 0} :
                aCloseValues' = aCloseValues \cup {seen - 1}
      BY <2>1 DEF Exit
    <3>. QED
      BY <1>2, <2>1, <3>1, ThreadsAssumption DEF Workers, OpenInv
  <2>. QED
    BY <1>2, <1>4, <2>1
       DEF OpenInv, WorkerStep, Enter, Take, Await, LeaveAtTop, Resume, LeaveWoken,
           WaitInterrupted, Checked, Run, Throws, Dies, Swallows, Computes, Accept,
           SpuriousWakeup, flagVars, closeVars
<1>5. ASSUME NEW c \in Clients,
             CallStep(c) \/ SpuriousReturn(c) \/ InterruptCall(c)
      PROVE  OpenInv'
  BY <1>2, <1>5
     DEF OpenInv, CallStep, Start, Add, Loop, CallInterrupted, SpuriousReturn,
         InterruptCall, flagVars, closeVars
<1>6. CASE CloserStep \/ InterruptCloser \/ UNCHANGED vars
  BY <1>2, <1>6
     DEF OpenInv, CloserStep, Visit, WakeAll, CloseReturns, Join, JoinInterrupted,
         InterruptCloser, flagVars, vars
<1>. QED
  BY <1>3, <1>4, <1>5, <1>6 DEF Next

\* A full list is the whole list.
LEMMA FilledIsWhole ==
    ASSUME Placement, NEW c \in Clients, Filled(c, cnt[c])
    PROVE  results[c] = Indices(c)
<1>1. /\ results[c] \subseteq Indices(c)
      /\ Cardinality(results[c]) = Cardinality(Indices(c))
  BY IndicesFinite DEF Placement, OnePlace, Filled
<1>. QED
  BY <1>1, IndicesFinite, FS_Subset

\* The results of a call only grow, and only within its list.
LEMMA ResultsGrow ==
    TypeOK /\ Placement /\ [Next]_vars
        => \A c \in Clients : results[c] \subseteq results'[c]
<1>. SUFFICES ASSUME TypeOK, Placement, [Next]_vars
              PROVE  \A c \in Clients : results[c] \subseteq results'[c]
  OBVIOUS
<1>1. ASSUME NEW w \in Workers, Accept(w)
      PROVE  \A c \in Clients : results[c] \subseteq results'[c]
  BY <1>1 DEF Accept, TypeOK
<1>2. CASE UNCHANGED results
  BY <1>2
<1>. QED
  BY <1>1, <1>2
     DEF Next, vars, WorkerStep, Enter, Resume, WaitInterrupted, Checked,
         Run, Exit, SpuriousWakeup, CallStep, Start, Add, Loop,
         CallInterrupted, SpuriousReturn, InterruptCall, Close, CloserStep, Visit,
         WakeAll, CloseReturns, Join, JoinInterrupted, InterruptCloser, clientVars

LEMMA NextComplete ==
    /\ TypeOK /\ Placement /\ Placement' /\ OpenInv /\ OpenInv'
    /\ ResultComplete /\ RejectedOnlyIfClosed /\ [Next]_vars
    => ResultComplete' /\ RejectedOnlyIfClosed'
<1>. SUFFICES ASSUME TypeOK, Placement, Placement', OpenInv, OpenInv',
                     ResultComplete, RejectedOnlyIfClosed, [Next]_vars
              PROVE  ResultComplete' /\ RejectedOnlyIfClosed'
  OBVIOUS
<1>0. closes' \in Nat
  <2>1. TypeOK'
    BY NextTypeOK
  <2>. QED BY <2>1, BoundsAssumption DEF TypeOK
<1>. SUFFICES ASSUME closes' = 0, NEW c \in Clients
              PROVE  /\ cpc'[c] = "returned" => results'[c] = Indices(c)
                     /\ Threads > 0 => cpc'[c] # "rejected"
  BY <1>0 DEF ResultComplete, RejectedOnlyIfClosed
<1>1. closes = 0
  BY BoundsAssumption
     DEF TypeOK, Next, vars, WorkerStep, Enter, Resume, WaitInterrupted, Checked,
         Run, Accept, Exit, SpuriousWakeup, CallStep, Start, Add, Loop,
         CallInterrupted, SpuriousReturn, InterruptCall, Close, CloserStep, Visit,
         WakeAll, CloseReturns, Join, JoinInterrupted, InterruptCloser, closeVars
<1>2. aCloseValues = {Threads}
  BY <1>1 DEF OpenInv
<1>3. /\ cpc[c] = "returned" => results[c] = Indices(c)
      /\ Threads > 0 => cpc[c] # "rejected"
  BY <1>1 DEF ResultComplete, RejectedOnlyIfClosed
<1>4. results[c] \subseteq results'[c] /\ results'[c] \subseteq Indices(c)
  BY ResultsGrow DEF Placement
<1>5. CASE Loop(c)
  <2>1. cpc'[c] = "returned" => Filled(c, cnt[c])
    BY <1>2, <1>5, ThreadsAssumption DEF Loop, TypeOK
  <2>2. cpc'[c] # "rejected"
    BY <1>5 DEF Loop, TypeOK
  <2>. QED BY <2>1, <2>2, <1>4, FilledIsWhole
<1>6. CASE Start(c)
  BY <1>2, <1>6, ThreadsAssumption DEF Start, TypeOK
<1>7. CASE cpc'[c] = cpc[c] \/ cpc'[c] \notin {"returned", "rejected"}
  BY <1>3, <1>4, <1>7
<1>8. ASSUME NEW w \in Workers, Accept(w)
      PROVE  cpc'[c] = cpc[c] \/ cpc'[c] = "loop"
  BY <1>8 DEF Accept, TypeOK
<1>9. ASSUME NEW d \in Clients \ {c},
             CallStep(d) \/ SpuriousReturn(d) \/ InterruptCall(d)
      PROVE  cpc'[c] = cpc[c]
  BY <1>9 DEF TypeOK, CallStep, Start, Add, Loop, CallInterrupted, SpuriousReturn,
              InterruptCall
<1>10. CASE \/ Add(c) \/ CallInterrupted(c) \/ SpuriousReturn(c) \/ InterruptCall(c)
  BY <1>7, <1>10 DEF TypeOK, Add, CallInterrupted, SpuriousReturn, InterruptCall
<1>11. CASE UNCHANGED cpc
  BY <1>7, <1>11
<1>. QED
  BY <1>5, <1>6, <1>7, <1>8, <1>9, <1>10, <1>11
     DEF Next, vars, WorkerStep, Enter, Resume, WaitInterrupted, Checked,
         Run, Exit, SpuriousWakeup, CallStep, Close, CloserStep, Visit,
         WakeAll, CloseReturns, Join, JoinInterrupted, InterruptCloser, clientVars

\* While nobody closes the mapper map() returns only whole lists, and accepts
\* every call (lines 112 and 130).
THEOREM WholeResults == Spec => [](ResultComplete /\ RejectedOnlyIfClosed)
<1>1. Init => ResultComplete /\ RejectedOnlyIfClosed
  BY DEF Init, ResultComplete, RejectedOnlyIfClosed
<1>. QED
  BY <1>1, TypeCorrect, InitPlacement, NextPlacement, InitOpen, NextOpen,
     NextComplete, PTL DEF Spec

-----------------------------------------------------------------------------
(* close() is complete: a worker that ended stays ended, so the threads    *)
(* close() skipped (not alive when it looked, line 148) and those it has   *)
(* joined (line 156) are all of them when threadList is empty.             *)

Accounted(w) == wpc[w] = "dead" \/ w \in threadList

CloseInv ==
    /\ kpc = "visit" => \A w \in Workers : w < kvisit => Accounted(w)
    /\ kpc = "join" => \A w \in Workers : Accounted(w)
    /\ ClosedMeansDead

\* No step brings an ended thread back.
LEMMA DeadStayDead ==
    ASSUME TypeOK, [Next]_vars, NEW w \in Workers, wpc[w] = "dead"
    PROVE  wpc'[w] = "dead"
<1>0. wpc \in [Workers -> WorkerStates]
  BY DEF TypeOK
<1>1. ASSUME NEW v \in Workers, NEW s \in WorkerStates, wpc[v] # "dead"
      PROVE  /\ Moved(v, s) \in [Workers -> WorkerStates]
             /\ Moved(v, s)[w] = "dead"
  BY <1>0, <1>1 DEF Moved
<1>2. ASSUME NEW pc \in [Workers -> WorkerStates], pc[w] = "dead",
             wpc' \in NotifyOne(pc)
      PROVE  wpc'[w] = "dead"
  BY <1>2, NotifyOneMoves
<1>3. ASSUME NEW v \in Workers, WorkerStep(v) \/ SpuriousWakeup(v)
      PROVE  wpc'[w] = "dead"
  <2>1. wpc[v] # "dead"
    BY <1>3 DEF WorkerStep, Enter, Resume, WaitInterrupted, Checked, Run, Accept,
                Exit, SpuriousWakeup
  <2>2. \E s \in WorkerStates : wpc' = Moved(v, s) \/ wpc' \in NotifyOne(Moved(v, s))
    BY <1>3 DEF WorkerStep, Enter, Take, Await, LeaveAtTop, Resume, LeaveWoken,
                WaitInterrupted, Checked, Run, Throws, Dies, Swallows, Computes, Accept,
                Exit, SpuriousWakeup, WorkerStates
  <2>. QED BY <1>1, <1>2, <2>1, <2>2
<1>4. ASSUME NEW c \in Clients,
             CallStep(c) \/ SpuriousReturn(c) \/ InterruptCall(c)
      PROVE  wpc'[w] = "dead"
  <2>1. CASE Add(c)
    BY <1>0, <1>2, <2>1 DEF Add
  <2>2. CASE UNCHANGED wpc
    BY <2>2
  <2>. QED
    BY <1>4, <2>1, <2>2 DEF CallStep, Start, Loop, CallInterrupted, SpuriousReturn,
                            InterruptCall, queueVars
<1>5. CASE WakeAll
  BY <1>0, <1>5, NotifyAllMoves DEF WakeAll
<1>6. CASE UNCHANGED wpc
  BY <1>6
<1>. QED
  BY <1>3, <1>4, <1>5, <1>6
     DEF Next, vars, Close, CloserStep, Visit, CloseReturns, Join,
         JoinInterrupted, InterruptCloser, queueVars

LEMMA InitCloseInv == Init => CloseInv
BY DEF Init, CloseInv, ClosedMeansDead

\* A step of close() itself.
LEMMA CloserStepCloseInv ==
    ASSUME TypeOK, CloseInv, Close \/ CloserStep \/ InterruptCloser
    PROVE  CloseInv'
<1>1. CASE Close
  <2>1. kvisit' = 0 /\ kpc' = "visit"
    BY <1>1 DEF Close
  <2>2. \A w \in Workers : ~(w < kvisit')
    BY <2>1, ThreadsAssumption DEF Workers
  <2>. QED BY <2>1, <2>2 DEF CloseInv, ClosedMeansDead
<1>2. CASE Visit
  <2>1. /\ kpc = "visit" /\ kpc' = "visit"
        /\ kvisit \in Workers /\ kvisit' = kvisit + 1
        /\ wpc' = wpc
        /\ threadList \subseteq threadList'
        /\ wpc[kvisit] # "dead" => kvisit \in threadList'
    BY <1>2 DEF Visit, queueVars
  <2>2. ASSUME NEW w \in Workers, w < kvisit'
        PROVE  Accounted(w)'
    <3>1. w < kvisit \/ w = kvisit
      BY <2>1, <2>2, ThreadsAssumption DEF Workers
    <3>. QED BY <2>1, <3>1 DEF CloseInv, Accounted
  <2>. QED BY <2>1, <2>2 DEF CloseInv, ClosedMeansDead
<1>3. CASE WakeAll
  <2>1. \A w \in Workers : w < kvisit
    BY <1>3, ThreadsAssumption DEF WakeAll, TypeOK, Workers
  <2>2. \A w \in Workers : wpc[w] = "dead" => wpc'[w] = "dead"
    BY <1>3, NotifyAllMoves DEF WakeAll, TypeOK
  <2>. QED
    BY <1>3, <2>1, <2>2 DEF WakeAll, CloseInv, Accounted, ClosedMeansDead
<1>4. ASSUME NEW v \in Workers, Join(v)
      PROVE  CloseInv'
  BY <1>4 DEF Join, queueVars, CloseInv, Accounted, ClosedMeansDead
<1>5. ASSUME NEW v \in Workers, JoinInterrupted(v)
      PROVE  CloseInv'
  BY <1>5 DEF JoinInterrupted, queueVars, CloseInv, Accounted, ClosedMeansDead
<1>6. CASE CloseReturns
  BY <1>6 DEF CloseReturns, queueVars, CloseInv, Accounted, ClosedMeansDead
<1>7. CASE InterruptCloser
  BY <1>7 DEF InterruptCloser, queueVars, CloseInv, Accounted, ClosedMeansDead
<1>. QED
  BY <1>1, <1>2, <1>3, <1>4, <1>5, <1>6, <1>7 DEF CloserStep

LEMMA NextCloseInv == TypeOK /\ CloseInv /\ [Next]_vars => CloseInv'
<1>. SUFFICES ASSUME TypeOK, CloseInv, [Next]_vars
              PROVE  CloseInv'
  OBVIOUS
<1>1. CASE Close \/ CloserStep \/ InterruptCloser
  BY <1>1, CloserStepCloseInv
<1>2. CASE UNCHANGED closeVars
  <2>1. \A w \in Workers : wpc[w] = "dead" => wpc'[w] = "dead"
    BY DeadStayDead
  <2>. QED
    BY <1>2, <2>1 DEF closeVars, CloseInv, Accounted, ClosedMeansDead
<1>. QED
  BY <1>1, <1>2
     DEF Next, vars, closeVars, WorkerStep, Enter, Resume, WaitInterrupted, Checked,
         Run, Accept, Exit, SpuriousWakeup, CallStep, Start, Add, Loop,
         CallInterrupted, SpuriousReturn, InterruptCall

\* When close() has returned all the threads of the mapper have ended, however
\* often its own thread was interrupted while it joined them (lines 153-160).
THEOREM CloseIsComplete == Spec => []ClosedMeansDead
<1>1. CloseInv => ClosedMeansDead
  BY DEF CloseInv
<1>. QED
  BY <1>1, TypeCorrect, InitCloseInv, NextCloseInv, PTL DEF Spec

-----------------------------------------------------------------------------
(* The mapper implements MapperPromise.                                    *)

StatusOf == [c \in Clients |-> CallStatus(c)]

\* A step that changes the position of call c only, and nothing that the
\* promise is about, changes the status of c only.
LEMMA StatusMoves ==
    ASSUME TypeOK, NEW c \in Clients, NEW s \in CallStates,
           cpc' = [cpc EXCEPT ![c] = s]
    PROVE  /\ \A d \in Clients \ {c} : CallStatus(d)' = CallStatus(d)
           /\ StatusOf' = [StatusOf EXCEPT ![c] = CallStatus(c)']
<1>1. \A d \in Clients \ {c} : cpc'[d] = cpc[d]
  BY DEF TypeOK
<1>2. \A d \in Clients \ {c} : CallStatus(d)' = CallStatus(d)
  BY <1>1 DEF CallStatus
<1>. QED
  BY <1>2 DEF StatusOf

\* The status that goes with each position.
LEMMA StatusValues ==
    ASSUME NEW c \in Clients
    PROVE  /\ cpc[c] \in {"start", "add"} => CallStatus(c) = "new"
           /\ cpc[c] \in {"loop", "waiting"} => CallStatus(c) = "pending"
           /\ cpc[c] = "returned" => CallStatus(c) = "answered"
           /\ cpc[c] = "thrown" => CallStatus(c) = "failed"
           /\ cpc[c] = "rejected" => CallStatus(c) = "refused"
BY DEF CallStatus

\* ResultCollector.set computes a new value of a submitted call.
LEMMA AcceptImplements ==
    ASSUME TypeOK, Placement, NEW w \in Workers, Accept(w)
    PROVE  Promise!PNext
<1>. DEFINE t == func[w]
            c == t[1]
            i == t[2]
<1>1. t \in Tasks /\ t # NoTask /\ t \in Held
  BY NoTaskAssumption DEF TypeOK, Accept, Holding, Held
<1>2. c \in Clients /\ i \in Indices(c) /\ t = <<c, i>>
  <2>. HIDE DEF t
  <2>. QED BY <1>1, TaskParts
<1>3. /\ results' = [results EXCEPT ![c] = @ \cup {i}]
      /\ cpc' = cpc \/ (cpc[c] = "waiting" /\ cpc' = [cpc EXCEPT ![c] = "loop"])
      /\ UNCHANGED closes
  BY DEF Accept, closeVars
<1>. HIDE DEF c, i, t
<1>4. i \notin results[c]
  BY <1>1, <1>2, DoneIff DEF Placement, OnePlace
<1>5. cpc[c] \notin {"start", "add", "rejected"}
  <2>. SUFFICES ASSUME ~Submitted(c) PROVE FALSE
    BY DEF Submitted
  <2>1. <<c, i>> \notin Held
    BY <1>2 DEF Placement
  <2>. QED BY <1>1, <1>2, <2>1
<1>6. CallStatus(c) \notin {"new", "refused"}
  <2>. cpc[c] \in {"loop", "waiting", "returned", "thrown"}
    BY <1>2, <1>5 DEF TypeOK, CallStates
  <2>. QED BY <1>2, StatusValues
<1>7. \A d \in Clients : CallStatus(d)' = CallStatus(d)
  <2>1. \A d \in Clients : cpc'[d] = cpc[d] \/ (cpc[d] = "waiting" /\ cpc'[d] = "loop")
    BY <1>2, <1>3 DEF TypeOK
  <2>. QED BY <2>1 DEF CallStatus
<1>8. Promise!Compute(c, i)
  BY <1>2, <1>3, <1>4, <1>6, <1>7 DEF Promise!Compute
<1>. QED
  BY <1>2, <1>8 DEF Promise!PNext, Promise!Positions, Indices

\* Each step of a call is a step of its abstract counterpart, or none.
LEMMA CallImplements ==
    ASSUME TypeOK, Placement, OpenInv, Threads > 0, NEW c \in Clients,
           CallStep(c) \/ SpuriousReturn(c) \/ InterruptCall(c)
    PROVE  Promise!PNext \/ UNCHANGED Promise!pvars
<1>0. UNCHANGED <<results, closes>>
  BY DEF CallStep, Start, Add, Loop, CallInterrupted, SpuriousReturn,
         InterruptCall, closeVars
<1>. USE StatusMoves, StatusValues DEF CallStates
<1>1. CASE Start(c)
  <2>1. CASE cpc' = [cpc EXCEPT ![c] = "rejected"]
    <3>1. cpc[c] = "start" /\ cpc'[c] = "rejected"
      BY <1>1, <2>1 DEF Start, TypeOK
    <3>2. closes # 0
      <4>. SUFFICES ASSUME closes = 0 PROVE FALSE
        OBVIOUS
      <4>1. PICK seen \in aCloseValues :
                cpc' = [cpc EXCEPT ![c] = IF seen <= 0 THEN "rejected" ELSE "add"]
        BY <1>1 DEF Start
      <4>2. seen = Threads
        BY DEF OpenInv
      <4>3. cpc'[c] = "add"
        BY <4>1, <4>2, ThreadsAssumption DEF TypeOK
      <4>. QED BY <3>1, <4>3
    <3>3. CallStatus(c) = "new" /\ CallStatus(c)' = "refused"
      BY <3>1 DEF CallStatus
    <3>4. StatusOf' = [StatusOf EXCEPT ![c] = "refused"]
      BY <2>1, <3>3
    <3>5. Promise!Refuse(c)
      BY <1>0, <3>2, <3>3, <3>4 DEF Promise!Refuse, StatusOf
    <3>. QED BY <3>5 DEF Promise!PNext
  <2>2. CASE cpc' = [cpc EXCEPT ![c] = "add"]
    <3>1. cpc[c] = "start" /\ cpc'[c] = "add"
      BY <1>1, <2>2 DEF Start, TypeOK
    <3>2. \A d \in Clients : CallStatus(d)' = CallStatus(d)
      <4>1. CallStatus(c)' = CallStatus(c)
        BY <3>1 DEF CallStatus
      <4>2. \A d \in Clients \ {c} : CallStatus(d)' = CallStatus(d)
        BY <2>2
      <4>. QED BY <4>1, <4>2
    <3>. QED BY <1>0, <3>2 DEF Promise!pvars
  <2>. QED BY <1>1, <2>1, <2>2 DEF Start
<1>2. CASE Add(c)
  <2>1. cpc[c] = "add" /\ cpc'[c] = "loop" /\ cpc' = [cpc EXCEPT ![c] = "loop"]
    BY <1>2 DEF Add, TypeOK
  <2>2. CallStatus(c) = "new" /\ CallStatus(c)' = "pending"
    BY <2>1 DEF CallStatus
  <2>3. StatusOf' = [StatusOf EXCEPT ![c] = "pending"]
    BY <2>1, <2>2
  <2>4. Promise!Submit(c)
    BY <1>0, <2>2, <2>3 DEF Promise!Submit, StatusOf
  <2>. QED BY <2>4 DEF Promise!PNext
<1>3. CASE Loop(c)
  <2>0. cpc[c] = "loop" /\ CallStatus(c) = "pending"
    BY <1>3 DEF Loop
  <2>1. CASE cpc' = [cpc EXCEPT ![c] = "returned"]
    <3>1. cpc'[c] = "returned" /\ CallStatus(c)' = "answered"
      BY <2>1 DEF TypeOK, CallStatus
    <3>2. closes = 0 => results[c] = Indices(c)
      <4>1. closes = 0 => Filled(c, cnt[c])
        <5>. SUFFICES ASSUME closes = 0, ~Filled(c, cnt[c]) PROVE FALSE
          OBVIOUS
        <5>1. aCloseValues = {Threads}
          BY DEF OpenInv
        <5>2. cpc' = [cpc EXCEPT ![c] = IF cint[c] THEN "thrown" ELSE "waiting"]
          BY <1>3, <5>1, ThreadsAssumption DEF Loop
        <5>3. cpc'[c] # "returned"
          BY <5>2 DEF TypeOK
        <5>. QED BY <3>1, <5>3
      <4>. QED BY <4>1, FilledIsWhole
    <3>3. StatusOf' = [StatusOf EXCEPT ![c] = "answered"]
      BY <2>1, <3>1
    <3>4. Promise!Answer(c)
      BY <1>0, <2>0, <3>2, <3>3 DEF Promise!Answer, Promise!Positions, StatusOf, Indices
    <3>. QED BY <3>4 DEF Promise!PNext
  <2>2. CASE cpc' = [cpc EXCEPT ![c] = "thrown"]
    <3>1. cpc'[c] = "thrown" /\ CallStatus(c)' = "failed"
      BY <2>2 DEF TypeOK, CallStatus
    <3>2. StatusOf' = [StatusOf EXCEPT ![c] = "failed"]
      BY <2>2, <3>1
    <3>3. Promise!Fail(c)
      BY <1>0, <2>0, <3>2 DEF Promise!Fail, StatusOf
    <3>. QED BY <3>3 DEF Promise!PNext
  <2>3. CASE cpc' = [cpc EXCEPT ![c] = "waiting"]
    <3>1. cpc'[c] = "waiting"
      BY <2>3 DEF TypeOK
    <3>2. \A d \in Clients : CallStatus(d)' = CallStatus(d)
      <4>1. CallStatus(c)' = CallStatus(c)
        BY <2>0, <3>1 DEF CallStatus
      <4>2. \A d \in Clients \ {c} : CallStatus(d)' = CallStatus(d)
        BY <2>3
      <4>. QED BY <4>1, <4>2
    <3>. QED BY <1>0, <3>2 DEF Promise!pvars
  <2>. QED BY <1>3, <2>1, <2>2, <2>3 DEF Loop
<1>4. CASE CallInterrupted(c)
  <2>1. cpc[c] = "waiting" /\ cpc'[c] = "thrown" /\ cpc' = [cpc EXCEPT ![c] = "thrown"]
    BY <1>4 DEF CallInterrupted, TypeOK
  <2>2. CallStatus(c) = "pending" /\ CallStatus(c)' = "failed"
    BY <2>1 DEF CallStatus
  <2>3. StatusOf' = [StatusOf EXCEPT ![c] = "failed"]
    BY <2>1, <2>2
  <2>4. Promise!Fail(c)
    BY <1>0, <2>2, <2>3 DEF Promise!Fail, StatusOf
  <2>. QED BY <2>4 DEF Promise!PNext
<1>5. CASE SpuriousReturn(c)
  <2>1. cpc[c] = "waiting" /\ cpc'[c] = "loop" /\ cpc' = [cpc EXCEPT ![c] = "loop"]
    BY <1>5 DEF SpuriousReturn, TypeOK
  <2>2. CallStatus(c)' = CallStatus(c)
    <3>1. CallStatus(c) = "pending"
      BY <2>1 DEF CallStatus
    <3>2. CallStatus(c)' = "pending"
      BY <2>1 DEF CallStatus
    <3>. QED BY <3>1, <3>2
  <2>3. ASSUME NEW d \in Clients \ {c}
        PROVE  CallStatus(d)' = CallStatus(d)
    <3>1. cpc'[d] = cpc[d]
      BY <2>1, <2>3 DEF TypeOK
    <3>. QED BY <3>1 DEF CallStatus
  <2>4. \A d \in Clients : CallStatus(d)' = CallStatus(d)
    BY <2>2, <2>3
  <2>. QED BY <1>0, <2>4 DEF Promise!pvars
<1>6. CASE InterruptCall(c)
  <2>. \A d \in Clients : CallStatus(d)' = CallStatus(d)
    BY <1>6 DEF InterruptCall, CallStatus
  <2>. QED BY <1>0 DEF Promise!pvars
<1>. QED
  BY <1>1, <1>2, <1>3, <1>4, <1>5, <1>6 DEF CallStep

\* A step of anybody else is close(), or changes nothing the callers see.
LEMMA OtherImplements ==
    ASSUME UNCHANGED <<cpc, results>>
    PROVE  \A d \in Clients : CallStatus(d)' = CallStatus(d)
BY DEF CallStatus

LEMMA NextImplements ==
    ASSUME Threads > 0
    PROVE  TypeOK /\ Placement /\ OpenInv /\ [Next]_vars
               => [Promise!PNext]_(Promise!pvars)
<1>. SUFFICES ASSUME TypeOK, Placement, OpenInv, [Next]_vars
              PROVE  Promise!PNext \/ UNCHANGED Promise!pvars
  OBVIOUS
<1>1. CASE Close
  <2>1. UNCHANGED <<cpc, results>> /\ closes' # 0
    BY <1>1, BoundsAssumption DEF Close, clientVars, TypeOK
  <2>2. Promise!Close
    BY <2>1, OtherImplements DEF Promise!Close
  <2>. QED BY <2>2 DEF Promise!PNext
<1>2. ASSUME NEW w \in Workers, WorkerStep(w) \/ SpuriousWakeup(w)
      PROVE  Promise!PNext \/ UNCHANGED Promise!pvars
  <2>1. CASE Accept(w)
    BY <2>1, AcceptImplements
  <2>2. CASE ~Accept(w)
    <3>1. UNCHANGED <<cpc, results, closes>>
      BY <1>2, <2>2 DEF WorkerStep, Enter, Resume, WaitInterrupted, Checked, Run, Exit,
                        SpuriousWakeup, clientVars, closeVars
    <3>. QED BY <3>1, OtherImplements DEF Promise!pvars
  <2>. QED BY <2>1, <2>2
<1>3. CASE CloserStep \/ InterruptCloser \/ UNCHANGED vars
  <2>1. UNCHANGED <<cpc, results, closes>>
    BY <1>3 DEF CloserStep, Visit, WakeAll, CloseReturns, Join, JoinInterrupted,
                InterruptCloser, vars, clientVars
  <2>. QED BY <2>1, OtherImplements DEF Promise!pvars
<1>. QED
  BY <1>1, <1>2, <1>3, CallImplements DEF Next

\* A mapper with at least one thread behaves, for its callers, as MapperPromise
\* says: each value computed once, whole lists while open, refusals only after
\* close().
THEOREM MapperImplementsPromise ==
    ASSUME Threads > 0
    PROVE  Spec => ImplementsPromise
<1>1. Init => Promise!PInit
  BY DEF Init, Promise!PInit, CallStatus
<1>2. TypeOK /\ Placement /\ OpenInv /\ [Next]_vars
        => [Promise!PNext]_(Promise!pvars)
  BY NextImplements
<1>. QED
  BY <1>1, <1>2, TypeCorrect, InitPlacement, NextPlacement, InitOpen, NextOpen,
     PTL DEF Spec, ImplementsPromise, Promise!PSpec
=============================================================================
